-------------------------- MODULE MCRequestResponse --------------------------
(* One request, made through a copy of WithTimeout, two handlers and a Close *)
(* of either client: whatever meets it, replies, cleanup and closers, meets  *)
(* it at the same keys.  The invariants are proved for any number of them.   *)
EXTENDS RequestResponse
=============================================================================
