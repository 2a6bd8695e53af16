-------------------------- MODULE MCClientRegistry --------------------------
(* Three Register calls, two of them for one name, so that a name is refused *)
(* while it is taken and registered again once it is free.                   *)
EXTENDS ClientRegistry

CONSTANTS c1, c2, c3, n1, n2

MCNameOf == [r \in Registers |-> IF r = c2 THEN n2 ELSE n1]
=============================================================================
