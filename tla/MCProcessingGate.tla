-------------------------- MODULE MCProcessingGate --------------------------
(* The gate with three delivery goroutines, one of them without ack, two   *)
(* waiters and batches of up to two messages.                              *)
EXTENDS ProcessingGate
=============================================================================
