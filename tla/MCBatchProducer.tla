--------------------------- MODULE MCBatchProducer ---------------------------
(* Batches of two messages or five bytes.  a1 and a2 share a topic and fit   *)
(* together to the byte; c belongs to another topic: it does not fit behind  *)
(* a1, but a1 fits behind c.                                                 *)
EXTENDS BatchProducer

CONSTANTS a1, a2, c, A, C

MCTopic == [m \in {a1, a2, c} |-> IF m = c THEN C ELSE A]
MCBody == [m \in {a1, a2, c} |-> CASE m = a1 -> 1 [] m = a2 -> 2 [] m = c -> 3]
MCOverhead == [m \in {a1, a2, c} |-> IF m = c THEN 1 ELSE 2]
=============================================================================
