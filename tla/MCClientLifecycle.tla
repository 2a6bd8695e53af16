-------------------------- MODULE MCClientLifecycle --------------------------
(* Two Subscribe calls, as both services of the repository make.  Messages   *)
(* are delivered to the consumer of one of them, which may be the one the    *)
(* client remembers or the one it has lost sight of.                         *)
EXTENDS ClientLifecycle

CONSTANTS s1, s2, d1

MCConsumerOf == [d \in {d1} |-> s1]
=============================================================================
