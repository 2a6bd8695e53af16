------------------------------- MODULE Drain -------------------------------
(***************************************************************************)
(* What the graceful shutdown of a client promises, without saying how:    *)
(* work may begin only while the gate is open; once a shutdown is          *)
(* requested the work in progress is finished, nothing is begun any more,  *)
(* and the gate is drained exactly when the last piece of work ends.       *)
(***************************************************************************)
EXTENDS FiniteSets

CONSTANT Workers

VARIABLES
    active,     \* the workers that have begun and not yet finished
    phase       \* "open", then "draining", then "drained"

drainVars == <<active, phase>>

TypeOK ==
    /\ active \subseteq Workers
    /\ phase \in {"open", "draining", "drained"}

Init ==
    /\ active = {}
    /\ phase = "open"

Begin(w) ==
    /\ phase = "open"
    /\ w \notin active
    /\ active' = active \cup {w}
    /\ UNCHANGED phase

(* The phase that follows once a shutdown was requested and only s is active. *)
PhaseWith(s) == IF s = {} THEN "drained" ELSE "draining"

Finish(w) ==
    /\ w \in active
    /\ active' = active \ {w}
    /\ phase' = IF phase = "open" THEN phase ELSE PhaseWith(active')

RequestShutdown ==
    /\ phase = "open"
    /\ phase' = PhaseWith(active)
    /\ UNCHANGED active

Next ==
    \/ RequestShutdown
    \/ \E w \in Workers : Begin(w) \/ Finish(w)

Spec == Init /\ [][Next]_drainVars

(* The same promise with its liveness part: work that has begun ends. *)
FairSpec == Spec /\ \A w \in Workers : WF_drainVars(Finish(w))
=============================================================================
