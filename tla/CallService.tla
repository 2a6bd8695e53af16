----------------------------- MODULE CallService -----------------------------
(***************************************************************************)
(* What a caller of a request-response client is promised, without saying  *)
(* how: each call ends once, with the answer that was given to this very   *)
(* call or with an error; answers may come late, or never; and the process *)
(* that makes the calls may die, which ends them all.                      *)
(***************************************************************************)
CONSTANT Calls

VARIABLES
    call,       \* "idle", then "pending", then "answered" or "failed"
    served,     \* the calls that have been answered by the other side
    up          \* whether the calling process is alive

serviceVars == <<call, served, up>>

TypeOK ==
    /\ call \in [Calls -> {"idle", "pending", "answered", "failed"}]
    /\ served \subseteq Calls
    /\ up \in BOOLEAN

Init ==
    /\ call = [c \in Calls |-> "idle"]
    /\ served = {}
    /\ up = TRUE

Move(c, from, to) ==
    /\ up
    /\ call[c] = from
    /\ call' = [call EXCEPT ![c] = to]
    /\ UNCHANGED <<served, up>>

Ask(c) == Move(c, "idle", "pending")

(* The other side answers, perhaps after the caller has given up or died. *)
Serve(c) ==
    /\ call[c] # "idle"
    /\ c \notin served
    /\ served' = served \cup {c}
    /\ UNCHANGED <<call, up>>

Answer(c) == c \in served /\ Move(c, "pending", "answered")

GiveUp(c) == Move(c, "pending", "failed")

Crash == up /\ up' = FALSE /\ UNCHANGED <<call, served>>

Next ==
    \/ Crash
    \/ \E c \in Calls : Ask(c) \/ Serve(c) \/ Answer(c) \/ GiveUp(c)

Spec == Init /\ [][Next]_serviceVars

(* The same promise with its liveness part: no call is pending for ever. *)
FairSpec == Spec /\ \A c \in Calls : WF_serviceVars(Answer(c) \/ GiveUp(c))
=============================================================================
