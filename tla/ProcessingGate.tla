--------------------------- MODULE ProcessingGate ---------------------------
(***************************************************************************)
(* The shutdown gate of one Client (pkg/rocketmq-client): the counter of   *)
(* messages in processing, the shutdownStarted flag and the channel        *)
(* processingDone, as used by the handler that Subscribe and               *)
(* subscribeMessage wrap around the user's callback, by startShutdown and  *)
(* by waitForProcessingComplete.  Every critical section of Client.mu is   *)
(* one step.                                                               *)
(***************************************************************************)
EXTENDS Integers, FiniteSets

CONSTANTS
    Deliveries,     \* goroutines in which the SDK calls the wrapped handler
    NoAck,          \* those whose subscription ignores handler errors
    Waiters,        \* goroutines that call waitForProcessingComplete
    MaxBatch        \* bound: messages the SDK hands to one call

ASSUME GateAssumption ==
    /\ IsFiniteSet(Deliveries)
    /\ NoAck \subseteq Deliveries
    /\ MaxBatch \in Nat \ {0}

VARIABLES
    processingCount,
    shutdownStarted,
    processingDone,     \* the channel: "open" or "closed"
    panicked,           \* a second close(processingDone) kills the process
    call,               \* where each delivery goroutine is in the wrapped handler
    left,               \* messages of its batch not yet handled
    verdict,            \* what the last call answers the SDK
    waiter              \* where each waiter is

counterVars == <<processingCount, shutdownStarted, processingDone, panicked>>
callVars == <<call, left, verdict>>
gateVars == <<processingCount, shutdownStarted, processingDone, panicked,
              call, left, verdict, waiter>>

CallStates == {"idle", "checked", "handling", "returning"}

(* The calls that have been counted and not yet uncounted. *)
InFlight == {d \in Deliveries : call[d] \in {"handling", "returning"}}

TypeOK ==
    /\ processingCount \in Int
    /\ shutdownStarted \in BOOLEAN
    /\ processingDone \in {"open", "closed"}
    /\ panicked \in BOOLEAN
    /\ call \in [Deliveries -> CallStates]
    /\ left \in [Deliveries -> 0..MaxBatch]
    /\ verdict \in [Deliveries -> {"none", "success", "retry"}]
    /\ waiter \in [Waiters -> {"out", "waiting", "drained", "timedOut"}]

Init ==
    /\ processingCount = 0
    /\ shutdownStarted = FALSE
    /\ processingDone = "open"
    /\ panicked = FALSE
    /\ call = [d \in Deliveries |-> "idle"]
    /\ left = [d \in Deliveries |-> 0]
    /\ verdict = [d \in Deliveries |-> "none"]
    /\ waiter = [w \in Waiters |-> "out"]

-----------------------------------------------------------------------------
(* close(c.processingDone) *)
CloseDone ==
    /\ processingDone' = "closed"
    /\ panicked' = (processingDone = "closed")

-----------------------------------------------------------------------------
(* Slips: operations as a plausible bug would leave them.  No specification *)
(* uses them; each one is what a property below must catch.                 *)

(* Admission trusts the earlier isShuttingDown and does not check again. *)
AdmitUnchecked(d) ==
    /\ ~panicked
    /\ call[d] = "checked"
    /\ processingCount' = processingCount + 1
    /\ call' = [call EXCEPT ![d] = "handling"]
    /\ UNCHANGED <<shutdownStarted, processingDone, panicked, left, verdict, waiter>>

(* The decrement is deferred before incrementProcessing has answered. *)
RejectLateUncounts(d) ==
    /\ ~panicked
    /\ call[d] = "checked"
    /\ shutdownStarted
    /\ processingCount' = processingCount - 1
    /\ call' = [call EXCEPT ![d] = "idle"]
    /\ verdict' = [verdict EXCEPT ![d] = "retry"]
    /\ UNCHANGED <<shutdownStarted, processingDone, panicked, left, waiter>>

(* A call turned away late answers ConsumeSuccess. *)
RejectLateAcks(d) ==
    /\ ~panicked
    /\ call[d] = "checked"
    /\ shutdownStarted
    /\ call' = [call EXCEPT ![d] = "idle"]
    /\ verdict' = [verdict EXCEPT ![d] = "success"]
    /\ UNCHANGED <<counterVars, left, waiter>>

(* The loop over the batch runs one message too far. *)
HandlerAcceptsOverrun(d) ==
    /\ ~panicked
    /\ call[d] = "handling"
    /\ left' = [left EXCEPT ![d] = @ - 1]
    /\ IF left[d] >= 1
         THEN UNCHANGED <<call, verdict>>
         ELSE /\ call' = [call EXCEPT ![d] = "returning"]
              /\ verdict' = [verdict EXCEPT ![d] = "success"]
    /\ UNCHANGED <<counterVars, waiter>>

(* startShutdown without its early return. *)
StartShutdownAgain ==
    /\ ~panicked
    /\ shutdownStarted' = TRUE
    /\ IF processingCount <= 0
         THEN CloseDone
         ELSE UNCHANGED <<processingDone, panicked>>
    /\ UNCHANGED <<processingCount, callVars, waiter>>

(* startShutdown closes the channel whatever is in processing. *)
StartShutdownEager ==
    /\ ~panicked
    /\ ~shutdownStarted
    /\ shutdownStarted' = TRUE
    /\ CloseDone
    /\ UNCHANGED <<processingCount, callVars, waiter>>

(* startShutdown leaves closing the channel to the next decrement. *)
StartShutdownLazy ==
    /\ ~panicked
    /\ ~shutdownStarted
    /\ shutdownStarted' = TRUE
    /\ UNCHANGED <<processingCount, processingDone, panicked, callVars, waiter>>

-----------------------------------------------------------------------------
(* The wrapped handler *)

(* The SDK calls the handler; isShuttingDown turns the whole batch away. *)
RejectEarly(d) ==
    /\ ~panicked
    /\ call[d] = "idle"
    /\ shutdownStarted
    /\ \E n \in 1..MaxBatch : left' = [left EXCEPT ![d] = n]
    /\ verdict' = [verdict EXCEPT ![d] = "retry"]
    /\ UNCHANGED <<counterVars, call, waiter>>

(* The SDK calls the handler; isShuttingDown answers false. *)
PassCheck(d) ==
    /\ ~panicked
    /\ call[d] = "idle"
    /\ ~shutdownStarted
    /\ call' = [call EXCEPT ![d] = "checked"]
    /\ \E n \in 1..MaxBatch : left' = [left EXCEPT ![d] = n]
    /\ verdict' = [verdict EXCEPT ![d] = "none"]
    /\ UNCHANGED <<counterVars, waiter>>

(* incrementProcessing answers false: a shutdown began since the check. *)
RejectLate(d) ==
    /\ ~panicked
    /\ call[d] = "checked"
    /\ shutdownStarted
    /\ call' = [call EXCEPT ![d] = "idle"]
    /\ verdict' = [verdict EXCEPT ![d] = "retry"]
    /\ UNCHANGED <<counterVars, left, waiter>>

(* incrementProcessing answers true. *)
Admit(d) ==
    /\ ~panicked
    /\ call[d] = "checked"
    /\ ~shutdownStarted
    /\ processingCount' = processingCount + 1
    /\ call' = [call EXCEPT ![d] = "handling"]
    /\ UNCHANGED <<shutdownStarted, processingDone, panicked, left, verdict, waiter>>

(* The user's handler accepts one message; after the last the call returns. *)
HandlerAccepts(d) ==
    /\ ~panicked
    /\ call[d] = "handling"
    /\ left' = [left EXCEPT ![d] = @ - 1]
    /\ IF left[d] > 1
         THEN UNCHANGED <<call, verdict>>
         ELSE /\ call' = [call EXCEPT ![d] = "returning"]
              /\ verdict' = [verdict EXCEPT ![d] = "success"]
    /\ UNCHANGED <<counterVars, waiter>>

(* The user's handler fails on a message; the rest of the batch is skipped. *)
HandlerFails(d) ==
    /\ ~panicked
    /\ call[d] = "handling"
    /\ call' = [call EXCEPT ![d] = "returning"]
    /\ verdict' = [verdict EXCEPT ![d] = IF d \in NoAck THEN "success" ELSE "retry"]
    /\ UNCHANGED <<counterVars, left, waiter>>

(* The deferred decrementProcessing, then the verdict reaches the SDK. *)
Decrement(d) ==
    /\ ~panicked
    /\ call[d] = "returning"
    /\ processingCount' = processingCount - 1
    /\ IF processingCount' <= 0 /\ shutdownStarted
         THEN CloseDone
         ELSE UNCHANGED <<processingDone, panicked>>
    /\ call' = [call EXCEPT ![d] = "idle"]
    /\ UNCHANGED <<shutdownStarted, left, verdict, waiter>>

-----------------------------------------------------------------------------
(* Shutdown *)

(* The first startShutdown; a later call returns early and changes nothing. *)
StartShutdown ==
    /\ ~panicked
    /\ ~shutdownStarted
    /\ shutdownStarted' = TRUE
    /\ IF processingCount <= 0
         THEN CloseDone
         ELSE UNCHANGED <<processingDone, panicked>>
    /\ UNCHANGED <<processingCount, callVars, waiter>>

BeginWait(w) ==
    /\ ~panicked
    /\ waiter[w] = "out"
    /\ waiter' = [waiter EXCEPT ![w] = "waiting"]
    /\ UNCHANGED <<counterVars, callVars>>

(* The select takes processingDone ... *)
WaitDrained(w) ==
    /\ ~panicked
    /\ waiter[w] = "waiting"
    /\ processingDone = "closed"
    /\ waiter' = [waiter EXCEPT ![w] = "drained"]
    /\ UNCHANGED <<counterVars, callVars>>

(* ... or ctx.Done(), which may be ready at any time, and at the same time. *)
WaitTimedOut(w) ==
    /\ ~panicked
    /\ waiter[w] = "waiting"
    /\ waiter' = [waiter EXCEPT ![w] = "timedOut"]
    /\ UNCHANGED <<counterVars, callVars>>

-----------------------------------------------------------------------------
Handle(d) == HandlerAccepts(d) \/ HandlerFails(d)

DeliveryStep(d) ==
    \/ RejectEarly(d) \/ PassCheck(d) \/ RejectLate(d) \/ Admit(d)
    \/ HandlerAccepts(d) \/ HandlerFails(d) \/ Decrement(d)

WaiterStep(w) == BeginWait(w) \/ WaitDrained(w) \/ WaitTimedOut(w)

Next ==
    \/ StartShutdown
    \/ \E d \in Deliveries : DeliveryStep(d)
    \/ \E w \in Waiters : WaiterStep(w)

Spec == Init /\ [][Next]_gateVars

(* A goroutine that is inside a call keeps running, user handlers return    *)
(* (every handler of this repository only sends, with the producer's send   *)
(* timeout), and a select with a ready case proceeds.  The SDK need not     *)
(* deliver, nobody need shut the client down, and no context need expire.   *)
Fairness ==
    /\ \A d \in Deliveries : WF_gateVars(Handle(d)) /\ WF_gateVars(Decrement(d))
    /\ \A w \in Waiters : WF_gateVars(WaitDrained(w))

FairSpec == Spec /\ Fairness

-----------------------------------------------------------------------------
(* Properties *)

(* The counter that decides when the client may be torn down is the number  *)
(* of calls between a successful incrementProcessing and its deferred       *)
(* decrementProcessing: it is never negative and never misses one.          *)
CountIsInFlight == processingCount = Cardinality(InFlight)

(* startShutdown and decrementProcessing both close processingDone; however *)
(* they interleave it is closed once (a second close panics the process).   *)
NoDoubleClose == ~panicked

(* Once a caller of waitForProcessingComplete has got nil, no user handler  *)
(* is running, and none starts afterwards: that caller now tears down the   *)
(* producer those handlers use.                                             *)
DrainedMeansQuiet == (\E w \in Waiters : waiter[w] = "drained") => InFlight = {}

(* A batch is acknowledged to the broker only when the user's handler took  *)
(* every message of it: a batch turned away by the shutdown, or cut short   *)
(* by an error, is redelivered.  Subscriptions without ack are exempt.      *)
AckedMeansHandled ==
    \A d \in Deliveries \ NoAck :
        call[d] = "idle" /\ verdict[d] = "success" => left[d] = 0

(* The gate implements the abstract promise of Drain: admission only while  *)
(* open, drained exactly when the last admitted call has ended, and calls   *)
(* that were admitted end.                                                  *)
phase ==
    IF ~shutdownStarted THEN "open"
    ELSE IF processingDone = "closed" THEN "drained" ELSE "draining"

Drained == INSTANCE Drain WITH Workers <- Deliveries, active <- InFlight

ImplementsDrain == Drained!FairSpec

(* A shutdown, once started, is never stuck: the channel is closed in the   *)
(* end, and whoever waits for it gets out.                                  *)
ShutdownCompletes ==
    /\ shutdownStarted ~> processingDone = "closed"
    /\ \A w \in Waiters :
         shutdownStarted /\ waiter[w] = "waiting" ~> waiter[w] \in {"drained", "timedOut"}
=============================================================================
