----------------------- MODULE ClientLifecycle_proofs -----------------------
(***************************************************************************)
(* Proofs about ClientLifecycle for any finite set of deliveries, and any  *)
(* sets of Subscribe calls and of closers.  What the proofs of the gate    *)
(* say of a client's gate alone holds of the gate inside its client.       *)
(***************************************************************************)
EXTENDS ClientLifecycle, TLAPS

GateProofs == INSTANCE ProcessingGate_proofs WITH Waiters <- GracefulClosers

(* The deliveries and closers of a client use its gate as the gate expects. *)
THEOREM LifecycleUsesGate == Spec => Gate!Spec
<1>1. Init => Gate!Init
  BY DEF Init
<1>2. [Next]_vars => [Gate!Next]_(Gate!gateVars)
  <2> SUFFICES ASSUME [Next]_vars
               PROVE  Gate!Next \/ UNCHANGED gateVars
    BY DEF gateVars, Gate!gateVars
  <2>1. ASSUME NEW s \in Subscribers, SubscribeStep(s) PROVE UNCHANGED gateVars
    BY <2>1 DEF SubscribeStep, CreateConsumer, StartConsumer, SubscribeFails, WriteConsumer,
       WriteStarted
  <2>2. ASSUME NEW d \in Deliveries, Deliver(d) \/ RunHandler(d) PROVE Gate!Next
    BY <2>2 DEF Deliver, RunHandler, Gate!Next, Gate!DeliveryStep
  <2>3. ASSUME StartShutdown PROVE Gate!Next \/ UNCHANGED gateVars
    BY <2>3 DEF StartShutdown, Gate!Next
  <2>4. ASSUME NEW k \in GracefulClosers, BeginGraceful(k) \/ GracefulStep(k)
        PROVE  Gate!Next \/ UNCHANGED gateVars
    BY <2>3, <2>4 DEF BeginGraceful, GracefulStep, BeginWait, WaitDrained, WaitTimedOut,
       ForceProducer, ReadForced, ForceConsumer, ShutProducer, ShutProducerFails, ReadOrderly,
       ReadConsumer, ShutConsumer, ShutConsumerFails, ReturnNil, Gate!Next, Gate!WaiterStep
  <2>5. ASSUME NEW k, BeginManagerClose(k) \/ BeginClose(k) \/ CloseStep(k)
        PROVE  Gate!Next \/ UNCHANGED gateVars
    BY <2>3, <2>5 DEF BeginManagerClose, BeginClose, CloseStep, CloseProducer, CheckConsumer,
       ReadClose, ReadConsumer, CloseConsumer
  <2>6. CASE ShutdownConsumer
    BY <2>6 DEF ShutdownConsumer
  <2>7. CASE UNCHANGED vars
    BY <2>7 DEF vars
  <2> QED
    BY <2>1, <2>2, <2>4, <2>5, <2>6, <2>7 DEF Next
<1> QED
  BY <1>1, <1>2, PTL DEF Spec, Gate!Spec

(* Both instances of the gate stand for the same formulas: a client's steps *)
(* are steps of the gate that ProcessingGate_proofs is about.               *)
LEMMA LifecycleIsGate == Spec => GateProofs!Spec
<1>1. Gate!Init => GateProofs!Init
  BY DEF Gate!Init, GateProofs!Init
<1>2. [Gate!Next]_(Gate!gateVars) => [GateProofs!Next]_(GateProofs!gateVars)
  BY DEF Gate!Next, Gate!StartShutdown, Gate!CloseDone, Gate!DeliveryStep, Gate!RejectEarly,
     Gate!PassCheck, Gate!RejectLate, Gate!Admit, Gate!HandlerAccepts, Gate!HandlerFails,
     Gate!Decrement, Gate!WaiterStep, Gate!BeginWait, Gate!WaitDrained, Gate!WaitTimedOut,
     Gate!counterVars, Gate!callVars, Gate!gateVars, GateProofs!Next,
     GateProofs!StartShutdown, GateProofs!CloseDone, GateProofs!DeliveryStep,
     GateProofs!RejectEarly, GateProofs!PassCheck, GateProofs!RejectLate, GateProofs!Admit,
     GateProofs!HandlerAccepts, GateProofs!HandlerFails, GateProofs!Decrement,
     GateProofs!WaiterStep, GateProofs!BeginWait, GateProofs!WaitDrained,
     GateProofs!WaitTimedOut, GateProofs!counterVars, GateProofs!callVars,
     GateProofs!gateVars
<1> QED
  BY <1>1, <1>2, LifecycleUsesGate, PTL DEF Gate!Spec, GateProofs!Spec

(* What is proved of the gate alone holds of the gate inside a client. *)
LEMMA GateInside == Spec => []Gate!TypeOK /\ []Gate!DrainedMeansQuiet
<1>1. GateProofs!GateAssumption
  BY LifecycleAssumption DEF GateProofs!GateAssumption, IsFiniteSet, GateProofs!IsFiniteSet
<1>2. GateProofs!Spec => []GateProofs!TypeOK
  BY <1>1, GateProofs!GateTypeCorrect
<1>3. GateProofs!Spec => []GateProofs!DrainedMeansQuiet
  BY <1>1, GateProofs!GateQuietAfterDrain
<1>4. GateProofs!TypeOK => Gate!TypeOK
  BY DEF Gate!TypeOK, GateProofs!TypeOK, Gate!CallStates, GateProofs!CallStates
<1>5. GateProofs!DrainedMeansQuiet => Gate!DrainedMeansQuiet
  BY DEF Gate!DrainedMeansQuiet, GateProofs!DrainedMeansQuiet, Gate!InFlight, GateProofs!InFlight
<1> QED
  BY <1>2, <1>3, <1>4, <1>5, LifecycleIsGate, PTL

-----------------------------------------------------------------------------
(* The client around the gate *)

(* The types of what the client adds to its gate. *)
ClientTypeOK ==
    /\ producer \in {"running", "shut"}
    /\ consumerState \in [Consumers -> {"none", "created", "running", "shut"}]
    /\ consumer \in Consumers
    /\ consumerStarted \in BOOLEAN
    /\ subscription \in [Subscribers -> SubscriptionStates]
    /\ closer \in [Closers -> CloserStates]
    /\ target \in [Closers -> Consumers]
    /\ subscribedBefore \in [GracefulClosers -> SUBSET Subscribers]

(* closeWithContext is past its wait, on its orderly path, only with a nil  *)
(* from the gate, and is past the producer only when that is down.          *)
OrderlyHasNil ==
    \A k \in GracefulClosers :
        /\ closer[k] \in {"shutProducer", "readConsumer", "shutConsumer", "returning", "closed"}
             => waiter[k] = "drained"
        /\ closer[k] \in {"readConsumer", "shutConsumer", "returning", "closed"}
             => producer = "shut"

(* The consumer the client points at is one the closer k found there when   *)
(* it began: no Subscribe has overwritten the field since.                  *)
Untouched(k) == consumer \in subscribedBefore[k] \cup {Registered}

(* What a closer has read is what the client still points at, unless a      *)
(* Subscribe has overwritten the field since; past its last Shutdown, that  *)
(* consumer is down.                                                        *)
TargetIsCurrent ==
    \A k \in GracefulClosers :
        /\ closer[k] = "shutConsumer" /\ Untouched(k) => target[k] = consumer
        /\ closer[k] \in {"returning", "closed"} /\ Untouched(k)
             => consumerState[consumer] = "shut"

(* Client.consumer is the one Register made until a Subscribe overwrites it *)
(* with its own, and a Subscribe that had returned stays so.                *)
FieldIsSubscribers ==
    /\ consumer # Registered => subscription[consumer] \in {"flagLeft", "subscribed"}
    /\ \A s \in Subscribers :
          subscription[s] \in {"flagLeft", "subscribed"} => consumer # Registered
    /\ \A k \in GracefulClosers : \A s \in subscribedBefore[k] : subscription[s] = "subscribed"

ClientInv == ClientTypeOK /\ OrderlyHasNil /\ FieldIsSubscribers /\ TargetIsCurrent

(* The steps of a gate that is inside a client. *)
GateStep ==
    \/ StartShutdown
    \/ \E d \in Deliveries : Gate!DeliveryStep(d)

(* What a gate does for its deliveries, and when a shutdown starts, leaves  *)
(* its waiters alone.                                                       *)
LEMMA GateStepKeepsWaiters == GateStep => waiter' = waiter
  BY DEF GateStep, StartShutdown, gateVars, Gate!StartShutdown, Gate!DeliveryStep,
     Gate!RejectEarly, Gate!PassCheck, Gate!RejectLate, Gate!Admit, Gate!HandlerAccepts,
     Gate!HandlerFails, Gate!Decrement

(* Every step of the client keeps its part of the invariant. *)
LEMMA ClientStep ==
    ASSUME ClientInv, Gate!TypeOK, [Next]_vars
    PROVE  ClientInv'
<1> USE LifecycleAssumption DEF ClientInv, ClientTypeOK, OrderlyHasNil, FieldIsSubscribers,
        TargetIsCurrent, Untouched, Consumers, Closers, SubscriptionStates, CloserStates, gateVars,
        fieldVars, sdkVars, closeVars
<1>1. ASSUME NEW s \in Subscribers, CreateConsumer(s) PROVE ClientInv'
  BY <1>1 DEF CreateConsumer
<1>2. ASSUME NEW s \in Subscribers, StartConsumer(s) PROVE ClientInv'
  BY <1>2 DEF StartConsumer
<1>3. ASSUME NEW s \in Subscribers, SubscribeFails(s) PROVE ClientInv'
  BY <1>3 DEF SubscribeFails
<1>4. ASSUME NEW s \in Subscribers, WriteConsumer(s) PROVE ClientInv'
  BY <1>4 DEF WriteConsumer
<1>5. ASSUME NEW s \in Subscribers, WriteStarted(s) PROVE ClientInv'
  BY <1>5 DEF WriteStarted
<1>6. ASSUME NEW d \in Deliveries, Deliver(d) \/ RunHandler(d) PROVE ClientInv'
  <2>1. GateStep
    BY <1>6 DEF Deliver, RunHandler, GateStep, Gate!DeliveryStep
  <2> QED
    BY <1>6, <2>1, GateStepKeepsWaiters DEF Deliver, RunHandler
<1>7. ASSUME NEW k \in GracefulClosers, BeginGraceful(k) PROVE ClientInv'
  <2>1. waiter' = waiter
    BY <1>7, GateStepKeepsWaiters DEF BeginGraceful, GateStep
  <2> QED
    BY <1>7, <2>1 DEF BeginGraceful, Begin
<1>8. ASSUME NEW k \in GracefulClosers, BeginWait(k) PROVE ClientInv'
  BY <1>8 DEF BeginWait, Move, Gate!BeginWait, Gate!TypeOK
<1>9. ASSUME NEW k \in GracefulClosers, WaitDrained(k) PROVE ClientInv'
  BY <1>9 DEF WaitDrained, Move, Gate!WaitDrained, Gate!TypeOK
<1>10. ASSUME NEW k \in GracefulClosers, WaitTimedOut(k) PROVE ClientInv'
  BY <1>10 DEF WaitTimedOut, Move, Gate!WaitTimedOut, Gate!TypeOK
<1>11. ASSUME NEW k \in GracefulClosers, ForceProducer(k) PROVE ClientInv'
  BY <1>11 DEF ForceProducer, Move, StopProducer
<1>12. ASSUME NEW k \in GracefulClosers, ReadForced(k) PROVE ClientInv'
  BY <1>12 DEF ReadForced, ReadConsumer
<1>13. ASSUME NEW k \in GracefulClosers, ForceConsumer(k) PROVE ClientInv'
  BY <1>13 DEF ForceConsumer, Move, StopConsumer
<1>14. ASSUME NEW k \in GracefulClosers, ShutProducer(k) PROVE ClientInv'
  BY <1>14 DEF ShutProducer, Move, StopProducer
<1>15. ASSUME NEW k \in GracefulClosers, ShutProducerFails(k) PROVE ClientInv'
  BY <1>15 DEF ShutProducerFails, Move
<1>16. ASSUME NEW k \in GracefulClosers, ReadOrderly(k) PROVE ClientInv'
  BY <1>16 DEF ReadOrderly, ReadConsumer
<1>17. ASSUME NEW k \in GracefulClosers, ShutConsumer(k) PROVE ClientInv'
  BY <1>17 DEF ShutConsumer, Move, StopConsumer
<1>18. ASSUME NEW k \in GracefulClosers, ShutConsumerFails(k) PROVE ClientInv'
  BY <1>18 DEF ShutConsumerFails, Move
<1>19. ASSUME NEW k \in GracefulClosers, ReturnNil(k) PROVE ClientInv'
  BY <1>19 DEF ReturnNil, Move
<1>20. ASSUME NEW k \in ManagerClosers, BeginManagerClose(k) PROVE ClientInv'
  <2>1. waiter' = waiter
    BY <1>20, GateStepKeepsWaiters DEF BeginManagerClose, GateStep
  <2> QED
    BY <1>20, <2>1 DEF BeginManagerClose, Begin
<1>21. ASSUME NEW k \in PlainClosers, BeginClose(k) PROVE ClientInv'
  BY <1>21 DEF BeginClose, Begin
<1>22. ASSUME NEW k \in ManagerClosers \cup PlainClosers, CloseProducer(k) PROVE ClientInv'
  BY <1>22 DEF CloseProducer, Move, StopProducer
<1>23. ASSUME NEW k \in ManagerClosers \cup PlainClosers, CheckConsumer(k) PROVE ClientInv'
  BY <1>23 DEF CheckConsumer, Move
<1>24. ASSUME NEW k \in ManagerClosers \cup PlainClosers, ReadClose(k) PROVE ClientInv'
  BY <1>24 DEF ReadClose, ReadConsumer
<1>25. ASSUME NEW k \in ManagerClosers \cup PlainClosers, CloseConsumer(k) PROVE ClientInv'
  BY <1>25 DEF CloseConsumer, Move, StopConsumer
<1>26. CASE ShutdownConsumer
  BY <1>26 DEF ShutdownConsumer, StopConsumer, Pointed
<1>27. CASE UNCHANGED vars
  BY <1>27 DEF vars
<1> QED
  BY <1>1, <1>2, <1>3, <1>4, <1>5, <1>6, <1>7, <1>8, <1>9, <1>10, <1>11, <1>12, <1>13, <1>14,
     <1>15, <1>16, <1>17, <1>18, <1>19, <1>20, <1>21, <1>22, <1>23, <1>24, <1>25, <1>26, <1>27
  DEF Next, SubscribeStep, GracefulStep, CloseStep

(* ClientInv and what the gate keeps hold in every reachable state. *)
THEOREM ClientInvariant == Spec => [](ClientInv /\ Gate!TypeOK /\ Gate!DrainedMeansQuiet)
<1>1. Init => ClientInv
  <2> SUFFICES ASSUME Init PROVE ClientInv
    OBVIOUS
  <2>1. /\ consumerState \in [Consumers -> {"none", "created", "running", "shut"}]
        /\ subscription \in [Subscribers -> SubscriptionStates]
        /\ closer \in [Closers -> CloserStates]
        /\ target \in [Closers -> Consumers]
    BY DEF Init, SubscriptionStates, CloserStates, Consumers
  <2>2. subscribedBefore \in [GracefulClosers -> SUBSET Subscribers]
    BY DEF Init
  <2>3. ClientTypeOK
    BY <2>1, <2>2 DEF Init, ClientTypeOK, Consumers
  <2> QED
    BY <2>3, LifecycleAssumption DEF Init, ClientInv, OrderlyHasNil, FieldIsSubscribers,
       TargetIsCurrent, Closers
<1>2. ClientInv /\ Gate!TypeOK /\ [Next]_vars => ClientInv'
  BY ClientStep
<1> QED
  BY <1>1, <1>2, GateInside, PTL DEF Spec

-----------------------------------------------------------------------------
(* Each variable of the client and of its gate keeps its type. *)
THEOREM LifecycleTypeCorrect == Spec => []TypeOK
<1>1. ClientInv /\ Gate!TypeOK => TypeOK
  BY DEF ClientInv, ClientTypeOK, TypeOK
<1> QED
  BY ClientInvariant, <1>1, PTL

(* closeWithContext tears the client down on its orderly path only when no  *)
(* handler of any of its consumers is running, and none runs afterwards.    *)
THEOREM LifecycleOrderlyCloseIsQuiet == Spec => []OrderlyCloseIsQuiet
<1>1. ClientInv /\ Gate!DrainedMeansQuiet => OrderlyCloseIsQuiet
  BY DEF ClientInv, OrderlyHasNil, OrderlyCloseIsQuiet, InFlight, Gate!DrainedMeansQuiet
<1> QED
  BY ClientInvariant, <1>1, PTL

(* The consumer of a client that subscribed once is down after a nil. *)
THEOREM LifecycleSoleConsumerIsShut == Spec => []SoleConsumerIsShut
<1>1. ClientInv => SoleConsumerIsShut
  <2> SUFFICES ASSUME ClientInv, NEW k \in GracefulClosers, NEW s \in Subscribers,
                      closer[k] = "closed", s \in subscribedBefore[k],
                      \A t \in Subscribers \ {s} : subscription[t] \in {"idle", "created", "failed"}
               PROVE  consumerState[s] = "shut"
    BY DEF SoleConsumerIsShut
  <2>1. consumer = s
    BY DEF ClientInv, FieldIsSubscribers, ClientTypeOK, Consumers
  <2> QED
    BY <2>1 DEF ClientInv, TargetIsCurrent, Untouched
<1> QED
  BY ClientInvariant, <1>1, PTL

(* A nil from closeWithContext is not returned over a failed Shutdown. *)
THEOREM LifecycleNilMeansTornDown == Spec => []NilMeansTornDown
<1>1. ClientInv => NilMeansTornDown
  BY DEF ClientInv, OrderlyHasNil, TargetIsCurrent, Untouched, NilMeansTornDown
<1> QED
  BY ClientInvariant, <1>1, PTL

(* No handler of any consumer is admitted once a shutdown has begun. *)
THEOREM LifecycleAdmitsNothing == Spec => NothingAdmittedAfterShutdown
<1>1. ASSUME Gate!TypeOK, [Gate!Next]_(Gate!gateVars), shutdownStarted
      PROVE  InFlight' \subseteq InFlight
  BY <1>1 DEF Gate!TypeOK, InFlight, Gate!InFlight, Gate!Next, Gate!gateVars, Gate!callVars,
     Gate!StartShutdown, Gate!DeliveryStep, Gate!RejectEarly, Gate!PassCheck, Gate!RejectLate,
     Gate!Admit, Gate!HandlerAccepts, Gate!HandlerFails, Gate!Decrement, Gate!WaiterStep,
     Gate!BeginWait, Gate!WaitDrained, Gate!WaitTimedOut
<1> QED
  BY <1>1, GateInside, LifecycleUsesGate, PTL DEF Gate!Spec, NothingAdmittedAfterShutdown

(* A client keeps the promise of Drain for all its consumers together:      *)
(* handlers begin only while the gate is open, and it is drained exactly    *)
(* when the last of them ends, whoever closes the client and how often.     *)
THEOREM LifecycleImplementsDrain == Spec => GateProofs!Drained!Spec
<1>1. GateProofs!GateAssumption
  BY LifecycleAssumption DEF GateProofs!GateAssumption, IsFiniteSet, GateProofs!IsFiniteSet
<1>2. GateProofs!Spec => GateProofs!Drained!Spec
  BY <1>1, GateProofs!GateImplementsDrain
<1> QED
  BY <1>2, LifecycleIsGate, PTL
=============================================================================
