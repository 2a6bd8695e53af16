------------------------ MODULE ProcessingGate_proofs ------------------------
(***************************************************************************)
(* Proofs about ProcessingGate for any finite set of delivery goroutines,  *)
(* any set of waiters and any batch size.                                  *)
(***************************************************************************)
EXTENDS ProcessingGate, FiniteSetTheorems, TLAPS

(* The channel is closed exactly when a shutdown began and nothing is counted. *)
ClosedIffDrained ==
    processingDone = "closed" <=> shutdownStarted /\ processingCount = 0

(* A waiter gets nil only from the closed channel. *)
NilNeedsClosed ==
    \A w \in Waiters : waiter[w] = "drained" => processingDone = "closed"

(* A call that has yet to run the handler has a message for it. *)
HandlerHasMessage ==
    \A d \in Deliveries : call[d] \in {"checked", "handling"} => left[d] >= 1

(* A verdict of success, given or about to be given, follows a full batch. *)
SuccessIsFull ==
    \A d \in Deliveries \ NoAck :
        call[d] \in {"idle", "returning"} /\ verdict[d] = "success" => left[d] = 0

(* The inductive invariant, in the two groups the proof treats apart: the   *)
(* shared counter and channel, and what each call has done.                 *)
GateInv ==
    /\ TypeOK
    /\ CountIsInFlight
    /\ NoDoubleClose
    /\ ClosedIffDrained
    /\ NilNeedsClosed

CallInv ==
    /\ HandlerHasMessage
    /\ SuccessIsFull

IInv == GateInv /\ CallInv

-----------------------------------------------------------------------------
(* Counting the calls in flight *)

(* The calls in flight are finitely many: their number is a natural, zero only when there is none. *)
LEMMA InFlightFinite ==
    /\ IsFiniteSet(InFlight)
    /\ Cardinality(InFlight) \in Nat
    /\ Cardinality(InFlight) = 0 <=> InFlight = {}
<1>1. IsFiniteSet(InFlight)
  BY GateAssumption, FS_Subset DEF InFlight
<1> QED
  BY <1>1, FS_CardinalityType, FS_EmptySet

(* Admitting a call (consumer.go:121) puts one more in flight. *)
LEMMA AdmitAddsOne ==
    ASSUME TypeOK, NEW d \in Deliveries, call[d] = "checked",
           call' = [call EXCEPT ![d] = "handling"]
    PROVE  Cardinality(InFlight') = Cardinality(InFlight) + 1
<1>1. InFlight' = InFlight \cup {d} /\ d \notin InFlight
  BY DEF TypeOK, InFlight
<1> QED
  BY <1>1, InFlightFinite, FS_AddElement

(* The deferred decrement (consumer.go:129) takes one call out of flight. *)
LEMMA DecrementRemovesOne ==
    ASSUME TypeOK, NEW d \in Deliveries, call[d] = "returning",
           call' = [call EXCEPT ![d] = "idle"]
    PROVE  /\ InFlight' = InFlight \ {d}
           /\ Cardinality(InFlight') = Cardinality(InFlight) - 1
           /\ Cardinality(InFlight) > 0
<1>1. InFlight' = InFlight \ {d} /\ d \in InFlight
  BY DEF TypeOK, InFlight
<1>2. Cardinality(InFlight') = Cardinality(InFlight) - 1
  BY <1>1, InFlightFinite, FS_RemoveElement
<1>3. Cardinality(InFlight) > 0
  BY <1>1, InFlightFinite
<1> QED
  BY <1>1, <1>2, <1>3

(* The other moves of a call leave the set in flight alone. *)
LEMMA MoveKeepsInFlight ==
    ASSUME TypeOK, NEW d \in Deliveries, NEW s \in CallStates,
           call' = [call EXCEPT ![d] = s],
           call[d] \in {"handling", "returning"} <=> s \in {"handling", "returning"}
    PROVE  InFlight' = InFlight
  BY DEF TypeOK, InFlight

-----------------------------------------------------------------------------
(* The invariant is inductive *)

(* What Register leaves behind satisfies the inductive invariant. *)
LEMMA InitIInv == Init => IInv
<1> SUFFICES ASSUME Init PROVE IInv
  OBVIOUS
<1>1. TypeOK
  <2>1. 0 \in 0..MaxBatch
    BY GateAssumption
  <2>2. /\ call \in [Deliveries -> CallStates]
        /\ left \in [Deliveries -> 0..MaxBatch]
        /\ verdict \in [Deliveries -> {"none", "success", "retry"}]
        /\ waiter \in [Waiters -> {"out", "waiting", "drained", "timedOut"}]
    BY <2>1 DEF Init, CallStates
  <2>3. processingCount \in Int
    BY DEF Init
  <2> QED
    BY <2>2, <2>3, Zenon DEF Init, TypeOK
<1>2. CountIsInFlight
  <2>1. InFlight = {}
    BY DEF Init, InFlight
  <2> QED
    BY <2>1, FS_EmptySet DEF Init, CountIsInFlight
<1> QED
  BY <1>1, <1>2 DEF Init, IInv, GateInv, CallInv, NoDoubleClose, ClosedIffDrained,
     NilNeedsClosed, HandlerHasMessage, SuccessIsFull

(* Every critical section of Client.mu keeps the counter, the channel and *)
(* the waiters in agreement: the first half of IInv is inductive.         *)
LEMMA GateInvStep == IInv /\ [Next]_gateVars => GateInv'
<1> SUFFICES ASSUME IInv, [Next]_gateVars PROVE GateInv'
  OBVIOUS
<1> USE DEF IInv, GateInv, NoDoubleClose
<1>1. ASSUME NEW d \in Deliveries, RejectEarly(d) PROVE GateInv'
  <2>1. TypeOK'
    BY <1>1, GateAssumption DEF RejectEarly, TypeOK, counterVars
  <2> QED
    BY <1>1, <2>1 DEF RejectEarly, counterVars, CountIsInFlight, InFlight,
       ClosedIffDrained, NilNeedsClosed
<1>2. ASSUME NEW d \in Deliveries, PassCheck(d) PROVE GateInv'
  <2>1. TypeOK'
    BY <1>2, GateAssumption DEF PassCheck, TypeOK, CallStates, counterVars
  <2>2. InFlight' = InFlight
    BY <1>2, MoveKeepsInFlight DEF PassCheck, CallStates
  <2> QED
    BY <1>2, <2>1, <2>2 DEF PassCheck, counterVars, CountIsInFlight,
       ClosedIffDrained, NilNeedsClosed
<1>3. ASSUME NEW d \in Deliveries, RejectLate(d) PROVE GateInv'
  <2>1. TypeOK'
    BY <1>3 DEF RejectLate, TypeOK, CallStates, counterVars
  <2>2. InFlight' = InFlight
    BY <1>3, MoveKeepsInFlight DEF RejectLate, CallStates
  <2> QED
    BY <1>3, <2>1, <2>2 DEF RejectLate, counterVars, CountIsInFlight,
       ClosedIffDrained, NilNeedsClosed
<1>4. ASSUME NEW d \in Deliveries, Admit(d) PROVE GateInv'
  <2>1. TypeOK'
    BY <1>4 DEF Admit, TypeOK, CallStates
  <2>2. CountIsInFlight'
    BY <1>4, AdmitAddsOne DEF Admit, CountIsInFlight
  <2>3. ClosedIffDrained'
    BY <1>4 DEF Admit, ClosedIffDrained, TypeOK
  <2> QED
    BY <1>4, <2>1, <2>2, <2>3 DEF Admit, NilNeedsClosed
<1>5. ASSUME NEW d \in Deliveries, HandlerAccepts(d) PROVE GateInv'
  <2>1. TypeOK'
    <3>1. left[d] \in 1..MaxBatch
      BY <1>5, GateAssumption DEF HandlerAccepts, TypeOK, CallInv, HandlerHasMessage
    <3> QED
      BY <1>5, <3>1, GateAssumption DEF HandlerAccepts, TypeOK, CallStates, counterVars
  <2>2. InFlight' = InFlight
    <3>1. CASE call' = call
      BY <3>1 DEF InFlight
    <3>2. CASE call' = [call EXCEPT ![d] = "returning"]
      BY <1>5, <3>2, MoveKeepsInFlight DEF HandlerAccepts, CallStates
    <3> QED
      BY <1>5, <3>1, <3>2 DEF HandlerAccepts
  <2> QED
    BY <1>5, <2>1, <2>2 DEF HandlerAccepts, counterVars, CountIsInFlight,
       ClosedIffDrained, NilNeedsClosed
<1>6. ASSUME NEW d \in Deliveries, HandlerFails(d) PROVE GateInv'
  <2>1. TypeOK'
    BY <1>6 DEF HandlerFails, TypeOK, CallStates, counterVars
  <2>2. InFlight' = InFlight
    BY <1>6, MoveKeepsInFlight DEF HandlerFails, CallStates
  <2> QED
    BY <1>6, <2>1, <2>2 DEF HandlerFails, counterVars, CountIsInFlight,
       ClosedIffDrained, NilNeedsClosed
<1>7. ASSUME NEW d \in Deliveries, Decrement(d) PROVE GateInv'
  <2>1. /\ Cardinality(InFlight') = Cardinality(InFlight) - 1
        /\ Cardinality(InFlight) > 0
    BY <1>7, DecrementRemovesOne DEF Decrement
  <2>2. processingCount > 0 /\ processingDone = "open"
    BY <2>1 DEF CountIsInFlight, ClosedIffDrained, TypeOK
  <2>3. CountIsInFlight' /\ processingCount' \in Nat
    BY <1>7, <2>1, InFlightFinite DEF Decrement, CountIsInFlight
  <2>4. TypeOK'
    BY <1>7, <2>2 DEF Decrement, CloseDone, TypeOK, CallStates
  <2>5. NoDoubleClose'
    BY <1>7, <2>2 DEF Decrement, CloseDone
  <2>6. ClosedIffDrained'
    <3>1. CASE shutdownStarted /\ processingCount' = 0
      <4>1. processingCount' <= 0 /\ shutdownStarted
        BY <3>1
      <4>2. processingDone' = "closed" /\ shutdownStarted' = shutdownStarted
        BY <1>7, <4>1 DEF Decrement, CloseDone
      <4> QED
        BY <3>1, <4>2 DEF ClosedIffDrained
    <3>2. CASE ~(shutdownStarted /\ processingCount' = 0)
      <4>1. ~(processingCount' <= 0 /\ shutdownStarted)
        BY <2>3, <3>2
      <4> QED
        BY <1>7, <2>2, <3>2, <4>1 DEF Decrement, ClosedIffDrained
    <3> QED
      BY <3>1, <3>2
  <2>7. NilNeedsClosed'
    BY <1>7, <2>2 DEF Decrement, CloseDone, NilNeedsClosed
  <2> QED
    BY <2>3, <2>4, <2>5, <2>6, <2>7
<1>8. ASSUME StartShutdown PROVE GateInv'
  <2>1. processingCount \in Nat /\ processingDone = "open"
    BY <1>8, InFlightFinite DEF StartShutdown, CountIsInFlight, ClosedIffDrained, TypeOK
  <2>2. InFlight' = InFlight
    BY <1>8 DEF StartShutdown, callVars, InFlight
  <2>3. TypeOK'
    BY <1>8, <2>1 DEF StartShutdown, CloseDone, TypeOK, callVars
  <2>4. NoDoubleClose' /\ ClosedIffDrained'
    <3>1. CASE processingCount = 0
      <4>1. processingCount <= 0
        BY <3>1
      <4>2. /\ processingDone' = "closed"
            /\ panicked' = (processingDone = "closed")
            /\ shutdownStarted' /\ processingCount' = processingCount
        BY <1>8, <4>1, Zenon DEF StartShutdown, CloseDone
      <4> QED
        BY <2>1, <3>1, <4>2 DEF ClosedIffDrained
    <3>2. CASE processingCount > 0
      <4>1. ~(processingCount <= 0)
        BY <2>1, <3>2
      <4> QED
        BY <1>8, <2>1, <3>2, <4>1 DEF StartShutdown, ClosedIffDrained
    <3> QED
      BY <2>1, <3>1, <3>2
  <2>5. NilNeedsClosed'
    BY <1>8, <2>1 DEF StartShutdown, CloseDone, NilNeedsClosed
  <2> QED
    BY <1>8, <2>2, <2>3, <2>4, <2>5 DEF StartShutdown, CountIsInFlight
<1>9. ASSUME NEW w \in Waiters, WaiterStep(w) PROVE GateInv'
  <2>1. TypeOK'
    BY <1>9 DEF WaiterStep, BeginWait, WaitDrained, WaitTimedOut, TypeOK, counterVars, callVars
  <2>2. NilNeedsClosed'
    BY <1>9 DEF WaiterStep, BeginWait, WaitDrained, WaitTimedOut, TypeOK, counterVars,
       NilNeedsClosed
  <2> QED
    BY <1>9, <2>1, <2>2 DEF WaiterStep, BeginWait, WaitDrained, WaitTimedOut, counterVars,
       callVars, CountIsInFlight, InFlight, ClosedIffDrained
<1>10. CASE UNCHANGED gateVars
  BY <1>10 DEF gateVars, TypeOK, CountIsInFlight, InFlight, ClosedIffDrained, NilNeedsClosed
<1> QED
  BY <1>1, <1>2, <1>3, <1>4, <1>5, <1>6, <1>7, <1>8, <1>9, <1>10 DEF Next, DeliveryStep

(* Every step of a wrapped handler keeps its place, its remaining messages *)
(* and its verdict in agreement: the second half of IInv is inductive.      *)
LEMMA CallInvStep == IInv /\ [Next]_gateVars => CallInv'
<1> SUFFICES ASSUME IInv, [Next]_gateVars PROVE CallInv'
  OBVIOUS
<1> USE DEF IInv, GateInv, CallInv, TypeOK, HandlerHasMessage, SuccessIsFull
<1>1. ASSUME NEW d \in Deliveries, RejectEarly(d) PROVE CallInv'
  BY <1>1, GateAssumption DEF RejectEarly
<1>2. ASSUME NEW d \in Deliveries, PassCheck(d) PROVE CallInv'
  BY <1>2, GateAssumption DEF PassCheck
<1>3. ASSUME NEW d \in Deliveries, RejectLate(d) PROVE CallInv'
  BY <1>3 DEF RejectLate
<1>4. ASSUME NEW d \in Deliveries, Admit(d) PROVE CallInv'
  BY <1>4 DEF Admit
<1>5. ASSUME NEW d \in Deliveries, HandlerAccepts(d) PROVE CallInv'
  BY <1>5, GateAssumption DEF HandlerAccepts
<1>6. ASSUME NEW d \in Deliveries, HandlerFails(d) PROVE CallInv'
  BY <1>6 DEF HandlerFails
<1>7. ASSUME NEW d \in Deliveries, Decrement(d) PROVE CallInv'
  BY <1>7 DEF Decrement
<1>8. CASE UNCHANGED callVars
  BY <1>8 DEF callVars
<1>9. StartShutdown \/ (\E w \in Waiters : WaiterStep(w)) \/ UNCHANGED gateVars
        => UNCHANGED callVars
  BY DEF StartShutdown, WaiterStep, BeginWait, WaitDrained, WaitTimedOut, gateVars, callVars
<1> QED
  BY <1>1, <1>2, <1>3, <1>4, <1>5, <1>6, <1>7, <1>8, <1>9 DEF Next, DeliveryStep

(* Every reachable state of the gate satisfies the inductive invariant. *)
THEOREM GateInvariant == Spec => []IInv
<1>1. IInv /\ [Next]_gateVars => IInv'
  BY GateInvStep, CallInvStep DEF IInv
<1> QED
  BY InitIInv, <1>1, PTL DEF Spec

-----------------------------------------------------------------------------
(* The properties the runs check *)

(* The gate's variables keep their types; left never runs below zero. *)
THEOREM GateTypeCorrect == Spec => []TypeOK
<1>1. IInv => TypeOK
  BY DEF IInv, GateInv
<1> QED
  BY GateInvariant, <1>1, PTL

(* processingCount is always the number of calls in processing. *)
THEOREM GateCounts == Spec => []CountIsInFlight
<1>1. IInv => CountIsInFlight
  BY DEF IInv, GateInv
<1> QED
  BY GateInvariant, <1>1, PTL

(* processingDone is never closed twice, whoever closes it. *)
THEOREM GateClosesOnce == Spec => []NoDoubleClose
<1>1. IInv => NoDoubleClose
  BY DEF IInv, GateInv
<1> QED
  BY GateInvariant, <1>1, PTL

(* A nil from waitForProcessingComplete means no handler is running. *)
THEOREM GateQuietAfterDrain == Spec => []DrainedMeansQuiet
<1>1. IInv => DrainedMeansQuiet
  BY InFlightFinite DEF IInv, GateInv, NilNeedsClosed, ClosedIffDrained, CountIsInFlight,
     DrainedMeansQuiet
<1> QED
  BY GateInvariant, <1>1, PTL

(* A batch is acknowledged only when every message of it was handled. *)
THEOREM GateAcksHandled == Spec => []AckedMeansHandled
<1>1. IInv => AckedMeansHandled
  BY DEF IInv, CallInv, SuccessIsFull, AckedMeansHandled
<1> QED
  BY GateInvariant, <1>1, PTL

(* The wakeup of the waiters comes when it is due: after a shutdown began,  *)
(* processingDone is closed exactly while no call is in processing.         *)
NoWakeupLost == shutdownStarted => (processingDone = "closed" <=> InFlight = {})

(* It is neither lost nor early, whether startShutdown finds nothing to     *)
(* wait for or the last decrement closes the channel.                       *)
THEOREM GateLosesNoWakeup == Spec => []NoWakeupLost
<1>1. IInv => NoWakeupLost
  BY InFlightFinite DEF IInv, GateInv, ClosedIffDrained, CountIsInFlight, NoWakeupLost
<1> QED
  BY GateInvariant, <1>1, PTL

-----------------------------------------------------------------------------
(* The gate implements Drain *)

(* Every step of the gate is a step of Drain, or changes nothing Drain sees. *)
LEMMA GateStepRefines == IInv /\ [Next]_gateVars => [Drained!Next]_<<InFlight, phase>>
<1> SUFFICES ASSUME IInv, [Next]_gateVars
             PROVE  Drained!Next \/ UNCHANGED <<InFlight, phase>>
  BY DEF Drained!drainVars
<1> USE DEF IInv, GateInv
<1>0. TypeOK /\ (processingCount = 0 <=> InFlight = {})
  BY InFlightFinite DEF CountIsInFlight
<1>1. ASSUME NEW d \in Deliveries,
             RejectEarly(d) \/ PassCheck(d) \/ RejectLate(d)
      PROVE  UNCHANGED <<InFlight, phase>>
  BY <1>0, <1>1 DEF RejectEarly, PassCheck, RejectLate, counterVars, InFlight, phase, TypeOK
<1>2. ASSUME NEW d \in Deliveries, HandlerAccepts(d) \/ HandlerFails(d)
      PROVE  UNCHANGED <<InFlight, phase>>
  BY <1>0, <1>2 DEF HandlerAccepts, HandlerFails, counterVars, InFlight, phase, TypeOK
<1>3. ASSUME NEW d \in Deliveries, Admit(d) PROVE Drained!Begin(d)
  <2>1. InFlight' = InFlight \cup {d} /\ d \notin InFlight
    BY <1>0, <1>3 DEF Admit, InFlight, TypeOK
  <2>2. phase = "open" /\ phase' = phase
    BY <1>3 DEF Admit, phase
  <2> QED
    BY <2>1, <2>2 DEF Drained!Begin
<1>4. ASSUME NEW d \in Deliveries, Decrement(d) PROVE Drained!Finish(d)
  <2>1. InFlight' = InFlight \ {d} /\ d \in InFlight
    BY <1>0, <1>4 DEF Decrement, InFlight, TypeOK
  <2>2. GateInv'
    BY GateInvStep
  <2>3. (processingCount = 0 <=> InFlight = {})'
    BY <2>2, <2>1, FS_RemoveElement, FS_EmptySet, FS_CardinalityType, InFlightFinite
       DEF CountIsInFlight
  <2>4. shutdownStarted' = shutdownStarted
    BY <1>4 DEF Decrement
  <2>5. phase' = IF phase = "open" THEN phase ELSE Drained!PhaseWith(InFlight')
    BY <2>2, <2>3, <2>4 DEF phase, ClosedIffDrained, Drained!PhaseWith
  <2> QED
    BY <2>1, <2>5 DEF Drained!Finish
<1>5. ASSUME StartShutdown PROVE Drained!RequestShutdown
  <2>1. InFlight' = InFlight
    BY <1>5 DEF StartShutdown, callVars, InFlight
  <2>2. GateInv'
    BY GateInvStep
  <2>3. phase = "open" /\ phase' = Drained!PhaseWith(InFlight)
    BY <1>0, <1>5, <2>2 DEF StartShutdown, phase, ClosedIffDrained, Drained!PhaseWith
  <2> QED
    BY <2>1, <2>3 DEF Drained!RequestShutdown
<1>6. ASSUME NEW w \in Waiters, WaiterStep(w) PROVE UNCHANGED <<InFlight, phase>>
  BY <1>6 DEF WaiterStep, BeginWait, WaitDrained, WaitTimedOut, counterVars, callVars,
     InFlight, phase
<1>7. CASE UNCHANGED gateVars
  BY <1>7 DEF gateVars, InFlight, phase
<1> QED
  BY <1>1, <1>2, <1>3, <1>4, <1>5, <1>6, <1>7 DEF Next, DeliveryStep, Drained!Next

(* Every behaviour of the gate is one the abstract Drain allows: admission  *)
(* only while open, drained exactly when the last admitted call ends.       *)
THEOREM GateImplementsDrain == Spec => Drained!Spec
<1>1. Init => Drained!Init
  BY DEF Init, Drained!Init, InFlight, phase
<1>2. IInv /\ [Next]_gateVars => [Drained!Next]_(Drained!drainVars)
  BY GateStepRefines DEF Drained!drainVars
<1> QED
  BY <1>1, <1>2, GateInvariant, PTL DEF Spec, Drained!Spec
=============================================================================
