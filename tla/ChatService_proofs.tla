------------------------- MODULE ChatService_proofs -------------------------
(***************************************************************************)
(* Proofs about ChatService for any number of SendRequest calls, any set   *)
(* of handleResponse goroutines and any limit on the retries.              *)
(***************************************************************************)
EXTENDS ChatService, TLAPS

(* A handleResponse that has looked response r up, or will, and not sent it. *)
Carries(h, r) == handles[h] = r /\ handler[h] \in {"looking", "sending"}

(* The answer is in the channel of its SendRequest, or has been taken out. *)
Received(r) == buffered[r] \/ result[r] = "response"

(* A goroutine inside handleResponse works on some response. *)
HandlerHolds == \A h \in Handlers : handler[h] # "idle" => handles[h] \in Requests

(* Before its message is at the broker a request has no answer. *)
AnsweredWasSent ==
    \A r \in Requests :
        /\ request[r] = "none" => answers[r] = 0 /\ delivered[r] = 0
        /\ sender[r] \in {"idle", "storing"} => request[r] = "none"

(* Whatever is on its way to a SendRequest, or has got there, is an answer   *)
(* to it that has been delivered.                                           *)
SeenWasSent ==
    \A r \in Requests :
        Received(r) \/ (\E h \in Handlers : handler[h] # "idle" /\ handles[h] = r)
            => delivered[r] > 0

(* A response delivered once is in one place: one goroutine, or the channel  *)
(* it was meant for, or nowhere any more.                                   *)
OneAnswerOnePlace ==
    \A r \in Requests : delivered[r] <= 1 =>
        \A h \in Handlers : Carries(h, r) =>
            ~Received(r) /\ \A g \in Handlers : Carries(g, r) => g = h

(* A channel is closed only by its SendRequest, which has a result by then. *)
ClosedHasResult ==
    \A r \in Requests :
        /\ closed[r] => sender[r] = "done"
        /\ sender[r] \in {"deleting", "closing", "done"} => result[r] # "none"

(* The inductive invariant: the two properties, what the map and the        *)
(* channels need, and how the answers are counted.                          *)
ChannelInv == NothingLeftBehind /\ ClosedHasResult /\ PanicNeedsLateAnswer

AnswerInv == HandlerHolds /\ AnsweredWasSent /\ SeenWasSent /\ OneAnswerOnePlace

IInv == TypeOK /\ ChannelInv /\ AnswerInv

-----------------------------------------------------------------------------
(* Every step keeps the types, and the retries within their limit. *)
LEMMA TypeStep == IInv /\ [Next]_vars => TypeOK'
<1> SUFFICES ASSUME IInv, [Next]_vars PROVE TypeOK'
  OBVIOUS
<1> USE ChatAssumption DEF answerVars, IInv, AnswerInv, AnsweredWasSent, HandlerHolds, TypeOK
<1>1. ASSUME NEW r \in Requests, Begin(r) PROVE TypeOK'
  BY <1>1 DEF Begin, Goto, Alive, senderVars, chanVars, handlerVars, serverVars
<1>2. ASSUME NEW r \in Requests, Store(r) PROVE TypeOK'
  BY <1>2 DEF Store, Goto, MayRace, Alive, senderVars, chanVars, handlerVars, serverVars
<1>3. ASSUME NEW r \in Requests, ReachBroker(r) PROVE TypeOK'
  BY <1>3 DEF ReachBroker, Alive, senderVars, chanVars, handlerVars, serverVars
<1>4. ASSUME NEW r \in Requests, PublishSucceeds(r) PROVE TypeOK'
  BY <1>4 DEF PublishSucceeds, Goto, Alive, senderVars, chanVars, handlerVars, serverVars
<1>5. ASSUME NEW r \in Requests, PublishFails(r) PROVE TypeOK'
  BY <1>5 DEF PublishFails, Goto, Return, Alive, senderVars, chanVars, handlerVars, serverVars
<1>6. ASSUME NEW r \in Requests, Receive(r) PROVE TypeOK'
  BY <1>6 DEF Receive, Goto, Return, Alive, senderVars, chanVars, handlerVars, serverVars
<1>7. ASSUME NEW r \in Requests, TimeOut(r) PROVE TypeOK'
  BY <1>7 DEF TimeOut, Goto, Return, Alive, senderVars, chanVars, handlerVars, serverVars
<1>8. ASSUME NEW r \in Requests, Forget(r) PROVE TypeOK'
  BY <1>8 DEF Forget, Goto, MayRace, Alive, senderVars, chanVars, handlerVars, serverVars
<1>9. ASSUME NEW r \in Requests, CloseChan(r) PROVE TypeOK'
  BY <1>9 DEF CloseChan, Goto, Alive, senderVars, chanVars, handlerVars, serverVars
<1>10. ASSUME NEW h \in Handlers, NEW r \in Requests, Lookup(h, r) PROVE TypeOK'
  BY <1>10 DEF Lookup, Step, Alive, senderVars, chanVars, handlerVars, serverVars
<1>11. ASSUME NEW h \in Handlers, Found(h) PROVE TypeOK'
  BY <1>11 DEF Found, Step, MayRace, Alive, senderVars, chanVars, handlerVars, serverVars
<1>12. ASSUME NEW h \in Handlers, NotFound(h) PROVE TypeOK'
  BY <1>12 DEF NotFound, Step, MayRace, Alive, senderVars, chanVars, handlerVars, serverVars
<1>13. ASSUME NEW h \in Handlers, SendResponse(h) PROVE TypeOK'
  BY <1>13 DEF SendResponse, Step, Alive, senderVars, chanVars, handlerVars, serverVars
<1>14. ASSUME NEW h \in Handlers, Delete(h) PROVE TypeOK'
  BY <1>14 DEF Delete, Step, MayRace, Alive, senderVars, chanVars, handlerVars, serverVars
<1>15. ASSUME NEW r \in Requests, Deliver(r) PROVE TypeOK'
  BY <1>15 DEF Deliver, senderVars, chanVars, handlerVars, serverVars
<1>16. ASSUME NEW r \in Requests, Answer(r) PROVE TypeOK'
  BY <1>16 DEF Answer, StoreAnswer, senderVars, chanVars, handlerVars, serverVars
<1>17. ASSUME NEW r \in Requests, AnswerFails(r) PROVE TypeOK'
  BY <1>17 DEF AnswerFails, HandBack, StoreAnswer, senderVars, chanVars, handlerVars, serverVars
<1>19. ASSUME NEW r \in Requests, Redeliver(r) PROVE TypeOK'
  BY <1>19 DEF Redeliver, senderVars, chanVars, handlerVars
<1>18. CASE UNCHANGED vars
  BY <1>18 DEF vars, senderVars, chanVars, handlerVars, serverVars
<1> QED
  BY <1>1, <1>2, <1>3, <1>4, <1>5, <1>6, <1>7, <1>8, <1>9,
     <1>10, <1>11, <1>12, <1>13, <1>14, <1>15, <1>16, <1>17, <1>18, <1>19
  DEF Next, SenderStep, HandlerStep, ServerStep

(* Every step keeps the map and the channels in order. *)
LEMMA ChannelStep == IInv /\ [Next]_vars => ChannelInv'
<1> SUFFICES ASSUME IInv, [Next]_vars PROVE ChannelInv'
  OBVIOUS
<1> USE ChatAssumption DEF answerVars, IInv, TypeOK, ChannelInv, NothingLeftBehind, ClosedHasResult,
        PanicNeedsLateAnswer, AnswerInv, HandlerHolds, OneAnswerOnePlace, Received, Carries
<1>1. ASSUME NEW r \in Requests, Begin(r) PROVE ChannelInv'
  BY <1>1 DEF Begin, Goto, Alive, senderVars, chanVars, handlerVars, serverVars
<1>2. ASSUME NEW r \in Requests, Store(r) PROVE ChannelInv'
  BY <1>2 DEF Store, Goto, MayRace, Alive, senderVars, chanVars, handlerVars, serverVars
<1>3. ASSUME NEW r \in Requests, ReachBroker(r) PROVE ChannelInv'
  BY <1>3 DEF ReachBroker, Alive, senderVars, chanVars, handlerVars, serverVars
<1>4. ASSUME NEW r \in Requests, PublishSucceeds(r) PROVE ChannelInv'
  BY <1>4 DEF PublishSucceeds, Goto, Alive, senderVars, chanVars, handlerVars, serverVars
<1>5. ASSUME NEW r \in Requests, PublishFails(r) PROVE ChannelInv'
  BY <1>5 DEF PublishFails, Goto, Return, Alive, senderVars, chanVars, handlerVars, serverVars
<1>6. ASSUME NEW r \in Requests, Receive(r) PROVE ChannelInv'
  BY <1>6 DEF Receive, Goto, Return, Alive, senderVars, chanVars, handlerVars, serverVars
<1>7. ASSUME NEW r \in Requests, TimeOut(r) PROVE ChannelInv'
  BY <1>7 DEF TimeOut, Goto, Return, Alive, senderVars, chanVars, handlerVars, serverVars
<1>8. ASSUME NEW r \in Requests, Forget(r) PROVE ChannelInv'
  BY <1>8 DEF Forget, Goto, MayRace, Alive, senderVars, chanVars, handlerVars, serverVars
<1>9. ASSUME NEW r \in Requests, CloseChan(r) PROVE ChannelInv'
  BY <1>9 DEF CloseChan, Goto, Alive, senderVars, chanVars, handlerVars, serverVars
<1>10. ASSUME NEW h \in Handlers, NEW r \in Requests, Lookup(h, r) PROVE ChannelInv'
  BY <1>10 DEF Lookup, Step, Alive, senderVars, chanVars, handlerVars, serverVars
<1>11. ASSUME NEW h \in Handlers, Found(h) PROVE ChannelInv'
  BY <1>11 DEF Found, Step, MayRace, Alive, senderVars, chanVars, handlerVars, serverVars
<1>12. ASSUME NEW h \in Handlers, NotFound(h) PROVE ChannelInv'
  BY <1>12 DEF NotFound, Step, MayRace, Alive, senderVars, chanVars, handlerVars, serverVars
<1>13. ASSUME NEW h \in Handlers, SendResponse(h) PROVE ChannelInv'
  <2>1. UNCHANGED <<sender, result, responses, closed, delivered>>
    BY <1>13 DEF SendResponse, Step, senderVars, serverVars
  <2>2. NothingLeftBehind' /\ ClosedHasResult'
    BY <2>1
  <2>3. handles[h] \in Requests /\ Carries(h, handles[h])
    BY <1>13 DEF SendResponse, Step
  <2>4. ASSUME closed[handles[h]], delivered[handles[h]] <= 1
        PROVE  result[handles[h]] \in {"timeout", "publishError"}
    <3>1. result[handles[h]] # "none"
      <4>1. sender[handles[h]] = "done"
        BY <2>3, <2>4
      <4> QED
        BY <2>3, <4>1
    <3>2. ~Received(handles[h])
      <4>1. OneAnswerOnePlace
        BY DEF IInv
      <4> HIDE DEF OneAnswerOnePlace, Received, Carries, TypeOK, SeenWasSent
      <4> QED
        BY <2>3, <2>4, <4>1 DEF OneAnswerOnePlace
    <3>3. result[handles[h]] \in {"none", "response", "publishError", "timeout"}
      BY <2>3 DEF TypeOK
    <3>4. result[handles[h]] # "response"
      BY <3>2, Zenon DEF Received
    <3> QED
      BY <3>1, <3>3, <3>4
  <2>5. ASSUME closed[handles[h]] PROVE PanicNeedsLateAnswer'
    <3>0. delivered[handles[h]] \in Nat
      BY <2>3 DEF TypeOK
    <3>1. delivered[handles[h]] <= 1 \/ delivered[handles[h]] > 1
      BY <3>0
    <3>2. result[handles[h]] \in {"timeout", "publishError"} \/ delivered[handles[h]] > 1
      BY <2>4, <2>5, <3>1, Zenon
    <3>3. result' = result /\ delivered' = delivered /\ handles[h] \in Requests
      BY <2>1, <2>3
    <3>4. \E r \in Requests : result'[r] \in {"timeout", "publishError"} \/ delivered'[r] > 1
      BY <3>2, <3>3, Zenon
    <3> QED
      BY <3>4 DEF PanicNeedsLateAnswer
  <2>6. ASSUME ~closed[handles[h]] PROVE PanicNeedsLateAnswer'
    BY <1>13, <2>1, <2>6 DEF SendResponse, Step, Alive
  <2> QED
    BY <2>2, <2>5, <2>6
<1>14. ASSUME NEW h \in Handlers, Delete(h) PROVE ChannelInv'
  BY <1>14 DEF Delete, Step, MayRace, Alive, senderVars, chanVars, handlerVars, serverVars
<1>15. ASSUME NEW r \in Requests, Deliver(r) PROVE ChannelInv'
  BY <1>15 DEF Deliver, senderVars, chanVars, handlerVars, serverVars
<1>16. ASSUME NEW r \in Requests, Answer(r) PROVE ChannelInv'
  BY <1>16 DEF Answer, StoreAnswer, senderVars, chanVars, handlerVars, serverVars
<1>17. ASSUME NEW r \in Requests, AnswerFails(r) PROVE ChannelInv'
  BY <1>17 DEF AnswerFails, HandBack, StoreAnswer, senderVars, chanVars, handlerVars, serverVars
<1>19. ASSUME NEW r \in Requests, Redeliver(r) PROVE ChannelInv'
  BY <1>19 DEF Redeliver, senderVars, chanVars, handlerVars
<1>18. CASE UNCHANGED vars
  BY <1>18 DEF vars, senderVars, chanVars, handlerVars, serverVars
<1> QED
  BY <1>1, <1>2, <1>3, <1>4, <1>5, <1>6, <1>7, <1>8, <1>9,
     <1>10, <1>11, <1>12, <1>13, <1>14, <1>15, <1>16, <1>17, <1>18, <1>19
  DEF Next, SenderStep, HandlerStep, ServerStep

(* Every step keeps the account of the answers. *)
LEMMA AnswerStep == IInv /\ [Next]_vars => AnswerInv'
<1> SUFFICES ASSUME IInv, [Next]_vars PROVE AnswerInv'
  OBVIOUS
<1> USE ChatAssumption DEF answerVars, IInv, TypeOK, AnswerInv, HandlerHolds, AnsweredWasSent, SeenWasSent,
        OneAnswerOnePlace, Received, Carries
<1>1. ASSUME NEW r \in Requests, Begin(r) PROVE AnswerInv'
  BY <1>1 DEF Begin, Goto, Alive, senderVars, chanVars, handlerVars, serverVars
<1>2. ASSUME NEW r \in Requests, Store(r) PROVE AnswerInv'
  BY <1>2 DEF Store, Goto, MayRace, Alive, senderVars, chanVars, handlerVars, serverVars
<1>3. ASSUME NEW r \in Requests, ReachBroker(r) PROVE AnswerInv'
  BY <1>3 DEF ReachBroker, Alive, senderVars, chanVars, handlerVars, serverVars
<1>4. ASSUME NEW r \in Requests, PublishSucceeds(r) PROVE AnswerInv'
  BY <1>4 DEF PublishSucceeds, Goto, Alive, senderVars, chanVars, handlerVars, serverVars
<1>5. ASSUME NEW r \in Requests, PublishFails(r) PROVE AnswerInv'
  BY <1>5 DEF PublishFails, Goto, Return, Alive, senderVars, chanVars, handlerVars, serverVars
<1>6. ASSUME NEW r \in Requests, Receive(r) PROVE AnswerInv'
  BY <1>6 DEF Receive, Goto, Return, Alive, senderVars, chanVars, handlerVars, serverVars
<1>7. ASSUME NEW r \in Requests, TimeOut(r) PROVE AnswerInv'
  BY <1>7 DEF TimeOut, Goto, Return, Alive, senderVars, chanVars, handlerVars, serverVars
<1>8. ASSUME NEW r \in Requests, Forget(r) PROVE AnswerInv'
  BY <1>8 DEF Forget, Goto, MayRace, Alive, senderVars, chanVars, handlerVars, serverVars
<1>9. ASSUME NEW r \in Requests, CloseChan(r) PROVE AnswerInv'
  BY <1>9 DEF CloseChan, Goto, Alive, senderVars, chanVars, handlerVars, serverVars
<1>10. ASSUME NEW h \in Handlers, NEW r \in Requests, Lookup(h, r) PROVE AnswerInv'
  BY <1>10 DEF Lookup, Step, Alive, senderVars, chanVars, handlerVars, serverVars
<1>11. ASSUME NEW h \in Handlers, Found(h) PROVE AnswerInv'
  BY <1>11 DEF Found, Step, MayRace, Alive, senderVars, chanVars, handlerVars, serverVars
<1>12. ASSUME NEW h \in Handlers, NotFound(h) PROVE AnswerInv'
  BY <1>12 DEF NotFound, Step, MayRace, Alive, senderVars, chanVars, handlerVars, serverVars
<1>13. ASSUME NEW h \in Handlers, SendResponse(h) PROVE AnswerInv'
  BY <1>13 DEF SendResponse, Step, Alive, senderVars, chanVars, handlerVars, serverVars
<1>14. ASSUME NEW h \in Handlers, Delete(h) PROVE AnswerInv'
  BY <1>14 DEF Delete, Step, MayRace, Alive, senderVars, chanVars, handlerVars, serverVars
<1>15. ASSUME NEW r \in Requests, Deliver(r) PROVE AnswerInv'
  BY <1>15 DEF Deliver, senderVars, chanVars, handlerVars, serverVars
<1>16. ASSUME NEW r \in Requests, Answer(r) PROVE AnswerInv'
  BY <1>16 DEF Answer, StoreAnswer, senderVars, chanVars, handlerVars, serverVars
<1>17. ASSUME NEW r \in Requests, AnswerFails(r) PROVE AnswerInv'
  BY <1>17 DEF AnswerFails, HandBack, StoreAnswer, senderVars, chanVars, handlerVars, serverVars
<1>19. ASSUME NEW r \in Requests, Redeliver(r) PROVE AnswerInv'
  BY <1>19 DEF Redeliver, senderVars, chanVars, handlerVars
<1>18. CASE UNCHANGED vars
  BY <1>18 DEF vars, senderVars, chanVars, handlerVars, serverVars
<1> QED
  BY <1>1, <1>2, <1>3, <1>4, <1>5, <1>6, <1>7, <1>8, <1>9,
     <1>10, <1>11, <1>12, <1>13, <1>14, <1>15, <1>16, <1>17, <1>18, <1>19
  DEF Next, SenderStep, HandlerStep, ServerStep

(* IInv holds in every reachable state: no theorem below needs more. *)
THEOREM ChatInvariant == Spec => []IInv
<1>1. Init => IInv
  BY ChatAssumption DEF Init, IInv, TypeOK, ChannelInv, NothingLeftBehind, ClosedHasResult,
     PanicNeedsLateAnswer, AnswerInv, HandlerHolds, AnsweredWasSent, SeenWasSent,
     OneAnswerOnePlace, Received, Carries
<1>2. IInv /\ [Next]_vars => IInv'
  BY TypeStep, ChannelStep, AnswerStep DEF IInv
<1> QED
  BY <1>1, <1>2, PTL DEF Spec

-----------------------------------------------------------------------------
(* Each variable keeps its type; in particular no request is handed back     *)
(* more often than MaxReconsumeTimes allows.                                *)
THEOREM ChatTypeCorrect == Spec => []TypeOK
<1>1. IInv => TypeOK
  BY DEF IInv
<1> QED
  BY ChatInvariant, <1>1, PTL

(* An entry of the map always belongs to a SendRequest under way. *)
THEOREM ChatLeavesNothingBehind == Spec => []NothingLeftBehind
<1>1. IInv => NothingLeftBehind
  BY DEF IInv, ChannelInv
<1> QED
  BY ChatInvariant, <1>1, PTL

(* One answer in time, delivered once, never panics; a request given up      *)
(* early, or an answer that comes twice, is what it takes.                  *)
THEOREM ChatPanicNeedsLateAnswer == Spec => []PanicNeedsLateAnswer
<1>1. IInv => PanicNeedsLateAnswer
  BY DEF IInv, ChannelInv
<1> QED
  BY ChatInvariant, <1>1, PTL

(* What a SendRequest receives, and what is on its way to it, the chat      *)
(* service has sent to this very request.                                   *)
THEOREM ChatSeenWasSent == Spec => []SeenWasSent
<1>1. IInv => SeenWasSent
  BY DEF IInv, AnswerInv
<1> QED
  BY ChatInvariant, <1>1, PTL

-----------------------------------------------------------------------------
(* SendRequest implements CallService *)

(* What a caller sees of a SendRequest, and the answers it could get. *)
CallState(r) ==
    CASE sender[r] = "idle" -> "idle"
      [] sender[r] = "done" /\ result[r] = "response" -> "answered"
      [] sender[r] = "done" /\ result[r] # "response" -> "failed"
      [] OTHER -> "pending"

CallStates == [r \in Requests |-> CallState(r)]

Served == {r \in Requests : answers[r] + delivered[r] > 0}

(* A sender that moves neither out of "idle" nor into "done" does not move   *)
(* as its caller sees it.                                                    *)
LEMMA CallStatesSame ==
    ASSUME NEW r \in Requests, TypeOK, TypeOK',
           \A q \in Requests \ {r} : sender'[q] = sender[q] /\ result'[q] = result[q],
           \/ sender'[r] = sender[r] /\ result'[r] = result[r]
           \/ sender[r] \notin {"idle", "done"} /\ sender'[r] \notin {"idle", "done"}
    PROVE  CallStates' = CallStates
<1>1. \A q \in Requests : CallState(q)' = CallState(q)
  BY DEF CallState
<1> QED
  BY <1>1 DEF CallStates

(* What a step leaves alone it leaves alone for the service, and a panic is  *)
(* the crash of the calling process.                                        *)
LEMMA SameOrCrash ==
    ASSUME CallStates' = CallStates, Served' = Served, Alive' = Alive \/ Alive
    PROVE  Service!Crash \/ UNCHANGED Service!serviceVars
<1>1. CASE Alive' = Alive
  BY <1>1 DEF Service!serviceVars, CallStates, CallState, Served
<1>2. CASE Alive /\ ~Alive'
  BY <1>2 DEF Service!Crash, CallStates, CallState, Served
<1> QED
  BY <1>1, <1>2 DEF Alive

(* A step that ends no call and stores no answer is no step of the service,  *)
(* or the crash of the calling process.                                     *)
LEMMA QuietStep ==
    ASSUME IInv, TypeOK', NEW r \in Requests,
           \/ Store(r) \/ ReachBroker(r) \/ PublishSucceeds(r) \/ PublishFails(r)
           \/ Receive(r) \/ TimeOut(r) \/ Forget(r) \/ Deliver(r) \/ Redeliver(r)
           \/ \E h \in Handlers : Lookup(h, r) \/ HandlerStep(h)
    PROVE  Service!Crash \/ UNCHANGED Service!serviceVars
<1>1. TypeOK
  BY DEF IInv
<1>2. ASSUME Store(r) \/ ReachBroker(r) \/ PublishSucceeds(r) \/ PublishFails(r)
           \/ Receive(r) \/ TimeOut(r) \/ Forget(r)
      PROVE  /\ \A q \in Requests \ {r} : sender'[q] = sender[q] /\ result'[q] = result[q]
             /\ \/ sender'[r] = sender[r] /\ result'[r] = result[r]
                \/ sender[r] \notin {"idle", "done"} /\ sender'[r] \notin {"idle", "done"}
             /\ answers' = answers /\ delivered' = delivered
             /\ Alive
  BY <1>1, <1>2 DEF TypeOK, Store, ReachBroker, PublishSucceeds, PublishFails, Receive, TimeOut,
     Forget, Goto, Return, senderVars, serverVars, answerVars
<1>3. ASSUME Deliver(r) \/ Redeliver(r) \/ \E h \in Handlers : Lookup(h, r) \/ HandlerStep(h)
      PROVE  sender' = sender /\ result' = result /\ (Alive' = Alive \/ Alive)
  BY <1>3 DEF Deliver, Redeliver, Lookup, HandlerStep, Found, NotFound, SendResponse, Delete, Step, Alive,
     senderVars, serverVars
<1>4. CallStates' = CallStates /\ (Alive' = Alive \/ Alive)
  BY <1>1, <1>2, <1>3, CallStatesSame DEF HandlerStep
<1>5. Served' = Served
  <2>1. CASE \E h \in Handlers : Lookup(h, r)
    <3>1. PICK h \in Handlers : Lookup(h, r)
      BY <2>1
    <3>2. \A q \in Requests : answers'[q] + delivered'[q] = answers[q] + delivered[q]
      BY <1>1, <3>1 DEF TypeOK, Lookup
    <3> QED
      BY <3>2 DEF Served
  <2>2. CASE Redeliver(r)
    <3>1. \A q \in Requests : (answers'[q] + delivered'[q] > 0) = (answers[q] + delivered[q] > 0)
      BY <1>1, <2>2 DEF TypeOK, Redeliver
    <3> QED
      BY <3>1 DEF Served
  <2>3. CASE answers' = answers /\ delivered' = delivered
    BY <2>3 DEF Served
  <2>4. ASSUME Deliver(r) \/ \E h \in Handlers : HandlerStep(h)
        PROVE  answers' = answers /\ delivered' = delivered
    BY <2>4 DEF Deliver, HandlerStep, Found, NotFound, SendResponse, Delete, serverVars, answerVars
  <2> QED
    BY <1>2, <2>1, <2>2, <2>3, <2>4
<1> QED
  BY <1>4, <1>5, SameOrCrash

(* An answer stored serves its call, the first time. *)
LEMMA AnswerServes ==
    ASSUME IInv, TypeOK', NEW r \in Requests, Answer(r) \/ AnswerFails(r)
    PROVE  Service!Serve(r) \/ UNCHANGED Service!serviceVars
<1>1. sender' = sender /\ result' = result /\ panic' = panic
  BY DEF Answer, AnswerFails, senderVars
<1>2. CallStates' = CallStates /\ Alive' = Alive
  BY <1>1 DEF CallStates, CallState, Alive
<1>3. sender[r] # "idle" /\ request[r] = "handling"
  BY DEF IInv, AnswerInv, AnsweredWasSent, Answer, AnswerFails
<1>4. CallStates[r] # "idle"
  BY <1>3 DEF CallStates, CallState
<1>5. CASE StoreAnswer(r)
  <2>1. Served' = Served \cup {r}
    BY <1>5 DEF StoreAnswer, Served, IInv, TypeOK
  <2>2. CASE r \in Served
    <3>1. Served' = Served
      BY <2>1, <2>2
    <3> QED
      BY <1>2, <3>1 DEF Service!serviceVars, CallStates, CallState, Served
  <2>3. CASE r \notin Served
    BY <1>2, <1>4, <2>1, <2>3 DEF Service!Serve, CallStates, CallState, Served
  <2> QED
    BY <2>2, <2>3
<1>6. CASE answers' = answers /\ delivered' = delivered
  BY <1>2, <1>6 DEF Service!serviceVars, CallStates, CallState, Served
<1> QED
  BY <1>5, <1>6 DEF Answer, AnswerFails, answerVars

(* SendRequest begins a call, and ends it with what its caller is due. *)
LEMMA SenderMoves ==
    ASSUME IInv, TypeOK', NEW r \in Requests, Begin(r) \/ CloseChan(r)
    PROVE  Service!Ask(r) \/ Service!Answer(r) \/ Service!GiveUp(r)
<1>1. TypeOK /\ result' = result /\ Served' = Served /\ Alive' = Alive /\ Alive
  BY DEF IInv, Begin, CloseChan, Goto, senderVars, serverVars, answerVars, Served, Alive
<1>2. \A q \in Requests \ {r} : sender'[q] = sender[q]
  BY <1>1 DEF Begin, CloseChan, Goto, TypeOK
<1>3. \A q \in Requests \ {r} : CallState(q)' = CallState(q)
  BY <1>1, <1>2 DEF CallState
<1>4. CallStates' = [CallStates EXCEPT ![r] = CallState(r)']
  BY <1>3 DEF CallStates
<1>5. CASE Begin(r)
  <2>1. sender[r] = "idle" /\ sender'[r] = "storing"
    BY <1>1, <1>5 DEF Begin, Goto, TypeOK
  <2>2. CallState(r) = "idle" /\ CallState(r)' = "pending"
    BY <2>1 DEF CallState
  <2>3. CallStates[r] = "idle" /\ CallStates' = [CallStates EXCEPT ![r] = "pending"]
    BY <1>4, <2>2 DEF CallStates
  <2> QED
    BY <1>1, <2>3 DEF Service!Ask, Service!Move, CallStates, CallState, Served
<1>6. CASE CloseChan(r)
  <2>1. sender[r] = "closing" /\ sender'[r] = "done"
    BY <1>1, <1>6 DEF CloseChan, Goto, TypeOK
  <2>2. CallStates[r] = "pending"
    BY <2>1 DEF CallStates, CallState
  <2>3. CASE result[r] = "response"
    <3>1. CallState(r)' = "answered"
      BY <1>1, <2>1, <2>3 DEF CallState
    <3>2. r \in Served
      BY <1>1, <2>3 DEF IInv, AnswerInv, SeenWasSent, Received, Served, TypeOK
    <3>3. CallStates' = [CallStates EXCEPT ![r] = "answered"]
      BY <1>4, <3>1
    <3> QED
      BY <1>1, <2>2, <3>2, <3>3 DEF Service!Answer, Service!Move, CallStates, CallState, Served
  <2>4. CASE result[r] # "response"
    <3>1. CallState(r)' = "failed"
      BY <1>1, <2>1, <2>4 DEF CallState
    <3>2. CallStates' = [CallStates EXCEPT ![r] = "failed"]
      BY <1>4, <3>1
    <3> QED
      BY <1>1, <2>2, <3>2 DEF Service!GiveUp, Service!Move, CallStates, CallState, Served
  <2> QED
    BY <2>3, <2>4
<1> QED
  BY <1>5, <1>6

(* Whatever the goroutines and the two services do, the caller of           *)
(* SendRequest sees a CallService: a response only if this very request was *)
(* answered, and one end to each call.                                      *)
THEOREM ChatImplementsService == Spec => Service!Spec
<1>1. Init => Service!Init
  BY DEF Init, Service!Init, Alive
<1>2. IInv /\ TypeOK' /\ [Next]_vars => [Service!Next]_(Service!serviceVars)
  <2> SUFFICES ASSUME IInv, TypeOK', [Next]_vars
               PROVE  Service!Next \/ UNCHANGED Service!serviceVars
    OBVIOUS
  <2>1. ASSUME NEW r \in Requests,
               \/ Store(r) \/ ReachBroker(r) \/ PublishSucceeds(r) \/ PublishFails(r)
               \/ Receive(r) \/ TimeOut(r) \/ Forget(r) \/ Deliver(r) \/ Redeliver(r)
               \/ \E h \in Handlers : Lookup(h, r) \/ HandlerStep(h)
        PROVE  Service!Crash \/ UNCHANGED Service!serviceVars
    BY <2>1, QuietStep
  <2>2. ASSUME NEW h \in Handlers, HandlerStep(h)
        PROVE  Service!Crash \/ UNCHANGED Service!serviceVars
    <3>1. handles[h] \in Requests
      BY <2>2 DEF IInv, AnswerInv, HandlerHolds, HandlerStep, Found, NotFound, SendResponse,
         Delete, Step
    <3> QED
      BY <2>1, <2>2, <3>1
  <2>3. ASSUME NEW r \in Requests, Answer(r) \/ AnswerFails(r)
        PROVE  Service!Serve(r) \/ UNCHANGED Service!serviceVars
    BY <2>3, AnswerServes
  <2>4. ASSUME NEW r \in Requests, Begin(r) \/ CloseChan(r)
        PROVE  Service!Ask(r) \/ Service!Answer(r) \/ Service!GiveUp(r)
    BY <2>4, SenderMoves
  <2>5. CASE UNCHANGED vars
    BY <2>5 DEF vars, senderVars, serverVars, answerVars, Service!serviceVars, Alive
  <2>6. CASE \E r \in Requests : Begin(r) \/ ReachBroker(r) \/ SenderStep(r) \/ ServerStep(r)
                                  \/ Redeliver(r)
    BY <2>1, <2>3, <2>4, <2>6 DEF SenderStep, ServerStep, Service!Next
  <2>7. CASE \E h \in Handlers : HandlerStep(h) \/ \E r \in Requests : Lookup(h, r)
    BY <2>1, <2>2, <2>7 DEF Service!Next
  <2> QED
    BY <2>5, <2>6, <2>7 DEF Next
<1> QED
  BY <1>1, <1>2, ChatInvariant, ChatTypeCorrect, PTL DEF Spec, Service!Spec

=============================================================================
