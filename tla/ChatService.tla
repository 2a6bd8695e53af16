----------------------------- MODULE ChatService -----------------------------
(***************************************************************************)
(* A request of the websocket service and its answer by the chat service.  *)
(* One goroutine of the websocket service calls SendRequest again and      *)
(* again; the SDK calls handleResponse in goroutines of its own, and both  *)
(* use the map of response channels without a lock.  On the other side the *)
(* SDK calls handleRequest, and calls it again when the answer could not   *)
(* be sent.  It delivers at least once: an answer may come twice.  A panic, *)
(* or two goroutines inside the map at once with one of them writing, may   *)
(* end the websocket service.                                              *)
(***************************************************************************)
EXTENDS Integers

CONSTANTS
    Requests,       \* the calls of SendRequest, 1..N, made one after the other
    Handlers,       \* goroutines in which the SDK calls handleResponse
    MaxReconsume,   \* MaxReconsumeTimes of the chat service's subscription
    MaxDeliveries,  \* an answer comes again only while the retries of its request
                    \* and its answers are fewer than this bound
    NoRequest

ASSUME ChatAssumption ==
    /\ Requests \subseteq Nat \ {0}
    /\ MaxReconsume \in Nat /\ MaxDeliveries \in Nat
    /\ NoRequest \notin Requests

VARIABLES
    sender,         \* where each SendRequest is
    result,         \* what it is about to return, or has returned
    responses,      \* the keys of ChatClient.responses
    buffered,       \* whether the response channel holds a response
    closed,         \* whether it is closed
    panic,          \* "none", or what ended the websocket service
    handler,        \* where each handleResponse is
    handles,        \* the response it is called for
    request,        \* the request message: at the broker, in handleRequest, ...
    tries,          \* how often it has been handed back for another try
    answers,        \* responses in the topic that are still to be delivered
    delivered       \* history: calls of handleResponse

senderVars == <<sender, result>>
chanVars == <<buffered, closed>>
handlerVars == <<handler, handles>>
answerVars == <<answers, delivered>>
serverVars == <<request, tries, answerVars>>
vars == <<senderVars, responses, chanVars, panic, handlerVars, serverVars>>

TypeOK ==
    /\ sender \in [Requests -> {"idle", "storing", "publishing", "waiting", "deleting",
                                "closing", "done"}]
    /\ result \in [Requests -> {"none", "response", "publishError", "timeout"}]
    /\ responses \subseteq Requests
    /\ buffered \in [Requests -> BOOLEAN]
    /\ closed \in [Requests -> BOOLEAN]
    /\ panic \in {"none", "sendOnClosed", "concurrentMap"}
    /\ handler \in [Handlers -> {"idle", "looking", "sending", "deleting"}]
    /\ handles \in [Handlers -> Requests \cup {NoRequest}]
    /\ request \in [Requests -> {"none", "queued", "handling", "acked", "dead"}]
    /\ tries \in [Requests -> 0..MaxReconsume]
    /\ answers \in [Requests -> Nat]
    /\ delivered \in [Requests -> Nat]

Init ==
    /\ sender = [r \in Requests |-> "idle"]
    /\ result = [r \in Requests |-> "none"]
    /\ responses = {}
    /\ buffered = [r \in Requests |-> FALSE]
    /\ closed = [r \in Requests |-> FALSE]
    /\ panic = "none"
    /\ handler = [h \in Handlers |-> "idle"]
    /\ handles = [h \in Handlers |-> NoRequest]
    /\ request = [r \in Requests |-> "none"]
    /\ tries = [r \in Requests |-> 0]
    /\ answers = [r \in Requests |-> 0]
    /\ delivered = [r \in Requests |-> 0]

-----------------------------------------------------------------------------
Alive == panic = "none"

(* The goroutines that are inside an operation on the map. *)
Senders == {r \in Requests : sender[r] \in {"storing", "deleting"}}
Writers == {h \in Handlers : handler[h] = "deleting"}
Readers == {h \in Handlers : handler[h] = "looking"}

(* The Go runtime may or may not notice that the map is used by two. *)
MayRace(overlaps) == panic' \in IF overlaps THEN {panic, "concurrentMap"} ELSE {panic}

Goto(r, from, to) ==
    /\ Alive
    /\ sender[r] = from
    /\ sender' = [sender EXCEPT ![r] = to]

Return(r, what) == result' = [result EXCEPT ![r] = what]

Step(h, from, to) ==
    /\ Alive
    /\ handler[h] = from
    /\ handler' = [handler EXCEPT ![h] = to]

(* Slip: a retry is not counted. *)
HandBackUncounted(r) ==
    request' = [request EXCEPT ![r] = "queued"] /\ UNCHANGED tries

(* Slip: retries stop one too late. *)
HandBackOnceMore(r) ==
    IF tries[r] <= MaxReconsume
      THEN /\ request' = [request EXCEPT ![r] = "queued"]
           /\ tries' = [tries EXCEPT ![r] = @ + 1]
      ELSE request' = [request EXCEPT ![r] = "dead"] /\ UNCHANGED tries

(* ConsumeRetryLater: another try, until MaxReconsumeTimes is used up. *)
HandBack(r) ==
    IF tries[r] < MaxReconsume
      THEN /\ request' = [request EXCEPT ![r] = "queued"]
           /\ tries' = [tries EXCEPT ![r] = @ + 1]
      ELSE request' = [request EXCEPT ![r] = "dead"] /\ UNCHANGED tries

-----------------------------------------------------------------------------
(* Slips: operations as a plausible bug would leave them, for the           *)
(* properties to catch.                                                     *)

(* The deferred function does not delete the key. *)
ForgetNothing(r) ==
    /\ Goto(r, "deleting", "closing")
    /\ UNCHANGED <<result, responses, chanVars, panic, handlerVars, serverVars>>

(* The cleanup of SendRequest is not deferred, but done before the wait. *)
PublishSucceedsForgets(r) ==
    /\ request[r] # "none"
    /\ Goto(r, "publishing", "deleting")
    /\ UNCHANGED <<result, responses, chanVars, panic, handlerVars, serverVars>>

(* handleResponse takes whatever channel is in the map. *)
FoundAny(h) ==
    /\ Step(h, "looking", "sending")
    /\ \E q \in responses : handles' = [handles EXCEPT ![h] = q]
    /\ MayRace(Senders \cup Writers # {})
    /\ UNCHANGED <<senderVars, responses, chanVars, serverVars>>

-----------------------------------------------------------------------------
(* SendRequest *)

Begin(r) ==
    /\ \A q \in Requests : q < r => sender[q] = "done"
    /\ Goto(r, "idle", "storing")
    /\ UNCHANGED <<result, responses, chanVars, panic, handlerVars, serverVars>>

Store(r) ==
    /\ Goto(r, "storing", "publishing")
    /\ responses' = responses \cup {r}
    /\ MayRace(Writers \cup Readers # {})
    /\ UNCHANGED <<result, chanVars, handlerVars, serverVars>>

(* PublishPersistent: the message may be stored, and even be answered,       *)
(* before it returns, and also when it returns an error.                     *)
ReachBroker(r) ==
    /\ Alive
    /\ sender[r] = "publishing"
    /\ request[r] = "none"
    /\ request' = [request EXCEPT ![r] = "queued"]
    /\ UNCHANGED <<senderVars, responses, chanVars, panic, handlerVars, tries, answerVars>>

PublishSucceeds(r) ==
    /\ request[r] # "none"
    /\ Goto(r, "publishing", "waiting")
    /\ UNCHANGED <<result, responses, chanVars, panic, handlerVars, serverVars>>

PublishFails(r) ==
    /\ Goto(r, "publishing", "deleting")
    /\ Return(r, "publishError")
    /\ UNCHANGED <<responses, chanVars, panic, handlerVars, serverVars>>

Receive(r) ==
    /\ buffered[r]
    /\ Goto(r, "waiting", "deleting")
    /\ Return(r, "response")
    /\ buffered' = [buffered EXCEPT ![r] = FALSE]
    /\ UNCHANGED <<responses, closed, panic, handlerVars, serverVars>>

(* time.After: thirty seconds have passed. *)
TimeOut(r) ==
    /\ Goto(r, "waiting", "deleting")
    /\ Return(r, "timeout")
    /\ UNCHANGED <<responses, chanVars, panic, handlerVars, serverVars>>

(* The deferred function: delete, then close. *)
Forget(r) ==
    /\ Goto(r, "deleting", "closing")
    /\ responses' = responses \ {r}
    /\ MayRace(Writers \cup Readers # {})
    /\ UNCHANGED <<result, chanVars, handlerVars, serverVars>>

CloseChan(r) ==
    /\ Goto(r, "closing", "done")
    /\ closed' = [closed EXCEPT ![r] = TRUE]
    /\ UNCHANGED <<result, responses, buffered, panic, handlerVars, serverVars>>

-----------------------------------------------------------------------------
(* handleResponse, which acknowledges every response *)

Lookup(h, r) ==
    /\ answers[r] > 0
    /\ Step(h, "idle", "looking")
    /\ handles' = [handles EXCEPT ![h] = r]
    /\ answers' = [answers EXCEPT ![r] = @ - 1]
    /\ delivered' = [delivered EXCEPT ![r] = @ + 1]
    /\ UNCHANGED <<senderVars, responses, chanVars, panic, request, tries>>

Found(h) ==
    /\ handles[h] \in responses
    /\ Step(h, "looking", "sending")
    /\ MayRace(Senders \cup Writers # {})
    /\ UNCHANGED <<senderVars, responses, chanVars, handles, serverVars>>

NotFound(h) ==
    /\ handles[h] \notin responses
    /\ Step(h, "looking", "idle")
    /\ handles' = [handles EXCEPT ![h] = NoRequest]
    /\ MayRace(Senders \cup Writers # {})
    /\ UNCHANGED <<senderVars, responses, chanVars, serverVars>>

(* A full channel drops the response; a closed one panics, default or not. *)
SendResponse(h) ==
    LET r == handles[h] IN
    /\ Step(h, "sending", "deleting")
    /\ IF closed[r]
         THEN panic' = "sendOnClosed" /\ UNCHANGED buffered
         ELSE buffered' = [buffered EXCEPT ![r] = TRUE] /\ UNCHANGED panic
    /\ UNCHANGED <<senderVars, responses, closed, handles, serverVars>>

Delete(h) ==
    /\ Step(h, "deleting", "idle")
    /\ handles' = [handles EXCEPT ![h] = NoRequest]
    /\ responses' = responses \ {handles[h]}
    /\ MayRace(Senders \cup Readers \cup (Writers \ {h}) # {})
    /\ UNCHANGED <<senderVars, chanVars, serverVars>>

-----------------------------------------------------------------------------
(* The chat service *)

Deliver(r) ==
    /\ request[r] = "queued"
    /\ request' = [request EXCEPT ![r] = "handling"]
    /\ UNCHANGED <<senderVars, responses, chanVars, panic, handlerVars, tries, answerVars>>

StoreAnswer(r) ==
    /\ answers' = [answers EXCEPT ![r] = @ + 1]
    /\ UNCHANGED delivered

(* handleRequest: the request is processed and its answer published. *)
Answer(r) ==
    /\ request[r] = "handling"
    /\ request' = [request EXCEPT ![r] = "acked"]
    /\ StoreAnswer(r)
    /\ UNCHANGED <<senderVars, responses, chanVars, panic, handlerVars, tries>>

(* Publishing the answer fails, though it may have been stored. *)
AnswerFails(r) ==
    /\ request[r] = "handling"
    /\ HandBack(r)
    /\ StoreAnswer(r) \/ UNCHANGED answerVars
    /\ UNCHANGED <<senderVars, responses, chanVars, panic, handlerVars>>

-----------------------------------------------------------------------------
(* The SDK: an acknowledgement that is lost, or consumers that change places *)
(* before it is stored, bring an answer back, perhaps while its first       *)
(* delivery is still in handleResponse.  A request that comes back is       *)
(* answered once more, as by AnswerFails after a stored answer.             *)
Redeliver(r) ==
    /\ Alive
    /\ delivered[r] > 0
    /\ tries[r] + answers[r] + delivered[r] < MaxDeliveries
    /\ answers' = [answers EXCEPT ![r] = @ + 1]
    /\ UNCHANGED <<senderVars, responses, chanVars, panic, handlerVars,
                   request, tries, delivered>>

-----------------------------------------------------------------------------
SenderStep(r) ==
    \/ Store(r) \/ PublishSucceeds(r) \/ PublishFails(r)
    \/ Receive(r) \/ TimeOut(r) \/ Forget(r) \/ CloseChan(r)

HandlerStep(h) == Found(h) \/ NotFound(h) \/ SendResponse(h) \/ Delete(h)

ServerStep(r) == Deliver(r) \/ Answer(r) \/ AnswerFails(r)

Next ==
    \/ \E r \in Requests :
          Begin(r) \/ ReachBroker(r) \/ SenderStep(r) \/ ServerStep(r) \/ Redeliver(r)
    \/ \E h \in Handlers : HandlerStep(h) \/ \E r \in Requests : Lookup(h, r)

Spec == Init /\ [][Next]_vars

(* A goroutine that can move does: a send is bounded by the producer's      *)
(* timeout and the wait by thirty seconds.  The SDK delivers what is queued *)
(* at the chat service.  No response need ever be delivered.              *)
Fairness ==
    /\ \A r \in Requests : WF_vars(SenderStep(r)) /\ WF_vars(ServerStep(r))
    /\ \A h \in Handlers : WF_vars(HandlerStep(h))

FairSpec == Spec /\ Fairness

-----------------------------------------------------------------------------
(* Properties *)

(* An entry of the map belongs to a SendRequest that is still under way: no *)
(* entry is left behind, and no closed channel can be found in the map.     *)
NothingLeftBehind ==
    \A r \in responses : sender[r] \in {"publishing", "waiting", "deleting"}

(* A response is sent into a closed channel only if its SendRequest gave up *)
(* early, or if handleResponse was called more than once for the request:   *)
(* one answer in time, delivered once, never does it, however the           *)
(* goroutines interleave.  A second answer, and the same one delivered      *)
(* again, both can.                                                         *)
PanicNeedsLateAnswer ==
    panic = "sendOnClosed" =>
        \E r \in Requests : result[r] \in {"timeout", "publishError"} \/ delivered[r] > 1

(* Seen from its caller SendRequest is a call of a CallService: it returns  *)
(* a response only if the chat service sent one to this very request, and   *)
(* none is left waiting unless the websocket service died, whatever late    *)
(* answers of earlier requests do.                                          *)
Service == INSTANCE CallService WITH
    Calls <- Requests,
    call <- [r \in Requests |->
                CASE sender[r] = "idle" -> "idle"
                  [] sender[r] = "done" /\ result[r] = "response" -> "answered"
                  [] sender[r] = "done" /\ result[r] # "response" -> "failed"
                  [] OTHER -> "pending"],
    served <- {r \in Requests : answers[r] + delivered[r] > 0},
    up <- Alive

ImplementsCallService == Service!FairSpec

(* Every request that reached the broker is acknowledged or given up, not   *)
(* tried for ever, though each try may fail and have been answered.         *)
RequestsSettle ==
    \A r \in Requests : request[r] = "queued" ~> request[r] \in {"acked", "dead"}
=============================================================================
