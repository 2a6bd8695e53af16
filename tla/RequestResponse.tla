--------------------------- MODULE RequestResponse ---------------------------
(***************************************************************************)
(* RequestResponseClient: Request registers a context under a fresh        *)
(* correlation id, sends, and waits for handleResponse to put the reply    *)
(* into its one-place channel; a cleanup goroutine and Close remove        *)
(* contexts under it.  requestMap is a sync.Map, the status of a context   *)
(* has its own lock, and nothing makes a look at either, or at the         *)
(* channel, atomic with what is done next: each is a step.                 *)
(* A panic in any goroutine ends the process.                              *)
(***************************************************************************)
EXTENDS Integers, FiniteSets

CONSTANTS
    Requests,       \* calls of Request, each under its own correlation id
    Handlers,       \* goroutines in which the SDK calls handleResponse
    Closers,        \* goroutines that call Close
    Copied,         \* the Requests made through a copy that WithTimeout returned
    CopyClosers,    \* the Close calls made on that copy
    MaxReplies,     \* bound: replies one request is answered with
    NoRequest

ASSUME RequestAssumption ==
    /\ MaxReplies \in Nat \ {0}
    /\ NoRequest \notin Requests
    /\ Copied \subseteq Requests
    /\ CopyClosers \subseteq Closers

VARIABLES
    request,        \* where each Request call is
    outcome,        \* what it is about to return, or has returned
    status,         \* RequestContext.Status
    mapped,         \* the keys of the requestMap each request is stored in
    copyMap,        \* "none" before WithTimeout; then the copy's "own" map, or "shared"
    used,           \* whether the original's requestMap has been used
    buffered,       \* whether ResponseChan holds a response
    closed,         \* whether ResponseChan is closed
    overdue,        \* whether Timeout plus five seconds have passed
    reached,        \* whether the request message got to the broker
    replies,        \* replies to it that are still to be delivered
    accepted,       \* history: the requests whose channel took a reply
    handler,        \* where each handler goroutine is
    handles,        \* the context it has looked up
    cleaner,        \* where the cleanup goroutine is
    toScan,         \* keys its Range has not come to
    expiredKeys,
    cleans,         \* the context it has taken out of the map
    stopped,        \* whether stopChan is closed
    closer,         \* where each Close call is
    toClose,        \* keys its Range has not come to
    closes,         \* the context it works on
    panic           \* "none", or what killed the process

chanVars == <<buffered, closed, panic>>
requestVars == <<request, outcome>>
copyVars == <<copyMap, used>>
brokerVars == <<reached, replies>>
handlerVars == <<handler, handles, accepted>>
cleanerVars == <<cleaner, toScan, expiredKeys, cleans>>
closerVars == <<stopped, closer, toClose, closes>>
vars == <<requestVars, status, mapped, copyVars, chanVars, overdue, brokerVars,
          handlerVars, cleanerVars, closerVars>>

TypeOK ==
    /\ request \in [Requests -> {"idle", "stored", "sending", "waiting", "returning",
                                 "deleted", "marked", "closing", "done"}]
    /\ outcome \in [Requests -> {"none", "response", "sendError", "noResponse", "ctxDone"}]
    /\ status \in [Requests -> {"Pending", "Processing", "Success", "Timeout", "Failed"}]
    /\ mapped \subseteq Requests
    /\ copyMap \in {"none", "own", "shared"}
    /\ used \in BOOLEAN
    /\ buffered \in [Requests -> BOOLEAN]
    /\ closed \in [Requests -> BOOLEAN]
    /\ overdue \in [Requests -> BOOLEAN]
    /\ reached \in [Requests -> BOOLEAN]
    /\ replies \in [Requests -> 0..MaxReplies]
    /\ accepted \subseteq Requests
    /\ handler \in [Handlers -> {"idle", "check", "send"}]
    /\ handles \in [Handlers -> Requests \cup {NoRequest}]
    /\ cleaner \in {"ticking", "scanning", "sweeping", "marking", "selecting",
                    "closing", "exited"}
    /\ toScan \subseteq Requests
    /\ expiredKeys \subseteq Requests
    /\ cleans \in Requests \cup {NoRequest}
    /\ stopped \in BOOLEAN
    /\ closer \in [Closers -> {"idle", "waiting", "ranging", "selecting", "closing",
                               "deleting", "done"}]
    /\ toClose \in [Closers -> SUBSET Requests]
    /\ closes \in [Closers -> Requests \cup {NoRequest}]
    /\ panic \in {"none", "sendOnClosed", "closeOfClosed"}

Init ==
    /\ request = [r \in Requests |-> "idle"]
    /\ outcome = [r \in Requests |-> "none"]
    /\ status = [r \in Requests |-> "Pending"]
    /\ mapped = {}
    /\ copyMap = "none"
    /\ used = FALSE
    /\ buffered = [r \in Requests |-> FALSE]
    /\ closed = [r \in Requests |-> FALSE]
    /\ overdue = [r \in Requests |-> FALSE]
    /\ reached = [r \in Requests |-> FALSE]
    /\ replies = [r \in Requests |-> 0]
    /\ accepted = {}
    /\ handler = [h \in Handlers |-> "idle"]
    /\ handles = [h \in Handlers |-> NoRequest]
    /\ cleaner = "ticking"
    /\ toScan = {}
    /\ expiredKeys = {}
    /\ cleans = NoRequest
    /\ stopped = FALSE
    /\ closer = [k \in Closers |-> "idle"]
    /\ toClose = [k \in Closers |-> {}]
    /\ closes = [k \in Closers |-> NoRequest]
    /\ panic = "none"

-----------------------------------------------------------------------------
(* A panic in any goroutine has ended all of them. *)
Alive == panic = "none"

(* The keys of the original's requestMap, which handleResponse and cleanup   *)
(* use, and of the one a Close ranges over.                                  *)
InOriginal(r) == r \in mapped /\ (r \in Copied => copyMap = "shared")

InMapOf(k, r) ==
    IF k \in CopyClosers
      THEN r \in mapped /\ (r \in Copied \/ copyMap = "shared")
      ELSE InOriginal(r)

Use == used' = TRUE /\ UNCHANGED copyMap

(* The channel and the status of a context *)

SetStatus(r, s) == status' = [status EXCEPT ![r] = s]

(* select { case <-ch: default: close(ch) }: a buffered response is thrown   *)
(* away, a closed channel is ready at once, and only an open and empty one   *)
(* makes the select fall through to close, which is a step of its own.       *)
SelectTakes(r) ==
    /\ buffered[r] \/ closed[r]
    /\ buffered' = [buffered EXCEPT ![r] = FALSE]
    /\ UNCHANGED <<closed, panic>>

SelectFallsThrough(r) == ~buffered[r] /\ ~closed[r] /\ UNCHANGED chanVars

CloseChan(r) ==
    /\ closed' = [closed EXCEPT ![r] = TRUE]
    /\ panic' = IF closed[r] THEN "closeOfClosed" ELSE panic
    /\ UNCHANGED buffered

(* A Request call moves on, and settles what it will return. *)
Goto(r, from, to) ==
    /\ request[r] = from
    /\ request' = [request EXCEPT ![r] = to]

Return(r, what) == outcome' = [outcome EXCEPT ![r] = what]

-----------------------------------------------------------------------------
(* Slips: operations as a plausible bug would leave them, for the           *)
(* properties to catch.                                                     *)

(* The select passes on what it received without looking for nil. *)
ReceiveUnchecked(r) ==
    /\ Alive
    /\ Goto(r, "waiting", "returning")
    /\ SelectTakes(r)
    /\ SetStatus(r, "Success")
    /\ Return(r, "response")
    /\ UNCHANGED <<mapped, overdue, copyVars, brokerVars, handlerVars, cleanerVars,
                   closerVars>>

(* The deferred function does not delete the key. *)
DeleteForgotten(r) ==
    /\ Alive
    /\ Goto(r, "returning", "deleted")
    /\ UNCHANGED <<outcome, status, mapped, chanVars, overdue, copyVars, brokerVars,
                   handlerVars, cleanerVars, closerVars>>

(* handleResponse is called for a reply that no request was sent for. *)
LookupSpurious(h, r) ==
    /\ Alive
    /\ handler[h] = "idle"
    /\ replies' = [replies EXCEPT ![r] = @ - 1]
    /\ Use
    /\ IF InOriginal(r)
         THEN /\ handler' = [handler EXCEPT ![h] = "check"]
              /\ handles' = [handles EXCEPT ![h] = r]
         ELSE UNCHANGED <<handler, handles>>
    /\ UNCHANGED <<requestVars, status, mapped, chanVars, overdue, reached, accepted,
                   cleanerVars, closerVars>>

(* Cleanup takes pending requests whatever their age. *)
IsExpiredUnaged(r) == status[r] \in {"Timeout", "Pending"}

(* safeCleanup does not select on stopChan. *)
CleanerExitsNever == FALSE

-----------------------------------------------------------------------------
(* Request *)

Store(r) ==
    /\ Alive
    /\ r \in Copied => copyMap # "none"
    /\ Goto(r, "idle", "stored")
    /\ mapped' = mapped \cup {r}
    /\ IF r \in Copied THEN UNCHANGED copyVars ELSE Use
    /\ SetStatus(r, "Pending")
    /\ UNCHANGED <<outcome, chanVars, overdue, brokerVars, handlerVars, cleanerVars,
                   closerVars>>

BeginSend(r) ==
    /\ Alive
    /\ Goto(r, "stored", "sending")
    /\ SetStatus(r, "Processing")
    /\ UNCHANGED <<outcome, mapped, chanVars, overdue, copyVars, brokerVars, handlerVars,
                   cleanerVars, closerVars>>

SendSucceeds(r) ==
    /\ Alive
    /\ reached[r]
    /\ Goto(r, "sending", "waiting")
    /\ UNCHANGED <<outcome, status, mapped, chanVars, overdue, copyVars, brokerVars,
                   handlerVars, cleanerVars, closerVars>>

(* SendSync fails, though the message may have got through. *)
SendFails(r) ==
    /\ Alive
    /\ Goto(r, "sending", "returning")
    /\ SetStatus(r, "Failed")
    /\ Return(r, "sendError")
    /\ UNCHANGED <<mapped, chanVars, overdue, copyVars, brokerVars, handlerVars,
                   cleanerVars, closerVars>>

(* The select receives; from a closed, empty channel it receives nil. *)
Receive(r) ==
    /\ Alive
    /\ Goto(r, "waiting", "returning")
    /\ SelectTakes(r)
    /\ SetStatus(r, IF buffered[r] THEN "Success" ELSE "Timeout")
    /\ Return(r, IF buffered[r] THEN "response" ELSE "noResponse")
    /\ UNCHANGED <<mapped, overdue, copyVars, brokerVars, handlerVars, cleanerVars,
                   closerVars>>

(* reqCtx.Done(): the deadline has passed or the caller's context is cancelled. *)
ContextDone(r) ==
    /\ Alive
    /\ Goto(r, "waiting", "returning")
    /\ SetStatus(r, "Timeout")
    /\ Return(r, "ctxDone")
    /\ UNCHANGED <<mapped, chanVars, overdue, copyVars, brokerVars, handlerVars,
                   cleanerVars, closerVars>>

(* The deferred function: Delete, SetStatus, select, close. *)
Delete(r) ==
    /\ Alive
    /\ Goto(r, "returning", "deleted")
    /\ mapped' = mapped \ {r}
    /\ UNCHANGED <<outcome, status, chanVars, overdue, copyVars, brokerVars, handlerVars,
                   cleanerVars, closerVars>>

MarkFailed(r) ==
    /\ Alive
    /\ Goto(r, "deleted", "marked")
    /\ SetStatus(r, "Failed")
    /\ UNCHANGED <<outcome, mapped, chanVars, overdue, copyVars, brokerVars, handlerVars,
                   cleanerVars, closerVars>>

SelectOrClose(r) ==
    /\ Alive
    /\ \/ Goto(r, "marked", "done") /\ SelectTakes(r)
       \/ Goto(r, "marked", "closing") /\ SelectFallsThrough(r)
       \/ Goto(r, "closing", IF closed[r] THEN "closing" ELSE "done") /\ CloseChan(r)
    /\ UNCHANGED <<outcome, status, mapped, overdue, copyVars, brokerVars, handlerVars,
                   cleanerVars, closerVars>>

(* Time passes: more than Timeout plus five seconds since RequestTime. *)
BecomeOverdue(r) ==
    /\ Alive
    /\ request[r] \notin {"idle", "done"}
    /\ ~overdue[r]
    /\ overdue' = [overdue EXCEPT ![r] = TRUE]
    /\ UNCHANGED <<requestVars, status, mapped, chanVars, copyVars, brokerVars, handlerVars,
                   cleanerVars, closerVars>>

-----------------------------------------------------------------------------
(* WithTimeout copies the client, and with it the sync.Map, by value, but    *)
(* not the wait group.  A map that was not used yet is copied empty and goes *)
(* its own way; the maps of Go 1.24 that were used share their tree, which   *)
(* their documentation does not promise.  One copy is made, if anybody uses  *)
(* it.                                                                       *)
WithTimeout ==
    /\ Alive
    /\ Copied \cup CopyClosers # {}
    /\ copyMap = "none"
    /\ \E m \in (IF used THEN {"own", "shared"} ELSE {"own"}) : copyMap' = m
    /\ UNCHANGED <<requestVars, status, mapped, used, chanVars, overdue, brokerVars,
                   handlerVars, cleanerVars, closerVars>>

-----------------------------------------------------------------------------
(* The broker and the responder: a request that is sent may reach them, be   *)
(* answered or not, and be answered twice, before SendSync has returned.     *)
ReachBroker(r) ==
    /\ Alive
    /\ request[r] = "sending"
    /\ ~reached[r]
    /\ reached' = [reached EXCEPT ![r] = TRUE]
    /\ \E n \in 0..MaxReplies : replies' = [replies EXCEPT ![r] = n]
    /\ UNCHANGED <<requestVars, status, mapped, chanVars, overdue, copyVars, handlerVars,
                   cleanerVars, closerVars>>

-----------------------------------------------------------------------------
(* handleResponse *)

(* A reply is delivered; requestMap.Load finds its context or drops it. *)
Lookup(h, r) ==
    /\ Alive
    /\ handler[h] = "idle"
    /\ replies[r] > 0
    /\ replies' = [replies EXCEPT ![r] = @ - 1]
    /\ Use
    /\ IF InOriginal(r)
         THEN /\ handler' = [handler EXCEPT ![h] = "check"]
              /\ handles' = [handles EXCEPT ![h] = r]
         ELSE UNCHANGED <<handler, handles>>
    /\ UNCHANGED <<requestVars, status, mapped, chanVars, overdue, reached, accepted,
                   cleanerVars, closerVars>>

CheckStatus(h) ==
    /\ Alive
    /\ handler[h] = "check"
    /\ IF status[handles[h]] = "Timeout"
         THEN /\ handler' = [handler EXCEPT ![h] = "idle"]
              /\ handles' = [handles EXCEPT ![h] = NoRequest]
         ELSE handler' = [handler EXCEPT ![h] = "send"] /\ UNCHANGED handles
    /\ UNCHANGED <<requestVars, status, mapped, chanVars, overdue, copyVars, brokerVars,
                   accepted, cleanerVars, closerVars>>

(* select { case ch <- response: default: }: a full channel drops it, and a  *)
(* send on a closed channel panics, also inside a select with a default.     *)
SendResponse(h) ==
    LET r == handles[h] IN
    /\ Alive
    /\ handler[h] = "send"
    /\ handler' = [handler EXCEPT ![h] = "idle"]
    /\ handles' = [handles EXCEPT ![h] = NoRequest]
    /\ IF closed[r]
         THEN panic' = "sendOnClosed" /\ UNCHANGED <<buffered, accepted>>
         ELSE /\ buffered' = [buffered EXCEPT ![r] = TRUE]
              /\ accepted' = accepted \cup {r}
              /\ UNCHANGED panic
    /\ UNCHANGED <<requestVars, status, mapped, closed, overdue, copyVars, brokerVars,
                   cleanerVars, closerVars>>

-----------------------------------------------------------------------------
(* safeCleanup and performSafeCleanup *)

Tick ==
    /\ Alive
    /\ cleaner = "ticking"
    /\ cleaner' = "scanning"
    /\ toScan' = Requests
    /\ Use
    /\ UNCHANGED <<requestVars, status, mapped, chanVars, overdue, brokerVars, handlerVars,
                   expiredKeys, cleans, closerVars>>

IsExpired(r) == status[r] = "Timeout" \/ (status[r] = "Pending" /\ overdue[r])

(* Range comes to the place of key r in the map, which may be empty; a key   *)
(* stored meanwhile may be visited or missed.                                *)
Scan(r) ==
    /\ Alive
    /\ cleaner = "scanning"
    /\ r \in toScan
    /\ toScan' = toScan \ {r}
    /\ expiredKeys' = IF InOriginal(r) /\ IsExpired(r) THEN expiredKeys \cup {r} ELSE expiredKeys
    /\ cleaner' = IF toScan' = {} THEN "sweeping" ELSE cleaner
    /\ UNCHANGED <<requestVars, status, mapped, chanVars, overdue, copyVars, brokerVars,
                   handlerVars, cleans, closerVars>>

(* LoadAndDelete of a key found expired; it may be gone by now. *)
Sweep(r) ==
    /\ Alive
    /\ cleaner = "sweeping"
    /\ r \in expiredKeys
    /\ expiredKeys' = expiredKeys \ {r}
    /\ IF InOriginal(r)
         THEN mapped' = mapped \ {r} /\ cleaner' = "marking" /\ cleans' = r
         ELSE UNCHANGED <<mapped, cleaner, cleans>>
    /\ UNCHANGED <<requestVars, status, chanVars, overdue, copyVars, brokerVars,
                   handlerVars, toScan, closerVars>>

MarkTimeout ==
    /\ Alive
    /\ cleaner = "marking"
    /\ cleaner' = "selecting"
    /\ SetStatus(cleans, "Timeout")
    /\ UNCHANGED <<requestVars, mapped, chanVars, overdue, copyVars, brokerVars,
                   handlerVars, toScan, expiredKeys, cleans, closerVars>>

CleanerCloses ==
    /\ Alive
    /\ \/ /\ cleaner = "selecting" /\ SelectTakes(cleans)
          /\ cleaner' = "sweeping" /\ cleans' = NoRequest
       \/ /\ cleaner = "selecting" /\ SelectFallsThrough(cleans)
          /\ cleaner' = "closing" /\ UNCHANGED cleans
       \/ /\ cleaner = "closing" /\ CloseChan(cleans)
          /\ cleaner' = "sweeping" /\ cleans' = NoRequest
    /\ UNCHANGED <<requestVars, status, mapped, overdue, copyVars, brokerVars, handlerVars,
                   toScan, expiredKeys, closerVars>>

SweepEnds ==
    /\ Alive
    /\ cleaner = "sweeping"
    /\ expiredKeys = {}
    /\ cleaner' = "ticking"
    /\ UNCHANGED <<requestVars, status, mapped, chanVars, overdue, copyVars, brokerVars,
                   handlerVars, toScan, expiredKeys, cleans, closerVars>>

CleanerExits ==
    /\ Alive
    /\ cleaner = "ticking"
    /\ stopped
    /\ cleaner' = "exited"
    /\ UNCHANGED <<requestVars, status, mapped, chanVars, overdue, copyVars, brokerVars,
                   handlerVars, toScan, expiredKeys, cleans, closerVars>>

-----------------------------------------------------------------------------
(* Close *)

(* close(rrc.stopChan); a second Close panics here. *)
BeginClose(k) ==
    /\ Alive
    /\ closer[k] = "idle"
    /\ k \in CopyClosers => copyMap # "none"
    /\ closer' = [closer EXCEPT ![k] = "waiting"]
    /\ stopped' = TRUE
    /\ panic' = IF stopped THEN "closeOfClosed" ELSE panic
    /\ UNCHANGED <<requestVars, status, mapped, buffered, closed, overdue, copyVars,
                   brokerVars, handlerVars, cleanerVars, toClose, closes>>

(* rrc.wg.Wait(), where a copy has nobody to wait for; then Range begins. *)
AwaitCleaner(k) ==
    /\ Alive
    /\ closer[k] = "waiting"
    /\ cleaner = "exited" \/ k \in CopyClosers
    /\ used' = (used \/ k \notin CopyClosers \/ copyMap = "shared")
    /\ closer' = [closer EXCEPT ![k] = "ranging"]
    /\ toClose' = [toClose EXCEPT ![k] = Requests]
    /\ UNCHANGED <<requestVars, status, mapped, chanVars, overdue, copyMap, brokerVars,
                   handlerVars, cleanerVars, stopped, closes>>

(* Range comes to the place of key r; its context, if any, is marked failed. *)
VisitForClose(k, r) ==
    /\ Alive
    /\ closer[k] = "ranging"
    /\ r \in toClose[k]
    /\ toClose' = [toClose EXCEPT ![k] = @ \ {r}]
    /\ IF InMapOf(k, r)
         THEN /\ SetStatus(r, "Failed")
              /\ closer' = [closer EXCEPT ![k] = "selecting"]
              /\ closes' = [closes EXCEPT ![k] = r]
         ELSE UNCHANGED <<status, closer, closes>>
    /\ UNCHANGED <<requestVars, mapped, chanVars, overdue, copyVars, brokerVars,
                   handlerVars, cleanerVars, stopped>>

CloserCloses(k) ==
    /\ Alive
    /\ \/ /\ closer[k] = "selecting" /\ SelectTakes(closes[k])
          /\ closer' = [closer EXCEPT ![k] = "deleting"]
       \/ /\ closer[k] = "selecting" /\ SelectFallsThrough(closes[k])
          /\ closer' = [closer EXCEPT ![k] = "closing"]
       \/ /\ closer[k] = "closing" /\ CloseChan(closes[k])
          /\ closer' = [closer EXCEPT ![k] = "deleting"]
    /\ UNCHANGED <<requestVars, status, mapped, overdue, copyVars, brokerVars, handlerVars,
                   cleanerVars, stopped, toClose, closes>>

DeleteForClose(k) ==
    /\ Alive
    /\ closer[k] = "deleting"
    /\ mapped' = mapped \ {closes[k]}
    /\ closer' = [closer EXCEPT ![k] = "ranging"]
    /\ closes' = [closes EXCEPT ![k] = NoRequest]
    /\ UNCHANGED <<requestVars, status, chanVars, overdue, copyVars, brokerVars,
                   handlerVars, cleanerVars, stopped, toClose>>

EndClose(k) ==
    /\ Alive
    /\ closer[k] = "ranging"
    /\ toClose[k] = {}
    /\ closer' = [closer EXCEPT ![k] = "done"]
    /\ UNCHANGED <<requestVars, status, mapped, chanVars, overdue, copyVars, brokerVars,
                   handlerVars, cleanerVars, stopped, toClose, closes>>

-----------------------------------------------------------------------------
RequestStep(r) ==
    \/ BeginSend(r) \/ SendSucceeds(r) \/ SendFails(r) \/ Receive(r) \/ ContextDone(r)
    \/ Delete(r) \/ MarkFailed(r) \/ SelectOrClose(r)

HandlerStep(h) == (\E r \in Requests : Lookup(h, r)) \/ CheckStatus(h) \/ SendResponse(h)

CleanupStep ==
    \/ \E r \in Requests : Scan(r) \/ Sweep(r)
    \/ MarkTimeout \/ CleanerCloses \/ SweepEnds

CloseStep(k) ==
    \/ AwaitCleaner(k) \/ CloserCloses(k) \/ DeleteForClose(k) \/ EndClose(k)
    \/ \E r \in Requests : VisitForClose(k, r)

Next ==
    \/ \E r \in Requests : Store(r) \/ RequestStep(r) \/ BecomeOverdue(r) \/ ReachBroker(r)
    \/ \E h \in Handlers : HandlerStep(h)
    \/ Tick \/ CleanupStep \/ CleanerExits \/ WithTimeout
    \/ \E k \in Closers : BeginClose(k) \/ CloseStep(k)

Spec == Init /\ [][Next]_vars

(* Every goroutine that can move does: SendSync and the wait are bounded by  *)
(* the request's timeout.  A select whose ticker and stopChan are both ready *)
(* again and again takes stopChan in the end.  No reply need ever arrive.    *)
Fairness ==
    /\ \A r \in Requests : WF_vars(RequestStep(r))
    /\ WF_vars(CleanupStep)
    /\ SF_vars(CleanerExits)
    /\ \A k \in Closers : WF_vars(CloseStep(k))

FairSpec == Spec /\ Fairness

-----------------------------------------------------------------------------
(* Properties *)

(* Some Close has got to going through a map. *)
Closing == \E k \in Closers : closer[k] \notin {"idle", "waiting"}

(* A request that waits for its response can still be found by a reply,     *)
(* unless it is long overdue, a Close is going through the map, or it was   *)
(* made through a copy of WithTimeout whose map went its own way: cleanup,  *)
(* which decides on a status it read earlier, spares the rest.              *)
WaitingIsRegistered ==
    \A r \in Requests :
        request[r] \in {"sending", "waiting"} =>
            InOriginal(r) \/ overdue[r] \/ Closing \/ (r \in Copied /\ copyMap = "own")

(* A context whose channel is closed can no longer be looked up, so that    *)
(* only a handler that had looked it up before can still send to it.  Close *)
(* alone closes the channel first and deletes the key afterwards.           *)
ClosedIsUnfindable ==
    \A r \in mapped :
        closed[r] => \E k \in Closers : closer[k] = "deleting" /\ closes[k] = r

(* Seen from its callers the client is a CallService: a call is answered    *)
(* only if a handler put a reply into its own channel, never with the zero  *)
(* value of a channel closed under it, it is settled once, and none is left *)
(* pending, however cleanup, Close and a copy of the client interfere.      *)
Service == INSTANCE CallService WITH
    Calls <- Requests,
    call <- [r \in Requests |->
                CASE request[r] = "idle" -> "idle"
                  [] request[r] = "done" /\ outcome[r] = "response" -> "answered"
                  [] request[r] = "done" /\ outcome[r] # "response" -> "failed"
                  [] OTHER -> "pending"],
    served <- accepted,
    up <- Alive

ImplementsCallService == Service!FairSpec

(* Every Request returns and every Close returns, unless the process died.  *)
CallsReturn ==
    /\ \A r \in Requests :
         request[r] = "stored" ~> (request[r] = "done" \/ panic # "none")
    /\ \A k \in Closers :
         closer[k] = "waiting" ~> (closer[k] = "done" \/ panic # "none")

(* Documented at the send: a reply that finds the channel full or closed is *)
(* ignored.                                                                 *)
LateReplyIgnored == panic # "sendOnClosed"
=============================================================================
