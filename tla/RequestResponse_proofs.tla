----------------------- MODULE RequestResponse_proofs -----------------------
(***************************************************************************)
(* Proofs about RequestResponse for any sets of requests, of goroutines    *)
(* that handle replies, and of Close calls, on the client or on a copy.    *)
(***************************************************************************)
EXTENDS RequestResponse, TLAPS

(* The select of a Request has been left: nobody waits for its reply. *)
PastWaiting(r) == request[r] \in {"returning", "deleted", "marked", "closing", "done"}

(* A request is in a map until its own Request, cleanup or a Close takes it *)
(* out.                                                                     *)
StoredUntilTaken ==
    \A r \in Requests :
        request[r] \in {"stored", "sending", "waiting"} => r \in mapped \/ overdue[r] \/ Closing

(* What cleanup holds against a request stays true: it is overdue, or is    *)
(* not waited for any more.                                                 *)
CleanupIsRight ==
    \A r \in Requests :
        status[r] = "Timeout" \/ r \in expiredKeys \/ cleans = r => overdue[r] \/ PastWaiting(r)

(* Calls through a copy come after WithTimeout. *)
CopyIsMade == \A r \in Copied : request[r] # "idle" => copyMap # "none"

(* A key is in a map only between the Store and the deferred Delete of its  *)
(* Request, and whoever works on a context found it there.                  *)
KeysInOrder ==
    \A r \in Requests :
        /\ r \in mapped => request[r] \notin {"idle", "deleted", "marked", "closing", "done"}
        /\ request[r] = "idle" => ~closed[r]
        /\ cleans = r => r \notin mapped /\ request[r] # "idle"
        /\ \A k \in Closers : closes[k] = r => request[r] # "idle"
        /\ \A h \in Handlers : handles[h] = r => request[r] # "idle"

(* A goroutine inside handleResponse has a context. *)
HandlerHolds == \A h \in Handlers : handler[h] # "idle" => handles[h] \in Requests

(* A response that is in the channel, or was received, was put there. *)
ReceivedWasAccepted ==
    \A r \in Requests : buffered[r] \/ outcome[r] = "response" => r \in accepted

IInv ==
    /\ TypeOK
    /\ StoredUntilTaken
    /\ CleanupIsRight
    /\ CopyIsMade
    /\ KeysInOrder
    /\ HandlerHolds
    /\ ClosedIsUnfindable
    /\ ReceivedWasAccepted

-----------------------------------------------------------------------------
(* The invariant is inductive *)

(* Every step keeps the types. *)
LEMMA TypeStep == IInv /\ [Next]_vars => TypeOK'
<1> SUFFICES ASSUME IInv, [Next]_vars PROVE TypeOK'
  OBVIOUS
<1> USE RequestAssumption DEF IInv, TypeOK, HandlerHolds, chanVars, requestVars,
        copyVars, brokerVars, handlerVars, cleanerVars, closerVars
<1>1. ASSUME NEW r \in Requests, Store(r) PROVE TypeOK'
  BY <1>1 DEF Store, Goto, Use, SetStatus
<1>2. ASSUME NEW r \in Requests, BeginSend(r) PROVE TypeOK'
  BY <1>2 DEF BeginSend, Goto, SetStatus
<1>3. ASSUME NEW r \in Requests, SendSucceeds(r) PROVE TypeOK'
  BY <1>3 DEF SendSucceeds, Goto
<1>4. ASSUME NEW r \in Requests, SendFails(r) PROVE TypeOK'
  BY <1>4 DEF SendFails, Goto, SetStatus, Return
<1>5. ASSUME NEW r \in Requests, Receive(r) PROVE TypeOK'
  BY <1>5 DEF Receive, Goto, SetStatus, Return, SelectTakes
<1>6. ASSUME NEW r \in Requests, ContextDone(r) PROVE TypeOK'
  BY <1>6 DEF ContextDone, Goto, SetStatus, Return
<1>7. ASSUME NEW r \in Requests, Delete(r) PROVE TypeOK'
  BY <1>7 DEF Delete, Goto
<1>8. ASSUME NEW r \in Requests, MarkFailed(r) PROVE TypeOK'
  BY <1>8 DEF MarkFailed, Goto, SetStatus
<1>9. ASSUME NEW r \in Requests, SelectOrClose(r) PROVE TypeOK'
  <2>1. CASE Goto(r, "marked", "done") /\ SelectTakes(r)
    BY <1>9, <2>1 DEF SelectOrClose, Goto, SelectTakes
  <2>2. CASE Goto(r, "marked", "closing") /\ SelectFallsThrough(r)
    BY <1>9, <2>2 DEF SelectOrClose, Goto, SelectFallsThrough
  <2>3. CASE Goto(r, "closing", IF closed[r] THEN "closing" ELSE "done") /\ CloseChan(r)
    BY <1>9, <2>3 DEF SelectOrClose, Goto, CloseChan
  <2> QED
    BY <1>9, <2>1, <2>2, <2>3 DEF SelectOrClose
<1>10. ASSUME NEW r \in Requests, BecomeOverdue(r) PROVE TypeOK'
  BY <1>10 DEF BecomeOverdue
<1>11. ASSUME NEW r \in Requests, ReachBroker(r) PROVE TypeOK'
  BY <1>11 DEF ReachBroker
<1>12. CASE WithTimeout
  BY <1>12 DEF WithTimeout
<1>13. ASSUME NEW h \in Handlers, NEW r \in Requests, Lookup(h, r) PROVE TypeOK'
  BY <1>13 DEF Lookup, Use, InOriginal
<1>14. ASSUME NEW h \in Handlers, CheckStatus(h) PROVE TypeOK'
  BY <1>14 DEF CheckStatus
<1>15. ASSUME NEW h \in Handlers, SendResponse(h) PROVE TypeOK'
  <2>1. CASE closed[handles[h]]
    BY <1>15, <2>1 DEF SendResponse
  <2>2. CASE ~closed[handles[h]]
    <3>1. buffered' = [buffered EXCEPT ![handles[h]] = TRUE]
      BY <1>15, <2>2 DEF SendResponse
    <3>2. accepted' = accepted \cup {handles[h]} /\ panic' = panic
      BY <1>15, <2>2 DEF SendResponse
    <3> QED
      BY <1>15, <3>1, <3>2 DEF SendResponse
  <2> QED
    BY <2>1, <2>2
<1>16. CASE Tick
  BY <1>16 DEF Tick, Use
<1>17. ASSUME NEW r \in Requests, Scan(r) PROVE TypeOK'
  BY <1>17 DEF Scan, InOriginal, IsExpired
<1>18. ASSUME NEW r \in Requests, Sweep(r) PROVE TypeOK'
  BY <1>18 DEF Sweep, InOriginal
<1>19. CASE MarkTimeout
  BY <1>19 DEF MarkTimeout, SetStatus
<1>20. CASE CleanerCloses
  BY <1>20 DEF CleanerCloses, SelectTakes, SelectFallsThrough, CloseChan
<1>21. CASE SweepEnds
  BY <1>21 DEF SweepEnds
<1>22. CASE CleanerExits
  BY <1>22 DEF CleanerExits
<1>23. ASSUME NEW k \in Closers, BeginClose(k) PROVE TypeOK'
  BY <1>23 DEF BeginClose
<1>24. ASSUME NEW k \in Closers, AwaitCleaner(k) PROVE TypeOK'
  BY <1>24 DEF AwaitCleaner
<1>25. ASSUME NEW k \in Closers, NEW r \in Requests, VisitForClose(k, r) PROVE TypeOK'
  BY <1>25 DEF VisitForClose, SetStatus, InMapOf, InOriginal
<1>26. ASSUME NEW k \in Closers, CloserCloses(k) PROVE TypeOK'
  <2>1. /\ closer' \in [Closers -> {"idle", "waiting", "ranging", "selecting", "closing",
                                   "deleting", "done"}]
        /\ panic' \in {"none", "sendOnClosed", "closeOfClosed"}
    BY <1>26 DEF CloserCloses, SelectTakes, SelectFallsThrough, CloseChan
  <2>2. buffered' \in [Requests -> BOOLEAN] /\ closed' \in [Requests -> BOOLEAN]
    BY <1>26 DEF CloserCloses, SelectTakes, SelectFallsThrough, CloseChan
  <2> QED
    BY <1>26, <2>1, <2>2 DEF CloserCloses
<1>27. ASSUME NEW k \in Closers, DeleteForClose(k) PROVE TypeOK'
  BY <1>27 DEF DeleteForClose
<1>28. ASSUME NEW k \in Closers, EndClose(k) PROVE TypeOK'
  BY <1>28 DEF EndClose
<1>29. CASE UNCHANGED vars
  BY <1>29 DEF vars
<1> QED
  BY <1>1, <1>2, <1>3, <1>4, <1>5, <1>6, <1>7, <1>8, <1>9, <1>10, <1>11, <1>12, <1>13,
     <1>14, <1>15, <1>16, <1>17, <1>18, <1>19, <1>20, <1>21, <1>22, <1>23, <1>24, <1>25,
     <1>26, <1>27, <1>28, <1>29
  DEF Next, RequestStep, HandlerStep, CleanupStep, CloseStep

(* Nothing but its own Request, cleanup or a Close takes a request out. *)
LEMMA StoredStep == IInv /\ [Next]_vars => StoredUntilTaken'
<1> SUFFICES ASSUME IInv, [Next]_vars PROVE StoredUntilTaken'
  OBVIOUS
<1> USE RequestAssumption DEF IInv, TypeOK, StoredUntilTaken, CleanupIsRight, Closing,
        PastWaiting, chanVars, requestVars, copyVars, brokerVars, handlerVars,
        cleanerVars, closerVars
<1>1. ASSUME NEW r \in Requests, Store(r) PROVE StoredUntilTaken'
  BY <1>1 DEF Store, Goto, Use, SetStatus
<1>2. ASSUME NEW r \in Requests, BeginSend(r) PROVE StoredUntilTaken'
  BY <1>2 DEF BeginSend, Goto, SetStatus
<1>3. ASSUME NEW r \in Requests, SendSucceeds(r) PROVE StoredUntilTaken'
  BY <1>3 DEF SendSucceeds, Goto
<1>4. ASSUME NEW r \in Requests, SendFails(r) PROVE StoredUntilTaken'
  BY <1>4 DEF SendFails, Goto, SetStatus, Return
<1>5. ASSUME NEW r \in Requests, Receive(r) PROVE StoredUntilTaken'
  BY <1>5 DEF Receive, Goto, SetStatus, Return, SelectTakes
<1>6. ASSUME NEW r \in Requests, ContextDone(r) PROVE StoredUntilTaken'
  BY <1>6 DEF ContextDone, Goto, SetStatus, Return
<1>7. ASSUME NEW r \in Requests, Delete(r) PROVE StoredUntilTaken'
  BY <1>7 DEF Delete, Goto
<1>8. ASSUME NEW r \in Requests, MarkFailed(r) PROVE StoredUntilTaken'
  BY <1>8 DEF MarkFailed, Goto, SetStatus
<1>9. ASSUME NEW r \in Requests, SelectOrClose(r) PROVE StoredUntilTaken'
  BY <1>9 DEF SelectOrClose, Goto, SelectTakes, SelectFallsThrough, CloseChan
<1>10. ASSUME NEW r \in Requests, BecomeOverdue(r) PROVE StoredUntilTaken'
  BY <1>10 DEF BecomeOverdue
<1>11. ASSUME NEW r \in Requests, ReachBroker(r) PROVE StoredUntilTaken'
  BY <1>11 DEF ReachBroker
<1>12. CASE WithTimeout
  BY <1>12 DEF WithTimeout
<1>13. ASSUME NEW h \in Handlers, NEW r \in Requests, Lookup(h, r) PROVE StoredUntilTaken'
  BY <1>13 DEF Lookup, Use, InOriginal
<1>14. ASSUME NEW h \in Handlers, CheckStatus(h) PROVE StoredUntilTaken'
  BY <1>14 DEF CheckStatus
<1>15. ASSUME NEW h \in Handlers, SendResponse(h) PROVE StoredUntilTaken'
  BY <1>15 DEF SendResponse
<1>16. CASE Tick
  BY <1>16 DEF Tick, Use
<1>17. ASSUME NEW r \in Requests, Scan(r) PROVE StoredUntilTaken'
  BY <1>17 DEF Scan, InOriginal, IsExpired
<1>18. ASSUME NEW r \in Requests, Sweep(r) PROVE StoredUntilTaken'
  BY <1>18 DEF Sweep, InOriginal
<1>19. CASE MarkTimeout
  BY <1>19 DEF MarkTimeout, SetStatus
<1>20. CASE CleanerCloses
  BY <1>20 DEF CleanerCloses, SelectTakes, SelectFallsThrough, CloseChan
<1>21. CASE SweepEnds
  BY <1>21 DEF SweepEnds
<1>22. CASE CleanerExits
  BY <1>22 DEF CleanerExits
<1>23. ASSUME NEW k \in Closers, BeginClose(k) PROVE StoredUntilTaken'
  BY <1>23 DEF BeginClose
<1>24. ASSUME NEW k \in Closers, AwaitCleaner(k) PROVE StoredUntilTaken'
  BY <1>24 DEF AwaitCleaner
<1>25. ASSUME NEW k \in Closers, NEW r \in Requests, VisitForClose(k, r)
       PROVE  StoredUntilTaken'
  BY <1>25 DEF VisitForClose, SetStatus, InMapOf, InOriginal
<1>26. ASSUME NEW k \in Closers, CloserCloses(k) PROVE StoredUntilTaken'
  BY <1>26 DEF CloserCloses, SelectTakes, SelectFallsThrough, CloseChan
<1>27. ASSUME NEW k \in Closers, DeleteForClose(k) PROVE StoredUntilTaken'
  BY <1>27 DEF DeleteForClose
<1>28. ASSUME NEW k \in Closers, EndClose(k) PROVE StoredUntilTaken'
  BY <1>28 DEF EndClose
<1>29. CASE UNCHANGED vars
  BY <1>29 DEF vars
<1> QED
  BY <1>1, <1>2, <1>3, <1>4, <1>5, <1>6, <1>7, <1>8, <1>9, <1>10, <1>11, <1>12, <1>13,
     <1>14, <1>15, <1>16, <1>17, <1>18, <1>19, <1>20, <1>21, <1>22, <1>23, <1>24, <1>25,
     <1>26, <1>27, <1>28, <1>29
  DEF Next, RequestStep, HandlerStep, CleanupStep, CloseStep

(* A request that is overdue, or past its select, stays so. *)
LEMMA CleanupStepIsRight == IInv /\ [Next]_vars => (CleanupIsRight /\ CopyIsMade)'
<1> SUFFICES ASSUME IInv, [Next]_vars PROVE (CleanupIsRight /\ CopyIsMade)'
  OBVIOUS
<1> USE RequestAssumption DEF IInv, TypeOK, CleanupIsRight, CopyIsMade, PastWaiting,
        chanVars, requestVars, copyVars, brokerVars, handlerVars, cleanerVars,
        closerVars
<1>1. ASSUME NEW r \in Requests, Store(r) PROVE (CleanupIsRight /\ CopyIsMade)'
  BY <1>1 DEF Store, Goto, Use, SetStatus
<1>2. ASSUME NEW r \in Requests, BeginSend(r) PROVE (CleanupIsRight /\ CopyIsMade)'
  BY <1>2 DEF BeginSend, Goto, SetStatus
<1>3. ASSUME NEW r \in Requests, SendSucceeds(r) PROVE (CleanupIsRight /\ CopyIsMade)'
  BY <1>3 DEF SendSucceeds, Goto
<1>4. ASSUME NEW r \in Requests, SendFails(r) PROVE (CleanupIsRight /\ CopyIsMade)'
  BY <1>4 DEF SendFails, Goto, SetStatus, Return
<1>5. ASSUME NEW r \in Requests, Receive(r) PROVE (CleanupIsRight /\ CopyIsMade)'
  BY <1>5 DEF Receive, Goto, SetStatus, Return, SelectTakes
<1>6. ASSUME NEW r \in Requests, ContextDone(r) PROVE (CleanupIsRight /\ CopyIsMade)'
  BY <1>6 DEF ContextDone, Goto, SetStatus, Return
<1>7. ASSUME NEW r \in Requests, Delete(r) PROVE (CleanupIsRight /\ CopyIsMade)'
  BY <1>7 DEF Delete, Goto
<1>8. ASSUME NEW r \in Requests, MarkFailed(r) PROVE (CleanupIsRight /\ CopyIsMade)'
  BY <1>8 DEF MarkFailed, Goto, SetStatus
<1>9. ASSUME NEW r \in Requests, SelectOrClose(r) PROVE (CleanupIsRight /\ CopyIsMade)'
  BY <1>9 DEF SelectOrClose, Goto, SelectTakes, SelectFallsThrough, CloseChan
<1>10. ASSUME NEW r \in Requests, BecomeOverdue(r) PROVE (CleanupIsRight /\ CopyIsMade)'
  BY <1>10 DEF BecomeOverdue
<1>11. ASSUME NEW r \in Requests, ReachBroker(r) PROVE (CleanupIsRight /\ CopyIsMade)'
  BY <1>11 DEF ReachBroker
<1>12. CASE WithTimeout
  BY <1>12 DEF WithTimeout
<1>13. ASSUME NEW h \in Handlers, NEW r \in Requests, Lookup(h, r)
       PROVE  (CleanupIsRight /\ CopyIsMade)'
  BY <1>13 DEF Lookup, Use, InOriginal
<1>14. ASSUME NEW h \in Handlers, CheckStatus(h) PROVE (CleanupIsRight /\ CopyIsMade)'
  BY <1>14 DEF CheckStatus
<1>15. ASSUME NEW h \in Handlers, SendResponse(h) PROVE (CleanupIsRight /\ CopyIsMade)'
  BY <1>15 DEF SendResponse
<1>16. CASE Tick
  BY <1>16 DEF Tick, Use
<1>17. ASSUME NEW r \in Requests, Scan(r) PROVE (CleanupIsRight /\ CopyIsMade)'
  BY <1>17 DEF Scan, InOriginal, IsExpired
<1>18. ASSUME NEW r \in Requests, Sweep(r) PROVE (CleanupIsRight /\ CopyIsMade)'
  BY <1>18 DEF Sweep, InOriginal
<1>19. CASE MarkTimeout
  BY <1>19 DEF MarkTimeout, SetStatus
<1>20. CASE CleanerCloses
  BY <1>20 DEF CleanerCloses, SelectTakes, SelectFallsThrough, CloseChan
<1>21. CASE SweepEnds
  BY <1>21 DEF SweepEnds
<1>22. CASE CleanerExits
  BY <1>22 DEF CleanerExits
<1>23. ASSUME NEW k \in Closers, BeginClose(k) PROVE (CleanupIsRight /\ CopyIsMade)'
  BY <1>23 DEF BeginClose
<1>24. ASSUME NEW k \in Closers, AwaitCleaner(k) PROVE (CleanupIsRight /\ CopyIsMade)'
  BY <1>24 DEF AwaitCleaner
<1>25. ASSUME NEW k \in Closers, NEW r \in Requests, VisitForClose(k, r)
       PROVE  (CleanupIsRight /\ CopyIsMade)'
  BY <1>25 DEF VisitForClose, SetStatus, InMapOf, InOriginal
<1>26. ASSUME NEW k \in Closers, CloserCloses(k) PROVE (CleanupIsRight /\ CopyIsMade)'
  BY <1>26 DEF CloserCloses, SelectTakes, SelectFallsThrough, CloseChan
<1>27. ASSUME NEW k \in Closers, DeleteForClose(k) PROVE (CleanupIsRight /\ CopyIsMade)'
  BY <1>27 DEF DeleteForClose
<1>28. ASSUME NEW k \in Closers, EndClose(k) PROVE (CleanupIsRight /\ CopyIsMade)'
  BY <1>28 DEF EndClose
<1>29. CASE UNCHANGED vars
  BY <1>29 DEF vars
<1> QED
  BY <1>1, <1>2, <1>3, <1>4, <1>5, <1>6, <1>7, <1>8, <1>9, <1>10, <1>11, <1>12, <1>13,
     <1>14, <1>15, <1>16, <1>17, <1>18, <1>19, <1>20, <1>21, <1>22, <1>23, <1>24, <1>25,
     <1>26, <1>27, <1>28, <1>29
  DEF Next, RequestStep, HandlerStep, CleanupStep, CloseStep

(* A key that has left the map does not come back. *)
LEMMA KeysStep == IInv /\ [Next]_vars => (KeysInOrder /\ HandlerHolds)'
<1> SUFFICES ASSUME IInv, [Next]_vars PROVE (KeysInOrder /\ HandlerHolds)'
  OBVIOUS
<1> USE RequestAssumption DEF IInv, TypeOK, KeysInOrder, HandlerHolds, CopyIsMade,
        chanVars, requestVars, copyVars, brokerVars, handlerVars, cleanerVars,
        closerVars
<1>1. ASSUME NEW r \in Requests, Store(r) PROVE (KeysInOrder /\ HandlerHolds)'
  BY <1>1 DEF Store, Goto, Use, SetStatus
<1>2. ASSUME NEW r \in Requests, BeginSend(r) PROVE (KeysInOrder /\ HandlerHolds)'
  BY <1>2 DEF BeginSend, Goto, SetStatus
<1>3. ASSUME NEW r \in Requests, SendSucceeds(r) PROVE (KeysInOrder /\ HandlerHolds)'
  BY <1>3 DEF SendSucceeds, Goto
<1>4. ASSUME NEW r \in Requests, SendFails(r) PROVE (KeysInOrder /\ HandlerHolds)'
  BY <1>4 DEF SendFails, Goto, SetStatus, Return
<1>5. ASSUME NEW r \in Requests, Receive(r) PROVE (KeysInOrder /\ HandlerHolds)'
  BY <1>5 DEF Receive, Goto, SetStatus, Return, SelectTakes
<1>6. ASSUME NEW r \in Requests, ContextDone(r) PROVE (KeysInOrder /\ HandlerHolds)'
  BY <1>6 DEF ContextDone, Goto, SetStatus, Return
<1>7. ASSUME NEW r \in Requests, Delete(r) PROVE (KeysInOrder /\ HandlerHolds)'
  BY <1>7 DEF Delete, Goto
<1>8. ASSUME NEW r \in Requests, MarkFailed(r) PROVE (KeysInOrder /\ HandlerHolds)'
  BY <1>8 DEF MarkFailed, Goto, SetStatus
<1>9. ASSUME NEW r \in Requests, SelectOrClose(r) PROVE (KeysInOrder /\ HandlerHolds)'
  BY <1>9 DEF SelectOrClose, Goto, SelectTakes, SelectFallsThrough, CloseChan
<1>10. ASSUME NEW r \in Requests, BecomeOverdue(r) PROVE (KeysInOrder /\ HandlerHolds)'
  BY <1>10 DEF BecomeOverdue
<1>11. ASSUME NEW r \in Requests, ReachBroker(r) PROVE (KeysInOrder /\ HandlerHolds)'
  BY <1>11 DEF ReachBroker
<1>12. CASE WithTimeout
  BY <1>12 DEF WithTimeout
<1>13. ASSUME NEW h \in Handlers, NEW r \in Requests, Lookup(h, r)
       PROVE  (KeysInOrder /\ HandlerHolds)'
  BY <1>13 DEF Lookup, Use, InOriginal
<1>14. ASSUME NEW h \in Handlers, CheckStatus(h) PROVE (KeysInOrder /\ HandlerHolds)'
  BY <1>14 DEF CheckStatus
<1>15. ASSUME NEW h \in Handlers, SendResponse(h) PROVE (KeysInOrder /\ HandlerHolds)'
  BY <1>15 DEF SendResponse
<1>16. CASE Tick
  BY <1>16 DEF Tick, Use
<1>17. ASSUME NEW r \in Requests, Scan(r) PROVE (KeysInOrder /\ HandlerHolds)'
  BY <1>17 DEF Scan, InOriginal, IsExpired
<1>18. ASSUME NEW r \in Requests, Sweep(r) PROVE (KeysInOrder /\ HandlerHolds)'
  BY <1>18 DEF Sweep, InOriginal
<1>19. CASE MarkTimeout
  BY <1>19 DEF MarkTimeout, SetStatus
<1>20. CASE CleanerCloses
  BY <1>20 DEF CleanerCloses, SelectTakes, SelectFallsThrough, CloseChan
<1>21. CASE SweepEnds
  BY <1>21 DEF SweepEnds
<1>22. CASE CleanerExits
  BY <1>22 DEF CleanerExits
<1>23. ASSUME NEW k \in Closers, BeginClose(k) PROVE (KeysInOrder /\ HandlerHolds)'
  BY <1>23 DEF BeginClose
<1>24. ASSUME NEW k \in Closers, AwaitCleaner(k) PROVE (KeysInOrder /\ HandlerHolds)'
  BY <1>24 DEF AwaitCleaner
<1>25. ASSUME NEW k \in Closers, NEW r \in Requests, VisitForClose(k, r)
       PROVE  (KeysInOrder /\ HandlerHolds)'
  BY <1>25 DEF VisitForClose, SetStatus, InMapOf, InOriginal
<1>26. ASSUME NEW k \in Closers, CloserCloses(k) PROVE (KeysInOrder /\ HandlerHolds)'
  BY <1>26 DEF CloserCloses, SelectTakes, SelectFallsThrough, CloseChan
<1>27. ASSUME NEW k \in Closers, DeleteForClose(k) PROVE (KeysInOrder /\ HandlerHolds)'
  BY <1>27 DEF DeleteForClose
<1>28. ASSUME NEW k \in Closers, EndClose(k) PROVE (KeysInOrder /\ HandlerHolds)'
  BY <1>28 DEF EndClose
<1>29. CASE UNCHANGED vars
  BY <1>29 DEF vars
<1> QED
  BY <1>1, <1>2, <1>3, <1>4, <1>5, <1>6, <1>7, <1>8, <1>9, <1>10, <1>11, <1>12, <1>13,
     <1>14, <1>15, <1>16, <1>17, <1>18, <1>19, <1>20, <1>21, <1>22, <1>23, <1>24, <1>25,
     <1>26, <1>27, <1>28, <1>29
  DEF Next, RequestStep, HandlerStep, CleanupStep, CloseStep

(* Who closes a channel has taken its key out, but for Close, which is *)
(* about to.                                                          *)
LEMMA ClosedStep == IInv /\ [Next]_vars => ClosedIsUnfindable'
<1> SUFFICES ASSUME IInv, [Next]_vars PROVE ClosedIsUnfindable'
  OBVIOUS
<1> USE RequestAssumption DEF IInv, TypeOK, KeysInOrder, ClosedIsUnfindable, chanVars,
        requestVars, copyVars, brokerVars, handlerVars, cleanerVars, closerVars
<1>1. ASSUME NEW r \in Requests, Store(r) PROVE ClosedIsUnfindable'
  BY <1>1 DEF Store, Goto, Use, SetStatus
<1>2. ASSUME NEW r \in Requests, BeginSend(r) PROVE ClosedIsUnfindable'
  BY <1>2 DEF BeginSend, Goto, SetStatus
<1>3. ASSUME NEW r \in Requests, SendSucceeds(r) PROVE ClosedIsUnfindable'
  BY <1>3 DEF SendSucceeds, Goto
<1>4. ASSUME NEW r \in Requests, SendFails(r) PROVE ClosedIsUnfindable'
  BY <1>4 DEF SendFails, Goto, SetStatus, Return
<1>5. ASSUME NEW r \in Requests, Receive(r) PROVE ClosedIsUnfindable'
  BY <1>5 DEF Receive, Goto, SetStatus, Return, SelectTakes
<1>6. ASSUME NEW r \in Requests, ContextDone(r) PROVE ClosedIsUnfindable'
  BY <1>6 DEF ContextDone, Goto, SetStatus, Return
<1>7. ASSUME NEW r \in Requests, Delete(r) PROVE ClosedIsUnfindable'
  BY <1>7 DEF Delete, Goto
<1>8. ASSUME NEW r \in Requests, MarkFailed(r) PROVE ClosedIsUnfindable'
  BY <1>8 DEF MarkFailed, Goto, SetStatus
<1>9. ASSUME NEW r \in Requests, SelectOrClose(r) PROVE ClosedIsUnfindable'
  BY <1>9 DEF SelectOrClose, Goto, SelectTakes, SelectFallsThrough, CloseChan
<1>10. ASSUME NEW r \in Requests, BecomeOverdue(r) PROVE ClosedIsUnfindable'
  BY <1>10 DEF BecomeOverdue
<1>11. ASSUME NEW r \in Requests, ReachBroker(r) PROVE ClosedIsUnfindable'
  BY <1>11 DEF ReachBroker
<1>12. CASE WithTimeout
  BY <1>12 DEF WithTimeout
<1>13. ASSUME NEW h \in Handlers, NEW r \in Requests, Lookup(h, r) PROVE ClosedIsUnfindable'
  BY <1>13 DEF Lookup, Use, InOriginal
<1>14. ASSUME NEW h \in Handlers, CheckStatus(h) PROVE ClosedIsUnfindable'
  BY <1>14 DEF CheckStatus
<1>15. ASSUME NEW h \in Handlers, SendResponse(h) PROVE ClosedIsUnfindable'
  BY <1>15 DEF SendResponse
<1>16. CASE Tick
  BY <1>16 DEF Tick, Use
<1>17. ASSUME NEW r \in Requests, Scan(r) PROVE ClosedIsUnfindable'
  BY <1>17 DEF Scan, InOriginal, IsExpired
<1>18. ASSUME NEW r \in Requests, Sweep(r) PROVE ClosedIsUnfindable'
  BY <1>18 DEF Sweep, InOriginal
<1>19. CASE MarkTimeout
  BY <1>19 DEF MarkTimeout, SetStatus
<1>20. CASE CleanerCloses
  BY <1>20 DEF CleanerCloses, SelectTakes, SelectFallsThrough, CloseChan
<1>21. CASE SweepEnds
  BY <1>21 DEF SweepEnds
<1>22. CASE CleanerExits
  BY <1>22 DEF CleanerExits
<1>23. ASSUME NEW k \in Closers, BeginClose(k) PROVE ClosedIsUnfindable'
  BY <1>23 DEF BeginClose
<1>24. ASSUME NEW k \in Closers, AwaitCleaner(k) PROVE ClosedIsUnfindable'
  BY <1>24 DEF AwaitCleaner
<1>25. ASSUME NEW k \in Closers, NEW r \in Requests, VisitForClose(k, r)
       PROVE  ClosedIsUnfindable'
  BY <1>25 DEF VisitForClose, SetStatus, InMapOf, InOriginal
<1>26. ASSUME NEW k \in Closers, CloserCloses(k) PROVE ClosedIsUnfindable'
  BY <1>26 DEF CloserCloses, SelectTakes, SelectFallsThrough, CloseChan
<1>27. ASSUME NEW k \in Closers, DeleteForClose(k) PROVE ClosedIsUnfindable'
  BY <1>27 DEF DeleteForClose
<1>28. ASSUME NEW k \in Closers, EndClose(k) PROVE ClosedIsUnfindable'
  BY <1>28 DEF EndClose
<1>29. CASE UNCHANGED vars
  BY <1>29 DEF vars
<1> QED
  BY <1>1, <1>2, <1>3, <1>4, <1>5, <1>6, <1>7, <1>8, <1>9, <1>10, <1>11, <1>12, <1>13,
     <1>14, <1>15, <1>16, <1>17, <1>18, <1>19, <1>20, <1>21, <1>22, <1>23, <1>24, <1>25,
     <1>26, <1>27, <1>28, <1>29
  DEF Next, RequestStep, HandlerStep, CleanupStep, CloseStep

(* What is received was accepted. *)
LEMMA AcceptedStep == IInv /\ [Next]_vars => ReceivedWasAccepted'
<1> SUFFICES ASSUME IInv, [Next]_vars PROVE ReceivedWasAccepted'
  OBVIOUS
<1> USE RequestAssumption DEF IInv, TypeOK, ReceivedWasAccepted, chanVars, requestVars,
        copyVars, brokerVars, handlerVars, cleanerVars, closerVars
<1>1. ASSUME NEW r \in Requests, Store(r) PROVE ReceivedWasAccepted'
  BY <1>1 DEF Store, Goto, Use, SetStatus
<1>2. ASSUME NEW r \in Requests, BeginSend(r) PROVE ReceivedWasAccepted'
  BY <1>2 DEF BeginSend, Goto, SetStatus
<1>3. ASSUME NEW r \in Requests, SendSucceeds(r) PROVE ReceivedWasAccepted'
  BY <1>3 DEF SendSucceeds, Goto
<1>4. ASSUME NEW r \in Requests, SendFails(r) PROVE ReceivedWasAccepted'
  BY <1>4 DEF SendFails, Goto, SetStatus, Return
<1>5. ASSUME NEW r \in Requests, Receive(r) PROVE ReceivedWasAccepted'
  BY <1>5 DEF Receive, Goto, SetStatus, Return, SelectTakes
<1>6. ASSUME NEW r \in Requests, ContextDone(r) PROVE ReceivedWasAccepted'
  BY <1>6 DEF ContextDone, Goto, SetStatus, Return
<1>7. ASSUME NEW r \in Requests, Delete(r) PROVE ReceivedWasAccepted'
  BY <1>7 DEF Delete, Goto
<1>8. ASSUME NEW r \in Requests, MarkFailed(r) PROVE ReceivedWasAccepted'
  BY <1>8 DEF MarkFailed, Goto, SetStatus
<1>9. ASSUME NEW r \in Requests, SelectOrClose(r) PROVE ReceivedWasAccepted'
  BY <1>9 DEF SelectOrClose, Goto, SelectTakes, SelectFallsThrough, CloseChan
<1>10. ASSUME NEW r \in Requests, BecomeOverdue(r) PROVE ReceivedWasAccepted'
  BY <1>10 DEF BecomeOverdue
<1>11. ASSUME NEW r \in Requests, ReachBroker(r) PROVE ReceivedWasAccepted'
  BY <1>11 DEF ReachBroker
<1>12. CASE WithTimeout
  BY <1>12 DEF WithTimeout
<1>13. ASSUME NEW h \in Handlers, NEW r \in Requests, Lookup(h, r) PROVE ReceivedWasAccepted'
  BY <1>13 DEF Lookup, Use, InOriginal
<1>14. ASSUME NEW h \in Handlers, CheckStatus(h) PROVE ReceivedWasAccepted'
  BY <1>14 DEF CheckStatus
<1>15. ASSUME NEW h \in Handlers, SendResponse(h) PROVE ReceivedWasAccepted'
  BY <1>15 DEF SendResponse
<1>16. CASE Tick
  BY <1>16 DEF Tick, Use
<1>17. ASSUME NEW r \in Requests, Scan(r) PROVE ReceivedWasAccepted'
  BY <1>17 DEF Scan, InOriginal, IsExpired
<1>18. ASSUME NEW r \in Requests, Sweep(r) PROVE ReceivedWasAccepted'
  BY <1>18 DEF Sweep, InOriginal
<1>19. CASE MarkTimeout
  BY <1>19 DEF MarkTimeout, SetStatus
<1>20. CASE CleanerCloses
  BY <1>20 DEF CleanerCloses, SelectTakes, SelectFallsThrough, CloseChan
<1>21. CASE SweepEnds
  BY <1>21 DEF SweepEnds
<1>22. CASE CleanerExits
  BY <1>22 DEF CleanerExits
<1>23. ASSUME NEW k \in Closers, BeginClose(k) PROVE ReceivedWasAccepted'
  BY <1>23 DEF BeginClose
<1>24. ASSUME NEW k \in Closers, AwaitCleaner(k) PROVE ReceivedWasAccepted'
  BY <1>24 DEF AwaitCleaner
<1>25. ASSUME NEW k \in Closers, NEW r \in Requests, VisitForClose(k, r)
       PROVE  ReceivedWasAccepted'
  BY <1>25 DEF VisitForClose, SetStatus, InMapOf, InOriginal
<1>26. ASSUME NEW k \in Closers, CloserCloses(k) PROVE ReceivedWasAccepted'
  BY <1>26 DEF CloserCloses, SelectTakes, SelectFallsThrough, CloseChan
<1>27. ASSUME NEW k \in Closers, DeleteForClose(k) PROVE ReceivedWasAccepted'
  BY <1>27 DEF DeleteForClose
<1>28. ASSUME NEW k \in Closers, EndClose(k) PROVE ReceivedWasAccepted'
  BY <1>28 DEF EndClose
<1>29. CASE UNCHANGED vars
  BY <1>29 DEF vars
<1> QED
  BY <1>1, <1>2, <1>3, <1>4, <1>5, <1>6, <1>7, <1>8, <1>9, <1>10, <1>11, <1>12, <1>13,
     <1>14, <1>15, <1>16, <1>17, <1>18, <1>19, <1>20, <1>21, <1>22, <1>23, <1>24, <1>25,
     <1>26, <1>27, <1>28, <1>29
  DEF Next, RequestStep, HandlerStep, CleanupStep, CloseStep

(* IInv holds in every reachable state: no theorem below needs more. *)
THEOREM RequestInvariant == Spec => []IInv
<1>1. Init => IInv
  <2> SUFFICES ASSUME Init PROVE IInv
    OBVIOUS
  <2>1. TypeOK
    <3>1. 0 \in 0..MaxReplies
      BY RequestAssumption
    <3>2. /\ replies \in [Requests -> 0..MaxReplies]
          /\ toClose \in [Closers -> SUBSET Requests]
          /\ closes \in [Closers -> Requests \cup {NoRequest}]
          /\ closer \in [Closers -> {"idle", "waiting", "ranging", "selecting", "closing",
                                     "deleting", "done"}]
      BY <3>1 DEF Init
    <3>3. /\ handler \in [Handlers -> {"idle", "check", "send"}]
          /\ handles \in [Handlers -> Requests \cup {NoRequest}]
          /\ buffered \in [Requests -> BOOLEAN]
          /\ closed \in [Requests -> BOOLEAN]
          /\ overdue \in [Requests -> BOOLEAN]
          /\ reached \in [Requests -> BOOLEAN]
      BY DEF Init
    <3> QED
      BY <3>2, <3>3 DEF Init, TypeOK
  <2>2. StoredUntilTaken /\ CleanupIsRight /\ CopyIsMade
    BY RequestAssumption DEF Init, StoredUntilTaken, CleanupIsRight, CopyIsMade, PastWaiting
  <2>3. KeysInOrder /\ HandlerHolds /\ ClosedIsUnfindable /\ ReceivedWasAccepted
    BY RequestAssumption DEF Init, KeysInOrder, HandlerHolds, ClosedIsUnfindable,
       ReceivedWasAccepted
  <2> QED
    BY <2>1, <2>2, <2>3 DEF IInv
<1>2. IInv /\ [Next]_vars => IInv'
  BY TypeStep, StoredStep, CleanupStepIsRight, KeysStep, ClosedStep, AcceptedStep DEF IInv
<1> QED
  BY <1>1, <1>2, PTL DEF Spec

-----------------------------------------------------------------------------
(* Each variable keeps its type. *)
THEOREM RequestTypeCorrect == Spec => []TypeOK
<1>1. IInv => TypeOK
  BY DEF IInv
<1> QED
  BY RequestInvariant, <1>1, PTL

(* A request in time can be found by its reply, however the cleanup         *)
(* goroutine, which decides on a status read earlier, interleaves with it.  *)
THEOREM RequestWaitingIsRegistered == Spec => []WaitingIsRegistered
<1>1. IInv => WaitingIsRegistered
  BY DEF IInv, TypeOK, StoredUntilTaken, CopyIsMade, WaitingIsRegistered, InOriginal
<1> QED
  BY RequestInvariant, <1>1, PTL

(* A context whose channel is closed cannot be looked up any more, but for  *)
(* one a Close is about to delete.                                          *)
THEOREM RequestClosedIsUnfindable == Spec => []ClosedIsUnfindable
<1>1. IInv => ClosedIsUnfindable
  BY DEF IInv
<1> QED
  BY RequestInvariant, <1>1, PTL

(* What cleanup decides on, although it reads it before it deletes, is never *)
(* wrong: a request it has marked or picked is past its timeout, or nobody   *)
(* waits for it any more.                                                    *)
THEOREM RequestCleanupIsRight == Spec => []CleanupIsRight
<1>1. IInv => CleanupIsRight
  BY DEF IInv
<1> QED
  BY RequestInvariant, <1>1, PTL

(* A response that a Request returns was put into its own channel by a      *)
(* handler, and is not the zero value of a channel closed under it.         *)
THEOREM RequestReceivedWasAccepted == Spec => []ReceivedWasAccepted
<1>1. IInv => ReceivedWasAccepted
  BY DEF IInv
<1> QED
  BY RequestInvariant, <1>1, PTL

-----------------------------------------------------------------------------
(* Request implements CallService *)

(* What a caller sees of a Request. *)
CallState(r) ==
    CASE request[r] = "idle" -> "idle"
      [] request[r] = "done" /\ outcome[r] = "response" -> "answered"
      [] request[r] = "done" /\ outcome[r] # "response" -> "failed"
      [] OTHER -> "pending"

CallStates == [r \in Requests |-> CallState(r)]

(* A Request that moves neither out of "idle" nor into "done" does not move *)
(* as its caller sees it.                                                   *)
LEMMA CallStatesSame ==
    ASSUME NEW r \in Requests,
           \A q \in Requests \ {r} : request'[q] = request[q] /\ outcome'[q] = outcome[q],
           \/ request'[r] = request[r] /\ outcome'[r] = outcome[r]
           \/ request[r] \notin {"idle", "done"} /\ request'[r] \notin {"idle", "done"}
    PROVE  CallStates' = CallStates
<1>1. \A q \in Requests : CallState(q)' = CallState(q)
  BY DEF CallState
<1> QED
  BY <1>1 DEF CallStates

(* What a step leaves alone it leaves alone for the service, and a panic is *)
(* the crash of the calling process.                                        *)
LEMMA SameOrCrash ==
    ASSUME CallStates' = CallStates, accepted' = accepted, Alive \/ panic' = panic
    PROVE  Service!Crash \/ UNCHANGED Service!serviceVars
<1>1. CASE Alive' = Alive
  BY <1>1 DEF Service!serviceVars, CallStates, CallState
<1>2. CASE Alive /\ ~Alive'
  BY <1>2 DEF Service!Crash, CallStates, CallState
<1> QED
  BY <1>1, <1>2 DEF Alive

(* The steps of a Request between its first and its last are no steps of    *)
(* the service.                                                             *)
LEMMA RequestMovesOn ==
    ASSUME TypeOK, NEW r \in Requests,
           \/ BeginSend(r) \/ SendSucceeds(r) \/ SendFails(r) \/ Receive(r) \/ ContextDone(r)
           \/ Delete(r) \/ MarkFailed(r)
    PROVE  Service!Crash \/ UNCHANGED Service!serviceVars
<1>1. /\ \A q \in Requests \ {r} : request'[q] = request[q] /\ outcome'[q] = outcome[q]
      /\ request[r] \notin {"idle", "done"} /\ request'[r] \notin {"idle", "done"}
      /\ accepted' = accepted
      /\ Alive
  BY DEF TypeOK, BeginSend, SendSucceeds, SendFails, Receive, ContextDone, Delete, MarkFailed,
     Goto, Return, handlerVars
<1>2. CallStates' = CallStates
  BY <1>1, CallStatesSame
<1> QED
  BY <1>1, <1>2, SameOrCrash

(* Neither are those of the other goroutines, but for a panic. *)
LEMMA OthersAreQuiet ==
    ASSUME request' = request, outcome' = outcome, accepted' = accepted, Alive \/ panic' = panic
    PROVE  Service!Crash \/ UNCHANGED Service!serviceVars
<1>1. CallStates' = CallStates
  BY DEF CallStates, CallState
<1> QED
  BY <1>1, SameOrCrash

(* A reply that gets into its channel serves the call, the first time; one  *)
(* that finds it closed kills the process.                                  *)
LEMMA ReplyServes ==
    ASSUME IInv, NEW h \in Handlers, SendResponse(h)
    PROVE  \/ \E r \in Requests : Service!Serve(r)
           \/ Service!Crash
           \/ UNCHANGED Service!serviceVars
<1>1. request' = request /\ outcome' = outcome /\ Alive
  BY DEF SendResponse, requestVars
<1>2. PICK r \in Requests : r = handles[h]
  BY DEF IInv, HandlerHolds, SendResponse
<1>3. CASE closed[r]
  <2>1. accepted' = accepted
    BY <1>2, <1>3 DEF SendResponse
  <2> QED
    BY <1>1, <2>1, OthersAreQuiet
<1>4. CASE ~closed[r] /\ r \in accepted
  <2>1. accepted' = accepted
    BY <1>2, <1>4 DEF SendResponse
  <2> QED
    BY <1>1, <2>1, OthersAreQuiet
<1>5. CASE ~closed[r] /\ r \notin accepted
  <2>1. accepted' = accepted \cup {r} /\ panic' = panic
    BY <1>2, <1>5 DEF SendResponse
  <2>2. CallStates' = CallStates
    BY <1>1 DEF CallStates, CallState
  <2>3. CallStates[r] # "idle"
    BY <1>2 DEF IInv, KeysInOrder, CallStates, CallState
  <2>4. Alive' = Alive
    BY <2>1 DEF Alive
  <2>5. Service!Serve(r)
    BY <1>5, <2>1, <2>2, <2>3, <2>4 DEF Service!Serve, CallStates, CallState
  <2> QED
    BY <2>5
<1> QED
  BY <1>3, <1>4, <1>5

(* Request begins a call. *)
LEMMA StoreAsks ==
    ASSUME TypeOK, NEW r \in Requests, Store(r)
    PROVE  Service!Ask(r)
<1>1. Alive /\ Alive' = Alive /\ accepted' = accepted /\ outcome' = outcome
  BY DEF Store, Alive, chanVars, handlerVars
<1>2. request[r] = "idle" /\ request' = [request EXCEPT ![r] = "stored"]
  BY DEF Store, Goto
<1>3. CallState(r) = "idle" /\ CallState(r)' = "pending"
  BY <1>2 DEF CallState, TypeOK
<1>4. \A q \in Requests \ {r} : CallState(q)' = CallState(q)
  BY <1>1, <1>2 DEF CallState, TypeOK
<1>5. CallStates[r] = "idle" /\ CallStates' = [CallStates EXCEPT ![r] = "pending"]
  BY <1>3, <1>4 DEF CallStates
<1> QED
  BY <1>1, <1>5 DEF Service!Ask, Service!Move, CallStates, CallState

(* The end of its deferred function ends it, with what its caller is due. *)
LEMMA LastStepEnds ==
    ASSUME IInv, NEW r \in Requests, SelectOrClose(r)
    PROVE  \/ Service!Answer(r) \/ Service!GiveUp(r)
           \/ Service!Crash \/ UNCHANGED Service!serviceVars
<1>1. TypeOK /\ Alive /\ accepted' = accepted /\ outcome' = outcome
  BY DEF IInv, SelectOrClose, handlerVars
<1>2. PICK to \in {"closing", "done"} :
         request[r] \in {"marked", "closing"} /\ request' = [request EXCEPT ![r] = to]
  BY DEF SelectOrClose, Goto
<1>3. CASE to = "closing"
  <2>1. CallStates' = CallStates
    BY <1>1, <1>2, <1>3, CallStatesSame DEF TypeOK
  <2> QED
    BY <1>1, <2>1, SameOrCrash
<1>4. CASE to = "done"
  <2>1. Alive' = Alive
    BY <1>4, <1>2, <1>1 DEF SelectOrClose, Goto, SelectTakes, SelectFallsThrough, CloseChan,
       TypeOK, Alive
  <2>2. CallStates[r] = "pending"
    BY <1>2 DEF CallStates, CallState
  <2>3. \A q \in Requests \ {r} : CallState(q)' = CallState(q)
    BY <1>1, <1>2 DEF CallState, TypeOK
  <2>4. request'[r] = "done"
    BY <1>1, <1>2, <1>4 DEF TypeOK
  <2>5. CASE outcome[r] = "response"
    <3>1. CallState(r)' = "answered"
      BY <1>1, <2>4, <2>5 DEF CallState
    <3>2. r \in accepted
      BY <2>5 DEF IInv, ReceivedWasAccepted
    <3>3. CallStates' = [CallStates EXCEPT ![r] = "answered"]
      BY <2>3, <3>1 DEF CallStates
    <3> QED
      BY <1>1, <2>1, <2>2, <3>2, <3>3 DEF Service!Answer, Service!Move, CallStates, CallState
  <2>6. CASE outcome[r] # "response"
    <3>1. CallState(r)' = "failed"
      BY <1>1, <2>4, <2>6 DEF CallState
    <3>2. CallStates' = [CallStates EXCEPT ![r] = "failed"]
      BY <2>3, <3>1 DEF CallStates
    <3> QED
      BY <1>1, <2>1, <2>2, <3>2 DEF Service!GiveUp, Service!Move, CallStates, CallState
  <2> QED
    BY <2>5, <2>6
<1> QED
  BY <1>2, <1>3, <1>4

(* Whatever the goroutines, cleanup, Close and a copy of the client do, the *)
(* caller of Request sees a CallService: a response only if one was put     *)
(* into its own channel, and one end to each call.                          *)
THEOREM RequestImplementsService == Spec => Service!Spec
<1>1. Init => Service!Init
  BY DEF Init, Service!Init, Alive
<1>2. IInv /\ [Next]_vars => [Service!Next]_(Service!serviceVars)
  <2> SUFFICES ASSUME IInv, [Next]_vars
               PROVE  Service!Next \/ UNCHANGED Service!serviceVars
    OBVIOUS
  <2>1. TypeOK
    BY DEF IInv
  <2>2. ASSUME NEW r \in Requests, Store(r) PROVE Service!Ask(r)
    BY <2>1, <2>2, StoreAsks
  <2>3. ASSUME NEW r \in Requests, RequestStep(r)
        PROVE  \/ Service!Answer(r) \/ Service!GiveUp(r)
               \/ Service!Crash \/ UNCHANGED Service!serviceVars
    BY <2>1, <2>3, RequestMovesOn, LastStepEnds DEF RequestStep
  <2>4. ASSUME NEW r \in Requests, BecomeOverdue(r) \/ ReachBroker(r)
        PROVE  Service!Crash \/ UNCHANGED Service!serviceVars
    BY <2>4, OthersAreQuiet DEF BecomeOverdue, ReachBroker, requestVars, handlerVars
  <2>5. ASSUME NEW h \in Handlers, HandlerStep(h)
        PROVE  \/ \E r \in Requests : Service!Serve(r)
               \/ Service!Crash \/ UNCHANGED Service!serviceVars
    <3>1. CASE SendResponse(h)
      BY <3>1, ReplyServes
    <3>2. CASE CheckStatus(h) \/ \E r \in Requests : Lookup(h, r)
      BY <3>2, OthersAreQuiet DEF CheckStatus, Lookup, requestVars
    <3> QED
      BY <2>5, <3>1, <3>2 DEF HandlerStep
  <2>6. CASE Tick \/ CleanupStep \/ CleanerExits \/ WithTimeout
    <3>1. request' = request /\ outcome' = outcome /\ accepted' = accepted /\ Alive
      BY <2>6 DEF Tick, CleanupStep, Scan, Sweep, MarkTimeout, CleanerCloses, SweepEnds,
         CleanerExits, WithTimeout, requestVars, handlerVars
    <3> QED
      BY <3>1, OthersAreQuiet DEF Service!Next
  <2>7. ASSUME NEW k \in Closers, BeginClose(k) \/ CloseStep(k)
        PROVE  Service!Crash \/ UNCHANGED Service!serviceVars
    BY <2>7, OthersAreQuiet DEF BeginClose, CloseStep, AwaitCleaner, VisitForClose,
       CloserCloses, DeleteForClose, EndClose, requestVars, handlerVars
  <2>8. CASE UNCHANGED vars
    <3>1. request' = request /\ outcome' = outcome /\ accepted' = accepted /\ panic' = panic
      BY <2>8 DEF vars, requestVars, handlerVars, chanVars
    <3> QED
      BY <3>1, OthersAreQuiet DEF Service!Next
  <2> QED
    BY <2>2, <2>3, <2>4, <2>5, <2>6, <2>7, <2>8 DEF Next, Service!Next
<1> QED
  BY <1>1, <1>2, RequestInvariant, PTL DEF Spec, Service!Spec
=============================================================================
