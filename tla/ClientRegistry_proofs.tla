----------------------- MODULE ClientRegistry_proofs -----------------------
(***************************************************************************)
(* Proofs about ClientRegistry for any finite set of Register calls and    *)
(* any sets of the other calls.                                            *)
(***************************************************************************)
EXTENDS ClientRegistry, FiniteSetTheorems, TLAPS

(* Each kind of call goes through its own places only. *)
Places ==
    /\ \A r \in Registers :
          pc[r] \in {"idle", "resolving", "consuming", "naming", "done"}
    /\ \A k \in CloseAlls : pc[k] \in {"idle", "closing", "naming", "done"}
    /\ \A g \in Shutdowns : pc[g] \in {"idle", "selecting", "done"}

(* Who is under way with a write holds clientsMu. *)
LockHeld == \A k \in Writers : pc[k] \notin {"idle", "done"} => writer = k

(* A client is stored under its own name, and while its Register is under   *)
(* way the name is free; defaultName is set when the first one is stored.   *)
MapInOrder ==
    /\ \A n \in Names : clients[n] # NoClient => NameOf[clients[n]] = n
    /\ \A r \in Registers :
          /\ pc[r] \in {"resolving", "consuming"} => clients[NameOf[r]] = NoClient
          /\ r \in Registered => pc[r] \in {"naming", "done"}
          /\ pc[r] = "naming" => r \in Registered /\ defaultName = NoName
    /\ \A k \in CloseAlls : pc[k] = "naming" => clients = NoClients

(* defaultName leads to a client, but for a GracefulShutdown that emptied   *)
(* the map, and the moment before a CloseAll erases it; without a           *)
(* defaultName there is no client, but for the moment before it is set.     *)
DefaultInOrder ==
    /\ defaultName # NoName =>
          \/ clients[defaultName] # NoClient
          \/ \E g \in Shutdowns : ret[g] = "nil"
          \/ \E k \in CloseAlls : pc[k] = "naming"
    /\ defaultName = NoName /\ Registered # {} => \E r \in Registers : pc[r] = "naming"

(* A GracefulShutdown has its goroutines from the moment it holds the lock, *)
(* for every client in the map; one that has succeeded has shut down both   *)
(* of its client's ends, one that has failed has tried; done is closed, and *)
(* nil returned, after the last.                                            *)
ClosersInOrder ==
    \A g \in Shutdowns :
        /\ pc[g] = "idle" => Targets(g) = {}
        /\ pc[g] = "selecting" => Registered \subseteq Targets(g)
        /\ pc[g] = "done" => ret[g] \in {"nil", "error"}
        /\ \A c \in Targets(g) : pc[c] = "done"
        /\ \A c \in Registers :
              /\ closer[g][c] \in {"reporting", "failed"} => producer[c] # "running"
              /\ closer[g][c] = "closed" => producer[c] = "shut" /\ consumer[c] = "shut"
              /\ closer[g][c] \notin {"none", "spawned"} => c \in rejecting
        /\ g \in done => pc[g] # "idle" /\ Counted(g) = {}
        /\ ret[g] # "none" => pc[g] = "done"
        /\ ret[g] = "nil" => g \in done

(* A MessageManager closes a client that has been registered, and tells it  *)
(* to turn messages away first.                                             *)
ManagersInOrder ==
    /\ \A r \in Registers : ret[r] = "nil" => pc[r] = "done"
    /\ \A c \in Managed : manager[c] # "open" => c \in rejecting /\ pc[c] = "done"

(* A client in the map without a running producer turns messages away. *)
StoppedIsRejecting ==
    /\ \A r \in Registers : pc[r] = "consuming" => producer[r] = "running"
    /\ \A c \in Registered : producer[c] = "running" \/ c \in rejecting

(* A client turns messages away because some GracefulShutdown or its        *)
(* MessageManager told it to.                                               *)
RejectingIsTarget ==
    \A c \in rejecting :
        \/ \E g \in Shutdowns : c \in Targets(g)
        \/ c \in Managed /\ manager[c] # "open"

(* What a GracefulShutdown that returned nil closed is not found again. *)
NilIsFinal == \A g \in Shutdowns : ret[g] = "nil" => Targets(g) \cap Registered = {}

RegistryInv ==
    /\ Places
    /\ LockHeld
    /\ MapInOrder
    /\ DefaultInOrder
    /\ NothingOrphaned

CloserInv ==
    /\ ClosersInOrder
    /\ ManagersInOrder
    /\ StoppedIsRejecting
    /\ RejectingIsTarget
    /\ NilIsFinal

IInv == TypeOK /\ RegistryInv /\ CloserInv

-----------------------------------------------------------------------------
(* What Default, GetAllHealthCheckFuncs and HealthCheck leave alone *)

UserAction(u) ==
    ReadName(u) \/ TakeCheck(u) \/ BeginCheck(u) \/ UserStep(u) \/ HelperReports(u)

(* They write nothing that the registry or its closers rely on. *)
LEMMA UsersOnlyRead ==
    ASSUME TypeOK, \/ UNCHANGED vars
                   \/ \E u \in Users : UserAction(u)
    PROVE  /\ UNCHANGED <<registryVars, writer, ret, clientVars, shutdownVars, manager>>
           /\ \A k \in Writers : pc'[k] = pc[k]
  BY RegistryAssumption DEF UserAction, UserStep, ReadName, GetClient, TakeCheck, BeginCheck,
     HelperReports, CheckReturns, Goto, TypeOK, Writers, Calls, vars

(* The goroutines of a GracefulShutdown number at most the clients ever made. *)
LEMMA TargetsFinite ==
    ASSUME NEW g \in Shutdowns
    PROVE  /\ Cardinality(Registers) \in Nat
           /\ Cardinality(Targets(g)) \in 0..Cardinality(Registers)
<1>1. Targets(g) \subseteq Registers
  BY DEF Targets
<1> QED
  BY <1>1, RegistryAssumption, FS_Subset, FS_CardinalityType

-----------------------------------------------------------------------------
(* The invariant is inductive *)

(* Every step keeps the types. *)
LEMMA TypeStep == TypeOK /\ [Next]_vars => TypeOK'
<1> SUFFICES ASSUME TypeOK, [Next]_vars PROVE TypeOK'
  OBVIOUS
<1> USE RegistryAssumption DEF TypeOK, Names, Writers, Calls, registryVars, clientVars,
        shutdownVars, readerVars
<1>1. ASSUME NEW r \in Registers, BeginRegister(r) PROVE TypeOK'
  <2>1. CASE clients[NameOf[r]] # NoClient
    <3>1. /\ pc[r] = "idle" /\ pc' = [pc EXCEPT ![r] = "done"]
          /\ ret' = [ret EXCEPT ![r] = "error"] /\ writer' = writer
      BY <1>1, <2>1 DEF BeginRegister, Goto, Return
    <3> QED
      BY <1>1, <3>1 DEF BeginRegister
  <2>2. CASE clients[NameOf[r]] = NoClient
    <3>1. /\ pc[r] = "idle" /\ pc' = [pc EXCEPT ![r] = "resolving"]
          /\ ret' = ret /\ writer = Nobody /\ writer' = r
      BY <1>1, <2>2 DEF BeginRegister, Goto, Lock
    <3> QED
      BY <1>1, <3>1 DEF BeginRegister
  <2> QED
    BY <2>1, <2>2
<1>2. ASSUME NEW r \in Registers, RegisterFails(r) PROVE TypeOK'
  <2>1. pc' = [pc EXCEPT ![r] = "done"] /\ ret' = [ret EXCEPT ![r] = "error"]
    BY <1>2 DEF RegisterFails, Goto, Return
  <2> QED
    BY <1>2, <2>1 DEF RegisterFails, Unlock
<1>3. ASSUME NEW r \in Registers, StartProducer(r) PROVE TypeOK'
  BY <1>3 DEF StartProducer, Goto
<1>4. ASSUME NEW r \in Registers, ConsumerFails(r) PROVE TypeOK'
  BY <1>4 DEF ConsumerFails, Goto, Return, Unlock, ShutProducers
<1>5. ASSUME NEW r \in Registers, Publish(r) PROVE TypeOK'
  BY <1>5 DEF Publish, Goto, Return, Unlock
<1>6. ASSUME NEW r \in Registers, NameDefault(r) PROVE TypeOK'
  BY <1>6 DEF NameDefault, Goto, Return, Unlock
<1>7. ASSUME NEW k \in CloseAlls, BeginCloseAll(k) PROVE TypeOK'
  BY <1>7 DEF BeginCloseAll, Goto, Lock
<1>8. ASSUME NEW k \in CloseAlls, CloseClients(k) PROVE TypeOK'
  BY <1>8 DEF CloseClients, Goto, ShutProducers, NoClients
<1>9. ASSUME NEW k \in CloseAlls, ForgetDefault(k) PROVE TypeOK'
  BY <1>9 DEF ForgetDefault, Goto, Return, Unlock
<1>10. ASSUME NEW g \in Shutdowns, BeginShutdown(g) PROVE TypeOK'
  BY <1>10 DEF BeginShutdown, Goto, Lock
<1>11. ASSUME NEW g \in Shutdowns, NEW c \in Registers, CloserBegins(g, c) PROVE TypeOK'
  BY <1>11 DEF CloserBegins, Move
<1>12. ASSUME NEW g \in Shutdowns, NEW c \in Registers, CloserSucceeds(g, c) PROVE TypeOK'
  BY <1>12 DEF CloserSucceeds, Move, ShutProducers
<1>13. ASSUME NEW g \in Shutdowns, NEW c \in Registers, CloserTimesOut(g, c)
       PROVE  TypeOK'
  BY <1>13 DEF CloserTimesOut, Move, ShutProducers
<1>14. ASSUME NEW g \in Shutdowns, NEW c \in Registers, CloserFails(g, c) PROVE TypeOK'
  BY <1>14 DEF CloserFails, Move, ShutProducers
<1>15. ASSUME NEW g \in Shutdowns, NEW c \in Registers, CloserReports(g, c) PROVE TypeOK'
  <2>1. errs[g] < Cardinality(Registers)
    BY <1>15, TargetsFinite DEF CloserReports, Room
  <2>2. errs[g] + 1 \in 0..Cardinality(Registers)
    BY <2>1, TargetsFinite
  <2>3. errs' \in [Shutdowns -> 0..Cardinality(Registers)]
    BY <1>15, <2>2 DEF CloserReports
  <2> QED
    BY <1>15, <2>3 DEF CloserReports, Move
<1>16. ASSUME NEW g \in Shutdowns, AllDone(g) PROVE TypeOK'
  BY <1>16 DEF AllDone
<1>17. ASSUME NEW g \in Shutdowns, ReturnDone(g) PROVE TypeOK'
  BY <1>17 DEF ReturnDone, Goto, Return, Unlock, NoClients
<1>18. ASSUME NEW g \in Shutdowns, ReturnExpired(g) PROVE TypeOK'
  BY <1>18 DEF ReturnExpired, Goto, Return, Unlock
<1>19. ASSUME NEW g \in Shutdowns, ReturnError(g) PROVE TypeOK'
  <2>1. errs[g] - 1 \in 0..Cardinality(Registers)
    BY <1>19, TargetsFinite DEF ReturnError
  <2>2. errs' \in [Shutdowns -> 0..Cardinality(Registers)]
    BY <1>19, <2>1 DEF ReturnError
  <2> QED
    BY <1>19, <2>2 DEF ReturnError, Goto, Return, Unlock
<1>20. ASSUME NEW c \in Managed, BeginManagerClose(c) PROVE TypeOK'
  BY <1>20 DEF BeginManagerClose
<1>21. ASSUME NEW c \in Managed, ManagerCloses(c) PROVE TypeOK'
  BY <1>21 DEF ManagerCloses, ShutProducers
<1>22. ASSUME NEW u \in Users, ReadName(u) PROVE TypeOK'
  <2>1. name' \in [Users -> Names \cup {NoName}]
    BY <1>22 DEF ReadName, NewName
  <2>2. crashed' \in BOOLEAN
    <3>1. CASE UNCHANGED crashed
      BY <3>1
    <3>2. CASE crashed' = TRUE
      BY <3>2
    <3> QED
      BY <1>22, <3>1, <3>2 DEF ReadName
  <2> QED
    BY <1>22, <2>1, <2>2 DEF ReadName, Goto
<1>23. ASSUME NEW u \in Users, GetClient(u) PROVE TypeOK'
  BY <1>23 DEF GetClient, Goto, Lookup
<1>24. ASSUME NEW u \in Users, TakeCheck(u) PROVE TypeOK'
  BY <1>24 DEF TakeCheck, Goto, Registered
<1>25. ASSUME NEW u \in Users, BeginCheck(u) PROVE TypeOK'
  BY <1>25 DEF BeginCheck, Goto
<1>26. ASSUME NEW u \in Users, HelperReports(u) PROVE TypeOK'
  BY <1>26 DEF HelperReports
<1>27. ASSUME NEW u \in Users, CheckReturns(u) PROVE TypeOK'
  BY <1>27 DEF CheckReturns, Goto
<1>28. CASE UNCHANGED vars
  BY <1>28 DEF vars
<1> QED
  BY <1>1, <1>2, <1>3, <1>4, <1>5, <1>6, <1>7, <1>8, <1>9, <1>10, <1>11, <1>12, <1>13,
     <1>14, <1>15, <1>16, <1>17, <1>18, <1>19, <1>20, <1>21, <1>22, <1>23, <1>24, <1>25,
     <1>26, <1>27, <1>28
  DEF Next, RegisterStep, CloseAllStep, CloserStep, ShutdownStep, UserStep

(* Calls go from place to place in order, and one at a time writes. *)
LEMMA LockStep == IInv /\ [Next]_vars => (Places /\ LockHeld)'
<1> SUFFICES ASSUME IInv, [Next]_vars PROVE (Places /\ LockHeld)'
  OBVIOUS
<1> USE RegistryAssumption DEF IInv, TypeOK, RegistryInv, Writers, Calls, Names,
        registryVars, clientVars, shutdownVars, readerVars, Places, LockHeld
<1>1. ASSUME NEW r \in Registers, BeginRegister(r) PROVE (Places /\ LockHeld)'
  <2>1. CASE clients[NameOf[r]] # NoClient
    <3>1. /\ pc[r] = "idle" /\ pc' = [pc EXCEPT ![r] = "done"]
          /\ ret' = [ret EXCEPT ![r] = "error"] /\ writer' = writer
      BY <1>1, <2>1 DEF BeginRegister, Goto, Return
    <3> QED
      BY <1>1, <3>1 DEF BeginRegister
  <2>2. CASE clients[NameOf[r]] = NoClient
    <3>1. /\ pc[r] = "idle" /\ pc' = [pc EXCEPT ![r] = "resolving"]
          /\ ret' = ret /\ writer = Nobody /\ writer' = r
      BY <1>1, <2>2 DEF BeginRegister, Goto, Lock
    <3> QED
      BY <1>1, <3>1 DEF BeginRegister
  <2> QED
    BY <2>1, <2>2
<1>2. ASSUME NEW r \in Registers, RegisterFails(r) PROVE (Places /\ LockHeld)'
  <2>1. /\ pc[r] = "resolving" /\ pc' = [pc EXCEPT ![r] = "done"]
        /\ writer' = Nobody
    BY <1>2 DEF RegisterFails, Goto, Return, Unlock
  <2> QED
    BY <2>1
<1>3. ASSUME NEW r \in Registers, StartProducer(r) PROVE (Places /\ LockHeld)'
  BY <1>3 DEF StartProducer, Goto
<1>4. ASSUME NEW r \in Registers, ConsumerFails(r) PROVE (Places /\ LockHeld)'
  BY <1>4 DEF ConsumerFails, Goto, Return, Unlock, ShutProducers
<1>5. ASSUME NEW r \in Registers, Publish(r) PROVE (Places /\ LockHeld)'
  <2>1. CASE defaultName = NoName
    <3>1. pc[r] = "consuming" /\ pc' = [pc EXCEPT ![r] = "naming"] /\ writer' = writer
      BY <1>5, <2>1 DEF Publish, Goto
    <3> QED
      BY <3>1
  <2>2. CASE defaultName # NoName
    <3>1. pc[r] = "consuming" /\ pc' = [pc EXCEPT ![r] = "done"] /\ writer' = Nobody
      BY <1>5, <2>2 DEF Publish, Goto, Return, Unlock
    <3> QED
      BY <3>1
  <2> QED
    BY <2>1, <2>2
<1>6. ASSUME NEW r \in Registers, NameDefault(r) PROVE (Places /\ LockHeld)'
  BY <1>6 DEF NameDefault, Goto, Return, Unlock
<1>7. ASSUME NEW k \in CloseAlls, BeginCloseAll(k) PROVE (Places /\ LockHeld)'
  BY <1>7 DEF BeginCloseAll, Goto, Lock
<1>8. ASSUME NEW k \in CloseAlls, CloseClients(k) PROVE (Places /\ LockHeld)'
  BY <1>8 DEF CloseClients, Goto, ShutProducers, NoClients
<1>9. ASSUME NEW k \in CloseAlls, ForgetDefault(k) PROVE (Places /\ LockHeld)'
  BY <1>9 DEF ForgetDefault, Goto, Return, Unlock
<1>10. ASSUME NEW g \in Shutdowns, BeginShutdown(g) PROVE (Places /\ LockHeld)'
  BY <1>10 DEF BeginShutdown, Goto, Lock
<1>11. ASSUME NEW g \in Shutdowns, NEW c \in Registers, CloserBegins(g, c)
       PROVE  (Places /\ LockHeld)'
  BY <1>11 DEF CloserBegins, Move
<1>12. ASSUME NEW g \in Shutdowns, NEW c \in Registers, CloserSucceeds(g, c)
       PROVE  (Places /\ LockHeld)'
  BY <1>12 DEF CloserSucceeds, Move, ShutProducers
<1>13. ASSUME NEW g \in Shutdowns, NEW c \in Registers, CloserTimesOut(g, c)
       PROVE  (Places /\ LockHeld)'
  BY <1>13 DEF CloserTimesOut, Move, ShutProducers
<1>14. ASSUME NEW g \in Shutdowns, NEW c \in Registers, CloserFails(g, c)
       PROVE  (Places /\ LockHeld)'
  BY <1>14 DEF CloserFails, Move, ShutProducers
<1>15. ASSUME NEW g \in Shutdowns, NEW c \in Registers, CloserReports(g, c)
       PROVE  (Places /\ LockHeld)'
  BY <1>15 DEF CloserReports, Move, Room
<1>16. ASSUME NEW g \in Shutdowns, AllDone(g) PROVE (Places /\ LockHeld)'
  BY <1>16 DEF AllDone
<1>17. ASSUME NEW g \in Shutdowns, ReturnDone(g) PROVE (Places /\ LockHeld)'
  BY <1>17 DEF ReturnDone, Goto, Return, Unlock, NoClients
<1>18. ASSUME NEW g \in Shutdowns, ReturnExpired(g) PROVE (Places /\ LockHeld)'
  BY <1>18 DEF ReturnExpired, Goto, Return, Unlock
<1>19. ASSUME NEW g \in Shutdowns, ReturnError(g) PROVE (Places /\ LockHeld)'
  BY <1>19 DEF ReturnError, Goto, Return, Unlock
<1>20. ASSUME NEW c \in Managed, BeginManagerClose(c) PROVE (Places /\ LockHeld)'
  BY <1>20 DEF BeginManagerClose
<1>21. ASSUME NEW c \in Managed, ManagerCloses(c) PROVE (Places /\ LockHeld)'
  BY <1>21 DEF ManagerCloses, ShutProducers
<1>22. CASE UNCHANGED vars \/ \E u \in Users : UserAction(u)
  BY <1>22, UsersOnlyRead
<1> QED
  BY <1>1, <1>2, <1>3, <1>4, <1>5, <1>6, <1>7, <1>8, <1>9, <1>10, <1>11, <1>12, <1>13,
     <1>14, <1>15, <1>16, <1>17, <1>18, <1>19, <1>20, <1>21, <1>22
  DEF Next, RegisterStep, CloseAllStep, CloserStep, ShutdownStep, UserStep, UserAction

(* A free name stays free while its Register is under way. *)
LEMMA MapStep == IInv /\ [Next]_vars => MapInOrder'
<1> SUFFICES ASSUME IInv, [Next]_vars PROVE MapInOrder'
  OBVIOUS
<1> USE RegistryAssumption DEF IInv, TypeOK, RegistryInv, Writers, Calls, Names,
        registryVars, clientVars, shutdownVars, readerVars, Places, LockHeld,
        MapInOrder, Registered, NoClients
<1>1. ASSUME NEW r \in Registers, BeginRegister(r) PROVE MapInOrder'
  <2>1. UNCHANGED <<clients, defaultName>> /\ pc[r] = "idle"
    BY <1>1 DEF BeginRegister, Goto, Return
  <2>2. CASE clients[NameOf[r]] # NoClient
    <3>1. pc' = [pc EXCEPT ![r] = "done"]
      BY <1>1, <2>2 DEF BeginRegister, Goto, Return
    <3> QED
      BY <2>1, <3>1
  <2>3. CASE clients[NameOf[r]] = NoClient
    <3>1. pc' = [pc EXCEPT ![r] = "resolving"]
      BY <1>1, <2>3 DEF BeginRegister, Goto
    <3> QED
      BY <2>1, <2>3, <3>1
  <2> QED
    BY <2>2, <2>3
<1>2. ASSUME NEW r \in Registers, RegisterFails(r) PROVE MapInOrder'
  BY <1>2 DEF RegisterFails, Goto, Return, Unlock
<1>3. ASSUME NEW r \in Registers, StartProducer(r) PROVE MapInOrder'
  BY <1>3 DEF StartProducer, Goto
<1>4. ASSUME NEW r \in Registers, ConsumerFails(r) PROVE MapInOrder'
  BY <1>4 DEF ConsumerFails, Goto, Return, Unlock, ShutProducers
<1>5. ASSUME NEW r \in Registers, Publish(r) PROVE MapInOrder'
  <2>1. /\ pc[r] = "consuming" /\ clients' = [clients EXCEPT ![NameOf[r]] = r]
        /\ defaultName' = defaultName
        /\ \/ defaultName = NoName /\ pc' = [pc EXCEPT ![r] = "naming"]
           \/ pc' = [pc EXCEPT ![r] = "done"]
    BY <1>5 DEF Publish, Goto, Return
  <2>2. writer = r
    BY <2>1
  <2>3. \A n \in Names : clients'[n] # NoClient => NameOf[clients'[n]] = n
    BY <2>1
  <2>4. \A q \in Registers :
           /\ pc'[q] \in {"resolving", "consuming"} => clients'[NameOf[q]] = NoClient
           /\ q \in Registered' => pc'[q] \in {"naming", "done"}
           /\ pc'[q] = "naming" => q \in Registered' /\ defaultName' = NoName
    BY <2>1, <2>2
  <2>5. \A k \in CloseAlls : pc'[k] = "naming" => clients' = NoClients
    BY <2>1, <2>2
  <2> QED
    BY <2>3, <2>4, <2>5
<1>6. ASSUME NEW r \in Registers, NameDefault(r) PROVE MapInOrder'
  BY <1>6 DEF NameDefault, Goto, Return, Unlock
<1>7. ASSUME NEW k \in CloseAlls, BeginCloseAll(k) PROVE MapInOrder'
  BY <1>7 DEF BeginCloseAll, Goto, Lock
<1>8. ASSUME NEW k \in CloseAlls, CloseClients(k) PROVE MapInOrder'
  <2>1. /\ pc[k] = "closing" /\ pc' = [pc EXCEPT ![k] = "naming"]
        /\ clients' = NoClients /\ defaultName' = defaultName
    BY <1>8 DEF CloseClients, Goto
  <2>2. \A q \in Registers : pc'[q] = pc[q] /\ pc[q] \in {"idle", "done"}
    BY <2>1
  <2>3. \A n \in Names : clients'[n] = NoClient
    BY <2>1 DEF NoClients
  <2> QED
    BY <2>1, <2>2, <2>3
<1>9. ASSUME NEW k \in CloseAlls, ForgetDefault(k) PROVE MapInOrder'
  BY <1>9 DEF ForgetDefault, Goto, Return, Unlock
<1>10. ASSUME NEW g \in Shutdowns, BeginShutdown(g) PROVE MapInOrder'
  BY <1>10 DEF BeginShutdown, Goto, Lock
<1>11. ASSUME NEW g \in Shutdowns, NEW c \in Registers, CloserBegins(g, c) PROVE MapInOrder'
  BY <1>11 DEF CloserBegins, Move
<1>12. ASSUME NEW g \in Shutdowns, NEW c \in Registers, CloserSucceeds(g, c) PROVE MapInOrder'
  BY <1>12 DEF CloserSucceeds, Move, ShutProducers
<1>13. ASSUME NEW g \in Shutdowns, NEW c \in Registers, CloserTimesOut(g, c)
       PROVE  MapInOrder'
  BY <1>13 DEF CloserTimesOut, Move, ShutProducers
<1>14. ASSUME NEW g \in Shutdowns, NEW c \in Registers, CloserFails(g, c) PROVE MapInOrder'
  BY <1>14 DEF CloserFails, Move, ShutProducers
<1>15. ASSUME NEW g \in Shutdowns, NEW c \in Registers, CloserReports(g, c) PROVE MapInOrder'
  BY <1>15 DEF CloserReports, Move, Room
<1>16. ASSUME NEW g \in Shutdowns, AllDone(g) PROVE MapInOrder'
  BY <1>16 DEF AllDone
<1>17. ASSUME NEW g \in Shutdowns, ReturnDone(g) PROVE MapInOrder'
  BY <1>17 DEF ReturnDone, Goto, Return, Unlock, NoClients
<1>18. ASSUME NEW g \in Shutdowns, ReturnExpired(g) PROVE MapInOrder'
  BY <1>18 DEF ReturnExpired, Goto, Return, Unlock
<1>19. ASSUME NEW g \in Shutdowns, ReturnError(g) PROVE MapInOrder'
  BY <1>19 DEF ReturnError, Goto, Return, Unlock
<1>20. ASSUME NEW c \in Managed, BeginManagerClose(c) PROVE MapInOrder'
  BY <1>20 DEF BeginManagerClose
<1>21. ASSUME NEW c \in Managed, ManagerCloses(c) PROVE MapInOrder'
  BY <1>21 DEF ManagerCloses, ShutProducers
<1>22. CASE UNCHANGED vars \/ \E u \in Users : UserAction(u)
  BY <1>22, UsersOnlyRead
<1> QED
  BY <1>1, <1>2, <1>3, <1>4, <1>5, <1>6, <1>7, <1>8, <1>9, <1>10, <1>11, <1>12, <1>13,
     <1>14, <1>15, <1>16, <1>17, <1>18, <1>19, <1>20, <1>21, <1>22
  DEF Next, RegisterStep, CloseAllStep, CloserStep, ShutdownStep, UserStep, UserAction

(* No producer loses the place that will shut it down. *)
LEMMA OrphanStep == IInv /\ [Next]_vars => NothingOrphaned'
<1> SUFFICES ASSUME IInv, [Next]_vars PROVE NothingOrphaned'
  OBVIOUS
<1> USE RegistryAssumption DEF IInv, TypeOK, RegistryInv, Writers, Calls, Names,
        registryVars, clientVars, shutdownVars, readerVars, Places, LockHeld,
        MapInOrder, NothingOrphaned, Registered, NoClients, CloserInv, ClosersInOrder,
        Targets, Counted
<1>1. ASSUME NEW r \in Registers, BeginRegister(r) PROVE NothingOrphaned'
  BY <1>1 DEF BeginRegister, Goto, Return, Lock
<1>2. ASSUME NEW r \in Registers, RegisterFails(r) PROVE NothingOrphaned'
  BY <1>2 DEF RegisterFails, Goto, Return, Unlock
<1>3. ASSUME NEW r \in Registers, StartProducer(r) PROVE NothingOrphaned'
  BY <1>3 DEF StartProducer, Goto
<1>4. ASSUME NEW r \in Registers, ConsumerFails(r) PROVE NothingOrphaned'
  BY <1>4 DEF ConsumerFails, Goto, Return, Unlock, ShutProducers
<1>5. ASSUME NEW r \in Registers, Publish(r) PROVE NothingOrphaned'
  BY <1>5 DEF Publish, Goto, Return, Unlock
<1>6. ASSUME NEW r \in Registers, NameDefault(r) PROVE NothingOrphaned'
  BY <1>6 DEF NameDefault, Goto, Return, Unlock
<1>7. ASSUME NEW k \in CloseAlls, BeginCloseAll(k) PROVE NothingOrphaned'
  BY <1>7 DEF BeginCloseAll, Goto, Lock
<1>8. ASSUME NEW k \in CloseAlls, CloseClients(k) PROVE NothingOrphaned'
  BY <1>8 DEF CloseClients, Goto, ShutProducers, NoClients
<1>9. ASSUME NEW k \in CloseAlls, ForgetDefault(k) PROVE NothingOrphaned'
  BY <1>9 DEF ForgetDefault, Goto, Return, Unlock
<1>10. ASSUME NEW g \in Shutdowns, BeginShutdown(g) PROVE NothingOrphaned'
  BY <1>10 DEF BeginShutdown, Goto, Lock
<1>11. ASSUME NEW g \in Shutdowns, NEW c \in Registers, CloserBegins(g, c)
       PROVE  NothingOrphaned'
  BY <1>11 DEF CloserBegins, Move
<1>12. ASSUME NEW g \in Shutdowns, NEW c \in Registers, CloserSucceeds(g, c)
       PROVE  NothingOrphaned'
  BY <1>12 DEF CloserSucceeds, Move, ShutProducers
<1>13. ASSUME NEW g \in Shutdowns, NEW c \in Registers, CloserTimesOut(g, c)
       PROVE  NothingOrphaned'
  BY <1>13 DEF CloserTimesOut, Move, ShutProducers
<1>14. ASSUME NEW g \in Shutdowns, NEW c \in Registers, CloserFails(g, c)
       PROVE  NothingOrphaned'
  BY <1>14 DEF CloserFails, Move, ShutProducers
<1>15. ASSUME NEW g \in Shutdowns, NEW c \in Registers, CloserReports(g, c)
       PROVE  NothingOrphaned'
  BY <1>15 DEF CloserReports, Move, Room
<1>16. ASSUME NEW g \in Shutdowns, AllDone(g) PROVE NothingOrphaned'
  BY <1>16 DEF AllDone
<1>17. ASSUME NEW g \in Shutdowns, ReturnDone(g) PROVE NothingOrphaned'
  BY <1>17 DEF ReturnDone, Goto, Return, Unlock, NoClients
<1>18. ASSUME NEW g \in Shutdowns, ReturnExpired(g) PROVE NothingOrphaned'
  BY <1>18 DEF ReturnExpired, Goto, Return, Unlock
<1>19. ASSUME NEW g \in Shutdowns, ReturnError(g) PROVE NothingOrphaned'
  BY <1>19 DEF ReturnError, Goto, Return, Unlock
<1>20. ASSUME NEW c \in Managed, BeginManagerClose(c) PROVE NothingOrphaned'
  BY <1>20 DEF BeginManagerClose
<1>21. ASSUME NEW c \in Managed, ManagerCloses(c) PROVE NothingOrphaned'
  BY <1>21 DEF ManagerCloses, ShutProducers
<1>22. CASE UNCHANGED vars \/ \E u \in Users : UserAction(u)
  BY <1>22, UsersOnlyRead
<1> QED
  BY <1>1, <1>2, <1>3, <1>4, <1>5, <1>6, <1>7, <1>8, <1>9, <1>10, <1>11, <1>12, <1>13,
     <1>14, <1>15, <1>16, <1>17, <1>18, <1>19, <1>20, <1>21, <1>22
  DEF Next, RegisterStep, CloseAllStep, CloserStep, ShutdownStep, UserStep, UserAction

(* defaultName is set with the first client and erased with the last. *)
LEMMA DefaultStep == IInv /\ [Next]_vars => DefaultInOrder'
<1> SUFFICES ASSUME IInv, [Next]_vars PROVE DefaultInOrder'
  OBVIOUS
<1> USE RegistryAssumption DEF IInv, TypeOK, RegistryInv, Writers, Calls, Names,
        registryVars, clientVars, shutdownVars, readerVars, Places, LockHeld,
        MapInOrder, DefaultInOrder, Registered, NoClients
<1>1. ASSUME NEW r \in Registers, BeginRegister(r) PROVE DefaultInOrder'
  BY <1>1 DEF BeginRegister, Goto, Return, Lock
<1>2. ASSUME NEW r \in Registers, RegisterFails(r) PROVE DefaultInOrder'
  BY <1>2 DEF RegisterFails, Goto, Return, Unlock
<1>3. ASSUME NEW r \in Registers, StartProducer(r) PROVE DefaultInOrder'
  BY <1>3 DEF StartProducer, Goto
<1>4. ASSUME NEW r \in Registers, ConsumerFails(r) PROVE DefaultInOrder'
  BY <1>4 DEF ConsumerFails, Goto, Return, Unlock, ShutProducers
<1>5. ASSUME NEW r \in Registers, Publish(r) PROVE DefaultInOrder'
  BY <1>5 DEF Publish, Goto, Return, Unlock
<1>6. ASSUME NEW r \in Registers, NameDefault(r) PROVE DefaultInOrder'
  BY <1>6 DEF NameDefault, Goto, Return, Unlock
<1>7. ASSUME NEW k \in CloseAlls, BeginCloseAll(k) PROVE DefaultInOrder'
  BY <1>7 DEF BeginCloseAll, Goto, Lock
<1>8. ASSUME NEW k \in CloseAlls, CloseClients(k) PROVE DefaultInOrder'
  BY <1>8 DEF CloseClients, Goto, ShutProducers, NoClients
<1>9. ASSUME NEW k \in CloseAlls, ForgetDefault(k) PROVE DefaultInOrder'
  BY <1>9 DEF ForgetDefault, Goto, Return, Unlock
<1>10. ASSUME NEW g \in Shutdowns, BeginShutdown(g) PROVE DefaultInOrder'
  BY <1>10 DEF BeginShutdown, Goto, Lock
<1>11. ASSUME NEW g \in Shutdowns, NEW c \in Registers, CloserBegins(g, c)
       PROVE  DefaultInOrder'
  BY <1>11 DEF CloserBegins, Move
<1>12. ASSUME NEW g \in Shutdowns, NEW c \in Registers, CloserSucceeds(g, c)
       PROVE  DefaultInOrder'
  BY <1>12 DEF CloserSucceeds, Move, ShutProducers
<1>13. ASSUME NEW g \in Shutdowns, NEW c \in Registers, CloserTimesOut(g, c)
       PROVE  DefaultInOrder'
  BY <1>13 DEF CloserTimesOut, Move, ShutProducers
<1>14. ASSUME NEW g \in Shutdowns, NEW c \in Registers, CloserFails(g, c) PROVE DefaultInOrder'
  BY <1>14 DEF CloserFails, Move, ShutProducers
<1>15. ASSUME NEW g \in Shutdowns, NEW c \in Registers, CloserReports(g, c)
       PROVE  DefaultInOrder'
  BY <1>15 DEF CloserReports, Move, Room
<1>16. ASSUME NEW g \in Shutdowns, AllDone(g) PROVE DefaultInOrder'
  BY <1>16 DEF AllDone
<1>17. ASSUME NEW g \in Shutdowns, ReturnDone(g) PROVE DefaultInOrder'
  BY <1>17 DEF ReturnDone, Goto, Return, Unlock, NoClients
<1>18. ASSUME NEW g \in Shutdowns, ReturnExpired(g) PROVE DefaultInOrder'
  <2>1. ret[g] # "nil"
    BY <1>18 DEF ReturnExpired, Goto, Return, CloserInv, ClosersInOrder
  <2> QED
    BY <1>18, <2>1 DEF ReturnExpired, Goto, Return, Unlock
<1>19. ASSUME NEW g \in Shutdowns, ReturnError(g) PROVE DefaultInOrder'
  <2>1. ret[g] # "nil"
    BY <1>19 DEF ReturnError, Goto, Return, CloserInv, ClosersInOrder
  <2> QED
    BY <1>19, <2>1 DEF ReturnError, Goto, Return, Unlock
<1>20. ASSUME NEW c \in Managed, BeginManagerClose(c) PROVE DefaultInOrder'
  BY <1>20 DEF BeginManagerClose
<1>21. ASSUME NEW c \in Managed, ManagerCloses(c) PROVE DefaultInOrder'
  BY <1>21 DEF ManagerCloses, ShutProducers
<1>22. CASE UNCHANGED vars \/ \E u \in Users : UserAction(u)
  BY <1>22, UsersOnlyRead
<1> QED
  BY <1>1, <1>2, <1>3, <1>4, <1>5, <1>6, <1>7, <1>8, <1>9, <1>10, <1>11, <1>12, <1>13,
     <1>14, <1>15, <1>16, <1>17, <1>18, <1>19, <1>20, <1>21, <1>22
  DEF Next, RegisterStep, CloseAllStep, CloserStep, ShutdownStep, UserStep, UserAction

(* The goroutines of a GracefulShutdown do not outlive its nil. *)
LEMMA ClosersStep == IInv /\ [Next]_vars => ClosersInOrder'
<1> SUFFICES ASSUME IInv, [Next]_vars PROVE ClosersInOrder'
  OBVIOUS
<1> USE RegistryAssumption DEF IInv, TypeOK, RegistryInv, Writers, Calls, Names,
        registryVars, clientVars, shutdownVars, readerVars, Places, LockHeld,
        MapInOrder, Registered, NoClients, CloserInv, ClosersInOrder, ManagersInOrder,
        Targets, Counted
<1>1. ASSUME NEW r \in Registers, BeginRegister(r) PROVE ClosersInOrder'
  BY <1>1 DEF BeginRegister, Goto, Return, Lock
<1>2. ASSUME NEW r \in Registers, RegisterFails(r) PROVE ClosersInOrder'
  BY <1>2 DEF RegisterFails, Goto, Return, Unlock
<1>3. ASSUME NEW r \in Registers, StartProducer(r) PROVE ClosersInOrder'
  BY <1>3 DEF StartProducer, Goto
<1>4. ASSUME NEW r \in Registers, ConsumerFails(r) PROVE ClosersInOrder'
  BY <1>4 DEF ConsumerFails, Goto, Return, Unlock, ShutProducers
<1>5. ASSUME NEW r \in Registers, Publish(r) PROVE ClosersInOrder'
  BY <1>5 DEF Publish, Goto, Return, Unlock
<1>6. ASSUME NEW r \in Registers, NameDefault(r) PROVE ClosersInOrder'
  BY <1>6 DEF NameDefault, Goto, Return, Unlock
<1>7. ASSUME NEW k \in CloseAlls, BeginCloseAll(k) PROVE ClosersInOrder'
  BY <1>7 DEF BeginCloseAll, Goto, Lock
<1>8. ASSUME NEW k \in CloseAlls, CloseClients(k) PROVE ClosersInOrder'
  BY <1>8 DEF CloseClients, Goto, ShutProducers, NoClients
<1>9. ASSUME NEW k \in CloseAlls, ForgetDefault(k) PROVE ClosersInOrder'
  BY <1>9 DEF ForgetDefault, Goto, Return, Unlock
<1>10. ASSUME NEW g \in Shutdowns, BeginShutdown(g) PROVE ClosersInOrder'
  <2>1. /\ pc[g] = "idle" /\ pc' = [pc EXCEPT ![g] = "selecting"] /\ writer = Nobody
        /\ closer' = [closer EXCEPT ![g] =
                        [c \in Registers |-> IF c \in Registered THEN "spawned" ELSE "none"]]
        /\ UNCHANGED <<registryVars, ret, clientVars, errs, done>>
    BY <1>10 DEF BeginShutdown, Goto, Lock
  <2>2. g \notin done /\ ret[g] = "none"
    BY <2>1
  <2>3. \A h \in Shutdowns \ {g} : closer'[h] = closer[h] /\ pc'[h] = pc[h]
    BY <2>1
  <2>4. \A c \in Registers :
           /\ closer'[g][c] = IF c \in Registered THEN "spawned" ELSE "none"
           /\ c \in Registered => pc[c] = "done"
           /\ pc'[c] = pc[c]
    BY <2>1
  <2>5. \A h \in Shutdowns \ {g} : Targets(h)' = Targets(h) /\ Counted(h)' = Counted(h)
    BY <2>3
  <2>6. Targets(g)' = Registered
    BY <2>4
  <2>7. ASSUME NEW h \in Shutdowns, h # g
        PROVE  /\ pc'[h] = "idle" => Targets(h)' = {}
               /\ pc'[h] = "selecting" => Registered' \subseteq Targets(h)'
               /\ pc'[h] = "done" => ret'[h] \in {"nil", "error"}
               /\ \A c \in Targets(h)' : pc'[c] = "done"
               /\ \A c \in Registers :
                     /\ closer'[h][c] \in {"reporting", "failed"} => producer'[c] # "running"
                     /\ closer'[h][c] = "closed" => producer'[c] = "shut" /\ consumer'[c] = "shut"
                     /\ closer'[h][c] \notin {"none", "spawned"} => c \in rejecting'
               /\ h \in done' => pc'[h] # "idle" /\ Counted(h)' = {}
               /\ ret'[h] # "none" => pc'[h] = "done"
               /\ ret'[h] = "nil" => h \in done'
    BY <2>1, <2>3, <2>4, <2>5, <2>7
  <2>8. /\ pc'[g] = "selecting" /\ Registered' = Registered
        /\ \A c \in Registers : closer'[g][c] \in {"none", "spawned"}
        /\ g \notin done' /\ ret'[g] = "none"
    BY <2>1, <2>2, <2>4
  <2>9. \A c \in Targets(g)' : pc'[c] = "done"
    BY <2>4, <2>6
  <2>10. Registered' \subseteq Targets(g)'
    BY <2>6, <2>8
  <2> QED
    BY ONLY <2>7, <2>8, <2>9, <2>10 DEF ClosersInOrder
<1>11. ASSUME NEW g \in Shutdowns, NEW c \in Registers, CloserBegins(g, c)
       PROVE  ClosersInOrder'
  BY <1>11 DEF CloserBegins, Move
<1>12. ASSUME NEW g \in Shutdowns, NEW c \in Registers, CloserSucceeds(g, c)
       PROVE  ClosersInOrder'
  BY <1>12 DEF CloserSucceeds, Move, ShutProducers
<1>13. ASSUME NEW g \in Shutdowns, NEW c \in Registers, CloserTimesOut(g, c)
       PROVE  ClosersInOrder'
  BY <1>13 DEF CloserTimesOut, Move, ShutProducers
<1>14. ASSUME NEW g \in Shutdowns, NEW c \in Registers, CloserFails(g, c) PROVE ClosersInOrder'
  BY <1>14 DEF CloserFails, Move, ShutProducers
<1>15. ASSUME NEW g \in Shutdowns, NEW c \in Registers, CloserReports(g, c)
       PROVE  ClosersInOrder'
  BY <1>15 DEF CloserReports, Move, Room
<1>16. ASSUME NEW g \in Shutdowns, AllDone(g) PROVE ClosersInOrder'
  BY <1>16 DEF AllDone
<1>17. ASSUME NEW g \in Shutdowns, ReturnDone(g) PROVE ClosersInOrder'
  BY <1>17 DEF ReturnDone, Goto, Return, Unlock, NoClients
<1>18. ASSUME NEW g \in Shutdowns, ReturnExpired(g) PROVE ClosersInOrder'
  BY <1>18 DEF ReturnExpired, Goto, Return, Unlock
<1>19. ASSUME NEW g \in Shutdowns, ReturnError(g) PROVE ClosersInOrder'
  BY <1>19 DEF ReturnError, Goto, Return, Unlock
<1>20. ASSUME NEW c \in Managed, BeginManagerClose(c) PROVE ClosersInOrder'
  BY <1>20 DEF BeginManagerClose
<1>21. ASSUME NEW c \in Managed, ManagerCloses(c) PROVE ClosersInOrder'
  BY <1>21 DEF ManagerCloses, ShutProducers
<1>22. CASE UNCHANGED vars \/ \E u \in Users : UserAction(u)
  BY <1>22, UsersOnlyRead
<1> QED
  BY <1>1, <1>2, <1>3, <1>4, <1>5, <1>6, <1>7, <1>8, <1>9, <1>10, <1>11, <1>12, <1>13,
     <1>14, <1>15, <1>16, <1>17, <1>18, <1>19, <1>20, <1>21, <1>22
  DEF Next, RegisterStep, CloseAllStep, CloserStep, ShutdownStep, UserStep, UserAction

(* What has been closed for good stays so. *)
LEMMA TargetStep == IInv /\ [Next]_vars => (RejectingIsTarget /\ NilIsFinal)'
<1> SUFFICES ASSUME IInv, [Next]_vars PROVE (RejectingIsTarget /\ NilIsFinal)'
  OBVIOUS
<1> USE RegistryAssumption DEF IInv, TypeOK, RegistryInv, Writers, Calls, Names,
        registryVars, clientVars, shutdownVars, readerVars, Places, LockHeld,
        MapInOrder, Registered, NoClients, CloserInv, ClosersInOrder, ManagersInOrder, RejectingIsTarget,
        NilIsFinal, Targets, Counted
<1>1. ASSUME NEW r \in Registers, BeginRegister(r)
      PROVE  (RejectingIsTarget /\ NilIsFinal)'
  BY <1>1 DEF BeginRegister, Goto, Return, Lock
<1>2. ASSUME NEW r \in Registers, RegisterFails(r)
      PROVE  (RejectingIsTarget /\ NilIsFinal)'
  BY <1>2 DEF RegisterFails, Goto, Return, Unlock
<1>3. ASSUME NEW r \in Registers, StartProducer(r)
      PROVE  (RejectingIsTarget /\ NilIsFinal)'
  BY <1>3 DEF StartProducer, Goto
<1>4. ASSUME NEW r \in Registers, ConsumerFails(r)
      PROVE  (RejectingIsTarget /\ NilIsFinal)'
  BY <1>4 DEF ConsumerFails, Goto, Return, Unlock, ShutProducers
<1>5. ASSUME NEW r \in Registers, Publish(r) PROVE (RejectingIsTarget /\ NilIsFinal)'
  BY <1>5 DEF Publish, Goto, Return, Unlock
<1>6. ASSUME NEW r \in Registers, NameDefault(r) PROVE (RejectingIsTarget /\ NilIsFinal)'
  BY <1>6 DEF NameDefault, Goto, Return, Unlock
<1>7. ASSUME NEW k \in CloseAlls, BeginCloseAll(k)
      PROVE  (RejectingIsTarget /\ NilIsFinal)'
  BY <1>7 DEF BeginCloseAll, Goto, Lock
<1>8. ASSUME NEW k \in CloseAlls, CloseClients(k)
      PROVE  (RejectingIsTarget /\ NilIsFinal)'
  BY <1>8 DEF CloseClients, Goto, ShutProducers, NoClients
<1>9. ASSUME NEW k \in CloseAlls, ForgetDefault(k)
       PROVE  (RejectingIsTarget /\ NilIsFinal)'
  BY <1>9 DEF ForgetDefault, Goto, Return, Unlock
<1>10. ASSUME NEW g \in Shutdowns, BeginShutdown(g)
       PROVE  (RejectingIsTarget /\ NilIsFinal)'
  BY <1>10 DEF BeginShutdown, Goto, Lock
<1>11. ASSUME NEW g \in Shutdowns, NEW c \in Registers, CloserBegins(g, c)
       PROVE  (RejectingIsTarget /\ NilIsFinal)'
  BY <1>11 DEF CloserBegins, Move
<1>12. ASSUME NEW g \in Shutdowns, NEW c \in Registers, CloserSucceeds(g, c)
       PROVE  (RejectingIsTarget /\ NilIsFinal)'
  BY <1>12 DEF CloserSucceeds, Move, ShutProducers
<1>13. ASSUME NEW g \in Shutdowns, NEW c \in Registers, CloserTimesOut(g, c)
       PROVE  (RejectingIsTarget /\ NilIsFinal)'
  BY <1>13 DEF CloserTimesOut, Move, ShutProducers
<1>14. ASSUME NEW g \in Shutdowns, NEW c \in Registers, CloserFails(g, c)
       PROVE  (RejectingIsTarget /\ NilIsFinal)'
  BY <1>14 DEF CloserFails, Move, ShutProducers
<1>15. ASSUME NEW g \in Shutdowns, NEW c \in Registers, CloserReports(g, c)
       PROVE  (RejectingIsTarget /\ NilIsFinal)'
  BY <1>15 DEF CloserReports, Move, Room
<1>16. ASSUME NEW g \in Shutdowns, AllDone(g) PROVE (RejectingIsTarget /\ NilIsFinal)'
  BY <1>16 DEF AllDone
<1>17. ASSUME NEW g \in Shutdowns, ReturnDone(g) PROVE (RejectingIsTarget /\ NilIsFinal)'
  BY <1>17 DEF ReturnDone, Goto, Return, Unlock, NoClients
<1>18. ASSUME NEW g \in Shutdowns, ReturnExpired(g)
       PROVE  (RejectingIsTarget /\ NilIsFinal)'
  BY <1>18 DEF ReturnExpired, Goto, Return, Unlock
<1>19. ASSUME NEW g \in Shutdowns, ReturnError(g)
       PROVE  (RejectingIsTarget /\ NilIsFinal)'
  BY <1>19 DEF ReturnError, Goto, Return, Unlock
<1>20. ASSUME NEW c \in Managed, BeginManagerClose(c) PROVE (RejectingIsTarget /\ NilIsFinal)'
  BY <1>20 DEF BeginManagerClose
<1>21. ASSUME NEW c \in Managed, ManagerCloses(c) PROVE (RejectingIsTarget /\ NilIsFinal)'
  BY <1>21 DEF ManagerCloses, ShutProducers
<1>22. CASE UNCHANGED vars \/ \E u \in Users : UserAction(u)
  BY <1>22, UsersOnlyRead
<1> QED
  BY <1>1, <1>2, <1>3, <1>4, <1>5, <1>6, <1>7, <1>8, <1>9, <1>10, <1>11, <1>12, <1>13,
     <1>14, <1>15, <1>16, <1>17, <1>18, <1>19, <1>20, <1>21, <1>22
  DEF Next, RegisterStep, CloseAllStep, CloserStep, ShutdownStep, UserStep, UserAction

(* A client its MessageManager closes has been told to turn messages away. *)
LEMMA ManagersStep == IInv /\ [Next]_vars => ManagersInOrder'
<1> SUFFICES ASSUME IInv, [Next]_vars PROVE ManagersInOrder'
  OBVIOUS
<1> USE RegistryAssumption DEF IInv, TypeOK, RegistryInv, Writers, Calls, Names,
        registryVars, clientVars, shutdownVars, readerVars, Places, LockHeld,
        MapInOrder, Registered, NoClients, CloserInv, ClosersInOrder, ManagersInOrder, Targets
<1>1. ASSUME NEW r \in Registers, BeginRegister(r)
      PROVE  ManagersInOrder'
  <2>1. CASE clients[NameOf[r]] # NoClient
    <3>1. /\ pc[r] = "idle" /\ pc' = [pc EXCEPT ![r] = "done"]
          /\ ret' = [ret EXCEPT ![r] = "error"] /\ writer' = writer
      BY <1>1, <2>1 DEF BeginRegister, Goto, Return
    <3> QED
      BY <1>1, <3>1 DEF BeginRegister
  <2>2. CASE clients[NameOf[r]] = NoClient
    <3>1. /\ pc[r] = "idle" /\ pc' = [pc EXCEPT ![r] = "resolving"]
          /\ ret' = ret /\ writer = Nobody /\ writer' = r
      BY <1>1, <2>2 DEF BeginRegister, Goto, Lock
    <3> QED
      BY <1>1, <3>1 DEF BeginRegister
  <2> QED
    BY <2>1, <2>2
<1>2. ASSUME NEW r \in Registers, RegisterFails(r)
      PROVE  ManagersInOrder'
  BY <1>2 DEF RegisterFails, Goto, Return, Unlock
<1>3. ASSUME NEW r \in Registers, StartProducer(r)
      PROVE  ManagersInOrder'
  BY <1>3 DEF StartProducer, Goto
<1>4. ASSUME NEW r \in Registers, ConsumerFails(r)
      PROVE  ManagersInOrder'
  BY <1>4 DEF ConsumerFails, Goto, Return, Unlock, ShutProducers
<1>5. ASSUME NEW r \in Registers, Publish(r) PROVE ManagersInOrder'
  BY <1>5 DEF Publish, Goto, Return, Unlock
<1>6. ASSUME NEW r \in Registers, NameDefault(r) PROVE ManagersInOrder'
  BY <1>6 DEF NameDefault, Goto, Return, Unlock
<1>7. ASSUME NEW k \in CloseAlls, BeginCloseAll(k)
      PROVE  ManagersInOrder'
  BY <1>7 DEF BeginCloseAll, Goto, Lock
<1>8. ASSUME NEW k \in CloseAlls, CloseClients(k)
      PROVE  ManagersInOrder'
  BY <1>8 DEF CloseClients, Goto, ShutProducers, NoClients
<1>9. ASSUME NEW k \in CloseAlls, ForgetDefault(k)
       PROVE  ManagersInOrder'
  BY <1>9 DEF ForgetDefault, Goto, Return, Unlock
<1>10. ASSUME NEW g \in Shutdowns, BeginShutdown(g)
       PROVE  ManagersInOrder'
  BY <1>10 DEF BeginShutdown, Goto, Lock
<1>11. ASSUME NEW g \in Shutdowns, NEW c \in Registers, CloserBegins(g, c)
       PROVE  ManagersInOrder'
  BY <1>11 DEF CloserBegins, Move
<1>12. ASSUME NEW g \in Shutdowns, NEW c \in Registers, CloserSucceeds(g, c)
       PROVE  ManagersInOrder'
  BY <1>12 DEF CloserSucceeds, Move, ShutProducers
<1>13. ASSUME NEW g \in Shutdowns, NEW c \in Registers, CloserTimesOut(g, c)
       PROVE  ManagersInOrder'
  BY <1>13 DEF CloserTimesOut, Move, ShutProducers
<1>14. ASSUME NEW g \in Shutdowns, NEW c \in Registers, CloserFails(g, c)
       PROVE  ManagersInOrder'
  BY <1>14 DEF CloserFails, Move, ShutProducers
<1>15. ASSUME NEW g \in Shutdowns, NEW c \in Registers, CloserReports(g, c)
       PROVE  ManagersInOrder'
  BY <1>15 DEF CloserReports, Move, Room
<1>16. ASSUME NEW g \in Shutdowns, AllDone(g) PROVE ManagersInOrder'
  BY <1>16 DEF AllDone
<1>17. ASSUME NEW g \in Shutdowns, ReturnDone(g) PROVE ManagersInOrder'
  BY <1>17 DEF ReturnDone, Goto, Return, Unlock, NoClients
<1>18. ASSUME NEW g \in Shutdowns, ReturnExpired(g)
       PROVE  ManagersInOrder'
  BY <1>18 DEF ReturnExpired, Goto, Return, Unlock
<1>19. ASSUME NEW g \in Shutdowns, ReturnError(g)
       PROVE  ManagersInOrder'
  BY <1>19 DEF ReturnError, Goto, Return, Unlock
<1>20. ASSUME NEW c \in Managed, BeginManagerClose(c) PROVE ManagersInOrder'
  BY <1>20 DEF BeginManagerClose
<1>21. ASSUME NEW c \in Managed, ManagerCloses(c) PROVE ManagersInOrder'
  BY <1>21 DEF ManagerCloses, ShutProducers
<1>22. CASE UNCHANGED vars \/ \E u \in Users : UserAction(u)
  BY <1>22, UsersOnlyRead
<1> QED
  BY <1>1, <1>2, <1>3, <1>4, <1>5, <1>6, <1>7, <1>8, <1>9, <1>10, <1>11, <1>12, <1>13,
     <1>14, <1>15, <1>16, <1>17, <1>18, <1>19, <1>20, <1>21, <1>22
  DEF Next, RegisterStep, CloseAllStep, CloserStep, ShutdownStep, UserStep, UserAction

(* A producer in the map is shut down when its client turns messages away. *)
LEMMA StoppedStep == IInv /\ [Next]_vars => StoppedIsRejecting'
<1> SUFFICES ASSUME IInv, [Next]_vars PROVE StoppedIsRejecting'
  OBVIOUS
<1> USE RegistryAssumption DEF IInv, TypeOK, RegistryInv, Writers, Calls, Names,
        registryVars, clientVars, shutdownVars, readerVars, Places, LockHeld,
        MapInOrder, Registered, NoClients, CloserInv, ClosersInOrder, ManagersInOrder, StoppedIsRejecting,
        Targets
<1>1. ASSUME NEW r \in Registers, BeginRegister(r)
      PROVE  StoppedIsRejecting'
  BY <1>1 DEF BeginRegister, Goto, Return, Lock
<1>2. ASSUME NEW r \in Registers, RegisterFails(r)
      PROVE  StoppedIsRejecting'
  BY <1>2 DEF RegisterFails, Goto, Return, Unlock
<1>3. ASSUME NEW r \in Registers, StartProducer(r)
      PROVE  StoppedIsRejecting'
  BY <1>3 DEF StartProducer, Goto
<1>4. ASSUME NEW r \in Registers, ConsumerFails(r)
      PROVE  StoppedIsRejecting'
  BY <1>4 DEF ConsumerFails, Goto, Return, Unlock, ShutProducers
<1>5. ASSUME NEW r \in Registers, Publish(r) PROVE StoppedIsRejecting'
  BY <1>5 DEF Publish, Goto, Return, Unlock
<1>6. ASSUME NEW r \in Registers, NameDefault(r) PROVE StoppedIsRejecting'
  BY <1>6 DEF NameDefault, Goto, Return, Unlock
<1>7. ASSUME NEW k \in CloseAlls, BeginCloseAll(k)
      PROVE  StoppedIsRejecting'
  BY <1>7 DEF BeginCloseAll, Goto, Lock
<1>8. ASSUME NEW k \in CloseAlls, CloseClients(k)
      PROVE  StoppedIsRejecting'
  BY <1>8 DEF CloseClients, Goto, ShutProducers, NoClients
<1>9. ASSUME NEW k \in CloseAlls, ForgetDefault(k)
       PROVE  StoppedIsRejecting'
  BY <1>9 DEF ForgetDefault, Goto, Return, Unlock
<1>10. ASSUME NEW g \in Shutdowns, BeginShutdown(g)
       PROVE  StoppedIsRejecting'
  BY <1>10 DEF BeginShutdown, Goto, Lock
<1>11. ASSUME NEW g \in Shutdowns, NEW c \in Registers, CloserBegins(g, c)
       PROVE  StoppedIsRejecting'
  BY <1>11 DEF CloserBegins, Move
<1>12. ASSUME NEW g \in Shutdowns, NEW c \in Registers, CloserSucceeds(g, c)
       PROVE  StoppedIsRejecting'
  BY <1>12 DEF CloserSucceeds, Move, ShutProducers
<1>13. ASSUME NEW g \in Shutdowns, NEW c \in Registers, CloserTimesOut(g, c)
       PROVE  StoppedIsRejecting'
  BY <1>13 DEF CloserTimesOut, Move, ShutProducers
<1>14. ASSUME NEW g \in Shutdowns, NEW c \in Registers, CloserFails(g, c)
       PROVE  StoppedIsRejecting'
  BY <1>14 DEF CloserFails, Move, ShutProducers
<1>15. ASSUME NEW g \in Shutdowns, NEW c \in Registers, CloserReports(g, c)
       PROVE  StoppedIsRejecting'
  BY <1>15 DEF CloserReports, Move, Room
<1>16. ASSUME NEW g \in Shutdowns, AllDone(g) PROVE StoppedIsRejecting'
  BY <1>16 DEF AllDone
<1>17. ASSUME NEW g \in Shutdowns, ReturnDone(g) PROVE StoppedIsRejecting'
  BY <1>17 DEF ReturnDone, Goto, Return, Unlock, NoClients
<1>18. ASSUME NEW g \in Shutdowns, ReturnExpired(g)
       PROVE  StoppedIsRejecting'
  BY <1>18 DEF ReturnExpired, Goto, Return, Unlock
<1>19. ASSUME NEW g \in Shutdowns, ReturnError(g)
       PROVE  StoppedIsRejecting'
  BY <1>19 DEF ReturnError, Goto, Return, Unlock
<1>20. ASSUME NEW c \in Managed, BeginManagerClose(c) PROVE StoppedIsRejecting'
  BY <1>20 DEF BeginManagerClose
<1>21. ASSUME NEW c \in Managed, ManagerCloses(c) PROVE StoppedIsRejecting'
  BY <1>21 DEF ManagerCloses, ShutProducers
<1>22. CASE UNCHANGED vars \/ \E u \in Users : UserAction(u)
  BY <1>22, UsersOnlyRead
<1> QED
  BY <1>1, <1>2, <1>3, <1>4, <1>5, <1>6, <1>7, <1>8, <1>9, <1>10, <1>11, <1>12, <1>13,
     <1>14, <1>15, <1>16, <1>17, <1>18, <1>19, <1>20, <1>21, <1>22
  DEF Next, RegisterStep, CloseAllStep, CloserStep, ShutdownStep, UserStep, UserAction

(* IInv holds in every reachable state: no theorem below needs more. *)
THEOREM RegistryInvariant == Spec => []IInv
<1>1. Init => IInv
  <2> SUFFICES ASSUME Init PROVE IInv
    OBVIOUS
  <2>1. TypeOK
    <3>1. errs \in [Shutdowns -> 0..Cardinality(Registers)]
      BY TargetsFinite, RegistryAssumption, FS_CardinalityType DEF Init
    <3> QED
      BY <3>1, RegistryAssumption DEF Init, TypeOK, Names, Writers, Calls
  <2>2. \A n \in Names : clients[n] = NoClient
    BY DEF Init
  <2>3. \A g \in Shutdowns : Targets(g) = {}
    BY DEF Init, Targets
  <2>4. Registered = {}
    BY <2>2, RegistryAssumption DEF Registered, Names
  <2>5. RegistryInv
    BY <2>2, <2>4, RegistryAssumption DEF Init, RegistryInv, Places, LockHeld, MapInOrder,
       DefaultInOrder, NothingOrphaned, Writers, Calls
  <2>6. CloserInv
    BY <2>3, <2>4, RegistryAssumption DEF Init, CloserInv, ClosersInOrder, ManagersInOrder,
       StoppedIsRejecting, RejectingIsTarget, NilIsFinal, Writers, Calls
  <2> QED
    BY <2>1, <2>5, <2>6 DEF IInv
<1>2. IInv /\ [Next]_vars => IInv'
  BY TypeStep, LockStep, MapStep, OrphanStep, DefaultStep, ClosersStep, TargetStep,
     ManagersStep, StoppedStep
  DEF IInv, RegistryInv, CloserInv
<1> QED
  BY <1>1, <1>2, PTL DEF Spec

-----------------------------------------------------------------------------
(* Each variable keeps its type; in particular errCh never overflows. *)
THEOREM RegistryTypeCorrect == Spec => []TypeOK
<1>1. IInv => TypeOK
  BY DEF IInv
<1> QED
  BY RegistryInvariant, <1>1, PTL

(* Every running producer is in the map or belongs to a Register under way. *)
THEOREM RegistryOrphansNothing == Spec => []NothingOrphaned
<1>1. IInv => NothingOrphaned
  BY DEF IInv, RegistryInv
<1> QED
  BY RegistryInvariant, <1>1, PTL

(* Default finds a client whenever there is one, until a GracefulShutdown   *)
(* has succeeded.                                                           *)
THEOREM RegistryDefaultResolves == Spec => []DefaultResolves
<1>1. IInv => DefaultResolves
  <2> SUFFICES ASSUME IInv, writer = Nobody, Registered # {},
                      \A g \in Shutdowns : ret[g] # "nil"
               PROVE  Lookup(defaultName) # NoClient
    BY DEF DefaultResolves
  <2>1. \A k \in Writers : pc[k] # "naming"
    BY RegistryAssumption DEF IInv, RegistryInv, LockHeld
  <2>2. defaultName # NoName
    BY <2>1 DEF IInv, RegistryInv, DefaultInOrder, Writers
  <2>3. clients[defaultName] # NoClient
    BY <2>1, <2>2 DEF IInv, RegistryInv, DefaultInOrder, Writers
  <2> QED
    BY <2>2, <2>3 DEF Lookup, IInv, TypeOK
<1> QED
  BY RegistryInvariant, <1>1, PTL

(* What excuses a client that is handed out although it is closing. *)
WasLeft(c) ==
    \/ \E g \in Shutdowns : ret[g] = "error" /\ c \in Targets(g)
    \/ c \in Managed /\ manager[c] # "open"

(* A client in the map that turns messages away, while nobody holds the     *)
(* lock, was left there by a GracefulShutdown that failed or by its         *)
(* MessageManager.                                                          *)
LEMMA RejectingWasLeft ==
    ASSUME IInv, writer = Nobody, NEW c \in Registered, c \in rejecting
    PROVE  WasLeft(c)
<1>1. CASE c \in Managed /\ manager[c] # "open"
  BY <1>1 DEF WasLeft
<1>2. ASSUME NEW g \in Shutdowns, c \in Targets(g) PROVE WasLeft(c)
  <2>1. pc[g] # "idle"
    BY <1>2 DEF IInv, CloserInv, ClosersInOrder
  <2>2. pc[g] # "selecting"
    BY RegistryAssumption DEF IInv, RegistryInv, LockHeld, Writers
  <2>3. pc[g] = "done"
    BY <2>1, <2>2 DEF IInv, RegistryInv, Places
  <2>4. ret[g] # "nil"
    BY <1>2 DEF IInv, CloserInv, NilIsFinal
  <2>5. ret[g] \in {"nil", "error"}
    BY <2>3 DEF IInv, CloserInv, ClosersInOrder
  <2> QED
    BY <1>2, <2>4, <2>5 DEF WasLeft
<1> QED
  BY <1>1, <1>2 DEF IInv, CloserInv, RejectingIsTarget

(* A client that is handed out while it turns messages away, or without a   *)
(* running producer, was left in the map by a GracefulShutdown that returned *)
(* an error, or by its MessageManager's Close.                              *)
THEOREM RegistryHandsOutOpenClients == Spec => HandedOutIsOpen
<1>1. ASSUME IInv, [Next]_vars
      PROVE  \A u \in Users :
                LET c == found'[u] IN
                c # found[u] /\ c # NoClient =>
                    \/ c \notin rejecting /\ producer[c] = "running"
                    \/ \E g \in Shutdowns : ret[g] = "error" /\ c \in Targets(g)
                    \/ c \in Managed /\ manager[c] # "open"
  <2> SUFFICES ASSUME NEW u \in Users, found'[u] # found[u], found'[u] # NoClient
               PROVE  \/ found'[u] \notin rejecting /\ producer[found'[u]] = "running"
                      \/ WasLeft(found'[u])
    BY DEF WasLeft
  <2>1. found' # found
    OBVIOUS
  <2>2. PICK v \in Users : GetClient(v) \/ TakeCheck(v)
    BY <1>1, <2>1 DEF Next, RegisterStep, BeginRegister, RegisterFails, StartProducer,
       ConsumerFails, Publish, NameDefault, CloseAllStep, BeginCloseAll, CloseClients,
       ForgetDefault, BeginShutdown, ShutdownStep, AllDone, ReturnDone, ReturnExpired,
       ReturnError, CloserStep, CloserBegins, CloserSucceeds, CloserTimesOut, CloserFails, CloserReports, Move,
       BeginManagerClose, ManagerCloses, ReadName, BeginCheck, UserStep, CheckReturns, HelperReports, readerVars, vars
  <2>3. writer = Nobody
    BY <2>2 DEF GetClient, TakeCheck
  <2>4. u = v
    BY <1>1, <2>2 DEF GetClient, TakeCheck, IInv, TypeOK
  <2>5. found'[u] \in Registered \cup {NoClient}
    BY <1>1, <2>2, <2>4 DEF GetClient, TakeCheck, Lookup, Registered, IInv, TypeOK, RegistryInv,
       MapInOrder
  <2>6. found'[u] \in Registered
    BY <2>5
  <2>7. CASE found'[u] \in rejecting
    BY <1>1, <2>3, <2>6, <2>7, RejectingWasLeft
  <2>8. CASE found'[u] \notin rejecting
    BY <1>1, <2>6, <2>8 DEF IInv, CloserInv, StoppedIsRejecting
  <2> QED
    BY <2>7, <2>8
<1> QED
  BY <1>1, RegistryInvariant, PTL DEF Spec, HandedOutIsOpen

(* The unlocked read of defaultName can be torn only before the first       *)
(* Register has written it and while a CloseAll erases it.                  *)
THEOREM RegistryUnlockedReadIsSafe == Spec => UnlockedReadIsSafe
<1>1. ASSUME IInv, [Next]_vars, crashed', ~crashed
      PROVE  defaultName = NoName \/ \E k \in CloseAlls : pc[k] = "naming"
  <2>1. PICK u \in Users : ReadName(u)
    BY <1>1 DEF Next, RegisterStep, BeginRegister, RegisterFails, StartProducer,
       ConsumerFails, Publish, NameDefault, CloseAllStep, BeginCloseAll, CloseClients,
       ForgetDefault, BeginShutdown, ShutdownStep, AllDone, ReturnDone, ReturnExpired,
       ReturnError, CloserStep, CloserBegins, CloserSucceeds, CloserTimesOut, CloserFails, CloserReports, Move,
       BeginManagerClose, ManagerCloses, BeginCheck, UserStep, CheckReturns, HelperReports, GetClient, TakeCheck, vars
  <2>2. PICK k \in Writers : pc[k] = "naming"
    BY <1>1, <2>1 DEF ReadName
  <2>3. CASE k \in Registers
    BY <1>1, <2>2, <2>3 DEF IInv, RegistryInv, MapInOrder
  <2>4. CASE k \in Shutdowns
    BY <1>1, <2>2, <2>4 DEF IInv, RegistryInv, Places
  <2> QED
    BY <2>2, <2>3, <2>4 DEF Writers
<1> QED
  BY <1>1, RegistryInvariant, PTL DEF Spec, UnlockedReadIsSafe

-----------------------------------------------------------------------------
(* Reports to callers that may be gone *)

(* The errors in errCh are those of the goroutines that failed, but for the *)
(* one that a GracefulShutdown has returned.                                *)
ErrorsInOrder ==
    \A g \in Shutdowns :
        \/ errs[g] = Cardinality(Failed(g))
        \/ ret[g] = "error" /\ errs[g] < Cardinality(Failed(g))

(* The one left behind by a health check has a caller that is waiting for   *)
(* its result or has returned.                                              *)
HelpersInOrder ==
    \A u \in Users : helper[u] = "sending" => HasPlace(u)

(* No goroutine is stuck on a report that nobody is there to receive: errCh *)
(* has room for every error still to come, and the channel of a health      *)
(* check for its one result.                                                *)
ReportersNeverBlock ==
    /\ \A g \in Shutdowns, c \in Registers : closer[g][c] = "reporting" => Room(g)
    /\ HelpersInOrder

(* The goroutines of a GracefulShutdown that have failed are finitely many. *)
LEMMA FailedFinite ==
    ASSUME NEW g \in Shutdowns
    PROVE  /\ IsFiniteSet(Failed(g))
           /\ Cardinality(Failed(g)) \in Nat
<1>1. Failed(g) \subseteq Registers
  BY DEF Failed
<1> QED
  BY <1>1, RegistryAssumption, FS_Subset, FS_CardinalityType

(* When a goroutine reports, one more of its GracefulShutdown has failed. *)
LEMMA OneMoreFailed ==
    ASSUME TypeOK, NEW g \in Shutdowns, NEW c \in Registers, closer[g][c] # "failed",
           closer' = [closer EXCEPT ![g][c] = "failed"]
    PROVE  /\ Cardinality(Failed(g)') = Cardinality(Failed(g)) + 1
           /\ \A h \in Shutdowns \ {g} : Failed(h)' = Failed(h)
<1>1. c \notin Failed(g)
  BY DEF Failed
<1>2. Failed(g)' = Failed(g) \cup {c}
  BY DEF Failed, TypeOK
<1>3. \A h \in Shutdowns \ {g} : Failed(h)' = Failed(h)
  BY DEF Failed, TypeOK
<1> QED
  BY <1>1, <1>2, <1>3, FailedFinite, FS_AddElement

(* Where errCh and the goroutines that have failed stay as they are, so does *)
(* their agreement, as no GracefulShutdown takes its error back.            *)
LEMMA ErrorsKept ==
    ASSUME ErrorsInOrder, errs' = errs,
           \A g \in Shutdowns : Failed(g)' = Failed(g),
           \A g \in Shutdowns : ret[g] = "error" => ret'[g] = "error"
    PROVE  ErrorsInOrder'
  BY DEF ErrorsInOrder

(* Only a GracefulShutdown itself changes what it has returned, once. *)
LEMMA ErrorsStay ==
    ASSUME IInv, [Next]_vars
    PROVE  \A g \in Shutdowns : ret[g] = "error" => ret'[g] = "error"
<1> SUFFICES ASSUME NEW g \in Shutdowns, ret[g] = "error" PROVE ret'[g] = "error"
  OBVIOUS
<1>0. TypeOK /\ g \in Writers
  BY DEF IInv, Writers
<1>1. ASSUME NEW k \in Writers, k # g, \E what : ret' = [ret EXCEPT ![k] = what]
      PROVE  ret'[g] = "error"
  BY <1>0, <1>1 DEF TypeOK
<1>2. ASSUME UNCHANGED ret PROVE ret'[g] = "error"
  BY <1>2
<1>3. ASSUME NEW r \in Registers, BeginRegister(r) \/ RegisterStep(r)
      PROVE  UNCHANGED ret \/ \E what : ret' = [ret EXCEPT ![r] = what]
  BY <1>3 DEF BeginRegister, RegisterStep, RegisterFails, StartProducer, ConsumerFails,
     Publish, NameDefault, Return
<1>4. ASSUME NEW k \in CloseAlls, BeginCloseAll(k) \/ CloseAllStep(k)
      PROVE  UNCHANGED ret \/ \E what : ret' = [ret EXCEPT ![k] = what]
  BY <1>4 DEF BeginCloseAll, CloseAllStep, CloseClients, ForgetDefault, Return
<1>5. ASSUME NEW h \in Shutdowns, ReturnDone(h) PROVE ret'[g] = "error"
  <2>1. h # g /\ ret' = [ret EXCEPT ![h] = "nil"]
    BY <1>5 DEF ReturnDone, Goto, Return, IInv, CloserInv, ClosersInOrder
  <2> QED
    BY <1>0, <2>1 DEF TypeOK
<1>6. ASSUME NEW h \in Shutdowns, ReturnExpired(h) \/ ReturnError(h) PROVE ret'[g] = "error"
  BY <1>0, <1>6 DEF ReturnExpired, ReturnError, Return, TypeOK
<1>7. ASSUME NEW h \in Shutdowns,
             \/ BeginShutdown(h) \/ AllDone(h)
             \/ \E c \in Registers : CloserStep(h, c)
      PROVE  UNCHANGED ret
  BY <1>7 DEF BeginShutdown, AllDone, CloserStep, CloserBegins, CloserSucceeds, CloserTimesOut,
     CloserFails, CloserReports, Move
<1>8. ASSUME NEW c \in Managed, BeginManagerClose(c) \/ ManagerCloses(c) PROVE UNCHANGED ret
  BY <1>8 DEF BeginManagerClose, ManagerCloses
<1>9. CASE UNCHANGED vars \/ \E u \in Users : UserAction(u)
  BY <1>0, <1>2, <1>9, UsersOnlyRead
<1>10. Registers \subseteq Writers \ {g} /\ CloseAlls \subseteq Writers \ {g}
  BY RegistryAssumption DEF Writers
<1> QED
  BY <1>1, <1>2, <1>3, <1>4, <1>5, <1>6, <1>7, <1>8, <1>9, <1>10
  DEF Next, ShutdownStep, UserAction

(* A goroutine that fails puts its error into errCh in the step that ends   *)
(* it, and the select takes one out in the step that returns it.            *)
LEMMA ErrorsStep == IInv /\ ErrorsInOrder /\ [Next]_vars => ErrorsInOrder'
<1> SUFFICES ASSUME IInv, ErrorsInOrder, [Next]_vars PROVE ErrorsInOrder'
  OBVIOUS
<1>0. TypeOK /\ ErrorsInOrder /\ \A g \in Shutdowns : ret[g] = "error" => ret'[g] = "error"
  BY ErrorsStay DEF IInv
<1>1. ASSUME UNCHANGED shutdownVars PROVE ErrorsInOrder'
  BY <1>0, <1>1, ErrorsKept DEF shutdownVars, Failed
<1>2. ASSUME NEW r \in Registers, BeginRegister(r) \/ RegisterStep(r)
      PROVE  UNCHANGED shutdownVars
  BY <1>2 DEF BeginRegister, RegisterStep, RegisterFails, StartProducer, ConsumerFails,
     Publish, NameDefault
<1>3. ASSUME NEW k \in CloseAlls, BeginCloseAll(k) \/ CloseAllStep(k)
      PROVE  UNCHANGED shutdownVars
  BY <1>3 DEF BeginCloseAll, CloseAllStep, CloseClients, ForgetDefault
<1>4. ASSUME NEW c \in Managed, BeginManagerClose(c) \/ ManagerCloses(c)
      PROVE  UNCHANGED shutdownVars
  BY <1>4 DEF BeginManagerClose, ManagerCloses
<1>5. ASSUME NEW g \in Shutdowns, BeginShutdown(g) PROVE ErrorsInOrder'
  <2>1. errs' = errs
    BY <1>5 DEF BeginShutdown
  <2>2. Failed(g) = {}
    BY <1>5 DEF BeginShutdown, Goto, IInv, CloserInv, ClosersInOrder, Targets, Failed
  <2>3. \A h \in Shutdowns : Failed(h)' = Failed(h)
    BY <1>0, <1>5, <2>2 DEF BeginShutdown, Failed, TypeOK
  <2> QED
    BY <1>0, <2>1, <2>3, ErrorsKept
<1>6. ASSUME NEW g \in Shutdowns, NEW c \in Registers,
             \/ CloserBegins(g, c) \/ CloserSucceeds(g, c)
             \/ CloserTimesOut(g, c) \/ CloserFails(g, c)
      PROVE  ErrorsInOrder'
  <2>1. errs' = errs
    BY <1>6 DEF CloserBegins, CloserSucceeds, CloserTimesOut, CloserFails
  <2>2. /\ closer[g][c] \in {"spawned", "draining"}
        /\ \E to \in {"draining", "closed", "reporting"} :
              closer' = [closer EXCEPT ![g][c] = to]
    BY <1>6 DEF CloserBegins, CloserSucceeds, CloserTimesOut, CloserFails, Move
  <2>3. \A h \in Shutdowns : Failed(h)' = Failed(h)
    BY <1>0, <2>2 DEF Failed, TypeOK
  <2> QED
    BY <1>0, <2>1, <2>3, ErrorsKept
<1>7. ASSUME NEW g \in Shutdowns, NEW c \in Registers, CloserReports(g, c)
      PROVE  ErrorsInOrder'
  <2>1. /\ closer[g][c] # "failed" /\ closer' = [closer EXCEPT ![g][c] = "failed"]
        /\ errs' = [errs EXCEPT ![g] = @ + 1] /\ ret' = ret
    BY <1>7 DEF CloserReports, Move
  <2>2. /\ Cardinality(Failed(g)') = Cardinality(Failed(g)) + 1
        /\ \A h \in Shutdowns \ {g} : Failed(h)' = Failed(h)
    BY <1>0, <2>1, OneMoreFailed
  <2>3. errs[g] \in Int /\ Cardinality(Failed(g)) \in Int
    BY <1>0, FailedFinite DEF TypeOK
  <2>4. errs'[g] = errs[g] + 1 /\ \A h \in Shutdowns \ {g} : errs'[h] = errs[h]
    BY <1>0, <2>1 DEF TypeOK
  <2>5. \/ errs'[g] = Cardinality(Failed(g)')
        \/ ret'[g] = "error" /\ errs'[g] < Cardinality(Failed(g)')
    BY <1>0, <2>1, <2>2, <2>3, <2>4 DEF ErrorsInOrder
  <2> QED
    BY <1>0, <2>1, <2>2, <2>4, <2>5 DEF ErrorsInOrder
<1>8. ASSUME NEW g \in Shutdowns, ReturnError(g) PROVE ErrorsInOrder'
  <2>1. /\ errs' = [errs EXCEPT ![g] = @ - 1]
        /\ ret' = [ret EXCEPT ![g] = "error"]
        /\ \A h \in Shutdowns : Failed(h)' = Failed(h)
    BY <1>8 DEF ReturnError, Return, Failed
  <2>2. errs[g] \in Int /\ Cardinality(Failed(g)) \in Int
    BY <1>0, FailedFinite DEF TypeOK
  <2>3. errs'[g] < Cardinality(Failed(g)') /\ ret'[g] = "error"
    BY <1>0, <2>1, <2>2 DEF ErrorsInOrder, TypeOK, Writers
  <2>4. \A h \in Shutdowns \ {g} : errs'[h] = errs[h] /\ ret'[h] = ret[h]
    BY <1>0, <2>1 DEF TypeOK, Writers
  <2> QED
    BY <1>0, <2>1, <2>3, <2>4 DEF ErrorsInOrder
<1>9. ASSUME NEW g \in Shutdowns, AllDone(g) \/ ReturnDone(g) \/ ReturnExpired(g)
      PROVE  ErrorsInOrder'
  <2>1. UNCHANGED <<closer, errs>>
    BY <1>9 DEF AllDone, ReturnDone, ReturnExpired, shutdownVars
  <2> QED
    BY <1>0, <2>1, ErrorsKept DEF Failed
<1>10. CASE UNCHANGED vars \/ \E u \in Users : UserAction(u)
  BY <1>0, <1>1, <1>10, UsersOnlyRead
<1> QED
  BY <1>1, <1>2, <1>3, <1>4, <1>5, <1>6, <1>7, <1>8, <1>9, <1>10
  DEF Next, CloserStep, ShutdownStep, UserAction

(* In the beginning nothing has failed. *)
LEMMA ErrorsInit == Init => ErrorsInOrder
<1> SUFFICES ASSUME Init, NEW g \in Shutdowns PROVE errs[g] = Cardinality(Failed(g))
  BY DEF ErrorsInOrder
<1>1. Failed(g) = {}
  BY DEF Init, Failed
<1> QED
  BY <1>1, FS_EmptySet DEF Init

(* A nil from GracefulShutdown is final: no goroutine of it is at work, its *)
(* clients are not in the map, and each is shut down altogether or has its  *)
(* error in errCh.                                                          *)
THEOREM RegistryNilMeansFinished == Spec => []NilMeansFinished
<1>1. ASSUME IInv, ErrorsInOrder, NEW g \in Shutdowns, ret[g] = "nil"
      PROVE  /\ Targets(g) \cap Registered = {}
             /\ Cardinality(Failed(g)) = errs[g]
             /\ \A c \in Targets(g) \ Failed(g) :
                   closer[g][c] = "closed" /\ producer[c] = "shut" /\ consumer[c] = "shut"
  <2>1. Targets(g) \cap Registered = {}
    BY <1>1 DEF IInv, CloserInv, NilIsFinal
  <2>2. Cardinality(Failed(g)) = errs[g]
    BY <1>1 DEF ErrorsInOrder
  <2>3. Counted(g) = {}
    BY <1>1 DEF IInv, CloserInv, ClosersInOrder
  <2>4. ASSUME NEW c \in Targets(g) \ Failed(g)
        PROVE  closer[g][c] = "closed" /\ producer[c] = "shut" /\ consumer[c] = "shut"
    <3>1. c \in Registers /\ closer[g][c] = "closed"
      BY <2>3, <2>4 DEF Counted, Targets, Failed
    <3> QED
      BY <1>1, <3>1 DEF IInv, CloserInv, ClosersInOrder
  <2> QED
    BY <2>1, <2>2, <2>4
<1>2. IInv /\ ErrorsInOrder => NilMeansFinished
  BY <1>1 DEF NilMeansFinished
<1> QED
  BY RegistryInvariant, ErrorsInit, ErrorsStep, <1>2, PTL DEF Spec

(* A health check that has left its goroutine behind does not come back. *)
LEMMA HelpersStep == IInv /\ HelpersInOrder /\ [Next]_vars => HelpersInOrder'
<1> SUFFICES ASSUME IInv, HelpersInOrder, [Next]_vars, NEW u \in Users, helper'[u] = "sending"
             PROVE  pc'[u] \in {"checking", "done"}
  BY DEF HelpersInOrder, HasPlace
<1>0. /\ pc \in [Calls -> {"idle", "resolving", "consuming", "closing", "naming",
                           "selecting", "named", "holding", "checking", "done"}]
      /\ helper \in [Users -> {"none", "sending", "done"}]
      /\ u \in Calls
      /\ helper[u] = "sending" => pc[u] \in {"checking", "done"}
  BY DEF IInv, TypeOK, HelpersInOrder, HasPlace, Calls
<1>1. ASSUME NEW k \in Writers, UNCHANGED helper,
             UNCHANGED pc \/ \E to : pc' = [pc EXCEPT ![k] = to]
      PROVE  pc'[u] \in {"checking", "done"}
  <2>1. k # u /\ k \in Calls
    BY RegistryAssumption DEF Writers, Calls
  <2> QED
    BY <1>0, <1>1, <2>1
<1>2. ASSUME NEW r \in Registers, BeginRegister(r) \/ RegisterStep(r)
      PROVE  UNCHANGED helper /\ \E to : pc' = [pc EXCEPT ![r] = to]
  BY <1>2 DEF BeginRegister, RegisterStep, RegisterFails, StartProducer,
     ConsumerFails, Publish, NameDefault, Goto, Return, readerVars
<1>3. ASSUME NEW k \in CloseAlls, BeginCloseAll(k) \/ CloseAllStep(k)
      PROVE  UNCHANGED helper /\ \E to : pc' = [pc EXCEPT ![k] = to]
  BY <1>3 DEF BeginCloseAll, CloseAllStep, CloseClients, ForgetDefault, Goto, Return, readerVars
<1>4. ASSUME NEW g \in Shutdowns,
             \/ BeginShutdown(g) \/ ReturnExpired(g) \/ ShutdownStep(g)
             \/ \E c \in Registers : CloserStep(g, c)
      PROVE  UNCHANGED helper /\ (UNCHANGED pc \/ \E to : pc' = [pc EXCEPT ![g] = to])
  BY <1>4 DEF BeginShutdown, ShutdownStep, AllDone, ReturnDone, ReturnExpired, ReturnError,
     CloserStep, CloserBegins, CloserSucceeds, CloserTimesOut, CloserFails, CloserReports, Move,
     Goto, Return, readerVars
<1>5. ASSUME NEW v \in Users, UserAction(v) PROVE pc'[u] \in {"checking", "done"}
  <2>1. CASE v # u
    <3>1. helper'[u] = helper[u]
      BY <1>0, <1>5, <2>1 DEF UserAction, UserStep, ReadName, TakeCheck, BeginCheck, GetClient,
         CheckReturns, HelperReports, readerVars
    <3>2. UNCHANGED pc \/ \E to : pc' = [pc EXCEPT ![v] = to]
      BY <1>5 DEF UserAction, UserStep, ReadName, TakeCheck, BeginCheck, GetClient,
         CheckReturns, HelperReports, Goto
    <3> QED
      BY <1>0, <2>1, <3>1, <3>2
  <2>2. CASE v = u
    <3>1. CASE BeginCheck(u) \/ CheckReturns(u)
      <4>1. pc' = [pc EXCEPT ![u] = "checking"] \/ pc' = [pc EXCEPT ![u] = "done"]
        BY <3>1 DEF BeginCheck, CheckReturns, Goto
      <4> QED
        BY <1>0, <4>1
    <3>2. CASE HelperReports(u)
      BY <1>0, <3>2 DEF HelperReports
    <3>3. CASE ReadName(u) \/ TakeCheck(u) \/ GetClient(u)
      BY <1>0, <3>3 DEF ReadName, TakeCheck, GetClient, Goto
    <3> QED
      BY <1>5, <2>2, <3>1, <3>2, <3>3 DEF UserAction, UserStep
  <2> QED
    BY <2>1, <2>2
<1>6. CASE UNCHANGED vars \/ \E c \in Managed : BeginManagerClose(c) \/ ManagerCloses(c)
  BY <1>0, <1>6 DEF BeginManagerClose, ManagerCloses, vars, readerVars
<1> QED
  BY <1>1, <1>2, <1>3, <1>4, <1>5, <1>6 DEF Next, Writers, UserAction

(* Nobody who reports to a caller that may be gone is held up: errCh has a  *)
(* place for every goroutine that has not yet ended, read or not.           *)
THEOREM RegistryReportersNeverBlock == Spec => []ReportersNeverBlock
<1>1. ASSUME IInv, ErrorsInOrder, NEW g \in Shutdowns, NEW c \in Registers, closer[g][c] = "reporting"
      PROVE  Room(g)
  <2>1. Failed(g) \subseteq Targets(g) /\ c \in Targets(g) \ Failed(g)
    BY <1>1 DEF Failed, Targets
  <2>2. IsFiniteSet(Targets(g)) /\ Failed(g) # Targets(g)
    BY <2>1, RegistryAssumption, FS_Subset DEF Targets
  <2>3. /\ Cardinality(Failed(g)) <= Cardinality(Targets(g))
        /\ Cardinality(Failed(g)) # Cardinality(Targets(g))
    BY <2>1, <2>2, FS_Subset
  <2>4. errs[g] \in 0..Cardinality(Registers) /\ errs[g] <= Cardinality(Failed(g))
    BY <1>1, FailedFinite DEF IInv, TypeOK, ErrorsInOrder
  <2>5. Cardinality(Targets(g)) \in Nat /\ Cardinality(Failed(g)) \in Nat
    BY <2>2, FailedFinite, FS_CardinalityType
  <2> QED
    BY <2>3, <2>4, <2>5, TargetsFinite DEF Room
<1>2. IInv /\ ErrorsInOrder /\ HelpersInOrder => ReportersNeverBlock
  BY <1>1 DEF ReportersNeverBlock
<1>3. Init => ErrorsInOrder /\ HelpersInOrder
  BY ErrorsInit DEF Init, HelpersInOrder
<1> QED
  BY RegistryInvariant, ErrorsStep, HelpersStep, <1>2, <1>3, PTL DEF Spec
=============================================================================
