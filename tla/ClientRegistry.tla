--------------------------- MODULE ClientRegistry ---------------------------
(***************************************************************************)
(* The package's registry: the map `clients` and defaultName, written      *)
(* under clientsMu by Register, GracefulShutdown and CloseAll, while       *)
(* Default reads defaultName without it.  A client is named by the         *)
(* Register call that makes it.  GracefulShutdown holds the lock while a   *)
(* goroutine per client runs closeWithContext, of which ClientLifecycle    *)
(* has the inside, and may leave those goroutines behind; HealthCheck      *)
(* leaves one behind when its context ends first.  A MessageManager closes *)
(* its client by itself, and any Shutdown may fail.  The consumer is the   *)
(* one Register makes and never starts; Subscribe, which puts another in   *)
(* its place, is in ClientLifecycle.                                       *)
(***************************************************************************)
EXTENDS Integers, FiniteSets

CONSTANTS
    Registers,      \* calls of Register
    NameOf,         \* the name each of them registers
    Shutdowns,      \* calls of GracefulShutdown
    CloseAlls,      \* calls of CloseAll
    Users,          \* goroutines that get a client or check its health
    Managed,        \* the clients that a MessageManager registers
    MayFail,        \* those whose Shutdown may return an error
    NoName, NoClient, Nobody

Names == {NameOf[r] : r \in Registers}
Writers == Registers \cup Shutdowns \cup CloseAlls
Calls == Writers \cup Users

ASSUME RegistryAssumption ==
    /\ IsFiniteSet(Registers)
    /\ NoName \notin Names
    /\ NoClient \notin Registers
    /\ Nobody \notin Writers
    /\ Registers \cap (Shutdowns \cup CloseAlls \cup Users) = {}
    /\ Shutdowns \cap (CloseAlls \cup Users) = {}
    /\ CloseAlls \cap Users = {}
    /\ Managed \subseteq Registers
    /\ MayFail \subseteq Registers

VARIABLES
    clients,
    defaultName,
    writer,         \* the call that holds clientsMu, or Nobody
    pc,             \* where each call is
    ret,            \* what those that write have returned
    producer,       \* of each client; "failed" if its Shutdown was called in vain
    consumer,       \* of each client, the one Register made
    rejecting,      \* the clients whose startShutdown has run
    closer,         \* of each GracefulShutdown, its goroutine for each client
    errs,           \* the errors in its errCh
    done,           \* the GracefulShutdowns whose channel done is closed
    manager,        \* how far the Close of each MessageManager is
    name,           \* the defaultName that each user's Default has read
    found,          \* the client each user has got
    helper,         \* its HealthCheck's goroutine
    crashed         \* whether a torn read of defaultName has killed the process

registryVars == <<clients, defaultName>>
clientVars == <<producer, consumer, rejecting>>
shutdownVars == <<closer, errs, done>>
readerVars == <<name, found, helper>>
vars == <<registryVars, writer, pc, ret, clientVars, shutdownVars, manager, readerVars,
          crashed>>

TypeOK ==
    /\ clients \in [Names -> Registers \cup {NoClient}]
    /\ defaultName \in Names \cup {NoName}
    /\ writer \in Writers \cup {Nobody}
    /\ pc \in [Calls -> {"idle", "resolving", "consuming", "closing", "naming",
                         "selecting", "named", "holding", "checking", "done"}]
    /\ ret \in [Writers -> {"none", "nil", "error"}]
    /\ producer \in [Registers -> {"none", "running", "failed", "shut"}]
    /\ consumer \in [Registers -> {"none", "idle", "shut"}]
    /\ rejecting \subseteq Registers
    /\ closer \in [Shutdowns -> [Registers ->
                        {"none", "spawned", "draining", "reporting", "closed", "failed"}]]
    /\ errs \in [Shutdowns -> 0..Cardinality(Registers)]
    /\ done \subseteq Shutdowns
    /\ manager \in [Managed -> {"open", "closing", "closed"}]
    /\ name \in [Users -> Names \cup {NoName}]
    /\ found \in [Users -> Registers \cup {NoClient}]
    /\ helper \in [Users -> {"none", "sending", "done"}]
    /\ crashed \in BOOLEAN

Init ==
    /\ clients = [n \in Names |-> NoClient]
    /\ defaultName = NoName
    /\ writer = Nobody
    /\ pc = [k \in Calls |-> "idle"]
    /\ ret = [k \in Writers |-> "none"]
    /\ producer = [c \in Registers |-> "none"]
    /\ consumer = [c \in Registers |-> "none"]
    /\ rejecting = {}
    /\ closer = [g \in Shutdowns |-> [c \in Registers |-> "none"]]
    /\ errs = [g \in Shutdowns |-> 0]
    /\ done = {}
    /\ manager = [c \in Managed |-> "open"]
    /\ name = [u \in Users |-> NoName]
    /\ found = [u \in Users |-> NoClient]
    /\ helper = [u \in Users |-> "none"]
    /\ crashed = FALSE

-----------------------------------------------------------------------------
Registered == {c \in Registers : clients[NameOf[c]] = c}

NoClients == [n \in Names |-> NoClient]

Goto(k, from, to) ==
    /\ ~crashed
    /\ pc[k] = from
    /\ pc' = [pc EXCEPT ![k] = to]

Return(k, from, what) ==
    /\ Goto(k, from, "done")
    /\ ret' = [ret EXCEPT ![k] = what]

(* clientsMu.Lock and the deferred Unlock; RLock waits for the writer. *)
Lock(k) == writer = Nobody /\ writer' = k
Unlock == writer' = Nobody

(* Shutdown of the producers of cs, of which any may fail.  Close, CloseAll  *)
(* and Register call no Shutdown of a consumer that was never started.       *)
ShutProducers(cs) ==
    \E bad \in SUBSET {c \in cs \cap MayFail : producer[c] \in {"running", "failed"}} :
        producer' = [c \in Registers |->
                        IF c \in bad THEN "failed"
                        ELSE IF c \in cs /\ producer[c] # "none" THEN "shut" ELSE producer[c]]

(* The clients a GracefulShutdown has a goroutine for; the goroutines its    *)
(* wait group counts, those that reported an error; and whether errCh, of   *)
(* that capacity, has room.                                                 *)
Targets(g) == {c \in Registers : closer[g][c] # "none"}
CountedBegun(g) == {c \in Targets(g) : closer[g][c] \in {"draining", "reporting"}}
Counted(g) == {c \in Targets(g) : closer[g][c] \notin {"closed", "failed"}}
Failed(g) == {c \in Registers : closer[g][c] = "failed"}
RoomForOne(g) == errs[g] < 1
Room(g) == errs[g] < Cardinality(Targets(g))

-----------------------------------------------------------------------------
(* Slips: operations as a plausible bug would leave them, for the           *)
(* properties to catch.                                                     *)

(* Register does not look for the name in the map. *)
BeginRegisterAnyway(r) ==
    /\ Goto(r, "idle", "resolving")
    /\ Lock(r)
    /\ UNCHANGED <<registryVars, ret, clientVars, shutdownVars, manager, readerVars, crashed>>

(* Register makes every new client the default one. *)
PublishAsDefault(r) ==
    /\ Goto(r, "consuming", "naming")
    /\ clients' = [clients EXCEPT ![NameOf[r]] = r]
    /\ consumer' = [consumer EXCEPT ![r] = "idle"]
    /\ UNCHANGED <<defaultName, writer, ret, producer, rejecting, shutdownVars, manager,
                   readerVars, crashed>>

(* CloseAll does not reset defaultName. *)
CloseClientsOnly(k) ==
    /\ Return(k, "closing", "nil")
    /\ ShutProducers(Registered)
    /\ clients' = NoClients
    /\ Unlock
    /\ UNCHANGED <<defaultName, consumer, rejecting, shutdownVars, manager, readerVars, crashed>>

(* GracefulShutdown leaves the closed clients in the map. *)
ReturnDoneKeeps(g) ==
    /\ g \in done
    /\ Return(g, "selecting", "nil")
    /\ Unlock
    /\ UNCHANGED <<registryVars, clientVars, shutdownVars, manager, readerVars, crashed>>

(* errCh is closed along with done, and the select receives from it. *)
ReturnErrorClosed(g) ==
    /\ errs[g] > 0 \/ g \in done
    /\ errs' = [errs EXCEPT ![g] = @ - 1]
    /\ Return(g, "selecting", "error")
    /\ Unlock
    /\ UNCHANGED <<registryVars, clientVars, closer, done, manager, readerVars, crashed>>

-----------------------------------------------------------------------------
(* Register, which keeps the lock while it resolves names and connects *)

BeginRegister(r) ==
    /\ IF clients[NameOf[r]] # NoClient
         THEN Return(r, "idle", "error") /\ writer = Nobody /\ UNCHANGED writer
         ELSE Goto(r, "idle", "resolving") /\ Lock(r) /\ UNCHANGED ret
    /\ UNCHANGED <<registryVars, clientVars, shutdownVars, manager, readerVars, crashed>>

(* No name servers, none of them resolves, or the producer does not start. *)
RegisterFails(r) ==
    /\ Return(r, "resolving", "error")
    /\ Unlock
    /\ UNCHANGED <<registryVars, clientVars, shutdownVars, manager, readerVars, crashed>>

StartProducer(r) ==
    /\ Goto(r, "resolving", "consuming")
    /\ producer' = [producer EXCEPT ![r] = "running"]
    /\ UNCHANGED <<registryVars, writer, ret, consumer, rejecting, shutdownVars, manager,
                   readerVars, crashed>>

(* NewPushConsumer fails, and the producer is shut down again. *)
ConsumerFails(r) ==
    /\ Return(r, "consuming", "error")
    /\ ShutProducers({r})
    /\ Unlock
    /\ UNCHANGED <<registryVars, consumer, rejecting, shutdownVars, manager, readerVars, crashed>>

Publish(r) ==
    /\ IF defaultName = NoName
         THEN Goto(r, "consuming", "naming") /\ UNCHANGED <<ret, writer>>
         ELSE Return(r, "consuming", "nil") /\ Unlock
    /\ clients' = [clients EXCEPT ![NameOf[r]] = r]
    /\ consumer' = [consumer EXCEPT ![r] = "idle"]
    /\ UNCHANGED <<defaultName, producer, rejecting, shutdownVars, manager, readerVars, crashed>>

NameDefault(r) ==
    /\ Return(r, "naming", "nil")
    /\ defaultName' = NameOf[r]
    /\ Unlock
    /\ UNCHANGED <<clients, clientVars, shutdownVars, manager, readerVars, crashed>>

-----------------------------------------------------------------------------
(* CloseAll *)

BeginCloseAll(k) ==
    /\ Goto(k, "idle", "closing")
    /\ Lock(k)
    /\ UNCHANGED <<registryVars, ret, clientVars, shutdownVars, manager, readerVars, crashed>>

CloseClients(k) ==
    /\ Goto(k, "closing", "naming")
    /\ ShutProducers(Registered)
    /\ clients' = NoClients
    /\ UNCHANGED <<defaultName, writer, ret, consumer, rejecting, shutdownVars, manager, readerVars,
                   crashed>>

ForgetDefault(k) ==
    /\ Return(k, "naming", "nil")
    /\ defaultName' = NoName
    /\ Unlock
    /\ UNCHANGED <<clients, clientVars, shutdownVars, manager, readerVars, crashed>>

-----------------------------------------------------------------------------
(* GracefulShutdown *)

(* wg.Add(1) and a goroutine for every client, and room for all their errors. *)
BeginShutdown(g) ==
    /\ Goto(g, "idle", "selecting")
    /\ Lock(g)
    /\ closer' = [closer EXCEPT ![g] =
                    [c \in Registers |-> IF c \in Registered THEN "spawned" ELSE "none"]]
    /\ UNCHANGED <<registryVars, ret, clientVars, errs, done, manager, readerVars,
                   crashed>>

(* closeWithContext: startShutdown, the wait, and the two Shutdowns. *)
Move(g, c, from, to) ==
    /\ ~crashed
    /\ closer[g][c] = from
    /\ closer' = [closer EXCEPT ![g][c] = to]
    /\ UNCHANGED <<registryVars, writer, pc, ret, done, manager, readerVars, crashed>>

CloserBegins(g, c) ==
    /\ Move(g, c, "spawned", "draining")
    /\ rejecting' = rejecting \cup {c}
    /\ UNCHANGED <<producer, consumer, errs>>

CloserSucceeds(g, c) ==
    /\ Move(g, c, "draining", "closed")
    /\ producer' = [producer EXCEPT ![c] = "shut"]
    /\ consumer' = [consumer EXCEPT ![c] = "shut"]
    /\ UNCHANGED <<rejecting, errs>>

(* The wait timed out: both are shut down, and what fails is ignored. *)
CloserTimesOut(g, c) ==
    /\ Move(g, c, "draining", "reporting")
    /\ ShutProducers({c})
    /\ \/ consumer' = [consumer EXCEPT ![c] = "shut"]
       \/ c \in MayFail /\ UNCHANGED consumer
    /\ UNCHANGED <<rejecting, errs>>

(* The producer's Shutdown fails, and the consumer's is never called; or the *)
(* consumer's fails after it.                                               *)
CloserFails(g, c) ==
    /\ c \in MayFail
    /\ Move(g, c, "draining", "reporting")
    /\ ShutProducers({c})
    /\ UNCHANGED <<consumer, rejecting, errs>>

CloserReports(g, c) ==
    /\ Room(g)
    /\ Move(g, c, "reporting", "failed")
    /\ errs' = [errs EXCEPT ![g] = @ + 1]
    /\ UNCHANGED clientVars

(* The goroutine behind wg.Wait closes done. *)
AllDone(g) ==
    /\ ~crashed
    /\ pc[g] # "idle"
    /\ Counted(g) = {}
    /\ g \notin done
    /\ done' = done \cup {g}
    /\ UNCHANGED <<registryVars, writer, pc, ret, clientVars, closer, errs, manager,
                   readerVars, crashed>>

(* The select takes any case that is ready; the context ends when it likes. *)
ReturnDone(g) ==
    /\ g \in done
    /\ Return(g, "selecting", "nil")
    /\ clients' = NoClients
    /\ Unlock
    /\ UNCHANGED <<defaultName, clientVars, shutdownVars, manager, readerVars, crashed>>

ReturnExpired(g) ==
    /\ Return(g, "selecting", "error")
    /\ Unlock
    /\ UNCHANGED <<registryVars, clientVars, shutdownVars, manager, readerVars, crashed>>

ReturnError(g) ==
    /\ errs[g] > 0
    /\ errs' = [errs EXCEPT ![g] = @ - 1]
    /\ Return(g, "selecting", "error")
    /\ Unlock
    /\ UNCHANGED <<registryVars, clientVars, closer, done, manager, readerVars, crashed>>

-----------------------------------------------------------------------------
(* MessageManager.Close: StartGracefulShutdown, then Client.Close, without   *)
(* the lock; the client stays in the map.                                   *)

BeginManagerClose(c) ==
    /\ ~crashed
    /\ ret[c] = "nil" /\ manager[c] = "open"
    /\ manager' = [manager EXCEPT ![c] = "closing"]
    /\ rejecting' = rejecting \cup {c}
    /\ UNCHANGED <<registryVars, writer, pc, ret, producer, consumer, shutdownVars, readerVars,
                   crashed>>

ManagerCloses(c) ==
    /\ ~crashed
    /\ manager[c] = "closing"
    /\ manager' = [manager EXCEPT ![c] = "closed"]
    /\ ShutProducers({c})
    /\ UNCHANGED <<registryVars, writer, pc, ret, consumer, rejecting, shutdownVars, readerVars,
                   crashed>>

-----------------------------------------------------------------------------
(* Default, GetAllHealthCheckFuncs and HealthCheck *)

(* What a call is about to write to defaultName. *)
NewName(k) == IF k \in Registers THEN NameOf[k] ELSE NoName

(* defaultName is two words, a pointer and a length, and is read without a   *)
(* lock: the old value, the new one, or half of each, on which the lookup    *)
(* crashes.                                                                  *)
ReadName(u) ==
    LET writing == {NewName(k) : k \in {k \in Writers : pc[k] = "naming"}} \ {defaultName} IN
    /\ Goto(u, "idle", "named")
    /\ \/ /\ \E n \in {defaultName} \cup writing : name' = [name EXCEPT ![u] = n]
          /\ UNCHANGED crashed
       \/ writing # {} /\ crashed' = TRUE /\ UNCHANGED name
    /\ UNCHANGED <<registryVars, writer, ret, clientVars, shutdownVars, manager, found, helper>>

Lookup(n) == IF n \in Names THEN clients[n] ELSE NoClient

GetClient(u) ==
    LET c == Lookup(name[u]) IN
    /\ writer = Nobody
    /\ Goto(u, "named", IF c = NoClient THEN "done" ELSE "holding")
    /\ found' = [found EXCEPT ![u] = c]
    /\ name' = [name EXCEPT ![u] = NoName]
    /\ UNCHANGED <<registryVars, writer, ret, clientVars, shutdownVars, manager, helper, crashed>>

(* One of the functions of GetAllHealthCheckFuncs, which keeps its client. *)
TakeCheck(u) ==
    /\ writer = Nobody
    /\ Goto(u, "idle", "holding")
    /\ \E c \in Registered : found' = [found EXCEPT ![u] = c]
    /\ UNCHANGED <<registryVars, writer, ret, clientVars, shutdownVars, manager, name, helper,
                   crashed>>

BeginCheck(u) ==
    /\ Goto(u, "holding", "checking")
    /\ helper' = [helper EXCEPT ![u] = "sending"]
    /\ UNCHANGED <<registryVars, writer, ret, clientVars, shutdownVars, manager, name, found,
                   crashed>>

(* The goroutine's SendSync returns and its result goes into a channel with  *)
(* room for it, whether or not anybody is still there to receive it.         *)
HasPlace(u) == pc[u] \in {"checking", "done"}

HelperReports(u) ==
    /\ ~crashed
    /\ helper[u] = "sending"
    /\ HasPlace(u)
    /\ helper' = [helper EXCEPT ![u] = "done"]
    /\ UNCHANGED <<registryVars, writer, pc, ret, clientVars, shutdownVars, manager, name,
                   found, crashed>>

(* With the result of the send, or with the error of a context done first. *)
CheckReturns(u) ==
    /\ Goto(u, "checking", "done")
    /\ UNCHANGED <<registryVars, writer, ret, clientVars, shutdownVars, manager, readerVars,
                   crashed>>

-----------------------------------------------------------------------------
RegisterStep(r) ==
    \/ RegisterFails(r) \/ StartProducer(r) \/ ConsumerFails(r)
    \/ Publish(r) \/ NameDefault(r)

CloseAllStep(k) == CloseClients(k) \/ ForgetDefault(k)

CloserStep(g, c) ==
    \/ CloserBegins(g, c) \/ CloserSucceeds(g, c) \/ CloserTimesOut(g, c)
    \/ CloserFails(g, c) \/ CloserReports(g, c)

ShutdownStep(g) == AllDone(g) \/ ReturnDone(g) \/ ReturnError(g)

UserStep(u) == GetClient(u) \/ CheckReturns(u)

Next ==
    \/ \E r \in Registers : BeginRegister(r) \/ RegisterStep(r)
    \/ \E k \in CloseAlls : BeginCloseAll(k) \/ CloseAllStep(k)
    \/ \E g \in Shutdowns :
         \/ BeginShutdown(g) \/ ReturnExpired(g) \/ ShutdownStep(g)
         \/ \E c \in Registers : CloserStep(g, c)
    \/ \E u \in Users :
         \/ ReadName(u) \/ TakeCheck(u) \/ BeginCheck(u)
         \/ UserStep(u) \/ HelperReports(u)
    \/ \E c \in Managed : BeginManagerClose(c) \/ ManagerCloses(c)

Spec == Init /\ [][Next]_vars

(* A goroutine that can move does: the DNS and the SDK return within their  *)
(* timeouts, closeWithContext within its five seconds, and RWMutex passes   *)
(* nobody over.  No call need be made and no context need end.              *)
Fairness ==
    /\ \A r \in Registers : WF_vars(RegisterStep(r))
    /\ \A k \in CloseAlls : WF_vars(CloseAllStep(k))
    /\ \A g \in Shutdowns :
         WF_vars(ShutdownStep(g)) /\ \A c \in Registers : WF_vars(CloserStep(g, c))
    /\ \A u \in Users : WF_vars(UserStep(u)) /\ WF_vars(HelperReports(u))
    /\ \A c \in Managed : WF_vars(ManagerCloses(c))

FairSpec == Spec /\ Fairness

-----------------------------------------------------------------------------
(* Properties *)

(* No connection is orphaned: a producer nobody shuts down is a client's in *)
(* the map or to a Register under way, also when registering, closing and   *)
(* the goroutines a timed-out GracefulShutdown left behind overlap.         *)
NothingOrphaned ==
    \A c \in Registers :
        producer[c] = "running" => c \in Registered \/ pc[c] = "consuming"

(* What a nil from GracefulShutdown means: none of its goroutines is still   *)
(* at work, none of its clients can be found again, and each is shut down   *)
(* altogether or has its error lying in errCh, where the select overlooked  *)
(* it; only with errCh empty is nothing left running.                       *)
NilMeansFinished ==
    \A g \in Shutdowns :
        ret[g] = "nil" =>
            /\ Targets(g) \cap Registered = {}
            /\ Cardinality(Failed(g)) = errs[g]
            /\ \A c \in Targets(g) \ Failed(g) :
                  closer[g][c] = "closed" /\ producer[c] = "shut" /\ consumer[c] = "shut"

(* A client that is handed out while it turns messages away, or without a   *)
(* running producer, was left in the map by a GracefulShutdown that returned *)
(* an error, or by its MessageManager's Close.                              *)
HandedOutIsOpen ==
    [][\A u \in Users :
         LET c == found'[u] IN
         c # found[u] /\ c # NoClient =>
             \/ c \notin rejecting /\ producer[c] = "running"
             \/ \E g \in Shutdowns : ret[g] = "error" /\ c \in Targets(g)
             \/ c \in Managed /\ manager[c] # "open"]_vars

(* Unless a GracefulShutdown has succeeded, which empties the map and keeps *)
(* defaultName, Default finds a client whenever there is one.               *)
DefaultResolves ==
    writer = Nobody /\ Registered # {} =>
        \/ Lookup(defaultName) # NoClient
        \/ \E g \in Shutdowns : ret[g] = "nil"

(* Reading defaultName without the lock is harmless from the moment the     *)
(* first Register has written it until a CloseAll erases it.                *)
UnlockedReadIsSafe ==
    [][crashed' /\ ~crashed =>
         defaultName = NoName \/ \E k \in CloseAlls : pc[k] = "naming"]_vars

(* Nothing waits for ever, also when the caller has stopped listening: in   *)
(* the end every call that was made has returned, and every goroutine that  *)
(* it started has ended.                                                    *)
AtWork ==
    \/ \E k \in Writers : pc[k] \notin {"idle", "done"}
    \/ \E g \in Shutdowns, c \in Registers : closer[g][c] \notin {"none", "closed", "failed"}
    \/ \E u \in Users : pc[u] \in {"named", "checking"} \/ helper[u] = "sending"
    \/ \E c \in Managed : manager[c] = "closing"

GoroutinesFinish == <>[](crashed \/ ~AtWork)
=============================================================================
