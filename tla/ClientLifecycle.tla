--------------------------- MODULE ClientLifecycle ---------------------------
(***************************************************************************)
(* One registered Client from its first Subscribe to its shutdown: its     *)
(* producer, the consumers its Subscribe calls create, the two fields in   *)
(* which it remembers only the last of them, and the three ways the code   *)
(* tears a client down: closeWithContext (GracefulShutdown), Close (also   *)
(* the body of CloseAll) and MessageManager.Close.  The handlers and the   *)
(* wait of closeWithContext go through the gate of ProcessingGate.         *)
(* Client.consumer and Client.consumerStarted are accessed without a lock. *)
(***************************************************************************)
EXTENDS Integers, FiniteSets

CONSTANTS
    Registered,         \* the consumer Register creates and never starts
    Subscribers,        \* Subscribe calls; each creates the consumer of its name
    Deliveries,         \* goroutines in which the SDK calls the wrapped handlers
    ConsumerOf,         \* the consumer each of them belongs to
    NoAck,
    MaxBatch,
    GracefulClosers,    \* goroutines that run closeWithContext
    ManagerClosers,     \* goroutines that may run MessageManager.Close
    PlainClosers        \* goroutines that may run Client.Close

Consumers == Subscribers \cup {Registered}
Closers == GracefulClosers \cup ManagerClosers \cup PlainClosers

ASSUME LifecycleAssumption ==
    /\ IsFiniteSet(Deliveries)
    /\ NoAck \subseteq Deliveries
    /\ MaxBatch \in Nat \ {0}
    /\ Registered \notin Subscribers
    /\ ConsumerOf \in [Deliveries -> Subscribers]
    /\ GracefulClosers \cap (ManagerClosers \cup PlainClosers) = {}

VARIABLES
    processingCount, shutdownStarted, processingDone, panicked,
    call, left, verdict, waiter,
    producer,           \* "running" or "shut"
    consumerState,      \* of every consumer: "none", "created", "running", "shut"
    consumer,           \* Client.consumer
    consumerStarted,    \* Client.consumerStarted
    subscription,       \* where each Subscribe call is
    closer,             \* where each closing goroutine is
    target,             \* the consumer each of them read to shut down
    subscribedBefore    \* history: the Subscribe calls that had returned when it began

Gate == INSTANCE ProcessingGate WITH Waiters <- GracefulClosers

gateVars == <<processingCount, shutdownStarted, processingDone, panicked,
              call, left, verdict, waiter>>
fieldVars == <<consumer, consumerStarted>>
sdkVars == <<producer, consumerState>>
closeVars == <<closer, target, subscribedBefore>>
vars == <<gateVars, fieldVars, sdkVars, subscription, closeVars>>

SubscriptionStates ==
    {"idle", "created", "started", "fieldLeft", "flagLeft", "subscribed", "failed"}

CloserStates ==
    {"idle", "begun", "waiting",
     "shutProducer", "readConsumer", "shutConsumer", "returning", "closed",
     "forceProducer", "readForced", "forceConsumer", "failed",
     "closeProducer", "checkConsumer", "readClose", "closeConsumer", "done"}

TypeOK ==
    /\ Gate!TypeOK
    /\ producer \in {"running", "shut"}
    /\ consumerState \in [Consumers -> {"none", "created", "running", "shut"}]
    /\ consumer \in Consumers
    /\ consumerStarted \in BOOLEAN
    /\ subscription \in [Subscribers -> SubscriptionStates]
    /\ closer \in [Closers -> CloserStates]
    /\ target \in [Closers -> Consumers]
    /\ subscribedBefore \in [GracefulClosers -> SUBSET Subscribers]

(* What Register leaves behind. *)
Init ==
    /\ Gate!Init
    /\ producer = "running"
    /\ consumerState = [c \in Consumers |-> IF c = Registered THEN "created" ELSE "none"]
    /\ consumer = Registered
    /\ consumerStarted = FALSE
    /\ subscription = [s \in Subscribers |-> "idle"]
    /\ closer = [k \in Closers |-> "idle"]
    /\ target = [k \in Closers |-> Registered]
    /\ subscribedBefore = [k \in GracefulClosers |-> {}]

-----------------------------------------------------------------------------
(* Slips: operations as a plausible bug would leave them, for the           *)
(* properties to catch.                                                     *)

(* Subscribe forgets c.consumer = cons. *)
WriteConsumerForgotten(s) ==
    /\ \/ /\ subscription[s] = "started"
          /\ subscription' = [subscription EXCEPT ![s] = "flagLeft"]
       \/ /\ subscription[s] = "fieldLeft"
          /\ subscription' = [subscription EXCEPT ![s] = "subscribed"]
    /\ UNCHANGED <<gateVars, fieldVars, sdkVars, closeVars>>

(* A timeout of the wait is logged and closeWithContext goes on. *)
WaitTimedOutIgnored(k) ==
    /\ Gate!WaitTimedOut(k)
    /\ closer' = [closer EXCEPT ![k] = "shutProducer"]
    /\ UNCHANGED <<fieldVars, sdkVars, subscription, target, subscribedBefore>>

(* The wait of closeWithContext does not look at its context. *)
WaitTimedOutNever(k) == FALSE

(* An error of producer.Shutdown is logged and not returned. *)
ShutProducerFailsIgnored(k) ==
    /\ closer[k] = "shutProducer"
    /\ closer' = [closer EXCEPT ![k] = "readConsumer"]
    /\ UNCHANGED <<gateVars, fieldVars, sdkVars, subscription, target, subscribedBefore>>

-----------------------------------------------------------------------------
(* Subscribe and subscribeMessage *)

CreateConsumer(s) ==
    /\ subscription[s] = "idle"
    /\ subscription' = [subscription EXCEPT ![s] = "created"]
    /\ consumerState' = [consumerState EXCEPT ![s] = "created"]
    /\ UNCHANGED <<gateVars, fieldVars, producer, closeVars>>

StartConsumer(s) ==
    /\ subscription[s] = "created"
    /\ subscription' = [subscription EXCEPT ![s] = "started"]
    /\ consumerState' = [consumerState EXCEPT ![s] = "running"]
    /\ UNCHANGED <<gateVars, fieldVars, producer, closeVars>>

(* NewPushConsumer, cons.Subscribe or cons.Start fails; nothing is undone. *)
SubscribeFails(s) ==
    /\ subscription[s] \in {"idle", "created"}
    /\ subscription' = [subscription EXCEPT ![s] = "failed"]
    /\ UNCHANGED <<gateVars, fieldVars, sdkVars, closeVars>>

(* The last two assignments of Subscribe race with every reader: another    *)
(* goroutine may see them in either order.                                  *)
WriteConsumer(s) ==
    /\ \/ /\ subscription[s] = "started"
          /\ subscription' = [subscription EXCEPT ![s] = "flagLeft"]
       \/ /\ subscription[s] = "fieldLeft"
          /\ subscription' = [subscription EXCEPT ![s] = "subscribed"]
    /\ consumer' = s
    /\ UNCHANGED <<gateVars, consumerStarted, sdkVars, closeVars>>

WriteStarted(s) ==
    /\ \/ /\ subscription[s] = "started"
          /\ subscription' = [subscription EXCEPT ![s] = "fieldLeft"]
       \/ /\ subscription[s] = "flagLeft"
          /\ subscription' = [subscription EXCEPT ![s] = "subscribed"]
    /\ consumerStarted' = TRUE
    /\ UNCHANGED <<gateVars, consumer, sdkVars, closeVars>>

-----------------------------------------------------------------------------
(* Messages: the SDK calls the handler of a running consumer; a call that    *)
(* has begun goes on when its consumer is shut down.                         *)
Deliver(d) ==
    /\ consumerState[ConsumerOf[d]] = "running"
    /\ Gate!RejectEarly(d) \/ Gate!PassCheck(d)
    /\ UNCHANGED <<fieldVars, sdkVars, subscription, closeVars>>

RunHandler(d) ==
    /\ \/ Gate!RejectLate(d) \/ Gate!Admit(d) \/ Gate!HandlerAccepts(d)
       \/ Gate!HandlerFails(d) \/ Gate!Decrement(d)
    /\ UNCHANGED <<fieldVars, sdkVars, subscription, closeVars>>

-----------------------------------------------------------------------------
(* Shutting down *)

(* c.startShutdown(), which returns early when a shutdown has begun. *)
StartShutdown ==
    \/ Gate!StartShutdown
    \/ shutdownStarted /\ UNCHANGED gateVars

Begin(k, next) ==
    /\ closer[k] = "idle"
    /\ closer' = [closer EXCEPT ![k] = next]
    /\ UNCHANGED <<fieldVars, sdkVars, subscription, target>>

Move(k, from, to) ==
    /\ closer[k] = from
    /\ closer' = [closer EXCEPT ![k] = to]
    /\ UNCHANGED <<fieldVars, subscription, target, subscribedBefore>>

(* Evaluating c.consumer, before the call of its Shutdown: a Subscribe may   *)
(* overwrite the field in between.                                          *)
ReadConsumer(k, from, to) ==
    /\ closer[k] = from
    /\ closer' = [closer EXCEPT ![k] = to]
    /\ target' = [target EXCEPT ![k] = consumer]
    /\ UNCHANGED <<gateVars, fieldVars, sdkVars, subscription, subscribedBefore>>

(* A Shutdown of the SDK that succeeds; one that fails changes nothing here. *)
StopProducer == producer' = "shut" /\ UNCHANGED consumerState
StopConsumer(c) ==
    /\ consumerState' = [consumerState EXCEPT ![c] = "shut"]
    /\ UNCHANGED producer

(* closeWithContext *)
BeginGraceful(k) ==
    /\ StartShutdown
    /\ Begin(k, "begun")
    /\ subscribedBefore' = [subscribedBefore EXCEPT ![k] =
                                {s \in Subscribers : subscription[s] = "subscribed"}]

BeginWait(k) == Gate!BeginWait(k) /\ Move(k, "begun", "waiting") /\ UNCHANGED sdkVars

WaitDrained(k) ==
    /\ Gate!WaitDrained(k)
    /\ Move(k, "waiting", "shutProducer")
    /\ UNCHANGED sdkVars

WaitTimedOut(k) ==
    /\ Gate!WaitTimedOut(k)
    /\ Move(k, "waiting", "forceProducer")
    /\ UNCHANGED sdkVars

ForceProducer(k) ==
    /\ Move(k, "forceProducer", "readForced")
    /\ StopProducer \/ UNCHANGED sdkVars
    /\ UNCHANGED gateVars

ReadForced(k) == ReadConsumer(k, "readForced", "forceConsumer")

ForceConsumer(k) ==
    /\ Move(k, "forceConsumer", "failed")
    /\ StopConsumer(target[k]) \/ UNCHANGED sdkVars
    /\ UNCHANGED gateVars

ShutProducer(k) ==
    Move(k, "shutProducer", "readConsumer") /\ StopProducer /\ UNCHANGED gateVars

ShutProducerFails(k) ==
    Move(k, "shutProducer", "failed") /\ UNCHANGED <<gateVars, sdkVars>>

ReadOrderly(k) == ReadConsumer(k, "readConsumer", "shutConsumer")

ShutConsumer(k) ==
    Move(k, "shutConsumer", "returning") /\ StopConsumer(target[k]) /\ UNCHANGED gateVars

ShutConsumerFails(k) ==
    Move(k, "shutConsumer", "failed") /\ UNCHANGED <<gateVars, sdkVars>>

ReturnNil(k) == Move(k, "returning", "closed") /\ UNCHANGED <<gateVars, sdkVars>>

GracefulStep(k) ==
    \/ BeginWait(k) \/ WaitDrained(k) \/ WaitTimedOut(k)
    \/ ForceProducer(k) \/ ReadForced(k) \/ ForceConsumer(k)
    \/ ShutProducer(k) \/ ShutProducerFails(k) \/ ReadOrderly(k)
    \/ ShutConsumer(k) \/ ShutConsumerFails(k) \/ ReturnNil(k)

(* MessageManager.Close starts a shutdown and calls Close at once.  Close,   *)
(* like the forced path above, does not look at the errors of Shutdown.      *)
BeginManagerClose(k) ==
    StartShutdown /\ Begin(k, "closeProducer") /\ UNCHANGED subscribedBefore

BeginClose(k) ==
    Begin(k, "closeProducer") /\ UNCHANGED <<gateVars, subscribedBefore>>

CloseProducer(k) ==
    /\ Move(k, "closeProducer", "checkConsumer")
    /\ StopProducer \/ UNCHANGED sdkVars
    /\ UNCHANGED gateVars

(* c.consumerStarted is read, then c.consumer is read again to shut it down. *)
CheckConsumer(k) ==
    /\ Move(k, "checkConsumer", IF consumerStarted THEN "readClose" ELSE "done")
    /\ UNCHANGED <<gateVars, sdkVars>>

ReadClose(k) == ReadConsumer(k, "readClose", "closeConsumer")

CloseConsumer(k) ==
    /\ Move(k, "closeConsumer", "done")
    /\ StopConsumer(target[k]) \/ UNCHANGED sdkVars
    /\ UNCHANGED gateVars

CloseStep(k) == CloseProducer(k) \/ CheckConsumer(k) \/ ReadClose(k) \/ CloseConsumer(k)

(* The consumers c.consumer has pointed at so far. *)
Pointed == {Registered} \cup {s \in Subscribers : subscription[s] \in {"flagLeft", "subscribed"}}

(* The exported ShutdownConsumer, callable at any time: it may have read the *)
(* field before the Subscribes that have overwritten it since.              *)
ShutdownConsumer ==
    /\ \E c \in Pointed : consumerState[c] # "shut" /\ StopConsumer(c)
    /\ UNCHANGED <<gateVars, fieldVars, subscription, closeVars>>

-----------------------------------------------------------------------------
SubscribeStep(s) ==
    \/ CreateConsumer(s) \/ StartConsumer(s) \/ SubscribeFails(s)
    \/ WriteConsumer(s) \/ WriteStarted(s)

Next ==
    \/ \E s \in Subscribers : SubscribeStep(s)
    \/ \E d \in Deliveries : Deliver(d) \/ RunHandler(d)
    \/ \E k \in GracefulClosers : BeginGraceful(k) \/ GracefulStep(k)
    \/ \E k \in ManagerClosers : BeginManagerClose(k) \/ CloseStep(k)
    \/ \E k \in PlainClosers : BeginClose(k) \/ CloseStep(k)
    \/ ShutdownConsumer

Spec == Init /\ [][Next]_vars

(* A goroutine that has begun to close runs on; its context has a deadline  *)
(* (five seconds in GracefulShutdown).  Nothing is assumed of the handlers. *)
Fairness ==
    /\ \A k \in GracefulClosers : WF_vars(GracefulStep(k))
    /\ \A k \in ManagerClosers \cup PlainClosers : WF_vars(CloseStep(k))

FairSpec == Spec /\ Fairness

-----------------------------------------------------------------------------
(* Properties *)

InFlight == Gate!InFlight

(* closeWithContext touches producer and consumer on its orderly path only  *)
(* when no handler is running anywhere, consumers it has lost sight of      *)
(* included, and after it returned nil no handler runs again.               *)
OrderlyCloseIsQuiet ==
    \A k \in GracefulClosers :
        closer[k] \in {"shutProducer", "readConsumer", "shutConsumer", "returning", "closed"}
          => InFlight = {}

(* A nil from closeWithContext is never returned over a failed Shutdown:    *)
(* the producer is down, and so is the consumer the client points at,       *)
(* unless a Subscribe that had not returned when the close began has        *)
(* overwritten the field since, also between its read and the return.       *)
NilMeansTornDown ==
    \A k \in GracefulClosers :
        closer[k] = "closed" =>
            /\ producer = "shut"
            /\ consumer \in subscribedBefore[k] \cup {Registered}
                 => consumerState[consumer] = "shut"

(* No handler is admitted once a shutdown has begun, whichever closer began *)
(* it and whichever of the client's consumers, lost ones included, delivers.*)
NothingAdmittedAfterShutdown ==
    [][shutdownStarted => InFlight' \subseteq InFlight]_vars

(* A client that subscribed once, before the close, has its consumer shut   *)
(* down when closeWithContext returns nil.                                  *)
SoleConsumerIsShut ==
    \A k \in GracefulClosers, s \in Subscribers :
        /\ closer[k] = "closed"
        /\ s \in subscribedBefore[k]
        /\ \A t \in Subscribers \ {s} : subscription[t] \in {"idle", "created", "failed"}
        => consumerState[s] = "shut"

(* Whatever the handlers do, whoever begins to close the client returns.    *)
ClosersReturn ==
    \A k \in Closers :
        closer[k] # "idle" ~> closer[k] \in {"closed", "failed", "done"}

(* Documented: GracefulShutdown closes ALL RocketMQ connections.  So every  *)
(* consumer whose Subscribe had returned is shut down when it returns nil.  *)
CloseReachesEveryConsumer ==
    \A k \in GracefulClosers :
        closer[k] = "closed" => \A s \in subscribedBefore[k] : consumerState[s] = "shut"

(* Documented: a graceful shutdown starts, waits for the messages in        *)
(* processing and only then closes the client.                              *)
ManagerCloseWaits ==
    \A k \in ManagerClosers : closer[k] = "checkConsumer" => InFlight = {}
=============================================================================
