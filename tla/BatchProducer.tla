---------------------------- MODULE BatchProducer ----------------------------
(***************************************************************************)
(* BatchProducer: Send puts messages into a buffered channel, one          *)
(* goroutine (run) collects them into a batch and sends the batch when it  *)
(* is full, when the ticker fires and when the producer is closed.  Flush  *)
(* sends the same batch from the caller's goroutine, without any lock.     *)
(* The channel of results is left out: writes to it never block and their  *)
(* loss is not reported, so nothing depends on it.                         *)
(***************************************************************************)
EXTENDS Integers, Sequences, SequencesExt

CONSTANTS
    Messages,
    Topic, Body, Overhead,  \* of each message; Overhead is topic, tag and key
    BatchSize, BatchBytes,  \* BatchSendConfig
    Runner,                 \* the goroutine of run
    Flushers,               \* calls of Flush, made from other goroutines
    NoMessage

ASSUME BatchAssumption ==
    /\ BatchSize \in Nat \ {0}
    /\ BatchBytes \in Nat
    /\ \A m \in Messages : Body[m] \in Nat /\ Overhead[m] \in Nat
    /\ Runner \notin Flushers
    /\ NoMessage \notin Messages

VARIABLES
    sendCh,         \* the channel, at most 2 * BatchSize long
    batch,          \* bp.batch.Messages
    hand,           \* the message run has received and not yet put anywhere
    pc,             \* where run and each Flush call are
    after,          \* where run goes when its flush is over
    errCh,          \* errors in the channel, at most one
    closeCall,      \* "none", "waiting" (closeCh closed), "returned"
    accepted,       \* history: messages Send took, in that order
    acked,          \* history: messages of successful SendSync calls, in order
    doubted,        \* history: messages stored by failed SendSync calls, not acked
    rejected,       \* history: messages run gave up on
    stuck,          \* history: whether the batch is what a failed flush left
    beforeClose,    \* history: how many messages were accepted when Close was called
    raced           \* history: whether two goroutines ever used the batch at once

chanVars == <<sendCh, errCh>>
runVars == <<hand, after>>
historyVars == <<accepted, acked, doubted, rejected, stuck, beforeClose, raced>>
vars == <<chanVars, batch, runVars, pc, closeCall, historyVars>>

Actors == Flushers \cup {Runner}

TypeOK ==
    /\ sendCh \in Seq(Messages) /\ Len(sendCh) <= 2 * BatchSize
    /\ batch \in Seq(Messages) /\ Len(batch) <= BatchSize
    /\ hand \in Messages \cup {NoMessage}
    /\ pc \in [Actors -> {"idle", "select", "retrying", "rejecting", "flushing",
                          "clearing", "reporting", "exited", "done"}]
    /\ after \in {"select", "retrying", "exited"}
    /\ errCh \in 0..1
    /\ closeCall \in {"none", "waiting", "returned"}
    /\ accepted \in Seq(Messages)
    /\ acked \in Seq(Messages)
    /\ doubted \subseteq Messages
    /\ rejected \subseteq Messages
    /\ stuck \in BOOLEAN
    /\ beforeClose \in Nat
    /\ raced \in BOOLEAN

Init ==
    /\ sendCh = <<>>
    /\ batch = <<>>
    /\ hand = NoMessage
    /\ pc = [a \in Actors |-> IF a = Runner THEN "select" ELSE "idle"]
    /\ after = "select"
    /\ errCh = 0
    /\ closeCall = "none"
    /\ accepted = <<>>
    /\ acked = <<>>
    /\ doubted = {}
    /\ rejected = {}
    /\ stuck = FALSE
    /\ beforeClose = 0
    /\ raced = FALSE

-----------------------------------------------------------------------------
(* The batch *)

(* calculateBatchSize: size[i] is its running total after i messages *)
Bytes(s) ==
    LET size[i \in 0..Len(s)] ==
            IF i = 0 THEN 0 ELSE size[i-1] + Body[s[i]] + Overhead[s[i]]
    IN  size[Len(s)]

(* AddMessage counts only the body of the message it adds, so that a batch  *)
(* may exceed BatchBytes by its topic, tag and key.                         *)
Fits(s, m) == Len(s) < BatchSize /\ Bytes(s) + Body[m] <= BatchBytes

IsFull(s) == Len(s) >= BatchSize \/ Bytes(s) >= BatchBytes

Mixed(s) == \E i, j \in DOMAIN s : Topic[s[i]] # Topic[s[j]]

Goto(a, from, to) ==
    /\ pc[a] = from
    /\ pc' = [pc EXCEPT ![a] = to]

(* Where an actor goes when its flush is over. *)
Resume(a) == IF a = Runner THEN after ELSE "done"

(* run leaves its select and uses the batch. *)
NoteRace == raced' = (raced \/ \E f \in Flushers : pc[f] \notin {"idle", "done"})

(* The message joins the batch, which is flushed at once if that fills it. *)
Join(m, from) ==
    /\ batch' = Append(batch, m)
    /\ hand' = NoMessage
    /\ after' = "select"
    /\ Goto(Runner, from, IF IsFull(batch') THEN "flushing" ELSE "select")

-----------------------------------------------------------------------------
(* Slips: operations as a plausible bug would leave them, for the           *)
(* properties to catch.                                                     *)

(* A failed flush clears the batch. *)
SendFailsClears(a) ==
    /\ Goto(a, "flushing", "reporting")
    /\ batch' = <<>>
    /\ stuck' = TRUE
    /\ UNCHANGED <<chanVars, runVars, closeCall, accepted, acked, doubted, rejected,
                   beforeClose, raced>>

(* What a failed flush has tried to send is given up with its error. *)
ReportFailureGivesUp(a) ==
    /\ errCh = 0
    /\ errCh' = 1
    /\ Goto(a, "reporting", Resume(a))
    /\ rejected' = rejected \cup Range(batch)
    /\ batch' = <<>>
    /\ UNCHANGED <<sendCh, runVars, closeCall, accepted, acked, doubted, stuck, beforeClose, raced>>

(* An error is put where there is no room for it. *)
ReportFailureAnyway(a) ==
    /\ errCh' = errCh + 1
    /\ Goto(a, "reporting", Resume(a))
    /\ UNCHANGED <<sendCh, batch, runVars, closeCall, historyVars>>

(* A message that does not fit is refused without making room first. *)
ReceiveUnfitRefuses ==
    /\ sendCh # <<>>
    /\ ~Fits(batch, Head(sendCh))
    /\ sendCh' = Tail(sendCh)
    /\ hand' = Head(sendCh)
    /\ after' = "retrying"
    /\ Goto(Runner, "select", "retrying")
    /\ NoteRace
    /\ UNCHANGED <<errCh, batch, closeCall, accepted, acked, doubted, rejected, stuck, beforeClose>>

(* The ticker flushes full batches only. *)
TickIfFull ==
    /\ batch # <<>>
    /\ IsFull(batch)
    /\ Goto(Runner, "select", "flushing")
    /\ after' = "select"
    /\ NoteRace
    /\ UNCHANGED <<chanVars, batch, hand, closeCall, accepted, acked, doubted, rejected, stuck, beforeClose>>

(* run goes back to its select after the last flush. *)
CloseSeenStays ==
    /\ closeCall = "waiting"
    /\ batch # <<>>
    /\ Goto(Runner, "select", "flushing")
    /\ after' = "select"
    /\ NoteRace
    /\ UNCHANGED <<chanVars, batch, hand, closeCall, accepted, acked, doubted, rejected, stuck, beforeClose>>

-----------------------------------------------------------------------------
(* Callers *)

(* A Send that finds the channel full returns an error and changes nothing. *)
Send(m) ==
    /\ m \notin Range(accepted)
    /\ Len(sendCh) < 2 * BatchSize
    /\ sendCh' = Append(sendCh, m)
    /\ accepted' = Append(accepted, m)
    /\ UNCHANGED <<errCh, batch, runVars, pc, closeCall, acked, doubted, rejected, stuck, beforeClose, raced>>

(* The application reads Errors(). *)
ReadError ==
    /\ errCh = 1
    /\ errCh' = 0
    /\ UNCHANGED <<sendCh, batch, runVars, pc, closeCall, historyVars>>

Close ==
    /\ closeCall = "none"
    /\ closeCall' = "waiting"
    /\ beforeClose' = Len(accepted)
    /\ UNCHANGED <<chanVars, batch, runVars, pc, accepted, acked, doubted, rejected, stuck, raced>>

CloseReturns ==
    /\ closeCall = "waiting"
    /\ pc[Runner] = "exited"
    /\ closeCall' = "returned"
    /\ UNCHANGED <<chanVars, batch, runVars, pc, historyVars>>

(* Flush returns at once on an empty batch. *)
Flush(f) ==
    /\ batch # <<>>
    /\ Goto(f, "idle", "flushing")
    /\ raced' = (\/ raced
                 \/ pc[Runner] \notin {"select", "exited"}
                 \/ \E g \in Flushers \ {f} : pc[g] \notin {"idle", "done"})
    /\ UNCHANGED <<chanVars, batch, runVars, closeCall, accepted, acked, doubted, rejected, stuck, beforeClose>>

-----------------------------------------------------------------------------
(* run *)

(* A message from sendCh that AddMessage takes. *)
ReceiveFit ==
    /\ sendCh # <<>>
    /\ Fits(batch, Head(sendCh))
    /\ sendCh' = Tail(sendCh)
    /\ Join(Head(sendCh), "select")
    /\ NoteRace
    /\ UNCHANGED <<errCh, closeCall, accepted, acked, doubted, rejected, stuck, beforeClose>>

(* One it refuses: what the batch holds is flushed, then it is tried again. *)
ReceiveUnfit ==
    /\ sendCh # <<>>
    /\ ~Fits(batch, Head(sendCh))
    /\ sendCh' = Tail(sendCh)
    /\ hand' = Head(sendCh)
    /\ after' = "retrying"
    /\ Goto(Runner, "select", IF batch # <<>> THEN "flushing" ELSE "retrying")
    /\ NoteRace
    /\ UNCHANGED <<errCh, batch, closeCall, accepted, acked, doubted, rejected, stuck, beforeClose>>

RetryFits ==
    /\ pc[Runner] = "retrying"
    /\ Fits(batch, hand)
    /\ Join(hand, "retrying")
    /\ UNCHANGED <<chanVars, closeCall, historyVars>>

RetryRefused ==
    /\ Goto(Runner, "retrying", "rejecting")
    /\ ~Fits(batch, hand)
    /\ rejected' = rejected \cup {hand}
    /\ hand' = NoMessage
    /\ after' = "select"
    /\ UNCHANGED <<chanVars, batch, closeCall, accepted, acked, doubted, stuck, beforeClose, raced>>

(* bp.errCh <- err in run, which waits for room. *)
ReportRejected ==
    /\ errCh = 0
    /\ errCh' = 1
    /\ Goto(Runner, "rejecting", "select")
    /\ UNCHANGED <<sendCh, batch, runVars, closeCall, historyVars>>

Tick ==
    /\ batch # <<>>
    /\ Goto(Runner, "select", "flushing")
    /\ after' = "select"
    /\ NoteRace
    /\ UNCHANGED <<chanVars, batch, hand, closeCall, accepted, acked, doubted, rejected, stuck, beforeClose>>

(* closeCh: the batch is flushed once more, sendCh is not looked at. *)
CloseSeen ==
    /\ closeCall = "waiting"
    /\ Goto(Runner, "select", IF batch # <<>> THEN "flushing" ELSE "exited")
    /\ after' = "exited"
    /\ NoteRace
    /\ UNCHANGED <<chanVars, batch, hand, closeCall, accepted, acked, doubted, rejected, stuck, beforeClose>>

-----------------------------------------------------------------------------
(* flush, in run or in a caller of Flush *)

SendSucceeds(a) ==
    /\ ~Mixed(batch)
    /\ Goto(a, "flushing", "clearing")
    /\ acked' = acked \o batch
    /\ doubted' = doubted \ Range(batch)
    /\ UNCHANGED <<chanVars, batch, runVars, closeCall, accepted, rejected, stuck, beforeClose, raced>>

(* SendBatch refuses a batch of several topics, or SendSync fails, with the *)
(* batch on the broker or not: the answer may be what was lost.             *)
SendFails(a) ==
    /\ Goto(a, "flushing", "reporting")
    /\ stuck' = TRUE
    /\ \/ UNCHANGED doubted
       \/ ~Mixed(batch) /\ doubted' = doubted \cup Range(batch)
    /\ UNCHANGED <<chanVars, batch, runVars, closeCall, accepted, acked, rejected,
                   beforeClose, raced>>

(* bp.errCh <- err in flush, which waits for room; the batch is kept. *)
ReportFailure(a) ==
    /\ errCh = 0
    /\ errCh' = 1
    /\ Goto(a, "reporting", Resume(a))
    /\ UNCHANGED <<sendCh, batch, runVars, closeCall, historyVars>>

Clear(a) ==
    /\ Goto(a, "clearing", Resume(a))
    /\ batch' = <<>>
    /\ stuck' = FALSE
    /\ UNCHANGED <<chanVars, runVars, closeCall, accepted, acked, doubted, rejected, beforeClose, raced>>

-----------------------------------------------------------------------------
FlushStep(a) == SendSucceeds(a) \/ SendFails(a) \/ ReportFailure(a) \/ Clear(a)

Receive == ReceiveFit \/ ReceiveUnfit

RunStep == RetryFits \/ RetryRefused \/ ReportRejected

Next ==
    \/ \E m \in Messages : Send(m)
    \/ ReadError \/ Close \/ CloseReturns
    \/ \E f \in Flushers : Flush(f)
    \/ Receive \/ RunStep \/ Tick \/ CloseSeen
    \/ \E a \in Actors : FlushStep(a)

Spec == Init /\ [][Next]_vars

(* The ticker fires, run's select starves no ready case for ever, the       *)
(* application drains Errors, and a send that is tried again and again      *)
(* succeeds in the end, unless SendBatch itself refuses it.                 *)
Fairness ==
    /\ WF_vars(RunStep) /\ WF_vars(ReadError) /\ WF_vars(CloseReturns)
    /\ SF_vars(Receive) /\ SF_vars(Tick) /\ SF_vars(CloseSeen)
    /\ \A a \in Actors : WF_vars(FlushStep(a))
    /\ SF_vars(SendSucceeds(Runner))

FairSpec == Spec /\ Fairness

-----------------------------------------------------------------------------
(* Properties *)

(* What the batch holds that no successful send has covered. *)
Unsent == IF \E a \in Actors : pc[a] = "clearing" THEN <<>> ELSE batch

InHand == IF hand = NoMessage THEN <<>> ELSE <<hand>>

(* The sequence s less the messages in R, in the same order.                *)
Without(s, R) ==
    LET kept[i \in 0..Len(s)] ==
            IF i = 0 THEN <<>>
            ELSE IF s[i] \in R THEN kept[i-1] ELSE Append(kept[i-1], s[i])
    IN  kept[Len(s)]

(* No message is lost or overtaken, or confirmed twice, on its way through  *)
(* channel, batch, failed flushes and retries: what successful SendSync     *)
(* calls have sent, the batch and the queue together are what Send          *)
(* accepted, in that order, less what was refused and reported.             *)
(* It needs no two goroutines ever to have used the batch at once.          *)
FlowIsConserved ==
    ~raced => acked \o Unsent \o InHand \o sendCh = Without(accepted, rejected)

(* Messages are sent at least once: what a SendSync stored and yet reported *)
(* as failed is not given up, but sent again until that is confirmed.  What *)
(* is confirmed is never sent again, so only sends that reported an error   *)
(* are repeated, and nothing the broker may hold is reported as refused.    *)
SentUntilAcked ==
    ~raced =>
        /\ doubted \subseteq Range(Unsent)
        /\ Range(acked) \cap Range(Unsent) = {}
        /\ rejected \cap (Range(acked) \cup doubted) = {}

(* A message is refused only if it is too big for an empty batch, or if a   *)
(* flush has failed and left the batch in its way.                          *)
RefusedForAReason ==
    [][\A m \in rejected' \ rejected :
         Body[m] > BatchBytes \/ stuck]_vars

(* Every accepted message is sent or refused in the end, or the producer is *)
(* closed, or the batch holds messages of several topics and so can never   *)
(* be sent, or Flush has interfered.                                        *)
AcceptedIsSettled ==
    \A m \in Messages :
        m \in Range(accepted)
          ~> (m \in Range(acked) \cup rejected \/ closeCall # "none" \/ Mixed(batch) \/ raced)

(* Close returns as long as somebody reads Errors.                          *)
CloseTerminates == closeCall = "waiting" ~> closeCall = "returned"

(* Documented in run: the remaining messages are sent before it closes.  So *)
(* none that was accepted before Close is left in the channel.              *)
CloseSendsRemaining ==
    closeCall = "returned" =>
        \A i \in 1..beforeClose : accepted[i] \notin Range(sendCh)
=============================================================================
