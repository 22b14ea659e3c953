--------------------------- MODULE DeliveryWorker ---------------------------
(***************************************************************************)
(* The delivery worker (worker/worker.py), the retry loop of the Telegram  *)
(* client it awaits (telegram/client.py) and the cleanup scheduler         *)
(* (relay/cleanup_scheduler.py) over the durable queue.                    *)
(*                                                                         *)
(* The worker, the scheduler and the relay's enqueue calls are coroutines  *)
(* of one event loop.  `wpc' is where the worker awaits next, `cpc' which  *)
(* call the scheduler makes next; each queue call is the method of         *)
(* DurableQueue, step by step, under its lock.                             *)
(***************************************************************************)
EXTENDS DurableQueue

CONSTANTS
  MaxPosts,  \* max_retries of TelegramClient: POSTs per send_message
  MaxSends   \* bound: copies of an item Telegram may accept

ASSUME WorkerBoundsAssumption == MaxPosts \in Nat \ {0} /\ MaxSends \in Nat

(* MaxAttempts of DurableQueue is len(retry_schedule_seconds) here. *)

VARIABLES
  wpc,       \* "off", or what the worker does next
  tries,     \* POSTs made by the send_message in progress
  skipped,   \* skipped_item_ids of the pass
  wakeup,    \* _wakeup_event
  stopEvent, \* _stop_event
  cpc,       \* "off", or what the cleanup scheduler does next
  sends,     \* history: copies of the item Telegram accepted
  doubts,    \* history: acceptances whose answer, or its record, was lost
  late       \* history: items put in pending/ with no wakeup

loop == <<wpc, tries, skipped>>
events == <<wakeup, stopEvent>>
telegram == <<sends, doubts>>
workerVars == <<loop, events, cpc, telegram, late>>
vars == <<queueVars, workerVars>>

WPCs == {"off", "claim", "claimed", "not_due", "send", "sent", "fail",
         "fail_perm", "recover", "put_back", "wait"}
-----------------------------------------------------------------------------
(* run: what follows an iteration that did work, and one that did not.  An
   exception counts as no work. *)
AfterWork == IF stopEvent THEN "off" ELSE "claim"
AfterNoWork == IF stopEvent THEN "off" ELSE "wait"
NewPass == tries' = 0 /\ skipped' = {}

(* Telegram has accepted the item and mark_sent has not renamed its file yet. *)
UnfiledDelivery == wpc = "sent" /\ dir[held] = "processing"

(* An interruption at that point forgets a delivery. *)
Forget == doubts' = IF UnfiledDelivery THEN [doubts EXCEPT ![held] = @ + 1] ELSE doubts

ClaimCall ==
  /\ wpc = "claim" /\ ClaimStart(skipped)
  /\ UNCHANGED workerVars

ClaimGoesOn ==
  /\ \/ \E i \in Item : ClaimCorrupt(i) \/ ClaimMove(i)
     \/ ClaimPurgeCorrupt \/ ClaimPurgePayload
     \/ ClaimUnrecorded \/ ClaimRecord
  /\ UNCHANGED workerVars

ClaimNothing ==
  /\ wpc = "claim" /\ ClaimEmpty
  /\ wpc' = AfterNoWork /\ NewPass
  /\ UNCHANGED <<events, cpc, telegram, late>>

(* claim_next raises: run logs it and waits. *)
ClaimFails ==
  /\ ClaimDuplicate
  /\ wpc' = AfterNoWork /\ NewPass
  /\ UNCHANGED <<events, cpc, telegram, late>>

ClaimReturns ==
  /\ ClaimStatus
  /\ wpc' = "claimed"
  /\ UNCHANGED <<tries, skipped, events, cpc, telegram, late>>

(* next_retry_at against the clock. *)
CheckDue ==
  /\ wpc = "claimed"
  /\ \/ body[held].due /\ wpc' = "send" /\ NewPass
     \/ /\ ~body[held].due /\ wpc' = "not_due"
        /\ skipped' = skipped \cup {held} /\ tries' = tries
  /\ UNCHANGED <<queueVars, events, cpc, telegram, late>>

(* Mutated form: the rename does not wait for the queue's lock. *)
PutBackUnlocked ==
  /\ wpc = "not_due"
  /\ Move(held, "pending") /\ held' = 0
  /\ wpc' = "claim"
  /\ UNCHANGED <<body, nextItem, row, phase, op, clock, spent, history>>
  /\ UNCHANGED <<tries, skipped, events, cpc, telegram, late>>

(* Mutated form: an item that is not due ends the pass. *)
PutBackEndsPass ==
  /\ wpc = "not_due" /\ MoveBackToPending
  /\ wpc' = AfterNoWork /\ NewPass
  /\ UNCHANGED <<events, cpc, telegram, late>>

PutBack ==
  /\ wpc = "not_due" /\ MoveBackToPending
  /\ wpc' = "claim"
  /\ UNCHANGED <<tries, skipped, events, cpc, telegram, late>>
-----------------------------------------------------------------------------
(* send_message: one action per POST and its outcome. *)

Accepts(i) == sends[i] < MaxSends /\ sends' = [sends EXCEPT ![i] = @ + 1]

(* Telegram took the message although the client never sees a success. *)
Unseen(accepted) ==
  IF accepted
  THEN Accepts(held) /\ doubts' = [doubts EXCEPT ![held] = @ + 1]
  ELSE UNCHANGED telegram

(* TelegramMessage.from_sms raises ValidationError. *)
BuildFails ==
  /\ wpc = "send" /\ tries = 0
  /\ wpc' = "fail_perm"
  /\ UNCHANGED <<queueVars, tries, skipped, events, cpc, telegram, late>>

(* Mutated form: HTTP 200 is taken for a success before the body is read. *)
PostOkUnread ==
  /\ wpc = "send"
  /\ wpc' = "sent" /\ tries' = 0
  /\ UNCHANGED <<queueVars, skipped, events, cpc, telegram, late>>

PostOk ==
  /\ wpc = "send" /\ Accepts(held)
  /\ wpc' = "sent" /\ tries' = 0
  /\ UNCHANGED <<queueVars, skipped, events, cpc, doubts, late>>

(* 401, or any refusal that is not retried. *)
PostRefused ==
  /\ wpc = "send"
  /\ wpc' = "fail_perm" /\ tries' = 0
  /\ UNCHANGED <<queueVars, skipped, events, cpc, telegram, late>>

(* Mutated form: one POST too many. *)
PostUnansweredOneMore(accepted) ==
  /\ wpc = "send" /\ Unseen(accepted)
  /\ IF tries < MaxPosts
     THEN wpc' = "send" /\ tries' = tries + 1
     ELSE wpc' = "recover" /\ tries' = 0
  /\ UNCHANGED <<queueVars, skipped, events, cpc, late>>

(* 429, 5xx, an unreadable answer, a transport error: tried again until
   max_retries POSTs have been made. *)
PostUnanswered(accepted) ==
  /\ wpc = "send" /\ Unseen(accepted)
  /\ IF tries + 1 < MaxPosts
     THEN wpc' = "send" /\ tries' = tries + 1
     ELSE wpc' = "recover" /\ tries' = 0
  /\ UNCHANGED <<queueVars, skipped, events, cpc, late>>

(* An exception the worker does not know. *)
PostUnexpected(accepted) ==
  /\ wpc = "send" /\ Unseen(accepted)
  /\ wpc' = "fail" /\ tries' = 0
  /\ UNCHANGED <<queueVars, skipped, events, cpc, late>>
-----------------------------------------------------------------------------
(* Settling the item *)

SettleCall ==
  /\ \/ wpc = "sent" /\ MarkSent
     \/ wpc = "fail_perm" /\ MarkFailed(TRUE)
     \/ wpc = "fail" /\ MarkFailed(FALSE)
     \/ /\ wpc = "recover" /\ body[held].attempts >= MaxAttempts
        /\ MarkFailed(TRUE)
  /\ UNCHANGED workerVars

SettleGoesOn == MarkFailedMove /\ UNCHANGED workerVars

(* update_status raises, and the iteration fails, when the row is gone. *)
SettleReturns ==
  /\ MarkSentStatus \/ MarkFailedStatus
  /\ wpc' = IF HasRow(body[op.item].hash) THEN AfterWork ELSE AfterNoWork
  /\ UNCHANGED <<tries, skipped, events, cpc, telegram, late>>

(* Mutated form: an accepted message is scheduled for a retry as well. *)
RetryCallAlways ==
  /\ wpc \in {"recover", "sent"} /\ UpdateAttempt
  /\ wpc' = "put_back" /\ late' = late \cup {held}
  /\ UNCHANGED <<tries, skipped, events, cpc, telegram>>

(* _handle_recoverable_delivery_failure with attempts left. *)
RetryCall ==
  /\ wpc = "recover" /\ UpdateAttempt
  /\ wpc' = "put_back" /\ late' = late \cup {held}
  /\ UNCHANGED <<tries, skipped, events, cpc, telegram>>

RetryPutBack ==
  /\ wpc = "put_back" /\ MoveBackToPending
  /\ wpc' = AfterWork
  /\ UNCHANGED <<tries, skipped, events, cpc, telegram, late>>

(* Mutated form: the wait has no time limit. *)
WakesUpByEvent ==
  /\ wpc = "wait" /\ wakeup
  /\ wpc' = AfterWork /\ wakeup' = FALSE
  /\ UNCHANGED <<queueVars, tries, skipped, stopEvent, cpc, telegram, late>>

(* The end of the wait: by the event, or after 60 s.  The event is cleared. *)
WakesUp ==
  /\ wpc = "wait"
  /\ wpc' = AfterWork /\ wakeup' = FALSE
  /\ UNCHANGED <<queueVars, tries, skipped, stopEvent, cpc, telegram, late>>

(* A queue call raises: run logs it and waits. *)
WorkerFault ==
  /\ WorkerCall \/ (op.pc = "idle" /\ wpc \in WPCs \ {"claimed", "send"})
  /\ Fault
  /\ wpc' = AfterNoWork /\ NewPass /\ Forget
  /\ UNCHANGED <<events, cpc, sends, late>>
-----------------------------------------------------------------------------
(* CleanupScheduler._run_cleanup: requeue_failed, cleanup_sent, cleanup_failed;
   an exception in one of them ends the iteration. *)

CleanupCalls == op.pc \in {"requeue", "requeue_status", "unlink_known", "unlink_unknown"}

CleanupCall ==
  /\ \/ cpc = "requeue" /\ RequeueStart
     \/ cpc \in {"sent", "failed"} /\ CleanupStart(cpc)
  /\ UNCHANGED workerVars

CleanupGoesOn ==
  /\ \/ \E i \in Item : RequeueSkip(i) \/ CleanupUnlink(i)
     \/ CleanupUnknown
  /\ UNCHANGED workerVars

(* Nothing tells the worker. *)
Requeues(i) ==
  /\ RequeueMove(i)
  /\ late' = late \cup {i}
  /\ UNCHANGED <<loop, events, cpc, telegram>>

CleanupReturns ==
  /\ \/ RequeueStatus /\ cpc' = IF HasRow(body[op.item].hash) THEN cpc ELSE "sleep"
     \/ RequeueDone /\ cpc' = "sent"
     \/ CleanupPurge /\ cpc' = IF op.dest = "sent" THEN "failed" ELSE "sleep"
  /\ UNCHANGED <<loop, events, telegram, late>>

CleanupInterval ==
  /\ cpc = "sleep" /\ ~stopEvent
  /\ cpc' = "requeue"
  /\ UNCHANGED <<queueVars, loop, events, telegram, late>>

OtherFault ==
  /\ op.pc # "idle" /\ ~WorkerCall
  /\ Fault
  /\ cpc' = IF CleanupCalls THEN "sleep" ELSE cpc
  /\ UNCHANGED <<loop, events, telegram, late>>
-----------------------------------------------------------------------------
(* The relay: start, stop, and _process_sms, which calls wakeup right after
   enqueue has returned. *)

QueueStarts ==
  /\ \/ InitializeStart \/ ReconcileItem \/ InitializeDone
     \/ RecoverStart \/ (\E i \in Item : RecoverItem(i)) \/ RecoverDone
  /\ UNCHANGED workerVars

StartWorker ==
  /\ phase = "ready" /\ op.pc = "idle" /\ wpc = "off" /\ ~stopEvent
  /\ wpc' = "claim" /\ NewPass
  /\ wakeup' = FALSE
  /\ cpc' = "requeue"
  /\ UNCHANGED <<queueVars, stopEvent, telegram, late>>

EnqueueGoesOn ==
  /\ \E h \in Hash : EnqueueWrite(h)
  /\ UNCHANGED workerVars

EnqueueReturns ==
  /\ \/ \E h \in Hash : EnqueueDuplicate(h) \/ EnqueuePendingDuplicate(h)
     \/ EnqueueRecord
     \/ EnqueueUndo
  /\ wakeup' = (wakeup \/ ~(op.pc = "record" /\ body[op.item].id = 0
                            /\ HasRow(body[op.item].hash)))
  /\ UNCHANGED <<loop, stopEvent, cpc, telegram, late>>

(* The application stops the scheduler first (after 2 s it cancels it where it
   waits for the lock; inside a call that is a fault), then the relay the
   worker. *)
StopCall ==
  /\ wpc # "off" /\ ~CleanupCalls /\ ~stopEvent
  /\ stopEvent' = TRUE /\ wakeup' = TRUE /\ cpc' = "off"
  /\ UNCHANGED <<queueVars, loop, telegram, late>>

WorkerStopped ==
  /\ stopEvent /\ wpc = "off" /\ StopWorker
  /\ UNCHANGED workerVars

(* _wait_for_worker_shutdown cancels the task after 5 s. *)
WorkerCancelled ==
  /\ stopEvent /\ wpc # "off"
  /\ StopWorker \/ CancelWorkerCall
  /\ wpc' = "off" /\ NewPass /\ Forget
  /\ UNCHANGED <<events, cpc, sends, late>>

NewProcess ==
  /\ wpc' = "off" /\ NewPass
  /\ wakeup' = FALSE /\ stopEvent' = FALSE /\ cpc' = "off"

QueueCloses ==
  /\ Close /\ NewProcess
  /\ UNCHANGED <<telegram, late>>

ProcessCrashes ==
  /\ Crash /\ NewProcess /\ Forget
  /\ UNCHANGED <<sends, late>>
-----------------------------------------------------------------------------
World ==
  /\ \/ Tick
     \/ \E i \in Item : \/ RetryTimeComes(i) \/ HealFile(i)
                        \/ \E id \in 0 .. MaxItems : DamageFile(i, id)
     \/ \E h \in Hash : ImportRow(h)
  /\ UNCHANGED workerVars

WorkerInit ==
  /\ QueueInit
  /\ wpc = "off" /\ tries = 0 /\ skipped = {}
  /\ wakeup = FALSE /\ stopEvent = FALSE /\ cpc = "off"
  /\ sends = [i \in Item |-> 0] /\ doubts = [i \in Item |-> 0]
  /\ late = {}

ClaimSteps == ClaimCall \/ ClaimGoesOn \/ ClaimNothing \/ ClaimFails
              \/ ClaimReturns \/ CheckDue \/ PutBack

SendSteps ==
  \/ BuildFails \/ PostOk \/ PostRefused
  \/ \E accepted \in BOOLEAN : PostUnanswered(accepted) \/ PostUnexpected(accepted)

SettleSteps == SettleCall \/ SettleGoesOn \/ SettleReturns \/ RetryCall
               \/ RetryPutBack \/ WakesUp

CleanupSteps ==
  \/ CleanupCall \/ CleanupGoesOn \/ CleanupReturns \/ CleanupInterval
  \/ \E i \in Item : Requeues(i)

RelaySteps == QueueStarts \/ StartWorker \/ EnqueueGoesOn \/ EnqueueReturns
              \/ StopCall \/ WorkerStopped \/ QueueCloses

WorkerNext ==
  \/ ClaimSteps \/ SendSteps \/ SettleSteps \/ CleanupSteps \/ RelaySteps
  \/ WorkerFault \/ OtherFault \/ WorkerCancelled \/ ProcessCrashes \/ World

WorkerSpec == WorkerInit /\ [][WorkerNext]_vars

(* Where a coroutine waits for the lock. *)
WorkerCalls == ClaimCall \/ PutBack \/ SettleCall \/ RetryCall \/ RetryPutBack

(* The next step of whoever holds it. *)
LockHolder ==
  /\ op.pc # "idle"
  /\ \/ QueueStarts \/ EnqueueReturns
     \/ ClaimGoesOn \/ ClaimNothing \/ ClaimFails \/ ClaimReturns
     \/ SettleGoesOn \/ SettleReturns
     \/ CleanupGoesOn \/ CleanupReturns \/ \E i \in Item : Requeues(i)

(* The event loop runs every task that can run, and asyncio.Lock serves its
   waiters in order: the worker's calls are strongly fair.  The idle wait ends
   after 60 s, a POST after its timeout, and the service manager restarts the
   process, whose start is not rolled back for ever.  Nothing is assumed of the
   clock, of stop, of the cleanup's calls, of enqueue calls or of anything that
   goes wrong. *)
Fairness ==
  /\ WF_vars(LockHolder) /\ SF_vars(WorkerCalls)
  /\ WF_vars(CheckDue \/ SendSteps \/ WakesUp)
  /\ WF_vars(InitializeStart /\ QueueStarts) /\ SF_vars(RecoverStart /\ QueueStarts)
  /\ WF_vars(StartWorker) /\ WF_vars(WorkerStopped \/ QueueCloses)
  /\ \A i \in Item : WF_vars(RetryTimeComes(i) /\ World)

FairWorkerSpec == WorkerSpec /\ Fairness
-----------------------------------------------------------------------------
(* Properties *)

(* Every variable stays in its domain. *)
WorkerTypeOK ==
  /\ wpc \in WPCs /\ tries \in 0 .. MaxPosts - 1 /\ skipped \subseteq Item
  /\ wakeup \in BOOLEAN /\ stopEvent \in BOOLEAN
  /\ cpc \in {"off", "requeue", "sent", "failed", "sleep"}
  /\ sends \in [Item -> 0 .. MaxSends] /\ doubts \in [Item -> Nat]
  /\ late \subseteq Item

(* A file is in sent/ only if Telegram has accepted the message: no failure,
   crash, cancellation or restart files an undelivered SMS as sent. *)
SentMeansDelivered == \A i \in Item : dir[i] = "sent" => sends[i] >= 1

(* What the delivery path makes of an item, seen from outside: it waits in
   pending/ and processing/. *)
StageOf(d) ==
  CASE d \in {"pending", "processing"} -> "waiting"
    [] d = "sent" -> "delivered"
    [] OTHER -> d

Box == INSTANCE Outbox WITH Mail <- Item, taken <- 1 .. nextItem - 1,
         stage <- [i \in Item |-> StageOf(dir[i])], copies <- sends

(* Queue, worker, cleanup and relay together keep the promise of Outbox, with
   crashes, errors and cancellations anywhere: an SMS is transmitted only while
   it waits, it is filed as delivered only after that, what is delivered is
   never sent again by a retry, a requeue or a recovery, retention takes only
   what is settled, and an id is never used twice. *)
ImplementsOutbox == Box!OutboxSpec

(* An SMS is delivered twice only for a reason: every copy after the first is
   matched by a delivery whose answer was lost on the way, or whose record was
   (the worker was interrupted before mark_sent had renamed the file). *)
ResendsExplained == \A i \in Item : sends[i] <= 1 + doubts[i]

(* Telegram is given an SMS as one queue item only, however often the modem
   hands it over before it is deleted there: no two items of which copies were
   accepted carry the same SMS.  With ResendsExplained, an SMS is then delivered
   more than once only where an answer or its record was lost.  True until a
   retention period has passed (after that the SMS counts as a new one), without
   damaged files, and with up to one I/O error or cancelled call. *)
OneItemPerSms ==
  spent.damage = 0 /\ spent.fault <= 1 /\ Young =>
    \A i, j \in Item : sends[i] > 0 /\ sends[j] > 0 /\ i # j => body[i].hash # body[j].hash

(* A waiting worker with no wakeup pending has nothing new to do: whatever is
   in pending/ was put there by a retry or a requeue, which do not wake it (the
   60 s limit finds those), or is being written.  No enqueue is missed between
   the empty claim and the wait.  An enqueue that fails, because it cannot read
   back the file it wants to remove, wakes nobody; and a claim that fails makes
   the worker wait with items untouched. *)
NoLostWakeup ==
  wpc = "wait" /\ ~wakeup /\ spent.fault = 0 /\ spent.damage = 0 /\ NoLateImport =>
    \A i \in Listing("pending") : i \in late \/ (op.pc = "record" /\ op.item = i)

(* Every item reaches sent/ or failed/ in the end (or is removed), whatever
   crashes come and however often others use the queue, when no I/O error
   strands it and the service is not stopped over and over: a crash in the
   middle of a call is made good by the next start, and items that are not due
   do not keep the worker from the others.  The condition on requeue_failed is
   needed: it puts an item that keeps failing with an unknown exception back
   ahead of every newer one.  So is the one on ClaimDuplicate, which strands an
   item as an error does: after it a restart is needed. *)
EventuallySettled ==
  <>[](~stopEvent /\ op.pc # "requeue_status" /\ spent.fault = 0 /\ NoLateImport) =>
    \A i \in Item : (dir[i] = "pending") ~> (dir[i] \in {"sent", "failed", "none"})
=============================================================================
