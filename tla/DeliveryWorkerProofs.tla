------------------------ MODULE DeliveryWorkerProofs ------------------------
(***************************************************************************)
(* What the queue promises its users holds of the whole delivery path: the *)
(* worker, the cleanup scheduler and the relay call the queue only the way *)
(* DurableQueue says it may be called, and a file reaches sent/ only after *)
(* Telegram has accepted its message.                                      *)
(***************************************************************************)
EXTENDS DeliveryWorker, DurableQueueProofs

LEMMA ClaimStepsRefine == ClaimSteps => [QueueNext]_queueVars
<1> SUFFICES ASSUME ClaimSteps PROVE [QueueNext]_queueVars
  OBVIOUS
<1>1. CASE ClaimCall
  <2>1. ClaimStart(skipped)
    BY <1>1 DEF ClaimCall
  <2>2. ClaimStart(skipped) => ClaimStart(skipped \cap Item)
    BY DEF ClaimStart, Listing
  <2> QED
    BY <2>1, <2>2 DEF QueueNext, Claim
<1>2. CASE ClaimGoesOn
  BY <1>2 DEF ClaimGoesOn, QueueNext, Claim
<1>3. CASE ClaimNothing
  BY <1>3 DEF ClaimNothing, QueueNext, Claim
<1>4. CASE ClaimReturns \/ ClaimFails
  BY <1>4 DEF ClaimReturns, ClaimFails, QueueNext, Claim
<1>5. CASE CheckDue
  BY <1>5 DEF CheckDue
<1>6. CASE PutBack
  BY <1>6 DEF PutBack, QueueNext, Settle
<1> QED
  BY <1>1, <1>2, <1>3, <1>4, <1>5, <1>6 DEF ClaimSteps

LEMMA SendStepsRefine == SendSteps => UNCHANGED queueVars
BY DEF SendSteps, BuildFails, PostOk, PostRefused, PostUnanswered, PostUnexpected

LEMMA SettleStepsRefine == SettleSteps => [QueueNext]_queueVars
<1> SUFFICES ASSUME SettleSteps PROVE [QueueNext]_queueVars
  OBVIOUS
<1>1. CASE SettleCall
  BY <1>1 DEF SettleCall, QueueNext, Settle
<1>2. CASE SettleGoesOn
  BY <1>2 DEF SettleGoesOn, QueueNext, Settle
<1>3. CASE SettleReturns
  BY <1>3 DEF SettleReturns, QueueNext, Settle
<1>4. CASE RetryCall
  BY <1>4 DEF RetryCall, QueueNext, Settle
<1>5. CASE RetryPutBack
  BY <1>5 DEF RetryPutBack, QueueNext, Settle
<1>6. CASE WakesUp
  BY <1>6 DEF WakesUp
<1> QED
  BY <1>1, <1>2, <1>3, <1>4, <1>5, <1>6 DEF SettleSteps

LEMMA CleanupStepsRefine == CleanupSteps => [QueueNext]_queueVars
<1> SUFFICES ASSUME CleanupSteps PROVE [QueueNext]_queueVars
  OBVIOUS
<1>1. CASE CleanupCall
  BY <1>1 DEF CleanupCall, QueueNext, Cleanup
<1>2. CASE CleanupGoesOn
  BY <1>2 DEF CleanupGoesOn, QueueNext, Cleanup
<1>3. CASE CleanupReturns
  BY <1>3 DEF CleanupReturns, QueueNext, Cleanup
<1>4. CASE CleanupInterval
  BY <1>4 DEF CleanupInterval
<1>5. ASSUME NEW i \in Item, Requeues(i) PROVE QueueNext
  BY <1>5 DEF Requeues, QueueNext, Cleanup
<1> QED
  BY <1>1, <1>2, <1>3, <1>4, <1>5 DEF CleanupSteps

LEMMA RelayStepsRefine == RelaySteps => [QueueNext]_queueVars
<1> SUFFICES ASSUME RelaySteps PROVE [QueueNext]_queueVars
  OBVIOUS
<1>1. CASE QueueStarts
  BY <1>1 DEF QueueStarts, QueueNext, Start
<1>2. CASE StartWorker \/ StopCall
  BY <1>2 DEF StartWorker, StopCall
<1>3. CASE EnqueueGoesOn
  BY <1>3 DEF EnqueueGoesOn, QueueNext, Enqueue
<1>4. CASE EnqueueReturns
  BY <1>4 DEF EnqueueReturns, QueueNext, Enqueue
<1>5. CASE WorkerStopped
  BY <1>5 DEF WorkerStopped, QueueNext, Start
<1>6. CASE QueueCloses
  BY <1>6 DEF QueueCloses, QueueNext, Start
<1> QED
  BY <1>1, <1>2, <1>3, <1>4, <1>5, <1>6 DEF RelaySteps

(* What goes wrong, and the rest of the world. *)
LEMMA OtherStepsRefine ==
  WorkerFault \/ OtherFault \/ WorkerCancelled \/ ProcessCrashes \/ World
    => QueueNext
<1>1. WorkerFault \/ OtherFault => QueueNext
  BY DEF WorkerFault, OtherFault, QueueNext, Environment
<1>2. WorkerCancelled => QueueNext
  BY DEF WorkerCancelled, QueueNext, Start
<1>3. ProcessCrashes => QueueNext
  BY DEF ProcessCrashes, QueueNext, Environment
<1>4. World => QueueNext
  BY DEF World, QueueNext, Environment
<1> QED
  BY <1>1, <1>2, <1>3, <1>4

LEMMA WorkerStepRefines == [WorkerNext]_vars => [QueueNext]_queueVars
BY ClaimStepsRefine, SendStepsRefine, SettleStepsRefine, CleanupStepsRefine,
   RelayStepsRefine, OtherStepsRefine DEF WorkerNext, vars

(* The delivery path implements the queue: every step of the worker, of the
   cleanup scheduler and of the relay is a step DurableQueue allows, or leaves
   the queue alone. *)
THEOREM WorkerImplementsQueue == WorkerSpec => QueueSpec
<1>1. WorkerInit => QueueInit
  BY DEF WorkerInit
<1> QED
  BY <1>1, WorkerStepRefines, PTL DEF WorkerSpec, QueueSpec

(* So no acknowledged SMS is lost on the delivery path either. *)
THEOREM AckedSmsIsKeptByWorker == WorkerSpec => []NoAckedLoss
BY WorkerImplementsQueue, AckedSmsIsKept, PTL
-----------------------------------------------------------------------------
(* SentMeansDelivered is inductive with what the worker knows of the item in
   its hands: it holds one while it sends, and when it is about to file it
   under sent/ Telegram has accepted that very item. *)
DeliveryInv ==
  /\ sends \in [Item -> Nat]
  /\ wpc \in {"claimed", "send", "sent"} => held \in Item
  /\ wpc = "sent" => sends[held] >= 1
  /\ SentMeansDelivered

FilesNoneSent == \A i \in Item : dir'[i] = "sent" => dir[i] = "sent"

LEMMA MoveElsewhere ==
  ASSUME TypeInv, NEW i, NEW d, d # "sent", Move(i, d) PROVE FilesNoneSent
BY DEF Move, FilesNoneSent, TypeInv, QueueTypeOK

LEMMA OnlyMarkSentFiles ==
  ASSUME TypeInv, [QueueNext]_queueVars, ~MarkSent PROVE FilesNoneSent
<1>1. UNCHANGED dir => FilesNoneSent
  BY DEF FilesNoneSent
<1>2. CASE UNCHANGED queueVars
  BY <1>1, <1>2 DEF queueVars, disk
<1>3. CASE Start
  <2>1. ASSUME NEW i \in Item, RecoverItem(i) PROVE FilesNoneSent
    BY <2>1, MoveElsewhere DEF RecoverItem
  <2>2. ASSUME \A i \in Item : ~RecoverItem(i) PROVE UNCHANGED dir
    BY <1>3, <2>2 DEF Start, InitializeStart, ReconcileItem, InitializeDone,
         RecoverStart, RecoverDone, StopWorker, CancelWorkerCall, Close, disk
  <2> QED
    BY <1>1, <2>1, <2>2
<1>4. CASE Enqueue
  <2>1. ASSUME NEW h \in Hash, EnqueueWrite(h) PROVE FilesNoneSent
    BY <2>1, MoveElsewhere DEF EnqueueWrite
  <2>2. ASSUME EnqueueUndo PROVE FilesNoneSent
    BY <1>1, <2>2, MoveElsewhere DEF EnqueueUndo, Unlink
  <2>3. ASSUME ~EnqueueUndo, \A h \in Hash : ~EnqueueWrite(h)
        PROVE UNCHANGED dir
    BY <1>4, <2>3 DEF Enqueue, EnqueueDuplicate, EnqueuePendingDuplicate,
         EnqueueRecord, disk
  <2> QED
    BY <1>1, <2>1, <2>2, <2>3
<1>5. CASE Claim
  <2>1. ASSUME NEW i \in Item, ClaimCorrupt(i) \/ ClaimMove(i)
        PROVE FilesNoneSent
    BY <2>1, MoveElsewhere DEF ClaimCorrupt, ClaimMove
  <2>2. ASSUME \A i \in Item : ~ClaimCorrupt(i) /\ ~ClaimMove(i)
        PROVE UNCHANGED dir
    BY <1>5, <2>2 DEF Claim, ClaimStart, ClaimEmpty, ClaimPurgeCorrupt,
         ClaimPurgePayload, ClaimStatus, ClaimUnrecorded, ClaimRecord,
         ClaimDuplicate, disk
  <2> QED
    BY <1>1, <2>1, <2>2
<1>6. CASE Settle
  <2>1. ASSUME MarkFailedMove \/ MoveBackToPending PROVE FilesNoneSent
    BY <2>1, MoveElsewhere DEF MarkFailedMove, MoveBackToPending
  <2>2. ASSUME ~MarkFailedMove, ~MoveBackToPending PROVE UNCHANGED dir
    BY <1>6, <2>2 DEF Settle, MarkSentStatus, MarkFailedStatus, FinishStatus,
         MarkFailed, UpdateAttempt, disk
  <2> QED
    BY <1>1, <2>1, <2>2
<1>7. CASE Cleanup
  <2>1. ASSUME NEW i \in Item, RequeueMove(i) \/ CleanupUnlink(i)
        PROVE FilesNoneSent
    BY <2>1, MoveElsewhere DEF RequeueMove, CleanupUnlink, Unlink
  <2>2. ASSUME \A i \in Item : ~RequeueMove(i) /\ ~CleanupUnlink(i)
        PROVE UNCHANGED dir
    BY <1>7, <2>2 DEF Cleanup, RequeueStart, RequeueStatus, RequeueDone,
         RequeueSkip, CleanupStart, CleanupUnknown, CleanupPurge, disk
  <2> QED
    BY <1>1, <2>1, <2>2
<1>8. CASE Environment
  BY <1>1, <1>8 DEF Environment, Tick, Fault, Crash, RetryTimeComes, HealFile,
       DamageFile, ImportRow, disk
<1> QED
  BY <1>2, <1>3, <1>4, <1>5, <1>6, <1>7, <1>8 DEF QueueNext

LEMMA DeliveryInit == WorkerInit => DeliveryInv
BY DEF WorkerInit, QueueInit, DeliveryInv, SentMeansDelivered

(* A step that files nothing, counts no acceptance and leaves the worker where
   it is with what it holds, or where it holds nothing. *)
LEMMA DeliveryKept ==
  ASSUME DeliveryInv, FilesNoneSent, UNCHANGED sends,
         \/ UNCHANGED <<wpc, held>>
         \/ wpc' \notin {"claimed", "send", "sent"}
  PROVE  DeliveryInv'
BY DEF DeliveryInv, FilesNoneSent, SentMeansDelivered

(* An accepted POST is counted for the item the worker holds. *)
LEMMA AcceptedKept ==
  ASSUME DeliveryInv, wpc = "send", UNCHANGED <<dir, held>>,
         \/ Accepts(held)
         \/ UNCHANGED sends /\ wpc' # "sent"
  PROVE  DeliveryInv'
<1>1. CASE UNCHANGED sends /\ wpc' # "sent"
  BY <1>1 DEF DeliveryInv, SentMeansDelivered
<1>2. CASE Accepts(held)
  <2>1. held \in Item
    BY DEF DeliveryInv
  <2>2. /\ sends' \in [Item -> Nat] /\ sends'[held] >= 1
        /\ \A i \in Item : sends'[i] >= sends[i]
    BY <1>2, <2>1 DEF Accepts, DeliveryInv
  <2> QED
    BY <2>1, <2>2 DEF DeliveryInv, SentMeansDelivered
<1> QED
  BY <1>1, <1>2

LEMMA DeliveryClaim ==
  ASSUME TypeInv, AckInv, DeliveryInv, FilesNoneSent, ClaimSteps
  PROVE  DeliveryInv'
<1>1. CASE ClaimCall \/ ClaimGoesOn
  BY <1>1, DeliveryKept DEF ClaimCall, ClaimGoesOn, workerVars, loop, telegram,
       ClaimStart, ClaimCorrupt, ClaimMove, ClaimPurgeCorrupt,
       ClaimPurgePayload, ClaimUnrecorded, ClaimRecord
<1>2. CASE ClaimNothing \/ ClaimFails
  BY <1>2, DeliveryKept DEF ClaimNothing, ClaimFails, AfterNoWork, telegram
<1>3. CASE ClaimReturns
  <2>1. op.item \in Item /\ held' = op.item /\ wpc' = "claimed"
        /\ UNCHANGED sends
    BY <1>3 DEF ClaimReturns, ClaimStatus, AckInv, RowFollowsFile, telegram
  <2> QED
    BY <2>1 DEF DeliveryInv, FilesNoneSent, SentMeansDelivered
<1>4. CASE CheckDue
  BY <1>4 DEF CheckDue, DeliveryInv, FilesNoneSent, SentMeansDelivered,
       queueVars, disk, telegram
<1>5. CASE PutBack
  BY <1>5, DeliveryKept DEF PutBack, telegram
<1> QED
  BY <1>1, <1>2, <1>3, <1>4, <1>5 DEF ClaimSteps

LEMMA DeliverySend == ASSUME DeliveryInv, SendSteps PROVE DeliveryInv'
<1>1. UNCHANGED <<dir, held>> /\ wpc = "send"
  BY DEF SendSteps, BuildFails, PostOk, PostRefused, PostUnanswered,
         PostUnexpected, queueVars, disk
<1>2. CASE BuildFails \/ PostRefused
  BY <1>1, <1>2, AcceptedKept DEF BuildFails, PostRefused, telegram
<1>3. CASE PostOk
  BY <1>1, <1>3, AcceptedKept DEF PostOk
<1>4. ASSUME NEW accepted \in BOOLEAN,
             PostUnanswered(accepted) \/ PostUnexpected(accepted)
      PROVE DeliveryInv'
  <2>1. Accepts(held) \/ UNCHANGED sends
    BY <1>4 DEF PostUnanswered, PostUnexpected, Unseen, telegram
  <2>2. wpc' # "sent"
    BY <1>4 DEF PostUnanswered, PostUnexpected
  <2> QED
    BY <1>1, <2>1, <2>2, AcceptedKept
<1> QED
  BY <1>2, <1>3, <1>4 DEF SendSteps

LEMMA DeliverySettle ==
  ASSUME TypeInv, DeliveryInv, SettleSteps, MarkSent \/ FilesNoneSent
  PROVE  DeliveryInv'
<1>1. CASE SettleCall
  <2>1. UNCHANGED <<wpc, held, sends>>
    BY <1>1 DEF SettleCall, MarkSent, MarkFailed, workerVars, loop, telegram
  <2>2. CASE wpc = "sent" /\ MarkSent
    <3>1. \A i \in Item : dir'[i] = "sent" => dir[i] = "sent" \/ i = held
      BY <2>2 DEF MarkSent, Move, TypeInv, QueueTypeOK
    <3> QED
      BY <2>1, <2>2, <3>1 DEF DeliveryInv, SentMeansDelivered
  <2>3. CASE FilesNoneSent
    BY <2>1, <2>3, DeliveryKept
  <2>4. CASE \E perm \in BOOLEAN : MarkFailed(perm)
    BY <2>1, <2>4, DeliveryKept DEF MarkFailed, FilesNoneSent
  <2> QED
    BY <1>1, <2>2, <2>3, <2>4 DEF SettleCall
<1>2. CASE SettleGoesOn
  <2>1. FilesNoneSent
    BY <1>2, MoveElsewhere DEF SettleGoesOn, MarkFailedMove
  <2> QED
    BY <1>2, <2>1, DeliveryKept DEF SettleGoesOn, MarkFailedMove, workerVars,
         loop, telegram
<1>3. CASE SettleReturns
  <2>1. FilesNoneSent
    BY <1>3 DEF SettleReturns, MarkSentStatus, MarkFailedStatus, FinishStatus,
         disk, FilesNoneSent
  <2> QED
    BY <1>3, <2>1, DeliveryKept DEF SettleReturns, AfterWork, AfterNoWork, telegram
<1>4. CASE RetryCall
  <2>1. FilesNoneSent
    BY <1>4 DEF RetryCall, UpdateAttempt, FilesNoneSent
  <2> QED
    BY <1>4, <2>1, DeliveryKept DEF RetryCall, telegram
<1>5. CASE RetryPutBack
  <2>1. FilesNoneSent
    BY <1>5, MoveElsewhere DEF RetryPutBack, MoveBackToPending
  <2> QED
    BY <1>5, <2>1, DeliveryKept DEF RetryPutBack, AfterWork, telegram
<1>6. CASE WakesUp
  <2>1. FilesNoneSent
    BY <1>6 DEF WakesUp, queueVars, disk, FilesNoneSent
  <2> QED
    BY <1>6, <2>1, DeliveryKept DEF WakesUp, AfterWork, telegram
<1> QED
  BY <1>1, <1>2, <1>3, <1>4, <1>5, <1>6 DEF SettleSteps

LEMMA DeliveryCleanup ==
  ASSUME DeliveryInv, FilesNoneSent, CleanupSteps PROVE DeliveryInv'
<1>1. UNCHANGED <<wpc, sends>>
  BY DEF CleanupSteps, CleanupCall, CleanupGoesOn, CleanupReturns,
         CleanupInterval, Requeues, workerVars, loop, telegram
<1>2. UNCHANGED held
  BY DEF CleanupSteps, CleanupCall, CleanupGoesOn, CleanupReturns,
         CleanupInterval, Requeues, RequeueStart, CleanupStart, RequeueSkip,
         CleanupUnlink, CleanupUnknown, RequeueMove, RequeueStatus,
         RequeueDone, CleanupPurge, queueVars
<1> QED
  BY <1>1, <1>2, DeliveryKept

LEMMA DeliveryRelay ==
  ASSUME DeliveryInv, FilesNoneSent, RelaySteps PROVE DeliveryInv'
<1>1. CASE QueueStarts
  BY <1>1, DeliveryKept DEF QueueStarts, workerVars, loop, telegram,
       InitializeStart, ReconcileItem, InitializeDone, RecoverStart,
       RecoverItem, RecoverDone
<1>2. CASE StartWorker \/ StopCall
  BY <1>2, DeliveryKept DEF StartWorker, StopCall, loop, telegram, queueVars
<1>3. CASE EnqueueGoesOn \/ EnqueueReturns
  <2>1. UNCHANGED <<wpc, sends>>
    BY <1>3 DEF EnqueueGoesOn, EnqueueReturns, workerVars, loop, telegram
  <2>2. UNCHANGED held
    BY <1>3 DEF EnqueueGoesOn, EnqueueReturns, EnqueueWrite, EnqueueDuplicate,
         EnqueuePendingDuplicate, EnqueueRecord, EnqueueUndo
  <2> QED
    BY <2>1, <2>2, DeliveryKept
<1>4. CASE WorkerStopped
  BY <1>4, DeliveryKept DEF WorkerStopped, workerVars, loop, telegram
<1>5. CASE QueueCloses
  BY <1>5, DeliveryKept DEF QueueCloses, NewProcess, telegram
<1> QED
  BY <1>1, <1>2, <1>3, <1>4, <1>5 DEF RelaySteps

LEMMA DeliveryOther ==
  ASSUME DeliveryInv, FilesNoneSent,
         WorkerFault \/ OtherFault \/ WorkerCancelled \/ ProcessCrashes \/ World
  PROVE  DeliveryInv'
<1>1. CASE WorkerFault \/ WorkerCancelled \/ ProcessCrashes
  BY <1>1, DeliveryKept DEF WorkerFault, WorkerCancelled, ProcessCrashes,
       NewProcess, AfterNoWork
<1>2. CASE OtherFault
  BY <1>2, DeliveryKept DEF OtherFault, Fault, loop, telegram
<1>3. CASE World
  BY <1>3, DeliveryKept DEF World, workerVars, loop, telegram, Tick,
       RetryTimeComes, HealFile, DamageFile, ImportRow
<1> QED
  BY <1>1, <1>2, <1>3

NotFiling == op.pc # "idle" \/ op'.pc # "sent_status"

(* Only the worker's SettleCall is a mark_sent. *)
LEMMA OnlySettleFiles ==
  ASSUME TypeInv, [WorkerNext]_vars, ~SettleSteps PROVE FilesNoneSent
<1>1. NotFiling => ~MarkSent
  BY DEF NotFiling, MarkSent, InProcessing, Lockable, Idle
<1> SUFFICES NotFiling
  BY <1>1, WorkerStepRefines, OnlyMarkSentFiles
<1>2. UNCHANGED op => NotFiling
  BY DEF NotFiling
<1>3. op \in Op
  BY DEF TypeInv, QueueTypeOK
<1> USE <1>3 DEF NotFiling, Idle, Op
<1>4. CASE ClaimSteps
  <2>1. CASE ClaimCall \/ ClaimNothing \/ ClaimReturns \/ ClaimFails
    BY <2>1 DEF ClaimCall, ClaimNothing, ClaimReturns, ClaimFails, ClaimStart,
         ClaimEmpty, ClaimStatus, ClaimDuplicate
  <2>2. CASE ClaimGoesOn
    BY <2>2 DEF ClaimGoesOn, ClaimCorrupt, ClaimMove, ClaimPurgeCorrupt,
         ClaimPurgePayload, ClaimUnrecorded, ClaimRecord
  <2>3. CASE CheckDue \/ PutBack
    BY <1>2, <2>3 DEF CheckDue, PutBack, MoveBackToPending, queueVars
  <2> QED
    BY <1>4, <2>1, <2>2, <2>3 DEF ClaimSteps
<1>5. CASE SendSteps
  BY <1>2, <1>5, SendStepsRefine DEF queueVars
<1>6. CASE CleanupSteps
  <2>1. CASE CleanupCall
    BY <2>1 DEF CleanupCall, RequeueStart, CleanupStart
  <2>2. CASE CleanupInterval
    BY <1>2, <2>2 DEF CleanupInterval, queueVars
  <2>3. CASE CleanupGoesOn \/ CleanupReturns \/ \E i \in Item : Requeues(i)
    BY <2>3 DEF CleanupGoesOn, CleanupReturns, Requeues, RequeueSkip,
         CleanupUnlink, CleanupUnknown, RequeueMove, RequeueStatus,
         RequeueDone, CleanupPurge
  <2> QED
    BY <1>6, <2>1, <2>2, <2>3 DEF CleanupSteps
<1>7. CASE RelaySteps
  <2>1. CASE QueueStarts
    BY <2>1 DEF QueueStarts, InitializeStart, ReconcileItem, InitializeDone,
         RecoverStart, RecoverItem, RecoverDone
  <2>2. CASE StartWorker \/ StopCall \/ WorkerStopped \/ QueueCloses
    BY <1>2, <2>2 DEF StartWorker, StopCall, WorkerStopped, StopWorker,
         QueueCloses, Close, queueVars
  <2>3. CASE EnqueueGoesOn \/ EnqueueReturns
    BY <1>2, <2>3 DEF EnqueueGoesOn, EnqueueReturns, EnqueueWrite,
         EnqueueDuplicate, EnqueuePendingDuplicate, EnqueueRecord, EnqueueUndo,
         Idle
  <2> QED
    BY <1>7, <2>1, <2>2, <2>3 DEF RelaySteps
<1>8. CASE WorkerFault \/ OtherFault \/ WorkerCancelled \/ ProcessCrashes \/ World
  <2>1. UNCHANGED op \/ op' = Idle
    BY <1>8 DEF WorkerFault, OtherFault, WorkerCancelled, ProcessCrashes, World,
         Fault, Crash, StopWorker, CancelWorkerCall, Tick, RetryTimeComes,
         HealFile, DamageFile, ImportRow
  <2> QED
    BY <1>2, <2>1
<1>9. CASE UNCHANGED vars
  BY <1>2, <1>9 DEF vars, queueVars
<1> QED
  BY <1>4, <1>5, <1>6, <1>7, <1>8, <1>9 DEF WorkerNext

LEMMA DeliveryStep ==
  TypeInv /\ AckInv /\ DeliveryInv /\ [WorkerNext]_vars => DeliveryInv'
<1> SUFFICES ASSUME TypeInv, AckInv, DeliveryInv, [WorkerNext]_vars
             PROVE DeliveryInv'
  OBVIOUS
<1>1. CASE SettleSteps
  BY <1>1, WorkerStepRefines, OnlyMarkSentFiles, DeliverySettle
<1>2. CASE ~SettleSteps
  <2>1. FilesNoneSent
    BY <1>2, OnlySettleFiles
  <2>2. UNCHANGED vars => UNCHANGED <<wpc, held, sends>>
    BY DEF vars, queueVars, workerVars, loop, telegram
  <2> QED
    BY <1>2, <2>1, <2>2, DeliveryKept, DeliveryClaim, DeliverySend,
       DeliveryCleanup, DeliveryRelay, DeliveryOther DEF WorkerNext
<1> QED
  BY <1>1, <1>2

(* No SMS is filed as delivered before Telegram has accepted it: whatever
   fails, crashes or is cancelled, every file in sent/ is that of an item of
   which at least one copy was accepted. *)
THEOREM SentItemsWereDelivered == WorkerSpec => []SentMeansDelivered
<1>1. WorkerSpec => [](TypeInv /\ AckInv)
  BY WorkerImplementsQueue, TypeInit, TypeStep, AckInit, AckStep, PTL
  DEF QueueSpec
<1>2. DeliveryInv => SentMeansDelivered
  BY DEF DeliveryInv
<1> QED
  BY <1>1, <1>2, DeliveryInit, DeliveryStep, PTL DEF WorkerSpec
=============================================================================
