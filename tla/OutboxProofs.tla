---------------------------- MODULE OutboxProofs ----------------------------
(***************************************************************************)
(* The delivery path implements Outbox, nothing is sent again without a    *)
(* lost answer or record, no enqueue is missed by a waiting worker, and no *)
(* SMS is sent as two items, for every set of hashes and all values of the *)
(* bounds.                                                                 *)
(***************************************************************************)
EXTENDS DeliveryWorkerProofs

(* Which of its calls the worker is in, and no acceptance is counted for an
   item enqueue is still about to record. *)
CallOrder ==
  /\ op.pc \in ScanPcs \cup ClaimPcs => wpc = "claim"
  /\ op.pc = "sent_status" => wpc = "sent"
  /\ op.pc \in {"failed_move", "failed_status"} =>
       wpc \in {"fail", "fail_perm", "recover"}

Unsent ==
  /\ \A i \in Item : i >= nextItem => sends[i] = 0
  /\ op.pc = "record" => sends[op.item] = 0

LEMMA CallOrderInit == WorkerInit => CallOrder
BY DEF WorkerInit, QueueInit, CallOrder, ScanPcs, ClaimPcs, Idle

LEMMA IdlePc == Idle.pc = "idle"
BY DEF Idle

LEMMA CallOrderStep ==
  TypeInv /\ CallOrder /\ [WorkerNext]_vars => CallOrder'
<1> SUFFICES ASSUME TypeInv, CallOrder, [WorkerNext]_vars PROVE CallOrder'
  OBVIOUS
<1>0. op \in Op
  BY DEF TypeInv, QueueTypeOK
<1> USE <1>0, IdlePc, IdleType DEF CallOrder, ScanPcs, ClaimPcs, Op
<1>1. CASE ClaimSteps
  <2>1. CASE ClaimCall
    BY <2>1 DEF ClaimCall, ClaimStart, workerVars, loop
  <2>2. CASE ClaimGoesOn
    <3>1. op.pc \in ScanPcs \cup ClaimPcs /\ UNCHANGED wpc
      BY <2>2 DEF ClaimGoesOn, ClaimCorrupt, ClaimMove, ClaimPurgeCorrupt, ClaimPurgePayload,
         ClaimUnrecorded, ClaimRecord, workerVars, loop
    <3>2. op'.pc \in ScanPcs \cup ClaimPcs
      <4>1. CASE \E i \in Item : ClaimCorrupt(i) \/ ClaimMove(i)
        BY <4>1 DEF ClaimCorrupt, ClaimMove, Idle
      <4>2. CASE ClaimPurgeCorrupt
        <5>1. CASE op' = [op EXCEPT !.pc = "claim", !.item = 0]
          BY <5>1
        <5>2. CASE op' = [op EXCEPT !.pc = "purge_payload", !.item = 0]
          BY <5>2
        <5> QED
          BY <4>2, <5>1, <5>2 DEF ClaimPurgeCorrupt
      <4>3. CASE ClaimPurgePayload \/ ClaimUnrecorded \/ ClaimRecord
        BY <4>3 DEF ClaimPurgePayload, ClaimUnrecorded, ClaimRecord
      <4> QED
        BY <2>2, <4>1, <4>2, <4>3 DEF ClaimGoesOn
    <3> QED
      BY <3>1, <3>2
  <2>4. CASE ClaimNothing \/ ClaimFails \/ ClaimReturns
    <3>1. op' = Idle
      BY <2>4 DEF ClaimNothing, ClaimFails, ClaimReturns, ClaimEmpty, ClaimDuplicate, ClaimStatus
    <3> QED
      BY <3>1
  <2>3. CASE CheckDue \/ PutBack
    BY <2>3 DEF CheckDue, PutBack, MoveBackToPending, InProcessing, Lockable,
         queueVars
  <2> QED
    BY <1>1, <2>1, <2>2, <2>3, <2>4 DEF ClaimSteps
<1>2. CASE SendSteps
  BY <1>2 DEF SendSteps, BuildFails, PostOk, PostRefused, PostUnanswered,
       PostUnexpected, queueVars
<1>3. CASE SettleSteps
  <2>1. CASE SettleCall
    BY <2>1 DEF SettleCall, MarkSent, MarkFailed, workerVars, loop
  <2>2. CASE SettleGoesOn \/ SettleReturns
    BY <2>2 DEF SettleGoesOn, SettleReturns, MarkFailedMove, MarkSentStatus,
         MarkFailedStatus, FinishStatus, workerVars, loop
  <2>3. CASE RetryCall \/ RetryPutBack
    BY <2>3 DEF RetryCall, RetryPutBack, UpdateAttempt, MoveBackToPending,
         InProcessing, Lockable
  <2>4. CASE WakesUp
    BY <2>4 DEF WakesUp, queueVars
  <2> QED
    BY <1>3, <2>1, <2>2, <2>3, <2>4 DEF SettleSteps
<1>4. CASE CleanupSteps
  <2>1. CASE CleanupCall \/ CleanupInterval
    BY <2>1 DEF CleanupCall, CleanupInterval, RequeueStart, CleanupStart,
         workerVars, loop, queueVars
  <2>2. CASE CleanupGoesOn \/ CleanupReturns \/ \E i \in Item : Requeues(i)
    <3>1. ~WorkerCall'
      <4>1. CASE CleanupGoesOn
        BY <4>1 DEF CleanupGoesOn, RequeueSkip, CleanupUnlink, CleanupUnknown,
             WorkerCall
      <4>2. CASE CleanupReturns
        <5>1. op' = Idle \/ op'.pc = "requeue"
          BY <4>2 DEF CleanupReturns, RequeueStatus, RequeueDone, CleanupPurge
        <5> QED
          BY <5>1 DEF WorkerCall
      <4>3. CASE \E i \in Item : Requeues(i)
        BY <4>3 DEF Requeues, RequeueMove, WorkerCall
      <4> QED
        BY <2>2, <4>1, <4>2, <4>3
    <3> QED
      BY <3>1 DEF WorkerCall
  <2> QED
    BY <1>4, <2>1, <2>2 DEF CleanupSteps
<1>5. CASE RelaySteps
  <2>1. CASE QueueStarts
    <3>1. ~WorkerCall'
      <4>1. CASE InitializeStart \/ InitializeDone \/ RecoverStart \/ RecoverDone
        <5>1. op' = Idle \/ op'.pc \in {"reconcile", "recover"}
          BY <4>1 DEF InitializeStart, InitializeDone, RecoverStart,
             RecoverDone
        <5> QED
          BY <5>1 DEF WorkerCall
      <4>2. CASE ReconcileItem \/ \E i \in Item : RecoverItem(i)
        <5>1. op.pc \in {"reconcile", "recover"} /\ op'.pc = op.pc
          BY <4>2 DEF ReconcileItem, RecoverItem
        <5> QED
          BY <5>1 DEF WorkerCall
      <4> QED
        BY <2>1, <4>1, <4>2 DEF QueueStarts
    <3> QED
      BY <3>1 DEF WorkerCall
  <2>2. CASE StartWorker \/ StopCall \/ WorkerStopped \/ QueueCloses
    BY <2>2 DEF StartWorker, StopCall, WorkerStopped, StopWorker, WorkerCall,
         QueueCloses, NewProcess, Close, queueVars, workerVars, loop
  <2>3. CASE EnqueueGoesOn \/ EnqueueReturns
    <3>1. ~WorkerCall'
      <4>1. CASE EnqueueGoesOn
        BY <4>1 DEF EnqueueGoesOn, EnqueueWrite, WorkerCall
      <4>2. CASE EnqueueReturns
        BY <4>2 DEF EnqueueReturns, EnqueueDuplicate, EnqueuePendingDuplicate,
             EnqueueRecord, EnqueueUndo, Accepting, WorkerCall
      <4> QED
        BY <2>3, <4>1, <4>2
    <3> QED
      BY <3>1 DEF WorkerCall
  <2> QED
    BY <1>5, <2>1, <2>2, <2>3 DEF RelaySteps
<1>6. CASE WorkerFault \/ OtherFault \/ WorkerCancelled \/ ProcessCrashes
  <2>1. CASE WorkerFault \/ OtherFault \/ ProcessCrashes
    BY <2>1 DEF WorkerFault, OtherFault, ProcessCrashes, Fault, Crash
  <2>2. CASE WorkerCancelled
    BY <2>2 DEF WorkerCancelled, StopWorker, CancelWorkerCall, WorkerCall
  <2> QED
    BY <1>6, <2>1, <2>2
<1>7. CASE World
  BY <1>7 DEF World, Tick, RetryTimeComes, HealFile, DamageFile, ImportRow,
       workerVars, loop
<1>8. CASE UNCHANGED vars
  BY <1>8 DEF vars, queueVars, workerVars, loop
<1> QED
  BY <1>1, <1>2, <1>3, <1>4, <1>5, <1>6, <1>7, <1>8 DEF WorkerNext
-----------------------------------------------------------------------------
(* WorkerTypeOK needs to know that the worker holds an item when it skips,
   sends or retries one: DeliveryInv and HeldRange. *)
LEMMA WorkerTypeInit == WorkerInit => WorkerTypeOK
<1>1. 0 \in 0 .. MaxPosts - 1 /\ 0 \in 0 .. MaxSends /\ 0 \in Nat
  BY WorkerBoundsAssumption
<1> QED
  BY <1>1 DEF WorkerInit, WorkerTypeOK, WPCs

LEMMA WorkerTypeStep ==
  TypeInv /\ DeliveryInv /\ WorkerTypeOK /\ [WorkerNext]_vars => WorkerTypeOK'
<1> SUFFICES ASSUME TypeInv, DeliveryInv, WorkerTypeOK, [WorkerNext]_vars
             PROVE WorkerTypeOK'
  OBVIOUS
<1> USE WorkerBoundsAssumption DEF WorkerTypeOK, WPCs, workerVars, loop, events,
        telegram
<1>0. 0 \in 0 .. MaxPosts - 1 /\ \A n \in 0 .. MaxPosts - 1 :
        n + 1 < MaxPosts => n + 1 \in 0 .. MaxPosts - 1
  OBVIOUS
<1>1. AfterWork \in WPCs /\ AfterNoWork \in WPCs
  BY DEF AfterWork, AfterNoWork
<1>2. ASSUME Forget PROVE doubts' \in [Item -> Nat]
  <2>1. CASE UnfiledDelivery
    <3>1. held \in Item
      BY <2>1 DEF UnfiledDelivery, DeliveryInv
    <3> QED
      BY <1>2, <2>1, <3>1 DEF Forget
  <2> QED
    BY <1>2, <2>1 DEF Forget
<1>3. ASSUME held \in Item, Accepts(held)
      PROVE sends' \in [Item -> 0 .. MaxSends]
  <2>1. sends[held] + 1 \in 0 .. MaxSends
    BY <1>3 DEF Accepts
  <2> QED
    BY <1>3, <2>1 DEF Accepts
<1>4. CASE ClaimSteps
  <2>1. CASE ClaimCall \/ ClaimGoesOn
    BY <2>1 DEF ClaimCall, ClaimGoesOn
  <2>2. CASE ClaimNothing \/ ClaimFails \/ ClaimReturns
    BY <1>0, <1>1, <2>2 DEF ClaimNothing, ClaimFails, ClaimReturns, NewPass
  <2>3. CASE CheckDue
    <3>1. held \in Item
      BY <2>3 DEF CheckDue, DeliveryInv
    <3> QED
      BY <1>0, <2>3, <3>1 DEF CheckDue, NewPass
  <2>4. CASE PutBack
    BY <2>4 DEF PutBack
  <2> QED
    BY <1>4, <2>1, <2>2, <2>3, <2>4 DEF ClaimSteps
<1>5. CASE SendSteps
  <2>1. wpc = "send"
    BY <1>5 DEF SendSteps, BuildFails, PostOk, PostRefused, PostUnanswered,
         PostUnexpected
  <2>2. held \in Item
    BY <2>1 DEF DeliveryInv
  <2>3. CASE BuildFails \/ PostOk \/ PostRefused
    BY <1>0, <1>3, <2>2, <2>3 DEF BuildFails, PostOk, PostRefused
  <2>4. ASSUME NEW accepted \in BOOLEAN,
               PostUnanswered(accepted) \/ PostUnexpected(accepted)
        PROVE WorkerTypeOK'
    <3>1. Unseen(accepted)
      BY <2>4 DEF PostUnanswered, PostUnexpected
    <3>2. sends' \in [Item -> 0 .. MaxSends] /\ doubts' \in [Item -> Nat]
      BY <1>3, <2>2, <3>1 DEF Unseen
    <3>3. tries' \in 0 .. MaxPosts - 1
      BY <1>0, <2>4 DEF PostUnanswered, PostUnexpected
    <3> QED
      BY <2>4, <3>2, <3>3 DEF PostUnanswered, PostUnexpected
  <2> QED
    BY <1>5, <2>3, <2>4 DEF SendSteps
<1>6. CASE SettleSteps
  <2>1. CASE SettleCall \/ SettleGoesOn
    BY <2>1 DEF SettleCall, SettleGoesOn
  <2>2. CASE SettleReturns \/ RetryPutBack \/ WakesUp
    <3>1. wpc' \in WPCs
      BY <1>1, <2>2 DEF SettleReturns, RetryPutBack, WakesUp
    <3>2. wakeup' \in BOOLEAN
      BY <2>2 DEF SettleReturns, RetryPutBack, WakesUp
    <3> QED
      BY <2>2, <3>1, <3>2 DEF SettleReturns, RetryPutBack, WakesUp
  <2>3. CASE RetryCall
    <3>1. held \in Item
      BY <2>3, HeldRange DEF RetryCall, UpdateAttempt, InProcessing
    <3> QED
      BY <2>3, <3>1 DEF RetryCall
  <2> QED
    BY <1>6, <2>1, <2>2, <2>3 DEF SettleSteps
<1>7. CASE CleanupSteps
  BY <1>7 DEF CleanupSteps, CleanupCall, CleanupGoesOn, CleanupReturns,
       CleanupInterval, Requeues
<1>8. CASE RelaySteps
  <2>1. CASE QueueStarts \/ EnqueueGoesOn \/ EnqueueReturns \/ WorkerStopped
    BY <2>1 DEF QueueStarts, EnqueueGoesOn, EnqueueReturns, WorkerStopped
  <2>2. CASE StartWorker \/ StopCall \/ QueueCloses
    BY <1>0, <2>2 DEF StartWorker, StopCall, QueueCloses, NewProcess, NewPass
  <2> QED
    BY <1>8, <2>1, <2>2 DEF RelaySteps
<1>9. CASE WorkerFault
  BY <1>0, <1>1, <1>2, <1>9 DEF WorkerFault, NewPass
<1>10. CASE OtherFault \/ World
  BY <1>10 DEF OtherFault, World
<1>11. CASE WorkerCancelled \/ ProcessCrashes
  BY <1>0, <1>2, <1>11 DEF WorkerCancelled, ProcessCrashes, NewProcess, NewPass
<1>12. CASE UNCHANGED vars
  BY <1>12 DEF vars
<1> QED
  BY <1>4, <1>5, <1>6, <1>7, <1>8, <1>9, <1>10, <1>11, <1>12 DEF WorkerNext

LEMMA QueueInvariants == WorkerSpec => [](TypeInv /\ AckInv /\ PlaceInv)
BY WorkerImplementsQueue, TypeInit, TypeStep, AckInit, AckStep, PlaceInit,
   PlaceStep, PTL DEF QueueSpec

(* Every variable of the worker, of the Telegram client's loop and of the
   cleanup scheduler stays in its domain, for any number of items, POSTs and
   attempts. *)
THEOREM WorkerTypeCorrect == WorkerSpec => []WorkerTypeOK
<1>1. WorkerSpec => []DeliveryInv
  BY QueueInvariants, DeliveryInit, DeliveryStep, PTL DEF WorkerSpec
<1> QED
  BY <1>1, QueueInvariants, WorkerTypeInit, WorkerTypeStep, PTL DEF WorkerSpec
-----------------------------------------------------------------------------
(* How a step of the queue moves files. *)
NewFile ==
  /\ nextItem \in Item /\ nextItem' = nextItem + 1
  /\ dir[nextItem] = "none" /\ Move(nextItem, "pending")
  /\ op'.pc = "record" /\ op'.item = nextItem

Rename(from, to) ==
  /\ UNCHANGED nextItem
  /\ \E i \in Item : dir[i] = from /\ Move(i, to)

Undone ==
  /\ UNCHANGED nextItem
  /\ op.pc = "record" /\ op.item \in Item
  /\ dir[op.item] = "pending" /\ Move(op.item, "none")

FilesMove ==
  \/ UNCHANGED <<dir, nextItem>>
  \/ NewFile
  \/ Undone
  \/ Rename("pending", "processing") \/ Rename("processing", "pending")
  \/ Rename("pending", "failed") \/ Rename("failed", "pending")
  \/ Rename("processing", "sent") \/ Rename("processing", "failed")
  \/ Rename("sent", "none") \/ Rename("failed", "none")

LEMMA FilesMoveStep ==
  ASSUME TypeInv, AckInv, PlaceInv, [QueueNext]_queueVars PROVE FilesMove
<1>1. CASE UNCHANGED queueVars
  BY <1>1 DEF queueVars, disk, FilesMove
<1>2. CASE Start
  <2>1. ASSUME NEW i \in Item, RecoverItem(i) PROVE FilesMove
    <3>1. dir[i] = "processing"
      BY <2>1 DEF RecoverItem, First, PlaceInv, ScanPlace, Listing
    <3> QED
      BY <2>1, <3>1 DEF RecoverItem, FilesMove, Rename
  <2>2. ASSUME \A i \in Item : ~RecoverItem(i) PROVE FilesMove
    BY <1>2, <2>2 DEF Start, InitializeStart, ReconcileItem, InitializeDone,
         RecoverStart, RecoverDone, StopWorker, CancelWorkerCall, Close, disk,
         FilesMove
  <2> QED
    BY <2>1, <2>2
<1>3. CASE Enqueue
  <2>1. ASSUME NEW h \in Hash, EnqueueWrite(h) PROVE FilesMove
    <3>1. dir[nextItem] = "none"
      BY <2>1 DEF EnqueueWrite, AckInv, FreshIds, TypeInv, QueueTypeOK
    <3>2. op'.pc = "record" /\ op'.item = nextItem
      BY <2>1, IdleType DEF EnqueueWrite, Op
    <3> QED
      BY <2>1, <3>1, <3>2 DEF EnqueueWrite, FilesMove, NewFile
  <2>2. ASSUME EnqueueUndo PROVE FilesMove
    <3>1. op.item \in Item /\ dir[op.item] = "pending" /\ op.pc = "record"
      BY <2>2 DEF EnqueueUndo, PlaceInv, CallPlace, TypeInv, OpInOrder
    <3> QED
      BY <2>2, <3>1 DEF EnqueueUndo, Unlink, FilesMove, Undone
  <2>3. ASSUME ~EnqueueUndo, \A h \in Hash : ~EnqueueWrite(h) PROVE FilesMove
    BY <1>3, <2>3 DEF Enqueue, EnqueueDuplicate, EnqueuePendingDuplicate,
         EnqueueRecord, disk, FilesMove
  <2> QED
    BY <2>1, <2>2, <2>3
<1>4. CASE Claim
  <2>1. ASSUME NEW i \in Item, ClaimCorrupt(i) \/ ClaimMove(i) PROVE FilesMove
    <3>1. dir[i] = "pending"
      BY <2>1 DEF ClaimCorrupt, ClaimMove, First, PlaceInv, ScanPlace, ScanPcs, Listing
    <3> QED
      BY <2>1, <3>1 DEF ClaimCorrupt, ClaimMove, FilesMove, Rename
  <2>2. ASSUME \A i \in Item : ~ClaimCorrupt(i) /\ ~ClaimMove(i)
        PROVE FilesMove
    BY <1>4, <2>2 DEF Claim, ClaimStart, ClaimEmpty, ClaimPurgeCorrupt,
         ClaimPurgePayload, ClaimUnrecorded, ClaimRecord, ClaimStatus, ClaimDuplicate,
         disk, FilesMove
  <2> QED
    BY <2>1, <2>2
<1>5. CASE Settle
  <2>1. CASE MarkSent \/ MoveBackToPending
    BY <2>1, HeldRange DEF MarkSent, MoveBackToPending, InProcessing, FilesMove,
         Rename
  <2>2. CASE MarkFailedMove
    <3>1. op.item = held /\ held # 0 /\ dir[held] = "processing"
      BY <2>2 DEF MarkFailedMove, PlaceInv, CallPlace, HeldPlace
    <3> QED
      BY <2>2, <3>1, HeldRange DEF MarkFailedMove, FilesMove, Rename
  <2>3. CASE ~MarkSent /\ ~MoveBackToPending /\ ~MarkFailedMove
    BY <1>5, <2>3 DEF Settle, MarkSentStatus, MarkFailedStatus, FinishStatus,
         MarkFailed, UpdateAttempt, disk, FilesMove
  <2> QED
    BY <2>1, <2>2, <2>3
<1>6. CASE Cleanup
  <2>1. ASSUME NEW i \in Item, RequeueMove(i) PROVE FilesMove
    <3>1. dir[i] = "failed"
      BY <2>1 DEF RequeueMove, First, PlaceInv, ScanPlace, Listing
    <3> QED
      BY <2>1, <3>1 DEF RequeueMove, FilesMove, Rename
  <2>2. ASSUME NEW i \in Item, CleanupUnlink(i) PROVE FilesMove
    <3>1. dir[i] \in {"sent", "failed"}
      BY <2>2 DEF CleanupUnlink, First, PlaceInv, ScanPlace, Listing
    <3> QED
      BY <2>2, <3>1 DEF CleanupUnlink, Unlink, FilesMove, Rename
  <2>3. ASSUME \A i \in Item : ~RequeueMove(i) /\ ~CleanupUnlink(i)
        PROVE FilesMove
    BY <1>6, <2>3 DEF Cleanup, RequeueStart, RequeueStatus, RequeueDone,
         RequeueSkip, CleanupStart, CleanupUnknown, CleanupPurge, disk, FilesMove
  <2> QED
    BY <2>1, <2>2, <2>3
<1>7. CASE Environment
  BY <1>7 DEF Environment, Tick, Fault, Crash, RetryTimeComes, HealFile,
       DamageFile, ImportRow, disk, FilesMove
<1> QED
  BY <1>1, <1>2, <1>3, <1>4, <1>5, <1>6, <1>7 DEF QueueNext

(* enqueue creates an item in one step only. *)
LEMMA RecordKept ==
  ASSUME TypeInv, [QueueNext]_queueVars, op'.pc = "record"
  PROVE  UNCHANGED op \/ \E h \in Hash : EnqueueWrite(h)
<1> USE IdleType, IdlePc DEF Op
<1>0. op \in Op
  BY DEF TypeInv, QueueTypeOK
<1>1. CASE UNCHANGED queueVars
  BY <1>1 DEF queueVars
<1>2. CASE Start
  BY <1>0, <1>2 DEF Start, InitializeStart, ReconcileItem, InitializeDone,
     RecoverStart, RecoverItem, RecoverDone, StopWorker, CancelWorkerCall, Close
<1>3. CASE Enqueue
  BY <1>3 DEF Enqueue, EnqueueDuplicate, EnqueuePendingDuplicate, EnqueueRecord,
     EnqueueUndo
<1>4. CASE Claim
  BY <1>0, <1>4 DEF Claim, ClaimStart, ClaimCorrupt, ClaimMove, ClaimEmpty,
     ClaimPurgeCorrupt, ClaimPurgePayload, ClaimUnrecorded, ClaimRecord, ClaimStatus, ClaimDuplicate
<1>5. CASE Settle
  BY <1>0, <1>5 DEF Settle, MarkSent, MarkSentStatus, MarkFailed, MarkFailedMove,
     MarkFailedStatus, FinishStatus, UpdateAttempt, MoveBackToPending
<1>6. CASE Cleanup
  BY <1>0, <1>6 DEF Cleanup, RequeueStart, RequeueStatus, RequeueDone,
     CleanupStart, RequeueSkip, RequeueMove, CleanupUnlink, CleanupUnknown,
     CleanupPurge
<1>7. CASE Environment
  BY <1>7 DEF Environment, Tick, Fault, Crash, RetryTimeComes, HealFile,
     DamageFile, ImportRow
<1> QED
  BY <1>1, <1>2, <1>3, <1>4, <1>5, <1>6, <1>7 DEF QueueNext

(* Only the Telegram client's loop counts acceptances, and only for an item
   that waits in processing/. *)
LEMMA SendsKept ==
  ASSUME [WorkerNext]_vars, ~SendSteps PROVE UNCHANGED sends
<1> USE DEF telegram, workerVars
<1>1. CASE ClaimSteps
  BY <1>1 DEF ClaimSteps, ClaimCall, ClaimGoesOn, ClaimNothing, ClaimFails, ClaimReturns,
     CheckDue, PutBack
<1>2. CASE SettleSteps
  BY <1>2 DEF SettleSteps, SettleCall, SettleGoesOn, SettleReturns, RetryCall,
     RetryPutBack, WakesUp
<1>3. CASE CleanupSteps
  BY <1>3 DEF CleanupSteps, CleanupCall, CleanupGoesOn, CleanupReturns,
     CleanupInterval, Requeues
<1>4. CASE RelaySteps
  BY <1>4 DEF RelaySteps, QueueStarts, StartWorker, EnqueueGoesOn,
     EnqueueReturns, StopCall, WorkerStopped, QueueCloses
<1>5. CASE WorkerFault \/ OtherFault \/ WorkerCancelled \/ ProcessCrashes
           \/ World \/ UNCHANGED vars
  BY <1>5 DEF WorkerFault, OtherFault, WorkerCancelled, ProcessCrashes, World,
     vars
<1> QED
  BY <1>1, <1>2, <1>3, <1>4, <1>5 DEF WorkerNext

Transmits ==
  /\ held \in Item /\ dir[held] = "processing"
  /\ sends' = [sends EXCEPT ![held] = @ + 1]

LEMMA SendsMove ==
  ASSUME TypeInv, PlaceInv, CallOrder, DeliveryInv, SendSteps
  PROVE  UNCHANGED queueVars /\ (Transmits \/ UNCHANGED sends)
<1>1. wpc = "send" /\ UNCHANGED queueVars
  BY DEF SendSteps, BuildFails, PostOk, PostRefused, PostUnanswered,
         PostUnexpected
<1>2. held \in Item /\ held # 0
  BY <1>1, BoundsAssumption DEF DeliveryInv, Item
<1>3. dir[held] = "processing"
  BY <1>1, <1>2 DEF PlaceInv, HeldPlace, CallOrder
<1>4. Accepts(held) \/ UNCHANGED sends
  BY DEF SendSteps, BuildFails, PostOk, PostRefused, PostUnanswered,
         PostUnexpected, Unseen, telegram
<1> QED
  BY <1>1, <1>2, <1>3, <1>4 DEF Accepts, Transmits

LEMMA UnsentInit == WorkerInit => Unsent
BY DEF WorkerInit, QueueInit, Unsent, Idle

LEMMA UnsentStep ==
  TypeInv /\ AckInv /\ PlaceInv /\ CallOrder /\ DeliveryInv /\ Unsent
    /\ [WorkerNext]_vars => Unsent'
<1> SUFFICES ASSUME TypeInv, AckInv, PlaceInv, CallOrder, DeliveryInv, Unsent,
                    [WorkerNext]_vars
             PROVE  Unsent'
  OBVIOUS
<1>0. [QueueNext]_queueVars /\ sends \in [Item -> Nat] /\ nextItem \in Nat
  BY WorkerStepRefines DEF DeliveryInv, TypeInv, QueueTypeOK
<1>1. CASE SendSteps
  <2>1. UNCHANGED <<op, dir, nextItem>> /\ (Transmits \/ UNCHANGED sends)
    BY <1>1, SendsMove DEF queueVars, disk
  <2>2. CASE UNCHANGED sends
    BY <2>1, <2>2 DEF Unsent
  <2>3. CASE Transmits
    <3>1. held < nextItem
      BY DEF AckInv, FreshIds
    <3>2. op.pc = "record" => op.item # held
      BY <2>3 DEF Transmits, PlaceInv, CallPlace
    <3>3. \A i \in Item : i # held => sends'[i] = sends[i]
      BY <1>0, <2>3 DEF Transmits
    <3>4. \A i \in Item : i >= nextItem => i # held
      BY <1>0, <2>3, <3>1 DEF Transmits, Item
    <3>5. op.pc = "record" => op.item \in Item
      BY DEF TypeInv, OpInOrder
    <3> QED
      BY <2>1, <3>2, <3>3, <3>4, <3>5 DEF Unsent
  <2> QED
    BY <2>1, <2>2, <2>3
<1>2. CASE ~SendSteps
  <2>1. UNCHANGED sends
    BY <1>2, SendsKept
  <2>2. nextItem' \in Nat /\ nextItem' >= nextItem
    BY <1>0, FilesMoveStep DEF FilesMove, NewFile, Undone, Rename
  <2>3. \A i \in Item : i >= nextItem' => sends[i] = 0
    BY <1>0, <2>2 DEF Unsent, Item
  <2>4. op'.pc = "record" => sends[op'.item] = 0
    <3>1. ASSUME NEW h \in Hash, EnqueueWrite(h) PROVE sends[op'.item] = 0
      <4>1. op'.item = nextItem /\ nextItem \in Item
        BY <3>1, IdleType DEF EnqueueWrite, Op
      <4> QED
        BY <1>0, <4>1 DEF Unsent
    <3> QED
      BY <1>0, <3>1, RecordKept DEF Unsent
  <2> QED
    BY <2>1, <2>3, <2>4 DEF Unsent
<1> QED
  BY <1>1, <1>2
-----------------------------------------------------------------------------
OutboxStage == [i \in Item |-> StageOf(dir[i])]

LEMMA StageMoves ==
  ASSUME TypeInv, NEW i \in Item, NEW d, Move(i, d)
  PROVE  OutboxStage' = [OutboxStage EXCEPT ![i] = StageOf(d)]
BY DEF TypeInv, QueueTypeOK, Move, OutboxStage

LEMMA RenameRefines ==
  ASSUME TypeInv, DeliveryInv', UNCHANGED sends, NEW from, NEW to,
         <<from, to>> \in {<<"pending", "processing">>, <<"processing", "pending">>,
           <<"pending", "failed">>, <<"failed", "pending">>,
           <<"processing", "sent">>, <<"processing", "failed">>,
           <<"sent", "none">>, <<"failed", "none">>},
         Rename(from, to)
  PROVE  [Box!OutboxNext]_(Box!outboxVars)
<1>1. PICK i \in Item : dir[i] = from /\ Move(i, to)
  BY DEF Rename
<1>2. OutboxStage' = [OutboxStage EXCEPT ![i] = StageOf(to)]
  BY <1>1, StageMoves
<1>3. OutboxStage[i] = StageOf(from)
  BY <1>1 DEF OutboxStage
<1>4. nextItem' = nextItem
  BY DEF Rename
<1>5. CASE <<from, to>> \in {<<"pending", "processing">>, <<"processing", "pending">>}
  <2>1. OutboxStage' = OutboxStage
    BY <1>2, <1>3, <1>5 DEF StageOf, OutboxStage
  <2> QED
    BY <1>4, <2>1 DEF Box!outboxVars, OutboxStage
<1>6. CASE to = "failed"
  <2>1. StageOf(from) = "waiting" /\ StageOf(to) = "failed"
    BY <1>6 DEF StageOf
  <2>2. Box!GiveUp(i)
    BY <1>2, <1>3, <1>4, <2>1 DEF Box!GiveUp, Box!Goes, OutboxStage
  <2> QED
    BY <2>2 DEF Box!OutboxNext
<1>7. CASE from = "failed" /\ to = "pending"
  <2>1. StageOf(from) = "failed" /\ StageOf(to) = "waiting"
    BY <1>7 DEF StageOf
  <2>2. Box!TakeBack(i)
    BY <1>2, <1>3, <1>4, <2>1 DEF Box!TakeBack, Box!Goes, OutboxStage
  <2> QED
    BY <2>2 DEF Box!OutboxNext
<1>8. CASE to = "sent"
  <2>1. StageOf(from) = "waiting" /\ StageOf(to) = "delivered"
    BY <1>8 DEF StageOf
  <2>2. dir'[i] = "sent"
    BY <1>1, <1>8 DEF Move, TypeInv, QueueTypeOK
  <2>3. sends[i] >= 1
    BY <2>2 DEF DeliveryInv, SentMeansDelivered
  <2>4. Box!Deliver(i)
    BY <1>2, <1>3, <1>4, <2>1, <2>3 DEF Box!Deliver, Box!Goes, OutboxStage
  <2> QED
    BY <2>4 DEF Box!OutboxNext
<1>9. CASE to = "none"
  <2>1. StageOf(from) \in {"delivered", "failed"} /\ StageOf(to) = "none"
    BY <1>9 DEF StageOf
  <2>2. Box!Expire(i)
    BY <1>2, <1>3, <1>4, <2>1 DEF Box!Expire, Box!Goes, OutboxStage
  <2> QED
    BY <2>2 DEF Box!OutboxNext
<1> QED
  BY <1>5, <1>6, <1>7, <1>8, <1>9

LEMMA OutboxStarts == WorkerInit => Box!OutboxInit
<1> SUFFICES ASSUME WorkerInit PROVE Box!OutboxInit
  OBVIOUS
<1>1. 1 .. nextItem - 1 = {}
  BY DEF WorkerInit, QueueInit
<1>2. \A i \in Item : StageOf(dir[i]) = "none"
  BY DEF WorkerInit, QueueInit, StageOf
<1> QED
  BY <1>1, <1>2 DEF WorkerInit, Box!OutboxInit

LEMMA OutboxStep ==
  ASSUME TypeInv, AckInv, PlaceInv, CallOrder, DeliveryInv, DeliveryInv', Unsent,
         [WorkerNext]_vars
  PROVE  [Box!OutboxNext]_(Box!outboxVars)
<1>1. CASE SendSteps
  <2>1. UNCHANGED <<dir, nextItem>> /\ (Transmits \/ UNCHANGED sends)
    BY <1>1, SendsMove DEF queueVars, disk
  <2>2. CASE Transmits
    <3>1. StageOf(dir[held]) = "waiting"
      BY <2>2 DEF Transmits, StageOf
    <3>2. Box!Transmit(held)
      BY <2>1, <2>2, <3>1 DEF Box!Transmit, Transmits
    <3> QED
      BY <2>2, <3>2 DEF Box!OutboxNext, Transmits
  <2> QED
    BY <2>1, <2>2 DEF Box!outboxVars
<1>2. CASE ~SendSteps
  <2>1. UNCHANGED sends
    BY <1>2, SendsKept
  <2>2. FilesMove
    BY WorkerStepRefines, FilesMoveStep
  <2>3. CASE UNCHANGED <<dir, nextItem>>
    BY <2>1, <2>3 DEF Box!outboxVars
  <2>4. CASE NewFile
    <3>1. OutboxStage[nextItem] = "none"
      BY <2>4 DEF NewFile, OutboxStage, StageOf
    <3>2. StageOf("pending") = "waiting"
      BY DEF StageOf
    <3>3. OutboxStage' = [OutboxStage EXCEPT ![nextItem] = "waiting"]
      BY <2>4, <3>2, StageMoves DEF NewFile
    <3>4. 1 .. nextItem' - 1 = (1 .. nextItem - 1) \cup {nextItem}
      BY <2>4, BoundsAssumption DEF NewFile, Item
    <3>5. nextItem \notin 1 .. nextItem - 1
      BY <2>4, BoundsAssumption DEF NewFile, Item
    <3>6. Box!Take(nextItem)
      BY <2>1, <3>1, <3>3, <3>4, <3>5 DEF Box!Take, Box!Goes, OutboxStage
    <3> QED
      BY <2>4, <3>6 DEF Box!OutboxNext, NewFile
  <2>5. CASE Undone
    <3>1. OutboxStage[op.item] = "waiting" /\ StageOf("none") = "none"
      BY <2>5 DEF Undone, OutboxStage, StageOf
    <3>2. OutboxStage' = [OutboxStage EXCEPT ![op.item] = "none"]
      BY <2>5, <3>1, StageMoves DEF Undone
    <3>3. sends[op.item] = 0
      BY <2>5 DEF Undone, Unsent
    <3>4. Box!Withdraw(op.item)
      BY <2>1, <2>5, <3>1, <3>2, <3>3
      DEF Undone, Box!Withdraw, Box!Goes, OutboxStage
    <3> QED
      BY <2>5, <3>4 DEF Box!OutboxNext, Undone
  <2>6. CASE \/ Rename("pending", "processing") \/ Rename("processing", "pending")
             \/ Rename("pending", "failed") \/ Rename("failed", "pending")
             \/ Rename("processing", "sent") \/ Rename("processing", "failed")
             \/ Rename("sent", "none") \/ Rename("failed", "none")
    BY <2>1, <2>6, RenameRefines
  <2> QED
    BY <2>2, <2>3, <2>4, <2>5, <2>6 DEF FilesMove
<1> QED
  BY <1>1, <1>2

(* The delivery path implements Outbox: under the mapping that forgets
   everything but the stage of each item and the copies Telegram accepted,
   every step, every crash, error, cancellation and restart included, is a step
   of Outbox or none. *)
THEOREM DeliveryImplementsOutbox == WorkerSpec => ImplementsOutbox
<1>1. WorkerSpec => [](DeliveryInv /\ CallOrder)
  BY QueueInvariants, DeliveryInit, DeliveryStep, CallOrderInit, CallOrderStep,
     PTL DEF WorkerSpec
<1>2. WorkerSpec => []Unsent
  BY <1>1, QueueInvariants, UnsentInit, UnsentStep, PTL DEF WorkerSpec
<1> QED
  BY <1>1, <1>2, QueueInvariants, OutboxStarts, OutboxStep, PTL
  DEF WorkerSpec, ImplementsOutbox, Box!OutboxSpec
-----------------------------------------------------------------------------
(* Every copy is accounted for: by a doubt, or, the last one, by a file that is
   out of the worker's reach or about to be. *)
Known(i) == dir[i] \in {"sent", "none"} \/ (wpc = "sent" /\ held = i)

Accounted ==
  \A i \in Item : sends[i] <= doubts[i] \/ (Known(i) /\ sends[i] = doubts[i] + 1)

AccountInv ==
  TypeInv /\ AckInv /\ PlaceInv /\ CallOrder /\ DeliveryInv /\ WorkerTypeOK /\ Unsent

LEMMA SentStays ==
  ASSUME TypeInv, Unsent, FilesMove, NEW i \in Item, dir[i] \in {"sent", "none"}
  PROVE  dir'[i] \in {"sent", "none"} \/ sends[i] = 0
<1>1. CASE UNCHANGED dir
  BY <1>1
<1>2. CASE NewFile
  <2>1. sends[nextItem] = 0
    BY <1>2 DEF NewFile, Unsent, Item
  <2> QED
    BY <1>2, <2>1 DEF NewFile, Move, TypeInv, QueueTypeOK
<1>3. CASE Undone
  BY <1>3 DEF Undone, Move, TypeInv, QueueTypeOK
<1>4. ASSUME NEW from, NEW to, from \notin {"sent", "none"} \/ to = "none", Rename(from, to)
      PROVE  dir'[i] \in {"sent", "none"}
  BY <1>4 DEF Rename, Move, TypeInv, QueueTypeOK
<1> QED
  BY <1>1, <1>2, <1>3, <1>4 DEF FilesMove

(* A step without an acceptance may end the worker's hold on an item it has
   just delivered, once the file is in sent/ or the delivery is in doubt. *)
LEMMA AccountKept ==
  ASSUME AccountInv, Accounted, [QueueNext]_queueVars, UNCHANGED sends,
         \/ UNCHANGED doubts
         \/ wpc = "sent" /\ doubts' = [doubts EXCEPT ![held] = @ + 1],
         wpc = "sent" =>
           \/ wpc' = "sent" /\ held' = held
           \/ dir[held] = "sent"
           \/ doubts' = [doubts EXCEPT ![held] = @ + 1]
  PROVE  Accounted'
<1>1. sends \in [Item -> Nat] /\ doubts \in [Item -> Nat]
      /\ (wpc = "sent" => held \in Item)
  BY DEF AccountInv, DeliveryInv, WorkerTypeOK
<1>2. \A i \in Item : doubts'[i] \in Nat /\ doubts'[i] >= doubts[i]
  BY <1>1
<1>3. ASSUME NEW i \in Item
      PROVE  sends[i] <= doubts'[i] \/ (Known(i)' /\ sends[i] = doubts'[i] + 1)
  <2>1. CASE sends[i] <= doubts[i]
    BY <1>1, <1>2, <2>1
  <2>2. CASE Known(i) /\ sends[i] = doubts[i] + 1
    <3>1. CASE dir[i] \in {"sent", "none"}
      <4>1. dir'[i] \in {"sent", "none"}
        BY <1>1, <2>2, <3>1, FilesMoveStep, SentStays DEF AccountInv
      <4> QED
        BY <1>1, <1>2, <2>2, <4>1 DEF Known
    <3>2. CASE dir[i] \notin {"sent", "none"}
      <4>1. wpc = "sent" /\ held = i
        BY <2>2, <3>2 DEF Known
      <4>2. \/ wpc' = "sent" /\ held' = i
            \/ doubts'[i] = doubts[i] + 1
        BY <1>1, <3>2, <4>1
      <4> QED
        BY <1>1, <1>2, <2>2, <4>2 DEF Known
    <3> QED
      BY <3>1, <3>2
  <2> QED
    BY <2>1, <2>2 DEF Accounted
<1> QED
  BY <1>3 DEF Accounted

LEMMA AccountInit == WorkerInit => Accounted
BY DEF WorkerInit, Accounted

(* A copy whose answer arrives is the one on hand; any other is in doubt. *)
LEMMA AccountOfSends ==
  ASSUME AccountInv, Accounted, SendSteps PROVE Accounted'
<1>1. wpc = "send" /\ UNCHANGED queueVars
  BY DEF SendSteps, BuildFails, PostOk, PostRefused, PostUnanswered, PostUnexpected
<1>2. held \in Item /\ UNCHANGED <<dir, held>>
      /\ sends \in [Item -> Nat] /\ doubts \in [Item -> Nat]
  BY <1>1 DEF AccountInv, DeliveryInv, WorkerTypeOK, queueVars, disk
<1>3. CASE UNCHANGED telegram
  BY <1>1, <1>2, <1>3 DEF Accounted, Known, telegram
<1>4. CASE PostOk /\ sends' # sends
  <2>1. dir[held] = "processing" /\ sends' = [sends EXCEPT ![held] = @ + 1]
    BY <1>4, SendsMove DEF AccountInv, Transmits
  <2>2. sends[held] <= doubts[held]
    BY <1>1, <1>2, <2>1 DEF Accounted, Known
  <2>3. wpc' = "sent" /\ UNCHANGED doubts
    BY <1>4 DEF PostOk
  <2> QED
    BY <1>1, <1>2, <2>1, <2>2, <2>3 DEF Accounted, Known
<1>5. CASE sends' = [sends EXCEPT ![held] = @ + 1]
           /\ doubts' = [doubts EXCEPT ![held] = @ + 1]
  <2>1. \A i \in Item : Known(i) => Known(i)'
    BY <1>1, <1>2 DEF Known
  <2> QED
    BY <1>2, <1>5, <2>1 DEF Accounted
<1>6. PostOk => sends' # sends
  BY <1>2 DEF PostOk, Accepts
<1> QED
  BY <1>3, <1>4, <1>5, <1>6
  DEF SendSteps, BuildFails, PostRefused, PostUnanswered, PostUnexpected, Unseen, Accepts

(* An interruption forgets a delivery, or finds its file in sent/. *)
LEMMA AccountOfInterruptions ==
  ASSUME AccountInv, Accounted, UNCHANGED sends, [QueueNext]_queueVars,
         WorkerFault \/ WorkerCancelled \/ ProcessCrashes
  PROVE  Accounted'
<1>1. Forget
  BY DEF WorkerFault, WorkerCancelled, ProcessCrashes
<1>2. CASE UnfiledDelivery
  BY <1>1, <1>2, AccountKept DEF Forget, UnfiledDelivery
<1>3. CASE ~UnfiledDelivery
  <2>1. UNCHANGED doubts
    BY <1>1, <1>3 DEF Forget
  <2>2. ASSUME wpc = "sent" PROVE dir[held] = "sent"
    <3>1. held \in Item /\ held # 0 /\ dir[held] # "processing"
      BY <1>3, <2>2, BoundsAssumption DEF UnfiledDelivery, AccountInv, DeliveryInv, Item
    <3>2. op.pc \in {"sent_status", "failed_status"}
      BY <3>1 DEF AccountInv, PlaceInv, HeldPlace
    <3> QED
      BY <2>2, <3>2 DEF AccountInv, CallOrder, PlaceInv, CallPlace
  <2> QED
    BY <2>1, <2>2, AccountKept
<1> QED
  BY <1>2, <1>3

LEMMA AccountOfOthers ==
  ASSUME AccountInv, Accounted, UNCHANGED sends, [QueueNext]_queueVars,
         \/ ClaimSteps \/ SettleSteps \/ CleanupSteps \/ RelaySteps
         \/ OtherFault \/ World \/ UNCHANGED vars
  PROVE  Accounted'
<1> USE DEF workerVars, loop, telegram
<1>1. UNCHANGED doubts
  BY DEF ClaimSteps, ClaimCall, ClaimGoesOn, ClaimNothing, ClaimFails, ClaimReturns, CheckDue,
     PutBack, SettleSteps, SettleCall, SettleGoesOn, SettleReturns, RetryCall,
     RetryPutBack, WakesUp, CleanupSteps, CleanupCall, CleanupGoesOn, CleanupReturns,
     CleanupInterval, Requeues, RelaySteps, QueueStarts, StartWorker, EnqueueGoesOn,
     EnqueueReturns, StopCall, WorkerStopped, QueueCloses, OtherFault, World, vars
<1>2. wpc # "sent" => Accounted'
  BY <1>1, AccountKept
<1>3. UNCHANGED <<wpc, held>> => Accounted'
  BY <1>1, AccountKept
<1>4. CASE ClaimSteps
  <2>1. CASE ClaimGoesOn
    BY <1>3, <2>1 DEF ClaimGoesOn, ClaimCorrupt, ClaimMove, ClaimPurgeCorrupt, ClaimPurgePayload,
      ClaimUnrecorded, ClaimRecord
  <2>2. CASE ClaimReturns
    <3>1. op.pc \in ClaimPcs
      BY <2>2 DEF ClaimReturns, ClaimStatus, ClaimDuplicate, ClaimPcs
    <3> QED
      BY <1>2, <3>1 DEF AccountInv, CallOrder
  <2>3. CASE ClaimCall \/ ClaimNothing \/ CheckDue \/ PutBack
    BY <1>2, <2>3 DEF ClaimCall, ClaimNothing, CheckDue, PutBack
  <2>4. CASE ClaimFails
    <3>1. op.pc \in ClaimPcs
      BY <2>4 DEF ClaimFails, ClaimDuplicate, ClaimPcs
    <3> QED
      BY <1>2, <3>1 DEF AccountInv, CallOrder
  <2> QED
    BY <1>4, <2>1, <2>2, <2>3, <2>4 DEF ClaimSteps
<1>5. CASE SettleSteps
  <2>1. CASE SettleCall \/ SettleGoesOn
    BY <1>3, <2>1 DEF SettleCall, SettleGoesOn, MarkSent, MarkFailed, MarkFailedMove
  <2>2. CASE SettleReturns
    <3>1. op.pc \in {"sent_status", "failed_status"}
      BY <2>2 DEF SettleReturns, MarkSentStatus, MarkFailedStatus, FinishStatus
    <3>2. wpc = "sent" => dir[held] = "sent"
      BY <3>1 DEF AccountInv, CallOrder, PlaceInv, CallPlace
    <3> QED
      BY <1>1, <3>2, AccountKept
  <2>3. CASE RetryCall \/ RetryPutBack \/ WakesUp
    BY <1>2, <2>3 DEF RetryCall, RetryPutBack, WakesUp
  <2> QED
    BY <1>5, <2>1, <2>2, <2>3 DEF SettleSteps
<1>6. CASE CleanupSteps
  BY <1>3, <1>6
  DEF CleanupSteps, CleanupCall, CleanupGoesOn, CleanupReturns, CleanupInterval,
      Requeues, RequeueStart, CleanupStart, RequeueSkip, CleanupUnlink, CleanupUnknown,
      RequeueMove, RequeueStatus, RequeueDone, CleanupPurge, queueVars
<1>7. CASE RelaySteps
  <2>1. CASE QueueStarts
    BY <1>3, <2>1
    DEF QueueStarts, InitializeStart, ReconcileItem, InitializeDone, RecoverStart,
        RecoverItem, RecoverDone
  <2>2. CASE StartWorker \/ WorkerStopped
    BY <1>2, <2>2 DEF StartWorker, WorkerStopped
  <2>3. CASE StopCall
    BY <1>3, <2>3 DEF StopCall, queueVars
  <2>4. CASE EnqueueGoesOn \/ EnqueueReturns
    BY <1>3, <2>4 DEF EnqueueGoesOn, EnqueueReturns, EnqueueWrite, EnqueueDuplicate,
       EnqueuePendingDuplicate, EnqueueRecord, EnqueueUndo
  <2>5. CASE QueueCloses
    <3>1. phase # "ready" /\ op.pc = "idle"
      BY <2>5 DEF QueueCloses, Close
    <3>2. held = 0
      BY <3>1 DEF AccountInv, PlaceInv, HeldPlace, CallPlace
    <3>3. wpc # "sent"
      BY <3>2, BoundsAssumption DEF AccountInv, DeliveryInv, Item
    <3> QED
      BY <1>2, <3>3
  <2> QED
    BY <1>7, <2>1, <2>2, <2>3, <2>4, <2>5 DEF RelaySteps
<1>8. CASE OtherFault
  BY <1>3, <1>8 DEF OtherFault, Fault
<1>9. CASE World
  BY <1>3, <1>9 DEF World, Tick, RetryTimeComes, HealFile, DamageFile, ImportRow
<1>10. CASE UNCHANGED vars
  BY <1>3, <1>10 DEF vars, queueVars
<1> QED
  BY <1>4, <1>5, <1>6, <1>7, <1>8, <1>9, <1>10

LEMMA AccountStep ==
  ASSUME AccountInv, Accounted, [WorkerNext]_vars PROVE Accounted'
<1>1. CASE SendSteps
  BY <1>1, AccountOfSends
<1>2. CASE ~SendSteps
  <2>1. UNCHANGED sends /\ [QueueNext]_queueVars
    BY <1>2, SendsKept, WorkerStepRefines
  <2> QED
    BY <1>2, <2>1, AccountOfInterruptions, AccountOfOthers DEF WorkerNext
<1> QED
  BY <1>1, <1>2

(* Telegram is given an SMS again only after an answer to an earlier copy was
   lost, or after an interruption between an acceptance and the rename with
   which mark_sent records it: no retry, requeue, recovery or restart resends
   an item whose file has reached sent/. *)
THEOREM ResendsHaveReasons == WorkerSpec => []ResendsExplained
<1>1. WorkerSpec => [](DeliveryInv /\ CallOrder)
  BY QueueInvariants, DeliveryInit, DeliveryStep, CallOrderInit, CallOrderStep,
     PTL DEF WorkerSpec
<1>2. WorkerSpec => []Unsent
  BY <1>1, QueueInvariants, UnsentInit, UnsentStep, PTL DEF WorkerSpec
<1>3. WorkerSpec => []AccountInv
  BY <1>1, <1>2, QueueInvariants, WorkerTypeCorrect, PTL DEF AccountInv
<1>4. WorkerSpec => []Accounted
  BY <1>3, AccountInit, AccountStep, PTL DEF WorkerSpec
<1>5. DeliveryInv /\ WorkerTypeOK /\ Accounted => ResendsExplained
  BY DEF DeliveryInv, WorkerTypeOK, Accounted, ResendsExplained
<1> QED
  BY <1>1, <1>4, <1>5, WorkerTypeCorrect, PTL
-----------------------------------------------------------------------------
(* What claim_next has passed over or never listed was put in pending/ with no
   wakeup: a file whose retry time has not come was put back by a retry, and
   nothing is put in pending/ while a claim holds the lock. *)
Overlooked ==
  op.pc \in ScanPcs => Listing("pending") \ op.todo \subseteq late

WakeInv ==
  /\ wpc # "off" => phase = "ready"
  /\ skipped \subseteq late
  /\ \A i \in Item : ~body[i].due => i \in late
  /\ Overlooked
  /\ NoLostWakeup

LEMMA LateKept == [WorkerNext]_vars => late \subseteq late'
BY DEF WorkerNext, vars, workerVars, ClaimSteps, SendSteps, SettleSteps, CleanupSteps, RelaySteps,
  ClaimCall, ClaimGoesOn, ClaimNothing, ClaimFails, ClaimReturns, CheckDue, PutBack,
  BuildFails, PostOk, PostRefused, PostUnanswered, PostUnexpected,
  SettleCall, SettleGoesOn, SettleReturns, RetryCall, RetryPutBack, WakesUp,
  CleanupCall, CleanupGoesOn, CleanupReturns, CleanupInterval, Requeues,
  QueueStarts, StartWorker, EnqueueGoesOn, EnqueueReturns, StopCall, WorkerStopped, QueueCloses,
  WorkerFault, OtherFault, WorkerCancelled, ProcessCrashes, World

SettlesOrPutsBack ==
  \/ MarkSent \/ MarkSentStatus \/ MarkFailedMove \/ MarkFailedStatus \/ MoveBackToPending
  \/ \E perm \in BOOLEAN : MarkFailed(perm)

(* Only update_attempt sets a retry time. *)
LEMMA DueKept ==
  ASSUME TypeInv, NEW i \in Item, ~body'[i].due,
         \/ Start \/ Enqueue \/ Claim \/ SettlesOrPutsBack \/ Cleanup \/ Environment
         \/ UNCHANGED queueVars
  PROVE  ~body[i].due
<1>0. body \in [Item -> Body]
  BY DEF TypeInv, QueueTypeOK
<1>1. UNCHANGED body => ~body[i].due
  OBVIOUS
<1>2. CASE UNCHANGED queueVars
  BY <1>1, <1>2 DEF queueVars, disk
<1>3. CASE Start
  BY <1>1, <1>3 DEF Start, InitializeStart, ReconcileItem, InitializeDone, RecoverStart,
    RecoverItem, RecoverDone, StopWorker, CancelWorkerCall, Close, disk
<1>4. CASE Enqueue
  <2>1. ASSUME NEW h \in Hash, EnqueueWrite(h) PROVE ~body[i].due
    BY <1>0, <2>1 DEF EnqueueWrite
  <2>2. CASE EnqueueUndo
    BY <1>0, <1>1, <2>2 DEF EnqueueUndo, Unlink, EmptyFile
  <2>3. CASE ~EnqueueUndo /\ \A h \in Hash : ~EnqueueWrite(h)
    BY <1>1, <1>4, <2>3 DEF Enqueue, EnqueueDuplicate, EnqueuePendingDuplicate,
      EnqueueRecord, disk
  <2> QED
    BY <2>1, <2>2, <2>3
<1>5. CASE Claim
  BY <1>1, <1>5 DEF Claim, ClaimStart, ClaimCorrupt, ClaimMove, ClaimEmpty,
    ClaimPurgeCorrupt, ClaimPurgePayload, ClaimUnrecorded, ClaimRecord, ClaimStatus,
    ClaimDuplicate, disk
<1>6. CASE SettlesOrPutsBack
  <2>1. ASSUME NEW perm, MarkFailed(perm) PROVE ~body[i].due
    BY <1>0, <2>1 DEF MarkFailed, Body
  <2>2. CASE \A perm : ~MarkFailed(perm)
    BY <1>1, <1>6, <2>2 DEF SettlesOrPutsBack, MarkSent, MarkSentStatus, MarkFailedMove,
      MarkFailedStatus, FinishStatus, MoveBackToPending, disk
  <2> QED
    BY <2>1, <2>2
<1>7. CASE Cleanup
  <2>1. ASSUME NEW j \in Item, CleanupUnlink(j) PROVE ~body[i].due
    BY <1>0, <2>1 DEF CleanupUnlink, Unlink, EmptyFile
  <2>2. CASE \A j \in Item : ~CleanupUnlink(j)
    BY <1>1, <1>7, <2>2 DEF Cleanup, RequeueStart, RequeueStatus, RequeueDone, CleanupStart,
      RequeueSkip, RequeueMove, CleanupUnknown, CleanupPurge, disk
  <2> QED
    BY <2>1, <2>2
<1>8. CASE Environment
  <2>1. ASSUME NEW j \in Item, RetryTimeComes(j) PROVE ~body[i].due
    BY <1>0, <2>1 DEF RetryTimeComes, Body
  <2>2. ASSUME NEW j \in Item, HealFile(j) PROVE ~body[i].due
    BY <1>0, <2>2 DEF HealFile, Body
  <2>3. ASSUME NEW j \in Item, NEW id, DamageFile(j, id) PROVE ~body[i].due
    BY <1>0, <2>3 DEF DamageFile, Body
  <2>4. CASE Tick \/ Fault \/ Crash \/ \E h \in Hash : ImportRow(h)
    BY <1>1, <2>4 DEF Tick, Fault, Crash, ImportRow, disk
  <2> QED
    BY <1>8, <2>1, <2>2, <2>3, <2>4 DEF Environment
<1> QED
  BY <1>2, <1>3, <1>4, <1>5, <1>6, <1>7, <1>8

(* A claim is taken further only by its own steps. *)
LEMMA ClaimAlone ==
  ASSUME TypeInv,
         Start \/ Enqueue \/ Settle \/ Cleanup \/ Environment \/ UNCHANGED queueVars
  PROVE  op'.pc \notin ScanPcs \/ UNCHANGED <<op, dir>>
<1> USE DEF ScanPcs
<1>0. op \in Op
  BY DEF TypeInv, QueueTypeOK
<1>1. CASE Start
  <2>1. CASE StopWorker \/ Close
    BY <2>1 DEF StopWorker, Close, disk
  <2>2. CASE InitializeStart
    BY <2>2 DEF InitializeStart, Idle
  <2>3. CASE RecoverStart
    BY <2>3 DEF RecoverStart, Idle
  <2>4. CASE InitializeDone \/ RecoverDone \/ CancelWorkerCall
    <3>1. op' = Idle
      BY <2>4 DEF InitializeDone, RecoverDone, CancelWorkerCall
    <3> QED
      BY <3>1 DEF Idle
  <2>5. CASE ReconcileItem
    BY <1>0, <2>5 DEF ReconcileItem, Op
  <2>6. ASSUME NEW i \in Item, RecoverItem(i) PROVE op'.pc = "recover"
    BY <1>0, <2>6 DEF RecoverItem, Op
  <2> QED
    BY <1>1, <2>1, <2>2, <2>3, <2>4, <2>5, <2>6 DEF Start
<1>2. CASE Enqueue
  BY <1>0, <1>2, EnqueueRemovesNothing
<1>3. CASE Settle
  <2>1. CASE MarkSent
    BY <2>1 DEF MarkSent, Idle
  <2>2. ASSUME NEW perm, MarkFailed(perm) PROVE op'.pc = "failed_move"
    BY <2>2 DEF MarkFailed, Idle
  <2>3. CASE MarkFailedMove
    BY <1>0, <2>3 DEF MarkFailedMove, Op
  <2>4. CASE MarkSentStatus \/ MarkFailedStatus
    BY <2>4 DEF MarkSentStatus, MarkFailedStatus, FinishStatus, Idle
  <2>5. CASE UpdateAttempt \/ MoveBackToPending
    BY <2>5 DEF UpdateAttempt, MoveBackToPending, InProcessing, Lockable
  <2> QED
    BY <1>3, <2>1, <2>2, <2>3, <2>4, <2>5 DEF Settle
<1>4. CASE Cleanup
  <2>1. ASSUME NEW d, CleanupStart(d) PROVE op'.pc = "unlink_known"
    BY <2>1 DEF CleanupStart, Idle
  <2>2. ASSUME NEW i \in Item, CleanupUnlink(i) PROVE op'.pc \in {"unlink_known", "unlink_unknown"}
    BY <1>0, <2>2 DEF CleanupUnlink, Op
  <2>3. CASE CleanupUnknown
    BY <1>0, <2>3 DEF CleanupUnknown, Op
  <2> QED
    BY <1>0, <1>4, <2>1, <2>2, <2>3, RequeueRemovesNothing DEF Cleanup
<1>5. CASE Environment
  <2>1. CASE Fault \/ Crash
    BY <2>1 DEF Fault, Crash, Idle
  <2>2. CASE ~Fault /\ ~Crash
    BY <1>5, <2>2 DEF Environment, Tick, RetryTimeComes, HealFile, DamageFile, ImportRow, disk
  <2> QED
    BY <2>1, <2>2
<1>6. CASE UNCHANGED queueVars
  BY <1>6 DEF queueVars, disk
<1> QED
  BY <1>1, <1>2, <1>3, <1>4, <1>5, <1>6

LEMMA OverlookedKept ==
  ASSUME TypeInv, PlaceInv, WakeInv, [WorkerNext]_vars
  PROVE  Overlooked'
<1>0. op \in Op
  BY DEF TypeInv, QueueTypeOK
<1>1. late \subseteq late'
  BY LateKept
<1>2. CASE ClaimCall
  <2>1. op'.todo = Listing("pending") \ skipped /\ UNCHANGED dir
    BY <1>2 DEF ClaimCall, ClaimStart, Idle, disk
  <2> QED
    BY <1>1, <2>1 DEF Overlooked, WakeInv, Listing
<1>3. CASE ClaimGoesOn
  <2>1. ASSUME NEW i \in Item, ClaimCorrupt(i) PROVE Overlooked'
    <3>1. op.pc \in ScanPcs /\ op'.todo = op.todo \ {i} /\ dir' = [dir EXCEPT ![i] = "failed"]
      BY <1>0, <2>1 DEF ClaimCorrupt, Move, ScanPcs, Op
    <3>2. Listing("pending")' \subseteq Listing("pending") \ {i}
      BY <3>1 DEF Listing, TypeInv, QueueTypeOK
    <3> QED
      BY <1>1, <3>1, <3>2 DEF Overlooked, WakeInv
  <2>2. ASSUME NEW i \in Item, ClaimMove(i) PROVE Overlooked'
    BY <2>2 DEF ClaimMove, Idle, Overlooked, ScanPcs
  <2>3. CASE ClaimPurgeCorrupt \/ ClaimPurgePayload
    <3>1. op.pc \in ScanPcs /\ UNCHANGED dir
      BY <2>3 DEF ClaimPurgeCorrupt, ClaimPurgePayload, ScanPcs, disk
    <3>2. op'.todo = op.todo
      <4>1. CASE ClaimPurgeCorrupt
        <5>1. CASE op' = [op EXCEPT !.pc = "claim", !.item = 0]
          BY <1>0, <5>1 DEF Op
        <5>2. CASE op' = [op EXCEPT !.pc = "purge_payload", !.item = 0]
          BY <1>0, <5>2 DEF Op
        <5> QED
          BY <4>1, <5>1, <5>2 DEF ClaimPurgeCorrupt
      <4>2. CASE ClaimPurgePayload
        BY <1>0, <4>2 DEF ClaimPurgePayload, Op
      <4> QED
        BY <2>3, <4>1, <4>2
    <3> QED
      BY <1>1, <3>1, <3>2 DEF Overlooked, WakeInv, Listing
  <2>4. CASE ClaimUnrecorded \/ ClaimRecord
    <3>1. op'.pc \in {"claim_record", "claim_update"}
      BY <1>0, <2>4 DEF ClaimUnrecorded, ClaimRecord, Op
    <3> QED
      BY <3>1 DEF Overlooked, ScanPcs
  <2> QED
    BY <1>3, <2>1, <2>2, <2>3, <2>4 DEF ClaimGoesOn
<1>4. CASE ClaimNothing \/ ClaimFails \/ ClaimReturns
  BY <1>4 DEF ClaimNothing, ClaimFails, ClaimReturns, ClaimEmpty, ClaimDuplicate, ClaimStatus,
    Idle, Overlooked, ScanPcs
<1>5. CASE Start \/ Enqueue \/ Settle \/ Cleanup \/ Environment \/ UNCHANGED queueVars
  <2>1. op'.pc \notin ScanPcs \/ UNCHANGED <<op, dir>>
    BY <1>5, ClaimAlone
  <2> QED
    BY <1>1, <2>1 DEF Overlooked, WakeInv, Listing
<1>6. CASE CheckDue \/ PutBack \/ SendSteps
  <2>1. UNCHANGED queueVars \/ Settle
    BY <1>6, SendStepsRefine DEF CheckDue, PutBack, Settle
  <2> QED
    BY <1>5, <2>1
<1>7. CASE SettleSteps
  <2>1. UNCHANGED queueVars \/ Settle
    BY <1>7 DEF SettleSteps, SettleCall, SettleGoesOn, SettleReturns, RetryCall,
      RetryPutBack, WakesUp, Settle
  <2> QED
    BY <1>5, <2>1
<1>8. CASE CleanupSteps
  <2>1. UNCHANGED queueVars \/ Cleanup
    BY <1>8 DEF CleanupSteps, CleanupCall, CleanupGoesOn, CleanupReturns, CleanupInterval,
      Requeues, Cleanup
  <2> QED
    BY <1>5, <2>1
<1>9. CASE RelaySteps
  <2>1. UNCHANGED queueVars \/ Start \/ Enqueue
    BY <1>9 DEF RelaySteps, QueueStarts, StartWorker, EnqueueGoesOn, EnqueueReturns, StopCall,
      WorkerStopped, QueueCloses, Start, Enqueue
  <2> QED
    BY <1>5, <2>1
<1>10. CASE WorkerFault \/ OtherFault \/ WorkerCancelled \/ ProcessCrashes \/ World
  <2>1. Start \/ Environment
    BY <1>10 DEF WorkerFault, OtherFault, WorkerCancelled, ProcessCrashes, World, Start,
      Environment
  <2> QED
    BY <1>5, <2>1
<1>11. CASE UNCHANGED vars
  BY <1>5, <1>11 DEF vars
<1> QED
  BY <1>2, <1>3, <1>4, <1>6, <1>7, <1>8, <1>9, <1>10, <1>11 DEF WorkerNext, ClaimSteps

(* The worker runs only on a started queue. *)
LEMMA StartedKept ==
  ASSUME PlaceInv, CallOrder, WakeInv, [WorkerNext]_vars, wpc' # "off"
  PROVE  phase' = "ready"
<1>1. CASE StartWorker
  BY <1>1 DEF StartWorker, queueVars
<1>5. CASE WorkerFault
  <2>1. phase = "ready" /\ op.pc \notin {"reconcile", "recover"}
    BY <1>5 DEF WorkerFault, WorkerCall, Fault, PlaceInv, HeldPlace, CallPlace
  <2> QED
    BY <1>5, <2>1 DEF WorkerFault, Fault
<1>2. CASE WorkerCancelled \/ ProcessCrashes \/ QueueCloses
  BY <1>2 DEF WorkerCancelled, ProcessCrashes, QueueCloses, NewProcess
<1>3. ASSUME ~StartWorker, ~WorkerCancelled, ~ProcessCrashes, ~QueueCloses, ~WorkerFault
      PROVE  wpc # "off"
  <2>1. ClaimSteps \/ SettleSteps => wpc # "off"
    BY DEF ClaimSteps, SettleSteps, ClaimCall, ClaimGoesOn, ClaimNothing, ClaimFails, ClaimReturns,
      ClaimEmpty, ClaimStatus, ClaimDuplicate, ClaimCorrupt, ClaimMove, ClaimPurgeCorrupt,
      ClaimPurgePayload, ClaimUnrecorded, ClaimRecord,
      CheckDue, PutBack, SettleCall, SettleGoesOn, SettleReturns, RetryCall, RetryPutBack,
      WakesUp, MarkFailedMove, MarkSentStatus, MarkFailedStatus, FinishStatus,
      CallOrder, ScanPcs, ClaimPcs
  <2>2. SendSteps => wpc # "off"
    BY DEF SendSteps, BuildFails, PostOk, PostRefused, PostUnanswered, PostUnexpected
  <2>3. CleanupSteps => wpc' = wpc
    BY DEF CleanupSteps, CleanupCall, CleanupGoesOn, CleanupReturns, CleanupInterval, Requeues,
      workerVars, loop
  <2>4. RelaySteps => wpc' = wpc
    BY <1>3 DEF RelaySteps, QueueStarts, EnqueueGoesOn, EnqueueReturns, StopCall,
      WorkerStopped, workerVars, loop
  <2>6. OtherFault \/ World \/ UNCHANGED vars => wpc' = wpc
    BY DEF OtherFault, World, vars, workerVars, loop
  <2> QED
    BY <1>3, <2>1, <2>2, <2>3, <2>4, <2>6 DEF WorkerNext
<1>4. ASSUME wpc # "off", ~StartWorker, ~WorkerCancelled, ~ProcessCrashes, ~QueueCloses,
             ~WorkerFault
      PROVE  phase' = "ready"
  <2>1. phase = "ready"
    BY <1>4 DEF WakeInv
  <2>2. op.pc \notin {"reconcile", "recover"}
    BY <2>1 DEF PlaceInv, CallPlace
  <2>3. ClaimSteps \/ SendSteps => phase' = phase
    BY DEF ClaimSteps, ClaimCall, ClaimGoesOn, ClaimNothing, ClaimFails, ClaimReturns, CheckDue,
      PutBack, ClaimStart, ClaimEmpty, ClaimStatus, ClaimDuplicate, ClaimCorrupt, ClaimMove,
      ClaimPurgeCorrupt, ClaimPurgePayload, ClaimUnrecorded, ClaimRecord,
      MoveBackToPending, queueVars, SendSteps, BuildFails, PostOk, PostRefused, PostUnanswered,
      PostUnexpected
  <2>4. SettleSteps => phase' = phase
    BY DEF SettleSteps, SettleCall, SettleGoesOn, SettleReturns, RetryCall, RetryPutBack,
      WakesUp, MarkSent, MarkSentStatus, MarkFailed, MarkFailedMove, MarkFailedStatus,
      FinishStatus, UpdateAttempt, MoveBackToPending, queueVars
  <2>5. CleanupSteps => phase' = phase
    BY DEF CleanupSteps, CleanupCall, CleanupGoesOn, CleanupReturns, CleanupInterval, Requeues,
      RequeueStart, RequeueStatus, RequeueDone, CleanupStart, RequeueSkip, RequeueMove,
      CleanupUnlink, CleanupUnknown, CleanupPurge, queueVars
  <2>6. RelaySteps => phase' = phase
    BY <1>4, <2>1, <2>2 DEF RelaySteps, QueueStarts, InitializeStart, ReconcileItem,
      InitializeDone, RecoverStart, RecoverItem, RecoverDone, EnqueueGoesOn, EnqueueReturns,
      EnqueueWrite, EnqueueDuplicate, EnqueuePendingDuplicate, EnqueueRecord, EnqueueUndo,
      StopCall, WorkerStopped, queueVars
  <2>7. OtherFault => phase' = phase
    BY <2>2 DEF OtherFault, Fault
  <2>8. World \/ UNCHANGED vars => phase' = phase
    BY DEF World, Tick, RetryTimeComes, HealFile, DamageFile, ImportRow, vars, queueVars
  <2> QED
    BY <1>4, <2>1, <2>3, <2>4, <2>5, <2>6, <2>7, <2>8 DEF WorkerNext
<1> QED
  BY <1>1, <1>2, <1>3, <1>4, <1>5

LEMMA SkippedKept ==
  ASSUME WakeInv, WorkerTypeOK, TypeInv, DeliveryInv, [WorkerNext]_vars
  PROVE  skipped' \subseteq late'
<1>1. late \subseteq late'
  BY LateKept
<1>2. CASE CheckDue
  <2>1. held \in Item
    BY <1>2 DEF CheckDue, DeliveryInv
  <2> QED
    BY <1>2, <2>1 DEF CheckDue, WakeInv, NewPass
<1>3. CASE ~CheckDue
  <2>1. skipped' \in {skipped, {}}
    BY <1>3 DEF WorkerNext, vars, workerVars, loop, NewPass, NewProcess,
      ClaimSteps, SendSteps, SettleSteps, CleanupSteps, RelaySteps,
      ClaimCall, ClaimGoesOn, ClaimNothing, ClaimFails, ClaimReturns, PutBack,
      BuildFails, PostOk, PostRefused, PostUnanswered, PostUnexpected,
      SettleCall, SettleGoesOn, SettleReturns, RetryCall, RetryPutBack, WakesUp,
      CleanupCall, CleanupGoesOn, CleanupReturns, CleanupInterval, Requeues,
      QueueStarts, StartWorker, EnqueueGoesOn, EnqueueReturns, StopCall, WorkerStopped,
      QueueCloses, WorkerFault, OtherFault, WorkerCancelled, ProcessCrashes, World
  <2> QED
    BY <1>1, <2>1 DEF WakeInv
<1> QED
  BY <1>2, <1>3

LEMMA RetriesKept ==
  ASSUME TypeInv, WakeInv, [WorkerNext]_vars, NEW i \in Item, ~body'[i].due
  PROVE  i \in late'
<1>1. late \subseteq late'
  BY LateKept
<1>2. CASE RetryCall
  <2>1. i # held => ~body[i].due
    BY <1>2 DEF RetryCall, UpdateAttempt, TypeInv, QueueTypeOK
  <2> QED
    BY <1>2, <2>1 DEF RetryCall, WakeInv
<1>3. CASE \/ Start \/ Enqueue \/ Claim \/ SettlesOrPutsBack \/ Cleanup \/ Environment
           \/ UNCHANGED queueVars
  BY <1>1, <1>3, DueKept DEF WakeInv
<1>4. CASE ClaimSteps
  <2>1. CASE ClaimCall
    <3>1. ClaimStart(skipped) => ClaimStart(skipped \cap Item)
      BY DEF ClaimStart, Listing
    <3> QED
      BY <1>3, <2>1, <3>1 DEF ClaimCall, Claim
  <2>2. CASE ~ClaimCall
    BY <1>3, <1>4, <2>2 DEF ClaimSteps, ClaimGoesOn, ClaimNothing, ClaimFails, ClaimReturns,
      CheckDue,
      PutBack, Claim, SettlesOrPutsBack
  <2> QED
    BY <2>1, <2>2
<1>5. CASE SendSteps
  BY <1>3, <1>5, SendStepsRefine
<1>6. CASE SettleSteps /\ ~RetryCall
  BY <1>3, <1>6 DEF SettleSteps, SettleCall, SettleGoesOn, SettleReturns, RetryPutBack, WakesUp,
    SettlesOrPutsBack
<1>7. CASE CleanupSteps
  BY <1>3, <1>7 DEF CleanupSteps, CleanupCall, CleanupGoesOn, CleanupReturns, CleanupInterval,
    Requeues, Cleanup
<1>8. CASE RelaySteps
  BY <1>3, <1>8 DEF RelaySteps, QueueStarts, StartWorker, EnqueueGoesOn, EnqueueReturns, StopCall,
    WorkerStopped, QueueCloses, Start, Enqueue
<1>9. CASE WorkerFault \/ OtherFault \/ WorkerCancelled \/ ProcessCrashes \/ World
  BY <1>3, <1>9 DEF WorkerFault, OtherFault, WorkerCancelled, ProcessCrashes, World, Start,
    Environment
<1>10. CASE UNCHANGED vars
  BY <1>3, <1>10 DEF vars
<1> QED
  BY <1>2, <1>4, <1>5, <1>6, <1>7, <1>8, <1>9, <1>10 DEF WorkerNext

(* The worker starts to wait only when a claim found nothing new. *)
LEMMA WaitBegins ==
  ASSUME TypeInv, PlaceInv, CallOrder, Sole, WakeInv, Clean', [WorkerNext]_vars,
         wpc # "wait", wpc' = "wait"
  PROVE  ClaimNothing
<1>1. ~WorkerFault /\ ~OtherFault
  BY DEF WorkerFault, OtherFault, Fault, Clean, TypeInv, QueueTypeOK
<1>2. ~(SettleReturns /\ wpc' = "wait")
  <2>1. SettleReturns => HasRow(body[op.item].hash)
    BY DEF SettleReturns, MarkSentStatus, MarkFailedStatus, FinishStatus, Sole, CallStatus,
      Status, HasRow
  <2> QED
    BY <2>1 DEF SettleReturns, AfterWork
<1>3. ~SendSteps
  BY DEF SendSteps, BuildFails, PostOk, PostRefused, PostUnanswered, PostUnexpected
<1>4. ~CleanupSteps
  BY DEF CleanupSteps, CleanupCall, CleanupGoesOn, CleanupReturns, CleanupInterval, Requeues,
    workerVars, loop
<1>5. ~RelaySteps
  BY DEF RelaySteps, QueueStarts, StartWorker, EnqueueGoesOn, EnqueueReturns, StopCall,
    WorkerStopped, QueueCloses, NewProcess, workerVars, loop
<1>6. ~SettleSteps
  BY <1>2 DEF SettleSteps, SettleCall, SettleGoesOn, RetryCall, RetryPutBack, WakesUp,
    AfterWork, workerVars, loop
<1>7. ~WorkerCancelled /\ ~ProcessCrashes /\ ~World /\ ~UNCHANGED vars
  BY DEF WorkerCancelled, ProcessCrashes, NewProcess, World, workerVars, loop, vars
<1>8. ~ClaimFails
  BY DEF ClaimFails, ClaimDuplicate, Sole, CallStatus, Status, HasRow
<1> QED
  BY <1>1, <1>3, <1>4, <1>5, <1>6, <1>7, <1>8
  DEF WorkerNext, ClaimSteps, ClaimCall, ClaimGoesOn, ClaimReturns, CheckDue, PutBack,
    workerVars, loop

(* While it waits, a file comes to pending/ by a requeue, which is late, or by
   an enqueue, which wakes it when it returns. *)
Accounts(i) == i \in late \/ (op.pc = "record" /\ op.item = i)

LEMMA WaitGoesOn ==
  ASSUME TypeInv, PlaceInv, CallOrder, Sole, WakeInv, Clean', [WorkerNext]_vars,
         wpc = "wait", wpc' = "wait", ~wakeup',
         \A i \in Listing("pending") : Accounts(i)
  PROVE  \A i \in Listing("pending")' : Accounts(i)'
<1>1. late \subseteq late' /\ phase = "ready" /\ op.pc \notin {"reconcile", "recover"}
  BY LateKept DEF WakeInv, PlaceInv, CallPlace
<1>2. CASE UNCHANGED <<op, dir>>
  BY <1>1, <1>2 DEF Accounts, Listing
<1>3. CASE op.pc # "record" /\ \A i \in Item : dir'[i] = "pending" => dir[i] = "pending"
  BY <1>1, <1>3 DEF Accounts, Listing
<1>4. CASE EnqueueGoesOn
  <2>1. PICK h \in Hash : EnqueueWrite(h)
    BY <1>4 DEF EnqueueGoesOn
  <2>2. /\ op.pc = "idle" /\ op'.pc = "record" /\ op'.item = nextItem
        /\ dir' = [dir EXCEPT ![nextItem] = "pending"]
    BY <2>1 DEF EnqueueWrite, Accepting, Move, Idle
  <2> QED
    BY <1>1, <2>2 DEF Accounts, Listing, TypeInv, QueueTypeOK
<1>5. CASE EnqueueReturns
  <2>1. op.pc = "record" /\ body[op.item].id = 0
    BY <1>5 DEF EnqueueReturns
  <2>2. op.item \in Item /\ dir[op.item] = "pending"
    BY <2>1 DEF PlaceInv, CallPlace, TypeInv, OpInOrder
  <2>3. body[op.item].id = op.item
    BY <2>2 DEF Sole, Whole, Readable
  <2> QED
    BY <2>1, <2>2, <2>3, BoundsAssumption DEF Item
<1>6. CASE CleanupSteps
  <2>1. ASSUME NEW i \in Item, Requeues(i)
        PROVE  \A j \in Listing("pending")' : Accounts(j)'
    <3>1. /\ op.pc = "requeue" /\ late' = late \cup {i}
          /\ dir' = [dir EXCEPT ![i] = "pending"]
      BY <2>1 DEF Requeues, RequeueMove, Move
    <3> QED
      BY <3>1 DEF Accounts, Listing, TypeInv, QueueTypeOK
  <2>2. ASSUME NEW i \in Item, CleanupUnlink(i)
        PROVE  op.pc # "record" /\ \A j \in Item : dir'[j] = "pending" => dir[j] = "pending"
    BY <2>2 DEF CleanupUnlink, Unlink, Move, TypeInv, QueueTypeOK
  <2>3. CASE CleanupInterval
    BY <1>2, <2>3 DEF CleanupInterval, queueVars, disk
  <2>4. CASE CleanupReturns \/ CleanupCall \/ CleanupGoesOn
    <3>1. CASE \E i \in Item : CleanupUnlink(i)
      BY <1>3, <2>2, <3>1
    <3>2. CASE ~\E i \in Item : CleanupUnlink(i)
      <4>1. op.pc # "record" /\ UNCHANGED dir
        BY <2>4, <3>2 DEF CleanupReturns, CleanupCall, CleanupGoesOn, RequeueStart,
          CleanupStart, RequeueSkip, CleanupUnknown, RequeueStatus, RequeueDone, CleanupPurge,
          Lockable, disk
      <4> QED
        BY <1>3, <4>1
    <3> QED
      BY <3>1, <3>2
  <2> QED
    BY <1>6, <2>1, <2>3, <2>4 DEF CleanupSteps
<1>7. ~QueueStarts /\ ~StartWorker /\ ~StopCall /\ ~WorkerStopped /\ ~QueueCloses
  BY <1>1 DEF QueueStarts, InitializeStart, ReconcileItem, InitializeDone, RecoverStart,
    RecoverItem, RecoverDone, StartWorker, StopCall, WorkerStopped, QueueCloses, NewProcess
<1>8. CASE World
  BY <1>2, <1>8 DEF World, Tick, RetryTimeComes, HealFile, DamageFile, ImportRow, disk
<1>9. CASE UNCHANGED vars
  BY <1>2, <1>9 DEF vars, queueVars, disk
<1>10. ~WorkerFault /\ ~OtherFault
  BY DEF WorkerFault, OtherFault, Fault, Clean, TypeInv, QueueTypeOK
<1>11. ~WorkerCancelled /\ ~ProcessCrashes
  BY DEF WorkerCancelled, ProcessCrashes, NewProcess
<1>12. ~ClaimSteps
  BY DEF ClaimSteps, ClaimCall, ClaimGoesOn, ClaimNothing, ClaimFails, ClaimReturns, ClaimStatus,
    ClaimDuplicate, ClaimCorrupt, ClaimMove, ClaimPurgeCorrupt, ClaimPurgePayload,
    ClaimUnrecorded, ClaimRecord, CheckDue, PutBack, CallOrder, ScanPcs, ClaimPcs
<1>13. ~SendSteps
  BY DEF SendSteps, BuildFails, PostOk, PostRefused, PostUnanswered, PostUnexpected
<1>14. ~SettleSteps
  BY DEF SettleSteps, SettleCall, SettleGoesOn, SettleReturns, RetryCall, RetryPutBack, WakesUp,
    MarkFailedMove, MarkSentStatus, MarkFailedStatus, FinishStatus, CallOrder, AfterWork
<1> QED
  BY <1>4, <1>5, <1>6, <1>7, <1>8, <1>9, <1>10, <1>11, <1>12, <1>13, <1>14
  DEF WorkerNext, RelaySteps

LEMMA WakeupKept ==
  ASSUME TypeInv, AckInv, PlaceInv, CallOrder, SoleInv, WakeInv, [WorkerNext]_vars
  PROVE  NoLostWakeup'
<1> SUFFICES ASSUME wpc' = "wait", ~wakeup', Clean'
             PROVE  \A i \in Listing("pending")' : Accounts(i)'
  BY DEF NoLostWakeup, Accounts, Clean, NoLateImport
<1>1. Clean /\ Sole
  BY WorkerStepRefines, CleanBefore DEF SoleInv
<1>2. CASE wpc # "wait"
  <2>1. ClaimNothing
    BY <1>1, <1>2, WaitBegins
  <2>2. op.pc = "claim" /\ op.todo = {} /\ UNCHANGED <<dir, late>>
    BY <2>1 DEF ClaimNothing, ClaimEmpty, disk
  <2> QED
    BY <2>2 DEF WakeInv, Overlooked, ScanPcs, Listing, Accounts
<1>3. CASE wpc = "wait"
  <2>1. CASE ~wakeup
    <3>1. \A i \in Listing("pending") : Accounts(i)
      BY <1>1, <1>3, <2>1 DEF WakeInv, NoLostWakeup, Accounts, Clean
    <3> QED
      BY <1>1, <1>3, <3>1, WaitGoesOn
  <2>2. wakeup => wakeup'
    <3>1. ~WakesUp /\ ~StartWorker /\ ~QueueCloses /\ ~ProcessCrashes
      BY <1>3 DEF WakesUp, AfterWork, StartWorker, QueueCloses, ProcessCrashes, NewProcess
    <3> QED
      BY <3>1 DEF WorkerNext, vars, workerVars, events,
        ClaimSteps, SendSteps, SettleSteps, CleanupSteps, RelaySteps,
        ClaimCall, ClaimGoesOn, ClaimNothing, ClaimFails, ClaimReturns, CheckDue, PutBack,
        BuildFails, PostOk, PostRefused, PostUnanswered, PostUnexpected,
        SettleCall, SettleGoesOn, SettleReturns, RetryCall, RetryPutBack,
        CleanupCall, CleanupGoesOn, CleanupReturns, CleanupInterval, Requeues,
        QueueStarts, EnqueueGoesOn, EnqueueReturns, StopCall, WorkerStopped,
        WorkerFault, OtherFault, WorkerCancelled, World
  <2> QED
    BY <2>1, <2>2
<1> QED
  BY <1>2, <1>3

LEMMA WakeInit == WorkerInit => WakeInv
<1> SUFFICES ASSUME WorkerInit PROVE WakeInv
  OBVIOUS
<1>1. \A i \in Item : body[i].due
  BY DEF WorkerInit, QueueInit, EmptyFile
<1>2. op.pc = "idle" /\ wpc = "off" /\ skipped = {}
  BY DEF WorkerInit, QueueInit, Idle
<1> QED
  BY <1>1, <1>2 DEF WakeInv, Overlooked, ScanPcs, NoLostWakeup

LEMMA WakeStep ==
  ASSUME TypeInv, AckInv, PlaceInv, CallOrder, SoleInv, WorkerTypeOK, DeliveryInv, WakeInv,
         [WorkerNext]_vars
  PROVE  WakeInv'
BY OverlookedKept, StartedKept, SkippedKept, RetriesKept, WakeupKept DEF WakeInv

LEMMA SoleAlways == QueueSpec => []SoleInv
<1>1. QueueInit => SoleInv
  BY SoleInit DEF SoleInv
<1> QED
  BY <1>1, TypeInit, TypeStep, AckInit, AckStep, PlaceInit, PlaceStep, AgeInit, AgeStep,
     SoleStep, PTL DEF QueueSpec

(* No enqueue is missed: when the worker waits and is not about to be woken,
   everything in pending/ was put there by a retry or a requeue, or is still
   being written.  For any number of items, crashes, restarts and interleavings
   of relay, cleanup and worker, as long as no call has failed or been
   cancelled, no file is damaged, and nothing is imported once a retention
   period has passed: a claim that raises makes the worker wait too. *)
THEOREM NoEnqueueIsMissed == WorkerSpec => []NoLostWakeup
<1>1. WorkerSpec => [](DeliveryInv /\ CallOrder)
  BY QueueInvariants, DeliveryInit, DeliveryStep, CallOrderInit, CallOrderStep,
     PTL DEF WorkerSpec
<1>2. WorkerSpec => []SoleInv
  BY WorkerImplementsQueue, SoleAlways, PTL
<1>3. WorkerSpec => []WakeInv
  BY <1>1, <1>2, QueueInvariants, WorkerTypeCorrect, WakeInit, WakeStep, PTL DEF WorkerSpec
<1>4. WakeInv => NoLostWakeup
  BY DEF WakeInv
<1> QED
  BY <1>3, <1>4, PTL
-----------------------------------------------------------------------------
(* One item per SMS.  Until a retention period has passed nothing is removed   *)
(* but by an enqueue that found a duplicate, and that item was never sent.  So *)
(* an item that was sent still has its file, and no two files share a hash.    *)
Unlinks == {"unlink_known", "unlink_unknown"}
Remembered ==
  /\ \A i \in Item : sends[i] > 0 => dir[i] # "none"
  /\ op.pc \in Unlinks => op.todo = {}
RememberInv == Mild => Remembered

LEMMA NothingIsOld ==
  ASSUME TypeInv, Young, NEW d \in {"sent", "failed"}
  PROVE  Expired(d) = {} /\ \A i \in Item : ~Older(body[i].mtime, Days(d))
<1>1. /\ clock \in Nat /\ SentDays \in Nat /\ FailedDays \in Nat
      /\ \A h \in Hash : row[h].at \in Nat
      /\ \A i \in Item : body[i].mtime \in Nat
  BY BoundsAssumption DEF TypeInv, QueueTypeOK, Row, Body
<1>2. Days(d) \in Nat /\ clock <= Days(d)
  BY <1>1 DEF Days, Young
<1>3. \A t \in Nat : ~Older(t, Days(d))
  BY <1>1, <1>2 DEF Older
<1> QED
  BY <1>1, <1>3 DEF Expired

(* Cleanup finds nothing to remove. *)
LEMMA ScanEmpty ==
  ASSUME TypeInv, PlaceInv, Young, op.pc \in Unlinks => op.todo = {},
         [QueueNext]_queueVars, op'.pc \in Unlinks
  PROVE  op'.todo = {}
<1> USE IdleType, IdlePc DEF Op, Unlinks
<1>0. op \in Op
  BY DEF TypeInv, QueueTypeOK
<1>1. CASE UNCHANGED op
  BY <1>1
<1>2. CASE Start
  <2>1. ReconcileItem \/ (\E i \in Item : RecoverItem(i)) => op'.pc = op.pc
    BY <1>0 DEF ReconcileItem, RecoverItem
  <2>2. ~ReconcileItem /\ ~(\E i \in Item : RecoverItem(i))
    BY <2>1 DEF ReconcileItem, RecoverItem
  <2> QED
    BY <1>1, <1>2, <2>2 DEF Start, InitializeStart, InitializeDone, RecoverStart,
      RecoverDone, StopWorker, CancelWorkerCall, Close
<1>3. CASE Enqueue
  BY <1>1, <1>3 DEF Enqueue, EnqueueDuplicate, EnqueuePendingDuplicate, EnqueueWrite,
    EnqueueRecord, EnqueueUndo
<1>4. ~Claim
  BY <1>0 DEF Claim, ClaimStart, ClaimCorrupt, ClaimMove, ClaimEmpty, ClaimPurgeCorrupt,
    ClaimPurgePayload, ClaimUnrecorded, ClaimRecord,
    ClaimStatus, ClaimDuplicate
<1>5. CASE Settle
  BY <1>0, <1>1, <1>5 DEF Settle, MarkSent, MarkSentStatus, MarkFailed, MarkFailedMove,
    MarkFailedStatus, FinishStatus, UpdateAttempt, MoveBackToPending
<1>6. CASE Cleanup
  <2>1. ASSUME NEW d \in {"sent", "failed"}, CleanupStart(d) PROVE op'.todo = {}
    BY <2>1, NothingIsOld DEF CleanupStart
  <2>2. ASSUME NEW i \in Item, CleanupUnlink(i) PROVE op'.todo = {}
    BY <2>2 DEF CleanupUnlink, First
  <2>3. CASE CleanupUnknown
    <3>1. op.dest \in {"sent", "failed"}
      BY <2>3 DEF CleanupUnknown, PlaceInv, ScanPlace
    <3> QED
      BY <1>0, <2>3, <3>1, NothingIsOld DEF CleanupUnknown, Listing
  <2> QED
    BY <1>0, <1>6, <2>1, <2>2, <2>3 DEF Cleanup, RequeueStart, RequeueStatus, RequeueDone,
      RequeueSkip, RequeueMove, CleanupPurge
<1>7. CASE Environment
  BY <1>1, <1>7 DEF Environment, Tick, Fault, Crash, RetryTimeComes, HealFile, DamageFile,
    ImportRow
<1> QED
  BY <1>1, <1>2, <1>3, <1>4, <1>5, <1>6, <1>7 DEF QueueNext, queueVars

(* Files are removed in two places only. *)
LEMMA FilesRemoved ==
  ASSUME TypeInv, [QueueNext]_queueVars, NEW i \in Item, dir[i] # "none", dir'[i] = "none"
  PROVE  (EnqueueUndo /\ op.item = i) \/ CleanupUnlink(i)
<1> USE DEF Move
<1>0. dir \in [Item -> Dirs]
  BY DEF TypeInv, QueueTypeOK
<1>1. ~UNCHANGED dir
  OBVIOUS
<1>2. ~Start
  BY <1>0, <1>1 DEF Start, InitializeStart, ReconcileItem, InitializeDone, RecoverStart,
    RecoverItem, RecoverDone, StopWorker, CancelWorkerCall, Close, disk
<1>3. CASE Enqueue
  BY <1>0, <1>1, <1>3 DEF Enqueue, EnqueueDuplicate, EnqueuePendingDuplicate, EnqueueWrite,
    EnqueueRecord, EnqueueUndo, Unlink, disk
<1>4. ~Claim
  BY <1>0, <1>1 DEF Claim, ClaimStart, ClaimCorrupt, ClaimMove, ClaimEmpty,
    ClaimPurgeCorrupt, ClaimPurgePayload, ClaimUnrecorded, ClaimRecord, ClaimStatus,
    ClaimDuplicate, disk
<1>5. ~Settle
  BY <1>0, <1>1 DEF Settle, MarkSent, MarkSentStatus, MarkFailed, MarkFailedMove,
    MarkFailedStatus, FinishStatus, UpdateAttempt, MoveBackToPending, disk
<1>6. CASE Cleanup
  <2>1. ASSUME NEW j \in Item, CleanupUnlink(j) PROVE CleanupUnlink(i)
    BY <1>0, <2>1 DEF CleanupUnlink, Unlink
  <2>2. ~(\E j \in Item : RequeueMove(j))
    BY <1>0 DEF RequeueMove
  <2> QED
    BY <1>1, <1>6, <2>1, <2>2 DEF Cleanup, RequeueStart, RequeueStatus, RequeueDone,
      RequeueSkip, CleanupStart, CleanupUnknown, CleanupPurge, disk
<1>7. ~Environment
  BY <1>1 DEF Environment, Tick, Fault, Crash, RetryTimeComes, HealFile, DamageFile,
    ImportRow, disk
<1> QED
  BY <1>1, <1>2, <1>3, <1>4, <1>5, <1>6, <1>7 DEF QueueNext, queueVars, disk

LEMMA MildBefore ==
  ASSUME TypeInv, AckInv, PlaceInv, [QueueNext]_queueVars, Mild' PROVE Mild
<1>1. Young
  BY StepsAge, YoungKept DEF Mild
<1>2. spent.damage = 0 /\ spent.fault <= 1
  BY SpentGrows DEF Mild, TypeInv, QueueTypeOK
<1> QED
  BY <1>1, <1>2 DEF Mild

LEMMA RememberInit == WorkerInit => RememberInv
BY DEF WorkerInit, QueueInit, RememberInv, Remembered, Unlinks, Idle

LEMMA RememberStep ==
  ASSUME TypeInv, AckInv, PlaceInv, CallOrder, DeliveryInv, Unsent, RememberInv,
         [WorkerNext]_vars
  PROVE  RememberInv'
<1> SUFFICES ASSUME Mild' PROVE Remembered'
  BY DEF RememberInv
<1>0. [QueueNext]_queueVars
  BY WorkerStepRefines
<1>1. Remembered /\ Young
  BY <1>0, MildBefore DEF RememberInv, Mild
<1>2. op'.pc \in Unlinks => op'.todo = {}
  BY <1>0, <1>1, ScanEmpty DEF Remembered
<1>3. ASSUME NEW i \in Item, sends'[i] > 0 PROVE dir'[i] # "none"
  <2>1. CASE SendSteps
    <3>1. UNCHANGED dir /\ (Transmits \/ UNCHANGED sends)
      BY <2>1, SendsMove DEF queueVars, disk
    <3>2. CASE i = held /\ Transmits
      BY <3>1, <3>2 DEF Transmits
    <3>3. CASE ~(i = held /\ Transmits)
      <4>1. sends'[i] = sends[i]
        BY <3>1, <3>3 DEF Transmits, DeliveryInv
      <4> QED
        BY <1>1, <1>3, <3>1, <4>1 DEF Remembered
    <3> QED
      BY <3>2, <3>3
  <2>2. CASE ~SendSteps
    <3>1. sends[i] > 0 /\ dir[i] # "none"
      BY <1>1, <1>3, <2>2, SendsKept DEF Remembered
    <3>2. ~(EnqueueUndo /\ op.item = i)
      BY <3>1 DEF EnqueueUndo, Unsent
    <3>3. ~CleanupUnlink(i)
      BY <1>1 DEF CleanupUnlink, First, Remembered, Unlinks
    <3> QED
      BY <1>0, <3>1, <3>2, <3>3, FilesRemoved
  <2> QED
    BY <2>1, <2>2
<1> QED
  BY <1>2, <1>3 DEF Remembered

LEMMA TwinAlways == QueueSpec => []TwinInv
<1>1. QueueInit => TwinInv
  BY TwinInit DEF TwinInv
<1> QED
  BY <1>1, TypeInit, TypeStep, AckInit, AckStep, PlaceInit, PlaceStep, TwinStep, PTL
  DEF QueueSpec

(* Telegram is given an SMS as one queue item only: of two items with copies
   accepted the hashes differ, whatever crashes, restarts, retries, requeues
   and imports come, until a retention period has passed, without damaged
   files and for up to one I/O error or cancelled call. *)
THEOREM SmsIsOneItem == WorkerSpec => []OneItemPerSms
<1>1. WorkerSpec => [](DeliveryInv /\ CallOrder)
  BY QueueInvariants, DeliveryInit, DeliveryStep, CallOrderInit, CallOrderStep,
     PTL DEF WorkerSpec
<1>2. WorkerSpec => []Unsent
  BY <1>1, QueueInvariants, UnsentInit, UnsentStep, PTL DEF WorkerSpec
<1>3. WorkerSpec => []TwinInv
  BY WorkerImplementsQueue, TwinAlways, PTL
<1>4. WorkerSpec => []RememberInv
  BY <1>1, <1>2, QueueInvariants, RememberInit, RememberStep, PTL DEF WorkerSpec
<1>5. TwinInv /\ RememberInv => OneItemPerSms
  BY DEF TwinInv, Twinless, Alone, RememberInv, Remembered, OneItemPerSms, Mild
<1> QED
  BY <1>3, <1>4, <1>5, PTL
=============================================================================
