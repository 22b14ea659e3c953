------------------------- MODULE DurableQueueProofs -------------------------
(***************************************************************************)
(* Proofs about DurableQueue: type correctness, that no acknowledged SMS   *)
(* is lost, that no item is stranded in processing/, that retention takes  *)
(* no SMS still to be delivered, that no SMS is in the queue twice, that   *)
(* the table agrees with the directories, and that its live rows stand for *)
(* files, for every set of hashes and all values of the bounds.            *)
(***************************************************************************)
EXTENDS DurableQueue, TLAPS

(* QueueTypeOK is inductive together with this: enqueue never reaches its
   table write without the item it has created, and a cleanup has a directory. *)
OpInOrder ==
  /\ op.pc = "record" => op.item \in Item
  /\ op.pc = "unlink_known" => op.dest # "none"
TypeInv == QueueTypeOK /\ OpInOrder

(* Where claim_next looks for an item, and where it has moved one. *)
ScanPcs == {"claim", "purge_corrupt", "purge_payload"}
ClaimPcs == {"claim_status", "claim_record", "claim_update"}

LEMMA EmptyFileType == EmptyFile \in Body
BY BoundsAssumption DEF EmptyFile, Body

LEMMA IdleType == Idle \in Op
BY BoundsAssumption DEF Idle, Op, PCs, Dirs

LEMMA ItemRange == Item \subseteq 0 .. MaxItems
BY BoundsAssumption DEF Item

LEMMA DirNames == /\ "pending" \in Dirs /\ "processing" \in Dirs
                  /\ "sent" \in Dirs /\ "failed" \in Dirs /\ "none" \in Dirs
BY DEF Dirs

LEMMA PcNames == /\ "idle" \in PCs /\ "reconcile" \in PCs /\ "recover" \in PCs
                 /\ "record" \in PCs /\ "claim" \in PCs /\ "purge_corrupt" \in PCs
                 /\ "purge_payload" \in PCs /\ "claim_status" \in PCs
                 /\ "claim_record" \in PCs /\ "claim_update" \in PCs
                 /\ "sent_status" \in PCs /\ "failed_move" \in PCs
                 /\ "failed_status" \in PCs /\ "requeue" \in PCs
                 /\ "requeue_status" \in PCs /\ "unlink_known" \in PCs
                 /\ "unlink_unknown" \in PCs
BY DEF PCs

LEMMA MoveType ==
  ASSUME dir \in [Item -> Dirs], NEW i, NEW d \in Dirs, Move(i, d)
  PROVE  dir' \in [Item -> Dirs]
BY DEF Move

LEMMA SavedBodyType ==
  ASSUME NEW b \in [Item -> Body], NEW i \in Item, i \in 0 .. MaxItems,
         NEW p \in BOOLEAN, NEW t \in Nat
  PROVE  [b EXCEPT ![i].id = i, ![i].perm = p, ![i].mtime = t] \in [Item -> Body]
<1> DEFINE c == [b[i] EXCEPT !.id = i, !.perm = p, !.mtime = t]
           f == [b EXCEPT ![i].id = i, ![i].perm = p, ![i].mtime = t]
<1>1. c \in Body
  BY DEF Body
<1>2. f = [b EXCEPT ![i] = c]
  OBVIOUS
<1> HIDE DEF c, f
<1>3. f \in [Item -> Body]
  BY <1>1, <1>2
<1> QED
  BY <1>3 DEF f

(* The table operators map tables to tables, whatever hash they are given. *)
LEMMA RowWrite ==
  ASSUME row \in [Hash -> Row], clock \in Nat, NEW h, NEW i \in 0 .. MaxItems,
         NEW s \in Dirs
  PROVE  [row EXCEPT ![h] = [item |-> i, status |-> s, at |-> clock]]
           \in [Hash -> Row]
BY DEF Row

LEMMA RecordNewType ==
  ASSUME row \in [Hash -> Row], clock \in Nat, NEW h, NEW i \in 0 .. MaxItems
  PROVE  RecordNew(h, i) \in [Hash -> Row]
BY RowWrite, DirNames DEF RecordNew

LEMMA UpdateStatusType ==
  ASSUME row \in [Hash -> Row], clock \in Nat, NEW h, NEW s \in Dirs
  PROVE  UpdateStatus(h, s) \in [Hash -> Row]
BY DEF UpdateStatus, Row

LEMMA ReconcileStatusType ==
  ASSUME row \in [Hash -> Row], clock \in Nat, NEW h, NEW i \in 0 .. MaxItems,
         NEW s \in Dirs
  PROVE  ReconcileStatus(h, i, s) \in [Hash -> Row]
BY RowWrite, UpdateStatusType DEF ReconcileStatus

LEMMA TableDeletes ==
  ASSUME row \in [Hash -> Row], NEW ids, NEW s
  PROVE  /\ DeleteByItemId(ids) \in [Hash -> Row]
         /\ PurgeOlderThan(s) \in [Hash -> Row]
<1>1. NoRow \in Row
  BY BoundsAssumption DEF NoRow, Row, Dirs
<1> QED
  BY <1>1 DEF DeleteByItemId, PurgeOlderThan

LEMMA TypeInit == QueueInit => TypeInv
BY BoundsAssumption, EmptyFileType, IdleType
DEF QueueInit, TypeInv, QueueTypeOK, OpInOrder, NoRow, Row, Dirs, Idle, Item

LEMMA TypeStart == TypeInv /\ Start => TypeInv'
<1> SUFFICES ASSUME TypeInv, Start PROVE TypeInv'
  OBVIOUS
<1> USE BoundsAssumption, IdleType DEF TypeInv, QueueTypeOK, OpInOrder,
        disk, history
<1>1. CASE InitializeStart
  <2> DEFINE T == {i \in Item : ReconcileRank(dir[i]) > 0}
  <2>1. op' = [Idle EXCEPT !.pc = "reconcile", !.todo = T]
    BY <1>1 DEF InitializeStart
  <2>2. T \in SUBSET Item
    OBVIOUS
  <2> HIDE DEF T
  <2>3. op' \in Op /\ op'.pc = "reconcile"
    BY <2>1, <2>2, PcNames, DirNames DEF Idle, Op
  <2> QED
    BY <1>1, <2>3 DEF InitializeStart
<1>2. CASE ReconcileItem
  <2>1. PICK i \in op.todo :
          /\ op' = [op EXCEPT !.todo = @ \ {i}]
          /\ row' = IF Readable(i)
                    THEN ReconcileStatus(body[i].hash, i, dir[i])
                    ELSE row
    BY <1>2 DEF ReconcileItem
  <2>2. i \in Item /\ i \in 0 .. MaxItems /\ dir[i] \in Dirs
    BY DEF Op, Item
  <2>3. row' \in [Hash -> Row]
    BY <2>1, <2>2, ReconcileStatusType
  <2> QED
    BY <1>2, <2>1, <2>3 DEF ReconcileItem, Op
<1>3. CASE InitializeDone
  BY <1>3 DEF InitializeDone, Idle
<1>4. CASE RecoverStart
  <2> DEFINE T == Listing("processing")
  <2>1. op' = [Idle EXCEPT !.pc = "recover", !.todo = T]
    BY <1>4 DEF RecoverStart
  <2>2. T \in SUBSET Item
    BY DEF Listing
  <2> HIDE DEF T
  <2>3. op' \in Op /\ op'.pc = "recover"
    BY <2>1, <2>2, PcNames, DirNames DEF Idle, Op
  <2> QED
    BY <1>4, <2>3 DEF RecoverStart
<1>5. ASSUME NEW i \in Item, RecoverItem(i) PROVE TypeInv'
  BY <1>5 DEF RecoverItem, Move, Op, Dirs
<1>6. CASE RecoverDone
  BY <1>6 DEF RecoverDone, Idle
<1>7. CASE StopWorker
  BY <1>7 DEF StopWorker
<1>8. CASE CancelWorkerCall
  BY <1>8 DEF CancelWorkerCall, Idle
<1>9. CASE Close
  BY <1>9 DEF Close
<1> QED
  BY <1>1, <1>2, <1>3, <1>4, <1>5, <1>6, <1>7, <1>8, <1>9 DEF Start

LEMMA TypeEnqueue == TypeInv /\ Enqueue => TypeInv'
<1> SUFFICES ASSUME TypeInv, Enqueue PROVE TypeInv'
  OBVIOUS
<1> USE BoundsAssumption, IdleType DEF TypeInv, QueueTypeOK, OpInOrder,
        disk, history
<1>1. ASSUME NEW h \in Hash, EnqueueDuplicate(h) PROVE TypeInv'
  BY <1>1 DEF EnqueueDuplicate
<1>2. ASSUME NEW h \in Hash, EnqueuePendingDuplicate(h) PROVE TypeInv'
  <2>1. PICK i \in Item : row' = RecordNew(h, i)
    BY <1>2 DEF EnqueuePendingDuplicate
  <2>2. row' \in [Hash -> Row]
    BY <2>1, RecordNewType, ItemRange
  <2> QED
    BY <1>2, <2>2 DEF EnqueuePendingDuplicate
<1>3. ASSUME NEW h \in Hash, EnqueueWrite(h) PROVE TypeInv'
  <2>1. nextItem' \in 1 .. MaxItems + 1 /\ nextItem \in 0 .. MaxItems
    <3>1. nextItem \in Item /\ nextItem' = nextItem + 1
      BY <1>3 DEF EnqueueWrite
    <3>2. ASSUME NEW n \in Item
          PROVE n + 1 \in 1 .. MaxItems + 1 /\ n \in 0 .. MaxItems
      BY ONLY BoundsAssumption, <3>2 DEF Item
    <3> QED
      BY ONLY <3>1, <3>2
  <2>2. dir' \in [Item -> Dirs]
    BY <1>3 DEF EnqueueWrite, Move, Dirs
  <2>3. body' \in [Item -> Body]
    BY <1>3, <2>1 DEF EnqueueWrite, Body
  <2>4. op' \in Op /\ OpInOrder'
    BY <1>3, <2>1 DEF EnqueueWrite, Idle, Op, PCs, Dirs
  <2> QED
    BY <1>3, <2>1, <2>2, <2>3, <2>4 DEF EnqueueWrite
<1>4. CASE EnqueueRecord
  <2>1. op.item \in Item /\ op.item \in 0 .. MaxItems /\ body[op.item].hash \in Hash
    BY <1>4 DEF EnqueueRecord, Body, Op
  <2>2. row' \in [Hash -> Row]
    BY <1>4, <2>1, RecordNewType DEF EnqueueRecord
  <2> QED
    BY <1>4, <2>1, <2>2 DEF EnqueueRecord, Idle
<1>5. CASE EnqueueUndo
  <2>1. op.item \in Item /\ body[op.item].hash \in Hash
    BY <1>5 DEF EnqueueUndo, Body
  <2>2. dir' \in [Item -> Dirs] /\ body' \in [Item -> Body]
    BY <1>5, EmptyFileType DEF EnqueueUndo, Unlink, Move, Dirs
  <2> QED
    BY <1>5, <2>1, <2>2 DEF EnqueueUndo, Idle
<1> QED
  BY <1>1, <1>2, <1>3, <1>4, <1>5 DEF Enqueue

LEMMA TypeClaim == TypeInv /\ Claim => TypeInv'
<1> SUFFICES ASSUME TypeInv, Claim PROVE TypeInv'
  OBVIOUS
<1> USE BoundsAssumption, IdleType DEF TypeInv, QueueTypeOK, OpInOrder,
        disk, history
<1>1. ASSUME NEW skip, ClaimStart(skip) PROVE TypeInv'
  <2> DEFINE T == Listing("pending") \ skip
  <2>1. op' = [Idle EXCEPT !.pc = "claim", !.todo = T]
    BY <1>1 DEF ClaimStart
  <2>2. T \in SUBSET Item
    BY DEF Listing
  <2> HIDE DEF T
  <2>3. op' \in Op /\ op'.pc = "claim"
    BY <2>1, <2>2, PcNames, DirNames DEF Idle, Op
  <2> QED
    BY <1>1, <2>3 DEF ClaimStart
<1>2. CASE ClaimEmpty
  BY <1>2 DEF ClaimEmpty, Idle
<1>3. ASSUME NEW i \in Item, ClaimCorrupt(i) PROVE TypeInv'
  <2>1. {body[i].id} \ {0} \subseteq 0 .. MaxItems
    BY DEF Body
  <2> QED
    BY <1>3, <2>1, MoveType, DirNames, ItemRange, PcNames DEF ClaimCorrupt, Op
<1>4. CASE ClaimPurgeCorrupt
  <2>1. row' \in [Hash -> Row]
    BY <1>4, TableDeletes DEF ClaimPurgeCorrupt
  <2>2. 0 \in 0 .. MaxItems
    OBVIOUS
  <2>3. op' \in Op /\ OpInOrder'
    <3>1. CASE op.known = {}
      BY <1>4, <2>2, <3>1, PcNames DEF ClaimPurgeCorrupt, Op
    <3>2. CASE op.known # {}
      BY <1>4, <2>2, <3>2, PcNames DEF ClaimPurgeCorrupt, Op
    <3> QED
      BY <3>1, <3>2
  <2> QED
    BY <1>4, <2>1, <2>3 DEF ClaimPurgeCorrupt
<1>5. CASE ClaimPurgePayload
  <2>1. row' \in [Hash -> Row]
    BY <1>5, TableDeletes DEF ClaimPurgePayload
  <2>2. op' \in Op /\ op'.pc = "claim"
    BY <1>5, PcNames DEF ClaimPurgePayload, Op
  <2> QED
    BY <1>5, <2>1, <2>2 DEF ClaimPurgePayload
<1>6. ASSUME NEW i \in Item, ClaimMove(i) PROVE TypeInv'
  BY <1>6, MoveType, DirNames, ItemRange, PcNames DEF ClaimMove, Idle, Op
<1>7. CASE ClaimStatus
  <2>1. op.item \in 0 .. MaxItems
    BY DEF Op
  <2>2. row' \in [Hash -> Row]
    BY <1>7, <2>1, UpdateStatusType, DirNames DEF ClaimStatus
  <2> QED
    BY <1>7, <2>1, <2>2 DEF ClaimStatus, Idle
<1>8. CASE ClaimUnrecorded
  BY <1>8, PcNames DEF ClaimUnrecorded, Op
<1>9. CASE ClaimRecord
  <2>1. row' \in [Hash -> Row]
    BY <1>9, RecordNewType DEF ClaimRecord, Op
  <2>2. op' \in Op /\ op'.pc = "claim_update"
    BY <1>9, PcNames DEF ClaimRecord, Op
  <2> QED
    BY <1>9, <2>1, <2>2 DEF ClaimRecord
<1>10. CASE ClaimDuplicate
  BY <1>10 DEF ClaimDuplicate, Idle
<1> QED
  BY <1>1, <1>2, <1>3, <1>4, <1>5, <1>6, <1>7, <1>8, <1>9, <1>10 DEF Claim

LEMMA HeldIsItem ==
  ASSUME InProcessing, held \in 0 .. MaxItems
  PROVE  held \in Item
BY DEF InProcessing, Item

LEMMA TypeSettle == TypeInv /\ Settle => TypeInv'
<1> SUFFICES ASSUME TypeInv, Settle PROVE TypeInv'
  OBVIOUS
<1> USE BoundsAssumption, IdleType DEF TypeInv, QueueTypeOK, OpInOrder,
        disk, history
<1>1. CASE MarkSent
  BY <1>1, MoveType, DirNames, PcNames DEF MarkSent, InProcessing, Idle, Op
<1>2. ASSUME NEW from, NEW s \in Dirs, FinishStatus(from, s) PROVE TypeInv'
  <2>1. row' \in [Hash -> Row]
    BY <1>2, UpdateStatusType DEF FinishStatus
  <2> QED
    BY <1>2, <2>1 DEF FinishStatus, Idle
<1>3. ASSUME NEW perm \in BOOLEAN, MarkFailed(perm) PROVE TypeInv'
  <2>1. held \in Item
    BY <1>3, HeldIsItem DEF MarkFailed
  <2>2. body' \in [Item -> Body]
    BY <1>3, <2>1, SavedBodyType, ItemRange DEF MarkFailed
  <2> QED
    <3>1. op' = [Idle EXCEPT !.pc = "failed_move", !.item = held]
      BY <1>3 DEF MarkFailed
    <3>2. held \in 0 .. MaxItems /\ "failed_move" \in PCs
      BY <2>1, ItemRange DEF PCs
    <3>3. op' \in Op /\ OpInOrder'
      BY <3>1, <3>2 DEF Op, PCs, Idle, OpInOrder
    <3> QED
      BY <1>3, <2>2, <3>3 DEF MarkFailed
<1>4. CASE MarkFailedMove
  BY <1>4 DEF MarkFailedMove, Move, Op, PCs, Dirs
<1>5. CASE UpdateAttempt
  <2>1. held \in Item
    BY <1>5, HeldIsItem DEF UpdateAttempt
  <2>2. body' \in [Item -> Body]
    <3> DEFINE c == [body[held] EXCEPT !.id = held, !.attempts = @ + 1,
                                       !.due = FALSE, !.mtime = clock]
    <3>1. c \in Body
      BY <1>5, <2>1, ItemRange DEF UpdateAttempt, Body
    <3>2. body' = [body EXCEPT ![held] = c]
      BY <1>5, <2>1 DEF UpdateAttempt
    <3> QED
      <4> HIDE DEF c
      <4>1. body' \in [Item -> Body]
        BY <3>1, <3>2
      <4> QED
        BY <4>1
  <2> QED
    BY <1>5, <2>2 DEF UpdateAttempt
<1>6. CASE MoveBackToPending
  BY <1>6, MoveType, DirNames DEF MoveBackToPending
<1> QED
  BY <1>1, <1>2, <1>3, <1>4, <1>5, <1>6
  DEF Settle, MarkSentStatus, MarkFailedStatus, Dirs

LEMMA TypeCleanup == TypeInv /\ Cleanup => TypeInv'
<1> SUFFICES ASSUME TypeInv, Cleanup PROVE TypeInv'
  OBVIOUS
<1> USE BoundsAssumption, IdleType DEF TypeInv, QueueTypeOK, OpInOrder,
        disk, history
<1>1. CASE RequeueStart
  <2> DEFINE T == {i \in Listing("failed") : ~Older(body[i].seen, FailedDays)}
  <2>1. op' = [Idle EXCEPT !.pc = "requeue", !.todo = T]
    BY <1>1 DEF RequeueStart
  <2>2. T \in SUBSET Item
    BY DEF Listing
  <2> HIDE DEF T
  <2>3. op' \in Op /\ op'.pc = "requeue"
    BY <2>1, <2>2, PcNames, DirNames DEF Idle, Op
  <2> QED
    BY <1>1, <2>3 DEF RequeueStart
<1>2. ASSUME NEW i \in Item, RequeueSkip(i) PROVE TypeInv'
  BY <1>2 DEF RequeueSkip, Op
<1>3. ASSUME NEW i \in Item, RequeueMove(i) PROVE TypeInv'
  BY <1>3, MoveType, DirNames, ItemRange, PcNames DEF RequeueMove, Op
<1>4. CASE RequeueStatus
  <2>1. row' \in [Hash -> Row]
    BY <1>4, UpdateStatusType, DirNames DEF RequeueStatus
  <2>2. op' \in Op /\ OpInOrder'
    <3>1. CASE HasRow(body[op.item].hash)
      <4>1. op' = [op EXCEPT !.pc = "requeue", !.item = 0] /\ 0 \in 0 .. MaxItems
        BY <1>4, <3>1 DEF RequeueStatus
      <4> QED
        BY <4>1, PcNames DEF Op
    <3>2. CASE ~HasRow(body[op.item].hash)
      <4>1. op' = Idle
        BY <1>4, <3>2 DEF RequeueStatus
      <4> QED
        BY <4>1 DEF Idle
    <3> QED
      BY <3>1, <3>2
  <2> QED
    BY <1>4, <2>1, <2>2 DEF RequeueStatus
<1>5. CASE RequeueDone
  BY <1>5 DEF RequeueDone, Idle
<1>6. ASSUME NEW d \in {"sent", "failed"}, CleanupStart(d) PROVE TypeInv'
  <2>1. {row[h].item : h \in Expired(d)} \cap Listing(d) \in SUBSET Item
    BY DEF Listing
  <2>2. {row[h].item : h \in {g \in Hash : HasRow(g)}} \in SUBSET (0 .. MaxItems)
    BY DEF Row
  <2> QED
    BY <1>6, <2>1, <2>2, PcNames, DirNames DEF CleanupStart, Idle, Op
<1>7. ASSUME NEW i \in Item, CleanupUnlink(i) PROVE TypeInv'
  <2>1. body[i].hash \in Hash
    BY DEF Body
  <2>2. dir' \in [Item -> Dirs] /\ body' \in [Item -> Body]
    BY <1>7, EmptyFileType DEF CleanupUnlink, Unlink, Move, Dirs
  <2> QED
    BY <1>7, <2>1, <2>2 DEF CleanupUnlink, Op
<1>8. CASE CleanupUnknown
  BY <1>8, PcNames DEF CleanupUnknown, Listing, Op
<1>9. CASE CleanupPurge
  BY <1>9, TableDeletes DEF CleanupPurge, Idle
<1> QED
  BY <1>1, <1>2, <1>3, <1>4, <1>5, <1>6, <1>7, <1>8, <1>9 DEF Cleanup

LEMMA TypeEnvironment == TypeInv /\ Environment => TypeInv'
<1> SUFFICES ASSUME TypeInv, Environment PROVE TypeInv'
  OBVIOUS
<1> USE BoundsAssumption, IdleType DEF TypeInv, QueueTypeOK, OpInOrder,
        disk, history
<1>1. CASE Tick
  BY <1>1 DEF Tick
<1>2. CASE Fault
  BY <1>2 DEF Fault, Idle
<1>3. CASE Crash
  BY <1>3 DEF Crash, Idle
<1>4. ASSUME NEW i \in Item, RetryTimeComes(i) PROVE TypeInv'
  BY <1>4 DEF RetryTimeComes, Body
<1>5. ASSUME NEW i \in Item, HealFile(i) PROVE TypeInv'
  <2>1. i \in 0 .. MaxItems
    BY DEF Item
  <2> QED
    BY <1>5, <2>1 DEF HealFile, Body
<1>6. ASSUME NEW i \in Item, NEW id \in 0 .. MaxItems, DamageFile(i, id)
      PROVE TypeInv'
  <2>1. body' \in [Item -> Body] /\ body[i].hash \in Hash
    BY <1>6 DEF DamageFile, Body
  <2> QED
    BY <1>6, <2>1 DEF DamageFile
<1>7. ASSUME NEW h \in Hash, ImportRow(h) PROVE TypeInv'
  <2>1. row' \in [Hash -> Row]
    BY <1>7, RowWrite, DirNames DEF ImportRow
  <2> QED
    BY <1>7, <2>1 DEF ImportRow
<1> QED
  BY <1>1, <1>2, <1>3, <1>4, <1>5, <1>6, <1>7 DEF Environment

LEMMA TypeStutter == TypeInv /\ UNCHANGED queueVars => TypeInv'
BY DEF TypeInv, QueueTypeOK, OpInOrder, queueVars, disk, history

LEMMA TypeStep == TypeInv /\ [QueueNext]_queueVars => TypeInv'
BY TypeStart, TypeEnqueue, TypeClaim, TypeSettle, TypeCleanup, TypeEnvironment,
   TypeStutter DEF QueueNext

(* Every variable of the queue stays in its domain, for every interleaving of
   calls, crashes, errors, damage and imports. *)
THEOREM QueueTypeCorrect == QueueSpec => []QueueTypeOK
<1>1. TypeInv => QueueTypeOK
  BY DEF TypeInv
<1> QED
  BY <1>1, TypeInit, TypeStep, PTL DEF QueueSpec
-----------------------------------------------------------------------------
(* No acknowledged SMS is lost.  AckInv is the inductive invariant; a step
   preserves its first two conjuncts when it keeps or excuses every readable
   file, takes no excuse back without a file, and adds no row and no
   acknowledgement that nothing backs. *)

Answered(h) == Backed(h) \/ h \in excused

KeepsFiles ==
  \A i \in Item : dir[i] # "none" /\ Readable(i) =>
    \/ dir'[i] # "none" /\ body'[i].id = i /\ body'[i].hash = body[i].hash
    \/ body[i].hash \in excused'

KeepsExcuses == \A h \in Hash : h \in excused => Answered(h)'
AddsBackedRows == \A h \in Hash : HasRow(h)' => HasRow(h) \/ Answered(h)'
AddsBackedAcks == \A h \in Hash : h \in acked' => h \in acked \/ HasRow(h) \/ Answered(h)'

LEMMA CustodyKept ==
  ASSUME TypeInv, TypeInv', AckInv,
         KeepsFiles, KeepsExcuses, AddsBackedRows, AddsBackedAcks
  PROVE  RowBacked' /\ NoAckedLoss'
<1>1. ASSUME NEW h \in Hash, Answered(h) PROVE Answered(h)'
  <2>1. CASE h \in excused
    BY <2>1 DEF KeepsExcuses
  <2>2. CASE Backed(h)
    <3>1. PICK i \in Item : dir[i] # "none" /\ Readable(i) /\ body[i].hash = h
      BY <2>2 DEF Backed
    <3> QED
      BY <3>1 DEF KeepsFiles, Answered, Backed, Readable
  <2> QED
    BY <1>1, <2>1, <2>2 DEF Answered
<1>2. \A h \in Hash : h \in acked \/ HasRow(h) => Answered(h)
  BY DEF AckInv, RowBacked, NoAckedLoss, Answered
<1>3. RowBacked'
  BY <1>1, <1>2 DEF AddsBackedRows, RowBacked, Answered
<1>4. NoAckedLoss'
  BY <1>1, <1>2 DEF AddsBackedAcks, NoAckedLoss, Answered, TypeInv, QueueTypeOK
<1> QED
  BY <1>3, <1>4

(* Steps that leave the files alone, and steps that rename one. *)
LEMMA SameFiles ==
  ASSUME UNCHANGED <<dir, body>> PROVE KeepsFiles
BY DEF KeepsFiles, Readable

LEMMA MovedFile ==
  ASSUME TypeInv, NEW i, NEW d, d # "none", Move(i, d), body' = body
  PROVE  KeepsFiles
BY DEF KeepsFiles, Readable, Move, TypeInv, QueueTypeOK

LEMMA SameHistory ==
  ASSUME UNCHANGED history PROVE KeepsExcuses /\ AddsBackedAcks
BY DEF history, KeepsExcuses, AddsBackedAcks, Answered

LEMMA SameRows ==
  ASSUME UNCHANGED row PROVE AddsBackedRows
BY DEF AddsBackedRows, HasRow

LEMMA UpdatedRow ==
  ASSUME TypeInv, NEW h, NEW s, HasRow(h), row' = UpdateStatus(h, s)
  PROVE  AddsBackedRows
BY DEF AddsBackedRows, HasRow, UpdateStatus, TypeInv, QueueTypeOK, Row

LEMMA InsertedRow ==
  ASSUME TypeInv, NEW h, NEW r, row' = [row EXCEPT ![h] = r],
         h \in Hash => Answered(h)'
  PROVE  AddsBackedRows
BY DEF AddsBackedRows, HasRow, TypeInv, QueueTypeOK

LEMMA DeletedRows ==
  ASSUME NEW H, row' = [h \in Hash |-> IF h \in H THEN NoRow ELSE row[h]]
  PROVE  AddsBackedRows
BY DEF AddsBackedRows, HasRow, NoRow

LEMMA AckInit == QueueInit => AckInv
BY BoundsAssumption
DEF QueueInit, AckInv, RowBacked, HasRow, NoRow, NoAckedLoss, RowFollowsFile,
    FreshIds, Idle, Item

(* The ids in hand stay below the next fresh one: what a step has to show. *)
LEMMA FreshKept ==
  ASSUME TypeInv, TypeInv', FreshIds, nextItem' = nextItem,
         \A i \in Item : dir'[i] # "none" => dir[i] # "none" \/ i < nextItem,
         op'.item < nextItem, held' < nextItem,
         \A i \in op'.todo : i \in op.todo \/ dir[i] # "none"
  PROVE  FreshIds'
BY BoundsAssumption DEF FreshIds, TypeInv, QueueTypeOK, Op, Item

(* What every step of a group has to establish, spelled out once. *)
StepKeepsAck ==
  /\ KeepsFiles /\ KeepsExcuses /\ AddsBackedRows /\ AddsBackedAcks
  /\ RowFollowsFile' /\ FreshIds'

LEMMA AckFromStep ==
  ASSUME TypeInv, TypeInv', AckInv, StepKeepsAck PROVE AckInv'
BY CustodyKept DEF StepKeepsAck, AckInv

LEMMA AckStart == TypeInv /\ TypeInv' /\ AckInv /\ Start => AckInv'
<1> SUFFICES ASSUME TypeInv, TypeInv', AckInv, Start PROVE StepKeepsAck
  BY AckFromStep
<1> USE DEF StepKeepsAck, disk, history, AckInv
<1>1. CASE InitializeStart
  <2>1. FreshIds'
    BY <1>1, FreshKept, BoundsAssumption
    DEF InitializeStart, ReconcileRank, Idle, FreshIds, TypeInv, QueueTypeOK
  <2> QED
    BY <1>1, <2>1, SameFiles, SameHistory, SameRows
    DEF InitializeStart, RowFollowsFile, Idle
<1>2. CASE ReconcileItem
  <2>1. PICK i \in op.todo :
          /\ op' = [op EXCEPT !.todo = @ \ {i}]
          /\ row' = IF Readable(i)
                    THEN ReconcileStatus(body[i].hash, i, dir[i])
                    ELSE row
          /\ UNCHANGED <<disk, phase, held, clock, spent, history>>
    BY <1>2 DEF ReconcileItem
  <2>2. op.pc = "reconcile" /\ i \in Item
    BY <1>2 DEF ReconcileItem, TypeInv, QueueTypeOK, Op
  <2>3. AddsBackedRows
    <3>1. CASE ~Readable(i)
      BY <2>1, <3>1, SameRows
    <3>2. CASE Readable(i) /\ HasRow(body[i].hash)
      BY <2>1, <3>2, SameRows, UpdatedRow DEF ReconcileStatus
    <3>3. CASE Readable(i) /\ ~HasRow(body[i].hash)
      <4>1. dir[i] # "none" => Backed(body[i].hash)'
        BY <2>1, <2>2, <3>3 DEF Backed, Readable
      <4>2. CASE dir[i] # "none"
        BY <2>1, <3>3, <4>1, <4>2, InsertedRow DEF ReconcileStatus, Answered
      <4>3. CASE dir[i] = "none"
        BY <2>1, <2>2, <3>3, <4>3
        DEF ReconcileStatus, AddsBackedRows, HasRow, TypeInv, QueueTypeOK, Row
      <4> QED
        BY <4>2, <4>3
    <3> QED
      BY <3>1, <3>2, <3>3
  <2>4. FreshIds'
    BY <2>1, FreshKept DEF FreshIds, TypeInv, QueueTypeOK, Op
  <2>5. RowFollowsFile'
    BY <2>1, <2>2 DEF RowFollowsFile, TypeInv, QueueTypeOK, Op
  <2> QED
    BY <2>1, <2>3, <2>4, <2>5, SameFiles, SameHistory
<1>3. CASE InitializeDone
  <2>1. FreshIds'
    BY <1>3, FreshKept, BoundsAssumption
    DEF InitializeDone, Idle, FreshIds, TypeInv, QueueTypeOK
  <2> QED
    BY <1>3, <2>1, SameFiles, SameHistory, SameRows
    DEF InitializeDone, RowFollowsFile, Idle
<1>4. CASE RecoverStart
  <2>1. FreshIds'
    BY <1>4, FreshKept, BoundsAssumption
    DEF RecoverStart, Listing, Idle, FreshIds, TypeInv, QueueTypeOK
  <2> QED
    BY <1>4, <2>1, SameFiles, SameHistory, SameRows
    DEF RecoverStart, RowFollowsFile, Idle
<1>5. ASSUME NEW i \in Item, RecoverItem(i) PROVE StepKeepsAck
  <2>1. FreshIds'
    BY <1>5, FreshKept
    DEF RecoverItem, First, Move, FreshIds, TypeInv, QueueTypeOK, Op
  <2> QED
    BY <1>5, <2>1, MovedFile, SameHistory, SameRows
    DEF RecoverItem, RowFollowsFile, TypeInv, QueueTypeOK, Op
<1>6. CASE RecoverDone
  <2>1. FreshIds'
    BY <1>6, FreshKept, BoundsAssumption
    DEF RecoverDone, Idle, FreshIds, TypeInv, QueueTypeOK
  <2> QED
    BY <1>6, <2>1, SameFiles, SameHistory, SameRows
    DEF RecoverDone, RowFollowsFile, Idle
<1>7. CASE StopWorker \/ Close
  <2>1. FreshIds'
    BY <1>7, FreshKept, BoundsAssumption
    DEF StopWorker, Close, FreshIds, TypeInv, QueueTypeOK
  <2>2. RowFollowsFile'
    BY <1>7 DEF StopWorker, Close, RowFollowsFile, Readable, HasRow
  <2> QED
    BY <1>7, <2>1, <2>2, SameFiles, SameHistory, SameRows DEF StopWorker, Close
<1>8. CASE CancelWorkerCall
  <2>1. FreshIds'
    BY <1>8, FreshKept, BoundsAssumption
    DEF CancelWorkerCall, Idle, FreshIds, TypeInv, QueueTypeOK
  <2> QED
    BY <1>8, <2>1, SameFiles, SameHistory, SameRows
    DEF CancelWorkerCall, RowFollowsFile, Idle
<1> QED
  BY <1>1, <1>2, <1>3, <1>4, <1>5, <1>6, <1>7, <1>8 DEF Start

LEMMA AckEnqueue == TypeInv /\ TypeInv' /\ AckInv /\ Enqueue => AckInv'
<1> SUFFICES ASSUME TypeInv, TypeInv', AckInv, Enqueue PROVE StepKeepsAck
  BY AckFromStep
<1> USE DEF StepKeepsAck, disk, history, AckInv
<1>1. ASSUME NEW h \in Hash, EnqueueDuplicate(h) PROVE StepKeepsAck
  <2>1. AddsBackedAcks /\ KeepsExcuses
    BY <1>1 DEF EnqueueDuplicate, AddsBackedAcks, KeepsExcuses, Answered
  <2>2. FreshIds' /\ RowFollowsFile'
    BY <1>1 DEF EnqueueDuplicate, Accepting, FreshIds, RowFollowsFile
  <2> QED
    BY <1>1, <2>1, <2>2, SameFiles, SameRows DEF EnqueueDuplicate
<1>2. ASSUME NEW h \in Hash, EnqueuePendingDuplicate(h) PROVE StepKeepsAck
  <2>1. PICK i \in Item : First(i, PendingDuplicates(h)) /\ row' = RecordNew(h, i)
    BY <1>2 DEF EnqueuePendingDuplicate
  <2>2. Answered(h)'
    BY <1>2, <2>1 DEF EnqueuePendingDuplicate, First, PendingDuplicates, Listing,
                      Answered, Backed, Readable
  <2>3. AddsBackedRows
    BY <2>1, <2>2, InsertedRow DEF RecordNew
  <2>4. AddsBackedAcks /\ KeepsExcuses
    BY <1>2, <2>2 DEF EnqueuePendingDuplicate, AddsBackedAcks, KeepsExcuses, Answered
  <2>5. FreshIds' /\ RowFollowsFile'
    BY <1>2 DEF EnqueuePendingDuplicate, Accepting, FreshIds, RowFollowsFile
  <2> QED
    BY <1>2, <2>3, <2>4, <2>5, SameFiles DEF EnqueuePendingDuplicate
<1>3. ASSUME NEW h \in Hash, EnqueueWrite(h) PROVE StepKeepsAck
  <2>1. /\ nextItem \in Item /\ dir[nextItem] = "none"
        /\ dir' = [dir EXCEPT ![nextItem] = "pending"]
        /\ body'[nextItem].id = nextItem /\ body'[nextItem].hash = h
        /\ \A i \in Item : i # nextItem => body'[i] = body[i]
        /\ excused' = excused \ {h}
        /\ ~HasRow(h)'
    BY <1>3 DEF EnqueueWrite, Move, FreshIds, HasRow, TypeInv, QueueTypeOK, Item
  <2>2. Answered(h)'
    BY <2>1 DEF Answered, Backed, Readable, TypeInv, QueueTypeOK
  <2>3. KeepsFiles
    BY <2>1 DEF KeepsFiles, Readable, TypeInv, QueueTypeOK
  <2>4. KeepsExcuses
    BY <2>1, <2>2 DEF KeepsExcuses, Answered
  <2>5. AddsBackedRows /\ AddsBackedAcks
    BY <1>3, SameRows DEF EnqueueWrite, AddsBackedAcks
  <2>6. RowFollowsFile'
    BY <1>3, <2>1
    DEF EnqueueWrite, RowFollowsFile, Readable, Idle, TypeInv, QueueTypeOK
  <2>7. FreshIds'
    <3>1. /\ nextItem \in Nat /\ nextItem' = nextItem + 1 /\ held' = held
          /\ held \in Nat /\ op'.item = nextItem /\ op'.todo = {}
      BY <1>3, BoundsAssumption DEF EnqueueWrite, Idle, TypeInv, QueueTypeOK
    <3>2. \A i \in Item : i >= nextItem + 1 => dir'[i] = "none"
      BY <2>1, <3>1 DEF FreshIds, TypeInv, QueueTypeOK, Item
    <3> QED
      BY <3>1, <3>2 DEF FreshIds
  <2> QED
    BY <2>3, <2>4, <2>5, <2>6, <2>7
<1>4. CASE EnqueueRecord
  <2> PICK h : h = body[op.item].hash
    OBVIOUS
  <2>1. /\ op.item \in Item /\ dir[op.item] # "none"
        /\ Readable(op.item) \/ h \in excused
        /\ UNCHANGED <<dir, body, excused>>
    BY <1>4 DEF EnqueueRecord, RowFollowsFile
  <2>2. Answered(h)'
    BY <2>1 DEF Answered, Backed, Readable
  <2>3. AddsBackedRows
    <3>1. row' = RecordNew(h, op.item)
      BY <1>4 DEF EnqueueRecord
    <3> QED
      BY <2>2, <3>1, InsertedRow DEF RecordNew
  <2>4. AddsBackedAcks /\ KeepsExcuses
    BY <1>4, <2>1, <2>2 DEF EnqueueRecord, AddsBackedAcks, KeepsExcuses, Answered
  <2>5. FreshIds' /\ RowFollowsFile'
    BY <1>4, BoundsAssumption
    DEF EnqueueRecord, FreshIds, RowFollowsFile, Idle, TypeInv, QueueTypeOK
  <2> QED
    BY <2>1, <2>3, <2>4, <2>5, SameFiles
<1>5. CASE EnqueueUndo
  <2> DEFINE h == body[op.item].hash
  <2>1. op.item \in Item /\ h \in excused /\ excused' = excused /\ row' = row
    BY <1>5 DEF EnqueueUndo, RowFollowsFile
  <2>2. KeepsFiles
    BY <1>5, <2>1
    DEF EnqueueUndo, KeepsFiles, Unlink, Move, Readable, TypeInv, QueueTypeOK
  <2>3. AddsBackedAcks /\ KeepsExcuses
    BY <1>5, <2>1 DEF EnqueueUndo, AddsBackedAcks, KeepsExcuses, Answered
  <2>4. FreshIds' /\ RowFollowsFile'
    BY <1>5, BoundsAssumption
    DEF EnqueueUndo, Unlink, Move, FreshIds, RowFollowsFile, Idle, TypeInv,
        QueueTypeOK
  <2> QED
    BY <2>1, <2>2, <2>3, <2>4, SameRows
<1> QED
  BY <1>1, <1>2, <1>3, <1>4, <1>5 DEF Enqueue

LEMMA AckClaim == TypeInv /\ TypeInv' /\ AckInv /\ Claim => AckInv'
<1> SUFFICES ASSUME TypeInv, TypeInv', AckInv, Claim PROVE StepKeepsAck
  BY AckFromStep
<1> USE DEF StepKeepsAck, disk, history, AckInv
<1>1. ASSUME NEW skip, ClaimStart(skip) PROVE StepKeepsAck
  <2>1. FreshIds'
    BY <1>1, FreshKept, BoundsAssumption
    DEF ClaimStart, Listing, Idle, FreshIds, TypeInv, QueueTypeOK
  <2> QED
    BY <1>1, <2>1, SameFiles, SameHistory, SameRows
    DEF ClaimStart, RowFollowsFile, Idle
<1>2. CASE ClaimEmpty
  <2>1. FreshIds'
    BY <1>2, FreshKept, BoundsAssumption
    DEF ClaimEmpty, Idle, FreshIds, TypeInv, QueueTypeOK
  <2> QED
    BY <1>2, <2>1, SameFiles, SameHistory, SameRows
    DEF ClaimEmpty, RowFollowsFile, Idle
<1>3. ASSUME NEW i \in Item, ClaimCorrupt(i) PROVE StepKeepsAck
  <2>1. FreshIds'
    BY <1>3, FreshKept
    DEF ClaimCorrupt, First, Move, FreshIds, TypeInv, QueueTypeOK, Op
  <2> QED
    BY <1>3, <2>1, MovedFile, SameHistory, SameRows
    DEF ClaimCorrupt, RowFollowsFile, TypeInv, QueueTypeOK, Op
<1>4. CASE ClaimPurgeCorrupt
  <2>1. op'.todo = op.todo /\ op'.item = 0 /\ op'.pc \in {"claim", "purge_payload"}
    BY <1>4 DEF ClaimPurgeCorrupt, TypeInv, QueueTypeOK, Op
  <2>2. FreshIds'
    BY <1>4, <2>1, FreshKept, BoundsAssumption
    DEF ClaimPurgeCorrupt, FreshIds, TypeInv, QueueTypeOK
  <2>3. AddsBackedRows
    BY <1>4 DEF ClaimPurgeCorrupt, DeleteByItemId, AddsBackedRows, HasRow, NoRow
  <2> QED
    BY <1>4, <2>1, <2>2, <2>3, SameFiles, SameHistory
    DEF ClaimPurgeCorrupt, RowFollowsFile
<1>5. CASE ClaimPurgePayload
  <2>1. op'.todo = op.todo /\ op'.item = op.item /\ op'.pc = "claim"
    BY <1>5 DEF ClaimPurgePayload, TypeInv, QueueTypeOK, Op
  <2>2. FreshIds'
    BY <1>5, <2>1 DEF ClaimPurgePayload, FreshIds
  <2>3. AddsBackedRows
    BY <1>5 DEF ClaimPurgePayload, DeleteByItemId, AddsBackedRows, HasRow, NoRow
  <2> QED
    BY <1>5, <2>1, <2>2, <2>3, SameFiles, SameHistory
    DEF ClaimPurgePayload, RowFollowsFile
<1>6. ASSUME NEW i \in Item, ClaimMove(i) PROVE StepKeepsAck
  <2>1. FreshIds'
    BY <1>6, FreshKept
    DEF ClaimMove, First, Move, Idle, FreshIds, TypeInv, QueueTypeOK, Op
  <2>2. RowFollowsFile'
    BY <1>6 DEF ClaimMove, Move, Readable, RowFollowsFile, Idle, TypeInv, QueueTypeOK
  <2> QED
    BY <1>6, <2>1, <2>2, MovedFile, SameHistory, SameRows DEF ClaimMove
<1>7. CASE ClaimStatus
  <2>1. AddsBackedRows
    BY <1>7, UpdatedRow DEF ClaimStatus
  <2>2. FreshIds'
    BY <1>7, FreshKept, BoundsAssumption
    DEF ClaimStatus, Idle, FreshIds, TypeInv, QueueTypeOK, Op
  <2> QED
    BY <1>7, <2>1, <2>2, SameFiles, SameHistory
    DEF ClaimStatus, RowFollowsFile, Idle
<1>8. CASE ClaimUnrecorded
  <2>1. op'.todo = op.todo /\ op'.item = op.item /\ op'.pc = "claim_record"
    BY <1>8 DEF ClaimUnrecorded, TypeInv, QueueTypeOK, Op
  <2>2. FreshIds'
    BY <1>8, <2>1 DEF ClaimUnrecorded, FreshIds
  <2>3. RowFollowsFile'
    BY <1>8, <2>1 DEF ClaimUnrecorded, RowFollowsFile, Readable
  <2> QED
    BY <1>8, <2>2, <2>3, SameFiles, SameHistory, SameRows DEF ClaimUnrecorded
<1>9. CASE ClaimRecord
  <2> PICK h : h = body[op.item].hash
    OBVIOUS
  <2>1. op'.todo = op.todo /\ op'.item = op.item /\ op'.pc = "claim_update"
    BY <1>9 DEF ClaimRecord, TypeInv, QueueTypeOK, Op
  <2>2. FreshIds'
    BY <1>9, <2>1 DEF ClaimRecord, FreshIds
  <2>3. RowFollowsFile'
    BY <1>9, <2>1 DEF ClaimRecord, RowFollowsFile, Readable
  <2>4. Answered(h)'
    BY <1>9 DEF ClaimRecord, RowFollowsFile, Answered, Backed, Readable
  <2>5. AddsBackedRows
    <3>1. row' = RecordNew(h, op.item)
      BY <1>9 DEF ClaimRecord
    <3> QED
      BY <2>4, <3>1, InsertedRow DEF RecordNew
  <2> QED
    BY <1>9, <2>2, <2>3, <2>5, SameFiles, SameHistory DEF ClaimRecord
<1>10. CASE ClaimDuplicate
  <2>1. FreshIds'
    BY <1>10, FreshKept, BoundsAssumption
    DEF ClaimDuplicate, Idle, FreshIds, TypeInv, QueueTypeOK
  <2> QED
    BY <1>10, <2>1, SameFiles, SameHistory, SameRows
    DEF ClaimDuplicate, RowFollowsFile, Idle
<1> QED
  BY <1>1, <1>2, <1>3, <1>4, <1>5, <1>6, <1>7, <1>8, <1>9, <1>10 DEF Claim

LEMMA AckSettle == TypeInv /\ TypeInv' /\ AckInv /\ Settle => AckInv'
<1> SUFFICES ASSUME TypeInv, TypeInv', AckInv, Settle PROVE StepKeepsAck
  BY AckFromStep
<1> USE DEF StepKeepsAck, disk, history, AckInv
<1>1. CASE MarkSent
  <2>1. FreshIds'
    BY <1>1, FreshKept
    DEF MarkSent, Move, Idle, FreshIds, TypeInv, QueueTypeOK
  <2> QED
    BY <1>1, <2>1, MovedFile, SameHistory, SameRows
    DEF MarkSent, RowFollowsFile, Idle
<1>2. ASSUME NEW from, NEW s, FinishStatus(from, s) PROVE StepKeepsAck
  <2>1. FreshIds'
    BY <1>2, FreshKept, BoundsAssumption
    DEF FinishStatus, Idle, FreshIds, TypeInv, QueueTypeOK
  <2>2. AddsBackedRows
    BY <1>2, SameRows, UpdatedRow DEF FinishStatus
  <2> QED
    BY <1>2, <2>1, <2>2, SameFiles, SameHistory
    DEF FinishStatus, RowFollowsFile, Idle
<1>3. ASSUME NEW perm \in BOOLEAN, MarkFailed(perm) PROVE StepKeepsAck
  <2>1. FreshIds'
    BY <1>3, FreshKept
    DEF MarkFailed, Idle, FreshIds, TypeInv, QueueTypeOK
  <2>2. KeepsFiles
    BY <1>3 DEF MarkFailed, KeepsFiles, Readable, TypeInv, QueueTypeOK, Body
  <2> QED
    BY <1>3, <2>1, <2>2, SameHistory, SameRows
    DEF MarkFailed, RowFollowsFile, Idle
<1>4. CASE MarkFailedMove
  <2>1. FreshIds'
    BY <1>4, FreshKept
    DEF MarkFailedMove, Move, FreshIds, TypeInv, QueueTypeOK, Op
  <2> QED
    BY <1>4, <2>1, MovedFile, SameHistory, SameRows
    DEF MarkFailedMove, RowFollowsFile, TypeInv, QueueTypeOK, Op
<1>5. CASE UpdateAttempt
  <2>1. FreshIds'
    BY <1>5 DEF UpdateAttempt, FreshIds
  <2>2. KeepsFiles
    BY <1>5 DEF UpdateAttempt, KeepsFiles, Readable, TypeInv, QueueTypeOK, Body
  <2> QED
    BY <1>5, <2>1, <2>2, SameHistory, SameRows
    DEF UpdateAttempt, InProcessing, Lockable, RowFollowsFile
<1>6. CASE MoveBackToPending
  <2>1. FreshIds'
    BY <1>6, FreshKept, BoundsAssumption
    DEF MoveBackToPending, Move, FreshIds, TypeInv, QueueTypeOK
  <2> QED
    BY <1>6, <2>1, MovedFile, SameHistory, SameRows
    DEF MoveBackToPending, InProcessing, Lockable, RowFollowsFile
<1> QED
  BY <1>1, <1>2, <1>3, <1>4, <1>5, <1>6
  DEF Settle, MarkSentStatus, MarkFailedStatus

LEMMA AckCleanup == TypeInv /\ TypeInv' /\ AckInv /\ Cleanup => AckInv'
<1> SUFFICES ASSUME TypeInv, TypeInv', AckInv, Cleanup PROVE StepKeepsAck
  BY AckFromStep
<1> USE DEF StepKeepsAck, disk, history, AckInv
<1>1. CASE RequeueStart
  <2>1. FreshIds'
    BY <1>1, FreshKept, BoundsAssumption
    DEF RequeueStart, Listing, Idle, FreshIds, TypeInv, QueueTypeOK
  <2> QED
    BY <1>1, <2>1, SameFiles, SameHistory, SameRows
    DEF RequeueStart, RowFollowsFile, Idle
<1>2. ASSUME NEW i \in Item, RequeueSkip(i) PROVE StepKeepsAck
  <2>1. FreshIds'
    BY <1>2, FreshKept DEF RequeueSkip, FreshIds, TypeInv, QueueTypeOK, Op
  <2> QED
    BY <1>2, <2>1, SameFiles, SameHistory, SameRows
    DEF RequeueSkip, RowFollowsFile, TypeInv, QueueTypeOK, Op
<1>3. ASSUME NEW i \in Item, RequeueMove(i) PROVE StepKeepsAck
  <2>1. FreshIds'
    BY <1>3, FreshKept
    DEF RequeueMove, First, Move, FreshIds, TypeInv, QueueTypeOK, Op
  <2> QED
    BY <1>3, <2>1, MovedFile, SameHistory, SameRows
    DEF RequeueMove, RowFollowsFile, TypeInv, QueueTypeOK, Op
<1>4. CASE RequeueStatus
  <2>1. op'.todo \subseteq op.todo /\ op'.item = 0 /\ op'.pc \in {"idle", "requeue"}
    <3>1. CASE HasRow(body[op.item].hash)
      BY <1>4, <3>1 DEF RequeueStatus, TypeInv, QueueTypeOK, Op
    <3>2. CASE ~HasRow(body[op.item].hash)
      BY <1>4, <3>2 DEF RequeueStatus, Idle
    <3> QED
      BY <3>1, <3>2
  <2>2. FreshIds'
    BY <1>4, <2>1, FreshKept, BoundsAssumption
    DEF RequeueStatus, FreshIds, TypeInv, QueueTypeOK
  <2>3. AddsBackedRows
    BY <1>4, SameRows, UpdatedRow DEF RequeueStatus
  <2> QED
    BY <1>4, <2>1, <2>2, <2>3, SameFiles, SameHistory
    DEF RequeueStatus, RowFollowsFile
<1>5. CASE RequeueDone
  <2>1. FreshIds'
    BY <1>5, FreshKept, BoundsAssumption
    DEF RequeueDone, Idle, FreshIds, TypeInv, QueueTypeOK
  <2> QED
    BY <1>5, <2>1, SameFiles, SameHistory, SameRows
    DEF RequeueDone, RowFollowsFile, Idle
<1>6. ASSUME NEW d \in {"sent", "failed"}, CleanupStart(d) PROVE StepKeepsAck
  <2>1. /\ op'.todo \subseteq Listing(d) /\ op'.item = 0 /\ op'.pc = "unlink_known"
    BY <1>6 DEF CleanupStart, Idle
  <2>2. FreshIds'
    BY <1>6, <2>1, FreshKept, BoundsAssumption
    DEF CleanupStart, Listing, FreshIds, TypeInv, QueueTypeOK
  <2> QED
    BY <1>6, <2>1, <2>2, SameFiles, SameHistory, SameRows
    DEF CleanupStart, RowFollowsFile
<1>7. ASSUME NEW i \in Item, CleanupUnlink(i) PROVE StepKeepsAck
  <2>1. KeepsFiles
    BY <1>7 DEF CleanupUnlink, Unlink, Move, KeepsFiles, Readable, TypeInv, QueueTypeOK
  <2>2. KeepsExcuses /\ AddsBackedAcks
    BY <1>7 DEF CleanupUnlink, KeepsExcuses, AddsBackedAcks, Answered
  <2>3. FreshIds'
    BY <1>7, FreshKept
    DEF CleanupUnlink, Unlink, Move, FreshIds, TypeInv, QueueTypeOK, Op
  <2>4. RowFollowsFile'
    BY <1>7 DEF CleanupUnlink, RowFollowsFile, TypeInv, QueueTypeOK, Op
  <2> QED
    BY <1>7, <2>1, <2>2, <2>3, <2>4, SameRows DEF CleanupUnlink
<1>8. CASE CleanupUnknown
  <2>1. FreshIds'
    BY <1>8, FreshKept, BoundsAssumption
    DEF CleanupUnknown, Listing, FreshIds, TypeInv, QueueTypeOK, OpInOrder, Op
  <2> QED
    BY <1>8, <2>1, SameFiles, SameHistory, SameRows
    DEF CleanupUnknown, RowFollowsFile, TypeInv, QueueTypeOK, Op
<1>9. CASE CleanupPurge
  <2>1. FreshIds'
    BY <1>9, FreshKept, BoundsAssumption
    DEF CleanupPurge, Idle, FreshIds, TypeInv, QueueTypeOK
  <2>2. AddsBackedRows
    BY <1>9, DeletedRows DEF CleanupPurge, PurgeOlderThan
  <2> QED
    BY <1>9, <2>1, <2>2, SameFiles, SameHistory
    DEF CleanupPurge, RowFollowsFile, Idle
<1> QED
  BY <1>1, <1>2, <1>3, <1>4, <1>5, <1>6, <1>7, <1>8, <1>9 DEF Cleanup

LEMMA AckEnvironment == TypeInv /\ TypeInv' /\ AckInv /\ Environment => AckInv'
<1> SUFFICES ASSUME TypeInv, TypeInv', AckInv, Environment PROVE StepKeepsAck
  BY AckFromStep
<1> USE DEF StepKeepsAck, disk, history, AckInv
<1>1. CASE Tick
  <2>1. FreshIds' /\ RowFollowsFile'
    BY <1>1 DEF Tick, FreshIds, RowFollowsFile, Readable, HasRow
  <2> QED
    BY <1>1, <2>1, SameFiles, SameHistory, SameRows DEF Tick
<1>2. CASE Fault
  <2>1. FreshIds'
    BY <1>2, FreshKept, BoundsAssumption
    DEF Fault, Idle, FreshIds, TypeInv, QueueTypeOK
  <2> QED
    BY <1>2, <2>1, SameFiles, SameHistory, SameRows DEF Fault, RowFollowsFile, Idle
<1>3. CASE Crash
  <2>1. FreshIds'
    BY <1>3, FreshKept, BoundsAssumption
    DEF Crash, Idle, FreshIds, TypeInv, QueueTypeOK
  <2> QED
    BY <1>3, <2>1, SameFiles, SameHistory, SameRows DEF Crash, RowFollowsFile, Idle
<1>4. ASSUME NEW i \in Item,
             \/ RetryTimeComes(i)
             \/ HealFile(i)
      PROVE StepKeepsAck
  <2>1. /\ UNCHANGED <<dir, nextItem, row, op, held, history>>
        /\ \A j \in Item : body'[j].hash = body[j].hash
        /\ \A j \in Item : Readable(j) => body'[j].id = j
    <3>1. body \in [Item -> Body]
      BY DEF TypeInv, QueueTypeOK
    <3>2. CASE RetryTimeComes(i)
      BY <3>1, <3>2 DEF RetryTimeComes, Readable, Body
    <3>3. CASE HealFile(i)
      BY <3>1, <3>3 DEF HealFile, Readable, Body
    <3> QED
      BY <1>4, <3>2, <3>3
  <2>2. KeepsFiles
    BY <2>1 DEF KeepsFiles
  <2>3. FreshIds'
    BY <2>1 DEF FreshIds
  <2>4. RowFollowsFile'
    BY <2>1 DEF RowFollowsFile, Readable, HasRow
  <2> QED
    BY <2>1, <2>2, <2>3, <2>4, SameHistory, SameRows
<1>5. ASSUME NEW i \in Item, NEW id \in 0 .. MaxItems, DamageFile(i, id)
      PROVE StepKeepsAck
  <2>1. /\ UNCHANGED <<dir, nextItem, row, op, held, acked>>
        /\ \A j \in Item : body'[j].hash = body[j].hash
        /\ \A j \in Item : j # i => body'[j].id = body[j].id
        /\ excused' = excused \cup {body[i].hash}
    BY <1>5 DEF DamageFile, TypeInv, QueueTypeOK, Body
  <2>2. KeepsFiles
    BY <2>1 DEF KeepsFiles, Readable
  <2>3. KeepsExcuses /\ AddsBackedAcks
    BY <2>1 DEF KeepsExcuses, AddsBackedAcks, Answered
  <2>4. FreshIds'
    BY <2>1 DEF FreshIds
  <2>5. RowFollowsFile'
    BY <2>1 DEF RowFollowsFile, Readable, HasRow
  <2> QED
    BY <2>1, <2>2, <2>3, <2>4, <2>5, SameRows
<1>6. ASSUME NEW h \in Hash, ImportRow(h) PROVE StepKeepsAck
  <2>1. /\ UNCHANGED <<dir, body, nextItem, op, held, acked>>
        /\ excused' = excused \cup {h}
        /\ \A g \in Hash : g # h => row'[g] = row[g]
    BY <1>6 DEF ImportRow, TypeInv, QueueTypeOK
  <2>2. KeepsExcuses /\ AddsBackedAcks /\ AddsBackedRows
    BY <2>1 DEF KeepsExcuses, AddsBackedAcks, AddsBackedRows, HasRow, Answered
  <2>3. FreshIds'
    BY <2>1 DEF FreshIds
  <2>4. RowFollowsFile'
    <3>1. op.item \in Item => body[op.item].hash \in Hash
      BY DEF TypeInv, QueueTypeOK, Body
    <3> QED
      BY <2>1, <3>1 DEF RowFollowsFile, Readable, HasRow
  <2> QED
    BY <2>1, <2>2, <2>3, <2>4, SameFiles
<1> QED
  BY <1>1, <1>2, <1>3, <1>4, <1>5, <1>6 DEF Environment

LEMMA AckStutter == AckInv /\ UNCHANGED queueVars => AckInv'
BY DEF AckInv, RowBacked, NoAckedLoss, RowFollowsFile, FreshIds, Backed, HasRow,
       Readable, queueVars, disk, history

LEMMA AckStep ==
  TypeInv /\ TypeInv' /\ AckInv /\ [QueueNext]_queueVars => AckInv'
BY AckStart, AckEnqueue, AckClaim, AckSettle, AckCleanup, AckEnvironment,
   AckStutter DEF QueueNext

(* No acknowledged SMS is lost: whenever Queue.enqueue has returned for a
   content hash, some readable queue file carries that message, unless
   retention removed it, its file was damaged, or the importer claimed it as
   delivered.  For any number of hashes, items, crashes, I/O errors, damaged
   files and imports. *)
THEOREM AckedSmsIsKept == QueueSpec => []NoAckedLoss
<1>1. AckInv => NoAckedLoss
  BY DEF AckInv
<1> QED
  BY <1>1, TypeInit, TypeStep, AckInit, AckStep, PTL DEF QueueSpec
-----------------------------------------------------------------------------
(* Where the files are that the lock's holder and the worker deal with. *)
HeldPlace ==
  held # 0 => /\ phase = "ready"
              /\ \/ dir[held] = "processing"
                 \/ op.pc \in {"sent_status", "failed_status"}

CallPlace ==
  /\ WorkerCall => phase = "ready"
  /\ phase \in {"closed", "opened"} => op.pc \in {"idle", "reconcile", "recover"}
  /\ op.pc \in ScanPcs \cup ClaimPcs => held = 0
  /\ op.pc \in {"failed_move", "sent_status", "failed_status"} =>
       op.item = held /\ held # 0
  /\ op.pc = "sent_status" => dir[held] = "sent"
  /\ op.pc = "failed_status" => dir[held] = "failed"
  /\ op.pc = "reconcile" => phase = "closed"
  /\ op.pc = "recover" => phase = "opened"
  /\ op.pc = "record" => dir[op.item] = "pending"
  /\ op.pc \in ClaimPcs => dir[op.item] = "processing" /\ op.item \in Item

(* What is left of a scan is where the scan found it. *)
ScanPlace ==
  /\ op.pc = "reconcile" => \A i \in op.todo : dir[i] \in {"pending", "sent", "failed"}
  /\ op.pc = "recover" => op.todo = Listing("processing")
  /\ op.pc \in ScanPcs => op.todo \subseteq Listing("pending")
  /\ op.pc \in {"requeue", "requeue_status"} => op.todo \subseteq Listing("failed")
  /\ op.pc \in {"unlink_known", "unlink_unknown"} =>
       op.dest \in {"sent", "failed"} /\ op.todo \subseteq Listing(op.dest)

NoneStranded ==
  spent.fault = 0 /\ spent.import = 0 =>
    /\ phase = "ready" =>
         \A i \in Listing("processing") :
           i = held \/ (op.pc \in ClaimPcs /\ i = op.item)
    /\ op.pc = "claim_record" => ~HasRow(body[op.item].hash)

PlaceInv == HeldPlace /\ CallPlace /\ ScanPlace /\ NoneStranded

LEMMA PlaceInit == QueueInit => PlaceInv
BY DEF QueueInit, PlaceInv, HeldPlace, CallPlace, ScanPlace, NoneStranded,
       ScanPcs, ClaimPcs, WorkerCall, Idle

LEMMA HeldRange == ASSUME TypeInv, held # 0 PROVE held \in Item
<1>1. held \in 0 .. MaxItems
  BY DEF TypeInv, QueueTypeOK
<1> QED
  BY <1>1, BoundsAssumption DEF Item

LEMMA PlaceStart ==
  ASSUME TypeInv, PlaceInv, Start PROVE PlaceInv'
<1> USE DEF TypeInv, QueueTypeOK, PlaceInv, HeldPlace, CallPlace, ScanPlace,
        NoneStranded, WorkerCall, Idle, Listing, ScanPcs, ClaimPcs, disk, history
<1>1. CASE InitializeStart
  BY <1>1 DEF InitializeStart, ReconcileRank
<1>2. CASE ReconcileItem
  BY <1>2 DEF ReconcileItem, Op
<1>3. CASE InitializeDone
  BY <1>3 DEF InitializeDone
<1>4. CASE RecoverStart
  BY <1>4 DEF RecoverStart
<1>5. ASSUME NEW i \in Item, RecoverItem(i) PROVE PlaceInv'
  BY <1>5 DEF RecoverItem, Move, Op
<1>6. CASE RecoverDone
  BY <1>6 DEF RecoverDone
<1>7. CASE StopWorker
  BY <1>7 DEF StopWorker
<1>8. CASE CancelWorkerCall
  BY <1>8 DEF CancelWorkerCall
<1>9. CASE Close
  BY <1>9 DEF Close
<1> QED
  BY <1>1, <1>2, <1>3, <1>4, <1>5, <1>6, <1>7, <1>8, <1>9 DEF Start

LEMMA PlaceEnqueue ==
  ASSUME TypeInv, AckInv, PlaceInv, Enqueue PROVE PlaceInv'
<1> USE DEF TypeInv, QueueTypeOK, PlaceInv, HeldPlace, CallPlace, ScanPlace,
        NoneStranded, WorkerCall, Idle, Listing, ScanPcs, ClaimPcs, disk, history
<1>1. ASSUME NEW h \in Hash, EnqueueDuplicate(h) PROVE PlaceInv'
  BY <1>1 DEF EnqueueDuplicate, Accepting
<1>2. ASSUME NEW h \in Hash, EnqueuePendingDuplicate(h) PROVE PlaceInv'
  BY <1>2 DEF EnqueuePendingDuplicate, Accepting
<1>3. ASSUME NEW h \in Hash, EnqueueWrite(h) PROVE PlaceInv'
  BY <1>3 DEF EnqueueWrite, Accepting, Move, AckInv, FreshIds
<1>4. CASE EnqueueRecord
  BY <1>4 DEF EnqueueRecord
<1>5. CASE EnqueueUndo
  <2>1. op' = Idle /\ UNCHANGED <<phase, held, spent>>
    BY <1>5 DEF EnqueueUndo
  <2>2. op.item \in Item /\ dir[op.item] = "pending"
    BY <1>5 DEF EnqueueUndo, OpInOrder
  <2>3. \A i \in Item : dir'[i] = dir[i] \/ (i = op.item /\ dir'[i] = "none")
    BY <1>5, <2>2 DEF EnqueueUndo, Unlink, Move
  <2>4. op.pc = "record"
    BY <1>5 DEF EnqueueUndo
  <2> QED
    BY <2>1, <2>2, <2>3, <2>4, HeldRange
<1> QED
  BY <1>1, <1>2, <1>3, <1>4, <1>5 DEF Enqueue

LEMMA PlaceClaim ==
  ASSUME TypeInv, PlaceInv, Claim PROVE PlaceInv'
<1> USE DEF TypeInv, QueueTypeOK, PlaceInv, HeldPlace, CallPlace, ScanPlace,
        NoneStranded, WorkerCall, Idle, Listing, ScanPcs, ClaimPcs, disk, history
<1>1. ASSUME NEW skip \in SUBSET Item, ClaimStart(skip) PROVE PlaceInv'
  BY <1>1 DEF ClaimStart, Lockable
<1>2. ASSUME NEW i \in Item, ClaimCorrupt(i) PROVE PlaceInv'
  BY <1>2 DEF ClaimCorrupt, Move, Op
<1>3. ASSUME NEW i \in Item, ClaimMove(i) PROVE PlaceInv'
  BY <1>3 DEF ClaimMove, Move
<1>4. CASE ClaimEmpty
  BY <1>4 DEF ClaimEmpty
<1>5. CASE ClaimPurgeCorrupt \/ ClaimPurgePayload
  <2>1. /\ op.pc \in ScanPcs /\ op'.pc \in {"claim", "purge_payload"}
        /\ op'.todo = op.todo /\ UNCHANGED <<dir, phase, held, spent>>
    <3>1. CASE ClaimPurgePayload
      BY <3>1 DEF ClaimPurgePayload, Op
    <3>2. CASE ClaimPurgeCorrupt /\ op.known = {}
      BY <3>2 DEF ClaimPurgeCorrupt, Op
    <3>3. CASE ClaimPurgeCorrupt /\ op.known # {}
      BY <3>3 DEF ClaimPurgeCorrupt, Op
    <3> QED
      BY <1>5, <3>1, <3>2, <3>3
  <2> QED
    BY <2>1
<1>6. CASE ClaimStatus
  <2>1. /\ op.pc \in ClaimPcs /\ op' = Idle /\ held' = op.item
        /\ UNCHANGED <<dir, phase, spent>>
    BY <1>6 DEF ClaimStatus
  <2>2. \A i \in Item : i # 0
    BY BoundsAssumption DEF Item
  <2> QED
    BY <2>1, <2>2
<1>7. CASE ClaimUnrecorded \/ ClaimRecord
  <2>1. /\ op.pc \in ClaimPcs /\ op'.pc \in {"claim_record", "claim_update"}
        /\ op'.item = op.item /\ op'.todo = op.todo
        /\ UNCHANGED <<dir, body, phase, held, spent>>
        /\ op'.pc = "claim_record" => row' = row /\ ~HasRow(body[op.item].hash)
    BY <1>7 DEF ClaimUnrecorded, ClaimRecord, Op
  <2> QED
    BY <2>1 DEF HasRow
<1>8. CASE ClaimDuplicate
  <2>1. /\ op.pc = "claim_record" /\ HasRow(body[op.item].hash) /\ op' = Idle
        /\ UNCHANGED <<dir, phase, held, spent>>
    BY <1>8 DEF ClaimDuplicate
  <2> QED
    BY <2>1
<1> QED
  BY <1>1, <1>2, <1>3, <1>4, <1>5, <1>6, <1>7, <1>8 DEF Claim

LEMMA PlaceSettle ==
  ASSUME TypeInv, PlaceInv, Settle PROVE PlaceInv'
<1> USE DEF TypeInv, QueueTypeOK, PlaceInv, HeldPlace, CallPlace, ScanPlace,
        NoneStranded, WorkerCall, Idle, Listing, ScanPcs, ClaimPcs, disk, history
<1>0. held # 0 => held \in Item
  BY HeldRange
<1>1. CASE MarkSent
  BY <1>0, <1>1 DEF MarkSent, InProcessing, Lockable, Move
<1>2. CASE MarkSentStatus \/ MarkFailedStatus
  BY <1>0, <1>2 DEF MarkSentStatus, MarkFailedStatus, FinishStatus
<1>3. ASSUME NEW perm \in BOOLEAN, MarkFailed(perm) PROVE PlaceInv'
  BY <1>0, <1>3 DEF MarkFailed, InProcessing, Lockable
<1>4. CASE MarkFailedMove
  BY <1>0, <1>4 DEF MarkFailedMove, Move, Op
<1>5. CASE UpdateAttempt
  BY <1>5 DEF UpdateAttempt, InProcessing, Lockable
<1>6. CASE MoveBackToPending
  BY <1>0, <1>6 DEF MoveBackToPending, InProcessing, Lockable, Move
<1> QED
  BY <1>1, <1>2, <1>3, <1>4, <1>5, <1>6 DEF Settle

LEMMA PlaceCleanup ==
  ASSUME TypeInv, PlaceInv, Cleanup PROVE PlaceInv'
<1> USE DEF TypeInv, QueueTypeOK, PlaceInv, HeldPlace, CallPlace, ScanPlace,
        NoneStranded, WorkerCall, Idle, Listing, ScanPcs, ClaimPcs, disk, history
<1>1. CASE RequeueStart
  BY <1>1 DEF RequeueStart, Lockable
<1>2. CASE RequeueStatus \/ RequeueDone
  <2>1. /\ op.pc \in {"requeue", "requeue_status"}
        /\ op'.pc = "idle" \/ (op'.pc = "requeue" /\ op'.todo = op.todo)
        /\ UNCHANGED <<dir, phase, held, spent>>
    <3>1. CASE RequeueStatus
      <4>1. op' = Idle \/ op' = [op EXCEPT !.pc = "requeue", !.item = 0]
        BY <3>1 DEF RequeueStatus
      <4>2. op.pc = "requeue_status" /\ UNCHANGED <<dir, phase, held, spent>>
        BY <3>1 DEF RequeueStatus
      <4>3. CASE op' = Idle
        BY <4>2, <4>3
      <4>4. CASE op' = [op EXCEPT !.pc = "requeue", !.item = 0]
        BY <4>2, <4>4 DEF Op
      <4> QED
        BY <4>1, <4>3, <4>4
    <3>2. CASE RequeueDone
      BY <3>2 DEF RequeueDone
    <3> QED
      BY <1>2, <3>1, <3>2
  <2>2. CASE op'.pc = "idle"
    BY <2>1, <2>2
  <2>3. CASE op'.pc = "requeue"
    BY <2>1, <2>3
  <2> QED
    BY <2>1, <2>2, <2>3
<1>3. ASSUME NEW d \in {"sent", "failed"}, CleanupStart(d) PROVE PlaceInv'
  BY <1>3 DEF CleanupStart, Lockable
<1>4. ASSUME NEW i \in Item, RequeueSkip(i) PROVE PlaceInv'
  BY <1>4 DEF RequeueSkip, Op
<1>5. ASSUME NEW i \in Item, RequeueMove(i) PROVE PlaceInv'
  BY <1>5 DEF RequeueMove, First, Move, Op
<1>6. ASSUME NEW i \in Item, CleanupUnlink(i) PROVE PlaceInv'
  BY <1>6 DEF CleanupUnlink, First, Unlink, Move, Op
<1>7. CASE CleanupUnknown
  BY <1>7 DEF CleanupUnknown, Op
<1>8. CASE CleanupPurge
  BY <1>8 DEF CleanupPurge
<1> QED
  BY <1>1, <1>2, <1>3, <1>4, <1>5, <1>6, <1>7, <1>8 DEF Cleanup

LEMMA PlaceEnvironment ==
  ASSUME TypeInv, PlaceInv, Environment PROVE PlaceInv'
<1> USE DEF TypeInv, QueueTypeOK, PlaceInv, HeldPlace, CallPlace, ScanPlace,
        NoneStranded, WorkerCall, Idle, Listing, ScanPcs, ClaimPcs, disk, history
<1>1. CASE Fault
  BY <1>1 DEF Fault
<1>2. CASE Crash
  BY <1>2 DEF Crash
<1>3. CASE Tick
  BY <1>3 DEF Tick, HasRow
<1>4. ASSUME NEW i \in Item,
             RetryTimeComes(i) \/ HealFile(i) \/ \E id \in 0 .. MaxItems : DamageFile(i, id)
      PROVE  PlaceInv'
  <2>1. /\ UNCHANGED <<dir, row, phase, op, held>>
        /\ spent'.fault = spent.fault /\ spent'.import = spent.import
    BY <1>4 DEF RetryTimeComes, HealFile, DamageFile
  <2>2. \A j \in Item : body'[j].hash = body[j].hash
    BY <1>4 DEF RetryTimeComes, HealFile, DamageFile, Body
  <2> QED
    BY <2>1, <2>2 DEF HasRow
<1>5. ASSUME NEW h \in Hash, ImportRow(h) PROVE PlaceInv'
  <2>1. UNCHANGED <<dir, phase, op, held>> /\ spent'.import = spent.import + 1
    BY <1>5 DEF ImportRow
  <2>2. spent'.import # 0
    BY <2>1
  <2> QED
    BY <2>1, <2>2
<1> QED
  BY <1>1, <1>2, <1>3, <1>4, <1>5 DEF Environment

LEMMA PlaceStep ==
  TypeInv /\ AckInv /\ PlaceInv /\ [QueueNext]_queueVars => PlaceInv'
<1> SUFFICES ASSUME TypeInv, AckInv, PlaceInv, [QueueNext]_queueVars
             PROVE PlaceInv'
  OBVIOUS
<1>1. CASE UNCHANGED queueVars
  BY <1>1 DEF PlaceInv, HeldPlace, CallPlace, ScanPlace, NoneStranded,
       ScanPcs, ClaimPcs, WorkerCall, Listing, HasRow, queueVars, disk
<1> QED
  BY <1>1, PlaceStart, PlaceEnqueue, PlaceClaim, PlaceSettle, PlaceCleanup,
     PlaceEnvironment DEF QueueNext

(* While the worker runs, no call has failed or been cancelled and nothing was
   imported, a file in processing/ is the one the worker holds or is about to
   hold, whatever crashed and was damaged before: recover_processing has
   emptied the directory before the worker starts, and no call leaves a file
   behind, for only the importer can make record_new raise in claim_next. *)
THEOREM NothingIsStranded == QueueSpec => []NothingStranded
<1>1. PlaceInv => NothingStranded
  BY DEF PlaceInv, NoneStranded, NothingStranded, ClaimPcs
<1> QED
  BY <1>1, TypeInit, TypeStep, AckInit, AckStep, PlaceInit, PlaceStep, PTL
  DEF QueueSpec
-----------------------------------------------------------------------------
(* Retention.  The age of a file is counted from a moment after its SMS was   *)
(* first seen, that of a row from one after every file of its hash was.       *)

FileAges ==
  \A i \in Item : dir[i] # "none" =>
    body[i].seen <= body[i].mtime /\ body[i].mtime <= clock

RowAges ==
  \A i \in Item : dir[i] # "none" /\ HasRow(body[i].hash) =>
    body[i].seen <= row[body[i].hash].at

(* A row names an item that has been created, and its file, if any, is one of
   this hash. *)
RowNames ==
  \A h \in Hash :
    /\ row[h].item < nextItem
    /\ row[h].item \in Item /\ dir[row[h].item] # "none" => body[row[h].item].hash = h

(* What a cleanup of failed/ is about to remove. *)
RemovesOld ==
  op.pc \in {"unlink_known", "unlink_unknown"} /\ op.dest = "failed" =>
    \A i \in op.todo : Older(body[i].seen, FailedDays)

AgeInv == FileAges /\ RowAges /\ RowNames /\ RemovesOld

(* What a step may make of the rows and of the files. *)
RowsMove ==
  \A h \in Hash :
    \/ row'[h] = row[h] \/ row'[h] = NoRow
    \/ /\ row'[h].at = clock
       /\ \/ row'[h].item \in {row[h].item, 0}
          \/ /\ row'[h].item \in Item /\ dir'[row'[h].item] # "none"
             /\ body'[row'[h].item].hash = h

FilesAge ==
  \A i \in Item : dir'[i] # "none" =>
    \/ /\ dir[i] # "none"
       /\ body'[i].hash = body[i].hash /\ body'[i].seen = body[i].seen
       /\ body'[i].mtime \in {body[i].mtime, clock}
    \/ /\ i = nextItem /\ ~HasRow(body[i].hash)'
       /\ body'[i].seen = clock /\ body'[i].mtime = clock

ClockOn == clock' \in {clock, clock + 1} /\ nextItem' \in {nextItem, nextItem + 1}

LEMMA AgesKept ==
  ASSUME TypeInv, TypeInv', AckInv', FileAges, RowAges, RowNames,
         RowsMove, FilesAge, ClockOn
  PROVE  FileAges' /\ RowAges' /\ RowNames'
<1>1. /\ clock \in Nat /\ nextItem \in Nat
      /\ \A i \in Item : body[i].seen \in Nat /\ body[i].mtime \in Nat
      /\ \A i \in Item : body'[i].hash \in Hash /\ i \in Nat /\ i # 0
      /\ \A h \in Hash : row[h].at \in Nat /\ row[h].item \in Nat
  <2>1. clock \in Nat /\ nextItem \in Nat /\ body \in [Item -> Body]
        /\ body' \in [Item -> Body] /\ row \in [Hash -> Row]
    BY BoundsAssumption DEF TypeInv, QueueTypeOK
  <2>2. \A i \in Item : i \in Nat /\ i # 0
    BY BoundsAssumption DEF Item
  <2>3. \A i \in Item : /\ body[i].seen \in Nat /\ body[i].mtime \in Nat
                        /\ body'[i].hash \in Hash
    BY <2>1 DEF Body
  <2>4. \A h \in Hash : row[h].at \in Nat /\ row[h].item \in Nat
    BY <2>1, BoundsAssumption DEF Row
  <2> QED
    BY <2>1, <2>2, <2>3, <2>4
<1>2. FileAges'
  BY <1>1 DEF FileAges, FilesAge, ClockOn
<1>3. RowAges'
  <2> SUFFICES ASSUME NEW i \in Item, dir'[i] # "none", HasRow(body[i].hash)'
               PROVE  body'[i].seen <= row'[body'[i].hash].at
    BY DEF RowAges
  <2>1. /\ dir[i] # "none" /\ body'[i].hash = body[i].hash /\ body'[i].seen = body[i].seen
        /\ body'[i].hash \in Hash
    BY <1>1 DEF FilesAge
  <2>2. CASE row'[body[i].hash] = row[body[i].hash]
    BY <2>1, <2>2 DEF RowAges, HasRow
  <2>3. CASE row'[body[i].hash].at = clock
    BY <1>1, <2>1, <2>3 DEF FileAges
  <2>4. row'[body[i].hash] # NoRow
    BY <2>1 DEF HasRow, NoRow
  <2> QED
    BY <2>1, <2>2, <2>3, <2>4 DEF RowsMove
<1>4. RowNames'
  <2> SUFFICES ASSUME NEW h \in Hash
               PROVE  /\ row'[h].item < nextItem'
                      /\ row'[h].item \in Item /\ dir'[row'[h].item] # "none" =>
                           body'[row'[h].item].hash = h
    BY DEF RowNames
  <2>1. nextItem >= 1 /\ nextItem' >= nextItem /\ nextItem' \in Nat
    BY <1>1 DEF ClockOn, TypeInv, QueueTypeOK
  <2>2. CASE row'[h].item = 0
    BY <1>1, <2>1, <2>2
  <2>3. CASE row'[h].item = row[h].item
    <3>1. row[h].item < nextItem
      BY DEF RowNames
    <3>2. row[h].item \in Item /\ dir'[row[h].item] # "none" =>
            dir[row[h].item] # "none" /\ body'[row[h].item].hash = body[row[h].item].hash
      BY <1>1, <3>1 DEF FilesAge
    <3> QED
      BY <1>1, <2>1, <2>3, <3>1, <3>2 DEF RowNames
  <2>4. CASE /\ row'[h].item \in Item /\ dir'[row'[h].item] # "none"
             /\ body'[row'[h].item].hash = h
    <3>1. ~(row'[h].item >= nextItem')
      BY <2>4 DEF AckInv, FreshIds
    <3> QED
      BY <1>1, <2>1, <2>4, <3>1
  <2> QED
    BY <2>2, <2>3, <2>4 DEF RowsMove, NoRow
<1> QED
  BY <1>2, <1>3, <1>4

LEMMA RowsOfOperators ==
  ASSUME TypeInv
  PROVE  /\ row' = row => RowsMove
         /\ \A h, s : row' = UpdateStatus(h, s) => RowsMove
         /\ \A ids : row' = DeleteByItemId(ids) => RowsMove
         /\ \A s : row' = PurgeOlderThan(s) => RowsMove
BY DEF RowsMove, UpdateStatus, DeleteByItemId, PurgeOlderThan, TypeInv, QueueTypeOK, Row

LEMMA RowsOfInsert ==
  ASSUME TypeInv, NEW h, NEW i, NEW s,
         row' = [row EXCEPT ![h] = [item |-> i, status |-> s, at |-> clock]],
         i = 0 \/ (i \in Item /\ dir'[i] # "none" /\ body'[i].hash = h)
  PROVE  RowsMove
<1>1. \A g \in Hash : \/ row'[g] = row[g]
                      \/ g = h /\ row'[g] = [item |-> i, status |-> s, at |-> clock]
  BY DEF TypeInv, QueueTypeOK
<1> QED
  BY <1>1 DEF RowsMove

(* Files that are only renamed, and files that are removed *)
LEMMA SameAges ==
  ASSUME \A i \in Item : dir'[i] # "none" => dir[i] # "none",
         \A i \in Item : dir'[i] # "none" => body'[i] = body[i]
  PROVE  FilesAge
BY DEF FilesAge

LEMMA MovedAges ==
  ASSUME TypeInv, NEW i, dir[i] # "none", NEW d, Move(i, d), body' = body
  PROVE  FilesAge
BY DEF FilesAge, Move, TypeInv, QueueTypeOK

LEMMA UnlinkedAges ==
  ASSUME TypeInv, NEW i, Unlink(i)
  PROVE  FilesAge
BY DEF FilesAge, Unlink, Move, TypeInv, QueueTypeOK

LEMMA AgesStart ==
  ASSUME TypeInv, PlaceInv, Start PROVE RowsMove /\ FilesAge /\ ClockOn
<1> USE DEF ClockOn, disk, history
<1>1. CASE ReconcileItem
  <2>1. PICK i \in op.todo :
          row' = IF Readable(i) THEN ReconcileStatus(body[i].hash, i, dir[i]) ELSE row
    BY <1>1 DEF ReconcileItem
  <2>2. op.pc = "reconcile" /\ i \in Item /\ UNCHANGED <<disk, clock>>
    BY <1>1 DEF ReconcileItem, TypeInv, QueueTypeOK, Op
  <2>3. dir'[i] # "none" /\ body'[i].hash = body[i].hash
    BY <2>2 DEF PlaceInv, ScanPlace
  <2>4. RowsMove
    BY <2>1, <2>2, <2>3, RowsOfOperators, RowsOfInsert DEF ReconcileStatus
  <2> QED
    BY <2>2, <2>4, SameAges
<1>2. ASSUME NEW i \in Item, RecoverItem(i) PROVE RowsMove /\ FilesAge /\ ClockOn
  <2>1. dir[i] = "processing" /\ Move(i, "pending") /\ UNCHANGED <<body, nextItem, row, clock>>
    BY <1>2 DEF RecoverItem, First, PlaceInv, ScanPlace, Listing
  <2> QED
    BY <2>1, MovedAges, RowsOfOperators
<1>3. CASE ~ReconcileItem /\ ~\E i \in Item : RecoverItem(i)
  <2>1. UNCHANGED <<disk, row, clock>>
    BY <1>3 DEF Start, InitializeStart, InitializeDone, RecoverStart, RecoverDone,
                StopWorker, CancelWorkerCall, Close
  <2> QED
    BY <2>1, SameAges, RowsOfOperators
<1> QED
  BY <1>1, <1>2, <1>3

LEMMA AgesEnqueue ==
  ASSUME TypeInv, PlaceInv, AckInv, Enqueue PROVE RowsMove /\ FilesAge /\ ClockOn
<1> USE DEF ClockOn, disk, history
<1>1. ASSUME NEW h \in Hash, EnqueueDuplicate(h) PROVE RowsMove /\ FilesAge /\ ClockOn
  BY <1>1, SameAges, RowsOfOperators DEF EnqueueDuplicate
<1>2. ASSUME NEW h \in Hash, EnqueuePendingDuplicate(h)
      PROVE RowsMove /\ FilesAge /\ ClockOn
  <2>1. PICK i \in Item : First(i, PendingDuplicates(h)) /\ row' = RecordNew(h, i)
    BY <1>2 DEF EnqueuePendingDuplicate
  <2>2. UNCHANGED <<disk, clock>>
    BY <1>2 DEF EnqueuePendingDuplicate
  <2>3. dir'[i] # "none" /\ body'[i].hash = h
    BY <2>1, <2>2 DEF First, PendingDuplicates, Listing
  <2> QED
    BY <2>1, <2>2, <2>3, SameAges, RowsOfInsert DEF RecordNew
<1>3. ASSUME NEW h \in Hash, EnqueueWrite(h) PROVE RowsMove /\ FilesAge /\ ClockOn
  <2>1. /\ nextItem \in Item /\ dir' = [dir EXCEPT ![nextItem] = "pending"]
        /\ \A i \in Item : i # nextItem => body'[i] = body[i]
        /\ body'[nextItem].hash = h /\ body'[nextItem].seen = clock
        /\ body'[nextItem].mtime = clock
        /\ ~HasRow(h)' /\ UNCHANGED <<row, clock>> /\ nextItem' = nextItem + 1
    BY <1>3 DEF EnqueueWrite, Move, HasRow, TypeInv, QueueTypeOK
  <2>2. FilesAge
    BY <2>1 DEF FilesAge, TypeInv, QueueTypeOK
  <2> QED
    BY <2>1, <2>2, RowsOfOperators
<1>4. CASE EnqueueRecord
  <2>1. /\ op.item \in Item /\ dir[op.item] = "pending" /\ UNCHANGED <<disk, clock>>
        /\ row' = RecordNew(body[op.item].hash, op.item)
    BY <1>4 DEF EnqueueRecord, TypeInv, OpInOrder, PlaceInv, CallPlace
  <2> QED
    BY <2>1, SameAges, RowsOfInsert DEF RecordNew
<1>5. CASE EnqueueUndo
  BY <1>5, SameAges, UnlinkedAges, RowsOfOperators DEF EnqueueUndo
<1> QED
  BY <1>1, <1>2, <1>3, <1>4, <1>5 DEF Enqueue

LEMMA AgesClaim ==
  ASSUME TypeInv, PlaceInv, Claim PROVE RowsMove /\ FilesAge /\ ClockOn
<1> USE DEF ClockOn, disk, history
<1>1. ASSUME NEW i \in Item, ClaimCorrupt(i) \/ ClaimMove(i)
      PROVE RowsMove /\ FilesAge /\ ClockOn
  <2>1. /\ dir[i] = "pending" /\ UNCHANGED <<body, nextItem, row, clock>>
        /\ Move(i, "failed") \/ Move(i, "processing")
    BY <1>1 DEF ClaimCorrupt, ClaimMove, First, PlaceInv, ScanPlace, ScanPcs, Listing
  <2> QED
    BY <2>1, MovedAges, RowsOfOperators
<1>2. CASE ClaimRecord
  <2>1. /\ op.item \in Item /\ dir[op.item] = "processing" /\ UNCHANGED <<disk, clock>>
    BY <1>2 DEF ClaimRecord, PlaceInv, CallPlace, ClaimPcs
  <2> QED
    BY <1>2, <2>1, SameAges, RowsOfInsert DEF ClaimRecord, RecordNew
<1>3. CASE \/ (\E skip \in SUBSET Item : ClaimStart(skip)) \/ ClaimEmpty
           \/ ClaimPurgeCorrupt \/ ClaimPurgePayload
           \/ ClaimStatus \/ ClaimUnrecorded \/ ClaimDuplicate
  BY <1>3, SameAges, RowsOfOperators
  DEF ClaimStart, ClaimEmpty, ClaimPurgeCorrupt, ClaimPurgePayload, ClaimStatus,
      ClaimUnrecorded, ClaimDuplicate
<1> QED
  BY <1>1, <1>2, <1>3 DEF Claim

LEMMA AgesSettle ==
  ASSUME TypeInv, PlaceInv, Settle PROVE RowsMove /\ FilesAge /\ ClockOn
<1> USE DEF ClockOn, disk, history
<1>1. CASE MarkSent \/ MoveBackToPending
  <2>1. /\ UNCHANGED <<body, nextItem, row, clock>> /\ dir[held] # "none"
        /\ Move(held, "sent") \/ Move(held, "pending")
    BY <1>1 DEF MarkSent, MoveBackToPending, InProcessing
  <2> QED
    BY <2>1, MovedAges, RowsOfOperators
<1>2. CASE MarkFailedMove
  <2>1. /\ UNCHANGED <<body, nextItem, row, clock>> /\ Move(op.item, "failed")
        /\ op.item = held /\ dir[held] # "none"
    BY <1>2 DEF MarkFailedMove, PlaceInv, CallPlace, HeldPlace
  <2> QED
    BY <2>1, MovedAges, RowsOfOperators
<1>3. CASE MarkSentStatus \/ MarkFailedStatus
  BY <1>3, SameAges, RowsOfOperators DEF MarkSentStatus, MarkFailedStatus, FinishStatus
<1>4. CASE UpdateAttempt \/ \E perm \in BOOLEAN : MarkFailed(perm)
  <2>1. held \in Item /\ UNCHANGED <<dir, nextItem, row, clock>>
    BY <1>4, HeldIsItem DEF UpdateAttempt, MarkFailed, TypeInv, QueueTypeOK
  <2>2. body \in [Item -> Body]
    BY DEF TypeInv, QueueTypeOK
  <2>3. \A i \in Item : i # held => body'[i] = body[i]
    BY <1>4, <2>1, <2>2 DEF UpdateAttempt, MarkFailed
  <2>4. /\ body'[held].hash = body[held].hash /\ body'[held].seen = body[held].seen
        /\ body'[held].mtime = clock
    <3>1. CASE UpdateAttempt
      BY <2>1, <2>2, <3>1 DEF UpdateAttempt, Body
    <3>2. ASSUME NEW perm \in BOOLEAN, MarkFailed(perm)
          PROVE  /\ body'[held].hash = body[held].hash /\ body'[held].seen = body[held].seen
                 /\ body'[held].mtime = clock
      BY <2>1, <2>2, <3>2 DEF MarkFailed, Body
    <3> QED
      BY <1>4, <3>1, <3>2
  <2> QED
    BY <2>1, <2>3, <2>4, RowsOfOperators DEF FilesAge
<1> QED
  BY <1>1, <1>2, <1>3, <1>4 DEF Settle

LEMMA AgesCleanup ==
  ASSUME TypeInv, PlaceInv, Cleanup PROVE RowsMove /\ FilesAge /\ ClockOn
<1> USE DEF ClockOn, disk, history
<1>1. ASSUME NEW i \in Item, RequeueMove(i) PROVE RowsMove /\ FilesAge /\ ClockOn
  <2>1. dir[i] = "failed" /\ UNCHANGED <<body, nextItem, row, clock>> /\ Move(i, "pending")
    BY <1>1 DEF RequeueMove, First, PlaceInv, ScanPlace, Listing
  <2> QED
    BY <2>1, MovedAges, RowsOfOperators
<1>2. ASSUME NEW i \in Item, CleanupUnlink(i) PROVE RowsMove /\ FilesAge /\ ClockOn
  BY <1>2, UnlinkedAges, RowsOfOperators DEF CleanupUnlink
<1>3. CASE RequeueStatus \/ CleanupPurge
  BY <1>3, SameAges, RowsOfOperators DEF RequeueStatus, CleanupPurge
<1>4. CASE \/ RequeueStart \/ RequeueDone \/ CleanupUnknown
           \/ \E d \in {"sent", "failed"} : CleanupStart(d)
           \/ \E i \in Item : RequeueSkip(i)
  BY <1>4, SameAges, RowsOfOperators
  DEF RequeueStart, RequeueDone, CleanupUnknown, CleanupStart, RequeueSkip
<1> QED
  BY <1>1, <1>2, <1>3, <1>4 DEF Cleanup

LEMMA AgesEnvironment ==
  ASSUME TypeInv, Environment PROVE RowsMove /\ FilesAge /\ ClockOn
<1> USE DEF ClockOn, disk, history
<1>1. CASE Tick \/ Fault \/ Crash
  BY <1>1, SameAges, RowsOfOperators DEF Tick, Fault, Crash
<1>2. ASSUME NEW i \in Item,
             RetryTimeComes(i) \/ HealFile(i) \/ \E id \in 0 .. MaxItems : DamageFile(i, id)
      PROVE RowsMove /\ FilesAge /\ ClockOn
  <2>1. UNCHANGED <<dir, nextItem, row, clock>>
    BY <1>2 DEF RetryTimeComes, HealFile, DamageFile
  <2>2. \A j \in Item : /\ body'[j].hash = body[j].hash /\ body'[j].seen = body[j].seen
                        /\ body'[j].mtime = body[j].mtime
    BY <1>2 DEF RetryTimeComes, HealFile, DamageFile, TypeInv, QueueTypeOK, Body
  <2> QED
    BY <2>1, <2>2, RowsOfOperators DEF FilesAge
<1>3. ASSUME NEW h \in Hash, ImportRow(h) PROVE RowsMove /\ FilesAge /\ ClockOn
  BY <1>3, SameAges, RowsOfInsert DEF ImportRow
<1> QED
  BY <1>1, <1>2, <1>3 DEF Environment

(* The other methods never end in a cleanup's loops. *)
LEMMA StartRemovesNothing ==
  ASSUME op \in Op, Start
  PROVE  \/ op'.pc \in {"idle", "reconcile", "recover"}
         \/ op' = op /\ clock' = clock /\ body' = body
<1>1. CASE InitializeStart \/ InitializeDone \/ RecoverStart \/ RecoverDone \/ CancelWorkerCall
  <2>1. CASE InitializeStart
    BY <2>1 DEF InitializeStart, Idle
  <2>2. CASE RecoverStart
    BY <2>2 DEF RecoverStart, Idle
  <2>3. CASE InitializeDone \/ RecoverDone \/ CancelWorkerCall
    <3>1. op' = Idle
      BY <2>3 DEF InitializeDone, RecoverDone, CancelWorkerCall
    <3> QED
      BY <3>1 DEF Idle
  <2> QED
    BY <1>1, <2>1, <2>2, <2>3
<1>2. CASE ReconcileItem
  BY <1>2 DEF ReconcileItem, Op
<1>3. ASSUME NEW i \in Item, RecoverItem(i) PROVE op'.pc = "recover"
  BY <1>3 DEF RecoverItem, Op
<1>4. CASE StopWorker \/ Close
  BY <1>4 DEF StopWorker, Close, disk
<1> QED
  BY <1>1, <1>2, <1>3, <1>4 DEF Start

LEMMA EnqueueRemovesNothing ==
  ASSUME op \in Op, Enqueue
  PROVE  op'.pc \in {"idle", "record"}
<1>1. ASSUME NEW h \in Hash, EnqueueDuplicate(h) \/ EnqueuePendingDuplicate(h)
      PROVE  op'.pc = "idle"
  BY <1>1 DEF EnqueueDuplicate, EnqueuePendingDuplicate, Accepting
<1>2. ASSUME NEW h \in Hash, EnqueueWrite(h) PROVE op'.pc = "record"
  BY <1>2 DEF EnqueueWrite, Idle
<1>3. CASE EnqueueRecord \/ EnqueueUndo
  BY <1>3 DEF EnqueueRecord, EnqueueUndo, Idle
<1> QED
  BY <1>1, <1>2, <1>3 DEF Enqueue

LEMMA WorkerRemovesNothing ==
  ASSUME op \in Op, Claim \/ Settle
  PROVE  op'.pc \notin {"unlink_known", "unlink_unknown"}
<1>1. ASSUME NEW skip, ClaimStart(skip) PROVE op'.pc = "claim"
  BY <1>1 DEF ClaimStart, Idle
<1>2. ASSUME NEW i \in Item, ClaimCorrupt(i) PROVE op'.pc = "purge_corrupt"
  BY <1>2 DEF ClaimCorrupt, Op
<1>3. ASSUME NEW i \in Item, ClaimMove(i) PROVE op'.pc = "claim_status"
  BY <1>3 DEF ClaimMove, Idle
<1>4. CASE ClaimEmpty \/ ClaimStatus \/ ClaimDuplicate
  BY <1>4 DEF ClaimEmpty, ClaimStatus, ClaimDuplicate, Idle
<1>5. CASE ClaimPurgeCorrupt \/ ClaimPurgePayload \/ ClaimUnrecorded \/ ClaimRecord
  BY <1>5 DEF ClaimPurgeCorrupt, ClaimPurgePayload, ClaimUnrecorded, ClaimRecord, Op
<1>6. CASE MarkSent
  BY <1>6 DEF MarkSent, Idle
<1>7. ASSUME NEW perm, MarkFailed(perm) PROVE op'.pc = "failed_move"
  BY <1>7 DEF MarkFailed, Idle
<1>8. CASE MarkFailedMove
  BY <1>8 DEF MarkFailedMove, Op
<1>9. CASE MarkSentStatus \/ MarkFailedStatus
  BY <1>9 DEF MarkSentStatus, MarkFailedStatus, FinishStatus, Idle
<1>10. CASE UpdateAttempt \/ MoveBackToPending
  BY <1>10 DEF UpdateAttempt, MoveBackToPending, InProcessing, Lockable
<1> QED
  BY <1>1, <1>2, <1>3, <1>4, <1>5, <1>6, <1>7, <1>8, <1>9, <1>10 DEF Claim, Settle

LEMMA RequeueRemovesNothing ==
  ASSUME op \in Op,
         \/ RequeueStart \/ RequeueStatus \/ RequeueDone \/ CleanupPurge
         \/ \E i \in Item : RequeueSkip(i) \/ RequeueMove(i)
  PROVE  op'.pc \in {"idle", "requeue", "requeue_status"}
<1>1. CASE RequeueStart \/ RequeueDone \/ CleanupPurge
  <2>1. CASE RequeueStart
    BY <2>1 DEF RequeueStart, Idle
  <2>2. CASE RequeueDone \/ CleanupPurge
    <3>1. op' = Idle
      BY <2>2 DEF RequeueDone, CleanupPurge
    <3> QED
      BY <3>1 DEF Idle
  <2> QED
    BY <1>1, <2>1, <2>2
<1>2. CASE RequeueStatus
  <2>1. op' = Idle \/ op' = [op EXCEPT !.pc = "requeue", !.item = 0]
    BY <1>2 DEF RequeueStatus
  <2>2. CASE op' = Idle
    BY <2>2 DEF Idle
  <2>3. CASE op' = [op EXCEPT !.pc = "requeue", !.item = 0]
    BY <2>3 DEF Op
  <2> QED
    BY <2>1, <2>2, <2>3
<1>3. ASSUME NEW i \in Item, RequeueSkip(i) \/ RequeueMove(i)
      PROVE  op'.pc \in {"requeue", "requeue_status"}
  BY <1>3 DEF RequeueSkip, RequeueMove, Op
<1> QED
  BY <1>1, <1>2, <1>3

(* Only a cleanup removes old files, and it knows that they are. *)
LEMMA RemovesOldKept ==
  ASSUME TypeInv, PlaceInv, AgeInv, FilesAge, [QueueNext]_queueVars
  PROVE  RemovesOld'
<1> DEFINE Removing == op.pc \in {"unlink_known", "unlink_unknown"}
<1>1. /\ clock \in Nat /\ FailedDays \in Nat
      /\ \A i \in Item : body[i].seen \in Nat /\ body[i].mtime \in Nat
      /\ \A h \in Hash : row[h].at \in Nat
  <2>1. clock \in Nat /\ FailedDays \in Nat /\ body \in [Item -> Body] /\ row \in [Hash -> Row]
    BY BoundsAssumption DEF TypeInv, QueueTypeOK
  <2> QED
    BY <2>1 DEF Body, Row
<1>2. CASE CleanupStart("failed")
  <2>1. /\ clock' = clock /\ body' = body
        /\ op'.todo = {row[h].item : h \in Expired("failed")} \cap Listing("failed")
    BY <1>2 DEF CleanupStart, Idle, disk
  <2>2. ASSUME NEW i \in op'.todo PROVE Older(body[i].seen, FailedDays)
    <3>1. PICK h \in Expired("failed") : i = row[h].item
      BY <2>1
    <3>2. /\ i \in Item /\ dir[i] # "none" /\ HasRow(h) /\ h \in Hash
          /\ Older(row[h].at, FailedDays)
      BY <2>1, <3>1 DEF Listing, Expired, HasRow, Days
    <3>3. body[i].hash = h /\ body[i].seen <= row[h].at
      BY <3>1, <3>2 DEF AgeInv, RowNames, RowAges
    <3> QED
      BY <1>1, <3>2, <3>3 DEF Older
  <2> QED
    BY <2>1, <2>2 DEF RemovesOld, Older
<1>3. CASE CleanupUnknown
  <2>1. /\ clock' = clock /\ body' = body /\ op'.dest = op.dest
        /\ op'.todo = {i \in Listing(op.dest) \ op.known :
                         Older(body[i].mtime, Days(op.dest))}
    BY <1>3 DEF CleanupUnknown, disk, TypeInv, QueueTypeOK, Op
  <2>2. op.dest = "failed" => \A i \in op'.todo : /\ i \in Item /\ dir[i] # "none"
                                               /\ Older(body[i].mtime, FailedDays)
    BY <2>1 DEF Listing, Days
  <2>3. op.dest = "failed" => \A i \in op'.todo : Older(body[i].seen, FailedDays)
    BY <1>1, <2>2 DEF AgeInv, FileAges, Older
  <2> QED
    BY <2>1, <2>3 DEF RemovesOld, Older
<1>4. ASSUME NEW i \in Item, CleanupUnlink(i) PROVE RemovesOld'
  <2>1. /\ clock' = clock /\ op'.todo = op.todo \ {i}
        /\ op'.dest = op.dest /\ op'.pc = op.pc
        /\ \A j \in Item : j # i => body'[j] = body[j]
    BY <1>4 DEF CleanupUnlink, Unlink, TypeInv, QueueTypeOK, Op
  <2>2. op.todo \subseteq Item
    BY DEF TypeInv, QueueTypeOK, Op
  <2> QED
    BY <2>1, <2>2 DEF AgeInv, RemovesOld, Older
<1>5. CASE Tick
  <2>1. body' = body /\ op' = op /\ clock' = clock + 1
    BY <1>5 DEF Tick, disk
  <2>2. op.todo \subseteq Item
    BY DEF TypeInv, QueueTypeOK, Op
  <2> QED
    BY <1>1, <2>1, <2>2 DEF AgeInv, RemovesOld, Older
<1>6. CASE /\ op' = op /\ clock' = clock
           /\ \A i \in op.todo : body'[i].seen = body[i].seen
  BY <1>6 DEF AgeInv, RemovesOld, Older
<1>7. CASE ~Removing' \/ op'.dest # "failed"
  BY <1>7 DEF RemovesOld
<1>8. ASSUME Removing', op'.dest = "failed", ~CleanupUnknown, ~Tick,
             ~CleanupStart("failed"), ~\E i \in Item : CleanupUnlink(i)
      PROVE  op' = op /\ clock' = clock /\ \A i \in op.todo : body'[i].seen = body[i].seen
  <2>1. CASE UNCHANGED queueVars
    BY <2>1 DEF queueVars, disk
  <2>2. op \in Op
    BY DEF TypeInv, QueueTypeOK
  <2>3. CASE Start
    BY <1>8, <2>2, <2>3, StartRemovesNothing
  <2>4. CASE Enqueue
    BY <1>8, <2>2, <2>4, EnqueueRemovesNothing
  <2>5. CASE Claim \/ Settle
    BY <1>8, <2>2, <2>5, WorkerRemovesNothing
  <2>6. CASE Cleanup
    <3>1. CASE CleanupStart("sent")
      BY <1>8, <3>1 DEF CleanupStart, Idle
    <3>2. CASE \/ RequeueStart \/ RequeueStatus \/ RequeueDone \/ CleanupPurge
               \/ \E i \in Item : RequeueSkip(i) \/ RequeueMove(i)
      BY <1>8, <2>2, <3>2, RequeueRemovesNothing
    <3> QED
      BY <1>8, <2>6, <3>1, <3>2 DEF Cleanup
  <2>7. CASE Environment
    <3>1. CASE Fault \/ Crash
      BY <1>8, <3>1 DEF Fault, Crash, Idle
    <3>2. ASSUME NEW i \in Item,
                 RetryTimeComes(i) \/ HealFile(i) \/ \E id \in 0 .. MaxItems : DamageFile(i, id)
          PROVE  op' = op /\ clock' = clock /\ \A j \in op.todo : body'[j].seen = body[j].seen
      <4>1. body \in [Item -> Body] /\ op.todo \subseteq Item
        BY DEF TypeInv, QueueTypeOK, Op
      <4> QED
        BY <3>2, <4>1 DEF RetryTimeComes, HealFile, DamageFile, Body
    <3>3. ASSUME NEW h \in Hash, ImportRow(h)
          PROVE  op' = op /\ clock' = clock /\ body' = body
      BY <3>3 DEF ImportRow, disk
    <3> QED
      BY <1>8, <2>7, <3>1, <3>2, <3>3 DEF Environment
  <2> QED
    BY <2>1, <2>3, <2>4, <2>5, <2>6, <2>7 DEF QueueNext
<1> QED
  BY <1>2, <1>3, <1>4, <1>5, <1>6, <1>7, <1>8

LEMMA AgeInit == QueueInit => AgeInv
BY BoundsAssumption DEF QueueInit, AgeInv, FileAges, RowAges, RowNames, RemovesOld, NoRow, Idle

LEMMA StepsAge ==
  ASSUME TypeInv, AckInv, PlaceInv, [QueueNext]_queueVars
  PROVE  RowsMove /\ FilesAge /\ ClockOn
<1>1. CASE UNCHANGED queueVars
  BY <1>1, SameAges, RowsOfOperators DEF queueVars, disk, ClockOn
<1> QED
  BY <1>1, AgesStart, AgesEnqueue, AgesClaim, AgesSettle, AgesCleanup, AgesEnvironment
  DEF QueueNext

LEMMA AgeStep ==
  ASSUME TypeInv, TypeInv', AckInv, AckInv', PlaceInv, AgeInv, [QueueNext]_queueVars
  PROVE  AgeInv'
BY StepsAge, AgesKept, RemovesOldKept DEF AgeInv

(* A cleanup step removes what it has listed; other steps remove nothing while
   a cleanup is on. *)
LEMMA SparesLive ==
  ASSUME TypeInv, PlaceInv, AgeInv, [QueueNext]_queueVars,
         op.pc \in {"unlink_known", "unlink_unknown"}, NEW i \in Item, Live(i)
  PROVE  dir'[i] # "none"
<1>1. dir[i] # "none"
  BY DEF Live
<1>2. ASSUME NEW j \in Item, CleanupUnlink(j) PROVE dir'[i] # "none"
  <2>1. j \in op.todo /\ dir' = [dir EXCEPT ![j] = "none"]
    BY <1>2 DEF CleanupUnlink, First, Unlink, Move
  <2>2. dir[j] = op.dest /\ op.dest \in {"sent", "failed"}
    BY <2>1 DEF PlaceInv, ScanPlace, Listing
  <2>3. i # j
    BY <2>1, <2>2 DEF Live, AgeInv, RemovesOld
  <2> QED
    BY <1>1, <2>1, <2>3 DEF TypeInv, QueueTypeOK
<1>3. CASE ~\E j \in Item : CleanupUnlink(j)
  <2>1. dir' = dir
    BY <1>3 DEF QueueNext, queueVars, disk, Lockable, Accepting, InProcessing,
      Start, InitializeStart, ReconcileItem, InitializeDone, RecoverStart, RecoverItem,
      RecoverDone, StopWorker, CancelWorkerCall, Close,
      Enqueue, EnqueueDuplicate, EnqueuePendingDuplicate, EnqueueWrite, EnqueueRecord,
      EnqueueUndo,
      Claim, ClaimStart, ClaimCorrupt, ClaimMove, ClaimEmpty, ClaimPurgeCorrupt,
      ClaimPurgePayload, ClaimStatus, ClaimUnrecorded, ClaimRecord, ClaimDuplicate,
      Settle, MarkSent, MarkSentStatus, MarkFailed, MarkFailedMove, MarkFailedStatus,
      FinishStatus, UpdateAttempt, MoveBackToPending,
      Cleanup, RequeueStart, RequeueStatus, RequeueDone, CleanupStart, RequeueSkip,
      RequeueMove, CleanupUnknown, CleanupPurge,
      Environment, Tick, Fault, Crash, RetryTimeComes, HealFile, DamageFile, ImportRow
  <2> QED
    BY <1>1, <2>1
<1> QED
  BY <1>2, <1>3

(* Retention takes no SMS that is still to be delivered or that requeue_failed
   would take back, for every pair of retention periods and however the clock
   runs during a cleanup. *)
THEOREM RetentionIsSafe == QueueSpec => RetentionSparesLive
<1> DEFINE Spares ==
      \A i \in Item : op.pc \in {"unlink_known", "unlink_unknown"} /\ Live(i) =>
        dir'[i] # "none"
<1>1. TypeInv /\ PlaceInv /\ AgeInv /\ [QueueNext]_queueVars => [Spares]_queueVars
  BY SparesLive
<1> QED
  BY <1>1, TypeInit, TypeStep, AckInit, AckStep, PlaceInit, PlaceStep, AgeInit, AgeStep, PTL
  DEF QueueSpec, RetentionSparesLive
-----------------------------------------------------------------------------
(* Items that may still be delivered, or that a call is just settling or has
   listed to take back; every file counts until a retention period passes. *)
Counted(i) ==
  /\ dir[i] # "none"
  /\ \/ Live(i) \/ Young
     \/ op.pc \in {"sent_status", "failed_status"} /\ op.item = i
     \/ op.pc \in {"requeue", "requeue_status"} /\ i \in op.todo /\ ~body[i].perm

Solitary ==
  \A i, j \in Item : Counted(i) /\ Counted(j) /\ i # j => body[i].hash # body[j].hash
Whole == \A i \in Item : dir[i] # "none" => Readable(i)

(* What the table says of an item, and when the call that changes it is on. *)
Status(i) == row[body[i].hash].status
MidCall(i) ==
  /\ op.item = i
  /\ op.pc \in {"record", "claim_status", "claim_record", "claim_update",
                "sent_status", "failed_status", "requeue_status"}

Rowed(i) ==
  /\ phase # "closed" /\ ~MidCall(i) =>
       /\ dir[i] = "processing" /\ phase # "opened" => Status(i) = "processing"
       /\ dir[i] = "failed" /\ Counted(i) => Status(i) = "failed"
       /\ dir[i] # "none" /\ Young => Status(i) \in StatusesOf(dir[i])
  /\ dir[i] = "processing" /\ Young => Status(i) \in {"pending", "processing"}
  /\ op.pc = "reconcile" /\ dir[i] \in {"pending", "sent", "failed"} /\ i \notin op.todo =>
       /\ Young => Status(i) = dir[i]
       /\ dir[i] = "failed" =>
            Status(i) = "failed" /\ \A j \in op.todo : dir[j] = "failed"

CallStatus ==
  /\ op.pc \notin {"purge_corrupt", "purge_payload"}
  /\ op.pc = "claim_record" => Status(op.item) = "none"
  /\ op.pc \in {"sent_status", "failed_status"} => Status(op.item) = "processing"
  /\ op.pc = "requeue_status" =>
       op.item \in Item /\ dir[op.item] = "pending" /\ Status(op.item) = "failed"
  /\ op.pc \in {"requeue", "requeue_status"} => phase \in {"ready", "stopping"}

Sole == Solitary /\ Whole /\ (\A i \in Item : Rowed(i)) /\ CallStatus
Clean == spent.fault = 0 /\ spent.damage = 0 /\ NoLateImport
SoleInv == Clean => Sole

(* A step that brings no item into play, and one that leaves an item and what
   the table says of it alone. *)
KeepsCounted ==
  \A i \in Item : /\ Counted(i)' => Counted(i) /\ body'[i].hash = body[i].hash
                  /\ dir'[i] # "none" => Readable(i)'

StaysRowed(i) ==
  /\ dir'[i] = dir[i] /\ (dir[i] # "none" => Status(i)' = Status(i))
  /\ phase' \in {"closed", phase}
  /\ MidCall(i) => MidCall(i)' \/ phase' = "closed"
  /\ op'.pc = "reconcile" => op' = op /\ dir' = dir

LEMMA SolitaryKept ==
  ASSUME Solitary, KeepsCounted PROVE Solitary' /\ Whole'
BY DEF Solitary, KeepsCounted, Whole

LEMMA YoungKept == ASSUME TypeInv, ClockOn, Young' PROVE Young
<1>1. clock \in Nat /\ SentDays \in Nat /\ FailedDays \in Nat
  BY BoundsAssumption DEF TypeInv, QueueTypeOK
<1> QED
  BY <1>1 DEF ClockOn, Young

LEMMA RowedKept ==
  ASSUME TypeInv, ClockOn, NEW i \in Item, Counted(i)' => Counted(i), Rowed(i), StaysRowed(i)
  PROVE  Rowed(i)'
<1>1. Young' => Young
  BY YoungKept
<1>3. \A d : StatusesOf(d)' = StatusesOf(d)
  BY DEF StatusesOf
<1>4. CASE dir[i] = "none"
  BY <1>4 DEF StaysRowed, Rowed
<1>5. CASE dir[i] # "none"
  <2>1. ASSUME phase' # "closed", ~MidCall(i)'
        PROVE  /\ dir'[i] = "processing" /\ phase' # "opened" => Status(i)' = "processing"
               /\ dir'[i] = "failed" /\ Counted(i)' => Status(i)' = "failed"
               /\ dir'[i] # "none" /\ Young' => Status(i)' \in StatusesOf(dir'[i])
    BY <1>1, <1>5, <2>1 DEF StaysRowed, Rowed
  <2>2. dir'[i] = "processing" /\ Young' => Status(i)' \in {"pending", "processing"}
    BY <1>1, <1>5 DEF StaysRowed, Rowed
  <2>3. op'.pc = "reconcile" /\ dir'[i] \in {"pending", "sent", "failed"} /\ i \notin op'.todo =>
          /\ Young' => Status(i)' = dir'[i]
          /\ dir'[i] = "failed" =>
               Status(i)' = "failed" /\ \A j \in op'.todo : dir'[j] = "failed"
    BY <1>1, <1>5 DEF StaysRowed, Rowed
  <2>4. StatusesOf(dir[i])' = StatusesOf(dir'[i])
    BY DEF StatusesOf
  <2> QED
    BY <2>1, <2>2, <2>3, <2>4 DEF Rowed
<1> QED
  BY <1>4, <1>5

LEMMA Uncounted ==
  ASSUME NEW i \in Item, Whole', ~Counted(i)', op'.pc # "reconcile"
  PROVE  Rowed(i)'
<1>1. dir'[i] = "none" \/ (dir'[i] \notin {"pending", "processing"} /\ ~Young')
  BY DEF Whole, Counted, Live
<1> QED
  BY <1>1 DEF Rowed

(* The table is written for one item in play. *)
LEMMA RowedWrite ==
  ASSUME TypeInv, Solitary, KeepsCounted, \A k \in Item : Rowed(k),
         NEW i \in Item, Counted(i), Rowed(i)',
         UNCHANGED <<dir, body, phase, clock, nextItem>>,
         op.pc # "reconcile", op'.pc # "reconcile",
         \A k \in Item : k # i => ~MidCall(k),
         \A h \in Hash : h # body[i].hash => row'[h] = row[h]
  PROVE  \A k \in Item : Rowed(k)'
<1>1. Whole'
  BY SolitaryKept
<1> SUFFICES ASSUME NEW k \in Item, k # i PROVE Rowed(k)'
  OBVIOUS
<1>2. CASE body[k].hash = body[i].hash
  <2>1. ~Counted(k)
    BY <1>2 DEF Solitary
  <2>2. ~Counted(k)'
    BY <2>1 DEF KeepsCounted
  <2> QED
    BY <1>1, <2>2, Uncounted
<1>3. CASE body[k].hash # body[i].hash
  <2>1. Status(k)' = Status(k)
    BY <1>3 DEF Status, TypeInv, QueueTypeOK, Body
  <2>2. StaysRowed(k)
    BY <2>1 DEF StaysRowed
  <2> QED
    BY <2>2, RowedKept DEF ClockOn, KeepsCounted
<1> QED
  BY <1>2, <1>3

(* The same for a step that leaves table and files alone. *)
LEMMA RowedFrame ==
  ASSUME TypeInv, ClockOn, KeepsCounted, \A k \in Item : Rowed(k),
         UNCHANGED <<dir, row>>,
         \A k \in Item : dir[k] # "none" => body'[k].hash = body[k].hash,
         phase' \in {"closed", phase},
         \A k \in Item : MidCall(k) => MidCall(k)' \/ phase' = "closed",
         op'.pc = "reconcile" => op' = op
  PROVE  \A k \in Item : Rowed(k)'
<1> SUFFICES ASSUME NEW k \in Item PROVE Rowed(k)'
  OBVIOUS
<1>1. StaysRowed(k)
  BY DEF StaysRowed, Status
<1> QED
  BY <1>1, RowedKept DEF KeepsCounted

(* Which steps bring no item into play: files keep their hash, their age and
   their payload, and a file comes to pending/, processing/ or failed/, or
   into the hands of a call, only when it counted before. *)
FilesKept ==
  \A i \in Item : dir'[i] # "none" =>
    /\ dir[i] # "none" /\ body'[i].id = i
    /\ body'[i].hash = body[i].hash /\ body'[i].seen = body[i].seen

PlacesKept ==
  \A i \in Item :
    /\ dir'[i] \in {"pending", "processing"} => dir'[i] = dir[i] \/ Counted(i)
    /\ dir'[i] = "failed" =>
         (dir[i] = "failed" /\ body'[i].perm = body[i].perm) \/ Counted(i)

CallsKept ==
  \A i \in Item : dir'[i] # "none" =>
    /\ op'.pc \in {"sent_status", "failed_status"} /\ op'.item = i => Counted(i)
    /\ op'.pc \in {"requeue", "requeue_status"} /\ i \in op'.todo /\ ~body'[i].perm =>
         Counted(i)

LEMMA CountedFrame ==
  ASSUME TypeInv, ClockOn, Whole, FilesKept, PlacesKept, CallsKept
  PROVE  KeepsCounted
<1> SUFFICES ASSUME NEW i \in Item, dir'[i] # "none"
             PROVE  Readable(i)' /\ (Counted(i)' => Counted(i) /\ body'[i].hash = body[i].hash)
  BY DEF KeepsCounted, Counted
<1>1. Readable(i)' /\ Readable(i) /\ dir[i] # "none" /\ body'[i].hash = body[i].hash
  BY DEF FilesKept, Readable, Whole
<1>2. Young' => Counted(i)
  BY <1>1, YoungKept DEF Counted
<1>3. CASE dir'[i] \in {"pending", "processing"}
  <2>1. Counted(i)
    BY <1>1, <1>3 DEF PlacesKept, Counted, Live
  <2> QED
    BY <1>1, <2>1
<1>4. CASE dir'[i] = "failed"
  <2>1. ASSUME dir[i] = "failed", body'[i].perm = body[i].perm,
               ~body'[i].perm, ~Older(body[i].seen, FailedDays)'
        PROVE  Live(i)
    <3>1. body[i].seen \in Nat /\ FailedDays \in Nat /\ clock \in Nat
      BY BoundsAssumption DEF TypeInv, QueueTypeOK, Body
    <3>2. body'[i].seen = body[i].seen
      BY <1>4 DEF FilesKept
    <3>3. ~(body[i].seen + FailedDays < clock')
      BY <2>1, <3>2 DEF Older
    <3>4. ~Older(body[i].seen, FailedDays)
      BY <3>1, <3>3 DEF Older, ClockOn
    <3> QED
      BY <1>1, <2>1, <3>4 DEF Live
  <2>2. Live(i)' => Counted(i)
    BY <1>1, <1>4, <2>1 DEF Live, PlacesKept, Counted
  <2> QED
    BY <1>1, <1>2, <2>2 DEF Counted, CallsKept
<1>5. CASE dir'[i] \notin {"pending", "processing", "failed"}
  BY <1>1, <1>2, <1>5 DEF Counted, CallsKept, Live
<1> QED
  BY <1>3, <1>4, <1>5

(* No file changes, and no call takes up an item. *)
LEMMA NothingNew ==
  ASSUME TypeInv, ClockOn, Whole, UNCHANGED <<dir, body>>, CallsKept
  PROVE  KeepsCounted
<1>1. FilesKept /\ PlacesKept
  BY DEF FilesKept, PlacesKept, Whole, Readable
<1> QED
  BY <1>1, CountedFrame

(* A step without effect on files and table. *)
LEMMA SoleFrame ==
  ASSUME TypeInv, ClockOn, Sole, KeepsCounted, CallStatus',
         UNCHANGED <<dir, row>>,
         \A k \in Item : dir[k] # "none" => body'[k].hash = body[k].hash,
         phase' \in {"closed", phase},
         \A k \in Item : MidCall(k) => MidCall(k)' \/ phase' = "closed",
         op'.pc = "reconcile" => op' = op
  PROVE  Sole' /\ KeepsCounted
BY SolitaryKept, RowedFrame DEF Sole

LEMMA ItemHash ==
  ASSUME TypeInv, NEW i \in Item PROVE body[i].hash \in Hash /\ body[i].seen \in Nat
BY DEF TypeInv, QueueTypeOK, Body

(* The row an item has after a write *)
LEMMA Written ==
  ASSUME TypeInv, NEW h \in Hash, NEW r, row' = [row EXCEPT ![h] = r]
  PROVE  row'[h] = r /\ \A g \in Hash : g # h => row'[g] = row[g]
BY DEF TypeInv, QueueTypeOK

LEMMA Updated ==
  ASSUME TypeInv, NEW h \in Hash, NEW s, row' = UpdateStatus(h, s)
  PROVE  row'[h].status = s /\ \A g \in Hash : g # h => row'[g] = row[g]
BY DEF TypeInv, QueueTypeOK, UpdateStatus, Row

LEMMA SoleInitialize ==
  ASSUME TypeInv, PlaceInv, Sole, InitializeStart \/ InitializeDone PROVE Sole' /\ KeepsCounted
<1>0. ClockOn /\ UNCHANGED <<dir, body, row>>
  BY DEF ClockOn, disk, history, InitializeStart, InitializeDone
<1>9. op'.pc = "idle" \/ (op'.pc = "reconcile" /\ phase = "closed")
  <2>1. CASE InitializeStart
    BY <2>1 DEF InitializeStart, Idle
  <2>2. CASE InitializeDone
    BY <2>2 DEF InitializeDone, Idle
  <2> QED
    BY <2>1, <2>2
<1>1. CallsKept
  BY <1>9 DEF CallsKept
<1>2. KeepsCounted
  BY <1>0, <1>1, NothingNew DEF Sole
<1>3. CallStatus'
  BY <1>9 DEF CallStatus
<1>4. ASSUME NEW i \in Item PROVE Rowed(i)'
  <2>1. Rowed(i) /\ (Young' = Young) /\ Status(i)' = Status(i) /\ (Counted(i)' => Counted(i))
    BY <1>0, <1>2 DEF Sole, Young, Status, InitializeStart, InitializeDone, KeepsCounted
  <2>2. CASE InitializeStart
    <3>1. /\ phase' = "closed" /\ op'.pc = "reconcile"
          /\ op'.todo = {j \in Item : ReconcileRank(dir[j]) > 0}
      BY <2>2 DEF InitializeStart, Idle
    <3>2. dir[i] \in {"pending", "sent", "failed"} => i \in op'.todo
      BY <3>1 DEF ReconcileRank
    <3> QED
      BY <1>0, <2>1, <3>1, <3>2 DEF Rowed
  <2>3. CASE InitializeDone
    <3>1. /\ phase' = "opened" /\ op'.pc = "idle" /\ op.pc = "reconcile" /\ op.todo = {}
      BY <2>3 DEF InitializeDone, Idle
    <3>2. dir[i] \in {"pending", "sent", "failed"} =>
            (Young => Status(i) = dir[i]) /\ (dir[i] = "failed" => Status(i) = "failed")
      BY <2>1, <3>1 DEF Rowed
    <3>3. dir[i] \in Dirs
      BY DEF TypeInv, QueueTypeOK
    <3>4. dir[i] # "none" /\ Young => Status(i) \in StatusesOf(dir[i])
      BY <2>1, <3>2, <3>3 DEF Rowed, StatusesOf, Dirs
    <3>5. StatusesOf(dir[i])' = StatusesOf(dir[i])
      BY <1>0 DEF StatusesOf
    <3> QED
      BY <1>0, <2>1, <3>1, <3>2, <3>4, <3>5 DEF Rowed
  <2> QED
    BY <2>2, <2>3
<1> QED
  BY <1>2, <1>3, <1>4, SolitaryKept DEF Sole


LEMMA SoleReconcile ==
  ASSUME TypeInv, PlaceInv, Sole, ReconcileItem PROVE Sole' /\ KeepsCounted
<1>0. ClockOn /\ UNCHANGED <<dir, body, phase, clock>> /\ op.pc = "reconcile"
  BY DEF ClockOn, disk, history, ReconcileItem
<1>1. PICK i \in op.todo :
        /\ \A j \in op.todo :
             \/ ReconcileRank(dir[i]) < ReconcileRank(dir[j])
             \/ ReconcileRank(dir[i]) = ReconcileRank(dir[j]) /\ i <= j
        /\ op' = [op EXCEPT !.todo = @ \ {i}]
        /\ row' = IF Readable(i) THEN ReconcileStatus(body[i].hash, i, dir[i]) ELSE row
  BY DEF ReconcileItem
<1>2. i \in Item /\ dir[i] \in {"pending", "sent", "failed"} /\ phase = "closed"
  BY <1>0 DEF PlaceInv, ScanPlace, CallPlace, TypeInv, QueueTypeOK, Op
<1>3. op'.pc = "reconcile" /\ op'.todo = op.todo \ {i}
  BY <1>0, <1>1 DEF TypeInv, QueueTypeOK, Op
<1>4. CallsKept /\ CallStatus'
  BY <1>3 DEF CallsKept, CallStatus
<1>5. KeepsCounted
  BY <1>0, <1>4, NothingNew DEF Sole
<1>6. row' = ReconcileStatus(body[i].hash, i, dir[i])
  BY <1>1, <1>2 DEF Sole, Whole
<1>7. /\ row'[body[i].hash].status = dir[i]
      /\ \A g \in Hash : g # body[i].hash => row'[g] = row[g]
  <2>1. body[i].hash \in Hash
    BY <1>2, ItemHash
  <2>2. CASE ~HasRow(body[i].hash)
    <3> DEFINE r == [item |-> i, status |-> dir[i], at |-> clock]
    <3>1. row' = [row EXCEPT ![body[i].hash] = r]
      BY <1>6, <2>2 DEF ReconcileStatus
    <3>2. r.status = dir[i]
      OBVIOUS
    <3> HIDE DEF r
    <3> QED
      BY <2>1, <3>1, <3>2, Written
  <2>3. CASE HasRow(body[i].hash) /\ row[body[i].hash].status # dir[i]
    BY <1>6, <2>1, <2>3, Updated DEF ReconcileStatus
  <2>4. CASE HasRow(body[i].hash) /\ row[body[i].hash].status = dir[i]
    BY <1>6, <2>4 DEF ReconcileStatus
  <2> QED
    BY <2>2, <2>3, <2>4
<1>8. dir[i] = "failed" => \A j \in op.todo : dir[j] = "failed"
  <2> SUFFICES ASSUME dir[i] = "failed", NEW j \in op.todo PROVE dir[j] = "failed"
    OBVIOUS
  <2>1. dir[j] \in {"pending", "sent", "failed"}
    BY <1>0 DEF PlaceInv, ScanPlace
  <2>2. ReconcileRank("failed") = 3 /\ ReconcileRank("pending") = 1 /\ ReconcileRank("sent") = 2
    BY DEF ReconcileRank
  <2> QED
    BY <1>1, <2>1, <2>2
<1>9. ASSUME NEW k \in Item PROVE Rowed(k)'
  <2>1. (Young' = Young) /\ Rowed(k) /\ Status(k)' = row'[body[k].hash].status
    BY <1>0 DEF Sole, Young, Status
  <2>2. CASE body[k].hash # body[i].hash
    <3>1. Status(k)' = Status(k)
      BY <1>7, <2>1, <2>2, ItemHash DEF Status
    <3>2. k # i
      BY <2>2
    <3>3. ~(phase' # "closed")
      BY <1>0, <1>2
    <3>4. dir[k] = "processing" /\ Young => Status(k) \in {"pending", "processing"}
      BY <2>1 DEF Rowed
    <3>5. dir[k] \in {"pending", "sent", "failed"} /\ k \notin op'.todo =>
            /\ Young => Status(k) = dir[k]
            /\ dir[k] = "failed" =>
                 Status(k) = "failed" /\ \A j \in op'.todo : dir[j] = "failed"
      BY <1>0, <1>2, <1>3, <2>1, <3>2 DEF Rowed
    <3> QED
      BY <1>0, <2>1, <3>1, <3>3, <3>4, <3>5 DEF Rowed
  <2>3. CASE body[k].hash = body[i].hash
    <3>1. Status(k)' = dir[i]
      BY <1>7, <2>1, <2>3
    <3>2. k # i /\ dir[k] # "none" => ~Young
      BY <1>2, <2>3 DEF Sole, Solitary, Counted
    <3>3. dir[k] = "failed" /\ k \notin op.todo => dir[i] = "failed"
      BY <1>0, <2>1 DEF Rowed
    <3>4. dir[k] = "processing" => k # i
      BY <1>2
    <3> QED
      BY <1>0, <1>2, <1>3, <1>8, <2>1, <3>1, <3>2, <3>3, <3>4 DEF Rowed
  <2> QED
    BY <2>2, <2>3
<1> QED
  BY <1>4, <1>5, <1>9, SolitaryKept DEF Sole

LEMMA SoleRecover ==
  ASSUME TypeInv, PlaceInv, Sole, spent.fault = 0,
         RecoverStart \/ RecoverDone \/ StopWorker \/ Close \/ \E i \in Item : RecoverItem(i)
  PROVE Sole' /\ KeepsCounted
<1>1. ASSUME NEW i \in Item, RecoverItem(i) PROVE Sole' /\ KeepsCounted
  <2>1. /\ op.pc = "recover" /\ op'.pc = "recover" /\ phase = "opened"
        /\ i \in op.todo /\ dir[i] = "processing" /\ dir' = [dir EXCEPT ![i] = "pending"]
        /\ UNCHANGED <<body, row, phase, clock, nextItem>>
    BY <1>1 DEF RecoverItem, First, Move, PlaceInv, CallPlace, ScanPlace, Listing,
                TypeInv, QueueTypeOK, Op
  <2>2. ClockOn /\ dir'[i] = "pending" /\ \A k \in Item : k # i => dir'[k] = dir[k]
    BY <2>1 DEF ClockOn, TypeInv, QueueTypeOK
  <2>3. FilesKept /\ PlacesKept /\ CallsKept
    BY <2>1, <2>2 DEF FilesKept, PlacesKept, CallsKept, Sole, Whole, Readable, Counted, Live
  <2>4. KeepsCounted
    BY <2>2, <2>3, CountedFrame DEF Sole
  <2>5. CallStatus'
    BY <2>1 DEF CallStatus
  <2>6. ASSUME NEW k \in Item PROVE Rowed(k)'
    <3>1. Rowed(k) /\ ~MidCall(k)
      BY <2>1 DEF Sole, MidCall
    <3>2. CASE k # i
      <4>1. StaysRowed(k)
        BY <2>1, <2>2, <3>1, <3>2 DEF StaysRowed, Status
      <4> QED
        BY <2>2, <2>4, <3>1, <4>1, RowedKept DEF KeepsCounted
    <3>3. CASE k = i
      <4>1. Young' = Young /\ Status(k)' = Status(k)
        BY <2>1 DEF Young, Status
      <4>2. Young => Status(k) \in {"pending", "processing"}
        BY <2>1, <3>1, <3>3 DEF Rowed
      <4>3. StatusesOf("pending") = {"pending", "processing"}
        BY DEF StatusesOf
      <4> QED
        BY <2>1, <2>2, <3>3, <4>1, <4>2, <4>3 DEF Rowed, StatusesOf
    <3> QED
      BY <3>2, <3>3
  <2> QED
    BY <2>4, <2>5, <2>6, SolitaryKept DEF Sole
<1>2. CASE RecoverStart \/ StopWorker \/ Close
  <2>1. ClockOn /\ UNCHANGED <<dir, body, row>>
    BY <1>2 DEF RecoverStart, StopWorker, Close, ClockOn, disk, history
  <2>2. \/ op.pc = "idle" /\ op'.pc = "recover" /\ phase' = phase
        \/ op' = op /\ phase = "ready" /\ phase' = "stopping"
        \/ op' = op /\ phase' = "closed" /\ op.pc = "idle"
    BY <1>2 DEF RecoverStart, StopWorker, Close, Idle
  <2>3. CallsKept /\ CallStatus'
    <3>1. CallsKept
      BY <2>1, <2>2 DEF CallsKept, Counted
    <3>2. CallStatus'
      BY <2>1, <2>2 DEF CallStatus, Sole, Status
    <3> QED
      BY <3>1, <3>2
  <2>4. KeepsCounted
    BY <2>1, <2>3, NothingNew DEF Sole
  <2>5. CASE ~(phase = "ready" /\ phase' = "stopping")
    <3>1. phase' \in {"closed", phase} /\ (op'.pc = "reconcile" => op' = op)
      BY <2>2, <2>5
    <3>2. \A k \in Item : MidCall(k) => MidCall(k)' \/ phase' = "closed"
      BY <2>2, <2>5 DEF MidCall
    <3> QED
      BY <2>1, <2>3, <2>4, <3>1, <3>2, SoleFrame
  <2>6. CASE op' = op /\ phase = "ready" /\ phase' = "stopping"
    <3>1. ASSUME NEW k \in Item PROVE Rowed(k)'
      <4>1. Rowed(k) /\ Young' = Young /\ Status(k)' = Status(k) /\ MidCall(k)' = MidCall(k)
        BY <2>1, <2>6, <1>2
        DEF Sole, Young, Status, MidCall, RecoverStart, StopWorker, Close, disk, history
      <4>2. Counted(k)' => Counted(k)
        BY <2>4 DEF KeepsCounted
      <4>3. StatusesOf(dir[k])' = StatusesOf(dir[k])
        BY <2>1 DEF StatusesOf
      <4> QED
        BY <2>1, <2>6, <4>1, <4>2, <4>3 DEF Rowed
    <3> QED
      BY <2>3, <2>4, <3>1, SolitaryKept DEF Sole
  <2> QED
    BY <2>2, <2>5, <2>6
<1>3. CASE RecoverDone
  <2>1. /\ ClockOn /\ UNCHANGED <<dir, body, row, clock>> /\ op.pc = "recover" /\ op'.pc = "idle"
        /\ phase' = "ready" /\ op.todo = {}
    BY <1>3 DEF RecoverDone, ClockOn, Idle, disk, history
  <2>2. CallsKept /\ CallStatus'
    BY <2>1 DEF CallsKept, CallStatus
  <2>3. KeepsCounted
    BY <2>1, <2>2, NothingNew DEF Sole
  <2>4. phase = "opened" /\ \A k \in Item : dir[k] # "processing"
    BY <2>1 DEF PlaceInv, CallPlace, ScanPlace, Listing
  <2>5. ASSUME NEW k \in Item PROVE Rowed(k)'
    <3>1. Rowed(k) /\ Young' = Young /\ Status(k)' = Status(k) /\ ~MidCall(k)
      BY <2>1 DEF Sole, Young, Status, MidCall
    <3>2. Counted(k)' => Counted(k)
      BY <2>3 DEF KeepsCounted
    <3>3. StatusesOf(dir[k])' = StatusesOf(dir[k])
      BY <2>1 DEF StatusesOf
    <3> QED
      BY <2>1, <2>4, <3>1, <3>2, <3>3 DEF Rowed
  <2> QED
    BY <2>2, <2>3, <2>5, SolitaryKept DEF Sole
<1> QED
  BY <1>1, <1>2, <1>3

(* Steps that change neither files nor table, of a call that is not between a
   file and its row. *)
LEMMA SoleQuiet ==
  ASSUME TypeInv, ClockOn, Sole, UNCHANGED <<dir, body, row>>,
         \/ op' = op /\ phase' = phase
         \/ phase' = "closed" /\ op'.pc = "idle"
         \/ /\ phase' = phase
            /\ op.pc \in {"idle", "claim", "requeue", "unlink_known"}
            /\ op'.pc \in {"idle", "claim", "unlink_known", "unlink_unknown"}
  PROVE  Sole' /\ KeepsCounted
<1>1. CallsKept
  BY DEF CallsKept, Counted
<1>2. CallStatus'
  BY DEF CallStatus, Sole, Status
<1>3. KeepsCounted
  BY <1>1, NothingNew DEF Sole
<1>4. \A k \in Item : MidCall(k) => MidCall(k)' \/ phase' = "closed"
  BY DEF MidCall
<1>5. phase' \in {"closed", phase} /\ (op'.pc = "reconcile" => op' = op)
  OBVIOUS
<1> QED
  BY <1>2, <1>3, <1>4, <1>5, SoleFrame

LEMMA SoleUnlink ==
  ASSUME TypeInv, ClockOn, Sole, NEW i \in Item, Unlink(i), UNCHANGED <<row, phase>>,
         CallsKept, CallStatus', op'.pc # "reconcile", \A k \in Item : k # i => ~MidCall(k)
  PROVE  Sole' /\ KeepsCounted
<1>1. /\ dir'[i] = "none"
      /\ \A k \in Item : k # i => dir'[k] = dir[k] /\ body'[k] = body[k]
  BY DEF Unlink, Move, TypeInv, QueueTypeOK
<1>2. FilesKept /\ PlacesKept
  BY <1>1 DEF FilesKept, PlacesKept, Sole, Whole, Readable
<1>3. KeepsCounted
  BY <1>2, CountedFrame DEF Sole
<1>4. ASSUME NEW k \in Item PROVE Rowed(k)'
  <2>1. CASE k = i
    BY <1>1, <2>1 DEF Rowed
  <2>2. CASE k # i
    <3>1. StaysRowed(k)
      BY <1>1, <2>2 DEF StaysRowed, Status
    <3> QED
      BY <1>3, <3>1, RowedKept DEF KeepsCounted, Sole
  <2> QED
    BY <2>1, <2>2
<1> QED
  BY <1>3, <1>4, SolitaryKept DEF Sole

LEMMA SoleWrite ==
  ASSUME TypeInv, Sole, CallsKept, CallStatus', NEW i \in Item, Counted(i), Rowed(i)',
         UNCHANGED <<dir, body, phase, clock, nextItem>>,
         op.pc # "reconcile", op'.pc # "reconcile",
         \A k \in Item : k # i => ~MidCall(k),
         \A h \in Hash : h # body[i].hash => row'[h] = row[h]
  PROVE  Sole' /\ KeepsCounted
<1>1. KeepsCounted
  BY NothingNew DEF Sole, ClockOn
<1> QED
  BY <1>1, RowedWrite, SolitaryKept DEF Sole

LEMMA SoleEnqueueWrite ==
  ASSUME TypeInv, Sole, NEW h \in Hash, EnqueueWrite(h) PROVE Sole'
<1>0. PICK i \in Item : i = nextItem
  BY DEF EnqueueWrite
<1>1. /\ nextItem = i /\ op.pc = "idle" /\ op'.pc = "record" /\ op'.item = i
      /\ phase \in {"ready", "stopping"} /\ UNCHANGED <<row, phase, clock>>
      /\ nextItem' = i + 1 /\ ~HasRow(h) /\ PendingDuplicates(h) = {}
  BY <1>0 DEF EnqueueWrite, Accepting, Idle
<1>2. /\ dir'[i] = "pending" /\ body'[i].hash = h /\ body'[i].id = i
      /\ \A k \in Item : k # i => dir'[k] = dir[k] /\ body'[k] = body[k]
  BY <1>1 DEF EnqueueWrite, Move, TypeInv, QueueTypeOK
<1>3. ASSUME NEW k \in Item, k # i, Counted(k)' PROVE Counted(k) /\ body[k].hash # h
  <2>1. Counted(k)
    BY <1>1, <1>2, <1>3 DEF Counted, Live, Readable, Young, Older
  <2>2. dir[k] # "none" /\ Rowed(k) /\ ~MidCall(k)
    BY <1>1, <2>1 DEF Counted, MidCall, Sole
  <2>3. dir[k] = "pending" => body[k].hash # h
    BY <1>1, <2>1 DEF PendingDuplicates, Listing, Sole, Whole
  <2>4. dir[k] # "pending" => Status(k) # "none"
    <3>1. dir[k] \in Dirs
      BY DEF TypeInv, QueueTypeOK
    <3>2. dir[k] \in {"processing", "failed"} => Status(k) # "none"
      BY <1>1, <2>1, <2>2 DEF Rowed
    <3>3. dir[k] = "sent" => Young
      BY <1>1, <2>1 DEF Counted, Live
    <3>4. dir[k] = "sent" => Status(k) # "none"
      BY <1>1, <2>2, <3>3 DEF Rowed, StatusesOf
    <3> QED
      BY <2>2, <3>1, <3>2, <3>4 DEF Dirs
  <2>5. body[k].hash = h => Status(k) = "none"
    BY <1>1 DEF HasRow, Status
  <2> QED
    BY <2>1, <2>3, <2>4, <2>5
<1>4. Solitary'
  <2> SUFFICES ASSUME NEW j \in Item, NEW k \in Item, Counted(j)', Counted(k)', j # k
               PROVE  body'[j].hash # body'[k].hash
    BY DEF Solitary
  <2> QED
    BY <1>2, <1>3 DEF Sole, Solitary
<1>5. Whole'
  BY <1>2 DEF Sole, Whole, Readable
<1>6. CallStatus'
  BY <1>1 DEF CallStatus
<1>7. ASSUME NEW k \in Item PROVE Rowed(k)'
  <2>1. CASE k = i
    <3>1. MidCall(i)'
      BY <1>1 DEF MidCall
    <3> QED
      BY <1>1, <1>2, <2>1, <3>1 DEF Rowed
  <2>2. CASE k # i
    <3>1. StaysRowed(k)
      BY <1>1, <1>2, <2>2 DEF StaysRowed, Status, MidCall
    <3>2. ClockOn
      BY <1>1 DEF ClockOn, TypeInv, QueueTypeOK
    <3> QED
      BY <1>3, <2>2, <3>1, <3>2, RowedKept DEF Sole
  <2> QED
    BY <2>1, <2>2
<1> QED
  BY <1>4, <1>5, <1>6, <1>7 DEF Sole

LEMMA SoleEnqueue ==
  ASSUME TypeInv, PlaceInv, Sole, Enqueue
  PROVE  Sole' /\ (KeepsCounted \/ \E h \in Hash : EnqueueWrite(h))
<1>1. ASSUME NEW h \in Hash, EnqueueDuplicate(h) PROVE Sole' /\ KeepsCounted
  BY <1>1, SoleQuiet DEF EnqueueDuplicate, ClockOn, disk
<1>2. ASSUME NEW h \in Hash, EnqueuePendingDuplicate(h) PROVE Sole' /\ KeepsCounted
  <2>1. PICK i \in Item : First(i, PendingDuplicates(h)) /\ row' = RecordNew(h, i)
    BY <1>2 DEF EnqueuePendingDuplicate
  <2>2. op.pc = "idle" /\ UNCHANGED <<dir, body, phase, clock, nextItem, op>>
    BY <1>2 DEF EnqueuePendingDuplicate, Accepting, disk
  <2>3. dir[i] = "pending" /\ body[i].hash = h /\ Counted(i)
    BY <2>1 DEF First, PendingDuplicates, Listing, Counted, Live
  <2>4. row'[h].status = "pending" /\ \A g \in Hash : g # h => row'[g] = row[g]
    BY <2>1 DEF RecordNew, TypeInv, QueueTypeOK
  <2>5. Rowed(i)'
    BY <2>2, <2>3, <2>4 DEF Rowed, Status, StatusesOf
  <2>6. CallsKept /\ CallStatus' /\ \A k \in Item : ~MidCall(k)
    BY <2>2 DEF CallsKept, CallStatus, MidCall
  <2> QED
    BY <2>2, <2>3, <2>4, <2>5, <2>6, SoleWrite
<1>3. ASSUME NEW h \in Hash, EnqueueWrite(h) PROVE Sole'
  BY <1>3, SoleEnqueueWrite
<1>4. CASE EnqueueRecord
  <2>0. PICK i \in Item : i = op.item
    BY <1>4 DEF EnqueueRecord, TypeInv, OpInOrder
  <2>1. /\ op.pc = "record" /\ op'.pc = "idle" /\ row' = RecordNew(body[i].hash, i)
        /\ UNCHANGED <<dir, body, phase, clock, nextItem>>
    BY <1>4, <2>0 DEF EnqueueRecord, disk, Idle
  <2>2. dir[i] = "pending" /\ body[i].hash \in Hash
    BY <2>0, <2>1, ItemHash DEF PlaceInv, CallPlace
  <2>3. Counted(i)
    BY <2>2 DEF Counted, Live, Sole, Whole
  <2>4. /\ row'[body[i].hash].status = "pending"
        /\ \A g \in Hash : g # body[i].hash => row'[g] = row[g]
    BY <2>1, <2>2 DEF RecordNew, TypeInv, QueueTypeOK
  <2>5. Rowed(i)'
    BY <2>1, <2>2, <2>4 DEF Rowed, Status, StatusesOf
  <2>6. CallsKept /\ CallStatus' /\ \A k \in Item : k # i => ~MidCall(k)
    BY <2>0, <2>1 DEF CallsKept, CallStatus, MidCall
  <2> QED
    BY <2>1, <2>2, <2>3, <2>4, <2>5, <2>6, SoleWrite
<1>5. CASE EnqueueUndo
  <2>0. PICK i \in Item : i = op.item
    BY <1>5 DEF EnqueueUndo, TypeInv, OpInOrder
  <2>1. /\ op.pc = "record" /\ op'.pc = "idle"
        /\ Unlink(i) \/ body[i].id = 0
        /\ UNCHANGED <<row, phase, clock, nextItem>>
    BY <1>5, <2>0 DEF EnqueueUndo, disk, Idle
  <2>2. dir[i] = "pending" /\ i # 0
    BY <2>0, <2>1, BoundsAssumption DEF PlaceInv, CallPlace, Item
  <2>3. Unlink(i)
    BY <2>1, <2>2 DEF Sole, Whole, Readable
  <2>4. CallsKept /\ CallStatus' /\ \A k \in Item : k # i => ~MidCall(k)
    BY <2>0, <2>1 DEF CallsKept, CallStatus, MidCall
  <2> QED
    BY <2>1, <2>2, <2>3, <2>4, SoleUnlink DEF ClockOn
<1> QED
  BY <1>1, <1>2, <1>3, <1>4, <1>5 DEF Enqueue

LEMMA SoleMove ==
  ASSUME TypeInv, Sole, CallsKept, CallStatus', NEW i \in Item, Counted(i), Rowed(i)',
         NEW d, d # "none", Move(i, d), UNCHANGED <<body, row, phase, clock, nextItem>>,
         op'.pc # "reconcile", \A k \in Item : k # i => ~MidCall(k)
  PROVE  Sole' /\ KeepsCounted
<1>1. dir'[i] = d /\ \A k \in Item : k # i => dir'[k] = dir[k]
  BY DEF Move, TypeInv, QueueTypeOK
<1>2. FilesKept /\ PlacesKept
  BY <1>1 DEF FilesKept, PlacesKept, Sole, Whole, Readable, Counted
<1>3. KeepsCounted
  BY <1>2, CountedFrame DEF Sole, ClockOn
<1>4. ASSUME NEW k \in Item, k # i PROVE Rowed(k)'
  <2>1. StaysRowed(k)
    BY <1>1, <1>4 DEF StaysRowed, Status
  <2> QED
    BY <1>3, <2>1, RowedKept DEF KeepsCounted, Sole, ClockOn
<1> QED
  BY <1>3, <1>4, SolitaryKept DEF Sole

LEMMA SoleClaim ==
  ASSUME TypeInv, PlaceInv, Sole, Claim PROVE Sole' /\ KeepsCounted
<1>1. CASE (\E skip \in SUBSET Item : ClaimStart(skip)) \/ ClaimEmpty
  <2>1. /\ UNCHANGED <<dir, body, row, phase, clock, nextItem>>
        /\ op.pc \in {"idle", "claim"} /\ op'.pc \in {"idle", "claim"}
    <3>1. CASE \E skip \in SUBSET Item : ClaimStart(skip)
      <4>1. PICK skip \in SUBSET Item : ClaimStart(skip)
        BY <3>1
      <4>2. op'.pc = "claim" /\ op.pc = "idle"
        BY <4>1 DEF ClaimStart, Lockable, Idle
      <4> QED
        BY <4>1, <4>2 DEF ClaimStart, disk
    <3>2. CASE ClaimEmpty
      BY <3>2 DEF ClaimEmpty, Idle, disk
    <3> QED
      BY <1>1, <3>1, <3>2
  <2> QED
    BY <2>1, SoleQuiet DEF ClockOn
<1>2. ASSUME NEW i \in Item PROVE ~ClaimCorrupt(i)
  BY DEF ClaimCorrupt, First, PlaceInv, ScanPlace, ScanPcs, Listing, Sole, Whole
<1>3. ~ClaimPurgeCorrupt /\ ~ClaimPurgePayload
  BY DEF ClaimPurgeCorrupt, ClaimPurgePayload, Sole, CallStatus
<1>4. ASSUME NEW i \in Item, ClaimMove(i) PROVE Sole' /\ KeepsCounted
  <2>1. /\ op.pc = "claim" /\ op'.pc = "claim_status" /\ op'.item = i /\ Move(i, "processing")
        /\ UNCHANGED <<body, row, phase, clock, nextItem>>
    BY <1>4 DEF ClaimMove, Idle
  <2>2. dir[i] = "pending" /\ Counted(i) /\ phase = "ready"
    BY <1>4, <2>1 DEF ClaimMove, First, PlaceInv, ScanPlace, ScanPcs, CallPlace, WorkerCall, Listing,
                      Counted, Live
  <2>3. CallsKept /\ CallStatus' /\ MidCall(i)' /\ \A k \in Item : ~MidCall(k)
    BY <2>1 DEF CallsKept, CallStatus, MidCall, ClaimPcs
  <2>4. Young' = Young /\ Status(i)' = Status(i) /\ dir'[i] = "processing"
    BY <2>1 DEF Young, Status, Move, TypeInv, QueueTypeOK
  <2>5. Young => Status(i) \in {"pending", "processing"}
    BY <2>2, <2>3 DEF Sole, Rowed, StatusesOf
  <2>6. Rowed(i)'
    BY <2>1, <2>3, <2>4, <2>5 DEF Rowed
  <2> QED
    BY <2>1, <2>2, <2>3, <2>6, SoleMove
<1>5. CASE ClaimStatus \/ ClaimRecord
  <2>0. PICK i \in Item : i = op.item
    BY <1>5 DEF ClaimStatus, ClaimRecord, PlaceInv, CallPlace, ClaimPcs
  <2>1. /\ op.pc \in ClaimPcs /\ UNCHANGED <<dir, body, phase, clock, nextItem>>
        /\ op'.pc = "idle" \/ (op'.pc = "claim_update" /\ op'.item = i)
    BY <1>5, <2>0 DEF ClaimStatus, ClaimRecord, ClaimPcs, disk, Idle, TypeInv, QueueTypeOK, Op
  <2>2. dir[i] = "processing" /\ body[i].hash \in Hash
    BY <2>0, <2>1, ItemHash DEF PlaceInv, CallPlace
  <2>3. Counted(i)
    BY <2>2 DEF Counted, Live, Sole, Whole
  <2>4. /\ row'[body[i].hash].status = IF op'.pc = "idle" THEN "processing" ELSE "pending"
        /\ \A g \in Hash : g # body[i].hash => row'[g] = row[g]
    <3>1. CASE ClaimStatus
      BY <2>0, <2>2, <3>1, Updated DEF ClaimStatus, Idle
    <3>2. CASE ClaimRecord
      <4> DEFINE rec == [item |-> i, status |-> "pending", at |-> clock]
      <4>1. row' = [row EXCEPT ![body[i].hash] = rec] /\ op'.pc = "claim_update"
        BY <2>0, <3>2 DEF ClaimRecord, RecordNew, TypeInv, QueueTypeOK, Op
      <4>2. rec.status = "pending"
        OBVIOUS
      <4> HIDE DEF rec
      <4> QED
        BY <2>2, <4>1, <4>2, Written
    <3> QED
      BY <1>5, <3>1, <3>2
  <2>5. Rowed(i)'
    <3>1. CASE op'.pc = "idle"
      BY <2>1, <2>2, <2>4, <3>1 DEF Rowed, Status, StatusesOf
    <3>2. CASE op'.pc = "claim_update" /\ op'.item = i
      BY <2>1, <2>2, <2>4, <3>2 DEF Rowed, Status, MidCall, ClaimPcs
    <3> QED
      BY <2>1, <3>1, <3>2
  <2>6. CallsKept /\ CallStatus' /\ \A k \in Item : k # i => ~MidCall(k)
    BY <2>0, <2>1 DEF CallsKept, CallStatus, MidCall, ClaimPcs
  <2>7. op.pc # "reconcile" /\ op'.pc # "reconcile"
    BY <2>1 DEF ClaimPcs
  <2> QED
    BY <2>1, <2>2, <2>3, <2>4, <2>5, <2>6, <2>7, SoleWrite
<1>6. CASE ClaimUnrecorded
  <2>1. /\ op.pc = "claim_status" /\ op'.pc = "claim_record" /\ op'.item = op.item
        /\ UNCHANGED <<dir, body, row, phase, clock, nextItem>> /\ ~HasRow(body[op.item].hash)
    BY <1>6 DEF ClaimUnrecorded, disk, TypeInv, QueueTypeOK, Op
  <2>2. CallsKept /\ CallStatus'
    BY <2>1 DEF CallsKept, CallStatus, Status, HasRow
  <2>3. KeepsCounted
    BY <2>1, <2>2, NothingNew DEF Sole, ClockOn
  <2>4. \A k \in Item : MidCall(k) => MidCall(k)'
    BY <2>1 DEF MidCall, ClaimPcs
  <2> QED
    BY <2>1, <2>2, <2>3, <2>4, SoleFrame DEF ClockOn
<1>7. ~ClaimDuplicate
  BY DEF ClaimDuplicate, Sole, CallStatus, Status, HasRow
<1> QED
  BY <1>1, <1>2, <1>3, <1>4, <1>5, <1>6, <1>7 DEF Claim

(* What the worker holds, between two calls *)
LEMMA SoleHeld ==
  ASSUME TypeInv, Sole, NEW i \in Item, i = held, InProcessing
  PROVE  /\ op.pc = "idle" /\ phase = "ready" /\ dir[i] = "processing" /\ Counted(i)
         /\ Status(i) = "processing" /\ \A k \in Item : ~MidCall(k)
<1>1. /\ op.pc = "idle" /\ phase = "ready" /\ dir[i] = "processing" /\ Readable(i)
      /\ \A k \in Item : ~MidCall(k)
  BY DEF InProcessing, Lockable, Sole, Whole, MidCall
<1> QED
  BY <1>1 DEF Counted, Live, Rowed, Sole

LEMMA SoleFinish ==
  ASSUME TypeInv, PlaceInv, Sole,
         MarkSentStatus \/ MarkFailedStatus
  PROVE  Sole' /\ KeepsCounted
<1>0. PICK i \in Item : i = op.item
  BY HeldRange DEF MarkSentStatus, MarkFailedStatus, FinishStatus, PlaceInv, CallPlace
<1>1. /\ op.pc \in {"sent_status", "failed_status"} /\ op'.pc = "idle"
      /\ UNCHANGED <<dir, body, phase, clock, nextItem>>
      /\ Status(i) = "processing"
      /\ row' = IF HasRow(body[i].hash) THEN UpdateStatus(body[i].hash, dir[i]) ELSE row
  BY <1>0 DEF MarkSentStatus, MarkFailedStatus, FinishStatus, Idle, disk, PlaceInv, CallPlace,
     Sole, CallStatus
<1>2. dir[i] \in {"sent", "failed"} /\ body[i].hash \in Hash /\ Counted(i)
  BY <1>0, <1>1, ItemHash DEF PlaceInv, CallPlace, Counted
<1>3. /\ row'[body[i].hash].status = dir[i]
      /\ \A g \in Hash : g # body[i].hash => row'[g] = row[g]
  BY <1>1, <1>2, Updated DEF HasRow, Status
<1>4. Rowed(i)'
  BY <1>1, <1>2, <1>3 DEF Rowed, Status, StatusesOf
<1>5. CallsKept /\ CallStatus' /\ \A k \in Item : k # i => ~MidCall(k)
  BY <1>0, <1>1 DEF CallsKept, CallStatus, MidCall
<1> QED
  BY <1>1, <1>2, <1>3, <1>4, <1>5, SoleWrite

LEMMA SoleSettle ==
  ASSUME TypeInv, PlaceInv, Sole, Settle PROVE Sole' /\ KeepsCounted
<1>1. CASE MarkSent \/ MoveBackToPending
  <2>0. PICK i \in Item : i = held
    BY <1>1, HeldRange DEF MarkSent, MoveBackToPending, InProcessing
  <2>1. /\ op.pc = "idle" /\ phase = "ready" /\ dir[i] = "processing" /\ Counted(i)
        /\ Status(i) = "processing" /\ \A k \in Item : ~MidCall(k)
    BY <1>1, <2>0, SoleHeld DEF MarkSent, MoveBackToPending
  <2>2. UNCHANGED <<body, row, phase, clock, nextItem>>
    BY <1>1 DEF MarkSent, MoveBackToPending
  <2>3. Status(i)' = Status(i)
    BY <2>2 DEF Status
  <2>4. CASE MarkSent
    <3>1. Move(i, "sent") /\ op'.pc = "sent_status" /\ op'.item = i
      BY <2>0, <2>4 DEF MarkSent, Idle
    <3>2. dir'[i] = "sent" /\ MidCall(i)'
      BY <3>1 DEF Move, TypeInv, QueueTypeOK, MidCall
    <3>3. CallStatus' /\ CallsKept
      BY <2>1, <2>2, <3>1 DEF CallStatus, CallsKept, Status
    <3>4. Rowed(i)'
      BY <3>1, <3>2 DEF Rowed
    <3> QED
      BY <2>1, <2>2, <3>1, <3>3, <3>4, SoleMove
  <2>5. CASE MoveBackToPending
    <3>1. Move(i, "pending") /\ op'.pc = "idle"
      BY <2>0, <2>1, <2>5 DEF MoveBackToPending
    <3>2. dir'[i] = "pending"
      BY <3>1 DEF Move, TypeInv, QueueTypeOK
    <3>3. CallStatus' /\ CallsKept
      BY <3>1 DEF CallStatus, CallsKept
    <3>4. Rowed(i)'
      BY <2>1, <2>3, <3>1, <3>2 DEF Rowed, StatusesOf
    <3> QED
      BY <2>1, <2>2, <3>1, <3>3, <3>4, SoleMove
  <2> QED
    BY <1>1, <2>4, <2>5
<1>2. CASE UpdateAttempt \/ \E perm \in BOOLEAN : MarkFailed(perm)
  <2>0. PICK i \in Item : i = held
    BY <1>2, HeldRange DEF UpdateAttempt, MarkFailed, InProcessing
  <2>1. /\ op.pc = "idle" /\ dir[i] = "processing" /\ Counted(i) /\ \A k \in Item : ~MidCall(k)
    <3>1. InProcessing
      BY <1>2 DEF UpdateAttempt, MarkFailed
    <3> QED
      BY <2>0, <3>1, SoleHeld
  <2>2. UNCHANGED <<dir, row, phase, clock, nextItem>>
    <3>1. CASE UpdateAttempt
      BY <3>1 DEF UpdateAttempt
    <3>2. CASE \E perm \in BOOLEAN : MarkFailed(perm)
      BY <3>2 DEF MarkFailed
    <3> QED
      BY <1>2, <3>1, <3>2
  <2>3. op'.pc \in {"idle", "failed_move"}
    <3>1. ASSUME NEW perm, MarkFailed(perm) PROVE op'.pc = "failed_move"
      BY <3>1 DEF MarkFailed, Idle
    <3>2. CASE UpdateAttempt
      BY <2>1, <3>2 DEF UpdateAttempt
    <3> QED
      BY <1>2, <3>1, <3>2
  <2>4. /\ \A k \in Item : k # i => body'[k] = body[k]
        /\ body'[i].id = i /\ body'[i].hash = body[i].hash /\ body'[i].seen = body[i].seen
    <3>1. body \in [Item -> Body]
      BY DEF TypeInv, QueueTypeOK
    <3>2. CASE UpdateAttempt
      BY <2>0, <3>1, <3>2 DEF UpdateAttempt, Body
    <3>3. ASSUME NEW perm, MarkFailed(perm)
          PROVE  /\ \A k \in Item : k # i => body'[k] = body[k]
                 /\ body'[i].id = i /\ body'[i].hash = body[i].hash
                 /\ body'[i].seen = body[i].seen
      BY <2>0, <3>1, <3>3 DEF MarkFailed, Body
    <3> QED
      BY <1>2, <3>2, <3>3
  <2>5. FilesKept /\ PlacesKept /\ CallsKept /\ CallStatus'
    BY <2>1, <2>2, <2>3, <2>4
    DEF FilesKept, PlacesKept, CallsKept, CallStatus, Sole, Whole, Readable
  <2> QED
    BY <2>1, <2>2, <2>3, <2>4, <2>5, CountedFrame, SoleFrame DEF ClockOn, Sole
<1>3. CASE MarkFailedMove
  <2>0. PICK i \in Item : i = held /\ i = op.item
    BY <1>3, HeldRange DEF MarkFailedMove, PlaceInv, CallPlace
  <2>1. /\ op.pc = "failed_move" /\ op'.pc = "failed_status" /\ op'.item = i
        /\ Move(i, "failed") /\ UNCHANGED <<body, row, phase, clock, nextItem>>
    BY <1>3, <2>0 DEF MarkFailedMove, TypeInv, QueueTypeOK, Op
  <2>2. phase = "ready" /\ dir[i] = "processing" /\ \A k \in Item : ~MidCall(k)
    BY <2>0, <2>1 DEF PlaceInv, CallPlace, HeldPlace, WorkerCall, MidCall
  <2>3. Counted(i) /\ Status(i) = "processing"
    BY <2>2 DEF Sole, Whole, Counted, Live, Rowed
  <2>4. dir'[i] = "failed" /\ MidCall(i)'
    BY <2>1 DEF Move, TypeInv, QueueTypeOK, MidCall
  <2>5. CallStatus' /\ CallsKept
    BY <2>1, <2>3 DEF CallStatus, CallsKept, Status
  <2>6. Rowed(i)'
    BY <2>1, <2>4 DEF Rowed
  <2> QED
    BY <2>1, <2>2, <2>3, <2>5, <2>6, SoleMove
<1> QED
  BY <1>1, <1>2, <1>3, SoleFinish DEF Settle

LEMMA SolePurge ==
  ASSUME TypeInv, PlaceInv, AgeInv, Sole, CleanupPurge PROVE Sole' /\ KeepsCounted
<1>1. /\ op.pc = "unlink_unknown" /\ op'.pc = "idle" /\ row' = PurgeOlderThan(op.dest)
      /\ UNCHANGED <<dir, body, phase, clock, nextItem>>
  BY DEF CleanupPurge, disk, Idle
<1>2. CallsKept /\ CallStatus'
  BY <1>1 DEF CallsKept, CallStatus
<1>3. KeepsCounted
  BY <1>1, <1>2, NothingNew DEF Sole, ClockOn
<1>4. ASSUME NEW k \in Item PROVE Rowed(k)'
  <2>1. body[k].hash \in Hash /\ body[k].seen \in Nat /\ Rowed(k) /\ ~MidCall(k)
    BY <1>1, ItemHash DEF Sole, MidCall
  <2>2. Counted(k)' => Counted(k)
    BY <1>3 DEF KeepsCounted
  <2>3. CASE body[k].hash \notin Expired(op.dest)
    <3>1. StaysRowed(k)
      BY <1>1, <2>1, <2>3 DEF StaysRowed, Status, PurgeOlderThan
    <3> QED
      BY <1>1, <2>1, <2>2, <3>1, RowedKept DEF ClockOn
  <2>4. CASE body[k].hash \in Expired(op.dest)
    <3>1. /\ op.dest \in {"sent", "failed"} /\ Status(k) = op.dest
          /\ Older(row[body[k].hash].at, Days(op.dest))
      BY <1>1, <2>4 DEF Expired, Status, PlaceInv, ScanPlace
    <3>2. row[body[k].hash].at \in Nat /\ clock \in Nat /\ SentDays \in Nat /\ FailedDays \in Nat
      BY <2>1, BoundsAssumption DEF TypeInv, QueueTypeOK, Row
    <3>3. ~Young'
      BY <1>1, <3>1, <3>2 DEF Young, Older, Days
    <3>4. ~Young
      BY <1>1, <3>3 DEF Young
    <3>5. ASSUME Counted(k), dir[k] = "failed", Status(k) = "failed" PROVE FALSE
      <4>1. dir[k] # "none" /\ ~Older(body[k].seen, FailedDays)
        BY <1>1, <3>4, <3>5 DEF Counted, Live
      <4>2. body[k].seen <= row[body[k].hash].at
        BY <4>1, <3>1, <3>5, <2>1 DEF AgeInv, RowAges, HasRow, Status
      <4> QED
        BY <2>1, <3>1, <3>2, <3>5, <4>1, <4>2 DEF Older, Days
    <3> QED
      BY <1>1, <2>1, <2>2, <3>1, <3>3, <3>5 DEF Rowed
  <2> QED
    BY <2>3, <2>4
<1> QED
  BY <1>2, <1>3, <1>4, SolitaryKept DEF Sole

LEMMA SoleRequeue ==
  ASSUME TypeInv, PlaceInv, Sole,
         RequeueStart \/ RequeueStatus \/ \E i \in Item : RequeueSkip(i) \/ RequeueMove(i)
  PROVE  Sole' /\ KeepsCounted
<1>1. CASE RequeueStart
  <2>1. /\ op.pc = "idle" /\ op'.pc = "requeue" /\ phase \in {"ready", "stopping"}
        /\ op'.todo = {i \in Listing("failed") : ~Older(body[i].seen, FailedDays)}
        /\ UNCHANGED <<dir, body, row, phase, clock, nextItem>>
    BY <1>1 DEF RequeueStart, Lockable, Idle, disk
  <2>2. CallsKept /\ CallStatus'
    BY <2>1 DEF CallsKept, CallStatus, Counted, Live, Listing, Sole, Whole
  <2>3. \A k \in Item : ~MidCall(k)
    BY <2>1 DEF MidCall
  <2>4. KeepsCounted
    BY <2>1, <2>2, NothingNew DEF Sole, ClockOn
  <2> QED
    BY <2>1, <2>2, <2>3, <2>4, SoleFrame DEF ClockOn
<1>2. ASSUME NEW i \in Item, RequeueSkip(i) PROVE Sole' /\ KeepsCounted
  <2>1. /\ op.pc = "requeue" /\ op'.pc = "requeue" /\ op'.todo \subseteq op.todo
        /\ UNCHANGED <<dir, body, row, phase, clock, nextItem>>
    BY <1>2 DEF RequeueSkip, disk, TypeInv, QueueTypeOK, Op
  <2>2. CallsKept /\ CallStatus'
    BY <2>1 DEF CallsKept, CallStatus, Counted, Sole
  <2>3. \A k \in Item : ~MidCall(k)
    BY <2>1 DEF MidCall
  <2>4. KeepsCounted
    BY <2>1, <2>2, NothingNew DEF Sole, ClockOn
  <2> QED
    BY <2>1, <2>2, <2>3, <2>4, SoleFrame DEF ClockOn
<1>3. ASSUME NEW i \in Item, RequeueMove(i) PROVE Sole' /\ KeepsCounted
  <2>1. /\ op.pc = "requeue" /\ op'.pc = "requeue_status" /\ op'.item = i
        /\ op'.todo \subseteq op.todo /\ i \in op.todo /\ Retryable(i)
        /\ Move(i, "pending") /\ UNCHANGED <<body, row, phase, clock, nextItem>>
    <3>1. op \in Op
      BY DEF TypeInv, QueueTypeOK
    <3>2. /\ op.pc = "requeue" /\ i \in op.todo /\ Retryable(i)
          /\ op' = [op EXCEPT !.pc = "requeue_status", !.item = i, !.todo = @ \ {i}]
          /\ Move(i, "pending") /\ UNCHANGED <<body, row, phase, clock, nextItem>>
      BY <1>3 DEF RequeueMove, First
    <3>3. op'.pc = "requeue_status" /\ op'.item = i /\ op'.todo = op.todo \ {i}
      BY <3>1, <3>2 DEF Op
    <3> QED
      BY <3>2, <3>3
  <2>2. /\ dir[i] = "failed" /\ Counted(i) /\ phase \in {"ready", "stopping"}
        /\ \A k \in Item : ~MidCall(k)
    BY <2>1 DEF PlaceInv, ScanPlace, Listing, Retryable, Counted, Sole, CallStatus, MidCall
  <2>3. Status(i) = "failed"
    BY <2>2 DEF Sole, Rowed
  <2>4. dir'[i] = "pending" /\ MidCall(i)'
    BY <2>1 DEF Move, TypeInv, QueueTypeOK, MidCall
  <2>5. CallStatus'
    BY <2>1, <2>2, <2>3, <2>4 DEF CallStatus, Status
  <2>6. CallsKept
    BY <2>1, <2>2 DEF CallsKept, PlaceInv, ScanPlace, Listing, Counted
  <2>7. Rowed(i)'
    BY <2>1, <2>4 DEF Rowed
  <2> QED
    BY <2>1, <2>2, <2>5, <2>6, <2>7, SoleMove
<1>4. CASE RequeueStatus
  <2>0. PICK i \in Item : i = op.item
    BY <1>4 DEF RequeueStatus, Sole, CallStatus
  <2>1. /\ op.pc = "requeue_status" /\ dir[i] = "pending" /\ Status(i) = "failed"
        /\ phase \in {"ready", "stopping"} /\ body[i].hash \in Hash
    BY <1>4, <2>0, ItemHash DEF RequeueStatus, Sole, CallStatus
  <2>2. /\ op'.pc = "requeue" /\ op'.todo = op.todo
        /\ row' = UpdateStatus(body[i].hash, "pending")
        /\ UNCHANGED <<dir, body, phase, clock, nextItem>>
    BY <1>4, <2>0, <2>1 DEF RequeueStatus, HasRow, Status, disk, TypeInv, QueueTypeOK, Op
  <2>3. Counted(i) /\ \A k \in Item : k # i => ~MidCall(k)
    BY <2>0, <2>1 DEF Counted, Live, Sole, Whole, MidCall
  <2>4. /\ row'[body[i].hash].status = "pending"
        /\ \A g \in Hash : g # body[i].hash => row'[g] = row[g]
    BY <2>1, <2>2, Updated
  <2>5. Rowed(i)'
    BY <2>1, <2>2, <2>4 DEF Rowed, Status, StatusesOf
  <2>6. CallsKept /\ CallStatus'
    BY <2>1, <2>2 DEF CallsKept, CallStatus, Counted
  <2> QED
    BY <2>1, <2>2, <2>3, <2>4, <2>5, <2>6, SoleWrite
<1> QED
  BY <1>1, <1>2, <1>3, <1>4

LEMMA SoleCleanup ==
  ASSUME TypeInv, PlaceInv, AgeInv, Sole, Cleanup PROVE Sole' /\ KeepsCounted
<1>1. CASE \/ RequeueDone \/ CleanupUnknown \/ \E d \in {"sent", "failed"} : CleanupStart(d)
  <2>1. UNCHANGED <<dir, body, row, phase, clock, nextItem>>
    BY <1>1 DEF RequeueDone, CleanupUnknown, CleanupStart, disk
  <2>2. /\ op.pc \in {"idle", "requeue", "unlink_known"}
        /\ op'.pc \in {"idle", "unlink_known", "unlink_unknown"}
    <3>1. CASE RequeueDone
      BY <3>1 DEF RequeueDone, Idle
    <3>2. CASE CleanupUnknown
      BY <3>2 DEF CleanupUnknown, TypeInv, QueueTypeOK, Op
    <3>3. ASSUME NEW d, CleanupStart(d) PROVE op.pc = "idle" /\ op'.pc = "unlink_known"
      BY <3>3 DEF CleanupStart, Lockable, Idle
    <3> QED
      BY <1>1, <3>1, <3>2, <3>3
  <2> QED
    BY <2>1, <2>2, SoleQuiet DEF ClockOn
<1>2. ASSUME NEW i \in Item, CleanupUnlink(i) PROVE Sole' /\ KeepsCounted
  <2>1. /\ op.pc \in {"unlink_known", "unlink_unknown"} /\ op'.pc = op.pc
        /\ Unlink(i) /\ UNCHANGED <<row, phase, clock, nextItem>>
    BY <1>2 DEF CleanupUnlink, TypeInv, QueueTypeOK, Op
  <2>2. CallsKept /\ CallStatus' /\ \A k \in Item : k # i => ~MidCall(k)
    BY <2>1 DEF CallsKept, CallStatus, MidCall
  <2> QED
    BY <2>1, <2>2, SoleUnlink DEF ClockOn
<1> QED
  BY <1>1, <1>2, SolePurge, SoleRequeue DEF Cleanup

(* An item that claim_next finds without a row: a retention period has passed, so
   under the hypothesis of these theorems nothing is imported. *)
LEMMA SoleImport ==
  ASSUME TypeInv, PlaceInv, Sole, Clean', NEW h \in Hash, ImportRow(h)
  PROVE  Sole' /\ KeepsCounted
<1>1. /\ ~HasRow(h) /\ UNCHANGED <<dir, body, phase, clock, nextItem, op>>
      /\ \A g \in Hash : g # h => row'[g] = row[g]
  BY DEF ImportRow, disk, TypeInv, QueueTypeOK
<1>2. CallsKept
  BY <1>1 DEF CallsKept, Counted
<1>3. KeepsCounted
  BY <1>1, <1>2, NothingNew DEF Sole, ClockOn
<1>4. ASSUME NEW k \in Item, Status(k) # "none" PROVE Status(k)' = Status(k)
  BY <1>1, <1>4, ItemHash DEF Status, HasRow
<1>0. op.pc # "claim_record"
  <2>1. spent'.import # 0
    BY DEF ImportRow, TypeInv, QueueTypeOK
  <2>2. Young
    BY <1>1, <2>1 DEF Clean, NoLateImport, Young
  <2>3. op.pc = "claim_record" =>
          /\ op.item \in Item /\ dir[op.item] = "processing" /\ Status(op.item) = "none"
    BY DEF PlaceInv, CallPlace, ClaimPcs, Sole, CallStatus
  <2> QED
    BY <2>2, <2>3 DEF Sole, Rowed
<1>5. CallStatus'
  <2>1. op.pc \in {"sent_status", "failed_status"} => op.item \in Item
    BY HeldRange DEF PlaceInv, CallPlace
  <2>2. op.pc \in {"sent_status", "failed_status", "requeue_status"} =>
          op.item \in Item /\ Status(op.item) # "none"
    BY <2>1 DEF Sole, CallStatus
  <2>3. op.pc \in {"sent_status", "failed_status", "requeue_status"} =>
          row'[body[op.item].hash] = row[body[op.item].hash]
    BY <1>1, <2>2, ItemHash DEF Status, HasRow
  <2> QED
    BY <1>0, <1>1, <2>3 DEF CallStatus, Sole, Status
<1>6. ASSUME NEW k \in Item PROVE Rowed(k)'
  <2>1. /\ Rowed(k) /\ (Counted(k)' => Counted(k)) /\ Young' = Young /\ MidCall(k)' = MidCall(k)
    BY <1>1, <1>3 DEF Sole, KeepsCounted, Young, MidCall
  <2>2. CASE Status(k) # "none"
    <3>1. StaysRowed(k)
      BY <1>1, <1>4, <2>1, <2>2 DEF StaysRowed
    <3> QED
      BY <1>1, <2>1, <3>1, RowedKept DEF ClockOn
  <2>3. CASE Status(k) = "none"
    <3>1. dir[k] # "none" => Status(k) \notin StatusesOf(dir[k])
      BY <2>3 DEF StatusesOf
    <3>2. phase # "closed" /\ ~MidCall(k) =>
            /\ ~(dir[k] = "processing" /\ phase # "opened")
            /\ ~(dir[k] = "failed" /\ Counted(k))
            /\ ~(dir[k] # "none" /\ Young)
      BY <2>1, <2>3, <3>1 DEF Rowed
    <3>3. ~(dir[k] = "processing" /\ Young)
      BY <2>1, <2>3 DEF Rowed
    <3>4. op.pc = "reconcile" /\ dir[k] \in {"pending", "sent", "failed"} /\ k \notin op.todo =>
            ~Young /\ dir[k] # "failed"
      BY <2>1, <2>3 DEF Rowed
    <3> QED
      BY <1>1, <2>1, <3>2, <3>3, <3>4 DEF Rowed
  <2> QED
    BY <2>2, <2>3
<1> QED
  BY <1>3, <1>5, <1>6, SolitaryKept DEF Sole

LEMMA SoleEnvironment ==
  ASSUME TypeInv, PlaceInv, Sole, Clean', Environment PROVE Sole' /\ KeepsCounted
<1>1. CASE Tick
  BY <1>1, SoleQuiet DEF Tick, disk, ClockOn
<1>2. CASE Crash
  <2>1. UNCHANGED <<dir, body, row, clock, nextItem>> /\ phase' = "closed" /\ op'.pc = "idle"
    BY <1>2 DEF Crash, Idle, disk
  <2> QED
    BY <2>1, SoleQuiet DEF ClockOn
<1>3. ~Fault /\ \A i, id : ~DamageFile(i, id)
  BY DEF Fault, DamageFile, Clean, TypeInv, QueueTypeOK
<1>4. ASSUME NEW i \in Item PROVE ~HealFile(i)
  BY DEF HealFile, Sole, Whole
<1>5. ASSUME NEW i \in Item, RetryTimeComes(i) PROVE Sole' /\ KeepsCounted
  <2>1. /\ UNCHANGED <<dir, row, phase, op, clock, nextItem>>
        /\ \A k \in Item : /\ body'[k].id = body[k].id /\ body'[k].hash = body[k].hash
                           /\ body'[k].seen = body[k].seen /\ body'[k].perm = body[k].perm
    BY <1>5 DEF RetryTimeComes, TypeInv, QueueTypeOK, Body
  <2>2. FilesKept /\ PlacesKept
    BY <2>1 DEF FilesKept, PlacesKept, Sole, Whole, Readable
  <2>3. CallsKept
    BY <2>1 DEF CallsKept, Counted
  <2>4. CallStatus'
    <3>1. op.pc \in {"claim_record", "sent_status", "failed_status", "requeue_status"} =>
            op.item \in Item
      BY HeldRange DEF PlaceInv, CallPlace, ClaimPcs, Sole, CallStatus
    <3> QED
      BY <2>1, <3>1 DEF CallStatus, Sole, Status
  <2>5. \A k \in Item : MidCall(k) => MidCall(k)'
    BY <2>1 DEF MidCall
  <2> QED
    BY <2>1, <2>2, <2>3, <2>4, <2>5, CountedFrame, SoleFrame DEF ClockOn, Sole
<1> QED
  BY <1>1, <1>2, <1>3, <1>4, <1>5, SoleImport DEF Environment

LEMMA SoleInit == QueueInit => Sole
BY DEF QueueInit, Sole, Solitary, Whole, Rowed, CallStatus, Counted, Idle

(* Errors and damage are counted for good. *)
LEMMA SpentGrows ==
  ASSUME [QueueNext]_queueVars
  PROVE  \/ spent' = spent
         \/ \E f \in {"crash", "fault", "damage", "import"} :
              spent' = [spent EXCEPT ![f] = @ + 1]
<1>1. CASE Start
  BY <1>1 DEF Start, InitializeStart, ReconcileItem, InitializeDone, RecoverStart,
    RecoverItem, RecoverDone, StopWorker, CancelWorkerCall, Close
<1>2. CASE Enqueue
  BY <1>2 DEF Enqueue, EnqueueDuplicate, EnqueuePendingDuplicate, EnqueueWrite,
    EnqueueRecord, EnqueueUndo
<1>3. CASE Claim
  BY <1>3 DEF Claim, ClaimStart, ClaimCorrupt, ClaimMove, ClaimEmpty, ClaimPurgeCorrupt,
    ClaimPurgePayload, ClaimStatus, ClaimUnrecorded, ClaimRecord, ClaimDuplicate
<1>4. CASE Settle
  <2>1. CASE \E perm \in BOOLEAN : MarkFailed(perm)
    BY <2>1 DEF MarkFailed
  <2> QED
    BY <1>4, <2>1 DEF Settle, MarkSent, MarkSentStatus, MarkFailedMove,
      MarkFailedStatus, FinishStatus, UpdateAttempt, MoveBackToPending
<1>5. CASE Cleanup
  <2>1. CASE \E d \in {"sent", "failed"} : CleanupStart(d)
    BY <2>1 DEF CleanupStart
  <2>2. CASE \E i \in Item : RequeueSkip(i) \/ RequeueMove(i) \/ CleanupUnlink(i)
    BY <2>2 DEF RequeueSkip, RequeueMove, CleanupUnlink
  <2> QED
    BY <1>5, <2>1, <2>2 DEF Cleanup, RequeueStart, RequeueStatus, RequeueDone,
      CleanupUnknown, CleanupPurge
<1>6. CASE Environment
  BY <1>6 DEF Environment, Tick, Fault, Crash, RetryTimeComes, HealFile, DamageFile,
    ImportRow
<1>7. CASE UNCHANGED queueVars
  BY <1>7 DEF queueVars
<1> QED
  BY <1>1, <1>2, <1>3, <1>4, <1>5, <1>6, <1>7 DEF QueueNext

LEMMA CleanBefore ==
  ASSUME TypeInv, AckInv, PlaceInv, [QueueNext]_queueVars, Clean' PROVE Clean
<1>1. spent.fault = 0 /\ spent.damage = 0
  BY SpentGrows DEF Clean, TypeInv, QueueTypeOK
<1>2. spent'.import = 0 => spent.import = 0
  BY SpentGrows DEF TypeInv, QueueTypeOK
<1>3. Young' => Young
  BY StepsAge, YoungKept
<1> QED
  BY <1>1, <1>2, <1>3 DEF Clean, NoLateImport

LEMMA SoleNext ==
  ASSUME TypeInv, AckInv, PlaceInv, AgeInv, SoleInv, [QueueNext]_queueVars, Clean'
  PROVE  Sole' /\ (KeepsCounted \/ \E h \in Hash : EnqueueWrite(h))
<1>1. Sole /\ spent.fault = 0
  BY CleanBefore DEF SoleInv, Clean
<1>2. CASE UNCHANGED queueVars
  BY <1>1, <1>2, SoleQuiet DEF queueVars, disk, ClockOn
<1>3. CASE Start
  <2>1. ~CancelWorkerCall
    BY DEF CancelWorkerCall, Clean, TypeInv, QueueTypeOK
  <2> QED
    BY <1>1, <1>3, <2>1, SoleInitialize, SoleReconcile, SoleRecover DEF Start
<1> QED
  BY <1>1, <1>2, <1>3, SoleEnqueue, SoleClaim, SoleSettle, SoleCleanup, SoleEnvironment
  DEF QueueNext

LEMMA SoleStep ==
  ASSUME TypeInv, AckInv, PlaceInv, AgeInv, SoleInv, [QueueNext]_queueVars PROVE SoleInv'
BY SoleNext DEF SoleInv

(* Between calls of a started queue that have not failed, been cancelled or met a
   damaged file, the table agrees with the directories, as long as nothing is
   imported after the first retention period has passed. *)
THEOREM TableAgrees == QueueSpec => []StatusAgreement
<1>1. SoleInv => StatusAgreement
  BY DEF SoleInv, Clean, Sole, Rowed, MidCall, ClaimPcs, Status, StatusAgreement
<1>2. QueueInit => SoleInv
  BY SoleInit DEF SoleInv
<1> QED
  BY <1>1, <1>2, TypeInit, TypeStep, AckInit, AckStep, PlaceInit, PlaceStep, AgeInit, AgeStep,
     SoleStep, PTL DEF QueueSpec
-----------------------------------------------------------------------------
(* One error, as long as no retention period has passed: no row is ever removed
   then, so an item without a row is one whose enqueue was interrupted before
   record_new, and it takes a crash or an error to interrupt it.  Such an item
   is in pending/, where enqueue looks as well, until the worker claims it; that
   it is in processing/ with no row takes the one error that there is. *)
Mild == spent.damage = 0 /\ spent.fault <= 1 /\ Young
Rowless(i) == dir[i] # "none" /\ ~HasRow(body[i].hash)
Alone ==
  \A i, j \in Item :
    dir[i] # "none" /\ dir[j] # "none" /\ i # j => body[i].hash # body[j].hash

(* Where the items without a row are *)
Unrecorded ==
  \A i \in Item : Rowless(i) =>
    \/ /\ dir[i] = "pending"
       /\ \/ spent.fault = 1 \/ phase = "closed"
          \/ op.pc = "record" /\ op.item = i
    \/ /\ dir[i] = "processing" /\ spent.fault = 1
       /\ \/ phase \in {"closed", "opened"}
          \/ op.pc \in {"claim_status", "claim_record"} /\ op.item = i

(* The scans of initialize and recover_processing overlook none. *)
ScansAll ==
  /\ op.pc = "reconcile" => \A i \in Item : Rowless(i) /\ dir[i] = "pending" => i \in op.todo
  /\ op.pc = "recover" => Listing("processing") \subseteq op.todo

Twinless ==
  /\ Whole /\ Alone /\ Unrecorded /\ ScansAll
  /\ op.pc \notin {"purge_corrupt", "purge_payload"}
TwinInv == Mild => Twinless

(* What a step other than the first of enqueue makes of files and rows *)
FilesStay ==
  \A i \in Item : dir'[i] # "none" =>
    dir[i] # "none" /\ body'[i].hash = body[i].hash /\ Readable(i)'
RowsStay == \A h \in Hash : HasRow(h) => HasRow(h)'

LEMMA StaysTwinless ==
  ASSUME TypeInv, Twinless, FilesStay, RowsStay
  PROVE  Whole' /\ Alone' /\ \A i \in Item : Rowless(i)' => Rowless(i)
<1>1. \A i \in Item : body[i].hash \in Hash
  BY ItemHash
<1> QED
  BY <1>1 DEF Twinless, Whole, Alone, FilesStay, RowsStay, Rowless

LEMMA RowsStayOf ==
  ASSUME TypeInv, Young
  PROVE  /\ row' = row => RowsStay
         /\ \A h \in Hash, s \in Dirs \ {"none"} : row' = UpdateStatus(h, s) => RowsStay
         /\ \A s : row' = PurgeOlderThan(s) => RowsStay
<1>1. row \in [Hash -> Row] /\ clock \in Nat /\ SentDays \in Nat /\ FailedDays \in Nat
  BY BoundsAssumption DEF TypeInv, QueueTypeOK
<1>2. ASSUME NEW s, row' = PurgeOlderThan(s) PROVE RowsStay
  <2>1. \A h \in Hash : row[h].at \in Nat
    BY <1>1 DEF Row
  <2>2. Days(s) \in Nat /\ clock <= Days(s)
    BY <1>1 DEF Days, Young
  <2>3. Expired(s) = {}
    BY <1>1, <2>1, <2>2 DEF Expired, Older
  <2> QED
    BY <1>2, <2>3 DEF PurgeOlderThan, RowsStay, HasRow
<1>3. ASSUME NEW h \in Hash, NEW s \in Dirs \ {"none"}, row' = UpdateStatus(h, s) PROVE RowsStay
  BY <1>3, Updated DEF RowsStay, HasRow
<1> QED
  BY <1>2, <1>3 DEF RowsStay, HasRow

LEMMA RowInserted ==
  ASSUME TypeInv, NEW h \in Hash, NEW i, NEW s, NEW t, s # "none",
         row' = [row EXCEPT ![h] = [item |-> i, status |-> s, at |-> t]]
  PROVE  RowsStay /\ row'[h].status # "none"
<1> DEFINE r == [item |-> i, status |-> s, at |-> t]
<1>1. row'[h] = r /\ \A g \in Hash : g # h => row'[g] = row[g]
  BY Written
<1> QED
  BY <1>1 DEF RowsStay, HasRow

LEMMA FilesStayOf ==
  ASSUME TypeInv, Twinless
  PROVE  /\ UNCHANGED <<dir, body>> => FilesStay
         /\ \A i, d : body' = body /\ dir[i] # "none" /\ Move(i, d) => FilesStay
         /\ \A i : Unlink(i) => FilesStay
BY DEF FilesStay, Move, Unlink, Twinless, Whole, Readable, TypeInv, QueueTypeOK

LEMMA TwinStart ==
  ASSUME TypeInv, PlaceInv, Twinless, Mild, Mild', Start PROVE Twinless'
<1> USE DEF disk, history, Idle
<1>1. CASE ReconcileItem
  <2>1. PICK i \in op.todo :
          /\ op' = [op EXCEPT !.todo = @ \ {i}]
          /\ row' = IF Readable(i) THEN ReconcileStatus(body[i].hash, i, dir[i]) ELSE row
    BY <1>1 DEF ReconcileItem
  <2>2. /\ op.pc = "reconcile" /\ i \in Item /\ UNCHANGED <<dir, body, phase, spent>>
        /\ dir[i] \in {"pending", "sent", "failed"} /\ phase = "closed"
    BY <1>1 DEF ReconcileItem, TypeInv, QueueTypeOK, Op, PlaceInv, ScanPlace, CallPlace
  <2>3. row' = ReconcileStatus(body[i].hash, i, dir[i]) /\ body[i].hash \in Hash
    BY <2>1, <2>2, ItemHash DEF Twinless, Whole
  <2>4. RowsStay /\ HasRow(body[i].hash)'
    <3>1. CASE row' = row /\ HasRow(body[i].hash)
      BY <2>2, <3>1, RowsStayOf DEF Mild, HasRow
    <3>2. CASE row' = UpdateStatus(body[i].hash, dir[i])
      BY <2>2, <2>3, <3>2, RowsStayOf, Updated DEF Mild, HasRow, Dirs
    <3>3. CASE row' = [row EXCEPT ![body[i].hash] = [item |-> i, status |-> dir[i], at |-> clock]]
      <4>1. PICK h \in Hash, s \in Dirs : h = body[i].hash /\ s = dir[i] /\ s # "none"
        BY <2>2, <2>3 DEF TypeInv, QueueTypeOK
      <4>2. RowsStay /\ row'[h].status # "none"
        BY <3>3, <4>1, RowInserted
      <4> QED
        BY <2>2, <4>1, <4>2 DEF HasRow
    <3> QED
      BY <2>3, <3>1, <3>2, <3>3 DEF ReconcileStatus
  <2>5. op'.pc = "reconcile" /\ op'.todo = op.todo \ {i}
    BY <2>1, <2>2 DEF TypeInv, QueueTypeOK, Op
  <2>6. \A k \in Item : Rowless(k)' => Rowless(k) /\ k # i
    BY <2>2, <2>4, FilesStayOf, StaysTwinless DEF Rowless
  <2> QED
    BY <2>2, <2>4, <2>5, <2>6, FilesStayOf, StaysTwinless DEF Twinless, Unrecorded, ScansAll
<1>2. ASSUME NEW i \in Item, RecoverItem(i) PROVE Twinless'
  <2>1. /\ op.pc = "recover" /\ op'.pc = "recover" /\ op'.todo = op.todo \ {i} /\ phase = "opened"
        /\ dir[i] = "processing" /\ Move(i, "pending")
        /\ UNCHANGED <<body, row, phase, spent>>
    BY <1>2 DEF RecoverItem, First, PlaceInv, CallPlace, ScanPlace, Listing,
                TypeInv, QueueTypeOK, Op
  <2>2. dir'[i] = "pending" /\ \A k \in Item : k # i => dir'[k] = dir[k]
    BY <2>1 DEF Move, TypeInv, QueueTypeOK
  <2>3. FilesStay /\ RowsStay
    BY <2>1, FilesStayOf, RowsStayOf DEF Mild
  <2> QED
    BY <2>1, <2>2, <2>3, StaysTwinless DEF Twinless, Unrecorded, ScansAll, Listing
<1>3. CASE /\ InitializeStart \/ InitializeDone \/ RecoverStart \/ RecoverDone
              \/ StopWorker \/ CancelWorkerCall \/ Close
  <2>1. UNCHANGED <<dir, body, row>>
    BY <1>3 DEF InitializeStart, InitializeDone, RecoverStart, RecoverDone, StopWorker,
      CancelWorkerCall, Close
  <2>2. Whole' /\ Alone' /\ \A i \in Item : Rowless(i)' => Rowless(i)
    BY <2>1, FilesStayOf, RowsStayOf, StaysTwinless DEF Mild
  <2>3. CASE InitializeStart
    BY <2>1, <2>2, <2>3 DEF InitializeStart, Twinless, Unrecorded, ScansAll, ReconcileRank
  <2>4. CASE InitializeDone
    BY <2>1, <2>2, <2>4 DEF InitializeDone, Twinless, Unrecorded, ScansAll
  <2>5. CASE RecoverStart
    BY <2>1, <2>2, <2>5 DEF RecoverStart, Twinless, Unrecorded, ScansAll, Listing
  <2>6. CASE RecoverDone
    BY <2>1, <2>2, <2>6
    DEF RecoverDone, Twinless, Unrecorded, ScansAll, Listing, PlaceInv, CallPlace
  <2>7. CASE StopWorker
    BY <2>1, <2>2, <2>7 DEF StopWorker, Twinless, Unrecorded, ScansAll, WorkerCall, PlaceInv, CallPlace
  <2>8. CASE CancelWorkerCall
    <3>1. spent.fault = 0 /\ spent'.fault = 1
      BY <2>8 DEF CancelWorkerCall, Mild, TypeInv, QueueTypeOK
    <3> QED
      BY <2>1, <2>2, <2>8, <3>1 DEF CancelWorkerCall, Twinless, Unrecorded, ScansAll
  <2>9. CASE Close
    BY <2>1, <2>2, <2>9 DEF Close, Twinless, Unrecorded, ScansAll
  <2> QED
    BY <1>3, <2>3, <2>4, <2>5, <2>6, <2>7, <2>8, <2>9
<1> QED
  BY <1>1, <1>2, <1>3 DEF Start

LEMMA TwinEnqueue ==
  ASSUME TypeInv, PlaceInv, Twinless, Mild, Mild', Enqueue PROVE Twinless'
<1> USE DEF disk, Idle
<1>1. ASSUME NEW h \in Hash, EnqueueDuplicate(h) PROVE Twinless'
  <2>1. UNCHANGED <<dir, body, row, phase, op, spent>>
    BY <1>1 DEF EnqueueDuplicate
  <2> QED
    BY <2>1 DEF Twinless, Whole, Alone, Unrecorded, ScansAll, Rowless, HasRow, Readable, Listing
<1>2. ASSUME NEW h \in Hash, EnqueuePendingDuplicate(h) PROVE Twinless'
  <2>1. PICK i : row' = RecordNew(h, i)
    BY <1>2 DEF EnqueuePendingDuplicate
  <2>2. FilesStay /\ RowsStay
    BY <1>2, <2>1, FilesStayOf, RowInserted DEF EnqueuePendingDuplicate, RecordNew
  <2> QED
    BY <1>2, <2>2, StaysTwinless
    DEF EnqueuePendingDuplicate, Twinless, Unrecorded, ScansAll, Listing
<1>3. ASSUME NEW h \in Hash, EnqueueWrite(h) PROVE Twinless'
  <2>0. PICK i \in Item : i = nextItem
    BY <1>3 DEF EnqueueWrite
  <2>1. /\ op.pc = "idle" /\ op'.pc = "record" /\ op'.item = i
        /\ phase \in {"ready", "stopping"} /\ UNCHANGED <<row, phase, spent>>
        /\ ~HasRow(h) /\ PendingDuplicates(h) = {}
    BY <1>3, <2>0 DEF EnqueueWrite, Accepting
  <2>2. /\ dir'[i] = "pending" /\ body'[i].hash = h /\ body'[i].id = i
        /\ \A k \in Item : k # i => dir'[k] = dir[k] /\ body'[k] = body[k]
    BY <1>3, <2>0 DEF EnqueueWrite, Move, TypeInv, QueueTypeOK
  <2>3. ASSUME NEW k \in Item, k # i, dir[k] # "none" PROVE body[k].hash # h
    <3>1. SUFFICES ASSUME Rowless(k) PROVE body[k].hash # h
      BY <2>1, <2>3 DEF Rowless
    <3>2. dir[k] = "pending"
      BY <2>1, <3>1 DEF Twinless, Unrecorded
    <3> QED
      BY <2>1, <3>2 DEF PendingDuplicates, Listing, Twinless, Whole
  <2>4. Alone' /\ Whole'
    BY <2>2, <2>3 DEF Twinless, Alone, Whole, Readable
  <2>5. \A k \in Item : Rowless(k)' /\ k # i => Rowless(k)
    BY <2>1, <2>2 DEF Rowless, HasRow
  <2> QED
    BY <2>1, <2>2, <2>4, <2>5 DEF Twinless, Unrecorded, ScansAll
<1>4. CASE EnqueueRecord
  <2>1. PICK i \in Item : i = op.item /\ row' = RecordNew(body[i].hash, i)
    BY <1>4 DEF EnqueueRecord, TypeInv, OpInOrder
  <2>2. /\ op.pc = "record" /\ op'.pc = "idle" /\ UNCHANGED <<dir, body, phase, spent>>
        /\ body[i].hash \in Hash
    BY <1>4, ItemHash DEF EnqueueRecord
  <2>3. RowsStay /\ HasRow(body[i].hash)'
    BY <2>1, <2>2, RowInserted DEF RecordNew, HasRow
  <2>4. \A k \in Item : Rowless(k)' => k # i
    BY <2>2, <2>3 DEF Rowless, HasRow
  <2> QED
    BY <2>1, <2>2, <2>3, <2>4, FilesStayOf, StaysTwinless DEF Twinless, Unrecorded, ScansAll
<1>5. CASE EnqueueUndo
  <2>1. PICK i \in Item : i = op.item
    BY <1>5 DEF EnqueueUndo, TypeInv, OpInOrder
  <2>2. /\ op.pc = "record" /\ op'.pc = "idle" /\ UNCHANGED <<row, phase, spent>>
        /\ HasRow(body[i].hash) /\ (Unlink(i) \/ UNCHANGED <<dir, body>>)
    BY <1>5, <2>1 DEF EnqueueUndo
  <2>3. FilesStay /\ RowsStay
    BY <2>2, FilesStayOf, RowsStayOf DEF Mild
  <2>4. \A k \in Item : Rowless(k)' => k # i /\ dir'[k] = dir[k]
    BY <1>5, <2>1, <2>2 DEF EnqueueUndo, Rowless, HasRow, Unlink, Move, TypeInv, QueueTypeOK
  <2> QED
    BY <2>1, <2>2, <2>3, <2>4, StaysTwinless DEF Twinless, Unrecorded, ScansAll
<1> QED
  BY <1>1, <1>2, <1>3, <1>4, <1>5 DEF Enqueue

LEMMA TwinClaim ==
  ASSUME TypeInv, PlaceInv, Twinless, Mild, Mild', Claim PROVE Twinless'
<1> USE DEF disk, Idle
<1>1. CASE (\E skip \in SUBSET Item : ClaimStart(skip)) \/ ClaimEmpty
  <2>1. /\ UNCHANGED <<dir, body, row, phase, spent>>
        /\ op.pc \in {"idle", "claim"} /\ op'.pc \in {"idle", "claim"}
    <3>1. CASE \E skip \in SUBSET Item : ClaimStart(skip)
      <4>1. PICK skip \in SUBSET Item : ClaimStart(skip)
        BY <3>1
      <4>2. op'.pc = "claim" /\ op.pc = "idle"
        BY <4>1 DEF ClaimStart, Lockable
      <4> QED
        BY <4>1, <4>2 DEF ClaimStart
    <3>2. CASE ClaimEmpty
      BY <3>2 DEF ClaimEmpty
    <3> QED
      BY <1>1, <3>1, <3>2
  <2> QED
    BY <2>1, FilesStayOf, RowsStayOf, StaysTwinless
    DEF Twinless, Unrecorded, ScansAll, Rowless, Mild
<1>2. ASSUME NEW i \in Item PROVE ~ClaimCorrupt(i)
  BY DEF ClaimCorrupt, First, PlaceInv, ScanPlace, ScanPcs, Listing, Twinless, Whole
<1>3. ~ClaimPurgeCorrupt /\ ~ClaimPurgePayload
  BY DEF ClaimPurgeCorrupt, ClaimPurgePayload, Twinless
<1>4. ASSUME NEW i \in Item, ClaimMove(i) PROVE Twinless'
  <2>1. /\ op.pc = "claim" /\ op'.pc = "claim_status" /\ op'.item = i /\ Move(i, "processing")
        /\ dir[i] = "pending" /\ phase = "ready" /\ UNCHANGED <<body, row, phase, spent>>
    BY <1>4 DEF ClaimMove, First, PlaceInv, ScanPlace, ScanPcs, CallPlace, WorkerCall, Listing
  <2>2. dir'[i] = "processing" /\ \A k \in Item : k # i => dir'[k] = dir[k]
    BY <2>1 DEF Move, TypeInv, QueueTypeOK
  <2>3. FilesStay /\ RowsStay
    BY <2>1, FilesStayOf, RowsStayOf DEF Mild
  <2> QED
    BY <2>1, <2>2, <2>3, StaysTwinless DEF Twinless, Unrecorded, ScansAll
<1>5. CASE ClaimStatus \/ ClaimRecord
  <2>1. PICK i \in Item : i = op.item
    BY <1>5 DEF ClaimStatus, ClaimRecord, PlaceInv, CallPlace, ClaimPcs
  <2>2. /\ op.pc \in ClaimPcs /\ op'.pc \in {"idle", "claim_update"}
        /\ UNCHANGED <<dir, body, phase, spent>> /\ body[i].hash \in Hash
        /\ \/ row' = UpdateStatus(body[i].hash, "processing")
           \/ row' = [row EXCEPT ![body[i].hash] =
                        [item |-> i, status |-> "pending", at |-> clock]]
    BY <1>5, <2>1, ItemHash DEF ClaimStatus, ClaimRecord, RecordNew, ClaimPcs,
       TypeInv, QueueTypeOK, Op
  <2>3. HasRow(body[i].hash)'
    BY <2>2, RowInserted, Updated DEF HasRow
  <2>4. RowsStay
    BY <2>2, RowInserted, RowsStayOf, DirNames DEF Mild
  <2>5. \A k \in Item : Rowless(k)' => k # i
    BY <2>2, <2>3 DEF Rowless, HasRow
  <2> QED
    BY <2>1, <2>2, <2>4, <2>5, FilesStayOf, StaysTwinless
    DEF Twinless, Unrecorded, ScansAll, ClaimPcs
<1>6. CASE ClaimUnrecorded
  <2>1. /\ op.pc = "claim_status" /\ op'.pc = "claim_record" /\ op'.item = op.item
        /\ UNCHANGED <<dir, body, row, phase, spent>>
    BY <1>6 DEF ClaimUnrecorded, TypeInv, QueueTypeOK, Op
  <2> QED
    BY <2>1, FilesStayOf, RowsStayOf, StaysTwinless DEF Twinless, Unrecorded, ScansAll, Mild
<1>7. CASE ClaimDuplicate
  <2>1. /\ op.pc = "claim_record" /\ op'.pc = "idle" /\ HasRow(body[op.item].hash)
        /\ UNCHANGED <<dir, body, row, phase, spent>>
    BY <1>7 DEF ClaimDuplicate
  <2>2. \A k \in Item : Rowless(k) => ~(op.item = k)
    BY <2>1 DEF Rowless
  <2> QED
    BY <2>1, <2>2, FilesStayOf, RowsStayOf, StaysTwinless
    DEF Twinless, Unrecorded, ScansAll, Mild
<1> QED
  BY <1>1, <1>2, <1>3, <1>4, <1>5, <1>6, <1>7 DEF Claim

(* The item in the worker's hands has its row. *)
LEMMA HeldRowed ==
  ASSUME TypeInv, PlaceInv, Twinless, held # 0,
         op.pc \notin {"claim_status", "claim_record", "record"},
         dir[held] # "pending"
  PROVE  held \in Item /\ ~Rowless(held)
BY HeldRange DEF PlaceInv, HeldPlace, Twinless, Unrecorded

LEMMA TwinSettle ==
  ASSUME TypeInv, PlaceInv, Twinless, Mild, Mild', Settle PROVE Twinless'
<1> USE DEF disk, Idle
<1>1. CASE MarkSentStatus \/ MarkFailedStatus
  <2>1. PICK i \in Item : i = op.item
    BY <1>1, HeldRange DEF MarkSentStatus, MarkFailedStatus, FinishStatus, PlaceInv, CallPlace
  <2>2. /\ op.pc \in {"sent_status", "failed_status"} /\ op'.pc = "idle"
        /\ UNCHANGED <<dir, body, phase, spent>> /\ body[i].hash \in Hash
        /\ \/ row' = row \/ row' = UpdateStatus(body[i].hash, "sent")
           \/ row' = UpdateStatus(body[i].hash, "failed")
    BY <1>1, <2>1, ItemHash DEF MarkSentStatus, MarkFailedStatus, FinishStatus
  <2>3. RowsStay
    BY <2>2, RowsStayOf, DirNames DEF Mild
  <2> QED
    BY <2>2, <2>3, FilesStayOf, StaysTwinless DEF Twinless, Unrecorded, ScansAll
<1>2. ASSUME NEW d, Move(held, d), held \in Item, dir[held] = "processing",
             op.pc \in {"idle", "failed_move"},
             op'.pc \in {"idle", "sent_status", "failed_status"},
             UNCHANGED <<body, row, phase, spent>>
      PROVE  Twinless'
  <2>1. ~Rowless(held)
    BY <1>2, HeldRowed, BoundsAssumption DEF Item
  <2>2. \A k \in Item : k # held => dir'[k] = dir[k]
    BY <1>2 DEF Move, TypeInv, QueueTypeOK
  <2>3. FilesStay /\ RowsStay
    BY <1>2, FilesStayOf, RowsStayOf DEF Mild
  <2> QED
    BY <1>2, <2>1, <2>2, <2>3, StaysTwinless DEF Twinless, Unrecorded, ScansAll
<1>3. CASE MarkSent \/ MarkFailedMove \/ MoveBackToPending
  <2>1. CASE MarkSent
    BY <1>2, <2>1, HeldRange DEF MarkSent, InProcessing, Lockable
  <2>2. CASE MoveBackToPending
    BY <1>2, <2>2, HeldRange DEF MoveBackToPending, InProcessing, Lockable
  <2>3. CASE MarkFailedMove
    <3>1. op.item = held /\ held \in Item /\ dir[held] = "processing" /\ op'.pc = "failed_status"
      BY <2>3, HeldRange DEF MarkFailedMove, PlaceInv, CallPlace, HeldPlace,
        TypeInv, QueueTypeOK, Op
    <3> QED
      BY <1>2, <2>3, <3>1 DEF MarkFailedMove
  <2> QED
    BY <1>3, <2>1, <2>2, <2>3
<1>4. CASE UpdateAttempt \/ \E perm \in BOOLEAN : MarkFailed(perm)
  <2>1. /\ held \in Item /\ op.pc = "idle" /\ op'.pc \in {"idle", "failed_move"}
        /\ UNCHANGED <<dir, row, phase, spent>>
    <3>1. CASE UpdateAttempt
      BY <3>1, HeldRange DEF UpdateAttempt, InProcessing, Lockable
    <3>2. CASE \E perm \in BOOLEAN : MarkFailed(perm)
      <4>1. PICK perm \in BOOLEAN : MarkFailed(perm)
        BY <3>2
      <4> QED
        BY <4>1, HeldRange DEF MarkFailed, InProcessing, Lockable
    <3> QED
      BY <1>4, <3>1, <3>2
  <2>2. \A k \in Item : /\ body'[k].hash = body[k].hash
                        /\ body'[k].id = body[k].id \/ body'[k].id = k
    <3>1. body \in [Item -> Body]
      BY DEF TypeInv, QueueTypeOK
    <3>2. CASE UpdateAttempt
      BY <2>1, <3>1, <3>2 DEF UpdateAttempt, Body
    <3>3. CASE \E perm \in BOOLEAN : MarkFailed(perm)
      BY <2>1, <3>1, <3>3 DEF MarkFailed, Body
    <3> QED
      BY <1>4, <3>2, <3>3
  <2>3. FilesStay /\ RowsStay
    BY <2>1, <2>2, RowsStayOf DEF FilesStay, Twinless, Whole, Readable, Mild
  <2> QED
    BY <2>1, <2>3, StaysTwinless DEF Twinless, Unrecorded, ScansAll
<1> QED
  BY <1>1, <1>3, <1>4 DEF Settle

LEMMA TwinCleanup ==
  ASSUME TypeInv, PlaceInv, Twinless, Mild, Mild', Cleanup PROVE Twinless'
<1> USE DEF disk, Idle
<1>1. ASSUME NEW i \in Item, RequeueMove(i) PROVE Twinless'
  <2>1. /\ op.pc = "requeue" /\ op'.pc = "requeue_status" /\ Move(i, "pending")
        /\ dir[i] = "failed" /\ UNCHANGED <<body, row, phase, spent>>
    BY <1>1 DEF RequeueMove, First, PlaceInv, ScanPlace, Listing, TypeInv, QueueTypeOK, Op
  <2>2. ~Rowless(i) /\ \A k \in Item : k # i => dir'[k] = dir[k]
    BY <2>1 DEF Twinless, Unrecorded, Move, TypeInv, QueueTypeOK
  <2>3. FilesStay /\ RowsStay
    BY <2>1, FilesStayOf, RowsStayOf DEF Mild
  <2> QED
    BY <2>1, <2>2, <2>3, StaysTwinless DEF Twinless, Unrecorded, ScansAll
<1>2. ASSUME NEW i \in Item, CleanupUnlink(i) PROVE Twinless'
  <2>1. /\ op.pc \in {"unlink_known", "unlink_unknown"} /\ op'.pc = op.pc /\ Unlink(i)
        /\ UNCHANGED <<row, phase, spent>>
    BY <1>2 DEF CleanupUnlink, TypeInv, QueueTypeOK, Op
  <2>2. \A k \in Item : dir'[k] # "none" => dir'[k] = dir[k]
    BY <2>1 DEF Unlink, Move, TypeInv, QueueTypeOK
  <2>3. FilesStay /\ RowsStay
    BY <2>1, FilesStayOf, RowsStayOf DEF Mild
  <2> QED
    BY <2>1, <2>2, <2>3, StaysTwinless DEF Twinless, Unrecorded, ScansAll, Rowless
<1>3. CASE RequeueStatus
  <2>1. PICK i : i = op.item
    OBVIOUS
  <2>2. /\ op.pc = "requeue_status" /\ op'.pc \in {"requeue", "idle"}
        /\ UNCHANGED <<dir, body, phase, spent>>
        /\ row' = row \/ (row' = UpdateStatus(body[i].hash, "pending") /\ HasRow(body[i].hash))
    <3>1. CASE HasRow(body[i].hash)
      BY <1>3, <2>1, <3>1 DEF RequeueStatus, TypeInv, QueueTypeOK, Op
    <3>2. CASE ~HasRow(body[i].hash)
      BY <1>3, <2>1, <3>2 DEF RequeueStatus
    <3> QED
      BY <3>1, <3>2
  <2>3. RowsStay
    BY <2>2, RowsStayOf, DirNames DEF RowsStay, UpdateStatus, HasRow, TypeInv, QueueTypeOK, Row, Mild
  <2> QED
    BY <2>2, <2>3, FilesStayOf, StaysTwinless DEF Twinless, Unrecorded, ScansAll
<1>4. CASE \/ RequeueStart \/ RequeueDone \/ CleanupUnknown \/ CleanupPurge
           \/ (\E d \in {"sent", "failed"} : CleanupStart(d))
           \/ (\E i \in Item : RequeueSkip(i))
  <2>1. /\ UNCHANGED <<dir, body, phase, spent>>
        /\ op.pc \in {"idle", "requeue", "unlink_known", "unlink_unknown"}
        /\ op'.pc \in {"idle", "requeue", "unlink_known", "unlink_unknown"}
    <3> USE DEF TypeInv, QueueTypeOK, Op
    <3>1. CASE RequeueDone \/ CleanupPurge
      BY <3>1 DEF RequeueDone, CleanupPurge
    <3>2. CASE RequeueStart
      BY <3>2 DEF RequeueStart, Lockable
    <3>3. CASE CleanupUnknown
      BY <3>3 DEF CleanupUnknown
    <3>4. ASSUME NEW d, CleanupStart(d)
          PROVE  op.pc = "idle" /\ op'.pc = "unlink_known" /\ UNCHANGED <<dir, body, phase, spent>>
      BY <3>4 DEF CleanupStart, Lockable
    <3>5. ASSUME NEW i, RequeueSkip(i)
          PROVE  op.pc = "requeue" /\ op'.pc = "requeue" /\ UNCHANGED <<dir, body, phase, spent>>
      BY <3>5 DEF RequeueSkip
    <3> QED
      BY <1>4, <3>1, <3>2, <3>3, <3>4, <3>5
  <2>2. row' = row \/ \E s : row' = PurgeOlderThan(s)
    BY <1>4 DEF RequeueStart, RequeueDone, CleanupUnknown, CleanupPurge, CleanupStart, RequeueSkip
  <2>3. RowsStay
    BY <2>2, RowsStayOf DEF Mild
  <2> QED
    BY <2>1, <2>3, FilesStayOf, StaysTwinless DEF Twinless, Unrecorded, ScansAll
<1> QED
  BY <1>1, <1>2, <1>3, <1>4 DEF Cleanup

LEMMA TwinEnvironment ==
  ASSUME TypeInv, PlaceInv, Twinless, Mild, Mild', Environment PROVE Twinless'
<1> USE DEF disk, Idle
<1>1. CASE Fault
  <2>1. /\ spent.fault = 0 /\ spent'.fault = 1 /\ UNCHANGED <<dir, body, row>>
        /\ op'.pc = "idle" /\ phase' \in {phase, "closed"}
    BY <1>1 DEF Fault, Mild, TypeInv, QueueTypeOK
  <2> QED
    BY <2>1, FilesStayOf, RowsStayOf, StaysTwinless DEF Twinless, Unrecorded, ScansAll, Mild
<1>2. CASE Crash
  <2>1. /\ spent'.fault = spent.fault /\ UNCHANGED <<dir, body, row>>
        /\ op'.pc = "idle" /\ phase' = "closed"
    BY <1>2 DEF Crash, TypeInv, QueueTypeOK
  <2> QED
    BY <2>1, FilesStayOf, RowsStayOf, StaysTwinless DEF Twinless, Unrecorded, ScansAll, Mild
<1>3. ASSUME NEW i, NEW id PROVE ~DamageFile(i, id)
  BY DEF DamageFile, Mild, TypeInv, QueueTypeOK
<1>4. ASSUME NEW h \in Hash, ImportRow(h) PROVE Twinless'
  <2>1. RowsStay
    BY <1>4, RowInserted DEF ImportRow
  <2>2. spent'.fault = spent.fault /\ UNCHANGED <<dir, body, op, phase>>
    BY <1>4 DEF ImportRow, TypeInv, QueueTypeOK
  <2> QED
    BY <2>1, <2>2, FilesStayOf, StaysTwinless DEF Twinless, Unrecorded, ScansAll, Listing
<1>5. CASE Tick \/ \E i \in Item : RetryTimeComes(i) \/ HealFile(i)
  <2>1. UNCHANGED <<dir, row, phase, op, spent>>
    BY <1>5 DEF Tick, RetryTimeComes, HealFile
  <2>2. \A k \in Item : /\ body'[k].hash = body[k].hash
                        /\ body'[k].id = body[k].id \/ body'[k].id = k
    <3>1. body \in [Item -> Body]
      BY DEF TypeInv, QueueTypeOK
    <3>2. body' = body \/ \E i \in Item : \/ body' = [body EXCEPT ![i].due = TRUE]
                                          \/ body' = [body EXCEPT ![i].id = i]
      BY <1>5 DEF Tick, RetryTimeComes, HealFile
    <3> QED
      BY <3>1, <3>2 DEF Body
  <2>3. FilesStay /\ RowsStay
    BY <2>1, <2>2, RowsStayOf DEF FilesStay, Twinless, Whole, Readable, Mild
  <2> QED
    BY <2>1, <2>3, StaysTwinless DEF Twinless, Unrecorded, ScansAll, Listing
<1> QED
  BY <1>1, <1>2, <1>3, <1>4, <1>5 DEF Environment

LEMMA TwinInit == QueueInit => Twinless
BY DEF QueueInit, Twinless, Whole, Alone, Unrecorded, ScansAll, Rowless, Idle

LEMMA TwinStep ==
  ASSUME TypeInv, AckInv, PlaceInv, TwinInv, [QueueNext]_queueVars PROVE TwinInv'
<1> SUFFICES ASSUME Mild' PROVE Twinless'
  BY DEF TwinInv
<1>1. Mild
  <2>1. Young
    BY StepsAge, YoungKept DEF Mild
  <2>2. spent.damage = 0 /\ spent.fault <= 1
    BY SpentGrows DEF Mild, TypeInv, QueueTypeOK
  <2> QED
    BY <2>1, <2>2 DEF Mild
<1>2. Twinless
  BY <1>1 DEF TwinInv
<1>3. CASE UNCHANGED queueVars
  BY <1>2, <1>3 DEF Twinless, Whole, Alone, Unrecorded, ScansAll, Rowless, HasRow, Readable,
    Listing, queueVars, disk
<1> QED
  BY <1>1, <1>2, <1>3, TwinStart, TwinEnqueue, TwinClaim, TwinSettle, TwinCleanup, TwinEnvironment
  DEF QueueNext

(* No SMS is in the queue twice: two items that may still be delivered never
   share a content hash, whatever crashes, restarts, cleanups and requeues come;
   and until a retention period passes also with imports and after one I/O
   error or cancelled call.  For queues whose files are not damaged. *)
THEOREM NoTwins == QueueSpec => []OneLivePerHash
<1>1. TypeInv /\ SoleInv /\ TwinInv => OneLivePerHash
  <2>1. SoleInv /\ spent.damage = 0 /\ spent.fault = 0 /\ (spent.import = 0 \/ Young) =>
          \A i, j \in Item : Live(i) /\ Live(j) /\ i # j => body[i].hash # body[j].hash
    BY DEF SoleInv, Clean, NoLateImport, Sole, Solitary, Counted, Live
  <2>2. TwinInv /\ spent.damage = 0 /\ spent.fault = 1 /\ Young =>
          \A i, j \in Item : Live(i) /\ Live(j) /\ i # j => body[i].hash # body[j].hash
    BY DEF TwinInv, Mild, Twinless, Alone, Live
  <2>3. TypeInv => (spent.fault <= 1 => spent.fault = 0 \/ spent.fault = 1)
    BY DEF TypeInv, QueueTypeOK
  <2> QED
    BY <2>1, <2>2, <2>3 DEF OneLivePerHash
<1>2. QueueInit => SoleInv /\ TwinInv
  BY SoleInit, TwinInit DEF SoleInv, TwinInv
<1> QED
  BY <1>1, <1>2, TypeInit, TypeStep, AckInit, AckStep, PlaceInit, PlaceStep, AgeInit, AgeStep,
     SoleStep, TwinStep, PTL DEF QueueSpec
-----------------------------------------------------------------------------
(* Live rows.  A row that says an item is still to be delivered has a holder:  *)
(* a file of its hash in pending/ or processing/, or the call that is just     *)
(* settling one.                                                               *)

Recording(i) == op.pc = "record" /\ op.item = i

(* Whose row it is: that of the item, when there is one.  The importer can come
   first only for a file whose row is gone. *)
OwnRow(i) == HasRow(body[i].hash) => row[body[i].hash].item = i
Owned == \A i \in Item : Counted(i) /\ ~Recording(i) => OwnRow(i)

(* While the queue is not started, an item in play without a row is one whose row
   retention has removed; the next reconciliation writes it before any other of
   its hash. *)
ShutRows ==
  phase \in {"closed", "opened"} =>
    \A i \in Item : Counted(i) /\ ~HasRow(body[i].hash) =>
      dir[i] = "pending" /\ ~Young /\ (op.pc = "reconcile" => i \in op.todo)

Smooth == spent.crash = 0 /\ spent.fault = 0
OwnInv == Smooth /\ Clean => ShutRows /\ Owned

(* What a started queue's calls have written. *)
LEMMA RowOf ==
  ASSUME TypeInv, PlaceInv, Sole, ShutRows, NEW i \in Item, Counted(i), ~Recording(i),
         ~HasRow(body[i].hash)
  PROVE  /\ ~Young /\ dir[i] \in {"pending", "processing"}
         /\ dir[i] = "processing" => op.pc \in ClaimPcs /\ op.item = i
<1>1. CASE phase \in {"closed", "opened"}
  BY <1>1 DEF ShutRows
<1>2. CASE phase \notin {"closed", "opened"}
  <2>1. Status(i) = "none" /\ dir[i] # "none" /\ dir[i] \in Dirs
    BY DEF Status, HasRow, Counted, TypeInv, QueueTypeOK
  <2>2. dir[i] = "sent" => Young \/ MidCall(i)
    BY DEF Counted, Live, MidCall, PlaceInv, ScanPlace, Listing
  <2>3. MidCall(i) => op.pc \in ClaimPcs /\ dir[i] = "processing"
    BY <2>1, HeldRange DEF MidCall, Recording, Sole, CallStatus, PlaceInv, CallPlace, ClaimPcs
  <2>4. Rowed(i)
    BY DEF Sole
  <2>5. dir[i] = "processing" /\ Young => FALSE
    BY <2>1, <2>4 DEF Rowed
  <2>6. "none" \notin StatusesOf(dir[i])
    BY <2>1 DEF StatusesOf
  <2>7. ~MidCall(i) => ~Young /\ dir[i] \notin {"processing", "failed"}
    BY <1>2, <2>1, <2>4, <2>6 DEF Rowed
  <2> QED
    BY <2>1, <2>2, <2>3, <2>5, <2>7 DEF Dirs, MidCall
<1> QED
  BY <1>1, <1>2

(* The steps that leave the queue closed, or opened. *)
LEMMA ShutActs ==
  ASSUME PlaceInv, PlaceInv', phase' \in {"closed", "opened"},
         spent'.crash = 0, spent'.fault = 0, spent'.damage = 0, TypeInv, QueueNext
  PROVE  \/ InitializeStart \/ ReconcileItem \/ InitializeDone \/ RecoverStart
         \/ (\E i \in Item : RecoverItem(i)) \/ Close
         \/ Tick \/ (\E i \in Item : RetryTimeComes(i) \/ HealFile(i))
         \/ (\E h \in Hash : ImportRow(h))
<1>0. /\ op'.pc \in {"idle", "reconcile", "recover"}
      /\ phase \in {"closed", "opened"} => op.pc \in {"idle", "reconcile", "recover"}
      /\ (WorkerCall => phase = "ready") /\ (op.pc = "recover" => phase = "opened")
  BY DEF PlaceInv, CallPlace
<1>1. spent.fault \in Nat /\ spent.crash \in Nat /\ spent.damage \in Nat
      /\ spent \in [crash : Nat, fault : Nat, damage : Nat, import : Nat]
  BY DEF TypeInv, QueueTypeOK
<1>2. ~Fault /\ ~Crash /\ ~CancelWorkerCall
      /\ ~(\E i \in Item, id \in 0 .. MaxItems : DamageFile(i, id))
  BY <1>1 DEF Fault, Crash, CancelWorkerCall, DamageFile
<1>3. ~RecoverDone /\ ~StopWorker
  BY DEF RecoverDone, StopWorker
<1>4. CASE Start
  BY <1>2, <1>3, <1>4 DEF Start
<1>5. CASE Enqueue
  <2>1. phase' = phase /\ (op.pc = "record" \/ phase \in {"ready", "stopping"})
    BY <1>5 DEF Enqueue, EnqueueDuplicate, EnqueuePendingDuplicate, EnqueueWrite,
       EnqueueRecord, EnqueueUndo, Accepting
  <2> QED
    BY <1>0, <2>1
<1>6. CASE Claim
  <2>1. phase' = phase /\ (op.pc \in ScanPcs \cup ClaimPcs \/ phase = "ready")
    BY <1>6 DEF Claim, ClaimStart, ClaimCorrupt, ClaimMove, ClaimEmpty, ClaimPurgeCorrupt,
       ClaimPurgePayload, ClaimStatus, ClaimUnrecorded, ClaimRecord, ClaimDuplicate, Lockable,
       ScanPcs, ClaimPcs
  <2>2. "idle" \notin ScanPcs \cup ClaimPcs /\ "reconcile" \notin ScanPcs \cup ClaimPcs
        /\ "recover" \notin ScanPcs \cup ClaimPcs
    BY DEF ScanPcs, ClaimPcs
  <2> QED
    BY <1>0, <2>1, <2>2
<1>7. CASE Settle
  <2>1. /\ phase' = phase
        /\ op.pc \in {"sent_status", "failed_status", "failed_move"} \/ phase = "ready"
    BY <1>7 DEF Settle, MarkSent, MarkSentStatus, MarkFailed, MarkFailedMove, MarkFailedStatus,
       FinishStatus, UpdateAttempt, MoveBackToPending, InProcessing, Lockable
  <2> QED
    BY <1>0, <2>1
<1>8. CASE Cleanup
  <2>1. /\ phase' = phase
        /\ \/ op.pc \in {"requeue", "requeue_status", "unlink_known", "unlink_unknown"}
           \/ phase = "ready"
    BY <1>8 DEF Cleanup, RequeueStart, RequeueStatus, RequeueDone, CleanupStart, RequeueSkip,
       RequeueMove, CleanupUnlink, CleanupUnknown, CleanupPurge, Lockable
  <2> QED
    BY <1>0, <2>1
<1>9. CASE Environment
  BY <1>2, <1>9 DEF Environment
<1> QED
  BY <1>4, <1>5, <1>6, <1>7, <1>8, <1>9 DEF QueueNext

LEMMA ShutStep ==
  ASSUME TypeInv, PlaceInv, PlaceInv', Sole, Sole',
         KeepsCounted \/ \E h \in Hash : EnqueueWrite(h),
         ClockOn, spent'.crash = 0, spent'.fault = 0, spent'.damage = 0,
         ShutRows, [QueueNext]_queueVars
  PROVE  ShutRows'
<1> SUFFICES ASSUME phase' \in {"closed", "opened"}, NEW i \in Item, Counted(i)',
                    ~HasRow(body[i].hash)'
             PROVE  dir'[i] = "pending" /\ ~Young' /\ (op'.pc = "reconcile" => i \in op'.todo)
  BY DEF ShutRows
<1>1. CASE UNCHANGED queueVars
  BY <1>1 DEF queueVars, disk, ShutRows, Counted, Live, Young, HasRow, Readable, Older
<1>2. CASE QueueNext
  <2>1. ~(\E h \in Hash : EnqueueWrite(h))
    BY DEF EnqueueWrite, PlaceInv, CallPlace, Idle
  <2>2. Counted(i) /\ body'[i].hash = body[i].hash
    BY <2>1 DEF KeepsCounted
  <2>3. Young' => Young
    BY YoungKept
  <2>4. CASE Close
    <3>1. ~HasRow(body[i].hash) /\ op.pc = "idle" /\ op' = op /\ dir' = dir
      BY <2>4, <2>2 DEF Close, HasRow, disk
    <3>2. ~Young /\ dir[i] \in {"pending", "processing"} /\ dir[i] # "processing"
      BY <2>2, <3>1, RowOf DEF Recording, ClaimPcs
    <3> QED
      BY <2>3, <3>1, <3>2
  <2>5. CASE ~Close
    <3>0. \/ InitializeStart \/ ReconcileItem \/ InitializeDone \/ RecoverStart
          \/ (\E j \in Item : RecoverItem(j))
          \/ Tick \/ (\E j \in Item : RetryTimeComes(j) \/ HealFile(j))
          \/ (\E h \in Hash : ImportRow(h))
      BY <1>2, <2>5, ShutActs
    <3>1. phase \in {"closed", "opened"}
      BY <3>0 DEF InitializeStart, ReconcileItem, InitializeDone, RecoverStart, RecoverItem,
         Tick, RetryTimeComes, HealFile, ImportRow, PlaceInv, CallPlace
    <3>2. HasRow(body[i].hash) => HasRow(body[i].hash)'
      <4>1. CASE ReconcileItem
        <5>1. PICK j \in op.todo : row' = IF Readable(j)
                                         THEN ReconcileStatus(body[j].hash, j, dir[j])
                                         ELSE row
          BY <4>1 DEF ReconcileItem
        <5>2. op.pc = "reconcile" /\ j \in Item /\ dir[j] \in {"pending", "sent", "failed"}
          BY <4>1 DEF ReconcileItem, TypeInv, QueueTypeOK, Op, ScanPlace, PlaceInv
        <5>3. row \in [Hash -> Row] /\ body[j].hash \in Hash /\ body[i].hash \in Hash
          BY <5>2, ItemHash DEF TypeInv, QueueTypeOK
        <5> QED
          BY <2>2, <5>1, <5>2, <5>3 DEF ReconcileStatus, UpdateStatus, HasRow, Row
      <4>2. CASE \E h \in Hash : ImportRow(h)
        BY <4>2, <2>2 DEF ImportRow, HasRow, TypeInv, QueueTypeOK
      <4>3. CASE ~ReconcileItem /\ ~(\E h \in Hash : ImportRow(h))
        BY <4>3, <3>0, <2>2 DEF InitializeStart, InitializeDone, RecoverStart, RecoverItem,
           Tick, RetryTimeComes, HealFile, HasRow
      <4> QED
        BY <4>1, <4>2, <4>3
    <3>3. dir[i] = "pending" /\ ~Young /\ (op.pc = "reconcile" => i \in op.todo)
      BY <2>2, <3>1, <3>2 DEF ShutRows
    <3>4. dir'[i] = "pending"
      BY <3>0, <3>3 DEF InitializeStart, ReconcileItem, InitializeDone, RecoverStart,
         RecoverItem, Tick, RetryTimeComes, HealFile, ImportRow, Move, disk, TypeInv, QueueTypeOK
    <3>5. op'.pc = "reconcile" => i \in op'.todo
      <4>1. CASE InitializeStart
        BY <4>1, <3>3 DEF InitializeStart, Idle, ReconcileRank
      <4>2. CASE ReconcileItem
        <5>1. PICK j \in op.todo : /\ op' = [op EXCEPT !.todo = @ \ {j}]
                                   /\ row' = IF Readable(j)
                                             THEN ReconcileStatus(body[j].hash, j, dir[j])
                                             ELSE row
          BY <4>2 DEF ReconcileItem
        <5>2. op'.todo = op.todo \ {j} /\ j \in Item
          BY <5>1 DEF TypeInv, QueueTypeOK, Op
        <5>3. CASE j = i
          <6>1. row' = ReconcileStatus(body[i].hash, i, "pending")
            BY <5>1, <5>3, <3>3, <2>2 DEF Sole, Whole, Counted
          <6>2. HasRow(body[i].hash)'
            BY <6>1, <2>2, ItemHash DEF ReconcileStatus, UpdateStatus, HasRow, TypeInv, QueueTypeOK, Row
          <6> QED
            BY <6>2
        <5> QED
          BY <4>2, <5>2, <5>3, <3>3 DEF ReconcileItem
      <4>3. CASE ~InitializeStart /\ ~ReconcileItem
        BY <4>3, <3>0, <3>3 DEF InitializeDone, RecoverStart,
           RecoverItem, Tick, RetryTimeComes, HealFile, ImportRow, Idle, TypeInv, QueueTypeOK, Op
      <4> QED
        BY <4>1, <4>2, <4>3
    <3> QED
      BY <2>3, <3>3, <3>4, <3>5
  <2> QED
    BY <2>4, <2>5
<1> QED
  BY <1>1, <1>2

(* What a step makes of a row: it leaves or removes it, settles it, or writes it
   for a carrier, which keeps an older item's id in it only when it is readable. *)
LiveRow(h) == row[h].status \in {"pending", "processing"}
Carrier(i) == dir[i] \in {"pending", "processing"}

RowsMade ==
  \A h \in Hash :
    \/ row'[h] = row[h] \/ row'[h] = NoRow
    \/ /\ ~LiveRow(h)' /\ (HasRow(h) => row'[h].item = row[h].item)
       /\ HasRow(h) \/ ReconcileItem \/ ImportRow(h)
    \/ \E j \in Item :
         /\ Carrier(j) /\ body[j].hash = h /\ dir' = dir /\ body' = body
         /\ row'[h].item = IF HasRow(h) THEN row[h].item ELSE j
         /\ Readable(j) \/ row'[h].item = j

WritersOwn ==
  op.pc \in ClaimPcs \cup {"requeue_status"} =>
    /\ op.item \in Item /\ Carrier(op.item)
    /\ Readable(op.item) \/ (HasRow(body[op.item].hash) =>
                               row[body[op.item].hash].item = op.item)

LEMMA RowsOfWrite ==
  ASSUME TypeInv, NEW j \in Item, NEW st,
         row' = [row EXCEPT ![body[j].hash] = [item |-> j, status |-> st, at |-> clock]],
         ~HasRow(body[j].hash),
         (Carrier(j) /\ dir' = dir /\ body' = body)
           \/ (st \notin {"pending", "processing"} /\ ReconcileItem)
  PROVE  RowsMade
<1>1. /\ row \in [Hash -> Row] /\ body[j].hash \in Hash
      /\ row'[body[j].hash] = [item |-> j, status |-> st, at |-> clock]
      /\ \A h \in Hash : h # body[j].hash => row'[h] = row[h]
  BY ItemHash DEF TypeInv, QueueTypeOK
<1> QED
  BY <1>1 DEF RowsMade, LiveRow

LEMMA RowsOfUpdate ==
  ASSUME TypeInv, NEW j \in Item, NEW st, row' = UpdateStatus(body[j].hash, st),
         HasRow(body[j].hash),
         \/ /\ Carrier(j) /\ dir' = dir /\ body' = body
            /\ Readable(j) \/ row[body[j].hash].item = j
         \/ st \notin {"pending", "processing"}
  PROVE  RowsMade
<1>1. /\ row \in [Hash -> Row] /\ body[j].hash \in Hash
      /\ row'[body[j].hash].item = row[body[j].hash].item
      /\ row'[body[j].hash].status = st
      /\ \A h \in Hash : h # body[j].hash => row'[h] = row[h]
  BY ItemHash DEF TypeInv, QueueTypeOK, UpdateStatus, Row
<1> QED
  BY <1>1 DEF RowsMade, LiveRow

LEMMA RowsMadeBy ==
  ASSUME TypeInv, PlaceInv, WritersOwn, [QueueNext]_queueVars PROVE RowsMade
<1>1. CASE row' = row
  BY <1>1 DEF RowsMade
<1>2. CASE ReconcileItem
  <2>1. PICK j \in op.todo : row' = IF Readable(j)
                                   THEN ReconcileStatus(body[j].hash, j, dir[j])
                                   ELSE row
    BY <1>2 DEF ReconcileItem
  <2>2. j \in Item /\ dir[j] \in {"pending", "sent", "failed"} /\ dir' = dir /\ body' = body
    BY <1>2 DEF ReconcileItem, TypeInv, QueueTypeOK, Op, ScanPlace, PlaceInv, disk
  <2>3. CASE row' = UpdateStatus(body[j].hash, dir[j]) /\ HasRow(body[j].hash) /\ Readable(j)
    BY <2>2, <2>3, RowsOfUpdate DEF Carrier
  <2>4. CASE row' = [row EXCEPT ![body[j].hash] =
                       [item |-> j, status |-> dir[j], at |-> clock]] /\ ~HasRow(body[j].hash)
    BY <1>2, <2>2, <2>4, RowsOfWrite DEF Carrier
  <2> QED
    BY <1>1, <2>1, <2>3, <2>4 DEF ReconcileStatus
<1>3. ASSUME NEW h \in Hash, EnqueuePendingDuplicate(h) PROVE RowsMade
  <2>1. PICK i \in Item : First(i, PendingDuplicates(h)) /\ row' = RecordNew(h, i)
    BY <1>3 DEF EnqueuePendingDuplicate
  <2>2. dir[i] = "pending" /\ body[i].hash = h /\ dir' = dir /\ body' = body /\ ~HasRow(h)
    BY <1>3, <2>1 DEF EnqueuePendingDuplicate, First, PendingDuplicates, Listing, disk
  <2>3. row' = [row EXCEPT ![body[i].hash] = [item |-> i, status |-> "pending", at |-> clock]]
    BY <2>1, <2>2 DEF RecordNew
  <2> QED
    BY <2>2, <2>3, RowsOfWrite DEF Carrier
<1>4. CASE EnqueueRecord
  <2>1. op.item \in Item /\ dir[op.item] = "pending" /\ dir' = dir /\ body' = body
    BY <1>4 DEF EnqueueRecord, TypeInv, OpInOrder, PlaceInv, CallPlace, disk
  <2>2. /\ ~HasRow(body[op.item].hash)
        /\ row' = [row EXCEPT ![body[op.item].hash] =
                     [item |-> op.item, status |-> "pending", at |-> clock]]
    BY <1>4 DEF EnqueueRecord, RecordNew
  <2> QED
    BY <2>1, <2>2, RowsOfWrite DEF Carrier
<1>5. CASE ClaimStatus \/ ClaimRecord
  <2>1. /\ op.pc \in ClaimPcs /\ op.item \in Item /\ Carrier(op.item)
        /\ dir' = dir /\ body' = body
    BY <1>5 DEF ClaimStatus, ClaimRecord, WritersOwn, ClaimPcs, disk
  <2>2. CASE ClaimStatus
    <3>1. row' = UpdateStatus(body[op.item].hash, "processing") /\ HasRow(body[op.item].hash)
      BY <2>2 DEF ClaimStatus
    <3> QED
      BY <2>1, <3>1, RowsOfUpdate DEF WritersOwn
  <2>3. CASE ClaimRecord
    <3>1. /\ ~HasRow(body[op.item].hash)
          /\ row' = [row EXCEPT ![body[op.item].hash] =
                       [item |-> op.item, status |-> "pending", at |-> clock]]
      BY <2>3 DEF ClaimRecord, RecordNew
    <3> QED
      BY <2>1, <3>1, RowsOfWrite
  <2> QED
    BY <1>5, <2>2, <2>3
<1>6. CASE RequeueStatus
  <2>1. /\ op.pc = "requeue_status" /\ op.item \in Item /\ Carrier(op.item)
        /\ dir' = dir /\ body' = body
    BY <1>6 DEF RequeueStatus, WritersOwn, disk
  <2>2. CASE HasRow(body[op.item].hash)
    BY <1>6, <2>1, <2>2, RowsOfUpdate DEF RequeueStatus, WritersOwn
  <2>3. CASE ~HasRow(body[op.item].hash)
    BY <1>1, <1>6, <2>3 DEF RequeueStatus
  <2> QED
    BY <2>2, <2>3
<1>7. CASE MarkSentStatus \/ MarkFailedStatus
  <2>1. op.item \in Item
    BY <1>7, HeldRange DEF MarkSentStatus, MarkFailedStatus, FinishStatus, PlaceInv, CallPlace
  <2>2. CASE HasRow(body[op.item].hash)
    <3>1. CASE MarkSentStatus
      BY <2>1, <2>2, <3>1, RowsOfUpdate DEF MarkSentStatus, FinishStatus
    <3>2. CASE MarkFailedStatus
      BY <2>1, <2>2, <3>2, RowsOfUpdate DEF MarkFailedStatus, FinishStatus
    <3> QED
      BY <1>7, <3>1, <3>2
  <2>3. CASE ~HasRow(body[op.item].hash)
    BY <1>1, <1>7, <2>3 DEF MarkSentStatus, MarkFailedStatus, FinishStatus
  <2> QED
    BY <2>2, <2>3
<1>8. CASE ClaimPurgeCorrupt \/ ClaimPurgePayload
  BY <1>8 DEF ClaimPurgeCorrupt, ClaimPurgePayload, DeleteByItemId, RowsMade
<1>9. CASE CleanupPurge
  BY <1>9 DEF CleanupPurge, PurgeOlderThan, RowsMade
<1>10. ASSUME NEW h \in Hash, ImportRow(h) PROVE RowsMade
  BY <1>10 DEF ImportRow, RowsMade, LiveRow, TypeInv, QueueTypeOK
<1>11. CASE Start /\ ~ReconcileItem
  BY <1>1, <1>11 DEF Start, InitializeStart, InitializeDone, RecoverStart,
     RecoverItem, RecoverDone, StopWorker, CancelWorkerCall, Close
<1>12. CASE Enqueue
  BY <1>1, <1>3, <1>4, <1>12 DEF Enqueue, EnqueueDuplicate, EnqueueWrite, EnqueueUndo
<1>13. CASE Claim
  BY <1>1, <1>5, <1>8, <1>13 DEF Claim, ClaimStart, ClaimCorrupt, ClaimMove, ClaimEmpty,
     ClaimUnrecorded, ClaimDuplicate
<1>14. CASE Settle
  BY <1>1, <1>7, <1>14 DEF Settle, MarkSent, MarkFailed, MarkFailedMove, UpdateAttempt,
     MoveBackToPending
<1>15. CASE Cleanup
  BY <1>1, <1>6, <1>9, <1>15 DEF Cleanup, RequeueStart, RequeueDone, CleanupStart, RequeueSkip,
     RequeueMove, CleanupUnlink, CleanupUnknown
<1>16. CASE Environment
  BY <1>1, <1>10, <1>16 DEF Environment, Tick, Fault, Crash, RetryTimeComes, HealFile, DamageFile
<1> QED
  BY <1>1, <1>2, <1>11, <1>12, <1>13, <1>14, <1>15, <1>16 DEF QueueNext, queueVars

(* A call between two of its steps goes on, unless it ends by an error. *)
LEMMA CallGoesOn ==
  ASSUME TypeInv, PlaceInv, [QueueNext]_queueVars,
         spent'.crash = 0, spent'.fault = 0,
         op.pc \in ClaimPcs \cup {"record", "purge_corrupt", "requeue_status",
                                "sent_status", "failed_status"}
  PROVE  \/ op' = op /\ dir' = dir /\ (row' = row \/ \E h \in Hash : ImportRow(h))
         \/ op.pc = "record" /\ (EnqueueRecord \/ EnqueueUndo)
         \/ op.pc = "purge_corrupt" /\ ClaimPurgeCorrupt
         \/ /\ op.pc \in ClaimPcs
            /\ ClaimStatus \/ ClaimUnrecorded \/ ClaimRecord \/ ClaimDuplicate
         \/ op.pc = "requeue_status" /\ RequeueStatus
         \/ op.pc = "sent_status" /\ MarkSentStatus
         \/ op.pc = "failed_status" /\ MarkFailedStatus
<1>1. spent.fault \in Nat /\ spent.crash \in Nat
      /\ spent \in [crash : Nat, fault : Nat, damage : Nat, import : Nat]
  BY DEF TypeInv, QueueTypeOK
<1>2. ~Fault /\ ~Crash /\ ~CancelWorkerCall
  BY <1>1 DEF Fault, Crash, CancelWorkerCall
<1> USE DEF ClaimPcs
<1>3. CASE Start
  BY <1>2, <1>3 DEF Start, InitializeStart, ReconcileItem, InitializeDone, RecoverStart,
     RecoverItem, RecoverDone, StopWorker, Close, disk
<1>4. CASE Enqueue
  BY <1>4 DEF Enqueue, EnqueueDuplicate, EnqueuePendingDuplicate, EnqueueWrite,
     EnqueueRecord, EnqueueUndo, Accepting
<1>5. CASE Claim
  <2>1. CASE ClaimStatus \/ ClaimUnrecorded \/ ClaimRecord \/ ClaimDuplicate
    <3>1. op.pc \in {"claim_status", "claim_record", "claim_update"}
      BY <2>1 DEF ClaimStatus, ClaimUnrecorded, ClaimRecord, ClaimDuplicate
    <3> QED
      BY <2>1, <3>1
  <2>2. CASE ClaimPurgeCorrupt
    BY <2>2 DEF ClaimPurgeCorrupt
  <2>3. ASSUME \/ \E skip \in SUBSET Item : ClaimStart(skip)
               \/ \E i \in Item : ClaimCorrupt(i) \/ ClaimMove(i)
               \/ ClaimEmpty \/ ClaimPurgePayload
        PROVE  FALSE
    BY <2>3 DEF ClaimStart, ClaimCorrupt, ClaimMove, ClaimEmpty, ClaimPurgePayload, Lockable
  <2> QED
    BY <1>5, <2>1, <2>2, <2>3 DEF Claim
<1>6. CASE Settle
  BY <1>6 DEF Settle, MarkSent, MarkSentStatus, MarkFailed, MarkFailedMove, MarkFailedStatus,
     FinishStatus, UpdateAttempt, MoveBackToPending, InProcessing, Lockable
<1>7. CASE Cleanup
  BY <1>7 DEF Cleanup, RequeueStart, RequeueStatus, RequeueDone, CleanupStart, RequeueSkip,
     RequeueMove, CleanupUnlink, CleanupUnknown, CleanupPurge, Lockable
<1>8. CASE Environment
  BY <1>2, <1>8 DEF Environment, Tick, RetryTimeComes, HealFile, DamageFile, ImportRow, disk
<1> QED
  BY <1>3, <1>4, <1>5, <1>6, <1>7, <1>8 DEF QueueNext, queueVars, disk

LEMMA OwnStep ==
  ASSUME TypeInv, PlaceInv, AckInv, Sole, PlaceInv', Sole',
         KeepsCounted \/ \E h \in Hash : EnqueueWrite(h), ClockOn,
         spent'.crash = 0, spent'.fault = 0, NoLateImport',
         ShutRows, Owned, [QueueNext]_queueVars
  PROVE  Owned'
<1> SUFFICES ASSUME NEW i \in Item, Counted(i)', ~Recording(i)', HasRow(body[i].hash)'
             PROVE  row'[body'[i].hash].item = i
  BY DEF Owned, OwnRow
<1>1. CASE \E h \in Hash : EnqueueWrite(h)
  <2>1. PICK g \in Hash : EnqueueWrite(g)
    BY <1>1
  <2>2. op'.pc = "record" /\ op'.item = nextItem /\ op.pc = "idle" /\ row' = row
    BY <2>1 DEF EnqueueWrite, Idle, Accepting
  <2>3. i # nextItem
    BY <2>2 DEF Recording
  <2>4. dir'[i] = dir[i] /\ body'[i] = body[i] /\ clock' = clock
    BY <2>1, <2>3 DEF EnqueueWrite, Move, TypeInv, QueueTypeOK
  <2>5. Counted(i) /\ ~Recording(i)
    BY <2>2, <2>4 DEF Counted, Live, Young, Readable, Older, Recording
  <2> QED
    BY <2>2, <2>4, <2>5 DEF Owned, OwnRow, HasRow
<1>2. CASE KeepsCounted
  <2> DEFINE h == body[i].hash
  <2>1. Counted(i) /\ body'[i].hash = h /\ h \in Hash
    BY <1>2, ItemHash DEF KeepsCounted
  <2>2. CASE HasRow(h) /\ row'[h].item = row[h].item
    <3>1. ASSUME Recording(i) PROVE FALSE
      <4>1. EnqueueRecord \/ EnqueueUndo
        BY <3>1, CallGoesOn DEF Recording, ClaimPcs
      <4>2. CASE EnqueueRecord
        BY <2>2, <3>1, <4>2 DEF EnqueueRecord, Recording
      <4>3. CASE EnqueueUndo
        <5>1. dir'[i] = "none"
          <6>1. op.item = i /\ body[i].id = i /\ i # 0
            BY <2>1, <3>1, BoundsAssumption DEF Recording, Sole, Whole, Counted, Readable, Item
          <6>2. Unlink(i)
            BY <4>3, <6>1 DEF EnqueueUndo
          <6> QED
            BY <6>2 DEF Unlink, Move, TypeInv, QueueTypeOK
        <5> QED
          BY <5>1 DEF Counted
      <4> QED
        BY <4>1, <4>2, <4>3
    <3> QED
      BY <2>1, <2>2, <3>1 DEF Owned, OwnRow
  <2>3. ASSUME ReconcileItem, ~HasRow(h) PROVE row'[h].item = i
    <3>1. op.pc = "reconcile" /\ phase = "closed"
      BY <2>3 DEF ReconcileItem, PlaceInv, CallPlace
    <3>2. dir[i] = "pending" /\ i \in op.todo
      BY <2>1, <2>3, <3>1 DEF ShutRows
    <3>3. PICK j \in op.todo :
            /\ \A k \in op.todo :
                 \/ ReconcileRank(dir[j]) < ReconcileRank(dir[k])
                 \/ ReconcileRank(dir[j]) = ReconcileRank(dir[k]) /\ j <= k
            /\ row' = IF Readable(j) THEN ReconcileStatus(body[j].hash, j, dir[j]) ELSE row
      BY <2>3 DEF ReconcileItem
    <3>4. j \in Item /\ dir[j] \in {"pending", "sent", "failed"} /\ Readable(j)
      BY <3>1 DEF TypeInv, QueueTypeOK, Op, ScanPlace, PlaceInv, Sole, Whole
    <3>5. dir[j] = "pending"
      BY <3>2, <3>3, <3>4 DEF ReconcileRank
    <3>6. body[j].hash = h
      <4>1. row' = ReconcileStatus(body[j].hash, j, dir[j])
        BY <3>3, <3>4
      <4>2. body[j].hash # h => row'[h] = row[h]
        BY <2>1, <3>4, <4>1, ItemHash DEF ReconcileStatus, UpdateStatus, TypeInv, QueueTypeOK
      <4> QED
        BY <2>1, <2>3, <4>2 DEF HasRow
    <3>7. Counted(j)
      BY <3>4, <3>5 DEF Counted, Live
    <3>8. j = i
      BY <2>1, <3>4, <3>6, <3>7 DEF Sole, Solitary
    <3> QED
      BY <2>1, <2>3, <3>3, <3>4, <3>8 DEF ReconcileStatus, TypeInv, QueueTypeOK, Row
  <2>4. ASSUME ImportRow(h), ~HasRow(h) PROVE FALSE
    <3>1. op' = op /\ spent'.import > 0
      BY <2>4 DEF ImportRow, TypeInv, QueueTypeOK
    <3>2. ~Recording(i) /\ Young
      BY <3>1, YoungKept DEF Recording, NoLateImport
    <3> QED
      BY <2>1, <2>4, <3>2, RowOf
  <2>5. ASSUME NEW j \in Item, Carrier(j), body[j].hash = h, ~HasRow(h), row'[h].item = j
        PROVE  j = i
    <3>1. Counted(j)
      BY <2>5 DEF Carrier, Counted, Live, Sole, Whole
    <3> QED
      BY <2>1, <2>5, <3>1 DEF Sole, Solitary
  <2>6. WritersOwn
    BY DEF WritersOwn, Carrier, Sole, Whole, CallStatus, PlaceInv, CallPlace, ClaimPcs
  <2>7. RowsMade
    BY <2>6, RowsMadeBy
  <2>8. HasRow(h)' /\ row'[h] # NoRow
    BY <2>1 DEF HasRow, NoRow
  <2> QED
    BY <2>1, <2>2, <2>3, <2>4, <2>5, <2>7, <2>8 DEF RowsMade, HasRow
<1> QED
  BY <1>1, <1>2

LEMMA OwnInvStep ==
  ASSUME TypeInv, AckInv, PlaceInv, AgeInv, SoleInv, PlaceInv', SoleInv', OwnInv,
         [QueueNext]_queueVars
  PROVE  OwnInv'
<1> SUFFICES ASSUME Smooth', Clean' PROVE ShutRows' /\ Owned'
  BY DEF OwnInv
<1>1. ClockOn
  BY StepsAge
<1>2. Clean
  BY CleanBefore
<1>3. Sole /\ Sole' /\ (KeepsCounted \/ \E h \in Hash : EnqueueWrite(h))
  BY <1>2, SoleNext DEF SoleInv
<1>4. Smooth
  BY SpentGrows DEF Smooth, TypeInv, QueueTypeOK
<1>5. ShutRows'
  BY <1>1, <1>2, <1>3, <1>4, ShutStep DEF OwnInv, Smooth, Clean
<1>6. Owned'
  BY <1>1, <1>2, <1>3, <1>4, OwnStep DEF OwnInv, Smooth, Clean
<1> QED
  BY <1>5, <1>6

(* Where a step may leave the files. *)
Settling(i) == op.pc \in {"sent_status", "failed_status"} /\ op.item = i
FileGoes(i) ==
  /\ Carrier(i) => \/ Carrier(i)' \/ (Settling(i)' /\ dir'[i] # "none")
                   \/ EnqueueUndo /\ op.item = i
  /\ dir'[i] # "none" /\ ~Readable(i)' =>
       dir[i] # "none" /\ ~Readable(i) /\ (Carrier(i)' => Carrier(i))

LEMMA FileGoesBy ==
  ASSUME TypeInv, AckInv, PlaceInv, [QueueNext]_queueVars, NEW i \in Item,
         ~(\E j \in Item : ClaimCorrupt(j)),
         ~(\E j \in Item, id \in 0 .. MaxItems : DamageFile(j, id))
  PROVE  FileGoes(i)
<1> USE DEF FileGoes, Carrier, Readable, Move
<1>1. /\ dir \in [Item -> Dirs] /\ body \in [Item -> Body]
      /\ dir[i] # "none" => i # nextItem
  BY DEF TypeInv, QueueTypeOK, AckInv, FreshIds
<1>2. CASE dir' = dir /\ (\/ body' = body \/ body'[i].id = i)
  BY <1>2
<1>3. CASE Start
  <2>1. ASSUME NEW j \in Item, RecoverItem(j) PROVE FileGoes(i)
    BY <1>1, <2>1 DEF RecoverItem, PlaceInv, ScanPlace, Listing, First
  <2> QED
    BY <1>2, <1>3, <2>1 DEF Start, InitializeStart, ReconcileItem, InitializeDone, RecoverStart,
       RecoverDone, StopWorker, CancelWorkerCall, Close, disk
<1>4. CASE Enqueue
  <2>1. ASSUME NEW h \in Hash, EnqueueWrite(h) PROVE FileGoes(i)
    BY <1>1, <2>1 DEF EnqueueWrite
  <2>2. CASE EnqueueUndo
    BY <1>1, <2>2 DEF EnqueueUndo, Unlink
  <2> QED
    BY <1>2, <1>4, <2>1, <2>2 DEF Enqueue, EnqueueDuplicate, EnqueuePendingDuplicate,
       EnqueueRecord, disk
<1>5. CASE Claim
  <2>1. ASSUME NEW j \in Item, ClaimMove(j) PROVE FileGoes(i)
    BY <1>1, <2>1 DEF ClaimMove
  <2> QED
    BY <1>2, <1>5, <2>1 DEF Claim, ClaimStart, ClaimEmpty, ClaimPurgeCorrupt, ClaimPurgePayload,
       ClaimStatus, ClaimUnrecorded, ClaimRecord, ClaimDuplicate, disk
<1>6. CASE Settle
  <2>2. CASE MarkSent
    <3>1. /\ op'.pc = "sent_status" /\ op'.item = held /\ dir' = [dir EXCEPT ![held] = "sent"]
          /\ body' = body /\ dir[held] = "processing"
      BY <2>2 DEF MarkSent, InProcessing, Idle
    <3> QED
      BY <1>1, <3>1 DEF Settling
  <2>3. CASE MarkFailedMove
    <3>1. /\ op'.pc = "failed_status" /\ op'.item = op.item
          /\ dir' = [dir EXCEPT ![op.item] = "failed"] /\ body' = body
          /\ dir[op.item] = "processing"
      BY <2>3 DEF MarkFailedMove, Op, TypeInv, QueueTypeOK, PlaceInv, HeldPlace, CallPlace
    <3> QED
      BY <1>1, <3>1 DEF Settling
  <2>4. CASE MoveBackToPending
    BY <1>1, <2>4 DEF MoveBackToPending, InProcessing
  <2>5. CASE \E perm \in BOOLEAN : MarkFailed(perm)
    <3>1. dir' = dir /\ (body'[i] = body[i] \/ body'[i].id = i)
      BY <1>1, <2>5 DEF MarkFailed, Body
    <3> QED
      BY <3>1
  <2>6. CASE UpdateAttempt
    <3>1. dir' = dir /\ (body'[i] = body[i] \/ body'[i].id = i)
      BY <1>1, <2>6 DEF UpdateAttempt, Body
    <3> QED
      BY <3>1
  <2> QED
    BY <1>2, <1>6, <2>2, <2>3, <2>4, <2>5, <2>6 DEF Settle, MarkSentStatus, MarkFailedStatus,
       FinishStatus, disk
<1>7. CASE Cleanup
  <2>1. ASSUME NEW j \in Item, RequeueMove(j) PROVE FileGoes(i)
    BY <1>1, <2>1 DEF RequeueMove, Retryable
  <2>2. ASSUME NEW j \in Item, CleanupUnlink(j) PROVE FileGoes(i)
    BY <1>1, <2>2 DEF CleanupUnlink, Unlink, PlaceInv, ScanPlace, Listing, First
  <2> QED
    BY <1>2, <1>7, <2>1, <2>2 DEF Cleanup, RequeueStart, RequeueStatus, RequeueDone, CleanupStart,
       RequeueSkip, CleanupUnknown, CleanupPurge, disk
<1>8. CASE Environment
  <2>1. ASSUME NEW j \in Item, RetryTimeComes(j) \/ HealFile(j) PROVE FileGoes(i)
    <3>1. dir' = dir /\ (body'[i].id = body[i].id \/ body'[i].id = i)
      BY <1>1, <2>1 DEF RetryTimeComes, HealFile, Body
    <3> QED
      BY <3>1
  <2> QED
    BY <1>2, <1>8, <2>1 DEF Environment, Tick, Fault, Crash, ImportRow, disk
<1> QED
  BY <1>2, <1>3, <1>4, <1>5, <1>6, <1>7, <1>8 DEF QueueNext, queueVars, disk

Holds(i, h) == body[i].hash = h /\ (Carrier(i) \/ Settling(i))

(* No live row is without a holder, but for the one whose last file claim_next has
   just put aside as unreadable; it removes that row by the id of the file.  So
   what one damaged file leaves behind matters: its row names it, or another
   file holds the row. *)
Kept ==
  \A h \in Hash : LiveRow(h) =>
    \/ op.pc = "purge_corrupt" /\ row[h].item = op.item
    \/ \E i \in Item : Holds(i, h)

Windows ==
  /\ op.pc = "record" => ~LiveRow(body[op.item].hash)
  /\ op.pc = "requeue_status" => op.item \in Item /\ dir[op.item] = "pending"

OneOdd ==
  \A i, j \in Item :
    dir[i] # "none" /\ ~Readable(i) /\ dir[j] # "none" /\ ~Readable(j) => i = j

Odd(i) == Carrier(i) /\ ~Readable(i)
OddRow(i, h) ==
  /\ LiveRow(h) => row[h].item = i \/ \E k \in Item : k # i /\ Holds(k, h)
  /\ op.pc \in ClaimPcs \cup {"requeue_status"} /\ op.item = i =>
       (HasRow(h) => row[h].item = i) /\ (Young => HasRow(h))
OddRows == \A i \in Item : Odd(i) => OddRow(i, body[i].hash)

Spared == Smooth /\ spent.damage <= 1 /\ (spent.damage = 0 \/ spent.import = 0 \/ Young)
Spare == Kept /\ Windows /\ OneOdd /\ OddRows
SpareInv == Spared => Spare

LEMMA HolderStays ==
  ASSUME TypeInv, AckInv, PlaceInv, [QueueNext]_queueVars, spent'.crash = 0, spent'.fault = 0,
         Windows, NEW i \in Item, NEW h \in Hash, FileGoes(i), Holds(i, h), LiveRow(h)'
  PROVE  Holds(i, h)'
<1>1. dir[i] # "none" /\ i # nextItem
  <2>1. Settling(i) => dir[i] \in {"sent", "failed"}
    BY DEF Settling, PlaceInv, CallPlace
  <2> QED
    BY <2>1 DEF Holds, Carrier, AckInv, FreshIds, Item
<1>2. dir'[i] # "none" => body'[i].hash = h
  BY <1>1, StepsAge DEF FilesAge, Holds
<1>3. CASE Carrier(i)
  <2>1. ASSUME EnqueueUndo, op.item = i PROVE FALSE
    BY <2>1 DEF EnqueueUndo, Windows, Holds, LiveRow
  <2> QED
    BY <1>2, <1>3, <2>1 DEF FileGoes, Holds, Carrier
<1>4. CASE Settling(i)
  <2>1. CASE op' = op /\ dir' = dir
    BY <1>1, <1>2, <1>4, <2>1 DEF Holds, Settling
  <2>2. CASE MarkSentStatus \/ MarkFailedStatus
    <3>1. op.item = i /\ body[op.item].hash = h
      BY <1>4 DEF Settling, Holds
    <3>2. \/ row' = row /\ ~HasRow(h)
          \/ \E s \in {"sent", "failed"} : row' = UpdateStatus(h, s)
      BY <2>2, <3>1 DEF MarkSentStatus, MarkFailedStatus, FinishStatus
    <3> QED
      BY <3>2, Updated DEF LiveRow, HasRow
  <2> QED
    BY <1>4, <2>1, <2>2, CallGoesOn DEF Settling, ClaimPcs
<1> QED
  BY <1>3, <1>4 DEF Holds

(* A call's windows are open only since its own step. *)
LEMMA WindowOpens ==
  ASSUME TypeInv, PlaceInv, [QueueNext]_queueVars, spent'.crash = 0, spent'.fault = 0,
         op'.pc \in ClaimPcs \cup {"record", "requeue_status"}
  PROVE  \/ op' = op /\ dir' = dir /\ (row' = row \/ \E h \in Hash : ImportRow(h))
         \/ \E h \in Hash : EnqueueWrite(h)
         \/ \E i \in Item : ClaimMove(i) \/ RequeueMove(i)
         \/ ClaimUnrecorded \/ ClaimRecord
<1> USE DEF ClaimPcs
<1>1. CASE op.pc \in ClaimPcs \cup {"record", "requeue_status"}
  <2>1. CASE EnqueueRecord \/ EnqueueUndo \/ ClaimStatus \/ ClaimDuplicate
    BY <2>1 DEF EnqueueRecord, EnqueueUndo, ClaimStatus, ClaimDuplicate, Idle
  <2>2. CASE RequeueStatus
    <3>1. op' = Idle \/ op' = [op EXCEPT !.pc = "requeue", !.item = 0]
      BY <2>2 DEF RequeueStatus
    <3>2. op'.pc \in {"idle", "requeue"}
      <4>1. CASE op' = Idle
        BY <4>1 DEF Idle
      <4>2. CASE op' = [op EXCEPT !.pc = "requeue", !.item = 0]
        BY <4>2 DEF TypeInv, QueueTypeOK, Op
      <4> QED
        BY <3>1, <4>1, <4>2
    <3> QED
      BY <3>2
  <2> QED
    BY <1>1, <2>1, <2>2, CallGoesOn
<1>2. CASE op.pc \notin ClaimPcs \cup {"record", "requeue_status"}
  <2>0. op \in Op
    BY DEF TypeInv, QueueTypeOK
  <2>1. CASE Start
    <3>1. CASE ReconcileItem
      BY <1>2, <2>0, <3>1 DEF ReconcileItem, Op
    <3>2. ASSUME NEW i \in Item, RecoverItem(i) PROVE FALSE
      BY <1>2, <2>0, <3>2 DEF RecoverItem, Op
    <3>3. CASE InitializeStart \/ RecoverStart
      BY <3>3 DEF InitializeStart, RecoverStart, Idle
    <3>4. CASE InitializeDone \/ RecoverDone \/ CancelWorkerCall
      BY <3>4 DEF InitializeDone, RecoverDone, CancelWorkerCall, Idle
    <3>5. CASE StopWorker \/ Close
      BY <1>2, <3>5 DEF StopWorker, Close
    <3> QED
      BY <2>1, <3>1, <3>2, <3>3, <3>4, <3>5 DEF Start
  <2>2. CASE Enqueue
    BY <1>2, <2>2 DEF Enqueue, EnqueueDuplicate, EnqueuePendingDuplicate,
       EnqueueRecord, EnqueueUndo
  <2>3. CASE Claim
    <3>1. ASSUME NEW i \in Item, ClaimCorrupt(i) PROVE FALSE
      BY <2>0, <3>1 DEF ClaimCorrupt, Op
    <3>2. CASE ClaimPurgeCorrupt \/ ClaimPurgePayload
      <4>1. op'.pc \in {"claim", "purge_payload"}
        <5>1. CASE op' = [op EXCEPT !.pc = "claim", !.item = 0]
          BY <2>0, <5>1 DEF Op
        <5>2. CASE op' = [op EXCEPT !.pc = "purge_payload", !.item = 0]
          BY <2>0, <5>2 DEF Op
        <5>3. CASE op' = [op EXCEPT !.pc = "claim", !.known = {}]
          BY <2>0, <5>3 DEF Op
        <5> QED
          BY <3>2, <5>1, <5>2, <5>3 DEF ClaimPurgeCorrupt, ClaimPurgePayload
      <4> QED
        BY <4>1
    <3>3. ASSUME NEW skip \in SUBSET Item, ClaimStart(skip) PROVE FALSE
      BY <3>3 DEF ClaimStart, Idle
    <3>4. CASE ClaimEmpty \/ ClaimStatus \/ ClaimDuplicate
      BY <3>4 DEF ClaimEmpty, ClaimStatus, ClaimDuplicate, Idle
    <3> QED
      BY <2>3, <3>1, <3>2, <3>3, <3>4 DEF Claim
  <2>4. CASE Settle
    <3>1. CASE MarkFailedMove
      BY <2>0, <3>1 DEF MarkFailedMove, Op
    <3>2. CASE MarkSent \/ \E perm \in BOOLEAN : MarkFailed(perm)
      BY <3>2 DEF MarkSent, MarkFailed, Idle
    <3>3. CASE MarkSentStatus \/ MarkFailedStatus
      BY <3>3 DEF MarkSentStatus, MarkFailedStatus, FinishStatus, Idle
    <3>4. CASE UpdateAttempt \/ MoveBackToPending
      BY <1>2, <3>4 DEF UpdateAttempt, MoveBackToPending
    <3> QED
      BY <2>4, <3>1, <3>2, <3>3, <3>4 DEF Settle
  <2>5. CASE Cleanup
    <3>1. ASSUME NEW i \in Item, RequeueSkip(i) \/ CleanupUnlink(i) PROVE FALSE
      BY <1>2, <2>0, <3>1 DEF RequeueSkip, CleanupUnlink, Op
    <3>2. CASE CleanupUnknown
      BY <2>0, <3>2 DEF CleanupUnknown, Op
    <3>3. CASE RequeueStart
      BY <3>3 DEF RequeueStart, Idle
    <3>4. ASSUME NEW d \in {"sent", "failed"}, CleanupStart(d) PROVE FALSE
      BY <3>4 DEF CleanupStart, Idle
    <3>5. CASE RequeueDone \/ CleanupPurge
      BY <3>5 DEF RequeueDone, CleanupPurge, Idle
    <3>6. CASE RequeueStatus
      BY <1>2, <3>6 DEF RequeueStatus
    <3> QED
      BY <2>5, <3>1, <3>2, <3>3, <3>4, <3>5, <3>6 DEF Cleanup
  <2>6. CASE Environment
    BY <1>2, <2>6 DEF Environment, Tick, Fault, Crash, RetryTimeComes, HealFile, DamageFile,
       ImportRow, Idle
  <2> QED
    BY <1>2, <2>1, <2>2, <2>3, <2>4, <2>5, <2>6 DEF QueueNext, queueVars
<1> QED
  BY <1>1, <1>2

(* claim_next puts an unreadable file aside. *)
LEMMA SpareCorrupt ==
  ASSUME TypeInv, PlaceInv, Spare, NEW i \in Item, ClaimCorrupt(i) PROVE Spare'
<1>1. /\ op.pc = "claim" /\ Odd(i) /\ body' = body /\ row' = row
      /\ op'.pc = "purge_corrupt" /\ op'.item = i
      /\ dir' = [dir EXCEPT ![i] = "failed"] /\ dir \in [Item -> Dirs]
  BY DEF ClaimCorrupt, Odd, Carrier, Move, First, PlaceInv, ScanPlace, ScanPcs, Listing, TypeInv,
     QueueTypeOK, Op
<1>2. /\ dir'[i] = "failed" /\ dir[i] # "none" /\ ~Readable(i)
      /\ \A k \in Item : k # i => dir'[k] = dir[k]
      /\ \A k \in Item : Readable(k)' = Readable(k)
  BY <1>1 DEF Odd, Carrier, Readable
<1>3. \A k \in Item, h \in Hash : k # i /\ Holds(k, h) => Holds(k, h)'
  BY <1>1, <1>2 DEF Holds, Carrier, Settling
<1>4. Kept'
  <2> SUFFICES ASSUME NEW h \in Hash, LiveRow(h)
               PROVE  (row[h].item = i) \/ \E k \in Item : Holds(k, h)'
    BY <1>1 DEF Kept, LiveRow
  <2>1. PICK k \in Item : Holds(k, h)
    BY <1>1 DEF Spare, Kept
  <2>2. CASE k = i
    <3>1. body[i].hash = h
      BY <2>1, <2>2 DEF Holds
    <3> QED
      BY <1>1, <1>3, <3>1 DEF Spare, OddRows, OddRow
  <2> QED
    BY <1>3, <2>1, <2>2
<1>5. Windows' /\ OneOdd'
  BY <1>1, <1>2 DEF Windows, Spare, OneOdd
<1>6. OddRows'
  BY <1>2 DEF OddRows, Odd, Carrier, Spare, OneOdd
<1> QED
  BY <1>4, <1>5, <1>6 DEF Spare

(* The one file becomes unreadable. *)
LEMMA SpareDamage ==
  ASSUME TypeInv, PlaceInv, Sole, ShutRows, Owned, Spare,
         NEW i \in Item, NEW id, DamageFile(i, id)
  PROVE  Spare'
<1>1. /\ dir[i] # "none" /\ UNCHANGED <<dir, row, op, clock>>
      /\ \A k \in Item : /\ body'[k].hash = body[k].hash
                         /\ k # i => Readable(k)' = Readable(k)
  BY DEF DamageFile, Readable, TypeInv, QueueTypeOK, Body
<1>2. \A k \in Item, h \in Hash : Holds(k, h)' = Holds(k, h)
  BY <1>1 DEF Holds, Carrier, Settling
<1>3. Kept'
  BY <1>1, <1>2 DEF Kept, Spare, LiveRow
<1>4. Windows'
  <2>1. op.pc = "record" => op.item \in Item
    BY DEF TypeInv, OpInOrder
  <2> QED
    BY <1>1, <2>1 DEF Windows, Spare, LiveRow
<1>5. \A k \in Item : dir'[k] # "none" /\ ~Readable(k)' => k = i
  BY <1>1 DEF Sole, Whole
<1>6. OneOdd'
  BY <1>5 DEF OneOdd
<1>7. ASSUME Odd(i)' PROVE OddRow(i, body[i].hash)'
  <2> DEFINE h == body[i].hash
  <2>1. Carrier(i) /\ Counted(i) /\ h \in Hash
    BY <1>1, <1>7, ItemHash DEF Odd, Carrier, Counted, Live, Sole, Whole
  <2>2. LiveRow(h) => row[h].item = i
    <3>1. CASE Recording(i)
      BY <3>1 DEF Recording, Spare, Windows
    <3>2. CASE ~Recording(i)
      BY <2>1, <3>2 DEF Owned, OwnRow, LiveRow, HasRow
    <3> QED
      BY <3>1, <3>2
  <2>3. op.pc \in ClaimPcs \cup {"requeue_status"} /\ op.item = i =>
          (HasRow(h) => row[h].item = i) /\ (Young => HasRow(h))
    BY <2>1, RowOf DEF Owned, OwnRow, Recording, ClaimPcs
  <2>4. body'[i].hash = h
    BY <1>1
  <2> QED
    BY <1>1, <2>2, <2>3, <2>4 DEF OddRow, LiveRow, HasRow, Young
<1>8. OddRows'
  BY <1>5, <1>7 DEF OddRows, Odd, Carrier
<1> QED
  BY <1>3, <1>4, <1>6, <1>8 DEF Spare

(* Every other step. *)
LEMMA SpareFrame ==
  ASSUME TypeInv, AckInv, PlaceInv, Spare, [QueueNext]_queueVars,
         spent'.crash = 0, spent'.fault = 0,
         spent.damage = 0 => Whole, spent'.import = 0 \/ Young' \/ spent.damage = 0,
         ~(\E j \in Item : ClaimCorrupt(j)),
         ~(\E j \in Item, id \in 0 .. MaxItems : DamageFile(j, id))
  PROVE  Spare'
<1>1. \A i \in Item : FileGoes(i)
  BY FileGoesBy
<1>2. \A i \in Item, h \in Hash : Holds(i, h) /\ LiveRow(h)' => Holds(i, h)'
  BY <1>1, HolderStays DEF Spare
<1>3. RowsMade
  <2>1. WritersOwn
    BY DEF WritersOwn, Spare, Windows, OddRows, OddRow, Odd, Carrier, PlaceInv, CallPlace, ClaimPcs
  <2> QED
    BY <2>1, RowsMadeBy
<1>4. ASSUME NEW h \in Hash, LiveRow(h)'
      PROVE  \/ LiveRow(h) /\ row'[h] = row[h]
             \/ \E j \in Item : /\ Holds(j, h)'
                                /\ Carrier(j) /\ body[j].hash = h /\ body' = body
                                /\ Readable(j) \/ row'[h].item = j
  <2>1. row'[h] # NoRow
    BY <1>4 DEF LiveRow, NoRow
  <2>2. \A j \in Item : Carrier(j) /\ body[j].hash = h /\ dir' = dir /\ body' = body =>
          Holds(j, h)'
    BY DEF Holds, Carrier
  <2> QED
    BY <1>3, <1>4, <2>1, <2>2 DEF RowsMade, LiveRow
<1>5. Kept'
  <2> SUFFICES ASSUME NEW h \in Hash, LiveRow(h)'
               PROVE  \/ op'.pc = "purge_corrupt" /\ row'[h].item = op'.item
                      \/ \E i \in Item : Holds(i, h)'
    BY DEF Kept
  <2>1. CASE LiveRow(h) /\ row'[h] = row[h]
    <3>1. CASE op.pc = "purge_corrupt" /\ row[h].item = op.item
      <4>1. ~ClaimPurgeCorrupt
        BY <2>1, <3>1 DEF ClaimPurgeCorrupt, DeleteByItemId, LiveRow, NoRow
      <4> QED
        BY <2>1, <3>1, <4>1, CallGoesOn DEF ClaimPcs
    <3> QED
      BY <1>2, <2>1, <3>1 DEF Spare, Kept
  <2> QED
    BY <1>4, <2>1
<1>6. Windows'
  <2>1. CASE op' = op /\ dir' = dir /\ (row' = row \/ \E h \in Hash : ImportRow(h))
    <3>1. op.pc = "record" => ~LiveRow(body[op.item].hash)'
      <4> SUFFICES ASSUME op.pc = "record" PROVE ~LiveRow(body[op.item].hash)'
        OBVIOUS
      <4>1. op.item \in Item /\ dir[op.item] = "pending" /\ op.item # nextItem
        BY DEF TypeInv, OpInOrder, PlaceInv, CallPlace, AckInv, FreshIds, QueueTypeOK
      <4>2. body'[op.item].hash = body[op.item].hash /\ body[op.item].hash \in Hash
        BY <2>1, <4>1, StepsAge, ItemHash DEF FilesAge
      <4> QED
        BY <2>1, <4>2 DEF Spare, Windows, LiveRow, ImportRow, TypeInv, QueueTypeOK
    <3> QED
      BY <2>1, <3>1 DEF Spare, Windows
  <2>2. ASSUME NEW h \in Hash, EnqueueWrite(h) PROVE Windows'
    <3>1. /\ op'.pc = "record" /\ op'.item = nextItem /\ nextItem \in Item /\ ~HasRow(h)
          /\ row' = row /\ body'[nextItem].hash = h
      BY <2>2 DEF EnqueueWrite, Idle, TypeInv, QueueTypeOK
    <3> QED
      BY <3>1 DEF Windows, LiveRow, HasRow
  <2>3. ASSUME NEW i \in Item, ClaimMove(i) PROVE Windows'
    BY <2>3 DEF ClaimMove, Windows, Idle
  <2>4. ASSUME NEW i \in Item, RequeueMove(i) PROVE Windows'
    BY <2>4 DEF RequeueMove, Move, Windows, Op, TypeInv, QueueTypeOK
  <2>5. CASE ClaimUnrecorded \/ ClaimRecord
    <3>1. op'.pc \in {"claim_record", "claim_update"}
      BY <2>5 DEF ClaimUnrecorded, ClaimRecord, Op, TypeInv, QueueTypeOK
    <3> QED
      BY <3>1 DEF Windows
  <2> QED
    BY <2>1, <2>2, <2>3, <2>4, <2>5, WindowOpens DEF Windows
<1>7. OneOdd'
  BY <1>1 DEF FileGoes, Spare, OneOdd
<1>8. ASSUME NEW i \in Item, Odd(i)' PROVE OddRow(i, body[i].hash)'
  <2> DEFINE h == body[i].hash
  <2>1. Odd(i) /\ dir'[i] # "none"
    BY <1>1, <1>8 DEF Odd, FileGoes, Carrier
  <2>2. body'[i].hash = h /\ h \in Hash
    BY <2>1, StepsAge, ItemHash DEF FilesAge, AckInv, FreshIds, Odd, Carrier, TypeInv, QueueTypeOK
  <2>3. OddRow(i, h) /\ spent.damage # 0
    BY <2>1 DEF Spare, OddRows, Odd, Carrier, Whole
  <2>4. ASSUME LiveRow(h)' PROVE row'[h].item = i \/ \E k \in Item : k # i /\ Holds(k, h)'
    <3>1. CASE LiveRow(h) /\ row'[h] = row[h]
      BY <1>2, <2>2, <2>3, <2>4, <3>1 DEF OddRow
    <3>2. ASSUME NEW j \in Item, Holds(j, h)', Readable(j) \/ row'[h].item = j
          PROVE  row'[h].item = i \/ \E k \in Item : k # i /\ Holds(k, h)'
      BY <2>1, <3>2 DEF Odd
    <3> QED
      BY <1>4, <2>2, <2>4, <3>1, <3>2
  <2>5. ASSUME op'.pc \in ClaimPcs \cup {"requeue_status"}, op'.item = i
        PROVE  (HasRow(h)' => row'[h].item = i) /\ (Young' => HasRow(h)')
    <3>1. ~(\E k \in Item : ClaimMove(k) \/ RequeueMove(k))
      <4>1. ASSUME NEW k \in Item, ClaimMove(k) PROVE FALSE
        BY <2>1, <2>5, <4>1 DEF ClaimMove, Idle, Odd
      <4>2. ASSUME NEW k \in Item, RequeueMove(k) PROVE FALSE
        BY <2>1, <2>5, <4>2 DEF RequeueMove, Retryable, Odd, TypeInv, QueueTypeOK, Op
      <4> QED
        BY <4>1, <4>2
    <3>2. ~(\E g \in Hash : EnqueueWrite(g))
      BY <2>5 DEF EnqueueWrite, Idle, ClaimPcs
    <3>3. \/ op' = op /\ (row' = row \/ \E g \in Hash : ImportRow(g))
          \/ ClaimUnrecorded \/ ClaimRecord
      BY <2>5, <3>1, <3>2, WindowOpens
    <3>0. op.pc \in ClaimPcs \cup {"requeue_status"} /\ op.item = i
      BY <2>5, <3>3 DEF ClaimUnrecorded, ClaimRecord, ClaimPcs, TypeInv, QueueTypeOK, Op
    <3>4. (HasRow(h) => row[h].item = i) /\ (Young => HasRow(h)) /\ (Young' => Young)
      BY <2>3, <3>0, StepsAge, YoungKept DEF OddRow
    <3>5. CASE row' = row
      BY <2>2, <3>4, <3>5 DEF HasRow
    <3>6. ASSUME NEW g \in Hash, ImportRow(g)
          PROVE  (HasRow(h)' => row'[h].item = i) /\ (Young' => HasRow(h)')
      <4>1. spent'.import # 0 /\ ~HasRow(g) /\ (g # h => row'[h] = row[h])
        BY <2>2, <3>6 DEF ImportRow, TypeInv, QueueTypeOK
      <4>2. Young'
        BY <2>3, <4>1
      <4> QED
        BY <2>2, <3>4, <4>1, <4>2 DEF HasRow
    <3>7. CASE ClaimUnrecorded
      BY <3>5, <3>7 DEF ClaimUnrecorded
    <3>8. CASE ClaimRecord
      <4>1. row' = [row EXCEPT ![h] = [item |-> i, status |-> "pending", at |-> clock]]
        BY <3>0, <3>8 DEF ClaimRecord, RecordNew
      <4>2. row'[h].item = i /\ row'[h].status = "pending"
        BY <2>2, <4>1 DEF TypeInv, QueueTypeOK
      <4> QED
        BY <2>2, <4>2 DEF HasRow
    <3> QED
      BY <3>3, <3>5, <3>6, <3>7, <3>8
  <2> QED
    BY <2>2, <2>4, <2>5 DEF OddRow
<1> QED
  BY <1>5, <1>6, <1>7, <1>8 DEF Spare, OddRows

(* Only damage makes a file unreadable. *)
WholeInv == spent.damage = 0 => Whole

LEMMA WholeStep ==
  ASSUME TypeInv, AckInv, PlaceInv, WholeInv, [QueueNext]_queueVars PROVE WholeInv'
<1> SUFFICES ASSUME spent'.damage = 0 PROVE Whole'
  BY DEF WholeInv
<1>1. spent.damage = 0 /\ Whole
  BY SpentGrows DEF WholeInv, TypeInv, QueueTypeOK
<1>2. ~(\E j \in Item, id \in 0 .. MaxItems : DamageFile(j, id))
  BY <1>1 DEF DamageFile, TypeInv, QueueTypeOK
<1>3. ~(\E j \in Item : ClaimCorrupt(j))
  BY <1>1 DEF Whole, ClaimCorrupt, First, PlaceInv, ScanPlace, ScanPcs, Listing
<1>4. \A i \in Item : FileGoes(i)
  BY <1>2, <1>3, FileGoesBy
<1> QED
  BY <1>1, <1>4 DEF FileGoes, Whole

LEMMA SpareInit == QueueInit => WholeInv /\ OwnInv /\ SpareInv
<1> SUFFICES ASSUME QueueInit PROVE WholeInv /\ OwnInv /\ SpareInv
  OBVIOUS
<1>1. /\ op.pc = "idle" /\ \A i \in Item : dir[i] = "none"
      /\ \A h \in Hash : row[h].status = "none"
  BY DEF QueueInit, Idle, NoRow
<1> QED
  BY <1>1 DEF WholeInv, Whole, OwnInv, ShutRows, Owned, Counted, SpareInv, Spare, Kept, LiveRow, Windows, OneOdd,
     OddRows, Odd, Carrier

LEMMA SpareStep ==
  ASSUME TypeInv, AckInv, PlaceInv, AgeInv, SoleInv, WholeInv, OwnInv, SpareInv,
         [QueueNext]_queueVars
  PROVE  SpareInv'
<1> SUFFICES ASSUME Spared' PROVE Spare'
  BY DEF SpareInv
<1>1. ClockOn /\ (Young' => Young)
  BY StepsAge, YoungKept
<1>2. spent'.crash = 0 /\ spent'.fault = 0 /\ spent.crash = 0 /\ spent.fault = 0
      /\ spent.damage \in Nat /\ spent'.damage <= 1
      /\ (spent'.damage = 0 => spent.damage = 0) /\ (spent'.import = 0 => spent.import = 0)
      /\ (spent.damage = 0 \/ spent'.damage # 0) /\ spent.damage <= 1
  BY SpentGrows DEF Spared, Smooth, TypeInv, QueueTypeOK
<1>3. Spared
  BY <1>1, <1>2 DEF Spared, Smooth
<1>4. Spare /\ (spent.damage = 0 => Whole)
  BY <1>3 DEF SpareInv, WholeInv
<1>5. CASE \E i \in Item : ClaimCorrupt(i)
  BY <1>4, <1>5, SpareCorrupt
<1>6. ASSUME NEW i \in Item, NEW id \in 0 .. MaxItems, DamageFile(i, id) PROVE Spare'
  <2>1. spent.damage = 0 /\ spent'.damage # 0
    BY <1>2, <1>6 DEF DamageFile, TypeInv, QueueTypeOK
  <2>2. spent.import = 0 \/ Young
    BY <1>1, <1>2, <2>1 DEF Spared
  <2>3. Sole /\ ShutRows /\ Owned
    BY <1>2, <2>1, <2>2 DEF SoleInv, OwnInv, Smooth, Clean, NoLateImport
  <2> QED
    BY <1>4, <1>6, <2>3, SpareDamage
<1>7. CASE /\ ~(\E i \in Item : ClaimCorrupt(i))
           /\ ~(\E i \in Item, id \in 0 .. MaxItems : DamageFile(i, id))
  <2>1. spent'.import = 0 \/ Young' \/ spent.damage = 0
    BY <1>2 DEF Spared
  <2> QED
    BY <1>2, <1>4, <1>7, <2>1, SpareFrame
<1> QED
  BY <1>5, <1>6, <1>7

(* A row that says an item is still to be delivered stands for a file in pending/
   or processing/ whenever no call is on: it never suppresses an SMS that nobody
   holds, and one file that becomes unreadable does not change that, as long as
   no importer has written rows past a retention period. *)
THEOREM LiveRowsAreHeld == QueueSpec => []LiveRowHasFile
<1>1. SpareInv => LiveRowHasFile
  <2> SUFFICES ASSUME SpareInv, Spared, op.pc = "idle", NEW h \in Hash, LiveRow(h)
               PROVE  \E i \in Item : dir[i] \in {"pending", "processing"} /\ body[i].hash = h
    BY DEF LiveRowHasFile, Spared, Smooth, LiveRow
  <2>1. PICK i \in Item : Holds(i, h)
    BY DEF SpareInv, Spare, Kept
  <2> QED
    BY <2>1 DEF Holds, Carrier, Settling
<1> QED
  BY <1>1, TypeInit, TypeStep, AckInit, AckStep, PlaceInit, PlaceStep, AgeInit, AgeStep,
     SoleInit, SoleStep, SpareInit, WholeStep, OwnInvStep, SpareStep, PTL
  DEF QueueSpec, SoleInv
=============================================================================
