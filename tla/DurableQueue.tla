---------------------------- MODULE DurableQueue ----------------------------
(***************************************************************************)
(* The durable SMS queue of sms_gateway_v2: queue/queue.py over the four   *)
(* state directories (queue/paths.py) and the seen_messages table of       *)
(* dedup.db (queue/dedup.py).                                              *)
(*                                                                         *)
(* Every public method of Queue runs under one asyncio.Lock, so at most    *)
(* one is in progress.  What is not atomic is its durable effects: each    *)
(* rename, unlink, save and SQLite commit is a step of its own, and a      *)
(* crash, an I/O error or the importer script may come between two of      *)
(* them.  `op' is the method that holds the lock and where it stands.      *)
(* Reads are merged with the effect that follows them under the lock.      *)
(***************************************************************************)
EXTENDS Naturals

CONSTANTS
  Hash,         \* content hashes: number, text and time bucket of an SMS
  MaxItems,     \* bound: queue items ever created
  MaxAttempts,  \* bound: delivery attempts update_attempt may record
  SentDays,     \* sent_retention_days, in clock ticks
  FailedDays,   \* failed_retention_days, in clock ticks
  MaxClock,     \* bound: clock ticks
  MaxCrashes,   \* bound: crashes of the process
  MaxFaults,    \* bound: I/O errors raised inside a method
  MaxDamages,   \* bound: queue files that become unreadable
  MaxImports    \* bound: rows added by scripts/import-gammu-dedup.py

ASSUME BoundsAssumption ==
  /\ Hash # {}
  /\ MaxItems \in Nat /\ MaxAttempts \in Nat
  /\ SentDays \in Nat /\ FailedDays \in Nat /\ MaxClock \in Nat
  /\ MaxCrashes \in Nat /\ MaxFaults \in Nat
  /\ MaxDamages \in Nat /\ MaxImports \in Nat

VARIABLES
  dir,      \* item -> the directory its file is in, "none" if there is no file
  body,     \* item -> what its file holds
  nextItem, \* the next fresh item id (ids sort by creation time)
  row,      \* content hash -> its row of seen_messages, or NoRow
  phase,    \* "closed", "opened" (initialize returned), "ready" (recovered),
            \* "stopping" (the worker and the cleanup are stopped)
  op,       \* the method that holds Queue._lock, and its progress
  held,     \* the item the delivery worker has claimed, 0 for none
  clock,    \* time, in units that matter to retention
  spent,    \* how many of each bounded environment event have happened
  acked,    \* history: hashes for which enqueue returned (the SMS may be deleted)
  excused   \* history: hashes whose last copy may be gone by design

disk == <<dir, body, nextItem>>
history == <<acked, excused>>
queueVars == <<disk, row, phase, op, held, clock, spent, history>>
-----------------------------------------------------------------------------
(* Data *)

Item == 1 .. MaxItems
Dirs == {"none", "pending", "processing", "sent", "failed"}

(* QueueItem.  `id' is the id inside the payload, 0 when the file does not
   parse; `due' is next_retry_at being unset or past. *)
Body == [id : 0 .. MaxItems, hash : Hash, attempts : 0 .. MaxAttempts,
         due : BOOLEAN, perm : BOOLEAN, seen : Nat, mtime : Nat]

(* A row of seen_messages; `item' is 0 for a row the importer wrote. *)
Row == [item : 0 .. MaxItems, status : Dirs, at : Nat]
NoRow == [item |-> 0, status |-> "none", at |-> 0]

EmptyFile == [id |-> 0, hash |-> CHOOSE h \in Hash : TRUE, attempts |-> 0,
              due |-> TRUE, perm |-> FALSE, seen |-> 0, mtime |-> 0]

PCs == {"idle", "reconcile", "recover", "record", "claim", "purge_corrupt",
        "purge_payload", "claim_status", "claim_record", "claim_update",
        "sent_status", "failed_move", "failed_status", "requeue",
        "requeue_status", "unlink_known", "unlink_unknown"}
Op == [pc : PCs, item : 0 .. MaxItems, todo : SUBSET Item,
       known : SUBSET (0 .. MaxItems), dest : Dirs]
Idle == [pc |-> "idle", item |-> 0, todo |-> {}, known |-> {}, dest |-> "none"]

HasRow(h) == row[h].status # "none"
Listing(d) == {i \in Item : dir[i] = d}
First(i, S) == i \in S /\ \A j \in S : i <= j   \* list_items_sorted order

(* load_item succeeds and the payload id matches the file name. *)
Readable(i) == body[i].id = i
Older(t, days) == t + days < clock
Days(s) == IF s = "sent" THEN SentDays ELSE FailedDays

(* A rename, and an unlink. *)
Move(i, d) == dir' = [dir EXCEPT ![i] = d]
Unlink(i) == Move(i, "none") /\ body' = [body EXCEPT ![i] = EmptyFile]

Lockable == op.pc = "idle" /\ phase = "ready"
Accepting == op.pc = "idle" /\ phase \in {"ready", "stopping"}
-----------------------------------------------------------------------------
(* DedupStore: each operator is the table after the call. *)

RecordNew(h, i) ==
  [row EXCEPT ![h] = [item |-> i, status |-> "pending", at |-> clock]]

UpdateStatus(h, s) == [row EXCEPT ![h].status = s, ![h].at = clock]

(* Upsert that keeps the item_id and the time of an agreeing row. *)
ReconcileStatus(h, i, s) ==
  IF HasRow(h)
  THEN IF row[h].status # s THEN UpdateStatus(h, s) ELSE row
  ELSE [row EXCEPT ![h] = [item |-> i, status |-> s, at |-> clock]]

DeleteByItemId(ids) ==
  [h \in Hash |-> IF row[h].item \in ids THEN NoRow ELSE row[h]]

(* Mutated form: the status clause is forgotten. *)
ExpiredAnyStatus(s) == {h \in Hash : HasRow(h) /\ Older(row[h].at, Days(s))}

(* Mutated form: the cutoff is inclusive. *)
ExpiredInclusive(s) ==
  {h \in Hash : row[h].status = s /\ row[h].at + Days(s) <= clock}

Expired(s) == {h \in Hash : row[h].status = s /\ Older(row[h].at, Days(s))}
PurgeOlderThan(s) == [h \in Hash |-> IF h \in Expired(s) THEN NoRow ELSE row[h]]
-----------------------------------------------------------------------------
(* initialize, recover_processing, close *)

(* Mutated form: sent/ is not reconciled. *)
ReconcileRankNoSent(d) ==
  CASE d = "pending" -> 1 [] d = "failed" -> 3 [] OTHER -> 0

(* The directories _reconcile_startup_statuses visits, in this order. *)
ReconcileRank(d) ==
  CASE d = "pending" -> 1 [] d = "sent" -> 2 [] d = "failed" -> 3 [] OTHER -> 0

InitializeStart ==
  /\ phase = "closed" /\ op.pc = "idle"
  /\ op' = [Idle EXCEPT !.pc = "reconcile",
                        !.todo = {i \in Item : ReconcileRank(dir[i]) > 0}]
  /\ UNCHANGED <<disk, row, phase, held, clock, spent, history>>

(* _reconcile_status_dir on the next file: unreadable files are skipped. *)
ReconcileItem ==
  /\ op.pc = "reconcile"
  /\ \E i \in op.todo :
       /\ \A j \in op.todo :
            \/ ReconcileRank(dir[i]) < ReconcileRank(dir[j])
            \/ ReconcileRank(dir[i]) = ReconcileRank(dir[j]) /\ i <= j
       /\ op' = [op EXCEPT !.todo = @ \ {i}]
       /\ row' = IF Readable(i)
                 THEN ReconcileStatus(body[i].hash, i, dir[i])
                 ELSE row
  /\ UNCHANGED <<disk, phase, held, clock, spent, history>>

InitializeDone ==
  /\ op.pc = "reconcile" /\ op.todo = {}
  /\ op' = Idle /\ phase' = "opened"
  /\ UNCHANGED <<disk, row, held, clock, spent, history>>

(* relay.start calls recover_processing right after initialize. *)
RecoverStart ==
  /\ phase = "opened" /\ op.pc = "idle"
  /\ op' = [Idle EXCEPT !.pc = "recover", !.todo = Listing("processing")]
  /\ UNCHANGED <<disk, row, phase, held, clock, spent, history>>

RecoverItem(i) ==
  /\ op.pc = "recover" /\ First(i, op.todo)
  /\ Move(i, "pending")
  /\ op' = [op EXCEPT !.todo = @ \ {i}]
  /\ UNCHANGED <<body, nextItem, row, phase, held, clock, spent, history>>

(* Mutated form: returns after the first file. *)
RecoverDoneEarly ==
  /\ op.pc = "recover"
  /\ op' = Idle /\ phase' = "ready"
  /\ UNCHANGED <<disk, row, held, clock, spent, history>>

RecoverDone ==
  /\ op.pc = "recover" /\ op.todo = {}
  /\ op' = Idle /\ phase' = "ready"
  /\ UNCHANGED <<disk, row, held, clock, spent, history>>

(* The steps of a call the worker has made. *)
WorkerCall ==
  op.pc \in {"claim", "purge_corrupt", "purge_payload", "claim_status",
            "claim_record", "claim_update", "sent_status", "failed_move",
            "failed_status"}

(* relay.stop ends the worker between two calls; what it held is dropped. *)
StopWorker ==
  /\ phase = "ready" /\ ~WorkerCall
  /\ phase' = "stopping" /\ held' = 0
  /\ UNCHANGED <<disk, row, op, clock, spent, history>>

(* After 5 s it cancels the worker inside a call: the method ends between two
   durable effects, as it does on an error, and is counted as one. *)
CancelWorkerCall ==
  /\ phase = "ready" /\ WorkerCall
  /\ spent.fault < MaxFaults
  /\ phase' = "stopping" /\ op' = Idle /\ held' = 0
  /\ spent' = [spent EXCEPT !.fault = @ + 1]
  /\ UNCHANGED <<disk, row, clock, history>>

Close ==
  /\ op.pc = "idle" /\ phase \in {"opened", "stopping"}
  /\ phase' = "closed"
  /\ UNCHANGED <<disk, row, op, held, clock, spent, history>>
-----------------------------------------------------------------------------
(* enqueue *)

(* Mutated form: pending/ is not searched, only the table is. *)
NoPendingDuplicates(h) == {}

PendingDuplicates(h) ==
  {i \in Listing("pending") : Readable(i) /\ body[i].hash = h}

EnqueueDuplicate(h) ==
  /\ Accepting /\ HasRow(h)
  /\ acked' = acked \cup {h}
  /\ UNCHANGED <<disk, row, phase, op, held, clock, spent, excused>>

EnqueuePendingDuplicate(h) ==
  /\ Accepting /\ ~HasRow(h)
  /\ \E i \in Item : /\ First(i, PendingDuplicates(h))
                     /\ row' = RecordNew(h, i)
  /\ acked' = acked \cup {h}
  /\ UNCHANGED <<disk, phase, op, held, clock, spent, excused>>

(* Mutated form: the row is committed before the file exists. *)
EnqueueRecordFirst(h) ==
  /\ Accepting /\ ~HasRow(h) /\ PendingDuplicates(h) = {}
  /\ nextItem \in Item
  /\ row' = RecordNew(h, nextItem)
  /\ nextItem' = nextItem + 1
  /\ UNCHANGED <<dir, body, phase, op, held, clock, spent, history>>

(* atomic_write_json: the file appears in pending/ complete or not at all. *)
EnqueueWrite(h) ==
  /\ Accepting /\ ~HasRow(h) /\ PendingDuplicates(h) = {}
  /\ nextItem \in Item
  /\ nextItem' = nextItem + 1
  /\ Move(nextItem, "pending")
  /\ body' = [body EXCEPT ![nextItem] =
                [id |-> nextItem, hash |-> h, attempts |-> 0, due |-> TRUE,
                 perm |-> FALSE, seen |-> clock, mtime |-> clock]]
  /\ op' = [Idle EXCEPT !.pc = "record", !.item = nextItem]
  /\ excused' = excused \ {h}
  /\ UNCHANGED <<row, phase, held, clock, spent, acked>>

EnqueueRecord ==
  LET h == body[op.item].hash IN
  /\ op.pc = "record" /\ ~HasRow(h)
  /\ row' = RecordNew(h, op.item)
  /\ acked' = acked \cup {h}
  /\ op' = Idle
  /\ UNCHANGED <<disk, phase, held, clock, spent, excused>>

(* record_new raised DuplicateMessage: _delete_pending_item, which itself
   raises when the file no longer parses. *)
EnqueueUndo ==
  LET h == body[op.item].hash IN
  /\ op.pc = "record" /\ HasRow(h)
  /\ \/ /\ body[op.item].id # 0
        /\ Unlink(op.item)
        /\ acked' = acked \cup {h}
     \/ /\ body[op.item].id = 0
        /\ UNCHANGED <<dir, body, acked>>
  /\ op' = Idle
  /\ UNCHANGED <<nextItem, row, phase, held, clock, spent, excused>>
-----------------------------------------------------------------------------
(* claim_next *)

(* The worker is free, and skips items it found not yet due in this pass. *)
ClaimStart(skip) ==
  /\ Lockable /\ held = 0
  /\ op' = [Idle EXCEPT !.pc = "claim", !.todo = Listing("pending") \ skip]
  /\ UNCHANGED <<disk, row, phase, held, clock, spent, history>>

ClaimEmpty ==
  /\ op.pc = "claim" /\ op.todo = {}
  /\ op' = Idle
  /\ UNCHANGED <<disk, row, phase, held, clock, spent, history>>

ClaimCorrupt(i) ==
  /\ op.pc = "claim" /\ First(i, op.todo) /\ ~Readable(i)
  /\ Move(i, "failed")
  /\ op' = [op EXCEPT !.pc = "purge_corrupt", !.item = i, !.todo = @ \ {i},
                      !.known = {body[i].id} \ {0}]
  /\ UNCHANGED <<body, nextItem, row, phase, held, clock, spent, history>>

(* Mutated form: only the id in the payload is looked up. *)
PurgePayloadOnly ==
  /\ op.pc = "purge_corrupt"
  /\ row' = DeleteByItemId(op.known)
  /\ op' = [op EXCEPT !.pc = "claim", !.item = 0, !.known = {}]
  /\ UNCHANGED <<disk, phase, held, clock, spent, history>>

(* The rows of the file's id, *)
ClaimPurgeCorrupt ==
  /\ op.pc = "purge_corrupt"
  /\ row' = DeleteByItemId({op.item})
  /\ op' = IF op.known = {}
           THEN [op EXCEPT !.pc = "claim", !.item = 0]
           ELSE [op EXCEPT !.pc = "purge_payload", !.item = 0]
  /\ UNCHANGED <<disk, phase, held, clock, spent, history>>

(* and those of the id in the payload, if it parsed and no file of that id
   exists (_queue_file_exists). *)
ClaimPurgePayload ==
  /\ op.pc = "purge_payload"
  /\ row' = DeleteByItemId({i \in op.known : dir[i] = "none"})
  /\ op' = [op EXCEPT !.pc = "claim", !.known = {}]
  /\ UNCHANGED <<disk, phase, held, clock, spent, history>>

ClaimMove(i) ==
  /\ op.pc = "claim" /\ First(i, op.todo) /\ Readable(i)
  /\ Move(i, "processing")
  /\ op' = [Idle EXCEPT !.pc = "claim_status", !.item = i]
  /\ UNCHANGED <<body, nextItem, row, phase, held, clock, spent, history>>

(* update_status, as the first try and once the row has been repaired. *)
ClaimStatus ==
  LET h == body[op.item].hash IN
  /\ op.pc \in {"claim_status", "claim_update"} /\ HasRow(h)
  /\ row' = UpdateStatus(h, "processing")
  /\ held' = op.item /\ op' = Idle
  /\ UNCHANGED <<disk, phase, clock, spent, history>>

(* The first update_status raises ItemNotFound. *)
ClaimUnrecorded ==
  /\ op.pc = "claim_status" /\ ~HasRow(body[op.item].hash)
  /\ op' = [op EXCEPT !.pc = "claim_record"]
  /\ UNCHANGED <<disk, row, phase, held, clock, spent, history>>

ClaimRecord ==
  LET h == body[op.item].hash IN
  /\ op.pc = "claim_record" /\ ~HasRow(h)
  /\ row' = RecordNew(h, op.item)
  /\ op' = [op EXCEPT !.pc = "claim_update"]
  /\ UNCHANGED <<disk, phase, held, clock, spent, history>>

(* record_new raises DuplicateMessage, because the importer has been faster,
   and so does claim_next: the item stays in processing/ and nobody holds it. *)
ClaimDuplicate ==
  /\ op.pc = "claim_record" /\ HasRow(body[op.item].hash)
  /\ op' = Idle
  /\ UNCHANGED <<disk, row, phase, held, clock, spent, history>>
-----------------------------------------------------------------------------
(* What the worker does with a claimed item *)

InProcessing == Lockable /\ held # 0 /\ dir[held] = "processing"

MarkSent ==
  /\ InProcessing
  /\ Move(held, "sent")
  /\ op' = [Idle EXCEPT !.pc = "sent_status", !.item = held]
  /\ UNCHANGED <<body, nextItem, row, phase, held, clock, spent, history>>

(* The status update of mark_sent and of mark_failed; it raises ItemNotFound,
   to no effect, when the row is gone. *)
FinishStatus(from, s) ==
  LET h == body[op.item].hash IN
  /\ op.pc = from
  /\ row' = IF HasRow(h) THEN UpdateStatus(h, s) ELSE row
  /\ op' = Idle /\ held' = 0
  /\ UNCHANGED <<disk, phase, clock, spent, history>>

MarkSentStatus == FinishStatus("sent_status", "sent")

(* save_item writes the worker's own copy: the file is readable again. *)
MarkFailed(perm) ==
  /\ InProcessing
  /\ body' = [body EXCEPT ![held].id = held, ![held].perm = perm,
                          ![held].mtime = clock]
  /\ op' = [Idle EXCEPT !.pc = "failed_move", !.item = held]
  /\ UNCHANGED <<dir, nextItem, row, phase, held, clock, spent, history>>

MarkFailedMove ==
  /\ op.pc = "failed_move"
  /\ Move(op.item, "failed")
  /\ op' = [op EXCEPT !.pc = "failed_status"]
  /\ UNCHANGED <<body, nextItem, row, phase, held, clock, spent, history>>

MarkFailedStatus == FinishStatus("failed_status", "failed")

(* Mutated form: the attempt is counted by the caller and again here. *)
UpdateAttemptTwice ==
  /\ InProcessing /\ body[held].attempts < MaxAttempts
  /\ body' = [body EXCEPT ![held].attempts = @ + 2, ![held].due = FALSE]
  /\ UNCHANGED <<dir, nextItem, row, phase, op, held, clock, spent, history>>

UpdateAttempt ==
  /\ InProcessing /\ body[held].attempts < MaxAttempts
  /\ body' = [body EXCEPT ![held].id = held, ![held].attempts = @ + 1,
                          ![held].due = FALSE, ![held].mtime = clock]
  /\ UNCHANGED <<dir, nextItem, row, phase, op, held, clock, spent, history>>

(* The row keeps saying "processing". *)
MoveBackToPending ==
  /\ InProcessing
  /\ Move(held, "pending")
  /\ held' = 0
  /\ UNCHANGED <<body, nextItem, row, phase, op, clock, spent, history>>
-----------------------------------------------------------------------------
(* requeue_failed, cleanup_sent, cleanup_failed: the cleanup scheduler *)

(* What requeue_failed takes back; the cutoff on first_seen_at is computed
   once, when it is called. *)
Retryable(i) == Readable(i) /\ ~body[i].perm

(* Mutated form: takes what has been settled either way. *)
RequeueStartSettled ==
  /\ Lockable
  /\ op' = [Idle EXCEPT !.pc = "requeue",
              !.todo = {i \in Listing("failed") \cup Listing("sent") :
                          ~Older(body[i].seen, FailedDays)}]
  /\ UNCHANGED <<disk, row, phase, held, clock, spent, history>>

RequeueStart ==
  /\ Lockable
  /\ op' = [Idle EXCEPT !.pc = "requeue",
              !.todo = {i \in Listing("failed") : ~Older(body[i].seen, FailedDays)}]
  /\ UNCHANGED <<disk, row, phase, held, clock, spent, history>>

RequeueSkip(i) ==
  /\ op.pc = "requeue" /\ First(i, op.todo) /\ ~Retryable(i)
  /\ op' = [op EXCEPT !.todo = @ \ {i}]
  /\ UNCHANGED <<disk, row, phase, held, clock, spent, history>>

RequeueMove(i) ==
  /\ op.pc = "requeue" /\ First(i, op.todo) /\ Retryable(i)
  /\ Move(i, "pending")
  /\ op' = [op EXCEPT !.pc = "requeue_status", !.item = i, !.todo = @ \ {i}]
  /\ UNCHANGED <<body, nextItem, row, phase, held, clock, spent, history>>

(* update_status raises ItemNotFound, which ends the whole call, when the row
   is gone. *)
RequeueStatus ==
  LET h == body[op.item].hash IN
  /\ op.pc = "requeue_status"
  /\ IF HasRow(h)
     THEN /\ row' = UpdateStatus(h, "pending")
          /\ op' = [op EXCEPT !.pc = "requeue", !.item = 0]
     ELSE row' = row /\ op' = Idle
  /\ UNCHANGED <<disk, phase, held, clock, spent, history>>

RequeueDone ==
  /\ op.pc = "requeue" /\ op.todo = {}
  /\ op' = Idle
  /\ UNCHANGED <<disk, row, phase, held, clock, spent, history>>

(* item_ids_older_than and item_ids: both read before any file is removed. *)
CleanupStart(d) ==
  /\ Lockable
  /\ op' = [Idle EXCEPT !.pc = "unlink_known", !.dest = d,
              !.todo = {row[h].item : h \in Expired(d)} \cap Listing(d),
              !.known = {row[h].item : h \in {g \in Hash : HasRow(g)}}]
  /\ UNCHANGED <<disk, row, phase, held, clock, spent, history>>

CleanupUnlink(i) ==
  /\ op.pc \in {"unlink_known", "unlink_unknown"} /\ First(i, op.todo)
  /\ Unlink(i)
  /\ op' = [op EXCEPT !.todo = @ \ {i}]
  /\ excused' = excused \cup {body[i].hash}
  /\ UNCHANGED <<nextItem, row, phase, held, clock, spent, acked>>

(* _remove_unknown_files_older_than: no row names the file, and it is old. *)
CleanupUnknown ==
  /\ op.pc = "unlink_known" /\ op.todo = {}
  /\ op' = [op EXCEPT !.pc = "unlink_unknown",
              !.todo = {i \in Listing(op.dest) \ op.known :
                          Older(body[i].mtime, Days(op.dest))}]
  /\ UNCHANGED <<disk, row, phase, held, clock, spent, history>>

(* purge_older_than computes a cutoff of its own, later than the first. *)
CleanupPurge ==
  /\ op.pc = "unlink_unknown" /\ op.todo = {}
  /\ row' = PurgeOlderThan(op.dest)
  /\ op' = Idle
  /\ UNCHANGED <<disk, phase, held, clock, spent, history>>
-----------------------------------------------------------------------------
(* The environment *)

Tick ==
  /\ clock < MaxClock
  /\ clock' = clock + 1
  /\ UNCHANGED <<disk, row, phase, op, held, spent, history>>

RetryTimeComes(i) ==
  /\ ~body[i].due
  /\ body' = [body EXCEPT ![i].due = TRUE]
  /\ UNCHANGED <<dir, nextItem, row, phase, op, held, clock, spent, history>>

(* A file becomes unreadable (id 0), or holds the payload of another item. *)
DamageFile(i, id) ==
  /\ spent.damage < MaxDamages
  /\ dir[i] # "none" /\ Readable(i) /\ id # i
  /\ body' = [body EXCEPT ![i].id = id]
  /\ excused' = excused \cup {body[i].hash}
  /\ spent' = [spent EXCEPT !.damage = @ + 1]
  /\ UNCHANGED <<dir, nextItem, row, phase, op, held, clock, acked>>

(* load_item reports any OSError as corruption, so damage can be transient. *)
HealFile(i) ==
  /\ dir[i] # "none" /\ ~Readable(i)
  /\ body' = [body EXCEPT ![i].id = i]
  /\ UNCHANGED <<dir, nextItem, row, phase, op, held, clock, spent, history>>

(* The importer marks an SMS the old gateway has delivered: INSERT OR IGNORE,
   from another process, at any time. *)
ImportRow(h) ==
  /\ spent.import < MaxImports
  /\ ~HasRow(h)
  /\ row' = [row EXCEPT ![h] = [item |-> 0, status |-> "sent", at |-> clock]]
  /\ excused' = excused \cup {h}
  /\ spent' = [spent EXCEPT !.import = @ + 1]
  /\ UNCHANGED <<disk, phase, op, held, clock, acked>>

(* An I/O call raises: the method ends there and the lock is released.  In
   initialize and recover_processing the relay rolls its start back; an error
   of the worker's call makes it drop its item (run logs and goes on). *)
Fault ==
  /\ spent.fault < MaxFaults
  /\ op.pc # "idle" \/ held # 0
  /\ op' = Idle
  /\ phase' = IF op.pc \in {"reconcile", "recover"} THEN "closed" ELSE phase
  /\ held' = IF op.pc = "idle" \/ WorkerCall THEN 0 ELSE held
  /\ spent' = [spent EXCEPT !.fault = @ + 1]
  /\ UNCHANGED <<disk, row, clock, history>>

Crash ==
  /\ spent.crash < MaxCrashes
  /\ phase # "closed" \/ op.pc # "idle"
  /\ op' = Idle /\ phase' = "closed" /\ held' = 0
  /\ spent' = [spent EXCEPT !.crash = @ + 1]
  /\ UNCHANGED <<disk, row, clock, history>>
-----------------------------------------------------------------------------
QueueInit ==
  /\ dir = [i \in Item |-> "none"]
  /\ body = [i \in Item |-> EmptyFile]
  /\ nextItem = 1
  /\ row = [h \in Hash |-> NoRow]
  /\ phase = "closed" /\ op = Idle /\ held = 0
  /\ clock = 0
  /\ spent = [crash |-> 0, fault |-> 0, damage |-> 0, import |-> 0]
  /\ acked = {} /\ excused = {}

Start == \/ InitializeStart \/ ReconcileItem \/ InitializeDone
         \/ RecoverStart \/ (\E i \in Item : RecoverItem(i))
         \/ RecoverDone \/ StopWorker \/ CancelWorkerCall \/ Close

Enqueue == \/ \E h \in Hash : \/ EnqueueDuplicate(h)
                              \/ EnqueuePendingDuplicate(h)
                              \/ EnqueueWrite(h)
           \/ EnqueueRecord \/ EnqueueUndo

Claim == \/ \E skip \in SUBSET Item : ClaimStart(skip)
         \/ \E i \in Item : ClaimCorrupt(i) \/ ClaimMove(i)
         \/ ClaimEmpty \/ ClaimPurgeCorrupt \/ ClaimPurgePayload
         \/ ClaimStatus \/ ClaimUnrecorded \/ ClaimRecord \/ ClaimDuplicate

Settle == \/ MarkSent \/ MarkSentStatus
          \/ \E perm \in BOOLEAN : MarkFailed(perm)
          \/ MarkFailedMove \/ MarkFailedStatus
          \/ UpdateAttempt \/ MoveBackToPending

Cleanup == \/ RequeueStart \/ RequeueStatus \/ RequeueDone
           \/ \E d \in {"sent", "failed"} : CleanupStart(d)
           \/ \E i \in Item : RequeueSkip(i) \/ RequeueMove(i) \/ CleanupUnlink(i)
           \/ CleanupUnknown \/ CleanupPurge

Environment ==
  \/ Tick \/ Fault \/ Crash
  \/ \E i \in Item : \/ RetryTimeComes(i) \/ HealFile(i)
                     \/ \E id \in 0 .. MaxItems : DamageFile(i, id)
  \/ \E h \in Hash : ImportRow(h)

QueueNext == Start \/ Enqueue \/ Claim \/ Settle \/ Cleanup \/ Environment

QueueSpec == QueueInit /\ [][QueueNext]_queueVars
-----------------------------------------------------------------------------
(* Properties *)

(* Every variable stays in its domain. *)
QueueTypeOK ==
  /\ dir \in [Item -> Dirs]
  /\ body \in [Item -> Body]
  /\ nextItem \in 1 .. MaxItems + 1
  /\ row \in [Hash -> Row]
  /\ phase \in {"closed", "opened", "ready", "stopping"}
  /\ op \in Op
  /\ held \in 0 .. MaxItems
  /\ clock \in Nat
  /\ spent \in [crash : Nat, fault : Nat, damage : Nat, import : Nat]
  /\ acked \subseteq Hash /\ excused \subseteq Hash

(* Some readable file carries the message of hash h. *)
Backed(h) == \E i \in Item : dir[i] # "none" /\ Readable(i) /\ body[i].hash = h

(* Once enqueue has returned for an SMS (relay.py then deletes it from the
   modem) a readable queue file carries it, whatever crashes and I/O errors
   come between the file and the table writes, unless retention removed it,
   its file was damaged, or the importer said it had been delivered.  In
   particular a dedup hit never answers for a message nobody holds. *)
NoAckedLoss == \A h \in acked : Backed(h) \/ h \in excused

(* What keeps NoAckedLoss inductive.  A dedup hit may answer for any row, so
   every row needs its file; enqueue and claim_next insert a row only when the
   file is there, and no row appears meanwhile but the importer's; a new item never overwrites a file;
   and only ids that were given out are in anyone's hands. *)
RowBacked == \A h \in Hash : HasRow(h) => Backed(h) \/ h \in excused
RowFollowsFile ==
  /\ op.pc \in {"record", "claim_status", "claim_record", "claim_update"} =>
       /\ op.item \in Item /\ dir[op.item] # "none"
       /\ Readable(op.item) \/ body[op.item].hash \in excused
  /\ op.pc = "record" /\ HasRow(body[op.item].hash) =>
       body[op.item].hash \in excused
FreshIds ==
  /\ \A i \in Item : i >= nextItem => dir[i] = "none"
  /\ op.item < nextItem /\ held < nextItem
  /\ \A i \in op.todo : i < nextItem
AckInv == RowBacked /\ NoAckedLoss /\ RowFollowsFile /\ FreshIds

(* The item will be delivered, now or after requeue_failed. *)
Live(i) ==
  /\ Readable(i)
  /\ \/ dir[i] \in {"pending", "processing"}
     \/ dir[i] = "failed" /\ ~body[i].perm /\ ~Older(body[i].seen, FailedDays)

(* No retention period has passed since the queue was created. *)
Young == clock <= SentDays /\ clock <= FailedDays

(* claim_next cannot find that the importer has been faster: nothing was
   imported, or the queue is young and undamaged and its items all have rows. *)
NoLateImport == spent.import = 0 \/ (Young /\ spent.damage = 0)

(* No SMS is in the queue twice: whatever crashes come, and until a retention
   period has passed whatever the importer does and after one I/O error, two
   undelivered items never share a content hash.  The bounds are tight.  One
   error between the rename and the table update of claim_next, on a row that
   reconciliation left terminal, lets cleanup purge the row of an item in
   processing/.  So does an import while claim_next repairs a missing row: the
   item stays in processing/ under a row that says "sent". *)
OneLivePerHash ==
  /\ spent.damage = 0
  /\ \/ spent.fault = 0 /\ spent.import = 0
     \/ spent.fault <= 1 /\ Young
  => \A i, j \in Item : Live(i) /\ Live(j) /\ i # j => body[i].hash # body[j].hash

(* The statuses a row may have when its item's file lies in d. *)
StatusesOf(d) ==
  IF d \in {"pending", "processing"} THEN {"pending", "processing"} ELSE {d}

(* Between calls of a started queue the table agrees with the directories,
   wherever a crash separated a rename from its table update: the row of an
   item being delivered always says so (no duplicate gets in, no cleanup
   purges it), and until a retention period has passed every file has a row
   of its own with the status of its directory.  Past that the second part
   is false: cleanup_sent can purge a row whose file it left (it reads the
   clock twice), the hash is enqueued again, and the next reconciliation
   gives the one row the status of the last file it visits.  An item whose row
   went that way is also where the importer can be faster than claim_next. *)
StatusAgreement ==
  phase = "ready" /\ op.pc = "idle" /\ spent.fault = 0 /\ spent.damage = 0
    /\ NoLateImport =>
    \A i \in Item :
      LET r == row[body[i].hash] IN
      /\ dir[i] = "processing" => r.status = "processing"
      /\ dir[i] # "none" /\ Young => r.status \in StatusesOf(dir[i])

(* A row that says an item is still to be delivered stands for a file in
   pending/ or processing/, so it does not suppress that SMS for ever (only
   sent and failed rows are purged).  Damaged files included: claim_next
   removes their rows, by the id of the file.  A crash between its two steps
   is not repaired, so the claim is about runs without crashes and I/O errors
   and with one damaged file (a transient one may come back from failed/ to a
   row of a later item with its hash).  With a damaged file it also needs that
   the importer has added nothing or no retention period has passed: an
   imported row has no id, and takes the place of one that cleanup_sent purged
   from under an item requeue_failed has just taken back. *)
LiveRowHasFile ==
  spent.crash = 0 /\ spent.fault = 0 /\ spent.damage <= 1 /\ op.pc = "idle"
    /\ (spent.damage = 0 \/ spent.import = 0 \/ Young) =>
    \A h \in Hash : row[h].status \in {"pending", "processing"} =>
      \E i \in Item : dir[i] \in {"pending", "processing"} /\ body[i].hash = h

(* While the worker runs, a file in processing/ is the item it holds or is
   just claiming or settling: nothing is stranded where only the next start
   looks (recover_processing), however often the process crashed before.  An
   I/O error in one of the worker's calls does strand its item, and so does a
   row the importer inserts while claim_next repairs it. *)
NothingStranded ==
  phase = "ready" /\ spent.fault = 0 /\ spent.import = 0 =>
    \A i \in Listing("processing") : i \in {held, op.item}

(* Retention never removes a message that is still to be delivered or that
   requeue_failed would still take back: the age of a row and of a file is
   counted from a moment after first_seen_at. *)
RetentionSparesLive ==
  [][\A i \in Item : op.pc \in {"unlink_known", "unlink_unknown"} /\ Live(i) =>
       dir'[i] # "none"]_queueVars
=============================================================================
