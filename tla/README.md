# TLA+ models of sms_gateway_v2

sms_gateway_v2 takes SMS from a modem (ModemManager over D-Bus), keeps them in
a durable queue on disk and delivers them to a Telegram chat. What it promises
is simple to say and hard to test: no SMS is lost and none is delivered twice
without a reason, wherever the process crashes, a call fails, an answer is lost
or two coroutines meet. The modules here state that promise, check it with TLC
on small instances, and prove parts of it with TLAPS for every instance.

Paths such as `queue/queue.py` are under `src/sms_gateway_v2/` of the
repository.

## 1. Inventory of the system

| Component | State it keeps | Operations | What makes it correct |
|---|---|---|---|
| Durable queue, `queue/queue.py`, `queue/paths.py` | one JSON file per item in `pending/`, `processing/`, `sent/`, `failed/` | `initialize`, `recover_processing`, `enqueue`, `claim_next`, `mark_sent`, `mark_failed`, `update_attempt`, `move_back_to_pending`, `requeue_failed`, `cleanup_sent`, `cleanup_failed`, `close` | what `enqueue` accepted is kept; no SMS is in the queue twice; files and table agree again after a crash |
| Dedup store, `queue/dedup.py` | table `seen_messages` in SQLite: hash, item id, status, time | `record_new`, `update_status`, `reconcile_status`, `delete_by_item_id`, `purge_older_than` | a row never answers for a message nobody holds |
| Importer, `scripts/import-gammu-dedup.py` | none | inserts `sent` rows from another process | does not make the queue lose an SMS it accepted |
| Delivery worker, `worker/worker.py` | `_wakeup_event`, `_stop_event`, the claimed item | `run`, `wakeup`, `stop`, `reset` | every item is settled; no wakeup is lost; what is filed as sent was sent |
| Telegram client, `telegram/client.py` | the HTTP client | `send_message` with its own retries | at most `max_retries` POSTs; copies only after lost answers |
| Cleanup scheduler, `relay/cleanup_scheduler.py` | `_stop_event` | requeue, two cleanups, every interval | retention spares what is still to be delivered |
| Relay, `relay/relay.py` | `_status`, `_sms_handler_lock`, `_pending_text_retries` | `start` with drain and rollback, `stop`, `_on_new_sms`, text retries | an SMS leaves the modem only when the queue holds it; none is overlooked |
| ModemManager client, `modem/client.py` | bus, `_modem_path`, watch callbacks, attached handlers, `_added_watch_resubscribe_required` | `connect`, `list_sms_paths`, `read_message`, `delete_message`, `watch_added`, polls, `enable`, `reset` with its wait, every recovery and resubscription, `disconnect` | a modem has one handler; a client without one knows it; a reset is over only when the object is a new one; once a modem stays it is listened to |
| Modem watchdog, `relay/watchdog.py` | `_consecutive_zero_signal_polls`, `_bad_state_since`, `_last_enable_attempt_at`, `_stop_event` | poll, enable, reset, stop | acts only on trouble it has just read, enables exactly once per cooldown, does not give up |
| Application, `app.py` | the clients, the tasks and their stop events | startup, rollback, shutdown task by task | nothing is closed under the five tasks; what was opened is closed again, or closing it failed; a shutdown ends |
| Heartbeat `relay/heartbeat.py`, gauge updater `metrics/gauge_updater.py` | a stop event | a loop each | they stop before what they read is closed |
| Metrics, HTTP routes, configuration | counters, values | | nothing in the program depends on them |

How they interact. `app.py` starts the relay, then the cleanup, watchdog, gauge
and heartbeat tasks. The relay calls the modem client and the queue; the modem
client calls the relay back for each MessageAdded signal in a task of its own.
The relay wakes the worker after each `enqueue`. The worker, the cleanup and
the relay share the queue, whose methods run under one `asyncio.Lock`. The
queue shares its SQLite file with the importer. All coroutines run on one event
loop, so they interleave only where they await.

What is hard. (1) Each queue method is several durable effects, and a crash, an
error or a cancellation may come between any two. (2) The file and the row of
an item are two records of one fact. (3) The worker's lost answers and crashes
force a choice between loss and duplication. (4) The drain, the signal handlers
and the retries of undecoded text work on the same SMS. (5) Stop and rollback
run while handlers are in flight. (6) Retention is computed from several
timestamps and several readings of the clock. (7) The modem object vanishes and
comes back, under the same path or another, while the relay, its handlers and
the watchdog each hold a path they looked up before an await. (8) The shutdown
stops tasks that may be in the middle of their work, dead, or in a thread that
no cancellation reaches.

## 2. Modules

| Module | Models | Extends |
|---|---|---|
| `DurableQueue` | queue, dedup store, file operations, importer | |
| `Outbox` | abstract: what the delivery path promises about one SMS | |
| `DeliveryWorker` | worker, Telegram retry loop, cleanup scheduler, start and stop around them, composed with the queue; refines `Outbox` | `DurableQueue` |
| `SmsRelay` | relay over the modem's storage; the queue reduced to what `enqueue` promises | |
| `ModemWatch` | modem client: path, handlers, recoveries, reset, under several coroutines | |
| `ModemWatchdog` | the watchdog's polls, triggers and cooldowns | |
| `AppLifecycle` | startup, background tasks, shutdown | |
| `DurableQueueProofs`, `DeliveryWorkerProofs`, `OutboxProofs`, `SmsRelayProofs`, `SmsRetryProofs`, `ModemWatchProofs`, `ModemWatchdogProofs`, `AppLifecycleProofs` | theorems | the module (`OutboxProofs`: the delivery path with its abstraction; `SmsRetryProofs`: the relay's text retries), TLAPS |
| `MCDurableQueue`, `MCDeliveryWorker`, `MCSmsRelay`, `MCModemWatch`, `MCModemWatchdog`, `MCAppLifecycle` | instances for TLC | the module |

A definition called "Mutated form" is not part of a model. It is a plausible
mistake in the definition that follows it; substituting it must make a property
fail, which shows that the property depends on that code.

### DurableQueue

`dir` and `body` are the files, `row` the table, `op` the method that holds the
lock with its program counter and what it has read, `held` the item the worker
has claimed, `phase` how far start or stop has come. An action has at most one
durable effect: a rename (`Move`), an unlink, a save, a commit. The two commits
with which `claim_next` repairs a missing row are two actions (`ClaimRecord`,
`ClaimStatus`), with the lookup that failed before them (`ClaimUnrecorded`), and
so are the two deletes for a file that carries another item's id. A read is
merged with the effect that follows under the same lock where nothing can come
between that changes its result (the importer, a damaged file); what is read
early and used late is kept in `op` (`todo`, `known`). `record_new` looks at the
table when it inserts: `ClaimDuplicate` is its DuplicateMessage after the importer
was faster, with which `claim_next` raises and leaves the item in `processing/`. `acked` and `excused` are history: the hashes for which
`enqueue` returned, so that the relay may delete the SMS, and those whose last
copy may be gone by design (retention, damage, import).

A content hash stands for number, text and time bucket. A body keeps the id
inside the payload, so a file can be unreadable or carry another item's payload
(`DamageFile`), for good or for a while (`HealFile`: `load_item` reports every
OSError as corruption).

### DeliveryWorker

`wpc` is where the worker awaits next, `cpc` which method the cleanup calls
next. A queue call is the corresponding action of `DurableQueue`, conjoined
with what the caller does before or after it. A POST and its outcome are one
action: accepted and seen, refused for good, unanswered (perhaps accepted),
unexpected. `sends`, `doubts` and `late` are history. `doubts` counts the answers
that were lost, and the interruptions (crash, error, cancellation) between an
acceptance and the rename to `sent/` (`UnfiledDelivery`); an interruption after
that rename is none, the file is the record. A claim that raises (`ClaimFails`)
ends the pass like one that finds nothing.

Two abstract specifications are shown to be implemented. `DurableQueue` itself:
the property `QueueSpec` says that whatever worker, cleanup and relay do, they
change the queue only through its methods under its lock. And `Outbox`, which
knows no directories, tables, locks or crashes: an SMS waits, is transmitted
while it waits, is delivered after at least one accepted transmission or given
up, may be taken back after it was given up, and a delivered one never waits
again. The refinement mapping (`Box`, `StageOf`) reads the stage of an item off
its directory; the SMS is the item, its copies are `sends`.

### SmsRelay

`stored` and `decoded` describe the modem, `pc` is start or stop in progress,
`job` the holder of `_sms_handler_lock`, `waiting` the handlers that wait for
it, `retry` the retry tasks and `registry` the dictionary that is supposed to
know them. The two differ exactly after a cancellation, which is where the
finding below comes from. Of the queue the module keeps the promise
`NoAckedLoss` that `DurableQueueProofs` proves: what is accepted is kept.

### ModemWatch

`exposed` and `bare` are ModemManager's objects: a modem is listed as soon as
its object exists, while its Messaging and 3GPP interfaces may come later.
`client` holds the fields of `ModemManagerClient`; `live` counts the handlers
attached on the bus for each path, which is what duplicates of a handler would
show in. `task` is the call each coroutine is in: `Main` is `SmsRelay.start`
followed by the watchdog, which never overlap; `Handler` are those that delete
messages. Every await is two steps. `Answer` makes the reply from the objects of
that moment, or an error; later the coroutine goes on with it up to its next
await. That is where a listing or an interface is out of date when it is used.
The three levels of lookup of `_get_modem_interfaces_from_proxy` and its
siblings are `look1`, `look2`, `look3` with the searches `find1` to `find3` before
them; the same code resolves the lookups of a subscription (`inner`), and `ret`
says where `_subscribe_missing_added_watchers` was called from. `aged` is
history about the object that was reset.

### ModemWatchdog

Signal, registration and state are three reads of a modem that changes between
them. A datetime is kept as its age in ticks, cut off where it no longer
matters; `age` is the attempt time the code stores, which `Defer` may put into
the future, and `called`, `frozen` are history: when `enable` was really called
last and how that ended.

### AppLifecycle

`phase` is the position in `lifespan`, `_startup_relay` and `_shutdown_relay`, and
in `SmsRelay.start`, `stop` and the rollback between them. `open` is what is
open: the Telegram client, the bus of the modem client, the connection to
`dedup.db`. `initialized` is what the rollback goes by: `Queue.initialize` opens
the connection (`OpenStore`) before it creates and reconciles the table
(`OpenQueue`), and the rollback skips `Queue.close` when it has not returned
(`NotInitialized`). `stuck` is history: what a failed step has left open. `job`
is the state of each task and of the relay's worker, `threads` the tasks that
have a thread of `asyncio.to_thread` at work on the queue's files. A cancelled
task is over, its thread is not. `Fragile` are the tasks whose work can raise
what they do not catch: the watchdog catches `ModemError`, the heartbeat
`TelegramError` and `ValidationError`, the two others every `Exception`.

## 3. What the runs check

| Run | Instance | Properties |
|---|---|---|
| `DurableQueue_crash` | 2 hashes, 3 items, 2 crashes, clock past both retentions, no import | `NoAckedLoss`, `OneLivePerHash`, `StatusAgreement`, `NothingStranded`, `RetentionSparesLive` |
| `DurableQueue_fault` | 2 items of a hash, a retry; one error, damaged file, import and tick, no crash | `QueueTypeOK`, `NoAckedLoss`, `OneLivePerHash`, `LiveRowHasFile` |
| `DeliveryWorker_refine` | 1 item, a retry, a second copy; two crashes, one error and one import, no tick | `QueueSpec`, `ImplementsOutbox`, `WorkerTypeOK`, `SentMeansDelivered`, `ResendsExplained`, `EventuallySettled` |
| `DeliveryWorker_live` | 2 items that compete, a retry, no failure | `NoLostWakeup`, `OneItemPerSms`, `EventuallySettled` |
| `SmsRelay_safety` | 3 SMS, 1 not inbound; one failing call and one crash | `RelayTypeOK`, `NoSmsLost`, `OneRetryPerPath`, `NothingUnattended` |
| `SmsRelay_live` | 2 SMS, 2 attempts, fair | `DroppedAfterRetries`, `EventuallyHandled` |
| `SmsRelay_leak` | 2 SMS | `NoLeakedRetry`, violated |
| `ModemWatch_safety` | 2 paths, main and a handler; one reset, two changes, one error | `WatchTypeOK`, `OneHandlerPerPath`, `OwedUnlessWatched`, `ReappearedMeansReplaced`, `EventuallyListening` |
| `ModemWatch_race` | 2 paths, main and a handler, four changes, no reset, no error | `WatchedOrOwed`, violated |
| `ModemWatchdog_safety` | threshold 2, bad time 2, cooldowns 2 and 3, two failing calls | `WatchdogTypeOK`, `TroubleIsFresh`, `EnableSpacing`, `TroubleIsTreated` |
| `AppLifecycle_shutdown` | watchdog and heartbeat fragile, two faults (a step of start or of closing, or a task that dies) | `LifecycleTypeOK`, `UsersFirst`, `ClosedWhenDown`, `LeftBehind`, `ShutdownEnds` |
| `AppLifecycle_dead` | the watchdog may die | `ShutdownStopsRelay`, violated |

The exact constants are in the `.cfg` files. Every bound is a constant named in
its module: `MaxItems`, `MaxCrashes`, `MaxFaults`, `MaxDamages`, `MaxImports`,
`MaxClock`, `MaxSends`, `MaxSms`, `MaxTasks`, `MaxResets`, `MaxChanges`. `MaxAttempts` and `MaxPosts` are
settings of the program (the length of the retry schedule, `max_retries`), as are
the four durations of `ModemWatchdog`.

Why the bounds are enough to be worth running. Two items of one hash are what a
duplicate needs, two of different hashes what competition needs. One crash
between two effects and a second one during the recovery are what a
reconciliation can get wrong; a third finds the state of the first. Retention
needs one tick less and one more than a period. Three SMS let one wait, one be
drained and one be skipped. Two paths, a vanishing and an appearing are what it
takes to hold a path that has been replaced; one reset adds the object that is
still listed while it dies. Paths are only names, so `MCModemWatch` gives the
modem that is there at the start a fixed one. The frozen cooldown is longer than
the normal one in the run; that the order of the two does not matter is a
theorem. In all runs the mutated form of each relevant
definition is found within the same bounds.

`DurableQueue_fault` lets the clock run for one tick and keeps nothing longer
than that, so that a retention period is over in the middle of everything else.
Crashes are in `DurableQueue_crash` and in `DeliveryWorker_refine`. The two `DeliveryWorker` runs
stay within the first retention period: retention is in the two `DurableQueue`
runs, and that its removals are steps of `Outbox` is the theorem
`DeliveryImplementsOutbox`.

Some properties are weaker than one would first write them, because the
stronger form is false, and the comments say why. `OneLivePerHash` allows one
I/O error only within the first retention period: an error between the rename
and the table update of `claim_next` leaves a row whose purge lets the SMS in
again. An import can do the same without an error. A cleanup past a retention
period can leave a file in `pending/` without a row, and so can a damaged file
that recovers; if the importer inserts that row while `claim_next` repairs it,
`record_new` raises (`queue/queue.py:189`), and the item stays in `processing/` under a
row that says `sent` until the next start. `NothingStranded` and `OneLivePerHash`
beyond the first retention period therefore exclude imports, and
`StatusAgreement`, `NoLostWakeup` and `EventuallySettled` exclude late ones
(`NoLateImport`). No property covers that case: `NoAckedLoss` takes an imported row
for an SMS that was delivered elsewhere. `StatusAgreement` demands less of `sent/` and `failed/` once a retention
period has passed: the cleanup selects files and rows with two different
cutoffs. `LiveRowHasFile` is about runs without a crash: `claim_next` moves a
corrupt file and removes its row in two steps that nothing reconciles. With a
damaged file it also asks that the importer has written nothing or no retention
period has passed: an imported row names no item, so the removal by id does not
find it where it has taken the place of a row `cleanup_sent` purged from under an
item that `requeue_failed` had just taken back. `OneItemPerSms` is about the time
before the first retention period is over (later the SMS counts as new); its run
is without failures, since the liveness property beside it needs them absent, and
the crash, the error and the import are the theorem's.
`OwedUnlessWatched` is about a client with no handler at all; that the handler is
on the cached modem (`WatchedOrOwed`) is false, see the findings, and
`EventuallyListening` is therefore about behaviours in which no two coroutines
are inside the client at once. `ClosedWhenDown`
leaves two exceptions: what raised when it was closed, and `dedup.db` when
`Queue.initialize` failed between opening it and returning, because the rollback
goes by `queue_initialized` (`relay/relay.py:441`). `UsersFirst` and it speak of the
worker and the four background tasks; the handlers of MessageAdded and the text
retries are in nobody's list, see `SmsRelay_leak`. `LeftBehind` allows the thread of a cancelled
task to work on the files of a queue that is closed: `tasks/PR-002.md:41` has
the gauge updater stopped first to avoid that, but after two seconds its task is
cancelled and its thread goes on.

### Fairness

`FairWorkerSpec`: whoever holds the lock goes on (weak); the worker's calls are
strongly fair because `asyncio.Lock` serves its waiters in order; POSTs time
out, the idle wait ends after 60 s, the service manager restarts the process and
a start is not rolled back for ever (`SF` on `RecoverStart`), time passes for
retries. Nothing is assumed of enqueue calls, the cleanup, stop, retention or
failures. `EventuallySettled` is stated for behaviours in which the service is
not stopped again and again and `requeue_failed` does not go on moving files:
an item that fails with an unexpected exception is put back ahead of all newer
ones, and with instances this small it can keep the worker busy. That starvation
is a weakness of the code which no property here catches.

`FairRelaySpec`: weak fairness of start, stop, the lock, its holder and the
retry tasks. `EventuallyHandled` assumes that the relay stays up from some
moment on; nothing is assumed of the modem.

`FairWatchSpec`: some coroutine that can run does (weak), the watchdog polls for
ever, and the clock of a waiting reset runs out however often it polls (strong,
since a poll disables it again and again). Nothing is assumed of the modem:
`EventuallyListening` begins with a modem that stays.

`FairWatchdogSpec`: calls return or raise, the interval elapses, time passes.

`FairLifecycleSpec`: the lifespan runs, its timeouts expire and a waiting task
notices its stop event. That the work of a task ever ends is not assumed, which
is what makes `ShutdownEnds` depend on the timeouts.

### Findings

`SmsRelay_leak`: `tasks/PR-025.md:88` says that cancelling the pending retries
on shutdown "guarantees no leaked tasks". `_stop_started_relay` cancels them
first (`relay/relay.py:130`) and disconnects last. A MessageAdded handler that
is reading an SMS at that moment finds no text and schedules a retry that
nobody cancels. No SMS is lost by it (`NoSmsLost` holds in all runs), which is
why no user sees it.

`ModemWatch_race`: `tasks/PR-022.md:163` says a recovery "atomically
re-subscribes added watchers against the new path". Between `find_modem` and the
subscription there are awaits. Two coroutines recover at once; one subscribes to
the modem it found and clears the flag (`modem/client.py:670`), then the other's
`find_modem` stores the path of a listing of another moment
(`modem/client.py:242`). The cached modem now has no handler and nothing is owed,
so that calls succeed on it and new SMS are noticed at the next start. The same
state is reached when a handler resubscribes on the object that is being reset
and the wait then times out, contrary to `tasks/PR-023.md:84`.

`AppLifecycle_dead`: `tasks/PR-001.md:64` has the lifespan call `relay.stop` on
exit. If the watchdog's task has died of an exception other than `ModemError`,
`wait_for` raises it in the shutdown (`app.py:133`) and the relay is not stopped.

## 4. What is proved

All theorems hold for every value of the constants that satisfies the named
assumptions `BoundsAssumption`, `WorkerBoundsAssumption`,
`RelayBoundsAssumption`, `WatchAssumption`, `WatchdogAssumption`,
`LifecycleAssumption` (sets, naturals, and that names which differ in the program
differ here; nothing more).

- `QueueTypeCorrect`: `QueueSpec => []QueueTypeOK`.
- `AckedSmsIsKept`: `QueueSpec => []NoAckedLoss`. `NoAckedLoss` alone is not
  inductive: a dedup hit acknowledges an SMS on the strength of a row, so every
  row needs its file (`RowBacked`); a row is inserted in a later step than the
  file is written or moved, so the file must still be there then
  (`RowFollowsFile`); and a new file must not overwrite another (`FreshIds`).
  The conjunction `AckInv` is inductive together with the types.
- `WorkerImplementsQueue`: `WorkerSpec => QueueSpec`. Every action of the
  composed system is, on the queue's variables, an action of the queue or a
  stutter. The put-back of an item and the cancellation of the worker are the
  cases where it could fail.
- `AckedSmsIsKeptByWorker`: the two above combined.
- `SentItemsWereDelivered`: `WorkerSpec => []SentMeansDelivered`. The invariant
  ties the file to the worker's position: while it is about to call
  `mark_sent`, or `mark_sent` is in progress, Telegram has accepted the item.
- `RelayTypeCorrect`, `SmsIsNeverLost`: `RelaySpec => []RelayTypeOK`,
  `RelaySpec => []NoSmsLost`. `CustodyInv` says that whoever is about to delete
  an SMS has seen the queue accept it, that only inbound SMS get that far, and
  that a retry task holding the lock is the one the lock believes it is.
- `NothingIsStranded`: `QueueSpec => []NothingStranded`, for any number of crashes,
  without imports and without errors and cancelled calls. The invariant `PlaceInv`
  adds where the held item is at each program counter, that a scan of
  `processing/` has what is left to do in `todo`, and that a row `claim_next` is
  about to insert is not there yet.
- `RetentionIsSafe`: `QueueSpec => RetentionSparesLive`. `AgeInv` orders the three
  timestamps a cleanup compares: an item was first seen no later than its file was
  written, and no later than its row was stamped; a row names its own item. So
  whatever a cleanup has listed in `failed/` is too old for `requeue_failed` as well,
  and stays so while the clock runs on.
- `NoTwins`: `QueueSpec => []OneLivePerHash`, and `TableAgrees`:
  `QueueSpec => []StatusAgreement`. Both come from `SoleInv`, which speaks of runs
  without I/O errors and damaged files and of imports only in the first retention
  period. An item counts (`Counted`) while it is live,
  while no retention period has passed, or while `mark_sent`, `mark_failed` or
  `requeue_failed` has it in hand; items that count never share a hash (`Solitary`).
  That a dedup lookup finds the earlier item takes what the table says of each file
  in each phase, the middle of `reconcile` included (`Rowed`), and what the row says
  while a call is between the file and the row (`CallStatus`). It rests on `PlaceInv`
  and `AgeInv`. The case of one I/O error in the first retention period has an
  invariant of its own, `TwinInv`: no row is removed then, so what has no row was
  interrupted between its file and its row, and `Unrecorded` says where such an item
  can be. In `pending/` enqueue still finds it; in `processing/` with no row it takes
  the one error there is, and then the next start brings it back to `pending/`.
- `LiveRowsAreHeld`: `QueueSpec => []LiveRowHasFile`, in layers. `OwnInv` says
  whose row it is: every item that counts owns the row of its hash, and while the
  queue is not started an item without one is still to be reconciled (`ShutRows`).
  `SpareInv` keeps a holder for every live row, the row of the file that `claim_next`
  has just put aside excepted (`Kept`). For the damaged file it says that its row
  names it or that another file holds the row (`OddRows`), so the removal by id takes
  exactly the row that is left without a file. `WholeInv` says that without damage
  every file is readable and carries its own id, imports or not.
- `WorkerTypeCorrect`: `WorkerSpec => []WorkerTypeOK`, together with the order of
  the calls of worker, cleanup and start.
- `DeliveryImplementsOutbox`: `WorkerSpec => ImplementsOutbox`. Every action of the queue
  and of the composed system is mapped to a step of `Outbox` or to a stutter. It
  needs three earlier results: `AckInv` (a new item has a fresh id), `PlaceInv`
  (what is renamed is where the step believes it is) and `SentMeansDelivered`
  (nothing is filed as delivered that was not transmitted).
- `ResendsHaveReasons`: `WorkerSpec => []ResendsExplained`. The bound alone is not
  inductive. `Accounted` says when an item may have one copy more than it has
  doubts: only if the file is in `sent/` or gone, or the worker has just been told
  of the copy and not renamed the file yet. An interruption there is the only one that
  adds a doubt. Every other step that could cause another send (a retry, a put-back,
  a recovery, a restart, a requeue) either finds the file elsewhere or adds a doubt.
- `NoEnqueueIsMissed`: `WorkerSpec => []NoLostWakeup`. `WakeInv`: what the claim under
  way no longer has on its list was put in `pending/` by a retry or a requeue
  (`Overlooked`), items that are not due were put back by a retry, and the worker
  runs only on a started queue. It needs `SoleInv`: `mark_sent` must find the row of
  its item, or the item would stay in `processing/`, and `claim_next` must not meet an
  import (`WaitBegins`): a claim that raises makes the worker wait with items left.
- `SmsIsOneItem`: `WorkerSpec => []OneItemPerSms`. `RememberInv`: until a retention
  period has passed the lists of a cleanup are empty, so the only file ever removed is
  one an enqueue takes back, which was never sent; hence what was sent still has its
  file. With `TwinInv`, by which no two files share a hash, the theorem follows.
- `EverySmsAttended`: `RelaySpec => []NothingUnattended`. `CareInv`: from the moment the
  drain has listed the modem, an inbound SMS there has a handler that waits or works, is
  still on the drain's list or in its hands, or has a live task under its name in the
  registry (`InHand`, `RegistryAlive`). `PhaseInv` ties what the drain has still to do to the
  position in `start`. It rests on `SoleRetryInv`.
- `DroppedOnlyAfterRetries`: `RelaySpec => []DroppedAfterRetries`. `PatienceInv`: an
  SMS has been found without text at least as often as the attempt of its task
  says, and once more than there are attempts when the task gives up.
- `OneTaskPerPath`: `RelaySpec => []OneRetryPerPath`. `SoleRetryInv`: while the
  registry is kept it names the task of every path (`Tracked`); once `stop` or a
  rollback has emptied it, a task that was not cancelled was started by a handler
  that is gone (`HandlerGone`), and no second handler for its path comes because a
  path is signalled once (`SignalledOnce`).
- `WatchTypeCorrect`, `OneHandler`, `OwedIfUnwatched`: the three invariants of
  `ModemWatch`, from one inductive invariant, `WatchInv`. Its parts: a coroutine at
  an await has the paths it needs there (`InPlace`), handlers attached on the bus
  are those in the client's dictionary, once each (`Single`), and once the callback
  is registered the client has a key or the flag (`Registered`). The proof follows
  the code: one lemma for each continuation (`AwaitKeeps`, `ReturnKeeps`,
  `SubscribeMissingKeeps`, `AcquiredKeeps`, ...), so that each resumption only
  says which one it takes.
- `BackIsReplaced`: `WatchSpec => []ReappearedMeansReplaced`. `ReplacedInv` follows
  what the waiting reset knows: the path it reset, that the object is gone once the
  code's flag says so or a list came back empty (`Fit`, `ResetOk`), and that it goes
  on with the old path only then (`Based`), through every recovery its own
  resubscription may run into.
- `WatchdogTypeCorrect`, `ActsOnFreshTrouble`, `EnableKeepsCooldown`: `AttemptAgrees`
  relates the attempt time the code stores, shifted or not, to the time of the last
  call; from it the code's test equals the documented cooldown for every pair of
  durations.
- `LifecycleTypeCorrect`, `UsersStopFirst`, `OnlyCancelledLeaveThreads`,
  `LifespanLeavesNothing`: `LifecycleInv` says for each phase what is open, what may be
  stuck and which tasks are over. The last theorem is about the five tasks and
  what was opened and could be closed; that a text retry may be left over
  (`NoLeakedRetry`) does not contradict it.

Only model-checked: the liveness properties `EventuallySettled`, `EventuallyHandled`,
`EventuallyListening`, `TroubleIsTreated` and `ShutdownEnds`, which are out of the
prover's reach. Every invariant and action property a passing run checks is a theorem.

## 5. Abstractions

- A rename, a save or a commit is atomic, and durable when it returns (the code
  calls fsync). A power loss before the fsync is a crash before the step.
  Leftovers in `tmp/` are not modelled: nothing reads them.
- One clock, in ticks, that does not go back. `due` stands for `next_retry_at`
  being unset or past.
- Item ids sort by creation time (they begin with the time in milliseconds).
- The dedup window is fixed, so an item has one hash; the second hash computed
  by `_current_content_hash_for_item` matters only after the setting changed.
- In `DurableQueue` a call cancelled in `asyncio.to_thread` ends between two
  effects. Its thread may still be renaming; that it can outlive the queue is
  in `AppLifecycle` (`LeftBehind`), what it may do to the next call is not modelled.
- `requeue_failed` computes its cutoff before it waits for the lock
  (`queue/queue.py:303`); `RequeueStart` computes it when it has the lock. The real cutoff
  is the earlier one, so it takes back at least what the model takes back, up to the
  time spent waiting; no property speaks of that difference.
- The scheduler cancelled after its 2 s is an I/O error of its call.
- An SMS object keeps its path and paths are not reused; the modem is not
  reset; each SMS is signalled once. SMS are drained in the order they arrived.
- A text retry's done callback is merged with the end of its task. A start
  waits until `MaxSms` tasks are free, so that `MaxTasks` never blocks a step.
- `connect` opens the bus or fails as a whole (what a failed connection
  attempt leaves in the D-Bus library is not modelled); in `SmsRelay` a partial
  failure of `initialize` is a failure of `start`, in `AppLifecycle` it is the step
  between `OpenStore` and `OpenQueue`.
- `ModemWatch` has one connection: the program does not connect again after it
  has disconnected, so the resubscription in `connect` has nothing to do. One
  callback is registered, the relay's.
- `ModemWatchdog` has a clock that only runs forward; the code uses the wall clock.
- In `AppLifecycle` the work of a task is its duration and whether it raises.

Not modelled: `get_modem_info` and `list_messages` of the modem client, which
only the command line uses; the waiting for the text property inside
`read_message` (`SmsRelay` has its outcome); counters and gauges, log lines, the
text of the heartbeat and of messages, configuration, and the reading of the
Gammu database. Nothing in the models depends on them.

## 6. Plan

1. `SmsRelay` over `DurableQueue`: the composition, and the relay's `accepted` as
   a refinement of the queue's files.
2. `SmsRelay` over `ModemWatch`: what `NothingUnattended` becomes when the watch
   can be lost, and an SMS whose handler fails with a modem error.
3. `read_message`'s wait for the text property as a module.
4. Proofs about the compositions of 1 and 2, once they exist.
