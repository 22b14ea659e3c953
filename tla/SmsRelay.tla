------------------------------ MODULE SmsRelay ------------------------------
(***************************************************************************)
(* SmsRelay (relay/relay.py) between the modem's SMS storage and the       *)
(* durable queue: start, the drain of stored messages, the MessageAdded    *)
(* handlers, the retries of messages whose text is not decoded yet, stop   *)
(* and the rollback of a failed start.                                     *)
(*                                                                         *)
(* The modem is external: an SMS object stays in its storage until it is   *)
(* deleted, and its Text may be filled in late or never.  Of the queue     *)
(* only what enqueue promises is kept (NoAckedLoss of DurableQueue): what  *)
(* it has accepted, it keeps.  A coroutine is where it awaits next; the    *)
(* lock is _sms_handler_lock and `job' is whoever holds it.                *)
(***************************************************************************)
EXTENDS Naturals, FiniteSets

CONSTANTS
  MaxSms,      \* bound: SMS objects, numbered as they arrive
  Outbound,    \* the SMS objects that are not inbound
  MaxAttempts, \* modem_sms_text_undecoded_retry_max_attempts
  MaxTasks,    \* bound: retry tasks; start waits until MaxSms of them are free
  MaxCrashes,  \* bound: crashes of the process
  MaxFaults    \* bound: modem and queue calls that raise

ASSUME RelayBoundsAssumption ==
  /\ MaxSms \in Nat /\ Outbound \subseteq 1 .. MaxSms
  /\ MaxAttempts \in Nat \ {0} /\ MaxTasks \in Nat
  /\ MaxCrashes \in Nat /\ MaxFaults \in Nat

VARIABLES
  stored,     \* SMS objects in the modem's storage
  decoded,    \* SMS objects whose Text is filled in
  nextSms,    \* the next SMS to arrive
  bus,        \* the client is connected
  watch,      \* the MessageAdded watch is on
  queue,      \* "closed" or "open"
  accepted,   \* SMS the queue holds durably
  status,     \* _status
  pc,         \* what start or stop does next, "off" when neither runs
  todo,       \* the drain: paths still to be read
  messages,   \* the drain: messages read, still to be processed
  job,        \* who holds _sms_handler_lock, for which SMS, and what is next
  waiting,    \* MessageAdded handlers that wait for the lock
  retry,      \* retry tasks
  registry,   \* _pending_text_retries: SMS -> task, 0 for none
  cancelling, \* retry tasks that have been cancelled and have not ended
  spent,      \* how many of each bounded event have happened
  reused,     \* history: this process has started the relay before
  emptyReads, \* history: reads of an SMS that found no text, by this process
  dropped     \* history: SMS deleted without having been read

modem == <<stored, decoded, nextSms>>
client == <<bus, watch>>
inbox == <<queue, accepted>>
start == <<status, pc, todo, messages, reused>>
tasks == <<job, waiting, retry, registry, cancelling>>
history == <<emptyReads, dropped>>
vars == <<modem, client, inbox, start, tasks, spent, history>>
-----------------------------------------------------------------------------
Sms == 1 .. MaxSms
Task == 1 .. MaxTasks
Owners == {"none", "drain", "handler", "retry"}

Free == [owner |-> "none", task |-> 0, sms |-> 0, at |-> "none"]
NoRetry == [sms |-> 0, at |-> "none", attempt |-> 0]
NoRetries == [t \in Task |-> NoRetry]

Starting == {"connect", "initialize", "watch", "list", "drain", "read", "process"}
Stopping == {"cancel", "await", "worker", "disconnect", "close"}

First(s, S) == s \in S /\ \A r \in S : s <= r
Alive(t) == retry[t].at # "none"
Faulty == spent.fault < MaxFaults /\ spent' = [spent EXCEPT !.fault = @ + 1]

(* Counted as far as it matters: one read before the retries, and theirs. *)
EmptyRead(s) ==
  emptyReads' = [emptyReads EXCEPT ![s] = IF @ > MaxAttempts THEN @ ELSE @ + 1]

(* Mutated form: whatever is pending, another task is started. *)
ScheduleAnother(s) ==
  \E t \in Task :
    /\ First(t, {u \in Task : ~Alive(u)})
    /\ retry' = [retry EXCEPT ![t] = [sms |-> s, at |-> "sleep", attempt |-> 1]]
    /\ registry' = [registry EXCEPT ![s] = t]

(* _schedule_text_retry *)
ScheduleTextRetry(s) ==
  IF registry[s] # 0
  THEN UNCHANGED <<retry, registry>>
  ELSE \E t \in Task :
         /\ First(t, {u \in Task : ~Alive(u)})
         /\ retry' = [retry EXCEPT ![t] = [sms |-> s, at |-> "sleep", attempt |-> 1]]
         /\ registry' = [registry EXCEPT ![s] = t]

(* The end of a retry task, with _handle_text_retry_done. *)
EndRetry(t) ==
  /\ retry' = [retry EXCEPT ![t] = NoRetry]
  /\ registry' = IF registry[retry[t].sms] = t
                 THEN [registry EXCEPT ![retry[t].sms] = 0] ELSE registry

(* The end of the critical section. *)
Release ==
  /\ job' = Free
  /\ IF job.owner = "retry" THEN EndRetry(job.task) ELSE UNCHANGED <<retry, registry>>
-----------------------------------------------------------------------------
(* start *)

StartCall ==
  /\ pc = "off" /\ status = "stopped"
  /\ Cardinality({t \in Task : ~Alive(t)}) >= MaxSms
  /\ status' = "starting" /\ pc' = "connect"
  /\ UNCHANGED <<modem, client, inbox, todo, messages, reused, tasks, spent, history>>

Connect ==
  /\ pc = "connect"
  /\ bus' = TRUE /\ pc' = "initialize"
  /\ UNCHANGED <<modem, watch, inbox, status, todo, messages, reused, tasks, spent, history>>

(* initialize and recover_processing *)
Initialize ==
  /\ pc = "initialize"
  /\ queue' = "open" /\ pc' = "watch"
  /\ UNCHANGED <<modem, client, accepted, status, todo, messages, reused, tasks, spent, history>>

(* Mutated form: the subscription is left to the end of the drain. *)
WatchLater ==
  /\ pc = "watch"
  /\ pc' = "list"
  /\ UNCHANGED <<modem, client, inbox, status, todo, messages, reused, tasks, spent, history>>

WatchAdded ==
  /\ pc = "watch"
  /\ watch' = TRUE /\ pc' = "list"
  /\ UNCHANGED <<modem, bus, inbox, status, todo, messages, reused, tasks, spent, history>>

ListSmsPaths ==
  /\ pc = "list"
  /\ todo' = stored /\ messages' = {} /\ pc' = "drain"
  /\ UNCHANGED <<modem, client, inbox, status, reused, tasks, spent, history>>

DrainLock ==
  /\ pc = "drain" /\ job = Free
  /\ job' = [Free EXCEPT !.owner = "drain"]
  /\ pc' = "read"
  /\ UNCHANGED <<modem, client, inbox, status, todo, messages, reused, waiting, retry,
                 registry, cancelling, spent, history>>

(* Deleted meanwhile, or not inbound. *)
DrainSkip(s) ==
  /\ pc = "read" /\ First(s, todo) /\ (s \notin stored \/ s \in Outbound)
  /\ todo' = todo \ {s}
  /\ UNCHANGED <<modem, client, inbox, status, pc, messages, reused, tasks, spent, history>>

DrainEmpty(s) ==
  /\ pc = "read" /\ First(s, todo) /\ s \in stored \ (decoded \cup Outbound)
  /\ ScheduleTextRetry(s) /\ EmptyRead(s)
  /\ todo' = todo \ {s}
  /\ UNCHANGED <<modem, client, inbox, status, pc, messages, reused, job, waiting,
                 cancelling, spent, dropped>>

DrainRead(s) ==
  /\ pc = "read" /\ First(s, todo) /\ s \in (stored \cap decoded) \ Outbound
  /\ todo' = todo \ {s} /\ messages' = messages \cup {s}
  /\ UNCHANGED <<modem, client, inbox, status, pc, reused, tasks, spent, history>>

(* The messages in the order of their timestamps; _process_sms on each. *)
DrainNext ==
  /\ pc \in {"read", "process"} /\ todo = {} /\ job.at = "none" /\ job.owner = "drain"
  /\ \E s \in messages :
       /\ First(s, messages)
       /\ job' = [job EXCEPT !.sms = s, !.at = "enqueue"]
       /\ messages' = messages \ {s}
  /\ pc' = "process"
  /\ UNCHANGED <<modem, client, inbox, status, todo, reused, waiting, retry, registry,
                 cancelling, spent, history>>

(* The drain is over; the worker is started. *)
Started ==
  /\ pc \in {"read", "process"} /\ todo = {} /\ messages = {}
  /\ job.at = "none" /\ job.owner = "drain"
  /\ job' = Free
  /\ status' = "running" /\ pc' = "off"
  /\ UNCHANGED <<modem, client, inbox, todo, messages, reused, waiting, retry, registry,
                 cancelling, spent, history>>

(* _rollback_startup_failure begins. *)
RollBack ==
  /\ pc' = "cancel" /\ todo' = {} /\ messages' = {}
  /\ job' = IF job.owner = "drain" THEN Free ELSE job
  /\ UNCHANGED <<modem, client, inbox, status, reused, waiting, retry, registry,
                 cancelling, history>>

(* A call of start raises, in the drain between two durable effects too. *)
StartFails == pc \in Starting /\ Faulty /\ RollBack

(* A retry task has deleted the message the drain had read (it does so outside
   the lock), and the drain does not forgive a failed delete. *)
DrainDeleteFails ==
  /\ job.owner = "drain" /\ job.at = "delete" /\ bus /\ job.sms \notin stored
  /\ RollBack
  /\ UNCHANGED spent
-----------------------------------------------------------------------------
(* stop, and the rollback of start: the same steps (the rollback has no worker
   to wait for). *)

StopCall ==
  /\ pc = "off" /\ status = "running"
  /\ status' = "stopping" /\ pc' = "cancel"
  /\ UNCHANGED <<modem, client, inbox, todo, messages, reused, tasks, spent, history>>

Registered == {registry[s] : s \in Sms} \ {0}

(* _cancel_pending_text_retries, up to its first await. *)
CancelRetries ==
  /\ pc = "cancel"
  /\ cancelling' = Registered
  /\ pc' = IF Registered = {} THEN "worker" ELSE "await"
  /\ UNCHANGED <<modem, client, inbox, status, todo, messages, reused, job, waiting, retry,
                 registry, spent, history>>

(* A task ends where it awaits: the call it had made may have taken effect. *)
RetryCancelled(t) ==
  LET s == retry[t].sms
      owns == job.owner = "retry" /\ job.task = t
      at == IF owns THEN job.at ELSE retry[t].at
  IN
  /\ t \in cancelling
  /\ cancelling' = cancelling \ {t}
  /\ EndRetry(t)
  /\ job' = IF owns THEN Free ELSE job
  /\ \/ UNCHANGED <<stored, accepted, dropped>>
     \/ at = "enqueue" /\ accepted' = accepted \cup {s} /\ UNCHANGED <<stored, dropped>>
     \/ at = "delete" /\ stored' = stored \ {s} /\ UNCHANGED <<accepted, dropped>>
     \/ /\ at = "expire" /\ stored' = stored \ {s} /\ accepted' = accepted
        /\ dropped' = dropped \cup ({s} \cap stored)
  /\ UNCHANGED <<decoded, nextSms, client, queue, start, waiting, spent, emptyReads>>

(* Whatever has been registered meanwhile is forgotten as well. *)
RetriesCancelled ==
  /\ pc = "await" /\ cancelling = {}
  /\ registry' = [s \in Sms |-> 0]
  /\ pc' = "worker"
  /\ UNCHANGED <<modem, client, inbox, status, todo, messages, reused, job, waiting, retry,
                 cancelling, spent, history>>

(* The worker has ended, at the latest after 5 s. *)
WorkerStops ==
  /\ pc = "worker"
  /\ pc' = "disconnect"
  /\ UNCHANGED <<modem, client, inbox, status, todo, messages, reused, tasks, spent, history>>

Disconnect ==
  /\ pc = "disconnect"
  /\ bus' = FALSE /\ watch' = FALSE /\ pc' = "close"
  /\ UNCHANGED <<modem, inbox, status, todo, messages, reused, tasks, spent, history>>

QueueClose ==
  /\ pc = "close"
  /\ queue' = "closed" /\ status' = "stopped" /\ pc' = "off" /\ reused' = TRUE
  /\ UNCHANGED <<modem, client, accepted, todo, messages, tasks, spent, history>>
-----------------------------------------------------------------------------
(* Handlers and retries under the lock: read_message, then _process_sms. *)

(* _on_new_sms gets the lock. *)
HandlerLock(s) ==
  /\ s \in waiting /\ job = Free
  /\ waiting' = waiting \ {s}
  /\ job' = [owner |-> "handler", task |-> 0, sms |-> s, at |-> "read"]
  /\ UNCHANGED <<modem, client, inbox, start, retry, registry, cancelling, spent, history>>

Running(t) == Alive(t) /\ t \notin cancelling

RetryWakes(t) ==
  /\ Running(t) /\ retry[t].at = "sleep"
  /\ retry' = [retry EXCEPT ![t].at = "wait"]
  /\ UNCHANGED <<modem, client, inbox, start, job, waiting, registry, cancelling, spent, history>>

RetryLock(t) ==
  /\ Running(t) /\ retry[t].at = "wait" /\ job = Free
  /\ job' = [owner |-> "retry", task |-> t, sms |-> retry[t].sms, at |-> "read"]
  /\ retry' = [retry EXCEPT ![t].at = "locked"]
  /\ UNCHANGED <<modem, client, inbox, start, waiting, registry, cancelling, spent, history>>

(* The holder goes on unless it is a task that has been cancelled. *)
JobAt(at) == job.at = at /\ (job.owner = "retry" => job.task \notin cancelling)

(* Mutated form: what is not inbound is deleted. *)
ReadGoneDeletes ==
  /\ JobAt("read") /\ bus /\ (job.sms \notin stored \/ job.sms \in Outbound)
  /\ stored' = stored \ {job.sms}
  /\ Release
  /\ UNCHANGED <<decoded, nextSms, client, inbox, start, waiting, cancelling, spent, history>>

ReadGone ==
  /\ JobAt("read") /\ bus /\ (job.sms \notin stored \/ job.sms \in Outbound)
  /\ Release
  /\ UNCHANGED <<modem, client, inbox, start, waiting, cancelling, spent, history>>

(* A handler that reads no text. *)
ReadEmpty ==
  /\ JobAt("read") /\ job.owner = "handler" /\ bus
  /\ job.sms \in stored \ (decoded \cup Outbound)
  /\ ScheduleTextRetry(job.sms) /\ EmptyRead(job.sms)
  /\ job' = Free
  /\ UNCHANGED <<modem, client, inbox, start, waiting, cancelling, spent, dropped>>

(* Mutated form: the last attempt is not made. *)
RetryReadEmptyEarly ==
  LET r == retry[job.task]
      next == IF r.attempt + 1 < MaxAttempts
              THEN [r EXCEPT !.at = "sleep", !.attempt = @ + 1]
              ELSE [r EXCEPT !.at = "expire"]
  IN
  /\ JobAt("read") /\ job.owner = "retry" /\ bus
  /\ job.sms \in stored \ (decoded \cup Outbound)
  /\ retry' = [retry EXCEPT ![job.task] = next]
  /\ EmptyRead(job.sms)
  /\ job' = Free
  /\ UNCHANGED <<modem, client, inbox, start, waiting, registry, cancelling, spent, dropped>>

(* Mutated form: one attempt more than configured. *)
RetryReadEmptyLate ==
  LET r == retry[job.task]
      next == IF r.attempt <= MaxAttempts
              THEN [r EXCEPT !.at = "sleep", !.attempt = @ + 1]
              ELSE [r EXCEPT !.at = "expire"]
  IN
  /\ JobAt("read") /\ job.owner = "retry" /\ bus
  /\ job.sms \in stored \ (decoded \cup Outbound)
  /\ retry' = [retry EXCEPT ![job.task] = next]
  /\ EmptyRead(job.sms)
  /\ job' = Free
  /\ UNCHANGED <<modem, client, inbox, start, waiting, registry, cancelling, spent, dropped>>

(* A retry that reads no text: another attempt, or the end of the patience. *)
RetryReadEmpty ==
  LET r == retry[job.task]
      next == IF r.attempt < MaxAttempts
              THEN [r EXCEPT !.at = "sleep", !.attempt = @ + 1]
              ELSE [r EXCEPT !.at = "expire"]
  IN
  /\ JobAt("read") /\ job.owner = "retry" /\ bus
  /\ job.sms \in stored \ (decoded \cup Outbound)
  /\ retry' = [retry EXCEPT ![job.task] = next]
  /\ EmptyRead(job.sms)
  /\ job' = Free
  /\ UNCHANGED <<modem, client, inbox, start, waiting, registry, cancelling, spent, dropped>>

ReadText ==
  /\ JobAt("read") /\ bus /\ job.sms \in (stored \cap decoded) \ Outbound
  /\ job' = [job EXCEPT !.at = "enqueue"]
  /\ UNCHANGED <<modem, client, inbox, start, waiting, retry, registry, cancelling, spent, history>>

(* Mutated form: an enqueue that raises is only logged. *)
EnqueueUnchecked ==
  /\ JobAt("enqueue") /\ queue = "open"
  /\ \/ accepted' = accepted \cup {job.sms} /\ spent' = spent
     \/ accepted' = accepted /\ Faulty
  /\ job' = [job EXCEPT !.at = "delete"]
  /\ UNCHANGED <<modem, client, queue, start, waiting, retry, registry, cancelling, history>>

Enqueue ==
  /\ JobAt("enqueue") /\ queue = "open"
  /\ accepted' = accepted \cup {job.sms}
  /\ job' = [job EXCEPT !.at = "delete"]
  /\ UNCHANGED <<modem, client, queue, start, waiting, retry, registry, cancelling, spent, history>>

(* delete_message: the drain goes on, the others are done, also when the SMS is
   gone already. *)
Delete ==
  /\ JobAt("delete") /\ bus
  /\ stored' = stored \ {job.sms}
  /\ IF job.owner = "drain"
     THEN /\ job.sms \in stored
          /\ job' = [Free EXCEPT !.owner = "drain"]
          /\ UNCHANGED <<retry, registry>>
     ELSE Release
  /\ UNCHANGED <<decoded, nextSms, client, inbox, start, waiting, cancelling, spent, history>>

(* A call of a handler or of a retry raises; it always does once the client is
   disconnected or the queue closed.  The SMS stays where it is, unless the
   call took effect before it raised. *)
JobRaises ==
  /\ job.owner \in {"handler", "retry"} /\ JobAt(job.at)
  /\ \/ job.at \in {"read", "delete"} /\ ~bus /\ UNCHANGED <<stored, accepted, spent>>
     \/ job.at = "enqueue" /\ queue = "closed" /\ UNCHANGED <<stored, accepted, spent>>
     \/ /\ Faulty
        /\ \/ UNCHANGED <<stored, accepted>>
           \/ job.at = "enqueue" /\ accepted' = accepted \cup {job.sms} /\ stored' = stored
           \/ job.at = "delete" /\ stored' = stored \ {job.sms} /\ accepted' = accepted
  /\ Release
  /\ UNCHANGED <<decoded, nextSms, client, queue, start, waiting, cancelling, history>>

(* _delete_undecodable_sms, which does not take the lock. *)
DeleteUndecodable(t) ==
  /\ Running(t) /\ retry[t].at = "expire"
  /\ \/ /\ bus
        /\ stored' = stored \ {retry[t].sms}
        /\ dropped' = dropped \cup ({retry[t].sms} \cap stored)
        /\ spent' = spent
     \/ ~bus /\ UNCHANGED <<stored, dropped, spent>>
     \/ Faulty /\ UNCHANGED <<stored, dropped>>
  /\ EndRetry(t)
  /\ UNCHANGED <<decoded, nextSms, client, inbox, start, job, waiting, cancelling, emptyReads>>
-----------------------------------------------------------------------------
(* The modem and the process *)

(* An SMS object appears, its text decoded or not; MessageAdded is signalled
   for those received. *)
Arrive ==
  /\ nextSms \in Sms
  /\ nextSms' = nextSms + 1
  /\ stored' = stored \cup {nextSms}
  /\ decoded' \in {decoded, decoded \cup {nextSms}}
  /\ waiting' = IF watch THEN waiting \cup {nextSms} ELSE waiting
  /\ UNCHANGED <<client, inbox, start, job, retry, registry, cancelling, spent, history>>

TextDecoded(s) ==
  /\ s \in stored \ decoded
  /\ decoded' = decoded \cup {s}
  /\ UNCHANGED <<stored, nextSms, client, inbox, start, tasks, spent, history>>

NewProcess ==
  /\ bus' = FALSE /\ watch' = FALSE /\ queue' = "closed"
  /\ status' = "stopped" /\ pc' = "off" /\ todo' = {} /\ messages' = {} /\ reused' = FALSE
  /\ job' = Free /\ waiting' = {} /\ retry' = NoRetries
  /\ registry' = [s \in Sms |-> 0] /\ cancelling' = {}
  /\ emptyReads' = [s \in Sms |-> IF s \in dropped THEN emptyReads[s] ELSE 0]

(* Once stop has returned the application exits. *)
Exit ==
  /\ pc = "off" /\ status = "stopped" /\ reused
  /\ NewProcess
  /\ UNCHANGED <<modem, accepted, spent, dropped>>

Crash ==
  /\ spent.crash < MaxCrashes
  /\ NewProcess
  /\ spent' = [spent EXCEPT !.crash = @ + 1]
  /\ UNCHANGED <<modem, accepted, dropped>>
-----------------------------------------------------------------------------
RelayInit ==
  /\ stored = {} /\ decoded = {} /\ nextSms = 1
  /\ bus = FALSE /\ watch = FALSE /\ queue = "closed" /\ accepted = {}
  /\ status = "stopped" /\ pc = "off" /\ todo = {} /\ messages = {} /\ reused = FALSE
  /\ job = Free /\ waiting = {} /\ retry = NoRetries
  /\ registry = [s \in Sms |-> 0] /\ cancelling = {}
  /\ spent = [crash |-> 0, fault |-> 0]
  /\ emptyReads = [s \in Sms |-> 0] /\ dropped = {}

StartSteps ==
  \/ Connect \/ Initialize \/ WatchAdded \/ ListSmsPaths
  \/ \E s \in Sms : DrainSkip(s) \/ DrainEmpty(s) \/ DrainRead(s)
  \/ DrainNext \/ DrainDeleteFails \/ Started

StopSteps == \/ CancelRetries \/ RetriesCancelled \/ WorkerStops \/ Disconnect
             \/ QueueClose \/ \E t \in Task : RetryCancelled(t)

JobSteps == \/ ReadGone \/ ReadEmpty \/ RetryReadEmpty \/ ReadText \/ Enqueue
            \/ Delete \/ JobRaises

LockSteps == \/ DrainLock \/ \E s \in Sms : HandlerLock(s)
             \/ \E t \in Task : RetryLock(t)

RelayNext ==
  \/ StartCall \/ StartSteps \/ StartFails \/ StopCall \/ StopSteps
  \/ LockSteps \/ JobSteps
  \/ \E t \in Task : RetryWakes(t) \/ DeleteUndecodable(t)
  \/ Arrive \/ (\E s \in Sms : TextDecoded(s)) \/ Exit \/ Crash

RelaySpec == RelayInit /\ [][RelayNext]_vars

(* The event loop runs whatever can run, sleeps end, D-Bus calls return, and a
   free lock goes to someone who waits for it. *)
RelayFairness ==
  /\ WF_vars(StartSteps) /\ WF_vars(StopSteps) /\ WF_vars(JobSteps)
  /\ WF_vars(LockSteps)
  /\ WF_vars(\E t \in Task : RetryWakes(t) \/ DeleteUndecodable(t))

FairRelaySpec == RelaySpec /\ RelayFairness
-----------------------------------------------------------------------------
(* Properties *)

(* Every variable stays in its domain. *)
RelayTypeOK ==
  /\ stored \subseteq Sms /\ decoded \subseteq Sms /\ nextSms \in 1 .. MaxSms + 1
  /\ bus \in BOOLEAN /\ watch \in BOOLEAN
  /\ queue \in {"closed", "open"} /\ accepted \subseteq Sms
  /\ status \in {"stopped", "starting", "running", "stopping"}
  /\ pc \in {"off"} \cup Starting \cup Stopping
  /\ todo \subseteq Sms /\ messages \subseteq Sms /\ reused \in BOOLEAN
  /\ job \in [owner : Owners, task : 0 .. MaxTasks, sms : 0 .. MaxSms,
              at : {"none", "read", "enqueue", "delete"}]
  /\ waiting \subseteq Sms
  /\ retry \in [Task -> [sms : 0 .. MaxSms, attempt : 0 .. MaxAttempts,
                         at : {"none", "sleep", "wait", "locked", "expire"}]]
  /\ registry \in [Sms -> 0 .. MaxTasks] /\ cancelling \subseteq Task
  /\ spent \in [crash : Nat, fault : Nat]
  /\ emptyReads \in [Sms -> Nat] /\ dropped \subseteq Sms

(* Every SMS that has arrived is on the modem or durably in the queue, or was
   dropped as undecodable; what is not inbound is left alone.  Whatever is
   cancelled, fails or crashes between enqueue and delete_message. *)
NoSmsLost ==
  \A s \in 1 .. nextSms - 1 :
    /\ s \in stored \cup accepted \cup dropped
    /\ s \in Outbound => s \in stored

(* An SMS is dropped unread only after the handler or the drain and every
   attempt of a retry task have found it without text. *)
DroppedAfterRetries == \A s \in dropped : emptyReads[s] > MaxAttempts

(* While the relay runs and no call has failed, each inbound SMS on the modem
   is in someone's hands: a handler waits for it or works on it, or the retry
   task that is registered for it is alive, is its own, and goes on.  An SMS
   that arrives during the drain, whose handler meets the drain of the same
   path, or whose task ends while another is started, is not overlooked. *)
NothingUnattended ==
  status = "running" /\ spent.fault = 0 =>
    \A s \in stored \ Outbound :
      \/ s \in waiting
      \/ job.owner = "handler" /\ job.sms = s
      \/ \E t \in Task : registry[s] = t /\ Running(t) /\ retry[t].sms = s

(* One retry task per path, as long as the relay has not been stopped (or its
   start rolled back) earlier in this process. *)
OneRetryPerPath ==
  ~reused => \A t, u \in Task :
    Alive(t) /\ Alive(u) /\ t # u => retry[t].sms # retry[u].sms

(* tasks/PR-025.md: "On relay shutdown, cancel all pending tasks. This
   guarantees no leaked tasks." *)
NoLeakedRetry ==
  status = "stopped" /\ pc = "off" => \A t \in Task : ~Alive(t)

(* If nothing fails and the relay stays up from some moment on, every inbound
   SMS leaves the modem, so by NoSmsLost it is in the queue or was dropped. *)
EventuallyHandled ==
  <>[](status = "running") => \A s \in Sms \ Outbound : s \in stored ~> s \notin stored
=============================================================================
