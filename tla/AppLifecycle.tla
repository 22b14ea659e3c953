---------------------------- MODULE AppLifecycle ----------------------------
(***************************************************************************)
(* The lifespan of the application (app.py): what is opened in which order *)
(* at startup, which background tasks run, and how a shutdown stops them   *)
(* before it closes what they use.                                         *)
(*                                                                         *)
(* The four tasks have one shape (metrics/gauge_updater.py,                *)
(* relay/cleanup_scheduler.py, relay/watchdog.py, relay/heartbeat.py):     *)
(* work, then wait for the interval or the stop event.  What the work does *)
(* is in DurableQueue, ModemWatchdog and DeliveryWorker; here it is how    *)
(* long it takes, what it needs open, and whether it can raise.  Work on   *)
(* files is done by a thread, which no cancellation stops.                 *)
(***************************************************************************)
EXTENDS Naturals, Sequences

CONSTANTS
  Fragile,   \* tasks whose work may raise what they do not catch
  MaxFaults  \* bound: steps of startup and shutdown that raise, and tasks that do

ASSUME LifecycleAssumption ==
  /\ Fragile \subseteq {"watchdog", "heartbeat"}
  /\ MaxFaults \in Nat

VARIABLES
  phase,    \* what the lifespan does
  turn,     \* the task the shutdown is stopping
  job,      \* the tasks, and the delivery worker of the relay
  signalled,\* the tasks whose stop event is set
  threads,  \* the tasks that have a thread at work on the queue's files
  open,     \* what is open: the Telegram client, the modem client's bus, and
            \* the connection to dedup.db
  initialized, \* Queue.initialize has returned (queue_initialized, _dirs)
  stuck,    \* history: what a failed step has left open
  faults    \* faults so far

resources == <<open, initialized, stuck>>
running == <<job, signalled, threads>>
vars == <<phase, turn, running, resources, faults>>
-----------------------------------------------------------------------------
Order == <<"gauge", "cleanup", "watchdog", "heartbeat">>
Background == {"gauge", "cleanup", "watchdog"}
Task == {"gauge", "cleanup", "watchdog", "heartbeat", "worker"}
OnFiles == {"gauge", "cleanup", "worker"}

Resource == {"telegram", "modem", "store"}

Phases == {"new", "connect", "open", "reconcile", "launch", "spawn", "up",
           "signal", "join", "worker", "disconnect", "close", "leave", "down",
           "undo_modem", "undo_queue", "undo_telegram", "failed", "aborted"}
States == {"absent", "working", "waiting", "ended", "cancelled", "dead"}
Alive(t) == job[t] \in {"working", "waiting"}
Fault == faults < MaxFaults /\ faults' = faults + 1
-----------------------------------------------------------------------------
(* _startup_relay *)

Opens(r, from, to) ==
  /\ phase = from /\ phase' = to
  /\ open' = open \cup {r}
  /\ UNCHANGED <<turn, running, initialized, stuck, faults>>

(* build_relay, and the Telegram client is opened. *)
Enter == Opens("telegram", "new", "connect")

(* SmsRelay.start: what matters here of it *)
ConnectModem == Opens("modem", "connect", "open")

(* Queue.initialize opens dedup.db first; *)
OpenStore == Opens("store", "open", "reconcile")

(* then it creates the table and reconciles it with the directories. *)
OpenQueue ==
  /\ phase = "reconcile" /\ phase' = "launch" /\ initialized' = TRUE
  /\ UNCHANGED <<turn, running, open, stuck, faults>>

StartWorker ==
  /\ phase = "launch" /\ phase' = "spawn"
  /\ job' = [job EXCEPT !["worker"] = "waiting"]
  /\ UNCHANGED <<turn, signalled, threads, resources, faults>>

(* Between the two steps of initialize the connection is open, and nobody
   will close it. *)
StartRaises ==
  /\ phase \in {"connect", "open", "reconcile", "launch"} /\ Fault
  /\ phase' = "undo_modem"
  /\ stuck' = IF phase = "reconcile" THEN {"store"} ELSE stuck
  /\ UNCHANGED <<turn, running, open, initialized>>

(* The heartbeat is there if the settings ask for it; it waits first, the    *)
(* others work first.                                                        *)
Spawn ==
  /\ phase = "spawn" /\ phase' = "up"
  /\ \E heartbeat \in {"absent", "waiting"} :
       job' = [t \in Task |-> IF t \in Background THEN "working"
                             ELSE IF t = "heartbeat" THEN heartbeat ELSE job[t]]
  /\ UNCHANGED <<turn, signalled, threads, resources, faults>>
-----------------------------------------------------------------------------
(* The tasks *)

(* A thread of executor work begins and ends. *)
ThreadStarts(t) ==
  /\ t \in OnFiles \ threads /\ job[t] = "working"
  /\ threads' = threads \cup {t}
  /\ UNCHANGED <<phase, turn, job, signalled, resources, faults>>

ThreadEnds(t) ==
  /\ t \in threads /\ threads' = threads \ {t}
  /\ UNCHANGED <<phase, turn, job, signalled, resources, faults>>

Work(t) ==
  /\ job[t] = "waiting" /\ t \notin signalled
  /\ job' = [job EXCEPT ![t] = "working"]
  /\ UNCHANGED <<phase, turn, signalled, threads, resources, faults>>

Rest(t) ==
  /\ job[t] = "working" /\ t \notin threads
  /\ job' = [job EXCEPT ![t] = IF t \in signalled THEN "ended" ELSE "waiting"]
  /\ UNCHANGED <<phase, turn, signalled, threads, resources, faults>>

Notice(t) ==
  /\ job[t] = "waiting" /\ t \in signalled
  /\ job' = [job EXCEPT ![t] = "ended"]
  /\ UNCHANGED <<phase, turn, signalled, threads, resources, faults>>

(* The watchdog catches ModemError, the heartbeat TelegramError and          *)
(* ValidationError; anything else ends the task.  The other tasks catch      *)
(* every Exception.                                                          *)
Raise(t) ==
  /\ t \in Fragile /\ job[t] = "working" /\ Fault
  /\ job' = [job EXCEPT ![t] = "dead"]
  /\ UNCHANGED <<phase, turn, signalled, threads, resources>>
-----------------------------------------------------------------------------
(* _shutdown_relay *)

Terminate ==
  /\ phase = "up" /\ phase' = "signal" /\ turn' = 1
  /\ UNCHANGED <<running, resources, faults>>

(* Mutated form: the heartbeat is stopped whether it was started or not. *)
SignalAnyway ==
  /\ phase = "signal" /\ turn <= Len(Order) /\ phase' = "join"
  /\ signalled' = signalled \cup {Order[turn]}
  /\ UNCHANGED <<turn, job, threads, resources, faults>>

(* _stop_background_task: the stop event is set. *)
Signal ==
  /\ phase = "signal" /\ turn <= Len(Order)
  /\ IF job[Order[turn]] # "absent"
     THEN /\ phase' = "join" /\ signalled' = signalled \cup {Order[turn]}
          /\ UNCHANGED turn
     ELSE turn' = turn + 1 /\ UNCHANGED <<phase, signalled>>
  /\ UNCHANGED <<job, threads, resources, faults>>

NextTurn == phase' = "signal" /\ turn' = turn + 1

Joined ==
  /\ phase = "join" /\ job[Order[turn]] = "ended" /\ NextTurn
  /\ UNCHANGED <<running, resources, faults>>

(* wait_for raises the exception the task has died of: the rest of           *)
(* _shutdown_relay is not reached.                                           *)
JoinRaises ==
  /\ phase = "join" /\ job[Order[turn]] = "dead"
  /\ phase' = "aborted"
  /\ UNCHANGED <<turn, running, resources, faults>>

(* Mutated form: a task that takes too long is left alone. *)
JoinWithoutCancel ==
  /\ phase = "join" /\ job[Order[turn]] = "working" /\ NextTurn
  /\ UNCHANGED <<running, resources, faults>>

(* Mutated form: the task is awaited without a timeout. *)
JoinForEver == FALSE /\ UNCHANGED vars

(* After two seconds the task is cancelled, and awaited. *)
JoinTimeout ==
  /\ phase = "join" /\ job[Order[turn]] = "working" /\ NextTurn
  /\ job' = [job EXCEPT ![Order[turn]] = "cancelled"]
  /\ UNCHANGED <<signalled, threads, resources, faults>>

(* SmsRelay.stop: the worker ends by itself or is cancelled after five       *)
(* seconds; then the modem client and the queue are closed.                  *)
StopRelay ==
  /\ phase = "signal" /\ turn > Len(Order)
  /\ phase' = "worker" /\ signalled' = signalled \cup {"worker"}
  /\ UNCHANGED <<turn, job, threads, resources, faults>>

WorkerEnded ==
  /\ phase = "worker" /\ phase' = "disconnect"
  /\ \/ job["worker"] = "ended" /\ UNCHANGED job
     \/ job["worker"] = "working" /\ job' = [job EXCEPT !["worker"] = "cancelled"]
  /\ UNCHANGED <<turn, signalled, threads, resources, faults>>
-----------------------------------------------------------------------------
(* Closing, in _disconnect_and_close and in _rollback_startup_failure, and
   the end of _shutdown_relay and _startup_relay *)

(* What is closed in a phase, and what comes after it. *)
Subject(p) ==
  CASE p \in {"disconnect", "undo_modem"} -> "modem"
    [] p \in {"close", "undo_queue"} -> "store"
    [] p \in {"leave", "undo_telegram"} -> "telegram"
After(p) ==
  CASE p = "disconnect" -> "close" [] p = "undo_modem" -> "undo_queue"
    [] p = "close" -> "leave"      [] p = "undo_queue" -> "undo_telegram"
    [] p = "leave" -> "down"       [] p = "undo_telegram" -> "failed"
Closing == {"disconnect", "close", "leave", "undo_modem", "undo_queue", "undo_telegram"}

(* Mutated form: queue_initialized is never set. *)
NeverInitialized == phase = "undo_queue"

(* The rollback does not close a queue whose initialize has not returned. *)
NotInitialized == phase = "undo_queue" /\ ~initialized

Skip ==
  /\ NotInitialized /\ phase' = After(phase)
  /\ UNCHANGED <<turn, running, resources, faults>>

Closes ==
  /\ phase \in Closing /\ ~NotInitialized /\ phase' = After(phase)
  /\ open' = open \ {Subject(phase)}
  /\ initialized' = (initialized /\ Subject(phase) # "store")
  /\ UNCHANGED <<turn, running, stuck, faults>>

(* disconnect or close raises: the others are closed all the same.  stop raises
   the exception again when it is done, the rollback ignores it. *)
CloseRaises ==
  /\ phase \in Closing /\ ~NotInitialized /\ phase' = After(phase)
  /\ Subject(phase) \in open /\ Fault
  /\ stuck' = stuck \cup {Subject(phase)}
  /\ UNCHANGED <<turn, running, open, initialized>>
-----------------------------------------------------------------------------
LifecycleInit ==
  /\ phase = "new" /\ turn = 0
  /\ job = [t \in Task |-> "absent"]
  /\ signalled = {} /\ threads = {}
  /\ open = {} /\ initialized = FALSE /\ stuck = {}
  /\ faults = 0

Startup ==
  \/ Enter \/ ConnectModem \/ OpenStore \/ OpenQueue \/ StartWorker \/ Spawn
  \/ StartRaises

Shutdown ==
  \/ Signal \/ Joined \/ JoinRaises \/ JoinTimeout \/ StopRelay \/ WorkerEnded

CloseDown == Skip \/ Closes \/ CloseRaises

LifecycleNext ==
  \/ Startup \/ Terminate \/ Shutdown \/ CloseDown
  \/ \E t \in Task : \/ ThreadStarts(t) \/ ThreadEnds(t) \/ Work(t) \/ Rest(t)
                     \/ Notice(t) \/ Raise(t)

LifecycleSpec == LifecycleInit /\ [][LifecycleNext]_vars

(* The lifespan runs, its timeouts expire, and a task that waits notices its *)
(* stop event.  The work of a task need never end.                           *)
FairLifecycleSpec ==
  /\ LifecycleSpec
  /\ WF_vars(Startup) /\ WF_vars(Shutdown \/ CloseDown)
  /\ \A t \in Task : WF_vars(Notice(t))
-----------------------------------------------------------------------------
(* The types; and no task is told to stop that was never started. *)
LifecycleTypeOK ==
  /\ phase \in Phases /\ turn \in 0 .. Len(Order) + 1
  /\ job \in [Task -> States]
  /\ signalled \subseteq Task /\ threads \subseteq OnFiles
  /\ open \subseteq Resource /\ initialized \in BOOLEAN /\ stuck \subseteq Resource
  /\ faults \in 0 .. MaxFaults
  /\ \A t \in signalled : job[t] # "absent"

(* Nothing is closed under one of the five tasks that uses it, however long
   the task takes: the order of the shutdown, and the wait after each
   cancellation.  The handlers of MessageAdded and the text retries are not
   among the five; nobody waits for them (SmsRelay). *)
UsersFirst ==
  /\ Alive("gauge") \/ Alive("cleanup") => "store" \in open
  /\ Alive("watchdog") => "modem" \in open
  /\ Alive("heartbeat") => "telegram" \in open
  /\ Alive("worker") => {"telegram", "store"} \subseteq open

(* When the lifespan has ended, and when startup has failed, everything that
   was opened is closed and none of the five tasks is left; one failing step
   does not keep the rest from being closed.  Open remains what could not be
   closed, and the connection to dedup.db when Queue.initialize failed after
   opening it: the rollback closes the queue only if initialize has returned. *)
ClosedWhenDown ==
  phase \in {"down", "failed"} =>
    /\ open \subseteq stuck
    /\ \A t \in Task : ~Alive(t)

(* When the queue is closed, only a task that had to be cancelled has left a
   thread at work on its files. *)
LeftBehind == \A t \in threads : "store" \in open \/ job[t] = "cancelled"

(* A shutdown ends, whatever the tasks are doing; and it ends with the relay *)
(* stopped unless a task has died.                                           *)
ShutdownEnds ==
  phase = "signal" ~> \/ phase = "down"
                      \/ phase = "aborted" /\ \E t \in Task : job[t] = "dead"

(* A shutdown calls relay.stop. *)
ShutdownStopsRelay == phase = "signal" ~> phase = "worker"
=============================================================================
