-------------------------- MODULE AppLifecycleProofs --------------------------
(***************************************************************************)
(* A shutdown, and a startup that fails, close nothing that is in use and  *)
(* leave open only what a failed step has, whichever tasks run, die or are *)
(* cancelled.                                                              *)
(***************************************************************************)
EXTENDS AppLifecycle, TLAPS

Starting == {"new", "connect", "open", "reconcile", "launch", "undo_modem",
             "undo_queue", "undo_telegram", "failed"}
Joining == {"signal", "join"}
Stopping == {"worker", "disconnect", "close", "leave", "down"}
Stopped == {"disconnect", "close", "leave", "down"}

(* What is open in which phase. *)
OpenPhases ==
  /\ phase \in {"spawn", "up", "signal", "join", "worker", "aborted"} =>
       open = Resource
  /\ phase = "disconnect" => {"telegram", "store"} \subseteq open
  /\ phase \in {"undo_queue", "undo_telegram", "failed", "close", "leave", "down"}
       /\ "modem" \in open => "modem" \in stuck
  /\ phase \in {"undo_telegram", "failed", "leave", "down"} /\ "store" \in open =>
       "store" \in stuck
  /\ phase \in {"failed", "down"} /\ "telegram" \in open => "telegram" \in stuck

(* What start has opened in which phase, and what the rollback does not know. *)
StartPhases ==
  /\ phase = "new" => open = {}
  /\ phase = "connect" => open = {"telegram"}
  /\ phase = "open" => open = {"telegram", "modem"}
  /\ phase \in {"reconcile", "launch"} => open = Resource
  /\ phase \in {"launch", "spawn", "up", "signal", "join", "worker", "disconnect",
                "close"} => initialized
  /\ phase \in {"undo_modem", "undo_queue"} /\ ~initialized /\ "store" \in open =>
       "store" \in stuck

(* Which tasks there are, and which the shutdown has done with. *)
TasksInPhase ==
  /\ phase \in Starting => \A t \in Task : job[t] = "absent"
  /\ phase = "spawn" => \A t \in Task \ {"worker"} : job[t] = "absent"
  /\ phase \notin Starting => job["worker"] # "absent"
  /\ phase \notin Starting \cup {"spawn"} =>
       \A t \in Background : job[t] # "absent"
  /\ phase \in Joining => turn \in 1 .. 5
  /\ phase = "join" => turn \in 1 .. 4
  /\ phase \in Joining => \A k \in 1 .. 4 : k < turn => ~Alive(Order[k])
  /\ phase \in Stopping => \A k \in 1 .. 4 : ~Alive(Order[k])
  /\ phase \in Stopped => ~Alive("worker")
  /\ \A t \in threads : job[t] \in {"working", "cancelled"}

LifecycleInv == LifecycleTypeOK /\ OpenPhases /\ StartPhases /\ TasksInPhase

LEMMA OrderFact ==
  /\ Len(Order) = 4
  /\ Order[1] = "gauge" /\ Order[2] = "cleanup" /\ Order[3] = "watchdog"
  /\ Order[4] = "heartbeat"
  /\ \A k \in 1 .. 4 : Order[k] \in Task \ {"worker"}
BY DEF Order, Task

LEMMA BackgroundFact == Background \subseteq Task \ {"worker"}
BY DEF Background, Task

LEMMA LifecycleStarts == LifecycleInit => LifecycleInv
<1> SUFFICES ASSUME LifecycleInit PROVE LifecycleInv
  OBVIOUS
<1>1. LifecycleTypeOK
  <2>1. 0 \in 0 .. Len(Order) + 1 /\ 0 \in 0 .. MaxFaults
    BY LifecycleAssumption, OrderFact
  <2>2. job \in [Task -> States]
    BY DEF LifecycleInit, States
  <2> QED
    BY <2>1, <2>2 DEF LifecycleInit, LifecycleTypeOK, Phases
<1>2. OpenPhases /\ StartPhases
  BY DEF LifecycleInit, OpenPhases, StartPhases
<1>3. TasksInPhase
  BY DEF LifecycleInit, TasksInPhase, Starting, Joining, Stopping, Stopped
<1> QED
  BY <1>1, <1>2, <1>3 DEF LifecycleInv

LEMMA StartupKeeps == ASSUME LifecycleInv, Startup PROVE LifecycleInv'
<1> USE LifecycleAssumption, OrderFact, BackgroundFact
    DEF LifecycleInv, LifecycleTypeOK, OpenPhases, StartPhases, TasksInPhase, Alive, Phases,
        States, Starting, Joining, Stopping, Stopped, running, resources
<1>1. CASE Enter
  BY <1>1 DEF Enter, Opens, Resource
<1>2. CASE ConnectModem
  BY <1>2 DEF ConnectModem, Opens, Resource
<1>8. CASE OpenStore
  BY <1>8 DEF OpenStore, Opens, Resource
<1>3. CASE OpenQueue
  BY <1>3 DEF OpenQueue
<1>4. CASE StartWorker
  <2>1. /\ phase = "launch" /\ phase' = "spawn"
        /\ job' = [job EXCEPT !["worker"] = "waiting"]
        /\ UNCHANGED <<turn, signalled, threads, resources, faults>>
    BY <1>4 DEF StartWorker
  <2>2. "worker" \in Task
    BY DEF Task
  <2>3. LifecycleTypeOK'
    BY <2>1, <2>2
  <2>4. TasksInPhase'
    BY <2>1, <2>2
  <2> QED
    BY <2>1, <2>3, <2>4
<1>5. CASE StartRaises
  BY <1>5 DEF StartRaises, Fault, Resource
<1>7. CASE Spawn
  <2>1. /\ phase = "spawn" /\ phase' = "up"
        /\ UNCHANGED <<turn, signalled, threads, resources, faults>>
    BY <1>7 DEF Spawn
  <2>2. /\ job' \in [Task -> States]
        /\ \A t \in Background : job'[t] # "absent"
        /\ job'["worker"] = job["worker"]
    <3>1. PICK heartbeat \in {"absent", "waiting"} :
            job' = [t \in Task |-> IF t \in Background THEN "working"
                                  ELSE IF t = "heartbeat" THEN heartbeat ELSE job[t]]
      BY <1>7 DEF Spawn
    <3>2. job' \in [Task -> States]
      <4>1. \A t \in Task : job[t] \in States
        OBVIOUS
      <4> HIDE DEF States
      <4>2. "working" \in States /\ heartbeat \in States
        BY <3>1 DEF States
      <4> QED
        BY <3>1, <4>1, <4>2
    <3>3. \A t \in Background : job'[t] # "absent"
      BY <3>1
    <3>4. "worker" \in Task \ Background
      BY DEF Task, Background
    <3>5. job'["worker"] = job["worker"]
      BY <3>1, <3>4
    <3> QED
      BY <3>2, <3>3, <3>5
  <2>3. threads \subseteq {"worker"}
    BY <2>1 DEF Task, OnFiles
  <2>4. LifecycleTypeOK'
    <3>1. \A t \in signalled : job'[t] # "absent"
      BY <2>1, <2>2 DEF Task
    <3> QED
      BY <2>1, <2>2, <3>1
  <2>5. TasksInPhase'
    BY <2>1, <2>2, <2>3 DEF Task
  <2> QED
    BY <2>1, <2>4, <2>5
<1> QED
  BY <1>1, <1>2, <1>3, <1>4, <1>5, <1>7, <1>8 DEF Startup

(* A task that is at work or waits goes on working or waiting, or is over; no *)
(* other task comes to life.                                                  *)
LEMMA TaskKeeps ==
  ASSUME LifecycleInv, NEW t \in Task,
         \/ ThreadStarts(t) \/ ThreadEnds(t) \/ Work(t) \/ Rest(t) \/ Notice(t)
         \/ Raise(t)
  PROVE  LifecycleInv'
<1>1. /\ UNCHANGED <<phase, turn, signalled, resources>>
      /\ threads' \subseteq OnFiles /\ faults' \in 0 .. MaxFaults
  BY LifecycleAssumption
  DEF ThreadStarts, ThreadEnds, Work, Rest, Notice, Raise, Fault, resources,
      LifecycleInv, LifecycleTypeOK
<1>2. \/ UNCHANGED job /\ \A u \in threads' \ threads : job[u] = "working"
      \/ /\ Alive(t) /\ threads' = threads
         /\ \E s \in {"working", "waiting", "ended", "dead"} :
              /\ s # "working" => t \notin threads
              /\ job' = [job EXCEPT ![t] = s]
  <2>1. Raise(t) \/ Notice(t) => t \notin threads
    BY LifecycleAssumption
    DEF Raise, Notice, LifecycleInv, LifecycleTypeOK, TasksInPhase, OnFiles
  <2> QED
    BY <2>1
    DEF ThreadStarts, ThreadEnds, Work, Rest, Notice, Raise, Alive, running
<1>3. /\ job' \in [Task -> States]
      /\ \A u \in Task : /\ job'[u] = "absent" <=> job[u] = "absent"
                         /\ Alive(u)' => Alive(u)
  BY <1>2 DEF Alive, States, LifecycleInv, LifecycleTypeOK
<1>4. \A u \in threads' : job'[u] \in {"working", "cancelled"}
  <2>1. \A u \in threads : u \in Task /\ job[u] \in {"working", "cancelled"}
    BY DEF LifecycleInv, LifecycleTypeOK, TasksInPhase, OnFiles, Task
  <2>2. CASE UNCHANGED job /\ \A u \in threads' \ threads : job[u] = "working"
    BY <2>1, <2>2
  <2>3. CASE /\ threads' = threads
             /\ \E s \in {"working", "waiting", "ended", "dead"} :
                  /\ s # "working" => t \notin threads
                  /\ job' = [job EXCEPT ![t] = s]
    <3>1. PICK s : /\ s # "working" => t \notin threads
                   /\ job' = [job EXCEPT ![t] = s]
      BY <2>3
    <3>2. job \in [Task -> States]
      BY DEF LifecycleInv, LifecycleTypeOK
    <3>3. \A u \in threads : job'[u] = IF u = t THEN s ELSE job[u]
      BY <2>1, <3>1, <3>2
    <3> QED
      BY <2>1, <2>3, <3>1, <3>3
  <2> QED
    BY <1>2, <2>2, <2>3
<1> QED
  BY <1>1, <1>3, <1>4, OrderFact, BackgroundFact
  DEF LifecycleInv, LifecycleTypeOK, OpenPhases, StartPhases, TasksInPhase, Task,
      resources

LEMMA ShutdownKeeps ==
  ASSUME LifecycleInv, Terminate \/ Shutdown PROVE LifecycleInv'
<1> USE LifecycleAssumption, OrderFact, BackgroundFact
    DEF LifecycleInv, LifecycleTypeOK, OpenPhases, StartPhases, TasksInPhase, Alive, Phases,
        States, Starting, Joining, Stopping, Stopped, running, resources
<1>1. CASE Terminate
  BY <1>1 DEF Terminate
<1>2. CASE Signal
  BY <1>2 DEF Signal
<1>3. CASE Joined
  BY <1>3 DEF Joined, NextTurn
<1>4. CASE JoinRaises
  BY <1>4 DEF JoinRaises
<1>5. CASE JoinTimeout
  BY <1>5 DEF JoinTimeout, NextTurn
<1>6. CASE StopRelay
  <2>1. /\ phase = "signal" /\ turn > 4 /\ phase' = "worker"
        /\ signalled' = signalled \cup {"worker"}
        /\ UNCHANGED <<turn, job, threads, resources, faults>>
    BY <1>6 DEF StopRelay
  <2>2. LifecycleTypeOK'
    BY <2>1 DEF Task
  <2>3. \A k \in 1 .. 4 : k < turn
    BY <2>1
  <2>4. TasksInPhase'
    BY <2>1, <2>3
  <2> QED
    BY <2>1, <2>2, <2>4
<1>7. CASE WorkerEnded
  <2>1. /\ phase = "worker" /\ phase' = "disconnect"
        /\ UNCHANGED <<turn, signalled, threads, resources, faults>>
    BY <1>7 DEF WorkerEnded
  <2>2. /\ job' \in [Task -> States]
        /\ job'["worker"] \in {"ended", "cancelled"}
        /\ \A t \in Task \ {"worker"} : job'[t] = job[t]
        /\ "worker" \in threads => job'["worker"] = "cancelled"
    <3>1. CASE job["worker"] = "ended" /\ UNCHANGED job
      BY <3>1
    <3>2. CASE /\ job["worker"] = "working"
               /\ job' = [job EXCEPT !["worker"] = "cancelled"]
      BY <3>2 DEF Task
    <3> QED
      BY <1>7, <3>1, <3>2 DEF WorkerEnded
  <2>3. "worker" \in Task /\ threads \subseteq Task
    BY DEF Task, OnFiles
  <2>4. LifecycleTypeOK'
    BY <2>1, <2>2, <2>3
  <2>5. TasksInPhase'
    BY <2>1, <2>2, <2>3
  <2> QED
    BY <2>1, <2>4, <2>5 DEF Resource
<1> QED
  BY <1>1, <1>2, <1>3, <1>4, <1>5, <1>6, <1>7 DEF Shutdown

LEMMA CloseDownKeeps == ASSUME LifecycleInv, CloseDown PROVE LifecycleInv'
<1> USE LifecycleAssumption, OrderFact, BackgroundFact
    DEF LifecycleInv, LifecycleTypeOK, OpenPhases, StartPhases, TasksInPhase, Alive,
        Phases, Starting, Joining, Stopping, Stopped, running, resources, Resource,
        Closing, After, Subject, NotInitialized
<1>1. CASE Skip
  BY <1>1 DEF Skip
<1>2. CASE Closes
  BY <1>2 DEF Closes
<1>3. CASE CloseRaises
  BY <1>3 DEF CloseRaises, Fault
<1> QED
  BY <1>1, <1>2, <1>3 DEF CloseDown

LEMMA LifecycleKept == LifecycleInv /\ [LifecycleNext]_vars => LifecycleInv'
<1>1. LifecycleInv /\ UNCHANGED vars => LifecycleInv'
  BY DEF LifecycleInv, LifecycleTypeOK, OpenPhases, StartPhases, TasksInPhase, Alive, vars, running,
      resources
<1> QED
  BY <1>1, StartupKeeps, TaskKeeps, ShutdownKeeps, CloseDownKeeps
  DEF LifecycleNext

LEMMA LifecycleInvariant == LifecycleSpec => []LifecycleInv
BY LifecycleStarts, LifecycleKept, PTL DEF LifecycleSpec

(* The types, and no task is told to stop that was never started. *)
THEOREM LifecycleTypeCorrect == LifecycleSpec => []LifecycleTypeOK
<1>1. LifecycleInv => LifecycleTypeOK
  BY DEF LifecycleInv
<1> QED
  BY <1>1, LifecycleInvariant, PTL

LEMMA LifecycleInvUsers == LifecycleInv => UsersFirst
<1> SUFFICES ASSUME LifecycleInv PROVE UsersFirst
  OBVIOUS
<1> USE OrderFact
    DEF LifecycleInv, LifecycleTypeOK, OpenPhases, StartPhases, TasksInPhase, Alive, Phases,
        Starting, Joining, Stopping, Stopped, Task, Resource
<1>1. Alive("gauge") \/ Alive("cleanup") => "store" \in open
  OBVIOUS
<1>2. Alive("watchdog") => "modem" \in open
  OBVIOUS
<1>3. Alive("heartbeat") => "telegram" \in open
  OBVIOUS
<1>4. Alive("worker") => {"telegram", "store"} \subseteq open
  OBVIOUS
<1> QED
  BY <1>1, <1>2, <1>3, <1>4 DEF UsersFirst

(* No client and no queue is closed under the worker or one of the four      *)
(* background tasks while it is alive, whichever tasks die of an exception   *)
(* and however long each takes.                                              *)
THEOREM UsersStopFirst == LifecycleSpec => []UsersFirst
BY LifecycleInvUsers, LifecycleInvariant, PTL

(* After the lifespan, and after a failed startup, none of the five tasks is *)
(* left, and nothing is open but what could not be closed, or the connection *)
(* to dedup.db of a queue whose initialize has failed.  A shutdown that a    *)
(* dead task has aborted does not get that far.                              *)
THEOREM LifespanLeavesNothing == LifecycleSpec => []ClosedWhenDown
<1>1. ASSUME LifecycleInv PROVE ClosedWhenDown
  BY <1>1, OrderFact
  DEF LifecycleInv, LifecycleTypeOK, OpenPhases, StartPhases, TasksInPhase, Alive, Phases,
      Starting, Joining, Stopping, Stopped, Task, Resource, ClosedWhenDown
<1> QED
  BY <1>1, LifecycleInvariant, PTL

(* What goes on with the files of a closed queue is a thread of a task that   *)
(* was cancelled.                                                             *)
THEOREM OnlyCancelledLeaveThreads == LifecycleSpec => []LeftBehind
<1>1. ASSUME LifecycleInv PROVE LeftBehind
  <2> SUFFICES ASSUME NEW t \in threads, job[t] # "cancelled" PROVE "store" \in open
    BY DEF LeftBehind
  <2>1. Alive(t) /\ t \in OnFiles
    BY <1>1 DEF LifecycleInv, LifecycleTypeOK, TasksInPhase, Alive
  <2>2. UsersFirst
    BY <1>1, LifecycleInvUsers
  <2> QED
    BY <2>1, <2>2 DEF UsersFirst, OnFiles
<1> QED
  BY <1>1, LifecycleInvariant, PTL
=============================================================================
