--------------------------- MODULE SmsRelayProofs ---------------------------
(***************************************************************************)
(* For any number of SMS, retries, restarts, crashes and failing calls: no *)
(* SMS leaves the modem before the queue holds it, other than those whose  *)
(* text was never decoded.                                                 *)
(***************************************************************************)
EXTENDS SmsRelay, TLAPS

Jobs == [owner : Owners, task : 0 .. MaxTasks, sms : 0 .. MaxSms,
         at : {"none", "read", "enqueue", "delete"}]
Retries == [sms : 0 .. MaxSms, attempt : 0 .. MaxAttempts,
            at : {"none", "sleep", "wait", "locked", "expire"}]
Inbound == {r \in Retries : r.sms \notin Outbound /\ (r.at # "none" => r.sms \in Sms)}

(* Whoever deletes an SMS has seen it accepted, and nobody works on one that is
   not inbound.  The task that holds the lock is where it took it. *)
CustodyInv ==
  /\ NoSmsLost
  /\ messages \cap Outbound = {}
  /\ retry \in [Task -> Inbound]
  /\ job.at # "none" => job.sms \in Sms
  /\ job.at \in {"enqueue", "delete"} => job.sms \notin Outbound
  /\ job.at = "delete" => job.sms \in accepted
  /\ job.owner = "retry" =>
       /\ job.task \in Task /\ job.at # "none"
       /\ retry[job.task].at = "locked" /\ retry[job.task].sms = job.sms

RelayInv == RelayTypeOK /\ CustodyInv

LEMMA RelayValues ==
  /\ Free \in Jobs /\ NoRetry \in Inbound /\ NoRetries \in [Task -> Inbound]
  /\ \A s \in Sms \ Outbound : [sms |-> s, at |-> "sleep", attempt |-> 1] \in Inbound
  /\ Inbound \subseteq Retries
  /\ Sms \subseteq 0 .. MaxSms /\ Task \subseteq 0 .. MaxTasks /\ 0 \notin Outbound
BY RelayBoundsAssumption
DEF Free, NoRetry, NoRetries, Jobs, Retries, Inbound, Owners, Sms, Task

LEMMA TypeOfTasks ==
  RelayTypeOK => job \in Jobs /\ retry \in [Task -> Retries]
BY DEF RelayTypeOK, Jobs, Retries

LEMMA RelayInvInit == RelayInit => RelayInv
<1> SUFFICES ASSUME RelayInit PROVE RelayInv
  OBVIOUS
<1>1. job \in Jobs /\ retry \in [Task -> Retries] /\ retry \in [Task -> Inbound]
  BY RelayValues DEF RelayInit
<1>2. nextSms \in 1 .. MaxSms + 1 /\ 1 .. nextSms - 1 = {}
      /\ registry \in [Sms -> 0 .. MaxTasks] /\ emptyReads \in [Sms -> Nat]
  BY RelayBoundsAssumption DEF RelayInit
<1>3. RelayTypeOK
  BY <1>1, <1>2 DEF RelayInit, RelayTypeOK, Jobs, Retries
<1>4. CustodyInv
  BY <1>1, <1>2 DEF RelayInit, CustodyInv, NoSmsLost, Free
<1> QED
  BY <1>3, <1>4 DEF RelayInv

(* A step that leaves the tasks and the storage alone. *)
LEMMA CustodyOfMoves ==
  ASSUME CustodyInv, UNCHANGED <<stored, nextSms, accepted, dropped, retry>>,
         messages' \cap Outbound = {},
         \/ job' = job
         \/ job' = Free \/ job' = [Free EXCEPT !.owner = "drain"]
  PROVE  CustodyInv'
BY DEF CustodyInv, NoSmsLost, Free

LEMMA ScheduleKeeps ==
  ASSUME RelayInv, NEW s \in Sms \ Outbound, ScheduleTextRetry(s)
  PROVE  /\ retry' \in [Task -> Inbound] /\ registry' \in [Sms -> 0 .. MaxTasks]
         /\ \A t \in Task : retry[t].at # "none" => retry'[t] = retry[t]
<1>1. retry \in [Task -> Inbound] /\ registry \in [Sms -> 0 .. MaxTasks]
  BY DEF RelayInv, RelayTypeOK, CustodyInv
<1>2. CASE registry[s] # 0
  BY <1>1, <1>2 DEF ScheduleTextRetry
<1>3. CASE registry[s] = 0
  <2>1. PICK t \in Task :
          /\ ~Alive(t)
          /\ retry' = [retry EXCEPT ![t] = [sms |-> s, at |-> "sleep", attempt |-> 1]]
          /\ registry' = [registry EXCEPT ![s] = t]
    BY <1>3 DEF ScheduleTextRetry, First
  <2> QED
    BY <1>1, <2>1, RelayValues DEF Alive
<1> QED
  BY <1>2, <1>3

LEMMA EndRetryKeeps ==
  ASSUME RelayInv, NEW t \in Task, EndRetry(t)
  PROVE  /\ retry' \in [Task -> Inbound] /\ registry' \in [Sms -> 0 .. MaxTasks]
         /\ \A u \in Task : u # t => retry'[u] = retry[u]
<1>1. retry \in [Task -> Inbound] /\ registry \in [Sms -> 0 .. MaxTasks]
  BY DEF RelayInv, RelayTypeOK, CustodyInv
<1>2. registry' \in [Sms -> 0 .. MaxTasks]
  <2>1. registry' = registry \/ registry' = [registry EXCEPT ![retry[t].sms] = 0]
    BY DEF EndRetry
  <2>2. 0 \in 0 .. MaxTasks
    BY RelayBoundsAssumption
  <2> QED
    BY <1>1, <2>1, <2>2
<1>3. retry' = [retry EXCEPT ![t] = NoRetry]
  BY DEF EndRetry
<1> QED
  BY <1>1, <1>2, <1>3, RelayValues

LEMMA ReleaseKeeps ==
  ASSUME RelayInv, Release
  PROVE  /\ job' = Free /\ retry' \in [Task -> Inbound]
         /\ registry' \in [Sms -> 0 .. MaxTasks]
<1>1. retry \in [Task -> Inbound] /\ registry \in [Sms -> 0 .. MaxTasks]
  BY DEF RelayInv, RelayTypeOK, CustodyInv
<1>2. CASE job.owner = "retry"
  BY <1>2, EndRetryKeeps DEF Release, RelayInv, CustodyInv
<1>3. CASE job.owner # "retry"
  BY <1>1, <1>3 DEF Release
<1> QED
  BY <1>2, <1>3
-----------------------------------------------------------------------------
(* Preservation, action by action. *)

LEMMA RollBackKeeps ==
  ASSUME RelayInv, RollBack, spent' \in [crash : Nat, fault : Nat] PROVE RelayInv'
<1> USE DEF RelayInv, modem, client, inbox, history
<1>1. job' \in Jobs /\ (job' = job \/ job' = Free)
  BY TypeOfTasks, RelayValues DEF RollBack
<1>2. RelayTypeOK'
  BY <1>1 DEF RollBack, RelayTypeOK, Stopping, Jobs
<1>3. messages' = {} /\ UNCHANGED <<stored, nextSms, accepted, dropped, retry>>
  BY DEF RollBack
<1> QED
  BY <1>1, <1>2, <1>3, CustodyOfMoves

LEMMA StartKeeps == RelayInv /\ StartSteps => RelayInv'
<1> SUFFICES ASSUME RelayInv, StartSteps PROVE RelayInv'
  OBVIOUS
<1> USE DEF RelayInv, modem, client, inbox, tasks, history
<1>1. CASE Connect \/ Initialize \/ WatchAdded
  <2>1. RelayTypeOK'
    BY <1>1 DEF Connect, Initialize, WatchAdded, RelayTypeOK, Starting
  <2>2. UNCHANGED <<messages, job, stored, nextSms, accepted, dropped, retry>>
    BY <1>1 DEF Connect, Initialize, WatchAdded
  <2> QED
    BY <2>1, <2>2, CustodyOfMoves DEF CustodyInv
<1>2. CASE ListSmsPaths
  <2>1. RelayTypeOK'
    BY <1>2 DEF ListSmsPaths, RelayTypeOK, Starting
  <2> QED
    BY <1>2, <2>1, CustodyOfMoves DEF ListSmsPaths
<1>3. ASSUME NEW s \in Sms, DrainSkip(s) PROVE RelayInv'
  <2>1. RelayTypeOK'
    BY <1>3 DEF DrainSkip, RelayTypeOK
  <2> QED
    BY <1>3, <2>1, CustodyOfMoves DEF DrainSkip, CustodyInv
<1>4. ASSUME NEW s \in Sms, DrainEmpty(s) PROVE RelayInv'
  <2>1. /\ retry' \in [Task -> Inbound] /\ registry' \in [Sms -> 0 .. MaxTasks]
        /\ \A t \in Task : retry[t].at # "none" => retry'[t] = retry[t]
    BY <1>4, ScheduleKeeps DEF DrainEmpty
  <2>2. RelayTypeOK'
    <3>1. emptyReads' \in [Sms -> Nat]
      BY <1>4 DEF DrainEmpty, EmptyRead, RelayTypeOK
    <3> QED
      BY <1>4, <2>1, <3>1, RelayValues DEF DrainEmpty, RelayTypeOK, Retries
  <2>3. CustodyInv'
    BY <1>4, <2>1 DEF DrainEmpty, CustodyInv, NoSmsLost
  <2> QED
    BY <2>2, <2>3
<1>5. ASSUME NEW s \in Sms, DrainRead(s) PROVE RelayInv'
  <2>1. RelayTypeOK'
    BY <1>5 DEF DrainRead, RelayTypeOK
  <2> QED
    BY <1>5, <2>1, CustodyOfMoves DEF DrainRead, CustodyInv
<1>6. CASE DrainNext
  <2>1. PICK s \in messages : /\ job' = [job EXCEPT !.sms = s, !.at = "enqueue"]
                              /\ messages' = messages \ {s}
    BY <1>6 DEF DrainNext
  <2>2. s \in Sms \ Outbound /\ job.owner = "drain" /\ job \in Jobs
    BY <1>6, TypeOfTasks DEF DrainNext, CustodyInv, RelayTypeOK
  <2>3. job' \in Jobs /\ job'.at = "enqueue" /\ job'.sms = s /\ job'.owner = "drain"
    BY <2>1, <2>2, RelayValues DEF Jobs
  <2>4. RelayTypeOK'
    BY <1>6, <2>1, <2>3 DEF DrainNext, RelayTypeOK, Starting, Jobs
  <2>5. CustodyInv'
    BY <1>6, <2>1, <2>2, <2>3 DEF DrainNext, CustodyInv, NoSmsLost
  <2> QED
    BY <2>4, <2>5
<1>7. CASE Started
  <2>1. RelayTypeOK'
    BY <1>7, RelayValues DEF Started, RelayTypeOK, Jobs
  <2> QED
    BY <1>7, <2>1, CustodyOfMoves DEF Started, Free, CustodyInv
<1>8. CASE DrainDeleteFails
  <2>1. RollBack /\ spent' = spent
    BY <1>8 DEF DrainDeleteFails
  <2> QED
    BY <2>1, RollBackKeeps DEF RelayTypeOK
<1> QED
  BY <1>1, <1>2, <1>3, <1>4, <1>5, <1>6, <1>7, <1>8 DEF StartSteps

LEMMA StopKeeps == RelayInv /\ StopSteps => RelayInv'
<1> SUFFICES ASSUME RelayInv, StopSteps PROVE RelayInv'
  OBVIOUS
<1> USE DEF RelayInv, modem, client, inbox, tasks, history, start
<1>1. CASE CancelRetries
  <2>1. cancelling' \subseteq Task
    <3>1. \A s \in Sms : registry[s] \in 0 .. MaxTasks
      BY DEF RelayTypeOK
    <3>2. 0 .. MaxTasks \subseteq Task \cup {0}
      BY RelayBoundsAssumption DEF Task
    <3> QED
      BY <1>1, <3>1, <3>2 DEF CancelRetries, Registered
  <2>2. pc' \in {"worker", "await"}
    BY <1>1, Zenon DEF CancelRetries
  <2>3. RelayTypeOK'
    <3>1. UNCHANGED <<modem, client, inbox, status, todo, messages, reused, job, waiting,
                      retry, registry, spent, history>>
      BY <1>1 DEF CancelRetries
    <3>2. job' \in Jobs /\ retry' \in [Task -> Retries]
      BY <3>1, TypeOfTasks
    <3> QED
      BY <2>1, <2>2, <3>1, <3>2 DEF RelayTypeOK, Stopping, Jobs, Retries
  <2> QED
    BY <1>1, <2>3, CustodyOfMoves DEF CancelRetries, CustodyInv
<1>2. CASE RetriesCancelled \/ WorkerStops \/ Disconnect \/ QueueClose
  <2>1. RelayTypeOK'
    <3>1. CASE RetriesCancelled
      <4>1. registry' \in [Sms -> 0 .. MaxTasks]
        BY <3>1, RelayBoundsAssumption DEF RetriesCancelled
      <4> QED
        BY <3>1, <4>1 DEF RetriesCancelled, RelayTypeOK, Stopping
    <3>2. CASE WorkerStops \/ Disconnect \/ QueueClose
      BY <3>2 DEF WorkerStops, Disconnect, QueueClose, RelayTypeOK, Stopping
    <3> QED
      BY <1>2, <3>1, <3>2
  <2>2. UNCHANGED <<messages, job, stored, nextSms, accepted, dropped, retry>>
    BY <1>2 DEF RetriesCancelled, WorkerStops, Disconnect, QueueClose
  <2> QED
    BY <2>1, <2>2, CustodyOfMoves DEF CustodyInv
<1>3. ASSUME NEW t \in Task, RetryCancelled(t) PROVE RelayInv'
  <2> DEFINE s == retry[t].sms
             owns == job.owner = "retry" /\ job.task = t
  <2>1. /\ retry' \in [Task -> Inbound] /\ registry' \in [Sms -> 0 .. MaxTasks]
        /\ \A u \in Task : u # t => retry'[u] = retry[u]
    BY <1>3, EndRetryKeeps DEF RetryCancelled
  <2>2. job' = IF owns THEN Free ELSE job
    BY <1>3 DEF RetryCancelled
  <2>3. job' \in Jobs /\ (job'.owner = "retry" => job' = job /\ job.task # t)
        /\ (job' = job \/ job' = Free)
    BY <2>2, TypeOfTasks, RelayValues DEF Free
  <2>4. /\ retry[t].at \in {"none", "sleep", "wait", "locked", "expire"}
        /\ s \notin Outbound /\ (retry[t].at # "none" => s \in Sms)
        /\ owns => job.at # "none" /\ s = job.sms /\ s \in Sms
        /\ owns /\ job.at = "delete" => s \in accepted
    BY DEF CustodyInv, Inbound, Retries
  <2>5. \/ UNCHANGED <<stored, accepted, dropped>>
        \/ s \in Sms /\ accepted' = accepted \cup {s} /\ UNCHANGED <<stored, dropped>>
        \/ s \in accepted /\ stored' = stored \ {s} /\ UNCHANGED <<accepted, dropped>>
        \/ /\ s \in Sms /\ stored' = stored \ {s} /\ accepted' = accepted
           /\ dropped' = dropped \cup ({s} \cap stored)
    <3>1. CASE owns
      <4>1. job.at \in {"read", "enqueue", "delete"}
        BY <3>1, <2>4, TypeOfTasks DEF Jobs
      <4> QED
        BY <1>3, <3>1, <2>4, <4>1 DEF RetryCancelled
    <3>2. CASE ~owns
      BY <1>3, <3>2, <2>4 DEF RetryCancelled
    <3> QED
      BY <3>1, <3>2
  <2>6. stored' \subseteq Sms /\ accepted' \subseteq Sms /\ dropped' \subseteq Sms
    BY <2>5 DEF RelayTypeOK
  <2>7. RelayTypeOK'
    BY <1>3, <2>1, <2>3, <2>6, RelayValues
    DEF RetryCancelled, RelayTypeOK, Jobs, Retries
  <2>8. NoSmsLost'
    BY <1>3, <2>4, <2>5 DEF RetryCancelled, CustodyInv, NoSmsLost
  <2>9. CustodyInv'
    <3>1. accepted \subseteq accepted' /\ messages' = messages
      BY <1>3, <2>5 DEF RetryCancelled
    <3> QED
      BY <2>1, <2>3, <2>8, <3>1 DEF CustodyInv, Free
  <2> QED
    BY <2>7, <2>9
<1> QED
  BY <1>1, <1>2, <1>3 DEF StopSteps

LEMMA LockKeeps == RelayInv /\ LockSteps => RelayInv'
<1> SUFFICES ASSUME RelayInv, LockSteps PROVE RelayInv'
  OBVIOUS
<1> USE DEF RelayInv, modem, client, inbox, tasks, history, start
<1>1. CASE DrainLock
  <2>1. job' \in Jobs /\ job' = [Free EXCEPT !.owner = "drain"]
    BY <1>1, RelayValues DEF DrainLock, Jobs, Owners
  <2>2. RelayTypeOK'
    BY <1>1, <2>1 DEF DrainLock, RelayTypeOK, Starting, Jobs
  <2> QED
    BY <1>1, <2>1, <2>2, CustodyOfMoves DEF DrainLock, CustodyInv
<1>2. ASSUME NEW s \in Sms, HandlerLock(s) PROVE RelayInv'
  <2>1. job' = [owner |-> "handler", task |-> 0, sms |-> s, at |-> "read"]
    BY <1>2 DEF HandlerLock
  <2>2. job' \in Jobs
    BY <2>1, RelayValues, RelayBoundsAssumption DEF Jobs, Owners
  <2>3. RelayTypeOK'
    BY <1>2, <2>2 DEF HandlerLock, RelayTypeOK, Jobs
  <2>4. CustodyInv'
    BY <1>2, <2>1 DEF HandlerLock, CustodyInv, NoSmsLost
  <2> QED
    BY <2>3, <2>4
<1>3. ASSUME NEW t \in Task, RetryLock(t) PROVE RelayInv'
  <2>1. retry[t] \in Inbound /\ retry[t].at = "wait" /\ retry[t].sms \in Sms
    BY <1>3 DEF RetryLock, CustodyInv, Inbound
  <2>2. /\ job' = [owner |-> "retry", task |-> t, sms |-> retry[t].sms, at |-> "read"]
        /\ retry' = [retry EXCEPT ![t] = [@ EXCEPT !.at = "locked"]]
    BY <1>3 DEF RetryLock
  <2>3. job' \in Jobs
    BY <2>1, <2>2, RelayValues DEF Jobs, Owners
  <2>4. [retry[t] EXCEPT !.at = "locked"] \in Inbound
    BY <2>1 DEF Inbound, Retries
  <2>5. retry' \in [Task -> Inbound]
    BY <2>2, <2>4 DEF CustodyInv
  <2>6. retry'[t].at = "locked" /\ retry'[t].sms = job'.sms /\ job'.task = t
    BY <2>1, <2>2 DEF CustodyInv, Inbound, Retries
  <2>7. RelayTypeOK'
    BY <1>3, <2>3, <2>5, RelayValues DEF RetryLock, RelayTypeOK, Jobs, Retries
  <2>8. CustodyInv'
    BY <1>3, <2>1, <2>2, <2>5, <2>6 DEF RetryLock, CustodyInv, NoSmsLost
  <2> QED
    BY <2>7, <2>8
<1> QED
  BY <1>1, <1>2, <1>3 DEF LockSteps

(* Whoever reads no text tries again: the SMS stays where it is. *)
LEMMA EmptyReadsKeep == RelayInv /\ (ReadEmpty \/ RetryReadEmpty) => RelayInv'
<1> SUFFICES ASSUME RelayInv, ReadEmpty \/ RetryReadEmpty PROVE RelayInv'
  OBVIOUS
<1> USE DEF RelayInv, modem, client, inbox, tasks, history, start
<1>1. job' = Free /\ emptyReads' \in [Sms -> Nat]
      /\ UNCHANGED <<modem, client, inbox, start, waiting, cancelling, spent, dropped>>
  BY DEF ReadEmpty, RetryReadEmpty, EmptyRead, RelayTypeOK
<1>2. retry' \in [Task -> Inbound] /\ registry' \in [Sms -> 0 .. MaxTasks]
  <2>1. CASE ReadEmpty
    <3>1. job.sms \in Sms \ Outbound
      BY <2>1 DEF ReadEmpty, RelayTypeOK
    <3> QED
      BY <2>1, <3>1, ScheduleKeeps DEF ReadEmpty
  <2>2. CASE RetryReadEmpty
    <3>1. job.task \in Task /\ retry[job.task] \in Inbound
          /\ retry[job.task].sms \in Sms
      BY <2>2 DEF RetryReadEmpty, JobAt, CustodyInv
    <3> DEFINE r == retry[job.task]
               next == IF r.attempt < MaxAttempts
                       THEN [r EXCEPT !.at = "sleep", !.attempt = @ + 1]
                       ELSE [r EXCEPT !.at = "expire"]
    <3>2. next \in Inbound
      <4>1. r.attempt \in 0 .. MaxAttempts /\ MaxAttempts \in Nat
        BY <3>1, RelayBoundsAssumption DEF Inbound, Retries
      <4>2. r.attempt < MaxAttempts => r.attempt + 1 \in 0 .. MaxAttempts
        BY <4>1
      <4>3. CASE r.attempt < MaxAttempts
        BY <3>1, <4>2, <4>3 DEF Inbound, Retries
      <4>4. CASE ~(r.attempt < MaxAttempts)
        BY <3>1, <4>4 DEF Inbound, Retries
      <4> QED
        BY <4>3, <4>4
    <3>3. retry' = [retry EXCEPT ![job.task] = next] /\ registry' = registry
      BY <2>2 DEF RetryReadEmpty
    <3> HIDE DEF next
    <3> QED
      BY <3>1, <3>2, <3>3 DEF CustodyInv, RelayTypeOK
  <2> QED
    BY <2>1, <2>2
<1>3. RelayTypeOK'
  BY <1>1, <1>2, RelayValues DEF RelayTypeOK, Jobs, Retries
<1>4. CustodyInv'
  BY <1>1, <1>2 DEF CustodyInv, NoSmsLost, Free
<1> QED
  BY <1>3, <1>4

(* A step that ends the critical section, having enqueued or deleted or not. *)
LEMMA ReleasedKeeps ==
  ASSUME RelayInv, Release, JobAt(job.at),
         \/ UNCHANGED <<stored, accepted>>
         \/ job.at = "enqueue" /\ accepted' = accepted \cup {job.sms} /\ stored' = stored
         \/ job.at = "delete" /\ stored' = stored \ {job.sms} /\ accepted' = accepted,
         spent' \in [crash : Nat, fault : Nat],
         UNCHANGED <<decoded, nextSms, client, queue, start, waiting, cancelling, history>>
  PROVE  RelayInv'
<1> USE DEF RelayInv, modem, client, inbox, tasks, history, start
<1>1. job' = Free /\ retry' \in [Task -> Inbound] /\ registry' \in [Sms -> 0 .. MaxTasks]
  BY ReleaseKeeps
<1>2. stored' \subseteq Sms /\ accepted' \subseteq Sms /\ accepted \subseteq accepted'
  BY DEF RelayTypeOK, CustodyInv
<1>3. RelayTypeOK'
  BY <1>1, <1>2, RelayValues DEF RelayTypeOK, Jobs, Retries
<1>4. NoSmsLost'
  BY DEF CustodyInv, NoSmsLost
<1>5. CustodyInv'
  BY <1>1, <1>4 DEF CustodyInv, Free
<1> QED
  BY <1>3, <1>5

LEMMA JobKeeps == RelayInv /\ JobSteps => RelayInv'
<1> SUFFICES ASSUME RelayInv, JobSteps PROVE RelayInv'
  OBVIOUS
<1> USE DEF RelayInv, modem, client, inbox, tasks, history, start
<1>1. CASE ReadGone
  BY <1>1, ReleasedKeeps DEF ReadGone, JobAt, RelayTypeOK
<1>2. CASE ReadEmpty \/ RetryReadEmpty
  BY <1>2, EmptyReadsKeep
<1>3. CASE ReadText
  <2>1. job \in Jobs /\ job' = [job EXCEPT !.at = "enqueue"] /\ job.sms \in Sms \ Outbound
    BY <1>3, TypeOfTasks DEF ReadText, RelayTypeOK
  <2>2. job' \in Jobs /\ job'.at = "enqueue" /\ job'.sms = job.sms
        /\ job'.owner = job.owner /\ job'.task = job.task
    BY <2>1 DEF Jobs
  <2>3. RelayTypeOK'
    BY <1>3, <2>2 DEF ReadText, RelayTypeOK, Jobs
  <2>4. CustodyInv'
    BY <1>3, <2>1, <2>2 DEF ReadText, JobAt, CustodyInv, NoSmsLost
  <2> QED
    BY <2>3, <2>4
<1>4. CASE Enqueue
  <2>1. job \in Jobs /\ job' = [job EXCEPT !.at = "delete"]
        /\ job.sms \in Sms \ Outbound
    BY <1>4, TypeOfTasks DEF Enqueue, JobAt, CustodyInv
  <2>2. job' \in Jobs /\ job'.at = "delete" /\ job'.sms = job.sms
        /\ job'.owner = job.owner /\ job'.task = job.task
    BY <2>1 DEF Jobs
  <2>3. RelayTypeOK'
    BY <1>4, <2>1, <2>2 DEF Enqueue, RelayTypeOK, Jobs
  <2>4. CustodyInv'
    BY <1>4, <2>1, <2>2 DEF Enqueue, JobAt, CustodyInv, NoSmsLost
  <2> QED
    BY <2>3, <2>4
<1>5. CASE Delete
  <2>1. CASE job.owner = "drain"
    <3>1. job' = [Free EXCEPT !.owner = "drain"] /\ job' \in Jobs
      BY <1>5, <2>1, RelayValues DEF Delete, Jobs, Owners
    <3>2. RelayTypeOK'
      BY <1>5, <2>1, <3>1 DEF Delete, RelayTypeOK, Jobs
    <3>3. CustodyInv'
      BY <1>5, <2>1, <3>1 DEF Delete, JobAt, CustodyInv, NoSmsLost, Free
    <3> QED
      BY <3>2, <3>3
  <2>2. CASE job.owner # "drain"
    BY <1>5, <2>2, ReleasedKeeps DEF Delete, JobAt, RelayTypeOK
  <2> QED
    BY <2>1, <2>2
<1>6. CASE JobRaises
  <2>1. spent' \in [crash : Nat, fault : Nat]
    BY <1>6 DEF JobRaises, Faulty, RelayTypeOK
  <2>2. \/ UNCHANGED <<stored, accepted>>
        \/ job.at = "enqueue" /\ accepted' = accepted \cup {job.sms} /\ stored' = stored
        \/ job.at = "delete" /\ stored' = stored \ {job.sms} /\ accepted' = accepted
    BY <1>6 DEF JobRaises
  <2> QED
    BY <1>6, <2>1, <2>2, ReleasedKeeps DEF JobRaises
<1> QED
  BY <1>1, <1>2, <1>3, <1>4, <1>5, <1>6 DEF JobSteps

(* The rest: the calls of start and stop, the end of a sleep, the delete of an
   undecodable SMS, and the modem and process around them. *)
LEMMA CallsKeep == RelayInv /\ (StartCall \/ StopCall \/ StartFails) => RelayInv'
<1> SUFFICES ASSUME RelayInv, StartCall \/ StopCall \/ StartFails PROVE RelayInv'
  OBVIOUS
<1> USE DEF RelayInv, modem, client, inbox, tasks, history, start
<1>1. CASE StartCall \/ StopCall
  <2>1. RelayTypeOK'
    BY <1>1 DEF StartCall, StopCall, RelayTypeOK, Starting, Stopping
  <2>2. UNCHANGED <<messages, job, stored, nextSms, accepted, dropped, retry>>
    BY <1>1 DEF StartCall, StopCall
  <2> QED
    BY <2>1, <2>2, CustodyOfMoves DEF CustodyInv
<1>2. CASE StartFails
  <2>1. RollBack /\ spent' \in [crash : Nat, fault : Nat]
    BY <1>2 DEF StartFails, Faulty, RelayTypeOK
  <2> QED
    BY <2>1, RollBackKeeps
<1> QED
  BY <1>1, <1>2

LEMMA RetryWakesKeeps == ASSUME RelayInv, NEW t \in Task, RetryWakes(t) PROVE RelayInv'
<1> USE DEF RelayInv, modem, client, inbox, tasks, history, start
<1>1. /\ retry[t] \in Inbound /\ retry[t].at = "sleep"
      /\ retry' = [retry EXCEPT ![t] = [retry[t] EXCEPT !.at = "wait"]]
  BY DEF RetryWakes, CustodyInv
<1>2. [retry[t] EXCEPT !.at = "wait"] \in Inbound
  BY <1>1 DEF Inbound, Retries
<1>3. retry' \in [Task -> Inbound] /\ \A u \in Task : u # t => retry'[u] = retry[u]
  BY <1>1, <1>2 DEF CustodyInv
<1>4. RelayTypeOK'
  BY <1>3, RelayValues DEF RetryWakes, RelayTypeOK, Retries
<1>5. CustodyInv'
  BY <1>1, <1>3 DEF RetryWakes, CustodyInv, NoSmsLost
<1> QED
  BY <1>4, <1>5

LEMMA DeleteUndecodableKeeps ==
  ASSUME RelayInv, NEW t \in Task, DeleteUndecodable(t) PROVE RelayInv'
<1> USE DEF RelayInv, modem, client, inbox, tasks, history, start
<1>1. /\ retry' \in [Task -> Inbound] /\ registry' \in [Sms -> 0 .. MaxTasks]
      /\ \A u \in Task : u # t => retry'[u] = retry[u]
  BY EndRetryKeeps DEF DeleteUndecodable
<1>2. retry[t].at = "expire" /\ retry[t].sms \in Sms \ Outbound
  BY DEF DeleteUndecodable, CustodyInv, Inbound
<1>3. \/ UNCHANGED <<stored, dropped>>
      \/ /\ stored' = stored \ {retry[t].sms}
         /\ dropped' = dropped \cup ({retry[t].sms} \cap stored)
  BY DEF DeleteUndecodable
<1>4. spent' \in [crash : Nat, fault : Nat] /\ stored' \subseteq Sms /\ dropped' \subseteq Sms
  BY <1>3 DEF DeleteUndecodable, Faulty, RelayTypeOK
<1>5. RelayTypeOK'
  BY <1>1, <1>4, RelayValues DEF DeleteUndecodable, RelayTypeOK, Retries
<1>6. NoSmsLost'
  BY <1>2, <1>3 DEF DeleteUndecodable, CustodyInv, NoSmsLost
<1>7. CustodyInv'
  BY <1>1, <1>2, <1>6 DEF DeleteUndecodable, CustodyInv
<1> QED
  BY <1>5, <1>7

LEMMA ArriveKeeps == RelayInv /\ Arrive => RelayInv'
<1> SUFFICES ASSUME RelayInv, Arrive PROVE RelayInv'
  OBVIOUS
<1> USE DEF RelayInv, modem, client, inbox, tasks, history, start
<1>1. nextSms \in Sms /\ nextSms' = nextSms + 1 /\ stored' = stored \cup {nextSms}
  BY DEF Arrive
<1>2. nextSms' \in 1 .. MaxSms + 1 /\ 1 .. nextSms' - 1 = (1 .. nextSms - 1) \cup {nextSms}
  BY <1>1, RelayBoundsAssumption DEF RelayTypeOK, Sms
<1>3. decoded' \subseteq Sms /\ waiting' \subseteq Sms
  BY <1>1 DEF Arrive, RelayTypeOK
<1>4. RelayTypeOK'
  BY <1>1, <1>2, <1>3 DEF Arrive, RelayTypeOK
<1>5. NoSmsLost'
  BY <1>1, <1>2 DEF Arrive, CustodyInv, NoSmsLost
<1>6. CustodyInv'
  BY <1>5 DEF Arrive, CustodyInv
<1> QED
  BY <1>4, <1>6

LEMMA NewProcessKeeps == RelayInv /\ (Exit \/ Crash) => RelayInv'
<1> SUFFICES ASSUME RelayInv, Exit \/ Crash PROVE RelayInv'
  OBVIOUS
<1> USE DEF RelayInv, modem, client, inbox, tasks, history, start
<1>1. NewProcess /\ UNCHANGED <<modem, accepted, dropped>>
  BY DEF Exit, Crash
<1>2. spent' \in [crash : Nat, fault : Nat]
  BY DEF Exit, Crash, RelayTypeOK
<1>3. job' = Free /\ job' \in Jobs /\ retry' \in [Task -> Inbound]
      /\ retry' \in [Task -> Retries]
  BY <1>1, RelayValues DEF NewProcess
<1>4. registry' \in [Sms -> 0 .. MaxTasks] /\ emptyReads' \in [Sms -> Nat]
  BY <1>1, RelayBoundsAssumption DEF NewProcess, RelayTypeOK
<1>5. RelayTypeOK'
  BY <1>1, <1>2, <1>3, <1>4 DEF NewProcess, RelayTypeOK, Jobs, Retries
<1>6. CustodyInv'
  BY <1>1, <1>3 DEF NewProcess, CustodyInv, NoSmsLost, Free
<1> QED
  BY <1>5, <1>6

LEMMA RelayInvStep == RelayInv /\ [RelayNext]_vars => RelayInv'
<1> SUFFICES ASSUME RelayInv, [RelayNext]_vars PROVE RelayInv'
  OBVIOUS
<1>1. CASE StartCall \/ StopCall \/ StartFails
  BY <1>1, CallsKeep
<1>2. CASE StartSteps
  BY <1>2, StartKeeps
<1>3. CASE StopSteps
  BY <1>3, StopKeeps
<1>4. CASE LockSteps
  BY <1>4, LockKeeps
<1>5. CASE JobSteps
  BY <1>5, JobKeeps
<1>6. ASSUME NEW t \in Task, RetryWakes(t) \/ DeleteUndecodable(t) PROVE RelayInv'
  BY <1>6, RetryWakesKeeps, DeleteUndecodableKeeps
<1>7. CASE Arrive
  BY <1>7, ArriveKeeps
<1>8. ASSUME NEW s \in Sms, TextDecoded(s) PROVE RelayInv'
  <2> USE DEF modem, client, inbox, tasks, history, start
  <2>1. RelayTypeOK'
    BY <1>8 DEF RelayInv, TextDecoded, RelayTypeOK
  <2>2. UNCHANGED <<messages, job, stored, nextSms, accepted, dropped, retry>>
    BY <1>8 DEF TextDecoded
  <2> QED
    BY <2>1, <2>2, CustodyOfMoves DEF RelayInv, CustodyInv
<1>9. CASE Exit \/ Crash
  BY <1>9, NewProcessKeeps
<1>10. CASE UNCHANGED vars
  <2> USE DEF modem, client, inbox, tasks, history, start, vars
  <2>1. RelayTypeOK'
    BY <1>10 DEF RelayInv, RelayTypeOK
  <2> QED
    BY <1>10, <2>1, CustodyOfMoves DEF RelayInv, CustodyInv
<1> QED
  BY <1>1, <1>2, <1>3, <1>4, <1>5, <1>6, <1>7, <1>8, <1>9, <1>10 DEF RelayNext
-----------------------------------------------------------------------------
(* The type invariant of SmsRelay, for any number of SMS, tasks, crashes and
   failing calls. *)
THEOREM RelayTypeCorrect == RelaySpec => []RelayTypeOK
<1>1. RelayInv => RelayTypeOK
  BY DEF RelayInv
<1> QED
  BY <1>1, RelayInvInit, RelayInvStep, PTL DEF RelaySpec

(* No inbound SMS leaves the modem unless the queue holds it durably or every
   attempt to read it found no text, and no other SMS is deleted: wherever
   _process_sms and _retry_undecoded_sms_text are cancelled, fail or crash. *)
THEOREM SmsIsNeverLost == RelaySpec => []NoSmsLost
<1>1. RelayInv => NoSmsLost
  BY DEF RelayInv, CustodyInv
<1> QED
  BY <1>1, RelayInvInit, RelayInvStep, PTL DEF RelaySpec
=============================================================================
