--------------------------- MODULE SmsRetryProofs ---------------------------
(***************************************************************************)
(* The retries of SmsRelay, for any number of SMS, tasks, attempts,        *)
(* restarts, crashes and failing calls: no SMS is dropped before its last  *)
(* attempt, a path has one retry task, and no SMS is left to nobody while  *)
(* the relay runs and no call fails.                                       *)
(***************************************************************************)
EXTENDS SmsRelayProofs

(* How often an SMS has been found without text is at least what the attempt of
   its task says. *)
PatienceInv ==
  /\ DroppedAfterRetries
  /\ \A t \in Task :
       /\ retry[t].at \in {"sleep", "wait", "locked"} =>
            emptyReads[retry[t].sms] >= retry[t].attempt
       /\ retry[t].at = "expire" => emptyReads[retry[t].sms] > MaxAttempts

(* As long as the registry is not forgotten it names the task of every path. *)
Forgetting == {"worker", "disconnect", "close"}
Draining == {"read", "process"}
Tracked == \A t \in Task : Alive(t) => registry[retry[t].sms] = t

(* A task that outlives the cancellation was started by the handler of its
   path, which is gone, and a path is signalled once. *)
HandlerGone ==
  \A t \in Task : Alive(t) /\ t \notin cancelling =>
    /\ retry[t].sms \notin waiting
    /\ ~(job.owner = "handler" /\ job.sms = retry[t].sms)

SignalledOnce ==
  /\ \A s \in stored \cup waiting : s < nextSms
  /\ job.owner = "handler" => job.sms \notin waiting /\ job.sms < nextSms
  /\ \A t \in Task : Alive(t) => retry[t].sms < nextSms

SoleRetryInv ==
  /\ OneRetryPerPath /\ SignalledOnce
  /\ job.owner = "drain" => pc \in Draining
  /\ pc # "await" => cancelling = {}
  /\ ~reused /\ pc \notin Forgetting => Tracked
  /\ ~reused /\ pc \in Forgetting \cup {"await"} => HandlerGone

NewRetry(s) == [sms |-> s, at |-> "sleep", attempt |-> 1]

LEMMA RetryValues ==
  ASSUME RelayInv, NEW t \in Task
  PROVE  /\ retry[t] \in Inbound /\ retry[t].attempt \in 0 .. MaxAttempts
         /\ retry[t].at \in {"none", "sleep", "wait", "locked", "expire"}
         /\ Alive(t) => retry[t].sms \in Sms
BY DEF RelayInv, CustodyInv, Inbound, Retries, Alive

(* _schedule_text_retry leaves a registered path alone and starts one task for
   any other. *)
LEMMA ScheduleStarts ==
  ASSUME RelayInv, NEW s \in Sms, ScheduleTextRetry(s)
  PROVE  \/ registry[s] # 0 /\ retry' = retry /\ registry' = registry
         \/ /\ registry[s] = 0
            /\ \E t \in Task :
                 /\ ~Alive(t)
                 /\ retry'[t] = NewRetry(s)
                 /\ \A u \in Task : u # t => retry'[u] = retry[u]
                 /\ registry' = [registry EXCEPT ![s] = t]
<1>1. CASE registry[s] # 0
  BY <1>1 DEF ScheduleTextRetry
<1>2. CASE registry[s] = 0
  <2>1. PICK t \in Task : /\ ~Alive(t)
                          /\ retry' = [retry EXCEPT ![t] = NewRetry(s)]
                          /\ registry' = [registry EXCEPT ![s] = t]
    BY <1>2 DEF ScheduleTextRetry, First, NewRetry
  <2>2. retry'[t] = NewRetry(s) /\ \A u \in Task : u # t => retry'[u] = retry[u]
    BY <2>1 DEF RelayInv, CustodyInv
  <2> QED
    BY <1>2, <2>1, <2>2
<1> QED
  BY <1>1, <1>2

(* The end of a task: it is gone, no other is touched, and no other loses its
   place in the registry. *)
LEMMA EndRetryEnds ==
  ASSUME RelayInv, NEW t \in Task, EndRetry(t)
  PROVE  /\ retry'[t] = NoRetry
         /\ \A u \in Task : u # t => retry'[u] = retry[u]
         /\ \A u \in Task : u # t /\ Alive(u) /\ registry[retry[u].sms] = u =>
              registry'[retry[u].sms] = u
<1>1. retry \in [Task -> Inbound] /\ registry \in [Sms -> 0 .. MaxTasks]
  BY DEF RelayInv, RelayTypeOK, CustodyInv
<1>2. retry' = [retry EXCEPT ![t] = NoRetry]
  BY DEF EndRetry
<1>3. \/ registry' = registry
      \/ registry[retry[t].sms] = t /\ registry' = [registry EXCEPT ![retry[t].sms] = 0]
  BY DEF EndRetry
<1> QED
  BY <1>1, <1>2, <1>3, RetryValues

LEMMA ReleaseEnds ==
  ASSUME RelayInv, Release
  PROVE  /\ job' = Free
         /\ \A u \in Task :
              \/ retry'[u] = NoRetry
              \/ /\ retry'[u] = retry[u]
                 /\ Alive(u) /\ registry[retry[u].sms] = u => registry'[retry[u].sms] = u
<1>1. CASE job.owner = "retry"
  <2>1. job.task \in Task /\ EndRetry(job.task)
    BY <1>1 DEF Release, RelayInv, CustodyInv
  <2> QED
    BY <1>1, <2>1, EndRetryEnds DEF Release
<1>2. CASE job.owner # "retry"
  BY <1>2 DEF Release
<1> QED
  BY <1>1, <1>2
-----------------------------------------------------------------------------
(* Patience *)

LEMMA EmptyReadCounts ==
  ASSUME RelayInv, NEW s \in Sms, EmptyRead(s)
  PROVE  /\ emptyReads \in [Sms -> Nat] /\ emptyReads' \in [Sms -> Nat]
         /\ \A u \in Sms : emptyReads'[u] >= emptyReads[u]
         /\ \A n \in 0 .. MaxAttempts : emptyReads[s] >= n => emptyReads'[s] >= n + 1
BY RelayBoundsAssumption DEF RelayInv, RelayTypeOK, EmptyRead

(* A step that reads and drops nothing and lets tasks end, sleep and wake. *)
LEMMA PatienceKept ==
  ASSUME PatienceInv, UNCHANGED <<emptyReads, dropped>>,
         \A t \in Task :
           \/ retry'[t].at = "none"
           \/ retry'[t] = retry[t]
           \/ /\ retry'[t].sms = retry[t].sms /\ retry'[t].attempt = retry[t].attempt
              /\ retry'[t].at # "expire"
              /\ retry[t].at \in {"sleep", "wait", "locked"}
  PROVE  PatienceInv'
BY DEF PatienceInv, DroppedAfterRetries

(* A read without text, whoever makes it: the tasks that go on have counted it. *)
LEMMA PatienceOfReads ==
  ASSUME RelayInv, PatienceInv, NEW s \in Sms, EmptyRead(s), dropped' = dropped,
         \A t \in Task :
           \/ retry'[t] = retry[t]
           \/ retry'[t] = NewRetry(s)
           \/ /\ retry'[t].sms = s /\ retry[t].sms = s
              /\ retry[t].at \in {"sleep", "wait", "locked"}
              /\ \/ /\ retry[t].attempt < MaxAttempts
                    /\ retry'[t].attempt = retry[t].attempt + 1 /\ retry'[t].at = "sleep"
                 \/ retry[t].attempt >= MaxAttempts /\ retry'[t].at = "expire"
  PROVE  PatienceInv'
<1>1. /\ emptyReads \in [Sms -> Nat] /\ emptyReads' \in [Sms -> Nat]
      /\ \A u \in Sms : emptyReads'[u] >= emptyReads[u]
      /\ \A n \in 0 .. MaxAttempts : emptyReads[s] >= n => emptyReads'[s] >= n + 1
  BY EmptyReadCounts
<1>2. DroppedAfterRetries'
  <2>1. dropped \subseteq Sms
    BY DEF RelayInv, RelayTypeOK
  <2> QED
    BY <1>1, <2>1, RelayBoundsAssumption DEF PatienceInv, DroppedAfterRetries
<1>3. ASSUME NEW t \in Task
      PROVE  /\ retry'[t].at \in {"sleep", "wait", "locked"} =>
                  emptyReads'[retry'[t].sms] >= retry'[t].attempt
             /\ retry'[t].at = "expire" => emptyReads'[retry'[t].sms] > MaxAttempts
  <2>1. retry[t].attempt \in 0 .. MaxAttempts /\ MaxAttempts \in Nat \ {0}
        /\ (retry[t].at # "none" => retry[t].sms \in Sms)
    BY RetryValues, RelayBoundsAssumption DEF Alive
  <2>2. CASE retry'[t] = retry[t]
    BY <1>1, <2>1, <2>2 DEF PatienceInv
  <2>3. CASE retry'[t] = NewRetry(s)
    BY <1>1, <2>1, <2>3 DEF NewRetry
  <2>4. CASE /\ retry'[t].sms = s /\ retry[t].sms = s
             /\ retry[t].at \in {"sleep", "wait", "locked"}
             /\ \/ /\ retry[t].attempt < MaxAttempts
                   /\ retry'[t].attempt = retry[t].attempt + 1 /\ retry'[t].at = "sleep"
                \/ retry[t].attempt >= MaxAttempts /\ retry'[t].at = "expire"
    <3>1. emptyReads[s] >= retry[t].attempt
      BY <2>4 DEF PatienceInv
    <3>2. emptyReads'[s] >= retry[t].attempt + 1
      BY <1>1, <2>1, <3>1
    <3> QED
      BY <1>1, <2>1, <2>4, <3>2
  <2> QED
    BY <2>2, <2>3, <2>4
<1> QED
  BY <1>2, <1>3 DEF PatienceInv

(* The end of a task that has dropped its SMS, after the last attempt, or not. *)
LEMMA PatienceOfEnds ==
  ASSUME RelayInv, PatienceInv, NEW t \in Task, EndRetry(t), emptyReads' = emptyReads,
         \/ dropped' = dropped
         \/ retry[t].at = "expire" /\ dropped' = dropped \cup ({retry[t].sms} \cap stored)
  PROVE  PatienceInv'
<1>1. retry'[t] = NoRetry /\ \A u \in Task : u # t => retry'[u] = retry[u]
  BY EndRetryEnds
<1>2. DroppedAfterRetries'
  BY DEF PatienceInv, DroppedAfterRetries
<1> QED
  BY <1>1, <1>2 DEF PatienceInv, NoRetry

LEMMA PatienceInit == RelayInit => PatienceInv
BY DEF RelayInit, PatienceInv, DroppedAfterRetries, NoRetries, NoRetry

LEMMA PatienceOfJobs == RelayInv /\ PatienceInv /\ JobSteps => PatienceInv'
<1> SUFFICES ASSUME RelayInv, PatienceInv, JobSteps PROVE PatienceInv'
  OBVIOUS
<1> USE DEF history
<1>1. CASE ReadGone \/ JobRaises
  <2>1. Release /\ UNCHANGED <<emptyReads, dropped>>
    BY <1>1 DEF ReadGone, JobRaises
  <2> QED
    BY <2>1, ReleaseEnds, PatienceKept DEF NoRetry
<1>2. CASE ReadEmpty
  <2>1. job.sms \in Sms
    BY <1>2 DEF ReadEmpty, RelayInv, RelayTypeOK
  <2>2. \A t \in Task : retry'[t] = retry[t] \/ retry'[t] = NewRetry(job.sms)
    BY <1>2, <2>1, ScheduleStarts DEF ReadEmpty
  <2> QED
    BY <1>2, <2>1, <2>2, PatienceOfReads DEF ReadEmpty
<1>3. CASE RetryReadEmpty
  <2> DEFINE r == retry[job.task]
             next == IF r.attempt < MaxAttempts
                     THEN [r EXCEPT !.at = "sleep", !.attempt = @ + 1]
                     ELSE [r EXCEPT !.at = "expire"]
  <2>1. job.task \in Task /\ r.at = "locked" /\ r.sms = job.sms /\ job.sms \in Sms
        /\ r \in Inbound /\ r.attempt \in 0 .. MaxAttempts /\ MaxAttempts \in Nat
    BY <1>3, RetryValues, RelayBoundsAssumption
    DEF RetryReadEmpty, JobAt, RelayInv, RelayTypeOK, CustodyInv
  <2>2. retry' = [retry EXCEPT ![job.task] = next]
        /\ EmptyRead(job.sms) /\ dropped' = dropped
    BY <1>3 DEF RetryReadEmpty
  <2>3. next.sms = job.sms
        /\ \/ r.attempt < MaxAttempts /\ next.attempt = r.attempt + 1 /\ next.at = "sleep"
           \/ r.attempt >= MaxAttempts /\ next.at = "expire"
    BY <2>1 DEF Inbound, Retries
  <2>4. retry'[job.task] = next /\ \A u \in Task : u # job.task => retry'[u] = retry[u]
    <3> HIDE DEF next
    <3> QED
      BY <2>1, <2>2 DEF RelayInv, CustodyInv
  <2> HIDE DEF next
  <2> QED
    BY <2>1, <2>2, <2>3, <2>4, PatienceOfReads
<1>4. CASE ReadText \/ Enqueue
  BY <1>4, PatienceKept DEF ReadText, Enqueue
<1>5. CASE Delete
  <2>1. CASE job.owner = "drain"
    BY <1>5, <2>1, PatienceKept DEF Delete
  <2>2. CASE job.owner # "drain"
    BY <1>5, <2>2, ReleaseEnds, PatienceKept DEF Delete, NoRetry
  <2> QED
    BY <2>1, <2>2
<1> QED
  BY <1>1, <1>2, <1>3, <1>4, <1>5 DEF JobSteps

LEMMA PatienceOfRetries ==
  ASSUME RelayInv, PatienceInv, NEW t \in Task,
         RetryWakes(t) \/ RetryLock(t) \/ DeleteUndecodable(t) \/ RetryCancelled(t)
  PROVE  PatienceInv'
<1> USE DEF history
<1>1. CASE RetryWakes(t) \/ RetryLock(t)
  <2>1. PICK at \in {"wait", "locked"} : retry' = [retry EXCEPT ![t] = [@ EXCEPT !.at = at]]
    BY <1>1 DEF RetryWakes, RetryLock
  <2>2. retry[t] \in Inbound /\ retry[t].at \in {"sleep", "wait"}
    BY <1>1, RetryValues DEF RetryWakes, RetryLock
  <2>3. [retry[t] EXCEPT !.at = at].sms = retry[t].sms
        /\ [retry[t] EXCEPT !.at = at].attempt = retry[t].attempt
        /\ [retry[t] EXCEPT !.at = at].at = at
    BY <2>2 DEF Inbound, Retries
  <2>4. retry'[t] = [retry[t] EXCEPT !.at = at]
        /\ \A u \in Task : u # t => retry'[u] = retry[u]
    BY <2>1 DEF RelayInv, CustodyInv
  <2> QED
    BY <1>1, <2>2, <2>3, <2>4, PatienceKept DEF RetryWakes, RetryLock
<1>2. CASE DeleteUndecodable(t)
  BY <1>2, PatienceOfEnds DEF DeleteUndecodable
<1>3. CASE RetryCancelled(t)
  <2>1. job.owner = "retry" /\ job.task = t => retry[t].at = "locked" /\ job.at # "expire"
    BY TypeOfTasks DEF RelayInv, CustodyInv, Jobs
  <2> QED
    BY <1>3, <2>1, PatienceOfEnds DEF RetryCancelled
<1> QED
  BY <1>1, <1>2, <1>3

LEMMA PatienceStep ==
  RelayInv /\ PatienceInv /\ [RelayNext]_vars => PatienceInv'
<1> SUFFICES ASSUME RelayInv, PatienceInv, [RelayNext]_vars PROVE PatienceInv'
  OBVIOUS
<1> USE DEF history, tasks
<1>1. CASE StartCall \/ StopCall \/ StartFails
  BY <1>1, PatienceKept DEF StartCall, StopCall, StartFails, RollBack
<1>2. CASE StartSteps
  <2>1. ASSUME NEW s \in Sms, DrainEmpty(s) PROVE PatienceInv'
    <3>1. \A t \in Task : retry'[t] = retry[t] \/ retry'[t] = NewRetry(s)
      BY <2>1, ScheduleStarts DEF DrainEmpty
    <3> QED
      BY <2>1, <3>1, PatienceOfReads DEF DrainEmpty
  <2>2. ASSUME NEW s \in Sms, DrainSkip(s) \/ DrainRead(s) PROVE PatienceInv'
    BY <2>2, PatienceKept DEF DrainSkip, DrainRead
  <2>3. CASE Connect \/ Initialize \/ WatchAdded \/ ListSmsPaths
    BY <2>3, PatienceKept DEF Connect, Initialize, WatchAdded, ListSmsPaths
  <2>4. CASE DrainNext \/ DrainDeleteFails \/ Started
    BY <2>4, PatienceKept DEF DrainNext, DrainDeleteFails, RollBack, Started
  <2> QED
    BY <1>2, <2>1, <2>2, <2>3, <2>4 DEF StartSteps
<1>3. CASE StopSteps
  <2>1. CASE CancelRetries \/ RetriesCancelled \/ WorkerStops \/ Disconnect \/ QueueClose
    BY <2>1, PatienceKept
    DEF CancelRetries, RetriesCancelled, WorkerStops, Disconnect, QueueClose
  <2> QED
    BY <1>3, <2>1, PatienceOfRetries DEF StopSteps
<1>4. CASE LockSteps
  <2>1. CASE DrainLock
    BY <2>1, PatienceKept DEF DrainLock
  <2>2. ASSUME NEW s \in Sms, HandlerLock(s) PROVE PatienceInv'
    BY <2>2, PatienceKept DEF HandlerLock
  <2> QED
    BY <1>4, <2>1, <2>2, PatienceOfRetries DEF LockSteps
<1>5. CASE JobSteps
  BY <1>5, PatienceOfJobs
<1>6. ASSUME NEW t \in Task, RetryWakes(t) \/ DeleteUndecodable(t) PROVE PatienceInv'
  BY <1>6, PatienceOfRetries
<1>7. CASE Arrive
  BY <1>7, PatienceKept DEF Arrive
<1>8. ASSUME NEW s \in Sms, TextDecoded(s) PROVE PatienceInv'
  BY <1>8, PatienceKept DEF TextDecoded
<1>9. CASE Exit \/ Crash
  <2>1. /\ dropped' = dropped /\ dropped \subseteq Sms /\ retry' = NoRetries
        /\ emptyReads' = [s \in Sms |-> IF s \in dropped THEN emptyReads[s] ELSE 0]
    BY <1>9 DEF Exit, Crash, NewProcess, RelayInv, RelayTypeOK
  <2> QED
    BY <2>1 DEF PatienceInv, DroppedAfterRetries, NoRetries, NoRetry
<1>10. CASE UNCHANGED vars
  BY <1>10, PatienceKept DEF vars
<1> QED
  BY <1>1, <1>2, <1>3, <1>4, <1>5, <1>6, <1>7, <1>8, <1>9, <1>10 DEF RelayNext

(* No SMS is deleted unread before one read and every configured attempt of a
   retry task have found no text, across stops, restarts, crashes and failing
   calls of _retry_undecoded_sms_text. *)
THEOREM DroppedOnlyAfterRetries == RelaySpec => []DroppedAfterRetries
<1>1. RelayInit => RelayInv /\ PatienceInv
  BY RelayInvInit, PatienceInit
<1>2. RelayInv /\ PatienceInv /\ [RelayNext]_vars => (RelayInv /\ PatienceInv)'
  BY RelayInvStep, PatienceStep
<1>3. PatienceInv => DroppedAfterRetries
  BY DEF PatienceInv
<1> QED
  BY <1>1, <1>2, <1>3, PTL DEF RelaySpec
-----------------------------------------------------------------------------
(* One task per path *)

LEMMA SoleRetryInit == RelayInit => SoleRetryInv
<1> SUFFICES ASSUME RelayInit PROVE SoleRetryInv
  OBVIOUS
<1>1. \A t \in Task : ~Alive(t)
  BY DEF RelayInit, Alive, NoRetries, NoRetry
<1>2. job.owner = "none" /\ pc = "off" /\ cancelling = {} /\ stored = {} /\ waiting = {}
  BY DEF RelayInit, Free
<1> QED
  BY <1>1, <1>2 DEF SoleRetryInv, OneRetryPerPath, SignalledOnce, Tracked, Forgetting

(* A step that starts no task, signals no path and does not enter or leave the
   cancellation. *)
LEMMA SoleRetryKept ==
  ASSUME SoleRetryInv, stored' \subseteq stored, waiting' \subseteq waiting,
         UNCHANGED <<nextSms, reused>>,
         cancelling' \subseteq cancelling,
         \A t \in cancelling \ cancelling' : ~Alive(t)',
         job'.owner = "drain" => pc' \in Draining,
         job'.owner = "handler" =>
           \/ job'.sms = job.sms /\ job.owner = "handler"
           \/ job'.sms \in waiting \ waiting',
         pc' \in Forgetting <=> pc \in Forgetting,
         pc' = "await" <=> pc = "await",
         \A t \in Task : Alive(t)' =>
           /\ Alive(t) /\ retry'[t].sms = retry[t].sms
           /\ registry[retry[t].sms] = t => registry'[retry[t].sms] = t
  PROVE  SoleRetryInv'
<1>1. OneRetryPerPath'
  BY DEF SoleRetryInv, OneRetryPerPath
<1>2. SignalledOnce'
  BY DEF SoleRetryInv, SignalledOnce
<1>3. Tracked => Tracked'
  BY DEF Tracked
<1>4. HandlerGone => HandlerGone'
  BY DEF HandlerGone
<1>5. cancelling = {} => cancelling' = {}
  OBVIOUS
<1> QED
  BY <1>1, <1>2, <1>3, <1>4, <1>5 DEF SoleRetryInv

(* A read without text starts a task: the drain while the registry is kept, a
   handler also later, its only time. *)
LEMMA SoleRetryOfReads ==
  ASSUME RelayInv, SoleRetryInv, NEW s \in Sms, ScheduleTextRetry(s), s \in stored,
         UNCHANGED <<nextSms, stored, waiting, reused, cancelling, pc>>,
         \/ pc \notin Forgetting \cup {"await"} /\ job' = job
         \/ job.owner = "handler" /\ job.sms = s /\ job' = Free
  PROVE  SoleRetryInv'
<1> DEFINE handled == job.owner = "handler" /\ job.sms = s /\ job' = Free
<1>1. job'.owner = "drain" => pc' \in Draining
  BY DEF SoleRetryInv, Free
<1>2. CASE retry' = retry /\ registry' = registry
  <2>1. job'.owner = "handler" => job'.sms = job.sms /\ job.owner = "handler"
    BY DEF Free
  <2> QED
    BY <1>1, <1>2, <2>1, SoleRetryKept DEF Alive
<1>3. ASSUME registry[s] = 0, NEW t \in Task, ~Alive(t), retry'[t] = NewRetry(s),
             \A u \in Task : u # t => retry'[u] = retry[u],
             registry' = [registry EXCEPT ![s] = t]
      PROVE  SoleRetryInv'
  <2>1. registry \in [Sms -> 0 .. MaxTasks] /\ 0 \notin Task /\ s < nextSms
    BY DEF RelayInv, RelayTypeOK, SoleRetryInv, SignalledOnce, Task
  <2>2. Tracked => \A u \in Task : Alive(u) => retry[u].sms # s
    BY <1>3, <2>1 DEF Tracked
  <2>3. pc \in Forgetting /\ HandlerGone =>
          \A u \in Task : Alive(u) => retry[u].sms # s
    <3>1. pc \in Forgetting => handled /\ cancelling = {}
      BY DEF SoleRetryInv, Forgetting
    <3> QED
      BY <3>1 DEF HandlerGone
  <2>4. OneRetryPerPath'
    <3>1. ~reused => \A u \in Task : Alive(u) => retry[u].sms # s
      BY <2>2, <2>3 DEF SoleRetryInv
    <3>2. \A u \in Task : Alive(u)' => u = t \/ (Alive(u) /\ retry'[u] = retry[u])
      BY <1>3 DEF Alive
    <3>3. retry'[t].sms = s
      BY <1>3 DEF NewRetry
    <3> QED
      BY <3>1, <3>2, <3>3 DEF SoleRetryInv, OneRetryPerPath
  <2>5. \A u \in Task : Alive(u)' =>
          \/ u = t /\ retry'[u].sms = s
          \/ u # t /\ Alive(u) /\ retry'[u] = retry[u]
    <3>1. retry'[t].sms = s
      BY <1>3 DEF NewRetry
    <3> QED
      BY <1>3, <3>1 DEF Alive
  <2>6. SignalledOnce'
    BY <2>1, <2>5 DEF SoleRetryInv, SignalledOnce, Free
  <2>7. Tracked => Tracked'
    BY <1>3, <2>1, <2>2, <2>5, RetryValues DEF Tracked
  <2>8. pc \in Forgetting \cup {"await"} /\ HandlerGone => HandlerGone'
    <3>1. pc \in Forgetting \cup {"await"} => handled /\ s \notin waiting
      BY DEF SoleRetryInv, SignalledOnce
    <3> QED
      BY <2>5, <3>1 DEF HandlerGone, Free
  <2> QED
    BY <1>1, <2>4, <2>6, <2>7, <2>8 DEF SoleRetryInv
<1> QED
  BY <1>2, <1>3, ScheduleStarts

LEMMA SoleRetryOfJobs == RelayInv /\ SoleRetryInv /\ JobSteps => SoleRetryInv'
<1> SUFFICES ASSUME RelayInv, SoleRetryInv, JobSteps PROVE SoleRetryInv'
  OBVIOUS
<1> USE DEF modem, start
<1>1. ASSUME Release, stored' \subseteq stored,
             UNCHANGED <<nextSms, start, waiting, cancelling>>
      PROVE  SoleRetryInv'
  <2>1. \A t \in Task : Alive(t)' =>
          /\ Alive(t) /\ retry'[t].sms = retry[t].sms
          /\ registry[retry[t].sms] = t => registry'[retry[t].sms] = t
    BY <1>1, ReleaseEnds DEF Alive, NoRetry
  <2>2. job'.owner = "none"
    BY <1>1 DEF Release, Free
  <2> QED
    BY <1>1, <2>1, <2>2, SoleRetryKept
<1>2. CASE ReadGone \/ JobRaises
  BY <1>1, <1>2 DEF ReadGone, JobRaises
<1>3. CASE ReadEmpty
  <2>1. job.sms \in Sms \cap stored
    BY <1>3 DEF ReadEmpty, RelayInv, RelayTypeOK
  <2> QED
    BY <1>3, <2>1, SoleRetryOfReads DEF ReadEmpty
<1>4. CASE RetryReadEmpty
  <2> DEFINE r == retry[job.task]
             next == IF r.attempt < MaxAttempts
                     THEN [r EXCEPT !.at = "sleep", !.attempt = @ + 1]
                     ELSE [r EXCEPT !.at = "expire"]
  <2>1. job.task \in Task /\ r.at = "locked" /\ r \in Inbound
    BY <1>4, RetryValues DEF RetryReadEmpty, JobAt, RelayInv, CustodyInv
  <2>2. retry' = [retry EXCEPT ![job.task] = next] /\ registry' = registry
    BY <1>4 DEF RetryReadEmpty
  <2>3. next.sms = r.sms
    BY <2>1 DEF Inbound, Retries
  <2> HIDE DEF next
  <2>4. \A t \in Task : retry'[t].sms = retry[t].sms /\ (Alive(t)' => Alive(t))
    BY <2>1, <2>2, <2>3 DEF RelayInv, CustodyInv, Alive
  <2>5. job'.owner = "none"
    BY <1>4 DEF RetryReadEmpty, Free
  <2> QED
    BY <1>4, <2>2, <2>4, <2>5, SoleRetryKept DEF RetryReadEmpty
<1>5. CASE ReadText \/ Enqueue
  <2>1. job'.owner = job.owner /\ job'.sms = job.sms
    BY <1>5, TypeOfTasks DEF ReadText, Enqueue, RelayInv, Jobs
  <2>2. job'.owner = "drain" => pc \in Draining
    BY <2>1 DEF SoleRetryInv
  <2> QED
    BY <1>5, <2>1, <2>2, SoleRetryKept DEF ReadText, Enqueue, Alive
<1>6. CASE Delete
  <2>1. CASE job.owner = "drain"
    <3>1. pc \in Draining /\ job'.owner = "drain"
      BY <1>6, <2>1 DEF Delete, SoleRetryInv, Free
    <3> QED
      BY <1>6, <2>1, <3>1, SoleRetryKept DEF Delete, Alive
  <2>2. CASE job.owner # "drain"
    BY <1>1, <1>6, <2>2 DEF Delete
  <2> QED
    BY <2>1, <2>2
<1> QED
  BY <1>2, <1>3, <1>4, <1>5, <1>6 DEF JobSteps

LEMMA SoleRetryOfRetries ==
  ASSUME RelayInv, SoleRetryInv, NEW t \in Task,
         RetryWakes(t) \/ RetryLock(t) \/ DeleteUndecodable(t) \/ RetryCancelled(t)
  PROVE  SoleRetryInv'
<1> USE DEF modem, client, inbox, start
<1>1. CASE RetryWakes(t) \/ RetryLock(t)
  <2>1. PICK at \in {"wait", "locked"} : retry' = [retry EXCEPT ![t] = [@ EXCEPT !.at = at]]
    BY <1>1 DEF RetryWakes, RetryLock
  <2>2. retry[t] \in Inbound /\ Alive(t)
    BY <1>1, RetryValues DEF RetryWakes, RetryLock, Running
  <2>3. [retry[t] EXCEPT !.at = at].sms = retry[t].sms
    BY <2>2 DEF Inbound, Retries
  <2>4. \A u \in Task : retry'[u].sms = retry[u].sms /\ (Alive(u)' => Alive(u))
    BY <2>1, <2>2, <2>3 DEF RelayInv, CustodyInv, Alive
  <2>5. job' = job \/ job'.owner = "retry"
    BY <1>1 DEF RetryWakes, RetryLock
  <2> QED
    BY <1>1, <2>4, <2>5, SoleRetryKept DEF RetryWakes, RetryLock, SoleRetryInv
<1>2. CASE DeleteUndecodable(t) \/ RetryCancelled(t)
  <2>1. EndRetry(t)
    BY <1>2 DEF DeleteUndecodable, RetryCancelled
  <2>2. \A u \in Task : Alive(u)' =>
          /\ u # t /\ Alive(u) /\ retry'[u].sms = retry[u].sms
          /\ registry[retry[u].sms] = u => registry'[retry[u].sms] = u
    BY <2>1, EndRetryEnds DEF Alive, NoRetry
  <2>3. stored' \subseteq stored /\ UNCHANGED <<nextSms, start, waiting>>
    BY <1>2 DEF DeleteUndecodable, RetryCancelled
  <2>4. cancelling' = cancelling \/ cancelling' = cancelling \ {t}
    BY <1>2 DEF DeleteUndecodable, RetryCancelled
  <2>5. job' = job \/ job'.owner = "none"
    BY <1>2 DEF DeleteUndecodable, RetryCancelled, Free
  <2> QED
    BY <2>2, <2>3, <2>4, <2>5, SoleRetryKept DEF SoleRetryInv
<1> QED
  BY <1>1, <1>2

LEMMA SoleRetryOfStart == RelayInv /\ SoleRetryInv /\ StartSteps => SoleRetryInv'
<1> SUFFICES ASSUME RelayInv, SoleRetryInv, StartSteps PROVE SoleRetryInv'
  OBVIOUS
<1> USE DEF modem, client, inbox, tasks, SoleRetryInv, Forgetting, Draining, Alive
<1>1. CASE Connect \/ Initialize \/ WatchAdded \/ ListSmsPaths
  BY <1>1, SoleRetryKept DEF Connect, Initialize, WatchAdded, ListSmsPaths
<1>2. ASSUME NEW s \in Sms, DrainSkip(s) \/ DrainRead(s) PROVE SoleRetryInv'
  BY <1>2, SoleRetryKept DEF DrainSkip, DrainRead
<1>3. ASSUME NEW s \in Sms, DrainEmpty(s) PROVE SoleRetryInv'
  BY <1>3, SoleRetryOfReads DEF DrainEmpty
<1>4. CASE DrainNext
  <2>1. job'.owner = "drain"
    BY <1>4, TypeOfTasks DEF DrainNext, RelayInv, Jobs
  <2> QED
    BY <1>4, <2>1, SoleRetryKept DEF DrainNext
<1>5. CASE Started
  <2>1. job'.owner = "none"
    BY <1>5 DEF Started, Free
  <2> QED
    BY <1>5, <2>1, SoleRetryKept DEF Started
<1>6. CASE DrainDeleteFails
  <2>1. pc \in Draining /\ RollBack
    BY <1>6 DEF DrainDeleteFails
  <2> QED
    BY <2>1, SoleRetryKept DEF RollBack, Free
<1> QED
  BY <1>1, <1>2, <1>3, <1>4, <1>5, <1>6 DEF StartSteps

LEMMA SoleRetryOfStop == RelayInv /\ SoleRetryInv /\ StopSteps => SoleRetryInv'
<1> SUFFICES ASSUME RelayInv, SoleRetryInv, StopSteps PROVE SoleRetryInv'
  OBVIOUS
<1> USE DEF modem, client, inbox, tasks, start, SoleRetryInv, Forgetting, Draining
<1>1. CASE CancelRetries
  <2>1. /\ UNCHANGED <<stored, nextSms, reused, job, waiting, retry, registry>>
        /\ cancelling' = Registered /\ pc = "cancel"
        /\ pc' = IF Registered = {} THEN "worker" ELSE "await"
    BY <1>1 DEF CancelRetries
  <2>2. Tracked => \A t \in Task : Alive(t) => t \in Registered
    <3>1. 0 \notin Task /\ \A t \in Task : Alive(t) => retry[t].sms \in Sms
      BY RetryValues DEF Task
    <3> QED
      BY <3>1 DEF Tracked, Registered
  <2>3. ~reused => HandlerGone'
    BY <2>1, <2>2 DEF HandlerGone, Alive
  <2>4. OneRetryPerPath' /\ SignalledOnce' /\ (Tracked => Tracked')
    BY <2>1 DEF OneRetryPerPath, SignalledOnce, Tracked, Alive
  <2>5. job.owner # "drain"
    BY <2>1
  <2>6. (pc' = "worker" /\ cancelling' = {}) \/ pc' = "await"
    BY <2>1
  <2> QED
    BY <2>1, <2>3, <2>4, <2>5, <2>6
<1>2. ASSUME NEW t \in Task, RetryCancelled(t) PROVE SoleRetryInv'
  BY <1>2, SoleRetryOfRetries
<1>3. CASE RetriesCancelled
  <2>1. /\ UNCHANGED <<stored, nextSms, reused, job, waiting, retry, cancelling>>
        /\ pc = "await" /\ pc' = "worker" /\ cancelling = {}
    BY <1>3 DEF RetriesCancelled
  <2>2. OneRetryPerPath' /\ SignalledOnce' /\ (HandlerGone => HandlerGone')
    BY <2>1 DEF OneRetryPerPath, SignalledOnce, HandlerGone, Alive
  <2> QED
    BY <2>1, <2>2
<1>4. CASE WorkerStops \/ Disconnect
  BY <1>4, SoleRetryKept DEF WorkerStops, Disconnect, Alive
<1>5. CASE QueueClose
  <2>1. /\ UNCHANGED <<stored, nextSms, job, waiting, retry, cancelling>>
        /\ pc = "close" /\ pc' = "off" /\ reused'
    BY <1>5 DEF QueueClose
  <2>2. OneRetryPerPath' /\ SignalledOnce'
    BY <2>1 DEF OneRetryPerPath, SignalledOnce, Alive
  <2> QED
    BY <2>1, <2>2
<1> QED
  BY <1>1, <1>2, <1>3, <1>4, <1>5 DEF StopSteps

LEMMA SoleRetryOfRest ==
  RelayInv /\ SoleRetryInv /\ (Arrive \/ Exit \/ Crash) => SoleRetryInv'
<1> SUFFICES ASSUME RelayInv, SoleRetryInv, Arrive \/ Exit \/ Crash PROVE SoleRetryInv'
  OBVIOUS
<1> USE DEF modem, client, inbox, tasks, start, SoleRetryInv
<1>1. CASE Arrive
  <2>1. /\ nextSms' = nextSms + 1 /\ stored' = stored \cup {nextSms}
        /\ waiting' \in {waiting, waiting \cup {nextSms}}
        /\ UNCHANGED <<pc, reused, job, retry, registry, cancelling>>
    BY <1>1 DEF Arrive
  <2>2. /\ nextSms \in Nat /\ stored \cup waiting \subseteq Nat /\ job.sms \in Nat
        /\ \A t \in Task : retry[t].sms \in Nat
    <3>1. nextSms \in Nat /\ stored \cup waiting \subseteq Nat
      BY RelayBoundsAssumption DEF RelayInv, RelayTypeOK, Sms
    <3>2. job \in Jobs /\ retry \in [Task -> Retries]
      BY TypeOfTasks DEF RelayInv
    <3> QED
      BY <3>1, <3>2, RelayBoundsAssumption DEF Jobs, Retries
  <2>3. SignalledOnce'
    BY <2>1, <2>2 DEF SignalledOnce, Alive
  <2>4. OneRetryPerPath' /\ (Tracked => Tracked')
    BY <2>1 DEF OneRetryPerPath, Tracked, Alive
  <2>5. HandlerGone => HandlerGone'
    BY <2>1, <2>2 DEF HandlerGone, SignalledOnce, Alive
  <2> QED
    BY <2>1, <2>3, <2>4, <2>5
<1>2. CASE Exit \/ Crash
  <2>1. NewProcess /\ UNCHANGED <<stored, nextSms>>
    BY <1>2 DEF Exit, Crash
  <2>2. \A t \in Task : ~Alive(t)'
    BY <2>1 DEF NewProcess, Alive, NoRetries, NoRetry
  <2>3. job'.owner = "none" /\ waiting' = {} /\ cancelling' = {} /\ pc' = "off"
    BY <2>1 DEF NewProcess, Free
  <2>4. OneRetryPerPath' /\ SignalledOnce' /\ Tracked'
    BY <2>1, <2>2, <2>3 DEF OneRetryPerPath, SignalledOnce, Tracked
  <2> QED
    BY <2>3, <2>4 DEF Forgetting
<1> QED
  BY <1>1, <1>2

LEMMA SoleRetryStep ==
  RelayInv /\ SoleRetryInv /\ [RelayNext]_vars => SoleRetryInv'
<1> SUFFICES ASSUME RelayInv, SoleRetryInv, [RelayNext]_vars PROVE SoleRetryInv'
  OBVIOUS
<1> USE DEF modem, client, inbox, tasks, start, SoleRetryInv, Forgetting, Draining, Alive
<1>1. CASE StartCall \/ StopCall
  BY <1>1, SoleRetryKept DEF StartCall, StopCall
<1>2. CASE StartFails
  <2>1. pc \in Starting /\ RollBack
    BY <1>2 DEF StartFails
  <2> QED
    BY <2>1, SoleRetryKept DEF RollBack, Starting, Free
<1>3. CASE StartSteps
  BY <1>3, SoleRetryOfStart
<1>4. CASE StopSteps
  BY <1>4, SoleRetryOfStop
<1>5. CASE LockSteps
  <2>1. CASE DrainLock
    <3>1. pc' \in Draining /\ job'.owner = "drain"
      BY <2>1 DEF DrainLock, Free
    <3> QED
      BY <2>1, <3>1, SoleRetryKept DEF DrainLock
  <2>2. ASSUME NEW s \in Sms, HandlerLock(s) PROVE SoleRetryInv'
    <3>1. job'.owner = "handler" /\ job'.sms \in waiting \ waiting'
      BY <2>2 DEF HandlerLock
    <3> QED
      BY <2>2, <3>1, SoleRetryKept DEF HandlerLock
  <2> QED
    BY <1>5, <2>1, <2>2, SoleRetryOfRetries DEF LockSteps
<1>6. CASE JobSteps
  BY <1>6, SoleRetryOfJobs
<1>7. ASSUME NEW t \in Task, RetryWakes(t) \/ DeleteUndecodable(t) PROVE SoleRetryInv'
  BY <1>7, SoleRetryOfRetries
<1>8. CASE Arrive \/ Exit \/ Crash
  BY <1>8, SoleRetryOfRest
<1>9. ASSUME NEW s \in Sms, TextDecoded(s) PROVE SoleRetryInv'
  BY <1>9, SoleRetryKept DEF TextDecoded
<1>10. CASE UNCHANGED vars
  BY <1>10, SoleRetryKept DEF vars
<1> QED
  BY <1>1, <1>2, <1>3, <1>4, <1>5, <1>6, <1>7, <1>8, <1>9, <1>10 DEF RelayNext

(* Until the relay has been stopped once in its process a path has one retry
   task, also when handlers start tasks between the first await of
   _cancel_pending_text_retries and its end. *)
THEOREM OneTaskPerPath == RelaySpec => []OneRetryPerPath
<1>1. RelayInit => RelayInv /\ SoleRetryInv
  BY RelayInvInit, SoleRetryInit
<1>2. RelayInv /\ SoleRetryInv /\ [RelayNext]_vars => (RelayInv /\ SoleRetryInv)'
  BY RelayInvStep, SoleRetryStep
<1>3. SoleRetryInv => OneRetryPerPath
  BY DEF SoleRetryInv
<1> QED
  BY <1>1, <1>2, <1>3, PTL DEF RelaySpec
-----------------------------------------------------------------------------
(* Nothing is overlooked *)

Drained == {"drain"} \cup Draining
Listening == {"list"} \cup Drained

(* From the moment a part of the surroundings is up until stop or a rollback
   begins, it stays up: no call has to raise. *)
Connected ==
  /\ pc \in {"initialize", "watch"} \cup Listening \/ status = "running" => bus
  /\ pc \in {"watch"} \cup Listening \/ status = "running" => queue = "open"
  /\ pc \in Listening \/ status = "running" => watch

(* A path is registered to a live task of its own. *)
RegistryAlive ==
  \A s \in Sms : registry[s] # 0 => Alive(registry[s]) /\ retry[registry[s]].sms = s

(* Whoever answers for an SMS, the drain included. *)
InHand(s) ==
  \/ s \in waiting \cup todo \cup messages
  \/ job.owner = "handler" /\ job.sms = s
  \/ job.owner = "drain" /\ job.at # "none" /\ job.sms = s
  \/ registry[s] # 0

Careful == spent.fault = 0 /\ (pc \in Drained \/ status = "running")

PhaseInv ==
  /\ status = "running" => pc = "off"
  /\ todo \cup messages # {} => pc \in Drained
  /\ Connected

CareInv ==
  /\ PhaseInv /\ RegistryAlive
  /\ Careful => \A s \in stored \ Outbound : InHand(s)

LEMMA CareInit == RelayInit => CareInv
<1> SUFFICES ASSUME RelayInit PROVE CareInv
  OBVIOUS
<1>1. pc = "off" /\ status = "stopped" /\ todo = {} /\ messages = {}
      /\ registry = [s \in Sms |-> 0]
  BY DEF RelayInit
<1> QED
  BY <1>1 DEF CareInv, PhaseInv, Connected, RegistryAlive, Careful, Listening, Drained,
              Draining

(* Where start and stop are. *)
LEMMA PhaseKept ==
  ASSUME PhaseInv, UNCHANGED <<status, pc, bus, queue, watch>>,
         todo' \cup messages' \subseteq todo \cup messages
  PROVE  PhaseInv'
BY DEF PhaseInv, Connected

LEMMA PhaseStep ==
  RelayInv /\ SoleRetryInv /\ PhaseInv /\ [RelayNext]_vars => PhaseInv'
<1> SUFFICES ASSUME RelayInv, SoleRetryInv, PhaseInv, [RelayNext]_vars PROVE PhaseInv'
  OBVIOUS
<1> USE DEF client, inbox, start, tasks, modem
<1> DEFINE Away == /\ pc' \notin {"initialize", "watch"} \cup Listening
                   /\ status' # "running" /\ todo' = {} /\ messages' = {}
<1>1. Away => PhaseInv'
  BY DEF PhaseInv, Connected, Listening
<1>2. CASE StartCall \/ StopCall
  BY <1>1, <1>2 DEF StartCall, StopCall, PhaseInv, Listening, Drained, Draining
<1>3. CASE StartFails \/ DrainDeleteFails
  <2>1. RollBack /\ pc # "off"
    BY <1>3 DEF StartFails, DrainDeleteFails, SoleRetryInv, Starting, Draining
  <2> QED
    BY <1>1, <2>1 DEF RollBack, PhaseInv, Listening, Drained, Draining
<1>4. CASE Connect \/ Initialize \/ WatchAdded
  BY <1>4 DEF Connect, Initialize, WatchAdded, PhaseInv, Connected, Listening, Drained,
              Draining
<1>5. CASE ListSmsPaths
  BY <1>5 DEF ListSmsPaths, PhaseInv, Connected, Listening, Drained, Draining
<1>6. ASSUME NEW s \in Sms, DrainSkip(s) \/ DrainEmpty(s) \/ DrainRead(s) PROVE PhaseInv'
  <2>1. pc = "read" /\ UNCHANGED <<status, pc, bus, queue, watch>>
    BY <1>6 DEF DrainSkip, DrainEmpty, DrainRead
  <2> QED
    BY <2>1 DEF PhaseInv, Connected, Drained, Draining
<1>7. CASE DrainNext
  BY <1>7 DEF DrainNext, PhaseInv, Connected, Listening, Drained, Draining
<1>8. CASE Started
  BY <1>8 DEF Started, PhaseInv, Connected, Listening, Drained, Draining
<1>9. CASE StopSteps
  <2>1. CASE \E t \in Task : RetryCancelled(t)
    BY <2>1, PhaseKept DEF RetryCancelled
  <2>2. CASE CancelRetries \/ RetriesCancelled \/ WorkerStops \/ Disconnect \/ QueueClose
    BY <1>1, <2>2 DEF CancelRetries, RetriesCancelled, WorkerStops, Disconnect, QueueClose,
                      PhaseInv, Listening, Drained, Draining
  <2> QED
    BY <1>9, <2>1, <2>2 DEF StopSteps
<1>10. CASE DrainLock
  BY <1>10 DEF DrainLock, PhaseInv, Connected, Listening, Drained, Draining
<1>11. CASE JobSteps
  BY <1>11, PhaseKept
  DEF JobSteps, ReadGone, ReadEmpty, RetryReadEmpty, ReadText, Enqueue, Delete, JobRaises
<1>12. ASSUME NEW s \in Sms, HandlerLock(s) \/ TextDecoded(s) PROVE PhaseInv'
  BY <1>12, PhaseKept DEF HandlerLock, TextDecoded
<1>13. ASSUME NEW t \in Task, RetryLock(t) \/ RetryWakes(t) \/ DeleteUndecodable(t)
       PROVE  PhaseInv'
  BY <1>13, PhaseKept DEF RetryLock, RetryWakes, DeleteUndecodable
<1>14. CASE Arrive \/ UNCHANGED vars
  BY <1>14, PhaseKept DEF Arrive, vars
<1>15. CASE Exit \/ Crash
  BY <1>1, <1>15 DEF Exit, Crash, NewProcess, Listening, Drained, Draining
<1> QED
  BY <1>2, <1>3, <1>4, <1>5, <1>6, <1>7, <1>8, <1>9, <1>10, <1>11, <1>12, <1>13, <1>14,
     <1>15 DEF RelayNext, StartSteps, LockSteps

(* What the calls do to the registry. *)
LEMMA RegistryKept ==
  ASSUME RegistryAlive, registry' = registry, RelayInv,
         \A t \in Task : Alive(t) => Alive(t)' /\ retry'[t].sms = retry[t].sms
  PROVE  RegistryAlive'
BY DEF RegistryAlive, RelayInv, RelayTypeOK, Task

LEMMA RegistryOfStart ==
  ASSUME RelayInv, RegistryAlive, NEW s \in Sms, ScheduleTextRetry(s)
  PROVE  /\ RegistryAlive' /\ registry'[s] # 0
         /\ \A u \in Sms : registry[u] # 0 => registry'[u] # 0
<1>1. CASE registry[s] # 0
  BY <1>1, ScheduleStarts DEF RegistryAlive, Alive
<1>2. CASE registry[s] = 0
  <2>1. registry \in [Sms -> 0 .. MaxTasks] /\ 0 \notin Task
    BY DEF RelayInv, RelayTypeOK, Task
  <2>2. PICK t \in Task : /\ ~Alive(t) /\ retry'[t] = NewRetry(s)
                          /\ \A u \in Task : u # t => retry'[u] = retry[u]
                          /\ registry' = [registry EXCEPT ![s] = t]
    BY <1>2, ScheduleStarts
  <2>3. retry'[t].sms = s /\ retry'[t].at = "sleep"
    BY <2>2 DEF NewRetry
  <2>4. \A u \in Sms : registry'[u] = IF u = s THEN t ELSE registry[u]
    BY <2>1, <2>2
  <2>5. \A u \in Sms : registry[u] # 0 => registry[u] \in Task
    BY <2>1 DEF Task
  <2> QED
    BY <2>1, <2>2, <2>3, <2>4, <2>5 DEF RegistryAlive, Alive
<1> QED
  BY <1>1, <1>2

LEMMA RegistryOfEnd ==
  ASSUME RelayInv, RegistryAlive, NEW t \in Task, EndRetry(t)
  PROVE  /\ RegistryAlive'
         /\ \A s \in Sms : s # retry[t].sms => registry'[s] = registry[s]
<1>1. registry \in [Sms -> 0 .. MaxTasks]
  BY DEF RelayInv, RelayTypeOK
<1>2. \A u \in Task : u # t => retry'[u] = retry[u]
  BY EndRetryEnds
<1>3. \A s \in Sms :
        /\ registry'[s] = IF s = retry[t].sms /\ registry[s] = t THEN 0 ELSE registry[s]
  BY <1>1 DEF EndRetry
<1>4. \A s \in Sms : registry[s] # 0 => registry[s] \in Task
  BY <1>1 DEF Task
<1>5. \A s \in Sms : registry'[s] # 0 => registry'[s] = registry[s] /\ registry[s] # t
  BY <1>3 DEF RegistryAlive
<1> QED
  BY <1>2, <1>3, <1>4, <1>5 DEF RegistryAlive, Alive

LEMMA RegistryOfRelease ==
  ASSUME RelayInv, RegistryAlive, Release
  PROVE  /\ RegistryAlive'
         /\ \A s \in Sms : s # job.sms => registry'[s] = registry[s]
         /\ job.owner # "retry" => registry' = registry
<1>1. CASE job.owner = "retry"
  <2>1. job.task \in Task /\ EndRetry(job.task) /\ retry[job.task].sms = job.sms
    BY <1>1 DEF Release, RelayInv, CustodyInv
  <2> QED
    BY <1>1, <2>1, RegistryOfEnd
<1>2. CASE job.owner # "retry"
  BY <1>2 DEF Release, RegistryAlive, Alive
<1> QED
  BY <1>1, <1>2

(* Who takes an SMS over from whom. *)
LEMMA CareOfStart ==
  ASSUME RelayInv, SoleRetryInv, CareInv, PhaseInv',
         StartCall \/ StartSteps \/ StartFails \/ DrainLock
  PROVE  CareInv'
<1> USE DEF modem, tasks, Drained, Draining
<1>1. CASE /\ UNCHANGED <<retry, registry>> /\ pc' \notin Drained
           /\ \/ status' = "starting"
              \/ status' = status /\ pc # "off"
  <2>1. ~Careful'
    BY <1>1 DEF Careful, CareInv, PhaseInv
  <2>2. RegistryAlive'
    BY <1>1 DEF CareInv, RegistryAlive, Alive
  <2> QED
    BY <2>1, <2>2 DEF CareInv
<1>2. CASE StartCall \/ Connect \/ Initialize \/ WatchAdded
  BY <1>1, <1>2 DEF StartCall, Connect, Initialize, WatchAdded
<1>3. CASE StartFails \/ DrainDeleteFails
  <2>1. RollBack /\ pc # "off"
    BY <1>3 DEF StartFails, DrainDeleteFails, SoleRetryInv, Starting
  <2> QED
    BY <1>1, <2>1 DEF RollBack
<1>4. CASE ListSmsPaths
  <2>1. UNCHANGED <<retry, registry, stored>> /\ todo' = stored
    BY <1>4 DEF ListSmsPaths
  <2>2. RegistryAlive'
    BY <2>1 DEF CareInv, RegistryAlive, Alive
  <2> QED
    BY <2>1, <2>2 DEF CareInv, InHand
<1>5. CASE DrainLock
  <2>1. /\ UNCHANGED <<retry, registry, stored, todo, messages, waiting, status, spent>>
        /\ pc = "drain" /\ job.owner = "none"
    BY <1>5 DEF DrainLock, Free
  <2>2. RegistryAlive'
    BY <2>1 DEF CareInv, RegistryAlive, Alive
  <2> QED
    BY <2>1, <2>2 DEF CareInv, Careful, InHand
<1>6. ASSUME NEW s \in Sms, DrainSkip(s) \/ DrainRead(s) PROVE CareInv'
  <2>1. /\ UNCHANGED <<retry, registry, stored, waiting, job, status, spent>>
        /\ pc \in Drained
        /\ \A u \in stored \ Outbound :
             u \in todo \cup messages => u \in (todo \cup messages)'
    BY <1>6 DEF DrainSkip, DrainRead
  <2>2. RegistryAlive'
    BY <2>1 DEF CareInv, RegistryAlive, Alive
  <2> QED
    BY <2>1, <2>2 DEF CareInv, Careful, InHand
<1>7. ASSUME NEW s \in Sms, DrainEmpty(s) PROVE CareInv'
  <2>1. /\ UNCHANGED <<stored, waiting, job, status, messages, spent>>
        /\ pc \in Drained /\ todo' = todo \ {s} /\ stored \subseteq Sms
    BY <1>7 DEF DrainEmpty, RelayInv, RelayTypeOK
  <2>2. /\ RegistryAlive' /\ registry'[s] # 0
        /\ \A u \in Sms : registry[u] # 0 => registry'[u] # 0
    BY <1>7, RegistryOfStart DEF DrainEmpty, CareInv
  <2> QED
    BY <2>1, <2>2 DEF CareInv, Careful, InHand
<1>8. CASE DrainNext
  <2>1. PICK s \in messages : /\ job' = [job EXCEPT !.sms = s, !.at = "enqueue"]
                              /\ messages' = messages \ {s}
    BY <1>8 DEF DrainNext
  <2>2. job'.owner = "drain" /\ job'.at = "enqueue" /\ job'.sms = s
        /\ job.owner = "drain" /\ job.at = "none"
    BY <1>8, <2>1, TypeOfTasks DEF DrainNext, RelayInv, Jobs
  <2>3. /\ UNCHANGED <<retry, registry, stored, waiting, todo, status, spent>>
        /\ pc \in Drained
    BY <1>8 DEF DrainNext
  <2>4. RegistryAlive'
    BY <2>3 DEF CareInv, RegistryAlive, Alive
  <2> QED
    BY <2>1, <2>2, <2>3, <2>4 DEF CareInv, Careful, InHand
<1>9. CASE Started
  <2>1. /\ UNCHANGED <<retry, registry, stored, waiting, todo, messages, spent>>
        /\ pc \in Drained /\ job.owner = "drain" /\ job.at = "none"
    BY <1>9 DEF Started
  <2>2. RegistryAlive'
    BY <2>1 DEF CareInv, RegistryAlive, Alive
  <2> QED
    BY <2>1, <2>2 DEF CareInv, Careful, InHand
<1> QED
  BY <1>2, <1>3, <1>4, <1>5, <1>6, <1>7, <1>8, <1>9 DEF StartSteps

LEMMA CareOfStop ==
  ASSUME RelayInv, SoleRetryInv, CareInv, PhaseInv', StopCall \/ StopSteps
  PROVE  CareInv'
<1> USE DEF modem, tasks, start
<1>1. CASE StopCall
  <2>1. UNCHANGED <<retry, registry>> /\ status' = "stopping" /\ pc' = "cancel"
    BY <1>1 DEF StopCall
  <2> QED
    BY <2>1 DEF CareInv, Careful, RegistryAlive, Alive, Drained, Draining
<1>2. CASE CancelRetries \/ RetriesCancelled \/ WorkerStops \/ Disconnect \/ QueueClose
  <2>1. /\ pc \notin {"off"} \cup Drained /\ pc' \notin Drained
        /\ status' \in {status, "stopped"}
        /\ retry' = retry /\ registry' \in {registry, [s \in Sms |-> 0]}
    BY <1>2 DEF CancelRetries, RetriesCancelled, WorkerStops, Disconnect, QueueClose,
                Drained, Draining
  <2>2. ~Careful'
    BY <2>1 DEF Careful, CareInv, PhaseInv
  <2>3. RegistryAlive'
    BY <2>1 DEF CareInv, RegistryAlive, Alive
  <2> QED
    BY <2>2, <2>3 DEF CareInv
<1>3. ASSUME NEW t \in Task, RetryCancelled(t) PROVE CareInv'
  <2>1. pc' = "await" /\ pc = "await" /\ status' = status /\ EndRetry(t)
    BY <1>3 DEF RetryCancelled, SoleRetryInv
  <2>2. RegistryAlive'
    BY <2>1, RegistryOfEnd DEF CareInv
  <2> QED
    BY <2>1, <2>2 DEF CareInv, PhaseInv, Careful, Drained, Draining
<1> QED
  BY <1>1, <1>2, <1>3 DEF StopSteps

(* A critical section that gives up its SMS leaves it deleted, or not inbound;
   with the bus and the queue up no call but a failing one gives up otherwise. *)
LEMMA CareOfJobs ==
  ASSUME RelayInv, SoleRetryInv, CareInv, PhaseInv', JobSteps
  PROVE  CareInv'
<1> USE DEF modem, tasks, start, client, inbox
<1>1. stored \subseteq Sms
  BY DEF RelayInv, RelayTypeOK
<1>2. UNCHANGED <<status, pc, todo, messages, waiting, bus, queue>>
  BY DEF JobSteps, ReadGone, ReadEmpty, RetryReadEmpty, ReadText, Enqueue, Delete, JobRaises
<1>3. ASSUME Release, stored' \subseteq stored, spent' = spent,
             job.sms \notin stored' \ Outbound
      PROVE  CareInv'
  <2>1. /\ RegistryAlive'
        /\ \A s \in Sms : s # job.sms => registry'[s] = registry[s]
    BY <1>3, RegistryOfRelease DEF CareInv
  <2> QED
    BY <1>1, <1>2, <1>3, <2>1 DEF CareInv, Careful, InHand
<1>4. CASE ReadGone
  BY <1>3, <1>4 DEF ReadGone
<1>5. CASE Delete
  <2>1. CASE job.owner = "drain"
    <3>1. UNCHANGED <<retry, registry, spent>> /\ stored' = stored \ {job.sms}
      BY <1>5, <2>1 DEF Delete
    <3>2. RegistryAlive'
      BY <3>1 DEF CareInv, RegistryAlive, Alive
    <3> QED
      BY <1>2, <2>1, <3>1, <3>2 DEF CareInv, Careful, InHand
  <2>2. CASE job.owner # "drain"
    BY <1>3, <1>5, <2>2 DEF Delete
  <2> QED
    BY <2>1, <2>2
<1>6. CASE ReadEmpty
  <2>1. /\ RegistryAlive' /\ registry'[job.sms] # 0 /\ stored' = stored /\ spent' = spent
        /\ \A u \in Sms : registry[u] # 0 => registry'[u] # 0
    BY <1>1, <1>6, RegistryOfStart DEF ReadEmpty, CareInv
  <2> QED
    BY <1>1, <1>2, <1>6, <2>1 DEF CareInv, Careful, InHand, ReadEmpty
<1>7. CASE RetryReadEmpty
  <2> DEFINE r == retry[job.task]
             next == IF r.attempt < MaxAttempts
                     THEN [r EXCEPT !.at = "sleep", !.attempt = @ + 1]
                     ELSE [r EXCEPT !.at = "expire"]
  <2>1. job.task \in Task /\ r \in Inbound
    BY <1>7, RetryValues DEF RetryReadEmpty, RelayInv, CustodyInv
  <2>2. UNCHANGED <<registry, stored, spent>> /\ retry' = [retry EXCEPT ![job.task] = next]
        /\ job.owner = "retry"
    BY <1>7 DEF RetryReadEmpty
  <2>3. next.sms = r.sms /\ next.at # "none"
    BY <2>1 DEF Inbound, Retries
  <2> HIDE DEF next
  <2>4. \A t \in Task : retry'[t].sms = retry[t].sms /\ (Alive(t) => Alive(t)')
    BY <2>1, <2>2, <2>3 DEF RelayInv, CustodyInv, Alive
  <2>5. RegistryAlive'
    BY <2>2, <2>4, RegistryKept DEF CareInv
  <2> QED
    BY <1>2, <2>2, <2>5 DEF CareInv, Careful, InHand
<1>8. CASE ReadText \/ Enqueue
  <2>1. job'.owner = job.owner /\ job'.sms = job.sms /\ job'.at # "none"
    BY <1>8, TypeOfTasks DEF ReadText, Enqueue, RelayInv, Jobs
  <2>2. UNCHANGED <<retry, registry, stored, spent>>
    BY <1>8 DEF ReadText, Enqueue
  <2>3. RegistryAlive'
    BY <2>2 DEF CareInv, RegistryAlive, Alive
  <2> QED
    BY <1>2, <2>1, <2>2, <2>3 DEF CareInv, Careful, InHand
<1>9. CASE JobRaises
  <2>1. RegistryAlive' /\ (spent' = spent \/ Faulty)
    BY <1>9, RegistryOfRelease DEF JobRaises, CareInv
  <2>2. Faulty => spent'.fault # 0
    BY DEF Faulty, RelayInv, RelayTypeOK
  <2>3. ~Careful'
    <3>1. Faulty \/ ~bus \/ queue = "closed"
      BY <1>9 DEF JobRaises
    <3>2. Careful' => bus /\ queue = "open"
      BY <1>2 DEF Careful, CareInv, PhaseInv, Connected, Listening
    <3> QED
      BY <2>2, <3>1, <3>2 DEF Careful
  <2> QED
    BY <2>1, <2>3 DEF CareInv
<1> QED
  BY <1>4, <1>5, <1>6, <1>7, <1>8, <1>9 DEF JobSteps

LEMMA CareOfRetries ==
  ASSUME RelayInv, SoleRetryInv, CareInv, PhaseInv', NEW t \in Task,
         RetryWakes(t) \/ RetryLock(t) \/ DeleteUndecodable(t)
  PROVE  CareInv'
<1> USE DEF modem, client, inbox, start
<1>1. CASE RetryWakes(t) \/ RetryLock(t)
  <2>1. PICK at \in {"wait", "locked"} : retry' = [retry EXCEPT ![t] = [@ EXCEPT !.at = at]]
    BY <1>1 DEF RetryWakes, RetryLock
  <2>2. retry[t] \in Inbound
    BY RetryValues
  <2>3. [retry[t] EXCEPT !.at = at].sms = retry[t].sms
        /\ [retry[t] EXCEPT !.at = at].at # "none"
    BY <2>2 DEF Inbound, Retries
  <2>4. \A u \in Task : retry'[u].sms = retry[u].sms /\ (Alive(u) => Alive(u)')
    BY <2>1, <2>2, <2>3 DEF RelayInv, CustodyInv, Alive
  <2>5. UNCHANGED <<registry, stored, spent, status, pc, todo, messages, waiting>>
        /\ (job' = job \/ job.owner = "none")
    BY <1>1 DEF RetryWakes, RetryLock, Free
  <2>6. RegistryAlive'
    BY <2>4, <2>5, RegistryKept DEF CareInv
  <2> QED
    BY <2>5, <2>6 DEF CareInv, Careful, InHand
<1>2. CASE DeleteUndecodable(t)
  <2>1. UNCHANGED <<status, pc, todo, messages, waiting, job, bus>> /\ EndRetry(t)
    BY <1>2 DEF DeleteUndecodable
  <2>2. /\ RegistryAlive'
        /\ \A s \in Sms : s # retry[t].sms => registry'[s] = registry[s]
    BY <2>1, RegistryOfEnd DEF CareInv
  <2>3. CASE bus /\ stored' = stored \ {retry[t].sms} /\ spent' = spent
    <3>1. stored \subseteq Sms
      BY DEF RelayInv, RelayTypeOK
    <3> QED
      BY <2>1, <2>2, <2>3, <3>1 DEF CareInv, Careful, InHand
  <2>4. CASE Faulty \/ (~bus /\ spent' = spent)
    <3>1. Faulty => spent'.fault # 0
      BY DEF Faulty, RelayInv, RelayTypeOK
    <3>2. Careful' => bus \/ Faulty
      BY <2>1, <2>4 DEF Careful, CareInv, PhaseInv, Connected, Listening
    <3> QED
      BY <2>2, <2>4, <3>1, <3>2 DEF CareInv, Careful
  <2> QED
    BY <1>2, <2>3, <2>4 DEF DeleteUndecodable
<1> QED
  BY <1>1, <1>2

LEMMA CareOfRest ==
  ASSUME RelayInv, SoleRetryInv, CareInv, PhaseInv',
         \/ \E s \in Sms : HandlerLock(s) \/ TextDecoded(s)
         \/ Arrive \/ Exit \/ Crash \/ UNCHANGED vars
  PROVE  CareInv'
<1> USE DEF modem, client, inbox, start, tasks
<1>1. CASE Exit \/ Crash
  <2>1. registry' = [s \in Sms |-> 0] /\ status' = "stopped" /\ pc' = "off"
    BY <1>1 DEF Exit, Crash, NewProcess
  <2> QED
    BY <2>1 DEF CareInv, RegistryAlive, Careful, Drained, Draining
<1>2. CASE ~(Exit \/ Crash)
  <2>1. UNCHANGED <<retry, registry, spent, status, pc, todo, messages, watch>>
    BY <1>2 DEF HandlerLock, TextDecoded, Arrive, vars
  <2>2. RegistryAlive'
    BY <2>1 DEF CareInv, RegistryAlive, Alive
  <2>3. CASE Arrive
    BY <2>1, <2>2, <2>3 DEF Arrive, CareInv, PhaseInv, Connected, Listening, Careful, InHand
  <2>4. ASSUME NEW s \in Sms, HandlerLock(s) PROVE CareInv'
    BY <2>1, <2>2, <2>4 DEF HandlerLock, Free, CareInv, Careful, InHand
  <2>5. CASE (\E s \in Sms : TextDecoded(s)) \/ UNCHANGED vars
    BY <2>1, <2>2, <2>5 DEF TextDecoded, vars, CareInv, Careful, InHand
  <2> QED
    BY <1>2, <2>3, <2>4, <2>5
<1> QED
  BY <1>1, <1>2

LEMMA CareStep ==
  RelayInv /\ SoleRetryInv /\ CareInv /\ [RelayNext]_vars => CareInv'
<1> SUFFICES ASSUME RelayInv, SoleRetryInv, CareInv, [RelayNext]_vars PROVE CareInv'
  OBVIOUS
<1>1. PhaseInv'
  BY PhaseStep DEF CareInv
<1> QED
  BY <1>1, CareOfStart, CareOfStop, CareOfJobs, CareOfRetries, CareOfRest
  DEF RelayNext, LockSteps

(* While the relay runs and no call has failed, every inbound SMS on the modem
   has its handler or a live retry task of its own, whatever arrives during the
   drain, stops, restarts and crashes have happened before. *)
THEOREM EverySmsAttended == RelaySpec => []NothingUnattended
<1>1. RelayInit => RelayInv /\ SoleRetryInv /\ CareInv
  BY RelayInvInit, SoleRetryInit, CareInit
<1>2. RelayInv /\ SoleRetryInv /\ CareInv /\ [RelayNext]_vars =>
        (RelayInv /\ SoleRetryInv /\ CareInv)'
  BY RelayInvStep, SoleRetryStep, CareStep
<1>3. RelayInv /\ SoleRetryInv /\ CareInv => NothingUnattended
  <2> SUFFICES ASSUME RelayInv, SoleRetryInv, CareInv, status = "running", spent.fault = 0,
                      NEW s \in stored \ Outbound
               PROVE  \/ s \in waiting \/ (job.owner = "handler" /\ job.sms = s)
                      \/ \E t \in Task : registry[s] = t /\ Running(t) /\ retry[t].sms = s
    BY DEF NothingUnattended
  <2>1. pc = "off" /\ cancelling = {} /\ job.owner # "drain" /\ todo \cup messages = {}
    BY DEF CareInv, PhaseInv, SoleRetryInv, Drained, Draining
  <2>2. s \in Sms /\ (registry[s] # 0 => registry[s] \in Task)
    BY DEF RelayInv, RelayTypeOK, Task
  <2>3. InHand(s)
    BY DEF CareInv, Careful
  <2> QED
    BY <2>1, <2>2, <2>3 DEF InHand, CareInv, RegistryAlive, Running
<1> QED
  BY <1>1, <1>2, <1>3, PTL DEF RelaySpec
=============================================================================
