------------------------- MODULE RemoteWorker_proofs -------------------------
(***************************************************************************)
(* Proofs about the whole agent: what PrintAgent guarantees still holds    *)
(* when the remote worker runs beside it, and no remote job is ever        *)
(* printed twice, for every set of jobs, tasks and configurations, any     *)
(* number of restarts and any answers of the service.                      *)
(***************************************************************************)
EXTENDS RemoteWorker, PrintAgent_proofs

-----------------------------------------------------------------------------
(* The store.                                                               *)

\* record_job_if_new yields a store that knows one more job.
LEMMA RecordType ==
    ASSUME NEW s \in StoreType, NEW j \in JobIds
    PROVE  /\ record_job_if_new(s, j) \in StoreType
           /\ record_job_if_new(s, j).jobs = s.jobs \cup {j}
BY DEF StoreType, record_job_if_new

\* A function on 1..n is a sequence.
LEMMA FunctionIsSeq ==
    ASSUME NEW S, NEW n \in Nat, NEW f \in [1..n -> S]
    PROVE  f \in Seq(S)
OBVIOUS

\* The first element and the rest of a sequence that is not empty.
LEMMA HeadAndTail ==
    ASSUME NEW S, NEW q \in Seq(S), q # <<>>
    PROVE  Head(q) \in S /\ Tail(q) \in Seq(S)
OBVIOUS

\* A store whose events are replaced by as many events is a store.
LEMMA EventsType ==
    ASSUME NEW s \in StoreType, NEW ev,
           ev \in [DOMAIN s.events -> StatusEvent]
    PROVE  [s EXCEPT !.events = ev] \in StoreType /\ [s EXCEPT !.events = ev].jobs = s.jobs
<1>1. DOMAIN s.events = 1..Len(s.events) /\ Len(s.events) \in Nat
  BY DEF StoreType
<1>2. ev \in Seq(StatusEvent)
  BY <1>1, FunctionIsSeq
<1> QED
  BY <1>2 DEF StoreType

\* mark_delivered yields a store with the same known jobs.
LEMMA MarkDeliveredType ==
    ASSUME NEW s \in StoreType, NEW id
    PROVE  mark_delivered(s, id) \in StoreType /\ mark_delivered(s, id).jobs = s.jobs
<1> DEFINE ev == [s.events EXCEPT ![id].delivery_state = "delivered"]
<1>1. s.events \in [DOMAIN s.events -> StatusEvent]
  BY DEF StoreType
<1>2. ev \in [DOMAIN s.events -> StatusEvent]
  BY <1>1 DEF StatusEvent, DeliveryStates
<1>3. mark_delivered(s, id) = [s EXCEPT !.events = ev]
  BY DEF mark_delivered
<1> HIDE DEF ev
<1> QED
  BY <1>2, <1>3, EventsType

\* mark_delivery_failed yields a store with the same known jobs.
LEMMA MarkFailedType ==
    ASSUME NEW s \in StoreType, NEW id, NEW max
    PROVE  /\ mark_delivery_failed(s, id, max) \in StoreType
           /\ mark_delivery_failed(s, id, max).jobs = s.jobs
<1> DEFINE next == s.events[id].retry_count + 1
           state == IF next >= max THEN "abandoned" ELSE "pending"
           new == [s.events[id] EXCEPT !.retry_count = next, !.delivery_state = state,
                                       !.due = FALSE]
           ev == [s.events EXCEPT ![id] = new]
<1>1. s.events \in [DOMAIN s.events -> StatusEvent]
  BY DEF StoreType
<1>2. state \in DeliveryStates
  BY DEF DeliveryStates
<1>3. ASSUME id \in DOMAIN s.events PROVE new \in StatusEvent
  <2>1. s.events[id] \in StatusEvent
    BY <1>1, <1>3
  <2>2. next \in Nat
    BY <2>1 DEF StatusEvent
  <2> HIDE DEF next, state
  <2> QED
    BY <1>2, <2>1, <2>2 DEF StatusEvent
<1> HIDE DEF state
<1> HIDE DEF new
<1>4. ev \in [DOMAIN s.events -> StatusEvent]
  BY <1>1, <1>3
<1>5. mark_delivery_failed(s, id, max) = [s EXCEPT !.events = ev]
  BY DEF mark_delivery_failed, new, state
<1> HIDE DEF ev
<1> QED
  BY <1>4, <1>5, EventsType

\* The passing of time leaves a store with the same known jobs.
LEMMA RetryType ==
    ASSUME NEW s \in StoreType
    PROVE  retry_time_passed(s) \in StoreType /\ retry_time_passed(s).jobs = s.jobs
<1> DEFINE ev == [i \in DOMAIN s.events |-> IF i \in Postponed(s)
                     THEN [s.events[i] EXCEPT !.due = TRUE] ELSE s.events[i]]
<1>1. \A i \in DOMAIN s.events : s.events[i] \in StatusEvent
  BY DEF StoreType
<1>2. \A e \in StatusEvent : [e EXCEPT !.due = TRUE] \in StatusEvent
  BY DEF StatusEvent
<1>3. ev \in [DOMAIN s.events -> StatusEvent]
  BY <1>1, <1>2
<1>4. retry_time_passed(s) = [s EXCEPT !.events = ev]
  BY DEF retry_time_passed
<1> HIDE DEF ev
<1> QED
  BY <1>3, <1>4, EventsType

-----------------------------------------------------------------------------
(* The agent's invariants in the composition.                               *)

\* A task, or what is left of it.
Task == [batch_id: BatchIds \cup {None}, jobs: Seq(PrintJobInput)]

\* What the remote worker holds of the service's answer is made of tasks.
TasksOK ==
    /\ tasks \in Seq(Task)
    /\ fresh \in Seq(PrintJobInput)

\* Every step of the composition preserves TasksOK.
LEMMA TasksStep == TasksOK /\ [RemoteNext]_allVars => TasksOK'
<1> SUFFICES ASSUME TasksOK, [RemoteNext]_allVars PROVE TasksOK'
  OBVIOUS
<1>1. <<>> \in Seq(Task) /\ <<>> \in Seq(PrintJobInput)
  OBVIOUS
<1>2. ASSUME UNCHANGED <<tasks, fresh>> PROVE TasksOK'
  BY <1>2 DEF TasksOK
<1>3. ASSUME NEW answer \in Answers, FetchTasks(answer) PROVE TasksOK'
  <2>1. answer \in Seq(RemoteTasks) /\ RemoteTasks \subseteq Task
    BY RemoteAssumption DEF Answers, RemoteTask, Task
  <2>2. answer \in Seq(Task)
    BY <2>1, SeqMonotonic
  <2> QED
    BY <1>3, <2>2 DEF FetchTasks, TasksOK
<1>4. ASSUME RecordJob PROVE TasksOK'
  <2>1. CASE AbortPoll
    BY <1>1, <2>1 DEF AbortPoll, TasksOK
  <2>2. CASE ~AbortPoll
    <3> DEFINE task == Head(tasks)
               job == Head(task.jobs)
    <3>1. tasks \in Seq(Task) /\ tasks # <<>> /\ task.jobs # <<>>
      BY <1>4 DEF RecordJob, TasksOK
    <3>2. task \in Task /\ Tail(tasks) \in Seq(Task)
      BY <3>1, HeadAndTail
    <3>3. job \in PrintJobInput /\ Tail(task.jobs) \in Seq(PrintJobInput)
      BY <3>1, <3>2, HeadAndTail DEF Task
    <3>4. [task EXCEPT !.jobs = Tail(@)] \in Task
      BY <3>2, <3>3 DEF Task
    <3>5. <<[task EXCEPT !.jobs = Tail(@)]>> \o Tail(tasks) \in Seq(Task)
      BY <3>2, <3>4
    <3>6. Append(fresh, job) \in Seq(PrintJobInput)
      BY <3>3 DEF TasksOK
    <3> QED
      BY <1>4, <2>2, <3>5, <3>6 DEF RecordJob, TasksOK
  <2> QED
    BY <2>1, <2>2
<1>5. ASSUME AcceptTask PROVE TasksOK'
  <2>1. tasks \in Seq(Task) /\ tasks # <<>>
    BY <1>5 DEF AcceptTask, TasksOK
  <2>2. Tail(tasks) \in Seq(Task)
    BY <2>1
  <2> QED
    BY <1>1, <1>5, <2>2 DEF AcceptTask, AbortPoll, TasksOK
<1>6. ASSUME RemoteRestart PROVE TasksOK'
  BY <1>1, <1>6 DEF RemoteRestart, TasksOK
<1>7. ASSUME \/ FetchFailed \/ RemoteNotify \/ PollDone \/ Report \/ RemoteTaskLoop \/ RetryDue
             \/ \E cfg \in Configs : RemoteSaveConfig(cfg)
             \/ UNCHANGED rvars
      PROVE  UNCHANGED <<tasks, fresh>>
  BY <1>7 DEF FetchFailed, RemoteNotify, PollDone, Report, ReportBegin, PostReport, MarkReport,
       ReportDone, RemoteTaskLoop, RemoteCheck, RemoteLoop, RemoteDecide, RemoteAwake,
       RemoteCancelled, RetryDue, RemoteSaveConfig, rvars
<1> QED
  BY <1>2, <1>3, <1>4, <1>5, <1>6, <1>7 DEF RemoteNext, Poll, allVars

\* A step of the remote worker that accepts no task leaves the queue, the worker
\* and the spool alone, keeps the store well typed and, unless it records a job,
\* the set of known jobs.
LEMMA RemoteOnly ==
    ASSUME TypeOK, TasksOK,
           \/ \E answer \in Answers : FetchTasks(answer)
           \/ FetchFailed \/ RecordJob \/ PollDone \/ Report \/ RemoteTaskLoop \/ RetryDue
    PROVE  /\ UNCHANGED <<config, queue, permit, notifying, wpc, cur, lockVars, spool,
                         history, temp, lifeVars>>
           /\ store' \in StoreType
           /\ store'.jobs = store.jobs \/ RecordJob
<1>1. store \in StoreType
  BY DEF TypeOK
<1>2. CASE RecordJob
  <2>1. UNCHANGED <<config, queue, permit, notifying, wpc, cur, lockVars, spool, history,
                    temp, lifeVars>>
    BY <1>2 DEF RecordJob, RemoteStep, NoQueue
  <2>2. CASE UNCHANGED store
    BY <1>1, <1>2, <2>1, <2>2
  <2>3. CASE store' = record_job_if_new(store, Head(Head(tasks).jobs).job_id)
    <3>1. tasks # <<>> /\ Head(tasks).jobs # <<>>
      BY <1>2 DEF RecordJob
    <3>2. Head(tasks) \in Task
      BY <3>1, HeadAndTail DEF TasksOK
    <3>3. Head(Head(tasks).jobs) \in PrintJobInput
      BY <3>1, <3>2, HeadAndTail DEF Task
    <3>4. Head(Head(tasks).jobs).job_id \in JobIds
      BY <3>3 DEF PrintJobInput
    <3> QED
      BY <1>1, <1>2, <2>1, <2>3, <3>4, RecordType
  <2> QED
    BY <1>2, <2>2, <2>3 DEF RecordJob
<1>3. CASE MarkReport
  <2>1. UNCHANGED <<config, queue, permit, notifying, wpc, cur, lockVars, spool, history,
                    temp, lifeVars>>
    BY <1>3 DEF MarkReport, RemoteStep, NoQueue
  <2>2. store' \in StoreType /\ store'.jobs = store.jobs
    BY <1>1, <1>3, MarkDeliveredType, MarkFailedType DEF MarkReport
  <2> QED
    BY <2>1, <2>2
<1>4. CASE RetryDue
  BY <1>1, <1>4, RetryType DEF RetryDue
<1>5. CASE \/ \E answer \in Answers : FetchTasks(answer)
           \/ FetchFailed \/ PollDone
  BY <1>1, <1>5 DEF FetchTasks, FetchFailed, PollDone, RemoteStep, NoQueue
<1>6. CASE ReportBegin \/ PostReport \/ ReportDone
  BY <1>1, <1>6 DEF ReportBegin, PostReport, ReportDone, RemoteStep, NoQueue
<1>7. CASE RemoteTaskLoop
  BY <1>1, <1>7 DEF RemoteTaskLoop, RemoteCheck, RemoteLoop, RemoteDecide, RemoteAwake,
       RemoteCancelled, RemoteStep, NoQueue
<1> QED
  BY <1>2, <1>3, <1>4, <1>5, <1>6, <1>7 DEF Report

\* What AcceptTask does to the queue: nothing, or it accepts the fresh jobs, or
\* the single fresh job, as remote ones.
LEMMA AcceptTaskQueue ==
    ASSUME TypeOK, TasksOK, AcceptTask
    PROVE  /\ UNCHANGED <<config, permit, wpc, cur, lockVars, spool, history, store, temp,
                         lifeVars>>
           /\ \/ UNCHANGED <<queue, notifying>> /\ fresh' \in {fresh, <<>>}
              \/ /\ fresh' = <<>>
                 /\ notifying' = notifying \cup {"remote"}
                 /\ \/ \E job \in PrintJobInput :
                         /\ job.job_id \in IdsOf(fresh)
                         /\ CanAcceptJob(queue, job)
                         /\ queue' = accept_queued_job(queue, job, TRUE)
                    \/ \E b \in BatchIds :
                         /\ CanAcceptBatch(queue, b, fresh)
                         /\ queue' = accept_batch(queue, b, fresh, TRUE)
<1>1. UNCHANGED <<config, permit, wpc, cur, lockVars, spool, history, store, temp, lifeVars>>
  BY DEF AcceptTask, RemoteStep
<1> DEFINE b == Head(tasks).batch_id
<1>2. b \in BatchIds \cup {None}
  <2>1. tasks # <<>>
    BY DEF AcceptTask
  <2>2. Head(tasks) \in Task
    BY <2>1, HeadAndTail DEF TasksOK
  <2> QED
    BY <2>2 DEF Task
<1>3. fresh # <<>> => fresh[1] \in PrintJobInput /\ fresh[1].job_id \in IdsOf(fresh)
  BY DEF TasksOK, IdsOf
<1>4. CASE UNCHANGED queue /\ UNCHANGED notifying /\ fresh' \in {fresh, <<>>}
  BY <1>1, <1>4
<1>5. CASE /\ fresh # <<>> /\ fresh' = <<>> /\ notifying' = notifying \cup {"remote"}
           /\ b = None
           /\ CanAcceptJob(queue, fresh[1])
           /\ queue' = accept_queued_job(queue, fresh[1], TRUE)
  BY <1>1, <1>3, <1>5
<1>6. CASE /\ fresh' = <<>> /\ notifying' = notifying \cup {"remote"}
           /\ b # None
           /\ CanAcceptBatch(queue, b, fresh)
           /\ queue' = accept_batch(queue, b, fresh, TRUE)
  BY <1>1, <1>2, <1>6
<1> QED
  BY <1>4, <1>5, <1>6 DEF AcceptTask, AbortPoll

\* Every step of the composition preserves the types and the ledger of PrintAgent.
LEMMA ComposedStep ==
    TypeOK /\ TasksOK /\ LedgerInv /\ [RemoteNext]_allVars => TypeOK' /\ LedgerInv'
<1> SUFFICES ASSUME TypeOK, TasksOK, LedgerInv, [RemoteNext]_allVars
             PROVE  TypeOK' /\ LedgerInv'
  OBVIOUS
<1> USE DEF lockVars, lifeVars
<1>1. ASSUME [Next]_vars PROVE TypeOK' /\ LedgerInv'
  BY <1>1, TypeStep, LedgerStep
<1>2. ASSUME \/ \E answer \in Answers : FetchTasks(answer)
             \/ FetchFailed \/ RecordJob \/ PollDone \/ Report \/ RemoteTaskLoop \/ RetryDue
      PROVE  TypeOK' /\ LedgerInv'
  <2>1. /\ UNCHANGED <<config, queue, permit, notifying, wpc, cur, lockVars, spool,
                      history, temp, lifeVars>>
        /\ store' \in StoreType
    BY <1>2, RemoteOnly
  <2>2. TypeOK'
    BY <2>1 DEF TypeOK, Busy
  <2>3. LedgerInv'
    BY <2>1, LedgerFrame
  <2> QED
    BY <2>2, <2>3
<1>3. ASSUME AcceptTask PROVE TypeOK' /\ LedgerInv'
  <2>1. queue \in QueueType /\ QueueOK(queue) /\ fresh \in Seq(PrintJobInput)
    BY DEF TypeOK, TasksOK, LedgerInv
  <2>2. UNCHANGED <<config, permit, wpc, cur, lockVars, spool, history, store, temp, lifeVars>>
    BY <1>3, AcceptTaskQueue
  <2>3. ASSUME UNCHANGED <<queue, notifying>> PROVE TypeOK' /\ LedgerInv'
    <3>1. TypeOK'
      BY <2>2, <2>3 DEF TypeOK, Busy
    <3> QED
      BY <2>2, <2>3, <3>1, LedgerFrame
  <2>4. ASSUME NEW ids, ids \cap queue.seen_job_ids = {}, QueueOK(queue)',
               notifying' = notifying \cup {"remote"}, queue' \in QueueType,
               PendingIds(queue)' = PendingIds(queue) \cup ids,
               queue'.seen_job_ids = queue.seen_job_ids \cup ids
        PROVE  TypeOK' /\ LedgerInv'
    <3>1. TypeOK'
      BY <2>2, <2>4 DEF TypeOK, Busy
    <3>2. LedgerInv'
      BY <2>2, <2>4, LedgerGrows
    <3> QED
      BY <3>1, <3>2
  <2>5. ASSUME NEW job \in PrintJobInput, CanAcceptJob(queue, job),
               notifying' = notifying \cup {"remote"},
               queue' = accept_queued_job(queue, job, TRUE)
        PROVE  TypeOK' /\ LedgerInv'
    <3>1. queue' \in QueueType
      BY <2>1, <2>5, AcceptJobType
    <3>2. /\ QueueOK(queue)'
          /\ PendingIds(queue)' = PendingIds(queue) \cup {job.job_id}
          /\ queue'.seen_job_ids = queue.seen_job_ids \cup {job.job_id}
      BY <2>1, <2>5, AcceptJobOK
    <3>3. {job.job_id} \cap queue.seen_job_ids = {}
      BY <2>5 DEF CanAcceptJob
    <3> QED
      BY <2>4, <2>5, <3>1, <3>2, <3>3
  <2>6. ASSUME NEW b \in BatchIds, CanAcceptBatch(queue, b, fresh),
               notifying' = notifying \cup {"remote"},
               queue' = accept_batch(queue, b, fresh, TRUE)
        PROVE  TypeOK' /\ LedgerInv'
    <3>1. queue' \in QueueType
      BY <2>1, <2>6, AcceptBatchType
    <3>2. /\ QueueOK(queue)'
          /\ PendingIds(queue)' = PendingIds(queue) \cup IdsOf(fresh)
          /\ queue'.seen_job_ids = queue.seen_job_ids \cup IdsOf(fresh)
      BY <2>1, <2>6, AcceptBatchOK
    <3>3. IdsOf(fresh) \cap queue.seen_job_ids = {}
      BY <2>6 DEF CanAcceptBatch, IdsOf
    <3> QED
      BY <2>4, <2>6, <3>1, <3>2, <3>3
  <2> QED
    BY <1>3, <2>3, <2>5, <2>6, AcceptTaskQueue
<1>4. ASSUME RemoteNotify PROVE TypeOK' /\ LedgerInv'
  <2>1. TypeOK'
    BY <1>4 DEF RemoteNotify, NotifyOne, TypeOK, Busy
  <2> QED
    BY <1>4, <2>1, LedgerFrame DEF RemoteNotify, NotifyOne
<1> QED
  BY <1>1, <1>2, <1>3, <1>4 DEF RemoteNext, Poll, LocalNext, Next, RemoteSaveConfig,
     RemoteRestart, allVars

\* The invariants of PrintAgent hold in the composition.
LEMMA ComposedInv == RemoteSpec => [](TypeOK /\ TasksOK /\ LedgerInv)
<1>1. RemoteInit => TasksOK
  BY DEF RemoteInit, TasksOK
<1> QED
  BY <1>1, InitOK, TasksStep, ComposedStep, PTL DEF RemoteSpec

\* With the remote worker beside the clients, one process still never prints an
\* id twice: the remote worker takes ids from the same queue.
THEOREM ComposedOncePerRun == RemoteSpec => []OncePerRun
<1>1. LedgerInv => OncePerRun
  BY DEF LedgerInv
<1> QED
  BY <1>1, ComposedInv, PTL

\* The remote worker, too, is in `notifying` from filling the queue until it has
\* stored the permit.
LEMMA ComposedWakeupStep ==
    TypeOK /\ TasksOK /\ NoLostWakeup /\ [RemoteNext]_allVars => NoLostWakeup'
<1> SUFFICES ASSUME TypeOK, TasksOK, NoLostWakeup, [RemoteNext]_allVars PROVE NoLostWakeup'
  OBVIOUS
<1>1. ASSUME [Next]_vars PROVE NoLostWakeup'
  BY <1>1, WakeupStep
<1>2. ASSUME \/ \E answer \in Answers : FetchTasks(answer)
             \/ FetchFailed \/ RecordJob \/ PollDone \/ Report \/ RemoteTaskLoop \/ RetryDue
      PROVE  NoLostWakeup'
  <2>1. UNCHANGED <<queue, permit, notifying, wpc>>
    BY <1>2, RemoteOnly
  <2> QED
    BY <2>1 DEF NoLostWakeup
<1>3. ASSUME AcceptTask PROVE NoLostWakeup'
  <2>1. /\ UNCHANGED <<permit, wpc>>
        /\ UNCHANGED <<queue, notifying>> \/ notifying' = notifying \cup {"remote"}
    BY <1>3, AcceptTaskQueue
  <2> QED
    BY <2>1 DEF NoLostWakeup
<1>4. ASSUME RemoteNotify PROVE NoLostWakeup'
  BY <1>4 DEF RemoteNotify, NotifyOne, NoLostWakeup
<1> QED
  BY <1>1, <1>2, <1>3, <1>4 DEF RemoteNext, Poll, LocalNext, Next, RemoteSaveConfig,
     RemoteRestart, allVars

\* No wake-up is lost with any number of clients and the remote worker filling
\* the queue and notifying in any order.
THEOREM ComposedWakeupNeverLost == RemoteSpec => []NoLostWakeup
<1>1. Init => NoLostWakeup
  BY DEF Init, NoLostWakeup
<1> QED
  BY <1>1, ComposedInv, ComposedWakeupStep, PTL DEF RemoteSpec

-----------------------------------------------------------------------------
(* A remote job is printed at most once.                                    *)

\* The ids of the remote jobs in the queue.
RemoteIds(q) ==
    {q.pending[i].job.job_id : i \in {k \in DOMAIN q.pending : q.pending[k].remote}}

\* The ids of the remote jobs any process has printed.
RemoteSpooled == {spool[i].job_id : i \in {k \in DOMAIN spool : spool[k].remote}}

\* The strengthening of RemoteAtMostOnce.  Whatever is on its way to the printer
\* for the service is known to the store, where it stays, so the service cannot
\* bring it again; and an id is at one place of that way only: just recorded,
\* queued, at the worker, or printed.
RemoteInv ==
    /\ IdsOf(fresh) \cup RemoteIds(queue) \cup RemoteSpooled \subseteq store.jobs
    /\ IdsOf(fresh) \cap RemoteIds(queue) = {}
    /\ RemoteSpooled \cap (IdsOf(fresh) \cup RemoteIds(queue)) = {}
    /\ cur # None /\ cur.remote =>
        /\ curId \in store.jobs \ IdsOf(fresh)
        /\ wpc \notin {"log_submitted", "track", "clean_ok"} => curId \notin RemoteSpooled
    /\ RemoteAtMostOnce

\* accept_queued_job adds no remote id but the one it is given.
LEMMA AcceptJobRemote ==
    ASSUME NEW q \in QueueType, NEW job \in PrintJobInput, NEW remote \in BOOLEAN
    PROVE  RemoteIds(accept_queued_job(q, job, remote))
              \subseteq RemoteIds(q) \cup (IF remote THEN {job.job_id} ELSE {})
<1> DEFINE entry == [job |-> job, batch_id |-> None, remote |-> remote]
           r == accept_queued_job(q, job, remote)
           n == Len(q.pending)
<1>1. q.pending \in Seq(QueuedJob) /\ n \in Nat /\ DOMAIN q.pending = 1..n
  BY DEF QueueType
<1>2. r.pending = Append(q.pending, entry)
  BY DEF accept_queued_job, QueueType
<1>3. /\ DOMAIN r.pending = 1..(n + 1)
      /\ \A i \in 1..n : r.pending[i] = q.pending[i]
      /\ r.pending[n + 1] = entry
  BY <1>1, <1>2
<1> HIDE DEF r
<1>4. ASSUME NEW i \in 1..(n + 1), r.pending[i].remote
      PROVE  r.pending[i].job.job_id \in RemoteIds(q) \cup (IF remote THEN {job.job_id} ELSE {})
  <2>1. CASE i \in 1..n
    BY <1>1, <1>3, <1>4, <2>1 DEF RemoteIds
  <2>2. CASE i = n + 1
    BY <1>3, <1>4, <2>2
  <2> QED
    BY <1>1, <2>1, <2>2
<1>5. RemoteIds(r) \subseteq RemoteIds(q) \cup (IF remote THEN {job.job_id} ELSE {})
  BY <1>3, <1>4 DEF RemoteIds
<1> QED
  BY <1>5 DEF r

\* accept_batch adds no remote ids but those it is given.
LEMMA AcceptBatchRemote ==
    ASSUME NEW q \in QueueType, NEW b \in BatchIds, NEW jobs \in Seq(PrintJobInput),
           NEW remote \in BOOLEAN
    PROVE  RemoteIds(accept_batch(q, b, jobs, remote))
              \subseteq RemoteIds(q) \cup (IF remote THEN IdsOf(jobs) ELSE {})
<1> DEFINE r == accept_batch(q, b, jobs, remote)
           n == Len(q.pending)
           m == Len(jobs)
<1>1. /\ q.pending \in Seq(QueuedJob) /\ n \in Nat /\ DOMAIN q.pending = 1..n
      /\ m \in Nat /\ DOMAIN jobs = 1..m
  BY DEF QueueType
<1> HIDE DEF r
<1>2. /\ DOMAIN r.pending = 1..(n + m)
      /\ \A i \in 1..n : r.pending[i] = q.pending[i]
      /\ \A i \in 1..(n + m) : i > n =>
           r.pending[i].job = jobs[i - n] /\ r.pending[i].remote = remote
  BY BatchPending DEF r
<1>3. ASSUME NEW i \in 1..(n + m), r.pending[i].remote
      PROVE  r.pending[i].job.job_id \in RemoteIds(q) \cup (IF remote THEN IdsOf(jobs) ELSE {})
  <2>1. CASE i \in 1..n
    BY <1>1, <1>2, <1>3, <2>1 DEF RemoteIds
  <2>2. CASE i > n
    <3>1. i - n \in DOMAIN jobs
      BY <1>1, <2>2
    <3> QED
      BY <1>2, <1>3, <2>2, <3>1 DEF IdsOf
  <2> QED
    BY <1>1, <2>1, <2>2
<1>4. RemoteIds(r) \subseteq RemoteIds(q) \cup (IF remote THEN IdsOf(jobs) ELSE {})
  BY <1>2, <1>3 DEF RemoteIds
<1> QED
  BY <1>4 DEF r

\* pop_next takes a job from the queue and adds none.
LEMMA PopRemote ==
    ASSUME NEW q \in QueueType, q.pending # <<>>
    PROVE  /\ RemoteIds(pop_next(q)) \subseteq RemoteIds(q)
           /\ Head(q.pending).remote => Head(q.pending).job.job_id \in RemoteIds(q)
<1> DEFINE n == Len(q.pending)
           r == pop_next(q)
<1>1. q.pending \in Seq(QueuedJob) /\ n \in Nat \ {0} /\ DOMAIN q.pending = 1..n
  BY DEF QueueType
<1>2. r.pending = Tail(q.pending)
  BY DEF pop_next, QueueType
<1>3. /\ DOMAIN r.pending = 1..(n - 1)
      /\ \A i \in 1..(n - 1) : r.pending[i] = q.pending[i + 1]
      /\ Head(q.pending) = q.pending[1]
  BY <1>1, <1>2
<1> HIDE DEF r
<1>4. \A i \in 1..(n - 1) : i + 1 \in 1..n
  BY <1>1
<1>5. RemoteIds(r) \subseteq RemoteIds(q)
  <2> SUFFICES ASSUME NEW i \in 1..(n - 1), r.pending[i].remote
               PROVE  r.pending[i].job.job_id \in RemoteIds(q)
    BY <1>3 DEF RemoteIds
  <2>1. i + 1 \in DOMAIN q.pending /\ r.pending[i] = q.pending[i + 1]
    BY <1>1, <1>3, <1>4
  <2> QED
    BY <2>1 DEF RemoteIds
<1>6. 1 \in DOMAIN q.pending
  BY <1>1
<1>7. Head(q.pending).remote => Head(q.pending).job.job_id \in RemoteIds(q)
  BY <1>3, <1>6 DEF RemoteIds
<1> QED
  BY <1>5, <1>7 DEF r

\* Steps that leave the spool, the fresh jobs and the known jobs alone, add no
\* remote job to the queue, and at most move the worker's job on, keep RemoteInv.
LEMMA RemoteFrame ==
    ASSUME RemoteInv, UNCHANGED <<spool, fresh>>, store'.jobs = store.jobs,
           RemoteIds(queue)' \subseteq RemoteIds(queue),
           \/ cur' = None
           \/ /\ cur' = cur
              /\ wpc \in {"log_submitted", "track", "clean_ok"}
                    => wpc' \in {"log_submitted", "track", "clean_ok"}
    PROVE  RemoteInv'
<1>1. /\ RemoteSpooled' = RemoteSpooled
      /\ IdsOf(fresh)' = IdsOf(fresh)
      /\ RemoteAtMostOnce'
  BY DEF RemoteInv, RemoteSpooled, RemoteAtMostOnce, IdsOf
<1>2. cur' = cur => curId' = curId
  BY DEF curId
<1>3. /\ IdsOf(fresh) \cup RemoteIds(queue)' \cup RemoteSpooled \subseteq store'.jobs
      /\ IdsOf(fresh) \cap RemoteIds(queue)' = {}
      /\ RemoteSpooled \cap (IdsOf(fresh) \cup RemoteIds(queue)') = {}
  BY DEF RemoteInv
<1>4. cur' # None /\ cur'.remote =>
        /\ curId' \in store'.jobs \ IdsOf(fresh)
        /\ wpc' \notin {"log_submitted", "track", "clean_ok"} => curId' \notin RemoteSpooled
  BY <1>2 DEF RemoteInv
<1> QED
  BY <1>1, <1>3, <1>4 DEF RemoteInv

\* A status logged by the worker leaves the known jobs alone.
LEMMA PushLogJobs ==
    ASSUME TypeOK, NEW status, NEW remote, push_log(status, remote)
    PROVE  store'.jobs = store.jobs
BY DEF TypeOK, StoreType, push_log, insert_status_event

\* The worker's job joins the spool.
LEMMA PrintRemote ==
    ASSUME TypeOK, LedgerInv, RemoteInv, cur # None, wpc = "submit",
           UNCHANGED <<cur, queue, fresh, store>>,
           spool' = Append(spool, SpoolEntry), wpc' = "log_submitted"
    PROVE  RemoteInv'
<1> DEFINE n == Len(spool)
           new == IF cur.remote THEN {curId} ELSE {}
<1>1. spool \in Seq(SpoolEntries) /\ n \in Nat /\ DOMAIN spool = 1..n
  BY DEF TypeOK
<1>2. /\ DOMAIN spool' = 1..(n + 1)
      /\ \A i \in 1..n : spool'[i] = spool[i]
      /\ spool'[n + 1] = SpoolEntry
  BY <1>1
<1>3. SpoolEntry.remote = cur.remote /\ SpoolEntry.job_id = curId /\ curId' = curId
  BY DEF SpoolEntry, curId
<1> HIDE DEF n
<1>4. RemoteSpooled' \subseteq RemoteSpooled \cup new
  <2> SUFFICES ASSUME NEW i \in 1..(n + 1), spool'[i].remote
               PROVE  spool'[i].job_id \in RemoteSpooled \cup new
    BY <1>2 DEF RemoteSpooled
  <2>1. CASE i \in 1..n
    BY <1>1, <1>2, <2>1 DEF RemoteSpooled
  <2>2. CASE i = n + 1
    BY <1>2, <1>3, <2>2
  <2> QED
    BY <1>1, <2>1, <2>2
<1>5. RemoteAtMostOnce'
  <2>1. \A i \in 1..n : spool[i].remote /\ cur.remote => spool[i].job_id # curId
    BY <1>1 DEF RemoteInv, RemoteSpooled
  <2> SUFFICES ASSUME NEW i \in 1..(n + 1), NEW k \in 1..(n + 1),
                      spool'[i].remote, spool'[k].remote,
                      spool'[i].job_id = spool'[k].job_id
               PROVE  i = k
    BY <1>2 DEF RemoteAtMostOnce
  <2>2. CASE i \in 1..n /\ k \in 1..n
    BY <1>1, <1>2, <2>2 DEF RemoteInv, RemoteAtMostOnce
  <2>3. CASE i = n + 1 /\ k \in 1..n
    BY <1>2, <1>3, <2>1, <2>3
  <2>4. CASE i \in 1..n /\ k = n + 1
    BY <1>2, <1>3, <2>1, <2>4
  <2> QED
    BY <1>1, <2>2, <2>3, <2>4
<1>6. RemoteIds(queue) \subseteq PendingIds(queue)
  BY DEF RemoteIds, PendingIds
<1>7. curId \notin RemoteIds(queue)
  BY <1>6 DEF LedgerInv
<1>8. RemoteIds(queue)' = RemoteIds(queue) /\ IdsOf(fresh)' = IdsOf(fresh)
  BY DEF RemoteIds, IdsOf
<1>9. /\ IdsOf(fresh) \cup RemoteIds(queue) \cup RemoteSpooled' \subseteq store.jobs
      /\ IdsOf(fresh) \cap RemoteIds(queue) = {}
      /\ RemoteSpooled' \cap (IdsOf(fresh) \cup RemoteIds(queue)) = {}
  BY <1>4, <1>7 DEF RemoteInv
<1>10. cur.remote => curId \in store.jobs \ IdsOf(fresh)
  BY DEF RemoteInv
<1> QED
  BY <1>3, <1>5, <1>8, <1>9, <1>10 DEF RemoteInv

\* Every step of the agent's own tasks preserves RemoteInv.
LEMMA LocalRemoteStep ==
    ASSUME TypeOK, LedgerInv, RemoteInv, LocalNext, UNCHANGED rvars
    PROVE  RemoteInv'
<1> USE DEF lockVars, lifeVars
<1>1. queue \in QueueType /\ UNCHANGED fresh
  BY DEF TypeOK, rvars
<1>2. ASSUME NEW c \in Clients, NEW job \in Inputs, ClientPrint(c, job) PROVE RemoteInv'
  <2>1. RemoteIds(queue)' \subseteq RemoteIds(queue)
    BY <1>1, <1>2, AcceptJobRemote, AgentAssumption DEF ClientPrint
  <2> QED
    BY <1>1, <1>2, <2>1, RemoteFrame DEF ClientPrint
<1>3. ASSUME NEW c \in Clients, NEW b \in BatchIds, NEW jobs \in ClientBatches,
             ClientPrintBatch(c, b, jobs)
      PROVE  RemoteInv'
  <2>1. RemoteIds(queue)' \subseteq RemoteIds(queue)
    BY <1>1, <1>3, AcceptBatchRemote, BatchType DEF ClientPrintBatch
  <2> QED
    BY <1>1, <1>3, <2>1, RemoteFrame DEF ClientPrintBatch
<1>4. UNCHANGED queue => RemoteIds(queue)' \subseteq RemoteIds(queue)
  BY DEF RemoteIds
<1>5. ASSUME NEW c \in Clients, NotifyOne(c) PROVE RemoteInv'
  BY <1>1, <1>4, <1>5, RemoteFrame DEF NotifyOne
<1>6. ASSUME WorkerLoop PROVE RemoteInv'
  <2>1. CASE WorkerPop /\ queue.pending # <<>>
    <3>1. /\ queue' = pop_next(queue) /\ cur' = Head(queue.pending)
          /\ UNCHANGED <<spool, store>>
      BY <2>1 DEF WorkerPop
    <3>2. /\ RemoteIds(queue)' \subseteq RemoteIds(queue)
          /\ cur'.remote => curId' \in RemoteIds(queue)
      BY <1>1, <2>1, <3>1, PopRemote DEF curId
    <3>3. /\ RemoteSpooled' = RemoteSpooled
          /\ IdsOf(fresh)' = IdsOf(fresh)
          /\ RemoteAtMostOnce'
      BY <1>1, <3>1 DEF RemoteInv, RemoteSpooled, RemoteAtMostOnce, IdsOf
    <3>4. cur'.remote => curId' \in store.jobs /\ curId' \notin IdsOf(fresh) \cup RemoteSpooled
      BY <3>2 DEF RemoteInv
    <3>5. /\ IdsOf(fresh) \cup RemoteIds(queue)' \cup RemoteSpooled \subseteq store'.jobs
          /\ IdsOf(fresh) \cap RemoteIds(queue)' = {}
          /\ RemoteSpooled \cap (IdsOf(fresh) \cup RemoteIds(queue)') = {}
      BY <3>1, <3>2 DEF RemoteInv
    <3> QED
      BY <3>1, <3>3, <3>4, <3>5 DEF RemoteInv
  <2>2. CASE \/ WorkerCheck \/ WorkerSelect \/ WorkerWake \/ WorkerCancelled
             \/ WorkerPop /\ queue.pending = <<>>
    BY <1>1, <1>4, <2>2, RemoteFrame DEF WorkerCheck, WorkerPop, WorkerSelect, WorkerWake,
       WorkerCancelled
  <2> QED
    BY <1>6, <2>1, <2>2 DEF WorkerLoop, WorkerPop
<1>7. ASSUME ProcessJob PROVE RemoteInv'
  <2>1. UNCHANGED queue /\ store'.jobs = store.jobs
    BY <1>7, PushLogJobs DEF ProcessJob, LogQueued, StartHtml, StartRaw, StartFile, RenderHtml,
       Download, PreparePdf, LogPrinting, AcquirePrintLock, Submit, LogSubmitted, Track,
       Cleanup, LogFailed, JobStep, NoLog
  <2>2. CASE Submit
    <3>1. cur # None /\ wpc = "submit" /\ UNCHANGED <<cur, store>>
      BY <2>2 DEF Submit, JobStep, TypeOK, Busy, NoLog
    <3>2. CASE UNCHANGED spool
      BY <1>1, <1>4, <2>1, <3>1, <3>2, RemoteFrame
    <3>3. CASE spool' = Append(spool, SpoolEntry) /\ wpc' = "log_submitted"
      BY <1>1, <2>1, <3>1, <3>3, PrintRemote
    <3> QED
      BY <2>2, <3>2, <3>3 DEF Submit
  <2>3. CASE LogQueued \/ StartHtml \/ StartRaw \/ StartFile
    BY <1>1, <1>4, <2>1, <2>3, RemoteFrame DEF LogQueued, StartHtml, StartRaw, StartFile, JobStep
  <2>4. CASE RenderHtml \/ Download \/ PreparePdf \/ LogPrinting \/ AcquirePrintLock
    BY <1>1, <1>4, <2>1, <2>4, RemoteFrame DEF RenderHtml, Download, PreparePdf, LogPrinting,
         AcquirePrintLock, JobStep
  <2>5. CASE LogSubmitted \/ Track \/ Cleanup \/ LogFailed
    BY <1>1, <1>4, <2>1, <2>5, RemoteFrame DEF LogSubmitted, Track, Cleanup, LogFailed, JobStep
  <2> QED
    BY <1>7, <2>2, <2>3, <2>4, <2>5 DEF ProcessJob
<1>8. ASSUME NEW t \in Testers, TestPrint(t) \/ TestAcquire(t) \/ TestRelease(t)
      PROVE  RemoteInv'
  BY <1>1, <1>4, <1>8, RemoteFrame DEF TestPrint, TestAcquire, TestRelease, TesterStep
<1>9. ASSUME Shutdown PROVE RemoteInv'
  BY <1>1, <1>4, <1>9, RemoteFrame DEF Shutdown
<1> QED
  BY <1>2, <1>3, <1>5, <1>6, <1>7, <1>8, <1>9 DEF LocalNext, Submissions, TestPrints

\* Recording a job keeps RemoteInv: its id is fresh only if the store did not
\* know it, and then it is nowhere on the way to the printer.
LEMMA RecordRemote ==
    ASSUME TypeOK, TasksOK, RemoteInv, RecordJob
    PROVE  RemoteInv'
<1>1. UNCHANGED <<queue, wpc, cur, spool>>
  BY DEF RecordJob, RemoteStep, NoQueue, lockVars, lifeVars
<1>2. /\ RemoteIds(queue)' = RemoteIds(queue)
      /\ RemoteSpooled' = RemoteSpooled
      /\ curId' = curId
      /\ RemoteAtMostOnce'
  BY <1>1 DEF RemoteInv, RemoteIds, RemoteSpooled, RemoteAtMostOnce, curId
<1>3. ASSUME NEW ids, IdsOf(fresh)' \subseteq IdsOf(fresh) \cup ids,
             store'.jobs = store.jobs \cup ids, ids \cap store.jobs = {}
      PROVE  RemoteInv'
  <2>1. /\ IdsOf(fresh)' \cup RemoteIds(queue) \cup RemoteSpooled \subseteq store'.jobs
        /\ IdsOf(fresh)' \cap RemoteIds(queue) = {}
        /\ RemoteSpooled \cap (IdsOf(fresh)' \cup RemoteIds(queue)) = {}
    BY <1>3 DEF RemoteInv
  <2>2. cur # None /\ cur.remote => curId \in store'.jobs \ IdsOf(fresh)'
    BY <1>3 DEF RemoteInv
  <2>3. cur # None /\ cur.remote /\ wpc \notin {"log_submitted", "track", "clean_ok"}
            => curId \notin RemoteSpooled
    BY DEF RemoteInv
  <2> QED
    BY <1>1, <1>2, <2>1, <2>2, <2>3 DEF RemoteInv
<1>4. CASE AbortPoll /\ UNCHANGED store
  <2>1. IdsOf(fresh)' = {}
    BY <1>4 DEF AbortPoll, IdsOf
  <2> QED
    BY <1>3, <1>4, <2>1
<1> DEFINE job == Head(Head(tasks).jobs)
<1>5. CASE /\ store' = record_job_if_new(store, job.job_id)
           /\ fresh' = IF IsNewJob(store, job.job_id) THEN Append(fresh, job) ELSE fresh
  <2>1. job \in PrintJobInput
    <3>1. tasks # <<>> /\ Head(tasks).jobs # <<>>
      BY DEF RecordJob
    <3>2. Head(tasks) \in Task
      BY <3>1, HeadAndTail DEF TasksOK
    <3> QED
      BY <3>1, <3>2, HeadAndTail DEF Task
  <2>2. job.job_id \in JobIds /\ store \in StoreType /\ fresh \in Seq(PrintJobInput)
    BY <2>1 DEF PrintJobInput, TypeOK, TasksOK
  <2> HIDE DEF job
  <2>3. store'.jobs = store.jobs \cup {job.job_id}
    BY <1>5, <2>2, RecordType
  <2>4. CASE IsNewJob(store, job.job_id)
    <3>1. fresh' = Append(fresh, job)
      BY <1>5, <2>4
    <3>2. \A i \in DOMAIN fresh' : fresh'[i] = job \/ (i \in DOMAIN fresh /\ fresh'[i] = fresh[i])
      BY <2>1, <2>2, <3>1
    <3>3. IdsOf(fresh)' \subseteq IdsOf(fresh) \cup {job.job_id}
      BY <3>2 DEF IdsOf
    <3>4. {job.job_id} \cap store.jobs = {}
      BY <2>4 DEF IsNewJob
    <3> QED
      BY <1>3, <2>3, <3>3, <3>4
  <2>5. CASE ~IsNewJob(store, job.job_id)
    <3>1. UNCHANGED fresh /\ store'.jobs = store.jobs
      BY <1>5, <2>3, <2>5 DEF IsNewJob
    <3>2. IdsOf(fresh)' \subseteq IdsOf(fresh) \cup {}
      BY <3>1 DEF IdsOf
    <3>3. store'.jobs = store.jobs \cup {} /\ {} \cap store.jobs = {}
      BY <3>1
    <3> QED
      BY <1>3, <3>2, <3>3
  <2> QED
    BY <2>4, <2>5
<1> QED
  BY <1>4, <1>5 DEF RecordJob

\* Queueing the fresh jobs keeps RemoteInv: they are no longer fresh then.
LEMMA AcceptRemote ==
    ASSUME TypeOK, TasksOK, RemoteInv, AcceptTask
    PROVE  RemoteInv'
<1>1. UNCHANGED <<wpc, cur, spool, store>>
  BY AcceptTaskQueue DEF lockVars, lifeVars
<1>2. /\ RemoteSpooled' = RemoteSpooled
      /\ curId' = curId
      /\ RemoteAtMostOnce'
  BY <1>1 DEF RemoteInv, RemoteSpooled, RemoteAtMostOnce, curId
<1>3. ASSUME IdsOf(fresh)' \subseteq IdsOf(fresh),
             RemoteIds(queue)' \subseteq RemoteIds(queue) \cup IdsOf(fresh),
             IdsOf(fresh)' \cap RemoteIds(queue)' = {}
      PROVE  RemoteInv'
  <2>1. /\ IdsOf(fresh)' \cup RemoteIds(queue)' \cup RemoteSpooled \subseteq store.jobs
        /\ RemoteSpooled \cap (IdsOf(fresh)' \cup RemoteIds(queue)') = {}
    BY <1>3 DEF RemoteInv
  <2>2. cur # None /\ cur.remote => curId \in store.jobs \ IdsOf(fresh)'
    BY <1>3 DEF RemoteInv
  <2>3. cur # None /\ cur.remote /\ wpc \notin {"log_submitted", "track", "clean_ok"}
            => curId \notin RemoteSpooled
    BY DEF RemoteInv
  <2> QED
    BY <1>1, <1>2, <1>3, <2>1, <2>2, <2>3 DEF RemoteInv
<1>4. fresh' = <<>> => IdsOf(fresh)' = {}
  BY DEF IdsOf
<1>5. queue \in QueueType /\ fresh \in Seq(PrintJobInput)
  BY DEF TypeOK, TasksOK
<1>6. CASE UNCHANGED queue /\ fresh' \in {fresh, <<>>}
  <2>1. RemoteIds(queue)' = RemoteIds(queue) /\ IdsOf(fresh)' \subseteq IdsOf(fresh)
    BY <1>4, <1>6 DEF RemoteIds
  <2>2. IdsOf(fresh) \cap RemoteIds(queue) = {}
    BY DEF RemoteInv
  <2> QED
    BY <1>3, <2>1, <2>2
<1>7. ASSUME fresh' = <<>>, NEW job \in PrintJobInput, job.job_id \in IdsOf(fresh),
             queue' = accept_queued_job(queue, job, TRUE)
      PROVE  RemoteInv'
  <2>1. RemoteIds(queue)' \subseteq RemoteIds(queue) \cup {job.job_id}
    BY <1>5, <1>7, AcceptJobRemote
  <2> QED
    BY <1>3, <1>4, <1>7, <2>1
<1>8. ASSUME fresh' = <<>>, NEW b \in BatchIds, queue' = accept_batch(queue, b, fresh, TRUE)
      PROVE  RemoteInv'
  <2>1. RemoteIds(queue)' \subseteq RemoteIds(queue) \cup IdsOf(fresh)
    BY <1>5, <1>8, AcceptBatchRemote
  <2> QED
    BY <1>3, <1>4, <1>8, <2>1
<1> QED
  BY <1>6, <1>7, <1>8, AcceptTaskQueue

\* A new process keeps the spool and the store and starts with nothing else.
LEMMA RestartRemote ==
    ASSUME RemoteInv, RemoteRestart
    PROVE  RemoteInv'
<1>1. /\ UNCHANGED <<spool, store>> /\ cur' = None
      /\ queue' = EmptyQueue /\ fresh' = <<>>
  BY DEF RemoteRestart, Restart
<1>2. RemoteIds(queue)' = {} /\ IdsOf(fresh)' = {}
  BY <1>1 DEF RemoteIds, EmptyQueue, IdsOf
<1>3. RemoteSpooled' = RemoteSpooled /\ RemoteAtMostOnce'
  BY <1>1 DEF RemoteInv, RemoteSpooled, RemoteAtMostOnce
<1>4. RemoteSpooled \subseteq store'.jobs
  BY <1>1 DEF RemoteInv
<1> QED
  BY <1>1, <1>2, <1>3, <1>4 DEF RemoteInv

\* Every step of the composition preserves RemoteInv.
LEMMA RemoteInvStep ==
    TypeOK /\ TasksOK /\ LedgerInv /\ RemoteInv /\ [RemoteNext]_allVars => RemoteInv'
<1> SUFFICES ASSUME TypeOK, TasksOK, LedgerInv, RemoteInv, [RemoteNext]_allVars
             PROVE  RemoteInv'
  OBVIOUS
<1> USE DEF lockVars, lifeVars
<1>1. UNCHANGED queue => RemoteIds(queue)' \subseteq RemoteIds(queue)
  BY DEF RemoteIds
<1>2. ASSUME UNCHANGED <<queue, wpc, cur, spool, fresh>>, store'.jobs = store.jobs
      PROVE  RemoteInv'
  BY <1>1, <1>2, RemoteFrame
<1>3. ASSUME LocalNext, UNCHANGED rvars PROVE RemoteInv'
  BY <1>3, LocalRemoteStep
<1>4. ASSUME NEW answer \in Answers, FetchTasks(answer) PROVE RemoteInv'
  <2>1. UNCHANGED <<queue, wpc, cur, spool>> /\ UNCHANGED <<fresh, store>>
    BY <1>4 DEF FetchTasks, RemoteStep, NoQueue
  <2> QED
    BY <1>2, <2>1
<1>5. ASSUME FetchFailed \/ PollDone \/ Report \/ RemoteTaskLoop \/ RetryDue PROVE RemoteInv'
  <2>1. UNCHANGED fresh
    BY <1>5 DEF FetchFailed, PollDone, Report, ReportBegin, PostReport, MarkReport,
         ReportDone, RemoteTaskLoop, RemoteCheck, RemoteLoop, RemoteDecide, RemoteAwake,
         RemoteCancelled, RetryDue, rvars
  <2> QED
    BY <1>2, <1>5, <2>1, RemoteOnly, RecordRemote
<1>6. ASSUME RemoteNotify PROVE RemoteInv'
  BY <1>2, <1>6 DEF RemoteNotify, NotifyOne
<1>7. ASSUME NEW cfg \in Configs, RemoteSaveConfig(cfg) PROVE RemoteInv'
  BY <1>2, <1>7 DEF RemoteSaveConfig, SaveConfig
<1>8. ASSUME UNCHANGED allVars PROVE RemoteInv'
  BY <1>2, <1>8 DEF allVars, vars, rvars
<1> QED
  BY <1>3, <1>4, <1>5, <1>6, <1>7, <1>8, RecordRemote, AcceptRemote, RestartRemote
     DEF RemoteNext, Poll

\* A remote job is printed at most once over all processes, whatever the service
\* sends, however requests and store statements fail, and wherever crashes fall.
THEOREM RemotePrintedOnce == RemoteSpec => []RemoteAtMostOnce
<1>1. Init /\ RemoteInit => RemoteInv
  BY DEF Init, RemoteInit, RemoteInv, RemoteIds, RemoteSpooled, RemoteAtMostOnce, IdsOf,
     EmptyQueue, EmptyStore
<1>2. RemoteInv => RemoteAtMostOnce
  BY DEF RemoteInv
<1> QED
  BY <1>1, <1>2, ComposedInv, RemoteInvStep, PTL DEF RemoteSpec

-----------------------------------------------------------------------------
(* The reports.                                                             *)

\* What event i of a store tells the service.
EventReport(s, i) == <<s.events[i].job_id, s.events[i].status>>

\* The service has been told, or is about to record having been told, only what
\* an event says, and every event still to be posted is pending: nothing but the
\* report loop itself ever ends an event.
ReportInv ==
    /\ RemoteTypeOK
    /\ \A i \in outbox : store.events[i].delivery_state = "pending"
    /\ rpc = "delivered" =>
        \A i \in outbox : IsOldest(i) => EventReport(store, i) \in received
    /\ DeliveredIsReceived

\* Store t has every event of s, telling the service the same, and what it has
\* beyond them is pending.
Grown(s, t) ==
    /\ DOMAIN s.events \subseteq DOMAIN t.events
    /\ \A i \in DOMAIN s.events : t.events[i].job_id = s.events[i].job_id
                                /\ t.events[i].status = s.events[i].status
    /\ \A i \in DOMAIN t.events \ DOMAIN s.events : t.events[i].delivery_state = "pending"

\* The delivery of the events of s is the same in t.
SameDelivery(s, t) ==
    \A i \in DOMAIN s.events : t.events[i].delivery_state = s.events[i].delivery_state
                             /\ t.events[i].retry_count = s.events[i].retry_count

\* insert_status_event keeps the events and adds at most a pending one.
LEMMA InsertEvents ==
    ASSUME NEW s \in StoreType, NEW j \in JobIds, NEW status \in ReportStatuses,
           NEW t, t = insert_status_event(s, j, status)
    PROVE  /\ Grown(s, t) /\ SameDelivery(s, t)
           /\ \A i \in DOMAIN t.events \ DOMAIN s.events :
                t.events[i].job_id = j /\ t.events[i].status = status
<1> DEFINE n == Len(s.events)
           new == [job_id |-> j, status |-> status, delivery_state |-> "pending",
                   retry_count |-> 0, due |-> TRUE]
<1>1. s.events \in Seq(StatusEvent) /\ n \in Nat /\ DOMAIN s.events = 1..n
  BY DEF StoreType
<1>2. CASE HasEvent(s, j, status)
  BY <1>2 DEF insert_status_event, Grown, SameDelivery
<1>3. CASE ~HasEvent(s, j, status)
  <2>1. t.events = Append(s.events, new)
    BY <1>3 DEF insert_status_event, StoreType
  <2>2. /\ DOMAIN t.events = 1..(n + 1)
        /\ \A i \in 1..n : t.events[i] = s.events[i]
        /\ t.events[n + 1] = new
    BY <1>1, <2>1
  <2> HIDE DEF n, new
  <2>3. DOMAIN t.events \ DOMAIN s.events = {n + 1}
    BY <1>1, <2>2
  <2>4. new.delivery_state = "pending" /\ new.job_id = j /\ new.status = status
    BY DEF new
  <2> QED
    BY <1>1, <2>2, <2>3, <2>4 DEF Grown, SameDelivery
<1> QED
  BY <1>2, <1>3

\* What logging a status of the worker's job does to the outbox.
LEMMA LoggedEvents ==
    ASSUME TypeOK, cur # None, NEW status, NEW remote, push_log(status, remote)
    PROVE  /\ Grown(store, store') /\ SameDelivery(store, store')
           /\ \A i \in DOMAIN store'.events \ DOMAIN store.events :
                /\ remote /\ cur.remote
                /\ store'.events[i].job_id = curId
                /\ store'.events[i].status = remote_status_for_job_status(status)
<1> DEFINE report == remote_status_for_job_status(status)
<1>1. store \in StoreType /\ curId \in JobIds
  BY DEF TypeOK, QueuedJob, PrintJobInput, curId
<1>2. CASE UNCHANGED store
  BY <1>2 DEF Grown, SameDelivery
<1>3. CASE /\ remote /\ cur.remote /\ report # None
           /\ store' = insert_status_event(store, curId, report)
  <2>1. report \in ReportStatuses
    BY <1>3 DEF remote_status_for_job_status, ReportStatuses
  <2> QED
    BY <1>1, <1>3, <2>1, InsertEvents
<1> QED
  BY <1>2, <1>3 DEF push_log

\* The steps of the agent's own tasks only add events, of the worker's remote job,
\* and a verdict only where the job has been submitted or has failed.
LEMMA LocalEvents ==
    ASSUME TypeOK, [Next]_vars
    PROVE  /\ store'.jobs = store.jobs
           /\ Grown(store, store') /\ SameDelivery(store, store')
           /\ \A i \in DOMAIN store'.events \ DOMAIN store.events :
                /\ cur # None /\ cur.remote
                /\ store'.events[i].job_id = curId
                /\ store'.events[i].status = "success" => wpc = "log_submitted"
                /\ store'.events[i].status = "failed" => LogFailed
<1> DEFINE P == /\ store'.jobs = store.jobs
                /\ Grown(store, store') /\ SameDelivery(store, store')
                /\ \A i \in DOMAIN store'.events \ DOMAIN store.events :
                     /\ cur # None /\ cur.remote
                     /\ store'.events[i].job_id = curId
                     /\ store'.events[i].status = "success" => wpc = "log_submitted"
                     /\ store'.events[i].status = "failed" => LogFailed
<1>1. ASSUME UNCHANGED store PROVE P
  BY <1>1 DEF Grown, SameDelivery
<1>2. ASSUME ProcessJob PROVE P
  <2>1. cur # None
    BY <1>2 DEF ProcessJob, LogQueued, StartHtml, StartRaw, StartFile, RenderHtml, Download,
         PreparePdf, LogPrinting, AcquirePrintLock, Submit, LogSubmitted, Track, Cleanup,
         LogFailed, JobStep, TypeOK, Busy
  <2>2. ASSUME NEW status, NEW remote, push_log(status, remote),
               remote /\ remote_status_for_job_status(status) = "success" =>
                    wpc = "log_submitted",
               remote /\ remote_status_for_job_status(status) = "failed" => LogFailed
        PROVE  P
    <3>1. store'.jobs = store.jobs
      BY <2>2, PushLogJobs
    <3>2. /\ Grown(store, store') /\ SameDelivery(store, store')
          /\ \A i \in DOMAIN store'.events \ DOMAIN store.events :
               /\ remote /\ cur.remote
               /\ store'.events[i].job_id = curId
               /\ store'.events[i].status = remote_status_for_job_status(status)
      BY <2>1, <2>2, LoggedEvents
    <3> QED
      BY <2>1, <2>2, <3>1, <3>2
  <2> HIDE DEF P
  <2>3. /\ remote_status_for_job_status("queued") = "accepted"
        /\ remote_status_for_job_status("submitted") = "success"
        /\ remote_status_for_job_status("failed") = "failed"
        /\ remote_status_for_job_status("downloading") = None
        /\ remote_status_for_job_status("printing") = None
        /\ None \notin {"success", "failed"}
    <3>1. None \notin ReportStatuses
      BY AgentAssumption
    <3>2. None \notin {"success", "failed"}
      BY <3>1 DEF ReportStatuses
    <3> QED
      BY <3>2 DEF remote_status_for_job_status
  <2>4. CASE LogQueued
    BY <2>2, <2>3, <2>4 DEF LogQueued
  <2>5. CASE StartRaw
    BY <1>1, <2>2, <2>3, <2>5 DEF StartRaw, NoLog
  <2>6. CASE StartFile
    BY <2>2, <2>3, <2>6 DEF StartFile
  <2>7. CASE RenderHtml
    BY <1>1, <2>2, <2>3, <2>7 DEF RenderHtml, NoLog
  <2>8. CASE PreparePdf
    BY <1>1, <2>2, <2>3, <2>8 DEF PreparePdf, NoLog
  <2>9. CASE LogPrinting
    BY <2>2, <2>3, <2>9 DEF LogPrinting
  <2>10. CASE LogSubmitted
    BY <2>2, <2>3, <2>10 DEF LogSubmitted, JobStep
  <2>11. CASE Track
    BY <2>2, <2>11 DEF Track
  <2>12. CASE LogFailed
    BY <2>2, <2>3, <2>12 DEF LogFailed
  <2>13. CASE StartHtml \/ Download \/ AcquirePrintLock \/ Submit \/ Cleanup
    BY <1>1, <2>13 DEF StartHtml, Download, AcquirePrintLock, Submit, Cleanup, NoLog
  <2> QED
    BY <1>2, <2>4, <2>5, <2>6, <2>7, <2>8, <2>9, <2>10, <2>11, <2>12, <2>13 DEF ProcessJob
<1>3. ASSUME ~ProcessJob PROVE UNCHANGED store
  BY <1>3 DEF Next, vars, Submissions, ClientPrint, ClientPrintBatch, NotifyOne, WorkerLoop,
     WorkerCheck, WorkerPop, WorkerSelect, WorkerWake, WorkerCancelled, TestPrints, TestPrint,
     TestAcquire, TestRelease, TesterStep, SaveConfig, Shutdown, Restart
<1> QED
  BY <1>1, <1>2, <1>3

\* mark_delivered ends one event and changes no other.
LEMMA MarkDeliveredEvents ==
    ASSUME NEW s \in StoreType, NEW id \in DOMAIN s.events, NEW t, t = mark_delivered(s, id)
    PROVE  /\ Grown(s, t) /\ DOMAIN t.events = DOMAIN s.events
           /\ \A i \in DOMAIN s.events \ {id} : t.events[i] = s.events[i]
           /\ t.events[id].delivery_state = "delivered"
<1>1. t.events = [s.events EXCEPT ![id].delivery_state = "delivered"]
  BY DEF mark_delivered, StoreType
<1>2. /\ DOMAIN t.events = DOMAIN s.events
      /\ \A i \in DOMAIN s.events \ {id} : t.events[i] = s.events[i]
      /\ t.events[id] = [s.events[id] EXCEPT !.delivery_state = "delivered"]
  BY <1>1
<1>3. s.events[id] \in StatusEvent
  BY DEF StoreType
<1>4. /\ t.events[id].delivery_state = "delivered"
      /\ t.events[id].job_id = s.events[id].job_id
      /\ t.events[id].status = s.events[id].status
  BY <1>2, <1>3 DEF StatusEvent
<1> QED
  BY <1>2, <1>4 DEF Grown

\* mark_delivery_failed changes one event, which it does not call delivered.
LEMMA MarkFailedEvents ==
    ASSUME NEW s \in StoreType, NEW id \in DOMAIN s.events, NEW max,
           NEW t, t = mark_delivery_failed(s, id, max)
    PROVE  /\ Grown(s, t) /\ DOMAIN t.events = DOMAIN s.events
           /\ \A i \in DOMAIN s.events \ {id} : t.events[i] = s.events[i]
           /\ t.events[id].delivery_state # "delivered"
<1> DEFINE next == s.events[id].retry_count + 1
           state == IF next >= max THEN "abandoned" ELSE "pending"
           new == [s.events[id] EXCEPT !.retry_count = next, !.delivery_state = state,
                                       !.due = FALSE]
<1>1. t.events = [s.events EXCEPT ![id] = new]
  BY DEF mark_delivery_failed, StoreType
<1>2. state # "delivered"
  OBVIOUS
<1> HIDE DEF next, state
<1>3. s.events[id] \in StatusEvent
  BY DEF StoreType
<1>4. /\ new.delivery_state # "delivered"
      /\ new.job_id = s.events[id].job_id
      /\ new.status = s.events[id].status
  BY <1>2, <1>3 DEF StatusEvent
<1> HIDE DEF new
<1>5. /\ DOMAIN t.events = DOMAIN s.events
      /\ \A i \in DOMAIN s.events \ {id} : t.events[i] = s.events[i]
      /\ t.events[id] = new
  BY <1>1
<1> QED
  BY <1>4, <1>5 DEF Grown

\* The passing of time ends no event.
LEMMA RetryEvents ==
    ASSUME NEW s \in StoreType, NEW t, t = retry_time_passed(s)
    PROVE  /\ Grown(s, t) /\ SameDelivery(s, t) /\ DOMAIN t.events = DOMAIN s.events
<1>1. t.events = [i \in DOMAIN s.events |-> IF i \in Postponed(s)
                     THEN [s.events[i] EXCEPT !.due = TRUE] ELSE s.events[i]]
  BY DEF retry_time_passed, StoreType
<1>2. \A i \in DOMAIN s.events : s.events[i] \in StatusEvent
  BY DEF StoreType
<1>3. \A e \in StatusEvent :
        /\ [e EXCEPT !.due = TRUE].job_id = e.job_id
        /\ [e EXCEPT !.due = TRUE].status = e.status
        /\ [e EXCEPT !.due = TRUE].delivery_state = e.delivery_state
        /\ [e EXCEPT !.due = TRUE].retry_count = e.retry_count
  BY DEF StatusEvent
<1>4. DOMAIN t.events = DOMAIN s.events
  BY <1>1
<1>5. \A i \in DOMAIN s.events :
        t.events[i] = s.events[i] \/ t.events[i] = [s.events[i] EXCEPT !.due = TRUE]
  BY <1>1
<1> QED
  BY <1>2, <1>3, <1>4, <1>5 DEF Grown, SameDelivery

\* No step but the report loop's own mark changes what became of an event, and no
\* step changes what an event says.
LEMMA EventsStep ==
    ASSUME TypeOK, TasksOK, [RemoteNext]_allVars
    PROVE  /\ MarkReport \/ (Grown(store, store') /\ SameDelivery(store, store'))
           /\ DOMAIN store'.events = DOMAIN store.events
                \/ (LocalNext /\ UNCHANGED rvars)
<1> DEFINE P == /\ Grown(store, store') /\ SameDelivery(store, store')
                /\ DOMAIN store'.events = DOMAIN store.events
                     \/ (LocalNext /\ UNCHANGED rvars)
<1>1. store \in StoreType
  BY DEF TypeOK
<1>2. ASSUME store'.events = store.events PROVE P
  BY <1>2 DEF Grown, SameDelivery
<1>3. ASSUME LocalNext, UNCHANGED rvars PROVE P
  <2>1. Next
    BY <1>3 DEF LocalNext, Next
  <2> QED
    BY <1>3, <2>1, LocalEvents
<1>4. ASSUME RecordJob PROVE P
  <2>1. store'.events = store.events
    BY <1>1, <1>4 DEF RecordJob, record_job_if_new, StoreType
  <2> QED
    BY <1>2, <2>1
<1>5. ASSUME RetryDue PROVE P
  BY <1>1, <1>5, RetryEvents DEF RetryDue
<1>6. ASSUME MarkReport PROVE DOMAIN store'.events = DOMAIN store.events
  <2>1. \A id : DOMAIN mark_delivered(store, id).events = DOMAIN store.events
    BY <1>1 DEF mark_delivered, StoreType
  <2>2. \A id, max : DOMAIN mark_delivery_failed(store, id, max).events = DOMAIN store.events
    BY <1>1 DEF mark_delivery_failed, StoreType
  <2> QED
    BY <1>6, <2>1, <2>2 DEF MarkReport
<1>7. ASSUME \/ \E answer \in Answers : FetchTasks(answer)
             \/ FetchFailed \/ AcceptTask \/ RemoteNotify \/ PollDone
             \/ ReportBegin \/ PostReport \/ ReportDone \/ RemoteTaskLoop
             \/ \E cfg \in Configs : RemoteSaveConfig(cfg)
             \/ RemoteRestart \/ UNCHANGED allVars
      PROVE  UNCHANGED store
  BY <1>7 DEF FetchTasks, FetchFailed, AcceptTask, RemoteNotify, NotifyOne, PollDone,
     ReportBegin, PostReport, ReportDone, RemoteTaskLoop, RemoteCheck, RemoteLoop,
     RemoteDecide, RemoteAwake, RemoteCancelled, RemoteSaveConfig, SaveConfig,
     RemoteRestart, Restart, allVars, vars
<1> HIDE DEF P
<1>8. P \/ MarkReport
  BY <1>2, <1>3, <1>4, <1>5, <1>7 DEF RemoteNext, Poll, Report
<1> QED
  BY <1>6, <1>8 DEF P

\* Where the remote worker is and the configuration it holds.
WorkerOK ==
    /\ rpc \in RemotePcs
    /\ rconf \in RemoteConfig \cup {None}
    /\ rpc \in {"loop", "fetch", "task", "notify", "post", "delivered", "undelivered"}
            => rconf # None
    /\ cfgErr \in BOOLEAN

\* Every step leaves the remote worker at a place of its loop, with a
\* configuration wherever it uses one.
LEMMA WorkerStep ==
    ASSUME TypeOK, WorkerOK, [RemoteNext]_allVars
    PROVE  WorkerOK'
<1>1. config.remote \in RemoteConfig /\ config.remote # None
  BY AgentAssumption, RemoteAssumption DEF TypeOK, AgentConfig
<1>2. config.remote.enabled \in BOOLEAN
  BY <1>1 DEF RemoteConfig
<1>3. rconf # None => rconf.accepted \in BOOLEAN
  BY DEF WorkerOK, RemoteConfig
<1>4. CASE UNCHANGED <<rpc, rconf, cfgErr>>
  BY <1>4 DEF WorkerOK
<1>5. CASE \/ \E answer \in Answers : FetchTasks(answer)
           \/ FetchFailed \/ RecordJob \/ AcceptTask \/ RemoteNotify \/ PollDone
  BY <1>3, <1>5 DEF FetchTasks, FetchFailed, RecordJob, AcceptTask, AbortPoll, RemoteNotify,
     PollDone, RemoteStep, WorkerOK, RemotePcs
<1>6. CASE ReportBegin
  BY <1>1, <1>6 DEF ReportBegin, RemoteStep, WorkerOK, RemotePcs
<1>7. CASE PostReport \/ MarkReport \/ ReportDone
  BY <1>7 DEF PostReport, MarkReport, ReportDone, RemoteStep, WorkerOK, RemotePcs
<1>8. CASE RemoteTaskLoop
  BY <1>1, <1>2, <1>8 DEF RemoteTaskLoop, RemoteCheck, RemoteLoop, RemoteDecide, RemoteAwake,
     RemoteCancelled, RemoteStep, WorkerOK, RemotePcs
<1>9. CASE RemoteRestart \/ \E cfg \in Configs : RemoteSaveConfig(cfg)
  BY <1>9 DEF RemoteRestart, RemoteSaveConfig, WorkerOK, RemotePcs
<1>10. CASE RetryDue \/ UNCHANGED allVars \/ UNCHANGED rvars
  BY <1>4, <1>10 DEF RetryDue, allVars, rvars
<1> QED
  BY <1>5, <1>6, <1>7, <1>8, <1>9, <1>10 DEF RemoteNext, Poll, Report

\* RemoteTypeOK in parts.
LEMMA RemoteTypeIs ==
    RemoteTypeOK <=>
        /\ WorkerOK /\ TasksOK
        /\ outbox \subseteq DOMAIN store.events
        /\ rpc \in {"delivered", "undelivered"} => outbox # {}
        /\ received \subseteq JobIds \X ReportStatuses
BY DEF RemoteTypeOK, WorkerOK, TasksOK, Task

\* A step that keeps what the events say and their delivery, sends nothing and
\* does not move on to marking an event keeps ReportInv.
LEMMA ReportFrame ==
    ASSUME ReportInv, WorkerOK', TasksOK', Grown(store, store'), SameDelivery(store, store'),
           received' = received, outbox' \in {outbox, {}},
           \/ rpc' \notin {"delivered", "undelivered"}
           \/ rpc' = rpc /\ outbox' = outbox
    PROVE  ReportInv'
<1>1. /\ outbox \subseteq DOMAIN store.events
      /\ rpc \in {"delivered", "undelivered"} => outbox # {}
      /\ received \subseteq JobIds \X ReportStatuses
  BY RemoteTypeIs DEF ReportInv
<1>2. outbox' \subseteq outbox /\ outbox' \subseteq DOMAIN store'.events
  BY <1>1 DEF Grown
<1>3. RemoteTypeOK'
  <2>1. /\ rpc' \in {"delivered", "undelivered"} => outbox' # {}
        /\ received' \subseteq JobIds \X ReportStatuses
    BY <1>1
  <2> QED
    BY <1>2, <2>1 DEF RemoteTypeOK, WorkerOK, TasksOK, Task
<1>4. \A i \in outbox' : store'.events[i].delivery_state = "pending"
  BY <1>1, <1>2 DEF ReportInv, SameDelivery
<1>5. \A i \in DOMAIN store.events : EventReport(store, i)' = EventReport(store, i)
  BY DEF Grown, EventReport
<1>6. (rpc = "delivered" => \A i \in outbox : IsOldest(i) => EventReport(store, i) \in received)'
  <2> SUFFICES ASSUME rpc' = "delivered", NEW i \in outbox', IsOldest(i)'
               PROVE  EventReport(store, i)' \in received'
    OBVIOUS
  <2>1. rpc = "delivered" /\ outbox' = outbox /\ i \in DOMAIN store.events
    BY <1>1
  <2>2. IsOldest(i)
    BY <2>1 DEF IsOldest
  <2> QED
    BY <1>5, <2>1, <2>2 DEF ReportInv
<1>7. DeliveredIsReceived'
  <2> SUFFICES ASSUME NEW i \in DOMAIN store'.events,
                      store'.events[i].delivery_state = "delivered"
               PROVE  EventReport(store, i)' \in received'
    BY DEF DeliveredIsReceived, EventReport
  <2>1. i \in DOMAIN store.events /\ store.events[i].delivery_state = "delivered"
    BY DEF Grown, SameDelivery
  <2> QED
    BY <1>5, <2>1 DEF ReportInv, DeliveredIsReceived, EventReport
<1> QED
  BY <1>3, <1>4, <1>6, <1>7 DEF ReportInv

\* Posting the oldest event: what the service gets is what that event says.
LEMMA PostReportStep ==
    ASSUME TypeOK, ReportInv, PostReport, WorkerOK', TasksOK'
    PROVE  ReportInv'
<1>1. store \in StoreType /\ UNCHANGED store
  BY DEF TypeOK, PostReport
<1>2. Grown(store, store') /\ SameDelivery(store, store')
  BY <1>1 DEF Grown, SameDelivery
<1>3. CASE received' = received /\ outbox' = {} /\ rpc' = "decide"
  BY <1>2, <1>3, ReportFrame
<1>4. ASSUME NEW id \in outbox, IsOldest(id), UNCHANGED outbox,
             received' \in {received, received \cup {EventReport(store, id)}},
             \/ rpc' = "undelivered"
             \/ rpc' = "delivered" /\ EventReport(store, id) \in received'
      PROVE  ReportInv'
  <2>1. outbox \subseteq DOMAIN store.events /\ received \subseteq JobIds \X ReportStatuses
    BY RemoteTypeIs DEF ReportInv
  <2>2. store.events[id] \in StatusEvent
    BY <1>1, <2>1 DEF StoreType
  <2>3. EventReport(store, id) \in JobIds \X ReportStatuses
    BY <2>2 DEF StatusEvent, EventReport
  <2>4. outbox' \subseteq DOMAIN store'.events /\ outbox' # {}
    BY <1>1, <1>4, <2>1
  <2>5. received' \subseteq JobIds \X ReportStatuses /\ received \subseteq received'
    BY <1>4, <2>1, <2>3
  <2>6. RemoteTypeOK'
    BY <2>4, <2>5 DEF RemoteTypeOK, WorkerOK, TasksOK, Task
  <2>7. \A i \in outbox' : store'.events[i].delivery_state = "pending"
    BY <1>1, <1>4 DEF ReportInv
  <2>8. DeliveredIsReceived'
    BY <1>1, <2>5 DEF ReportInv, DeliveredIsReceived
  <2>9. ASSUME NEW i \in outbox', IsOldest(i)', rpc' = "delivered"
        PROVE  EventReport(store, i)' \in received'
    <3>1. i =< id /\ id =< i
      BY <1>4, <2>9 DEF IsOldest
    <3>2. i \in Nat /\ id \in Nat
      BY <1>1, <1>4, <2>1, <2>9 DEF StoreType
    <3>3. i = id
      BY <3>1, <3>2
    <3>4. EventReport(store, i)' = EventReport(store, i)
      BY <1>1 DEF EventReport
    <3> QED
      BY <1>4, <2>9, <3>3, <3>4
  <2> QED
    BY <2>6, <2>7, <2>8, <2>9 DEF ReportInv
<1> QED
  BY <1>3, <1>4 DEF PostReport, EventReport

\* Marking the oldest event: delivered only after the service has the report.
LEMMA MarkReportStep ==
    ASSUME TypeOK, ReportInv, MarkReport, WorkerOK', TasksOK'
    PROVE  /\ ReportInv' /\ Grown(store, store') /\ received' = received
           /\ \A i \in DOMAIN store.events :
                store.events[i].delivery_state # "pending" => store'.events[i] = store.events[i]
<1>1. store \in StoreType /\ received' = received
  BY DEF TypeOK, MarkReport
<1>2. /\ outbox \subseteq DOMAIN store.events
      /\ received \subseteq JobIds \X ReportStatuses
  BY RemoteTypeIs DEF ReportInv
<1>3. CASE UNCHANGED store /\ outbox' = {} /\ rpc' = "decide"
  <2>1. Grown(store, store') /\ SameDelivery(store, store')
    BY <1>3 DEF Grown, SameDelivery
  <2>2. ReportInv'
    BY <1>1, <1>3, <2>1, ReportFrame
  <2> QED
    BY <1>1, <1>3, <2>1, <2>2
<1>4. ASSUME NEW id \in outbox, IsOldest(id), outbox' = outbox \ {id}, rpc' = "post",
             Grown(store, store'), DOMAIN store'.events = DOMAIN store.events,
             \A i \in DOMAIN store.events \ {id} : store'.events[i] = store.events[i],
             store'.events[id].delivery_state = "delivered" =>
                EventReport(store, id) \in received
      PROVE  /\ ReportInv'
             /\ \A i \in DOMAIN store.events :
                  store.events[i].delivery_state # "pending" =>
                    store'.events[i] = store.events[i]
  <2>1. store.events[id].delivery_state = "pending"
    BY DEF ReportInv
  <2>2. outbox' \subseteq DOMAIN store'.events
    BY <1>2, <1>4
  <2>3. RemoteTypeOK'
    BY <1>1, <1>2, <1>4, <2>2 DEF RemoteTypeOK, WorkerOK, TasksOK, Task
  <2>4. \A i \in outbox' : store'.events[i].delivery_state = "pending"
    BY <1>2, <1>4 DEF ReportInv
  <2>5. EventReport(store, id)' = EventReport(store, id)
    BY <1>2, <1>4 DEF Grown, EventReport
  <2>6. DeliveredIsReceived'
    <3> SUFFICES ASSUME NEW i \in DOMAIN store.events,
                        store'.events[i].delivery_state = "delivered"
                 PROVE  EventReport(store, i)' \in received'
      BY <1>4 DEF DeliveredIsReceived, EventReport
    <3>1. CASE i = id
      BY <1>1, <1>4, <2>5, <3>1
    <3>2. CASE i # id
      <4>1. store'.events[i] = store.events[i]
        BY <1>4, <3>2
      <4> QED
        BY <1>1, <4>1 DEF ReportInv, DeliveredIsReceived, EventReport
    <3> QED
      BY <3>1, <3>2
  <2>7. \A i \in DOMAIN store.events :
          store.events[i].delivery_state # "pending" => store'.events[i] = store.events[i]
    BY <1>4, <2>1
  <2> QED
    BY <1>4, <2>3, <2>4, <2>6, <2>7 DEF ReportInv
<1>5. ASSUME NEW id \in outbox, IsOldest(id), rpc = "delivered",
             store' = mark_delivered(store, id), outbox' = outbox \ {id}, rpc' = "post"
      PROVE  /\ ReportInv' /\ Grown(store, store')
             /\ \A i \in DOMAIN store.events :
                  store.events[i].delivery_state # "pending" =>
                    store'.events[i] = store.events[i]
  <2>1. EventReport(store, id) \in received
    BY <1>5 DEF ReportInv
  <2>2. /\ Grown(store, store') /\ DOMAIN store'.events = DOMAIN store.events
        /\ \A i \in DOMAIN store.events \ {id} : store'.events[i] = store.events[i]
    BY <1>1, <1>2, <1>5, MarkDeliveredEvents
  <2> QED
    BY <1>4, <1>5, <2>1, <2>2
<1>6. ASSUME NEW id \in outbox, IsOldest(id), NEW max,
             store' = mark_delivery_failed(store, id, max), outbox' = outbox \ {id}, rpc' = "post"
      PROVE  /\ ReportInv' /\ Grown(store, store')
             /\ \A i \in DOMAIN store.events :
                  store.events[i].delivery_state # "pending" =>
                    store'.events[i] = store.events[i]
  <2>1. /\ Grown(store, store') /\ DOMAIN store'.events = DOMAIN store.events
        /\ \A i \in DOMAIN store.events \ {id} : store'.events[i] = store.events[i]
        /\ store'.events[id].delivery_state # "delivered"
    BY <1>1, <1>2, <1>6, MarkFailedEvents
  <2> QED
    BY <1>4, <1>6, <2>1
<1> QED
  BY <1>1, <1>3, <1>5, <1>6 DEF MarkReport

\* Every step of the composition preserves ReportInv.
LEMMA ReportStep ==
    TypeOK /\ TasksOK /\ TasksOK' /\ ReportInv /\ [RemoteNext]_allVars => ReportInv'
<1> SUFFICES ASSUME TypeOK, TasksOK, TasksOK', ReportInv, [RemoteNext]_allVars
             PROVE  ReportInv'
  OBVIOUS
<1>1. WorkerOK'
  BY RemoteTypeIs, WorkerStep DEF ReportInv
<1>2. CASE PostReport
  BY <1>1, <1>2, PostReportStep
<1>3. CASE MarkReport
  BY <1>1, <1>3, MarkReportStep
<1>4. CASE ReportBegin /\ outbox' = pending_status_events(store)
  <2>1. /\ UNCHANGED <<store, received>> /\ rpc' \in {"post", "decide"}
    BY <1>4 DEF ReportBegin
  <2>2. /\ outbox' \subseteq DOMAIN store.events
        /\ \A i \in outbox' : store.events[i].delivery_state = "pending"
    BY <1>4 DEF pending_status_events, DuePending
  <2>3. received \subseteq JobIds \X ReportStatuses
    BY RemoteTypeIs DEF ReportInv
  <2>4. RemoteTypeOK'
    BY <1>1, <2>1, <2>2, <2>3 DEF RemoteTypeOK, WorkerOK, TasksOK, Task
  <2> QED
    BY <2>1, <2>2, <2>4 DEF ReportInv, DeliveredIsReceived
<1>5. ASSUME ~PostReport, ~MarkReport, ~(ReportBegin /\ outbox' = pending_status_events(store))
      PROVE  /\ received' = received /\ outbox' \in {outbox, {}}
             /\ \/ rpc' \notin {"delivered", "undelivered"}
                \/ rpc' = rpc /\ outbox' = outbox
  <2>1. CASE ReportBegin
    BY <1>5, <2>1 DEF ReportBegin
  <2>2. CASE Poll
    BY <2>2 DEF Poll, FetchTasks, FetchFailed, RecordJob, AcceptTask, AbortPoll, RemoteNotify,
       PollDone
  <2>3. CASE RemoteTaskLoop \/ ReportDone
    BY <2>3 DEF ReportDone, RemoteTaskLoop, RemoteCheck, RemoteLoop, RemoteDecide, RemoteAwake,
       RemoteCancelled
  <2>4. CASE RemoteRestart \/ \E cfg \in Configs : RemoteSaveConfig(cfg)
    BY <2>4 DEF RemoteRestart, RemoteSaveConfig
  <2>5. CASE RetryDue \/ UNCHANGED allVars \/ UNCHANGED rvars
    BY <2>5 DEF RetryDue, allVars, rvars
  <2> QED
    BY <1>5, <2>1, <2>2, <2>3, <2>4, <2>5 DEF RemoteNext, Report
<1>6. CASE ~PostReport /\ ~MarkReport /\ ~(ReportBegin /\ outbox' = pending_status_events(store))
  BY <1>1, <1>5, <1>6, EventsStep, ReportFrame
<1> QED
  BY <1>2, <1>3, <1>4, <1>6

\* The invariants about reports hold in the composition.
LEMMA ReportsOK == RemoteSpec => [](TypeOK /\ TasksOK /\ ReportInv)
<1>1. Init /\ RemoteInit => ReportInv
  <2> SUFFICES ASSUME Init, RemoteInit PROVE ReportInv
    OBVIOUS
  <2>1. rpc = "check" /\ outbox = {} /\ received = {} /\ DOMAIN store.events = {}
    BY DEF Init, RemoteInit, EmptyStore
  <2>2. WorkerOK
    BY DEF RemoteInit, WorkerOK, RemotePcs
  <2>3. TasksOK
    BY DEF RemoteInit, TasksOK
  <2>4. RemoteTypeOK
    BY <2>1, <2>2, <2>3, RemoteTypeIs
  <2> QED
    BY <2>1, <2>4 DEF ReportInv, DeliveredIsReceived
<1> QED
  BY <1>1, ComposedInv, ReportStep, PTL DEF RemoteSpec

\* The remote worker's variables keep their types: it holds a configuration where
\* it uses one and has an event at hand where it marks one.
THEOREM RemoteTypeCorrect == RemoteSpec => []RemoteTypeOK
<1>1. ReportInv => RemoteTypeOK
  BY DEF ReportInv
<1> QED
  BY <1>1, ReportsOK, PTL

\* An event is marked delivered only when the service has its report, with any
\* number of events, lost answers, store errors and crashes.
THEOREM DeliveredWasReceived == RemoteSpec => []DeliveredIsReceived
<1>1. ReportInv => DeliveredIsReceived
  BY DEF ReportInv
<1> QED
  BY <1>1, ReportsOK, PTL

\* What has been delivered or given up stays so and is not counted again.
THEOREM DeliveryStaysFinal == RemoteSpec => DeliveryIsFinal
<1> DEFINE Final == \A i \in DOMAIN store.events :
              store.events[i].delivery_state # "pending" =>
                 /\ store'.events[i].delivery_state = store.events[i].delivery_state
                 /\ store'.events[i].retry_count = store.events[i].retry_count
<1>1. TypeOK /\ TasksOK /\ ReportInv /\ TasksOK' /\ [RemoteNext]_allVars => Final
  <2> SUFFICES ASSUME TypeOK, TasksOK, ReportInv, TasksOK', [RemoteNext]_allVars PROVE Final
    OBVIOUS
  <2>1. WorkerOK'
    BY RemoteTypeIs, WorkerStep DEF ReportInv
  <2>2. CASE MarkReport
    BY <2>1, <2>2, MarkReportStep
  <2>3. CASE ~MarkReport
    BY <2>3, EventsStep DEF SameDelivery
  <2> QED
    BY <2>2, <2>3
<1>2. TypeOK /\ TasksOK /\ ReportInv /\ TasksOK' /\ [RemoteNext]_allVars => [Final]_allVars
  BY <1>1
<1> HIDE DEF Final
<1>3. RemoteSpec => [][Final]_allVars
  BY <1>2, ReportsOK, PTL DEF RemoteSpec
<1> QED
  BY <1>3 DEF DeliveryIsFinal, Final

-----------------------------------------------------------------------------
(* The verdicts.                                                            *)

\* Jobs the service is told have failed, and jobs it is told have been printed.
FailedIds ==
    {store.events[i].job_id : i \in {k \in DOMAIN store.events : store.events[k].status = "failed"}}

PrintedIds ==
    {store.events[i].job_id : i \in {k \in DOMAIN store.events : store.events[k].status = "success"}}

\* The worker's job, if it is the service's.
CurRemote == IF cur # None /\ cur.remote THEN {curId} ELSE {}

\* The service's jobs that are printed or may still be: just recorded, queued or
\* at the worker.
OnTheWay == RemoteSpooled \cup IdsOf(fresh) \cup RemoteIds(queue) \cup CurRemote

\* The worker has submitted a remote job only if the spool has it.
SubmittedIsSpooled == wpc = "log_submitted" => CurRemote \subseteq RemoteSpooled

\* The strengthening of VerdictTruthful.  A job whose failure is reported has left
\* the way to the printer for good: it is known, so it is not taken again, and it
\* is nowhere between being recorded and being printed.
VerdictInv ==
    /\ \A r \in received : \E i \in DOMAIN store.events : r = EventReport(store, i)
    /\ FailedIds \subseteq store.jobs
    /\ FailedIds \cap OnTheWay = {}
    /\ PrintedIds \subseteq RemoteSpooled
    /\ SubmittedIsSpooled

\* Printing the worker's job adds it to the remote spool if it is the service's.
LEMMA SpoolRemote ==
    ASSUME TypeOK, cur # None, UNCHANGED cur, spool' = Append(spool, SpoolEntry)
    PROVE  RemoteSpooled' = RemoteSpooled \cup CurRemote
<1> DEFINE n == Len(spool)
<1>1. spool \in Seq(SpoolEntries) /\ n \in Nat /\ DOMAIN spool = 1..n
  BY DEF TypeOK
<1>2. /\ DOMAIN spool' = 1..(n + 1)
      /\ \A i \in 1..n : spool'[i] = spool[i]
      /\ spool'[n + 1] = SpoolEntry
  BY <1>1
<1>3. SpoolEntry.remote = cur.remote /\ SpoolEntry.job_id = curId
  BY DEF SpoolEntry
<1> HIDE DEF n
<1>4. n + 1 \in 1..(n + 1) /\ 1..n \subseteq 1..(n + 1)
  BY <1>1
<1>5. ASSUME NEW i \in DOMAIN spool', spool'[i].remote
      PROVE  spool'[i].job_id \in RemoteSpooled \cup CurRemote
  <2>1. CASE i \in 1..n
    BY <1>1, <1>2, <1>5, <2>1 DEF RemoteSpooled
  <2>2. CASE i = n + 1
    BY <1>2, <1>3, <1>5, <2>2 DEF CurRemote
  <2> QED
    BY <1>1, <1>2, <2>1, <2>2
<1>6. ASSUME NEW i \in DOMAIN spool, spool[i].remote
      PROVE  spool[i].job_id \in RemoteSpooled'
  <2>1. i \in DOMAIN spool' /\ spool'[i] = spool[i]
    BY <1>1, <1>2, <1>4
  <2> QED
    BY <1>6, <2>1 DEF RemoteSpooled
<1>7. CurRemote \subseteq RemoteSpooled'
  BY <1>2, <1>3, <1>4 DEF CurRemote, RemoteSpooled
<1> QED
  BY <1>5, <1>6, <1>7 DEF RemoteSpooled

\* A step that prints nothing, adds no remote job to the queue and none to the
\* fresh ones, and gives the worker no job, brings nothing onto the way.
LEMMA WayFrame ==
    ASSUME UNCHANGED spool, RemoteIds(queue)' \subseteq RemoteIds(queue) \cup IdsOf(fresh),
           IdsOf(fresh)' \subseteq IdsOf(fresh), cur' = cur \/ cur' = None
    PROVE  OnTheWay' \subseteq OnTheWay /\ RemoteSpooled' = RemoteSpooled
<1>1. RemoteSpooled' = RemoteSpooled
  BY DEF RemoteSpooled
<1>2. CurRemote' \subseteq CurRemote
  BY DEF CurRemote, curId
<1> QED
  BY <1>1, <1>2 DEF OnTheWay

\* The agent's own tasks move jobs along the way and bring none onto it; a job
\* whose failure is logged leaves it.
LEMMA LocalWay ==
    ASSUME TypeOK, LedgerInv, RemoteInv, LocalNext, UNCHANGED rvars
    PROVE  /\ OnTheWay' \subseteq OnTheWay
           /\ RemoteSpooled \subseteq RemoteSpooled'
           /\ SubmittedIsSpooled => SubmittedIsSpooled'
           /\ LogFailed => CurRemote \cap OnTheWay' = {}
<1> USE DEF lockVars, lifeVars
<1> DEFINE P == /\ OnTheWay' \subseteq OnTheWay
                /\ RemoteSpooled \subseteq RemoteSpooled'
                /\ SubmittedIsSpooled => SubmittedIsSpooled'
<1>1. queue \in QueueType /\ IdsOf(fresh)' = IdsOf(fresh)
  BY DEF TypeOK, rvars, IdsOf
<1>2. ASSUME UNCHANGED <<spool, wpc, cur>>, RemoteIds(queue)' \subseteq RemoteIds(queue) PROVE P
  <2>1. OnTheWay' \subseteq OnTheWay /\ RemoteSpooled' = RemoteSpooled
    BY <1>1, <1>2, WayFrame
  <2>2. CurRemote' = CurRemote
    BY <1>2 DEF CurRemote, curId
  <2> QED
    BY <1>2, <2>1, <2>2 DEF SubmittedIsSpooled
<1>3. ASSUME UNCHANGED <<spool, queue>>, wpc' # "log_submitted", cur' = cur \/ cur' = None PROVE P
  <2>1. RemoteIds(queue)' = RemoteIds(queue)
    BY <1>3 DEF RemoteIds
  <2>2. OnTheWay' \subseteq OnTheWay /\ RemoteSpooled' = RemoteSpooled
    BY <1>1, <1>3, <2>1, WayFrame
  <2> QED
    BY <1>3, <2>2 DEF SubmittedIsSpooled
<1>4. UNCHANGED queue => RemoteIds(queue)' = RemoteIds(queue)
  BY DEF RemoteIds
<1> HIDE DEF P
<1>5. ASSUME Submissions PROVE P
  <2>1. ASSUME NEW c \in Clients, NEW job \in Inputs, ClientPrint(c, job) PROVE P
    <3>1. RemoteIds(queue)' \subseteq RemoteIds(queue)
      BY <1>1, <2>1, AcceptJobRemote, AgentAssumption DEF ClientPrint
    <3> QED
      BY <1>2, <2>1, <3>1 DEF ClientPrint
  <2>2. ASSUME NEW c \in Clients, NEW b \in BatchIds, NEW jobs \in ClientBatches,
               ClientPrintBatch(c, b, jobs)
        PROVE  P
    <3>1. RemoteIds(queue)' \subseteq RemoteIds(queue)
      BY <1>1, <2>2, AcceptBatchRemote, BatchType DEF ClientPrintBatch
    <3> QED
      BY <1>2, <2>2, <3>1 DEF ClientPrintBatch
  <2>3. ASSUME NEW c \in Clients, NotifyOne(c) PROVE P
    BY <1>2, <1>4, <2>3 DEF NotifyOne
  <2> QED
    BY <1>5, <2>1, <2>2, <2>3 DEF Submissions
<1>6. ASSUME WorkerLoop PROVE P
  <2>1. CASE WorkerPop /\ queue.pending # <<>>
    <3>1. /\ queue' = pop_next(queue) /\ cur' = Head(queue.pending)
          /\ UNCHANGED spool /\ wpc' = "begin"
      BY <2>1 DEF WorkerPop
    <3>2. /\ RemoteIds(queue)' \subseteq RemoteIds(queue)
          /\ cur'.remote => curId' \in RemoteIds(queue)
      BY <1>1, <2>1, <3>1, PopRemote DEF curId
    <3>3. CurRemote' \subseteq RemoteIds(queue) /\ RemoteSpooled' = RemoteSpooled
      BY <3>1, <3>2 DEF CurRemote, RemoteSpooled
    <3> QED
      BY <1>1, <3>1, <3>2, <3>3 DEF P, OnTheWay, SubmittedIsSpooled
  <2>2. CASE \/ WorkerCheck \/ WorkerSelect \/ WorkerWake \/ WorkerCancelled
             \/ WorkerPop /\ queue.pending = <<>>
    BY <1>3, <2>2 DEF WorkerCheck, WorkerPop, WorkerSelect, WorkerWake, WorkerCancelled
  <2> QED
    BY <1>6, <2>1, <2>2 DEF WorkerLoop, WorkerPop
<1>7. ASSUME ProcessJob PROVE P
  <2>1. CASE Submit
    <3>1. cur # None /\ UNCHANGED <<cur, queue>>
      BY <2>1 DEF Submit, JobStep, TypeOK, Busy, NoLog
    <3>2. CASE UNCHANGED spool /\ wpc' = "clean_err"
      BY <1>3, <3>1, <3>2
    <3>3. CASE spool' = Append(spool, SpoolEntry)
      <4>1. RemoteSpooled' = RemoteSpooled \cup CurRemote
        BY <3>1, <3>3, SpoolRemote
      <4>2. CurRemote' = CurRemote
        BY <3>1 DEF CurRemote, curId
      <4> QED
        BY <1>1, <1>4, <3>1, <4>1, <4>2 DEF P, OnTheWay, SubmittedIsSpooled
    <3> QED
      BY <2>1, <3>2, <3>3 DEF Submit
  <2>2. CASE LogQueued \/ StartHtml \/ StartRaw \/ StartFile
    BY <1>3, <2>2 DEF LogQueued, StartHtml, StartRaw, StartFile, JobStep
  <2>3. CASE RenderHtml \/ Download \/ PreparePdf \/ LogPrinting \/ AcquirePrintLock
    BY <1>3, <2>3 DEF RenderHtml, Download, PreparePdf, LogPrinting, AcquirePrintLock, JobStep
  <2>4. CASE LogSubmitted \/ Track \/ Cleanup \/ LogFailed
    BY <1>3, <2>4 DEF LogSubmitted, Track, Cleanup, LogFailed, JobStep
  <2> QED
    BY <1>7, <2>1, <2>2, <2>3, <2>4 DEF ProcessJob
<1>8. ASSUME TestPrints PROVE P
  BY <1>2, <1>4, <1>8 DEF TestPrints, TestPrint, TestAcquire, TestRelease, TesterStep
<1>9. ASSUME Shutdown PROVE P
  BY <1>2, <1>4, <1>9 DEF Shutdown
<1>10. ASSUME LogFailed PROVE CurRemote \cap OnTheWay' = {}
  <2>1. UNCHANGED <<queue, spool>> /\ cur' = None /\ wpc = "fail" /\ cur # None
    BY <1>10 DEF LogFailed, JobStep, TypeOK, Busy
  <2>2. OnTheWay' = RemoteSpooled \cup IdsOf(fresh) \cup RemoteIds(queue)
    BY <1>1, <1>4, <2>1 DEF OnTheWay, CurRemote, RemoteSpooled
  <2>3. RemoteIds(queue) \subseteq PendingIds(queue)
    BY DEF RemoteIds, PendingIds
  <2>4. curId \notin RemoteIds(queue)
    BY <2>1, <2>3 DEF LedgerInv
  <2>5. cur.remote => curId \notin RemoteSpooled \cup IdsOf(fresh)
    BY <2>1 DEF RemoteInv
  <2> QED
    BY <2>2, <2>4, <2>5 DEF CurRemote
<1> QED
  BY <1>5, <1>6, <1>7, <1>8, <1>9, <1>10 DEF LocalNext, P

\* The remote worker brings onto the way only jobs the store did not know.
LEMMA RemoteWay ==
    ASSUME TypeOK, TasksOK,
           \/ Poll \/ Report \/ RemoteTaskLoop \/ RetryDue \/ RemoteRestart \/ UNCHANGED allVars
           \/ \E cfg \in Configs : RemoteSaveConfig(cfg)
    PROVE  /\ OnTheWay' \cap store.jobs \subseteq OnTheWay
           /\ store.jobs \subseteq store'.jobs
           /\ RemoteSpooled' = RemoteSpooled
           /\ SubmittedIsSpooled => SubmittedIsSpooled'
<1> USE DEF lockVars, lifeVars
<1>1. queue \in QueueType /\ fresh \in Seq(PrintJobInput) /\ store \in StoreType
  BY DEF TypeOK, TasksOK
<1>2. /\ UNCHANGED fresh => IdsOf(fresh)' = IdsOf(fresh)
      /\ fresh' = <<>> => IdsOf(fresh)' = {}
      /\ UNCHANGED queue => RemoteIds(queue)' = RemoteIds(queue)
      /\ UNCHANGED spool => RemoteSpooled' = RemoteSpooled
      /\ UNCHANGED cur => CurRemote' = CurRemote
  <2>1. fresh' = <<>> => IdsOf(fresh)' = {}
    BY DEF IdsOf
  <2>2. UNCHANGED spool => RemoteSpooled' = RemoteSpooled
    BY DEF RemoteSpooled
  <2>3. UNCHANGED cur => CurRemote' = CurRemote
    BY DEF CurRemote, curId
  <2> QED
    BY <2>1, <2>2, <2>3
<1>3. ASSUME UNCHANGED <<wpc, cur, spool>>, store.jobs \subseteq store'.jobs,
             IdsOf(fresh)' \cap store.jobs \subseteq IdsOf(fresh),
             RemoteIds(queue)' \subseteq RemoteIds(queue) \cup IdsOf(fresh)
      PROVE  /\ OnTheWay' \cap store.jobs \subseteq OnTheWay
             /\ store.jobs \subseteq store'.jobs
             /\ RemoteSpooled' = RemoteSpooled
             /\ SubmittedIsSpooled => SubmittedIsSpooled'
  BY <1>2, <1>3 DEF OnTheWay, SubmittedIsSpooled
<1>4. CASE RecordJob
  <2>1. UNCHANGED <<queue, wpc, cur, spool>>
    BY <1>4 DEF RecordJob, RemoteStep, NoQueue
  <2>2. store.jobs \subseteq store'.jobs
    BY <1>1, <1>4 DEF RecordJob, record_job_if_new, StoreType
  <2>3. IdsOf(fresh)' \cap store.jobs \subseteq IdsOf(fresh)
    <3> DEFINE job == Head(Head(tasks).jobs)
    <3>1. CASE fresh' \in {fresh, <<>>}
      BY <1>2, <3>1
    <3>2. CASE IsNewJob(store, job.job_id) /\ fresh' = Append(fresh, job)
      <4>1. tasks # <<>> /\ Head(tasks).jobs # <<>>
        BY <1>4 DEF RecordJob
      <4>2. Head(tasks) \in Task
        BY <4>1, HeadAndTail DEF TasksOK
      <4>3. job \in PrintJobInput
        BY <4>1, <4>2, HeadAndTail DEF Task
      <4> HIDE DEF job
      <4>4. \A i \in DOMAIN fresh' :
              fresh'[i] = job \/ (i \in DOMAIN fresh /\ fresh'[i] = fresh[i])
        BY <1>1, <3>2, <4>3
      <4>5. IdsOf(fresh)' \subseteq IdsOf(fresh) \cup {job.job_id}
        BY <4>4 DEF IdsOf
      <4> QED
        BY <3>2, <4>5 DEF IsNewJob
    <3> QED
      BY <1>4, <3>1, <3>2 DEF RecordJob, AbortPoll
  <2> QED
    BY <1>2, <1>3, <2>1, <2>2, <2>3
<1>5. CASE AcceptTask
  <2>1. UNCHANGED <<wpc, cur, spool, store>>
    BY <1>5, AcceptTaskQueue
  <2>2. CASE UNCHANGED queue /\ fresh' \in {fresh, <<>>}
    BY <1>2, <1>3, <2>1, <2>2
  <2>3. ASSUME fresh' = <<>>, NEW job \in PrintJobInput, job.job_id \in IdsOf(fresh),
               queue' = accept_queued_job(queue, job, TRUE)
        PROVE  RemoteIds(queue)' \subseteq RemoteIds(queue) \cup IdsOf(fresh)
    <3>1. RemoteIds(queue)' \subseteq RemoteIds(queue) \cup {job.job_id}
      BY <1>1, <2>3, AcceptJobRemote
    <3> QED
      BY <2>3, <3>1
  <2>4. ASSUME fresh' = <<>>, NEW b \in BatchIds, queue' = accept_batch(queue, b, fresh, TRUE)
        PROVE  RemoteIds(queue)' \subseteq RemoteIds(queue) \cup IdsOf(fresh)
    BY <1>1, <2>4, AcceptBatchRemote
  <2> QED
    BY <1>2, <1>3, <1>5, <2>1, <2>2, <2>3, <2>4, AcceptTaskQueue
<1>6. CASE RemoteRestart
  <2>1. /\ UNCHANGED <<spool, store>> /\ cur' = None /\ wpc' = "check"
        /\ queue' = EmptyQueue /\ fresh' = <<>>
    BY <1>6 DEF RemoteRestart, Restart
  <2>2. RemoteIds(queue)' = {} /\ CurRemote' = {}
    BY <2>1 DEF RemoteIds, EmptyQueue, CurRemote
  <2> QED
    BY <1>2, <2>1, <2>2 DEF OnTheWay, SubmittedIsSpooled
<1>7. ASSUME UNCHANGED <<queue, wpc, cur, spool, fresh>>, store'.jobs = store.jobs
      PROVE  /\ OnTheWay' \cap store.jobs \subseteq OnTheWay
             /\ store.jobs \subseteq store'.jobs
             /\ RemoteSpooled' = RemoteSpooled
             /\ SubmittedIsSpooled => SubmittedIsSpooled'
  BY <1>2, <1>3, <1>7
<1>8. CASE /\ \/ \E answer \in Answers : FetchTasks(answer)
              \/ FetchFailed \/ PollDone \/ Report \/ RemoteTaskLoop \/ RetryDue
           /\ ~RecordJob
  <2>1. UNCHANGED fresh
    BY <1>8 DEF FetchTasks, FetchFailed, PollDone, Report, ReportBegin, PostReport, MarkReport,
         ReportDone, RemoteTaskLoop, RemoteCheck, RemoteLoop, RemoteDecide, RemoteAwake,
         RemoteCancelled, RetryDue, rvars
  <2> QED
    BY <1>7, <1>8, <2>1, RemoteOnly
<1>9. CASE RemoteNotify
  BY <1>7, <1>9 DEF RemoteNotify, NotifyOne
<1>10. CASE \E cfg \in Configs : RemoteSaveConfig(cfg)
  BY <1>7, <1>10 DEF RemoteSaveConfig, SaveConfig
<1>11. CASE UNCHANGED allVars
  BY <1>7, <1>11 DEF allVars, vars, rvars
<1> QED
  BY <1>4, <1>5, <1>6, <1>8, <1>9, <1>10, <1>11 DEF Poll

\* Every step of the composition preserves VerdictInv.
LEMMA VerdictStep ==
    /\ TypeOK /\ TasksOK /\ TasksOK' /\ LedgerInv /\ RemoteInv /\ ReportInv /\ VerdictInv
    /\ [RemoteNext]_allVars
    => VerdictInv'
<1> SUFFICES ASSUME TypeOK, TasksOK, TasksOK', LedgerInv, RemoteInv, ReportInv, VerdictInv,
                    [RemoteNext]_allVars
             PROVE  VerdictInv'
  OBVIOUS
<1>1. Grown(store, store')
  <2>1. WorkerOK'
    BY RemoteTypeIs, WorkerStep DEF ReportInv
  <2>2. CASE MarkReport
    BY <2>1, <2>2, MarkReportStep
  <2> QED
    BY <2>2, EventsStep
<1>2. \A i \in DOMAIN store.events :
        i \in DOMAIN store'.events /\ EventReport(store, i)' = EventReport(store, i)
  BY <1>1 DEF Grown, EventReport
<1>3. (\A r \in received : \E i \in DOMAIN store.events : r = EventReport(store, i))'
  <2>1. ASSUME NEW r \in received'
        PROVE  r \in received \/ \E i \in DOMAIN store.events : r = EventReport(store, i)
    <3>1. CASE received' = received
      BY <2>1, <3>1
    <3>2. CASE PostReport
      <4>1. outbox \subseteq DOMAIN store.events
        BY RemoteTypeIs DEF ReportInv
      <4> QED
        BY <2>1, <3>2, <4>1 DEF PostReport, EventReport
    <3>3. CASE ~PostReport
      BY <3>1, <3>3 DEF RemoteNext, Poll, FetchTasks, FetchFailed, RecordJob, AcceptTask,
         AbortPoll, RemoteNotify, PollDone, Report, ReportBegin, MarkReport, ReportDone,
         RemoteTaskLoop, RemoteCheck, RemoteLoop, RemoteDecide, RemoteAwake, RemoteCancelled,
         RetryDue, RemoteSaveConfig, RemoteRestart, allVars, rvars
    <3> QED
      BY <3>2, <3>3
  <2>2. ASSUME NEW r \in received' PROVE \E i \in DOMAIN store.events : r = EventReport(store, i)
    BY <2>1, <2>2 DEF VerdictInv
  <2> QED
    BY <1>2, <2>2
<1>4. ASSUME DOMAIN store'.events = DOMAIN store.events
      PROVE  FailedIds' = FailedIds /\ PrintedIds' = PrintedIds
  BY <1>1, <1>4 DEF Grown, FailedIds, PrintedIds
<1>5. CASE LocalNext /\ UNCHANGED rvars
  <2>1. /\ OnTheWay' \subseteq OnTheWay
        /\ RemoteSpooled \subseteq RemoteSpooled'
        /\ SubmittedIsSpooled => SubmittedIsSpooled'
        /\ LogFailed => CurRemote \cap OnTheWay' = {}
    BY <1>5, LocalWay
  <2>2. Next
    BY <1>5 DEF LocalNext, Next
  <2>3. /\ store'.jobs = store.jobs
        /\ \A i \in DOMAIN store'.events \ DOMAIN store.events :
             /\ cur # None /\ cur.remote
             /\ store'.events[i].job_id = curId
             /\ store'.events[i].status = "success" => wpc = "log_submitted"
             /\ store'.events[i].status = "failed" => LogFailed
    BY <2>2, LocalEvents
  <2>4. ASSUME NEW j \in FailedIds' PROVE j \in FailedIds \/ (LogFailed /\ j \in CurRemote)
    <3>1. PICK i \in DOMAIN store'.events :
            store'.events[i].status = "failed" /\ j = store'.events[i].job_id
      BY <2>4 DEF FailedIds
    <3>2. CASE i \in DOMAIN store.events
      BY <1>1, <3>1, <3>2 DEF Grown, FailedIds
    <3>3. CASE i \notin DOMAIN store.events
      BY <2>3, <3>1, <3>3 DEF CurRemote
    <3> QED
      BY <3>2, <3>3
  <2>5. ASSUME NEW j \in PrintedIds'
        PROVE  j \in PrintedIds \/ (wpc = "log_submitted" /\ j \in CurRemote)
    <3>1. PICK i \in DOMAIN store'.events :
            store'.events[i].status = "success" /\ j = store'.events[i].job_id
      BY <2>5 DEF PrintedIds
    <3>2. CASE i \in DOMAIN store.events
      BY <1>1, <3>1, <3>2 DEF Grown, PrintedIds
    <3>3. CASE i \notin DOMAIN store.events
      BY <2>3, <3>1, <3>3 DEF CurRemote
    <3> QED
      BY <3>2, <3>3
  <2>6. CurRemote \subseteq store.jobs
    BY DEF CurRemote, RemoteInv
  <2>7. FailedIds' \subseteq store'.jobs /\ FailedIds' \cap OnTheWay' = {}
    BY <2>1, <2>3, <2>4, <2>6 DEF VerdictInv
  <2>8. PrintedIds' \subseteq RemoteSpooled'
    BY <2>1, <2>5 DEF VerdictInv, SubmittedIsSpooled
  <2>9. SubmittedIsSpooled'
    BY <2>1 DEF VerdictInv
  <2> QED
    BY <1>3, <2>7, <2>8, <2>9 DEF VerdictInv
<1>6. CASE ~(LocalNext /\ UNCHANGED rvars)
  <2>1. FailedIds' = FailedIds /\ PrintedIds' = PrintedIds
    BY <1>4, <1>6, EventsStep
  <2>2. /\ OnTheWay' \cap store.jobs \subseteq OnTheWay
        /\ store.jobs \subseteq store'.jobs
        /\ RemoteSpooled' = RemoteSpooled
        /\ SubmittedIsSpooled => SubmittedIsSpooled'
    BY <1>6, RemoteWay DEF RemoteNext
  <2>3. FailedIds' \subseteq store'.jobs /\ FailedIds' \cap OnTheWay' = {}
    BY <2>1, <2>2 DEF VerdictInv
  <2>4. PrintedIds' \subseteq RemoteSpooled' /\ SubmittedIsSpooled'
    BY <2>1, <2>2 DEF VerdictInv
  <2> QED
    BY <1>3, <2>3, <2>4 DEF VerdictInv
<1> QED
  BY <1>5, <1>6

\* The service learns success only of jobs that reached the printer and failed only
\* of jobs that did not and never will, through any number of crashes, repeated
\* tasks, lost answers and late tracking outcomes.
THEOREM VerdictsAreTruthful == RemoteSpec => []VerdictTruthful
<1>1. Init /\ RemoteInit => RemoteInv
  BY DEF Init, RemoteInit, RemoteInv, RemoteIds, RemoteSpooled, RemoteAtMostOnce, IdsOf,
     EmptyQueue, EmptyStore
<1>2. Init /\ RemoteInit => VerdictInv
  <2> SUFFICES ASSUME Init, RemoteInit PROVE VerdictInv
    OBVIOUS
  <2>1. DOMAIN store.events = {} /\ received = {} /\ wpc = "check"
    BY DEF Init, RemoteInit, EmptyStore
  <2>2. FailedIds = {} /\ PrintedIds = {} /\ SubmittedIsSpooled
    BY <2>1 DEF FailedIds, PrintedIds, SubmittedIsSpooled
  <2> QED
    BY <2>1, <2>2 DEF VerdictInv
<1>3. VerdictInv => VerdictTruthful
  <2> SUFFICES ASSUME VerdictInv, NEW j \in JobIds
               PROVE  /\ <<j, "success">> \in Reports => PrintedRemotely(j)
                      /\ <<j, "failed">> \in Reports => ~PrintedRemotely(j)
    BY DEF VerdictTruthful
  <2>1. ASSUME NEW r \in Reports PROVE \E i \in DOMAIN store.events : r = EventReport(store, i)
    BY DEF Reports, VerdictInv, EventReport
  <2>2. <<j, "success">> \in Reports => j \in PrintedIds
    BY <2>1 DEF EventReport, PrintedIds
  <2>3. <<j, "failed">> \in Reports => j \in FailedIds
    BY <2>1 DEF EventReport, FailedIds
  <2>4. PrintedRemotely(j) <=> j \in RemoteSpooled
    BY DEF PrintedRemotely, RemoteSpooled
  <2>5. PrintedIds \subseteq RemoteSpooled /\ FailedIds \cap RemoteSpooled = {}
    BY DEF VerdictInv, OnTheWay
  <2> QED
    BY <2>2, <2>3, <2>4, <2>5
<1> QED
  BY <1>1, <1>2, <1>3, ComposedInv, ReportsOK, RemoteInvStep, VerdictStep, PTL DEF RemoteSpec
==============================================================================
