------------------------- MODULE PrintAgent_proofs --------------------------
(***************************************************************************)
(* Proofs about PrintAgent, for every set of clients, jobs, configurations *)
(* and calibration prints.                                                 *)
(***************************************************************************)
EXTENDS PrintAgent, QueueState_proofs

-----------------------------------------------------------------------------
(* The outbox, and what a process starts with.                              *)

\* insert_status_event yields a store.
LEMMA InsertEventType ==
    ASSUME NEW s \in StoreType, NEW j \in JobIds, NEW st \in ReportStatuses
    PROVE  insert_status_event(s, j, st) \in StoreType
<1> DEFINE event == [job_id |-> j, status |-> st, delivery_state |-> "pending",
                     retry_count |-> 0, due |-> TRUE]
<1>1. event \in StatusEvent
  BY DEF StatusEvent, DeliveryStates
<1>2. Append(s.events, event) \in Seq(StatusEvent)
  BY <1>1 DEF StoreType
<1> QED
  BY <1>2 DEF StoreType, insert_status_event

\* A batch a client may send is a sequence of inputs.
LEMMA BatchType ==
    ASSUME NEW jobs \in ClientBatches
    PROVE  jobs \in Seq(PrintJobInput)
BY AgentAssumption DEF ClientBatches

\* What a new process starts with is well typed.
LEMMA FreshType ==
    /\ EmptyQueue \in QueueType
    /\ EmptyStore \in StoreType
    /\ [j \in JobIds |-> <<>>] \in [JobIds -> Seq(Statuses)]
    /\ [t \in Testers |-> "idle"] \in [Testers -> {"idle", "lock", "print"}]
<1>1. <<>> \in Seq(QueuedJob) /\ <<>> \in Seq(StatusEvent) /\ <<>> \in Seq(Statuses)
  OBVIOUS
<1> QED
  BY <1>1 DEF EmptyQueue, QueueType, EmptyStore, StoreType

\* push_log keeps the history and the store well typed.
LEMMA PushLogType ==
    ASSUME TypeOK, cur # None, NEW status \in Statuses, NEW remote \in BOOLEAN,
           push_log(status, remote)
    PROVE  history' \in [JobIds -> Seq(Statuses)] /\ store' \in StoreType
<1>1. curId \in JobIds
  BY DEF TypeOK, QueuedJob, PrintJobInput, curId
<1>2. history' \in [JobIds -> Seq(Statuses)]
  BY <1>1 DEF TypeOK, push_log
<1>3. remote_status_for_job_status(status) \in ReportStatuses \cup {None}
  BY DEF remote_status_for_job_status, ReportStatuses
<1>4. store' \in StoreType
  BY <1>1, <1>3, InsertEventType DEF TypeOK, push_log
<1> QED
  BY <1>2, <1>4

-----------------------------------------------------------------------------
(* Types.                                                                   *)

\* Every step of the agent preserves TypeOK.
LEMMA TypeStep == TypeOK /\ [Next]_vars => TypeOK'
<1> SUFFICES ASSUME TypeOK, [Next]_vars PROVE TypeOK'
  OBVIOUS
<1> USE DEF lockVars, lifeVars
<1>1. ASSUME NEW c \in Clients, NEW job \in Inputs, ClientPrint(c, job) PROVE TypeOK'
  <2>1. queue' \in QueueType
    BY <1>1, AcceptJobType, AgentAssumption DEF TypeOK, ClientPrint
  <2> QED
    BY <1>1, <2>1 DEF TypeOK, ClientPrint, Busy
<1>2. ASSUME NEW c \in Clients, NEW b \in BatchIds, NEW jobs \in ClientBatches,
             ClientPrintBatch(c, b, jobs)
      PROVE  TypeOK'
  <2>1. queue' \in QueueType
    BY <1>2, AcceptBatchType, BatchType DEF TypeOK, ClientPrintBatch
  <2> QED
    BY <1>2, <2>1 DEF TypeOK, ClientPrintBatch, Busy
<1>3. ASSUME NEW c \in Clients, NotifyOne(c) PROVE TypeOK'
  BY <1>3 DEF TypeOK, NotifyOne, Busy
<1>4. ASSUME WorkerLoop PROVE TypeOK'
  <2>1. CASE WorkerCheck
    BY <2>1 DEF TypeOK, WorkerCheck, Busy, WorkerPcs
  <2>2. CASE WorkerPop
    <3>1. CASE queue.pending # <<>>
      <4>1. queue' \in QueueType /\ cur' \in QueuedJob /\ wpc' = "begin"
        BY <2>2, <3>1, PopType DEF TypeOK, WorkerPop
      <4> QED
        BY <2>2, <4>1, AgentAssumption DEF TypeOK, WorkerPop, Busy, WorkerPcs
    <3>2. CASE queue.pending = <<>>
      BY <2>2, <3>2 DEF TypeOK, WorkerPop, Busy, WorkerPcs
    <3> QED
      BY <3>1, <3>2
  <2>3. CASE WorkerSelect
    BY <2>3 DEF TypeOK, WorkerSelect, Busy, WorkerPcs
  <2>4. CASE WorkerWake
    BY <2>4 DEF TypeOK, WorkerWake, Busy, WorkerPcs
  <2>5. CASE WorkerCancelled
    BY <2>5 DEF TypeOK, WorkerCancelled, Busy, WorkerPcs
  <2> QED
    BY <1>4, <2>1, <2>2, <2>3, <2>4, <2>5 DEF WorkerLoop
<1>5. ASSUME ProcessJob PROVE TypeOK'
  <2>1. Busy /\ cur \in QueuedJob /\ cur # None
    BY <1>5 DEF TypeOK, Busy, ProcessJob, LogQueued, StartHtml, StartRaw, StartFile,
         RenderHtml, Download, PreparePdf, LogPrinting, AcquirePrintLock, Submit,
         LogSubmitted, Track, Cleanup, LogFailed, JobStep
  <2>2. curId \in JobIds
    BY <2>1 DEF QueuedJob, PrintJobInput, curId
  <2>3. TempFile("output") \in TempFiles /\ TempFile("download") \in TempFiles
    BY <2>2 DEF TempFile, TempFiles
  <2> USE DEF TypeOK, JobStep, Busy, WorkerPcs, Statuses
  <2>4. CASE LogQueued
    BY <2>1, <2>4, PushLogType DEF LogQueued
  <2>5. CASE StartHtml
    BY <2>1, <2>5 DEF StartHtml, NoLog
  <2>6. CASE StartRaw
    BY <2>1, <2>6, PushLogType DEF StartRaw, NoLog
  <2>7. CASE StartFile
    BY <2>1, <2>7, PushLogType DEF StartFile
  <2>8. CASE RenderHtml
    BY <2>1, <2>3, <2>8, PushLogType DEF RenderHtml, NoLog
  <2>9. CASE Download
    BY <2>1, <2>3, <2>9 DEF Download, NoLog
  <2>10. CASE PreparePdf
    BY <2>1, <2>3, <2>10, PushLogType DEF PreparePdf, NoLog
  <2>11. CASE LogPrinting
    BY <2>1, <2>11, PushLogType DEF LogPrinting
  <2>12. CASE AcquirePrintLock
    BY <2>1, <2>12 DEF AcquirePrintLock, NoLog
  <2>13. CASE Submit
    <3>1. SpoolEntry \in SpoolEntries
      BY <2>1, <2>2 DEF SpoolEntry, SpoolEntries, QueuedJob
    <3>2. spool' \in Seq(SpoolEntries)
      BY <2>13, <3>1 DEF Submit
    <3> QED
      BY <2>1, <2>13, <3>2 DEF Submit, NoLog
  <2>14. CASE LogSubmitted
    BY <2>1, <2>14, PushLogType DEF LogSubmitted
  <2>15. CASE Track
    BY <2>1, <2>15, PushLogType DEF Track
  <2>16. CASE Cleanup
    BY <2>1, <2>16 DEF Cleanup, NoLog
  <2>17. CASE LogFailed
    BY <2>1, <2>17, PushLogType DEF LogFailed
  <2> QED
    BY <1>5, <2>4, <2>5, <2>6, <2>7, <2>8, <2>9, <2>10, <2>11, <2>12, <2>13, <2>14,
       <2>15, <2>16, <2>17 DEF ProcessJob
<1>6. ASSUME NEW t \in Testers, TestPrint(t) \/ TestAcquire(t) \/ TestRelease(t)
      PROVE  TypeOK'
  BY <1>6 DEF TypeOK, TestPrint, TestAcquire, TestRelease, TesterStep, Busy
<1>7. ASSUME NEW cfg \in Configs, SaveConfig(cfg) PROVE TypeOK'
  BY <1>7 DEF TypeOK, SaveConfig, Busy
<1>8. ASSUME Shutdown PROVE TypeOK'
  BY <1>8 DEF TypeOK, Shutdown, Busy
<1>9. ASSUME Restart PROVE TypeOK'
  <2>1. run' \in 1..MaxRuns
    BY <1>9, AgentAssumption DEF TypeOK, Restart
  <2> QED
    BY <1>9, <2>1, FreshType DEF TypeOK, Restart, Busy, WorkerPcs
<1>10. ASSUME UNCHANGED vars PROVE TypeOK'
  BY <1>10 DEF TypeOK, vars, Busy
<1> QED
  BY <1>1, <1>2, <1>3, <1>4, <1>5, <1>6, <1>7, <1>8, <1>9, <1>10
     DEF Next, Submissions, TestPrints

\* The initial states are well typed.
LEMMA InitType == Init => TypeOK
<1>1. 1 \in 1..MaxRuns
  BY AgentAssumption
<1>2. <<>> \in Seq(SpoolEntries)
  OBVIOUS
<1> QED
  BY <1>1, <1>2, FreshType DEF Init, TypeOK, Busy, WorkerPcs

\* Every variable of the agent always holds a value of its type: whatever the
\* clients, the worker, the calibration prints, crashes and restarts do.
THEOREM TypeCorrect == Spec => []TypeOK
BY InitType, TypeStep, PTL DEF Spec

-----------------------------------------------------------------------------
(* Wake-ups.                                                                *)

\* NoLostWakeup is inductive by itself: whoever fills the queue is in
\* `notifying` until it has stored the permit, and only the worker, on leaving
\* "wait", takes the permit.
LEMMA WakeupStep == NoLostWakeup /\ [Next]_vars => NoLostWakeup'
<1> SUFFICES ASSUME NoLostWakeup, [Next]_vars PROVE NoLostWakeup'
  OBVIOUS
<1> USE DEF NoLostWakeup, lockVars, lifeVars
<1>1. ASSUME Submissions PROVE NoLostWakeup'
  BY <1>1 DEF Submissions, ClientPrint, ClientPrintBatch, NotifyOne
<1>2. ASSUME WorkerLoop PROVE NoLostWakeup'
  BY <1>2 DEF WorkerLoop, WorkerCheck, WorkerPop, WorkerSelect, WorkerWake, WorkerCancelled
<1>3. ASSUME ProcessJob PROVE NoLostWakeup'
  <2>1. wpc' \notin {"idle", "wait"}
    BY <1>3 DEF ProcessJob, LogQueued, StartHtml, StartRaw, StartFile,
         RenderHtml, Download, PreparePdf, LogPrinting, AcquirePrintLock, Submit,
         LogSubmitted, Track, Cleanup, LogFailed
  <2> QED
    BY <2>1
<1>4. ASSUME TestPrints PROVE NoLostWakeup'
  BY <1>4 DEF TestPrints, TestPrint, TestAcquire, TestRelease, TesterStep
<1>5. ASSUME NEW cfg \in Configs, SaveConfig(cfg) PROVE NoLostWakeup'
  BY <1>5 DEF SaveConfig
<1>6. ASSUME Shutdown PROVE NoLostWakeup'
  BY <1>6 DEF Shutdown
<1>7. ASSUME Restart PROVE NoLostWakeup'
  BY <1>7 DEF Restart
<1>8. ASSUME UNCHANGED vars PROVE NoLostWakeup'
  BY <1>8 DEF vars
<1> QED
  BY <1>1, <1>2, <1>3, <1>4, <1>5, <1>6, <1>7, <1>8 DEF Next

\* However many handlers accept jobs, a waiting worker is woken for them.
THEOREM WakeupNeverLost == Spec => []NoLostWakeup
<1>1. Init => NoLostWakeup
  BY DEF Init, NoLostWakeup
<1> QED
  BY <1>1, WakeupStep, PTL DEF Spec

-----------------------------------------------------------------------------
(* The print lock.                                                          *)

\* The lock is held exactly by the task that is inside the backend.
LockInv ==
    /\ printLock = "worker" <=> wpc = "submit"
    /\ \A t \in Testers : tpc[t] = "print" <=> printLock = t

\* Every step of the agent keeps the lock with the task inside the backend.
LEMMA LockStep == TypeOK /\ LockInv /\ [Next]_vars => LockInv'
<1> SUFFICES ASSUME TypeOK, LockInv, [Next]_vars PROVE LockInv'
  OBVIOUS
<1> USE AgentAssumption DEF TypeOK, LockInv, lockVars, lifeVars
<1>1. ASSUME Submissions PROVE LockInv'
  BY <1>1 DEF Submissions, ClientPrint, ClientPrintBatch, NotifyOne
<1>2. ASSUME WorkerLoop PROVE LockInv'
  BY <1>2 DEF WorkerLoop, WorkerCheck, WorkerPop, WorkerSelect, WorkerWake, WorkerCancelled
<1>3. ASSUME ProcessJob PROVE LockInv'
  <2>1. CASE AcquirePrintLock
    BY <2>1 DEF AcquirePrintLock, JobStep
  <2>2. CASE Submit
    BY <2>2 DEF Submit, JobStep
  <2>3. CASE LogQueued \/ StartHtml \/ StartRaw \/ StartFile
    BY <2>3 DEF LogQueued, StartHtml, StartRaw, StartFile, JobStep
  <2>4. CASE RenderHtml \/ Download \/ PreparePdf \/ LogPrinting
    BY <2>4 DEF RenderHtml, Download, PreparePdf, LogPrinting, JobStep
  <2>5. CASE LogSubmitted \/ Track \/ Cleanup \/ LogFailed
    BY <2>5 DEF LogSubmitted, Track, Cleanup, LogFailed, JobStep
  <2> QED
    BY <1>3, <2>1, <2>2, <2>3, <2>4, <2>5 DEF ProcessJob
<1>4. ASSUME TestPrints PROVE LockInv'
  BY <1>4 DEF TestPrints, TestPrint, TestAcquire, TestRelease, TesterStep
<1>5. ASSUME NEW cfg \in Configs, SaveConfig(cfg) PROVE LockInv'
  BY <1>5 DEF SaveConfig
<1>6. ASSUME Shutdown PROVE LockInv'
  BY <1>6 DEF Shutdown
<1>7. ASSUME Restart PROVE LockInv'
  BY <1>7 DEF Restart
<1>8. ASSUME UNCHANGED vars PROVE LockInv'
  BY <1>8 DEF vars
<1> QED
  BY <1>1, <1>2, <1>3, <1>4, <1>5, <1>6, <1>7, <1>8 DEF Next

\* The queue worker and the calibration prints are never inside the printing
\* backend together, for any number of calibration prints.
THEOREM PrintingExclusive == Spec => []PrintExclusive
<1>1. Init => LockInv
  BY AgentAssumption DEF Init, LockInv
<1>2. TypeOK /\ LockInv => PrintExclusive
  BY AgentAssumption DEF TypeOK, LockInv, PrintExclusive
<1> QED
  BY <1>1, <1>2, TypeCorrect, LockStep, PTL DEF Spec

-----------------------------------------------------------------------------
(* At most one print per job and process.                                   *)

\* The ids handed to the printer by the current process.
SpooledIds == {spool[i].job_id : i \in {k \in DOMAIN spool : spool[k].run = run}}

\* The strengthening of OncePerRun: an id is pending, at the worker, or printed,
\* never two of them except while the worker has just printed it; all of them
\* are seen, so no submission brings one of them back; and no entry of the spool
\* is from a later process.
LedgerInv ==
    /\ QueueOK(queue)
    /\ cur # None => curId \in queue.seen_job_ids \ PendingIds(queue)
    /\ SpooledIds \subseteq queue.seen_job_ids \ PendingIds(queue)
    /\ cur # None /\ wpc \notin {"log_submitted", "track", "clean_ok"}
            => curId \notin SpooledIds
    /\ \A i \in DOMAIN spool : spool[i].run =< run
    /\ OncePerRun

\* Steps that leave the queue, the spool and the process alone, and of the worker
\* at most finish its job or move it on, keep LedgerInv.
LEMMA LedgerFrame ==
    ASSUME LedgerInv, UNCHANGED <<queue, spool, run>>,
           \/ cur' = None
           \/ /\ cur' = cur
              /\ wpc \in {"log_submitted", "track", "clean_ok"}
                    => wpc' \in {"log_submitted", "track", "clean_ok"}
    PROVE  LedgerInv'
BY DEF LedgerInv, SpooledIds, OncePerRun, curId

\* Steps that only add new ids to the queue keep LedgerInv.
LEMMA LedgerGrows ==
    ASSUME LedgerInv, NEW ids, QueueOK(queue)', ids \cap queue.seen_job_ids = {},
           PendingIds(queue)' = PendingIds(queue) \cup ids,
           queue'.seen_job_ids = queue.seen_job_ids \cup ids,
           UNCHANGED <<cur, wpc, spool, run>>
    PROVE  LedgerInv'
<1>1. SpooledIds' = SpooledIds /\ curId' = curId /\ OncePerRun'
  BY DEF LedgerInv, SpooledIds, OncePerRun, curId
<1>2. SpooledIds \subseteq queue'.seen_job_ids \ PendingIds(queue)'
  BY DEF LedgerInv
<1>3. cur # None => curId \in queue'.seen_job_ids \ PendingIds(queue)'
  BY DEF LedgerInv
<1> QED
  BY <1>1, <1>2, <1>3 DEF LedgerInv

\* Every step of the agent preserves LedgerInv.
LEMMA LedgerStep == TypeOK /\ LedgerInv /\ [Next]_vars => LedgerInv'
<1> SUFFICES ASSUME TypeOK, LedgerInv, [Next]_vars PROVE LedgerInv'
  OBVIOUS
<1> USE DEF lockVars, lifeVars
<1>1. ASSUME NEW c \in Clients, NEW job \in Inputs, ClientPrint(c, job) PROVE LedgerInv'
  <2>1. job \in PrintJobInput /\ queue \in QueueType /\ QueueOK(queue)
    BY AgentAssumption DEF TypeOK, LedgerInv
  <2>2. /\ QueueOK(queue)'
        /\ PendingIds(queue)' = PendingIds(queue) \cup {job.job_id}
        /\ queue'.seen_job_ids = queue.seen_job_ids \cup {job.job_id}
    BY <1>1, <2>1, AcceptJobOK DEF ClientPrint
  <2>3. {job.job_id} \cap queue.seen_job_ids = {} /\ UNCHANGED <<cur, wpc, spool, run>>
    BY <1>1 DEF ClientPrint, CanAcceptJob
  <2> QED
    BY <2>2, <2>3, LedgerGrows
<1>2. ASSUME NEW c \in Clients, NEW b \in BatchIds, NEW jobs \in ClientBatches,
             ClientPrintBatch(c, b, jobs)
      PROVE  LedgerInv'
  <2>1. jobs \in Seq(PrintJobInput) /\ queue \in QueueType /\ QueueOK(queue)
    BY BatchType DEF TypeOK, LedgerInv
  <2>2. /\ QueueOK(queue)'
        /\ PendingIds(queue)' = PendingIds(queue) \cup IdsOf(jobs)
        /\ queue'.seen_job_ids = queue.seen_job_ids \cup IdsOf(jobs)
    BY <1>2, <2>1, AcceptBatchOK DEF ClientPrintBatch
  <2>3. IdsOf(jobs) \cap queue.seen_job_ids = {} /\ UNCHANGED <<cur, wpc, spool, run>>
    BY <1>2 DEF ClientPrintBatch, CanAcceptBatch, IdsOf
  <2> QED
    BY <2>2, <2>3, LedgerGrows
<1>3. ASSUME NEW c \in Clients, NotifyOne(c) PROVE LedgerInv'
  BY <1>3, LedgerFrame DEF NotifyOne
<1>4. ASSUME WorkerLoop PROVE LedgerInv'
  <2>1. CASE WorkerPop /\ queue.pending # <<>>
    <3> DEFINE id == Head(queue.pending).job.job_id
    <3>1. queue' = pop_next(queue) /\ cur' = Head(queue.pending) /\ UNCHANGED <<spool, run>>
      BY <2>1 DEF WorkerPop
    <3>2. queue \in QueueType /\ QueueOK(queue)
      BY DEF TypeOK, LedgerInv
    <3>3. /\ QueueOK(queue)'
          /\ queue'.seen_job_ids = queue.seen_job_ids
          /\ PendingIds(queue)' \subseteq PendingIds(queue)
          /\ id \in PendingIds(queue)
          /\ id \notin PendingIds(queue)'
      BY <2>1, <3>1, <3>2, PopOK
    <3>4. SpooledIds' = SpooledIds /\ curId' = id /\ OncePerRun'
      BY <3>1 DEF LedgerInv, SpooledIds, OncePerRun, curId
    <3>5. PendingIds(queue) \subseteq queue.seen_job_ids
      BY <3>2 DEF QueueOK
    <3>6. SpooledIds \subseteq queue.seen_job_ids \ PendingIds(queue)
      BY DEF LedgerInv
    <3>7. (\A i \in DOMAIN spool : spool[i].run =< run)'
      BY <3>1 DEF LedgerInv
    <3> HIDE DEF id
    <3> QED
      BY <3>3, <3>4, <3>5, <3>6, <3>7 DEF LedgerInv
  <2>2. CASE WorkerCheck \/ WorkerSelect \/ WorkerWake \/ WorkerCancelled \/ (WorkerPop /\ queue.pending = <<>>)
    BY <2>2, LedgerFrame DEF WorkerCheck, WorkerPop, WorkerSelect, WorkerWake, WorkerCancelled
  <2> QED
    BY <1>4, <2>1, <2>2 DEF WorkerLoop, WorkerPop
<1>5. ASSUME ProcessJob PROVE LedgerInv'
  <2>1. CASE Submit
    <3>1. cur # None /\ wpc = "submit" /\ UNCHANGED <<queue, cur, run>>
      BY <2>1 DEF Submit, JobStep, TypeOK, Busy
    <3>2. CASE UNCHANGED spool
      BY <3>1, <3>2, LedgerFrame
    <3>3. CASE spool' = Append(spool, SpoolEntry) /\ wpc' = "log_submitted"
      <4> DEFINE n == Len(spool)
      <4>1. spool \in Seq(SpoolEntries) /\ n \in Nat /\ DOMAIN spool = 1..n /\ run \in Nat
        BY DEF TypeOK
      <4>2. /\ DOMAIN spool' = 1..(n + 1)
            /\ \A i \in 1..n : spool'[i] = spool[i]
            /\ spool'[n + 1] = SpoolEntry
        BY <3>3, <4>1
      <4>3. SpoolEntry.run = run /\ SpoolEntry.job_id = curId /\ curId' = curId
        BY <3>1 DEF SpoolEntry, curId
      <4>4. curId \notin SpooledIds
        BY <3>1 DEF LedgerInv
      <4> HIDE DEF n
      <4>5. SpooledIds' = SpooledIds \cup {curId}
        BY <3>1, <4>1, <4>2, <4>3 DEF SpooledIds
      <4>6. (\A i \in DOMAIN spool : spool[i].run =< run)'
        BY <3>1, <4>1, <4>2, <4>3 DEF LedgerInv
      <4>7. OncePerRun'
        <5>1. \A i \in 1..n : spool[i].run = run => spool[i].job_id # curId
          BY <4>1, <4>4 DEF SpooledIds
        <5>2. \A i, k \in 1..n :
                spool[i].job_id = spool[k].job_id /\ spool[i].run = spool[k].run => i = k
          BY <4>1 DEF LedgerInv, OncePerRun
        <5>3. \A i \in 1..(n + 1) : i \in 1..n \/ i = n + 1
          BY <4>1
        <5> QED
          BY <4>2, <4>3, <5>1, <5>2, <5>3 DEF OncePerRun
      <4> QED
        BY <3>1, <3>3, <4>3, <4>5, <4>6, <4>7 DEF LedgerInv
    <3> QED
      BY <2>1, <3>2, <3>3 DEF Submit
  <2>2. CASE LogQueued \/ StartHtml \/ StartRaw \/ StartFile
    BY <2>2, LedgerFrame DEF LogQueued, StartHtml, StartRaw, StartFile, JobStep
  <2>3. CASE RenderHtml \/ Download \/ PreparePdf \/ LogPrinting \/ AcquirePrintLock
    BY <2>3, LedgerFrame DEF RenderHtml, Download, PreparePdf, LogPrinting,
         AcquirePrintLock, JobStep
  <2>4. CASE LogSubmitted \/ Track \/ Cleanup \/ LogFailed
    BY <2>4, LedgerFrame DEF LogSubmitted, Track, Cleanup, LogFailed, JobStep
  <2> QED
    BY <1>5, <2>1, <2>2, <2>3, <2>4 DEF ProcessJob
<1>6. ASSUME NEW t \in Testers, TestPrint(t) \/ TestAcquire(t) \/ TestRelease(t)
      PROVE  LedgerInv'
  BY <1>6, LedgerFrame DEF TestPrint, TestAcquire, TestRelease, TesterStep
<1>7. ASSUME NEW cfg \in Configs, SaveConfig(cfg) PROVE LedgerInv'
  BY <1>7, LedgerFrame DEF SaveConfig
<1>8. ASSUME Shutdown PROVE LedgerInv'
  BY <1>8, LedgerFrame DEF Shutdown
<1>9. ASSUME Restart PROVE LedgerInv'
  <2>1. /\ run' = run + 1 /\ run \in Nat
        /\ UNCHANGED spool
        /\ queue' = EmptyQueue
        /\ cur' = None
    BY <1>9 DEF Restart, TypeOK
  <2>2. \A i \in DOMAIN spool : spool[i].run \in Nat /\ spool[i].run =< run
    <3>1. \A e \in SpoolEntries : e.run \in Nat
      BY AgentAssumption DEF SpoolEntries
    <3>2. \A i \in DOMAIN spool : spool[i] \in SpoolEntries
      BY DEF TypeOK
    <3> QED
      BY <3>1, <3>2 DEF LedgerInv
  <2>3. SpooledIds' = {}
    BY <2>1, <2>2 DEF SpooledIds
  <2>4. QueueOK(queue)'
    BY <2>1 DEF QueueOK, EmptyQueue, PendingIds
  <2>5. OncePerRun'
    BY <2>1 DEF OncePerRun, LedgerInv
  <2>6. (\A i \in DOMAIN spool : spool[i].run =< run)'
    BY <2>1, <2>2
  <2> QED
    BY <2>1, <2>3, <2>4, <2>5, <2>6 DEF LedgerInv
<1>10. ASSUME UNCHANGED vars PROVE LedgerInv'
  BY <1>10, LedgerFrame DEF vars
<1> QED
  BY <1>1, <1>2, <1>3, <1>4, <1>5, <1>6, <1>7, <1>8, <1>9, <1>10
     DEF Next, Submissions, TestPrints

\* The initial states satisfy the invariants of the proofs.
LEMMA InitOK == Init => TypeOK /\ LedgerInv
<1> SUFFICES ASSUME Init PROVE TypeOK /\ LedgerInv
  OBVIOUS
<1>1. TypeOK
  BY InitType
<1>2. LedgerInv
  BY DEF Init, LedgerInv, QueueOK, PendingIds, EmptyQueue, SpooledIds, OncePerRun
<1> QED
  BY <1>1, <1>2

\* One process never hands the same job id to the printer twice, for any number
\* of clients repeating ids alone or in batches of any size.
THEOREM PrintedOncePerRun == Spec => []OncePerRun
<1>1. LedgerInv => OncePerRun
  BY DEF LedgerInv
<1> QED
  BY <1>1, InitOK, TypeCorrect, LedgerStep, PTL DEF Spec
=============================================================================
