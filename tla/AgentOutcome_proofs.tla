------------------------- MODULE AgentOutcome_proofs -------------------------
(***************************************************************************)
(* Proofs about what PrintAgent leaves behind: the temporary files, the    *)
(* history of every job, and the order in which jobs are taken, shown by   *)
(* the refinement of JobLedger.                                            *)
(***************************************************************************)
EXTENDS PrintAgent_proofs

-----------------------------------------------------------------------------
(* Frames.                                                                  *)

\* SpooledNow says of one id what SpooledIds says of all.
LEMMA SpooledNowIs == \A j : SpooledNow(j) <=> j \in SpooledIds
BY DEF SpooledNow, SpooledIds

\* The worker's job joins the printed ones, and nothing else does.
LEMMA SubmitSpools ==
    ASSUME TypeOK, UNCHANGED run, spool' = Append(spool, SpoolEntry)
    PROVE  SpooledIds' = SpooledIds \cup {curId}
<1> DEFINE n == Len(spool)
<1>1. spool \in Seq(SpoolEntries) /\ n \in Nat /\ DOMAIN spool = 1..n
  BY DEF TypeOK
<1>2. /\ DOMAIN spool' = 1..(n + 1)
      /\ \A i \in 1..n : spool'[i] = spool[i]
      /\ spool'[n + 1] = SpoolEntry
  BY <1>1
<1>3. SpoolEntry.run = run /\ SpoolEntry.job_id = curId
  BY DEF SpoolEntry
<1> HIDE DEF n
<1> QED
  BY <1>1, <1>2, <1>3 DEF SpooledIds

\* The steps of the worker's job leave the queue and the process alone, and the
\* job too until it ends.
LEMMA ProcessJobFrame ==
    ASSUME TypeOK, ProcessJob
    PROVE  /\ UNCHANGED <<queue, run>>
           /\ cur \in QueuedJob /\ cur # None /\ curId \in JobIds
           /\ cur' = None \/ (cur' = cur /\ curId' = curId)
           /\ Submit \/ (UNCHANGED spool /\ SpooledIds' = SpooledIds)
<1>1. Busy
  BY DEF Busy, ProcessJob, LogQueued, StartHtml, StartRaw, StartFile,
     RenderHtml, Download, PreparePdf, LogPrinting, AcquirePrintLock, Submit,
     LogSubmitted, Track, Cleanup, LogFailed, JobStep
<1>2. cur \in QueuedJob /\ cur # None
  BY <1>1 DEF TypeOK
<1>3. curId \in JobIds
  BY <1>2 DEF QueuedJob, PrintJobInput, curId
<1>4. UNCHANGED <<queue, run>>
  BY DEF ProcessJob, LogQueued, StartHtml, StartRaw, StartFile, RenderHtml, Download,
     PreparePdf, LogPrinting, AcquirePrintLock, Submit, LogSubmitted, Track, Cleanup,
     LogFailed, JobStep, lifeVars
<1>5. cur' = None \/ cur' = cur
  BY DEF ProcessJob, LogQueued, StartHtml, StartRaw, StartFile, RenderHtml, Download,
     PreparePdf, LogPrinting, AcquirePrintLock, Submit, LogSubmitted, Track, Cleanup,
     LogFailed
<1>6. Submit \/ UNCHANGED spool
  BY DEF ProcessJob, LogQueued, StartHtml, StartRaw, StartFile, RenderHtml, Download,
     PreparePdf, LogPrinting, AcquirePrintLock, LogSubmitted, Track, Cleanup, LogFailed
<1> QED
  BY <1>2, <1>3, <1>4, <1>5, <1>6 DEF curId, SpooledIds

\* Every other step of the agent is of one of four kinds: it changes nothing of
\* the jobs, it adds fresh ids to the queue, the worker takes a job, or a new
\* process starts.
LEMMA OtherSteps ==
    ASSUME TypeOK, LedgerInv, [Next]_vars, ~ProcessJob
    PROVE  \/ /\ UNCHANGED <<queue, cur, spool, run, history, temp>>
              /\ wpc' = wpc \/ cur = None
           \/ /\ UNCHANGED <<cur, wpc, spool, run, history, temp>>
              /\ \E ids \in SUBSET JobIds :
                   /\ ids \cap queue.seen_job_ids = {}
                   /\ PendingIds(queue)' = PendingIds(queue) \cup ids
                   /\ queue'.seen_job_ids = queue.seen_job_ids \cup ids
           \/ /\ UNCHANGED <<spool, run, history, temp>>
              /\ wpc = "pop" /\ wpc' = "begin" /\ cur = None /\ cur' # None
              /\ queue.pending # <<>> /\ cur' = Head(queue.pending)
              /\ queue' = pop_next(queue)
              /\ queue'.seen_job_ids = queue.seen_job_ids
              /\ curId' \in PendingIds(queue)
              /\ PendingIds(queue)' = PendingIds(queue) \ {curId'}
           \/ Restart
<1> USE DEF lockVars, lifeVars
<1>1. queue \in QueueType /\ QueueOK(queue)
  BY DEF TypeOK, LedgerInv
<1>2. ASSUME NEW c \in Clients, NEW job \in Inputs, ClientPrint(c, job)
      PROVE  /\ UNCHANGED <<cur, wpc, spool, run, history, temp>>
             /\ \E ids \in SUBSET JobIds :
                   /\ ids \cap queue.seen_job_ids = {}
                   /\ PendingIds(queue)' = PendingIds(queue) \cup ids
                   /\ queue'.seen_job_ids = queue.seen_job_ids \cup ids
  <2>1. job \in PrintJobInput /\ job.job_id \in JobIds
    BY AgentAssumption DEF PrintJobInput
  <2>2. /\ PendingIds(queue)' = PendingIds(queue) \cup {job.job_id}
        /\ queue'.seen_job_ids = queue.seen_job_ids \cup {job.job_id}
    BY <1>1, <1>2, <2>1, AcceptJobOK DEF ClientPrint
  <2>3. {job.job_id} \cap queue.seen_job_ids = {} /\ UNCHANGED <<cur, wpc, spool, run, history, temp>>
    BY <1>2 DEF ClientPrint, CanAcceptJob
  <2> QED
    BY <2>1, <2>2, <2>3
<1>3. ASSUME NEW c \in Clients, NEW b \in BatchIds, NEW jobs \in ClientBatches,
             ClientPrintBatch(c, b, jobs)
      PROVE  /\ UNCHANGED <<cur, wpc, spool, run, history, temp>>
             /\ \E ids \in SUBSET JobIds :
                   /\ ids \cap queue.seen_job_ids = {}
                   /\ PendingIds(queue)' = PendingIds(queue) \cup ids
                   /\ queue'.seen_job_ids = queue.seen_job_ids \cup ids
  <2>1. jobs \in Seq(PrintJobInput)
    BY BatchType
  <2>2. /\ PendingIds(queue)' = PendingIds(queue) \cup IdsOf(jobs)
        /\ queue'.seen_job_ids = queue.seen_job_ids \cup IdsOf(jobs)
    BY <1>1, <1>3, <2>1, AcceptBatchOK DEF ClientPrintBatch
  <2>3. IdsOf(jobs) \subseteq JobIds
    <3>1. \A i \in DOMAIN jobs : jobs[i] \in PrintJobInput
      BY <2>1
    <3>2. \A job \in PrintJobInput : job.job_id \in JobIds
      BY DEF PrintJobInput
    <3> QED
      BY <3>1, <3>2 DEF IdsOf
  <2>4. /\ IdsOf(jobs) \cap queue.seen_job_ids = {}
        /\ UNCHANGED <<cur, wpc, spool, run, history, temp>>
    BY <1>3 DEF ClientPrintBatch, CanAcceptBatch, IdsOf
  <2> QED
    BY <2>2, <2>3, <2>4
<1>4. ASSUME WorkerPop, queue.pending # <<>>
      PROVE  /\ UNCHANGED <<spool, run, history, temp>>
             /\ wpc = "pop" /\ wpc' = "begin" /\ cur = None /\ cur' # None
             /\ cur' = Head(queue.pending)
             /\ queue' = pop_next(queue)
             /\ queue'.seen_job_ids = queue.seen_job_ids
             /\ curId' \in PendingIds(queue)
             /\ PendingIds(queue)' = PendingIds(queue) \ {curId'}
  <2>1. /\ wpc = "pop" /\ wpc' = "begin" /\ cur' = Head(queue.pending)
        /\ queue' = pop_next(queue) /\ UNCHANGED <<spool, run, history, temp>>
    BY <1>4 DEF WorkerPop
  <2>2. cur' \in QueuedJob
    BY <1>1, <1>4, <2>1, PopType
  <2>3. cur = None /\ cur' # None
    BY <2>1, <2>2, AgentAssumption DEF TypeOK, Busy
  <2>4. /\ queue'.seen_job_ids = queue.seen_job_ids
        /\ curId' \in PendingIds(queue)
        /\ PendingIds(queue)' = PendingIds(queue) \ {curId'}
    BY <1>1, <1>4, <2>1, PopOK, PopIds DEF curId
  <2> QED
    BY <2>1, <2>3, <2>4
<1>5. ASSUME \/ \E c \in Clients : NotifyOne(c)
             \/ WorkerCheck \/ WorkerSelect \/ WorkerWake \/ WorkerCancelled
             \/ WorkerPop /\ queue.pending = <<>>
             \/ \E t \in Testers : TestPrint(t) \/ TestAcquire(t) \/ TestRelease(t)
             \/ \E cfg \in Configs : SaveConfig(cfg)
             \/ Shutdown \/ UNCHANGED vars
      PROVE  /\ UNCHANGED <<queue, cur, spool, run, history, temp>>
             /\ wpc' = wpc \/ cur = None
  BY <1>5 DEF NotifyOne, WorkerCheck, WorkerSelect, WorkerWake, WorkerCancelled, WorkerPop,
     TestPrint, TestAcquire, TestRelease, TesterStep, SaveConfig, Shutdown, vars, TypeOK, Busy
<1> QED
  BY <1>2, <1>3, <1>4, <1>5 DEF Next, Submissions, WorkerLoop, TestPrints

-----------------------------------------------------------------------------
(* Temporary files.                                                         *)

\* The strengthening of TempCleaned: the files are those of jobs the worker has
\* taken, only its own job may have a download, and that one not in the steps
\* from which a failure is logged without a clean-up.
TempInv ==
    /\ \A f \in temp : f[1] \in queue.seen_job_ids \ PendingIds(queue)
    /\ \A f \in temp : cur = None \/ f[1] # curId => f[2] = "output" /\ f[1] \notin SpooledIds
    /\ cur # None /\ wpc \in {"begin", "resolve", "render", "download", "fail"}
            => TempFile("download") \notin temp

\* Every step of the agent preserves TempInv.
LEMMA TempStep == TypeOK /\ LedgerInv /\ TempInv /\ [Next]_vars => TempInv'
<1> SUFFICES ASSUME TypeOK, LedgerInv, TempInv, [Next]_vars PROVE TempInv'
  OBVIOUS
<1>1. CASE ProcessJob
  <2>1. /\ UNCHANGED <<queue, run>>
        /\ cur # None /\ curId \in JobIds
        /\ cur' = None \/ (cur' = cur /\ curId' = curId)
        /\ Submit \/ (UNCHANGED spool /\ SpooledIds' = SpooledIds)
    BY <1>1, ProcessJobFrame
  <2>2. PendingIds(queue)' = PendingIds(queue)
    BY <2>1 DEF PendingIds
  <2>3. curId \in queue.seen_job_ids \ PendingIds(queue)
    BY <2>1 DEF LedgerInv
  <2>4. \A f \in temp : f \in TempFiles
    BY DEF TypeOK
  <2>5. \A f \in TempFiles : f = <<f[1], f[2]>> /\ f[2] \in {"download", "output"}
    BY DEF TempFiles
  <2>6. /\ TempFile("download")[1] = curId /\ TempFile("download")[2] = "download"
        /\ TempFile("output")[1] = curId /\ TempFile("output")[2] = "output"
    BY DEF TempFile
  <2>7. ASSUME ~Submit, cur' = cur, temp' \subseteq temp \cup {TempFile("output"), TempFile("download")},
               wpc' \in {"begin", "resolve", "render", "download", "fail"}
                    => TempFile("download") \notin temp'
        PROVE  TempInv'
    <3>1. TempFile("download")' = TempFile("download")
      BY <2>1, <2>7 DEF TempFile, curId
    <3> QED
      BY <2>1, <2>2, <2>3, <2>6, <2>7, <3>1 DEF TempInv
  <2>8. CASE LogQueued \/ StartHtml \/ StartRaw \/ StartFile
    <3>1. ~Submit /\ cur' = cur /\ temp' = temp /\ wpc \in {"begin", "resolve"}
      BY <2>8 DEF LogQueued, StartHtml, StartRaw, StartFile, JobStep, Submit
    <3> QED
      BY <2>1, <2>7, <3>1 DEF TempInv
  <2>9. CASE RenderHtml
    <3>1. /\ ~Submit /\ cur' = cur /\ wpc = "render"
          /\ temp' \subseteq temp \cup {TempFile("output")}
      BY <2>9 DEF RenderHtml, JobStep, Submit
    <3> QED
      BY <2>1, <2>6, <2>7, <3>1 DEF TempInv
  <2>10. CASE Download
    <3>1. /\ ~Submit /\ cur' = cur /\ wpc = "download"
          /\ \/ temp' = temp
             \/ temp' = temp \cup {TempFile("download")} /\ wpc' = "prepare"
      BY <2>10 DEF Download, JobStep, Submit
    <3> QED
      BY <2>1, <2>7, <3>1 DEF TempInv
  <2>11. CASE PreparePdf
    <3>1. /\ ~Submit /\ cur' = cur
          /\ \/ wpc' \in {"print", "clean_err"} /\ temp' \subseteq temp \cup {TempFile("output")}
             \/ temp' = (temp \ {TempFile("download")}) \cup {TempFile("output")}
      BY <2>11 DEF PreparePdf, JobStep, Submit
    <3> QED
      BY <2>6, <2>7, <3>1
  <2>12. CASE LogPrinting \/ AcquirePrintLock \/ LogSubmitted \/ Track
    <3>1. /\ ~Submit /\ cur' = cur /\ temp' = temp
          /\ wpc' \in {"lock", "submit", "track", "clean_ok"}
      BY <2>12 DEF LogPrinting, AcquirePrintLock, LogSubmitted, Track, JobStep, Submit
    <3> QED
      BY <2>7, <3>1
  <2>13. CASE Submit
    <3>1. cur' = cur /\ temp' = temp /\ wpc' \in {"log_submitted", "clean_err"}
      BY <2>13 DEF Submit
    <3>2. SpooledIds' \subseteq SpooledIds \cup {curId}
      <4>1. CASE UNCHANGED spool
        BY <2>1, <4>1 DEF SpooledIds
      <4>2. CASE spool' = Append(spool, SpoolEntry)
        BY <2>1, <4>2, SubmitSpools
      <4> QED
        BY <2>13, <4>1, <4>2 DEF Submit
    <3> QED
      BY <2>1, <2>2, <3>1, <3>2 DEF TempInv
  <2>14. CASE Cleanup
    <3>1. /\ temp' = temp \ TempOfCur /\ UNCHANGED spool
          /\ SpooledIds' = SpooledIds
      BY <2>1, <2>14 DEF Cleanup, SpooledIds
    <3>2. \A f \in temp' : f[1] # curId /\ f \in temp
      <4> SUFFICES ASSUME NEW f \in temp, f \notin TempOfCur, f[1] = curId PROVE FALSE
        BY <3>1
      <4>1. f = <<curId, "download">> \/ f = <<curId, "output">>
        BY <2>4, <2>5
      <4> QED
        BY <4>1 DEF TempOfCur, TempFile
    <3>3. cur' # None => TempFile("download")' \notin temp'
      BY <2>1, <2>6, <3>2 DEF TempFile
    <3> QED
      BY <2>1, <2>2, <3>1, <3>2, <3>3 DEF TempInv
  <2>15. CASE LogFailed
    <3>1. temp' = temp /\ wpc = "fail" /\ cur' = None /\ ~Submit
      BY <2>15 DEF LogFailed, JobStep, Submit
    <3>2. curId \notin SpooledIds /\ TempFile("download") \notin temp
      BY <2>1, <3>1 DEF LedgerInv, TempInv
    <3>3. \A f \in temp : f[1] = curId => f[2] = "output"
      <4> SUFFICES ASSUME NEW f \in temp, f[1] = curId, f[2] # "output" PROVE FALSE
        OBVIOUS
      <4>1. f = <<curId, "download">>
        BY <2>4, <2>5
      <4> QED
        BY <3>2, <4>1 DEF TempFile
    <3> QED
      BY <2>1, <2>2, <3>1, <3>2, <3>3 DEF TempInv
  <2> QED
    BY <1>1, <2>8, <2>9, <2>10, <2>11, <2>12, <2>13, <2>14, <2>15 DEF ProcessJob
<1>2. CASE UNCHANGED <<queue, cur, spool, run, history, temp>> /\ (wpc' = wpc \/ cur = None)
  BY <1>2 DEF TempInv, SpooledIds, PendingIds, TempFile, curId
<1>3. CASE /\ UNCHANGED <<cur, wpc, spool, run, history, temp>>
           /\ \E ids \in SUBSET JobIds :
                /\ ids \cap queue.seen_job_ids = {}
                /\ PendingIds(queue)' = PendingIds(queue) \cup ids
                /\ queue'.seen_job_ids = queue.seen_job_ids \cup ids
  <2>1. SpooledIds' = SpooledIds /\ curId' = curId /\ TempFile("download")' = TempFile("download")
    BY <1>3 DEF SpooledIds, curId, TempFile
  <2>2. \A f \in temp : f[1] \in queue'.seen_job_ids \ PendingIds(queue)'
    BY <1>3 DEF TempInv
  <2> QED
    BY <1>3, <2>1, <2>2 DEF TempInv
<1>4. CASE /\ UNCHANGED <<spool, run, history, temp>>
           /\ cur = None
           /\ queue'.seen_job_ids = queue.seen_job_ids
           /\ curId' \in PendingIds(queue)
           /\ PendingIds(queue)' = PendingIds(queue) \ {curId'}
  <2>1. SpooledIds' = SpooledIds
    BY <1>4 DEF SpooledIds
  <2>2. \A f \in temp : f[1] # curId'
    BY <1>4 DEF TempInv
  <2>3. TempFile("download")' \notin temp
    <3>1. TempFile("download")'[1] = curId'
      BY DEF TempFile
    <3> QED
      BY <2>2, <3>1
  <2> QED
    BY <1>4, <2>1, <2>2, <2>3 DEF TempInv
<1>5. CASE Restart
  BY <1>5 DEF Restart, TempInv
<1> QED
  BY <1>1, <1>2, <1>3, <1>4, <1>5, OtherSteps

\* When the worker is through with a job its download is gone, and its printable
\* PDF too if the job was printed, on every path through the worker and for every
\* mixture of jobs, failures and restarts.
THEOREM TempFilesCleaned == Spec => []TempCleaned
<1>1. Init => TempInv
  BY DEF Init, TempInv
<1>2. TempInv => TempCleaned
  BY SpooledNowIs DEF TempInv, TempCleaned, Finished
<1>3. Spec => []LedgerInv
  BY InitOK, TypeCorrect, LedgerStep, PTL DEF Spec
<1> QED
  BY <1>1, <1>2, <1>3, TypeCorrect, TempStep, PTL DEF Spec

-----------------------------------------------------------------------------
(* The history.                                                             *)

\* A history that begins with queued and nowhere else says queued; one without
\* submitted; one that ends with it; one that has it last or last but one.
Begun(h) == Len(h) > 0 /\ \A i \in 1..Len(h) : h[i] = "queued" <=> i = 1
Unsent(h) == \A i \in 1..Len(h) : h[i] # "submitted"
Sent(h) == Len(h) > 1 /\ h[Len(h)] = "submitted"
Ended(h) == Len(h) > 1 /\ (h[Len(h)] = "submitted" \/ h[Len(h) - 1] = "submitted")

\* What HistoryTruthful asks of the history of one finished job.
Settled(h, printed) ==
    LET n == Len(h) IN
    /\ n > 1
    /\ \A i \in 1..n : h[i] = "queued" <=> i = 1
    /\ printed <=> "submitted" \in {h[i] : i \in 1..n}
    /\ printed => \/ h[n] = "submitted"
                  \/ h[n - 1] = "submitted"
    /\ ~printed => h[n] = "failed"

\* The elements of a sequence with one more.
LEMMA AppendShape ==
    ASSUME NEW h \in Seq(Statuses), NEW s \in Statuses
    PROVE  /\ Append(h, s) \in Seq(Statuses)
           /\ Len(h) \in Nat /\ Len(Append(h, s)) = Len(h) + 1
           /\ \A i \in 1..Len(h) : Append(h, s)[i] = h[i]
           /\ Append(h, s)[Len(h) + 1] = s
           /\ \A i \in 1..(Len(h) + 1) : i \in 1..Len(h) \/ i = Len(h) + 1
OBVIOUS

\* A status that is not the first does not undo the beginning, and another than
\* submitted does not send the job.
LEMMA LogsMore ==
    ASSUME NEW h \in Seq(Statuses), NEW s \in Statuses \ {"queued"}, Begun(h)
    PROVE  /\ Begun(Append(h, s))
           /\ Unsent(h) /\ s # "submitted" => Unsent(Append(h, s))
           /\ s = "submitted" => Sent(Append(h, s)) /\ Ended(Append(h, s))
           /\ Sent(h) => Ended(Append(h, s))
<1> DEFINE g == Append(h, s)
           n == Len(h)
<1>1. /\ n \in Nat /\ Len(g) = n + 1
      /\ \A i \in 1..n : g[i] = h[i]
      /\ g[n + 1] = s
      /\ \A i \in 1..(n + 1) : i \in 1..n \/ i = n + 1
  BY AppendShape
<1> HIDE DEF g
<1>2. n > 0 /\ \A i \in 1..n : h[i] = "queued" <=> i = 1
  BY DEF Begun
<1> HIDE DEF n
<1>3. Begun(g)
  BY <1>1, <1>2 DEF Begun
<1>4. Unsent(h) /\ s # "submitted" => Unsent(g)
  BY <1>1 DEF Unsent, n
<1>5. s = "submitted" => Sent(g) /\ Ended(g)
  BY <1>1, <1>2 DEF Sent, Ended
<1>6. Sent(h) => Ended(g)
  <2> SUFFICES ASSUME n > 1, h[n] = "submitted" PROVE Ended(g)
    BY DEF Sent, n
  <2>1. n \in 1..n /\ (n + 1) - 1 = n /\ n + 1 > 1
    BY <1>1, <1>2
  <2>2. g[n] = "submitted"
    BY <1>1, <2>1
  <2> QED
    BY <1>1, <2>1, <2>2 DEF Ended
<1> QED
  BY <1>3, <1>4, <1>5, <1>6 DEF g

\* A job that was printed ends with submitted or a tracking outcome after it.
LEMMA EndsPrinted ==
    ASSUME NEW h \in Seq(Statuses), Begun(h), Ended(h)
    PROVE  Settled(h, TRUE)
<1> DEFINE n == Len(h)
<1>1. n \in Nat /\ n > 1 /\ n \in 1..n /\ n - 1 \in 1..n
  BY DEF Ended
<1>2. "submitted" \in {h[i] : i \in 1..n}
  BY <1>1 DEF Ended
<1> QED
  BY <1>1, <1>2 DEF Begun, Ended, Settled

\* A job that was not printed ends with failed.
LEMMA EndsFailed ==
    ASSUME NEW h \in Seq(Statuses), Begun(h), Unsent(h)
    PROVE  Settled(Append(h, "failed"), FALSE)
<1> DEFINE g == Append(h, "failed")
           n == Len(h)
<1>1. "failed" \in Statuses \ {"queued"}
  BY DEF Statuses
<1>2. n \in Nat /\ Len(g) = n + 1 /\ g[n + 1] = "failed"
  BY <1>1, AppendShape
<1>3. Begun(g) /\ Unsent(g)
  BY <1>1, LogsMore
<1>4. n > 0
  BY DEF Begun
<1> HIDE DEF g, n
<1>5. "submitted" \notin {g[i] : i \in 1..Len(g)}
  BY <1>3 DEF Unsent
<1>6. n + 1 > 1
  BY <1>2, <1>4
<1> QED
  BY <1>2, <1>3, <1>5, <1>6 DEF Settled, Begun, g

\* The history of the worker's job, step by step.
CurHistory ==
    LET h == history[curId] IN
    /\ wpc = "begin" => h = <<>>
    /\ wpc # "begin" => Begun(h)
    /\ wpc \notin {"track", "clean_ok"} => Unsent(h)
    /\ wpc = "track" => Sent(h)
    /\ wpc = "clean_ok" => Ended(h)
    /\ wpc \in {"log_submitted", "track", "clean_ok"} => curId \in SpooledIds

\* The strengthening of HistoryTruthful: a job the worker has not taken has no
\* history, and that of the worker's job fits the step it is at.
HistoryInv ==
    /\ \A j \in JobIds : j \notin queue.seen_job_ids \ PendingIds(queue) => history[j] = <<>>
    /\ cur # None => CurHistory
    /\ \A j \in JobIds : Finished(j) => Settled(history[j], j \in SpooledIds)

\* The last part of HistoryInv is HistoryTruthful.
LEMMA TruthfulIs ==
    HistoryTruthful <=> \A j \in JobIds : Finished(j) => Settled(history[j], j \in SpooledIds)
BY SpooledNowIs DEF HistoryTruthful, Settled

\* A step on the worker's job that changes no other history keeps HistoryInv if
\* it keeps that of its job, or settles it.
LEMMA HistoryOfOthers ==
    ASSUME TypeOK, LedgerInv, HistoryInv, ProcessJob,
           \A j \in JobIds \ {curId} : history'[j] = history[j],
           cur' # None => CurHistory',
           cur' = None => Settled(history'[curId], curId \in SpooledIds')
    PROVE  HistoryInv'
<1>1. /\ UNCHANGED <<queue, run>>
      /\ cur # None /\ curId \in JobIds
      /\ cur' = None \/ (cur' = cur /\ curId' = curId)
      /\ Submit \/ (UNCHANGED spool /\ SpooledIds' = SpooledIds)
  BY ProcessJobFrame
<1>2. SpooledIds' \in {SpooledIds, SpooledIds \cup {curId}}
  <2>1. CASE UNCHANGED spool
    BY <1>1, <2>1 DEF SpooledIds
  <2>2. CASE spool' = Append(spool, SpoolEntry)
    BY <1>1, <2>2, SubmitSpools
  <2> QED
    BY <1>1, <2>1, <2>2 DEF Submit
<1>3. PendingIds(queue)' = PendingIds(queue) /\ curId \in queue.seen_job_ids \ PendingIds(queue)
  BY <1>1 DEF PendingIds, LedgerInv
<1>4. \A j \in JobIds : j \notin queue'.seen_job_ids \ PendingIds(queue)' => history'[j] = <<>>
  BY <1>1, <1>3 DEF HistoryInv
<1>5. ASSUME NEW j \in JobIds, Finished(j)' PROVE Settled(history'[j], j \in SpooledIds')
  <2>1. CASE j = curId
    <3>1. cur' = None
      BY <1>1, <1>5, <2>1 DEF Finished
    <3> QED
      BY <2>1, <3>1
  <2>2. CASE j # curId
    <3>1. Finished(j)
      BY <1>1, <1>3, <1>5, <2>2 DEF Finished
    <3>2. history'[j] = history[j] /\ (j \in SpooledIds' <=> j \in SpooledIds)
      BY <1>2, <2>2
    <3>3. Settled(history[j], j \in SpooledIds)
      BY <3>1 DEF HistoryInv
    <3> QED
      BY <3>2, <3>3 DEF Settled
  <2> QED
    BY <2>1, <2>2
<1> QED
  BY <1>4, <1>5 DEF HistoryInv

\* push_log adds one status to the history of the worker's job.
LEMMA PushLogHistory ==
    ASSUME TypeOK, curId \in JobIds, NEW status \in Statuses, NEW remote,
           push_log(status, remote)
    PROVE  /\ history[curId] \in Seq(Statuses)
           /\ history'[curId] = Append(history[curId], status)
           /\ \A j \in JobIds \ {curId} : history'[j] = history[j]
BY DEF TypeOK, push_log

\* Every step of the agent preserves HistoryInv.
LEMMA HistoryStep == TypeOK /\ LedgerInv /\ HistoryInv /\ [Next]_vars => HistoryInv'
<1> SUFFICES ASSUME TypeOK, LedgerInv, HistoryInv, [Next]_vars PROVE HistoryInv'
  OBVIOUS
<1>1. CASE ProcessJob
  <2> DEFINE h == history[curId]
             g == history'[curId]
  <2>1. /\ cur # None /\ curId \in JobIds
        /\ cur' = None \/ (cur' = cur /\ curId' = curId)
        /\ Submit \/ (UNCHANGED spool /\ SpooledIds' = SpooledIds)
    BY <1>1, ProcessJobFrame
  <2>2. CurHistory
    BY <2>1 DEF HistoryInv
  <2>3. h \in Seq(Statuses)
    BY <2>1 DEF TypeOK
  <2>4. wpc \notin {"log_submitted", "track", "clean_ok"} => curId \notin SpooledIds
    BY <2>1 DEF LedgerInv
  <2>5. ASSUME NEW status \in Statuses, NEW remote, push_log(status, remote)
        PROVE  /\ g = Append(h, status)
               /\ \A j \in JobIds \ {curId} : history'[j] = history[j]
    BY <2>1, <2>5, PushLogHistory
  <2>6. Statuses = {"queued", "downloading", "printing", "submitted",
                    "completed", "failed", "unknown"}
    BY DEF Statuses
  \* A step between queued and the submission.
  <2>7. ASSUME ~Submit, cur' = cur,
               wpc \notin {"begin", "track", "clean_ok", "log_submitted"},
               wpc' \notin {"begin", "track", "clean_ok", "log_submitted"},
               \/ UNCHANGED history
               \/ push_log("printing", TRUE)
               \/ push_log("downloading", TRUE)
        PROVE  HistoryInv'
    <3>1. /\ \A j \in JobIds \ {curId} : history'[j] = history[j]
          /\ g \in {h, Append(h, "printing"), Append(h, "downloading")}
      BY <2>5, <2>6, <2>7
    <3>2. Begun(h) /\ Unsent(h)
      BY <2>2, <2>7 DEF CurHistory
    <3>3. Begun(g) /\ Unsent(g)
      BY <2>3, <2>6, <3>1, <3>2, LogsMore
    <3>4. CurHistory'
      BY <2>1, <2>7, <3>3 DEF CurHistory
    <3> QED
      BY <1>1, <2>1, <2>7, <3>1, <3>4, HistoryOfOthers
  <2>8. CASE LogQueued
    <3>1. /\ push_log("queued", TRUE) /\ wpc = "begin" /\ wpc' = "resolve"
          /\ cur' = cur /\ ~Submit
      BY <2>8 DEF LogQueued, JobStep, Submit
    <3>2. g = Append(h, "queued") /\ \A j \in JobIds \ {curId} : history'[j] = history[j]
      BY <2>5, <2>6, <3>1
    <3>3. h = <<>>
      BY <2>2, <3>1 DEF CurHistory
    <3>4. Len(g) = 1 /\ g[1] = "queued" /\ \A i \in 1..1 : i = 1
      BY <3>2, <3>3
    <3>5. Begun(g) /\ Unsent(g)
      BY <3>4 DEF Begun, Unsent
    <3>6. CurHistory'
      BY <2>1, <3>1, <3>5 DEF CurHistory
    <3> QED
      BY <1>1, <2>1, <3>1, <3>2, <3>6, HistoryOfOthers
  <2>9. CASE StartHtml \/ StartRaw \/ StartFile \/ RenderHtml \/ Download
    BY <2>7, <2>9 DEF StartHtml, StartRaw, StartFile, RenderHtml, Download, JobStep, NoLog, Submit
  <2>10. CASE PreparePdf \/ LogPrinting \/ AcquirePrintLock
    BY <2>7, <2>10 DEF PreparePdf, LogPrinting, AcquirePrintLock, JobStep, NoLog, Submit
  <2>11. CASE Submit
    <3>1. /\ wpc = "submit" /\ cur' = cur /\ UNCHANGED <<history, run>>
          /\ \/ wpc' = "log_submitted" /\ spool' = Append(spool, SpoolEntry)
             \/ wpc' = "clean_err"
      BY <2>11 DEF Submit, JobStep, NoLog, lifeVars
    <3>2. wpc' = "log_submitted" => curId \in SpooledIds'
      BY <3>1, SubmitSpools
    <3>3. CurHistory'
      BY <2>1, <2>2, <3>1, <3>2 DEF CurHistory
    <3> QED
      BY <1>1, <2>1, <3>1, <3>3, HistoryOfOthers
  <2>12. CASE LogSubmitted
    <3>1. /\ push_log("submitted", TRUE) /\ wpc = "log_submitted"
          /\ wpc' \in {"track", "clean_ok"}
          /\ cur' = cur /\ ~Submit
      BY <2>12 DEF LogSubmitted, JobStep, Submit
    <3>2. g = Append(h, "submitted") /\ \A j \in JobIds \ {curId} : history'[j] = history[j]
      BY <2>5, <2>6, <3>1
    <3>3. Begun(g) /\ Sent(g) /\ Ended(g)
      BY <2>2, <2>3, <2>6, <3>1, <3>2, LogsMore DEF CurHistory
    <3>4. CurHistory'
      BY <2>1, <2>2, <3>1, <3>3 DEF CurHistory
    <3> QED
      BY <1>1, <2>1, <3>1, <3>2, <3>4, HistoryOfOthers
  <2>13. CASE Track
    <3>1. /\ wpc = "track" /\ wpc' = "clean_ok" /\ cur' = cur /\ ~Submit
          /\ \E outcome \in {"completed", "failed", "unknown"} : push_log(outcome, FALSE)
      BY <2>13 DEF Track, JobStep, Submit
    <3>2. PICK outcome \in {"completed", "failed", "unknown"} : push_log(outcome, FALSE)
      BY <3>1
    <3>3. g = Append(h, outcome) /\ \A j \in JobIds \ {curId} : history'[j] = history[j]
      BY <2>5, <2>6, <3>2
    <3>4. Begun(h) /\ Sent(h)
      BY <2>2, <3>1 DEF CurHistory
    <3>5. Begun(g) /\ Ended(g)
      BY <2>3, <2>6, <3>3, <3>4, LogsMore
    <3>6. CurHistory'
      BY <2>1, <2>2, <3>1, <3>5 DEF CurHistory
    <3> QED
      BY <1>1, <2>1, <3>1, <3>3, <3>6, HistoryOfOthers
  <2>14. CASE Cleanup /\ wpc = "clean_err"
    BY <2>7, <2>14 DEF Cleanup, JobStep, NoLog, Submit
  <2>15. CASE Cleanup /\ wpc = "clean_ok"
    <3>1. UNCHANGED history /\ cur' = None /\ ~Submit
      BY <2>15 DEF Cleanup, NoLog, Submit, JobStep
    <3>2. Begun(h) /\ Ended(h) /\ curId \in SpooledIds
      BY <2>2, <2>15 DEF CurHistory
    <3>3. Settled(h, TRUE)
      BY <2>3, <3>2, EndsPrinted
    <3>4. Settled(g, curId \in SpooledIds')
      BY <2>1, <3>1, <3>2, <3>3 DEF Settled
    <3> QED
      BY <1>1, <3>1, <3>4, HistoryOfOthers
  <2>16. CASE LogFailed
    <3>1. push_log("failed", TRUE) /\ wpc = "fail" /\ cur' = None /\ ~Submit
      BY <2>16 DEF LogFailed, JobStep, Submit
    <3>2. g = Append(h, "failed") /\ \A j \in JobIds \ {curId} : history'[j] = history[j]
      BY <2>5, <2>6, <3>1
    <3>3. Begun(h) /\ Unsent(h) /\ curId \notin SpooledIds
      BY <2>2, <2>4, <3>1 DEF CurHistory
    <3>4. Settled(g, FALSE)
      BY <2>3, <3>2, <3>3, EndsFailed
    <3>5. Settled(g, curId \in SpooledIds')
      BY <2>1, <3>1, <3>3, <3>4 DEF Settled
    <3> QED
      BY <1>1, <3>1, <3>2, <3>5, HistoryOfOthers
  <2> QED
    BY <1>1, <2>8, <2>9, <2>10, <2>11, <2>12, <2>13, <2>14, <2>15, <2>16
       DEF ProcessJob, Cleanup
<1>2. CASE UNCHANGED <<queue, cur, spool, run, history, temp>> /\ (wpc' = wpc \/ cur = None)
  <2>1. /\ SpooledIds' = SpooledIds /\ PendingIds(queue)' = PendingIds(queue) /\ curId' = curId
        /\ \A j : Finished(j)' <=> Finished(j)
    BY <1>2 DEF SpooledIds, PendingIds, curId, Finished
  <2>2. cur' # None => CurHistory'
    BY <1>2, <2>1 DEF HistoryInv, CurHistory
  <2> QED
    BY <1>2, <2>1, <2>2 DEF HistoryInv
<1>3. CASE /\ UNCHANGED <<cur, wpc, spool, run, history, temp>>
           /\ \E ids \in SUBSET JobIds :
                /\ ids \cap queue.seen_job_ids = {}
                /\ PendingIds(queue)' = PendingIds(queue) \cup ids
                /\ queue'.seen_job_ids = queue.seen_job_ids \cup ids
  <2>1. /\ SpooledIds' = SpooledIds /\ curId' = curId
        /\ \A j : Finished(j)' => Finished(j)
    BY <1>3 DEF SpooledIds, curId, Finished
  <2>2. cur' # None => CurHistory'
    BY <1>3, <2>1 DEF HistoryInv, CurHistory
  <2>3. \A j \in JobIds : j \notin queue'.seen_job_ids \ PendingIds(queue)'
            => j \notin queue.seen_job_ids \ PendingIds(queue)
    BY <1>3
  <2> QED
    BY <1>3, <2>1, <2>2, <2>3 DEF HistoryInv
<1>4. CASE /\ UNCHANGED <<spool, run, history, temp>>
           /\ wpc = "pop" /\ wpc' = "begin" /\ cur = None /\ cur' # None
           /\ queue'.seen_job_ids = queue.seen_job_ids
           /\ curId' \in PendingIds(queue)
           /\ PendingIds(queue)' = PendingIds(queue) \ {curId'}
  <2>1. SpooledIds' = SpooledIds
    BY <1>4 DEF SpooledIds
  <2>2. PendingIds(queue) \subseteq queue.seen_job_ids /\ queue.seen_job_ids \subseteq JobIds
    BY DEF LedgerInv, QueueOK, TypeOK, QueueType
  <2>3. \A j : Finished(j)' => Finished(j)
    BY <1>4 DEF Finished
  <2>4. history[curId'] = <<>>
    BY <1>4, <2>2 DEF HistoryInv
  <2>5. CurHistory'
    BY <1>4, <2>4 DEF CurHistory, Unsent
  <2> QED
    BY <1>4, <2>1, <2>3, <2>5 DEF HistoryInv
<1>5. CASE Restart
  <2>1. history' = [j \in JobIds |-> <<>>] /\ cur' = None /\ queue' = EmptyQueue
    BY <1>5 DEF Restart
  <2>2. \A j : ~Finished(j)'
    BY <2>1 DEF Finished, EmptyQueue
  <2> QED
    BY <2>1, <2>2 DEF HistoryInv
<1> QED
  BY <1>1, <1>2, <1>3, <1>4, <1>5, OtherSteps

\* The history of every finished job says what happened to it, for every job,
\* outcome of its steps and interleaving with the other tasks.
THEOREM HistoryIsTruthful == Spec => []HistoryTruthful
<1>1. Init => HistoryInv
  BY DEF Init, HistoryInv, EmptyQueue, Finished
<1>2. HistoryInv => HistoryTruthful
  BY TruthfulIs DEF HistoryInv
<1>3. Spec => []LedgerInv
  BY InitOK, TypeCorrect, LedgerStep, PTL DEF Spec
<1> QED
  BY <1>1, <1>2, <1>3, TypeCorrect, HistoryStep, PTL DEF Spec

-----------------------------------------------------------------------------
(* The refinement of JobLedger.                                             *)

\* The ids of the pending jobs, in their order: what JobLedger calls the line.
LineOf(q) == [i \in DOMAIN q.pending |-> q.pending[i].job.job_id]

\* The line of a queue is a sequence of ids.
LEMMA LineType ==
    ASSUME NEW q \in QueueType
    PROVE  /\ LineOf(q) \in Seq(JobIds)
           /\ Len(LineOf(q)) = Len(q.pending) /\ Len(q.pending) \in Nat
           /\ DOMAIN q.pending = 1..Len(q.pending)
           /\ \A i \in 1..Len(q.pending) : LineOf(q)[i] = q.pending[i].job.job_id
<1>1. q.pending \in Seq(QueuedJob) /\ Len(q.pending) \in Nat /\ DOMAIN q.pending = 1..Len(q.pending)
  BY DEF QueueType
<1>2. \A e \in QueuedJob : e.job.job_id \in JobIds
  BY DEF QueuedJob, PrintJobInput
<1>3. \A i \in 1..Len(q.pending) : q.pending[i] \in QueuedJob
  BY <1>1
<1>4. LineOf(q) \in [1..Len(q.pending) -> JobIds]
  BY <1>1, <1>2, <1>3 DEF LineOf
<1>5. LineOf(q) \in Seq(JobIds) /\ Len(LineOf(q)) = Len(q.pending)
  BY <1>1, <1>4
<1> QED
  BY <1>1, <1>5 DEF LineOf

\* A longer sequence with the same beginning: its beginning and its end.
LEMMA PrefixAndRest ==
    ASSUME NEW S, NEW s \in Seq(S), NEW t \in Seq(S), NEW m \in Nat, Len(t) = Len(s) + m,
           \A i \in 1..Len(s) : t[i] = s[i]
    PROVE  LET rest == SubSeq(t, Len(s) + 1, Len(t)) IN
           /\ SubSeq(t, 1, Len(s)) = s
           /\ DOMAIN rest = 1..m
           /\ \A i \in 1..m : rest[i] = t[Len(s) + i] /\ Len(s) + i \in 1..Len(t)
<1> DEFINE n == Len(s)
           front == SubSeq(t, 1, n)
           rest == SubSeq(t, n + 1, n + m)
<1>1. n \in Nat /\ DOMAIN s = 1..n /\ DOMAIN t = 1..(n + m)
  OBVIOUS
<1>2. \A i \in 1..(n + m) : t[i] \in S
  BY <1>1
<1>3. \A i \in 1..n : i \in 1..(n + m)
  BY <1>1
<1>4. \A i \in (n + 1)..(n + m) : i \in 1..(n + m)
  BY <1>1
<1>5. /\ front \in Seq(S) /\ Len(front) = n
      /\ \A i \in 1..n : front[i] = t[i]
  <2>1. \A i \in 1..n : t[i] \in S
    BY <1>2, <1>3
  <2>2. /\ front \in Seq(S)
        /\ Len(front) = IF 1 <= n THEN n - 1 + 1 ELSE 0
        /\ \A i \in 1..(n - 1 + 1) : front[i] = t[1 + i - 1]
    BY <1>1, <2>1, SubSeqProperties
  <2>3. n - 1 + 1 = n /\ (~(1 <= n) => n = 0) /\ \A i \in 1..n : 1 + i - 1 = i
    BY <1>1
  <2> HIDE DEF front
  <2> QED
    BY <2>2, <2>3
<1>6. /\ rest \in Seq(S) /\ Len(rest) = m
      /\ \A i \in 1..m : rest[i] = t[n + i]
  <2>1. \A i \in (n + 1)..(n + m) : t[i] \in S
    BY <1>2, <1>4
  <2>2. /\ rest \in Seq(S)
        /\ Len(rest) = IF n + 1 <= n + m THEN (n + m) - (n + 1) + 1 ELSE 0
        /\ \A i \in 1..((n + m) - (n + 1) + 1) : rest[i] = t[(n + 1) + i - 1]
    BY <1>1, <2>1, SubSeqProperties
  <2>3. /\ (n + m) - (n + 1) + 1 = m /\ (~(n + 1 <= n + m) => m = 0)
        /\ \A i \in 1..m : (n + 1) + i - 1 = n + i
    BY <1>1
  <2> HIDE DEF rest
  <2> QED
    BY <2>2, <2>3
<1> HIDE DEF front, rest
<1>7. front = s
  <2>1. DOMAIN front = 1..n /\ front = [i \in DOMAIN front |-> front[i]]
    BY <1>1, <1>5
  <2>2. s = [i \in DOMAIN s |-> s[i]]
    OBVIOUS
  <2>3. \A i \in 1..n : front[i] = s[i]
    BY <1>5
  <2> QED
    BY <1>1, <2>1, <2>2, <2>3
<1>8. DOMAIN rest = 1..m
  BY <1>6
<1>9. \A i \in 1..m : n + i \in 1..(n + m)
  BY <1>1
<1> QED
  BY <1>6, <1>7, <1>8, <1>9 DEF front, rest

\* Jobs that join the end of a queue make a step of Accept.
LEMMA LedgerAccept ==
    ASSUME queue \in QueueType, queue' \in QueueType, QueueOK(queue)', NEW m \in Nat,
           Len(queue'.pending) = Len(queue.pending) + m,
           \A i \in 1..Len(queue.pending) : queue'.pending[i] = queue.pending[i],
           \A i \in 1..m :
              queue'.pending[Len(queue.pending) + i].job.job_id \notin queue.seen_job_ids,
           queue'.seen_job_ids = queue.seen_job_ids \cup
              {queue'.pending[Len(queue.pending) + i].job.job_id : i \in 1..m},
           UNCHANGED <<cur, spool, run>>
    PROVE  Ledger!Accept
<1> DEFINE l == LineOf(queue)
           k == LineOf(queue')
           n == Len(queue.pending)
           rest == SubSeq(k, Len(l) + 1, Len(k))
<1>1. l \in Seq(JobIds) /\ Len(l) = n /\ n \in Nat
      /\ \A i \in 1..n : l[i] = queue.pending[i].job.job_id
  BY LineType
<1>2. k \in Seq(JobIds) /\ Len(k) = n + m /\ DOMAIN queue'.pending = 1..(n + m)
      /\ \A i \in 1..(n + m) : k[i] = queue'.pending[i].job.job_id
  BY LineType
<1>3. \A i \in 1..n : i \in 1..(n + m)
  BY <1>1
<1> HIDE DEF l, k
<1>4. \A i \in 1..n : k[i] = l[i]
  BY <1>1, <1>2, <1>3
<1> HIDE DEF n
<1>5. /\ SubSeq(k, 1, Len(l)) = l
      /\ DOMAIN rest = 1..m
      /\ \A i \in 1..m : rest[i] = k[n + i] /\ n + i \in 1..(n + m)
  BY <1>1, <1>2, <1>4, PrefixAndRest
<1> HIDE DEF rest
<1>6. \A i \in 1..m : rest[i] = queue'.pending[n + i].job.job_id
  BY <1>2, <1>5
<1>7. \A i \in 1..m : rest[i] \in JobIds \ queue.seen_job_ids
  <2>1. \A i \in 1..m : rest[i] \in JobIds
    BY <1>2, <1>5
  <2> QED
    BY <1>6, <2>1 DEF n
<1>8. \A i, j \in 1..m : rest[i] = rest[j] => i = j
  <2> SUFFICES ASSUME NEW i \in 1..m, NEW j \in 1..m, rest[i] = rest[j] PROVE i = j
    OBVIOUS
  <2>1. n + i \in DOMAIN queue'.pending /\ n + j \in DOMAIN queue'.pending
    BY <1>2, <1>5
  <2>2. n + i = n + j
    BY <1>6, <2>1 DEF QueueOK
  <2> QED
    BY <1>1, <2>2
<1>9. {rest[i] : i \in 1..m} = {queue'.pending[n + i].job.job_id : i \in 1..m}
  BY <1>6
<1>10. queue'.seen_job_ids = queue.seen_job_ids \cup {rest[i] : i \in 1..m}
  BY <1>9 DEF n
<1>11. Len(k) >= Len(l)
  BY <1>1, <1>2
<1>12. SpooledIds' = SpooledIds /\ curId' = curId
  BY DEF SpooledIds, curId
<1>13. /\ l = [i \in DOMAIN queue.pending |-> queue.pending[i].job.job_id]
       /\ k = [i \in DOMAIN queue.pending |-> queue.pending[i].job.job_id]'
  BY DEF l, k, LineOf
<1>14. Ledger!Joined = rest
  BY <1>13 DEF Ledger!Joined, rest
<1>15. Ledger!Distinct(Ledger!Joined)
  BY <1>5, <1>8, <1>14 DEF Ledger!Distinct
<1>16. /\ \A i \in DOMAIN Ledger!Joined : Ledger!Joined[i] \in JobIds \ queue.seen_job_ids
       /\ queue'.seen_job_ids
            = queue.seen_job_ids \cup {Ledger!Joined[i] : i \in DOMAIN Ledger!Joined}
  BY <1>5, <1>7, <1>10, <1>14
<1>17. UNCHANGED <<IF cur = None THEN None ELSE curId, SpooledIds>>
  BY <1>12
<1>18. /\ Len([i \in DOMAIN queue.pending |-> queue.pending[i].job.job_id]')
             >= Len([i \in DOMAIN queue.pending |-> queue.pending[i].job.job_id])
       /\ SubSeq([i \in DOMAIN queue.pending |-> queue.pending[i].job.job_id]', 1,
                 Len([i \in DOMAIN queue.pending |-> queue.pending[i].job.job_id]))
             = [i \in DOMAIN queue.pending |-> queue.pending[i].job.job_id]
  BY <1>5, <1>11, <1>13
<1> QED
  BY <1>15, <1>16, <1>17, <1>18, Zenon DEF Ledger!Accept, SpooledIds

\* Accepting one job is a step of Accept.
LEMMA LedgerAcceptJob ==
    ASSUME queue \in QueueType, QueueOK(queue), NEW job \in PrintJobInput,
           NEW remote \in BOOLEAN, CanAcceptJob(queue, job),
           queue' = accept_queued_job(queue, job, remote), UNCHANGED <<cur, spool, run>>
    PROVE  Ledger!Accept
<1> DEFINE entry == [job |-> job, batch_id |-> None, remote |-> remote]
           n == Len(queue.pending)
<1>1. queue' \in QueueType
  BY AcceptJobType
<1>2. /\ QueueOK(queue)'
      /\ queue'.seen_job_ids = queue.seen_job_ids \cup {job.job_id}
  BY AcceptJobOK
<1>3. queue.pending \in Seq(QueuedJob) /\ n \in Nat
  BY DEF QueueType
<1>4. queue'.pending = Append(queue.pending, entry)
  BY DEF accept_queued_job, QueueType
<1>5. /\ Len(queue'.pending) = n + 1
      /\ \A i \in 1..n : queue'.pending[i] = queue.pending[i]
      /\ queue'.pending[n + 1] = entry
  BY <1>3, <1>4
<1>6. entry.job.job_id = job.job_id /\ job.job_id \notin queue.seen_job_ids
  BY DEF CanAcceptJob
<1> HIDE DEF entry, n
<1>7. \A i \in 1..1 : queue'.pending[n + i].job.job_id = job.job_id
  BY <1>5, <1>6
<1>8. queue'.seen_job_ids = queue.seen_job_ids \cup {queue'.pending[n + i].job.job_id : i \in 1..1}
  BY <1>2, <1>7
<1> QED
  BY <1>1, <1>2, <1>5, <1>6, <1>7, <1>8, LedgerAccept DEF n

\* Accepting a batch is one step of Accept: the batch joins whole or not at all.
LEMMA LedgerAcceptBatch ==
    ASSUME queue \in QueueType, QueueOK(queue), NEW b \in BatchIds,
           NEW jobs \in Seq(PrintJobInput), NEW remote \in BOOLEAN,
           CanAcceptBatch(queue, b, jobs),
           queue' = accept_batch(queue, b, jobs, remote), UNCHANGED <<cur, spool, run>>
    PROVE  Ledger!Accept
<1> DEFINE n == Len(queue.pending)
           m == Len(jobs)
<1>1. queue' \in QueueType
  BY AcceptBatchType
<1>2. /\ QueueOK(queue)'
      /\ queue'.seen_job_ids = queue.seen_job_ids \cup IdsOf(jobs)
  BY AcceptBatchOK
<1>3. n \in Nat /\ m \in Nat /\ DOMAIN jobs = 1..m
  BY DEF QueueType
<1>4. /\ DOMAIN queue'.pending = 1..(n + m)
      /\ \A i \in 1..n : queue'.pending[i] = queue.pending[i]
      /\ \A i \in 1..(n + m) : i > n => queue'.pending[i].job = jobs[i - n]
  BY BatchPending
<1>5. Len(queue'.pending) = n + m
  BY <1>1, <1>3, <1>4 DEF QueueType
<1> HIDE DEF n, m
<1>6. ASSUME NEW i \in 1..m PROVE queue'.pending[n + i].job = jobs[i]
  <2>1. n + i \in 1..(n + m) /\ n + i > n /\ (n + i) - n = i
    BY <1>3
  <2> QED
    BY <1>4, <2>1
<1>7. \A i \in 1..m : queue'.pending[n + i].job.job_id \notin queue.seen_job_ids
  BY <1>3, <1>6 DEF CanAcceptBatch
<1>8. IdsOf(jobs) = {queue'.pending[n + i].job.job_id : i \in 1..m}
  BY <1>3, <1>6 DEF IdsOf
<1> QED
  BY <1>1, <1>2, <1>3, <1>4, <1>5, <1>7, <1>8, LedgerAccept DEF n, m

\* Taking the first job is a step of Start.
LEMMA LedgerStart ==
    ASSUME queue \in QueueType, queue.pending # <<>>, cur = None, cur' # None,
           cur' = Head(queue.pending), queue' = pop_next(queue), UNCHANGED <<spool, run>>
    PROVE  Ledger!Start
<1> DEFINE l == LineOf(queue)
           k == LineOf(queue')
           n == Len(queue.pending)
<1>1. queue.pending \in Seq(QueuedJob) /\ n \in Nat \ {0}
  BY DEF QueueType
<1>2. queue' \in QueueType
  BY PopType
<1>3. queue'.pending = Tail(queue.pending) /\ queue'.seen_job_ids = queue.seen_job_ids
  BY DEF pop_next, QueueType
<1>4. /\ Len(queue'.pending) = n - 1
      /\ \A i \in 1..(n - 1) : queue'.pending[i] = queue.pending[i + 1]
      /\ Head(queue.pending) = queue.pending[1]
  BY <1>1, <1>3
<1>5. l \in Seq(JobIds) /\ Len(l) = n /\ \A i \in 1..n : l[i] = queue.pending[i].job.job_id
  BY LineType
<1>6. /\ k \in Seq(JobIds) /\ Len(k) = n - 1
      /\ \A i \in 1..(n - 1) : k[i] = queue'.pending[i].job.job_id
  BY <1>2, <1>4, LineType
<1>7. \A i \in 1..(n - 1) : i + 1 \in 1..n
  BY <1>1
<1>8. 1 \in 1..n
  BY <1>1
<1> HIDE DEF l, k, n
<1>9. l # <<>> /\ Head(l) = curId'
  BY <1>1, <1>4, <1>5, <1>8 DEF curId
<1>10. k = Tail(l)
  <2> DEFINE t == Tail(l)
  <2>1. t \in Seq(JobIds) /\ Len(t) = n - 1 /\ \A i \in 1..(n - 1) : t[i] = l[i + 1]
    BY <1>1, <1>5, <1>9
  <2> HIDE DEF t
  <2>2. \A i \in 1..(n - 1) : k[i] = t[i]
    BY <1>4, <1>5, <1>6, <1>7, <2>1
  <2>3. k = t
    BY <1>6, <2>1, <2>2, SeqEqual
  <2> QED
    BY <2>3 DEF t
<1>11. /\ l = [i \in DOMAIN queue.pending |-> queue.pending[i].job.job_id]
       /\ k = [i \in DOMAIN queue.pending |-> queue.pending[i].job.job_id]'
  BY DEF l, k, LineOf
<1>12. SpooledIds' = SpooledIds
  BY DEF SpooledIds
<1>13. /\ [i \in DOMAIN queue.pending |-> queue.pending[i].job.job_id] # <<>>
       /\ (IF cur = None THEN None ELSE curId)'
            = Head([i \in DOMAIN queue.pending |-> queue.pending[i].job.job_id])
       /\ [i \in DOMAIN queue.pending |-> queue.pending[i].job.job_id]'
            = Tail([i \in DOMAIN queue.pending |-> queue.pending[i].job.job_id])
  BY <1>9, <1>10, <1>11
<1> QED
  BY <1>3, <1>12, <1>13, Zenon DEF Ledger!Start, SpooledIds

\* A new process is a step of Forget: its spool entries are all older.
LEMMA LedgerForget ==
    ASSUME TypeOK, LedgerInv, Restart
    PROVE  Ledger!Forget
<1>1. /\ run' = run + 1 /\ run \in Nat /\ UNCHANGED spool
      /\ queue' = EmptyQueue /\ cur' = None
  BY DEF Restart, TypeOK
<1>2. \A i \in DOMAIN spool : spool[i].run \in Nat /\ spool[i].run =< run
  <2>1. \A e \in SpoolEntries : e.run \in Nat
    BY AgentAssumption DEF SpoolEntries
  <2>2. \A i \in DOMAIN spool : spool[i] \in SpoolEntries
    BY DEF TypeOK
  <2> QED
    BY <2>1, <2>2 DEF LedgerInv
<1>3. SpooledIds' = {}
  BY <1>1, <1>2 DEF SpooledIds
<1>4. queue'.pending = <<>> /\ queue'.seen_job_ids = {}
  BY <1>1 DEF EmptyQueue
<1>5. [i \in DOMAIN queue.pending |-> queue.pending[i].job.job_id]' = <<>>
  BY <1>4
<1> QED
  BY <1>1, <1>3, <1>4, <1>5 DEF Ledger!Forget, SpooledIds

\* Every step of the agent is a step of JobLedger or leaves it alone.
LEMMA LedgerRefined ==
    TypeOK /\ LedgerInv /\ [Next]_vars => [Ledger!Next]_(Ledger!ledgerVars)
<1> SUFFICES ASSUME TypeOK, LedgerInv, [Next]_vars PROVE [Ledger!Next]_(Ledger!ledgerVars)
  OBVIOUS
<1> USE DEF lockVars, lifeVars
<1>1. queue \in QueueType /\ QueueOK(queue)
  BY DEF TypeOK, LedgerInv
<1>2. ASSUME NEW c \in Clients, NEW job \in Inputs, ClientPrint(c, job) PROVE Ledger!Next
  BY <1>1, <1>2, LedgerAcceptJob, AgentAssumption DEF ClientPrint, Ledger!Next
<1>3. ASSUME NEW c \in Clients, NEW b \in BatchIds, NEW jobs \in ClientBatches,
             ClientPrintBatch(c, b, jobs)
      PROVE  Ledger!Next
  BY <1>1, <1>3, BatchType, LedgerAcceptBatch DEF ClientPrintBatch, Ledger!Next
<1>4. ASSUME WorkerPop, queue.pending # <<>> PROVE Ledger!Next
  <2>1. /\ wpc = "pop" /\ cur' = Head(queue.pending) /\ queue' = pop_next(queue)
        /\ UNCHANGED <<spool, run>>
    BY <1>4 DEF WorkerPop
  <2>2. cur = None /\ cur' # None
    BY <1>1, <1>4, <2>1, PopType, AgentAssumption DEF TypeOK, Busy
  <2> QED
    BY <1>1, <1>4, <2>1, <2>2, LedgerStart DEF Ledger!Next
<1>5. ASSUME UNCHANGED <<queue, cur, spool, run>> PROVE UNCHANGED Ledger!ledgerVars
  BY <1>5 DEF Ledger!ledgerVars, curId
<1>6. ASSUME ProcessJob PROVE [Ledger!Next]_(Ledger!ledgerVars)
  <2>1. /\ UNCHANGED <<queue, run>>
        /\ cur # None /\ curId \in JobIds
        /\ cur' = None \/ (cur' = cur /\ curId' = curId)
        /\ Submit \/ (UNCHANGED spool /\ SpooledIds' = SpooledIds)
    BY <1>6, ProcessJobFrame
  <2>2. UNCHANGED [i \in DOMAIN queue.pending |-> queue.pending[i].job.job_id]
    BY <2>1
  <2>3. CASE Submit /\ ~UNCHANGED spool
    <3>1. /\ wpc = "submit" /\ cur' = cur
          /\ spool' = Append(spool, SpoolEntry)
      BY <2>3 DEF Submit, JobStep
    <3>2. SpooledIds' = SpooledIds \cup {curId} /\ curId \notin SpooledIds
      BY <2>1, <3>1, SubmitSpools DEF LedgerInv
    <3>3. (IF cur = None THEN None ELSE curId) = curId
          /\ UNCHANGED (IF cur = None THEN None ELSE curId)
      BY <2>1, <3>1
    <3>4. Ledger!PrintActive
      BY <2>1, <2>2, <3>2, <3>3, Zenon DEF Ledger!PrintActive, SpooledIds
    <3> QED
      BY <3>4 DEF Ledger!Next
  <2>4. CASE UNCHANGED spool /\ cur' = cur
    BY <1>5, <2>1, <2>4
  <2>5. CASE UNCHANGED spool /\ cur' = None
    <3>1. (IF cur = None THEN None ELSE curId) # None
      BY <2>1, NoneAssumption
    <3>2. (IF cur = None THEN None ELSE curId)' = None
      BY <2>5
    <3>3. UNCHANGED SpooledIds
      BY <2>1, <2>5 DEF SpooledIds
    <3>4. Ledger!Finish
      BY <2>1, <2>2, <3>1, <3>2, <3>3, Zenon DEF Ledger!Finish, SpooledIds
    <3> QED
      BY <3>4 DEF Ledger!Next
  <2> QED
    BY <2>1, <2>3, <2>4, <2>5
<1>7. ASSUME Restart PROVE Ledger!Next
  BY <1>7, LedgerForget DEF Ledger!Next
<1>8. ASSUME \/ \E c \in Clients : NotifyOne(c)
             \/ WorkerCheck \/ WorkerSelect \/ WorkerWake \/ WorkerCancelled
             \/ WorkerPop /\ queue.pending = <<>>
             \/ \E t \in Testers : TestPrint(t) \/ TestAcquire(t) \/ TestRelease(t)
             \/ \E cfg \in Configs : SaveConfig(cfg)
             \/ Shutdown \/ UNCHANGED vars
      PROVE  UNCHANGED Ledger!ledgerVars
  <2>1. UNCHANGED <<queue, cur, spool, run>>
    BY <1>8 DEF NotifyOne, WorkerCheck, WorkerSelect, WorkerWake, WorkerCancelled, WorkerPop,
       TestPrint, TestAcquire, TestRelease, TesterStep, SaveConfig, Shutdown, vars
  <2> QED
    BY <1>5, <2>1
<1> QED
  BY <1>2, <1>3, <1>4, <1>6, <1>7, <1>8 DEF Next, Submissions, WorkerLoop, TestPrints

\* The agent implements the abstract queue JobLedger: jobs are taken first come
\* first served, batches join whole, one job is under way at a time, and each id
\* is printed at most once between restarts.
THEOREM AgentImplementsLedger == Spec => ImplementsLedger
<1>1. Init => Ledger!Init
  <2> SUFFICES ASSUME Init PROVE Ledger!Init
    OBVIOUS
  <2>1. queue.pending = <<>> /\ queue.seen_job_ids = {} /\ cur = None /\ spool = <<>>
    BY DEF Init, EmptyQueue
  <2>2. [i \in DOMAIN queue.pending |-> queue.pending[i].job.job_id] = <<>>
    BY <2>1
  <2>3. SpooledIds = {}
    BY <2>1 DEF SpooledIds
  <2> QED
    BY <2>1, <2>2, <2>3 DEF Ledger!Init, SpooledIds
<1>2. Spec => []LedgerInv
  BY InitOK, TypeCorrect, LedgerStep, PTL DEF Spec
<1> QED
  BY <1>1, <1>2, TypeCorrect, LedgerRefined, PTL DEF Spec, ImplementsLedger, Ledger!Spec
==============================================================================
