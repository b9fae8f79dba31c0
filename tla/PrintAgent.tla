----------------------------- MODULE PrintAgent -----------------------------
(***************************************************************************)
(* The print agent's local half: WebSocket clients that submit jobs        *)
(* (crates/runtime/src/server.rs), the queue they share, the single queue  *)
(* worker that prints (crates/runtime/src/queue.rs), calibration prints    *)
(* that compete for the print lock (crates/runtime/src/test_print.rs),     *)
(* configuration changes (state.rs), graceful shutdown (agent.rs), and     *)
(* crashes.                                                                *)
(*                                                                         *)
(* One action is one stretch of code between two points where another      *)
(* task, or a crash, can be observed: an await, a lock, a subprocess, a    *)
(* network request.                                                        *)
(***************************************************************************)
EXTENDS QueueState, RemoteStore, Integers

CONSTANTS Clients,       \* WebSocket connections
          Testers,       \* callers of print_calibration_page
          Inputs,        \* jobs a client may submit
          Configs,       \* configurations a user may save or try
          StoreFails,    \* whether statements on the remote store may fail
          MaxRuns,       \* bound: process incarnations
          MaxClientBatch \* bound: jobs in a batch a client sends

RemoteConfig ==
    [enabled: BOOLEAN, accepted: BOOLEAN, max_report_retries: Nat]

\* AgentConfig.  default_printer and default_paper say whether one is set;
\* remote.accepted says whether the server accepts the endpoint and token.
AgentConfig ==
    [default_printer: BOOLEAN, default_paper: BOOLEAN, max_copies: Nat,
     max_file_size: Nat, max_batch_jobs: Nat, remote: RemoteConfig]

ASSUME AgentAssumption ==
    /\ Inputs \subseteq PrintJobInput
    /\ Configs \subseteq AgentConfig
    /\ Configs # {}
    /\ StoreFails \in BOOLEAN
    /\ MaxRuns \in Nat \ {0}
    /\ MaxClientBatch \in Nat
    /\ "remote" \notin Clients
    /\ "worker" \notin Testers /\ None \notin Testers
    /\ None # "worker" /\ None \notin QueuedJob /\ None \notin ReportStatuses

VARIABLES
    config,     \* AgentState.config
    queue,      \* AgentState.queue
    permit,     \* the permit stored in AgentState.queue_notify
    notifying,  \* who has accepted a job but not yet called notify_one
    wpc,        \* where the queue worker is
    cur,        \* the job it processes, or None
    printLock,  \* who holds AgentState.print_lock, or None
    tpc,        \* where each calibration print is
    spool,      \* jobs handed to the operating system, in order
    history,    \* the statuses this process recorded for each job, in order
    store,      \* RemoteStore
    temp,       \* temporary files this process made: <<job_id, kind>>
    cancelled,  \* the shutdown token
    run         \* how often the process was started

lockVars == <<printLock, tpc>>
lifeVars == <<cancelled, run>>
vars == <<config, queue, permit, notifying, wpc, cur, printLock, tpc,
          spool, history, store, temp, cancelled, run>>

\* JobStatus; Cancelled is never produced.
Statuses == {"queued", "downloading", "printing", "submitted",
             "completed", "failed", "unknown"}

WorkerPcs == {"check", "pop", "idle", "wait", "begin", "resolve", "render",
              "download", "prepare", "print", "lock", "submit", "log_submitted",
              "track", "clean_ok", "clean_err", "fail", "stopped"}

\* The worker holds a job.
Busy == wpc \notin {"check", "pop", "idle", "wait", "stopped"}

curId == cur.job.job_id

Init ==
    /\ config \in Configs
    /\ queue = EmptyQueue
    /\ permit = FALSE
    /\ notifying = {}
    /\ wpc = "check"
    /\ cur = None
    /\ printLock = None
    /\ tpc = [t \in Testers |-> "idle"]
    /\ spool = <<>>
    /\ history = [j \in JobIds |-> <<>>]
    /\ store = EmptyStore
    /\ temp = {}
    /\ cancelled = FALSE
    /\ run = 1

-----------------------------------------------------------------------------
(* Clients: handle_client_text.  A rejected message changes no state.  The  *)
(* handler copies the configuration under its own lock before it locks the  *)
(* queue; the two are one step here, since the worker checks each job again *)
(* against the configuration of its time.  The handler releases the queue   *)
(* lock before it calls notify_one.  Connections already open keep being    *)
(* served while the agent shuts down.                                       *)

ClientPrint(c, job) ==
    /\ c \notin notifying
    /\ ValidForAcceptance(job, config.max_file_size)
    /\ CanAcceptJob(queue, job)
    /\ queue' = accept_queued_job(queue, job, FALSE)
    /\ notifying' = notifying \cup {c}
    /\ UNCHANGED <<config, permit, wpc, cur, lockVars, spool, history, store, temp, lifeVars>>

ClientPrintBatch(c, batch_id, jobs) ==
    /\ c \notin notifying
    /\ Len(jobs) =< config.max_batch_jobs
    /\ \A i \in DOMAIN jobs : ValidForAcceptance(jobs[i], config.max_file_size)
    /\ CanAcceptBatch(queue, batch_id, jobs)
    /\ queue' = accept_batch(queue, batch_id, jobs, FALSE)
    /\ notifying' = notifying \cup {c}
    /\ UNCHANGED <<config, permit, wpc, cur, lockVars, spool, history, store, temp, lifeVars>>

\* A mutant of NotifyOne: wake only a worker that already waits, as
\* notify_waiters does, and store no permit.
NotifyOne_Waiters(c) ==
    /\ c \in notifying
    /\ notifying' = notifying \ {c}
    /\ permit' = (permit \/ wpc = "wait")
    /\ UNCHANGED <<config, queue, wpc, cur, lockVars, spool, history, store, temp, lifeVars>>

\* queue_notify.notify_one(): the permit is stored when nobody waits.
NotifyOne(c) ==
    /\ c \in notifying
    /\ notifying' = notifying \ {c}
    /\ permit' = TRUE
    /\ UNCHANGED <<config, queue, wpc, cur, lockVars, spool, history, store, temp, lifeVars>>

-----------------------------------------------------------------------------
(* The worker loop: run_worker_until.                                       *)

WorkerCheck ==
    /\ wpc = "check"
    /\ wpc' = IF cancelled THEN "stopped" ELSE "pop"
    /\ UNCHANGED <<config, queue, permit, notifying, cur, lockVars, spool, history,
                   store, temp, lifeVars>>

\* The queue lock was awaited after the check, and is released before the job is
\* processed or, when there is none, before the worker waits.
WorkerPop ==
    /\ wpc = "pop"
    /\ \/ /\ queue.pending # <<>>
          /\ cur' = Head(queue.pending)
          /\ queue' = pop_next(queue)
          /\ wpc' = "begin"
       \/ /\ queue.pending = <<>>
          /\ wpc' = "idle"
          /\ UNCHANGED <<cur, queue>>
    /\ UNCHANGED <<config, permit, notifying, lockVars, spool, history, store, temp, lifeVars>>

\* The worker enters the select over cancellation and notification.
WorkerSelect ==
    /\ wpc = "idle"
    /\ wpc' = "wait"
    /\ UNCHANGED <<config, queue, permit, notifying, cur, lockVars, spool, history,
                   store, temp, lifeVars>>

WorkerWake ==
    /\ wpc = "wait"
    /\ permit
    /\ permit' = FALSE
    /\ wpc' = "check"
    /\ UNCHANGED <<config, queue, notifying, cur, lockVars, spool, history, store, temp, lifeVars>>

\* A mutant of WorkerCancelled: an idle worker notices only when it is notified.
WorkerCancelled_WhenNotified ==
    /\ wpc = "wait"
    /\ cancelled
    /\ permit
    /\ wpc' = "stopped"
    /\ UNCHANGED <<config, queue, permit, notifying, cur, lockVars, spool, history,
                   store, temp, lifeVars>>

WorkerCancelled ==
    /\ wpc = "wait"
    /\ cancelled
    /\ wpc' = "stopped"
    /\ UNCHANGED <<config, queue, permit, notifying, cur, lockVars, spool, history,
                   store, temp, lifeVars>>

-----------------------------------------------------------------------------
(* Status bookkeeping.                                                      *)

\* remote_status_for_job_status
remote_status_for_job_status(status) ==
    CASE status = "queued"    -> "accepted"
      [] status = "submitted" -> "success"
      [] status = "failed"    -> "failed"
      [] OTHER                -> None

\* push_log_with_print_metadata_and_remote: every status goes to the log, the
\* subscribers and the task history, which is `history` for all three; those of
\* remote jobs that the protocol reports go to the outbox as well.  An error of
\* the outbox is dropped.
push_log(status, enqueue_remote) ==
    /\ history' = [history EXCEPT ![curId] = Append(@, status)]
    /\ \/ store' = IF /\ enqueue_remote
                      /\ cur.remote
                      /\ remote_status_for_job_status(status) # None
                   THEN insert_status_event(store, curId, remote_status_for_job_status(status))
                   ELSE store
       \/ StoreFails /\ UNCHANGED store

NoLog == UNCHANGED <<history, store>>

\* A step of the worker on its current job that leaves the other tasks alone.
JobStep(from) ==
    /\ wpc = from
    /\ UNCHANGED <<config, queue, permit, notifying, tpc, lifeVars>>

TempFile(kind) == <<curId, kind>>

-----------------------------------------------------------------------------
(* One job: process_job and process_job_inner.                              *)

LogQueued ==
    /\ JobStep("begin")
    /\ push_log("queued", TRUE)
    /\ wpc' = "resolve"
    /\ UNCHANGED <<cur, printLock, spool, temp>>

resolve_printer_name(job, cfg) == job.printer \/ cfg.default_printer

\* resolve_file_print_options succeeds.
resolve_print_options(job, cfg) ==
    /\ resolve_printer_name(job, cfg)
    /\ job.paper \/ cfg.default_paper
    /\ job.copies # 0 /\ job.copies =< cfg.max_copies

\* html and raw-html: options first, then the renderer.
StartHtml ==
    /\ JobStep("resolve")
    /\ cur.job.format = "html"
    /\ wpc' = IF resolve_print_options(cur.job, config) THEN "render" ELSE "fail"
    /\ NoLog
    /\ UNCHANGED <<cur, printLock, spool, temp>>

\* raw: the size limit is checked again, against the configuration of now.
StartRaw ==
    /\ JobStep("resolve")
    /\ cur.job.format = "raw"
    /\ \/ /\ resolve_printer_name(cur.job, config)
          /\ cur.job.size =< config.max_file_size
          /\ push_log("printing", TRUE)
          /\ wpc' = "lock"
       \/ /\ \/ ~resolve_printer_name(cur.job, config)
             \/ cur.job.size > config.max_file_size
          /\ NoLog
          /\ wpc' = "fail"
    /\ UNCHANGED <<cur, printLock, spool, temp>>

\* Files: the status goes out before the options are resolved.
StartFile ==
    /\ JobStep("resolve")
    /\ cur.job.format \in {"pdf", "image", "office"}
    /\ push_log("downloading", TRUE)
    /\ wpc' = IF resolve_print_options(cur.job, config) THEN "download" ELSE "fail"
    /\ UNCHANGED <<cur, printLock, spool, temp>>

\* print_html_job up to the submission.  A failed rendering leaves no output.
RenderHtml ==
    /\ JobStep("render")
    /\ \/ /\ push_log("printing", TRUE)
          /\ temp' = temp \cup {TempFile("output")}
          /\ wpc' = "print"
       \/ /\ NoLog
          /\ wpc' = "fail"
          /\ UNCHANGED temp
    /\ UNCHANGED <<cur, printLock, spool>>

\* download_to_temp removes its partial file on every error.
Download ==
    /\ JobStep("download")
    /\ \/ /\ temp' = temp \cup {TempFile("download")}
          /\ wpc' = "prepare"
       \/ /\ wpc' = "fail"
          /\ UNCHANGED temp
    /\ NoLog
    /\ UNCHANGED <<cur, printLock, spool>>

\* prepare_printable_pdf.  An Office conversion that fails removes its output;
\* a PDF copy or an image conversion that fails while it writes does not.
PreparePdf ==
    /\ JobStep("prepare")
    /\ \/ /\ temp' = temp \cup {TempFile("output")}
          /\ wpc' = "print"
          /\ IF cur.job.format = "office" THEN push_log("printing", TRUE) ELSE NoLog
       \/ /\ NoLog
          /\ UNCHANGED temp
          /\ wpc' = "clean_err"
       \/ /\ cur.job.format \in {"pdf", "image"}
          /\ NoLog
          /\ temp' = (temp \ {TempFile("download")}) \cup {TempFile("output")}
          /\ wpc' = "fail"
    /\ UNCHANGED <<cur, printLock, spool>>

\* submit_pdf_and_track up to the print lock.
LogPrinting ==
    /\ JobStep("print")
    /\ push_log("printing", TRUE)
    /\ wpc' = "lock"
    /\ UNCHANGED <<cur, printLock, spool, temp>>

\* A mutant of AcquirePrintLock: print without waiting for the lock.
AcquirePrintLock_NoWait ==
    /\ JobStep("lock")
    /\ printLock' = "worker"
    /\ wpc' = "submit"
    /\ NoLog
    /\ UNCHANGED <<cur, spool, temp>>

AcquirePrintLock ==
    /\ JobStep("lock")
    /\ printLock = None
    /\ printLock' = "worker"
    /\ wpc' = "submit"
    /\ NoLog
    /\ UNCHANGED <<cur, spool, temp>>

SpoolEntry == [job_id |-> curId, remote |-> cur.remote, run |-> run]

\* A mutant of Submit: an error of the backend is ignored.
Submit_ErrorIgnored ==
    /\ JobStep("submit")
    /\ printLock' = None
    /\ spool' \in {Append(spool, SpoolEntry), spool}
    /\ wpc' = "log_submitted"
    /\ NoLog
    /\ UNCHANGED <<cur, temp>>

\* The call of print_pdf or print_raw under the lock.  A backend that reports
\* an error has printed nothing.
Submit ==
    /\ JobStep("submit")
    /\ printLock' = None
    /\ \/ /\ spool' = Append(spool, SpoolEntry)
          /\ wpc' = "log_submitted"
       \/ /\ wpc' = "clean_err"
          /\ UNCHANGED spool
    /\ NoLog
    /\ UNCHANGED <<cur, temp>>

LogSubmitted ==
    /\ JobStep("log_submitted")
    /\ push_log("submitted", TRUE)
    /\ wpc' \in {"track", "clean_ok"}
    /\ UNCHANGED <<cur, printLock, spool, temp>>

\* A mutant of Track: the tracking outcome is reported to the remote service.
Track_Reported ==
    /\ JobStep("track")
    /\ \E outcome \in {"completed", "failed", "unknown"} : push_log(outcome, TRUE)
    /\ wpc' = "clean_ok"
    /\ UNCHANGED <<cur, printLock, spool, temp>>

\* track_submission: logged, but never reported to the remote service.
Track ==
    /\ JobStep("track")
    /\ \E outcome \in {"completed", "failed", "unknown"} : push_log(outcome, FALSE)
    /\ wpc' = "clean_ok"
    /\ UNCHANGED <<cur, printLock, spool, temp>>

TempOfCur == {TempFile("download"), TempFile("output")}

\* A mutant of Cleanup: only the printable PDF is removed.
Cleanup_OutputOnly ==
    /\ wpc \in {"clean_ok", "clean_err"}
    /\ JobStep(wpc)
    /\ temp' = temp \ {TempFile("output")}
    /\ wpc' = IF wpc = "clean_ok" THEN "check" ELSE "fail"
    /\ cur' = IF wpc = "clean_ok" THEN None ELSE cur
    /\ NoLog
    /\ UNCHANGED <<printLock, spool>>

\* The temporary files go before a failure is logged.  cleanup_file ignores an
\* error of the removal, which is taken to succeed.
Cleanup ==
    /\ wpc \in {"clean_ok", "clean_err"}
    /\ JobStep(wpc)
    /\ temp' = temp \ TempOfCur
    /\ wpc' = IF wpc = "clean_ok" THEN "check" ELSE "fail"
    /\ cur' = IF wpc = "clean_ok" THEN None ELSE cur
    /\ NoLog
    /\ UNCHANGED <<printLock, spool>>

\* A mutant of LogFailed: the worker keeps the job when it goes back to the loop.
LogFailed_KeepJob ==
    /\ JobStep("fail")
    /\ push_log("failed", TRUE)
    /\ wpc' = "check"
    /\ UNCHANGED <<cur, printLock, spool, temp>>

LogFailed ==
    /\ JobStep("fail")
    /\ push_log("failed", TRUE)
    /\ wpc' = "check"
    /\ cur' = None
    /\ UNCHANGED <<printLock, spool, temp>>

ProcessJob ==
    \/ LogQueued \/ StartHtml \/ StartRaw \/ StartFile
    \/ RenderHtml \/ Download \/ PreparePdf \/ LogPrinting
    \/ AcquirePrintLock \/ Submit \/ LogSubmitted \/ Track
    \/ Cleanup \/ LogFailed

-----------------------------------------------------------------------------
(* Calibration prints: print_calibration_page_with_config.                  *)

TesterStep(t, from, to) ==
    /\ tpc[t] = from
    /\ tpc' = [tpc EXCEPT ![t] = to]
    /\ UNCHANGED <<config, queue, permit, notifying, wpc, cur, spool, history, store,
                   temp, lifeVars>>

\* The configuration is the saved one or one that a user is still editing.
TestPrint(t) ==
    /\ \E cfg \in Configs : cfg.default_printer /\ cfg.default_paper
    /\ TesterStep(t, "idle", "lock")
    /\ UNCHANGED printLock

TestAcquire(t) ==
    /\ printLock = None
    /\ TesterStep(t, "lock", "print")
    /\ printLock' = t

TestRelease(t) ==
    /\ TesterStep(t, "print", "idle")
    /\ printLock' = None

-----------------------------------------------------------------------------
(* Configuration and lifecycle.                                             *)

\* save_config: persisted, then visible to every reader.
SaveConfig(cfg) ==
    /\ config' = cfg
    /\ UNCHANGED <<queue, permit, notifying, wpc, cur, lockVars, spool, history, store,
                   temp, lifeVars>>

\* AgentHandle::shutdown cancels the token; the tasks notice by themselves.
Shutdown ==
    /\ ~cancelled
    /\ cancelled' = TRUE
    /\ UNCHANGED <<config, queue, permit, notifying, wpc, cur, lockVars, spool, history,
                   store, temp, run>>

\* The process ends, by a crash or after a shutdown, and is started again.  The
\* spool, the configuration and the remote store stay.  Nothing reads back the
\* task history or the temporary files of an earlier process, so `history` and
\* `temp` start anew.
Restart ==
    /\ run < MaxRuns
    /\ run' = run + 1
    /\ cancelled' = FALSE
    /\ queue' = EmptyQueue
    /\ permit' = FALSE
    /\ notifying' = {}
    /\ wpc' = "check"
    /\ cur' = None
    /\ printLock' = None
    /\ tpc' = [t \in Testers |-> "idle"]
    /\ history' = [j \in JobIds |-> <<>>]
    /\ temp' = {}
    /\ UNCHANGED <<config, spool, store>>

-----------------------------------------------------------------------------
\* Batches a client may send.
ClientBatches == UNION {[1..n -> Inputs] : n \in 0..MaxClientBatch}

Submissions ==
    \E c \in Clients :
        \/ \E job \in Inputs : ClientPrint(c, job)
        \/ \E b \in BatchIds, jobs \in ClientBatches : ClientPrintBatch(c, b, jobs)
        \/ NotifyOne(c)

WorkerLoop ==
    WorkerCheck \/ WorkerPop \/ WorkerSelect \/ WorkerWake \/ WorkerCancelled

TestPrints == \E t \in Testers : TestPrint(t) \/ TestAcquire(t) \/ TestRelease(t)

Next ==
    \/ Submissions
    \/ WorkerLoop
    \/ ProcessJob
    \/ TestPrints
    \/ \E cfg \in Configs : SaveConfig(cfg)
    \/ Shutdown
    \/ Restart

Spec == Init /\ [][Next]_vars

-----------------------------------------------------------------------------
(* Fairness.  The tokio tasks of the worker and of the client handlers are  *)
(* scheduled until they wait, downloads, renderings, conversions and print  *)
(* commands end, and tokio's Mutex queues its waiters in order, so a waiter *)
(* for the print lock that could have it again and again gets it.  Nothing  *)
(* makes clients submit, users save, or the process stop.                   *)

AgentFairness ==
    /\ \A c \in Clients : WF_vars(NotifyOne(c))
    /\ WF_vars(WorkerLoop)
    /\ WF_vars(ProcessJob)
    /\ SF_vars(AcquirePrintLock)
    /\ \A t \in Testers : WF_vars(TestRelease(t))

FairSpec == Spec /\ AgentFairness

-----------------------------------------------------------------------------
(* Properties.                                                              *)

SpoolEntries == [job_id: JobIds, remote: BOOLEAN, run: 1..MaxRuns]

TempFiles == JobIds \X {"download", "output"}

\* Every variable holds a value of its type.
TypeOK ==
    /\ config \in Configs
    /\ queue \in QueueType
    /\ permit \in BOOLEAN
    /\ notifying \subseteq Clients \cup {"remote"}
    /\ wpc \in WorkerPcs
    /\ cur \in QueuedJob \cup {None}
    /\ Busy <=> cur # None
    /\ printLock \in Testers \cup {"worker", None}
    /\ tpc \in [Testers -> {"idle", "lock", "print"}]
    /\ spool \in Seq(SpoolEntries)
    /\ history \in [JobIds -> Seq(Statuses)]
    /\ store \in StoreType
    /\ temp \subseteq TempFiles
    /\ cancelled \in BOOLEAN
    /\ run \in 1..MaxRuns

\* A worker that waits, or is about to, while jobs are pending will be woken: the
\* permit is stored, or a handler that accepted a job has yet to call notify_one.
\* The queue lock is released before notify_one and the worker waits after it
\* looked, so either side may be overtaken by the other.
NoLostWakeup ==
    wpc \in {"idle", "wait"} /\ queue.pending # <<>> => permit \/ notifying # {}

\* Within one life of the process no job id reaches the printer twice, however
\* clients repeat it alone or in batches.
OncePerRun ==
    \A i, k \in DOMAIN spool :
        spool[i].job_id = spool[k].job_id /\ spool[i].run = spool[k].run => i = k

\* Two callers are never inside the printing backend at the same time.
PrintExclusive ==
    \A t \in Testers : tpc[t] = "print" =>
        /\ wpc # "submit"
        /\ \A u \in Testers : tpc[u] = "print" => u = t

\* j was accepted by this process and the worker is through with it.
Finished(j) ==
    /\ j \in queue.seen_job_ids
    /\ j \notin PendingIds(queue)
    /\ cur = None \/ curId # j

SpooledNow(j) == \E i \in DOMAIN spool : spool[i].job_id = j /\ spool[i].run = run

\* What the history says of a finished job is what happened to it: it was
\* printed exactly when the history says submitted, a job that was not printed
\* ends with failed, and one that was is not failed except by its tracking.
HistoryTruthful ==
    \A j \in JobIds : Finished(j) =>
        LET h == history[j] n == Len(h) IN
        /\ n > 1
        /\ \A i \in 1..n : h[i] = "queued" <=> i = 1
        /\ SpooledNow(j) <=> "submitted" \in {h[i] : i \in 1..n}
        /\ SpooledNow(j) => \/ h[n] = "submitted"
                            \/ h[n - 1] = "submitted"
        /\ ~SpooledNow(j) => h[n] = "failed"

\* When the worker is through with a job, its download is gone from disk, and
\* so is its printable PDF unless the job failed.  This is about the removals the
\* worker undertakes; one that the system refuses leaves its file.
TempCleaned ==
    \A f \in temp : Finished(f[1]) => f[2] = "output" /\ ~SpooledNow(f[1])

\* A job waiting in the queue is settled, unless the agent stops before it.
AcceptedIsSettled ==
    \A j \in JobIds :
        j \in PendingIds(queue) ~> Finished(j) \/ wpc = "stopped"

\* A cancelled worker finishes its job, if it has one, and stops.
ShutdownCompletes == cancelled ~> wpc = "stopped"

\* After cancellation the worker begins no further job.
NoJobAfterCancel == [][cancelled => ~(wpc = "pop" /\ wpc' = "begin")]_vars

\* The abstract queue this one implements.
Ledger == INSTANCE JobLedger WITH
    Ids     <- JobIds,
    Nobody  <- None,
    line    <- [i \in DOMAIN queue.pending |-> queue.pending[i].job.job_id],
    active  <- IF cur = None THEN None ELSE curId,
    known   <- queue.seen_job_ids,
    printed <- {spool[i].job_id : i \in {k \in DOMAIN spool : spool[k].run = run}}

\* The agent implements the abstract queue: first come first served, batches
\* whole, one job at a time, each printed at most once.
ImplementsLedger == Ledger!Spec
=============================================================================
