---------------------------- MODULE RemoteWorker ----------------------------
(***************************************************************************)
(* The whole agent: PrintAgent composed with the task that polls a remote  *)
(* service for jobs and reports their fate to it                           *)
(* (crates/runtime/src/remote_worker.rs, remote_client.rs).                *)
(*                                                                         *)
(* The two halves share the queue, its permit, the configuration and the   *)
(* remote store.  The network loses requests and answers; the service may  *)
(* send any task again at any poll.                                        *)
(***************************************************************************)
EXTENDS PrintAgent, FiniteSets

CONSTANTS RemoteTasks,  \* tasks the service may send
          MaxFetch,     \* bound: tasks in one answer
          ReportLimit   \* events taken from the outbox per round (20 in the code)

\* A RemoteTask: Print has no batch_id and one job, PrintBatch has both.
RemoteTask ==
    {t \in [batch_id: BatchIds \cup {None}, jobs: Seq(PrintJobInput)] :
        t.batch_id = None => Len(t.jobs) = 1}

ASSUME RemoteAssumption ==
    /\ RemoteTasks \subseteq RemoteTask
    /\ MaxFetch \in Nat
    /\ ReportLimit \in Nat \ {0}
    /\ None \notin RemoteConfig

VARIABLES
    rpc,       \* where the remote worker is
    rconf,     \* the RemoteConfig it last cloned, or None
    tasks,     \* what is left of the answer; the first task loses jobs as they are seen
    fresh,     \* the jobs of the first task that were recorded as new
    cfgErr,    \* this round met a configuration error
    outbox,    \* the event_ids of this round still to be posted, oldest first
    received   \* reports the service has got: <<job_id, status>>

rvars == <<rpc, rconf, tasks, fresh, cfgErr, outbox, received>>
allVars == <<vars, rvars>>

RemotePcs == {"check", "loop", "fetch", "task", "notify", "report", "post",
              "delivered", "undelivered", "decide", "await_config", "sleep", "stopped"}

RemoteInit ==
    /\ rpc = "check"
    /\ rconf = None
    /\ tasks = <<>>
    /\ fresh = <<>>
    /\ cfgErr = FALSE
    /\ outbox = {}
    /\ received = {}

\* A step of the remote worker.
RemoteStep(from) ==
    /\ rpc = from
    /\ UNCHANGED <<config, wpc, cur, lockVars, spool, history, temp, lifeVars>>

NoQueue == UNCHANGED <<queue, permit, notifying>>

-----------------------------------------------------------------------------
(* The loop: run_worker_until.                                              *)

\* A mutant of RemoteCheck: cancellation is only noticed in the selects.
RemoteCheck_NoCancel ==
    /\ RemoteStep("check")
    /\ NoQueue
    /\ rpc' = "loop"
    /\ rconf' = config.remote
    /\ UNCHANGED <<store, tasks, fresh, cfgErr, outbox, received>>

\* A mutant of RemoteCheck: the configuration of the previous round is kept.
RemoteCheck_NoRead ==
    /\ RemoteStep("check")
    /\ NoQueue
    /\ rpc' = IF cancelled THEN "stopped" ELSE "loop"
    /\ UNCHANGED <<store, rconf, tasks, fresh, cfgErr, outbox, received>>

RemoteCheck ==
    /\ RemoteStep("check")
    /\ NoQueue
    /\ \/ /\ cancelled
          /\ rpc' = "stopped"
          /\ UNCHANGED rconf
       \/ /\ ~cancelled
          /\ rpc' = "loop"
          /\ rconf' = config.remote
    /\ UNCHANGED <<store, tasks, fresh, cfgErr, outbox, received>>

\* A disabled worker waits for a change; poll_once reads the configuration again.
RemoteLoop ==
    /\ RemoteStep("loop")
    /\ NoQueue
    /\ \/ /\ ~rconf.enabled
          /\ rpc' = "await_config"
          /\ rconf' = None
       \/ /\ rconf.enabled
          /\ rpc' = IF config.remote.enabled THEN "fetch" ELSE "report"
          /\ rconf' = config.remote
    /\ UNCHANGED <<store, tasks, fresh, cfgErr, outbox, received>>

\* Neither the poll nor the report saw a configuration error: sleep.
RemoteDecide ==
    /\ RemoteStep("decide")
    /\ NoQueue
    /\ rpc' = IF cfgErr THEN "await_config" ELSE "sleep"
    /\ cfgErr' = FALSE
    /\ rconf' = None
    /\ UNCHANGED <<store, tasks, fresh, outbox, received>>

RemoteAwake ==
    /\ RemoteStep("sleep")
    /\ NoQueue
    /\ rpc' = "check"
    /\ UNCHANGED <<store, rconf, tasks, fresh, cfgErr, outbox, received>>

\* The cancelled branch of each select.
RemoteCancelled ==
    /\ rpc \in {"sleep", "await_config"}
    /\ RemoteStep(rpc)
    /\ cancelled
    /\ NoQueue
    /\ rpc' = "stopped"
    /\ UNCHANGED <<store, rconf, tasks, fresh, cfgErr, outbox, received>>

-----------------------------------------------------------------------------
(* poll_once.                                                               *)

\* fetch_tasks: the tasks, 401/403/404, or another error.
FetchTasks(answer) ==
    /\ RemoteStep("fetch")
    /\ rconf.accepted
    /\ NoQueue
    /\ tasks' = answer
    /\ rpc' = "task"
    /\ UNCHANGED <<store, rconf, fresh, cfgErr, outbox, received>>

FetchFailed ==
    /\ RemoteStep("fetch")
    /\ NoQueue
    /\ cfgErr' \in {~rconf.accepted, FALSE}
    /\ rpc' = "report"
    /\ UNCHANGED <<store, rconf, tasks, fresh, outbox, received>>

\* Any other error ends poll_once: the tasks not yet seen are dropped.
AbortPoll ==
    /\ tasks' = <<>>
    /\ fresh' = <<>>
    /\ rpc' = "report"
    /\ UNCHANGED <<rconf, cfgErr, outbox, received>>

\* validate_remote_job and record_remote_job for the next job.  The job is
\* recorded for good here, before the queue has it.
RecordJob ==
    /\ RemoteStep("task")
    /\ tasks # <<>>
    /\ NoQueue
    /\ LET task == Head(tasks) IN
       /\ task.jobs # <<>>
       /\ LET job == Head(task.jobs) IN
          \/ /\ \/ ~ValidForAcceptance(job, config.max_file_size)
                \/ StoreFails
             /\ AbortPoll
             /\ UNCHANGED store
          \/ /\ ValidForAcceptance(job, config.max_file_size)
             /\ store' = record_job_if_new(store, job.job_id)
             /\ fresh' = IF IsNewJob(store, job.job_id) THEN Append(fresh, job) ELSE fresh
             /\ tasks' = <<[task EXCEPT !.jobs = Tail(@)]>> \o Tail(tasks)
             /\ UNCHANGED <<rpc, rconf, cfgErr, outbox, received>>

\* accept_remote_job or accept_remote_batch, once the task's jobs are recorded;
\* a task of known jobs only is skipped.
AcceptTask ==
    /\ RemoteStep("task")
    /\ tasks # <<>>
    /\ Head(tasks).jobs = <<>>
    /\ UNCHANGED <<permit, store>>
    /\ LET b == Head(tasks).batch_id
           ok == IF b = None THEN CanAcceptJob(queue, fresh[1])
                             ELSE CanAcceptBatch(queue, b, fresh)
       IN
       \/ /\ fresh = <<>>
          /\ tasks' = Tail(tasks)
          /\ UNCHANGED <<queue, notifying, rpc, rconf, fresh, cfgErr, outbox, received>>
       \/ /\ fresh # <<>> /\ ok
          /\ queue' = IF b = None THEN accept_queued_job(queue, fresh[1], TRUE)
                                  ELSE accept_batch(queue, b, fresh, TRUE)
          /\ notifying' = notifying \cup {"remote"}
          /\ tasks' = Tail(tasks)
          /\ fresh' = <<>>
          /\ rpc' = "notify"
          /\ UNCHANGED <<rconf, cfgErr, outbox, received>>
       \/ /\ fresh # <<>> /\ ~ok
          /\ AbortPoll
          /\ UNCHANGED <<queue, notifying>>

RemoteNotify ==
    /\ rpc = "notify"
    /\ NotifyOne("remote")
    /\ rpc' = "task"
    /\ UNCHANGED <<rconf, tasks, fresh, cfgErr, outbox, received>>

PollDone ==
    /\ RemoteStep("task")
    /\ tasks = <<>>
    /\ NoQueue
    /\ rpc' = "report"
    /\ UNCHANGED <<store, rconf, tasks, fresh, cfgErr, outbox, received>>

-----------------------------------------------------------------------------
(* report_pending_once.                                                     *)

\* pending_status_events: due, oldest first, at most ReportLimit.
pending_status_events(s) ==
    {i \in DuePending(s) : Cardinality({k \in DuePending(s) : k =< i}) =< ReportLimit}

\* A mutant of ReportBegin: events are marked delivered when they are taken.
ReportBegin_MarkFirst ==
    /\ RemoteStep("report")
    /\ NoQueue
    /\ \/ /\ ~config.remote.enabled
          /\ rpc' = "decide"
          /\ UNCHANGED <<store, rconf, outbox>>
       \/ /\ config.remote.enabled
          /\ rconf' = config.remote
          /\ outbox' = pending_status_events(store)
          /\ store' = [store EXCEPT !.events = [i \in DOMAIN @ |->
                          [@[i] EXCEPT !.delivery_state = "delivered"]]]
          /\ rpc' = "post"
    /\ UNCHANGED <<tasks, fresh, cfgErr, received>>

ReportBegin ==
    /\ RemoteStep("report")
    /\ NoQueue
    /\ \/ /\ ~config.remote.enabled \/ StoreFails
          /\ rpc' = "decide"
          /\ UNCHANGED <<rconf, outbox>>
       \/ /\ config.remote.enabled
          /\ rconf' = config.remote
          /\ outbox' = pending_status_events(store)
          /\ rpc' = "post"
    /\ UNCHANGED <<store, tasks, fresh, cfgErr, received>>

IsOldest(id) == \A k \in outbox : id =< k

\* report_status: a 2xx answer, a configuration error, or another error, of
\* which a lost answer is one: the service may have the report.
PostReport ==
    /\ RemoteStep("post")
    /\ NoQueue
    /\ \E id \in outbox :
       LET e == store.events[id]
           got == received \cup {<<e.job_id, e.status>>}
       IN
       /\ IsOldest(id)
       /\ \/ /\ rconf.accepted
             /\ received' = got
             /\ rpc' = "delivered"
             /\ UNCHANGED <<cfgErr, outbox>>
          \/ /\ ~rconf.accepted
             /\ cfgErr' = TRUE
             /\ outbox' = {}
             /\ rpc' = "decide"
             /\ UNCHANGED received
          \/ /\ received' \in {received} \cup (IF rconf.accepted THEN {got} ELSE {})
             /\ rpc' = "undelivered"
             /\ UNCHANGED <<cfgErr, outbox>>
    /\ UNCHANGED <<store, rconf, tasks, fresh>>

\* The outcome is written down after the answer; a failing store ends the round.
MarkReport ==
    /\ rpc \in {"delivered", "undelivered"}
    /\ RemoteStep(rpc)
    /\ NoQueue
    /\ \/ \E id \in outbox :
          /\ IsOldest(id)
          /\ store' = IF rpc = "delivered"
                      THEN mark_delivered(store, id)
                      ELSE mark_delivery_failed(store, id,
                             IF rconf.max_report_retries < 1 THEN 1
                             ELSE rconf.max_report_retries)
          /\ outbox' = outbox \ {id}
          /\ rpc' = "post"
       \/ /\ StoreFails
          /\ outbox' = {}
          /\ rpc' = "decide"
          /\ UNCHANGED store
    /\ UNCHANGED <<rconf, tasks, fresh, cfgErr, received>>

ReportDone ==
    /\ RemoteStep("post")
    /\ outbox = {}
    /\ NoQueue
    /\ rpc' = "decide"
    /\ UNCHANGED <<store, rconf, tasks, fresh, cfgErr, outbox, received>>

\* The clock reaches the retry times that were set.
RetryDue ==
    /\ Postponed(store) # {}
    /\ store' = retry_time_passed(store)
    /\ UNCHANGED <<config, queue, permit, notifying, wpc, cur, lockVars, spool, history,
                   temp, lifeVars, rvars>>

-----------------------------------------------------------------------------
(* Composition.                                                             *)

\* remote_notify.notify_waiters() wakes a worker that waits and nobody else.
RemoteSaveConfig(cfg) ==
    /\ SaveConfig(cfg)
    /\ rpc' = IF rpc = "await_config" THEN "check" ELSE rpc
    /\ UNCHANGED <<rconf, tasks, fresh, cfgErr, outbox, received>>

\* What the service has got does not depend on the agent's process.
RemoteRestart ==
    /\ Restart
    /\ rpc' = "check"
    /\ rconf' = None
    /\ tasks' = <<>>
    /\ fresh' = <<>>
    /\ cfgErr' = FALSE
    /\ outbox' = {}
    /\ UNCHANGED received

Answers == UNION {[1..n -> RemoteTasks] : n \in 0..MaxFetch}

Poll ==
    \/ \E answer \in Answers : FetchTasks(answer)
    \/ FetchFailed \/ RecordJob \/ AcceptTask \/ RemoteNotify \/ PollDone

Report == ReportBegin \/ PostReport \/ MarkReport \/ ReportDone

RemoteTaskLoop ==
    RemoteCheck \/ RemoteLoop \/ RemoteDecide \/ RemoteAwake \/ RemoteCancelled

LocalNext == Submissions \/ WorkerLoop \/ ProcessJob \/ TestPrints \/ Shutdown

RemoteNext ==
    \/ LocalNext /\ UNCHANGED rvars
    \/ Poll \/ Report \/ RemoteTaskLoop
    \/ RetryDue
    \/ \E cfg \in Configs : RemoteSaveConfig(cfg)
    \/ RemoteRestart

RemoteSpec == Init /\ RemoteInit /\ [][RemoteNext]_allVars
-----------------------------------------------------------------------------
(* Fairness.  The remote worker is a tokio task; requests end with an       *)
(* answer or an error and time passes.  The network owes nothing: every     *)
(* request may fail.                                                        *)

RemoteFairness ==
    /\ WF_allVars(Poll)
    /\ WF_allVars(Report)
    /\ WF_allVars(RemoteTaskLoop)
    /\ WF_allVars(RetryDue)

RemoteFairSpec == RemoteSpec /\ AgentFairness /\ RemoteFairness

-----------------------------------------------------------------------------
(* Properties.                                                              *)

\* Every variable of the remote worker holds a value of its type, and the
\* worker marks an event only while it has one at hand.
RemoteTypeOK ==
    /\ rpc \in RemotePcs
    /\ rconf \in RemoteConfig \cup {None}
    /\ rpc \in {"loop", "fetch", "task", "notify", "post", "delivered", "undelivered"}
            => rconf # None
    /\ tasks \in Seq([batch_id: BatchIds \cup {None}, jobs: Seq(PrintJobInput)])
    /\ fresh \in Seq(PrintJobInput)
    /\ cfgErr \in BOOLEAN
    /\ outbox \subseteq DOMAIN store.events
    /\ rpc \in {"delivered", "undelivered"} => outbox # {}
    /\ received \subseteq JobIds \X ReportStatuses

PrintedRemotely(j) == \E i \in DOMAIN spool : spool[i].job_id = j /\ spool[i].remote

\* A remote job is printed at most once, however often the service sends it,
\* alone or in batches, and however often the process restarts: the record made
\* before it is queued outlives the queue.
RemoteAtMostOnce ==
    \A i, k \in {n \in DOMAIN spool : spool[n].remote} :
        spool[i].job_id = spool[k].job_id => i = k

\* Everything the service was told or will be told.
Reports ==
    received \cup {<<store.events[i].job_id, store.events[i].status>> : i \in DOMAIN store.events}

\* The service is told success only of a job that reached the printer, and
\* failed only of one that did not and will not, through crashes, repeated
\* tasks, and tracking outcomes that arrive after the success was reported.
VerdictTruthful ==
    \A j \in JobIds :
        /\ <<j, "success">> \in Reports => PrintedRemotely(j)
        /\ <<j, "failed">> \in Reports => ~PrintedRemotely(j)

\* An event counts as delivered only if the service has the report.
DeliveredIsReceived ==
    \A i \in DOMAIN store.events :
        store.events[i].delivery_state = "delivered" =>
            <<store.events[i].job_id, store.events[i].status>> \in received

\* An event once delivered or abandoned is never posted or counted again.
DeliveryIsFinal ==
    [][\A i \in DOMAIN store.events :
        store.events[i].delivery_state # "pending" =>
            /\ store'.events[i].delivery_state = store.events[i].delivery_state
            /\ store'.events[i].retry_count = store.events[i].retry_count]_allVars

\* The service's job j has its verdict: delivered, or given up after retries.
VerdictSettled(j) ==
    \E i \in DOMAIN store.events :
        /\ store.events[i].job_id = j
        /\ store.events[i].status \in {"success", "failed"}
        /\ store.events[i].delivery_state # "pending"

PendingRemotely(j) ==
    \E i \in DOMAIN queue.pending :
        queue.pending[i].job.job_id = j /\ queue.pending[i].remote

\* With an endpoint that stays enabled and accepted, the service learns the fate
\* of every remote job that was queued, or the retries run out, or the agent is
\* stopped.
RemoteJobIsReported ==
    \A j \in JobIds :
        PendingRemotely(j) ~> VerdictSettled(j) \/ wpc = "stopped" \/ rpc = "stopped"

\* A cancelled agent stops both of its workers.
RemoteShutdownCompletes == cancelled ~> wpc = "stopped" /\ rpc = "stopped"

\* A worker paused by a configuration error resumes once the user has saved a
\* configuration that the service accepts.
ResumesAfterUpdate ==
    <>[](config.remote.enabled /\ config.remote.accepted /\ ~cancelled)
        => []<>(rpc # "await_config")

\* An event is abandoned after more failures than max_report_retries.
AbandonedExceedsMax ==
    \A i \in DOMAIN store.events :
        store.events[i].delivery_state = "abandoned" =>
            store.events[i].retry_count > config.remote.max_report_retries
=============================================================================
