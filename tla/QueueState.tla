----------------------------- MODULE QueueState -----------------------------
(***************************************************************************)
(* The in-memory FIFO of crates/core/src/queue.rs: pending jobs and the    *)
(* job and batch identifiers already accepted by this process.  The        *)
(* identifiers are never forgotten while the process lives.                *)
(*                                                                         *)
(* The operators are pure: the agent holds the value in a variable and     *)
(* updates it under AgentState.queue's mutex.                              *)
(***************************************************************************)
EXTENDS JobTypes, Sequences

\* A QueuedJob: the input, the batch it came in and whether it was polled from
\* the remote service.
QueuedJob == [job: PrintJobInput, batch_id: BatchIds \cup {None}, remote: BOOLEAN]

QueueType ==
    [pending: Seq(QueuedJob),
     seen_job_ids: SUBSET JobIds,
     seen_batch_ids: SUBSET BatchIds]

\* QueueState::default
EmptyQueue == [pending |-> <<>>, seen_job_ids |-> {}, seen_batch_ids |-> {}]

IdsOf(jobs) == {jobs[i].job_id : i \in DOMAIN jobs}

PendingIds(q) == {q.pending[i].job.job_id : i \in DOMAIN q.pending}

\* The condition under which accept_queued_job returns Ok.
CanAcceptJob(q, job) == job.job_id \notin q.seen_job_ids

accept_queued_job(q, job, remote) ==
    [q EXCEPT !.pending = Append(@, [job |-> job, batch_id |-> None, remote |-> remote]),
              !.seen_job_ids = @ \cup {job.job_id}]

\* A mutant of CanAcceptBatch: job ids are compared with the queue's only, not
\* with those of the same batch.
CanAcceptBatch_NoInnerCheck(q, batch_id, jobs) ==
    /\ batch_id \notin q.seen_batch_ids
    /\ \A i \in DOMAIN jobs : jobs[i].job_id \notin q.seen_job_ids

\* The condition under which a batch is accepted: a new batch id, and job ids
\* that are new to the queue and distinct within the batch.
CanAcceptBatch(q, batch_id, jobs) ==
    /\ batch_id \notin q.seen_batch_ids
    /\ \A i \in DOMAIN jobs : jobs[i].job_id \notin q.seen_job_ids
    /\ \A i, k \in DOMAIN jobs : jobs[i].job_id = jobs[k].job_id => i = k

accept_batch(q, batch_id, jobs, remote) ==
    [pending |-> q.pending \o
        [i \in 1..Len(jobs) |->
            [job |-> jobs[i], batch_id |-> batch_id, remote |-> remote]],
     seen_job_ids |-> q.seen_job_ids \cup IdsOf(jobs),
     seen_batch_ids |-> q.seen_batch_ids \cup {batch_id}]

\* A mutant of pop_next: the job is handed out but stays at the front.
pop_next_Peek(q) == q

\* pop_next on a non-empty queue: the job handed out is Head(q.pending).
pop_next(q) == [q EXCEPT !.pending = Tail(@)]
=============================================================================
