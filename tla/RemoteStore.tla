---------------------------- MODULE RemoteStore -----------------------------
(***************************************************************************)
(* The SQLite store of crates/runtime/src/remote_store.rs: which remote    *)
(* jobs were ever seen (remote_jobs) and the outbox of status reports      *)
(* (remote_status_events).  It survives crashes and restarts.              *)
(*                                                                         *)
(* The outbox is a sequence in insertion order, which is the order of      *)
(* occurred_at; an event's index is its event_id.  next_retry_at is        *)
(* abstracted to `due`: whether that instant has passed.                   *)
(***************************************************************************)
EXTENDS JobTypes, Sequences

ReportStatuses == {"accepted", "success", "failed"}

DeliveryStates == {"pending", "delivered", "abandoned"}

StatusEvent ==
    [job_id: JobIds, status: ReportStatuses, delivery_state: DeliveryStates,
     retry_count: Nat, due: BOOLEAN]

StoreType == [jobs: SUBSET JobIds, events: Seq(StatusEvent)]

EmptyStore == [jobs |-> {}, events |-> <<>>]

\* record_job_if_new: INSERT OR IGNORE on the primary key job_id.  It returns
\* true exactly when the job was not there, IsNewJob.
IsNewJob(s, job_id) == job_id \notin s.jobs

\* A mutant of record_job_if_new: the job is looked up but not inserted.
record_job_if_new_NoInsert(s, job_id) == s

record_job_if_new(s, job_id) == [s EXCEPT !.jobs = @ \cup {job_id}]

HasEvent(s, job_id, status) ==
    \E i \in DOMAIN s.events :
        s.events[i].job_id = job_id /\ s.events[i].status = status

\* insert_status_event: INSERT OR IGNORE under the unique index (job_id, status).
insert_status_event(s, job_id, status) ==
    IF HasEvent(s, job_id, status) THEN s
    ELSE [s EXCEPT !.events =
            Append(@, [job_id |-> job_id, status |-> status,
                       delivery_state |-> "pending", retry_count |-> 0, due |-> TRUE])]

\* A mutant of DuePending: the query forgets delivery_state = 'pending'.
DuePending_AnyState(s) == {i \in DOMAIN s.events : s.events[i].due}

\* The events pending_status_events may return, before ORDER BY and LIMIT.
DuePending(s) ==
    {i \in DOMAIN s.events : s.events[i].delivery_state = "pending" /\ s.events[i].due}

mark_delivered(s, id) == [s EXCEPT !.events[id].delivery_state = "delivered"]

\* A mutant of mark_delivery_failed: the failure is not counted.
mark_delivery_failed_NoCount(s, id, max_retries) ==
    [s EXCEPT !.events[id] =
        [@ EXCEPT !.delivery_state = IF s.events[id].retry_count >= max_retries
                                     THEN "abandoned" ELSE "pending",
                  !.due = FALSE]]

\* mark_delivery_failed: count the failure, abandon when the count reaches
\* max_retries, otherwise wait until the next retry time.
mark_delivery_failed(s, id, max_retries) ==
    LET next_retry_count == s.events[id].retry_count + 1 IN
    [s EXCEPT !.events[id] =
        [@ EXCEPT !.retry_count = next_retry_count,
                  !.delivery_state = IF next_retry_count >= max_retries
                                     THEN "abandoned" ELSE "pending",
                  !.due = FALSE]]

Postponed(s) ==
    {i \in DOMAIN s.events : s.events[i].delivery_state = "pending" /\ ~s.events[i].due}

\* The clock passes every stored next_retry_at.
retry_time_passed(s) ==
    [s EXCEPT !.events =
        [i \in DOMAIN @ |-> IF i \in Postponed(s) THEN [@[i] EXCEPT !.due = TRUE] ELSE @[i]]]
=============================================================================
