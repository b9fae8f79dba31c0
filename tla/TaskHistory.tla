----------------------------- MODULE TaskHistory -----------------------------
(***************************************************************************)
(* The task history database (crates/runtime/src/task_history.rs): a table *)
(* of status events and a table with one summary row per job.  Both are    *)
(* changed in one transaction, under the connection's mutex.  Times are    *)
(* kept as "has one"; the order of the queries' results, which compares    *)
(* them as text, is left out.                                              *)
(***************************************************************************)
EXTENDS JobTypes, Sequences

\* TaskHistoryStatus; cancelled is never recorded.
HistoryStatuses == {"queued", "downloading", "printing", "submitted",
                    "completed", "failed", "unknown"}

is_terminal(status) == status \in {"submitted", "completed", "failed", "unknown"}

\* A row of task_history_jobs: printer_name, batch_id and finished_at as set or NULL.
Summary == [status: HistoryStatuses, printer: BOOLEAN, batch: BOOLEAN, finished: BOOLEAN]

ASSUME SummaryAssumption == None \notin Summary

HistoryType ==
    [events: [JobIds -> Seq(HistoryStatuses)], jobs: [JobIds -> Summary \cup {None}]]

\* initialize_schema on a new database; on an existing one it changes nothing.
EmptyHistory == [events |-> [j \in JobIds |-> <<>>], jobs |-> [j \in JobIds |-> None]]

\* A mutant of upsert: the row takes every column from the new event.
upsert_NoCoalesce(row, new) == new

\* INSERT ... ON CONFLICT DO UPDATE: COALESCE keeps what a new event leaves NULL.
upsert(row, new) ==
    IF row = None THEN new
    ELSE [new EXCEPT !.printer = @ \/ row.printer,
                     !.batch = @ \/ row.batch,
                     !.finished = @ \/ row.finished]

record_event(history, job_id, status, printer, batch) ==
    [events |-> [history.events EXCEPT ![job_id] = Append(@, status)],
     jobs |-> [history.jobs EXCEPT ![job_id] =
                  upsert(@, [status |-> status, printer |-> printer, batch |-> batch,
                             finished |-> is_terminal(status)])]]

clear(history) == EmptyHistory
==============================================================================
