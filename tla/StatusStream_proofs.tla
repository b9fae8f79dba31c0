------------------------- MODULE StatusStream_proofs -------------------------
(***************************************************************************)
(* Proofs about what a WebSocket client sees of its jobs and what the task *)
(* history says of them, for every set of connections, jobs and batches,   *)
(* any capacity of the broadcast channel and any number of restarts.       *)
(***************************************************************************)
EXTENDS StatusStream, FiniteSetTheorems, QueueState_proofs

-----------------------------------------------------------------------------
(* A page gets at a loopback origin only through itself.                    *)

\* Enqueueing jobs whose local origins were checked keeps LoopbackSameOrigin.
LEMMA EnqueueLoopback ==
    ASSUME LoopbackSameOrigin, NEW subs, NEW origin, NEW q, LocalOriginOk(subs, origin),
           Enqueue(subs, origin, q)
    PROVE  LoopbackSameOrigin'
<1> DEFINE Of(j) == CHOOSE i \in DOMAIN subs : subs[i].job.job_id = j
           ids == {subs[i].job.job_id : i \in DOMAIN subs}
           local == html_local_origin(subs, origin)
<1>1. ASSUME NEW j \in JobIds
      PROVE  /\ granted'[j] = IF j \in ids THEN html_local_origin_for_job(subs[Of(j)], local)
                              ELSE granted[j]
             /\ asked'[j] = IF j \in ids THEN [page |-> origin, url |-> subs[Of(j)].url]
                            ELSE asked[j]
  BY DEF Enqueue
<1>2. local # None => local = origin /\ is_exact_loopback_url(origin)
  BY DEF html_local_origin, LocalOriginOk
<1> HIDE DEF Of, ids, local
<1> SUFFICES ASSUME NEW j \in JobIds, granted'[j] # None
             PROVE  /\ asked'[j].page = granted'[j]
                    /\ asked'[j].url = granted'[j]
                    /\ is_exact_loopback_url(granted'[j])
  BY DEF LoopbackSameOrigin, is_exact_loopback_url
<1>3. CASE j \in ids
  <2>1. granted'[j] = local /\ subs[Of(j)].url = local
    BY <1>1, <1>3 DEF html_local_origin_for_job
  <2>2. asked'[j] = [page |-> origin, url |-> local]
    BY <1>1, <1>3, <2>1
  <2>3. asked'[j].page = origin /\ asked'[j].url = local
    BY <2>2
  <2> QED
    BY <1>2, <2>1, <2>3
<1>4. CASE j \notin ids
  BY <1>1, <1>4 DEF LoopbackSameOrigin
<1> QED
  BY <1>3, <1>4

\* A job may load pages from a loopback origin only if its own URL lies there and
\* the page that sent it has that origin, whatever else is in its batch.
THEOREM LoopbackNeedsSameOrigin == StreamSpec => []LoopbackSameOrigin
<1>1. StreamInit => LoopbackSameOrigin
  BY DEF StreamInit, LoopbackSameOrigin
<1>2. LoopbackSameOrigin /\ [StreamNext]_vars => LoopbackSameOrigin'
  <2> SUFFICES ASSUME LoopbackSameOrigin, [StreamNext]_vars PROVE LoopbackSameOrigin'
    OBVIOUS
  <2>1. CASE UNCHANGED <<granted, asked>>
    BY <2>1 DEF LoopbackSameOrigin, is_exact_loopback_url
  <2>2. ASSUME NEW c \in Conns, NEW sub, HandlePrint(c, sub) PROVE LoopbackSameOrigin'
    BY <2>2, EnqueueLoopback DEF HandlePrint, ValidSubs
  <2>3. ASSUME NEW c \in Conns, NEW b, HandlePrintBatch(c, b) PROVE LoopbackSameOrigin'
    BY <2>3, EnqueueLoopback DEF HandlePrintBatch, ValidSubs
  <2>4. CASE Restart
    BY <2>4 DEF Restart, LoopbackSameOrigin
  <2>5. ASSUME NEW c \in Conns,
               \/ \E p \in Peers : Connect(c, p[1], p[2])
               \/ Disconnect(c) \/ GetPrintQueue(c) \/ Query(c) \/ Reply(c) \/ NextStatus(c)
               \/ \E sub \in Submissions : PrintRefused(c, sub)
               \/ \E b \in Batches : PrintBatchRefused(c, b)
        PROVE  UNCHANGED <<granted, asked>>
    BY <2>5 DEF Connect, Disconnect, GetPrintQueue, Query, Reply, NextStatus, Receive, Lagged,
       PrintRefused, PrintBatchRefused
  <2>6. CASE WorkerStep
    BY <2>1, <2>6 DEF WorkerStep, WorkerPop, LogQueued, LogDownloading, LogRendered, LogPrinting,
       LogSubmitted, LogFailed, LogTracked, push_log
  <2>7. CASE \/ \E sub \in Submissions : AcceptRemote(sub)
             \/ ClearTaskHistory \/ UNCHANGED vars
    BY <2>1, <2>7 DEF AcceptRemote, ClearTaskHistory, vars
  <2> QED
    BY <2>1, <2>2, <2>3, <2>4, <2>5, <2>6, <2>7 DEF StreamNext, HandleClientText
<1> QED
  BY <1>1, <1>2, PTL DEF StreamSpec

-----------------------------------------------------------------------------
(* The task history.                                                        *)

\* The summary of a job agrees with its events.
RowAgrees(h, j) ==
    LET rows == h.events[j]
        row == h.jobs[j]
        told == {rows[i] : i \in DOMAIN rows}
    IN  /\ (row = None) <=> (rows = <<>>)
        /\ row # None =>
             /\ row.status = rows[Len(rows)]
             /\ row.finished <=> \E s \in told : is_terminal(s)
             /\ ("printing" \in told) => row.printer

\* HistoryAgrees, job by job.
LEMMA AgreesIs == HistoryAgrees <=> \A j \in JobIds : RowAgrees(history, j)
BY DEF HistoryAgrees, RowAgrees, EventsOf

\* record_event keeps the two tables in agreement: COALESCE keeps the printer and
\* the finishing time that earlier events have set.
LEMMA RecordAgrees ==
    ASSUME NEW h \in HistoryType, \A j \in JobIds : RowAgrees(h, j),
           NEW id \in JobIds, NEW status \in HistoryStatuses,
           NEW printer \in BOOLEAN, NEW batch \in BOOLEAN, status = "printing" => printer,
           NEW h2, h2 = record_event(h, id, status, printer, batch)
    PROVE  h2 \in HistoryType /\ \A j \in JobIds : RowAgrees(h2, j)
<1> DEFINE rows == h.events[id]
           row == h.jobs[id]
           rows2 == Append(rows, status)
           new == [status |-> status, printer |-> printer, batch |-> batch,
                   finished |-> is_terminal(status)]
           row2 == upsert(row, new)
<1>1. /\ h.events \in [JobIds -> Seq(HistoryStatuses)] /\ rows \in Seq(HistoryStatuses)
      /\ h.jobs \in [JobIds -> Summary \cup {None}] /\ row \in Summary \cup {None}
  BY DEF HistoryType
<1>2. /\ h2 = [events |-> [h.events EXCEPT ![id] = rows2], jobs |-> [h.jobs EXCEPT ![id] = row2]]
  BY DEF record_event
<1>3. is_terminal(status) \in BOOLEAN /\ new \in Summary
  BY DEF is_terminal, Summary
<1>4. /\ row = None => row2 = new
      /\ row # None => /\ row \in Summary
                       /\ row2 = [new EXCEPT !.printer = @ \/ row.printer,
                                             !.batch = @ \/ row.batch,
                                             !.finished = @ \/ row.finished]
  BY <1>1 DEF upsert
<1>5. /\ new.status = status /\ new.printer = printer
      /\ new.finished = is_terminal(status)
  OBVIOUS
<1>6. /\ row2 \in Summary /\ row2.status = status
      /\ row = None => row2.printer = printer /\ row2.finished = is_terminal(status)
      /\ row # None => /\ row2.printer <=> printer \/ row.printer
                       /\ row2.finished <=> is_terminal(status) \/ row.finished
  <2>1. CASE row = None
    BY <1>3, <1>4, <1>5, <2>1
  <2>2. CASE row # None
    <3>1. /\ row.printer \in BOOLEAN /\ row.batch \in BOOLEAN /\ row.finished \in BOOLEAN
      BY <1>4, <2>2 DEF Summary
    <3>2. row2 = [status |-> status, printer |-> printer \/ row.printer,
                  batch |-> batch \/ row.batch, finished |-> is_terminal(status) \/ row.finished]
      BY <1>4, <2>2
    <3>3. /\ row2.status = status
          /\ row2.printer = (printer \/ row.printer)
          /\ row2.finished = (is_terminal(status) \/ row.finished)
      BY <3>2
    <3>4. row2 \in Summary
      BY <1>3, <3>1, <3>2 DEF Summary
    <3> QED
      BY <2>2, <3>3, <3>4
  <2> QED
    BY <2>1, <2>2
<1>7. /\ rows2 \in Seq(HistoryStatuses) /\ rows2 # <<>> /\ Len(rows2) = Len(rows) + 1
      /\ rows2[Len(rows2)] = status
      /\ {rows2[i] : i \in DOMAIN rows2} = {rows[i] : i \in DOMAIN rows} \cup {status}
      /\ rows = <<>> => {rows[i] : i \in DOMAIN rows} = {}
  <2> HIDE DEF rows
  <2>1. /\ rows2 \in Seq(HistoryStatuses) /\ Len(rows) \in Nat
        /\ DOMAIN rows = 1..Len(rows) /\ DOMAIN rows2 = 1..Len(rows2)
        /\ Len(rows2) = Len(rows) + 1 /\ rows2[Len(rows) + 1] = status
        /\ \A i \in 1..Len(rows) : rows2[i] = rows[i]
    BY <1>1
  <2> HIDE DEF rows2
  <2>2. /\ rows2 # <<>> /\ rows2[Len(rows2)] = status
        /\ DOMAIN rows2 = 1..(Len(rows) + 1)
    BY <2>1
  <2>3. 1..(Len(rows) + 1) = 1..Len(rows) \cup {Len(rows) + 1}
    BY <2>1
  <2>4. {rows2[i] : i \in DOMAIN rows2} = {rows[i] : i \in DOMAIN rows} \cup {status}
    BY <2>1, <2>2, <2>3
  <2>5. rows = <<>> => {rows[i] : i \in DOMAIN rows} = {}
    OBVIOUS
  <2> QED
    BY <2>1, <2>2, <2>4, <2>5
<1> HIDE DEF rows2, row2, new
<1>8. h2.events = [h.events EXCEPT ![id] = rows2] /\ h2.jobs = [h.jobs EXCEPT ![id] = row2]
  BY <1>2
<1>9. h2 \in HistoryType
  <2>1. [h.events EXCEPT ![id] = rows2] \in [JobIds -> Seq(HistoryStatuses)]
    BY <1>1, <1>7
  <2>2. [h.jobs EXCEPT ![id] = row2] \in [JobIds -> Summary \cup {None}]
    BY <1>1, <1>6
  <2> QED
    BY <1>2, <2>1, <2>2 DEF HistoryType
<1>10. ASSUME NEW j \in JobIds, j # id PROVE RowAgrees(h2, j)
  <2>1. h2.events[j] = h.events[j] /\ h2.jobs[j] = h.jobs[j]
    BY <1>1, <1>8, <1>10
  <2> QED
    BY <2>1 DEF RowAgrees
<1>11. RowAgrees(h2, id)
  <2>1. h2.events[id] = rows2 /\ h2.jobs[id] = row2
    BY <1>1, <1>8
  <2>2. row2 # None
    BY <1>6, SummaryAssumption
  <2> DEFINE told == {rows[i] : i \in DOMAIN rows}
             told2 == {rows2[i] : i \in DOMAIN rows2}
  <2>3. /\ (row = None) <=> (rows = <<>>)
        /\ row # None =>
             /\ row.finished <=> \E s \in told : is_terminal(s)
             /\ ("printing" \in told) => row.printer
    BY DEF RowAgrees
  <2>4. told2 = told \cup {status} /\ (row = None => told = {})
    BY <1>7, <2>3
  <2> HIDE DEF told, told2, rows, row
  <2>5. row2.finished <=> \E s \in told2 : is_terminal(s)
    BY <1>6, <2>3, <2>4
  <2>6. ("printing" \in told2) => row2.printer
    BY <1>6, <2>3, <2>4
  <2>7. row2.status = rows2[Len(rows2)]
    BY <1>6, <1>7
  <2> QED
    BY <1>7, <2>1, <2>2, <2>5, <2>6, <2>7 DEF RowAgrees, told2
<1> QED
  BY <1>9, <1>10, <1>11

\* A cleared history agrees.
LEMMA EmptyAgrees == EmptyHistory \in HistoryType /\ \A j \in JobIds : RowAgrees(EmptyHistory, j)
BY DEF EmptyHistory, HistoryType, RowAgrees

-----------------------------------------------------------------------------
(* The worker.                                                              *)

\* The jobs that the worker has taken from the queue: accepted and not pending.
Started(q) == q.seen_job_ids \ PendingIds(q)

StreamEntry == [job_id: JobIds, status: HistoryStatuses]

\* The worker has a job while it is not idle, it has taken that job and every job
\* it has broadcast a status of from the queue, and the history agrees.
WorkerInv ==
    /\ queue \in QueueType /\ QueueOK(queue)
    /\ phase # "idle" => cur \in QueuedJob /\ cur.job.job_id \in Started(queue)
    /\ stream \in Seq(StreamEntry)
    /\ \A i \in DOMAIN stream : stream[i].job_id \in Started(queue)
    /\ history \in HistoryType /\ HistoryAgrees

\* The jobs of a list of submissions.
LEMMA JobsOfType ==
    ASSUME NEW subs \in Seq(Submission)
    PROVE  JobsOf(subs) \in Seq(PrintJobInput) /\ DOMAIN JobsOf(subs) = DOMAIN subs
<1>1. \A i \in DOMAIN subs : subs[i].job \in PrintJobInput
  <2>1. \A i \in DOMAIN subs : subs[i] \in Submission
    OBVIOUS
  <2> QED
    BY <2>1 DEF Submission
<1>2. DOMAIN subs = 1..Len(subs) /\ Len(subs) \in Nat
  OBVIOUS
<1>3. JobsOf(subs) \in [1..Len(subs) -> PrintJobInput]
  BY <1>1, <1>2 DEF JobsOf
<1>4. JobsOf(subs) \in Seq(PrintJobInput)
  BY <1>2, <1>3
<1> QED
  BY <1>4 DEF JobsOf

\* A step that leaves the worker alone and only adds new jobs to the queue.
LEMMA AcceptedKeepsWorker ==
    ASSUME WorkerInv, UNCHANGED workerVars, NEW ids, ids \cap queue.seen_job_ids = {},
           queue' \in QueueType, QueueOK(queue)',
           PendingIds(queue') = PendingIds(queue) \cup ids,
           queue'.seen_job_ids = queue.seen_job_ids \cup ids
    PROVE  WorkerInv' /\ Started(queue) \subseteq Started(queue')
<1>1. Started(queue) \subseteq Started(queue')
  BY DEF Started
<1>2. HistoryAgrees' = HistoryAgrees
  BY DEF workerVars, HistoryAgrees, EventsOf
<1> QED
  BY <1>1, <1>2 DEF WorkerInv, workerVars

\* Accepting one job keeps the worker's invariant.
LEMMA AcceptJobWorker ==
    ASSUME WorkerInv, UNCHANGED workerVars, NEW job \in PrintJobInput, NEW remote \in BOOLEAN,
           CanAcceptJob(queue, job), queue' = accept_queued_job(queue, job, remote)
    PROVE  WorkerInv' /\ Started(queue) \subseteq Started(queue')
<1>1. queue \in QueueType /\ QueueOK(queue)
  BY DEF WorkerInv
<1>2. queue' \in QueueType
  BY <1>1, AcceptJobType
<1>3. /\ QueueOK(queue')
      /\ PendingIds(queue') = PendingIds(queue) \cup {job.job_id}
      /\ queue'.seen_job_ids = queue.seen_job_ids \cup {job.job_id}
  BY <1>1, AcceptJobOK
<1>4. {job.job_id} \cap queue.seen_job_ids = {}
  BY DEF CanAcceptJob
<1>5. QueueOK(queue)'
  BY <1>3 DEF QueueOK
<1> QED
  BY <1>2, <1>3, <1>4, <1>5, AcceptedKeepsWorker

\* The same for the jobs of a batch.
LEMMA AcceptBatchWorker ==
    ASSUME WorkerInv, UNCHANGED workerVars, NEW b \in BatchIds, NEW jobs \in Seq(PrintJobInput),
           CanAcceptBatch(queue, b, jobs), queue' = accept_batch(queue, b, jobs, FALSE)
    PROVE  WorkerInv' /\ Started(queue) \subseteq Started(queue')
<1>1. queue \in QueueType /\ QueueOK(queue)
  BY DEF WorkerInv
<1>2. queue' \in QueueType
  BY <1>1, AcceptBatchType
<1>3. /\ QueueOK(queue')
      /\ PendingIds(queue') = PendingIds(queue) \cup IdsOf(jobs)
      /\ queue'.seen_job_ids = queue.seen_job_ids \cup IdsOf(jobs)
  BY <1>1, AcceptBatchOK
<1>4. IdsOf(jobs) \cap queue.seen_job_ids = {}
  BY DEF CanAcceptBatch, IdsOf
<1>5. QueueOK(queue)'
  BY <1>3 DEF QueueOK
<1> QED
  BY <1>2, <1>3, <1>4, <1>5, AcceptedKeepsWorker

\* The worker takes the first job of the queue: that job is started.
LEMMA PopWorker ==
    ASSUME WorkerInv, WorkerPop
    PROVE  WorkerInv' /\ Started(queue) \subseteq Started(queue')
<1> DEFINE id == Head(queue.pending).job.job_id
<1>1. /\ queue \in QueueType /\ QueueOK(queue) /\ queue.pending # <<>>
      /\ queue' = pop_next(queue) /\ cur' = Head(queue.pending)
      /\ UNCHANGED <<stream, history>>
  BY DEF WorkerInv, WorkerPop
<1>2. cur' \in QueuedJob /\ queue' \in QueueType
  BY <1>1, PopType
<1>3. /\ QueueOK(queue') /\ queue'.seen_job_ids = queue.seen_job_ids
      /\ id \in PendingIds(queue) /\ id \notin PendingIds(queue')
      /\ PendingIds(queue') \subseteq PendingIds(queue)
  BY <1>1, PopOK
<1>4. PendingIds(queue) \subseteq queue.seen_job_ids
  BY <1>1 DEF QueueOK
<1>5. /\ Started(queue) \subseteq Started(queue') /\ id \in Started(queue')
  BY <1>3, <1>4 DEF Started
<1>6. HistoryAgrees' = HistoryAgrees
  BY <1>1 DEF HistoryAgrees, EventsOf
<1>7. QueueOK(queue)'
  BY <1>3 DEF QueueOK
<1> QED
  BY <1>1, <1>2, <1>5, <1>6, <1>7 DEF WorkerInv

\* A status of the worker's job joins the stream and, unless that fails, the history.
LEMMA PushLogWorker ==
    ASSUME WorkerInv, phase # "idle", NEW status \in HistoryStatuses, NEW printer \in BOOLEAN,
           status = "printing" => printer, NEW to, NEW cost, push_log(status, printer, to, cost)
    PROVE  WorkerInv' /\ UNCHANGED <<queue, session>>
<1> DEFINE id == cur.job.job_id
           new == [job_id |-> id, status |-> status]
<1>1. /\ cur \in QueuedJob /\ id \in Started(queue) /\ id \in JobIds
      /\ stream \in Seq(StreamEntry)
      /\ \A i \in DOMAIN stream : stream[i].job_id \in Started(queue)
      /\ UNCHANGED <<queue, session>>
  BY DEF WorkerInv, push_log, QueuedJob, PrintJobInput
<1>2. /\ stream' = Append(stream, new) /\ new \in StreamEntry
  BY <1>1 DEF push_log, StreamEntry
<1>3. new.job_id = id
  OBVIOUS
<1> HIDE DEF new, id
<1>4. /\ stream' \in Seq(StreamEntry)
      /\ \A i \in DOMAIN stream' : stream'[i] = new \/ (i \in DOMAIN stream /\ stream'[i] = stream[i])
  BY <1>1, <1>2
<1>5. \A i \in DOMAIN stream' : stream'[i].job_id \in Started(queue)
  BY <1>1, <1>3, <1>4
<1>6. history' \in HistoryType /\ HistoryAgrees'
  <2>1. history \in HistoryType /\ \A j \in JobIds : RowAgrees(history, j)
    BY AgreesIs DEF WorkerInv
  <2>2. history' \in HistoryType /\ \A j \in JobIds : RowAgrees(history', j)
    <3>1. CASE history' = record_event(history, id, status, printer, cur.batch_id # None)
      BY <1>1, <2>1, <3>1, RecordAgrees
    <3>2. CASE UNCHANGED history
      BY <2>1, <3>2
    <3> QED
      BY <3>1, <3>2 DEF push_log, id
  <2> QED
    BY <2>2 DEF HistoryAgrees, RowAgrees, EventsOf
<1>7. phase' # "idle" => cur' = cur
  BY DEF push_log
<1> QED
  BY <1>1, <1>4, <1>5, <1>6, <1>7 DEF WorkerInv, id

\* Every step keeps the worker's invariant, and within one process a started job
\* stays started.
LEMMA WorkerInvStep ==
    ASSUME WorkerInv, [StreamNext]_vars
    PROVE  WorkerInv' /\ (Restart \/ Started(queue) \subseteq Started(queue'))
<1> DEFINE P == WorkerInv' /\ Started(queue) \subseteq Started(queue')
<1>1. ASSUME UNCHANGED <<queue, workerVars>> PROVE P
  <2>1. HistoryAgrees' = HistoryAgrees
    BY <1>1 DEF workerVars, HistoryAgrees, EventsOf
  <2>2. QueueOK(queue)' = QueueOK(queue)
    BY <1>1
  <2> QED
    BY <1>1, <2>1, <2>2 DEF WorkerInv, workerVars
<1>2. ASSUME NEW c \in Conns, NEW sub \in Submissions, HandlePrint(c, sub) PROVE P
  <2>1. sub.job \in PrintJobInput
    BY StatusAssumption DEF Submission
  <2> QED
    BY <1>2, <2>1, AcceptJobWorker DEF HandlePrint, Enqueue
<1>3. ASSUME NEW c \in Conns, NEW b \in Batches, HandlePrintBatch(c, b) PROVE P
  <2>1. b.batch_id \in BatchIds /\ b.subs \in Seq(Submission)
    BY StatusAssumption
  <2>2. JobsOf(b.subs) \in Seq(PrintJobInput)
    BY <2>1, JobsOfType
  <2> QED
    BY <1>3, <2>1, <2>2, AcceptBatchWorker DEF HandlePrintBatch, Enqueue
<1>4. ASSUME NEW sub \in Submissions, AcceptRemote(sub) PROVE P
  <2>1. sub.job \in PrintJobInput
    BY StatusAssumption DEF Submission
  <2> QED
    BY <1>4, <2>1, AcceptJobWorker DEF AcceptRemote
<1>5. ASSUME NEW c \in Conns,
             \/ \E p \in Peers : Connect(c, p[1], p[2])
             \/ Disconnect(c) \/ GetPrintQueue(c) \/ Query(c) \/ Reply(c) \/ NextStatus(c)
             \/ \E sub \in Submissions : PrintRefused(c, sub)
             \/ \E b \in Batches : PrintBatchRefused(c, b)
      PROVE  UNCHANGED <<queue, workerVars>>
  BY <1>5 DEF Connect, Disconnect, GetPrintQueue, Query, Reply, NextStatus, Receive, Lagged,
     PrintRefused, PrintBatchRefused
<1>6. ASSUME NEW status \in HistoryStatuses, NEW printer \in BOOLEAN, NEW to, NEW cost,
             phase # "idle", status = "printing" => printer, push_log(status, printer, to, cost)
      PROVE  P
  BY <1>6, PushLogWorker
<1> HIDE DEF P
<1>7. ASSUME LogQueued \/ LogDownloading \/ LogRendered PROVE P
  <2>1. "queued" \in HistoryStatuses /\ "downloading" \in HistoryStatuses
        /\ "printing" \in HistoryStatuses
    BY DEF HistoryStatuses
  <2>2. CASE LogQueued
    <3>1. phase # "idle" /\ push_log("queued", FALSE, "queued", 0)
      BY <2>2 DEF LogQueued
    <3> QED
      BY <1>6, <2>1, <3>1
  <2>3. CASE LogDownloading
    <3>1. phase # "idle" /\ push_log("downloading", FALSE, "downloading", 0)
      BY <2>3 DEF LogDownloading
    <3> QED
      BY <1>6, <2>1, <3>1
  <2>4. CASE LogRendered
    <3>1. phase # "idle" /\ push_log("printing", TRUE, "rendered", 0)
      BY <2>4 DEF LogRendered
    <3> QED
      BY <1>6, <2>1, <3>1
  <2> QED
    BY <1>7, <2>2, <2>3, <2>4
<1>8. ASSUME LogPrinting PROVE P
  <2>1. phase # "idle" /\ push_log("printing", TRUE, "printing", 0)
    BY <1>8 DEF LogPrinting
  <2>2. "printing" \in HistoryStatuses
    BY DEF HistoryStatuses
  <2> QED
    BY <1>6, <2>1, <2>2
<1>9. ASSUME LogSubmitted PROVE P
  <2>1. PICK to : phase # "idle" /\ push_log("submitted", TRUE, to, 0)
    BY <1>9 DEF LogSubmitted
  <2>2. "submitted" \in HistoryStatuses
    BY DEF HistoryStatuses
  <2> QED
    BY <1>6, <2>1, <2>2
<1>10. ASSUME NEW status \in Outcomes, LogTracked(status) PROVE P
  <2>1. phase # "idle" /\ push_log(status, TRUE, "idle", 0)
    BY <1>10 DEF LogTracked
  <2>2. status \in HistoryStatuses
    BY StatusAssumption DEF HistoryStatuses
  <2> QED
    BY <1>6, <2>1, <2>2
<1>11. ASSUME LogFailed PROVE P
  <2>1. phase # "idle" /\ push_log("failed", FALSE, "idle", 1)
    BY <1>11 DEF LogFailed, Fails
  <2>2. "failed" \in HistoryStatuses
    BY DEF HistoryStatuses
  <2> QED
    BY <1>6, <2>1, <2>2
<1>12. ASSUME WorkerPop PROVE P
  BY <1>12, PopWorker DEF P
<1>13. ASSUME ClearTaskHistory PROVE P
  <2>1. history' = EmptyHistory /\ UNCHANGED <<queue, cur, phase, stream>>
    BY <1>13 DEF ClearTaskHistory, clear
  <2>2. history' \in HistoryType /\ HistoryAgrees'
    BY <2>1, EmptyAgrees DEF HistoryAgrees, RowAgrees, EventsOf
  <2>3. QueueOK(queue)' = QueueOK(queue)
    BY <2>1
  <2> QED
    BY <2>1, <2>2, <2>3 DEF WorkerInv, P
<1>14. ASSUME Restart PROVE WorkerInv' /\ Restart
  <2>1. queue' = EmptyQueue /\ phase' = "idle" /\ stream' = <<>> /\ UNCHANGED history
    BY <1>14 DEF Restart
  <2>2. EmptyQueue \in QueueType /\ QueueOK(EmptyQueue)
    BY DEF EmptyQueue, QueueType, QueueOK, PendingIds
  <2>3. HistoryAgrees' = HistoryAgrees
    BY <2>1 DEF HistoryAgrees, EventsOf
  <2>4. QueueOK(queue)'
    BY <2>1, <2>2
  <2>5. stream' \in Seq(StreamEntry) /\ DOMAIN stream' = {}
    BY <2>1
  <2> QED
    BY <1>14, <2>1, <2>2, <2>3, <2>4, <2>5 DEF WorkerInv
<1>15. ASSUME UNCHANGED vars PROVE P
  BY <1>1, <1>15 DEF vars, workerVars
<1>16. P \/ (WorkerInv' /\ Restart)
  BY <1>1, <1>2, <1>3, <1>4, <1>5, <1>7, <1>8, <1>9, <1>10, <1>11, <1>12, <1>13, <1>14, <1>15
     DEF StreamNext, HandleClientText, WorkerStep
<1> QED
  BY <1>16 DEF P

\* The worker's invariant holds initially.
LEMMA WorkerInvInit == StreamInit => WorkerInv
<1> SUFFICES ASSUME StreamInit PROVE WorkerInv
  OBVIOUS
<1>1. queue = EmptyQueue /\ phase = "idle" /\ stream = <<>> /\ history = EmptyHistory
  BY DEF StreamInit
<1>2. EmptyQueue \in QueueType /\ QueueOK(EmptyQueue)
  BY DEF EmptyQueue, QueueType, QueueOK, PendingIds
<1>3. HistoryAgrees
  BY <1>1, EmptyAgrees, AgreesIs
<1>4. stream \in Seq(StreamEntry) /\ DOMAIN stream = {}
  BY <1>1
<1> QED
  BY <1>1, <1>2, <1>3, <1>4, EmptyAgrees DEF WorkerInv

\* The two tables of the task history agree for every sequence of jobs, lost
\* events, clears and restarts.
THEOREM HistoryTablesAgree == StreamSpec => []HistoryAgrees
<1>1. WorkerInv => HistoryAgrees
  BY DEF WorkerInv
<1>2. WorkerInv /\ [StreamNext]_vars => WorkerInv'
  BY WorkerInvStep
<1> QED
  BY <1>1, <1>2, WorkerInvInit, PTL DEF StreamSpec

-----------------------------------------------------------------------------
(* The sessions.                                                            *)

StatusMessage == [kind: {"status"}, job_id: JobIds, status: HistoryStatuses]

Message == Replies \cup StatusMessage

ClientOutcome == [reply: Replies \cup {None}, ids: SUBSET JobIds]

OpenSession ==
    [state: {"select", "reply"}, origin: PageOrigins, accepted: SUBSET JobIds, next: Nat,
     lagged: BOOLEAN, sent: Seq(Message), outcome: ClientOutcome \cup {None}]

\* The ids that the answers of a session have accepted.
Claimed(sent) == UNION {sent[k].ids : k \in {n \in DOMAIN sent : sent[n].kind = "accepted"}}

\* Every status of the messages follows an answer that accepted its job, is about a
\* started job, and is not followed by a listing of that job.
SentOK(sent, started) ==
    /\ \A i \in DOMAIN sent : IsStatus(sent[i]) =>
         /\ sent[i].job_id \in started
         /\ \E k \in 1 .. (i - 1) : sent[k].kind = "accepted" /\ sent[i].job_id \in sent[k].ids
    /\ \A i \in DOMAIN sent : sent[i].kind = "print_queue" =>
         \A k \in 1 .. (i - 1) : IsStatus(sent[k]) => sent[k].job_id \notin sent[i].ids

\* The outcome of a message, still to be sent: the session will remember only ids
\* that the answer accepts, and a listing names no job the client was told about.
OutcomeOK(o, sent) ==
    /\ o \in ClientOutcome
    /\ o.ids # {} => o.reply \in Replies /\ o.reply.kind = "accepted" /\ o.reply.ids = o.ids
    /\ o.reply # None /\ o.reply.kind = "print_queue" =>
         \A k \in DOMAIN sent : IsStatus(sent[k]) => sent[k].job_id \notin o.reply.ids

SessionOK(s, started) ==
    /\ s \in OpenSession
    /\ SentOK(s.sent, started)
    /\ s.accepted \subseteq Claimed(s.sent)
    /\ s.state = "reply" => OutcomeOK(s.outcome, s.sent)

\* The strengthening of OnlyOwnJobs and ListedNotStarted.
SessionsInv ==
    /\ config \in Configs
    /\ session \in [Conns -> OpenSession \cup {NoSession}]
    /\ \A c \in Conns : Open(c) => SessionOK(session[c], Started(queue))

\* Started jobs stay good when more are started.
LEMMA SentMore ==
    ASSUME NEW sent, NEW S, NEW T, SentOK(sent, S), S \subseteq T
    PROVE  SentOK(sent, T)
BY DEF SentOK

\* A message joins the ones sent.
LEMMA SentAppend ==
    ASSUME NEW sent \in Seq(Message), NEW m \in Message, NEW S, SentOK(sent, S),
           IsStatus(m) => m.job_id \in S /\ m.job_id \in Claimed(sent),
           m.kind = "print_queue" =>
             \A k \in DOMAIN sent : IsStatus(sent[k]) => sent[k].job_id \notin m.ids
    PROVE  /\ Append(sent, m) \in Seq(Message)
           /\ SentOK(Append(sent, m), S)
           /\ Claimed(sent) \subseteq Claimed(Append(sent, m))
           /\ m.kind = "accepted" => m.ids \subseteq Claimed(Append(sent, m))
<1> DEFINE n == Len(sent)
           r == Append(sent, m)
<1>1. /\ n \in Nat /\ DOMAIN sent = 1..n /\ r \in Seq(Message)
      /\ DOMAIN r = 1..(n + 1) /\ r[n + 1] = m /\ \A i \in 1..n : r[i] = sent[i]
  OBVIOUS
<1> HIDE DEF n, r
<1>2. /\ \A i \in 1..(n + 1) : i \in 1..n \/ i = n + 1
      /\ \A i \in 1..n : i \in 1..(n + 1) /\ \A k \in 1..(i - 1) : k \in 1..n
      /\ n + 1 \in 1..(n + 1) /\ 1..((n + 1) - 1) = 1..n
  BY <1>1
<1>3. Claimed(sent) \subseteq Claimed(r)
  BY <1>1, <1>2 DEF Claimed
<1>4. m.kind = "accepted" => m.ids \subseteq Claimed(r)
  BY <1>1, <1>2 DEF Claimed
<1>5. ASSUME NEW i \in DOMAIN r, IsStatus(r[i])
      PROVE  /\ r[i].job_id \in S
             /\ \E k \in 1 .. (i - 1) : r[k].kind = "accepted" /\ r[i].job_id \in r[k].ids
  <2>1. CASE i \in 1..n
    <3>1. r[i] = sent[i] /\ i \in DOMAIN sent
      BY <1>1, <2>1
    <3>2. /\ sent[i].job_id \in S
          /\ \E k \in 1 .. (i - 1) : sent[k].kind = "accepted" /\ sent[i].job_id \in sent[k].ids
      BY <1>5, <3>1 DEF SentOK
    <3> QED
      BY <1>1, <1>2, <2>1, <3>1, <3>2
  <2>2. CASE i = n + 1
    <3>1. r[i] = m /\ m.job_id \in S /\ m.job_id \in Claimed(sent)
      BY <1>1, <1>5, <2>2
    <3>2. PICK k \in DOMAIN sent : sent[k].kind = "accepted" /\ m.job_id \in sent[k].ids
      BY <3>1 DEF Claimed
    <3>3. k \in 1..(i - 1) /\ r[k] = sent[k]
      BY <1>1, <1>2, <2>2
    <3> QED
      BY <3>1, <3>2, <3>3
  <2> QED
    BY <1>1, <1>2, <2>1, <2>2
<1>6. ASSUME NEW i \in DOMAIN r, r[i].kind = "print_queue",
             NEW k \in 1 .. (i - 1), IsStatus(r[k])
      PROVE  r[k].job_id \notin r[i].ids
  <2>1. CASE i \in 1..n
    <3>1. r[i] = sent[i] /\ i \in DOMAIN sent /\ r[k] = sent[k]
      BY <1>1, <1>2, <2>1
    <3> QED
      BY <1>6, <3>1 DEF SentOK
  <2>2. CASE i = n + 1
    <3>1. r[i] = m /\ k \in DOMAIN sent /\ r[k] = sent[k]
      BY <1>1, <1>2, <2>2
    <3> QED
      BY <1>6, <3>1
  <2> QED
    BY <1>1, <1>2, <2>1, <2>2
<1>7. SentOK(r, S)
  BY <1>5, <1>6 DEF SentOK
<1> QED
  BY <1>1, <1>3, <1>4, <1>7 DEF r

\* handle_client_text has its outcome.
LEMMA AnswerOK ==
    ASSUME NEW s, NEW S, SessionOK(s, S), NEW o, OutcomeOK(o, s.sent),
           NEW t, t = [s EXCEPT !.state = "reply", !.outcome = o]
    PROVE  SessionOK(t, S)
<1>1. s \in OpenSession /\ o \in ClientOutcome
  BY DEF SessionOK, OutcomeOK
<1>2. /\ t.sent = s.sent /\ t.accepted = s.accepted /\ t.outcome = o
  BY <1>1 DEF OpenSession
<1>3. t \in OpenSession
  BY <1>1 DEF OpenSession
<1> QED
  BY <1>2, <1>3 DEF SessionOK

\* The session remembers the accepted ids and sends the answer.
LEMMA ReplyOK ==
    ASSUME NEW s, NEW S, SessionOK(s, S), s.state = "reply",
           NEW t, t = [s EXCEPT !.state = "select", !.outcome = None,
                                !.accepted = @ \cup s.outcome.ids,
                                !.sent = IF s.outcome.reply = None THEN @
                                         ELSE Append(@, s.outcome.reply)]
    PROVE  SessionOK(t, S)
<1> DEFINE o == s.outcome
           sent2 == IF o.reply = None THEN s.sent ELSE Append(s.sent, o.reply)
<1>1. s \in OpenSession /\ OutcomeOK(o, s.sent) /\ o \in ClientOutcome
  BY DEF SessionOK, OutcomeOK
<1>2. /\ s.sent \in Seq(Message) /\ s.accepted \in SUBSET JobIds /\ o.ids \in SUBSET JobIds
      /\ o.reply \in Replies \cup {None}
  BY <1>1 DEF OpenSession, ClientOutcome
<1>3. SentOK(s.sent, S) /\ s.accepted \subseteq Claimed(s.sent)
  BY DEF SessionOK
<1>4. sent2 \in Seq(Message) /\ SentOK(sent2, S) /\ s.accepted \cup o.ids \subseteq Claimed(sent2)
  <2>1. CASE o.reply = None
    <3>1. o.ids = {}
      BY <1>1, <2>1, StatusAssumption DEF OutcomeOK
    <3> QED
      BY <1>2, <1>3, <2>1, <3>1
  <2>2. CASE o.reply # None
    <3>1. o.reply \in Replies /\ o.reply \in Message /\ ~IsStatus(o.reply)
      BY <1>2, <2>2 DEF Message, Replies, IsStatus
    <3>2. /\ Append(s.sent, o.reply) \in Seq(Message)
          /\ SentOK(Append(s.sent, o.reply), S)
          /\ Claimed(s.sent) \subseteq Claimed(Append(s.sent, o.reply))
          /\ o.reply.kind = "accepted" => o.reply.ids \subseteq Claimed(Append(s.sent, o.reply))
      <4>1. o.reply.kind = "print_queue" =>
              \A k \in DOMAIN s.sent : IsStatus(s.sent[k]) => s.sent[k].job_id \notin o.reply.ids
        BY <1>1, <2>2 DEF OutcomeOK
      <4> QED
        BY <1>2, <1>3, <3>1, <4>1, SentAppend
    <3>3. o.ids \subseteq Claimed(Append(s.sent, o.reply))
      BY <1>1, <3>2 DEF OutcomeOK
    <3> QED
      BY <1>3, <2>2, <3>2, <3>3
  <2> QED
    BY <2>1, <2>2
<1> HIDE DEF o, sent2
<1>5. t = [s EXCEPT !.state = "select", !.outcome = None, !.accepted = s.accepted \cup o.ids,
                    !.sent = sent2]
  BY DEF o, sent2
<1>6. /\ t.sent = sent2 /\ t.accepted = s.accepted \cup o.ids /\ t.state = "select"
  BY <1>1, <1>5 DEF OpenSession
<1>7. s.accepted \cup o.ids \in SUBSET JobIds
  BY <1>2
<1>8. t \in OpenSession
  BY <1>1, <1>4, <1>5, <1>7 DEF OpenSession
<1> QED
  BY <1>4, <1>6, <1>8 DEF SessionOK

\* The session forwards a status of one of its jobs, or skips the entry.
LEMMA ReceiveOK ==
    ASSUME NEW s, NEW S, SessionOK(s, S), s.state = "select",
           NEW e \in StreamEntry, e.job_id \in S,
           NEW t, t = [s EXCEPT !.sent = @ \o Forwarded(e, s.accepted), !.next = @ + 1]
    PROVE  SessionOK(t, S)
<1> DEFINE m == [kind |-> "status", job_id |-> e.job_id, status |-> e.status]
           sent2 == s.sent \o Forwarded(e, s.accepted)
<1>1. /\ s \in OpenSession /\ s.sent \in Seq(Message) /\ s.next \in Nat
      /\ SentOK(s.sent, S) /\ s.accepted \subseteq Claimed(s.sent)
  BY DEF SessionOK, OpenSession
<1>2. sent2 \in Seq(Message) /\ SentOK(sent2, S) /\ s.accepted \subseteq Claimed(sent2)
  <2>1. CASE e.job_id \in s.accepted
    <3>1. /\ m \in Message /\ m.job_id = e.job_id /\ m.kind = "status"
      BY DEF StreamEntry, Message, StatusMessage
    <3>2. Forwarded(e, s.accepted) = <<m>>
      BY <2>1 DEF Forwarded
    <3> HIDE DEF m
    <3>3. sent2 = Append(s.sent, m)
      BY <1>1, <3>1, <3>2
    <3>4. e.job_id \in Claimed(s.sent)
      BY <1>1, <2>1
    <3>5. /\ Append(s.sent, m) \in Seq(Message) /\ SentOK(Append(s.sent, m), S)
          /\ Claimed(s.sent) \subseteq Claimed(Append(s.sent, m))
      BY <1>1, <3>1, <3>4, SentAppend
    <3> QED
      BY <1>1, <3>3, <3>5
  <2>2. CASE e.job_id \notin s.accepted
    <3>1. Forwarded(e, s.accepted) = <<>>
      BY <2>2 DEF Forwarded
    <3>2. sent2 = s.sent
      BY <1>1, <3>1
    <3> QED
      BY <1>1, <3>2
  <2> QED
    BY <2>1, <2>2
<1> HIDE DEF sent2
<1>3. t = [s EXCEPT !.sent = sent2, !.next = s.next + 1]
  BY DEF sent2
<1>4. t.sent = sent2 /\ t.accepted = s.accepted /\ t.state = "select"
  BY <1>1, <1>3 DEF OpenSession
<1>5. s.next + 1 \in Nat
  BY <1>1
<1>6. t \in OpenSession
  BY <1>1, <1>2, <1>3, <1>5 DEF OpenSession
<1> QED
  BY <1>2, <1>4, <1>6 DEF SessionOK

\* A receiver that fell behind goes on elsewhere in the stream.
LEMMA LaggedOK ==
    ASSUME NEW s, NEW S, SessionOK(s, S), NEW n \in Nat,
           NEW t, t = [s EXCEPT !.next = n, !.lagged = TRUE]
    PROVE  SessionOK(t, S)
<1>1. s \in OpenSession
  BY DEF SessionOK
<1>2. /\ t.sent = s.sent /\ t.accepted = s.accepted /\ t.outcome = s.outcome
      /\ t.state = s.state
  BY <1>1 DEF OpenSession
<1>3. t \in OpenSession
  BY <1>1 DEF OpenSession
<1> QED
  BY <1>2, <1>3 DEF SessionOK

\* A new connection has sent and remembered nothing.
LEMMA NewSessionOK ==
    ASSUME stream \in Seq(StreamEntry), NEW origin \in PageOrigins, NEW S
    PROVE  SessionOK(NewSession(origin), S) /\ NewSession(origin) \in OpenSession
<1>1. <<>> \in Seq(Message) /\ Len(stream) + 1 \in Nat /\ {} \in SUBSET JobIds
  OBVIOUS
<1>2. NewSession(origin) \in OpenSession
  BY <1>1 DEF NewSession, OpenSession
<1>3. /\ NewSession(origin).sent = <<>> /\ NewSession(origin).accepted = {}
      /\ NewSession(origin).state = "select"
  BY DEF NewSession
<1>4. SentOK(<<>>, S)
  BY DEF SentOK
<1> QED
  BY <1>2, <1>3, <1>4 DEF SessionOK

\* A step that changes one session, and starts jobs if anything.
LEMMA OneSession ==
    ASSUME SessionsInv, NEW c \in Conns, NEW t, t = NoSession \/ SessionOK(t, Started(queue')),
           session' = [session EXCEPT ![c] = t], UNCHANGED config,
           Started(queue) \subseteq Started(queue')
    PROVE  SessionsInv'
<1>1. /\ config \in Configs
      /\ session \in [Conns -> OpenSession \cup {NoSession}]
      /\ \A d \in Conns : Open(d) => SessionOK(session[d], Started(queue))
  BY DEF SessionsInv
<1>2. t \in OpenSession \cup {NoSession}
  BY DEF SessionOK
<1>3. session' \in [Conns -> OpenSession \cup {NoSession}]
  BY <1>1, <1>2
<1>4. ASSUME NEW d \in Conns, Open(d)' PROVE SessionOK(session[d], Started(queue))'
  <2>1. CASE d = c
    <3>1. session'[d] = t
      BY <1>1, <2>1
    <3>2. t # NoSession
      BY <1>4, <3>1 DEF Open, NoSession
    <3> QED
      BY <3>1, <3>2
  <2>2. CASE d # c
    <3>1. session'[d] = session[d]
      BY <1>1, <2>2
    <3>2. SessionOK(session[d], Started(queue))
      BY <1>1, <1>4, <3>1 DEF Open
    <3>3. SessionOK(session[d], Started(queue'))
      BY <3>2, SentMore DEF SessionOK
    <3> QED
      BY <3>1, <3>3
  <2> QED
    BY <2>1, <2>2
<1> QED
  BY <1>1, <1>3, <1>4 DEF SessionsInv

\* A step that changes no session.
LEMMA NoSessionChanged ==
    ASSUME SessionsInv, UNCHANGED <<session, config>>, Started(queue) \subseteq Started(queue')
    PROVE  SessionsInv'
<1>1. \A d \in Conns : Open(d)' => Open(d)
  BY DEF Open
<1>2. ASSUME NEW d \in Conns, Open(d) PROVE SessionOK(session[d], Started(queue'))
  BY <1>2, SentMore DEF SessionsInv, SessionOK
<1> QED
  BY <1>1, <1>2 DEF SessionsInv

\* A message has been handled on connection c.
LEMMA AnswerStep ==
    ASSUME SessionsInv, NEW c \in Conns, session[c].state = "select", NEW o,
           OutcomeOK(o, session[c].sent), Answer(c, o), UNCHANGED config,
           Started(queue) \subseteq Started(queue')
    PROVE  SessionsInv'
<1> DEFINE t == [session[c] EXCEPT !.state = "reply", !.outcome = o]
<1>1. SessionOK(session[c], Started(queue))
  BY DEF SessionsInv, Open
<1>2. SessionOK(t, Started(queue))
  BY <1>1, AnswerOK
<1>3. SessionOK(t, Started(queue'))
  BY <1>2, SentMore DEF SessionOK
<1>4. session' = [session EXCEPT ![c] = t]
  BY DEF Answer
<1> HIDE DEF t
<1> QED
  BY <1>3, <1>4, OneSession

\* Every step keeps the invariant of the sessions.
LEMMA SessionsStep ==
    ASSUME WorkerInv, SessionsInv, [StreamNext]_vars
    PROVE  SessionsInv'
<1>1. /\ config \in Configs /\ session \in [Conns -> OpenSession \cup {NoSession}]
      /\ \A c \in Conns : Open(c) => SessionOK(session[c], Started(queue))
  BY DEF SessionsInv
<1>2. ASSUME NEW ids \in SUBSET JobIds, NEW sent
      PROVE  OutcomeOK(Outcome([kind |-> "accepted", ids |-> ids], ids), sent)
  <2>1. [kind |-> "accepted", ids |-> ids] \in Replies
    BY DEF Replies
  <2> QED
    BY <2>1 DEF OutcomeOK, Outcome, ClientOutcome
<1>3. ASSUME NEW sent PROVE OutcomeOK(Outcome(None, {}), sent)
  BY DEF OutcomeOK, Outcome, ClientOutcome
<1>4. UNCHANGED queue => Started(queue) \subseteq Started(queue')
  OBVIOUS
<1>5. ASSUME NEW c \in Conns, NEW sub \in Submissions, HandlePrint(c, sub) PROVE SessionsInv'
  <2>1. sub.job \in PrintJobInput
    BY StatusAssumption DEF Submission
  <2>2. {sub.job.job_id} \in SUBSET JobIds
    BY <2>1 DEF PrintJobInput
  <2>3. Started(queue) \subseteq Started(queue')
    BY <1>5, <2>1, AcceptJobWorker DEF HandlePrint, Enqueue
  <2> QED
    BY <1>2, <1>5, <2>2, <2>3, AnswerStep DEF HandlePrint
<1>6. ASSUME NEW c \in Conns, NEW b \in Batches, HandlePrintBatch(c, b) PROVE SessionsInv'
  <2>1. b.batch_id \in BatchIds /\ b.subs \in Seq(Submission)
    BY StatusAssumption
  <2>2. JobsOf(b.subs) \in Seq(PrintJobInput)
    BY <2>1, JobsOfType
  <2>3. IdsOf(JobsOf(b.subs)) \in SUBSET JobIds
    <3>1. \A i \in DOMAIN JobsOf(b.subs) : JobsOf(b.subs)[i] \in PrintJobInput
      BY <2>2
    <3> QED
      BY <3>1 DEF IdsOf, PrintJobInput
  <2>4. Started(queue) \subseteq Started(queue')
    BY <1>6, <2>1, <2>2, AcceptBatchWorker DEF HandlePrintBatch, Enqueue
  <2> QED
    BY <1>2, <1>6, <2>3, <2>4, AnswerStep DEF HandlePrintBatch
<1>7. ASSUME NEW c \in Conns,
             \/ \E sub \in Submissions : PrintRefused(c, sub)
             \/ \E b \in Batches : PrintBatchRefused(c, b)
             \/ Query(c)
      PROVE  SessionsInv'
  <2>1. /\ session[c].state = "select" /\ UNCHANGED <<config, queue>>
        /\ Answer(c, Outcome(None, {}))
    BY <1>7 DEF PrintRefused, PrintBatchRefused, Query, Refused
  <2> QED
    BY <1>3, <1>4, <2>1, AnswerStep
<1>8. ASSUME NEW c \in Conns, GetPrintQueue(c) PROVE SessionsInv'
  <2> DEFINE reply == [kind |-> "print_queue", ids |-> PendingIds(queue)]
             o == Outcome(reply, {})
  <2>1. /\ session[c].state = "select" /\ UNCHANGED <<config, queue>> /\ Answer(c, o)
    BY <1>8 DEF GetPrintQueue
  <2>2. SentOK(session[c].sent, Started(queue))
    BY <1>1, <2>1 DEF Open, SessionOK
  <2>3. PendingIds(queue) \in SUBSET JobIds
    BY DEF WorkerInv, QueueOK, QueueType
  <2>4. reply \in Replies /\ reply.kind = "print_queue" /\ reply.ids = PendingIds(queue)
    BY <2>3 DEF Replies
  <2> HIDE DEF reply
  <2>5. o \in ClientOutcome /\ o.ids = {} /\ o.reply = reply
    BY <2>4 DEF Outcome, ClientOutcome
  <2>6. \A k \in DOMAIN session[c].sent : IsStatus(session[c].sent[k]) =>
             session[c].sent[k].job_id \notin PendingIds(queue)
    BY <2>2 DEF SentOK, Started
  <2> HIDE DEF o
  <2>7. OutcomeOK(o, session[c].sent)
    BY <2>4, <2>5, <2>6 DEF OutcomeOK
  <2> QED
    BY <1>4, <2>1, <2>7, AnswerStep
<1>9. ASSUME NEW c \in Conns, Reply(c) PROVE SessionsInv'
  <2> DEFINE s == session[c]
             t == [s EXCEPT !.state = "select", !.outcome = None,
                            !.accepted = @ \cup s.outcome.ids,
                            !.sent = IF s.outcome.reply = None THEN @
                                     ELSE Append(@, s.outcome.reply)]
  <2>1. s.state = "reply" /\ UNCHANGED <<config, queue>>
    BY <1>9 DEF Reply
  <2>2. session' = [session EXCEPT ![c] = t]
    BY <1>9 DEF Reply
  <2>3. SessionOK(s, Started(queue))
    BY <1>1, <2>1 DEF Open
  <2>4. SessionOK(t, Started(queue))
    BY <2>1, <2>3, ReplyOK
  <2> HIDE DEF t, s
  <2> QED
    BY <2>1, <2>2, <2>4, OneSession
<1>10. ASSUME NEW c \in Conns, Receive(c) PROVE SessionsInv'
  <2> DEFINE s == session[c]
             e == stream[s.next]
             t == [s EXCEPT !.sent = @ \o Forwarded(e, s.accepted), !.next = @ + 1]
  <2>1. s.state = "select" /\ UNCHANGED <<config, queue>> /\ s.next \in Oldest .. Len(stream)
    BY <1>10 DEF Receive
  <2>2. session' = [session EXCEPT ![c] = t]
    BY <1>10 DEF Receive
  <2>3. SessionOK(s, Started(queue))
    BY <1>1, <2>1 DEF Open
  <2>4. s.next \in DOMAIN stream
    <3>1. stream \in Seq(StreamEntry) /\ Capacity \in Nat
      BY StatusAssumption DEF WorkerInv
    <3>2. Oldest \in Nat \ {0}
      BY <3>1 DEF Oldest
    <3> QED
      BY <2>1, <3>1, <3>2
  <2>5. e \in StreamEntry /\ e.job_id \in Started(queue)
    BY <2>4 DEF WorkerInv
  <2>6. SessionOK(t, Started(queue))
    BY <2>1, <2>3, <2>5, ReceiveOK
  <2> HIDE DEF t, s
  <2> QED
    BY <2>1, <2>2, <2>6, OneSession
<1>11. ASSUME NEW c \in Conns, Lagged(c) PROVE SessionsInv'
  <2> DEFINE s == session[c]
             t == [s EXCEPT !.next = Oldest, !.lagged = TRUE]
  <2>1. s.state = "select" /\ UNCHANGED <<config, queue>>
    BY <1>11 DEF Lagged
  <2>2. session' = [session EXCEPT ![c] = t]
    BY <1>11 DEF Lagged
  <2>3. SessionOK(s, Started(queue))
    BY <1>1, <2>1 DEF Open
  <2>4. Oldest \in Nat
    BY StatusAssumption DEF Oldest, WorkerInv
  <2>5. SessionOK(t, Started(queue))
    BY <2>3, <2>4, LaggedOK
  <2> HIDE DEF t, s
  <2> QED
    BY <2>1, <2>2, <2>5, OneSession
<1>12. ASSUME NEW c \in Conns, NEW p \in Peers, Connect(c, p[1], p[2]) PROVE SessionsInv'
  <2>1. p[2] \in PageOrigins
    BY <1>1, <1>12, StatusAssumption DEF Connect, is_ws_origin_allowed, SessionConfig
  <2>2. stream \in Seq(StreamEntry)
    BY DEF WorkerInv
  <2>3. SessionOK(NewSession(p[2]), Started(queue'))
    BY <2>1, <2>2, NewSessionOK
  <2> QED
    BY <1>4, <1>12, <2>3, OneSession DEF Connect
<1>13. ASSUME NEW c \in Conns, Disconnect(c) PROVE SessionsInv'
  BY <1>4, <1>13, OneSession DEF Disconnect
<1>14. CASE WorkerStep
  <2>1. UNCHANGED <<session, config>> /\ (UNCHANGED queue \/ WorkerPop)
    BY <1>14 DEF WorkerStep, WorkerPop, LogQueued, LogDownloading, LogRendered, LogPrinting,
       LogSubmitted, LogFailed, LogTracked, push_log
  <2> QED
    BY <1>4, <2>1, PopWorker, NoSessionChanged
<1>15. ASSUME NEW sub \in Submissions, AcceptRemote(sub) PROVE SessionsInv'
  <2>1. sub.job \in PrintJobInput
    BY StatusAssumption DEF Submission
  <2>2. Started(queue) \subseteq Started(queue')
    BY <1>15, <2>1, AcceptJobWorker DEF AcceptRemote
  <2> QED
    BY <1>15, <2>2, NoSessionChanged DEF AcceptRemote
<1>16. CASE ClearTaskHistory \/ UNCHANGED vars
  BY <1>4, <1>16, NoSessionChanged DEF ClearTaskHistory, vars
<1>17. CASE Restart
  <2>1. session' = [c \in Conns |-> NoSession] /\ UNCHANGED config
    BY <1>17 DEF Restart
  <2>2. \A c \in Conns : ~Open(c)'
    BY <2>1 DEF Open, NoSession
  <2>3. session' \in [Conns -> OpenSession \cup {NoSession}]
    BY <2>1
  <2> QED
    BY <1>1, <2>1, <2>2, <2>3 DEF SessionsInv
<1> QED
  BY <1>5, <1>6, <1>7, <1>8, <1>9, <1>10, <1>11, <1>12, <1>13, <1>14, <1>15, <1>16, <1>17
     DEF StreamNext, HandleClientText, NextStatus

\* The invariants of the worker and of the sessions hold.
LEMMA StreamInvariants == StreamSpec => [](WorkerInv /\ SessionsInv)
<1>1. StreamInit => SessionsInv
  <2> SUFFICES ASSUME StreamInit PROVE SessionsInv
    OBVIOUS
  <2>1. config \in Configs /\ session = [c \in Conns |-> NoSession]
    BY DEF StreamInit
  <2>2. \A c \in Conns : ~Open(c)
    BY <2>1 DEF Open, NoSession
  <2>3. session \in [Conns -> OpenSession \cup {NoSession}]
    BY <2>1
  <2> QED
    BY <2>1, <2>2, <2>3 DEF SessionsInv
<1>2. WorkerInv /\ SessionsInv /\ [StreamNext]_vars => WorkerInv' /\ SessionsInv'
  BY WorkerInvStep, SessionsStep
<1> QED
  BY <1>1, <1>2, WorkerInvInit, PTL DEF StreamSpec

\* A client is sent statuses only of jobs that an answer on its own connection
\* accepted.
THEOREM ToldOnlyOwnJobs == StreamSpec => []OnlyOwnJobs
<1>1. SessionsInv => OnlyOwnJobs
  BY DEF SessionsInv, SessionOK, SentOK, OnlyOwnJobs
<1> QED
  BY <1>1, StreamInvariants, PTL

\* A listing of the queue never names a job the client has had one of the worker's
\* statuses of.
THEOREM ListingsNameNoStarted == StreamSpec => []ListedNotStarted
<1>1. SessionsInv => ListedNotStarted
  BY DEF SessionsInv, SessionOK, SentOK, ListedNotStarted
<1> QED
  BY <1>1, StreamInvariants, PTL

-----------------------------------------------------------------------------
(* Without gaps.                                                            *)

\* About, of any stream.
Told(str, j, upto) == {k \in 1 .. upto : str[k].job_id = j}

\* Forwards, of any stream: the n-th status of a job among the messages is the n-th
\* of some places of the stream, and there are as many.
Matches(str, told, sent, j) ==
    LET got == StatusesOf(j, sent)
    IN  /\ Cardinality(got) = Cardinality(told)
        /\ \A i \in got, k \in told : Rank(i, got) = Rank(k, told) => sent[i].status = str[k].status

\* A new last position is the next in rank, and leaves the others' ranks alone.
LEMMA RankLast ==
    ASSUME NEW n \in Nat, NEW S, S \subseteq 1 .. n
    PROVE  /\ Cardinality(S) \in Nat
           /\ Cardinality(S \cup {n + 1}) = Cardinality(S) + 1
           /\ Rank(n + 1, S \cup {n + 1}) = Cardinality(S) + 1
           /\ \A i \in S : /\ Rank(i, S \cup {n + 1}) = Rank(i, S) /\ Rank(i, S) \in Nat
                           /\ Rank(i, S) =< Cardinality(S)
<1>1. IsFiniteSet(1 .. n)
  BY FS_Interval
<1>2. IsFiniteSet(S)
  BY <1>1, FS_Subset
<1>3. Cardinality(S) \in Nat
  BY <1>2, FS_CardinalityType
<1>4. n + 1 \notin S /\ \A k \in S : k \in Nat /\ k =< n + 1 /\ k < n + 1
  OBVIOUS
<1>5. Cardinality(S \cup {n + 1}) = Cardinality(S) + 1
  BY <1>2, <1>4, FS_AddElement
<1>6. Rank(n + 1, S \cup {n + 1}) = Cardinality(S) + 1
  <2>1. \A k \in S \cup {n + 1} : k =< n + 1
    BY <1>4
  <2>2. {k \in S \cup {n + 1} : k =< n + 1} = S \cup {n + 1}
    BY <2>1, Zenon
  <2> QED
    BY <1>5, <2>2 DEF Rank
<1>7. ASSUME NEW i \in S
      PROVE  /\ Rank(i, S \cup {n + 1}) = Rank(i, S) /\ Rank(i, S) \in Nat
             /\ Rank(i, S) =< Cardinality(S)
  <2>1. ~(n + 1 =< i)
    BY <1>4
  <2>2. {k \in S \cup {n + 1} : k =< i} = {k \in S : k =< i}
    BY <2>1, Zenon
  <2>3. {k \in S : k =< i} \in SUBSET S
    OBVIOUS
  <2>4. /\ IsFiniteSet({k \in S : k =< i})
        /\ Cardinality({k \in S : k =< i}) =< Cardinality(S)
    BY <1>2, <2>3, FS_Subset
  <2>5. Cardinality({k \in S : k =< i}) \in Nat
    BY <2>4, FS_CardinalityType
  <2> QED
    BY <2>2, <2>4, <2>5 DEF Rank
<1> QED
  BY <1>3, <1>5, <1>6, <1>7

\* A message that is no status of a job adds none of it.
LEMMA StatusesAppend ==
    ASSUME NEW sent \in Seq(Message), NEW m \in Message, NEW j
    PROVE  /\ StatusesOf(j, sent) \subseteq 1 .. Len(sent) /\ Len(sent) \in Nat
           /\ StatusesOf(j, Append(sent, m)) =
                IF IsStatus(m) /\ m.job_id = j THEN StatusesOf(j, sent) \cup {Len(sent) + 1}
                ELSE StatusesOf(j, sent)
           /\ \A i \in StatusesOf(j, sent) : Append(sent, m)[i] = sent[i]
           /\ Append(sent, m)[Len(sent) + 1] = m
<1> DEFINE n == Len(sent)
           r == Append(sent, m)
<1>1. /\ n \in Nat /\ DOMAIN sent = 1..n
      /\ DOMAIN r = 1..(n + 1) /\ r[n + 1] = m /\ \A i \in 1..n : r[i] = sent[i]
  OBVIOUS
<1> HIDE DEF n, r
<1>2. 1..(n + 1) = 1..n \cup {n + 1} /\ n + 1 \notin 1..n
  BY <1>1
<1>3. StatusesOf(j, r) = IF IsStatus(m) /\ m.job_id = j THEN StatusesOf(j, sent) \cup {n + 1}
                         ELSE StatusesOf(j, sent)
  BY <1>1, <1>2 DEF StatusesOf
<1> QED
  BY <1>1, <1>3 DEF StatusesOf, n, r

\* The next entry of the stream.
LEMMA ToldNext ==
    ASSUME NEW str, NEW j, NEW n \in Nat
    PROVE  /\ Told(str, j, n) \subseteq 1 .. n
           /\ Told(str, j, n + 1) = IF str[n + 1].job_id = j THEN Told(str, j, n) \cup {n + 1}
                                    ELSE Told(str, j, n)
<1>1. 1..(n + 1) = 1..n \cup {n + 1}
  OBVIOUS
<1> QED
  BY <1>1 DEF Told

\* A status of the job joins both.
LEMMA MatchesBoth ==
    ASSUME NEW str, NEW n \in Nat, NEW told, told \subseteq 1 .. n,
           NEW sent \in Seq(Message), NEW m \in Message,
           IsStatus(m), m.status = str[n + 1].status, Matches(str, told, sent, m.job_id)
    PROVE  Matches(str, told \cup {n + 1}, Append(sent, m), m.job_id)
<1> DEFINE j == m.job_id
           l == Len(sent)
           r == Append(sent, m)
           got == StatusesOf(j, sent)
           got2 == StatusesOf(j, r)
           told2 == told \cup {n + 1}
<1>1. /\ got \subseteq 1 .. l /\ l \in Nat /\ got2 = got \cup {l + 1}
      /\ \A i \in got : r[i] = sent[i]
      /\ r[l + 1] = m
  BY StatusesAppend
<1>2. told2 = told \cup {n + 1}
  OBVIOUS
<1>3. /\ Cardinality(got) = Cardinality(told)
      /\ \A i \in got, k \in told : Rank(i, got) = Rank(k, told) => sent[i].status = str[k].status
  BY DEF Matches
<1> HIDE DEF l, r, got, got2, told2
<1>4. /\ Cardinality(got) \in Nat /\ Cardinality(got2) = Cardinality(got) + 1
      /\ Rank(l + 1, got2) = Cardinality(got) + 1
      /\ \A i \in got : /\ Rank(i, got2) = Rank(i, got) /\ Rank(i, got) \in Nat
                        /\ Rank(i, got) =< Cardinality(got)
  <2>1. l \in Nat /\ got \subseteq 1 .. l /\ got2 = got \cup {l + 1}
    BY <1>1
  <2> QED
    BY <2>1, RankLast
<1>5. /\ Cardinality(told) \in Nat /\ Cardinality(told2) = Cardinality(told) + 1
      /\ Rank(n + 1, told2) = Cardinality(told) + 1
      /\ \A i \in told : /\ Rank(i, told2) = Rank(i, told) /\ Rank(i, told) \in Nat
                         /\ Rank(i, told) =< Cardinality(told)
  <2>1. n \in Nat /\ told \subseteq 1 .. n /\ told2 = told \cup {n + 1}
    BY <1>2
  <2> QED
    BY <2>1, RankLast
<1>6. ASSUME NEW i \in got2, NEW k \in told2, Rank(i, got2) = Rank(k, told2)
      PROVE  r[i].status = str[k].status
  <2>1. CASE i \in got /\ k \in told
    BY <1>1, <1>3, <1>4, <1>5, <1>6, <2>1
  <2>2. CASE i = l + 1 /\ k = n + 1
    BY <1>1, <2>2
  <2>3. CASE i \in got /\ k = n + 1
    BY <1>3, <1>4, <1>5, <1>6, <2>3
  <2>4. CASE i = l + 1 /\ k \in told
    BY <1>3, <1>4, <1>5, <1>6, <2>4
  <2> QED
    BY <1>1, <1>2, <2>1, <2>2, <2>3, <2>4
<1>7. Cardinality(got2) = Cardinality(told2)
  BY <1>3, <1>4, <1>5
<1> QED
  BY <1>6, <1>7 DEF Matches, r, got2, told2

\* The same positions and statuses, by other sequences.
LEMMA MatchesSame ==
    ASSUME NEW str, NEW told, NEW sent, NEW j, Matches(str, told, sent, j),
           NEW str2, NEW sent2, StatusesOf(j, sent2) = StatusesOf(j, sent),
           \A i \in StatusesOf(j, sent) : sent2[i] = sent[i],
           \A k \in told : str2[k] = str[k]
    PROVE  Matches(str2, told, sent2, j)
  BY DEF Matches

\* What a session owes its client: the statuses of the jobs it remembers match the
\* part of the stream it has read, or some of it when it missed some; and a job it has still to
\* remember has no status yet in that part, nor among the messages.
GapOK(s, str) ==
    /\ s.next \in 1 .. (Len(str) + 1)
    /\ ~s.lagged => \A j \in s.accepted : Matches(str, Told(str, j, s.next - 1), s.sent, j)
    /\ \A j \in s.accepted : \E kept \in SUBSET Told(str, j, s.next - 1) :
         Matches(str, kept, s.sent, j)
    /\ s.state = "reply" =>
         \A j \in s.outcome.ids : StatusesOf(j, s.sent) = {} /\ Told(str, j, s.next - 1) = {}

\* The strengthening of NoGaps.
GapInv == \A c \in Conns : Open(c) => GapOK(session[c], stream)

\* A job without statuses on either side.
LEMMA MatchesNone ==
    ASSUME NEW str, NEW sent, NEW j, StatusesOf(j, sent) = {}
    PROVE  Matches(str, {}, sent, j)
  BY DEF Matches

\* handle_client_text accepted jobs of which nothing is known yet, or none.
LEMMA GapAnswer ==
    ASSUME NEW str, NEW s \in OpenSession, GapOK(s, str), NEW o \in ClientOutcome,
           \A j \in o.ids : StatusesOf(j, s.sent) = {} /\ Told(str, j, s.next - 1) = {},
           NEW t, t = [s EXCEPT !.state = "reply", !.outcome = o]
    PROVE  GapOK(t, str)
<1>1. /\ t.sent = s.sent /\ t.accepted = s.accepted /\ t.outcome = o
      /\ t.next = s.next /\ t.lagged = s.lagged
  BY DEF OpenSession
<1> QED
  BY <1>1 DEF GapOK

\* An answer is no status: it only lets the session remember its jobs.
LEMMA GapReply ==
    ASSUME NEW str, NEW s \in OpenSession, GapOK(s, str), s.state = "reply",
           s.outcome \in ClientOutcome,
           NEW t, t = [s EXCEPT !.state = "select", !.outcome = None,
                                !.accepted = @ \cup s.outcome.ids,
                                !.sent = IF s.outcome.reply = None THEN @
                                         ELSE Append(@, s.outcome.reply)]
    PROVE  GapOK(t, str)
<1> DEFINE o == s.outcome
           n == s.next - 1
           sent2 == IF o.reply = None THEN s.sent ELSE Append(s.sent, o.reply)
<1>1. /\ t.sent = sent2 /\ t.accepted = s.accepted \cup o.ids /\ t.state = "select"
      /\ t.next = s.next /\ t.lagged = s.lagged
  BY DEF OpenSession
<1>2. s.sent \in Seq(Message) /\ o.reply \in Replies \cup {None}
  BY DEF OpenSession, ClientOutcome
<1>3. ASSUME NEW j
      PROVE  /\ StatusesOf(j, sent2) = StatusesOf(j, s.sent)
             /\ \A i \in StatusesOf(j, s.sent) : sent2[i] = s.sent[i]
  <2>1. CASE o.reply = None
    BY <2>1
  <2>2. CASE o.reply # None
    <3>1. o.reply \in Message /\ ~IsStatus(o.reply)
      BY <1>2, <2>2 DEF Message, Replies, IsStatus
    <3> HIDE DEF o
    <3>2. /\ StatusesOf(j, Append(s.sent, o.reply)) = StatusesOf(j, s.sent)
          /\ \A i \in StatusesOf(j, s.sent) : Append(s.sent, o.reply)[i] = s.sent[i]
      BY <1>2, <3>1, StatusesAppend
    <3> QED
      BY <2>2, <3>2
  <2> QED
    BY <2>1, <2>2
<1>4. ASSUME NEW j \in o.ids
      PROVE  Told(str, j, n) = {} /\ Matches(str, {}, s.sent, j)
  BY <1>4, MatchesNone DEF GapOK
<1>5. ASSUME NEW j, NEW told, Matches(str, told, s.sent, j) PROVE Matches(str, told, sent2, j)
  <2> HIDE DEF sent2
  <2> QED
    BY <1>3, <1>5, MatchesSame
<1>6. ASSUME ~s.lagged, NEW j \in s.accepted \cup o.ids
      PROVE  Matches(str, Told(str, j, n), sent2, j)
  <2>1. Matches(str, Told(str, j, n), s.sent, j)
    BY <1>4, <1>6 DEF GapOK
  <2> HIDE DEF n, sent2
  <2> QED
    BY <1>5, <2>1
<1>7. ASSUME NEW j \in s.accepted \cup o.ids
      PROVE  \E kept \in SUBSET Told(str, j, n) : Matches(str, kept, sent2, j)
  <2>1. \E kept \in SUBSET Told(str, j, n) : Matches(str, kept, s.sent, j)
    BY <1>4, <1>7 DEF GapOK
  <2> HIDE DEF n, sent2
  <2> QED
    BY <1>5, <2>1
<1> QED
  BY <1>1, <1>6, <1>7 DEF GapOK

\* The session reads the next entry of the stream.
LEMMA GapReceive ==
    ASSUME NEW str \in Seq(StreamEntry), NEW s \in OpenSession, GapOK(s, str),
           s.state = "select", s.next \in 1 .. Len(str),
           NEW t, t = [s EXCEPT !.sent = @ \o Forwarded(str[s.next], s.accepted), !.next = @ + 1]
    PROVE  GapOK(t, str)
<1> DEFINE e == str[s.next]
           m == [kind |-> "status", job_id |-> e.job_id, status |-> e.status]
           n == s.next - 1
           sent2 == s.sent \o Forwarded(e, s.accepted)
<1>1. /\ t.sent = sent2 /\ t.accepted = s.accepted /\ t.state = "select"
      /\ t.next = s.next + 1 /\ t.lagged = s.lagged
  BY DEF OpenSession
<1>2. /\ s.sent \in Seq(Message) /\ s.next \in Nat /\ n \in Nat /\ n + 1 = s.next
      /\ (s.next + 1) - 1 = n + 1 /\ s.next + 1 \in 1 .. (Len(str) + 1)
  BY DEF OpenSession
<1>3. e \in StreamEntry /\ e = str[n + 1]
  BY <1>2
<1>4. /\ m \in Message /\ IsStatus(m) /\ m.job_id = e.job_id /\ m.status = e.status
  BY <1>3 DEF StreamEntry, Message, StatusMessage, IsStatus
<1>5. IF e.job_id \in s.accepted THEN sent2 = Append(s.sent, m) ELSE sent2 = s.sent
  <2>1. CASE e.job_id \in s.accepted
    <3>1. Forwarded(e, s.accepted) = <<m>>
      BY <2>1 DEF Forwarded
    <3> HIDE DEF m
    <3> QED
      BY <1>2, <1>4, <2>1, <3>1
  <2>2. CASE e.job_id \notin s.accepted
    <3>1. Forwarded(e, s.accepted) = <<>>
      BY <2>2 DEF Forwarded
    <3> QED
      BY <1>2, <2>2, <3>1
  <2> QED
    BY <2>1, <2>2
<1> HIDE DEF e, m, n, sent2
<1>6. ASSUME NEW j
      PROVE  /\ Told(str, j, n) \subseteq 1 .. n
             /\ Told(str, j, n + 1) = IF e.job_id = j THEN Told(str, j, n) \cup {n + 1}
                                      ELSE Told(str, j, n)
  <2>1. n \in Nat
    BY <1>2
  <2>2. /\ Told(str, j, n) \subseteq 1 .. n
        /\ Told(str, j, n + 1) = IF str[n + 1].job_id = j THEN Told(str, j, n) \cup {n + 1}
                                 ELSE Told(str, j, n)
    BY <2>1, ToldNext, Zenon
  <2> QED
    BY <1>3, <2>2
<1>7. ASSUME NEW j \in s.accepted, NEW told, told \subseteq Told(str, j, n),
             Matches(str, told, s.sent, j)
      PROVE  IF e.job_id = j THEN Matches(str, told \cup {n + 1}, sent2, j)
             ELSE Matches(str, told, sent2, j)
  <2>1. CASE e.job_id = j
    <3>1. sent2 = Append(s.sent, m) /\ m.job_id = j /\ told \subseteq 1 .. n
      BY <1>4, <1>5, <1>6, <1>7, <2>1
    <3>2. Matches(str, told \cup {n + 1}, Append(s.sent, m), m.job_id)
      BY <1>2, <1>3, <1>4, <1>7, <3>1, MatchesBoth
    <3> QED
      BY <2>1, <3>1, <3>2
  <2>2. CASE e.job_id # j
    <3>1. /\ StatusesOf(j, sent2) = StatusesOf(j, s.sent)
          /\ \A i \in StatusesOf(j, s.sent) : sent2[i] = s.sent[i]
      <4>1. /\ StatusesOf(j, Append(s.sent, m)) = StatusesOf(j, s.sent)
            /\ \A i \in StatusesOf(j, s.sent) : Append(s.sent, m)[i] = s.sent[i]
        BY <1>2, <1>4, <2>2, StatusesAppend
      <4> QED
        BY <1>5, <4>1
    <3>2. Matches(str, told, sent2, j)
      BY <1>7, <3>1, MatchesSame
    <3> QED
      BY <2>2, <3>2
  <2> QED
    BY <2>1, <2>2
<1>8. ASSUME ~s.lagged, NEW j \in s.accepted PROVE Matches(str, Told(str, j, n + 1), sent2, j)
  <2>1. Matches(str, Told(str, j, n), s.sent, j)
    BY <1>8 DEF GapOK, n
  <2>2. IF e.job_id = j THEN Matches(str, Told(str, j, n) \cup {n + 1}, sent2, j)
        ELSE Matches(str, Told(str, j, n), sent2, j)
    BY <1>7, <1>8, <2>1
  <2> QED
    BY <1>6, <2>2
<1>9. ASSUME NEW j \in s.accepted
      PROVE  \E kept \in SUBSET Told(str, j, n + 1) : Matches(str, kept, sent2, j)
  <2>1. PICK kept \in SUBSET Told(str, j, n) : Matches(str, kept, s.sent, j)
    BY <1>9 DEF GapOK, n
  <2>2. IF e.job_id = j THEN Matches(str, kept \cup {n + 1}, sent2, j)
        ELSE Matches(str, kept, sent2, j)
    BY <1>7, <1>9, <2>1
  <2>3. CASE e.job_id = j
    <3>1. kept \cup {n + 1} \in SUBSET Told(str, j, n + 1)
      BY <1>6, <2>3
    <3> QED
      BY <2>2, <2>3, <3>1
  <2>4. CASE e.job_id # j
    <3>1. kept \in SUBSET Told(str, j, n + 1)
      BY <1>6, <2>4
    <3> QED
      BY <2>2, <2>4, <3>1
  <2> QED
    BY <2>3, <2>4
<1> QED
  BY <1>1, <1>2, <1>8, <1>9 DEF GapOK

\* A receiver that fell behind has missed some, and what it sent is still in order.
LEMMA GapLagged ==
    ASSUME NEW str, NEW s \in OpenSession, GapOK(s, str), s.state = "select", Len(str) \in Nat,
           NEW n \in 1 .. (Len(str) + 1), s.next < n,
           NEW t, t = [s EXCEPT !.next = n, !.lagged = TRUE]
    PROVE  GapOK(t, str)
<1>1. /\ t.lagged = TRUE /\ t.next = n /\ t.state = "select"
      /\ t.sent = s.sent /\ t.accepted = s.accepted
  BY DEF OpenSession
<1>2. ASSUME NEW j PROVE Told(str, j, s.next - 1) \subseteq Told(str, j, n - 1)
  <2>1. 1 .. (s.next - 1) \subseteq 1 .. (n - 1)
    BY DEF GapOK
  <2> QED
    BY <2>1 DEF Told
<1>3. ASSUME NEW j \in s.accepted
      PROVE  \E kept \in SUBSET Told(str, j, n - 1) : Matches(str, kept, s.sent, j)
  BY <1>2, <1>3 DEF GapOK
<1> QED
  BY <1>1, <1>3 DEF GapOK

\* The stream grows behind what a session has read.
LEMMA GapMore ==
    ASSUME NEW str \in Seq(StreamEntry), NEW e \in StreamEntry, NEW s \in OpenSession,
           GapOK(s, str)
    PROVE  GapOK(s, Append(str, e))
<1> DEFINE n == s.next - 1
           str2 == Append(str, e)
<1>1. /\ Len(str2) = Len(str) + 1 /\ Len(str) \in Nat
      /\ \A k \in 1 .. Len(str) : str2[k] = str[k]
  OBVIOUS
<1>2. s.next \in 1 .. (Len(str2) + 1) /\ 1 .. n \subseteq 1 .. Len(str)
  BY <1>1 DEF GapOK
<1> HIDE DEF n, str2
<1>3. ASSUME NEW j
      PROVE  Told(str2, j, n) = Told(str, j, n) /\ \A k \in Told(str, j, n) : str2[k] = str[k]
  BY <1>1, <1>2 DEF Told
<1>4. ASSUME NEW j, NEW kept \in SUBSET Told(str, j, n), Matches(str, kept, s.sent, j)
      PROVE  Matches(str2, kept, s.sent, j)
  BY <1>3, <1>4, MatchesSame
<1> QED
  BY <1>2, <1>3, <1>4 DEF GapOK, n, str2

\* A step that changes one session and no status.
LEMMA OneGap ==
    ASSUME GapInv, SessionsInv, NEW c \in Conns, NEW t, t = NoSession \/ GapOK(t, stream),
           session' = [session EXCEPT ![c] = t], UNCHANGED stream
    PROVE  GapInv'
<1>1. session \in [Conns -> OpenSession \cup {NoSession}]
  BY DEF SessionsInv
<1>2. ASSUME NEW d \in Conns, Open(d)' PROVE GapOK(session'[d], stream)
  <2>1. CASE d = c
    BY <1>1, <1>2, <2>1 DEF Open, NoSession
  <2>2. CASE d # c
    BY <1>1, <1>2, <2>2 DEF Open, GapInv
  <2> QED
    BY <2>1, <2>2
<1> QED
  BY <1>2 DEF GapInv

\* Nothing has been said yet of a job that the worker has not taken.
LEMMA NotStarted ==
    ASSUME WorkerInv, SessionsInv, GapInv, NEW c \in Conns, Open(c), NEW j,
           j \notin queue.seen_job_ids
    PROVE  StatusesOf(j, session[c].sent) = {} /\ Told(stream, j, session[c].next - 1) = {}
<1>1. j \notin Started(queue)
  BY DEF Started
<1>2. SentOK(session[c].sent, Started(queue))
  BY DEF SessionsInv, SessionOK
<1>3. StatusesOf(j, session[c].sent) = {}
  BY <1>1, <1>2 DEF SentOK, StatusesOf
<1>4. /\ stream \in Seq(StreamEntry) /\ session[c].next \in 1 .. (Len(stream) + 1)
      /\ \A i \in DOMAIN stream : stream[i].job_id \in Started(queue)
  BY DEF WorkerInv, GapInv, GapOK
<1>5. 1 .. (session[c].next - 1) \subseteq DOMAIN stream
  BY <1>4
<1>6. Told(stream, j, session[c].next - 1) = {}
  BY <1>1, <1>4, <1>5 DEF Told
<1> QED
  BY <1>3, <1>6

\* A message has been handled on connection c; the jobs it brought are new.
LEMMA GapAnswerStep ==
    ASSUME WorkerInv, SessionsInv, GapInv, NEW c \in Conns, session[c].state = "select", NEW o,
           o \in ClientOutcome, o.ids \cap queue.seen_job_ids = {}, Answer(c, o), UNCHANGED stream
    PROVE  GapInv'
<1> DEFINE t == [session[c] EXCEPT !.state = "reply", !.outcome = o]
<1>1. Open(c) /\ session[c] \in OpenSession /\ GapOK(session[c], stream)
  BY DEF SessionsInv, SessionOK, Open, GapInv
<1>2. \A j \in o.ids : StatusesOf(j, session[c].sent) = {}
                       /\ Told(stream, j, session[c].next - 1) = {}
  BY <1>1, NotStarted
<1>3. GapOK(t, stream)
  BY <1>1, <1>2, GapAnswer
<1>4. session' = [session EXCEPT ![c] = t]
  BY DEF Answer
<1> HIDE DEF t
<1> QED
  BY <1>3, <1>4, OneGap

\* Every step keeps the invariant.
LEMMA GapStep ==
    ASSUME WorkerInv, SessionsInv, GapInv, [StreamNext]_vars
    PROVE  GapInv'
<1>1. ASSUME NEW c \in Conns, Open(c)
      PROVE  session[c] \in OpenSession /\ GapOK(session[c], stream)
  BY <1>1 DEF SessionsInv, SessionOK, GapInv
<1>2. stream \in Seq(StreamEntry) /\ Oldest \in 1 .. (Len(stream) + 1)
  <2>1. stream \in Seq(StreamEntry) /\ Capacity \in Nat \ {0}
    BY StatusAssumption DEF WorkerInv
  <2> QED
    BY <2>1 DEF Oldest
<1>3. ASSUME NEW ids \in SUBSET JobIds
      PROVE  /\ Outcome([kind |-> "accepted", ids |-> ids], ids) \in ClientOutcome
             /\ Outcome([kind |-> "accepted", ids |-> ids], ids).ids = ids
  BY DEF Outcome, ClientOutcome, Replies
<1>4. ASSUME UNCHANGED <<session, stream>> PROVE GapInv'
  BY <1>4 DEF GapInv, Open
<1>5. ASSUME NEW c \in Conns, NEW sub \in Submissions, HandlePrint(c, sub) PROVE GapInv'
  <2>1. {sub.job.job_id} \in SUBSET JobIds
    BY StatusAssumption DEF Submission, PrintJobInput
  <2>2. {sub.job.job_id} \cap queue.seen_job_ids = {}
    BY <1>5 DEF HandlePrint, CanAcceptJob
  <2>3. /\ session[c].state = "select" /\ UNCHANGED stream
        /\ Answer(c, Outcome([kind |-> "accepted", ids |-> {sub.job.job_id}], {sub.job.job_id}))
    BY <1>5 DEF HandlePrint, workerVars
  <2> QED
    BY <1>3, <2>1, <2>2, <2>3, GapAnswerStep
<1>6. ASSUME NEW c \in Conns, NEW b \in Batches, HandlePrintBatch(c, b) PROVE GapInv'
  <2> DEFINE ids == IdsOf(JobsOf(b.subs))
  <2>1. ids \in SUBSET JobIds
    <3>1. JobsOf(b.subs) \in Seq(PrintJobInput)
      BY StatusAssumption, JobsOfType
    <3>2. \A i \in DOMAIN JobsOf(b.subs) : JobsOf(b.subs)[i] \in PrintJobInput
      BY <3>1
    <3> QED
      BY <3>2 DEF IdsOf, PrintJobInput
  <2>2. ids \cap queue.seen_job_ids = {}
    BY <1>6 DEF HandlePrintBatch, CanAcceptBatch, IdsOf
  <2>3. /\ session[c].state = "select" /\ UNCHANGED stream
        /\ Answer(c, Outcome([kind |-> "accepted", ids |-> ids], ids))
    BY <1>6 DEF HandlePrintBatch, workerVars
  <2> HIDE DEF ids
  <2> QED
    BY <1>3, <2>1, <2>2, <2>3, GapAnswerStep
<1>7. ASSUME NEW c \in Conns,
             \/ \E sub \in Submissions : PrintRefused(c, sub)
             \/ \E b \in Batches : PrintBatchRefused(c, b)
             \/ Query(c)
      PROVE  GapInv'
  <2>1. /\ session[c].state = "select" /\ UNCHANGED stream /\ Answer(c, Outcome(None, {}))
    BY <1>7 DEF PrintRefused, PrintBatchRefused, Query, Refused, workerVars
  <2>2. Outcome(None, {}) \in ClientOutcome /\ Outcome(None, {}).ids = {}
    BY DEF Outcome, ClientOutcome
  <2> QED
    BY <2>1, <2>2, GapAnswerStep
<1>8. ASSUME NEW c \in Conns, GetPrintQueue(c) PROVE GapInv'
  <2> DEFINE reply == [kind |-> "print_queue", ids |-> PendingIds(queue)]
  <2>1. /\ session[c].state = "select" /\ UNCHANGED stream /\ Answer(c, Outcome(reply, {}))
    BY <1>8 DEF GetPrintQueue, workerVars
  <2>2. reply \in Replies
    BY DEF Replies, WorkerInv, QueueOK, QueueType
  <2> HIDE DEF reply
  <2>3. Outcome(reply, {}) \in ClientOutcome /\ Outcome(reply, {}).ids = {}
    BY <2>2 DEF Outcome, ClientOutcome
  <2> QED
    BY <2>1, <2>3, GapAnswerStep
<1>9. ASSUME NEW c \in Conns, Reply(c) PROVE GapInv'
  <2> DEFINE s == session[c]
             t == [s EXCEPT !.state = "select", !.outcome = None,
                            !.accepted = @ \cup s.outcome.ids,
                            !.sent = IF s.outcome.reply = None THEN @
                                     ELSE Append(@, s.outcome.reply)]
  <2>1. s.state = "reply" /\ UNCHANGED stream /\ session' = [session EXCEPT ![c] = t]
    BY <1>9 DEF Reply, workerVars
  <2>2. s \in OpenSession /\ GapOK(s, stream)
    BY <1>1, <2>1 DEF Open
  <2>3. s.outcome \in ClientOutcome
    BY <2>1 DEF SessionsInv, SessionOK, OutcomeOK, Open
  <2>4. GapOK(t, stream)
    BY <2>1, <2>2, <2>3, GapReply
  <2> HIDE DEF t, s
  <2> QED
    BY <2>1, <2>4, OneGap
<1>10. ASSUME NEW c \in Conns, Receive(c) PROVE GapInv'
  <2> DEFINE s == session[c]
             t == [s EXCEPT !.sent = @ \o Forwarded(stream[s.next], s.accepted), !.next = @ + 1]
  <2>1. /\ s.state = "select" /\ UNCHANGED stream /\ session' = [session EXCEPT ![c] = t]
        /\ s.next \in Oldest .. Len(stream)
    BY <1>10 DEF Receive, workerVars
  <2>2. s \in OpenSession /\ GapOK(s, stream)
    BY <1>1, <2>1 DEF Open
  <2>3. s.next \in 1 .. Len(stream)
    BY <1>2, <2>1
  <2>4. GapOK(t, stream)
    BY <1>2, <2>1, <2>2, <2>3, GapReceive
  <2> HIDE DEF t, s
  <2> QED
    BY <2>1, <2>4, OneGap
<1>11. ASSUME NEW c \in Conns, Lagged(c) PROVE GapInv'
  <2> DEFINE s == session[c]
             t == [s EXCEPT !.next = Oldest, !.lagged = TRUE]
  <2>1. /\ s.state = "select" /\ UNCHANGED stream /\ session' = [session EXCEPT ![c] = t]
        /\ s.next < Oldest
    BY <1>11 DEF Lagged, workerVars
  <2>2. s \in OpenSession /\ GapOK(s, stream)
    BY <1>1, <2>1 DEF Open
  <2>3. GapOK(t, stream)
    <3>1. Len(stream) \in Nat
      BY <1>2
    <3> HIDE DEF s
    <3> QED
      BY <1>2, <2>1, <2>2, <3>1, GapLagged
  <2> HIDE DEF t, s
  <2> QED
    BY <2>1, <2>3, OneGap
<1>12. ASSUME NEW c \in Conns, NEW p \in Peers, Connect(c, p[1], p[2]) PROVE GapInv'
  <2>1. GapOK(NewSession(p[2]), stream)
    BY <1>2 DEF GapOK, NewSession
  <2>2. session' = [session EXCEPT ![c] = NewSession(p[2])] /\ UNCHANGED stream
    BY <1>12 DEF Connect, workerVars
  <2> QED
    BY <2>1, <2>2, OneGap
<1>13. ASSUME NEW c \in Conns, Disconnect(c) PROVE GapInv'
  BY <1>13, OneGap DEF Disconnect, workerVars
<1>14. ASSUME WorkerStep PROVE GapInv'
  <2>1. UNCHANGED session
    BY <1>14 DEF WorkerStep, WorkerPop, LogQueued, LogDownloading, LogRendered, LogPrinting,
       LogSubmitted, LogFailed, LogTracked, push_log
  <2>2. UNCHANGED stream \/ \E e : stream' = Append(stream, e)
    BY <1>14 DEF WorkerStep, WorkerPop, LogQueued, LogDownloading, LogRendered, LogPrinting,
       LogSubmitted, LogFailed, LogTracked, push_log
  <2>3. CASE \E e : stream' = Append(stream, e)
    <3>1. PICK e : stream' = Append(stream, e)
      BY <2>3
    <3>2. stream' \in Seq(StreamEntry)
      BY WorkerInvStep DEF WorkerInv
    <3>3. e \in StreamEntry
      BY <1>2, <3>1, <3>2, AppendProperties
    <3>4. ASSUME NEW c \in Conns, Open(c) PROVE GapOK(session[c], Append(stream, e))
      BY <1>1, <1>2, <3>3, <3>4, GapMore
    <3> QED
      BY <2>1, <3>1, <3>4 DEF GapInv, Open
  <2> QED
    BY <1>4, <2>1, <2>2, <2>3
<1>15. ASSUME \/ \E sub \in Submissions : AcceptRemote(sub)
              \/ ClearTaskHistory \/ UNCHANGED vars
       PROVE  GapInv'
  BY <1>4, <1>15 DEF AcceptRemote, ClearTaskHistory, vars, workerVars
<1>16. ASSUME Restart PROVE GapInv'
  BY <1>16 DEF Restart, GapInv, Open, NoSession
<1> QED
  BY <1>5, <1>6, <1>7, <1>8, <1>9, <1>10, <1>11, <1>12, <1>13, <1>14, <1>15, <1>16
     DEF StreamNext, HandleClientText, NextStatus

\* The invariant holds of every behaviour.
LEMMA GapInvariant == StreamSpec => []GapInv
<1>1. StreamInit => GapInv
  BY DEF StreamInit, GapInv, Open, NoSession
<1>2. WorkerInv /\ SessionsInv /\ GapInv /\ [StreamNext]_vars => GapInv'
  BY GapStep
<1> QED
  BY <1>1, <1>2, StreamInvariants, PTL DEF StreamSpec

\* A connection has forwarded the statuses of its jobs in order and once, and every
\* one of them unless it fell too far behind, whatever the interleaving of its
\* messages with the worker's statuses, and whatever the capacity of the channel.
THEOREM StatusesWithoutGaps == StreamSpec => []NoGaps
<1>1. GapInv => NoGaps
  <2> SUFFICES ASSUME GapInv, NEW c \in Conns, Open(c), NEW j \in session[c].accepted
               PROVE  \E kept \in IF session[c].lagged THEN SUBSET About(j, session[c].next - 1)
                                                      ELSE {About(j, session[c].next - 1)} :
                        Forwards(session[c].sent, StatusesOf(j, session[c].sent), kept)
    BY DEF NoGaps
  <2>1. About(j, session[c].next - 1) = Told(stream, j, session[c].next - 1)
    BY DEF About, Told
  <2>2. \A kept : Matches(stream, kept, session[c].sent, j) =>
                    Forwards(session[c].sent, StatusesOf(j, session[c].sent), kept)
    BY DEF Matches, Forwards
  <2>3. GapOK(session[c], stream)
    BY DEF GapInv
  <2>4. CASE session[c].lagged
    BY <2>1, <2>2, <2>3, <2>4 DEF GapOK
  <2>5. CASE ~session[c].lagged
    BY <2>1, <2>2, <2>3, <2>5 DEF GapOK
  <2> QED
    BY <2>4, <2>5
<1> QED
  BY <1>1, GapInvariant, PTL
==============================================================================
