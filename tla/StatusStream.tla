----------------------------- MODULE StatusStream -----------------------------
(***************************************************************************)
(* What a WebSocket client sees of its jobs: the handshake, the session    *)
(* task of a connection (crates/runtime/src/server.rs), the broadcast      *)
(* channel the worker's statuses go through (state.rs), and the task       *)
(* history they are recorded in (queue.rs, task_history.rs).               *)
(*                                                                         *)
(* The worker is reduced to the statuses it logs; PrintAgent models what   *)
(* it does between them.  A message is handled in two steps, for the       *)
(* worker may start a job before its session has remembered the job id.    *)
(* RecvError::Closed does not occur: a session holds a sender itself.      *)
(***************************************************************************)
EXTENDS QueueState, IpWhitelist, TaskHistory, FiniteSets

CONSTANTS Conns,        \* slots for connections
          Peers,        \* a client as <<its address, its page's Origin>>
          HostOf,       \* the host_str of each Origin
          Submissions,  \* jobs a client may send: [job, url]
          Batches,      \* batches a client may send: [batch_id, subs]
          Configs,      \* configurations the process may run with
          Outcomes,     \* what tracking a submission may find
          Capacity,     \* STATUS_EVENT_CAPACITY
          MaxEvents     \* bound: connections, queries, refusals, remote jobs, failed
                        \* jobs, lost or cleared history events and restarts, together

PageOrigins == DOMAIN HostOf

\* A job's url is the origin of its file_url, None when it has no such field.
Submission == [job: PrintJobInput, url: PageOrigins \cup {None}]

SessionConfig == [ips: SUBSET Entries, origins: SUBSET PageOrigins,
                  max_file_size: Nat, max_batch_jobs: Nat]

\* The answers that speak of jobs: the acceptance, which the code writes as a
\* JobStatus message with the status queued, and the listing of the
\* queue.  A status, here, is always one that the worker has broadcast.
Replies == [kind: {"accepted", "print_queue"}, ids: SUBSET JobIds]

ASSUME StatusAssumption ==
    /\ Peers \subseteq Addresses \X (PageOrigins \cup {None})
    /\ Submissions \subseteq Submission
    /\ \A b \in Batches : b.batch_id \in BatchIds /\ b.subs \in Seq(Submission)
    /\ Configs \subseteq SessionConfig /\ Configs # {}
    /\ Outcomes \subseteq {"completed", "failed", "unknown"}
    /\ Capacity \in Nat \ {0}
    /\ None \notin PageOrigins /\ None \notin Replies
    /\ MaxEvents \in Nat

VARIABLES
    config,    \* AgentState.config
    queue,     \* AgentState.queue
    granted,   \* html_local_origin of the QueuedJob of each accepted job
    cur,       \* the QueuedJob the worker processes, or None
    phase,     \* where it is with it
    stream,    \* everything broadcast by this process
    session,   \* the session task of each connection
    history,   \* the task history database
    asked,     \* the page and url each accepted job came with
    events     \* counts towards MaxEvents

workerVars == <<cur, phase, stream, history>>
vars == <<config, queue, granted, cur, phase, stream, session, history,
          asked, events>>

NoSession == [state |-> "closed"]

\* handle_socket's locals, and what it sent to the client.  `next` is the position
\* in the stream of the next entry the receiver reads, `lagged` whether it ever
\* missed one.
NewSession(origin) ==
    [state |-> "select", origin |-> origin, accepted |-> {}, next |-> Len(stream) + 1,
     lagged |-> FALSE, sent |-> <<>>, outcome |-> None]

Open(c) == session[c].state # "closed"

StreamInit ==
    /\ config \in Configs
    /\ queue = EmptyQueue
    /\ granted = [j \in JobIds |-> None]
    /\ cur = None
    /\ phase = "idle"
    /\ stream = <<>>
    /\ session = [c \in Conns |-> NoSession]
    /\ history = EmptyHistory
    /\ asked = [j \in JobIds |-> None]
    /\ events = 0

Events(n) == events + n =< MaxEvents /\ events' = events + n

Event == Events(1)

-----------------------------------------------------------------------------
(* The handshake.  Both lists are read here and not again.                  *)

is_ws_origin_allowed(origin) == origin \in config.origins

\* ip_whitelist_middleware, then ws_handler; the receiver is subscribed before the
\* first message is read.
Connect(c, ip, origin) ==
    /\ ~Open(c)
    /\ Event
    /\ is_client_ip_allowed(ip, config.ips)
    /\ is_ws_origin_allowed(origin)
    /\ session' = [session EXCEPT ![c] = NewSession(origin)]
    /\ UNCHANGED <<config, queue, granted, workerVars, asked>>

\* The client closes or vanishes: a receive or a send ends the loop.
Disconnect(c) ==
    /\ Open(c)
    /\ session' = [session EXCEPT ![c] = NoSession]
    /\ UNCHANGED <<config, queue, granted, workerVars, asked, events>>

-----------------------------------------------------------------------------
(* handle_client_text.                                                      *)

\* host_str keeps the brackets of an IPv6 address, so "::1" is never one.
is_exact_loopback_url(origin) == HostOf[origin] \in {"127.0.0.1", "::1"}

LoopbackUrls(subs) ==
    {subs[i].url : i \in {k \in DOMAIN subs : /\ subs[k].job.format = "html"
                                              /\ subs[k].url # None
                                              /\ is_exact_loopback_url(subs[k].url)}}

\* html_local_origin returns Ok.
LocalOriginOk(subs, origin) ==
    \A u \in LoopbackUrls(subs) : is_exact_loopback_url(origin) /\ u = origin

html_local_origin(subs, origin) ==
    IF LoopbackUrls(subs) = {} THEN None ELSE origin

\* A mutant of html_local_origin_for_job: every job with a url gets the origin.
html_local_origin_for_job_All(sub, local) == IF sub.url # None THEN local ELSE None

html_local_origin_for_job(sub, local) == IF sub.url = local THEN local ELSE None

\* ClientTextOutcome.  Of the answers only those that speak of jobs are kept.
Outcome(reply, ids) == [reply |-> reply, ids |-> ids]

Answer(c, outcome) ==
    session' = [session EXCEPT ![c].state = "reply", ![c].outcome = outcome]

\* Every accepted job leaves its origin in the queue, and notify_one follows.
Enqueue(subs, origin, q) ==
    LET Of(j) == CHOOSE i \in DOMAIN subs : subs[i].job.job_id = j
        ids == {subs[i].job.job_id : i \in DOMAIN subs}
        local == html_local_origin(subs, origin)
    IN  /\ queue' = q
        /\ granted' = [j \in JobIds |->
                         IF j \in ids THEN html_local_origin_for_job(subs[Of(j)], local)
                         ELSE granted[j]]
        /\ asked' = [j \in JobIds |-> IF j \in ids THEN [page |-> origin, url |-> subs[Of(j)].url]
                                      ELSE asked[j]]

ValidSubs(subs, origin) ==
    /\ \A i \in DOMAIN subs : ValidForAcceptance(subs[i].job, config.max_file_size)
    /\ LocalOriginOk(subs, origin)

HandlePrint(c, sub) ==
    LET origin == session[c].origin
    IN  /\ session[c].state = "select"
        /\ ValidSubs(<<sub>>, origin)
        /\ CanAcceptJob(queue, sub.job)
        /\ Enqueue(<<sub>>, origin, accept_queued_job(queue, sub.job, FALSE))
        /\ Answer(c, Outcome([kind |-> "accepted", ids |-> {sub.job.job_id}], {sub.job.job_id}))
        /\ UNCHANGED <<config, workerVars, events>>

JobsOf(subs) == [i \in DOMAIN subs |-> subs[i].job]

HandlePrintBatch(c, b) ==
    LET origin == session[c].origin
        jobs == JobsOf(b.subs)
    IN  /\ session[c].state = "select"
        /\ Len(b.subs) =< config.max_batch_jobs
        /\ ValidSubs(b.subs, origin)
        /\ CanAcceptBatch(queue, b.batch_id, jobs)
        /\ Enqueue(b.subs, origin, accept_batch(queue, b.batch_id, jobs, FALSE))
        /\ Answer(c, Outcome([kind |-> "accepted", ids |-> IdsOf(jobs)], IdsOf(jobs)))
        /\ UNCHANGED <<config, workerVars, events>>

\* A mutant of Refused: the ids are collected before the queue is asked.
Refused_KeepIds(ids) == Outcome(None, ids)

\* queue_error_response, invalid_message_response, job_validation_error_response.
Refused(ids) == Outcome(None, {})

PrintRefused(c, sub) ==
    /\ session[c].state = "select"
    /\ Event
    /\ \/ ~ValidSubs(<<sub>>, session[c].origin)
       \/ ~CanAcceptJob(queue, sub.job)
    /\ Answer(c, Refused({sub.job.job_id}))
    /\ UNCHANGED <<config, queue, granted, workerVars, asked>>

PrintBatchRefused(c, b) ==
    /\ session[c].state = "select"
    /\ Event
    /\ \/ Len(b.subs) > config.max_batch_jobs
       \/ ~ValidSubs(b.subs, session[c].origin)
       \/ ~CanAcceptBatch(queue, b.batch_id, JobsOf(b.subs))
    /\ Answer(c, Refused(IdsOf(JobsOf(b.subs))))
    /\ UNCHANGED <<config, queue, granted, workerVars, asked>>

\* The remote worker puts a job into the same queue.
AcceptRemote(sub) ==
    /\ Event
    /\ ValidForAcceptance(sub.job, config.max_file_size)
    /\ CanAcceptJob(queue, sub.job)
    /\ queue' = accept_queued_job(queue, sub.job, TRUE)
    /\ UNCHANGED <<config, granted, workerVars, session, asked>>

\* The jobs of every client and of the remote service that the worker has not taken.
GetPrintQueue(c) ==
    /\ session[c].state = "select"
    /\ Event
    /\ Answer(c, Outcome([kind |-> "print_queue", ids |-> PendingIds(queue)], {}))
    /\ UNCHANGED <<config, queue, granted, workerVars, asked>>

\* Text that does not parse, Ping, GetPrintersList and GetPrinterInfo, whose
\* answers come from the printing backend.
Query(c) ==
    /\ session[c].state = "select"
    /\ Event
    /\ Answer(c, Outcome(None, {}))
    /\ UNCHANGED <<config, queue, granted, workerVars, asked>>

\* A mutant of Reply: the receiver is replaced when the first jobs are remembered.
Reply_Resubscribe(c) ==
    /\ session[c].state = "reply"
    /\ session' =
         [session EXCEPT ![c].state = "select",
                         ![c].outcome = None,
                         ![c].next = IF session[c].accepted = {} THEN Len(stream) + 1 ELSE @,
                         ![c].accepted = @ \cup session[c].outcome.ids,
                         ![c].sent = IF session[c].outcome.reply = None THEN @
                                     ELSE Append(@, session[c].outcome.reply)]
    /\ UNCHANGED <<config, queue, granted, workerVars, asked, events>>

\* A mutant of Reply: the session goes back to what the channel still holds.
Reply_Rewind(c) ==
    /\ session[c].state = "reply"
    /\ session' =
         [session EXCEPT ![c].state = "select",
                         ![c].outcome = None,
                         ![c].next = IF Len(stream) > Capacity THEN Len(stream) - Capacity + 1
                                     ELSE 1,
                         ![c].accepted = @ \cup session[c].outcome.ids,
                         ![c].sent = IF session[c].outcome.reply = None THEN @
                                     ELSE Append(@, session[c].outcome.reply)]
    /\ UNCHANGED <<config, queue, granted, workerVars, asked, events>>

\* The ids are remembered before the answer is sent.
Reply(c) ==
    /\ session[c].state = "reply"
    /\ session' =
         [session EXCEPT ![c].state = "select",
                         ![c].outcome = None,
                         ![c].accepted = @ \cup session[c].outcome.ids,
                         ![c].sent = IF session[c].outcome.reply = None THEN @
                                     ELSE Append(@, session[c].outcome.reply)]
    /\ UNCHANGED <<config, queue, granted, workerVars, asked, events>>

-----------------------------------------------------------------------------
(* status_events.recv().  The channel keeps the last Capacity entries.      *)

Oldest == IF Len(stream) > Capacity THEN Len(stream) - Capacity + 1 ELSE 1

\* status_message_for_connection
Forwarded(entry, accepted) ==
    IF entry.job_id \in accepted
    THEN <<[kind |-> "status", job_id |-> entry.job_id, status |-> entry.status]>>
    ELSE <<>>

Receive(c) ==
    /\ session[c].state = "select"
    /\ session[c].next \in Oldest .. Len(stream)
    /\ session' = [session EXCEPT
                     ![c].sent = @ \o Forwarded(stream[session[c].next], session[c].accepted),
                     ![c].next = @ + 1]
    /\ UNCHANGED <<config, queue, granted, workerVars, asked, events>>

\* RecvError::Lagged: the receiver goes on with the oldest entry there is.
Lagged(c) ==
    /\ session[c].state = "select"
    /\ session[c].next < Oldest
    /\ session' = [session EXCEPT ![c].next = Oldest, ![c].lagged = TRUE]
    /\ UNCHANGED <<config, queue, granted, workerVars, asked, events>>

-----------------------------------------------------------------------------
(* The worker: the statuses of process_job, each broadcast and recorded.     *)

WorkerPop ==
    /\ cur = None
    /\ queue.pending # <<>>
    /\ cur' = Head(queue.pending)
    /\ queue' = pop_next(queue)
    /\ phase' = "begin"
    /\ UNCHANGED <<config, granted, stream, history, session, asked, events>>

\* push_log: the status goes to the subscribers and then to the task history.  An
\* error of the database is only written to the log, and a crash may come between
\* the two.  The printer is known to the statuses logged with the print options.
push_log(status, printer, to, cost) ==
    /\ stream' = Append(stream, [job_id |-> cur.job.job_id, status |-> status])
    /\ \/ /\ history' = record_event(history, cur.job.job_id, status, printer,
                                     cur.batch_id # None)
          /\ Events(cost)
       \/ Events(cost + 1) /\ UNCHANGED history
    /\ phase' = to
    /\ cur' = IF to = "idle" THEN None ELSE cur
    /\ UNCHANGED <<config, queue, granted, session, asked>>

LogQueued == phase = "begin" /\ push_log("queued", FALSE, "queued", 0)

LogDownloading ==
    /\ phase = "queued"
    /\ cur.job.format \in {"pdf", "image", "office"}
    /\ push_log("downloading", FALSE, "downloading", 0)

\* A page was rendered or a document converted: the first of two "printing".
LogRendered ==
    /\ cur # None
    /\ cur.job.format \in {"html", "office"}
    /\ phase = IF cur.job.format = "html" THEN "queued" ELSE "downloading"
    /\ push_log("printing", TRUE, "rendered", 0)

LogPrinting ==
    /\ cur # None
    /\ phase = CASE cur.job.format = "raw"              -> "queued"
                 [] cur.job.format \in {"pdf", "image"} -> "downloading"
                 [] OTHER                              -> "rendered"
    /\ push_log("printing", TRUE, "printing", 0)

\* process_job returns here when the backend cannot track the submission.
LogSubmitted ==
    /\ phase = "printing"
    /\ \E to \in {"submitted", "idle"} : push_log("submitted", TRUE, to, 0)

LogTracked(status) == phase = "submitted" /\ push_log(status, TRUE, "idle", 0)

\* process_job_inner returns an error.
Fails ==
    /\ cur # None
    /\ phase \in {"downloading", "printing"}
                 \cup IF cur.job.format \in {"raw", "html"} THEN {"queued"} ELSE {}

\* A mutant of LogFailed: the error is dropped.
LogFailed_Dropped ==
    /\ Fails
    /\ Event
    /\ phase' = "idle"
    /\ cur' = None
    /\ UNCHANGED <<config, queue, granted, stream, history, session, asked>>

LogFailed == Fails /\ push_log("failed", FALSE, "idle", 1)

\* ClearTaskHistory, of the desktop application or the command line.
ClearTaskHistory ==
    /\ Event
    /\ history' = clear(history)
    /\ UNCHANGED <<config, queue, granted, cur, phase, stream, session, asked>>

\* The process ends, killed or shut down, and is started again: only the task
\* history, and the configuration, are kept.
Restart ==
    /\ Event
    /\ queue' = EmptyQueue
    /\ granted' = [j \in JobIds |-> None]
    /\ asked' = [j \in JobIds |-> None]
    /\ cur' = None
    /\ phase' = "idle"
    /\ stream' = <<>>
    /\ session' = [c \in Conns |-> NoSession]
    /\ UNCHANGED <<config, history>>

-----------------------------------------------------------------------------
HandleClientText(c) ==
    \/ \E sub \in Submissions : HandlePrint(c, sub) \/ PrintRefused(c, sub)
    \/ \E b \in Batches : HandlePrintBatch(c, b) \/ PrintBatchRefused(c, b)
    \/ GetPrintQueue(c)
    \/ Query(c)

NextStatus(c) == Receive(c) \/ Lagged(c)

WorkerStep ==
    \/ WorkerPop \/ LogQueued \/ LogDownloading \/ LogRendered \/ LogPrinting
    \/ LogSubmitted \/ LogFailed
    \/ \E status \in Outcomes : LogTracked(status)

StreamNext ==
    \/ \E c \in Conns : \/ \E p \in Peers : Connect(c, p[1], p[2])
                       \/ Disconnect(c)
                       \/ HandleClientText(c)
                       \/ Reply(c)
                       \/ NextStatus(c)
    \/ WorkerStep
    \/ \E sub \in Submissions : AcceptRemote(sub)
    \/ ClearTaskHistory
    \/ Restart

\* The runtime polls the worker and every session that can go on, and the printing
\* commands return.  A client that stops reading is one that lags or leaves.  The
\* select of a session picks at random between a message and a status that are both
\* ready, so a client that keeps sending does not keep the statuses waiting forever.
StreamFairness ==
    /\ WF_vars(WorkerStep)
    /\ \A c \in Conns : WF_vars(Reply(c)) /\ SF_vars(NextStatus(c))

StreamSpec == StreamInit /\ [][StreamNext]_vars /\ StreamFairness

-----------------------------------------------------------------------------
(* Properties.                                                              *)

IsStatus(m) == m.kind = "status"

\* A client is sent the worker's statuses of a job only after the answer that
\* accepted the job on this very connection: not those of the jobs of others, whom
\* only a listing of the queue names, and not those of another client's job whose id
\* it sent in vain (handle_socket, accepted_job_ids).
OnlyOwnJobs ==
    \A c \in Conns : Open(c) =>
        \A i \in DOMAIN session[c].sent : IsStatus(session[c].sent[i]) =>
            \E k \in 1 .. (i - 1) : /\ session[c].sent[k].kind = "accepted"
                                    /\ session[c].sent[i].job_id \in session[c].sent[k].ids

\* Where the messages to a client have a status of a job, and where the stream has
\* one, up to a position.
StatusesOf(j, sent) == {i \in DOMAIN sent : IsStatus(sent[i]) /\ sent[i].job_id = j}
About(j, upto) == {k \in 1 .. upto : stream[k].job_id = j}

\* The how-manieth of a set of positions one is.
Rank(i, positions) == Cardinality({k \in positions : k =< i})

\* The statuses at the places `got` of the messages are those at the places `told`
\* of the stream, one for one and in the same order.
Forwards(sent, got, told) ==
    /\ Cardinality(got) = Cardinality(told)
    /\ \A i \in got, k \in told : Rank(i, got) = Rank(k, told) => sent[i].status = stream[k].status

\* What a connection forwards of a job are the worker's statuses in their order, none
\* repeated, and all of them, those included that were broadcast before the session
\* had remembered the job (handle_socket subscribes before its loop).  A connection
\* that fell behind by more than the channel holds loses statuses and nothing more
\* (handle_socket goes on after RecvError::Lagged).
NoGaps ==
    \A c \in Conns : Open(c) =>
        \A j \in session[c].accepted :
            LET told == About(j, session[c].next - 1)
            IN  \E kept \in IF session[c].lagged THEN SUBSET told ELSE {told} :
                    Forwards(session[c].sent, StatusesOf(j, session[c].sent), kept)

\* A listing of the queue never names a job the client has already had one of the
\* worker's statuses of (the answer that accepts a job is none): the worker takes a job out of
\* the queue before it logs anything about it (run_worker_until, GetPrintQueue).
ListedNotStarted ==
    \A c \in Conns : Open(c) =>
        \A i \in DOMAIN session[c].sent : session[c].sent[i].kind = "print_queue" =>
            \A k \in 1 .. (i - 1) :
                IsStatus(session[c].sent[k]) =>
                    session[c].sent[k].job_id \notin session[c].sent[i].ids

\* A job may load pages from a loopback origin only if its own URL lies there and the
\* page that sent it has that origin; a public page in the same batch may not
\* (html_local_origin, html_local_origin_for_job).
LoopbackSameOrigin ==
    \A j \in JobIds : granted[j] # None =>
        /\ asked[j].page = granted[j]
        /\ asked[j].url = granted[j]
        /\ is_exact_loopback_url(granted[j])

EventsOf(j) == {history.events[j][i] : i \in DOMAIN history.events[j]}

\* The two tables of the task history agree, whatever events were lost, cleared or
\* left by an earlier process: a job has a summary exactly when it has events, the
\* summary shows the last of them, has a finishing time exactly when one of them
\* ended the job, and keeps the printer of an earlier event (record_event, clear).
HistoryAgrees ==
    \A j \in JobIds :
        LET rows == history.events[j]
            row == history.jobs[j]
        IN  /\ (row = None) <=> (rows = <<>>)
            /\ row # None =>
                 /\ row.status = rows[Len(rows)]
                 /\ row.finished <=> \E s \in EventsOf(j) : is_terminal(s)
                 /\ ("printing" \in EventsOf(j)) => row.printer

\* The client of an accepted job is told a status that ends it, unless it leaves, falls too far
\* behind or the process ends (run_worker_until, process_job, handle_socket).
OutcomeTold ==
    \A c \in Conns, j \in JobIds :
        (Open(c) /\ j \in session[c].accepted)
            ~> \/ ~Open(c)
               \/ session[c].lagged
               \/ \E i \in DOMAIN session[c].sent :
                      /\ IsStatus(session[c].sent[i])
                      /\ session[c].sent[i].job_id = j
                      /\ is_terminal(session[c].sent[i].status)
==============================================================================
