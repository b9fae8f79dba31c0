# PrintBridge: TLA+ models and proofs

PrintBridge is a local agent that prints for web pages and for a remote task
service. Browsers submit jobs over a WebSocket; an optional background task polls
a remote HTTP service for jobs and reports their fate; one worker takes jobs from
an in-memory queue, fetches and converts the document, and hands it to the
operating system's print queue. A command line, a desktop application and its tray
manage the agent through a local socket and one configuration file. This directory
models the concurrent core of that program, its management side and what clients see
of it, checks it with TLC on small instances and proves its main invariants
with TLAPS for every value of the constants.

## Inventory of the system

| Component | State | Operations | Modelled in |
|---|---|---|---|
| Job model, `core/protocol.rs` | none | `validate_for_acceptance` | `JobTypes` |
| Print queue, `core/queue.rs` | `pending`, `seen_job_ids`, `seen_batch_ids` | accept one, accept a batch, `pop_next` | `QueueState`, abstractly `JobLedger` |
| Queue worker, `runtime/queue.rs`, `download.rs`, `document.rs` | its place in the code, the current job, temporary files | loop, `process_job` and its paths | `PrintAgent` |
| WebSocket server, `runtime/server.rs` | connections, accepted ids per connection | handshake, `print`, `print_batch`, queries, status forwarding | `PrintAgent` (submission against the worker), `StatusStream` (the session) |
| Calibration prints, `runtime/test_print.rs` | none | `print_calibration_page` | `PrintAgent` |
| Agent state, `runtime/state.rs` | configuration, queue, notifies, print lock, status channel | `save_config`, subscriptions | `PrintAgent`, `RemoteWorker`, `Management` |
| Lifecycle, `runtime/agent.rs`, `builder.rs`, `agent_guard.rs` | cancellation token, join handles, port, socket | load, start, shutdown | `PrintAgent`, `RemoteWorker`, `Management` |
| Remote worker, `runtime/remote_worker.rs`, `remote_client.rs` | one round's tasks and reports | `poll_once`, `report_pending_once`, loop | `RemoteWorker` |
| Remote store, `runtime/remote_store.rs` | SQLite: seen jobs, report outbox | record, insert, select due, mark | `RemoteStore` |
| Status stream | broadcast channel of 128 entries | forward to the submitting connection | `StatusStream` |
| Task history, activity log | SQLite rows, ring of log lines | record, clear, page | `TaskHistory`, `StatusStream`; `history` in `PrintAgent` |
| Management commands, IPC, CLI | socket, configuration file, export file | read, edit, import, export, save | `ConfigTransfer`, `Management` |
| HTML rendering, `runtime/html/` | launch gate and threads, deadline, worker, proxy, rejected resource, output file | launch, `render`, CDP calls, judge a request | `BrowserLaunch`, `HtmlRender` |
| Office conversion, `runtime/office/` | work directory, child process, instance record | convert to PDF, clean up | `OfficeConvert` |
| Printing backends, `runtime/printing/` | temporary file of raw data | print, track, list | `PrintBackend` |
| IP whitelist, `core/ip_whitelist.rs` | none | normalise, validate, match | `IpWhitelist` |
| Diagnostics, `doctor.rs` | none | checks; the browser check uses the launch gate | the browser check in `HtmlRender` |
| Desktop application, headless server | the system's autostart setting | save with autostart, tray toggle, start, exit | `Management` |

How they interact: server handlers and the remote worker put jobs into the queue
under one async mutex and call `queue_notify.notify_one()` *after* releasing it;
the worker takes jobs under that mutex and waits on the notify when there is
none. The worker and calibration prints share `print_lock`. Everybody reads the
configuration through a read-write lock at moments of their own; `save_config`
wakes the remote worker with `remote_notify.notify_waiters()`. The worker writes
status reports of remote jobs into the SQLite outbox that the remote worker
empties over HTTP. Every status goes through a broadcast channel to the sessions, each
of which forwards those of its own jobs, and into the task history. Management commands
run in the agent that answers on the local socket, or in the caller's own process when
there is none; all of them end in `save_config`, which writes the file and then the
memory. A cancellation token stops every task.

What is hard: the gap between accepting and notifying; a permit that is stored
(`notify_one`) against one that is not (`notify_waiters`); cancellation checked
before an await; a record that is persisted before the work it stands for is
queued in memory; a report sent again after a lost answer or a crash; a
configuration that changes between acceptance, processing and reporting; errors
on every path, each with other files to remove; a browser launch that outlives the
caller that gave it up, and a deadline that strikes between a check and a write; saves
that overlap, are cut short or go on after their caller gave up; a conversion script
that must tell its own Office process from the user's by process id and start time; a
status broadcast before the session knows the job is its own. `PROJECT.json` lists these under
`hazards`, each at its line with the properties that cover it.

## Modules

* `JobTypes` - identifiers, formats (one per path through the worker), a job, and
  the acceptance check. `well_formed` stands for the field checks of
  `validate_for_acceptance`; the size limit is kept because it is checked again
  later against a configuration that may have changed.
* `QueueState` - the queue as a record and its operations as pure operators.
* `JobLedger` - the abstract queue: blocks of fresh ids join a line, leave it in
  order, one is active at a time and is printed at most once.
* `RemoteStore` - the SQLite store as a record and its statements as operators.
  `next_retry_at` is abstracted to `due`, whether that time has passed. The events a
  round has still to post are a set; an event's id is its place in the order they
  occurred, by which the query sorts, so the least comes first (`IsOldest`).
* `PrintAgent` - clients, worker, calibration prints, configuration, shutdown,
  crash and restart.
* `RemoteWorker` - `PrintAgent` composed with the remote worker, the network and
  the service.
* `BrowserLaunch` - the launch gate with its condition variable, the candidates,
  the launch threads and the channels their results go through.
* `HtmlRender` - `BrowserLaunch` composed with `render()`, its blocking worker, the
  filtering proxy with the resource policy, and the doctor's browser check.
* `IpWhitelist` - the whitelist as operators on addresses of a few bits.
* `ConfigTransfer` - the configuration, what `save_config` accepts, the edits of the
  command line, and export, preview and import, all as pure operators.
* `Management` - agents that start, stop and crash, the socket file, the configuration
  file, command lines, the desktop's windows and its tray.
* `Host` - the platform and the files of one job, shared by the next three.
* `OfficeConvert` - one conversion: the chain of converters, the child process, the
  activation script, the cleanup script, and the applications on the desktop.
* `PrintBackend` - one call of `print_pdf` or `print_raw` on Windows or CUPS.
* `DocumentPrint` - one file or raw job through the format check, `OfficeConvert` and
  `PrintBackend`.
* `TaskHistory` - the two tables of the history and their statements as operators.
* `StatusStream` - sessions, the broadcast channel and the history, over `QueueState`,
  `IpWhitelist` and `TaskHistory`, with the worker reduced to the statuses it logs.
* `MCPrintAgent`, `MCRemoteWorker`, `MCHtmlRender`, `MCManagement`, `MCDocumentPrint`,
  `MCStatusStream` - jobs, configurations, commands, papers and requests for TLC.
* `QueueState_proofs`, `PrintAgent_proofs`, `AgentOutcome_proofs`, `RemoteWorker_proofs`,
  `HtmlRender_proofs`, `DocumentPrint_proofs`, `Management_proofs`, `StatusStream_proofs` -
  the theorems and their lemmas.

An action is a stretch of code between two points where another task or a crash
can be seen. `ClientPrint` and `ClientPrintBatch` are the handlers up to the
release of the queue lock, `NotifyOne` is what follows. `WorkerCheck`,
`WorkerPop`, `WorkerSelect`, `WorkerWake` and `WorkerCancelled` are the loop of
`run_worker_until`. `LogQueued`, `StartHtml`/`StartRaw`/`StartFile`, `RenderHtml`,
`Download`, `PreparePdf`, `LogPrinting`, `AcquirePrintLock`, `Submit`,
`LogSubmitted`, `Track`, `Cleanup` and `LogFailed` are `process_job` in its order;
every `?` is a disjunct that leads to the cleanup of that point and then to
`LogFailed`. `push_log` is part of the action that calls it: it appends to the
history and, for the three reported statuses of a remote job, to the outbox.
In `RemoteWorker`, `RemoteCheck`/`RemoteLoop`/`RemoteDecide`/`RemoteAwake`/
`RemoteCancelled` are the loop; the configuration is read three times in a round
(loop, poll, report), as in the code. `RecordJob` and `AcceptTask` are separate
because the record is committed before the queue has the job.
`FetchTasks`/`FetchFailed` and `PostReport` are the requests, `MarkReport` the
statement that follows the answer.

In `HtmlRender`, `rpc` is the place of the asynchronous `render()` and `wpc` that of
the blocking worker. `SpawnWorker`, `WorkerFailed`, `Collect`, `Close`,
`RenderTimesOut`, `WorkerAwaited` are the branches of `render()`, `JobEnds` is what
`process_html_job` does afterwards. A CDP call is an action that begins it, with the
check before it, and `CdpReturns` or `CdpFails`; `due` is the longest it may still
take. `left` counts each caller's time down to its deadline and `Tick` lets it pass,
except while a CDP call is overdue. `Handle` and `Judge` are a proxy connection
before and after it awaits the resource policy. `PrintAgent` keeps its one-step view
of a rendering, success or failure: `RenderEnds` and `RenderLeavesNothing` are what
justify it.

In `Management`, a client is one command from start to end: `Start` loads the file into
the process, `Get`, `Preview`, `Confirm`, `Export`, `SetOs`, `GuiApply` are the steps of
the command in its own code, `Submit` hands the changing request to the process
`Executor` names. There the request goes through `ImportRead`, `ImportMerge`, `SaveBegin`
(checks, the file is truncated), `SaveWrite` and `SaveApply` (the memory), whatever
becomes of the client meanwhile; `Reply`, `TimesOut` or `Refused` is what the client
sees. `AgentKilled` and `AgentStop` differ in the socket file: a crash and the desktop's
exit leave it, a shutdown removes whatever has its path.

In `OfficeConvert`, `conv` is the place in `office_to_pdf`, `child` that in the script or
launcher it runs. `Snapshot`, `ActivateNew`/`ActivateReuse`, `Prove`, `Open`, `Quit` are
the PowerShell script line by line, `CleanupScript` the one that follows a timeout, while
the first may still run. Applications write when they like (`AppWrites`), also long after
nobody waits. `PrintBackend` has one action per command or system call; on Windows the
user's preferences (`ReadDevmode`) are read before the forms are listed (`Query`). What
`RightPaper` is checked against is outside the code: `Physical` is the page the driver
reports for a paper number, `MediaSize` the page CUPS makes of a media token. The code
passes a custom token of the driver on and builds one from the size otherwise
(`cups_media_option`), so the two agree only if it has read the token's unit as CUPS does.

In `StatusStream`, a message is two actions, because `handle_client_text` has released
the queue before `handle_socket` remembers the ids (`Reply`). A receiver is a position in
the stream; `Lagged` moves it to the oldest entry the channel still has. `push_log` is
part of every action of the worker and may lose the write to the database. The properties
call *statuses* the messages forwarded from the worker; the answer that accepts a job,
itself a `job_status` message (`queued`), and the listing of the queue, which names
everybody's pending jobs, are answers.

Abstractions worth knowing:

* In the management model, texts are the class they parse to (an endpoint is http, ftp,
  blank or junk), addresses have two bits and are written in their usual form, and a
  password fits or does not. A file is absent, empty, whole or a mixture. The hash of an
  export file is the number of the export: two exports never have the same one.
* `clean` in `Management`, `window` and `conv.left` in `OfficeConvert` and `lagged` in
  `StatusStream` name what a property excludes; each is set by the very step in the code
  that cannot do better, and the runs contain those steps.
* Papers are in hundredths of a millimetre; a media token is a well-known name or two
  numbers and a unit. CUPS lists a custom size with its unit (or as the bare pattern,
  which the code drops): it would take plain numbers for points, the code for inches or
  millimetres. A converter's output is a PDF, junk or
  nothing, with the name of who wrote it.
* A session's answers are kept only when they speak of jobs; the history keeps of times,
  printers and batches only whether they are set.

* Renderings do not overlap, since the queue worker runs one job at a time. A check
  and the call it guards are one step: no time passes between two statements that
  do not block. The temporary browser profile is left out.
* Addresses are four classes (public, private, the exact loopback, another
  loopback); a request is its route, host, and whether it names the page in
  `Referer` or `Origin`. What browsers are installed is how many candidates are usable.
* A client's message is checked against the configuration and accepted in one step. The
  code copies the configuration under another lock first (`server.rs:376`), so it may be
  a moment old when the queue has the job; the worker checks the job again against the
  configuration of its own time, and the model lets that one differ.
* Files that `PrintAgent` removes are removed. `cleanup_file` ignores an error of the
  removal (`queue.rs:546`), so `TempCleaned` is about the removals the worker undertakes.
* Documents, URLs, printers and papers are the outcome they lead to: a field is
  given or not, a rendering, download, conversion or submission succeeds or
  fails, tracking ends in one of three outcomes.
* `history` stands for the log, the status broadcast and the task history: all
  are written by `push_log`, and no component reads them back. It and `temp` are
  kept per process, since nothing reads those of an earlier one.
* `remote.accepted` is the service's answer to the endpoint and token: FALSE
  leads to 401, 403 or 404, which the code treats as a configuration error.
* A failing submission has printed nothing. A backend that prints and then
  reports an error would make the truthfulness properties false; the code has no
  means to tell.
* `StoreFails` lets every statement on the store fail, where the code either
  drops the error (`push_log`) or ends the round.

## Runs

| Run | Shows |
|---|---|
| `agent_safety` | One client repeats two ids with different contents, alone and in batches, through every path of the worker, over two configurations and a restart. No wake-up is lost (`NoLostWakeup`), no id is printed twice by one process (`OncePerRun`), the history of a finished job is what happened to it (`HistoryTruthful`), only the printable PDF of a failed job may be left on disk (`TempCleaned`), and the agent implements `JobLedger` (`ImplementsLedger`). |
| `agent_live` | Two clients and a calibration print. The backend is used by one caller at a time (`PrintExclusive`), pending jobs are settled unless the agent stops (`AcceptedIsSettled`), a cancelled worker stops (`ShutdownCompletes`). |
| `remote_config` | One job sent alone and in a batch, three configurations (accepted, refused, disabled), store errors and a restart. An event counted as delivered has arrived (`DeliveredIsReceived`), a settled event is not touched again (`DeliveryIsFinal`). |
| `remote_batch` | A batch of two sent again and again across a crash at any point. No remote job is printed twice, in any number of processes (`RemoteAtMostOnce`); no verdict the service gets is wrong (`VerdictTruthful`). |
| `remote_live` | A local client competes with the service for one id; every request may fail. `NoLostWakeup` with two kinds of submitters, the verdict of a queued remote job is delivered or its retries run out (`RemoteJobIsReported`), shutdown stops both workers (`RemoteShutdownCompletes`). |
| `html_render` | Renderings follow each other while a doctor competes for the gate, launches hang, CDP calls fail and the deadline strikes anywhere. One browser is started at a time (`OneLaunch`), no waiter is forgotten (`NoLostSignal`), a CDP call that may begin ends before the deadline (`CdpFitsDeadline`), every rendering ends (`RenderEnds`) and leaves nothing behind (`RenderLeavesNothing`), no PDF is printed that was exported after a request of its page was rejected (`PdfUnblocked`). |
| `config_store` | Two commands out of edits, imports, exports, windows, the tray and autostart meet a desktop and a headless agent, a crash or a failing write. Nothing that save_config must refuse is in a memory or a readable file (`StoredSound`), an acknowledged save that nothing overlapped is in file and memory (`AckedIsKept`), an import saves what its preview showed although the file may change in between (`ImportAsPreviewed`), after clean commands file, memories and the system's autostart agree, failed saves included (`StateAgrees`), every command line ends (`CommandsEnd`). |
| `convert_print` | One job on Windows or CUPS with every converter chain, timeouts, a user who starts and closes applications, reused process ids and changing driver preferences. No application of the user's is closed (`UserAppsKept`), a successful conversion's PDF is by the converter it names (`PdfIsConverted`), no directory or file stays (`LeavesNothing`), the page has the requested size and orientation, whether chosen by a paper number, a custom token of the driver or one made of the size (`RightPaper`), a conversion ends (`ConversionEnds`). |
| `status_stream` | Two pages connect one after the other, submit one job or a batch, list and ask, beside a remote service, with lost history writes, clearing and restarts. A client is sent the worker's statuses only of jobs accepted on its connection (`OnlyOwnJobs`), of each job in order, once and, unless it lagged, without gaps (`NoGaps`), a listing does not name a job it has had a status of (`ListedNotStarted`), local requests are granted only to a page's own origin (`LoopbackSameOrigin`), both tables of the history agree (`HistoryAgrees`), the outcome is told (`OutcomeTold`). |
| `agent_cancel`, `remote_resume`, `remote_retries` | Expected violations, see Findings. |

Bounds. `MaxRuns` 2 is one crash: the store and the spool are all that passes from
one process to the next, and a second restart meets the same kinds of state.
`MaxClientBatch` 2 allows a duplicate inside a batch and a partly known batch;
the empty batch, which the code accepts, is included. `MaxFetch` is 2 in
`remote_live`, so that an error drops a task not yet seen, and 1 elsewhere, where
tasks follow each other through repeated polls. `ReportLimit` stands
for 20 in the code: with 1 the limit is reached, with 2 a round has a remainder.
`max_report_retries` 1 and 2 are the boundary and one retry. Two ids are the least
that make order and batches matter. Calibration prints are only in `agent_live`,
the run about the lock they compete for. In `html_render`, `Timeout` 3 and `Cdp` 1
let a rendering finish or run out of time at every check; two candidates make a
fallback; one doctor is enough for a hanging launch, a waiter and an overtaking
caller; the two requests are one of the page that may be rejected or allowed and
one of the browser itself. In `config_store` two clients are what an overlap of saves
needs, two agents (`MaxStarts` 2) a takeover of the socket or a restart, one fault
(`MaxFaults`) a crash or a failed write anywhere. In `convert_print` two process ids and
three starts (`MaxStarts`) let an id be used again by the user, and the forms, choices and
requests include a turned page, a square label, a repeated number, a driver that measures
another page, and sizes in inches and custom tokens in both units, one of them small
enough to be taken for inches without its unit; the form list grows up to four times against
`MaxQueries` 4. In `status_stream` `Capacity` stands for 128: with 4 a connection lags
within one batch of two jobs; `MaxEvents` 3 counts connections, refusals, remote jobs,
failures, lost writes, clears and restarts together, so that every pair of them meets a
submission. One connection slot is used by one page after another.

Fairness. The handlers' and the workers' steps are weakly fair: they are tokio
tasks on a multi-threaded runtime, and subprocesses, downloads and conversions
have timeouts or end. `AcquirePrintLock` is strongly fair, because tokio's `Mutex`
serves its waiters in order. `TestRelease` is weakly fair. In `RemoteWorker` the
remote worker's steps and the passing of retry times are weakly fair; that
includes that a request ends, although the HTTP client sets no timeout, so a
service that accepts a connection and never answers is outside
`RemoteJobIsReported` and `RemoteShutdownCompletes`. In `HtmlRender` time passes, the
renderer's own steps are weakly fair, and CDP calls end because the library limits
each; launch threads, DNS and doctors may stop for ever. In `Management` a command line's
own steps and its ten-second limit are weakly fair, together with the requests it runs in
its own process; agents may stop answering at any point. The limit is on reading the
answer (`client.rs:113`); writing the request has none, and is taken to end because a
request fits into the socket's buffer. In `DocumentPrint` only the
agent's own conversion steps and timers are; scripts, applications and printing tools may
hang. In `StatusStream` the worker's steps (printing commands return) and the reply of a
session are weakly fair, and the forwarding of a status is strongly fair: the `select!` of
a session picks at random between a message and a status that are both ready. No fairness is assumed of
clients, users, the service, crashes, or of any outcome being a success.

## Findings

* `agent_cancel`: `run_worker_until` checks the token and then awaits the queue
  lock, so a job can begin after cancellation; the function's comment says that
  none does.
* `remote_resume`: a configuration saved while a refused request is under way
  finds nobody in `notified()`; `notify_waiters` stores no permit and the remote
  worker then waits for ever, although the technical documentation says that it
  is paused until the user updates the configuration.
* `remote_retries`: a report is abandoned when its failures *reach*
  `max_report_retries`, the first attempt included; the documentation says when
  they exceed it.

Smaller disagreements that were met while modelling and have no run of their own:

* `docs/printbridge-technical.md:92` says that no silent fallback makes two states; after
  the port was changed, a second agent starts beside the first, takes over the socket and
  removes it when it stops (`ipc/unix.rs:87`, `client.rs:59`).
* `docs/printbridge-technical.md:206` says which commands work offline; after the desktop
  application has exited its socket file is still there, and a refused connection is an
  error instead of the fallback (`client.rs:71`, `tray.rs:73`).
* `docs/printbridge-technical.md:261` gives `doctor` exit code 1 on failure; the headless
  server drops the code (`apps/server/src/main.rs:88`).
* `openwiki/domain/configuration.md:129` limits the port to 10000-65535; an import and a
  direct save accept any port above 0 (`config_transfer.rs:373`).
* `server.rs:525` compares the host with `::1`, but `host_str` keeps the brackets, so an
  IPv6 loopback page is never one.
* A configuration file that a crash cut short stops every later start: `load` has no
  fallback. A short write to the Windows spooler is printed although it is reported as
  failed (`Spooler`).

A behaviour without a property, since no document promises otherwise: when a
later job of a remote batch is invalid, or the batch id or a job id is already
known to the queue, `poll_once` ends after earlier jobs were recorded. They are
never queued nor reported, and later deliveries skip them as duplicates. Likewise a
request of a page that is rejected only after `render()` has read the tracker fails
nothing: connections outlive the accept loop and are not awaited.

## Proofs

All theorems hold for every value of the constants that satisfies the `ASSUME`s: any
sets of clients, connections, ids, jobs, configurations, commands and tasks, any bound on
restarts, faults and batches, any capacity of the status channel. Every safety invariant
and action property that a passing run checks is also a theorem, and so is the
refinement of `JobLedger`.

The assumptions are typing (inputs, configurations, tasks, forms and requests are of their
types), that `None` and the names `"worker"` and `"remote"` are nothing else, and a few
facts of the code: the unspecified address is no loopback address (`AddressAssumption`),
a desktop's commands run in a desktop agent, autostart is set by its own command and not by
an edit, and an export carries fields of the transfer format only (`ManagementAssumption`),
and a custom size in the list of CUPS has a unit and no name (`BackendAssumption`). TLC evaluates all of them in the runs.

`QueueState_proofs` holds what the other modules need of the queue: its operations yield
queues, keep `QueueOK` (the pending ids are distinct and all in `seen_job_ids`), and add or
remove exactly the ids they are given (`AcceptJobOK`, `AcceptBatchOK`, `PopOK`).

`PrintAgent_proofs`:

* `TypeCorrect` (`TypeOK`). Inductive as it stands; it includes that the worker
  has a job exactly at the places of the code where it uses one.
* `WakeupNeverLost` (`NoLostWakeup`). Inductive as it stands, because `notifying`
  covers the gap between accepting a job and storing the permit.
* `PrintingExclusive` (`PrintExclusive`), from `LockInv`: whoever is in the
  backend is the holder of `print_lock`. Exclusion alone is not inductive, since
  it does not say who holds the lock.
* `PrintedOncePerRun` (`OncePerRun`), from `LedgerInv`: an id is pending, at the
  worker or printed, never two of them except while the worker has just printed
  it; all of these are in `seen_job_ids`; pending ids are distinct; no spool
  entry is from a later process.

`AgentOutcome_proofs`, about what a process leaves behind:

* `TempFilesCleaned` (`TempCleaned`), from `TempInv`: files belong to jobs the worker has
  taken, only its current job may have a download, and that one not at the steps from
  which a failure is logged without a clean-up.
* `HistoryIsTruthful` (`HistoryTruthful`), from `HistoryInv`: a job not yet taken has no
  history; that of the worker's job fits the step it is at (`CurHistory`: begun, not yet
  sent, sent, ended); that of a finished one is settled.
* `AgentImplementsLedger` (`ImplementsLedger`): the initial states map to initial states of
  `JobLedger` and every step to a step or a stutter. The line of the ledger is the pending
  ids in order (`LineOf`); the invariants above say that an accepted id is fresh, that the
  job popped is the head of the line, and that the one printed is active and unprinted.

`RemoteWorker_proofs`:

* `ComposedInv`: the types and the ledger of `PrintAgent` survive the composition.
  Steps of the agent's own tasks are steps of `PrintAgent`; those of the remote
  worker leave the ledger alone (`RemoteOnly`) or add new ids (`AcceptTaskQueue`).
  `ComposedOncePerRun` and `ComposedWakeupNeverLost` follow.
* `RemotePrintedOnce` (`RemoteAtMostOnce`), from `RemoteInv`: every id on its way
  to the printer for the service is in the store's `jobs`, and is at one place of
  that way only: just recorded, queued, at the worker, or printed. A crash removes
  ids from the first three places and never from `jobs` or the spool, so an id
  the service sends again is not new.
* `RemoteTypeCorrect` (`RemoteTypeOK`), with `WorkerOK`: wherever the remote worker uses a
  configuration it holds one.
* `DeliveredWasReceived` (`DeliveredIsReceived`), from `ReportInv`: an event still to be
  posted in this round is pending, and before it is marked as delivered the service has
  what it says. Events are added by the queue worker meanwhile (`Grown`).
* `DeliveryStaysFinal` (`DeliveryIsFinal`), an action property, from the same invariant:
  only pending events are ever marked.
* `VerdictsAreTruthful` (`VerdictTruthful`), from `VerdictInv`: what the service has
  received is in the outbox; a job with a `failed` event is known to the store and nowhere
  on the way to the printer (`OnTheWay`), so neither a crash nor a repeated task can print
  it later; one with a `success` event is in the spool.

`HtmlRender_proofs`, for any number of callers and requests and any times, from one
inductive invariant, `HtmlInv`:

* `LaunchesExclusive` (`OneLaunch`) and `SignalNeverLost` (`NoLostSignal`), from
  `GateInv`: a taken gate belongs to one caller about to spawn its thread or to one
  thread. `OneLaunch` alone does not say that no caller is about to start a second.
* `CdpEndsInTime` (`CdpFitsDeadline`): `due` begins at most at `left` and both run
  down together.
* `NothingLeft` (`RenderLeavesNothing`), from `RenderInv`: which of worker, proxy,
  launch and file may exist at each place of `render()`.
* `PrintedUnblocked` (`PdfUnblocked`), from `PageInv`: before the navigation no
  request of the page was sent, after it the tracker is set as soon as one is
  rejected and is not cleared until `render()` has read it.
* `RenderTypes` (`HtmlTypeOK`).

`DocumentPrint_proofs`, from `DocumentInv`, the conjunction of the types and of one
invariant per part:

* `UsersKeepTheirApps` (`UserAppsKept`), from `UserInv`: until the script has proved that
  its application is not in the snapshot, every application of the user is in the snapshot
  or was started in the window; afterwards only one of the window can be the recorded
  instance. Nothing is younger than the last start, so a reused process id never brings
  back a recorded pair of id and start time.
* `PdfIsTheConverters` (`PdfIsConverted`), from `ConvertInv`: while a converter is under
  way, either there is no output and at most one application, of that converter, has the
  document open, or the output is the converter's and none has it open.
* `NothingIsLeft` (`LeavesNothing`), from `JobInv`: which files may exist at each place of
  the job, unless a fault occurred or an application kept the document (`conv.left`).
* `PaperIsRight` (`RightPaper`), from `PaperInv`: the papers the settings are chosen from
  are those read with the orientation remembered in `read_with`, and every number chosen
  among them stands for a page that fits in that orientation, for any list of forms; on
  CUPS the papers are those of the list, and the token given to `lp` makes the requested
  page but for the rounding of inches (`MediaIsRequested`, from `ChoiceSize` for a token
  of the driver and `CustomSize` for one that is built).

`Management_proofs`, in four layers on the shape of the state:

* `OnlySoundIsStored` (`StoredSound`), from `StoredInv`: a configuration in memory or in a
  readable file is good, a request past the checks carries a good one, and whoever runs a
  command is up. It rests on lemmas about `normalized`, `Saveable`, every edit and the merge
  of an export.
* `AcknowledgedIsKept` (`AckedIsKept`), from `AckInv`: while the save that began last is under
  way nobody else writes, and the file follows its stages.
* `ImportIsAsPreviewed` (`ImportAsPreviewed`), from `ImportInv`: what the user was shown is
  the export that is still there, or an older one, whose hash no longer fits.
* `OneCommandAtATimeAgrees` (`StateAgrees`), from `AgreeInv`: as long as no commands have
  overlapped, whoever is active is alone (`OneAtATime`), and for that client it is known
  who has which value at each of its steps: `WriteOf` for the file and the memories,
  `WantOf` for what is about to be saved, `FormOf` and `Ahead` for the commands that set the
  system's autostart before the configuration's and take it back when the save fails.

`StatusStream_proofs`:

* `LoopbackNeedsSameOrigin` (`LoopbackSameOrigin`). Inductive as it stands.
* `HistoryTablesAgree` (`HistoryAgrees`), from `WorkerInv`: the types, and that the worker
  has taken its job and every job of the stream from the queue (`Started`).
* `ToldOnlyOwnJobs` (`OnlyOwnJobs`) and `ListingsNameNoStarted` (`ListedNotStarted`), from
  `SessionsInv`: the ids a session remembers were in an answer it sent (`Claimed`), those it
  is about to remember are in the answer it is about to send (`OutcomeOK`), and every status
  sent is of a started job, which no listing names.
* `StatusesWithoutGaps` (`NoGaps`), from `GapInv`: for the jobs a session remembers, the
  statuses sent match the part of the stream it has read (`Matches`: as many, and the n-th is
  the n-th); for the jobs it has still to remember there is none on either side, because
  the session does not read the stream between accepting and remembering. That is why a
  job started in between loses no status. The n-th is counted by `Rank`, a cardinality:
  about a filtered sequence nothing could be proved without induction. For a session
  that lagged, the statuses sent match some positions of the stream before the one it reads
  next: a lagging receiver only moves forward, so these stay behind every later one.

Model-checked only: liveness (`AcceptedIsSettled`, `ShutdownCompletes`,
`RemoteJobIsReported`, `RemoteShutdownCompletes`, `RenderEnds`, `CommandsEnd`,
`ConversionEnds`, `OutcomeTold`), since TLAPS does not handle fairness here, and the three
expected violations, which are counterexamples.

## Not modelled, and the plan

Left out because it changes no state the properties speak of, or is input and output
only: the order and paging of the history's queries (which compare times as text), the
in-memory log, the listing of printers, trays, resolutions and ports, the other
diagnostics, windows, menus and localisation, and the parsing of arguments. The
cryptography of exports and the syntax of URLs are abstracted to their outcome. Windows
named pipes are not told apart from sockets, although they leave no file behind.

Left to prove:

1. `TempCleaned`, `HistoryTruthful` and the refinement of `JobLedger` under `RemoteSpec`, the way
   `ComposedOncePerRun` is: the remote worker's steps leave the files and the history alone,
   and `AcceptTask` is one more way for a block of fresh ids to join the line.
2. `PrintExclusive` under `RemoteSpec`, from `LockInv`.
3. A type invariant of `StatusStream` and `Management` as a property of their own; their
   proofs contain one (`WorkerInv` with `SessionsInv`, `Shape`) that no run states yet.
