----------------------------- MODULE HtmlRender -----------------------------
(***************************************************************************)
(* Rendering HTML to a PDF (crates/runtime/src/html): the asynchronous      *)
(* render() that owns proxy, deadline and worker, the blocking worker that  *)
(* drives the browser over CDP, the filtering proxy whose connections judge *)
(* the page's requests on their own, and the queue worker that prints or    *)
(* removes the result (process_html_job in crates/runtime/src/queue.rs).    *)
(* The queue worker renders one job at a time; the doctor's browser check   *)
(* competes for the launch gate of module BrowserLaunch.                    *)
(*                                                                         *)
(* Time is counted down to each deadline.  It passes at awaits and in       *)
(* blocking calls; a check and the call it guards are one action, because   *)
(* the code between them does not block.                                    *)
(***************************************************************************)
EXTENDS BrowserLaunch, Sequences

CONSTANTS Html,        \* the caller that is the renderer's worker
          Cdp,         \* MAX_CDP_OPERATION_TIMEOUT
          WaitTimes,   \* wait_ms a job may ask for
          Requests,    \* requests the browser may make through the proxy
          DnsAnswers,  \* answers of the resolver: sequences of addresses
          None

\* Address classes that is_public_ip and is_exact_loopback_host tell apart.
Addresses == {"public", "private", "loopback", "other_loopback"}

\* route: how ProxyState::handle dispatches it.  host: what host_str is, an
\* address literal among them.  local_origin: its origin is the job's
\* allowed_loopback_origin.  attributed: its Referer or Origin is the page's.
Request ==
    [route: {"inline", "connect", "http"}, scheme: {"http", "https"},
     host: {"name", "localhost"} \cup Addresses,
     local_origin: BOOLEAN, attributed: BOOLEAN]

ASSUME HtmlAssumption ==
    /\ Html \in Callers
    /\ Cdp \in Nat \ {0}
    /\ WaitTimes \subseteq Nat
    /\ Requests \subseteq Request
    /\ DnsAnswers \subseteq Seq(Addresses) /\ DnsAnswers # {}
    /\ None \notin Requests

VARIABLES
    rpc,        \* where render() is
    result,     \* what it returns
    wpc,        \* where the blocking worker is, or what it returned
    cancelled,  \* BrowserRenderControl.cancelled
    due,        \* time in which the worker's current wait ends
    proxy,      \* the proxy's accept loop runs
    reqs,       \* what became of each request
    rejected,   \* RejectedResourceTracker: the first rejected request, or None
    omitted,    \* requests of the page rejected before the PDF was exported
    file        \* the output PDF is on disk

workVars == <<wpc, cancelled, due>>
proxyVars == <<reqs, rejected>>
pageVars == <<omitted, file>>
vars == <<launchVars, rpc, result, workVars, proxy, proxyVars, pageVars>>

RenderPcs == {"idle", "starting", "waiting", "cancelling", "closing", "done"}

\* Calls that wait for answers to CDP requests.
CdpCalls == {"newtab", "navigate", "load", "print"}

\* What the worker returns, or how it stops.
WorkerResults == {"ok", "timeout", "unavailable", "navigation", "pdf", "io", "panicked"}

WorkerPcs == {"none", "launch", "launched", "tab", "navigated", "settle", "settled",
              "exported", "write"} \cup CdpCalls \cup WorkerResults

Init ==
    /\ LaunchInit
    /\ rpc = "idle"
    /\ result = "none"
    /\ wpc = "none"
    /\ cancelled = FALSE
    /\ due = 0
    /\ proxy = FALSE
    /\ reqs = [r \in Requests |-> "unsent"]
    /\ rejected = None
    /\ omitted = {}
    /\ file = FALSE

-----------------------------------------------------------------------------
(* BrowserRenderControl                                                     *)

\* check_active and remaining succeed.
Active == ~cancelled /\ left[Html] > 0

\* before_cdp_operations: there is time for n CDP requests.
BeforeCdp(n) == Active /\ left[Html] >= n * Cdp

-----------------------------------------------------------------------------
(* BrowserHtmlRenderer::render                                              *)

RenderStart ==
    /\ rpc = "idle"
    /\ rpc' = "starting"
    /\ left' = [left EXCEPT ![Html] = Timeout]
    /\ cancelled' = FALSE
    /\ UNCHANGED <<in_progress, lpc, todo, chan, threads, result, wpc, due, proxy,
                   proxyVars, pageVars>>

\* render() returns; the proxy is shut down, or dropped, before.
Return(outcome) ==
    /\ rpc' = "done"
    /\ result' = outcome
    /\ proxy' = FALSE
    /\ wpc' = "none"

\* FilteringProxy::start: the accept loop serves connections until it is shut down.
StartProxy == proxy' = TRUE

\* The proxy was started and the profile made, or not; the worker is spawned if a
\* CDP request fits the time that is left.
SpawnWorker ==
    /\ rpc = "starting"
    /\ \/ /\ Return("io")
          /\ UNCHANGED <<launchVars, cancelled>>
       \/ /\ ~BeforeCdp(1)
          /\ cancelled' = TRUE
          /\ Return("timeout")
          /\ UNCHANGED launchVars
       \/ /\ BeforeCdp(1)
          /\ rpc' = "waiting"
          /\ StartProxy
          /\ wpc' = "launch"
          /\ \E n \in Available : BeginLaunch(Html, n)
          /\ UNCHANGED <<left, cancelled, result>>
    /\ UNCHANGED <<due, proxyVars, pageVars>>

WorkerEnded == wpc \in WorkerResults

\* The worker failed or panicked: the error is returned whatever the proxy saw.
WorkerFailed ==
    /\ rpc = "waiting"
    /\ WorkerEnded /\ wpc # "ok"
    /\ Return(IF wpc = "panicked" THEN "navigation" ELSE wpc)
    /\ UNCHANGED <<launchVars, cancelled, due, proxyVars, pageVars>>

\* The worker wrote the PDF: read the tracker, then await the proxy's shutdown.
Collect ==
    /\ rpc = "waiting"
    /\ wpc = "ok"
    /\ rpc' = "closing"
    /\ result' = IF rejected = None THEN "ok" ELSE "blocked"
    /\ UNCHANGED <<launchVars, workVars, proxy, proxyVars, pageVars>>

Close ==
    /\ rpc = "closing"
    /\ Return(IF result = "ok" /\ ~Active THEN "timeout" ELSE result)
    /\ cancelled' = (cancelled \/ (result = "ok" /\ ~Active))
    /\ UNCHANGED <<launchVars, due, proxyVars, pageVars>>

\* A mutant of RenderTimesOut: return at once, without awaiting the worker.
RenderTimesOut_Returns ==
    /\ rpc = "waiting"
    /\ left[Html] = 0
    /\ ~WorkerEnded
    /\ cancelled' = TRUE
    /\ rpc' = "done"
    /\ result' = "timeout"
    /\ proxy' = FALSE
    /\ UNCHANGED <<launchVars, wpc, due, proxyVars, pageVars>>

\* tokio::time::timeout elapsed: cancel, and await the worker all the same.
RenderTimesOut ==
    /\ rpc = "waiting"
    /\ left[Html] = 0
    /\ ~WorkerEnded
    /\ cancelled' = TRUE
    /\ rpc' = "cancelling"
    /\ UNCHANGED <<launchVars, result, wpc, due, proxy, proxyVars, pageVars>>

WorkerAwaited ==
    /\ rpc = "cancelling"
    /\ WorkerEnded
    /\ Return("timeout")
    /\ UNCHANGED <<launchVars, cancelled, due, proxyVars, pageVars>>

\* process_html_job: print a rendered PDF; whatever happened, remove the file.
\* The tracker goes with the rendering: connections that are still open keep their
\* own, and the next rendering makes a new one.
JobEnds ==
    /\ rpc = "done"
    /\ rpc' = "idle"
    /\ result' = "none"
    /\ file' = FALSE
    /\ left' = [left EXCEPT ![Html] = 0]
    /\ reqs' = [r \in Requests |-> "unsent"]
    /\ rejected' = None
    /\ omitted' = {}
    /\ UNCHANGED <<in_progress, lpc, todo, chan, threads, workVars, proxy>>

-----------------------------------------------------------------------------
(* InstalledBrowserDriver::render, in the blocking worker                   *)

\* A check failed: cancel, and return the timeout error.
StopWorker ==
    /\ cancelled' = TRUE
    /\ wpc' = "timeout"
    /\ due' = 0
    /\ UNCHANGED rejected

WorkerFrame == UNCHANGED <<launchVars, rpc, result, proxy, reqs>>

\* launch_headless_browser returned.
Launched ==
    /\ wpc = "launch"
    /\ lpc[Html] \in Results
    /\ wpc' = IF lpc[Html] = "ok" THEN "launched" ELSE lpc[Html]
    /\ EndLaunch(Html)
    /\ UNCHANGED <<left, rpc, result, cancelled, due, proxy, proxyVars, pageVars>>

\* browser.new_tab(): one request, then a wait of new_tab_wait_timeout.
NewTab ==
    /\ wpc = "launched"
    /\ \/ /\ BeforeCdp(1)
          /\ wpc' = "newtab"
          /\ due' = Cdp + (left[Html] - Cdp)
          /\ UNCHANGED <<cancelled, rejected>>
       \/ ~BeforeCdp(1) /\ StopWorker
    /\ WorkerFrame
    /\ UNCHANGED pageVars

\* tab.navigate_to: two requests.  What the proxy rejected before belongs to no
\* page and is forgotten.
Navigate ==
    /\ wpc = "tab"
    /\ \/ /\ BeforeCdp(2)
          /\ wpc' = "navigate"
          /\ due' = 2 * Cdp
          /\ rejected' = None
          /\ UNCHANGED cancelled
       \/ ~BeforeCdp(2) /\ StopWorker
    /\ WorkerFrame
    /\ UNCHANGED pageVars

\* tab.wait_until_navigated, for the time that remains.
Load ==
    /\ wpc = "navigated"
    /\ \/ /\ Active
          /\ wpc' = "load"
          /\ due' = left[Html]
          /\ UNCHANGED <<cancelled, rejected>>
       \/ ~Active /\ StopWorker
    /\ WorkerFrame
    /\ UNCHANGED pageVars

\* control.wait(wait_ms) polls: the deadline and a cancellation end it too.
SettleEnds ==
    /\ wpc = "settle"
    /\ \/ /\ Active /\ due = 0
          /\ wpc' = "settled"
          /\ UNCHANGED <<cancelled, due, rejected>>
       \/ ~Active /\ StopWorker
    /\ WorkerFrame
    /\ UNCHANGED pageVars

\* A mutant of PrintToPdf: time for one request only is asked for.
PrintToPdf_One ==
    /\ wpc = "settled"
    /\ \/ /\ BeforeCdp(1)
          /\ wpc' = "print"
          /\ due' = 2 * Cdp
          /\ UNCHANGED <<cancelled, rejected>>
       \/ ~BeforeCdp(1) /\ StopWorker
    /\ WorkerFrame
    /\ UNCHANGED pageVars

\* A mutant of PrintToPdf: the tracker is cleared here.
PrintToPdf_Clears ==
    /\ wpc = "settled"
    /\ \/ /\ BeforeCdp(2)
          /\ wpc' = "print"
          /\ due' = 2 * Cdp
          /\ rejected' = None
          /\ UNCHANGED cancelled
       \/ ~BeforeCdp(2) /\ StopWorker
    /\ WorkerFrame
    /\ UNCHANGED pageVars

\* tab.print_to_pdf: two requests.
PrintToPdf ==
    /\ wpc = "settled"
    /\ \/ /\ BeforeCdp(2)
          /\ wpc' = "print"
          /\ due' = 2 * Cdp
          /\ UNCHANGED <<cancelled, rejected>>
       \/ ~BeforeCdp(2) /\ StopWorker
    /\ WorkerFrame
    /\ UNCHANGED pageVars

\* A CDP call answers, fails or panics while it may still wait.
CdpFails ==
    /\ wpc \in CdpCalls
    /\ wpc' \in {"panicked", IF wpc = "print" THEN "pdf" ELSE "navigation"}
    /\ due' = 0
    /\ WorkerFrame
    /\ UNCHANGED <<cancelled, rejected, pageVars>>

CdpReturns ==
    /\ wpc \in CdpCalls
    /\ \/ wpc = "newtab" /\ wpc' = "tab" /\ due' = 0 /\ UNCHANGED omitted
       \/ wpc = "navigate" /\ wpc' = "navigated" /\ due' = 0 /\ UNCHANGED omitted
       \/ wpc = "load" /\ wpc' = "settle" /\ due' \in WaitTimes /\ UNCHANGED omitted
       \/ /\ wpc = "print"
          /\ wpc' = "exported"
          /\ due' = 0
          /\ omitted' = {r \in Requests : r.attributed /\ reqs[r] = "rejected"}
    /\ WorkerFrame
    /\ UNCHANGED <<cancelled, rejected, file>>

\* The last check before the PDF is written.
CheckBeforeWrite ==
    /\ wpc = "exported"
    /\ \/ Active /\ wpc' = "write" /\ UNCHANGED <<cancelled, due, rejected>>
       \/ ~Active /\ StopWorker
    /\ WorkerFrame
    /\ UNCHANGED pageVars

\* std::fs::write; an error may leave part of the file.
WritePdf ==
    /\ wpc = "write"
    /\ \/ wpc' = "ok" /\ file' = TRUE
       \/ wpc' = "io" /\ file' \in BOOLEAN
    /\ WorkerFrame
    /\ UNCHANGED <<cancelled, due, rejected, omitted>>

-----------------------------------------------------------------------------
(* The filtering proxy                                                      *)

\* ResourcePolicy::approved_target
ApprovedTarget(address, allowed_loopback) ==
    \/ address = "public"
    \/ allowed_loopback /\ address \in {"loopback", "other_loopback"}

\* ResourcePolicy::resolve_target, with the resolver's answer: the request is not
\* BlockedResource.  is_exact_loopback_host is 127.0.0.1 or ::1; "localhost" stands
\* for the empty host too; a failed lookup is an empty answer.
ResolveTarget(r, answer) ==
    /\ r.host # "localhost"
    /\ IF r.host \in Addresses
         THEN ApprovedTarget(r.host, r.local_origin /\ r.host = "loopback")
         ELSE /\ answer # <<>>
              /\ \A i \in DOMAIN answer : answer[i] = "public"

\* The page is in the browser from the navigation on.
PageLive == wpc \in {"navigate", "navigated", "load", "settle", "settled", "print"}

\* The browser has a process that makes requests of its own.
BrowserLive == PageLive \/ wpc \in {"launched", "newtab", "tab"}

\* ProxyState::handle: inline routes are answered at once, an https URL outside a
\* CONNECT is invalid, everything else awaits the policy.
Handle(r) ==
    /\ proxy
    /\ reqs[r] = "unsent"
    /\ IF r.attributed THEN PageLive ELSE BrowserLive
    /\ reqs' = [reqs EXCEPT ![r] =
                  CASE r.route = "inline" -> "served"
                    [] r.route = "http" /\ r.scheme = "https" -> "failed"
                    [] OTHER -> "resolving"]
    /\ UNCHANGED <<launchVars, rpc, result, workVars, proxy, rejected, pageVars>>

\* handle_connect and handle_http after resolve_target.  Each connection is a task
\* that outlives the accept loop; a rejection is recorded if it belongs to the
\* page and is the first, an upstream that cannot be reached is not.
Judge(r) ==
    /\ reqs[r] = "resolving"
    /\ \E answer \in DnsAnswers :
          \/ /\ ResolveTarget(r, answer)
             /\ \E outcome \in {"served", "failed"} :
                   reqs' = [reqs EXCEPT ![r] = outcome]
             /\ UNCHANGED rejected
          \/ /\ ~ResolveTarget(r, answer)
             /\ reqs' = [reqs EXCEPT ![r] = "rejected"]
             /\ rejected' = IF r.attributed /\ rejected = None THEN r ELSE rejected
    /\ UNCHANGED <<launchVars, rpc, result, workVars, proxy, pageVars>>

-----------------------------------------------------------------------------
(* The doctor, time, and the whole                                          *)

renderVars == <<rpc, result, workVars, proxy, proxyVars, pageVars>>

Doctors == Callers \ {Html}

\* check_browser_launch
DoctorStart(c) ==
    /\ lpc[c] = "idle"
    /\ left' = [left EXCEPT ![c] = Timeout]
    /\ \E n \in Available : BeginLaunch(c, n)
    /\ UNCHANGED renderVars

\* The browser it got, if any, is dropped.
DoctorEnd(c) ==
    /\ lpc[c] \in Results
    /\ EndLaunch(c)
    /\ left' = [left EXCEPT ![c] = 0]
    /\ UNCHANGED renderVars

Launch(c) == LaunchStep(c) /\ UNCHANGED renderVars

LaunchThread == \E t \in threads : ThreadStep(t) /\ UNCHANGED renderVars

\* A CDP call that waits no longer returns before more time passes.
Tick ==
    /\ \/ \E c \in Callers : left[c] > 0
       \/ due > 0
    /\ wpc \in CdpCalls => due > 0
    /\ Elapse
    /\ due' = IF due = 0 THEN 0 ELSE due - 1
    /\ UNCHANGED <<in_progress, lpc, todo, chan, threads, rpc, result, wpc, cancelled,
                   proxy, proxyVars, pageVars>>

RenderStep == SpawnWorker \/ WorkerFailed \/ Collect \/ Close \/ RenderTimesOut
              \/ WorkerAwaited \/ JobEnds

WorkerStep == Launched \/ NewTab \/ Navigate \/ Load \/ SettleEnds \/ PrintToPdf
              \/ CheckBeforeWrite \/ WritePdf

Next ==
    \/ RenderStart
    \/ RenderStep
    \/ WorkerStep
    \/ CdpFails
    \/ CdpReturns
    \/ \E r \in Requests : Handle(r) \/ Judge(r)
    \/ \E c \in Doctors : DoctorStart(c) \/ DoctorEnd(c)
    \/ \E c \in Callers : Launch(c)
    \/ LaunchThread
    \/ Tick

\* Time passes and the renderer's own code runs; CDP calls end because the
\* library limits each.  Nothing is assumed of launch threads, of DNS or of
\* doctors.
HtmlSpec ==
    /\ Init /\ [][Next]_vars
    /\ WF_vars(Tick)
    /\ WF_vars(RenderStep)
    /\ WF_vars(WorkerStep)
    /\ WF_vars(CdpFails \/ CdpReturns)
    /\ WF_vars(Launch(Html))

-----------------------------------------------------------------------------

HtmlTypeOK ==
    /\ LaunchTypeOK
    /\ rpc \in RenderPcs
    /\ result \in {"none", "blocked"} \cup WorkerResults
    /\ wpc \in WorkerPcs
    /\ cancelled \in BOOLEAN
    /\ due \in Nat
    /\ proxy \in BOOLEAN
    /\ reqs \in [Requests -> {"unsent", "resolving", "served", "failed", "rejected"}]
    /\ rejected \in Requests \cup {None}
    /\ omitted \subseteq Requests
    /\ file \in BOOLEAN

\* A CDP call that has begun ends before the deadline even if every request of it
\* takes its full time, so that awaiting a cancelled worker is short
\* (before_cdp_operations, whose counts are those of the calls that follow).
CdpFitsDeadline == wpc \in CdpCalls => due =< left[Html]

\* When the job is over, nothing of its rendering is left: no PDF on disk, no
\* worker that could still write one, no launch it waits for and no proxy, at
\* whatever step the deadline struck (the timeout branch of render and the
\* cleanup of process_html_job).
RenderLeavesNothing ==
    rpc = "idle" => ~file /\ wpc = "none" /\ lpc[Html] = "idle" /\ ~proxy

\* A PDF given to the printer is on disk and was exported before any request of
\* the page had been rejected: a rejection seen since the navigation began is
\* neither overwritten nor cleared until render() reads it (RejectedResourceTracker).
PdfUnblocked == (rpc = "done" /\ result = "ok") => file /\ omitted = {}

\* Every rendering returns, though a launch may hang for ever with the gate held.
RenderEnds == (rpc = "starting") ~> (rpc = "idle")
=============================================================================
