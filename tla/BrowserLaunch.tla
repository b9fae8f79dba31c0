--------------------------- MODULE BrowserLaunch ----------------------------
(***************************************************************************)
(* Launching a browser (crates/runtime/src/html/browser.rs): the candidates *)
(* are tried in the platform's order, each in a thread of its own that may  *)
(* hang.  One launch runs at a time in the process: BROWSER_LAUNCH_GATE, a  *)
(* flag with a condition variable, is acquired by the caller and released   *)
(* by the launch thread, however long after its caller gave up.             *)
(*                                                                         *)
(* The callers are the threads that render HTML and that run the doctor's   *)
(* browser check.  Module HtmlRender composes them.                         *)
(***************************************************************************)
EXTENDS Integers

CONSTANTS Callers,        \* threads that call launch_headless_browser
          MaxCandidates,  \* candidates() of the platform, in number
          Timeout         \* RENDER_TIMEOUT, in units of the clock

ASSUME LaunchAssumption ==
    /\ MaxCandidates \in Nat
    /\ Timeout \in Nat

VARIABLES
    in_progress,  \* the flag of BROWSER_LAUNCH_GATE
    lpc,          \* where each caller is in its launch
    todo,         \* how many candidates it has not tried
    left,         \* how much time it has before its deadline
    chan,         \* what the channel of its current attempt holds
    threads       \* browser-launch threads that hold the guard

launchVars == <<in_progress, lpc, todo, left, chan, threads>>

Results == {"ok", "timeout", "unavailable"}

LaunchPcs == {"idle", "next", "gate", "wait", "notified", "timedout", "spawn",
              "recv"} \cup Results

\* awaited: its caller waits for the result.  sent: launch() has returned and
\* its result was sent, the guard is about to be dropped.
Thread == [owner: Callers, awaited: BOOLEAN, sent: BOOLEAN]

LaunchInit ==
    /\ in_progress = FALSE
    /\ lpc = [c \in Callers |-> "idle"]
    /\ todo = [c \in Callers |-> 0]
    /\ left = [c \in Callers |-> 0]
    /\ chan = [c \in Callers |-> "empty"]
    /\ threads = {}

\* Callers inside condvar.wait_timeout.
Waiters == {c \in Callers : lpc[c] = "wait"}

-----------------------------------------------------------------------------
(* launch_headless_browser and launch_first_available                       *)

\* BrowserLocator::available(): how many candidates of the platform may be found
\* usable; they are tried in the platform's order.
Available == 0..MaxCandidates

\* n candidates are usable; none is an error.
BeginLaunch(c, n) ==
    /\ todo' = [todo EXCEPT ![c] = n]
    /\ lpc' = [lpc EXCEPT ![c] = IF n = 0 THEN "unavailable" ELSE "next"]
    /\ UNCHANGED <<in_progress, chan, threads>>

\* The caller has the result.
EndLaunch(c) ==
    /\ todo' = [todo EXCEPT ![c] = 0]
    /\ lpc' = [lpc EXCEPT ![c] = "idle"]
    /\ UNCHANGED <<in_progress, chan, threads>>

\* The next candidate, if one is left and attempt_timeout() finds time for it.  A
\* rendering is cancelled during its launch only when no time is left.
Attempt(c) ==
    /\ lpc[c] = "next"
    /\ \/ /\ todo[c] = 0
          /\ lpc' = [lpc EXCEPT ![c] = "unavailable"]
          /\ UNCHANGED todo
       \/ /\ todo[c] > 0
          /\ lpc' = [lpc EXCEPT ![c] = IF left[c] = 0 THEN "timeout" ELSE "gate"]
          /\ todo' = [todo EXCEPT ![c] = @ - 1]
    /\ UNCHANGED <<in_progress, left, chan, threads>>

-----------------------------------------------------------------------------
(* BrowserLaunchGuard::acquire and drop                                     *)

\* The mutex is locked: take a free gate, or wait for a taken one.  A caller
\* whose wait timed out gives up only if the gate is still taken.
Acquire(c) ==
    /\ lpc[c] \in {"gate", "notified", "timedout"}
    /\ \/ /\ ~in_progress
          /\ in_progress' = TRUE
          /\ lpc' = [lpc EXCEPT ![c] = "spawn"]
       \/ /\ in_progress
          /\ lpc' = [lpc EXCEPT ![c] = IF lpc[c] = "timedout" \/ left[c] = 0
                                       THEN "timeout" ELSE "wait"]
          /\ UNCHANGED in_progress
    /\ UNCHANGED <<todo, left, chan, threads>>

\* A mutant of WaitTimesOut: condvar.wait, which has no time limit.
WaitTimesOut_Never(c) ==
    /\ FALSE
    /\ UNCHANGED launchVars

WaitTimesOut(c) ==
    /\ lpc[c] = "wait"
    /\ left[c] = 0
    /\ lpc' = [lpc EXCEPT ![c] = "timedout"]
    /\ UNCHANGED <<in_progress, todo, left, chan, threads>>

\* A mutant of DropGuard: the flag is cleared and nobody is notified.
DropGuard_Silent(next) ==
    /\ in_progress' = FALSE
    /\ lpc' = next

\* Drop for BrowserLaunchGuard: clear the flag and notify_one.  next is what lpc
\* becomes apart from the waiter that is notified.
DropGuard(next) ==
    /\ in_progress' = FALSE
    /\ \/ /\ Waiters = {}
          /\ lpc' = next
       \/ \E w \in Waiters : lpc' = [next EXCEPT ![w] = "notified"]

-----------------------------------------------------------------------------
(* launch_with_timeout                                                      *)

\* With the guard: give up when no time is left, otherwise move the guard into a
\* new thread; a thread that cannot be spawned drops it and counts as a failed
\* candidate.
Spawn(c) ==
    /\ lpc[c] = "spawn"
    /\ \/ /\ left[c] = 0
          /\ DropGuard([lpc EXCEPT ![c] = "timeout"])
          /\ UNCHANGED <<chan, threads>>
       \/ /\ left[c] > 0
          /\ DropGuard([lpc EXCEPT ![c] = "next"])
          /\ UNCHANGED <<chan, threads>>
       \/ /\ left[c] > 0
          /\ threads' = threads \cup {[owner |-> c, awaited |-> TRUE, sent |-> FALSE]}
          /\ chan' = [chan EXCEPT ![c] = "empty"]
          /\ lpc' = [lpc EXCEPT ![c] = "recv"]
          /\ UNCHANGED in_progress
    /\ UNCHANGED <<todo, left>>

\* receiver.recv_timeout returned a browser, or an error that leads to the next
\* candidate.
Receive(c) ==
    /\ lpc[c] = "recv"
    /\ chan[c] # "empty"
    /\ lpc' = [lpc EXCEPT ![c] = IF chan[c] = "browser" THEN "ok" ELSE "next"]
    /\ chan' = [chan EXCEPT ![c] = "empty"]
    /\ UNCHANGED <<in_progress, todo, left, threads>>

\* c has dropped its receiver.
Abandoned(c) ==
    {IF t.owner = c THEN [t EXCEPT !.awaited = FALSE] ELSE t : t \in threads}

\* A mutant of RecvTimesOut: the guard stays with the caller, and its return
\* drops it while the thread still launches.
RecvTimesOut_Drops(c) ==
    /\ lpc[c] = "recv"
    /\ chan[c] = "empty"
    /\ left[c] = 0
    /\ threads' = Abandoned(c)
    /\ DropGuard([lpc EXCEPT ![c] = "timeout"])
    /\ UNCHANGED <<todo, left, chan>>

\* recv_timeout found nothing: the receiver is dropped, the thread goes on.
RecvTimesOut(c) ==
    /\ lpc[c] = "recv"
    /\ chan[c] = "empty"
    /\ left[c] = 0
    /\ threads' = Abandoned(c)
    /\ lpc' = [lpc EXCEPT ![c] = "timeout"]
    /\ UNCHANGED <<in_progress, todo, left, chan>>

\* What the sender of t delivers: nothing once the receiver is gone, and a browser
\* that cannot be sent is dropped.
Deliver(t, result) ==
    chan' = IF t.awaited THEN [chan EXCEPT ![t.owner] = result] ELSE chan

\* launch() returned; Browser::new may take any time.
ThreadReturns(t) ==
    /\ ~t.sent
    /\ \E result \in {"browser", "error"} : Deliver(t, result)
    /\ threads' = (threads \ {t}) \cup {[t EXCEPT !.awaited = FALSE, !.sent = TRUE]}
    /\ UNCHANGED <<in_progress, lpc, todo, left>>

\* The end of the thread's closure drops the guard.
ThreadEnds(t) ==
    /\ t.sent
    /\ threads' = threads \ {t}
    /\ DropGuard(lpc)
    /\ UNCHANGED <<todo, left, chan>>

\* A panic in launch() drops the guard and the sender.
ThreadPanics(t) ==
    /\ ~t.sent
    /\ Deliver(t, "error")
    /\ threads' = threads \ {t}
    /\ DropGuard(lpc)
    /\ UNCHANGED <<todo, left>>

-----------------------------------------------------------------------------

\* The steps of a caller inside its launch.
LaunchStep(c) ==
    \/ Attempt(c)
    \/ Acquire(c)
    \/ WaitTimesOut(c)
    \/ Spawn(c)
    \/ Receive(c)
    \/ RecvTimesOut(c)

\* The steps of a launch thread.
ThreadStep(t) ==
    \/ ThreadReturns(t)
    \/ ThreadEnds(t)
    \/ ThreadPanics(t)

\* A mutant of Elapse: the time left is not cut off at zero.
Elapse_Plain == left' = [c \in Callers |-> left[c] - 1]

\* One unit of time passes for every deadline (saturating_duration_since).
Elapse == left' = [c \in Callers |-> IF left[c] = 0 THEN 0 ELSE left[c] - 1]

-----------------------------------------------------------------------------

LaunchTypeOK ==
    /\ in_progress \in BOOLEAN
    /\ lpc \in [Callers -> LaunchPcs]
    /\ todo \in [Callers -> 0..MaxCandidates]
    /\ left \in [Callers -> 0..Timeout]
    /\ chan \in [Callers -> {"empty", "browser", "error"}]
    /\ threads \subseteq Thread

\* At most one browser is being started in the process, whatever launches were
\* given up: a caller that times out leaves the gate to its thread
\* (BrowserLaunchGuard is there to prevent a build-up of background processes).
OneLaunch == \A t, u \in threads : t = u

\* A caller that waits for the gate is never forgotten: when the gate is free some
\* caller is awake and will look at it, although each drop notifies one waiter
\* only, that waiter may have timed out at the same moment, and a caller that
\* never waited may have taken the gate first (BrowserLaunchGuard).
NoLostSignal ==
    (~in_progress /\ Waiters # {}) =>
        \E c \in Callers : lpc[c] \in {"notified", "timedout"}
=============================================================================
