-------------------------- MODULE HtmlRender_proofs -------------------------
(***************************************************************************)
(* Proofs about HtmlRender for any callers, requests, deadline and CDP      *)
(* timeout: the launch gate is exclusive and loses no signal, CDP calls fit *)
(* the deadline, a rendering leaves nothing behind, and no PDF is printed   *)
(* that was exported after a rejection.                                     *)
(***************************************************************************)
EXTENDS HtmlRender, TLAPS

\* The gate is taken by one caller about to spawn, or by one launch thread.
GateInv ==
    /\ OneLaunch
    /\ threads # {} => in_progress
    /\ \A c \in Callers : lpc[c] = "spawn" => in_progress /\ threads = {}
    /\ \A c, d \in Callers : lpc[c] = "spawn" /\ lpc[d] = "spawn" => c = d

\* Only a worker in its launch is in the launch code; a worker, a proxy and a file
\* exist at the places of render() that own them.
RenderInv ==
    /\ wpc # "launch" => lpc[Html] = "idle"
    /\ rpc \in {"idle", "starting", "done"} => wpc = "none" /\ ~proxy
    /\ rpc \in {"idle", "starting"} => ~file
    /\ rpc \in {"waiting", "cancelling"} => wpc # "none"
    /\ rpc = "closing" => wpc = "ok"

BeforePage == wpc \in {"launch", "launched", "newtab", "tab"} \/ rpc \in {"idle", "starting"}

AfterExport == wpc \in {"exported", "write", "ok"}

\* From the navigation on, the tracker holds something as soon as a request of the
\* page was rejected, and so it does for what the PDF lacks.
PageInv ==
    /\ BeforePage => \A r \in Requests : r.attributed => reqs[r] = "unsent"
    /\ PageLive \/ AfterExport =>
         \A r \in Requests : r.attributed /\ reqs[r] = "rejected" => rejected # None
    /\ AfterExport => (omitted # {} => rejected # None)
    /\ wpc = "ok" => file
    /\ rpc \in {"idle", "starting", "waiting", "cancelling"} => result # "ok"
    /\ rpc \in {"closing", "done"} /\ result = "ok" => file /\ omitted = {}

HtmlInv ==
    /\ HtmlTypeOK
    /\ GateInv
    /\ NoLostSignal
    /\ RenderInv
    /\ CdpFitsDeadline
    /\ PageInv

\* HtmlTypeOK without the variables of BrowserLaunch.
RenderTypeOK ==
    /\ rpc \in RenderPcs
    /\ result \in {"none", "blocked"} \cup WorkerResults
    /\ wpc \in WorkerPcs
    /\ cancelled \in BOOLEAN
    /\ due \in Nat
    /\ proxy \in BOOLEAN
    /\ reqs \in [Requests -> {"unsent", "resolving", "served", "failed", "rejected"}]
    /\ rejected \in Requests \cup {None}
    /\ omitted \subseteq Requests
    /\ file \in BOOLEAN

-----------------------------------------------------------------------------

(* The types are invariant by themselves. *)
LEMMA Constants ==
    /\ MaxCandidates \in Nat /\ Timeout \in Nat
    /\ Html \in Callers
    /\ Cdp \in Nat /\ Cdp > 0
    /\ WaitTimes \subseteq Nat
    /\ None \notin Requests
  BY LaunchAssumption, HtmlAssumption

\* The type invariant is that of the launch gate and that of the rendering.
LEMMA TypeParts == HtmlTypeOK <=> LaunchTypeOK /\ RenderTypeOK
  BY DEF HtmlTypeOK, RenderTypeOK

\* The initial state is well typed.
LEMMA InitType == Init => HtmlTypeOK
<1> SUFFICES ASSUME Init PROVE HtmlTypeOK
  OBVIOUS
<1>1. todo \in [Callers -> 0..MaxCandidates] /\ left \in [Callers -> 0..Timeout]
  BY Constants DEF Init, LaunchInit
<1>2. lpc \in [Callers -> LaunchPcs] /\ chan \in [Callers -> {"empty", "browser", "error"}]
  BY DEF Init, LaunchInit, LaunchPcs
<1>3. LaunchTypeOK
  BY <1>1, <1>2 DEF Init, LaunchInit, LaunchTypeOK
<1>4. RenderTypeOK
  BY DEF Init, RenderTypeOK, RenderPcs, WorkerPcs
<1>5. QED BY <1>3, <1>4, TypeParts

(* Whoever drops the guard frees the gate and wakes at most one waiter. *)
LEMMA DropGuardType ==
    ASSUME NEW next \in [Callers -> LaunchPcs], DropGuard(next)
    PROVE  in_progress' = FALSE /\ lpc' \in [Callers -> LaunchPcs]
  BY DEF DropGuard, Waiters, LaunchPcs

(* Steps inside a launch keep the types of its variables. *)
LEMMA LaunchType ==
    ASSUME LaunchTypeOK, NEW c \in Callers, LaunchStep(c)
    PROVE  LaunchTypeOK'
<1>1. CASE Attempt(c)
  BY <1>1, Constants DEF Attempt, LaunchTypeOK, LaunchPcs, Results
<1>2. CASE Acquire(c)
  BY <1>2 DEF Acquire, LaunchTypeOK, LaunchPcs, Results
<1>3. CASE WaitTimesOut(c)
  BY <1>3 DEF WaitTimesOut, LaunchTypeOK, LaunchPcs
<1>4. CASE Spawn(c)
  <2>1. \A x \in {"timeout", "next", "recv"} : [lpc EXCEPT ![c] = x] \in [Callers -> LaunchPcs]
    BY DEF LaunchTypeOK, LaunchPcs, Results
  <2>2. lpc' \in [Callers -> LaunchPcs] /\ in_progress' \in BOOLEAN
    BY <1>4, <2>1, DropGuardType DEF Spawn, LaunchTypeOK
  <2>3. chan' \in [Callers -> {"empty", "browser", "error"}]
    BY <1>4 DEF Spawn, LaunchTypeOK
  <2>4. [owner |-> c, awaited |-> TRUE, sent |-> FALSE] \in Thread
    BY DEF Thread
  <2>5. threads' \subseteq Thread
    BY <1>4, <2>4 DEF Spawn, LaunchTypeOK
  <2>6. QED BY <1>4, <2>2, <2>3, <2>5 DEF Spawn, LaunchTypeOK
<1>5. CASE Receive(c)
  BY <1>5 DEF Receive, LaunchTypeOK, LaunchPcs, Results
<1>6. CASE RecvTimesOut(c)
  BY <1>6 DEF RecvTimesOut, Abandoned, LaunchTypeOK, LaunchPcs, Results, Thread
<1>7. QED BY <1>1, <1>2, <1>3, <1>4, <1>5, <1>6 DEF LaunchStep

\* A step of a launch thread keeps the gate's types.
LEMMA ThreadType ==
    ASSUME LaunchTypeOK, NEW t \in threads, ThreadStep(t)
    PROVE  LaunchTypeOK'
<1>1. CASE ThreadReturns(t)
  BY <1>1 DEF ThreadReturns, Deliver, LaunchTypeOK, Thread
<1>2. CASE ThreadEnds(t)
  BY <1>2, DropGuardType DEF ThreadEnds, LaunchTypeOK
<1>3. CASE ThreadPanics(t)
  BY <1>3, DropGuardType DEF ThreadPanics, Deliver, LaunchTypeOK, Thread
<1>4. QED BY <1>1, <1>2, <1>3 DEF ThreadStep

\* Every step keeps the types.
LEMMA TypeStep == HtmlTypeOK /\ [Next]_vars => HtmlTypeOK'
<1> SUFFICES ASSUME LaunchTypeOK, RenderTypeOK, [Next]_vars
             PROVE  LaunchTypeOK' /\ RenderTypeOK'
  BY DEF HtmlTypeOK, RenderTypeOK
<1> USE DEF workVars, proxyVars, pageVars
<1>1. CASE RenderStart
  <2>1. LaunchTypeOK'
    BY <1>1, Constants DEF RenderStart, launchVars, LaunchTypeOK, LaunchPcs
  <2>2. RenderTypeOK'
    BY <1>1 DEF RenderStart, RenderTypeOK, RenderPcs, WorkerPcs, CdpCalls,
                WorkerResults
  <2>3. QED BY <2>1, <2>2
<1>2. CASE SpawnWorker
  <2>1. LaunchTypeOK'
    BY <1>2, Constants DEF SpawnWorker, Return, StartProxy, BeginLaunch, Available,
                           Results, launchVars, LaunchTypeOK, LaunchPcs
  <2>2. RenderTypeOK'
    BY <1>2 DEF SpawnWorker, Return, StartProxy, BeginLaunch, Available, Results,
                RenderTypeOK, RenderPcs, WorkerPcs, CdpCalls, WorkerResults
  <2>3. QED BY <2>1, <2>2
<1>3. CASE WorkerFailed
  <2>1. LaunchTypeOK'
    BY <1>3 DEF WorkerFailed, launchVars, LaunchTypeOK
  <2>2. RenderTypeOK'
    BY <1>3, Constants DEF WorkerFailed, Return, WorkerEnded, RenderTypeOK, RenderPcs,
                           WorkerPcs, CdpCalls, WorkerResults
  <2>3. QED BY <2>1, <2>2
<1>4. CASE Collect
  <2>1. LaunchTypeOK'
    BY <1>4 DEF Collect, launchVars, LaunchTypeOK
  <2>2. RenderTypeOK'
    BY <1>4, Constants DEF Collect, RenderTypeOK, RenderPcs, WorkerPcs, CdpCalls,
                           WorkerResults
  <2>3. QED BY <2>1, <2>2
<1>5. CASE Close
  <2>1. LaunchTypeOK'
    BY <1>5 DEF Close, launchVars, LaunchTypeOK
  <2>2. RenderTypeOK'
    BY <1>5, Constants DEF Close, Return, RenderTypeOK, RenderPcs, WorkerPcs,
                           CdpCalls, WorkerResults
  <2>3. QED BY <2>1, <2>2
<1>6. CASE RenderTimesOut
  <2>1. LaunchTypeOK'
    BY <1>6 DEF RenderTimesOut, launchVars, LaunchTypeOK
  <2>2. RenderTypeOK'
    BY <1>6, Constants DEF RenderTimesOut, RenderTypeOK, RenderPcs, WorkerPcs,
                           CdpCalls, WorkerResults
  <2>3. QED BY <2>1, <2>2
<1>7. CASE WorkerAwaited
  <2>1. LaunchTypeOK'
    BY <1>7 DEF WorkerAwaited, launchVars, LaunchTypeOK
  <2>2. RenderTypeOK'
    BY <1>7, Constants DEF WorkerAwaited, Return, RenderTypeOK, RenderPcs, WorkerPcs,
                           CdpCalls, WorkerResults
  <2>3. QED BY <2>1, <2>2
<1>8. CASE JobEnds
  <2>1. LaunchTypeOK'
    BY <1>8, Constants DEF JobEnds, launchVars, LaunchTypeOK, LaunchPcs
  <2>2. RenderTypeOK'
    BY <1>8 DEF JobEnds, RenderTypeOK, RenderPcs, WorkerPcs, CdpCalls, WorkerResults
  <2>3. QED BY <2>1, <2>2
<1>9. CASE Launched
  <2>1. LaunchTypeOK'
    BY <1>9, Constants DEF Launched, EndLaunch, Results, launchVars, LaunchTypeOK,
                           LaunchPcs
  <2>2. RenderTypeOK'
    BY <1>9 DEF Launched, EndLaunch, Results, RenderTypeOK, RenderPcs, WorkerPcs,
                CdpCalls, WorkerResults
  <2>3. QED BY <2>1, <2>2
<1>10. CASE NewTab
  <2>1. LaunchTypeOK'
    BY <1>10 DEF NewTab, WorkerFrame, launchVars, LaunchTypeOK
  <2>2. wpc' \in WorkerPcs
    BY <1>10 DEF NewTab, StopWorker, WorkerPcs, CdpCalls, WorkerResults
  <2>3. due' \in Nat
    BY <1>10, Constants DEF NewTab, LaunchTypeOK, StopWorker, BeforeCdp, Active,
                            RenderTypeOK, LaunchTypeOK
  <2>4. cancelled' \in BOOLEAN
    BY <1>10, Zenon DEF NewTab, StopWorker, RenderTypeOK
  <2>5. rejected' \in Requests \cup {None} /\ omitted' \subseteq Requests
    BY <1>10 DEF NewTab, StopWorker, RenderTypeOK
  <2>6. QED
    BY <1>10, <2>1, <2>2, <2>3, <2>4, <2>5 DEF NewTab, WorkerFrame, RenderTypeOK
<1>11. CASE Navigate
  <2>1. LaunchTypeOK'
    BY <1>11 DEF Navigate, WorkerFrame, launchVars, LaunchTypeOK
  <2>2. wpc' \in WorkerPcs
    BY <1>11 DEF Navigate, StopWorker, WorkerPcs, CdpCalls, WorkerResults
  <2>3. due' \in Nat
    BY <1>11, Constants DEF Navigate, StopWorker, BeforeCdp, Active, RenderTypeOK
  <2>4. cancelled' \in BOOLEAN
    BY <1>11, Zenon DEF Navigate, StopWorker, RenderTypeOK
  <2>5. rejected' \in Requests \cup {None} /\ omitted' \subseteq Requests
    BY <1>11 DEF Navigate, StopWorker, RenderTypeOK
  <2>6. QED
    BY <1>11, <2>1, <2>2, <2>3, <2>4, <2>5 DEF Navigate, WorkerFrame, RenderTypeOK
<1>12. CASE Load
  <2>1. LaunchTypeOK'
    BY <1>12 DEF Load, WorkerFrame, launchVars, LaunchTypeOK
  <2>2. wpc' \in WorkerPcs
    BY <1>12 DEF Load, StopWorker, WorkerPcs, CdpCalls, WorkerResults
  <2>3. due' \in Nat
    BY <1>12, Constants DEF Load, LaunchTypeOK, StopWorker, BeforeCdp, Active,
                            RenderTypeOK, LaunchTypeOK
  <2>4. cancelled' \in BOOLEAN
    BY <1>12, Zenon DEF Load, StopWorker, RenderTypeOK
  <2>5. rejected' \in Requests \cup {None} /\ omitted' \subseteq Requests
    BY <1>12 DEF Load, StopWorker, RenderTypeOK
  <2>6. QED
    BY <1>12, <2>1, <2>2, <2>3, <2>4, <2>5 DEF Load, WorkerFrame, RenderTypeOK
<1>13. CASE SettleEnds
  <2>1. LaunchTypeOK'
    BY <1>13 DEF SettleEnds, WorkerFrame, launchVars, LaunchTypeOK
  <2>2. wpc' \in WorkerPcs
    BY <1>13 DEF SettleEnds, StopWorker, WorkerPcs, CdpCalls, WorkerResults
  <2>3. due' \in Nat
    BY <1>13, Constants DEF SettleEnds, StopWorker, BeforeCdp, Active, RenderTypeOK
  <2>4. cancelled' \in BOOLEAN
    BY <1>13, Zenon DEF SettleEnds, StopWorker, RenderTypeOK
  <2>5. rejected' \in Requests \cup {None} /\ omitted' \subseteq Requests
    BY <1>13 DEF SettleEnds, StopWorker, RenderTypeOK
  <2>6. QED
    BY <1>13, <2>1, <2>2, <2>3, <2>4, <2>5 DEF SettleEnds, WorkerFrame, RenderTypeOK
<1>14. CASE PrintToPdf
  <2>1. LaunchTypeOK'
    BY <1>14 DEF PrintToPdf, WorkerFrame, launchVars, LaunchTypeOK
  <2>2. wpc' \in WorkerPcs
    BY <1>14 DEF PrintToPdf, StopWorker, WorkerPcs, CdpCalls, WorkerResults
  <2>3. due' \in Nat
    BY <1>14, Constants DEF PrintToPdf, StopWorker, BeforeCdp, Active, RenderTypeOK
  <2>4. cancelled' \in BOOLEAN
    BY <1>14, Zenon DEF PrintToPdf, StopWorker, RenderTypeOK
  <2>5. rejected' \in Requests \cup {None} /\ omitted' \subseteq Requests
    BY <1>14 DEF PrintToPdf, StopWorker, RenderTypeOK
  <2>6. QED
    BY <1>14, <2>1, <2>2, <2>3, <2>4, <2>5 DEF PrintToPdf, WorkerFrame, RenderTypeOK
<1>15. CASE CheckBeforeWrite
  <2>1. LaunchTypeOK'
    BY <1>15 DEF CheckBeforeWrite, WorkerFrame, launchVars, LaunchTypeOK
  <2>2. wpc' \in WorkerPcs
    BY <1>15 DEF CheckBeforeWrite, StopWorker, WorkerPcs, CdpCalls, WorkerResults
  <2>3. due' \in Nat
    BY <1>15, Constants DEF CheckBeforeWrite, StopWorker, BeforeCdp, Active,
                            RenderTypeOK
  <2>4. cancelled' \in BOOLEAN
    BY <1>15, Zenon DEF CheckBeforeWrite, StopWorker, RenderTypeOK
  <2>5. rejected' \in Requests \cup {None} /\ omitted' \subseteq Requests
    BY <1>15 DEF CheckBeforeWrite, StopWorker, RenderTypeOK
  <2>6. QED
    BY <1>15, <2>1, <2>2, <2>3, <2>4, <2>5
       DEF CheckBeforeWrite, WorkerFrame, RenderTypeOK
<1>16. CASE WritePdf
  <2>1. LaunchTypeOK'
    BY <1>16 DEF WritePdf, WorkerFrame, launchVars, LaunchTypeOK
  <2>2. RenderTypeOK'
    BY <1>16, Constants DEF WritePdf, WorkerFrame, RenderTypeOK, RenderPcs, WorkerPcs,
                            CdpCalls, WorkerResults
  <2>3. QED BY <2>1, <2>2
<1>17. CASE CdpFails
  <2>1. LaunchTypeOK'
    BY <1>17 DEF CdpFails, WorkerFrame, launchVars, LaunchTypeOK
  <2>2. RenderTypeOK'
    BY <1>17, Constants DEF CdpFails, WorkerFrame, RenderTypeOK, RenderPcs, WorkerPcs,
                            CdpCalls, WorkerResults
  <2>3. QED BY <2>1, <2>2
<1>18. CASE CdpReturns
  <2>1. LaunchTypeOK'
    BY <1>18 DEF CdpReturns, WorkerFrame, launchVars, LaunchTypeOK
  <2>2. wpc' \in WorkerPcs
    BY <1>18 DEF CdpReturns, StopWorker, WorkerPcs, CdpCalls, WorkerResults
  <2>3. due' \in Nat
    <3>1. due' = 0 \/ due' \in WaitTimes
      BY <1>18, Zenon DEF CdpReturns
    <3>2. \A w \in WaitTimes : w \in Nat
      BY Constants
    <3>3. QED BY <3>1, <3>2
  <2>4. cancelled' \in BOOLEAN
    BY <1>18, Zenon DEF CdpReturns, StopWorker, RenderTypeOK
  <2>5. rejected' \in Requests \cup {None} /\ omitted' \subseteq Requests
    BY <1>18 DEF CdpReturns, StopWorker, RenderTypeOK
  <2>6. QED
    BY <1>18, <2>1, <2>2, <2>3, <2>4, <2>5 DEF CdpReturns, WorkerFrame, RenderTypeOK
<1>19. ASSUME NEW r \in Requests, Handle(r) PROVE LaunchTypeOK' /\ RenderTypeOK'
  <2>1. LaunchTypeOK'
    BY <1>19 DEF Handle, launchVars, LaunchTypeOK
  <2>2. RenderTypeOK'
    BY <1>19 DEF Handle, RenderTypeOK
  <2>3. QED BY <2>1, <2>2
<1>20. ASSUME NEW r \in Requests, Judge(r) PROVE LaunchTypeOK' /\ RenderTypeOK'
  <2>1. LaunchTypeOK'
    BY <1>20 DEF Judge, launchVars, LaunchTypeOK
  <2>2. RenderTypeOK'
    BY <1>20 DEF Judge, RenderTypeOK
  <2>3. QED BY <2>1, <2>2
<1>21. ASSUME NEW c \in Doctors, DoctorStart(c) PROVE LaunchTypeOK' /\ RenderTypeOK'
  <2>1. LaunchTypeOK'
    BY <1>21, Constants DEF DoctorStart, Doctors, BeginLaunch, Available,
                            LaunchTypeOK, LaunchPcs, Results
  <2>2. RenderTypeOK'
    BY <1>21 DEF DoctorStart, renderVars, RenderTypeOK
  <2>3. QED BY <2>1, <2>2
<1>22. ASSUME NEW c \in Doctors, DoctorEnd(c) PROVE LaunchTypeOK' /\ RenderTypeOK'
  <2>1. LaunchTypeOK'
    BY <1>22, Constants DEF DoctorEnd, EndLaunch, Doctors, LaunchTypeOK, LaunchPcs
  <2>2. RenderTypeOK'
    BY <1>22 DEF DoctorEnd, renderVars, RenderTypeOK
  <2>3. QED BY <2>1, <2>2
<1>23. ASSUME NEW c \in Callers, Launch(c) PROVE LaunchTypeOK' /\ RenderTypeOK'
  <2>1. LaunchTypeOK'
    BY <1>23, LaunchType DEF Launch
  <2>2. RenderTypeOK'
    BY <1>23 DEF Launch, renderVars, RenderTypeOK
  <2>3. QED BY <2>1, <2>2
<1>24. CASE LaunchThread
  BY <1>24, ThreadType DEF LaunchThread, renderVars, RenderTypeOK
<1>25. CASE Tick
  <2>1. LaunchTypeOK'
    BY <1>25, Constants DEF Tick, Elapse, LaunchTypeOK
  <2>2. RenderTypeOK'
    BY <1>25 DEF Tick, RenderTypeOK
  <2>3. QED BY <2>1, <2>2
<1>26. CASE UNCHANGED vars
  BY <1>26 DEF vars, launchVars, LaunchTypeOK, RenderTypeOK
<1>27. QED
  BY <1>1, <1>2, <1>3, <1>4, <1>5, <1>6, <1>7, <1>8, <1>9, <1>10, <1>11,
     <1>12, <1>13, <1>14, <1>15, <1>16, <1>17, <1>18, <1>19, <1>20, <1>21,
     <1>22, <1>23, <1>24, <1>25, <1>26
     DEF Next, RenderStep, WorkerStep

-----------------------------------------------------------------------------

(* The gate, for steps of callers and of launch threads. *)

LEMMA DropGuardGate ==
    ASSUME LaunchTypeOK, NEW next \in [Callers -> LaunchPcs], DropGuard(next),
           \A c \in Waiters : next[c] = "wait",
           \A c \in Callers : next[c] \notin {"spawn"},
           \A c \in Callers : next[c] = "wait" => lpc[c] = "wait",
           threads' = {}
    PROVE  GateInv' /\ NoLostSignal'
<1>1. in_progress' = FALSE
  BY DEF DropGuard
<1>2. \A c \in Callers : lpc'[c] # "spawn"
  BY DEF DropGuard, Waiters
<1>3. GateInv'
  BY <1>2 DEF GateInv, OneLaunch
<1>4. CASE Waiters = {}
  <2>1. \A c \in Callers : lpc'[c] # "wait"
    BY <1>4 DEF DropGuard, Waiters
  <2>2. QED BY <1>3, <2>1 DEF NoLostSignal, Waiters
<1>5. CASE Waiters # {}
  <2>1. PICK w \in Waiters : lpc' = [next EXCEPT ![w] = "notified"]
    BY <1>5 DEF DropGuard
  <2>2. w \in Callers /\ lpc'[w] = "notified"
    BY <2>1 DEF Waiters
  <2>3. QED BY <1>3, <2>2 DEF NoLostSignal
<1>6. QED BY <1>4, <1>5

\* A step of a caller keeps the gate exclusive and loses no signal.
LEMMA LaunchGate ==
    ASSUME LaunchTypeOK, GateInv, NoLostSignal, NEW c \in Callers, LaunchStep(c)
    PROVE  GateInv' /\ NoLostSignal'
<1>1. CASE Attempt(c)
  BY <1>1 DEF Attempt, LaunchTypeOK, GateInv, OneLaunch, NoLostSignal, Waiters
<1>2. CASE Acquire(c)
  BY <1>2 DEF Acquire, LaunchTypeOK, GateInv, OneLaunch, NoLostSignal, Waiters
<1>3. CASE WaitTimesOut(c)
  BY <1>3 DEF WaitTimesOut, LaunchTypeOK, GateInv, OneLaunch, NoLostSignal, Waiters
<1>4. CASE Spawn(c)
  <2>1. threads = {} /\ in_progress /\ \A d \in Callers : lpc[d] = "spawn" => d = c
    BY <1>4 DEF Spawn, GateInv
  <2>2. ASSUME NEW x \in {"timeout", "next"}, DropGuard([lpc EXCEPT ![c] = x]),
               UNCHANGED threads
        PROVE  GateInv' /\ NoLostSignal'
    <3>1. [lpc EXCEPT ![c] = x] \in [Callers -> LaunchPcs]
      BY DEF LaunchTypeOK, LaunchPcs, Results
    <3>2. \A d \in Waiters : [lpc EXCEPT ![c] = x][d] = "wait"
      BY <1>4 DEF Spawn, Waiters, LaunchTypeOK
    <3>3. \A d \in Callers : /\ [lpc EXCEPT ![c] = x][d] \notin {"spawn"}
                             /\ [lpc EXCEPT ![c] = x][d] = "wait" => lpc[d] = "wait"
      BY <2>1 DEF LaunchTypeOK
    <3>4. QED BY <2>1, <2>2, <3>1, <3>2, <3>3, DropGuardGate
  <2>3. CASE /\ threads' = threads \cup {[owner |-> c, awaited |-> TRUE, sent |-> FALSE]}
             /\ lpc' = [lpc EXCEPT ![c] = "recv"]
             /\ UNCHANGED in_progress
    BY <2>1, <2>3 DEF LaunchTypeOK, GateInv, OneLaunch, NoLostSignal, Waiters
  <2>4. QED BY <1>4, <2>2, <2>3 DEF Spawn
<1>5. CASE Receive(c)
  BY <1>5 DEF Receive, LaunchTypeOK, GateInv, OneLaunch, NoLostSignal, Waiters
<1>6. CASE RecvTimesOut(c)
  <2>1. OneLaunch' /\ (threads' = {} <=> threads = {})
    BY <1>6 DEF RecvTimesOut, Abandoned, GateInv, OneLaunch
  <2>2. QED
    BY <1>6, <2>1 DEF RecvTimesOut, LaunchTypeOK, GateInv, NoLostSignal, Waiters
<1>7. QED BY <1>1, <1>2, <1>3, <1>4, <1>5, <1>6 DEF LaunchStep

\* A step of a launch thread keeps the gate exclusive and loses no signal.
LEMMA ThreadGate ==
    ASSUME LaunchTypeOK, GateInv, NoLostSignal, NEW t \in threads, ThreadStep(t)
    PROVE  GateInv' /\ NoLostSignal'
<1>1. threads = {t} /\ \A d \in Callers : lpc[d] # "spawn"
  BY DEF GateInv, OneLaunch
<1>2. CASE ThreadReturns(t)
  <2>1. threads' = {[t EXCEPT !.awaited = FALSE, !.sent = TRUE]} /\ in_progress
    BY <1>1, <1>2 DEF ThreadReturns, GateInv
  <2>2. QED BY <1>1, <1>2, <2>1 DEF ThreadReturns, GateInv, OneLaunch, NoLostSignal, Waiters
<1>3. CASE ThreadEnds(t) \/ ThreadPanics(t)
  <2>1. threads' = {} /\ DropGuard(lpc)
    BY <1>1, <1>3 DEF ThreadEnds, ThreadPanics
  <2>2. QED BY <1>1, <2>1, DropGuardGate DEF LaunchTypeOK, Waiters
<1>4. QED BY <1>2, <1>3 DEF ThreadStep

(* Everybody else leaves flag and threads alone, and moves a caller only between *)
(* places outside the gate.                                                      *)
LEMMA QuietGate ==
    ASSUME LaunchTypeOK, GateInv, NoLostSignal, UNCHANGED <<in_progress, threads>>,
           \/ UNCHANGED lpc
           \/ \E c \in Callers, x \in {"idle", "next", "unavailable"} :
                 /\ lpc[c] \in {"idle"} \cup Results
                 /\ lpc' = [lpc EXCEPT ![c] = x]
    PROVE  GateInv' /\ NoLostSignal'
<1>1. CASE UNCHANGED lpc
  BY <1>1 DEF GateInv, OneLaunch, NoLostSignal, Waiters
<1>2. ASSUME NEW c \in Callers, NEW x \in {"idle", "next", "unavailable"},
             lpc[c] \in {"idle"} \cup Results, lpc' = [lpc EXCEPT ![c] = x]
      PROVE  GateInv' /\ NoLostSignal'
  BY <1>2 DEF LaunchTypeOK, Results, GateInv, OneLaunch, NoLostSignal, Waiters
<1>3. QED BY <1>1, <1>2

(* The gate is exclusive and loses no signal in every step of the system. *)
LEMMA GateStep ==
    ASSUME HtmlTypeOK, GateInv, NoLostSignal, RenderInv, [Next]_vars
    PROVE  GateInv' /\ NoLostSignal'
<1> USE TypeParts, Constants
<1>1. CASE UNCHANGED launchVars
  BY <1>1, QuietGate DEF launchVars
<1>2. CASE RenderStart \/ JobEnds \/ Tick
  BY <1>2, QuietGate DEF RenderStart, JobEnds, Tick
<1>3. CASE SpawnWorker
  <2>1. lpc[Html] = "idle"
    BY <1>3 DEF SpawnWorker, RenderInv
  <2>2. CASE UNCHANGED launchVars
    BY <2>2, <1>1
  <2>3. ASSUME NEW n \in Available, BeginLaunch(Html, n)
        PROVE  GateInv' /\ NoLostSignal'
    BY <2>1, <2>3, QuietGate DEF BeginLaunch
  <2>4. QED BY <1>3, <2>2, <2>3 DEF SpawnWorker
<1>4. CASE Launched
  BY <1>4, QuietGate DEF Launched, EndLaunch
<1>5. ASSUME NEW c \in Doctors, DoctorStart(c) PROVE GateInv' /\ NoLostSignal'
  BY <1>5, QuietGate DEF DoctorStart, BeginLaunch, Doctors
<1>6. ASSUME NEW c \in Doctors, DoctorEnd(c) PROVE GateInv' /\ NoLostSignal'
  BY <1>6, QuietGate DEF DoctorEnd, EndLaunch, Doctors
<1>7. ASSUME NEW c \in Callers, Launch(c) PROVE GateInv' /\ NoLostSignal'
  BY <1>7, LaunchGate DEF Launch
<1>8. CASE LaunchThread
  BY <1>8, ThreadGate DEF LaunchThread
<1>9. QED
  BY <1>1, <1>2, <1>3, <1>4, <1>5, <1>6, <1>7, <1>8
     DEF Next, RenderStep, WorkerStep, vars, WorkerFailed, Collect, Close,
         RenderTimesOut, WorkerAwaited, NewTab, Navigate, Load, SettleEnds, PrintToPdf,
         CheckBeforeWrite, WritePdf, CdpFails, CdpReturns, Handle, Judge, WorkerFrame

-----------------------------------------------------------------------------

(* A caller outside the launch code is not moved by the launches of others. *)
LEMMA DropGuardIdle ==
    ASSUME NEW next \in [Callers -> LaunchPcs], DropGuard(next),
           lpc[Html] = "idle", next[Html] = "idle"
    PROVE  lpc'[Html] = "idle"
  BY Constants DEF DropGuard, Waiters

\* A step of a caller does not bring the renderer back from its place outside the gate.
LEMMA LaunchIdle ==
    ASSUME LaunchTypeOK, NEW c \in Callers, LaunchStep(c), lpc[Html] = "idle"
    PROVE  lpc'[Html] = "idle"
<1> USE Constants
<1>1. CASE Spawn(c)
  <2>1. c # Html
    BY <1>1 DEF Spawn
  <2>2. \A x \in {"timeout", "next", "recv"} :
           /\ [lpc EXCEPT ![c] = x] \in [Callers -> LaunchPcs]
           /\ [lpc EXCEPT ![c] = x][Html] = "idle"
    BY <2>1 DEF LaunchTypeOK, LaunchPcs, Results
  <2>3. QED BY <1>1, <2>2, DropGuardIdle DEF Spawn
<1>2. CASE Attempt(c) \/ Acquire(c) \/ WaitTimesOut(c) \/ Receive(c) \/ RecvTimesOut(c)
  BY <1>2 DEF Attempt, Acquire, WaitTimesOut, Receive, RecvTimesOut, LaunchTypeOK
<1>3. QED BY <1>1, <1>2 DEF LaunchStep

\* A step of a launch thread does not bring it back either.
LEMMA ThreadIdle ==
    ASSUME LaunchTypeOK, NEW t \in threads, ThreadStep(t), lpc[Html] = "idle"
    PROVE  lpc'[Html] = "idle"
  BY DropGuardIdle DEF ThreadStep, ThreadReturns, ThreadEnds, ThreadPanics,
                       LaunchTypeOK

(* What render() owns at each of its places. *)
LEMMA RenderInvStep ==
    ASSUME HtmlTypeOK, RenderInv, [Next]_vars
    PROVE  RenderInv'
<1> USE TypeParts, Constants DEF workVars, proxyVars, pageVars, launchVars
<1>1. CASE RenderStart
  BY <1>1 DEF RenderStart, RenderInv
<1>2. CASE SpawnWorker
  BY <1>2 DEF SpawnWorker, Return, StartProxy, RenderInv
<1>3. CASE WorkerFailed
  BY <1>3 DEF WorkerFailed, Return, WorkerEnded, WorkerResults, RenderInv
<1>4. CASE Collect
  BY <1>4 DEF Collect, RenderInv
<1>5. CASE Close
  BY <1>5 DEF Close, Return, RenderInv
<1>6. CASE RenderTimesOut
  BY <1>6 DEF RenderTimesOut, RenderInv
<1>7. CASE WorkerAwaited
  BY <1>7 DEF WorkerAwaited, Return, WorkerEnded, WorkerResults, RenderInv
<1>8. CASE JobEnds
  BY <1>8 DEF JobEnds, RenderInv
<1>9. CASE Launched
  BY <1>9 DEF Launched, EndLaunch, Results, RenderInv, LaunchTypeOK
<1>10. CASE NewTab \/ Navigate \/ Load \/ SettleEnds \/ PrintToPdf \/ CheckBeforeWrite
  BY <1>10 DEF NewTab, Navigate, Load, SettleEnds, PrintToPdf, CheckBeforeWrite,
               StopWorker, WorkerFrame, RenderInv
<1>11. CASE WritePdf
  BY <1>11 DEF WritePdf, WorkerFrame, RenderInv, RenderTypeOK, RenderPcs
<1>12. CASE CdpFails
  BY <1>12 DEF CdpFails, CdpCalls, WorkerFrame, RenderInv
<1>13. CASE CdpReturns
  BY <1>13 DEF CdpReturns, CdpCalls, WorkerFrame, RenderInv
<1>14. ASSUME NEW r \in Requests, Handle(r) \/ Judge(r) PROVE RenderInv'
  BY <1>14 DEF Handle, Judge, RenderInv
<1>15. ASSUME NEW c \in Doctors, DoctorStart(c) \/ DoctorEnd(c) PROVE RenderInv'
  BY <1>15 DEF DoctorStart, DoctorEnd, BeginLaunch, EndLaunch, Doctors, renderVars,
               RenderInv, LaunchTypeOK
<1>16. ASSUME NEW c \in Callers, Launch(c) PROVE RenderInv'
  BY <1>16, LaunchIdle DEF Launch, renderVars, RenderInv
<1>17. CASE LaunchThread
  BY <1>17, ThreadIdle DEF LaunchThread, renderVars, RenderInv
<1>18. CASE Tick
  BY <1>18 DEF Tick, RenderInv
<1>19. CASE UNCHANGED vars
  BY <1>19 DEF vars, RenderInv
<1>20. QED
  BY <1>1, <1>2, <1>3, <1>4, <1>5, <1>6, <1>7, <1>8, <1>9, <1>10, <1>11, <1>12,
     <1>13, <1>14, <1>15, <1>16, <1>17, <1>18, <1>19
     DEF Next, RenderStep, WorkerStep

-----------------------------------------------------------------------------

(* A CDP call begins with the time it may take, and both run down together. *)
LEMMA CdpStep ==
    ASSUME HtmlTypeOK, RenderInv, CdpFitsDeadline, [Next]_vars
    PROVE  CdpFitsDeadline'
<1> USE TypeParts, Constants DEF workVars, proxyVars, pageVars, launchVars
<1>1. CASE wpc' \notin CdpCalls
  BY <1>1 DEF CdpFitsDeadline
<1>2. CASE RenderStart \/ RenderStep
  BY <1>2, RenderInvStep
     DEF RenderStart, RenderStep, SpawnWorker, WorkerFailed, Collect, Close,
         RenderTimesOut, WorkerAwaited, JobEnds, Return, CdpCalls, CdpFitsDeadline, RenderInv
<1>3. CASE NewTab
  BY <1>3 DEF NewTab, BeforeCdp, Active, StopWorker, WorkerFrame, CdpCalls,
              CdpFitsDeadline, LaunchTypeOK
<1>4. CASE Navigate
  BY <1>4 DEF Navigate, BeforeCdp, Active, StopWorker, WorkerFrame, CdpCalls,
              CdpFitsDeadline, LaunchTypeOK
<1>5. CASE Load
  BY <1>5 DEF Load, StopWorker, WorkerFrame, CdpCalls, CdpFitsDeadline, LaunchTypeOK
<1>6. CASE PrintToPdf
  BY <1>6 DEF PrintToPdf, BeforeCdp, Active, StopWorker, WorkerFrame, CdpCalls,
              CdpFitsDeadline, LaunchTypeOK
<1>7. CASE Launched \/ SettleEnds \/ CheckBeforeWrite \/ WritePdf \/ CdpFails \/ CdpReturns
  <2>1. wpc' \notin CdpCalls
    BY <1>7 DEF Launched, Results, SettleEnds, CheckBeforeWrite, WritePdf, CdpFails,
                CdpReturns, StopWorker, CdpCalls
  <2>2. QED BY <2>1, <1>1
<1>8. ASSUME NEW r \in Requests, Handle(r) \/ Judge(r) PROVE CdpFitsDeadline'
  BY <1>8 DEF Handle, Judge, CdpFitsDeadline
<1>9. ASSUME NEW c \in Doctors, DoctorStart(c) \/ DoctorEnd(c) PROVE CdpFitsDeadline'
  BY <1>9 DEF DoctorStart, DoctorEnd, Doctors, renderVars, CdpFitsDeadline,
              LaunchTypeOK
<1>10. ASSUME NEW c \in Callers, Launch(c) PROVE CdpFitsDeadline'
  BY <1>10 DEF Launch, LaunchStep, Attempt, Acquire, WaitTimesOut, Spawn, Receive,
               RecvTimesOut, renderVars, CdpFitsDeadline
<1>11. CASE LaunchThread
  BY <1>11 DEF LaunchThread, ThreadStep, ThreadReturns, ThreadEnds, ThreadPanics,
               renderVars, CdpFitsDeadline
<1>12. CASE Tick
  BY <1>12 DEF Tick, Elapse, CdpFitsDeadline, LaunchTypeOK, RenderTypeOK
<1>13. CASE UNCHANGED vars
  BY <1>13 DEF vars, CdpFitsDeadline
<1>14. QED
  BY <1>2, <1>3, <1>4, <1>5, <1>6, <1>7, <1>8, <1>9, <1>10, <1>11, <1>12, <1>13
     DEF Next, WorkerStep

-----------------------------------------------------------------------------

(* The tracker and the PDF.  Steps that leave the page, the requests and the     *)
(* places alone keep PageInv.                                                    *)
LEMMA QuietPage ==
    ASSUME PageInv, UNCHANGED <<rpc, result, wpc, reqs, rejected, omitted, file>>
    PROVE  PageInv'
  BY DEF PageInv, BeforePage, PageLive, AfterExport

\* Every step keeps what is known of the page.
LEMMA PageStep ==
    ASSUME HtmlTypeOK, RenderInv, PageInv, [Next]_vars
    PROVE  PageInv'
<1> USE TypeParts, Constants DEF workVars, proxyVars, pageVars
<1> USE DEF PageInv, BeforePage, PageLive, AfterExport
<1>1. CASE RenderStart
  BY <1>1 DEF RenderStart, RenderInv
<1>2. CASE SpawnWorker
  BY <1>2 DEF SpawnWorker, Return, StartProxy, RenderInv
<1>3. CASE WorkerFailed
  BY <1>3 DEF WorkerFailed, Return, RenderInv
<1>4. CASE Collect
  BY <1>4 DEF Collect, RenderInv
<1>5. CASE Close
  BY <1>5 DEF Close, Return, RenderInv
<1>6. CASE RenderTimesOut
  BY <1>6 DEF RenderTimesOut, RenderInv
<1>7. CASE WorkerAwaited
  BY <1>7 DEF WorkerAwaited, Return, RenderInv
<1>8. CASE JobEnds
  BY <1>8 DEF JobEnds, RenderInv
<1>9. CASE Launched
  BY <1>9 DEF Launched, Results, RenderInv
<1>10. CASE NewTab \/ Load \/ SettleEnds \/ PrintToPdf \/ CheckBeforeWrite
  BY <1>10 DEF NewTab, Load, SettleEnds, PrintToPdf, CheckBeforeWrite, StopWorker,
               WorkerFrame, RenderInv
<1>11. CASE Navigate
  BY <1>11 DEF Navigate, StopWorker, WorkerFrame, RenderInv
<1>12. CASE WritePdf
  BY <1>12 DEF WritePdf, WorkerFrame, RenderInv
<1>13. CASE CdpFails
  BY <1>13 DEF CdpFails, CdpCalls, WorkerFrame, RenderInv
<1>14. CASE CdpReturns
  BY <1>14 DEF CdpReturns, CdpCalls, WorkerFrame, RenderInv
<1>15. ASSUME NEW r \in Requests, Handle(r) PROVE PageInv'
  BY <1>15 DEF Handle, RenderInv, RenderTypeOK
<1>16. ASSUME NEW r \in Requests, Judge(r) PROVE PageInv'
  BY <1>16 DEF Judge, RenderInv, RenderTypeOK
<1>17. CASE \/ \E c \in Doctors : DoctorStart(c) \/ DoctorEnd(c)
            \/ \E c \in Callers : Launch(c)
            \/ LaunchThread
            \/ Tick
            \/ UNCHANGED vars
  BY <1>17, QuietPage DEF DoctorStart, DoctorEnd, Launch, LaunchThread, Tick, vars,
                          renderVars
<1>18. QED
  BY <1>1, <1>2, <1>3, <1>4, <1>5, <1>6, <1>7, <1>8, <1>9, <1>10, <1>11, <1>12,
     <1>13, <1>14, <1>15, <1>16, <1>17
     DEF Next, RenderStep, WorkerStep

-----------------------------------------------------------------------------

\* The invariant holds initially.
LEMMA InitInv == Init => HtmlInv
<1> SUFFICES ASSUME Init PROVE HtmlInv
  OBVIOUS
<1>1. HtmlTypeOK
  BY InitType
<1>2. GateInv /\ NoLostSignal
  BY DEF Init, LaunchInit, GateInv, OneLaunch, NoLostSignal, Waiters
<1>3. RenderInv /\ CdpFitsDeadline
  BY Constants DEF Init, LaunchInit, RenderInv, CdpFitsDeadline, CdpCalls
<1>4. PageInv
  BY DEF Init, PageInv, BeforePage, PageLive, AfterExport
<1>5. QED BY <1>1, <1>2, <1>3, <1>4 DEF HtmlInv

\* The invariant is inductive.
LEMMA HtmlInvStep == HtmlInv /\ [Next]_vars => HtmlInv'
  BY TypeStep, GateStep, RenderInvStep, CdpStep, PageStep DEF HtmlInv

(* The conjunction of all of the above holds in every state of the renderer. *)
THEOREM HtmlInvariant == HtmlSpec => []HtmlInv
  BY InitInv, HtmlInvStep, PTL DEF HtmlSpec

(* Types of the renderer's and the launcher's state. *)
THEOREM RenderTypes == HtmlSpec => []HtmlTypeOK
<1>1. HtmlInv => HtmlTypeOK
  BY DEF HtmlInv
<1>2. QED BY <1>1, HtmlInvariant, PTL

(* One browser is being started at a time, however many callers there are and     *)
(* however many of them gave up: BrowserLaunchGuard stays with the launch thread. *)
THEOREM LaunchesExclusive == HtmlSpec => []OneLaunch
<1>1. HtmlInv => OneLaunch
  BY DEF HtmlInv, GateInv
<1>2. QED BY <1>1, HtmlInvariant, PTL

(* notify_one on dropping the guard suffices for any number of waiters that may   *)
(* time out or be overtaken.                                                      *)
THEOREM SignalNeverLost == HtmlSpec => []NoLostSignal
<1>1. HtmlInv => NoLostSignal
  BY DEF HtmlInv
<1>2. QED BY <1>1, HtmlInvariant, PTL

(* The counts given to before_cdp_operations keep every CDP call before the       *)
(* deadline, for every deadline and every timeout of a request.                   *)
THEOREM CdpEndsInTime == HtmlSpec => []CdpFitsDeadline
<1>1. HtmlInv => CdpFitsDeadline
  BY DEF HtmlInv
<1>2. QED BY <1>1, HtmlInvariant, PTL

(* Whatever step the deadline strikes, render() and process_html_job leave no      *)
(* file, worker, launch or proxy behind.                                           *)
THEOREM NothingLeft == HtmlSpec => []RenderLeavesNothing
<1>1. HtmlInv => RenderLeavesNothing
  BY DEF HtmlInv, RenderInv, RenderLeavesNothing
<1>2. QED BY <1>1, HtmlInvariant, PTL

(* No PDF is printed that was exported after a request of its page was rejected,   *)
(* for any requests in any order.                                                  *)
THEOREM PrintedUnblocked == HtmlSpec => []PdfUnblocked
<1>1. HtmlInv => PdfUnblocked
  BY DEF HtmlInv, PageInv, PdfUnblocked
<1>2. QED BY <1>1, HtmlInvariant, PTL
=============================================================================
