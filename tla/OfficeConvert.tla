---------------------------- MODULE OfficeConvert ----------------------------
(***************************************************************************)
(* One conversion of an Office document to PDF (crates/runtime/src/        *)
(* office.rs and office/): the converters tried in order, the child        *)
(* process of each with its time limit, and the applications on the        *)
(* desktop, the user's own among them.                                     *)
(***************************************************************************)
EXTENDS Host

CONSTANTS Pids,      \* process ids, which the system uses again
          MaxStarts  \* bound on processes started


Com == {"Microsoft", "Wps"}

\* A process is known by its id and its start time.
Instances == [pid: Pids, start: Nat, name: Com \cup {"LibreOffice"}]

ASSUME OfficeAssumption == MaxStarts \in Nat /\ None \notin Instances

VARIABLES conv,    \* office_to_pdf: pc, the converter under way, the result
          child,   \* the script or launcher the converter runs as
          procs,   \* the office applications that run
          record,  \* the instance record of the provider under way
          starts,  \* number of processes started; the last start time
          ended,   \* the user's applications that the conversion has ended
          window   \* the user's applications started while a script activates one

office == <<conv, child, procs, record, starts, ended, window>>

Providers == IF Windows THEN <<"Microsoft", "Wps", "LibreOffice">> ELSE <<"LibreOffice">>
Provider == Providers[conv.at]

NoChild == [pc |-> "none", app |-> None, snapshot |-> {}, owns |-> FALSE, code |-> 0]

Exits(code) == [NoChild EXCEPT !.pc = "exit", !.code = code]
Quits(code) == [child EXCEPT !.pc = "quit", !.code = code]

OfficeInit ==
    /\ conv = [pc |-> "idle", at |-> 1, result |-> "none", by |-> None, left |-> FALSE]
    /\ child = NoChild
    /\ procs = {} /\ record = None
    /\ starts = 0 /\ ended = {} /\ window = {}

Instance(p) == [pid |-> p.pid, start |-> p.start, name |-> p.name]
Running(i) == {p \in procs : Instance(p) = i}

NewProcess(name, user, opens) ==
    {[pid |-> n, start |-> starts + 1, name |-> name, user |-> user, open |-> opens] :
        n \in {k \in Pids : starts < MaxStarts /\ \A p \in procs : p.pid # k}}
-----------------------------------------------------------------------------
(* office_to_pdf: from the staged copy to the result *)

\* The work directory with the staged copy.  The two removals before it find
\* nothing: the path holds a fresh UUID.
Prepare ==
    /\ conv.pc = "prepare"
    /\ work' = TRUE
    /\ conv' = [conv EXCEPT !.pc = "next"]
    /\ UNCHANGED <<platform, out, temp, faults, child, procs, record, starts, ended, window>>

\* The directory or the copy cannot be made; what was made is removed.
PrepareFails ==
    /\ conv.pc = "prepare" /\ Fault
    /\ conv' = [conv EXCEPT !.pc = "done", !.result = "err"]
    /\ UNCHANGED <<platform, work, out, temp, child, procs, record, starts, ended, window>>

ConvertFailed == [conv EXCEPT !.pc = "clean", !.result = "err"]

\* MUTANT: the next converter is tried after any failure.
AfterFailure_AnyNext(unavailable) ==
    IF conv.at < Len(Providers)
    THEN [conv EXCEPT !.pc = "next", !.at = @ + 1] ELSE ConvertFailed

\* Only a converter that is unavailable hands over to the next one.
AfterFailure(unavailable) ==
    IF unavailable /\ conv.at < Len(Providers)
    THEN [conv EXCEPT !.pc = "next", !.at = @ + 1] ELSE ConvertFailed

\* The executable is found and started.
Spawn ==
    /\ conv.pc = "next"
    /\ conv' = [conv EXCEPT !.pc = "wait"]
    /\ child' = [NoChild EXCEPT !.pc = IF Provider \in Com THEN "snapshot" ELSE "launch"]
    /\ record' = None
    /\ UNCHANGED <<host, procs, starts, ended, window>>

\* It is not there (NotFound, or find_libreoffice), or starting it fails.
SpawnMissing ==
    /\ conv.pc = "next"
    /\ conv' = AfterFailure(TRUE)
    /\ UNCHANGED <<host, child, procs, record, starts, ended, window>>

SpawnFails ==
    /\ conv.pc = "next" /\ Fault
    /\ conv' = AfterFailure(FALSE)
    /\ UNCHANGED <<platform, work, out, temp, child, procs, record, starts, ended, window>>

\* A LibreOffice process that outlives its launcher keeps the output pipes open.
PipesHeld == \E p \in procs : p.name = "LibreOffice" /\ ~p.user

validate_pdf == out.kind = "pdf"

\* child.wait() and the two readers have ended.  Only the scripts say by their exit
\* code that their application is unavailable.
Collect ==
    /\ conv.pc = "wait" /\ child.pc = "exit" /\ ~PipesHeld
    /\ conv' =
        IF child.code = 0 /\ validate_pdf
        THEN [conv EXCEPT !.pc = "clean", !.result = "ok", !.by = Provider]
        ELSE AfterFailure(child.code = 2 /\ Provider \in Com)
    /\ UNCHANGED <<host, child, procs, record, starts, ended, window>>

\* MUTANT: the child is waited for without a limit.
WaitTimesOut_Never == FALSE /\ UNCHANGED <<host, office>>

\* OFFICE_CONVERSION_TIMEOUT.
WaitTimesOut ==
    /\ conv.pc = "wait" /\ child.pc # "exit"
    /\ conv' = [conv EXCEPT !.pc = IF Provider \in Com THEN "cleanup" ELSE "grace"]
    /\ UNCHANGED <<host, child, procs, record, starts, ended, window>>

\* MUTANT: the process id alone decides.
CleanupScript_ByPid ==
    /\ conv.pc = "cleanup"
    /\ LET owned == {p \in procs : record # None /\ p.pid = record.pid}
       IN  procs' = procs \ owned /\ ended' = ended \cup {p \in owned : p.user}
    /\ conv' = [conv EXCEPT !.pc = "grace"]
    /\ UNCHANGED <<host, child, record, starts, window>>

\* TIMEOUT_CLEANUP_SCRIPT, while the script it cleans up after still runs.
CleanupScript ==
    /\ conv.pc = "cleanup"
    /\ LET owned == {p \in procs : Instance(p) = record}
       IN  procs' = procs \ owned /\ ended' = ended \cup {p \in owned : p.user}
    /\ conv' = [conv EXCEPT !.pc = "grace"]
    /\ UNCHANGED <<host, child, record, starts, window>>

\* It fails or is cut off after TIMEOUT_CLEANUP_TIMEOUT.
CleanupFails ==
    /\ conv.pc = "cleanup" /\ Fault
    /\ conv' = [conv EXCEPT !.pc = "grace"]
    /\ UNCHANGED <<platform, work, out, temp, child, procs, record, starts, ended, window>>

\* The child ends within CONVERTER_EXIT_GRACE or is killed: TimedOut either way.
GraceEnds ==
    /\ conv.pc = "grace"
    /\ child' = Exits(child.code)
    /\ conv' = AfterFailure(FALSE)
    /\ UNCHANGED <<host, procs, record, starts, ended, window>>

\* Windows does not remove a directory with a document an application has open.
InUse == Windows /\ \E p \in procs : p.open

\* What nothing looks at after the conversion is forgotten: the child, the records
\* in the directory, and the applications without the document.
Forget ==
    /\ child' = NoChild /\ record' = None
    /\ procs' = {p \in procs : p.open} /\ starts' = 0
    /\ ended' = {} /\ window' = {}

Done(result) ==
    [conv EXCEPT !.pc = "done", !.result = result, !.left = \E p \in procs : p.open]

\* MUTANT: the output of a failed conversion stays.
Clean_KeepOutput ==
    /\ conv.pc = "clean"
    /\ work' = InUse
    /\ conv' = Done(IF InUse THEN "err" ELSE conv.result)
    /\ Forget
    /\ UNCHANGED <<platform, out, temp, faults>>

\* The directory is removed, and the output too unless the conversion succeeded.
\* A directory that cannot be removed makes an error of a success.
Clean ==
    /\ conv.pc = "clean"
    /\ work' = InUse
    /\ conv' = Done(IF InUse THEN "err" ELSE conv.result)
    /\ out' = IF conv'.result = "ok" THEN out ELSE NoFile
    /\ Forget
    /\ UNCHANGED <<platform, temp, faults>>

CleanFails ==
    /\ conv.pc = "clean" /\ Fault
    /\ conv' = Done("err")
    /\ out' = NoFile
    /\ Forget
    /\ UNCHANGED <<platform, work, temp>>

Convert ==
    \/ Prepare \/ Spawn \/ SpawnMissing \/ Collect \/ WaitTimesOut \/ CleanupScript
    \/ GraceEnds \/ Clean

ConvertFails == PrepareFails \/ SpawnFails \/ CleanupFails \/ CleanFails
-----------------------------------------------------------------------------
(* POWERSHELL_SCRIPT *)

ChildOnly(next) ==
    /\ child' = next
    /\ UNCHANGED <<host, conv, procs, record, starts, ended, window>>

Snapshot ==
    /\ child.pc = "snapshot"
    /\ ChildOnly([child EXCEPT !.pc = "activate", !.snapshot = {Instance(p) : p \in procs}])

\* New-Object -ComObject: a new process, or the user's one that serves the class.
ActivateNew ==
    /\ child.pc = "activate"
    /\ \E p \in NewProcess(Provider, FALSE, FALSE) :
        /\ procs' = procs \cup {p}
        /\ child' = [child EXCEPT !.pc = "prove", !.app = Instance(p)]
    /\ starts' = starts + 1
    /\ UNCHANGED <<host, conv, record, ended, window>>

ActivateReuse ==
    /\ child.pc = "activate"
    /\ \E p \in procs : p.name = Provider /\ ChildOnly([child EXCEPT !.pc = "prove", !.app = Instance(p)])

ActivateFails == child.pc = "activate" /\ ChildOnly(Exits(2))

\* The process behind the window is one that did not run at the snapshot: it is
\* recorded, then owned.
Prove ==
    /\ child.pc = "prove" /\ child.app \notin child.snapshot
    /\ record' = child.app
    /\ child' = [child EXCEPT !.pc = "secure", !.owns = TRUE, !.snapshot = {}]
    /\ UNCHANGED <<host, conv, procs, starts, ended, window>>

\* It ran before, or its window or the record cannot be had.
ProveFails == child.pc = "prove" /\ ChildOnly(Exits(2))

\* The security settings are refused.
SecureFails == child.pc = "secure" /\ ChildOnly(Quits(2))

\* The document is opened and exported by the application.
Open ==
    /\ child.pc = "secure"
    /\ Running(child.app) # {}
    /\ procs' = {IF Instance(p) = child.app THEN [p EXCEPT !.open = TRUE] ELSE p : p \in procs}
    /\ child' = [child EXCEPT !.pc = "export"]
    /\ UNCHANGED <<host, conv, record, starts, ended, window>>

\* The call fails, or its application has gone.
ExportFails == child.pc \in {"secure", "export"} /\ ChildOnly(Quits(1))

\* The finally block: an owned application is told to quit.
Quit ==
    /\ child.pc = "quit"
    /\ LET owned == {p \in Running(child.app) : child.owns}
       IN  procs' = procs \ owned /\ ended' = ended \cup {p \in owned : p.user}
    /\ child' = Exits(child.code)
    /\ UNCHANGED <<host, conv, record, starts, window>>

QuitFails ==
    /\ child.pc = "quit" /\ Fault
    /\ child' = Exits(child.code)
    /\ UNCHANGED <<platform, work, out, temp, conv, procs, record, starts, ended, window>>
-----------------------------------------------------------------------------
(* libreoffice::convert: a launcher and the process that converts *)

Launch ==
    /\ child.pc = "launch"
    /\ \E p \in NewProcess("LibreOffice", FALSE, TRUE) :
        /\ procs' = procs \cup {p}
        /\ child' = [child EXCEPT !.pc = "export", !.app = Instance(p), !.owns = TRUE]
    /\ starts' = starts + 1
    /\ UNCHANGED <<host, conv, record, ended, window>>

\* It ends with code 0 although it wrote nothing.
LaunchSkips ==
    /\ child.pc = "export" /\ conv.pc = "wait" /\ Provider = "LibreOffice"
    /\ ChildOnly(Quits(0))

\* The launcher ends and leaves the other process behind.
LauncherDies ==
    /\ child.pc = "export" /\ conv.pc = "wait" /\ Provider = "LibreOffice" /\ Fault
    /\ child' = Exits(1)
    /\ UNCHANGED <<platform, work, out, temp, conv, procs, record, starts, ended, window>>

ChildStep ==
    \/ Snapshot \/ ActivateNew \/ ActivateReuse \/ ActivateFails
    \/ Prove \/ ProveFails \/ SecureFails \/ Open \/ ExportFails \/ Quit \/ QuitFails
    \/ Launch \/ LaunchSkips \/ LauncherDies
-----------------------------------------------------------------------------
(* The applications and the user *)

\* An application writes the document it has open, also when nobody waits for it
\* any more.
AppWrites ==
    \E p \in procs, kind \in {"pdf", "junk"} :
        /\ p.open
        /\ out' = [kind |-> kind, by |-> p.name]
        /\ procs' = (procs \ {p}) \cup {[p EXCEPT !.open = FALSE]}
        /\ child' = IF child.pc = "export" /\ child.app = Instance(p) THEN Quits(0) ELSE child
        /\ UNCHANGED <<platform, work, temp, faults, conv, record, starts, ended, window>>

\* One that was left behind ends by itself.
AppExits ==
    /\ child.pc = "exit" /\ conv.pc # "done"
    /\ \E p \in procs : ~p.user /\ procs' = procs \ {p}
    /\ UNCHANGED <<host, conv, child, record, starts, ended, window>>

UserStarts ==
    /\ Windows /\ conv.pc # "done"
    /\ \E name \in Com : \E p \in NewProcess(name, TRUE, FALSE) :
        /\ procs' = procs \cup {p}
        /\ window' = IF child.pc = "activate" THEN window \cup {Instance(p)} ELSE window
    /\ starts' = starts + 1
    /\ UNCHANGED <<host, conv, child, record, ended>>

\* The user ends an application, the conversion's included.
UserCloses ==
    /\ conv.pc # "done"
    /\ \E p \in procs : procs' = procs \ {p}
    /\ UNCHANGED <<host, conv, child, record, starts, ended, window>>

OfficeNext == Convert \/ ConvertFails \/ ChildStep \/ AppWrites \/ AppExits \/ UserStarts \/ UserCloses
-----------------------------------------------------------------------------
(* Properties *)

\* No application the user runs is closed or killed: not one that COM handed to
\* the script, not one that got the process id of an application that has gone.
\* Only one the user starts in the moment between the script's snapshot and its
\* activation may be taken for the script's own.
UserAppsKept == \A p \in ended : Instance(p) \in window

\* A conversion that succeeds has a PDF that the converter it names wrote, and
\* nothing of another one.
PdfIsConverted ==
    (conv.pc = "done" /\ conv.result = "ok" /\ out # NoFile) =>
        out = [kind |-> "pdf", by |-> conv.by]

\* The conversion returns, whatever the scripts, the applications and the user
\* do, unless a process LibreOffice left behind keeps its output pipes open.
ConversionEnds == (conv.pc \notin {"idle", "done"}) ~> (conv.pc = "done" \/ PipesHeld)
=============================================================================
