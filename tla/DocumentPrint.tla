---------------------------- MODULE DocumentPrint ----------------------------
(***************************************************************************)
(* One file or raw job between its download and the system's print queue   *)
(* (print_downloaded_file and print_raw_job of crates/runtime/src/         *)
(* queue.rs, crates/runtime/src/document.rs): the content is checked and   *)
(* turned into a PDF, by OfficeConvert for an Office document, and         *)
(* PrintBackend prints it.                                                 *)
(***************************************************************************)
EXTENDS OfficeConvert, PrintBackend

VARIABLE job   \* the job's declared kind and what its bytes are, and its step

vars == <<host, office, backend, job>>

Kinds == {"pdf", "image", "office", "raw"}

DocumentInit ==
    /\ HostInit /\ OfficeInit /\ BackendInit
    /\ job = [pc |-> "new", kind |-> None, bytes |-> None]

Only(next) == job' = next /\ UNCHANGED <<host, office, backend>>

\* detect_format and detect_office_format: the magic bytes, or the parts of the
\* archive, against the declared format.
format_matches(kind, content) == kind = content

Receive ==
    /\ job.pc = "new"
    /\ \E kind, content \in Kinds : Only([pc |-> "check", kind |-> kind, bytes |-> content])

\* Raw data is not inspected.
CheckFormat ==
    /\ job.pc = "check"
    /\ IF job.kind # "raw" /\ ~format_matches(job.kind, job.bytes)
       THEN Only([job EXCEPT !.pc = "done"])
       ELSE CASE job.kind = "raw" ->
                   /\ job' = [job EXCEPT !.pc = "print"]
                   /\ Call("raw")
                   /\ UNCHANGED <<host, office, prefs, bytes, spool>>
              [] job.kind = "office" ->
                   /\ job' = [job EXCEPT !.pc = "convert"]
                   /\ conv' = [conv EXCEPT !.pc = "prepare"]
                   /\ UNCHANGED <<host, child, procs, record, starts, ended, window, backend>>
              [] OTHER -> Only([job EXCEPT !.pc = "normalize"])

\* normalize_pdf_path copies, image_to_pdf writes a page.
Normalize ==
    /\ job.pc = "normalize"
    /\ out' = [kind |-> "pdf", by |-> job.kind]
    /\ job' = [job EXCEPT !.pc = "print"]
    /\ Call("printers")
    /\ UNCHANGED <<platform, work, temp, faults, office, prefs, bytes, spool>>

\* The image does not decode or has no area; or a write is cut off, and what it
\* wrote stays.
NormalizeFails ==
    /\ job.pc = "normalize"
    /\ \/ job.kind = "image" /\ UNCHANGED <<out, faults>>
       \/ Fault /\ out' \in {NoFile, [kind |-> "junk", by |-> job.kind]}
    /\ job' = [job EXCEPT !.pc = "done"]
    /\ UNCHANGED <<platform, work, temp, office, backend>>

Converted ==
    /\ job.pc = "convert" /\ conv.pc = "done"
    /\ IF conv.result = "ok"
       THEN /\ job' = [job EXCEPT !.pc = "print"]
            /\ Call("printers")
       ELSE /\ job' = [job EXCEPT !.pc = "done"]
            /\ UNCHANGED print
    /\ UNCHANGED <<host, office, prefs, bytes, spool>>

\* The PDF is removed after the call, however it ended.
PrintReturns ==
    /\ job.pc = "print" /\ Printed
    /\ job' = [job EXCEPT !.pc = "done"]
    /\ out' = NoFile
    /\ UNCHANGED <<platform, work, temp, faults, office, backend>>

JobStep == Receive \/ CheckFormat \/ Normalize \/ NormalizeFails \/ Converted \/ PrintReturns

DocumentNext ==
    \/ JobStep
    \/ job.pc = "convert" /\ OfficeNext /\ UNCHANGED <<backend, job>>
    \/ job.pc = "print" /\ BackendNext /\ UNCHANGED <<office, job>>
    \/ job.pc = "done" /\ AppWrites /\ UNCHANGED <<backend, job>>

\* The agent's own steps and timers run; nothing is assumed of the scripts, the
\* applications, the printing tools and the user.
DocumentSpec ==
    /\ DocumentInit /\ [][DocumentNext]_vars
    /\ WF_vars(Convert /\ UNCHANGED <<backend, job>>)
-----------------------------------------------------------------------------
(* Properties *)

\* When nothing failed that the code cannot help (I/O errors, a tool that was cut
\* off, an application left with the document open), a job leaves neither the
\* conversion directory nor a PDF nor the file of raw data behind, however its
\* conversion and its print ended.
LeavesNothing ==
    (job.pc = "done" /\ faults = 0 /\ ~conv.left) => ~work /\ ~temp /\ out = NoFile
=============================================================================
