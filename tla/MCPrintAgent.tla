---------------------------- MODULE MCPrintAgent ----------------------------
(* PrintAgent on small sets of jobs, clients and configurations.            *)
EXTENDS PrintAgent

CONSTANTS j1, j2

Job(id, fmt, length) ==
    [job_id |-> id, format |-> fmt, printer |-> FALSE, paper |-> FALSE,
     copies |-> 1, size |-> length, well_formed |-> TRUE]

\* Every path through the worker, both ids offered with different contents; the
\* raw job names its own printer and the office job asks for two copies.
MCInputs ==
    {Job(j1, "pdf", 0), Job(j1, "html", 1),
     [Job(j2, "raw", 2) EXCEPT !.printer = TRUE],
     [Job(j2, "office", 0) EXCEPT !.copies = 2]}

\* Two jobs that compete with calibration prints for the print lock.
MCInputsLive == {Job(j1, "pdf", 0), [Job(j2, "raw", 2) EXCEPT !.printer = TRUE]}

Remote == [enabled |-> FALSE, accepted |-> TRUE, max_report_retries |-> 1]

Config(printer, most_copies, most_bytes) ==
    [default_printer |-> printer, default_paper |-> TRUE, max_copies |-> most_copies,
     max_file_size |-> most_bytes, max_batch_jobs |-> 2, remote |-> Remote]

\* The second one has lost its default printer and lowered its limits.
MCConfigs == {Config(TRUE, 2, 2), Config(FALSE, 1, 1)}
=============================================================================
