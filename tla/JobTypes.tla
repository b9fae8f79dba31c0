------------------------------ MODULE JobTypes ------------------------------
(***************************************************************************)
(* Print jobs as clients and the remote service submit them                *)
(* (crates/core/src/protocol.rs), with the data abstracted to what the     *)
(* queue, the worker and the remote store tell apart.                      *)
(***************************************************************************)
EXTENDS Naturals

CONSTANTS JobIds,     \* job_id values
          BatchIds,   \* batch_id values
          None        \* Option::None

ASSUME NoneAssumption == None \notin JobIds /\ None \notin BatchIds

\* SupportedFormat, one member per path through the worker: html and raw-html
\* share one, png/jpg/jpeg/image another, docx/xlsx/pptx a third.
Formats == {"html", "raw", "pdf", "image", "office"}

\* A PrintJobInput.  `printer` and `paper` say whether the field is given,
\* `copies` is copies.unwrap_or(1), `size` the length of the raw data or inline
\* HTML and `well_formed` that the fields fit the format.
PrintJobInput ==
    [job_id: JobIds, format: Formats, printer: BOOLEAN, paper: BOOLEAN,
     copies: Nat, size: Nat, well_formed: BOOLEAN]

\* PrintJobInput::validate_for_acceptance: the size limit holds for the two
\* formats that carry their content inline.
ValidForAcceptance(job, max_file_size) ==
    /\ job.well_formed
    /\ job.format \in {"raw", "html"} => job.size =< max_file_size
=============================================================================
