---------------------------- MODULE PrintBackend ----------------------------
(***************************************************************************)
(* The printing backends (crates/runtime/src/printing/): one call of       *)
(* print_pdf or print_raw, on Windows through SumatraPDF and the RAW       *)
(* spooler, elsewhere through the CUPS command line.  Lengths are in       *)
(* hundredths of a millimetre.                                             *)
(***************************************************************************)
EXTENDS Host, Integers

CONSTANTS Forms,     \* the forms of the Windows driver, in the order EnumForms has
          Choices,   \* the media choices lpoptions lists, in its order
          Requests,  \* the papers a job may ask for
          FormBytes  \* the sizes the driver's form list may have, in bytes

Orientations == {"portrait", "landscape"}
Sizes == [width: Nat, height: Nat]

\* A media token of CUPS: a well-known name, or two numbers with or without a
\* unit, and whether it starts with "Custom.".
Tokens == [known: Sizes \cup {None}, width: Nat, height: Nat,
           unit: {"in", "mm", None}, custom: BOOLEAN]

\* CUPS lists a custom size with its unit and without a name, or as the mere
\* pattern Custom.WIDTHxHEIGHT; it would take numbers without a unit for points.

ASSUME BackendAssumption ==
    /\ Forms \in Seq([size: Sizes, physical: Sizes, kind: Int])
    /\ Choices \in Seq(Tokens)
    /\ \A i \in DOMAIN Choices :
         Choices[i].custom =>
             Choices[i].known = None /\ (Choices[i].width = 0 \/ Choices[i].unit # None)
    /\ Requests \subseteq Sizes
    /\ None \notin Orientations

VARIABLES print,   \* the call: its step, what it is for, what it has read
          prefs,   \* the user's default orientation in the driver
          bytes,   \* the size of the driver's form list now
          spool    \* the documents handed to the system

backend == <<print, prefs, bytes, spool>>

NoPrint == [pc |-> "idle", paper |-> None, papers |-> <<>>, read_with |-> None,
            capacity |-> 0, queries |-> 0, tracked |-> "none", result |-> "none"]

First(S) == CHOOSE i \in S : \A j \in S : i <= j

BackendInit ==
    /\ print = NoPrint
    /\ prefs = "portrait" /\ bytes = First(FormBytes)
    /\ spool = <<>>

Printed == print.pc = "done"
Within(a, b, d) == (IF a > b THEN a - b ELSE b - a) < d
Flip(p) == [width |-> p.height, height |-> p.width]
-----------------------------------------------------------------------------
(* Papers on Windows *)

\* What CreateIC and GetDeviceCaps report for a paper kind under the given
\* preferences (external): the first form of the kind, turned in landscape.
Physical(kind, orientation) ==
    LET f == Forms[First({i \in DOMAIN Forms : Forms[i].kind = kind})]
    IN  IF orientation = "landscape" THEN Flip(f.physical) ELSE f.physical

\* MUTANT: the size of the form is believed.
windows_physical_paper_dimensions_Nominal(form, physical) == {form}

\* The size of the form, turned when the measured page is closer to that.
windows_physical_paper_dimensions(form, physical) ==
    LET Near(p, d) == Within(p.width, physical.width, d) /\ Within(p.height, physical.height, d)
        closer == \A d \in 1 .. 100 : Near(Flip(form), d) => Near(form, d)
    IN  IF Near(form, 100) /\ closer THEN {form}
        ELSE IF Near(Flip(form), 100) THEN {Flip(form)} ELSE {}

\* A form with a size and a name, that the driver knows under a positive number
\* and whose page has the size it claims.
Usable(i, orientation) ==
    /\ Forms[i].size.width > 0 /\ Forms[i].size.height > 0 /\ Forms[i].kind > 0
    /\ windows_physical_paper_dimensions(Forms[i].size, Physical(Forms[i].kind, orientation)) # {}

\* Each number once, for the first form that has it.
read_validated_papers(orientation) ==
    LET used == {i \in DOMAIN Forms :
                    /\ Usable(i, orientation)
                    /\ \A j \in 1 .. (i - 1) :
                         Usable(j, orientation) => Forms[j].kind # Forms[i].kind}
    IN  [i \in used |->
            [id |-> Forms[i].kind,
             size |-> CHOOSE p \in windows_physical_paper_dimensions(
                          Forms[i].size, Physical(Forms[i].kind, orientation)) : TRUE]]

\* The number of the first paper with the requested size and orientation.
sumatra_print_settings(requested, papers) ==
    LET fits == {i \in DOMAIN papers :
                    /\ Within(papers[i].size.width, requested.width, 10)
                    /\ Within(papers[i].size.height, requested.height, 10)}
    IN  IF fits = {} THEN {} ELSE {papers[First(fits)].id}
-----------------------------------------------------------------------------
(* Papers of CUPS *)

\* MUTANT: the unit is dropped, small numbers are always inches.
parse_dimension_pair_NoUnit(c) ==
    LET mm(n) == IF c.width <= 2000 /\ c.height <= 2000 THEN (n * 254 + 5) \div 10 ELSE n
    IN  [width |-> mm(c.width), height |-> mm(c.height)]

\* The size of a choice: that of a well-known name, or two numbers with their
\* unit, which are inches when both are small and no unit follows.
parse_dimension_pair(c) ==
    LET inches == c.unit = "in" \/ (c.unit = None /\ c.width <= 2000 /\ c.height <= 2000)
        mm(n) == IF inches THEN (n * 254 + 5) \div 10 ELSE n
    IN  [width |-> mm(c.width), height |-> mm(c.height)]

parse_paper_choice(c) ==
    [id |-> c, size |-> IF c.known # None THEN c.known ELSE parse_dimension_pair(c)]

\* The id of a paper that no driver named.
NoToken == [known |-> None, width |-> 0, height |-> 0, unit |-> None, custom |-> FALSE]

\* common_label_papers stand in for a list without a size.
common_label_papers ==
    LET label(w, h) == [id |-> NoToken, size |-> [width |-> w, height |-> h]]
    IN  <<label(4000, 3000), label(5000, 3000), label(6000, 4000), label(8000, 5000),
          label(10000, 15000)>>

\* The papers are kept under their places in the list, as on Windows.
parse_lpoptions_papers ==
    LET sized == {i \in DOMAIN Choices : Choices[i].known # None \/ Choices[i].width > 0}
    IN  IF sized = {} THEN common_label_papers
        ELSE [i \in sized |-> parse_paper_choice(Choices[i])]

find_matching_paper(papers, requested) == {i \in DOMAIN papers : papers[i].size = requested}

\* The driver's paper of the requested size, or the request as it is.
resolve_paper_for_print(papers, requested) ==
    LET found == find_matching_paper(papers, requested)
    IN  IF found # {} THEN papers[First(found)] ELSE [id |-> NoToken, size |-> requested]

is_cups_media_token(id) == id.custom

custom_media_option(size) ==
    [known |-> None, width |-> size.width, height |-> size.height, unit |-> "mm", custom |-> TRUE]

\* A custom token of the driver is passed on; any other paper is named by its size.
cups_media_option(paper) ==
    IF is_cups_media_token(paper.id) THEN paper.id ELSE custom_media_option(paper.size)

\* The page CUPS makes of a custom token (external).
MediaSize(token) ==
    LET mm(n) == IF token.unit = "in" THEN (n * 254) \div 10 ELSE n
    IN  [width |-> mm(token.width), height |-> mm(token.height)]
-----------------------------------------------------------------------------
(* print_pdf and print_raw *)

Step(next) == print' = next /\ UNCHANGED <<host, prefs, bytes, spool>>
To(pc) == [print EXCEPT !.pc = pc]
Failed == [print EXCEPT !.pc = "done", !.result = "err"]

Call(pc) == \E paper \in Requests : print' = [print EXCEPT !.pc = pc, !.paper = paper]

\* ensure_printer_exists.
PrinterFound ==
    /\ print.pc \in {"printers", "raw"}
    /\ Step(To(CASE print.pc = "printers" /\ Windows -> "devmode"
                 [] print.pc = "printers" /\ ~Windows -> "options"
                 [] print.pc = "raw" /\ Windows -> "spooler"
                 [] OTHER -> "create"))

\* The printer is not listed, or a question about it fails.
PrinterMissing == print.pc \in {"printers", "raw", "devmode", "query", "options"} /\ Step(Failed)

\* read_default_devmode: the user's preferences, before the forms are listed.
ReadDevmode ==
    /\ print.pc = "devmode"
    /\ Step([print EXCEPT !.pc = "query", !.read_with = prefs])

MaxQueries == 4

\* read_buffer around EnumForms: too small a buffer is enlarged to the size the
\* driver asks for and the query repeated; the list may grow meanwhile.
Query ==
    /\ print.pc = "query" /\ print.queries < MaxQueries
    /\ print.capacity < bytes
    /\ Step([print EXCEPT !.queries = @ + 1, !.capacity = 8 * ((bytes + 7) \div 8)])

QueryEnds ==
    /\ print.pc = "query" /\ print.queries < MaxQueries
    /\ print.capacity >= bytes
    /\ Step([print EXCEPT !.pc = "settings", !.queries = @ + 1,
                          !.papers = read_validated_papers(print.read_with)])

QueryGivesUp == print.pc = "query" /\ print.queries = MaxQueries /\ Step(Failed)

\* The paper is chosen; without one the job is refused.
Settings ==
    /\ print.pc = "settings"
    /\ Step(IF sumatra_print_settings(print.paper, print.papers) = {} THEN Failed ELSE To("sumatra"))

\* SumatraPDF prints with the preferences it finds itself.
Sumatra ==
    /\ print.pc = "sumatra"
    /\ spool' = Append(spool,
         [what |-> "pdf", whole |-> TRUE,
          page |-> Physical(CHOOSE k \in sumatra_print_settings(print.paper, print.papers) : TRUE,
                            prefs)])
    /\ print' = [print EXCEPT !.pc = "done", !.result = "ok"]
    /\ UNCHANGED <<host, prefs, bytes>>

Options ==
    /\ print.pc = "options"
    /\ Step([print EXCEPT !.pc = "lp", !.papers = parse_lpoptions_papers])

\* lp answers with a job id, or with a text that holds none.
Lp ==
    /\ print.pc = "lp"
    /\ spool' = Append(spool, [what |-> "pdf", whole |-> TRUE,
                               page |-> MediaSize(cups_media_option(
                                   resolve_paper_for_print(print.papers, print.paper)))])
    /\ \/ print' = To("track")
       \/ print' = [print EXCEPT !.pc = "done", !.result = "ok"]
    /\ UNCHANGED <<host, prefs, bytes>>

\* The command fails and has printed nothing.
CommandFails ==
    /\ print.pc \in {"sumatra", "lp"} /\ Fault
    /\ print' = Failed
    /\ UNCHANGED <<platform, work, out, temp, prefs, bytes, spool>>

\* track_cups_submission: completed when the list of completed jobs names it.
TrackSubmission ==
    /\ print.pc = "track"
    /\ \E outcome \in {"completed", "unknown"} :
         Step([print EXCEPT !.pc = "done", !.tracked = outcome, !.result = "ok"])

\* print_raw of CUPS.
RawCreate ==
    /\ print.pc = "create"
    /\ temp' = TRUE
    /\ print' = To("lpraw")
    /\ UNCHANGED <<platform, work, out, faults, prefs, bytes, spool>>

\* The file cannot be made, or not be written: then it stays.
RawCreateFails ==
    /\ print.pc = "create" /\ Fault
    /\ temp' \in BOOLEAN
    /\ print' = Failed
    /\ UNCHANGED <<platform, work, out, prefs, bytes, spool>>

\* The file is removed whether or not lp could be run.
LpRaw ==
    /\ print.pc = "lpraw"
    /\ temp' = FALSE
    /\ \/ /\ spool' = Append(spool, [what |-> "raw", whole |-> TRUE, page |-> None])
          /\ print' = To("track")
       \/ /\ print' = Failed
          /\ UNCHANGED spool
    /\ UNCHANGED <<platform, work, out, faults, prefs, bytes>>

\* submit_raw_to_windows_printer.  A document whose data was cut off is closed
\* like a whole one, so it is printed, and the call reports an error.
Spooler ==
    /\ print.pc = "spooler"
    /\ \/ /\ spool' = Append(spool, [what |-> "raw", whole |-> TRUE, page |-> None])
          /\ print' = [print EXCEPT !.pc = "done", !.result = "ok"]
          /\ UNCHANGED faults
       \/ /\ Fault
          /\ spool' = Append(spool, [what |-> "raw", whole |-> FALSE, page |-> None])
          /\ print' = Failed
       \/ /\ Fault
          /\ print' = Failed
          /\ UNCHANGED spool
    /\ UNCHANGED <<platform, work, out, temp, prefs, bytes>>

\* The user changes the driver's preferences; the list of forms grows.
PrefsChange ==
    /\ Windows /\ ~Printed
    /\ prefs' \in Orientations \ {prefs}
    /\ UNCHANGED <<host, print, bytes, spool>>

FormsGrow ==
    /\ Windows /\ ~Printed
    /\ bytes' \in {n \in FormBytes : n > bytes}
    /\ UNCHANGED <<host, print, prefs, spool>>

BackendNext ==
    \/ PrinterFound \/ PrinterMissing \/ ReadDevmode \/ Query \/ QueryEnds \/ QueryGivesUp \/ Settings
    \/ Sumatra \/ Options \/ Lp \/ CommandFails \/ TrackSubmission
    \/ RawCreate \/ RawCreateFails \/ LpRaw \/ Spooler \/ PrefsChange \/ FormsGrow
-----------------------------------------------------------------------------
(* Properties *)

\* How far a page may be from the request: on Windows the measurement and the
\* match each allow a little, elsewhere only the inches are rounded.
Tolerance == IF Windows THEN 110 ELSE 2

\* A document is printed on a page of the size and the orientation the job asked
\* for, on every platform, if the user did not turn the driver's default page
\* between the reading of the preferences and the print: on Windows the paper
\* number stands for a page of that size, and the media token given to lp does.
RightPaper ==
    \A i \in DOMAIN spool :
        (spool[i].what = "pdf" /\ print.read_with \in {None, prefs}) =>
            /\ Within(spool[i].page.width, print.paper.width, Tolerance)
            /\ Within(spool[i].page.height, print.paper.height, Tolerance)
=============================================================================
