------------------------ MODULE DocumentPrint_proofs ------------------------
(***************************************************************************)
(* Proofs about the way of one document to the printer: the user's         *)
(* applications are kept, a converted PDF is the named converter's, the    *)
(* page has the size the job asked for, and nothing is left behind.        *)
(***************************************************************************)
EXTENDS DocumentPrint, WellFoundedInduction, TLAPS

Names == Com \cup {"LibreOffice"}

Process == [pid: Pids, start: Nat, name: Names, user: BOOLEAN, open: BOOLEAN]

Conversion ==
    [pc: {"idle", "prepare", "next", "wait", "cleanup", "grace", "clean", "done"},
     at: 1 .. 3, result: {"none", "ok", "err"}, by: Names \cup {None}, left: BOOLEAN]

Child ==
    [pc: {"none", "snapshot", "activate", "prove", "secure", "launch", "export", "quit", "exit"},
     app: Instances \cup {None}, snapshot: SUBSET Instances, owns: BOOLEAN, code: 0 .. 2]

File == [kind: {"none", "pdf", "junk"}, by: Names \cup Kinds \cup {None}]

\* The state of a conversion.
OfficeTypeOK ==
    /\ platform \in {"windows", "unix"}
    /\ work \in BOOLEAN /\ out \in File /\ temp \in BOOLEAN /\ faults \in Nat
    /\ conv \in Conversion /\ (~Windows => conv.at = 1)
    /\ child \in Child
    /\ procs \in SUBSET Process
    /\ record \in Instances \cup {None}
    /\ starts \in Nat
    /\ ended \in SUBSET Process
    /\ window \in SUBSET Instances

\* Every user's process with the given instance is in the set.
UsersIn(i, S) == \A p \in procs : (p.user /\ Instance(p) = i) => i \in S

\* Nothing that runs or is remembered is younger than the last start.
StartsBound ==
    /\ \A p \in procs : p.start =< starts
    /\ child.app # None => child.app.start =< starts
    /\ record # None => record.start =< starts

\* A user's application that the script may end was started in the window: it is
\* in the snapshot until the script proves that its own application is not.
UserInv ==
    /\ conv.pc # "done" => StartsBound
    /\ conv.pc \in {"idle", "prepare", "done"} => child = NoChild
    /\ child.pc \in {"snapshot", "activate"} => ~child.owns
    /\ child.pc = "activate" =>
         \A p \in procs : p.user => Instance(p) \in child.snapshot \cup window
    /\ child.pc = "prove" => UsersIn(child.app, child.snapshot \cup window)
    /\ child.owns => UsersIn(child.app, window)
    /\ UsersIn(record, window)
    /\ UserAppsKept

NoneOpen == \A p \in procs : ~p.open

\* No application has had the document yet.
Unopened ==
    \/ conv.pc \in {"prepare", "next"}
    \/ child.pc \in {"snapshot", "activate", "prove", "secure", "launch"}
    \/ child.code = 2

\* At most one application of the provider under way has the document, and none
\* has it any more once there is an output.
OneWriter ==
    \/ /\ out = NoFile
       /\ \A p \in procs : p.open => p.name = Provider
       /\ \A p, q \in procs : p.open /\ q.open => p = q
    \/ /\ out.by = Provider
       /\ NoneOpen

ConvertInv ==
    /\ \A p, q \in procs : p.start = q.start => p = q
    /\ conv.pc = "idle" => procs = {}
    /\ conv.pc \in {"next", "clean"} => child.pc \in {"none", "exit"}
    /\ child.pc = "launch" => Provider = "LibreOffice"
    /\ child.pc \in {"snapshot", "activate"} => Provider \in Com
    /\ child.pc \in {"prove", "secure"} => child.app # None /\ child.app.name = Provider
    /\ child.code # 0 => child.pc \in {"quit", "exit"}
    /\ Unopened => out = NoFile /\ NoneOpen
    /\ conv.pc \notin {"idle", "done"} => OneWriter
    /\ conv.result = "ok" =>
         /\ conv.pc \in {"clean", "done"} /\ NoneOpen
         /\ \/ out = [kind |-> "pdf", by |-> conv.by]
            \/ conv.pc = "done" /\ out = NoFile

\* What a job has left so far.
JobInv ==
    /\ job \in [pc: {"new", "check", "normalize", "convert", "print", "done"},
                kind: Kinds \cup {None}, bytes: Kinds \cup {None}]
    /\ job.pc \in {"new", "check", "normalize"} =>
         conv.pc = "idle" /\ out = NoFile /\ print = NoPrint
    /\ job.pc = "convert" => conv.pc # "idle" /\ print = NoPrint
    /\ job.pc = "print" => conv.pc \in {"idle", "done"} /\ print.pc # "idle"
    /\ job.pc = "done" => conv.pc \in {"idle", "done"} /\ print.pc \in {"idle", "done"}
    /\ temp => faults > 0 \/ print.pc = "lpraw"
    /\ work => conv.pc \notin {"idle", "prepare"}
    /\ conv.pc = "done" /\ ~conv.left => NoneOpen /\ (faults = 0 => ~work)
    /\ (conv.pc = "done" /\ conv.result # "ok" /\ ~conv.left /\ faults = 0) => out = NoFile
    /\ LeavesNothing

Fits(page, paper) ==
    Within(page.width, paper.width, 110) /\ Within(page.height, paper.height, 110)

\* The page CUPS makes of a token is the paper but for the rounding of inches.
Rounded(page, paper) ==
    /\ page \in Sizes
    /\ Within(page.width, paper.width, 2) /\ Within(page.height, paper.height, 2)

PrintPcs ==
    {"idle", "printers", "raw", "devmode", "query", "options", "settings", "sumatra", "lp", "track",
     "create", "lpraw", "spooler", "done"}

\* The papers, the buffer's size and the number of queries may be anything here.
PrintTypeOK ==
    print \in [pc: PrintPcs, paper: Sizes \cup {None}, papers: {print.papers},
              read_with: Orientations \cup {None}, capacity: {print.capacity},
              queries: {print.queries}, tracked: {"none", "completed", "unknown"},
              result: {"none", "ok", "err"}]

\* The page of a printed document was chosen for the job's paper: the size of its
\* media token, or one that was measured with the preferences read before.
PaperInv ==
    /\ PrintTypeOK
    /\ print.pc # "idle" => print.paper \in Requests
    /\ prefs \in Orientations
    /\ print.pc = "devmode" => Windows
    /\ print.pc \in {"query", "settings", "sumatra"} =>
         Windows /\ print.read_with \in Orientations
    /\ print.pc \in {"settings", "sumatra"} =>
         print.papers = read_validated_papers(print.read_with)
    /\ print.pc = "sumatra" => sumatra_print_settings(print.paper, print.papers) # {}
    /\ print.pc = "lp" => print.papers = parse_lpoptions_papers
    /\ print.pc \notin {"track", "done"} => spool = <<>>
    /\ spool \in Seq([what: {"pdf", "raw"}, whole: BOOLEAN, page: Sizes \cup {None}])
    /\ \A i \in DOMAIN spool : spool[i].what = "pdf" =>
         \/ Rounded(spool[i].page, print.paper)
         \/ /\ Windows /\ print.pc = "done" /\ print.read_with \in Orientations
            /\ print.read_with = prefs => Fits(spool[i].page, print.paper)

-----------------------------------------------------------------------------
(* The papers *)

\* The first of some places is one of them.
LEMMA FirstIn ==
    ASSUME NEW S \in SUBSET Nat, S # {}
    PROVE  First(S) \in S
<1> DEFINE R == OpToRel(<, Nat)
<1>1. PICK x \in S : \A y \in S : ~(<<y, x>> \in R)
  BY WFMin, NatLessThanWellFounded
<1>2. \A y, z \in Nat : ~(<<y, z>> \in R) => z =< y
  BY DEF OpToRel
<1> HIDE DEF R
<1>3. ASSUME NEW y \in S PROVE x =< y
  <2>1. y \in Nat /\ x \in Nat /\ ~(<<y, x>> \in R)
    BY <1>1
  <2> QED
    BY <1>2, <2>1
<1> QED
  BY <1>3 DEF First

\* The forms of the driver have sizes.
LEMMA FormSizes ==
    ASSUME NEW i \in DOMAIN Forms
    PROVE  Forms[i].size \in Sizes /\ Forms[i].physical \in Sizes
<1> DEFINE F == [size: Sizes, physical: Sizes, kind: Int]
<1>1. Forms \in Seq(F)
  BY BackendAssumption
<1>2. Forms[i] \in F
  <2> HIDE DEF F
  <2> QED
    BY <1>1
<1> QED
  BY <1>2

\* A measured page has a size.
LEMMA PhysicalSize ==
    ASSUME NEW i \in DOMAIN Forms, NEW o
    PROVE  Physical(Forms[i].kind, o) \in Sizes
<1> DEFINE S == {j \in DOMAIN Forms : Forms[j].kind = Forms[i].kind}
<1>1. First(S) \in DOMAIN Forms
  <2>1. S \in SUBSET Nat /\ S # {}
    BY BackendAssumption
  <2> QED
    BY <2>1, FirstIn
<1>2. Forms[First(S)].physical \in Sizes
  BY <1>1, FormSizes
<1> HIDE DEF S
<1>3. Flip(Forms[First(S)].physical) \in Sizes
  BY <1>2 DEF Flip, Sizes
<1> QED
  BY <1>2, <1>3 DEF Physical, S

\* A paper that was validated is as long and as wide as its measured page, give
\* or take a millimetre.
LEMMA ValidatedPaper ==
    ASSUME NEW o, NEW i \in DOMAIN read_validated_papers(o)
    PROVE  LET q == read_validated_papers(o)[i]
               page == Physical(q.id, o)
           IN  /\ q.size \in Sizes /\ page \in Sizes
               /\ Within(q.size.width, page.width, 100)
               /\ Within(q.size.height, page.height, 100)
<1> DEFINE page == Physical(Forms[i].kind, o)
           form == Forms[i].size
           W == windows_physical_paper_dimensions(form, page)
           q == read_validated_papers(o)[i]
<1>1. /\ i \in DOMAIN Forms /\ W # {}
      /\ q.id = Forms[i].kind /\ q.size = CHOOSE p \in W : TRUE
  BY DEF read_validated_papers, Usable
<1>2. page \in Sizes /\ form \in Sizes
  BY <1>1, PhysicalSize, FormSizes
<1>3. Flip(form) \in Sizes
  BY <1>2 DEF Flip, Sizes
<1> HIDE DEF page, form
<1>4. \A p \in W : /\ p \in Sizes
                   /\ Within(p.width, page.width, 100)
                   /\ Within(p.height, page.height, 100)
  BY <1>2, <1>3 DEF windows_physical_paper_dimensions
<1>5. q.size \in W
  BY <1>1
<1> HIDE DEF W, q
<1> QED
  BY <1>1, <1>2, <1>4, <1>5 DEF page, q

\* What is near to something near is near enough.
LEMMA WithinBoth ==
    ASSUME NEW a \in Nat, NEW b \in Nat, NEW c \in Nat,
           Within(a, b, 100), Within(a, c, 10)
    PROVE  Within(b, c, 110)
BY DEF Within

\* The paper SumatraPDF is told has a page that fits the job.
LEMMA SumatraFits ==
    ASSUME NEW o, NEW paper \in Sizes,
           sumatra_print_settings(paper, read_validated_papers(o)) # {}
    PROVE  LET page == Physical(CHOOSE k \in sumatra_print_settings(
                                     paper, read_validated_papers(o)) : TRUE, o)
           IN  page \in Sizes /\ Fits(page, paper)
<1> DEFINE papers == read_validated_papers(o)
           fits == {i \in DOMAIN papers :
                      /\ Within(papers[i].size.width, paper.width, 10)
                      /\ Within(papers[i].size.height, paper.height, 10)}
           q == papers[First(fits)]
           page == Physical(q.id, o)
<1>1. First(fits) \in fits
  <2>1. DOMAIN papers \subseteq DOMAIN Forms
    BY DEF read_validated_papers
  <2>2. fits \in SUBSET Nat /\ fits # {}
    <3>1. DOMAIN Forms \subseteq Nat
      BY BackendAssumption
    <3>2. fits # {}
      BY DEF sumatra_print_settings
    <3> QED
      BY <2>1, <3>1, <3>2
  <2> QED
    BY <2>2, FirstIn
<1>2. sumatra_print_settings(paper, papers) = {q.id}
  BY <1>1 DEF sumatra_print_settings
<1>3. /\ First(fits) \in DOMAIN papers
      /\ Within(q.size.width, paper.width, 10) /\ Within(q.size.height, paper.height, 10)
  BY <1>1
<1>4. /\ q.size \in Sizes /\ page \in Sizes
      /\ Within(q.size.width, page.width, 100) /\ Within(q.size.height, page.height, 100)
  <2> HIDE DEF fits
  <2> QED
    BY <1>3, ValidatedPaper
<1> HIDE DEF q
<1>5. Fits(page, paper)
  <2> HIDE DEF page
  <2>1. /\ q.size.width \in Nat /\ page.width \in Nat /\ paper.width \in Nat
        /\ q.size.height \in Nat /\ page.height \in Nat /\ paper.height \in Nat
    BY <1>4 DEF Sizes
  <2> QED
    BY <1>3, <1>4, <2>1, WithinBoth DEF Fits
<1>6. (CHOOSE k \in sumatra_print_settings(paper, papers) : TRUE) = q.id
  BY <1>2
<1> QED
  BY <1>4, <1>5, <1>6

\* Whatever the preferences are when SumatraPDF prints, the page has a size.
LEMMA SettingsSize ==
    ASSUME NEW o, NEW now, NEW paper, sumatra_print_settings(paper, read_validated_papers(o)) # {}
    PROVE  Physical(CHOOSE k \in sumatra_print_settings(paper, read_validated_papers(o)) : TRUE, now)
             \in Sizes
<1> DEFINE papers == read_validated_papers(o)
           fits == {i \in DOMAIN papers :
                      /\ Within(papers[i].size.width, paper.width, 10)
                      /\ Within(papers[i].size.height, paper.height, 10)}
           i0 == First(fits)
<1>1. DOMAIN papers \subseteq DOMAIN Forms /\ \A i \in DOMAIN papers : papers[i].id = Forms[i].kind
  BY DEF read_validated_papers
<1>2. DOMAIN Forms \subseteq Nat
  BY BackendAssumption
<1>3. fits # {}
  BY DEF sumatra_print_settings
<1>4. i0 \in fits
  BY <1>1, <1>2, <1>3, FirstIn
<1>5. sumatra_print_settings(paper, papers) = {papers[i0].id}
  BY <1>3 DEF sumatra_print_settings
<1>6. i0 \in DOMAIN Forms /\ papers[i0].id = Forms[i0].kind
  BY <1>1, <1>4
<1>7. (CHOOSE k \in sumatra_print_settings(paper, papers) : TRUE) = Forms[i0].kind
  BY <1>5, <1>6
<1> HIDE DEF i0, papers
<1> QED
  BY <1>6, <1>7, PhysicalSize DEF papers

\* The media choices are tokens.
LEMMA ChoiceIsToken ==
    ASSUME NEW i \in DOMAIN Choices
    PROVE  Choices[i] \in Tokens
<1>1. Choices \in Seq(Tokens)
  BY BackendAssumption
<1> QED
  BY <1>1

\* A number of inches is rounded down or to the nearest.
LEMMA InchesRounded ==
    ASSUME NEW n \in Nat
    PROVE  Within((n * 254) \div 10, (n * 254 + 5) \div 10, 2) /\ Within(n, n, 2)
           /\ (n * 254) \div 10 \in Nat
BY DEF Within

\* A custom token of a choice makes the page the choice was taken for.
LEMMA ChoiceSize ==
    ASSUME NEW c \in Tokens, c.custom, c.known = None, c.unit # None
    PROVE  Rounded(MediaSize(c), parse_paper_choice(c).size)
<1>1. c.width \in Nat /\ c.height \in Nat /\ c.unit \in {"in", "mm", None}
  BY DEF Tokens
<1>2. parse_paper_choice(c).size = parse_dimension_pair(c)
  BY DEF parse_paper_choice
<1>3. CASE c.unit = "in"
  <2>1. MediaSize(c) = [width |-> (c.width * 254) \div 10, height |-> (c.height * 254) \div 10]
    BY <1>3 DEF MediaSize
  <2>2. parse_dimension_pair(c) =
          [width |-> (c.width * 254 + 5) \div 10, height |-> (c.height * 254 + 5) \div 10]
    BY <1>3 DEF parse_dimension_pair
  <2> DEFINE Down(n) == (n * 254) \div 10
             Near(n) == (n * 254 + 5) \div 10
  <2>3. \A n \in Nat : Within(Down(n), Near(n), 2) /\ Down(n) \in Nat
    BY InchesRounded
  <2>4. /\ MediaSize(c) = [width |-> Down(c.width), height |-> Down(c.height)]
        /\ parse_dimension_pair(c) = [width |-> Near(c.width), height |-> Near(c.height)]
    BY <2>1, <2>2
  <2> HIDE DEF Down, Near
  <2> QED
    BY <1>1, <1>2, <2>3, <2>4 DEF Rounded, Sizes
<1>4. CASE c.unit # "in"
  <2>1. MediaSize(c) = [width |-> c.width, height |-> c.height]
    BY <1>4 DEF MediaSize
  <2>2. parse_dimension_pair(c) = [width |-> c.width, height |-> c.height]
    BY <1>4 DEF parse_dimension_pair
  <2> QED
    BY <1>1, <1>2, <2>1, <2>2, InchesRounded DEF Rounded, Sizes
<1> QED
  BY <1>3, <1>4

\* A token that is built from a size makes a page of that size.
LEMMA CustomSize ==
    ASSUME NEW size \in Sizes
    PROVE  Rounded(MediaSize(custom_media_option(size)), size)
<1>1. MediaSize(custom_media_option(size)) = [width |-> size.width, height |-> size.height]
  BY DEF MediaSize, custom_media_option
<1> QED
  BY <1>1, InchesRounded DEF Rounded, Sizes

\* The media option of CUPS makes a page of the size the job asked for, whether
\* it is the driver's own token or one that was built.
LEMMA MediaIsRequested ==
    ASSUME NEW paper \in Sizes
    PROVE  Rounded(MediaSize(cups_media_option(
                       resolve_paper_for_print(parse_lpoptions_papers, paper))), paper)
<1> DEFINE papers == parse_lpoptions_papers
           found == find_matching_paper(papers, paper)
           q == resolve_paper_for_print(papers, paper)
           Named(i) == Choices[i].known # None \/ Choices[i].width > 0
<1>1. /\ q.size = paper
      /\ \/ q.id = NoToken
         \/ \E i \in DOMAIN Choices : q = parse_paper_choice(Choices[i]) /\ Named(i)
  <2>1. CASE found = {}
    BY <2>1 DEF resolve_paper_for_print
  <2>2. CASE found # {}
    <3>1. DOMAIN papers \in SUBSET Nat
      BY BackendAssumption DEF parse_lpoptions_papers, common_label_papers
    <3>2. First(found) \in found
      <4> HIDE DEF papers
      <4> QED
        BY <2>2, <3>1, FirstIn DEF find_matching_paper
    <3>3. First(found) \in DOMAIN papers /\ papers[First(found)].size = paper
      <4> HIDE DEF papers
      <4> QED
        BY <3>2 DEF find_matching_paper
    <3>4. q = papers[First(found)]
      BY <2>2 DEF resolve_paper_for_print
    <3>5. \A i \in DOMAIN papers :
            \/ papers[i].id = NoToken
            \/ \E j \in DOMAIN Choices : papers[i] = parse_paper_choice(Choices[j]) /\ Named(j)
      <4>1. CASE papers = common_label_papers
        BY <4>1 DEF common_label_papers
      <4>2. CASE papers # common_label_papers
        BY <4>2 DEF parse_lpoptions_papers
      <4> QED
        BY <4>1, <4>2
    <3> HIDE DEF papers, found
    <3> QED
      BY <3>3, <3>4, <3>5
  <2> QED
    BY <2>1, <2>2
<1> HIDE DEF q
<1>2. CASE is_cups_media_token(q.id)
  <2>1. PICK i \in DOMAIN Choices : q = parse_paper_choice(Choices[i]) /\ Named(i)
    BY <1>1, <1>2 DEF is_cups_media_token, NoToken
  <2>2. q.id = Choices[i] /\ Choices[i] \in Tokens
    BY <2>1, ChoiceIsToken DEF parse_paper_choice
  <2>3. Choices[i].custom /\ Choices[i].known = None /\ Choices[i].unit # None
    <3>1. Choices[i].custom
      BY <1>2, <2>2 DEF is_cups_media_token
    <3>2. Choices[i].known = None /\ (Choices[i].width = 0 \/ Choices[i].unit # None)
      BY <3>1, BackendAssumption
    <3>3. Choices[i].width # 0
      BY <2>1, <3>2
    <3> QED
      BY <3>1, <3>2, <3>3
  <2>4. Rounded(MediaSize(q.id), paper)
    BY <1>1, <2>1, <2>2, <2>3, ChoiceSize
  <2> QED
    BY <1>2, <2>4 DEF cups_media_option, q
<1>3. CASE ~is_cups_media_token(q.id)
  BY <1>1, <1>3, CustomSize DEF cups_media_option, q
<1> QED
  BY <1>2, <1>3

-----------------------------------------------------------------------------
(* The print *)

\* A step of the call that hands nothing to the system and reads no papers.
LEMMA PaperFrame ==
    ASSUME PaperInv, NEW pc \in PrintPcs \ {"idle", "query", "settings", "sumatra", "lp"},
           pc = "devmode" => Windows,
           NEW result \in {"none", "ok", "err"}, NEW tracked \in {"none", "completed", "unknown"},
           print' = [print EXCEPT !.pc = pc, !.result = result, !.tracked = tracked],
           print.pc \notin {"idle", "done"}, pc = "done" \/ spool = <<>>,
           UNCHANGED <<platform, prefs, spool>>
    PROVE  PaperInv'
<1>1. PrintTypeOK'
  BY DEF PaperInv, PrintTypeOK, PrintPcs
<1>2. print'.pc = pc /\ print'.paper = print.paper /\ print'.read_with = print.read_with
  BY DEF PaperInv, PrintTypeOK
<1>3. \A i \in DOMAIN spool : spool[i].what = "pdf" => Rounded(spool[i].page, print.paper)
  BY DEF PaperInv
<1> QED
  BY <1>1, <1>2, <1>3 DEF PaperInv, PrintPcs, Windows

\* A failure ends the call.
LEMMA PaperFailed ==
    ASSUME PaperInv, print.pc \notin {"idle", "done"}, print' = Failed,
           UNCHANGED <<platform, prefs, spool>>
    PROVE  PaperInv'
<1>1. Failed = [print EXCEPT !.pc = "done", !.result = "err", !.tracked = print.tracked]
  BY DEF Failed, PaperInv, PrintTypeOK
<1>2. print.tracked \in {"none", "completed", "unknown"}
  BY DEF PaperInv, PrintTypeOK
<1> QED
  BY <1>1, <1>2, PaperFrame DEF PrintPcs

\* The only document of a call is handed over: raw data, or a PDF whose page is
\* right.
LEMMA PaperSpooled ==
    ASSUME PaperInv, NEW pc \in {"track", "done"}, NEW result \in {"none", "ok", "err"},
           print' = [print EXCEPT !.pc = pc, !.result = result],
           print.pc \notin {"idle", "track", "done"},
           NEW d \in [what: {"pdf", "raw"}, whole: BOOLEAN, page: Sizes \cup {None}],
           d.what = "pdf" =>
             \/ Rounded(d.page, print.paper)
             \/ /\ Windows /\ pc = "done" /\ print.read_with \in Orientations
                /\ print.read_with = prefs => Fits(d.page, print.paper),
           spool' = Append(spool, d), UNCHANGED <<platform, prefs>>
    PROVE  PaperInv'
<1> DEFINE D == [what: {"pdf", "raw"}, whole: BOOLEAN, page: Sizes \cup {None}]
<1>1. PrintTypeOK'
  BY DEF PaperInv, PrintTypeOK, PrintPcs
<1>2. print'.pc = pc /\ print'.paper = print.paper /\ print'.read_with = print.read_with
  BY DEF PaperInv, PrintTypeOK
<1>3. spool = <<>>
  BY DEF PaperInv
<1>4. spool' \in Seq(D) /\ DOMAIN spool' = {1} /\ spool'[1] = d
  <2> HIDE DEF D
  <2>1. d \in D
    BY DEF D
  <2> QED
    BY <1>3, <2>1
<1> QED
  BY <1>1, <1>2, <1>4 DEF PaperInv, Windows

\* Every step of a call keeps the invariant.
LEMMA PaperStep ==
    ASSUME PaperInv, BackendNext
    PROVE  PaperInv'
<1>1. /\ PrintTypeOK
      /\ print.pc \notin {"idle", "track", "done"} => spool = <<>>
  BY DEF PaperInv
<1>2. print.result \in {"none", "ok", "err"} /\ print.tracked \in {"none", "completed", "unknown"}
  BY <1>1 DEF PrintTypeOK
<1>3. CASE PrinterFound
  <2>1. PICK pc \in {"devmode", "options", "spooler", "create"} :
          /\ pc = "devmode" => Windows
          /\ print' = [print EXCEPT !.pc = pc]
          /\ UNCHANGED <<platform, prefs, spool>>
    BY <1>3 DEF PrinterFound, Step, To, host
  <2>2. [print EXCEPT !.pc = pc] =
          [print EXCEPT !.pc = pc, !.result = print.result, !.tracked = print.tracked]
    BY <1>1 DEF PrintTypeOK
  <2>3. print.pc \in {"printers", "raw"}
    BY <1>3 DEF PrinterFound
  <2> QED
    BY <1>1, <1>2, <2>1, <2>2, <2>3, PaperFrame DEF PrintPcs
<1>4. CASE PrinterMissing \/ QueryGivesUp \/ CommandFails \/ RawCreateFails
  BY <1>4, PaperFailed DEF PrinterMissing, QueryGivesUp, CommandFails, RawCreateFails, Step, host
<1>5. CASE Query
  <2>1. /\ print.pc = "query" /\ UNCHANGED <<platform, prefs, spool>>
        /\ print' = [print EXCEPT !.queries = print.queries + 1,
                                  !.capacity = 8 * ((bytes + 7) \div 8)]
    BY <1>5 DEF Query, Step, host
  <2>2. PrintTypeOK' /\ print'.pc = "query" /\ print'.paper = print.paper
        /\ print'.read_with = print.read_with
    <3> HIDE DEF PaperInv
    <3> QED
      BY <1>1, <2>1 DEF PrintTypeOK
  <2> QED
    BY <2>1, <2>2 DEF PaperInv, Windows
<1>6. CASE QueryEnds
  <2>1. /\ print.pc = "query" /\ UNCHANGED <<platform, prefs, spool>>
        /\ print' = [print EXCEPT !.pc = "settings", !.queries = print.queries + 1,
                                  !.papers = read_validated_papers(print.read_with)]
    BY <1>6 DEF QueryEnds, Step, host
  <2>2. print.read_with \in Orientations
    BY <2>1 DEF PaperInv
  <2>3. /\ PrintTypeOK' /\ print'.pc = "settings" /\ print'.paper = print.paper
        /\ print'.read_with = print.read_with
        /\ print'.papers = read_validated_papers(print.read_with)
    BY <1>1, <2>1, <2>2 DEF PrintTypeOK, PrintPcs
  <2> QED
    BY <2>1, <2>2, <2>3 DEF PaperInv, Windows
<1>7. CASE Settings
  <2>1. /\ print.pc = "settings" /\ UNCHANGED <<platform, prefs, spool>>
        /\ \/ print' = Failed
           \/ /\ sumatra_print_settings(print.paper, print.papers) # {}
              /\ print' = [print EXCEPT !.pc = "sumatra"]
    BY <1>7 DEF Settings, Step, To, host
  <2>2. ASSUME sumatra_print_settings(print.paper, print.papers) # {},
               print' = [print EXCEPT !.pc = "sumatra"]
        PROVE  PaperInv'
    <3>1. /\ PrintTypeOK' /\ print'.pc = "sumatra" /\ print'.paper = print.paper
          /\ print'.read_with = print.read_with /\ print'.papers = print.papers
      BY <1>1, <2>2 DEF PrintTypeOK, PrintPcs
    <3> QED
      BY <2>1, <2>2, <3>1 DEF PaperInv, Windows
  <2> QED
    BY <2>1, <2>2, PaperFailed
<1>8. CASE Sumatra
  <2> DEFINE page == Physical(CHOOSE k \in sumatra_print_settings(print.paper, print.papers) : TRUE,
                              prefs)
             d == [what |-> "pdf", whole |-> TRUE, page |-> page]
  <2>1. /\ print.pc = "sumatra" /\ UNCHANGED <<platform, prefs>> /\ spool' = Append(spool, d)
        /\ print' = [print EXCEPT !.pc = "done", !.result = "ok"]
    BY <1>8 DEF Sumatra, host
  <2>2. /\ Windows /\ print.read_with \in Orientations /\ print.paper \in Sizes
        /\ print.papers = read_validated_papers(print.read_with)
        /\ sumatra_print_settings(print.paper, print.papers) # {}
    BY <2>1, BackendAssumption DEF PaperInv
  <2>3. page \in Sizes
    BY <2>2, SettingsSize
  <2>4. print.read_with = prefs => Fits(page, print.paper)
    BY <2>2, SumatraFits
  <2> HIDE DEF page
  <2> QED
    BY <2>1, <2>2, <2>3, <2>4, PaperSpooled
<1>9. CASE Options
  <2>1. /\ print.pc = "options" /\ UNCHANGED <<platform, prefs, spool>>
        /\ print' = [print EXCEPT !.pc = "lp", !.papers = parse_lpoptions_papers]
    BY <1>9 DEF Options, Step, host
  <2>2. /\ PrintTypeOK' /\ print'.pc = "lp" /\ print'.paper = print.paper
        /\ print'.papers = parse_lpoptions_papers
    BY <1>1, <2>1 DEF PrintTypeOK, PrintPcs
  <2> QED
    BY <2>1, <2>2 DEF PaperInv, Windows
<1>10. CASE Lp
  <2> DEFINE d == [what |-> "pdf", whole |-> TRUE,
                   page |-> MediaSize(cups_media_option(
                                resolve_paper_for_print(print.papers, print.paper)))]
  <2>1. print.pc = "lp" /\ UNCHANGED <<platform, prefs>> /\ spool' = Append(spool, d)
    BY <1>10 DEF Lp, host
  <2>2. \/ print' = [print EXCEPT !.pc = "track", !.result = print.result]
        \/ print' = [print EXCEPT !.pc = "done", !.result = "ok"]
    BY <1>1, <1>10 DEF Lp, To, PrintTypeOK
  <2>3. print.paper \in Sizes /\ print.papers = parse_lpoptions_papers
    BY <2>1, BackendAssumption DEF PaperInv
  <2>4. Rounded(d.page, print.paper)
    BY <2>3, MediaIsRequested
  <2>5. /\ d \in [what: {"pdf", "raw"}, whole: BOOLEAN, page: Sizes \cup {None}]
        /\ Rounded(d.page, print.paper)
    BY <2>4 DEF Rounded
  <2> HIDE DEF d
  <2> QED
    BY <1>2, <2>1, <2>2, <2>5, PaperSpooled
<1>11. CASE TrackSubmission
  <2>1. PICK outcome \in {"completed", "unknown"} :
          /\ print' = [print EXCEPT !.pc = "done", !.tracked = outcome, !.result = "ok"]
          /\ UNCHANGED <<platform, prefs, spool>>
    BY <1>11 DEF TrackSubmission, Step, host
  <2>2. print' = [print EXCEPT !.pc = "done", !.result = "ok", !.tracked = outcome]
    BY <1>1, <2>1 DEF PrintTypeOK
  <2>3. print.pc = "track"
    BY <1>11 DEF TrackSubmission
  <2> QED
    BY <2>1, <2>2, <2>3, PaperFrame DEF PrintPcs
<1>12. CASE RawCreate
  <2>1. print.pc = "create" /\ print' = [print EXCEPT !.pc = "lpraw"] /\ UNCHANGED <<platform, prefs, spool>>
    BY <1>12 DEF RawCreate, To
  <2>2. [print EXCEPT !.pc = "lpraw"] =
          [print EXCEPT !.pc = "lpraw", !.result = print.result, !.tracked = print.tracked]
    BY <1>1 DEF PrintTypeOK
  <2> QED
    BY <1>1, <1>2, <2>1, <2>2, PaperFrame DEF PrintPcs
<1>13. CASE LpRaw \/ Spooler
  <2>1. /\ print.pc \in {"lpraw", "spooler"} /\ UNCHANGED <<platform, prefs>>
        /\ \/ print' = Failed /\ UNCHANGED spool
           \/ \E whole \in BOOLEAN :
                /\ spool' = Append(spool, [what |-> "raw", whole |-> whole, page |-> None])
                /\ \/ print' = To("track")
                   \/ print' = [print EXCEPT !.pc = "done", !.result = "ok"]
                   \/ print' = Failed
    BY <1>13 DEF LpRaw, Spooler
  <2>2. ASSUME print' = Failed, UNCHANGED spool PROVE PaperInv'
    BY <2>1, <2>2, PaperFailed
  <2>3. ASSUME NEW whole \in BOOLEAN,
               spool' = Append(spool, [what |-> "raw", whole |-> whole, page |-> None]),
               \/ print' = To("track")
               \/ print' = [print EXCEPT !.pc = "done", !.result = "ok"]
               \/ print' = Failed
        PROVE  PaperInv'
    <3>1. \/ print' = [print EXCEPT !.pc = "track", !.result = print.result]
          \/ print' = [print EXCEPT !.pc = "done", !.result = "ok"]
          \/ print' = [print EXCEPT !.pc = "done", !.result = "err"]
      BY <1>1, <2>3 DEF To, Failed, PrintTypeOK
    <3> DEFINE d == [what |-> "raw", whole |-> whole, page |-> None]
    <3>2. /\ d \in [what: {"pdf", "raw"}, whole: BOOLEAN, page: Sizes \cup {None}]
          /\ d.what # "pdf" /\ spool' = Append(spool, d)
      BY <2>3
    <3> HIDE DEF d
    <3> QED
      BY <1>2, <2>1, <3>1, <3>2, PaperSpooled
  <2> QED
    BY <2>1, <2>2, <2>3
<1>14. CASE PrefsChange
  <2>1. prefs' \in Orientations /\ UNCHANGED <<platform, print, spool>> /\ print.pc # "done"
    BY <1>14 DEF PrefsChange, Printed, host
  <2> QED
    BY <2>1 DEF PaperInv, PrintTypeOK, Windows
<1>15. CASE FormsGrow
  BY <1>15 DEF FormsGrow, PaperInv, PrintTypeOK, Windows, host
<1>16. CASE ReadDevmode
  <2>1. /\ print.pc = "devmode" /\ UNCHANGED <<platform, prefs, spool>>
        /\ print' = [print EXCEPT !.pc = "query", !.read_with = prefs]
    BY <1>16 DEF ReadDevmode, Step, host
  <2>2. prefs \in Orientations
    BY DEF PaperInv
  <2>3. /\ PrintTypeOK' /\ print'.pc = "query" /\ print'.paper = print.paper
        /\ print'.read_with = prefs
    BY <1>1, <2>1, <2>2 DEF PrintTypeOK, PrintPcs
  <2> QED
    BY <2>1, <2>2, <2>3 DEF PaperInv, Windows
<1> QED
  BY <1>3, <1>4, <1>5, <1>6, <1>7, <1>8, <1>9, <1>10, <1>11, <1>12, <1>13, <1>14, <1>15,
     <1>16
     DEF BackendNext

-----------------------------------------------------------------------------
(* The conversion: its state *)

\* A fault is counted.
LEMMA FaultCounts ==
    ASSUME faults \in Nat, Fault
    PROVE  faults' \in Nat /\ faults' > 0
BY DEF Fault

\* The converters of a platform.
LEMMA ProviderNames ==
    ASSUME OfficeTypeOK
    PROVE  /\ Provider \in Names
           /\ Windows => Len(Providers) = 3
           /\ ~Windows => Len(Providers) = 1 /\ Provider = "LibreOffice"
BY DEF OfficeTypeOK, Conversion, Provider, Providers, Names, Com

\* A failure goes on to the next converter, if there is one and the converter was
\* unavailable, or ends the conversion.
LEMMA AfterFailureIs ==
    ASSUME OfficeTypeOK, NEW unavailable \in BOOLEAN
    PROVE  \/ /\ unavailable /\ Windows /\ conv.at \in 1 .. 2
              /\ AfterFailure(unavailable) = [conv EXCEPT !.pc = "next", !.at = conv.at + 1]
           \/ AfterFailure(unavailable) = ConvertFailed
<1>1. conv.at \in 1 .. 3 /\ (~Windows => conv.at = 1)
  BY DEF OfficeTypeOK, Conversion
<1>2. Len(Providers) = (IF Windows THEN 3 ELSE 1)
  BY ProviderNames
<1>3. conv.at < Len(Providers) => Windows /\ conv.at \in 1 .. 2
  BY <1>1, <1>2
<1> QED
  BY <1>3 DEF AfterFailure

\* Trying the next converter, or giving up, keeps the types of a conversion.
LEMMA AfterFailureType ==
    ASSUME OfficeTypeOK, NEW unavailable \in BOOLEAN
    PROVE  LET c == AfterFailure(unavailable) IN c \in Conversion /\ (~Windows => c.at = 1)
<1>1. conv \in Conversion /\ (~Windows => conv.at = 1)
  BY DEF OfficeTypeOK
<1>2. ConvertFailed \in Conversion /\ ConvertFailed.at = conv.at
  BY <1>1 DEF Conversion, ConvertFailed
<1>3. ASSUME Windows, conv.at \in 1 .. 2
      PROVE  [conv EXCEPT !.pc = "next", !.at = conv.at + 1] \in Conversion
  <2> DEFINE n == conv.at + 1
  <2>1. n \in 1 .. 3
    BY <1>3
  <2> HIDE DEF n
  <2>2. [conv EXCEPT !.pc = "next", !.at = n] \in Conversion
    BY <1>1, <2>1 DEF Conversion
  <2> QED
    BY <2>2 DEF n
<1> QED
  BY <1>1, <1>2, <1>3, AfterFailureIs

\* A new process has an id no other one has, and a later start than all of them.
LEMMA NewProcessIs ==
    ASSUME starts \in Nat, NEW name \in Names, NEW user \in BOOLEAN, NEW opens \in BOOLEAN,
           NEW p \in NewProcess(name, user, opens)
    PROVE  /\ p \in Process /\ Instance(p) \in Instances
           /\ p.start = starts + 1 /\ p.name = name /\ p.user = user /\ p.open = opens
BY DEF NewProcess, Process, Instance, Instances, Names

\* A process has an instance, which the document it has open does not change.
LEMMA InstanceOf ==
    ASSUME NEW p \in Process
    PROVE  /\ Instance(p) \in Instances /\ Instance(p) # None
           /\ Instance(p).start = p.start /\ Instance(p).name = p.name
BY OfficeAssumption DEF Process, Instance, Instances, Names

\* Opening or closing a document changes nothing else of a process.
LEMMA Reopened ==
    ASSUME NEW p \in Process, NEW b \in BOOLEAN
    PROVE  LET q == [p EXCEPT !.open = b]
           IN  /\ q \in Process /\ Instance(q) = Instance(p) /\ q.user = p.user
               /\ q.start = p.start /\ q.name = p.name /\ q.open = b
BY DEF Process, Instance

\* The script's exit and its way to the end.
LEMMA ChildEnds ==
    ASSUME OfficeTypeOK, NEW code \in 0 .. 2
    PROVE  /\ Exits(code) \in Child /\ Exits(code).pc = "exit" /\ Exits(code).code = code
           /\ Exits(code).app = None /\ ~Exits(code).owns
           /\ Quits(code) \in Child /\ Quits(code).pc = "quit" /\ Quits(code).code = code
           /\ Quits(code).app = child.app /\ Quits(code).owns = child.owns
           /\ child.code \in 0 .. 2 /\ NoChild \in Child
<1>1. NoChild \in Child
  BY DEF NoChild, Child
<1>2. child \in Child /\ child.code \in 0 .. 2
  BY DEF OfficeTypeOK, Child
<1> QED
  BY <1>1, <1>2 DEF Exits, Quits, Child, NoChild

\* The converter's own steps keep the types.
LEMMA ConvertTypes ==
    ASSUME OfficeTypeOK, Convert \/ ConvertFails
    PROVE  OfficeTypeOK'
<1>1. /\ conv \in Conversion /\ (~Windows => conv.at = 1) /\ child \in Child /\ faults \in Nat
      /\ NoFile \in File /\ NoChild \in Child /\ platform \in {"windows", "unix"}
      /\ procs \in SUBSET Process /\ ended \in SUBSET Process
  BY ChildEnds DEF OfficeTypeOK, NoFile, File
<1>2. \A pc \in {"next", "wait", "cleanup", "grace"} :
        [conv EXCEPT !.pc = pc] \in Conversion /\ [conv EXCEPT !.pc = pc].at = conv.at
  BY <1>1 DEF Conversion
<1>3. CASE Prepare \/ PrepareFails
  <2>1. conv' \in Conversion /\ conv'.at = conv.at
    BY <1>1, <1>3 DEF Prepare, PrepareFails, Conversion
  <2>2. faults' \in Nat /\ work' \in BOOLEAN
    BY <1>1, <1>3, FaultCounts DEF Prepare, PrepareFails, OfficeTypeOK
  <2> QED
    BY <1>1, <1>3, <2>1, <2>2 DEF Prepare, PrepareFails, OfficeTypeOK, Windows
<1>4. CASE Spawn
  <2>1. child' \in Child
    BY <1>1, <1>4 DEF Spawn, Child, NoChild
  <2> QED
    BY <1>1, <1>2, <1>4, <2>1 DEF Spawn, OfficeTypeOK, Windows, host
<1>5. CASE SpawnMissing \/ SpawnFails
  <2>1. faults' \in Nat
    BY <1>1, <1>5, FaultCounts DEF SpawnMissing, SpawnFails, host
  <2>2. conv' \in Conversion /\ (~Windows => conv'.at = 1)
    BY <1>5, AfterFailureType DEF SpawnMissing, SpawnFails
  <2> QED
    BY <1>1, <1>5, <2>1, <2>2 DEF SpawnMissing, SpawnFails, OfficeTypeOK, Windows, host
<1>6. CASE Collect
  <2>1. conv' \in Conversion /\ (~Windows => conv'.at = 1)
    <3>1. ASSUME conv' = AfterFailure(child.code = 2 /\ Provider \in Com)
          PROVE  conv' \in Conversion /\ (~Windows => conv'.at = 1)
      BY <3>1, AfterFailureType
    <3>2. ASSUME conv' = [conv EXCEPT !.pc = "clean", !.result = "ok", !.by = Provider]
          PROVE  conv' \in Conversion /\ conv'.at = conv.at
      BY <1>1, <3>2, ProviderNames DEF Conversion
    <3> QED
      BY <1>1, <1>6, <3>1, <3>2 DEF Collect
  <2> QED
    BY <1>1, <1>6, <2>1 DEF Collect, OfficeTypeOK, Windows, host
<1>7. CASE WaitTimesOut
  BY <1>1, <1>2, <1>7 DEF WaitTimesOut, OfficeTypeOK, Windows, host
<1>8. CASE CleanupScript \/ CleanupFails
  <2>1. procs' \in SUBSET Process /\ ended' \in SUBSET Process /\ faults' \in Nat
    BY <1>1, <1>8, FaultCounts DEF CleanupScript, CleanupFails, host
  <2> QED
    BY <1>1, <1>2, <1>8, <2>1 DEF CleanupScript, CleanupFails, OfficeTypeOK, Windows, host
<1>9. CASE GraceEnds
  <2>1. child' \in Child /\ conv' \in Conversion /\ (~Windows => conv'.at = 1)
    <3>1. child.code \in 0 .. 2
      BY <1>1 DEF Child
    <3>2. child' = Exits(child.code) /\ conv' = AfterFailure(FALSE)
      BY <1>9 DEF GraceEnds
    <3> QED
      BY <3>1, <3>2, ChildEnds, AfterFailureType
  <2> QED
    BY <1>1, <1>9, <2>1 DEF GraceEnds, OfficeTypeOK, Windows, host
<1>10. CASE Clean \/ CleanFails
  <2>1. PICK result \in {"none", "ok", "err"} : conv' = Done(result)
    BY <1>1, <1>10 DEF Clean, CleanFails, Conversion
  <2>2. conv' \in Conversion /\ conv'.at = conv.at
    BY <1>1, <2>1 DEF Done, Conversion
  <2>3. work' \in BOOLEAN /\ out' \in File /\ faults' \in Nat
    <3>1. InUse \in BOOLEAN
      BY DEF InUse, Windows
    <3>2. faults' \in Nat
      BY <1>1, <1>10, FaultCounts DEF Clean, CleanFails
    <3> QED
      BY <1>1, <1>10, <3>1, <3>2 DEF Clean, CleanFails, OfficeTypeOK
  <2>4. /\ child' = NoChild /\ record' = None /\ procs' \in SUBSET Process /\ starts' = 0
        /\ ended' = {} /\ window' = {}
    BY <1>1, <1>10 DEF Clean, CleanFails, Forget
  <2> QED
    BY <1>1, <1>10, <2>2, <2>3, <2>4 DEF Clean, CleanFails, OfficeTypeOK, Windows
<1> QED
  BY <1>3, <1>4, <1>5, <1>6, <1>7, <1>8, <1>9, <1>10 DEF Convert, ConvertFails

\* The script's steps keep the types.
LEMMA ChildTypes ==
    ASSUME OfficeTypeOK, ChildStep
    PROVE  OfficeTypeOK'
<1>1. /\ child \in Child /\ procs \in SUBSET Process /\ starts \in Nat /\ faults \in Nat
      /\ ended \in SUBSET Process
  BY DEF OfficeTypeOK
<1>2. ASSUME NEW c \in Child, ChildOnly(c) PROVE OfficeTypeOK'
  BY <1>2 DEF ChildOnly, OfficeTypeOK, Windows, host
<1>3. \A p \in procs : Instance(p) \in Instances
  BY <1>1, InstanceOf
<1>4. CASE Snapshot
  <2>1. [child EXCEPT !.pc = "activate", !.snapshot = {Instance(p) : p \in procs}] \in Child
    BY <1>1, <1>3 DEF Child
  <2> QED
    BY <1>2, <1>4, <2>1 DEF Snapshot
<1>5. CASE ActivateNew \/ Launch
  <2>1. PICK p \in Process, pc \in {"prove", "export"}, owns \in BOOLEAN :
          /\ Instance(p) \in Instances
          /\ procs' = procs \cup {p}
          /\ child' = [child EXCEPT !.pc = pc, !.app = Instance(p), !.owns = owns]
    <3>1. CASE ActivateNew
      <4>1. PICK p \in NewProcess(Provider, FALSE, FALSE) :
              /\ procs' = procs \cup {p}
              /\ child' = [child EXCEPT !.pc = "prove", !.app = Instance(p)]
        BY <3>1 DEF ActivateNew
      <4>2. child' = [child EXCEPT !.pc = "prove", !.app = Instance(p), !.owns = child.owns]
        BY <1>1, <4>1 DEF Child
      <4>3. child.owns \in BOOLEAN
        BY <1>1 DEF Child
      <4>4. p \in Process /\ Instance(p) \in Instances
        BY <1>1, <4>1, ProviderNames, NewProcessIs
      <4> QED
        BY <4>1, <4>2, <4>3, <4>4
    <3>2. CASE Launch
      <4>1. PICK p \in NewProcess("LibreOffice", FALSE, TRUE) :
              /\ procs' = procs \cup {p}
              /\ child' = [child EXCEPT !.pc = "export", !.app = Instance(p), !.owns = TRUE]
        BY <3>2 DEF Launch
      <4> QED
        BY <1>1, <4>1, NewProcessIs DEF Names
    <3> QED
      BY <1>5, <3>1, <3>2
  <2>2. child' \in Child
    BY <1>1, <2>1 DEF Child
  <2>3. starts' = starts + 1 /\ UNCHANGED <<host, conv, record, ended, window>>
    BY <1>5 DEF ActivateNew, Launch
  <2>4. starts' \in Nat
    BY <1>1, <2>3
  <2> QED
    BY <1>1, <2>1, <2>2, <2>3, <2>4 DEF OfficeTypeOK, Windows, host
<1>6. CASE ActivateReuse
  <2>1. PICK p \in procs : ChildOnly([child EXCEPT !.pc = "prove", !.app = Instance(p)])
    BY <1>6 DEF ActivateReuse
  <2>2. [child EXCEPT !.pc = "prove", !.app = Instance(p)] \in Child
    BY <1>1, <1>3 DEF Child
  <2> QED
    BY <1>2, <2>1, <2>2
<1>7. CASE ActivateFails \/ ProveFails \/ SecureFails \/ ExportFails \/ LaunchSkips
  BY <1>2, <1>7, ChildEnds DEF ActivateFails, ProveFails, SecureFails, ExportFails, LaunchSkips
<1>8. CASE Prove
  <2>1. child' \in Child /\ record' \in Instances \cup {None}
    BY <1>1, <1>8 DEF Prove, Child
  <2> QED
    BY <1>1, <1>8, <2>1 DEF Prove, OfficeTypeOK, Windows, host
<1>9. CASE Open
  <2>1. child' \in Child
    BY <1>1, <1>9 DEF Open, Child
  <2>2. procs' \in SUBSET Process
    BY <1>1, <1>9, Reopened DEF Open
  <2> QED
    BY <1>1, <1>9, <2>1, <2>2 DEF Open, OfficeTypeOK, Windows, host
<1>10. CASE Quit \/ QuitFails \/ LauncherDies
  <2>1. child' \in Child
    BY <1>10, ChildEnds DEF Quit, QuitFails, LauncherDies
  <2>2. procs' \in SUBSET Process /\ ended' \in SUBSET Process /\ faults' \in Nat
    BY <1>1, <1>10, FaultCounts DEF Quit, QuitFails, LauncherDies, Running, host
  <2> QED
    BY <1>1, <1>10, <2>1, <2>2 DEF Quit, QuitFails, LauncherDies, OfficeTypeOK, Windows, host
<1> QED
  BY <1>4, <1>5, <1>6, <1>7, <1>8, <1>9, <1>10 DEF ChildStep

\* The applications and the user keep the types.
LEMMA DesktopTypes ==
    ASSUME OfficeTypeOK, AppWrites \/ AppExits \/ UserStarts \/ UserCloses
    PROVE  OfficeTypeOK'
<1>1. /\ child \in Child /\ procs \in SUBSET Process /\ starts \in Nat
      /\ window \in SUBSET Instances
  BY DEF OfficeTypeOK
<1>2. CASE AppWrites
  <2>1. PICK p \in procs, kind \in {"pdf", "junk"} :
          /\ out' = [kind |-> kind, by |-> p.name]
          /\ procs' = (procs \ {p}) \cup {[p EXCEPT !.open = FALSE]}
          /\ child' = IF child.pc = "export" /\ child.app = Instance(p) THEN Quits(0) ELSE child
    BY <1>2 DEF AppWrites
  <2>2. out' \in File
    <3>1. p.name \in Names
      BY <1>1 DEF Process
    <3> QED
      BY <2>1, <3>1 DEF File
  <2>3. procs' \in SUBSET Process /\ child' \in Child
    <3>1. Quits(0) \in Child
      BY ChildEnds
    <3>2. [p EXCEPT !.open = FALSE] \in Process
      BY <1>1, Reopened
    <3> QED
      BY <1>1, <2>1, <3>1, <3>2
  <2> QED
    BY <1>2, <2>2, <2>3 DEF AppWrites, OfficeTypeOK, Windows
<1>3. CASE AppExits \/ UserCloses
  BY <1>1, <1>3 DEF AppExits, UserCloses, OfficeTypeOK, Windows, host
<1>4. CASE UserStarts
  <2>1. PICK p \in Process :
          /\ Instance(p) \in Instances
          /\ procs' = procs \cup {p}
          /\ window' = IF child.pc = "activate" THEN window \cup {Instance(p)} ELSE window
    BY <1>1, <1>4, NewProcessIs DEF UserStarts, Names
  <2> QED
    BY <1>1, <1>4, <2>1 DEF UserStarts, OfficeTypeOK, Windows, host
<1> QED
  BY <1>2, <1>3, <1>4

\* Every step of the conversion, its child or the desktop keeps the types.
LEMMA OfficeTypes ==
    ASSUME OfficeTypeOK, OfficeNext
    PROVE  OfficeTypeOK'
BY ConvertTypes, ChildTypes, DesktopTypes DEF OfficeNext

-----------------------------------------------------------------------------
(* The conversion: the user's applications *)

\* A step that starts nothing and after which the script owns no more than before.
LEMMA UserFrame ==
    ASSUME OfficeTypeOK, UserInv,
           \A p \in procs' : \E q \in procs :
               Instance(q) = Instance(p) /\ q.user = p.user /\ q.start = p.start,
           record' \in {record, None}, UNCHANGED <<starts, window>>,
           \/ child' = child
           \/ /\ child'.pc \notin {"activate", "prove"}
              /\ child'.app \in {child.app, None}
              /\ child'.owns => child.owns /\ child'.app = child.app /\ child'.pc # "snapshot",
           conv.pc # "done" \/ conv'.pc = "done",
           conv'.pc \in {"idle", "prepare", "done"} => child' = NoChild,
           UserAppsKept'
    PROVE  UserInv'
<1>1. conv'.pc # "done" => StartsBound'
  BY DEF UserInv, StartsBound
<1>2. ASSUME child'.pc = "activate", NEW p \in procs', p.user
      PROVE  Instance(p) \in child'.snapshot \cup window'
  <2>1. child' = child
    BY <1>2
  <2> QED
    BY <1>2, <2>1 DEF UserInv
<1>3. \A i, S : UsersIn(i, S) =>
         \A p \in procs' : (p.user /\ Instance(p) = i) => i \in S
  BY DEF UsersIn
<1>4. \A p \in procs' : Instance(p) # None
  <2>1. \A q \in procs : Instance(q) # None
    BY InstanceOf DEF OfficeTypeOK
  <2> QED
    BY <2>1
<1>5. child'.pc = "prove" => UsersIn(child.app, child.snapshot \cup window)'
  BY <1>3 DEF UserInv, UsersIn
<1>6. child'.owns => UsersIn(child.app, window)'
  BY <1>3 DEF UserInv, UsersIn
<1>7. UsersIn(record, window)'
  BY <1>3, <1>4 DEF UserInv, UsersIn
<1> QED
  BY <1>1, <1>2, <1>5, <1>6, <1>7 DEF UserInv

\* A step that starts one process, which is younger than all that is known.
LEMMA UserFresh ==
    ASSUME OfficeTypeOK, UserInv, conv.pc # "done", UNCHANGED <<conv, record>>,
           NEW p \in Process, p.start = starts + 1, starts' = starts + 1,
           procs' = procs \cup {p}, window \subseteq window'
    PROVE  /\ \A q \in procs' : q.start =< starts'
           /\ record' # None => record'.start =< starts'
           /\ child.app # None => child.app.start =< starts'
           /\ UsersIn(record, window)'
           /\ child.app # Instance(p)
           /\ \A i, S : (UsersIn(i, S) /\ i # Instance(p)) =>
                \A q \in procs' : (q.user /\ Instance(q) = i) => i \in S
<1>1. /\ \A q \in procs : q.start \in Nat /\ q.start =< starts
      /\ child.app # None => child.app \in Instances /\ child.app.start =< starts
      /\ record # None => record \in Instances /\ record.start =< starts
      /\ starts \in Nat
  BY DEF OfficeTypeOK, UserInv, StartsBound, Process, Child
<1>2. \A i \in Instances : i.start \in Nat
  BY DEF Instances
<1>3. Instance(p) # None /\ Instance(p).start = starts + 1
  BY InstanceOf
<1>4. child.app # Instance(p) /\ record # Instance(p)
  BY <1>1, <1>2, <1>3
<1>5. \A i, S : (UsersIn(i, S) /\ i # Instance(p)) =>
         \A q \in procs' : (q.user /\ Instance(q) = i) => i \in S
  BY DEF UsersIn
<1>6. UsersIn(record, window)'
  BY <1>4, <1>5 DEF UserInv, UsersIn
<1>7. /\ \A q \in procs' : q.start =< starts'
      /\ record' # None => record'.start =< starts'
      /\ child.app # None => child.app.start =< starts'
  BY <1>1, <1>2
<1> QED
  BY <1>4, <1>5, <1>6, <1>7

\* The converter's own steps: the clean-up ends only what is recorded.
LEMMA ConvertUsers ==
    ASSUME OfficeTypeOK, UserInv, Convert \/ ConvertFails
    PROVE  UserInv'
<1>1. /\ UserAppsKept /\ UsersIn(record, window)
      /\ conv.pc = "prepare" => child = NoChild
  BY DEF UserInv
<1>2. conv \in Conversion /\ procs \in SUBSET Process /\ conv.pc # "done"
  BY DEF OfficeTypeOK, Convert, ConvertFails, Prepare, Spawn, SpawnMissing, Collect, WaitTimesOut,
     CleanupScript, GraceEnds, Clean, PrepareFails, SpawnFails, CleanupFails, CleanFails
<1>3. CASE Prepare \/ PrepareFails
  <2>1. conv'.pc \in {"next", "done"}
    BY <1>2, <1>3 DEF Prepare, PrepareFails, Conversion
  <2>2. UNCHANGED <<procs, record, starts, window, child, ended>> /\ child = NoChild
    BY <1>1, <1>3 DEF Prepare, PrepareFails
  <2>3. UserAppsKept'
    BY <1>1, <2>2 DEF UserAppsKept
  <2> QED
    BY <1>2, <2>1, <2>2, <2>3, UserFrame
<1>4. CASE Spawn
  <2>1. conv'.pc = "wait"
    BY <1>2, <1>4 DEF Spawn, Conversion
  <2>2. UNCHANGED <<procs, starts, window, ended>> /\ record' = None
    BY <1>4 DEF Spawn
  <2>3. child'.pc \in {"snapshot", "launch"} /\ child'.app = None /\ ~child'.owns
    BY <1>4 DEF Spawn, NoChild
  <2>4. UserAppsKept'
    BY <1>1, <2>2 DEF UserAppsKept
  <2> QED
    BY <1>2, <2>1, <2>2, <2>3, <2>4, UserFrame
<1>5. CASE SpawnMissing \/ SpawnFails \/ Collect \/ WaitTimesOut \/ CleanupFails
  <2>1. UNCHANGED <<procs, record, starts, window, child, ended>>
    BY <1>5 DEF SpawnMissing, SpawnFails, Collect, WaitTimesOut, CleanupFails
  <2>2. conv'.pc \in {"next", "clean", "cleanup", "grace"}
    <3>1. ASSUME NEW u \in BOOLEAN PROVE AfterFailure(u).pc \in {"next", "clean"}
      <4>1. ConvertFailed.pc = "clean"
        BY <1>2 DEF ConvertFailed, Conversion
      <4>2. \A n : [conv EXCEPT !.pc = "next", !.at = n].pc = "next"
        BY <1>2 DEF Conversion
      <4> QED
        BY <4>1, <4>2, AfterFailureIs
    <3>2. (child.code = 2) \in BOOLEAN
      OBVIOUS
    <3>3. \A pc : [conv EXCEPT !.pc = pc].pc = pc
      BY <1>2 DEF Conversion
    <3>4. [conv EXCEPT !.pc = "clean", !.result = "ok", !.by = Provider].pc = "clean"
      BY <1>2 DEF Conversion
    <3> QED
      BY <1>5, <3>1, <3>2, <3>3, <3>4
         DEF SpawnMissing, SpawnFails, Collect, WaitTimesOut, CleanupFails
  <2>3. UserAppsKept'
    BY <1>1, <2>1 DEF UserAppsKept
  <2> QED
    BY <1>2, <2>1, <2>2, <2>3, UserFrame
<1>6. CASE CleanupScript
  <2> DEFINE owned == {p \in procs : Instance(p) = record}
  <2>1. /\ procs' = procs \ owned /\ ended' = ended \cup {p \in owned : p.user}
        /\ UNCHANGED <<child, record, starts, window>>
        /\ conv' = [conv EXCEPT !.pc = "grace"]
    BY <1>6 DEF CleanupScript
  <2>2. conv'.pc = "grace"
    BY <1>2, <2>1 DEF Conversion
  <2>3. UserAppsKept'
    BY <1>1, <2>1 DEF UserAppsKept, UsersIn
  <2> QED
    BY <1>2, <2>1, <2>2, <2>3, UserFrame
<1>7. CASE GraceEnds
  <2>1. UNCHANGED <<procs, record, starts, window, ended>> /\ child' = Exits(child.code)
    BY <1>7 DEF GraceEnds
  <2>2. conv'.pc \in {"next", "clean"}
    BY <1>2, <1>7, AfterFailureIs DEF GraceEnds, ConvertFailed, Conversion
  <2>3. child'.pc = "exit" /\ child'.app = None /\ ~child'.owns
    BY <2>1 DEF Exits, NoChild
  <2>4. UserAppsKept'
    BY <1>1, <2>1 DEF UserAppsKept
  <2> QED
    BY <1>2, <2>1, <2>2, <2>3, <2>4, UserFrame
<1>8. CASE Clean \/ CleanFails
  <2>1. /\ child' = NoChild /\ record' = None /\ procs' \subseteq procs
        /\ ended' = {} /\ window' = {}
    BY <1>8 DEF Clean, CleanFails, Forget
  <2>2. conv'.pc = "done"
    BY <1>2, <1>8 DEF Clean, CleanFails, Done, Conversion
  <2>3. \A p \in procs' : Instance(p) # None
    BY <1>2, <2>1, InstanceOf
  <2> QED
    BY <2>1, <2>2, <2>3 DEF UserInv, UsersIn, UserAppsKept, NoChild
<1> QED
  BY <1>3, <1>4, <1>5, <1>6, <1>7, <1>8 DEF Convert, ConvertFails

\* The script's steps: what it proves to be its own was not there before, and is
\* no user's process but one of the window.
LEMMA ChildUsers ==
    ASSUME OfficeTypeOK, UserInv, ChildStep
    PROVE  UserInv'
<1>1. /\ child \in Child /\ procs \in SUBSET Process /\ starts \in Nat
      /\ record \in Instances \cup {None}
  BY DEF OfficeTypeOK
<1>2. child # NoChild
  <2>1. child.pc \in {"snapshot", "activate", "prove", "secure", "export", "quit", "launch"}
    BY DEF ChildStep, Snapshot, ActivateNew, ActivateReuse, ActivateFails, Prove, ProveFails,
       SecureFails, Open, ExportFails, Quit, QuitFails, Launch, LaunchSkips, LauncherDies
  <2> QED
    BY <2>1 DEF NoChild
<1>3. /\ conv.pc \notin {"idle", "prepare", "done"} /\ UserAppsKept /\ StartsBound
      /\ UsersIn(record, window)
      /\ child.owns => UsersIn(child.app, window)
      /\ child.pc \in {"snapshot", "activate"} => ~child.owns
  BY <1>2 DEF UserInv
<1>4. UNCHANGED conv
  BY DEF ChildStep, Snapshot, ActivateNew, ActivateReuse, ActivateFails, Prove, ProveFails,
     SecureFails, Open, ExportFails, Quit, QuitFails, Launch, LaunchSkips, LauncherDies, ChildOnly
<1>5. \A code \in 0 .. 2 :
        /\ Exits(code).pc = "exit" /\ Exits(code).app = None /\ ~Exits(code).owns
        /\ Quits(code).pc = "quit" /\ Quits(code).app = child.app /\ Quits(code).owns = child.owns
  BY ChildEnds
<1>6. child.code \in 0 .. 2
  BY <1>1 DEF Child
<1>7. CASE Snapshot
  <2>1. /\ child' = [child EXCEPT !.pc = "activate", !.snapshot = {Instance(p) : p \in procs}]
        /\ child.pc = "snapshot" /\ UNCHANGED <<procs, record, starts, ended, window>>
    BY <1>7 DEF Snapshot, ChildOnly
  <2>2. /\ child'.pc = "activate" /\ child'.app = child.app /\ child'.owns = child.owns
        /\ \A p \in procs : Instance(p) \in child'.snapshot
    BY <1>1, <2>1 DEF Child
  <2>3. StartsBound'
    BY <1>3, <2>1, <2>2 DEF StartsBound
  <2> QED
    BY <1>3, <1>4, <2>1, <2>2, <2>3 DEF UserInv, UsersIn, UserAppsKept
<1>8. CASE ActivateNew \/ Launch
  <2>1. PICK p \in Process, pc \in {"prove", "export"}, owns \in BOOLEAN :
          /\ p.start = starts + 1 /\ ~p.user
          /\ procs' = procs \cup {p}
          /\ child' = [child EXCEPT !.pc = pc, !.app = Instance(p), !.owns = owns]
    <3>1. CASE ActivateNew
      <4>1. PICK p \in NewProcess(Provider, FALSE, FALSE) :
              /\ procs' = procs \cup {p}
              /\ child' = [child EXCEPT !.pc = "prove", !.app = Instance(p)]
        BY <3>1 DEF ActivateNew
      <4>2. child' = [child EXCEPT !.pc = "prove", !.app = Instance(p), !.owns = child.owns]
        BY <1>1, <4>1 DEF Child
      <4>3. child.owns \in BOOLEAN
        BY <1>1 DEF Child
      <4>4. p \in Process /\ p.start = starts + 1 /\ ~p.user
        BY <1>1, <4>1, ProviderNames, NewProcessIs
      <4> QED
        BY <4>1, <4>2, <4>3, <4>4
    <3>2. CASE Launch
      <4>1. PICK p \in NewProcess("LibreOffice", FALSE, TRUE) :
              /\ procs' = procs \cup {p}
              /\ child' = [child EXCEPT !.pc = "export", !.app = Instance(p), !.owns = TRUE]
        BY <3>2 DEF Launch
      <4> QED
        BY <1>1, <4>1, NewProcessIs DEF Names
    <3> QED
      BY <1>8, <3>1, <3>2
  <2>2. child'.pc \in {"prove", "export"} /\ child'.app = Instance(p)
    BY <1>1, <2>1 DEF Child
  <2>3. starts' = starts + 1 /\ UNCHANGED <<record, ended, window>>
    BY <1>8 DEF ActivateNew, Launch
  <2>4. /\ \A q \in procs' : q.start =< starts'
        /\ record' # None => record'.start =< starts'
        /\ UsersIn(record, window)'
    BY <1>3, <1>4, <2>1, <2>3, UserFresh
  <2>5. Instance(p).start = starts'
    BY <2>1, <2>3, InstanceOf
  <2>6. \A q \in procs : Instance(q) # Instance(p)
    <3>1. \A q \in procs : Instance(q).start = q.start /\ q.start =< starts /\ q.start \in Nat
      BY <1>1, <1>3, InstanceOf DEF StartsBound, Process
    <3> QED
      BY <1>1, <2>3, <2>5, <3>1
  <2>7. \A S : \A q \in procs' : (q.user /\ Instance(q) = Instance(p)) => Instance(p) \in S
    BY <2>1, <2>6
  <2>8. StartsBound'
    BY <1>1, <2>2, <2>3, <2>4, <2>5 DEF StartsBound
  <2> QED
    BY <1>3, <1>4, <2>2, <2>3, <2>4, <2>7, <2>8 DEF UserInv, UsersIn, UserAppsKept
<1>9. CASE ActivateReuse
  <2>1. PICK p \in procs : ChildOnly([child EXCEPT !.pc = "prove", !.app = Instance(p)])
    BY <1>9 DEF ActivateReuse
  <2>2. /\ child' = [child EXCEPT !.pc = "prove", !.app = Instance(p)]
        /\ UNCHANGED <<procs, record, starts, ended, window>>
    BY <2>1 DEF ChildOnly
  <2>3. /\ child'.pc = "prove" /\ child'.app = Instance(p) /\ child'.snapshot = child.snapshot
        /\ child'.owns = child.owns
    BY <1>1, <2>2 DEF Child
  <2>4. \A q \in procs : q.user => Instance(q) \in child.snapshot \cup window
    BY <1>9 DEF ActivateReuse, UserInv
  <2>5. ~child.owns /\ child.pc = "activate"
    BY <1>9 DEF ActivateReuse, UserInv
  <2>6. Instance(p).start =< starts
    BY <1>1, <1>3, InstanceOf DEF StartsBound
  <2>7. StartsBound'
    BY <1>3, <2>2, <2>3, <2>6 DEF StartsBound
  <2> QED
    BY <1>3, <1>4, <2>2, <2>3, <2>4, <2>5, <2>7 DEF UserInv, UsersIn, UserAppsKept
<1>10. CASE Prove
  <2>1. /\ child' = [child EXCEPT !.pc = "secure", !.owns = TRUE, !.snapshot = {}]
        /\ record' = child.app /\ child.app \notin child.snapshot /\ child.pc = "prove"
        /\ UNCHANGED <<procs, starts, ended, window>>
    BY <1>10 DEF Prove
  <2>2. child'.pc = "secure" /\ child'.app = child.app
    BY <1>1, <2>1 DEF Child
  <2>3. UsersIn(child.app, window)
    BY <2>1 DEF UserInv, UsersIn
  <2>4. StartsBound'
    BY <1>3, <2>1, <2>2 DEF StartsBound
  <2> QED
    BY <1>3, <1>4, <2>1, <2>2, <2>3, <2>4 DEF UserInv, UsersIn, UserAppsKept
<1>11. ASSUME \A p \in procs' : \E q \in procs :
                  Instance(q) = Instance(p) /\ q.user = p.user /\ q.start = p.start,
              UNCHANGED <<record, starts, window>>, UserAppsKept',
              child'.pc \notin {"activate", "prove"}, child'.app \in {child.app, None},
              child'.owns => child.owns /\ child'.app = child.app, child'.pc # "snapshot"
       PROVE  UserInv'
  BY <1>3, <1>4, <1>11, UserFrame
<1>12. CASE ActivateFails \/ ProveFails \/ SecureFails \/ ExportFails \/ LaunchSkips
            \/ QuitFails \/ LauncherDies
  <2>1. PICK code \in 0 .. 2 : child' \in {Exits(code), Quits(code)}
    BY <1>6, <1>12 DEF ActivateFails, ProveFails, SecureFails, ExportFails, LaunchSkips,
       QuitFails, LauncherDies, ChildOnly
  <2>2. UNCHANGED <<procs, record, starts, ended, window>>
    BY <1>12 DEF ActivateFails, ProveFails, SecureFails, ExportFails, LaunchSkips,
       QuitFails, LauncherDies, ChildOnly
  <2>3. UserAppsKept'
    BY <1>3, <2>2 DEF UserAppsKept
  <2>4. /\ child'.pc \notin {"snapshot", "activate", "prove"} /\ child'.app \in {child.app, None}
        /\ child'.owns => child.owns /\ child'.app = child.app
    BY <1>5, <2>1
  <2> QED
    BY <1>11, <2>2, <2>3, <2>4
<1>13. CASE Open
  <2>1. /\ child' = [child EXCEPT !.pc = "export"]
        /\ procs' = {IF Instance(p) = child.app THEN [p EXCEPT !.open = TRUE] ELSE p : p \in procs}
        /\ UNCHANGED <<record, starts, ended, window>>
    BY <1>13 DEF Open
  <2>2. child'.pc = "export" /\ child'.app = child.app /\ child'.owns = child.owns
    BY <1>1, <2>1 DEF Child
  <2>3. ASSUME NEW p \in procs'
        PROVE  \E q \in procs : Instance(q) = Instance(p) /\ q.user = p.user /\ q.start = p.start
    <3>1. PICK q \in procs : p = q \/ p = [q EXCEPT !.open = TRUE]
      BY <2>1
    <3>2. q \in Process
      BY <1>1
    <3>3. /\ Instance([q EXCEPT !.open = TRUE]) = Instance(q)
          /\ [q EXCEPT !.open = TRUE].user = q.user /\ [q EXCEPT !.open = TRUE].start = q.start
      BY <3>2, Reopened
    <3> QED
      BY <3>1, <3>3
  <2>4. UserAppsKept'
    BY <1>3, <2>1 DEF UserAppsKept
  <2> QED
    BY <1>11, <2>1, <2>2, <2>3, <2>4
<1>14. CASE Quit
  <2> DEFINE owned == {p \in Running(child.app) : child.owns}
  <2>1. /\ procs' = procs \ owned /\ ended' = ended \cup {p \in owned : p.user}
        /\ child' = Exits(child.code) /\ UNCHANGED <<record, starts, window>>
    BY <1>14 DEF Quit
  <2>2. UserAppsKept'
    <3>1. \A p \in owned : p.user => Instance(p) \in window
      BY <1>3 DEF UsersIn, Running
    <3> QED
      BY <1>3, <2>1, <3>1 DEF UserAppsKept
  <2> QED
    BY <1>5, <1>6, <1>11, <2>1, <2>2
<1> QED
  BY <1>7, <1>8, <1>9, <1>10, <1>12, <1>13, <1>14 DEF ChildStep

\* The applications and the user: one that the user starts is younger than what
\* the script knows, or in the window.
LEMMA DesktopUsers ==
    ASSUME OfficeTypeOK, UserInv, AppWrites \/ AppExits \/ UserStarts \/ UserCloses
    PROVE  UserInv'
<1>1. /\ child \in Child /\ procs \in SUBSET Process /\ starts \in Nat
      /\ conv.pc \in {"idle", "prepare", "done"} => child = NoChild
  BY DEF OfficeTypeOK, UserInv
<1>2. UNCHANGED <<conv, record, ended>>
  BY DEF AppWrites, AppExits, UserStarts, UserCloses
<1>3. ASSUME UNCHANGED window PROVE UserAppsKept'
  BY <1>2, <1>3 DEF UserInv, UserAppsKept
<1>4. CASE AppWrites
  <2>1. PICK p \in procs :
          /\ procs' = (procs \ {p}) \cup {[p EXCEPT !.open = FALSE]}
          /\ child' = IF child.pc = "export" /\ child.app = Instance(p) THEN Quits(0) ELSE child
    BY <1>4 DEF AppWrites
  <2>2. UNCHANGED <<starts, window>>
    BY <1>4 DEF AppWrites
  <2>3. ASSUME NEW r \in procs'
        PROVE  \E q \in procs : Instance(q) = Instance(r) /\ q.user = r.user /\ q.start = r.start
    BY <1>1, <2>1, Reopened
  <2>4. \/ child' = child
        \/ /\ child.pc = "export" /\ child'.pc = "quit"
           /\ child'.app = child.app /\ child'.owns = child.owns
    BY <2>1, ChildEnds
  <2>5. conv'.pc \in {"idle", "prepare", "done"} => child' = NoChild
    BY <1>1, <1>2, <2>4 DEF NoChild
  <2> QED
    BY <1>2, <1>3, <2>2, <2>3, <2>4, <2>5, UserFrame
<1>5. CASE AppExits \/ UserCloses
  <2>1. UNCHANGED <<starts, window, child>> /\ procs' \subseteq procs
    BY <1>5 DEF AppExits, UserCloses
  <2> QED
    BY <1>1, <1>2, <1>3, <2>1, UserFrame
<1>6. CASE UserStarts
  <2>1. PICK p \in Process :
          /\ p.start = starts + 1 /\ procs' = procs \cup {p}
          /\ window' = IF child.pc = "activate" THEN window \cup {Instance(p)} ELSE window
    <3>1. PICK name \in Com : \E p \in NewProcess(name, TRUE, FALSE) :
            /\ procs' = procs \cup {p}
            /\ window' = IF child.pc = "activate" THEN window \cup {Instance(p)} ELSE window
      BY <1>6 DEF UserStarts
    <3>2. \A p \in NewProcess(name, TRUE, FALSE) : p \in Process /\ p.start = starts + 1
      BY <1>1, NewProcessIs DEF Names
    <3> QED
      BY <3>1, <3>2
  <2>2. starts' = starts + 1 /\ UNCHANGED child /\ conv.pc # "done"
    BY <1>6 DEF UserStarts
  <2>3. /\ \A q \in procs' : q.start =< starts'
        /\ record' # None => record'.start =< starts'
        /\ child.app # None => child.app.start =< starts'
        /\ UsersIn(record, window)'
        /\ child.app # Instance(p)
        /\ \A i, S : (UsersIn(i, S) /\ i # Instance(p)) =>
             \A q \in procs' : (q.user /\ Instance(q) = i) => i \in S
    BY <1>2, <2>1, <2>2, UserFresh
  <2>4. UserAppsKept'
    BY <1>2, <2>1 DEF UserInv, UserAppsKept
  <2>5. child.pc = "activate" =>
          \A q \in procs' : q.user => Instance(q) \in child.snapshot \cup window'
    BY <2>1 DEF UserInv
  <2>6. child.pc = "prove" => UsersIn(child.app, child.snapshot \cup window)'
    BY <2>1, <2>2, <2>3 DEF UserInv, UsersIn
  <2>7. child.owns => UsersIn(child.app, window)'
    BY <2>1, <2>2, <2>3 DEF UserInv, UsersIn
  <2>8. StartsBound'
    BY <2>2, <2>3 DEF StartsBound
  <2> QED
    BY <1>1, <1>2, <2>2, <2>3, <2>4, <2>5, <2>6, <2>7, <2>8 DEF UserInv
<1> QED
  BY <1>4, <1>5, <1>6

\* Every step of the conversion, its child or the desktop keeps the users' processes.
LEMMA OfficeUsers ==
    ASSUME OfficeTypeOK, UserInv, OfficeNext
    PROVE  UserInv'
BY ConvertUsers, ChildUsers, DesktopUsers DEF OfficeNext

-----------------------------------------------------------------------------
(* The conversion: its output *)

\* A step of a conversion under way that opens and writes nothing.
LEMMA OutputFrame ==
    ASSUME ConvertInv, conv.pc \notin {"idle", "done"}, conv'.pc \notin {"idle", "done"},
           UNCHANGED <<platform, out>>, conv'.at = conv.at, procs' \subseteq procs,
           conv'.pc \in {"next", "clean"} => child'.pc \in {"none", "exit"},
           child' = child \/ child'.pc \in {"quit", "exit"},
           Unopened' => Unopened,
           conv'.result = "ok" => conv' = conv
    PROVE  ConvertInv'
<1>1. Provider' = Provider
  BY DEF Provider, Providers, Windows
<1>2. NoneOpen => NoneOpen'
  BY DEF NoneOpen
<1>3. Unopened' => out' = NoFile /\ NoneOpen'
  BY <1>2 DEF ConvertInv, NoFile
<1>4. OneWriter'
  BY <1>1, <1>2 DEF ConvertInv, OneWriter, NoFile
<1>5. /\ child'.pc = "launch" => Provider' = "LibreOffice"
      /\ child'.pc \in {"snapshot", "activate"} => Provider' \in Com
      /\ child'.pc \in {"prove", "secure"} => child'.app # None /\ child'.app.name = Provider'
  BY <1>1 DEF ConvertInv
<1>6. conv'.result = "ok" =>
        /\ conv'.pc \in {"clean", "done"} /\ NoneOpen'
        /\ \/ out' = [kind |-> "pdf", by |-> conv'.by]
           \/ conv'.pc = "done" /\ out' = NoFile
  BY <1>2 DEF ConvertInv
<1>7. \A p, q \in procs' : p.start = q.start => p = q
  BY DEF ConvertInv
<1> QED
  BY <1>3, <1>4, <1>5, <1>6, <1>7 DEF ConvertInv, Com, NoFile

\* A conversion under way that has not succeeded: before its end.
LEMMA UnderWay ==
    ASSUME OfficeTypeOK, ConvertInv, conv.pc \notin {"clean", "done"}
    PROVE  conv.result \in {"none", "err"}
BY DEF OfficeTypeOK, Conversion, ConvertInv

\* The converter's own steps: only a converter that has opened nothing hands over
\* to the next one.
LEMMA ConvertOutput ==
    ASSUME OfficeTypeOK, UserInv, ConvertInv, Convert \/ ConvertFails, conv.pc # "idle"
    PROVE  ConvertInv'
<1>1. /\ conv \in Conversion /\ child \in Child /\ procs \in SUBSET Process
      /\ conv.pc = "prepare" => child = NoChild
      /\ conv.pc \in {"next", "clean"} => child.pc \in {"none", "exit"}
      /\ Unopened => out = NoFile /\ NoneOpen
  BY DEF OfficeTypeOK, UserInv, ConvertInv
<1>2. \A pc : /\ [conv EXCEPT !.pc = pc].pc = pc /\ [conv EXCEPT !.pc = pc].at = conv.at
              /\ [conv EXCEPT !.pc = pc].result = conv.result
  BY <1>1 DEF Conversion
<1>3. ConvertFailed.pc = "clean" /\ ConvertFailed.at = conv.at /\ ConvertFailed.result = "err"
  BY <1>1 DEF Conversion, ConvertFailed
<1>4. ASSUME conv.pc \notin {"idle", "prepare", "done"}, conv' = ConvertFailed,
             UNCHANGED <<platform, out, procs>>,
             child' = child \/ (child'.pc = "exit" /\ child'.code = child.code),
             child'.pc \in {"none", "exit"}
      PROVE  ConvertInv'
  <2>1. Unopened' => Unopened
    BY <1>3, <1>4 DEF Unopened
  <2> QED
    BY <1>3, <1>4, <2>1, OutputFrame
<1>5. ASSUME conv.pc \notin {"idle", "prepare", "done"}, Unopened, child.pc \in {"none", "exit"},
             conv.result # "ok", conv.at \in 1 .. 2,
             conv' = [conv EXCEPT !.pc = "next", !.at = conv.at + 1],
             UNCHANGED <<platform, out, procs, child>>
      PROVE  ConvertInv'
  <2>1. conv'.pc = "next" /\ conv'.result = conv.result
    BY <1>1, <1>5 DEF Conversion
  <2>2. out' = NoFile /\ NoneOpen'
    BY <1>1, <1>5 DEF NoneOpen
  <2>3. OneWriter'
    BY <2>2 DEF OneWriter, NoneOpen, NoFile
  <2>4. \A p, q \in procs' : p.start = q.start => p = q
    BY <1>5 DEF ConvertInv
  <2> QED
    BY <1>5, <2>1, <2>2, <2>3, <2>4 DEF ConvertInv, NoFile
<1>6. CASE Prepare
  <2>1. /\ conv.pc = "prepare" /\ conv' = [conv EXCEPT !.pc = "next"]
        /\ UNCHANGED <<platform, out, procs, child>>
    BY <1>6 DEF Prepare
  <2>2. Unopened /\ conv.result # "ok" /\ child.pc = "none"
    BY <1>1, <2>1, UnderWay DEF Unopened, NoChild
  <2> QED
    BY <1>2, <2>1, <2>2, OutputFrame
<1>7. CASE PrepareFails
  <2>1. /\ conv.pc = "prepare" /\ conv' = [conv EXCEPT !.pc = "done", !.result = "err"]
        /\ UNCHANGED <<out, procs, child>> /\ child = NoChild
    BY <1>1, <1>7 DEF PrepareFails
  <2>2. conv'.pc = "done" /\ conv'.result = "err"
    BY <1>1, <2>1 DEF Conversion
  <2>3. \A p, q \in procs' : p.start = q.start => p = q
    BY <2>1 DEF ConvertInv
  <2> QED
    BY <2>1, <2>2, <2>3 DEF ConvertInv, Unopened, NoChild
<1>8. CASE Spawn
  <2>1. /\ conv.pc = "next" /\ conv' = [conv EXCEPT !.pc = "wait"]
        /\ child' = [NoChild EXCEPT !.pc = IF Provider \in Com THEN "snapshot" ELSE "launch"]
        /\ UNCHANGED <<platform, out, procs>>
    BY <1>8 DEF Spawn, host
  <2>2. Provider' = Provider /\ Provider \in Names
    BY <1>2, <2>1, ProviderNames DEF Provider, Providers, Windows
  <2>3. child'.pc = (IF Provider \in Com THEN "snapshot" ELSE "launch")
    BY <2>1 DEF NoChild
  <2>4. out' = NoFile /\ NoneOpen' /\ conv'.result # "ok" /\ conv'.pc = "wait"
    BY <1>1, <1>2, <2>1, UnderWay DEF Unopened, NoneOpen
  <2>5. OneWriter'
    BY <2>4 DEF OneWriter, NoneOpen, NoFile
  <2>6. \A p, q \in procs' : p.start = q.start => p = q
    BY <2>1 DEF ConvertInv
  <2>7. child'.pc = "launch" => Provider' = "LibreOffice"
    BY <2>2, <2>3 DEF Names
  <2>8. /\ child'.pc \in {"snapshot", "launch"} /\ (child'.pc = "snapshot" => Provider' \in Com)
        /\ child'.code = 0
    BY <2>1, <2>2, <2>3 DEF NoChild
  <2> QED
    BY <2>4, <2>5, <2>6, <2>7, <2>8 DEF ConvertInv, NoFile, Com
<1>9. CASE SpawnMissing \/ SpawnFails
  <2>1. /\ conv.pc = "next" /\ UNCHANGED <<platform, out, procs, child>>
        /\ \E u \in BOOLEAN : conv' = AfterFailure(u)
    BY <1>9 DEF SpawnMissing, SpawnFails, host
  <2>2. Unopened /\ conv.result # "ok" /\ child.pc \in {"none", "exit"}
    BY <1>1, <2>1, UnderWay DEF Unopened
  <2>3. \/ conv' = ConvertFailed
        \/ /\ conv.at \in 1 .. 2
           /\ conv' = [conv EXCEPT !.pc = "next", !.at = conv.at + 1]
    BY <2>1, AfterFailureIs
  <2> QED
    BY <1>4, <1>5, <2>1, <2>2, <2>3
<1>10. CASE Collect
  <2>1. /\ conv.pc = "wait" /\ child.pc = "exit" /\ UNCHANGED <<platform, out, procs, child>>
        /\ \/ conv' = AfterFailure(child.code = 2 /\ Provider \in Com)
           \/ /\ out.kind = "pdf"
              /\ conv' = [conv EXCEPT !.pc = "clean", !.result = "ok", !.by = Provider]
    BY <1>10 DEF Collect, validate_pdf, host
  <2>2. conv.result # "ok"
    BY <2>1, UnderWay
  <2>3. ASSUME conv' = AfterFailure(child.code = 2 /\ Provider \in Com) PROVE ConvertInv'
    <3>1. \/ conv' = ConvertFailed
          \/ /\ conv.at \in 1 .. 2 /\ child.code = 2
             /\ conv' = [conv EXCEPT !.pc = "next", !.at = conv.at + 1]
      BY <2>3, AfterFailureIs
    <3>2. child.code = 2 => Unopened
      BY DEF Unopened
    <3> QED
      BY <1>4, <1>5, <2>1, <2>2, <3>1, <3>2
  <2>4. ASSUME out.kind = "pdf",
               conv' = [conv EXCEPT !.pc = "clean", !.result = "ok", !.by = Provider]
        PROVE  ConvertInv'
    <3>1. conv'.pc = "clean" /\ conv'.at = conv.at /\ conv'.by = Provider
      BY <1>1, <2>4 DEF Conversion
    <3>2. Provider' = Provider
      BY <2>1, <3>1 DEF Provider, Providers, Windows
    <3>3. out # NoFile
      BY <2>4 DEF NoFile
    <3>4. out.by = Provider /\ NoneOpen
      BY <2>1, <3>3 DEF ConvertInv, OneWriter
    <3>5. out = [kind |-> "pdf", by |-> Provider]
      BY <2>4, <3>4 DEF OfficeTypeOK, File
    <3>6. OneWriter' /\ NoneOpen' /\ ~Unopened'
      BY <1>1, <2>1, <3>1, <3>2, <3>3, <3>4 DEF OneWriter, NoneOpen, Unopened
    <3>7. \A p, q \in procs' : p.start = q.start => p = q
      BY <2>1 DEF ConvertInv
    <3> QED
      BY <2>1, <3>1, <3>5, <3>6, <3>7 DEF ConvertInv
  <2> QED
    BY <2>1, <2>3, <2>4
<1>11. CASE WaitTimesOut \/ CleanupScript \/ CleanupFails
  <2>1. /\ conv.pc \in {"wait", "cleanup"} /\ UNCHANGED <<platform, out, child>>
        /\ procs' \subseteq procs
        /\ \E pc \in {"cleanup", "grace"} : conv' = [conv EXCEPT !.pc = pc]
    BY <1>11 DEF WaitTimesOut, CleanupScript, CleanupFails, host
  <2>2. conv'.pc \in {"cleanup", "grace"} /\ conv'.at = conv.at /\ conv'.result = conv.result
    BY <1>2, <2>1
  <2>3. conv.result # "ok"
    BY <2>1, UnderWay
  <2>4. Unopened' => Unopened
    BY <2>1, <2>2 DEF Unopened
  <2> QED
    BY <2>1, <2>2, <2>3, <2>4, OutputFrame
<1>12. CASE GraceEnds
  <2>1. /\ conv.pc = "grace" /\ child' = Exits(child.code) /\ conv' = AfterFailure(FALSE)
        /\ UNCHANGED <<platform, out, procs>>
    BY <1>12 DEF GraceEnds, host
  <2>2. child.code \in 0 .. 2
    BY <1>1 DEF Child
  <2>3. child'.pc = "exit" /\ child'.code = child.code
    BY <2>1, <2>2, ChildEnds
  <2>4. conv' = ConvertFailed
    BY <2>1, AfterFailureIs
  <2> QED
    BY <1>4, <2>1, <2>3, <2>4
<1>13. CASE Clean \/ CleanFails
  <2>1. PICK result : conv' = Done(result) /\ (result = "ok" => conv.result = "ok" /\ out' = out)
    <3>1. CASE Clean
      <4>1. conv' = Done(IF InUse THEN "err" ELSE conv.result)
        BY <3>1 DEF Clean
      <4>2. conv'.result = (IF InUse THEN "err" ELSE conv.result)
        BY <1>1, <4>1 DEF Done, Conversion
      <4> QED
        BY <3>1, <4>1, <4>2 DEF Clean
    <3>2. CASE CleanFails
      BY <3>2 DEF CleanFails
    <3> QED
      BY <1>13, <3>1, <3>2
  <2>2. conv'.pc = "done" /\ conv'.result = result /\ conv'.by = conv.by
    BY <1>1, <2>1 DEF Done, Conversion
  <2>3. child' = NoChild /\ procs' \subseteq procs /\ conv.pc = "clean"
    BY <1>13 DEF Clean, CleanFails, Forget
  <2>4. \A p, q \in procs' : p.start = q.start => p = q
    BY <2>3 DEF ConvertInv
  <2>5. conv'.result = "ok" => NoneOpen' /\ out' = [kind |-> "pdf", by |-> conv'.by]
    BY <2>1, <2>2, <2>3 DEF ConvertInv, NoneOpen
  <2>6. ~Unopened' /\ child'.pc = "none" /\ child'.code = 0
    BY <2>2, <2>3 DEF Unopened, NoChild
  <2> QED
    BY <2>2, <2>4, <2>5, <2>6 DEF ConvertInv
<1> QED
  BY <1>6, <1>7, <1>8, <1>9, <1>10, <1>11, <1>12, <1>13 DEF Convert, ConvertFails

\* A new process has a start time of its own.
LEMMA FreshStart ==
    ASSUME OfficeTypeOK, UserInv, ConvertInv, conv.pc # "done",
           NEW p \in Process, p.start = starts + 1, procs' = procs \cup {p}
    PROVE  \A r, q \in procs' : r.start = q.start => r = q
<1>1. starts \in Nat /\ \A q \in procs : q.start \in Nat /\ q.start =< starts
  BY DEF OfficeTypeOK, UserInv, StartsBound, Process
<1>2. \A q \in procs : q.start # p.start
  BY <1>1
<1>3. \A r, q \in procs : r.start = q.start => r = q
  BY DEF ConvertInv
<1> QED
  BY <1>2, <1>3

\* The script's steps: the application that gets the document is the one of the
\* provider under way, and the only one.
LEMMA ChildOutput ==
    ASSUME OfficeTypeOK, UserInv, ConvertInv, ChildStep
    PROVE  ConvertInv'
<1>1. /\ conv \in Conversion /\ child \in Child /\ procs \in SUBSET Process /\ starts \in Nat
      /\ Unopened => out = NoFile /\ NoneOpen
      /\ child.code # 0 => child.pc \in {"quit", "exit"}
  BY DEF OfficeTypeOK, ConvertInv
<1>2. child.pc \in {"snapshot", "activate", "prove", "secure", "export", "quit", "launch"}
  BY DEF ChildStep, Snapshot, ActivateNew, ActivateReuse, ActivateFails, Prove, ProveFails,
     SecureFails, Open, ExportFails, Quit, QuitFails, Launch, LaunchSkips, LauncherDies
<1>3. conv.pc \in {"wait", "cleanup", "grace"}
  BY <1>1, <1>2 DEF UserInv, ConvertInv, NoChild, Conversion
<1>4. conv.result # "ok" /\ OneWriter
  BY <1>3, UnderWay DEF ConvertInv
<1>5. UNCHANGED <<conv, platform, out>>
  BY DEF ChildStep, Snapshot, ActivateNew, ActivateReuse, ActivateFails, Prove, ProveFails,
     SecureFails, Open, ExportFails, Quit, QuitFails, Launch, LaunchSkips, LauncherDies, ChildOnly,
     host
<1>6. Provider' = Provider /\ Provider \in Names
  BY <1>5, ProviderNames DEF Provider, Providers, Windows
<1>7. child.code \in 0 .. 2
  BY <1>1 DEF Child
<1>8. \A p, q \in procs : p.start = q.start => p = q
  BY DEF ConvertInv
<1>9. ASSUME Unopened, NoneOpen', child'.code = child.code, child.pc \notin {"quit", "exit"},
             child'.pc \in {"activate", "prove", "secure"},
             child'.pc = "activate" => Provider \in Com,
             child'.pc \in {"prove", "secure"} => child'.app # None /\ child'.app.name = Provider,
             \A p, q \in procs' : p.start = q.start => p = q
      PROVE  ConvertInv'
  <2>1. out' = NoFile
    BY <1>1, <1>5, <1>9
  <2>2. OneWriter'
    BY <1>9, <2>1 DEF OneWriter, NoneOpen, NoFile
  <2> QED
    BY <1>3, <1>4, <1>5, <1>6, <1>9, <2>1, <2>2 DEF ConvertInv, NoFile, Com
<1>10. CASE Snapshot
  <2>1. /\ child' = [child EXCEPT !.pc = "activate", !.snapshot = {Instance(p) : p \in procs}]
        /\ UNCHANGED procs /\ child.pc = "snapshot"
    BY <1>10 DEF Snapshot, ChildOnly
  <2>2. child'.pc = "activate" /\ child'.code = child.code
    BY <1>1, <2>1 DEF Child
  <2>3. Unopened /\ Provider \in Com
    BY <2>1 DEF Unopened, ConvertInv
  <2>4. NoneOpen'
    BY <1>1, <2>1, <2>3 DEF NoneOpen
  <2> QED
    BY <1>8, <1>9, <2>1, <2>2, <2>3, <2>4
<1>11. CASE ActivateNew
  <2>1. PICK p \in NewProcess(Provider, FALSE, FALSE) :
          /\ procs' = procs \cup {p}
          /\ child' = [child EXCEPT !.pc = "prove", !.app = Instance(p)]
    BY <1>11 DEF ActivateNew
  <2>2. p \in Process /\ p.start = starts + 1 /\ p.name = Provider /\ ~p.open
    BY <1>1, <1>6, <2>1, NewProcessIs
  <2>3. child'.pc = "prove" /\ child'.code = child.code /\ child'.app = Instance(p)
    BY <1>1, <2>1 DEF Child
  <2>4. Instance(p) # None /\ Instance(p).name = Provider
    BY <2>2, InstanceOf
  <2>5. Unopened /\ child.pc = "activate"
    BY <1>11 DEF ActivateNew, Unopened
  <2>6. NoneOpen'
    BY <1>1, <2>1, <2>2, <2>5 DEF NoneOpen
  <2>7. \A r, q \in procs' : r.start = q.start => r = q
    BY <1>3, <2>1, <2>2, FreshStart
  <2> QED
    BY <1>9, <2>3, <2>4, <2>5, <2>6, <2>7
<1>12. CASE ActivateReuse
  <2>1. PICK p \in procs :
          /\ p.name = Provider /\ UNCHANGED procs
          /\ child' = [child EXCEPT !.pc = "prove", !.app = Instance(p)]
    BY <1>12 DEF ActivateReuse, ChildOnly
  <2>2. /\ child'.pc = "prove" /\ child'.code = child.code /\ child'.app = Instance(p)
    BY <1>1, <2>1 DEF Child
  <2>3. Instance(p) # None /\ Instance(p).name = Provider
    BY <1>1, <2>1, InstanceOf
  <2>4. Unopened /\ child.pc = "activate"
    BY <1>12 DEF ActivateReuse, Unopened
  <2>5. NoneOpen'
    BY <1>1, <2>1, <2>4 DEF NoneOpen
  <2> QED
    BY <1>8, <1>9, <2>1, <2>2, <2>3, <2>4, <2>5
<1>13. CASE Prove
  <2>1. /\ child' = [child EXCEPT !.pc = "secure", !.owns = TRUE, !.snapshot = {}]
        /\ child.pc = "prove" /\ UNCHANGED procs
    BY <1>13 DEF Prove
  <2>2. child'.pc = "secure" /\ child'.code = child.code /\ child'.app = child.app
    BY <1>1, <2>1 DEF Child
  <2>3. Unopened /\ child.app # None /\ child.app.name = Provider
    BY <2>1 DEF Unopened, ConvertInv
  <2>4. NoneOpen'
    BY <1>1, <2>1, <2>3 DEF NoneOpen
  <2> QED
    BY <1>8, <1>9, <2>1, <2>2, <2>3, <2>4
<1>14. CASE ActivateFails \/ ProveFails \/ SecureFails \/ ExportFails \/ LaunchSkips
            \/ Quit \/ QuitFails \/ LauncherDies
  <2>1. PICK code \in 0 .. 2 :
          /\ child' \in {Exits(code), Quits(code)}
          /\ code = 2 => Unopened
    BY <1>7, <1>14 DEF ActivateFails, ProveFails, SecureFails, ExportFails, LaunchSkips,
       Quit, QuitFails, LauncherDies, ChildOnly, Unopened
  <2>2. procs' \subseteq procs
    BY <1>14 DEF ActivateFails, ProveFails, SecureFails, ExportFails, LaunchSkips,
       Quit, QuitFails, LauncherDies, ChildOnly
  <2>3. child'.pc \in {"exit", "quit"} /\ child'.code = code
    BY <2>1, ChildEnds
  <2>4. Unopened' => Unopened
    BY <1>3, <1>5, <2>1, <2>3 DEF Unopened
  <2> QED
    BY <1>3, <1>4, <1>5, <2>2, <2>3, <2>4, OutputFrame
<1>15. ASSUME out = NoFile, child'.pc = "export", child'.code = 0,
              \A p \in procs' : p.open => p.name = Provider,
              \A p, q \in procs' : p.open /\ q.open => p = q,
              \A p, q \in procs' : p.start = q.start => p = q
       PROVE  ConvertInv'
  <2>1. OneWriter'
    BY <1>5, <1>6, <1>15 DEF OneWriter, NoFile
  <2>2. ~Unopened'
    BY <1>3, <1>5, <1>15 DEF Unopened
  <2> QED
    BY <1>3, <1>4, <1>5, <1>15, <2>1, <2>2 DEF ConvertInv
<1>16. CASE Open
  <2> DEFINE O(p) == IF Instance(p) = child.app THEN [p EXCEPT !.open = TRUE] ELSE p
  <2>1. /\ child' = [child EXCEPT !.pc = "export"] /\ child.pc = "secure"
        /\ procs' = {O(p) : p \in procs}
    BY <1>16 DEF Open
  <2>2. out = NoFile /\ NoneOpen /\ child.code = 0 /\ child.app # None /\ child.app.name = Provider
    BY <1>1, <2>1 DEF Unopened, ConvertInv
  <2>3. child'.pc = "export" /\ child'.code = child.code
    BY <1>1, <2>1 DEF Child
  <2>4. ASSUME NEW p \in procs
        PROVE  /\ O(p).start = p.start /\ O(p).name = p.name
               /\ O(p).open => Instance(p) = child.app
               /\ Instance(p).start = p.start /\ Instance(p).name = p.name
    BY <1>1, <2>2, Reopened, InstanceOf DEF NoneOpen
  <2> HIDE DEF O
  <2>5. ASSUME NEW p \in procs, NEW q \in procs, O(p).open, O(q).open PROVE p = q
    BY <1>8, <2>4, <2>5
  <2>6. ASSUME NEW p \in procs, O(p).open PROVE O(p).name = Provider
    BY <2>2, <2>4, <2>6
  <2>7. ASSUME NEW p \in procs, NEW q \in procs, O(p).start = O(q).start PROVE O(p) = O(q)
    BY <1>8, <2>4, <2>7
  <2>8. \A p, q \in procs' : p.open /\ q.open => p = q
    BY <2>1, <2>5
  <2>9. \A p, q \in procs' : p.start = q.start => p = q
    BY <2>1, <2>7
  <2>10. \A p \in procs' : p.open => p.name = Provider
    BY <2>1, <2>6
  <2> QED
    BY <1>15, <2>2, <2>3, <2>8, <2>9, <2>10
<1>17. CASE Launch
  <2>1. PICK p \in NewProcess("LibreOffice", FALSE, TRUE) :
          /\ procs' = procs \cup {p}
          /\ child' = [child EXCEPT !.pc = "export", !.app = Instance(p), !.owns = TRUE]
    BY <1>17 DEF Launch
  <2>2. p \in Process /\ p.start = starts + 1 /\ p.name = "LibreOffice"
    BY <1>1, <2>1, NewProcessIs DEF Names
  <2>3. child.pc = "launch"
    BY <1>17 DEF Launch
  <2>4. out = NoFile /\ NoneOpen /\ Provider = "LibreOffice" /\ child.code = 0
    BY <1>1, <2>3 DEF Unopened, ConvertInv
  <2>5. child'.pc = "export" /\ child'.code = child.code
    BY <1>1, <2>1 DEF Child
  <2>6. \A r, q \in procs' : r.start = q.start => r = q
    BY <1>3, <2>1, <2>2, FreshStart
  <2> QED
    BY <1>15, <2>1, <2>2, <2>4, <2>5, <2>6 DEF NoneOpen
<1> QED
  BY <1>10, <1>11, <1>12, <1>13, <1>14, <1>16, <1>17 DEF ChildStep

\* The application that writes is the one that had the document.
LEMMA WritesOutput ==
    ASSUME OfficeTypeOK, UserInv, ConvertInv, AppWrites
    PROVE  ConvertInv'
<1>1. PICK p \in procs, kind \in {"pdf", "junk"} :
        /\ p.open /\ out' = [kind |-> kind, by |-> p.name]
        /\ procs' = (procs \ {p}) \cup {[p EXCEPT !.open = FALSE]}
        /\ child' = IF child.pc = "export" /\ child.app = Instance(p) THEN Quits(0) ELSE child
  BY DEF AppWrites
<1>2. UNCHANGED <<conv, platform>>
  BY DEF AppWrites
<1>3. ~NoneOpen /\ ~Unopened /\ conv.result # "ok" /\ conv.pc # "idle"
  BY <1>1 DEF NoneOpen, ConvertInv
<1>4. LET q == [p EXCEPT !.open = FALSE] IN ~q.open /\ q.start = p.start
  BY <1>1, Reopened DEF OfficeTypeOK
<1>5. \A r, q \in procs' : r.start = q.start => r = q
  <2> DEFINE w == [p EXCEPT !.open = FALSE]
  <2>1. w.start = p.start /\ procs' = (procs \ {p}) \cup {w}
    BY <1>1, <1>4
  <2> HIDE DEF w
  <2>2. \A r, q \in procs : r.start = q.start => r = q
    BY DEF ConvertInv
  <2> QED
    BY <2>1, <2>2
<1>6. Provider' = Provider
  BY <1>2 DEF Provider, Providers, Windows
<1>7. conv.pc # "done" => OneWriter'
  <2> SUFFICES ASSUME conv.pc # "done" PROVE OneWriter'
    OBVIOUS
  <2>1. p.name = Provider /\ \A q \in procs : q.open => p = q
    BY <1>1, <1>3 DEF ConvertInv, OneWriter
  <2>2. NoneOpen'
    BY <1>1, <1>4, <2>1 DEF NoneOpen
  <2> QED
    BY <1>1, <1>6, <2>1, <2>2 DEF OneWriter
<1>8. /\ child' = child \/ (child.pc = "export" /\ child'.pc = "quit" /\ child'.code = 0)
      /\ child.pc = "export" => conv.pc \notin {"next", "clean"}
      /\ child'.code # 0 => child'.pc \in {"quit", "exit"}
  BY <1>1, ChildEnds DEF ConvertInv
<1>9. ~Unopened'
  BY <1>2, <1>3, <1>8 DEF Unopened
<1>10. /\ conv'.pc \in {"next", "clean"} => child'.pc \in {"none", "exit"}
       /\ child'.pc = "launch" => Provider' = "LibreOffice"
       /\ child'.pc \in {"snapshot", "activate"} => Provider' \in Com
       /\ child'.pc \in {"prove", "secure"} => child'.app # None /\ child'.app.name = Provider'
  BY <1>2, <1>6, <1>8 DEF ConvertInv
<1> QED
  BY <1>2, <1>3, <1>5, <1>7, <1>8, <1>9, <1>10 DEF ConvertInv, Com

\* The other applications come and go without the document.
LEMMA DesktopOutput ==
    ASSUME OfficeTypeOK, UserInv, ConvertInv, AppExits \/ UserStarts \/ UserCloses, conv.pc # "idle"
    PROVE  ConvertInv'
<1>1. UNCHANGED <<conv, platform, out, child>> /\ conv.pc # "done"
  BY DEF AppExits, UserStarts, UserCloses, host
<1>2. CASE AppExits \/ UserCloses
  <2>1. procs' \subseteq procs
    BY <1>2 DEF AppExits, UserCloses
  <2>2. Unopened' => Unopened
    BY <1>1 DEF Unopened
  <2>3. conv.pc \in {"next", "clean"} => child.pc \in {"none", "exit"}
    BY DEF ConvertInv
  <2> QED
    BY <1>1, <2>1, <2>2, <2>3, OutputFrame
<1>3. CASE UserStarts
  <2>1. PICK p \in Process : p.start = starts + 1 /\ ~p.open /\ procs' = procs \cup {p}
    <3>1. PICK name \in Com : \E p \in NewProcess(name, TRUE, FALSE) : procs' = procs \cup {p}
      BY <1>3 DEF UserStarts
    <3>2. \A p \in NewProcess(name, TRUE, FALSE) : p \in Process /\ p.start = starts + 1 /\ ~p.open
      BY NewProcessIs DEF OfficeTypeOK, Names
    <3> QED
      BY <3>1, <3>2
  <2>2. \A r, q \in procs' : r.start = q.start => r = q
    BY <1>1, <2>1, FreshStart
  <2>3. NoneOpen => NoneOpen'
    BY <2>1 DEF NoneOpen
  <2>4. Provider' = Provider
    BY <1>1 DEF Provider, Providers, Windows
  <2>5. OneWriter'
    BY <1>1, <2>1, <2>3, <2>4 DEF ConvertInv, OneWriter, NoFile
  <2>6. Unopened' => out' = NoFile /\ NoneOpen'
    BY <1>1, <2>3 DEF ConvertInv, Unopened, NoFile
  <2>7. /\ child'.pc = "launch" => Provider' = "LibreOffice"
        /\ child'.pc \in {"snapshot", "activate"} => Provider' \in Com
        /\ child'.pc \in {"prove", "secure"} => child'.app # None /\ child'.app.name = Provider'
        /\ conv'.pc \in {"next", "clean"} => child'.pc \in {"none", "exit"}
    BY <1>1, <2>4 DEF ConvertInv
  <2>8. conv'.result = "ok" =>
          /\ conv'.pc \in {"clean", "done"} /\ NoneOpen'
          /\ \/ out' = [kind |-> "pdf", by |-> conv'.by]
             \/ conv'.pc = "done" /\ out' = NoFile
    BY <1>1, <2>3 DEF ConvertInv
  <2> QED
    BY <1>1, <2>2, <2>5, <2>6, <2>7, <2>8 DEF ConvertInv, Com, NoFile
<1> QED
  BY <1>2, <1>3

\* While a conversion is under way, every step keeps what is known of its output.
LEMMA OfficeOutput ==
    ASSUME OfficeTypeOK, UserInv, ConvertInv, OfficeNext, conv.pc # "idle"
    PROVE  ConvertInv'
BY ConvertOutput, ChildOutput, WritesOutput, DesktopOutput DEF OfficeNext

-----------------------------------------------------------------------------
(* The job *)

DocumentInv == OfficeTypeOK /\ UserInv /\ ConvertInv /\ JobInv /\ PaperInv

\* The steps of a conversion under way that neither end it nor write.
LEMMA OfficeQuiet ==
    ASSUME OfficeTypeOK, UserInv, OfficeNext, conv.pc # "idle",
           ~(PrepareFails \/ Clean \/ CleanFails \/ AppWrites)
    PROVE  /\ conv.pc # "done" /\ conv'.pc \notin {"idle", "done"}
           /\ conv'.pc = "prepare" => conv.pc = "prepare"
           /\ UNCHANGED temp /\ work' \in {work, TRUE} /\ (work' # work => conv'.pc = "next")
           /\ faults' \in {faults, faults + 1}
<1>1. conv \in Conversion /\ work \in BOOLEAN
  BY DEF OfficeTypeOK
<1>2. \A pc : [conv EXCEPT !.pc = pc].pc = pc
  BY <1>1 DEF Conversion
<1>3. CASE Prepare
  BY <1>1, <1>2, <1>3 DEF Prepare
<1>4. CASE Spawn \/ WaitTimesOut \/ CleanupScript \/ CleanupFails
  BY <1>1, <1>2, <1>4 DEF Spawn, WaitTimesOut, CleanupScript, CleanupFails, Fault, host
<1>5. CASE SpawnMissing \/ SpawnFails \/ Collect \/ GraceEnds
  <2>1. /\ conv.pc \notin {"idle", "done"} /\ UNCHANGED <<temp, work>>
        /\ faults' \in {faults, faults + 1}
        /\ \/ \E u \in BOOLEAN : conv' = AfterFailure(u)
           \/ conv' = [conv EXCEPT !.pc = "clean", !.result = "ok", !.by = Provider]
    BY <1>5 DEF SpawnMissing, SpawnFails, Collect, GraceEnds, Fault, host
  <2>2. ConvertFailed.pc = "clean"
    BY <1>1 DEF ConvertFailed, Conversion
  <2>3. \A n : [conv EXCEPT !.pc = "next", !.at = n].pc = "next"
    BY <1>1 DEF Conversion
  <2>4. [conv EXCEPT !.pc = "clean", !.result = "ok", !.by = Provider].pc = "clean"
    BY <1>1 DEF Conversion
  <2>5. conv'.pc \in {"next", "clean"}
    BY <2>1, <2>2, <2>3, <2>4, AfterFailureIs
  <2> QED
    BY <1>1, <2>1, <2>5
<1>6. CASE ChildStep
  <2>1. child.pc \in {"snapshot", "activate", "prove", "secure", "export", "quit", "launch"}
    BY <1>6 DEF ChildStep, Snapshot, ActivateNew, ActivateReuse, ActivateFails, Prove, ProveFails,
       SecureFails, Open, ExportFails, Quit, QuitFails, Launch, LaunchSkips, LauncherDies
  <2>2. conv.pc # "done"
    BY <2>1 DEF UserInv, NoChild
  <2>3. UNCHANGED <<conv, temp, work>>
    BY <1>6 DEF ChildStep, Snapshot, ActivateNew, ActivateReuse, ActivateFails, Prove, ProveFails,
       SecureFails, Open, ExportFails, Quit, QuitFails, Launch, LaunchSkips, LauncherDies,
       ChildOnly, host
  <2>4. faults' \in {faults, faults + 1}
    BY <1>6 DEF ChildStep, Snapshot, ActivateNew, ActivateReuse, ActivateFails, Prove, ProveFails,
       SecureFails, Open, ExportFails, Quit, QuitFails, Launch, LaunchSkips, LauncherDies,
       ChildOnly, Fault, host
  <2> QED
    BY <1>1, <2>2, <2>3, <2>4
<1>7. CASE AppExits \/ UserStarts \/ UserCloses
  BY <1>1, <1>7 DEF AppExits, UserStarts, UserCloses, host
<1> QED
  BY <1>3, <1>4, <1>5, <1>6, <1>7 DEF OfficeNext, Convert, ConvertFails

\* A write of an application with the document open.
LEMMA WriteLeft ==
    ASSUME OfficeTypeOK, ConvertInv, JobInv, AppWrites
    PROVE  /\ conv.pc # "idle" /\ (conv.pc = "done" => conv.left)
           /\ UNCHANGED <<conv, work, temp, faults>>
<1>1. ~NoneOpen /\ UNCHANGED <<conv, work, temp, faults>> /\ procs # {}
  BY DEF AppWrites, NoneOpen
<1>2. conv.left \in BOOLEAN
  BY DEF OfficeTypeOK, Conversion
<1> QED
  BY <1>1, <1>2 DEF JobInv, ConvertInv

\* A conversion keeps account of what it leaves.
LEMMA OfficeJob ==
    ASSUME DocumentInv, job.pc = "convert", OfficeNext, UNCHANGED <<backend, job>>
    PROVE  JobInv'
<1>1. /\ OfficeTypeOK /\ UserInv /\ ConvertInv /\ JobInv /\ conv.pc # "idle" /\ print = NoPrint
      /\ faults \in Nat /\ conv \in Conversion /\ UNCHANGED <<job, print>>
      /\ (temp => faults > 0) /\ (work => conv.pc # "prepare")
  BY DEF DocumentInv, JobInv, backend, NoPrint, OfficeTypeOK
<1>2. ASSUME UNCHANGED temp, faults' \in Nat, faults' >= faults, conv'.pc # "idle",
             work' => conv'.pc # "prepare",
             conv'.pc = "done" /\ ~conv'.left => NoneOpen' /\ (faults' = 0 => ~work'),
             (conv'.pc = "done" /\ conv'.result # "ok" /\ ~conv'.left /\ faults' = 0) => out' = NoFile
      PROVE  JobInv'
  <2>1. temp' => faults' > 0
    BY <1>1, <1>2
  <2> QED
    BY <1>1, <1>2, <2>1 DEF JobInv, LeavesNothing, NoFile, NoPrint
<1>3. CASE PrepareFails
  <2>1. conv'.pc = "done" /\ conv.pc = "prepare" /\ UNCHANGED <<temp, procs>>
    BY <1>1, <1>3 DEF PrepareFails, Conversion
  <2>2. faults' \in Nat /\ faults' > 0 /\ faults' >= faults
    BY <1>1, <1>3 DEF PrepareFails, Fault
  <2>3. NoneOpen'
    BY <1>1, <2>1 DEF ConvertInv, Unopened, NoneOpen
  <2> QED
    BY <1>2, <2>1, <2>2, <2>3
<1>4. CASE Clean
  <2> DEFINE result == IF InUse THEN "err" ELSE conv.result
  <2>1. /\ conv' = Done(result) /\ work' = InUse /\ procs' = {p \in procs : p.open}
        /\ out' = (IF conv'.result = "ok" THEN out ELSE NoFile) /\ UNCHANGED <<temp, faults>>
    BY <1>4 DEF Clean, Forget
  <2>2. conv'.pc = "done" /\ conv'.left = (\E p \in procs : p.open)
    BY <1>1, <2>1 DEF Done, Conversion
  <2>3. ~conv'.left => NoneOpen' /\ ~work'
    BY <2>1, <2>2 DEF NoneOpen, InUse
  <2> QED
    BY <1>1, <1>2, <2>1, <2>2, <2>3
<1>5. CASE CleanFails
  <2>1. conv' = Done("err") /\ procs' = {p \in procs : p.open} /\ UNCHANGED temp
    BY <1>5 DEF CleanFails, Forget
  <2>2. conv'.pc = "done" /\ conv'.left = (\E p \in procs : p.open)
    BY <1>1, <2>1 DEF Done, Conversion
  <2>3. faults' \in Nat /\ faults' > 0 /\ faults' >= faults
    BY <1>1, <1>5 DEF CleanFails, Fault
  <2>4. ~conv'.left => NoneOpen'
    BY <2>1, <2>2 DEF NoneOpen
  <2> QED
    BY <1>2, <2>1, <2>2, <2>3, <2>4
<1>6. CASE AppWrites
  <2>1. conv.pc = "done" => conv.left
    BY <1>1, <1>6, WriteLeft
  <2>2. UNCHANGED <<conv, work, temp, faults>>
    BY <1>6 DEF AppWrites
  <2> QED
    BY <1>1, <1>2, <2>1, <2>2
<1>7. CASE ~(PrepareFails \/ Clean \/ CleanFails \/ AppWrites)
  <2>1. /\ conv'.pc \notin {"idle", "done"} /\ (conv'.pc = "prepare" => conv.pc = "prepare")
        /\ UNCHANGED temp /\ work' \in {work, TRUE} /\ (work' # work => conv'.pc = "next")
        /\ faults' \in {faults, faults + 1}
    BY <1>1, <1>7, OfficeQuiet
  <2>2. faults' \in Nat /\ faults' >= faults
    BY <1>1, <2>1
  <2>3. work' => conv'.pc # "prepare"
    BY <1>1, <2>1
  <2> QED
    BY <1>2, <2>1, <2>2, <2>3
<1> QED
  BY <1>3, <1>4, <1>5, <1>6, <1>7

\* A print keeps account of the file of raw data.
LEMMA BackendJob ==
    ASSUME DocumentInv, job.pc = "print", BackendNext, UNCHANGED <<office, job>>
    PROVE  JobInv' /\ OfficeTypeOK' /\ UserInv' /\ ConvertInv'
<1>1. /\ OfficeTypeOK /\ UserInv /\ ConvertInv /\ JobInv /\ PrintTypeOK
      /\ faults \in Nat /\ temp \in BOOLEAN /\ print.pc # "idle" /\ (temp => faults > 0 \/ print.pc = "lpraw")
  BY DEF DocumentInv, JobInv, PaperInv, OfficeTypeOK
<1>2. UNCHANGED <<platform, work, out>>
  BY DEF BackendNext, PrinterFound, PrinterMissing, ReadDevmode, Query, QueryEnds,
     QueryGivesUp, Settings, Sumatra, Options, Lp, CommandFails, TrackSubmission, RawCreate, RawCreateFails, LpRaw,
     Spooler, PrefsChange, FormsGrow, Step, host
<1>3. faults' \in {faults, faults + 1}
  BY DEF BackendNext, PrinterFound, PrinterMissing, ReadDevmode, Query, QueryEnds,
     QueryGivesUp, Settings, Sumatra, Options, Lp, CommandFails, TrackSubmission, RawCreate, RawCreateFails, LpRaw,
     Spooler, PrefsChange, FormsGrow, Step, host, Fault
<1>4. /\ temp' \in BOOLEAN /\ print'.pc # "idle"
      /\ temp' => faults' > 0 \/ print'.pc = "lpraw"
  <2>1. faults' \in Nat /\ faults' >= faults
    BY <1>1, <1>3
  <2>2. \A pc : To(pc).pc = pc
    BY <1>1 DEF To, PrintTypeOK
  <2>3. Failed.pc = "done"
    BY <1>1 DEF Failed, PrintTypeOK
  <2>4. CASE RawCreate
    BY <2>2, <2>4 DEF RawCreate
  <2>5. CASE RawCreateFails
    BY <1>1, <2>3, <2>5, FaultCounts DEF RawCreateFails
  <2>6. CASE LpRaw
    BY <2>2, <2>3, <2>6 DEF LpRaw
  <2>7. CASE PrefsChange \/ FormsGrow
    BY <1>1, <2>7 DEF PrefsChange, FormsGrow, host
  <2>8. CASE PrinterFound \/ PrinterMissing \/ ReadDevmode \/ Query \/ QueryEnds \/ QueryGivesUp \/ Settings
             \/ Sumatra \/ Options \/ Lp \/ CommandFails \/ TrackSubmission \/ Spooler
    <3>1. print.pc # "lpraw" /\ UNCHANGED temp
      BY <2>8 DEF PrinterFound, PrinterMissing, ReadDevmode, Query, QueryEnds,
         QueryGivesUp, Settings, Sumatra, Options, Lp, CommandFails, TrackSubmission, Spooler, Step, host
    <3>2. print'.pc # "idle"
      <4>1. CASE PrinterFound \/ PrinterMissing \/ QueryGivesUp \/ Settings \/ CommandFails
        BY <2>2, <2>3, <4>1
           DEF PrinterFound, PrinterMissing, QueryGivesUp, Settings, CommandFails, Step
      <4>2. CASE Query
        BY <1>1, <4>2 DEF Query, Step, PrintTypeOK
      <4>3. CASE QueryEnds \/ ReadDevmode
        BY <1>1, <4>3 DEF QueryEnds, ReadDevmode, Step, PrintTypeOK
      <4>4. CASE Sumatra
        BY <1>1, <4>4 DEF Sumatra, PrintTypeOK
      <4>5. CASE Options
        BY <1>1, <4>5 DEF Options, Step, PrintTypeOK
      <4>6. CASE Lp
        BY <1>1, <4>6 DEF Lp, To, PrintTypeOK
      <4>7. CASE TrackSubmission
        BY <1>1, <4>7 DEF TrackSubmission, Step, PrintTypeOK
      <4>8. CASE Spooler
        BY <1>1, <4>8 DEF Spooler, Failed, PrintTypeOK
      <4> QED
        BY <2>8, <4>1, <4>2, <4>3, <4>4, <4>5, <4>6, <4>7, <4>8
    <3> QED
      BY <1>1, <2>1, <3>1, <3>2
  <2> QED
    BY <2>4, <2>5, <2>6, <2>7, <2>8 DEF BackendNext
<1>5. UNCHANGED <<conv, child, procs, record, starts, ended, window, job>>
  BY DEF office
<1>6. JobInv'
  <2>1. faults' = 0 => faults = 0
    BY <1>1, <1>3
  <2>2. NoneOpen => NoneOpen'
    BY <1>5 DEF NoneOpen
  <2> QED
    BY <1>1, <1>2, <1>4, <1>5, <2>1, <2>2 DEF JobInv, LeavesNothing, NoFile
<1>7. OfficeTypeOK'
  <2>1. faults' \in Nat
    BY <1>1, <1>3
  <2> QED
    BY <1>1, <1>2, <1>4, <1>5, <2>1 DEF OfficeTypeOK, Windows
<1>8. UserInv'
  BY <1>1, <1>5 DEF UserInv, StartsBound, UsersIn, UserAppsKept
<1>9. ConvertInv'
  BY <1>1, <1>2, <1>5
     DEF ConvertInv, Unopened, NoneOpen, OneWriter, Provider, Providers, Windows, NoFile
<1> QED
  BY <1>6, <1>7, <1>8, <1>9

\* The call of a backend starts with the job's paper.
LEMMA CallPaper ==
    ASSUME PaperInv, print = NoPrint, NEW pc \in {"raw", "printers"}, Call(pc),
           UNCHANGED <<platform, prefs, spool>>
    PROVE  PaperInv' /\ print'.pc = pc
<1>1. PICK paper \in Requests : print' = [print EXCEPT !.pc = pc, !.paper = paper]
  BY DEF Call
<1>2. paper \in Sizes
  BY BackendAssumption
<1>3. /\ PrintTypeOK' /\ print'.pc = pc /\ print'.paper = paper
  BY <1>1, <1>2 DEF PaperInv, PrintTypeOK, PrintPcs
<1>4. spool = <<>>
  BY DEF PaperInv, NoPrint
<1> QED
  BY <1>3, <1>4 DEF PaperInv, Windows

\* A step without the backend.
LEMMA PaperUnchanged ==
    ASSUME PaperInv, UNCHANGED <<platform, print, prefs, spool>>
    PROVE  PaperInv'
BY DEF PaperInv, PrintTypeOK, Windows

\* The converter stays on its platform.
LEMMA OfficePlatform ==
    ASSUME OfficeNext
    PROVE  UNCHANGED platform
<1>1. CASE Convert \/ ConvertFails
  BY <1>1 DEF Convert, ConvertFails, Prepare, PrepareFails, Spawn, SpawnMissing, SpawnFails, Collect,
     WaitTimesOut, CleanupScript, CleanupFails, GraceEnds, Clean, CleanFails, host
<1>2. CASE ChildStep
  BY <1>2 DEF ChildStep, ChildOnly, Snapshot, ActivateNew, ActivateReuse, ActivateFails, Prove,
     ProveFails, SecureFails, Open, ExportFails, Quit, QuitFails, Launch, LaunchSkips, LauncherDies, host
<1>3. CASE AppWrites \/ AppExits \/ UserStarts \/ UserCloses
  BY <1>3 DEF AppWrites, AppExits, UserStarts, UserCloses, host
<1> QED
  BY <1>1, <1>2, <1>3 DEF OfficeNext

\* A step without the converter and the output.
LEMMA OfficeUnchanged ==
    ASSUME UNCHANGED <<host, office>>
    PROVE  /\ OfficeTypeOK => OfficeTypeOK'
           /\ UserInv => UserInv'
           /\ ConvertInv => ConvertInv'
<1>1. UNCHANGED <<platform, work, out, temp, faults, conv, child, procs, record, starts, ended, window>>
  BY DEF host, office
<1>2. OfficeTypeOK => OfficeTypeOK'
  BY <1>1 DEF OfficeTypeOK, Windows
<1>3. UserInv => UserInv'
  BY <1>1 DEF UserInv, StartsBound, UsersIn, UserAppsKept
<1>4. ConvertInv => ConvertInv'
  BY <1>1 DEF ConvertInv, Unopened, NoneOpen, OneWriter, Provider, Providers, Windows, NoFile
<1> QED
  BY <1>2, <1>3, <1>4

\* A step that only changes the output, while no conversion is under way.
LEMMA OutputUnwatched ==
    ASSUME OfficeTypeOK, UserInv, ConvertInv, UNCHANGED <<platform, work, temp, office>>,
           out' \in File, faults' \in Nat,
           conv.pc = "idle" \/ (conv.pc = "done" /\ out' = NoFile)
    PROVE  OfficeTypeOK' /\ UserInv' /\ ConvertInv'
<1>1. UNCHANGED <<conv, child, procs, record, starts, ended, window>>
  BY DEF office
<1>2. child = NoChild
  BY DEF UserInv
<1>3. OfficeTypeOK'
  BY <1>1 DEF OfficeTypeOK, Windows
<1>4. UserInv'
  BY <1>1 DEF UserInv, StartsBound, UsersIn, UserAppsKept
<1>5. ~Unopened'
  BY <1>1, <1>2 DEF Unopened, NoChild
<1>6. conv'.result = "ok" => conv'.pc = "done" /\ NoneOpen' /\ out' = NoFile'
  BY <1>1 DEF ConvertInv, NoneOpen, NoFile
<1> QED
  BY <1>1, <1>2, <1>3, <1>4, <1>5, <1>6 DEF ConvertInv, NoChild, NoFile

\* The job's own steps.
LEMMA JobSteps ==
    ASSUME DocumentInv, JobStep
    PROVE  DocumentInv'
<1>1. OfficeTypeOK /\ UserInv /\ ConvertInv /\ JobInv /\ PaperInv /\ faults \in Nat
  BY DEF DocumentInv, OfficeTypeOK
<1> DEFINE Job == [pc: {"new", "check", "normalize", "convert", "print", "done"},
                   kind: Kinds \cup {None}, bytes: Kinds \cup {None}]
<1>2. job \in Job
  BY <1>1 DEF JobInv
<1>3. \A pc \in {"normalize", "convert", "print", "done"} :
        [job EXCEPT !.pc = pc] \in Job /\ [job EXCEPT !.pc = pc].pc = pc
  BY <1>2
<1>4. /\ job.pc \in {"new", "check", "normalize"} =>
           conv.pc = "idle" /\ out = NoFile /\ print = NoPrint /\ ~work /\ (temp => faults > 0)
      /\ job.pc = "convert" => conv.pc # "idle" /\ print = NoPrint /\ (temp => faults > 0)
  BY <1>1 DEF JobInv, NoPrint
<1>5. CASE Receive
  <2>1. /\ job.pc = "new" /\ UNCHANGED <<host, office, backend>>
        /\ job' \in Job /\ job'.pc = "check"
    BY <1>5 DEF Receive, Only
  <2>2. UNCHANGED <<platform, work, out, temp, faults, conv, procs, print, prefs, spool>>
    BY <2>1 DEF host, office, backend
  <2>3. OfficeTypeOK' /\ UserInv' /\ ConvertInv' /\ PaperInv'
    BY <1>1, <2>1, <2>2, OfficeUnchanged, PaperUnchanged
  <2>4. JobInv'
    BY <1>1, <1>4, <2>1, <2>2 DEF JobInv, LeavesNothing, NoFile, NoPrint
  <2> QED
    BY <2>3, <2>4 DEF DocumentInv
<1>6. CASE CheckFormat
  <2>1. job.pc = "check"
    BY <1>6 DEF CheckFormat
  <2>2. ASSUME NEW pc \in {"normalize", "done"}, Only([job EXCEPT !.pc = pc]) PROVE DocumentInv'
    <3>1. job' \in Job /\ job'.pc = pc /\ UNCHANGED <<host, office, backend>>
      BY <1>3, <2>2 DEF Only
    <3>2. UNCHANGED <<platform, work, out, temp, faults, conv, procs, print, prefs, spool>>
      BY <3>1 DEF host, office, backend
    <3>3. OfficeTypeOK' /\ UserInv' /\ ConvertInv' /\ PaperInv'
      BY <1>1, <3>1, <3>2, OfficeUnchanged, PaperUnchanged
    <3>4. JobInv'
      BY <1>1, <1>4, <2>1, <3>1, <3>2 DEF JobInv, LeavesNothing, NoFile, NoPrint
    <3> QED
      BY <3>3, <3>4 DEF DocumentInv
  <2>3. ASSUME job' = [job EXCEPT !.pc = "print"], Call("raw"),
               UNCHANGED <<host, office, prefs, bytes, spool>>
        PROVE  DocumentInv'
    <3>1. PaperInv' /\ print'.pc = "raw"
      BY <1>1, <1>4, <2>1, <2>3, CallPaper DEF host
    <3>2. job' \in Job /\ job'.pc = "print"
      BY <1>3, <2>3
    <3>3. UNCHANGED <<platform, work, out, temp, faults, conv, procs>>
      BY <2>3 DEF host, office
    <3>4. OfficeTypeOK' /\ UserInv' /\ ConvertInv'
      BY <1>1, <2>3, OfficeUnchanged
    <3>5. JobInv'
      BY <1>1, <1>4, <2>1, <3>1, <3>2, <3>3 DEF JobInv, LeavesNothing, NoFile, NoPrint
    <3> QED
      BY <3>1, <3>4, <3>5 DEF DocumentInv
  <2>4. ASSUME job' = [job EXCEPT !.pc = "convert"], conv' = [conv EXCEPT !.pc = "prepare"],
               UNCHANGED <<host, child, procs, record, starts, ended, window, backend>>
        PROVE  DocumentInv'
    <3>1. job' \in Job /\ job'.pc = "convert"
      BY <1>3, <2>4
    <3>2. /\ UNCHANGED <<platform, work, out, temp, faults, print, prefs, spool>>
      BY <2>4 DEF host, backend
    <3>3. /\ conv' \in Conversion /\ conv'.pc = "prepare" /\ conv'.at = conv.at
          /\ conv'.result = conv.result
      BY <1>1, <2>4 DEF OfficeTypeOK, Conversion
    <3>4. procs = {} /\ child = NoChild /\ conv.result # "ok"
      BY <1>1, <1>4, <2>1 DEF ConvertInv, UserInv
    <3>5. OfficeTypeOK'
      BY <1>1, <2>4, <3>2, <3>3 DEF OfficeTypeOK, Windows
    <3>6. UserInv'
      BY <1>1, <1>4, <2>1, <2>4, <3>3, <3>4 DEF UserInv, StartsBound, UsersIn, UserAppsKept
    <3>7. ConvertInv'
      BY <1>1, <1>4, <2>1, <2>4, <3>2, <3>3, <3>4
         DEF ConvertInv, NoneOpen, OneWriter, NoChild, NoFile
    <3>8. JobInv'
      BY <1>1, <1>4, <2>1, <3>1, <3>2, <3>3 DEF JobInv, LeavesNothing, NoFile, NoPrint
    <3>9. PaperInv'
      BY <1>1, <3>2, PaperUnchanged
    <3> QED
      BY <3>5, <3>6, <3>7, <3>8, <3>9 DEF DocumentInv
  <2> QED
    BY <1>6, <2>2, <2>3, <2>4 DEF CheckFormat
<1>7. CASE Normalize
  <2>1. /\ job.pc = "normalize" /\ job' = [job EXCEPT !.pc = "print"] /\ Call("printers")
        /\ out' = [kind |-> "pdf", by |-> job.kind]
        /\ UNCHANGED <<platform, work, temp, faults, office, prefs, bytes, spool>>
    BY <1>7 DEF Normalize
  <2>2. PaperInv' /\ print'.pc = "printers"
    BY <1>1, <1>4, <2>1, CallPaper
  <2>3. job' \in Job /\ job'.pc = "print" /\ UNCHANGED conv
    BY <1>3, <2>1 DEF office
  <2>4. out' \in File
    BY <1>2, <2>1 DEF File
  <2>5. OfficeTypeOK' /\ UserInv' /\ ConvertInv'
    BY <1>1, <1>4, <2>1, <2>4, OutputUnwatched
  <2>6. JobInv'
    BY <1>1, <1>4, <2>1, <2>2, <2>3 DEF JobInv, LeavesNothing
  <2> QED
    BY <2>2, <2>5, <2>6 DEF DocumentInv
<1>8. CASE NormalizeFails
  <2>1. /\ job.pc = "normalize" /\ job' = [job EXCEPT !.pc = "done"]
        /\ \/ UNCHANGED <<out, faults>>
           \/ Fault /\ out' \in {NoFile, [kind |-> "junk", by |-> job.kind]}
        /\ UNCHANGED <<platform, work, temp, office, backend>>
    BY <1>8 DEF NormalizeFails
  <2>2. job' \in Job /\ job'.pc = "done" /\ UNCHANGED <<platform, conv, print, prefs, spool>>
    BY <1>3, <2>1 DEF office, backend
  <2>3. out' \in File
    BY <1>1, <1>2, <2>1 DEF File, NoFile, OfficeTypeOK
  <2>4. faults' \in Nat /\ (faults' > 0 \/ UNCHANGED <<out, faults>>)
    BY <1>1, <2>1, FaultCounts
  <2>5. OfficeTypeOK' /\ UserInv' /\ ConvertInv'
    BY <1>1, <1>4, <2>1, <2>3, <2>4, OutputUnwatched
  <2>6. JobInv'
    BY <1>1, <1>4, <2>1, <2>2, <2>4 DEF JobInv, LeavesNothing, NoFile, NoPrint
  <2>7. PaperInv'
    BY <1>1, <2>2, PaperUnchanged
  <2> QED
    BY <2>5, <2>6, <2>7 DEF DocumentInv
<1>9. CASE Converted
  <2>1. /\ job.pc = "convert" /\ conv.pc = "done"
        /\ UNCHANGED <<host, office, prefs, bytes, spool>>
    BY <1>9 DEF Converted
  <2>2. UNCHANGED <<platform, work, out, temp, faults, conv, procs>>
    BY <2>1 DEF host, office
  <2>3. OfficeTypeOK' /\ UserInv' /\ ConvertInv'
    BY <1>1, <2>1, OfficeUnchanged
  <2>4. ASSUME job' = [job EXCEPT !.pc = "print"], Call("printers") PROVE JobInv' /\ PaperInv'
    <3>1. PaperInv' /\ print'.pc = "printers"
      BY <1>1, <1>4, <2>1, <2>2, <2>4, CallPaper
    <3>2. job' \in Job /\ job'.pc = "print"
      BY <1>3, <2>4
    <3>3. JobInv'
      BY <1>1, <1>4, <2>1, <2>2, <3>1, <3>2 DEF JobInv, LeavesNothing, NoFile, NoneOpen
    <3> QED
      BY <3>1, <3>3
  <2>5. ASSUME conv.result # "ok", job' = [job EXCEPT !.pc = "done"], UNCHANGED print
        PROVE  JobInv' /\ PaperInv'
    <3>1. job' \in Job /\ job'.pc = "done"
      BY <1>3, <2>5
    <3>2. JobInv'
      BY <1>1, <1>4, <2>1, <2>2, <2>5, <3>1 DEF JobInv, LeavesNothing, NoFile, NoneOpen, NoPrint
    <3> QED
      BY <1>1, <2>1, <2>2, <2>5, <3>2, PaperUnchanged
  <2> QED
    BY <1>9, <2>3, <2>4, <2>5 DEF Converted, DocumentInv
<1>10. CASE PrintReturns
  <2>1. /\ job.pc = "print" /\ print.pc = "done" /\ job' = [job EXCEPT !.pc = "done"]
        /\ out' = NoFile /\ UNCHANGED <<platform, work, temp, faults, office, backend>>
    BY <1>10 DEF PrintReturns, Printed
  <2>2. job' \in Job /\ job'.pc = "done" /\ UNCHANGED <<platform, conv, procs, print, prefs, spool>>
    BY <1>3, <2>1 DEF office, backend
  <2>3. conv.pc \in {"idle", "done"} /\ NoFile \in File
    BY <1>1, <2>1 DEF JobInv, NoFile, File
  <2>4. OfficeTypeOK' /\ UserInv' /\ ConvertInv'
    BY <1>1, <2>1, <2>3, OutputUnwatched
  <2>5. JobInv'
    BY <1>1, <2>1, <2>2, <2>3 DEF JobInv, LeavesNothing, NoFile, NoneOpen
  <2>6. PaperInv'
    BY <1>1, <2>2, PaperUnchanged
  <2> QED
    BY <2>4, <2>5, <2>6 DEF DocumentInv
<1> QED
  BY <1>5, <1>6, <1>7, <1>8, <1>9, <1>10 DEF JobStep

\* Every step keeps the invariant.
LEMMA DocumentStep == DocumentInv /\ [DocumentNext]_vars => DocumentInv'
<1> SUFFICES ASSUME DocumentInv, [DocumentNext]_vars PROVE DocumentInv'
  OBVIOUS
<1>1. OfficeTypeOK /\ UserInv /\ ConvertInv /\ JobInv /\ PaperInv
  BY DEF DocumentInv
<1>2. CASE JobStep
  BY <1>2, JobSteps
<1>3. CASE job.pc = "convert" /\ OfficeNext /\ UNCHANGED <<backend, job>>
  <2>1. conv.pc # "idle" /\ UNCHANGED <<print, prefs, spool>>
    BY <1>1, <1>3 DEF JobInv, backend
  <2>2. UNCHANGED platform
    BY <1>3, OfficePlatform
  <2> QED
    BY <1>1, <1>3, <2>1, <2>2, OfficeTypes, OfficeUsers, OfficeOutput, OfficeJob, PaperUnchanged
       DEF DocumentInv
<1>4. CASE job.pc = "print" /\ BackendNext /\ UNCHANGED <<office, job>>
  BY <1>1, <1>4, BackendJob, PaperStep DEF DocumentInv
<1>5. CASE job.pc = "done" /\ AppWrites /\ UNCHANGED <<backend, job>>
  <2>1. OfficeTypeOK' /\ UserInv' /\ ConvertInv'
    BY <1>1, <1>5, DesktopTypes, DesktopUsers, WritesOutput
  <2>2. UNCHANGED <<platform, print, prefs, spool, job>>
    BY <1>5 DEF backend, AppWrites
  <2>3. conv.pc = "done" /\ conv.left /\ UNCHANGED <<conv, work, temp, faults>>
    BY <1>1, <1>5, WriteLeft DEF JobInv
  <2>4. JobInv'
    BY <1>1, <1>5, <2>2, <2>3 DEF JobInv, LeavesNothing
  <2> QED
    BY <1>1, <2>1, <2>2, <2>4, PaperUnchanged DEF DocumentInv
<1>6. CASE UNCHANGED vars
  <2>1. UNCHANGED <<host, office, backend, job>>
    BY <1>6 DEF vars
  <2>2. UNCHANGED <<platform, work, out, temp, faults, conv, procs, print, prefs, spool, job>>
    BY <2>1 DEF host, office, backend
  <2>3. JobInv'
    BY <1>1, <2>2 DEF JobInv, LeavesNothing, NoFile, NoneOpen, NoPrint
  <2> QED
    BY <1>1, <2>1, <2>2, <2>3, OfficeUnchanged, PaperUnchanged DEF DocumentInv
<1> QED
  BY <1>2, <1>3, <1>4, <1>5, <1>6 DEF DocumentNext

\* The invariant holds of every behaviour.
LEMMA DocumentInvariant == DocumentSpec => []DocumentInv
<1>1. DocumentInit => DocumentInv
  <2> SUFFICES ASSUME DocumentInit PROVE DocumentInv
    OBVIOUS
  <2>1. /\ platform \in {"windows", "unix"} /\ work = FALSE /\ out = NoFile /\ temp = FALSE
        /\ faults = 0 /\ child = NoChild /\ procs = {} /\ record = None /\ starts = 0
        /\ ended = {} /\ window = {} /\ print = NoPrint /\ prefs = "portrait" /\ spool = <<>>
        /\ conv = [pc |-> "idle", at |-> 1, result |-> "none", by |-> None, left |-> FALSE]
        /\ job = [pc |-> "new", kind |-> None, bytes |-> None]
    BY HostAssumption DEF DocumentInit, HostInit, OfficeInit, BackendInit
  <2>2. OfficeTypeOK
    <3>1. conv \in Conversion /\ conv.at = 1
      BY <2>1 DEF Conversion
    <3>2. child \in Child /\ out \in File
      BY <2>1 DEF Child, NoChild, File, NoFile
    <3> QED
      BY <2>1, <3>1, <3>2 DEF OfficeTypeOK
  <2>3. UserInv
    BY <2>1 DEF UserInv, StartsBound, UsersIn, UserAppsKept, NoChild
  <2>4. ConvertInv
    BY <2>1 DEF ConvertInv, Unopened, NoChild
  <2>5. JobInv
    BY <2>1 DEF JobInv, LeavesNothing, Kinds
  <2>6. PaperInv
    BY <2>1 DEF PaperInv, PrintTypeOK, NoPrint, PrintPcs, Orientations
  <2> QED
    BY <2>2, <2>3, <2>4, <2>5, <2>6 DEF DocumentInv
<1> QED
  BY <1>1, DocumentStep, PTL DEF DocumentSpec
-----------------------------------------------------------------------------
(* Results *)

\* No application of the user is closed or killed, but for one started between
\* the script's snapshot and its activation.
THEOREM UsersKeepTheirApps == DocumentSpec => []UserAppsKept
<1>1. DocumentInv => UserAppsKept
  BY DEF DocumentInv, UserInv
<1> QED
  BY <1>1, DocumentInvariant, PTL

\* A conversion that succeeds has the PDF of the converter it names.
THEOREM PdfIsTheConverters == DocumentSpec => []PdfIsConverted
<1>1. DocumentInv => PdfIsConverted
  BY DEF DocumentInv, ConvertInv, PdfIsConverted
<1> QED
  BY <1>1, DocumentInvariant, PTL

\* Without a fault and an application that keeps the document, nothing is left.
THEOREM NothingIsLeft == DocumentSpec => []LeavesNothing
<1>1. DocumentInv => LeavesNothing
  BY DEF DocumentInv, JobInv
<1> QED
  BY <1>1, DocumentInvariant, PTL

\* A document is printed on the paper the job asked for, for every list of forms,
\* of media choices and of requests.
THEOREM PaperIsRight == DocumentSpec => []RightPaper
<1>1. DocumentInv => RightPaper
  <2> SUFFICES ASSUME DocumentInv, NEW i \in DOMAIN spool, spool[i].what = "pdf",
                      print.read_with \in {None, prefs}
               PROVE  /\ Within(spool[i].page.width, print.paper.width, Tolerance)
                      /\ Within(spool[i].page.height, print.paper.height, Tolerance)
    BY DEF RightPaper
  <2>1. \/ Rounded(spool[i].page, print.paper)
        \/ Windows /\ print.read_with = prefs /\ Fits(spool[i].page, print.paper)
    BY BackendAssumption DEF DocumentInv, PaperInv
  <2>2. print.paper \in Sizes
    <3>1. print.pc # "idle"
      BY DEF DocumentInv, PaperInv
    <3> QED
      BY <3>1, BackendAssumption DEF DocumentInv, PaperInv
  <2>3. Rounded(spool[i].page, print.paper) => Fits(spool[i].page, print.paper)
    BY <2>2 DEF Rounded, Fits, Within, Sizes
  <2> QED
    BY <2>1, <2>3 DEF Tolerance, Rounded, Fits
<1> QED
  BY <1>1, DocumentInvariant, PTL
=============================================================================
