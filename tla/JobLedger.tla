------------------------------ MODULE JobLedger ------------------------------
(***************************************************************************)
(* What the print queue promises, without how it works: jobs are accepted  *)
(* in blocks of fresh identifiers, leave the line in the order in which    *)
(* they joined it, one at a time, and the active job reaches the printer   *)
(* at most once before it is done.  A restart empties the line and forgets *)
(* which identifiers are known.                                            *)
(***************************************************************************)
EXTENDS Naturals, Sequences, FiniteSets

CONSTANTS Ids, Nobody

VARIABLES line,     \* accepted, not yet started
          active,   \* being processed, or Nobody
          known,    \* every identifier accepted since the last restart
          printed   \* identifiers handed to the printer since then

ledgerVars == <<line, active, known, printed>>

Distinct(s) == \A i, k \in DOMAIN s : s[i] = s[k] => i = k

Init == line = <<>> /\ active = Nobody /\ known = {} /\ printed = {}

Joined == SubSeq(line', Len(line) + 1, Len(line'))

\* A block of jobs joins the end of the line, all of it or nothing.
Accept ==
    /\ Len(line') >= Len(line)
    /\ SubSeq(line', 1, Len(line)) = line
    /\ Distinct(Joined)
    /\ \A i \in DOMAIN Joined : Joined[i] \in Ids \ known
    /\ known' = known \cup {Joined[i] : i \in DOMAIN Joined}
    /\ UNCHANGED <<active, printed>>

Start ==
    /\ active = Nobody
    /\ line # <<>>
    /\ active' = Head(line)
    /\ line' = Tail(line)
    /\ UNCHANGED <<known, printed>>

PrintActive ==
    /\ active \in Ids \ printed
    /\ printed' = printed \cup {active}
    /\ UNCHANGED <<line, active, known>>

Finish ==
    /\ active # Nobody
    /\ active' = Nobody
    /\ UNCHANGED <<line, known, printed>>

Forget ==
    /\ line' = <<>>
    /\ active' = Nobody
    /\ known' = {}
    /\ printed' = {}

Next == Accept \/ Start \/ PrintActive \/ Finish \/ Forget

Spec == Init /\ [][Next]_ledgerVars
==============================================================================
