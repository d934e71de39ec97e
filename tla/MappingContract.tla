--------------------------- MODULE MappingContract ---------------------------
(***************************************************************************)
(* What resolving one report promises its caller, whatever the search does *)
(* inside: a verdict for every metric group in the order of the groups,    *)
(* each either a mapping with its formula or an UNMAPPABLE without one,    *)
(* none revised once issued, and either all of them or an exception.       *)
(***************************************************************************)
EXTENDS Naturals, Sequences

CONSTANTS Groups, Candidates, NoCandidate, Bands

VARIABLES
    outcome,    \* "running", "returned" or "raised"
    verdicts    \* the mappings issued so far

vars == <<outcome, verdicts>>

Init ==
    /\ outcome = IF Groups = <<>> THEN "returned" ELSE "running"
    /\ verdicts = <<>>

\* A verdict names its group; it has a formula exactly when it has a band above
\* UNMAPPABLE, and REJECTED is never a verdict.
VerdictsOn(metric) ==
    [metric : {metric}, band : {"UNMAPPABLE"}, best : {NoCandidate}] \cup
    [metric : {metric}, band : Bands \ {"UNMAPPABLE", "REJECTED"},
     best : Candidates]

Decide ==
    /\ outcome = "running"
    /\ \E verdict \in VerdictsOn(Groups[Len(verdicts) + 1]) :
          verdicts' = Append(verdicts, verdict)
    /\ outcome' = IF Len(verdicts) + 1 = Len(Groups) THEN "returned"
                  ELSE "running"

Raise ==
    /\ outcome = "running"
    /\ outcome' = "raised"
    /\ verdicts' = <<>>

Next == Decide \/ Raise

Spec == Init /\ [][Next]_vars
=============================================================================
