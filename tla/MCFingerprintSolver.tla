------------------------- MODULE MCFingerprintSolver -------------------------
(***************************************************************************)
(* A report with two metrics: "exposure" has two breakdowns and a prior    *)
(* period and comes with a formula hypothesis, "rwa" has nine prior        *)
(* periods and relies on what the first one taught the engine.  Two twin   *)
(* columns are short-listed, a third is found by the scan alone, two       *)
(* compositions compete for one place in the blind search; for "exposure"  *)
(* the difference it finds competes with the filtered column of the        *)
(* hypothesis.                                                             *)
(***************************************************************************)
EXTENDS FingerprintSolver

CONSTANTS twin1, twin2, column, diff, filter, t1, t2

MCCandidates == {twin1, twin2, column, diff, filter}
MCTables == {t1, t2}
MCGroups == <<"exposure", "rwa">>
MCLhsTable ==
    [c \in MCCandidates |-> IF c \in {twin1, diff} THEN t1 ELSE t2]
MCJoined == [t \in MCTables |-> IF t = t1 THEN {t2} ELSE {}]
MCShortlist ==
    [m \in {"exposure", "rwa"} |->
        IF m = "exposure" THEN {twin1, twin2} ELSE {twin2}]
MCColumnScan == {twin1, twin2, column}
MCSeeded == {"exposure"}
MCHypotheses ==
    [m \in {"exposure", "rwa"} |-> IF m = "exposure" THEN {filter} ELSE {}]
MCBlindSearch == {diff, filter}
\* The name of "rwa" resembles the filtered column's, that of "exposure" the
\* difference's.
MCNameRank ==
    [m \in {"exposure", "rwa"} |->
        [c \in MCBlindSearch |-> IF (c = diff) = (m = "exposure") THEN 1 ELSE 2]]
MCSortRank ==
    [m \in {"exposure", "rwa"} |->
        [c \in MCCandidates |->
            CASE c = twin1 -> 1 [] c = twin2 -> 2 [] c = column -> 3
              [] c = diff -> 4 [] c = filter -> 5]]
MCBreakdowns == [m \in {"exposure", "rwa"} |-> IF m = "exposure" THEN 2 ELSE 0]
MCPriors == [m \in {"exposure", "rwa"} |-> IF m = "exposure" THEN 1 ELSE 9]

Failing(error) == [grand |-> error, hits |-> 0, skips |-> 0, joinable |-> TRUE]
Passing(error, hits, skips) ==
    [grand |-> error, hits |-> hits, skips |-> skips, joinable |-> TRUE]
Unjoinable == [grand |-> 0, hits |-> 0, skips |-> 0, joinable |-> FALSE]

Missing == Failing(NoSnapshot)

\* Errors: 0 exact, 1 within tolerance, 2 and 3 within the near-miss window, 9
\* beyond it.
Sheet(a, b, c, d, f) ==
    [x \in MCCandidates |->
        CASE x = twin1 -> a [] x = twin2 -> b [] x = column -> c
          [] x = diff -> d [] x = filter -> f]

\* Scores out of four: CONFIRMED, PROBABLE with one constraint missed, PROBABLE
\* with its prior period skipped, REJECTED.
ExposureScores ==
    {Passing(0, 3, 0), Passing(1, 2, 0), Passing(0, 2, 1), Passing(1, 0, 0)}
\* What a composition may score in tier 3, where its misses may be nearer or
\* farther than those of the tiers before it.
ExposureComposed ==
    {Failing(2), Failing(3), Passing(0, 3, 0), Passing(1, 2, 0), Passing(0, 0, 0)}
ExposureSheets ==
    {Sheet(a, b, c, d, f) :
        a \in ExposureScores \cup {Failing(2), Failing(9)},
        b \in ExposureScores \cup {Failing(NotEvaluable), Unjoinable},
        c \in ExposureScores \cup {Failing(2), Failing(9), Missing},
        d \in ExposureComposed, f \in ExposureComposed}

\* Scores out of ten: nine of ten, the least CONFIRMED; eight of ten, PROBABLE;
\* seven of ten, REJECTED; all nine prior periods skipped, WEAK.
RwaScores ==
    {Passing(1, 8, 0), Passing(0, 7, 0), Passing(0, 6, 0), Passing(0, 0, 9)}
RwaSheets ==
    {Sheet(a, b, c, d, f) :
        a \in {Failing(2), Failing(9), Passing(1, 8, 0)},
        b \in RwaScores \cup {Failing(NotEvaluable)},
        c \in RwaScores \cup {Failing(2), Failing(9), Missing},
        d \in {Failing(3), Passing(0, 7, 0)},
        f \in {Failing(2), Passing(1, 8, 0)}}

MCSheets ==
    [m \in {"exposure", "rwa"} |->
        IF m = "exposure" THEN ExposureSheets ELSE RwaSheets]
=============================================================================
