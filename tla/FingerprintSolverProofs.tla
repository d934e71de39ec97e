----------------------- MODULE FingerprintSolverProofs -----------------------
(***************************************************************************)
(* Proofs about FingerprintSolver, for every report, catalog and warehouse *)
(* that satisfy SolverConstants: type correctness, that no formula leaves  *)
(* the engine without the band it earned, that the tiers run in order,     *)
(* that only accepted formulas widen later searches, and that resolve_all  *)
(* implements MappingContract.                                             *)
(***************************************************************************)
EXTENDS FingerprintSolver, SequenceTheorems, TLAPS

-----------------------------------------------------------------------------
(* The bands, for every number of constraints.                             *)

\* Outcomes the scoring can produce: the grand total is itself one of the
\* constraints, so a candidate that reproduces it satisfies at least one.
Tally(satisfied, total, ok) ==
    /\ satisfied \in Nat
    /\ total \in Nat
    /\ ok \in BOOLEAN
    /\ satisfied <= total
    /\ total >= 1
    /\ ok => satisfied >= 1

\* The ranks by which resolve_metric sorts and accepts (solver._BAND_RANK).
LEMMA Ranks ==
    /\ BandRank("CONFIRMED") = 4
    /\ BandRank("PROBABLE") = 3
    /\ BandRank("WEAK") = 2
    /\ BandRank("REJECTED") = 1
    /\ BandRank("UNMAPPABLE") = 0
  BY DEF BandRank

\* The solver's rule always yields one of its bands, and never UNMAPPABLE: that
\* verdict belongs to a metric, not to a candidate (solver._band).
LEMMA BandType ==
    ASSUME NEW s, NEW t, NEW ok
    PROVE  Band(s, t, ok) \in ConfidenceBand \ {"UNMAPPABLE"}
  BY DEF Band, ConfidenceBand

\* A candidate that misses the grand total is rejected whatever else it
\* reproduces (solver._band, first test).
LEMMA AcceptedReproduces ==
    ASSUME NEW s, NEW t, NEW ok, Accepting(Band(s, t, ok))
    PROVE  ok
  BY Ranks DEF Accepting, Band

\* The bands as docs/architecture/numeric-fingerprinting.md and the docstring
\* of _band state them, which count the constraints available, agree with the
\* code, which counts those satisfied.
THEOREM DocumentedBands ==
    ASSUME NEW s, NEW t, NEW ok, Tally(s, t, ok)
    PROVE  Band(s, t, ok) =
             IF ~ok THEN "REJECTED"
             ELSE IF t = 1 THEN "WEAK"
             ELSE IF t >= 4 /\ AtLeast(90, s, t) THEN "CONFIRMED"
             ELSE IF t >= 2 /\ AtLeast(75, s, t) THEN "PROBABLE"
             ELSE "REJECTED"
<1>1. CASE ~ok
  BY <1>1 DEF Band
<1>2. CASE ok /\ t = 1
  BY <1>2 DEF Band
<1>3. CASE ok /\ t # 1
  <2>1. t >= 2
    BY <1>3 DEF Tally
  <2>2. AtLeast(90, s, t) => (s >= 4 <=> t >= 4)
    BY <2>1 DEF Tally, AtLeast
  <2>3. AtLeast(75, s, t) => s >= 2
    BY <2>1 DEF Tally, AtLeast
  <2>4. QED
    BY <1>3, <2>1, <2>2, <2>3 DEF Band, Tally
<1>4. QED
  BY <1>1, <1>2, <1>3 DEF Tally

\* Satisfying more of the same constraints never lowers a candidate's band.
THEOREM BandMonotone ==
    ASSUME NEW s1, NEW s2, NEW t, NEW ok,
           Tally(s1, t, ok), Tally(s2, t, ok), s1 <= s2
    PROVE  BandRank(Band(s1, t, ok)) <= BandRank(Band(s2, t, ok))
<1>1. CASE ~ok \/ t = 1
  BY <1>1, Ranks DEF Band, Tally
<1>2. CASE ok /\ t # 1
  <2>1. /\ AtLeast(90, s1, t) => AtLeast(90, s2, t)
        /\ AtLeast(75, s1, t) => AtLeast(75, s2, t)
        /\ AtLeast(90, s2, t) => AtLeast(75, s2, t)
    BY DEF Tally, AtLeast
  <2>2. QED
    BY <1>2, <2>1, Ranks DEF Band, Tally
<1>3. QED
  BY <1>1, <1>2 DEF Tally

\* A further constraint, when the candidate satisfies it, never lowers its band:
\* a report that states more figures cannot hurt the formula that fits them all.
THEOREM ExtraEvidenceHelps ==
    ASSUME NEW s, NEW t, NEW ok, Tally(s, t, ok)
    PROVE  BandRank(Band(s, t, ok)) <= BandRank(Band(s + 1, t + 1, ok))
<1>1. CASE ~ok
  BY <1>1, Ranks DEF Band, Tally
<1>2. CASE ok /\ t = 1
  BY <1>2, Ranks DEF Band, Tally, AtLeast
<1>3. CASE ok /\ t # 1
  <2>1. /\ AtLeast(90, s, t) => AtLeast(90, s + 1, t + 1)
        /\ AtLeast(75, s, t) => AtLeast(75, s + 1, t + 1)
        /\ AtLeast(90, s + 1, t + 1) => AtLeast(75, s + 1, t + 1)
    BY DEF Tally, AtLeast
  <2>2. QED
    BY <1>3, <2>1, Ranks DEF Band, Tally
<1>4. QED
  BY <1>1, <1>2, <1>3 DEF Tally

\* Leaving out a prior period whose snapshot is gone (score_candidate's "loud
\* skip") never lowers the band of a candidate that would have missed that
\* figure: the skip can only hide a miss, never create one.
THEOREM SkippedMissNeverLowers ==
    ASSUME NEW s, NEW t, NEW ok, Tally(s, t, ok), Tally(s, t + 1, ok)
    PROVE  BandRank(Band(s, t + 1, ok)) <= BandRank(Band(s, t, ok))
<1>1. CASE ~ok
  BY <1>1, Ranks DEF Band, Tally
<1>2. CASE ok /\ t = 1
  BY <1>2, Ranks DEF Band, Tally, AtLeast
<1>3. CASE ok /\ t # 1
  <2>1. /\ AtLeast(90, s, t + 1) => AtLeast(90, s, t)
        /\ AtLeast(75, s, t + 1) => AtLeast(75, s, t)
        /\ AtLeast(90, s, t) => AtLeast(75, s, t)
    BY DEF Tally, AtLeast
  <2>2. QED
    BY <1>3, <2>1, Ranks DEF Band, Tally
<1>4. QED
  BY <1>1, <1>2, <1>3 DEF Tally

-----------------------------------------------------------------------------
(* The solver.                                                             *)

\* The group under resolution is one of the report's.
LEMMA MetricType ==
    ASSUME TypeOK, Len(mappings) < Len(Groups)
    PROVE  Metric \in Metrics
<1>1. Len(mappings) + 1 \in DOMAIN Groups
  BY SolverConstants DEF TypeOK
<1>2. QED
  BY <1>1 DEF Metric, Metrics

\* The band of a candidate is one of the bands, and not UNMAPPABLE.
LEMMA BandOfType ==
    ASSUME NEW m, NEW a
    PROVE  BandOf(m, a) \in ConfidenceBand \ {"UNMAPPABLE"}
  BY BandType DEF BandOf

\* What the three tiers can offer are candidates.
LEMMA OfferedType ==
    ASSUME NEW tier \in Tiers, TypeOK, Len(mappings) < Len(Groups)
    PROVE  Offered(tier) \in SUBSET Candidates
<1>1. Metric \in Metrics
  BY MetricType
<1>2. LocalSearch(Metric, Held) \in SUBSET Candidates
  BY SolverConstants DEF LocalSearch
<1>3. CASE tier = "tier1"
  BY <1>1, <1>3, SolverConstants DEF Offered, TierCandidates
<1>4. CASE tier = "tier2"
  BY <1>4, SolverConstants DEF Offered, TierCandidates
<1>5. CASE tier = "tier3"
  BY <1>1, <1>2, <1>5, SolverConstants DEF Offered, TierCandidates
<1>6. QED
  BY <1>3, <1>4, <1>5 DEF Tiers

\* After a tier the search goes on with a later tier or with the scoring.
LEMMA NextPhaseType ==
    ASSUME NEW tier \in Tiers, NEW found, NEW near
    PROVE  /\ NextPhase(tier, found, near) \in {"tier2", "tier3", "score"}
           /\ NextPhase(tier, found, near) = "tier2" =>
                tier = "tier1" /\ found = {}
           /\ NextPhase(tier, found, near) = "tier3" =>
                tier = "tier2" /\ found = {}
<1>1. CASE found # {}
  BY <1>1 DEF NextPhase
<1>2. CASE found = {} /\ tier = "tier1"
  BY <1>2 DEF NextPhase
<1>3. CASE found = {} /\ tier = "tier2"
  BY <1>3 DEF NextPhase
<1>4. CASE found = {} /\ tier = "tier3"
  BY <1>4 DEF NextPhase
<1>5. QED
  BY <1>1, <1>2, <1>3, <1>4 DEF Tiers

\* The near miss kept after a tier is a candidate, or still none.
LEMMA NearestAfterType ==
    ASSUME NEW tried \in SUBSET Candidates,
           nearMiss \in Candidates \cup {NoCandidate}
    PROVE  NearestAfter(tried) \in SUBSET (Candidates \cup {NoCandidate})
  BY DEF NearestAfter

LEMMA NearTablesAfterType ==
    ASSUME NEW tier, NEW tried \in SUBSET Candidates, nearTables \in SUBSET Tables
    PROVE  NearTablesAfter(tier, tried) \in SUBSET Tables
<1>1. \A c \in tried : LhsTable[c] \in Tables
  BY SolverConstants
<1>2. QED
  BY <1>1 DEF NearTablesAfter

-----------------------------------------------------------------------------
(* Type correctness *)

\* A verdict step keeps the state well typed.
LEMMA IssueType ==
    ASSUME TypeOK, Len(mappings) < Len(Groups), NEW m \in Mapping, Issue(m)
    PROVE  /\ phase' = "issued"
           /\ mappings' \in Seq(Mapping)
           /\ Len(mappings') = Len(mappings) + 1
           /\ Len(mappings') <= Len(Groups)
           /\ UNCHANGED <<truth, survivors, nearMiss, nearTables, tiersRun>>
  BY SolverConstants DEF Issue, TypeOK

LEMMA TypeStep ==
    TypeOK /\ [Next]_vars => TypeOK'
<1> SUFFICES ASSUME TypeOK, [Next]_vars
             PROVE  TypeOK'
  OBVIOUS
<1>1. CASE OpenGroup
  <2>1. Metric \in Metrics
    BY <1>1, MetricType DEF OpenGroup, TypeOK
  <2>2. truth' \in [Candidates -> Answer]
    BY <1>1, <2>1, SolverConstants DEF OpenGroup
  <2>3. QED
    BY <1>1, <2>2 DEF OpenGroup, TypeOK, Tiers
<1>2. ASSUME NEW tier \in Tiers, ScanTier(tier)
      PROVE  TypeOK'
  <2>1. Len(mappings) < Len(Groups)
    BY <1>2 DEF ScanTier, TypeOK
  <2>2. Offered(tier) \in SUBSET Candidates
    BY <2>1, OfferedType
  <2>3. nearMiss' \in Candidates \cup {NoCandidate}
    BY <1>2, <2>2, NearestAfterType DEF ScanTier, TypeOK
  <2>4. nearTables' \in SUBSET Tables
    BY <1>2, <2>2, NearTablesAfterType DEF ScanTier, TypeOK
  <2>5. survivors' \in SUBSET Candidates /\ tiersRun' \in SUBSET Tiers
    BY <1>2, <2>2 DEF ScanTier, TypeOK
  <2>6. phase' \in {"tier2", "tier3", "score"}
    BY <1>2, NextPhaseType DEF ScanTier
  <2>7. UNCHANGED <<truth, resolvedTables, mappings>>
    BY <1>2 DEF ScanTier
  <2>8. QED
    BY <2>1, <2>3, <2>4, <2>5, <2>6, <2>7 DEF TypeOK, Tiers
<1>3. ASSUME NEW tier \in Tiers, AbortScan(tier)
      PROVE  TypeOK'
  BY <1>3, SolverConstants DEF AbortScan, Raised, TypeOK, Tiers
<1>4. CASE AbortScoring
  BY <1>4, SolverConstants DEF AbortScoring, Raised, TypeOK, Tiers
<1>5. ASSUME NEW best \in Candidates, Accept(best)
      PROVE  TypeOK'
  <2>1. Len(mappings) < Len(Groups)
    BY <1>5 DEF Accept, TypeOK
  <2>2. PICK miss \in BestRejected :
          Issue([metric |-> Metric, band |-> BandOf(Metric, truth[best]),
                 best |-> best, rejected |-> Rejected, nearMiss |-> miss,
                 tiersRun |-> tiersRun])
    BY <1>5 DEF Accept
  <2>3. miss \in Candidates \cup {NoCandidate}
    BY <2>2 DEF BestRejected
  <2>4. Rejected \in SUBSET Candidates
    BY DEF Rejected, TypeOK
  <2>5. [metric |-> Metric, band |-> BandOf(Metric, truth[best]),
         best |-> best, rejected |-> Rejected, nearMiss |-> miss,
         tiersRun |-> tiersRun] \in Mapping
    BY <2>1, <2>3, <2>4, MetricType, BandOfType DEF Mapping, TypeOK
  <2>6. resolvedTables' \in SUBSET Tables
    BY <1>5, SolverConstants DEF Accept, TablesAfter, TypeOK
  <2>7. QED
    BY <2>1, <2>2, <2>5, <2>6, IssueType DEF TypeOK, Tiers
<1>6. CASE DeclareUnmappable
  <2>1. Len(mappings) < Len(Groups)
    BY <1>6 DEF DeclareUnmappable, TypeOK
  <2>2. PICK miss \in IF nearMiss # NoCandidate THEN {nearMiss}
                      ELSE BestRejected :
          Issue([metric |-> Metric, band |-> "UNMAPPABLE",
                 best |-> NoCandidate, rejected |-> Rejected,
                 nearMiss |-> miss, tiersRun |-> tiersRun])
    BY <1>6 DEF DeclareUnmappable
  <2>3. miss \in Candidates \cup {NoCandidate}
    BY <2>2 DEF BestRejected, TypeOK
  <2>4. Rejected \in SUBSET Candidates
    BY DEF Rejected, TypeOK
  <2>5. [metric |-> Metric, band |-> "UNMAPPABLE", best |-> NoCandidate,
         rejected |-> Rejected, nearMiss |-> miss,
         tiersRun |-> tiersRun] \in Mapping
    BY <2>1, <2>3, <2>4, MetricType DEF Mapping, TypeOK, ConfidenceBand
  <2>6. UNCHANGED resolvedTables
    BY <1>6 DEF DeclareUnmappable
  <2>7. QED
    BY <2>1, <2>2, <2>5, <2>6, IssueType DEF TypeOK, Tiers
<1>7. CASE LeaveGroup
  <2>1. truth' \in [Candidates -> Answer]
    BY <1>7 DEF LeaveGroup, Unanswered, Answer
  <2>2. phase' = "done" \/ (phase' = "open" /\ Len(mappings) < Len(Groups))
    BY <1>7, SolverConstants DEF LeaveGroup, AfterVerdict, TypeOK
  <2>3. QED
    BY <1>7, <2>1, <2>2 DEF LeaveGroup, TypeOK, Tiers
<1>8. CASE Finished \/ UNCHANGED vars
  BY <1>8 DEF Finished, vars, TypeOK
<1>9. QED
  BY <1>1, <1>2, <1>3, <1>4, <1>5, <1>6, <1>7, <1>8 DEF Next

\* The solver's state is well typed; in particular it never opens a group
\* beyond the last one.
THEOREM TypeCorrect == Spec => []TypeOK
<1>1. Init => TypeOK
  <2> SUFFICES ASSUME Init
               PROVE  TypeOK
    OBVIOUS
  <2>1. truth \in [Candidates -> Answer]
    BY DEF Init, Unanswered, Answer
  <2>2. Len(Groups) \in Nat /\ (Groups # <<>> => Len(Groups) > 0)
    BY SolverConstants
  <2>3. QED
    BY <2>1, <2>2 DEF Init, TypeOK, Tiers
<1>2. QED
  BY <1>1, TypeStep, PTL DEF Spec

-----------------------------------------------------------------------------
(* The answers behind a verdict *)

Searching == phase \in Tiers \cup {"score"}

\* While a group is resolved the answers are one of its sheets.
SheetInv ==
    /\ Searching => truth \in Sheets[Metric]
    /\ Issued => /\ mappings # <<>>
                 /\ truth \in Sheets[Verdict.metric]

\* A candidate's tally on its group's sheet is one the bands are defined for.
LEMMA TallyFits ==
    ASSUME NEW m \in Metrics, NEW t \in Sheets[m], NEW c \in Candidates
    PROVE  /\ t[c] \in Answer
           /\ Tally(Satisfied(t[c]), Total(m, t[c]), Reproduces(t[c]))
<1>1. t \in [Candidates -> Answer]
  BY SolverConstants
<1>2. /\ t[c].hits \in Nat
      /\ t[c].skips \in Nat
      /\ t[c].skips <= Priors[m]
      /\ t[c].hits <= Breakdowns[m] + Priors[m] - t[c].skips
  BY <1>1, SolverConstants DEF Answer
<1>3. Breakdowns[m] \in Nat /\ Priors[m] \in Nat
  BY SolverConstants
<1>4. Reproduces(t[c]) \in BOOLEAN
  BY DEF Reproduces
<1>5. QED
  BY <1>1, <1>2, <1>3, <1>4 DEF Tally, Satisfied, Total

\* The verdict just issued, and what it was issued on.
LEMMA VerdictIssued ==
    ASSUME TypeOK, Len(mappings) < Len(Groups), NEW m, Issue(m)
    PROVE  /\ phase' = "issued"
           /\ mappings' = Append(mappings, m)
           /\ Verdict' = m
           /\ mappings' # <<>>
           /\ truth' = truth
<1>1. mappings \in Seq(Mapping)
  BY DEF TypeOK
<1>2. /\ Len(Append(mappings, m)) = Len(mappings) + 1
      /\ Append(mappings, m)[Len(mappings) + 1] = m
  BY <1>1
<1>3. QED
  BY <1>1, <1>2 DEF Issue, Verdict

LEMMA SheetStep ==
    TypeOK /\ SheetInv /\ [Next]_vars => SheetInv'
<1> SUFFICES ASSUME TypeOK, SheetInv, [Next]_vars
             PROVE  SheetInv'
  OBVIOUS
<1>1. CASE OpenGroup
  BY <1>1 DEF OpenGroup, SheetInv, Searching, Issued, Metric
<1>2. ASSUME NEW tier \in Tiers, ScanTier(tier)
      PROVE  SheetInv'
  <2>1. phase' \in {"tier2", "tier3", "score"}
    BY <1>2, NextPhaseType DEF ScanTier
  <2>2. QED
    BY <1>2, <2>1 DEF ScanTier, SheetInv, Searching, Issued, Metric
<1>3. ASSUME NEW tier \in Tiers, AbortScan(tier)
      PROVE  SheetInv'
  BY <1>3 DEF AbortScan, Raised, SheetInv, Searching, Issued, Tiers
<1>4. CASE AbortScoring
  BY <1>4 DEF AbortScoring, Raised, SheetInv, Searching, Issued, Tiers
<1>5. ASSUME NEW best \in Candidates, Accept(best)
      PROVE  SheetInv'
  <2>1. PICK m : Issue(m) /\ m.metric = Metric
    BY <1>5 DEF Accept
  <2>2. phase' = "issued" /\ Verdict' = m /\ mappings' # <<>> /\ truth' = truth
    BY <1>5, <2>1, VerdictIssued DEF Accept, TypeOK
  <2>3. truth \in Sheets[Metric]
    BY <1>5 DEF Accept, SheetInv, Searching
  <2>4. QED
    BY <2>1, <2>2, <2>3 DEF SheetInv, Searching, Issued, Tiers
<1>6. CASE DeclareUnmappable
  <2>1. PICK m : Issue(m) /\ m.metric = Metric
    BY <1>6 DEF DeclareUnmappable
  <2>2. phase' = "issued" /\ Verdict' = m /\ mappings' # <<>> /\ truth' = truth
    BY <1>6, <2>1, VerdictIssued DEF DeclareUnmappable, TypeOK
  <2>3. truth \in Sheets[Metric]
    BY <1>6 DEF DeclareUnmappable, SheetInv, Searching
  <2>4. QED
    BY <2>1, <2>2, <2>3 DEF SheetInv, Searching, Issued, Tiers
<1>7. CASE LeaveGroup
  BY <1>7 DEF LeaveGroup, AfterVerdict, SheetInv, Searching, Issued, Tiers
<1>8. CASE Finished \/ UNCHANGED vars
  BY <1>8 DEF Finished, vars, SheetInv, Searching, Issued, Metric, Verdict
<1>9. QED
  BY <1>1, <1>2, <1>3, <1>4, <1>5, <1>6, <1>7, <1>8 DEF Next

LEMMA SheetCorrect == Spec => [](TypeOK /\ SheetInv)
<1>1. Init => SheetInv
  BY DEF Init, SheetInv, Searching, Issued, Tiers
<1>2. QED
  BY <1>1, SheetStep, TypeCorrect, PTL DEF Spec

-----------------------------------------------------------------------------
(* Bands *)

\* An accepted tally satisfies what the documentation says of its band.
LEMMA AcceptedTally ==
    ASSUME NEW s, NEW t, NEW ok, Tally(s, t, ok), Accepting(Band(s, t, ok))
    PROVE  /\ ok
           /\ Band(s, t, ok) \in {"CONFIRMED", "PROBABLE", "WEAK"}
           /\ Band(s, t, ok) = "CONFIRMED" => t >= 4 /\ 10 * s >= 9 * t
           /\ Band(s, t, ok) = "PROBABLE" => t >= 2 /\ 4 * s >= 3 * t
           /\ Band(s, t, ok) = "WEAK" => t = 1
<1>1. ok
  BY AcceptedReproduces
<1>2. Band(s, t, ok) # "REJECTED"
  BY Ranks DEF Accepting
<1>3. /\ AtLeast(90, s, t) => 10 * s >= 9 * t
      /\ AtLeast(75, s, t) => 4 * s >= 3 * t
  BY DEF AtLeast, Tally
<1>4. QED
  BY <1>1, <1>2, <1>3, DocumentedBands

LEMMA EarnedStep ==
    TypeOK /\ SheetInv /\ EarnedBand /\ [Next]_vars => EarnedBand'
<1> SUFFICES ASSUME TypeOK, SheetInv, EarnedBand, [Next]_vars
             PROVE  EarnedBand'
  OBVIOUS
<1>1. ASSUME NEW best \in Candidates, Accept(best)
      PROVE  EarnedBand'
  <2> DEFINE a == truth[best]
  <2>1. Len(mappings) < Len(Groups) /\ Metric \in Metrics
    BY <1>1, MetricType DEF Accept, TypeOK
  <2>2. PICK m : /\ Issue(m)
                 /\ m.metric = Metric
                 /\ m.best = best
                 /\ m.band = BandOf(Metric, a)
    BY <1>1 DEF Accept
  <2>3. Verdict' = m /\ truth' = truth
    BY <2>1, <2>2, VerdictIssued
  <2>4. truth \in Sheets[Metric]
    BY <1>1 DEF Accept, SheetInv, Searching
  <2>5. Tally(Satisfied(a), Total(Metric, a), Reproduces(a))
    BY <2>1, <2>4, TallyFits
  <2>6. Accepting(BandOf(Metric, a))
    BY <1>1 DEF Accept, Heads, Accepted
  <2>7. /\ Reproduces(a)
        /\ m.band \in {"CONFIRMED", "PROBABLE", "WEAK"}
        /\ m.band = "CONFIRMED" => /\ Total(Metric, a) >= 4
                                   /\ 10 * Satisfied(a) >= 9 * Total(Metric, a)
        /\ m.band = "PROBABLE" => /\ Total(Metric, a) >= 2
                                  /\ 4 * Satisfied(a) >= 3 * Total(Metric, a)
        /\ m.band = "WEAK" => Total(Metric, a) = 1
    BY <2>2, <2>5, <2>6, AcceptedTally DEF BandOf
  <2>8. Satisfied(a) = 1 + a.hits
    BY <2>7 DEF Satisfied
  <2>9. a.grand \in Nat /\ a.grand <= Tolerance
    BY <2>7 DEF Reproduces
  <2>10. Total(Verdict.metric, truth[Verdict.best])' = Total(Metric, a)
    BY <2>2, <2>3 DEF Total
  <2>11. truth[Verdict.best]' = a /\ Verdict.band' = m.band
    BY <2>2, <2>3
  <2>12. QED
    BY <2>7, <2>8, <2>9, <2>10, <2>11 DEF EarnedBand
<1>2. CASE DeclareUnmappable
  <2>1. PICK m : Issue(m) /\ m.band = "UNMAPPABLE"
    BY <1>2 DEF DeclareUnmappable
  <2>2. Verdict' = m
    BY <1>2, <2>1, VerdictIssued DEF DeclareUnmappable, TypeOK
  <2>3. QED
    BY <2>1, <2>2 DEF EarnedBand, Mapped
<1>3. CASE Finished \/ UNCHANGED vars
  <2>1. UNCHANGED vars
    BY <1>3 DEF Finished
  <2>2. QED
    BY <2>1 DEF vars, EarnedBand, Mapped, Issued, Verdict, Total
<1>4. CASE ~Issued'
  BY <1>4 DEF EarnedBand, Mapped
<1>5. ASSUME NEW tier \in Tiers, ScanTier(tier)
      PROVE  ~Issued'
  <2>1. phase' \in {"tier2", "tier3", "score"}
    BY <1>5, NextPhaseType DEF ScanTier
  <2>2. QED
    BY <2>1 DEF Issued
<1>6. ASSUME \/ OpenGroup
             \/ \E tier \in Tiers : AbortScan(tier)
             \/ AbortScoring
             \/ LeaveGroup
      PROVE  ~Issued'
  BY <1>6 DEF OpenGroup, AbortScan, AbortScoring, Raised, LeaveGroup,
              AfterVerdict, Issued
<1>7. QED
  BY <1>1, <1>2, <1>3, <1>4, <1>5, <1>6 DEF Next

\* Whatever the report and the warehouse, a formula that leaves the engine
\* reproduces the grand total and satisfies what the documentation promises of
\* its band.
THEOREM BandsAreEarned == Spec => []EarnedBand
<1>1. Init => EarnedBand
  BY DEF Init, EarnedBand, Mapped, Issued
<1>2. QED
  BY <1>1, EarnedStep, SheetCorrect, PTL DEF Spec

-----------------------------------------------------------------------------
(* What later searches learn *)

LEMMA LocalityOfIssue ==
    ASSUME TypeOK, LocalityIsEarned, phase # "aborted", NEW m, Issue(m),
           resolvedTables' = IF m.band = "UNMAPPABLE" THEN resolvedTables
                             ELSE resolvedTables \cup {LhsTable[m.best]}
    PROVE  LocalityIsEarned'
<1>1. /\ mappings' = Append(mappings, m)
      /\ mappings \in Seq(Mapping)
  BY DEF Issue, TypeOK
<1>2. /\ DOMAIN mappings' = DOMAIN mappings \cup {Len(mappings) + 1}
      /\ \A i \in DOMAIN mappings : mappings'[i] = mappings[i]
      /\ mappings'[Len(mappings) + 1] = m
  BY <1>1
<1>3. QED
  BY <1>1, <1>2 DEF LocalityIsEarned

LEMMA LocalityStep ==
    TypeOK /\ LocalityIsEarned /\ [Next]_vars => LocalityIsEarned'
<1> SUFFICES ASSUME TypeOK, LocalityIsEarned, [Next]_vars
             PROVE  LocalityIsEarned'
  OBVIOUS
<1>1. ASSUME NEW best \in Candidates, Accept(best)
      PROVE  LocalityIsEarned'
  <2>1. PICK m : /\ Issue(m)
                 /\ m.best = best
                 /\ m.band = BandOf(Metric, truth[best])
    BY <1>1 DEF Accept
  <2>2. m.band # "UNMAPPABLE"
    BY <2>1, BandOfType
  <2>3. resolvedTables' = resolvedTables \cup {LhsTable[m.best]}
    BY <1>1, <2>1 DEF Accept, TablesAfter
  <2>4. QED
    BY <1>1, <2>1, <2>2, <2>3, LocalityOfIssue DEF Accept
<1>2. CASE DeclareUnmappable
  <2>1. PICK m : Issue(m) /\ m.band = "UNMAPPABLE"
    BY <1>2 DEF DeclareUnmappable
  <2>2. QED
    BY <1>2, <2>1, LocalityOfIssue DEF DeclareUnmappable
<1>3. CASE UNCHANGED <<resolvedTables, mappings>> /\ phase # "aborted"
  BY <1>3 DEF LocalityIsEarned
<1>4. CASE phase' = "aborted"
  BY <1>4 DEF LocalityIsEarned
<1>5. CASE UNCHANGED vars
  BY <1>5 DEF vars, LocalityIsEarned
<1>6. QED
  BY <1>1, <1>2, <1>3, <1>4, <1>5 DEF Next, OpenGroup, ScanTier, AbortScan,
     AbortScoring, Raised, LeaveGroup, Finished, Tiers

\* The tables that widen later searches are, for every order of the metrics,
\* exactly those of the formulas accepted so far.
THEOREM LocalityEarned == Spec => []LocalityIsEarned
<1>1. Init => LocalityIsEarned
  BY DEF Init, LocalityIsEarned
<1>2. QED
  BY <1>1, LocalityStep, TypeCorrect, PTL DEF Spec

-----------------------------------------------------------------------------
(* The search *)

\* What the search has established by the time it reaches a phase: survivors
\* hold every reproducing candidate of the tiers run, the near miss is the
\* nearest failure among them, and a tier runs on empty-handed predecessors.
TierInv ==
    /\ phase \in {"open", "tier1"} => tiersRun = {} /\ nearMiss = NoCandidate
    /\ phase = "tier2" => tiersRun = {"tier1"}
    /\ phase = "tier3" => tiersRun = {"tier1", "tier2"}
    /\ phase \in {"open"} \cup Tiers => survivors = {}
    /\ nearMiss # NoCandidate => Misses(truth[nearMiss])
    /\ Searching =>
         /\ \A tier \in tiersRun : \A c \in Offered(tier) :
                /\ Reproduces(truth[c]) => c \in survivors
                /\ Misses(truth[c]) =>
                     /\ nearMiss # NoCandidate
                     /\ truth[nearMiss].grand <= truth[c].grand
         /\ "tier2" \in tiersRun =>
              \A c \in Offered("tier1") : ~Reproduces(truth[c])
         /\ "tier3" \in tiersRun =>
              \A c \in Offered("tier2") : ~Reproduces(truth[c])

\* keep_near leaves the least error of those it has seen.
LEMMA NearestAfterLeast ==
    ASSUME NEW tried \in SUBSET Candidates, NEW n \in NearestAfter(tried),
           nearMiss \in Candidates \cup {NoCandidate},
           nearMiss # NoCandidate => Misses(truth[nearMiss])
    PROVE  /\ n # NoCandidate => Misses(truth[n])
           /\ nearMiss # NoCandidate =>
                /\ n # NoCandidate
                /\ truth[n].grand <= truth[nearMiss].grand
           /\ \A c \in tried : Misses(truth[c]) =>
                /\ n # NoCandidate
                /\ truth[n].grand <= truth[c].grand
<1> DEFINE closer == {c \in tried :
                        /\ Misses(truth[c])
                        /\ \/ nearMiss = NoCandidate
                           \/ truth[c].grand < truth[nearMiss].grand}
<1>1. CASE closer = {}
  <2>1. n = nearMiss
    BY <1>1 DEF NearestAfter
  <2>2. ASSUME NEW c \in tried, Misses(truth[c])
        PROVE  nearMiss # NoCandidate /\ truth[nearMiss].grand <= truth[c].grand
    BY <1>1, <2>2 DEF Misses
  <2>3. nearMiss # NoCandidate => truth[nearMiss].grand <= truth[nearMiss].grand
    BY DEF Misses
  <2>4. QED
    BY <2>1, <2>2, <2>3
<1>2. CASE closer # {}
  <2>1. n \in closer /\ \A d \in closer : truth[n].grand <= truth[d].grand
    BY <1>2 DEF NearestAfter
  <2>2. n # NoCandidate
    BY <2>1, SolverConstants
  <2>3. nearMiss # NoCandidate => truth[n].grand <= truth[nearMiss].grand
    BY <2>1 DEF Misses
  <2>4. ASSUME NEW c \in tried, Misses(truth[c])
        PROVE  truth[n].grand <= truth[c].grand
    <3>1. CASE c \in closer
      BY <2>1, <3>1
    <3>2. CASE c \notin closer
      <4>1. nearMiss # NoCandidate /\ ~(truth[c].grand < truth[nearMiss].grand)
        BY <2>4, <3>2
      <4>2. QED
        BY <2>1, <2>3, <2>4, <4>1 DEF Misses
    <3>3. QED
      BY <3>1, <3>2
  <2>5. QED
    BY <2>1, <2>2, <2>3, <2>4
<1>3. QED
  BY <1>1, <1>2

\* What tiers 1 and 2 try depends on no scope.
LEMMA FixedTiers ==
    ASSUME NEW tier \in {"tier1", "tier2"}, NEW m, NEW h, NEW k
    PROVE  TierCandidates(tier, m, h) = TierCandidates(tier, m, k)
<1>1. CASE tier = "tier1"
  BY <1>1 DEF TierCandidates
<1>2. CASE tier = "tier2"
  BY <1>2 DEF TierCandidates
<1>3. QED
  BY <1>1, <1>2

\* A scan leaves the candidates of the tiers run so far, and its own, what they
\* were: only tier 2 notes near tables, and only tier 3 looks at them.
LEMMA ScanKeepsOffered ==
    ASSUME TypeOK, TierInv, NEW tier \in Tiers, ScanTier(tier),
           NEW u \in tiersRun \cup {tier}
    PROVE  Offered(u)' = Offered(u)
<1>1. Metric' = Metric /\ resolvedTables' = resolvedTables
  BY DEF ScanTier, Metric
<1>2. Offered(u)' = TierCandidates(u, Metric, Held')
  BY <1>1 DEF Offered, TierCandidates, LocalSearch, Scope, Held
<1>3. CASE u \in {"tier1", "tier2"}
  BY <1>2, <1>3, FixedTiers DEF Offered
<1>4. CASE u = "tier3"
  <2>1. tier = "tier3"
    BY <1>4 DEF ScanTier, TierInv, Tiers
  <2>2. Held' = Held
    BY <1>1, <2>1 DEF ScanTier, NearTablesAfter, Held
  <2>3. QED
    BY <1>2, <2>2 DEF Offered
<1>5. QED
  BY <1>3, <1>4 DEF Tiers, TypeOK

LEMMA ScanKeepsTierInv ==
    ASSUME TypeOK, TierInv, NEW tier \in Tiers, ScanTier(tier)
    PROVE  TierInv'
<1> DEFINE T == Offered(tier)
<1>1. /\ Searching
      /\ UNCHANGED <<truth, mappings>>
      /\ Metric' = Metric
      /\ Len(mappings) < Len(Groups)
  BY DEF ScanTier, Searching, Metric, TypeOK
<1>2. T \in SUBSET Candidates
  BY <1>1, OfferedType
<1>3. /\ survivors = {}
      /\ survivors' = {c \in T : Reproduces(truth[c])}
      /\ tiersRun' = tiersRun \cup {tier}
      /\ phase' = NextPhase(tier, survivors', nearTables')
  BY DEF ScanTier, TierInv
<1>4. nearMiss' \in NearestAfter(T)
  BY DEF ScanTier
<1>5. /\ nearMiss' # NoCandidate => Misses(truth[nearMiss'])
      /\ nearMiss # NoCandidate =>
           /\ nearMiss' # NoCandidate
           /\ truth[nearMiss'].grand <= truth[nearMiss].grand
      /\ \A c \in T : Misses(truth[c]) =>
           /\ nearMiss' # NoCandidate
           /\ truth[nearMiss'].grand <= truth[c].grand
  BY <1>2, <1>4, NearestAfterLeast DEF TypeOK, TierInv
<1>6. /\ phase' \in {"tier2", "tier3", "score"}
      /\ phase' = "tier2" => tier = "tier1" /\ survivors' = {}
      /\ phase' = "tier3" => tier = "tier2" /\ survivors' = {}
  BY <1>3, NextPhaseType
<1>7. /\ tier = "tier1" => tiersRun = {}
      /\ tier = "tier2" => tiersRun = {"tier1"}
      /\ tier = "tier3" => tiersRun = {"tier1", "tier2"}
  BY DEF ScanTier, TierInv
<1>8. ASSUME NEW u \in tiersRun', NEW c \in Offered(u)
      PROVE  /\ Reproduces(truth[c]) => c \in survivors'
             /\ Misses(truth[c]) =>
                  /\ nearMiss' # NoCandidate
                  /\ truth[nearMiss'].grand <= truth[c].grand
  <2>1. CASE u = tier
    BY <1>3, <1>5, <1>8, <2>1
  <2>2. CASE u # tier
    <3>1. u \in tiersRun
      BY <1>3, <1>8, <2>2
    <3>2. /\ Reproduces(truth[c]) => c \in survivors
          /\ Misses(truth[c]) =>
               /\ nearMiss # NoCandidate
               /\ truth[nearMiss].grand <= truth[c].grand
      BY <1>1, <1>8, <3>1 DEF TierInv
    <3>3. ASSUME Misses(truth[c])
          PROVE  /\ nearMiss' # NoCandidate
                 /\ truth[nearMiss'].grand <= truth[c].grand
      BY <1>5, <3>2, <3>3 DEF Misses, TierInv
    <3>4. QED
      BY <1>3, <3>2, <3>3
  <2>3. QED
    BY <2>1, <2>2
<1>9. "tier2" \in tiersRun' =>
        \A c \in Offered("tier1") : ~Reproduces(truth[c])
  BY <1>1, <1>3, <1>7 DEF TierInv, Tiers
<1>10. "tier3" \in tiersRun' =>
         \A c \in Offered("tier2") : ~Reproduces(truth[c])
  BY <1>1, <1>3, <1>7 DEF TierInv, Tiers
<1>11. /\ phase' # "open" /\ phase' # "tier1"
       /\ phase' = "tier2" => tiersRun' = {"tier1"}
       /\ phase' = "tier3" => tiersRun' = {"tier1", "tier2"}
       /\ phase' \in {"open"} \cup Tiers => survivors' = {}
  BY <1>3, <1>6, <1>7 DEF Tiers
<1>12. \A c : /\ Reproduces(truth[c])' = Reproduces(truth[c])
              /\ Misses(truth[c])' = Misses(truth[c])
  BY <1>1 DEF Reproduces, Misses
<1>13. Misses(truth[nearMiss])' = Misses(truth[nearMiss'])
  BY <1>1 DEF Misses
<1>14. /\ \A u \in tiersRun' : Offered(u)' = Offered(u)
       /\ "tier2" \in tiersRun' => "tier1" \in tiersRun'
       /\ "tier3" \in tiersRun' => "tier2" \in tiersRun'
  BY <1>3, <1>7, ScanKeepsOffered DEF Tiers
<1>15. QED
  BY <1>1, <1>5, <1>8, <1>9, <1>10, <1>11, <1>12, <1>13, <1>14 DEF TierInv

LEMMA TierStep ==
    TypeOK /\ TierInv /\ [Next]_vars => TierInv'
<1> SUFFICES ASSUME TypeOK, TierInv, [Next]_vars
             PROVE  TierInv'
  OBVIOUS
<1>1. CASE OpenGroup
  BY <1>1 DEF OpenGroup, TierInv, Searching, Tiers
<1>2. ASSUME NEW tier \in Tiers, ScanTier(tier)
      PROVE  TierInv'
  BY <1>2, ScanKeepsTierInv
<1>3. ASSUME \/ \E tier \in Tiers : AbortScan(tier)
             \/ AbortScoring
      PROVE  TierInv'
  BY <1>3 DEF AbortScan, AbortScoring, Raised, TierInv, Searching, Tiers, Misses
<1>4. ASSUME NEW m, Issue(m)
      PROVE  TierInv'
  BY <1>4 DEF Issue, TierInv, Searching, Tiers, Misses
<1>5. CASE LeaveGroup
  BY <1>5 DEF LeaveGroup, AfterVerdict, TierInv, Searching, Tiers
<1>6. CASE Finished \/ UNCHANGED vars
  <2>1. UNCHANGED vars
    BY <1>6 DEF Finished
  <2>2. Metric' = Metric /\ Searching' = Searching
    BY <2>1 DEF vars, Metric, Searching
  <2>3. \A u, c : /\ Offered(u)' = Offered(u)
                  /\ Reproduces(truth[c])' = Reproduces(truth[c])
                  /\ Misses(truth[c])' = Misses(truth[c])
    BY <2>1, <2>2 DEF vars, Offered, TierCandidates, LocalSearch, Scope, Held,
                      Reproduces, Misses
  <2>4. QED
    BY <2>1, <2>2, <2>3 DEF vars, TierInv
<1>7. QED
  BY <1>1, <1>2, <1>3, <1>4, <1>5, <1>6 DEF Next, Accept, DeclareUnmappable

LEMMA SearchCorrect ==
    Spec => [](TypeOK /\ SheetInv /\ TierInv /\ LocalityIsEarned)
<1>1. Init => TierInv
  BY DEF Init, TierInv, Searching, Tiers
<1>2. QED
  BY <1>1, TierStep, SheetCorrect, LocalityEarned, PTL DEF Spec

-----------------------------------------------------------------------------
(* What a verdict says of the search *)

\* Only a verdict step, or standing still, leaves the solver with a verdict
\* just issued.
LEMMA IssuedOnlyByVerdict ==
    ASSUME TypeOK, [Next]_vars, Issued'
    PROVE  \/ \E best \in Candidates : Accept(best)
           \/ DeclareUnmappable
           \/ UNCHANGED vars
<1>1. ASSUME NEW tier \in Tiers, ScanTier(tier)
      PROVE  FALSE
  <2>1. phase' \in {"tier2", "tier3", "score"}
    BY <1>1, NextPhaseType DEF ScanTier
  <2>2. QED
    BY <2>1 DEF Issued
<1>2. ASSUME \/ OpenGroup
             \/ \E tier \in Tiers : AbortScan(tier)
             \/ AbortScoring
             \/ LeaveGroup
      PROVE  FALSE
  BY <1>2 DEF OpenGroup, AbortScan, AbortScoring, Raised, LeaveGroup,
              AfterVerdict, Issued
<1>3. QED
  BY <1>1, <1>2 DEF Next, Finished

\* What the tiers tried, seen from the verdict, is what they were offered: the
\* tables of the formulas accepted before it are the ones resolved by then.
LEMMA TriedIsOffered ==
    ASSUME TypeOK, LocalityIsEarned, Searching, NEW m, Issue(m),
           m.metric = Metric, NEW tier
    PROVE  Tried(tier)' = Offered(tier)
<1>1. /\ mappings \in Seq(Mapping)
      /\ mappings' = Append(mappings, m)
      /\ nearTables' = nearTables
      /\ phase # "aborted"
  BY DEF Issue, TypeOK, Searching, Tiers
<1>2. /\ Len(mappings') - 1 = Len(mappings)
      /\ DOMAIN mappings = 1..Len(mappings)
      /\ \A i \in DOMAIN mappings : mappings'[i] = mappings[i]
      /\ Verdict' = m
  BY <1>1 DEF Verdict
<1>3. EarnedBefore' = resolvedTables
  BY <1>1, <1>2 DEF EarnedBefore, LocalityIsEarned
<1>4. Tried(tier)' = TierCandidates(tier, Verdict'.metric,
                                    EarnedBefore' \cup nearTables')
  BY DEF Tried, TierCandidates, LocalSearch, Scope, EarnedBefore, Verdict
<1>5. QED
  BY <1>1, <1>2, <1>3, <1>4 DEF Offered, Held

\* An acceptance records the search as it stands.
LEMMA AcceptRecords ==
    ASSUME TypeOK, LocalityIsEarned, NEW best \in Candidates, Accept(best)
    PROVE  /\ truth' = truth
           /\ Searching
           /\ Metric \in Metrics
           /\ Verdict'.metric = Metric
           /\ Verdict'.best = best
           /\ Verdict'.band = BandOf(Metric, truth[best])
           /\ Verdict'.tiersRun = tiersRun
           /\ \A tier : Tried(tier)' = Offered(tier)
           /\ Heads(best, Accepted)
<1>1. Len(mappings) < Len(Groups) /\ Searching
  BY DEF Accept, TypeOK, Searching
<1>2. PICK m : /\ Issue(m)
               /\ m.metric = Metric
               /\ m.best = best
               /\ m.band = BandOf(Metric, truth[best])
               /\ m.tiersRun = tiersRun
  BY DEF Accept
<1>3. Verdict' = m /\ truth' = truth
  BY <1>1, <1>2, VerdictIssued
<1>4. QED
  BY <1>1, <1>2, <1>3, MetricType, TriedIsOffered DEF Accept

LEMMA UnmappableRecords ==
    ASSUME TypeOK, LocalityIsEarned, DeclareUnmappable
    PROVE  /\ truth' = truth
           /\ Searching
           /\ Verdict'.metric = Metric
           /\ Verdict'.band = "UNMAPPABLE"
           /\ Verdict'.tiersRun = tiersRun
           /\ \A tier : Tried(tier)' = Offered(tier)
           /\ nearMiss # NoCandidate => Verdict'.nearMiss = nearMiss
<1>1. Len(mappings) < Len(Groups) /\ Searching
  BY DEF DeclareUnmappable, TypeOK, Searching
<1>2. PICK m : /\ Issue(m)
               /\ m.metric = Metric
               /\ m.band = "UNMAPPABLE"
               /\ m.tiersRun = tiersRun
               /\ nearMiss # NoCandidate => m.nearMiss = nearMiss
  BY DEF DeclareUnmappable
<1>3. Verdict' = m /\ truth' = truth
  BY <1>1, <1>2, VerdictIssued
<1>4. QED
  BY <1>1, <1>2, <1>3, TriedIsOffered

LEMMA TriedStays ==
    ASSUME UNCHANGED vars, NEW tier
    PROVE  Tried(tier)' = Tried(tier)
  BY DEF vars, Tried, TierCandidates, LocalSearch, Scope, EarnedBefore, Verdict

LEMMA OrderStep ==
    TypeOK /\ TierInv /\ LocalityIsEarned /\ TiersInOrder /\ [Next]_vars
      => TiersInOrder'
<1> SUFFICES ASSUME TypeOK, TierInv, LocalityIsEarned, TiersInOrder,
                    [Next]_vars, Issued'
             PROVE  TiersInOrder'
  BY DEF TiersInOrder
<1>1. ASSUME Searching, truth' = truth, Verdict'.tiersRun = tiersRun,
             \A tier : Tried(tier)' = Offered(tier)
      PROVE  TiersInOrder'
  BY <1>1 DEF TierInv, TiersInOrder, Reproduces
<1>2. CASE \E best \in Candidates : Accept(best)
  BY <1>1, <1>2, AcceptRecords
<1>3. CASE DeclareUnmappable
  BY <1>1, <1>3, UnmappableRecords
<1>4. CASE UNCHANGED vars
  <2>1. Verdict' = Verdict /\ Issued /\ truth' = truth
    BY <1>4 DEF vars, Verdict, Issued
  <2>2. QED
    BY <1>4, <2>1, TriedStays DEF TiersInOrder, Reproduces
<1>5. QED
  BY <1>2, <1>3, <1>4, IssuedOnlyByVerdict

\* For every report and catalog, a verdict that rests on a tier means that the
\* tiers before it hold no formula that reproduces the total.
THEOREM TiersRunInOrder == Spec => []TiersInOrder
<1>1. Init => TiersInOrder
  BY DEF Init, TiersInOrder, Issued
<1>2. QED
  BY <1>1, OrderStep, SearchCorrect, PTL DEF Spec

LEMMA NearestStep ==
    TypeOK /\ TierInv /\ LocalityIsEarned /\ NearMissIsNearest /\ [Next]_vars
      => NearMissIsNearest'
<1> SUFFICES ASSUME TypeOK, TierInv, LocalityIsEarned, NearMissIsNearest,
                    [Next]_vars, Issued', Verdict'.band = "UNMAPPABLE"
             PROVE  NearMissIsNearest'
  BY DEF NearMissIsNearest
<1>1. CASE \E best \in Candidates : Accept(best)
  BY <1>1, AcceptRecords, BandOfType
<1>2. CASE DeclareUnmappable
  <2>1. /\ truth' = truth
        /\ Searching
        /\ Verdict'.tiersRun = tiersRun
        /\ \A tier : Tried(tier)' = Offered(tier)
        /\ nearMiss # NoCandidate => Verdict'.nearMiss = nearMiss
    BY <1>2, UnmappableRecords
  <2>2. ASSUME NEW tier \in tiersRun, NEW c \in Offered(tier), Misses(truth[c])
        PROVE  /\ nearMiss # NoCandidate
               /\ Misses(truth[nearMiss])
               /\ truth[nearMiss].grand <= truth[c].grand
    BY <2>1, <2>2 DEF TierInv
  <2>3. QED
    BY <2>1, <2>2 DEF NearMissIsNearest, Misses
<1>3. CASE UNCHANGED vars
  <2>1. Verdict' = Verdict /\ Issued /\ truth' = truth
    BY <1>3 DEF vars, Verdict, Issued
  <2>2. QED
    BY <1>3, <2>1, TriedStays DEF NearMissIsNearest, Misses
<1>4. QED
  BY <1>1, <1>2, <1>3, IssuedOnlyByVerdict

\* The steward of an unmappable metric is shown the nearest failure of every
\* tier that ran, tier 3 included, for every report and catalog.
THEOREM NearMissesAreNearest == Spec => []NearMissIsNearest
<1>1. Init => NearMissIsNearest
  BY DEF Init, NearMissIsNearest, Issued
<1>2. QED
  BY <1>1, NearestStep, SearchCorrect, PTL DEF Spec

\* A candidate that misses the grand total is never accepted.
LEMMA AcceptingReproduces ==
    ASSUME NEW m, NEW a, Accepting(BandOf(m, a))
    PROVE  Reproduces(a)
  BY AcceptedReproduces DEF BandOf

LEMMA RankIsNat ==
    ASSUME NEW m, NEW a
    PROVE  /\ BandRank(BandOf(m, a)) \in Nat
           /\ ~Accepting(BandOf(m, a)) => BandRank(BandOf(m, a)) < 2
           /\ Accepting(BandOf(m, a)) => BandRank(BandOf(m, a)) >= 2
  BY BandOfType, Ranks DEF ConfidenceBand, Accepting

LEMMA BestStep ==
    TypeOK /\ SheetInv /\ TierInv /\ LocalityIsEarned /\ BestIsBest /\ [Next]_vars
      => BestIsBest'
<1> SUFFICES ASSUME TypeOK, SheetInv, TierInv, LocalityIsEarned, BestIsBest,
                    [Next]_vars, Issued'
             PROVE  BestIsBest'
  BY DEF BestIsBest, Mapped
<1>1. ASSUME NEW best \in Candidates, Accept(best)
      PROVE  BestIsBest'
  <2>1. /\ truth' = truth
        /\ Searching
        /\ Metric \in Metrics
        /\ Verdict'.metric = Metric
        /\ Verdict'.best = best
        /\ Verdict'.band = BandOf(Metric, truth[best])
        /\ Verdict'.tiersRun = tiersRun
        /\ \A tier : Tried(tier)' = Offered(tier)
        /\ Heads(best, Accepted)
    BY <1>1, AcceptRecords
  <2>2. truth \in Sheets[Metric]
    BY <2>1 DEF SheetInv
  <2>3. best \in Accepted /\ Accepting(BandOf(Metric, truth[best]))
    BY <2>1 DEF Heads, Accepted
  <2>4. ASSUME NEW tier \in tiersRun, NEW c \in Offered(tier)
        PROVE  /\ BandRank(BandOf(Metric, truth[c]))
                    <= BandRank(BandOf(Metric, truth[best]))
               /\ BandOf(Metric, truth[c]) = BandOf(Metric, truth[best]) =>
                     ~Outscores(Metric, truth[c], truth[best])
    <3> DEFINE own == BandOf(Metric, truth[c])
               won == BandOf(Metric, truth[best])
    <3>1. c \in Candidates
      BY <2>1, <2>4, OfferedType DEF Searching, TypeOK
    <3>2. CASE ~Accepting(own)
      BY <2>3, <3>2, RankIsNat
    <3>3. CASE Accepting(own) /\ c = best
      <4>1. /\ Satisfied(truth[best]) * Total(Metric, truth[best]) \in Int
        BY <2>1, <2>2, TallyFits DEF Tally
      <4>2. QED
        BY <3>3, <4>1, RankIsNat DEF Outscores
    <3>4. CASE Accepting(own) /\ c # best
      <4>1. c \in Accepted
        <5>1. Reproduces(truth[c])
          BY <3>4, AcceptingReproduces
        <5>2. c \in survivors
          BY <2>1, <2>4, <5>1 DEF TierInv
        <5>3. QED
          BY <3>4, <5>2 DEF Accepted
      <4>2. Precedes(best, c)
        BY <2>1, <3>4, <4>1 DEF Heads
      <4>3. /\ Satisfied(truth[best]) * Total(Metric, truth[c]) \in Int
            /\ Satisfied(truth[c]) * Total(Metric, truth[best]) \in Int
        BY <2>1, <2>2, <3>1, TallyFits DEF Tally
      <4>4. Outscores(Metric, truth[best], truth[c])
              => ~Outscores(Metric, truth[c], truth[best])
        BY <4>3 DEF Outscores
      <4>5. QED
        BY <4>2, <4>4, RankIsNat DEF Precedes
    <3>5. QED
      BY <3>2, <3>3, <3>4
  <2>5. truth[Verdict.best]' = truth[best]
    BY <2>1
  <2>6. \A c : /\ BandOf(Verdict.metric, truth[c])' = BandOf(Metric, truth[c])
               /\ Outscores(Verdict.metric, truth[c], truth[Verdict.best])' =
                     Outscores(Metric, truth[c], truth[best])
    BY <2>1 DEF BandOf, Total, Satisfied, Reproduces, Outscores
  <2>7. QED
    BY <2>1, <2>4, <2>5, <2>6 DEF BestIsBest
<1>2. CASE DeclareUnmappable
  BY <1>2, UnmappableRecords DEF BestIsBest, Mapped
<1>3. CASE UNCHANGED vars
  <2>1. Verdict' = Verdict /\ Mapped' = Mapped /\ truth' = truth
    BY <1>3 DEF vars, Verdict, Mapped, Issued
  <2>2. QED
    BY <1>3, <2>1, TriedStays DEF BestIsBest, BandOf, Total, Satisfied,
       Reproduces, Outscores
<1>4. QED
  BY <1>1, <1>2, <1>3, IssuedOnlyByVerdict

\* For every report and warehouse, no candidate of a tier that ran, the
\* compositions tier 3 found around the tables it knew among them, would have
\* earned a higher band than the formula accepted, nor its band with a better
\* score.
THEOREM BestFormulaWins == Spec => []BestIsBest
<1>1. Init => BestIsBest
  BY DEF Init, BestIsBest, Mapped, Issued
<1>2. QED
  BY <1>1, BestStep, SearchCorrect, PTL DEF Spec

-----------------------------------------------------------------------------
(* The contract *)

\* What the contract sees of a mapping, of all mappings, and of the phase.
Seen(m) == [metric |-> m.metric, band |-> m.band, best |-> m.best]
SeenAll == [i \in DOMAIN mappings |-> Seen(mappings[i])]
Outcome == IF phase = "aborted" THEN "raised"
           ELSE IF Len(mappings) = Len(Groups) THEN "returned"
           ELSE "running"

\* Append spelled out as a function.
LEMMA AppendFunction ==
    ASSUME NEW S, NEW seq \in Seq(S), NEW e \in S
    PROVE  Append(seq, e) =
              [i \in 1..(Len(seq) + 1) |->
                 IF i = Len(seq) + 1 THEN e ELSE seq[i]]
<1> DEFINE longer == [i \in 1..(Len(seq) + 1) |->
                        IF i = Len(seq) + 1 THEN e ELSE seq[i]]
<1>1. Append(seq, e) \in Seq(S) /\ Len(Append(seq, e)) = Len(seq) + 1
  OBVIOUS
<1>2. longer \in Seq(S) /\ Len(longer) = Len(seq) + 1
  OBVIOUS
<1>3. \A i \in 1..(Len(seq) + 1) : Append(seq, e)[i] = longer[i]
  OBVIOUS
<1>4. QED
  BY <1>1, <1>2, <1>3, SeqEqual

\* Issuing a verdict the contract allows is a Decide step of the contract.
LEMMA IssueDecides ==
    ASSUME TypeOK, Searching, NEW m, Issue(m),
           Seen(m) \in Contract!VerdictsOn(Metric)
    PROVE  Contract!Decide
<1>1. /\ mappings \in Seq(Mapping)
      /\ mappings' = Append(mappings, m)
      /\ Len(mappings) < Len(Groups)
      /\ phase # "aborted"
      /\ phase' = "issued"
  BY DEF Issue, TypeOK, Searching, Tiers
<1>2. Outcome = "running"
  BY <1>1 DEF Outcome
<1>3. /\ SeenAll \in Seq({Seen(n) : n \in Mapping} \cup {Seen(m)})
      /\ Len(SeenAll) = Len(mappings)
  BY <1>1 DEF SeenAll
<1>4. SeenAll' = Append(SeenAll, Seen(m))
  <2>1. /\ DOMAIN mappings' = 1..(Len(mappings) + 1)
        /\ DOMAIN mappings = 1..Len(mappings)
        /\ \A i \in 1..Len(mappings) : mappings'[i] = mappings[i]
        /\ mappings'[Len(mappings) + 1] = m
    BY <1>1
  <2>2. SeenAll' = [i \in 1..(Len(mappings) + 1) |-> Seen(mappings'[i])]
    BY <2>1 DEF SeenAll, Seen
  <2>3. Append(SeenAll, Seen(m)) =
          [i \in 1..(Len(mappings) + 1) |->
             IF i = Len(mappings) + 1 THEN Seen(m) ELSE SeenAll[i]]
    BY <1>3, AppendFunction
  <2>4. \A i \in 1..(Len(mappings) + 1) :
          Seen(mappings'[i]) =
             IF i = Len(mappings) + 1 THEN Seen(m) ELSE SeenAll[i]
    BY <1>1, <2>1 DEF SeenAll
  <2>5. QED
    BY <2>2, <2>3, <2>4
<1>5. Outcome' = IF Len(mappings) + 1 = Len(Groups) THEN "returned" ELSE "running"
  BY <1>1 DEF Outcome
<1>6. Metric = Groups[Len(SeenAll) + 1]
  BY <1>3 DEF Metric
<1>7. QED
  BY <1>2, <1>3, <1>4, <1>5, <1>6 DEF Contract!Decide, SeenAll, Seen, Outcome

LEMMA RaisedRaises ==
    ASSUME TypeOK, Searching, Raised
    PROVE  Contract!Raise
<1>1. Outcome = "running"
  BY DEF Outcome, TypeOK, Searching, Tiers
<1>2. Outcome' = "raised"
  BY DEF Outcome, Raised
<1>3. SeenAll' = <<>>
  BY DEF SeenAll, Raised
<1>4. QED
  BY <1>1, <1>2, <1>3 DEF Contract!Raise, SeenAll, Seen, Outcome

LEMMA ContractStep ==
    TypeOK /\ [Next]_vars => [Contract!Next]_(Contract!vars)
<1> SUFFICES ASSUME TypeOK, [Next]_vars
             PROVE  [Contract!Next]_(Contract!vars)
  OBVIOUS
<1>1. ASSUME NEW best \in Candidates, Accept(best)
      PROVE  Contract!Next
  <2>1. PICK m : /\ Issue(m)
                 /\ m.metric = Metric
                 /\ m.best = best
                 /\ m.band = BandOf(Metric, truth[best])
    BY <1>1 DEF Accept
  <2>2. Accepting(m.band) /\ m.band \in ConfidenceBand \ {"UNMAPPABLE"}
    BY <1>1, <2>1, BandOfType DEF Accept, Heads, Accepted
  <2>3. m.band # "REJECTED"
    BY <2>2, Ranks DEF Accepting
  <2>4. Seen(m) \in Contract!VerdictsOn(Metric)
    BY <2>1, <2>2, <2>3 DEF Seen, Contract!VerdictsOn
  <2>5. Searching
    BY <1>1 DEF Accept, Searching
  <2>6. QED
    BY <2>1, <2>4, <2>5, IssueDecides DEF Contract!Next
<1>2. CASE DeclareUnmappable
  <2>1. PICK m : /\ Issue(m)
                 /\ m.metric = Metric
                 /\ m.best = NoCandidate
                 /\ m.band = "UNMAPPABLE"
    BY <1>2 DEF DeclareUnmappable
  <2>2. Seen(m) \in Contract!VerdictsOn(Metric)
    BY <2>1 DEF Seen, Contract!VerdictsOn
  <2>3. Searching
    BY <1>2 DEF DeclareUnmappable, Searching
  <2>4. QED
    BY <2>1, <2>2, <2>3, IssueDecides DEF Contract!Next
<1>3. ASSUME AbortScoring \/ \E tier \in Tiers : AbortScan(tier)
      PROVE  Contract!Next
  <2>1. Searching /\ Raised
    BY <1>3 DEF AbortScoring, AbortScan, Searching
  <2>2. QED
    BY <2>1, RaisedRaises DEF Contract!Next
<1>4. ASSUME UNCHANGED mappings, phase # "aborted", phase' # "aborted"
      PROVE  UNCHANGED Contract!vars
  BY <1>4 DEF Contract!vars
<1>5. ASSUME NEW tier \in Tiers, ScanTier(tier)
      PROVE  phase # "aborted" /\ phase' # "aborted"
  BY <1>5, NextPhaseType DEF ScanTier, Tiers
<1>6. CASE UNCHANGED vars
  BY <1>6 DEF vars, Contract!vars
<1>7. QED
  BY <1>1, <1>2, <1>3, <1>4, <1>5, <1>6
  DEF Next, OpenGroup, ScanTier, LeaveGroup, AfterVerdict, Finished

\* For every report, catalog and warehouse resolve_all implements its contract.
THEOREM SolverImplementsContract == Spec => ImplementsContract
<1>1. Init => Contract!Init
  BY SolverConstants DEF Init, Contract!Init
<1>2. QED
  BY <1>1, ContractStep, TypeCorrect, PTL
  DEF Spec, ImplementsContract, Contract!Spec
=============================================================================
