-------------------------- MODULE FingerprintSolver --------------------------
(***************************************************************************)
(* The constraint-satisfaction solver of the numeric fingerprinting engine *)
(* (canoniq/fingerprint/solver.py).  resolve_all takes the metric groups   *)
(* of one report in order; resolve_metric searches candidate formulas in   *)
(* three tiers, keeps as survivors those that reproduce the reported grand *)
(* total, scores the survivors on every constraint of the group, and       *)
(* accepts the best one or declares the metric UNMAPPABLE.                 *)
(*                                                                         *)
(* One step is one tier's scan, or one verdict.  The numbers are           *)
(* abstracted to what the solver tells apart: `truth' says, for the group  *)
(* being resolved, how each candidate would fare against the warehouse.    *)
(* It is drawn when the group is opened, so candidates no tier tries have  *)
(* an answer too.  The executor's cache makes the answers stable within a  *)
(* group.                                                                  *)
(***************************************************************************)
EXTENDS ConfidenceBands, Sequences, FiniteSets

CONSTANTS
    Groups,         \* metric names, in the order resolve_all takes them
    Candidates,     \* candidate formulas
    Tables,         \* warehouse tables
    LhsTable,       \* the table of a formula's left-hand term
    Joined,         \* the tables one foreign-key hop away from a table
    Shortlist,      \* metric -> what tier1_candidates returns
    ColumnScan,     \* what tier2_candidates returns
    Seeded,         \* metrics with a formula hypothesis or Tableau evidence
    Hypotheses,     \* metric -> prose- and Tableau-seeded compositions
    BlindSearch,    \* the compositions tier 3 can form by itself
    MaxHypotheses,  \* config.max_tier3_hypotheses
    NameRank,       \* metric -> position of a composition by name similarity
    SortRank,       \* metric -> position by complexity, name similarity, key
    Breakdowns,     \* metric -> number of breakdown constraints
    Priors,         \* metric -> number of prior-period constraints
    Sheets,         \* metric -> the answer sheets the warehouse may give
    Tolerance,      \* config.tolerance, on the scale of the relative errors
    NearMissWindow, \* config.near_miss_window, on the same scale
    NotEvaluable,   \* the executor returned None
    NoSnapshot,     \* the executor raised SnapshotNotFoundError
    NoCandidate

Metrics == {Groups[i] : i \in DOMAIN Groups}

\* How a candidate fares: its relative error on the grand total, the number of
\* further constraints it satisfies, the number of prior periods whose snapshot
\* is gone, and whether the tables its breakdowns join to have a snapshot.  A
\* sheet gives every candidate an answer that fits the shape of the group.
Answer == [grand : Nat \cup {NotEvaluable, NoSnapshot},
           hits : Nat, skips : Nat, joinable : BOOLEAN]

ASSUME SolverConstants ==
    /\ Groups \in Seq(STRING)
    /\ \A i, j \in DOMAIN Groups : Groups[i] = Groups[j] => i = j
    /\ LhsTable \in [Candidates -> Tables]
    /\ Joined \in [Tables -> SUBSET Tables]
    /\ Shortlist \in [Metrics -> SUBSET Candidates]
    /\ ColumnScan \in SUBSET Candidates
    /\ Hypotheses \in [Metrics -> SUBSET Candidates]
    /\ BlindSearch \in SUBSET Candidates
    /\ NameRank \in [Metrics -> [BlindSearch -> Nat]]
    /\ SortRank \in [Metrics -> [Candidates -> Nat]]
    /\ \A m \in Metrics :
          /\ \A c, d \in BlindSearch : NameRank[m][c] = NameRank[m][d] => c = d
          /\ \A c, d \in Candidates : SortRank[m][c] = SortRank[m][d] => c = d
    /\ Breakdowns \in [Metrics -> Nat]
    /\ Priors \in [Metrics -> Nat]
    /\ Sheets \in [Metrics -> SUBSET [Candidates -> Answer]]
    /\ \A m \in Metrics : \A t \in Sheets[m] : \A c \in Candidates :
          /\ t[c].skips <= Priors[m]
          /\ t[c].hits <= Breakdowns[m] + Priors[m] - t[c].skips
    /\ Tolerance \in Nat
    /\ NotEvaluable \notin Nat
    /\ NoSnapshot \notin Nat
    /\ NoCandidate \notin Candidates

VARIABLES
    phase,          \* where resolve_all stands
    truth,          \* how each candidate fares for the group being resolved
    survivors,      \* candidates that reproduced the grand total
    nearMiss,       \* best_near_miss
    nearTables,     \* near_miss_tables
    tiersRun,       \* tiers_run
    resolvedTables, \* ctx.resolved_tables
    mappings        \* the verdicts so far, in order

vars == <<phase, truth, survivors, nearMiss, nearTables, tiersRun,
          resolvedTables, mappings>>

Tiers == {"tier1", "tier2", "tier3"}

Mapping == [metric : Metrics, band : ConfidenceBand,
            best : Candidates \cup {NoCandidate},
            rejected : SUBSET Candidates,
            nearMiss : Candidates \cup {NoCandidate},
            tiersRun : SUBSET Tiers]

TypeOK ==
    /\ phase \in Tiers \cup {"open", "score", "issued", "done", "aborted"}
    /\ truth \in [Candidates -> Answer]
    /\ survivors \in SUBSET Candidates
    /\ nearMiss \in Candidates \cup {NoCandidate}
    /\ nearTables \in SUBSET Tables
    /\ tiersRun \in SUBSET Tiers
    /\ resolvedTables \in SUBSET Tables
    /\ mappings \in Seq(Mapping)
    /\ Len(mappings) <= Len(Groups)
    /\ phase \in Tiers \cup {"open", "score"} => Len(mappings) < Len(Groups)

\* The group being resolved.
Metric == Groups[Len(mappings) + 1]

-----------------------------------------------------------------------------
(* Constraints and bands *)

\* executor.matches on the grand total.
Reproduces(answer) == answer.grand \in Nat /\ answer.grand <= Tolerance

\* A near miss is a candidate that was evaluated and missed the total.
Misses(answer) == answer.grand \in Nat /\ answer.grand > Tolerance

\* score_candidate: the constraints counted, and those satisfied.
Total(metric, answer) ==
    1 + Breakdowns[metric] + Priors[metric] - answer.skips

Satisfied(answer) == IF Reproduces(answer) THEN 1 + answer.hits ELSE answer.hits

BandOf(metric, answer) ==
    Band(Satisfied(answer), Total(metric, answer), Reproduces(answer))

\* CandidateEvaluation.score, compared without division.
Outscores(metric, a, b) ==
    Satisfied(a) * Total(metric, b) > Satisfied(b) * Total(metric, a)

\* A faulty variant of Precedes: sorts by the score alone.
PrecedesByScore(c, d) ==
    \/ Outscores(Metric, truth[c], truth[d])
    \/ /\ ~Outscores(Metric, truth[d], truth[c])
       /\ SortRank[Metric][c] < SortRank[Metric][d]

\* resolve_metric.sort_key: the band first, then the score, then the tie-breaks.
Precedes(c, d) ==
    LET rank(x) == BandRank(BandOf(Metric, truth[x]))
    IN  \/ rank(c) > rank(d)
        \/ /\ rank(c) = rank(d)
           /\ \/ Outscores(Metric, truth[c], truth[d])
              \/ /\ ~Outscores(Metric, truth[d], truth[c])
                 /\ SortRank[Metric][c] < SortRank[Metric][d]

\* c heads the sorted list of the candidates in S.
Heads(c, S) == c \in S /\ \A d \in S \ {c} : Precedes(c, d)

Accepted == {c \in survivors : Accepting(BandOf(Metric, truth[c]))}
Rejected == survivors \ Accepted

-----------------------------------------------------------------------------
(* The three tiers *)

\* What the context and tier 2 teach a blind search: the tables of the resolved
\* metrics, and those of the near misses.
Held == resolvedTables \cup nearTables

\* The tables a blind search may look into: those held, and those one hop away.
Scope(held) == held \cup UNION {Joined[t] : t \in held}

\* The compositions over the scope, cut to the cap by name similarity.
LocalSearch(metric, held) ==
    LET local == {c \in BlindSearch : LhsTable[c] \in Scope(held)}
        ahead(c) == {d \in local : NameRank[metric][d] < NameRank[metric][c]}
    IN  {c \in local : Cardinality(ahead(c)) < MaxHypotheses}

TierCandidates(tier, metric, held) ==
    CASE tier = "tier1" -> Shortlist[metric]
      [] tier = "tier2" -> ColumnScan
      [] tier = "tier3" -> Hypotheses[metric] \cup LocalSearch(metric, held)

\* The candidates a tier has for the group being resolved.
Offered(tier) == TierCandidates(tier, Metric, Held)

\* A faulty variant of NextPhase: a tier that found survivors does not stop the
\* search.
NextPhaseAlwaysDeeper(tier, found, near) ==
    CASE tier = "tier1" -> "tier2"
      [] tier = "tier2" -> "tier3"
      [] tier = "tier3" -> "score"

\* A faulty variant of NextPhase: an empty scope sends tier 2 round again.
NextPhaseRescan(tier, found, near) ==
    IF found # {} THEN "score"
    ELSE CASE tier = "tier1" -> "tier2"
           [] tier = "tier2" -> IF \/ Metric \in Seeded
                                   \/ resolvedTables \cup near # {}
                                THEN "tier3"
                                ELSE "tier2"
           [] tier = "tier3" -> "score"

\* Where resolve_metric goes after a tier: a tier runs only when those before it
\* found nothing, and tier 3 only with structure hints or a locality.
NextPhase(tier, found, near) ==
    IF found # {} THEN "score"
    ELSE CASE tier = "tier1" -> "tier2"
           [] tier = "tier2" -> IF \/ Metric \in Seeded
                                   \/ resolvedTables \cup near # {}
                                THEN "tier3"
                                ELSE "score"
           [] tier = "tier3" -> "score"

\* A faulty variant of NearestAfter: each tier starts from its own candidates.
NearestAfterForgetful(tried) ==
    LET misses == {c \in tried : Misses(truth[c])}
    IN  IF misses = {} THEN {NoCandidate}
        ELSE {c \in misses :
                \A d \in misses : truth[c].grand <= truth[d].grand}

\* keep_near over a tier's candidates: the miss kept so far gives way only to a
\* strictly smaller error.  Which of two equally near candidates of one tier is
\* kept depends on their order in the list, left open here.
NearestAfter(tried) ==
    LET closer == {c \in tried :
                     /\ Misses(truth[c])
                     /\ \/ nearMiss = NoCandidate
                        \/ truth[c].grand < truth[nearMiss].grand}
    IN  IF closer = {} THEN {nearMiss}
        ELSE {c \in closer :
                \A d \in closer : truth[c].grand <= truth[d].grand}

\* Tier 2 notes the tables of the misses within the window.
NearTablesAfter(tier, tried) ==
    IF tier # "tier2" THEN nearTables
    ELSE nearTables \cup
           {LhsTable[c] : c \in {d \in tried :
              Misses(truth[d]) /\ truth[d].grand <= NearMissWindow}}

-----------------------------------------------------------------------------
(* Behaviour *)

Unanswered == [grand |-> NotEvaluable, hits |-> 0, skips |-> 0,
               joinable |-> TRUE]

Init ==
    /\ phase = IF Groups = <<>> THEN "done" ELSE "open"
    /\ truth = [c \in Candidates |-> Unanswered]
    /\ survivors = {}
    /\ nearMiss = NoCandidate
    /\ nearTables = {}
    /\ tiersRun = {}
    /\ resolvedTables = {}
    /\ mappings = <<>>

\* resolve_metric begins on the next group.
OpenGroup ==
    /\ phase = "open"
    /\ truth' \in Sheets[Metric]
    /\ phase' = "tier1"
    /\ UNCHANGED <<survivors, nearMiss, nearTables, tiersRun, resolvedTables,
                   mappings>>

\* A tier tries each of its candidates on the grand total.
ScanTier(tier) ==
    /\ phase = tier
    /\ \A c \in Offered(tier) : truth[c].grand # NoSnapshot
    /\ survivors' = survivors \cup {c \in Offered(tier) : Reproduces(truth[c])}
    /\ nearMiss' \in NearestAfter(Offered(tier))
    /\ nearTables' = NearTablesAfter(tier, Offered(tier))
    /\ tiersRun' = tiersRun \cup {tier}
    /\ phase' = NextPhase(tier, survivors', nearTables')
    /\ UNCHANGED <<truth, resolvedTables, mappings>>

\* A faulty variant of Raised: the verdicts issued so far are returned.
RaisedPartial == phase' = "aborted" /\ UNCHANGED mappings

\* An exception leaves resolve_all: the list under construction is lost, the
\* shared context keeps what it learnt.
Raised == phase' = "aborted" /\ mappings' = <<>>

\* SnapshotNotFoundError from _passes_grand_total, in any tier.
AbortScan(tier) ==
    /\ phase = tier
    /\ \E c \in Offered(tier) : truth[c].grand = NoSnapshot
    /\ Raised
    /\ UNCHANGED <<truth, survivors, nearMiss, nearTables, tiersRun,
                   resolvedTables>>

\* A survivor whose breakdowns cannot be looked up: resolve_dimension raises.
Unscorable(c) == Breakdowns[Metric] > 0 /\ ~truth[c].joinable

AbortScoring ==
    /\ phase = "score"
    /\ \E c \in survivors : Unscorable(c)
    /\ Raised
    /\ UNCHANGED <<truth, survivors, nearMiss, nearTables, tiersRun,
                   resolvedTables>>

\* A verdict ends the search for the group.
Issue(mapping) ==
    /\ mappings' = Append(mappings, mapping)
    /\ phase' = "issued"
    /\ UNCHANGED <<truth, survivors, nearMiss, nearTables, tiersRun>>

\* The head of the rejected evaluations, if there is one.
BestRejected ==
    {c \in Candidates : Heads(c, Rejected)} \cup
    {c \in {NoCandidate} : Rejected = {}}

\* A faulty variant of TablesAfter: the tables of near misses are learnt too.
TablesAfterWithNear(best) == resolvedTables \cup nearTables \cup {LhsTable[best]}

\* Later metrics may search around the table of an accepted formula.
TablesAfter(best) == resolvedTables \cup {LhsTable[best]}

\* The sorted list's first accepted evaluation becomes the metric's mapping.
Accept(best) ==
    /\ phase = "score"
    /\ \A c \in survivors : ~Unscorable(c)
    /\ Heads(best, Accepted)
    /\ \E miss \in BestRejected :
          Issue([metric |-> Metric, band |-> BandOf(Metric, truth[best]),
                 best |-> best, rejected |-> Rejected, nearMiss |-> miss,
                 tiersRun |-> tiersRun])
    /\ resolvedTables' = TablesAfter(best)

\* No survivor earned a band: the near miss is the nearest failure on the grand
\* total, or else the best of the rejected survivors.
DeclareUnmappable ==
    /\ phase = "score"
    /\ \A c \in survivors : ~Unscorable(c)
    /\ Accepted = {}
    /\ \E miss \in IF nearMiss # NoCandidate THEN {nearMiss} ELSE BestRejected :
          Issue([metric |-> Metric, band |-> "UNMAPPABLE",
                 best |-> NoCandidate, rejected |-> Rejected,
                 nearMiss |-> miss, tiersRun |-> tiersRun])
    /\ UNCHANGED resolvedTables

\* A faulty variant of AfterVerdict: resolve_all does not notice the last group.
AfterVerdictEndless == "open"

AfterVerdict == IF Len(mappings) = Len(Groups) THEN "done" ELSE "open"

\* resolve_metric returns: its local state is gone, the context's stays, and
\* resolve_all goes on with the next group.
LeaveGroup ==
    /\ phase = "issued"
    /\ phase' = AfterVerdict
    /\ truth' = [c \in Candidates |-> Unanswered]
    /\ survivors' = {}
    /\ nearMiss' = NoCandidate
    /\ nearTables' = {}
    /\ tiersRun' = {}
    /\ UNCHANGED <<resolvedTables, mappings>>

\* resolve_all has returned, or raised.
Finished == phase \in {"done", "aborted"} /\ UNCHANGED vars

Next ==
    \/ OpenGroup
    \/ \E tier \in Tiers : ScanTier(tier)
    \/ \E tier \in Tiers : AbortScan(tier)
    \/ AbortScoring
    \/ \E best \in Candidates : Accept(best)
    \/ DeclareUnmappable
    \/ LeaveGroup
    \/ Finished

\* resolve_all is a loop in one thread: it goes on until it returns or raises.
Spec == Init /\ [][Next]_vars /\ WF_vars(Next)
-----------------------------------------------------------------------------
(* Correctness *)

\* A verdict has just been issued, and the answers it rests on are still there.
Issued == phase = "issued"
Verdict == mappings[Len(mappings)]
Mapped == Issued /\ Verdict.band # "UNMAPPABLE"

\* The candidates a tier had for the metric of the last verdict.  The search ran
\* around the tables of the formulas accepted for the metrics before it, and of
\* its own near misses, which stay until the group is left.
EarnedBefore ==
    {LhsTable[mappings[i].best] :
        i \in {j \in 1..(Len(mappings) - 1) : mappings[j].band # "UNMAPPABLE"}}
Tried(tier) ==
    TierCandidates(tier, Verdict.metric, EarnedBefore \cup nearTables)

\* A metric's formula leaves the engine only with the band the documentation
\* promises: it reproduces the grand total within the tolerance, it is CONFIRMED
\* only on four constraints or more of which nine in ten hold, PROBABLE only on
\* two or more of which three in four hold, and WEAK only when the grand total is
\* the one constraint left.
EarnedBand ==
    Mapped =>
        LET answer == truth[Verdict.best]
            total  == Total(Verdict.metric, answer)
        IN  /\ answer.grand \in Nat
            /\ answer.grand <= Tolerance
            /\ Verdict.band \in {"CONFIRMED", "PROBABLE", "WEAK"}
            /\ Verdict.band = "CONFIRMED" =>
                  total >= 4 /\ 10 * (1 + answer.hits) >= 9 * total
            /\ Verdict.band = "PROBABLE" =>
                  total >= 2 /\ 4 * (1 + answer.hits) >= 3 * total
            /\ Verdict.band = "WEAK" => total = 1

\* The tiers run in strict order: a formula from a later tier is offered only
\* when no formula of an earlier tier reproduces the total ("each tier only runs
\* if the previous one produced zero survivors").
TiersInOrder ==
    Issued =>
        /\ "tier2" \in Verdict.tiersRun =>
              \A c \in Tried("tier1") : ~Reproduces(truth[c])
        /\ "tier3" \in Verdict.tiersRun =>
              \A c \in Tried("tier2") : ~Reproduces(truth[c])

\* No candidate of a tier that ran, the compositions of tier 3 among them, would
\* have carried a higher band than the formula accepted, nor the same band with a
\* better score.
BestIsBest ==
    Mapped =>
        \A tier \in Verdict.tiersRun : \A c \in Tried(tier) :
            LET own == BandOf(Verdict.metric, truth[c])
            IN  /\ BandRank(own) <= BandRank(Verdict.band)
                /\ own = Verdict.band =>
                      ~Outscores(Verdict.metric, truth[c], truth[Verdict.best])

\* The near miss reported for an unmappable metric is the nearest failure of all
\* the tiers that ran, whichever of the three met it.
NearMissIsNearest ==
    (Issued /\ Verdict.band = "UNMAPPABLE") =>
        \A tier \in Verdict.tiersRun : \A c \in Tried(tier) :
            Misses(truth[c]) =>
                /\ Verdict.nearMiss # NoCandidate
                /\ Misses(truth[Verdict.nearMiss])
                /\ truth[Verdict.nearMiss].grand <= truth[c].grand

\* The tables that widen later searches are exactly those of the formulas
\* accepted so far: no rejected or unmappable metric lends its tables.
LocalityIsEarned ==
    phase # "aborted" =>
        resolvedTables =
            {LhsTable[mappings[i].best] :
                i \in {j \in DOMAIN mappings : mappings[j].band # "UNMAPPABLE"}}

\* UNMAPPABLE means that no column the scan would have tried earns a band (the
\* reading of docs/architecture/numeric-fingerprinting.md).
UnmappableTriedEverything ==
    (Issued /\ Verdict.band = "UNMAPPABLE") =>
        \A c \in ColumnScan : ~Accepting(BandOf(Verdict.metric, truth[c]))

-----------------------------------------------------------------------------
(* What resolve_all owes its caller *)

Contract == INSTANCE MappingContract WITH
    Bands <- ConfidenceBand,
    outcome <- IF phase = "aborted" THEN "raised"
               ELSE IF Len(mappings) = Len(Groups) THEN "returned"
               ELSE "running",
    verdicts <- [i \in DOMAIN mappings |->
                    [metric |-> mappings[i].metric, band |-> mappings[i].band,
                     best |-> mappings[i].best]]

\* resolve_all implements the contract: one verdict per group in order, none
\* revised, all or nothing.
ImplementsContract == Contract!Spec

\* The search for a report always ends, with its verdicts or with an exception.
Terminates == <>(phase \in {"done", "aborted"})
=============================================================================
