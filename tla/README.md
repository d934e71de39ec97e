# Canoniq: a formal model

TLA+ modules that model Canoniq (`canoniq/`), TLC configurations that check them
on small instances, and proofs for TLAPS. Canoniq recovers the definitions of
business metrics from evidence: it reads published reports, searches a warehouse
for formulas that reproduce the printed figures, compares report editions, and
emits semantic models that it validates and repairs with an LLM.

The sections: the inventory of the system, what each module models, the runs, the
proofs, where code and documentation disagree, what is left out, and the plan.

## 1. Inventory

Two pipelines share the emitters and the validation loop.

*Report-first* (`pipeline.py`): ingest → fingerprint → drift → emit → report, a
LangGraph of five nodes run once per `canoniq bootstrap`.
*Log-first* (`cli.py`): mine → rank → propose (LLM) → validate → emit, once per
`canoniq run` or again on each signal under `--watch`.

| Component | State | Operations | Interacts with | Hard behaviour | What makes it correct |
|---|---|---|---|---|---|
| Solver, `fingerprint/solver.py` | survivors, best near miss, tables met, per metric; `ctx.resolved_tables` across metrics | `resolve_all`, `resolve_metric`, `score_candidate`, `_band` | calls tiers, executor, adapter | three searches that depend on each other's results, verdicts that influence later metrics, exceptions that lose the list | earned bands, strict tier order, best formula, nearest miss, all or nothing |
| Tiers, `fingerprint/tiers.py`, `naming.py` | none | three candidate generators | adapter | locality scope, cap on the blind search | candidates only from the scope; the cap by name rank |
| Catalog adapter, `fingerprint/catalog.py` | loaded tables, scans, distinct values | `load`, `resolve_snapshot`, `schema_renames`, `arrow_for` | Iceberg catalog written by others | a warehouse that changes while it is read | latest snapshot of the window, today's names |
| Executor, `fingerprint/executor.py` | registered views, results | `evaluate`, `matches` | adapter, DuckDB | cached results next to results that raise | a query's answer never changes |
| Validation loop, `validation/loop.py` | `ValidationState`, the output directory | emit, validate, repair, accept | LLM, `mf` subprocess, LangGraph | retries, time-outs with a fallback, step limit, exceptions | the artifact is the one that was judged, the budget is exact, the loop ends |
| Bootstrap pipeline, `pipeline.py` | `BootstrapResult` | five nodes | everything above | one table's failure among many, files written by several loops, three readers of one verdict table in two orders of the editions | every table has a verdict, a pass is on disk, the products agree with each other, no metric is lost |
| Report extraction, `extract/report.py` | none | `extract_report`, `_validate_consistency`, `group_instances` | PDF text | illegible and reprinted figures, totals linked by a hash | a table is called inconsistent exactly when it does not add up |
| Drift diff, `drift/report_diff.py` | none | `diff_reports` | executor | rename pairing, re-evaluation at a later date | every name in one finding, every redefinition real |
| OpenMetadata emitter, `emit/openmetadata.py` | none | `build_payloads`, `emit_openmetadata` | verdicts, drift | picks its own edition per metric | agrees with the semantic models |
| Watcher, `ingest/watcher.py`, `cli._run_watch_loop` | hashes seen | `run_once` | query log, dbt manifest, the log-first pipeline | marks set before the work is done, files written by others | what is marked was mined, no run for nothing |
| Evidence bundle, OntoRank, `mining/`, `ranking/` | none | `build_evidence_bundle`, `score` | all miners, config | three spellings of one name, counts merged from several places | executions add up, more evidence never ranks lower |
| Contradictions, `report/conflict.py`, `fingerprint/naming.py` | groups while it runs | `detect_contradictions` | mappings | greedy grouping against a name that changes | each contradiction surfaces, in every order |
| Proposer, `proposer/llm.py` | none | `propose`, `validate_proposal`, `repair_proposal` | LLM | hallucinated columns | no invented column downstream |
| MetricFlow and OSI emitters | none | text generation | | | |
| Ingest parsers (SQL, DDL, PDF, prose, Tableau, Excel) | none | text to records | LLM for documents | | |
| Config, CLI, evaluation | files | commands | | files passed from command to command | |

Nothing in Canoniq runs threads of its own: the concurrency is with the outside,
that is the warehouse's writers, the LLM, the `mf` subprocess, and the files
other runs left behind. The hazards in `PROJECT.json` follow this inventory, line
by line.

## 2. Modules

| Module | Models | Extends |
|---|---|---|
| `ConfidenceBands` | `_band`, `_BAND_RANK` (pure) | |
| `MappingContract` | what `resolve_all` owes its caller (abstract) | |
| `FingerprintSolver` | `solver.py`, and `tiers.py` as sets of candidates | `ConfidenceBands`; refines `MappingContract` |
| `SnapshotReads` | `catalog.py`, `executor.py`, an external warehouse | |
| `ValidationLoop` | `validation/loop.py`, with LangGraph's step limit, the LLM, `mf` | |
| `ArtifactEmission` | `emit_node` of `pipeline.py`, table by table | `ValidationLoop` |
| `Subsequences` | `[x for x in xs if …]`: what a filter leaves of a list, in its order (pure) | |
| `ReportExtraction` | `extract/report.py` from recognised tables on, `group_instances` (pure) | `Subsequences` |
| `DriftDiff` | `drift/report_diff.py` (pure) | |
| `BootstrapPipeline` | the five nodes of `pipeline.py`, `emit/openmetadata.py`, the verdict sections of `report/conflict.py` | `ReportExtraction`, `DriftDiff`; verdicts by `MappingContract` |
| `NameMatching` | `similarity` of `naming.py`, `same_metric` of `conflict.py` (pure) | |
| `Contradictions` | `detect_contradictions` of `report/conflict.py` | its instance uses `NameMatching` |
| `EvidenceBundle` | the query log's grouping, the SQL miner, the merge, OntoRank (pure) | `Subsequences` |
| `WatchLoop` | `cli.py` (`run --watch`), `ingest/watcher.py`, `validate_proposal` | `EvidenceBundle` |
| `DataLemmas` | no code: lemmas about folds, sums, filtered and flattened sequences | `Subsequences` |
| `FingerprintSolverProofs`, `ValidationLoopProofs`, `ArtifactEmissionProofs`, `SnapshotReadsProofs`, `BootstrapPipelineProofs`, `ContradictionsProofs`, `WatchLoopProofs` | theorems | the module they are about, `DataLemmas` where it folds |
| `MC…` | instances for TLC | the module they instantiate |

A definition whose comment begins "A faulty variant of" is a mutation of the one
it names; no specification uses it. Replacing the original by it makes the run
fail, which shows that the property can see a mistake of that kind.

### FingerprintSolver

`resolve_all` is one thread. A step is one tier's scan, one verdict, or the step
from one metric to the next.

| Code | Model |
|---|---|
| local variables of `resolve_metric` (`survivors`, `best_near_miss`, `near_miss_tables`, `tiers_run`) | variables, cleared by `LeaveGroup` when the function returns |
| `ctx.resolved_tables` | `resolvedTables`, kept across metrics |
| the list `resolve_all` builds | `mappings` |
| the tiers, lines 310-347 | `ScanTier(tier)`, with `NextPhase` for the conditions at 321 and 338 |
| `SnapshotNotFoundError` in a scan / from `resolve_dimension` | `AbortScan`, `AbortScoring` |
| scoring, sorting, accepting | `BandOf`, `Precedes`, `Accept`, `DeclareUnmappable` |

What the warehouse would answer is drawn when a metric is opened (`truth`): for
each candidate the relative error on the grand total (or not evaluable, or no
snapshot), how many further constraints it satisfies, how many prior periods are
skipped, and whether the tables its breakdowns join to can be read. `Offered(tier)` is what a tier has for the metric in hand: the shortlist, the column
scan, and in tier 3 the hypotheses with the local search of the scope `Held` so far.
Candidates no tier tries have an answer as well; otherwise "UNMAPPABLE means nothing would
have fitted" could not even be stated. That an answer stays the same while a
metric is resolved is not assumed lightly: it is `AnswersAreStable` of
`SnapshotReads`.

Name similarity enters as `Shortlist` (the result of tier 1), `NameRank` (the
order the cap of tier 3 cuts by) and `SortRank` (the last three components of the
sort key). `Precedes` compares fractions by cross-multiplication, as `Band` does
with 0.90 and 0.75: for small integers the code's floating-point comparisons
agree with the exact ones. A table with no snapshot at all needs no case of its own in tier 3:
tier 2, which ran before, counts the rows of every table and raises there.

### SnapshotReads

A value is the cell it was read from: which snapshot, which field id. The
warehouse (external: Iceberg and the jobs that write to it, which number fields in the order
they are added and never move a column) commits snapshots for
business dates, renames, adds and drops columns and expires snapshots between any
two steps of the reader. The reader's caches are `loaded` (`_tables`), `arrow`
(`_arrow_cache` and the executor's `_views`, which change together) and `memo`
(`_cache`). `answers` is a history variable: all that a query was answered at a
date, exceptions included. `Run` and `Raise` are `evaluate` without a cached
result, one answer for each state of the caches. Where a snapshot under today's
names has two columns of one name, the query reads the first, as DuckDB does, and so
the lesser field id (`Cell`); where it has none, the query evaluates to nothing.
Terms are taken in order, each loading and scanning its table; a term that raises
leaves the earlier terms' scans cached and no result. `distinct_values` is `Scan`.

### ValidationLoop and ArtifactEmission

One action per graph node, `AfterValidate` and `AfterRepair` for the edges,
`NodeFails` for an exception out of `repair` (the LLM client) or `accept` (the
file system, which is taken to leave the file as it was), and `OutOfSteps` for
LangGraph's `GraphRecursionError`. A proposal is the dataset it names and a set
of faults: one the schema sees, one only `mf` sees, and a column that does not
exist. `mf` may report what is there, may complain of a missing project, may exit
non-zero without a word (which the code takes for a pass), or fail to run.

`ArtifactEmission` runs one loop per table. `Invoke` is `graph.invoke` with a
fresh state, `CloseTable` what follows it, with or without an exception. `written`
is a history variable: what each loop left on disk as it ended.

### BootstrapPipeline, ReportExtraction, DriftDiff

One run over the editions of a directory. A step is one report extracted
(`Ingest`), one edition fingerprinted (`Fingerprint`), the drift node, the
proposals, one table emitted, the OpenMetadata files, the report; `…Fails` is an
exception in that node, and there is no catching it: LangGraph lets it out and
the run ends. Reports, metrics and tables are numbers in alphabetical order,
because the code sorts report ids (`pipeline.py:125, 206`) and tables as strings,
while `ByDate` is the drift node's stable sort by as-of date.

| Code | Model |
|---|---|
| `extract_report` without an LLM client | `Figures`, `Inconsistencies`, `Raises`: rows, totals and footnotes; a value not in the page text is dropped; the first figure of each identity stays |
| `resolve_all` per edition | any sheet of `MappingContract!VerdictsOn`, which `FingerprintSolver` is shown to implement |
| `diff_reports` | `Renames` (greedy, each name once), `Redefined`, `Findings`; `recheck` is what the old formula gives at the new date |
| the bands that each reader of the verdicts accepts | `Trusted` (semantic models, conflict report), `Published` (glossary) |
| the loop of one table | its outcome only; `ArtifactEmission` has the rest |

`Rechecks` does not leave the old formula's answer quite open. If both editions
accepted the same formula, the newer one reproduced the figure printed now with
it, in the same executor, so it cannot fail and can diverge only if the engine's
configurable tolerance is wider than drift's 0.005 (`loose`).

### Contradictions, NameMatching

`Join` and `Found` are one round of the loop at `conflict.py:117-127`; `Report`
builds the list of contradictions at its end. `Same` and `Alike`, the relations
between names, are constants, so the proofs hold for any notion of similarity;
the instance takes them from `NameMatching`, which computes the token overlap of
`naming.py`. Neither relation need be symmetric or transitive, and that
of the instance is not: "wholesale credit exposure" and "retail credit exposure"
both pass for "credit exposure" and not for each other.

### WatchLoop, EvidenceBundle

`PollQueryLog`, `PollManifest`, `Quiet` and `Mine` are one `run_once` of the
watcher over both connectors, with the writes of other programs (`Others`) between
any two of them. `Mine` reads the log once (`cli.py:375`) and computes the list
of tables; for each of them follow `Propose` with its pruning, `EmitMetricFlow`
and `EmitOsi`. An item of an answer is a metric, a dimension, an entity, the primary
key or a join with the columns it names; `Pruned` drops what `validate_proposal`
drops, so it keeps keys, joins and a metric whose expression does not parse
(`Referenced` finds no column in it). `EmitMetricFlow(accepted)` is the outcome of the validation
loop: the proposal or an unpruned answer to a repair, filed under the name which that
answer gives its dataset, so that a later table may write over the file of an earlier
one and older files may stay beside it. `filed` is a history variable: the name each
table of the run was filed under. The OSI file is filed under the table and holds the
proposal. `Fail` is whatever ends the process and its memory, `Restart` another start of
the command. `mined`, `missed` and `runs` are history variables.
`EvidenceBundle` gives what is computed from the reading: one query per shape
with its executions, candidates resolved against the schema in its spelling, DDL
columns, grounded definitions, spreadsheet cells (which have no table and go to
every one), their merge by name, and the trust score with the weights and caps of
`config.py`. `log(1 + n)` is a table of scaled values, `Logarithms`, and grows beyond it:
only its zero and that it never falls matter (`WeightsAssumption`).

## 3. Runs

| Run | Asks | Instance | Size |
|---|---|---|---|
| `fingerprint_solver` | the eight properties below | two metrics, five candidates (twins in tier 1, a column only tier 2 finds, two compositions for one place in tier 3, hypotheses that compete with it), two tables | 59,063 states |
| `validation_loop` | six properties | two dataset names, retry limits 0 to 3, eight node runs granted, any answer of LLM and `mf` | 10,832 states |
| `artifact_emission` | four properties | three tables of which two share a file name, retry limit 3 (the pipeline's default) | 95,526 states |
| `snapshot_reads` | four properties | two tables, two fields, two commits, two evolutions of one schema, three queries of which two share a key, dates at both ends of the window and a day beyond | 396,628 states, 95 s |
| `contradictions` | three properties | every sequence of up to four statements under four names, with two structures or none, with and without verdicts to explain a conflict | 267,340 states |
| `bootstrap_pipeline` | seven properties | up to three editions of four metrics, two formulas on two tables; editions that rename in both orders of dates, breakdowns that add up or not, reprinted, illegible, of total zero | 1,100,828 states, 2 min |
| `watch_loop` | seven invariants, one liveness property | two tables, a log of at most two of four statements, two writes by others, a log that is away or torn at the start, two LLM answers with two dataset names and invented columns in every part | 133,578 states, 2 min |
| `fingerprint_unmappable`, `validation_guardrail`, `emitted_paths`, `renamed_columns`, `latest_edition` | one statement of the documentation each; TLC finds the counterexample (section 5) | as above | |

**Solver.** `EarnedBand`: a formula leaves the engine only within tolerance and
with its band's share of the constraints. `TiersInOrder`: a later tier ran only if
no earlier candidate fits. `BestIsBest`: nothing that a tier which ran offered, the hypotheses and the local
search of tier 3 included, is better. `NearMissIsNearest`: over the misses of all three
tiers, not of the last. `LocalityIsEarned`: later
searches widen around accepted formulas only. `ImplementsContract`: refinement of
`MappingContract`; `Terminates`.
*Why the bounds are enough:* the metrics interact only through `resolvedTables`,
so two of them show every interaction; the answer sheets hold for each candidate
each outcome the code distinguishes (fits, near, far, not evaluable, no snapshot,
unjoinable) combined with scores that reach every band; the second metric has no
hypothesis, so its tier 3 depends on what the first one taught. In tier 3 of the first
one confirmed, probable and rejected compositions compete and miss by different errors.
The second one has nine prior periods, so that nine constraints out of ten, a share of
exactly 0.90, occur.

**Snapshot reads.** `AnswersAreStable`; `ReadsLatestInWindow` (with a snapshot in
the window of one date only, and re-statements of a date); `TodaysNamesUnlessReused`.
*Bounds:* `MaxCommits`, `MaxSchemas`; snapshots as of day 3 and day 4, asked for on days 0
and 7 with a window of 3 days: each is at one end of the window of the one date and a day
outside the other's. Two commits are one before and one after a
table is loaded, or a date and its re-statement; two schema changes are a rename
and the re-use of the old name. Symmetry is over the two queries that differ in
case only; no liveness is checked in that run. `CHECK_DEADLOCK FALSE`: reader and
warehouse may stop, and at the bounds they do.

**Validation.** `ArtifactIsJudged`: no repair slips in after the verdict.
`HeaderIsTruthful`, `BudgetIsExact`, `LimitSuffices`, `EndsWithArtifact`.
*Bounds:* `StepLimit` 8 is enough for two attempts and too small for a third, so
both sides of `LimitSuffices` occur. LangGraph's default is 25, enough for a retry
limit of 8.

**Emission.** `PassedIsOnDisk`: a table reported valid has its unmarked artifact
on disk unless a later loop wrote over it. `BudgetIsExact` again, now over
successive invocations. `EveryTableJudged`. *Bounds:* three tables: one before,
one after, one in conflict; the step limit of 9 is what three attempts need.

**Contradictions.** `TypeOK` includes that each statement is in one group;
`GroupsAreMetrics` and `ConflictsSurface` say that, where the names in use fall
into metrics, the greedy grouping finds those metrics and reports exactly the
disagreements, in every order. *Bounds:* with four names and four statements a
group changes its name with members already in it, a third name bridges two
others, and a contradiction has an unreadable statement beside its two sides;
instances with unclear names are in the run too and only fall outside the premise.

**Bootstrap pipeline.** `InconsistenciesAreExact`: linking by hash, dropping and
de-duplication neither invent nor hide a table that does not add up.
`DriftPartitions`, `RedefinedIsReal`: the register. `GlossaryAgreesUnlessWeak`,
`EmissionFollowsDrift`, `EveryMetricReported`: drift, semantic models, glossary and
conflict report, which read one table of verdicts by different rules, agree.
*Bounds:* two editions of up to two metrics out of four are every combination of
stay, vanish and appear, also twice with one formula; three editions of one metric
show a verdict that is neither the first nor the last; the broken reports have one
and two breakdowns, a total printed before and after its reprint, and each value
illegible in turn.

**Watch loop.** `SeenSignalsAreMined`: what is marked as seen is mined, or was
taken away in the moment between. `RunsAreEarned`: no spinning.
`FilesShareOneReading`: a run's files are from one reading of a log that others
write, and a MetricFlow file that was written over holds another table of the same run.
`CheckedItemsExist`: the dimensions, entities and readable metrics of an OSI file name
columns of its table, whatever a repair brought into the MetricFlow file beside it.
`EvidenceAddsUp`; `MoreEvidenceRanksHigher`; and `NewStatementsAreMined` under
fairness. *Bounds:* two writes reach every two-step
interference with one poll and one run (rotate and append, complete and rotate, the
log away and back, manifest and log at once); two entries are a shape once,
twice or two shapes. Of the two answers of the LLM, one is all items that are kept,
unchecked ones with an unknown column among them, and the other has items to drop as well;
a repair may exchange one for the other, and with it the dataset name. `MaxWrites` bounds the others, not the loop.

**Fairness.** `WatchLoop` has `WF(Loop)`: one thread that polls, runs and sleeps
for a fixed time; nothing is assumed of the programs that write the files, nor that
anyone restarts a process that has stopped, and so `NewStatementsAreMined` grants
that it may stop. `WF(Next)` for the solver, the loop and the emission: each is one
thread that calls functions in sequence and has no step at which it may idle; the
LLM client and `mf` (with a time-out of 120 s) are taken to return or raise.
`FingerprintSolver`, `ValidationLoop`, `ArtifactEmission`, `BootstrapPipeline` and
`Contradictions` stutter explicitly when finished and `WatchLoop` can always be
started again, so TLC's deadlock check stays on: it would find a state in which
the code has no next step. `SnapshotReads` assumes no fairness and promises no
progress: callers may never ask again.

## 4. Proofs

`tlapm` checks the seven `…Proofs` modules and `DataLemmas`; the theorems hold for every value of
the constants that satisfies the named `ASSUME`s, which TLC evaluates on the
instances.

*FingerprintSolverProofs.* First the bands: for every tally that scoring can produce
the order of tests in `_band` agrees with the documented table (`DocumentedBands`);
`BandMonotone`, `ExtraEvidenceHelps` and `SkippedMissNeverLowers` say how a band
moves with the evidence, and the last one is why skipping a prior period is
lenient and never harsh. Then `TypeCorrect`; `SheetInv`, which says that the
answers in use belong to the metric in hand (`truth` is one of its sheets, or a
search is not under way), gives `BandsAreEarned`. `TierInv` is the strengthening
for the rest: while a metric is resolved, each candidate that a tier which ran
offered, of tier 3 as of the others, is a survivor if it fits, no tier that was left behind had a fitting candidate, and
the near miss is no farther than any miss so far. `TiersInOrder`, `NearMissIsNearest`
and `BestIsBest` speak only of the state in which a verdict has been issued and
say nothing of the scans before it, so they are not inductive; `TierInv` carries
what the scans established to that state. What tier 3 has on offer depends on the scope,
which grows while tier 2 runs and when a verdict is issued: the properties therefore name
the scope before the verdict, and `ScanKeepsOffered` and `TriedStays` say that no scan
changes what an earlier tier offered. `LocalityEarned` follows from the two
actions that issue a verdict. `SolverImplementsContract` maps initial states to
initial states and each action to `Decide`, `Raise` or a stutter.

*ValidationLoopProofs.* `LoopInv` ties the node to the counters (3·attempt,
3·attempt+1 or 3·attempt−1 node runs, one LLM call per completed round) and says
to which proposal the YAML and the verdict belong at each node; `ArtifactJudged`,
`HeaderTruthful`, `BudgetExact` and `LimitEnough` are its consequences.

*ArtifactEmissionProofs* builds on `LoopInv`: every table starts the loop anew, so
it holds across tables. `DoneInv` (a finished loop's YAML is its file), `RoundInv`
(tables not yet taken have no verdict) and `DiskInv` (a passed table's artifact is
on disk, or a later loop wrote over it, or the running one just did) give
`EmissionTypeCorrect`, `PassedOnDisk` and `EmissionBudgetExact` (no loop inherits
another's attempts) for any number of tables.

*SnapshotReadsProofs.* `ReaderInv` is what the caches owe each other. `MetaInv`:
snapshots are numbered in the order of their commits, in the live metadata and in
the loaded; no step of the warehouse brings a number back. `ArrowInv`: a cached scan
is the view of the loaded metadata. `MemoInv`: a cached result was read from
scans that are cached. `AnswersInv`: each answer is the cached result, or, without
one, the query is stuck: its terms before some term are read and that term cannot
be, for the very reason it was told. `AnswersAreStable` alone is not inductive: it does
not know why a query that raised must raise again. `ReadsAreLatest` and
`TodaysNamesRead` follow from `ReaderInv` and an analysis of `Resolve` and
`Normalised`; the latter needs that no name was re-used, which is the line between
it and finding 4, and then only one column has a name, so that it does not matter which
one DuckDB takes. All four properties of the run are proved.

*DataLemmas.* Half of what the pipeline and the watch loop owe is said of data: a
sum over figures, a greedy pairing, a list without its duplicates. Induction over
data is not available as such, so the module derives it from what is: every set of
naturals has a least element (`LeastNumber`), hence induction stated of a set of
numbers or of finite subsets instead of a predicate (`NatInductionOnSet`,
`FiniteInductionOnSet`), hence the existence of functions given by an equation
(`RecursionOnNumbers`, `RecursionOnSubsets`), hence what the community modules'
folds compute (`FoldsAgree`, `FoldsPreserve`). On these rest the lemmas the proofs
cite: a filtered list is read off at increasing positions (`KeptPositions`), a
flattened one has the elements of its parts (`FlattenElements`), a sum may be
taken in any order and along any bijection (`SumAnyOrder`, `SumBijection`), and
what is counted class by class is counted once (`ClassesAddUp`). `SelectSeq` and
`SortSeq` are recursive inside the libraries and out of reach; therefore filters
are `Kept` and the stable sort is `ByDate`, by rank.

*BootstrapPipelineProofs.* `RunInv` says what each stage has completed for the ones
after it and that verdicts no longer change. `DriftInv`, `ProposalsInv` and
`ReportedInv` carry what was computed at one stage to the states in which the
properties speak of it; from them follow `TypeCorrect`, `RedefinedIsRealHolds`,
`GlossaryAgreesHolds` and `EveryMetricReportedHolds`. The other three need what the pure
modules compute, for any number of metrics, tables and rows:
- `DriftPartitionsHolds`: every step of the greedy pairing keeps a `Matching`, a
  one-to-one pairing of vanished and new names with one formula in which no name
  passed over has a free twin (`PairedMatches`, `RenamesMatch`); each name then is
  in one finding (`RegisterPartitions`) and no pair is left (`NoPairLeft`).
- `EmissionFollowsDriftHolds`: `ByDate` is the order of the files where these are
  named by date (`SortedStays`), so the newer edition of drift is the last one of the
  emitters (`LastEditionEmitted`).
- `InconsistenciesAreExactHolds`: the figures of a report are its printed, legible
  ones, once each (`FiguresAre`); in a readable report they are, for each
  breakdown, in bijection with its legible rows (`RowsAreFigures`), so the sums agree
  (`RowsAddUp`), and a total with rows is that of a breakdown (`WrongIsOff`, `OffIsWrong`).

*ContradictionsProofs.* `GroupsInv`: where names are clear, members of two groups
are of one metric exactly if the groups are one. `GroupsAreMetrics` forgets
that a group's name is a member's, which is in the type invariant and is what the
next comparison uses. `FoundInv` ties the contradictions to the final groups.

*WatchLoopProofs.* `MiningInv` and `RunsInv` say what is owed between marking and
running (the statements still in `signals`, the run still to be paid for);
`ProposalInv` and `OsiInv` follow the checked items of the pruned proposal into the file
(`CheckedItemsExistHolds`). `SharedInv` says of the tables already taken that their files
are from the reading, and that the others are in `todo` and not yet filed: without the
second half the end of a run says nothing of the first, and a table that writes over a
file might have been the holder of another (`FilesShareOneReadingHolds`; a run takes no
table twice, `BundledOnce`). `MoreEvidenceRanksHigherHolds`
goes signal by signal, for any weights and any growing logarithm, through the
truncating division. `EvidenceAddsUpHolds` counts one set twice: the pairs of a
candidate and a position of the log with its shape, candidate by candidate
(`CountOfMember`, which gives the merged executions) and position by position
(`CountOfStatement`, which gives the occurrences); between the two a statement has as
many matching aggregations as the first one of its shape (`SameShape`). None of them needs
the bounds on the others' writes or on the length of the log.

Assumptions: the named `ASSUME`s say what a value may be and nothing about behaviour:
ranges, that the marks for "nothing" are no values, that queries with one key name the
same tables, that a torn statement does not parse. Of the newer ones, `IsReport` says
that the figures of a report are integers and its metrics are numbered;
`ShapesAssumption` that statements of one shape differ in nothing but literals, which
is how `parameterized_hash` is computed (`query_log.py:35-60`); `TablesAssumption` that
the schema lists a table once; `NamesAssumption` that no
two tables, and no two columns of one table, have the same name in lower case. The
last is true of a warehouse that ignores case; were it not, the later table would
shadow the earlier one in `_build_schema_lookup` (`sql_extractor.py:70-77`).

Model-checked only: `Terminates`, `EndsWithArtifact`, `EveryTableJudged` and
`NewStatementsAreMined`, because liveness under fairness is beyond the prover. Every
invariant of every passing run, and the refinement of `MappingContract`, is a theorem. No
module declares a `RECURSIVE` operator.

## 5. Where code and documentation disagree

1. *UNMAPPABLE* is documented as "no candidate reaches WEAK after all three
   tiers"; a tier-1 survivor that is rejected on its breakdowns stops the search
   (`fingerprint_unmappable`).
2. *Hallucinated columns* are to be "dropped, never emitted downstream"; a repair
   is not checked (`validation_guardrail`).
3. *Emitted paths* exist, says a test; one is recorded when the loop raised or
   renamed its dataset (`emitted_paths`).
4. *Old snapshots under today's names*: not once a column has been renamed and another
   one has taken its old name. A query on that name then finds no column and evaluates to
   nothing, even in a snapshot committed afterwards, which has the field under this very
   name (`renamed_columns`).
5. *The latest edition wins*, say two comments; the order is that of the file
   names, while drift orders by date (`latest_edition`).

Noted without a run: `fingerprint/__init__.py` says a query targets the snapshot
"whose as-of matches", while the last committed one within three days is taken;
`loop.py:119-123` promises a fallback where there is no dbt project, but `mf`
then exits non-zero, which is taken for a validation error;
`docs/guides/configuration.md` calls `llm.max_retries` the repair attempts while
it counts validations. Of contradictions: `conflict.py:8-9` says they are "NEVER
auto-resolved", yet where names are not clear the greedy grouping may part two
statements that disagree ("wholesale credit exposure" opens a group; whether the
bare "credit exposure" comes before or after decides whom it meets), and "gross",
"net", "adjusted" and "total" are stopwords, so a gross and a net figure count as
one metric. A contradiction's empirical note is that of the first similar mapping.
Of extraction: `CANONIQ_V1_REPORTFIRST_SPEC.md:131` wants inconsistencies in
the conflict report, but nothing reads `extraction.inconsistencies`; a footnote is
taken for the grand total where no current total is printed; two rows of a table
with one label and one value count once; a report structured by an LLM never gets
parent totals. Of drift: a metric that was renamed away is still emitted under its
old name. Of evidence: no caller passes dbt metrics to the merge, although
`docs/guides/configuration.md` says they feed `is_certified`, so a manifest's
signal starts a run that does not read the manifest; spreadsheet cells go to every
table, although `evidence_bundle.py:205-206` says the caller passes relevant ones
only; `distinct_users` counts shapes; of a shape only the first statement's
literals become filter variants. Of proposals: "any hallucinated column is
dropped, never emitted downstream" (`llm.py:220-221`) holds of dimensions, entities and
metrics that parse; an expression that does not parse counts as naming no column
(`llm.py:149-152`), the primary key and the joins are not looked at, and the OSI emitter
writes all three (`CheckedItemsExist` leaves them out). Two tables whose answers give
one dataset name share one MetricFlow file, and the later one stays. Of watching: a
statement that was
seen and rotated away before its run is not mined when it returns (the `missed` of
`SeenSignalsAreMined`), and new executions of a known shape start no run.

## 6. Not modelled

Parsing and text generation (PDF, prose, Tableau, SQL, DDL, documents,
spreadsheets; the emitters' YAML and JSON): stateless handling of text, whose
results are the models' inputs. The LLM structuring pass of `extract/report.py` (no
caller but tests), `run_forever` of the watcher and certification by dbt metrics (no
caller at all). The arithmetic and the grouping of a query by dimension: results
are cells. Of `naming.py`, the ranking of columns (an input, `NameRank`). The
hand-over of files between the commands `mine`, `rank`, `propose`, `emit` and
`validate`, which have no state of their own. The evaluation harness and the
benchmark generator, which score and generate and have no behaviour to check.

## 7. Plan

Done: `ConfidenceBands`, `MappingContract`, `FingerprintSolver`, `ValidationLoop`,
`ArtifactEmission`, `SnapshotReads`; then `DriftDiff`, `ReportExtraction` and
`BootstrapPipeline`, `NameMatching` and `Contradictions`, `EvidenceBundle` and
`WatchLoop`, each with its proofs.

What is left, in the order of its worth:

1. The hand-over of files between the log-first commands: a proposal ranked from
   one mining and emitted after another.
2. Grouped queries in `SnapshotReads` (a breakdown joins a second table whose
   snapshot may be missing) and their link to `AbortScoring` of the solver.
3. Prose comparatives and Tableau calculations as sources of figures and statements.
4. Proofs: that the loop of one table as `ArtifactEmission` has it ends in the outcome
   that `EmitTable` of `BootstrapPipeline` takes for granted, as a refinement.
