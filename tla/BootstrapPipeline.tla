-------------------------- MODULE BootstrapPipeline --------------------------
(***************************************************************************)
(* The report-first pipeline (pipeline.py): ingest, fingerprint, drift,    *)
(* emit and report, once over the report editions of a directory.  A step  *)
(* is one edition, one table or one node; an exception in any of them ends *)
(* the run.                                                                *)
(*                                                                         *)
(* What fingerprinting one edition may return is MappingContract's, which  *)
(* the solver implements; what becomes of one table's loop is the subject  *)
(* of ArtifactEmission and appears here as its outcome.  Report ids are    *)
(* numbered in alphabetical order, and so are metrics and tables.          *)
(***************************************************************************)
EXTENDS DriftDiff, ReportExtraction

CONSTANTS
    Directories,        \* what may be found: sequences of printed reports
    Mentions,           \* sets of metrics that the documents may mention
    Formulas,
    TableOf,            \* formula |-> the table of its first term
    Columns,            \* formula |-> the columns of its terms
    GroupColumns        \* formula |-> the columns that its breakdowns are grouped by

ASSUME DirectoriesAssumption ==
    /\ Directories \subseteq Seq(UNION {Range(directory) : directory \in Directories})
    /\ \A directory \in Directories : \A report \in Range(directory) : IsReport(report)
ASSUME FormulasAssumption ==
    /\ NoFormula \notin Formulas
    /\ TableOf \in [Formulas -> Nat]

VARIABLES
    reports,        \* the report files by id
    mentioned,      \* the metrics that some document mentions
    loose,          \* the engine's tolerance is wider than drift's fixed 0.005
    stage,          \* the node that runs
    outcome,        \* "running", "returned", "raised"
    extractions,    \* per report: its figures and inconsistencies
    verdicts,       \* mappings_by_report: per report, metric |-> verdict
    findings,       \* the drift register
    proposals,      \* table |-> the metrics of its semantic model
    validation,     \* table |-> what was recorded of its loop
    emitted,        \* the paths recorded
    payloads,       \* the OpenMetadata payloads: terms, tags, lineage
    conflictReport  \* accepted, unmappable and the drift register

vars == <<reports, mentioned, loose, stage, outcome, extractions, verdicts,
          findings, proposals, validation, emitted, payloads, conflictReport>>
input == <<reports, mentioned, loose>>
products == <<proposals, validation, emitted, payloads, conflictReport>>

Bands == {"CONFIRMED", "WEAK", "UNMAPPABLE", "REJECTED"}
Contract == INSTANCE MappingContract WITH
    Groups <- <<>>, Candidates <- Formulas, NoCandidate <- NoFormula,
    outcome <- outcome, verdicts <- verdicts

\* CONFIRMED stands for PROBABLE too: only the trust figures tell them apart.
Trusted == {"CONFIRMED", "WEAK"}
Published == {"CONFIRMED"}

Init ==
    /\ reports \in Directories
    /\ mentioned \in Mentions
    /\ loose \in BOOLEAN
    /\ stage = "ingest"
    /\ outcome = "running"
    /\ extractions = <<>> /\ verdicts = <<>>
    /\ findings = {}
    /\ proposals = <<>> /\ validation = <<>>
    /\ emitted = {}
    /\ payloads = <<>> /\ conflictReport = <<>>

At(node) == outcome = "running" /\ stage = node

Raise ==
    /\ outcome' = "raised"
    /\ UNCHANGED <<input, stage, extractions, verdicts, findings, products>>

\* ingest_node, one report file.
Ingest ==
    /\ At("ingest") /\ Len(extractions) < Len(reports)
    /\ LET report == reports[Len(extractions) + 1]
       IN  /\ ~Raises(report)
           /\ extractions' = Append(extractions, Extraction(report))
    /\ UNCHANGED <<input, stage, outcome, verdicts, findings, products>>

\* That report, or another file (a workbook, a document), cannot be read.
IngestFails == At("ingest") /\ Raise

IngestEnds ==
    /\ At("ingest") /\ Len(extractions) = Len(reports)
    /\ stage' = "fingerprint"
    /\ UNCHANGED <<input, outcome, extractions, verdicts, findings, products>>

\* A faulty variant of Sheets: a verdict may land under another metric's name.
SheetsMixed(figures) ==
    LET names == MetricNames(figures)
    IN  [names -> UNION {Contract!VerdictsOn(n) : n \in names}]

\* fingerprint_node, one edition: a verdict for each metric that has a total.
Sheets(figures) ==
    LET names == MetricNames(figures)
    IN  {s \in [names -> UNION {Contract!VerdictsOn(n) : n \in names}] :
            \A n \in names : s[n].metric = n}

Fingerprint ==
    /\ At("fingerprint") /\ Len(verdicts) < Len(extractions)
    /\ \E sheet \in Sheets(extractions[Len(verdicts) + 1].figures) :
          verdicts' = Append(verdicts, sheet)
    /\ UNCHANGED <<input, stage, outcome, extractions, findings, products>>

\* A table without a snapshot in the window, or one that expired.
FingerprintFails == At("fingerprint") /\ Len(verdicts) < Len(extractions) /\ Raise

FingerprintEnds ==
    /\ At("fingerprint") /\ Len(verdicts) = Len(extractions)
    /\ stage' = "drift"
    /\ UNCHANGED <<input, outcome, extractions, verdicts, findings, products>>

\* sorted is stable: editions of one date stay in the order of their files.
Earlier(editions, r) ==
    {s \in DOMAIN editions : \/ editions[s].asOf < editions[r].asOf
                             \/ editions[s].asOf = editions[r].asOf /\ s < r}
ByDate(editions) ==
    [k \in DOMAIN editions |->
        CHOOSE r \in DOMAIN editions : Cardinality(Earlier(editions, r)) = k - 1]

Edition(r) ==
    [names |-> DOMAIN verdicts[r],
     formula |-> [n \in DOMAIN verdicts[r] |-> verdicts[r][n].best]]

Older == Edition(ByDate(reports)[Len(reports) - 1])
Newer == Edition(ByDate(reports)[Len(reports)])

\* What evaluating the old formula at the new date may give.  The newer edition
\* reproduced the figure printed now with its own formula, within the engine's
\* tolerance and in the same executor.
Rechecks(old, new) ==
    {answer \in [Rechecked(old, new) -> {"agrees", "diverges", "fails"}] :
        \A n \in Rechecked(old, new) :
            new.formula[n] = old.formula[n] =>
                answer[n] \in {"agrees"} \cup IF loose THEN {"diverges"} ELSE {}}

Drift ==
    /\ At("drift")
    /\ IF Len(reports) < 2
       THEN UNCHANGED findings
       ELSE \E recheck \in Rechecks(Older, Newer) :
               findings' = Findings(Older, Newer, recheck, mentioned)
    /\ stage' = "propose"
    /\ UNCHANGED <<input, outcome, extractions, verdicts, products>>

\* The editions that accepted a formula for a metric with one of these bands.
Accepting(metric, bands) ==
    {r \in DOMAIN verdicts :
        metric \in DOMAIN verdicts[r] /\ verdicts[r][metric].band \in bands}
Metrics == UNION {DOMAIN verdicts[r] : r \in DOMAIN verdicts}
AcceptedMetrics(bands) == {n \in Metrics : Accepting(n, bands) # {}}

\* A faulty variant of Latest: the first edition keeps the metric.
Earliest(metric, bands) == Min(Accepting(metric, bands))

\* The last edition, in the order of the files, overwrites the earlier ones.
Latest(metric, bands) == Max(Accepting(metric, bands))
LatestVerdict(metric, bands) == verdicts[Latest(metric, bands)][metric]

\* A faulty variant of Synonyms: the new name of what the metric once was.
SynonymsForward(metric) ==
    {f.names[2] : f \in {g \in findings : g.kind = "renamed" /\ g.names[1] = metric}}

\* The names that drift found the metric to have had.
Synonyms(metric) ==
    {f.names[1] : f \in {g \in findings : g.kind = "renamed" /\ g.names[2] = metric}}

\* One metric of a semantic model.
Proposed(metric) ==
    LET verdict == LatestVerdict(metric, Trusted)
    IN  [name |-> metric, formula |-> verdict.best, band |-> verdict.band,
         synonyms |-> IF Synonyms(metric) = {} THEN {metric} ELSE Synonyms(metric)]

\* _proposals_from_mappings: each metric under the table of its formula.
Propose ==
    /\ At("propose")
    /\ LET metrics == {Proposed(n) : n \in AcceptedMetrics(Trusted)}
           tables == {TableOf[m.formula] : m \in metrics}
       IN  proposals' = [t \in tables |-> {m \in metrics : TableOf[m.formula] = t}]
    /\ stage' = "emit"
    /\ UNCHANGED <<input, outcome, extractions, verdicts, findings,
                   validation, emitted, payloads, conflictReport>>

Unemitted == DOMAIN proposals \ DOMAIN validation

\* One table: the OSI file, then its validation loop; a loop that raises counts as
\* failed, and its path is recorded all the same.
EmitTable ==
    /\ At("emit") /\ Unemitted # {}
    /\ LET table == Min(Unemitted)
       IN  /\ \E passed \in BOOLEAN :
                 validation' = [t \in DOMAIN validation \cup {table} |->
                                    IF t = table THEN passed ELSE validation[t]]
           /\ emitted' = emitted \cup {<<"osi", table>>, <<"metricflow", table>>}
    /\ UNCHANGED <<input, stage, outcome, extractions, verdicts,
                   findings, proposals, payloads, conflictReport>>

\* The OSI emitter, or a write, raises.
EmitFails == At("emit") /\ Raise

\* A faulty variant of Terms: the first published edition keeps the term.
TermsEarliest ==
    {[name |-> n, formula |-> verdicts[Earliest(n, Published)][n].best,
      report |-> Earliest(n, Published), synonyms |-> Synonyms(n)] :
        n \in AcceptedMetrics(Published)}

\* _dedupe_mappings and build_payloads: one term per metric, tags on the columns
\* it is computed from or broken down by, lineage from the former to the edition.
Terms ==
    {[name |-> n, formula |-> LatestVerdict(n, Published).best,
      report |-> Latest(n, Published), synonyms |-> Synonyms(n)] :
        n \in AcceptedMetrics(Published)}

EmitOpenMetadata ==
    /\ At("emit") /\ Unemitted = {}
    /\ payloads' =
        [terms |-> Terms,
         tags |-> UNION {(Columns[t.formula] \cup GroupColumns[t.formula]) \X {t.name} :
                            t \in Terms},
         lineage |-> UNION {Columns[t.formula] \X {<<t.report, t.name>>} : t \in Terms}]
    /\ emitted' = emitted \cup
        {"openmetadata"} \X {"glossary", "glossary_terms", "tables", "lineage"}
    /\ stage' = "report"
    /\ UNCHANGED <<input, outcome, extractions, verdicts, findings,
                   proposals, validation, conflictReport>>

\* A faulty variant of Judged: only the latest edition is reported.
JudgedLatest(bands) ==
    UNION {{r} \X {n \in DOMAIN verdicts[r] : verdicts[r][n].band \in bands} :
              r \in DOMAIN verdicts \cap {Len(verdicts)}}

\* BootstrapResult.all_mappings: the verdicts of every edition.
Judged(bands) ==
    UNION {{r} \X {n \in DOMAIN verdicts[r] : verdicts[r][n].band \in bands} :
              r \in DOMAIN verdicts}

\* report_node and build_conflict_report; Contradictions models its other section.
Report ==
    /\ At("report")
    /\ conflictReport' = [accepted |-> Judged(Trusted),
                          unmappable |-> Judged({"UNMAPPABLE"}),
                          register |-> findings]
    /\ emitted' = emitted \cup {"conflict_report"} \X {"md", "json"}
    /\ outcome' = "returned"
    /\ UNCHANGED <<input, stage, extractions, verdicts, findings,
                   proposals, validation, payloads>>

\* A write raises.
ReportFails == At("report") /\ Raise

Over == outcome # "running" /\ UNCHANGED vars

Next ==
    \/ Ingest \/ IngestFails \/ IngestEnds
    \/ Fingerprint \/ FingerprintFails \/ FingerprintEnds
    \/ Drift \/ Propose
    \/ EmitTable \/ EmitFails \/ EmitOpenMetadata
    \/ Report \/ ReportFails
    \/ Over

Spec == Init /\ [][Next]_vars
-----------------------------------------------------------------------------
Diffed == stage \in {"propose", "emit", "report"} /\ Len(reports) >= 2
EmittedMetrics == UNION {proposals[t] : t \in DOMAIN proposals}

\* Type correctness.
TypeOK ==
    /\ reports \in Directories /\ mentioned \in Mentions /\ loose \in BOOLEAN
    /\ stage \in {"ingest", "fingerprint", "drift", "propose", "emit", "report"}
    /\ outcome \in {"running", "returned", "raised"}
    /\ Len(extractions) <= Len(reports)
    /\ Len(verdicts) <= Len(extractions)
    /\ \A r \in DOMAIN verdicts : \A n \in DOMAIN verdicts[r] :
          verdicts[r][n] \in Contract!VerdictsOn(n)
    /\ \A f \in findings :
          f.kind \in {"renamed", "redefined", "appeared", "disappeared"}
    /\ \A t \in DOMAIN proposals : \A m \in proposals[t] :
          m.band \in Trusted /\ m.formula \in Formulas /\ TableOf[m.formula] = t
    /\ DOMAIN validation \subseteq DOMAIN proposals

\* extract_report calls a report inconsistent exactly where a reader would: the
\* linking of rows to totals by identity, the dropping of illegible figures and
\* the removal of duplicates do not make a table add up, or stop it from doing so
\* when it is printed on several pages.
InconsistenciesAreExact ==
    \A r \in DOMAIN extractions :
        Readable(reports[r]) =>
            extractions[r].inconsistencies = AddsUpWrong(reports[r])

\* Each vanished name is in one finding, a rename or a disappearance, each new one
\* in a rename or an appearance, and no disappearance is left beside an appearance
\* with the same formula (the greedy pairing at report_diff.py:72-96).
DriftPartitions ==
    Diffed =>
        LET moved == {f \in findings : f.kind # "redefined"}
            left(n) == {f \in moved : /\ f.kind \in {"renamed", "disappeared"}
                                      /\ f.names[1] = n}
            right(n) == {f \in moved : \/ f.kind = "renamed" /\ f.names[2] = n
                                       \/ f.kind = "appeared" /\ f.names[1] = n}
        IN  /\ \A n \in Older.names \cup Newer.names :
                  /\ Cardinality(left(n)) = IF n \in Gone(Older, Newer) THEN 1 ELSE 0
                  /\ Cardinality(right(n)) = IF n \in Came(Older, Newer) THEN 1 ELSE 0
            /\ \A f, g \in moved :
                  f.kind = "disappeared" /\ g.kind = "appeared" =>
                      \/ Older.formula[f.names[1]] # Newer.formula[g.names[1]]
                      \/ Older.formula[f.names[1]] = NoFormula

\* A metric is called redefined only when its old formula is known, and, unless the
\* engine's tolerance is the wider one, only when the editions do not agree on it;
\* two different formulas are always called a redefinition (report_diff.py:98-132).
RedefinedIsReal ==
    Diffed =>
        LET redefined == {f.names[1] : f \in {g \in findings : g.kind = "redefined"}}
        IN  \A n \in Older.names \cap Newer.names :
                LET before == Older.formula[n]
                    after == Newer.formula[n]
                IN  /\ n \in redefined => before # NoFormula
                    /\ n \in redefined /\ ~loose => before # after
                    /\ NoFormula \notin {before, after} /\ before # after =>
                          n \in redefined

\* Two readers of one verdict table: the glossary keeps what is published, the
\* semantic models what is trusted, each from its own latest edition.  A glossary
\* term and the metric of the same name have one formula unless the semantic
\* model's latest verdict is WEAK, and every term has such a metric.
GlossaryAgreesUnlessWeak ==
    stage = "report" =>
        \A t \in payloads.terms : \E m \in EmittedMetrics :
            /\ m.name = t.name
            /\ m.formula = t.formula \/ m.band = "WEAK"

\* Where the files are named in the order of their dates, what drift says is what
\* is emitted: a renamed metric with the formula of its old name and that name as
\* a synonym, a redefined one with its new formula.
EmissionFollowsDrift ==
    /\ Diffed /\ stage # "propose"
    /\ \A r, s \in DOMAIN reports : r < s => reports[r].asOf <= reports[s].asOf
    => \A f \in findings :
        /\ f.kind = "renamed" => \E m \in EmittedMetrics :
              /\ m.name = f.names[2] /\ f.names[1] \in m.synonyms
              /\ m.formula = Older.formula[f.names[1]]
        /\ f.kind = "redefined" /\ Newer.formula[f.names[1]] # NoFormula =>
              \E m \in EmittedMetrics :
                  m.name = f.names[1] /\ m.formula = Newer.formula[f.names[1]]

\* No metric goes missing between the report files and the conflict report: each
\* one that any edition prints with a legible total is listed there, as mapped or
\* for the steward, under its edition.
EveryMetricReported ==
    outcome = "returned" =>
        /\ conflictReport.accepted \cup conflictReport.unmappable =
               UNION {{r} \X MetricNames(Figures(reports[r])) : r \in DOMAIN reports}
        /\ conflictReport.accepted \cap conflictReport.unmappable = {}

\* "Latest edition wins per metric name" (pipeline.py:204): the formula emitted is
\* the one of the latest edition, by date, that accepted one.
LatestEditionWins ==
    Diffed /\ stage # "propose" =>
        \A m \in EmittedMetrics : \E r \in Accepting(m.name, Trusted) :
            /\ verdicts[r][m.name].best = m.formula
            /\ \A s \in Accepting(m.name, Trusted) :
                  reports[s].asOf <= reports[r].asOf
==============================================================================
