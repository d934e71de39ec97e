-------------------------- MODULE ReportExtraction --------------------------
(***************************************************************************)
(* extract_report without an LLM client, as the bootstrap pipeline calls   *)
(* it: from the tables and footnotes of one report to its figures, the     *)
(* tables that do not add up, and the metrics handed to fingerprinting.    *)
(*                                                                         *)
(* What is printed:                                                        *)
(*   report.asOf       the "As of" date, or NoDate                         *)
(*   report.tables     a sequence of tables [metric, dim, rows, total]:    *)
(*                     rows are [label, value]; in a table without a       *)
(*                     dimension (dim = NoDim) each row is a metric of its *)
(*                     own, labelled with its name                         *)
(*   report.footnotes  prior-quarter comparatives [metric, date, value]    *)
(*   report.garbled    values that the page text does not contain          *)
(* Rows without a number are left out of report.tables, and so is a table  *)
(* whose title is not recognised: the code skips both.                     *)
(***************************************************************************)
EXTENDS Integers, FiniteSets, FiniteSetsExt, SequencesExt, Subsequences

CONSTANTS NoDate, NoDim, NoTotal

\* What may be printed, metrics being numbered.
IsReport(report) ==
    /\ report.asOf \in Int \cup {NoDate}
    /\ report.tables \in Seq(Range(report.tables))
    /\ \A table \in Range(report.tables) :
          /\ table.metric \in Nat
          /\ table.total \in Int \cup {NoTotal}
          /\ table.rows \in Seq(Range(table.rows))
          /\ \A row \in Range(table.rows) :
                row.value \in Int /\ (table.dim = NoDim => row.label \in Nat)
    /\ report.footnotes \in Seq([metric : Nat, date : Int, value : Int])

\* A figure.  Its identity is a hash of all but the parent (the report is fixed).
Figure(metric, date, dims, value) ==
    [metric |-> metric, date |-> date, dims |-> dims, value |-> value]
NoParent == <<>>
Orphan(figure) == [id |-> figure, parent |-> NoParent]

\* _structure_tables_deterministic: the rows, then the total they belong to.
TableFigures(report, table) ==
    IF table.dim = NoDim
    THEN [i \in DOMAIN table.rows |->
            Orphan(Figure(table.rows[i].label, report.asOf, <<>>, table.rows[i].value))]
    ELSE LET total == Figure(table.metric, report.asOf, <<>>, table.total)
             hasTotal == table.total # NoTotal
         IN  [i \in DOMAIN table.rows |->
                [id |-> Figure(table.metric, report.asOf,
                               <<table.dim, table.rows[i].label>>,
                               table.rows[i].value),
                 parent |-> IF hasTotal THEN total ELSE NoParent]]
             \o IF hasTotal THEN <<Orphan(total)>> ELSE <<>>

FootnoteFigures(report) ==
    [i \in DOMAIN report.footnotes |->
        LET note == report.footnotes[i]
        IN  Orphan(Figure(note.metric, note.date, <<>>, note.value))]

\* _post_validate: a value that the text does not contain is no figure.
PostValidated(figures, report) ==
    Kept(figures, {i \in DOMAIN figures : figures[i].id.value \notin report.garbled})

\* A faulty variant of Deduped: every printing of a figure counts.
DedupedNever(figures) == figures

\* The first printing of a figure counts, with the parent it has there.
Deduped(figures) ==
    Kept(figures, {i \in DOMAIN figures :
                      \A j \in 1..(i - 1) : figures[j].id # figures[i].id})

Figures(report) ==
    Deduped(PostValidated(
        FlattenSeq([t \in DOMAIN report.tables |->
                        TableFigures(report, report.tables[t])])
        \o FootnoteFigures(report), report))

\* _validate_consistency, for each dimension of a total that survived: its
\* rows, by position, so that what occurs twice would be added twice.
Children(figures, total) == {i \in DOMAIN figures : figures[i].parent = total}
Totals(figures) ==
    {figures[i].parent : i \in DOMAIN figures} \cap {figures[i].id : i \in DOMAIN figures}
Sum(figures, rows) == SumFunction([i \in rows |-> figures[i].id.value])

\* |a - b| / |b| > 0.005, for a printed total b that is not zero.
Apart(a, b) == 1000 * (IF a > b THEN a - b ELSE b - a) > 5 * (IF b < 0 THEN -b ELSE b)

Inconsistencies(figures) ==
    LET Rows(total, dim) ==
            {i \in Children(figures, total) : figures[i].id.dims[1] = dim}
        dims == {figures[i].id.dims[1] : i \in {j \in DOMAIN figures : figures[j].id.dims # <<>>}}
    IN  UNION {{<<total.metric, total.value, dim>> :
                   dim \in {d \in dims : /\ Rows(total, d) # {}
                                         /\ Apart(Sum(figures, Rows(total, d)), total.value)}} :
                  total \in Totals(figures)}

\* extract_report raises without an as-of date, and when a total that has rows is
\* zero: the relative error divides by it.
Raises(report) ==
    \/ report.asOf = NoDate
    \/ \E total \in Totals(Figures(report)) : total.value = 0

\* solver.group_instances: a metric needs a total; of its totals the first one of
\* the latest date is the grand total.
GrandTotals(figures, metric) ==
    {i \in DOMAIN figures : figures[i].id.metric = metric /\ figures[i].id.dims = <<>>}
MetricNames(figures) ==
    {figures[i].id.metric : i \in {j \in DOMAIN figures : figures[j].id.dims = <<>>}}
GrandTotal(figures, metric) ==
    LET totals == GrandTotals(figures, metric)
        latest == {i \in totals : \A j \in totals :
                                     figures[j].id.date <= figures[i].id.date}
    IN  figures[Min(latest)].id

\* ReportExtraction: what the pipeline keeps of a report.
Extraction(report) ==
    [figures |-> Figures(report), inconsistencies |-> Inconsistencies(Figures(report))]

-----------------------------------------------------------------------------
\* What a reader of the report would say: each breakdown is one table, however
\* often it is printed, and no row of it is printed twice.
Readable(report) ==
    LET breakdowns == {t \in Range(report.tables) : t.dim # NoDim}
    IN  /\ \A t, u \in breakdowns : t.metric = u.metric /\ t.dim = u.dim => t = u
        /\ \A t \in breakdowns : \A i, j \in DOMAIN t.rows :
              t.rows[i].label = t.rows[j].label => i = j

\* The breakdowns whose legible rows do not add up to their legible total.
AddsUpWrong(report) ==
    {<<t.metric, t.total, t.dim>> :
        t \in {u \in Range(report.tables) :
            LET rows == {i \in DOMAIN u.rows : u.rows[i].value \notin report.garbled}
            IN  /\ u.dim # NoDim /\ u.total \notin report.garbled \cup {NoTotal}
                /\ rows # {}
                /\ Apart(SumFunction([i \in rows |-> u.rows[i].value]), u.total)}}
=============================================================================
