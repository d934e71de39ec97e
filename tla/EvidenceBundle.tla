--------------------------- MODULE EvidenceBundle ---------------------------
(***************************************************************************)
(* What `canoniq mine` makes of the configured evidence: the query log     *)
(* grouped by shape (ingest/query_log.py), the aggregations, dimensions    *)
(* and joins of each shape (mining/sql_extractor.py), the columns of the   *)
(* DDL and the definitions found in documents and spreadsheets, merged     *)
(* into one bundle per table (mining/evidence_bundle.py) and scored        *)
(* (ranking/ontorank.py).                                                  *)
(*                                                                         *)
(* SQL is parsed by sqlglot: Parsed says what a statement refers to.  An   *)
(* expression is its function and its column.  No caller passes dbt        *)
(* metrics to the merge, so nothing is ever certified.                     *)
(***************************************************************************)
EXTENDS Integers, FiniteSets, FiniteSetsExt, SequencesExt, Subsequences

CONSTANTS
    SQL,            \* statements
    NotSQL,         \* the shape of a statement that does not parse
    Parsed,         \* statement |-> shape, select, from, aggs, filter, fields, joins
    Lower,          \* name |-> the name in lower case
    TableOrder,     \* the tables, each once, in the order of the schema
    Schema,         \* table |-> column |-> type
    Ddl,            \* some tables |-> [column |-> [suffix, type]] and the keys
    Documents,      \* raw definitions of the documents
    Sheets,         \* formula cells of the spreadsheets
    Logarithms,     \* the first values of log(1 + n), from n = 1 on, scaled
    Weights         \* of the signals, in hundredths

Tables == ToSet(TableOrder)
ASSUME TablesAssumption == TableOrder \in Seq(Tables) /\ IsInjective(TableOrder)

\* Every source is finite, and log(1 + n) grows from 0.
ASSUME SourcesAssumption ==
    /\ \A sql \in SQL :
          /\ Parsed[sql].aggs \in Seq(Range(Parsed[sql].aggs))
          /\ \A agg \in Range(Parsed[sql].aggs) : agg.columns \in Seq(Range(agg.columns))
    /\ \A table \in DOMAIN Ddl : IsFiniteSet(DOMAIN Ddl[table].columns)
    /\ IsFiniteSet(Documents) /\ IsFiniteSet(Sheets)
\* Names are told apart without their case, as the warehouse does: a lookup by a
\* name in lower case finds at most one table, and at most one of its columns.
ASSUME NamesAssumption ==
    /\ \A t \in Tables : Lower[Lower[t]] = Lower[t]
    /\ \A t, u \in Tables : Lower[t] = Lower[u] => t = u
    /\ \A t \in Tables : \A c, d \in DOMAIN Schema[t] :
          (Lower[c] = Lower[d] => c = d) /\ Lower[c] # Lower["*"]

\* Statements of one shape differ in their literals, that is in their filter, only.
ASSUME ShapesAssumption ==
    \A p, q \in SQL :
        Parsed[p].shape = Parsed[q].shape /\ Parsed[p].shape # NotSQL =>
            /\ Parsed[p].select = Parsed[q].select /\ Parsed[p].from = Parsed[q].from
            /\ Parsed[p].aggs = Parsed[q].aggs

ASSUME WeightsAssumption ==
    /\ Logarithms \in Seq(Nat \ {0}) /\ Logarithms # <<>>
    /\ \A i, j \in DOMAIN Logarithms : i <= j => Logarithms[i] <= Logarithms[j]
    /\ Weights \in [{"source_authority", "usage_frequency", "cross_source_agreement",
                     "recency"} -> Nat]

-----------------------------------------------------------------------------
(* The query log.                                                          *)

Shape(sql) == Parsed[sql].shape
Shapes(log) == {Shape(log[i]) : i \in DOMAIN log} \ {NotSQL}

\* A faulty variant of Queries: statements are grouped by their text.
QueriesByText(log) ==
    {[sql |-> log[i], executions |-> 1] : i \in {j \in DOMAIN log : Shape(log[j]) # NotSQL}}

\* One query per shape: the first statement, with the number of executions.
Queries(log) ==
    LET Of(shape) == {i \in DOMAIN log : Shape(log[i]) = shape}
    IN  {[sql |-> log[Min(Of(shape))], executions |-> Cardinality(Of(shape))] :
            shape \in Shapes(log)}

Analytical(sql) == Parsed[sql].select /\ Parsed[sql].aggs # <<>>

-----------------------------------------------------------------------------
(* What a query says about tables and columns, as far as the schema has    *)
(* them.  Tables come out in lower case, columns as the schema writes them.*)

SameName(a, b) == Lower[a] = Lower[b]
Resolves(ref) ==
    \E t \in Tables : SameName(t, ref.table) /\ \E c \in DOMAIN Schema[t] : SameName(c, ref.column)
Column(ref) ==
    CHOOSE c \in UNION {DOMAIN Schema[t] : t \in {u \in Tables : SameName(u, ref.table)}} :
        SameName(c, ref.column)

Resolvable(agg, from) ==
    IF agg.star THEN from # <<>> /\ \E t \in Tables : SameName(t, from[1])
    ELSE agg.columns # <<>> /\ \A i \in DOMAIN agg.columns : Resolves(agg.columns[i])

\* An aggregation belongs to the table of its first column; COUNT(*) to the first
\* table of the query.
Aggregations(query) ==
    LET parsed == Parsed[query.sql]
        Candidate(i) ==
            LET agg == parsed.aggs[i]
            IN  [table |-> Lower[IF agg.star THEN parsed.from[1] ELSE agg.columns[1].table],
                 column |-> IF agg.star THEN "*" ELSE Column(agg.columns[1]),
                 fn |-> agg.fn, whole |-> FALSE, filter |-> parsed.filter,
                 mined |-> TRUE, source |-> query.sql, place |-> i,
                 executions |-> query.executions, users |-> 1]
    IN  {Candidate(i) : i \in {j \in DOMAIN parsed.aggs : Resolvable(parsed.aggs[j], parsed.from)}}

Fields(query) ==
    {[table |-> Lower[ref.table], column |-> Column(ref), source |-> query.sql] :
        ref \in {r \in Parsed[query.sql].fields : Resolves(r)}}

\* A join leads to the table it introduces.
Joins(query) ==
    LET End(ref) == [table |-> Lower[ref.table], column |-> Column(ref)]
        Directed(join) ==
            IF SameName(join.right.table, join.introduced)
            THEN [from |-> End(join.left), to |-> End(join.right), source |-> query.sql]
            ELSE [from |-> End(join.right), to |-> End(join.left), source |-> query.sql]
    IN  {Directed(join) : join \in {j \in Parsed[query.sql].joins : Resolves(j.left) /\ Resolves(j.right)}}

Mined(log) == {query \in Queries(log) : Analytical(query.sql)}

-----------------------------------------------------------------------------
(* The other sources.  Their candidates have no executions.                *)

\* The role of a column, from the ending of its name and its type.
Role(column) ==
    CASE column.type = "boolean" -> "flag"
      [] column.type # "boolean" /\ column.suffix \in {"identifier", "flag"} -> column.suffix
      [] column.suffix \notin {"identifier", "flag"} /\ column.type = "number" ->
            IF column.suffix = "time" THEN "dimension" ELSE "measure_input"
      [] OTHER -> "dimension"

Unasked(table, column, fn, whole, filter, source) ==
    [table |-> table, column |-> column, fn |-> fn, whole |-> whole, filter |-> filter,
     mined |-> FALSE, source |-> source, place |-> 0, executions |-> 0, users |-> 0]

DdlSource(table, column) ==
    IF column \in Ddl[table].keys THEN "ddl_constraint" ELSE "ddl_naming_convention"

DdlColumns(table, role) ==
    IF table \notin DOMAIN Ddl THEN {}
    ELSE {c \in DOMAIN Ddl[table].columns : Role(Ddl[table].columns[c]) = role}

\* A definition is grounded on the first word that names a column and on the table
\* that most of its words belong to; a column of several tables counts for the last.
Owner(word) ==
    LET owners == {i \in DOMAIN TableOrder : \E c \in DOMAIN Schema[TableOrder[i]] : Lower[c] = word}
    IN  IF owners = {} THEN 0 ELSE Max(owners)
GroundedWords(raw) == Kept(raw.words, {i \in DOMAIN raw.words : Owner(raw.words[i]) # 0})
GroundedTable(words) ==
    LET Count(i) == Cardinality({j \in DOMAIN words : Owner(words[j]) = Owner(words[i])})
        best == {i \in DOMAIN words : \A j \in DOMAIN words : Count(i) >= Count(j)}
    IN  TableOrder[Owner(words[Min(best)])]
Ambiguous(raw) == raw.ambiguous \/ 100 * Len(GroundedWords(raw)) < 60 * Len(raw.words)

DocumentSource(raw) ==
    IF raw.approved THEN "brd_approved" ELSE IF raw.pdf THEN "pdf_report" ELSE "brd_draft"

\* Documents that could be grounded go to their table.  A cell has no table, so it
\* goes to every table.
DocumentCandidates(table, answered, cells) ==
    LET grounded == {raw \in Documents : answered /\ GroundedWords(raw) # <<>> /\ ~Ambiguous(raw)
                                         /\ GroundedTable(GroundedWords(raw)) = table}
        placed == {cell \in cells : \E c \in UNION {DOMAIN Schema[t] : t \in Tables} :
                                        Lower[c] = cell.column}
    IN  {Unasked(table, Head(GroundedWords(raw)), raw.fn, TRUE, raw.filter, DocumentSource(raw)) :
            raw \in grounded}
        \cup {Unasked(table, cell.column, cell.fn, TRUE, "none", "excel_formula") : cell \in placed}

-----------------------------------------------------------------------------
(* The bundle of a table.  A reading is what one run read: the log, the    *)
(* cells, and whether the LLM that reads the documents answered.           *)

Candidates(table, reading) ==
    {c \in UNION {Aggregations(query) : query \in Mined(reading.log)} : SameName(c.table, table)}
    \cup {Unasked(table, c, "SUM", FALSE, "none", DdlSource(table, c)) :
            c \in DdlColumns(table, "measure_input")}
    \cup DocumentCandidates(table, reading.answered, reading.cells)

\* A document's expression is one key, never that of the same expression mined.
Key(c) == [table |-> Lower[c.table], column |-> Lower[c.column], fn |-> c.fn, whole |-> c.whole]

\* What a candidate counts for: a query with two or more keys on this table is complex.
SourceType(c, candidates) ==
    IF ~c.mined THEN c.source
    ELSE IF Cardinality({Key(d) : d \in {e \in candidates : e.source = c.source}}) >= 2
         THEN "query_log_complex" ELSE "query_log_simple"

Evidence(members, candidates) ==
    LET first == IF \E m \in members : m.mined THEN CHOOSE m \in members : m.mined
                 ELSE CHOOSE m \in members : TRUE
    IN  [fn |-> first.fn, column |-> first.column, whole |-> first.whole,
         executions |-> SumFunction([m \in members |-> m.executions]),
         users |-> SumFunction([m \in members |-> m.users]),
         seen |-> \E m \in members : m.mined,
         sources |-> {SourceType(m, candidates) : m \in members},
         filters |-> {m.filter : m \in members}]

MetricCandidates(table, reading) ==
    LET candidates == Candidates(table, reading)
    IN  {Evidence({c \in candidates : Key(c) = key}, candidates) : key \in {Key(c) : c \in candidates}}

\* Dimensions are told apart by their names as written: the DDL's and the queries'
\* may both be there.
DimensionCandidates(table, reading) ==
    {[table |-> f.table, column |-> f.column] :
        f \in {g \in UNION {Fields(query) : query \in Mined(reading.log)} : SameName(g.table, table)}}
    \cup {[table |-> table, column |-> c] : c \in DdlColumns(table, "dimension")}

JoinCandidates(table, reading) ==
    {[from |-> j.from, to |-> j.to] :
        j \in {k \in UNION {Joins(query) : query \in Mined(reading.log)} :
                  SameName(k.from.table, table) \/ SameName(k.to.table, table)}}

\* The tables with a metric to mine, in the order in which a run takes them: every
\* candidate has a key, and so a metric.
BundledTables(reading) ==
    Kept(TableOrder, {i \in DOMAIN TableOrder : Candidates(TableOrder[i], reading) # {}})

-----------------------------------------------------------------------------
(* OntoRank, in hundredths.                                                *)

SOURCE_AUTHORITY ==
    [query_log_simple |-> 40, query_log_complex |-> 60, ddl_naming_convention |-> 45,
     ddl_constraint |-> 75, brd_draft |-> 65, brd_approved |-> 90, pdf_report |-> 55,
     excel_formula |-> 50]

\* A faulty variant of SourceAuthority: the least trusted source decides.
SourceAuthorityLeast(evidence) == Min({SOURCE_AUTHORITY[s] : s \in evidence.sources})

SourceAuthority(evidence) == Max({SOURCE_AUTHORITY[s] : s \in evidence.sources})

\* log(1 + n): beyond the table, all that is kept of it is that it grows.
Logarithm(n) ==
    IF n = 0 THEN 0
    ELSE IF n <= Len(Logarithms) THEN Logarithms[n] ELSE Logarithms[Len(Logarithms)] + n

UsageFrequency(evidence, most) ==
    IF most = 0 THEN 0 ELSE (100 * Logarithm(evidence.executions)) \div Logarithm(most)
CrossSourceAgreement(evidence) == Min({25 * Cardinality(evidence.sources), 100})

\* A query's last execution is the moment the log was read.
Recency(evidence) == IF evidence.seen THEN 100 ELSE 0

Trust(evidence, bundle) ==
    LET most == Max({e.executions : e \in bundle})
    IN  Weights.source_authority * SourceAuthority(evidence)
        + Weights.usage_frequency * UsageFrequency(evidence, most)
        + Weights.cross_source_agreement * CrossSourceAgreement(evidence)
        + Weights.recency * Recency(evidence)
=============================================================================
