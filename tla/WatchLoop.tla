------------------------------ MODULE WatchLoop ------------------------------
(***************************************************************************)
(* `canoniq run --watch` (cli.py, ingest/watcher.py): poll the query log   *)
(* and the dbt manifest, and run the whole pipeline when one of them holds *)
(* something not seen before.  Other programs write both files meanwhile:  *)
(* statements are appended, the last one may be torn, the log is rotated,  *)
(* either file may be away.  A failed poll is a warning; an exception in a *)
(* run ends the process, and what it has seen is forgotten.                *)
(*                                                                         *)
(* A run reads its evidence once and then takes one table after another:   *)
(* the LLM proposes; the validation loop (ValidationLoop) writes the       *)
(* MetricFlow file from the proposal or from an answer to its repairs,     *)
(* under the name which that answer gives the dataset; the OSI file is     *)
(* written from the proposal, under the name of the table.                 *)
(***************************************************************************)
EXTENDS EvidenceBundle

CONSTANTS
    Torn,               \* the statement that was cut off while it was written
    DbtMetrics,         \* the keys of the manifest's metrics
    Away,               \* a file that is not there or cannot be read
    Answers,            \* what the LLM may answer: [dataset, items], an item being a
                        \* [part, columns, legible] (see Referenced)
    NoFile,
    Unwatched,          \* what a run may find: [answered : BOOLEAN, cells : SUBSET Sheets]
    InitialLogs,        \* what the log may hold when the process starts
    MaxLog,             \* bound on the length of the log
    MaxWrites           \* bound on the writes of other programs

ASSUME TornAssumption == Torn \in SQL /\ Shape(Torn) = NotSQL

Readings == [log : Seq(SQL), answered : BOOLEAN, cells : SUBSET Sheets]
Datasets == {answer.dataset : answer \in Answers}
Items == UNION {answer.items : answer \in Answers}

ASSUME FilesAssumption ==
    /\ InitialLogs \subseteq Seq(SQL) \cup {Away}
    /\ IsFiniteSet(DbtMetrics)
    /\ NoFile \notin Datasets \cup [table : Tables, from : Readings]
                      \cup [from : Readings, items : SUBSET Items]
    /\ Unwatched \subseteq [answered : BOOLEAN, cells : SUBSET Sheets]
    /\ MaxWrites \in Nat

VARIABLES
    log,                \* the query log file
    manifest,           \* the metrics of the manifest file
    writes,             \* the writes so far
    at,                 \* where the loop is
    seen,               \* _seen_hashes
    signals,            \* the new signals of this poll
    reading,            \* the evidence of the current or the last run
    todo,               \* the tables that the run has still to take
    proposal,           \* the current proposal
    filed,              \* per table, the dataset whose MetricFlow file the run wrote for it
    metricflow,         \* the files <dataset>_metricflow.yml
    osi,                \* the files <table>_osi.yml
    runs,               \* the runs of this process
    mined,              \* the statements that stood for their shapes in its runs
    missed              \* the signals whose run found them gone from the log

files == <<log, manifest>>
polling == <<seen, signals>>
run == <<reading, todo, proposal, filed, runs, mined, missed>>
artifacts == <<metricflow, osi>>
vars == <<log, manifest, writes, at, seen, signals, reading, todo, proposal, filed,
          metricflow, osi, runs, mined, missed>>

NoReading == [log |-> <<>>, answered |-> FALSE, cells |-> {}]
NoProposal == [dataset |-> NoFile, items |-> {}]
Unfiled == [t \in Tables |-> NoFile]
Heads(statements) == {query.sql : query \in Queries(statements)}

Init ==
    /\ log \in InitialLogs
    /\ manifest = Away
    /\ writes = 0
    /\ at = "query_log"
    /\ seen = {} /\ signals = {}
    /\ reading = NoReading /\ todo = <<>> /\ proposal = NoProposal /\ filed = Unfiled
    /\ metricflow = [d \in Datasets |-> NoFile]
    /\ osi = Unfiled
    /\ runs = 0 /\ mined = {} /\ missed = {}

-----------------------------------------------------------------------------
(* The programs that write the files.                                      *)

Write ==
    /\ writes < MaxWrites
    /\ writes' = writes + 1
    /\ UNCHANGED <<at, polling, run, artifacts>>

Logged(sql) ==
    /\ log # Away
    /\ Len(log) < MaxLog
    /\ log' = Append(log, sql)
    /\ UNCHANGED manifest
    /\ Write

\* The statement that was torn is now complete.
Complete(sql) ==
    /\ log # Away
    /\ log # <<>>
    /\ Last(log) = Torn
    /\ log' = [log EXCEPT ![Len(log)] = sql]
    /\ UNCHANGED manifest
    /\ Write

Rotate(fresh) ==
    /\ log # fresh
    /\ log' = fresh
    /\ UNCHANGED manifest
    /\ Write

Compile(metrics) ==
    /\ manifest # metrics
    /\ manifest' = metrics
    /\ UNCHANGED log
    /\ Write

Others ==
    \/ \E sql \in SQL : Logged(sql)
    \/ \E sql \in SQL \ {Torn} : Complete(sql)
    \/ \E fresh \in {<<>>, Away} : Rotate(fresh)
    \/ \E metrics \in {Away} \cup SUBSET DbtMetrics : Compile(metrics)

-----------------------------------------------------------------------------
(* The watcher.                                                            *)

\* A faulty variant of Polled: one statement that does not parse spoils the poll.
PolledWhole == IF log = Away \/ Torn \in Range(log) THEN {} ELSE Heads(log)

Polled == IF log = Away THEN {} ELSE Heads(log)

PollQueryLog ==
    /\ at = "query_log"
    /\ at' = "manifest"
    /\ LET new == Polled \ seen
       IN  /\ signals' = new
           /\ seen' = seen \cup new
    /\ UNCHANGED <<files, writes, run, artifacts>>

\* A faulty variant of NewSignals: the second connector's answer replaces the first's.
NewSignalsLast(new) == new

NewSignals(new) == signals \cup new

\* A faulty variant of SeenAfter: the manifest's metrics are not remembered.
SeenAfterForgetting(new) == seen

SeenAfter(new) == seen \cup new

PollManifest ==
    /\ at = "manifest"
    /\ LET new == IF manifest = Away THEN {} ELSE manifest \ seen
       IN  /\ signals' = NewSignals(new)
           /\ seen' = SeenAfter(new)
    /\ at' = "decide"
    /\ UNCHANGED <<files, writes, run, artifacts>>

Quiet ==
    /\ at = "decide"
    /\ signals = {}
    /\ at' = "sleep"
    /\ UNCHANGED <<files, writes, polling, run, artifacts>>

\* A faulty variant of NextTable: the last table is not noticed.
NextTableAlways(rest) == "propose"

NextTable(rest) == IF rest = <<>> THEN "sleep" ELSE "propose"

\* _run_pipeline_once builds every bundle from one reading of the files.  The LLM that
\* reads the documents may fail: that run has no candidates from documents.  The
\* spreadsheets are not watched: each run finds them as they are.
Mine(answered, cells) ==
    /\ at = "decide"
    /\ signals # {}
    /\ log # Away
    /\ runs' = runs + 1
    /\ reading' = [log |-> log, answered |-> answered, cells |-> cells]
    /\ todo' = BundledTables(reading')
    /\ at' = NextTable(todo')
    /\ mined' = mined \cup Heads(log)
    /\ missed' = missed \cup ((signals \cap SQL) \ Heads(log))
    /\ proposal' = NoProposal /\ filed' = Unfiled
    /\ UNCHANGED <<files, writes, polling, artifacts>>

\* A faulty variant of Pruned: the LLM's answer is taken as it is.
PrunedNothing(table, items) == items

\* The columns that validate_proposal finds in an item: an expression that does not
\* parse has none.
Referenced(item) == IF item.part = "metric" /\ ~item.legible THEN {} ELSE item.columns

Known(table, columns) ==
    \A c \in columns : \E known \in DOMAIN Schema[table] : SameName(known, c)

\* A faulty variant of Pruned: only the metrics are looked at.
PrunedMetrics(table, items) ==
    {item \in items : item.part # "metric" \/ Known(table, Referenced(item))}

\* validate_proposal drops a metric, dimension or entity that refers to a column the
\* table does not have.  It looks neither at the primary key nor at the joins.
Pruned(table, items) ==
    {item \in items : item.part \in {"key", "join"} \/ Known(table, Referenced(item))}

Propose(answer) ==
    /\ at = "propose"
    /\ proposal' = [dataset |-> answer.dataset,
                  items |-> Pruned(Head(todo), answer.items)]
    /\ at' = "metricflow"
    /\ UNCHANGED <<files, writes, polling, reading, todo, filed, runs, mined, missed,
                   artifacts>>

\* A faulty variant of WrittenFrom: the log is read anew for every file.
WrittenFromAnew == [reading EXCEPT !.log = IF log = Away THEN <<>> ELSE log]

WrittenFrom == reading

\* The loop accepts the proposal or the last answer to its repairs, which is not pruned
\* and may name another dataset.
EmitMetricFlow(accepted) ==
    /\ at = "metricflow"
    /\ metricflow' = [metricflow EXCEPT ![accepted.dataset] =
                         [table |-> Head(todo), from |-> WrittenFrom]]
    /\ filed' = [filed EXCEPT ![Head(todo)] = accepted.dataset]
    /\ at' = "osi"
    /\ UNCHANGED <<files, writes, polling, reading, todo, proposal, runs, mined, missed, osi>>

EmitOsi ==
    /\ at = "osi"
    /\ osi' = [osi EXCEPT ![Head(todo)] = [from |-> WrittenFrom, items |-> proposal.items]]
    /\ todo' = Tail(todo)
    /\ at' = NextTable(todo')
    /\ proposal' = NoProposal
    /\ UNCHANGED <<files, writes, polling, reading, filed, runs, mined, missed, metricflow>>

Wake ==
    /\ at = "sleep"
    /\ at' = "query_log"
    /\ signals' = {}
    /\ UNCHANGED <<files, writes, seen, run, artifacts>>

\* The log is away or another source of the evidence cannot be read, or later the LLM,
\* the validation loop or a write fails.  The process ends with all that it knew.
Fail ==
    /\ \/ at = "decide" /\ signals # {}
       \/ at \in {"propose", "metricflow", "osi"}
    /\ at' = "stopped"
    /\ seen' = {} /\ signals' = {}
    /\ reading' = NoReading /\ todo' = <<>> /\ proposal' = NoProposal /\ filed' = Unfiled
    /\ runs' = 0 /\ mined' = {} /\ missed' = {}
    /\ UNCHANGED <<files, writes, artifacts>>

\* Somebody starts the command again.
Restart ==
    /\ at = "stopped"
    /\ at' = "query_log"
    /\ UNCHANGED <<files, writes, polling, run, artifacts>>

Loop ==
    \/ PollQueryLog \/ PollManifest \/ Quiet
    \/ \E more \in Unwatched : Mine(more.answered, more.cells)
    \/ \E answer \in Answers : Propose(answer)
    \/ \E accepted \in {proposal} \cup Answers : EmitMetricFlow(accepted)
    \/ EmitOsi \/ Fail \/ Wake

Next == Loop \/ Others \/ Restart

\* The process keeps running: the loop itself has no other way to stop.  Nothing is
\* assumed of the other programs or of whoever restarts it.
Spec == Init /\ [][Next]_vars /\ WF_vars(Loop)

-----------------------------------------------------------------------------
(* What is checked.                                                        *)

TypeOK ==
    /\ log \in Seq(SQL) \cup {Away}
    /\ manifest \in {Away} \cup SUBSET DbtMetrics
    /\ writes \in 0..MaxWrites
    /\ at \in {"query_log", "manifest", "decide", "propose", "metricflow", "osi",
              "sleep", "stopped"}
    /\ seen \subseteq SQL \cup DbtMetrics
    /\ signals \subseteq SQL \cup DbtMetrics
    /\ reading \in Readings
    /\ todo \in Seq(Tables)
    /\ at \in {"propose", "metricflow", "osi"} => todo # <<>>
    /\ proposal \in [dataset : Datasets \cup {NoFile}, items : SUBSET Items]
    /\ at \in {"metricflow", "osi"} => proposal.dataset \in Datasets
    /\ filed \in [Tables -> Datasets \cup {NoFile}]
    /\ metricflow \in [Datasets -> [table : Tables, from : Readings] \cup {NoFile}]
    /\ osi \in [Tables -> [from : Readings, items : SUBSET Items] \cup {NoFile}]
    /\ runs \in Nat
    /\ mined \subseteq SQL /\ missed \subseteq SQL

\* Every statement that the watcher has marked as seen was mined by a run, or the log
\* was rewritten between the poll and the run it started (the mark is set before the
\* run, so nothing else would ever bring that statement back).  watcher.py:72-79.
SeenSignalsAreMined ==
    at \in {"sleep", "query_log"} => seen \cap SQL \subseteq mined \cup missed

\* Each run is paid for by a signal this process had not seen before: a log that is
\* not written to, a file that comes and goes, never make the loop spin through the
\* pipeline.  watcher.py:70-79, 91-99; cli.py:439-444.
RunsAreEarned == runs <= Cardinality(seen)

\* While the loop is not inside a run, both files of every table of the last run come
\* from the one reading of that run, however the log was rewritten meanwhile and
\* whatever older files lie beside them.  A MetricFlow file that does not hold the
\* table it was written for holds another table of that run whose answer gave the
\* dataset the same name.  cli.py:375, 389-406; loop.py:215-217.
FilesShareOneReading ==
    at \in {"sleep", "query_log", "manifest"} /\ runs > 0 =>
        \A t \in ToSet(BundledTables(reading)) :
            /\ filed[t] \in Datasets
            /\ LET file == metricflow[filed[t]]
               IN  file # NoFile /\ file.from = reading /\ filed[file.table] = filed[t]
            /\ osi[t] # NoFile /\ osi[t].from = reading

\* Whatever the LLM answers to a proposal or to a repair, and although the evidence of
\* a table may name a column of another one (a spreadsheet cell goes to every table),
\* the dimensions, the entities and the metrics that parse of an OSI file name only
\* columns of its table.  Nothing is said of the primary key, the joins and a metric
\* that does not parse: they are written unchecked.  llm.py:146-210; cli.py:387-405.
CheckedItemsExist ==
    \A t \in Tables : osi[t] # NoFile =>
        \A item \in osi[t].items :
            \/ item.part \in {"dimension", "entity"}
            \/ item.part = "metric" /\ item.legible
            => Known(t, item.columns)

\* The number of times that the aggregation of this metric occurs in the analytical
\* statements of a log, counted statement by statement.
Occurrences(statements, table, metric) ==
    LET Of(sql) == {c \in Aggregations([sql |-> sql, executions |-> 1]) :
                      /\ SameName(c.table, table) /\ SameName(c.column, metric.column)
                      /\ c.fn = metric.fn}
    IN  SumFunction([i \in DOMAIN statements |->
            IF Shape(statements[i]) # NotSQL /\ Analytical(statements[i])
            THEN Cardinality(Of(statements[i])) ELSE 0])

\* Grouping by shape and merging by name loses and invents nothing: a bundle has one
\* metric per column, function and kind, its executions are those of the log, a
\* metric that was mined names a column of the table, and every aggregation of the
\* log that the schema can resolve is in some bundle.  query_log.py:77-95;
\* sql_extractor.py:140-193; evidence_bundle.py:258-303.
EvidenceAddsUp ==
    at = "propose" /\ todo = BundledTables(reading) =>
    LET bundle == [t \in Tables |-> MetricCandidates(t, reading)]
        SameMetric(m, n) == m.whole = n.whole /\ m.fn = n.fn /\ SameName(m.column, n.column)
    IN  /\ \A t \in Tables : \A m, n \in bundle[t] : SameMetric(m, n) => m = n
        /\ \A t \in Tables : \A m \in bundle[t] :
              /\ m.executions = IF m.whole THEN 0 ELSE Occurrences(reading.log, t, m)
              /\ m.seen => m.column \in DOMAIN Schema[t] \cup {"*"}
        /\ \A query \in Mined(reading.log) : \A c \in Aggregations(query) :
              \E t \in Tables : \E m \in bundle[t] :
                  SameName(t, c.table) /\ ~m.whole /\ m.fn = c.fn /\ m.column = c.column
        /\ \A t \in Tables : \A d \in JoinCandidates(t, reading) :
              \E u \in Tables : d \in JoinCandidates(u, reading)
                              /\ \E v \in {t, u} : SameName(d.to.table, v)

\* Within a bundle, a metric with no fewer sources, executions and recency than
\* another is trusted no less: the order the LLM sees never inverts the evidence.
\* ontorank.py:54-88, 107-129.
MoreEvidenceRanksHigher ==
    at = "propose" /\ todo = BundledTables(reading) =>
    \A t \in Tables : LET bundle == MetricCandidates(t, reading) IN
        \A m, n \in bundle :
            /\ n.sources \subseteq m.sources
            /\ n.executions <= m.executions
            /\ n.seen => m.seen
            => Trust(m, bundle) >= Trust(n, bundle)

\* The log holds this statement before any other of its shape.
Leads(sql) ==
    /\ log # Away
    /\ \E i \in DOMAIN log :
          log[i] = sql /\ \A j \in 1..(i - 1) : Shape(log[j]) # Shape(sql)

\* A statement that is new to the watcher and leads its shape in the log is eventually
\* mined, unless the log is rewritten or the process stops before.  cli.py:438-447.
NewStatementsAreMined ==
    \A sql \in {known \in SQL : Shape(known) # NotSQL} :
        sql \notin seen /\ Leads(sql) ~> sql \in mined \/ ~Leads(sql) \/ at = "stopped"
==============================================================================
