----------------------------- MODULE SnapshotReads -----------------------------
(***************************************************************************)
(* What the fingerprinting engine reads: the Iceberg catalog adapter       *)
(* (canoniq/fingerprint/catalog.py) and the executor's result cache        *)
(* (canoniq/fingerprint/executor.py), while the warehouse's own jobs go on *)
(* committing snapshots, evolving schemas and expiring old snapshots.      *)
(*                                                                         *)
(* A value is abstracted to the cell it comes from: the snapshot and the   *)
(* field id.  The warehouse is external; it follows Iceberg's rules: field *)
(* ids are never reused, column names may be.                              *)
(***************************************************************************)
EXTENDS Integers, Sequences, FiniteSets, FiniteSetsExt

CONSTANTS
    Tables,         \* the tables of the namespace
    AsOfs,          \* business dates snapshots are tagged with, in days
    Dates,          \* dates of report figures
    Window,         \* adapter.snapshot_window_days
    Fields,         \* field ids; a schema's columns stand in their order
    ColumnNames,
    FirstSchema,    \* table -> the schema it was created with
    Queries,        \* candidate formulas
    Terms,          \* query -> its one or two terms, each a table and a column
    Key,            \* query -> its canonical_key
    MaxCommits,     \* bound: snapshots committed
    MaxSchemas,     \* bound: table -> schemas it may have
    NoColumn,       \* a field that is not in a schema
    NotLoaded, NotRead, NotRun,     \* nothing cached
    NotEvaluable,   \* the executor's None
    NoSnapshot,     \* SnapshotNotFoundError
    Lost            \* the data files of an expired snapshot are gone

Schemas == [Fields -> ColumnNames \cup {NoColumn}]
NamesAreUnique(schema) ==
    \A f, g \in Fields : schema[f] = schema[g] /\ schema[f] # NoColumn => f = g
Snapshots == [id : Nat, asOf : AsOfs, schema : Schemas]
Metadata == [snaps : Seq(Snapshots), schemas : Seq(Schemas)]
Views == [snap : Snapshots, columns : [ColumnNames -> SUBSET Fields]]
Keys == {Key[q] : q \in Queries}
Cells == [snap : Snapshots, field : Fields]
Results == [query : Queries, cells : Seq(Cells) \cup {NotEvaluable}]

ASSUME SnapshotConstants ==
    /\ AsOfs \subseteq Int /\ Dates \subseteq Int
    /\ Window \in Nat
    /\ Fields \subseteq Nat
    /\ FirstSchema \in [Tables -> Schemas]
    /\ \A t \in Tables : NamesAreUnique(FirstSchema[t])
    /\ Terms \in [Queries -> Seq([table : Tables, column : ColumnNames])]
    /\ \A q \in Queries : Len(Terms[q]) \in {1, 2}
    /\ \A p, q \in Queries : Key[p] = Key[q] =>
          \* formulas that share a key differ in the case of letters only
          [i \in DOMAIN Terms[p] |-> Terms[p][i].table] =
          [i \in DOMAIN Terms[q] |-> Terms[q][i].table]
    /\ MaxCommits \in Nat /\ MaxSchemas \in [Tables -> Nat]
    /\ NoColumn \notin ColumnNames
    /\ NotLoaded \notin Metadata
    /\ NotRead \notin Views
    /\ NotEvaluable \notin Seq(Cells)
    /\ {NoSnapshot, Lost, NotRun} \cap Results = {}
    /\ NotRun \notin {NoSnapshot, Lost}
    /\ NoSnapshot # Lost

VARIABLES
    live,       \* the warehouse: the metadata of each table
    commits,    \* snapshots committed so far
    loaded,     \* adapter._tables
    arrow,      \* adapter._arrow_cache, and executor._views with it
    memo,       \* executor._cache
    answers     \* what each query has been answered at each date

warehouse == <<live, commits>>
reader == <<loaded, arrow, memo, answers>>
vars == <<warehouse, reader>>

TypeOK ==
    /\ live \in [Tables -> Metadata]
    /\ commits \in 0..MaxCommits
    /\ loaded \in [Tables -> Metadata \cup {NotLoaded}]
    /\ arrow \in [Tables \X Dates -> Views \cup {NotRead}]
    /\ memo \in [Keys \X Dates -> Results \cup {NotRun}]
    /\ answers \in [Queries \X Dates -> SUBSET (Results \cup {NoSnapshot, Lost})]

-----------------------------------------------------------------------------
(* The adapter's functions of a table's metadata *)

CurrentSchema(meta) == meta.schemas[Len(meta.schemas)]

\* A faulty variant of Normalised: historical names are left as they are.
NormalisedNever(meta, name) == name

\* schema_renames: the name today of the field that some schema called `name'.
\* It goes by the name; of several fields the latest schema's counts.
Normalised(meta, name) ==
    LET today == CurrentSchema(meta)
        renamed(i) == {f \in Fields : /\ meta.schemas[i][f] = name
                                      /\ today[f] \notin {NoColumn, name}}
        stale == {i \in DOMAIN meta.schemas : renamed(i) # {}}
    IN  IF stale = {} THEN name
        ELSE today[CHOOSE f \in renamed(Max(stale)) : TRUE]

\* A faulty variant of Matches: no snapshot after the date, no limit before it.
MatchesEarlier(meta, date) ==
    {i \in DOMAIN meta.snaps : meta.snaps[i].asOf <= date}

\* resolve_snapshot: the positions of the snapshots in the window.
Matches(meta, date) ==
    {i \in DOMAIN meta.snaps :
        /\ meta.snaps[i].asOf - date <= Window
        /\ date - meta.snaps[i].asOf <= Window}

\* The last of them in the order of commits.
Resolve(meta, date) == meta.snaps[Max(Matches(meta, date))]

\* A faulty variant of View: a dropped field's column is kept, without a name.
ViewWithDropped(meta, date) ==
    LET snap == Resolve(meta, date)
    IN  [snap |-> snap,
         columns |-> [name \in ColumnNames \cup {NoColumn} |->
            {f \in Fields : /\ snap.schema[f] # NoColumn
                            /\ CurrentSchema(meta)[f] = name}]]

\* arrow_for: the snapshot under today's names.  Two columns may end up with
\* one name.
View(meta, date) ==
    LET snap == Resolve(meta, date)
    IN  [snap |-> snap,
         columns |-> [name \in ColumnNames |->
            {f \in Fields : /\ snap.schema[f] # NoColumn
                            /\ Normalised(meta, snap.schema[f]) = name}]]

-----------------------------------------------------------------------------
(* The warehouse *)

Init ==
    /\ live = [t \in Tables |-> [snaps |-> <<>>, schemas |-> <<FirstSchema[t]>>]]
    /\ commits = 0
    /\ loaded = [t \in Tables |-> NotLoaded]
    /\ arrow = [k \in Tables \X Dates |-> NotRead]
    /\ memo = [k \in Keys \X Dates |-> NotRun]
    /\ answers = [k \in Queries \X Dates |-> {}]

\* A job commits a snapshot for a business date, possibly a date that has one.
Commit(t, asOf) ==
    /\ commits < MaxCommits
    /\ commits' = commits + 1
    /\ live' = [live EXCEPT ![t].snaps =
          Append(@, [id |-> commits + 1, asOf |-> asOf,
                     schema |-> CurrentSchema(live[t])])]
    /\ UNCHANGED reader

Change(t, schema) ==
    /\ Len(live[t].schemas) < MaxSchemas[t]
    /\ live' = [live EXCEPT ![t].schemas = Append(@, schema)]
    /\ UNCHANGED <<commits, reader>>

\* No field has the name in the current schema.
Free(t, name) == \A f \in Fields : CurrentSchema(live[t])[f] # name

Rename(t, f, name) ==
    /\ CurrentSchema(live[t])[f] # NoColumn
    /\ Free(t, name)
    /\ Change(t, [CurrentSchema(live[t]) EXCEPT ![f] = name])

\* A new column gets a field id no schema of the table has had.
AddColumn(t, f, name) ==
    /\ \A i \in DOMAIN live[t].schemas : live[t].schemas[i][f] = NoColumn
    /\ Free(t, name)
    /\ Change(t, [CurrentSchema(live[t]) EXCEPT ![f] = name])

DropColumn(t, f) ==
    /\ CurrentSchema(live[t])[f] # NoColumn
    /\ Change(t, [CurrentSchema(live[t]) EXCEPT ![f] = NoColumn])

\* Maintenance removes a table's oldest snapshot, keeping the current one.
Expire(t) ==
    /\ Len(live[t].snaps) > 1
    /\ live' = [live EXCEPT ![t].snaps = Tail(@)]
    /\ UNCHANGED <<commits, reader>>

-----------------------------------------------------------------------------
(* The reader *)

\* A faulty variant of Loaded: the metadata is read anew each time.
LoadedAlways(t) == live[t]

\* adapter.load: a table's metadata is read once.
Loaded(t) == IF loaded[t] = NotLoaded THEN live[t] ELSE loaded[t]

LoadedWith(ts) == [t \in Tables |-> IF t \in ts THEN Loaded(t) ELSE loaded[t]]

\* columns, numeric_columns, join_edges and their like only load a table.
Load(t) ==
    /\ loaded[t] = NotLoaded
    /\ loaded' = LoadedWith({t})
    /\ UNCHANGED <<warehouse, arrow, memo, answers>>

\* The snapshot's files are still there.
Present(t, date) ==
    \E i \in DOMAIN live[t].snaps :
        live[t].snaps[i].id = Resolve(Loaded(t), date).id

Viewed(t, date) ==
    IF arrow[<<t, date>>] = NotRead THEN View(Loaded(t), date) ELSE arrow[<<t, date>>]

\* Why arrow_for would raise, if it would.
Trouble(t, date) ==
    IF arrow[<<t, date>>] # NotRead THEN {}
    ELSE IF Matches(Loaded(t), date) = {} THEN {NoSnapshot}
    ELSE IF ~Present(t, date) THEN {Lost}
    ELSE {}

Troubled(q, date) == {j \in DOMAIN Terms[q] : Trouble(Terms[q][j].table, date) # {}}

\* The tables of the terms before position j.
TablesBefore(q, j) == {Terms[q][i].table : i \in 1..(j - 1)}

ArrowWith(ts, date) ==
    [k \in Tables \X Dates |->
        IF k[1] \in ts /\ k[2] = date THEN Viewed(k[1], date) ELSE arrow[k]]

\* distinct_values: a table is scanned at a date without a query, or the scan
\* raises once the table is loaded.
Scan(t, date) ==
    /\ arrow[<<t, date>>] = NotRead
    /\ loaded' = LoadedWith({t})
    /\ arrow' = ArrowWith(IF Trouble(t, date) = {} THEN {t} ELSE {}, date)
    /\ UNCHANGED <<warehouse, memo, answers>>

\* A faulty variant of MemoKey: the key has no date.
MemoKeyUndated(q, date) == <<Key[q], CHOOSE d \in Dates : TRUE>>

MemoKey(q, date) == <<Key[q], date>>

Answer(q, date, a) == answers' = [answers EXCEPT ![<<q, date>>] = @ \cup {a}]

\* evaluate, from the cache.
Recall(q, date) ==
    /\ memo[MemoKey(q, date)] # NotRun
    /\ Answer(q, date, memo[MemoKey(q, date)])
    /\ UNCHANGED <<warehouse, loaded, arrow, memo>>

\* The columns a term finds: none, or several that the view calls the same.
Columns(term, date) == Viewed(term.table, date).columns[term.column]

\* DuckDB binds the first column of a name, and gives the others another name.
Cell(term, date) ==
    [snap |-> Viewed(term.table, date).snap, field |-> Min(Columns(term, date))]

\* evaluate's result, a cell for each term: None as soon as a term has none.
Outcome(q, date) ==
    IF \E j \in DOMAIN Terms[q] : Columns(Terms[q][j], date) = {} THEN NotEvaluable
    ELSE [j \in DOMAIN Terms[q] |-> Cell(Terms[q][j], date)]

\* What evaluate caches and returns.
Result(q, cells) == [query |-> q, cells |-> cells]

\* evaluate, by running the query.
Run(q, date) ==
    /\ memo[MemoKey(q, date)] = NotRun
    /\ Troubled(q, date) = {}
    /\ LET ts == TablesBefore(q, Len(Terms[q]) + 1)
       IN  loaded' = LoadedWith(ts) /\ arrow' = ArrowWith(ts, date)
    /\ memo' = [memo EXCEPT ![MemoKey(q, date)] = Result(q, Outcome(q, date))]
    /\ Answer(q, date, Result(q, Outcome(q, date)))
    /\ UNCHANGED warehouse

\* evaluate raises at its first term that cannot be read; the terms before it
\* stay cached.
Raise(q, date) ==
    /\ memo[MemoKey(q, date)] = NotRun
    /\ Troubled(q, date) # {}
    /\ LET j == Min(Troubled(q, date))
       IN  /\ loaded' = LoadedWith(TablesBefore(q, j + 1))
           /\ arrow' = ArrowWith(TablesBefore(q, j), date)
           /\ \E a \in Trouble(Terms[q][j].table, date) : Answer(q, date, a)
    /\ UNCHANGED <<warehouse, memo>>

WarehouseNext ==
    \E t \in Tables :
        \/ \E asOf \in AsOfs : Commit(t, asOf)
        \/ \E f \in Fields, name \in ColumnNames :
              Rename(t, f, name) \/ AddColumn(t, f, name)
        \/ \E f \in Fields : DropColumn(t, f)
        \/ Expire(t)

ReaderNext ==
    \/ \E t \in Tables : Load(t) \/ \E date \in Dates : Scan(t, date)
    \/ \E q \in Queries, date \in Dates :
          Recall(q, date) \/ Run(q, date) \/ Raise(q, date)

Next == WarehouseNext \/ ReaderNext

Spec == Init /\ [][Next]_vars

-----------------------------------------------------------------------------
(* Correctness *)

\* The results a query was given at a date.
Given(q, date) == answers[<<q, date>>] \cap Results

Reading(result) == result.cells # NotEvaluable

\* No other formula has the query's key.
Alone(q) == \A p \in Queries : Key[p] = Key[q] => p = q

\* Whatever the warehouse does meanwhile, a query that is asked again at a date
\* is answered as before, an exception included: the solver, which tries a
\* candidate against one constraint after the other, judges one state of the
\* warehouse.
AnswersAreStable ==
    \A q \in Queries, date \in Dates : Cardinality(answers[<<q, date>>]) <= 1

\* A value comes from a snapshot within the window of the date, and from the
\* latest such snapshot of the metadata in use: never "silently from the wrong
\* snapshot".
ReadsLatestInWindow ==
    \A q \in Queries, date \in Dates :
        \A result \in Given(q, date) :
            Reading(result) =>
                \A j \in DOMAIN Terms[q] :
                    LET used == result.cells[j].snap
                        meta == loaded[Terms[q][j].table]
                    IN  /\ used.asOf \in (date - Window)..(date + Window)
                        /\ \A i \in DOMAIN meta.snaps :
                              meta.snaps[i].asOf \in (date - Window)..(date + Window)
                                => meta.snaps[i].id <= used.id

\* The field that has the column's name today, if the snapshot in use has it.
TodaysField(term, date) ==
    LET snap == arrow[<<term.table, date>>].snap
    IN  {f \in Fields : /\ CurrentSchema(loaded[term.table])[f] = term.column
                        /\ snap.schema[f] # NoColumn}

\* Every term of the query can be answered from today's fields, and is.
ByTodaysNames(q, date) ==
    \A result \in Given(q, date) :
        (\A j \in DOMAIN Terms[q] : TodaysField(Terms[q][j], date) # {}) =>
            /\ result.query = q
            /\ Reading(result)
            /\ \A j \in DOMAIN Terms[q] :
                  result.cells[j].field \in TodaysField(Terms[q][j], date)

\* No column name of the table has belonged to two fields.
NamesNeverReused(meta) ==
    \A i, k \in DOMAIN meta.schemas : \A f, g \in Fields :
        (/\ meta.schemas[i][f] = meta.schemas[k][g]
         /\ meta.schemas[i][f] # NoColumn) => f = g

\* A query in today's names reads the same fields in an older snapshot, whatever
\* the columns were called then, as long as no name went from one field to
\* another and no other formula shares its key.
TodaysNamesUnlessReused ==
    \A q \in Queries, date \in Dates :
        (/\ Alone(q)
         /\ \A j \in DOMAIN Terms[q] :
              loaded[Terms[q][j].table] # NotLoaded =>
                  NamesNeverReused(loaded[Terms[q][j].table]))
        => ByTodaysNames(q, date)

\* "Historical column names normalized to the current schema (so a query written
\* against today's names reads pre-rename snapshots correctly)", without the
\* condition that no name was reused.
TodaysNames ==
    \A q \in Queries, date \in Dates : Alone(q) => ByTodaysNames(q, date)
=============================================================================
