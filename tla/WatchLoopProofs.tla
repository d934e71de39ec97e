--------------------------- MODULE WatchLoopProofs ---------------------------
(***************************************************************************)
(* Proofs about the watch loop, for every set of statements and metrics,   *)
(* every schema, every answer of the LLM and every length of the log, with *)
(* no bound on what other programs write.                                  *)
(*                                                                         *)
(* The marks of the watcher are set before the run they ask for, so each   *)
(* invariant says what is owed between the two: the statements still to be *)
(* mined (MiningInv), the run still to be paid (RunsInv), the proposal     *)
(* still to be written (ProposalInv).                                      *)
(***************************************************************************)
EXTENDS WatchLoop, DataLemmas

Marked == {"manifest", "decide"}

FilesInv ==
    /\ log \in Seq(SQL) \cup {Away}
    /\ manifest \in {Away} \cup SUBSET DbtMetrics

MiningInv ==
    /\ at \in Marked => seen \cap SQL \subseteq mined \cup missed \cup signals
    /\ at \notin Marked => seen \cap SQL \subseteq mined \cup missed

RunsInv ==
    /\ IsFiniteSet(seen)
    /\ runs \in Nat
    /\ runs <= Cardinality(seen)
    /\ at \in Marked /\ signals # {} => runs < Cardinality(seen)

Checked(item) ==
    \/ item.part \in {"dimension", "entity"}
    \/ item.part = "metric" /\ item.legible

Exists(item, table) == Checked(item) => Known(table, item.columns)

ProposalInv ==
    at \in {"metricflow", "osi"} => \A item \in proposal.items : Exists(item, Head(todo))

OsiInv ==
    /\ DOMAIN osi = Tables
    /\ \A t \in Tables : osi[t] # NoFile => \A item \in osi[t].items : Exists(item, t)

-----------------------------------------------------------------------------

LEMMA NextTableIs == \A rest : NextTable(rest) \in {"sleep", "propose"}
BY DEF NextTable

\* Other programs change the files and nothing else.
LEMMA OthersKeep ==
    ASSUME Others
    PROVE  UNCHANGED <<at, seen, signals, reading, todo, proposal, filed, metricflow,
                       osi, runs, mined, missed>>
BY DEF Others, Logged, Complete, Rotate, Compile, Write, polling, run, artifacts

\* The loop does not write the files it watches.
LEMMA LoopKeeps == ASSUME Loop \/ Restart PROVE log' = log /\ manifest' = manifest
BY DEF Loop, Restart, PollQueryLog, PollManifest, Quiet, Mine, Propose, EmitMetricFlow,
       EmitOsi, Fail, Wake, files

LEMMA FilesStep == FilesInv /\ [Next]_vars => FilesInv'
<1> SUFFICES ASSUME FilesInv, [Next]_vars PROVE FilesInv'
  OBVIOUS
<1>1. CASE Loop \/ Restart \/ UNCHANGED vars
  BY <1>1, LoopKeeps DEF FilesInv, vars
<1>2. ASSUME NEW sql \in SQL, Logged(sql) PROVE FilesInv'
  <2>1. log \in Seq(SQL) /\ log' = Append(log, sql) /\ manifest' = manifest
    BY <1>2 DEF Logged, FilesInv
  <2> QED
    BY <2>1, AppendProperties DEF FilesInv
<1>3. ASSUME NEW sql \in SQL, Complete(sql) PROVE FilesInv'
  <2>1. /\ log \in Seq(SQL) /\ log # <<>> /\ manifest' = manifest
        /\ log' = [log EXCEPT ![Len(log)] = sql]
    BY <1>3 DEF Complete, FilesInv
  <2>2. Len(log) \in 1..Len(log)
    BY <2>1, EmptySeq
  <2> QED
    BY <2>1, <2>2, ExceptSeq DEF FilesInv
<1>4. ASSUME NEW fresh \in {<<>>, Away}, Rotate(fresh) PROVE FilesInv'
  BY <1>4, EmptySeq DEF Rotate, FilesInv
<1>5. ASSUME NEW metrics \in {Away} \cup SUBSET DbtMetrics, Compile(metrics) PROVE FilesInv'
  BY <1>5 DEF Compile, FilesInv
<1> QED
  BY <1>1, <1>2, <1>3, <1>4, <1>5 DEF Next, Others

-----------------------------------------------------------------------------

LEMMA MiningStep == MiningInv /\ [Next]_vars => MiningInv'
<1> SUFFICES ASSUME MiningInv, [Next]_vars PROVE MiningInv'
  OBVIOUS
<1> USE DEF Marked, MiningInv
<1>1. CASE PollQueryLog
  BY <1>1 DEF PollQueryLog, run
<1>2. CASE PollManifest
  BY <1>2 DEF PollManifest, NewSignals, SeenAfter, run
<1>3. CASE Quiet
  BY <1>3 DEF Quiet, polling, run
<1>4. ASSUME NEW more \in Unwatched, Mine(more.answered, more.cells) PROVE MiningInv'
  <2>1. /\ at = "decide" /\ seen' = seen
        /\ mined' = mined \cup Heads(log)
        /\ missed' = missed \cup ((signals \cap SQL) \ Heads(log))
        /\ at' \in {"sleep", "propose"}
    BY <1>4, NextTableIs DEF Mine, polling
  <2> QED
    BY <2>1
<1>5. CASE \/ \E answer \in Answers : Propose(answer)
          \/ \E accepted \in {proposal} \cup Answers : EmitMetricFlow(accepted)
          \/ EmitOsi
  BY <1>5, NextTableIs DEF Propose, EmitMetricFlow, EmitOsi, polling, run
<1>6. CASE Fail
  BY <1>6 DEF Fail
<1>7. CASE Wake
  BY <1>7 DEF Wake, run
<1>8. CASE Restart
  <2>1. at = "stopped" /\ at' = "query_log" /\ seen' = seen /\ mined' = mined /\ missed' = missed
    BY <1>8 DEF Restart, polling, run
  <2> QED
    BY <2>1
<1>9. CASE Others \/ UNCHANGED vars
  BY <1>9, OthersKeep DEF vars
<1> HIDE DEF Marked, MiningInv
<1> QED
  BY <1>1, <1>2, <1>3, <1>4, <1>5, <1>6, <1>7, <1>8, <1>9 DEF Next, Loop

\* A statement marked as seen was mined, or was gone from the log when its run read
\* it, however long the log, whoever writes it and whenever (watcher.py:72-79).
THEOREM SeenSignalsAreMinedHolds == Spec => []SeenSignalsAreMined
<1>1. Init => MiningInv
  BY DEF Init, MiningInv, Marked
<1>2. MiningInv /\ [Next]_vars => MiningInv'
  BY MiningStep
<1>3. MiningInv => SeenSignalsAreMined
  BY DEF MiningInv, SeenSignalsAreMined, Marked
<1> QED
  BY <1>1, <1>2, <1>3, PTL DEF Spec

-----------------------------------------------------------------------------

\* A poll finds finitely many queries and statements.
LEMMA HeadsFinite ==
    ASSUME NEW statements \in Seq(SQL)
    PROVE  IsFiniteSet(Queries(statements)) /\ IsFiniteSet(Heads(statements))
<1> DEFINE D == DOMAIN statements
           f == [i \in D |-> Shape(statements[i])]
           All == {Shape(statements[i]) : i \in D}
           Of(shape) == {i \in DOMAIN statements : Shape(statements[i]) = shape}
           Query(shape) == [sql |-> statements[Min(Of(shape))], executions |-> Cardinality(Of(shape))]
           query == [shape \in Shapes(statements) |-> Query(shape)]
           head == [q \in Queries(statements) |-> q.sql]
<1>1. IsFiniteSet(D)
  BY LenProperties, FS_Interval
<1>2. f \in Surjection(D, All)
  BY DEF Surjection
<1>3. IsFiniteSet(Shapes(statements))
  BY <1>1, <1>2, FS_Surjection, FS_Subset DEF Shapes
<1>4. Queries(statements) = {Query(shape) : shape \in Shapes(statements)}
  BY Zenon DEF Queries
<1> HIDE DEF Query
<1>5. query \in Surjection(Shapes(statements), Queries(statements))
  BY <1>4 DEF Surjection
<1>6. IsFiniteSet(Queries(statements))
  BY <1>3, <1>5, FS_Surjection
<1>7. head \in Surjection(Queries(statements), Heads(statements))
  BY DEF Heads, Surjection
<1> QED
  BY <1>6, <1>7, FS_Surjection

LEMMA PolledFinite == ASSUME FilesInv PROVE IsFiniteSet(Polled)
BY HeadsFinite, FS_EmptySet DEF FilesInv, Polled

\* Marking what is new makes the marks grow, exactly when something is new.
LEMMA MarksGrow ==
    ASSUME NEW S, IsFiniteSet(S), NEW T, IsFiniteSet(T)
    PROVE  /\ IsFiniteSet(S \cup (T \ S))
           /\ Cardinality(S) \in Nat /\ Cardinality(S \cup (T \ S)) \in Nat
           /\ Cardinality(S) <= Cardinality(S \cup (T \ S))
           /\ T \ S # {} => Cardinality(S) < Cardinality(S \cup (T \ S))
<1>1. IsFiniteSet(T \ S)
  BY FS_Difference
<1>2. IsFiniteSet(S \cup (T \ S))
  BY <1>1, FS_Union
<1>3. S \subseteq S \cup (T \ S) /\ (T \ S # {} => S # S \cup (T \ S))
  OBVIOUS
<1>4. /\ Cardinality(S) <= Cardinality(S \cup (T \ S))
      /\ T \ S # {} => Cardinality(S) # Cardinality(S \cup (T \ S))
  BY <1>2, <1>3, FS_Subset
<1> QED
  BY <1>2, <1>4, FS_CardinalityType

LEMMA RunsStep == FilesInv /\ RunsInv /\ [Next]_vars => RunsInv'
<1> SUFFICES ASSUME FilesInv, RunsInv, [Next]_vars PROVE RunsInv'
  OBVIOUS
<1>1. Cardinality(seen) \in Nat
  BY FS_CardinalityType DEF RunsInv
<1> USE DEF Marked, RunsInv
<1>2. CASE PollQueryLog
  <2>1. /\ signals' = Polled \ seen /\ seen' = seen \cup (Polled \ seen)
        /\ runs' = runs
    BY <1>2 DEF PollQueryLog, run
  <2> QED
    BY <1>1, <2>1, PolledFinite, MarksGrow
<1>3. CASE PollManifest
  <2> DEFINE metrics == IF manifest = Away THEN {} ELSE manifest
  <2>1. /\ signals' = signals \cup (metrics \ seen)
        /\ seen' = seen \cup (metrics \ seen)
        /\ runs' = runs /\ at = "manifest"
    BY <1>3 DEF PollManifest, NewSignals, SeenAfter, run
  <2>2. IsFiniteSet(metrics)
    BY FilesAssumption, FS_Subset, FS_EmptySet DEF FilesInv
  <2> HIDE DEF metrics
  <2> QED
    BY <1>1, <2>1, <2>2, MarksGrow
<1>4. CASE Quiet \/ EmitOsi
  BY <1>4, NextTableIs DEF Quiet, EmitOsi, polling, run
<1>5. ASSUME NEW answer \in Answers, Propose(answer) PROVE RunsInv'
  BY <1>5 DEF Propose, polling
<1>6. ASSUME NEW accepted \in {proposal} \cup Answers, EmitMetricFlow(accepted)
      PROVE  RunsInv'
  BY <1>6 DEF EmitMetricFlow, polling
<1>7. ASSUME NEW more \in Unwatched, Mine(more.answered, more.cells) PROVE RunsInv'
  <2>1. /\ at = "decide" /\ signals # {} /\ seen' = seen /\ runs' = runs + 1
        /\ at' \in {"sleep", "propose"}
    BY <1>7, NextTableIs DEF Mine, polling
  <2> QED
    BY <1>1, <2>1
<1>8. CASE Restart \/ Wake
  BY <1>8 DEF Restart, Wake, polling, run
<1>9. CASE Fail
  BY <1>9, FS_EmptySet DEF Fail
<1>10. CASE Others \/ UNCHANGED vars
  BY <1>10, OthersKeep DEF vars
<1> HIDE DEF Marked, RunsInv
<1> QED
  BY <1>2, <1>3, <1>4, <1>5, <1>6, <1>7, <1>8, <1>9, <1>10 DEF Next, Loop

\* The pipeline never runs without something new to it, and never twice for the same
\* news, whatever the other programs write (watcher.py:70-79, 91-99; cli.py:439-444).
THEOREM RunsAreEarnedHolds == Spec => []RunsAreEarned
<1>1. Init => FilesInv /\ RunsInv
  BY FilesAssumption, FS_EmptySet DEF Init, FilesInv, RunsInv, Marked
<1>2. FilesInv /\ [Next]_vars => FilesInv'
  BY FilesStep
<1>3. FilesInv /\ RunsInv /\ [Next]_vars => RunsInv'
  BY RunsStep
<1>4. RunsInv => RunsAreEarned
  BY DEF RunsInv, RunsAreEarned
<1> QED
  BY <1>1, <1>2, <1>3, <1>4, PTL DEF Spec

-----------------------------------------------------------------------------

LEMMA ProposalStep == ProposalInv /\ OsiInv /\ [Next]_vars => ProposalInv' /\ OsiInv'
<1> SUFFICES ASSUME ProposalInv, OsiInv, [Next]_vars PROVE ProposalInv' /\ OsiInv'
  OBVIOUS
<1>1. ASSUME NEW answer \in Answers, Propose(answer) PROVE ProposalInv' /\ OsiInv'
  <2>1. \A item \in Pruned(Head(todo), answer.items) : Exists(item, Head(todo))
    BY DEF Pruned, Referenced, Checked, Exists
  <2>2. /\ proposal'.items = Pruned(Head(todo), answer.items)
        /\ todo' = todo /\ osi' = osi
    BY <1>1 DEF Propose, artifacts
  <2> QED
    BY <2>1, <2>2 DEF ProposalInv, OsiInv
<1>2. ASSUME NEW accepted \in {proposal} \cup Answers, EmitMetricFlow(accepted)
      PROVE  ProposalInv' /\ OsiInv'
  BY <1>2 DEF EmitMetricFlow, ProposalInv, OsiInv
<1>3. CASE EmitOsi
  <2>1. at' \in {"sleep", "propose"}
    BY <1>3, NextTableIs DEF EmitOsi
  <2>2. /\ osi' = [osi EXCEPT ![Head(todo)] = [from |-> WrittenFrom, items |-> proposal.items]]
        /\ \A item \in proposal.items : Exists(item, Head(todo))
    BY <1>3 DEF EmitOsi, ProposalInv
  <2> QED
    BY <2>1, <2>2 DEF ProposalInv, OsiInv
<1>4. ASSUME NEW more \in Unwatched, Mine(more.answered, more.cells)
      PROVE  ProposalInv' /\ OsiInv'
  BY <1>4, NextTableIs DEF Mine, artifacts, ProposalInv, OsiInv
<1>5. CASE PollQueryLog \/ PollManifest \/ Quiet \/ Fail \/ Wake \/ Restart
  BY <1>5 DEF PollQueryLog, PollManifest, Quiet, Fail, Wake, Restart, run, artifacts,
              ProposalInv, OsiInv
<1>6. CASE Others \/ UNCHANGED vars
  BY <1>6, OthersKeep DEF vars, ProposalInv, OsiInv
<1> QED
  BY <1>1, <1>2, <1>3, <1>4, <1>5, <1>6 DEF Next, Loop

\* No answer of the LLM, to a proposal or to a repair, brings a dimension, an entity or a
\* metric that parses into an OSI file with a column that its table does not have, over
\* any number of runs and tables (llm.py:146-210; cli.py:387-405).
THEOREM CheckedItemsExistHolds == Spec => []CheckedItemsExist
<1>1. Init => ProposalInv /\ OsiInv
  BY DEF Init, Unfiled, ProposalInv, OsiInv
<1>2. ProposalInv /\ OsiInv /\ [Next]_vars => ProposalInv' /\ OsiInv'
  BY ProposalStep
<1>3. OsiInv => CheckedItemsExist
  BY DEF OsiInv, CheckedItemsExist, Exists, Checked
<1> QED
  BY <1>1, <1>2, <1>3, PTL DEF Spec
-----------------------------------------------------------------------------

\* The first statement of a shape is a statement of the log.
LEMMA HeadsAreStatements ==
    ASSUME NEW statements \in Seq(SQL), NEW sql \in Heads(statements)
    PROVE  sql \in SQL
<1> DEFINE Of(shape) == {i \in DOMAIN statements : Shape(statements[i]) = shape}
           Query(shape) == [sql |-> statements[Min(Of(shape))], executions |-> Cardinality(Of(shape))]
<1>0. Queries(statements) = {Query(shape) : shape \in Shapes(statements)}
  BY Zenon DEF Queries
<1>1. PICK shape \in Shapes(statements) : sql = statements[Min(Of(shape))]
  <2>1. PICK query \in Queries(statements) : sql = query.sql
    BY DEF Heads
  <2>2. \A shape : Query(shape).sql = statements[Min(Of(shape))]
    OBVIOUS
  <2> HIDE DEF Query, Of
  <2>3. PICK shape \in Shapes(statements) : query = Query(shape)
    BY <1>0
  <2> QED
    BY <2>1, <2>2, <2>3
<1>2. DOMAIN statements = 1..Len(statements) /\ Len(statements) \in Nat
  BY LenProperties
<1>3. Of(shape) \in SUBSET Nat /\ Of(shape) # {}
  BY <1>2 DEF Shapes
<1>4. Min(Of(shape)) \in Of(shape)
  BY <1>3, LeastNumber DEF Min
<1> QED
  BY <1>1, <1>2, <1>4, ElementOfSeq

LEMMA BundledAreTables ==
    ASSUME NEW reading0
    PROVE  BundledTables(reading0) \in Seq(Tables)
BY TablesAssumption, KeptPositions DEF BundledTables

\* What a run starts from.
LEMMA NothingTypes ==
    /\ NoProposal \in [dataset : Datasets \cup {NoFile}, items : SUBSET Items]
    /\ Unfiled \in [Tables -> Datasets \cup {NoFile}]
    /\ Unfiled \in [Tables -> [from : Readings, items : SUBSET Items] \cup {NoFile}]
BY DEF NoProposal, Unfiled

LEMMA TypesStep == TypeOK /\ [Next]_vars => TypeOK'
<1> SUFFICES ASSUME TypeOK, [Next]_vars PROVE TypeOK'
  OBVIOUS
<1> USE DEF TypeOK
<1>0. FilesInv
  BY DEF FilesInv
<1>1. CASE PollQueryLog
  <2>1. Polled \subseteq SQL
    BY HeadsAreStatements DEF Polled
  <2> QED
    BY <1>1, <2>1 DEF PollQueryLog, files, run, artifacts
<1>2. CASE PollManifest
  BY <1>2 DEF PollManifest, NewSignals, SeenAfter, files, run, artifacts
<1>3. CASE Quiet \/ Wake \/ Restart
  BY <1>3 DEF Quiet, Wake, Restart, files, polling, run, artifacts
<1>4. ASSUME NEW more \in Unwatched, Mine(more.answered, more.cells) PROVE TypeOK'
  <2>1. log \in Seq(SQL) /\ Heads(log) \subseteq SQL
    BY <1>4, HeadsAreStatements DEF Mine
  <2>2. /\ reading' = [log |-> log, answered |-> more.answered, cells |-> more.cells]
        /\ todo' = BundledTables(reading') /\ at' = NextTable(todo')
        /\ runs' = runs + 1 /\ mined' = mined \cup Heads(log)
        /\ missed' \subseteq missed \cup SQL
        /\ proposal' = NoProposal /\ filed' = Unfiled
        /\ UNCHANGED <<log, manifest, writes, seen, signals, metricflow, osi>>
    BY <1>4 DEF Mine, files, polling, artifacts
  <2>3. reading' \in Readings
    BY <2>1, <2>2, FilesAssumption DEF Readings
  <2>4. todo' \in Seq(Tables)
    BY <2>2, BundledAreTables
  <2>5. at' \in {"sleep", "propose"} /\ (at' = "propose" => todo' # <<>>)
    BY <2>2 DEF NextTable
  <2> QED
    BY <2>1, <2>2, <2>3, <2>4, <2>5, NothingTypes
<1>5. ASSUME NEW answer \in Answers, Propose(answer) PROVE TypeOK'
  <2>1. answer.dataset \in Datasets /\ answer.items \subseteq Items
    BY DEF Datasets, Items
  <2>2. Pruned(Head(todo), answer.items) \subseteq Items
    BY <2>1 DEF Pruned
  <2> QED
    BY <1>5, <2>1, <2>2 DEF Propose, files, polling, artifacts
<1>6. ASSUME NEW accepted \in {proposal} \cup Answers, EmitMetricFlow(accepted)
      PROVE  TypeOK'
  <2>1. /\ at = "metricflow" /\ at' = "osi"
        /\ metricflow' = [metricflow EXCEPT ![accepted.dataset] =
                             [table |-> Head(todo), from |-> reading]]
        /\ filed' = [filed EXCEPT ![Head(todo)] = accepted.dataset]
        /\ UNCHANGED <<log, manifest, writes, seen, signals, reading, todo, proposal, runs,
                       mined, missed, osi>>
    BY <1>6 DEF EmitMetricFlow, WrittenFrom, files, polling
  <2>2. accepted.dataset \in Datasets
    BY <2>1 DEF Datasets
  <2>3. Head(todo) \in Tables
    BY <2>1, HeadTailProperties
  <2>4. [table |-> Head(todo), from |-> reading] \in [table : Tables, from : Readings]
    BY <2>3
  <2> QED
    BY <2>1, <2>2, <2>3, <2>4
<1>7. CASE EmitOsi
  <2>1. /\ osi' = [osi EXCEPT ![Head(todo)] = [from |-> reading, items |-> proposal.items]]
        /\ todo' = Tail(todo) /\ at' = NextTable(todo') /\ at = "osi"
        /\ UNCHANGED <<log, manifest, writes, seen, signals, reading, filed, runs,
                       mined, missed, metricflow>>
        /\ proposal' = NoProposal
    BY <1>7 DEF EmitOsi, WrittenFrom, files, polling
  <2>2. Head(todo) \in Tables /\ todo' \in Seq(Tables)
    BY <2>1, HeadTailProperties
  <2>3. at' \in {"sleep", "propose"} /\ (at' = "propose" => todo' # <<>>)
    BY <2>1 DEF NextTable
  <2>4. [from |-> reading, items |-> proposal.items] \in [from : Readings, items : SUBSET Items]
    OBVIOUS
  <2> QED
    BY <2>1, <2>2, <2>3, <2>4, NothingTypes
<1>8. CASE Fail
  <2>1. NoReading \in Readings
    BY EmptySeq DEF NoReading, Readings
  <2> QED
    BY <1>8, <2>1, EmptySeq, NothingTypes DEF Fail, files, artifacts
<1>9. CASE Others
  <2>1. FilesInv'
    BY <1>0, <1>9, FilesStep DEF Next
  <2>2. writes' \in 0..MaxWrites
    BY <1>9, FilesAssumption DEF Others, Logged, Complete, Rotate, Compile, Write
  <2> QED
    BY <1>9, <2>1, <2>2, OthersKeep DEF FilesInv
<1>10. CASE UNCHANGED vars
  BY <1>10 DEF vars
<1> QED
  BY <1>1, <1>2, <1>3, <1>4, <1>5, <1>6, <1>7, <1>8, <1>9, <1>10 DEF Next, Loop

\* The loop keeps its types: what it marks and mines are statements of the log, what a
\* run takes are tables of the schema, and it never takes one from an empty list
\* (watcher.py:70-99; cli.py:375-406).
THEOREM TypeCorrect == Spec => []TypeOK
<1>1. Init => TypeOK
  <2>1. NoReading \in Readings
    BY EmptySeq DEF NoReading, Readings
  <2> QED
    BY <2>1, FilesAssumption, EmptySeq, NothingTypes DEF Init, TypeOK
<1>2. TypeOK /\ [Next]_vars => TypeOK'
  BY TypesStep
<1> QED
  BY <1>1, <1>2, PTL DEF Spec

-----------------------------------------------------------------------------

\* The MetricFlow file written for a table, or the one that replaced it, comes from the
\* current reading; and so does the OSI file.
Filed(t) ==
    /\ filed[t] \in Datasets
    /\ metricflow[filed[t]] # NoFile
    /\ metricflow[filed[t]].from = reading
    /\ filed[metricflow[filed[t]].table] = filed[t]

Shared(t) == Filed(t) /\ osi[t] # NoFile /\ osi[t].from = reading

\* A table of the run is still to be taken or has its two files; the table being taken
\* has the first of them once the loop is about to write the second.  The run takes no
\* table twice: a table whose file it replaces stays filed under that name.
SharedInv ==
    /\ at \notin {"propose", "metricflow", "osi"} => todo = <<>>
    /\ at \in {"propose", "metricflow", "osi"} => runs > 0
    /\ runs > 0 => \A t \in ToSet(BundledTables(reading)) : t \in ToSet(todo) \/ Shared(t)
    /\ at \in {"propose", "metricflow", "osi"} => IsInjective(todo)
    /\ at \in {"propose", "metricflow"} => \A t \in ToSet(todo) : filed[t] = NoFile
    /\ at = "osi" => /\ Filed(Head(todo))
                     /\ \A t \in ToSet(Tail(todo)) : filed[t] = NoFile

\* The list without its first table, position by position.
LEMMA TailAt ==
    ASSUME NEW T, NEW s \in Seq(T), s # <<>>
    PROVE  /\ DOMAIN s = 1..Len(s) /\ DOMAIN Tail(s) = 1..(Len(s) - 1)
           /\ Len(s) \in Nat \ {0} /\ Head(s) = s[1]
           /\ \A i \in 2..Len(s) : Tail(s)[i - 1] = s[i]
<1>1. Len(s) \in Nat \ {0} /\ Tail(s) \in Seq(T) /\ Len(Tail(s)) = Len(s) - 1 /\ Head(s) = s[1]
  BY LenProperties, HeadTailProperties, EmptySeq
<1>2. DOMAIN s = 1..Len(s) /\ DOMAIN Tail(s) = 1..Len(Tail(s))
  BY <1>1, LenProperties
<1>3. ASSUME NEW i \in 2..Len(s) PROVE Tail(s)[i - 1] = s[i]
  <2>1. Tail(s) = SubSeq(s, 2, Len(s))
    BY TailIsSubSeq
  <2>2. i - 1 \in 1..(Len(s) - 2 + 1) /\ 2 + (i - 1) - 1 = i
    BY <1>1
  <2>3. \A j \in 1..(Len(s) - 2 + 1) : SubSeq(s, 2, Len(s))[j] = s[2 + j - 1]
    <3>1. 2 \in Int /\ Len(s) \in Int /\ \A j \in 2..Len(s) : s[j] \in T
      BY <1>1, ElementOfSeq
    <3> QED
      BY <3>1, SubSeqProperties
  <2> QED
    BY <2>1, <2>2, <2>3
<1> QED
  BY <1>1, <1>2, <1>3

\* What is left when the first table has been taken.
LEMMA RestOfList ==
    ASSUME NEW T, NEW s \in Seq(T), s # <<>>, NEW t \in ToSet(s), t # Head(s)
    PROVE  t \in ToSet(Tail(s))
<1>1. PICK i \in 1..Len(s) : t = s[i]
  BY TailAt DEF ToSet
<1>2. i \in 2..Len(s) /\ i - 1 \in DOMAIN Tail(s)
  BY <1>1, TailAt
<1>3. Tail(s)[i - 1] = t
  BY <1>1, <1>2, TailAt
<1> QED
  BY <1>2, <1>3 DEF ToSet

\* Of a list without repetitions, the tables left are others than the first.
LEMMA TailOnce ==
    ASSUME NEW T, NEW s \in Seq(T), s # <<>>, IsInjective(s)
    PROVE  /\ IsInjective(Tail(s))
           /\ Head(s) \in ToSet(s)
           /\ ToSet(Tail(s)) \subseteq ToSet(s)
           /\ Head(s) \notin ToSet(Tail(s))
<1>1. \A i \in DOMAIN Tail(s) : i + 1 \in 2..Len(s) /\ Tail(s)[i] = s[i + 1]
  <2>1. \A i \in DOMAIN Tail(s) : i + 1 \in 2..Len(s) /\ (i + 1) - 1 = i
    BY TailAt
  <2> QED
    BY <2>1, TailAt
<1>2. \A i, j \in DOMAIN s : s[i] = s[j] => i = j
  BY DEF IsInjective
<1>3. IsInjective(Tail(s))
  <2> SUFFICES ASSUME NEW i \in DOMAIN Tail(s), NEW j \in DOMAIN Tail(s), Tail(s)[i] = Tail(s)[j]
               PROVE  i = j
    BY DEF IsInjective
  <2>1. i + 1 \in DOMAIN s /\ j + 1 \in DOMAIN s /\ s[i + 1] = s[j + 1]
    BY <1>1, TailAt
  <2> QED
    BY <1>2, <2>1, TailAt
<1>4. Head(s) \in ToSet(s)
  BY TailAt DEF ToSet
<1>5. ToSet(Tail(s)) \subseteq ToSet(s) /\ Head(s) \notin ToSet(Tail(s))
  <2> SUFFICES ASSUME NEW i \in DOMAIN Tail(s)
               PROVE  Tail(s)[i] \in ToSet(s) /\ Tail(s)[i] # Head(s)
    BY DEF ToSet
  <2>1. i + 1 \in DOMAIN s /\ i + 1 # 1 /\ 1 \in DOMAIN s
    BY <1>1, TailAt
  <2> QED
    BY <1>1, <1>2, <2>1, TailAt DEF ToSet
<1> QED
  BY <1>3, <1>4, <1>5

\* A run takes no table twice.
LEMMA BundledOnce ==
    ASSUME NEW reading0
    PROVE  /\ IsInjective(BundledTables(reading0))
           /\ ToSet(BundledTables(reading0)) \subseteq Tables
<1> DEFINE kept == {i \in DOMAIN TableOrder : Candidates(TableOrder[i], reading0) # {}}
           out == BundledTables(reading0)
<1>1. out = Kept(TableOrder, kept) /\ out \in Seq(Tables)
  BY BundledAreTables DEF BundledTables
<1> HIDE DEF out, kept
<1>2. PICK pos : KeptAt(TableOrder, kept, out, pos)
  BY <1>1, TablesAssumption, KeptPositions
<1>3. /\ DOMAIN out = 1..Len(out) /\ Len(out) \in Nat
      /\ DOMAIN TableOrder = 1..Len(TableOrder) /\ Len(TableOrder) \in Nat
  BY <1>1, TablesAssumption, LenProperties
<1>4. ASSUME NEW i \in DOMAIN out, NEW j \in DOMAIN out, out[i] = out[j] PROVE i = j
  <2>1. /\ pos[i] \in DOMAIN TableOrder /\ pos[j] \in DOMAIN TableOrder
        /\ out[i] = TableOrder[pos[i]] /\ out[j] = TableOrder[pos[j]]
    BY <1>2, <1>3 DEF KeptAt
  <2>2. pos[i] = pos[j] /\ pos[i] \in Nat
    <3>1. \A a, b \in DOMAIN TableOrder : TableOrder[a] = TableOrder[b] => a = b
      BY TablesAssumption DEF IsInjective
    <3>2. pos[i] = pos[j]
      BY <1>4, <2>1, <3>1
    <3>3. pos[i] \in Nat
      BY <1>3, <2>1
    <3> QED
      BY <3>2, <3>3
  <2>3. (i < j => pos[i] < pos[j]) /\ (j < i => pos[j] < pos[i])
    BY <1>2, <1>3 DEF KeptAt
  <2> QED
    BY <1>3, <2>2, <2>3
<1>5. ToSet(out) \subseteq Tables
  BY <1>1, ElementOfSeq, <1>3 DEF ToSet
<1> QED
  BY <1>4, <1>5 DEF IsInjective, out

LEMMA SharedStep == TypeOK /\ SharedInv /\ [Next]_vars => SharedInv'
<1> SUFFICES ASSUME TypeOK, SharedInv, [Next]_vars PROVE SharedInv'
  OBVIOUS
<1>0. ASSUME UNCHANGED <<reading, runs, todo, filed, metricflow, osi>>
      PROVE  /\ runs' > 0 =>
                  \A t \in ToSet(BundledTables(reading')) : t \in ToSet(todo') \/ Shared(t)'
             /\ Filed(Head(todo))' = Filed(Head(todo))
  <2>1. \A t : Shared(t)' = Shared(t) /\ Filed(t)' = Filed(t)
    BY <1>0 DEF Shared, Filed
  <2> QED
    BY <1>0, <2>1 DEF SharedInv
<1>1. CASE PollQueryLog \/ PollManifest \/ Quiet \/ Wake \/ Restart
  BY <1>0, <1>1 DEF PollQueryLog, PollManifest, Quiet, Wake, Restart, run, artifacts, SharedInv
<1>2. ASSUME NEW more \in Unwatched, Mine(more.answered, more.cells) PROVE SharedInv'
  <2>1. /\ todo' = BundledTables(reading') /\ at' = NextTable(todo') /\ runs' = runs + 1
        /\ runs \in Nat /\ filed' = Unfiled
    BY <1>2 DEF Mine, TypeOK
  <2>2. (at' = "sleep" /\ todo' = <<>>) \/ at' = "propose"
    BY <2>1 DEF NextTable
  <2>3. IsInjective(todo') /\ \A t \in ToSet(todo') : filed'[t] = NoFile
    BY <2>1, BundledOnce DEF Unfiled
  <2> QED
    BY <2>1, <2>2, <2>3 DEF SharedInv
<1>3. ASSUME NEW answer \in Answers, Propose(answer) PROVE SharedInv'
  BY <1>0, <1>3 DEF Propose, artifacts, SharedInv
<1>4. ASSUME NEW accepted \in {proposal} \cup Answers, EmitMetricFlow(accepted)
      PROVE  SharedInv'
  <2> DEFINE table == Head(todo)
             file == [table |-> table, from |-> reading]
  <2>1. /\ metricflow' = [metricflow EXCEPT ![accepted.dataset] = file]
        /\ filed' = [filed EXCEPT ![table] = accepted.dataset]
        /\ at = "metricflow" /\ at' = "osi"
        /\ UNCHANGED <<reading, todo, runs, osi>>
    BY <1>4 DEF EmitMetricFlow, WrittenFrom
  <2>2. /\ todo \in Seq(Tables) /\ todo # <<>> /\ reading \in Readings
        /\ DOMAIN metricflow = Datasets /\ DOMAIN filed = Tables
        /\ accepted.dataset \in Datasets
    BY <2>1 DEF TypeOK, Datasets
  <2>3. /\ table \in Tables /\ table \in ToSet(todo) /\ ToSet(Tail(todo)) \subseteq ToSet(todo)
        /\ IsInjective(todo) /\ table \notin ToSet(Tail(todo))
        /\ \A t \in ToSet(todo) : filed[t] = NoFile
    BY <2>1, <2>2, HeadTailProperties, TailOnce DEF SharedInv
  <2>4. file \in [table : Tables, from : Readings]
    BY <2>2, <2>3
  <2>5. file # NoFile /\ NoFile \notin Datasets
    BY <2>4, FilesAssumption
  <2>6. file.table = table /\ file.from = reading /\ table' = table
    BY <2>1
  <2> HIDE DEF file, table
  <2>7. Filed(table)'
    BY <2>1, <2>2, <2>3, <2>5, <2>6 DEF Filed
  <2>8. \A t : Filed(t) => Filed(t)'
    <3> SUFFICES ASSUME NEW t, Filed(t) PROVE Filed(t)'
      OBVIOUS
    <3>1. filed[t] \in Datasets /\ t # table /\ filed'[t] = filed[t]
      BY <2>1, <2>2, <2>3, <2>5 DEF Filed
    <3>2. CASE filed[t] = accepted.dataset
      BY <2>1, <2>2, <2>3, <2>5, <2>6, <3>1, <3>2 DEF Filed
    <3>3. CASE filed[t] # accepted.dataset
      <4>1. metricflow'[filed[t]] = metricflow[filed[t]]
        BY <2>1, <2>2, <3>1, <3>3
      <4>2. metricflow[filed[t]].table # table
        BY <2>3, <2>5, <3>1 DEF Filed
      <4>3. filed'[metricflow[filed[t]].table] = filed[metricflow[filed[t]].table]
        BY <2>1, <4>2
      <4> QED
        BY <2>1, <3>1, <4>1, <4>3 DEF Filed
    <3> QED
      BY <3>2, <3>3
  <2>9. \A t : Shared(t) => Shared(t)'
    BY <2>1, <2>8 DEF Shared
  <2>10. \A t \in ToSet(Tail(todo)) : filed'[t] = NoFile
    BY <2>1, <2>3
  <2> QED
    BY <2>1, <2>3, <2>7, <2>9, <2>10 DEF SharedInv, table
<1>5. CASE EmitOsi
  <2>1. /\ osi' = [osi EXCEPT ![Head(todo)] = [from |-> reading, items |-> proposal.items]]
        /\ todo' = Tail(todo) /\ at' = NextTable(todo') /\ at = "osi"
        /\ UNCHANGED <<reading, runs, filed, metricflow>>
    BY <1>5 DEF EmitOsi, WrittenFrom
  <2>2. /\ todo \in Seq(Tables) /\ todo # <<>> /\ DOMAIN osi = Tables
        /\ Head(todo) \in Tables
    BY <2>1, HeadTailProperties DEF TypeOK
  <2>3. [from |-> reading, items |-> proposal.items] # NoFile
    <3>1. [from |-> reading, items |-> proposal.items] \in [from : Readings, items : SUBSET Items]
      BY DEF TypeOK
    <3> QED
      BY <3>1, FilesAssumption
  <2>4. \A t : Filed(t)' = Filed(t)
    BY <2>1 DEF Filed
  <2>5. \A t : t = Head(todo) => Shared(t)'
    BY <2>1, <2>2, <2>3, <2>4 DEF Shared, SharedInv
  <2>6. \A t : Shared(t) => Shared(t)'
    BY <2>1, <2>2, <2>3, <2>4 DEF Shared
  <2>7. \A t \in ToSet(todo) : t = Head(todo) \/ t \in ToSet(todo')
    BY <2>1, <2>2, RestOfList
  <2>8. (at' = "sleep" /\ todo' = <<>>) \/ at' = "propose"
    BY <2>1 DEF NextTable
  <2>9. IsInjective(todo') /\ \A t \in ToSet(todo') : filed'[t] = NoFile
    BY <2>1, <2>2, TailOnce DEF SharedInv
  <2> QED
    BY <2>1, <2>5, <2>6, <2>7, <2>8, <2>9 DEF SharedInv
<1>6. CASE Fail
  BY <1>6 DEF Fail, SharedInv
<1>7. CASE Others \/ UNCHANGED vars
  BY <1>0, <1>7, OthersKeep DEF vars, SharedInv
<1> QED
  BY <1>1, <1>2, <1>3, <1>4, <1>5, <1>6, <1>7 DEF Next, Loop

\* The two files of a table never come from two readings of the evidence, for any
\* number of tables, whatever the answers call their datasets and however often the log
\* is rewritten while the run takes one table after the other; a MetricFlow file that is
\* replaced is replaced by one of the same run (cli.py:375, 389-406; loop.py:215-217).
THEOREM FilesShareOneReadingHolds == Spec => []FilesShareOneReading
<1>1. Init => SharedInv
  BY DEF Init, SharedInv
<1>2. TypeOK /\ SharedInv /\ [Next]_vars => SharedInv'
  BY SharedStep
<1>3. SharedInv => FilesShareOneReading
  <2>1. ToSet(<<>>) = {}
    BY DEF ToSet
  <2> QED
    BY <2>1 DEF SharedInv, FilesShareOneReading, Shared, Filed
<1> QED
  BY <1>1, <1>2, <1>3, TypeCorrect, PTL DEF Spec

-----------------------------------------------------------------------------
(* The evidence: finite, counted in natural numbers, from known sources.    *)

\* A query of a log is a statement of it with the number of its executions.
LEMMA QueryTypes ==
    ASSUME NEW statements \in Seq(SQL), NEW query \in Queries(statements)
    PROVE  query.sql \in SQL /\ query.executions \in Nat
<1>1. query.sql \in Heads(statements)
  BY DEF Heads
<1> DEFINE Of(shape) == {i \in DOMAIN statements : Shape(statements[i]) = shape}
           Query(shape) == [sql |-> statements[Min(Of(shape))], executions |-> Cardinality(Of(shape))]
<1>2. Queries(statements) = {Query(shape) : shape \in Shapes(statements)}
  BY Zenon DEF Queries
<1>3. \A shape : Query(shape).executions = Cardinality(Of(shape))
  OBVIOUS
<1> HIDE DEF Query
<1>4. PICK shape : query = Query(shape)
  BY <1>2
<1>5. IsFiniteSet(DOMAIN statements)
  BY LenProperties, FS_Interval
<1>6. Cardinality(Of(shape)) \in Nat
  BY <1>5, FS_Subset, FS_CardinalityType
<1> HIDE DEF Of
<1> QED
  BY <1>1, <1>3, <1>4, <1>6, HeadsAreStatements

LEMMA AggregationTypes ==
    ASSUME NEW query, query.sql \in SQL, query.executions \in Nat
    PROVE  /\ IsFiniteSet(Aggregations(query))
           /\ \A c \in Aggregations(query) : c.executions \in Nat /\ c.mined
<1> DEFINE parsed == Parsed[query.sql]
           Candidate(i) ==
            LET agg == parsed.aggs[i]
            IN  [table |-> Lower[IF agg.star THEN parsed.from[1] ELSE agg.columns[1].table],
                 column |-> IF agg.star THEN "*" ELSE Column(agg.columns[1]),
                 fn |-> agg.fn, whole |-> FALSE, filter |-> parsed.filter,
                 mined |-> TRUE, source |-> query.sql, place |-> i,
                 executions |-> query.executions, users |-> 1]
           Places == {j \in DOMAIN parsed.aggs : Resolvable(parsed.aggs[j], parsed.from)}
           candidate == [i \in Places |-> Candidate(i)]
<1>1. Aggregations(query) = {Candidate(i) : i \in Places}
  BY Zenon DEF Aggregations
<1>2. IsFiniteSet(Places)
  <2> DEFINE aggs == parsed.aggs
  <2>1. aggs \in Seq(Range(aggs))
    BY SourcesAssumption
  <2> HIDE DEF parsed
  <2>2. Len(aggs) \in Nat /\ DOMAIN aggs = 1..Len(aggs)
    BY <2>1, LenProperties
  <2>3. IsFiniteSet(DOMAIN aggs)
    BY <2>2, FS_Interval
  <2>4. Places \subseteq DOMAIN aggs
    OBVIOUS
  <2> HIDE DEF Places
  <2> QED
    BY <2>3, <2>4, FS_Subset
<1>3. \A i : Candidate(i).executions = query.executions /\ Candidate(i).mined
  OBVIOUS
<1> HIDE DEF Candidate, Places
<1>4. {candidate[i] : i \in Places} = Aggregations(query)
  BY <1>1
<1> HIDE DEF candidate
<1>5. IsFiniteSet(Aggregations(query))
  BY <1>2, <1>4, ImageFinite
<1> QED
  BY <1>1, <1>3, <1>5

LEMMA MinedCandidates ==
    ASSUME NEW statements \in Seq(SQL), NEW table
    PROVE  LET asked == {c \in UNION {Aggregations(query) : query \in Mined(statements)} :
                            SameName(c.table, table)}
           IN  IsFiniteSet(asked) /\ \A c \in asked : c.executions \in Nat /\ c.mined
<1> DEFINE queries == Mined(statements)
           all == {Aggregations(query) : query \in queries}
           asked == {c \in UNION all : SameName(c.table, table)}
           of == [query \in queries |-> Aggregations(query)]
<1>1. queries \subseteq Queries(statements)
  BY DEF Mined
<1>2. IsFiniteSet(queries)
  BY <1>1, HeadsFinite, FS_Subset
<1>3. \A query \in queries : query.sql \in SQL /\ query.executions \in Nat
  BY <1>1, QueryTypes
<1> HIDE DEF queries
<1>4. all = {of[query] : query \in queries}
  OBVIOUS
<1> HIDE DEF of
<1>5. IsFiniteSet(all)
  <2> HIDE DEF all
  <2> QED
    BY <1>2, <1>4, ImageFinite
<1>6. \A aggs \in all : IsFiniteSet(aggs) /\ \A c \in aggs : c.executions \in Nat /\ c.mined
  BY <1>3, AggregationTypes
<1> HIDE DEF all
<1>7. IsFiniteSet(UNION all)
  BY <1>5, <1>6, FS_UNION
<1>8. IsFiniteSet(asked)
  BY <1>7, FS_Subset
<1>9. \A c \in asked : c.executions \in Nat /\ c.mined
  BY <1>6
<1> QED
  BY <1>8, <1>9 DEF all, queries

LEMMA Authorities ==
    /\ DOMAIN SOURCE_AUTHORITY =
         {"query_log_simple", "query_log_complex", "ddl_naming_convention", "ddl_constraint",
          "brd_draft", "brd_approved", "pdf_report", "excel_formula"}
    /\ \A source \in DOMAIN SOURCE_AUTHORITY : SOURCE_AUTHORITY[source] \in Nat
BY DEF SOURCE_AUTHORITY

LEMMA DdlCandidates ==
    ASSUME NEW table
    PROVE  LET named == {Unasked(table, c, "SUM", FALSE, "none", DdlSource(table, c)) :
                            c \in DdlColumns(table, "measure_input")}
           IN  /\ IsFiniteSet(named)
               /\ \A c \in named : /\ c.executions = 0 /\ ~c.mined
                                   /\ c.source \in DOMAIN SOURCE_AUTHORITY
<1> DEFINE columns == DdlColumns(table, "measure_input")
           Of(c) == Unasked(table, c, "SUM", FALSE, "none", DdlSource(table, c))
           of == [c \in columns |-> Of(c)]
           named == {Of(c) : c \in columns}
<1>1. IsFiniteSet(columns)
  <2>1. CASE table \notin DOMAIN Ddl
    BY <2>1, FS_EmptySet DEF DdlColumns
  <2>2. CASE table \in DOMAIN Ddl
    <3>1. columns \subseteq DOMAIN Ddl[table].columns
      BY <2>2 DEF DdlColumns
    <3>2. IsFiniteSet(DOMAIN Ddl[table].columns)
      BY <2>2, SourcesAssumption
    <3> HIDE DEF columns
    <3> QED
      BY <3>1, <3>2, FS_Subset
  <2> QED
    BY <2>1, <2>2
<1>2. \A c : Of(c).executions = 0 /\ ~Of(c).mined /\ Of(c).source \in DOMAIN SOURCE_AUTHORITY
  <2>1. \A c : DdlSource(table, c) \in DOMAIN SOURCE_AUTHORITY
    BY Authorities DEF DdlSource
  <2> QED
    BY <2>1 DEF Unasked
<1> HIDE DEF columns, Of
<1>3. named = {of[c] : c \in columns}
  OBVIOUS
<1> HIDE DEF of
<1>4. IsFiniteSet(named)
  <2> HIDE DEF named
  <2> QED
    BY <1>1, <1>3, ImageFinite
<1> QED
  BY <1>2, <1>4 DEF columns, Of

LEMMA DocumentsFound ==
    ASSUME NEW table, NEW answered, NEW cells \in SUBSET Sheets
    PROVE  LET found == DocumentCandidates(table, answered, cells)
           IN  /\ IsFiniteSet(found)
               /\ \A c \in found : /\ c.executions = 0 /\ ~c.mined
                                   /\ c.source \in DOMAIN SOURCE_AUTHORITY
<1> DEFINE grounded == {raw \in Documents : answered /\ GroundedWords(raw) # <<>> /\ ~Ambiguous(raw)
                                         /\ GroundedTable(GroundedWords(raw)) = table}
           placed == {cell \in cells : \E c \in UNION {DOMAIN Schema[t] : t \in Tables} :
                                          Lower[c] = cell.column}
           Read(raw) == Unasked(table, Head(GroundedWords(raw)), raw.fn, TRUE, raw.filter,
                                DocumentSource(raw))
           Cell(cell) == Unasked(table, cell.column, cell.fn, TRUE, "none", "excel_formula")
           read == [raw \in grounded |-> Read(raw)]
           filled == [cell \in placed |-> Cell(cell)]
           documents == {Read(raw) : raw \in grounded}
           sheets == {Cell(cell) : cell \in placed}
<1>1. DocumentCandidates(table, answered, cells) = documents \cup sheets
  BY Zenon DEF DocumentCandidates
<1>2. \A raw : Read(raw).executions = 0 /\ ~Read(raw).mined
             /\ Read(raw).source \in DOMAIN SOURCE_AUTHORITY
  <2>1. \A raw : DocumentSource(raw) \in DOMAIN SOURCE_AUTHORITY
    BY Authorities DEF DocumentSource
  <2> QED
    BY <2>1 DEF Unasked
<1>3. \A cell : Cell(cell).executions = 0 /\ ~Cell(cell).mined
              /\ Cell(cell).source \in DOMAIN SOURCE_AUTHORITY
  BY Authorities DEF Unasked
<1>4. grounded \subseteq Documents /\ placed \subseteq Sheets
  OBVIOUS
<1> HIDE DEF grounded, placed, Read, Cell
<1>5. IsFiniteSet(grounded) /\ IsFiniteSet(placed)
  BY <1>4, SourcesAssumption, FS_Subset
<1>6. documents = {read[raw] : raw \in grounded} /\ sheets = {filled[cell] : cell \in placed}
  OBVIOUS
<1> HIDE DEF read, filled
<1>7. IsFiniteSet(documents) /\ IsFiniteSet(sheets)
  <2>1. IsFiniteSet({read[raw] : raw \in grounded}) /\ IsFiniteSet({filled[cell] : cell \in placed})
    BY <1>5, ImageFinite
  <2> HIDE DEF documents, sheets
  <2> QED
    BY <1>6, <2>1
<1>8. \A c \in documents \cup sheets :
         c.executions = 0 /\ ~c.mined /\ c.source \in DOMAIN SOURCE_AUTHORITY
  BY <1>2, <1>3
<1> HIDE DEF documents, sheets
<1>9. IsFiniteSet(documents \cup sheets)
  BY <1>7, FS_Union
<1> QED
  BY <1>1, <1>8, <1>9

\* The candidates of a table are finitely many, counted in natural numbers, and those
\* that were not mined have a source of known authority.
LEMMA CandidateTypes ==
    ASSUME NEW table, NEW read \in Readings
    PROVE  /\ IsFiniteSet(Candidates(table, read))
           /\ \A c \in Candidates(table, read) :
                 c.executions \in Nat /\ (c.mined \/ c.source \in DOMAIN SOURCE_AUTHORITY)
<1> DEFINE asked == {c \in UNION {Aggregations(query) : query \in Mined(read.log)} :
                        SameName(c.table, table)}
           named == {Unasked(table, c, "SUM", FALSE, "none", DdlSource(table, c)) :
                        c \in DdlColumns(table, "measure_input")}
           found == DocumentCandidates(table, read.answered, read.cells)
<1>1. Candidates(table, read) = asked \cup named \cup found
  BY Zenon DEF Candidates
<1>2. read.log \in Seq(SQL) /\ read.cells \in SUBSET Sheets
  BY DEF Readings
<1>3. IsFiniteSet(asked) /\ \A c \in asked : c.executions \in Nat /\ c.mined
  BY <1>2, MinedCandidates
<1>4. /\ IsFiniteSet(named)
      /\ \A c \in named : /\ c.executions = 0 /\ ~c.mined
                          /\ c.source \in DOMAIN SOURCE_AUTHORITY
  BY DdlCandidates
<1>5. /\ IsFiniteSet(found)
      /\ \A c \in found : /\ c.executions = 0 /\ ~c.mined
                          /\ c.source \in DOMAIN SOURCE_AUTHORITY
  BY <1>2, DocumentsFound
<1> HIDE DEF asked, named, found
<1>6. IsFiniteSet(asked \cup named)
  BY <1>3, <1>4, FS_Union
<1>7. IsFiniteSet((asked \cup named) \cup found)
  BY <1>5, <1>6, FS_Union
<1> QED
  BY <1>1, <1>3, <1>4, <1>5, <1>7

\* What the ranking needs to know of a metric.
Ranked(e) ==
    /\ e.executions \in Nat
    /\ IsFiniteSet(e.sources) /\ e.sources # {}
    /\ e.sources \subseteq DOMAIN SOURCE_AUTHORITY

LEMMA EvidenceTypes ==
    ASSUME NEW candidates, IsFiniteSet(candidates),
           \A c \in candidates :
                 c.executions \in Nat /\ (c.mined \/ c.source \in DOMAIN SOURCE_AUTHORITY),
           NEW members \in SUBSET candidates, members # {}
    PROVE  Ranked(Evidence(members, candidates))
<1> DEFINE counts == [m \in members |-> m.executions]
           kinds == {SourceType(m, candidates) : m \in members}
           kind == [m \in members |-> SourceType(m, candidates)]
<1>1. /\ Evidence(members, candidates).executions = SumFunction(counts)
      /\ Evidence(members, candidates).sources = kinds
  BY DEF Evidence
<1>2. IsFiniteSet(members)
  BY FS_Subset
<1>3. counts \in [members -> Nat]
  OBVIOUS
<1>4. kinds = {kind[m] : m \in members}
  OBVIOUS
<1>5. kinds \subseteq DOMAIN SOURCE_AUTHORITY /\ kinds # {}
  <2>1. ASSUME NEW m \in members PROVE SourceType(m, candidates) \in DOMAIN SOURCE_AUTHORITY
    <3>1. CASE m.mined
      BY <3>1, Authorities DEF SourceType
    <3>2. CASE ~m.mined
      <4>1. SourceType(m, candidates) = m.source
        BY <3>2 DEF SourceType
      <4> QED
        BY <3>2, <4>1
    <3> QED
      BY <3>1, <3>2
  <2> QED
    BY <2>1
<1> HIDE DEF counts, kinds, kind
<1>6. SumFunction(counts) \in Nat
  BY <1>2, <1>3, SumNatural
<1>7. IsFiniteSet(kinds)
  BY <1>2, <1>4, ImageFinite
<1> QED
  BY <1>1, <1>5, <1>6, <1>7 DEF Ranked

LEMMA BundleTypes ==
    ASSUME NEW table, NEW read \in Readings
    PROVE  /\ IsFiniteSet(MetricCandidates(table, read))
           /\ \A e \in MetricCandidates(table, read) : Ranked(e)
<1> DEFINE candidates == Candidates(table, read)
           keys == {Key(c) : c \in candidates}
           key == [c \in candidates |-> Key(c)]
           Of(k) == {c \in candidates : Key(c) = k}
           of == [k \in keys |-> Evidence(Of(k), candidates)]
<1>1. MetricCandidates(table, read) = {of[k] : k \in keys}
  BY DEF MetricCandidates
<1>2. /\ IsFiniteSet(candidates)
      /\ \A c \in candidates :
            c.executions \in Nat /\ (c.mined \/ c.source \in DOMAIN SOURCE_AUTHORITY)
  BY CandidateTypes
<1>3. \A k \in keys : Of(k) \in SUBSET candidates /\ Of(k) # {}
  OBVIOUS
<1>4. keys = {key[c] : c \in candidates}
  OBVIOUS
<1> HIDE DEF candidates, key, Of
<1>5. IsFiniteSet(keys)
  <2> HIDE DEF keys
  <2> QED
    BY <1>2, <1>4, ImageFinite
<1> HIDE DEF keys
<1>6. \A k \in keys : Ranked(Evidence(Of(k), candidates))
  BY <1>2, <1>3, EvidenceTypes
<1>7. \A k \in keys : Ranked(of[k])
  BY <1>6
<1> HIDE DEF of
<1> QED
  BY <1>1, <1>5, <1>7, ImageFinite

-----------------------------------------------------------------------------
(* The ranking.                                                            *)

LEMMA TimesGrows ==
    ASSUME NEW w \in Nat, NEW x \in Int, NEW y \in Int, x <= y
    PROVE  w * x \in Int /\ w * y \in Int /\ w * x <= w * y
<1>1. w * (y - x) >= 0
  OBVIOUS
<1>2. w * (y - x) = w * y - w * x
  OBVIOUS
<1> QED
  BY <1>1, <1>2

LEMMA DivideGrows ==
    ASSUME NEW d \in Nat, d > 0, NEW x \in Nat, NEW y \in Nat, x <= y
    PROVE  x \div d \in Nat /\ y \div d \in Nat /\ x \div d <= y \div d
OBVIOUS

\* log(1 + n) grows from 0.
LEMMA LogarithmGrows ==
    /\ \A n \in Nat : Logarithm(n) \in Nat /\ (n > 0 => Logarithm(n) > 0)
    /\ \A m, n \in Nat : m <= n => Logarithm(m) <= Logarithm(n)
<1> DEFINE last == Len(Logarithms)
<1>1. /\ last \in Nat /\ last > 0 /\ DOMAIN Logarithms = 1..last
      /\ \A i \in 1..last : Logarithms[i] \in Nat /\ Logarithms[i] > 0
  BY WeightsAssumption, LenProperties, ElementOfSeq, EmptySeq
<1>2. \A i, j \in 1..last : i <= j => Logarithms[i] <= Logarithms[j]
  BY <1>1, WeightsAssumption
<1> QED
  BY <1>1, <1>2 DEF Logarithm

LEMMA AuthorityGrows ==
    ASSUME NEW m, Ranked(m), NEW n, Ranked(n), n.sources \subseteq m.sources
    PROVE  SourceAuthority(n) \in Int /\ SourceAuthority(m) \in Int
           /\ SourceAuthority(n) <= SourceAuthority(m)
<1> DEFINE Of(e) == {SOURCE_AUTHORITY[s] : s \in e.sources}
<1>1. ASSUME NEW e, Ranked(e)
      PROVE  IsFiniteSet(Of(e)) /\ Of(e) # {} /\ Of(e) \subseteq Int
  <2>1. IsFiniteSet(e.sources) /\ e.sources # {}
    BY <1>1 DEF Ranked
  <2>2. IsFiniteSet(Of(e))
    BY <2>1, ImageFinite
  <2>3. Of(e) # {} /\ Of(e) \subseteq Int
    BY <1>1, <2>1, Authorities DEF Ranked
  <2> QED
    BY <2>2, <2>3
<1>2. Of(n) \subseteq Of(m)
  OBVIOUS
<1>3. SourceAuthority(n) = Max(Of(n)) /\ SourceAuthority(m) = Max(Of(m))
  BY DEF SourceAuthority
<1> HIDE DEF Of
<1>4. /\ Max(Of(n)) \in Of(n)
      /\ Max(Of(m)) \in Of(m) /\ \A s \in Of(m) : s <= Max(Of(m))
  BY <1>1, MaxMinExist
<1> QED
  BY <1>1, <1>2, <1>3, <1>4

LEMMA FrequencyGrows ==
    ASSUME NEW m, Ranked(m), NEW n, Ranked(n), NEW most \in Nat,
           n.executions <= m.executions
    PROVE  UsageFrequency(n, most) \in Int /\ UsageFrequency(m, most) \in Int
           /\ UsageFrequency(n, most) <= UsageFrequency(m, most)
<1>1. CASE most = 0
  BY <1>1 DEF UsageFrequency
<1>2. CASE most > 0
  <2> DEFINE x == 100 * Logarithm(n.executions)
             y == 100 * Logarithm(m.executions)
             d == Logarithm(most)
  <2>1. UsageFrequency(n, most) = x \div d /\ UsageFrequency(m, most) = y \div d
    BY <1>2 DEF UsageFrequency
  <2>2. d \in Nat /\ d > 0
    BY <1>2, LogarithmGrows
  <2>3. x \in Nat /\ y \in Nat /\ x <= y
    BY LogarithmGrows DEF Ranked
  <2> HIDE DEF x, y, d
  <2> QED
    BY <2>1, <2>2, <2>3, DivideGrows
<1> QED
  BY <1>1, <1>2

LEMMA AgreementGrows ==
    ASSUME NEW m, Ranked(m), NEW n, Ranked(n), n.sources \subseteq m.sources
    PROVE  CrossSourceAgreement(n) \in Int /\ CrossSourceAgreement(m) \in Int
           /\ CrossSourceAgreement(n) <= CrossSourceAgreement(m)
<1> DEFINE Of(e) == {25 * Cardinality(e.sources), 100}
<1>1. /\ Cardinality(n.sources) \in Nat /\ Cardinality(m.sources) \in Nat
      /\ Cardinality(n.sources) <= Cardinality(m.sources)
  BY FS_CardinalityType, FS_Subset DEF Ranked
<1>2. ASSUME NEW k \in Nat
      PROVE  Min({25 * k, 100}) = IF 25 * k <= 100 THEN 25 * k ELSE 100
  <2> DEFINE S == {25 * k, 100}
  <2>1. IsFiniteSet(S) /\ S # {} /\ S \subseteq Int
    <3>1. IsFiniteSet({25 * k}) /\ IsFiniteSet({100})
      BY FS_Singleton
    <3>2. S = {25 * k} \cup {100} /\ S # {} /\ S \subseteq Int
      OBVIOUS
    <3>3. IsFiniteSet({25 * k} \cup {100})
      BY <3>1, FS_Union
    <3> HIDE DEF S
    <3> QED
      BY <3>2, <3>3
  <2>2. 25 * k \in S /\ 100 \in S /\ \A x \in S : x = 25 * k \/ x = 100
    OBVIOUS
  <2> HIDE DEF S
  <2>3. Min(S) \in S /\ \A x \in S : Min(S) <= x
    BY <2>1, MaxMinExist
  <2>4. Min(S) = IF 25 * k <= 100 THEN 25 * k ELSE 100
    BY <2>2, <2>3
  <2> QED
    BY <2>4 DEF S
<1> QED
  BY <1>1, <1>2 DEF CrossSourceAgreement

\* The trust of a metric grows with its evidence.
LEMMA TrustGrows ==
    ASSUME NEW bundle, IsFiniteSet(bundle), \A e \in bundle : Ranked(e),
           NEW m \in bundle, NEW n \in bundle,
           n.sources \subseteq m.sources, n.executions <= m.executions, n.seen => m.seen
    PROVE  Trust(m, bundle) >= Trust(n, bundle)
<1> DEFINE counts == {e.executions : e \in bundle}
           count == [e \in bundle |-> e.executions]
           most == Max(counts)
<1>1. most \in Nat
  <2>1. counts = {count[e] : e \in bundle}
    OBVIOUS
  <2>2. counts # {} /\ counts \subseteq Nat
    BY DEF Ranked
  <2> HIDE DEF counts, count
  <2>3. IsFiniteSet(counts)
    BY <2>1, ImageFinite
  <2>4. counts \subseteq Int
    BY <2>2
  <2>5. Max(counts) \in counts
    BY <2>2, <2>3, <2>4, MaxMinExist
  <2> QED
    BY <2>2, <2>5
<1> HIDE DEF most
<1> DEFINE A(e) == Weights.source_authority * SourceAuthority(e)
           B(e) == Weights.usage_frequency * UsageFrequency(e, most)
           C(e) == Weights.cross_source_agreement * CrossSourceAgreement(e)
           D(e) == Weights.recency * Recency(e)
<1>2. /\ Weights.source_authority \in Nat /\ Weights.usage_frequency \in Nat
      /\ Weights.cross_source_agreement \in Nat /\ Weights.recency \in Nat
  BY WeightsAssumption
<1>3. A(n) \in Int /\ A(m) \in Int /\ A(n) <= A(m)
  BY <1>2, AuthorityGrows, TimesGrows
<1>4. B(n) \in Int /\ B(m) \in Int /\ B(n) <= B(m)
  BY <1>1, <1>2, FrequencyGrows, TimesGrows
<1>5. C(n) \in Int /\ C(m) \in Int /\ C(n) <= C(m)
  BY <1>2, AgreementGrows, TimesGrows
<1>6. D(n) \in Int /\ D(m) \in Int /\ D(n) <= D(m)
  <2>1. Recency(n) \in Int /\ Recency(m) \in Int /\ Recency(n) <= Recency(m)
    BY DEF Recency
  <2> QED
    BY <1>2, <2>1, TimesGrows
<1>7. \A e : Trust(e, bundle) = A(e) + B(e) + C(e) + D(e)
  BY DEF Trust, most
<1> HIDE DEF A, B, C, D
<1> QED
  BY <1>3, <1>4, <1>5, <1>6, <1>7

\* A metric with no fewer sources, executions and recency than another of its bundle
\* is trusted no less, whatever the evidence: every reading that a run takes gives
\* finite bundles counted in natural numbers.  ontorank.py:54-88, 107-129.
THEOREM MoreEvidenceRanksHigherHolds == Spec => []MoreEvidenceRanksHigher
<1>1. TypeOK => MoreEvidenceRanksHigher
  <2> SUFFICES ASSUME TypeOK, NEW t \in Tables,
                      NEW m \in MetricCandidates(t, reading),
                      NEW n \in MetricCandidates(t, reading),
                      n.sources \subseteq m.sources, n.executions <= m.executions,
                      n.seen => m.seen
               PROVE  Trust(m, MetricCandidates(t, reading))
                        >= Trust(n, MetricCandidates(t, reading))
    BY Zenon DEF MoreEvidenceRanksHigher
  <2>1. reading \in Readings
    BY DEF TypeOK, TypeOK
  <2>2. /\ IsFiniteSet(MetricCandidates(t, reading))
        /\ \A e \in MetricCandidates(t, reading) : Ranked(e)
    BY <2>1, BundleTypes
  <2> QED
    BY <2>2, TrustGrows
<1> QED
  BY <1>1, TypeCorrect, PTL

-----------------------------------------------------------------------------
(* The executions: counted by shape and key, and statement by statement.   *)

AggTable(sql, i) ==
    LET agg == Parsed[sql].aggs[i]
    IN  Lower[IF agg.star THEN Parsed[sql].from[1] ELSE agg.columns[1].table]
AggColumn(sql, i) ==
    LET agg == Parsed[sql].aggs[i]
    IN  IF agg.star THEN "*" ELSE Column(agg.columns[1])
Places(sql) ==
    {i \in DOMAIN Parsed[sql].aggs : Resolvable(Parsed[sql].aggs[i], Parsed[sql].from)}
CandidateAt(query, i) ==
    [table |-> AggTable(query.sql, i), column |-> AggColumn(query.sql, i),
     fn |-> Parsed[query.sql].aggs[i].fn, whole |-> FALSE,
     filter |-> Parsed[query.sql].filter,
     mined |-> TRUE, source |-> query.sql, place |-> i,
     executions |-> query.executions, users |-> 1]

LEMMA AggregationsAre ==
    \A query : Aggregations(query) = {CandidateAt(query, i) : i \in Places(query.sql)}
BY DEF Aggregations, CandidateAt, AggTable, AggColumn, Places

\* c comes from the i-th aggregation of the query.
ComesFrom(c, query, i) ==
    /\ c.table = AggTable(query.sql, i) /\ c.column = AggColumn(query.sql, i)
    /\ c.fn = Parsed[query.sql].aggs[i].fn /\ c.whole = FALSE
    /\ c.mined /\ c.source = query.sql /\ c.place = i /\ c.executions = query.executions

LEMMA CandidateFields == \A query, i : ComesFrom(CandidateAt(query, i), query, i)
BY DEF ComesFrom, CandidateAt

Asks(c, table, metric) ==
    SameName(c.table, table) /\ SameName(c.column, metric.column) /\ c.fn = metric.fn
PlacesFor(sql, table, metric) ==
    {i \in Places(sql) : /\ SameName(AggTable(sql, i), table)
                         /\ SameName(AggColumn(sql, i), metric.column)
                         /\ Parsed[sql].aggs[i].fn = metric.fn}

LEMMA AskedCount ==
    ASSUME NEW query, query.sql \in SQL, NEW table, NEW metric
    PROVE  LET asked == {c \in Aggregations(query) : Asks(c, table, metric)}
           IN  /\ IsFiniteSet(asked)
               /\ Cardinality(asked) = Cardinality(PlacesFor(query.sql, table, metric))
<1> DEFINE asked == {c \in Aggregations(query) : Asks(c, table, metric)}
           places == PlacesFor(query.sql, table, metric)
           f == [i \in places |-> CandidateAt(query, i)]
<1>1. \A i \in Places(query.sql) :
         Asks(CandidateAt(query, i), table, metric) <=> i \in places
  BY CandidateFields DEF Asks, PlacesFor, ComesFrom
<1>2. places \subseteq Places(query.sql)
  BY DEF PlacesFor
<1> HIDE DEF places
<1>3. asked = {CandidateAt(query, i) : i \in places}
  BY <1>1, <1>2, AggregationsAre
<1>4. asked = {f[i] : i \in places}
  <2> HIDE DEF asked
  <2> QED
    BY <1>3
<1>5. \A i, j \in places : f[i] = f[j] => i = j
  <2>1. \A i : CandidateAt(query, i).place = i
    BY CandidateFields DEF ComesFrom
  <2> QED
    BY <2>1
<1>6. IsFiniteSet(places)
  <2> DEFINE aggs == Parsed[query.sql].aggs
  <2>1. aggs \in Seq(Range(aggs))
    BY SourcesAssumption
  <2>2. places \subseteq DOMAIN aggs
    BY <1>2 DEF Places
  <2> HIDE DEF aggs
  <2>3. Len(aggs) \in Nat /\ DOMAIN aggs = 1..Len(aggs)
    BY <2>1, LenProperties
  <2>4. IsFiniteSet(DOMAIN aggs)
    BY <2>3, FS_Interval
  <2> QED
    BY <2>2, <2>4, FS_Subset
<1> HIDE DEF asked, f
<1>7. IsFiniteSet({f[i] : i \in places}) /\ Cardinality({f[i] : i \in places}) = Cardinality(places)
  BY <1>5, <1>6, ImageCounts
<1>8. IsFiniteSet(asked) /\ Cardinality(asked) = Cardinality(places)
  BY <1>4, <1>7
<1> QED
  BY <1>8 DEF asked, places

LEMMA SameShape ==
    ASSUME NEW p \in SQL, NEW q \in SQL, Shape(p) = Shape(q), Shape(p) # NotSQL
    PROVE  /\ Analytical(p) <=> Analytical(q)
           /\ \A table, metric : PlacesFor(p, table, metric) = PlacesFor(q, table, metric)
<1>1. /\ Parsed[p].select = Parsed[q].select /\ Parsed[p].from = Parsed[q].from
      /\ Parsed[p].aggs = Parsed[q].aggs
  BY ShapesAssumption DEF Shape
<1>2. Places(p) = Places(q)
  BY <1>1 DEF Places
<1>3. \A i : AggTable(p, i) = AggTable(q, i) /\ AggColumn(p, i) = AggColumn(q, i)
  BY <1>1 DEF AggTable, AggColumn
<1> QED
  BY <1>1, <1>2, <1>3 DEF Analytical, PlacesFor

Positions(statements, shape) == {i \in DOMAIN statements : Shape(statements[i]) = shape}
QueryFor(statements, shape) ==
    [sql |-> statements[Min(Positions(statements, shape))],
     executions |-> Cardinality(Positions(statements, shape))]

\* The queries of a log are told apart by their shapes.
LEMMA QueriesAre ==
    ASSUME NEW statements \in Seq(SQL)
    PROVE  /\ \A query \in Queries(statements) :
                 /\ query.sql \in SQL /\ Shape(query.sql) # NotSQL
                 /\ query = QueryFor(statements, Shape(query.sql))
                 /\ query.executions = Cardinality(Positions(statements, Shape(query.sql)))
           /\ \A i \in DOMAIN statements : Shape(statements[i]) # NotSQL =>
                 \E query \in Queries(statements) : Shape(query.sql) = Shape(statements[i])
<1>1. Queries(statements) = {QueryFor(statements, shape) : shape \in Shapes(statements)}
  BY DEF Queries, QueryFor, Positions
<1>2. Len(statements) \in Nat /\ DOMAIN statements = 1..Len(statements)
  BY LenProperties
<1>3. \A shape : /\ QueryFor(statements, shape).sql = statements[Min(Positions(statements, shape))]
                 /\ QueryFor(statements, shape).executions = Cardinality(Positions(statements, shape))
  BY DEF QueryFor
<1>4. ASSUME NEW shape \in Shapes(statements)
      PROVE  /\ QueryFor(statements, shape).sql \in SQL
             /\ Shape(QueryFor(statements, shape).sql) = shape
             /\ shape # NotSQL
  <2> DEFINE P == Positions(statements, shape)
  <2>1. P \in SUBSET Nat /\ P # {} /\ shape # NotSQL
    BY <1>2 DEF Positions, Shapes
  <2>2. P \subseteq DOMAIN statements /\ \A i \in P : Shape(statements[i]) = shape
    BY DEF Positions
  <2> HIDE DEF P
  <2>3. Min(P) \in P
    BY <2>1, LeastNumber DEF Min
  <2>4. statements[Min(P)] \in SQL /\ Shape(statements[Min(P)]) = shape
    BY <1>2, <2>2, <2>3, ElementOfSeq
  <2> QED
    BY <1>3, <2>1, <2>4 DEF P
<1>5. \A i \in DOMAIN statements : Shape(statements[i]) # NotSQL =>
         Shape(statements[i]) \in Shapes(statements)
  BY DEF Shapes
<1> QED
  BY <1>1, <1>3, <1>4, <1>5

Unmined(c, table) ==
    ~c.mined /\ c.executions = 0 /\ c.table = table /\ (c.whole = TRUE \/ c.whole = FALSE)

LEMMA UnaskedFields ==
    \A table, column, fn, filter, source :
        /\ Unmined(Unasked(table, column, fn, TRUE, filter, source), table)
        /\ Unmined(Unasked(table, column, fn, FALSE, filter, source), table)
BY DEF Unmined, Unasked

\* A candidate was mined for its table, or has no executions.
LEMMA CandidatesAre ==
    ASSUME NEW table, NEW read \in Readings
    PROVE  /\ \A c \in Candidates(table, read) :
                 \/ /\ c.mined /\ c.whole = FALSE
                    /\ \E query \in Mined(read.log) : c \in Aggregations(query)
                 \/ ~c.mined /\ c.executions = 0
           /\ \A c \in Candidates(table, read) :
                 SameName(c.table, table) /\ (c.whole = TRUE \/ c.whole = FALSE)
           /\ \A query \in Mined(read.log) : \A c \in Aggregations(query) :
                 SameName(c.table, table) => c \in Candidates(table, read)
<1> DEFINE all == UNION {Aggregations(query) : query \in Mined(read.log)}
           asked == {c \in all : SameName(c.table, table)}
           named == {Unasked(table, c, "SUM", FALSE, "none", DdlSource(table, c)) :
                        c \in DdlColumns(table, "measure_input")}
           found == DocumentCandidates(table, read.answered, read.cells)
<1>1. Candidates(table, read) = asked \cup named \cup found
  BY Zenon DEF Candidates
<1>2. \A c \in all : /\ c.mined /\ c.whole = FALSE
                     /\ \E query \in Mined(read.log) : c \in Aggregations(query)
  BY AggregationsAre, CandidateFields DEF ComesFrom
<1>3. \A query \in Mined(read.log) : \A c \in Aggregations(query) : c \in all
  OBVIOUS
<1>4. \A c \in named : Unmined(c, table)
  BY UnaskedFields
<1>5. \A c \in found : Unmined(c, table)
  BY UnaskedFields DEF DocumentCandidates
<1> HIDE DEF all, named, found
<1> QED
  BY <1>1, <1>2, <1>3, <1>4, <1>5 DEF SameName, Unmined

KeyOf(table, metric) ==
    [table |-> Lower[table], column |-> Lower[metric.column], fn |-> metric.fn, whole |-> FALSE]

LEMMA KeyIs ==
    \A c, table, metric :
        Key(c) = KeyOf(table, metric) <=> Asks(c, table, metric) /\ c.whole = FALSE
BY DEF Key, KeyOf, Asks, SameName

\* The positions at which the shape of c was logged, and the candidates at a position.
LEMMA CountedByShape ==
    ASSUME NEW c, NEW statements \in Seq(SQL)
    PROVE  LET places == Positions(statements, Shape(c.source))
           IN  Cardinality({<<c, i>> : i \in places}) = Cardinality(places)
<1> DEFINE places == Positions(statements, Shape(c.source))
           f == [i \in places |-> <<c, i>>]
<1>1. IsFiniteSet(places)
  <2>1. IsFiniteSet(DOMAIN statements)
    BY LenProperties, FS_Interval
  <2>2. places \subseteq DOMAIN statements
    BY DEF Positions
  <2> QED
    BY <2>1, <2>2, FS_Subset
<1> HIDE DEF places
<1>2. \A i, j \in places : f[i] = f[j] => i = j
  OBVIOUS
<1>3. {<<c, i>> : i \in places} = {f[i] : i \in places}
  OBVIOUS
<1> HIDE DEF f
<1>4. Cardinality({f[i] : i \in places}) = Cardinality(places)
  BY <1>1, <1>2, ImageCounts
<1>5. Cardinality({<<c, i>> : i \in places}) = Cardinality(places)
  BY <1>3, <1>4
<1> QED
  BY <1>5 DEF places

LEMMA CountedAtPosition ==
    ASSUME NEW asked, IsFiniteSet(asked), NEW i
    PROVE  Cardinality({<<c, i>> : c \in asked}) = Cardinality(asked)
<1> DEFINE f == [c \in asked |-> <<c, i>>]
<1>1. \A c, d \in asked : f[c] = f[d] => c = d
  OBVIOUS
<1>2. {<<c, i>> : c \in asked} = {f[c] : c \in asked}
  OBVIOUS
<1> HIDE DEF f
<1>3. Cardinality({f[c] : c \in asked}) = Cardinality(asked)
  BY <1>1, ImageCounts
<1> QED
  BY <1>2, <1>3

Counted(members, statements) ==
    {x \in members \X DOMAIN statements :
        x[1].mined /\ Shape(statements[x[2]]) = Shape(x[1].source)}

\* What one member counts for.
LEMMA CountOfMember ==
    ASSUME NEW table, NEW read \in Readings, NEW members \in SUBSET Candidates(table, read),
           NEW c \in members
    PROVE  c.executions = Cardinality({x \in Counted(members, read.log) : x[1] = c})
<1> DEFINE Q == Counted(members, read.log)
           row == {x \in Q : x[1] = c}
<1>0. read.log \in Seq(SQL)
  BY DEF Readings
<1>1. CASE ~c.mined /\ c.executions = 0
  <2>1. row = {}
    BY <1>1 DEF Counted
  <2> HIDE DEF row
  <2> QED
    BY <1>1, <2>1, FS_EmptySet DEF row
<1>2. CASE c.mined /\ \E query \in Mined(read.log) : c \in Aggregations(query)
  <2>1. PICK query \in Mined(read.log) : c \in Aggregations(query)
    BY <1>2
  <2>2. c.source = query.sql /\ c.executions = query.executions
    BY <2>1, AggregationsAre, CandidateFields DEF ComesFrom
  <2> DEFINE places == Positions(read.log, Shape(c.source))
  <2>3. query.executions = Cardinality(places)
    BY <1>0, <2>1, <2>2, QueriesAre DEF Mined
  <2>4. row = {<<c, i>> : i \in places}
    BY <1>2 DEF Counted, Positions
  <2>5. Cardinality({<<c, i>> : i \in places}) = Cardinality(places)
    BY <1>0, CountedByShape
  <2> HIDE DEF row, places
  <2>6. c.executions = Cardinality(row)
    BY <2>2, <2>3, <2>4, <2>5
  <2> QED
    BY <2>6 DEF row
<1> QED
  BY <1>1, <1>2, CandidatesAre

\* What one statement counts for.
LEMMA CountOfStatement ==
    ASSUME NEW table, NEW read \in Readings, NEW metric, NEW i \in DOMAIN read.log
    PROVE  LET members == {c \in Candidates(table, read) : Key(c) = KeyOf(table, metric)}
               sql == read.log[i]
               asked == {c \in Aggregations([sql |-> sql, executions |-> 1]) :
                            Asks(c, table, metric)}
           IN  Cardinality({x \in Counted(members, read.log) : x[2] = i}) =
                  IF Shape(sql) # NotSQL /\ Analytical(sql) THEN Cardinality(asked) ELSE 0
<1> DEFINE members == {c \in Candidates(table, read) : Key(c) = KeyOf(table, metric)}
           Q == Counted(members, read.log)
           column == {x \in Q : x[2] = i}
           sql == read.log[i]
           alone == [sql |-> sql, executions |-> 1]
           asked == {c \in Aggregations(alone) : Asks(c, table, metric)}
<1>1. read.log \in Seq(SQL) /\ sql \in SQL
  BY ElementOfSeq, LenProperties DEF Readings
<1>2. ASSUME NEW x \in column
      PROVE  /\ x = <<x[1], i>> /\ Shape(sql) = Shape(x[1].source)
             /\ Asks(x[1], table, metric)
             /\ \E query \in Mined(read.log) :
                   x[1] \in Aggregations(query) /\ x[1].source = query.sql
  <2>1. /\ x = <<x[1], x[2]>> /\ x[1] \in members /\ x[2] = i /\ x[1].mined
        /\ Shape(read.log[x[2]]) = Shape(x[1].source)
    BY DEF Counted
  <2>2. Asks(x[1], table, metric)
    BY <2>1, KeyIs
  <2>3. PICK query \in Mined(read.log) : x[1] \in Aggregations(query)
    BY <2>1, CandidatesAre
  <2>4. x[1].source = query.sql
    BY <2>3, AggregationsAre, CandidateFields DEF ComesFrom
  <2> QED
    BY <2>1, <2>2, <2>3, <2>4
<1>3. CASE ~(Shape(sql) # NotSQL /\ Analytical(sql))
  <2>1. column = {}
    <3> SUFFICES ASSUME NEW x \in column PROVE FALSE
      OBVIOUS
    <3>1. PICK query \in Mined(read.log) :
             x[1] \in Aggregations(query) /\ x[1].source = query.sql
      BY <1>2
    <3>2. /\ query.sql \in SQL /\ Shape(query.sql) # NotSQL /\ Analytical(query.sql)
      BY <1>1, <3>1, QueriesAre DEF Mined
    <3>3. Shape(sql) = Shape(query.sql)
      BY <1>2, <3>1
    <3> QED
      BY <1>1, <1>3, <3>2, <3>3, SameShape
  <2> HIDE DEF column
  <2>2. Cardinality(column) = 0
    BY <2>1, FS_EmptySet
  <2> QED
    BY <1>3, <2>2 DEF column
<1>4. CASE Shape(sql) # NotSQL /\ Analytical(sql)
  <2>1. PICK query \in Queries(read.log) : Shape(query.sql) = Shape(sql)
    BY <1>1, <1>4, QueriesAre
  <2>2. query.sql \in SQL /\ query = QueryFor(read.log, Shape(sql))
    BY <1>1, <2>1, QueriesAre
  <2>3. query \in Mined(read.log)
    BY <1>1, <1>4, <2>1, <2>2, SameShape DEF Mined
  <2> DEFINE chosen == {c \in Aggregations(query) : Asks(c, table, metric)}
  <2>4. ASSUME NEW x \in column PROVE x[1] \in chosen
    <3>1. PICK other \in Mined(read.log) :
             x[1] \in Aggregations(other) /\ x[1].source = other.sql
      BY <1>2
    <3>2. other = QueryFor(read.log, Shape(other.sql)) /\ Shape(other.sql) = Shape(sql)
      BY <1>1, <1>2, <3>1, QueriesAre DEF Mined
    <3>3. other = query
      BY <2>2, <3>2
    <3> QED
      BY <1>2, <3>1, <3>3
  <2>5. ASSUME NEW c \in chosen PROVE <<c, i>> \in column
    <3>1. c.mined /\ c.whole = FALSE /\ c.source = query.sql
      BY AggregationsAre, CandidateFields DEF ComesFrom
    <3>2. c \in Candidates(table, read)
      BY <2>3, CandidatesAre DEF Asks
    <3>3. Key(c) = KeyOf(table, metric)
      BY <3>1, KeyIs
    <3> QED
      BY <2>1, <3>1, <3>2, <3>3 DEF Counted
  <2>6. column = {<<c, i>> : c \in chosen}
    <3> HIDE DEF column, chosen
    <3>1. \A x \in column : x = <<x[1], i>>
      BY <1>2
    <3> QED
      BY <2>4, <2>5, <3>1
  <2>7. /\ IsFiniteSet(chosen)
        /\ Cardinality(chosen) = Cardinality(PlacesFor(query.sql, table, metric))
    BY <2>2, AskedCount
  <2>8. alone.sql = sql
    OBVIOUS
  <2>9. Cardinality(asked) = Cardinality(PlacesFor(sql, table, metric))
    <3> HIDE DEF alone
    <3> QED
      BY <1>1, <2>8, AskedCount
  <2>10. PlacesFor(query.sql, table, metric) = PlacesFor(sql, table, metric)
    BY <1>1, <1>4, <2>1, <2>2, SameShape
  <2> HIDE DEF column, chosen, asked
  <2>11. Cardinality(column) = Cardinality(chosen)
    BY <2>6, <2>7, CountedAtPosition
  <2>12. Cardinality(column) = Cardinality(asked)
    BY <2>7, <2>9, <2>10, <2>11
  <2> QED
    BY <1>4, <2>12 DEF column, asked
<1> QED
  BY <1>3, <1>4

\* The executions of a metric are as many as what its members count for.
LEMMA ExecutionsAre ==
    ASSUME NEW table, NEW read \in Readings, NEW members \in SUBSET Candidates(table, read)
    PROVE  /\ IsFiniteSet(Counted(members, read.log))
           /\ SumFunction([c \in members |-> c.executions]) =
                 Cardinality(Counted(members, read.log))
<1> DEFINE Q == Counted(members, read.log)
           first == [x \in Q |-> x[1]]
           f == [c \in members |-> c.executions]
<1>1. IsFiniteSet(members)
  BY CandidateTypes, FS_Subset
<1>2. IsFiniteSet(DOMAIN read.log)
  BY LenProperties, FS_Interval DEF Readings
<1>3. IsFiniteSet(members \X DOMAIN read.log)
  BY <1>1, <1>2, FS_Product
<1>4. Q \subseteq members \X DOMAIN read.log
  BY DEF Counted
<1>5. IsFiniteSet(Q)
  BY <1>3, <1>4, FS_Subset
<1>6. \A c \in members : c.executions = Cardinality({x \in Q : x[1] = c})
  BY CountOfMember
<1> HIDE DEF Q
<1>7. first \in [Q -> members]
  BY <1>4
<1>8. \A c \in members : {x \in Q : x[1] = c} = {x \in Q : first[x] = c}
  OBVIOUS
<1> HIDE DEF first
<1>9. f = [c \in members |-> Cardinality({x \in Q : first[x] = c})]
  BY <1>6, <1>8
<1> HIDE DEF f
<1>10. SumFunction(f) = Cardinality(Q)
  BY <1>1, <1>5, <1>7, <1>9, ClassesAddUp
<1> QED
  BY <1>5, <1>10 DEF Q, f

\* They are as many as its occurrences in the log, statement by statement.
LEMMA OccurrencesAre ==
    ASSUME NEW table, NEW read \in Readings, NEW metric
    PROVE  LET members == {c \in Candidates(table, read) : Key(c) = KeyOf(table, metric)}
           IN  Occurrences(read.log, table, metric) = Cardinality(Counted(members, read.log))
<1> DEFINE members == {c \in Candidates(table, read) : Key(c) = KeyOf(table, metric)}
           Q == Counted(members, read.log)
           second == [x \in Q |-> x[2]]
           Of(sql) == {c \in Aggregations([sql |-> sql, executions |-> 1]) :
                          Asks(c, table, metric)}
           Count(i) == IF Shape(read.log[i]) # NotSQL /\ Analytical(read.log[i])
                       THEN Cardinality(Of(read.log[i])) ELSE 0
           g == [i \in DOMAIN read.log |-> Count(i)]
<1>1. IsFiniteSet(DOMAIN read.log)
  BY LenProperties, FS_Interval DEF Readings
<1>2. IsFiniteSet(Q)
  BY ExecutionsAre
<1>3. Q \subseteq members \X DOMAIN read.log
  BY DEF Counted
<1>4. \A i \in DOMAIN read.log : Count(i) = Cardinality({x \in Q : x[2] = i})
  BY CountOfStatement
<1>5. Occurrences(read.log, table, metric) = SumFunction(g)
  BY DEF Occurrences, Asks
<1> HIDE DEF Q, Count
<1>6. second \in [Q -> DOMAIN read.log]
  BY <1>3
<1>7. \A i \in DOMAIN read.log : {x \in Q : x[2] = i} = {x \in Q : second[x] = i}
  OBVIOUS
<1> HIDE DEF second
<1>8. g = [i \in DOMAIN read.log |-> Cardinality({x \in Q : second[x] = i})]
  BY <1>4, <1>7
<1> HIDE DEF g
<1>9. SumFunction(g) = Cardinality(Q)
  BY <1>1, <1>2, <1>6, <1>8, ClassesAddUp
<1> QED
  BY <1>5, <1>9 DEF Q

\* m is the metric of these candidates.
IsMetric(m, members) ==
    /\ \E c \in members :
          /\ m.fn = c.fn /\ m.column = c.column /\ m.whole = c.whole
          /\ (\E d \in members : d.mined) => c.mined
    /\ m.executions = SumFunction([c \in members |-> c.executions])
    /\ m.seen <=> \E c \in members : c.mined

LEMMA EvidenceIs ==
    ASSUME NEW candidates, NEW members, members # {}
    PROVE  IsMetric(Evidence(members, candidates), members)
<1> DEFINE first == IF \E c \in members : c.mined THEN CHOOSE c \in members : c.mined
                    ELSE CHOOSE c \in members : TRUE
           m == Evidence(members, candidates)
<1>1. first \in members /\ ((\E d \in members : d.mined) => first.mined)
  OBVIOUS
<1>2. m.fn = first.fn /\ m.column = first.column /\ m.whole = first.whole
  BY DEF Evidence
<1>3. /\ m.executions = SumFunction([c \in members |-> c.executions])
      /\ m.seen <=> \E c \in members : c.mined
  BY DEF Evidence
<1> HIDE DEF first, m
<1>4. IsMetric(m, members)
  BY <1>1, <1>2, <1>3 DEF IsMetric
<1> QED
  BY <1>4 DEF m

Sharing(c, table, read) == {d \in Candidates(table, read) : Key(d) = Key(c)}

LEMMA MetricsAre ==
    ASSUME NEW table, NEW read
    PROVE  /\ MetricCandidates(table, read) =
                 {Evidence(Sharing(c, table, read), Candidates(table, read)) :
                    c \in Candidates(table, read)}
           /\ \A c \in Candidates(table, read) :
                 /\ c \in Sharing(c, table, read)
                 /\ IsMetric(Evidence(Sharing(c, table, read), Candidates(table, read)),
                             Sharing(c, table, read))
<1>1. MetricCandidates(table, read) =
         {Evidence(Sharing(c, table, read), Candidates(table, read)) :
            c \in Candidates(table, read)}
  BY DEF MetricCandidates, Sharing
<1>2. \A c \in Candidates(table, read) : c \in Sharing(c, table, read)
  BY DEF Sharing
<1>3. \A c \in Candidates(table, read) :
         IsMetric(Evidence(Sharing(c, table, read), Candidates(table, read)),
                  Sharing(c, table, read))
  BY <1>2, EvidenceIs
<1> QED
  BY <1>1, <1>2, <1>3

\* The table of a mined candidate is known, and so is its column.
LEMMA MinedColumns ==
    ASSUME NEW query, query.sql \in SQL, NEW c \in Aggregations(query)
    PROVE  /\ \E t \in Tables : SameName(t, c.table)
           /\ \A t \in Tables : SameName(c.table, t) => c.column \in DOMAIN Schema[t] \cup {"*"}
<1>1. PICK i \in Places(query.sql) : ComesFrom(c, query, i)
  BY AggregationsAre, CandidateFields
<1> DEFINE agg == Parsed[query.sql].aggs[i]
           from == Parsed[query.sql].from
           ref == agg.columns[1]
<1>2. Resolvable(agg, from)
  BY DEF Places
<1>3. c.table = AggTable(query.sql, i) /\ c.column = AggColumn(query.sql, i)
  BY <1>1 DEF ComesFrom
<1>4. CASE agg.star
  <2>1. PICK t \in Tables : Lower[t] = Lower[from[1]]
    BY <1>2, <1>4 DEF Resolvable, SameName
  <2>2. c.table = Lower[from[1]] /\ c.column = "*"
    BY <1>3, <1>4 DEF AggTable, AggColumn
  <2>3. SameName(t, c.table)
    BY <2>1, <2>2, NamesAssumption DEF SameName
  <2> QED
    BY <2>2, <2>3
<1>5. CASE ~agg.star
  <2>1. agg.columns \in Seq(Range(agg.columns))
    <3>1. agg \in Range(Parsed[query.sql].aggs)
      BY DEF Places, Range
    <3> QED
      BY <3>1, SourcesAssumption
  <2>2. Resolves(ref)
    <3> DEFINE columns == agg.columns
    <3>1. columns # <<>> /\ \A j \in DOMAIN columns : Resolves(columns[j])
      BY <1>2, <1>5 DEF Resolvable
    <3>2. columns \in Seq(Range(columns))
      BY <2>1
    <3> HIDE DEF columns
    <3>3. 1 \in DOMAIN columns
      BY <3>1, <3>2, LenProperties, EmptySeq
    <3> QED
      BY <3>1, <3>3 DEF columns
  <2> HIDE DEF ref
  <2>3. c.table = Lower[ref.table] /\ c.column = Column(ref)
    BY <1>3, <1>5 DEF AggTable, AggColumn, ref
  <2>4. PICK t \in Tables : /\ Lower[t] = Lower[ref.table]
                            /\ \E d \in DOMAIN Schema[t] : SameName(d, ref.column)
    BY <2>2 DEF Resolves, SameName
  <2>5. \A u \in Tables : SameName(u, ref.table) => u = t
    BY <2>4, NamesAssumption DEF SameName
  <2>6. UNION {DOMAIN Schema[u] : u \in {v \in Tables : SameName(v, ref.table)}}
           = DOMAIN Schema[t]
    BY <2>4, <2>5 DEF SameName
  <2>7. Column(ref) \in DOMAIN Schema[t]
    BY <2>4, <2>6 DEF Column
  <2>8. SameName(t, c.table) /\ \A u \in Tables : SameName(c.table, u) => u = t
    BY <2>3, <2>4, NamesAssumption DEF SameName
  <2> QED
    BY <2>3, <2>7, <2>8
<1> QED
  BY <1>4, <1>5

LEMMA JoinsResolve ==
    ASSUME NEW query, NEW join \in Joins(query)
    PROVE  \E t \in Tables : SameName(join.to.table, t)
<1>1. PICK ref : Resolves(ref) /\ join.to.table = Lower[ref.table]
  BY DEF Joins
<1>2. PICK t \in Tables : Lower[t] = Lower[ref.table]
  BY <1>1 DEF Resolves, SameName
<1> QED
  BY <1>1, <1>2, NamesAssumption DEF SameName

\* What is told of one metric of a bundle.
LEMMA MetricAddsUp ==
    ASSUME NEW t \in Tables, NEW read \in Readings, NEW m \in MetricCandidates(t, read)
    PROVE  /\ m.executions = IF m.whole THEN 0 ELSE Occurrences(read.log, t, m)
           /\ m.seen => m.column \in DOMAIN Schema[t] \cup {"*"}
           /\ \E c \in Candidates(t, read) :
                 /\ m = Evidence(Sharing(c, t, read), Candidates(t, read))
                 /\ m.fn = c.fn /\ m.column = c.column /\ m.whole = c.whole
<1>1. PICK c \in Candidates(t, read) : m = Evidence(Sharing(c, t, read), Candidates(t, read))
  BY MetricsAre
<1> DEFINE members == Sharing(c, t, read)
<1>2. IsMetric(m, members)
  BY <1>1, MetricsAre
<1>3. PICK first \in members :
         /\ m.fn = first.fn /\ m.column = first.column /\ m.whole = first.whole
         /\ (\E d \in members : d.mined) => first.mined
  BY <1>2 DEF IsMetric
<1>4. /\ m.executions = SumFunction([d \in members |-> d.executions])
      /\ m.seen <=> \E d \in members : d.mined
  BY <1>2 DEF IsMetric
<1>5. members \subseteq Candidates(t, read) /\ \A d \in members : Key(d) = Key(first)
  BY DEF Sharing
<1>6. members = Sharing(first, t, read)
  BY <1>3, <1>5 DEF Sharing
<1>7. SameName(first.table, t) /\ (first.whole = TRUE \/ first.whole = FALSE)
  BY <1>5, CandidatesAre
<1> HIDE DEF members
<1>8. m.executions = Cardinality(Counted(members, read.log))
  BY <1>4, <1>5, ExecutionsAre
<1>9. ASSUME first.whole = TRUE
      PROVE  m.executions = IF m.whole THEN 0 ELSE Occurrences(read.log, t, m)
  <2>1. \A d \in members : d.whole = TRUE
    BY <1>5, <1>9 DEF Key
  <2>2. \A d \in members : ~d.mined
    BY <1>5, <2>1, CandidatesAre
  <2>3. Counted(members, read.log) = {}
    BY <2>2 DEF Counted
  <2> QED
    BY <1>3, <1>8, <1>9, <2>3, FS_EmptySet
<1>10. ASSUME first.whole = FALSE
       PROVE  m.executions = IF m.whole THEN 0 ELSE Occurrences(read.log, t, m)
  <2>1. Key(first) = KeyOf(t, m)
    BY <1>3, <1>7, <1>10, KeyIs DEF Asks, SameName
  <2>2. members = {d \in Candidates(t, read) : Key(d) = KeyOf(t, m)}
    BY <1>6, <2>1 DEF Sharing
  <2>3. Occurrences(read.log, t, m) = Cardinality(Counted(members, read.log))
    BY <2>2, OccurrencesAre
  <2> QED
    BY <1>3, <1>8, <1>10, <2>3
<1>11. m.seen => m.column \in DOMAIN Schema[t] \cup {"*"}
  <2> SUFFICES ASSUME m.seen PROVE m.column \in DOMAIN Schema[t] \cup {"*"}
    OBVIOUS
  <2>1. first.mined
    BY <1>3, <1>4
  <2>2. PICK query \in Mined(read.log) : first \in Aggregations(query)
    BY <1>5, <2>1, CandidatesAre
  <2>3. query.sql \in SQL
    BY <2>2, QueriesAre DEF Mined, Readings
  <2> QED
    BY <1>3, <1>7, <2>2, <2>3, MinedColumns
<1>12. m = Evidence(Sharing(first, t, read), Candidates(t, read))
  BY <1>1, <1>6 DEF members
<1> QED
  BY <1>3, <1>5, <1>7, <1>9, <1>10, <1>11, <1>12

EvidenceCounted(t, read) ==
    /\ \A m, n \in MetricCandidates(t, read) :
          m.whole = n.whole /\ m.fn = n.fn /\ SameName(m.column, n.column) => m = n
    /\ \A m \in MetricCandidates(t, read) :
          /\ m.executions = IF m.whole THEN 0 ELSE Occurrences(read.log, t, m)
          /\ m.seen => m.column \in DOMAIN Schema[t] \cup {"*"}
    /\ \A d \in JoinCandidates(t, read) :
          \E u \in Tables : /\ d \in JoinCandidates(u, read)
                            /\ \E v \in {t, u} : SameName(d.to.table, v)

LEMMA TableAddsUp ==
    ASSUME NEW t \in Tables, NEW read \in Readings
    PROVE  EvidenceCounted(t, read)
<1>1. ASSUME NEW m \in MetricCandidates(t, read), NEW n \in MetricCandidates(t, read),
             m.whole = n.whole, m.fn = n.fn, SameName(m.column, n.column)
      PROVE  m = n
  <2>1. PICK c \in Candidates(t, read) :
           /\ m = Evidence(Sharing(c, t, read), Candidates(t, read))
           /\ m.fn = c.fn /\ m.column = c.column /\ m.whole = c.whole
    BY MetricAddsUp
  <2>2. PICK d \in Candidates(t, read) :
           /\ n = Evidence(Sharing(d, t, read), Candidates(t, read))
           /\ n.fn = d.fn /\ n.column = d.column /\ n.whole = d.whole
    BY MetricAddsUp
  <2>3. SameName(c.table, t) /\ SameName(d.table, t)
    BY CandidatesAre
  <2>4. Key(c) = Key(d)
    BY <1>1, <2>1, <2>2, <2>3 DEF Key, SameName
  <2>5. Sharing(c, t, read) = Sharing(d, t, read)
    BY <2>4 DEF Sharing
  <2> QED
    BY <2>1, <2>2, <2>5
<1>2. ASSUME NEW d \in JoinCandidates(t, read)
      PROVE  \E u \in Tables : /\ d \in JoinCandidates(u, read)
                               /\ \E v \in {t, u} : SameName(d.to.table, v)
  <2>0. PICK query \in Mined(read.log) :
           \E join \in Joins(query) : d = [from |-> join.from, to |-> join.to]
    BY DEF JoinCandidates
  <2>1. PICK join \in Joins(query) : d = [from |-> join.from, to |-> join.to]
    BY <2>0
  <2>2. PICK u \in Tables : SameName(join.to.table, u)
    BY JoinsResolve
  <2>3. d \in JoinCandidates(u, read)
    BY <2>1, <2>2 DEF JoinCandidates
  <2> QED
    BY <2>1, <2>2, <2>3
<1> QED
  BY <1>1, <1>2, MetricAddsUp DEF EvidenceCounted

\* Every aggregation of a mined query that the schema can resolve is in a bundle.
LEMMA NothingIsLost ==
    ASSUME NEW read \in Readings, NEW query \in Mined(read.log), NEW c \in Aggregations(query)
    PROVE  \E t \in Tables : \E m \in MetricCandidates(t, read) :
              SameName(t, c.table) /\ ~m.whole /\ m.fn = c.fn /\ m.column = c.column
<1>1. query.sql \in SQL
  BY QueriesAre DEF Mined, Readings
<1>2. PICK t \in Tables : SameName(t, c.table)
  BY <1>1, MinedColumns
<1>3. c \in Candidates(t, read)
  BY <1>2, CandidatesAre DEF SameName
<1>4. c.mined /\ c.whole = FALSE
  BY AggregationsAre, CandidateFields DEF ComesFrom
<1> DEFINE members == Sharing(c, t, read)
           m == Evidence(members, Candidates(t, read))
<1>5. m \in MetricCandidates(t, read) /\ IsMetric(m, members) /\ c \in members
  BY <1>3, MetricsAre
<1> HIDE DEF m
<1>6. PICK first \in members :
         /\ m.fn = first.fn /\ m.column = first.column /\ m.whole = first.whole
         /\ first.mined
  BY <1>4, <1>5 DEF IsMetric
<1>7. first \in Candidates(t, read) /\ Key(first) = Key(c)
  BY DEF Sharing
<1>8. first.fn = c.fn /\ first.whole = c.whole /\ Lower[first.column] = Lower[c.column]
  BY <1>7 DEF Key
<1>9. first.column \in DOMAIN Schema[t] \cup {"*"}
  <2>1. PICK other \in Mined(read.log) : first \in Aggregations(other)
    BY <1>6, <1>7, CandidatesAre
  <2>2. other.sql \in SQL
    BY QueriesAre DEF Mined, Readings
  <2>3. SameName(first.table, t)
    BY <1>7, CandidatesAre
  <2> QED
    BY <2>1, <2>2, <2>3, MinedColumns
<1>10. c.column \in DOMAIN Schema[t] \cup {"*"}
  <2>1. SameName(c.table, t)
    BY <1>2 DEF SameName
  <2> QED
    BY <1>1, <2>1, MinedColumns
<1>11. first.column = c.column
  BY <1>8, <1>9, <1>10, NamesAssumption
<1> QED
  BY <1>2, <1>4, <1>5, <1>6, <1>8, <1>11

\* Grouping by shape and merging by name loses and invents nothing, for a log of any
\* length: the executions of a metric, counted by shape and merged by key, are its
\* occurrences counted statement by statement.  query_log.py:77-95;
\* sql_extractor.py:140-193; evidence_bundle.py:258-303.
THEOREM EvidenceAddsUpHolds == Spec => []EvidenceAddsUp
<1>1. TypeOK => EvidenceAddsUp
  <2> SUFFICES ASSUME TypeOK PROVE EvidenceAddsUp
    OBVIOUS
  <2>1. reading \in Readings
    BY DEF TypeOK, TypeOK
  <2> DEFINE bundle == [t \in Tables |-> MetricCandidates(t, reading)]
  <2>2. \A t \in Tables : bundle[t] = MetricCandidates(t, reading)
    OBVIOUS
  <2> HIDE DEF bundle
  <2>3. \A t \in Tables : EvidenceCounted(t, reading)
    BY <2>1, TableAddsUp
  <2>4. /\ \A t \in Tables : \A m, n \in bundle[t] :
              m.whole = n.whole /\ m.fn = n.fn /\ SameName(m.column, n.column) => m = n
        /\ \A t \in Tables : \A m \in bundle[t] :
              /\ m.executions = IF m.whole THEN 0 ELSE Occurrences(reading.log, t, m)
              /\ m.seen => m.column \in DOMAIN Schema[t] \cup {"*"}
        /\ \A t \in Tables : \A d \in JoinCandidates(t, reading) :
              \E u \in Tables : d \in JoinCandidates(u, reading)
                              /\ \E v \in {t, u} : SameName(d.to.table, v)
    BY <2>2, <2>3 DEF EvidenceCounted
  <2>5. \A query \in Mined(reading.log) : \A c \in Aggregations(query) :
           \E t \in Tables : \E m \in bundle[t] :
              SameName(t, c.table) /\ ~m.whole /\ m.fn = c.fn /\ m.column = c.column
    BY <2>1, <2>2, NothingIsLost
  <2> QED
    BY <2>4, <2>5, Zenon DEF EvidenceAddsUp, bundle
<1> QED
  BY <1>1, TypeCorrect, PTL

=============================================================================
