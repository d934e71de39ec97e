------------------------- MODULE SnapshotReadsProofs -------------------------
(***************************************************************************)
(* Proofs about the reads of the fingerprinting engine, for every set of   *)
(* tables, dates, fields and formulas, every window, and any number of     *)
(* commits and schemas.                                                    *)
(*                                                                         *)
(* MetaInv says that snapshots are numbered in the order of their commits; *)
(* ReadInv that what is cached for a table is the view of the metadata     *)
(* that was loaded, and what is cached for a formula was read there;       *)
(* StuckInv that whatever made a query raise stays in its way.             *)
(***************************************************************************)
EXTENDS SnapshotReads, FiniteSetTheorems, SequenceTheorems, WellFoundedInduction, TLAPS

\* The metadata of a table after n commits.
WellFormed(meta, n) ==
    /\ meta \in Metadata
    /\ Len(meta.schemas) >= 1
    /\ \A i \in DOMAIN meta.snaps :
          /\ meta.snaps[i].id <= n
          /\ \E k \in DOMAIN meta.schemas : meta.snaps[i].schema = meta.schemas[k]
    /\ \A i, k \in DOMAIN meta.snaps : i < k => meta.snaps[i].id < meta.snaps[k].id

MetaInv ==
    /\ live \in [Tables -> Metadata]
    /\ loaded \in [Tables -> Metadata \cup {NotLoaded}]
    /\ commits \in 0..MaxCommits
    /\ \A t \in Tables : WellFormed(live[t], commits) /\ WellFormed(Loaded(t), commits)

-----------------------------------------------------------------------------
(* What the warehouse does.                                                *)

LEMMA MetaType ==
    ASSUME NEW meta \in Metadata
    PROVE  /\ Len(meta.snaps) \in Nat /\ DOMAIN meta.snaps = 1..Len(meta.snaps)
           /\ Len(meta.schemas) \in Nat /\ DOMAIN meta.schemas = 1..Len(meta.schemas)
           /\ \A i \in DOMAIN meta.snaps : meta.snaps[i] \in Snapshots
           /\ \A i \in DOMAIN meta.schemas : meta.schemas[i] \in Schemas
           /\ meta.snaps \in Seq(Snapshots) /\ meta.schemas \in Seq(Schemas)
<1>1. meta.snaps \in Seq(Snapshots) /\ meta.schemas \in Seq(Schemas)
  BY DEF Metadata
<1> QED
  BY <1>1, LenProperties, ElementOfSeq

LEMMA WellFormedLater ==
    ASSUME NEW n \in Nat, NEW m \in Nat, n <= m, NEW meta, WellFormed(meta, n)
    PROVE  WellFormed(meta, m)
<1>1. \A i \in DOMAIN meta.snaps : meta.snaps[i].id \in Nat
  BY MetaType DEF WellFormed, Snapshots
<1> QED
  BY <1>1 DEF WellFormed

LEMMA Committed ==
    ASSUME NEW n \in Nat, NEW meta, WellFormed(meta, n), NEW asOf \in AsOfs
    PROVE  LET new == [id |-> n + 1, asOf |-> asOf, schema |-> CurrentSchema(meta)]
               later == [meta EXCEPT !.snaps = Append(@, new)]
           IN  /\ WellFormed(later, n + 1)
               /\ \A i \in DOMAIN later.snaps :
                     \/ later.snaps[i].id = n + 1
                     \/ \E k \in DOMAIN meta.snaps : meta.snaps[k].id = later.snaps[i].id
<1> DEFINE new == [id |-> n + 1, asOf |-> asOf, schema |-> CurrentSchema(meta)]
           later == [meta EXCEPT !.snaps = Append(@, new)]
<1>1. meta \in Metadata /\ Len(meta.schemas) >= 1
  BY DEF WellFormed
<1>2. CurrentSchema(meta) \in Schemas /\ Len(meta.schemas) \in DOMAIN meta.schemas
  BY <1>1, MetaType DEF CurrentSchema
<1>3. new \in Snapshots
  BY <1>2 DEF Snapshots
<1>4. new.id = n + 1 /\ new.schema = meta.schemas[Len(meta.schemas)]
  BY DEF CurrentSchema
<1> HIDE DEF new
<1>5. later.snaps = Append(meta.snaps, new) /\ later.schemas = meta.schemas
      /\ later \in Metadata
  BY <1>1, <1>3, MetaType, AppendProperties DEF Metadata
<1> HIDE DEF later
<1>6. /\ DOMAIN later.snaps = 1..(Len(meta.snaps) + 1)
      /\ \A i \in DOMAIN meta.snaps : later.snaps[i] = meta.snaps[i]
      /\ later.snaps[Len(meta.snaps) + 1] = new
  BY <1>1, <1>3, <1>5, MetaType, AppendProperties, LenProperties
<1>7. \A i \in DOMAIN meta.snaps : meta.snaps[i].id \in Nat /\ meta.snaps[i].id <= n
  BY <1>1, MetaType DEF WellFormed, Snapshots
<1>8. DOMAIN later.snaps = DOMAIN meta.snaps \cup {Len(meta.snaps) + 1}
      /\ DOMAIN meta.snaps = 1..Len(meta.snaps) /\ Len(meta.snaps) \in Nat
  BY <1>1, <1>6, MetaType
<1>9. \A i \in DOMAIN later.snaps :
         /\ later.snaps[i].id <= n + 1
         /\ \E k \in DOMAIN later.schemas : later.snaps[i].schema = later.schemas[k]
  BY <1>2, <1>4, <1>5, <1>6, <1>7, <1>8 DEF WellFormed
<1>10. \A i, k \in DOMAIN later.snaps : i < k => later.snaps[i].id < later.snaps[k].id
  <2> SUFFICES ASSUME NEW i \in DOMAIN later.snaps, NEW k \in DOMAIN later.snaps, i < k
               PROVE  later.snaps[i].id < later.snaps[k].id
    OBVIOUS
  <2>1. i \in DOMAIN meta.snaps
    BY <1>8
  <2>2. CASE k \in DOMAIN meta.snaps
    BY <1>6, <2>1, <2>2 DEF WellFormed
  <2>3. CASE k = Len(meta.snaps) + 1
    BY <1>4, <1>6, <1>7, <2>1, <2>3
  <2> QED
    BY <1>8, <2>2, <2>3
<1>11. \A i \in DOMAIN later.snaps :
          \/ later.snaps[i].id = n + 1
          \/ \E k \in DOMAIN meta.snaps : meta.snaps[k].id = later.snaps[i].id
  BY <1>4, <1>6, <1>8
<1>12. WellFormed(later, n + 1)
  BY <1>1, <1>5, <1>9, <1>10 DEF WellFormed
<1> QED
  BY <1>11, <1>12 DEF later, new

LEMMA Changed ==
    ASSUME NEW n \in Nat, NEW meta, WellFormed(meta, n), NEW schema \in Schemas
    PROVE  WellFormed([meta EXCEPT !.schemas = Append(@, schema)], n)
<1> DEFINE later == [meta EXCEPT !.schemas = Append(@, schema)]
<1>1. meta \in Metadata
  BY DEF WellFormed
<1>2. later.snaps = meta.snaps /\ later.schemas = Append(meta.schemas, schema)
      /\ later \in Metadata
  BY <1>1, MetaType, AppendProperties DEF Metadata
<1> HIDE DEF later
<1>3. /\ Len(later.schemas) = Len(meta.schemas) + 1
      /\ \A k \in DOMAIN meta.schemas : k \in DOMAIN later.schemas
                                        /\ later.schemas[k] = meta.schemas[k]
  BY <1>1, <1>2, MetaType, AppendProperties, LenProperties
<1>4. WellFormed(later, n)
  BY <1>1, <1>2, <1>3, MetaType DEF WellFormed
<1> QED
  BY <1>4 DEF later

LEMMA Expired ==
    ASSUME NEW n \in Nat, NEW meta, WellFormed(meta, n), Len(meta.snaps) > 1
    PROVE  LET later == [meta EXCEPT !.snaps = Tail(@)]
           IN  /\ WellFormed(later, n)
               /\ \A i \in DOMAIN later.snaps :
                     \E k \in DOMAIN meta.snaps : meta.snaps[k].id = later.snaps[i].id
<1> DEFINE later == [meta EXCEPT !.snaps = Tail(@)]
<1>1. meta \in Metadata
  BY DEF WellFormed
<1>2. /\ Tail(meta.snaps) \in Seq(Snapshots)
      /\ Len(Tail(meta.snaps)) = Len(meta.snaps) - 1
      /\ \A i \in 1..Len(Tail(meta.snaps)) : Tail(meta.snaps)[i] = meta.snaps[i + 1]
  BY <1>1, MetaType, HeadTailProperties, EmptySeq
<1>3. later.snaps = Tail(meta.snaps) /\ later.schemas = meta.schemas
      /\ later \in Metadata
  BY <1>1, <1>2, MetaType DEF Metadata
<1> HIDE DEF later
<1>4. \A i \in DOMAIN later.snaps :
         i + 1 \in DOMAIN meta.snaps /\ later.snaps[i] = meta.snaps[i + 1] /\ i \in Nat
  BY <1>1, <1>2, <1>3, MetaType
<1>5. \A i, k \in DOMAIN later.snaps : i < k => later.snaps[i].id < later.snaps[k].id
  <2> SUFFICES ASSUME NEW i \in DOMAIN later.snaps, NEW k \in DOMAIN later.snaps, i < k
               PROVE  later.snaps[i].id < later.snaps[k].id
    OBVIOUS
  <2>1. i + 1 \in DOMAIN meta.snaps /\ k + 1 \in DOMAIN meta.snaps /\ i + 1 < k + 1
    BY <1>4
  <2> QED
    BY <1>4, <2>1 DEF WellFormed
<1>6. WellFormed(later, n)
  BY <1>1, <1>3, <1>4, <1>5 DEF WellFormed
<1> QED
  BY <1>4, <1>6 DEF later

\* No step of the warehouse brings back a snapshot, or gives its number to another.
LEMMA WarehouseStep ==
    ASSUME MetaInv, WarehouseNext
    PROVE  /\ UNCHANGED reader
           /\ live' \in [Tables -> Metadata]
           /\ commits' \in 0..MaxCommits /\ commits <= commits'
           /\ \A t \in Tables : WellFormed(live'[t], commits')
           /\ \A t \in Tables : \A i \in DOMAIN live'[t].snaps :
                 \/ live'[t].snaps[i].id > commits
                 \/ \E k \in DOMAIN live[t].snaps :
                       live[t].snaps[k].id = live'[t].snaps[i].id
<1> DEFINE Fine(t) ==
        \A i \in DOMAIN live'[t].snaps :
           \/ live'[t].snaps[i].id > commits
           \/ \E k \in DOMAIN live[t].snaps : live[t].snaps[k].id = live'[t].snaps[i].id
           Goal ==
        /\ UNCHANGED reader
        /\ live' \in [Tables -> Metadata]
        /\ commits' \in 0..MaxCommits /\ commits <= commits'
        /\ \A t \in Tables : WellFormed(live'[t], commits')
        /\ \A t \in Tables : Fine(t)
           Replaced(t, meta, n) ==
        /\ n \in 0..MaxCommits /\ commits <= n /\ commits' = n
        /\ WellFormed(meta, n)
        /\ live' = [live EXCEPT ![t] = meta]
        /\ UNCHANGED reader
        /\ \A i \in DOMAIN meta.snaps :
              \/ meta.snaps[i].id > commits
              \/ \E k \in DOMAIN live[t].snaps : live[t].snaps[k].id = meta.snaps[i].id
<1>0. commits \in Nat /\ MaxCommits \in Nat /\ \A t \in Tables : WellFormed(live[t], commits)
  BY SnapshotConstants DEF MetaInv
<1>1. ASSUME NEW t \in Tables, NEW meta, NEW n, Replaced(t, meta, n)
      PROVE  Goal
  <2>1. \A u \in Tables : live'[u] = IF u = t THEN meta ELSE live[u]
    BY <1>1 DEF MetaInv
  <2>2. \A u \in Tables : WellFormed(live'[u], commits')
    BY <1>0, <1>1, <2>1, WellFormedLater
  <2>3. live' \in [Tables -> Metadata]
    BY <1>1 DEF MetaInv, WellFormed
  <2> QED
    BY <1>1, <2>1, <2>2, <2>3
<1>2. ASSUME NEW t \in Tables, NEW asOf \in AsOfs, Commit(t, asOf)
      PROVE  Goal
  <2> DEFINE new == [id |-> commits + 1, asOf |-> asOf, schema |-> CurrentSchema(live[t])]
             meta == [live[t] EXCEPT !.snaps = Append(@, new)]
  <2>1. live' = [live EXCEPT ![t] = meta] /\ commits' = commits + 1 /\ commits < MaxCommits
        /\ UNCHANGED reader
    BY <1>2 DEF Commit
  <2>2. /\ WellFormed(meta, commits + 1)
        /\ \A i \in DOMAIN meta.snaps :
              \/ meta.snaps[i].id = commits + 1
              \/ \E k \in DOMAIN live[t].snaps : live[t].snaps[k].id = meta.snaps[i].id
    BY <1>0, Committed
  <2>3. \A i \in DOMAIN meta.snaps :
           \/ meta.snaps[i].id > commits
           \/ \E k \in DOMAIN live[t].snaps : live[t].snaps[k].id = meta.snaps[i].id
    BY <1>0, <2>2
  <2>4. Replaced(t, meta, commits + 1)
    <3> HIDE DEF meta
    <3> QED
      BY <1>0, <2>1, <2>2, <2>3
  <2> HIDE DEF meta, Goal, Replaced
  <2> QED
    BY <1>1, <2>4
<1>3. ASSUME NEW t \in Tables, NEW schema \in Schemas, Change(t, schema)
      PROVE  Goal
  <2> DEFINE meta == [live[t] EXCEPT !.schemas = Append(@, schema)]
  <2>1. live' = [live EXCEPT ![t] = meta] /\ commits' = commits /\ UNCHANGED reader
    BY <1>3 DEF Change
  <2>2. WellFormed(meta, commits)
    BY <1>0, Changed
  <2>3. meta.snaps = live[t].snaps
    BY <1>0 DEF WellFormed, Metadata
  <2>4. Replaced(t, meta, commits)
    <3> HIDE DEF meta
    <3> QED
      BY <1>0, <2>1, <2>2, <2>3 DEF MetaInv
  <2> HIDE DEF meta, Goal, Replaced
  <2> QED
    BY <1>1, <2>4
<1>4. ASSUME NEW t \in Tables, Expire(t)
      PROVE  Goal
  <2> DEFINE meta == [live[t] EXCEPT !.snaps = Tail(@)]
  <2>1. live' = [live EXCEPT ![t] = meta] /\ commits' = commits /\ UNCHANGED reader
        /\ Len(live[t].snaps) > 1
    BY <1>4 DEF Expire
  <2>2. /\ WellFormed(meta, commits)
        /\ \A i \in DOMAIN meta.snaps :
              \E k \in DOMAIN live[t].snaps : live[t].snaps[k].id = meta.snaps[i].id
    BY <1>0, <2>1, Expired
  <2>3. Replaced(t, meta, commits)
    <3> HIDE DEF meta
    <3> QED
      BY <1>0, <2>1, <2>2 DEF MetaInv
  <2> HIDE DEF meta, Goal, Replaced
  <2> QED
    BY <1>1, <2>3
<1>5. ASSUME NEW t \in Tables, NEW f \in Fields, NEW name \in ColumnNames \cup {NoColumn}
      PROVE  [CurrentSchema(live[t]) EXCEPT ![f] = name] \in Schemas
  <2>1. CurrentSchema(live[t]) \in Schemas
    BY <1>0, MetaType DEF CurrentSchema, WellFormed
  <2> QED
    BY <2>1 DEF Schemas
<1>6. PICK t \in Tables :
        \/ \E asOf \in AsOfs : Commit(t, asOf)
        \/ \E f \in Fields, name \in ColumnNames : Rename(t, f, name) \/ AddColumn(t, f, name)
        \/ \E f \in Fields : DropColumn(t, f)
        \/ Expire(t)
  BY DEF WarehouseNext
<1>7. (\E asOf \in AsOfs : Commit(t, asOf)) \/ (\E schema \in Schemas : Change(t, schema)) \/ Expire(t)
  BY <1>5, <1>6 DEF Rename, AddColumn, DropColumn
<1> QED
  BY <1>2, <1>3, <1>4, <1>7

-----------------------------------------------------------------------------
(* What the reader caches.                                                 *)

ArrowInv ==
    /\ arrow \in [Tables \X Dates -> Views \cup {NotRead}]
    /\ \A t \in Tables, date \in Dates :
          arrow[<<t, date>>] # NotRead =>
             /\ loaded[t] # NotLoaded
             /\ Matches(loaded[t], date) # {}
             /\ arrow[<<t, date>>] = View(loaded[t], date)

\* What the reader's actions have in common: the tables of ts are loaded, those
\* of rs are read at the date.
ReadStep(ts, rs, date) ==
    /\ rs \subseteq ts /\ ts \subseteq Tables
    /\ rs # {} => date \in Dates
    /\ \A t \in rs : Trouble(t, date) = {}
    /\ loaded' = LoadedWith(ts)
    /\ arrow' = ArrowWith(rs, date)
    /\ UNCHANGED warehouse

\* The greatest position of a nonempty set of positions.
LEMMA LastPosition ==
    ASSUME NEW N \in Nat, NEW S \in SUBSET (1..N), S # {}
    PROVE  Max(S) \in S /\ \A s \in S : s <= Max(S)
<1> DEFINE R == {ss \in Nat \X Nat : ss[1] < ss[2]}
           T == {N - s : s \in S}
<1>1. IsWellFoundedOn(R, Nat)
  BY NatLessThanWellFounded, Zenon DEF OpToRel
<1>2. \A x, y \in Nat : y < x => <<y, x>> \in R
  OBVIOUS
<1>3. T \subseteq Nat /\ T # {}
  <2>1. \A s \in S : N - s \in Nat
    OBVIOUS
  <2> QED
    BY <2>1
<1> HIDE DEF R
<1>4. PICK x \in T : \A y \in T : <<y, x>> \notin R
  BY <1>1, <1>3, WFMin
<1>5. PICK m \in S : x = N - m
  OBVIOUS
<1>6. ASSUME NEW s \in S PROVE s <= m
  <2>1. ~(N - s < x)
    BY <1>2, <1>3, <1>4
  <2> QED
    BY <1>5, <2>1
<1> QED
  BY <1>6 DEF Max

\* The snapshot that is resolved is in the window, and no later one is.
LEMMA ResolveIs ==
    ASSUME NEW n, NEW meta, WellFormed(meta, n), NEW date \in Dates, Matches(meta, date) # {}
    PROVE  /\ Max(Matches(meta, date)) \in DOMAIN meta.snaps
           /\ Max(Matches(meta, date)) \in Matches(meta, date)
           /\ Resolve(meta, date) = meta.snaps[Max(Matches(meta, date))]
           /\ Resolve(meta, date) \in Snapshots
           /\ \A i \in Matches(meta, date) : i <= Max(Matches(meta, date))
<1>1. meta \in Metadata
  BY DEF WellFormed
<1>2. Len(meta.snaps) \in Nat /\ Matches(meta, date) \in SUBSET (1..Len(meta.snaps))
  BY <1>1, MetaType DEF Matches
<1>3. /\ Max(Matches(meta, date)) \in Matches(meta, date)
      /\ \A i \in Matches(meta, date) : i <= Max(Matches(meta, date))
  BY <1>2, LastPosition
<1> QED
  BY <1>1, <1>2, <1>3, MetaType DEF Resolve, Matches

LEMMA ViewType ==
    ASSUME NEW n, NEW meta, WellFormed(meta, n), NEW date \in Dates, Matches(meta, date) # {}
    PROVE  View(meta, date) \in Views /\ View(meta, date) # NotRead
<1>1. Resolve(meta, date) \in Snapshots
  BY ResolveIs
<1>2. View(meta, date) \in Views
  BY <1>1 DEF View, Views
<1> QED
  BY <1>2, SnapshotConstants

LEMMA LoadedOnce ==
    ASSUME MetaInv, NEW ts, ts \subseteq Tables, loaded' = LoadedWith(ts), UNCHANGED warehouse
    PROVE  /\ MetaInv'
           /\ \A t \in Tables : Loaded(t)' = Loaded(t)
           /\ \A t \in ts : loaded'[t] # NotLoaded /\ loaded'[t] = Loaded(t)
           /\ \A t \in Tables : loaded[t] # NotLoaded => loaded'[t] = loaded[t]
<1>1. \A t \in Tables : Loaded(t) \in Metadata /\ Loaded(t) # NotLoaded
  BY SnapshotConstants DEF MetaInv, Loaded
<1>2. \A t \in Tables : loaded'[t] = IF t \in ts THEN Loaded(t) ELSE loaded[t]
  BY DEF LoadedWith
<1>3. \A t \in Tables : Loaded(t)' = Loaded(t)
  BY <1>1, <1>2 DEF Loaded, warehouse
<1>4. loaded' \in [Tables -> Metadata \cup {NotLoaded}]
  BY <1>1 DEF LoadedWith, MetaInv
<1>5. live' = live /\ commits' = commits
  BY DEF warehouse
<1>6. MetaInv'
  BY <1>3, <1>4, <1>5 DEF MetaInv
<1> QED
  BY <1>1, <1>2, <1>6, <1>3 DEF Loaded

\* What is cached stays, as long as the warehouse's steps leave it alone and the
\* reader's steps read what can be read.
LEMMA ReadStepKeeps ==
    ASSUME MetaInv, ArrowInv, NEW ts, NEW rs, NEW date, ReadStep(ts, rs, date)
    PROVE  /\ MetaInv' /\ ArrowInv'
           /\ \A t \in Tables : loaded[t] # NotLoaded => loaded'[t] = loaded[t]
           /\ \A t \in ts : loaded'[t] # NotLoaded /\ loaded'[t] = Loaded(t)
           /\ \A t \in Tables, d \in Dates :
                 arrow[<<t, d>>] # NotRead => arrow'[<<t, d>>] = arrow[<<t, d>>]
           /\ \A t \in rs : arrow'[<<t, date>>] # NotRead /\ arrow'[<<t, date>>] = Viewed(t, date)
           /\ \A t \in Tables, d \in Dates :
                 ~(t \in rs /\ d = date) => arrow'[<<t, d>>] = arrow[<<t, d>>]
<1>1. /\ MetaInv'
      /\ \A t \in Tables : loaded[t] # NotLoaded => loaded'[t] = loaded[t]
      /\ \A t \in ts : loaded'[t] # NotLoaded /\ loaded'[t] = Loaded(t)
  BY LoadedOnce DEF ReadStep
<1>2. \A t \in Tables, d \in Dates :
         arrow'[<<t, d>>] = IF t \in rs /\ d = date THEN Viewed(t, date) ELSE arrow[<<t, d>>]
  BY DEF ReadStep, ArrowWith
<1>3. ASSUME NEW t \in rs
      PROVE  /\ Viewed(t, date) \in Views /\ Viewed(t, date) # NotRead
             /\ Matches(Loaded(t), date) # {}
             /\ Viewed(t, date) = View(Loaded(t), date)
  <2>1. t \in Tables /\ date \in Dates /\ Trouble(t, date) = {}
    BY DEF ReadStep
  <2>2. CASE arrow[<<t, date>>] # NotRead
    BY <2>1, <2>2 DEF Viewed, ArrowInv, Loaded
  <2>3. CASE arrow[<<t, date>>] = NotRead
    <3>1. Matches(Loaded(t), date) # {}
      BY <2>1, <2>3 DEF Trouble
    <3>2. WellFormed(Loaded(t), commits)
      BY <2>1 DEF MetaInv
    <3> QED
      BY <2>1, <2>3, <3>1, <3>2, ViewType DEF Viewed
  <2> QED
    BY <2>2, <2>3
<1>4. \A t \in Tables, d \in Dates : arrow[<<t, d>>] \in Views \cup {NotRead}
  BY DEF ArrowInv
<1>5. arrow' \in [Tables \X Dates -> Views \cup {NotRead}]
  <2>1. \A k \in Tables \X Dates :
           (IF k[1] \in rs /\ k[2] = date THEN Viewed(k[1], date) ELSE arrow[k])
              \in Views \cup {NotRead}
    BY <1>3 DEF ArrowInv
  <2> QED
    BY <2>1 DEF ReadStep, ArrowWith
<1>6. ASSUME NEW t \in Tables, NEW d \in Dates, arrow'[<<t, d>>] # NotRead
      PROVE  /\ loaded'[t] # NotLoaded
             /\ Matches(loaded'[t], d) # {}
             /\ arrow'[<<t, d>>] = View(loaded'[t], d)
  <2>1. CASE t \in rs /\ d = date
    <3>1. t \in ts
      BY <2>1 DEF ReadStep
    <3> QED
      BY <1>1, <1>2, <1>3, <2>1, <3>1
  <2>2. CASE ~(t \in rs /\ d = date)
    BY <1>1, <1>2, <1>6, <2>2 DEF ArrowInv
  <2> QED
    BY <2>1, <2>2
<1>7. ArrowInv'
  BY <1>5, <1>6 DEF ArrowInv, Matches, View, Resolve, CurrentSchema, Normalised
<1>8. \A t \in Tables, d \in Dates : arrow[<<t, d>>] # NotRead => arrow'[<<t, d>>] = arrow[<<t, d>>]
  BY <1>2 DEF Viewed
<1>9. \A t \in rs : t \in Tables /\ date \in Dates
  BY DEF ReadStep
<1>10. \A t \in rs : arrow'[<<t, date>>] = Viewed(t, date)
  BY <1>2, <1>9
<1>11. \A t \in Tables, d \in Dates :
          ~(t \in rs /\ d = date) => arrow'[<<t, d>>] = arrow[<<t, d>>]
  BY <1>2
<1> QED
  BY <1>1, <1>3, <1>7, <1>8, <1>10, <1>11

LEMMA TroubleIs ==
    ASSUME NEW t, NEW date
    PROVE  Trouble(t, date) \in {{}, {NoSnapshot}, {Lost}}
BY DEF Trouble

\* The tables of a formula's terms.
LEMMA TermsType ==
    ASSUME NEW q \in Queries
    PROVE  /\ DOMAIN Terms[q] \in {{1}, {1, 2}}
           /\ \A j \in DOMAIN Terms[q] :
                 Terms[q][j].table \in Tables /\ Terms[q][j].column \in ColumnNames
           /\ \A j \in DOMAIN Terms[q] : TablesBefore(q, j) \subseteq TablesBefore(q, j + 1)
           /\ \A j \in DOMAIN Terms[q] : TablesBefore(q, j + 1) =
                                         TablesBefore(q, j) \cup {Terms[q][j].table}
           /\ \A j \in DOMAIN Terms[q] : TablesBefore(q, j + 1) \subseteq Tables
           /\ TablesBefore(q, Len(Terms[q]) + 1) = {Terms[q][j].table : j \in DOMAIN Terms[q]}
<1>1. Terms[q] \in Seq([table : Tables, column : ColumnNames]) /\ Len(Terms[q]) \in {1, 2}
  BY SnapshotConstants
<1>2. DOMAIN Terms[q] = 1..Len(Terms[q])
  BY <1>1, LenProperties
<1>3. DOMAIN Terms[q] \in {{1}, {1, 2}}
  <2>1. 1..1 = {1} /\ 1..2 = {1, 2}
    OBVIOUS
  <2> QED
    BY <1>1, <1>2, <2>1
<1>4. \A j \in DOMAIN Terms[q] : Terms[q][j] \in [table : Tables, column : ColumnNames]
  BY <1>1, <1>2, ElementOfSeq
<1>5. \A j \in DOMAIN Terms[q] : 1..j = 1..(j - 1) \cup {j} /\ 1..j \subseteq DOMAIN Terms[q]
                                 /\ (j + 1) - 1 = j
  BY <1>3
<1>6. \A j \in DOMAIN Terms[q] : TablesBefore(q, j + 1) =
                                 TablesBefore(q, j) \cup {Terms[q][j].table}
  BY <1>5 DEF TablesBefore
<1>7. \A j \in DOMAIN Terms[q] : TablesBefore(q, j + 1) \subseteq Tables
  BY <1>4, <1>5 DEF TablesBefore
<1>8. (Len(Terms[q]) + 1) - 1 = Len(Terms[q])
  BY <1>1
<1> QED
  BY <1>2, <1>3, <1>4, <1>6, <1>7, <1>8 DEF TablesBefore

-----------------------------------------------------------------------------
(* The actions of the reader as such steps.                                *)

LEMMA RunReads ==
    ASSUME NEW q \in Queries, NEW date \in Dates, Run(q, date)
    PROVE  LET ts == {Terms[q][j].table : j \in DOMAIN Terms[q]}
           IN  ReadStep(ts, ts, date)
<1>1. \A j \in DOMAIN Terms[q] : Trouble(Terms[q][j].table, date) = {}
  BY DEF Run, Troubled
<1> QED
  BY <1>1, TermsType DEF Run, ReadStep

\* evaluate raises because of a term, after it read the terms before it.
LEMMA RaiseReads ==
    ASSUME NEW q \in Queries, NEW date \in Dates, Raise(q, date)
    PROVE  \E j \in DOMAIN Terms[q] :
              /\ ReadStep(TablesBefore(q, j + 1), TablesBefore(q, j), date)
              /\ Terms[q][j].table \in Tables
              /\ Terms[q][j].table \in TablesBefore(q, j + 1)
              /\ Terms[q][j].table \notin TablesBefore(q, j)
              /\ \A i \in DOMAIN Terms[q] : i < j => Terms[q][i].table \in TablesBefore(q, j)
              /\ \E a \in {NoSnapshot, Lost} :
                    Trouble(Terms[q][j].table, date) = {a} /\ Answer(q, date, a)
<1> DEFINE j == Min(Troubled(q, date))
<1>1. Troubled(q, date) # {} /\ Troubled(q, date) \in SUBSET DOMAIN Terms[q]
  BY DEF Raise, Troubled
<1>2. j \in Troubled(q, date) /\ \A i \in Troubled(q, date) : j <= i
  <2>1. \E m \in Troubled(q, date) : \A i \in Troubled(q, date) : m <= i
    <3>1. Troubled(q, date) \in {{1}, {2}, {1, 2}}
      BY <1>1, TermsType
    <3> QED
      BY <3>1
  <2> QED
    BY <2>1 DEF Min
<1>3. /\ loaded' = LoadedWith(TablesBefore(q, j + 1))
      /\ arrow' = ArrowWith(TablesBefore(q, j), date)
      /\ \E a \in Trouble(Terms[q][j].table, date) : Answer(q, date, a)
      /\ UNCHANGED <<warehouse, memo>>
  BY DEF Raise
<1> HIDE DEF j
<1>4. j \in DOMAIN Terms[q] /\ Trouble(Terms[q][j].table, date) # {}
  BY <1>2 DEF Troubled
<1>5. \A i \in DOMAIN Terms[q] : i < j => Trouble(Terms[q][i].table, date) = {}
  <2> SUFFICES ASSUME NEW i \in DOMAIN Terms[q], i < j, i \in Troubled(q, date)
               PROVE  FALSE
    BY DEF Troubled
  <2>1. i \in Nat /\ j \in Nat
    BY <1>4, TermsType
  <2> QED
    BY <1>2, <2>1
<1>6. \A i \in 1..(j - 1) : i \in DOMAIN Terms[q] /\ i < j
  BY <1>4, TermsType
<1>7. \A t \in TablesBefore(q, j) : Trouble(t, date) = {}
  BY <1>5, <1>6 DEF TablesBefore
<1>8. \A i \in DOMAIN Terms[q] : i < j => Terms[q][i].table \in TablesBefore(q, j)
  BY <1>4, TermsType DEF TablesBefore
<1>9. \E a \in {NoSnapshot, Lost} :
         Trouble(Terms[q][j].table, date) = {a} /\ Answer(q, date, a)
  BY <1>3, <1>4, TroubleIs
<1>10. ReadStep(TablesBefore(q, j + 1), TablesBefore(q, j), date)
  BY <1>3, <1>4, <1>7, TermsType DEF ReadStep
<1>11. /\ Terms[q][j].table \in Tables
       /\ Terms[q][j].table \in TablesBefore(q, j + 1)
  BY <1>4, TermsType
<1>12. Terms[q][j].table \notin TablesBefore(q, j)
  BY <1>4, <1>7
<1> QED
  BY <1>4, <1>8, <1>9, <1>10, <1>11, <1>12

-----------------------------------------------------------------------------
(* What the queries have been answered.                                    *)

\* A cached result was read, at its date, by a query with its key.
MemoInv ==
    /\ memo \in [Keys \X Dates -> Results \cup {NotRun}]
    /\ \A key \in Keys, date \in Dates :
          memo[<<key, date>>] # NotRun =>
             /\ Key[memo[<<key, date>>].query] = key
             /\ memo[<<key, date>>].cells = Outcome(memo[<<key, date>>].query, date)
             /\ \A j \in DOMAIN Terms[memo[<<key, date>>].query] :
                   arrow[<<Terms[memo[<<key, date>>].query][j].table, date>>] # NotRead

\* The first term that is not read cannot be read, for the reason a.
StuckAt(q, date, a) ==
    \E j \in DOMAIN Terms[q] :
        /\ loaded[Terms[q][j].table] # NotLoaded
        /\ Trouble(Terms[q][j].table, date) = {a}
        /\ \A i \in DOMAIN Terms[q] : i < j => arrow[<<Terms[q][i].table, date>>] # NotRead

AnswersInv ==
    /\ answers \in [Queries \X Dates -> SUBSET (Results \cup {NoSnapshot, Lost})]
    /\ \A q \in Queries, date \in Dates : \A a \in answers[<<q, date>>] :
          IF memo[<<Key[q], date>>] # NotRun
          THEN a = memo[<<Key[q], date>>]
          ELSE StuckAt(q, date, a)

ReaderInv == MetaInv /\ ArrowInv /\ MemoInv /\ AnswersInv

\* What a query may read depends on its tables' scans alone.
LEMMA SameViews ==
    ASSUME NEW q, NEW date,
           \A j \in DOMAIN Terms[q] :
              Viewed(Terms[q][j].table, date)' = Viewed(Terms[q][j].table, date)
    PROVE  Outcome(q, date)' = Outcome(q, date)
<1>1. \A j \in DOMAIN Terms[q] :
         /\ Columns(Terms[q][j], date)' = Columns(Terms[q][j], date)
         /\ Cell(Terms[q][j], date)' = Cell(Terms[q][j], date)
  BY DEF Columns, Cell
<1>2. [j \in DOMAIN Terms[q] |-> Cell(Terms[q][j], date)]' =
      [j \in DOMAIN Terms[q] |-> Cell(Terms[q][j], date)]
  BY <1>1
<1> QED
  BY <1>1, <1>2 DEF Outcome

LEMMA ResultQuery ==
    ASSUME MemoInv, NEW key \in Keys, NEW date \in Dates, memo[<<key, date>>] # NotRun
    PROVE  memo[<<key, date>>] \in Results /\ memo[<<key, date>>].query \in Queries
BY DEF MemoInv, Results

\* Scans stay, and so do the results read from them.
LEMMA MemoStays ==
    ASSUME MemoInv, NEW key \in Keys, NEW date \in Dates,
           memo[<<key, date>>] # NotRun, memo'[<<key, date>>] = memo[<<key, date>>],
           \A t \in Tables : arrow[<<t, date>>] # NotRead =>
                                arrow'[<<t, date>>] = arrow[<<t, date>>]
    PROVE  (/\ Key[memo[<<key, date>>].query] = key
            /\ memo[<<key, date>>].cells = Outcome(memo[<<key, date>>].query, date)
            /\ \A j \in DOMAIN Terms[memo[<<key, date>>].query] :
                  arrow[<<Terms[memo[<<key, date>>].query][j].table, date>>] # NotRead)'
<1>1. PICK q \in Queries : q = memo[<<key, date>>].query
  BY ResultQuery
<1>2. /\ Key[q] = key
      /\ memo[<<key, date>>].cells = Outcome(q, date)
      /\ \A j \in DOMAIN Terms[q] : arrow[<<Terms[q][j].table, date>>] # NotRead
  BY <1>1 DEF MemoInv
<1>3. /\ memo'[<<key, date>>].query = q
      /\ memo'[<<key, date>>].cells = memo[<<key, date>>].cells
  BY <1>1
<1>4. \A j \in DOMAIN Terms[q] :
         /\ arrow'[<<Terms[q][j].table, date>>] # NotRead
         /\ Viewed(Terms[q][j].table, date)' = Viewed(Terms[q][j].table, date)
  BY <1>1, <1>2, TermsType DEF Viewed
<1>5. Outcome(q, date)' = Outcome(q, date)
  BY <1>4, SameViews
<1>6. Outcome(memo[<<key, date>>].query, date)' = Outcome(q, date)'
  BY <1>3
<1> QED
  BY <1>2, <1>3, <1>4, <1>5, <1>6

\* What made a query raise stays in its way while the warehouse goes on: no
\* commit brings a lost snapshot back.
LEMMA StuckThroughWarehouse ==
    ASSUME MetaInv, ArrowInv, WarehouseNext,
           NEW q \in Queries, NEW date \in Dates, NEW a, StuckAt(q, date, a)
    PROVE  StuckAt(q, date, a)'
<1>1. UNCHANGED reader
  BY WarehouseStep
<1>2. loaded' = loaded /\ arrow' = arrow
  BY <1>1 DEF reader
<1>3. PICK j \in DOMAIN Terms[q] :
        /\ loaded[Terms[q][j].table] # NotLoaded
        /\ Trouble(Terms[q][j].table, date) = {a}
        /\ \A i \in DOMAIN Terms[q] : i < j => arrow[<<Terms[q][i].table, date>>] # NotRead
  BY DEF StuckAt
<1>4. PICK t \in Tables : t = Terms[q][j].table
  BY TermsType
<1>5. Loaded(t) = loaded[t] /\ Loaded(t)' = loaded[t] /\ WellFormed(loaded[t], commits)
  BY <1>2, <1>3, <1>4 DEF Loaded, MetaInv
<1>6. ~Present(t, date) /\ Matches(loaded[t], date) # {} => ~Present(t, date)'
  <2> SUFFICES ASSUME ~Present(t, date), Matches(loaded[t], date) # {}, Present(t, date)'
               PROVE  FALSE
    OBVIOUS
  <2>1. PICK i \in DOMAIN live'[t].snaps : live'[t].snaps[i].id = Resolve(loaded[t], date).id
    <3>1. Resolve(Loaded(t), date)' = Resolve(loaded[t], date)
      BY <1>2, <1>5 DEF Resolve, Matches
    <3> QED
      BY <3>1 DEF Present
  <2>2. Resolve(loaded[t], date).id \in Nat /\ Resolve(loaded[t], date).id <= commits
    <3>1. /\ Max(Matches(loaded[t], date)) \in DOMAIN loaded[t].snaps
          /\ Resolve(loaded[t], date) = loaded[t].snaps[Max(Matches(loaded[t], date))]
          /\ Resolve(loaded[t], date) \in Snapshots
      BY <1>5, ResolveIs
    <3> QED
      BY <1>5, <3>1 DEF WellFormed, Snapshots
  <2>3. ~(live'[t].snaps[i].id > commits)
    BY <2>1, <2>2 DEF MetaInv
  <2>4. \E k \in DOMAIN live[t].snaps : live[t].snaps[k].id = live'[t].snaps[i].id
    BY <2>3, WarehouseStep
  <2> QED
    BY <1>5, <2>1, <2>4 DEF Present
<1>7. Matches(Loaded(t), date)' = Matches(Loaded(t), date)
  BY <1>5 DEF Matches
<1>8. Trouble(t, date)' = {a}
  BY <1>2, <1>3, <1>4, <1>5, <1>6, <1>7 DEF Trouble
<1> QED
  BY <1>2, <1>3, <1>4, <1>8 DEF StuckAt

\* Nor does what the reader reads of other tables and dates.
LEMMA StuckThroughReads ==
    ASSUME MetaInv, ArrowInv, NEW ts, NEW rs, NEW d, ReadStep(ts, rs, d),
           NEW q \in Queries, NEW date \in Dates, NEW a, StuckAt(q, date, a)
    PROVE  StuckAt(q, date, a)'
<1>1. PICK j \in DOMAIN Terms[q] :
        /\ loaded[Terms[q][j].table] # NotLoaded
        /\ Trouble(Terms[q][j].table, date) = {a}
        /\ \A i \in DOMAIN Terms[q] : i < j => arrow[<<Terms[q][i].table, date>>] # NotRead
  BY DEF StuckAt
<1>2. PICK t \in Tables : t = Terms[q][j].table
  BY TermsType
<1>3. ~(t \in rs /\ date = d)
  BY <1>1, <1>2 DEF ReadStep
<1>4. arrow'[<<t, date>>] = arrow[<<t, date>>] /\ loaded'[t] = loaded[t] /\ live' = live
  BY <1>1, <1>2, <1>3, ReadStepKeeps DEF ReadStep, warehouse
<1>5. Loaded(t)' = Loaded(t)
  BY <1>4 DEF Loaded
<1>6. Trouble(t, date)' = Trouble(t, date)
  BY <1>4, <1>5 DEF Trouble, Present, Resolve, Matches
<1>7. \A i \in DOMAIN Terms[q] : i < j => arrow'[<<Terms[q][i].table, date>>] # NotRead
  BY <1>1, TermsType, ReadStepKeeps
<1> QED
  BY <1>1, <1>2, <1>4, <1>6, <1>7 DEF StuckAt

\* No formula with the key of a query that is stuck can be run.
LEMMA StuckIsTroubled ==
    ASSUME NEW p \in Queries, NEW q \in Queries, Key[p] = Key[q],
           NEW date \in Dates, NEW a, StuckAt(p, date, a)
    PROVE  Troubled(q, date) # {}
<1>1. PICK j \in DOMAIN Terms[p] : Trouble(Terms[p][j].table, date) = {a}
  BY DEF StuckAt
<1>2. j \in DOMAIN Terms[q] /\ Terms[q][j].table = Terms[p][j].table
  <2>1. [i \in DOMAIN Terms[p] |-> Terms[p][i].table] =
        [i \in DOMAIN Terms[q] |-> Terms[q][i].table]
    BY SnapshotConstants
  <2>2. DOMAIN [i \in DOMAIN Terms[p] |-> Terms[p][i].table] =
        DOMAIN [i \in DOMAIN Terms[q] |-> Terms[q][i].table]
    BY <2>1
  <2>3. [i \in DOMAIN Terms[p] |-> Terms[p][i].table][j] =
        [i \in DOMAIN Terms[q] |-> Terms[q][i].table][j]
    BY <2>1
  <2> QED
    BY <2>2, <2>3
<1> QED
  BY <1>1, <1>2 DEF Troubled

-----------------------------------------------------------------------------
(* Every step keeps the invariant.                                         *)

LEMMA WarehouseKeeps == ReaderInv /\ WarehouseNext => ReaderInv'
<1> SUFFICES ASSUME MetaInv, ArrowInv, MemoInv, AnswersInv, WarehouseNext
             PROVE  MetaInv' /\ ArrowInv' /\ MemoInv' /\ AnswersInv'
  BY DEF ReaderInv
<1>1. /\ loaded' = loaded /\ arrow' = arrow /\ memo' = memo /\ answers' = answers
  BY WarehouseStep DEF reader
<1>2. MetaInv'
  <2>1. \A t \in Tables : WellFormed(Loaded(t)', commits')
    <3> SUFFICES ASSUME NEW t \in Tables PROVE WellFormed(Loaded(t)', commits')
      OBVIOUS
    <3>1. CASE loaded[t] = NotLoaded
      BY <1>1, <3>1, WarehouseStep DEF Loaded
    <3>2. CASE loaded[t] # NotLoaded
      <4>1. Loaded(t)' = Loaded(t) /\ WellFormed(Loaded(t), commits)
        BY <1>1, <3>2 DEF Loaded, MetaInv
      <4>2. commits \in Nat /\ commits' \in Nat /\ commits <= commits'
        BY WarehouseStep, SnapshotConstants DEF MetaInv
      <4> QED
        BY <4>1, <4>2, WellFormedLater
    <3> QED
      BY <3>1, <3>2
  <2>2. loaded' \in [Tables -> Metadata \cup {NotLoaded}]
    BY <1>1 DEF MetaInv
  <2> QED
    BY <2>1, <2>2, WarehouseStep DEF MetaInv
<1>3. ArrowInv'
  BY <1>1 DEF ArrowInv
<1>4. MemoInv'
  <2>1. memo' \in [Keys \X Dates -> Results \cup {NotRun}]
    BY <1>1 DEF MemoInv
  <2> QED
    BY <1>1, <2>1, MemoStays DEF MemoInv
<1>5. AnswersInv'
  <2>1. ASSUME NEW q \in Queries, NEW date \in Dates, NEW a \in answers[<<q, date>>]
        PROVE  IF memo[<<Key[q], date>>] # NotRun
               THEN a = memo[<<Key[q], date>>]
               ELSE StuckAt(q, date, a)'
    BY StuckThroughWarehouse DEF AnswersInv
  <2> QED
    BY <1>1, <2>1 DEF AnswersInv
<1> QED
  BY <1>2, <1>3, <1>4, <1>5

\* A read that leaves the answers and the cache of results alone.
LEMMA ReadKeeps ==
    ASSUME ReaderInv, NEW ts, NEW rs, NEW d, ReadStep(ts, rs, d)
    PROVE  /\ MetaInv' /\ ArrowInv'
           /\ memo' = memo => MemoInv'
           /\ memo' = memo /\ answers' = answers => AnswersInv'
<1>1. MetaInv /\ ArrowInv /\ MemoInv /\ AnswersInv
  BY DEF ReaderInv
<1>2. /\ MetaInv' /\ ArrowInv'
      /\ \A t \in Tables, date \in Dates :
            arrow[<<t, date>>] # NotRead => arrow'[<<t, date>>] = arrow[<<t, date>>]
  BY <1>1, ReadStepKeeps
<1>3. ASSUME memo' = memo PROVE MemoInv'
  <2>1. memo' \in [Keys \X Dates -> Results \cup {NotRun}]
    BY <1>1, <1>3 DEF MemoInv
  <2> QED
    BY <1>1, <1>2, <1>3, <2>1, MemoStays DEF MemoInv
<1>4. ASSUME memo' = memo, answers' = answers PROVE AnswersInv'
  <2>1. ASSUME NEW q \in Queries, NEW date \in Dates, NEW a \in answers[<<q, date>>]
        PROVE  IF memo[<<Key[q], date>>] # NotRun
               THEN a = memo[<<Key[q], date>>]
               ELSE StuckAt(q, date, a)'
    BY <1>1, StuckThroughReads DEF AnswersInv
  <2> QED
    BY <1>1, <1>4, <2>1 DEF AnswersInv
<1> QED
  BY <1>2, <1>3, <1>4

LEMMA LoadKeeps ==
    ASSUME ReaderInv, NEW t \in Tables, Load(t)
    PROVE  ReaderInv'
<1>1. ArrowWith({}, 0) = arrow
  BY DEF ArrowWith, ReaderInv, ArrowInv
<1>2. ReadStep({t}, {}, 0)
  BY <1>1 DEF Load, ReadStep
<1> QED
  BY <1>2, ReadKeeps DEF Load, ReaderInv

LEMMA ScanKeeps ==
    ASSUME ReaderInv, NEW t \in Tables, NEW date \in Dates, Scan(t, date)
    PROVE  ReaderInv'
<1>1. ReadStep({t}, IF Trouble(t, date) = {} THEN {t} ELSE {}, date)
  BY DEF Scan, ReadStep
<1> QED
  BY <1>1, ReadKeeps DEF Scan, ReaderInv

LEMMA RecallKeeps ==
    ASSUME ReaderInv, NEW q \in Queries, NEW date \in Dates, Recall(q, date)
    PROVE  ReaderInv'
<1>1. /\ MetaInv /\ ArrowInv /\ MemoInv /\ AnswersInv
      /\ UNCHANGED <<warehouse, loaded, arrow, memo>>
  BY DEF ReaderInv, Recall
<1>2. live' = live /\ commits' = commits /\ loaded' = loaded /\ arrow' = arrow /\ memo' = memo
  BY <1>1 DEF warehouse
<1>3. MetaInv' /\ ArrowInv' /\ MemoInv'
  <2>1. LoadedWith({}) = loaded
    BY <1>1 DEF LoadedWith, MetaInv
  <2>2. ArrowWith({}, 0) = arrow
    BY <1>1 DEF ArrowWith, ArrowInv
  <2>3. ReadStep({}, {}, 0)
    BY <1>1, <1>2, <2>1, <2>2 DEF ReadStep
  <2> QED
    BY <1>2, <2>3, ReadKeeps
<1>4. memo[<<Key[q], date>>] # NotRun /\ memo[<<Key[q], date>>] \in Results
  BY ResultQuery, <1>1 DEF Recall, MemoKey, Keys
<1>5. answers' = [answers EXCEPT ![<<q, date>>] = @ \cup {memo[<<Key[q], date>>]}]
  BY DEF Recall, Answer, MemoKey
<1>6. answers' \in [Queries \X Dates -> SUBSET (Results \cup {NoSnapshot, Lost})]
  BY <1>1, <1>4, <1>5 DEF AnswersInv
<1>7. ASSUME NEW p \in Queries, NEW d \in Dates, NEW a \in answers'[<<p, d>>]
      PROVE  IF memo[<<Key[p], d>>] # NotRun
             THEN a = memo[<<Key[p], d>>]
             ELSE StuckAt(p, d, a)
  <2>1. a \in answers[<<p, d>>] \/ (p = q /\ d = date /\ a = memo[<<Key[q], date>>])
    BY <1>1, <1>5 DEF AnswersInv
  <2> QED
    BY <1>1, <1>4, <2>1 DEF AnswersInv
<1>8. \A p \in Queries, d \in Dates : \A a : StuckAt(p, d, a)' = StuckAt(p, d, a)
  BY <1>2 DEF StuckAt, Trouble, Present, Resolve, Matches, Loaded
<1>9. AnswersInv'
  BY <1>2, <1>6, <1>7, <1>8 DEF AnswersInv
<1> QED
  BY <1>3, <1>9 DEF ReaderInv

\* The first column of a name is one of them.
LEMMA LeastNumber ==
    ASSUME NEW S \in SUBSET Nat, S # {}
    PROVE  Min(S) \in S
<1> DEFINE R == {ss \in Nat \X Nat : ss[1] < ss[2]}
<1>1. IsWellFoundedOn(R, Nat)
  BY NatLessThanWellFounded, Zenon DEF OpToRel
<1>2. \A x, y \in Nat : y < x => <<y, x>> \in R
  OBVIOUS
<1> HIDE DEF R
<1>3. PICK x \in S : \A y \in S : <<y, x>> \notin R
  BY <1>1, WFMin
<1>4. ASSUME NEW s \in S PROVE x <= s
  <2>1. s \in Nat /\ x \in Nat
    BY <1>3
  <2>2. ~(s < x)
    BY <1>2, <1>3, <2>1
  <2> QED
    BY <2>1, <2>2
<1> QED
  BY <1>3, <1>4 DEF Min

LEMMA CellType ==
    ASSUME NEW q \in Queries, NEW date, NEW j \in DOMAIN Terms[q],
           Viewed(Terms[q][j].table, date) \in Views,
           Columns(Terms[q][j], date) # {}
    PROVE  /\ Cell(Terms[q][j], date) \in Cells
           /\ Cell(Terms[q][j], date).snap = Viewed(Terms[q][j].table, date).snap
           /\ Cell(Terms[q][j], date).field \in Columns(Terms[q][j], date)
<1>1. Terms[q][j].column \in ColumnNames
  BY TermsType
<1>2. PICK view \in Views : view = Viewed(Terms[q][j].table, date)
  OBVIOUS
<1>3. /\ view.snap \in Snapshots
      /\ Columns(Terms[q][j], date) \subseteq Fields
  BY <1>1, <1>2 DEF Views, Columns
<1>4. Min(Columns(Terms[q][j], date)) \in Columns(Terms[q][j], date)
  <2>1. Columns(Terms[q][j], date) \in SUBSET Nat
    BY <1>3, SnapshotConstants
  <2> QED
    BY <2>1, LeastNumber
<1> QED
  BY <1>2, <1>3, <1>4 DEF Cell, Cells

LEMMA OutcomeType ==
    ASSUME NEW q \in Queries, NEW date,
           \A j \in DOMAIN Terms[q] : Viewed(Terms[q][j].table, date) \in Views
    PROVE  /\ Outcome(q, date) \in Seq(Cells) \cup {NotEvaluable}
           /\ (\A j \in DOMAIN Terms[q] : Columns(Terms[q][j], date) # {}) =>
                 Outcome(q, date) # NotEvaluable
<1>1. DOMAIN Terms[q] = 1..Len(Terms[q]) /\ Len(Terms[q]) \in Nat
  <2>1. Terms[q] \in Seq([table : Tables, column : ColumnNames])
    BY SnapshotConstants
  <2> QED
    BY <2>1, LenProperties
<1>2. ASSUME \A j \in DOMAIN Terms[q] : Columns(Terms[q][j], date) # {}
      PROVE  Outcome(q, date) \in Seq(Cells)
  <2>1. Outcome(q, date) = [j \in DOMAIN Terms[q] |-> Cell(Terms[q][j], date)]
    BY <1>2 DEF Outcome
  <2>2. \A j \in DOMAIN Terms[q] : Cell(Terms[q][j], date) \in Cells
    BY <1>2, CellType
  <2>3. Outcome(q, date) \in [1..Len(Terms[q]) -> Cells]
    BY <1>1, <2>1, <2>2
  <2> QED
    BY <1>1, <2>3, SeqDef
<1> QED
  BY <1>2, SnapshotConstants DEF Outcome

LEMMA RunKeeps ==
    ASSUME ReaderInv, NEW q \in Queries, NEW date \in Dates, Run(q, date)
    PROVE  ReaderInv'
<1> DEFINE ts == {Terms[q][j].table : j \in DOMAIN Terms[q]}
<1>1. MetaInv /\ ArrowInv /\ MemoInv /\ AnswersInv /\ Key[q] \in Keys
  BY DEF ReaderInv, Keys
<1>2. ReadStep(ts, ts, date)
  BY RunReads
<1>3. MetaInv' /\ ArrowInv'
  BY <1>2, ReadKeeps
<1>4. \A j \in DOMAIN Terms[q] :
         /\ Terms[q][j].table \in Tables
         /\ arrow'[<<Terms[q][j].table, date>>] # NotRead
         /\ arrow'[<<Terms[q][j].table, date>>] = Viewed(Terms[q][j].table, date)
  BY <1>1, <1>2, ReadStepKeeps, TermsType
<1>5. \A t \in Tables, d \in Dates :
         arrow[<<t, d>>] # NotRead => arrow'[<<t, d>>] = arrow[<<t, d>>]
  BY <1>1, <1>2, ReadStepKeeps
<1>6. PICK cells :
         /\ cells = Outcome(q, date)
         /\ memo' = [memo EXCEPT ![MemoKey(q, date)] = Result(q, cells)]
         /\ Answer(q, date, Result(q, cells))
  BY DEF Run
<1>7. \A j \in DOMAIN Terms[q] :
         /\ Viewed(Terms[q][j].table, date) \in Views
         /\ Viewed(Terms[q][j].table, date)' = Viewed(Terms[q][j].table, date)
  BY <1>3, <1>4 DEF ArrowInv, Viewed
<1>8. cells = Outcome(q, date)' /\ Result(q, cells) \in Results
  <2>1. cells \in Seq(Cells) \cup {NotEvaluable}
    BY <1>6, <1>7, OutcomeType
  <2> QED
    BY <1>6, <1>7, <2>1, SameViews DEF Result, Results
<1>9. PICK r \in Results : r = Result(q, cells) /\ r.query = q /\ r.cells = cells
  BY <1>8 DEF Result
<1>10. r # NotRun
  BY <1>9, SnapshotConstants
<1>11. /\ memo[<<Key[q], date>>] = NotRun
       /\ memo' = [memo EXCEPT ![<<Key[q], date>>] = r]
       /\ answers' = [answers EXCEPT ![<<q, date>>] = @ \cup {r}]
       /\ Troubled(q, date) = {}
  BY <1>6, <1>9 DEF Run, MemoKey, Answer
<1>12. MemoInv'
  <2>1. memo' \in [Keys \X Dates -> Results \cup {NotRun}]
    BY <1>1, <1>11 DEF MemoInv
  <2>2. \A key \in Keys, d \in Dates :
           memo'[<<key, d>>] = IF key = Key[q] /\ d = date THEN r ELSE memo[<<key, d>>]
    BY <1>1, <1>11 DEF MemoInv
  <2>3. (/\ Key[memo[<<Key[q], date>>].query] = Key[q]
         /\ memo[<<Key[q], date>>].cells = Outcome(memo[<<Key[q], date>>].query, date)
         /\ \A j \in DOMAIN Terms[memo[<<Key[q], date>>].query] :
               arrow[<<Terms[memo[<<Key[q], date>>].query][j].table, date>>] # NotRead)'
    <3>1. memo'[<<Key[q], date>>].query = q /\ memo'[<<Key[q], date>>].cells = cells
      BY <1>1, <1>9, <2>2
    <3>2. Outcome(memo[<<Key[q], date>>].query, date)' = Outcome(q, date)'
      BY <3>1
    <3> QED
      BY <1>4, <1>8, <3>1, <3>2
  <2>4. ASSUME NEW key \in Keys, NEW d \in Dates, memo'[<<key, d>>] # NotRun
        PROVE  (/\ Key[memo[<<key, d>>].query] = key
                /\ memo[<<key, d>>].cells = Outcome(memo[<<key, d>>].query, d)
                /\ \A j \in DOMAIN Terms[memo[<<key, d>>].query] :
                      arrow[<<Terms[memo[<<key, d>>].query][j].table, d>>] # NotRead)'
    <3>1. CASE key = Key[q] /\ d = date
      BY <2>3, <3>1
    <3>2. CASE ~(key = Key[q] /\ d = date)
      <4>1. memo'[<<key, d>>] = memo[<<key, d>>] /\ memo[<<key, d>>] # NotRun
        BY <2>2, <2>4, <3>2
      <4> QED
        BY <1>1, <1>5, <4>1, MemoStays
    <3> QED
      BY <3>1, <3>2
  <2> QED
    BY <2>1, <2>4 DEF MemoInv
<1>13. AnswersInv'
  <2>1. answers' \in [Queries \X Dates -> SUBSET (Results \cup {NoSnapshot, Lost})]
    BY <1>1, <1>11 DEF AnswersInv
  <2>2. ASSUME NEW p \in Queries, NEW d \in Dates, NEW a \in answers'[<<p, d>>]
        PROVE  IF memo'[<<Key[p], d>>] # NotRun
               THEN a = memo'[<<Key[p], d>>]
               ELSE StuckAt(p, d, a)'
    <3>1. Key[p] \in Keys
      BY DEF Keys
    <3>2. a \in answers[<<p, d>>] \/ (p = q /\ d = date /\ a = r)
      BY <1>1, <1>11 DEF AnswersInv
    <3>3. CASE Key[p] = Key[q] /\ d = date
      <4>1. a \notin answers[<<p, d>>]
        BY <1>1, <1>11, <3>3, StuckIsTroubled DEF AnswersInv
      <4>2. memo'[<<Key[p], d>>] = r
        BY <1>1, <1>11, <3>3 DEF MemoInv
      <4> QED
        BY <1>10, <3>2, <4>1, <4>2
    <3>4. CASE ~(Key[p] = Key[q] /\ d = date)
      <4>1. memo'[<<Key[p], d>>] = memo[<<Key[p], d>>] /\ a \in answers[<<p, d>>]
        BY <1>1, <1>11, <3>1, <3>2, <3>4 DEF MemoInv
      <4> QED
        BY <1>1, <1>2, <4>1, StuckThroughReads DEF AnswersInv
    <3> QED
      BY <3>3, <3>4
  <2> QED
    BY <2>1, <2>2 DEF AnswersInv
<1> QED
  BY <1>3, <1>12, <1>13 DEF ReaderInv

LEMMA RaiseKeeps ==
    ASSUME ReaderInv, NEW q \in Queries, NEW date \in Dates, Raise(q, date)
    PROVE  ReaderInv'
<1>1. MetaInv /\ ArrowInv /\ MemoInv /\ AnswersInv
  BY DEF ReaderInv
<1>2. PICK j \in DOMAIN Terms[q] :
         /\ ReadStep(TablesBefore(q, j + 1), TablesBefore(q, j), date)
         /\ Terms[q][j].table \in Tables
         /\ Terms[q][j].table \in TablesBefore(q, j + 1)
         /\ Terms[q][j].table \notin TablesBefore(q, j)
         /\ \A i \in DOMAIN Terms[q] : i < j => Terms[q][i].table \in TablesBefore(q, j)
         /\ \E a \in {NoSnapshot, Lost} :
               Trouble(Terms[q][j].table, date) = {a} /\ Answer(q, date, a)
  BY RaiseReads
<1>3. PICK t \in Tables : t = Terms[q][j].table
  BY <1>2
<1>4. PICK b \in {NoSnapshot, Lost} : Trouble(t, date) = {b} /\ Answer(q, date, b)
  BY <1>2, <1>3
<1>5. memo[<<Key[q], date>>] = NotRun /\ memo' = memo
  BY DEF Raise, MemoKey
<1>6. MetaInv' /\ ArrowInv' /\ MemoInv'
  BY <1>2, <1>5, ReadKeeps
<1>7. StuckAt(q, date, b)'
  <2>1. arrow'[<<t, date>>] = arrow[<<t, date>>] /\ loaded'[t] = Loaded(t)
        /\ loaded'[t] # NotLoaded /\ live' = live
    BY <1>1, <1>2, <1>3, ReadStepKeeps DEF ReadStep, warehouse
  <2>2. Loaded(t)' = Loaded(t)
    BY <2>1 DEF Loaded
  <2>3. Trouble(t, date)' = Trouble(t, date)
    BY <2>1, <2>2 DEF Trouble, Present, Resolve, Matches
  <2>4. \A i \in DOMAIN Terms[q] : i < j => arrow'[<<Terms[q][i].table, date>>] # NotRead
    BY <1>1, <1>2, ReadStepKeeps
  <2> QED
    BY <1>3, <1>4, <2>1, <2>3, <2>4 DEF StuckAt
<1>8. answers' = [answers EXCEPT ![<<q, date>>] = @ \cup {b}]
  BY <1>4 DEF Answer
<1>9. AnswersInv'
  <2>1. answers' \in [Queries \X Dates -> SUBSET (Results \cup {NoSnapshot, Lost})]
    BY <1>1, <1>8 DEF AnswersInv
  <2>2. ASSUME NEW p \in Queries, NEW d \in Dates, NEW a \in answers'[<<p, d>>]
        PROVE  IF memo[<<Key[p], d>>] # NotRun
               THEN a = memo[<<Key[p], d>>]
               ELSE StuckAt(p, d, a)'
    <3>1. a \in answers[<<p, d>>] \/ (p = q /\ d = date /\ a = b)
      BY <1>1, <1>8 DEF AnswersInv
    <3>2. CASE a \in answers[<<p, d>>]
      BY <1>1, <1>2, <3>2, StuckThroughReads DEF AnswersInv
    <3>3. CASE p = q /\ d = date /\ a = b
      BY <1>5, <1>7, <3>3
    <3> QED
      BY <3>1, <3>2, <3>3
  <2> QED
    BY <1>5, <2>1, <2>2 DEF AnswersInv
<1> QED
  BY <1>6, <1>9 DEF ReaderInv

LEMMA ReaderInvHolds == Spec => []ReaderInv
<1>1. Init => ReaderInv
  <2> SUFFICES ASSUME Init PROVE ReaderInv
    OBVIOUS
  <2>1. \A t \in Tables : FirstSchema[t] \in Schemas
    BY SnapshotConstants
  <2>2. \A t \in Tables : [snaps |-> <<>>, schemas |-> <<FirstSchema[t]>>] \in Metadata
    <3> SUFFICES ASSUME NEW t \in Tables
                 PROVE  [snaps |-> <<>>, schemas |-> <<FirstSchema[t]>>] \in Metadata
      OBVIOUS
    <3>1. <<>> \in Seq(Snapshots) /\ <<FirstSchema[t]>> \in Seq(Schemas)
      BY <2>1
    <3> QED
      BY <3>1 DEF Metadata
  <2>3. \A t \in Tables : live[t].snaps = <<>> /\ live[t].schemas = <<FirstSchema[t]>>
                          /\ live[t] \in Metadata /\ Loaded(t) = live[t]
    BY <2>2 DEF Init, Loaded
  <2>4. \A t \in Tables : WellFormed(live[t], 0)
    <3>1. DOMAIN <<>> = {} /\ \A schema : Len(<<schema>>) = 1
      OBVIOUS
    <3> QED
      BY <2>3, <3>1 DEF WellFormed
  <2>5. MetaInv
    <3>1. live \in [Tables -> Metadata] /\ loaded \in [Tables -> Metadata \cup {NotLoaded}]
      BY <2>2 DEF Init
    <3>2. commits = 0 /\ 0 \in 0..MaxCommits
      BY SnapshotConstants DEF Init
    <3> QED
      BY <2>3, <2>4, <3>1, <3>2 DEF MetaInv
  <2>6. ArrowInv /\ MemoInv /\ AnswersInv
    BY DEF Init, ArrowInv, MemoInv, AnswersInv
  <2> QED
    BY <2>5, <2>6 DEF ReaderInv
<1>2. ReaderInv /\ [Next]_vars => ReaderInv'
  <2> SUFFICES ASSUME ReaderInv, [Next]_vars PROVE ReaderInv'
    OBVIOUS
  <2>1. CASE WarehouseNext
    BY <2>1, WarehouseKeeps
  <2>2. CASE ReaderNext
    BY <2>2, LoadKeeps, ScanKeeps, RecallKeeps, RunKeeps, RaiseKeeps DEF ReaderNext
  <2>3. CASE UNCHANGED vars
    <3>1. MetaInv /\ ArrowInv /\ MemoInv /\ AnswersInv
          /\ live' = live /\ commits' = commits /\ loaded' = loaded /\ arrow' = arrow
          /\ memo' = memo /\ answers' = answers
      BY <2>3 DEF ReaderInv, vars, warehouse, reader
    <3>2. LoadedWith({}) = loaded /\ ArrowWith({}, 0) = arrow
      BY <3>1 DEF LoadedWith, MetaInv, ArrowWith, ArrowInv
    <3>3. ReadStep({}, {}, 0)
      BY <3>1, <3>2 DEF ReadStep, warehouse
    <3> QED
      BY <3>1, <3>3, ReadKeeps DEF ReaderInv
  <2> QED
    BY <2>1, <2>2, <2>3 DEF Next
<1> QED
  BY <1>1, <1>2, PTL DEF Spec

-----------------------------------------------------------------------------
(* What follows.                                                           *)

\* What the adapter and the executor cache, and what they answer, is of its type
\* (catalog.py:170-181; executor.py:123-162).
THEOREM ReaderTypeCorrect == Spec => []TypeOK
<1>1. ReaderInv => TypeOK
  BY DEF ReaderInv, MetaInv, ArrowInv, MemoInv, AnswersInv, TypeOK
<1> QED
  BY <1>1, ReaderInvHolds, PTL

\* A query that is asked again at a date is answered as before, whatever the
\* warehouse committed, renamed or expired meanwhile, exceptions included
\* (executor.py:111-162; catalog.py:73-78, 166-181).
THEOREM AnswersStayTheSame == Spec => []AnswersAreStable
<1>1. ASSUME ReaderInv, NEW q \in Queries, NEW date \in Dates
      PROVE  Cardinality(answers[<<q, date>>]) <= 1
  <2>1. \A a, b \in answers[<<q, date>>] : a = b
    <3> SUFFICES ASSUME NEW a \in answers[<<q, date>>], NEW b \in answers[<<q, date>>]
                 PROVE  a = b
      OBVIOUS
    <3>1. CASE memo[<<Key[q], date>>] # NotRun
      BY <1>1, <3>1 DEF ReaderInv, AnswersInv
    <3>2. CASE memo[<<Key[q], date>>] = NotRun
      <4>1. StuckAt(q, date, a) /\ StuckAt(q, date, b)
        BY <1>1, <3>2 DEF ReaderInv, AnswersInv
      <4>2. PICK j \in DOMAIN Terms[q] :
              /\ Trouble(Terms[q][j].table, date) = {a}
              /\ \A i \in DOMAIN Terms[q] :
                    i < j => arrow[<<Terms[q][i].table, date>>] # NotRead
        BY <4>1 DEF StuckAt
      <4>3. PICK k \in DOMAIN Terms[q] :
              /\ Trouble(Terms[q][k].table, date) = {b}
              /\ \A i \in DOMAIN Terms[q] :
                    i < k => arrow[<<Terms[q][i].table, date>>] # NotRead
        BY <4>1 DEF StuckAt
      <4>4. /\ arrow[<<Terms[q][j].table, date>>] = NotRead
            /\ arrow[<<Terms[q][k].table, date>>] = NotRead
        BY <4>2, <4>3 DEF Trouble
      <4>5. ~(j < k) /\ ~(k < j)
        BY <4>2, <4>3, <4>4
      <4>6. j = k
        BY <4>5, TermsType
      <4> QED
        BY <4>2, <4>3, <4>6
    <3> QED
      BY <3>1, <3>2
  <2>2. CASE answers[<<q, date>>] = {}
    BY <2>2, FS_EmptySet
  <2>3. CASE answers[<<q, date>>] # {}
    <3>1. PICK a : answers[<<q, date>>] = {a}
      BY <2>1, <2>3
    <3> QED
      BY <3>1, FS_Singleton
  <2> QED
    BY <2>2, <2>3
<1>2. ReaderInv => AnswersAreStable
  BY <1>1 DEF AnswersAreStable
<1> QED
  BY <1>2, ReaderInvHolds, PTL

\* A result that a query was given is the cached one; it was read at its date,
\* term by term, from what is still cached.
LEMMA GivenIs ==
    ASSUME ReaderInv, NEW q \in Queries, NEW date \in Dates, NEW result \in Given(q, date)
    PROVE  /\ result \in Results /\ result.query \in Queries
           /\ Key[result.query] = Key[q]
           /\ result.cells = Outcome(result.query, date)
           /\ \A j \in DOMAIN Terms[result.query] :
                 /\ arrow[<<Terms[result.query][j].table, date>>] # NotRead
                 /\ Viewed(Terms[result.query][j].table, date) =
                       View(loaded[Terms[result.query][j].table], date)
                 /\ loaded[Terms[result.query][j].table] # NotLoaded
                 /\ Matches(loaded[Terms[result.query][j].table], date) # {}
                 /\ WellFormed(loaded[Terms[result.query][j].table], commits)
<1>1. MetaInv /\ ArrowInv /\ MemoInv /\ AnswersInv /\ Key[q] \in Keys
  BY DEF ReaderInv, Keys
<1>2. result \in Results /\ result \in answers[<<q, date>>]
  BY DEF Given
<1>3. result \notin {NoSnapshot, Lost}
  BY <1>2, SnapshotConstants
<1>4. memo[<<Key[q], date>>] # NotRun /\ result = memo[<<Key[q], date>>]
  <2>1. ASSUME StuckAt(q, date, result) PROVE FALSE
    <3>1. \E t : Trouble(t, date) = {result}
      BY <2>1 DEF StuckAt
    <3> QED
      BY <1>3, <3>1, TroubleIs
  <2> QED
    BY <1>1, <1>2, <2>1 DEF AnswersInv
<1>5. PICK p \in Queries : p = result.query
  BY <1>2 DEF Results
<1>6. /\ Key[p] = Key[q]
      /\ result.cells = Outcome(p, date)
      /\ \A j \in DOMAIN Terms[p] : arrow[<<Terms[p][j].table, date>>] # NotRead
  BY <1>1, <1>4, <1>5 DEF MemoInv
<1>7. ASSUME NEW j \in DOMAIN Terms[p]
      PROVE  /\ Viewed(Terms[p][j].table, date) = View(loaded[Terms[p][j].table], date)
             /\ loaded[Terms[p][j].table] # NotLoaded
             /\ Matches(loaded[Terms[p][j].table], date) # {}
             /\ WellFormed(loaded[Terms[p][j].table], commits)
  <2>1. PICK t \in Tables : t = Terms[p][j].table
    BY TermsType
  <2>2. arrow[<<t, date>>] # NotRead
    BY <1>6, <2>1
  <2>3. /\ Viewed(t, date) = View(loaded[t], date)
        /\ loaded[t] # NotLoaded /\ Matches(loaded[t], date) # {}
    BY <1>1, <2>2 DEF ArrowInv, Viewed
  <2>4. WellFormed(loaded[t], commits)
    BY <1>1, <2>3 DEF MetaInv, Loaded
  <2> QED
    BY <2>1, <2>3, <2>4
<1> QED
  BY <1>2, <1>5, <1>6, <1>7

\* The tables of two formulas with one key are the same, term by term.
LEMMA SameTables ==
    ASSUME NEW p \in Queries, NEW q \in Queries, Key[p] = Key[q]
    PROVE  /\ DOMAIN Terms[p] = DOMAIN Terms[q]
           /\ \A j \in DOMAIN Terms[q] : Terms[p][j].table = Terms[q][j].table
<1>1. [i \in DOMAIN Terms[p] |-> Terms[p][i].table] =
      [i \in DOMAIN Terms[q] |-> Terms[q][i].table]
  BY SnapshotConstants
<1>2. DOMAIN [i \in DOMAIN Terms[p] |-> Terms[p][i].table] =
      DOMAIN [i \in DOMAIN Terms[q] |-> Terms[q][i].table]
  BY <1>1
<1>3. \A j \in DOMAIN Terms[q] : [i \in DOMAIN Terms[p] |-> Terms[p][i].table][j] =
                                 [i \in DOMAIN Terms[q] |-> Terms[q][i].table][j]
  BY <1>1
<1> QED
  BY <1>2, <1>3

\* A value is read from the latest snapshot in the window of its date that the
\* metadata in use has, never silently from another (catalog.py:144-164).
THEOREM ReadsAreLatest == Spec => []ReadsLatestInWindow
<1> DEFINE Near(date) == (date - Window)..(date + Window)
<1>1. ASSUME ReaderInv, NEW q \in Queries, NEW date \in Dates,
             NEW result \in Given(q, date), Reading(result), NEW j \in DOMAIN Terms[q]
      PROVE  /\ result.cells[j].snap.asOf \in Near(date)
             /\ \A i \in DOMAIN loaded[Terms[q][j].table].snaps :
                   loaded[Terms[q][j].table].snaps[i].asOf \in Near(date)
                      => loaded[Terms[q][j].table].snaps[i].id <= result.cells[j].snap.id
  <2>1. PICK p \in Queries : p = result.query
    BY <1>1, GivenIs
  <2>2. Key[p] = Key[q] /\ result.cells = Outcome(p, date) /\ result.cells # NotEvaluable
    BY <1>1, <2>1, GivenIs DEF Reading
  <2>3. j \in DOMAIN Terms[p] /\ Terms[p][j].table = Terms[q][j].table
    BY <2>2, SameTables
  <2>4. PICK meta : meta = loaded[Terms[q][j].table]
    OBVIOUS
  <2>5. /\ Viewed(Terms[p][j].table, date) = View(meta, date)
        /\ Matches(meta, date) # {} /\ WellFormed(meta, commits)
    <3>1. j \in DOMAIN Terms[result.query] /\ Terms[result.query][j].table = Terms[p][j].table
      BY <2>1, <2>3
    <3>2. /\ Viewed(Terms[result.query][j].table, date) =
                View(loaded[Terms[result.query][j].table], date)
          /\ Matches(loaded[Terms[result.query][j].table], date) # {}
          /\ WellFormed(loaded[Terms[result.query][j].table], commits)
      BY <1>1, <3>1, GivenIs
    <3> QED
      BY <2>3, <2>4, <3>1, <3>2
  <2>6. result.cells[j].snap = Resolve(meta, date)
    <3>1. result.cells = [k \in DOMAIN Terms[p] |-> Cell(Terms[p][k], date)]
      BY <2>2 DEF Outcome
    <3>2. result.cells[j] = Cell(Terms[p][j], date)
      BY <2>3, <3>1
    <3> QED
      BY <2>5, <3>2 DEF Cell, View
  <2> DEFINE m == Max(Matches(meta, date))
  <2>7. /\ m \in DOMAIN meta.snaps /\ m \in Matches(meta, date)
        /\ Resolve(meta, date) = meta.snaps[m]
        /\ \A i \in Matches(meta, date) : i <= m
    BY <2>5, ResolveIs
  <2> HIDE DEF m
  <2>8. /\ date \in Int /\ Window \in Nat /\ DOMAIN meta.snaps \subseteq Nat
        /\ \A i \in DOMAIN meta.snaps : meta.snaps[i].asOf \in Int /\ meta.snaps[i].id \in Nat
    <3>1. date \in Int /\ Window \in Nat
      BY SnapshotConstants
    <3>2. meta \in Metadata
      BY <2>5 DEF WellFormed
    <3>3. DOMAIN meta.snaps \subseteq Nat
      BY <3>2, MetaType
    <3>4. \A i \in DOMAIN meta.snaps : meta.snaps[i] \in Snapshots
      BY <3>2, MetaType
    <3> QED
      BY <3>1, <3>3, <3>4, SnapshotConstants DEF Snapshots
  <2>9. \A i \in DOMAIN meta.snaps :
           i \in Matches(meta, date) <=> meta.snaps[i].asOf \in Near(date)
    BY <2>8 DEF Matches
  <2>10. ASSUME NEW i \in Matches(meta, date) PROVE meta.snaps[i].id <= meta.snaps[m].id
    <3>1. i \in DOMAIN meta.snaps /\ i <= m
      BY <2>7 DEF Matches
    <3>2. CASE i < m
      BY <2>5, <2>7, <2>8, <3>1, <3>2 DEF WellFormed
    <3>3. CASE i = m
      BY <2>7, <2>8, <3>3
    <3> QED
      BY <2>7, <2>8, <3>1, <3>2, <3>3
  <2> QED
    BY <2>4, <2>6, <2>7, <2>9, <2>10
<1>2. ReaderInv => ReadsLatestInWindow
  BY <1>1 DEF ReadsLatestInWindow
<1> QED
  BY <1>2, ReaderInvHolds, PTL

\* Without reused names, what a view has under a name of today is the field
\* with that name.
LEMMA TodaysColumns ==
    ASSUME NEW n, NEW meta, WellFormed(meta, n), NEW date \in Dates,
           Matches(meta, date) # {}, NamesNeverReused(meta), NEW column \in ColumnNames,
           \E f \in Fields : CurrentSchema(meta)[f] = column
    PROVE  View(meta, date).columns[column] =
              {f \in Fields : /\ CurrentSchema(meta)[f] = column
                              /\ View(meta, date).snap.schema[f] # NoColumn}
<1> DEFINE snap == Resolve(meta, date)
           today == CurrentSchema(meta)
           renamed(name, i) == {f \in Fields : /\ meta.schemas[i][f] = name
                                               /\ today[f] \notin {NoColumn, name}}
           stale(name) == {i \in DOMAIN meta.schemas : renamed(name, i) # {}}
<1>1. PICK k \in DOMAIN meta.schemas : snap.schema = meta.schemas[k]
  <2>1. PICK m \in DOMAIN meta.snaps : snap = meta.snaps[m]
    BY ResolveIs
  <2> QED
    BY <2>1 DEF WellFormed
<1>2. /\ Len(meta.schemas) \in DOMAIN meta.schemas /\ Len(meta.schemas) \in Nat
      /\ DOMAIN meta.schemas = 1..Len(meta.schemas)
      /\ today = meta.schemas[Len(meta.schemas)]
  BY MetaType DEF WellFormed, CurrentSchema
<1> HIDE DEF snap, today
<1>3. ASSUME NEW f \in Fields, snap.schema[f] # NoColumn, today[f] # NoColumn
      PROVE  Normalised(meta, snap.schema[f]) = today[f]
  <2> DEFINE name == snap.schema[f]
  <2>1. \A i \in DOMAIN meta.schemas : renamed(name, i) \subseteq {f}
    BY <1>1, <1>3 DEF NamesNeverReused
  <2>2. Normalised(meta, name) =
           IF stale(name) = {} THEN name
           ELSE today[CHOOSE g \in renamed(name, Max(stale(name))) : TRUE]
    BY DEF Normalised, today
  <2>3. CASE stale(name) = {}
    <3>1. f \notin renamed(name, k)
      BY <1>1, <2>3
    <3>2. today[f] = name
      BY <1>1, <1>3, <3>1
    <3> QED
      BY <2>2, <2>3, <3>2
  <2>4. CASE stale(name) # {}
    <3>1. stale(name) \in SUBSET (1..Len(meta.schemas))
      BY <1>2
    <3>2. Max(stale(name)) \in stale(name)
      BY <1>2, <2>4, <3>1, LastPosition
    <3>3. renamed(name, Max(stale(name))) = {f}
      BY <2>1, <3>2
    <3>4. (CHOOSE g \in renamed(name, Max(stale(name))) : TRUE) = f
      BY <3>3
    <3> QED
      BY <2>2, <2>4, <3>4
  <2> QED
    BY <2>3, <2>4
<1>4. ASSUME NEW f \in Fields, snap.schema[f] # NoColumn, today[f] = NoColumn
      PROVE  Normalised(meta, snap.schema[f]) = snap.schema[f]
  <2> DEFINE name == snap.schema[f]
  <2>1. \A i \in DOMAIN meta.schemas : renamed(name, i) = {}
    <3>1. \A i \in DOMAIN meta.schemas : \A g \in renamed(name, i) : g = f
      BY <1>1, <1>4 DEF NamesNeverReused
    <3> QED
      BY <1>4, <3>1
  <2>2. stale(name) = {}
    BY <2>1
  <2> QED
    BY <2>2 DEF Normalised, today
<1>5. ASSUME NEW f \in Fields, snap.schema[f] # NoColumn
      PROVE  Normalised(meta, snap.schema[f]) = column <=> today[f] = column
  <2>1. column # NoColumn
    BY SnapshotConstants
  <2>2. CASE today[f] # NoColumn
    BY <1>3, <1>5, <2>2
  <2>3. CASE today[f] = NoColumn
    <3>1. PICK g \in Fields : today[g] = column
      BY DEF today
    <3>2. snap.schema[f] # column
      BY <1>1, <1>2, <2>1, <2>3, <3>1 DEF NamesNeverReused
    <3> QED
      BY <1>4, <1>5, <2>1, <2>3, <3>2
  <2> QED
    BY <2>2, <2>3
<1>6. View(meta, date).snap = snap /\
      View(meta, date).columns[column] =
         {f \in Fields : /\ snap.schema[f] # NoColumn
                         /\ Normalised(meta, snap.schema[f]) = column}
  BY DEF View, snap
<1> QED
  BY <1>5, <1>6 DEF today

\* A query in today's names reads the same fields in an older snapshot, as long
\* as no name went from one field to another and no formula shares its key
\* (catalog.py:128-142, 166-181).
THEOREM TodaysNamesRead == Spec => []TodaysNamesUnlessReused
<1>1. ASSUME ReaderInv, NEW q \in Queries, NEW date \in Dates, Alone(q),
             \A j \in DOMAIN Terms[q] :
                loaded[Terms[q][j].table] # NotLoaded =>
                   NamesNeverReused(loaded[Terms[q][j].table]),
             NEW result \in Given(q, date),
             \A j \in DOMAIN Terms[q] : TodaysField(Terms[q][j], date) # {}
      PROVE  /\ result.query = q
             /\ Reading(result)
             /\ \A j \in DOMAIN Terms[q] :
                   result.cells[j].field \in TodaysField(Terms[q][j], date)
  <2>1. result.query = q
    BY <1>1, GivenIs DEF Alone
  <2>2. result.cells = Outcome(q, date)
    BY <1>1, <2>1, GivenIs
  <2>3. ASSUME NEW j \in DOMAIN Terms[q]
        PROVE  /\ Viewed(Terms[q][j].table, date) \in Views
               /\ Columns(Terms[q][j], date) = TodaysField(Terms[q][j], date)
    <3>1. PICK t \in Tables, column \in ColumnNames :
             t = Terms[q][j].table /\ column = Terms[q][j].column
      BY TermsType
    <3>2. /\ arrow[<<t, date>>] # NotRead
          /\ Viewed(t, date) = View(loaded[t], date)
          /\ loaded[t] # NotLoaded
          /\ Matches(loaded[t], date) # {}
          /\ WellFormed(loaded[t], commits)
      BY <1>1, <2>1, <3>1, GivenIs
    <3>3. arrow[<<t, date>>] = View(loaded[t], date) /\ NamesNeverReused(loaded[t])
      BY <1>1, <3>1, <3>2 DEF Viewed
    <3>4. TodaysField(Terms[q][j], date) =
             {f \in Fields : /\ CurrentSchema(loaded[t])[f] = column
                             /\ View(loaded[t], date).snap.schema[f] # NoColumn}
      BY <3>1, <3>3 DEF TodaysField
    <3>5. \E f \in Fields : CurrentSchema(loaded[t])[f] = column
      BY <1>1, <3>4
    <3>6. View(loaded[t], date).columns[column] = TodaysField(Terms[q][j], date)
      BY <3>2, <3>3, <3>4, <3>5, TodaysColumns
    <3>7. Viewed(t, date) \in Views
      BY <3>2, ViewType
    <3> QED
      BY <3>1, <3>2, <3>6, <3>7 DEF Columns
  <2>4. Outcome(q, date) # NotEvaluable
    BY <1>1, <2>3, OutcomeType
  <2>5. \A j \in DOMAIN Terms[q] : result.cells[j] = Cell(Terms[q][j], date)
    BY <2>2, <2>4 DEF Outcome
  <2>6. \A j \in DOMAIN Terms[q] :
           result.cells[j].field \in TodaysField(Terms[q][j], date)
    BY <1>1, <2>3, <2>5, CellType
  <2> QED
    BY <2>1, <2>2, <2>4, <2>6 DEF Reading
<1>2. ReaderInv => TodaysNamesUnlessReused
  BY <1>1 DEF TodaysNamesUnlessReused, ByTodaysNames
<1> QED
  BY <1>2, ReaderInvHolds, PTL
=============================================================================
