--------------------------- MODULE Contradictions ---------------------------
(***************************************************************************)
(* detect_contradictions (report/conflict.py): the statements mined from   *)
(* policies, requirements and dashboards are grouped by metric, in the     *)
(* order in which they come, against a group name that may change with     *)
(* every member; a group whose members claim different structures is a     *)
(* contradiction.                                                          *)
(*                                                                         *)
(* Which names pass for the same metric, and how long a name is, are       *)
(* parameters (NameMatching defines them).  The order of a contradiction's *)
(* sides, by trust, is layout and left out.                                *)
(***************************************************************************)
EXTENDS Naturals, Sequences, FiniteSets, FiniteSetsExt

CONSTANTS
    Names,              \* metric names as they are printed, in lower case
    Structures,         \* what a statement claims: "A - B", "SUM(A)", ...
    NoStructure,        \* a statement in which no formula was recognised
    Same,               \* <<name of a statement, name of a group>> taken for one metric
    Alike,              \* <<name of a mapping, name of a group>> similar enough
    Length,             \* name |-> number of characters
    MaxStatements,      \* bound: statements of a run
    MappingLists,       \* verdicts of the latest report, in their order
    NoMapping

ASSUME NamesAssumption ==
    /\ Same \subseteq Names \X Names
    /\ \A name \in Names : <<name, name>> \in Same
    /\ Length \in [Names -> Nat]
ASSUME StatementsAssumption == MaxStatements \in Nat
ASSUME StructuresAssumption == NoStructure \notin Structures

\* EvidenceStatement.  A document's statement may have no structure; one from a
\* Tableau calculation always has one.
Statement == [name : Names, structure : Structures \cup {NoStructure}]

VARIABLES
    statements,     \* the input, in order
    mappings,       \* the verdicts that may explain a contradiction: name, resolved
    next,           \* the statement in hand
    groups,         \* [name, members]: members are positions in statements
    found,          \* the contradictions: [name, sides, note]
    phase           \* "grouping", "done"

vars == <<statements, mappings, next, groups, found, phase>>

Init ==
    /\ statements \in UNION {[1..n -> Statement] : n \in 0..MaxStatements}
    /\ mappings \in MappingLists
    /\ next = 1
    /\ groups = <<>>
    /\ found = {}
    /\ phase = "grouping"

\* A faulty variant of Homes: only the group opened last is compared.
HomesLatest(name) ==
    {g \in DOMAIN groups : g = Len(groups) /\ <<name, groups[g].name>> \in Same}

\* The groups that would take a statement of this name.
Homes(name) == {g \in DOMAIN groups : <<name, groups[g].name>> \in Same}

\* The loop breaks at the first one.
Home(name) == Min(Homes(name))

\* A faulty variant of Joined: the statement that lends its name is not kept.
JoinedByName(group, stmt) ==
    IF Length[statements[stmt].name] < Length[group.name]
    THEN [group EXCEPT !.name = statements[stmt].name]
    ELSE [group EXCEPT !.members = @ \cup {stmt}]

\* A member with a shorter name gives the group its name.
Joined(group, stmt) ==
    [name |-> IF Length[statements[stmt].name] < Length[group.name]
              THEN statements[stmt].name ELSE group.name,
     members |-> group.members \cup {stmt}]

Reading == phase = "grouping" /\ next <= Len(statements)

Join ==
    /\ Reading
    /\ Homes(statements[next].name) # {}
    /\ LET home == Home(statements[next].name)
       IN  groups' = [groups EXCEPT ![home] = Joined(groups[home], next)]
    /\ next' = next + 1
    /\ UNCHANGED <<statements, mappings, found, phase>>

Found ==
    /\ Reading
    /\ Homes(statements[next].name) = {}
    /\ groups' = Append(groups, [name |-> statements[next].name,
                                 members |-> {next}])
    /\ next' = next + 1
    /\ UNCHANGED <<statements, mappings, found, phase>>

Claims(members) ==
    {statements[m].structure : m \in members} \ {NoStructure}

\* What fingerprinting proved about the metric: the first resolved mapping whose
\* name is the group's or similar to it.  A suffix does not count here.
Note(name) ==
    LET telling == {i \in DOMAIN mappings :
                       /\ mappings[i].resolved
                       /\ \/ mappings[i].name = name
                          \/ <<mappings[i].name, name>> \in Alike}
    IN  IF telling = {} THEN NoMapping ELSE mappings[Min(telling)].name

\* A faulty variant of Disagreeing: an unreadable statement counts as a claim.
DisagreeingAny(group) == Cardinality({statements[m].structure : m \in group.members}) > 1

Disagreeing(group) == Cardinality(Claims(group.members)) > 1

Report ==
    /\ phase = "grouping"
    /\ next > Len(statements)
    /\ found' = {[name |-> groups[g].name, sides |-> groups[g].members,
                  note |-> Note(groups[g].name)] :
                    g \in {h \in DOMAIN groups : Disagreeing(groups[h])}}
    /\ phase' = "done"
    /\ UNCHANGED <<statements, mappings, next, groups>>

Done == phase = "done" /\ UNCHANGED vars

Next == Join \/ Found \/ Report \/ Done

Spec == Init /\ [][Next]_vars

-----------------------------------------------------------------------------
Read == 1..(next - 1)
NameOf(stmt) == statements[stmt].name
Claim(stmt) == statements[stmt].structure

\* The names in use fall into metrics: no chain of similar names leads from one
\* metric to another.
NamesAreClear ==
    LET used == {NameOf(s) : s \in DOMAIN statements}
    IN  /\ \A a, b \in used : <<a, b>> \in Same => <<b, a>> \in Same
        /\ \A a, b, c \in used :
              <<a, b>> \in Same /\ <<b, c>> \in Same => <<a, c>> \in Same

\* The two statements are in one group.
Together(s, t) == \E g \in DOMAIN groups : {s, t} \subseteq groups[g].members

\* Type correctness; each statement read is a member of one group and no other,
\* and a group is called as one of its members.
TypeOK ==
    /\ statements \in Seq(Statement)
    /\ next \in 1..(Len(statements) + 1)
    /\ groups \in Seq([name : Names, members : SUBSET Read])
    /\ UNION {groups[g].members : g \in DOMAIN groups} = Read
    /\ \A g, h \in DOMAIN groups :
          groups[g].members \cap groups[h].members # {} => g = h
    /\ \A g \in DOMAIN groups :
          groups[g].name \in {NameOf(s) : s \in groups[g].members}
    /\ phase \in {"grouping", "done"}

\* Whatever the order of the statements and the names that groups take on the
\* way, when names are clear two statements are grouped exactly when their names
\* pass for one metric (the loop at conflict.py:117-127).
GroupsAreMetrics ==
    NamesAreClear =>
        \A s, t \in Read : Together(s, t) <=> <<NameOf(s), NameOf(t)>> \in Same

\* When names are clear, two statements are reported against each other exactly
\* when they speak of one metric and their group holds two known structures; in
\* particular two different claims on one metric always surface, and no
\* contradiction has a side of another metric (conflict.py:101-104).
ConflictsSurface ==
    phase = "done" /\ NamesAreClear =>
        \A s, t \in DOMAIN statements :
            (\E c \in found : {s, t} \subseteq c.sides) <=>
            /\ <<NameOf(s), NameOf(t)>> \in Same
            /\ \E u, v \in DOMAIN statements :
                  /\ <<NameOf(s), NameOf(u)>> \in Same
                  /\ <<NameOf(s), NameOf(v)>> \in Same
                  /\ NoStructure \notin {Claim(u), Claim(v)}
                  /\ Claim(u) # Claim(v)
=============================================================================
