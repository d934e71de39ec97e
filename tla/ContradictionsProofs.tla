------------------------ MODULE ContradictionsProofs ------------------------
(***************************************************************************)
(* Proofs about the grouping of statements, for every relation between     *)
(* names, every length of a name and every sequence of statements.  While  *)
(* statements are read, GroupsInv says which two of them are together; the *)
(* properties follow from it.                                              *)
(***************************************************************************)
EXTENDS Contradictions, FiniteSetTheorems, SequenceTheorems, WellFoundedInduction, TLAPS

Group == [name : Names, members : SUBSET Read]

\* Where names are clear, any two members of groups are of one metric exactly
\* when they are in one group.
GroupsInv ==
    NamesAreClear =>
        \A g, h \in DOMAIN groups : \A s \in groups[g].members, t \in groups[h].members :
            <<NameOf(s), NameOf(t)>> \in Same <=> g = h

\* Once reported, the contradictions are those of the final groups.
FoundInv ==
    phase = "done" =>
        /\ next = Len(statements) + 1
        /\ found = {[name |-> groups[g].name, sides |-> groups[g].members,
                     note |-> Note(groups[g].name)] :
                        g \in {h \in DOMAIN groups : Disagreeing(groups[h])}}

-----------------------------------------------------------------------------

\* The least element of a set of positive numbers is one of its elements.
LEMMA MinIsElement ==
    ASSUME NEW S \in SUBSET Nat, S # {}
    PROVE  Min(S) \in S
<1> DEFINE R == {ss \in Nat \X Nat : ss[1] < ss[2]}
<1>1. IsWellFoundedOn(R, Nat)
  BY NatLessThanWellFounded, Zenon DEF OpToRel
<1>2. \A x, y \in Nat : y < x => <<y, x>> \in R
  OBVIOUS
<1> HIDE DEF R
<1>3. PICK x \in S : \A y \in S : <<y, x>> \notin R
  BY <1>1, WFMin
<1>4. ASSUME NEW y \in S PROVE x <= y
  <2>1. x \in Nat /\ y \in Nat
    OBVIOUS
  <2>2. ~ (y < x)
    BY <2>1, <1>2, <1>3
  <2> QED
    BY <2>1, <2>2
<1> QED
  BY <1>4 DEF Min

\* The home of a statement is a group that takes its name.
LEMMA HomeTakes ==
    ASSUME TypeOK, NEW name, Homes(name) # {}
    PROVE  Home(name) \in DOMAIN groups /\ <<name, groups[Home(name)].name>> \in Same
<1>1. Homes(name) \in SUBSET Nat
  BY LenProperties DEF Homes, TypeOK
<1> QED
  BY <1>1, MinIsElement DEF Home, Homes

LEMMA ReadingType ==
    ASSUME TypeOK, Reading
    PROVE  /\ next \in 1..Len(statements)
           /\ statements[next] \in Statement
           /\ NameOf(next) \in Names
           /\ next \notin Read /\ Read \subseteq DOMAIN statements
<1>1. next \in 1..Len(statements)
  BY LenProperties DEF TypeOK, Reading
<1>2. statements[next] \in Statement
  BY <1>1, ElementOfSeq DEF TypeOK
<1> QED
  BY <1>1, <1>2, LenProperties DEF Statement, NameOf, Read, TypeOK

\* The groups stay well-formed when more statements have been read.
LEMMA GroupsType ==
    ASSUME TypeOK, NEW R, Read \subseteq R
    PROVE  /\ groups \in Seq([name : Names, members : SUBSET R])
           /\ DOMAIN groups = 1..Len(groups) /\ Len(groups) \in Nat
           /\ \A g \in DOMAIN groups : groups[g] \in Group
<1>1. groups \in Seq(Group)
  BY DEF TypeOK, Group
<1>2. Group \subseteq [name : Names, members : SUBSET R]
  BY DEF Group
<1>3. groups \in Seq([name : Names, members : SUBSET R])
  BY <1>1, <1>2, SeqMonotonic
<1>4. DOMAIN groups = 1..Len(groups) /\ Len(groups) \in Nat
  BY <1>1, LenProperties
<1> QED
  BY <1>1, <1>3, <1>4, ElementOfSeq

\* What a group becomes when a statement joins it.
LEMMA JoinedType ==
    ASSUME NEW group, NEW N, NEW R, group \in [name : N, members : SUBSET R],
           NEW stmt, NameOf(stmt) \in N
    PROVE  /\ Joined(group, stmt) \in [name : N, members : SUBSET (R \cup {stmt})]
           /\ Joined(group, stmt).members = group.members \cup {stmt}
           /\ Joined(group, stmt).name \in {group.name, NameOf(stmt)}
BY DEF Joined, NameOf

-----------------------------------------------------------------------------

LEMMA InitType == Init => TypeOK
<1> SUFFICES ASSUME Init PROVE TypeOK
  OBVIOUS
<1>1. PICK n \in 0..MaxStatements : statements \in [1..n -> Statement]
  BY DEF Init
<1>2. n \in Nat
  BY StatementsAssumption
<1>3. statements \in Seq(Statement) /\ Len(statements) = n
  BY <1>1, <1>2, SeqDef
<1> QED
  BY <1>2, <1>3, EmptySeq DEF Init, TypeOK, Read, NameOf

\* What a step of the grouping does, in either case: the statement in hand is now a
\* member of one group, and no other membership changes.
LEMMA StepType == TypeOK /\ [Next]_vars => TypeOK'
<1> SUFFICES ASSUME TypeOK, [Next]_vars PROVE TypeOK'
  OBVIOUS
<1>1. CASE Join
  <2> DEFINE home == Home(NameOf(next))
  <2>1. /\ next \in 1..Len(statements) /\ NameOf(next) \in Names
        /\ next \notin Read /\ next \in Nat
    BY <1>1, ReadingType DEF Join
  <2>2. home \in DOMAIN groups
    BY <1>1, HomeTakes DEF Join, NameOf
  <2>3. /\ groups' = [groups EXCEPT ![home] = Joined(groups[home], next)]
        /\ statements' = statements /\ next' = next + 1 /\ phase' = phase
    BY <1>1 DEF Join, NameOf
  <2>4. Read' = Read \cup {next}
    BY <2>1, <2>3 DEF Read
  <2> DEFINE NewGroup == [name : Names, members : SUBSET Read']
  <2>5. /\ groups \in Seq(NewGroup) /\ DOMAIN groups = 1..Len(groups)
        /\ \A g \in DOMAIN groups : groups[g] \in Group
    BY <2>4, GroupsType
  <2>6. /\ Joined(groups[home], next) \in NewGroup
        /\ Joined(groups[home], next).members = groups[home].members \cup {next}
        /\ Joined(groups[home], next).name \in {groups[home].name, NameOf(next)}
    BY <2>1, <2>2, <2>4, <2>5, JoinedType DEF Group
  <2>7. /\ groups' \in Seq(NewGroup) /\ DOMAIN groups' = DOMAIN groups
        /\ \A g \in DOMAIN groups : groups'[g] = IF g = home THEN Joined(groups[home], next) ELSE groups[g]
    BY <2>2, <2>3, <2>5, <2>6, ExceptSeq, LenProperties
  <2>8. UNION {groups'[g].members : g \in DOMAIN groups'} = Read'
    BY <2>2, <2>4, <2>6, <2>7 DEF TypeOK
  <2>9. \A g, h \in DOMAIN groups' : groups'[g].members \cap groups'[h].members # {} => g = h
    BY <2>1, <2>2, <2>5, <2>6, <2>7 DEF TypeOK, Group
  <2>10. \A g \in DOMAIN groups' : groups'[g].name \in {NameOf(s) : s \in groups'[g].members}
    BY <2>2, <2>6, <2>7 DEF TypeOK
  <2> QED
    BY <2>1, <2>3, <2>7, <2>8, <2>9, <2>10 DEF TypeOK, NameOf
<1>2. CASE Found
  <2> DEFINE new == [name |-> NameOf(next), members |-> {next}]
  <2>1. /\ next \in 1..Len(statements) /\ NameOf(next) \in Names
        /\ next \notin Read /\ next \in Nat
    BY <1>2, ReadingType DEF Found
  <2>2. /\ groups' = Append(groups, new)
        /\ statements' = statements /\ next' = next + 1 /\ phase' = phase
    BY <1>2 DEF Found, NameOf
  <2>3. Read' = Read \cup {next}
    BY <2>1, <2>2 DEF Read
  <2> DEFINE NewGroup == [name : Names, members : SUBSET Read']
  <2>4. /\ groups \in Seq(NewGroup) /\ DOMAIN groups = 1..Len(groups) /\ Len(groups) \in Nat
        /\ \A g \in DOMAIN groups : groups[g] \in Group
    BY <2>3, GroupsType
  <2>5. new \in NewGroup
    BY <2>1, <2>3
  <2> HIDE DEF new
  <2>6. /\ groups' \in Seq(NewGroup) /\ DOMAIN groups' = 1..(Len(groups) + 1)
        /\ \A g \in DOMAIN groups : groups'[g] = groups[g]
        /\ groups'[Len(groups) + 1] = new
    BY <2>2, <2>4, <2>5, AppendProperties, LenProperties
  <2>7. new.members = {next} /\ new.name = NameOf(next)
    BY DEF new
  <2>8. UNION {groups'[g].members : g \in DOMAIN groups'} = Read'
    BY <2>3, <2>4, <2>6, <2>7 DEF TypeOK
  <2>9. \A g, h \in DOMAIN groups' : groups'[g].members \cap groups'[h].members # {} => g = h
    BY <2>1, <2>4, <2>6, <2>7 DEF TypeOK, Group
  <2>10. \A g \in DOMAIN groups' : groups'[g].name \in {NameOf(s) : s \in groups'[g].members}
    BY <2>4, <2>6, <2>7 DEF TypeOK
  <2> QED
    BY <2>1, <2>2, <2>6, <2>8, <2>9, <2>10 DEF TypeOK, NameOf
<1>3. CASE Report \/ Done \/ UNCHANGED vars
  <2>1. /\ statements' = statements /\ next' = next /\ groups' = groups
        /\ phase' \in {"grouping", "done"}
    BY <1>3 DEF Report, Done, vars, TypeOK
  <2>2. Read' = Read
    BY <2>1 DEF Read
  <2> QED
    BY <2>1, <2>2 DEF TypeOK, NameOf
<1> QED
  BY <1>1, <1>2, <1>3 DEF Next

\* Each statement read is in exactly one group, and a group is called as one of its
\* members, however names and lengths lead the grouping (conflict.py:117-126).
THEOREM GroupingTypeCorrect == Spec => []TypeOK
<1>1. Init => TypeOK
  BY InitType
<1>2. TypeOK /\ [Next]_vars => TypeOK'
  BY StepType
<1> QED
  BY <1>1, <1>2, PTL DEF Spec

-----------------------------------------------------------------------------

\* A statement belongs to a group of clear names exactly when its name passes for
\* the name of any member.
LEMMA OneMetric ==
    ASSUME TypeOK, GroupsInv, NamesAreClear, Reading,
           NEW h \in DOMAIN groups, NEW t \in groups[h].members
    PROVE  /\ <<NameOf(next), groups[h].name>> \in Same <=>
              <<NameOf(next), NameOf(t)>> \in Same
           /\ <<NameOf(next), NameOf(t)>> \in Same <=>
              <<NameOf(t), NameOf(next)>> \in Same
<1>1. groups[h].members \subseteq Read
  BY DEF TypeOK
<1>2. PICK u \in groups[h].members : groups[h].name = NameOf(u)
  BY DEF TypeOK
<1>3. {next, t, u} \subseteq DOMAIN statements
  BY <1>1, ReadingType, LenProperties DEF TypeOK
<1>4. <<NameOf(t), NameOf(u)>> \in Same
  BY DEF GroupsInv
<1> QED
  BY <1>2, <1>3, <1>4 DEF NamesAreClear

LEMMA GroupsStep == TypeOK /\ GroupsInv /\ [Next]_vars => GroupsInv'
<1> SUFFICES ASSUME TypeOK, GroupsInv, [Next]_vars, NamesAreClear'
             PROVE  \A g, h \in DOMAIN groups' :
                      \A s \in groups'[g].members, t \in groups'[h].members :
                         <<NameOf(s)', NameOf(t)'>> \in Same <=> g = h
  BY DEF GroupsInv, NameOf
<1>1. statements' = statements
  BY DEF Next, Join, Found, Report, Done, vars
<1>2. NamesAreClear /\ \A s : NameOf(s)' = NameOf(s)
  BY <1>1 DEF NamesAreClear, NameOf
<1>3. ASSUME Reading PROVE <<NameOf(next), NameOf(next)>> \in Same
  BY <1>3, ReadingType, NamesAssumption
<1>4. \A g, h \in DOMAIN groups : \A s \in groups[g].members, t \in groups[h].members :
         <<NameOf(s), NameOf(t)>> \in Same <=> g = h
  BY <1>2 DEF GroupsInv
<1>5. CASE Join
  <2> DEFINE home == Home(NameOf(next))
  <2>1. home \in DOMAIN groups /\ <<NameOf(next), groups[home].name>> \in Same /\ Reading
    BY <1>5, HomeTakes DEF Join, NameOf
  <2>2. groups' = [groups EXCEPT ![home] = Joined(groups[home], next)]
    BY <1>5 DEF Join, NameOf
  <2>3. Joined(groups[home], next).members = groups[home].members \cup {next}
    BY DEF Joined
  <2>4. /\ DOMAIN groups' = DOMAIN groups
        /\ \A g \in DOMAIN groups : groups'[g].members =
             IF g = home THEN groups[g].members \cup {next} ELSE groups[g].members
    BY <2>1, <2>2, <2>3
  <2> HIDE DEF home
  <2>5. PICK u \in groups[home].members : groups[home].name = NameOf(u)
    BY <2>1 DEF TypeOK
  <2>6. ASSUME NEW h \in DOMAIN groups, NEW t \in groups[h].members
        PROVE  /\ <<NameOf(next), NameOf(t)>> \in Same <=> h = home
               /\ <<NameOf(t), NameOf(next)>> \in Same <=> h = home
    <3>1. /\ <<NameOf(next), NameOf(u)>> \in Same
          /\ <<NameOf(u), NameOf(next)>> \in Same
      BY <1>2, <2>1, <2>5, OneMetric
    <3>2. <<NameOf(u), NameOf(t)>> \in Same <=> h = home
      BY <1>4, <2>1, <2>5
    <3>3. <<NameOf(next), NameOf(t)>> \in Same <=> <<NameOf(t), NameOf(next)>> \in Same
      BY <1>2, <2>1, OneMetric
    <3>4. {next, t, u} \subseteq DOMAIN statements
      BY <2>1, <2>5, ReadingType DEF TypeOK
    <3> QED
      BY <1>2, <3>1, <3>2, <3>3, <3>4 DEF NamesAreClear
  <2> SUFFICES ASSUME NEW g \in DOMAIN groups, NEW h \in DOMAIN groups,
                      NEW s \in groups'[g].members, NEW t \in groups'[h].members
               PROVE  <<NameOf(s), NameOf(t)>> \in Same <=> g = h
    BY <1>2, <2>4
  <2>7. /\ s \in groups[g].members \/ (s = next /\ g = home)
        /\ t \in groups[h].members \/ (t = next /\ h = home)
    BY <2>4
  <2> QED
    BY <1>3, <1>4, <2>1, <2>6, <2>7
<1>6. CASE Found
  <2> DEFINE new == Len(groups) + 1
  <2>1. Reading /\ Homes(NameOf(next)) = {}
    BY <1>6 DEF Found, NameOf
  <2>2. groups' = Append(groups, [name |-> NameOf(next), members |-> {next}])
    BY <1>6 DEF Found, NameOf
  <2>3. groups \in Seq(Group) /\ DOMAIN groups = 1..Len(groups) /\ Len(groups) \in Nat
    BY GroupsType DEF TypeOK, Group
  <2>4. /\ DOMAIN groups' = DOMAIN groups \cup {new}
        /\ \A g \in DOMAIN groups : groups'[g].members = groups[g].members
        /\ groups'[new].members = {next}
        /\ new \notin DOMAIN groups
    BY <2>2, <2>3
  <2>5. ASSUME NEW h \in DOMAIN groups, NEW t \in groups[h].members
        PROVE  /\ <<NameOf(next), NameOf(t)>> \notin Same
               /\ <<NameOf(t), NameOf(next)>> \notin Same
    BY <1>2, <2>1, OneMetric DEF Homes
  <2> HIDE DEF new
  <2> QED
    BY <1>2, <1>3, <1>4, <2>1, <2>4, <2>5
<1>7. CASE Report \/ Done \/ UNCHANGED vars
  <2>1. groups' = groups
    BY <1>7 DEF Report, Done, vars
  <2> QED
    BY <1>2, <1>4, <2>1
<1> QED
  BY <1>5, <1>6, <1>7 DEF Next

LEMMA GroupsFollow == TypeOK /\ GroupsInv => GroupsAreMetrics
<1> SUFFICES ASSUME TypeOK, GroupsInv, NamesAreClear, NEW s \in Read, NEW t \in Read
             PROVE  Together(s, t) <=> <<NameOf(s), NameOf(t)>> \in Same
  BY DEF GroupsAreMetrics
<1>1. PICK g \in DOMAIN groups : s \in groups[g].members
  BY DEF TypeOK
<1>2. PICK h \in DOMAIN groups : t \in groups[h].members
  BY DEF TypeOK
<1>3. <<NameOf(s), NameOf(t)>> \in Same <=> g = h
  BY <1>1, <1>2 DEF GroupsInv
<1>4. Together(s, t) <=> g = h
  BY <1>1, <1>2 DEF Together, TypeOK
<1> QED
  BY <1>3, <1>4

\* When the names in use fall into metrics, the greedy grouping against a name that
\* changes finds exactly those metrics, in every order of the statements and
\* however long the names are (conflict.py:117-126).
THEOREM GroupsAreMetricsHolds == Spec => []GroupsAreMetrics
<1>1. Init => GroupsInv
  BY DEF Init, GroupsInv
<1>2. TypeOK /\ GroupsInv /\ [Next]_vars => GroupsInv'
  BY GroupsStep
<1>3. TypeOK /\ GroupsInv => GroupsAreMetrics
  BY GroupsFollow
<1> QED
  BY <1>1, <1>2, <1>3, GroupingTypeCorrect, PTL DEF Spec

-----------------------------------------------------------------------------

\* A group disagrees exactly when two of its members claim different structures.
LEMMA DisagreeingIs ==
    ASSUME TypeOK, NEW g \in DOMAIN groups
    PROVE  Disagreeing(groups[g]) <=>
              \E u, v \in groups[g].members :
                 NoStructure \notin {Claim(u), Claim(v)} /\ Claim(u) # Claim(v)
<1> DEFINE members == groups[g].members
           All == {statements[m].structure : m \in members}
           f == [m \in members |-> statements[m].structure]
<1>1. IsFiniteSet(members)
  <2>1. members \subseteq 1..(next - 1) /\ next - 1 \in Int
    BY LenProperties DEF TypeOK, Read
  <2> QED
    BY <2>1, FS_Interval, FS_Subset
<1>2. f \in Surjection(members, All)
  BY DEF Surjection
<1>3. IsFiniteSet(All)
  BY <1>1, <1>2, FS_Surjection
<1>4. IsFiniteSet(Claims(members)) /\ Claims(members) = All \ {NoStructure}
  BY <1>3, FS_Subset DEF Claims
<1>5. Cardinality(Claims(members)) \in Nat
  BY <1>4, FS_CardinalityType
<1>6. Cardinality(Claims(members)) = 0 <=> Claims(members) = {}
  BY <1>4, FS_EmptySet
<1>7. Cardinality(Claims(members)) = 1 <=> \E x : Claims(members) = {x}
  BY <1>4, FS_Singleton
<1>8. Disagreeing(groups[g]) <=> \E x, y \in Claims(members) : x # y
  BY <1>5, <1>6, <1>7 DEF Disagreeing
<1> QED
  BY <1>4, <1>8 DEF Claim

LEMMA FoundStep == TypeOK /\ FoundInv /\ [Next]_vars => FoundInv'
<1> SUFFICES ASSUME TypeOK, FoundInv, [Next]_vars PROVE FoundInv'
  OBVIOUS
<1>1. CASE Join \/ Found
  BY <1>1 DEF Join, Found, Reading, FoundInv
<1>2. CASE Report
  <2>1. next = Len(statements) + 1
    BY <1>2, LenProperties DEF Report, TypeOK
  <2> QED
    BY <1>2, <2>1 DEF Report, FoundInv, Note, Disagreeing, Claims
<1>3. CASE Done \/ UNCHANGED vars
  <2>1. UNCHANGED vars
    BY <1>3 DEF Done
  <2>2. /\ \A name : Note(name)' = Note(name)
        /\ \A group : Disagreeing(group)' <=> Disagreeing(group)
    BY <2>1 DEF vars, Note, Disagreeing, Claims
  <2> QED
    BY <2>1, <2>2 DEF vars, FoundInv
<1> QED
  BY <1>1, <1>2, <1>3 DEF Next

LEMMA FoundFollow == TypeOK /\ GroupsInv /\ FoundInv => ConflictsSurface
<1> SUFFICES ASSUME TypeOK, GroupsInv, FoundInv, phase = "done", NamesAreClear,
                    NEW s \in DOMAIN statements, NEW t \in DOMAIN statements
             PROVE  (\E c \in found : {s, t} \subseteq c.sides) <=>
                    /\ <<NameOf(s), NameOf(t)>> \in Same
                    /\ \E u, v \in DOMAIN statements :
                          /\ <<NameOf(s), NameOf(u)>> \in Same
                          /\ <<NameOf(s), NameOf(v)>> \in Same
                          /\ NoStructure \notin {Claim(u), Claim(v)}
                          /\ Claim(u) # Claim(v)
  BY DEF ConflictsSurface
<1>1. DOMAIN statements = Read
  BY LenProperties DEF FoundInv, TypeOK, Read
<1>2. \A u \in DOMAIN statements : \E g \in DOMAIN groups : u \in groups[g].members
  BY <1>1 DEF TypeOK
<1>3. \A g \in DOMAIN groups : groups[g].members \subseteq DOMAIN statements
  BY <1>1 DEF TypeOK
<1>4. PICK g \in DOMAIN groups : s \in groups[g].members
  BY <1>2
<1>5. \A u \in DOMAIN statements :
         <<NameOf(s), NameOf(u)>> \in Same <=> u \in groups[g].members
  BY <1>2, <1>4 DEF GroupsInv
<1>6. (\E c \in found : {s, t} \subseteq c.sides) <=>
      t \in groups[g].members /\ Disagreeing(groups[g])
  <2>1. (\E c \in found : {s, t} \subseteq c.sides) <=>
        \E h \in DOMAIN groups : Disagreeing(groups[h]) /\ {s, t} \subseteq groups[h].members
    <3> DEFINE Con(h) == [name |-> groups[h].name, sides |-> groups[h].members,
                          note |-> Note(groups[h].name)]
               Dis == {k \in DOMAIN groups : Disagreeing(groups[k])}
    <3>1. found = {Con(h) : h \in Dis} /\ \A h : Con(h).sides = groups[h].members
      BY DEF FoundInv
    <3> HIDE DEF Con
    <3>2. \A c \in found : \E h \in DOMAIN groups :
             Disagreeing(groups[h]) /\ c.sides = groups[h].members
      BY <3>1
    <3>3. \A h \in DOMAIN groups : Disagreeing(groups[h]) =>
             \E c \in found : c.sides = groups[h].members
      BY <3>1
    <3> QED
      BY <3>2, <3>3
  <2>2. \A h \in DOMAIN groups : s \in groups[h].members => h = g
    BY <1>4 DEF TypeOK
  <2> QED
    BY <1>4, <2>1, <2>2
<1> QED
  BY <1>3, <1>5, <1>6, DisagreeingIs

\* No contradiction is lost or invented where names are clear: two statements are
\* reported against each other exactly when they are about one metric on which two
\* different structures are claimed (conflict.py:101-104).
THEOREM ConflictsSurfaceHolds == Spec => []ConflictsSurface
<1>1. Init => GroupsInv /\ FoundInv
  BY DEF Init, GroupsInv, FoundInv
<1>2. TypeOK /\ GroupsInv /\ [Next]_vars => GroupsInv'
  BY GroupsStep
<1>3. TypeOK /\ FoundInv /\ [Next]_vars => FoundInv'
  BY FoundStep
<1>4. TypeOK /\ GroupsInv /\ FoundInv => ConflictsSurface
  BY FoundFollow
<1> QED
  BY <1>1, <1>2, <1>3, <1>4, GroupingTypeCorrect, PTL DEF Spec
=============================================================================
