------------------------ MODULE ArtifactEmissionProofs ------------------------
(***************************************************************************)
(* Proofs about the emit node over any number of tables, whatever names    *)
(* the LLM gives to repaired datasets.  The loop's own invariant (LoopInv, *)
(* from ValidationLoopProofs) holds across the tables, because every table *)
(* starts it anew; DiskInv follows a finished table's artifact through the *)
(* loops that come after.                                                  *)
(***************************************************************************)
EXTENDS ArtifactEmission, ValidationLoopProofs, SequenceTheorems

\* A finished loop's YAML is the file it wrote.
DoneInv == node = "done" => yaml = files[proposal.dataset]

\* The tables with a verdict are those taken, but for the one whose loop runs.
Taken == 1..(IF stage = "loop" THEN current - 1 ELSE current)

RoundInv ==
    /\ \A i \in DOMAIN Tables : i \notin Taken =>
          /\ verdicts[Tables[i]] = "none"
          /\ written[Tables[i]] = NoFile
    /\ stage = "loop" => current \in DOMAIN Tables

\* A passed table's artifact is on disk, or a later loop has written over it; the
\* running loop has done so only once it is done.
DiskInv ==
    \A i \in DOMAIN Tables : verdicts[Tables[i]] = "passed" =>
        LET own == written[Tables[i]]
        IN  /\ own \in Yamls /\ own # NoFile /\ ~own.header
            /\ \/ own.dataset \in WrittenLater(i)
               \/ stage = "loop" /\ node = "done" /\ proposal.dataset = own.dataset
               \/ files[own.dataset] = own

EmissionInv == EmissionTypeOK /\ LoopInv /\ DoneInv /\ RoundInv /\ DiskInv

-----------------------------------------------------------------------------

LEMMA TablesType ==
    /\ Len(Tables) \in Nat /\ DOMAIN Tables = 1..Len(Tables)
    /\ \A i \in DOMAIN Tables : Tables[i] \in TableSet /\ Dataset[Tables[i]] \in Names
BY EmissionConstants, LenProperties DEF TableSet

LEMMA DraftsExist == (CHOOSE draft \in Drafts : TRUE) \in Drafts
<1>1. PICK name \in Names : TRUE
  BY EmissionConstants
<1>2. [dataset |-> name, faults |-> {}] \in Drafts
  BY DEF Drafts, Proposals
<1> QED
  BY <1>2

\* A loop that starts is well formed and has nothing to account for.
LEMMA StartIs ==
    ASSUME retryLimit \in RetryLimits, mfInstalled \in BOOLEAN,
           files \in [Names -> Yamls \cup {NoFile, Earlier}],
           NEW draft \in Proposals, Start(draft)
    PROVE  TypeOK /\ LoopInv /\ DoneInv
<1>1. TypeOK
  <2>1. proposal \in Proposals /\ steps \in 0..StepLimit
    BY LoopConstants DEF Start
  <2> QED
    BY <2>1 DEF TypeOK, Start, Nodes
<1> QED
  BY <1>1, TriesType, LoopConstants DEF LoopInv, DoneInv, Start, LimitSuffices

LEMMA EmissionInitInv == EmissionInit => EmissionInv
<1> SUFFICES ASSUME EmissionInit PROVE EmissionInv
  OBVIOUS
<1>1. TypeOK /\ LoopInv /\ DoneInv
  <2>1. files \in [Names -> Yamls \cup {NoFile, Earlier}]
    BY DEF EmissionInit
  <2> QED
    BY <2>1, DraftsExist, StartIs DEF EmissionInit, Drafts
<1>2. EmissionTypeOK
  BY <1>1, TablesType DEF EmissionInit, EmissionTypeOK
<1>3. RoundInv /\ DiskInv
  BY TablesType DEF EmissionInit, RoundInv, DiskInv, Taken
<1> QED
  BY <1>1, <1>2, <1>3 DEF EmissionInv

-----------------------------------------------------------------------------

LEMMA OpenStep == EmissionInv /\ OpenTable => EmissionInv'
<1> SUFFICES ASSUME EmissionInv, OpenTable PROVE EmissionInv'
  OBVIOUS
<1> USE DEF EmissionInv
<1>1. PICK faults \in DraftFaults :
        LET draft == [dataset |-> Dataset[Tables[current + 1]], faults |-> faults]
        IN  osi' = [osi EXCEPT ![draft.dataset] = draft] /\ Invoke(draft)
  BY DEF OpenTable
<1> DEFINE draft == [dataset |-> Dataset[Tables[current + 1]], faults |-> faults]
<1>2. current + 1 \in DOMAIN Tables /\ current \in Nat
  BY TablesType DEF OpenTable, EmissionTypeOK
<1>3. draft \in Proposals
  <2>1. Dataset[Tables[current + 1]] \in Names
    BY <1>2, TablesType
  <2>2. faults \in SUBSET Faults
    BY EmissionConstants
  <2> QED
    BY <2>1, <2>2 DEF Proposals
<1>4. /\ node' = "emit" /\ steps' = 0 /\ proposal' = draft /\ yaml' = NoYaml
      /\ errors' = {} /\ attempt' = 0 /\ passed' = FALSE /\ calls' = 0
  BY <1>1 DEF Invoke
<1>5. UNCHANGED <<retryLimit, mfInstalled, files, verdicts, recorded, written>>
      /\ stage = "next" /\ stage' = "loop" /\ current' = current + 1
  BY DEF OpenTable, config
<1>6. TypeOK' /\ LoopInv' /\ DoneInv'
  <2>1. /\ (retryLimit \in RetryLimits)' /\ (mfInstalled \in BOOLEAN)'
        /\ (files \in [Names -> Yamls \cup {NoFile, Earlier}])'
    BY <1>5 DEF EmissionTypeOK, TypeOK
  <2> HIDE DEF draft
  <2>2. TypeOK'
    <3>1. (proposal \in Proposals)' /\ (steps \in 0..StepLimit)'
      BY <1>3, <1>4, LoopConstants
    <3> QED
      BY <1>4, <2>1, <3>1 DEF TypeOK, Nodes
  <2>3. (Tries \in Nat \ {0})'
    BY <1>5, TriesType DEF EmissionTypeOK, Tries
  <2> QED
    BY <1>4, <2>2, <2>3, LoopConstants DEF LoopInv, DoneInv, LimitSuffices
<1>7. EmissionTypeOK'
  BY <1>1, <1>2, <1>3, <1>5, <1>6, TablesType DEF EmissionTypeOK
<1>8. RoundInv'
  BY <1>2, <1>5, TablesType DEF RoundInv, Taken
<1>9. DiskInv'
  BY <1>5 DEF DiskInv, WrittenLater
<1> QED
  BY <1>6, <1>7, <1>8, <1>9

LEMMA LoopStepInv == EmissionInv /\ LoopStep => EmissionInv'
<1> SUFFICES ASSUME EmissionInv, LoopStep PROVE EmissionInv'
  OBVIOUS
<1> USE DEF EmissionInv
<1>1. Loop /\ stage = "loop" /\ UNCHANGED <<stage, current, osi, verdicts, recorded, written>>
  BY DEF LoopStep, batch
<1>2. TypeOK /\ LoopInv /\ [Next]_vars
  BY <1>1 DEF EmissionTypeOK, Next
<1>3. TypeOK' /\ LoopInv'
  BY <1>2, TypeStep, LoopInvStep
<1>4. EmissionTypeOK' /\ RoundInv'
  BY <1>1, <1>3 DEF EmissionTypeOK, RoundInv, Taken
<1>5. CASE Accept
  <2>1. /\ files' = [files EXCEPT ![proposal.dataset] = Artifact(yaml)]
        /\ yaml' = Artifact(yaml) /\ proposal' = proposal /\ node' = "done"
        /\ proposal.dataset \in Names
        /\ files \in [Names -> Yamls \cup {NoFile, Earlier}]
    BY <1>2, <1>5 DEF Accept, TypeOK, Proposals
  <2>2. DoneInv'
    BY <2>1 DEF DoneInv
  <2>3. DiskInv'
    BY <1>1, <2>1 DEF DiskInv, WrittenLater, Yamls
  <2> QED
    BY <1>3, <1>4, <2>2, <2>3
<1>6. CASE ~Accept
  <2>1. files' = files /\ node # "done" /\ node' # "done"
    BY <1>1, <1>6 DEF Loop, Emit, Validate, Repair, NodeFails, OutOfSteps, Run, Nodes,
                      AfterValidate, AfterRepair
  <2> QED
    BY <1>1, <1>3, <1>4, <2>1 DEF DoneInv, DiskInv, WrittenLater
<1> QED
  BY <1>5, <1>6

LEMMA CloseStep == EmissionInv /\ CloseTable => EmissionInv'
<1> SUFFICES ASSUME EmissionInv, CloseTable PROVE EmissionInv'
  OBVIOUS
<1> USE DEF EmissionInv
<1>1. /\ UNCHANGED vars /\ UNCHANGED <<current, osi>>
      /\ stage = "loop" /\ stage' \in {"next", "done"}
      /\ verdicts' = [verdicts EXCEPT ![Table] = Outcome]
      /\ recorded' = recorded \cup {Table}
      /\ written' = [written EXCEPT ![Table] = IF node = "done" THEN yaml ELSE NoFile]
  BY DEF CloseTable, AfterTable
<1>2. current \in DOMAIN Tables /\ current \in Nat /\ Table = Tables[current] /\ Table \in TableSet
  BY <1>1, TablesType DEF RoundInv, Table, EmissionTypeOK
<1>3. TypeOK' /\ LoopInv' /\ DoneInv'
  BY <1>1, TypeStep, LoopInvStep DEF EmissionTypeOK, DoneInv, vars
<1>4. node = "done" =>
        /\ yaml = [dataset |-> proposal.dataset, faults |-> proposal.faults,
                   header |-> errors # {}]
        /\ yaml \in Yamls /\ yaml = files[proposal.dataset]
        /\ passed = (errors = {})
  <2>1. ASSUME node = "done"
        PROVE  /\ yaml = [dataset |-> proposal.dataset, faults |-> proposal.faults,
                          header |-> errors # {}]
               /\ yaml = files[proposal.dataset]
               /\ passed = (errors = {})
    BY <2>1 DEF DoneInv, LoopInv, Judged, ArtifactIsJudged
  <2>2. proposal.dataset \in Names /\ proposal.faults \in SUBSET Faults
    BY DEF EmissionTypeOK, TypeOK, Proposals
  <2>3. (errors # {}) \in BOOLEAN
    OBVIOUS
  <2>4. [dataset |-> proposal.dataset, faults |-> proposal.faults, header |-> errors # {}]
           \in Yamls
    BY <2>2, <2>3 DEF Yamls
  <2> QED
    BY <2>1, <2>4
<1>5. EmissionTypeOK'
  <2>1. Outcome \in {"passed", "failed"}
    BY DEF Outcome
  <2>2. (IF node = "done" THEN yaml ELSE NoFile) \in Yamls \cup {NoFile}
    BY <1>4
  <2> QED
    BY <1>1, <1>2, <1>3, <2>1, <2>2 DEF EmissionTypeOK
<1>6. /\ verdicts'[Table] = Outcome
      /\ written'[Table] = IF node = "done" THEN yaml ELSE NoFile
      /\ \A i \in DOMAIN Tables : i # current =>
            /\ verdicts'[Tables[i]] = verdicts[Tables[i]]
            /\ written'[Tables[i]] = written[Tables[i]]
  BY <1>1, <1>2, EmissionConstants, TablesType DEF EmissionTypeOK
<1>7. RoundInv'
  BY <1>1, <1>2, <1>6, TablesType DEF RoundInv, Taken
<1>8. written[Table] = NoFile
  BY <1>1, <1>2 DEF RoundInv, Taken
<1>9. DiskInv'
  <2> SUFFICES ASSUME NEW i \in DOMAIN Tables, verdicts'[Tables[i]] = "passed"
               PROVE  LET own == written'[Tables[i]]
                      IN  /\ own \in Yamls /\ own # NoFile /\ ~own.header
                          /\ \/ own.dataset \in WrittenLater(i)'
                             \/ files[own.dataset] = own
    BY <1>1 DEF DiskInv, vars
  <2>1. CASE i = current
    <3>1. node = "done" /\ passed /\ written'[Tables[i]] = yaml
      BY <1>2, <1>6, <2>1 DEF Outcome
    <3>2. yaml \in Yamls /\ yaml = files[proposal.dataset] /\ yaml.dataset = proposal.dataset
      BY <1>4, <3>1
    <3>3. errors = {}
      <4>1. passed = (errors = {})
        BY <1>4, <3>1
      <4> QED
        BY <3>1, <4>1, Zenon
    <3>4. ~ yaml.header
      <4>1. yaml = [dataset |-> proposal.dataset, faults |-> proposal.faults,
                    header |-> errors # {}]
        BY <1>4, <3>1
      <4>2. yaml = [dataset |-> proposal.dataset, faults |-> proposal.faults,
                    header |-> FALSE]
        BY <3>3, <4>1, Zenon
      <4> QED
        BY <4>2
    <3> QED
      BY <3>1, <3>2, <3>4, LoopConstants
  <2>2. CASE i # current
    <3> DEFINE own == written[Tables[i]]
    <3>1. written'[Tables[i]] = own /\ verdicts[Tables[i]] = "passed"
      BY <1>6, <2>2
    <3>2. /\ own \in Yamls /\ own # NoFile /\ ~own.header
          /\ \/ own.dataset \in WrittenLater(i)
             \/ node = "done" /\ proposal.dataset = own.dataset
             \/ files[own.dataset] = own
      BY <3>1 DEF DiskInv
    <3>3. WrittenLater(i) \subseteq WrittenLater(i)'
      BY <1>2, <1>6, <1>8 DEF WrittenLater
    <3>4. i \in 1..(current - 1)
      BY <1>1, <3>1 DEF RoundInv, Taken
    <3>5. ASSUME node = "done" PROVE proposal.dataset \in WrittenLater(i)'
      <4>1. written'[Tables[current]] = yaml /\ yaml.dataset = proposal.dataset
        BY <1>2, <1>4, <1>6, <3>5
      <4>2. current \in (i + 1)..Len(Tables) /\ yaml # NoFile
        BY <1>2, <1>4, <3>4, <3>5, TablesType, LoopConstants
      <4> QED
        BY <4>1, <4>2 DEF WrittenLater
    <3> QED
      BY <3>1, <3>2, <3>3, <3>5
  <2> QED
    BY <2>1, <2>2
<1> QED
  BY <1>3, <1>5, <1>7, <1>9

LEMMA EmissionStep == EmissionInv /\ [EmissionNext]_allVars => EmissionInv'
<1> SUFFICES ASSUME EmissionInv, [EmissionNext]_allVars PROVE EmissionInv'
  OBVIOUS
<1>1. CASE OpenTable \/ LoopStep \/ CloseTable
  BY <1>1, OpenStep, LoopStepInv, CloseStep
<1>2. CASE OsiFails \/ UNCHANGED allVars
  <2>1. /\ UNCHANGED vars /\ UNCHANGED <<current, osi, verdicts, recorded, written>>
        /\ stage' = stage \/ (stage = "next" /\ stage' = "raised")
    BY <1>2 DEF OsiFails, allVars, batch
  <2>2. TypeOK' /\ LoopInv' /\ DoneInv'
    BY <2>1, TypeStep, LoopInvStep DEF EmissionInv, EmissionTypeOK, DoneInv, vars
  <2> QED
    BY <2>1, <2>2 DEF EmissionInv, EmissionTypeOK, RoundInv, Taken, DiskInv, WrittenLater, vars
<1> QED
  BY <1>1, <1>2 DEF EmissionNext, EmissionFinished

LEMMA EmissionHolds == EmissionSpec => []EmissionInv
<1>1. EmissionInit => EmissionInv
  BY EmissionInitInv
<1>2. EmissionInv /\ [EmissionNext]_allVars => EmissionInv'
  BY EmissionStep
<1> QED
  BY <1>1, <1>2, PTL DEF EmissionSpec

-----------------------------------------------------------------------------

\* The emit node keeps its records well formed over all tables (pipeline.py:295-340).
THEOREM EmissionTypeCorrect == EmissionSpec => []EmissionTypeOK
<1>1. EmissionInv => EmissionTypeOK
  BY DEF EmissionInv
<1> QED
  BY <1>1, EmissionHolds, PTL

\* An artifact reported as valid is on disk as it was validated, until the loop of a
\* later table writes over it, for any number of tables and whatever the LLM calls a
\* repaired dataset (pipeline.py:314-331; loop.py:153-169).
THEOREM PassedOnDisk == EmissionSpec => []PassedIsOnDisk
<1>1. EmissionInv => PassedIsOnDisk
  BY DEF EmissionInv, DiskInv, PassedIsOnDisk
<1> QED
  BY <1>1, EmissionHolds, PTL

\* No table's loop inherits the attempts of another's, however many tables there are:
\* each gives up exactly when its own retry budget is spent (pipeline.py:319;
\* loop.py:246-252).
THEOREM EmissionBudgetExact == EmissionSpec => []BudgetIsExact
<1>1. EmissionInv => BudgetIsExact
  BY TriesType DEF EmissionInv, EmissionTypeOK, TypeOK, LoopInv, BudgetIsExact, Nodes, Ends
<1> QED
  BY <1>1, EmissionHolds, PTL
=============================================================================
