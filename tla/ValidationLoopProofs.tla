------------------------ MODULE ValidationLoopProofs ------------------------
(***************************************************************************)
(* Proofs about the validation loop, for every retry limit, every limit on *)
(* node runs and every set of dataset names.  One invariant carries all of *)
(* them: LoopInv ties the position in the graph to the counters and to     *)
(* what the YAML and the verdict are about.                                *)
(***************************************************************************)
EXTENDS ValidationLoop, TLAPS

\* The YAML in the state is the last proposal's, without a header.
Current ==
    yaml = [dataset |-> proposal.dataset, faults |-> proposal.faults,
            header |-> FALSE]

\* The verdict in the state is about the YAML in the state.
Judged ==
    /\ passed = (errors = {})
    /\ ~mfInstalled => errors = Structural(proposal)

\* Where the loop stands says how many nodes ran, how often the LLM was called,
\* and what the YAML and the verdict belong to.
LoopInv ==
    /\ node = "emit" =>
          steps = 3 * attempt /\ calls = attempt /\ attempt < Tries
    /\ node = "validate" =>
          /\ steps = 3 * attempt + 1 /\ calls = attempt /\ attempt < Tries
          /\ Current
    /\ node \in {"repair", "accept"} =>
          /\ steps = 3 * attempt - 1 /\ calls = attempt - 1
          /\ attempt \in 1..Tries
          /\ Current /\ Judged
    /\ node = "repair" => attempt < Tries
    /\ node \in {"accept", "done"} /\ errors # {} => attempt = Tries
    /\ node = "done" =>
          /\ attempt \in 1..Tries /\ calls = attempt - 1
          /\ Judged
          /\ ArtifactIsJudged
    /\ node \in {"failed", "cutOff"} => attempt <= Tries /\ calls < Tries
    /\ LimitSuffices

-----------------------------------------------------------------------------

LEMMA TriesType == ASSUME TypeOK PROVE Tries \in Nat \ {0} /\ retryLimit \in Nat
BY LoopConstants DEF TypeOK, Tries

\* Three node runs per validation fit under the limit.
LEMMA Suffice == ASSUME TypeOK, StepsSuffice PROVE 3 * Tries <= StepLimit
BY LoopConstants DEF TypeOK, Tries, StepsSuffice

LEMMA ReportsType ==
    ASSUME NEW text \in Yamls, NEW list \in Reports(text)
    PROVE  list \in SUBSET Errors
BY DEF Reports, MfReports, Structural, Errors, Faults, Yamls

LEMMA CurrentType ==
    ASSUME TypeOK, Current
    PROVE  /\ yaml \in Yamls
           /\ [yaml EXCEPT !.header = TRUE] \in Yamls
<1>1. proposal.dataset \in Names /\ proposal.faults \in SUBSET Faults
  BY DEF TypeOK, Proposals
<1>2. QED
  BY <1>1 DEF Current, Yamls

LEMMA TypeInit == Init => TypeOK
<1> SUFFICES ASSUME Init PROVE TypeOK
  OBVIOUS
<1>1. PICK draft \in Drafts : Start(draft)
  BY DEF Init
<1>2. files \in [Names -> Yamls \cup {NoFile, Earlier}]
  BY DEF Init
<1>3. proposal \in Proposals /\ steps \in 0..StepLimit
  BY <1>1, LoopConstants DEF Start, Drafts
<1>4. QED
  BY <1>1, <1>2, <1>3 DEF Init, Start, TypeOK, Nodes

LEMMA TypeStep == TypeOK /\ LoopInv /\ [Next]_vars => TypeOK'
<1> SUFFICES ASSUME TypeOK, LoopInv, [Next]_vars PROVE TypeOK'
  OBVIOUS
<1> USE LoopConstants DEF TypeOK, Nodes, Ends, config
<1>1. CASE Emit
  BY <1>1 DEF Emit, Run, Proposals, Yamls
<1>2. CASE Validate
  <2>1. yaml \in Yamls
    BY <1>2, CurrentType DEF Validate, Run, LoopInv
  <2>2. errors' \in SUBSET Errors
    BY <1>2, <2>1, ReportsType DEF Validate
  <2>3. node' \in Nodes /\ passed' \in BOOLEAN
    BY <1>2 DEF Validate, AfterValidate
  <2>4. QED
    BY <1>2, <2>2, <2>3 DEF Validate, Run
<1>3. CASE Repair
  BY <1>3 DEF Repair, Run, AfterRepair
<1>4. CASE Accept
  <2>1. Artifact(yaml) \in Yamls
    BY <1>4, CurrentType DEF Accept, Run, LoopInv, Artifact
  <2>2. files' \in [Names -> Yamls \cup {NoFile, Earlier}]
    BY <1>4, <2>1 DEF Accept
  <2>3. QED
    BY <1>4, <2>1, <2>2 DEF Accept, Run
<1>5. CASE NodeFails
  BY <1>5 DEF NodeFails, Run
<1>6. CASE OutOfSteps
  BY <1>6 DEF OutOfSteps
<1>7. CASE UNCHANGED vars
  BY <1>7 DEF vars
<1>8. QED
  BY <1>1, <1>2, <1>3, <1>4, <1>5, <1>6, <1>7 DEF Next, Loop, Finished

LEMMA LoopInvInit == Init => LoopInv
BY LoopConstants DEF Init, Start, LoopInv, Tries, LimitSuffices

LEMMA LoopInvStep == TypeOK /\ LoopInv /\ [Next]_vars => LoopInv'
<1> SUFFICES ASSUME TypeOK, LoopInv, [Next]_vars PROVE LoopInv'
  OBVIOUS
<1> USE DEF config, Nodes
<1>1. /\ Tries \in Nat \ {0} /\ attempt \in Nat /\ steps \in Nat /\ calls \in Nat
      /\ StepLimit \in Nat /\ retryLimit \in Nat
  BY TriesType, LoopConstants DEF TypeOK
<1>2. CASE Emit
  BY <1>1, <1>2 DEF Emit, Run, LoopInv, Current, Tries, LimitSuffices
<1>3. CASE Validate
  <2>1. /\ Judged' /\ Current'
    <3>1. Current /\ Current'
      BY <1>3 DEF Validate, Run, LoopInv, Current
    <3>2. ~mfInstalled => errors' = Structural(proposal)
      BY <1>3, <3>1 DEF Validate, Reports, Structural, Current
    <3>3. QED
      BY <1>3, <3>1, <3>2 DEF Validate, Judged, Structural
  <2>2. /\ attempt' \in 1..Tries' /\ steps' = 3 * attempt' - 1
        /\ calls' = attempt' - 1
        /\ Tries' = Tries
    BY <1>1, <1>3 DEF Validate, Run, LoopInv, Tries
  <2>3. /\ node' \in {"repair", "accept"}
        /\ node' = "repair" => attempt' < Tries'
        /\ errors' # {} /\ node' = "accept" => attempt' = Tries'
    <3>1. /\ node' = AfterValidate(errors' = {}, attempt')
          /\ retryLimit' = retryLimit
      BY <1>3 DEF Validate
    <3>2. CASE errors' = {} \/ attempt' >= retryLimit
      BY <1>1, <2>2, <3>1, <3>2 DEF AfterValidate, Tries
    <3>3. CASE ~(errors' = {} \/ attempt' >= retryLimit)
      BY <1>1, <2>2, <3>1, <3>3 DEF AfterValidate, Tries
    <3>4. QED
      BY <3>2, <3>3
  <2>4. QED
    BY <2>1, <2>2, <2>3 DEF LoopInv, LimitSuffices
<1>4. CASE Repair
  BY <1>1, <1>4 DEF Repair, Run, AfterRepair, LoopInv, Tries, LimitSuffices
<1>5. CASE Accept
  <2>1. Current /\ Judged
    BY <1>5 DEF Accept, Run, LoopInv
  <2>2. Judged'
    BY <1>5, <2>1 DEF Accept, Judged, Structural
  <2>3. ArtifactIsJudged'
    <3>1. proposal.dataset \in DOMAIN files
      BY DEF TypeOK, Proposals
    <3>2. files'[proposal.dataset] = Artifact(yaml)
      BY <1>5, <3>1 DEF Accept
    <3>3. Artifact(yaml) = [dataset |-> proposal.dataset,
                            faults |-> proposal.faults,
                            header |-> errors # {}]
      BY <2>1 DEF Current, Judged, Artifact
    <3>4. QED
      BY <1>5, <3>2, <3>3 DEF Accept, ArtifactIsJudged
  <2>4. QED
    BY <1>1, <1>5, <2>2, <2>3 DEF Accept, Run, LoopInv, Tries, LimitSuffices
<1>6. CASE NodeFails
  BY <1>1, <1>6 DEF NodeFails, Run, LoopInv, Tries, LimitSuffices
<1>7. CASE OutOfSteps
  <2>1. steps < 3 * Tries /\ attempt <= Tries /\ calls < Tries
    BY <1>1, <1>7 DEF OutOfSteps, LoopInv
  <2>2. LimitSuffices'
    BY <1>1, <1>7, <2>1, Suffice DEF OutOfSteps, LimitSuffices, StepsSuffice
  <2>3. QED
    BY <1>1, <1>7, <2>1, <2>2 DEF OutOfSteps, LoopInv, Tries
<1>8. CASE UNCHANGED vars
  BY <1>8 DEF vars, LoopInv, Current, Judged, Structural, ArtifactIsJudged,
              LimitSuffices, StepsSuffice, Tries
<1>9. QED
  BY <1>2, <1>3, <1>4, <1>5, <1>6, <1>7, <1>8 DEF Next, Loop, Finished

LEMMA LoopInvariant == Spec => [](TypeOK /\ LoopInv)
<1>1. Init => TypeOK /\ LoopInv
  BY TypeInit, LoopInvInit
<1>2. (TypeOK /\ LoopInv) /\ [Next]_vars => (TypeOK /\ LoopInv)'
  BY TypeStep, LoopInvStep
<1>3. QED
  BY <1>1, <1>2, PTL DEF Spec

-----------------------------------------------------------------------------
(* What follows *)

\* Every state of the loop is well formed, and its node runs stay in the limit.
THEOREM LoopTypeCorrect == Spec => []TypeOK
BY LoopInvariant, PTL

\* The artifact on disk is the last proposal's, marked by its own verdict.
THEOREM ArtifactJudged == Spec => []ArtifactIsJudged
<1>1. LoopInv => ArtifactIsJudged
  BY DEF LoopInv, ArtifactIsJudged
<1>2. QED
  BY <1>1, LoopInvariant, PTL

\* Without `mf' the header says whether the artifact has a structural fault.
THEOREM HeaderTruthful == Spec => []HeaderIsTruthful
<1>1. TypeOK /\ LoopInv => HeaderIsTruthful
  <2> SUFFICES ASSUME TypeOK, LoopInv, node = "done", ~mfInstalled
               PROVE  files[proposal.dataset].header
                        <=> "schema" \in files[proposal.dataset].faults
    BY DEF HeaderIsTruthful
  <2>1. files[proposal.dataset] =
          [dataset |-> proposal.dataset, faults |-> proposal.faults,
           header |-> errors # {}]
    BY DEF LoopInv, ArtifactIsJudged
  <2>2. errors = proposal.faults \cap {"schema"}
    BY DEF LoopInv, Judged, Structural
  <2>3. files[proposal.dataset].faults = proposal.faults
    BY <2>1
  <2>4. files[proposal.dataset].header = (errors # {})
    BY <2>1
  <2>5. (errors # {}) <=> "schema" \in files[proposal.dataset].faults
    BY <2>2, <2>3
  <2>6. QED
    BY <2>4, <2>5
<1>2. QED
  BY <1>1, LoopInvariant, PTL

\* No loop spends more validations or LLM calls than its budget, and none gives
\* up before the budget is spent.
THEOREM BudgetExact == Spec => []BudgetIsExact
<1>1. TypeOK /\ LoopInv => BudgetIsExact
  BY TriesType DEF TypeOK, LoopInv, BudgetIsExact, Nodes, Ends
<1>2. QED
  BY <1>1, LoopInvariant, PTL

\* With three node runs per validation LangGraph never cuts the loop short.
THEOREM LimitEnough == Spec => []LimitSuffices
<1>1. LoopInv => LimitSuffices
  BY DEF LoopInv
<1>2. QED
  BY <1>1, LoopInvariant, PTL
=============================================================================
