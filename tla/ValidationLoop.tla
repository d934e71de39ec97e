---------------------------- MODULE ValidationLoop ----------------------------
(***************************************************************************)
(* The self-correction loop around one semantic-model proposal             *)
(* (canoniq/validation/loop.py): emit YAML, validate it with `mf' or       *)
(* against a schema, have the LLM repair the proposal while attempts are   *)
(* left, and write the artifact, under a manual-review header if it never  *)
(* passed.                                                                 *)
(*                                                                         *)
(* A proposal is abstracted to the file it names and the faults it has.    *)
(* What the LLM and `mf' answer is open.                                   *)
(***************************************************************************)
EXTENDS Naturals

CONSTANTS
    Names,          \* dataset names
    RetryLimits,    \* values config.llm_max_retries may have
    Answers,        \* proposals the LLM may answer a repair with
    StepLimit,      \* node runs LangGraph grants an invocation
    NoYaml,         \* the empty string an invocation starts with
    NoFile,         \* nothing at this path
    Earlier         \* an artifact left by an earlier run

\* "schema" breaks the structural schema, "semantic" is an error only `mf' can
\* see, "invented" is a column the warehouse does not have.
Faults == {"schema", "semantic", "invented"}

Proposals == [dataset : Names, faults : SUBSET Faults]

\* A proposal comes in with real columns only: propose() drops the others, and
\* a bootstrapped one is made of columns of the catalog.
Drafts == {p \in Proposals : "invented" \notin p.faults}

Yamls == [dataset : Names, faults : SUBSET Faults, header : BOOLEAN]

ASSUME LoopConstants ==
    /\ RetryLimits \subseteq Nat
    /\ Answers \subseteq Proposals
    /\ StepLimit \in Nat
    /\ NoYaml \notin Yamls
    /\ NoFile \notin Yamls
    /\ Earlier \notin Yamls

VARIABLES
    retryLimit,     \* config.llm_max_retries
    mfInstalled,    \* `mf' is on the path
    node,           \* the graph's next node
    steps,          \* nodes run
    proposal, yaml, errors, attempt, passed,    \* ValidationState
    calls,          \* repairs asked of the LLM
    files           \* the output directory

config == <<retryLimit, mfInstalled>>
vars == <<config, node, steps, proposal, yaml, errors, attempt, passed, calls,
          files>>

Nodes == {"emit", "validate", "repair", "accept"}

\* How an invocation ends: with its artifact, with the exception of a node, or
\* with LangGraph's GraphRecursionError.
Ends == {"done", "failed", "cutOff"}

\* What a validation may report: the faults it sees, or that `mf' found no dbt
\* project around the file.
Errors == Faults \cup {"noProject"}

TypeOK ==
    /\ retryLimit \in RetryLimits
    /\ mfInstalled \in BOOLEAN
    /\ node \in Nodes \cup Ends
    /\ steps \in 0..StepLimit
    /\ proposal \in Proposals
    /\ yaml \in Yamls \cup {NoYaml}
    /\ errors \in SUBSET Errors
    /\ attempt \in Nat
    /\ passed \in BOOLEAN
    /\ calls \in Nat
    /\ files \in [Names -> Yamls \cup {NoFile, Earlier}]

-----------------------------------------------------------------------------
(* Validators *)

\* _structural_validate.
Structural(text) == text.faults \cap {"schema"}

\* The error lists a finished run of `mf' may come back with: what it sees in
\* the YAML, or the missing project, or a failure that prints nothing.
MfReports(text) ==
    {text.faults \cap {"schema", "semantic"}, text.faults, {"noProject"}, {}}

\* validate_node's choice of a validator: a run of `mf' that cannot start or
\* times out falls back to the schema.
Reports(text) ==
    IF mfInstalled THEN MfReports(text) \cup {Structural(text)}
    ELSE {Structural(text)}

-----------------------------------------------------------------------------
(* Behaviour *)

\* The state an invocation starts with.
Start(draft) ==
    /\ node = "emit"
    /\ steps = 0
    /\ proposal = draft
    /\ yaml = NoYaml
    /\ errors = {}
    /\ attempt = 0
    /\ passed = FALSE
    /\ calls = 0

Init ==
    /\ retryLimit \in RetryLimits
    /\ mfInstalled \in BOOLEAN
    /\ files \in [Names -> {NoFile, Earlier}]
    /\ \E draft \in Drafts : Start(draft)

\* A faulty variant of Run: LangGraph's limit is not observed.
RunUnlimited(n) == node = n /\ steps' = steps + 1

\* The graph runs a node, if it still may.
Run(n) == node = n /\ steps < StepLimit /\ steps' = steps + 1

\* emit_node.
Emit ==
    /\ Run("emit")
    /\ yaml' = [dataset |-> proposal.dataset, faults |-> proposal.faults,
                header |-> FALSE]
    /\ node' = "validate"
    /\ UNCHANGED <<config, proposal, errors, attempt, passed, calls, files>>

\* A faulty variant of AfterValidate: the last attempt is repaired as well.
AfterValidateOnceMore(ok, tries) ==
    IF ok \/ tries > retryLimit THEN "accept" ELSE "repair"

\* A faulty variant of AfterValidate: the attempts are not counted.
AfterValidateForever(ok, tries) == IF ok THEN "accept" ELSE "repair"

\* The edge out of validate.
AfterValidate(ok, tries) ==
    IF ok \/ tries >= retryLimit THEN "accept" ELSE "repair"

\* validate_node.
Validate ==
    /\ Run("validate")
    /\ errors' \in Reports(yaml)
    /\ passed' = (errors' = {})
    /\ attempt' = attempt + 1
    /\ node' = AfterValidate(passed', attempt')
    /\ UNCHANGED <<config, proposal, yaml, calls, files>>

\* A faulty variant of AfterRepair: the repaired proposal is not emitted again.
AfterRepairStale == "validate"

\* The edge out of repair.
AfterRepair == "emit"

\* repair_node: whatever the LLM answers becomes the proposal.
Repair ==
    /\ Run("repair")
    /\ proposal' \in Answers
    /\ calls' = calls + 1
    /\ node' = AfterRepair
    /\ UNCHANGED <<config, yaml, errors, attempt, passed, files>>

\* A faulty variant of Artifact: the header is never written.
ArtifactUnmarked(text) == text

\* What accept_node writes.
Artifact(text) == IF passed THEN text ELSE [text EXCEPT !.header = TRUE]

\* accept_node.
Accept ==
    /\ Run("accept")
    /\ yaml' = Artifact(yaml)
    /\ files' = [files EXCEPT ![proposal.dataset] = Artifact(yaml)]
    /\ node' = "done"
    /\ UNCHANGED <<config, proposal, errors, attempt, passed, calls>>

\* The invocation ends with an exception of a node: the LLM client's in repair
\* (before the call or after it), the file system's in accept.
NodeFails ==
    /\ \/ Run("repair") /\ calls' \in {calls, calls + 1}
       \/ Run("accept") /\ UNCHANGED calls
    /\ node' = "failed"
    /\ UNCHANGED <<config, proposal, yaml, errors, attempt, passed, files>>

\* A node is due beyond LangGraph's limit.
OutOfSteps ==
    /\ node \in Nodes
    /\ steps = StepLimit
    /\ node' = "cutOff"
    /\ UNCHANGED <<config, steps, proposal, yaml, errors, attempt, passed,
                   calls, files>>

Loop == Emit \/ Validate \/ Repair \/ Accept \/ NodeFails \/ OutOfSteps

Finished == node \in Ends /\ UNCHANGED vars

Next == Loop \/ Finished

\* The graph runs its nodes one after the other until it ends.
Spec == Init /\ [][Next]_vars /\ WF_vars(Next)

-----------------------------------------------------------------------------
(* Correctness *)

\* Validations an invocation makes at most: one even with a limit of zero.
Tries == IF retryLimit = 0 THEN 1 ELSE retryLimit

\* The artifact on disk is the YAML of the last proposal, and it carries the
\* manual-review header exactly when its own last validation failed: no repair
\* slips in after the verdict, and no verdict of an older YAML is kept.
ArtifactIsJudged ==
    node = "done" =>
        files[proposal.dataset] =
            [dataset |-> proposal.dataset, faults |-> proposal.faults,
             header |-> errors # {}]

\* Where `mf' is not installed, an unmarked artifact has no structural fault and
\* a marked one has.
HeaderIsTruthful ==
    (node = "done" /\ ~mfInstalled) =>
        LET artifact == files[proposal.dataset]
        IN  artifact.header <=> "schema" \in artifact.faults

\* The loop gives up only when the retry budget is spent, with one LLM call
\* fewer than validations, and never spends more.
BudgetIsExact ==
    /\ attempt <= Tries
    /\ calls < Tries
    /\ (node = "done" /\ errors # {}) => attempt = Tries /\ calls = Tries - 1

\* LangGraph grants three node runs per validation.
StepsSuffice == 3 <= StepLimit /\ retryLimit <= StepLimit \div 3

\* Three node runs per attempt are enough: with that many granted, LangGraph
\* never cuts the loop short.  (Its usual limit of 25 is enough for a retry
\* limit of 8.)
LimitSuffices == StepsSuffice => node # "cutOff"

\* With enough node runs granted a loop ends with its artifact or with the
\* exception of a node, whatever the LLM keeps answering.
EndsWithArtifact ==
    (node \in Nodes /\ StepsSuffice) ~> node \in {"done", "failed"}

\* "Any hallucinated column is dropped, never emitted downstream": an artifact
\* names no column the LLM invented.
GuardrailSurvivesRepair ==
    node = "done" => "invented" \notin files[proposal.dataset].faults
=============================================================================
