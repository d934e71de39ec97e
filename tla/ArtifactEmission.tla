--------------------------- MODULE ArtifactEmission ---------------------------
(***************************************************************************)
(* The emit node of the bootstrap pipeline (canoniq/pipeline.py): for each *)
(* table with accepted mappings it writes the OSI model, runs the          *)
(* validation loop on the table's proposal, and records the verdict and    *)
(* the path of the MetricFlow artifact.  An exception of the loop is       *)
(* caught and counts as a failed validation.                               *)
(***************************************************************************)
EXTENDS ValidationLoop, Sequences

CONSTANTS
    Tables,         \* the tables with a proposal, in order
    Dataset,        \* table -> dataset name, the lower-cased table name
    DraftFaults     \* faults a proposal made from mappings may have

ASSUME EmissionConstants ==
    /\ Tables \in Seq(STRING)
    /\ Names # {}
    /\ \A i, j \in DOMAIN Tables : Tables[i] = Tables[j] => i = j
    /\ Dataset \in [{Tables[i] : i \in DOMAIN Tables} -> Names]
    /\ DraftFaults \subseteq SUBSET (Faults \ {"invented"})

VARIABLES
    stage,          \* of emit_node
    current,        \* tables taken so far
    osi,            \* the OSI files: dataset name -> proposal
    verdicts,       \* result.validation
    recorded,       \* tables with a metricflow path in result.emitted
    written         \* what each table's loop left on disk, as it ended

batch == <<stage, current, osi, verdicts, recorded, written>>
allVars == <<vars, batch>>

TableSet == {Tables[i] : i \in DOMAIN Tables}
Table == Tables[current]

EmissionTypeOK ==
    /\ TypeOK
    /\ stage \in {"next", "loop", "done", "raised"}
    /\ current \in 0..Len(Tables)
    /\ osi \in [Names -> Proposals \cup {NoFile}]
    /\ verdicts \in [TableSet -> {"none", "passed", "failed"}]
    /\ recorded \in SUBSET TableSet
    /\ written \in [TableSet -> Yamls \cup {NoFile}]

-----------------------------------------------------------------------------
(* Behaviour *)

\* No table is open yet: the loop's state is a placeholder.
EmissionInit ==
    /\ retryLimit \in RetryLimits
    /\ mfInstalled \in BOOLEAN
    /\ files \in [Names -> {NoFile, Earlier}]
    /\ Start(CHOOSE draft \in Drafts : TRUE)
    /\ stage = "next"
    /\ current = 0
    /\ osi = [n \in Names |-> NoFile]
    /\ verdicts = [t \in TableSet |-> "none"]
    /\ recorded = {}
    /\ written = [t \in TableSet |-> NoFile]

\* A faulty variant of Invoke: the state of the last invocation is passed on.
InvokeAgain(draft) ==
    /\ node' = "emit" /\ steps' = 0 /\ proposal' = draft
    /\ UNCHANGED <<yaml, errors, attempt, passed, calls>>

\* graph.invoke with a fresh ValidationState.
Invoke(draft) ==
    /\ node' = "emit" /\ steps' = 0 /\ proposal' = draft
    /\ yaml' = NoYaml /\ errors' = {} /\ attempt' = 0 /\ passed' = FALSE
    /\ calls' = 0

\* The next table: its OSI model is written, then its loop starts.
OpenTable ==
    /\ stage = "next"
    /\ current < Len(Tables)
    /\ current' = current + 1
    /\ \E faults \in DraftFaults :
          LET draft == [dataset |-> Dataset[Tables[current + 1]],
                        faults |-> faults]
          IN  /\ osi' = [osi EXCEPT ![draft.dataset] = draft]
              /\ Invoke(draft)
    /\ stage' = "loop"
    /\ UNCHANGED <<config, files, verdicts, recorded, written>>

\* Writing an OSI model fails: the exception leaves emit_node.
OsiFails ==
    /\ stage = "next"
    /\ current < Len(Tables)
    /\ stage' = "raised"
    /\ UNCHANGED <<vars, current, osi, verdicts, recorded, written>>

\* A step of the validation loop.
LoopStep ==
    /\ stage = "loop"
    /\ Loop
    /\ UNCHANGED batch

\* A faulty variant of Outcome: the exception is not looked at.
OutcomeOfState == IF passed THEN "passed" ELSE "failed"

\* A faulty variant of Outcome: the way the invocation ended is recorded.
OutcomeOfNode == node

\* result.validation: the loop's verdict, or False if it raised.
Outcome == IF node = "done" /\ passed THEN "passed" ELSE "failed"

\* A faulty variant of AfterTable: an exception ends the round.
AfterTableStop ==
    IF node = "done" /\ current < Len(Tables) THEN "next" ELSE "done"

AfterTable == IF current < Len(Tables) THEN "next" ELSE "done"

\* The loop has returned or raised.
CloseTable ==
    /\ stage = "loop"
    /\ node \in Ends
    /\ verdicts' = [verdicts EXCEPT ![Table] = Outcome]
    /\ recorded' = recorded \cup {Table}
    /\ written' = [written EXCEPT ![Table] = IF node = "done" THEN yaml
                                            ELSE NoFile]
    /\ stage' = AfterTable
    /\ UNCHANGED <<vars, current, osi>>

EmissionFinished == stage \in {"done", "raised"} /\ UNCHANGED allVars

EmissionNext ==
    \/ OpenTable
    \/ OsiFails
    \/ LoopStep
    \/ CloseTable
    \/ EmissionFinished

\* emit_node is a loop in one thread.
EmissionSpec ==
    EmissionInit /\ [][EmissionNext]_allVars /\ WF_allVars(EmissionNext)

-----------------------------------------------------------------------------
(* Correctness *)

Closed(i) == i \in DOMAIN Tables /\ verdicts[Tables[i]] # "none"

\* Names that table i's own loop or the loop of a later table wrote last.
WrittenLater(i) ==
    {written[Tables[j]].dataset :
        j \in {k \in i + 1..Len(Tables) : written[Tables[k]] # NoFile}}

\* A table reported as valid has its artifact on disk, unmarked, unless the loop
\* of a later table or the one running wrote over it (which takes an LLM that
\* renames a dataset, or two tables whose names differ in case only).
PassedIsOnDisk ==
    \A i \in DOMAIN Tables :
        verdicts[Tables[i]] = "passed" =>
            LET own == written[Tables[i]]
            IN  /\ own # NoFile
                /\ ~own.header
                /\ \/ own.dataset \in WrittenLater(i)
                   \/ stage = "loop" /\ proposal.dataset = own.dataset
                   \/ files[own.dataset] = own

\* One table's failure costs no other table its verdict: the round ends with a
\* verdict for every table, or by an exception outside the loops.
EveryTableJudged ==
    <>(\/ stage = "raised"
       \/ \A t \in TableSet : verdicts[t] # "none")

\* "for path in result.emitted.values(): assert Path(path).exists()".
EmittedPathsExist ==
    \A t \in recorded : files[Dataset[t]] # NoFile
=============================================================================
