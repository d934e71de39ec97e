-------------------------- MODULE MCArtifactEmission --------------------------
(***************************************************************************)
(* Three tables, two of which differ in case only and share a file name.   *)
(* A repair may clear the structural fault or keep it, and may rename.     *)
(***************************************************************************)
EXTENDS ArtifactEmission

CONSTANTS loans, rates

MCNames == {loans, rates}
MCRetryLimits == {3}
MCTables == <<"LOANS", "Loans", "RATES">>
MCDataset == [t \in {"LOANS", "Loans", "RATES"} |->
                 IF t = "RATES" THEN rates ELSE loans]
MCDraftFaults == {{}, {"schema"}}
MCAnswers == [dataset : MCNames, faults : {{}, {"schema"}}]
=============================================================================
