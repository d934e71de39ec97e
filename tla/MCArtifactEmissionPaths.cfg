SPECIFICATION EmissionSpec
CONSTANTS
    Names <- MCNames
    RetryLimits <- MCRetryLimits
    Answers <- MCAnswers
    StepLimit = 9
    NoYaml = NoYaml
    NoFile = NoFile
    Earlier = Earlier
    Tables <- MCTables
    Dataset <- MCDataset
    DraftFaults <- MCDraftFaults
    loans = loans
    rates = rates
INVARIANT
    EmittedPathsExist
