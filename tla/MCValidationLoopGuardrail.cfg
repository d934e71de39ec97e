SPECIFICATION Spec
CONSTANTS
    Names <- MCNames
    RetryLimits <- MCRetryLimits
    Answers <- Proposals
    StepLimit = 8
    NoYaml = NoYaml
    NoFile = NoFile
    Earlier = Earlier
    loans = loans
    orders = orders
INVARIANT
    GuardrailSurvivesRepair
