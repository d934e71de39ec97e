SPECIFICATION Spec
CONSTANTS
    Tables <- MCTables
    AsOfs <- MCAsOfs
    Dates <- MCDates
    Window = 3
    Fields <- MCFields
    ColumnNames <- MCColumnNames
    FirstSchema <- MCFirstSchema
    Queries <- MCQueries
    Terms <- MCTerms
    Key <- MCKey
    MaxCommits = 2
    MaxSchemas <- MCMaxSchemas
    NoColumn = NoColumn
    NotLoaded = NotLoaded
    NotRead = NotRead
    NotRun = NotRun
    NotEvaluable = NotEvaluable
    NoSnapshot = NoSnapshot
    Lost = Lost
    loans = loans
    rates = rates
    amount = amount
    usd = usd
    ratio = ratio
    retail = retail
    RETAIL = RETAIL
    ratioKey = ratioKey
    retailKey = retailKey
SYMMETRY Symmetry
CHECK_DEADLOCK FALSE
INVARIANTS
    TypeOK
    AnswersAreStable
    ReadsLatestInWindow
    TodaysNamesUnlessReused
