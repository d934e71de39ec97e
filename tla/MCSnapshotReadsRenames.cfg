SPECIFICATION Spec
CONSTANTS
    Tables <- MCTables
    AsOfs <- MCAsOfs
    Dates <- MCDates
    Window = 3
    Fields <- MCFields
    ColumnNames <- MCColumnNames
    FirstSchema <- MCFirstSchema
    Queries <- MCOneQuery
    Terms <- MCOneTerms
    Key <- MCOneKey
    MaxCommits = 2
    MaxSchemas <- MCMaxSchemas
    NoColumn = NoColumn
    NotLoaded = NotLoaded
    NotRead = NotRead
    NotRun = NotRun
    NotEvaluable = NotEvaluable
    NoSnapshot = NoSnapshot
    Lost = Lost
    loans = loans
    rates = rates
    amount = amount
    usd = usd
    ratio = ratio
    retail = retail
    RETAIL = RETAIL
    ratioKey = ratioKey
    retailKey = retailKey
CHECK_DEADLOCK FALSE
INVARIANT
    TodaysNames
