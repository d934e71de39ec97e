SPECIFICATION Spec
CONSTANTS
    SQL = {"total_a", "total_b", "joined", "torn"}
    NotSQL = "not SQL"
    Torn = "torn"
    Parsed <- MCParsed
    Lower <- MCLower
    TableOrder <- MCTableOrder
    Schema <- MCSchema
    Ddl <- MCDdl
    Documents <- MCDocuments
    Sheets <- MCSheets
    Logarithms <- MCLogarithms
    Weights <- MCWeights
    DbtMetrics = {"revenue"}
    Away = away
    Answers <- MCAnswers
    NoFile = nofile
    InitialLogs <- MCInitialLogs
    Unwatched <- MCUnwatched
    MaxLog = 2
    MaxWrites = 2
INVARIANTS TypeOK SeenSignalsAreMined RunsAreEarned FilesShareOneReading
    CheckedItemsExist EvidenceAddsUp MoreEvidenceRanksHigher
PROPERTIES NewStatementsAreMined
