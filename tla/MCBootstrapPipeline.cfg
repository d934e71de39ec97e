SPECIFICATION Spec
CONSTANTS
    Directories <- MCDirectories
    Mentions <- MCMentions
    Formulas = {"e1", "e2"}
    TableOf <- MCTableOf
    Columns <- MCColumns
    GroupColumns <- MCGroupColumns
    NoFormula = NoFormula
    NoDate = NoDate
    NoDim = NoDim
    NoTotal = NoTotal
INVARIANTS
    TypeOK InconsistenciesAreExact DriftPartitions RedefinedIsReal
    GlossaryAgreesUnlessWeak EmissionFollowsDrift EveryMetricReported
