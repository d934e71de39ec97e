SPECIFICATION Spec
CONSTANTS
    Names <- MCNames
    Structures = {"A - B", "SUM(A)"}
    NoStructure = "none"
    Same <- MCSame
    Alike <- MCAlike
    Length <- MCLength
    MaxStatements = 4
    MappingLists <- MCMappingLists
    NoMapping = "nothing"
INVARIANTS TypeOK GroupsAreMetrics ConflictsSurface
