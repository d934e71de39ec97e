SPECIFICATION Spec
CONSTANTS
    Groups <- MCGroups
    Candidates <- MCCandidates
    Tables <- MCTables
    LhsTable <- MCLhsTable
    Joined <- MCJoined
    Shortlist <- MCShortlist
    ColumnScan <- MCColumnScan
    Seeded <- MCSeeded
    Hypotheses <- MCHypotheses
    BlindSearch <- MCBlindSearch
    NameRank <- MCNameRank
    SortRank <- MCSortRank
    Breakdowns <- MCBreakdowns
    Priors <- MCPriors
    Sheets <- MCSheets
    MaxHypotheses = 1
    Tolerance = 1
    NearMissWindow = 4
    NotEvaluable = NotEvaluable
    NoSnapshot = NoSnapshot
    NoCandidate = NoCandidate
    twin1 = twin1
    twin2 = twin2
    column = column
    diff = diff
    filter = filter
    t1 = t1
    t2 = t2
INVARIANT
    UnmappableTriedEverything
