SPECIFICATION FairSpec
CONSTANTS
    HeadRevision = 4
    Unmarked <- MCUnmarked
    LastTable = 2
    MaxWrites = 1
    MaxRuns = 2
INVARIANTS StampMatches NothingLeftBehind CompleteIsPostgres SwitchProvesStore AbortIsLite
PROPERTIES NoEmptyCopy ServiceReturns
CHECK_DEADLOCK FALSE
