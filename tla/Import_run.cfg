\* Two imports; each job runs once, so the system stops.
SPECIFICATION FairSpec
CONSTANTS
    Job = {j1, j2}
    p1 = p1
    p2 = p2
    None = None
    File <- MCFile
    Requests <- MCRequests
    Backend <- MCBackend
    Home <- MCHome
    Saved <- MCSaved
    Tables <- MCTables
INVARIANT ReportedTableIsTheFile
INVARIANT CutShortIsAPrefix
PROPERTY EveryStreamEnds
CHECK_DEADLOCK FALSE
