CONSTANTS
    Procs <- MCOneProc
    s = s
    Seed = s
    p1 = p1
    p2 = p2
    MaxFailures = 1
    MaxCrashes = 1
    MaxLeaseChanges = 1
    NoId = NoId
SPECIFICATION Spec
INVARIANTS
    OneNodePerDataDir
