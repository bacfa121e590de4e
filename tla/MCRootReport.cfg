CONSTANTS
    Groups <- MCGroups
    Nodes <- MCNodes
    Reporters <- MCReporters
    g1 = g1
    g2 = g2
    n1 = n1
    n2 = n2
    r1 = r1
    r2 = r2
    
    MaxEpoch = 2
    MaxTerm = 2
    MaxLeaderChanges = 2
    MoveChoices <- MCMoveChoices
    NoEntry = NoEntry
SYMMETRY MCSymmetry
SPECIFICATION Spec
INVARIANTS
    NodeViewMatchesDeltas
    StatsKeepNewestEpoch
