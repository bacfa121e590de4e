CONSTANTS
    Groups <- MCOneGroup
    Nodes <- MCNodes
    Reporters <- MCReporters
    g1 = g1
    g2 = g2
    n1 = n1
    n2 = n2
    r1 = r1
    r2 = r2
    MaxEpoch = 3
    MaxTerm = 1
    MaxLeaderChanges = 1
    MoveChoices <- MCMoveChoices
    NoEntry = NoEntry
SPECIFICATION Spec
PROPERTIES
    SchemaGroupEpochMonotone
