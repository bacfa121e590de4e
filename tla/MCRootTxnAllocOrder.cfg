CONSTANTS
    Nodes <- MCNodes
    Clients <- MCClients
    n1 = n1
    n2 = n2
    c1 = c1
    c2 = c2
    c3 = c3
    AllocSizes = {1, 2}
    Reserve = 2
    Clock = {0, 3}
    MaxId = 9
    MaxElections = 2
    NoNode = NoNode
    NoCore = NoCore
SYMMETRY MCSymmetry
SPECIFICATION Spec
INVARIANTS
    IdsIncreaseAcrossLeaders
