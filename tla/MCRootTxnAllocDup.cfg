CONSTANTS
    Nodes <- MCNodes
    Clients <- MCThreeClients
    n1 = n1
    n2 = n2
    c1 = c1
    c2 = c2
    c3 = c3
    AllocSizes = {2}
    Reserve = 2
    Clock = {0}
    MaxId = 4
    MaxElections = 3
    NoNode = NoNode
    NoCore = NoCore
SYMMETRY MCSymmetry3
SPECIFICATION Spec
INVARIANT
    UniqueTxnIds
