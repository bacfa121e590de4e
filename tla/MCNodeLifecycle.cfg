CONSTANTS
    Nodes <- MCNodes
    Admins <- MCOneAdmin
    n1 = n1
    n2 = n2
    a1 = a1
    a2 = a2
    MaxCalls = 4
    MaxLeaseChanges = 1
SPECIFICATION Spec
PROPERTIES
    StatusTransitionsLegal
