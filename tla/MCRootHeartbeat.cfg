CONSTANTS
    Nodes <- MCNodes
    n1 = n1
    n2 = n2
    Interval = 2
    MaxTime = 5
    MaxLeaseChanges = 3
    MaxJoins = 2
    NoDeadline = NoDeadline
SPECIFICATION Spec
INVARIANTS
    QueueConsistent
    EarliestDeadline
PROPERTIES
    TickReturns
    ScheduledEventuallyPolled
