CONSTANTS
    Clients <- MCClients
    Requests <- MCRequests
    a1 = a1
    a2 = a2
    sysdb = sysdb
    db = db
    sysco = sysco
    co = co
    SysDb = sysdb
    UserDb = db
    SysColl = sysco
    UserColl = co
    MaxLeaseChanges = 2
    None = None
SPECIFICATION Spec
INVARIANTS
    DroppedHavePurgeJob
PROPERTIES
    DroppedCollectionsPurged
