SPECIFICATION FairSpec
CHECK_DEADLOCK FALSE
CONSTANTS
    p1 = p1
    p2 = p2
    p3 = p3
    p4 = p4
    s1 = s1
    s2 = s2
    Procs = {p1, p2, p3, p4}
    MatrixEnabled = {p1, p2, p3}
    Stores = {s1, s2}
    StoreOf <- Paths
    Nobody = Nobody
    Orphan = Orphan
    MaxFaults = 3
INVARIANTS
    MigratedBeforeUse
    OneMigrates
    StoreSharedByTwoFaults
    OneLeaderUntilLost
PROPERTY SyncReturns
