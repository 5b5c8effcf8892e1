SPECIFICATION FairSpec
CONSTANTS
    r1 = r1
    r2 = r2
    u1 = u1
    u2 = u2
    Rooms = {r1, r2}
    Rank <- FirstSeen
    Users = {u1}
    RelayUser = relay
    Guests = {}
    Broken = {r2}
    None = None
    MATRIX_SYNC_STALE_MS = 1
    Probes = {q1}
    MaxNow = 3
    MaxChanges = 2
    MaxErrors = 1
INVARIANTS
    ReadyIsRecent
PROPERTIES
    InvitesAnswered
    ReadyReturns
