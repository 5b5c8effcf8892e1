SPECIFICATION Spec
CONSTANTS
    r1 = r1
    r2 = r2
    u1 = u1
    u2 = u2
    Rooms = {r1, r2}
    Rank <- FirstSeen
    Users = {u1, u2, u3}
    RelayUser = relay
    Guests = {u3}
    Broken = {}
    None = None
    MATRIX_SYNC_STALE_MS = 2
    Probes = {}
    MaxNow = 1
    MaxChanges = 4
    MaxErrors = 2
INVARIANTS
    OnlyDirectRoomsHandled
    ReadyMeansAnswered
    UncheckedOnlyByFailure
SYMMETRY Symmetry
