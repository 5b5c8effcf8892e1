SPECIFICATION Spec
CONSTANTS
    d1 = d1
    d2 = d2
    s1 = s1
    s2 = s2
    n1 = n1
    n2 = n2
    u1 = u1
    u2 = u2
    ra = ra
    rb = rb
    None = None
    MAX_TTL_MS = 2
    CLOCK_SKEW_MS = 1
    Domains = {d1, d2}
    SessionIds = {s1, s2}
    Nonces = {n1, n2}
    Users = {u1, u2}
    Rooms = {ra, rb}
    Registrations <- OneRegistration
    Messages <- RevocationMessages
    EventIds = {e1, e2, e3}
    Handlers = {h1}
    Workers = {w1, w2}
    MaxAttempts = 1
    BatchLimit = 1
    MaxNow = 0
    MaxFaults = 0
SYMMETRY Symmetry
INVARIANTS
    RevocationFollowsLogin
PROPERTIES
    KeepsPromise
