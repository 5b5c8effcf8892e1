SPECIFICATION OutboundSpec
CONSTANTS
    d1 = d1
    d2 = d2
    s1 = s1
    s2 = s2
    n1 = n1
    n2 = n2
    u1 = u1
    u2 = u2
    ra = ra
    rb = rb
    None = None
    MAX_TTL_MS = 2
    CLOCK_SKEW_MS = 1
    Domains = {d1, d2}
    SessionIds = {s1, s2}
    Nonces = {n1, n2}
    Users = {u1, u2}
    Rooms = {ra, rb}
    Registrations <- OneRegistration
    Messages <- RegrantMessages
    EventIds = {1, 2, 3}
    Handlers = {h1}
    Workers = {w1}
    MaxAttempts = 1
    BatchLimit = 2
    MaxNow = 0
    MaxFaults = 1
    AddressLists <- MCAddressLists
    Replies <- MCReplies
    CONNECT_TIMEOUT = 2
    FIRST_BYTE_TIMEOUT = 3
    TOTAL_TIMEOUT = 5
    MaxBody = 3
    Headroom = 2
    Chunk = 2
    FirstChunk = 1
    MaxCalls = 2
ACTION_CONSTRAINT ArriveInOrder
INVARIANTS
    OnlyCheckedAddress
    LengthBounded
    AcceptedIsWhole
PROPERTIES
    JobsSettle
    RequestEnds
CHECK_DEADLOCK FALSE
