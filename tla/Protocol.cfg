SPECIFICATION Spec
CONSTANTS
    Ids <- MCIds
    Names <- MCNames
    Reasons <- MCReasons
    Domains <- MCDomains
    Kids <- MCKids
    MaxEvents = 4
    Width = 6
    UtcLimit = 24
    MaxNow = 7
    MAX_TTL_MS = 5
    CLOCK_SKEW_MS = 2
    REPLAY_GRACE_MS = 2
    Texts <- MCTexts
    Height <- MCHeight
    I64_MAX = 7
    MaxTexts = 2
    Tasks = {t1, t2, t3}
    Limit = 2
    MaxSecs = 2
    MaxRequests = 7
SYMMETRY Symmetry
INVARIANTS
    CommittedCanBeTold
    ApprovedIsSigned
    SignaturesBind
    SessionTimesExact
    MessageTimesExact
    RefusesTheAmbiguous
    CanonicalMeansSame
    ExactWithoutOverlap
    NoSecondRefusesAll
    OverrunIsBounded
CHECK_DEADLOCK FALSE
