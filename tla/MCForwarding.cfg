SPECIFICATION Spec
CONSTANTS
    NONE = NONE
    WRONG = WRONG
    ALL = ALL
    UNSET = UNSET
    BAD_HASH = BAD_HASH
    TOO_LONG = TOO_LONG
    x1 = x1
    x2 = x2
    e1 = e1
    e2 = e2
    e3 = e3
    k1 = k1
    d1 = d1
    h1 = h1
    h2 = h2
    UNSIGNED = UNSIGNED
    MIN_TIME = 10
    NAMESPACE_MAX = 11
    NOW = 20
    PeerTimes <- MCPeerTimes
    SIGNATURE_TOLERANCE = 2
    SIGNATURE_TOLERANCE_FORWARDED = 3
    STORE_TOLERANCE = 1
    TTL_MINIMUM = 1
    TTL_MAXIMUM = 3
    TTL_MAXIMUM_PRIVATE = 4
    EdOf <- MCEdOf
    Requests <- MCRequests
INVARIANTS
    PeerReadsTheSame
    PeerAccepts
    OnlyOwnersAct
CHECK_DEADLOCK FALSE
