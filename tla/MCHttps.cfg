SPECIFICATION Spec
CONSTANTS
    r1 = r1
    r2 = r2
    c1 = c1
    c2 = c2
    Requests = {r1, r2}
    Onions = {r2}
    Clients = {c1, c2}
    ClientOf <- MCClientOf
    IPV6 = IPV6
    FirstHops <- MCFirstHops
    MAX_ONION_HOPS = 2
    INT_MAX = 3
    BUCKET_SIZE = 1
    TOKEN_PERIOD = 2
    MAX_CLIENTS = 1
    MaxQueued = 1
INVARIANTS
    HopsBounded
    LimitIsLifted
PROPERTIES
    EndedOnce
    Answered
    SignalEndsDaemon
CHECK_DEADLOCK FALSE
