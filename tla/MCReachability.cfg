SPECIFICATION Spec
CONSTANTS
    Peers = {p1, p2}
    NONE = NONE
    TESTING_INTERVAL = {1}
    TESTING_BACKOFF_MAX = 1
    MAX_RETESTS_PER_TICK = 1
    MaxChanges = 2
    MaxOverlaps = 1
INVARIANTS
    FailingIsRetested
PROPERTIES
    FailureIsReported
    EveryoneIsTested
CHECK_DEADLOCK FALSE
