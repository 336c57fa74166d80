SPECIFICATION Spec
CONSTANTS
    main = main
    worker = worker
    helper = helper
    Nobody = Nobody
    Main = main
    Threads = {main, worker, helper}
    N = 3
INVARIANTS
    TypeOK
    RepliesAccountedFor
    BatchIsFull
    SequenceStops
PROPERTIES
    RepliedUnlessLost
CHECK_DEADLOCK FALSE
