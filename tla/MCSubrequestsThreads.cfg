SPECIFICATION Spec
CONSTANTS
    main = main
    worker = worker
    helper = helper
    Nobody = Nobody
    Main = main
    Threads = {main, worker}
    N = 2
INVARIANTS
    RepliedOnce
CHECK_DEADLOCK FALSE
