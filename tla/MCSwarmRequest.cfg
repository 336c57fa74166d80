SPECIFICATION Spec
CONSTANTS
    n1 = n1
    n2 = n2
    Nodes = {n1, n2}
    Hashes = {1, 2}
    Expiries = {1, 2}
    Limits = {1, 2}
    Operations <- MCEveryEndpoint
    FullNodes = {}
    MaxRequests = 2
INVARIANTS
    TypeOK
    CountdownInv
    ReplyIsComplete
    SuccessIsTrue
    AgreementAfterSuccess
PROPERTIES
    EventuallyReplied
CHECK_DEADLOCK FALSE
