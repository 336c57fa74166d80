SPECIFICATION PollSpec
CONSTANTS
    alice = alice
    bob = bob
    h1 = h1
    h2 = h2
    h3 = h3
    inbox = inbox
    config = config
    Pubkeys = {alice}
    Namespaces = {inbox, config}
    Hashes = {h1, h2, h3}
    Subkeys = {}
    HashOwner <- MCHashOwner
    Attributes <- MCAttributes
    MaxTime = 1
    MaxId = 3
    MaxRows = 3
    SubkeyLimit = 1
    ClientPubkey = alice
    ClientNamespace = inbox
    MaxCounts <- MCMaxCounts
    NoHash = NoHash
INVARIANTS
    SkippedWereSeen
PROPERTIES
    CaughtUp
SYMMETRY Symmetry
CHECK_DEADLOCK FALSE
