SPECIFICATION Spec
CONSTANTS
    alice = alice
    bob = bob
    h1 = h1
    h2 = h2
    h3 = h3
    inbox = inbox
    config = config
    s1 = s1
    s2 = s2
    Pubkeys = {alice, bob}
    Namespaces = {inbox, config}
    Hashes = {h1, h2, h3}
    Subkeys = {}
    HashOwner <- MCHashOwner
    Attributes <- MCAttributes
    MaxTime = 2
    MaxId = 4
    MaxRows = 2
    SubkeyLimit = 1
INVARIANTS
    TypeOK
    IInv
    OwnersHaveMessages
    MessagesKeepOwner
PROPERTIES
    ExpiredGoes
    ImplementsMailbox
CHECK_DEADLOCK FALSE
