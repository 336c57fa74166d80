SPECIFICATION Spec
CONSTANTS
    alice = alice
    bob = bob
    h1 = h1
    h2 = h2
    h3 = h3
    inbox = inbox
    config = config
    s1 = s1
    s2 = s2
    Pubkeys = {alice, bob}
    Namespaces = {inbox}
    Hashes = {h1, h3}
    Subkeys = {s1, s2}
    HashOwner <- MCHashOwner
    Attributes <- MCOneAttribute
    MaxTime = 1
    MaxId = 2
    MaxRows = 2
    SubkeyLimit = 1
INVARIANTS
    IInv
PROPERTIES
    RevocationKept
CHECK_DEADLOCK FALSE
