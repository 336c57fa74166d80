SPECIFICATION Spec
CONSTANTS
    n1 = n1
    n2 = n2
    n3 = n3
    m1 = m1
    Ring = 8
    Nodes = {n1, n2, n3}
    SwarmIds = {1, 3, 6}
    Messages = {m1}
    Position <- MCPosition
    Namespace <- MCNamespace
    ForceStart = {}
    MaxEvents = 3
INVARIANTS
    PeersAgree
    NearestSwarm
    DataFollows
SYMMETRY Symmetry
VIEW View
CHECK_DEADLOCK FALSE
