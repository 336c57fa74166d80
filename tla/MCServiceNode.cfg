SPECIFICATION Spec
CONSTANTS
    MaxBlock = 3
    MaxFaults = 2
    Seeds = {s1, s2}
    SwarmAt <- MCSwarmAt
    HardforkFrom = 1
    Decommissioned = {2}
    Complete = {3}
    ForceStart = FALSE
INVARIANTS
    ViewOfOneBlock
PROPERTIES
    SyncedForever
    CatchesUp
CHECK_DEADLOCK FALSE
