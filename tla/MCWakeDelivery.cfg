SPECIFICATION FairSpec
CONSTANTS
    Wakes = {w1}
    Claims = {1, 2}
    NoClaim = NoClaim
    MaxGen = 2
CHECK_DEADLOCK FALSE
INVARIANTS NoOrphanedWake
PROPERTIES OwnershipSpec HeldWakeMovesOn
