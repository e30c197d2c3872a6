CONSTANTS
    p1 = p1
    p2 = p2
    p3 = p3
    m1 = m1
    m2 = m2
    NoTask = NoTask
    QueueSize = 1
    Players <- MCPlayers
    Maint <- MCMaint
    Gated <- MCGated
SPECIFICATION FairSpec
INVARIANTS NoLostWakeup BoundedPlayers Custody
PROPERTIES AcceptedSettles CancelledFinishes
CHECK_DEADLOCK FALSE
