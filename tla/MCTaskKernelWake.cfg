CONSTANTS
    t1 = t1
    t2 = t2
    o1 = o1
    Tasks <- MCOneTask
    Deadline <- MCDeadline1
    Key <- MCKey1
    Facts = {1}
    Ops = {o1}
    NoOp = NoOp
    Runs = {r1}
    NoRun = NoRun
    Saves = {s1}
    NoSave = NoSave
    Reports <- MCReportsSize
    MaxActive = 0
    MaxTaskBytes = 9
    MaxTick = 3
    MaxRev = 7
    MaxGen = 4
    MaxInstance = 3
    MaxClaims = 3
SPECIFICATION Spec
INVARIANTS RecoveryRefusedOnlyForSize ClaimsFenced AttemptsSettle
CONSTRAINT MCFocus
CHECK_DEADLOCK FALSE
