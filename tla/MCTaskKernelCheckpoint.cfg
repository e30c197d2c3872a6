CONSTANTS
    t1 = t1
    t2 = t2
    o1 = o1
    Tasks <- MCTwoTasks
    Deadline <- MCDeadline2
    Key <- MCKey2
    Facts = {1}
    Ops = {}
    NoOp = NoOp
    Runs = {r1, r2}
    NoRun = NoRun
    Saves = {s1}
    NoSave = NoSave
    Reports <- MCReportsFew
    MaxActive = 0
    MaxTaskBytes = 40
    MaxTick = 1
    MaxRev = 3
    MaxGen = 3
    MaxInstance = 2
    MaxClaims = 1
SPECIFICATION Spec
INVARIANTS SnapshotsRestorable BarrierFreezes
CHECK_DEADLOCK FALSE
SYMMETRY MCSymmetry
