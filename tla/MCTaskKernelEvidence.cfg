CONSTANTS
    t1 = t1
    t2 = t2
    o1 = o1
    Tasks <- MCOneTask
    Deadline <- MCDeadline1
    Key <- MCKey1
    Facts = {1, 2}
    Ops = {o1}
    NoOp = NoOp
    Runs = {r1}
    NoRun = NoRun
    Saves = {}
    NoSave = NoSave
    Reports <- MCReportsRich
    MaxActive = 0
    MaxTaskBytes = 40
    MaxTick = 1
    MaxRev = 4
    MaxGen = 2
    MaxInstance = 2
    MaxClaims = 1
SPECIFICATION Spec
INVARIANTS EvidenceSound
PROPERTIES RecordsEvolve
CHECK_DEADLOCK FALSE
