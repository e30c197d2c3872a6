SPECIFICATION Spec
CONSTANTS
    Conns = {a, b}
    NoConn = NoConn
    Runs = {r1}
    NoRun = NoRun
    Saves = {}
    NoSave = NoSave
    Refs = {"absent"}
    Codes = {"c1"}
    MaxGen = 2
    MaxClock = 0
    Faults = FALSE
SYMMETRY Symmetry
CHECK_DEADLOCK FALSE
INVARIANTS LatchNeedsFault
