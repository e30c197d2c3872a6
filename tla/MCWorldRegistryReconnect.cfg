SPECIFICATION Spec
CONSTANTS
    Conns = {a, b}
    NoConn = NoConn
    Runs = {r1, r2}
    NoRun = NoRun
    Saves = {s1}
    NoSave = NoSave
    Refs = {"absent", "confirmed"}
    Codes = {}
    MaxGen = 3
    MaxClock = 0
    Faults = FALSE
SYMMETRY Symmetry
CHECK_DEADLOCK FALSE
INVARIANTS ReconnectNotBlocked
