SPECIFICATION Spec
CONSTANTS
    Conns = {a, b}
    NoConn = NoConn
    Runs = {r1, r2}
    NoRun = NoRun
    Saves = {s1}
    NoSave = NoSave
    Refs = {"absent", "confirmed", "unconfirmed"}
    Codes = {}
    MaxGen = 3
    MaxClock = 0
    Faults = TRUE
SYMMETRY Symmetry
CHECK_DEADLOCK FALSE
INVARIANTS OwnerlessIsPaused
PROPERTIES SaveReleasedByItsFinish
