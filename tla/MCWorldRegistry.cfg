SPECIFICATION Spec
CONSTANTS
    Conns = {a, b}
    NoConn = NoConn
    Runs = {r1}
    NoRun = NoRun
    Saves = {s1}
    NoSave = NoSave
    Refs = {"absent"}
    Codes = {"c1"}
    MaxGen = 2
    MaxClock = 1
    Faults = TRUE
SYMMETRY Symmetry
CHECK_DEADLOCK FALSE
INVARIANTS AdmissionSound OneExecutor
PROPERTIES GenerationOpensOnce
