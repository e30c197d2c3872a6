CONSTANTS
  Turns = {t1, t2}
  Facts = {f1}
  Contents = {c1, c2}
  OldRecords <- MCOldRecords
  MaxSources = 3
  MaxSummaries = 2
  MaxTime = 1
  PageRecords = 2
  Pressure = 2
  KeepRecent = 1
  Cooldown = 1
  BatchSources = 3
SYMMETRY Symmetry
CONSTRAINT Focus
SPECIFICATION Spec
CHECK_DEADLOCK FALSE
INVARIANTS NothingForgotten ToldOnce AckedExperiencesKept
PROPERTIES LeaseProtects
