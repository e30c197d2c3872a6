SPECIFICATION FairSpec
CONSTANTS
    MaxGen = 2
    MaxFailures = 2
CHECK_DEADLOCK FALSE
INVARIANTS NotSentIsTrue CleanupsAgree
PROPERTIES CloseFreesGoroutines
