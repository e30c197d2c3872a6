SPECIFICATION FairSpec
CONSTANTS
  Environment = {"say", "move", "walk", "bow"}
  TaskTools = {"task"}
  KnowledgeTools = {"lore"}
  Exclusive = {"bow"}
  ParallelSafe = {"say", "lore"}
  Async = {"walk"}
  Settling = {"move"}
  MaxParallelToolCalls = 2
  Decisions <- MCDecisions
  MaxSteps = 3
  MaxToolCallsPerStep = 3
  MaxToolCallsPerTurn = 4
  MaxAsyncActionsPerTurn = 1
CHECK_DEADLOCK FALSE
INVARIANTS StepsSound HistoryTruthful
PROPERTIES TurnEnds
