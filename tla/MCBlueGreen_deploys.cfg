SPECIFICATION Spec
CONSTANTS
  t1 = t1
  t2 = t2
  t3 = t3
  Tag <- Releases
  NoTag = NoTag
  Faults = {"pull", "migrate", "start", "test", "reload", "back"}
  CrashAt = {"pull", "migrate", "start", "gate", "switch", "observe", "back",
    "record"}
  GateBudget = 2
  GateInterval = 2
  AttemptMax = 2
  ObserveFor = 2
  ObserveInterval = 1
  RequestMax = 1
  MaxJobs = 4
INVARIANTS
    TrafficIsGated
    
    RollbackIsWarm
    DriftIsVisible
    LoopsStayInBudget
CHECK_DEADLOCK FALSE
