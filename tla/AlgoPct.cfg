SPECIFICATION AlgoSpec
CONSTANTS
  t1 = t1  t2 = t2  g1 = g1
  Task <- TwoTasks
  Group <- OneGroup
  Eid <- AllInG1
  CtxMax = 2
  IdleWake = FALSE
  CycleThreadCount = 2
  QueueMax = 2
  Algorithm = "PCT"
  MaxCycleThreads = 2
  Depth = 3
  RandomPriority <- OnePriority
  Addr <- NoAddr
  EventMax = 4
  DetMax = 2
SYMMETRY Symmetry
INVARIANTS DsqInPriorityOrder DemotedRankBelow
PROPERTY NewStratumIsLowest
CHECK_DEADLOCK FALSE
