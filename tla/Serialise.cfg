SPECIFICATION FairSpec
CONSTANTS
  t1 = t1  t2 = t2  t3 = t3  g1 = g1
  Task <- ThreeTasks
  Group <- OneGroup
  Eid <- AllInG1
  CycleThreadCount = 2
  QueueMax = 3
  CtxMax = 2
  IdleWake = TRUE
   
PROPERTIES  ParkedLeaves
