SPECIFICATION RaceSpec
CONSTANTS
  t1 = t1  t2 = t2  c1 = c1  c2 = c2
  Task <- TwoTasks
  Cpu <- TwoCpus
  Timer = Timer
  CycleThreadCount = 2
  QueueMax = 2
INVARIANT OneDispatched
