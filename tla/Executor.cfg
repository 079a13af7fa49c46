SPECIFICATION FairSpec
CONSTANTS
  p1 = p1
  p2 = p2
  p3 = p3
  Proc <- ThreeProcs
  Size = 3
  MaxTry = 1
  UseForkServer = TRUE
  Flaky <- OneProc
INVARIANTS GateSound LeakReportedAfterFlush InfoFresh
PROPERTIES GateRefines SleepersWoken WorldStops
