SPECIFICATION Spec
CONSTANTS
  p1 = p1
  p2 = p2
  s1 = s1
  s2 = s2
  Proc <- TwoProcs
  Signal <- OneSignal
  CandidateFlags <- NewOrTriaged
  MinCandidates = 1
  MaxCandidates = 2
  Comparisons = TRUE
  Collide = TRUE
  FaultInjection = TRUE
  SmashIters = 1
  LoopMax = 1
  CollideIters = 1
INVARIANTS CandidatesCounted OneAnswer SignalReported CorpusIsStable
SYMMETRY Symmetry
