SPECIFICATION Spec
CONSTANTS
  prog1 = prog1
  prog2 = prog2
  repro1 = repro1
  repro2 = repro2
  NMgr = 2
  Prog <- TwoProgs
  Repro <- TwoRepros
  Supports <- Supported
  Refused <- None
  MaxRecords = 0
  MaxSeq = 2
  MaxFaults = 1
SYMMETRY Symmetry
INVARIANTS  HubExact NothingSkipped ReproOnce
 
