SPECIFICATION Spec
CONSTANTS
  v1 = v1
  v2 = v2
  a = a
  b = b
  d = d
  x = x
  VM <- TwoVMs
  Finder <- OneFinder
  Prog <- Progs
  Signal <- Signals
  SignalOf <- BCoversA
  Bad <- BadProgs
  Disabled <- DisabledProgs
  Leftover <- AIsLeft
  PreserveCorpus = TRUE
  HubClient = TRUE
  InitialFiles <- Files
  BatchSize = 1
  RotateShare = 2
  SaturateAt = 2
  HubProgs <- HubSends
  MaxHub = 1
  CompactUnit = 1
  CompactKeep = 1
INVARIANTS CorpusCovers Durable MaxSignalDistributed InputsDistributed
PROPERTY OnlyRedundantDeleted
