SPECIFICATION FairSpec
CONSTANTS
  MaxSteps = 0
  MaxChunks = 2
  MaxEntries = 7
  ProcOf <- Procs
  Timeouts = 2
  startOpts <- Options
INVARIANTS  GuiltyFound OptionsLegal
PROPERTY ReproEnds
