SPECIFICATION FairSpec
CONSTANTS
  vmCount = 2
  Local <- OneTitle
  MaxAttempts = 1
  Strace = TRUE
INVARIANTS VMUsedOnce FuzzingGoesOn OneReproPerTitle WorthTrying
PROPERTIES VMsUsed ReprosStart
CHECK_DEADLOCK FALSE
