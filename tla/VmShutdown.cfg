SPECIFICATION FairSpec
CONSTANTS
  vmCount = 2
  Local <- OneTitle
  MaxAttempts = 1
  Strace = TRUE
PROPERTY ShutdownEnds
CHECK_DEADLOCK FALSE
