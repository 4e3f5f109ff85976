SPECIFICATION FairSpec
CONSTANTS
  MaxSequence = 3
  MaxAttempts = 2
  MaxReads = 2
  LogLength = 2
INVARIANTS
  SettledIsComplete
PROPERTIES
  ChronologyNeverMovesBack
  BehindCatchesUp
CHECK_DEADLOCK FALSE
