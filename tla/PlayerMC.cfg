SPECIFICATION Spec
CONSTANTS
  MaxSequence = 2
  MaxSeatSequence = 1
  MaxAttempts = 2
  MaxReads = 2
  Op = {invite, revoke}
  MoveKinds = {"move", "surrender"}
SYMMETRY Alike
ACTION_CONSTRAINT Bounds
INVARIANTS
  SettledIsCurrent
PROPERTIES
  HostAnswersInOrder
  
CHECK_DEADLOCK FALSE
