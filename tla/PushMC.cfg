SPECIFICATION PushSpec
CONSTANTS
  k1 = k1
  k2 = k2
  w1 = w1
  w2 = w2
  U1 = U1
  C1 = C1
  C2 = C2
  CombatId = {k1, k2}
  MaxGroups = 2
  Binding = {U1, C1, C2}
  SideOf <- Seats
  Bound = {U1, C1}
  Subscriber = {C1}
  Worker = {w1, w2}
  None = None
  Lifetime = 3
  Lease = 2
  RetryDelays <- OneRetry
  Spans = {2, 3}
  MaxTime = 3
  MaxSequence = 3
  MaxTag = 2
SYMMETRY Alike
INVARIANTS
  SurvivesReload
  RemindersAreCurrent
  OneUnexpiredLease
PROPERTIES
  DispatchIsWanted
  GoneEndsItsConsent
  OnlyItsLeaseEndsIt
CHECK_DEADLOCK FALSE
