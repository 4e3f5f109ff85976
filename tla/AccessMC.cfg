SPECIFICATION Spec
CONSTANTS
  Lookup = {l1, l2, l3}
  Session = {s1, s2}
  ClaimId = {i1, i2}
  Limit = 2
  Lifetime = 1
  MaxTime = 2
  MaxSequence = 5
  None = None
SYMMETRY Alike
INVARIANTS
  LimitHolds
  EveryPrefixReplays
  AccessFollowsInvitation
