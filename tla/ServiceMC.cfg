SPECIFICATION Spec
CONSTANTS
  Session = {s1, s2, s3}
  BindingId = {b1, b2, b3, b4}
  InvitationId = {i1, i2}
  GrantId = {g1, g2}
  CommandId = {c1, c2}
  None = None
  MaxSequence = 3
  MaxHanded = 3
  MaxExpired = 1
  Choosing = "union"
ACTION_CONSTRAINT Bounds
INVARIANTS
  TypeOK
  BindingsAreExclusive
  CommandAppliesOnce
  RetriedClaimOwnsItsBinding
  NothingOutlivesItsUse
  HistoryReplays
PROPERTIES
  HandoverIsLogged
