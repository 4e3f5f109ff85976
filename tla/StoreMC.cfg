SPECIFICATION Spec
CONSTANTS
  s1 = s1
  s2 = s2
  k1 = k1
  k2 = k2
  MaxGames = 2
  Session = {s1, s2}
  CreationId = {k1, k2}
  Client = {c1, c2}
  Worker = {w}
  Room = {d1, d2}
  Slots = 2
  Asked <- Calls
  Heard <- Players
  None = None
INVARIANTS
  MirrorIsSound
  SlotsAreShared
PROPERTIES
  CallsAreAtomic
  SendsAreAuthorized
