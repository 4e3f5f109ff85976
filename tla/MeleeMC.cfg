SPECIFICATION Spec
CONSTANTS
  U1 = U1
  U2 = U2
  UG = UG
  C1 = C1
  C2 = C2
  Nowhere = 0
  Hex <- StripHex
  AdjacentHexes <- StripAdjacent
  EdgeHexes = {3}
  WoodedRough = {}
  Unit <- MeleeUnit
  SideOf <- MeleeSide
  Kind <- MeleeKind
  FullSteps <- MeleeSteps
  Movement <- MeleeMovement
  CombatValue <- MeleeCombatValue
  Setup <- MeleeSetup
  EntryTurn <- MeleeEntryTurn
  EntryHexes <- MeleeEntryHexes
  Objective = {4}
  Value <- MeleeValue
  LastTurn = 1
  NightTurns = {}
  RatioTurn = 1
  LeadTurn = 2
  Lead = 2
INVARIANTS
  CombatsAreIndependent
  EveryContactIsFought
