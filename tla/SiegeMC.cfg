SPECIFICATION Spec
CONSTANTS
  U1 = U1
  U2 = U2
  UG = UG
  C1 = C1
  C2 = C2
  Nowhere = 0
  Hex <- RingHex
  AdjacentHexes <- RingAdjacent
  EdgeHexes = {2, 5}
  WoodedRough = {3, 4, 5, 6, 7}
  Unit <- SiegeUnit
  SideOf <- SiegeSide
  Kind <- SiegeKind
  FullSteps <- SiegeSteps
  Movement <- SiegeMovement
  CombatValue <- SiegeCombatValue
  Setup <- SiegeSetup
  EntryTurn <- SiegeEntryTurn
  EntryHexes <- SiegeEntryHexes
  Objective = {1}
  Value <- SiegeValue
  LastTurn = 2
  NightTurns = {1}
  RatioTurn = 1
  LeadTurn = 2
  Lead = 2
INVARIANTS
  OccupiersControl
  StacksAreLegal
  OutcomeIsEarned
  EveryChoiceHasAnAnswer
PROPERTIES
  GamesAreFinite
