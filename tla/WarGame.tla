------------------------------ MODULE WarGame ------------------------------
(***************************************************************************)
(* The rules of the game: packages/game/src/reducer.ts, with what it uses  *)
(* of combat.ts, board-exit.ts, reinforcements.ts, night.ts and            *)
(* forced-retreat.ts.  One action per gameplay command the reducer accepts;*)
(* a rejected command leaves the state as it is.                           *)
(*                                                                         *)
(* Dice and odds are abstracted to what they decide: who wins a combat and *)
(* how many losses the table asks for.  Both are chosen when the result is *)
(* confirmed, for nothing looks at the dice before.  Of the separations of *)
(* a melee into equally few combats, which one the search prefers is open. *)
(* A combat is known by its counters, not by an identifier.                *)
(***************************************************************************)
EXTENDS Retreats

CONSTANTS
  Setup,          \* the hex each counter starts in, Nowhere for a reinforcement
  EntryTurn,      \* the turn a reinforcement becomes available
  EntryHexes,     \* its scheduled entry hexes
  Objective,      \* the hexes worth points
  Value,          \* their points
  LastTurn,       \* 24 in the scenario
  NightTurns,     \* 8, 16, 24
  RatioTurn,      \* 8: the confederates win with twice the union's points
  LeadTurn,       \* 16: ... or with a lead of
  Lead            \* 15

ASSUME ScenarioAssumption ==
  /\ Setup \in [Unit -> Hex \cup {Nowhere}]
  /\ \A h \in Hex : StackFits({u \in Unit : Setup[u] = h})
  /\ \A u, w \in Unit : Setup[u] = Setup[w] /\ Setup[u] # Nowhere => SideOf[u] = SideOf[w]
  /\ \A u \in Unit : General(u) /\ Setup[u] # Nowhere =>
       \E w \in Unit : ~General(w) /\ Setup[w] = Setup[u]
  /\ EntryTurn \in [Unit -> Nat]
  /\ EntryHexes \in [Unit -> SUBSET Hex]
  /\ Objective \in SUBSET Hex
  /\ Value \in [Objective -> Nat]
  /\ \A u \in Unit : Setup[u] \in Objective => SideOf[u] = "union"
  /\ {LastTurn, RatioTurn, LeadTurn, Lead} \subseteq Nat
  /\ NightTurns \subseteq Nat

VARIABLES
  activeSide,   \* active_side, "none" once the game is completed
  phase,        \* movement, combat, completed
  turn,
  units,        \* the state of every counter
  control,      \* objectives: controlled_by
  ledger,       \* normal_movement
  combats,      \* the combats of this phase
  victory       \* victory.status

vars == <<activeSide, phase, turn, units, control, ledger, combats, victory>>

NoChoice == [kind |-> "none", side |-> "none", count |-> 0, units |-> {}, hexes |-> {}]

\* pending_choice
Choice ==
  [kind : {"none", "loss", "retreat", "advance"}, side : Side \cup {"none"},
   count : 0..2,              \* the losses to allocate
   units : SUBSET Unit,       \* unit_ids or eligible_unit_ids
   hexes : SUBSET Hex]        \* destination_hexes

\* Only the loser loses steps and retreats, so one flag stands for the attacker's
\* and the defender's flag of the code.
Combat ==
  [attackers : SUBSET Unit, defenders : SUBSET Unit,
   attackerHexes : SUBSET Hex, defenderHexes : SUBSET Hex,
   status : {"awaiting_result_confirmation", "pending_choice", "resolved"},
   result : {"none", "attacker_win", "defender_win"},
   losses : 0..2, lossAllocated : BOOLEAN, retreated : BOOLEAN, choice : Choice]

TypeOK ==
  /\ activeSide \in Side \cup {"none"}
  /\ phase \in {"movement", "combat", "completed"}
  /\ turn \in Nat
  /\ units \in [Unit -> UnitState]
  /\ control \in [Objective -> Side]
  /\ ledger \in Ledger
  /\ combats \in SUBSET Combat
  /\ victory \in Side \cup {"in-progress", "tie"}

Init ==
  /\ activeSide = "union"
  /\ phase = "movement"
  /\ turn = 1
  /\ units = [u \in Unit |->
                [status |-> IF Setup[u] = Nowhere THEN "reinforcement" ELSE "deployed",
                 strength |-> "full", location |-> Setup[u],
                 steps |-> FullSteps[u], spent |-> 0]]
  /\ control = [h \in Objective |-> "union"]
  /\ ledger = NoMoves
  /\ combats = {}
  /\ victory = "in-progress"

night == turn \in NightTurns

\* accepted: every command ends with the capture of lone generals.
Accept(newUnits) == units' = Settled(newUnits)

-----------------------------------------------------------------------------
(* Movement commands.                                                      *)

\* prepareNormalMovement, but for the cost: the group may move to that hex.
MayMoveTo(side, movers, destination) ==
  /\ GroupMayMove(units, ledger, movers)
  /\ Source(units, movers) # destination
  /\ destination \notin EnemyOccupied(units, side, movers)
  /\ StackFits(movers \cup (At(units, destination) \cap Army(side)))
  /\ StackFits(At(units, Source(units, movers)) \ movers)

RoutesTo(side, movers, destination) ==
  {route \in Routes(units, night, side, movers, Source(units, movers), destination) :
     Len(route) - 1 <= Allowance(units, movers)}

\* moveUnit, moveStack
Move(side, movers, destination) ==
  /\ activeSide = side
  /\ phase = "movement"
  /\ MayMoveTo(side, movers, destination)
  /\ \E route \in RoutesTo(side, movers, destination) :
       /\ Accept(AfterMove(units, movers, route))
       /\ control' = Controlled(control, Entered(route), side)
  /\ ledger' = LedgerAfter(ledger, movers)
  /\ UNCHANGED <<activeSide, phase, turn, combats, victory>>

\* hexDistance, on the graph
HexDistance(a, b) ==
  Min({n \in 0..Cardinality(Hex) : b \in Within(AdjacentHexes, a)[n] \/ n = Cardinality(Hex)})

\* reinforcementEntryHexes: the scheduled edge, or the nearest ones free of enemies.
EntryHexesNow(u) ==
  LET enemies == Deployed(units) \ Army(SideOf[u])
      safe == EdgeHexes \ (EnemyZone(units, SideOf[u]) \cup {units[e].location : e \in enemies})
  IN UNION {IF entry \in safe
              THEN {entry}
              ELSE {h \in safe : \A g \in safe : HexDistance(entry, h) <= HexDistance(entry, g)} :
              entry \in EntryHexes[u] \cap EdgeHexes}

\* (A variant that forgets who already stands in the entry hex.)
MayEnter_StackUnchecked(arriving, destination) ==
  /\ arriving # {}
  /\ \A u \in arriving : /\ units[u].status = "reinforcement"
                         /\ EntryTurn[u] <= turn
                         /\ destination \in EntryHexesNow(u)
                         /\ Movement[u] >= 1
  /\ \E entry \in Hex : \A u \in arriving : entry \in EntryHexes[u]
  /\ StackFits(arriving)
  /\ destination \in Terrain(arriving)

\* prepareReinforcement
MayEnter(arriving, destination) ==
  /\ arriving # {}
  /\ \A u \in arriving : /\ units[u].status = "reinforcement"
                         /\ EntryTurn[u] <= turn
                         /\ destination \in EntryHexesNow(u)
                         /\ Movement[u] >= 1
  /\ \E entry \in Hex : \A u \in arriving : entry \in EntryHexes[u]
  /\ StackFits(At(units, destination) \cup arriving)
  /\ destination \in Terrain(arriving)

\* enterReinforcement, enterReinforcementStack
EnterReinforcement(side, arriving, destination) ==
  /\ activeSide = side
  /\ phase = "movement"
  /\ MayEnter(arriving, destination)
  /\ Accept(Updated(units,
       [u \in arriving |-> [units[u] EXCEPT !.status = "deployed",
                                            !.location = destination, !.spent = 1]]))
  /\ control' = Controlled(control, {destination}, side)
  /\ ledger' = LedgerAfter(ledger, arriving)
  /\ UNCHANGED <<activeSide, phase, turn, combats, victory>>

\* prepareBoardExit
MayExit(movers) ==
  /\ GroupMayMove(units, ledger, movers)
  /\ Source(units, movers) \in EdgeHexes
  /\ Allowance(units, movers) >= 1
  /\ StackFits(At(units, Source(units, movers)) \ movers)
  /\ StackFits(movers)

\* exitBoard
ExitBoard(side, movers) ==
  /\ activeSide = side
  /\ phase = "movement"
  /\ MayExit(movers)
  /\ Accept(Exited(units, movers, 1))
  /\ ledger' = LedgerAfter(ledger, movers)
  /\ UNCHANGED <<activeSide, phase, turn, control, combats, victory>>

-----------------------------------------------------------------------------
(* The end of a phase: night withdrawals, mandatory combats, side turns.   *)

\* mandatoryNightWithdrawals: at night nobody stays in an enemy zone who can leave
\* it, in whatever group.
CanWithdraw(side, movers) ==
  LET zone == EnemyZone(units, side) IN
  /\ GroupMayMove(units, ledger, movers)
  /\ Source(units, movers) \in zone
  /\ Allowance(units, movers) > 0
  /\ StackFits(movers)
  /\ StackFits(At(units, Source(units, movers)) \ movers)
  /\ \/ MayExit(movers)
     \/ \E h \in Hex \ zone :
          MayMoveTo(side, movers, h) /\ RoutesTo(side, movers, h) # {}

MustWithdraw(side) ==
  /\ night
  /\ \E h \in EnemyZone(units, side) :
       \E movers \in SUBSET (At(units, h) \cap Army(side)) : CanWithdraw(side, movers)

\* The hexes from which a side's combat counters touch the enemy's.
FrontHexes(side) ==
  {h \in Hex : /\ Supported(units, side, h)
               /\ \E g \in AdjacentHexes[h] : Supported(units, OtherSide(side), g)}

\* The legal combats: one side in a single hex, the other in hexes around it.
Skirmishes(side) ==
  LET fronts(s) == FrontHexes(s) IN
  (UNION {{[attackerHexes |-> A, defenderHexes |-> {h}] :
             A \in (SUBSET (AdjacentHexes[h] \cap fronts(side))) \ {{}}} :
            h \in fronts(OtherSide(side))})
  \cup
  (UNION {{[attackerHexes |-> {h}, defenderHexes |-> D] :
             D \in (SUBSET (AdjacentHexes[h] \cap fronts(OtherSide(side)))) \ {{}}} :
            h \in fronts(side)})

\* (A variant that leaves contacts out.)
Separates_Partly(plan, side) ==
  \A s, t \in plan :
    s # t => /\ s.attackerHexes \cap t.attackerHexes = {}
             /\ s.defenderHexes \cap t.defenderHexes = {}

\* Every front hex is in exactly one of the combats.
Separates(plan, side) ==
  /\ UNION {s.attackerHexes : s \in plan} = FrontHexes(side)
  /\ UNION {s.defenderHexes : s \in plan} = FrontHexes(OtherSide(side))
  /\ \A s, t \in plan :
       s # t => /\ s.attackerHexes \cap t.attackerHexes = {}
                /\ s.defenderHexes \cap t.defenderHexes = {}

\* combatSkirmishes: the separations into the fewest combats
CombatPlans(side) ==
  LET plans(n) == {plan \in kSubset(n, Skirmishes(side)) : Separates(plan, side)}
      sizes == {n \in 1..Cardinality(FrontHexes(side)) : plans(n) # {}}
  IN IF sizes = {} THEN {} ELSE plans(Min(sizes))

Fighters(hexes, side) ==
  {u \in Combatants(Deployed(units)) \cap Army(side) : units[u].location \in hexes}

NewCombat(skirmish, side) ==
  [attackers |-> Fighters(skirmish.attackerHexes, side),
   defenders |-> Fighters(skirmish.defenderHexes, OtherSide(side)),
   attackerHexes |-> skirmish.attackerHexes, defenderHexes |-> skirmish.defenderHexes,
   status |-> "awaiting_result_confirmation", result |-> "none", losses |-> 0,
   lossAllocated |-> FALSE, retreated |-> FALSE, choice |-> NoChoice]

\* scoreVictory
Score(side, held, position) ==
  Total(LAMBDA h : Value[h], {h \in Objective : held[h] = side})
  + Total(LAMBDA u : CombatValue[u],
      {u \in Combatants(Army(OtherSide(side))) : position[u].status = "eliminated"})
  + Cardinality({u \in Combatants(Army(OtherSide(side))) :
                   position[u].status = "deployed" /\ Reduced(position, u)})

ConfederatesWinEarly ==
  LET confederate == Score("confederate", control, units)
      union == Score("union", control, units)
  IN \/ turn = RatioTurn /\ confederate >= 2 * union
     \/ turn = LeadTurn /\ confederate >= union + Lead

FinalStatus ==
  LET confederate == Score("confederate", control, units)
      union == Score("union", control, units)
  IN IF confederate = union THEN "tie"
     ELSE IF confederate > union THEN "confederate" ELSE "union"

CompleteGame(status) ==
  /\ activeSide' = "none"
  /\ phase' = "completed"
  /\ combats' = {}
  /\ victory' = status
  /\ Accept(units)
  /\ UNCHANGED <<turn, control, ledger>>

\* resetMovementForSide and a new ledger
BeginTurn(side) ==
  /\ activeSide' = side
  /\ phase' = "movement"
  /\ combats' = {}
  /\ ledger' = NoMoves
  /\ Accept(Updated(units, [u \in Army(side) |-> [units[u] EXCEPT !.spent = 0]]))
  /\ UNCHANGED <<control, victory>>

\* (A variant that ends the game a turn early.)
FinishSideTurn_OneTurnShort(side) ==
  IF side = "confederate" THEN BeginTurn("union") /\ UNCHANGED turn
  ELSE IF ConfederatesWinEarly THEN CompleteGame("confederate")
  ELSE IF turn + 1 = LastTurn THEN CompleteGame(FinalStatus)
  ELSE BeginTurn("confederate") /\ turn' = turn + 1

\* finishSideTurn
FinishSideTurn(side) ==
  IF side = "confederate" THEN BeginTurn("union") /\ UNCHANGED turn
  ELSE IF ConfederatesWinEarly THEN CompleteGame("confederate")
  ELSE IF turn = LastTurn THEN CompleteGame(FinalStatus)
  ELSE BeginTurn("confederate") /\ turn' = turn + 1

\* (A variant that fights again after the combats of the phase.)
CombatIsDue_Always == TRUE

\* Mandatory combat happens once per side turn.
CombatIsDue == phase = "movement" \/ combats = {}

\* endPhase
EndPhase(side) ==
  /\ activeSide = side
  /\ phase = "combat" => \A c \in combats : c.status = "resolved"
  /\ phase = "movement" => ~MustWithdraw(side)
  /\ IF CombatIsDue /\ FrontHexes(side) # {}
       THEN /\ \E plan \in CombatPlans(side) :
                 combats' = {NewCombat(skirmish, side) : skirmish \in plan}
            /\ phase' = "combat"
            /\ Accept(units)
            /\ UNCHANGED <<activeSide, turn, control, ledger, victory>>
       ELSE FinishSideTurn(side)

-----------------------------------------------------------------------------
(* Combat commands.                                                        *)

\* (A variant that takes the whole army for the stack.)
Stacked_Army(position, fighters, side, hexes) == Deployed(position) \cap Army(side)

\* stackedUnitsForSide
Stacked(position, fighters, side, hexes) ==
  LET standing == fighters \cap Deployed(position) IN
  standing \cup {u \in Deployed(position) \cap Army(side) : position[u].location \in hexes}

LosingSide(c) == IF c.result = "attacker_win" THEN OtherSide(activeSide) ELSE activeSide
Losers(c) == IF c.result = "attacker_win" THEN c.defenders ELSE c.attackers
LoserHexes(c) == IF c.result = "attacker_win" THEN c.defenderHexes ELSE c.attackerHexes

\* Defender hexes no enemy stands in (again).
Vacated(position, c) ==
  {h \in c.defenderHexes : At(position, h) \subseteq Army(activeSide)}

Pending(c, choice) == [c EXCEPT !.status = "pending_choice", !.choice = choice]
Resolved(c) == [c EXCEPT !.status = "resolved", !.choice = NoChoice]

\* nextChoice: losses, then retreats, then an advance.
NextChoice(position, c) ==
  LET retreating == Stacked(position, Losers(c), LosingSide(c), LoserHexes(c))
      winners == c.attackers \cap Deployed(position)
      advancing == Stacked(position, winners, activeSide, {position[u].location : u \in winners})
  IN IF ~c.lossAllocated /\ c.losses > 0
       THEN Pending(c, [kind |-> "loss", side |-> LosingSide(c), count |-> c.losses,
                        units |-> Losers(c), hexes |-> {}])
     ELSE IF ~c.retreated /\ retreating # {}
       THEN Pending(c, [kind |-> "retreat", side |-> LosingSide(c), count |-> 0,
                        units |-> retreating, hexes |-> {}])
     ELSE IF c.result = "attacker_win" /\ advancing # {} /\ Vacated(position, c) # {}
       THEN Pending(c, [kind |-> "advance", side |-> activeSide, count |-> 0,
                        units |-> advancing, hexes |-> Vacated(position, c)])
     ELSE Resolved(c)

Replace(c, next) == combats' = (combats \ {c}) \cup {next}

StepsLeft(fighters) == Total(LAMBDA u : units[u].steps, fighters)

\* confirmCombatResult; tableLosses is what margin and results table come to.
ConfirmCombatResult(side, c, result, tableLosses) ==
  /\ activeSide = side
  /\ phase = "combat"
  /\ c.status = "awaiting_result_confirmation"
  /\ LET rolled == [c EXCEPT !.result = result]
         capped == Min({tableLosses, StepsLeft(Losers(rolled))})
     IN Replace(c, NextChoice(units, [rolled EXCEPT !.losses = capped]))
  /\ Accept(units)
  /\ UNCHANGED <<activeSide, phase, turn, control, ledger, victory>>

\* Whoever takes part gets a strength by the steps he is left with, hit or not.
Hit(u, lost) ==
  [units[u] EXCEPT !.steps = @ - lost,
                   !.strength = IF units[u].steps - lost = 1 THEN "reduced" ELSE "full"]

AfterLosses(allocation) ==
  LET hit == [u \in DOMAIN allocation |-> Hit(u, allocation[u])]
  IN Eliminated(Updated(units, hit), {u \in DOMAIN allocation : hit[u].steps = 0})

\* The generals who lose the last combat counter of their hex to an allocation.
Abandoned(position, side, hexes) ==
  {u \in Army(side) : LoneGeneral(position, u) /\ position[u].location \in hexes}

Affordable(c, allocation) == \A u \in c.choice.units : allocation[u] <= units[u].steps

\* allocateLoss
AllocateLoss(side, c, allocation) ==
  /\ c.choice.kind = "loss"
  /\ c.choice.side = side
  /\ Affordable(c, allocation)
  /\ Total(LAMBDA u : allocation[u], c.choice.units) = c.choice.count
  /\ LET hit == AfterLosses(allocation)
         hexes == {units[u].location : u \in c.choice.units}
         position == Eliminated(hit, Abandoned(hit, side, hexes))
     IN /\ Replace(c, NextChoice(position, [c EXCEPT !.lossAllocated = TRUE]))
        /\ Accept(position)
  /\ UNCHANGED <<activeSide, phase, turn, control, ledger, victory>>

\* retreatGroup: the pending counters of one hex
RetreatGroup(c, h) == {u \in c.choice.units : units[u].location = h}

\* applyForcedRetreat: the groups still to go, or what comes after the last one.
AfterDisplacement(position, c, ids) ==
  LET remaining == (c.choice.units \ ids) \cap Deployed(position) IN
  IF remaining # {}
    THEN [c EXCEPT !.choice.units = remaining]
    ELSE NextChoice(position, [c EXCEPT !.retreated = TRUE])

OwesRetreat(side, c) ==
  phase = "combat" /\ c.choice.kind = "retreat" /\ c.choice.side = side

\* retreatUnit, retreatStack, retreatOffBoard
Retreat(side, c, origin, exit) ==
  LET ids == RetreatGroup(c, origin) IN
  /\ OwesRetreat(side, c)
  /\ ids # {}
  /\ \E path \in RetreatPaths(Settled(units), ids, side, exit) :
       LET moved == AfterRetreat(units, ids, path)
           position == IF exit THEN Exited(moved, ids, 0) ELSE moved
       IN /\ Replace(c, AfterDisplacement(position, c, ids))
          /\ Accept(position)
          /\ control' = Controlled(control, Entered(path), side)
  /\ UNCHANGED <<activeSide, phase, turn, ledger, victory>>

\* acceptTrappedLoss
AcceptTrappedLoss(side, c, u) ==
  LET ids == RetreatGroup(c, units[u].location)
      hit == AfterLosses([w \in {u} |-> 1])
      position == IF Combatants(ids) \cap Deployed(hit) = {}
                    THEN Eliminated(hit, ids \ Combatants(ids))
                    ELSE hit
  IN /\ OwesRetreat(side, c)
     /\ u \in c.choice.units
     /\ u \in Deployed(units)
     /\ ~General(u)
     /\ CanHold(Settled(units), ids, side)
     /\ Replace(c, AfterDisplacement(Settled(position), c, ids))
     /\ Accept(position)
     /\ UNCHANGED <<activeSide, phase, turn, control, ledger, victory>>

\* advanceAfterCombat
Advance(side, c, movers, destination) ==
  /\ c.choice.kind = "advance"
  /\ c.choice.side = side
  /\ destination \in c.choice.hexes
  /\ movers # {}
  /\ movers \subseteq c.choice.units
  /\ \E h \in Hex : movers \subseteq At(units, h) /\ destination \in AdjacentHexes[h]
  /\ At(units, destination) \subseteq Army(side)
  /\ StackFits(At(units, destination) \cup movers)
  /\ StackFits(At(units, Source(units, movers)) \ movers)
  /\ Combatants(movers) \cap c.attackers # {}
  /\ destination \in Terrain(movers)
  /\ Accept(Updated(units, [u \in movers |-> [units[u] EXCEPT !.location = destination]]))
  /\ control' = Controlled(control, {destination}, side)
  /\ Replace(c, Resolved(c))
  /\ UNCHANGED <<activeSide, phase, turn, ledger, victory>>

DeclineAdvance(side, c) ==
  /\ c.choice.kind = "advance"
  /\ c.choice.side = side
  /\ Replace(c, Resolved(c))
  /\ Accept(units)
  /\ UNCHANGED <<activeSide, phase, turn, control, ledger, victory>>

-----------------------------------------------------------------------------

Stacks(side) == UNION {SUBSET (At(units, h) \cap Army(side)) : h \in Hex}

Allocations(c) == [c.choice.units -> 0..2]

\* phaseAuthorization: nobody is to move in a completed game.  In any other state
\* somebody must have a legal command: without one the model deadlocks.
GameOver == phase = "completed" /\ UNCHANGED vars

Next ==
  \/ GameOver
  \/ \E side \in Side :
    \/ EndPhase(side)
    \/ \E c \in combats, result \in {"attacker_win", "defender_win"}, losses \in 0..2 :
         ConfirmCombatResult(side, c, result, losses)
    \/ \E c \in combats : \E allocation \in Allocations(c) :
         AllocateLoss(side, c, allocation)
    \/ \E c \in combats : DeclineAdvance(side, c)
    \/ \E c \in combats, h \in Hex : \E movers \in SUBSET c.choice.units :
         Advance(side, c, movers, h)
    \/ \E c \in combats : \E u \in c.choice.units : AcceptTrappedLoss(side, c, u)
    \/ \E c \in combats, h \in Hex, exit \in BOOLEAN : Retreat(side, c, h, exit)
    \/ \E arriving \in SUBSET {u \in Army(side) : units[u].status = "reinforcement"},
          h \in EdgeHexes : EnterReinforcement(side, arriving, h)
    \/ \E movers \in Stacks(side) : ExitBoard(side, movers)
    \/ \E movers \in Stacks(side), h \in Hex : Move(side, movers, h)

Spec == Init /\ [][Next]_vars

-----------------------------------------------------------------------------
(* Properties.                                                             *)

\* No hex ever holds counters of both sides or more than a stack may hold,
\* whichever of movement, capture, loss, retreat, advance and entry put them there.
StacksAreLegal ==
  \A h \in Hex :
    /\ StackFits(At(units, h))
    /\ \A u, w \in At(units, h) : SideOf[u] = SideOf[w]

\* An objective belongs to whoever stands on it: each of the commands that enter a
\* hex hands it over, and nothing else does.
OccupiersControl ==
  \A u \in Deployed(units) :
    units[u].location \in Objective => control[units[u].location] = SideOf[u]

\* A combat not yet confirmed is still fought by exactly the counters in its hexes,
\* whatever the losses, retreats and advances of other combats did meanwhile.
UnconfirmedCombatsAreIntact ==
  \A c \in combats :
    c.status = "awaiting_result_confirmation" =>
      /\ c.attackers = Fighters(c.attackerHexes, activeSide)
      /\ c.defenders = Fighters(c.defenderHexes, OtherSide(activeSide))

\* No counter fights, suffers or moves in two combats of one phase.
Involved(c) == c.attackers \cup c.defenders \cup c.choice.units

CombatsAreDisjoint ==
  \A c, d \in combats : c # d => Involved(c) \cap Involved(d) = {}

\* Resolving one combat of a phase takes nothing from another, whichever is first.
CombatsAreIndependent == UnconfirmedCombatsAreIntact /\ CombatsAreDisjoint

\* The mandatory combats cover every contact, and no retreat or advance makes one
\* that declareCombat would still accept: no two uncommitted counters touch.
EveryContactIsFought ==
  phase = "combat" =>
    LET idle == Combatants(Deployed(units))
                  \ UNION {c.attackers \cup c.defenders : c \in combats}
    IN \A u \in idle \cap Army(activeSide), w \in idle \ Army(activeSide) :
         units[w].location \notin AdjacentHexes[units[u].location]

\* Each pending choice can be answered: the losses can be paid, and each group that
\* must retreat has a way to go, an edge to leave by or a counter to lose.
EveryChoiceHasAnAnswer ==
  \A c \in combats :
    LET side == c.choice.side IN
    /\ c.choice.kind = "loss" => StepsLeft(c.choice.units) >= c.choice.count
    /\ c.choice.kind = "retreat" =>
         /\ \E h \in Hex : RetreatGroup(c, h) # {}
         /\ \A h \in Hex :
              LET ids == RetreatGroup(c, h) IN
              ids # {} =>
                \/ \E exit \in BOOLEAN : RetreatPaths(units, ids, side, exit) # {}
                \/ CanHold(units, ids, side) /\ Combatants(ids) # {}

\* The declared winner is the one the final board and turn justify.
OutcomeIsEarned ==
  LET confederate == Score("confederate", control, units)
      union == Score("union", control, units)
  IN phase = "completed" =>
       \/ victory = "tie" /\ turn = LastTurn /\ confederate = union
       \/ victory = "union" /\ turn = LastTurn /\ union > confederate
       \/ /\ victory = "confederate"
          /\ \/ turn = LastTurn /\ confederate > union
             \/ turn = RatioTurn /\ confederate >= 2 * union
             \/ turn = LeadTurn /\ confederate >= union + Lead

\* "A combat-one counter has no reduced step" (SPEC.md:515): a counter in play is reduced
\* only when it has lost a step, whatever choices of losses it takes part in.
OnlyStepLossesReduce ==
  \A u \in Deployed(units) : Reduced(units, u) => units[u].steps < FullSteps[u]

\* No game can be played for ever, whatever the players do: from some point on no
\* command is accepted any more (and as no game deadlocks, it is then completed).
GamesAreFinite == <>[][FALSE]_vars

=============================================================================
