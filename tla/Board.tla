------------------------------- MODULE Board -------------------------------
(***************************************************************************)
(* The board, the counters on it and what the rules compute from their     *)
(* positions: zones of control, stacking, support of generals, movement    *)
(* steps and routes (packages/game/src: coordinates.ts, zoc.ts,            *)
(* generals.ts, movement.ts, movement-validation.ts, normal-move.ts).      *)
(*                                                                         *)
(* The board is any finite graph of hexes with a set of edge hexes.  The   *)
(* ruleset is the one new games are created with (gettysburg-mandatory-v6):*)
(* every step costs one movement point, roads and streams do not matter.   *)
(* Every operator takes the counters' state as an argument, for the rules  *)
(* ask these questions of positions that a command has not yet committed.  *)
(***************************************************************************)
EXTENDS Integers, Sequences, FiniteSets, FiniteSetsExt

CONSTANTS
  Hex,            \* the board's hexes
  AdjacentHexes,  \* the neighbours of each hex
  EdgeHexes,      \* BOARD_EDGE_HEXES
  WoodedRough,    \* hexes artillery cannot enter
  Nowhere,        \* the location null
  Unit,           \* the counters
  SideOf,         \* the side of each counter
  Kind,           \* infantry, cavalry, artillery or general
  FullSteps,      \* its steps at full strength: 1 or 2
  Movement,       \* its movement allowance
  CombatValue     \* its combat factor, counted when it is eliminated

Side == {"confederate", "union"}
\* A sum of naturals, counted out: TLC folds a set far more slowly.
Total(f(_), S) == Cardinality(UNION {{x} \X (1..f(x)) : x \in S})

OtherSide(side) == IF side = "confederate" THEN "union" ELSE "confederate"

ASSUME NowhereAssumption == Nowhere \notin Hex
ASSUME BoardAssumption ==
  /\ IsFiniteSet(Hex)
  /\ AdjacentHexes \in [Hex -> SUBSET Hex]
  /\ \A a, b \in Hex : b \in AdjacentHexes[a] => a \in AdjacentHexes[b] /\ a # b
  /\ EdgeHexes \in SUBSET Hex
  /\ WoodedRough \in SUBSET Hex
ASSUME UnitAssumption ==
  /\ IsFiniteSet(Unit)
  /\ SideOf \in [Unit -> Side]
  /\ Kind \in [Unit -> {"infantry", "cavalry", "artillery", "general"}]
  /\ FullSteps \in [Unit -> 1..2]
  /\ Movement \in [Unit -> Nat]
  /\ CombatValue \in [Unit -> Nat]

\* A counter's state.  Its strength is kept beside the steps it has left.
UnitState ==
  [status : {"deployed", "reinforcement", "eliminated", "exited"},
   strength : {"full", "reduced", "eliminated"},
   location : Hex \cup {Nowhere}, steps : 0..2, spent : Nat]

\* The position in which some counters have another state.
Updated(units, changes) ==
  [u \in Unit |-> IF u \in DOMAIN changes THEN changes[u] ELSE units[u]]

General(u) == Kind[u] = "general"
Combatants(S) == {u \in S : ~General(u)}
Deployed(units) == {u \in Unit : units[u].status = "deployed"}
At(units, h) == {u \in Deployed(units) : units[u].location = h}
Army(side) == {u \in Unit : SideOf[u] = side}
Reduced(units, u) == units[u].strength = "reduced"

-----------------------------------------------------------------------------
(* Zones of control, stacking and generals.                                *)

\* enemyZoneOfControl: generals control nothing.
EnemyZone(units, side) ==
  UNION {AdjacentHexes[units[u].location] :
           u \in Combatants(Deployed(units)) \ Army(side)}

\* stackIsWithinCapacity, movementStackFits
StackFits(S) ==
  LET generals == Cardinality(S \ Combatants(S)) IN
  /\ generals <= 1
  /\ Cardinality(Combatants(S)) <= IF generals = 1 THEN 2 ELSE 1

\* hasCombatSupport
Supported(units, side, h) == Combatants(At(units, h)) \cap Army(side) # {}

\* isUnsupportedGeneral
LoneGeneral(units, u) ==
  /\ u \in Deployed(units)
  /\ General(u)
  /\ ~Supported(units, SideOf[u], units[u].location)

Eliminated(units, S) ==
  [u \in Unit |->
     IF u \in S
       THEN [units[u] EXCEPT !.status = "eliminated", !.strength = "eliminated",
                             !.location = Nowhere, !.steps = 0]
       ELSE units[u]]

\* eliminateLoneGenerals: all at once, for a general controls nothing.
Settled(units) ==
  Eliminated(units, {u \in Unit : /\ LoneGeneral(units, u)
                                  /\ units[u].location \in EnemyZone(units, SideOf[u])})

\* unitsAfterBoardExit: off the board for good, but not a casualty.
Exited(units, S, cost) ==
  Settled(Updated(units,
    [u \in S |-> [units[u] EXCEPT !.status = "exited", !.location = Nowhere,
                                  !.spent = @ + cost]]))

\* What an enemy counter blocks: a lone general is captured by the approach.
EnemyOccupied(units, side, movers) ==
  {h \in Hex : \E u \in At(units, h) \ Army(side) :
                 ~(Combatants(movers) # {} /\ LoneGeneral(units, u))}

\* terrainMovementCost(...) !== null
Terrain(movers) ==
  IF \E u \in movers : Kind[u] = "artillery" THEN Hex \ WoodedRough ELSE Hex

-----------------------------------------------------------------------------
(* Normal movement: the ledger of move groups, steps and routes.           *)

\* Whoever has moved since the turn began: the group that may go on, and the rest.
Ledger == [active : SUBSET Unit, closed : SUBSET Unit]
NoMoves == [active |-> {}, closed |-> {}]

\* planNormalMove: one stack, that goes on as the same group or moves afresh.
GroupMayMove(units, ledger, movers) ==
  /\ movers # {}
  /\ \E h \in Hex : movers \subseteq At(units, h)
  /\ movers \cap ledger.closed = {}
  /\ movers = ledger.active \/ movers \cap ledger.active = {}

LedgerAfter(ledger, movers) ==
  IF movers = ledger.active
    THEN ledger
    ELSE [active |-> movers, closed |-> ledger.closed \cup ledger.active]

Allowance(units, movers) ==
  Min({IF units[u].spent >= Movement[u] THEN 0 ELSE Movement[u] - units[u].spent :
                u \in movers})

Source(units, movers) == units[CHOOSE u \in movers : TRUE].location

\* stepCalculator: the hexes a group may step to from each hex.
MaySteps(units, night, side, movers) ==
  LET zone == EnemyZone(units, side)
      open == Terrain(movers) \ EnemyOccupied(units, side, movers)
      held(from) == /\ Combatants(movers) = {}
                    /\ from \in zone
                    /\ ~Supported(units, side, from)
  IN [from \in Hex |->
        IF held(from) THEN {}
        ELSE (AdjacentHexes[from] \cap open)
               \ (IF night \/ from \in zone THEN zone ELSE {})]

\* searchMovement: the hexes reached with at most n steps.
Within(steps, origin) ==
  LET reached[n \in 0..Cardinality(Hex)] ==
        IF n = 0 THEN {origin}
                 ELSE UNION {{h} \cup steps[h] : h \in reached[n - 1]}
  IN reached

\* normalMovementRoute: a cheapest route.  Which of several equally cheap ones the
\* search prefers (by distance from the straight line) is left open.
Routes(units, night, side, movers, origin, destination) ==
  LET steps == MaySteps(units, night, side, movers)
      lengths == {n \in 0..Cardinality(Hex) : destination \in Within(steps, origin)[n]}
  IN IF lengths = {} THEN {}
     ELSE {route \in {<<origin>> \o between \o <<destination>> :
                         between \in [1..(Min(lengths) - 1) -> Hex]} :
             \A k \in 1..Min(lengths) : route[k + 1] \in steps[route[k]]}

\* Every hex of a route is entered: lone enemy generals are captured next to it.
AfterMove(units, movers, route) ==
  LET walk[k \in 1..Len(route)] ==
        IF k = 1
          THEN Settled(units)
          ELSE LET last == walk[k - 1] IN
               Settled(Updated(last,
                 [u \in movers |-> [units[u] EXCEPT !.location = route[k],
                                                    !.spent = @ + k - 1]]))
  IN walk[Len(route)]

\* (A variant that forgets the hex where a route ends.)
Entered_Passing(route) == {route[k] : k \in 2..(Len(route) - 1)}

Entered(route) == {route[k] : k \in 2..Len(route)}

\* objectivesAfterEntry and its copies in the other commands
Controlled(control, hexes, side) ==
  [h \in DOMAIN control |-> IF h \in hexes THEN side ELSE control[h]]

=============================================================================
