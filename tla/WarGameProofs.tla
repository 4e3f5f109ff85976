---------------------------- MODULE WarGameProofs ----------------------------
(***************************************************************************)
(* What holds of every game, on every board, with every army and scenario. *)
(*                                                                         *)
(* The outcome.  A game that is completed stays as it is, for nobody is to *)
(* move and no combat is left to resolve.  The step that completes it      *)
(* scores the board it finds; the capture of generals that ends that step, *)
(* as it ends every command, scores nothing.                               *)
(*                                                                         *)
(* The board.  That stacks are legal and occupiers control is not          *)
(* inductive: a retreat goes where the rules let it only because the       *)
(* counters it is about still stand where the combat began, alone with     *)
(* each other.  So the invariant says of each combat how far it has come   *)
(* and what stands where accordingly, that the combats share nothing, and  *)
(* that no general is left whom the last command should have captured.     *)
(* A command that moves is a walk, hex by hex, each with its captures;     *)
(* whoever does not walk is captured for good or stays where he is.        *)
(*                                                                         *)
(* The answers.  What canFinish promises can be walked.  A way on that     *)
(* does not end where it begins has a first step from which it goes on     *)
(* without coming back, so a path that cannot end yet always has a next    *)
(* hex, one it has not visited, and no board has hexes enough for ever.    *)
(***************************************************************************)
EXTENDS WarGame, FiniteSetTheorems, WellFoundedInduction, TLAPS

\* Nothing can happen in a completed game.
CompletedIsFinal == phase = "completed" => activeSide = "none" /\ combats = {}

OutcomeInv == CompletedIsFinal /\ OutcomeIsEarned

-----------------------------------------------------------------------------

\* scoreVictory looks only at the combat counters.
LEMMA GeneralsScoreNothing ==
  ASSUME NEW side, NEW held, NEW p, NEW q,
         \A u \in Unit : ~General(u) => p[u] = q[u]
  PROVE  Score(side, held, p) = Score(side, held, q)
<1>1. {u \in Combatants(Army(OtherSide(side))) : p[u].status = "eliminated"}
        = {u \in Combatants(Army(OtherSide(side))) : q[u].status = "eliminated"}
  BY DEF Combatants, Army
<1>2. {u \in Combatants(Army(OtherSide(side))) :
         p[u].status = "deployed" /\ Reduced(p, u)}
        = {u \in Combatants(Army(OtherSide(side))) :
             q[u].status = "deployed" /\ Reduced(q, u)}
  BY DEF Combatants, Army, Reduced
<1> QED
  BY <1>1, <1>2 DEF Score

\* accepted: the capture that ends a command touches only generals.
LEMMA CaptureTouchesGenerals ==
  ASSUME NEW p
  PROVE  \A u \in Unit : ~General(u) => p[u] = Settled(p)[u]
<1> DEFINE lone == {u \in Unit : /\ LoneGeneral(p, u)
                                 /\ p[u].location \in EnemyZone(p, SideOf[u])}
<1>1. \A u \in lone : General(u)
  BY DEF LoneGeneral
<1>2. Settled(p) = Eliminated(p, lone)
  BY DEF Settled
<1> HIDE DEF lone
<1>3. \A u \in Unit : u \notin lone => Eliminated(p, lone)[u] = p[u]
  BY DEF Eliminated
<1> QED
  BY <1>1, <1>2, <1>3

-----------------------------------------------------------------------------

\* A total over a finite set, counted out, is a natural number.
LEMMA TotalIsNatural ==
  ASSUME NEW F, NEW S, IsFiniteSet(S), \A x \in S : F[x] \in Nat
  PROVE  Cardinality(UNION {{x} \X (1..F[x]) : x \in S}) \in Nat
<1> DEFINE bars == [x \in S |-> {x} \X (1..F[x])]
           all == {{x} \X (1..F[x]) : x \in S}
<1>1. bars \in Surjection(S, all)
  BY DEF Surjection
<1>2. IsFiniteSet(all)
  BY <1>1, FS_Surjection
<1>3. \A T \in all : IsFiniteSet(T)
  <2> TAKE T \in all
  <2>1. PICK x \in S : T = {x} \X (1..F[x])
    OBVIOUS
  <2>2. IsFiniteSet({x})
    BY FS_Singleton
  <2>3. F[x] \in Int /\ 1 \in Int
    OBVIOUS
  <2>4. IsFiniteSet(1..F[x])
    BY <2>3, FS_Interval
  <2>5. IsFiniteSet({x} \X (1..F[x]))
    BY <2>2, <2>4, FS_Product
  <2> QED
    BY <2>1, <2>5
<1>4. IsFiniteSet(UNION all)
  BY <1>2, <1>3, FS_UNION
<1>5. Cardinality(UNION all) \in Nat
  BY <1>4, FS_CardinalityType
<1> QED
  BY <1>5

\* A score is a natural number, so that scores can be compared.
LEMMA ScoreIsNatural ==
  ASSUME NEW side, NEW held, NEW p
  PROVE  Score(side, held, p) \in Nat
<1> DEFINE won == {h \in Objective : held[h] = side}
           killed == {u \in Combatants(Army(OtherSide(side))) : p[u].status = "eliminated"}
           hurt == {u \in Combatants(Army(OtherSide(side))) :
                      p[u].status = "deployed" /\ Reduced(p, u)}
<1>1. IsFiniteSet(won)
  BY BoardAssumption, ScenarioAssumption, FS_Subset
<1>2. IsFiniteSet(killed) /\ IsFiniteSet(hurt)
  BY UnitAssumption, FS_Subset DEF Combatants, Army
<1>3. Total(LAMBDA h : Value[h], won) \in Nat
  <2>1. \A h \in won : Value[h] \in Nat
    BY ScenarioAssumption
  <2> QED
    BY <1>1, <2>1, TotalIsNatural DEF Total
<1>4. Total(LAMBDA u : CombatValue[u], killed) \in Nat
  <2>1. \A u \in killed : CombatValue[u] \in Nat
    BY UnitAssumption DEF Combatants, Army
  <2> QED
    BY <1>2, <2>1, TotalIsNatural DEF Total
<1>5. Cardinality(hurt) \in Nat
  BY <1>2, FS_CardinalityType
<1> QED
  BY <1>3, <1>4, <1>5 DEF Score

-----------------------------------------------------------------------------

\* createMandatoryInitialState: a new game is under way.
LEMMA InitOutcome == Init => OutcomeInv
  BY DEF Init, OutcomeInv, CompletedIsFinal, OutcomeIsEarned

\* Nothing is claimed of a game under way.
LEMMA UnfinishedGame ==
  ASSUME phase' # "completed"
  PROVE  OutcomeInv'
  BY DEF OutcomeInv, CompletedIsFinal, OutcomeIsEarned

\* CompleteGame scores the very position it leaves behind.
LEMMA CompletionKeepsScores ==
  ASSUME NEW status, CompleteGame(status), NEW side
  PROVE  Score(side, control, units)' = Score(side, control, units)
<1>1. units' = Settled(units) /\ control' = control
  BY DEF CompleteGame, Accept
<1>2. \A u \in Unit : ~General(u) => units[u] = units'[u]
  BY <1>1, CaptureTouchesGenerals
<1> QED
  BY <1>1, <1>2, GeneralsScoreNothing

\* finishSideTurn declares only what the scores justify.
LEMMA FinishedTurnOutcome ==
  ASSUME NEW side \in Side, FinishSideTurn(side)
  PROVE  OutcomeInv'
<1> DEFINE confederate == Score("confederate", control, units)
           union == Score("union", control, units)
<1>n. confederate \in Nat /\ union \in Nat
  BY ScoreIsNatural
<1>f. ASSUME NEW status, CompleteGame(status),
             \/ status = "tie" /\ turn = LastTurn /\ confederate = union
             \/ status = "union" /\ turn = LastTurn /\ union > confederate
             \/ /\ status = "confederate"
                /\ \/ turn = LastTurn /\ confederate > union
                   \/ turn = RatioTurn /\ confederate >= 2 * union
                   \/ turn = LeadTurn /\ confederate >= union + Lead
      PROVE  OutcomeInv'
  <2>1. confederate' = confederate /\ union' = union
    BY <1>f, CompletionKeepsScores
  <2>2. activeSide' = "none" /\ combats' = {} /\ turn' = turn /\ victory' = status
    BY <1>f DEF CompleteGame
  <2> QED
    BY <1>f, <2>1, <2>2 DEF OutcomeInv, CompletedIsFinal, OutcomeIsEarned
<1>1. CASE phase' # "completed"
  BY <1>1, UnfinishedGame
<1>2. CASE ConfederatesWinEarly /\ CompleteGame("confederate")
  BY <1>2, <1>f DEF ConfederatesWinEarly
<1>3. CASE turn = LastTurn /\ CompleteGame(FinalStatus)
  <2>1. CASE confederate = union
    <3>1. FinalStatus = "tie"
      BY <2>1 DEF FinalStatus
    <3> QED
      BY <1>3, <1>f, <2>1, <3>1
  <2>2. CASE confederate > union
    <3>1. FinalStatus = "confederate"
      BY <1>n, <2>2 DEF FinalStatus
    <3> QED
      BY <1>3, <1>f, <2>2, <3>1
  <2>3. CASE union > confederate
    <3>1. FinalStatus = "union"
      BY <1>n, <2>3 DEF FinalStatus
    <3> QED
      BY <1>3, <1>f, <2>3, <3>1
  <2> HIDE DEF confederate, union
  <2> QED
    BY <1>n, <2>1, <2>2, <2>3
<1> QED
  BY <1>1, <1>2, <1>3 DEF FinishSideTurn, BeginTurn

-----------------------------------------------------------------------------

\* Only endPhase completes a game, and no command is accepted after it.
LEMMA StepOutcome ==
  ASSUME OutcomeInv, [Next]_vars
  PROVE  OutcomeInv'
<1>1. CASE UNCHANGED vars
  BY <1>1 DEF vars, OutcomeInv, CompletedIsFinal, OutcomeIsEarned
<1>2. CASE GameOver
  BY <1>1, <1>2 DEF GameOver
<1>3. ASSUME NEW side \in Side, EndPhase(side)
      PROVE  OutcomeInv'
  <2>1. CASE FinishSideTurn(side)
    BY <2>1, FinishedTurnOutcome
  <2>2. CASE phase' = "combat"
    BY <2>2, UnfinishedGame
  <2> QED
    BY <1>3, <2>1, <2>2 DEF EndPhase
<1>4. ASSUME phase' = phase, phase # "completed"
      PROVE  OutcomeInv'
  BY <1>4, UnfinishedGame
<1>5. phase = "completed" => combats = {} /\ \A side \in Side : activeSide # side
  BY DEF OutcomeInv, CompletedIsFinal, Side
<1>6. ASSUME NEW side \in Side, NEW c \in combats,
             \/ \E result \in {"attacker_win", "defender_win"}, losses \in 0..2 :
                  ConfirmCombatResult(side, c, result, losses)
             \/ \E allocation \in Allocations(c) : AllocateLoss(side, c, allocation)
             \/ DeclineAdvance(side, c)
             \/ \E h \in Hex : \E movers \in SUBSET c.choice.units : Advance(side, c, movers, h)
             \/ \E u \in c.choice.units : AcceptTrappedLoss(side, c, u)
             \/ \E h \in Hex, exit \in BOOLEAN : Retreat(side, c, h, exit)
      PROVE  OutcomeInv'
  <2>1. phase # "completed"
    BY <1>5
  <2>2. phase' = phase
    BY <1>6 DEF ConfirmCombatResult, AllocateLoss, DeclineAdvance, Advance,
                AcceptTrappedLoss, Retreat
  <2> QED
    BY <1>4, <2>1, <2>2
<1>7. ASSUME NEW side \in Side,
             \/ \E arriving \in SUBSET {u \in Army(side) : units[u].status = "reinforcement"},
                   h \in EdgeHexes : EnterReinforcement(side, arriving, h)
             \/ \E movers \in Stacks(side) : ExitBoard(side, movers)
             \/ \E movers \in Stacks(side), h \in Hex : Move(side, movers, h)
      PROVE  OutcomeInv'
  <2>1. activeSide = side /\ phase' = phase
    BY <1>7 DEF EnterReinforcement, ExitBoard, Move
  <2>2. phase # "completed"
    BY <1>5, <1>7, <2>1
  <2> QED
    BY <1>4, <2>1, <2>2
<1>8. ASSUME Next
      PROVE  OutcomeInv'
  <2>1. CASE GameOver
    BY <1>2, <2>1
  <2> QED
    BY <1>3, <1>6, <1>7, <1>8, <2>1 DEF Next
<1> QED
  BY <1>1, <1>8

\* The declared outcome of a completed game (finishSideTurn) is the one its final board
\* and turn justify, for every board, army and scenario.
THEOREM OutcomeStaysEarned == Spec => []OutcomeIsEarned
<1>1. Init => OutcomeInv
  BY InitOutcome
<1>2. OutcomeInv /\ [Next]_vars => OutcomeInv'
  BY StepOutcome
<1>3. OutcomeInv => OutcomeIsEarned
  BY DEF OutcomeInv
<1> QED
  BY <1>1, <1>2, <1>3, PTL DEF Spec

-----------------------------------------------------------------------------
(* The inductive invariant.                                                *)

\* A position: what is deployed stands on the board, and what has no step left is lost.
IsPosition(p) ==
  /\ p \in [Unit -> UnitState]
  /\ \A u \in Deployed(p) : p[u].location \in Hex
  /\ \A u \in Unit : p[u].status \in {"deployed", "reinforcement"} => p[u].steps # 0

\* Every general who could be captured has been.
IsSettled(p) ==
  \A u \in Unit : LoneGeneral(p, u) => p[u].location \notin EnemyZone(p, SideOf[u])

\* StacksAreLegal and OccupiersControl, of any position.
IsLegal(p) ==
  \A h \in Hex : StackFits(At(p, h)) /\ \A u, w \in At(p, h) : SideOf[u] = SideOf[w]

IsControlled(p, held) ==
  \A u \in Deployed(p) : p[u].location \in Objective => held[p[u].location] = SideOf[u]

\* The combat counters in these hexes are these, and no hex is without one.
Held(p, fighters, hexes) ==
  /\ fighters = {u \in Combatants(Deployed(p)) : p[u].location \in hexes}
  /\ \A h \in hexes : \E u \in fighters : p[u].location = h

\* Counters that a choice is about: they stand in its hexes or have been captured.
Standing(p, counters, side, fighters, hexes) ==
  \A u \in counters :
    /\ SideOf[u] = side
    /\ ~General(u) => u \in fighters
    /\ IF p[u].status = "deployed" THEN p[u].location \in hexes ELSE p[u].location = Nowhere

\* Nobody else stands with them.
AreWholeStacks(p, counters) ==
  \A u \in counters : p[u].status = "deployed" => At(p, p[u].location) \subseteq counters

\* Each of them stands there, with a combat counter among them.
Led(p, counters) ==
  \A u \in counters :
    /\ p[u].status = "deployed"
    /\ \E w \in counters :
         ~General(w) /\ p[w].status = "deployed" /\ p[w].location = p[u].location

\* The steps some counters have left.
StepsOf(p, counters) == Cardinality(UNION {{u} \X (1..p[u].steps) : u \in counters})

\* How far a combat has come, and what stands where accordingly.
Beaten(side, c) == IF c.result = "attacker_win" THEN OtherSide(side) ELSE side

InStage(p, side, c) ==
  /\ c.status = "awaiting_result_confirmation" =>
       /\ c.result = "none" /\ c.choice = NoChoice /\ ~c.lossAllocated /\ ~c.retreated
       /\ Held(p, c.attackers, c.attackerHexes)
       /\ Held(p, c.defenders, c.defenderHexes)
  /\ c.status = "resolved" => c.choice = NoChoice
  /\ c.status = "pending_choice" =>
       /\ c.result \in {"attacker_win", "defender_win"}
       /\ c.result = "attacker_win" => Held(p, c.attackers, c.attackerHexes)
       /\ c.choice.kind \in {"loss", "retreat", "advance"}
       /\ c.choice.kind = "loss" =>
            /\ c.choice.units = Losers(c) /\ c.choice.side = Beaten(side, c)
            /\ ~c.retreated
            /\ Held(p, Losers(c), LoserHexes(c))
            /\ c.choice.count <= StepsOf(p, c.choice.units)
       /\ c.choice.kind = "retreat" =>
            /\ c.choice.side = Beaten(side, c)
            /\ c.choice.units # {} /\ Led(p, c.choice.units)
            /\ c.lossAllocated \/ c.losses = 0
            /\ Standing(p, c.choice.units, Beaten(side, c), Losers(c), LoserHexes(c))
            /\ AreWholeStacks(p, c.choice.units)
       /\ c.choice.kind = "advance" =>
            /\ c.result = "attacker_win" /\ c.choice.side = side
            /\ c.choice.hexes \subseteq c.defenderHexes
            /\ Standing(p, c.choice.units, side, c.attackers, c.attackerHexes)

\* Two combats share neither counters nor hexes.
AreParted(c, d) ==
  /\ c.attackers \cap d.attackers = {} /\ c.defenders \cap d.defenders = {}
  /\ c.attackerHexes \cap d.attackerHexes = {} /\ c.defenderHexes \cap d.defenderHexes = {}

\* The armies of the phase, in hexes of their own.
CombatsAreParted ==
  /\ \A c \in combats : /\ c.attackers \subseteq Combatants(Army(activeSide))
                        /\ c.defenders \subseteq Combatants(Army(OtherSide(activeSide)))
                        /\ c.attackerHexes # {}
  /\ \A c, d \in combats : c.attackerHexes \cap d.defenderHexes = {}
  /\ \A c, d \in combats : c # d => AreParted(c, d)

\* No counter is waited for twice.
ChoicesAreApart ==
  \A c, d \in combats : c # d => c.choice.units \cap d.choice.units = {}

\* What holds of the combats of a phase.
CombatInv ==
  /\ combats # {} => phase = "combat" /\ activeSide \in Side
  /\ CombatsAreParted
  /\ ChoicesAreApart
  /\ \A c \in combats : InStage(units, activeSide, c)
  /\ EveryContactIsFought

\* What holds of the board.
PositionInv ==
  /\ IsPosition(units)
  /\ IsSettled(units)
  /\ IsLegal(units)
  /\ IsControlled(units, control)

-----------------------------------------------------------------------------
(* Positions.                                                              *)

Captured(p, u) ==
  [p[u] EXCEPT !.status = "eliminated", !.strength = "eliminated",
               !.location = Nowhere, !.steps = 0]

\* A general whom no combat counter that stays stands by, with an enemy about.
MayBeLost(p, movers, u) ==
  /\ General(u) /\ p[u].status = "deployed"
  /\ \A c \in Unit \ movers :
       ~General(c) /\ SideOf[c] = SideOf[u] /\ p[c].status = "deployed"
         => p[c].location # p[u].location
  /\ \E e \in Unit :
       /\ ~General(e) /\ SideOf[e] # SideOf[u]
       /\ e \notin movers =>
            p[e].status = "deployed" /\ p[u].location \in AdjacentHexes[p[e].location]

\* Apart from some counters, nothing happened but the capture of such generals.
Follows(p, q, movers) ==
  \A u \in Unit \ movers :
    q[u] = p[u] \/ (MayBeLost(p, movers, u) /\ q[u] = Captured(p, u))

\* A counter may change its status, strength, place and steps at once.
LEMMA NewState ==
  ASSUME NEW x \in UnitState, NEW s \in {"deployed", "reinforcement", "eliminated", "exited"},
         NEW k \in {"full", "reduced", "eliminated"},
         NEW h \in Hex \cup {Nowhere}, NEW n \in 0..2
  PROVE  [x EXCEPT !.status = s, !.strength = k, !.location = h, !.steps = n] \in UnitState
BY DEF UnitState

\* A captured general is off the board.
LEMMA CapturedFields ==
  ASSUME NEW p \in [Unit -> UnitState], NEW u \in Unit
  PROVE  /\ Captured(p, u) \in UnitState
         /\ Captured(p, u).status = "eliminated" /\ Captured(p, u).location = Nowhere
         /\ Captured(p, u).steps = 0 /\ Captured(p, u).spent = p[u].spent
<1>1. Captured(p, u) \in UnitState
  <2>1. p[u] \in UnitState /\ "eliminated" \in {"deployed", "reinforcement", "eliminated", "exited"}
        /\ "eliminated" \in {"full", "reduced", "eliminated"}
        /\ Nowhere \in Hex \cup {Nowhere} /\ 0 \in 0..2
    OBVIOUS
  <2> QED BY <2>1, NewState DEF Captured
<1> QED BY <1>1 DEF Captured, UnitState

\* Only who is changed changes.
LEMMA UpdatedFields ==
  ASSUME NEW p, NEW changes
  PROVE  /\ Updated(p, changes) = [u \in Unit |-> Updated(p, changes)[u]]
         /\ \A u \in Unit \cap DOMAIN changes : Updated(p, changes)[u] = changes[u]
         /\ \A u \in Unit \ DOMAIN changes : Updated(p, changes)[u] = p[u]
BY DEF Updated

\* Only who is eliminated leaves.
LEMMA EliminatedFields ==
  ASSUME NEW p \in [Unit -> UnitState], NEW S
  PROVE  /\ Eliminated(p, S) \in [Unit -> UnitState]
         /\ \A u \in Unit \cap S : Eliminated(p, S)[u] = Captured(p, u)
         /\ \A u \in Unit \ S : Eliminated(p, S)[u] = p[u]
<1>1. Eliminated(p, S) = [u \in Unit |-> IF u \in S THEN Captured(p, u) ELSE p[u]]
  BY DEF Eliminated, Captured
<1>2. \A u \in Unit : Captured(p, u) \in UnitState /\ p[u] \in UnitState
  BY CapturedFields
<1> QED BY <1>1, <1>2

\* eliminateLoneGenerals takes exactly the lone generals in an enemy zone.
LEMMA SettledFields ==
  ASSUME NEW p \in [Unit -> UnitState]
  PROVE  /\ Settled(p) \in [Unit -> UnitState]
         /\ Follows(p, Settled(p), {})
         /\ \A u \in Unit : LoneGeneral(p, u) /\ p[u].location \in EnemyZone(p, SideOf[u])
                              => Settled(p)[u] = Captured(p, u)
         /\ \A u \in Unit : Settled(p)[u] = p[u] \/ LoneGeneral(p, u)
<1> DEFINE caught == {u \in Unit : /\ LoneGeneral(p, u)
                                   /\ p[u].location \in EnemyZone(p, SideOf[u])}
<1>1. Settled(p) = Eliminated(p, caught)
  BY DEF Settled
<1>2. ASSUME NEW u \in caught PROVE MayBeLost(p, {}, u)
  <2>1. General(u) /\ p[u].status = "deployed" /\ u \in Unit
    BY DEF LoneGeneral, Deployed
  <2>2. ASSUME NEW c \in Unit, ~General(c), SideOf[c] = SideOf[u], p[c].status = "deployed",
               p[c].location = p[u].location
        PROVE  FALSE
    <3>1. c \in Combatants(At(p, p[u].location)) \cap Army(SideOf[u])
      BY <2>2 DEF Combatants, At, Deployed, Army
    <3> QED BY <3>1 DEF LoneGeneral, Supported
  <2>3. PICK e \in Combatants(Deployed(p)) \ Army(SideOf[u]) :
               p[u].location \in AdjacentHexes[p[e].location]
    BY DEF EnemyZone
  <2>4. e \in Unit /\ ~General(e) /\ SideOf[e] # SideOf[u] /\ p[e].status = "deployed"
    BY <2>3 DEF Combatants, Deployed, Army
  <2> QED BY <2>1, <2>2, <2>3, <2>4 DEF MayBeLost
<1>3. \A u \in Unit : LoneGeneral(p, u) /\ p[u].location \in EnemyZone(p, SideOf[u]) => u \in caught
  OBVIOUS
<1> HIDE DEF caught
<1>4. /\ Eliminated(p, caught) \in [Unit -> UnitState]
      /\ \A u \in Unit \cap caught : Eliminated(p, caught)[u] = Captured(p, u)
      /\ \A u \in Unit \ caught : Eliminated(p, caught)[u] = p[u]
  BY EliminatedFields
<1>5. \A u \in Unit : LoneGeneral(p, u) /\ p[u].location \in EnemyZone(p, SideOf[u])
                              => Settled(p)[u] = Captured(p, u)
  BY <1>1, <1>3, <1>4
<1>6. Follows(p, Settled(p), {})
  BY <1>1, <1>2, <1>4 DEF Follows
<1>7. \A u \in Unit : Settled(p)[u] = p[u] \/ LoneGeneral(p, u)
  BY <1>1, <1>4 DEF caught
<1> QED BY <1>1, <1>4, <1>5, <1>6, <1>7

\* One capture after another.
LEMMA FollowsOn ==
  ASSUME NEW p \in [Unit -> UnitState], NEW q \in [Unit -> UnitState], NEW r, NEW M, NEW N,
         Follows(p, q, M), Follows(q, r, N)
  PROVE  Follows(p, r, M \cup N)
<1> SUFFICES ASSUME NEW u \in Unit, u \notin M, u \notin N
             PROVE  r[u] = p[u] \/ (MayBeLost(p, M \cup N, u) /\ r[u] = Captured(p, u))
  BY DEF Follows
<1>1. q[u] = p[u] \/ (MayBeLost(p, M, u) /\ q[u] = Captured(p, u))
  BY DEF Follows
<1>2. r[u] = q[u] \/ (MayBeLost(q, N, u) /\ r[u] = Captured(q, u))
  BY DEF Follows
<1>c. \A c \in Unit \ M : ~General(c) => q[c] = p[c]
  BY DEF Follows, MayBeLost
<1>3. CASE q[u] = p[u] /\ MayBeLost(q, N, u)
  <2>1. MayBeLost(p, M \cup N, u)
    BY <1>3, <1>c DEF MayBeLost
  <2> QED BY <1>2, <1>3, <2>1 DEF Captured
<1>4. CASE q[u] = Captured(p, u)
  <2>1. q[u].status = "eliminated"
    BY <1>4, CapturedFields
  <2>2. r[u] = q[u]
    BY <1>2, <2>1 DEF MayBeLost
  <2> QED BY <1>1, <1>4, <2>2 DEF MayBeLost
<1> QED BY <1>1, <1>2, <1>3, <1>4

\* Who is not captured stands where he stood.
LEMMA Remains ==
  ASSUME NEW p \in [Unit -> UnitState], NEW q \in [Unit -> UnitState], NEW M, Follows(p, q, M),
         NEW u \in Unit, u \notin M
  PROVE  /\ q[u].status = "deployed" => q[u] = p[u]
         /\ ~General(u) => q[u] = p[u]
         /\ q[u] # p[u] => /\ q[u].location = Nowhere /\ q[u].status = "eliminated"
                           /\ MayBeLost(p, M, u)
BY CapturedFields DEF Follows, MayBeLost

\* Zones and support are the combat counters'.
LEMMA SameCombatants ==
  ASSUME NEW p, NEW q, \A u \in Unit : ~General(u) => q[u] = p[u]
  PROVE  /\ \A side : EnemyZone(q, side) = EnemyZone(p, side)
         /\ \A side, h : Supported(q, side, h) = Supported(p, side, h)
<1>1. \A u \in Unit : ~General(u) => q[u] = p[u]
  OBVIOUS
<1>2. Combatants(Deployed(q)) = Combatants(Deployed(p))
  BY <1>1 DEF Combatants, Deployed
<1>3. \A u \in Combatants(Deployed(p)) : q[u] = p[u]
  BY <1>1 DEF Combatants, Deployed
<1>4. ASSUME NEW side PROVE EnemyZone(q, side) = EnemyZone(p, side)
  BY <1>2, <1>3 DEF EnemyZone
<1>5. ASSUME NEW h PROVE Combatants(At(q, h)) = Combatants(At(p, h))
  BY <1>1 DEF Combatants, At, Deployed
<1>6. ASSUME NEW side, NEW h PROVE Supported(q, side, h) = Supported(p, side, h)
  BY <1>5 DEF Supported
<1> QED BY <1>4, <1>6

\* A combat counter controls the hexes next to it.
LEMMA ZoneHolds ==
  ASSUME NEW p, NEW side, NEW v \in Unit, ~General(v), p[v].status = "deployed",
         SideOf[v] # side, NEW h \in AdjacentHexes[p[v].location]
  PROVE  h \in EnemyZone(p, side)
<1>1. v \in Combatants(Deployed(p)) \ Army(side)
  BY DEF Combatants, Deployed, Army
<1> QED BY <1>1 DEF EnemyZone

-----------------------------------------------------------------------------
(* Stacks.                                                                 *)

\* Who is no combat counter is a general.
LEMMA GeneralsOf ==
  ASSUME NEW S
  PROVE  S \ Combatants(S) = {u \in S : General(u)}
BY DEF Combatants

\* A part of a stack fits if it keeps the general or has no combat counter.
LEMMA FewerFit ==
  ASSUME NEW S \in SUBSET Unit, StackFits(S), NEW T \in SUBSET S,
         (\A u \in S : General(u) => u \in T) \/ (\A u \in T : General(u))
  PROVE  StackFits(T)
<1> DEFINE gs == S \ Combatants(S)
           gt == T \ Combatants(T)
           cs == Combatants(S)
           ct == Combatants(T)
<1>1. IsFiniteSet(S) /\ IsFiniteSet(T)
  <2>1. IsFiniteSet(Unit)
    BY UnitAssumption
  <2>2. IsFiniteSet(S)
    BY <2>1, FS_Subset
  <2> QED BY <2>2, FS_Subset
<1>2. gt \subseteq gs /\ ct \subseteq cs /\ gs \subseteq S /\ cs \subseteq S
  BY DEF Combatants
<1>3. IsFiniteSet(gs) /\ IsFiniteSet(cs)
  BY <1>1, <1>2, FS_Subset
<1>4. /\ IsFiniteSet(gt) /\ IsFiniteSet(ct)
      /\ Cardinality(gt) <= Cardinality(gs) /\ Cardinality(ct) <= Cardinality(cs)
  BY <1>2, <1>3, FS_Subset
<1>5. /\ Cardinality(gt) \in Nat /\ Cardinality(gs) \in Nat
      /\ Cardinality(ct) \in Nat /\ Cardinality(cs) \in Nat
  BY <1>3, <1>4, FS_CardinalityType
<1>6. /\ Cardinality(gs) <= 1
      /\ Cardinality(cs) <= IF Cardinality(gs) = 1 THEN 2 ELSE 1
  BY DEF StackFits
<1>7. gt = gs \/ ct = {}
  BY GeneralsOf DEF Combatants
<1> HIDE DEF gs, gt, cs, ct
<1>8. Cardinality(gt) <= 1 /\ Cardinality(ct) <= IF Cardinality(gt) = 1 THEN 2 ELSE 1
  <2>1. CASE gt = gs
    BY <1>4, <1>5, <1>6, <2>1
  <2>2. CASE ct = {}
    <3>1. Cardinality(ct) = 0
      BY <2>2, FS_EmptySet
    <3> QED BY <1>4, <1>5, <1>6, <3>1
  <2> QED BY <1>7, <2>1, <2>2
<1> QED BY <1>8 DEF StackFits, gt, ct

\* Every hex keeps its general or has no combat counter left.
LEMMA PartIsLegal ==
  ASSUME NEW p, NEW q, IsLegal(p),
         \A h \in Hex : /\ At(q, h) \subseteq At(p, h)
                        /\ \/ \A u \in At(p, h) : General(u) => u \in At(q, h)
                           \/ \A u \in At(q, h) : General(u)
  PROVE  IsLegal(q)
<1> SUFFICES ASSUME NEW h \in Hex
             PROVE  StackFits(At(q, h)) /\ \A u, w \in At(q, h) : SideOf[u] = SideOf[w]
  BY DEF IsLegal
<1>1. StackFits(At(p, h)) /\ \A u, w \in At(p, h) : SideOf[u] = SideOf[w]
  BY DEF IsLegal
<1>2. At(p, h) \in SUBSET Unit
  BY DEF At, Deployed
<1>3. StackFits(At(q, h))
  BY <1>1, <1>2, FewerFit
<1> QED BY <1>1, <1>3

\* Who stands in a hex.
LEMMA StandsAt ==
  ASSUME NEW p, NEW u, NEW h
  PROVE  u \in At(p, h) <=> u \in Unit /\ p[u].status = "deployed" /\ p[u].location = h
BY DEF At, Deployed

\* What capture leaves.
LEMMA SettledHolds ==
  ASSUME NEW p, IsPosition(p)
  PROVE  /\ IsPosition(Settled(p))
         /\ IsLegal(p) => IsLegal(Settled(p))
         /\ \A held : IsControlled(p, held) => IsControlled(Settled(p), held)
<1> DEFINE q == Settled(p)
<1>1. /\ p \in [Unit -> UnitState] /\ q \in [Unit -> UnitState]
      /\ Follows(p, q, {})
      /\ \A u \in Unit : q[u] = p[u] \/ LoneGeneral(p, u)
  BY SettledFields DEF IsPosition
<1> HIDE DEF q
<1>2. \A u \in Unit : q[u].status = "deployed" => q[u] = p[u]
  BY <1>1, Remains
<1>3. IsPosition(q)
  BY <1>1, <1>2, Remains DEF IsPosition, Deployed
<1>4. ASSUME NEW held, IsControlled(p, held) PROVE IsControlled(q, held)
  BY <1>2, <1>4 DEF IsControlled, Deployed
<1>5. ASSUME IsLegal(p) PROVE IsLegal(q)
  <2>1. ASSUME NEW h \in Hex
        PROVE  /\ At(q, h) \subseteq At(p, h)
               /\ \/ \A u \in At(p, h) : General(u) => u \in At(q, h)
                  \/ \A u \in At(q, h) : General(u)
    <3>1. At(q, h) \subseteq At(p, h)
      BY <1>2, StandsAt
    <3>2. ASSUME NEW u \in At(p, h), General(u), u \notin At(q, h), NEW w \in At(q, h)
          PROVE  General(w)
      <4>1. q[u] # p[u] /\ p[u].location = h /\ u \in Unit
        BY <3>2, StandsAt
      <4>2. ~Supported(p, SideOf[u], h)
        BY <1>1, <4>1 DEF LoneGeneral
      <4>3. w \in At(p, h) /\ SideOf[w] = SideOf[u] /\ w \in Unit
        BY <1>5, <3>1, <3>2, StandsAt DEF IsLegal
      <4> QED BY <4>2, <4>3 DEF Supported, Combatants, Army
    <3> QED BY <3>1, <3>2
  <2> QED BY <1>5, <2>1, PartIsLegal
<1> QED BY <1>3, <1>4, <1>5 DEF q

\* No lone general outlives an enemy next to it.
LEMMA NobodyLoneIsLeft ==
  ASSUME NEW p \in [Unit -> UnitState]
  PROVE  IsSettled(Settled(p))
<1> SUFFICES ASSUME NEW e \in Unit, LoneGeneral(Settled(p), e)
             PROVE  Settled(p)[e].location \notin EnemyZone(Settled(p), SideOf[e])
  BY DEF IsSettled
<1> DEFINE q == Settled(p)
<1>1. /\ p \in [Unit -> UnitState] /\ q \in [Unit -> UnitState]
      /\ Follows(p, q, {})
      /\ \A u \in Unit : LoneGeneral(p, u) /\ p[u].location \in EnemyZone(p, SideOf[u])
                              => q[u] = Captured(p, u)
  BY SettledFields DEF IsPosition
<1>2. \A u \in Unit : ~General(u) => q[u] = p[u]
  BY <1>1, Remains
<1>3. q[e].status = "deployed" /\ General(e) /\ ~Supported(q, SideOf[e], q[e].location)
  BY DEF LoneGeneral, Deployed
<1> HIDE DEF q
<1>4. /\ EnemyZone(q, SideOf[e]) = EnemyZone(p, SideOf[e])
      /\ \A h : Supported(q, SideOf[e], h) = Supported(p, SideOf[e], h)
  BY <1>2, SameCombatants
<1>5. q[e] = p[e]
  BY <1>1, <1>3, Remains
<1>6. LoneGeneral(p, e)
  BY <1>3, <1>4, <1>5 DEF LoneGeneral, Deployed
<1>7. q[e].location \in EnemyZone(q, SideOf[e]) => q[e] = Captured(p, e)
  BY <1>1, <1>4, <1>5, <1>6
<1> QED BY <1>1, <1>3, <1>7, CapturedFields DEF q

\* Where nobody is to be captured, nothing happens.
LEMMA SettledIsSame ==
  ASSUME NEW p \in [Unit -> UnitState], IsSettled(p)
  PROVE  Settled(p) = p
<1>1. Settled(p) \in [Unit -> UnitState] /\ \A u \in Unit : Settled(p)[u] = p[u]
  BY SettledFields DEF IsSettled, Settled, Eliminated
<1> QED BY <1>1

-----------------------------------------------------------------------------
(* Counting.                                                               *)

\* A set of natural numbers has a least member.
LEMMA Least ==
  ASSUME NEW T \in SUBSET Nat, T # {}
  PROVE  \E n \in T : \A m \in T : n <= m
<1> DEFINE R == OpToRel(<, Nat)
<1>1. IsWellFoundedOn(R, Nat)
  BY NatLessThanWellFounded
<1>2. R = {ss \in Nat \X Nat : ss[1] < ss[2]}
  BY DEF OpToRel
<1> HIDE DEF R
<1>3. PICK n \in T : \A m \in T : ~ (<<m, n>> \in R)
  BY <1>1, WFMin
<1>4. ASSUME NEW m \in T PROVE n <= m
  <2>1. <<m, n>> \in Nat \X Nat /\ <<m, n>> \notin R /\ m \in Nat /\ n \in Nat
    BY <1>3
  <2>2. ~(m < n)
    <3> DEFINE s == <<m, n>>
    <3>1. s[1] = m /\ s[2] = n
      OBVIOUS
    <3> HIDE DEF s
    <3>2. ~(s[1] < s[2])
      BY <1>2, <2>1 DEF s
    <3> QED BY <3>1, <3>2
  <2> QED BY <2>1, <2>2
<1> QED BY <1>4

\* What holds at the beginning and is handed on holds up to the end.
LEMMA Upwards ==
  ASSUME NEW a \in Nat, NEW b \in Nat, NEW S,
         a \in S, \A n \in a..b : n \in S /\ n < b => n + 1 \in S
  PROVE  \A n \in a..b : n \in S
<1> DEFINE T == {n \in Nat : n \in a..b /\ n \notin S}
<1> SUFFICES ASSUME T # {} PROVE FALSE
  OBVIOUS
<1>1. PICK n \in T : \A m \in T : n <= m
  BY Least
<1>2. n \in a..b /\ n # a /\ n \in Nat
  BY <1>1
<1>3. n - 1 \in a..b /\ n - 1 \in Nat /\ n - 1 < b
  BY <1>2
<1>4. n - 1 \in S
  BY <1>1, <1>3
<1>5. (n - 1) + 1 \in S
  BY <1>3, <1>4
<1> QED BY <1>1, <1>2, <1>5

-----------------------------------------------------------------------------
(* Functions by recursion.                                                 *)

\* A function defined by recursion on an interval exists.
Closed(a, b, X, step) == \A n \in a..b : \A y \in X : step[n][y] \in X
Recursive(a, b, X, x, step) ==
  \E f \in [a..b -> X] : \A n \in a..b : f[n] = IF n = a THEN x ELSE step[n][f[n - 1]]

LEMMA Recursion ==
  ASSUME NEW a \in Nat, NEW b \in Nat, NEW X, NEW x \in X, NEW step, Closed(a, b, X, step)
  PROVE  Recursive(a, b, X, x, step)
<1> USE DEF Closed
<1> SUFFICES \E f \in [a..b -> X] : \A n \in a..b : f[n] = IF n = a THEN x ELSE step[n][f[n - 1]]
  BY DEF Recursive
<1> DEFINE Good(f, m) == \A n \in a..m : f[n] = IF n = a THEN x ELSE step[n][f[n - 1]]
           S == {m \in a..b : \E f \in [a..m -> X] : Good(f, m)}
<1>1. CASE b < a
  <2> DEFINE f == [n \in a..b |-> x]
  <2>1. \A n \in a..b : FALSE
    BY <1>1
  <2>2. f \in [a..b -> X]
    OBVIOUS
  <2> HIDE DEF f
  <2>3. \A n \in a..b : f[n] = IF n = a THEN x ELSE step[n][f[n - 1]]
    BY <2>1
  <2> QED BY <2>2, <2>3
<1>2. CASE a <= b
  <2>1. a \in S
    <3> DEFINE f == [n \in a..a |-> x]
    <3>1. f \in [a..a -> X]
      OBVIOUS
    <3>2. \A n \in a..a : n = a /\ f[n] = x
      OBVIOUS
    <3> HIDE DEF f
    <3>3. Good(f, a)
      BY <3>2
    <3>4. a \in a..b
      BY <1>2
    <3> QED BY <3>1, <3>3, <3>4
  <2>2. ASSUME NEW m \in a..b, m \in S, m < b PROVE m + 1 \in S
    <3>1. PICK f \in [a..m -> X] : Good(f, m)
      BY <2>2
    <3> DEFINE g == [n \in a..(m + 1) |-> IF n = m + 1 THEN step[m + 1][f[m]] ELSE f[n]]
    <3>2. m \in Nat /\ a <= m /\ m + 1 \in a..b /\ m \in a..m
      BY <2>2
    <3>3. f[m] \in X /\ step[m + 1][f[m]] \in X
      BY <3>1, <3>2
    <3>4. \A n \in a..(m + 1) : n # m + 1 => n \in a..m
      BY <3>2
    <3>5. g \in [a..(m + 1) -> X]
      BY <3>3, <3>4
    <3>6. g[m + 1] = step[m + 1][f[m]] /\ \A n \in a..m : g[n] = f[n]
      BY <3>2
    <3> HIDE DEF g
    <3>7. ASSUME NEW n \in a..(m + 1)
          PROVE  g[n] = IF n = a THEN x ELSE step[n][g[n - 1]]
      <4>1. CASE n = m + 1
        <5>1. n # a /\ n - 1 = m
          BY <3>2, <4>1
        <5> QED BY <3>2, <3>6, <4>1, <5>1
      <4>2. CASE n # m + 1
        <5>1. n \in a..m /\ (n # a => n - 1 \in a..m)
          BY <3>2, <3>4, <4>2
        <5> QED BY <3>1, <3>6, <5>1
      <4> QED BY <4>1, <4>2
    <3>8. Good(g, m + 1)
      BY <3>7
    <3> QED BY <3>2, <3>5, <3>8
  <2>3. \A m \in a..b : m \in S
    <3> HIDE DEF S
    <3>1. \A n \in a..b : n \in S /\ n < b => n + 1 \in S
      BY <2>2
    <3> QED BY <2>1, <3>1, Upwards
  <2>4. b \in S
    BY <1>2, <2>3
  <2> QED BY <2>4
<1> QED BY <1>1, <1>2

-----------------------------------------------------------------------------
(* Walks.                                                                  *)

\* One step of some counters.
Stepped(q, y, p, ids, h) ==
  /\ q \in [Unit -> UnitState]
  /\ \A u \in Unit \ ids : q[u] = y[u]
  /\ \A u \in ids :
       /\ q[u].location = h
       /\ \/ q[u].status = p[u].status /\ q[u].steps = p[u].steps
          \/ q[u].status = y[u].status /\ q[u].steps = y[u].steps

\* The positions while they go along a path.
Walk(w, p, ids, path) ==
  /\ w \in [1..Len(path) -> [Unit -> UnitState]]
  /\ w[1] = Settled(p)
  /\ \A k \in 2..Len(path) :
       \E q : w[k] = Settled(q) /\ Stepped(q, w[k - 1], p, ids, path[k])

\* A change of state is a state.
LEMMA UpdatedIsTyped ==
  ASSUME NEW p \in [Unit -> UnitState], NEW changes,
         \A u \in Unit \cap DOMAIN changes : changes[u] \in UnitState
  PROVE  Updated(p, changes) \in [Unit -> UnitState]
BY DEF Updated

\* A counter elsewhere.
LEMMA OtherPlace ==
  ASSUME NEW x \in UnitState, NEW h \in Hex
  PROVE  /\ [x EXCEPT !.location = h] \in UnitState
         /\ [x EXCEPT !.location = h].location = h
         /\ [x EXCEPT !.location = h].status = x.status
BY DEF UnitState

\* A counter elsewhere, that has spent something.
LEMMA OtherPlaceAndCost ==
  ASSUME NEW x \in UnitState, NEW h \in Hex, NEW n \in Nat
  PROVE  /\ [x EXCEPT !.location = h, !.spent = n] \in UnitState
         /\ [x EXCEPT !.location = h, !.spent = n].location = h
         /\ [x EXCEPT !.location = h, !.spent = n].status = x.status
         /\ [x EXCEPT !.location = h, !.spent = n].steps = x.steps
BY DEF UnitState

\* A group in the k-th hex of its route (executeNormalMove).
Marched(p, ids, route, k) ==
  [u \in ids |-> [p[u] EXCEPT !.location = route[k], !.spent = @ + k - 1]]

\* It is there, with the steps it had.
LEMMA MarchedFields ==
  ASSUME NEW p \in [Unit -> UnitState], NEW ids \in SUBSET Unit,
         NEW route \in Seq(Hex), NEW k \in 1..Len(route)
  PROVE  /\ DOMAIN Marched(p, ids, route, k) = ids
         /\ \A u \in ids : /\ Marched(p, ids, route, k)[u] \in UnitState
                           /\ Marched(p, ids, route, k)[u].status = p[u].status
                           /\ Marched(p, ids, route, k)[u].steps = p[u].steps
                           /\ Marched(p, ids, route, k)[u].location = route[k]
<1>1. route[k] \in Hex /\ k \in Nat /\ k >= 1
  OBVIOUS
<1>2. ASSUME NEW u \in ids
      PROVE  /\ Marched(p, ids, route, k)[u] \in UnitState
             /\ Marched(p, ids, route, k)[u].status = p[u].status
             /\ Marched(p, ids, route, k)[u].steps = p[u].steps
             /\ Marched(p, ids, route, k)[u].location = route[k]
  <2> DEFINE n == p[u].spent + k - 1
  <2>1. p[u] \in UnitState
    OBVIOUS
  <2>2. p[u].spent \in Nat
    BY <2>1 DEF UnitState
  <2>3. n \in Nat
    BY <1>1, <2>2
  <2> DEFINE x == [p[u] EXCEPT !.location = route[k], !.spent = n]
  <2>4. Marched(p, ids, route, k)[u] = x
    BY DEF Marched
  <2> HIDE DEF n
  <2>5. x \in UnitState /\ x.location = route[k] /\ x.status = p[u].status /\ x.steps = p[u].steps
    BY <1>1, <2>1, <2>2, <2>3 DEF UnitState
  <2> HIDE DEF x
  <2> QED BY <2>4, <2>5
<1> QED BY <1>2 DEF Marched

\* A sequence of positions of which each makes the next.
LEMMA StepsOn ==
  ASSUME NEW X, NEW n \in Nat, n >= 1, NEW w, w = [k \in 1..n |-> w[k]],
         w[1] \in X, \A k \in 2..n : w[k - 1] \in X => w[k] \in X
  PROVE  w \in [1..n -> X]
<1> DEFINE S == {k \in 1..n : w[k] \in X}
<1>1. 1 \in S
  OBVIOUS
<1>2. ASSUME NEW k \in 1..n, k \in S, k < n PROVE k + 1 \in S
  <2>1. k + 1 \in 2..n /\ k + 1 \in 1..n /\ (k + 1) - 1 = k
    BY <1>2
  <2> QED BY <1>2, <2>1
<1>3. \A k \in 1..n : k \in S
  <2> HIDE DEF S
  <2>1. \A k \in 1..n : k \in S /\ k < n => k + 1 \in S
    BY <1>2
  <2> QED BY <1>1, <2>1, Upwards
<1> QED BY <1>3

\* Each hex of a route is one step of the group.
LEMMA MoveStep ==
  ASSUME NEW p \in [Unit -> UnitState], NEW ids \in SUBSET Unit, NEW y \in [Unit -> UnitState],
         NEW route \in Seq(Hex), NEW k \in 1..Len(route)
  PROVE  /\ Stepped(Updated(y, Marched(p, ids, route, k)), y, p, ids, route[k])
         /\ Settled(Updated(y, Marched(p, ids, route, k))) \in [Unit -> UnitState]
         /\ \A u \in ids : Updated(y, Marched(p, ids, route, k))[u].status = p[u].status
<1> DEFINE q == Updated(y, Marched(p, ids, route, k))
<1>1. /\ DOMAIN Marched(p, ids, route, k) = ids
      /\ \A u \in ids : /\ Marched(p, ids, route, k)[u] \in UnitState
                        /\ Marched(p, ids, route, k)[u].status = p[u].status
                        /\ Marched(p, ids, route, k)[u].steps = p[u].steps
                        /\ Marched(p, ids, route, k)[u].location = route[k]
  BY MarchedFields
<1> DEFINE ch == Marched(p, ids, route, k)
<1> HIDE DEF ch
<1>2. q \in [Unit -> UnitState]
  BY <1>1, UpdatedIsTyped DEF ch
<1>3. /\ \A u \in Unit \ ids : q[u] = y[u]
      /\ \A u \in ids : q[u] = ch[u]
  BY <1>1 DEF Updated, ch
<1> HIDE DEF q
<1>4. Settled(q) \in [Unit -> UnitState]
  BY <1>2, SettledFields
<1>5. Stepped(q, y, p, ids, route[k])
  BY <1>1, <1>2, <1>3 DEF Stepped, ch
<1>6. \A u \in ids : q[u].status = p[u].status
  BY <1>1, <1>3 DEF ch
<1> QED BY <1>4, <1>5, <1>6 DEF q

\* Whatever became of them on the way.
Afresh(r, p, ids, h) ==
  \E q \in [Unit -> UnitState] :
    r = Settled(q) /\ \A u \in ids : q[u].status = p[u].status /\ q[u].location = h

\* A move is a walk along its route.
LEMMA MoveWalks ==
  ASSUME NEW p \in [Unit -> UnitState], NEW ids \in SUBSET Unit,
         NEW route \in Seq(Hex), Len(route) >= 1
  PROVE  \E w : /\ Walk(w, p, ids, route) /\ AfterMove(p, ids, route) = w[Len(route)]
                /\ Len(route) >= 2 => Afresh(w[Len(route)], p, ids, route[Len(route)])
<1> DEFINE X == [Unit -> UnitState]
           n == Len(route)
           step == [k \in 1..n |-> [y \in X |-> Settled(Updated(y, Marched(p, ids, route, k)))]]
           w == CHOOSE w : w = [k \in 1..n |-> IF k = 1 THEN Settled(p)
                                ELSE Settled(Updated(w[k - 1],
                                       [u \in ids |-> [p[u] EXCEPT !.location = route[k], !.spent = @ + k - 1]]))]
<1>1. AfterMove(p, ids, route) = w[n]
  BY DEF AfterMove
<1>2. n \in Nat /\ n >= 1
  OBVIOUS
<1>3. \A k \in 1..n : \A y \in X : step[k][y] \in X
  <2> SUFFICES ASSUME NEW k \in 1..n, NEW y \in X
               PROVE  Settled(Updated(y, Marched(p, ids, route, k))) \in X
    OBVIOUS
  <2> QED BY MoveStep
<1>4. Settled(p) \in X
  BY SettledFields
<1>5. PICK f \in [1..n -> X] : \A k \in 1..n : f[k] = IF k = 1 THEN Settled(p) ELSE step[k][f[k - 1]]
  <2> HIDE DEF n, X, step
  <2>1. 1 \in Nat
    OBVIOUS
  <2>2. Closed(1, n, X, step)
    BY <1>3 DEF Closed
  <2>3. Recursive(1, n, X, Settled(p), step)
    BY <1>2, <1>4, <2>1, <2>2, Recursion
  <2> QED BY <2>3 DEF Recursive
<1>6. \A k \in 1..n : f[k] = IF k = 1 THEN Settled(p)
                             ELSE Settled(Updated(f[k - 1], Marched(p, ids, route, k)))
  <2> SUFFICES ASSUME NEW k \in 1..n, k # 1
               PROVE  f[k] = Settled(Updated(f[k - 1], Marched(p, ids, route, k)))
    BY <1>5
  <2> HIDE DEF X, n
  <2>1. k - 1 \in 1..n
    BY <1>2
  <2>2. f[k - 1] \in X
    BY <2>1
  <2>3. f[k] = step[k][f[k - 1]]
    BY <1>5
  <2> QED BY <2>2, <2>3
<1> HIDE DEF step
<1>7. f = [k \in 1..n |-> IF k = 1 THEN Settled(p)
                          ELSE Settled(Updated(f[k - 1],
                                 [u \in ids |-> [p[u] EXCEPT !.location = route[k], !.spent = @ + k - 1]]))]
  <2>1. f = [k \in 1..n |-> f[k]]
    OBVIOUS
  <2> HIDE DEF n, X
  <2> QED BY <1>6, <2>1 DEF Marched
<1>8. w = [k \in 1..n |-> IF k = 1 THEN Settled(p)
                          ELSE Settled(Updated(w[k - 1],
                                 [u \in ids |-> [p[u] EXCEPT !.location = route[k], !.spent = @ + k - 1]]))]
  BY <1>7
<1> HIDE DEF w
<1>9. w = [k \in 1..n |-> IF k = 1 THEN Settled(p)
                          ELSE Settled(Updated(w[k - 1], Marched(p, ids, route, k)))]
  BY <1>8 DEF Marched
<1>10. /\ w = [k \in 1..n |-> w[k]]
       /\ w[1] = Settled(p)
       /\ \A k \in 2..n : w[k] = Settled(Updated(w[k - 1], Marched(p, ids, route, k)))
  <2> HIDE DEF n, X
  <2>1. 1 \in 1..n /\ \A k \in 2..n : k \in 1..n /\ k # 1
    BY <1>2
  <2> QED BY <1>9, <2>1
<1>11. w \in [1..n -> X]
  <2>1. \A k \in 2..n : w[k - 1] \in X => w[k] \in X
    <3> SUFFICES ASSUME NEW k \in 2..n, w[k - 1] \in X PROVE w[k] \in X
      OBVIOUS
    <3>1. k \in 1..n
      OBVIOUS
    <3>2. Settled(Updated(w[k - 1], Marched(p, ids, route, k))) \in X
      BY <3>1, MoveStep
    <3> QED BY <1>10, <3>2
  <2> HIDE DEF n, X
  <2> QED BY <1>2, <1>4, <1>10, <2>1, StepsOn
<1>12. ASSUME NEW k \in 2..n
       PROVE  \E q : w[k] = Settled(q) /\ Stepped(q, w[k - 1], p, ids, route[k])
  <2>1. k \in 1..n /\ k - 1 \in 1..n
    BY <1>2
  <2>2. w[k - 1] \in X
    BY <1>11, <2>1
  <2>3. Stepped(Updated(w[k - 1], Marched(p, ids, route, k)), w[k - 1], p, ids, route[k])
    BY <2>1, <2>2, MoveStep
  <2>4. w[k] = Settled(Updated(w[k - 1], Marched(p, ids, route, k)))
    BY <1>10
  <2> QED BY <2>3, <2>4
<1>13. Walk(w, p, ids, route)
  BY <1>10, <1>11, <1>12 DEF Walk
<1>14. ASSUME n >= 2 PROVE Afresh(w[n], p, ids, route[n])
  <2> DEFINE q == Updated(w[n - 1], Marched(p, ids, route, n))
  <2>1. n \in 2..n /\ n \in 1..n /\ n - 1 \in 1..n
    BY <1>2, <1>14
  <2>2. w[n - 1] \in X
    BY <1>11, <2>1
  <2>3. Stepped(q, w[n - 1], p, ids, route[n]) /\ \A u \in ids : q[u].status = p[u].status
    BY <2>1, <2>2, MoveStep
  <2>4. w[n] = Settled(q)
    BY <1>10, <2>1
  <2> HIDE DEF q, n
  <2> QED BY <2>3, <2>4 DEF Afresh, Stepped
<1> QED BY <1>1, <1>13, <1>14 DEF w

\* A stack in the k-th hex of its path (prepareForcedRetreat).
Retired(y, ids, path, k) == [u \in ids |-> [y[u] EXCEPT !.location = path[k]]]

\* Each hex of a path is one step of the stack.
LEMMA RetreatStep ==
  ASSUME NEW p \in [Unit -> UnitState], NEW ids \in SUBSET Unit, NEW y \in [Unit -> UnitState],
         NEW path \in Seq(Hex), NEW k \in 1..Len(path)
  PROVE  /\ Stepped(Updated(y, Retired(y, ids, path, k)), y, p, ids, path[k])
         /\ Settled(Updated(y, Retired(y, ids, path, k))) \in [Unit -> UnitState]
<1> DEFINE ch == Retired(y, ids, path, k)
           q == Updated(y, ch)
<1>1. DOMAIN ch = ids /\ \A u \in ids : /\ ch[u] \in UnitState /\ ch[u].location = path[k]
                                        /\ ch[u].status = y[u].status /\ ch[u].steps = y[u].steps
  <2>1. path[k] \in Hex
    OBVIOUS
  <2> SUFFICES ASSUME NEW u \in ids
               PROVE  /\ ch[u] \in UnitState /\ ch[u].location = path[k]
                      /\ ch[u].status = y[u].status /\ ch[u].steps = y[u].steps
    BY DEF Retired
  <2>2. y[u] \in UnitState
    OBVIOUS
  <2> DEFINE x == [y[u] EXCEPT !.location = path[k]]
  <2>3. ch[u] = x
    BY DEF Retired
  <2>4. x \in UnitState /\ x.location = path[k] /\ x.status = y[u].status /\ x.steps = y[u].steps
    BY <2>1, <2>2 DEF UnitState
  <2> HIDE DEF x, ch
  <2> QED BY <2>3, <2>4
<1> HIDE DEF ch
<1>2. q \in [Unit -> UnitState]
  BY <1>1, UpdatedIsTyped
<1>3. /\ \A u \in Unit \ ids : q[u] = y[u]
      /\ \A u \in ids : q[u] = ch[u]
  BY <1>1 DEF Updated
<1> HIDE DEF q
<1>4. Settled(q) \in [Unit -> UnitState]
  BY <1>2, SettledFields
<1>5. Stepped(q, y, p, ids, path[k])
  BY <1>1, <1>2, <1>3 DEF Stepped
<1> QED BY <1>4, <1>5 DEF q, ch

\* A retreat is a walk along its path.
LEMMA RetreatWalks ==
  ASSUME NEW p \in [Unit -> UnitState], NEW ids \in SUBSET Unit,
         NEW path \in Seq(Hex), Len(path) >= 1
  PROVE  \E w : Walk(w, p, ids, path) /\ AfterRetreat(p, ids, path) = w[Len(path)]
<1> DEFINE X == [Unit -> UnitState]
           n == Len(path)
           step == [k \in 1..n |-> [y \in X |-> Settled(Updated(y, Retired(y, ids, path, k)))]]
           w == CHOOSE w : w = [k \in 1..n |-> IF k = 1 THEN Settled(p)
                                ELSE Settled(Updated(w[k - 1],
                                       [u \in ids |-> [w[k - 1][u] EXCEPT !.location = path[k]]]))]
<1>1. AfterRetreat(p, ids, path) = w[n]
  BY DEF AfterRetreat
<1>2. n \in Nat /\ n >= 1
  OBVIOUS
<1>3. \A k \in 1..n : \A y \in X : step[k][y] \in X
  <2> SUFFICES ASSUME NEW k \in 1..n, NEW y \in X
               PROVE  Settled(Updated(y, Retired(y, ids, path, k))) \in X
    OBVIOUS
  <2> QED BY RetreatStep
<1>4. Settled(p) \in X
  BY SettledFields
<1>5. PICK f \in [1..n -> X] : \A k \in 1..n : f[k] = IF k = 1 THEN Settled(p) ELSE step[k][f[k - 1]]
  <2> HIDE DEF n, X, step
  <2>1. 1 \in Nat
    OBVIOUS
  <2>2. Closed(1, n, X, step)
    BY <1>3 DEF Closed
  <2>3. Recursive(1, n, X, Settled(p), step)
    BY <1>2, <1>4, <2>1, <2>2, Recursion
  <2> QED BY <2>3 DEF Recursive
<1>6. \A k \in 1..n : f[k] = IF k = 1 THEN Settled(p)
                             ELSE Settled(Updated(f[k - 1], Retired(f[k - 1], ids, path, k)))
  <2> SUFFICES ASSUME NEW k \in 1..n, k # 1
               PROVE  f[k] = Settled(Updated(f[k - 1], Retired(f[k - 1], ids, path, k)))
    BY <1>5
  <2> HIDE DEF X, n
  <2>1. k - 1 \in 1..n
    BY <1>2
  <2>2. f[k - 1] \in X
    BY <2>1
  <2>3. f[k] = step[k][f[k - 1]]
    BY <1>5
  <2> QED BY <2>2, <2>3
<1> HIDE DEF step
<1>7. f = [k \in 1..n |-> IF k = 1 THEN Settled(p)
                          ELSE Settled(Updated(f[k - 1],
                                 [u \in ids |-> [f[k - 1][u] EXCEPT !.location = path[k]]]))]
  <2>1. f = [k \in 1..n |-> f[k]]
    OBVIOUS
  <2> HIDE DEF n, X
  <2> QED BY <1>6, <2>1 DEF Retired
<1>8. w = [k \in 1..n |-> IF k = 1 THEN Settled(p)
                          ELSE Settled(Updated(w[k - 1],
                                 [u \in ids |-> [w[k - 1][u] EXCEPT !.location = path[k]]]))]
  BY <1>7
<1> HIDE DEF w
<1>9. w = [k \in 1..n |-> IF k = 1 THEN Settled(p)
                          ELSE Settled(Updated(w[k - 1], Retired(w[k - 1], ids, path, k)))]
  BY <1>8 DEF Retired
<1>10. /\ w = [k \in 1..n |-> w[k]]
       /\ w[1] = Settled(p)
       /\ \A k \in 2..n : w[k] = Settled(Updated(w[k - 1], Retired(w[k - 1], ids, path, k)))
  <2> HIDE DEF n, X
  <2>1. 1 \in 1..n /\ \A k \in 2..n : k \in 1..n /\ k # 1
    BY <1>2
  <2> QED BY <1>9, <2>1
<1>11. w \in [1..n -> X]
  <2>1. \A k \in 2..n : w[k - 1] \in X => w[k] \in X
    <3> SUFFICES ASSUME NEW k \in 2..n, w[k - 1] \in X PROVE w[k] \in X
      OBVIOUS
    <3>1. k \in 1..n
      OBVIOUS
    <3>2. Settled(Updated(w[k - 1], Retired(w[k - 1], ids, path, k))) \in X
      BY <3>1, RetreatStep
    <3> QED BY <1>10, <3>2
  <2> HIDE DEF n, X
  <2> QED BY <1>2, <1>4, <1>10, <2>1, StepsOn
<1>12. ASSUME NEW k \in 2..n
       PROVE  \E q : w[k] = Settled(q) /\ Stepped(q, w[k - 1], p, ids, path[k])
  <2>1. k \in 1..n /\ k - 1 \in 1..n
    BY <1>2
  <2>2. w[k - 1] \in X
    BY <1>11, <2>1
  <2>3. Stepped(Updated(w[k - 1], Retired(w[k - 1], ids, path, k)), w[k - 1], p, ids, path[k])
    BY <2>1, <2>2, RetreatStep
  <2>4. w[k] = Settled(Updated(w[k - 1], Retired(w[k - 1], ids, path, k)))
    BY <1>10
  <2> QED BY <2>3, <2>4
<1>13. Walk(w, p, ids, path)
  BY <1>10, <1>11, <1>12 DEF Walk
<1> QED BY <1>1, <1>13 DEF w

-----------------------------------------------------------------------------
(* Routes and retreat paths.                                               *)

\* A path of adjacent hexes, all but the first of which may be entered.
IsRoute(route, origin, open) ==
  /\ route \in Seq(Hex)
  /\ Len(route) >= 1
  /\ route[1] = origin
  /\ \A k \in 1..(Len(route) - 1) : route[k + 1] \in AdjacentHexes[route[k]] \cap open

\* A board with a hex has a size.
LEMMA HexesAreCounted ==
  ASSUME NEW h \in Hex
  PROVE  Cardinality(Hex) \in Nat /\ Cardinality(Hex) >= 1
<1>1. IsFiniteSet(Hex)
  BY BoardAssumption
<1>2. Cardinality(Hex) \in Nat
  BY <1>1, FS_CardinalityType
<1>3. Cardinality(Hex) # 0
  BY <1>1, FS_EmptySet
<1> QED BY <1>2, <1>3

\* No step leads nowhere else.
LEMMA WithinStart ==
  ASSUME NEW steps \in [Hex -> SUBSET Hex], NEW origin \in Hex
  PROVE  Within(steps, origin)[0] = {origin}
<1> DEFINE n == Cardinality(Hex)
           X == SUBSET Hex
           step == [k \in 0..n |-> [y \in X |-> UNION {{h} \cup steps[h] : h \in y}]]
           w == CHOOSE w : w = [k \in 0..n |-> IF k = 0 THEN {origin}
                                ELSE UNION {{h} \cup steps[h] : h \in w[k - 1]}]
<1>1. Within(steps, origin) = w
  BY DEF Within
<1>2. n \in Nat
  BY HexesAreCounted
<1> HIDE DEF n
<1>3. Closed(0, n, X, step)
  BY DEF Closed
<1>4. PICK f \in [0..n -> X] : \A k \in 0..n : f[k] = IF k = 0 THEN {origin} ELSE step[k][f[k - 1]]
  <2>1. 0 \in Nat /\ {origin} \in X
    OBVIOUS
  <2> HIDE DEF X, step
  <2>2. Recursive(0, n, X, {origin}, step)
    BY <1>2, <1>3, <2>1, Recursion
  <2> QED BY <2>2 DEF Recursive
<1>5. \A k \in 0..n : f[k] = IF k = 0 THEN {origin} ELSE UNION {{h} \cup steps[h] : h \in f[k - 1]}
  <2> SUFFICES ASSUME NEW k \in 0..n, k # 0
               PROVE  f[k] = UNION {{h} \cup steps[h] : h \in f[k - 1]}
    BY <1>4
  <2> HIDE DEF X
  <2>1. k - 1 \in 0..n
    BY <1>2
  <2>2. f[k - 1] \in X
    BY <2>1
  <2>3. f[k] = step[k][f[k - 1]]
    BY <1>4
  <2> QED BY <2>2, <2>3
<1>6. f = [k \in 0..n |-> IF k = 0 THEN {origin} ELSE UNION {{h} \cup steps[h] : h \in f[k - 1]}]
  <2>1. f = [k \in 0..n |-> f[k]]
    OBVIOUS
  <2> HIDE DEF X
  <2> QED BY <1>5, <2>1
<1>7. w = [k \in 0..n |-> IF k = 0 THEN {origin} ELSE UNION {{h} \cup steps[h] : h \in w[k - 1]}]
  BY <1>6
<1> HIDE DEF w
<1>8. w[0] = {origin}
  BY <1>2, <1>7
<1> QED BY <1>1, <1>8

\* A least member is a member.
LEMMA MinIsLeast ==
  ASSUME NEW T \in SUBSET Nat, T # {}
  PROVE  Min(T) \in T
<1>1. \E n \in T : \A m \in T : n <= m
  BY Least
<1> QED BY <1>1 DEF Min

\* normalMovementRoute
LEMMA RoutesAreRoutes ==
  ASSUME NEW p, NEW night_, NEW side, NEW ids, NEW origin \in Hex, NEW destination \in Hex,
         origin # destination,
         NEW route \in Routes(p, night_, side, ids, origin, destination)
  PROVE  /\ IsRoute(route, origin, Hex \ EnemyOccupied(p, side, ids))
         /\ Len(route) >= 2 /\ route[Len(route)] = destination
<1> DEFINE steps == MaySteps(p, night_, side, ids)
           lengths == {n \in 0..Cardinality(Hex) : destination \in Within(steps, origin)[n]}
           m == Min(lengths)
<1>1. /\ steps \in [Hex -> SUBSET Hex]
      /\ \A h \in Hex : steps[h] \subseteq AdjacentHexes[h] \ EnemyOccupied(p, side, ids)
  BY BoardAssumption DEF MaySteps, Terrain
<1>2. lengths # {} /\ lengths \in SUBSET Nat
  BY DEF Routes
<1>3. 0 \notin lengths
  <2>1. Within(steps, origin)[0] = {origin}
    <3> HIDE DEF steps
    <3> QED BY <1>1, WithinStart
  <2> QED BY <2>1
<1>4. m \in lengths
  <2> HIDE DEF lengths
  <2> QED BY <1>2, MinIsLeast
<1>5. m \in Nat /\ m >= 1
  <2> HIDE DEF m
  <2> QED BY <1>2, <1>3, <1>4
<1>6. PICK between \in [1..(m - 1) -> Hex] : route = <<origin>> \o between \o <<destination>>
  BY <1>2 DEF Routes
<1>7. \A k \in 1..m : route[k + 1] \in steps[route[k]]
  BY <1>2 DEF Routes
<1> HIDE DEF m, steps, lengths
<1>8. between \in Seq(Hex) /\ Len(between) = m - 1
  BY <1>5
<1>9. route \in Seq(Hex) /\ Len(route) = m + 1 /\ route[1] = origin /\ route[m + 1] = destination
  <2>1. <<origin>> \o between \in Seq(Hex) /\ Len(<<origin>> \o between) = m
        /\ (<<origin>> \o between)[1] = origin
    BY <1>5, <1>8
  <2> DEFINE s == <<origin>> \o between
  <2> HIDE DEF s
  <2>2. s \o <<destination>> \in Seq(Hex) /\ Len(s \o <<destination>>) = m + 1
        /\ (s \o <<destination>>)[1] = s[1] /\ (s \o <<destination>>)[m + 1] = destination
    BY <1>5, <2>1 DEF s
  <2> QED BY <1>6, <2>1, <2>2 DEF s
<1>10. ASSUME NEW k \in 1..(Len(route) - 1)
       PROVE  route[k + 1] \in AdjacentHexes[route[k]] \cap (Hex \ EnemyOccupied(p, side, ids))
  <2>1. k \in 1..m /\ k \in 1..Len(route) /\ k + 1 \in 1..Len(route)
    BY <1>5, <1>9
  <2>2. route[k] \in Hex /\ route[k + 1] \in Hex
    BY <1>9, <2>1
  <2> QED BY <1>1, <1>7, <2>1, <2>2
<1> QED BY <1>5, <1>9, <1>10 DEF IsRoute

-----------------------------------------------------------------------------

\* A route goes on to a hex next to its end.
LEMMA LongerRoute ==
  ASSUME NEW origin, NEW open, NEW path, IsRoute(path, origin, open),
         NEW h \in Hex, h \in AdjacentHexes[path[Len(path)]] \cap open
  PROVE  IsRoute(Append(path, h), origin, open)
<1> DEFINE longer == Append(path, h)
           n == Len(path)
<1>1. path \in Seq(Hex) /\ n \in Nat /\ n >= 1
  BY DEF IsRoute
<1>2. /\ longer \in Seq(Hex) /\ Len(longer) = n + 1 /\ longer[n + 1] = h
      /\ \A k \in 1..n : longer[k] = path[k]
  BY <1>1
<1> HIDE DEF longer, n
<1>3. longer[1] = origin
  BY <1>1, <1>2 DEF IsRoute
<1>4. ASSUME NEW k \in 1..(Len(longer) - 1)
      PROVE  longer[k + 1] \in AdjacentHexes[longer[k]] \cap open
  <2>1. CASE k = n
    BY <1>1, <1>2, <2>1 DEF n
  <2>2. CASE k # n
    <3>1. k \in 1..(n - 1) /\ k \in 1..n /\ k + 1 \in 1..n
      BY <1>1, <1>2, <2>2
    <3> QED BY <1>2, <3>1 DEF IsRoute, n
  <2> QED BY <2>1, <2>2
<1> QED BY <1>1, <1>2, <1>3, <1>4 DEF IsRoute, longer

\* The prefixes of one hex more.
Onwards(p, ids, side, n, paths) ==
  UNION {{Append(path, h) : h \in NextSteps(p, ids, side, path)} :
           path \in {path \in paths : n > 2 => path[n - 1] \in Friendly(p, ids, side)}}

\* Longer prefixes are routes if the shorter ones are.
LEMMA OnwardsAreRoutes ==
  ASSUME NEW p, NEW ids, NEW side, NEW n, NEW paths, NEW origin,
         \A path \in paths : IsRoute(path, origin, Passable(p, ids, side))
  PROVE  \A path \in Onwards(p, ids, side, n, paths) :
            IsRoute(path, origin, Passable(p, ids, side))
<1> TAKE longer \in Onwards(p, ids, side, n, paths)
<1>1. PICK path \in paths : \E h \in NextSteps(p, ids, side, path) : longer = Append(path, h)
  BY DEF Onwards
<1>2. PICK h \in NextSteps(p, ids, side, path) : longer = Append(path, h)
  BY <1>1
<1>3. h \in AdjacentHexes[path[Len(path)]] \cap Passable(p, ids, side)
  BY <1>2 DEF NextSteps, ViableSteps
<1>4. h \in Hex
  BY <1>3 DEF Passable, Terrain
<1> QED BY <1>1, <1>2, <1>3, <1>4, LongerRoute

\* The prefixes validPrefix accepts, by their length.
Growing(w, p, ids, side) ==
  /\ w[1] = {<<Source(p, ids)>>}
  /\ \A n \in 2..Cardinality(Hex) : w[n] = Onwards(p, ids, side, n, w[n - 1])
  /\ Prefixes(p, ids, side) = UNION {w[n] : n \in 1..Cardinality(Hex)}
  /\ \A n \in 1..Cardinality(Hex) : \A path \in w[n] :
       IsRoute(path, Source(p, ids), Passable(p, ids, side))

\* They are the shorter ones and a step each.
LEMMA PrefixesGrow ==
  ASSUME NEW p, NEW ids, NEW side, Source(p, ids) \in Hex
  PROVE  \E w : Growing(w, p, ids, side)
<1> DEFINE n == Cardinality(Hex)
           origin == Source(p, ids)
           P == {q \in Seq(Hex) : IsRoute(q, origin, Passable(p, ids, side))}
           X == SUBSET P
           step == [k \in 1..n |-> [y \in X |-> Onwards(p, ids, side, k, y)]]
           w == CHOOSE w : w =
                  [k \in 1..n |->
                     IF k = 1
                       THEN {<<origin>>}
                       ELSE UNION {{Append(path_1, h) : h \in NextSteps(p, ids, side, path_1)} :
                              path_1 \in {path_1 \in w[k - 1] :
                                 k > 2 => path_1[k - 1] \in Friendly(p, ids, side)}}]
<1>1. Prefixes(p, ids, side) = UNION {w[k] : k \in 1..n}
  BY DEF Prefixes
<1>2. n \in Nat /\ n >= 1
  BY HexesAreCounted
<1> HIDE DEF n
<1>3. ASSUME NEW k, NEW y \in X PROVE Onwards(p, ids, side, k, y) \in X
  <2>1. \A q \in Onwards(p, ids, side, k, y) : IsRoute(q, origin, Passable(p, ids, side))
    BY OnwardsAreRoutes
  <2> QED BY <2>1 DEF IsRoute
<1>4. {<<origin>>} \in X
  <2> DEFINE one == <<origin>>
  <2>1. one \in Seq(Hex) /\ Len(one) = 1 /\ one[1] = origin
    OBVIOUS
  <2> HIDE DEF one
  <2>2. IsRoute(one, origin, Passable(p, ids, side))
    BY <2>1 DEF IsRoute
  <2> QED BY <2>1, <2>2 DEF one
<1>5. Closed(1, n, X, step)
  <2> HIDE DEF X
  <2> QED BY <1>3 DEF Closed
<1>6. PICK f \in [1..n -> X] : \A k \in 1..n : f[k] = IF k = 1 THEN {<<origin>>} ELSE step[k][f[k - 1]]
  <2>1. 1 \in Nat
    OBVIOUS
  <2> HIDE DEF X, step, origin
  <2>2. Recursive(1, n, X, {<<origin>>}, step)
    BY <1>2, <1>4, <1>5, <2>1, Recursion
  <2> QED BY <2>2 DEF Recursive
<1>7. \A k \in 1..n : f[k] = IF k = 1 THEN {<<origin>>} ELSE Onwards(p, ids, side, k, f[k - 1])
  <2> SUFFICES ASSUME NEW k \in 1..n, k # 1
               PROVE  f[k] = Onwards(p, ids, side, k, f[k - 1])
    BY <1>6
  <2> HIDE DEF X
  <2>1. k - 1 \in 1..n
    BY <1>2
  <2>2. f[k - 1] \in X
    BY <2>1
  <2>3. f[k] = step[k][f[k - 1]]
    BY <1>6
  <2> QED BY <2>2, <2>3
<1> HIDE DEF X, step, P, origin
<1>8. f = [k \in 1..n |->
             IF k = 1
               THEN {<<origin>>}
               ELSE UNION {{Append(path_1, h) : h \in NextSteps(p, ids, side, path_1)} :
                      path_1 \in {path_1 \in f[k - 1] :
                         k > 2 => path_1[k - 1] \in Friendly(p, ids, side)}}]
  <2>1. f = [k \in 1..n |-> f[k]]
    OBVIOUS
  <2> QED BY <1>7, <2>1 DEF Onwards
<1>9. w = [k \in 1..n |->
             IF k = 1
               THEN {<<origin>>}
               ELSE UNION {{Append(path_1, h) : h \in NextSteps(p, ids, side, path_1)} :
                      path_1 \in {path_1 \in w[k - 1] :
                         k > 2 => path_1[k - 1] \in Friendly(p, ids, side)}}]
  BY <1>8
<1> HIDE DEF w
<1>10. w = [k \in 1..n |-> IF k = 1 THEN {<<origin>>} ELSE Onwards(p, ids, side, k, w[k - 1])]
  BY <1>9 DEF Onwards
<1>11. w \in [1..n -> X]
  <2>1. w = [k \in 1..n |-> w[k]] /\ w[1] = {<<origin>>}
    BY <1>2, <1>10
  <2>2. \A k \in 2..n : w[k - 1] \in X => w[k] \in X
    <3> SUFFICES ASSUME NEW k \in 2..n, w[k - 1] \in X PROVE w[k] \in X
      OBVIOUS
    <3>1. k \in 1..n /\ k # 1
      OBVIOUS
    <3>2. w[k] = Onwards(p, ids, side, k, w[k - 1])
      BY <1>10, <3>1
    <3> QED BY <1>3, <3>2
  <2> QED BY <1>2, <1>4, <2>1, <2>2, StepsOn
<1>12. w[1] = {<<origin>>} /\ \A k \in 2..n : w[k] = Onwards(p, ids, side, k, w[k - 1])
  <2>1. 1 \in 1..n /\ \A k \in 2..n : k \in 1..n /\ k # 1
    BY <1>2
  <2> QED BY <1>10, <2>1
<1>13. \A k \in 1..n : \A path \in w[k] : IsRoute(path, origin, Passable(p, ids, side))
  BY <1>11 DEF X, P
<1>14. Growing(w, p, ids, side)
  BY <1>1, <1>12, <1>13 DEF Growing, n, origin
<1> QED BY <1>14

\* validPrefix
LEMMA PrefixesAreRoutes ==
  ASSUME NEW p, NEW ids, NEW side, Source(p, ids) \in Hex,
         NEW path \in Prefixes(p, ids, side)
  PROVE  IsRoute(path, Source(p, ids), Passable(p, ids, side))
<1>1. PICK w : Growing(w, p, ids, side)
  BY PrefixesGrow
<1>2. PICK n \in 1..Cardinality(Hex) : path \in w[n]
  BY <1>1 DEF Growing
<1> QED BY <1>1, <1>2 DEF Growing

-----------------------------------------------------------------------------
(* What walks do to a position.                                            *)

\* What one step of a walk does to who walks and who does not.
Progress(y, r, ids, h) ==
  /\ IsPosition(r)
  /\ Follows(y, r, ids)
  /\ \A u \in ids : r[u].status = "deployed" => r[u].location = h
  /\ \A u, c \in ids :
       ~General(c) /\ y[u].status = "deployed" /\ y[c].status = "deployed"
         => r[u].status = "deployed"

\* Whoever walks with a combat counter is not captured by the step.
LEMMA StepFacts ==
  ASSUME NEW p, NEW y \in [Unit -> UnitState], NEW side, NEW ids \in SUBSET Army(side),
         NEW h \in Hex, NEW q, Stepped(q, y, p, ids, h),
         \A u \in ids : p[u].status = "deployed" /\ p[u].steps # 0,
         IsPosition(y)
  PROVE  Progress(y, Settled(q), ids, h)
<1>1. q \in [Unit -> UnitState] /\ ids \in SUBSET Unit
  BY DEF Stepped, Army
<1>2. /\ Settled(q) \in [Unit -> UnitState]
      /\ Follows(q, Settled(q), {})
      /\ \A u \in Unit : Settled(q)[u] = q[u] \/ LoneGeneral(q, u)
  BY <1>1, SettledFields
<1>3. IsPosition(q)
  <2>1. ASSUME NEW u \in Unit
        PROVE  /\ q[u].status = "deployed" => q[u].location \in Hex
               /\ q[u].status \in {"deployed", "reinforcement"} => q[u].steps # 0
    BY <1>1 DEF IsPosition, Deployed, Stepped
  <2> QED BY <1>1, <2>1 DEF IsPosition, Deployed
<1>4. IsPosition(Settled(q))
  BY <1>3, SettledHolds
<1>5. Follows(y, Settled(q), ids)
  <2>1. Follows(y, q, ids)
    BY DEF Stepped, Follows
  <2>2. Follows(y, Settled(q), ids \cup {})
    BY <1>1, <1>2, <2>1, FollowsOn
  <2>3. ids \cup {} = ids
    OBVIOUS
  <2> QED BY <2>2, <2>3
<1>6. ASSUME NEW u \in ids, Settled(q)[u].status = "deployed"
      PROVE  Settled(q)[u].location = h
  <2>1. u \in Unit /\ u \notin {}
    BY <1>1
  <2>2. Settled(q)[u] = q[u]
    BY <1>1, <1>2, <1>6, <2>1, Remains
  <2> QED BY <2>2 DEF Stepped
<1>7. ASSUME NEW u \in ids, y[u].status = "deployed",
             NEW c \in ids, ~General(c), y[c].status = "deployed"
      PROVE  Settled(q)[u].status = "deployed"
  <2>1. /\ q[u].status = "deployed" /\ q[u].location = h
        /\ q[c].status = "deployed" /\ q[c].location = h
    BY <1>7 DEF Stepped
  <2>2. c \in Combatants(At(q, h)) \cap Army(SideOf[u])
    BY <1>1, <1>7, <2>1 DEF Combatants, At, Deployed, Army
  <2>3. ~LoneGeneral(q, u)
    BY <2>1, <2>2 DEF LoneGeneral, Supported
  <2> QED BY <1>1, <1>2, <2>1, <2>3
<1> QED BY <1>4, <1>5, <1>6, <1>7 DEF Progress

\* The stack that sets out.
SetsOut(p, side, ids, origin) ==
  /\ IsPosition(p) /\ IsSettled(p)
  /\ side \in Side /\ ids \in SUBSET Army(side) /\ ids \subseteq At(p, origin)

\* What is known of every position of a walk.
OnTheWay(p, r, ids, h) ==
  /\ IsPosition(r)
  /\ Follows(p, r, ids)
  /\ \A u \in ids : r[u].status = "deployed" => r[u].location = h
  /\ \A u, c \in ids : ~General(c) => r[u].status = "deployed"

\* Who sets out with a combat counter arrives with it.
LEMMA WalkFacts ==
  ASSUME NEW p, NEW side, NEW ids, NEW origin, SetsOut(p, side, ids, origin),
         NEW open, NEW path, IsRoute(path, origin, open), NEW w, Walk(w, p, ids, path)
  PROVE  \A k \in 1..Len(path) : OnTheWay(p, w[k], ids, path[k])
<1> DEFINE n == Len(path)
           S == {k \in 1..n : OnTheWay(p, w[k], ids, path[k])}
<1>1. n \in Nat /\ n >= 1 /\ 1 \in Nat /\ path \in Seq(Hex)
  BY DEF IsRoute
<1>2. p \in [Unit -> UnitState] /\ ids \in SUBSET Unit /\ ids \in SUBSET Army(side)
  BY DEF SetsOut, IsPosition, Army
<1>3. \A u \in ids : p[u].status = "deployed" /\ p[u].location = origin /\ p[u].steps # 0
  BY <1>2 DEF SetsOut, At, Deployed, IsPosition
<1>4. 1 \in S
  <2>1. w[1] = p
    BY <1>2, SettledIsSame DEF Walk, SetsOut
  <2>2. path[1] = origin
    BY DEF IsRoute
  <2>3. OnTheWay(p, p, ids, origin)
    BY <1>2, <1>3 DEF OnTheWay, SetsOut, Follows
  <2> QED BY <1>1, <2>1, <2>2, <2>3
<1>5. ASSUME NEW k \in 1..n, k \in S, k < n PROVE k + 1 \in S
  <2>1. k + 1 \in 2..n /\ k + 1 \in 1..n /\ (k + 1) - 1 = k
    BY <1>5
  <2>2. PICK q : w[k + 1] = Settled(q) /\ Stepped(q, w[k], p, ids, path[k + 1])
    BY <2>1 DEF Walk
  <2>3. OnTheWay(p, w[k], ids, path[k])
    BY <1>5
  <2>4. path[k + 1] \in Hex
    BY <1>1, <2>1
  <2>5. w[k] \in [Unit -> UnitState] /\ IsPosition(w[k])
    BY <2>3 DEF OnTheWay, IsPosition
  <2>6. Progress(w[k], w[k + 1], ids, path[k + 1])
    BY <1>2, <1>3, <2>2, <2>4, <2>5, StepFacts
  <2>7. Follows(p, w[k + 1], ids)
    <3>1. Follows(p, w[k], ids)
      BY <2>3 DEF OnTheWay
    <3>2. Follows(p, w[k + 1], ids \cup ids)
      BY <1>2, <2>5, <2>6, <3>1, FollowsOn DEF Progress
    <3>3. ids \cup ids = ids
      OBVIOUS
    <3> QED BY <3>2, <3>3
  <2>8. \A u, c \in ids : ~General(c) => w[k + 1][u].status = "deployed"
    BY <2>3, <2>6 DEF OnTheWay, Progress
  <2>9. OnTheWay(p, w[k + 1], ids, path[k + 1])
    BY <2>6, <2>7, <2>8 DEF OnTheWay, Progress
  <2> QED BY <2>1, <2>9
<1>6. \A k \in 1..n : k \in S
  <2> HIDE DEF S
  <2>1. \A k \in 1..n : k \in S /\ k < n => k + 1 \in S
    BY <1>5
  <2> QED BY <1>1, <1>4, <2>1, Upwards
<1> QED BY <1>6

\* Who is captured on the way is not there at its end.
LEMMA CapturedForGood ==
  ASSUME NEW p, NEW ids \in SUBSET Unit, NEW path \in Seq(Hex), NEW w, Walk(w, p, ids, path),
         NEW k \in 1..Len(path), NEW e \in Unit, e \notin ids, w[k][e].status # "deployed"
  PROVE  w[Len(path)][e].status # "deployed"
<1> DEFINE n == Len(path)
           S == {j \in k..n : w[j][e].status # "deployed"}
<1>1. n \in Nat /\ k \in Nat /\ k <= n
  OBVIOUS
<1>2. k \in S
  BY <1>1
<1>3. ASSUME NEW j \in k..n, j \in S, j < n PROVE j + 1 \in S
  <2>1. j + 1 \in 2..n /\ j + 1 \in k..n /\ (j + 1) - 1 = j
    BY <1>1, <1>3
  <2>2. PICK q : w[j + 1] = Settled(q) /\ Stepped(q, w[j], p, ids, path[j + 1])
    BY <2>1 DEF Walk
  <2>3. q \in [Unit -> UnitState] /\ q[e] = w[j][e]
    BY <2>2 DEF Stepped
  <2>4. Settled(q)[e].status = "deployed" => Settled(q)[e] = q[e]
    <3>1. Settled(q) \in [Unit -> UnitState] /\ Follows(q, Settled(q), {}) /\ e \notin {}
      BY <2>3, SettledFields
    <3> QED BY <2>3, <3>1, Remains
  <2>5. w[j + 1][e].status # "deployed"
    BY <1>3, <2>2, <2>3, <2>4
  <2> QED BY <2>1, <2>5
<1>4. \A j \in k..n : j \in S
  <2> HIDE DEF S
  <2>1. \A j \in k..n : j \in S /\ j < n => j + 1 \in S
    BY <1>3
  <2> QED BY <1>1, <1>2, <2>1, Upwards
<1> QED BY <1>1, <1>4

\* No hex that is entered still holds an enemy.
LEMMA NoEnemyIsLeft ==
  ASSUME NEW p, NEW side, NEW ids, NEW origin, SetsOut(p, side, ids, origin),
         NEW open, open \cap EnemyOccupied(p, side, ids) = {},
         NEW path, IsRoute(path, origin, open), NEW w, Walk(w, p, ids, path),
         NEW k \in 2..Len(path), NEW e \in Unit, SideOf[e] # side
  PROVE  ~(w[Len(path)][e].status = "deployed" /\ w[Len(path)][e].location = path[k])
<1> DEFINE n == Len(path)
<1>1. n \in Nat /\ n \in 1..n /\ k - 1 \in 1..n /\ k \in 1..n /\ path \in Seq(Hex)
  BY DEF IsRoute
<1>2. \A j \in 1..n : OnTheWay(p, w[j], ids, path[j])
  BY WalkFacts
<1>3. p \in [Unit -> UnitState] /\ ids \in SUBSET Unit /\ e \notin ids
  BY DEF SetsOut, IsPosition, Army
<1>4. path[k] \in AdjacentHexes[path[k - 1]] /\ path[k] \in open /\ path[k] \in Hex
  <2>1. k - 1 \in 1..(Len(path) - 1) /\ (k - 1) + 1 = k
    BY <1>1
  <2>2. path[(k - 1) + 1] \in AdjacentHexes[path[k - 1]] \cap open
    BY <2>1 DEF IsRoute
  <2> QED BY <1>1, <2>1, <2>2
<1>5. path[k] \notin EnemyOccupied(p, side, ids)
  BY <1>4
<1> SUFFICES ASSUME w[n][e].status = "deployed", w[n][e].location = path[k]
             PROVE  FALSE
  OBVIOUS
<1>6. w[n][e] = p[e]
  <2>1. Follows(p, w[n], ids) /\ w[n] \in [Unit -> UnitState]
    BY <1>1, <1>2 DEF OnTheWay, IsPosition
  <2> QED BY <1>3, <2>1, Remains
<1>7. e \in At(p, path[k]) \ Army(side)
  BY <1>6 DEF At, Deployed, Army
<1>8. Combatants(ids) # {} /\ LoneGeneral(p, e)
  BY <1>4, <1>5, <1>7 DEF EnemyOccupied
<1>9. PICK c \in ids : ~General(c)
  BY <1>8 DEF Combatants
<1> DEFINE y == w[k - 1]
<1>10. OnTheWay(p, y, ids, path[k - 1])
  BY <1>1, <1>2
<1> HIDE DEF y, n
<1>11. Follows(p, y, ids) /\ y \in [Unit -> UnitState]
  BY <1>10 DEF OnTheWay, IsPosition
<1>12. y[e].status = "deployed"
  BY <1>1, <1>3, CapturedForGood DEF y, n
<1>13. y[e] = p[e]
  BY <1>3, <1>11, <1>12, Remains
<1>14. ~Supported(y, SideOf[e], path[k])
  <2>1. \A u \in Combatants(At(y, path[k])) \cap Army(SideOf[e]) :
           u \in Combatants(At(p, path[k])) \cap Army(SideOf[e])
    <3> TAKE u \in Combatants(At(y, path[k])) \cap Army(SideOf[e])
    <3>1. u \in Unit /\ ~General(u) /\ SideOf[u] = SideOf[e] /\ u \notin ids
      BY DEF Combatants, Army, SetsOut
    <3>2. y[u] = p[u]
      BY <1>3, <1>11, <3>1, Remains
    <3> QED BY <3>2 DEF Combatants, At, Deployed
  <2>2. ~Supported(p, SideOf[e], path[k])
    BY <1>8, <1>7 DEF LoneGeneral, At
  <2> QED BY <2>1, <2>2 DEF Supported
<1>15. LoneGeneral(y, e)
  BY <1>6, <1>8, <1>12, <1>13, <1>14 DEF LoneGeneral, Deployed
<1>16. path[k] \in EnemyZone(y, SideOf[e])
  <2>1. y[c].status = "deployed" /\ y[c].location = path[k - 1]
    BY <1>9, <1>10 DEF OnTheWay
  <2>2. SideOf[c] # SideOf[e] /\ c \in Unit
    BY <1>3, <1>9 DEF SetsOut, Army
  <2> QED BY <1>4, <1>9, <2>1, <2>2, ZoneHolds
<1>17. IsSettled(y)
  <2>1. CASE k = 2
    <3>1. y = Settled(p)
      BY <2>1 DEF Walk, y
    <3> QED BY <1>3, <3>1, NobodyLoneIsLeft
  <2>2. CASE k # 2
    <3>1. k - 1 \in 2..Len(path)
      BY <1>1, <2>2 DEF n
    <3>2. PICK q : y = Settled(q) /\ Stepped(q, w[(k - 1) - 1], p, ids, path[k - 1])
      BY <3>1 DEF Walk, y
    <3>3. q \in [Unit -> UnitState]
      BY <3>2 DEF Stepped
    <3> QED BY <3>2, <3>3, NobodyLoneIsLeft
  <2> QED BY <2>1, <2>2
<1> QED BY <1>6, <1>13, <1>15, <1>16, <1>17 DEF IsSettled

\* How a stack arrives that has gone along a path.
Arrived(p, q, side, ids, path) ==
  /\ OnTheWay(p, q, ids, path[Len(path)])
  /\ \A e \in Unit : SideOf[e] # side /\ q[e].status = "deployed" =>
                       q[e].location \notin Entered(path)
  /\ Len(path) = 1 => q = p

\* A walk ends as a stack should arrive.
LEMMA WalkArrives ==
  ASSUME NEW p, NEW side, NEW ids, NEW origin, SetsOut(p, side, ids, origin),
         NEW open, open \cap EnemyOccupied(p, side, ids) = {},
         NEW path, IsRoute(path, origin, open), NEW w, Walk(w, p, ids, path)
  PROVE  Arrived(p, w[Len(path)], side, ids, path)
<1>1. Len(path) \in 1..Len(path)
  BY DEF IsRoute
<1>2. OnTheWay(p, w[Len(path)], ids, path[Len(path)])
  BY <1>1, WalkFacts
<1>3. ASSUME NEW e \in Unit, SideOf[e] # side, w[Len(path)][e].status = "deployed",
             w[Len(path)][e].location \in Entered(path)
      PROVE  FALSE
  <2>1. PICK k \in 2..Len(path) : w[Len(path)][e].location = path[k]
    BY <1>3 DEF Entered
  <2> QED BY <1>3, <2>1, NoEnemyIsLeft
<1>4. Len(path) = 1 => w[Len(path)] = p
  BY SettledIsSame DEF Walk, SetsOut, IsPosition
<1> QED BY <1>2, <1>3, <1>4 DEF Arrived

\* So does a move (moveUnit, moveStack).
LEMMA MoveArrives ==
  ASSUME NEW p, NEW side, NEW ids, NEW origin, SetsOut(p, side, ids, origin),
         NEW route, IsRoute(route, origin, Hex \ EnemyOccupied(p, side, ids))
  PROVE  /\ Arrived(p, AfterMove(p, ids, route), side, ids, route)
         /\ Len(route) >= 2 =>
              Afresh(AfterMove(p, ids, route), p, ids, route[Len(route)])
<1>1. p \in [Unit -> UnitState] /\ ids \in SUBSET Unit /\ route \in Seq(Hex) /\ Len(route) >= 1
  BY DEF SetsOut, IsPosition, Army, IsRoute
<1>2. PICK w : /\ Walk(w, p, ids, route) /\ AfterMove(p, ids, route) = w[Len(route)]
               /\ Len(route) >= 2 => Afresh(w[Len(route)], p, ids, route[Len(route)])
  BY <1>1, MoveWalks
<1> DEFINE open == Hex \ EnemyOccupied(p, side, ids)
<1>3. open \cap EnemyOccupied(p, side, ids) = {} /\ IsRoute(route, origin, open)
  OBVIOUS
<1> HIDE DEF open
<1>4. Arrived(p, w[Len(route)], side, ids, route)
  BY <1>2, <1>3, WalkArrives
<1> QED BY <1>2, <1>4

\* So does a retreat (applyForcedRetreat).
LEMMA RetreatArrives ==
  ASSUME NEW p, NEW side, NEW ids, NEW origin, SetsOut(p, side, ids, origin),
         NEW path, IsRoute(path, origin, Passable(p, ids, side))
  PROVE  Arrived(p, AfterRetreat(p, ids, path), side, ids, path)
<1>1. p \in [Unit -> UnitState] /\ ids \in SUBSET Unit /\ path \in Seq(Hex) /\ Len(path) >= 1
  BY DEF SetsOut, IsPosition, Army, IsRoute
<1>2. PICK w : Walk(w, p, ids, path) /\ AfterRetreat(p, ids, path) = w[Len(path)]
  BY <1>1, RetreatWalks
<1>3. Passable(p, ids, side) \cap EnemyOccupied(p, side, ids) = {}
  BY DEF Passable
<1>4. Arrived(p, w[Len(path)], side, ids, path)
  BY <1>2, <1>3, WalkArrives
<1> QED BY <1>2, <1>4

-----------------------------------------------------------------------------
(* Legal positions.                                                        *)

\* Counters of one army.
OneSided(S) == \A u, w \in S : SideOf[u] = SideOf[w]

\* An empty hex is a legal stack.
LEMMA NobodyFits == StackFits({})
<1>1. Combatants({}) = {} /\ {} \ {} = {}
  BY DEF Combatants
<1>2. Cardinality({}) = 0
  BY FS_EmptySet
<1> QED BY <1>1, <1>2 DEF StackFits

\* A hex that nobody of a stack that left is in.
LEMMA StaysLegal ==
  ASSUME NEW p, NEW q \in [Unit -> UnitState], NEW ids, IsPosition(p), IsLegal(p),
         Follows(p, q, ids), NEW origin, ids \subseteq At(p, origin),
         StackFits(At(p, origin) \ ids), NEW h \in Hex, ids \cap At(q, h) = {}
  PROVE  StackFits(At(q, h)) /\ OneSided(At(q, h))
<1> DEFINE S == At(p, h) \ ids
           T == At(q, h)
<1>1. p \in [Unit -> UnitState]
  BY DEF IsPosition
<1>2. ASSUME NEW u \in T PROVE u \in S /\ q[u] = p[u] /\ u \in Unit
  <2>1. u \in Unit /\ u \notin ids /\ q[u].status = "deployed" /\ q[u].location = h
    BY DEF At, Deployed
  <2>2. q[u] = p[u]
    BY <1>1, <2>1, Remains
  <2> QED BY <2>1, <2>2 DEF At, Deployed
<1>3. S \in SUBSET Unit /\ T \in SUBSET S
  BY <1>2 DEF At, Deployed
<1>4. StackFits(S)
  <2>1. CASE h = origin
    BY <2>1
  <2>2. CASE h # origin
    <3>1. S = At(p, h)
      BY <2>2 DEF At
    <3> QED BY <3>1 DEF IsLegal
  <2> QED BY <2>1, <2>2
<1>5. OneSided(S)
  BY DEF IsLegal, OneSided
<1>6. ASSUME NEW g \in S, General(g), g \notin T, NEW u \in T PROVE General(u)
  <2>1. g \in Unit /\ g \notin ids /\ p[g].status = "deployed" /\ p[g].location = h
    BY <1>6 DEF At, Deployed
  <2>2. q[g] # p[g]
    BY <1>6, <2>1 DEF At, Deployed
  <2>3. MayBeLost(p, ids, g)
    BY <1>1, <2>1, <2>2, Remains
  <2>4. u \in Unit \ ids /\ SideOf[u] = SideOf[g] /\ p[u].status = "deployed" /\ p[u].location = h
    BY <1>2, <1>5 DEF OneSided, At, Deployed
  <2> QED BY <2>1, <2>3, <2>4 DEF MayBeLost
<1> HIDE DEF S, T
<1>7. StackFits(T)
  BY <1>3, <1>4, <1>6, FewerFit
<1>8. OneSided(T)
  BY <1>3, <1>5 DEF OneSided
<1> QED BY <1>7, <1>8 DEF T

\* A stack has left the board.
LEMMA GoneIsLegal ==
  ASSUME NEW p, NEW q \in [Unit -> UnitState], NEW ids, IsPosition(p), IsLegal(p),
         Follows(p, q, ids), NEW origin, ids \subseteq At(p, origin),
         StackFits(At(p, origin) \ ids), \A u \in ids : q[u].status # "deployed"
  PROVE  IsLegal(q)
<1> SUFFICES ASSUME NEW h \in Hex PROVE StackFits(At(q, h)) /\ OneSided(At(q, h))
  BY DEF IsLegal, OneSided
<1>1. ids \cap At(q, h) = {}
  BY DEF At, Deployed
<1> QED BY <1>1, StaysLegal

\* A stack has arrived where it fits.
LEMMA ArrivedIsLegal ==
  ASSUME NEW p, NEW q, NEW side, NEW ids, NEW origin, SetsOut(p, side, ids, origin),
         NEW path, path \in Seq(Hex), Len(path) >= 2, Arrived(p, q, side, ids, path),
         IsLegal(p), NEW d, d = path[Len(path)],
         StackFits(ids \cup (At(p, d) \cap Army(side))),
         StackFits(At(p, origin) \ ids),
         d # origin \/ At(p, origin) \subseteq ids,
         \/ At(p, d) \cap Army(side) \subseteq ids
         \/ Afresh(q, p, ids, d)
  PROVE  IsLegal(q)
<1> DEFINE S == ids \cup (At(p, d) \cap Army(side))
           T == At(q, d)
<1>1. /\ p \in [Unit -> UnitState] /\ q \in [Unit -> UnitState] /\ IsPosition(p)
      /\ ids \subseteq At(p, origin) /\ Follows(p, q, ids) /\ ids \in SUBSET Unit
      /\ ids \in SUBSET Army(side)
  BY DEF SetsOut, Arrived, OnTheWay, IsPosition, Army
<1>2. d \in Hex /\ d \in Entered(path)
  <2>1. Len(path) \in 2..Len(path) /\ Len(path) \in 1..Len(path)
    OBVIOUS
  <2> QED BY <2>1 DEF Entered
<1>3. ASSUME NEW u \in T, u \notin ids PROVE u \in Unit /\ q[u] = p[u] /\ u \in At(p, d) /\ SideOf[u] = side
  <2>1. u \in Unit /\ q[u].status = "deployed" /\ q[u].location = d
    BY DEF At, Deployed
  <2>2. q[u] = p[u]
    BY <1>1, <1>3, <2>1, Remains
  <2>3. SideOf[u] = side
    BY <1>2, <2>1 DEF Arrived
  <2> QED BY <2>1, <2>2, <2>3 DEF At, Deployed
<1>4. S \in SUBSET Unit /\ T \in SUBSET S /\ \A u \in T : SideOf[u] = side
  BY <1>1, <1>3 DEF At, Deployed, Army
<1>5. ASSUME NEW g \in S, General(g), g \notin T, g \in ids, NEW u \in T PROVE General(u)
  <2>1. q[g].status # "deployed"
    BY <1>1, <1>5 DEF At, Deployed, Arrived, OnTheWay
  <2>2. CASE u \in ids
    BY <1>5, <2>1, <2>2 DEF Arrived, OnTheWay
  <2>3. CASE u \notin ids
    <3>1. u \in At(p, d) /\ SideOf[u] = side /\ u \in Unit
      BY <1>3, <2>3
    <3>2. Afresh(q, p, ids, d)
      BY <2>3, <3>1 DEF Army
    <3>3. PICK r \in [Unit -> UnitState] :
             q = Settled(r) /\ \A x \in ids : r[x].status = p[x].status /\ r[x].location = d
      BY <3>2 DEF Afresh
    <3>4. r[g].status = "deployed" /\ r[g].location = d
      BY <1>1, <1>5, <3>3 DEF At, Deployed
    <3>5. LoneGeneral(r, g)
      BY <1>1, <1>5, <2>1, <3>3, <3>4, SettledFields
    <3>6. q[u] = r[u] /\ r[u].status = "deployed" /\ r[u].location = d
      <4>1. q[u].status = "deployed" /\ q[u].location = d
        BY DEF At, Deployed
      <4>2. Follows(r, q, {}) /\ u \notin {}
        BY <3>3, SettledFields
      <4> QED BY <1>1, <3>1, <3>3, <4>1, <4>2, Remains
    <3>7. SideOf[u] = SideOf[g]
      BY <1>1, <1>5, <3>1 DEF Army
    <3> QED BY <3>1, <3>4, <3>5, <3>6, <3>7 DEF LoneGeneral, Supported, Combatants, At, Deployed, Army
  <2> QED BY <2>2, <2>3
<1>6. ASSUME NEW g \in S, General(g), g \notin T, g \notin ids PROVE FALSE
  <2>1. g \in Unit /\ p[g].status = "deployed" /\ p[g].location = d /\ SideOf[g] = side
    BY <1>6 DEF At, Deployed, Army
  <2>2. q[g] # p[g]
    BY <1>6, <2>1 DEF At, Deployed
  <2>3. MayBeLost(p, ids, g)
    BY <1>1, <1>6, <2>1, <2>2, Remains
  <2>4. d # origin
    BY <1>6, <2>1 DEF At, Deployed
  <2>5. ~Supported(p, side, d)
    BY <1>1, <2>1, <2>3, <2>4 DEF MayBeLost, Supported, Combatants, At, Deployed, Army
  <2>6. PICK e \in Unit : /\ ~General(e) /\ SideOf[e] # side
                          /\ e \notin ids =>
                               p[e].status = "deployed" /\ d \in AdjacentHexes[p[e].location]
    BY <2>1, <2>3 DEF MayBeLost
  <2>7. e \notin ids
    BY <1>1, <2>6 DEF Army
  <2>8. d \in EnemyZone(p, side)
    BY <2>6, <2>7, ZoneHolds
  <2> QED BY <1>6, <2>1, <2>5, <2>8 DEF SetsOut, IsSettled, LoneGeneral, Deployed
<1>7. StackFits(T)
  <2> HIDE DEF S, T
  <2>1. StackFits(S)
    BY DEF S
  <2> QED BY <1>4, <1>5, <1>6, <2>1, FewerFit
<1>8. ASSUME NEW h \in Hex PROVE StackFits(At(q, h)) /\ OneSided(At(q, h))
  <2>1. CASE h = d
    BY <1>4, <1>7, <2>1 DEF OneSided
  <2>2. CASE h # d
    <3>1. ids \cap At(q, h) = {}
      BY <1>1, <2>2 DEF At, Deployed, Arrived, OnTheWay
    <3> QED BY <1>1, <3>1, StaysLegal
  <2> QED BY <2>1, <2>2
<1> QED BY <1>8 DEF IsLegal, OneSided

-----------------------------------------------------------------------------
(* Control.                                                                *)

\* Every hex entered is controlled by who entered it, also where he is captured since.
LEMMA ArrivedIsControlled ==
  ASSUME NEW p, NEW q, NEW side, NEW ids, NEW origin, SetsOut(p, side, ids, origin),
         NEW path, path \in Seq(Hex), Len(path) >= 1, Arrived(p, q, side, ids, path),
         NEW held \in [Objective -> Side], IsControlled(p, held)
  PROVE  IsControlled(q, Controlled(held, Entered(path), side))
<1> SUFFICES ASSUME NEW u \in Unit, q[u].status = "deployed", q[u].location \in Objective
             PROVE  Controlled(held, Entered(path), side)[q[u].location] = SideOf[u]
  BY DEF IsControlled, Deployed
<1>1. /\ p \in [Unit -> UnitState] /\ q \in [Unit -> UnitState]
      /\ ids \in SUBSET Army(side) /\ Follows(p, q, ids)
  BY DEF SetsOut, Arrived, OnTheWay, IsPosition, Army
<1>2. Controlled(held, Entered(path), side)[q[u].location]
        = IF q[u].location \in Entered(path) THEN side ELSE held[q[u].location]
  BY DEF Controlled
<1>3. CASE q[u].location \in Entered(path)
  BY <1>2, <1>3 DEF Arrived
<1>4. CASE q[u].location \notin Entered(path)
  <2>1. q[u] = p[u]
    <3>1. CASE u \in ids
      <4>1. q[u].location = path[Len(path)]
        BY <3>1 DEF Arrived, OnTheWay
      <4>2. ~(Len(path) >= 2)
        BY <1>4, <4>1 DEF Entered
      <4>3. Len(path) = 1
        <5> DEFINE n == Len(path)
        <5>1. n \in Nat /\ n >= 1 /\ ~(n >= 2)
          BY <4>2
        <5> HIDE DEF n
        <5>2. n = 1
          BY <5>1
        <5> QED BY <5>2 DEF n
      <4> QED BY <4>3 DEF Arrived
    <3>2. CASE u \notin ids
      BY <1>1, <3>2, Remains
    <3> QED BY <3>1, <3>2
  <2> QED BY <1>2, <1>4, <2>1 DEF IsControlled, Deployed
<1> QED BY <1>3, <1>4

\* Who stays keeps what he controls.
LEMMA FewerControl ==
  ASSUME NEW p, NEW q, NEW held, IsControlled(p, held),
         \A u \in Unit : q[u].status = "deployed" =>
                           p[u].status = "deployed" /\ p[u].location = q[u].location
  PROVE  IsControlled(q, held)
BY DEF IsControlled, Deployed

-----------------------------------------------------------------------------
(* What a change of position leaves of a combat's stage.                   *)

\* Counters that moved are somewhere else, or by themselves.
Elsewhere(q, M, H) ==
  \A u \in M : q[u].status = "deployed" =>
                 q[u].location \notin H \/ At(q, q[u].location) \subseteq M

\* Counters held in their hexes stay if others move, and move elsewhere.
LEMMA HeldStays ==
  ASSUME NEW p \in [Unit -> UnitState], NEW q \in [Unit -> UnitState], NEW M, Follows(p, q, M),
         NEW F, NEW H, Held(p, F, H), M \cap F = {}, Elsewhere(q, M, H)
  PROVE  Held(q, F, H)
<1>1. ASSUME NEW u \in F
      PROVE  /\ u \in Unit /\ ~General(u) /\ u \notin M /\ q[u] = p[u]
             /\ p[u].status = "deployed" /\ p[u].location \in H
  <2>1. u \in Unit /\ ~General(u) /\ p[u].status = "deployed" /\ p[u].location \in H /\ u \notin M
    BY DEF Held, Combatants, Deployed
  <2> QED BY <2>1, Remains
<1>2. ASSUME NEW u \in Unit, ~General(u), q[u].status = "deployed", q[u].location \in H
      PROVE  u \in F
  <2>1. u \notin M
    <3> SUFFICES ASSUME u \in M PROVE FALSE
      OBVIOUS
    <3>1. At(q, q[u].location) \subseteq M
      BY <1>2 DEF Elsewhere
    <3>2. PICK f \in F : p[f].location = q[u].location
      BY <1>2 DEF Held
    <3>3. f \in At(q, q[u].location)
      BY <1>1, <3>2 DEF At, Deployed
    <3> QED BY <1>1, <3>1, <3>3
  <2>2. q[u] = p[u]
    BY <1>2, <2>1, Remains
  <2> QED BY <1>2, <2>2 DEF Held, Combatants, Deployed
<1>3. F = {u \in Combatants(Deployed(q)) : q[u].location \in H}
  BY <1>1, <1>2 DEF Combatants, Deployed
<1>4. \A h \in H : \E u \in F : q[u].location = h
  BY <1>1 DEF Held
<1> QED BY <1>3, <1>4 DEF Held

\* Counters that a choice is about are captured or stay where they are.
LEMMA StandingStays ==
  ASSUME NEW p \in [Unit -> UnitState], NEW q \in [Unit -> UnitState], NEW M, Follows(p, q, M),
         NEW U \in SUBSET Unit, M \cap U = {}, NEW side, NEW F, NEW H,
         Standing(p, U, side, F, H)
  PROVE  Standing(q, U, side, F, H)
<1> SUFFICES ASSUME NEW u \in U
             PROVE  IF q[u].status = "deployed" THEN q[u].location \in H ELSE q[u].location = Nowhere
  BY DEF Standing
<1>1. q[u].status = "deployed" => q[u] = p[u]
  BY Remains
<1>2. q[u] # p[u] => q[u].location = Nowhere
  BY Remains
<1> QED BY <1>1, <1>2 DEF Standing

\* Nobody joins them.
LEMMA WholeStays ==
  ASSUME NEW p \in [Unit -> UnitState], NEW q \in [Unit -> UnitState], NEW M, Follows(p, q, M),
         NEW U \in SUBSET Unit, M \cap U = {}, NEW side, NEW F, NEW H,
         Standing(p, U, side, F, H), AreWholeStacks(p, U), Elsewhere(q, M, H)
  PROVE  AreWholeStacks(q, U)
<1> SUFFICES ASSUME NEW u \in U, q[u].status = "deployed", NEW w \in At(q, q[u].location)
             PROVE  w \in U
  BY DEF AreWholeStacks
<1>1. q[u] = p[u]
  BY Remains
<1>2. q[u].location \in H
  BY <1>1 DEF Standing
<1>3. w \in Unit /\ q[w].status = "deployed" /\ q[w].location = q[u].location
  BY DEF At, Deployed
<1>4. w \notin M
  <2>1. u \in At(q, q[u].location) /\ u \notin M
    BY DEF At, Deployed
  <2> QED BY <1>2, <1>3, <2>1 DEF Elsewhere
<1>5. q[w] = p[w]
  BY <1>3, <1>4, Remains
<1>6. w \in At(p, p[u].location) /\ p[u].status = "deployed"
  BY <1>1, <1>3, <1>5 DEF At, Deployed
<1> QED BY <1>6 DEF AreWholeStacks

\* The hexes of a combat.
Hexes(c) == c.attackerHexes \cup c.defenderHexes

\* Counters that keep their steps can pay as many losses.
LEMMA StepsStay ==
  ASSUME NEW p, NEW q, NEW S, \A u \in S : q[u].steps = p[u].steps
  PROVE  StepsOf(q, S) = StepsOf(p, S)
<1>1. \A u \in S : {u} \X (1..q[u].steps) = {u} \X (1..p[u].steps)
  OBVIOUS
<1>2. {{u} \X (1..q[u].steps) : u \in S} = {{u} \X (1..p[u].steps) : u \in S}
  BY <1>1
<1> QED BY <1>2 DEF StepsOf

\* Combat counters are not captured, nor are the generals who stand with them.
LEMMA LedStays ==
  ASSUME NEW p \in [Unit -> UnitState], NEW q \in [Unit -> UnitState], NEW M, Follows(p, q, M),
         NEW U \in SUBSET Unit, M \cap U = {}, NEW side, NEW F, NEW H,
         Standing(p, U, side, F, H), Led(p, U)
  PROVE  Led(q, U)
<1> SUFFICES ASSUME NEW u \in U
             PROVE  /\ q[u].status = "deployed"
                    /\ \E w \in U :
                         ~General(w) /\ q[w].status = "deployed" /\ q[w].location = q[u].location
  BY DEF Led
<1>1. PICK w \in U : ~General(w) /\ p[w].status = "deployed" /\ p[w].location = p[u].location
  BY DEF Led
<1>2. u \in Unit /\ w \in Unit /\ u \notin M /\ w \notin M /\ SideOf[u] = SideOf[w]
  BY <1>1 DEF Standing
<1>3. q[w] = p[w]
  BY <1>1, <1>2, Remains
<1>4. q[u] = p[u]
  <2>1. ~MayBeLost(p, M, u)
    BY <1>1, <1>2 DEF MayBeLost
  <2> QED BY <1>2, <2>1, Remains
<1>5. p[u].status = "deployed"
  BY DEF Led
<1> QED BY <1>1, <1>3, <1>4, <1>5

\* A change that concerns none of a combat's counters leaves the combat where it is.
LEMMA StageStays ==
  ASSUME NEW p \in [Unit -> UnitState], NEW q \in [Unit -> UnitState], NEW M, Follows(p, q, M),
         NEW side, NEW d \in Combat, InStage(p, side, d),
         M \cap (d.attackers \cup d.defenders \cup d.choice.units) = {},
         Elsewhere(q, M, Hexes(d))
  PROVE  InStage(q, side, d)
<1>1. d.choice.units \in SUBSET Unit
  BY DEF Combat, Choice
<1>2. Elsewhere(q, M, d.attackerHexes) /\ Elsewhere(q, M, d.defenderHexes)
      /\ Elsewhere(q, M, LoserHexes(d))
  BY DEF Elsewhere, Hexes, LoserHexes
<1>3. M \cap d.attackers = {} /\ M \cap d.defenders = {} /\ M \cap d.choice.units = {}
      /\ M \cap Losers(d) = {}
  BY DEF Losers
<1>4. Held(p, d.attackers, d.attackerHexes) => Held(q, d.attackers, d.attackerHexes)
  BY <1>2, <1>3, HeldStays
<1>5. Held(p, d.defenders, d.defenderHexes) => Held(q, d.defenders, d.defenderHexes)
  BY <1>2, <1>3, HeldStays
<1>6. Held(p, Losers(d), LoserHexes(d)) => Held(q, Losers(d), LoserHexes(d))
  BY <1>2, <1>3, HeldStays
<1>7. \A s, F, H : Standing(p, d.choice.units, s, F, H) => Standing(q, d.choice.units, s, F, H)
  BY <1>1, <1>3, StandingStays
<1>8. Standing(p, d.choice.units, Beaten(side, d), Losers(d), LoserHexes(d))
        /\ AreWholeStacks(p, d.choice.units) => AreWholeStacks(q, d.choice.units)
  BY <1>1, <1>2, <1>3, WholeStays
<1>9. Standing(p, d.choice.units, Beaten(side, d), Losers(d), LoserHexes(d))
        /\ Led(p, d.choice.units) => Led(q, d.choice.units)
  BY <1>1, <1>3, LedStays
<1>10. Held(p, d.choice.units, LoserHexes(d)) => StepsOf(q, d.choice.units) = StepsOf(p, d.choice.units)
  <2> SUFFICES ASSUME Held(p, d.choice.units, LoserHexes(d))
               PROVE  \A u \in d.choice.units : q[u].steps = p[u].steps
    BY StepsStay
  <2>1. \A u \in d.choice.units : u \in Unit /\ u \notin M /\ ~General(u)
    BY <1>3 DEF Held, Combatants, Deployed
  <2> QED BY <2>1, Remains
<1> QED BY <1>4, <1>5, <1>6, <1>7, <1>8, <1>9, <1>10 DEF InStage

-----------------------------------------------------------------------------
(* The next choice of a combat.                                            *)

\* A combat that waits for a choice is the same combat.
LEMMA PendingFields ==
  ASSUME NEW c \in Combat, NEW choice \in Choice
  PROVE  /\ Pending(c, choice) \in Combat
         /\ Pending(c, choice).attackers = c.attackers
         /\ Pending(c, choice).defenders = c.defenders
         /\ Pending(c, choice).attackerHexes = c.attackerHexes
         /\ Pending(c, choice).defenderHexes = c.defenderHexes
         /\ Pending(c, choice).status = "pending_choice"
         /\ Pending(c, choice).result = c.result
         /\ Pending(c, choice).losses = c.losses
         /\ Pending(c, choice).lossAllocated = c.lossAllocated
         /\ Pending(c, choice).retreated = c.retreated
         /\ Pending(c, choice).choice = choice
BY DEF Pending, Combat

\* No choice is a choice.
LEMMA NoChoiceType == NoChoice \in Choice /\ NoChoice.units = {} /\ NoChoice.kind = "none"
  BY DEF NoChoice, Choice

\* A combat that is over is the same combat.
LEMMA ResolvedFields ==
  ASSUME NEW c \in Combat
  PROVE  /\ Resolved(c) \in Combat
         /\ Resolved(c).attackers = c.attackers
         /\ Resolved(c).defenders = c.defenders
         /\ Resolved(c).attackerHexes = c.attackerHexes
         /\ Resolved(c).defenderHexes = c.defenderHexes
         /\ Resolved(c).status = "resolved"
         /\ Resolved(c).choice = NoChoice
BY NoChoiceType DEF Resolved, Combat

\* It is the same combat.
Continues(c, d) ==
  /\ d \in Combat
  /\ d.attackers = c.attackers /\ d.defenders = c.defenders
  /\ d.attackerHexes = c.attackerHexes /\ d.defenderHexes = c.defenderHexes

\* The combat counters of the loser's that are in its hexes are the losers.
LosersHome(p, side, c) ==
  \A u \in Unit : p[u].status = "deployed" /\ ~General(u) /\ SideOf[u] = Beaten(side, c) =>
                    (u \in Losers(c) <=> p[u].location \in LoserHexes(c))

\* A combat that waits for what comes next.
IsDecided(p, side, c) ==
  /\ c.result \in {"attacker_win", "defender_win"}
  /\ c.attackers \subseteq Combatants(Army(side))
  /\ c.defenders \subseteq Combatants(Army(OtherSide(side)))
  /\ c.result = "attacker_win" => Held(p, c.attackers, c.attackerHexes)
  /\ ~c.lossAllocated /\ c.losses > 0 => ~c.retreated /\ Held(p, Losers(c), LoserHexes(c))
  /\ ~c.lossAllocated /\ c.losses > 0 => c.losses <= StepsOf(p, Losers(c))
  /\ c.retreated \/ LosersHome(p, side, c)
  /\ c.retreated \/ Led(p, Stacked(p, Losers(c), Beaten(side, c), LoserHexes(c)))

\* Whoever a choice is newly about is there, or is a combat counter.
AreThere(p, counters) == \A u \in counters : General(u) => p[u].status = "deployed"

\* Who loses and where depends on the result alone.
LEMMA SameInCombat ==
  ASSUME NEW c, NEW d, c.result = d.result, c.attackers = d.attackers, c.defenders = d.defenders,
         c.attackerHexes = d.attackerHexes, c.defenderHexes = d.defenderHexes, NEW side
  PROVE  Losers(c) = Losers(d) /\ LoserHexes(c) = LoserHexes(d) /\ Beaten(side, c) = Beaten(side, d)
BY DEF Losers, LoserHexes, Beaten

\* nextChoice leaves a combat in a stage that the board bears out.
LEMMA NextChoiceStage ==
  ASSUME NEW p, IsPosition(p), IsLegal(p), NEW c \in Combat, activeSide \in Side,
         IsDecided(p, activeSide, c)
  PROVE  /\ Continues(c, NextChoice(p, c))
         /\ InStage(p, activeSide, NextChoice(p, c))
         /\ AreThere(p, NextChoice(p, c).choice.units)
<1> DEFINE loser == Beaten(activeSide, c)
           retreating == Stacked(p, Losers(c), LosingSide(c), LoserHexes(c))
           winners == c.attackers \cap Deployed(p)
           advancing == Stacked(p, winners, activeSide, {p[u].location : u \in winners})
           loss == [kind |-> "loss", side |-> LosingSide(c), count |-> c.losses,
                    units |-> Losers(c), hexes |-> {}]
           retreat == [kind |-> "retreat", side |-> LosingSide(c), count |-> 0,
                       units |-> retreating, hexes |-> {}]
           advance == [kind |-> "advance", side |-> activeSide, count |-> 0,
                       units |-> advancing, hexes |-> Vacated(p, c)]
<1>1. LosingSide(c) = loser /\ loser \in Side
  BY DEF LosingSide, Beaten, OtherSide, Side
<1>2. /\ c.attackers \in SUBSET Unit /\ c.defenders \in SUBSET Unit
      /\ c.attackerHexes \in SUBSET Hex /\ c.defenderHexes \in SUBSET Hex
      /\ c.losses \in 0..2 /\ c.lossAllocated \in BOOLEAN /\ c.retreated \in BOOLEAN
  BY DEF Combat
<1>3. Losers(c) \in SUBSET Unit /\ LoserHexes(c) \in SUBSET Hex
  BY <1>2 DEF Losers, LoserHexes
<1>4. \A u \in Losers(c) : ~General(u) /\ SideOf[u] = loser
  BY DEF IsDecided, Losers, Beaten, Combatants, Army
<1>5. retreating \in SUBSET Unit /\ advancing \in SUBSET Unit /\ Vacated(p, c) \in SUBSET Hex
  BY <1>2, <1>3 DEF Stacked, Vacated, Deployed
<1>6. p \in [Unit -> UnitState]
  BY DEF IsPosition
<1>a. CASE ~c.lossAllocated /\ c.losses > 0
  <2>1. NextChoice(p, c) = Pending(c, loss)
    BY <1>a DEF NextChoice
  <2>2. loss \in Choice /\ loss.units = Losers(c) /\ loss.side = loser /\ loss.kind = "loss"
        /\ loss.count = c.losses
    BY <1>1, <1>2, <1>3 DEF Choice
  <2> HIDE DEF loss
  <2> DEFINE d == Pending(c, loss)
  <2>3. Continues(c, d) /\ d.choice = loss /\ d.result = c.result
        /\ d.status = "pending_choice" /\ d.retreated = c.retreated
    BY <2>2, PendingFields DEF Continues
  <2> HIDE DEF d
  <2>4. Losers(c) = Losers(d) /\ LoserHexes(c) = LoserHexes(d)
        /\ Beaten(activeSide, c) = Beaten(activeSide, d)
    BY <2>3, SameInCombat DEF Continues
  <2>5. InStage(p, activeSide, d)
    <3>1. d.choice.count <= StepsOf(p, d.choice.units)
      BY <1>a, <2>2, <2>3 DEF IsDecided
    <3> QED BY <1>a, <2>2, <2>3, <2>4, <3>1 DEF InStage, IsDecided, Continues
  <2>6. AreThere(p, d.choice.units)
    BY <1>4, <2>2, <2>3 DEF AreThere
  <2> QED BY <2>1, <2>3, <2>5, <2>6 DEF d
<1>b. CASE ~(~c.lossAllocated /\ c.losses > 0) /\ ~c.retreated /\ retreating # {}
  <2>1. NextChoice(p, c) = Pending(c, retreat)
    BY <1>b DEF NextChoice
  <2>2. retreat \in Choice /\ retreat.units = retreating /\ retreat.side = loser
        /\ retreat.kind = "retreat"
    BY <1>1, <1>5 DEF Choice
  <2>3. ASSUME NEW u \in retreating
        PROVE  /\ u \in Unit /\ p[u].status = "deployed" /\ SideOf[u] = loser
               /\ p[u].location \in LoserHexes(c)
               /\ ~General(u) => u \in Losers(c)
    <3>1. u \in Unit /\ p[u].status = "deployed" /\ SideOf[u] = loser
      BY <1>1, <1>3, <1>4 DEF Stacked, Deployed, Army
    <3>2. LosersHome(p, activeSide, c)
      BY <1>b DEF IsDecided
    <3>3. u \in Losers(c) \/ p[u].location \in LoserHexes(c)
      BY DEF Stacked
    <3> QED BY <1>4, <3>1, <3>2, <3>3 DEF LosersHome
  <2>4. AreWholeStacks(p, retreating)
    <3> SUFFICES ASSUME NEW u \in retreating, NEW w \in At(p, p[u].location)
                 PROVE  w \in retreating
      BY DEF AreWholeStacks
    <3>1. p[u].location \in LoserHexes(c) /\ p[u].location \in Hex /\ u \in At(p, p[u].location)
      BY <1>3, <2>3 DEF At, Deployed
    <3>2. SideOf[w] = SideOf[u]
      BY <3>1 DEF IsLegal
    <3>3. w \in Deployed(p) \cap Army(LosingSide(c)) /\ p[w].location \in LoserHexes(c)
      BY <1>1, <2>3, <3>1, <3>2 DEF At, Deployed, Army
    <3> QED BY <3>3 DEF Stacked
  <2>5. Standing(p, retreating, loser, Losers(c), LoserHexes(c))
    BY <2>3 DEF Standing
  <2>5a. Led(p, retreating)
    BY <1>1, <1>b DEF IsDecided
  <2>5b. retreating # {}
    BY <1>b
  <2> HIDE DEF retreat, retreating, loser
  <2> DEFINE d == Pending(c, retreat)
  <2>6. Continues(c, d) /\ d.choice = retreat /\ d.result = c.result
        /\ d.status = "pending_choice" /\ d.lossAllocated = c.lossAllocated /\ d.losses = c.losses
    BY <2>2, PendingFields DEF Continues
  <2> HIDE DEF d
  <2>7. Losers(c) = Losers(d) /\ LoserHexes(c) = LoserHexes(d)
        /\ Beaten(activeSide, c) = Beaten(activeSide, d)
    BY <2>6, SameInCombat DEF Continues
  <2>8. d.lossAllocated \/ d.losses = 0
    BY <1>2, <1>b, <2>6
  <2>9. d.result = "attacker_win" => Held(p, d.attackers, d.attackerHexes)
    BY <2>6 DEF IsDecided, Continues
  <2>10. d.result \in {"attacker_win", "defender_win"}
    BY <2>6 DEF IsDecided
  <2>11. InStage(p, activeSide, d)
    BY <2>2, <2>4, <2>5, <2>5a, <2>5b, <2>6, <2>7, <2>8, <2>9, <2>10 DEF InStage, loser
  <2>12. AreThere(p, d.choice.units)
    BY <2>2, <2>3, <2>6 DEF AreThere
  <2> QED BY <2>1, <2>6, <2>11, <2>12 DEF d
<1>c. CASE /\ ~(~c.lossAllocated /\ c.losses > 0)
           /\ ~(~c.retreated /\ retreating # {})
           /\ c.result = "attacker_win" /\ advancing # {} /\ Vacated(p, c) # {}
  <2>1. NextChoice(p, c) = Pending(c, advance)
    BY <1>c DEF NextChoice
  <2>2. advance \in Choice /\ advance.units = advancing /\ advance.side = activeSide
        /\ advance.kind = "advance" /\ advance.hexes = Vacated(p, c)
    <3>1. activeSide \in Side \cup {"none"} /\ 0 \in 0..2
      OBVIOUS
    <3> HIDE DEF advancing
    <3> QED BY <1>5, <3>1 DEF Choice
  <2>3. Held(p, c.attackers, c.attackerHexes)
    BY <1>c DEF IsDecided
  <2>4. ASSUME NEW u \in advancing
        PROVE  /\ u \in Unit /\ p[u].status = "deployed" /\ SideOf[u] = activeSide
               /\ p[u].location \in c.attackerHexes
               /\ ~General(u) => u \in c.attackers
    <3>1. u \in Unit /\ p[u].status = "deployed"
      BY <1>2 DEF Stacked, Deployed
    <3>2. SideOf[u] = activeSide
      BY DEF IsDecided, Stacked, Combatants, Army
    <3>3. p[u].location \in c.attackerHexes
      BY <2>3 DEF Held, Stacked
    <3>4. ~General(u) => u \in c.attackers
      BY <2>3, <3>1, <3>3 DEF Held, Combatants, Deployed
    <3> QED BY <3>1, <3>2, <3>3, <3>4
  <2>5. Standing(p, advancing, activeSide, c.attackers, c.attackerHexes)
    BY <2>4 DEF Standing
  <2> HIDE DEF advance, advancing
  <2> DEFINE d == Pending(c, advance)
  <2>6. Continues(c, d) /\ d.choice = advance /\ d.result = c.result /\ d.status = "pending_choice"
    BY <2>2, PendingFields DEF Continues
  <2> HIDE DEF d
  <2>7. Vacated(p, c) \subseteq c.defenderHexes
    BY DEF Vacated
  <2>8. InStage(p, activeSide, d)
    BY <1>c, <2>2, <2>3, <2>5, <2>6, <2>7 DEF InStage, Continues
  <2>9. AreThere(p, d.choice.units)
    BY <2>2, <2>4, <2>6 DEF AreThere
  <2> QED BY <2>1, <2>6, <2>8, <2>9 DEF d
<1>d. CASE /\ ~(~c.lossAllocated /\ c.losses > 0)
           /\ ~(~c.retreated /\ retreating # {})
           /\ ~(c.result = "attacker_win" /\ advancing # {} /\ Vacated(p, c) # {})
  <2>1. NextChoice(p, c) = Resolved(c)
    BY <1>d DEF NextChoice
  <2> DEFINE d == Resolved(c)
  <2>2. Continues(c, d) /\ d.choice = NoChoice /\ d.status = "resolved"
    BY ResolvedFields DEF Continues
  <2> HIDE DEF d
  <2>3. InStage(p, activeSide, d) /\ AreThere(p, d.choice.units)
    BY <2>2, NoChoiceType DEF InStage, AreThere
  <2> QED BY <2>1, <2>2, <2>3 DEF d
<1> QED BY <1>a, <1>b, <1>c, <1>d

\* The counters committed to a combat.
Fights(c) == c.attackers \cup c.defenders
\* Combats without a counter or a hex in common.
Apart(c, d) == Fights(c) \cap Fights(d) = {} /\ Hexes(c) \cap Hexes(d) = {}

\* Whom a choice is about.
LEMMA ChoiceFacts ==
  ASSUME NEW p, NEW side, NEW c \in Combat, InStage(p, side, c),
         NEW u \in c.choice.units
  PROVE  /\ ~General(u) => u \in Fights(c)
         /\ p[u].status = "deployed" => p[u].location \in Hexes(c)
<1>1. c.status = "pending_choice"
  <2>1. c.status \in {"awaiting_result_confirmation", "pending_choice", "resolved"}
    BY DEF Combat
  <2> QED BY <2>1, NoChoiceType DEF InStage
<1>2. Losers(c) \subseteq Fights(c) /\ LoserHexes(c) \subseteq Hexes(c)
      /\ c.attackerHexes \subseteq Hexes(c) /\ c.attackers \subseteq Fights(c)
  BY DEF Losers, LoserHexes, Hexes, Fights
<1>3. CASE c.choice.kind = "loss"
  <2>1. u \in Losers(c) /\ Held(p, Losers(c), LoserHexes(c))
    BY <1>1, <1>3 DEF InStage
  <2> QED BY <1>2, <2>1 DEF Held
<1>4. CASE c.choice.kind = "retreat"
  <2>1. Standing(p, c.choice.units, Beaten(side, c), Losers(c), LoserHexes(c))
    BY <1>1, <1>4 DEF InStage
  <2> QED BY <1>2, <2>1 DEF Standing
<1>5. CASE c.choice.kind = "advance"
  <2>1. Standing(p, c.choice.units, side, c.attackers, c.attackerHexes)
    BY <1>1, <1>5 DEF InStage
  <2> QED BY <1>2, <2>1 DEF Standing
<1> QED BY <1>1, <1>3, <1>4, <1>5 DEF InStage

\* The combats of a phase are such.
LEMMA PartedFacts ==
  ASSUME CombatsAreParted, activeSide \in Side, NEW c \in combats
  PROVE  /\ \A u \in Fights(c) : u \in Unit /\ ~General(u)
         /\ \A d \in combats : c # d => Apart(c, d)
<1>1. \A d \in combats : /\ d.attackers \subseteq Combatants(Army(activeSide))
                         /\ d.defenders \subseteq Combatants(Army(OtherSide(activeSide)))
  BY DEF CombatsAreParted
<1>2. \A u \in Fights(c) : u \in Unit /\ ~General(u)
  BY <1>1 DEF Fights, Combatants, Army
<1>3. ASSUME NEW d \in combats, c # d PROVE Apart(c, d)
  <2>1. c.attackers \cap d.defenders = {} /\ c.defenders \cap d.attackers = {}
    BY <1>1 DEF Combatants, Army, OtherSide, Side
  <2>2. AreParted(c, d) /\ c.attackerHexes \cap d.defenderHexes = {}
        /\ d.attackerHexes \cap c.defenderHexes = {}
    BY <1>3 DEF CombatsAreParted
  <2> QED BY <2>1, <2>2 DEF Apart, AreParted, Fights, Hexes
<1> QED BY <1>2, <1>3

\* Nobody is in two combats' choices who was not before.
LEMMA NewChoiceIsApart ==
  ASSUME NEW p, NEW side, NEW c \in Combat, NEW d \in Combat, Apart(c, d),
         \A u \in Fights(d) : ~General(u),
         InStage(p, side, c), InStage(p, side, d), AreThere(p, c.choice.units)
  PROVE  c.choice.units \cap (Fights(d) \cup d.choice.units) = {}
<1> SUFFICES ASSUME NEW u \in c.choice.units, u \in Fights(d) \cup d.choice.units
             PROVE  FALSE
  OBVIOUS
<1>1. /\ ~General(u) => u \in Fights(c)
      /\ p[u].status = "deployed" => p[u].location \in Hexes(c)
  BY ChoiceFacts
<1>2. u \in d.choice.units =>
        /\ ~General(u) => u \in Fights(d)
        /\ p[u].status = "deployed" => p[u].location \in Hexes(d)
  BY ChoiceFacts
<1>3. CASE General(u)
  BY <1>1, <1>2, <1>3 DEF AreThere, Apart
<1>4. CASE ~General(u)
  BY <1>1, <1>2, <1>4 DEF Apart
<1> QED BY <1>3, <1>4

-----------------------------------------------------------------------------
(* One combat goes on and the others do not notice.                        *)

Minds(q, M, d) ==
  M \cap (Fights(d) \cup d.choice.units) = {} /\ Elsewhere(q, M, Hexes(d))

\* A command of one combat keeps what holds of all.
LEMMA CombatStep ==
  ASSUME TypeOK, CombatInv, NEW c \in combats, NEW next, NEW q, IsPosition(q), NEW M \in SUBSET Unit,
         Follows(units, q, M), Continues(c, next), InStage(q, activeSide, next),
         AreThere(q, next.choice.units), \A d \in combats \ {c} : Minds(q, M, d),
         \A u \in M : ~General(u) => u \in Fights(c),
         Replace(c, next), units' = Settled(q), activeSide' = activeSide, phase' = phase
  PROVE  CombatInv' /\ combats' \in SUBSET Combat
<1> DEFINE s == Settled(q)
<1>1. /\ units \in [Unit -> UnitState] /\ q \in [Unit -> UnitState]
      /\ combats \in SUBSET Combat /\ next \in Combat /\ c \in Combat
      /\ activeSide \in Side /\ phase = "combat" /\ CombatsAreParted
  BY DEF TypeOK, IsPosition, Continues, CombatInv
<1>2. combats' = (combats \ {c}) \cup {next}
  BY DEF Replace
<1>3. s \in [Unit -> UnitState] /\ Follows(q, s, {})
  BY <1>1, SettledFields
<1>4. Fights(next) = Fights(c) /\ Hexes(next) = Hexes(c)
  BY DEF Continues, Fights, Hexes
<1>5. \A d \in combats \ {c} : Apart(next, d) /\ \A u \in Fights(d) : ~General(u)
  <2> TAKE d \in combats \ {c}
  <2>1. Apart(c, d) /\ \A u \in Fights(d) : ~General(u)
    BY <1>1, PartedFacts
  <2> QED BY <1>4, <2>1 DEF Apart
<1>6. \A d \in combats \ {c} : InStage(q, activeSide, d)
  <2> TAKE d \in combats \ {c}
  <2>1. InStage(units, activeSide, d) /\ d \in Combat
    BY <1>1 DEF CombatInv
  <2>2. /\ M \cap (d.attackers \cup d.defenders \cup d.choice.units) = {}
        /\ Elsewhere(q, M, Hexes(d))
    BY DEF Minds, Fights
  <2> QED BY <1>1, <2>1, <2>2, StageStays
<1>7. \A d \in combats' : InStage(q, activeSide, d) /\ d \in Combat
  BY <1>1, <1>2, <1>6
<1>8. ASSUME NEW d \in combats' PROVE InStage(s, activeSide, d)
  <2>1. InStage(q, activeSide, d) /\ d \in Combat
    BY <1>7
  <2>2. /\ {} \cap (d.attackers \cup d.defenders \cup d.choice.units) = {}
        /\ Elsewhere(s, {}, Hexes(d))
    BY DEF Elsewhere
  <2> HIDE DEF s
  <2> QED BY <1>1, <1>3, <2>1, <2>2, StageStays
<1> HIDE DEF s
<1>9. CombatsAreParted'
  <2>1. ASSUME NEW d \in combats'
        PROVE  \E e \in combats :
                 /\ d.attackers = e.attackers /\ d.defenders = e.defenders
                 /\ d.attackerHexes = e.attackerHexes /\ d.defenderHexes = e.defenderHexes
                 /\ d = next => e = c
                 /\ d # next => e = d /\ e # c
    BY <1>2 DEF Continues
  <2>2. ASSUME NEW d \in combats'
        PROVE  /\ d.attackers \subseteq Combatants(Army(activeSide))
               /\ d.defenders \subseteq Combatants(Army(OtherSide(activeSide)))
               /\ d.attackerHexes # {}
    BY <1>1, <2>1 DEF CombatsAreParted
  <2>3. ASSUME NEW d \in combats', NEW e \in combats'
        PROVE  d.attackerHexes \cap e.defenderHexes = {}
    BY <1>1, <2>1 DEF CombatsAreParted
  <2>4. ASSUME NEW d \in combats', NEW e \in combats', d # e
        PROVE  AreParted(d, e)
    <3>1. PICK x \in combats :
                 /\ d.attackers = x.attackers /\ d.defenders = x.defenders
                 /\ d.attackerHexes = x.attackerHexes /\ d.defenderHexes = x.defenderHexes
                 /\ d = next => x = c
                 /\ d # next => x = d /\ x # c
      BY <2>1
    <3>2. PICK y \in combats :
                 /\ e.attackers = y.attackers /\ e.defenders = y.defenders
                 /\ e.attackerHexes = y.attackerHexes /\ e.defenderHexes = y.defenderHexes
                 /\ e = next => y = c
                 /\ e # next => y = e /\ y # c
      BY <2>1
    <3>3. x # y
      BY <2>4, <3>1, <3>2
    <3>4. AreParted(x, y)
      BY <1>1, <3>3 DEF CombatsAreParted
    <3> QED BY <3>1, <3>2, <3>4 DEF AreParted
  <2> QED BY <2>2, <2>3, <2>4 DEF CombatsAreParted
<1>10. ChoicesAreApart'
  <2>1. ASSUME NEW d \in combats \ {c}
        PROVE  next.choice.units \cap d.choice.units = {}
    <3>1. d \in Combat /\ InStage(q, activeSide, d) /\ Apart(next, d)
          /\ \A u \in Fights(d) : ~General(u)
      BY <1>1, <1>5, <1>6
    <3>2. next.choice.units \cap (Fights(d) \cup d.choice.units) = {}
      BY <1>1, <3>1, NewChoiceIsApart
    <3> QED BY <3>2
  <2>2. ASSUME NEW d \in combats \ {c}, NEW e \in combats \ {c}, d # e
        PROVE  d.choice.units \cap e.choice.units = {}
    BY <2>2 DEF CombatInv, ChoicesAreApart
  <2>3. ASSUME NEW d \in combats', NEW e \in combats', d # e
        PROVE  d.choice.units \cap e.choice.units = {}
    BY <1>2, <2>1, <2>2, <2>3
  <2> QED BY <2>3 DEF ChoicesAreApart
<1>11. EveryContactIsFought'
  <2> DEFINE idle == Combatants(Deployed(units)) \ UNION {d.attackers \cup d.defenders : d \in combats}
             after == Combatants(Deployed(s)) \ UNION {d.attackers \cup d.defenders : d \in combats'}
  <2>1. UNION {d.attackers \cup d.defenders : d \in combats}
          = UNION {d.attackers \cup d.defenders : d \in combats'}
    BY <1>2 DEF Continues
  <2>2. ASSUME NEW u \in after PROVE u \in idle /\ s[u] = units[u] /\ u \in Unit
    <3>1. u \in Unit /\ ~General(u) /\ s[u].status = "deployed"
      BY DEF Combatants, Deployed
    <3>2. u \notin Fights(c)
      BY <2>1 DEF Fights
    <3>3. u \notin M /\ u \notin {}
      BY <3>1, <3>2
    <3>4. q[u] = units[u]
      BY <1>1, <3>1, <3>3, Remains
    <3>5. s[u] = q[u]
      BY <1>1, <1>3, <3>1, <3>3, Remains
    <3> QED BY <2>1, <3>1, <3>4, <3>5 DEF Combatants, Deployed
  <2>3. \A u \in idle \cap Army(activeSide), w \in idle \ Army(activeSide) :
           units[w].location \notin AdjacentHexes[units[u].location]
    BY <1>1 DEF CombatInv, EveryContactIsFought
  <2> HIDE DEF idle, after
  <2>4. \A u \in after \cap Army(activeSide), w \in after \ Army(activeSide) :
           s[w].location \notin AdjacentHexes[s[u].location]
    BY <2>2, <2>3
  <2> QED BY <2>4 DEF after, s, EveryContactIsFought
<1>12. \A d \in combats' : InStage(units, activeSide, d)'
  BY <1>8 DEF s
<1> QED BY <1>1, <1>2, <1>9, <1>10, <1>11, <1>12 DEF CombatInv

-----------------------------------------------------------------------------
(* Commands of the movement phase.                                         *)

\* The inductive invariant of the game.
WarInv == TypeOK /\ PositionInv /\ CombatInv

\* accepted
LEMMA Lands ==
  ASSUME NEW q, IsPosition(q), IsLegal(q), IsControlled(q, control'), units' = Settled(q)
  PROVE  PositionInv'
<1>1. IsPosition(Settled(q)) /\ IsLegal(Settled(q)) /\ IsControlled(Settled(q), control')
  BY SettledHolds
<1>2. IsSettled(Settled(q))
  BY NobodyLoneIsLeft DEF IsPosition
<1> DEFINE s == Settled(q)
<1> HIDE DEF s
<1>3. IsPosition(s) /\ IsLegal(s) /\ IsControlled(s, control') /\ IsSettled(s) /\ units' = s
  BY <1>1, <1>2 DEF s
<1> QED BY <1>3 DEF PositionInv, IsPosition, IsLegal, IsControlled, IsSettled

\* No combat, no claim.
LEMMA NoCombats ==
  ASSUME combats' = {}, phase' # "combat"
  PROVE  CombatInv'
BY DEF CombatInv, CombatsAreParted, ChoicesAreApart, EveryContactIsFought

\* Control passes from side to side.
LEMMA ControlType ==
  ASSUME NEW held \in [Objective -> Side], NEW hexes, NEW side \in Side
  PROVE  Controlled(held, hexes, side) \in [Objective -> Side]
BY DEF Controlled

\* The hex a stack stands in.
LEMMA SourceIs ==
  ASSUME NEW p, NEW ids, NEW h, ids # {}, ids \subseteq At(p, h)
  PROVE  Source(p, ids) = h
<1>1. (CHOOSE u \in ids : TRUE) \in ids
  OBVIOUS
<1> QED BY <1>1, StandsAt DEF Source

\* The ledger of move groups is one again (completeNormalMove).
LEMMA LedgerType ==
  ASSUME ledger \in Ledger, NEW ids \in SUBSET Unit
  PROVE  LedgerAfter(ledger, ids) \in Ledger
BY DEF LedgerAfter, Ledger

\* Stacks, and counters that go together.
LEMMA StackOfSide ==
  ASSUME NEW side, NEW movers \in Stacks(side)
  PROVE  movers \in SUBSET Army(side) /\ movers \in SUBSET Unit
<1>1. PICK h \in Hex : movers \in SUBSET (At(units, h) \cap Army(side))
  BY DEF Stacks
<1> QED BY <1>1 DEF Army

\* moveUnit and moveStack keep the invariant.
LEMMA MovePosition ==
  ASSUME WarInv, NEW side \in Side, NEW movers \in Stacks(side), NEW destination \in Hex,
         Move(side, movers, destination)
  PROVE  WarInv'
<1>1. /\ units \in [Unit -> UnitState] /\ control \in [Objective -> Side]
      /\ IsPosition(units) /\ IsSettled(units) /\ IsLegal(units) /\ IsControlled(units, control)
      /\ ledger \in Ledger
  BY DEF WarInv, TypeOK, PositionInv
<1>2. PICK origin \in Hex : movers \subseteq At(units, origin) /\ movers # {}
  BY DEF Move, MayMoveTo, GroupMayMove
<1>3. Source(units, movers) = origin
  BY <1>2, SourceIs
<1>4. movers \in SUBSET Army(side) /\ movers \in SUBSET Unit
  BY StackOfSide
<1>5. SetsOut(units, side, movers, origin)
  BY <1>1, <1>2, <1>4 DEF SetsOut
<1>6. PICK route \in Routes(units, night, side, movers, origin, destination) :
           /\ units' = Settled(AfterMove(units, movers, route))
           /\ control' = Controlled(control, Entered(route), side)
  BY <1>3 DEF Move, RoutesTo, Accept
<1>7. origin # destination
  BY <1>3 DEF Move, MayMoveTo
<1>8. /\ IsRoute(route, origin, Hex \ EnemyOccupied(units, side, movers))
      /\ Len(route) >= 2 /\ route[Len(route)] = destination
  BY <1>7, RoutesAreRoutes
<1> DEFINE q == AfterMove(units, movers, route)
<1>9. Arrived(units, q, side, movers, route) /\ Afresh(q, units, movers, destination)
  BY <1>5, <1>8, MoveArrives
<1>10. route \in Seq(Hex) /\ Len(route) >= 1
  BY <1>8 DEF IsRoute
<1> HIDE DEF q
<1>11. IsLegal(q)
  <2>1. StackFits(movers \cup (At(units, destination) \cap Army(side)))
    BY DEF Move, MayMoveTo
  <2>2. StackFits(At(units, origin) \ movers)
    BY <1>3 DEF Move, MayMoveTo
  <2> QED BY <1>1, <1>5, <1>7, <1>8, <1>9, <1>10, <2>1, <2>2, ArrivedIsLegal
<1>12. IsControlled(q, control')
  BY <1>1, <1>5, <1>6, <1>9, <1>10, ArrivedIsControlled
<1>13. IsPosition(q)
  BY <1>9 DEF Arrived, OnTheWay
<1>14. PositionInv'
  BY <1>6, <1>11, <1>12, <1>13, Lands DEF q
<1>15. CombatInv'
  <2>1. combats = {} /\ combats' = combats /\ phase' = "movement"
    BY DEF Move, WarInv, CombatInv
  <2> QED BY <2>1, NoCombats
<1>16. TypeOK'
  <2>1. units' \in [Unit -> UnitState]
    BY <1>14 DEF PositionInv, IsPosition
  <2>2. control' \in [Objective -> Side]
    BY <1>1, <1>6, ControlType
  <2>3. ledger' \in Ledger
    BY <1>1, <1>4, LedgerType DEF Move
  <2> QED BY <2>1, <2>2, <2>3 DEF TypeOK, WarInv, Move
<1> QED BY <1>14, <1>15, <1>16 DEF WarInv

-----------------------------------------------------------------------------
(* Some counters get another state.                                        *)

\* Some counters stand in another hex, with the steps they had.
PlacedAt(p, q, ids, d) ==
  /\ q \in [Unit -> UnitState]
  /\ \A u \in Unit \ ids : q[u] = p[u]
  /\ \A u \in ids : q[u].status = "deployed" /\ q[u].location = d /\ q[u].steps = p[u].steps

\* A stack comes to a hex where it fits.
LEMMA PlacedPosition ==
  ASSUME NEW p, IsPosition(p), IsLegal(p), NEW q,
         NEW side \in Side, NEW ids \in SUBSET Army(side), NEW d \in Hex,
         PlacedAt(p, q, ids, d), \A u \in ids : p[u].steps # 0,
         At(p, d) \subseteq Army(side), StackFits(At(p, d) \cup ids),
         \A h \in Hex \ {d} : StackFits(At(p, h) \ ids),
         NEW held \in [Objective -> Side], IsControlled(p, held)
  PROVE  /\ IsPosition(q)
         /\ IsLegal(q)
         /\ IsControlled(q, Controlled(held, {d}, side))
<1> USE DEF PlacedAt
<1>1. ids \in SUBSET Unit /\ \A u \in ids : SideOf[u] = side
  BY DEF Army
<1>2. IsPosition(q)
  BY <1>1 DEF IsPosition, Deployed
<1>3. ASSUME NEW h \in Hex PROVE StackFits(At(q, h)) /\ OneSided(At(q, h))
  <2>1. CASE h = d
    <3>1. At(q, d) = At(p, d) \cup ids
      BY <1>1 DEF At, Deployed
    <3>2. OneSided(At(q, d))
      BY <1>1, <3>1 DEF OneSided, Army
    <3> QED BY <2>1, <3>1, <3>2
  <2>2. CASE h # d
    <3>1. At(q, h) = At(p, h) \ ids
      BY <1>1, <2>2 DEF At, Deployed
    <3>2. OneSided(At(q, h))
      BY <3>1 DEF OneSided, IsLegal
    <3> QED BY <2>2, <3>1, <3>2
  <2> QED BY <2>1, <2>2
<1>4. IsLegal(q)
  BY <1>3 DEF IsLegal, OneSided
<1>5. ASSUME NEW u \in Unit, q[u].status = "deployed", q[u].location \in Objective
      PROVE  Controlled(held, {d}, side)[q[u].location] = SideOf[u]
  <2>1. Controlled(held, {d}, side)[q[u].location]
          = IF q[u].location = d THEN side ELSE held[q[u].location]
    BY <1>5 DEF Controlled
  <2>2. CASE u \in ids
    BY <1>1, <2>1, <2>2
  <2>3. CASE u \notin ids
    <3>1. q[u] = p[u] /\ u \in Deployed(p)
      BY <1>5, <2>3 DEF Deployed
    <3>2. CASE q[u].location = d
      BY <2>1, <3>1, <3>2 DEF At, Army
    <3>3. CASE q[u].location # d
      BY <1>5, <2>1, <3>1, <3>3 DEF IsControlled
    <3> QED BY <3>2, <3>3
  <2> QED BY <2>2, <2>3
<1>6. IsControlled(q, Controlled(held, {d}, side))
  BY <1>5 DEF IsControlled, Deployed
<1> QED BY <1>2, <1>4, <1>6

\* Reinforcements in their entry hex (enterReinforcement).
Entering(p, ids, d) ==
  Updated(p, [u \in ids |-> [p[u] EXCEPT !.status = "deployed", !.location = d, !.spent = 1]])

\* They are there.
LEMMA EnteredStates ==
  ASSUME NEW p \in [Unit -> UnitState], NEW ids \in SUBSET Unit, NEW d \in Hex
  PROVE  PlacedAt(p, Entering(p, ids, d), ids, d)
<1> DEFINE ch == [u \in ids |-> [p[u] EXCEPT !.status = "deployed", !.location = d, !.spent = 1]]
<1>1. ASSUME NEW u \in ids
      PROVE  /\ ch[u] \in UnitState /\ ch[u].status = "deployed" /\ ch[u].location = d
             /\ ch[u].steps = p[u].steps
  <2> DEFINE x == [p[u] EXCEPT !.status = "deployed", !.location = d, !.spent = 1]
  <2>1. p[u] \in UnitState
    OBVIOUS
  <2>2. x \in UnitState /\ x.status = "deployed" /\ x.location = d /\ x.steps = p[u].steps
    BY <2>1 DEF UnitState
  <2>3. ch[u] = x
    OBVIOUS
  <2> HIDE DEF x, ch
  <2> QED BY <2>2, <2>3
<1>2. DOMAIN ch = ids
  OBVIOUS
<1> HIDE DEF ch
<1>3. Updated(p, ch) \in [Unit -> UnitState]
  BY <1>1, <1>2, UpdatedIsTyped
<1>4. /\ \A u \in Unit \ ids : Updated(p, ch)[u] = p[u]
      /\ \A u \in ids : Updated(p, ch)[u] = ch[u]
  BY <1>2 DEF Updated
<1> DEFINE q == Updated(p, ch)
<1> HIDE DEF q
<1>5. /\ q \in [Unit -> UnitState]
      /\ \A u \in Unit \ ids : q[u] = p[u]
      /\ \A u \in ids : q[u].status = "deployed" /\ q[u].location = d /\ q[u].steps = p[u].steps
  BY <1>1, <1>3, <1>4 DEF q
<1> QED BY <1>5 DEF q, ch, Entering, PlacedAt

\* enterReinforcement and enterReinforcementStack keep the invariant.
LEMMA EnterPosition ==
  ASSUME WarInv, NEW side \in Side, NEW arriving \in SUBSET {u \in Army(side) : units[u].status = "reinforcement"},
         NEW destination \in EdgeHexes, EnterReinforcement(side, arriving, destination)
  PROVE  WarInv'
<1>1. /\ units \in [Unit -> UnitState] /\ control \in [Objective -> Side]
      /\ IsPosition(units) /\ IsLegal(units) /\ IsControlled(units, control)
      /\ ledger \in Ledger
  BY DEF WarInv, TypeOK, PositionInv
<1>2. /\ arriving \in SUBSET Army(side) /\ arriving \in SUBSET Unit /\ arriving # {}
      /\ destination \in Hex /\ \A u \in arriving : units[u].status = "reinforcement"
  BY BoardAssumption DEF Army, EnterReinforcement, MayEnter
<1> DEFINE q == Entering(units, arriving, destination)
<1>3. units' = Settled(q) /\ control' = Controlled(control, {destination}, side)
  BY DEF EnterReinforcement, Accept, Entering
<1>4. PlacedAt(units, q, arriving, destination)
  BY <1>1, <1>2, EnteredStates
<1> HIDE DEF q
<1>5. \A u \in arriving : units[u].steps # 0
  BY <1>1, <1>2 DEF IsPosition
<1>6. At(units, destination) \subseteq Army(side)
  <2>1. PICK u \in arriving : destination \in EntryHexesNow(u)
    BY <1>2 DEF EnterReinforcement, MayEnter
  <2>2. SideOf[u] = side
    BY <1>2 DEF Army
  <2>3. destination \notin {units[e].location : e \in Deployed(units) \ Army(SideOf[u])}
    BY <2>1 DEF EntryHexesNow
  <2> QED BY <2>2, <2>3 DEF At, Deployed, Army
<1>7. \A h \in Hex \ {destination} : StackFits(At(units, h) \ arriving)
  <2> TAKE h \in Hex \ {destination}
  <2>1. At(units, h) \ arriving = At(units, h)
    BY <1>2 DEF At, Deployed
  <2> QED BY <1>1, <2>1 DEF IsLegal
<1>8. StackFits(At(units, destination) \cup arriving)
  BY DEF EnterReinforcement, MayEnter
<1>9. IsPosition(q) /\ IsLegal(q) /\ IsControlled(q, Controlled(control, {destination}, side))
  BY <1>1, <1>2, <1>4, <1>5, <1>6, <1>7, <1>8, PlacedPosition
<1>10. PositionInv'
  BY <1>3, <1>9, Lands
<1>11. CombatInv'
  <2>1. combats = {} /\ combats' = combats /\ phase' = "movement"
    BY DEF EnterReinforcement, WarInv, CombatInv
  <2> QED BY <2>1, NoCombats
<1>12. TypeOK'
  <2>1. units' \in [Unit -> UnitState]
    BY <1>10 DEF PositionInv, IsPosition
  <2>2. control' \in [Objective -> Side]
    BY <1>1, <1>3, ControlType
  <2>3. ledger' \in Ledger
    BY <1>1, <1>2, LedgerType DEF EnterReinforcement
  <2> QED BY <2>1, <2>2, <2>3 DEF TypeOK, WarInv, EnterReinforcement
<1> QED BY <1>10, <1>11, <1>12 DEF WarInv

\* A stack off the board (unitsAfterBoardExit).
Leaving(p, ids, cost) ==
  Updated(p, [u \in ids |-> [p[u] EXCEPT !.status = "exited", !.location = Nowhere,
                                         !.spent = @ + cost]])

\* It is off the board.
LEMMA LeavingStates ==
  ASSUME NEW p \in [Unit -> UnitState], NEW ids \in SUBSET Unit, NEW cost \in Nat
  PROVE  /\ Leaving(p, ids, cost) \in [Unit -> UnitState]
         /\ \A u \in Unit \ ids : Leaving(p, ids, cost)[u] = p[u]
         /\ \A u \in ids : /\ Leaving(p, ids, cost)[u].status = "exited"
                           /\ Leaving(p, ids, cost)[u].location = Nowhere
<1> DEFINE ch == [u \in ids |-> [p[u] EXCEPT !.status = "exited", !.location = Nowhere,
                                             !.spent = @ + cost]]
<1>1. ASSUME NEW u \in ids
      PROVE  ch[u] \in UnitState /\ ch[u].status = "exited" /\ ch[u].location = Nowhere
  <2> DEFINE n == p[u].spent + cost
             x == [p[u] EXCEPT !.status = "exited", !.location = Nowhere, !.spent = n]
  <2>1. p[u] \in UnitState
    OBVIOUS
  <2>2. n \in Nat
    BY <2>1 DEF UnitState
  <2>3. ch[u] = x
    OBVIOUS
  <2> HIDE DEF n
  <2>4. x \in UnitState /\ x.status = "exited" /\ x.location = Nowhere
    BY <2>1, <2>2 DEF UnitState
  <2> HIDE DEF x, ch
  <2> QED BY <2>3, <2>4
<1>2. DOMAIN ch = ids
  OBVIOUS
<1> HIDE DEF ch
<1>3. Updated(p, ch) \in [Unit -> UnitState]
  BY <1>1, <1>2, UpdatedIsTyped
<1>4. /\ \A u \in Unit \ ids : Updated(p, ch)[u] = p[u]
      /\ \A u \in ids : Updated(p, ch)[u] = ch[u]
  BY <1>2 DEF Updated
<1> DEFINE q == Updated(p, ch)
<1> HIDE DEF q
<1>5. /\ q \in [Unit -> UnitState]
      /\ \A u \in Unit \ ids : q[u] = p[u]
      /\ \A u \in ids : q[u].status = "exited" /\ q[u].location = Nowhere
  BY <1>1, <1>3, <1>4 DEF q
<1> QED BY <1>5 DEF q, ch, Leaving

\* unitsAfterBoardExit
LEMMA ExitedFollows ==
  ASSUME NEW p \in [Unit -> UnitState], NEW y, IsPosition(y), NEW ids \in SUBSET Unit,
         Follows(p, y, ids), NEW cost \in Nat
  PROVE  /\ IsPosition(Exited(y, ids, cost))
         /\ Follows(p, Exited(y, ids, cost), ids)
         /\ \A u \in ids : Exited(y, ids, cost)[u].status # "deployed"
         /\ \A u \in Unit : Exited(y, ids, cost)[u].status = "deployed" =>
                              /\ y[u].status = "deployed"
                              /\ y[u].location = Exited(y, ids, cost)[u].location
<1> DEFINE r == Leaving(y, ids, cost)
           s == Settled(r)
<1>1. Exited(y, ids, cost) = s
  BY DEF Exited, Leaving
<1>2. y \in [Unit -> UnitState]
  BY DEF IsPosition
<1>3. /\ r \in [Unit -> UnitState]
      /\ \A u \in Unit \ ids : r[u] = y[u]
      /\ \A u \in ids : r[u].status = "exited" /\ r[u].location = Nowhere
  BY <1>2, LeavingStates
<1> HIDE DEF r
<1>4. IsPosition(r)
  BY <1>3 DEF IsPosition, Deployed
<1>5. /\ s \in [Unit -> UnitState] /\ Follows(r, s, {})
      /\ \A u \in Unit : s[u].status = "deployed" => s[u] = r[u]
  <2>1. s \in [Unit -> UnitState] /\ Follows(r, s, {})
    BY <1>3, SettledFields
  <2> HIDE DEF s
  <2>2. \A u \in Unit : s[u].status = "deployed" => s[u] = r[u]
    BY <1>3, <2>1, Remains
  <2> QED BY <2>1, <2>2
<1>6. IsPosition(s)
  BY <1>4, SettledHolds
<1> HIDE DEF s
<1>7. Follows(p, s, ids)
  <2>1. Follows(p, r, ids)
    BY <1>3 DEF Follows
  <2>2. Follows(p, s, ids \cup {})
    BY <1>3, <1>5, <2>1, FollowsOn
  <2>3. ids \cup {} = ids
    OBVIOUS
  <2> QED BY <2>2, <2>3
<1>8. \A u \in ids : s[u].status # "deployed"
  BY <1>3, <1>5
<1>9. \A u \in Unit : s[u].status = "deployed" =>
                        y[u].status = "deployed" /\ y[u].location = s[u].location
  BY <1>3, <1>5, <1>8
<1> QED BY <1>1, <1>6, <1>7, <1>8, <1>9

\* Capture does not set off another one, for a general controls nothing.
LEMMA SettledTwice ==
  ASSUME NEW p \in [Unit -> UnitState]
  PROVE  Settled(Settled(p)) = Settled(p)
<1>1. Settled(p) \in [Unit -> UnitState] /\ IsSettled(Settled(p))
  BY SettledFields, NobodyLoneIsLeft
<1> QED BY <1>1, SettledIsSame

\* exitBoard keeps the invariant.
LEMMA ExitPosition ==
  ASSUME WarInv, NEW side \in Side, NEW movers \in Stacks(side), ExitBoard(side, movers)
  PROVE  WarInv'
<1>1. /\ units \in [Unit -> UnitState] /\ control \in [Objective -> Side]
      /\ IsPosition(units) /\ IsLegal(units) /\ IsControlled(units, control)
      /\ ledger \in Ledger
  BY DEF WarInv, TypeOK, PositionInv
<1>2. PICK origin \in Hex : movers \subseteq At(units, origin) /\ movers # {}
  BY DEF ExitBoard, MayExit, GroupMayMove
<1>3. Source(units, movers) = origin
  BY <1>2, SourceIs
<1>4. movers \in SUBSET Unit
  BY StackOfSide
<1> DEFINE q == Exited(units, movers, 1)
<1>5. units' = Settled(q) /\ control' = control
  BY DEF ExitBoard, Accept
<1>6. /\ IsPosition(q) /\ Follows(units, q, movers)
      /\ \A u \in movers : q[u].status # "deployed"
      /\ \A u \in Unit : q[u].status = "deployed" =>
                           units[u].status = "deployed" /\ units[u].location = q[u].location
  <2>1. Follows(units, units, movers) /\ 1 \in Nat
    BY DEF Follows
  <2> QED BY <1>1, <1>4, <2>1, ExitedFollows
<1> HIDE DEF q
<1>7. IsLegal(q)
  <2>1. StackFits(At(units, origin) \ movers)
    BY <1>3 DEF ExitBoard, MayExit
  <2>2. q \in [Unit -> UnitState]
    BY <1>6 DEF IsPosition
  <2> QED BY <1>1, <1>2, <1>6, <2>1, <2>2, GoneIsLegal
<1>8. IsControlled(q, control)
  BY <1>1, <1>6, FewerControl
<1>9. PositionInv'
  BY <1>5, <1>6, <1>7, <1>8, Lands
<1>10. CombatInv'
  <2>1. combats = {} /\ combats' = combats /\ phase' = "movement"
    BY DEF ExitBoard, WarInv, CombatInv
  <2> QED BY <2>1, NoCombats
<1>11. TypeOK'
  <2>1. units' \in [Unit -> UnitState]
    BY <1>9 DEF PositionInv, IsPosition
  <2>2. ledger' \in Ledger
    BY <1>1, <1>4, LedgerType DEF ExitBoard
  <2> QED BY <2>1, <2>2 DEF TypeOK, WarInv, ExitBoard
<1> QED BY <1>9, <1>10, <1>11 DEF WarInv

-----------------------------------------------------------------------------
(* The end of a phase.                                                     *)

\* Nobody is captured by a command that changes nothing on the board.
LEMMA AcceptedAsIs ==
  ASSUME WarInv, Accept(units)
  PROVE  units' = units
BY SettledIsSame DEF Accept, WarInv, PositionInv, IsPosition

\* What holds of the board goes on to hold.
LEMMA PositionStays ==
  ASSUME PositionInv, UNCHANGED <<units, control>>
  PROVE  PositionInv'
<1>1. IsPosition(units) /\ IsSettled(units) /\ IsLegal(units) /\ IsControlled(units, control)
  BY DEF PositionInv
<1>2. Settled(units) = units
  BY <1>1, SettledIsSame DEF IsPosition
<1>3. control' = control /\ units' = Settled(units)
  BY <1>2
<1>4. IsControlled(units, control')
  BY <1>1, <1>3
<1> QED BY <1>1, <1>3, <1>4, Lands

\* A new turn gives back the movement points and nothing else.
LEMMA RestedStates ==
  ASSUME NEW p \in [Unit -> UnitState], NEW ids \in SUBSET Unit, NEW q,
         q = Updated(p, [u \in ids |-> [p[u] EXCEPT !.spent = 0]])
  PROVE  /\ q \in [Unit -> UnitState]
         /\ \A u \in Unit : /\ q[u].status = p[u].status /\ q[u].location = p[u].location
                            /\ q[u].steps = p[u].steps
<1> DEFINE ch == [u \in ids |-> [p[u] EXCEPT !.spent = 0]]
<1>1. ASSUME NEW u \in ids
      PROVE  /\ ch[u] \in UnitState /\ ch[u].status = p[u].status
             /\ ch[u].location = p[u].location /\ ch[u].steps = p[u].steps
  <2> DEFINE x == [p[u] EXCEPT !.spent = 0]
  <2>1. p[u] \in UnitState
    OBVIOUS
  <2>2. x \in UnitState /\ x.status = p[u].status /\ x.location = p[u].location /\ x.steps = p[u].steps
    BY <2>1 DEF UnitState
  <2>3. ch[u] = x
    OBVIOUS
  <2> HIDE DEF x, ch
  <2> QED BY <2>2, <2>3
<1>2. DOMAIN ch = ids
  OBVIOUS
<1>3. q = Updated(p, ch)
  OBVIOUS
<1> HIDE DEF ch
<1>4. q \in [Unit -> UnitState]
  BY <1>1, <1>2, <1>3, UpdatedIsTyped
<1>5. /\ \A u \in Unit \ ids : q[u] = p[u]
      /\ \A u \in ids : q[u] = ch[u]
  BY <1>2, <1>3 DEF Updated
<1> QED BY <1>1, <1>4, <1>5

\* The start of a side turn keeps the invariant.
LEMMA BeginTurnPosition ==
  ASSUME WarInv, NEW side \in Side, BeginTurn(side), turn' \in Nat
  PROVE  WarInv'
<1>1. /\ units \in [Unit -> UnitState] /\ IsPosition(units) /\ IsLegal(units)
      /\ IsControlled(units, control) /\ control' = control
  BY DEF WarInv, TypeOK, PositionInv, BeginTurn
<1> DEFINE q == Updated(units, [u \in Army(side) |-> [units[u] EXCEPT !.spent = 0]])
<1>2. units' = Settled(q)
  BY DEF BeginTurn, Accept
<1>3. /\ q \in [Unit -> UnitState]
      /\ \A u \in Unit : /\ q[u].status = units[u].status /\ q[u].location = units[u].location
                         /\ q[u].steps = units[u].steps
  <2>1. Army(side) \in SUBSET Unit
    BY DEF Army
  <2> QED BY <1>1, <2>1, RestedStates
<1> HIDE DEF q
<1>4. \A h : At(q, h) = At(units, h)
  BY <1>3 DEF At, Deployed
<1>5. IsPosition(q) /\ IsLegal(q) /\ IsControlled(q, control)
  BY <1>1, <1>3, <1>4 DEF IsPosition, IsLegal, IsControlled, Deployed
<1>6. PositionInv'
  BY <1>1, <1>2, <1>5, Lands
<1>7. CombatInv'
  <2>1. combats' = {} /\ phase' = "movement"
    BY DEF BeginTurn
  <2> QED BY <2>1, NoCombats
<1>8. TypeOK'
  <2>1. units' \in [Unit -> UnitState]
    BY <1>6 DEF PositionInv, IsPosition
  <2>2. ledger' \in Ledger
    BY DEF BeginTurn, NoMoves, Ledger
  <2>3. combats' \in SUBSET Combat
    BY DEF BeginTurn
  <2> QED BY <2>1, <2>2, <2>3 DEF TypeOK, WarInv, BeginTurn
<1> QED BY <1>6, <1>7, <1>8 DEF WarInv

\* The end of the game keeps the invariant.
LEMMA CompleteGamePosition ==
  ASSUME WarInv, NEW status \in Side \cup {"tie"}, CompleteGame(status)
  PROVE  WarInv'
<1>1. units' = units /\ control' = control
  BY AcceptedAsIs DEF CompleteGame
<1>2. PositionInv'
  BY <1>1, PositionStays DEF WarInv
<1>3. CombatInv'
  <2>1. combats' = {} /\ phase' = "completed"
    BY DEF CompleteGame
  <2> QED BY <2>1, NoCombats
<1>4. TypeOK'
  BY <1>1 DEF TypeOK, WarInv, CompleteGame
<1> QED BY <1>2, <1>3, <1>4 DEF WarInv

\* finishSideTurn keeps the invariant.
LEMMA FinishSideTurnPosition ==
  ASSUME WarInv, NEW side \in Side, FinishSideTurn(side)
  PROVE  WarInv'
<1>1. turn \in Nat /\ "union" \in Side /\ "confederate" \in Side
      /\ "confederate" \in Side \cup {"tie"} /\ FinalStatus \in Side \cup {"tie"}
  BY DEF WarInv, TypeOK, Side, FinalStatus
<1>2. CASE BeginTurn("union") /\ UNCHANGED turn
  BY <1>1, <1>2, BeginTurnPosition
<1>3. CASE CompleteGame("confederate")
  BY <1>1, <1>3, CompleteGamePosition
<1>4. CASE CompleteGame(FinalStatus)
  BY <1>1, <1>4, CompleteGamePosition
<1>5. CASE BeginTurn("confederate") /\ turn' = turn + 1
  BY <1>1, <1>5, BeginTurnPosition
<1> QED BY <1>2, <1>3, <1>4, <1>5 DEF FinishSideTurn

-----------------------------------------------------------------------------
(* The mandatory combats of a phase.                                       *)

\* A plan separates the contacts into legal combats (combatSkirmishes).
LEMMA PlanFacts ==
  ASSUME NEW side, NEW plan \in CombatPlans(side)
  PROVE  plan \in SUBSET Skirmishes(side) /\ Separates(plan, side)
BY DEF CombatPlans, kSubset

\* Whom a combat joins, and where.
IsSkirmish(s, side) ==
  /\ s.attackerHexes \in SUBSET FrontHexes(side) /\ s.attackerHexes # {}
  /\ s.defenderHexes \in SUBSET FrontHexes(OtherSide(side))

\* Both sides of a legal combat are fronts.
LEMMA SkirmishFacts ==
  ASSUME NEW side, NEW s \in Skirmishes(side)
  PROVE  IsSkirmish(s, side)
<1> DEFINE mine == FrontHexes(side)
           theirs == FrontHexes(OtherSide(side))
<1>1. \/ \E h \in theirs : \E A \in (SUBSET (AdjacentHexes[h] \cap mine)) \ {{}} :
           s = [attackerHexes |-> A, defenderHexes |-> {h}]
      \/ \E h \in mine : \E D \in (SUBSET (AdjacentHexes[h] \cap theirs)) \ {{}} :
           s = [attackerHexes |-> {h}, defenderHexes |-> D]
  BY DEF Skirmishes
<1> HIDE DEF mine, theirs
<1>2. /\ s.attackerHexes \in SUBSET mine /\ s.attackerHexes # {}
      /\ s.defenderHexes \in SUBSET theirs
  BY <1>1
<1> QED BY <1>2 DEF IsSkirmish, mine, theirs

\* A hex from which a side fights is its own.
LEMMA FrontFacts ==
  ASSUME NEW side, NEW h \in FrontHexes(side), IsLegal(units), NEW u \in Unit,
         units[u].status = "deployed", units[u].location = h
  PROVE  SideOf[u] = side /\ h \in Hex
<1>1. h \in Hex /\ Supported(units, side, h)
  BY DEF FrontHexes
<1>2. PICK w \in At(units, h) : SideOf[w] = side
  BY <1>1 DEF Supported, Combatants, Army
<1>3. u \in At(units, h)
  BY StandsAt
<1> QED BY <1>1, <1>2, <1>3 DEF IsLegal

\* In front hexes stand the counters of one side, and a combat counter in each.
LEMMA FrontIsHeld ==
  ASSUME NEW side, NEW hexes \in SUBSET FrontHexes(side), IsLegal(units)
  PROVE  /\ Held(units, Fighters(hexes, side), hexes)
         /\ Fighters(hexes, side) \subseteq Combatants(Army(side))
         /\ Fighters(hexes, side) \subseteq Unit
<1>1. Fighters(hexes, side) = {u \in Combatants(Deployed(units)) : units[u].location \in hexes}
  BY FrontFacts DEF Fighters, Combatants, Deployed, Army
<1>2. ASSUME NEW h \in hexes
      PROVE  \E u \in Fighters(hexes, side) : units[u].location = h
  BY DEF FrontHexes, Supported, Fighters, Combatants, At, Army
<1> QED BY <1>1, <1>2 DEF Held, Fighters, Combatants, Army, Deployed

\* No hex is a front of both sides.
LEMMA FrontsAreApart ==
  ASSUME NEW side \in Side, IsLegal(units)
  PROVE  FrontHexes(side) \cap FrontHexes(OtherSide(side)) = {}
<1> SUFFICES ASSUME NEW h, h \in FrontHexes(side), h \in FrontHexes(OtherSide(side))
             PROVE  FALSE
  OBVIOUS
<1>1. PICK u \in At(units, h) : SideOf[u] = side
  BY DEF FrontHexes, Supported, Combatants, Army
<1>2. u \in Unit /\ units[u].status = "deployed" /\ units[u].location = h
  BY <1>1, StandsAt
<1>3. SideOf[u] = OtherSide(side)
  BY <1>2, FrontFacts
<1> QED BY <1>1, <1>3 DEF OtherSide, Side

\* A combat as it begins.
IsNew(c, s, side) ==
  /\ c \in Combat
  /\ c.attackers = Fighters(s.attackerHexes, side)
  /\ c.defenders = Fighters(s.defenderHexes, OtherSide(side))
  /\ c.attackerHexes = s.attackerHexes /\ c.defenderHexes = s.defenderHexes
  /\ c.status = "awaiting_result_confirmation" /\ c.result = "none" /\ c.choice = NoChoice
  /\ ~c.lossAllocated /\ ~c.retreated

\* A declared combat is a combat that has just begun.
LEMMA NewCombatFields ==
  ASSUME NEW side, NEW s, IsSkirmish(s, side)
  PROVE  IsNew(NewCombat(s, side), s, side)
<1> DEFINE a == Fighters(s.attackerHexes, side)
           d == Fighters(s.defenderHexes, OtherSide(side))
           ah == s.attackerHexes
           dh == s.defenderHexes
           n == NoChoice
<1>1. a \in SUBSET Unit /\ d \in SUBSET Unit
  BY DEF Fighters, Combatants, Deployed
<1>2. ah \in SUBSET Hex /\ dh \in SUBSET Hex
  BY DEF IsSkirmish, FrontHexes
<1>3. n \in Choice
  BY NoChoiceType
<1>4. NewCombat(s, side) =
        [attackers |-> a, defenders |-> d, attackerHexes |-> ah, defenderHexes |-> dh,
         status |-> "awaiting_result_confirmation", result |-> "none", losses |-> 0,
         lossAllocated |-> FALSE, retreated |-> FALSE, choice |-> n]
  BY DEF NewCombat
<1> HIDE DEF a, d, ah, dh, n
<1> DEFINE c == NewCombat(s, side)
<1> HIDE DEF c
<1>5. /\ c \in Combat /\ c.attackers = a /\ c.defenders = d
      /\ c.attackerHexes = ah /\ c.defenderHexes = dh
      /\ c.status = "awaiting_result_confirmation" /\ c.result = "none" /\ c.choice = n
      /\ ~c.lossAllocated /\ ~c.retreated
  BY <1>1, <1>2, <1>3, <1>4 DEF c, Combat
<1> QED BY <1>5 DEF c, IsNew, a, d, ah, dh, n

\* The mandatory combats as they begin.
LEMMA NewCombats ==
  ASSUME NEW side \in Side, PositionInv, NEW plan \in CombatPlans(side),
         combats' = {NewCombat(s, side) : s \in plan}, units' = units,
         phase' = "combat", activeSide' = side
  PROVE  CombatInv' /\ combats' \in SUBSET Combat
<1>1. Separates(plan, side) /\ \A s \in plan : IsSkirmish(s, side)
  BY PlanFacts, SkirmishFacts
<1>2. IsLegal(units)
  BY DEF PositionInv
<1>3. \A c \in combats' : \E s \in plan : c = NewCombat(s, side) /\ IsNew(c, s, side)
  BY <1>1, NewCombatFields
<1>4. \A s \in plan : \E c \in combats' : IsNew(c, s, side)
  BY <1>1, NewCombatFields
<1>5. combats' \in SUBSET Combat
  BY <1>3 DEF IsNew
<1>6. ASSUME NEW c \in combats'
      PROVE  InStage(units, side, c)
  <2>1. PICK s \in plan : IsNew(c, s, side)
    BY <1>3
  <2>2. Held(units, c.attackers, c.attackerHexes) /\ Held(units, c.defenders, c.defenderHexes)
    BY <1>1, <1>2, <2>1, FrontIsHeld DEF IsNew, IsSkirmish
  <2> QED BY <2>1, <2>2 DEF IsNew, InStage
<1>7. CombatsAreParted'
  <2>1. ASSUME NEW c \in combats'
        PROVE  /\ c.attackers \subseteq Combatants(Army(side))
               /\ c.defenders \subseteq Combatants(Army(OtherSide(side)))
               /\ c.attackerHexes # {}
    <3>1. PICK s \in plan : IsNew(c, s, side)
      BY <1>3
    <3> QED BY <1>1, <1>2, <3>1, FrontIsHeld DEF IsNew, IsSkirmish
  <2>2. ASSUME NEW c \in combats', NEW d \in combats'
        PROVE  c.attackerHexes \cap d.defenderHexes = {}
    <3>1. PICK s \in plan : IsNew(c, s, side)
      BY <1>3
    <3>2. PICK t \in plan : IsNew(d, t, side)
      BY <1>3
    <3> QED BY <1>1, <1>2, <3>1, <3>2, FrontsAreApart DEF IsNew, IsSkirmish
  <2>3. ASSUME NEW c \in combats', NEW d \in combats', c # d
        PROVE  AreParted(c, d)
    <3>1. PICK s \in plan : c = NewCombat(s, side) /\ IsNew(c, s, side)
      BY <1>3
    <3>2. PICK t \in plan : d = NewCombat(t, side) /\ IsNew(d, t, side)
      BY <1>3
    <3>3. /\ s.attackerHexes \cap t.attackerHexes = {}
          /\ s.defenderHexes \cap t.defenderHexes = {}
      BY <1>1, <2>3, <3>1, <3>2 DEF Separates
    <3>4. /\ Fighters(s.attackerHexes, side) \cap Fighters(t.attackerHexes, side) = {}
          /\ Fighters(s.defenderHexes, OtherSide(side))
               \cap Fighters(t.defenderHexes, OtherSide(side)) = {}
      BY <3>3 DEF Fighters
    <3> QED BY <3>1, <3>2, <3>3, <3>4 DEF IsNew, AreParted
  <2> QED BY <2>1, <2>2, <2>3 DEF CombatsAreParted
<1>8. ChoicesAreApart'
  BY <1>3, NoChoiceType DEF ChoicesAreApart, IsNew
<1>9. EveryContactIsFought'
  <2>1. ASSUME NEW u \in Combatants(Deployed(units)), NEW w \in Combatants(Deployed(units)),
               SideOf[u] = side, SideOf[w] # side,
               units[w].location \in AdjacentHexes[units[u].location]
        PROVE  \E c \in combats' : u \in c.attackers
    <3>1. /\ u \in Unit /\ w \in Unit /\ ~General(u) /\ ~General(w)
          /\ units[u].status = "deployed" /\ units[w].status = "deployed"
          /\ SideOf[w] = OtherSide(side)
      BY <2>1, UnitAssumption DEF Combatants, Deployed, OtherSide, Side
    <3>2. units[u].location \in Hex
      BY <3>1 DEF PositionInv, IsPosition, Deployed
    <3>3. /\ Supported(units, side, units[u].location)
          /\ Supported(units, OtherSide(side), units[w].location)
      BY <2>1, <3>1 DEF Supported, Combatants, At, Deployed, Army
    <3>4. units[u].location \in FrontHexes(side)
      BY <2>1, <3>2, <3>3 DEF FrontHexes
    <3>5. PICK s \in plan : units[u].location \in s.attackerHexes
      BY <1>1, <3>4 DEF Separates
    <3>6. u \in Fighters(s.attackerHexes, side)
      BY <2>1, <3>1, <3>5 DEF Fighters, Army
    <3> QED BY <1>4, <3>6 DEF IsNew
  <2> DEFINE idle == Combatants(Deployed(units)) \ UNION {c.attackers \cup c.defenders : c \in combats'}
  <2>2. ASSUME NEW u \in idle \cap Army(side), NEW w \in idle \ Army(side)
        PROVE  units[w].location \notin AdjacentHexes[units[u].location]
    BY <2>1 DEF Army, Combatants, Deployed
  <2>3. \A u \in idle \cap Army(activeSide'), w \in idle \ Army(activeSide') :
          units'[w].location \notin AdjacentHexes[units'[u].location]
    BY <2>2
  <2>4. idle = (Combatants(Deployed(units)) \ UNION {c.attackers \cup c.defenders : c \in combats})'
    OBVIOUS
  <2> HIDE DEF idle
  <2> QED BY <2>3, <2>4 DEF EveryContactIsFought
<1> QED BY <1>5, <1>6, <1>7, <1>8, <1>9 DEF CombatInv

\* endPhase keeps the invariant.
LEMMA EndPhasePosition ==
  ASSUME WarInv, NEW side \in Side, EndPhase(side)
  PROVE  WarInv'
<1>1. CASE FinishSideTurn(side)
  BY <1>1, FinishSideTurnPosition
<1>2. CASE /\ \E plan \in CombatPlans(side) :
                 combats' = {NewCombat(skirmish, side) : skirmish \in plan}
           /\ phase' = "combat"
           /\ Accept(units)
           /\ UNCHANGED <<activeSide, turn, control, ledger, victory>>
  <2>1. PICK plan \in CombatPlans(side) :
          combats' = {NewCombat(skirmish, side) : skirmish \in plan}
    BY <1>2
  <2>2. units' = units /\ control' = control /\ phase' = "combat" /\ activeSide' = side
    BY <1>2, AcceptedAsIs DEF EndPhase
  <2>3. PositionInv /\ PositionInv'
    BY <2>2, PositionStays DEF WarInv
  <2>4. CombatInv' /\ combats' \in SUBSET Combat
    BY <2>1, <2>2, <2>3, NewCombats
  <2>5. TypeOK'
    BY <1>2, <2>2, <2>4 DEF TypeOK, WarInv
  <2> QED BY <2>3, <2>4, <2>5 DEF WarInv
<1> QED BY <1>1, <1>2 DEF EndPhase

\* Whom a command moves: counters of its combat, or who stands in its hexes; and where.
StaysInCombat(p, q, M, c) ==
  /\ M \in SUBSET Unit
  /\ \A u \in M : ~General(u) => u \in Fights(c)
  /\ \A u \in M : \/ u \in c.choice.units
                  \/ p[u].status = "deployed" /\ p[u].location \in Hexes(c)
  /\ \A u \in M : q[u].status = "deployed" =>
                    q[u].location \in Hexes(c) \/ At(q, q[u].location) \subseteq M

\* Such a command leaves the other combats alone.
LEMMA OthersDoNotMind ==
  ASSUME TypeOK, CombatInv, NEW c \in combats, NEW q, NEW M, StaysInCombat(units, q, M, c),
         NEW d \in combats \ {c}
  PROVE  Minds(q, M, d)
<1>1. activeSide \in Side /\ CombatsAreParted /\ ChoicesAreApart
      /\ InStage(units, activeSide, d) /\ d \in Combat
  BY DEF CombatInv, TypeOK
<1>2. Apart(c, d) /\ \A u \in Fights(d) : ~General(u)
  BY <1>1, PartedFacts
<1>3. ASSUME NEW u \in M
      PROVE  u \notin Fights(d) /\ u \notin d.choice.units
  <2>1. u \notin Fights(d)
    BY <1>2 DEF StaysInCombat, Apart
  <2>2. CASE u \in c.choice.units
    BY <1>1, <2>1, <2>2 DEF ChoicesAreApart
  <2>3. CASE units[u].status = "deployed" /\ units[u].location \in Hexes(c)
    <3> SUFFICES ASSUME u \in d.choice.units PROVE FALSE
      BY <2>1
    <3>1. units[u].location \in Hexes(d)
      BY <1>1, <2>3, ChoiceFacts
    <3> QED BY <1>2, <2>3, <3>1 DEF Apart
  <2> QED BY <2>1, <2>2, <2>3 DEF StaysInCombat
<1>4. Elsewhere(q, M, Hexes(d))
  BY <1>2 DEF Elsewhere, StaysInCombat, Apart
<1> QED BY <1>3, <1>4 DEF Minds

\* A command of one combat.
LEMMA CombatCommand ==
  ASSUME WarInv, NEW c \in combats, NEW next, NEW q, NEW M, NEW held \in [Objective -> Side],
         IsPosition(q), IsLegal(q), IsControlled(q, held),
         Follows(units, q, M), StaysInCombat(units, q, M, c),
         Continues(c, next), InStage(q, activeSide, next), AreThere(q, next.choice.units),
         Replace(c, next), units' = Settled(q), control' = held,
         UNCHANGED <<activeSide, phase, turn, ledger, victory>>
  PROVE  WarInv'
<1>1. TypeOK /\ CombatInv /\ M \in SUBSET Unit /\ \A u \in M : ~General(u) => u \in Fights(c)
  BY DEF WarInv, StaysInCombat
<1>2. \A d \in combats \ {c} : Minds(q, M, d)
  BY <1>1, OthersDoNotMind
<1>3. activeSide' = activeSide /\ phase' = phase
  OBVIOUS
<1>4. CombatInv' /\ combats' \in SUBSET Combat
  BY <1>1, <1>2, <1>3, CombatStep
<1>5. IsControlled(q, control')
  OBVIOUS
<1>6. PositionInv'
  BY <1>5, Lands
<1>7. units' \in [Unit -> UnitState]
  BY <1>6 DEF PositionInv, IsPosition
<1>8. TypeOK'
  BY <1>1, <1>4, <1>7 DEF TypeOK
<1> QED BY <1>4, <1>6, <1>8 DEF WarInv

\* What is known of a combat on the table.
LEMMA CombatFacts ==
  ASSUME WarInv, NEW c \in combats
  PROVE  /\ c \in Combat /\ activeSide \in Side
         /\ InStage(units, activeSide, c)
         /\ c.attackers \subseteq Combatants(Army(activeSide))
         /\ c.defenders \subseteq Combatants(Army(OtherSide(activeSide)))
         /\ c.attackers \subseteq Unit /\ c.defenders \subseteq Unit
         /\ units \in [Unit -> UnitState] /\ control \in [Objective -> Side]
         /\ IsPosition(units) /\ IsSettled(units) /\ IsLegal(units)
         /\ IsControlled(units, control)
BY DEF WarInv, TypeOK, PositionInv, CombatInv, CombatsAreParted, Combatants, Army

\* A command may move nobody.
LEMMA NothingMoves ==
  ASSUME NEW p, NEW c
  PROVE  Follows(p, p, {}) /\ StaysInCombat(p, p, {}, c)
BY DEF Follows, StaysInCombat

-----------------------------------------------------------------------------
(* Results and advances.                                                   *)

\* The smaller of two numbers.
LEMMA MinOfTwo ==
  ASSUME NEW a \in Nat, NEW b \in Nat
  PROVE  Min({a, b}) \in 0..a /\ Min({a, b}) <= b
<1>1. \E n \in {a, b} : \A m \in {a, b} : n <= m
  BY Least
<1>2. Min({a, b}) \in {a, b} /\ \A m \in {a, b} : Min({a, b}) <= m
  BY <1>1 DEF Min
<1> DEFINE n == Min({a, b})
<1> HIDE DEF n
<1>3. n \in {a, b} /\ n <= a /\ n <= b
  BY <1>2 DEF n
<1>4. n \in 0..a
  BY <1>3
<1> QED BY <1>3, <1>4 DEF n

\* The steps left to a side of a combat.
LEMMA StepsAreNatural ==
  ASSUME NEW S \in SUBSET Unit, units \in [Unit -> UnitState]
  PROVE  StepsLeft(S) \in Nat
<1> DEFINE F == [u \in S |-> units[u].steps]
<1>1. \A u \in S : F[u] \in Nat
  BY DEF UnitState
<1>2. IsFiniteSet(S)
  BY UnitAssumption, FS_Subset
<1>3. Cardinality(UNION {{u} \X (1..F[u]) : u \in S}) \in Nat
  <2> HIDE DEF F
  <2> QED BY <1>1, <1>2, TotalIsNatural
<1>4. \A u \in S : F[u] = units[u].steps
  OBVIOUS
<1> QED BY <1>3 DEF StepsLeft, Total

\* A combat whose result has been read off the table.
RolledFields(c, r, result, n) ==
  /\ Continues(c, r) /\ r.losses = n
  /\ r.status = c.status /\ r.result = result /\ r.choice = c.choice
  /\ r.lossAllocated = c.lossAllocated /\ r.retreated = c.retreated

\* It is one.
LEMMA RolledIsCombat ==
  ASSUME NEW c \in Combat, NEW result \in {"attacker_win", "defender_win"}, NEW n \in 0..2
  PROVE  RolledFields(c, [[c EXCEPT !.result = result] EXCEPT !.losses = n], result, n)
<1> DEFINE r == [[c EXCEPT !.result = result] EXCEPT !.losses = n]
<1>1. /\ r \in Combat /\ r.attackers = c.attackers /\ r.defenders = c.defenders
      /\ r.attackerHexes = c.attackerHexes /\ r.defenderHexes = c.defenderHexes
      /\ r.status = c.status /\ r.result = result /\ r.choice = c.choice
      /\ r.lossAllocated = c.lossAllocated /\ r.retreated = c.retreated /\ r.losses = n
  BY DEF Combat
<1> HIDE DEF r
<1>2. RolledFields(c, r, result, n)
  BY <1>1 DEF RolledFields, Continues
<1> QED BY <1>2 DEF r

\* A combat goes on through several commands.
LEMMA ContinuesOn ==
  ASSUME NEW c, NEW d, NEW e, Continues(c, d), Continues(d, e)
  PROVE  Continues(c, e)
BY DEF Continues

\* Losers who all stand in their hexes are at home.
LEMMA HeldIsHome ==
  ASSUME NEW p, NEW side, NEW c, Held(p, Losers(c), LoserHexes(c))
  PROVE  LosersHome(p, side, c)
BY DEF Held, LosersHome, Combatants, Deployed

\* Counters that hold their hexes lead whoever stands there.
LEMMA HeldIsLed ==
  ASSUME NEW p, NEW side, NEW F, NEW H, Held(p, F, H)
  PROVE  Led(p, Stacked(p, F, side, H))
<1> SUFFICES ASSUME NEW u \in Stacked(p, F, side, H)
             PROVE  /\ p[u].status = "deployed"
                    /\ \E w \in Stacked(p, F, side, H) :
                         ~General(w) /\ p[w].status = "deployed" /\ p[w].location = p[u].location
  BY DEF Led
<1>1. \A w \in F : w \in Stacked(p, F, side, H) /\ ~General(w) /\ p[w].status = "deployed"
  BY DEF Held, Stacked, Combatants, Deployed
<1>2. p[u].status = "deployed" /\ (u \in F \/ p[u].location \in H)
  BY DEF Stacked, Deployed
<1>3. \E w \in F : p[w].location = p[u].location
  BY <1>2 DEF Held
<1> QED BY <1>1, <1>2, <1>3

\* confirmCombatResult keeps the invariant.
LEMMA ConfirmPosition ==
  ASSUME WarInv, NEW side \in Side, NEW c \in combats,
         NEW result \in {"attacker_win", "defender_win"}, NEW losses \in 0..2,
         ConfirmCombatResult(side, c, result, losses)
  PROVE  WarInv'
<1>1. /\ c \in Combat /\ activeSide \in Side
      /\ InStage(units, activeSide, c)
      /\ c.attackers \subseteq Combatants(Army(activeSide))
      /\ c.defenders \subseteq Combatants(Army(OtherSide(activeSide)))
      /\ c.attackers \subseteq Unit /\ c.defenders \subseteq Unit
      /\ units \in [Unit -> UnitState] /\ control \in [Objective -> Side]
      /\ IsPosition(units) /\ IsSettled(units) /\ IsLegal(units)
      /\ IsControlled(units, control)
  BY CombatFacts
<1> DEFINE rolled == [c EXCEPT !.result = result]
           capped == Min({losses, StepsLeft(Losers(rolled))})
           r == [rolled EXCEPT !.losses = capped]
           next == NextChoice(units, r)
<1>2. Replace(c, next) /\ units' = Settled(units) /\ control' = control
      /\ c.status = "awaiting_result_confirmation"
      /\ UNCHANGED <<activeSide, phase, turn, ledger, victory>>
  BY DEF ConfirmCombatResult, Accept
<1>3. capped \in 0..2 /\ capped <= StepsLeft(Losers(rolled))
  <2>1. rolled.attackers = c.attackers /\ rolled.defenders = c.defenders
    BY <1>1 DEF Combat
  <2>2. Losers(rolled) \in SUBSET Unit
    BY <1>1, <2>1 DEF Losers
  <2> HIDE DEF rolled
  <2>3. StepsLeft(Losers(rolled)) \in Nat
    BY <1>1, <2>2, StepsAreNatural
  <2>4. losses \in Nat
    OBVIOUS
  <2>5. capped \in 0..losses /\ capped <= StepsLeft(Losers(rolled))
    BY <2>3, <2>4, MinOfTwo
  <2> HIDE DEF capped
  <2> QED BY <2>5
<1>3a. Losers(rolled) = (IF result = "attacker_win" THEN c.defenders ELSE c.attackers)
  <2>1. rolled.result = result /\ rolled.attackers = c.attackers /\ rolled.defenders = c.defenders
    BY <1>1 DEF Combat
  <2> QED BY <2>1 DEF Losers
<1>3b. StepsLeft(Losers(rolled)) = StepsOf(units, Losers(rolled))
  BY DEF StepsLeft, StepsOf, Total
<1>4. RolledFields(c, r, result, capped)
  <2> HIDE DEF capped
  <2> QED BY <1>1, <1>3, RolledIsCombat
<1> HIDE DEF rolled, capped, r
<1>5. r \in Combat /\ Continues(c, r)
  BY <1>4 DEF RolledFields, Continues
<1>5a. Losers(r) = Losers(rolled)
  BY <1>3a, <1>4 DEF RolledFields, Continues, Losers
<1>6. IsDecided(units, activeSide, r)
  <2>1. /\ ~c.lossAllocated /\ ~c.retreated
        /\ Held(units, c.attackers, c.attackerHexes)
        /\ Held(units, c.defenders, c.defenderHexes)
    BY <1>1, <1>2 DEF InStage
  <2>2. /\ r.result \in {"attacker_win", "defender_win"} /\ ~r.retreated
        /\ r.attackers = c.attackers /\ r.defenders = c.defenders
        /\ r.attackerHexes = c.attackerHexes /\ r.defenderHexes = c.defenderHexes
    BY <1>4, <2>1 DEF RolledFields, Continues
  <2>3. Held(units, Losers(r), LoserHexes(r))
    BY <2>1, <2>2 DEF Losers, LoserHexes
  <2>4. LosersHome(units, activeSide, r)
    BY <2>3, HeldIsHome
  <2>5. r.losses <= StepsOf(units, Losers(r))
    BY <1>3, <1>3b, <1>4, <1>5a DEF RolledFields
  <2>6. Led(units, Stacked(units, Losers(r), Beaten(activeSide, r), LoserHexes(r)))
    BY <2>3, HeldIsLed
  <2> QED BY <1>1, <2>1, <2>2, <2>3, <2>4, <2>5, <2>6 DEF IsDecided
<1>7. Continues(r, next) /\ InStage(units, activeSide, next) /\ AreThere(units, next.choice.units)
  BY <1>1, <1>5, <1>6, NextChoiceStage
<1> HIDE DEF next
<1>8. Continues(c, next)
  BY <1>5, <1>7, ContinuesOn
<1>9. Follows(units, units, {}) /\ StaysInCombat(units, units, {}, c)
  BY NothingMoves
<1> QED BY <1>1, <1>2, <1>7, <1>8, <1>9, CombatCommand

\* A combat that is over waits for nothing.
LEMMA ResolvedStage ==
  ASSUME NEW c \in Combat, NEW p, NEW side
  PROVE  /\ Continues(c, Resolved(c)) /\ InStage(p, side, Resolved(c))
         /\ AreThere(p, Resolved(c).choice.units)
<1> DEFINE r == Resolved(c)
<1>1. /\ r \in Combat /\ r.attackers = c.attackers /\ r.defenders = c.defenders
      /\ r.attackerHexes = c.attackerHexes /\ r.defenderHexes = c.defenderHexes
      /\ r.status = "resolved" /\ r.choice = NoChoice
  BY ResolvedFields
<1> HIDE DEF r
<1>2. Continues(c, r) /\ InStage(p, side, r) /\ AreThere(p, r.choice.units)
  BY <1>1, NoChoiceType DEF Continues, InStage, AreThere
<1> QED BY <1>2 DEF r

\* declineAdvance keeps the invariant.
LEMMA DeclinePosition ==
  ASSUME WarInv, NEW side \in Side, NEW c \in combats, DeclineAdvance(side, c)
  PROVE  WarInv'
<1>1. /\ c \in Combat /\ control \in [Objective -> Side]
      /\ IsPosition(units) /\ IsLegal(units) /\ IsControlled(units, control)
  BY CombatFacts
<1>2. /\ Replace(c, Resolved(c)) /\ units' = Settled(units) /\ control' = control
      /\ UNCHANGED <<activeSide, phase, turn, ledger, victory>>
  BY DEF DeclineAdvance, Accept
<1>3. /\ Continues(c, Resolved(c)) /\ InStage(units, activeSide, Resolved(c))
      /\ AreThere(units, Resolved(c).choice.units)
  BY <1>1, ResolvedStage
<1>4. Follows(units, units, {}) /\ StaysInCombat(units, units, {}, c)
  BY NothingMoves
<1> QED BY <1>1, <1>2, <1>3, <1>4, CombatCommand

\* Only a pending combat waits for a choice.
LEMMA ChoiceIsPending ==
  ASSUME NEW p, NEW side, NEW c \in Combat, InStage(p, side, c), c.choice.kind # "none"
  PROVE  c.status = "pending_choice" /\ c.choice.units \in SUBSET Unit
<1>1. c.status \in {"awaiting_result_confirmation", "pending_choice", "resolved"}
      /\ c.choice \in Choice
  BY DEF Combat
<1>2. c.choice # NoChoice
  BY NoChoiceType
<1> QED BY <1>1, <1>2 DEF InStage, Choice

\* Who advances stands in the hex taken.
LEMMA AdvancedStates ==
  ASSUME NEW p \in [Unit -> UnitState], NEW ids \in SUBSET Unit, NEW d \in Hex,
         \A u \in ids : p[u].status = "deployed"
  PROVE  PlacedAt(p, Updated(p, [u \in ids |-> [p[u] EXCEPT !.location = d]]), ids, d)
<1> DEFINE ch == [u \in ids |-> [p[u] EXCEPT !.location = d]]
<1>1. ASSUME NEW u \in ids
      PROVE  /\ ch[u] \in UnitState /\ ch[u].status = "deployed"
             /\ ch[u].location = d /\ ch[u].steps = p[u].steps
  <2> DEFINE x == [p[u] EXCEPT !.location = d]
  <2>1. p[u] \in UnitState /\ p[u].status = "deployed"
    OBVIOUS
  <2>2. x \in UnitState /\ x.status = "deployed" /\ x.location = d /\ x.steps = p[u].steps
    BY <2>1 DEF UnitState
  <2>3. ch[u] = x
    OBVIOUS
  <2> HIDE DEF x, ch
  <2> QED BY <2>2, <2>3
<1>2. DOMAIN ch = ids
  OBVIOUS
<1> HIDE DEF ch
<1>3. Updated(p, ch) \in [Unit -> UnitState]
  BY <1>1, <1>2, UpdatedIsTyped
<1>4. /\ \A u \in Unit \ ids : Updated(p, ch)[u] = p[u]
      /\ \A u \in ids : Updated(p, ch)[u] = ch[u]
  BY <1>2 DEF Updated
<1> DEFINE q == Updated(p, ch)
<1> HIDE DEF q
<1>5. PlacedAt(p, q, ids, d)
  BY <1>1, <1>3, <1>4 DEF q, PlacedAt
<1> QED BY <1>5 DEF q, ch

\* advanceAfterCombat keeps the invariant.
LEMMA AdvancePosition ==
  ASSUME WarInv, NEW side \in Side, NEW c \in combats, NEW destination \in Hex,
         NEW movers \in SUBSET c.choice.units, Advance(side, c, movers, destination)
  PROVE  WarInv'
<1>1. /\ c \in Combat /\ activeSide \in Side
      /\ InStage(units, activeSide, c)
      /\ units \in [Unit -> UnitState] /\ control \in [Objective -> Side]
      /\ IsPosition(units) /\ IsLegal(units) /\ IsControlled(units, control)
  BY CombatFacts
<1> DEFINE q == Updated(units, [u \in movers |-> [units[u] EXCEPT !.location = destination]])
           held == Controlled(control, {destination}, side)
<1>2. /\ Replace(c, Resolved(c)) /\ units' = Settled(q) /\ control' = held
      /\ UNCHANGED <<activeSide, phase, turn, ledger, victory>>
      /\ c.choice.kind = "advance" /\ c.choice.side = side /\ destination \in c.choice.hexes
      /\ movers # {}
  BY DEF Advance, Accept
<1>3. c.status = "pending_choice" /\ c.choice.units \in SUBSET Unit
  BY <1>1, <1>2, ChoiceIsPending
<1>4. /\ c.choice.hexes \subseteq c.defenderHexes
      /\ Standing(units, c.choice.units, side, c.attackers, c.attackerHexes)
  BY <1>1, <1>2, <1>3 DEF InStage
<1>5. PICK origin \in Hex : movers \subseteq At(units, origin)
  BY DEF Advance
<1>6. Source(units, movers) = origin
  BY <1>2, <1>5, SourceIs
<1>7. /\ \A u \in movers : units[u].status = "deployed" /\ u \in Unit /\ u \in Army(side)
      /\ \A u \in movers : ~General(u) => u \in c.attackers
  BY <1>3, <1>4, <1>5, StandsAt DEF Standing, Army
<1>8. PlacedAt(units, q, movers, destination)
  <2>1. movers \in SUBSET Unit /\ \A u \in movers : units[u].status = "deployed"
    BY <1>7
  <2> QED BY <1>1, <2>1, AdvancedStates
<1> HIDE DEF q
<1>9. /\ IsPosition(q) /\ IsLegal(q) /\ IsControlled(q, held)
  <2>1. movers \in SUBSET Army(side) /\ \A u \in movers : units[u].steps # 0
    BY <1>1, <1>7 DEF IsPosition
  <2>2. At(units, destination) \subseteq Army(side) /\ StackFits(At(units, destination) \cup movers)
        /\ StackFits(At(units, origin) \ movers)
    BY <1>6 DEF Advance
  <2>3. ASSUME NEW h \in Hex PROVE StackFits(At(units, h) \ movers)
    <3>1. CASE h = origin
      BY <2>2, <3>1
    <3>2. CASE h # origin
      <4>1. At(units, h) \ movers = At(units, h)
        BY <1>5, <3>2 DEF At
      <4> QED BY <1>1, <4>1 DEF IsLegal
    <3> QED BY <3>1, <3>2
  <2> QED BY <1>1, <1>8, <2>1, <2>2, <2>3, PlacedPosition
<1>10. held \in [Objective -> Side]
  BY <1>1, ControlType
<1> HIDE DEF held
<1>11. Follows(units, q, movers)
  BY <1>8 DEF PlacedAt, Follows
<1>12. StaysInCombat(units, q, movers, c)
  BY <1>2, <1>3, <1>4, <1>7, <1>8 DEF StaysInCombat, PlacedAt, Fights, Hexes
<1>13. /\ Continues(c, Resolved(c)) /\ InStage(q, activeSide, Resolved(c))
       /\ AreThere(q, Resolved(c).choice.units)
  BY <1>1, ResolvedStage
<1> QED BY <1>2, <1>9, <1>10, <1>11, <1>12, <1>13, CombatCommand

-----------------------------------------------------------------------------
(* Losses.                                                                 *)

\* Steps are lost: who has none left is gone, nobody else goes anywhere.
HitLike(p, r, S) ==
  /\ r \in [Unit -> UnitState]
  /\ \A u \in Unit \ S : r[u] = p[u]
  /\ \A u \in S :
       \/ r[u].status = "eliminated" /\ r[u].location = Nowhere
       \/ r[u].status = p[u].status /\ r[u].location = p[u].location /\ r[u].steps # 0

\* That is what an allocation of losses does.
LEMMA LossesFields ==
  ASSUME units \in [Unit -> UnitState], NEW S \in SUBSET Unit, NEW lost \in [S -> Nat],
         \A u \in S : lost[u] <= units[u].steps
  PROVE  HitLike(units, AfterLosses(lost), S)
<1> DEFINE hit == [u \in S |-> Hit(u, lost[u])]
           y == Updated(units, hit)
           out == {u \in S : hit[u].steps = 0}
           r == Eliminated(y, out)
<1>1. DOMAIN lost = S /\ DOMAIN hit = S
  OBVIOUS
<1>2. AfterLosses(lost) = r
  BY <1>1 DEF AfterLosses
<1>3. ASSUME NEW u \in S
      PROVE  /\ hit[u] \in UnitState /\ hit[u].status = units[u].status
             /\ hit[u].location = units[u].location
  <2> DEFINE n == units[u].steps - lost[u]
             k == IF n = 1 THEN "reduced" ELSE "full"
             x == [units[u] EXCEPT !.steps = n, !.strength = k]
  <2>1. units[u] \in UnitState /\ lost[u] \in Nat /\ lost[u] <= units[u].steps
    OBVIOUS
  <2>2. n \in 0..2
    <3>1. units[u].steps \in 0..2
      BY <2>1 DEF UnitState
    <3> QED BY <2>1, <3>1
  <2>3. hit[u] = x
    BY DEF Hit
  <2>5. k \in {"full", "reduced", "eliminated"}
    OBVIOUS
  <2> HIDE DEF n, k
  <2>4. x \in UnitState /\ x.status = units[u].status /\ x.location = units[u].location
    BY <2>1, <2>2, <2>5 DEF UnitState
  <2> HIDE DEF x, hit
  <2> QED BY <2>3, <2>4
<1> HIDE DEF hit
<1>4. y \in [Unit -> UnitState]
  BY <1>1, <1>3, UpdatedIsTyped
<1>5. /\ \A u \in Unit \ S : y[u] = units[u]
      /\ \A u \in S : y[u] = hit[u]
  BY <1>1 DEF Updated
<1> HIDE DEF y
<1>6. /\ r \in [Unit -> UnitState]
      /\ \A u \in Unit \cap out : r[u] = Captured(y, u)
      /\ \A u \in Unit \ out : r[u] = y[u]
  BY <1>4, EliminatedFields
<1>7. \A u \in Unit : Captured(y, u).status = "eliminated" /\ Captured(y, u).location = Nowhere
  BY <1>4, CapturedFields
<1> HIDE DEF r
<1>8. \A u \in Unit \ S : r[u] = units[u]
  BY <1>5, <1>6
<1>9. ASSUME NEW u \in S
      PROVE  \/ r[u].status = "eliminated" /\ r[u].location = Nowhere
             \/ r[u].status = units[u].status /\ r[u].location = units[u].location /\ r[u].steps # 0
  <2>1. CASE u \in out
    BY <1>6, <1>7, <2>1
  <2>2. CASE u \notin out
    <3>1. r[u] = hit[u] /\ hit[u].steps # 0
      BY <1>5, <1>6, <2>2
    <3> QED BY <1>3, <3>1
  <2> QED BY <2>1, <2>2
<1> HIDE DEF out
<1>10. HitLike(units, r, S)
  BY <1>6, <1>8, <1>9 DEF HitLike
<1> QED BY <1>2, <1>10

\* Some combat counters of a position are hit, and generals it leaves alone go with them.
Casualties(p, q, S, G) ==
  /\ IsPosition(q)
  /\ IsLegal(q)
  /\ Follows(p, q, S \cup G)
  /\ \A u \in Unit : q[u].status = "deployed" =>
       /\ p[u].status = "deployed" /\ p[u].location = q[u].location
       /\ u \notin G

\* The position they leave is legal.
LEMMA CasualtiesPosition ==
  ASSUME NEW p, IsPosition(p), IsLegal(p), NEW S \in SUBSET Unit, \A u \in S : ~General(u),
         NEW r, HitLike(p, r, S), NEW G \in SUBSET Unit, \A u \in G : LoneGeneral(r, u)
  PROVE  Casualties(p, Eliminated(r, G), S, G)
<1> DEFINE q == Eliminated(r, G)
<1>1. p \in [Unit -> UnitState] /\ r \in [Unit -> UnitState]
  BY DEF IsPosition, HitLike
<1>2. /\ q \in [Unit -> UnitState]
      /\ \A u \in G : q[u] = Captured(r, u)
      /\ \A u \in Unit \ G : q[u] = r[u]
  BY <1>1, EliminatedFields
<1>3. \A u \in Unit : Captured(r, u).status = "eliminated" /\ Captured(r, u).location = Nowhere
  BY <1>1, CapturedFields
<1> HIDE DEF q
<1>4. \A u \in Unit : \/ q[u].status = "eliminated" /\ q[u].location = Nowhere
                      \/ /\ u \notin G /\ q[u] = r[u]
                         /\ q[u].status = p[u].status /\ q[u].location = p[u].location
                         /\ u \in S => q[u].steps # 0
                         /\ u \notin S => q[u] = p[u]
  BY <1>2, <1>3 DEF HitLike
<1>5. \A u \in Unit : q[u].status = "deployed" =>
        /\ p[u].status = "deployed" /\ p[u].location = q[u].location
        /\ u \notin G /\ q[u] = r[u]
  BY <1>4
<1>6. IsPosition(q)
  BY <1>2, <1>4 DEF IsPosition, Deployed
<1>7. Follows(p, q, S \cup G)
  BY <1>2 DEF Follows, HitLike
<1>8. IsLegal(q)
  <2>1. ASSUME NEW h \in Hex
        PROVE  /\ At(q, h) \subseteq At(p, h)
               /\ \/ \A u \in At(p, h) : General(u) => u \in At(q, h)
                  \/ \A u \in At(q, h) : General(u)
    <3>1. At(q, h) \subseteq At(p, h)
      BY <1>5 DEF At, Deployed
    <3>2. ASSUME NEW g \in At(p, h), General(g), g \notin At(q, h),
                 NEW u \in At(q, h), ~General(u)
          PROVE  FALSE
      <4>1. g \in Unit /\ p[g].status = "deployed" /\ p[g].location = h /\ g \notin S
        BY <3>2, StandsAt
      <4>2. r[g] = p[g]
        BY <4>1 DEF HitLike
      <4>3. g \in G
        BY <1>2, <3>2, <4>1, <4>2, StandsAt
      <4>4. u \in Unit /\ r[u].status = "deployed" /\ r[u].location = h
        BY <1>5, StandsAt
      <4>5. SideOf[u] = SideOf[g]
        BY <3>1 DEF IsLegal
      <4>6. Supported(r, SideOf[g], r[g].location)
        BY <3>2, <4>1, <4>2, <4>4, <4>5 DEF Supported, Combatants, At, Deployed, Army
      <4> QED BY <4>3, <4>6 DEF LoneGeneral
    <3> QED BY <3>1, <3>2
  <2> QED BY <2>1, PartIsLegal
<1>9. Casualties(p, q, S, G)
  BY <1>5, <1>6, <1>7, <1>8 DEF Casualties
<1> QED BY <1>9 DEF q

\* A combat whose losses are allocated.
LossFields(c, d) ==
  /\ Continues(c, d)
  /\ d.result = c.result /\ d.lossAllocated /\ d.retreated = c.retreated

\* It is one.
LEMMA AllocatedIsCombat ==
  ASSUME NEW c \in Combat
  PROVE  LossFields(c, [c EXCEPT !.lossAllocated = TRUE])
<1> DEFINE d == [c EXCEPT !.lossAllocated = TRUE]
<1>1. /\ d \in Combat /\ d.attackers = c.attackers /\ d.defenders = c.defenders
      /\ d.attackerHexes = c.attackerHexes /\ d.defenderHexes = c.defenderHexes
      /\ d.result = c.result /\ d.lossAllocated /\ d.retreated = c.retreated
  BY DEF Combat
<1> HIDE DEF d
<1>2. LossFields(c, d)
  BY <1>1 DEF LossFields, Continues
<1> QED BY <1>2 DEF d

\* allocateLoss keeps the invariant.
LEMMA AllocatePosition ==
  ASSUME WarInv, NEW side \in Side, NEW c \in combats, NEW allocation \in Allocations(c),
         AllocateLoss(side, c, allocation)
  PROVE  WarInv'
<1>1. /\ c \in Combat /\ activeSide \in Side
      /\ InStage(units, activeSide, c)
      /\ c.attackers \subseteq Combatants(Army(activeSide))
      /\ c.defenders \subseteq Combatants(Army(OtherSide(activeSide)))
      /\ c.attackers \subseteq Unit /\ c.defenders \subseteq Unit
      /\ units \in [Unit -> UnitState] /\ control \in [Objective -> Side]
      /\ IsPosition(units) /\ IsSettled(units) /\ IsLegal(units)
      /\ IsControlled(units, control)
  BY CombatFacts
<1> DEFINE S == c.choice.units
           r == AfterLosses(allocation)
           G == Abandoned(r, side, {units[u].location : u \in S})
           q == Eliminated(r, G)
           c1 == [c EXCEPT !.lossAllocated = TRUE]
           next == NextChoice(q, c1)
<1>2. /\ Replace(c, next) /\ units' = Settled(q) /\ control' = control
      /\ UNCHANGED <<activeSide, phase, turn, ledger, victory>>
      /\ c.choice.kind = "loss" /\ c.choice.side = side /\ Affordable(c, allocation)
  BY DEF AllocateLoss, Accept
<1>3. c.status = "pending_choice" /\ S \in SUBSET Unit
  BY <1>1, <1>2, ChoiceIsPending
<1>4. /\ S = Losers(c) /\ side = Beaten(activeSide, c) /\ ~c.retreated
      /\ Held(units, Losers(c), LoserHexes(c))
      /\ c.result \in {"attacker_win", "defender_win"}
      /\ c.result = "attacker_win" => Held(units, c.attackers, c.attackerHexes)
  BY <1>1, <1>2, <1>3 DEF InStage
<1>5. \A u \in S : /\ ~General(u) /\ u \in Unit /\ u \in Fights(c)
                   /\ units[u].status = "deployed" /\ units[u].location \in LoserHexes(c)
  BY <1>3, <1>4 DEF Held, Combatants, Deployed, Losers, Fights
<1>6. HitLike(units, r, S)
  <2>1. allocation \in [S -> Nat] /\ \A u \in S : allocation[u] <= units[u].steps
    BY <1>2 DEF Allocations, Affordable
  <2> QED BY <1>1, <1>3, <2>1, LossesFields
<1>7. /\ G \in SUBSET Unit
      /\ \A u \in G : LoneGeneral(r, u) /\ General(u) /\ u \in Unit /\ u \notin S
  BY <1>5 DEF Abandoned, Army, LoneGeneral
<1>8. \A u \in G : units[u].status = "deployed" /\ units[u].location \in LoserHexes(c)
  <2> TAKE u \in G
  <2>1. r[u] = units[u]
    BY <1>6, <1>7 DEF HitLike
  <2>2. r[u].status = "deployed"
    BY <1>7 DEF LoneGeneral, Deployed
  <2>3. PICK w \in S : r[u].location = units[w].location
    BY DEF Abandoned
  <2> QED BY <1>5, <2>1, <2>2, <2>3
<1>8a. \A u \in Army(side) : LoneGeneral(r, u) /\ (\E w \in S : r[u].location = units[w].location)
                              => u \in G
  BY DEF Abandoned
<1>8b. \A u \in Unit \ G : q[u] = r[u]
  <2>1. r \in [Unit -> UnitState]
    BY <1>6 DEF HitLike
  <2> HIDE DEF r, G
  <2> QED BY <2>1, EliminatedFields
<1> HIDE DEF r, G
<1>9. Casualties(units, q, S, G)
  BY <1>1, <1>3, <1>5, <1>6, <1>7, CasualtiesPosition
<1> HIDE DEF q
<1>10. IsPosition(q) /\ IsLegal(q) /\ Follows(units, q, S \cup G)
       /\ \A u \in Unit : q[u].status = "deployed" =>
            units[u].status = "deployed" /\ units[u].location = q[u].location /\ u \notin G
  BY <1>9 DEF Casualties
<1>11. IsControlled(q, control)
  BY <1>1, <1>10, FewerControl
<1>12. LoserHexes(c) \subseteq Hexes(c)
  BY DEF LoserHexes, Hexes
<1>13. StaysInCombat(units, q, S \cup G, c)
  BY <1>3, <1>5, <1>7, <1>8, <1>10, <1>12 DEF StaysInCombat
<1>14. LossFields(c, c1)
  BY <1>1, AllocatedIsCombat
<1> HIDE DEF c1
<1>15. /\ Continues(c, c1) /\ c1 \in Combat /\ c1.lossAllocated /\ c1.result = c.result
       /\ c1.attackers = c.attackers /\ c1.defenders = c.defenders
       /\ c1.attackerHexes = c.attackerHexes /\ c1.defenderHexes = c.defenderHexes
  BY <1>14 DEF LossFields, Continues
<1>16. c1.result = "attacker_win" => Held(q, c1.attackers, c1.attackerHexes)
  <2> SUFFICES ASSUME c.result = "attacker_win"
               PROVE  Held(q, c.attackers, c.attackerHexes)
    BY <1>15
  <2>1. Losers(c) = c.defenders /\ LoserHexes(c) = c.defenderHexes
    BY DEF Losers, LoserHexes
  <2>2. c.attackers \cap c.defenders = {} /\ \A u \in c.attackers : ~General(u)
    BY <1>1 DEF Combatants, Army, OtherSide, Side
  <2>3. (S \cup G) \cap c.attackers = {}
    BY <1>4, <1>7, <2>1, <2>2
  <2>4. c.attackerHexes \cap c.defenderHexes = {}
    BY DEF WarInv, CombatInv, CombatsAreParted
  <2>5. Elsewhere(q, S \cup G, c.attackerHexes)
    BY <1>3, <1>5, <1>7, <1>10, <2>1, <2>4 DEF Elsewhere
  <2>6. Held(units, c.attackers, c.attackerHexes)
    BY <1>4
  <2>7. q \in [Unit -> UnitState]
    BY <1>10 DEF IsPosition
  <2> HIDE DEF S
  <2> QED BY <1>1, <1>10, <2>3, <2>5, <2>6, <2>7, HeldStays
<1>17. LosersHome(q, activeSide, c1)
  <2>1. LosersHome(units, activeSide, c)
    BY <1>4, HeldIsHome
  <2>2. Losers(c1) = Losers(c) /\ LoserHexes(c1) = LoserHexes(c)
        /\ Beaten(activeSide, c1) = Beaten(activeSide, c)
    BY <1>15, SameInCombat
  <2> QED BY <1>10, <2>1, <2>2 DEF LosersHome
<1>18. Led(q, Stacked(q, Losers(c1), Beaten(activeSide, c1), LoserHexes(c1)))
  <2> DEFINE stack == Stacked(q, Losers(c), side, LoserHexes(c))
  <2>1. Losers(c1) = Losers(c) /\ LoserHexes(c1) = LoserHexes(c) /\ Beaten(activeSide, c1) = side
    BY <1>4, <1>15, SameInCombat
  <2> SUFFICES ASSUME NEW u \in stack
               PROVE  /\ q[u].status = "deployed"
                      /\ \E w \in stack : /\ ~General(w) /\ q[w].status = "deployed"
                                          /\ q[w].location = q[u].location
    BY <2>1 DEF Led
  <2>2. /\ u \in Unit /\ q[u].status = "deployed"
        /\ u \in S \/ (u \in Army(side) /\ q[u].location \in LoserHexes(c))
    BY <1>4 DEF Stacked, Deployed
  <2>3. CASE General(u)
    <3>1. /\ u \notin S /\ u \in Army(side) /\ q[u].location \in LoserHexes(c)
          /\ units[u].location = q[u].location /\ u \notin G
      BY <1>5, <1>10, <2>2, <2>3
    <3>2. r[u] = q[u]
      BY <1>8b, <2>2, <3>1
    <3>3. PICK w \in S : units[w].location = r[u].location
      BY <1>4, <3>1, <3>2 DEF Held
    <3>4. ~LoneGeneral(r, u)
      BY <1>8a, <3>1, <3>3
    <3>5. Supported(r, side, r[u].location)
      BY <2>2, <2>3, <3>1, <3>2, <3>4 DEF LoneGeneral, Deployed, Army
    <3>6. PICK x \in Unit : /\ ~General(x) /\ x \in Army(side) /\ r[x].status = "deployed"
                            /\ r[x].location = r[u].location
      BY <3>5 DEF Supported, Combatants, At, Deployed
    <3>7. q[x] = r[x]
      BY <1>7, <1>8b, <3>6
    <3>8. x \in stack
      BY <3>1, <3>2, <3>6, <3>7 DEF Stacked, Deployed
    <3> QED BY <2>2, <3>2, <3>6, <3>7, <3>8
  <2>4. CASE ~General(u)
    BY <2>2, <2>4
  <2> QED BY <2>3, <2>4
<1>18a. IsDecided(q, activeSide, c1)
  BY <1>1, <1>4, <1>15, <1>16, <1>17, <1>18 DEF IsDecided
<1>19. Continues(c1, next) /\ InStage(q, activeSide, next) /\ AreThere(q, next.choice.units)
  BY <1>1, <1>10, <1>15, <1>18a, NextChoiceStage
<1> HIDE DEF next
<1>20. Continues(c, next)
  BY <1>15, <1>19, ContinuesOn
<1> QED BY <1>1, <1>2, <1>10, <1>11, <1>13, <1>19, <1>20, CombatCommand

-----------------------------------------------------------------------------
(* Retreats.                                                               *)

\* Who moves may be overestimated.
LEMMA FollowsMore ==
  ASSUME NEW p, NEW q, NEW M, NEW N, Follows(p, q, M), M \subseteq N
  PROVE  Follows(p, q, N)
<1> SUFFICES ASSUME NEW u \in Unit \ N
             PROVE  q[u] = p[u] \/ (MayBeLost(p, N, u) /\ q[u] = Captured(p, u))
  BY DEF Follows
<1>1. q[u] = p[u] \/ (MayBeLost(p, M, u) /\ q[u] = Captured(p, u))
  BY DEF Follows
<1>2. MayBeLost(p, M, u) => MayBeLost(p, N, u)
  BY DEF MayBeLost
<1> QED BY <1>1, <1>2

\* A combat whose loser has retreated.
RetreatedFields(c, d) ==
  /\ Continues(c, d)
  /\ d.result = c.result /\ d.losses = c.losses /\ d.lossAllocated = c.lossAllocated /\ d.retreated

\* It is one.
LEMMA RetreatedIsCombat ==
  ASSUME NEW c \in Combat
  PROVE  RetreatedFields(c, [c EXCEPT !.retreated = TRUE])
<1> DEFINE d == [c EXCEPT !.retreated = TRUE]
<1>1. /\ d \in Combat /\ d.attackers = c.attackers /\ d.defenders = c.defenders
      /\ d.attackerHexes = c.attackerHexes /\ d.defenderHexes = c.defenderHexes
      /\ d.result = c.result /\ d.losses = c.losses
      /\ d.lossAllocated = c.lossAllocated /\ d.retreated
  BY DEF Combat
<1> HIDE DEF d
<1>2. RetreatedFields(c, d)
  BY <1>1 DEF RetreatedFields, Continues
<1> QED BY <1>2 DEF d

\* A combat of which fewer counters are still to retreat.
FewerFields(c, d, few) ==
  /\ Continues(c, d)
  /\ d.result = c.result /\ d.losses = c.losses /\ d.lossAllocated = c.lossAllocated
  /\ d.retreated = c.retreated /\ d.status = c.status
  /\ d.choice.kind = c.choice.kind /\ d.choice.side = c.choice.side /\ d.choice.units = few

\* It is one.
LEMMA FewerIsCombat ==
  ASSUME NEW c \in Combat, NEW few \in SUBSET Unit
  PROVE  FewerFields(c, [c EXCEPT !.choice.units = few], few)
<1> DEFINE x == c.choice
           y == [x EXCEPT !.units = few]
           d == [c EXCEPT !.choice = y]
<1>1. x \in Choice
  BY DEF Combat
<1>2. /\ y \in Choice /\ y.kind = x.kind /\ y.side = x.side /\ y.units = few
  BY <1>1 DEF Choice
<1>3. [c EXCEPT !.choice.units = few] = d
  BY DEF Combat
<1> HIDE DEF y
<1>4. /\ d \in Combat /\ d.attackers = c.attackers /\ d.defenders = c.defenders
      /\ d.attackerHexes = c.attackerHexes /\ d.defenderHexes = c.defenderHexes
      /\ d.result = c.result /\ d.losses = c.losses /\ d.status = c.status
      /\ d.lossAllocated = c.lossAllocated /\ d.retreated = c.retreated /\ d.choice = y
  BY <1>2 DEF Combat
<1> HIDE DEF d
<1>5. FewerFields(c, d, few)
  BY <1>2, <1>4 DEF FewerFields, Continues
<1> QED BY <1>3, <1>5

\* A group has gone or been hit, and nobody else stands where it is now.
LEMMA DisplacedStage ==
  ASSUME WarInv, NEW c \in combats, c.choice.kind = "retreat",
         NEW h, NEW ids, ids = RetreatGroup(c, h), NEW q, IsPosition(q), IsLegal(q),
         Follows(units, q, ids),
         \A u \in ids : q[u].status = "deployed" => At(q, q[u].location) \subseteq ids
  PROVE  /\ Continues(c, AfterDisplacement(q, c, ids))
         /\ InStage(q, activeSide, AfterDisplacement(q, c, ids))
         /\ AreThere(q, AfterDisplacement(q, c, ids).choice.units)
         /\ StaysInCombat(units, q, ids, c)
<1>1. /\ c \in Combat /\ activeSide \in Side
      /\ InStage(units, activeSide, c)
      /\ c.attackers \subseteq Combatants(Army(activeSide))
      /\ c.defenders \subseteq Combatants(Army(OtherSide(activeSide)))
      /\ c.attackers \subseteq Unit /\ c.defenders \subseteq Unit
      /\ units \in [Unit -> UnitState] /\ q \in [Unit -> UnitState]
      /\ IsPosition(units) /\ IsLegal(units)
  BY CombatFacts DEF IsPosition
<1>2. c.status = "pending_choice" /\ c.choice.units \in SUBSET Unit
  BY <1>1, ChoiceIsPending
<1> DEFINE loser == Beaten(activeSide, c)
           stay == c.choice.units \ ids
           few == stay \cap Deployed(q)
           next == AfterDisplacement(q, c, ids)
<1>3. /\ c.choice.side = loser
      /\ c.lossAllocated \/ c.losses = 0
      /\ c.result \in {"attacker_win", "defender_win"}
      /\ c.result = "attacker_win" => Held(units, c.attackers, c.attackerHexes)
      /\ Standing(units, c.choice.units, loser, Losers(c), LoserHexes(c))
      /\ AreWholeStacks(units, c.choice.units)
      /\ Led(units, c.choice.units)
  BY <1>1, <1>2 DEF InStage
<1>4. ids \subseteq c.choice.units /\ ids \in SUBSET Unit
      /\ \A u \in c.choice.units : u \in ids <=> units[u].location = h
  BY <1>2 DEF RetreatGroup
<1>5. Losers(c) \subseteq Fights(c)
  BY DEF Losers, Fights
<1>6. StaysInCombat(units, q, ids, c)
  BY <1>3, <1>4, <1>5 DEF StaysInCombat, Standing
<1>7. \A H : Elsewhere(q, ids, H)
  BY DEF Elsewhere
<1>8. c.result = "attacker_win" => Held(q, c.attackers, c.attackerHexes)
  <2> SUFFICES ASSUME c.result = "attacker_win"
               PROVE  Held(q, c.attackers, c.attackerHexes)
    OBVIOUS
  <2>1. Losers(c) = c.defenders
    BY DEF Losers
  <2>2. c.attackers \cap c.defenders = {} /\ \A u \in c.attackers : ~General(u)
    BY <1>1 DEF Combatants, Army, OtherSide, Side
  <2>3. ids \cap c.attackers = {}
    BY <1>3, <1>4, <2>1, <2>2 DEF Standing
  <2> QED BY <1>1, <1>3, <1>7, <2>3, HeldStays
<1>9. CASE few # {}
  <2>1. /\ stay \in SUBSET Unit /\ ids \cap stay = {}
        /\ Standing(units, stay, loser, Losers(c), LoserHexes(c))
    BY <1>2, <1>3 DEF Standing
  <2>2. AreWholeStacks(units, stay)
    <3> SUFFICES ASSUME NEW u \in stay, units[u].status = "deployed",
                        NEW w \in At(units, units[u].location)
                 PROVE  w \in stay
      BY DEF AreWholeStacks
    <3>1. w \in c.choice.units /\ units[w].location = units[u].location
      BY <1>3, StandsAt DEF AreWholeStacks
    <3> QED BY <1>4, <3>1
  <2> HIDE DEF stay, loser
  <2>3. Standing(q, stay, loser, Losers(c), LoserHexes(c))
    BY <1>1, <2>1, StandingStays
  <2>4. AreWholeStacks(q, stay)
    BY <1>1, <1>7, <2>1, <2>2, WholeStays
  <2>5. /\ few \in SUBSET Unit /\ AreThere(q, few) /\ AreWholeStacks(q, few)
        /\ Standing(q, few, loser, Losers(c), LoserHexes(c))
    BY <2>1, <2>3, <2>4, StandsAt DEF Standing, AreWholeStacks, AreThere, Deployed
  <2>5a. Led(q, stay)
    <3> SUFFICES ASSUME NEW u \in stay
                 PROVE  /\ units[u].status = "deployed"
                        /\ \E w \in stay : /\ ~General(w) /\ units[w].status = "deployed"
                                           /\ units[w].location = units[u].location
      BY <1>1, <2>1, LedStays DEF Led
    <3>1. u \in c.choice.units /\ units[u].location # h
      BY <1>4 DEF stay
    <3>2. PICK w \in c.choice.units :
            ~General(w) /\ units[w].status = "deployed" /\ units[w].location = units[u].location
      BY <1>3, <3>1 DEF Led
    <3>3. w \in stay /\ units[u].status = "deployed"
      BY <1>3, <1>4, <3>1, <3>2 DEF Led, stay
    <3> QED BY <3>2, <3>3
  <2>5b. few # {} /\ Led(q, few)
    <3>1. few = stay
      BY <2>1, <2>5a DEF Led, Deployed
    <3> QED BY <1>9, <2>5a, <3>1
  <2>6. next = [c EXCEPT !.choice.units = few]
    BY <1>9 DEF AfterDisplacement, stay
  <2>7. FewerFields(c, [c EXCEPT !.choice.units = few], few)
    BY <1>1, <2>5, FewerIsCombat
  <2> HIDE DEF next, few
  <2>8. FewerFields(c, next, few)
    BY <2>6, <2>7
  <2>9. /\ Losers(next) = Losers(c) /\ LoserHexes(next) = LoserHexes(c)
        /\ Beaten(activeSide, next) = loser
    BY <2>8, SameInCombat DEF FewerFields, Continues, loser
  <2>10. InStage(q, activeSide, next)
    <3>1. /\ next.status = "pending_choice" /\ next.choice.kind = "retreat"
          /\ next.result = c.result
          /\ next.choice.side = loser /\ next.choice.units = few
          /\ next.attackers = c.attackers /\ next.attackerHexes = c.attackerHexes
      BY <1>2, <1>3, <2>8 DEF FewerFields, Continues, loser
    <3>2. next.lossAllocated \/ next.losses = 0
      BY <1>3, <2>8 DEF FewerFields
    <3>3. /\ next.result = "attacker_win" => Held(q, next.attackers, next.attackerHexes)
          /\ Standing(q, next.choice.units, Beaten(activeSide, next), Losers(next), LoserHexes(next))
          /\ AreWholeStacks(q, next.choice.units)
      BY <1>8, <2>5, <2>9, <3>1
    <3>4. next.choice.units # {} /\ Led(q, next.choice.units)
      BY <2>5b, <3>1
    <3> QED BY <1>3, <2>9, <3>1, <3>2, <3>3, <3>4 DEF InStage
  <2> QED BY <1>6, <2>5, <2>8, <2>10 DEF FewerFields, next
<1>10. CASE few = {}
  <2> DEFINE d == [c EXCEPT !.retreated = TRUE]
  <2>1. next = NextChoice(q, d)
    BY <1>10 DEF AfterDisplacement
  <2>2. RetreatedFields(c, d)
    BY <1>1, RetreatedIsCombat
  <2> HIDE DEF d
  <2>3. Continues(c, d) /\ d \in Combat
    BY <2>2 DEF RetreatedFields, Continues
  <2>4. IsDecided(q, activeSide, d)
    BY <1>1, <1>3, <1>8, <2>2 DEF IsDecided, RetreatedFields, Continues
  <2> HIDE DEF next
  <2>5. Continues(d, next) /\ InStage(q, activeSide, next) /\ AreThere(q, next.choice.units)
    BY <1>1, <2>1, <2>3, <2>4, NextChoiceStage
  <2>6. Continues(c, next)
    BY <2>3, <2>5, ContinuesOn
  <2> QED BY <1>6, <2>5, <2>6 DEF next
<1> QED BY <1>9, <1>10

\* The group of a hex is what stands there.
LEMMA GroupFacts ==
  ASSUME WarInv, NEW c \in combats, c.choice.kind = "retreat", NEW h \in Hex
  PROVE  /\ RetreatGroup(c, h) \subseteq At(units, h)
         /\ RetreatGroup(c, h) # {} => At(units, h) \subseteq RetreatGroup(c, h)
         /\ RetreatGroup(c, h) \in SUBSET Army(c.choice.side)
         /\ RetreatGroup(c, h) \in SUBSET Unit
         /\ c.choice.side \in Side
<1>1. c \in Combat /\ activeSide \in Side /\ InStage(units, activeSide, c)
  BY CombatFacts
<1>2. c.status = "pending_choice" /\ c.choice.units \in SUBSET Unit
  BY <1>1, ChoiceIsPending
<1>3. /\ c.choice.side = Beaten(activeSide, c)
      /\ Standing(units, c.choice.units, c.choice.side, Losers(c), LoserHexes(c))
      /\ AreWholeStacks(units, c.choice.units)
  BY <1>1, <1>2 DEF InStage
<1>4. c.choice.side \in Side
  BY <1>1, <1>3 DEF Beaten, OtherSide, Side
<1>5. ASSUME NEW u \in c.choice.units, units[u].location = h
      PROVE  u \in Unit /\ units[u].status = "deployed" /\ SideOf[u] = c.choice.side
  BY <1>2, <1>3, <1>5, NowhereAssumption DEF Standing
<1>6. RetreatGroup(c, h) \subseteq At(units, h) /\ RetreatGroup(c, h) \in SUBSET Army(c.choice.side)
      /\ RetreatGroup(c, h) \in SUBSET Unit
  BY <1>5, StandsAt DEF RetreatGroup, Army
<1>7. ASSUME NEW u \in RetreatGroup(c, h)
      PROVE  At(units, h) \subseteq RetreatGroup(c, h)
  <2>1. u \in c.choice.units /\ units[u].location = h
    BY DEF RetreatGroup
  <2>2. At(units, h) \subseteq c.choice.units
    BY <1>3, <1>5, <2>1 DEF AreWholeStacks
  <2> QED BY <2>2, StandsAt DEF RetreatGroup
<1> QED BY <1>4, <1>6, <1>7

\* Nobody leaves with nobody.
LEMMA NothingEliminated ==
  ASSUME NEW p \in [Unit -> UnitState]
  PROVE  Eliminated(p, {}) = p
BY DEF Eliminated

\* acceptTrappedLoss keeps the invariant.
LEMMA TrappedPosition ==
  ASSUME WarInv, NEW side \in Side, NEW c \in combats, NEW u \in c.choice.units,
         AcceptTrappedLoss(side, c, u)
  PROVE  WarInv'
<1>1. /\ c \in Combat /\ activeSide \in Side
      /\ InStage(units, activeSide, c)
      /\ units \in [Unit -> UnitState] /\ control \in [Objective -> Side]
      /\ IsPosition(units) /\ IsLegal(units) /\ IsControlled(units, control)
  BY CombatFacts
<1> DEFINE ids == RetreatGroup(c, units[u].location)
           r == AfterLosses([w \in {u} |-> 1])
           q == IF Combatants(ids) \cap Deployed(r) = {}
                  THEN Eliminated(r, ids \ Combatants(ids))
                  ELSE r
           s == Settled(q)
           next == AfterDisplacement(s, c, ids)
<1>2. /\ Replace(c, next) /\ units' = s /\ control' = control
      /\ UNCHANGED <<activeSide, phase, turn, ledger, victory>>
      /\ c.choice.kind = "retreat" /\ u \in Deployed(units) /\ ~General(u)
  BY DEF AcceptTrappedLoss, Accept, OwesRetreat
<1>3. u \in Unit /\ units[u].status = "deployed" /\ units[u].location \in Hex
      /\ units[u].steps \in 0..2 /\ units[u].steps # 0
  BY <1>1, <1>2 DEF IsPosition, Deployed, UnitState
<1> DEFINE h == units[u].location
<1>4. /\ ids \subseteq At(units, h) /\ ids \in SUBSET Unit /\ u \in ids
      /\ At(units, h) \subseteq ids
  <2>1. u \in ids
    BY DEF RetreatGroup
  <2> QED BY <1>2, <1>3, <2>1, GroupFacts
<1>5. HitLike(units, r, {u})
  <2> DEFINE one == [w \in {u} |-> 1]
  <2>1. one \in [{u} -> Nat] /\ one[u] = 1
    OBVIOUS
  <2> HIDE DEF one
  <2>2. \A w \in {u} : one[w] <= units[w].steps
    BY <1>3, <2>1
  <2>3. {u} \in SUBSET Unit
    BY <1>3
  <2>4. HitLike(units, AfterLosses(one), {u})
    BY <1>1, <2>1, <2>2, <2>3, LossesFields
  <2> QED BY <2>4 DEF one
<1> HIDE DEF r, ids
<1>6. \E G \in SUBSET ids : q = Eliminated(r, G) /\ \A g \in G : LoneGeneral(r, g)
  <2>1. CASE Combatants(ids) \cap Deployed(r) = {}
    <3>1. ASSUME NEW g \in ids \ Combatants(ids)
          PROVE  LoneGeneral(r, g)
      <4>1. General(g) /\ g \in Unit /\ units[g].status = "deployed" /\ units[g].location = h
        BY <1>4, StandsAt DEF Combatants
      <4>2. r[g] = units[g]
        BY <1>2, <1>5, <4>1 DEF HitLike
      <4>3. ASSUME NEW w \in Combatants(At(r, h)) PROVE FALSE
        <5>1. w \in Unit /\ ~General(w) /\ r[w].status = "deployed" /\ r[w].location = h
          BY StandsAt DEF Combatants
        <5>2. units[w].status = "deployed" /\ units[w].location = h
          BY <1>5, <5>1 DEF HitLike
        <5>3. w \in ids
          BY <1>4, <5>1, <5>2, StandsAt
        <5> QED BY <2>1, <5>1, <5>3 DEF Combatants, Deployed
      <4> QED BY <4>1, <4>2, <4>3 DEF LoneGeneral, Supported, Deployed
    <3> QED BY <2>1, <3>1
  <2>2. CASE Combatants(ids) \cap Deployed(r) # {}
    <3>1. q = Eliminated(r, {})
      BY <1>5, <2>2, NothingEliminated DEF HitLike
    <3> QED BY <3>1
  <2> QED BY <2>1, <2>2
<1>7. PICK G \in SUBSET ids : q = Eliminated(r, G) /\ \A g \in G : LoneGeneral(r, g)
  BY <1>6
<1> HIDE DEF q
<1>8. Casualties(units, q, {u}, G)
  <2>1. G \in SUBSET Unit /\ {u} \in SUBSET Unit /\ \A w \in {u} : ~General(w)
    BY <1>2, <1>3, <1>4
  <2> HIDE DEF h
  <2> QED BY <1>1, <1>5, <1>7, <2>1, CasualtiesPosition
<1>9. /\ IsPosition(q) /\ IsLegal(q) /\ Follows(units, q, {u} \cup G)
      /\ q \in [Unit -> UnitState]
      /\ \A w \in Unit : q[w].status = "deployed" =>
           units[w].status = "deployed" /\ units[w].location = q[w].location
  BY <1>8 DEF Casualties, IsPosition
<1>10. IsControlled(q, control)
  BY <1>1, <1>9, FewerControl
<1>11. /\ IsPosition(s) /\ IsLegal(s) /\ IsControlled(s, control)
  BY <1>9, <1>10, SettledHolds
<1>12. Settled(s) = s
  BY <1>9, SettledTwice
<1>13. s \in [Unit -> UnitState] /\ Follows(q, s, {})
  BY <1>9, SettledFields
<1> HIDE DEF s
<1>14. Follows(units, s, ids)
  <2>1. Follows(units, s, {u} \cup G \cup {})
    BY <1>1, <1>9, <1>13, FollowsOn
  <2>2. {u} \cup G \cup {} \subseteq ids
    BY <1>4
  <2> QED BY <2>1, <2>2, FollowsMore
<1>15. \A w \in Unit : s[w].status = "deployed" =>
         units[w].status = "deployed" /\ units[w].location = s[w].location
  <2> TAKE w \in Unit
  <2>1. w \notin {}
    OBVIOUS
  <2>2. s[w].status = "deployed" => s[w] = q[w]
    BY <1>9, <1>13, <2>1, Remains
  <2> QED BY <1>9, <2>2
<1>16. \A w \in ids : s[w].status = "deployed" => At(s, s[w].location) \subseteq ids
  BY <1>4, <1>15, StandsAt
<1>17. /\ Continues(c, next) /\ InStage(s, activeSide, next)
       /\ AreThere(s, next.choice.units) /\ StaysInCombat(units, s, ids, c)
  BY <1>2, <1>11, <1>14, <1>16, DisplacedStage DEF ids
<1> HIDE DEF next
<1>18. units' = Settled(s)
  BY <1>2, <1>12
<1> QED BY <1>1, <1>2, <1>11, <1>14, <1>17, <1>18, CombatCommand

\* retreatUnit, retreatStack and retreatOffBoard keep the invariant.
LEMMA RetreatPosition ==
  ASSUME WarInv, NEW side \in Side, NEW c \in combats, NEW origin \in Hex, NEW exit \in BOOLEAN,
         Retreat(side, c, origin, exit)
  PROVE  WarInv'
<1>1. /\ c \in Combat /\ activeSide \in Side
      /\ InStage(units, activeSide, c)
      /\ units \in [Unit -> UnitState] /\ control \in [Objective -> Side]
      /\ IsPosition(units) /\ IsSettled(units) /\ IsLegal(units) /\ IsControlled(units, control)
  BY CombatFacts
<1> DEFINE ids == RetreatGroup(c, origin)
<1>2. Settled(units) = units
  BY <1>1, SettledIsSame
<1>3. /\ c.choice.kind = "retreat" /\ c.choice.side = side /\ ids # {}
      /\ UNCHANGED <<activeSide, phase, turn, ledger, victory>>
  BY DEF Retreat, OwesRetreat
<1>4. PICK path \in RetreatPaths(units, ids, side, exit) :
        LET moved == AfterRetreat(units, ids, path)
            position == IF exit THEN Exited(moved, ids, 0) ELSE moved
        IN /\ Replace(c, AfterDisplacement(position, c, ids))
           /\ Accept(position)
           /\ control' = Controlled(control, Entered(path), side)
  BY <1>2 DEF Retreat
<1>5. /\ ids \subseteq At(units, origin) /\ At(units, origin) \subseteq ids
      /\ ids \in SUBSET Army(side) /\ ids \in SUBSET Unit
  BY <1>3, GroupFacts
<1>6. Source(units, ids) = origin
  BY <1>3, <1>5, SourceIs
<1>7. SetsOut(units, side, ids, origin)
  BY <1>1, <1>5 DEF SetsOut
<1> DEFINE moved == AfterRetreat(units, ids, path)
           q == IF exit THEN Exited(moved, ids, 0) ELSE moved
           held == Controlled(control, Entered(path), side)
           next == AfterDisplacement(q, c, ids)
<1>8. Replace(c, next) /\ units' = Settled(q) /\ control' = held
  BY <1>4 DEF Accept
<1> HIDE DEF ids
<1>9. /\ path \in Prefixes(units, ids, side) /\ StackFits(ids)
      /\ ~exit => Complete(units, ids, side, path)
  BY DEF RetreatPaths
<1>10. IsRoute(path, origin, Passable(units, ids, side))
  BY <1>6, <1>9, PrefixesAreRoutes
<1>11. path \in Seq(Hex) /\ Len(path) >= 1
  BY <1>10 DEF IsRoute
<1>12. Arrived(units, moved, side, ids, path)
  BY <1>7, <1>10, RetreatArrives
<1> HIDE DEF moved
<1>13. /\ IsPosition(moved) /\ Follows(units, moved, ids)
       /\ moved \in [Unit -> UnitState]
       /\ \A u \in ids : moved[u].status = "deployed" => moved[u].location = path[Len(path)]
       /\ \A e \in Unit : SideOf[e] # side /\ moved[e].status = "deployed" =>
                            moved[e].location \notin Entered(path)
  BY <1>12 DEF Arrived, OnTheWay, IsPosition
<1>14. held \in [Objective -> Side]
  BY <1>1, ControlType
<1>15. IsControlled(moved, held)
  BY <1>1, <1>7, <1>11, <1>12, ArrivedIsControlled
<1> HIDE DEF held
<1>16. StackFits(At(units, origin) \ ids)
  <2>1. At(units, origin) \ ids = {}
    BY <1>5
  <2> QED BY <2>1, NobodyFits
<1>17. /\ IsPosition(q) /\ IsLegal(q) /\ IsControlled(q, held) /\ Follows(units, q, ids)
       /\ \A u \in ids : q[u].status = "deployed" => At(q, q[u].location) \subseteq ids
  <2>1. CASE exit
    <3>1. q = Exited(moved, ids, 0)
      BY <2>1
    <3> HIDE DEF q
    <3>2. 0 \in Nat
      OBVIOUS
    <3>3. /\ IsPosition(q) /\ Follows(units, q, ids)
          /\ \A u \in ids : q[u].status # "deployed"
          /\ \A u \in Unit : q[u].status = "deployed" =>
               moved[u].status = "deployed" /\ moved[u].location = q[u].location
      BY <1>1, <1>5, <1>13, <3>1, <3>2, ExitedFollows
    <3>4. q \in [Unit -> UnitState]
      BY <3>3 DEF IsPosition
    <3>5. IsLegal(q)
      BY <1>1, <1>5, <1>16, <3>3, <3>4, GoneIsLegal
    <3>6. IsControlled(q, held)
      BY <1>15, <3>3, FewerControl
    <3> QED BY <3>3, <3>5, <3>6
  <2>2. CASE ~exit
    <3>1. q = moved
      BY <2>2
    <3> HIDE DEF q
    <3> DEFINE n == Len(path)
               d == path[n]
    <3>2. n > 1 /\ d \notin Friendly(units, ids, side)
      BY <1>9, <2>2 DEF Complete
    <3>3. n \in Nat /\ n >= 2 /\ d \in Entered(path)
      <4>1. n \in Nat
        BY <1>11
      <4>2. n >= 2 /\ n \in 2..n
        <5> HIDE DEF n
        <5> QED BY <3>2, <4>1
      <4> QED BY <4>1, <4>2 DEF Entered
    <3>4. At(units, d) \cap Army(side) \subseteq ids
      BY <3>2 DEF Friendly, At, Deployed, Army
    <3>5. \A u \in At(q, d) : u \in ids
      <4> SUFFICES ASSUME NEW u \in At(q, d), u \notin ids PROVE FALSE
        OBVIOUS
      <4>1. u \in Unit /\ q[u].status = "deployed" /\ q[u].location = d
        BY StandsAt
      <4>2. SideOf[u] = side
        BY <1>13, <3>1, <3>3, <4>1
      <4>3. q[u] = units[u]
        BY <1>1, <1>13, <3>1, <4>1, Remains
      <4>4. u \in At(units, d)
        BY <4>1, <4>3, StandsAt
      <4> QED BY <3>4, <4>1, <4>2, <4>4 DEF Army
    <3>6. StackFits(ids \cup (At(units, d) \cap Army(side)))
      <4>1. ids \cup (At(units, d) \cap Army(side)) = ids
        BY <3>4
      <4> QED BY <1>9, <4>1
    <3>7. IsLegal(q)
      <4>1. Len(path) >= 2 /\ d = path[Len(path)] /\ Arrived(units, q, side, ids, path)
        BY <1>12, <3>1, <3>3
      <4> HIDE DEF d, n
      <4> QED BY <1>1, <1>5, <1>7, <1>11, <1>16, <3>4, <3>6, <4>1, ArrivedIsLegal
    <3>8. \A u \in ids : q[u].status = "deployed" => At(q, q[u].location) \subseteq ids
      BY <1>13, <3>1, <3>5
    <3> QED BY <1>13, <1>15, <3>1, <3>7, <3>8
  <2> QED BY <2>1, <2>2
<1> HIDE DEF q
<1>18. /\ Continues(c, next) /\ InStage(q, activeSide, next)
       /\ AreThere(q, next.choice.units) /\ StaysInCombat(units, q, ids, c)
  BY <1>3, <1>17, DisplacedStage DEF ids
<1> HIDE DEF next
<1> QED BY <1>3, <1>8, <1>14, <1>17, <1>18, CombatCommand

-----------------------------------------------------------------------------
(* The theorems.                                                           *)

\* createMandatoryInitialState: the game begins with a legal board.
LEMMA InitWar == Init => WarInv
<1> SUFFICES ASSUME Init PROVE WarInv
  OBVIOUS
<1> DEFINE s(u) == [status |-> IF Setup[u] = Nowhere THEN "reinforcement" ELSE "deployed",
                    strength |-> "full", location |-> Setup[u],
                    steps |-> FullSteps[u], spent |-> 0]
<1>1. units = [u \in Unit |-> s(u)]
  BY DEF Init
<1>2. ASSUME NEW u \in Unit
      PROVE  /\ units[u] \in UnitState
             /\ units[u].status = (IF Setup[u] = Nowhere THEN "reinforcement" ELSE "deployed")
             /\ units[u].location = Setup[u] /\ units[u].steps # 0
  <2>1. Setup[u] \in Hex \cup {Nowhere} /\ FullSteps[u] \in 1..2
    BY ScenarioAssumption, UnitAssumption
  <2>2. /\ s(u) \in UnitState /\ s(u).location = Setup[u] /\ s(u).steps = FullSteps[u]
        /\ s(u).status = (IF Setup[u] = Nowhere THEN "reinforcement" ELSE "deployed")
    BY <2>1 DEF UnitState
  <2>3. units[u] = s(u)
    BY <1>1
  <2>4. FullSteps[u] # 0
    BY <2>1
  <2> HIDE DEF s
  <2> QED BY <2>2, <2>3, <2>4
<1>3. units \in [Unit -> UnitState]
  BY <1>1, <1>2
<1>4. \A u \in Unit : /\ units[u].status = "deployed" => Setup[u] # Nowhere /\ Setup[u] \in Hex
                      /\ Setup[u] # Nowhere => units[u].status = "deployed"
                      /\ units[u].location = Setup[u] /\ units[u].steps # 0
  BY <1>2, ScenarioAssumption
<1> HIDE DEF s
<1>5. IsPosition(units)
  BY <1>3, <1>4 DEF IsPosition, Deployed
<1>6. IsSettled(units)
  <2> SUFFICES ASSUME NEW u \in Unit, LoneGeneral(units, u) PROVE FALSE
    BY DEF IsSettled
  <2>1. General(u) /\ units[u].status = "deployed" /\ ~Supported(units, SideOf[u], units[u].location)
    BY DEF LoneGeneral, Deployed
  <2>2. PICK w \in Unit : ~General(w) /\ Setup[w] = Setup[u]
    BY <1>4, <2>1, ScenarioAssumption
  <2>3. SideOf[w] = SideOf[u] /\ units[w].status = "deployed" /\ units[w].location = units[u].location
    BY <1>4, <2>1, <2>2, ScenarioAssumption
  <2>4. w \in Combatants(At(units, units[u].location)) \cap Army(SideOf[u])
    BY <2>2, <2>3 DEF Combatants, At, Deployed, Army
  <2> QED BY <2>1, <2>4 DEF Supported
<1>7. IsLegal(units)
  <2> SUFFICES ASSUME NEW h \in Hex
               PROVE  StackFits(At(units, h)) /\ \A u, w \in At(units, h) : SideOf[u] = SideOf[w]
    BY DEF IsLegal
  <2>1. At(units, h) = {u \in Unit : Setup[u] = h}
    BY <1>4, NowhereAssumption DEF At, Deployed
  <2>2. StackFits({u \in Unit : Setup[u] = h})
    BY ScenarioAssumption
  <2>3. \A u, w \in Unit : Setup[u] = h /\ Setup[w] = h => SideOf[u] = SideOf[w]
    BY ScenarioAssumption, NowhereAssumption
  <2> QED BY <2>1, <2>2, <2>3
<1>8. IsControlled(units, control)
  BY <1>4, ScenarioAssumption DEF IsControlled, Deployed, Init
<1>9. CombatInv
  BY DEF Init, CombatInv, CombatsAreParted, ChoicesAreApart, EveryContactIsFought
<1>10. TypeOK
  BY <1>3 DEF Init, TypeOK, Side, Ledger, NoMoves
<1> QED BY <1>5, <1>6, <1>7, <1>8, <1>9, <1>10 DEF WarInv, PositionInv

\* Nothing happens.
LEMMA StutterWar ==
  ASSUME WarInv, UNCHANGED vars
  PROVE  WarInv'
<1>1. PositionInv'
  BY PositionStays DEF WarInv, vars
<1>2. units' = units /\ combats' = combats /\ phase' = phase /\ activeSide' = activeSide
  BY DEF vars
<1>3. CombatInv'
  <2>1. \A c \in combats : InStage(units, activeSide, c)'
    BY <1>2 DEF WarInv, CombatInv, InStage, Held, Standing, AreWholeStacks, Led, StepsOf, Beaten,
                At, Deployed, Losers, LoserHexes, Combatants
  <2>2. CombatsAreParted' /\ ChoicesAreApart'
    BY <1>2 DEF WarInv, CombatInv, CombatsAreParted, ChoicesAreApart
  <2>3. EveryContactIsFought'
    BY <1>2 DEF WarInv, CombatInv, EveryContactIsFought
  <2> QED BY <1>2, <2>1, <2>2, <2>3 DEF WarInv, CombatInv
<1>4. TypeOK'
  BY DEF WarInv, TypeOK, vars
<1> QED BY <1>1, <1>3, <1>4 DEF WarInv

\* Every command the reducer accepts keeps the invariant.
LEMMA StepWar ==
  ASSUME WarInv, [Next]_vars
  PROVE  WarInv'
<1>1. CASE UNCHANGED vars
  BY <1>1, StutterWar
<1>2. CASE GameOver
  BY <1>2, StutterWar DEF GameOver
<1>3. ASSUME NEW side \in Side, EndPhase(side)
      PROVE  WarInv'
  BY <1>3, EndPhasePosition
<1>4. ASSUME NEW side \in Side, NEW c \in combats, NEW result \in {"attacker_win", "defender_win"},
             NEW losses \in 0..2, ConfirmCombatResult(side, c, result, losses)
      PROVE  WarInv'
  BY <1>4, ConfirmPosition
<1>5. ASSUME NEW side \in Side, NEW c \in combats, NEW allocation \in Allocations(c),
             AllocateLoss(side, c, allocation)
      PROVE  WarInv'
  BY <1>5, AllocatePosition
<1>6. ASSUME NEW side \in Side, NEW c \in combats, DeclineAdvance(side, c)
      PROVE  WarInv'
  BY <1>6, DeclinePosition
<1>7. ASSUME NEW side \in Side, NEW c \in combats, NEW h \in Hex, NEW movers \in SUBSET c.choice.units,
             Advance(side, c, movers, h)
      PROVE  WarInv'
  BY <1>7, AdvancePosition
<1>8. ASSUME NEW side \in Side, NEW c \in combats, NEW u \in c.choice.units,
             AcceptTrappedLoss(side, c, u)
      PROVE  WarInv'
  BY <1>8, TrappedPosition
<1>9. ASSUME NEW side \in Side, NEW c \in combats, NEW h \in Hex, NEW exit \in BOOLEAN,
             Retreat(side, c, h, exit)
      PROVE  WarInv'
  BY <1>9, RetreatPosition
<1>10. ASSUME NEW side \in Side,
              NEW arriving \in SUBSET {u \in Army(side) : units[u].status = "reinforcement"},
              NEW h \in EdgeHexes, EnterReinforcement(side, arriving, h)
       PROVE  WarInv'
  BY <1>10, EnterPosition
<1>11. ASSUME NEW side \in Side, NEW movers \in Stacks(side), ExitBoard(side, movers)
       PROVE  WarInv'
  BY <1>11, ExitPosition
<1>12. ASSUME NEW side \in Side, NEW movers \in Stacks(side), NEW h \in Hex, Move(side, movers, h)
       PROVE  WarInv'
  BY <1>12, MovePosition
<1> QED BY <1>1, <1>2, <1>3, <1>4, <1>5, <1>6, <1>7, <1>8, <1>9, <1>10, <1>11, <1>12 DEF Next

\* The invariant on which the theorems below rest.
LEMMA WarInvariant == Spec => []WarInv
<1>1. Init => WarInv
  BY InitWar
<1>2. WarInv /\ [Next]_vars => WarInv'
  BY StepWar
<1> QED BY <1>1, <1>2, PTL DEF Spec

\* The parts of the invariant that the theorems name.
LEMMA WarIsLegal == WarInv => StacksAreLegal
BY DEF WarInv, PositionInv, IsLegal, StacksAreLegal

LEMMA WarIsControlled == WarInv => OccupiersControl
BY DEF WarInv, PositionInv, IsControlled, OccupiersControl

LEMMA WarIsFought == WarInv => EveryContactIsFought
BY DEF WarInv, CombatInv

LEMMA WarIsIndependent == WarInv => CombatsAreIndependent
<1> SUFFICES ASSUME WarInv PROVE CombatsAreIndependent
  OBVIOUS
<1>1. TypeOK /\ CombatsAreParted /\ ChoicesAreApart
      /\ combats \in SUBSET Combat /\ (combats # {} => activeSide \in Side)
      /\ \A c \in combats : InStage(units, activeSide, c)
  BY DEF WarInv, CombatInv, TypeOK
<1>2. UnconfirmedCombatsAreIntact
  <2> SUFFICES ASSUME NEW c \in combats, c.status = "awaiting_result_confirmation"
               PROVE  /\ c.attackers = Fighters(c.attackerHexes, activeSide)
                      /\ c.defenders = Fighters(c.defenderHexes, OtherSide(activeSide))
    BY DEF UnconfirmedCombatsAreIntact
  <2>1. Held(units, c.attackers, c.attackerHexes) /\ Held(units, c.defenders, c.defenderHexes)
    BY <1>1 DEF InStage
  <2>2. /\ c.attackers \subseteq Army(activeSide)
        /\ c.defenders \subseteq Army(OtherSide(activeSide))
    BY <1>1 DEF CombatsAreParted, Combatants
  <2>3. c.attackers = Fighters(c.attackerHexes, activeSide)
    BY <2>1, <2>2 DEF Held, Fighters
  <2>4. c.defenders = Fighters(c.defenderHexes, OtherSide(activeSide))
    BY <2>1, <2>2 DEF Held, Fighters
  <2> QED BY <2>3, <2>4
<1>3. CombatsAreDisjoint
  <2> SUFFICES ASSUME NEW c \in combats, NEW d \in combats, c # d
               PROVE  Involved(c) \cap Involved(d) = {}
    BY DEF CombatsAreDisjoint
  <2>1. activeSide \in Side /\ c \in Combat /\ d \in Combat
        /\ InStage(units, activeSide, c) /\ InStage(units, activeSide, d)
    BY <1>1
  <2>2. /\ Apart(c, d) /\ \A u \in Fights(c) : ~General(u)
        /\ \A u \in Fights(d) : ~General(u)
    BY <1>1, <2>1, PartedFacts
  <2>3. c.choice.units \cap d.choice.units = {}
    BY <1>1 DEF ChoicesAreApart
  <2>4. c.choice.units \cap Fights(d) = {} /\ d.choice.units \cap Fights(c) = {}
    BY <2>1, <2>2, ChoiceFacts DEF Apart
  <2> QED BY <2>2, <2>3, <2>4 DEF Involved, Apart, Fights
<1> QED BY <1>2, <1>3 DEF CombatsAreIndependent

-----------------------------------------------------------------------------
(* Every choice has an answer.                                             *)

\* One more step of canFinish.
Wider(p, ids, side, excluded, S) ==
  UNION {{h} \cup ((AdjacentHexes[h] \cap Passable(p, ids, side)) \ excluded) : h \in S}

\* Where a retreat may end: in an empty hex or over the edge.
Ends(p, ids, side) == {h \in Hex : h \notin Friendly(p, ids, side) \/ h \in EdgeHexes}

\* The hexes canFinish reaches with so many steps.
Spread(w, p, ids, side, start, excluded) ==
  /\ w \in [0..Cardinality(Hex) -> SUBSET Hex]
  /\ w[0] = {start}
  /\ \A n \in 1..Cardinality(Hex) : w[n] = Wider(p, ids, side, excluded, w[n - 1])
  /\ CanFinish(p, ids, side, start, excluded)
       <=> \E h \in w[Cardinality(Hex)] : h \in Ends(p, ids, side)

\* It does.
LEMMA FinishSpreads ==
  ASSUME NEW p, NEW ids, NEW side, NEW start \in Hex, NEW excluded
  PROVE  \E w : Spread(w, p, ids, side, start, excluded)
<1> DEFINE n == Cardinality(Hex)
           X == SUBSET Hex
           step == [k \in 0..n |-> [y \in X |-> Wider(p, ids, side, excluded, y)]]
           w == CHOOSE w : w =
                  [k \in 0..n |->
                     IF k = 0 THEN {start}
                     ELSE UNION {{h} \cup ((AdjacentHexes[h] \cap Passable(p, ids, side)) \ excluded) :
                                   h \in w[k - 1]}]
<1>1. CanFinish(p, ids, side, start, excluded)
        <=> \E h \in w[n] : h \notin Friendly(p, ids, side) \/ h \in EdgeHexes
  BY DEF CanFinish
<1>2. n \in Nat /\ n >= 1
  BY HexesAreCounted
<1> HIDE DEF n
<1>3. ASSUME NEW y \in X PROVE Wider(p, ids, side, excluded, y) \in X
  BY BoardAssumption DEF Wider
<1>4. Closed(0, n, X, step)
  <2> HIDE DEF X
  <2> QED BY <1>3 DEF Closed
<1>5. PICK f \in [0..n -> X] : \A k \in 0..n : f[k] = IF k = 0 THEN {start} ELSE step[k][f[k - 1]]
  <2>1. 0 \in Nat /\ {start} \in X
    OBVIOUS
  <2> HIDE DEF X, step
  <2>2. Recursive(0, n, X, {start}, step)
    BY <1>2, <1>4, <2>1, Recursion
  <2> QED BY <2>2 DEF Recursive
<1>6. \A k \in 0..n : f[k] = IF k = 0 THEN {start} ELSE Wider(p, ids, side, excluded, f[k - 1])
  <2> SUFFICES ASSUME NEW k \in 0..n, k # 0
               PROVE  f[k] = Wider(p, ids, side, excluded, f[k - 1])
    BY <1>5
  <2> HIDE DEF X
  <2>1. k - 1 \in 0..n
    BY <1>2
  <2>2. f[k - 1] \in X
    BY <2>1
  <2>3. f[k] = step[k][f[k - 1]]
    BY <1>5
  <2> QED BY <2>2, <2>3
<1> HIDE DEF step
<1>7. f = [k \in 0..n |->
             IF k = 0 THEN {start}
             ELSE UNION {{h} \cup ((AdjacentHexes[h] \cap Passable(p, ids, side)) \ excluded) :
                           h \in f[k - 1]}]
  <2>1. f = [k \in 0..n |-> f[k]]
    OBVIOUS
  <2> HIDE DEF X
  <2> QED BY <1>6, <2>1 DEF Wider
<1>8. w = [k \in 0..n |->
             IF k = 0 THEN {start}
             ELSE UNION {{h} \cup ((AdjacentHexes[h] \cap Passable(p, ids, side)) \ excluded) :
                           h \in w[k - 1]}]
  BY <1>7
<1> HIDE DEF w
<1>9. w = [k \in 0..n |-> IF k = 0 THEN {start} ELSE Wider(p, ids, side, excluded, w[k - 1])]
  BY <1>8 DEF Wider
<1>10. w[0] = {start}
  BY <1>2, <1>9
<1>11. \A k \in 1..n : w[k] = Wider(p, ids, side, excluded, w[k - 1])
  <2> TAKE k \in 1..n
  <2>1. k \in 0..n /\ k # 0
    BY <1>2
  <2> QED BY <1>9, <2>1
<1>12. \A k \in 0..n : w[k] \in X
  <2> DEFINE S == {k \in 0..n : w[k] \in X}
  <2>1. 0 \in S
    BY <1>2, <1>10
  <2>2. ASSUME NEW k \in 0..n, k \in S, k < n PROVE k + 1 \in S
    <3>1. k + 1 \in 1..n /\ k + 1 \in 0..n /\ (k + 1) - 1 = k
      BY <1>2, <2>2
    <3>2. w[k + 1] = Wider(p, ids, side, excluded, w[k])
      BY <1>11, <3>1
    <3>3. w[k + 1] \in X
      BY <1>3, <2>2, <3>2
    <3> HIDE DEF X
    <3> QED BY <3>1, <3>3
  <2>3. 0 \in Nat
    OBVIOUS
  <2> HIDE DEF S, X
  <2>4. \A k \in 0..n : k \in S /\ k < n => k + 1 \in S
    BY <2>2
  <2>5. \A k \in 0..n : k \in S
    BY <1>2, <2>1, <2>3, <2>4, Upwards
  <2> QED BY <2>5 DEF S
<1>13. w \in [0..n -> X]
  BY <1>9, <1>12
<1>14. \A h \in w[n] : h \in Hex
  BY <1>2, <1>12
<1>15. CanFinish(p, ids, side, start, excluded) <=> \E h \in w[n] : h \in Ends(p, ids, side)
  BY <1>1, <1>14 DEF Ends
<1>16. Spread(w, p, ids, side, start, excluded)
  BY <1>10, <1>11, <1>13, <1>15 DEF Spread, n
<1> QED BY <1>16

\* What is reached stays reached.
LEMMA SpreadGrows ==
  ASSUME NEW w, NEW p, NEW ids, NEW side, NEW start \in Hex, NEW excluded,
         Spread(w, p, ids, side, start, excluded),
         NEW k \in 0..Cardinality(Hex), NEW h \in w[k]
  PROVE  h \in w[Cardinality(Hex)]
<1> DEFINE n == Cardinality(Hex)
           S == {m \in k..n : h \in w[m]}
<1>1. n \in Nat /\ k \in Nat /\ k <= n
  BY HexesAreCounted
<1> HIDE DEF n
<1>2. k \in S
  BY <1>1
<1>3. ASSUME NEW m \in k..n, m \in S, m < n PROVE m + 1 \in S
  <2>1. m + 1 \in k..n /\ m + 1 \in 1..n /\ (m + 1) - 1 = m
    BY <1>1, <1>3
  <2>2. w[m + 1] = Wider(p, ids, side, excluded, w[m])
    BY <2>1 DEF Spread, n
  <2>3. h \in w[m + 1]
    BY <1>3, <2>2 DEF Wider
  <2> QED BY <2>1, <2>3
<1> HIDE DEF S
<1>4. \A m \in k..n : m \in S /\ m < n => m + 1 \in S
  BY <1>3
<1>5. \A m \in k..n : m \in S
  BY <1>1, <1>2, <1>4, Upwards
<1>6. n \in k..n
  BY <1>1
<1> QED BY <1>5, <1>6 DEF S, n

\* A step on from which a retreat can still be finished.
GoesOn(p, ids, side, last, excluded, g) ==
  /\ g \in (AdjacentHexes[last] \cap Passable(p, ids, side)) \ (excluded \cup {last})
  /\ CanFinish(p, ids, side, g, excluded \cup {last})

\* A way on that does not end where it begins has a first step, never to come back.
LEMMA FinishGoesOn ==
  ASSUME NEW p, NEW ids, NEW side, NEW last \in Hex, NEW excluded,
         CanFinish(p, ids, side, last, excluded), last \notin Ends(p, ids, side)
  PROVE  \E g : GoesOn(p, ids, side, last, excluded, g)
<1> DEFINE n == Cardinality(Hex)
           onward == (AdjacentHexes[last] \cap Passable(p, ids, side)) \ (excluded \cup {last})
           Via(f, m) == \E g \in onward, k \in 0..n : k < m /\ \E z :
                          Spread(z, p, ids, side, g, excluded \cup {last}) /\ f \in z[k]
<1>1. n \in Nat /\ n >= 1
  BY HexesAreCounted
<1>2. \A g \in onward : g \in Hex
  BY BoardAssumption
<1>3. PICK w : Spread(w, p, ids, side, last, excluded)
  BY FinishSpreads
<1> DEFINE S == {m \in 0..n : \A f \in w[m] : f # last => Via(f, m)}
<1> HIDE DEF n
<1>4. 0 \in S
  BY <1>1, <1>3 DEF Spread
<1>5. ASSUME NEW m \in 0..n, m \in S, m < n PROVE m + 1 \in S
  <2>1. m + 1 \in 0..n /\ m + 1 \in 1..n /\ (m + 1) - 1 = m /\ m \in Nat
    BY <1>1, <1>5
  <2>2. w[m + 1] = Wider(p, ids, side, excluded, w[m])
    BY <1>3, <2>1 DEF Spread, n
  <2>3. ASSUME NEW f \in w[m + 1], f # last PROVE Via(f, m + 1)
    <3>1. PICK h \in w[m] : f = h \/ f \in (AdjacentHexes[h] \cap Passable(p, ids, side)) \ excluded
      BY <2>2 DEF Wider
    <3>2. CASE f = h
      <4>1. Via(f, m)
        BY <1>5, <2>3, <3>2
      <4>2a. PICK g \in onward, k \in 0..n : k < m /\ \E z :
                    Spread(z, p, ids, side, g, excluded \cup {last}) /\ f \in z[k]
        BY <4>1
      <4>2. PICK z : Spread(z, p, ids, side, g, excluded \cup {last}) /\ f \in z[k]
        BY <4>2a
      <4>3. k < m + 1
        BY <1>1, <2>1, <4>2a
      <4> HIDE DEF onward
      <4> QED BY <4>2, <4>3
    <3>3. CASE f # h /\ h = last
      <4>1. f \in onward
        BY <2>3, <3>1, <3>3
      <4>2. PICK z : Spread(z, p, ids, side, f, excluded \cup {last})
        BY <1>2, <4>1, FinishSpreads
      <4>3. f \in z[0] /\ 0 \in 0..n /\ 0 < m + 1
        BY <1>1, <2>1, <4>2 DEF Spread
      <4> HIDE DEF onward
      <4> QED BY <4>1, <4>2, <4>3
    <3>4. CASE f # h /\ h # last
      <4>1. Via(h, m)
        BY <1>5, <3>4
      <4>2a. PICK g \in onward, k \in 0..n : k < m /\ \E z :
                    Spread(z, p, ids, side, g, excluded \cup {last}) /\ h \in z[k]
        BY <4>1
      <4>2. PICK z : Spread(z, p, ids, side, g, excluded \cup {last}) /\ h \in z[k]
        BY <4>2a
      <4>3. k + 1 \in 1..n /\ k + 1 \in 0..n /\ k + 1 < m + 1 /\ (k + 1) - 1 = k
        BY <1>1, <2>1, <1>5, <4>2a
      <4>4. z[k + 1] = Wider(p, ids, side, excluded \cup {last}, z[k])
        BY <4>2, <4>3 DEF Spread, n
      <4>5. f \in (AdjacentHexes[h] \cap Passable(p, ids, side)) \ (excluded \cup {last})
        BY <2>3, <3>1, <3>4
      <4>6. f \in z[k + 1]
        BY <4>2, <4>4, <4>5 DEF Wider
      <4> HIDE DEF onward
      <4> QED BY <4>2, <4>3, <4>6
    <3> QED BY <3>2, <3>3, <3>4
  <2> HIDE DEF Via
  <2> QED BY <2>1, <2>3
<1> HIDE DEF S
<1>6. n \in S
  <2>1. 0 \in Nat /\ \A m \in 0..n : m \in S /\ m < n => m + 1 \in S
    BY <1>5
  <2>2. \A m \in 0..n : m \in S
    BY <1>1, <1>4, <2>1, Upwards
  <2> QED BY <1>1, <2>2
<1>7. PICK f \in w[n] : f \in Ends(p, ids, side)
  BY <1>3 DEF Spread, n
<1>8. Via(f, n)
  BY <1>6, <1>7 DEF S
<1>9a. PICK g \in onward, k \in 0..n : k < n /\ \E z :
              Spread(z, p, ids, side, g, excluded \cup {last}) /\ f \in z[k]
  BY <1>8
<1>9. PICK z : Spread(z, p, ids, side, g, excluded \cup {last}) /\ f \in z[k]
  BY <1>9a
<1>10. f \in z[n]
  BY <1>2, <1>9, SpreadGrows DEF n
<1>11. CanFinish(p, ids, side, g, excluded \cup {last})
  BY <1>7, <1>9, <1>10 DEF Spread, n
<1> QED BY <1>9, <1>11 DEF GoesOn

\* The hexes of a path.
Visited(path) == {path[k] : k \in DOMAIN path}

\* A path that visits so many hexes and from which a step leads on.
Underway(path, n, p, ids, side) ==
  /\ path \in Seq(Hex)
  /\ Len(path) = n
  /\ Cardinality(Visited(path)) = n
  /\ ViableSteps(p, ids, side, path) # {}
  /\ n >= 2 => path[n] \in Friendly(p, ids, side)

\* Its longer path.
LEMMA OneHexMore ==
  ASSUME NEW path \in Seq(Hex), Len(path) >= 1, NEW h \in Hex
  PROVE  /\ Append(path, h) \in Seq(Hex)
         /\ Len(Append(path, h)) = Len(path) + 1
         /\ Append(path, h)[Len(path) + 1] = h
         /\ Append(path, h)[Len(path)] = path[Len(path)]
         /\ Visited(Append(path, h))
              = Visited(path) \cup {h}
         /\ Visited(path) \in SUBSET Hex
<1> DEFINE n == Len(path)
           longer == Append(path, h)
<1>1. n \in Nat /\ DOMAIN path = 1..n
  OBVIOUS
<1>2. longer \in Seq(Hex) /\ Len(longer) = n + 1 /\ DOMAIN longer = 1..(n + 1)
  OBVIOUS
<1>3. longer[n + 1] = h /\ \A k \in 1..n : longer[k] = path[k]
  OBVIOUS
<1>4. \A k \in 1..n : path[k] \in Hex
  OBVIOUS
<1>5. n >= 1
  OBVIOUS
<1> HIDE DEF longer, n
<1>6. {longer[k] : k \in 1..(n + 1)} = {path[k] : k \in 1..n} \cup {h}
  <2>1. \A k \in 1..(n + 1) : k \in 1..n \/ k = n + 1
    BY <1>1
  <2>2. \A k \in 1..n : k \in 1..(n + 1)
    BY <1>1
  <2>3. n + 1 \in 1..(n + 1)
    BY <1>1
  <2> QED BY <1>3, <2>1, <2>2, <2>3
<1>7. n \in 1..n
  BY <1>1, <1>5
<1> QED BY <1>1, <1>2, <1>3, <1>4, <1>6, <1>7 DEF longer, n, Visited

\* A step on is to a hex not visited yet.
LEMMA ViableFacts ==
  ASSUME NEW p, NEW ids, NEW side, NEW path, path \in Seq(Hex), Len(path) >= 1,
         NEW h \in ViableSteps(p, ids, side, path)
  PROVE  /\ h \in Hex /\ h \notin Visited(path)
         /\ CanFinish(p, ids, side, h, Visited(path))
<1>1. path[Len(path)] \in Hex
  OBVIOUS
<1>2. AdjacentHexes[path[Len(path)]] \subseteq Hex
  BY <1>1, BoardAssumption
<1> QED BY <1>2 DEF ViableSteps, Visited

\* Wherever zones of control decide, they leave some step that leads on.
LEMMA SomeNextStep ==
  ASSUME NEW p, NEW ids, NEW side, NEW path
  PROVE  /\ NextSteps(p, ids, side, path) \subseteq ViableSteps(p, ids, side, path)
         /\ ViableSteps(p, ids, side, path) # {} => NextSteps(p, ids, side, path) # {}
BY DEF NextSteps

\* A path goes on to where the retreat ends, or to another path that goes on.
LEMMA UnderwayGoesOn ==
  ASSUME NEW p, NEW ids, NEW side, NEW n \in Nat, n >= 1,
         NEW path, Underway(path, n, p, ids, side)
  PROVE  \E h \in NextSteps(p, ids, side, path) :
           \/ h \in Ends(p, ids, side)
           \/ Underway(Append(path, h), n + 1, p, ids, side)
<1> DEFINE V == Visited(path)
<1>1. path \in Seq(Hex) /\ Len(path) = n /\ Len(path) >= 1 /\ Cardinality(V) = n
  BY DEF Underway
<1>2. PICK h \in NextSteps(p, ids, side, path) : TRUE
  BY SomeNextStep DEF Underway
<1>3. h \in ViableSteps(p, ids, side, path)
  BY <1>2, SomeNextStep
<1>4. h \in Hex /\ h \notin V /\ CanFinish(p, ids, side, h, V)
  BY <1>1, <1>3, ViableFacts
<1>5. SUFFICES ASSUME h \notin Ends(p, ids, side)
               PROVE  Underway(Append(path, h), n + 1, p, ids, side)
  BY <1>2
<1> DEFINE longer == Append(path, h)
           W == Visited(longer)
<1>6. /\ longer \in Seq(Hex) /\ Len(longer) = n + 1 /\ longer[n + 1] = h
      /\ W = V \cup {h} /\ V \in SUBSET Hex
  BY <1>1, <1>4, OneHexMore
<1> HIDE DEF longer, V, W
<1>7. PICK g : GoesOn(p, ids, side, h, V, g)
  BY <1>4, <1>5, FinishGoesOn
<1>8. g \in ViableSteps(p, ids, side, longer)
  <2>1. /\ g \in (AdjacentHexes[longer[Len(longer)]] \cap Passable(p, ids, side)) \ W
        /\ CanFinish(p, ids, side, g, W)
    BY <1>6, <1>7 DEF GoesOn
  <2> QED BY <2>1 DEF ViableSteps, W, Visited
<1>9. Cardinality(W) = n + 1
  <2>1. IsFiniteSet(V)
    BY <1>6, BoardAssumption, FS_Subset
  <2> QED BY <1>1, <1>4, <1>6, <2>1, FS_AddElement
<1>10. h \in Friendly(p, ids, side)
  BY <1>4, <1>5 DEF Ends
<1>11. Underway(longer, n + 1, p, ids, side)
  BY <1>6, <1>8, <1>9, <1>10 DEF Underway, W
<1> QED BY <1>11 DEF longer

\* No path that goes on has visited all hexes.
LEMMA UnderwayIsShort ==
  ASSUME NEW p, NEW ids, NEW side, NEW n \in Nat, n >= 1,
         NEW path, Underway(path, n, p, ids, side)
  PROVE  n < Cardinality(Hex)
<1> DEFINE V == Visited(path)
<1>1. path \in Seq(Hex) /\ Len(path) >= 1 /\ Cardinality(V) = n
  BY DEF Underway
<1>2. PICK g \in ViableSteps(p, ids, side, path) : TRUE
  BY DEF Underway
<1>3. g \in Hex /\ g \notin V
  BY <1>1, <1>2, ViableFacts
<1>4. V \in SUBSET Hex
  BY <1>1, <1>3, OneHexMore
<1> HIDE DEF V
<1>5. IsFiniteSet(V) /\ IsFiniteSet(Hex)
  BY <1>4, BoardAssumption, FS_Subset
<1>6. Cardinality(V) <= Cardinality(Hex) /\ (Cardinality(Hex) = Cardinality(V) => Hex = V)
      /\ Cardinality(Hex) \in Nat
  BY <1>4, <1>5, FS_Subset, FS_CardinalityType
<1> QED BY <1>1, <1>3, <1>6

\* A stack that may take a step may retreat: some path validPrefix accepts ends the retreat.
LEMMA RetreatFindsAWay ==
  ASSUME NEW p, NEW ids, NEW side, Source(p, ids) \in Hex,
         NextSteps(p, ids, side, <<Source(p, ids)>>) # {}, NEW w, Growing(w, p, ids, side)
  PROVE  \E path \in Prefixes(p, ids, side) :
           path \in Seq(Hex) /\ Len(path) > 1 /\ path[Len(path)] \in Ends(p, ids, side)
<1> DEFINE n == Cardinality(Hex)
           one == <<Source(p, ids)>>
           Found == \E path \in Prefixes(p, ids, side) :
                      path \in Seq(Hex) /\ Len(path) > 1 /\ path[Len(path)] \in Ends(p, ids, side)
           S == {m \in 1..n : \E path \in w[m] : Underway(path, m, p, ids, side)}
<1>1. n \in Nat /\ n >= 1
  BY HexesAreCounted
<1>2. SUFFICES ASSUME ~Found PROVE FALSE
  OBVIOUS
<1> HIDE DEF Found, n
<1>3. 1 \in S
  <2>1. one \in Seq(Hex) /\ Len(one) = 1 /\ Visited(one) = {Source(p, ids)}
    BY DEF Visited
  <2>2. Cardinality(Visited(one)) = 1
    BY <2>1, FS_Singleton
  <2>3. ViableSteps(p, ids, side, one) # {}
    BY SomeNextStep
  <2>4. one \in w[1]
    BY DEF Growing
  <2> HIDE DEF one
  <2>5. Underway(one, 1, p, ids, side)
    BY <2>1, <2>2, <2>3 DEF Underway
  <2> QED BY <1>1, <2>4, <2>5
<1>4. ASSUME NEW m \in 1..n, m \in S, m < n PROVE m + 1 \in S
  <2>1. PICK path \in w[m] : Underway(path, m, p, ids, side)
    BY <1>4
  <2>2. m \in Nat /\ m >= 1 /\ m + 1 \in 2..n /\ m + 1 \in 1..n /\ (m + 1) - 1 = m
    BY <1>1, <1>4
  <2>3. PICK h \in NextSteps(p, ids, side, path) :
          \/ h \in Ends(p, ids, side)
          \/ Underway(Append(path, h), m + 1, p, ids, side)
    BY <2>1, <2>2, UnderwayGoesOn
  <2>4. path \in Seq(Hex) /\ Len(path) = m
    BY <2>1 DEF Underway
  <2>5. h \in Hex
    BY <2>2, <2>3, <2>4, SomeNextStep, ViableFacts
  <2>6. Append(path, h) \in Seq(Hex) /\ Len(Append(path, h)) = m + 1 /\ Append(path, h)[m + 1] = h
    BY <2>2, <2>4, <2>5, OneHexMore
  <2>7. Append(path, h) \in w[m + 1]
    <3>1. w[m + 1] = Onwards(p, ids, side, m + 1, w[m])
      BY <2>2 DEF Growing, n
    <3>2. m + 1 > 2 => path[(m + 1) - 1] \in Friendly(p, ids, side)
      BY <2>1, <2>2 DEF Underway
    <3> QED BY <2>1, <2>3, <3>1, <3>2 DEF Onwards
  <2>8. Append(path, h) \in Prefixes(p, ids, side)
    BY <2>2, <2>7 DEF Growing, n
  <2>9. h \notin Ends(p, ids, side)
    <3> DEFINE longer == Append(path, h)
    <3>1. /\ longer \in Prefixes(p, ids, side) /\ longer \in Seq(Hex)
          /\ Len(longer) = m + 1 /\ longer[m + 1] = h /\ m + 1 > 1
      BY <2>2, <2>6, <2>8
    <3> HIDE DEF longer
    <3>2. Len(longer) > 1 /\ longer[Len(longer)] = h
      BY <3>1
    <3> QED BY <1>2, <3>1, <3>2 DEF Found
  <2> QED BY <2>2, <2>3, <2>7, <2>9
<1> HIDE DEF S
<1>5. n \in S
  <2>1. 1 \in Nat /\ \A m \in 1..n : m \in S /\ m < n => m + 1 \in S
    BY <1>4
  <2>2. \A m \in 1..n : m \in S
    BY <1>1, <1>3, <2>1, Upwards
  <2> QED BY <1>1, <2>2
<1>6. PICK path \in w[n] : Underway(path, n, p, ids, side)
  BY <1>5 DEF S
<1>7. n < n
  BY <1>1, <1>6, UnderwayIsShort DEF n
<1> QED BY <1>1, <1>7

\* A stack that fits can go somewhere, over the edge, or hold its hex.
LEMMA EveryStackFindsAWay ==
  ASSUME NEW p, NEW ids, NEW side, Source(p, ids) \in Hex, StackFits(ids)
  PROVE  \/ \E exit \in BOOLEAN : RetreatPaths(p, ids, side, exit) # {}
         \/ CanHold(p, ids, side)
<1> SUFFICES ASSUME ~CanHold(p, ids, side)
             PROVE  \E exit \in BOOLEAN : RetreatPaths(p, ids, side, exit) # {}
  OBVIOUS
<1>1. NextSteps(p, ids, side, <<Source(p, ids)>>) # {}
  BY DEF CanHold
<1>2. PICK w : Growing(w, p, ids, side)
  BY PrefixesGrow
<1>3. PICK path \in Prefixes(p, ids, side) :
        path \in Seq(Hex) /\ Len(path) > 1 /\ path[Len(path)] \in Ends(p, ids, side)
  BY <1>1, <1>2, RetreatFindsAWay
<1>4. CASE path[Len(path)] \notin Friendly(p, ids, side)
  <2>1. Complete(p, ids, side, path)
    BY <1>3, <1>4 DEF Complete
  <2>2. path \in RetreatPaths(p, ids, side, FALSE)
    BY <1>3, <2>1 DEF RetreatPaths
  <2> QED BY <2>2
<1>5. CASE path[Len(path)] \in Friendly(p, ids, side)
  <2>1. ~Complete(p, ids, side, path) /\ path[Len(path)] \in EdgeHexes
    BY <1>3, <1>5 DEF Complete, Ends
  <2>2. CanExit(p, ids, side, path)
    BY <1>3, <2>1 DEF CanExit
  <2>3. path \in RetreatPaths(p, ids, side, TRUE)
    BY <1>3, <2>2 DEF RetreatPaths
  <2> QED BY <2>3
<1> QED BY <1>4, <1>5

\* Whom a retreat is asked of still stands on the board, a combat counter among them.
LEMMA GroupIsLed ==
  ASSUME WarInv, NEW c \in combats, c.choice.kind = "retreat"
  PROVE  /\ c.choice.units # {} /\ c.choice.units \in SUBSET Unit
         /\ Led(units, c.choice.units)
<1>1. c \in Combat /\ InStage(units, activeSide, c)
  BY CombatFacts
<1>2. c.status = "pending_choice" /\ c.choice.units \in SUBSET Unit
  BY <1>1, ChoiceIsPending
<1> QED BY <1>1, <1>2 DEF InStage

\* Each group that is to retreat can go, leave or hold its hex at a counter's expense.
LEMMA RetreatIsAnswered ==
  ASSUME WarInv, NEW c \in combats, c.choice.kind = "retreat", NEW h \in Hex, NEW ids,
         ids = RetreatGroup(c, h), ids # {}
  PROVE  \/ \E exit \in BOOLEAN : RetreatPaths(units, ids, c.choice.side, exit) # {}
         \/ CanHold(units, ids, c.choice.side) /\ Combatants(ids) # {}
<1>1. ids = At(units, h)
  BY GroupFacts
<1>2. StackFits(ids)
  BY <1>1, CombatFacts DEF IsLegal
<1>3. Source(units, ids) \in Hex
  BY <1>1, SourceIs
<1>4. Combatants(ids) # {}
  <2>1. PICK u \in ids : TRUE
    OBVIOUS
  <2>2. u \in c.choice.units /\ units[u].location = h
    BY <2>1 DEF RetreatGroup
  <2>3. PICK w \in c.choice.units : ~General(w) /\ units[w].location = units[u].location
    BY <2>2, GroupIsLed DEF Led
  <2> QED BY <2>2, <2>3 DEF RetreatGroup, Combatants
<1> QED BY <1>2, <1>3, <1>4, EveryStackFindsAWay

LEMMA WarIsAnswered == WarInv => EveryChoiceHasAnAnswer
<1> SUFFICES ASSUME WarInv, NEW c \in combats
             PROVE  /\ c.choice.kind = "loss" => StepsLeft(c.choice.units) >= c.choice.count
                    /\ c.choice.kind = "retreat" =>
                         /\ \E h \in Hex : RetreatGroup(c, h) # {}
                         /\ \A h \in Hex :
                              RetreatGroup(c, h) # {} =>
                                \/ \E exit \in BOOLEAN :
                                     RetreatPaths(units, RetreatGroup(c, h), c.choice.side, exit) # {}
                                \/ /\ CanHold(units, RetreatGroup(c, h), c.choice.side)
                                   /\ Combatants(RetreatGroup(c, h)) # {}
  BY DEF EveryChoiceHasAnAnswer
<1>1. c \in Combat /\ InStage(units, activeSide, c) /\ IsPosition(units)
      /\ units \in [Unit -> UnitState]
  BY CombatFacts
<1>2. ASSUME c.choice.kind = "loss"
      PROVE  StepsLeft(c.choice.units) >= c.choice.count
  <2>1. c.status = "pending_choice" /\ c.choice.units \in SUBSET Unit
    BY <1>1, <1>2, ChoiceIsPending
  <2>2. c.choice.count <= StepsOf(units, c.choice.units)
    BY <1>1, <1>2, <2>1 DEF InStage
  <2>3. StepsLeft(c.choice.units) = StepsOf(units, c.choice.units)
    BY DEF StepsLeft, StepsOf, Total
  <2>4. StepsLeft(c.choice.units) \in Nat
    BY <1>1, <2>1, StepsAreNatural
  <2>5. c.choice.count \in Nat
    BY <1>1 DEF Combat, Choice
  <2> QED BY <2>2, <2>3, <2>4, <2>5
<1>3. ASSUME c.choice.kind = "retreat"
      PROVE  \E h \in Hex : RetreatGroup(c, h) # {}
  <2>1. PICK u \in c.choice.units : u \in Unit /\ units[u].status = "deployed"
    BY <1>3, GroupIsLed DEF Led
  <2>2. units[u].location \in Hex
    BY <1>1, <2>1 DEF IsPosition, Deployed
  <2>3. u \in RetreatGroup(c, units[u].location)
    BY <2>1 DEF RetreatGroup
  <2> QED BY <2>2, <2>3
<1> QED BY <1>2, <1>3, RetreatIsAnswered

-----------------------------------------------------------------------------
(* What stays so in every game.                                            *)

\* No hex ever holds counters of both sides or more than a stack may hold, whichever of
\* movement, entry, loss, retreat, advance and capture put them there: every command of
\* reducer.ts leaves a legal board, on every board, with every army and scenario.
THEOREM StacksStayLegal == Spec => []StacksAreLegal
  BY WarInvariant, WarIsLegal, PTL

\* An objective belongs to whoever stands on it (objectivesAfterEntry and its copies in
\* the reducer's commands), also after a walk that captures generals on its way.
THEOREM OccupiersKeepControl == Spec => []OccupiersControl
  BY WarInvariant, WarIsControlled, PTL

\* Resolving one combat of a phase takes nothing from another: a combat not confirmed yet
\* is fought by exactly the counters in its hexes, and no counter is in two combats
\* (endPhase, nextChoice, applyForcedRetreat, advanceAfterCombat).
THEOREM CombatsStayIndependent == Spec => []CombatsAreIndependent
  BY WarInvariant, WarIsIndependent, PTL

\* The mandatory combats that endPhase declares cover every contact of the two armies,
\* and no retreat or advance makes a contact of two uncommitted counters.
THEOREM EveryContactStaysFought == Spec => []EveryContactIsFought
  BY WarInvariant, WarIsFought, PTL

\* No game is ever stuck on a choice: a loss asked for can be paid, and each group that
\* is to retreat has a path validateRetreatPath accepts, an edge to leave by or a counter
\* to lose, however the priority of zones of control narrows its steps (nextSteps).
THEOREM ChoicesAreAnswered == Spec => []EveryChoiceHasAnAnswer
  BY WarInvariant, WarIsAnswered, PTL

\* Every variable of the game stays in its type: no command leaves a counter without a
\* place, with a third step or fewer than none, or a combat with counters of nobody.
THEOREM WarTypeCorrect == Spec => []TypeOK
<1>1. WarInv => TypeOK
  BY DEF WarInv
<1> QED BY <1>1, WarInvariant, PTL
=============================================================================
