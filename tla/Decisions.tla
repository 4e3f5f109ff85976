----------------------------- MODULE Decisions -----------------------------
(***************************************************************************)
(* What each player still has to decide, and who is to be reminded of it:  *)
(* apps/server/src/turn-notification-policy.ts.                            *)
(*                                                                         *)
(* The policy reads the phase, the side to move and the combats; a game is *)
(* reduced to those, and an accepted command to the way it changes them.   *)
(***************************************************************************)
EXTENDS Integers

CONSTANTS
  CombatId,   \* combats of one phase
  MaxGroups   \* bound: the hexes one army is to retreat from

ASSUME GroupsAssumption == MaxGroups \in Nat

Side == {"confederate", "union"}

\* left: how much of a retreat remains, which choice.unit_ids shows.
Combat ==
  [kind : {"absent", "awaiting", "loss", "retreat", "advance", "resolved"},
   owner : Side \cup {"none"}, left : 0..MaxGroups]

Game ==
  [phase : {"movement", "combat", "completed"}, active : Side \cup {"none"},
   turn : Nat, combats : [CombatId -> Combat]]

Stage(kind) == [kind |-> kind, owner |-> "none", left |-> 0]
Choice(kind, side, left) == [kind |-> kind, owner |-> side, left |-> left]
NoCombats == [k \in CombatId |-> Stage("absent")]

FirstMove == [phase |-> "movement", active |-> "union", turn |-> 1, combats |-> NoCombats]

Unresolved(game) == {k \in CombatId : game.combats[k].kind \notin {"absent", "resolved"}}
Confirmed(game, k) == game.combats[k].owner # "none"

-----------------------------------------------------------------------------
(* What a command can make of a game.                                      *)

\* nextChoice: losses, then retreats, then an advance if the attacker won.
AfterRetreat(game, loser, next) ==
  \/ loser # game.active /\ next = Choice("advance", game.active, 0)
  \/ next = Stage("resolved")

AfterLosses(game, loser, next) ==
  \/ \E left \in 1..MaxGroups : next = Choice("retreat", loser, left)
  \/ AfterRetreat(game, loser, next)

Follows(game, now, next) ==
  \/ /\ now.kind = "awaiting"
     /\ \E loser \in Side : next = Choice("loss", loser, 0) \/ AfterLosses(game, loser, next)
  \/ now.kind = "loss" /\ AfterLosses(game, now.owner, next)
  \/ /\ now.kind = "retreat"
     /\ \/ \E left \in 1..(now.left - 1) : next = Choice("retreat", now.owner, left)
        \/ AfterRetreat(game, now.owner, next)
  \/ now.kind = "advance" /\ next = Stage("resolved")

\* Who has to confirm or answer.
Decider(game, k) == IF Confirmed(game, k) THEN game.combats[k].owner ELSE game.active

\* confirmCombatResult and the answers to the choices that follow it
Fight(game, side) ==
  UNION {{[game EXCEPT !.combats[k] = next] :
            next \in {c \in Combat : Follows(game, game.combats[k], c)}} :
         k \in {k \in Unresolved(game) : Decider(game, k) = side}}

BeginTurn(side, turn) == [phase |-> "movement", active |-> side, turn |-> turn, combats |-> NoCombats]
Completed(turn) == [phase |-> "completed", active |-> "none", turn |-> turn, combats |-> NoCombats]

\* finishSideTurn: the game can end after any turn of the union.
FinishSideTurn(game) ==
  IF game.active = "confederate" THEN {BeginTurn("union", game.turn)}
  ELSE {BeginTurn("confederate", game.turn + 1), Completed(game.turn)}

\* endPhase: into mandatory combat where the armies stand adjacent.
EndPhase(game) ==
  IF game.phase = "movement"
    THEN FinishSideTurn(game)
         \cup {[game EXCEPT !.phase = "combat",
                            !.combats = [k \in CombatId |-> Stage(IF k \in fights THEN "awaiting" ELSE "absent")]] :
               fights \in (SUBSET CombatId) \ {{}}}
    ELSE IF Unresolved(game) = {} THEN FinishSideTurn(game) ELSE {}

\* The games one accepted command of a side leads to; a move changes nothing here.
Outcomes(game, side) ==
  (IF game.phase = "movement" /\ game.active = side THEN {game} ELSE {})
  \cup (IF game.phase # "completed" /\ game.active = side THEN EndPhase(game) ELSE {})
  \cup Fight(game, side)

-----------------------------------------------------------------------------
(* The policy.                                                             *)

AnyDecision ==
  [about : CombatId \cup {"turn"}, count : Nat,
   what : {"movement", "end-combat", "awaiting", "loss", "retreat", "advance"}]
Decision(about, what, count) == [about |-> about, what |-> what, count |-> count]

CombatDecision(game, k) ==
  Decision(k, game.combats[k].kind, game.combats[k].left)

\* requiredDecisions
Required(game, side) ==
  IF game.phase = "completed" THEN {}
  ELSE IF game.phase = "movement"
    THEN {Decision("turn", "movement", game.turn) : s \in {game.active} \cap {side}}
  ELSE {Decision("turn", "end-combat", game.turn) :
          s \in {game.active} \cap {side} \cap (IF Unresolved(game) = {} THEN Side ELSE {})}
       \cup {CombatDecision(game, k) : k \in {k \in Unresolved(game) : Decider(game, k) = side}}

\* turnNotificationIntents: the sides to remind
Reminded(before, after, actor) ==
  {side \in Side \ {actor} : Required(after, side) \ Required(before, side) # {}}
=============================================================================
