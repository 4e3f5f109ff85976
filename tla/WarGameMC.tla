----------------------------- MODULE WarGameMC -----------------------------
(***************************************************************************)
(* Small boards and armies for TLC.                                        *)
(***************************************************************************)
EXTENDS WarGame

CONSTANTS U1, U2, UG, C1, C2

\* A hill (1) in a ring of six hexes, two of which are the board's edge.
RingHex == 1..7
RingAdjacent ==
  [h \in RingHex |->
     IF h = 1 THEN 2..7
     ELSE {1, IF h = 7 THEN 2 ELSE h + 1, IF h = 2 THEN 7 ELSE h - 1}]

\* A garrison of all arms on the hill, before a confederate brigade that another one joins
\* from the edge on the second turn.  Woods all around, but for hex 2, hold the artillery.
SiegeUnit == {U1, U2, UG, C1, C2}
SiegeSide == [u \in SiegeUnit |-> IF u \in {C1, C2} THEN "confederate" ELSE "union"]
SiegeKind == [u \in SiegeUnit |-> IF u = UG THEN "general" ELSE IF u = U2 THEN "artillery" ELSE "infantry"]
SiegeSteps == [u \in SiegeUnit |-> IF u = U1 THEN 2 ELSE 1]
SiegeMovement == [u \in SiegeUnit |-> 1]
SiegeCombatValue == [u \in SiegeUnit |-> IF u = UG THEN 0 ELSE SiegeSteps[u]]
SiegeSetup == [u \in SiegeUnit |-> IF u = C1 THEN 4 ELSE IF u = C2 THEN 0 ELSE 1]
SiegeEntryTurn == [u \in SiegeUnit |-> IF u = C2 THEN 2 ELSE 0]
SiegeEntryHexes == [u \in SiegeUnit |-> IF u = C2 THEN {5} ELSE {}]
SiegeValue == [h \in {1} |-> 3]

\* Two rows of five hexes, 1..5 and 6..10, two brigades a side at one end, the union's with
\* a general.
StripHex == 1..10
StripTouch(a, b) ==
  \/ b = a + 1 /\ b # 6
  \/ a <= 5 /\ b = a + 5
  \/ a \in 2..5 /\ b = a + 4
StripAdjacent == [h \in StripHex |-> {g \in StripHex : StripTouch(g, h) \/ StripTouch(h, g)}]

MeleeUnit == {U1, U2, C1, C2, UG}
MeleeSide == [u \in MeleeUnit |-> IF u \in {C1, C2} THEN "confederate" ELSE "union"]
MeleeKind == [u \in MeleeUnit |-> IF u = UG THEN "general" ELSE "infantry"]
MeleeSteps == [u \in MeleeUnit |-> IF u \in {U1, C2} THEN 2 ELSE 1]
MeleeMovement == [u \in MeleeUnit |-> 1]
MeleeCombatValue == [u \in MeleeUnit |-> IF u = UG THEN 0 ELSE MeleeSteps[u]]
MeleeSetup == [u \in MeleeUnit |-> IF u \in {U1,UG} THEN 1 ELSE IF u = U2 THEN 2 ELSE IF u = C1 THEN 6 ELSE 7]
MeleeEntryTurn == [u \in MeleeUnit |-> 0]
MeleeEntryHexes == [u \in MeleeUnit |-> {}]
MeleeValue == [h \in {4} |-> 3]
=============================================================================
