---------------------------- MODULE GameRoomMC ----------------------------
(***************************************************************************)
(* Small rooms for TLC: a player who may reconnect, the heir to whom the   *)
(* seat may pass by recovery, and spectators, who may reconnect too.       *)
(***************************************************************************)
EXTENDS GameRoom

CONSTANTS P1, P2, H1, S1, S2

RoomBindingOf ==
  [c \in Client |-> CASE c \in {P1, P2} -> "seat"
                      [] c = H1 -> "heir"
                      [] c \in {S1, S2} -> "observer"]
RoomSideOf == [b \in Binding |-> IF b = "observer" THEN "none" ELSE "union"]
=============================================================================
