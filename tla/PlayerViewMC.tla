---------------------------- MODULE PlayerViewMC ----------------------------
(***************************************************************************)
(* One player's screen for TLC: a guest's, and a host's with two           *)
(* operations.                                                             *)
(***************************************************************************)
EXTENDS PlayerView, TLC

CONSTANT MaxSeatSequence  \* bound on the events of a host's game, and where the seat is given up

Surrenders == surrendered # 0 \/ (command # NoCommand /\ command.kind = "surrender")

\* A host's moves are a guest's: here the host only surrenders.
Bounds ==
  /\ isHost \/ Surrenders' => Len(history') <= MaxSeatSequence
  /\ isHost /\ command' # NoCommand => command'.kind = "surrender"

\* The host's operations differ in nothing but their keys.
Alike == Permutations(Op)
=============================================================================
