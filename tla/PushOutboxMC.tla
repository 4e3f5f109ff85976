---------------------------- MODULE PushOutboxMC ----------------------------
(* Small instances of PushOutbox for TLC. *)
EXTENDS PushOutbox, TLC

CONSTANTS
  U1,      \* who plays the union, which moves first
  C1, C2,  \* who plays the confederates, and who recovers that seat
  k1, k2,  \* combats
  w1, w2   \* workers

Seats == (U1 :> "union") @@ (C1 :> "confederate") @@ (C2 :> "confederate")

\* One retry; the fifth attempt of the source is the second here.
OneRetry == <<1>>

Alike == Permutations(Worker) \cup Permutations(CombatId)
=============================================================================
