------------------------- MODULE SpectatorAccessMC -------------------------
(* Small instances of SpectatorAccess for TLC. *)
EXTENDS SpectatorAccess, TLC

Alike == Permutations(Lookup) \cup Permutations(Session) \cup Permutations(ClaimId)
=============================================================================
