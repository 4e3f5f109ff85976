-------------------------- MODULE SpectatorViewMC --------------------------
(***************************************************************************)
(* One spectator's screen for TLC.                                         *)
(***************************************************************************)
EXTENDS SpectatorView
=============================================================================
