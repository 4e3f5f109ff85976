------------------------------ MODULE StoreMC ------------------------------
(* Small instances of Store for TLC. *)
EXTENDS Store

CONSTANTS s1, s2, k1, k2

At(kind, g, s) == [kind |-> kind, game |-> g, session |-> s]

\* s1 creates and hosts; s2 joins the first game, observes the second.
Calls ==
  {[kind |-> "create", session |-> s1, id |-> k1], [kind |-> "create", session |-> s1, id |-> k2],
   At("claim", 1, s2), At("watch", 2, s2), At("subscribe", 1, s1), At("subscribe", 2, s1),
   At("finish", 2, s1), At("delete", 1, s1), [kind |-> "purge", upTo |-> 1]}

Players == {[game |-> 1, session |-> s2]}
=============================================================================
