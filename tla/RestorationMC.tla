--------------------------- MODULE RestorationMC ---------------------------
(* Small instances of Restoration for TLC. *)
EXTENDS Restoration

CONSTANTS s1, s2, k1, k2

At(kind, g, s) == [kind |-> kind, game |-> g, session |-> s]

\* s1 creates and hosts two games, s2 joins the first and observes the second.
Calls ==
  {[kind |-> "create", session |-> s1, id |-> k1], [kind |-> "create", session |-> s1, id |-> k2],
   At("claim", 1, s2), At("watch", 2, s2), At("subscribe", 1, s2),
   At("delete", 1, s1), At("delete", 2, s1)}

-----------------------------------------------------------------------------
(* ApplyReceipts against the loop of synchronizeDeletionLedger, receipt by receipt. *)

ApplyReceipt(S, receipt) ==
  LET g == receipt.game
      closed == [S EXCEPT !.ledger = Append(@, receipt),
                          !.spectators = @ \ Of(g, @),
                          !.invitations = @ \ {g}]
  IN IF receipt.purgedAt # 0
     THEN [closed EXCEPT !.games = Restrict(@, DOMAIN @ \ {g})]
     ELSE [closed EXCEPT
             !.games = [h \in DOMAIN @ |->
                          IF h = g THEN [@[h] EXCEPT !.deletedAt = receipt.deletedAt] ELSE @[h]],
             !.bindings = {IF b.game = g THEN [b EXCEPT !.live = FALSE] ELSE b : b \in @}]

Samples ==
  {[games |-> [g \in held |-> [creation |-> k1, over |-> FALSE, deletedAt |-> IF g \in closed THEN 1 ELSE 0]],
    bindings |-> {Binding("host", g, s1) : g \in 1..2},
    invitations |-> 1..2, spectators |-> {[game |-> g, session |-> s2] : g \in 1..2},
    consents |-> {}, sessions |-> {s1, s2}, ledger |-> <<>>] : held, closed \in SUBSET (1..2)}

Receipts == [game : 1..2, deletedAt : 1..2, purgedAt : {0, 3}]

ASSUME ReceiptsInTurn ==
  \A S \in Samples : \A n \in 0..4 : \A receipts \in [1..n -> Receipts] :
    (\A i \in DOMAIN receipts : \A j \in 1..(i - 1) :
       receipts[j].game = receipts[i].game => receipts[i].purgedAt # 0 /\ receipts[j].purgedAt = 0)
    => ApplyReceipts(S, receipts) = FoldLeft(ApplyReceipt, S, receipts)
=============================================================================
