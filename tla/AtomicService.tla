--------------------------- MODULE AtomicService ---------------------------
(***************************************************************************)
(* What a PostgreSQL store promises: every call happens at once, on the    *)
(* whole snapshot, as if an InMemoryGameService held it; a call whose      *)
(* answer is lost has either happened or not.                              *)
(***************************************************************************)
EXTENDS Snapshot

VARIABLE snapshot

Now == Len(snapshot.ledger) + 1

Init == snapshot = Empty

Call(r) ==
  \/ /\ r.kind # "create"
     /\ snapshot' = Apply(snapshot, r, 0, Now)
  \/ /\ r.kind = "create"
     /\ \E new \in Fresh(DOMAIN snapshot.games, snapshot.ledger) :
          snapshot' = Apply(snapshot, r, new, Now)

Next == \E r \in Request : Call(r)

Spec == Init /\ [][Next]_snapshot
=============================================================================
