------------------------------ MODULE Snapshot ------------------------------
(***************************************************************************)
(* The snapshot of apps/server/src/game-service.ts and what one call does  *)
(* to it, seen from the database: the whole service is one JSON value, its *)
(* games apart.  Everything but the games is metadata, which every load    *)
(* has in full; the games may be only those that a transaction loaded.     *)
(*                                                                         *)
(* A call that is refused, or that answers a retry from what is stored,    *)
(* returns the snapshot it was given.  Who may sit where, recovery and the *)
(* action log are the subject of GameService, notifications of PushOutbox  *)
(* and spectator invitations of SpectatorAccess; here a call counts for    *)
(* the rows it reads and writes.  Games are numbered in order of creation, *)
(* which is the order of their rows; a session stands for its credential.  *)
(***************************************************************************)
EXTENDS Integers, SequencesExt

CONSTANTS
  MaxGames,    \* bound: games that ever exist
  Session,     \* browser sessions
  CreationId,  \* client-chosen creation identifiers
  Asked        \* bound: the calls that clients make

Game == 1..MaxGames

\* GameServiceSnapshot of a new database.
Empty == [games |-> [g \in {} |-> {}], bindings |-> {}, invitations |-> {},
          spectators |-> {}, consents |-> {}, sessions |-> {}, ledger |-> <<>>]

\* #requireActiveGame
Active(S, g) == g \in DOMAIN S.games /\ S.games[g].deletedAt = 0

Binding(role, g, s) == [role |-> role, game |-> g, session |-> s, live |-> TRUE]

\* randomUUID: an identifier that no game has or had.
Fresh(games, ledger) ==
  {g \in Game : /\ g \notin games /\ \A i \in DOMAIN ledger : ledger[i].game # g
                /\ \A h \in 1..(g - 1) : h \in games \/ \E i \in DOMAIN ledger : ledger[i].game = h}

\* resolveOrCreateSession, when the call binds the session.
WithSession(S, s) == [S EXCEPT !.sessions = @ \cup {s}]

\* (A variant that does not count observers.)
WithoutIdleSessions_Players(S) ==
  [S EXCEPT !.sessions = {s \in @ : \E b \in S.bindings : b.session = s}]

\* Sessions that no binding of a retained game names any more are dropped.
WithoutIdleSessions(S) ==
  [S EXCEPT !.sessions = {s \in @ : \E b \in S.bindings \cup S.spectators : b.session = s}]

\* #prunePushSubscriptions: consent goes with its seat, its session and an open game.
Prune(S) ==
  [S EXCEPT !.consents =
     {c \in @ : /\ Binding("seat", c.game, c.session) \in S.bindings
                /\ c.session \in S.sessions
                /\ Active(S, c.game)
                /\ ~S.games[c.game].over}]

-----------------------------------------------------------------------------
(* The calls. *)

\* createGame.  A creation identifier that a game carries answers from that game.
CreateGame(S, r, new) ==
  IF \E g \in DOMAIN S.games : S.games[g].creation = r.id
  THEN S
  ELSE [WithSession(S, r.session) EXCEPT
          !.games = [g \in DOMAIN @ \cup {new} |->
                       IF g \in DOMAIN @ THEN @[g]
                       ELSE [creation |-> r.id, over |-> FALSE, deletedAt |-> 0]],
          !.bindings = @ \cup {Binding("host", new, r.session), Binding("seat", new, r.session)},
          !.invitations = @ \cup {new}]

\* claimInvitation
ClaimInvitation(S, r) ==
  IF r.game \in S.invitations /\ Active(S, r.game)
     /\ Binding("seat", r.game, r.session) \notin S.bindings
  THEN [WithSession(S, r.session) EXCEPT
          !.bindings = @ \cup {Binding("seat", r.game, r.session)},
          !.invitations = @ \ {r.game}]
  ELSE S

\* claimSpectatorInvitation
ClaimSpectatorInvitation(S, r) ==
  IF Active(S, r.game)
  THEN [WithSession(S, r.session) EXCEPT
          !.spectators = @ \cup {[game |-> r.game, session |-> r.session]}]
  ELSE S

\* setPushSubscription
SetPushSubscription(S, r) ==
  IF /\ Active(S, r.game)
     /\ Binding("seat", r.game, r.session) \in S.bindings
     /\ ~S.games[r.game].over
  THEN [S EXCEPT !.consents = @ \cup {[game |-> r.game, session |-> r.session]}]
  ELSE S

\* removePushSubscription; and finishPushDelivery, when the provider says "gone".
RemovePushSubscription(S, r) ==
  [S EXCEPT !.consents = @ \ {[game |-> r.game, session |-> r.session]}]

\* executeCommand, for a command that ends the war game.
FinishGame(S, r) ==
  IF Active(S, r.game) /\ Binding("seat", r.game, r.session) \in S.bindings
  THEN [S EXCEPT !.games[r.game].over = TRUE]
  ELSE S

Of(g, bindings) == {b \in bindings : b.game = g}

\* executeHostCommand, deleteGame: the game stays, its bindings go.
DeleteGame(S, r, now) ==
  IF Active(S, r.game) /\ Binding("host", r.game, r.session) \in S.bindings
  THEN WithoutIdleSessions(
         [S EXCEPT !.games[r.game].deletedAt = now,
                   !.ledger = Append(@, [game |-> r.game, deletedAt |-> now, purgedAt |-> 0]),
                   !.bindings = @ \ Of(r.game, @),
                   !.spectators = @ \ Of(r.game, @),
                   !.invitations = @ \ {r.game}])
  ELSE S

-----------------------------------------------------------------------------
(* The deletion ledger. *)

\* The receipts another ledger has more, applied one after the other: a tombstone closes its
\* game and revokes the bindings, a purge removes the game.  A game has one tombstone, and
\* a purge comes after it, so what they do together does not depend on their order.
ApplyReceipts(S, receipts) ==
  LET tombstones == {i \in DOMAIN receipts : receipts[i].purgedAt = 0}
      closed == {receipts[i].game : i \in tombstones}
      purged == {receipts[i].game : i \in DOMAIN receipts \ tombstones}
      DeletedAt(g) == receipts[CHOOSE i \in tombstones : receipts[i].game = g].deletedAt
  IN [S EXCEPT
        !.ledger = @ \o receipts,
        !.spectators = {b \in @ : b.game \notin closed \cup purged},
        !.invitations = @ \ (closed \cup purged),
        !.games = [g \in DOMAIN @ \ purged |->
                     IF g \in closed THEN [@[g] EXCEPT !.deletedAt = DeletedAt(g)] ELSE @[g]],
        !.bindings = {IF b.game \in closed THEN [b EXCEPT !.live = FALSE] ELSE b : b \in @}]

\* The receipts are a ledger that continues the local one: positions are the indexes of the
\* sequence, a game is deleted once and purged after that.
Continues(receipts, ledger) ==
  /\ IsPrefix(ledger, receipts)
  /\ \A i \in DOMAIN receipts :
       LET Before == {j \in 1..(i - 1) : receipts[j].game = receipts[i].game}
       IN IF receipts[i].purgedAt = 0
          THEN Before = {}
          ELSE \/ i \in DOMAIN ledger
               \/ Before # {} /\ (\A j \in Before : receipts[j].purgedAt = 0)

\* (A variant that closes the games but leaves their observers, invitations and bindings.)
SynchronizeDeletionLedger_Partly(S, receipts) ==
  IF ~Continues(receipts, S.ledger)
  THEN S
  ELSE LET applied == ApplyReceipts(S, SubSeq(receipts, Len(S.ledger) + 1, Len(receipts)))
       IN WithoutIdleSessions([S EXCEPT !.games = applied.games, !.ledger = applied.ledger])

\* synchronizeDeletionLedger: bindings of games that are not held go, then idle sessions.
SynchronizeDeletionLedger(S, receipts) ==
  IF ~Continues(receipts, S.ledger)
  THEN S
  ELSE LET applied == ApplyReceipts(S, SubSeq(receipts, Len(S.ledger) + 1, Len(receipts)))
       IN WithoutIdleSessions(
            [applied EXCEPT !.bindings = {b \in @ : b.game \in DOMAIN applied.games}])

\* The order of their rows.
InOrder(games) ==
  CHOOSE order \in [1..Cardinality(games) -> games] :
    \A i, j \in DOMAIN order : i < j => order[i] < order[j]

\* purgeDeletedGames: the games whose retention has passed.
PurgeDeletedGames(S, upTo, now) ==
  LET doomed == {g \in DOMAIN S.games : S.games[g].deletedAt \in 1..upTo}
      Receipt(g) == [game |-> g, deletedAt |-> S.games[g].deletedAt, purgedAt |-> now]
      order == InOrder(doomed)
  IN SynchronizeDeletionLedger(S, S.ledger \o [i \in DOMAIN order |-> Receipt(order[i])])

-----------------------------------------------------------------------------
(* Requests. *)

Request ==
       [kind : {"create"}, session : Session, id : CreationId]
  \cup [kind : {"claim", "watch", "subscribe", "unsubscribe", "finish", "delete"},
        game : Game, session : Session]
  \cup [kind : {"purge"}, upTo : 1..(2 * MaxGames)]
  \cup [kind : {"poll"}]

\* A call on a loaded snapshot.  Loading prunes it, and so does exporting it.
Apply(S, r, new, now) ==
  LET T == Prune(S)
  IN Prune(CASE r.kind = "create" -> CreateGame(T, r, new)
             [] r.kind = "claim" -> ClaimInvitation(T, r)
             [] r.kind = "watch" -> ClaimSpectatorInvitation(T, r)
             [] r.kind = "subscribe" -> SetPushSubscription(T, r)
             [] r.kind = "unsubscribe" -> RemovePushSubscription(T, r)
             [] r.kind = "finish" -> FinishGame(T, r)
             [] r.kind = "delete" -> DeleteGame(T, r, now)
             [] r.kind = "purge" -> PurgeDeletedGames(T, r.upTo, now)
             [] r.kind = "poll" -> T)
=============================================================================
