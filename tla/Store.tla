------------------------------- MODULE Store -------------------------------
(***************************************************************************)
(* The PostgreSQL store: apps/server/src/postgres-store.ts with            *)
(* delivery-slots.ts.                                                      *)
(*                                                                         *)
(* A call is a transaction: it locks the one row of service_state, loads   *)
(* the metadata and only the games it needs, runs the call on an           *)
(* InMemoryGameService built from them, and writes back what changed, to   *)
(* service_state, to service_games and to the relational mirror.  Rooms    *)
(* read under a SHARE lock and send before they let go of it; rooms and    *)
(* the push worker first take one of a few delivery slots, and may be      *)
(* cancelled at any moment.  The server may stop between any two steps, an *)
(* answer may be lost and the call made again.                             *)
(*                                                                         *)
(* The row lock is not a variable: the process whose phase is "loaded"     *)
(* holds it for update, one in "shared", "read" or "sent" holds a share.   *)
(***************************************************************************)
EXTENDS Snapshot

CONSTANTS
  Client,  \* concurrent calls of browsers and operators
  Worker,  \* push workers
  Room,    \* room deliveries
  Slots,   \* delivery slots; the code has 2
  Heard,   \* bound: the players that rooms deliver to
  None

ASSUME StoreAssumption ==
  /\ Client \cap (Worker \cup Room) = {} /\ Worker \cap Room = {}
  /\ IsFiniteSet(Worker \cup Room)
  /\ Asked \subseteq Request
  /\ Heard \subseteq [game : Game, session : Session]
  /\ Slots \in Nat \ {0}
  /\ MaxGames \in Nat

Process == Client \cup Worker \cup Room
Deliverer == Worker \cup Room

VARIABLES
  meta,     \* service_state: the snapshot without its games
  rows,     \* service_games
  mirror,   \* games, host_bindings and seat_bindings, browser_sessions, deletion_ledger
  phase,    \* where each process stands
  request,  \* the call each process makes, or the player a room delivers to
  loaded,   \* the snapshot each process read
  active,   \* DeliverySlots.#active
  waiting   \* DeliverySlots.#waiting, in order of insertion

tables == <<meta, rows, mirror>>
slots == <<active, waiting>>
vars == <<tables, phase, request, loaded, slots>>

\* Metadata and games, put together.
WithGames(S, games) ==
  [games |-> games, bindings |-> S.bindings, invitations |-> S.invitations,
   spectators |-> S.spectators, consents |-> S.consents, sessions |-> S.sessions,
   ledger |-> S.ledger]

\* The committed snapshot.
Stored == WithGames(meta, rows)

\* #loadGames, scopedSnapshotQuery
Load(games) == WithGames(meta, Restrict(rows, games \cap DOMAIN rows))

\* (A variant that loads no more than the call asks for.)
PushGames_None == {}

\* #pushGameIds: the games of all seats with consent, which loading would prune otherwise.
PushGames ==
  {b.game : b \in {x \in meta.bindings :
                     x.role = "seat" /\ [game |-> x.game, session |-> x.session] \in meta.consents}}

\* (A variant that does not look for a game created before.)
Selection_NoReplay(r) ==
  CASE r.kind = "purge" -> DOMAIN rows
    [] r.kind = "create" -> PushGames
    [] OTHER -> PushGames \cup {r.game}

\* The games a call loads besides; retention needs them all.
Selection(r) ==
  CASE r.kind = "purge" -> DOMAIN rows
    [] r.kind = "create" -> PushGames \cup {g \in DOMAIN rows : rows[g].creation = r.id}
    [] OTHER -> PushGames \cup {r.game}

-----------------------------------------------------------------------------
(* Persistence. *)

Changed(next, previous) ==
  {g \in DOMAIN next.games :
     g \in DOMAIN previous.games => next.games[g] # previous.games[g]}

\* #persistSnapshot, service_games: changed games are upserted, dropped ones deleted.
Upserted(next, previous) ==
  LET changed == Changed(next, previous)
      dropped == DOMAIN previous.games \ DOMAIN next.games
  IN [g \in (DOMAIN rows \ dropped) \cup changed |->
        IF g \in changed THEN next.games[g] ELSE rows[g]]

\* #mirrorSnapshot, in its order: receipts and what they delete, changed deleted games,
\* idle sessions, then games, sessions and bindings that changed.
Mirrored(next, previous) ==
  LET receipts == SubSeq(next.ledger, Len(previous.ledger) + 1, Len(next.ledger))
      purged == {receipts[i].game : i \in {j \in DOMAIN receipts : receipts[j].purgedAt # 0}}
      deleted == {g \in DOMAIN next.games : next.games[g].deletedAt # 0}
      kept == {b \in mirror.bindings :
                 b.game \notin purged \cup (deleted \cap Changed(next, previous))}
      observers == {b.session : b \in next.spectators}
      found == {s \in mirror.sessions : s \in observers \/ \E b \in kept : b.session = s}
      new == {b \in next.bindings \ previous.bindings : b.game \notin deleted}
  IN [games |-> (mirror.games \ purged) \cup Changed(next, previous),
      sessions |-> found \cup (next.sessions \cap observers) \cup (next.sessions \ previous.sessions),
      bindings |-> {b \in kept : [b EXCEPT !.live = ~b.live] \notin new} \cup new,
      ledger |-> mirror.ledger \o
                   SubSeq(next.ledger, Len(mirror.ledger) + 1, Len(next.ledger))]

\* The constraints of migrations 001 and 004: foreign keys of bindings, one live host a game,
\* one game a creation identifier.
Fits(games, m) ==
  /\ \A b \in m.bindings : b.game \in m.games /\ b.session \in m.sessions
  /\ \A b, c \in m.bindings : b.role = "host" /\ c.role = "host" /\ b.live /\ c.live
                              /\ b.game = c.game => b = c
  /\ \A g, h \in DOMAIN games : games[g].creation = games[h].creation => g = h

Persist(next, previous) ==
  /\ meta' = WithGames(next, Empty.games)
  /\ rows' = Upserted(next, previous)
  /\ mirror' = Mirrored(next, previous)

Stamp == Len(meta.ledger) + 1

\* What a loaded call would write.
Outcomes(p) ==
  IF request[p].kind = "create"
  THEN {Apply(loaded[p], request[p], new, Stamp) : new \in Fresh(DOMAIN rows, meta.ledger)}
  ELSE {Apply(loaded[p], request[p], 0, Stamp)}

-----------------------------------------------------------------------------
(* Calls: #mutate. *)

\* (A variant whose reads do not lock the row.)
ForShare_Unlocked == {}

ForUpdate == {p \in Process : phase[p] = "loaded"}
ForShare == {p \in Room : phase[p] \in {"shared", "read", "sent"}}

Move(p, to) == phase' = [phase EXCEPT ![p] = to]

\* A new call, or the same one again when its answer did not come.
Begin(c, r) ==
  /\ \/ phase[c] = "idle"
     \/ phase[c] = "unanswered" /\ request[c] = r
  /\ r.kind = "create" => Fresh(DOMAIN rows, meta.ledger) # {}
  /\ ForUpdate \cup ForShare = {}
  /\ Move(c, "loaded")
  /\ request' = [request EXCEPT ![c] = r]
  /\ loaded' = [loaded EXCEPT ![c] = Load(Selection(r))]
  /\ UNCHANGED <<tables, slots>>

Commit(c) ==
  /\ phase[c] = "loaded"
  /\ \E next \in Outcomes(c) :
       /\ Persist(next, loaded[c])
       /\ Fits(rows', mirror')
  /\ Move(c, "unanswered")
  /\ loaded' = [loaded EXCEPT ![c] = Empty]
  /\ UNCHANGED <<request, slots>>

\* An error or a lost connection before the commit.
Rollback(c) ==
  /\ phase[c] = "loaded"
  /\ Move(c, "unanswered")
  /\ loaded' = [loaded EXCEPT ![c] = Empty]
  /\ UNCHANGED <<tables, request, slots>>

Answer(c) ==
  /\ phase[c] = "unanswered"
  /\ Move(c, "idle")
  /\ request' = [request EXCEPT ![c] = None]
  /\ UNCHANGED <<tables, loaded, slots>>

-----------------------------------------------------------------------------
(* Delivery slots. *)

\* DeliverySlots.acquire
Acquire(p, r) ==
  /\ phase[p] = "idle"
  /\ request' = [request EXCEPT ![p] = r]
  /\ IF active < Slots
     THEN active' = active + 1 /\ waiting' = waiting /\ Move(p, "slot")
     ELSE active' = active /\ waiting' = Append(waiting, p) /\ Move(p, "waiting")
  /\ UNCHANGED <<tables, loaded>>

\* The release function: the slot goes to who waits longest.
Release(p) ==
  /\ IF waiting = <<>>
     THEN /\ active' = active - 1
          /\ waiting' = waiting
          /\ phase' = [phase EXCEPT ![p] = "idle"]
     ELSE /\ active' = active
          /\ waiting' = Tail(waiting)
          /\ phase' = [phase EXCEPT ![p] = "idle", ![Head(waiting)] = "slot"]
  /\ request' = [request EXCEPT ![p] = None]
  /\ loaded' = [loaded EXCEPT ![p] = Empty]

\* (A variant that leaves an aborted waiter in the queue.)
Withdraw_Queued(p) ==
  /\ waiting' = waiting
  /\ Move(p, "idle")
  /\ request' = [request EXCEPT ![p] = None]
  /\ UNCHANGED <<active, loaded>>

\* The abort listener of a waiting acquire.
Withdraw(p) ==
  /\ \E i \in DOMAIN waiting : waiting[i] = p /\ waiting' = RemoveAt(waiting, i)
  /\ Move(p, "idle")
  /\ request' = [request EXCEPT ![p] = None]
  /\ UNCHANGED <<active, loaded>>

\* A deadline or a shutdown: the connection is destroyed and the transaction with it.
Cancel(p) ==
  /\ phase[p] # "idle"
  /\ IF phase[p] = "waiting" THEN Withdraw(p) ELSE Release(p)
  /\ UNCHANGED tables

-----------------------------------------------------------------------------
(* The push worker: #mutatePush. *)

BeginPush(w) ==
  /\ phase[w] = "slot"
  /\ ForUpdate \cup ForShare = {}
  /\ Move(w, "loaded")
  /\ loaded' = [loaded EXCEPT ![w] = Load(PushGames)]
  /\ UNCHANGED <<tables, request, slots>>

CommitPush(w) ==
  /\ phase[w] = "loaded"
  /\ \E next \in Outcomes(w) :
       IF next = loaded[w] THEN UNCHANGED tables ELSE Persist(next, loaded[w])
  /\ Release(w)

-----------------------------------------------------------------------------
(* Room deliveries: #readInDeliverySlot. *)

Share(d) ==
  /\ phase[d] = "slot"
  /\ ForUpdate = {}
  /\ Move(d, "shared")
  /\ UNCHANGED <<tables, request, loaded, slots>>

ReadShared(d) ==
  /\ phase[d] = "shared"
  /\ Move(d, "read")
  /\ loaded' = [loaded EXCEPT ![d] = Load({request[d].game})]
  /\ UNCHANGED <<tables, request, slots>>

\* #assertSeatAuthorization, getAuthorizedState
MayHear(S, player) ==
  /\ Active(S, player.game)
  /\ player.session \in S.sessions
  /\ Binding("seat", player.game, player.session) \in S.bindings

Send(d) ==
  /\ phase[d] = "read"
  /\ MayHear(loaded[d], request[d])
  /\ Move(d, "sent")
  /\ UNCHANGED <<tables, request, loaded, slots>>

\* The authorization fails, or the transaction ends after the send.
End(d) ==
  /\ \/ phase[d] = "read" /\ ~MayHear(loaded[d], request[d])
     \/ phase[d] = "sent"
  /\ Release(d)
  /\ UNCHANGED tables

-----------------------------------------------------------------------------

\* The process stops: PostgreSQL rolls every transaction back; migrate then finds nothing to do.
Crash ==
  /\ \E p \in Process : phase[p] # "idle"
  /\ phase' = [p \in Process |-> IF p \in Client /\ phase[p] # "idle" THEN "unanswered" ELSE "idle"]
  /\ request' = [p \in Process |-> IF p \in Client THEN request[p] ELSE None]
  /\ loaded' = [p \in Process |-> Empty]
  /\ active' = 0
  /\ waiting' = <<>>
  /\ UNCHANGED tables

Init ==
  /\ meta = Empty
  /\ rows = Empty.games
  /\ mirror = [games |-> {}, sessions |-> {}, bindings |-> {}, ledger |-> <<>>]
  /\ phase = [p \in Process |-> "idle"]
  /\ request = [p \in Process |-> None]
  /\ loaded = [p \in Process |-> Empty]
  /\ active = 0
  /\ waiting = <<>>

Gone == {[kind |-> "unsubscribe", game |-> c.game, session |-> c.session] : c \in meta.consents}

Next ==
  \/ \E c \in Client :
       \/ \E r \in Asked : Begin(c, r)
       \/ Commit(c)
       \/ Rollback(c)
       \/ Answer(c)
  \/ \E w \in Worker :
       \/ \E r \in Gone \cup {[kind |-> "poll"]} : Acquire(w, r)
       \/ BeginPush(w)
       \/ CommitPush(w)
  \/ \E d \in Room :
       \/ \E player \in Heard : Acquire(d, player)
       \/ Share(d)
       \/ ReadShared(d)
       \/ Send(d)
       \/ End(d)
  \/ \E p \in Deliverer : Cancel(p)
  \/ Crash

Spec == Init /\ [][Next]_vars

-----------------------------------------------------------------------------
(* Properties. *)

\* Whatever a transaction leaves unloaded, the committed tables change as if each call ran
\* alone on the whole snapshot: a scoped load loses no consent, no binding, no game.
Service == INSTANCE AtomicService WITH snapshot <- Stored
CallsAreAtomic == Service!Spec

\* The rows a transaction would write never break a constraint of the database, so that
\* a valid call is never refused for what the mirror holds.
EveryCommitFits ==
  \A p \in ForUpdate : \A next \in Outcomes(p) :
    Fits(Upserted(next, loaded[p]), Mirrored(next, loaded[p]))

\* The mirror is written by differences, and is at all times what the snapshot implies.
MirrorAgrees ==
  mirror = [games |-> DOMAIN rows, sessions |-> meta.sessions,
            bindings |-> meta.bindings, ledger |-> meta.ledger]

\* The relational rows follow the snapshot, and never stand in the way of a call.
MirrorIsSound == MirrorAgrees /\ EveryCommitFits

\* Nothing is sent to a player whose seat a committed call has taken away.
SendsAreAuthorized ==
  [][\A d \in Room : phase[d] = "read" /\ phase'[d] = "sent" => MayHear(Stored, request[d])]_vars

\* No slot is idle while somebody waits, none is taken twice and none is lost.
SlotsAreShared ==
  /\ active = Cardinality({p \in Deliverer : phase[p] \notin {"idle", "waiting"}})
  /\ active <= Slots
  /\ ToSet(waiting) = {p \in Deliverer : phase[p] = "waiting"}
  /\ waiting # <<>> => active = Slots
=============================================================================
