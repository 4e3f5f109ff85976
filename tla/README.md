# Verification of the Gettysburg game

Gettysburg is a two-player war game played in a browser against an authoritative
server.  This directory holds TLA+ models of the program, the TLC configurations
that check them and theorems about them checked by TLAPS.  Paths below are
relative to `src/` of the repository.

## 1. The system and its parts

| Part | Code | State it keeps | Operations |
| --- | --- | --- | --- |
| Game service | `apps/server/src/game-service.ts` | game record, sessions, seat and host bindings, seat invitations, recovery grants, command results, action log, deletion ledger, spectator invitations and bindings, push subscriptions | `createGame`, `claimInvitation`, `claimSpectatorInvitation`, `executeCommand`, `executeHostCommand` (issue, revoke, delete, spectator invitations and access), `issueSeatRecovery`/`issueHostRecovery`, `claimSeatRecovery`/`claimHostRecovery`, `purgeDeletedGames`, `synchronizeDeletionLedger`, snapshot and replay reads |
| Replay validator | `apps/server/src/mandatory-replay.ts` | none | `replayMandatoryActions`: re-executes a stored log and checks every entry against the final bindings, invitations and grants |
| Game rules | `packages/game/src/reducer.ts` | the `GameState`: side, phase, turn, units, objectives, combats, movement ledger, version, event sequence, victory | one reducer per gameplay command, from `moveUnit` to `endPhase` |
| Combat | `packages/game/src/combat.ts` | none | separate combats, odds, results table, automatic resolution |
| Movement | `packages/game/src/movement.ts`, `movement-validation.ts`, `normal-move.ts`, `zoc.ts` | none | cost search over hexes, zones of control, group budgets |
| Retreats | `packages/game/src/retreat.ts`, `forced-retreat.ts` | none | legal retreat paths, displacement groups |
| Generals, night, reinforcements, board exit | same directory | none | obligations that gate the end of a phase |
| Protocol | `packages/game/src/protocol.ts` | the client's event cursor | `acceptGameplayEvent`, `acceptManagementEvent`, schemas |
| PostgreSQL store | `apps/server/src/postgres-store.ts` | `service_state`, `service_games`, the relational mirror | `#mutate`: lock the singleton row, load the games concerned, run a service operation, write back what changed, commit; `#mutatePush`, `#readInDeliverySlot` for workers and rooms |
| Room and event bus | `apps/server/src/room.ts`, `event-bus.ts` | connected clients, their binding and sequence watermark, the delivery queue | join, command, broadcast, evict, dispose |
| Push notifications | `apps/server/src/push-*.ts`, `turn-notification-policy.ts` | outbox items, leases, consent | enqueue, claim, complete, retry |
| Creation admission | `apps/server/src/creation-admission.ts` | rolling counter samples | sample, admit |
| Delivery slots | `apps/server/src/delivery-slots.ts`, `delivery-deadline.ts` | two slots and a queue of waiters | acquire, release, abort |
| Browser client | `apps/web/src` | the last state and cursor, the connection, commands under way | apply event, refresh, reconnect, host commands |
| Operations | `apps/server/src/operator.ts`, `index.ts`, `runtime-config.ts`, `scripts/offhost-backup.sh`, `ops/systemd` | backups, the copied ledger, its watermark, readiness | back up, restore, start, synchronize, purge |
| Content, other scripts, deployment | `packages/content`, `scripts`, `ops` | none of the game's own | tables, build |

How they meet.  A command travels from the browser to the room over a WebSocket,
with the authorization (a binding and its session) captured when the client
joined.  The room calls the service; in production the service's operations run
inside a transaction of the PostgreSQL store.  `executeCommand` first looks for a
stored result (a retry), then checks the binding, the session and the expected
version, and only then calls the reducer; it appends an entry to the action log and
enqueues push items in the same transaction.  The room then queues a broadcast, and
clients apply it if it is the next event, or refresh.  Host commands arrive over HTTP
and announce themselves on the event bus.  The operator issues recovery grants on the
server; whoever holds one replaces a binding.

What is hard here.

* A captured authorization is used long after it was captured; a binding may have been
  surrendered, replaced or dropped in the meantime.
* Every answer may be lost, so commands and claims are repeated, possibly after other
  people have acted on the same seat.
* Six different operations retire bindings, invitations and grants, each with its own
  bookkeeping of sequence numbers, and the replay validator later demands that all of
  it agrees.
* Game rules and their validators are written separately: a sequence of legal commands
  could reach a state in which no command is legal.
* Broadcasts, management events, joins and refreshes race with each other.
* A browser's reads are answered out of order with its broadcasts, and a former connection's messages keep coming.
* A transaction sees only the games it thinks it needs, and writes back differences to two representations of the data.
* Databases are restored from backups that are older than deletions people have been promised.
* A push worker talks to a provider for seconds, outside any transaction, while the game,
  the consent and the lease it works under go on changing.

## 2. Modules

| Module | Stands for | Role |
| --- | --- | --- |
| `GameService` | `game-service.ts` | one game of the service: state, one action per operation, properties, the inductive invariant |
| `ActionReplay` | `mandatory-replay.ts` | the validator as one predicate over the same state, the property that the service's history passes it, the inductive invariant behind it |
| `GameServiceMC` | | bounds for TLC |
| `GameServiceProofs` | | proofs about `GameService` and `ActionReplay` |
| `Board` | `zoc.ts`, `generals.ts`, `normal-move.ts`, `movement.ts`, `movement-validation.ts`, `coordinates.ts` | operators on a position: zones of control, stacking, support and capture of generals, move groups, steps and routes |
| `Retreats` | `retreat.ts`, `forced-retreat.ts` | operators: where a losing stack may or must go |
| `WarGame` | `reducer.ts` with `combat.ts`, `night.ts`, `reinforcements.ts`, `board-exit.ts` | the game: state, one action per gameplay command, properties |
| `WarGameMC` | | two small instances for TLC |
| `WarGameProofs` | | proofs about `WarGame` |
| `GameRoom` | `room.ts`, `event-bus.ts`, `delivery-deadline.ts`, the delivery reads and the row lock of `postgres-store.ts` | the room of one game: commits, announcements, joining, the delivery queue, properties, the inductive invariant |
| `GameRoomMC` | | small rooms for TLC |
| `GameRoomProofs` | | proofs about `GameRoom` |
| `Decisions` | `turn-notification-policy.ts`, with the phases and choices of `reducer.ts` it reads | operators: what a command can make of a game, what each side owes, whom to remind |
| `PushOutbox` | `push-outbox.ts`, `push-worker.ts`, `push-provider.ts`, the push parts of `game-service.ts` and `postgres-store.ts` | reminders of one game: transactions, consent, workers, the clock, properties, the inductive invariant |
| `PushOutboxMC` | | small instances for TLC |
| `PushProofs` | | proofs about `PushOutbox` |
| `EventLink` | what `room.ts`, `postgres-store.ts` and `api.ts` are to a browser | committed events, connections and reads, as a browser meets them |
| `SpectatorView` | `SpectatorApp.tsx` | the spectator's screen over `EventLink`: state, actions, properties, the inductive invariant |
| `PlayerView` | `App.tsx`, `connect-room.ts`, `room-lifecycle.ts`, `serial-operations.ts`, the cursor of `protocol.ts` | the player's view over `EventLink`: state, actions, properties, the inductive invariant |
| `SpectatorViewMC`, `PlayerViewMC` | | small instances for TLC |
| `SpectatorProofs`, `PlayerProofs` | | proofs about `SpectatorView` and `PlayerView` |
| `Snapshot` | the several-games side of `game-service.ts` | operators: what each call does to the snapshot of the whole service |
| `AtomicService` | the interface `GameService` of `postgres-store.ts`, as `InMemoryAsyncGameService` keeps it | the abstract specification: every call happens at once, on everything |
| `Store` | `postgres-store.ts`, `delivery-slots.ts`, the constraints of the migrations | transactions, scoped loads, write-back, mirror, slots, crashes; the refinement `Service == INSTANCE AtomicService WITH snapshot <- Stored` |
| `Restoration` | `runtime-config.ts`, `index.ts`, `operator.ts`, `offhost-backup.sh`, the purge timer | backups, restores, the ledger and its watermark, over `Snapshot` |
| `SpectatorAccess` | the spectator side of `game-service.ts` and of `mandatory-replay.ts` | invitations, claims, access, and the validator's predicate over their evidence |
| `StoreMC`, `RestorationMC`, `SpectatorAccessMC` | | small instances for TLC |
| `StoreProofs`, `AccessProofs` | | proofs about `Store` and `Restoration`, and about `SpectatorAccess` |

### `GameService`

State.  `status` is the game record's `status` with `absent` before `createGame` and
`purged` after `purgeDeletedGames`; `version`, `eventSequence` and `pendingChoice` are
`state.version`, `state.event_sequence` and the sides with an unresolved combat choice.
`bindings` joins `seatBindings` and `hostBindings` (the role tells them apart),
`invitations` and `grants` are the seat invitations and the recovery grants,
`commandResults` and `hostCommandResults` the two result maps, `actions` the action log
and `deletionLedger` the receipts of `deletion-ledger`.

Abstractions, each of which keeps the control and drops data:

* *Time.*  A deadline is an action (`SessionExpires`, `InvitationExpires`,
  `GrantExpires`) that may happen at any moment.
* *Credentials.*  A session credential is the session it opens; a sealed claim credential
  is that session or `None`; a sealed invitation secret is a Boolean.
* *Refusals and retries.*  A call that throws, and a retry answered from a stored result,
  change nothing: they are stuttering steps.  The one refusal that does change state,
  the claim of an expired invitation (`ReapExpiredClaim`), is an action.  It takes effect
  in the in-memory service; the PostgreSQL store rolls a throwing operation back.
* *Stale authorizations.*  Every command action takes any binding and any expected
  version, so a command based on an authorization captured long ago is just a choice of
  arguments, and the guard decides.
* *The war game.*  `PlayCommand` is any gameplay command the reducer accepts: the version
  rises by one and the set of sides owing a choice becomes anything.
* *One game.*  Games share only sessions.  `DeleteGame` drops the sessions that hold no
  other binding; with one game that is all of them.
* *Identifiers.*  UUIDs are compared for equality only; `FreshInTurn` in `GameServiceMC`
  lets each identifier be first used in its turn, which keeps one representative of each
  renaming.

Push subscriptions are in `PushOutbox`, spectator access in `SpectatorAccess`, the retry of
`createGame`, sessions that several games share and the synchronisation of the ledger in
`Snapshot`.

### `ActionReplay`

`ReplayAccepts` follows `replayMandatoryActions`: interval bookkeeping of the bindings,
one timeline per role, version and sequence chain, then per entry the authority of its
binding, the surrender's retired invitations, the invitation an issue made, the
revocation's date, the recovery's two bindings.  Spectator evidence is checked by
`Replays` of `SpectatorAccess`.  Hashes, request metadata and the re-execution of the
rules are left out.

### `Board`, `Retreats` and `WarGame`

These model the ruleset new games are created with, `gettysburg-mandatory-v6`: flat
movement costs, automatic mandatory combat once per side turn.  Games of earlier rulesets
take other branches of the same functions (their moves, retreats and costs, and the
commands `declareCombat` and `rollCombat`); those are not modelled.  Under the mandatory
ruleset `declareCombat` has nothing left to declare: `EveryContactIsFought` shows that no
two counters outside the combats `endPhase` made are ever in contact.

State.  `activeSide`, `phase`, `turn`, `units`, `control`, `ledger`, `combats` and `victory`
are `active_side` (`null` is `none`), `phase`, `turn`, `units`, `objectives[..].controlled_by`,
`normal_movement`, `combats` and `victory.status`.  `night` follows from the turn.  The
`version` and `event_sequence` of the same object are in `GameService`.

Actions.  One per command that `reduceGameplayCommand` accepts: `Move` (`moveUnit`,
`moveStack`), `EnterReinforcement`, `ExitBoard`, `EndPhase`, `ConfirmCombatResult`,
`AllocateLoss`, `Retreat` (`retreatUnit`, `retreatStack`, `retreatOffBoard`),
`AcceptTrappedLoss`, `Advance` and `DeclineAdvance` (`advanceAfterCombat`).  Single-unit and
stack forms of a command are one action on a set.  Every action ends in `Accept`, the
capture of lone generals that the reducer's `accepted` applies to every command's result.
`GameOver` is the completed game, in which nothing is accepted.

Abstractions.

* *The board* is any finite graph with edge hexes and woods; coordinates, roads and
  streams do not matter to this ruleset.
* *Dice, odds and the results table* come to a winner and a number of losses, at most two.
  Both are chosen when the result is confirmed, for nothing reads the roll before.
* *A combat* is known by its counters, not by an identifier.  Only the loser loses steps
  and retreats, so one flag stands for the attacker's and the defender's.
* *Searches* are modelled by what they return.  A route is any shortest one (the code
  breaks ties by distance from the straight line), a separation of a melee any into the
  fewest legal combats (the code prefers some; its budget of 250,000 steps is not
  modelled).
* *Strength* is kept beside the steps, as in the code: a choice of losses writes it anew for everyone it concerns (`Hit`), and
  scores count it (section 5).

The two instances (`WarGameMC`).  *Siege*: a stack of infantry, artillery and a general holds
the objective in the middle of a ring of six hexes, woods around it that its artillery
cannot retreat into; one brigade attacks on the night turn, another comes over the edge for the day
turn, each turn with another of the tests of victory.  The stack is attacked, loses,
splits, is trapped, leaves the board, and attacks in its turn.  *Melee*: two
brigades a side, and a general, in a strip of ten hexes, next to each other, so that two combats are fought
side by side.

What the proofs assume of a scenario (`ScenarioAssumption`): both sides begin in stacks the rules allow, no hex holds both, an
objective somebody stands on begins with him, and every general on the board at the start
stands with a combat counter, as Reynolds does with Wadsworth and Buford with Gamble (`packages/content/src/scenario.ts`).

### `GameRoom`

State.  `history` is the committed action log and `access` the bindings the database
holds active.  `outbox` are the committed events whose caller, a command handler or an HTTP
request, has not announced them to the room yet.  Of the room, `queue` is the promise
chain `#delivery`, `retired` is `#retiredBindings`, `watermark` is `#deliveredSequence`
(read only of connections that are joined; the code holds `Infinity` before), and `conn`
joins the transport's state with `#deliveryClosed`.  `reading` is what the delivery at the head of the
queue has read while its transaction holds the row lock.  `results` are the command
handlers that go on after their broadcast, `sent` everything a connection was sent.

Actions.  `PlayCommand`, `SurrenderSeat`, `HostCommand`, `RevokeSpectator`, `DeleteGame`
and `RecoverSeat` commit; all wait for the lock.  `Enqueue` announces an event and retires
bindings, in whatever order the commits are answered.  `Authenticate`, `Join`, `Acknowledge`
and `Disconnect` are a connection's life.  `BeginRead`, then `FinishInitial` or
`FinishBatch`, are a delivery that reads the database; `FailInitial` and `FailBatch` are its
deadline or failure, at any moment; `SkipInitial` passes over whoever has gone; `SendBatch` is a batch without
observers.  `SendResult` ends a command handler.

Abstractions.

* *A state or an event* is its sequence number: what a message shows is all events up to
  there.  A gameplay event comes with its snapshot; host and audit events come alone.
* *A connection* is used once; whoever reconnects is another client with the same binding.
* *Closing* is immediate: after `leave` the transport sends nothing more, and what remains
  of the connection only delays the garbage collector.
* *Commands* are those that commit.  A refused command, a rate limit and a spectator's command are
  answered at once and change nothing here.
* *A session's expiry* is left out: access ends by a commit.  So are `maxClients`, the one-room guard, the
  room's disposal and the return of a deleted game.

A connection that was authenticated before its binding was retired and joins after is neither
served nor closed: `onJoin` skips its snapshot.  `EveryoneIsServed` states that exception.

### `Decisions` and `PushOutbox`

State.  `row` is the snapshot of the singleton row: the game, its event sequence, its seats, the
push subscriptions (`consents`), the reminders (`items`, one per binding, as the map `#items` has
them) and the leases outstanding (`receipts`).  `clock` is the `now` every process reads, in units of its own.
`workers` is what each worker is doing: `holding` a claimed reminder, `waiting` for the provider's answer, `answered` with an outcome
not yet acknowledged.  `tags` counts the subscriptions sealed so far.

Actions.  `Command` is an accepted gameplay command: it prunes, enqueues what the
policy asks for and prunes again.  `Surrender`, `ClaimSeat`, `RecoverSeat`, `Manage` and `DeleteGame` are the
other transactions that touch what reminders depend on.  `Subscribe` and `Unsubscribe` change a consent.  A worker's
loop is `Claim` or `Poll`, `Dispatch` (the authorization under the row lock, and the request
that leaves inside it) or `GiveUp`, `Respond`, and `Finish`; `Abandon` is a shutdown, a crash or a failed transaction at any point of it.
Every transaction works on `Loaded`, which the service's constructor has pruned, and ends in `Save`, which prunes again.

Abstractions.

* *The game* is its phase, the side to move, the turn and the stage of each combat, and a command any of
  the outcomes its reducer can have; `WarGame` has the rules.
* *Random identifiers* are known by what they were drawn for: a reminder by binding and event, a
  lease by reminder and attempt, a sealed subscription by its tag.
* *Sessions* are not revoked while a subscription lasts; pruning's other grounds are all there.
* *The fingerprint* of a decision is the set of decisions itself: hashing is taken to be injective.
* *The provider* answers anything: accepted, gone, or an error.  A request it answered may have been delivered or not.
* *One clock.*  Overlapping processes run on one host, as the deployment has it.
* *One game.*  Scoped loads, by which a transaction sees some games only, are in `Store`.

### `EventLink`, `SpectatorView` and `PlayerView`

State.  `history` is the action log, by the kinds of its events: gameplay events raise the game
version, management and audit events do not.  `untold` are committed events the room has not been told of,
`links` the browser's connections with the messages on their way, `reads` the HTTP requests for the session.
A state is known by the sequence of its last event.  In
`SpectatorView`, `sequence` and `snapshotSequence` are the variables of that name in the effect, `board`,
`shown` and `log` are what the screen shows.  In `PlayerView`, `board` is `activeGame.state`, `cursor` is
`eventCursorReference`, `pending` is `pendingCommand`, `isHost` is `is_host`, `kept` is `hostCommandIdsReference`
for commands the server has executed.  `phase` says how far the connection got, and whether the player is shown on a seat
(`SeatShown`; `seatless` is a host without one, `left` the start page).  `surrendered` is the server's: the event that took the seat.  Two variables of `PlayerView` only record: `doubt`, what may have left the view
behind, and `answered`, the state of the last host's answer applied.

Actions.  The spectator: `Open`, then the `first` read, `Register`, the `final` read; `Receive` handles a
message and `Refresh` an answer; `Disconnect` is every way out (a failed read, lost access, a closed room).  The player: `Register`,
the `resume` read, `Refresh`, `Receive`, `SendCommand`, `LinkLost`, `Reconnect`; a stale result or a gap asks
for another read.  A host command is `StartHostCommand`, `ApplySession` (its first read), the request itself
(`ExecuteHostCommand`, at the server), then `HostAccepted` and a second `ApplySession`, or `HostRefused`; `HostFails` is the
failure of any of its three requests.  `ApplySession` replaces the seat too, and the effect that connects depends on the seat: `SeatGone` leaves the room, or
gives up joining it, when the answer has no seat any more, `SeatBack` connects when an older answer has it again.  A surrender may be sent
whenever there is a room, a move only from a restored board.  Once the seat is surrendered the room refuses commands and joins, and
every read but a host's fails (`Execute`, `Server`).

Abstractions.

* *The room* tells of a commit in one step, in any order, and drops what was overtaken for a connection;
  how it comes to do so is `GameRoom`.  A connection delivers in order and may lose its tail when it closes.
* *A read* is answered at one moment at the server and applied at a later one, in any order with the other reads and the messages.
* *Handlers.*  A message that comes before the handlers are registered is discarded (`Unheard`).  In `App.tsx` a former connection's
  handlers stay registered, and most of them do not ask whether they are still active: `Receive(a)` for any connection.
* *Requests that fail* may have been executed: a host command is kept under its id and recognized when retried.  A request executed
  only after the client gave up on it is left out.
* *Left out*: the player's action log, `deleteGame`, an answer that ends host rights, and the pages
  before a game is entered.  The three retries of `connectRoom` are a join that takes its time.

### `Snapshot`, `AtomicService` and `Store`

`Snapshot` has the service as one value, `GameServiceSnapshot`, and one operator per kind of call that differs
in what it reads and writes: creating a game (found again by its creation identifier), claiming a seat, watching, consenting, the
provider's withdrawal of consent, a command that ends the war game, deleting a game, the operator's purge and
synchronisation.  `Apply` prunes consents before and after, as `InMemoryGameService` does when it is built from a snapshot and exported.
`ApplyReceipts` says in one expression what the loop of `synchronizeDeletionLedger` does receipt by receipt, so that it can be
reasoned about; `ReceiptsInTurn` of `RestorationMC` compares it with that loop on every list of up to four receipts.

State of `Store`.  `meta` is the row of `service_state` without its games, `rows` is
`service_games`, `mirror` the relational tables of migration 001 with `deletion_ledger`.  `phase`, `request` and `loaded` are where each
caller, worker or delivery stands; who holds the row lock follows from `phase`.  `active` and `waiting` are the fields of `DeliverySlots`.

Actions.  `Begin`, `Commit`, `Rollback` and `Answer` are a call of `#mutate`, which may be made again
while it is `unanswered`; `Commit` is disabled if the rows would break a constraint, which PostgreSQL answers by rolling back.
`BeginPush` and `CommitPush` are `#mutatePush`; `Share`, `ReadShared`, `Send` and `End` are
`#readInDeliverySlot`; `Acquire`, `Release` and `Withdraw` are the slots; `Cancel` is a deadline or shutdown at any point,
`Crash` the end of the process at any point.

Abstractions.

* *Scope.*  A load restricts `rows` to the games of `Selection` or `PushGames`; everything else of the snapshot is
  metadata and is read whole, as in the code.
* *Statements* of one transaction take effect at its commit.  `Mirrored` has them in the order of `#mirrorSnapshot`.
* *Identifiers of games* are numbered in the order of creation; a fresh one is none that is or was in use.
* *Who may do what* is `GameService`'s.  Here it only decides whether a call changes anything.
* *Synchronisation* is left out of the requests: see section 5.

The refinement.  `Stored` puts `rows` back into `meta`; `CallsAreAtomic` is the formula `Service!Spec`,
checked by TLC as a property: every step of `Store` is a call of `AtomicService` on the whole snapshot, or leaves it as it
is.  It is also proved (section 4).  So retries, rollbacks, crashes and scoped loads are never seen from outside, except as a call that happened or did not.

### `Restoration`

State.  `snapshot` is the database, `server` is `down`, `unready` (it runs and refuses) or `ready`; `backups` are the retained
copies, `offhost` the newest copied ledger, `watermark` the file on the host.  `acknowledged` (the games whose deletion a watermark has covered) is a
history variable; `written` dates receipts, so that two histories never write the same one.

Actions.  `Serve` is any call of a browser, through the gate of `http.ts` and `room.ts`; `PurgeDeleted` the timer's operator command;
`BackUp` is `offhost-backup.sh`; `Restore` replaces the database by any retained backup; `Stop`, `Start` and `Synchronize` are
the server and `operator.js sync-deletion-ledger` followed by setting the watermark, as `docs/operations/VPS.md` tells
the operator to.  Two accidents are switched by a constant: `purge while unready`, and `acknowledgement lost`, in which the copy is kept and
writing the watermark fails.

### `SpectatorAccess`

State.  `invitations` and `bindings` are `#spectatorInvitations` and `#spectatorBindings`, `actions` the log, in which
everything that is no spectator command is `play`; `clock`, unlike in `GameService`, is explicit, because the limit, the claim, the revocation and the validator
each compare times.  `answers` records which sessions claims were answered with.

Actions.  `IssueSpectatorInvitation`, `RevokeSpectatorInvitation`, `RevokeSpectatorAccess`, `DeleteGame` are host commands;
`Claim` and `RetryClaim` are `claimSpectatorInvitation`, by a browser with a session or without; `Purge`, `Tick` and `SessionExpires` are the
rest of the world.  `ActiveBindings` is the code's cross-check of binding, invitation and log, `Replays(n)` the spectator part of the
validator on the first n actions.

## 3. What is checked

| Run | Module | Instance | Shows |
| --- | --- | --- | --- |
| `service` | `GameServiceMC` | 3 sessions, 4 bindings, 2 invitations, 2 grants, 2 commands, 3 log entries, 1 expiry; 3 invitations and grants in all | `TypeOK`, `BindingsAreExclusive`, `CommandAppliesOnce`, `RetriedClaimOwnsItsBinding`, `NothingOutlivesItsUse`, `HistoryReplays`, `HandoverIsLogged` |
| `siege` | `WarGameMC` | 7 hexes, 5 counters, 2 turns, one of them at night, one reinforcement | `OccupiersControl`, `StacksAreLegal`, `OutcomeIsEarned`, `EveryChoiceHasAnAnswer`, `GamesAreFinite` |
| `melee` | `WarGameMC` | 10 hexes, 5 counters, 1 turn, two combats at once | `CombatsAreIndependent`, `EveryContactIsFought` |
| `room` | `GameRoomMC` | 3 connections (a player and its reconnection, an observer), 2 events; a seat's heir in the database | `NothingIsLost`, `DeliveryIsInOrder`, `SpectatorsAreAuthorized`, `EveryoneIsServed` |
| `push` | `PushOutboxMC` | 3 bindings (one a recovery's), 1 subscriber, 2 workers, 2 combats, 3 events, 2 subscriptions, 3 units of time, 1 retry | `SurvivesReload`, `RemindersAreCurrent`, `OneUnexpiredLease`, `DispatchIsWanted`, `GoneEndsItsConsent`, `OnlyItsLeaseEndsIt` |
| `spectator` | `SpectatorViewMC` | 3 events, 2 connections, 2 reads at a time, a list of 2 | `SettledIsComplete`, `ChronologyNeverMovesBack`, `BehindCatchesUp` |
| `player` | `PlayerViewMC` | 2 connections, 2 reads at a time; a guest with 2 events and moves, or 1 event and a surrender, or a host with 1 event, 2 operations and a surrender | `SettledIsCurrent`, `HostAnswersInOrder`, `SurrenderIsFinal` |
| `store` | `StoreMC` | 2 games, 2 sessions, 2 callers, 1 worker, 2 deliveries, 2 slots, 9 requests | `MirrorIsSound`, `SlotsAreShared`, `CallsAreAtomic`, `SendsAreAuthorized` |
| `ledger` | `RestorationMC` | 2 games, 2 sessions, 3 backups, 4 receipts, 7 requests, no accidents | `DeletedGamesStayClosed`, `LedgerIsInForce`, `OtherGamesKeepTheirPlayers` |
| `access` | `SpectatorAccessMC` | 3 invitations, 2 sessions, 2 claim identifiers, a limit of 2, a lifetime of 1, a clock to 2, 5 log entries | `LimitHolds`, `EveryPrefixReplays`, `AccessFollowsInvitation` |
| `unhit` | `WarGameMC` | the instance of `siege` | violates `OnlyStepLossesReduce` |
| `resurrected` | `RestorationMC` | the same with 2 backups and `purge while unready` | violates `DeletedGamesStayClosed` |

What the properties of the rules say.  `StacksAreLegal`: whichever of movement, capture,
loss, retreat, advance and entry put counters in a hex, they fit and are of one side.
`OccupiersControl`: an objective belongs to whoever stands on it; five commands write control,
each in its own copy of the code.  `EveryChoiceHasAnAnswer`: no pending loss, retreat or trap is
without a legal answer.  `CombatsAreIndependent`: the combats of a phase share no counter, and whatever is
done in one leaves those not yet confirmed as they were, so their order does not matter.  `EveryContactIsFought`: no contact is left
out of the combats of a phase, or made in it.  `OutcomeIsEarned`: the declared
result is the one the final board and turn justify.

*Progress.*  The rules promise that a game can be played to its end, and no fairness is
needed to say so.  `GamesAreFinite` says that no sequence of commands
goes on for ever, and the runs check for deadlock, with `GameOver` as the only
step of a completed game: from every position that is not completed some command is
accepted.  Together every game that goes on is completed.

Why the bounds of the rules are enough.  The interesting cases take two sides, the three kinds of counters
that the rules tell apart (infantry and cavalry differ only in their odds), a stack
with a general, one step and two, a hex of each kind and two combats at once.  Each of
the eleven actions fires; the siege reaches traps, exits, captures, entries and retreats through
friends.  Two turns give the early ratio a turn, and the lead and the final
comparison another, one by night and one by day.

What the properties of the room say.  `NothingIsLost`: whatever a joined connection has not been sent is
still on its way, through joins that overlap broadcasts, failed reads and closing sockets.
`DeliveryIsInOrder`: what is sent begins with a snapshot and never goes back (`SentInOrder`), and a
player is told of a success only after the event, or a later one that overtook it (`ResultsFollowBroadcasts`).
`SpectatorsAreAuthorized`: nothing is sent to a spectator after the commit that ended its access,
whether or not the room knows.  `EveryoneIsServed`: the queue never stalls, and
every event reaches a connection or the connection is closed.

*Fairness of the room.*  Weak fairness of the delivery queue (each promise continues, and the
deadline of two seconds ends each read), of announcements and results (a resolved promise
is continued) and of handshakes (the same deadline).  Nothing is assumed of players, the service or
the network.

Why the bounds of the room are enough.  Every race here is between two events, or an event and a
connection, or two connections of a binding: two events, two connections of one binding
and one more of another kind make all of them.  That no binding is served twice (`OneConnectionPerBinding`) is proved, not run.  Every action fires.  The proofs settle the rest, but for
liveness.

What the properties of the reminders say.  `SurvivesReload`: nothing that is written looks damaged to the
constructor that reads it next, at any of the limits (the lifetime, the consent's end, the last attempt).
`RemindersAreCurrent`: a stored reminder is for who holds the seat, consents and owes exactly that decision.
`OneUnexpiredLease`, `DispatchIsWanted`, `OnlyItsLeaseEndsIt`: a worker that was held up neither sends nor
acknowledges what is no longer its own.  `GoneEndsItsConsent`: a subscription is given up exactly when
it was itself found gone (`GoneRetiresItsOwn`), even if the reminder has been replaced (`GoneIsHeeded`).  No fairness is assumed of
workers, the provider or the clock, and a worker may be interrupted at any time.

Why the bounds of the reminders are enough.  A stale outcome takes two workers and two attempts of one reminder; the
second attempt is the last, as the fifth is in the source, so `RETRY_DELAYS_MS` has one entry.  A
reminder is replaced by the second event and withdrawn by a third; one replaced subscription makes
the consent stale.  Three units of time let a lease of two and a
lifetime of three end before, with and after each other.  The proofs settle the rest.

What the properties of the browser say.  `SettledIsCurrent` (for the spectator a part of `SettledIsComplete`): once nothing is on its way, what is shown is the
game's state, whichever broadcasts were dropped, came too early or were overtaken by answers.  For the
player it makes three exceptions, each of which the code has: a host's answer, which is not compared with the cursor; a message of
a former connection; a read that failed, which the player is told.  `SettledLogIsComplete`, its other part: the spectator's list has the latest events
and no hole.  `ChronologyNeverMovesBack`: nothing the spectator sees goes back.  `BehindCatchesUp`: a spectator's screen does
not stay behind.  `HostAnswersInOrder`: the queue of host operations keeps their answers in order.  `SurrenderIsFinal`: who left the game with the
surrender stays out; a host who stayed is shown on the seat again only by an answer read before the surrender (which happens, section 5), and
the room is never joined for that seat again.

*Fairness of the browser.*  In `FairSpec` what is sent arrives and what is asked for is answered and handled (`Browser`, `ServerStep`), for
a connection that does not deliver is closed and a request that is not answered fails, which is `Disconnect`, possible at any moment and never
assumed.  Nothing is assumed of players or commits.

Why the bounds of the browser are enough.  An overtaken broadcast takes two events and a gap after it a third; a gap and
the read after joining are two reads at a time; a former connection's message takes two connections; answers out of order take two operations.  A
list of two drops its oldest line.  Reads beyond the bound would only be more of the same purposes.  In the run `player` the action constraint
`Bounds` keeps to what each actor is there for: a host's moves are a guest's, so here the host only surrenders, and a game
of a host, or in which a surrender is sent, has one event, the surrender or another.  The symmetry `Alike` is sound: the operations are compared for equality only, and no property of the run is a liveness property.

What the properties of the store say.  `CallsAreAtomic` is the refinement above.  `MirrorIsSound`: the relational
rows, written by differences against what a transaction had loaded, are at all times what the snapshot implies, and no write that any
transaction under way could make breaks a foreign key, the index of the one live host or that of creation identifiers.  `SlotsAreShared`: no slot
is lost or taken twice, whichever waiters withdraw and whichever processes are cancelled.  `SendsAreAuthorized`: no message leaves for a
player whose seat, session or game a committed call has taken away.

Why the bounds of the store are enough.  A scoped load matters when one game is loaded and another is not, with consents, players and
an observer in each; the interesting calls are the nine of `StoreMC`, which between them touch every part of the snapshot.  Lock and slots
need two of each kind to meet, and three deliverers for two slots make one wait.  No request makes a second host of a game (recovery is `GameService`'s),
so the index of the one live host is hardly put to the test here.

What the properties of restoration say.  `DeletedGamesStayClosed` is the promise of SPEC.md:645-653.  `LedgerIsInForce`: each
receipt is carried out in full, whether by the deletion itself, by synchronisation after a restore or by a purge.
`OtherGamesKeepTheirPlayers`: carrying it out takes nothing from other games, whose players share sessions with the deleted one.
Bounds: restoring the second of three backups, in which one of two games is deleted, is the smallest case with a ledger that has something to
keep and something to add; the four receipts are those of two deletions and two purges.

What the properties of spectator access say.  `LimitHolds`: claims, expiry and revocation in any order never leave more than the limit of watchers and
open invitations.  `EveryPrefixReplays`: the validator, which decides from the final evidence who was outstanding when, accepts
every prefix of the log.  `AccessFollowsInvitation`: of the fifteen or so conditions under which an authorization fails, none ever
locks out a browser whose claim stands (`WatchersAreAuthorized`), and no retry or second claim is answered with another's session (`OneClaimAnInvitation`).
Bounds: a third invitation is the first to meet the limit; two sessions and two identifiers are
enough to be the wrong one; a clock with before, at and after the expiry.

Why the service bounds are enough.  A seat needs three sequence numbers to be surrendered, reissued
and used again, which is the shortest way to make bookkeeping of intervals matter; a
claim then needs a second invitation, a fourth binding and a third session.  For recovery
two grants on one binding, the second claimed after the first, already use every
comparison the code makes.  The run reaches deletion and purge with invitations and
grants outstanding.  What the bounds cut off is settled by the proofs.  No fairness is assumed of the service: nothing in it promises progress.

Each property has a mutant, an operator placed just before the definition it spoils
(`SeatVacant_Forgotten`, `Audit_Forgotten`, ...), that makes TLC find the property violated.

## 4. What is proved

For every number of sessions, bindings, invitations, grants and commands, and every
length of the log (assumption `NoneAssumption`: `None` is no identifier;
`MaxSequenceAssumption`: the bound is a natural number):

| Theorem | Module | Statement |
| --- | --- | --- |
| `TypeCorrect` | `GameServiceProofs` | `Spec => []TypeOK` |
| `Invariance` | `GameServiceProofs` | `Spec => []IInv` |
| `BindingsStayExclusive` (from `SeatsStayExclusive`, `HostStaysUnique`), `CommandsApplyOnce`, `NothingOutlives` (from `DeletedGamesAreInert`, `SecretsAreForgotten`), `RetriesOwnTheirBinding`, `HistoriesReplay` | `GameServiceProofs` | the safety invariants of the run `service` |
| `HandoversAreLogged` | `GameServiceProofs` | `Spec => HandoverIsLogged` |
| `OutcomeStaysEarned` | `WarGameProofs` | `Spec => []OutcomeIsEarned` of `WarGame`, for every board, army and scenario that satisfies `BoardAssumption`, `UnitAssumption` and `ScenarioAssumption` |
| `StacksStayLegal`, `OccupiersKeepControl`, `CombatsStayIndependent`, `EveryContactStaysFought`, `ChoicesAreAnswered`, `WarTypeCorrect` | `WarGameProofs` | `Spec => []P` of `WarGame` for `StacksAreLegal`, `OccupiersControl`, `CombatsAreIndependent`, `EveryContactIsFought`, `EveryChoiceHasAnAnswer` and `TypeOK`, under the same assumptions and `NowhereAssumption` (no hex is `Nowhere`) |
| `RoomInvariance` | `GameRoomProofs` | `RoomSpec => []RoomInv` |
| `NothingGetsLost`, `DeliveriesStayInOrder` (from `SentStaysInOrder`, `ResultsComeLast`), `BindingsConnectOnce` | `GameRoomProofs` | the safety invariants of the run `room`, and `OneConnectionPerBinding`, for any number of connections, bindings and events (assumption `RoomAssumption`) |
| `SpectatorsStayAuthorized` | `GameRoomProofs` | `RoomSpec => SpectatorsAreAuthorized` |
| `PushInvariance` | `PushProofs` | `PushSpec => []PushInv` |
| `PushTypes`, `RemindersReload`, `RemindersStayCurrent`, `LeasesAreExclusive` | `PushProofs` | the invariants of the run `push`, for any number of bindings, workers, combats, events and retries (assumptions `PushAssumption`; `NoneAssumption`: `None` is no reminder; `GroupsAssumption`) |
| `DispatchesAreWanted`, `GoneEndsConsents` (from `OnlyGoneRetires`, `GoneRetires`), `LeasesEndTheirOwn` | `PushProofs` | its action properties |
| `ViewInvariance`, `ViewTypes`, `ScreensNeverGoBack`, `SettledScreensAreComplete` | `SpectatorProofs` | `Spec => []ViewInv`, `[]TypeOK`, `ChronologyNeverMovesBack` and `[]SettledIsComplete` of `SpectatorView`, for any number of events, connections and reads and any length of the list (`LinkAssumption`, `LogAssumption`) |
| `PlayerInvariance`, `SettledIsCurrentHolds`, `HostAnswersStayInOrder`, `SurrenderStaysFinal` | `PlayerProofs` | `Spec => []PlayerInv` and the properties of `PlayerView`, for any number of events, connections, reads and operations (`LinkAssumption`; `PlayerAssumption`: at least one connection, operations are no other purpose of a read, commands are moves and surrenders) |
| `LimitIsHeld`, `AccessIsDecidedByClaims`, `PrefixesReplay` | `AccessProofs` | `Spec => []P` of `SpectatorAccess` for `LimitHolds`, `AccessFollowsInvitation`, `EveryPrefixReplays`: any limit, lifetime and number of browsers, any length of the log (`AccessAssumption`) |
| `SlotsStayShared`, `SendsStayAuthorized` | `StoreProofs` | `Spec => []SlotsAreShared` and `Spec => SendsAreAuthorized` of `Store`: any number of callers, workers, rooms and slots (`StoreAssumption`: a process has one role, workers and rooms are finitely many) |
| `MirrorStaysSound` | `StoreProofs` | `Spec => []MirrorIsSound`, under the same assumption and for any number of games (`MaxGames \in Nat`) and sessions |
| `CallsStayAtomic` | `StoreProofs` | `Spec => CallsAreAtomic`: `Store` implements `AtomicService` |
| `LedgersAreInForce`, `OthersKeepTheirPlayers` | `StoreProofs` | `RestorationSpec => []LedgerIsInForce` and `RestorationSpec => OtherGamesKeepTheirPlayers` of `Restoration`, for any number of games, sessions, backups and receipts, whatever accidents happen (`RestorationAssumption`) |
| `DeletedStayClosed` | `StoreProofs` | `RestorationSpec => []DeletedGamesStayClosed` when `Accidents = {}`; with an accident it is false (run `resurrected`) |

The argument.  None of the invariants is inductive alone; `IInv` joins them with what
they rest on.

* `SeatsExclusive` and `HostIsUnique`, the parts of `BindingsAreExclusive`, survive a recovery because the new binding takes the
  role and place of the old one, which needs `GrantsMatchBindings` (a grant names a binding
  of its own role) and that only one binding is replaced.  A recovered binding's session is
  fresh, which needs `BindingsHaveSessions` (a session that does not exist binds nothing).
* `RetriedClaimOwnsItsBinding` needs `SealedClaimsAreActive`: whatever retires the binding
  a claim made also erases the claim's credential, so the lookup by side and session
  cannot hit a successor.  For recoveries, whose credential is not erased, it needs
  `RecoveriesAreFresh`: no two recovered bindings share a session.
* `DeletedGameIsInert`, a part of `NothingOutlivesItsUse`, needs `OnlyLiveGamesBind`, `OnlyLiveGamesInvite` and
  `InvitationsAreIssued`.
* `CommandAppliesOnce` needs `LogIsGapless`: the next sequence number is the position the
  entry lands at.
* `HandoverIsLogged` is an action property that follows from `IInv` alone, one case per
  action.
* `HistoryReplays` follows from `HistoryInv` of `ActionReplay`.  The validator reads an old entry against
  today's bindings and invitations, so what it reads of them must never change: dates lie in the past
  (`BindingsDated`, `InvitationsDated`; only the binding of a last surrender is retired after it), the bindings of a role follow one
  another without overlap (`Timeline`), and what an entry revoked stays revoked (`EntryKnown`).  One lemma shows
  that a step leaves everything read of an old entry alone, and one per logging action that its new entry is accepted.
* `OutcomeIsEarned` of the rules is inductive together with `CompletedIsFinal` (a completed game has nobody to
  move and no combat, so no command is accepted).  The step that completes a game scores the
  position it finds and then captures lone generals, which `CaptureTouchesGenerals` and
  `GeneralsScoreNothing` show to leave the scores alone.  The scores are natural numbers
  because the armies and the board are finite (`ScoreIsNatural`).
* The board rests on `WarInv`, the types with `PositionInv` and `CombatInv`, which TLC has checked on both instances.
  `StacksAreLegal` is not inductive, for a retreat, unlike a move, is not
  checked hex by hex: it ends in a legal stack only because the counters of a combat's choice still stand where the combat began,
  alone with each other.  So `CombatInv` says of each combat how far it has come and what stands in its hexes accordingly
  (`InStage`), that the combats share no counter and no hex (`CombatsAreParted`, `ChoicesAreApart`), and that two uncommitted counters
  are in contact only before combat (`EveryContactIsFought`); `PositionInv` says that no general is left whom the
  last command should have captured.  A command that moves is a walk: `Upwards` and the library's recursion
  theorem give the positions on the way as a function, `OnTheWay` what holds at each hex, `Arrived` what is left at the
  end.  Whatever walks or is captured, what happens to everyone else is `MayBeLost` (a lone general, captured), and
  `CombatStep` turns that, with what the command does to its own combat, into `CombatInv` of the next state.
* `EveryChoiceHasAnAnswer` needs two more facts of `InStage`: the losers still have the steps a loss asks for (`StepsOf`, capped on
  confirmation and untouched by the other combats), and whoever is to retreat has a combat counter in his hex (`Led`).  That there
  is a way out is a fact of `Retreats` alone (`EveryStackFindsAWay`).  `CanFinish` is the closure of a relation and walking is not:
  `FinishGoesOn` turns the one into the other, for a way on that does not end where it begins has a first step from which it goes on
  without coming back.  So a path that cannot end yet has a next step, to a hex it has not visited (`UnderwayGoesOn`), also
  after zones of control have narrowed the steps (`SomeNextStep`), and there are only so many hexes (`UnderwayIsShort`).

* The room's invariants lean on each other.  `SpectatorsAreAuthorized` needs `ReadsAreCurrent`: while a
  delivery holds the lock, what it read is still true and covers every observer.  `NothingIsLost`
  needs `RetiredAreGone`, for a batch passes over retired bindings.  A first snapshot comes first
  because of `InitialsAreJoining` (one is queued for each connection, until it is joined) and
  `NewcomersHaveNothing`.  `ResultsFollowBroadcasts` needs `ResultsAreShown` and `WatermarkIsSent`, and
  for a player who reconnects `ActorsHavePlayed`.  `SentStep` reduces every step to the four
  things that can happen to a connection: nothing, a first snapshot, an event, a result.

* The reminders' properties follow from `PushInv`.  `Settled` is what pruning leaves behind and
  gives `RemindersAreCurrent`; `Sound` is what enqueue, claim and finish write and gives
  `SurvivesReload`.  `Known` is the heart of it: what the row still has of a lease some worker
  holds, be it the reminder itself, a later attempt (then the lease is over), or the receipt (as
  long as lease and consent last).  With `LeasesFollow`, that two leases of a reminder follow one
  another, it decides what a late outcome may touch.  Each transaction makes some row of the
  one it loaded and saves what `Pruned` leaves of it, so an action is shown to make a row that
  is `Sound` and `Known` (`SoundCarries`, `KnownCarries`) and `Transaction` does the rest; `GoodStep` carries
  the action property `LeavesByRight` along with the invariant.

* `ChronologyNeverMovesBack` needs `ScreenFollows`: the board is the latest state accepted, so a message or answer that is not older
  than that is not older than the board, and the number shown has been heard of, so the latest number heard of
  is not below it.  While the board is empty no state has been accepted, so the first answer is never too old.

* `SettledIsComplete` is a statement about rest, so its invariant `SettleInv` says of each thing the screen may lack what is
  bringing it.  `LinksFollow` (of `EventLink`): an open link has told of every event its room has been told of, and a gameplay event comes with its
  state.  `NumberFollows`, `BoardFollows`, `ShownFollows`, `ListFollows`: the number, the board, the number shown and the list each have what
  they should, or a read not yet applied (`Coming`) or a message not yet handled (`Wired`, `Told`) has it.  A gap is noticed in the step that
  makes it, and that step asks for a read.  The list needs that none of its lines is older than it is
  long, so that a late answer's lines take their place among the newer ones.

* The player's `SettledIsCurrent` follows from `PlayerInv` in the same way, with more in the way of it.  The cursor advances by one event at a time and
  refuses what it has seen, so it has passed the latest event of its open link, or a message
  or a read brings it (`CursorFollows`); that takes `LatestIsLast`: the last message of a link that is about an event is about the latest it has seen,
  since the room never goes back.  The board has the cursor's version or a snapshot is on the wire (`BoardFollows`).  Both hold while nothing is
  in `doubt`, which is where the exceptions of the property enter, and not before.  `AttemptsCount` keeps a new connection from finding reads or messages
  that were meant for it already.  `HostTakesTurns` (one operation at a time, whose read was made after the answer applied before it) gives
  `HostAnswersInOrder`.  `SurrenderIsFinal` rests on `OnlyHostsStay` (nobody but a host is ever without a seat and still in the game), `OnceSurrendered` (nothing but the
  surrender dismisses anybody) and `OpenLinks`, by which a player who is connecting after the surrender has no open connection and, since joins are refused, gets none.
  `SpectatorProofs` and `PlayerProofs` prove the lemmas about `EventLink` each in terms of its own purposes.

* Spectator access rests on `AccessInv`: while a game is open, each claimed invitation has exactly one binding and
  the two agree field by field (`BindingsMatch`), identifiers are handed out by counting bindings, which are never removed
  before the game is deleted (`BindingsAreCounted`), and what was answered is what the invitation records (`AnswersMatch`).
  `LimitHolds` follows since everyone who watches occupies a place (`Occupying`); an invitation that expires unclaimed can only leave
  the places, a claim only keeps one.  For `EveryPrefixReplays` `LogInv` ties evidence and log together both ways:
  each invitation has its entries (`Traced`), each entry its invitation (`Entered`).  The validator counts the places at the time an entry
  was made from what has happened since; `Entered` says that the count it finds was already below the limit, and
  later claims, expiries and revocations leave that count alone.

* `SlotsAreShared` is inductive with `Phases` (who can be in which phase), `QueueIsOrdered` (nobody waits twice) and `active \in Nat`.
  Releasing hands the slot to the first waiter without touching the counter, so the set of users loses one and gains one.
  `SendsAreAuthorized` needs `LockInv`: a share excludes whoever would write, so what a room loaded is still what is stored when it sends.

* The refinement `CallsAreAtomic` and `MirrorIsSound` rest on `TableInv`: the one transaction that holds the lock has read what is
  still stored (`LoadsAreCurrent`), it carries out a call it was asked for, and the stored snapshot is in order (`SnapshotInv`: every
  binding belongs to an open game and a session in use, no session is idle, a game has one host and a creation identifier one game).  What a
  call on some of the games does is compared with what it does on all of them: two snapshots `Agree` if one has the rows of
  the other without those of some games, everything else being equal, and each operator of `Snapshot` takes such a pair to such a
  pair (`Alike`) as long as the games the call needs have been loaded (`Suffices`).  So what `Upserted` and
  `WithGames` put back is the outcome of the call on everything (`OutcomeIsWhole`, `PersistedIsCall`).  The mirror
  is written by differences from what was loaded; they are right since a call never changes a receipt, nor takes a binding without its row (`Follows`),
  and the constraints hold because the new snapshot is in order again (`WrittenFits`).  The purge order is the
  only enumeration; `Enumerated` shows that it exists.

* Restoration needs two invariants.  `RestorationInv` holds whatever happens: every database there is, the one in use and each retained
  backup, `IsHeld`, that is, its ledger is in force and its consents are pruned.  Each call, the purge and the synchronization take such a
  database to such a one whose ledger `GoesOn` from the old.  That is not immediate, since a tombstone revokes and a purge
  erases, and nothing may bring back what an earlier receipt closed: a fresh game has no receipt, and every other call asks for an open game.
  `LedgerIsInForce` follows.  `OtherGamesKeepTheirPlayers` needs it before the step: what pruning would take has been taken already.
  `DeletedGamesStayClosed` needs `LedgerInv` as well, which holds only without accidents.  It makes the ledgers pieces of one history: each backup's is
  the beginning of the copied one, the one in use begins it or continues it, and continues it while the server
  serves.  Start-up compares lengths only; for two pieces of one history the same length is the same content.

`GameServiceProofs` has one lemma per record operation and per action for the types, then shows in turn that
bindings and grants, invitations, claim credentials and the log stay consistent, puts the parts together, and
goes on to the history.

How updates are written.  tlapm translates an `EXCEPT` that names one key twice, or has `@` inside an `EXCEPT` that is nested in
another one, in a way that loses the first change or confuses what `@` stands for.  The modules use neither: two fields of one record
change in one update of that record (`![a] = [@ EXCEPT !.wire = ..., !.state = ...]`), and where an
update names two keys they are known to differ.  It also reads `SUBSET S \ T` as the subsets of a difference
and `UNION S \cup T` as the union of one, where TLC and SANY bind the prefix operator first; the modules put parentheses there.

Only model-checked: `EveryoneIsServed`, `BehindCatchesUp` and `GamesAreFinite`, which are liveness. Every other property of a passing run is a theorem.

## 5. Where the code and its documents disagree

**A counter that was not hit becomes reduced** (run `unhit`).  SPEC.md:515-517 says that "a combat-one counter has no reduced step and is
eliminated by its first allocated loss"; README.md:72-74 and ROADMAP.md:155-156 say the same.  Such a counter begins with one step and the
strength `full` (content/src/mandatory.ts:126-127).  `allocateLoss` writes the strength of every counter of the choice from the steps it has left
(reducer.ts:942-949), whatever its allocation.  In the run a two-step and a one-step counter defend a hex together and lose a step; the first takes it, and
both become `reduced`.  From then on, as long as it stays deployed, the one-step counter is worth a point to the enemy (reducer.ts:84-88) although it
has lost nothing.  The comparison of `strength` in `currentCombatValue` (combat.ts:39) makes no difference to a factor of one.  The model keeps what the code does, and
`OutcomeIsEarned` is about the scores so counted.

**A deleted game can come back after a restore** (run `resurrected`).  SPEC.md:650-652 wants tests to "prove a deleted game's old credentials
cannot reconnect during soft deletion, after hard purge, or after restoring any retained backup", and SPEC.md:648-649 that an
"unsynchronized watermark fails closed".  `isDeletionLedgerAcknowledged` (runtime-config.ts:73) compares the watermark only with the position of
the last local receipt.  In the run, game 1 is deleted and the database copied away; game 2 is deleted and copied away, which sets the watermark to 2; the first backup is
restored, and the server starts unready, since its ledger has length 1.  The purge timer, which runs whenever the container does
(`ops/systemd/gettysburg-purge.service`), purges game 1 and appends a receipt.  The ledger has length 2, the next start is ready, and game 2 is open.
Synchronizing afterwards fails, for the two ledgers differ.  It takes an operator who restarts before synchronizing, and push notifications switched off (with
them, `index.ts:98` stops an unready server), which docs/operations/VPS.md:250 says the deployment has.  With the accident
`acknowledgement lost` (the copy was made and its watermark not written) the property is violated in the same way, from a restore of the older of two
backups with ledgers of different content and the same length as the watermark.

Observed while modelling, and kept in the models as what the code does, but not as runs:

* *A later event may be broadcast instead of an earlier one.*  Two commits may be answered in the opposite order; the later one raises the
  watermark of a connection and the earlier one is dropped for it (room.ts:214; SPEC.md:203 has them "broadcast in order").  Clients notice the gap and read the session again:
  the broadcast is lost, the state is not (`NothingIsLost`, `SettledIsCurrent`).
* *A host's answer may show an older state* (App.tsx:417): its first read is not compared with what was broadcast meanwhile.  If the command is then refused as
  stale, the text says that the latest state has been restored, and nothing restores it until the next event.  `SettledIsCurrent` excepts it by name.
* *A late host's answer shows a surrendered seat again* (App.tsx:427-429).  A host starts a command, whose first read is answered while he has the seat;
  he surrenders, which only a pending command of the board would prevent (App.tsx:986), and `enterGame` shows him without a seat; then the late answer is applied and
  brings the seat back (`SeatBack`), for which the effect connects (App.tsx:395).  The room refuses every join, and if the command is refused as stale nothing is
  read again, so the seat stays on the screen until the next host's command or reload.  Nothing can be done from it: `SurrenderIsFinal` says so, and that no other way leads there.
* *A late answer may declare a player connected* (App.tsx:372) whose room has been left, where SPEC.md:593 does not want an editable
  stale board.  No command can be sent from it.
* *A soft deletion that was synchronized stands in the way of its players.*  Synchronisation revokes their bindings but keeps the metadata's binding and
  session; the mirror deletes the `browser_sessions` row of a session that has no other binding.  Another claim or creation by that session then breaks the foreign key and is rolled
  back, until the purge.  SPEC.md:652-653 wants unrelated bindings to go on working.  `Store` therefore has no request for it.

## 6. Not modelled, and what is left

Pure I/O, encryption and hashing, HTTP parsing, headers and origin checks, schema validation, the
rendering of the browser client, and the content tables (the rules modules take what they
need as constants) have no behaviour that a model would show.

*Creation admission* is a threshold over counters of the host, sampled by one timer: sequential arithmetic whose cases its
unit tests enumerate.  *Rulesets before* `gettysburg-mandatory-v6`, their movement costs, and the operator's transition
between them concern games that no longer begin.  *The searches* of `combat.ts` and `movement.ts` are
modelled by what they return, so the work budget of the separation (250,000 steps) and the tie-breaks are not.  Of the browser,
*the player's action log*, the deletion of a game, local storage and the invitation pages are left out.

Worth doing next, in this order:

1. *Proofs*: a measure that every accepted command decreases (phases left, then movement, entries and exits left or
   what the combats still have to go through), the part of `GamesAreFinite` that is not liveness.
2. *Algorithms*: the separation search against an exact-cover reference, the movement
   search against the reference of shortest routes.
3. *Composition*: `GameRoom` shown to implement the server of `EventLink`, connection by connection, and `GameService` an abstract
   history of accepted commands.
