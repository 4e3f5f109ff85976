----------------------------- MODULE PushOutbox -----------------------------
(***************************************************************************)
(* Turn reminders: the durable outbox of apps/server/src/push-outbox.ts,   *)
(* the calls of game-service.ts that fill, prune and drain it, and the     *)
(* workers of push-worker.ts, of one process or of two that overlap.       *)
(*                                                                         *)
(* The row is the canonical snapshot.  Every mutation loads it into a      *)
(* fresh service, which prunes it, and prunes it again before writing it   *)
(* back, all under the lock of the row.  A worker talks to the provider    *)
(* outside that lock, so all it knows is as old as its last transaction.   *)
(*                                                                         *)
(* A random identifier is known by what it was drawn for: a reminder by    *)
(* its binding and event, a lease by its reminder and attempt, a sealed    *)
(* subscription by its tag.  All processes read one clock.                 *)
(***************************************************************************)
EXTENDS Decisions, Sequences

CONSTANTS
  Binding,      \* seat bindings
  SideOf,       \* the seat of a binding
  Bound,        \* the bindings the game starts with
  Subscriber,   \* bindings whose browser ever asks for reminders
  Worker,       \* push workers
  None,         \* null
  Lifetime,     \* PUSH_LIFETIME_MS
  Lease,        \* PUSH_LEASE_MS
  RetryDelays,  \* RETRY_DELAYS_MS
  Spans,        \* how long a subscription may be good for
  MaxTime,      \* bound on the clock
  MaxSequence,  \* bound on the number of events
  MaxTag        \* bound on the number of subscriptions

ASSUME PushAssumption ==
  /\ SideOf \in [Binding -> Side]
  /\ Bound \subseteq Binding
  /\ \A a, b \in Bound : SideOf[a] = SideOf[b] => a = b
  /\ Subscriber \subseteq Binding
  /\ Lifetime \in Nat \ {0} /\ Lease \in Nat \ {0}
  /\ RetryDelays \in Seq(Nat)
  /\ Spans \subseteq Nat \ {0}
  /\ MaxTime \in Nat /\ MaxSequence \in Nat /\ MaxTag \in Nat

VARIABLES
  clock,    \* #now()
  row,      \* the snapshot in service_state
  tags,     \* subscriptions sealed so far
  workers   \* what each worker is doing

pushVars == <<clock, row, tags, workers>>

Consent == [tag : Nat, expires : Nat]

\* StoredPushIntent; lease is leaseExpiresAt, 0 for null.
Intent ==
  [binding : Binding, event : Nat, tag : Nat, decision : SUBSET AnyDecision, created : Nat,
   expires : Nat, attempts : Nat, next : Nat, lease : Nat]

ASSUME NoneAssumption == None \notin Intent

Row ==
  [game : Game, sequence : Nat, deleted : BOOLEAN,
   seats : [Binding -> {"new", "active", "revoked"}],
   consents : [Binding -> Consent \cup {None}],
   items : [Binding -> Intent \cup {None}],
   receipts : SUBSET Intent]

Idle == [at |-> "idle", intent |-> None, opened |-> 0, outcome |-> "none"]
Activity ==
  [at : {"holding", "waiting", "answered"}, intent : Intent, opened : Nat,
   outcome : {"none", "sent", "gone", "retry"}]

TypeOK ==
  /\ clock \in 0..MaxTime
  /\ row \in Row
  /\ tags \in 0..MaxTag
  /\ workers \in [Worker -> {Idle} \cup Activity]

MaxAttempts == Len(RetryDelays) + 1
Min2(a, b) == IF a < b THEN a ELSE b

SameReminder(x, y) == x.binding = y.binding /\ x.event = y.event
SameLease(x, y) == SameReminder(x, y) /\ x.attempts = y.attempts /\ x.lease # 0

PushInit ==
  /\ clock = 0
  /\ row = [game |-> FirstMove, sequence |-> 0, deleted |-> FALSE,
            seats |-> [b \in Binding |-> IF b \in Bound THEN "active" ELSE "new"],
            consents |-> [b \in Binding |-> None],
            items |-> [b \in Binding |-> None],
            receipts |-> {}]
  /\ tags = 0
  /\ workers = [w \in Worker |-> Idle]

-----------------------------------------------------------------------------
(* Pruning.                                                                *)

\* #prunePushSubscriptions.  A session is never revoked, and expires no sooner
\* than the subscription it was given in.
KeptConsent(s, b) ==
  /\ s.consents[b] # None
  /\ s.consents[b].expires > clock
  /\ s.seats[b] = "active"
  /\ ~s.deleted
  /\ s.game.phase # "completed"

\* #currentPushConsent, asked after #prunePushSubscriptions
CurrentConsent(s, x) ==
  /\ KeptConsent(s, x.binding)
  /\ x.event <= s.sequence
  /\ x.created <= clock
  /\ x.expires <= s.consents[x.binding].expires
  /\ x.tag = s.consents[x.binding].tag

\* (A variant without the last check of #prunePushOutbox.)
StillRequired_Always(s, x) == TRUE

StillRequired(s, x) == x.decision = Required(s.game, SideOf[x.binding])

Exhausted(x) == x.attempts >= MaxAttempts /\ x.lease <= clock

KeptItem(s, x) ==
  x.expires > clock /\ CurrentConsent(s, x) /\ StillRequired(s, x) /\ ~Exhausted(x)

KeptReceipt(s, x) == x.lease > clock /\ x.expires > clock /\ CurrentConsent(s, x)

\* #prunePushSubscriptions, then #prunePushOutbox
Pruned(s) ==
  [s EXCEPT !.consents = [b \in Binding |-> IF KeptConsent(s, b) THEN s.consents[b] ELSE None],
            !.items = [b \in Binding |->
                         IF s.items[b] # None /\ KeptItem(s, s.items[b]) THEN s.items[b] ELSE None],
            !.receipts = {x \in s.receipts : KeptReceipt(s, x)}]

\* The snapshot a transaction works on, and what it makes of it.
Loaded == Pruned(row)
Save(s) == row' = Pruned(s)

-----------------------------------------------------------------------------
(* The game and its seats.                                                 *)

Playable == ~row.deleted /\ row.sequence < MaxSequence

\* enqueue
Enqueued(s, b) ==
  LET consent == s.consents[b]
      previous == s.items[b]
  IN IF \/ consent.expires <= clock
        \/ previous # None /\ previous.event >= s.sequence
       THEN previous
       ELSE [binding |-> b, event |-> s.sequence, tag |-> consent.tag,
             decision |-> Required(s.game, SideOf[b]),
             created |-> clock, expires |-> Min2(clock + Lifetime, consent.expires),
             attempts |-> 0, next |-> clock, lease |-> 0]

\* executeCommand, from the moment the reducer has accepted the command
Command(actor) ==
  /\ Playable
  /\ row.seats[actor] = "active"
  /\ \E game \in Outcomes(row.game, SideOf[actor]) :
       LET played == Pruned([Loaded EXCEPT !.game = game, !.sequence = row.sequence + 1])
           told == {b \in Binding : /\ SideOf[b] \in Reminded(row.game, game, SideOf[actor])
                                    /\ played.seats[b] = "active"
                                    /\ played.consents[b] # None}
       IN Save([played EXCEPT !.items = [b \in Binding |->
                  IF b \in told THEN Enqueued(played, b) ELSE played.items[b]]])
  /\ UNCHANGED <<clock, tags, workers>>

\* surrenderSeat, refused to who owes a choice
Surrender(b) ==
  /\ Playable
  /\ row.seats[b] = "active"
  /\ ~\E k \in Unresolved(row.game) : row.game.combats[k].owner = SideOf[b]
  /\ Save([Loaded EXCEPT !.seats[b] = "revoked", !.sequence = row.sequence + 1])
  /\ UNCHANGED <<clock, tags, workers>>

\* claimInvitation
ClaimSeat(b) ==
  /\ ~row.deleted
  /\ row.seats[b] = "new"
  /\ \A a \in Binding : row.seats[a] = "active" => SideOf[a] # SideOf[b]
  /\ Save([Loaded EXCEPT !.seats[b] = "active"])
  /\ UNCHANGED <<clock, tags, workers>>

\* claimSeatRecovery
RecoverSeat(old, b) ==
  /\ Playable
  /\ row.seats[old] = "active"
  /\ row.seats[b] = "new"
  /\ SideOf[old] = SideOf[b]
  /\ Save([Loaded EXCEPT !.seats[old] = "revoked", !.seats[b] = "active",
                         !.sequence = row.sequence + 1])
  /\ UNCHANGED <<clock, tags, workers>>

\* executeHostCommand: an event that asks nothing of the players
Manage ==
  /\ Playable
  /\ Save([Loaded EXCEPT !.sequence = row.sequence + 1])
  /\ UNCHANGED <<clock, tags, workers>>

\* deleteGame
DeleteGame ==
  /\ Playable
  /\ Save([Loaded EXCEPT !.deleted = TRUE, !.sequence = row.sequence + 1,
                         !.seats = [b \in Binding |->
                            IF row.seats[b] = "active" THEN "revoked" ELSE row.seats[b]]])
  /\ UNCHANGED <<clock, tags, workers>>

-----------------------------------------------------------------------------
(* Consent.                                                                *)

\* setPushSubscription: each time a newly sealed record.
Subscribe(b) ==
  /\ b \in Subscriber
  /\ row.seats[b] = "active"
  /\ ~row.deleted
  /\ row.game.phase # "completed"
  /\ tags < MaxTag
  /\ \E span \in Spans :
       Save([Loaded EXCEPT !.consents[b] = [tag |-> tags + 1, expires |-> clock + span]])
  /\ tags' = tags + 1
  /\ UNCHANGED <<clock, workers>>

\* removePushSubscription, which a revoked binding's session may call too
Unsubscribe(b) ==
  /\ row.consents[b] # None
  /\ Save([Loaded EXCEPT !.consents[b] = None])
  /\ UNCHANGED <<clock, tags, workers>>

-----------------------------------------------------------------------------
(* The workers.                                                            *)

\* (A variant that also claims what another worker still holds.)
Due_Leased(s, b) ==
  /\ s.items[b] # None
  /\ s.items[b].expires > clock
  /\ s.items[b].next <= clock
  /\ s.items[b].attempts < MaxAttempts

\* claim: the candidates
Due(s, b) ==
  /\ s.items[b] # None
  /\ s.items[b].expires > clock
  /\ s.items[b].next <= clock
  /\ s.items[b].lease <= clock
  /\ s.items[b].attempts < MaxAttempts

\* (A variant whose lease outlives the reminder.)
LeaseEnd_Uncapped(x) == clock + Lease

LeaseEnd(x) == Min2(clock + Lease, x.expires)

Claimed(x) == [x EXCEPT !.attempts = x.attempts + 1, !.lease = LeaseEnd(x)]

\* claimPushDelivery
Claim(w, b) ==
  /\ workers[w] = Idle
  /\ \E s \in {Loaded} :
       /\ Due(s, b)
       /\ \A other \in Binding : Due(s, other) => s.items[b].next <= s.items[other].next
       /\ \E claimed \in {Claimed(s.items[b])} :
            /\ Save([s EXCEPT !.items[b] = claimed, !.receipts = s.receipts \cup {claimed}])
            /\ workers' = [workers EXCEPT ![w] = [at |-> "holding", intent |-> claimed,
                                                  opened |-> s.consents[b].tag, outcome |-> "none"]]
  /\ UNCHANGED <<clock, tags>>

\* claimPushDelivery with nothing to claim writes what it pruned.
Poll(w) ==
  /\ workers[w] = Idle
  /\ \E s \in {Loaded} : (\A b \in Binding : ~Due(s, b)) /\ row' = s
  /\ UNCHANGED <<clock, tags, workers>>

\* (A variant that trusts what the worker claimed.)
Authorized_Claimed(x) == x.lease > clock

\* authorizePushDelivery
Authorized(x) ==
  LET item == Loaded.items[x.binding] IN
  item # None /\ SameLease(item, x) /\ item.lease > clock

Advance(w, at, outcome) ==
  /\ workers' = [workers EXCEPT ![w] = [@ EXCEPT !.at = at, !.outcome = outcome]]
  /\ UNCHANGED <<clock, row, tags>>

\* The request leaves while the row is locked.
Dispatch(w) ==
  /\ workers[w].at = "holding"
  /\ IF Authorized(workers[w].intent) THEN Advance(w, "waiting", "none")
     ELSE Advance(w, "answered", "retry")

\* createPushProvider: no address, an error, or the deadline
GiveUp(w) == workers[w].at \in {"holding", "waiting"} /\ Advance(w, "answered", "retry")

Respond(w) ==
  /\ workers[w].at = "waiting"
  /\ \E outcome \in {"sent", "gone", "retry"} : Advance(w, "answered", outcome)

Retryable(x, outcome) ==
  /\ outcome = "retry"
  /\ x.attempts < MaxAttempts
  /\ clock + RetryDelays[x.attempts] < x.expires

\* (A variant that finishes whatever attempt is under way.)
Holds_Reminder(s, x) ==
  LET item == s.items[x.binding] IN
  item # None /\ SameReminder(item, x) /\ item.expires > clock

\* finish: does the reminder still hang on this lease?
Holds(s, x) ==
  LET item == s.items[x.binding] IN
  item # None /\ SameLease(item, x) /\ item.lease > clock /\ item.expires > clock

\* (A variant without receipts.)
HasReceipt_None(s, x) == FALSE

HasReceipt(s, x) ==
  \E r \in s.receipts : SameLease(r, x) /\ r.lease > clock /\ r.expires > clock

\* finish
Finished(s, x, outcome) ==
  LET item == s.items[x.binding]
      next == IF Retryable(item, outcome)
                THEN [item EXCEPT !.next = clock + RetryDelays[item.attempts], !.lease = 0]
                ELSE None
  IN [s EXCEPT !.items[x.binding] = IF Holds(s, x) THEN next ELSE item,
               !.receipts = {r \in s.receipts : ~SameLease(r, x)}]

\* The worker pauses and polls again.
Freed(w) == [workers EXCEPT ![w] = Idle]

\* finishPushDelivery
Finish(w) ==
  LET x == workers[w].intent
      outcome == workers[w].outcome
      heeded == outcome = "gone" /\ (Holds(Loaded, x) \/ HasReceipt(Loaded, x))
      done == Finished(Loaded, x, outcome)
  IN /\ workers[w].at = "answered"
     /\ Save(IF heeded THEN [done EXCEPT !.consents[x.binding] = None] ELSE done)
     /\ workers' = Freed(w)
     /\ UNCHANGED <<clock, tags>>

\* Shutdown, a crash, or a transaction that fails.
Abandon(w) ==
  /\ workers[w] # Idle
  /\ workers' = Freed(w)
  /\ UNCHANGED <<clock, row, tags>>

Tick ==
  /\ clock < MaxTime
  /\ clock' = clock + 1
  /\ UNCHANGED <<row, tags, workers>>

Work(w) ==
  \/ \E b \in Binding : Claim(w, b)
  \/ Poll(w)
  \/ Dispatch(w)
  \/ GiveUp(w)
  \/ Respond(w)
  \/ Finish(w)

PushNext ==
  \/ Tick
  \/ \E b \in Binding : Command(b) \/ Surrender(b) \/ ClaimSeat(b)
  \/ \E b \in Binding : Subscribe(b) \/ Unsubscribe(b)
  \/ \E old, b \in Binding : RecoverSeat(old, b)
  \/ Manage
  \/ DeleteGame
  \/ \E w \in Worker : Work(w) \/ Abandon(w)

PushSpec == PushInit /\ [][PushNext]_pushVars

-----------------------------------------------------------------------------
(* Properties.                                                             *)

\* valid: what a restored snapshot keeps.
Valid(x) ==
  /\ x.event > 0
  /\ x.expires > x.created
  /\ x.expires <= x.created + Lifetime
  /\ x.attempts <= MaxAttempts
  /\ x.next >= x.created
  /\ x.lease = 0 \/ (x.lease >= x.created /\ x.lease <= x.expires /\ x.attempts > 0)

\* The constructor of PushOutbox drops a reminder or a receipt it finds damaged
\* or duplicated, without a word.  Each transaction goes through it, so nothing
\* that enqueue, claim and finish write may look damaged.
SurvivesReload ==
  /\ \A b \in Binding : row.items[b] # None => Valid(row.items[b]) /\ row.items[b].binding = b
  /\ \A x \in row.receipts : Valid(x) /\ x.lease # 0
  /\ \A x, y \in row.receipts : SameLease(x, y) => x = y

\* A reminder in the outbox is for a player who still holds the seat, still
\* has the consent it was made under, and still owes exactly the decision it
\* tells of, through every command, replacement, recovery and deletion.
RemindersAreCurrent ==
  \A b \in Binding : row.items[b] # None =>
    LET x == row.items[b] IN
    /\ row.seats[b] = "active"
    /\ ~row.deleted
    /\ row.consents[b] # None
    /\ row.consents[b].tag = x.tag
    /\ x.expires <= row.consents[b].expires
    /\ x.decision = Required(row.game, SideOf[b])
    /\ x.decision # {}

\* Two workers never hold unexpired leases of one reminder, however they are
\* interrupted and whatever claim finds abandoned.
OneUnexpiredLease ==
  \A v, w \in Worker :
    /\ workers[v] # Idle
    /\ workers[w] # Idle
    /\ SameReminder(workers[v].intent, workers[w].intent)
    /\ workers[v].intent.lease > clock
    /\ workers[w].intent.lease > clock
    => v = w

\* Between claim and dispatch a worker resolves addresses for seconds.  When the
\* request leaves, the subscription it was given is the one now consented to,
\* the seat is still held, the decision is still owed and the lease is its own.
DispatchIsWanted ==
  [][\A w \in Worker :
       (workers[w].at = "holding" /\ workers'[w].at = "waiting") =>
         LET x == workers[w].intent IN
         /\ row.seats[x.binding] = "active"
         /\ row.consents[x.binding] # None
         /\ row.consents[x.binding].tag = workers[w].opened
         /\ row.consents[x.binding].expires > clock
         /\ x.decision = Required(row.game, SideOf[x.binding])
         /\ x.lease > clock]_pushVars

\* A worker's outcome takes away a consent only if it is "gone" and the very
\* subscription the request went to; one that replaced it meanwhile stays.
GoneRetiresItsOwn ==
  [][\A w \in Worker, b \in Binding :
       (/\ workers[w].at = "answered"
        /\ workers'[w] = Idle
        /\ row.consents[b] # None
        /\ row.consents[b].expires > clock
        /\ row'.consents[b] = None) =>
         /\ workers[w].intent.binding = b
         /\ workers[w].outcome = "gone"
         /\ workers[w].opened = row.consents[b].tag]_pushVars

\* A "gone" that finishes within its lease retires the subscription even when
\* the reminder was pruned or replaced while the provider was asked.
GoneIsHeeded ==
  [][\A w \in Worker :
       (/\ Finish(w)
        /\ workers[w].outcome = "gone"
        /\ workers[w].intent.lease > clock) =>
         LET consent == row'.consents[workers[w].intent.binding] IN
         consent = None \/ consent.tag # workers[w].opened]_pushVars

\* A worker's late answer ends the consent it was sent under, always and only that one.
GoneEndsItsConsent == GoneRetiresItsOwn /\ GoneIsHeeded

\* Why a reminder may leave the outbox: a newer one, a reason of its own, or the
\* outcome of the lease it hangs on.
LeavesByRight(b) ==
  LET x == row.items[b]
      y == row'.items[b]
  IN (x # None /\ (y = None \/ ~SameReminder(x, y))) =>
       \/ y # None /\ y.event > x.event
       \/ x.expires <= clock
       \/ Exhausted(x)
       \/ row'.consents[b] = None
       \/ row'.consents[b].tag # x.tag
       \/ x.decision # Required(row'.game, SideOf[b])
       \/ \E w \in Worker :
            /\ workers[w].at = "answered"
            /\ workers[w].outcome = "retry" => ~Retryable(x, "retry")
            /\ SameLease(x, workers[w].intent)
            /\ x.lease > clock

\* A stale worker acknowledges nothing: what another worker has claimed since,
\* or will claim again, stays until that lease has its own outcome.
OnlyItsLeaseEndsIt == [][\A b \in Binding : LeavesByRight(b)]_pushVars

-----------------------------------------------------------------------------
(* Why they hold: what is true of the row and of what the workers know.    *)

Made(s, x, now) == Valid(x) /\ x.event <= s.sequence /\ x.created <= now

\* No two leases are alike, and a reminder has seen all of its own.
Sound(s, now) ==
  /\ \A b \in Binding : s.items[b] # None =>
       s.items[b].binding = b /\ Made(s, s.items[b], now) /\ s.items[b].decision # {}
  /\ \A r \in s.receipts : Made(s, r, now) /\ r.lease # 0
  /\ \A r, q \in s.receipts : SameLease(r, q) => r = q
  /\ \A b \in Binding, r \in s.receipts :
       (s.items[b] # None /\ SameReminder(s.items[b], r)) => r.attempts <= s.items[b].attempts

\* What pruning leaves behind.
Settled(s) ==
  \A b \in Binding :
    /\ s.consents[b] # None =>
         s.seats[b] = "active" /\ ~s.deleted /\ s.game.phase # "completed"
    /\ s.items[b] # None =>
         /\ s.consents[b] # None
         /\ s.consents[b].tag = s.items[b].tag
         /\ s.items[b].expires <= s.consents[b].expires
         /\ s.items[b].decision = Required(s.game, SideOf[b])

\* What the row still knows of a lease a worker holds: the reminder itself, or
\* a later attempt once the lease is over; the receipt, as long as lease and
\* consent last.
Known(s, x, now) ==
  /\ Made(s, x, now)
  /\ \A b \in Binding : (s.items[b] # None /\ SameReminder(s.items[b], x)) =>
       \/ s.items[b] = x
       \/ x.attempts < s.items[b].attempts /\ x.lease <= now
  /\ \A r \in s.receipts : SameLease(r, x) => r = x
  /\ (/\ x.lease > now
      /\ s.consents[x.binding] # None
      /\ s.consents[x.binding].tag = x.tag) =>
       x.expires <= s.consents[x.binding].expires /\ x \in s.receipts

WorkersKnow ==
  \A w \in Worker : workers[w] # Idle =>
    /\ Known(row, workers[w].intent, clock)
    /\ workers[w].intent.lease # 0
    /\ workers[w].intent.tag <= tags
    /\ workers[w].opened = workers[w].intent.tag

LeasesFollow ==
  \A v, w \in Worker :
    (/\ v # w
     /\ workers[v] # Idle
     /\ workers[w] # Idle
     /\ SameReminder(workers[v].intent, workers[w].intent)) =>
       LET x == workers[v].intent
           y == workers[w].intent
       IN \/ x.attempts < y.attempts /\ x.lease <= clock
          \/ y.attempts < x.attempts /\ y.lease <= clock

TagsAreDrawn == \A b \in Binding : row.consents[b] # None => row.consents[b].tag <= tags

PushInv ==
  /\ TypeOK
  /\ Sound(row, clock)
  /\ Settled(row)
  /\ TagsAreDrawn
  /\ WorkersKnow
  /\ LeasesFollow
=============================================================================
