-------------------------- MODULE SpectatorAccess --------------------------
(***************************************************************************)
(* Who may watch a game: spectator invitations and bindings in             *)
(* apps/server/src/game-service.ts, and the evidence that                  *)
(* apps/server/src/mandatory-replay.ts asks of them.                       *)
(*                                                                         *)
(* The host issues and revokes invitations, a browser claims one with a    *)
(* claim identifier and may ask again when the answer was lost, and every  *)
(* use of the access is checked against invitation, binding and log.  The  *)
(* log holds these host commands and, as "play", everything else.  The     *)
(* host's own authorization and the stored results are GameService's.  A   *)
(* session stands for its credential; a refused call changes nothing, its  *)
(* transaction is rolled back.                                             *)
(***************************************************************************)
EXTENDS Integers, Sequences, FiniteSets

CONSTANTS
  Lookup,       \* invitation lookup identifiers (randomUUID)
  Session,      \* browser sessions
  ClaimId,      \* client-chosen claim identifiers
  Limit,        \* SPECTATOR_INVITATION_LIMIT, 8 in the code
  Lifetime,     \* SPECTATOR_INVITATION_LIFETIME_MS
  MaxTime,      \* bound: the clock
  MaxSequence,  \* bound: the longest log
  None          \* null, undefined

ASSUME AccessAssumption ==
  /\ Limit \in Nat /\ Lifetime \in Nat \ {0} /\ MaxTime \in Nat /\ MaxSequence \in Nat
  /\ None \notin Lookup \cup Session \cup ClaimId \cup Nat

VARIABLES
  actions,      \* game.actions
  invitations,  \* #spectatorInvitations, of those issued
  bindings,     \* #spectatorBindings
  sessions,     \* #sessionsById, as far as spectators go
  expired,      \* sessions past their expiry
  clock,
  deleted,      \* game.deletedAt is set
  answers       \* history: the sessions that claims were answered with

vars == <<actions, invitations, bindings, sessions, expired, clock, deleted, answers>>

Invitation ==
  [issuedAt : Nat, activeAfter : Nat, claimedAt : Nat \cup {None}, claimId : ClaimId \cup {None},
   session : Session \cup {None}, claimedAfter : Nat \cup {None}, binding : Nat \cup {None},
   credential : Session \cup {None}, revokedAt : Nat \cup {None}, revokedAfter : Nat \cup {None}]

Action ==
  [name : {"issue", "revokeInvitation", "revokeAccess", "delete", "play"}, lookup : Lookup \cup {None}]

SpectatorBinding ==
  [id : Nat, lookup : Lookup, session : Session, activeAfter : Nat,
   revokedAt : Nat \cup {None}, inactiveFrom : Nat \cup {None}]

Sequence == Len(actions)
ExpiresAt(inv) == inv.issuedAt + Lifetime
Claimed(inv) == inv.claimedAt # None
Revoked(inv) == inv.revokedAt # None

\* #findSession
Current(s) == s \in sessions \ expired

-----------------------------------------------------------------------------
(* Authorization. *)

\* #findActiveSpectatorBinding, over the invitations and bindings given.
Consistent(invs, b) ==
  /\ b.inactiveFrom = None
  /\ b.lookup \in DOMAIN invs
  /\ LET inv == invs[b.lookup] IN
       /\ inv.binding = b.id /\ inv.session = b.session
       /\ ~Revoked(inv) /\ inv.revokedAfter = None
       /\ Claimed(inv) /\ inv.claimedAt \in inv.issuedAt..(ExpiresAt(inv) - 1)
       /\ inv.claimedAfter \in inv.activeAfter..Sequence
       /\ b.activeAfter = inv.claimedAfter
       /\ actions[inv.activeAfter].name = "issue"
       /\ \A l \in DOMAIN invs : invs[l].activeAfter = inv.activeAfter => l = b.lookup

ActiveBindings(invs, bnds, s) ==
  LET candidates == {b \in bnds : b.session = s /\ b.revokedAt = None}
  IN {b \in candidates :
        /\ candidates = {b}
        /\ Consistent(invs, b)
        /\ \A c \in bnds : c.id = b.id \/ c.lookup = b.lookup => c = b}

\* authenticateSpectator, #assertSpectatorAuthorization
Authorized(s) ==
  ~deleted /\ Current(s) /\ ActiveBindings(invitations, bindings, s) # {}

-----------------------------------------------------------------------------
(* What becomes of an invitation. *)

NewInvitation ==
  [issuedAt |-> clock, activeAfter |-> Sequence + 1, claimedAt |-> None, claimId |-> None,
   session |-> None, claimedAfter |-> None, binding |-> None, credential |-> None,
   revokedAt |-> None, revokedAfter |-> None]

Taken(inv, b, s, id) ==
  [inv EXCEPT !.claimedAt = clock, !.claimId = id, !.session = s, !.claimedAfter = Sequence,
              !.binding = b, !.credential = s]

Ended(inv) == [inv EXCEPT !.revokedAt = clock, !.revokedAfter = Sequence + 1, !.credential = None]

\* #retireSpectatorInvitations
Retired(inv) ==
  [inv EXCEPT !.revokedAt = IF Revoked(inv) THEN @ ELSE clock,
              !.revokedAfter = IF Revoked(inv) THEN @ ELSE Sequence + 1,
              !.credential = None, !.session = None]

Erased(inv) == IF ExpiresAt(inv) <= clock THEN [inv EXCEPT !.credential = None] ELSE inv

-----------------------------------------------------------------------------
(* Host commands. *)

Record(name, lookup) ==
  /\ Sequence < MaxSequence
  /\ actions' = Append(actions, [name |-> name, lookup |-> lookup])

\* (A variant that forgets those who watch already.)
Occupying_Unclaimed(now) ==
  {l \in DOMAIN invitations :
     ~Revoked(invitations[l]) /\ ~Claimed(invitations[l]) /\ ExpiresAt(invitations[l]) > now}

\* What counts against the limit, at a time.
Occupying(now) ==
  {l \in DOMAIN invitations :
     ~Revoked(invitations[l]) /\ (Claimed(invitations[l]) \/ ExpiresAt(invitations[l]) > now)}

IssueSpectatorInvitation(l) ==
  /\ ~deleted
  /\ l \notin DOMAIN invitations
  /\ Cardinality(Occupying(clock)) < Limit
  /\ Record("issue", l)
  /\ invitations' = [k \in DOMAIN invitations \cup {l} |-> IF k = l THEN NewInvitation ELSE invitations[k]]
  /\ UNCHANGED <<bindings, sessions, expired, clock, deleted, answers>>

\* (A variant that revokes invitations past their expiry.)
RevokeSpectatorInvitation_Late(l) ==
  /\ ~deleted
  /\ l \in DOMAIN invitations
  /\ ~Revoked(invitations[l]) /\ ~Claimed(invitations[l])
  /\ Record("revokeInvitation", l)
  /\ invitations' = [invitations EXCEPT ![l] = Ended(@)]
  /\ UNCHANGED <<bindings, sessions, expired, clock, deleted, answers>>

RevokeSpectatorInvitation(l) ==
  /\ ~deleted
  /\ l \in DOMAIN invitations
  /\ ~Revoked(invitations[l]) /\ ~Claimed(invitations[l]) /\ ExpiresAt(invitations[l]) > clock
  /\ Record("revokeInvitation", l)
  /\ invitations' = [invitations EXCEPT ![l] = Ended(@)]
  /\ UNCHANGED <<bindings, sessions, expired, clock, deleted, answers>>

RevokeSpectatorAccess(l) ==
  /\ ~deleted
  /\ l \in DOMAIN invitations
  /\ Claimed(invitations[l]) /\ ~Revoked(invitations[l])
  /\ \E b \in bindings :
       /\ b.id = invitations[l].binding /\ b.lookup = l /\ b.revokedAt = None
       /\ bindings' = (bindings \ {b})
                        \cup {[b EXCEPT !.revokedAt = clock, !.inactiveFrom = Sequence + 1]}
  /\ Record("revokeAccess", l)
  /\ invitations' = [invitations EXCEPT ![l] = Ended(@)]
  /\ UNCHANGED <<sessions, expired, clock, deleted, answers>>

\* deleteGame: #retireSpectatorInvitations, #dropBindingsForGame
DeleteGame ==
  /\ ~deleted
  /\ deleted' = TRUE
  /\ Record("delete", None)
  /\ invitations' = [l \in DOMAIN invitations |-> Retired(invitations[l])]
  /\ bindings' = {}
  /\ sessions' = {}
  /\ UNCHANGED <<expired, clock, answers>>

\* Gameplay, seat invitations, operator audits.
Play ==
  /\ ~deleted
  /\ Record("play", None)
  /\ UNCHANGED <<invitations, bindings, sessions, expired, clock, deleted, answers>>

\* purgeDeletedGames: credentials of expired claims go at once, a deleted game with all it has.
Purge ==
  /\ invitations' = IF deleted THEN <<>> ELSE [l \in DOMAIN invitations |-> Erased(invitations[l])]
  /\ UNCHANGED <<actions, bindings, sessions, expired, clock, deleted, answers>>

-----------------------------------------------------------------------------
(* claimSpectatorInvitation. *)

Claimable(l) ==
  /\ ~deleted
  /\ l \in DOMAIN invitations
  /\ ~Revoked(invitations[l]) /\ ExpiresAt(invitations[l]) > clock

Holds(s) == \E b \in bindings : b.session = s /\ b.revokedAt = None

\* The first claim, by a browser that presents the credential of s or none.
Claim(l, id, s) ==
  /\ Claimable(l)
  /\ ~Claimed(invitations[l])
  /\ ~(Current(s) /\ Holds(s))
  /\ \E t \in IF Current(s) THEN {s} ELSE Session \ (sessions \cup expired) :
       LET b == Cardinality(bindings) + 1 IN
       /\ sessions' = sessions \cup {t}
       /\ invitations' = [invitations EXCEPT ![l] = Taken(@, b, t, id)]
       /\ bindings' = bindings \cup
            {[id |-> b, lookup |-> l, session |-> t, activeAfter |-> Sequence,
              revokedAt |-> None, inactiveFrom |-> None]}
       /\ ActiveBindings(invitations', bindings', t) # {}
       /\ answers' = answers \cup {[lookup |-> l, claimId |-> id, session |-> t]}
  /\ UNCHANGED <<actions, expired, clock, deleted>>

\* (A variant that does not ask whose claim it was.)
RetryClaim_Any(l, id) ==
  /\ Claimable(l)
  /\ Claimed(invitations[l])
  /\ Current(invitations[l].credential)
  /\ ActiveBindings(invitations, bindings, invitations[l].credential) # {}
  /\ answers' = answers \cup {[lookup |-> l, claimId |-> id, session |-> invitations[l].credential]}
  /\ UNCHANGED <<actions, invitations, bindings, sessions, expired, clock, deleted>>

\* The same claim again, answered with the credential it was given.
RetryClaim(l, id) ==
  /\ Claimable(l)
  /\ LET inv == invitations[l] IN
       /\ Claimed(inv) /\ inv.claimId = id
       /\ Current(inv.credential)
       /\ \E b \in bindings : /\ b.id = inv.binding /\ b.lookup = l
                              /\ b.session = inv.credential /\ b.revokedAt = None
       /\ ActiveBindings(invitations, bindings, inv.credential) # {}
       /\ answers' = answers \cup {[lookup |-> l, claimId |-> id, session |-> inv.credential]}
  /\ UNCHANGED <<actions, invitations, bindings, sessions, expired, clock, deleted>>

-----------------------------------------------------------------------------

Tick ==
  /\ clock < MaxTime
  /\ clock' = clock + 1
  /\ UNCHANGED <<actions, invitations, bindings, sessions, expired, deleted, answers>>

SessionExpires(s) ==
  /\ Current(s)
  /\ expired' = expired \cup {s}
  /\ UNCHANGED <<actions, invitations, bindings, sessions, clock, deleted, answers>>

Init ==
  /\ actions = <<>>
  /\ invitations = <<>>
  /\ bindings = {}
  /\ sessions = {} /\ expired = {}
  /\ clock = 0
  /\ deleted = FALSE
  /\ answers = {}

Next ==
  \/ \E l \in Lookup :
       \/ IssueSpectatorInvitation(l)
       \/ RevokeSpectatorInvitation(l)
       \/ RevokeSpectatorAccess(l)
       \/ \E id \in ClaimId :
            \/ \E s \in Session \cup {None} : Claim(l, id, s)
            \/ RetryClaim(l, id)
  \/ DeleteGame
  \/ Play
  \/ Purge
  \/ Tick
  \/ \E s \in Session : SessionExpires(s)

Spec == Init /\ [][Next]_vars

-----------------------------------------------------------------------------
(* The replay validator, of the first n actions against the latest evidence. *)

BindingsOf(l) == {b \in bindings : b.lookup = l}

\* The checks made before the first action is replayed.
EvidenceIsSound ==
  /\ \A b, c \in bindings : b.id = c.id \/ b.lookup = c.lookup => b = c
  /\ \A b \in bindings : b.lookup \in DOMAIN invitations
  /\ \A l \in DOMAIN invitations :
       LET inv == invitations[l] IN
       /\ inv.activeAfter >= 1
       /\ IF Revoked(inv) THEN inv.revokedAfter # None /\ inv.revokedAfter > inv.activeAfter
                          ELSE inv.revokedAfter = None
       /\ IF Claimed(inv)
          THEN \E b \in BindingsOf(l) :
                 /\ b.id = inv.binding /\ b.session = inv.session
                 /\ inv.claimedAt \in inv.issuedAt..(ExpiresAt(inv) - 1)
                 /\ inv.claimedAfter >= inv.activeAfter
                 /\ b.activeAfter = inv.claimedAfter
                 /\ b.revokedAt = inv.revokedAt /\ b.inactiveFrom = inv.revokedAfter
                 /\ Revoked(inv) => inv.claimedAfter < inv.revokedAfter
          ELSE BindingsOf(l) = {} /\ inv.binding = None /\ inv.session = None /\ inv.claimedAfter = None

IssuedAt(i) == {l \in DOMAIN invitations : invitations[l].activeAfter = i}

EntriesBefore(i, names) == {j \in 1..(i - 1) : actions[j].name \in names}

\* activeSpectators before action i: issued by an earlier action, and by none revoked.
OutstandingAt(i) ==
  (UNION {IssuedAt(j) : j \in EntriesBefore(i, {"issue"})})
    \ {actions[j].lookup : j \in EntriesBefore(i, {"revokeInvitation", "revokeAccess"})}

IssueReplays(i) ==
  \E l \in IssuedAt(i) :
    /\ IssuedAt(i) = {l}
    /\ Cardinality({k \in OutstandingAt(i) :
         LET prior == invitations[k] IN
         \/ ExpiresAt(prior) > invitations[l].issuedAt
         \/ Claimed(prior) /\ prior.claimedAfter < i}) < Limit

RevocationReplays(i, ofAccess) ==
  /\ actions[i].lookup \in DOMAIN invitations \cap OutstandingAt(i)
  /\ LET inv == invitations[actions[i].lookup] IN
       /\ Claimed(inv) = ofAccess
       /\ Revoked(inv) /\ inv.revokedAfter = i
       /\ IF ofAccess THEN inv.claimedAfter \in inv.activeAfter..(i - 1)
                      ELSE inv.revokedAt < ExpiresAt(inv)

ActionReplays(i) ==
  CASE actions[i].name = "issue" -> IssueReplays(i)
    [] actions[i].name = "revokeInvitation" -> RevocationReplays(i, FALSE)
    [] actions[i].name = "revokeAccess" -> RevocationReplays(i, TRUE)
    [] OTHER -> TRUE

\* Every issue and revocation the evidence shows has its action; all of them in a full replay.
EvidenceIsConsumed(n) ==
  \A l \in DOMAIN invitations :
    LET inv == invitations[l] IN
    /\ n = Sequence /\ Claimed(inv) => inv.claimedAfter <= n
    /\ n = Sequence \/ inv.activeAfter <= n => \E i \in 1..n : actions[i].name = "issue" /\ l \in IssuedAt(i)
    /\ Revoked(inv) /\ (n = Sequence \/ inv.revokedAfter <= n)
         => \E i \in 1..n : actions[i].name \in {"revokeInvitation", "revokeAccess"} /\ actions[i].lookup = l

Replays(n) == EvidenceIsSound /\ (\A i \in 1..n : ActionReplays(i)) /\ EvidenceIsConsumed(n)

-----------------------------------------------------------------------------
(* Properties. *)

TypeOK ==
  /\ actions \in Seq(Action)
  /\ DOMAIN invitations \subseteq Lookup
  /\ invitations \in [DOMAIN invitations -> Invitation]
  /\ bindings \subseteq SpectatorBinding
  /\ sessions \subseteq Session /\ expired \subseteq Session
  /\ clock \in 0..MaxTime /\ deleted \in BOOLEAN

\* Claims, expiry and revocations in any order never leave more spectators and open
\* invitations than the limit.
LimitHolds ==
  LET watched == {b.lookup : b \in {x \in bindings : x.inactiveFrom = None}}
      open == {l \in DOMAIN invitations :
                 ~Claimed(invitations[l]) /\ ~Revoked(invitations[l]) /\ clock < ExpiresAt(invitations[l])}
  IN ~deleted => Cardinality(watched \cup open) <= Limit

\* The validator accepts every prefix of the log of a game that is open, with the evidence
\* as it is now: issuing under the limit, claiming, expiring and revoking leave no history
\* that a later replay refuses.
EveryPrefixReplays == ~deleted => \A n \in 0..Sequence : Replays(n)

\* The many checks of an authorization admit exactly the browsers that claimed an
\* invitation nobody has revoked since: no duplicate locks one out, nothing lets one back in.
WatchersAreAuthorized ==
  \A s \in Session :
    Authorized(s) <=>
      /\ ~deleted /\ Current(s)
      /\ \E l \in DOMAIN invitations :
           invitations[l].session = s /\ Claimed(invitations[l]) /\ ~Revoked(invitations[l])

\* An invitation is claimed once: retries, and other browsers with the same link, never
\* hear of another session than the one the first claim was answered with.
OneClaimAnInvitation ==
  \A a, b \in answers : a.lookup = b.lookup => a = b

\* Who may watch is decided by the first claim of an invitation and its revocation alone,
\* whatever is claimed twice, retried, expired or left over in between.
AccessFollowsInvitation == WatchersAreAuthorized /\ OneClaimAnInvitation
=============================================================================
