---------------------------- MODULE GameService ----------------------------
(***************************************************************************)
(* The authoritative service of one game: apps/server/src/game-service.ts. *)
(*                                                                         *)
(* The state is who may act (browser sessions, seat and host bindings,     *)
(* invitations, recovery grants), what happened (the action log and the    *)
(* two command-result maps) and the two counters every client follows      *)
(* (version, event sequence).  The rules of the war game are another       *)
(* module's subject: here an accepted gameplay command is any step that    *)
(* the reducer could have taken.                                           *)
(*                                                                         *)
(* A refused call and a retry answered from a stored result change no      *)
(* state, so they are stuttering steps and only their guards appear.       *)
(* A captured authorization (a Colyseus client keeps one for its whole     *)
(* connection) is the identifier of a binding, which may be long revoked   *)
(* when the command arrives: every command action takes any binding.       *)
(* Clock time is abstracted to one action per deadline; a credential to    *)
(* the session it opens; a sealed credential to that session or None.      *)
(***************************************************************************)
EXTENDS Integers, Sequences, FiniteSets

CONSTANTS
  Session,        \* browser sessions that can come to exist (randomUUID)
  BindingId,      \* seat and host binding identifiers (randomUUID)
  InvitationId,   \* invitation lookup identifiers (randomUUID)
  GrantId,        \* recovery grant lookup identifiers (randomUUID)
  CommandId,      \* client-chosen command identifiers
  None,           \* null
  MaxSequence     \* bound: the longest action log explored

ASSUME NoneAssumption ==
  None \notin Session \cup BindingId \cup InvitationId \cup GrantId \cup CommandId
ASSUME MaxSequenceAssumption == MaxSequence \in Nat

Side == {"confederate", "union"}
OtherSide(side) == IF side = "union" THEN "confederate" ELSE "union"

\* What a binding entitles its session to: a seat of the game, or hosting it.
Role == Side \cup {"host"}

VARIABLES
  status,             \* the game record: absent, active, deleted, purged
  version,            \* state.version: accepted gameplay commands
  eventSequence,      \* state.event_sequence: log entries
  pendingChoice,      \* sides owning an unresolved combat choice
  sessions,           \* none, live or expired, per session
  bindings,           \* seatBindings and hostBindings
  invitations,        \* seat invitations
  grants,             \* recovery grants
  commandResults,     \* gameplay command -> sequence of its result, 0 if none
  hostCommandResults, \* host command -> sequence of its result, 0 if none
  actions,            \* the action log
  deletionLedger      \* deletion receipts of this game

vars == <<status, version, eventSequence, pendingChoice, sessions, bindings,
          invitations, grants, commandResults, hostCommandResults, actions,
          deletionLedger>>

-----------------------------------------------------------------------------
(* Records.                                                                *)

Binding ==
  [status : {"none", "active", "revoked"}, role : Role \cup {None},
   session : Session \cup {None}, version : Nat,
   activeAfter : Nat,    \* the binding acts at sequences above this one
   inactiveFrom : Nat]   \* and below this one; 0 while it is active

Invitation ==
  [issued : BOOLEAN, claimed : BOOLEAN, revoked : BOOLEAN, expired : BOOLEAN,
   seat : Side \cup {None}, activeAfter : Nat, claimedAfter : Nat,
   revokedAt : Nat,                   \* revokedAtSequence, 0 if none
   secret : BOOLEAN,                  \* a sealed invitation secret is kept
   sealed : Session \cup {None},      \* sealedClaimCredential
   claimedBinding : BindingId \cup {None}]  \* history: the binding it made

Grant ==
  [issued : BOOLEAN, consumed : BOOLEAN, revoked : BOOLEAN, expired : BOOLEAN,
   role : Role \cup {None}, oldBinding : BindingId \cup {None},
   newBinding : BindingId \cup {None}, sealed : Session \cup {None},
   auditSequence : Nat]

\* `subject` is the seat of an issue, the invitation of a revocation, the
\* grant whose operator request an audit carries, None otherwise.
Action ==
  [kind : {"gameplay", "host_management", "operator_audit"},
   name : {"play", "surrenderSeat", "issueInvitation", "revokeInvitation",
           "deleteGame", "operatorRecovery"},
   sequence : Nat, expectedVersion : Nat, resultingVersion : Nat,
   pendingChoice : SUBSET Side,       \* of the state the entry led to
   binding : BindingId \cup {None}, command : CommandId \cup {None},
   subject : Side \cup InvitationId \cup GrantId \cup {None}]

NoBinding ==
  [status |-> "none", role |-> None, session |-> None, version |-> 0,
   activeAfter |-> 0, inactiveFrom |-> 0]

NoInvitation ==
  [issued |-> FALSE, claimed |-> FALSE, revoked |-> FALSE, expired |-> FALSE,
   seat |-> None, activeAfter |-> 0, claimedAfter |-> 0, revokedAt |-> 0,
   secret |-> FALSE, sealed |-> None, claimedBinding |-> None]

NoGrant ==
  [issued |-> FALSE, consumed |-> FALSE, revoked |-> FALSE, expired |-> FALSE,
   role |-> None, oldBinding |-> None, newBinding |-> None, sealed |-> None,
   auditSequence |-> 0]

NewBinding(role, session, number, after) ==
  [status |-> "active", role |-> role, session |-> session, version |-> number,
   activeAfter |-> after, inactiveFrom |-> 0]

\* An off-by-one in #createInvitation: active from before the game's opening.
NewInvitation_EarlyStart(seat, after) ==
  [NoInvitation EXCEPT !.issued = TRUE, !.seat = seat,
                       !.activeAfter = after - 1, !.secret = TRUE]

NewInvitation(seat, after) ==
  [NoInvitation EXCEPT !.issued = TRUE, !.seat = seat,
                       !.activeAfter = after, !.secret = TRUE]

TypeOK ==
  /\ status \in {"absent", "active", "deleted", "purged"}
  /\ version \in Nat
  /\ eventSequence \in Nat
  /\ pendingChoice \in SUBSET Side
  /\ sessions \in [Session -> {"none", "live", "expired"}]
  /\ bindings \in [BindingId -> Binding]
  /\ invitations \in [InvitationId -> Invitation]
  /\ grants \in [GrantId -> Grant]
  /\ commandResults \in [CommandId -> Nat]
  /\ hostCommandResults \in [CommandId -> Nat]
  /\ actions \in Seq(Action)
  /\ deletionLedger \in Seq({"deleted", "purged"})

Init ==
  /\ status = "absent"
  /\ version = 0
  /\ eventSequence = 0
  /\ pendingChoice = {}
  /\ sessions = [s \in Session |-> "none"]
  /\ bindings = [b \in BindingId |-> NoBinding]
  /\ invitations = [i \in InvitationId |-> NoInvitation]
  /\ grants = [g \in GrantId |-> NoGrant]
  /\ commandResults = [c \in CommandId |-> 0]
  /\ hostCommandResults = [c \in CommandId |-> 0]
  /\ actions = <<>>
  /\ deletionLedger = <<>>

-----------------------------------------------------------------------------
(* Authority.                                                              *)

IsActive(b) == bindings[b].status = "active"

\* #activeSeatBindings(gameId).some(binding => binding.side === side)
SeatVacant_Forgotten(side) == side \in Side

SeatVacant(side) == \A b \in BindingId : IsActive(b) => bindings[b].role # side

HoldsSeat(s) ==
  \E b \in BindingId : IsActive(b) /\ bindings[b].role \in Side /\ bindings[b].session = s

\* #assertAuthorization and #assertHostAuthorization, with #requireActiveGame.
Authorized(b, roles) ==
  /\ status = "active"
  /\ IsActive(b)
  /\ bindings[b].role \in roles
  /\ sessions[bindings[b].session] = "live"

\* Only the map of the command's own kind is consulted.
NewCommand_OwnMap(c) == commandResults[c] = 0

\* Neither result map knows the command: it is no retry and no conflict.
NewCommand(c) == commandResults[c] = 0 /\ hostCommandResults[c] = 0

Claimable(i) ==
  /\ invitations[i].issued
  /\ ~invitations[i].claimed
  /\ ~invitations[i].revoked
  /\ ~invitations[i].expired

\* Every accepted command and every completed recovery appends one entry.
Log(entry) ==
  /\ eventSequence < MaxSequence
  /\ eventSequence' = eventSequence + 1
  /\ actions' = Append(actions, entry)

SeatEntry(name, b, c, v, pending) ==
  [kind |-> "gameplay", name |-> name, sequence |-> eventSequence + 1,
   expectedVersion |-> v, resultingVersion |-> version + 1,
   pendingChoice |-> pending,
   binding |-> b, command |-> c, subject |-> None]

HostEntry(name, h, c, v, subject) ==
  [kind |-> "host_management", name |-> name, sequence |-> eventSequence + 1,
   expectedVersion |-> v, resultingVersion |-> version,
   pendingChoice |-> pendingChoice,
   binding |-> h, command |-> c, subject |-> subject]

AuditEntry(g) ==
  [kind |-> "operator_audit", name |-> "operatorRecovery",
   sequence |-> eventSequence + 1, expectedVersion |-> version,
   resultingVersion |-> version, pendingChoice |-> pendingChoice,
   binding |-> None, command |-> None, subject |-> g]

-----------------------------------------------------------------------------
(* Creating and joining a game.                                            *)

CreateGame(side, s, h, b, i) ==
  /\ status = "absent"
  /\ sessions[s] = "none"
  /\ h # b
  /\ status' = "active"
  /\ sessions' = [sessions EXCEPT ![s] = "live"]
  /\ bindings' = [bindings EXCEPT ![h] = NewBinding("host", s, 1, 0),
                                  ![b] = NewBinding(side, s, 1, 0)]
  /\ invitations' = [invitations EXCEPT ![i] = NewInvitation(OtherSide(side), 0)]
  /\ UNCHANGED <<version, eventSequence, pendingChoice, grants, commandResults,
                 hostCommandResults, actions, deletionLedger>>

\* A credential that opens no live session gets a fresh one.
ClaimInvitation(i, s, b) ==
  /\ status = "active"
  /\ Claimable(i)
  /\ sessions[s] \in {"none", "live"}
  /\ ~HoldsSeat(s)
  /\ SeatVacant(invitations[i].seat)
  /\ bindings[b].status = "none"
  /\ sessions' = [sessions EXCEPT ![s] = "live"]
  /\ bindings' = [bindings EXCEPT
                    ![b] = NewBinding(invitations[i].seat, s, 1, eventSequence)]
  /\ invitations' = [invitations EXCEPT
                       ![i] = [@ EXCEPT !.claimed = TRUE, !.claimedAfter = eventSequence,
                                        !.sealed = s, !.secret = FALSE,
                                        !.claimedBinding = b]]
  /\ UNCHANGED <<status, version, eventSequence, pendingChoice, grants,
                 commandResults, hostCommandResults, actions, deletionLedger>>

\* claimInvitation throws on an expired invitation, but first drops the sealed
\* credential of an earlier claim.
ReapExpiredClaim(i) ==
  /\ invitations[i].expired
  /\ invitations[i].sealed # None
  /\ invitations' = [invitations EXCEPT ![i].sealed = None]
  /\ UNCHANGED <<status, version, eventSequence, pendingChoice, sessions, bindings,
                 grants, commandResults, hostCommandResults, actions, deletionLedger>>

-----------------------------------------------------------------------------
(* Gameplay commands.                                                      *)

\* executeCommand with a command the reducer accepts; v is expected_version.
PlayCommand(b, c, v, pending) ==
  /\ Authorized(b, Side)
  /\ NewCommand(c)
  /\ v = version
  /\ Log(SeatEntry("play", b, c, v, pending))
  /\ version' = version + 1
  /\ pendingChoice' = pending
  /\ commandResults' = [commandResults EXCEPT ![c] = eventSequence + 1]
  /\ UNCHANGED <<status, sessions, bindings, invitations, grants,
                 hostCommandResults, deletionLedger>>

\* The binding is retired before its own surrender, not after it.
SurrenderRetiresAt_OwnEvent == eventSequence + 1

\* A surrender is the last event of its binding, hence retires it after that.
SurrenderRetiresAt == eventSequence + 2

\* Outstanding invitations are revoked, the claimed one keeps its credential.
SurrenderedInvitation_KeepsCredential(i) ==
  [invitations[i] EXCEPT
     !.secret = FALSE,
     !.revoked = @ \/ ~invitations[i].claimed,
     !.revokedAt = IF invitations[i].claimed \/ invitations[i].revoked
                     THEN @ ELSE eventSequence + 1]

SurrenderedInvitation(i) ==
  [invitations[i] EXCEPT
     !.secret = FALSE,
     !.sealed = None,
     !.revoked = @ \/ ~invitations[i].claimed,
     !.revokedAt = IF invitations[i].claimed \/ invitations[i].revoked
                     THEN @ ELSE eventSequence + 1]

SurrenderSeat(b, c, v) ==
  /\ Authorized(b, Side)
  /\ NewCommand(c)
  /\ v = version
  /\ bindings[b].role \notin pendingChoice
  /\ Log(SeatEntry("surrenderSeat", b, c, v, pendingChoice))
  /\ version' = version + 1
  /\ bindings' = [bindings EXCEPT ![b] = [@ EXCEPT !.status = "revoked",
                                                   !.inactiveFrom = SurrenderRetiresAt]]
  /\ invitations' = [i \in InvitationId |->
                       IF invitations[i].issued /\ invitations[i].seat = bindings[b].role
                         THEN SurrenderedInvitation(i) ELSE invitations[i]]
  /\ commandResults' = [commandResults EXCEPT ![c] = eventSequence + 1]
  /\ UNCHANGED <<status, pendingChoice, sessions, grants, hostCommandResults,
                 deletionLedger>>

-----------------------------------------------------------------------------
(* Host management.                                                        *)

\* The part every accepted host command shares.
HostCommand(h, c, v, name, subject) ==
  /\ Authorized(h, {"host"})
  /\ NewCommand(c)
  /\ v = version
  /\ Log(HostEntry(name, h, c, v, subject))
  /\ hostCommandResults' = [hostCommandResults EXCEPT ![c] = eventSequence + 1]
  /\ UNCHANGED <<version, pendingChoice, commandResults>>

IssueInvitation(h, c, v, side, i) ==
  /\ HostCommand(h, c, v, "issueInvitation", side)
  /\ SeatVacant(side)
  /\ ~invitations[i].issued
  /\ invitations' = [invitations EXCEPT ![i] = NewInvitation(side, eventSequence + 1)]
  /\ UNCHANGED <<status, sessions, bindings, grants, deletionLedger>>

RevokedInvitation(i) ==
  [invitations[i] EXCEPT !.revoked = TRUE, !.revokedAt = eventSequence + 1,
                         !.secret = FALSE]

RevokeInvitation(h, c, v, i) ==
  /\ HostCommand(h, c, v, "revokeInvitation", i)
  /\ Claimable(i)
  /\ invitations' = [invitations EXCEPT ![i] = RevokedInvitation(i)]
  /\ UNCHANGED <<status, sessions, bindings, grants, deletionLedger>>

\* Deletion forgets the recovery grants still outstanding.
DeletedGrant_Kept(g) == grants[g]

DeletedGrant(g) == [grants[g] EXCEPT !.revoked = grants[g].issued]

DeletedInvitation(i) ==
  IF invitations[i].issued /\ ~invitations[i].revoked
    THEN [invitations[i] EXCEPT !.revoked = TRUE, !.sealed = None, !.secret = FALSE]
    ELSE invitations[i]

\* Bindings are dropped, and with them the sessions that hold no other.
DeleteGame(h, c, v) ==
  /\ HostCommand(h, c, v, "deleteGame", None)
  /\ status' = "deleted"
  /\ bindings' = [b \in BindingId |-> NoBinding]
  /\ sessions' = [s \in Session |-> "none"]
  /\ invitations' = [i \in InvitationId |-> DeletedInvitation(i)]
  /\ grants' = [g \in GrantId |-> DeletedGrant(g)]
  /\ deletionLedger' = Append(deletionLedger, "deleted")

-----------------------------------------------------------------------------
(* Operator recovery.                                                      *)

IssueRecovery(role, g) ==
  /\ status = "active"
  /\ ~grants[g].issued
  /\ \E b \in BindingId :
       /\ IsActive(b)
       /\ bindings[b].role = role
       /\ grants' = [grants EXCEPT ![g] = [NoGrant EXCEPT !.issued = TRUE,
                                                          !.role = role,
                                                          !.oldBinding = b]]
  /\ UNCHANGED <<status, version, eventSequence, pendingChoice, sessions, bindings,
                 invitations, commandResults, hostCommandResults, actions,
                 deletionLedger>>

Replaceable(g) == IsActive(grants[g].oldBinding)

\* The rotation leaves no trace in the log.
Audit_Forgotten(g) == g \in GrantId /\ UNCHANGED <<eventSequence, actions>>

\* #appendOperatorAudit
Audit(g) == Log(AuditEntry(g))

\* A recovery always opens a fresh session and replaces exactly one binding.
RotateBinding(g, s, b) ==
  LET old == grants[g].oldBinding IN
  /\ status = "active"
  /\ grants[g].issued /\ ~grants[g].consumed
  /\ ~grants[g].revoked /\ ~grants[g].expired
  /\ Replaceable(g)
  /\ sessions[s] = "none"
  /\ bindings[b].status = "none"
  /\ Audit(g)
  /\ sessions' = [sessions EXCEPT ![s] = "live"]
  /\ bindings' = [bindings EXCEPT
                    ![old] = [@ EXCEPT !.status = "revoked",
                                       !.inactiveFrom = eventSequence + 1],
                    ![b] = NewBinding(bindings[old].role, s,
                                      bindings[old].version + 1, eventSequence + 1)]
  /\ grants' = [grants EXCEPT ![g] = [@ EXCEPT !.consumed = TRUE, !.sealed = s,
                                               !.newBinding = b,
                                               !.auditSequence = eventSequence + 1]]
  /\ UNCHANGED <<status, version, pendingChoice, commandResults,
                 hostCommandResults, deletionLedger>>

\* `presented` is the session of the credential the claimant sends, or None: it
\* is not used, but must not already hold the game's other seat.
ClaimSeatRecovery(g, s, b, presented) ==
  /\ grants[g].role \in Side
  /\ presented # None =>
       /\ sessions[presented] = "live"
       /\ \A other \in BindingId :
            /\ IsActive(other)
            /\ bindings[other].role \in Side
            /\ bindings[other].session = presented
            => other = grants[g].oldBinding
  /\ RotateBinding(g, s, b)
  /\ invitations' = [i \in InvitationId |->
                       IF invitations[i].issued /\ invitations[i].seat = grants[g].role
                         THEN [invitations[i] EXCEPT !.sealed = None]
                         ELSE invitations[i]]

ClaimHostRecovery(g, s, b) ==
  /\ grants[g].role = "host"
  /\ RotateBinding(g, s, b)
  /\ UNCHANGED invitations

-----------------------------------------------------------------------------
(* Deadlines and maintenance.                                              *)

SessionExpires(s) ==
  /\ sessions[s] = "live"
  /\ sessions' = [sessions EXCEPT ![s] = "expired"]
  /\ UNCHANGED <<status, version, eventSequence, pendingChoice, bindings, invitations,
                 grants, commandResults, hostCommandResults, actions, deletionLedger>>

InvitationExpires(i) ==
  /\ invitations[i].issued /\ ~invitations[i].expired
  /\ invitations' = [invitations EXCEPT ![i].expired = TRUE]
  /\ UNCHANGED <<status, version, eventSequence, pendingChoice, sessions, bindings,
                 grants, commandResults, hostCommandResults, actions, deletionLedger>>

GrantExpires(g) ==
  /\ grants[g].issued /\ ~grants[g].expired
  /\ grants' = [grants EXCEPT ![g].expired = TRUE]
  /\ UNCHANGED <<status, version, eventSequence, pendingChoice, sessions, bindings,
                 invitations, commandResults, hostCommandResults, actions,
                 deletionLedger>>

ErasedInvitation(i) ==
  IF invitations[i].expired
    THEN [invitations[i] EXCEPT !.sealed = None, !.secret = FALSE]
    ELSE invitations[i]

ErasedGrant(g) ==
  IF grants[g].expired THEN [grants[g] EXCEPT !.sealed = None] ELSE grants[g]

\* purgeDeletedGames before the game's retention period has passed.
EraseExpiredSecrets ==
  /\ invitations' = [i \in InvitationId |-> ErasedInvitation(i)]
  /\ grants' = [g \in GrantId |-> ErasedGrant(g)]
  /\ UNCHANGED <<status, version, eventSequence, pendingChoice, sessions, bindings,
                 commandResults, hostCommandResults, actions, deletionLedger>>

\* purgeDeletedGames after it: the record goes, the receipts stay.
PurgeDeletedGame ==
  /\ status = "deleted"
  /\ status' = "purged"
  /\ version' = 0
  /\ eventSequence' = 0
  /\ pendingChoice' = {}
  /\ invitations' = [i \in InvitationId |-> NoInvitation]
  /\ grants' = [g \in GrantId |-> NoGrant]
  /\ commandResults' = [c \in CommandId |-> 0]
  /\ hostCommandResults' = [c \in CommandId |-> 0]
  /\ actions' = <<>>
  /\ deletionLedger' = Append(deletionLedger, "purged")
  /\ UNCHANGED <<sessions, bindings>>

-----------------------------------------------------------------------------

Next ==
  \/ \E side \in Side, s \in Session, h, b \in BindingId, i \in InvitationId :
       CreateGame(side, s, h, b, i)
  \/ \E i \in InvitationId, s \in Session, b \in BindingId : ClaimInvitation(i, s, b)
  \/ \E i \in InvitationId : ReapExpiredClaim(i)
  \/ \E b \in BindingId, c \in CommandId, v \in 0..version, pending \in SUBSET Side :
       PlayCommand(b, c, v, pending)
  \/ \E b \in BindingId, c \in CommandId, v \in 0..version : SurrenderSeat(b, c, v)
  \/ \E h \in BindingId, c \in CommandId, v \in 0..version, side \in Side,
        i \in InvitationId : IssueInvitation(h, c, v, side, i)
  \/ \E h \in BindingId, c \in CommandId, v \in 0..version, i \in InvitationId :
       RevokeInvitation(h, c, v, i)
  \/ \E h \in BindingId, c \in CommandId, v \in 0..version : DeleteGame(h, c, v)
  \/ \E role \in Role, g \in GrantId : IssueRecovery(role, g)
  \/ \E g \in GrantId, s \in Session, b \in BindingId, presented \in Session \cup {None} :
       ClaimSeatRecovery(g, s, b, presented)
  \/ \E g \in GrantId, s \in Session, b \in BindingId : ClaimHostRecovery(g, s, b)
  \/ \E s \in Session : SessionExpires(s)
  \/ \E i \in InvitationId : InvitationExpires(i)
  \/ \E g \in GrantId : GrantExpires(g)
  \/ EraseExpiredSecrets
  \/ PurgeDeletedGame

Spec == Init /\ [][Next]_vars

-----------------------------------------------------------------------------
(* Properties.                                                             *)

\* A side has at most one active binding and a session at most one active seat:
\* what claimInvitation and claimSeatRecovery check in the service is what the
\* partial unique indexes of migrations/001 demand of the mirrored rows.
SeatsExclusive ==
  \A b1, b2 \in BindingId :
    /\ IsActive(b1) /\ IsActive(b2) /\ b1 # b2
    /\ bindings[b1].role \in Side /\ bindings[b2].role \in Side
    => /\ bindings[b1].role # bindings[b2].role
       /\ bindings[b1].session # bindings[b2].session

\* An undeleted game has exactly one host, however many recovery grants were
\* issued for one binding and in whatever order they are claimed.
HostIsUnique ==
  status = "active" =>
    \E h \in BindingId :
      /\ IsActive(h) /\ bindings[h].role = "host"
      /\ \A b \in BindingId : IsActive(b) /\ bindings[b].role = "host" => b = h

\* Claims, surrenders and recoveries, by whomever and in whatever order, leave every part
\* of an open game with one holder.
BindingsAreExclusive == SeatsExclusive /\ HostIsUnique

\* A command identifier takes effect at most once in a game, whether it arrives
\* as a gameplay command, a host command or both, and the stored result the
\* retry paths answer from is that of its log entry.
CommandAppliesOnce ==
  \A c \in CommandId :
    /\ \A m, n \in DOMAIN actions :
         actions[m].command = c /\ actions[n].command = c => m = n
    /\ \A n \in DOMAIN actions :
         actions[n].command = c =>
           IF actions[n].kind = "gameplay"
             THEN commandResults[c] = n /\ hostCommandResults[c] = 0
             ELSE commandResults[c] = 0 /\ hostCommandResults[c] = n

\* The bindings a retried claim would accept as its own outcome: the lookups of
\* claimInvitation, claimSeatRecovery and claimHostRecovery on a used grant.
ClaimRetryMatches(i) ==
  {b \in BindingId : /\ IsActive(b)
                     /\ bindings[b].role = invitations[i].seat
                     /\ bindings[b].session = invitations[i].sealed}

RecoveryRetryMatches(g) ==
  {b \in BindingId : /\ IsActive(b)
                     /\ bindings[b].role = grants[g].role
                     /\ bindings[b].version = bindings[grants[g].oldBinding].version + 1
                     /\ bindings[b].session = grants[g].sealed}

\* A claim repeated after its answer was lost hands back the binding that very
\* claim made or nothing, although the lookups match on side, version and session
\* and the seat may have been surrendered, reissued and recovered in between.
RetriedClaimOwnsItsBinding ==
  status = "active" =>
    /\ \A i \in InvitationId :
         invitations[i].claimed /\ ~invitations[i].revoked /\ ~invitations[i].expired =>
           ClaimRetryMatches(i) \subseteq {invitations[i].claimedBinding}
    /\ \A g \in GrantId :
         grants[g].consumed /\ ~grants[g].expired =>
           RecoveryRetryMatches(g) \subseteq {grants[g].newBinding}

\* A deleted game grants nothing any more: no binding is active and neither an
\* invitation nor a recovery grant that was outstanding can still be used.
DeletedGameIsInert ==
  status \in {"deleted", "purged"} =>
    /\ \A b \in BindingId : ~IsActive(b)
    /\ \A i \in InvitationId : ~Claimable(i) /\ ~invitations[i].secret
    /\ \A g \in GrantId : grants[g].issued => grants[g].revoked

\* An invitation's secret can be unsealed again only while the invitation can
\* still be claimed (or has expired unclaimed and awaits the purge).
SecretsOnlyWhileOpen ==
  \A i \in InvitationId :
    invitations[i].secret => ~invitations[i].claimed /\ ~invitations[i].revoked

\* Nothing outlives its use: what was handed out for a game that was deleted, and the secret
\* of an invitation that is claimed or revoked, is of no use to anybody any more.
NothingOutlivesItsUse == DeletedGameIsInert /\ SecretsOnlyWhileOpen

SeatHolder(side) == {b \in BindingId : IsActive(b) /\ bindings[b].role = side}

\* A seat never changes hands silently: whoever held it surrendered it, was
\* replaced by an audited operator recovery, or lost the whole game.
HandoverIsLogged ==
  [][\A side \in Side :
       SeatHolder(side) # {} /\ SeatHolder(side)' # SeatHolder(side) =>
         /\ eventSequence' = eventSequence + 1
         /\ LET entry == actions'[eventSequence'] IN
            \/ entry.name = "surrenderSeat" /\ entry.binding \in SeatHolder(side)
            \/ /\ entry.name = "operatorRecovery"
               /\ grants[entry.subject].oldBinding \in SeatHolder(side)
            \/ entry.name = "deleteGame"]_vars

-----------------------------------------------------------------------------
(* What the properties rest on: together with TypeOK these are inductive.  *)

GrantsNameBindings ==
  \A g \in GrantId :
    /\ grants[g].issued => grants[g].oldBinding \in BindingId /\ grants[g].role \in Role
    /\ grants[g].consumed => grants[g].issued

\* Only an active game has bindings, and a game without a record has no grant.
OnlyLiveGamesBind ==
  /\ status # "active" => \A b \in BindingId : bindings[b].status = "none"
  /\ status = "absent" => \A g \in GrantId : ~grants[g].issued

OnlyLiveGamesInvite == status = "absent" => \A i \in InvitationId : ~invitations[i].issued

BindingsHaveSessions ==
  \A b \in BindingId :
    bindings[b].status # "none" =>
      /\ bindings[b].role \in Role
      /\ bindings[b].session \in Session
      /\ sessions[bindings[b].session] # "none"
      /\ bindings[b].version >= 1

GrantsMatchBindings ==
  status = "active" =>
    \A g \in GrantId :
      grants[g].issued =>
        /\ bindings[grants[g].oldBinding].status # "none"
        /\ bindings[grants[g].oldBinding].role = grants[g].role

InvitationsAreIssued ==
  \A i \in InvitationId :
    /\ invitations[i].secret \/ invitations[i].sealed # None => invitations[i].issued
    /\ invitations[i].issued => invitations[i].seat \in Side

\* Whatever retires the binding a claim made also erases the claim's credential.
SealedClaimsAreActive ==
  status = "active" =>
    \A i \in InvitationId :
      invitations[i].sealed # None =>
        LET b == invitations[i].claimedBinding IN
        /\ b \in BindingId /\ IsActive(b)
        /\ bindings[b].role = invitations[i].seat
        /\ bindings[b].session = invitations[i].sealed

\* A recovered binding has a session of its own, of which the grant keeps the
\* credential until it expires.
RecoveriesAreFresh ==
  status = "active" =>
    /\ \A b1, b2 \in BindingId :
         /\ b1 # b2
         /\ bindings[b1].status # "none" /\ bindings[b1].version >= 2
         /\ bindings[b2].status # "none" /\ bindings[b2].version >= 2
         => bindings[b1].session # bindings[b2].session
    /\ \A g \in GrantId :
         grants[g].consumed =>
           LET b == grants[g].newBinding IN
           /\ b \in BindingId /\ bindings[b].status # "none"
           /\ bindings[b].version = bindings[grants[g].oldBinding].version + 1
           /\ grants[g].sealed \in {None, bindings[b].session}

LogIsGapless == eventSequence = Len(actions)

IInv ==
  /\ TypeOK
  /\ GrantsNameBindings
  /\ OnlyLiveGamesBind
  /\ OnlyLiveGamesInvite
  /\ BindingsHaveSessions
  /\ GrantsMatchBindings
  /\ SeatsExclusive
  /\ HostIsUnique
  /\ InvitationsAreIssued
  /\ SecretsOnlyWhileOpen
  /\ SealedClaimsAreActive
  /\ RecoveriesAreFresh
  /\ DeletedGameIsInert
  /\ LogIsGapless
  /\ CommandAppliesOnce

=============================================================================
