------------------------ MODULE GameServiceProofs ------------------------
(***************************************************************************)
(* Theorems about GameService, proved for every number of sessions,        *)
(* bindings, invitations, grants and commands and every length of the log. *)
(***************************************************************************)
EXTENDS ActionReplay, TLAPS

USE DEF Side, Role, OtherSide

LEMMA BindingType ==
  ASSUME NEW role \in Role, NEW s \in Session, NEW number \in Nat, NEW after \in Nat
  PROVE  NewBinding(role, s, number, after) \in Binding
BY DEF NewBinding, Binding

LEMMA InvitationType ==
  ASSUME NEW seat \in Side, NEW after \in Nat
  PROVE  NewInvitation(seat, after) \in Invitation
BY DEF NewInvitation, NoInvitation, Invitation

\* What an entry appended by Log does to the log and its counter.
LEMMA LogType ==
  ASSUME TypeOK, NEW entry \in Action, Log(entry)
  PROVE  eventSequence' \in Nat /\ actions' \in Seq(Action)
BY DEF TypeOK, Log

LEMMA InitTypeOK == Init => TypeOK
BY DEF Init, TypeOK, NoBinding, NoInvitation, NoGrant, Binding, Invitation, Grant

LEMMA SeatEntryType ==
  ASSUME TypeOK, NEW b \in BindingId, NEW c \in CommandId, NEW v \in Nat,
         NEW pending \in SUBSET Side, NEW name \in {"play", "surrenderSeat"}
  PROVE  SeatEntry(name, b, c, v, pending) \in Action
BY DEF TypeOK, SeatEntry, Action

LEMMA HostEntryType ==
  ASSUME TypeOK, NEW h \in BindingId, NEW c \in CommandId, NEW v \in Nat,
         NEW name \in {"issueInvitation", "revokeInvitation", "deleteGame"},
         NEW subject \in Side \cup InvitationId \cup {None}
  PROVE  HostEntry(name, h, c, v, subject) \in Action
BY DEF TypeOK, HostEntry, Action

LEMMA AuditEntryType ==
  ASSUME TypeOK, NEW g \in GrantId
  PROVE  AuditEntry(g) \in Action
BY DEF TypeOK, AuditEntry, Action

(***************************************************************************)
(* Types.                                                                  *)
(***************************************************************************)

LEMMA SurrenderedInvitationType ==
  ASSUME TypeOK, NEW i \in InvitationId
  PROVE  SurrenderedInvitation(i) \in Invitation
<1>1. invitations[i] \in Invitation /\ eventSequence + 1 \in Nat
  BY DEF TypeOK
<1>2. QED
  BY <1>1 DEF SurrenderedInvitation, Invitation

LEMMA RevokedInvitationType ==
  ASSUME TypeOK, NEW i \in InvitationId
  PROVE  RevokedInvitation(i) \in Invitation
<1>1. invitations[i] \in Invitation /\ eventSequence + 1 \in Nat
  BY DEF TypeOK
<1>2. QED
  BY <1>1 DEF RevokedInvitation, Invitation

LEMMA DeletedInvitationType ==
  ASSUME TypeOK, NEW i \in InvitationId
  PROVE  DeletedInvitation(i) \in Invitation
<1>1. invitations[i] \in Invitation
  BY DEF TypeOK
<1>2. QED
  BY <1>1 DEF DeletedInvitation, Invitation

LEMMA ErasedInvitationType ==
  ASSUME TypeOK, NEW i \in InvitationId
  PROVE  ErasedInvitation(i) \in Invitation
<1>1. invitations[i] \in Invitation
  BY DEF TypeOK
<1>2. QED
  BY <1>1 DEF ErasedInvitation, Invitation

LEMMA DeletedGrantType ==
  ASSUME TypeOK, NEW g \in GrantId
  PROVE  DeletedGrant(g) \in Grant
<1>1. grants[g] \in Grant
  BY DEF TypeOK
<1>2. QED
  BY <1>1 DEF DeletedGrant, Grant

LEMMA ErasedGrantType ==
  ASSUME TypeOK, NEW g \in GrantId
  PROVE  ErasedGrant(g) \in Grant
<1>1. grants[g] \in Grant
  BY DEF TypeOK
<1>2. QED
  BY <1>1 DEF ErasedGrant, Grant

\* What every accepted host command does to the state that they all touch.
LEMMA HostCommandType ==
  ASSUME TypeOK, NEW h \in BindingId, NEW c \in CommandId, NEW v \in Nat,
         NEW name \in {"issueInvitation", "revokeInvitation", "deleteGame"},
         NEW subject \in Side \cup InvitationId \cup {None},
         HostCommand(h, c, v, name, subject)
  PROVE  /\ eventSequence' \in Nat /\ actions' \in Seq(Action)
         /\ version' \in Nat /\ pendingChoice' \in SUBSET Side
         /\ commandResults' \in [CommandId -> Nat]
         /\ hostCommandResults' \in [CommandId -> Nat]
<1>1. Log(HostEntry(name, h, c, v, subject))
  BY DEF HostCommand
<1>2. eventSequence' \in Nat /\ actions' \in Seq(Action)
  BY <1>1, HostEntryType, LogType
<1>3. QED
  BY <1>2 DEF HostCommand, TypeOK

LEMMA CreateGameType ==
  ASSUME TypeOK, NEW side \in Side, NEW s \in Session, NEW h \in BindingId,
         NEW b \in BindingId, NEW i \in InvitationId,
         CreateGame(side, s, h, b, i)
  PROVE  TypeOK'
<1>1. /\ NewBinding("host", s, 1, 0) \in Binding
      /\ NewBinding(side, s, 1, 0) \in Binding
      /\ NewInvitation(OtherSide(side), 0) \in Invitation
  BY BindingType, InvitationType
<1>2. QED
  BY <1>1 DEF CreateGame, TypeOK

LEMMA ClaimInvitationType ==
  ASSUME TypeOK, NEW i \in InvitationId, NEW s \in Session, NEW b \in BindingId,
         ClaimInvitation(i, s, b)
  PROVE  TypeOK'
<1>1. invitations[i].seat \in Side \cup {None}
  BY DEF TypeOK, Invitation
<1>2. bindings' \in [BindingId -> Binding]
  <2>1. NewBinding(invitations[i].seat, s, 1, eventSequence) \in Binding
    BY <1>1 DEF TypeOK, NewBinding, Binding
  <2>2. QED
    BY <2>1 DEF ClaimInvitation, TypeOK
<1>3. invitations' \in [InvitationId -> Invitation]
  <2>1. invitations[i] \in Invitation /\ eventSequence \in Nat
    BY DEF TypeOK
  <2>2. [invitations[i] EXCEPT !.claimed = TRUE, !.claimedAfter = eventSequence,
                               !.sealed = s, !.secret = FALSE, !.claimedBinding = b]
          \in Invitation
    BY <2>1 DEF Invitation
  <2>3. QED
    BY <2>2 DEF ClaimInvitation, TypeOK
<1>4. QED
  BY <1>2, <1>3 DEF ClaimInvitation, TypeOK

LEMMA ReapExpiredClaimType ==
  ASSUME TypeOK, NEW i \in InvitationId,
         ReapExpiredClaim(i)
  PROVE  TypeOK'
<1>1. invitations' \in [InvitationId -> Invitation]
  <2>1. invitations[i] \in Invitation
    BY DEF TypeOK
  <2>2. [invitations[i] EXCEPT !.sealed = None] \in Invitation
    BY <2>1 DEF Invitation
  <2>3. QED
    BY <2>2 DEF ReapExpiredClaim, TypeOK
<1>2. QED
  BY <1>1 DEF ReapExpiredClaim, TypeOK

LEMMA PlayCommandType ==
  ASSUME TypeOK, NEW b \in BindingId, NEW c \in CommandId, NEW v \in Nat,
         NEW pending \in SUBSET Side,
         PlayCommand(b, c, v, pending)
  PROVE  TypeOK'
<1>1. eventSequence' \in Nat /\ actions' \in Seq(Action)
  BY SeatEntryType, LogType DEF PlayCommand
<1>2. QED
  BY <1>1 DEF PlayCommand, TypeOK

LEMMA SurrenderSeatType ==
  ASSUME TypeOK, NEW b \in BindingId, NEW c \in CommandId, NEW v \in Nat,
         SurrenderSeat(b, c, v)
  PROVE  TypeOK'
<1>1. eventSequence' \in Nat /\ actions' \in Seq(Action)
  BY SeatEntryType, LogType DEF SurrenderSeat, TypeOK
<1>2. bindings' \in [BindingId -> Binding]
  <2>1. bindings[b] \in Binding /\ SurrenderRetiresAt \in Nat
    BY DEF TypeOK, SurrenderRetiresAt
  <2>2. [bindings[b] EXCEPT !.status = "revoked", !.inactiveFrom = SurrenderRetiresAt]
          \in Binding
    BY <2>1 DEF Binding
  <2>3. QED
    BY <2>2 DEF SurrenderSeat, TypeOK
<1>3. invitations' \in [InvitationId -> Invitation]
  BY SurrenderedInvitationType DEF SurrenderSeat, TypeOK
<1>4. QED
  BY <1>1, <1>2, <1>3 DEF SurrenderSeat, TypeOK

LEMMA IssueInvitationType ==
  ASSUME TypeOK, NEW h \in BindingId, NEW c \in CommandId, NEW v \in Nat,
         NEW side \in Side, NEW i \in InvitationId,
         IssueInvitation(h, c, v, side, i)
  PROVE  TypeOK'
<1>1. HostCommand(h, c, v, "issueInvitation", side)
  BY DEF IssueInvitation
<1>2. NewInvitation(side, eventSequence + 1) \in Invitation
  BY InvitationType DEF TypeOK
<1>3. QED
  BY <1>1, <1>2, HostCommandType DEF IssueInvitation, TypeOK

LEMMA RevokeInvitationType ==
  ASSUME TypeOK, NEW h \in BindingId, NEW c \in CommandId, NEW v \in Nat,
         NEW i \in InvitationId,
         RevokeInvitation(h, c, v, i)
  PROVE  TypeOK'
<1>1. HostCommand(h, c, v, "revokeInvitation", i)
  BY DEF RevokeInvitation
<1>2. QED
  BY <1>1, HostCommandType, RevokedInvitationType DEF RevokeInvitation, TypeOK

LEMMA DeleteGameType ==
  ASSUME TypeOK, NEW h \in BindingId, NEW c \in CommandId, NEW v \in Nat,
         DeleteGame(h, c, v)
  PROVE  TypeOK'
<1>1. HostCommand(h, c, v, "deleteGame", None)
  BY DEF DeleteGame
<1>2. bindings' \in [BindingId -> Binding] /\ sessions' \in [Session -> {"none", "live", "expired"}]
  BY DEF DeleteGame, NoBinding, Binding
<1>3. /\ invitations' \in [InvitationId -> Invitation]
      /\ grants' \in [GrantId -> Grant]
  BY DeletedInvitationType, DeletedGrantType DEF DeleteGame
<1>4. deletionLedger' \in Seq({"deleted", "purged"}) /\ status' \in {"deleted"}
  BY DEF DeleteGame, TypeOK
<1>5. QED
  BY <1>1, <1>2, <1>3, <1>4, HostCommandType DEF TypeOK

LEMMA IssueRecoveryType ==
  ASSUME TypeOK, NEW role \in Role, NEW g \in GrantId,
         IssueRecovery(role, g)
  PROVE  TypeOK'
<1>1. grants' \in [GrantId -> Grant]
  <2>1. PICK b \in BindingId :
          grants' = [grants EXCEPT ![g] = [NoGrant EXCEPT !.issued = TRUE, !.role = role,
                                                          !.oldBinding = b]]
    BY DEF IssueRecovery
  <2>2. [NoGrant EXCEPT !.issued = TRUE, !.role = role, !.oldBinding = b] \in Grant
    BY DEF NoGrant, Grant
  <2>3. QED
    BY <2>1, <2>2 DEF TypeOK
<1>2. QED
  BY <1>1 DEF IssueRecovery, TypeOK

\* What a recovery claim of either kind does, invitations aside.
LEMMA RotateBindingType ==
  ASSUME TypeOK, GrantsNameBindings, NEW g \in GrantId, NEW s \in Session, NEW b \in BindingId,
         invitations' \in [InvitationId -> Invitation],
         RotateBinding(g, s, b)
  PROVE  TypeOK'
<1>1. eventSequence' \in Nat /\ actions' \in Seq(Action)
  BY AuditEntryType, LogType DEF RotateBinding, Audit
<1>2. bindings' \in [BindingId -> Binding]
  <2> DEFINE old == grants[g].oldBinding
             retired == [bindings[old] EXCEPT !.status = "revoked",
                                              !.inactiveFrom = eventSequence + 1]
             fresh == NewBinding(bindings[old].role, s, bindings[old].version + 1,
                                 eventSequence + 1)
  <2>1. old \in BindingId
    BY DEF RotateBinding, GrantsNameBindings
  <2>2. bindings[old] \in Binding /\ eventSequence + 1 \in Nat
    BY <2>1 DEF TypeOK
  <2>3. retired \in Binding
    BY <2>2 DEF Binding
  <2>4. bindings[old].role \in Role \cup {None} /\ bindings[old].version + 1 \in Nat
    BY <2>2 DEF Binding
  <2>5. fresh \in Binding
    BY <2>2, <2>4 DEF NewBinding, Binding
  <2>6. bindings' = [bindings EXCEPT ![old] = [@ EXCEPT !.status = "revoked",
                                                        !.inactiveFrom = eventSequence + 1],
                                     ![b] = fresh]
    BY DEF RotateBinding
  <2>7. QED
    BY <2>1, <2>3, <2>5, <2>6 DEF TypeOK
<1>3. grants' \in [GrantId -> Grant]
  <2>1. grants[g] \in Grant /\ eventSequence + 1 \in Nat
    BY DEF TypeOK
  <2>2. [grants[g] EXCEPT !.consumed = TRUE, !.sealed = s, !.newBinding = b,
                          !.auditSequence = eventSequence + 1] \in Grant
    BY <2>1 DEF Grant
  <2>3. QED
    BY <2>2 DEF RotateBinding, TypeOK
<1>4. QED
  BY <1>1, <1>2, <1>3 DEF RotateBinding, TypeOK

LEMMA ClaimSeatRecoveryType ==
  ASSUME TypeOK, GrantsNameBindings, NEW g \in GrantId, NEW s \in Session, NEW b \in BindingId,
         NEW presented \in Session \cup {None},
         ClaimSeatRecovery(g, s, b, presented)
  PROVE  TypeOK'
<1>1. invitations' \in [InvitationId -> Invitation]
  <2>1. ASSUME NEW i \in InvitationId
        PROVE  [invitations[i] EXCEPT !.sealed = None] \in Invitation
    <3>1. invitations[i] \in Invitation
      BY DEF TypeOK
    <3>2. QED
      BY <3>1 DEF Invitation
  <2>2. QED
    BY <2>1 DEF ClaimSeatRecovery, TypeOK
<1>2. QED
  BY <1>1, RotateBindingType DEF ClaimSeatRecovery

LEMMA ClaimHostRecoveryType ==
  ASSUME TypeOK, GrantsNameBindings, NEW g \in GrantId, NEW s \in Session, NEW b \in BindingId,
         ClaimHostRecovery(g, s, b)
  PROVE  TypeOK'
<1>1. invitations' \in [InvitationId -> Invitation]
  BY DEF ClaimHostRecovery, TypeOK
<1>2. QED
  BY <1>1, RotateBindingType DEF ClaimHostRecovery

LEMMA DeadlineType ==
  ASSUME TypeOK,
         \/ \E s \in Session : SessionExpires(s)
         \/ \E i \in InvitationId : InvitationExpires(i)
         \/ \E g \in GrantId : GrantExpires(g)
         \/ EraseExpiredSecrets
         \/ PurgeDeletedGame
  PROVE  TypeOK'
<1>1. ASSUME NEW s \in Session, SessionExpires(s) PROVE TypeOK'
  BY <1>1 DEF SessionExpires, TypeOK
<1>2. ASSUME NEW i \in InvitationId, InvitationExpires(i) PROVE TypeOK'
  <2>1. invitations' \in [InvitationId -> Invitation]
    <3>0. invitations[i] \in Invitation
      BY DEF TypeOK
    <3>1. [invitations[i] EXCEPT !.expired = TRUE] \in Invitation
      BY <3>0 DEF Invitation
    <3>2. QED
      BY <1>2, <3>1 DEF InvitationExpires, TypeOK
  <2>2. QED
    BY <1>2, <2>1 DEF InvitationExpires, TypeOK
<1>3. ASSUME NEW g \in GrantId, GrantExpires(g) PROVE TypeOK'
  <2>1. grants' \in [GrantId -> Grant]
    <3>0. grants[g] \in Grant
      BY DEF TypeOK
    <3>1. [grants[g] EXCEPT !.expired = TRUE] \in Grant
      BY <3>0 DEF Grant
    <3>2. QED
      BY <1>3, <3>1 DEF GrantExpires, TypeOK
  <2>2. QED
    BY <1>3, <2>1 DEF GrantExpires, TypeOK
<1>4. CASE EraseExpiredSecrets
  BY <1>4, ErasedInvitationType, ErasedGrantType DEF EraseExpiredSecrets, TypeOK
<1>5. CASE PurgeDeletedGame
  <2>1. /\ NoInvitation \in Invitation
        /\ NoGrant \in Grant
    BY DEF NoInvitation, Invitation, NoGrant, Grant
  <2>2. QED
    BY <1>5, <2>1 DEF PurgeDeletedGame, TypeOK
<1>6. QED
  BY <1>1, <1>2, <1>3, <1>4, <1>5

LEMMA TypeStep ==
  ASSUME TypeOK, GrantsNameBindings, [Next]_vars
  PROVE  TypeOK'
<1>0. 0..version \subseteq Nat
  BY DEF TypeOK
<1>1. ASSUME NEW side \in Side, NEW s \in Session, NEW h \in BindingId,
             NEW b \in BindingId, NEW i \in InvitationId, CreateGame(side, s, h, b, i)
      PROVE  TypeOK'
  BY <1>1, CreateGameType
<1>2. ASSUME NEW i \in InvitationId, NEW s \in Session, NEW b \in BindingId,
             ClaimInvitation(i, s, b)
      PROVE  TypeOK'
  BY <1>2, ClaimInvitationType
<1>3. ASSUME NEW i \in InvitationId, ReapExpiredClaim(i) PROVE TypeOK'
  BY <1>3, ReapExpiredClaimType
<1>4. ASSUME NEW b \in BindingId, NEW c \in CommandId, NEW v \in 0..version,
             NEW pending \in SUBSET Side, PlayCommand(b, c, v, pending)
      PROVE  TypeOK'
  BY <1>0, <1>4, PlayCommandType
<1>5. ASSUME NEW b \in BindingId, NEW c \in CommandId, NEW v \in 0..version,
             SurrenderSeat(b, c, v)
      PROVE  TypeOK'
  BY <1>0, <1>5, SurrenderSeatType
<1>6. ASSUME NEW h \in BindingId, NEW c \in CommandId, NEW v \in 0..version,
             NEW side \in Side, NEW i \in InvitationId,
             IssueInvitation(h, c, v, side, i)
      PROVE  TypeOK'
  BY <1>0, <1>6, IssueInvitationType
<1>7. ASSUME NEW h \in BindingId, NEW c \in CommandId, NEW v \in 0..version,
             NEW i \in InvitationId, RevokeInvitation(h, c, v, i)
      PROVE  TypeOK'
  BY <1>0, <1>7, RevokeInvitationType
<1>8. ASSUME NEW h \in BindingId, NEW c \in CommandId, NEW v \in 0..version,
             DeleteGame(h, c, v)
      PROVE  TypeOK'
  BY <1>0, <1>8, DeleteGameType
<1>9. ASSUME NEW role \in Role, NEW g \in GrantId, IssueRecovery(role, g)
      PROVE  TypeOK'
  BY <1>9, IssueRecoveryType
<1>10. ASSUME NEW g \in GrantId, NEW s \in Session, NEW b \in BindingId,
              NEW presented \in Session \cup {None},
              ClaimSeatRecovery(g, s, b, presented)
       PROVE  TypeOK'
  BY <1>10, ClaimSeatRecoveryType
<1>11. ASSUME NEW g \in GrantId, NEW s \in Session, NEW b \in BindingId,
              ClaimHostRecovery(g, s, b)
       PROVE  TypeOK'
  BY <1>11, ClaimHostRecoveryType
<1>12. CASE UNCHANGED vars
  BY <1>12 DEF vars, TypeOK
<1>13. QED
  BY <1>1, <1>2, <1>3, <1>4, <1>5, <1>6, <1>7, <1>8, <1>9, <1>10, <1>11,
     <1>12, DeadlineType DEF Next

\* The actions that touch the recovery grants.
LEMMA GrantSteps ==
  ASSUME [Next]_vars
  PROVE  \/ UNCHANGED grants
         \/ \E role \in Role, g \in GrantId : IssueRecovery(role, g)
         \/ \E g \in GrantId, s \in Session, b \in BindingId : RotateBinding(g, s, b)
         \/ \E g \in GrantId : GrantExpires(g)
         \/ EraseExpiredSecrets
         \/ \E h \in BindingId, c \in CommandId, v \in 0..version : DeleteGame(h, c, v)
         \/ PurgeDeletedGame
<1>1. ASSUME NEW side \in Side, NEW s \in Session, NEW h \in BindingId, NEW b \in BindingId,
             NEW i \in InvitationId, CreateGame(side, s, h, b, i)
      PROVE  UNCHANGED grants
  BY <1>1 DEF CreateGame
<1>10. ASSUME NEW i \in InvitationId, NEW s \in Session, NEW b \in BindingId, ClaimInvitation(i, s, b)
       PROVE  UNCHANGED grants
  BY <1>10 DEF ClaimInvitation
<1>2. ASSUME \/ \E i \in InvitationId : ReapExpiredClaim(i) \/ InvitationExpires(i)
             \/ \E s \in Session : SessionExpires(s)
      PROVE  UNCHANGED grants
  BY <1>2 DEF ReapExpiredClaim, InvitationExpires, SessionExpires
<1>6. ASSUME NEW b \in BindingId, NEW c \in CommandId, NEW v \in 0..version,
             NEW pending \in SUBSET Side, PlayCommand(b, c, v, pending)
      PROVE  UNCHANGED grants
  BY <1>6 DEF PlayCommand
<1>7. ASSUME NEW b \in BindingId, NEW c \in CommandId, NEW v \in 0..version, SurrenderSeat(b, c, v)
      PROVE  UNCHANGED grants
  BY <1>7 DEF SurrenderSeat
<1>8. ASSUME NEW h \in BindingId, NEW c \in CommandId, NEW v \in 0..version,
             NEW side \in Side, NEW i \in InvitationId, IssueInvitation(h, c, v, side, i)
      PROVE  UNCHANGED grants
  BY <1>8 DEF IssueInvitation
<1>9. ASSUME NEW h \in BindingId, NEW c \in CommandId, NEW v \in 0..version,
             NEW i \in InvitationId, RevokeInvitation(h, c, v, i)
      PROVE  UNCHANGED grants
  BY <1>9 DEF RevokeInvitation
<1>3. ASSUME NEW g \in GrantId, NEW s \in Session, NEW b \in BindingId,
             \/ \E presented \in Session \cup {None} : ClaimSeatRecovery(g, s, b, presented)
             \/ ClaimHostRecovery(g, s, b)
      PROVE  RotateBinding(g, s, b)
  BY <1>3 DEF ClaimSeatRecovery, ClaimHostRecovery
<1>4. CASE UNCHANGED vars
  BY <1>4 DEF vars
<1>5. CASE Next
  BY <1>1, <1>2, <1>3, <1>5, <1>6, <1>7, <1>8, <1>9, <1>10 DEF Next
<1> QED BY <1>4, <1>5

\* A grant is only ever issued for a binding that exists.
LEMMA GrantsNameBindingsStep ==
  ASSUME TypeOK, GrantsNameBindings, [Next]_vars
  PROVE  GrantsNameBindings'
<1>1. ASSUME NEW role \in Role, NEW g \in GrantId, IssueRecovery(role, g)
      PROVE  GrantsNameBindings'
  BY <1>1 DEF IssueRecovery, NoGrant, TypeOK, GrantsNameBindings
<1>2. ASSUME NEW g \in GrantId, NEW s \in Session, NEW b \in BindingId, RotateBinding(g, s, b)
      PROVE  GrantsNameBindings'
  BY <1>2 DEF RotateBinding, TypeOK, GrantsNameBindings
<1>3. CASE \E g \in GrantId : GrantExpires(g)
  BY <1>3 DEF GrantExpires, TypeOK, GrantsNameBindings
<1>4. CASE EraseExpiredSecrets
  BY <1>4 DEF EraseExpiredSecrets, ErasedGrant, TypeOK, GrantsNameBindings
<1>5. CASE PurgeDeletedGame
  BY <1>5 DEF PurgeDeletedGame, NoGrant, GrantsNameBindings
<1>6. CASE \E h \in BindingId, c \in CommandId, v \in 0..version : DeleteGame(h, c, v)
  <2>1. ASSUME NEW g \in GrantId
        PROVE  /\ DeletedGrant(g).issued = grants[g].issued
               /\ DeletedGrant(g).oldBinding = grants[g].oldBinding
               /\ DeletedGrant(g).role = grants[g].role
               /\ DeletedGrant(g).consumed = grants[g].consumed
    <3>1. grants[g] \in Grant
      BY DEF TypeOK
    <3>2. QED
      BY <3>1 DEF DeletedGrant, Grant
  <2>2. grants' = [g \in GrantId |-> DeletedGrant(g)]
    BY <1>6 DEF DeleteGame
  <2>3. QED
    BY <2>1, <2>2 DEF GrantsNameBindings
<1>7. CASE UNCHANGED grants
  BY <1>7 DEF GrantsNameBindings
<1>8. QED
  BY <1>1, <1>2, <1>3, <1>4, <1>5, <1>6, <1>7, GrantSteps

\* Every state the service reaches has its type: in particular no off-by-one in
\* the interval arithmetic of bindings and invitations leaves the naturals.
THEOREM TypeCorrect == Spec => []TypeOK
<1>1. Init => TypeOK /\ GrantsNameBindings
  BY InitTypeOK DEF Init, NoGrant, GrantsNameBindings
<1>2. TypeOK /\ GrantsNameBindings /\ [Next]_vars => (TypeOK /\ GrantsNameBindings)'
  BY TypeStep, GrantsNameBindingsStep
<1>3. QED
  BY <1>1, <1>2, PTL DEF Spec

-----------------------------------------------------------------------------
(***************************************************************************)
(* Who may act: seats are exclusive, an active game has one host, and a    *)
(* deleted game is inert, for every number of sessions, bindings,          *)
(* invitations and recovery grants.                                        *)
(***************************************************************************)


\* Steps that touch no binding, no session and no status.
Quiet == UNCHANGED <<status, sessions, bindings>>

\* The cases every property of bindings and sessions distinguishes.
LEMMA AuthorityCases ==
  ASSUME [Next]_vars
  PROVE  \/ \E side \in Side, s \in Session, h, b \in BindingId, i \in InvitationId :
              CreateGame(side, s, h, b, i)
         \/ \E i \in InvitationId, s \in Session, b \in BindingId : ClaimInvitation(i, s, b)
         \/ \E b \in BindingId, c \in CommandId, v \in 0..version : SurrenderSeat(b, c, v)
         \/ \E h \in BindingId, c \in CommandId, v \in 0..version : DeleteGame(h, c, v)
         \/ \E g \in GrantId, s \in Session, b \in BindingId : RotateBinding(g, s, b)
         \/ \E s \in Session : SessionExpires(s)
         \/ PurgeDeletedGame
         \/ Quiet
BY DEF Next, vars, Quiet, ReapExpiredClaim, PlayCommand, IssueInvitation, RevokeInvitation,
       IssueRecovery, ClaimSeatRecovery, ClaimHostRecovery, InvitationExpires,
       GrantExpires, EraseExpiredSecrets

\* Field by field, what a step of each kind does to the bindings.
LEMMA CreateBindings ==
  ASSUME TypeOK, NEW side \in Side, NEW s \in Session, NEW h \in BindingId,
         NEW b \in BindingId, NEW i \in InvitationId, CreateGame(side, s, h, b, i)
  PROVE  /\ status = "absent" /\ status' = "active" /\ h # b
         /\ bindings'[h].status = "active" /\ bindings'[b].status = "active"
         /\ bindings'[h].role = "host" /\ bindings'[b].role = side
         /\ bindings'[h].session = s /\ bindings'[b].session = s
         /\ bindings'[h].version = 1 /\ bindings'[b].version = 1
         /\ \A x \in BindingId \ {h, b} : bindings'[x] = bindings[x]
         /\ sessions'[s] = "live"
         /\ \A x \in Session \ {s} : sessions'[x] = sessions[x]
<1>1. h # b /\ bindings \in [BindingId -> Binding]
  BY DEF CreateGame, TypeOK
<1>2. /\ bindings'[h] = NewBinding("host", s, 1, 0)
      /\ bindings'[b] = NewBinding(side, s, 1, 0)
      /\ \A x \in BindingId \ {h, b} : bindings'[x] = bindings[x]
  BY <1>1 DEF CreateGame
<1>3. QED
  BY <1>1, <1>2 DEF CreateGame, TypeOK, NewBinding

LEMMA ClaimBindings ==
  ASSUME TypeOK, NEW i \in InvitationId, NEW s \in Session, NEW b \in BindingId,
         ClaimInvitation(i, s, b)
  PROVE  /\ status = "active" /\ status' = "active"
         /\ bindings[b].status = "none"
         /\ bindings'[b].status = "active"
         /\ bindings'[b].role = invitations[i].seat
         /\ bindings'[b].session = s
         /\ bindings'[b].version = 1
         /\ \A x \in BindingId \ {b} : bindings'[x] = bindings[x]
         /\ sessions'[s] = "live"
         /\ \A x \in Session \ {s} : sessions'[x] = sessions[x]
<1>1. /\ bindings'[b] = NewBinding(invitations[i].seat, s, 1, eventSequence)
      /\ \A x \in BindingId \ {b} : bindings'[x] = bindings[x]
  BY DEF ClaimInvitation, TypeOK
<1>2. QED
  BY <1>1 DEF ClaimInvitation, TypeOK, NewBinding

LEMMA SurrenderBindings ==
  ASSUME TypeOK, NEW b \in BindingId, NEW c \in CommandId, NEW v \in Nat,
         SurrenderSeat(b, c, v)
  PROVE  /\ status = "active" /\ status' = "active"
         /\ bindings[b].status = "active" /\ bindings[b].role \in Side
         /\ bindings'[b].status = "revoked"
         /\ bindings'[b].role = bindings[b].role
         /\ bindings'[b].session = bindings[b].session
         /\ bindings'[b].version = bindings[b].version
         /\ \A x \in BindingId \ {b} : bindings'[x] = bindings[x]
         /\ sessions' = sessions
<1>1. bindings[b] \in Binding
  BY DEF TypeOK
<1>2. QED
  BY <1>1 DEF SurrenderSeat, Authorized, IsActive, TypeOK, Binding

LEMMA RotateBindings ==
  ASSUME TypeOK, GrantsNameBindings, NEW g \in GrantId, NEW s \in Session,
         NEW b \in BindingId, RotateBinding(g, s, b)
  PROVE  LET old == grants[g].oldBinding IN
         /\ status = "active" /\ status' = "active"
         /\ old \in BindingId /\ old # b /\ grants[g].issued
         /\ bindings[old].status = "active" /\ bindings[b].status = "none"
         /\ bindings'[old].status = "revoked"
         /\ bindings'[old].role = bindings[old].role
         /\ bindings'[old].session = bindings[old].session
         /\ bindings'[old].version = bindings[old].version
         /\ bindings'[b].status = "active"
         /\ bindings'[b].role = bindings[old].role
         /\ bindings'[b].session = s
         /\ bindings'[b].version = bindings[old].version + 1
         /\ \A x \in BindingId \ {b, old} : bindings'[x] = bindings[x]
         /\ sessions[s] = "none" /\ sessions'[s] = "live"
         /\ \A x \in Session \ {s} : sessions'[x] = sessions[x]
<1> DEFINE old == grants[g].oldBinding
<1>1. old \in BindingId /\ bindings[old].status = "active" /\ bindings[b].status = "none"
  BY DEF RotateBinding, GrantsNameBindings, Replaceable, IsActive
<1>2. old # b
  BY <1>1
<1>3. bindings[old] \in Binding
  BY <1>1 DEF TypeOK
<1>4. /\ bindings'[b] = NewBinding(bindings[old].role, s, bindings[old].version + 1,
                                   eventSequence + 1)
      /\ \A x \in BindingId \ {b, old} : bindings'[x] = bindings[x]
      /\ bindings'[old].status = "revoked"
      /\ bindings'[old].role = bindings[old].role
      /\ bindings'[old].session = bindings[old].session
      /\ bindings'[old].version = bindings[old].version
  BY <1>1, <1>2, <1>3 DEF RotateBinding, TypeOK, Binding
<1>5. /\ sessions[s] = "none" /\ sessions'[s] = "live"
      /\ \A x \in Session \ {s} : sessions'[x] = sessions[x]
  BY DEF RotateBinding, TypeOK
<1>6. status = "active" /\ status' = "active" /\ grants[g].issued
  BY DEF RotateBinding
<1>7. QED
  BY <1>1, <1>2, <1>4, <1>5, <1>6 DEF NewBinding

LEMMA DeleteBindings ==
  ASSUME NEW h \in BindingId, NEW c \in CommandId, NEW v \in Nat, DeleteGame(h, c, v)
  PROVE  /\ status = "active" /\ status' = "deleted"
         /\ \A b \in BindingId : bindings'[b].status = "none"
BY DEF DeleteGame, HostCommand, Authorized, NoBinding

LEMMA QuietBindings ==
  ASSUME Quiet \/ PurgeDeletedGame \/ \E s \in Session : SessionExpires(s)
  PROVE  /\ bindings' = bindings
         /\ status' = "active" <=> status = "active"
         /\ status' = "absent" <=> status = "absent"
BY DEF Quiet, PurgeDeletedGame, SessionExpires

\* Only its creation makes a game active.
LEMMA StatusKeeps ==
  ASSUME TypeOK, GrantsNameBindings, [Next]_vars, status # "absent", status' = "active"
  PROVE  status = "active"
<1>1. 0..version \subseteq Nat
  BY DEF TypeOK
<1>2. QED
  BY <1>1, AuthorityCases, CreateBindings, ClaimBindings, SurrenderBindings, RotateBindings,
     DeleteBindings, QuietBindings

\* While the game lives a binding keeps its role, its session and its version.
LEMMA BindingsKeep ==
  ASSUME TypeOK, GrantsNameBindings, [Next]_vars,
         status # "absent", status' = "active",
         NEW x \in BindingId, bindings[x].status # "none"
  PROVE  /\ status = "active"
         /\ bindings'[x].status # "none"
         /\ bindings'[x].role = bindings[x].role
         /\ bindings'[x].session = bindings[x].session
         /\ bindings'[x].version = bindings[x].version
<1>0. 0..version \subseteq Nat
  BY DEF TypeOK
<1>1. ASSUME NEW i \in InvitationId, NEW s \in Session, NEW b \in BindingId,
             ClaimInvitation(i, s, b)
      PROVE  status = "active" /\ bindings'[x] = bindings[x]
  BY <1>1, ClaimBindings
<1>2. ASSUME NEW b \in BindingId, NEW c \in CommandId, NEW v \in Nat, SurrenderSeat(b, c, v)
      PROVE  /\ status = "active" /\ bindings'[x].status # "none"
             /\ bindings'[x].role = bindings[x].role
             /\ bindings'[x].session = bindings[x].session
             /\ bindings'[x].version = bindings[x].version
  BY <1>2, SurrenderBindings
<1>3. ASSUME NEW g \in GrantId, NEW s \in Session, NEW b \in BindingId, RotateBinding(g, s, b)
      PROVE  /\ status = "active" /\ bindings'[x].status # "none"
             /\ bindings'[x].role = bindings[x].role
             /\ bindings'[x].session = bindings[x].session
             /\ bindings'[x].version = bindings[x].version
  BY <1>3, RotateBindings
<1>4. CASE Quiet \/ PurgeDeletedGame \/ \E s \in Session : SessionExpires(s)
  BY <1>4, QuietBindings
<1>5. QED
  BY <1>0, <1>1, <1>2, <1>3, <1>4, AuthorityCases, DeleteBindings
  DEF CreateGame

LEMMA OnlyLiveGamesBindStep ==
  ASSUME TypeOK, GrantsNameBindings, OnlyLiveGamesBind, [Next]_vars
  PROVE  OnlyLiveGamesBind'
<1>0. 0..version \subseteq Nat
  BY DEF TypeOK
<1>1. status' = "active" \/ \A b \in BindingId : bindings'[b].status = "none"
  BY <1>0, AuthorityCases, CreateBindings, ClaimBindings, SurrenderBindings, RotateBindings,
     DeleteBindings, QuietBindings DEF OnlyLiveGamesBind
<1>2. status' = "absent" => status = "absent"
  BY <1>0, AuthorityCases, CreateBindings, ClaimBindings, SurrenderBindings, RotateBindings,
     DeleteBindings, QuietBindings
<1>3. ASSUME status' = "absent", NEW g \in GrantId
      PROVE  ~grants'[g].issued
  <2>1. status = "absent" /\ \A x \in GrantId : ~grants[x].issued
    BY <1>2, <1>3 DEF OnlyLiveGamesBind
  <2>2. CASE EraseExpiredSecrets
    <3>1. grants[g] \in Grant
      BY DEF TypeOK
    <3>2. grants'[g].issued = grants[g].issued
      BY <2>2, <3>1 DEF EraseExpiredSecrets, ErasedGrant, Grant
    <3>3. QED
      BY <2>1, <3>2
  <2>3. CASE UNCHANGED grants
    BY <2>1, <2>3
  <2>4. QED
    BY <1>3, <2>1, <2>2, <2>3
    DEF Next, vars, CreateGame, ClaimInvitation, ReapExpiredClaim, PlayCommand, SurrenderSeat,
        IssueInvitation, RevokeInvitation, DeleteGame, HostCommand, Authorized, IssueRecovery,
        ClaimSeatRecovery, ClaimHostRecovery, RotateBinding, SessionExpires,
        InvitationExpires, GrantExpires, PurgeDeletedGame
<1>4. QED
  BY <1>1, <1>3 DEF OnlyLiveGamesBind

LEMMA BindingsHaveSessionsStep ==
  ASSUME TypeOK, GrantsNameBindings, InvitationsAreIssued, BindingsHaveSessions, [Next]_vars
  PROVE  BindingsHaveSessions'
<1>1. ASSUME NEW side \in Side, NEW s \in Session, NEW h \in BindingId,
             NEW b \in BindingId, NEW i \in InvitationId, CreateGame(side, s, h, b, i)
      PROVE  BindingsHaveSessions'
  BY <1>1, CreateBindings DEF BindingsHaveSessions
<1>2. ASSUME NEW i \in InvitationId, NEW s \in Session, NEW b \in BindingId,
             ClaimInvitation(i, s, b)
      PROVE  BindingsHaveSessions'
  <2>1. invitations[i].seat \in Side
    BY <1>2 DEF ClaimInvitation, Claimable, InvitationsAreIssued
  <2>2. QED
    BY <1>2, <2>1, ClaimBindings DEF BindingsHaveSessions
<1>3. ASSUME NEW b \in BindingId, NEW c \in CommandId, NEW v \in Nat, SurrenderSeat(b, c, v)
      PROVE  BindingsHaveSessions'
  BY <1>3, SurrenderBindings DEF BindingsHaveSessions
<1>4. ASSUME NEW g \in GrantId, NEW s \in Session, NEW b \in BindingId, RotateBinding(g, s, b)
      PROVE  BindingsHaveSessions'
  <2> DEFINE old == grants[g].oldBinding
  <2>1. old \in BindingId
    BY <1>4 DEF RotateBinding, GrantsNameBindings
  <2>2. bindings[old].version \in Nat
    BY <2>1 DEF TypeOK, Binding
  <2>3. QED
    BY <1>4, <2>1, <2>2, RotateBindings DEF BindingsHaveSessions
<1>5. ASSUME NEW h \in BindingId, NEW c \in CommandId, NEW v \in Nat, DeleteGame(h, c, v)
      PROVE  BindingsHaveSessions'
  BY <1>5, DeleteBindings DEF BindingsHaveSessions
<1>6. ASSUME NEW s \in Session, SessionExpires(s)
      PROVE  BindingsHaveSessions'
  BY <1>6 DEF SessionExpires, TypeOK, BindingsHaveSessions
<1>7. CASE UNCHANGED <<sessions, bindings>>
  BY <1>7 DEF BindingsHaveSessions
<1>8. 0..version \subseteq Nat
  BY DEF TypeOK
<1>9. QED
  BY <1>1, <1>2, <1>3, <1>4, <1>5, <1>6, <1>7, <1>8, AuthorityCases
  DEF PurgeDeletedGame, Quiet

\* At most one active binding per seat, and one active seat per session.
LEMMA SeatsExclusiveStep ==
  ASSUME TypeOK, GrantsNameBindings, OnlyLiveGamesBind, BindingsHaveSessions,
         InvitationsAreIssued, SeatsExclusive, [Next]_vars
  PROVE  SeatsExclusive'
<1>1. ASSUME NEW side \in Side, NEW s \in Session, NEW h \in BindingId,
             NEW b \in BindingId, NEW i \in InvitationId, CreateGame(side, s, h, b, i)
      PROVE  SeatsExclusive'
  <2>1. \A x \in BindingId : IsActive(x)' /\ bindings'[x].role \in Side => x = b
    BY <1>1, CreateBindings DEF OnlyLiveGamesBind, IsActive
  <2>2. QED
    BY <2>1 DEF SeatsExclusive
<1>2. ASSUME NEW i \in InvitationId, NEW s \in Session, NEW b \in BindingId,
             ClaimInvitation(i, s, b)
      PROVE  SeatsExclusive'
  <2>1. \A x \in BindingId :
          bindings[x].status = "active" /\ bindings[x].role \in Side =>
            bindings[x].role # invitations[i].seat /\ bindings[x].session # s
    BY <1>2 DEF ClaimInvitation, SeatVacant, HoldsSeat, IsActive
  <2>2. QED
    BY <1>2, <2>1, ClaimBindings DEF IsActive, SeatsExclusive
<1>3. ASSUME NEW b \in BindingId, NEW c \in CommandId, NEW v \in Nat, SurrenderSeat(b, c, v)
      PROVE  SeatsExclusive'
  BY <1>3, SurrenderBindings DEF IsActive, SeatsExclusive
<1>4. ASSUME NEW g \in GrantId, NEW s \in Session, NEW b \in BindingId, RotateBinding(g, s, b)
      PROVE  SeatsExclusive'
  <2> DEFINE old == grants[g].oldBinding
  <2>1. \A x \in BindingId : bindings[x].status = "active" => bindings[x].session # s
    BY <1>4, RotateBindings DEF BindingsHaveSessions
  <2>2. QED
    BY <1>4, <2>1, RotateBindings DEF IsActive, SeatsExclusive
<1>5. ASSUME NEW h \in BindingId, NEW c \in CommandId, NEW v \in Nat, DeleteGame(h, c, v)
      PROVE  SeatsExclusive'
  BY <1>5, DeleteBindings DEF IsActive, SeatsExclusive
<1>6. CASE UNCHANGED bindings
  BY <1>6 DEF IsActive, SeatsExclusive
<1>7. 0..version \subseteq Nat
  BY DEF TypeOK
<1>8. QED
  BY <1>1, <1>2, <1>3, <1>4, <1>5, <1>6, <1>7, AuthorityCases
  DEF SessionExpires, PurgeDeletedGame, Quiet

\* An active game has exactly one host.
LEMMA HostIsUniqueStep ==
  ASSUME TypeOK, GrantsNameBindings, OnlyLiveGamesBind, InvitationsAreIssued,
         HostIsUnique, [Next]_vars
  PROVE  HostIsUnique'
<1>1. ASSUME NEW side \in Side, NEW s \in Session, NEW h \in BindingId,
             NEW b \in BindingId, NEW i \in InvitationId, CreateGame(side, s, h, b, i)
      PROVE  HostIsUnique'
  <2>1. \A x \in BindingId : IsActive(x)' /\ bindings'[x].role = "host" => x = h
    BY <1>1, CreateBindings DEF OnlyLiveGamesBind, IsActive
  <2>2. IsActive(h)' /\ bindings'[h].role = "host"
    BY <1>1, CreateBindings DEF IsActive
  <2>3. QED
    BY <2>1, <2>2 DEF HostIsUnique
<1>2. ASSUME NEW i \in InvitationId, NEW s \in Session, NEW b \in BindingId,
             ClaimInvitation(i, s, b)
      PROVE  HostIsUnique'
  <2>1. invitations[i].seat \in Side
    BY <1>2 DEF ClaimInvitation, Claimable, InvitationsAreIssued
  <2>2. QED
    BY <1>2, <2>1, ClaimBindings DEF HostIsUnique, IsActive
<1>3. ASSUME NEW b \in BindingId, NEW c \in CommandId, NEW v \in Nat, SurrenderSeat(b, c, v)
      PROVE  HostIsUnique'
  BY <1>3, SurrenderBindings DEF IsActive, HostIsUnique
<1>4. ASSUME NEW g \in GrantId, NEW s \in Session, NEW b \in BindingId, RotateBinding(g, s, b)
      PROVE  HostIsUnique'
  BY <1>4, RotateBindings DEF IsActive, HostIsUnique
<1>5. ASSUME NEW h \in BindingId, NEW c \in CommandId, NEW v \in Nat, DeleteGame(h, c, v)
      PROVE  HostIsUnique'
  BY <1>5, DeleteBindings DEF HostIsUnique
<1>6. CASE Quiet \/ PurgeDeletedGame \/ \E s \in Session : SessionExpires(s)
  BY <1>6, QuietBindings DEF IsActive, HostIsUnique
<1>7. 0..version \subseteq Nat
  BY DEF TypeOK
<1>8. QED
  BY <1>1, <1>2, <1>3, <1>4, <1>5, <1>6, <1>7, AuthorityCases

\* A step that issues no grant changes neither whom a grant is for nor what
\* it replaces; only the purge takes an issued grant back.
LEMMA GrantCases ==
  ASSUME TypeOK, [Next]_vars
  PROVE  \/ \E role \in Role, g \in GrantId : IssueRecovery(role, g)
         \/ \A g \in GrantId :
              grants'[g].issued => /\ grants[g].issued
                                   /\ grants'[g].role = grants[g].role
                                   /\ grants'[g].oldBinding = grants[g].oldBinding
<1>0. \A g \in GrantId : grants[g] \in Grant
  BY DEF TypeOK
<1>1. CASE UNCHANGED grants
  BY <1>1
<1>2. CASE \E g \in GrantId, s \in Session, b \in BindingId : RotateBinding(g, s, b)
  BY <1>0, <1>2 DEF RotateBinding, TypeOK, Grant
<1>3. CASE \E g \in GrantId : GrantExpires(g)
  BY <1>0, <1>3 DEF GrantExpires, TypeOK, Grant
<1>4. CASE EraseExpiredSecrets
  <2>1. \A g \in GrantId : grants'[g] = ErasedGrant(g)
    BY <1>4 DEF EraseExpiredSecrets
  <2>2. QED
    BY <1>0, <2>1 DEF ErasedGrant, Grant
<1>5. CASE \E h \in BindingId, c \in CommandId, v \in 0..version : DeleteGame(h, c, v)
  <2>1. \A g \in GrantId : grants'[g] = DeletedGrant(g)
    BY <1>5 DEF DeleteGame
  <2>2. QED
    BY <1>0, <2>1 DEF DeletedGrant, Grant
<1>6. CASE PurgeDeletedGame
  BY <1>6 DEF PurgeDeletedGame, NoGrant
<1>7. QED
  BY <1>1, <1>2, <1>3, <1>4, <1>5, <1>6, GrantSteps

\* A grant and the binding it replaces agree on the role while the game lives.
LEMMA GrantsMatchBindingsStep ==
  ASSUME TypeOK, GrantsNameBindings, OnlyLiveGamesBind, GrantsMatchBindings, [Next]_vars
  PROVE  GrantsMatchBindings'
<1>1. ASSUME NEW role \in Role, NEW g \in GrantId, IssueRecovery(role, g)
      PROVE  GrantsMatchBindings'
  <2>1. PICK b \in BindingId :
          /\ bindings[b].status = "active" /\ bindings[b].role = role
          /\ grants' = [grants EXCEPT ![g] = [NoGrant EXCEPT !.issued = TRUE, !.role = role,
                                                            !.oldBinding = b]]
    BY <1>1 DEF IssueRecovery, IsActive
  <2>2. grants'[g].role = role /\ grants'[g].oldBinding = b
    BY <2>1 DEF TypeOK, NoGrant
  <2>3. \A x \in GrantId \ {g} : grants'[x] = grants[x]
    BY <2>1 DEF TypeOK
  <2>4. status' = status /\ bindings' = bindings
    BY <1>1 DEF IssueRecovery
  <2>5. QED
    BY <2>1, <2>2, <2>3, <2>4 DEF GrantsMatchBindings
<1>2. ASSUME \A g \in GrantId :
               grants'[g].issued => /\ grants[g].issued
                                    /\ grants'[g].role = grants[g].role
                                    /\ grants'[g].oldBinding = grants[g].oldBinding
      PROVE  GrantsMatchBindings'
  <2>1. ASSUME status' = "active", NEW g \in GrantId, grants'[g].issued
        PROVE  /\ bindings'[grants'[g].oldBinding].status # "none"
               /\ bindings'[grants'[g].oldBinding].role = grants'[g].role
    <3> DEFINE old == grants[g].oldBinding
    <3>1. grants[g].issued /\ grants'[g].oldBinding = old /\ grants'[g].role = grants[g].role
      BY <1>2, <2>1
    <3>2. old \in BindingId /\ status # "absent"
      BY <3>1 DEF GrantsNameBindings, OnlyLiveGamesBind
    <3>3. bindings[old].status # "none" /\ bindings[old].role = grants[g].role
      BY <2>1, <3>1, <3>2, StatusKeeps DEF GrantsMatchBindings
    <3>4. bindings'[old].status # "none" /\ bindings'[old].role = bindings[old].role
      BY <2>1, <3>2, <3>3, BindingsKeep
    <3>5. QED
      BY <3>1, <3>3, <3>4
  <2>2. QED
    BY <2>1 DEF GrantsMatchBindings
<1>3. QED
  BY <1>1, <1>2, GrantCases

-----------------------------------------------------------------------------
(* What the service hands out and records: invitations, recovery grants and *)
(* claims, then the action log.  The theorems of the whole service follow.  *)

\* A step that neither issues nor claims the invitation only closes it further.
Narrows(i) ==
  /\ invitations'[i].issued = invitations[i].issued
  /\ invitations'[i].seat = invitations[i].seat
  /\ invitations'[i].claimed = invitations[i].claimed
  /\ invitations'[i].claimedBinding = invitations[i].claimedBinding
  /\ invitations'[i].sealed \in {invitations[i].sealed, None}
  /\ invitations'[i].secret => invitations[i].secret
  /\ invitations[i].revoked => invitations'[i].revoked
  /\ invitations[i].expired => invitations'[i].expired
  /\ invitations'[i].revoked /\ ~invitations[i].revoked => ~invitations'[i].secret

\* An invitation that has just been issued.
Fresh(i) ==
  /\ status' = "active"
  /\ invitations'[i].issued /\ invitations'[i].seat \in Side
  /\ ~invitations'[i].claimed /\ ~invitations'[i].revoked
  /\ invitations'[i].sealed = None

LEMMA InvitationCases ==
  ASSUME TypeOK, [Next]_vars, NEW i \in InvitationId
  PROVE  \/ Fresh(i)
         \/ \E s \in Session, b \in BindingId : ClaimInvitation(i, s, b)
         \/ Narrows(i)
         \/ invitations'[i] = NoInvitation
<1>0. invitations[i] \in Invitation
  BY DEF TypeOK
<1>1. CASE invitations'[i] = invitations[i]
  BY <1>1 DEF Narrows
<1>2. ASSUME NEW side \in Side, NEW s \in Session, NEW h \in BindingId,
             NEW b \in BindingId, NEW j \in InvitationId, CreateGame(side, s, h, b, j)
      PROVE  Fresh(i) \/ invitations'[i] = invitations[i]
  BY <1>2 DEF CreateGame, TypeOK, Fresh, NewInvitation, NoInvitation, OtherSide
<1>3. ASSUME NEW h \in BindingId, NEW c \in CommandId, NEW v \in Nat, NEW side \in Side,
             NEW j \in InvitationId, IssueInvitation(h, c, v, side, j)
      PROVE  Fresh(i) \/ invitations'[i] = invitations[i]
  BY <1>3 DEF IssueInvitation, HostCommand, Authorized, TypeOK, Fresh, NewInvitation, NoInvitation
<1>4. ASSUME NEW j \in InvitationId, NEW s \in Session, NEW b \in BindingId,
             ClaimInvitation(j, s, b)
      PROVE  i = j \/ invitations'[i] = invitations[i]
  BY <1>4 DEF ClaimInvitation, TypeOK
<1>5. ASSUME NEW j \in InvitationId, ReapExpiredClaim(j) PROVE Narrows(i)
  BY <1>0, <1>5 DEF ReapExpiredClaim, TypeOK, Invitation, Narrows
<1>6. ASSUME NEW b \in BindingId, NEW c \in CommandId, NEW v \in Nat, SurrenderSeat(b, c, v)
      PROVE  Narrows(i)
  BY <1>0, <1>6 DEF SurrenderSeat, SurrenderedInvitation, Invitation, Narrows
<1>7. ASSUME NEW h \in BindingId, NEW c \in CommandId, NEW v \in Nat,
             NEW j \in InvitationId, RevokeInvitation(h, c, v, j)
      PROVE  Narrows(i)
  BY <1>0, <1>7 DEF RevokeInvitation, RevokedInvitation, TypeOK, Invitation, Narrows
<1>8. ASSUME NEW h \in BindingId, NEW c \in CommandId, NEW v \in Nat, DeleteGame(h, c, v)
      PROVE  Narrows(i)
  BY <1>0, <1>8 DEF DeleteGame, DeletedInvitation, Invitation, Narrows
<1>9. ASSUME NEW g \in GrantId, NEW s \in Session, NEW b \in BindingId,
             NEW presented \in Session \cup {None}, ClaimSeatRecovery(g, s, b, presented)
      PROVE  Narrows(i)
  BY <1>0, <1>9 DEF ClaimSeatRecovery, Invitation, Narrows
<1>10. ASSUME NEW j \in InvitationId, InvitationExpires(j) PROVE Narrows(i)
  BY <1>0, <1>10 DEF InvitationExpires, TypeOK, Invitation, Narrows
<1>11. CASE EraseExpiredSecrets
  BY <1>0, <1>11 DEF EraseExpiredSecrets, ErasedInvitation, Invitation, Narrows
<1>12. CASE PurgeDeletedGame
  BY <1>12 DEF PurgeDeletedGame
<1>13. 0..version \subseteq Nat
  BY DEF TypeOK
<1>14. QED
  BY <1>1, <1>2, <1>3, <1>4, <1>5, <1>6, <1>7, <1>8, <1>9, <1>10, <1>11, <1>12, <1>13
  DEF Next, vars, PlayCommand, IssueRecovery, ClaimHostRecovery, SessionExpires, GrantExpires

\* What a claim leaves in its invitation.
LEMMA ClaimedInvitation ==
  ASSUME TypeOK, NEW i \in InvitationId, NEW s \in Session, NEW b \in BindingId,
         ClaimInvitation(i, s, b)
  PROVE  /\ invitations'[i].issued /\ invitations'[i].seat = invitations[i].seat
         /\ invitations[i].issued
         /\ invitations'[i].claimed /\ ~invitations'[i].secret
         /\ invitations'[i].sealed = s /\ invitations'[i].claimedBinding = b
         /\ status = "active" /\ status' = "active"
<1>1. invitations[i] \in Invitation
  BY DEF TypeOK
<1>2. QED
  BY <1>1 DEF ClaimInvitation, Claimable, TypeOK, Invitation

LEMMA OnlyLiveGamesInviteStep ==
  ASSUME TypeOK, GrantsNameBindings, OnlyLiveGamesInvite, [Next]_vars
  PROVE  OnlyLiveGamesInvite'
<1>1. SUFFICES ASSUME status' = "absent", NEW i \in InvitationId
               PROVE  ~invitations'[i].issued
  BY DEF OnlyLiveGamesInvite
<1>2. 0..version \subseteq Nat
  BY DEF TypeOK
<1>3. status = "absent"
  BY <1>1, <1>2, AuthorityCases, CreateBindings, ClaimBindings, SurrenderBindings,
     RotateBindings, DeleteBindings, QuietBindings
<1>4. ~invitations[i].issued
  BY <1>3 DEF OnlyLiveGamesInvite
<1>5. QED
  BY <1>1, <1>4, InvitationCases, ClaimedInvitation DEF Fresh, Narrows, NoInvitation

LEMMA InvitationsAreIssuedStep ==
  ASSUME TypeOK, InvitationsAreIssued, [Next]_vars
  PROVE  InvitationsAreIssued'
<1>1. SUFFICES ASSUME NEW i \in InvitationId
      PROVE  /\ invitations'[i].secret \/ invitations'[i].sealed # None => invitations'[i].issued
             /\ invitations'[i].issued => invitations'[i].seat \in Side
  BY DEF InvitationsAreIssued
<1>2. CASE Fresh(i)
  BY <1>2 DEF Fresh
<1>3. ASSUME NEW s \in Session, NEW b \in BindingId, ClaimInvitation(i, s, b)
      PROVE  invitations'[i].issued /\ invitations'[i].seat \in Side
  BY <1>3, ClaimedInvitation DEF InvitationsAreIssued
<1>4. CASE Narrows(i)
  BY <1>4 DEF Narrows, InvitationsAreIssued
<1>5. CASE invitations'[i] = NoInvitation
  BY <1>5 DEF NoInvitation
<1>6. QED
  BY <1>2, <1>3, <1>4, <1>5, InvitationCases

\* A secret is kept only while its invitation is neither claimed nor revoked.
LEMMA SecretsOnlyWhileOpenStep ==
  ASSUME TypeOK, SecretsOnlyWhileOpen, [Next]_vars
  PROVE  SecretsOnlyWhileOpen'
<1>1. SUFFICES ASSUME NEW i \in InvitationId, invitations'[i].secret
               PROVE  ~invitations'[i].claimed /\ ~invitations'[i].revoked
  BY DEF SecretsOnlyWhileOpen
<1>2. CASE Fresh(i)
  BY <1>2 DEF Fresh
<1>3. CASE Narrows(i)
  BY <1>1, <1>3 DEF Narrows, SecretsOnlyWhileOpen
<1>4. CASE invitations'[i] = NoInvitation
  BY <1>1, <1>4 DEF NoInvitation
<1>5. QED
  BY <1>1, <1>2, <1>3, <1>4, InvitationCases, ClaimedInvitation

\* Nothing of a deleted game can be used.
LEMMA DeletedGameIsInertStep ==
  ASSUME TypeOK, OnlyLiveGamesBind', InvitationsAreIssued, SecretsOnlyWhileOpen,
         GrantsNameBindings, DeletedGameIsInert, [Next]_vars
  PROVE  DeletedGameIsInert'
<1>1. SUFFICES ASSUME status' \in {"deleted", "purged"}
               PROVE  /\ \A b \in BindingId : ~IsActive(b)'
                      /\ \A i \in InvitationId : ~Claimable(i)' /\ ~invitations'[i].secret
                      /\ \A g \in GrantId : grants'[g].issued => grants'[g].revoked
  BY DEF DeletedGameIsInert
<1>2. \A b \in BindingId : ~IsActive(b)'
  BY <1>1 DEF OnlyLiveGamesBind, IsActive
<1>3. 0..version \subseteq Nat
  BY DEF TypeOK
<1>4. ASSUME NEW h \in BindingId, NEW c \in CommandId, NEW v \in Nat, DeleteGame(h, c, v)
      PROVE  /\ \A i \in InvitationId : ~Claimable(i)' /\ ~invitations'[i].secret
             /\ \A g \in GrantId : grants'[g].issued => grants'[g].revoked
  <2>1. ASSUME NEW i \in InvitationId
        PROVE  ~Claimable(i)' /\ ~invitations'[i].secret
    <3>1. invitations[i] \in Invitation /\ invitations'[i] = DeletedInvitation(i)
      BY <1>4 DEF TypeOK, DeleteGame
    <3>2. QED
      BY <3>1 DEF DeletedInvitation, Invitation, Claimable, InvitationsAreIssued,
                  SecretsOnlyWhileOpen
  <2>2. ASSUME NEW g \in GrantId
        PROVE  grants'[g].issued => grants'[g].revoked
    <3>1. grants[g] \in Grant /\ grants'[g] = DeletedGrant(g)
      BY <1>4 DEF TypeOK, DeleteGame
    <3>2. QED
      BY <3>1 DEF DeletedGrant, Grant
  <2>3. QED
    BY <2>1, <2>2
<1>5. CASE status \in {"deleted", "purged"}
  <2>1. ASSUME NEW i \in InvitationId
        PROVE  ~Claimable(i)' /\ ~invitations'[i].secret
    <3>1. ~Claimable(i) /\ ~invitations[i].secret
      BY <1>5 DEF DeletedGameIsInert
    <3>2. CASE Narrows(i)
      BY <3>1, <3>2 DEF Narrows, Claimable
    <3>3. CASE invitations'[i] = NoInvitation
      BY <3>3 DEF NoInvitation, Claimable
    <3>4. QED
      BY <1>1, <1>5, <3>2, <3>3, InvitationCases, ClaimedInvitation DEF Fresh
  <2>2. ASSUME NEW g \in GrantId, grants'[g].issued
        PROVE  grants'[g].revoked
    <3>1. grants[g] \in Grant /\ (grants[g].issued => grants[g].revoked)
      BY <1>5 DEF TypeOK, DeletedGameIsInert
    <3>2. CASE UNCHANGED grants
      BY <2>2, <3>1, <3>2
    <3>3. CASE \E x \in GrantId : GrantExpires(x)
      BY <2>2, <3>1, <3>3 DEF GrantExpires, TypeOK, Grant
    <3>4. CASE EraseExpiredSecrets
      <4>1. grants'[g] = ErasedGrant(g)
        BY <3>4 DEF EraseExpiredSecrets
      <4>2. QED
        BY <2>2, <3>1, <4>1 DEF ErasedGrant, Grant
    <3>5. CASE PurgeDeletedGame
      BY <2>2, <3>5 DEF PurgeDeletedGame, NoGrant
    <3>6. ASSUME NEW role \in Role, NEW x \in GrantId
          PROVE  ~IssueRecovery(role, x)
      BY <1>5 DEF IssueRecovery
    <3>7. ASSUME NEW x \in GrantId, NEW s \in Session, NEW b \in BindingId
          PROVE  ~RotateBinding(x, s, b)
      BY <1>5 DEF RotateBinding
    <3>8. ASSUME NEW h \in BindingId, NEW c \in CommandId, NEW v \in 0..version
          PROVE  ~DeleteGame(h, c, v)
      BY <1>5 DEF DeleteGame, HostCommand, Authorized
    <3>9. QED
      BY <3>2, <3>3, <3>4, <3>5, <3>6, <3>7, <3>8, GrantSteps
  <2>3. QED
    BY <1>2, <2>1, <2>2
<1>6. CASE UNCHANGED vars
  BY <1>1, <1>5, <1>6 DEF vars
<1>7. status' = status \/ (\E h \in BindingId, c \in CommandId, v \in 0..version : DeleteGame(h, c, v))
        \/ status = "deleted"
  BY <1>1, <1>3, AuthorityCases, CreateBindings, ClaimBindings, SurrenderBindings, RotateBindings
  DEF Quiet, SessionExpires, PurgeDeletedGame
<1>8. QED
  BY <1>1, <1>2, <1>3, <1>4, <1>5, <1>7

\* While a claim's credential is kept, the binding the claim made is active.
LEMMA SealedClaimsAreActiveStep ==
  ASSUME TypeOK, GrantsNameBindings, OnlyLiveGamesBind, GrantsMatchBindings,
         OnlyLiveGamesInvite, InvitationsAreIssued, SealedClaimsAreActive, [Next]_vars
  PROVE  SealedClaimsAreActive'
<1>1. SUFFICES ASSUME status' = "active", NEW i \in InvitationId, invitations'[i].sealed # None
               PROVE  LET b == invitations'[i].claimedBinding IN
                      /\ b \in BindingId /\ bindings'[b].status = "active"
                      /\ bindings'[b].role = invitations'[i].seat
                      /\ bindings'[b].session = invitations'[i].sealed
  BY DEF SealedClaimsAreActive, IsActive
<1>2. ASSUME NEW s \in Session, NEW b \in BindingId, ClaimInvitation(i, s, b)
      PROVE  /\ invitations'[i].claimedBinding = b /\ bindings'[b].status = "active"
             /\ bindings'[b].role = invitations'[i].seat
             /\ bindings'[b].session = invitations'[i].sealed
  BY <1>2, ClaimBindings, ClaimedInvitation
<1>3. CASE Narrows(i)
  <2> DEFINE b == invitations[i].claimedBinding
  <2>1. /\ invitations'[i].claimedBinding = b
        /\ invitations'[i].seat = invitations[i].seat
        /\ invitations'[i].sealed = invitations[i].sealed
        /\ invitations[i].sealed # None
    BY <1>1, <1>3 DEF Narrows
  <2>2. status = "active"
    BY <1>1, <2>1, StatusKeeps DEF OnlyLiveGamesInvite, InvitationsAreIssued
  <2>3. /\ b \in BindingId /\ bindings[b].status = "active"
        /\ bindings[b].role = invitations[i].seat
        /\ bindings[b].session = invitations[i].sealed
        /\ invitations[i].issued /\ invitations[i].seat \in Side
    BY <2>1, <2>2 DEF SealedClaimsAreActive, IsActive, InvitationsAreIssued
  <2>4. bindings'[b].role = bindings[b].role /\ bindings'[b].session = bindings[b].session
    BY <1>1, <2>2, <2>3, BindingsKeep
  <2>5. ASSUME NEW c \in CommandId, NEW v \in Nat, SurrenderSeat(b, c, v)
        PROVE  invitations'[i].sealed = None
    <3>1. invitations[i] \in Invitation /\ invitations'[i] = SurrenderedInvitation(i)
      BY <2>3, <2>5 DEF SurrenderSeat, TypeOK
    <3>2. QED
      BY <3>1 DEF SurrenderedInvitation, Invitation
  <2>6. ASSUME NEW g \in GrantId, NEW s \in Session, NEW x \in BindingId,
               NEW presented \in Session \cup {None},
               ClaimSeatRecovery(g, s, x, presented), grants[g].oldBinding = b
        PROVE  invitations'[i].sealed = None
    <3>1. grants[g].issued /\ invitations[i] \in Invitation
      BY <2>6 DEF ClaimSeatRecovery, RotateBinding, TypeOK
    <3>2. grants[g].role = invitations[i].seat
      BY <2>2, <2>3, <2>6, <3>1 DEF GrantsMatchBindings
    <3>3. invitations'[i] = [invitations[i] EXCEPT !.sealed = None]
      BY <2>3, <2>6, <3>2 DEF ClaimSeatRecovery
    <3>4. QED
      BY <3>1, <3>3 DEF Invitation
  <2>7. ASSUME NEW g \in GrantId, NEW s \in Session, NEW x \in BindingId,
               ClaimHostRecovery(g, s, x), grants[g].oldBinding = b
        PROVE  FALSE
    <3>1. grants[g].issued /\ grants[g].role = "host"
      BY <2>7 DEF ClaimHostRecovery, RotateBinding
    <3>2. QED
      BY <2>2, <2>3, <2>7, <3>1 DEF GrantsMatchBindings
  <2>8. bindings'[b].status = "active"
    <3>1. ASSUME NEW j \in InvitationId, NEW s \in Session, NEW x \in BindingId,
                 ClaimInvitation(j, s, x)
          PROVE  bindings'[b].status = "active"
      BY <2>3, <3>1, ClaimBindings
    <3>2. ASSUME NEW x \in BindingId, NEW c \in CommandId, NEW v \in Nat, SurrenderSeat(x, c, v)
          PROVE  bindings'[b].status = "active"
      BY <1>1, <2>3, <2>5, <3>2, SurrenderBindings
    <3>3. ASSUME NEW g \in GrantId, NEW s \in Session, NEW x \in BindingId,
                 NEW presented \in Session \cup {None}, ClaimSeatRecovery(g, s, x, presented)
          PROVE  bindings'[b].status = "active"
      <4>1. RotateBinding(g, s, x) /\ grants[g].oldBinding # b
        BY <1>1, <2>6, <3>3 DEF ClaimSeatRecovery
      <4>2. QED
        BY <2>3, <4>1, RotateBindings
    <3>4. ASSUME NEW g \in GrantId, NEW s \in Session, NEW x \in BindingId,
                 ClaimHostRecovery(g, s, x)
          PROVE  bindings'[b].status = "active"
      <4>1. RotateBinding(g, s, x) /\ grants[g].oldBinding # b
        BY <2>7, <3>4 DEF ClaimHostRecovery
      <4>2. QED
        BY <2>3, <4>1, RotateBindings
    <3>5. CASE UNCHANGED bindings
      BY <2>3, <3>5
    <3>6. 0..version \subseteq Nat
      BY DEF TypeOK
    <3>7. QED
      BY <1>1, <2>2, <3>1, <3>2, <3>3, <3>4, <3>5, <3>6
      DEF Next, vars, CreateGame, ReapExpiredClaim, PlayCommand, IssueInvitation,
          RevokeInvitation, DeleteGame, IssueRecovery, SessionExpires, InvitationExpires,
          GrantExpires, EraseExpiredSecrets, PurgeDeletedGame
  <2>9. QED
    BY <2>1, <2>3, <2>4, <2>8
<1>4. QED
  BY <1>1, <1>2, <1>3, InvitationCases DEF Fresh, NoInvitation

\* A step that does not use a grant adds nothing to what a used grant keeps.
LEMMA UsedGrantCases ==
  ASSUME TypeOK, [Next]_vars, NEW g \in GrantId, grants'[g].consumed
  PROVE  \/ \E s \in Session, b \in BindingId : RotateBinding(g, s, b)
         \/ /\ grants[g].consumed
            /\ grants'[g].oldBinding = grants[g].oldBinding
            /\ grants'[g].newBinding = grants[g].newBinding
            /\ grants'[g].sealed \in {grants[g].sealed, None}
<1> DEFINE Kept == /\ grants[g].consumed
                   /\ grants'[g].oldBinding = grants[g].oldBinding
                   /\ grants'[g].newBinding = grants[g].newBinding
                   /\ grants'[g].sealed \in {grants[g].sealed, None}
<1>0. grants[g] \in Grant
  BY DEF TypeOK
<1>1. CASE UNCHANGED grants
  BY <1>1
<1>2. ASSUME NEW role \in Role, NEW x \in GrantId, IssueRecovery(role, x)
      PROVE  Kept
  BY <1>0, <1>2 DEF IssueRecovery, TypeOK, NoGrant
<1>3. ASSUME NEW x \in GrantId, NEW s \in Session, NEW b \in BindingId, RotateBinding(x, s, b)
      PROVE  x = g \/ Kept
  BY <1>3 DEF RotateBinding, TypeOK
<1>4. ASSUME NEW x \in GrantId, GrantExpires(x)
      PROVE  Kept
  BY <1>0, <1>4 DEF GrantExpires, TypeOK, Grant
<1>5. CASE EraseExpiredSecrets
  <2>1. grants'[g] = ErasedGrant(g)
    BY <1>5 DEF EraseExpiredSecrets
  <2>2. QED
    BY <1>0, <2>1 DEF ErasedGrant, Grant
<1>6. ASSUME NEW h \in BindingId, NEW c \in CommandId, NEW v \in 0..version, DeleteGame(h, c, v)
      PROVE  Kept
  <2>1. grants'[g] = DeletedGrant(g)
    BY <1>6 DEF DeleteGame
  <2>2. QED
    BY <1>0, <2>1 DEF DeletedGrant, Grant
<1>7. CASE PurgeDeletedGame
  BY <1>7 DEF PurgeDeletedGame, NoGrant
<1>8. QED
  BY <1>1, <1>2, <1>3, <1>4, <1>5, <1>6, <1>7, GrantSteps

\* What a recovery leaves in its grant.
LEMMA UsedGrant ==
  ASSUME TypeOK, NEW g \in GrantId, NEW s \in Session, NEW b \in BindingId,
         RotateBinding(g, s, b)
  PROVE  /\ grants'[g].oldBinding = grants[g].oldBinding
         /\ grants'[g].newBinding = b
         /\ grants'[g].sealed = s
<1>1. grants[g] \in Grant
  BY DEF TypeOK
<1>2. QED
  BY <1>1 DEF RotateBinding, TypeOK, Grant

\* Recovered bindings never share a session, and a used grant keeps at most the
\* credential of the binding it made.
LEMMA RecoveriesAreFreshStep ==
  ASSUME TypeOK, TypeOK', GrantsNameBindings, OnlyLiveGamesBind, InvitationsAreIssued,
         BindingsHaveSessions, GrantsMatchBindings, RecoveriesAreFresh, [Next]_vars
  PROVE  RecoveriesAreFresh'
<1>0. SUFFICES ASSUME status' = "active"
      PROVE  /\ \A b1, b2 \in BindingId :
                  /\ b1 # b2
                  /\ bindings'[b1].status # "none" /\ bindings'[b1].version >= 2
                  /\ bindings'[b2].status # "none" /\ bindings'[b2].version >= 2
                  => bindings'[b1].session # bindings'[b2].session
             /\ \A g \in GrantId :
                  grants'[g].consumed =>
                    LET b == grants'[g].newBinding IN
                    /\ b \in BindingId /\ bindings'[b].status # "none"
                    /\ bindings'[b].version = bindings'[grants'[g].oldBinding].version + 1
                    /\ grants'[g].sealed \in {None, bindings'[b].session}
  BY DEF RecoveriesAreFresh
<1>1. ASSUME NEW b1 \in BindingId, NEW b2 \in BindingId, b1 # b2,
             bindings'[b1].status # "none", bindings'[b1].version >= 2,
             bindings'[b2].status # "none", bindings'[b2].version >= 2
      PROVE  bindings'[b1].session # bindings'[b2].session
  <2>1. ASSUME NEW side \in Side, NEW s \in Session, NEW h \in BindingId,
               NEW b \in BindingId, NEW i \in InvitationId, CreateGame(side, s, h, b, i)
        PROVE  FALSE
    BY <1>1, <2>1, CreateBindings DEF OnlyLiveGamesBind
  <2>2. ASSUME NEW i \in InvitationId, NEW s \in Session, NEW b \in BindingId,
               ClaimInvitation(i, s, b)
        PROVE  bindings'[b1].session # bindings'[b2].session
    BY <1>1, <2>2, ClaimBindings DEF RecoveriesAreFresh
  <2>3. ASSUME NEW b \in BindingId, NEW c \in CommandId, NEW v \in Nat, SurrenderSeat(b, c, v)
        PROVE  bindings'[b1].session # bindings'[b2].session
    BY <1>1, <2>3, SurrenderBindings DEF RecoveriesAreFresh
  <2>4. ASSUME NEW g \in GrantId, NEW s \in Session, NEW b \in BindingId, RotateBinding(g, s, b)
        PROVE  bindings'[b1].session # bindings'[b2].session
    <3>1. \A x \in BindingId : bindings[x].status # "none" => bindings[x].session # s
      BY <2>4, RotateBindings DEF BindingsHaveSessions
    <3>2. QED
      BY <1>1, <2>4, <3>1, RotateBindings DEF RecoveriesAreFresh
  <2>5. CASE Quiet \/ PurgeDeletedGame \/ \E s \in Session : SessionExpires(s)
    BY <1>0, <1>1, <2>5, QuietBindings DEF RecoveriesAreFresh
  <2>6. 0..version \subseteq Nat
    BY DEF TypeOK
  <2>7. QED
    BY <1>0, <2>1, <2>2, <2>3, <2>4, <2>5, <2>6, AuthorityCases, DeleteBindings
<1>2. ASSUME NEW g \in GrantId, grants'[g].consumed
      PROVE  LET b == grants'[g].newBinding IN
             /\ b \in BindingId /\ bindings'[b].status # "none"
             /\ bindings'[b].version = bindings'[grants'[g].oldBinding].version + 1
             /\ grants'[g].sealed \in {None, bindings'[b].session}
  <2>1. ASSUME NEW s \in Session, NEW b \in BindingId, RotateBinding(g, s, b)
        PROVE  /\ grants'[g].newBinding = b /\ bindings'[b].status # "none"
               /\ bindings'[b].version = bindings'[grants'[g].oldBinding].version + 1
               /\ grants'[g].sealed = bindings'[b].session
    BY <2>1, RotateBindings, UsedGrant
  <2>2. ASSUME grants[g].consumed,
               grants'[g].oldBinding = grants[g].oldBinding,
               grants'[g].newBinding = grants[g].newBinding,
               grants'[g].sealed \in {grants[g].sealed, None}
        PROVE  LET b == grants'[g].newBinding IN
               /\ b \in BindingId /\ bindings'[b].status # "none"
               /\ bindings'[b].version = bindings'[grants'[g].oldBinding].version + 1
               /\ grants'[g].sealed \in {None, bindings'[b].session}
    <3> DEFINE b == grants[g].newBinding
               old == grants[g].oldBinding
    <3>1. grants[g].issued /\ old \in BindingId
      BY <2>2 DEF GrantsNameBindings
    <3>2. status # "absent"
      BY <3>1 DEF OnlyLiveGamesBind
    <3>3. status = "active"
      BY <1>0, <3>2, StatusKeeps
    <3>4. /\ b \in BindingId /\ bindings[b].status # "none"
          /\ bindings[b].version = bindings[old].version + 1
          /\ grants[g].sealed \in {None, bindings[b].session}
      BY <2>2, <3>3 DEF RecoveriesAreFresh
    <3>5. bindings[old].status # "none"
      BY <3>1, <3>3 DEF GrantsMatchBindings
    <3>6. /\ bindings'[b].status # "none" /\ bindings'[b].version = bindings[b].version
          /\ bindings'[b].session = bindings[b].session
      BY <1>0, <3>2, <3>4, BindingsKeep
    <3>7. bindings'[old].version = bindings[old].version
      BY <1>0, <3>1, <3>2, <3>5, BindingsKeep
    <3>8. QED
      BY <2>2, <3>4, <3>6, <3>7
  <2>3. QED
    BY <1>2, <2>1, <2>2, UsedGrantCases
<1>3. QED
  BY <1>1, <1>2

\* A retry matches on seat or role, version and session; that these single out
\* the claimant's own binding takes all of the invariant.
LEMMA RetriesMatchOwn ==
  ASSUME TypeOK, NoneAssumption, GrantsNameBindings, BindingsHaveSessions, SeatsExclusive,
         GrantsMatchBindings, InvitationsAreIssued, SealedClaimsAreActive, RecoveriesAreFresh
  PROVE  RetriedClaimOwnsItsBinding
<1>1. ASSUME status = "active", NEW i \in InvitationId, NEW b \in ClaimRetryMatches(i)
      PROVE  b = invitations[i].claimedBinding
  <2>1. /\ b \in BindingId /\ IsActive(b)
        /\ bindings[b].role = invitations[i].seat
        /\ bindings[b].session = invitations[i].sealed
    BY <1>1 DEF ClaimRetryMatches
  <2>2. invitations[i].sealed # None
    BY <2>1, NoneAssumption DEF BindingsHaveSessions, IsActive
  <2>3. invitations[i].seat \in Side
    BY <2>2 DEF InvitationsAreIssued
  <2>4. LET own == invitations[i].claimedBinding
        IN own \in BindingId /\ IsActive(own) /\ bindings[own].role = invitations[i].seat
    BY <1>1, <2>2 DEF SealedClaimsAreActive
  <2>5. QED
    BY <2>1, <2>3, <2>4 DEF SeatsExclusive
<1>2. ASSUME status = "active", NEW g \in GrantId, grants[g].consumed,
             NEW b \in RecoveryRetryMatches(g)
      PROVE  b = grants[g].newBinding
  <2> DEFINE own == grants[g].newBinding
             old == grants[g].oldBinding
  <2>1. /\ b \in BindingId /\ bindings[b].status # "none"
        /\ bindings[b].version = bindings[old].version + 1
        /\ bindings[b].session = grants[g].sealed
    BY <1>2 DEF RecoveryRetryMatches, IsActive
  <2>2. bindings[b].session # None
    BY <2>1, NoneAssumption DEF BindingsHaveSessions
  <2>3. /\ own \in BindingId /\ bindings[own].status # "none"
        /\ bindings[own].version = bindings[old].version + 1
        /\ bindings[own].session = grants[g].sealed
    BY <1>2, <2>1, <2>2 DEF RecoveriesAreFresh
  <2>4. old \in BindingId /\ bindings[old].status # "none"
    BY <1>2 DEF GrantsNameBindings, GrantsMatchBindings
  <2>5. bindings[old].version \in Nat /\ bindings[old].version >= 1
    BY <2>4 DEF TypeOK, Binding, BindingsHaveSessions
  <2>6. QED
    BY <1>2, <2>1, <2>3, <2>5 DEF RecoveriesAreFresh
<1>3. QED
  BY <1>1, <1>2 DEF RetriedClaimOwnsItsBinding

-----------------------------------------------------------------------------
(***************************************************************************)
(* The action log: it has no gaps, a command identifier occurs in it once  *)
(* with the result its retry will be given, and no seat changes hands      *)
(* without an entry.                                                       *)
(***************************************************************************)


\* The last entry is the only one a step adds.
LEMMA AppendedLog ==
  ASSUME TypeOK, LogIsGapless, NEW entry \in Action, Log(entry)
  PROVE  /\ eventSequence' = eventSequence + 1
         /\ LogIsGapless'
         /\ DOMAIN actions' = DOMAIN actions \cup {eventSequence + 1}
         /\ eventSequence + 1 \notin DOMAIN actions
         /\ DOMAIN actions = 1..eventSequence
         /\ actions'[eventSequence + 1] = entry
         /\ \A n \in DOMAIN actions : actions'[n] = actions[n]
<1>1. actions \in Seq(Action) /\ eventSequence = Len(actions) /\ eventSequence \in Nat
  BY DEF TypeOK, LogIsGapless
<1>2. actions' = Append(actions, entry) /\ eventSequence' = eventSequence + 1
  BY DEF Log
<1>3. Len(actions') = eventSequence + 1 /\ DOMAIN actions' = 1..(eventSequence + 1)
  BY <1>1, <1>2
<1>4. QED
  BY <1>1, <1>2, <1>3 DEF LogIsGapless

\* The steps that write to the log, and what they write.
LEMMA LogCases ==
  ASSUME TypeOK, [Next]_vars
  PROVE  \/ \E entry \in Action, c \in CommandId :
              /\ NewCommand(c) /\ Log(entry) /\ entry.command = c
              /\ \/ /\ entry.kind = "gameplay"
                    /\ commandResults' = [commandResults EXCEPT ![c] = eventSequence + 1]
                    /\ hostCommandResults' = hostCommandResults
                 \/ /\ entry.kind = "host_management"
                    /\ hostCommandResults' = [hostCommandResults EXCEPT ![c] = eventSequence + 1]
                    /\ commandResults' = commandResults
         \/ \E entry \in Action :
              /\ Log(entry) /\ entry.command = None
              /\ UNCHANGED <<commandResults, hostCommandResults>>
         \/ UNCHANGED <<eventSequence, actions, commandResults, hostCommandResults>>
         \/ PurgeDeletedGame
<1> DEFINE CommandLogged ==
             \E entry \in Action, c \in CommandId :
               /\ NewCommand(c) /\ Log(entry) /\ entry.command = c
               /\ \/ /\ entry.kind = "gameplay"
                     /\ commandResults' = [commandResults EXCEPT ![c] = eventSequence + 1]
                     /\ hostCommandResults' = hostCommandResults
                  \/ /\ entry.kind = "host_management"
                     /\ hostCommandResults' = [hostCommandResults EXCEPT ![c] = eventSequence + 1]
                     /\ commandResults' = commandResults
           AuditLogged ==
             \E entry \in Action :
               /\ Log(entry) /\ entry.command = None
               /\ UNCHANGED <<commandResults, hostCommandResults>>
<1>0. 0..version \subseteq Nat
  BY DEF TypeOK
<1>1. ASSUME NEW b \in BindingId, NEW c \in CommandId, NEW v \in 0..version,
             NEW pending \in SUBSET Side, PlayCommand(b, c, v, pending)
      PROVE  CommandLogged
  <2> DEFINE entry == SeatEntry("play", b, c, v, pending)
  <2>1. entry \in Action /\ entry.command = c /\ entry.kind = "gameplay"
    BY <1>0, SeatEntryType DEF SeatEntry
  <2>2. QED
    BY <1>1, <2>1 DEF PlayCommand
<1>2. ASSUME NEW b \in BindingId, NEW c \in CommandId, NEW v \in 0..version, SurrenderSeat(b, c, v)
      PROVE  CommandLogged
  <2> DEFINE entry == SeatEntry("surrenderSeat", b, c, v, pendingChoice)
  <2>0. pendingChoice \in SUBSET Side
    BY DEF TypeOK
  <2>1. entry \in Action /\ entry.command = c /\ entry.kind = "gameplay"
    BY <1>0, <2>0, SeatEntryType DEF SeatEntry
  <2>2. QED
    BY <1>2, <2>1 DEF SurrenderSeat
<1>3. ASSUME NEW h \in BindingId, NEW c \in CommandId, NEW v \in 0..version,
             NEW name \in {"issueInvitation", "revokeInvitation", "deleteGame"},
             NEW subject \in Side \cup InvitationId \cup {None},
             HostCommand(h, c, v, name, subject)
      PROVE  CommandLogged
  <2> DEFINE entry == HostEntry(name, h, c, v, subject)
  <2>1. entry \in Action /\ entry.command = c /\ entry.kind = "host_management"
    BY <1>0, HostEntryType DEF HostEntry
  <2>2. QED
    BY <1>3, <2>1 DEF HostCommand
<1>4. ASSUME NEW g \in GrantId, NEW s \in Session, NEW b \in BindingId, RotateBinding(g, s, b)
      PROVE  AuditLogged
  <2> DEFINE entry == AuditEntry(g)
  <2>1. entry \in Action /\ entry.command = None
    BY AuditEntryType DEF AuditEntry
  <2>2. QED
    BY <1>4, <2>1 DEF RotateBinding, Audit
<1>5. ASSUME NEW h \in BindingId, NEW c \in CommandId, NEW v \in 0..version, NEW side \in Side,
             NEW i \in InvitationId, IssueInvitation(h, c, v, side, i)
      PROVE  CommandLogged
  BY <1>3, <1>5 DEF IssueInvitation
<1>6. ASSUME NEW h \in BindingId, NEW c \in CommandId, NEW v \in 0..version,
             NEW i \in InvitationId, RevokeInvitation(h, c, v, i)
      PROVE  CommandLogged
  BY <1>3, <1>6 DEF RevokeInvitation
<1>7. ASSUME NEW h \in BindingId, NEW c \in CommandId, NEW v \in 0..version, DeleteGame(h, c, v)
      PROVE  CommandLogged
  BY <1>3, <1>7 DEF DeleteGame
<1> HIDE DEF CommandLogged, AuditLogged
<1>8. ASSUME \/ \E side \in Side, s \in Session, h, b \in BindingId, i \in InvitationId :
                  CreateGame(side, s, h, b, i)
             \/ \E i \in InvitationId, s \in Session, b \in BindingId : ClaimInvitation(i, s, b)
             \/ \E i \in InvitationId : ReapExpiredClaim(i) \/ InvitationExpires(i)
             \/ \E role \in Role, g \in GrantId : IssueRecovery(role, g)
             \/ \E s \in Session : SessionExpires(s)
             \/ \E g \in GrantId : GrantExpires(g)
             \/ EraseExpiredSecrets
             \/ UNCHANGED vars
      PROVE  UNCHANGED <<eventSequence, actions, commandResults, hostCommandResults>>
  <2>1. ASSUME NEW side \in Side, NEW s \in Session, NEW h \in BindingId, NEW b \in BindingId,
               NEW i \in InvitationId, CreateGame(side, s, h, b, i)
        PROVE  UNCHANGED <<eventSequence, actions, commandResults, hostCommandResults>>
    BY <2>1 DEF CreateGame
  <2>2. ASSUME NEW i \in InvitationId, NEW s \in Session, NEW b \in BindingId, ClaimInvitation(i, s, b)
        PROVE  UNCHANGED <<eventSequence, actions, commandResults, hostCommandResults>>
    BY <2>2 DEF ClaimInvitation
  <2>3. ASSUME NEW i \in InvitationId, ReapExpiredClaim(i) \/ InvitationExpires(i)
        PROVE  UNCHANGED <<eventSequence, actions, commandResults, hostCommandResults>>
    BY <2>3 DEF ReapExpiredClaim, InvitationExpires
  <2>4. ASSUME NEW role \in Role, NEW g \in GrantId, IssueRecovery(role, g)
        PROVE  UNCHANGED <<eventSequence, actions, commandResults, hostCommandResults>>
    BY <2>4 DEF IssueRecovery
  <2>5. ASSUME NEW s \in Session, SessionExpires(s)
        PROVE  UNCHANGED <<eventSequence, actions, commandResults, hostCommandResults>>
    BY <2>5 DEF SessionExpires
  <2>6. ASSUME NEW g \in GrantId, GrantExpires(g)
        PROVE  UNCHANGED <<eventSequence, actions, commandResults, hostCommandResults>>
    BY <2>6 DEF GrantExpires
  <2>7. ASSUME EraseExpiredSecrets
        PROVE  UNCHANGED <<eventSequence, actions, commandResults, hostCommandResults>>
    BY <2>7 DEF EraseExpiredSecrets
  <2>8. ASSUME UNCHANGED vars
        PROVE  UNCHANGED <<eventSequence, actions, commandResults, hostCommandResults>>
    BY <2>8 DEF vars
  <2> QED BY <1>8, <2>1, <2>2, <2>3, <2>4, <2>5, <2>6, <2>7, <2>8
<1>9. ASSUME NEW g \in GrantId, NEW s \in Session, NEW b \in BindingId,
             NEW presented \in Session \cup {None},
             ClaimSeatRecovery(g, s, b, presented) \/ ClaimHostRecovery(g, s, b)
      PROVE  AuditLogged
  BY <1>4, <1>9 DEF ClaimSeatRecovery, ClaimHostRecovery
<1>10. \/ CommandLogged \/ AuditLogged \/ PurgeDeletedGame
       \/ UNCHANGED <<eventSequence, actions, commandResults, hostCommandResults>>
  BY <1>1, <1>2, <1>5, <1>6, <1>7, <1>8, <1>9 DEF Next
<1>11. QED
  BY <1>10 DEF CommandLogged, AuditLogged

\* The log counter is the length of the log.
LEMMA LogIsGaplessStep ==
  ASSUME TypeOK, LogIsGapless, [Next]_vars
  PROVE  LogIsGapless'
<1>1. CASE UNCHANGED <<eventSequence, actions>>
  BY <1>1 DEF LogIsGapless
<1>2. CASE PurgeDeletedGame
  BY <1>2 DEF PurgeDeletedGame, LogIsGapless
<1>3. QED
  BY <1>1, <1>2, LogCases, AppendedLog

\* A command has one entry at most, and the result its entry stored.
LEMMA CommandAppliesOnceStep ==
  ASSUME TypeOK, NoneAssumption, LogIsGapless, CommandAppliesOnce, [Next]_vars
  PROVE  CommandAppliesOnce'
<1>1. ASSUME NEW entry \in Action, NEW c \in CommandId,
             NewCommand(c), Log(entry), entry.command = c,
             \/ /\ entry.kind = "gameplay"
                /\ commandResults' = [commandResults EXCEPT ![c] = eventSequence + 1]
                /\ hostCommandResults' = hostCommandResults
             \/ /\ entry.kind = "host_management"
                /\ hostCommandResults' = [hostCommandResults EXCEPT ![c] = eventSequence + 1]
                /\ commandResults' = commandResults
      PROVE  CommandAppliesOnce'
  <2>1. ASSUME NEW n \in DOMAIN actions PROVE actions[n].command # c
    <3>1. n >= 1
      BY <1>1, AppendedLog DEF TypeOK
    <3>2. QED
      BY <1>1, <3>1 DEF CommandAppliesOnce, NewCommand
  <2>2. /\ commandResults \in [CommandId -> Nat] /\ hostCommandResults \in [CommandId -> Nat]
        /\ commandResults[c] = 0 /\ hostCommandResults[c] = 0
    BY <1>1 DEF TypeOK, NewCommand
  <2>3. QED
    BY <1>1, <2>1, <2>2, AppendedLog DEF CommandAppliesOnce
<1>2. ASSUME NEW entry \in Action, Log(entry), entry.command = None,
             UNCHANGED <<commandResults, hostCommandResults>>
      PROVE  CommandAppliesOnce'
  BY <1>2, AppendedLog, NoneAssumption DEF CommandAppliesOnce
<1>3. CASE UNCHANGED <<actions, commandResults, hostCommandResults>>
  BY <1>3 DEF CommandAppliesOnce
<1>4. CASE PurgeDeletedGame
  BY <1>4 DEF PurgeDeletedGame, CommandAppliesOnce
<1>5. QED
  BY <1>1, <1>2, <1>3, <1>4, LogCases

\* The relation that HandoverIsLogged demands of every step.
SeatHandover ==
  \A side \in Side :
    SeatHolder(side) # {} /\ SeatHolder(side)' # SeatHolder(side) =>
      /\ eventSequence' = eventSequence + 1
      /\ LET entry == actions'[eventSequence'] IN
         \/ entry.name = "surrenderSeat" /\ entry.binding \in SeatHolder(side)
         \/ /\ entry.name = "operatorRecovery"
            /\ grants[entry.subject].oldBinding \in SeatHolder(side)
         \/ entry.name = "deleteGame"

LEMMA SeatHandoverStep ==
  ASSUME TypeOK, GrantsNameBindings, OnlyLiveGamesBind, LogIsGapless, [Next]_vars
  PROVE  SeatHandover
<1>1. SUFFICES ASSUME NEW side \in Side, SeatHolder(side) # {},
                      SeatHolder(side)' # SeatHolder(side)
      PROVE  /\ eventSequence' = eventSequence + 1
             /\ LET entry == actions'[eventSequence + 1] IN
                \/ entry.name = "surrenderSeat" /\ entry.binding \in SeatHolder(side)
                \/ /\ entry.name = "operatorRecovery"
                   /\ grants[entry.subject].oldBinding \in SeatHolder(side)
                \/ entry.name = "deleteGame"
  BY DEF SeatHandover
<1>2. PICK holder \in BindingId : bindings[holder].status = "active" /\ bindings[holder].role = side
  BY <1>1 DEF SeatHolder, IsActive
<1>3. PICK x \in BindingId :
         ~ ((bindings[x].status = "active" /\ bindings[x].role = side)
              <=> (bindings'[x].status = "active" /\ bindings'[x].role = side))
  BY <1>1 DEF SeatHolder, IsActive
<1>4. ASSUME NEW s1 \in Side, NEW s \in Session, NEW h \in BindingId,
             NEW b \in BindingId, NEW i \in InvitationId, CreateGame(s1, s, h, b, i)
      PROVE  FALSE
  BY <1>2, <1>4, CreateBindings DEF OnlyLiveGamesBind
<1>5. ASSUME NEW i \in InvitationId, NEW s \in Session, NEW b \in BindingId,
             ClaimInvitation(i, s, b)
      PROVE  FALSE
  <2>1. invitations[i].seat # side
    BY <1>2, <1>5 DEF ClaimInvitation, SeatVacant, IsActive
  <2>2. QED
    BY <1>3, <1>5, <2>1, ClaimBindings
<1>6. ASSUME NEW b \in BindingId, NEW c \in CommandId, NEW v \in 0..version,
             SurrenderSeat(b, c, v)
      PROVE  /\ eventSequence' = eventSequence + 1
             /\ actions'[eventSequence + 1].name = "surrenderSeat"
             /\ actions'[eventSequence + 1].binding \in SeatHolder(side)
  <2> DEFINE entry == SeatEntry("surrenderSeat", b, c, v, pendingChoice)
  <2>0. v \in Nat /\ pendingChoice \in SUBSET Side
    BY DEF TypeOK
  <2>1. entry \in Action /\ entry.name = "surrenderSeat" /\ entry.binding = b
    BY <2>0, SeatEntryType DEF SeatEntry
  <2>2. eventSequence' = eventSequence + 1 /\ actions'[eventSequence + 1] = entry
    BY <1>6, <2>1, AppendedLog DEF SurrenderSeat
  <2>3. bindings[b].status = "active" /\ bindings[b].role = side
    BY <1>3, <1>6, <2>0, SurrenderBindings
  <2>4. QED
    BY <2>1, <2>2, <2>3 DEF SeatHolder, IsActive
<1>7. ASSUME NEW g \in GrantId, NEW s \in Session, NEW b \in BindingId, RotateBinding(g, s, b)
      PROVE  /\ eventSequence' = eventSequence + 1
             /\ actions'[eventSequence + 1].name = "operatorRecovery"
             /\ grants[actions'[eventSequence + 1].subject].oldBinding \in SeatHolder(side)
  <2> DEFINE entry == AuditEntry(g)
  <2>1. entry \in Action /\ entry.name = "operatorRecovery" /\ entry.subject = g
    BY AuditEntryType DEF AuditEntry
  <2>2. eventSequence' = eventSequence + 1 /\ actions'[eventSequence + 1] = entry
    BY <1>7, <2>1, AppendedLog DEF RotateBinding, Audit
  <2> DEFINE old == grants[g].oldBinding
  <2>3. old \in BindingId /\ bindings[old].status = "active" /\ bindings[old].role = side
    BY <1>3, <1>7, RotateBindings
  <2>4. QED
    BY <2>1, <2>2, <2>3 DEF SeatHolder, IsActive
<1>8. ASSUME NEW h \in BindingId, NEW c \in CommandId, NEW v \in 0..version, DeleteGame(h, c, v)
      PROVE  /\ eventSequence' = eventSequence + 1
             /\ actions'[eventSequence + 1].name = "deleteGame"
  <2> DEFINE entry == HostEntry("deleteGame", h, c, v, None)
  <2>0. v \in Nat
    BY DEF TypeOK
  <2>1. entry \in Action /\ entry.name = "deleteGame"
    BY <2>0, HostEntryType DEF HostEntry
  <2>2. QED
    BY <1>8, <2>1, AppendedLog DEF DeleteGame, HostCommand
<1>9. CASE Quiet \/ PurgeDeletedGame \/ \E s \in Session : SessionExpires(s)
  BY <1>3, <1>9, QuietBindings
<1>10. QED
  BY <1>4, <1>5, <1>6, <1>7, <1>8, <1>9, AuthorityCases

-----------------------------------------------------------------------------
(* The theorems.                                                           *)

LEMMA InitIInv == Init => IInv
<1> SUFFICES ASSUME Init PROVE IInv
  OBVIOUS
<1>1. TypeOK /\ GrantsNameBindings
  BY InitTypeOK DEF Init, NoGrant, GrantsNameBindings
<1>2. /\ OnlyLiveGamesBind /\ OnlyLiveGamesInvite /\ BindingsHaveSessions
      /\ SeatsExclusive /\ HostIsUnique
  BY DEF Init, NoBinding, NoGrant, NoInvitation, OnlyLiveGamesBind, OnlyLiveGamesInvite,
         BindingsHaveSessions, SeatsExclusive, HostIsUnique, IsActive
<1>3. /\ GrantsMatchBindings /\ InvitationsAreIssued /\ SecretsOnlyWhileOpen
      /\ SealedClaimsAreActive /\ RecoveriesAreFresh /\ DeletedGameIsInert
  BY DEF Init, NoInvitation, GrantsMatchBindings, InvitationsAreIssued, SecretsOnlyWhileOpen,
         SealedClaimsAreActive, RecoveriesAreFresh, DeletedGameIsInert
<1>4. LogIsGapless /\ CommandAppliesOnce
  BY DEF Init, LogIsGapless, CommandAppliesOnce
<1>5. QED
  BY <1>1, <1>2, <1>3, <1>4 DEF IInv

LEMMA StepIInv == IInv /\ [Next]_vars => IInv'
<1> SUFFICES ASSUME IInv, [Next]_vars PROVE IInv'
  OBVIOUS
<1> USE NoneAssumption DEF IInv
<1>1. TypeOK' /\ GrantsNameBindings'
  BY TypeStep, GrantsNameBindingsStep
<1>2. OnlyLiveGamesBind' /\ OnlyLiveGamesInvite' /\ BindingsHaveSessions'
  BY OnlyLiveGamesBindStep, OnlyLiveGamesInviteStep, BindingsHaveSessionsStep
<1>3. GrantsMatchBindings' /\ SeatsExclusive' /\ HostIsUnique'
  BY GrantsMatchBindingsStep, SeatsExclusiveStep, HostIsUniqueStep
<1>4. InvitationsAreIssued' /\ SecretsOnlyWhileOpen' /\ SealedClaimsAreActive'
  BY InvitationsAreIssuedStep, SecretsOnlyWhileOpenStep, SealedClaimsAreActiveStep
<1>5. RecoveriesAreFresh' /\ DeletedGameIsInert'
  BY <1>1, <1>2, RecoveriesAreFreshStep, DeletedGameIsInertStep
<1>6. LogIsGapless' /\ CommandAppliesOnce'
  BY LogIsGaplessStep, CommandAppliesOnceStep
<1>7. QED
  BY <1>1, <1>2, <1>3, <1>4, <1>5, <1>6

\* The invariant the properties are conjuncts or consequences of.
THEOREM Invariance == Spec => []IInv
<1>1. QED
  BY InitIInv, StepIInv, PTL DEF Spec

\* However claims, surrenders and recoveries interleave, a side has one active
\* binding at most and a session one active seat at most.
THEOREM SeatsStayExclusive == Spec => []SeatsExclusive
<1>1. IInv => SeatsExclusive
  BY DEF IInv
<1>2. QED
  BY <1>1, Invariance, PTL

\* Whichever of several recovery grants is claimed, an active game has one host.
THEOREM HostStaysUnique == Spec => []HostIsUnique
<1>1. IInv => HostIsUnique
  BY DEF IInv
<1>2. QED
  BY <1>1, Invariance, PTL

\* No command identifier is applied twice, across both kinds of command, and the
\* stored result is the position of its one entry.
THEOREM CommandsApplyOnce == Spec => []CommandAppliesOnce
<1>1. IInv => CommandAppliesOnce
  BY DEF IInv
<1>2. QED
  BY <1>1, Invariance, PTL

\* A deleted game keeps no active binding, no open invitation, no secret and no
\* usable grant, through expiries and the purge.
THEOREM DeletedGamesAreInert == Spec => []DeletedGameIsInert
<1>1. IInv => DeletedGameIsInert
  BY DEF IInv
<1>2. QED
  BY <1>1, Invariance, PTL

\* No invitation secret outlives its claim or its revocation.
THEOREM SecretsAreForgotten == Spec => []SecretsOnlyWhileOpen
<1>1. IInv => SecretsOnlyWhileOpen
  BY DEF IInv
<1>2. QED
  BY <1>1, Invariance, PTL

\* A retried claim of an invitation or a recovery grant can be answered only
\* with the binding that the original claim made.
THEOREM RetriesOwnTheirBinding == Spec => []RetriedClaimOwnsItsBinding
<1>1. IInv => RetriedClaimOwnsItsBinding
  BY RetriesMatchOwn, NoneAssumption DEF IInv
<1>2. QED
  BY <1>1, Invariance, PTL

\* Every change of an occupied seat is the surrender, the audited recovery or
\* the deletion that the log records for that very step.
THEOREM HandoversAreLogged == Spec => HandoverIsLogged
<1>1. IInv /\ [Next]_vars => [SeatHandover]_vars
  BY SeatHandoverStep DEF IInv
<1>2. Spec => [][SeatHandover]_vars
  BY <1>1, Invariance, PTL DEF Spec
<1>3. QED
  BY <1>2 DEF HandoverIsLogged, SeatHandover


\* One host, one holder of each side, one seat for each session, whatever is claimed.
THEOREM BindingsStayExclusive == Spec => []BindingsAreExclusive
<1>1. QED
  BY SeatsStayExclusive, HostStaysUnique, PTL DEF BindingsAreExclusive

\* Deletion ends everything that was handed out, claim and revocation every secret.
THEOREM NothingOutlives == Spec => []NothingOutlivesItsUse
<1>1. QED
  BY DeletedGamesAreInert, SecretsAreForgotten, PTL DEF NothingOutlivesItsUse

-----------------------------------------------------------------------------
(* The history of a live game passes its replay: the dates of bindings and *)
(* invitations lie where the log puts them, and no later step changes what *)
(* the validator reads of an earlier entry.                                *)

\* What a step of a live game leaves of the dates of its bindings.
BindingKept(b) ==
  /\ bindings'[b].status # "none"
  /\ bindings'[b].role = bindings[b].role
  /\ bindings'[b].version = bindings[b].version
  /\ bindings'[b].activeAfter = bindings[b].activeAfter
  /\ \/ /\ bindings'[b].status = bindings[b].status
        /\ bindings'[b].inactiveFrom = bindings[b].inactiveFrom
     \/ /\ bindings[b].status = "active" /\ bindings'[b].status = "revoked"
        /\ eventSequence < bindings'[b].inactiveFrom
        /\ bindings'[b].inactiveFrom <= eventSequence' + 1
        /\ eventSequence' = eventSequence + 1

BindingBegun(b) ==
  /\ bindings'[b].status = "active"
  /\ bindings'[b].activeAfter = eventSequence'
  /\ bindings'[b].inactiveFrom = 0

\* The dates that a claim, a surrender and a recovery write.
LEMMA ClaimDates ==
  ASSUME TypeOK, NEW i \in InvitationId, NEW s \in Session, NEW b \in BindingId,
         ClaimInvitation(i, s, b)
  PROVE  /\ eventSequence' = eventSequence
         /\ bindings'[b].activeAfter = eventSequence
         /\ bindings'[b].inactiveFrom = 0
<1>1. bindings'[b] = NewBinding(invitations[i].seat, s, 1, eventSequence)
  BY DEF ClaimInvitation, TypeOK
<1>2. QED
  BY <1>1 DEF ClaimInvitation, NewBinding

LEMMA SurrenderDates ==
  ASSUME TypeOK, NEW b \in BindingId, NEW c \in CommandId, NEW v \in Nat,
         SurrenderSeat(b, c, v)
  PROVE  /\ eventSequence' = eventSequence + 1
         /\ bindings'[b].activeAfter = bindings[b].activeAfter
         /\ bindings'[b].inactiveFrom = eventSequence + 2
<1>1. bindings[b] \in Binding
  BY DEF TypeOK
<1>2. eventSequence' = eventSequence + 1
  BY DEF SurrenderSeat, Log
<1>3. QED
  BY <1>1, <1>2 DEF SurrenderSeat, SurrenderRetiresAt, TypeOK, Binding

LEMMA RotateDates ==
  ASSUME TypeOK, GrantsNameBindings, NEW g \in GrantId, NEW s \in Session,
         NEW b \in BindingId, RotateBinding(g, s, b)
  PROVE  LET old == grants[g].oldBinding IN
         /\ eventSequence' = eventSequence + 1
         /\ bindings'[old].activeAfter = bindings[old].activeAfter
         /\ bindings'[old].inactiveFrom = eventSequence + 1
         /\ bindings'[b].activeAfter = eventSequence + 1
         /\ bindings'[b].inactiveFrom = 0
<1> DEFINE old == grants[g].oldBinding
<1>1. old \in BindingId /\ old # b
  BY RotateBindings
<1>2. bindings[old] \in Binding
  BY <1>1 DEF TypeOK
<1>3. bindings'[b] = NewBinding(bindings[old].role, s, bindings[old].version + 1, eventSequence + 1)
  BY <1>1 DEF RotateBinding, TypeOK
<1>4. eventSequence' = eventSequence + 1
  BY DEF RotateBinding, Audit, Log
<1>5. /\ bindings'[old].activeAfter = bindings[old].activeAfter
      /\ bindings'[old].inactiveFrom = eventSequence + 1
  BY <1>1, <1>2 DEF RotateBinding, TypeOK, Binding
<1>6. QED
  BY <1>3, <1>4, <1>5 DEF NewBinding

\* A live game's sequence advances by at most one, and its log by that entry.
LEMMA SequenceMoves ==
  ASSUME TypeOK, [Next]_vars, status = "active"
  PROVE  /\ eventSequence' \in {eventSequence, eventSequence + 1}
         /\ eventSequence' = eventSequence => actions' = actions
<1>1. ~PurgeDeletedGame
  BY DEF PurgeDeletedGame
<1>2. QED
  BY <1>1, LogCases DEF Log, TypeOK

LEMMA BindingsKept ==
  ASSUME TypeOK, GrantsNameBindings, [Next]_vars, status = "active", status' = "active",
         NEW x \in BindingId
  PROVE  IF bindings[x].status # "none"
           THEN BindingKept(x)
           ELSE bindings'[x].status # "none" => BindingBegun(x)
<1>0. bindings[x].status \in {"none", "active", "revoked"}
  BY DEF TypeOK, Binding
<1>1. CASE bindings' = bindings
  BY <1>1 DEF BindingKept
<1>2. ASSUME NEW i \in InvitationId, NEW s \in Session, NEW b \in BindingId,
             ClaimInvitation(i, s, b)
      PROVE  IF bindings[x].status # "none"
               THEN BindingKept(x)
               ELSE bindings'[x].status # "none" => BindingBegun(x)
  BY <1>2, ClaimBindings, ClaimDates DEF BindingKept, BindingBegun
<1>3. ASSUME NEW b \in BindingId, NEW c \in CommandId, NEW v \in 0..version,
             SurrenderSeat(b, c, v)
      PROVE  IF bindings[x].status # "none"
               THEN BindingKept(x)
               ELSE bindings'[x].status # "none" => BindingBegun(x)
  <2>1. v \in Nat /\ eventSequence \in Nat
    BY DEF TypeOK
  <2>2. CASE x = b
    BY <1>3, <2>1, <2>2, SurrenderBindings, SurrenderDates DEF BindingKept
  <2>3. CASE x # b
    BY <1>3, <2>1, <2>3, SurrenderBindings DEF BindingKept
  <2> QED BY <2>2, <2>3
<1>4. ASSUME NEW g \in GrantId, NEW s \in Session, NEW b \in BindingId, RotateBinding(g, s, b)
      PROVE  IF bindings[x].status # "none"
               THEN BindingKept(x)
               ELSE bindings'[x].status # "none" => BindingBegun(x)
  <2>1. eventSequence \in Nat
    BY DEF TypeOK
  <2>2. CASE x = grants[g].oldBinding
    BY <1>4, <2>1, <2>2, RotateBindings, RotateDates DEF BindingKept
  <2>3. CASE x = b
    BY <1>4, <2>1, <2>3, RotateBindings, RotateDates DEF BindingBegun
  <2>4. CASE x # b /\ x # grants[g].oldBinding
    BY <1>4, <2>4, RotateBindings DEF BindingKept
  <2> QED BY <2>2, <2>3, <2>4
<1>5. ASSUME NEW h \in BindingId, NEW c \in CommandId, NEW v \in 0..version, DeleteGame(h, c, v)
      PROVE  FALSE
  <2>1. v \in Nat
    BY DEF TypeOK
  <2> QED BY <1>5, <2>1, DeleteBindings
<1>6. ASSUME NEW side \in Side, NEW s \in Session, NEW h \in BindingId, NEW b \in BindingId,
             NEW i \in InvitationId, CreateGame(side, s, h, b, i)
      PROVE  FALSE
  BY <1>6, CreateBindings
<1> QED
  BY <1>1, <1>2, <1>3, <1>4, <1>5, <1>6, AuthorityCases, QuietBindings

\* A new binding has its part of the game after every other one that had it.
LEMMA NewcomerFollows ==
  ASSUME TypeOK, GrantsNameBindings, BindingsHaveSessions, SeatsExclusive, HostIsUnique,
         BindingsDated, InvitationsAreIssued,
         [Next]_vars, status = "active", status' = "active",
         NEW x \in BindingId, NEW y \in BindingId, x # y,
         bindings[y].status = "none", bindings'[y].status # "none",
         bindings'[x].status # "none", bindings'[x].role = bindings'[y].role
  PROVE  Precedes(x, y)'
<1>0. bindings[x].status \in {"none", "active", "revoked"} /\ eventSequence \in Nat
      /\ bindings[x].inactiveFrom \in Nat
  BY DEF TypeOK, Binding
<1>1. bindings' # bindings
  OBVIOUS
<1>2. ASSUME NEW i \in InvitationId, NEW s \in Session, NEW b \in BindingId,
             ClaimInvitation(i, s, b)
      PROVE  Precedes(x, y)'
  <2>1. b = y /\ bindings'[x] = bindings[x]
    BY <1>2, ClaimBindings
  <2>5. bindings[x].role = invitations[i].seat
    BY <1>2, <2>1, ClaimBindings
  <2>2. bindings[x].role = invitations[i].seat /\ SeatVacant(invitations[i].seat)
    BY <1>2, <2>5 DEF ClaimInvitation
  <2>3. bindings[x].status = "revoked"
    BY <1>0, <2>1, <2>2 DEF SeatVacant, IsActive
  <2>4. bindings[x].inactiveFrom <= eventSequence + 1
    BY <2>3 DEF BindingsDated, Issued, IsActive
  <2> QED BY <1>0, <1>2, <2>1, <2>3, <2>4, ClaimDates DEF Precedes
<1>3. ASSUME NEW b \in BindingId, NEW c \in CommandId, NEW v \in 0..version,
             SurrenderSeat(b, c, v)
      PROVE  FALSE
  <2>1. v \in Nat
    BY DEF TypeOK
  <2> QED BY <1>3, <2>1, SurrenderBindings
<1>4. ASSUME NEW g \in GrantId, NEW s \in Session, NEW b \in BindingId, RotateBinding(g, s, b)
      PROVE  Precedes(x, y)'
  <2> DEFINE old == grants[g].oldBinding
  <2>1. b = y /\ old # y /\ old \in BindingId /\ bindings[old].status = "active"
    BY <1>4, RotateBindings
  <2>2. CASE x = old
    BY <1>0, <1>4, <2>1, <2>2, RotateBindings, RotateDates DEF Precedes
  <2>3. CASE x # old
    <3>1. bindings'[x] = bindings[x] /\ bindings[x].role = bindings[old].role
      BY <1>4, <2>1, <2>3, RotateBindings
    <3>2. bindings[old].role \in Role
      BY <2>1 DEF BindingsHaveSessions
    <3>3. bindings[x].status = "revoked"
      BY <1>0, <2>1, <2>3, <3>1, <3>2 DEF SeatsExclusive, HostIsUnique, IsActive
    <3>4. bindings[x].inactiveFrom <= eventSequence + 1
      BY <3>3 DEF BindingsDated, Issued, IsActive
    <3> QED BY <1>0, <1>4, <2>1, <3>1, <3>3, <3>4, RotateDates DEF Precedes
  <2> QED BY <2>2, <2>3
<1>5. ASSUME NEW h \in BindingId, NEW c \in CommandId, NEW v \in 0..version, DeleteGame(h, c, v)
      PROVE  FALSE
  <2>1. v \in Nat
    BY DEF TypeOK
  <2> QED BY <1>5, <2>1, DeleteBindings
<1>6. ASSUME NEW side \in Side, NEW s \in Session, NEW h \in BindingId, NEW b \in BindingId,
             NEW i \in InvitationId, CreateGame(side, s, h, b, i)
      PROVE  FALSE
  BY <1>6, CreateBindings
<1> QED
  BY <1>1, <1>2, <1>3, <1>4, <1>5, <1>6, AuthorityCases, QuietBindings

LEMMA BindingsDatedStep ==
  ASSUME TypeOK, TypeOK', GrantsNameBindings, BindingsDated, [Next]_vars,
         status = "active", status' = "active"
  PROVE  BindingsDated'
<1>1. SUFFICES ASSUME NEW x \in BindingId, bindings'[x].status # "none"
               PROVE  /\ bindings'[x].activeAfter <= eventSequence'
                      /\ IF bindings'[x].status = "active"
                           THEN bindings'[x].inactiveFrom = 0
                           ELSE /\ bindings'[x].activeAfter < bindings'[x].inactiveFrom
                                /\ bindings'[x].inactiveFrom <= eventSequence' + 1
  BY DEF BindingsDated, Issued, IsActive
<1>2. /\ eventSequence \in Nat /\ eventSequence' \in Nat
      /\ eventSequence <= eventSequence'
      /\ bindings[x].activeAfter \in Nat /\ bindings[x].inactiveFrom \in Nat
      /\ bindings'[x].activeAfter \in Nat /\ bindings'[x].inactiveFrom \in Nat
  <2>1. bindings[x] \in Binding /\ bindings'[x] \in Binding
    BY DEF TypeOK
  <2>2. eventSequence \in Nat /\ eventSequence' \in Nat
    BY DEF TypeOK
  <2>3. eventSequence' \in {eventSequence, eventSequence + 1}
    BY SequenceMoves
  <2>4. QED BY <2>1, <2>2, <2>3 DEF Binding
<1>3. CASE bindings[x].status = "none"
  <2>1. BindingBegun(x)
    BY <1>1, <1>3, BindingsKept
  <2> QED BY <1>2, <2>1 DEF BindingBegun
<1>4. CASE bindings[x].status # "none"
  <2>1. BindingKept(x)
    BY <1>4, BindingsKept
  <2>2. /\ bindings[x].activeAfter <= eventSequence
        /\ IF bindings[x].status = "active"
             THEN bindings[x].inactiveFrom = 0
             ELSE /\ bindings[x].activeAfter < bindings[x].inactiveFrom
                  /\ bindings[x].inactiveFrom <= eventSequence + 1
    BY <1>4 DEF BindingsDated, Issued, IsActive
  <2>3. CASE /\ bindings'[x].status = bindings[x].status
             /\ bindings'[x].inactiveFrom = bindings[x].inactiveFrom
    BY <1>2, <2>1, <2>2, <2>3 DEF BindingKept
  <2>4. CASE ~(/\ bindings'[x].status = bindings[x].status
               /\ bindings'[x].inactiveFrom = bindings[x].inactiveFrom)
    BY <1>2, <2>1, <2>2, <2>4 DEF BindingKept
  <2> QED BY <2>3, <2>4
<1> QED BY <1>3, <1>4

LEMMA TimelineStep ==
  ASSUME TypeOK, TypeOK', GrantsNameBindings, BindingsHaveSessions, SeatsExclusive, HostIsUnique,
         BindingsDated, InvitationsAreIssued, Timeline,
         [Next]_vars, status = "active", status' = "active"
  PROVE  Timeline'
<1>1. SUFFICES ASSUME NEW x \in BindingId, NEW y \in BindingId, x # y,
                      bindings'[x].status # "none", bindings'[y].status # "none",
                      bindings'[x].role = bindings'[y].role
               PROVE  NeverActs(x)' \/ NeverActs(y)' \/ Precedes(x, y)' \/ Precedes(y, x)'
  BY DEF Timeline, Issued
<1>2. CASE bindings[y].status = "none"
  BY <1>1, <1>2, NewcomerFollows
<1>3. CASE bindings[x].status = "none"
  BY <1>1, <1>3, NewcomerFollows
<1>4. CASE bindings[x].status # "none" /\ bindings[y].status # "none"
  <2>1. BindingKept(x) /\ BindingKept(y)
    BY <1>4, BindingsKept
  <2>2. NeverActs(x) \/ NeverActs(y) \/ Precedes(x, y) \/ Precedes(y, x)
    BY <1>1, <1>4, <2>1 DEF Timeline, Issued, BindingKept
  <2>3. NeverActs(x) => NeverActs(x)'
    BY <2>1 DEF NeverActs, BindingKept
  <2>4. NeverActs(y) => NeverActs(y)'
    BY <2>1 DEF NeverActs, BindingKept
  <2>5. Precedes(x, y) => Precedes(x, y)'
    BY <2>1 DEF Precedes, BindingKept
  <2>6. Precedes(y, x) => Precedes(y, x)'
    BY <2>1 DEF Precedes, BindingKept
  <2> QED BY <2>2, <2>3, <2>4, <2>5, <2>6
<1> QED BY <1>2, <1>3, <1>4

\* What a step of a live game leaves of the dates of an invitation.
InvitationKept(i) ==
  /\ invitations'[i].issued
  /\ invitations'[i].seat = invitations[i].seat
  /\ invitations'[i].activeAfter = invitations[i].activeAfter
  /\ invitations[i].claimed =>
       invitations'[i].claimed /\ invitations'[i].claimedAfter = invitations[i].claimedAfter
  /\ invitations[i].revoked =>
       invitations'[i].revoked /\ invitations'[i].revokedAt = invitations[i].revokedAt
  /\ invitations'[i].claimed /\ ~invitations[i].claimed =>
       /\ ~invitations[i].revoked /\ ~invitations'[i].revoked
       /\ invitations'[i].claimedAfter = eventSequence
       /\ eventSequence' = eventSequence
  /\ invitations'[i].revoked /\ ~invitations[i].revoked =>
       /\ ~invitations[i].claimed /\ ~invitations'[i].claimed
       /\ invitations'[i].revokedAt = eventSequence + 1
       /\ eventSequence' = eventSequence + 1

InvitationBegun(i) ==
  /\ ~invitations'[i].claimed /\ ~invitations'[i].revoked
  /\ invitations'[i].activeAfter = eventSequence + 1
  /\ eventSequence' = eventSequence + 1

\* The steps of a live game that touch its invitations.
LEMMA LiveInvitationSteps ==
  ASSUME TypeOK, GrantsNameBindings, [Next]_vars, status = "active", status' = "active"
  PROVE  \/ UNCHANGED invitations
         \/ \E i \in InvitationId, s \in Session, b \in BindingId : ClaimInvitation(i, s, b)
         \/ \E i \in InvitationId : ReapExpiredClaim(i) \/ InvitationExpires(i)
         \/ \E b \in BindingId, c \in CommandId, v \in Nat : SurrenderSeat(b, c, v)
         \/ \E h \in BindingId, c \in CommandId, v \in Nat, side \in Side, i \in InvitationId :
              IssueInvitation(h, c, v, side, i)
         \/ \E h \in BindingId, c \in CommandId, v \in Nat, i \in InvitationId :
              RevokeInvitation(h, c, v, i)
         \/ \E g \in GrantId, s \in Session, b \in BindingId, presented \in Session \cup {None} :
              ClaimSeatRecovery(g, s, b, presented)
         \/ EraseExpiredSecrets
<1>1. 0..version \subseteq Nat
  BY DEF TypeOK
<1>2. ASSUME NEW side \in Side, NEW s \in Session, NEW h \in BindingId, NEW b \in BindingId,
             NEW i \in InvitationId, CreateGame(side, s, h, b, i)
      PROVE  FALSE
  BY <1>2, CreateBindings
<1>3. ASSUME NEW h \in BindingId, NEW c \in CommandId, NEW v \in 0..version, DeleteGame(h, c, v)
      PROVE  FALSE
  BY <1>1, <1>3, DeleteBindings
<1>4. ~PurgeDeletedGame
  BY DEF PurgeDeletedGame
<1>5. ASSUME NEW b \in BindingId, NEW c \in CommandId, NEW v \in 0..version,
             NEW pending \in SUBSET Side, PlayCommand(b, c, v, pending)
      PROVE  UNCHANGED invitations
  BY <1>5 DEF PlayCommand
<1>6. ASSUME NEW role \in Role, NEW g \in GrantId, IssueRecovery(role, g)
      PROVE  UNCHANGED invitations
  BY <1>6 DEF IssueRecovery
<1>7. ASSUME NEW g \in GrantId, NEW s \in Session, NEW b \in BindingId, ClaimHostRecovery(g, s, b)
      PROVE  UNCHANGED invitations
  BY <1>7 DEF ClaimHostRecovery
<1>8. ASSUME NEW s \in Session, SessionExpires(s) PROVE UNCHANGED invitations
  BY <1>8 DEF SessionExpires
<1>9. ASSUME NEW g \in GrantId, GrantExpires(g) PROVE UNCHANGED invitations
  BY <1>9 DEF GrantExpires
<1>10. CASE UNCHANGED vars
  BY <1>10 DEF vars
<1>11. CASE Next
  BY <1>1, <1>2, <1>3, <1>4, <1>5, <1>6, <1>7, <1>8, <1>9, <1>11 DEF Next
<1> QED BY <1>10, <1>11

LEMMA InvitationsKept ==
  ASSUME TypeOK, GrantsNameBindings, [Next]_vars, status = "active", status' = "active",
         NEW x \in InvitationId
  PROVE  IF invitations[x].issued
           THEN InvitationKept(x)
           ELSE invitations'[x].issued => InvitationBegun(x)
<1> DEFINE Kept == IF invitations[x].issued
                     THEN InvitationKept(x)
                     ELSE invitations'[x].issued => InvitationBegun(x)
<1>0. invitations[x] \in Invitation /\ eventSequence \in Nat
  BY DEF TypeOK
<1>1. CASE invitations'[x] = invitations[x]
  BY <1>1 DEF InvitationKept
<1>2. ASSUME NEW i \in InvitationId, NEW s \in Session, NEW b \in BindingId,
             ClaimInvitation(i, s, b)
      PROVE  Kept
  <2>1. CASE x = i
    BY <1>0, <1>2, <2>1 DEF ClaimInvitation, Claimable, TypeOK, Invitation, InvitationKept
  <2>2. CASE x # i
    BY <1>1, <1>2, <2>2 DEF ClaimInvitation, TypeOK
  <2> QED BY <2>1, <2>2
<1>3. ASSUME NEW i \in InvitationId, ReapExpiredClaim(i) \/ InvitationExpires(i)
      PROVE  Kept
  <2>1. invitations'[x] \in {invitations[x], [invitations[x] EXCEPT !.sealed = None],
                             [invitations[x] EXCEPT !.expired = TRUE]}
    BY <1>3 DEF ReapExpiredClaim, InvitationExpires, TypeOK
  <2> QED BY <1>0, <2>1 DEF Invitation, InvitationKept
<1>4. ASSUME NEW b \in BindingId, NEW c \in CommandId, NEW v \in Nat, SurrenderSeat(b, c, v)
      PROVE  Kept
  <2>1. eventSequence' = eventSequence + 1
    BY <1>4, SurrenderDates
  <2>2. invitations'[x] \in {invitations[x], SurrenderedInvitation(x)}
    BY <1>4 DEF SurrenderSeat
  <2>3. invitations[x].issued \/ invitations'[x] = invitations[x]
    BY <1>4 DEF SurrenderSeat
  <2>4. /\ SurrenderedInvitation(x).issued = invitations[x].issued
        /\ SurrenderedInvitation(x).seat = invitations[x].seat
        /\ SurrenderedInvitation(x).activeAfter = invitations[x].activeAfter
        /\ SurrenderedInvitation(x).claimed = invitations[x].claimed
        /\ SurrenderedInvitation(x).claimedAfter = invitations[x].claimedAfter
        /\ SurrenderedInvitation(x).revoked = (invitations[x].revoked \/ ~invitations[x].claimed)
        /\ SurrenderedInvitation(x).revokedAt =
             IF invitations[x].claimed \/ invitations[x].revoked
               THEN invitations[x].revokedAt ELSE eventSequence + 1
    BY <1>0 DEF SurrenderedInvitation, Invitation
  <2> QED BY <1>0, <1>1, <2>1, <2>2, <2>3, <2>4 DEF InvitationKept
<1>5. ASSUME NEW h \in BindingId, NEW c \in CommandId, NEW v \in Nat, NEW side \in Side,
             NEW i \in InvitationId, IssueInvitation(h, c, v, side, i)
      PROVE  Kept
  <2>1. CASE x = i
    <3>1. invitations'[x] = NewInvitation(side, eventSequence + 1) /\ ~invitations[x].issued
      BY <1>5, <2>1 DEF IssueInvitation, TypeOK
    <3>2. eventSequence' = eventSequence + 1
      BY <1>5 DEF IssueInvitation, HostCommand, Log
    <3> QED BY <3>1, <3>2 DEF NewInvitation, NoInvitation, InvitationBegun
  <2>2. CASE x # i
    BY <1>1, <1>5, <2>2 DEF IssueInvitation, TypeOK
  <2> QED BY <2>1, <2>2
<1>6. ASSUME NEW h \in BindingId, NEW c \in CommandId, NEW v \in Nat, NEW i \in InvitationId,
             RevokeInvitation(h, c, v, i)
      PROVE  Kept
  <2>1. CASE x = i
    <3>1. invitations'[x] = RevokedInvitation(x) /\ Claimable(x)
      BY <1>6, <2>1 DEF RevokeInvitation, TypeOK
    <3>2. eventSequence' = eventSequence + 1
      BY <1>6 DEF RevokeInvitation, HostCommand, Log
    <3> QED BY <1>0, <3>1, <3>2 DEF Claimable, RevokedInvitation, Invitation, InvitationKept
  <2>2. CASE x # i
    BY <1>1, <1>6, <2>2 DEF RevokeInvitation, TypeOK
  <2> QED BY <2>1, <2>2
<1>7. ASSUME NEW g \in GrantId, NEW s \in Session, NEW b \in BindingId,
             NEW presented \in Session \cup {None}, ClaimSeatRecovery(g, s, b, presented)
      PROVE  Kept
  <2>1. invitations'[x] \in {invitations[x], [invitations[x] EXCEPT !.sealed = None]}
    BY <1>7 DEF ClaimSeatRecovery
  <2> QED BY <1>0, <2>1 DEF Invitation, InvitationKept
<1>8. CASE EraseExpiredSecrets
  <2>1. invitations'[x] = ErasedInvitation(x)
    BY <1>8 DEF EraseExpiredSecrets
  <2>2. /\ ErasedInvitation(x).issued = invitations[x].issued
        /\ ErasedInvitation(x).seat = invitations[x].seat
        /\ ErasedInvitation(x).activeAfter = invitations[x].activeAfter
        /\ ErasedInvitation(x).claimed = invitations[x].claimed
        /\ ErasedInvitation(x).claimedAfter = invitations[x].claimedAfter
        /\ ErasedInvitation(x).revoked = invitations[x].revoked
        /\ ErasedInvitation(x).revokedAt = invitations[x].revokedAt
    BY <1>0 DEF ErasedInvitation, Invitation
  <2> QED BY <2>1, <2>2 DEF InvitationKept
<1> QED
  BY <1>1, <1>2, <1>3, <1>4, <1>5, <1>6, <1>7, <1>8, LiveInvitationSteps

\* A used grant keeps the record of its recovery.
LEMMA GrantKept ==
  ASSUME TypeOK, GrantsNameBindings, [Next]_vars, status = "active", status' = "active",
         NEW x \in GrantId, grants[x].consumed
  PROVE  /\ grants'[x].consumed
         /\ grants'[x].revoked = grants[x].revoked
         /\ grants'[x].role = grants[x].role
         /\ grants'[x].oldBinding = grants[x].oldBinding
         /\ grants'[x].newBinding = grants[x].newBinding
         /\ grants'[x].auditSequence = grants[x].auditSequence
<1> DEFINE Kept == /\ grants'[x].consumed
                   /\ grants'[x].revoked = grants[x].revoked
                   /\ grants'[x].role = grants[x].role
                   /\ grants'[x].oldBinding = grants[x].oldBinding
                   /\ grants'[x].newBinding = grants[x].newBinding
                   /\ grants'[x].auditSequence = grants[x].auditSequence
<1>0. grants[x] \in Grant /\ grants[x].issued
  BY DEF TypeOK, GrantsNameBindings
<1>1. CASE UNCHANGED grants
  BY <1>1
<1>2. ASSUME NEW role \in Role, NEW g \in GrantId, IssueRecovery(role, g)
      PROVE  Kept
  BY <1>0, <1>2 DEF IssueRecovery, TypeOK
<1>3. ASSUME NEW g \in GrantId, NEW s \in Session, NEW b \in BindingId, RotateBinding(g, s, b)
      PROVE  Kept
  BY <1>3 DEF RotateBinding, TypeOK
<1>4. ASSUME NEW g \in GrantId, GrantExpires(g)
      PROVE  Kept
  BY <1>0, <1>4 DEF GrantExpires, TypeOK, Grant
<1>5. CASE EraseExpiredSecrets
  <2>1. grants'[x] = ErasedGrant(x)
    BY <1>5 DEF EraseExpiredSecrets
  <2>2. QED
    BY <1>0, <2>1 DEF ErasedGrant, Grant
<1>6. ASSUME NEW h \in BindingId, NEW c \in CommandId, NEW v \in 0..version, DeleteGame(h, c, v)
      PROVE  FALSE
  <2>1. v \in Nat
    BY DEF TypeOK
  <2> QED BY <1>6, <2>1, DeleteBindings
<1>7. ~PurgeDeletedGame
  BY DEF PurgeDeletedGame
<1> QED
  BY <1>1, <1>2, <1>3, <1>4, <1>5, <1>6, <1>7, GrantSteps

LEMMA InvitationsDatedStep ==
  ASSUME TypeOK, TypeOK', GrantsNameBindings, InvitationsDated, [Next]_vars,
         status = "active", status' = "active"
  PROVE  InvitationsDated'
<1>1. SUFFICES ASSUME NEW x \in InvitationId, invitations'[x].issued
               PROVE  /\ invitations'[x].activeAfter <= eventSequence'
                      /\ invitations'[x].claimed =>
                           /\ ~invitations'[x].revoked
                           /\ invitations'[x].activeAfter <= invitations'[x].claimedAfter
                           /\ invitations'[x].claimedAfter <= eventSequence'
                      /\ invitations'[x].revoked =>
                           /\ invitations'[x].activeAfter < invitations'[x].revokedAt
                           /\ invitations'[x].revokedAt <= eventSequence'
  BY DEF InvitationsDated
<1>2. /\ eventSequence \in Nat /\ eventSequence' \in Nat
      /\ eventSequence <= eventSequence'
  <2>1. eventSequence \in Nat /\ eventSequence' \in Nat
    BY DEF TypeOK
  <2>2. eventSequence' \in {eventSequence, eventSequence + 1}
    BY SequenceMoves
  <2> QED BY <2>1, <2>2
<1>3. /\ invitations[x].activeAfter \in Nat /\ invitations[x].claimedAfter \in Nat
      /\ invitations[x].revokedAt \in Nat
  BY DEF TypeOK, Invitation
<1>4. CASE ~invitations[x].issued
  <2>1. InvitationBegun(x)
    BY <1>1, <1>4, InvitationsKept
  <2> QED BY <1>2, <2>1 DEF InvitationBegun
<1>5. CASE invitations[x].issued
  <2>1. InvitationKept(x)
    BY <1>5, InvitationsKept
  <2>2. /\ invitations[x].activeAfter <= eventSequence
        /\ invitations[x].claimed =>
             /\ ~invitations[x].revoked
             /\ invitations[x].activeAfter <= invitations[x].claimedAfter
             /\ invitations[x].claimedAfter <= eventSequence
        /\ invitations[x].revoked =>
             /\ invitations[x].activeAfter < invitations[x].revokedAt
             /\ invitations[x].revokedAt <= eventSequence
    BY <1>5 DEF InvitationsDated
  <2>3. invitations'[x].activeAfter <= eventSequence'
    BY <1>2, <1>3, <2>1, <2>2 DEF InvitationKept
  <2>4. ASSUME invitations'[x].claimed
        PROVE  /\ ~invitations'[x].revoked
               /\ invitations'[x].activeAfter <= invitations'[x].claimedAfter
               /\ invitations'[x].claimedAfter <= eventSequence'
    BY <1>2, <1>3, <2>1, <2>2, <2>4 DEF InvitationKept
  <2>5. ASSUME invitations'[x].revoked
        PROVE  /\ invitations'[x].activeAfter < invitations'[x].revokedAt
               /\ invitations'[x].revokedAt <= eventSequence'
    BY <1>2, <1>3, <2>1, <2>2, <2>5 DEF InvitationKept
  <2> QED BY <2>3, <2>4, <2>5
<1> QED BY <1>4, <1>5

-----------------------------------------------------------------------------
(* Nothing that the validator reads of an old entry changes.               *)

\* The steps of a live game that write an entry.
LEMMA LiveLogSteps ==
  ASSUME TypeOK, GrantsNameBindings, [Next]_vars, status = "active", status' = "active"
  PROVE  \/ \E b \in BindingId, c \in CommandId, v \in Nat, pending \in SUBSET Side :
              PlayCommand(b, c, v, pending)
         \/ \E b \in BindingId, c \in CommandId, v \in Nat : SurrenderSeat(b, c, v)
         \/ \E h \in BindingId, c \in CommandId, v \in Nat, side \in Side, i \in InvitationId :
              IssueInvitation(h, c, v, side, i)
         \/ \E h \in BindingId, c \in CommandId, v \in Nat, i \in InvitationId :
              RevokeInvitation(h, c, v, i)
         \/ \E g \in GrantId, s \in Session, b \in BindingId : RotateBinding(g, s, b)
         \/ UNCHANGED <<version, eventSequence, pendingChoice, actions>>
<1> DEFINE Silent == UNCHANGED <<version, eventSequence, pendingChoice, actions>>
<1>1. 0..version \subseteq Nat
  BY DEF TypeOK
<1>2. ASSUME NEW side \in Side, NEW s \in Session, NEW h \in BindingId, NEW b \in BindingId,
             NEW i \in InvitationId, CreateGame(side, s, h, b, i)
      PROVE  FALSE
  BY <1>2, CreateBindings
<1>3. ASSUME NEW h \in BindingId, NEW c \in CommandId, NEW v \in 0..version, DeleteGame(h, c, v)
      PROVE  FALSE
  BY <1>1, <1>3, DeleteBindings
<1>4. ~PurgeDeletedGame
  BY DEF PurgeDeletedGame
<1>5. ASSUME NEW i \in InvitationId, NEW s \in Session, NEW b \in BindingId,
             ClaimInvitation(i, s, b)
      PROVE  Silent
  BY <1>5 DEF ClaimInvitation
<1>6. ASSUME NEW role \in Role, NEW g \in GrantId, IssueRecovery(role, g)
      PROVE  Silent
  BY <1>6 DEF IssueRecovery
<1>7. ASSUME NEW i \in InvitationId, ReapExpiredClaim(i) \/ InvitationExpires(i)
      PROVE  Silent
  BY <1>7 DEF ReapExpiredClaim, InvitationExpires
<1>8. ASSUME NEW s \in Session, SessionExpires(s) PROVE Silent
  BY <1>8 DEF SessionExpires
<1>9. ASSUME NEW g \in GrantId, GrantExpires(g) PROVE Silent
  BY <1>9 DEF GrantExpires
<1>10. ASSUME EraseExpiredSecrets PROVE Silent
  BY <1>10 DEF EraseExpiredSecrets
<1>11. ASSUME NEW g \in GrantId, NEW s \in Session, NEW b \in BindingId,
              \/ \E presented \in Session \cup {None} : ClaimSeatRecovery(g, s, b, presented)
              \/ ClaimHostRecovery(g, s, b)
       PROVE  RotateBinding(g, s, b)
  BY <1>11 DEF ClaimSeatRecovery, ClaimHostRecovery
<1>12. CASE UNCHANGED vars
  BY <1>12 DEF vars
<1> HIDE DEF Silent
<1>13. CASE Next
  BY <1>1, <1>2, <1>3, <1>4, <1>5, <1>6, <1>7, <1>8, <1>9, <1>10, <1>11, <1>13 DEF Next, Silent
<1> QED BY <1>12, <1>13 DEF Silent

LEMMA LogKept ==
  ASSUME TypeOK, LogIsGapless, [Next]_vars, status = "active"
  PROVE  /\ eventSequence \in Nat
         /\ DOMAIN actions = 1..eventSequence
         /\ \A n \in 1..eventSequence : actions'[n] = actions[n]
<1>1. eventSequence \in Nat /\ DOMAIN actions = 1..eventSequence
  BY DEF TypeOK, LogIsGapless
<1>2. ~PurgeDeletedGame
  BY DEF PurgeDeletedGame
<1>3. CASE \E entry \in Action : Log(entry)
  BY <1>1, <1>3, AppendedLog
<1>4. CASE UNCHANGED <<eventSequence, actions, commandResults, hostCommandResults>>
  BY <1>1, <1>4
<1> QED BY <1>1, <1>2, <1>3, <1>4, LogCases

LEMMA BeforeKept ==
  ASSUME TypeOK, LogIsGapless, [Next]_vars, status = "active",
         NEW n \in 1..(eventSequence + 1)
  PROVE  VersionBefore(n)' = VersionBefore(n) /\ ChoiceBefore(n)' = ChoiceBefore(n)
<1>1. n # 1 => n - 1 \in 1..eventSequence
  BY LogKept
<1>2. n # 1 => actions'[n - 1] = actions[n - 1]
  BY <1>1, LogKept
<1> QED BY <1>2 DEF VersionBefore, ChoiceBefore

LEMMA EntryInOrderKept ==
  ASSUME TypeOK, LogIsGapless, [Next]_vars, status = "active",
         NEW n \in 1..eventSequence, EntryInOrder(n)
  PROVE  EntryInOrder(n)'
<1>1. eventSequence \in Nat /\ \A m \in 1..n : actions'[m] = actions[m]
  BY LogKept
<1>2. VersionBefore(n)' = VersionBefore(n)
  BY <1>1, BeforeKept
<1> QED BY <1>1, <1>2 DEF EntryInOrder

LEMMA ActsAtKept ==
  ASSUME TypeOK, TypeOK', GrantsNameBindings, LogIsGapless, BindingsDated, [Next]_vars,
         status = "active", status' = "active",
         NEW n \in 1..eventSequence, NEW b \in BindingId
  PROVE  ActsAt(b, n)' <=> ActsAt(b, n)
<1>1. /\ eventSequence \in Nat /\ eventSequence' \in Nat
      /\ bindings[b].activeAfter \in Nat /\ bindings[b].inactiveFrom \in Nat
      /\ bindings'[b].activeAfter \in Nat /\ bindings'[b].inactiveFrom \in Nat
      /\ bindings[b].status \in {"none", "active", "revoked"}
  BY DEF TypeOK, Binding
<1>2. eventSequence' \in {eventSequence, eventSequence + 1}
  BY SequenceMoves
<1>3. CASE bindings[b].status = "none"
  <2>1. bindings'[b].status # "none" => BindingBegun(b)
    BY <1>3, BindingsKept
  <2> QED BY <1>1, <1>2, <1>3, <2>1 DEF BindingBegun, ActsAt, Issued
<1>4. CASE bindings[b].status # "none"
  <2>1. BindingKept(b)
    BY <1>4, BindingsKept
  <2> QED BY <1>1, <1>2, <1>4, <2>1 DEF BindingKept, ActsAt, Issued
<1> QED BY <1>3, <1>4

LEMMA OutstandingRetiredKept ==
  ASSUME TypeOK, TypeOK', GrantsNameBindings, LogIsGapless, InvitationsDated, [Next]_vars,
         status = "active", status' = "active",
         NEW n \in 1..eventSequence, NEW side \in Side, OutstandingRetired(side, n)
  PROVE  OutstandingRetired(side, n)'
<1>1. SUFFICES ASSUME NEW x \in InvitationId, invitations'[x].issued,
                      invitations'[x].seat = side, invitations'[x].activeAfter < n
               PROVE  \/ /\ invitations'[x].claimed
                         /\ invitations'[x].claimedAfter >= invitations'[x].activeAfter
                         /\ invitations'[x].claimedAfter < n
                      \/ /\ ~invitations'[x].claimed /\ invitations'[x].revoked
                         /\ invitations'[x].revokedAt > invitations'[x].activeAfter
                         /\ invitations'[x].revokedAt <= n
  BY DEF OutstandingRetired
<1>2. eventSequence \in Nat
  BY DEF TypeOK
<1>3. CASE ~invitations[x].issued
  <2>1. InvitationBegun(x)
    BY <1>1, <1>3, InvitationsKept
  <2> QED BY <1>1, <1>2, <2>1 DEF InvitationBegun
<1>4. CASE invitations[x].issued
  <2>1. InvitationKept(x)
    BY <1>4, InvitationsKept
  <2>2. \/ /\ invitations[x].claimed
           /\ invitations[x].claimedAfter >= invitations[x].activeAfter
           /\ invitations[x].claimedAfter < n
        \/ /\ ~invitations[x].claimed /\ invitations[x].revoked
           /\ invitations[x].revokedAt > invitations[x].activeAfter
           /\ invitations[x].revokedAt <= n
    BY <1>1, <1>4, <2>1 DEF OutstandingRetired, InvitationKept
  <2>3. CASE invitations[x].claimed
    BY <2>1, <2>2, <2>3 DEF InvitationKept
  <2>4. CASE ~invitations[x].claimed
    BY <2>1, <2>2, <2>4 DEF InvitationKept
  <2> QED BY <2>3, <2>4
<1> QED BY <1>3, <1>4

LEMMA GameplayKept ==
  ASSUME TypeOK, TypeOK', GrantsNameBindings, LogIsGapless, BindingsDated, InvitationsDated,
         [Next]_vars, status = "active", status' = "active",
         NEW n \in 1..eventSequence, actions[n].binding \in BindingId, GameplayAccepted(n)
  PROVE  GameplayAccepted(n)'
<1>1. /\ eventSequence \in Nat /\ actions'[n] = actions[n]
      /\ \A m \in 1..(n - 1) : actions'[m] = actions[m]
  BY LogKept
<1> PICK b \in BindingId : b = actions[n].binding
  OBVIOUS
<1>2. ActsAt(b, n) /\ bindings[b].status # "none" /\ bindings[b].role \in Side
  BY DEF GameplayAccepted, ActsAt, Issued
<1>3. BindingKept(b)
  BY <1>2, BindingsKept
<1>4. ActsAt(b, n)'
  BY <1>2, ActsAtKept
<1>5. \A m \in 1..(n - 1) : ~(actions'[m].name = "surrenderSeat" /\ actions'[m].binding = b)
  BY <1>1 DEF GameplayAccepted
<1> PICK side \in Side : side = bindings[b].role
  BY <1>2
<1>6. bindings'[b].role = side
  BY <1>3 DEF BindingKept
<1>7. ASSUME actions[n].name = "surrenderSeat"
      PROVE  /\ bindings'[b].status = "revoked" /\ bindings'[b].inactiveFrom = n + 1
             /\ OutstandingRetired(side, n)'
             /\ side \notin ChoiceBefore(n)'
  <2>1. /\ bindings[b].status = "revoked" /\ bindings[b].inactiveFrom = n + 1
        /\ OutstandingRetired(side, n) /\ side \notin ChoiceBefore(n)
    BY <1>7 DEF GameplayAccepted
  <2>2. bindings'[b].status = "revoked" /\ bindings'[b].inactiveFrom = n + 1
    BY <1>3, <2>1 DEF BindingKept
  <2>3. OutstandingRetired(side, n)'
    BY <2>1, OutstandingRetiredKept
  <2>4. ChoiceBefore(n)' = ChoiceBefore(n)
    BY <1>1, BeforeKept
  <2> QED BY <2>1, <2>2, <2>3, <2>4
<1>8. actions'[n].name = actions[n].name /\ actions'[n].binding = b
  BY <1>1
<1> HIDE DEF ActsAt, OutstandingRetired
<1> QED
  BY <1>4, <1>5, <1>6, <1>7, <1>8 DEF GameplayAccepted

LEMMA HostKept ==
  ASSUME TypeOK, TypeOK', GrantsNameBindings, LogIsGapless, BindingsDated, [Next]_vars,
         status = "active", status' = "active",
         NEW n \in 1..eventSequence, EntryKnown(n),
         actions[n].kind = "host_management", HostAccepted(n)
  PROVE  HostAccepted(n)'
<1>1. eventSequence \in Nat /\ actions'[n] = actions[n]
  BY LogKept
<1> PICK b \in BindingId : b = actions[n].binding
  BY DEF EntryKnown
<1>2. ActsAt(b, n) /\ bindings[b].status # "none" /\ bindings[b].role = "host"
  BY DEF HostAccepted, ActsAt, Issued
<1>3. ActsAt(b, n)' /\ bindings'[b].role = "host"
  <2>1. BindingKept(b)
    BY <1>2, BindingsKept
  <2> QED BY <1>2, <2>1, ActsAtKept DEF BindingKept
<1> PICK subject : subject = actions[n].subject
  OBVIOUS
<1>4. actions'[n].name = actions[n].name /\ actions'[n].binding = b /\ actions'[n].subject = subject
  BY <1>1
<1>5. ASSUME actions[n].name = "issueInvitation"
      PROVE  /\ \E i \in InvitationId :
                  /\ {j \in InvitationId : invitations'[j].issued /\ invitations'[j].activeAfter = n} = {i}
                  /\ invitations'[i].seat = subject
             /\ \A x \in BindingId : bindings'[x].role = subject => ~ActsAt(x, n)'
  <2>1. PICK i \in InvitationId :
          /\ {j \in InvitationId : invitations[j].issued /\ invitations[j].activeAfter = n} = {i}
          /\ invitations[i].seat = subject
    BY <1>5 DEF HostAccepted
  <2>2. ASSUME NEW j \in InvitationId
        PROVE  invitations'[j].issued /\ invitations'[j].activeAfter = n
               <=> invitations[j].issued /\ invitations[j].activeAfter = n
    <3>1. CASE invitations[j].issued
      BY <3>1, InvitationsKept DEF InvitationKept
    <3>2. CASE ~invitations[j].issued
      BY <1>1, <3>2, InvitationsKept DEF InvitationBegun
    <3> QED BY <3>1, <3>2
  <2>3. {j \in InvitationId : invitations'[j].issued /\ invitations'[j].activeAfter = n} = {i}
    BY <2>1, <2>2
  <2>4. invitations'[i].seat = subject
    <3>1. invitations[i].issued
      BY <2>1
    <3> QED BY <2>1, <3>1, InvitationsKept DEF InvitationKept
  <2>5. ASSUME NEW x \in BindingId, bindings'[x].role = subject
        PROVE  ~ActsAt(x, n)'
    <3>1. SUFFICES ASSUME ActsAt(x, n) PROVE FALSE
      BY ActsAtKept
    <3>2. bindings[x].status # "none"
      BY <3>1 DEF ActsAt, Issued
    <3>3. bindings[x].role = subject
      BY <2>5, <3>2, BindingsKept DEF BindingKept
    <3> QED BY <1>5, <3>1, <3>3 DEF HostAccepted
  <2> QED BY <2>3, <2>4, <2>5
<1>6. ASSUME actions[n].name = "revokeInvitation"
      PROVE  /\ invitations'[subject].activeAfter < n
             /\ ~invitations'[subject].claimed
             /\ invitations'[subject].revokedAt = n
  <2>1. /\ subject \in InvitationId
        /\ invitations[subject].issued /\ invitations[subject].revoked
    BY <1>6 DEF EntryKnown
  <2>2. /\ invitations[subject].activeAfter < n /\ ~invitations[subject].claimed
        /\ invitations[subject].revokedAt = n
    BY <1>6 DEF HostAccepted
  <2> QED BY <2>1, <2>2, InvitationsKept DEF InvitationKept
<1> HIDE DEF ActsAt
<1> QED
  BY <1>3, <1>4, <1>5, <1>6 DEF HostAccepted

LEMMA AuditKept ==
  ASSUME TypeOK, TypeOK', GrantsNameBindings, RecoveriesAreFresh, LogIsGapless, BindingsDated,
         [Next]_vars, status = "active", status' = "active",
         NEW n \in 1..eventSequence, actions[n].subject \in GrantId, AuditAccepted(n)
  PROVE  AuditAccepted(n)'
<1>1. actions'[n] = actions[n]
  BY LogKept
<1> PICK g \in GrantId : g = actions[n].subject
  OBVIOUS
<1>2. grants[g].auditSequence = n /\ grants[g].consumed /\ ~grants[g].revoked
  BY DEF AuditAccepted
<1> PICK old \in BindingId : old = grants[g].oldBinding
  BY <1>2 DEF GrantsNameBindings
<1> PICK new \in BindingId : new = grants[g].newBinding
  BY <1>2 DEF RecoveriesAreFresh
<1>3. /\ new # old /\ bindings[old].status # "none" /\ bindings[new].status # "none"
      /\ bindings[old].inactiveFrom = n /\ bindings[old].activeAfter < n
      /\ bindings[new].activeAfter = n
      /\ bindings[new].version = bindings[old].version + 1
      /\ bindings[old].role = grants[g].role /\ bindings[new].role = grants[g].role
  BY DEF AuditAccepted, Issued
<1>4. BindingKept(old) /\ BindingKept(new)
  BY <1>3, BindingsKept
<1>5. bindings[old].status # "active"
  BY <1>3, LogKept DEF BindingsDated, Issued, IsActive
<1>6. bindings'[old].inactiveFrom = bindings[old].inactiveFrom
  BY <1>4, <1>5 DEF BindingKept
<1>7. /\ grants'[g].consumed /\ ~grants'[g].revoked
      /\ grants'[g].role = grants[g].role
      /\ grants'[g].oldBinding = old /\ grants'[g].newBinding = new
      /\ grants'[g].auditSequence = n
  BY <1>2, GrantKept
<1>8. /\ bindings'[old].status # "none" /\ bindings'[new].status # "none"
      /\ bindings'[old].role = bindings[old].role /\ bindings'[new].role = bindings[new].role
      /\ bindings'[old].version = bindings[old].version
      /\ bindings'[new].version = bindings[new].version
      /\ bindings'[old].activeAfter = bindings[old].activeAfter
      /\ bindings'[new].activeAfter = bindings[new].activeAfter
  BY <1>4 DEF BindingKept
<1>9. actions'[n].subject = g
  BY <1>1
<1>10. /\ bindings'[old].inactiveFrom = n /\ bindings'[old].activeAfter < n
       /\ bindings'[new].activeAfter = n
       /\ bindings'[new].version = bindings'[old].version + 1
       /\ bindings'[old].role = grants'[g].role /\ bindings'[new].role = grants'[g].role
  BY <1>3, <1>6, <1>7, <1>8
<1>11. Issued(old)' /\ Issued(new)'
  BY <1>8 DEF Issued
<1>12. LET used == grants'[actions'[n].subject]
       IN /\ used.auditSequence = n /\ used.consumed /\ ~used.revoked
          /\ used.oldBinding = old /\ used.newBinding = new
          /\ used.role = grants'[g].role
  BY <1>7, <1>9
<1> HIDE DEF Issued
<1> QED
  BY <1>3, <1>10, <1>11, <1>12 DEF AuditAccepted

LEMMA EntryKnownKept ==
  ASSUME TypeOK, GrantsNameBindings, LogIsGapless, [Next]_vars,
         status = "active", status' = "active",
         NEW n \in 1..eventSequence, EntryKnown(n)
  PROVE  EntryKnown(n)'
<1>1. actions'[n] = actions[n]
  BY LogKept
<1>2. ASSUME actions[n].kind = "host_management", actions[n].name = "revokeInvitation"
      PROVE  /\ actions[n].subject \in InvitationId
             /\ invitations'[actions[n].subject].issued
             /\ invitations'[actions[n].subject].revoked
  <2>1. PICK i \in InvitationId : i = actions[n].subject
    BY <1>2 DEF EntryKnown
  <2>2. invitations[i].issued /\ invitations[i].revoked
    BY <1>2, <2>1 DEF EntryKnown
  <2>3. InvitationKept(i)
    BY <2>2, InvitationsKept
  <2> QED BY <2>1, <2>2, <2>3 DEF InvitationKept
<1> QED BY <1>1, <1>2 DEF EntryKnown

LEMMA EntryKept ==
  ASSUME TypeOK, TypeOK', GrantsNameBindings, RecoveriesAreFresh, LogIsGapless,
         BindingsDated, InvitationsDated, [Next]_vars, status = "active", status' = "active",
         NEW n \in 1..eventSequence, EntryKnown(n), EntryAccepted(n)
  PROVE  EntryKnown(n)' /\ EntryAccepted(n)'
<1>1. EntryKnown(n)'
  BY EntryKnownKept
<1>2. EntryInOrder(n)'
  BY EntryInOrderKept DEF EntryAccepted
<1>3. actions'[n] = actions[n] /\ actions[n] \in Action
  BY LogKept DEF TypeOK
<1>4. CASE actions[n].kind = "gameplay"
  <2>1. actions[n].binding \in BindingId
    BY <1>4 DEF EntryKnown
  <2>2. GameplayAccepted(n)
    BY <1>4 DEF EntryAccepted
  <2>3. GameplayAccepted(n)'
    BY <2>1, <2>2, GameplayKept
  <2> QED BY <1>1, <1>2, <1>3, <1>4, <2>3 DEF EntryAccepted
<1>5. CASE actions[n].kind = "host_management"
  <2>1. HostAccepted(n)
    BY <1>5 DEF EntryAccepted
  <2>2. HostAccepted(n)'
    BY <1>5, <2>1, HostKept
  <2> QED BY <1>1, <1>2, <1>3, <1>5, <2>2 DEF EntryAccepted
<1>6. CASE actions[n].kind = "operator_audit"
  <2>1. AuditAccepted(n) /\ actions[n].subject \in GrantId
    BY <1>6 DEF EntryAccepted, EntryKnown
  <2>2. AuditAccepted(n)'
    BY <2>1, AuditKept
  <2> QED BY <1>1, <1>2, <1>3, <1>6, <2>2 DEF EntryAccepted
<1> QED BY <1>3, <1>4, <1>5, <1>6 DEF Action

-----------------------------------------------------------------------------
(* The entry a step appends is one the validator accepts.                  *)

\* The history up to n, whose last entry the validator accepts.
Recorded(n) ==
  /\ eventSequence = n
  /\ EntryKnown(n) /\ EntryAccepted(n)
  /\ version = VersionBefore(n + 1)
  /\ pendingChoice = ChoiceBefore(n + 1)

\* The chain of versions, sequences, choices and commands, for whatever is logged.
LEMMA Chained ==
  ASSUME TypeOK, NoneAssumption, LogIsGapless, CommandAppliesOnce, HistoryStands,
         [Next]_vars, status = "active",
         NEW entry \in Action, Log(entry), NEW n, n = eventSequence + 1,
         entry.sequence = n, entry.expectedVersion = version,
         entry.resultingVersion = version + (IF entry.kind = "gameplay" THEN 1 ELSE 0),
         entry.command # None => NewCommand(entry.command)
  PROVE  /\ n \in Nat /\ eventSequence' = n /\ n \notin 1..eventSequence
         /\ actions'[n] = entry
         /\ EntryInOrder(n)'
         /\ ChoiceBefore(n)' = pendingChoice
         /\ VersionBefore(n + 1)' = entry.resultingVersion
         /\ ChoiceBefore(n + 1)' = entry.pendingChoice
<1>1. /\ eventSequence \in Nat /\ eventSequence' = n /\ n \notin DOMAIN actions
      /\ DOMAIN actions = 1..eventSequence
      /\ actions'[n] = entry
      /\ \A m \in DOMAIN actions : actions'[m] = actions[m]
  BY AppendedLog DEF TypeOK
<1>2. n \in 1..(eventSequence + 1)
  BY <1>1
<1>3. VersionBefore(n)' = version /\ ChoiceBefore(n)' = pendingChoice
  BY <1>2, BeforeKept DEF HistoryStands
<1>4. ASSUME entry.command # None, NEW m \in 1..(n - 1)
      PROVE  actions'[m].command # entry.command
  <2>1. m \in DOMAIN actions /\ m \in Nat /\ m >= 1
    BY <1>1
  <2>2. entry.command \in CommandId
    BY <1>4 DEF Action
  <2>3. actions[m].command # entry.command
    <3>1. NewCommand(entry.command)
      BY <1>4
    <3> QED BY <2>1, <2>2, <3>1 DEF CommandAppliesOnce, NewCommand
  <2> QED BY <1>1, <2>1, <2>3
<1>5. EntryInOrder(n)'
  BY <1>1, <1>3, <1>4 DEF EntryInOrder
<1>6. VersionBefore(n + 1)' = entry.resultingVersion /\ ChoiceBefore(n + 1)' = entry.pendingChoice
  BY <1>1 DEF VersionBefore, ChoiceBefore
<1> QED BY <1>1, <1>3, <1>5, <1>6

\* An active binding has not surrendered.
LEMMA NotSurrendered ==
  ASSUME LogIsGapless, HistoryStands, NEW b \in BindingId, IsActive(b), NEW m \in DOMAIN actions
  PROVE  ~(actions[m].name = "surrenderSeat" /\ actions[m].binding = b)
<1>1. SUFFICES ASSUME actions[m].name = "surrenderSeat", actions[m].binding = b
               PROVE  FALSE
  OBVIOUS
<1>2. actions[m].kind = "gameplay" /\ EntryAccepted(m)
  BY <1>1 DEF HistoryStands, EntryKnown
<1>3. GameplayAccepted(m)
  BY <1>2 DEF EntryAccepted
<1> QED BY <1>1, <1>3 DEF GameplayAccepted, IsActive

LEMMA NoSurrenderBefore ==
  ASSUME TypeOK, LogIsGapless, HistoryStands, [Next]_vars, status = "active",
         NEW b \in BindingId, IsActive(b), NEW n, n = eventSequence + 1, NEW m \in 1..(n - 1)
  PROVE  ~(actions'[m].name = "surrenderSeat" /\ actions'[m].binding = b)
<1>1. m \in DOMAIN actions /\ actions'[m] = actions[m]
  BY LogKept
<1> QED BY <1>1, NotSurrendered

\* An active binding acts at the next entry.
LEMMA ActiveActs ==
  ASSUME TypeOK, BindingsDated, NEW b \in BindingId, IsActive(b), NEW n, n = eventSequence + 1
  PROVE  ActsAt(b, n)
<1>1. eventSequence \in Nat /\ bindings[b].activeAfter \in Nat
  BY DEF TypeOK, Binding
<1>2. bindings[b].activeAfter <= eventSequence
  BY DEF BindingsDated, Issued, IsActive
<1> QED BY <1>1, <1>2 DEF ActsAt, Issued, IsActive

LEMMA PlayRecorded ==
  ASSUME TypeOK, NoneAssumption, LogIsGapless, CommandAppliesOnce, HistoryStands,
         [Next]_vars, status = "active",
         NEW b \in BindingId, NEW c \in CommandId, NEW v \in Nat, NEW pending \in SUBSET Side,
         PlayCommand(b, c, v, pending), NEW n, n = eventSequence + 1
  PROVE  Recorded(n)'
<1> DEFINE entry == SeatEntry("play", b, c, v, pending)
<1>1. /\ entry \in Action /\ entry.sequence = n /\ entry.expectedVersion = v
      /\ entry.kind = "gameplay" /\ entry.name = "play"
      /\ entry.resultingVersion = version + 1
      /\ entry.pendingChoice = pending /\ entry.binding = b /\ entry.command = c
  BY SeatEntryType DEF SeatEntry
<1>2. /\ Log(entry) /\ v = version /\ NewCommand(c)
      /\ IsActive(b) /\ bindings[b].role \in Side
      /\ version' = version + 1 /\ pendingChoice' = pending /\ bindings' = bindings
  BY DEF PlayCommand, Authorized
<1> HIDE DEF entry
<1>3. /\ n \in Nat /\ eventSequence' = n /\ actions'[n] = entry /\ EntryInOrder(n)'
      /\ VersionBefore(n + 1)' = version + 1 /\ ChoiceBefore(n + 1)' = pending
  BY <1>1, <1>2, Chained
<1>4. ActsAt(b, n)'
  <2>1. ActsAt(b, n)
    BY <1>2, ActiveActs DEF HistoryStands
  <2> QED BY <1>2, <2>1 DEF ActsAt, Issued
<1>5. \A m \in 1..(n - 1) : ~(actions'[m].name = "surrenderSeat" /\ actions'[m].binding = b)
  BY <1>2, NoSurrenderBefore
<1>6. GameplayAccepted(n)'
  BY <1>1, <1>2, <1>3, <1>4, <1>5 DEF GameplayAccepted
<1>7. EntryAccepted(n)'
  BY <1>1, <1>3, <1>6 DEF EntryAccepted
<1>8. EntryKnown(n)'
  BY <1>1, <1>3 DEF EntryKnown
<1> QED BY <1>2, <1>3, <1>7, <1>8 DEF Recorded

LEMMA SurrenderRecorded ==
  ASSUME TypeOK, TypeOK', NoneAssumption, GrantsNameBindings, LogIsGapless, CommandAppliesOnce,
         HistoryStands, [Next]_vars, status = "active", status' = "active",
         NEW b \in BindingId, NEW c \in CommandId, NEW v \in Nat,
         SurrenderSeat(b, c, v), NEW n, n = eventSequence + 1
  PROVE  Recorded(n)'
<1> DEFINE entry == SeatEntry("surrenderSeat", b, c, v, pendingChoice)
<1>0. pendingChoice \in SUBSET Side /\ eventSequence \in Nat
  BY DEF TypeOK
<1>1. /\ entry \in Action /\ entry.sequence = n /\ entry.expectedVersion = v
      /\ entry.kind = "gameplay" /\ entry.name = "surrenderSeat"
      /\ entry.resultingVersion = version + 1
      /\ entry.pendingChoice = pendingChoice /\ entry.binding = b /\ entry.command = c
  BY <1>0, SeatEntryType DEF SeatEntry
<1>2. /\ Log(entry) /\ v = version /\ NewCommand(c)
      /\ IsActive(b) /\ bindings[b].role \in Side /\ bindings[b].role \notin pendingChoice
      /\ version' = version + 1 /\ pendingChoice' = pendingChoice
  BY DEF SurrenderSeat, Authorized
<1> HIDE DEF entry
<1>3. /\ n \in Nat /\ eventSequence' = n /\ actions'[n] = entry /\ EntryInOrder(n)'
      /\ ChoiceBefore(n)' = pendingChoice
      /\ VersionBefore(n + 1)' = version + 1 /\ ChoiceBefore(n + 1)' = pendingChoice
  BY <1>1, <1>2, Chained
<1>4. /\ bindings'[b].status = "revoked" /\ bindings'[b].role = bindings[b].role
      /\ bindings'[b].activeAfter = bindings[b].activeAfter
      /\ bindings'[b].inactiveFrom = n + 1
  BY <1>0, SurrenderBindings, SurrenderDates
<1>5. bindings[b].activeAfter <= eventSequence /\ bindings[b].activeAfter \in Nat
  BY <1>2 DEF HistoryStands, BindingsDated, Issued, IsActive, TypeOK, Binding
<1>6. ActsAt(b, n)'
  BY <1>0, <1>4, <1>5 DEF ActsAt, Issued
<1>7. \A m \in 1..(n - 1) : ~(actions'[m].name = "surrenderSeat" /\ actions'[m].binding = b)
  BY <1>2, NoSurrenderBefore
<1> PICK side \in Side : side = bindings[b].role
  BY <1>2
<1>8. OutstandingRetired(side, n)'
  <2>1. SUFFICES ASSUME NEW x \in InvitationId, invitations'[x].issued,
                        invitations'[x].seat = side, invitations'[x].activeAfter < n
                 PROVE  \/ /\ invitations'[x].claimed
                           /\ invitations'[x].claimedAfter >= invitations'[x].activeAfter
                           /\ invitations'[x].claimedAfter < n
                        \/ /\ ~invitations'[x].claimed /\ invitations'[x].revoked
                           /\ invitations'[x].revokedAt > invitations'[x].activeAfter
                           /\ invitations'[x].revokedAt <= n
    BY DEF OutstandingRetired
  <2>2. invitations[x] \in Invitation /\ invitations'[x] \in Invitation
    BY DEF TypeOK
  <2>3. invitations[x].issued /\ invitations[x].seat = side
        /\ invitations'[x] = SurrenderedInvitation(x)
    BY <2>1, <2>2 DEF SurrenderSeat, SurrenderedInvitation, Invitation
  <2>4. InvitationKept(x)
    BY <2>3, InvitationsKept
  <2>5. /\ invitations'[x].claimed = invitations[x].claimed
        /\ invitations'[x].claimed \/ invitations'[x].revoked
    BY <2>2, <2>3 DEF SurrenderedInvitation, Invitation
  <2>6. InvitationsDated'
    BY InvitationsDatedStep DEF HistoryStands
  <2>7. /\ invitations'[x].claimed =>
             /\ invitations'[x].activeAfter <= invitations'[x].claimedAfter
             /\ invitations[x].claimedAfter <= eventSequence
        /\ invitations'[x].revoked =>
             /\ invitations'[x].activeAfter < invitations'[x].revokedAt
             /\ invitations'[x].revokedAt <= eventSequence'
    BY <2>1, <2>3, <2>5, <2>6 DEF HistoryStands, InvitationsDated
  <2>8. invitations'[x].claimed => invitations'[x].claimedAfter = invitations[x].claimedAfter
    BY <2>4, <2>5 DEF InvitationKept
  <2>9. /\ invitations'[x].activeAfter \in Nat /\ invitations'[x].claimedAfter \in Nat
        /\ invitations'[x].revokedAt \in Nat
    BY <2>2 DEF Invitation
  <2>10. CASE invitations'[x].claimed
    BY <1>0, <2>7, <2>8, <2>9, <2>10
  <2>11. CASE ~invitations'[x].claimed
    BY <1>3, <2>5, <2>7, <2>9, <2>11
  <2> QED BY <2>10, <2>11
<1> HIDE DEF ActsAt, OutstandingRetired
<1>9. GameplayAccepted(n)'
  BY <1>1, <1>2, <1>3, <1>4, <1>6, <1>7, <1>8 DEF GameplayAccepted
<1>10. EntryAccepted(n)'
  BY <1>1, <1>3, <1>9 DEF EntryAccepted
<1>11. EntryKnown(n)'
  BY <1>1, <1>3 DEF EntryKnown
<1> QED BY <1>2, <1>3, <1>10, <1>11 DEF Recorded

\* What every accepted host command records.
LEMMA HostRecorded ==
  ASSUME TypeOK, NoneAssumption, LogIsGapless, CommandAppliesOnce, HistoryStands,
         [Next]_vars, status = "active", bindings' = bindings,
         NEW h \in BindingId, NEW c \in CommandId, NEW v \in Nat,
         NEW name \in {"issueInvitation", "revokeInvitation"},
         NEW subject \in Side \cup InvitationId \cup {None},
         HostCommand(h, c, v, name, subject), NEW n, n = eventSequence + 1
  PROVE  /\ n \in Nat /\ eventSequence' = n
         /\ actions'[n].kind = "host_management" /\ actions'[n].name = name
         /\ actions'[n].binding = h /\ actions'[n].subject = subject
         /\ ActsAt(h, n)' /\ bindings'[h].role = "host"
         /\ HostAccepted(n)' /\ EntryKnown(n)' => Recorded(n)'
<1> DEFINE entry == HostEntry(name, h, c, v, subject)
<1>1. /\ entry \in Action /\ entry.sequence = n /\ entry.expectedVersion = v
      /\ entry.kind = "host_management" /\ entry.name = name
      /\ entry.resultingVersion = version
      /\ entry.pendingChoice = pendingChoice /\ entry.binding = h /\ entry.command = c
      /\ entry.subject = subject
  BY HostEntryType DEF HostEntry
<1>2. /\ Log(entry) /\ v = version /\ NewCommand(c)
      /\ IsActive(h) /\ bindings[h].role = "host"
      /\ version' = version /\ pendingChoice' = pendingChoice
  BY DEF HostCommand, Authorized
<1> HIDE DEF entry
<1>3. version = version + 0
  BY DEF TypeOK
<1>4. /\ n \in Nat /\ eventSequence' = n /\ actions'[n] = entry /\ EntryInOrder(n)'
      /\ VersionBefore(n + 1)' = version /\ ChoiceBefore(n + 1)' = pendingChoice
  BY <1>1, <1>2, <1>3, Chained
<1>5. ActsAt(h, n)'
  <2>1. ActsAt(h, n)
    BY <1>2, ActiveActs DEF HistoryStands
  <2> QED BY <2>1 DEF ActsAt, Issued
<1>6. ASSUME HostAccepted(n)', EntryKnown(n)'
      PROVE  Recorded(n)'
  <2>1. EntryAccepted(n)'
    BY <1>1, <1>4, <1>6 DEF EntryAccepted
  <2> QED BY <1>2, <1>4, <1>6, <2>1 DEF Recorded
<1> QED BY <1>1, <1>2, <1>4, <1>5, <1>6

LEMMA IssueRecorded ==
  ASSUME TypeOK, NoneAssumption, LogIsGapless, CommandAppliesOnce, HistoryStands,
         [Next]_vars, status = "active",
         NEW h \in BindingId, NEW c \in CommandId, NEW v \in Nat, NEW side \in Side,
         NEW i \in InvitationId, IssueInvitation(h, c, v, side, i), NEW n, n = eventSequence + 1
  PROVE  Recorded(n)'
<1>1. /\ HostCommand(h, c, v, "issueInvitation", side) /\ SeatVacant(side)
      /\ ~invitations[i].issued /\ bindings' = bindings
      /\ invitations' = [invitations EXCEPT ![i] = NewInvitation(side, n)]
  BY DEF IssueInvitation
<1>2. /\ n \in Nat /\ eventSequence' = n
      /\ actions'[n].kind = "host_management" /\ actions'[n].name = "issueInvitation"
      /\ actions'[n].binding = h /\ actions'[n].subject = side
      /\ ActsAt(h, n)' /\ bindings'[h].role = "host"
      /\ HostAccepted(n)' /\ EntryKnown(n)' => Recorded(n)'
  BY <1>1, HostRecorded
<1>3. eventSequence \in Nat
  BY DEF TypeOK
<1>4. invitations'[i].issued /\ invitations'[i].activeAfter = n /\ invitations'[i].seat = side
  BY <1>1 DEF TypeOK, NewInvitation, NoInvitation
<1>5. ASSUME NEW j \in InvitationId, j # i, invitations'[j].issued
      PROVE  invitations'[j].activeAfter # n
  <2>1. invitations'[j] = invitations[j]
    BY <1>1, <1>5 DEF TypeOK
  <2>2. invitations[j].activeAfter <= eventSequence /\ invitations[j].activeAfter \in Nat
    BY <1>5, <2>1 DEF HistoryStands, InvitationsDated, TypeOK, Invitation
  <2> QED BY <1>3, <2>1, <2>2
<1>6. {j \in InvitationId : invitations'[j].issued /\ invitations'[j].activeAfter = n} = {i}
  BY <1>4, <1>5
<1>7. ASSUME NEW b \in BindingId, bindings'[b].role = side
      PROVE  ~ActsAt(b, n)'
  <2>1. bindings[b].status # "active" /\ bindings'[b] = bindings[b]
    BY <1>1, <1>7 DEF SeatVacant, IsActive
  <2>2. bindings[b].status # "none" => bindings[b].inactiveFrom <= eventSequence + 1
    BY <2>1 DEF HistoryStands, BindingsDated, Issued, IsActive
  <2>3. bindings[b].inactiveFrom \in Nat
    BY DEF TypeOK, Binding
  <2> QED BY <1>3, <2>1, <2>2, <2>3 DEF ActsAt, Issued
<1> HIDE DEF ActsAt
<1>8. HostAccepted(n)'
  BY <1>2, <1>4, <1>6, <1>7 DEF HostAccepted
<1>9. EntryKnown(n)'
  BY <1>2 DEF EntryKnown
<1> QED BY <1>2, <1>8, <1>9

LEMMA RevokeRecorded ==
  ASSUME TypeOK, NoneAssumption, LogIsGapless, CommandAppliesOnce, HistoryStands,
         [Next]_vars, status = "active",
         NEW h \in BindingId, NEW c \in CommandId, NEW v \in Nat, NEW i \in InvitationId,
         RevokeInvitation(h, c, v, i), NEW n, n = eventSequence + 1
  PROVE  Recorded(n)'
<1>1. /\ HostCommand(h, c, v, "revokeInvitation", i) /\ Claimable(i) /\ bindings' = bindings
      /\ invitations'[i] = RevokedInvitation(i)
  BY DEF RevokeInvitation, TypeOK
<1>2. /\ n \in Nat /\ eventSequence' = n
      /\ actions'[n].kind = "host_management" /\ actions'[n].name = "revokeInvitation"
      /\ actions'[n].binding = h /\ actions'[n].subject = i
      /\ ActsAt(h, n)' /\ bindings'[h].role = "host"
      /\ HostAccepted(n)' /\ EntryKnown(n)' => Recorded(n)'
  <2>1. PICK subject \in Side \cup InvitationId \cup {None} : subject = i
    OBVIOUS
  <2>2. HostCommand(h, c, v, "revokeInvitation", subject) /\ bindings' = bindings
    BY <1>1, <2>1
  <2>3. /\ n \in Nat /\ eventSequence' = n
        /\ actions'[n].kind = "host_management" /\ actions'[n].name = "revokeInvitation"
        /\ actions'[n].binding = h /\ actions'[n].subject = subject
        /\ ActsAt(h, n)' /\ bindings'[h].role = "host"
        /\ HostAccepted(n)' /\ EntryKnown(n)' => Recorded(n)'
    BY <2>2, HostRecorded
  <2> QED BY <2>1, <2>3
<1>3. eventSequence \in Nat /\ invitations[i] \in Invitation
  BY DEF TypeOK
<1>4. invitations[i].activeAfter <= eventSequence /\ invitations[i].activeAfter \in Nat
  BY <1>1, <1>3 DEF Claimable, HistoryStands, InvitationsDated, Invitation
<1>5. /\ invitations'[i].issued /\ invitations'[i].revoked /\ ~invitations'[i].claimed
      /\ invitations'[i].activeAfter = invitations[i].activeAfter
      /\ invitations'[i].revokedAt = n
  BY <1>1, <1>3 DEF Claimable, RevokedInvitation, Invitation
<1> HIDE DEF ActsAt
<1>6. HostAccepted(n)'
  BY <1>2, <1>3, <1>4, <1>5 DEF HostAccepted
<1>7. EntryKnown(n)'
  BY <1>2, <1>5 DEF EntryKnown
<1> QED BY <1>2, <1>6, <1>7

LEMMA RotateRecorded ==
  ASSUME TypeOK, NoneAssumption, GrantsNameBindings, GrantsMatchBindings, LogIsGapless,
         CommandAppliesOnce, HistoryStands, [Next]_vars, status = "active",
         NEW g \in GrantId, NEW s \in Session, NEW b \in BindingId, RotateBinding(g, s, b),
         NEW n, n = eventSequence + 1
  PROVE  Recorded(n)'
<1> DEFINE entry == AuditEntry(g)
<1>1. /\ entry \in Action /\ entry.sequence = n /\ entry.expectedVersion = version
      /\ entry.kind = "operator_audit" /\ entry.name = "operatorRecovery"
      /\ entry.resultingVersion = version
      /\ entry.pendingChoice = pendingChoice /\ entry.command = None /\ entry.subject = g
  BY AuditEntryType DEF AuditEntry
<1>2. Log(entry) /\ version' = version /\ pendingChoice' = pendingChoice
  BY DEF RotateBinding, Audit
<1> HIDE DEF entry
<1>3. version = version + 0
  BY DEF TypeOK
<1>4. /\ n \in Nat /\ eventSequence' = n /\ actions'[n] = entry /\ EntryInOrder(n)'
      /\ VersionBefore(n + 1)' = version /\ ChoiceBefore(n + 1)' = pendingChoice
  BY <1>1, <1>2, <1>3, Chained
<1> PICK old \in BindingId : old = grants[g].oldBinding
  BY RotateBindings
<1>5. grants[g] \in Grant /\ eventSequence \in Nat
  BY DEF TypeOK
<1>6. /\ grants'[g].consumed /\ ~grants'[g].revoked /\ grants'[g].auditSequence = n
      /\ grants'[g].oldBinding = old /\ grants'[g].newBinding = b
      /\ grants'[g].role = grants[g].role
  BY <1>5 DEF RotateBinding, TypeOK, Grant
<1>7. /\ old # b /\ grants[g].issued /\ bindings[old].status = "active"
      /\ bindings'[old].status = "revoked" /\ bindings'[b].status = "active"
      /\ bindings'[old].role = bindings[old].role /\ bindings'[b].role = bindings[old].role
      /\ bindings'[old].version = bindings[old].version
      /\ bindings'[b].version = bindings[old].version + 1
  BY RotateBindings
<1>8. /\ bindings'[old].activeAfter = bindings[old].activeAfter
      /\ bindings'[old].inactiveFrom = n /\ bindings'[b].activeAfter = n
  BY RotateDates
<1>9. bindings[old].activeAfter <= eventSequence /\ bindings[old].activeAfter \in Nat
  BY <1>7 DEF HistoryStands, BindingsDated, Issued, IsActive, TypeOK, Binding
<1>10. bindings[old].role = grants[g].role
  BY <1>7 DEF GrantsMatchBindings
<1>11. /\ bindings'[old].inactiveFrom = n /\ bindings'[old].activeAfter < n
       /\ bindings'[b].activeAfter = n
       /\ bindings'[b].version = bindings'[old].version + 1
       /\ bindings'[old].role = grants'[g].role /\ bindings'[b].role = grants'[g].role
  BY <1>5, <1>6, <1>7, <1>8, <1>9, <1>10
<1>12. Issued(old)' /\ Issued(b)'
  BY <1>7 DEF Issued
<1>13. LET used == grants'[actions'[n].subject]
       IN /\ used.auditSequence = n /\ used.consumed /\ ~used.revoked
          /\ used.oldBinding = old /\ used.newBinding = b
          /\ used.role = grants'[g].role
  BY <1>1, <1>4, <1>6
<1> HIDE DEF Issued
<1>14. AuditAccepted(n)'
  BY <1>7, <1>11, <1>12, <1>13 DEF AuditAccepted
<1>15. EntryAccepted(n)'
  BY <1>1, <1>4, <1>14 DEF EntryAccepted
<1>16. EntryKnown(n)'
  BY <1>1, <1>4 DEF EntryKnown
<1> QED BY <1>2, <1>4, <1>15, <1>16 DEF Recorded

-----------------------------------------------------------------------------
(* The whole history, from the creation of the game on.                    *)

LEMMA HistoryStandsStep ==
  ASSUME NoneAssumption, IInv, TypeOK', HistoryStands, [Next]_vars,
         status = "active", status' = "active"
  PROVE  HistoryStands'
<1>1. /\ TypeOK /\ GrantsNameBindings /\ BindingsHaveSessions /\ SeatsExclusive /\ HostIsUnique
      /\ InvitationsAreIssued /\ GrantsMatchBindings /\ RecoveriesAreFresh /\ LogIsGapless
      /\ CommandAppliesOnce
  BY DEF IInv
<1>2. BindingsDated /\ InvitationsDated /\ Timeline
  BY DEF HistoryStands
<1>3. BindingsDated' /\ InvitationsDated' /\ Timeline'
  BY <1>1, <1>2, BindingsDatedStep, InvitationsDatedStep, TimelineStep
<1>4. /\ eventSequence \in Nat /\ DOMAIN actions = 1..eventSequence
      /\ \A n \in 1..eventSequence : EntryKnown(n)' /\ EntryAccepted(n)'
  <2>1. eventSequence \in Nat /\ DOMAIN actions = 1..eventSequence
    BY <1>1, LogKept
  <2>2. ASSUME NEW n \in 1..eventSequence PROVE EntryKnown(n)' /\ EntryAccepted(n)'
    <3>1. EntryKnown(n) /\ EntryAccepted(n)
      BY <2>1 DEF HistoryStands
    <3> QED BY <1>1, <1>2, <3>1, EntryKept
  <2> QED BY <2>1, <2>2
<1>5. LogIsGapless' /\ DOMAIN actions' = 1..eventSequence'
  <2>1. LogIsGapless'
    BY <1>1, LogIsGaplessStep
  <2> QED BY <2>1 DEF LogIsGapless, TypeOK
<1>6. CASE UNCHANGED <<version, eventSequence, pendingChoice, actions>>
  <2>1. /\ VersionBefore(eventSequence + 1)' = VersionBefore(eventSequence + 1)
        /\ ChoiceBefore(eventSequence + 1)' = ChoiceBefore(eventSequence + 1)
    BY <1>6 DEF VersionBefore, ChoiceBefore
  <2> QED BY <1>3, <1>4, <1>5, <1>6, <2>1 DEF HistoryStands
<1>7. ASSUME NEW n, n = eventSequence + 1, Recorded(n)'
      PROVE  HistoryStands'
  <2>1. eventSequence' = n /\ n \in Nat /\ 1..n = 1..eventSequence \cup {n}
    BY <1>4, <1>7 DEF Recorded
  <2>2. \A m \in DOMAIN actions' : EntryKnown(m)' /\ EntryAccepted(m)'
    BY <1>4, <1>5, <1>7, <2>1 DEF Recorded
  <2>3. /\ version' = VersionBefore(eventSequence + 1)'
        /\ pendingChoice' = ChoiceBefore(eventSequence + 1)'
    BY <1>7, <2>1 DEF Recorded, VersionBefore, ChoiceBefore
  <2> QED BY <1>3, <2>2, <2>3 DEF HistoryStands
<1>8. PICK n : n = eventSequence + 1
  OBVIOUS
<1>9. ASSUME NEW b \in BindingId, NEW c \in CommandId, NEW v \in Nat, NEW pending \in SUBSET Side,
             PlayCommand(b, c, v, pending)
      PROVE  Recorded(n)'
  BY <1>1, <1>8, <1>9, PlayRecorded
<1>10. ASSUME NEW b \in BindingId, NEW c \in CommandId, NEW v \in Nat, SurrenderSeat(b, c, v)
       PROVE  Recorded(n)'
  BY <1>1, <1>8, <1>10, SurrenderRecorded
<1>11. ASSUME NEW h \in BindingId, NEW c \in CommandId, NEW v \in Nat, NEW side \in Side,
              NEW i \in InvitationId, IssueInvitation(h, c, v, side, i)
       PROVE  Recorded(n)'
  BY <1>1, <1>8, <1>11, IssueRecorded
<1>12. ASSUME NEW h \in BindingId, NEW c \in CommandId, NEW v \in Nat, NEW i \in InvitationId,
              RevokeInvitation(h, c, v, i)
       PROVE  Recorded(n)'
  BY <1>1, <1>8, <1>12, RevokeRecorded
<1>13. ASSUME NEW g \in GrantId, NEW s \in Session, NEW b \in BindingId, RotateBinding(g, s, b)
       PROVE  Recorded(n)'
  BY <1>1, <1>8, <1>13, RotateRecorded
<1> QED
  BY <1>1, <1>6, <1>7, <1>8, <1>9, <1>10, <1>11, <1>12, <1>13, LiveLogSteps

\* A new game has two bindings, for different parts, an invitation and no entry.
LEMMA HistoryCreated ==
  ASSUME IInv, status = "absent", actions = <<>>, version = 0, pendingChoice = {},
         NEW side \in Side, NEW s \in Session, NEW h \in BindingId, NEW b \in BindingId,
         NEW i \in InvitationId, CreateGame(side, s, h, b, i)
  PROVE  HistoryStands'
<1>1. /\ TypeOK /\ eventSequence = 0 /\ DOMAIN actions = {}
      /\ \A x \in BindingId : bindings[x].status = "none"
      /\ \A x \in InvitationId : ~invitations[x].issued
  BY DEF IInv, LogIsGapless, OnlyLiveGamesBind, OnlyLiveGamesInvite
<1>2. /\ h # b
      /\ bindings'[h] = NewBinding("host", s, 1, 0) /\ bindings'[b] = NewBinding(side, s, 1, 0)
      /\ \A x \in BindingId \ {h, b} : bindings'[x] = bindings[x]
      /\ invitations'[i] = NewInvitation(OtherSide(side), 0)
      /\ \A x \in InvitationId \ {i} : invitations'[x] = invitations[x]
      /\ version' = version /\ eventSequence' = eventSequence /\ pendingChoice' = pendingChoice
      /\ actions' = actions
  BY <1>1 DEF CreateGame, TypeOK
<1>3. /\ bindings'[h].role = "host" /\ bindings'[h].status = "active"
      /\ bindings'[h].activeAfter = 0 /\ bindings'[h].inactiveFrom = 0
      /\ bindings'[b].role = side /\ bindings'[b].status = "active"
      /\ bindings'[b].activeAfter = 0 /\ bindings'[b].inactiveFrom = 0
  BY <1>2 DEF NewBinding
<1>4. /\ invitations'[i].activeAfter = 0 /\ ~invitations'[i].claimed /\ ~invitations'[i].revoked
  BY <1>2 DEF NewInvitation, NoInvitation
<1>5. BindingsDated'
  <2>1. ASSUME NEW x \in BindingId, bindings'[x].status # "none"
        PROVE  x \in {h, b}
    BY <1>1, <1>2, <2>1
  <2> QED BY <1>1, <1>2, <1>3, <2>1 DEF BindingsDated, Issued, IsActive
<1>6. InvitationsDated'
  BY <1>1, <1>2, <1>4 DEF InvitationsDated
<1>7. Timeline'
  <2>1. ASSUME NEW x \in BindingId, NEW y \in BindingId,
               bindings'[x].status # "none", bindings'[y].status # "none", x # y
        PROVE  bindings'[x].role # bindings'[y].role
    BY <1>1, <1>2, <1>3, <2>1
  <2> QED BY <2>1 DEF Timeline, Issued
<1>8. version' = VersionBefore(eventSequence + 1)' /\ pendingChoice' = ChoiceBefore(eventSequence + 1)'
  BY <1>1, <1>2 DEF VersionBefore, ChoiceBefore
<1> QED BY <1>1, <1>2, <1>5, <1>6, <1>7, <1>8 DEF HistoryStands

\* A game without a record stays without a history.
LEMMA StaysBlank ==
  ASSUME TypeOK, [Next]_vars, status' = "absent"
  PROVE  status = "absent" /\ UNCHANGED <<actions, version, pendingChoice>>
<1>1. 0..version \subseteq Nat
  BY DEF TypeOK
<1>2. ASSUME NEW h \in BindingId, NEW c \in CommandId, NEW v \in Nat, DeleteGame(h, c, v)
      PROVE  FALSE
  BY <1>2, DeleteBindings
<1>3. ~PurgeDeletedGame
  BY DEF PurgeDeletedGame
<1>4. ASSUME NEW side \in Side, NEW s \in Session, NEW h \in BindingId, NEW b \in BindingId,
             NEW i \in InvitationId, CreateGame(side, s, h, b, i)
      PROVE  FALSE
  BY <1>4 DEF CreateGame
<1>5. ASSUME NEW i \in InvitationId, NEW s \in Session, NEW b \in BindingId,
             ClaimInvitation(i, s, b)
      PROVE  FALSE
  BY <1>5 DEF ClaimInvitation
<1>6. ASSUME NEW b \in BindingId, NEW c \in CommandId, NEW v \in Nat, NEW pending \in SUBSET Side,
             PlayCommand(b, c, v, pending)
      PROVE  FALSE
  BY <1>6 DEF PlayCommand, Authorized
<1>7. ASSUME NEW b \in BindingId, NEW c \in CommandId, NEW v \in Nat, SurrenderSeat(b, c, v)
      PROVE  FALSE
  BY <1>7 DEF SurrenderSeat, Authorized
<1>8. ASSUME NEW h \in BindingId, NEW c \in CommandId, NEW v \in Nat, NEW side \in Side,
             NEW i \in InvitationId, IssueInvitation(h, c, v, side, i)
      PROVE  FALSE
  BY <1>8 DEF IssueInvitation, HostCommand, Authorized
<1>9. ASSUME NEW h \in BindingId, NEW c \in CommandId, NEW v \in Nat, NEW i \in InvitationId,
             RevokeInvitation(h, c, v, i)
      PROVE  FALSE
  BY <1>9 DEF RevokeInvitation, HostCommand, Authorized
<1>10. ASSUME NEW role \in Role, NEW g \in GrantId, IssueRecovery(role, g)
       PROVE  FALSE
  BY <1>10 DEF IssueRecovery
<1>11. ASSUME NEW g \in GrantId, NEW s \in Session, NEW b \in BindingId,
              \/ \E presented \in Session \cup {None} : ClaimSeatRecovery(g, s, b, presented)
              \/ ClaimHostRecovery(g, s, b)
       PROVE  FALSE
  BY <1>11 DEF ClaimSeatRecovery, ClaimHostRecovery, RotateBinding
<1>12. CASE \/ \E i \in InvitationId : ReapExpiredClaim(i) \/ InvitationExpires(i)
            \/ \E s \in Session : SessionExpires(s)
            \/ \E g \in GrantId : GrantExpires(g)
            \/ EraseExpiredSecrets
            \/ UNCHANGED vars
  BY <1>12 DEF ReapExpiredClaim, InvitationExpires, SessionExpires, GrantExpires,
               EraseExpiredSecrets, vars
<1>13. CASE Next
  BY <1>1, <1>2, <1>3, <1>4, <1>5, <1>6, <1>7, <1>8, <1>9, <1>10, <1>11, <1>12, <1>13 DEF Next
<1> QED BY <1>12, <1>13

\* A game that becomes active has just been created.
LEMMA OpensByCreation ==
  ASSUME TypeOK, GrantsNameBindings, [Next]_vars, status # "active", status' = "active"
  PROVE  /\ status = "absent"
         /\ \E side \in Side, s \in Session, h, b \in BindingId, i \in InvitationId :
              CreateGame(side, s, h, b, i)
<1>1. 0..version \subseteq Nat
  BY DEF TypeOK
<1>2. CASE \E i \in InvitationId, s \in Session, b \in BindingId : ClaimInvitation(i, s, b)
  BY <1>2, ClaimBindings
<1>3. ASSUME NEW b \in BindingId, NEW c \in CommandId, NEW v \in 0..version, SurrenderSeat(b, c, v)
      PROVE  FALSE
  BY <1>1, <1>3, SurrenderBindings
<1>4. ASSUME NEW h \in BindingId, NEW c \in CommandId, NEW v \in 0..version, DeleteGame(h, c, v)
      PROVE  FALSE
  BY <1>1, <1>4, DeleteBindings
<1>5. CASE \E g \in GrantId, s \in Session, b \in BindingId : RotateBinding(g, s, b)
  BY <1>5, RotateBindings
<1>6. CASE Quiet \/ PurgeDeletedGame \/ \E s \in Session : SessionExpires(s)
  BY <1>6, QuietBindings
<1>7. CASE \E side \in Side, s \in Session, h, b \in BindingId, i \in InvitationId :
             CreateGame(side, s, h, b, i)
  BY <1>7 DEF CreateGame
<1> QED BY <1>2, <1>3, <1>4, <1>5, <1>6, <1>7, AuthorityCases

LEMMA HistoryInvStep ==
  ASSUME NoneAssumption, IInv, TypeOK', HistoryInv, [Next]_vars
  PROVE  HistoryInv'
<1>1. TypeOK /\ GrantsNameBindings
  BY DEF IInv
<1>2. ASSUME status' = "absent"
      PROVE  actions' = <<>> /\ version' = 0 /\ pendingChoice' = {}
  BY <1>1, <1>2, StaysBlank DEF HistoryInv
<1>3. ASSUME status' = "active", status = "active"
      PROVE  HistoryStands'
  BY <1>3, HistoryStandsStep DEF HistoryInv
<1>4. ASSUME status' = "active", status # "active"
      PROVE  HistoryStands'
  <2>1. /\ status = "absent"
        /\ \E side \in Side, s \in Session, h, b \in BindingId, i \in InvitationId :
             CreateGame(side, s, h, b, i)
    BY <1>1, <1>4, OpensByCreation
  <2>2. actions = <<>> /\ version = 0 /\ pendingChoice = {}
    BY <2>1 DEF HistoryInv
  <2> QED BY <2>1, <2>2, HistoryCreated
<1> QED BY <1>2, <1>3, <1>4 DEF HistoryInv

\* What the validator demands of the whole snapshot follows.
LEMMA HistoryIsAccepted ==
  ASSUME TypeOK, LogIsGapless, HistoryInv
  PROVE  HistoryReplays
<1>1. SUFFICES ASSUME status = "active", HistoryStands PROVE ReplayAccepts
  BY DEF HistoryInv, HistoryReplays
<1>2. ASSUME NEW b \in BindingId, Issued(b) PROVE ChronologyAvailable(b)
  <2>1. bindings[b].activeAfter \in Nat /\ bindings[b].inactiveFrom \in Nat
    BY DEF TypeOK, Binding
  <2> QED BY <1>1, <1>2, <2>1 DEF HistoryStands, BindingsDated, ChronologyAvailable, IsActive
<1> QED BY <1>1, <1>2 DEF HistoryStands, LogIsGapless, ReplayAccepts

\* A live game never writes a history that its own replay validator refuses:
\* whatever the players, the host and the operator did, mandatory-replay.ts
\* accepts the log against the bindings, invitations and grants of the snapshot.
THEOREM HistoriesReplay == Spec => []HistoryReplays
<1>1. Init => HistoryInv
  BY DEF Init, HistoryInv
<1>2. HistoryInv /\ IInv /\ IInv' /\ [Next]_vars => HistoryInv'
  BY NoneAssumption, HistoryInvStep DEF IInv
<1>3. IInv /\ HistoryInv => HistoryReplays
  BY HistoryIsAccepted DEF IInv
<1>4. Spec => []HistoryInv
  BY <1>1, <1>2, Invariance, PTL DEF Spec
<1>5. QED
  BY <1>3, <1>4, Invariance, PTL

=============================================================================
