---------------------------- MODULE AccessProofs ----------------------------
(***************************************************************************)
(* Proofs about SpectatorAccess, for any limit, lifetime, number of        *)
(* browsers and length of the log.                                         *)
(***************************************************************************)
EXTENDS SpectatorAccess, FiniteSetTheorems, TLAPS

\* Every invitation has its own entry in the log, was claimed before it expired, and is
\* revoked in the log exactly when it is revoked in time.
InvitationsAreDated ==
  \A l \in DOMAIN invitations :
    LET inv == invitations[l] IN
    /\ inv.activeAfter \in 1..Sequence
    /\ actions[inv.activeAfter].name = "issue"
    /\ inv.issuedAt <= clock
    /\ Revoked(inv) <=> inv.revokedAfter # None
    /\ Claimed(inv) => /\ inv.claimedAt \in inv.issuedAt..(ExpiresAt(inv) - 1)
                       /\ inv.claimedAfter \in inv.activeAfter..Sequence
    /\ \A k \in DOMAIN invitations : invitations[k].activeAfter = inv.activeAfter => k = l

\* A binding says what its invitation says.
Agrees(b, inv) ==
  /\ Claimed(inv)
  /\ inv.binding = b.id /\ inv.session = b.session
  /\ b.activeAfter = inv.claimedAfter
  /\ b.revokedAt = inv.revokedAt /\ b.inactiveFrom = inv.revokedAfter

BindingsMatch ==
  /\ \A b \in bindings :
       b.lookup \in DOMAIN invitations /\ b.session \in sessions /\ Agrees(b, invitations[b.lookup])
  /\ \A l \in DOMAIN invitations : Claimed(invitations[l]) => \E b \in bindings : b.lookup = l

BindingsAreDistinct ==
  \A b, c \in bindings :
    \/ b.id = c.id
    \/ b.lookup = c.lookup
    \/ b.session = c.session /\ b.revokedAt = None /\ c.revokedAt = None
    => b = c

\* Identifiers are handed out in order.
BindingsAreCounted ==
  IsFiniteSet(bindings) /\ \A b \in bindings : b.id \in 1..Cardinality(bindings)

\* What was answered is what the invitation records, and so is the credential it keeps.
AnswersMatch ==
  /\ \A a \in answers :
       /\ a.lookup \in DOMAIN invitations
       /\ LET inv == invitations[a.lookup] IN
            Claimed(inv) /\ a = [lookup |-> a.lookup, claimId |-> inv.claimId, session |-> inv.session]
  /\ \A l \in DOMAIN invitations : invitations[l].credential \in {None, invitations[l].session}

OpenInv ==
  /\ BindingsMatch
  /\ AnswersMatch
  /\ Cardinality(Occupying(clock)) <= Limit

AccessInv ==
  /\ TypeOK
  /\ IsFiniteSet(DOMAIN invitations)
  /\ InvitationsAreDated
  /\ BindingsAreDistinct
  /\ BindingsAreCounted
  /\ OneClaimAnInvitation
  /\ ~deleted => OpenInv

-----------------------------------------------------------------------------
(* What becomes of an invitation, field by field. *)

LEMMA NewIs ==
  ASSUME clock \in Nat, Sequence \in Nat
  PROVE  /\ NewInvitation \in Invitation
         /\ ~Claimed(NewInvitation) /\ ~Revoked(NewInvitation)
         /\ NewInvitation.issuedAt = clock /\ NewInvitation.activeAfter = Sequence + 1
         /\ NewInvitation.revokedAfter = None /\ NewInvitation.credential = None
BY DEF NewInvitation, Invitation, Claimed, Revoked

LEMMA TakenIs ==
  ASSUME NEW inv \in Invitation, NEW b \in Nat, NEW s \in Session, NEW id \in ClaimId,
         clock \in Nat, Sequence \in Nat
  PROVE  /\ Taken(inv, b, s, id) \in Invitation
         /\ Claimed(Taken(inv, b, s, id))
         /\ Taken(inv, b, s, id).issuedAt = inv.issuedAt
         /\ Taken(inv, b, s, id).activeAfter = inv.activeAfter
         /\ Taken(inv, b, s, id).claimedAt = clock
         /\ Taken(inv, b, s, id).claimId = id
         /\ Taken(inv, b, s, id).session = s
         /\ Taken(inv, b, s, id).credential = s
         /\ Taken(inv, b, s, id).claimedAfter = Sequence
         /\ Taken(inv, b, s, id).binding = b
         /\ Taken(inv, b, s, id).revokedAt = inv.revokedAt
         /\ Taken(inv, b, s, id).revokedAfter = inv.revokedAfter
<1> AccessAssumption BY AccessAssumption
<1> QED BY DEF Taken, Invitation, Claimed, AccessAssumption

\* What Ended, Retired and Erased leave alone.
SameClaim(new, old) ==
  /\ new.issuedAt = old.issuedAt /\ new.activeAfter = old.activeAfter
  /\ new.claimedAt = old.claimedAt /\ new.claimId = old.claimId
  /\ new.claimedAfter = old.claimedAfter /\ new.binding = old.binding

LEMMA EndedIs ==
  ASSUME NEW inv \in Invitation, clock \in Nat, Sequence \in Nat
  PROVE  /\ Ended(inv) \in Invitation
         /\ SameClaim(Ended(inv), inv)
         /\ Ended(inv).session = inv.session /\ Ended(inv).credential = None
         /\ Ended(inv).revokedAt = clock /\ Ended(inv).revokedAfter = Sequence + 1
<1>1. Ended(inv) \in Invitation
  <2>1. /\ Sequence + 1 \in Nat
        /\ [inv EXCEPT !.revokedAt = clock] \in Invitation
    BY DEF Invitation
  <2>2. [[inv EXCEPT !.revokedAt = clock] EXCEPT !.revokedAfter = Sequence + 1] \in Invitation
    BY <2>1 DEF Invitation
  <2>3. [[[inv EXCEPT !.revokedAt = clock] EXCEPT !.revokedAfter = Sequence + 1]
          EXCEPT !.credential = None] \in Invitation
    BY <2>2 DEF Invitation
  <2> QED BY <2>3 DEF Ended
<1>2. /\ Ended(inv).session = inv.session /\ Ended(inv).credential = None
      /\ Ended(inv).revokedAt = clock /\ Ended(inv).revokedAfter = Sequence + 1
  BY DEF Ended, Invitation
<1>3. SameClaim(Ended(inv), inv)
  BY DEF Ended, Invitation, SameClaim
<1> QED BY <1>1, <1>2, <1>3

LEMMA RetiredIs ==
  ASSUME NEW inv \in Invitation, clock \in Nat, Sequence \in Nat,
         Revoked(inv) <=> inv.revokedAfter # None
  PROVE  /\ Retired(inv) \in Invitation
         /\ SameClaim(Retired(inv), inv)
         /\ Revoked(Retired(inv)) /\ Retired(inv).revokedAfter # None
<1>1. /\ inv.revokedAt \in Nat \cup {None} /\ inv.revokedAfter \in Nat \cup {None}
      /\ clock # None /\ Sequence + 1 \in Nat /\ Sequence + 1 # None
  BY AccessAssumption DEF Invitation, AccessAssumption
<1>2. Retired(inv) \in Invitation
  <2> DEFINE at == IF Revoked(inv) THEN inv.revokedAt ELSE clock
             after == IF Revoked(inv) THEN inv.revokedAfter ELSE Sequence + 1
  <2>1. at \in Nat \cup {None} /\ after \in Nat \cup {None}
    BY <1>1
  <2>2. Retired(inv) = [inv EXCEPT !.revokedAt = at, !.revokedAfter = after,
                                   !.credential = None, !.session = None]
    BY DEF Retired
  <2> HIDE DEF at, after
  <2>3. [inv EXCEPT !.revokedAt = at] \in Invitation
    BY <2>1 DEF Invitation
  <2>4. [[inv EXCEPT !.revokedAt = at] EXCEPT !.revokedAfter = after] \in Invitation
    BY <2>1, <2>3 DEF Invitation
  <2>5. [[[inv EXCEPT !.revokedAt = at] EXCEPT !.revokedAfter = after]
          EXCEPT !.credential = None] \in Invitation
    BY <2>4 DEF Invitation
  <2>6. [[[[inv EXCEPT !.revokedAt = at] EXCEPT !.revokedAfter = after]
          EXCEPT !.credential = None] EXCEPT !.session = None] \in Invitation
    BY <2>5 DEF Invitation
  <2> QED BY <2>2, <2>6
<1>3. SameClaim(Retired(inv), inv)
  BY DEF Retired, Invitation, SameClaim
<1>4. Revoked(Retired(inv)) /\ Retired(inv).revokedAfter # None
  BY <1>1 DEF Retired, Invitation, Revoked
<1> QED BY <1>2, <1>3, <1>4

LEMMA ErasedIs ==
  ASSUME NEW inv \in Invitation
  PROVE  /\ Erased(inv) \in Invitation
         /\ SameClaim(Erased(inv), inv)
         /\ Erased(inv).session = inv.session /\ Erased(inv).credential \in {None, inv.credential}
         /\ Erased(inv).revokedAt = inv.revokedAt /\ Erased(inv).revokedAfter = inv.revokedAfter
BY DEF Erased, Invitation, SameClaim
-----------------------------------------------------------------------------
(* The log, and actions that neither issue nor claim. *)

\* The log only grows.
LogKept == Sequence' >= Sequence /\ \A i \in 1..Sequence : actions'[i] = actions[i]

LEMMA RecordIs ==
  ASSUME TypeOK, NEW name \in {"issue", "revokeInvitation", "revokeAccess", "delete", "play"},
         NEW l \in Lookup \cup {None}, Record(name, l)
  PROVE  /\ actions' \in Seq(Action)
         /\ Sequence' = Sequence + 1 /\ Sequence \in Nat
         /\ LogKept
         /\ actions'[Sequence + 1] = [name |-> name, lookup |-> l]
<1>1. [name |-> name, lookup |-> l] \in Action
  BY DEF Action
<1> QED BY <1>1 DEF TypeOK, Record, Sequence, LogKept

\* No invitation is added or claimed, and none that was revoked comes back.
Kept ==
  /\ LogKept
  /\ clock' >= clock
  /\ DOMAIN invitations' = DOMAIN invitations
  /\ \A l \in DOMAIN invitations :
       /\ SameClaim(invitations'[l], invitations[l])
       /\ Revoked(invitations[l]) => Revoked(invitations'[l])
       /\ Revoked(invitations'[l]) <=> invitations'[l].revokedAfter # None

LEMMA Typed ==
  ASSUME TypeOK
  PROVE  /\ \A l \in DOMAIN invitations : invitations[l] \in Invitation
         /\ Sequence \in Nat /\ clock \in Nat
BY AccessAssumption DEF TypeOK, Sequence, AccessAssumption

LEMMA KeptIsDated ==
  ASSUME TypeOK, TypeOK', Kept, InvitationsAreDated
  PROVE  InvitationsAreDated'
<1> SUFFICES ASSUME NEW l \in DOMAIN invitations
             PROVE  LET new == invitations'[l] IN
                    /\ new.activeAfter \in 1..Sequence'
                    /\ actions'[new.activeAfter].name = "issue"
                    /\ new.issuedAt <= clock'
                    /\ Revoked(new) <=> new.revokedAfter # None
                    /\ Claimed(new) => /\ new.claimedAt \in new.issuedAt..(ExpiresAt(new) - 1)
                                       /\ new.claimedAfter \in new.activeAfter..Sequence'
                    /\ \A k \in DOMAIN invitations :
                         invitations'[k].activeAfter = new.activeAfter => k = l
  BY DEF InvitationsAreDated, Kept, Revoked, Claimed, ExpiresAt
<1> DEFINE old == invitations[l]
           new == invitations'[l]
<1>1. SameClaim(new, old) /\ (Revoked(new) <=> new.revokedAfter # None)
  BY DEF Kept
<1>2. /\ old \in Invitation /\ Sequence \in Nat /\ clock \in Nat
      /\ Sequence' \in Nat /\ clock' \in Nat /\ Sequence' >= Sequence /\ clock' >= clock
  BY Typed, AccessAssumption DEF TypeOK, Kept, LogKept, Sequence, AccessAssumption
<1>3. /\ old.activeAfter \in 1..Sequence
      /\ actions[old.activeAfter].name = "issue"
      /\ old.issuedAt <= clock
      /\ Claimed(old) => /\ old.claimedAt \in old.issuedAt..(ExpiresAt(old) - 1)
                         /\ old.claimedAfter \in old.activeAfter..Sequence
      /\ \A k \in DOMAIN invitations : invitations[k].activeAfter = old.activeAfter => k = l
  BY DEF InvitationsAreDated
<1>4. new.activeAfter \in 1..Sequence' /\ actions'[new.activeAfter].name = "issue"
  BY <1>1, <1>2, <1>3 DEF SameClaim, Kept, LogKept
<1>5. new.issuedAt <= clock'
  BY <1>1, <1>2, <1>3 DEF SameClaim, Invitation
<1>6. Claimed(new) => /\ new.claimedAt \in new.issuedAt..(ExpiresAt(new) - 1)
                      /\ new.claimedAfter \in new.activeAfter..Sequence'
  BY <1>1, <1>2, <1>3 DEF SameClaim, Claimed, ExpiresAt, Invitation
<1>7. \A k \in DOMAIN invitations : invitations'[k].activeAfter = new.activeAfter => k = l
  BY <1>1, <1>3 DEF SameClaim, Kept
<1> QED BY <1>1, <1>4, <1>5, <1>6, <1>7

LEMMA KeptOccupies ==
  ASSUME TypeOK, TypeOK', Kept, IsFiniteSet(DOMAIN invitations),
         Cardinality(Occupying(clock)) <= Limit
  PROVE  Cardinality(Occupying(clock)') <= Limit
<1>1. Occupying(clock)' \subseteq Occupying(clock)
  <2> SUFFICES ASSUME NEW l \in DOMAIN invitations,
                      ~Revoked(invitations'[l]),
                      Claimed(invitations'[l]) \/ ExpiresAt(invitations'[l]) > clock'
               PROVE  ~Revoked(invitations[l])
                      /\ (Claimed(invitations[l]) \/ ExpiresAt(invitations[l]) > clock)
    BY DEF Occupying, Kept, Revoked, Claimed, ExpiresAt
  <2>1. ~Revoked(invitations[l]) /\ SameClaim(invitations'[l], invitations[l])
    BY DEF Kept
  <2>2. /\ invitations[l] \in Invitation /\ clock \in Nat /\ clock' \in Nat /\ clock' >= clock
    BY Typed, AccessAssumption DEF TypeOK, Kept, AccessAssumption
  <2>3. ExpiresAt(invitations'[l]) = ExpiresAt(invitations[l]) /\ ExpiresAt(invitations[l]) \in Nat
    BY <2>1, <2>2, AccessAssumption DEF SameClaim, ExpiresAt, Invitation, AccessAssumption
  <2> QED BY <2>1, <2>2, <2>3 DEF SameClaim, Claimed
<1>2. IsFiniteSet(Occupying(clock))
  BY FS_Subset DEF Occupying
<1>3. Cardinality(Occupying(clock)') <= Cardinality(Occupying(clock)) /\ IsFiniteSet(Occupying(clock)')
  BY <1>1, <1>2, FS_Subset
<1>4. Cardinality(Occupying(clock)) \in Nat /\ Cardinality(Occupying(clock)') \in Nat /\ Limit \in Nat
  BY <1>2, <1>3, FS_CardinalityType, AccessAssumption DEF AccessAssumption
<1> QED BY <1>3, <1>4
\* An answer that the invitation bears out.
Answered(a) ==
  /\ a.lookup \in DOMAIN invitations
  /\ LET inv == invitations[a.lookup] IN
       Claimed(inv) /\ a = [lookup |-> a.lookup, claimId |-> inv.claimId, session |-> inv.session]

\* Bindings stay, and nothing changes about a claimed invitation but its credential.
Quiet ==
  /\ Kept
  /\ UNCHANGED <<bindings, sessions, deleted>>
  /\ \A l \in DOMAIN invitations :
       LET old == invitations[l]
           new == invitations'[l] IN
       /\ new.session = old.session /\ new.credential \in {None, old.credential}
       /\ Claimed(old) => new.revokedAt = old.revokedAt /\ new.revokedAfter = old.revokedAfter
  /\ \/ UNCHANGED answers
     \/ ~deleted /\ \A a \in answers' : a \in answers \/ Answered(a)

LEMMA OneAnswer ==
  ASSUME AnswersMatch
  PROVE  OneClaimAnInvitation
BY DEF AnswersMatch, OneClaimAnInvitation

LEMMA QuietKeeps ==
  ASSUME AccessInv, TypeOK', Quiet
  PROVE  AccessInv'
<1> USE DEF AccessInv, Quiet
<1>1. IsFiniteSet(DOMAIN invitations') /\ InvitationsAreDated'
  BY KeptIsDated DEF Kept
<1>2. BindingsAreDistinct' /\ BindingsAreCounted'
  BY DEF BindingsAreDistinct, BindingsAreCounted
<1>3. ASSUME ~deleted PROVE AnswersMatch'
  <2> AnswersMatch /\ deleted' = deleted BY <1>3 DEF OpenInv
  <2>1. ASSUME NEW a \in answers'
        PROVE  /\ a.lookup \in DOMAIN invitations'
               /\ LET inv == invitations'[a.lookup] IN
                    Claimed(inv) /\ a = [lookup |-> a.lookup, claimId |-> inv.claimId, session |-> inv.session]
    <3>1. Answered(a)
      BY <2>1 DEF AnswersMatch, Answered
    <3> QED BY <3>1 DEF Answered, Kept, SameClaim, Claimed
  <2>2. \A l \in DOMAIN invitations' : invitations'[l].credential \in {None, invitations'[l].session}
    BY DEF AnswersMatch, Kept
  <2> QED BY <2>1, <2>2 DEF AnswersMatch, Claimed
<1>4. ASSUME ~deleted PROVE BindingsMatch'
  <2> BindingsMatch BY <1>4 DEF OpenInv
  <2>1. ASSUME NEW b \in bindings
        PROVE  b.lookup \in DOMAIN invitations' /\ b.session \in sessions'
               /\ Agrees(b, invitations'[b.lookup])
    BY <2>1 DEF BindingsMatch, Agrees, Kept, SameClaim, Claimed
  <2>2. \A l \in DOMAIN invitations' : Claimed(invitations'[l]) => \E b \in bindings : b.lookup = l
    BY DEF BindingsMatch, Kept, SameClaim, Claimed
  <2> QED BY <2>1, <2>2 DEF BindingsMatch, Agrees, Claimed
<1>5. ~deleted' => OpenInv'
  BY <1>3, <1>4, KeptOccupies DEF OpenInv
<1>6. OneClaimAnInvitation'
  <2>1. CASE UNCHANGED answers BY <2>1 DEF OneClaimAnInvitation
  <2>2. CASE ~deleted BY <2>2, <1>3, OneAnswer, PTL
  <2> QED BY <2>1, <2>2
<1> QED BY <1>1, <1>2, <1>5, <1>6
-----------------------------------------------------------------------------
(* The actions, one by one. *)

LEMMA RevokeInvitationKeeps ==
  ASSUME AccessInv, NEW l \in Lookup, RevokeSpectatorInvitation(l)
  PROVE  AccessInv'
<1> USE DEF AccessInv, RevokeSpectatorInvitation
<1>1. actions' \in Seq(Action) /\ Sequence' = Sequence + 1 /\ LogKept
  BY RecordIs
<1>2. /\ \A k \in DOMAIN invitations : invitations[k] \in Invitation
      /\ Sequence \in Nat /\ clock \in Nat /\ clock # None
  BY Typed, AccessAssumption DEF AccessAssumption
<1>3. /\ Ended(invitations[l]) \in Invitation
      /\ SameClaim(Ended(invitations[l]), invitations[l])
      /\ Ended(invitations[l]).session = invitations[l].session
      /\ Ended(invitations[l]).credential = None
      /\ Revoked(Ended(invitations[l])) /\ Ended(invitations[l]).revokedAfter # None
  BY <1>2, EndedIs, AccessAssumption DEF Revoked, AccessAssumption
<1>4. TypeOK'
  BY <1>1, <1>3 DEF TypeOK
<1>5. \A k \in DOMAIN invitations :
        invitations'[k] = IF k = l THEN Ended(invitations[l]) ELSE invitations[k]
  OBVIOUS
<1>6. Kept
  BY <1>1, <1>2, <1>3, <1>5 DEF Kept, SameClaim, InvitationsAreDated
<1> QED BY <1>3, <1>4, <1>5, <1>6, QuietKeeps DEF Quiet

LEMMA PurgeKeeps ==
  ASSUME AccessInv, Purge
  PROVE  AccessInv'
<1> USE DEF AccessInv, Purge
<1>1. CASE deleted
  <2>1. invitations' = <<>> /\ DOMAIN invitations' = {}
    BY <1>1
  <2>2. TypeOK'
    BY <2>1 DEF TypeOK
  <2>3. IsFiniteSet(DOMAIN invitations') /\ InvitationsAreDated'
    BY <2>1, FS_EmptySet DEF InvitationsAreDated
  <2>4. BindingsAreDistinct' /\ BindingsAreCounted' /\ OneClaimAnInvitation' /\ deleted'
    BY <1>1 DEF BindingsAreDistinct, BindingsAreCounted, OneClaimAnInvitation
  <2> QED BY <2>2, <2>3, <2>4
<1>2. CASE ~deleted
  <2>1. /\ DOMAIN invitations' = DOMAIN invitations
        /\ \A l \in DOMAIN invitations : invitations'[l] = Erased(invitations[l])
    BY <1>2
  <2>2. \A l \in DOMAIN invitations :
          /\ Erased(invitations[l]) \in Invitation
          /\ SameClaim(Erased(invitations[l]), invitations[l])
          /\ Erased(invitations[l]).session = invitations[l].session
          /\ Erased(invitations[l]).credential \in {None, invitations[l].credential}
          /\ Erased(invitations[l]).revokedAt = invitations[l].revokedAt
          /\ Erased(invitations[l]).revokedAfter = invitations[l].revokedAfter
    BY Typed, ErasedIs
  <2>3. TypeOK'
    BY <1>2, <2>1, <2>2 DEF TypeOK
  <2>4. Kept
    BY <2>1, <2>2, Typed DEF Kept, LogKept, Sequence, Revoked, InvitationsAreDated
  <2> QED BY <2>1, <2>2, <2>3, <2>4, QuietKeeps DEF Quiet
<1> QED BY <1>1, <1>2

LEMMA StillKeeps ==
  ASSUME AccessInv, TypeOK', LogKept, clock' >= clock,
         UNCHANGED <<invitations, bindings, sessions, deleted>>,
         \/ UNCHANGED answers
         \/ ~deleted /\ \A a \in answers' : a \in answers \/ Answered(a)
  PROVE  AccessInv'
<1>1. Kept
  BY DEF AccessInv, Kept, SameClaim, InvitationsAreDated
<1> QED BY <1>1, QuietKeeps DEF Quiet

LEMMA PlayKeeps ==
  ASSUME AccessInv, Play
  PROVE  AccessInv'
<1>1. actions' \in Seq(Action) /\ LogKept
  BY RecordIs DEF AccessInv, Play
<1>2. TypeOK' /\ clock' >= clock
  BY <1>1, AccessAssumption DEF AccessInv, Play, TypeOK, AccessAssumption
<1> QED BY <1>1, <1>2, StillKeeps DEF Play

LEMMA TickKeeps ==
  ASSUME AccessInv, Tick
  PROVE  AccessInv'
<1>1. TypeOK' /\ clock' >= clock
  BY AccessAssumption DEF AccessInv, Tick, TypeOK, AccessAssumption
<1>2. LogKept
  BY Typed DEF AccessInv, Tick, LogKept, Sequence
<1> QED BY <1>1, <1>2, StillKeeps DEF Tick

LEMMA SessionExpiresKeeps ==
  ASSUME AccessInv, NEW s \in Session, SessionExpires(s)
  PROVE  AccessInv'
<1>1. TypeOK' /\ clock' >= clock
  BY AccessAssumption DEF AccessInv, SessionExpires, TypeOK, AccessAssumption
<1>2. LogKept
  BY Typed DEF AccessInv, SessionExpires, LogKept, Sequence
<1> QED BY <1>1, <1>2, StillKeeps DEF SessionExpires

LEMMA RetryClaimKeeps ==
  ASSUME AccessInv, NEW l \in Lookup, NEW id \in ClaimId, RetryClaim(l, id)
  PROVE  AccessInv'
<1> DEFINE inv == invitations[l]
<1>1. TypeOK' /\ clock' >= clock
  BY AccessAssumption DEF AccessInv, RetryClaim, TypeOK, AccessAssumption
<1>2. LogKept
  BY Typed DEF AccessInv, RetryClaim, LogKept, Sequence
<1>3. ~deleted /\ l \in DOMAIN invitations /\ Claimed(inv) /\ inv.claimId = id
  BY DEF RetryClaim, Claimable
<1>4. inv.credential \in Session
  BY DEF RetryClaim, Current, AccessInv, TypeOK
<1>5. inv.credential = inv.session
  BY <1>3, <1>4, AccessAssumption DEF AccessInv, OpenInv, AnswersMatch, AccessAssumption
<1>6. \A a \in answers' : a \in answers \/ Answered(a)
  BY <1>3, <1>5 DEF RetryClaim, Answered
<1> QED BY <1>1, <1>2, <1>3, <1>6, StillKeeps DEF RetryClaim
LEMMA DeleteGameKeeps ==
  ASSUME AccessInv, DeleteGame
  PROVE  AccessInv'
<1> USE DEF AccessInv, DeleteGame
<1>1. actions' \in Seq(Action) /\ LogKept
  BY RecordIs
<1>2. /\ DOMAIN invitations' = DOMAIN invitations
      /\ \A l \in DOMAIN invitations : invitations'[l] = Retired(invitations[l])
  OBVIOUS
<1>3. \A l \in DOMAIN invitations :
        /\ Retired(invitations[l]) \in Invitation
        /\ SameClaim(Retired(invitations[l]), invitations[l])
        /\ Revoked(Retired(invitations[l])) /\ Retired(invitations[l]).revokedAfter # None
  BY Typed, RetiredIs DEF InvitationsAreDated
<1>4. TypeOK'
  BY <1>1, <1>2, <1>3 DEF TypeOK
<1>5. Kept
  BY <1>1, <1>2, <1>3, Typed DEF Kept, Revoked
<1>6. IsFiniteSet(DOMAIN invitations') /\ InvitationsAreDated'
  BY <1>2, <1>4, <1>5, KeptIsDated
<1>7. BindingsAreDistinct' /\ BindingsAreCounted' /\ OneClaimAnInvitation' /\ deleted'
  BY FS_EmptySet DEF BindingsAreDistinct, BindingsAreCounted, OneClaimAnInvitation
<1> QED BY <1>4, <1>6, <1>7

LEMMA IssueKeeps ==
  ASSUME AccessInv, NEW l \in Lookup, IssueSpectatorInvitation(l)
  PROVE  AccessInv'
<1> USE DEF AccessInv, IssueSpectatorInvitation
<1>1. actions' \in Seq(Action) /\ Sequence' = Sequence + 1 /\ LogKept
      /\ actions'[Sequence + 1] = [name |-> "issue", lookup |-> l]
  BY RecordIs
<1>2. /\ DOMAIN invitations' = DOMAIN invitations \cup {l} /\ l \notin DOMAIN invitations
      /\ invitations'[l] = NewInvitation
      /\ \A k \in DOMAIN invitations : invitations'[k] = invitations[k]
  OBVIOUS
<1>3. /\ \A k \in DOMAIN invitations : invitations[k] \in Invitation
      /\ Sequence \in Nat /\ clock \in Nat /\ OpenInv
  BY Typed
<1>4. /\ NewInvitation \in Invitation
      /\ ~Claimed(NewInvitation) /\ ~Revoked(NewInvitation)
      /\ NewInvitation.issuedAt = clock /\ NewInvitation.activeAfter = Sequence + 1
      /\ NewInvitation.revokedAfter = None /\ NewInvitation.credential = None
  BY <1>3, NewIs
<1>5. TypeOK'
  BY <1>1, <1>2, <1>4 DEF TypeOK
<1>6. IsFiniteSet(DOMAIN invitations')
  BY <1>2, FS_AddElement
<1>7. InvitationsAreDated'
  <2>1. \A k \in DOMAIN invitations :
          LET inv == invitations'[k] IN
          /\ inv.activeAfter \in 1..Sequence' /\ inv.activeAfter # Sequence + 1
          /\ actions'[inv.activeAfter].name = "issue"
          /\ inv.issuedAt <= clock
          /\ Revoked(inv) <=> inv.revokedAfter # None
          /\ Claimed(inv) => /\ inv.claimedAt \in inv.issuedAt..(ExpiresAt(inv) - 1)
                             /\ inv.claimedAfter \in inv.activeAfter..Sequence'
          /\ \A j \in DOMAIN invitations : invitations'[j].activeAfter = inv.activeAfter => j = k
    BY <1>1, <1>2, <1>3 DEF InvitationsAreDated, LogKept, Invitation
  <2>2. LET inv == invitations'[l] IN
          /\ inv.activeAfter = Sequence + 1 /\ Sequence + 1 \in 1..Sequence'
          /\ actions'[inv.activeAfter].name = "issue"
          /\ inv.issuedAt <= clock
          /\ Revoked(inv) <=> inv.revokedAfter # None
          /\ ~Claimed(inv)
    BY <1>1, <1>2, <1>3, <1>4
  <2> QED BY <1>2, <2>1, <2>2 DEF InvitationsAreDated, Revoked, Claimed, ExpiresAt
<1>8. BindingsAreDistinct' /\ BindingsAreCounted' /\ OneClaimAnInvitation'
  BY DEF BindingsAreDistinct, BindingsAreCounted, OneClaimAnInvitation
<1>9. BindingsMatch' /\ AnswersMatch'
  BY <1>2, <1>3, <1>4 DEF OpenInv, BindingsMatch, AnswersMatch, Agrees, Claimed
<1>10. Cardinality(Occupying(clock)') <= Limit
  <2>1. Occupying(clock)' \subseteq Occupying(clock) \cup {l}
    BY <1>2 DEF Occupying, Revoked, Claimed, ExpiresAt
  <2>2. IsFiniteSet(Occupying(clock)) /\ l \notin Occupying(clock)
    BY FS_Subset DEF Occupying
  <2>3. /\ IsFiniteSet(Occupying(clock) \cup {l})
        /\ Cardinality(Occupying(clock) \cup {l}) = Cardinality(Occupying(clock)) + 1
    BY <2>2, FS_AddElement
  <2>4. /\ IsFiniteSet(Occupying(clock)')
        /\ Cardinality(Occupying(clock)') <= Cardinality(Occupying(clock) \cup {l})
    BY <2>1, <2>3, FS_Subset
  <2>5. Cardinality(Occupying(clock)) \in Nat /\ Cardinality(Occupying(clock)') \in Nat /\ Limit \in Nat
    BY <2>2, <2>4, FS_CardinalityType, AccessAssumption DEF AccessAssumption
  <2>6. Cardinality(Occupying(clock)) < Limit
    OBVIOUS
  <2> QED BY <2>3, <2>4, <2>5, <2>6
<1> QED BY <1>5, <1>6, <1>7, <1>8, <1>9, <1>10 DEF OpenInv

LEMMA RevokeAccessKeeps ==
  ASSUME AccessInv, NEW l \in Lookup, RevokeSpectatorAccess(l)
  PROVE  AccessInv'
<1> USE DEF AccessInv
<1>1. PICK b \in bindings :
        /\ b.id = invitations[l].binding /\ b.lookup = l /\ b.revokedAt = None
        /\ bindings' = (bindings \ {b})
                         \cup {[b EXCEPT !.revokedAt = clock, !.inactiveFrom = Sequence + 1]}
  BY DEF RevokeSpectatorAccess
<1> DEFINE c == [b EXCEPT !.revokedAt = clock, !.inactiveFrom = Sequence + 1]
<1>2. /\ actions' \in Seq(Action) /\ Sequence' = Sequence + 1 /\ LogKept
      /\ \A k \in DOMAIN invitations : invitations[k] \in Invitation
      /\ Sequence \in Nat /\ clock \in Nat /\ clock # None
      /\ ~deleted /\ ~deleted' /\ OpenInv /\ l \in DOMAIN invitations
      /\ clock' = clock /\ answers' = answers /\ sessions' = sessions /\ expired' = expired
  BY RecordIs, Typed, AccessAssumption DEF AccessAssumption, RevokeSpectatorAccess
<1>3. /\ Ended(invitations[l]) \in Invitation
      /\ SameClaim(Ended(invitations[l]), invitations[l])
      /\ Ended(invitations[l]).session = invitations[l].session
      /\ Ended(invitations[l]).credential = None
      /\ Ended(invitations[l]).revokedAt = clock /\ Ended(invitations[l]).revokedAfter = Sequence + 1
      /\ Revoked(Ended(invitations[l])) /\ Ended(invitations[l]).revokedAfter # None
  BY <1>2, EndedIs, AccessAssumption DEF Revoked, AccessAssumption
<1>4. /\ DOMAIN invitations' = DOMAIN invitations
      /\ invitations'[l] = Ended(invitations[l])
      /\ \A k \in DOMAIN invitations : k # l => invitations'[k] = invitations[k]
  BY DEF RevokeSpectatorAccess
<1>5. /\ c \in SpectatorBinding
      /\ c.id = b.id /\ c.lookup = l /\ c.session = b.session /\ c.activeAfter = b.activeAfter
      /\ c.revokedAt = clock /\ c.inactiveFrom = Sequence + 1
  <2>1. b \in SpectatorBinding BY DEF TypeOK
  <2>2. Sequence + 1 \in Nat BY <1>2
  <2> QED BY <1>1, <1>2, <2>1, <2>2 DEF SpectatorBinding
<1>a. bindings' = (bindings \ {b}) \cup {c}
  BY <1>1
<1> HIDE DEF c
<1>6. TypeOK'
  <2>1. bindings' \subseteq SpectatorBinding
    BY <1>5, <1>a DEF TypeOK
  <2>2. invitations' \in [DOMAIN invitations -> Invitation]
    BY <1>2, <1>3, <1>4 DEF TypeOK, RevokeSpectatorAccess
  <2>3. clock' \in 0..MaxTime /\ deleted' \in BOOLEAN
    BY DEF TypeOK, RevokeSpectatorAccess
  <2>4. sessions' \subseteq Session /\ expired' \subseteq Session /\ DOMAIN invitations' \subseteq Lookup
    BY <1>2, <1>4 DEF TypeOK
  <2> QED BY <1>2, <1>4, <2>1, <2>2, <2>3, <2>4 DEF TypeOK
<1>7. Kept
  BY <1>2, <1>3, <1>4 DEF Kept, SameClaim, InvitationsAreDated
<1>8. IsFiniteSet(DOMAIN invitations') /\ InvitationsAreDated'
  BY <1>4, <1>6, <1>7, KeptIsDated
<1>9. BindingsAreDistinct'
  <2>1. ASSUME NEW d \in bindings \ {b}
        PROVE  d.id # c.id /\ d.lookup # c.lookup /\ ~(d.session = c.session /\ d.revokedAt = None)
    BY <1>1, <1>5 DEF BindingsAreDistinct
  <2> QED BY <1>a, <2>1 DEF BindingsAreDistinct
<1>10. BindingsAreCounted'
  <2>1. c \notin bindings \ {b}
    BY <1>1, <1>5 DEF BindingsAreDistinct
  <2>2. IsFiniteSet(bindings \ {b}) /\ Cardinality(bindings \ {b}) = Cardinality(bindings) - 1
    BY FS_RemoveElement DEF BindingsAreCounted
  <2>3. IsFiniteSet(bindings') /\ Cardinality(bindings') = Cardinality(bindings \ {b}) + 1
    BY <1>a, <2>1, <2>2, FS_AddElement
  <2>4. Cardinality(bindings) \in Nat
    BY FS_CardinalityType DEF BindingsAreCounted
  <2>5. Cardinality(bindings') = Cardinality(bindings)
    BY <2>2, <2>3, <2>4
  <2> QED BY <1>5, <1>a, <2>3, <2>5 DEF BindingsAreCounted
<1>11. BindingsMatch'
  <2>1. \A d \in bindings' :
          d.lookup \in DOMAIN invitations' /\ d.session \in sessions'
          /\ Agrees(d, invitations'[d.lookup])
    <3>1. Agrees(c, invitations'[l]) /\ c.session \in sessions'
      BY <1>1, <1>2, <1>3, <1>4, <1>5 DEF OpenInv, BindingsMatch, Agrees, SameClaim, Claimed
    <3>2. ASSUME NEW d \in bindings \ {b}
          PROVE  /\ d.lookup \in DOMAIN invitations' /\ d.session \in sessions'
                 /\ Agrees(d, invitations'[d.lookup])
      <4>1. d.lookup # l BY <1>1 DEF BindingsAreDistinct
      <4> QED BY <1>2, <1>4, <4>1 DEF OpenInv, BindingsMatch
    <3> QED BY <1>2, <1>4, <1>5, <1>a, <3>1, <3>2
  <2>2. \A k \in DOMAIN invitations' : Claimed(invitations'[k]) => \E d \in bindings' : d.lookup = k
    <3>1. ASSUME NEW k \in DOMAIN invitations, Claimed(invitations'[k]), k # l
          PROVE  \E d \in bindings' : d.lookup = k
      BY <1>1, <1>2, <1>4, <1>a, <3>1 DEF OpenInv, BindingsMatch
    <3> QED BY <1>4, <1>5, <1>a, <3>1
  <2> QED BY <2>1, <2>2 DEF BindingsMatch, Agrees, Claimed
<1>12. AnswersMatch' /\ OneClaimAnInvitation'
  BY <1>2, <1>3, <1>4 DEF OpenInv, AnswersMatch, OneClaimAnInvitation, SameClaim, Claimed
<1>13. Cardinality(Occupying(clock)') <= Limit
  BY <1>2, <1>6, <1>7, KeptOccupies DEF OpenInv
<1> QED BY <1>6, <1>8, <1>9, <1>10, <1>11, <1>12, <1>13 DEF OpenInv
LEMMA ClaimKeeps ==
  ASSUME AccessInv, NEW l \in Lookup, NEW id \in ClaimId, NEW s \in Session \cup {None},
         Claim(l, id, s)
  PROVE  AccessInv'
<1> USE DEF AccessInv
<1> DEFINE n == Cardinality(bindings) + 1
<1>1. PICK t \in IF Current(s) THEN {s} ELSE Session \ (sessions \cup expired) :
        /\ sessions' = sessions \cup {t}
        /\ invitations' = [invitations EXCEPT ![l] = Taken(@, n, t, id)]
        /\ bindings' = bindings \cup
             {[id |-> n, lookup |-> l, session |-> t, activeAfter |-> Sequence,
               revokedAt |-> None, inactiveFrom |-> None]}
        /\ answers' = answers \cup {[lookup |-> l, claimId |-> id, session |-> t]}
  BY DEF Claim
<1> DEFINE new == [id |-> n, lookup |-> l, session |-> t, activeAfter |-> Sequence,
                   revokedAt |-> None, inactiveFrom |-> None]
           inv == invitations[l]
<1>2. /\ \A k \in DOMAIN invitations : invitations[k] \in Invitation
      /\ Sequence \in Nat /\ clock \in Nat
      /\ l \in DOMAIN invitations /\ ~Claimed(inv) /\ ~Revoked(inv) /\ ExpiresAt(inv) > clock
      /\ ~deleted /\ OpenInv
      /\ clock' = clock /\ actions' = actions /\ expired' = expired /\ deleted' = deleted
  BY Typed DEF Claim, Claimable
<1>3. t \in Session /\ \A b \in bindings : ~(b.session = t /\ b.revokedAt = None)
  BY <1>2 DEF Claim, Current, Holds, OpenInv, BindingsMatch, TypeOK
<1>4. Cardinality(bindings) \in Nat /\ n \in Nat
  BY FS_CardinalityType DEF BindingsAreCounted
<1>5. /\ new \in SpectatorBinding
      /\ new.id = n /\ new.lookup = l /\ new.session = t /\ new.activeAfter = Sequence
      /\ new.revokedAt = None /\ new.inactiveFrom = None
  BY <1>2, <1>3, <1>4 DEF SpectatorBinding
<1>6. /\ DOMAIN invitations' = DOMAIN invitations
      /\ invitations'[l] = Taken(inv, n, t, id)
      /\ \A k \in DOMAIN invitations : k # l => invitations'[k] = invitations[k]
  BY <1>1, <1>2
<1>7. /\ invitations'[l] \in Invitation
      /\ Claimed(invitations'[l])
      /\ invitations'[l].issuedAt = inv.issuedAt
      /\ invitations'[l].activeAfter = inv.activeAfter
      /\ invitations'[l].claimedAt = clock
      /\ invitations'[l].claimId = id
      /\ invitations'[l].session = t
      /\ invitations'[l].credential = t
      /\ invitations'[l].claimedAfter = Sequence
      /\ invitations'[l].binding = n
      /\ invitations'[l].revokedAt = inv.revokedAt
      /\ invitations'[l].revokedAfter = inv.revokedAfter
  <2>1. inv \in Invitation /\ n \in Nat /\ t \in Session /\ clock \in Nat /\ Sequence \in Nat
    BY <1>2, <1>3, <1>4
  <2>2. invitations'[l] = Taken(inv, n, t, id)
    BY <1>6
  <2> HIDE DEF n, inv, AccessInv
  <2> QED BY <2>1, <2>2, TakenIs
<1>8. bindings' = bindings \cup {new}
  BY <1>1
<1>9. inv.revokedAt = None /\ inv.revokedAfter = None
  BY <1>2 DEF InvitationsAreDated, Revoked
<1>10. \A b \in bindings : b.lookup # l /\ b.id # n
  <2>1. \A b \in bindings : b.lookup # l
    BY <1>2 DEF OpenInv, BindingsMatch, Agrees
  <2>2. \A b \in bindings : b.id # n
    BY <1>4 DEF BindingsAreCounted
  <2> QED BY <2>1, <2>2
<1> HIDE DEF new, n, inv
<1>11. TypeOK'
  <2>1. bindings' \subseteq SpectatorBinding
    BY <1>5, <1>8 DEF TypeOK
  <2>2. invitations' \in [DOMAIN invitations -> Invitation]
    BY <1>1, <1>2, <1>6, <1>7 DEF TypeOK
  <2>3. clock' \in 0..MaxTime /\ deleted' \in BOOLEAN
    BY <1>2 DEF TypeOK
  <2>4. sessions' \subseteq Session /\ expired' \subseteq Session /\ DOMAIN invitations' \subseteq Lookup
    BY <1>1, <1>2, <1>3, <1>6 DEF TypeOK
  <2> QED BY <1>2, <1>6, <2>1, <2>2, <2>3, <2>4 DEF TypeOK
<1>12. InvitationsAreDated'
  <2>1. \A k \in DOMAIN invitations : k # l =>
          LET i == invitations'[k] IN
          /\ i.activeAfter \in 1..Sequence
          /\ actions[i.activeAfter].name = "issue"
          /\ i.issuedAt <= clock
          /\ Revoked(i) <=> i.revokedAfter # None
          /\ Claimed(i) => /\ i.claimedAt \in i.issuedAt..(ExpiresAt(i) - 1)
                           /\ i.claimedAfter \in i.activeAfter..Sequence
    BY <1>6 DEF InvitationsAreDated
  <2>2. /\ inv.activeAfter \in 1..Sequence /\ actions[inv.activeAfter].name = "issue"
        /\ inv.issuedAt <= clock /\ inv \in Invitation /\ ExpiresAt(inv) > clock
    BY <1>2 DEF InvitationsAreDated, inv
  <2>3. clock \in inv.issuedAt..(ExpiresAt(inv) - 1)
    BY <1>2, <2>2, AccessAssumption DEF ExpiresAt, Invitation, AccessAssumption
  <2>4. ExpiresAt(invitations'[l]) = ExpiresAt(inv)
    BY <1>7 DEF ExpiresAt
  <2>5. Sequence \in inv.activeAfter..Sequence
    BY <1>2, <2>2
  <2>6. LET i == invitations'[l] IN
          /\ i.activeAfter \in 1..Sequence
          /\ actions[i.activeAfter].name = "issue"
          /\ i.issuedAt <= clock
          /\ Revoked(i) <=> i.revokedAfter # None
          /\ i.claimedAt \in i.issuedAt..(ExpiresAt(i) - 1)
          /\ i.claimedAfter \in i.activeAfter..Sequence
    BY <1>7, <1>9, <2>2, <2>3, <2>4, <2>5 DEF Revoked
  <2>7. \A j, k \in DOMAIN invitations :
          invitations'[j].activeAfter = invitations'[k].activeAfter => j = k
    <3>1. \A k \in DOMAIN invitations : invitations'[k].activeAfter = invitations[k].activeAfter
      BY <1>6, <1>7 DEF inv
    <3> QED BY <3>1 DEF InvitationsAreDated
  <2>8. Sequence' = Sequence
    BY <1>2 DEF Sequence
  <2> QED BY <1>2, <1>6, <2>1, <2>6, <2>7, <2>8
      DEF InvitationsAreDated, Revoked, Claimed, ExpiresAt
<1>13. BindingsAreDistinct'
  BY <1>3, <1>5, <1>8, <1>10 DEF BindingsAreDistinct
<1>14. BindingsAreCounted'
  <2>1. IsFiniteSet(bindings') /\ Cardinality(bindings') = n
    BY <1>5, <1>8, <1>10, FS_AddElement DEF BindingsAreCounted, n
  <2>2. n \in 1..n /\ 1..Cardinality(bindings) \subseteq 1..n
    BY <1>4 DEF n
  <2> QED BY <1>5, <1>8, <2>1, <2>2 DEF BindingsAreCounted
<1>15. BindingsMatch'
  <2>1. Agrees(new, invitations'[l]) /\ new.session \in sessions'
    BY <1>1, <1>5, <1>7, <1>9 DEF Agrees
  <2>2. ASSUME NEW d \in bindings
        PROVE  /\ d.lookup \in DOMAIN invitations' /\ d.session \in sessions'
               /\ Agrees(d, invitations'[d.lookup])
    BY <1>1, <1>2, <1>6, <1>10 DEF OpenInv, BindingsMatch
  <2>3. ASSUME NEW k \in DOMAIN invitations, Claimed(invitations'[k])
        PROVE  \E d \in bindings' : d.lookup = k
    BY <1>2, <1>5, <1>6, <1>8, <2>3 DEF OpenInv, BindingsMatch
  <2> QED BY <1>2, <1>5, <1>6, <1>8, <2>1, <2>2, <2>3 DEF BindingsMatch, Agrees, Claimed
<1>16. AnswersMatch'
  <2> DEFINE told == [lookup |-> l, claimId |-> id, session |-> t]
  <2>1. ASSUME NEW a \in answers
        PROVE  /\ a.lookup \in DOMAIN invitations'
               /\ LET i == invitations'[a.lookup] IN
                    Claimed(i) /\ a = [lookup |-> a.lookup, claimId |-> i.claimId, session |-> i.session]
    <3>1. a.lookup # l BY <1>2 DEF OpenInv, AnswersMatch, inv
    <3> QED BY <1>2, <1>6, <3>1 DEF OpenInv, AnswersMatch
  <2>2. LET i == invitations'[l] IN
          Claimed(i) /\ told = [lookup |-> l, claimId |-> i.claimId, session |-> i.session]
    BY <1>7
  <2>3. answers' = answers \cup {told} /\ told.lookup = l
    BY <1>1
  <2>4. \A k \in DOMAIN invitations' : invitations'[k].credential \in {None, invitations'[k].session}
    BY <1>2, <1>6, <1>7 DEF OpenInv, AnswersMatch
  <2> HIDE DEF told
  <2> QED BY <1>2, <1>6, <2>1, <2>2, <2>3, <2>4 DEF AnswersMatch, Claimed
<1>17. OneClaimAnInvitation'
  BY <1>16, OneAnswer, PTL
<1>18. Cardinality(Occupying(clock)') <= Limit
  <2>1. Occupying(clock)' = Occupying(clock)
    <3>1. \A k \in DOMAIN invitations :
            k \in Occupying(clock)' <=> k \in Occupying(clock)
      <4>1. l \in Occupying(clock)' /\ l \in Occupying(clock)
        BY <1>2, <1>6, <1>7, <1>9 DEF Occupying, Revoked, Claimed, inv
      <4> QED BY <1>2, <1>6, <4>1 DEF Occupying, Revoked, Claimed, ExpiresAt
    <3> QED BY <1>6, <3>1 DEF Occupying
  <2> QED BY <1>2, <2>1 DEF OpenInv
<1> QED BY <1>2, <1>6, <1>11, <1>12, <1>13, <1>14, <1>15, <1>16, <1>17, <1>18 DEF OpenInv
-----------------------------------------------------------------------------
(* The invariant, and what follows from it. *)

LEMMA InitIsSound ==
  ASSUME Init
  PROVE  AccessInv
<1> USE DEF Init
<1>1. TypeOK
  <2>1. actions \in Seq(Action) /\ DOMAIN invitations = {}
    OBVIOUS
  <2>2. invitations \in [DOMAIN invitations -> Invitation]
    BY <2>1
  <2>3. clock \in 0..MaxTime
    BY AccessAssumption DEF AccessAssumption
  <2>4. deleted \in BOOLEAN
    OBVIOUS
  <2> QED BY <2>1, <2>2, <2>3, <2>4 DEF TypeOK
<1>2. IsFiniteSet(DOMAIN invitations) /\ InvitationsAreDated
  BY FS_EmptySet DEF InvitationsAreDated
<1>3. BindingsAreDistinct /\ BindingsAreCounted /\ OneClaimAnInvitation
  BY FS_EmptySet DEF BindingsAreDistinct, BindingsAreCounted, OneClaimAnInvitation
<1>4. BindingsMatch /\ AnswersMatch
  BY DEF BindingsMatch, AnswersMatch
<1>5. Occupying(clock) = {}
  BY DEF Occupying
<1>6. Cardinality(Occupying(clock)) <= Limit
  BY <1>5, FS_EmptySet, AccessAssumption DEF AccessAssumption
<1> QED BY <1>1, <1>2, <1>3, <1>4, <1>6 DEF AccessInv, OpenInv

LEMMA NextIsSound ==
  ASSUME AccessInv, [Next]_vars
  PROVE  AccessInv'
<1>1. CASE UNCHANGED vars
  <2>1. TypeOK' /\ LogKept /\ clock' >= clock
    BY <1>1, Typed, AccessAssumption
    DEF AccessInv, vars, TypeOK, LogKept, Sequence, AccessAssumption
  <2> QED BY <1>1, <2>1, StillKeeps DEF vars
<1>2. ASSUME NEW l \in Lookup, IssueSpectatorInvitation(l) PROVE AccessInv'
  BY <1>2, IssueKeeps
<1>3. ASSUME NEW l \in Lookup, RevokeSpectatorInvitation(l) PROVE AccessInv'
  BY <1>3, RevokeInvitationKeeps
<1>4. ASSUME NEW l \in Lookup, RevokeSpectatorAccess(l) PROVE AccessInv'
  BY <1>4, RevokeAccessKeeps
<1>5. ASSUME NEW l \in Lookup, NEW id \in ClaimId, NEW s \in Session \cup {None}, Claim(l, id, s)
      PROVE  AccessInv'
  BY <1>5, ClaimKeeps
<1>6. ASSUME NEW l \in Lookup, NEW id \in ClaimId, RetryClaim(l, id) PROVE AccessInv'
  BY <1>6, RetryClaimKeeps
<1>7. CASE DeleteGame BY <1>7, DeleteGameKeeps
<1>8. CASE Play BY <1>8, PlayKeeps
<1>9. CASE Purge BY <1>9, PurgeKeeps
<1>10. CASE Tick BY <1>10, TickKeeps
<1>11. ASSUME NEW s \in Session, SessionExpires(s) PROVE AccessInv'
  BY <1>11, SessionExpiresKeeps
<1> QED BY <1>1, <1>2, <1>3, <1>4, <1>5, <1>6, <1>7, <1>8, <1>9, <1>10, <1>11 DEF Next

LEMMA Sound == Spec => []AccessInv
BY InitIsSound, NextIsSound, PTL DEF Spec

LEMMA InvLimits ==
  ASSUME AccessInv
  PROVE  LimitHolds
<1> DEFINE watched == {b.lookup : b \in {x \in bindings : x.inactiveFrom = None}}
           open == {l \in DOMAIN invitations :
                      ~Claimed(invitations[l]) /\ ~Revoked(invitations[l])
                      /\ clock < ExpiresAt(invitations[l])}
<1> SUFFICES ASSUME ~deleted PROVE Cardinality(watched \cup open) <= Limit
  BY DEF LimitHolds
<1>1. ASSUME NEW b \in bindings, b.inactiveFrom = None
      PROVE  b.lookup \in Occupying(clock)
  BY <1>1 DEF AccessInv, OpenInv, BindingsMatch, Agrees, InvitationsAreDated, Occupying
<1>2. ASSUME NEW l \in open
      PROVE  l \in Occupying(clock)
  BY Typed, AccessAssumption
  DEF AccessInv, Occupying, ExpiresAt, Invitation, AccessAssumption
<1>3. watched \cup open \subseteq Occupying(clock)
  BY <1>1, <1>2
<1> HIDE DEF watched, open
<1>4. IsFiniteSet(Occupying(clock)) /\ Cardinality(Occupying(clock)) <= Limit
  BY FS_Subset DEF AccessInv, OpenInv, Occupying
<1>5. /\ IsFiniteSet(watched \cup open)
      /\ Cardinality(watched \cup open) <= Cardinality(Occupying(clock))
  BY <1>3, <1>4, FS_Subset
<1> QED BY <1>4, <1>5, FS_CardinalityType, AccessAssumption DEF AccessAssumption

LEMMA InvAuthorizes ==
  ASSUME AccessInv
  PROVE  WatchersAreAuthorized
<1> SUFFICES ASSUME NEW s \in Session, ~deleted, Current(s)
             PROVE  ActiveBindings(invitations, bindings, s) # {} <=>
                      \E l \in DOMAIN invitations :
                        invitations[l].session = s /\ Claimed(invitations[l]) /\ ~Revoked(invitations[l])
  BY DEF WatchersAreAuthorized, Authorized
<1>1. ASSUME NEW b \in ActiveBindings(invitations, bindings, s)
      PROVE  \E l \in DOMAIN invitations :
               invitations[l].session = s /\ Claimed(invitations[l]) /\ ~Revoked(invitations[l])
  BY DEF ActiveBindings, Consistent
<1>2. ASSUME NEW l \in DOMAIN invitations, invitations[l].session = s,
             Claimed(invitations[l]), ~Revoked(invitations[l])
      PROVE  ActiveBindings(invitations, bindings, s) # {}
  <2>1. PICK b \in bindings : b.lookup = l
    BY <1>2 DEF AccessInv, OpenInv, BindingsMatch
  <2>2. Agrees(b, invitations[l])
    BY <2>1 DEF AccessInv, OpenInv, BindingsMatch
  <2>3. invitations[l].revokedAfter = None
    BY <1>2 DEF AccessInv, InvitationsAreDated
  <2>4. b.session = s /\ b.revokedAt = None /\ b.inactiveFrom = None
    BY <1>2, <2>2, <2>3 DEF Agrees, Revoked
  <2>5. {x \in bindings : x.session = s /\ x.revokedAt = None} = {b}
    BY <2>4 DEF AccessInv, BindingsAreDistinct
  <2>6. \A c \in bindings : c.id = b.id \/ c.lookup = b.lookup => c = b
    BY DEF AccessInv, BindingsAreDistinct
  <2>7. Consistent(invitations, b)
    BY <1>2, <2>1, <2>2, <2>3, <2>4 DEF Consistent, Agrees, AccessInv, InvitationsAreDated
  <2>8. b \in ActiveBindings(invitations, bindings, s)
    BY <2>5, <2>6, <2>7 DEF ActiveBindings
  <2> QED BY <2>8
<1> QED BY <1>1, <1>2

\* The limit on spectators holds for any number of invitations, browsers and actions,
\* whatever the limit and the lifetime of an invitation are.
THEOREM LimitIsHeld == Spec => []LimitHolds
<1>1. AccessInv => LimitHolds BY InvLimits
<1> QED BY <1>1, Sound, PTL

\* Authorization admits exactly the browsers that claimed an invitation first and have not
\* been revoked since, and a retry is answered with the session of the first claim.
THEOREM AccessIsDecidedByClaims == Spec => []AccessFollowsInvitation
<1>1. AccessInv => AccessFollowsInvitation
  BY InvAuthorizes DEF AccessInv, AccessFollowsInvitation
<1> QED BY <1>1, Sound, PTL
-----------------------------------------------------------------------------
(* The log and the evidence. *)

\* What an invitation records of its claim and its revocation is ordered, and the
\* revocation is in the log.
Traced(l) ==
  LET inv == invitations[l] IN
  /\ ~Claimed(inv) => inv.binding = None /\ inv.session = None /\ inv.claimedAfter = None
  /\ Revoked(inv) =>
       /\ inv.revokedAfter \in (inv.activeAfter + 1)..Sequence
       /\ actions[inv.revokedAfter].lookup = l
       /\ IF Claimed(inv)
          THEN /\ actions[inv.revokedAfter].name = "revokeAccess"
               /\ inv.claimedAfter < inv.revokedAfter
          ELSE /\ actions[inv.revokedAfter].name = "revokeInvitation"
               /\ inv.revokedAt < ExpiresAt(inv)

\* An entry of the log has left its trace in the evidence.
Entered(i) ==
  /\ actions[i].name = "issue" => IssueReplays(i)
  /\ actions[i].name \in {"revokeInvitation", "revokeAccess"} =>
       /\ actions[i].lookup \in DOMAIN invitations
       /\ Revoked(invitations[actions[i].lookup])
       /\ invitations[actions[i].lookup].revokedAfter = i

LogMatches ==
  /\ \A l \in DOMAIN invitations : Traced(l)
  /\ \A i \in 1..Sequence : Entered(i)

LogInv == ~deleted => LogMatches
LEMMA StillOutstanding ==
  ASSUME NEW i, NEW l, NEW j \in EntriesBefore(i, {"issue"}), l \in IssuedAt(j),
         \A k \in EntriesBefore(i, {"revokeInvitation", "revokeAccess"}) : l # actions[k].lookup
  PROVE  l \in OutstandingAt(i)
<1>1. l \in UNION {IssuedAt(k) : k \in EntriesBefore(i, {"issue"})}
  OBVIOUS
<1>2. l \notin {actions[k].lookup : k \in EntriesBefore(i, {"revokeInvitation", "revokeAccess"})}
  OBVIOUS
<1> QED BY <1>1, <1>2 DEF OutstandingAt

LEMMA InvReplays ==
  ASSUME AccessInv, LogInv
  PROVE  EveryPrefixReplays
<1> SUFFICES ASSUME ~deleted, NEW n \in 0..Sequence PROVE Replays(n)
  BY DEF EveryPrefixReplays
<1> USE DEF AccessInv
<1>1. LogMatches /\ OpenInv /\ Sequence \in Nat
  BY Typed DEF LogInv
<1>2. \A l \in DOMAIN invitations : Traced(l) /\ invitations[l] \in Invitation
  BY <1>1, Typed DEF LogMatches
<1>3. EvidenceIsSound
  <2>1. \A b, c \in bindings : b.id = c.id \/ b.lookup = c.lookup => b = c
    BY DEF BindingsAreDistinct
  <2>2. \A b \in bindings : b.lookup \in DOMAIN invitations /\ Agrees(b, invitations[b.lookup])
    BY <1>1 DEF OpenInv, BindingsMatch
  <2>3. ASSUME NEW l \in DOMAIN invitations
        PROVE  LET inv == invitations[l] IN
               /\ inv.activeAfter >= 1
               /\ IF Revoked(inv) THEN inv.revokedAfter # None /\ inv.revokedAfter > inv.activeAfter
                                  ELSE inv.revokedAfter = None
    <3>1. invitations[l].activeAfter \in 1..Sequence
      BY DEF InvitationsAreDated
    <3>2. Revoked(invitations[l]) <=> invitations[l].revokedAfter # None
      BY DEF InvitationsAreDated
    <3>3. Revoked(invitations[l]) => invitations[l].revokedAfter > invitations[l].activeAfter
      BY <1>1, <1>2, <3>1 DEF Traced
    <3> QED BY <3>1, <3>2, <3>3
  <2>4. ASSUME NEW l \in DOMAIN invitations, ~Claimed(invitations[l])
        PROVE  LET inv == invitations[l] IN
               BindingsOf(l) = {} /\ inv.binding = None /\ inv.session = None /\ inv.claimedAfter = None
    BY <1>2, <2>2, <2>4 DEF BindingsOf, Agrees, Traced
  <2>5. ASSUME NEW l \in DOMAIN invitations, Claimed(invitations[l])
        PROVE  LET inv == invitations[l] IN
               \E b \in BindingsOf(l) :
                 /\ b.id = inv.binding /\ b.session = inv.session
                 /\ inv.claimedAt \in inv.issuedAt..(ExpiresAt(inv) - 1)
                 /\ inv.claimedAfter >= inv.activeAfter
                 /\ b.activeAfter = inv.claimedAfter
                 /\ b.revokedAt = inv.revokedAt /\ b.inactiveFrom = inv.revokedAfter
                 /\ Revoked(inv) => inv.claimedAfter < inv.revokedAfter
    <3>1. PICK b \in bindings : b.lookup = l
      BY <1>1, <2>5 DEF OpenInv, BindingsMatch
    <3>2. Agrees(b, invitations[l]) /\ b \in BindingsOf(l)
      BY <2>2, <3>1 DEF BindingsOf
    <3>3. /\ invitations[l].claimedAt \in invitations[l].issuedAt..(ExpiresAt(invitations[l]) - 1)
          /\ invitations[l].claimedAfter \in invitations[l].activeAfter..Sequence
      BY <2>5 DEF InvitationsAreDated
    <3>4. Revoked(invitations[l]) => invitations[l].claimedAfter < invitations[l].revokedAfter
      BY <1>2, <2>5 DEF Traced
    <3>5. invitations[l].claimedAfter >= invitations[l].activeAfter
      BY <1>2, <3>3 DEF Invitation
    <3> QED BY <3>2, <3>3, <3>4, <3>5 DEF Agrees
  <2> QED BY <2>1, <2>2, <2>3, <2>4, <2>5 DEF EvidenceIsSound
<1>4. ASSUME NEW i \in 1..n
      PROVE  ActionReplays(i)
  <2>1. i \in 1..Sequence /\ Entered(i)
    BY <1>1 DEF LogMatches
  <2> DEFINE l == actions[i].lookup
             inv == invitations[l]
  <2>2. ASSUME actions[i].name \in {"revokeInvitation", "revokeAccess"}
        PROVE  RevocationReplays(i, actions[i].name = "revokeAccess")
    <3>1. l \in DOMAIN invitations /\ Revoked(inv) /\ inv.revokedAfter = i
      BY <2>1, <2>2 DEF Entered
    <3>2. /\ inv.activeAfter \in 1..Sequence /\ actions[inv.activeAfter].name = "issue"
      BY <3>1 DEF InvitationsAreDated
    <3>3. inv.activeAfter \in 1..(i - 1)
      BY <1>1, <1>2, <2>1, <3>1, <3>2 DEF Traced
    <3>4. l \in IssuedAt(inv.activeAfter)
      BY <3>1 DEF IssuedAt
    <3>5. ASSUME NEW j \in 1..(i - 1), actions[j].name \in {"revokeInvitation", "revokeAccess"},
                 actions[j].lookup = l
          PROVE  FALSE
      <4>1. j \in 1..Sequence /\ j # i
        BY <1>1, <2>1
      <4>2. Entered(j)
        BY <1>1, <4>1 DEF LogMatches
      <4> QED BY <3>1, <3>5, <4>1, <4>2 DEF Entered
    <3>6. l \in OutstandingAt(i)
      <4>1. inv.activeAfter \in EntriesBefore(i, {"issue"})
        BY <3>2, <3>3 DEF EntriesBefore
      <4>2. ASSUME NEW j \in EntriesBefore(i, {"revokeInvitation", "revokeAccess"})
            PROVE  l # actions[j].lookup
        BY <3>5 DEF EntriesBefore
      <4> QED BY <3>4, <4>1, <4>2, StillOutstanding
    <3>7. Claimed(inv) = (actions[i].name = "revokeAccess")
      BY <1>2, <2>2, <3>1 DEF Traced, Claimed
    <3>8. Claimed(inv) => inv.claimedAfter \in inv.activeAfter..(i - 1)
      <4>1. Claimed(inv) => inv.claimedAfter \in inv.activeAfter..Sequence
        BY <3>1 DEF InvitationsAreDated
      <4>2. Claimed(inv) => inv.claimedAfter < i
        BY <1>2, <3>1 DEF Traced
      <4>3. inv.activeAfter \in Nat /\ i \in Nat
        BY <1>2, <2>1, <3>1 DEF Invitation
      <4> QED BY <1>1, <4>1, <4>2, <4>3
    <3>9. ~Claimed(inv) => inv.revokedAt < ExpiresAt(inv)
      BY <1>2, <3>1 DEF Traced
    <3> QED BY <3>1, <3>6, <3>7, <3>8, <3>9 DEF RevocationReplays
  <2>3. actions[i].name = "issue" => IssueReplays(i)
    BY <2>1 DEF Entered
  <2>4. CASE actions[i].name = "revokeAccess"
    BY <2>2, <2>4 DEF ActionReplays
  <2>5. CASE actions[i].name = "revokeInvitation"
    BY <2>2, <2>5 DEF ActionReplays
  <2>6. CASE actions[i].name \notin {"revokeInvitation", "revokeAccess"}
    BY <2>3, <2>6 DEF ActionReplays
  <2> QED BY <2>4, <2>5, <2>6
<1>5. EvidenceIsConsumed(n)
  <2> SUFFICES ASSUME NEW l \in DOMAIN invitations
               PROVE  LET inv == invitations[l] IN
                 /\ n = Sequence /\ Claimed(inv) => inv.claimedAfter <= n
                 /\ n = Sequence \/ inv.activeAfter <= n =>
                      \E i \in 1..n : actions[i].name = "issue" /\ l \in IssuedAt(i)
                 /\ Revoked(inv) /\ (n = Sequence \/ inv.revokedAfter <= n) =>
                      \E i \in 1..n : /\ actions[i].name \in {"revokeInvitation", "revokeAccess"}
                                      /\ actions[i].lookup = l
    BY DEF EvidenceIsConsumed
  <2> DEFINE inv == invitations[l]
  <2>1. n = Sequence /\ Claimed(inv) => inv.claimedAfter <= n
    BY <1>1, <1>2 DEF InvitationsAreDated, Invitation
  <2>2. ASSUME n = Sequence \/ inv.activeAfter <= n
        PROVE  \E i \in 1..n : actions[i].name = "issue" /\ l \in IssuedAt(i)
    <3>1. inv.activeAfter \in 1..Sequence /\ actions[inv.activeAfter].name = "issue"
      BY DEF InvitationsAreDated
    <3>2. inv.activeAfter \in 1..n /\ l \in IssuedAt(inv.activeAfter)
      BY <1>1, <2>2, <3>1 DEF IssuedAt
    <3> QED BY <3>1, <3>2
  <2>3. ASSUME Revoked(inv), n = Sequence \/ inv.revokedAfter <= n
        PROVE  \E i \in 1..n : /\ actions[i].name \in {"revokeInvitation", "revokeAccess"}
                               /\ actions[i].lookup = l
    <3>1. /\ inv.revokedAfter \in (inv.activeAfter + 1)..Sequence
          /\ actions[inv.revokedAfter].name \in {"revokeInvitation", "revokeAccess"}
          /\ actions[inv.revokedAfter].lookup = l
      BY <1>2, <2>3 DEF Traced
    <3>2. inv.revokedAfter \in 1..n
      BY <1>1, <1>2, <2>3, <3>1 DEF Invitation
    <3> QED BY <3>1, <3>2
  <2> QED BY <2>1, <2>2, <2>3
<1> QED BY <1>3, <1>4, <1>5 DEF Replays
\* What the evidence says of earlier times stays as it is.
Steady ==
  /\ LogKept
  /\ DOMAIN invitations \subseteq DOMAIN invitations'
  /\ \A l \in DOMAIN invitations' \ DOMAIN invitations : invitations'[l].activeAfter > Sequence
  /\ \A l \in DOMAIN invitations :
       LET old == invitations[l]
           new == invitations'[l] IN
       /\ new.issuedAt = old.issuedAt /\ new.activeAfter = old.activeAfter
       /\ Claimed(new) /\ new.claimedAfter < Sequence =>
            Claimed(old) /\ old.claimedAfter = new.claimedAfter
       /\ Revoked(old) => Revoked(new) /\ new.revokedAfter = old.revokedAfter

\* What occupied a place when the i-th action issued l.
OccupyingAt(i, l) ==
  {k \in OutstandingAt(i) :
     LET prior == invitations[k] IN
     \/ ExpiresAt(prior) > invitations[l].issuedAt
     \/ Claimed(prior) /\ prior.claimedAfter < i}

LEMMA SteadyReplays ==
  ASSUME TypeOK, TypeOK', InvitationsAreDated', IsFiniteSet(DOMAIN invitations), Steady,
         NEW i \in 1..Sequence,
         IssueReplays(i)
  PROVE  IssueReplays(i)'
<1>1. PICK l \in IssuedAt(i) : IssuedAt(i) = {l} /\ Cardinality(OccupyingAt(i, l)) < Limit
  BY DEF IssueReplays, OccupyingAt
<1>2. Sequence \in Nat /\ i \in Nat /\ i <= Sequence
  BY Typed
<1>3. \A j \in 1..Sequence : IssuedAt(j)' = IssuedAt(j)
  <2> SUFFICES ASSUME NEW j \in 1..Sequence, NEW k \in DOMAIN invitations'
               PROVE  invitations'[k].activeAfter = j <=>
                        k \in DOMAIN invitations /\ invitations[k].activeAfter = j
    BY DEF IssuedAt, Steady
  <2>1. CASE k \in DOMAIN invitations BY <2>1 DEF Steady
  <2>2. CASE k \notin DOMAIN invitations
    <3>1. invitations'[k].activeAfter > Sequence
      BY <2>2 DEF Steady
    <3> QED BY <1>2, <2>2, <3>1
  <2> QED BY <2>1, <2>2
<1>4. \A j \in 1..(i - 1) : j \in 1..Sequence /\ actions'[j] = actions[j] /\ IssuedAt(j)' = IssuedAt(j)
  BY <1>2, <1>3 DEF Steady, LogKept
<1>5. OutstandingAt(i)' = OutstandingAt(i)
  <2>1. \A names : EntriesBefore(i, names)' = EntriesBefore(i, names)
    BY <1>4 DEF EntriesBefore
  <2>2. \A names : \A j \in EntriesBefore(i, names) :
          actions'[j] = actions[j] /\ IssuedAt(j)' = IssuedAt(j)
    BY <1>4 DEF EntriesBefore
  <2> QED BY <2>1, <2>2 DEF OutstandingAt
<1>6. OutstandingAt(i) \subseteq DOMAIN invitations
  BY DEF OutstandingAt, IssuedAt
<1>7. l \in DOMAIN invitations
  BY DEF IssuedAt
<1>8. OccupyingAt(i, l)' \subseteq OccupyingAt(i, l)
  <2> SUFFICES ASSUME NEW k \in OutstandingAt(i),
                      \/ ExpiresAt(invitations'[k]) > invitations'[l].issuedAt
                      \/ Claimed(invitations'[k]) /\ invitations'[k].claimedAfter < i
               PROVE  \/ ExpiresAt(invitations[k]) > invitations[l].issuedAt
                      \/ Claimed(invitations[k]) /\ invitations[k].claimedAfter < i
    BY <1>5 DEF OccupyingAt, Claimed, ExpiresAt
  <2>1. /\ ExpiresAt(invitations'[k]) = ExpiresAt(invitations[k])
        /\ invitations'[l].issuedAt = invitations[l].issuedAt
    BY <1>6, <1>7 DEF Steady, ExpiresAt
  <2>2. ASSUME Claimed(invitations'[k]), invitations'[k].claimedAfter < i
        PROVE  Claimed(invitations[k]) /\ invitations[k].claimedAfter < i
    <3>1. k \in DOMAIN invitations'
      BY <1>6 DEF Steady
    <3>2. invitations'[k].claimedAfter \in invitations'[k].activeAfter..Sequence'
      BY <2>2, <3>1 DEF InvitationsAreDated, Claimed
    <3>3. invitations'[k].claimedAfter < Sequence
      BY <1>2, <2>2, <3>2
    <3> QED BY <1>6, <2>2, <3>3 DEF Steady
  <2> QED BY <2>1, <2>2
<1>9. IsFiniteSet(OccupyingAt(i, l))
  BY <1>6, FS_Subset DEF OccupyingAt
<1>10. IsFiniteSet(OccupyingAt(i, l)') /\ Cardinality(OccupyingAt(i, l)') <= Cardinality(OccupyingAt(i, l))
  BY <1>8, <1>9, FS_Subset
<1>11. Cardinality(OccupyingAt(i, l)') < Limit
  BY <1>1, <1>9, <1>10, FS_CardinalityType, AccessAssumption DEF AccessAssumption
<1>12. IssuedAt(i)' = {l}
  BY <1>1, <1>3
<1> QED BY <1>11, <1>12 DEF IssueReplays, OccupyingAt
LEMMA LogStays ==
  ASSUME TypeOK, TypeOK', InvitationsAreDated', IsFiniteSet(DOMAIN invitations),
         Steady, LogMatches,
         \A l \in DOMAIN invitations' : Traced(l)',
         \A i \in (Sequence + 1)..Sequence' : Entered(i)'
  PROVE  LogMatches'
<1>1. Sequence \in Nat /\ Sequence' \in Nat /\ Sequence' >= Sequence
  BY Typed DEF TypeOK, Sequence, Steady, LogKept
<1>2. ASSUME NEW i \in 1..Sequence
      PROVE  Entered(i)'
  <2>1. Entered(i) /\ actions'[i] = actions[i]
    BY DEF LogMatches, Steady, LogKept
  <2>2. (actions[i].name = "issue") => IssueReplays(i)'
    BY <2>1, SteadyReplays DEF Entered
  <2>3. ASSUME actions[i].name \in {"revokeInvitation", "revokeAccess"}
        PROVE  LET l == actions[i].lookup IN
               /\ l \in DOMAIN invitations' /\ Revoked(invitations'[l])
               /\ invitations'[l].revokedAfter = i
    BY <2>1, <2>3 DEF Entered, Steady
  <2> QED BY <2>1, <2>2, <2>3 DEF Entered, Revoked
<1>3. \A i \in 1..Sequence' : i \in 1..Sequence \/ i \in (Sequence + 1)..Sequence'
  BY <1>1
<1> QED BY <1>2, <1>3 DEF LogMatches

LEMMA TracedStays ==
  ASSUME TypeOK, TypeOK', LogKept, NEW l \in DOMAIN invitations, l \in DOMAIN invitations',
         SameClaim(invitations'[l], invitations[l]),
         invitations'[l].session = invitations[l].session,
         invitations'[l].revokedAt = invitations[l].revokedAt,
         invitations'[l].revokedAfter = invitations[l].revokedAfter,
         Traced(l)
  PROVE  Traced(l)'
<1>1. /\ Sequence \in Nat /\ Sequence' \in Nat /\ Sequence' >= Sequence
      /\ invitations[l] \in Invitation
  BY Typed DEF TypeOK, Sequence, LogKept
<1>2. ASSUME Revoked(invitations[l])
      PROVE  /\ invitations[l].revokedAfter \in 1..Sequence
             /\ invitations[l].revokedAfter \in (invitations[l].activeAfter + 1)..Sequence'
             /\ actions'[invitations[l].revokedAfter] = actions[invitations[l].revokedAfter]
  <2>1. invitations[l].revokedAfter \in (invitations[l].activeAfter + 1)..Sequence
    BY <1>2 DEF Traced
  <2>2. invitations[l].activeAfter \in Nat
    BY <1>1 DEF Invitation
  <2> QED BY <1>1, <2>1, <2>2 DEF LogKept
<1> QED BY <1>2 DEF Traced, SameClaim, Revoked, Claimed, ExpiresAt

\* Steps that change nothing of an invitation but its credential, and enter no command on one.
LEMMA IdleLog ==
  ASSUME TypeOK, TypeOK', InvitationsAreDated', IsFiniteSet(DOMAIN invitations), LogMatches,
         LogKept, DOMAIN invitations' = DOMAIN invitations,
         \A l \in DOMAIN invitations :
           /\ SameClaim(invitations'[l], invitations[l])
           /\ invitations'[l].session = invitations[l].session
           /\ invitations'[l].revokedAt = invitations[l].revokedAt
           /\ invitations'[l].revokedAfter = invitations[l].revokedAfter,
         \A i \in (Sequence + 1)..Sequence' : actions'[i].name = "play"
  PROVE  LogMatches'
<1>1. Steady
  BY DEF Steady, SameClaim, Claimed, Revoked
<1>2. \A l \in DOMAIN invitations' : Traced(l)'
  BY TracedStays DEF LogMatches
<1>3. \A i \in (Sequence + 1)..Sequence' : Entered(i)'
  BY DEF Entered
<1> QED BY <1>1, <1>2, <1>3, LogStays
LEMMA UnchangedLog ==
  ASSUME AccessInv, AccessInv', LogMatches, LogKept, UNCHANGED invitations,
         \A i \in (Sequence + 1)..Sequence' : actions'[i].name = "play"
  PROVE  LogMatches'
BY IdleLog DEF AccessInv, SameClaim

LEMMA NoEntries ==
  ASSUME TypeOK, UNCHANGED actions
  PROVE  LogKept /\ \A i \in (Sequence + 1)..Sequence' : actions'[i].name = "play"
BY Typed DEF LogKept, Sequence

LEMMA PlayLog ==
  ASSUME AccessInv, AccessInv', LogMatches, Play
  PROVE  LogMatches'
<1>1. /\ Sequence' = Sequence + 1 /\ Sequence \in Nat /\ LogKept
      /\ actions'[Sequence + 1] = [name |-> "play", lookup |-> None]
  BY RecordIs DEF AccessInv, Play
<1>2. \A i \in (Sequence + 1)..Sequence' : actions'[i].name = "play"
  BY <1>1
<1> QED BY <1>1, <1>2, UnchangedLog DEF Play

LEMMA PurgeLog ==
  ASSUME AccessInv, AccessInv', LogMatches, Purge, ~deleted
  PROVE  LogMatches'
<1>1. /\ DOMAIN invitations' = DOMAIN invitations
      /\ \A l \in DOMAIN invitations : invitations'[l] = Erased(invitations[l])
  BY DEF Purge
<1>2. \A l \in DOMAIN invitations :
        /\ SameClaim(Erased(invitations[l]), invitations[l])
        /\ Erased(invitations[l]).session = invitations[l].session
        /\ Erased(invitations[l]).revokedAt = invitations[l].revokedAt
        /\ Erased(invitations[l]).revokedAfter = invitations[l].revokedAfter
  BY Typed, ErasedIs DEF AccessInv
<1>3. LogKept /\ \A i \in (Sequence + 1)..Sequence' : actions'[i].name = "play"
  BY NoEntries DEF AccessInv, Purge
<1> QED BY <1>1, <1>2, <1>3, IdleLog DEF AccessInv

LEMMA IssueLog ==
  ASSUME AccessInv, AccessInv', LogMatches, NEW l \in Lookup, IssueSpectatorInvitation(l)
  PROVE  LogMatches'
<1>1. /\ Sequence' = Sequence + 1 /\ Sequence \in Nat /\ clock \in Nat /\ LogKept
      /\ actions'[Sequence + 1] = [name |-> "issue", lookup |-> l]
      /\ \A k \in DOMAIN invitations : invitations[k] \in Invitation
  BY RecordIs, Typed DEF AccessInv, IssueSpectatorInvitation
<1>2. /\ DOMAIN invitations' = DOMAIN invitations \cup {l} /\ l \notin DOMAIN invitations
      /\ invitations'[l] = NewInvitation
      /\ \A k \in DOMAIN invitations : invitations'[k] = invitations[k]
  BY DEF IssueSpectatorInvitation
<1>3. /\ ~Claimed(NewInvitation) /\ ~Revoked(NewInvitation)
      /\ NewInvitation.issuedAt = clock /\ NewInvitation.activeAfter = Sequence + 1
      /\ NewInvitation.binding = None /\ NewInvitation.session = None
      /\ NewInvitation.claimedAfter = None
  BY <1>1, NewIs DEF NewInvitation
<1>4. Steady
  BY <1>1, <1>2, <1>3 DEF Steady
<1>5. \A k \in DOMAIN invitations' : Traced(k)'
  <2>1. Traced(l)'
    BY <1>2, <1>3 DEF Traced, Claimed, Revoked
  <2>2. ASSUME NEW k \in DOMAIN invitations
        PROVE  Traced(k)'
    BY <1>1, <1>2, TracedStays DEF AccessInv, LogMatches, SameClaim
  <2> QED BY <1>2, <2>1, <2>2
<1>i. PICK i \in Nat : i = Sequence + 1
  BY <1>1
<1>6. IssueReplays(i)'
  <2>1. IssuedAt(i)' = {l}
    <3>1. \A k \in DOMAIN invitations : invitations'[k].activeAfter # i
      BY <1>1, <1>2, <1>i DEF AccessInv, InvitationsAreDated, Invitation
    <3> QED BY <1>2, <1>3, <1>i, <3>1 DEF IssuedAt
  <2>2. OccupyingAt(i, l)' \subseteq Occupying(clock)
    <3> SUFFICES ASSUME NEW k \in OccupyingAt(i, l)'
                 PROVE  k \in Occupying(clock)
      OBVIOUS
    <3>1. PICK j \in EntriesBefore(i, {"issue"})' : k \in IssuedAt(j)'
      BY DEF OccupyingAt, OutstandingAt
    <3>2. j \in 1..Sequence
      BY <1>1, <1>i, <3>1 DEF EntriesBefore
    <3>3. k \in DOMAIN invitations
      BY <1>1, <1>2, <1>3, <3>1, <3>2 DEF IssuedAt
    <3>4. ~Revoked(invitations[k])
      <4> SUFFICES ASSUME Revoked(invitations[k]) PROVE FALSE
        OBVIOUS
      <4> DEFINE r == invitations[k].revokedAfter
      <4>1. /\ r \in (invitations[k].activeAfter + 1)..Sequence
            /\ actions[r].lookup = k
            /\ actions[r].name \in {"revokeInvitation", "revokeAccess"}
        BY <3>3 DEF LogMatches, Traced
      <4>2. r \in 1..Sequence /\ actions'[r] = actions[r]
        BY <1>1, <3>3, <4>1 DEF Invitation, LogKept
      <4>3. r \in EntriesBefore(i, {"revokeInvitation", "revokeAccess"})'
        BY <1>1, <1>i, <4>1, <4>2 DEF EntriesBefore
      <4>4. k \notin OutstandingAt(i)'
        BY <4>1, <4>2, <4>3 DEF OutstandingAt
      <4> QED BY <4>4 DEF OccupyingAt
    <3>5. Claimed(invitations[k]) \/ ExpiresAt(invitations[k]) > clock
      BY <1>2, <1>3, <3>3 DEF OccupyingAt, Claimed, ExpiresAt
    <3> QED BY <3>3, <3>4, <3>5 DEF Occupying
  <2>3. IsFiniteSet(Occupying(clock)) /\ Cardinality(Occupying(clock)) < Limit
    BY FS_Subset DEF AccessInv, Occupying, IssueSpectatorInvitation
  <2>4. /\ IsFiniteSet(OccupyingAt(i, l)')
        /\ Cardinality(OccupyingAt(i, l)') <= Cardinality(Occupying(clock))
    BY <2>2, <2>3, FS_Subset
  <2>5. Cardinality(OccupyingAt(i, l)') < Limit
    BY <2>3, <2>4, FS_CardinalityType, AccessAssumption DEF AccessAssumption
  <2> QED BY <2>1, <2>5 DEF IssueReplays, OccupyingAt
<1>7. \A j \in (Sequence + 1)..Sequence' : Entered(j)'
  <2>1. Entered(i)'
    BY <1>1, <1>6, <1>i DEF Entered
  <2>2. \A j \in (Sequence + 1)..Sequence' : j = i
    BY <1>1, <1>i
  <2> QED BY <2>1, <2>2
<1> QED BY <1>4, <1>5, <1>7, LogStays DEF AccessInv
\* Either revocation.
LEMMA RevokeLog ==
  ASSUME AccessInv, AccessInv', LogMatches, NEW l \in DOMAIN invitations,
         NEW name \in {"revokeInvitation", "revokeAccess"}, Record(name, l),
         invitations' = [invitations EXCEPT ![l] = Ended(@)],
         ~Revoked(invitations[l]),
         IF Claimed(invitations[l])
         THEN name = "revokeAccess"
         ELSE name = "revokeInvitation" /\ ExpiresAt(invitations[l]) > clock
  PROVE  LogMatches'
<1> DEFINE inv == invitations[l]
<1>1. /\ Sequence' = Sequence + 1 /\ Sequence \in Nat /\ clock \in Nat /\ LogKept
      /\ actions'[Sequence + 1] = [name |-> name, lookup |-> l]
      /\ \A k \in DOMAIN invitations : invitations[k] \in Invitation
  BY RecordIs, Typed DEF AccessInv, TypeOK
<1>2. /\ SameClaim(Ended(inv), inv)
      /\ Ended(inv).session = inv.session
      /\ Ended(inv).revokedAt = clock /\ Ended(inv).revokedAfter = Sequence + 1
  BY <1>1, EndedIs
<1>3. /\ DOMAIN invitations' = DOMAIN invitations
      /\ invitations'[l] = Ended(inv)
      /\ \A k \in DOMAIN invitations : k # l => invitations'[k] = invitations[k]
  OBVIOUS
<1>4. Revoked(Ended(inv))
  BY <1>1, <1>2, AccessAssumption DEF Revoked, AccessAssumption
<1>5. Steady
  BY <1>1, <1>2, <1>3, <1>4 DEF Steady, SameClaim, Claimed
<1>6. Traced(l)'
  <2>1. /\ inv.activeAfter \in 1..Sequence
        /\ Claimed(inv) => inv.claimedAfter \in inv.activeAfter..Sequence
    BY DEF AccessInv, InvitationsAreDated
  <2>2. Sequence + 1 \in (inv.activeAfter + 1)..Sequence'
    BY <1>1, <2>1
  <2>3. Claimed(inv) => inv.claimedAfter < Sequence + 1
    BY <1>1, <2>1
  <2>4. Traced(l)
    BY DEF LogMatches
  <2>5. clock < ExpiresAt(inv) \/ Claimed(inv)
    BY <1>1, AccessAssumption DEF ExpiresAt, Invitation, AccessAssumption
  <2>6. actions'[Sequence + 1].lookup = l /\ actions'[Sequence + 1].name = name
    BY <1>1
  <2> HIDE DEF inv
  <2>7. LET new == Ended(inv) IN
        /\ ~Claimed(new) => new.binding = None /\ new.session = None /\ new.claimedAfter = None
        /\ new.revokedAfter \in (new.activeAfter + 1)..Sequence'
        /\ actions'[new.revokedAfter].lookup = l
        /\ IF Claimed(new)
           THEN actions'[new.revokedAfter].name = "revokeAccess" /\ new.claimedAfter < new.revokedAfter
           ELSE actions'[new.revokedAfter].name = "revokeInvitation" /\ new.revokedAt < ExpiresAt(new)
    BY <1>2, <2>2, <2>3, <2>4, <2>5, <2>6 DEF inv, Traced, SameClaim, Claimed, ExpiresAt
  <2> QED BY <1>3, <2>7 DEF Traced, Claimed, ExpiresAt, Revoked, inv
<1>7. ASSUME NEW k \in DOMAIN invitations, k # l
      PROVE  Traced(k)'
  BY <1>1, <1>3, <1>7, TracedStays DEF AccessInv, LogMatches, SameClaim
<1>8. \A i \in (Sequence + 1)..Sequence' : Entered(i)'
  <2> SUFFICES ASSUME NEW i \in (Sequence + 1)..Sequence' PROVE Entered(i)'
    OBVIOUS
  <2>1. i = Sequence + 1
    BY <1>1
  <2> QED BY <1>1, <1>2, <1>3, <1>4, <2>1 DEF Entered, Revoked
<1> QED BY <1>3, <1>5, <1>6, <1>7, <1>8, LogStays DEF AccessInv

LEMMA ClaimLog ==
  ASSUME AccessInv, AccessInv', LogMatches, NEW l \in Lookup, NEW id \in ClaimId,
         NEW s \in Session \cup {None}, Claim(l, id, s)
  PROVE  LogMatches'
<1> DEFINE n == Cardinality(bindings) + 1
<1>1. PICK t \in IF Current(s) THEN {s} ELSE Session \ (sessions \cup expired) :
        invitations' = [invitations EXCEPT ![l] = Taken(@, n, t, id)]
  BY DEF Claim
<1>2. /\ Sequence \in Nat /\ clock \in Nat
      /\ l \in DOMAIN invitations /\ ~Revoked(invitations[l]) /\ ~Claimed(invitations[l])
      /\ invitations[l] \in Invitation /\ n \in Nat /\ t \in Session
      /\ actions' = actions
  BY Typed, FS_CardinalityType
  DEF AccessInv, TypeOK, BindingsAreCounted, Claim, Claimable, Current
<1>3. /\ Claimed(Taken(invitations[l], n, t, id))
      /\ Taken(invitations[l], n, t, id).issuedAt = invitations[l].issuedAt
      /\ Taken(invitations[l], n, t, id).activeAfter = invitations[l].activeAfter
      /\ Taken(invitations[l], n, t, id).claimedAfter = Sequence
      /\ Taken(invitations[l], n, t, id).revokedAt = invitations[l].revokedAt
  BY <1>2, TakenIs
<1>4. /\ DOMAIN invitations' = DOMAIN invitations
      /\ invitations'[l] = Taken(invitations[l], n, t, id)
      /\ \A k \in DOMAIN invitations : k # l => invitations'[k] = invitations[k]
  BY <1>1, <1>2
<1> HIDE DEF n
<1>5. LogKept /\ Sequence' = Sequence
  BY <1>2 DEF LogKept, Sequence
<1>6. Steady
  BY <1>2, <1>3, <1>4, <1>5 DEF Steady, Revoked
<1>7. Traced(l)'
  BY <1>2, <1>3, <1>4 DEF Traced, Revoked, Claimed
<1>8. ASSUME NEW k \in DOMAIN invitations, k # l
      PROVE  Traced(k)'
  BY <1>4, <1>5, <1>8, TracedStays DEF AccessInv, LogMatches, SameClaim
<1>9. \A i \in (Sequence + 1)..Sequence' : Entered(i)'
  BY <1>2, <1>5
<1> QED BY <1>4, <1>6, <1>7, <1>8, <1>9, LogStays DEF AccessInv

LEMMA InitLog ==
  ASSUME Init
  PROVE  LogInv
BY DEF Init, LogInv, LogMatches, Sequence

LEMMA NextLog ==
  ASSUME AccessInv, AccessInv', LogInv, [Next]_vars
  PROVE  LogInv'
<1> SUFFICES ASSUME ~deleted' PROVE LogMatches'
  BY DEF LogInv
<1>1. CASE UNCHANGED vars
  <2>1. UNCHANGED <<actions, invitations, deleted>>
    BY <1>1 DEF vars
  <2> QED BY <2>1, NoEntries, UnchangedLog DEF AccessInv, LogInv
<1>2. ASSUME NEW l \in Lookup, IssueSpectatorInvitation(l) PROVE LogMatches'
  BY <1>2, IssueLog DEF LogInv, IssueSpectatorInvitation
<1>3. ASSUME NEW l \in Lookup, RevokeSpectatorInvitation(l) PROVE LogMatches'
  BY <1>3, RevokeLog DEF LogInv, RevokeSpectatorInvitation
<1>4. ASSUME NEW l \in Lookup, RevokeSpectatorAccess(l) PROVE LogMatches'
  BY <1>4, RevokeLog DEF LogInv, RevokeSpectatorAccess
<1>5. ASSUME NEW l \in Lookup, NEW id \in ClaimId, NEW s \in Session \cup {None}, Claim(l, id, s)
      PROVE  LogMatches'
  BY <1>5, ClaimLog DEF LogInv, Claim, Claimable
<1>6. ASSUME NEW l \in Lookup, NEW id \in ClaimId, RetryClaim(l, id) PROVE LogMatches'
  BY <1>6, NoEntries, UnchangedLog DEF AccessInv, LogInv, RetryClaim
<1>7. CASE DeleteGame BY <1>7 DEF DeleteGame
<1>8. CASE Play BY <1>8, PlayLog DEF LogInv, Play
<1>9. CASE Purge BY <1>9, PurgeLog DEF LogInv, Purge
<1>10. CASE Tick BY <1>10, NoEntries, UnchangedLog DEF AccessInv, LogInv, Tick
<1>11. ASSUME NEW s \in Session, SessionExpires(s) PROVE LogMatches'
  BY <1>11, NoEntries, UnchangedLog DEF AccessInv, LogInv, SessionExpires
<1> QED BY <1>1, <1>2, <1>3, <1>4, <1>5, <1>6, <1>7, <1>8, <1>9, <1>10, <1>11 DEF Next

\* The validator accepts every prefix of the log of an open game against the evidence of
\* today, however long the log is and whatever the limit on spectators.
THEOREM PrefixesReplay == Spec => []EveryPrefixReplays
<1>1. Init /\ AccessInv => LogInv BY InitLog
<1>2. AccessInv /\ AccessInv' /\ LogInv /\ [Next]_vars => LogInv' BY NextLog
<1>3. AccessInv /\ LogInv => EveryPrefixReplays BY InvReplays
<1> QED BY <1>1, <1>2, <1>3, Sound, PTL DEF Spec
=============================================================================
