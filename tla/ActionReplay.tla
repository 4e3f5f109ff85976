---------------------------- MODULE ActionReplay ----------------------------
(***************************************************************************)
(* The replay validator, apps/server/src/mandatory-replay.ts: the checks   *)
(* that replayMandatoryActions makes of a stored action log against the    *)
(* bindings, invitations and recovery grants of the latest snapshot before *)
(* it returns a historical state.  A game whose history the validator      *)
(* refuses can no longer be replayed or exported, so the service must      *)
(* never write a history it would refuse.                                  *)
(***************************************************************************)
EXTENDS GameService

Issued(b) == bindings[b].status # "none"

\* bindingInterval: a binding acts at sequences in start..end-1.
ActsAt(b, n) ==
  /\ Issued(b)
  /\ bindings[b].activeAfter < n
  /\ bindings[b].status = "active" \/ n < bindings[b].inactiveFrom

ChronologyAvailable(b) ==
  IF bindings[b].status = "active"
    THEN bindings[b].inactiveFrom = 0
    ELSE bindings[b].inactiveFrom > bindings[b].activeAfter

\* Recovery can retire a binding before it has any action-bearing interval.
NeverActs(b) ==
  bindings[b].status = "revoked" /\ bindings[b].inactiveFrom = bindings[b].activeAfter + 1

Precedes(b1, b2) ==
  bindings[b1].status = "revoked" /\ bindings[b1].inactiveFrom <= bindings[b2].activeAfter + 1

\* bindingTimeline: one interval after the other for each side and for the host.
Timeline ==
  \A b1, b2 \in BindingId :
    /\ Issued(b1) /\ Issued(b2) /\ b1 # b2
    /\ bindings[b1].role = bindings[b2].role
    => NeverActs(b1) \/ NeverActs(b2) \/ Precedes(b1, b2) \/ Precedes(b2, b1)

VersionBefore(n) == IF n = 1 THEN 0 ELSE actions[n - 1].resultingVersion

ChoiceBefore(n) == IF n = 1 THEN {} ELSE actions[n - 1].pendingChoice

EntryInOrder(n) ==
  LET a == actions[n] IN
  /\ a.sequence = n
  /\ a.expectedVersion = VersionBefore(n)
  /\ a.resultingVersion = VersionBefore(n) + (IF a.kind = "gameplay" THEN 1 ELSE 0)
  /\ a.command # None => \A m \in 1..(n - 1) : actions[m].command # a.command

\* A surrender at n retires the outstanding invitations of its seat at n.
OutstandingRetired(side, n) ==
  \A i \in InvitationId :
    LET inv == invitations[i] IN
    inv.issued /\ inv.seat = side /\ inv.activeAfter < n =>
      \/ inv.claimed /\ inv.claimedAfter >= inv.activeAfter /\ inv.claimedAfter < n
      \/ ~inv.claimed /\ inv.revoked /\ inv.revokedAt > inv.activeAfter /\ inv.revokedAt <= n

GameplayAccepted(n) ==
  LET a == actions[n] IN
  /\ ActsAt(a.binding, n)
  /\ bindings[a.binding].role \in Side
  /\ \A m \in 1..(n - 1) : ~(actions[m].name = "surrenderSeat" /\ actions[m].binding = a.binding)
  /\ a.name = "surrenderSeat" =>
       /\ bindings[a.binding].status = "revoked"
       /\ bindings[a.binding].inactiveFrom = n + 1
       /\ OutstandingRetired(bindings[a.binding].role, n)
       /\ bindings[a.binding].role \notin ChoiceBefore(n)

HostAccepted(n) ==
  LET a == actions[n] IN
  /\ ActsAt(a.binding, n)
  /\ bindings[a.binding].role = "host"
  /\ a.name = "issueInvitation" =>
       /\ \E i \in InvitationId :
            {j \in InvitationId : invitations[j].issued /\ invitations[j].activeAfter = n} = {i}
            /\ invitations[i].seat = a.subject
       /\ \A b \in BindingId : bindings[b].role = a.subject => ~ActsAt(b, n)
  /\ a.name = "revokeInvitation" =>
       /\ invitations[a.subject].activeAfter < n
       /\ ~invitations[a.subject].claimed
       /\ invitations[a.subject].revokedAt = n

AuditAccepted(n) ==
  LET g == grants[actions[n].subject]
  IN /\ g.auditSequence = n /\ g.consumed /\ ~g.revoked
     /\ g.newBinding # g.oldBinding
     /\ Issued(g.oldBinding) /\ Issued(g.newBinding)
     /\ bindings[g.oldBinding].inactiveFrom = n
     /\ bindings[g.oldBinding].activeAfter < n
     /\ bindings[g.newBinding].activeAfter = n
     /\ bindings[g.newBinding].version = bindings[g.oldBinding].version + 1
     /\ bindings[g.oldBinding].role = g.role /\ bindings[g.newBinding].role = g.role

EntryAccepted(n) ==
  /\ EntryInOrder(n)
  /\ CASE actions[n].kind = "gameplay" -> GameplayAccepted(n)
       [] actions[n].kind = "host_management" -> HostAccepted(n)
       [] actions[n].kind = "operator_audit" -> AuditAccepted(n)

\* replayMandatoryActions over the whole log, and the final snapshot comparison.
ReplayAccepts ==
  /\ \A b \in BindingId : Issued(b) => ChronologyAvailable(b)
  /\ Timeline
  /\ \A n \in DOMAIN actions : EntryAccepted(n)
  /\ eventSequence = Len(actions)
  /\ version = VersionBefore(Len(actions) + 1)
  /\ pendingChoice = ChoiceBefore(Len(actions) + 1)

\* Whatever the players, the host and the operator did, in any order, the
\* history of a live game passes its own replay: sequence and version chains,
\* authority intervals, surrender and recovery bookkeeping all agree.
HistoryReplays == status = "active" => ReplayAccepts

-----------------------------------------------------------------------------
(* What HistoryReplays rests on: together with IInv it is inductive.       *)

\* Every date lies in the past, except that a binding surrendered at the last
\* entry is retired after it.
BindingsDated ==
  \A b \in BindingId :
    Issued(b) =>
      /\ bindings[b].activeAfter <= eventSequence
      /\ IF IsActive(b)
           THEN bindings[b].inactiveFrom = 0
           ELSE /\ bindings[b].activeAfter < bindings[b].inactiveFrom
                /\ bindings[b].inactiveFrom <= eventSequence + 1

InvitationsDated ==
  \A i \in InvitationId :
    LET inv == invitations[i] IN
    inv.issued =>
      /\ inv.activeAfter <= eventSequence
      /\ inv.claimed => /\ ~inv.revoked
                        /\ inv.activeAfter <= inv.claimedAfter
                        /\ inv.claimedAfter <= eventSequence
      /\ inv.revoked => /\ inv.activeAfter < inv.revokedAt
                        /\ inv.revokedAt <= eventSequence

\* An entry names what it is about, and what it revoked stays revoked.
EntryKnown(n) ==
  LET a == actions[n] IN
  /\ a.kind # "operator_audit" => a.binding \in BindingId
  /\ a.kind = "operator_audit" => a.subject \in GrantId
  /\ a.name = "surrenderSeat" => a.kind = "gameplay"
  /\ a.kind = "host_management" /\ a.name = "revokeInvitation" =>
       /\ a.subject \in InvitationId
       /\ invitations[a.subject].issued /\ invitations[a.subject].revoked

HistoryStands ==
  /\ BindingsDated
  /\ InvitationsDated
  /\ Timeline
  /\ \A n \in DOMAIN actions : EntryKnown(n) /\ EntryAccepted(n)
  /\ version = VersionBefore(eventSequence + 1)
  /\ pendingChoice = ChoiceBefore(eventSequence + 1)

HistoryInv ==
  /\ status = "absent" => actions = <<>> /\ version = 0 /\ pendingChoice = {}
  /\ status = "active" => HistoryStands

=============================================================================
