---------------------------- MODULE Restoration ----------------------------
(***************************************************************************)
(* Backups, restores and the deletion ledger: what keeps a deleted game    *)
(* deleted when an older database comes back.  The database is one         *)
(* snapshot here, every call atomic (Store shows that they are).           *)
(*                                                                         *)
(* scripts/offhost-backup.sh copies the database and its ledger away and   *)
(* leaves a watermark, the length of the copied ledger, on the host.  At   *)
(* start-up the server compares its ledger with the watermark once and     *)
(* serves nobody when they differ.  An operator restores any retained      *)
(* backup, and synchronizes the newest copied ledger into it; a daily      *)
(* timer purges what was deleted long ago whenever the container runs.     *)
(* With push notifications configured an unready server does not stay up   *)
(* (index.ts); without them it runs and refuses.                           *)
(***************************************************************************)
EXTENDS Snapshot

CONSTANTS
  MaxBackups,  \* bound: backups retained
  MaxReceipts, \* bound: receipts ever written
  Accidents    \* what else may happen

ASSUME RestorationAssumption ==
  /\ Asked \subseteq Request /\ MaxGames \in Nat
  /\ MaxBackups \in Nat /\ MaxReceipts \in Nat
  /\ Accidents \subseteq {"purge while unready", "acknowledgement lost"}

VARIABLES
  snapshot,      \* the database
  server,        \* "down", "unready" or "ready"
  backups,       \* retained copies of the database
  offhost,       \* the newest copied ledger
  watermark,     \* offhost-ledger-watermark
  acknowledged,  \* history: the games whose deletion a watermark has covered
  written        \* receipts written so far, which dates them

restorationVars == <<snapshot, server, backups, offhost, watermark, acknowledged, written>>

Deleted(ledger) == {ledger[i].game : i \in DOMAIN ledger}

\* Receipts are dated: two histories never write the same one.
Do(next) ==
  /\ written + Len(next.ledger) - Len(snapshot.ledger) <= MaxReceipts
  /\ snapshot' = next
  /\ written' = IF Len(next.ledger) > Len(snapshot.ledger) THEN written + 1 ELSE written

\* A call of a browser, through the readiness gate of http.ts and room.ts.
Serve(r) ==
  /\ server = "ready"
  /\ \E new \in IF r.kind = "create" THEN Fresh(DOMAIN snapshot.games, snapshot.ledger) ELSE {0} :
       Do(Apply(snapshot, r, new, written + 1))
  /\ UNCHANGED <<server, backups, offhost, watermark, acknowledged>>

\* gettysburg-purge.timer: the operator command runs in the container, ready or not.
PurgeDeleted(upTo) ==
  /\ \/ server = "ready"
     \/ server = "unready" /\ "purge while unready" \in Accidents
  /\ Do(Apply(snapshot, [kind |-> "purge", upTo |-> upTo], 0, written + 1))
  /\ UNCHANGED <<server, backups, offhost, watermark, acknowledged>>

\* offhost-backup.sh, which refuses a ledger shorter than the last; its last step, the
\* watermark, may fail.
BackUp(acknowledges) ==
  /\ Len(snapshot.ledger) >= Len(offhost)
  /\ Len(snapshot.ledger) >= watermark
  /\ acknowledges \/ "acknowledgement lost" \in Accidents
  /\ backups' = backups \cup {snapshot}
  /\ Cardinality(backups') <= MaxBackups
  /\ offhost' = snapshot.ledger
  /\ IF acknowledges
     THEN /\ watermark' = Len(snapshot.ledger)
          /\ acknowledged' = acknowledged \cup Deleted(snapshot.ledger)
     ELSE UNCHANGED <<watermark, acknowledged>>
  /\ UNCHANGED <<snapshot, server, written>>

\* The operator stops the server and puts a backup in place of the database.
Restore(backup) ==
  /\ snapshot' = backup
  /\ server' = "down"
  /\ UNCHANGED <<backups, offhost, watermark, acknowledged, written>>

Stop ==
  /\ server # "down"
  /\ server' = "down"
  /\ UNCHANGED <<snapshot, backups, offhost, watermark, acknowledged, written>>

\* (A variant that does not ask for the watermark.)
Start_Unchecked ==
  /\ server = "down"
  /\ server' = "ready"
  /\ UNCHANGED <<snapshot, backups, offhost, watermark, acknowledged, written>>

\* loadDeletionLedgerStartupReadiness, isDeletionLedgerAcknowledged
Start ==
  /\ server = "down"
  /\ server' = IF watermark = Len(snapshot.ledger) THEN "ready" ELSE "unready"
  /\ UNCHANGED <<snapshot, backups, offhost, watermark, acknowledged, written>>

\* operator.js sync-deletion-ledger with the newest copy; then the operator sets the watermark.
Synchronize ==
  /\ server # "down"
  /\ Continues(offhost, snapshot.ledger)
  /\ snapshot' = Prune(SynchronizeDeletionLedger(Prune(snapshot), offhost))
  /\ watermark' = Len(offhost)
  /\ acknowledged' = acknowledged \cup Deleted(offhost)
  /\ UNCHANGED <<server, backups, offhost, written>>

RestorationInit ==
  /\ snapshot = Empty
  /\ server = "down"
  /\ backups = {}
  /\ offhost = <<>>
  /\ watermark = 0
  /\ acknowledged = {}
  /\ written = 0

RestorationNext ==
  \/ \E r \in Asked : Serve(r)
  \/ \E upTo \in 1..MaxReceipts : PurgeDeleted(upTo)
  \/ \E acknowledges \in BOOLEAN : BackUp(acknowledges)
  \/ \E backup \in backups : Restore(backup)
  \/ Stop
  \/ Start
  \/ Synchronize

RestorationSpec == RestorationInit /\ [][RestorationNext]_restorationVars

-----------------------------------------------------------------------------

\* A game whose deletion has been acknowledged off the host is never open again while the
\* server serves, whatever backup came back and whether or not its ledger was synchronized.
DeletedGamesStayClosed ==
  server = "ready" => \A g \in acknowledged : ~Active(snapshot, g)

\* Every receipt of the ledger is in force: its game is closed, nobody sits in it, is invited
\* to it, observes it or is notified of it, and after a purge nothing of it remains.
LedgerIsInForce ==
  \A i \in DOMAIN snapshot.ledger :
    LET g == snapshot.ledger[i].game
    IN /\ ~Active(snapshot, g)
       /\ g \notin snapshot.invitations
       /\ Of(g, snapshot.spectators) = {} /\ Of(g, snapshot.consents) = {}
       /\ \A b \in Of(g, snapshot.bindings) : ~b.live
       /\ snapshot.ledger[i].purgedAt # 0
            => g \notin DOMAIN snapshot.games /\ Of(g, snapshot.bindings) = {}

\* Synchronizing takes nothing from the games that stay open: their players keep seat,
\* session and consent, their observers access.
OtherGamesKeepTheirPlayers ==
  [][Synchronize =>
       \A g \in Game : Active(snapshot', g) =>
         /\ Of(g, snapshot'.bindings) = Of(g, snapshot.bindings)
         /\ Of(g, snapshot'.spectators) = Of(g, snapshot.spectators)
         /\ Of(g, snapshot'.consents) = Of(g, snapshot.consents)
         /\ \A b \in Of(g, snapshot.bindings) \cup Of(g, snapshot.spectators) :
              b.session \in snapshot.sessions => b.session \in snapshot'.sessions]_restorationVars
=============================================================================
