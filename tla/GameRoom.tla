----------------------------- MODULE GameRoom -----------------------------
(***************************************************************************)
(* The room of one game on the server: apps/server/src/room.ts, with the   *)
(* event bus and what it asks of the PostgreSQL store.                     *)
(*                                                                         *)
(* Whoever commits an event tells the room afterwards; nothing orders the  *)
(* answers of two commits, which come over different database connections. *)
(* The room sends what it is told through one queue.  Deliveries to        *)
(* spectators and first snapshots read the database under a lock that      *)
(* holds back commits until the messages are sent, within a deadline.      *)
(*                                                                         *)
(* A state or event is known by its sequence number.  A client of the      *)
(* model is one connection: whoever reconnects is another client.          *)
(***************************************************************************)
EXTENDS Integers, Sequences, FiniteSets

CONSTANTS
  Client,       \* connections
  Binding,      \* seat bindings and spectator bindings
  BindingOf,    \* the binding each connection presents
  SideOf,       \* the seat of a binding, "none" for a spectator
  Bound,        \* the bindings that exist when the room is opened
  NoRead,       \* no read is under way
  MaxSequence   \* bound on the number of events

ASSUME RoomAssumption ==
  /\ BindingOf \in [Client -> Binding]
  /\ SideOf \in [Binding -> {"confederate", "union", "none"}]
  /\ Bound \subseteq Binding
  /\ MaxSequence \in Nat

VARIABLES
  history,     \* the committed events
  access,      \* the bindings that are active in the database
  outbox,      \* events committed, of which the room has not been told yet
  queue,       \* #delivery: what is to be delivered, one after the other
  reading,     \* what the head of the queue has read, while it holds the lock
  retired,     \* #retiredBindings
  conn,        \* how far each connection got
  watermark,   \* #deliveredSequence, of joined connections (else Infinity)
  results,     \* command results to be sent after their broadcast
  sent         \* everything sent to each connection

roomVars == <<history, access, outbox, queue, reading, retired, conn, watermark, results, sent>>

Kinds == {"gameplay", "surrender", "management", "revocation", "recovery", "deletion"}
InRoom == {"handshake", "joining", "joined"}
Message == [type : {"snapshot", "event", "result"}, seq : 0..MaxSequence]
Notice == [seq : 1..MaxSequence, from : SUBSET Client]
Initial(c) == [op |-> "initial", client |-> c]
Batch(notice) == [op |-> "batch", notice |-> notice]

TypeOK ==
  /\ history \in Seq([kind : Kinds, drops : SUBSET Binding])
  /\ Len(history) <= MaxSequence
  /\ access \subseteq Binding
  /\ outbox \subseteq Notice
  /\ queue \in Seq({Initial(c) : c \in Client} \cup {Batch(n) : n \in Notice})
  /\ reading \in {NoRead} \cup [seq : 0..MaxSequence, asked : SUBSET Binding, allowed : SUBSET Binding]
  /\ retired \subseteq Binding
  /\ conn \in [Client -> InRoom \cup {"away", "authenticated", "closed"}]
  /\ watermark \in [Client -> 0..MaxSequence]
  /\ results \subseteq [client : Client, seq : 1..MaxSequence]
  /\ sent \in [Client -> Seq(Message)]

RoomInit ==
  /\ history = <<>>
  /\ access = Bound
  /\ outbox = {}
  /\ queue = <<>>
  /\ reading = NoRead
  /\ retired = {}
  /\ conn = [c \in Client |-> "away"]
  /\ watermark = [c \in Client |-> 0]
  /\ results = {}
  /\ sent = [c \in Client |-> <<>>]

Spectator(c) == SideOf[BindingOf[c]] = "none"
Deleted == \E n \in DOMAIN history : history[n].kind = "deletion"

\* #canReceive
CanReceive(c) == conn[c] \in InRoom /\ BindingOf[c] \notin retired

Closing(S) == [c \in Client |-> IF c \in S THEN "closed" ELSE conn[c]]

-----------------------------------------------------------------------------
(* The service.                                                            *)

\* (A variant that does not lock out commits while a delivery is under way.)
LockIsFree_Always == TRUE

\* #mutate takes the row FOR UPDATE that #readInDeliverySlot holds FOR SHARE.
LockIsFree == reading = NoRead

Commit(kind, drops, from) ==
  /\ LockIsFree
  /\ ~Deleted
  /\ Len(history) < MaxSequence
  /\ history' = Append(history, [kind |-> kind, drops |-> drops])
  /\ outbox' = outbox \cup {[seq |-> Len(history) + 1, from |-> from]}
  /\ UNCHANGED <<queue, reading, retired, conn, watermark, results, sent>>

\* A command sent by a player who has been connected, and perhaps no longer is.
HasPlayed(c) == ~Spectator(c) /\ sent[c] # <<>>

\* executeCommand
PlayCommand(c) ==
  /\ HasPlayed(c)
  /\ BindingOf[c] \in access
  /\ Commit("gameplay", {}, {c})
  /\ UNCHANGED access

SurrenderSeat(c) ==
  /\ HasPlayed(c)
  /\ BindingOf[c] \in access
  /\ Commit("surrender", {BindingOf[c]}, {c})
  /\ access' = access \ {BindingOf[c]}

\* executeHostCommand, by HTTP
HostCommand == Commit("management", {}, {}) /\ UNCHANGED access

RevokeSpectator(b) ==
  /\ b \in access
  /\ SideOf[b] = "none"
  /\ Commit("revocation", {b}, {})
  /\ access' = access \ {b}

DeleteGame ==
  /\ Commit("deletion", access, {})
  /\ access' = {}

\* claimSeatRecovery, by HTTP: another binding takes the seat.
RecoverSeat(old, new) ==
  /\ old \in access
  /\ SideOf[old] # "none"
  /\ SideOf[new] = SideOf[old]
  /\ new \notin access \cup Bound
  /\ \A n \in DOMAIN history : new \notin history[n].drops
  /\ Commit("recovery", {old}, {})
  /\ access' = (access \ {old}) \cup {new}

-----------------------------------------------------------------------------
(* What the room is told.                                                  *)

\* The bindings the room retires on a notification.
Retirees(event) ==
  LET present == {BindingOf[c] : c \in {d \in Client : conn[d] \in InRoom}} IN
  {b \in Binding :
     \/ event.kind = "revocation" /\ b \in event.drops
     \/ event.kind = "deletion" /\ b \in present /\ SideOf[b] = "none"
     \/ /\ event.kind = "recovery" /\ b \in present
        /\ \E old \in event.drops : SideOf[b] = SideOf[old]}

\* (A variant whose command handler does not wait for its broadcast.)
Enqueue_Unawaited(notice) ==
  /\ notice \in outbox
  /\ outbox' = outbox \ {notice}
  /\ results' = results \cup {[client |-> c, seq |-> notice.seq] : c \in notice.from}
  /\ queue' = Append(queue, Batch(notice))
  /\ UNCHANGED <<history, access, reading, retired, conn, watermark, sent>>

\* publishManagement and publishAudit, or the continuation of a command handler
Enqueue(notice) ==
  LET gone == Retirees(history[notice.seq]) IN
  /\ notice \in outbox
  /\ outbox' = outbox \ {notice}
  /\ retired' = retired \cup gone
  /\ conn' = Closing({c \in Client : conn[c] \in InRoom /\ BindingOf[c] \in gone})
  /\ queue' = Append(queue, Batch(notice))
  /\ UNCHANGED <<history, access, reading, watermark, results, sent>>

\* The command handler goes on after its broadcast.
SendResult(result) ==
  LET c == result.client IN
  /\ result \in results
  /\ results' = results \ {result}
  /\ sent' = IF conn[c] = "joined"
               THEN [sent EXCEPT ![c] = Append(@, [type |-> "result", seq |-> result.seq])]
               ELSE sent
  /\ conn' = IF history[result.seq].kind = "surrender" /\ conn[c] \in InRoom THEN Closing({c}) ELSE conn
  /\ UNCHANGED <<history, access, outbox, queue, reading, retired, watermark>>

-----------------------------------------------------------------------------
(* Connections.                                                            *)

\* onAuth
Authenticate(c) ==
  /\ conn[c] = "away"
  /\ BindingOf[c] \in access
  /\ conn' = [conn EXCEPT ![c] = "authenticated"]
  /\ UNCHANGED <<history, access, outbox, queue, reading, retired, watermark, results, sent>>

\* The other connections of the same binding
Replaced(c) == {d \in Client \ {c} : conn[d] \in InRoom /\ BindingOf[d] = BindingOf[c]}

\* onJoin: a spectator's first snapshot waits for the end of the handshake.
Join(c) ==
  /\ conn[c] = "authenticated"
  /\ conn' = [Closing(Replaced(c)) EXCEPT
                ![c] = IF Spectator(c) THEN "handshake" ELSE "joining"]
  /\ queue' = IF Spectator(c) THEN queue ELSE Append(queue, Initial(c))
  /\ UNCHANGED <<history, access, outbox, reading, retired, watermark, results, sent>>

\* waitForJoined
Acknowledge(c) ==
  /\ conn[c] = "handshake"
  /\ conn' = [conn EXCEPT ![c] = "joining"]
  /\ queue' = Append(queue, Initial(c))
  /\ UNCHANGED <<history, access, outbox, reading, retired, watermark, results, sent>>

\* The socket closes, or the handshake takes too long.
Disconnect(c) ==
  /\ conn[c] \in InRoom
  /\ conn' = Closing({c})
  /\ UNCHANGED <<history, access, outbox, queue, reading, retired, watermark, results, sent>>

-----------------------------------------------------------------------------
(* The delivery queue.                                                     *)

Observers == {c \in Client : conn[c] = "joined" /\ Spectator(c)}

NeedsRead(delivery) ==
  IF delivery.op = "initial" THEN CanReceive(delivery.client) ELSE Observers # {}

\* The lock is taken, then the state and the authorizations are read.
BeginRead ==
  /\ queue # <<>>
  /\ NeedsRead(Head(queue))
  /\ reading = NoRead
  /\ reading' = [seq |-> Len(history),
                 asked |-> {BindingOf[c] : c \in Observers}, allowed |-> access]
  /\ UNCHANGED <<history, access, outbox, queue, retired, conn, watermark, results, sent>>

\* (A variant that waits for a client who has gone.)
SkipInitial_Waits == FALSE

\* Obsolete joins are skipped.
SkipInitial ==
  /\ queue # <<>>
  /\ Head(queue).op = "initial"
  /\ ~CanReceive(Head(queue).client)
  /\ queue' = Tail(queue)
  /\ reading' = NoRead
  /\ UNCHANGED <<history, access, outbox, retired, conn, watermark, results, sent>>

FinishInitial ==
  /\ queue # <<>>
  /\ Head(queue).op = "initial"
  /\ reading # NoRead
  /\ LET c == Head(queue).client IN
     /\ CanReceive(c)
     /\ IF BindingOf[c] \in reading.allowed
          THEN /\ conn' = [conn EXCEPT ![c] = "joined"]
               /\ watermark' = [watermark EXCEPT ![c] = reading.seq]
               /\ sent' = [sent EXCEPT ![c] =
                             Append(@, [type |-> "snapshot", seq |-> reading.seq])]
          ELSE conn' = Closing({c}) /\ UNCHANGED <<watermark, sent>>
  /\ queue' = Tail(queue)
  /\ reading' = NoRead
  /\ UNCHANGED <<history, access, outbox, retired, results>>

\* The deadline passes or the read fails.
FailInitial ==
  /\ queue # <<>>
  /\ Head(queue).op = "initial"
  /\ CanReceive(Head(queue).client)
  /\ conn' = Closing({Head(queue).client})
  /\ queue' = Tail(queue)
  /\ reading' = NoRead
  /\ UNCHANGED <<history, access, outbox, retired, watermark, results, sent>>

\* #sendAuthorized: those who have not seen that much yet.
Receivers(seq, closing) ==
  {c \in Client : conn[c] = "joined" /\ CanReceive(c) /\ watermark[c] < seq} \ closing

Messages(seq) ==
  IF history[seq].kind \in {"gameplay", "surrender"}
    THEN <<[type |-> "event", seq |-> seq], [type |-> "snapshot", seq |-> seq]>>
    ELSE <<[type |-> "event", seq |-> seq]>>

\* The head of the queue goes out, but for the connections that are closed instead.
Deliver(notice, closing) ==
  LET receivers == Receivers(notice.seq, closing) IN
  /\ conn' = Closing(closing)
  /\ sent' = [c \in Client |-> IF c \in receivers THEN sent[c] \o Messages(notice.seq)
                                                  ELSE sent[c]]
  /\ watermark' = [c \in Client |-> IF c \in receivers THEN notice.seq ELSE watermark[c]]
  /\ results' = results \cup {[client |-> c, seq |-> notice.seq] : c \in notice.from}
  /\ queue' = Tail(queue)
  /\ reading' = NoRead

\* The observers whom the read no longer permits
Unwelcome == reading.asked \ reading.allowed

\* #deliverAuthorized, with spectators
FinishBatch ==
  /\ queue # <<>>
  /\ Head(queue).op = "batch"
  /\ reading # NoRead
  /\ retired' = retired \cup Unwelcome
  /\ Deliver(Head(queue).notice,
             {c \in Client : conn[c] \in InRoom /\ BindingOf[c] \in Unwelcome})
  /\ UNCHANGED <<history, access, outbox>>

\* ... without
SendBatch ==
  /\ queue # <<>>
  /\ Head(queue).op = "batch"
  /\ reading = NoRead
  /\ Observers = {}
  /\ Deliver(Head(queue).notice, {})
  /\ UNCHANGED <<history, access, outbox, retired>>

\* (A variant that gives up the whole delivery.)
FailBatch_Drops ==
  /\ queue # <<>>
  /\ Head(queue).op = "batch"
  /\ Observers # {} \/ reading # NoRead
  /\ conn' = Closing({c \in Client : conn[c] \in InRoom /\ Spectator(c)})
  /\ queue' = Tail(queue)
  /\ reading' = NoRead
  /\ UNCHANGED <<history, access, outbox, retired, watermark, results, sent>>

\* ... or when the deadline passes or the read fails: every spectator is closed.
FailBatch ==
  /\ queue # <<>>
  /\ Head(queue).op = "batch"
  /\ Observers # {} \/ reading # NoRead
  /\ Deliver(Head(queue).notice, {c \in Client : conn[c] \in InRoom /\ Spectator(c)})
  /\ UNCHANGED <<history, access, outbox, retired>>

-----------------------------------------------------------------------------

ServiceStep ==
  \/ HostCommand
  \/ DeleteGame
  \/ \E b \in Binding : RevokeSpectator(b)
  \/ \E old, new \in Binding : RecoverSeat(old, new)
  \/ \E c \in Client : PlayCommand(c)
  \/ \E c \in Client : SurrenderSeat(c)

Delivery ==
  \/ BeginRead
  \/ SkipInitial
  \/ FinishInitial
  \/ FailInitial
  \/ FinishBatch
  \/ SendBatch
  \/ FailBatch

Notify == \E notice \in outbox : Enqueue(notice)
Answer == \E result \in results : SendResult(result)
Handshake(c) == Acknowledge(c) \/ (conn[c] = "handshake" /\ Disconnect(c))

RoomNext ==
  \/ ServiceStep
  \/ Delivery
  \/ Notify
  \/ Answer
  \/ \E c \in Client : Authenticate(c) \/ Join(c) \/ Acknowledge(c) \/ Disconnect(c)

\* The process runs on: it is told of commits, it serves its queue, where each read ends
\* within the deadline, sends results, and ends handshakes.
RoomFairness ==
  /\ WF_roomVars(Delivery)
  /\ WF_roomVars(Notify)
  /\ WF_roomVars(Answer)
  /\ \A c \in Client : WF_roomVars(Handshake(c))

RoomSpec == RoomInit /\ [][RoomNext]_roomVars /\ RoomFairness

-----------------------------------------------------------------------------
(* Properties.                                                             *)

\* Nothing is lost in joining: what a connection has not been sent yet is still on its
\* way, as an event the room has yet to be told of or to deliver.
NothingIsLost ==
  \A c \in Client : conn[c] = "joined" =>
    \A n \in (watermark[c] + 1)..Len(history) :
      \/ \E notice \in outbox : notice.seq = n
      \/ \E k \in DOMAIN queue : queue[k].op = "batch" /\ queue[k].notice.seq = n

\* What a connection is sent begins with a snapshot and never goes back: no event twice,
\* none older than the snapshot, none before it.
SentInOrder ==
  \A c \in Client :
    /\ sent[c] # <<>> => sent[c][1].type = "snapshot"
    /\ \A i, j \in DOMAIN sent[c] :
         i < j /\ sent[c][i].type # "result" /\ sent[c][j].type # "result" =>
           \/ sent[c][i].seq < sent[c][j].seq
           \/ /\ sent[c][i].seq = sent[c][j].seq
              /\ sent[c][i].type = "event" /\ sent[c][j].type = "snapshot"

\* A player is told the result of a command only after the broadcast that shows it, or
\* one that overtook it.
ResultsFollowBroadcasts ==
  \A c \in Client : \A j \in DOMAIN sent[c] :
    sent[c][j].type = "result" =>
      \E i \in 1..(j - 1) : sent[c][i].type # "result" /\ sent[c][i].seq >= sent[c][j].seq

\* Deliveries that were queued together, overtook each other or failed in between reach a
\* connection in the order of their commits, and its own results last.
DeliveryIsInOrder == SentInOrder /\ ResultsFollowBroadcasts

\* A binding has one connection at most that is still served.
OneConnectionPerBinding ==
  \A c, d \in Client : CanReceive(c) /\ CanReceive(d) /\ BindingOf[c] = BindingOf[d] => c = d

\* Spectators see nothing after their access has ended, not even if its end and the
\* delivery are under way at the same time.
SpectatorsAreAuthorized ==
  [][\A c \in Client : Spectator(c) /\ sent'[c] # sent[c] => BindingOf[c] \in access]_roomVars

\* Whoever joins is sent the first snapshot and from then on every event, itself or by a
\* later one, unless the connection is closed or its binding was retired before it joined
\* (such a connection stays open, and is sent nothing).
EveryoneIsServed ==
  \A c \in Client :
    conn[c] \in {"joining", "joined"} ~>
      \/ conn[c] \notin {"joining", "joined"}
      \/ BindingOf[c] \in retired
      \/ conn[c] = "joined" /\ watermark[c] >= Len(history)

-----------------------------------------------------------------------------
(* What the proofs rest on.                                                *)

\* The lock: what was read is still true.
ReadsAreCurrent ==
  reading # NoRead =>
    /\ reading.seq = Len(history)
    /\ reading.allowed = access
    /\ \A c \in Observers : BindingOf[c] \in reading.asked

RetiredAreGone == \A c \in Client : conn[c] = "joined" => BindingOf[c] \notin retired

OneInRoom ==
  \A c, d \in Client :
    conn[c] \in InRoom /\ conn[d] \in InRoom /\ BindingOf[c] = BindingOf[d] => c = d

\* A first snapshot is queued once for each connection, until it is joined.
InitialsAreJoining ==
  \A k \in DOMAIN queue : queue[k].op = "initial" =>
    /\ conn[queue[k].client] \in {"joining", "closed"}
    /\ \A j \in DOMAIN queue :
         queue[j].op = "initial" /\ queue[j].client = queue[k].client => j = k

\* Only players who have been served are behind a notice or owed a result.
ActorsHavePlayed ==
  /\ \A notice \in outbox : \A c \in notice.from : HasPlayed(c)
  /\ \A k \in DOMAIN queue : queue[k].op = "batch" => \A c \in queue[k].notice.from : HasPlayed(c)
  /\ \A result \in results : HasPlayed(result.client)

NewcomersHaveNothing ==
  \A c \in Client : conn[c] \notin {"joined", "closed"} => sent[c] = <<>>

\* The watermark is the last event or snapshot sent.
WatermarkIsSent ==
  \A c \in Client :
    /\ conn[c] = "joined" =>
         \E i \in DOMAIN sent[c] : sent[c][i].type # "result" /\ sent[c][i].seq = watermark[c]
    /\ \A i \in DOMAIN sent[c] : sent[c][i].type # "result" => sent[c][i].seq <= watermark[c]

ResultsAreShown ==
  \A result \in results :
    conn[result.client] = "joined" => watermark[result.client] >= result.seq

RoomInv ==
  /\ TypeOK
  /\ ReadsAreCurrent
  /\ RetiredAreGone
  /\ OneInRoom
  /\ InitialsAreJoining
  /\ ActorsHavePlayed
  /\ NewcomersHaveNothing
  /\ WatermarkIsSent
  /\ ResultsAreShown
  /\ NothingIsLost
  /\ SentInOrder
  /\ ResultsFollowBroadcasts

=============================================================================
