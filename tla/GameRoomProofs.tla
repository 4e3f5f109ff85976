-------------------------- MODULE GameRoomProofs --------------------------
(***************************************************************************)
(* Proofs about GameRoom: for any number of connections, bindings and      *)
(* events, nobody is forgotten, told twice or told too early, a binding    *)
(* has one connection, and spectators see nothing after their access ends. *)
(***************************************************************************)
EXTENDS GameRoom, TLAPS

Deliveries == {Initial(c) : c \in Client} \cup {Batch(n) : n \in Notice}

\* The steps of the service have one form: a commit on behalf of nobody, or of a player.
Commits ==
  \E kind \in Kinds, drops \in SUBSET Binding, from \in SUBSET Client :
    /\ Commit(kind, drops, from)
    /\ \A c \in from : HasPlayed(c)

\* One commit of that form is enough.
LEMMA CommitsIntro ==
  ASSUME NEW kind \in Kinds, NEW drops \in SUBSET Binding, NEW from \in SUBSET Client,
         Commit(kind, drops, from),
         \A c \in from : HasPlayed(c)
  PROVE  Commits
PROOF BY DEF Commits

\* Every step of the service is such a commit.
LEMMA ServiceCommits ==
  ASSUME access \subseteq Binding, ServiceStep
  PROVE  Commits /\ access' \subseteq Binding
PROOF
<1>1. CASE HostCommand
  <2>1. Commit("management", {}, {})
    BY <1>1 DEF HostCommand
  <2> QED
    BY <1>1, <2>1, CommitsIntro DEF HostCommand, Kinds
<1>2. CASE DeleteGame
  <2>1. Commit("deletion", access, {})
    BY <1>2 DEF DeleteGame
  <2> QED
    BY <1>2, <2>1, CommitsIntro DEF DeleteGame, Kinds
<1>3. CASE \E b \in Binding : RevokeSpectator(b)
  <2>1. PICK b \in Binding : RevokeSpectator(b)
    BY <1>3
  <2>2. Commit("revocation", {b}, {}) /\ access' = access \ {b}
    BY <2>1 DEF RevokeSpectator
  <2> QED
    BY <2>2, CommitsIntro DEF Kinds
<1>4. CASE \E old, new \in Binding : RecoverSeat(old, new)
  <2>1. PICK old \in Binding, new \in Binding : RecoverSeat(old, new)
    BY <1>4
  <2>2. Commit("recovery", {old}, {}) /\ access' = (access \ {old}) \cup {new}
    BY <2>1 DEF RecoverSeat
  <2> QED
    BY <2>2, CommitsIntro DEF Kinds
<1>5. CASE \E c \in Client : PlayCommand(c)
  <2>1. PICK c \in Client : PlayCommand(c)
    BY <1>5
  <2>2. Commit("gameplay", {}, {c}) /\ HasPlayed(c) /\ access' = access
    BY <2>1 DEF PlayCommand
  <2> QED
    BY <2>2, CommitsIntro DEF Kinds
<1>6. CASE \E c \in Client : SurrenderSeat(c)
  <2>1. PICK c \in Client : SurrenderSeat(c)
    BY <1>6
  <2>2. /\ Commit("surrender", {BindingOf[c]}, {c})
        /\ HasPlayed(c)
        /\ access' = access \ {BindingOf[c]}
    BY <2>1 DEF SurrenderSeat
  <2>3. BindingOf[c] \in Binding
    BY RoomAssumption
  <2> QED
    BY <2>2, <2>3, CommitsIntro DEF Kinds
<1> QED
  BY <1>1, <1>2, <1>3, <1>4, <1>5, <1>6 DEF ServiceStep

\* The deliveries of a batch have one form too: to those who are joined, but for the ones
\* it closes.
LEMMA BatchesDeliver ==
  ASSUME TypeOK, ReadsAreCurrent, RetiredAreGone, FinishBatch \/ SendBatch \/ FailBatch
  PROVE  /\ queue # <<>>
         /\ Head(queue).op = "batch"
         /\ UNCHANGED <<history, access, outbox>>
         /\ retired' \subseteq Binding
         /\ \E closing \in SUBSET Client :
              /\ Deliver(Head(queue).notice, closing)
              /\ \A c \in Client : conn[c] = "joined" /\ c \notin closing =>
                   /\ BindingOf[c] \notin retired \cup retired'
                   /\ Spectator(c) => BindingOf[c] \in access
PROOF
<1>1. CASE FinishBatch
  <2> DEFINE closing == {c \in Client : conn[c] \in InRoom /\ BindingOf[c] \in Unwelcome}
  <2>1. reading.asked \in SUBSET Binding /\ Unwelcome \subseteq Binding
    BY <1>1 DEF FinishBatch, TypeOK, Unwelcome
  <2>2. ASSUME NEW c \in Client, conn[c] = "joined", c \notin closing
        PROVE  /\ BindingOf[c] \notin retired \cup retired'
               /\ Spectator(c) => BindingOf[c] \in access
    <3>1. BindingOf[c] \notin Unwelcome
      BY <2>2 DEF InRoom
    <3>2. BindingOf[c] \notin retired
      BY <2>2 DEF RetiredAreGone
    <3>3. Spectator(c) => BindingOf[c] \in reading.asked
      BY <1>1, <2>2 DEF FinishBatch, ReadsAreCurrent, Observers
    <3>4. reading.allowed = access
      BY <1>1 DEF FinishBatch, ReadsAreCurrent
    <3> QED
      BY <1>1, <3>1, <3>2, <3>3, <3>4 DEF FinishBatch, Unwelcome
  <2>3. closing \in SUBSET Client /\ Deliver(Head(queue).notice, closing)
    BY <1>1 DEF FinishBatch
  <2>4. retired' \subseteq Binding
    BY <1>1, <2>1 DEF FinishBatch, TypeOK
  <2> HIDE DEF closing
  <2> QED
    BY <1>1, <2>2, <2>3, <2>4 DEF FinishBatch
<1>2. CASE SendBatch
  <2>1. Deliver(Head(queue).notice, {}) /\ retired' = retired
    BY <1>2 DEF SendBatch
  <2>2. \A c \in Client : conn[c] = "joined" =>
          BindingOf[c] \notin retired /\ ~Spectator(c)
    BY <1>2 DEF SendBatch, Observers, RetiredAreGone
  <2> QED
    BY <1>2, <2>1, <2>2 DEF SendBatch, TypeOK
<1>3. CASE FailBatch
  <2> DEFINE closing == {c \in Client : conn[c] \in InRoom /\ Spectator(c)}
  <2>1. Deliver(Head(queue).notice, closing) /\ retired' = retired
    BY <1>3 DEF FailBatch
  <2>2. \A c \in Client : conn[c] = "joined" /\ c \notin closing =>
          BindingOf[c] \notin retired /\ ~Spectator(c)
    BY DEF InRoom, RetiredAreGone
  <2>3. closing \in SUBSET Client
    OBVIOUS
  <2> HIDE DEF closing
  <2> QED
    BY <1>3, <2>1, <2>2, <2>3 DEF FailBatch, TypeOK
<1> QED
  BY <1>1, <1>2, <1>3

-----------------------------------------------------------------------------
(* Types.                                                                  *)

\* What the head of the queue is.
LEMMA HeadOfQueue ==
  ASSUME TypeOK, queue # <<>>
  PROVE  /\ Head(queue) \in Deliveries
         /\ Tail(queue) \in Seq(Deliveries)
         /\ Head(queue).op = "initial" => Head(queue).client \in Client
         /\ Head(queue).op = "batch" => Head(queue).notice \in Notice
PROOF
<1>1. queue \in Seq(Deliveries)
  BY DEF TypeOK, Deliveries
<1>2. Head(queue) \in Deliveries /\ Tail(queue) \in Seq(Deliveries)
  BY <1>1
<1>3. CASE \E c \in Client : Head(queue) = Initial(c)
  <2>1. PICK c \in Client : Head(queue) = [op |-> "initial", client |-> c]
    BY <1>3 DEF Initial
  <2> QED
    BY <1>2, <2>1
<1>4. CASE \E n \in Notice : Head(queue) = Batch(n)
  <2>1. PICK n \in Notice : Head(queue) = [op |-> "batch", notice |-> n]
    BY <1>4 DEF Batch
  <2> QED
    BY <1>2, <2>1
<1> QED
  BY <1>2, <1>3, <1>4 DEF Deliveries

\* Closing connections keeps their states among the ones there are.
LEMMA ClosingType ==
  ASSUME NEW S, conn \in [Client -> InRoom \cup {"away", "authenticated", "closed"}]
  PROVE  Closing(S) \in [Client -> InRoom \cup {"away", "authenticated", "closed"}]
PROOF BY DEF Closing

\* The messages of an event are well formed.
LEMMA MessagesType ==
  ASSUME NEW seq \in 1..MaxSequence
  PROVE  /\ Messages(seq) \in Seq(Message)
         /\ Len(Messages(seq)) \in 1..2
         /\ Messages(seq)[1] = [type |-> "event", seq |-> seq]
         /\ Len(Messages(seq)) = 2 => Messages(seq)[2] = [type |-> "snapshot", seq |-> seq]
PROOF
<1>1. seq \in 0..MaxSequence
  BY RoomAssumption
<1>2. [type |-> "event", seq |-> seq] \in Message /\ [type |-> "snapshot", seq |-> seq] \in Message
  BY <1>1 DEF Message
<1> QED
  BY <1>2 DEF Messages

\* A commit keeps the types.
LEMMA CommitType ==
  ASSUME TypeOK, Commits, access' \subseteq Binding
  PROVE  TypeOK'
PROOF
<1>1. PICK kind \in Kinds, drops \in SUBSET Binding, from \in SUBSET Client :
        Commit(kind, drops, from)
  BY DEF Commits
<1>2. history \in Seq([kind : Kinds, drops : SUBSET Binding]) /\ Len(history) < MaxSequence
  BY <1>1 DEF TypeOK, Commit
<1>3. Len(history) + 1 \in 1..MaxSequence
  BY <1>2, RoomAssumption
<1>4. [kind |-> kind, drops |-> drops] \in [kind : Kinds, drops : SUBSET Binding]
  OBVIOUS
<1>5. /\ history' \in Seq([kind : Kinds, drops : SUBSET Binding])
      /\ Len(history') <= MaxSequence
  BY <1>1, <1>2, <1>3, <1>4 DEF Commit
<1>6. outbox' \subseteq Notice
  BY <1>1, <1>3 DEF TypeOK, Commit, Notice
<1> QED
  BY <1>1, <1>5, <1>6 DEF TypeOK, Commit

\* Every step keeps the types.
LEMMA TypeStep ==
  ASSUME TypeOK, [RoomNext]_roomVars
  PROVE  TypeOK'
PROOF
<1>1. CASE ServiceStep
  BY <1>1, ServiceCommits, CommitType DEF TypeOK
<1>2. CASE BeginRead
  <2>1. {BindingOf[c] : c \in Observers} \subseteq Binding
    BY RoomAssumption DEF Observers
  <2>2. Len(history) \in 0..MaxSequence
    BY RoomAssumption DEF TypeOK
  <2> QED
    BY <1>2, <2>1, <2>2 DEF TypeOK, BeginRead
<1>3. CASE SkipInitial
  BY <1>3, HeadOfQueue DEF TypeOK, SkipInitial, Deliveries
<1>4. CASE FinishInitial
  <2> DEFINE c == Head(queue).client
  <2>1. c \in Client /\ Tail(queue) \in Seq(Deliveries)
    BY <1>4, HeadOfQueue DEF FinishInitial
  <2>2. reading.seq \in 0..MaxSequence
    BY <1>4 DEF FinishInitial, TypeOK
  <2>3. [type |-> "snapshot", seq |-> reading.seq] \in Message
    BY <2>2 DEF Message
  <2>4. conn' \in [Client -> InRoom \cup {"away", "authenticated", "closed"}]
    BY <1>4, ClosingType DEF FinishInitial, TypeOK, InRoom
  <2>5. watermark' \in [Client -> 0..MaxSequence] /\ sent' \in [Client -> Seq(Message)]
    <3>1. CASE UNCHANGED <<watermark, sent>>
      BY <3>1 DEF TypeOK
    <3>2. CASE /\ watermark' = [watermark EXCEPT ![c] = reading.seq]
               /\ sent' = [sent EXCEPT ![c] =
                             Append(@, [type |-> "snapshot", seq |-> reading.seq])]
      <4>1. Append(sent[c], [type |-> "snapshot", seq |-> reading.seq]) \in Seq(Message)
        BY <2>1, <2>3 DEF TypeOK
      <4> QED
        BY <3>2, <4>1, <2>1, <2>2 DEF TypeOK
    <3> QED
      BY <1>4, <3>1, <3>2 DEF FinishInitial
  <2>6. UNCHANGED <<history, access, outbox, retired, results>>
        /\ queue' = Tail(queue) /\ reading' = NoRead
    BY <1>4 DEF FinishInitial
  <2> QED
    BY <2>6, <2>1, <2>4, <2>5 DEF TypeOK, Deliveries
<1>5. CASE FailInitial
  BY <1>5, HeadOfQueue, ClosingType DEF TypeOK, FailInitial, Deliveries
<1>6. CASE Notify
  <2>1. PICK notice \in outbox : Enqueue(notice)
    BY <1>6 DEF Notify
  <2>2. Batch(notice) \in Deliveries
    BY <2>1 DEF TypeOK, Deliveries
  <2>3. Retirees(history[notice.seq]) \subseteq Binding
    BY DEF Retirees
  <2>4. queue' \in Seq(Deliveries)
    BY <2>1, <2>2 DEF TypeOK, Enqueue, Deliveries
  <2>5. retired' \subseteq Binding
    BY <2>1, <2>3 DEF TypeOK, Enqueue
  <2>6. conn' \in [Client -> InRoom \cup {"away", "authenticated", "closed"}]
    BY <2>1, ClosingType DEF TypeOK, Enqueue
  <2>7. outbox' \subseteq outbox /\ UNCHANGED <<history, access, reading, watermark, results, sent>>
    BY <2>1 DEF Enqueue
  <2> QED
    BY <2>4, <2>5, <2>6, <2>7 DEF TypeOK, Deliveries
<1>7. CASE Answer
  <2>1. PICK result \in results : SendResult(result)
    BY <1>7 DEF Answer
  <2>2. result.client \in Client /\ result.seq \in 1..MaxSequence
    BY <2>1 DEF TypeOK
  <2>3. [type |-> "result", seq |-> result.seq] \in Message
    BY <2>2, RoomAssumption DEF Message
  <2>4. sent' \in [Client -> Seq(Message)]
    BY <2>1, <2>2, <2>3 DEF TypeOK, SendResult
  <2> QED
    BY <2>1, <2>4, ClosingType DEF TypeOK, SendResult
<1>8. CASE FinishBatch \/ SendBatch \/ FailBatch
  <2>1. PICK closing : Deliver(Head(queue).notice, closing)
    BY <1>8 DEF FinishBatch, SendBatch, FailBatch
  <2>2. Head(queue).notice \in Notice /\ Tail(queue) \in Seq(Deliveries)
    BY <1>8, HeadOfQueue DEF FinishBatch, SendBatch, FailBatch
  <2> DEFINE notice == Head(queue).notice
  <2>3. notice.seq \in 1..MaxSequence /\ notice.seq \in 0..MaxSequence
        /\ notice.from \subseteq Client
    BY <2>2, RoomAssumption DEF Notice
  <2>4. conn' \in [Client -> InRoom \cup {"away", "authenticated", "closed"}]
    BY <2>1, ClosingType DEF Deliver, TypeOK
  <2>5. Messages(notice.seq) \in Seq(Message)
    BY <2>3, MessagesType
  <2>6. sent' \in [Client -> Seq(Message)] /\ watermark' \in [Client -> 0..MaxSequence]
    <3>1. \A c \in Client : sent[c] \in Seq(Message) /\ sent[c] \o Messages(notice.seq) \in Seq(Message)
      BY <2>5 DEF TypeOK
    <3> QED
      BY <2>1, <2>3, <3>1 DEF Deliver, TypeOK
  <2>7. results' \subseteq [client : Client, seq : 1..MaxSequence]
    BY <2>1, <2>3 DEF Deliver, TypeOK
  <2>8. queue' \in Seq(Deliveries) /\ reading' = NoRead
    BY <2>1, <2>2 DEF Deliver
  <2>9. UNCHANGED <<history, access, outbox>>
    BY <1>8 DEF FinishBatch, SendBatch, FailBatch
  <2>10. retired' \subseteq Binding
    BY <1>8 DEF FinishBatch, SendBatch, FailBatch, TypeOK, Unwelcome
  <2> QED
    BY <2>4, <2>6, <2>7, <2>8, <2>9, <2>10 DEF TypeOK, Deliveries
<1>9. CASE \E c \in Client : Authenticate(c) \/ Join(c) \/ Acknowledge(c) \/ Disconnect(c)
  <2>1. PICK c \in Client : Authenticate(c) \/ Join(c) \/ Acknowledge(c) \/ Disconnect(c)
    BY <1>9
  <2>2. CASE Authenticate(c)
    BY <2>2 DEF Authenticate, TypeOK
  <2>3. CASE Join(c)
    <3>1. queue' \in Seq(Deliveries)
      BY <2>1, <2>3 DEF Join, TypeOK, Deliveries
    <3>2. conn' \in [Client -> InRoom \cup {"away", "authenticated", "closed"}]
      BY <2>3, ClosingType DEF Join, TypeOK, InRoom
    <3> QED
      BY <2>3, <3>1, <3>2 DEF Join, TypeOK, Deliveries
  <2>4. CASE Acknowledge(c)
    <3>1. queue' \in Seq(Deliveries)
      BY <2>1, <2>4 DEF Acknowledge, TypeOK, Deliveries
    <3> QED
      BY <2>4, <3>1 DEF Acknowledge, TypeOK, Deliveries, InRoom
  <2>5. CASE Disconnect(c)
    BY <2>5, ClosingType DEF Disconnect, TypeOK
  <2> QED
    BY <2>1, <2>2, <2>3, <2>4, <2>5
<1>10. CASE UNCHANGED roomVars
  BY <1>10 DEF roomVars, TypeOK
<1> QED
  BY <1>1, <1>2, <1>3, <1>4, <1>5, <1>6, <1>7, <1>8, <1>9, <1>10
  DEF RoomNext, Delivery

-----------------------------------------------------------------------------
(* Connections.                                                            *)

\* Nobody is joined but by a first snapshot.
LEMMA JoinedBefore ==
  ASSUME TypeOK, [RoomNext]_roomVars, ~FinishInitial, NEW c \in Client, conn'[c] = "joined"
  PROVE  conn[c] = "joined"
PROOF
<1>1. CASE ServiceStep
  BY <1>1, ServiceCommits DEF Commits, Commit, TypeOK
<1>2. CASE BeginRead \/ SkipInitial \/ FailInitial
  BY <1>2 DEF BeginRead, SkipInitial, FailInitial, Closing, TypeOK
<1>3. CASE Notify
  BY <1>3 DEF Notify, Enqueue, Closing
<1>4. CASE Answer
  BY <1>4 DEF Answer, SendResult, Closing
<1>5. CASE FinishBatch \/ SendBatch \/ FailBatch
  BY <1>5 DEF FinishBatch, SendBatch, FailBatch, Deliver, Closing
<1>6. CASE \E d \in Client : Authenticate(d) \/ Join(d) \/ Acknowledge(d) \/ Disconnect(d)
  <2>1. PICK d \in Client : Authenticate(d) \/ Join(d) \/ Acknowledge(d) \/ Disconnect(d)
    BY <1>6
  <2> QED
    BY <2>1 DEF Authenticate, Join, Acknowledge, Disconnect, Closing, TypeOK
<1>7. CASE UNCHANGED roomVars
  BY <1>7 DEF roomVars
<1> QED
  BY <1>1, <1>2, <1>3, <1>4, <1>5, <1>6, <1>7 DEF RoomNext, Delivery

\* While the lock is held nothing is committed, and nobody else is joined.
LEMMA ReadsStep ==
  ASSUME TypeOK, ReadsAreCurrent, [RoomNext]_roomVars
  PROVE  ReadsAreCurrent'
PROOF
<1>1. CASE ServiceStep
  BY <1>1, ServiceCommits DEF Commits, Commit, LockIsFree, ReadsAreCurrent, TypeOK
<1>2. CASE BeginRead
  BY <1>2 DEF BeginRead, ReadsAreCurrent, Observers, Spectator
<1>3. CASE SkipInitial \/ FinishInitial \/ FailInitial
  BY <1>3 DEF SkipInitial, FinishInitial, FailInitial, ReadsAreCurrent
<1>4. CASE FinishBatch \/ SendBatch \/ FailBatch
  BY <1>4 DEF FinishBatch, SendBatch, FailBatch, Deliver, ReadsAreCurrent
<1>5. CASE ~FinishInitial /\ UNCHANGED <<reading, history, access>>
  <2>1. Observers' \subseteq Observers
    BY <1>5, JoinedBefore DEF Observers, Spectator
  <2> QED
    BY <1>5, <2>1 DEF ReadsAreCurrent
<1> QED
  BY <1>1, <1>2, <1>3, <1>4, <1>5
  DEF RoomNext, Delivery, Notify, Enqueue, Answer, SendResult, Authenticate, Join,
      Acknowledge, Disconnect, roomVars

\* Whoever is retired is closed in the same step.
LEMMA RetiredStep ==
  ASSUME TypeOK, ReadsAreCurrent, RetiredAreGone, [RoomNext]_roomVars
  PROVE  RetiredAreGone'
PROOF
<1> SUFFICES ASSUME NEW c \in Client, conn'[c] = "joined"
             PROVE  BindingOf[c] \notin retired'
  BY DEF RetiredAreGone
<1>1. CASE FinishInitial
  BY <1>1 DEF FinishInitial, CanReceive, RetiredAreGone, Closing, TypeOK
<1>2. CASE ~FinishInitial
  <2>1. conn[c] = "joined" /\ BindingOf[c] \notin retired
    BY <1>2, JoinedBefore DEF RetiredAreGone
  <2>2. CASE Notify
    <3>1. PICK notice \in outbox : Enqueue(notice)
      BY <2>2 DEF Notify
    <3>2. BindingOf[c] \notin Retirees(history[notice.seq])
      BY <2>1, <3>1 DEF Enqueue, Closing, InRoom
    <3> QED
      BY <2>1, <3>1, <3>2 DEF Enqueue
  <2>3. CASE FinishBatch \/ SendBatch \/ FailBatch
    <3>1. PICK closing \in SUBSET Client :
            /\ Deliver(Head(queue).notice, closing)
            /\ \A d \in Client : conn[d] = "joined" /\ d \notin closing =>
                 BindingOf[d] \notin retired \cup retired'
      BY <2>3, BatchesDeliver
    <3>2. c \notin closing
      BY <3>1 DEF Deliver, Closing
    <3> QED
      BY <2>1, <3>1, <3>2
  <2>4. CASE UNCHANGED retired
    BY <2>1, <2>4
  <2> QED
    BY <1>2, <2>2, <2>3, <2>4, ServiceCommits
    DEF RoomNext, Delivery, Commits, Commit, BeginRead, SkipInitial, FailInitial, Answer,
        SendResult, Authenticate, Join, Acknowledge, Disconnect, roomVars, TypeOK
<1> QED
  BY <1>1, <1>2

\* A new connection replaces the others of its binding.
LEMMA OneStep ==
  ASSUME TypeOK, OneInRoom, [RoomNext]_roomVars
  PROVE  OneInRoom'
PROOF
<1>1. CASE \E c \in Client : Join(c)
  <2>1. PICK c \in Client : Join(c)
    BY <1>1
  <2>2. \A d \in Client : conn'[d] \in InRoom /\ d # c =>
          conn[d] \in InRoom /\ BindingOf[d] # BindingOf[c]
    BY <2>1 DEF Join, Closing, Replaced, InRoom, TypeOK
  <2> QED
    BY <2>1, <2>2 DEF OneInRoom
<1>2. CASE \A d \in Client : conn'[d] \in InRoom => conn[d] \in InRoom
  BY <1>2 DEF OneInRoom
<1>3. (\A d \in Client : conn'[d] \in InRoom => conn[d] \in InRoom) \/ \E c \in Client : Join(c)
  <2>1. CASE ServiceStep
    BY <2>1, ServiceCommits DEF Commits, Commit, TypeOK
  <2>2. CASE BeginRead \/ SkipInitial \/ FailInitial \/ FinishInitial
    BY <2>2 DEF BeginRead, SkipInitial, FailInitial, FinishInitial, CanReceive, Closing, InRoom,
                TypeOK
  <2>3. CASE Notify
    BY <2>3 DEF Notify, Enqueue, Closing, InRoom
  <2>4. CASE Answer
    BY <2>4 DEF Answer, SendResult, Closing, InRoom
  <2>5. CASE FinishBatch \/ SendBatch \/ FailBatch
    BY <2>5 DEF FinishBatch, SendBatch, FailBatch, Deliver, Closing, InRoom
  <2>6. CASE \E c \in Client : Authenticate(c) \/ Acknowledge(c) \/ Disconnect(c)
    BY <2>6 DEF Authenticate, Acknowledge, Disconnect, Closing, InRoom, TypeOK
  <2>7. CASE UNCHANGED roomVars
    BY <2>7 DEF roomVars
  <2> QED
    BY <2>1, <2>2, <2>3, <2>4, <2>5, <2>6, <2>7 DEF RoomNext, Delivery
<1> QED
  BY <1>1, <1>2, <1>3

\* Whoever waits for its first snapshot goes on waiting, or is closed, but for the one
\* that is served.
LEMMA JoiningStays ==
  ASSUME TypeOK, [RoomNext]_roomVars, NEW c \in Client, conn[c] \in {"joining", "closed"},
         FinishInitial => Head(queue).client # c
  PROVE  conn'[c] \in {"joining", "closed"}
PROOF
<1>1. CASE ServiceStep
  BY <1>1, ServiceCommits DEF Commits, Commit, TypeOK
<1>2. CASE BeginRead \/ SkipInitial \/ FailInitial \/ FinishInitial
  BY <1>2 DEF BeginRead, SkipInitial, FailInitial, FinishInitial, Closing, TypeOK
<1>3. CASE Notify
  BY <1>3 DEF Notify, Enqueue, Closing
<1>4. CASE Answer
  BY <1>4 DEF Answer, SendResult, Closing
<1>5. CASE FinishBatch \/ SendBatch \/ FailBatch
  BY <1>5 DEF FinishBatch, SendBatch, FailBatch, Deliver, Closing
<1>6. CASE \E d \in Client : Authenticate(d) \/ Join(d) \/ Acknowledge(d) \/ Disconnect(d)
  <2>1. PICK d \in Client : Authenticate(d) \/ Join(d) \/ Acknowledge(d) \/ Disconnect(d)
    BY <1>6
  <2> QED
    BY <2>1 DEF Authenticate, Join, Acknowledge, Disconnect, Closing, TypeOK
<1>7. CASE UNCHANGED roomVars
  BY <1>7 DEF roomVars
<1> QED
  BY <1>1, <1>2, <1>3, <1>4, <1>5, <1>6, <1>7 DEF RoomNext, Delivery

\* What the steps do to the queue: it is left alone, loses its head, or gets a batch or the
\* snapshot of somebody who was not waiting for one.
LEMMA QueueStep ==
  ASSUME TypeOK, [RoomNext]_roomVars
  PROVE  \/ queue' = queue /\ ~FinishInitial
         \/ queue # <<>> /\ queue' = Tail(queue)
         \/ \E notice \in outbox : Enqueue(notice) /\ queue' = Append(queue, Batch(notice))
         \/ \E c \in Client : /\ queue' = Append(queue, Initial(c)) /\ ~FinishInitial
                              /\ conn[c] \notin {"joining", "closed"}
                              /\ conn'[c] = "joining"
PROOF
<1>1. CASE ServiceStep
  <2>1. queue' = queue
    BY <1>1, ServiceCommits DEF Commits, Commit, TypeOK
  <2>2. FinishInitial => queue' = Tail(queue) /\ queue # <<>>
    BY DEF FinishInitial
  <2> QED
    BY <2>1, <2>2
<1>2. CASE SkipInitial \/ FailInitial \/ FinishInitial \/ FinishBatch \/ SendBatch \/ FailBatch
  BY <1>2 DEF SkipInitial, FailInitial, FinishInitial, FinishBatch, SendBatch, FailBatch, Deliver
<1>3. CASE Notify
  BY <1>3 DEF Notify, Enqueue
<1>4. ASSUME NEW c \in Client, Join(c) \/ Acknowledge(c), ~FinishInitial
      PROVE  \/ queue' = queue
             \/ /\ queue' = Append(queue, Initial(c))
                /\ conn[c] \notin {"joining", "closed"}
                /\ conn'[c] = "joining"
  BY <1>4 DEF Join, Acknowledge, Closing, TypeOK
<1> QED
  BY <1>1, <1>2, <1>3, <1>4
  DEF RoomNext, Delivery, BeginRead, Answer, SendResult, Authenticate, Disconnect, roomVars

\* A connection is queued for one first snapshot.
LEMMA InitialsStep ==
  ASSUME TypeOK, InitialsAreJoining, [RoomNext]_roomVars
  PROVE  InitialsAreJoining'
PROOF
<1>1. queue \in Seq(Deliveries)
  BY DEF TypeOK, Deliveries
<1>2. \A k \in DOMAIN queue : queue[k].op = "initial" => queue[k].client \in Client
  <2> SUFFICES ASSUME NEW k \in DOMAIN queue, queue[k].op = "initial"
               PROVE  queue[k].client \in Client
    OBVIOUS
  <2>1. queue[k] \in Deliveries
    BY <1>1
  <2>2. CASE \E n \in Notice : queue[k] = Batch(n)
    BY <2>2 DEF Batch
  <2>3. CASE \E c \in Client : queue[k] = Initial(c)
    BY <2>3 DEF Initial
  <2> QED
    BY <2>1, <2>2, <2>3 DEF Deliveries
<1>3. CASE queue' = queue /\ ~FinishInitial
  BY <1>2, <1>3, JoiningStays DEF InitialsAreJoining
<1>4. CASE queue # <<>> /\ queue' = Tail(queue)
  <2>1. \A k \in DOMAIN queue' : /\ k \in Nat /\ k + 1 \in DOMAIN queue
                                 /\ queue'[k] = queue[k + 1] /\ k + 1 # 1
    BY <1>1, <1>4
  <2>2. 1 \in DOMAIN queue /\ Head(queue) = queue[1]
    BY <1>1, <1>4
  <2>3. ASSUME NEW k \in DOMAIN queue', queue'[k].op = "initial"
        PROVE  conn'[queue'[k].client] \in {"joining", "closed"}
    <3>1. queue[k + 1].client \in Client /\ conn[queue[k + 1].client] \in {"joining", "closed"}
      BY <2>1, <2>3, <1>2 DEF InitialsAreJoining
    <3>2. FinishInitial => Head(queue).client # queue[k + 1].client
      BY <2>1, <2>2, <2>3 DEF InitialsAreJoining, FinishInitial
    <3> QED
      BY <3>1, <3>2, <2>1, <2>3, JoiningStays
  <2>4. ASSUME NEW k \in DOMAIN queue', queue'[k].op = "initial",
               NEW j \in DOMAIN queue', queue'[j].op = "initial",
               queue'[j].client = queue'[k].client
        PROVE  j = k
    <3>1. j + 1 = k + 1
      BY <2>1, <2>4 DEF InitialsAreJoining
    <3> QED
      BY <2>1, <3>1
  <2> QED
    BY <2>3, <2>4 DEF InitialsAreJoining
<1>5. CASE \E notice \in outbox : Enqueue(notice) /\ queue' = Append(queue, Batch(notice))
  <2>1. PICK notice \in outbox : Enqueue(notice) /\ queue' = Append(queue, Batch(notice))
    BY <1>5
  <2>2. Batch(notice).op = "batch" /\ Batch(notice) \in Deliveries
    BY DEF Batch, Deliveries, TypeOK
  <2>3. \A k \in DOMAIN queue' : queue'[k].op = "initial" =>
          k \in DOMAIN queue /\ queue'[k] = queue[k]
    BY <1>1, <2>1, <2>2
  <2>4. \A c \in Client : conn[c] \in {"joining", "closed"} => conn'[c] \in {"joining", "closed"}
    BY <2>1 DEF Enqueue, Closing
  <2> QED
    BY <1>2, <2>3, <2>4 DEF InitialsAreJoining
<1>6. CASE \E c \in Client : /\ queue' = Append(queue, Initial(c)) /\ ~FinishInitial
                             /\ conn[c] \notin {"joining", "closed"}
                             /\ conn'[c] = "joining"
  <2>1. PICK c \in Client : /\ queue' = Append(queue, Initial(c)) /\ ~FinishInitial
                            /\ conn[c] \notin {"joining", "closed"}
                            /\ conn'[c] = "joining"
    BY <1>6
  <2>2. Initial(c).client = c /\ Initial(c) \in Deliveries
    BY DEF Initial, Deliveries
  <2>3. \A k \in DOMAIN queue' :
          \/ k \in DOMAIN queue /\ queue'[k] = queue[k]
          \/ k = Len(queue) + 1 /\ queue'[k].client = c
    BY <1>1, <2>1, <2>2
  <2>4. \A k \in DOMAIN queue : queue[k].op = "initial" => queue[k].client # c
    BY <2>1 DEF InitialsAreJoining
  <2>5. \A d \in Client : conn[d] \in {"joining", "closed"} => conn'[d] \in {"joining", "closed"}
    BY <2>1, JoiningStays
  <2> QED
    BY <1>2, <2>1, <2>3, <2>4, <2>5 DEF InitialsAreJoining
<1> QED
  BY <1>3, <1>4, <1>5, <1>6, QueueStep

-----------------------------------------------------------------------------
(* What is sent.                                                           *)

\* The three ways to be sent something, and to be sent nothing.
NothingSent(c) ==
  /\ conn'[c] = "joined" => conn[c] = "joined"
  /\ sent'[c] = sent[c]
  /\ watermark'[c] = watermark[c]

FirstSent(c) ==
  /\ FinishInitial
  /\ conn[c] = "joining"
  /\ conn'[c] = "joined"
  /\ BindingOf[c] \in access
  /\ sent[c] = <<>>
  /\ sent'[c] = <<[type |-> "snapshot", seq |-> Len(history)]>>
  /\ watermark'[c] = Len(history)

EventSent(c, seq) ==
  /\ conn[c] = "joined"
  /\ conn'[c] = "joined"
  /\ Spectator(c) => BindingOf[c] \in access
  /\ watermark[c] < seq
  /\ sent'[c] = sent[c] \o Messages(seq)
  /\ watermark'[c] = seq

ResultSent(c, result) ==
  /\ conn[c] = "joined"
  /\ result.client = c
  /\ sent'[c] = Append(sent[c], [type |-> "result", seq |-> result.seq])
  /\ watermark'[c] = watermark[c]

\* Every step does one of these to each connection.
LEMMA SentStep ==
  ASSUME TypeOK, ReadsAreCurrent, RetiredAreGone, InitialsAreJoining, NewcomersHaveNothing,
         [RoomNext]_roomVars, NEW c \in Client
  PROVE  \/ NothingSent(c)
         \/ FirstSent(c)
         \/ \E seq \in 1..MaxSequence : EventSent(c, seq)
         \/ \E result \in results : ResultSent(c, result)
PROOF
<1>1. CASE FinishInitial
  <2>1. c = Head(queue).client \/ NothingSent(c)
    BY <1>1 DEF FinishInitial, NothingSent, Closing, TypeOK
  <2>2. ASSUME c = Head(queue).client, ~NothingSent(c)
        PROVE  FirstSent(c)
    <3>1. /\ BindingOf[c] \in reading.allowed
          /\ CanReceive(c)
          /\ conn' = [conn EXCEPT ![c] = "joined"]
          /\ watermark' = [watermark EXCEPT ![c] = reading.seq]
          /\ sent' = [sent EXCEPT ![c] =
                        Append(@, [type |-> "snapshot", seq |-> reading.seq])]
      BY <1>1, <2>2 DEF FinishInitial, NothingSent, Closing
    <3>2. 1 \in DOMAIN queue /\ Head(queue) = queue[1] /\ Head(queue).op = "initial"
      BY <1>1 DEF FinishInitial, TypeOK
    <3>3. conn[c] = "joining"
      BY <2>2, <3>1, <3>2 DEF InitialsAreJoining, CanReceive, InRoom
    <3>4. sent[c] = <<>>
      BY <3>3 DEF NewcomersHaveNothing
    <3>5. reading.seq = Len(history) /\ reading.allowed = access
      BY <1>1 DEF FinishInitial, ReadsAreCurrent
    <3> QED
      BY <1>1, <3>1, <3>3, <3>4, <3>5 DEF FirstSent, TypeOK
  <2> QED
    BY <2>1, <2>2
<1>2. CASE FinishBatch \/ SendBatch \/ FailBatch
  <2>1. PICK closing \in SUBSET Client :
          /\ Deliver(Head(queue).notice, closing)
          /\ \A d \in Client : conn[d] = "joined" /\ d \notin closing =>
               (Spectator(d) => BindingOf[d] \in access)
    BY <1>2, BatchesDeliver
  <2> DEFINE seq == Head(queue).notice.seq
  <2>2. seq \in 1..MaxSequence
    BY <1>2, BatchesDeliver, HeadOfQueue DEF Notice
  <2>3. CASE c \in Receivers(seq, closing)
    <3>1. conn[c] = "joined" /\ c \notin closing /\ watermark[c] < seq
      BY <2>3 DEF Receivers
    <3>2. conn'[c] = "joined" /\ sent'[c] = sent[c] \o Messages(seq) /\ watermark'[c] = seq
      BY <2>1, <2>3, <3>1 DEF Deliver, Closing
    <3>3. EventSent(c, seq)
      BY <2>1, <3>1, <3>2 DEF EventSent
    <3> QED
      BY <2>2, <3>3
  <2>4. CASE c \notin Receivers(seq, closing)
    BY <2>1, <2>4 DEF Deliver, Closing, NothingSent
  <2> QED
    BY <2>3, <2>4
<1>3. CASE Answer
  <2>1. PICK result \in results : SendResult(result)
    BY <1>3 DEF Answer
  <2>2. CASE result.client = c /\ conn[c] = "joined"
    <3>1. ResultSent(c, result)
      BY <2>1, <2>2 DEF SendResult, ResultSent, TypeOK
    <3> QED
      BY <2>1, <3>1
  <2>3. CASE ~(result.client = c /\ conn[c] = "joined")
    BY <2>1, <2>3 DEF SendResult, Closing, NothingSent, TypeOK
  <2> QED
    BY <2>2, <2>3
<1>4. CASE ~FinishInitial /\ UNCHANGED <<sent, watermark>>
  BY <1>4, JoinedBefore DEF NothingSent
<1> QED
  BY <1>1, <1>2, <1>3, <1>4, ServiceCommits
  DEF RoomNext, Delivery, Commits, Commit, BeginRead, SkipInitial, FailInitial, Notify, Enqueue,
      Authenticate, Join, Acknowledge, Disconnect, roomVars, TypeOK

\* What has been sent remains so.
LEMMA SentGrows ==
  ASSUME TypeOK, ReadsAreCurrent, RetiredAreGone, InitialsAreJoining, NewcomersHaveNothing,
         [RoomNext]_roomVars, NEW c \in Client
  PROVE  /\ Len(sent[c]) <= Len(sent'[c])
         /\ \A i \in DOMAIN sent[c] : i \in DOMAIN sent'[c] /\ sent'[c][i] = sent[c][i]
PROOF
<1>1. sent[c] \in Seq(Message)
  BY DEF TypeOK
<1>2. CASE NothingSent(c)
  BY <1>1, <1>2 DEF NothingSent
<1>3. CASE FirstSent(c)
  BY <1>3 DEF FirstSent
<1>4. CASE \E seq \in 1..MaxSequence : EventSent(c, seq)
  <2>1. PICK seq \in 1..MaxSequence : EventSent(c, seq)
    BY <1>4
  <2>2. Messages(seq) \in Seq(Message)
    BY MessagesType
  <2> QED
    BY <1>1, <2>1, <2>2 DEF EventSent
<1>5. CASE \E result \in results : ResultSent(c, result)
  <2>1. PICK result \in results : ResultSent(c, result)
    BY <1>5
  <2> QED
    BY <1>1, <2>1 DEF ResultSent
<1> QED
  BY <1>2, <1>3, <1>4, <1>5, SentStep

\* Nothing is sent to those who are not joined.
LEMMA NewcomersStep ==
  ASSUME TypeOK, ReadsAreCurrent, RetiredAreGone, InitialsAreJoining, NewcomersHaveNothing,
         [RoomNext]_roomVars
  PROVE  NewcomersHaveNothing'
PROOF
<1> SUFFICES ASSUME NEW c \in Client, conn'[c] \notin {"joined", "closed"}
             PROVE  sent'[c] = <<>>
  BY DEF NewcomersHaveNothing
<1>1. conn[c] \notin {"joined", "closed"}
  <2>1. CASE ServiceStep
    BY <2>1, ServiceCommits DEF Commits, Commit, TypeOK
  <2>2. CASE BeginRead \/ SkipInitial \/ FailInitial \/ FinishInitial
    BY <2>2 DEF BeginRead, SkipInitial, FailInitial, FinishInitial, Closing, TypeOK
  <2>3. CASE Notify
    BY <2>3 DEF Notify, Enqueue, Closing
  <2>4. CASE Answer
    BY <2>4 DEF Answer, SendResult, Closing
  <2>5. CASE FinishBatch \/ SendBatch \/ FailBatch
    BY <2>5 DEF FinishBatch, SendBatch, FailBatch, Deliver, Closing
  <2>6. CASE \E d \in Client : Authenticate(d) \/ Join(d) \/ Acknowledge(d) \/ Disconnect(d)
    <3>1. PICK d \in Client : Authenticate(d) \/ Join(d) \/ Acknowledge(d) \/ Disconnect(d)
      BY <2>6
    <3> QED
      BY <3>1 DEF Authenticate, Join, Acknowledge, Disconnect, Closing, TypeOK
  <2>7. CASE UNCHANGED roomVars
    BY <2>7 DEF roomVars
  <2> QED
    BY <2>1, <2>2, <2>3, <2>4, <2>5, <2>6, <2>7 DEF RoomNext, Delivery
<1>2. sent[c] = <<>>
  BY <1>1 DEF NewcomersHaveNothing
<1> QED
  BY <1>1, <1>2, SentStep DEF NothingSent, FirstSent, EventSent, ResultSent

\* Only players who have been served act.
LEMMA ActorsStep ==
  ASSUME TypeOK, ReadsAreCurrent, RetiredAreGone, InitialsAreJoining, NewcomersHaveNothing,
         ActorsHavePlayed, [RoomNext]_roomVars
  PROVE  ActorsHavePlayed'
PROOF
<1>1. \A c \in Client : HasPlayed(c) => HasPlayed(c)'
  <2> SUFFICES ASSUME NEW c \in Client, HasPlayed(c)
               PROVE  HasPlayed(c)'
    OBVIOUS
  <2>1. sent[c] \in Seq(Message) /\ sent[c] # <<>>
    BY DEF TypeOK, HasPlayed
  <2>2. 1 \in DOMAIN sent'[c]
    BY <2>1, SentGrows
  <2>3. sent'[c] # <<>>
    BY <2>2
  <2> QED
    BY <2>3 DEF HasPlayed, Spectator
<1>2. queue \in Seq(Deliveries)
  BY DEF TypeOK, Deliveries
<1>3. \A notice \in outbox' : \A c \in notice.from : HasPlayed(c)'
  <2>1. CASE ServiceStep
    <3>1. PICK kind \in Kinds, drops \in SUBSET Binding, from \in SUBSET Client :
            /\ Commit(kind, drops, from)
            /\ \A c \in from : HasPlayed(c)
      BY <2>1, ServiceCommits DEF TypeOK, Commits
    <3> SUFFICES ASSUME NEW notice \in outbox', NEW c \in notice.from
                 PROVE  HasPlayed(c)'
      OBVIOUS
    <3>2. CASE notice \in outbox
      BY <1>1, <3>2 DEF ActorsHavePlayed, TypeOK, Notice
    <3>3. CASE notice = [seq |-> Len(history) + 1, from |-> from]
      BY <1>1, <3>1, <3>3
    <3> QED
      BY <3>1, <3>2, <3>3 DEF Commit
  <2>2. CASE outbox' \subseteq outbox
    BY <1>1, <2>2 DEF ActorsHavePlayed, TypeOK, Notice
  <2> QED
    BY <2>1, <2>2
    DEF RoomNext, Delivery, Notify, Enqueue, Answer, SendResult, BeginRead, SkipInitial,
        FinishInitial, FailInitial, FinishBatch, SendBatch, FailBatch, Authenticate, Join,
        Acknowledge, Disconnect, roomVars
<1>4. \A k \in DOMAIN queue : queue[k].op = "batch" => queue[k].notice.from \subseteq Client
  <2> SUFFICES ASSUME NEW k \in DOMAIN queue, queue[k].op = "batch"
               PROVE  queue[k].notice.from \subseteq Client
    OBVIOUS
  <2>1. queue[k] \in Deliveries
    BY <1>2
  <2>2. CASE \E n \in Notice : queue[k] = Batch(n)
    BY <2>2 DEF Batch, Notice
  <2>3. CASE \E c \in Client : queue[k] = Initial(c)
    BY <2>3 DEF Initial
  <2> QED
    BY <2>1, <2>2, <2>3 DEF Deliveries
<1>5. \A k \in DOMAIN queue' : queue'[k].op = "batch" =>
        \A c \in queue'[k].notice.from : HasPlayed(c)'
  <2>1. CASE queue' = queue
    BY <1>1, <1>4, <2>1 DEF ActorsHavePlayed
  <2>2. CASE queue # <<>> /\ queue' = Tail(queue)
    <3>1. \A k \in DOMAIN queue' : k + 1 \in DOMAIN queue /\ queue'[k] = queue[k + 1]
      BY <1>2, <2>2
    <3> QED
      BY <1>1, <1>4, <3>1 DEF ActorsHavePlayed
  <2>3. CASE \E notice \in outbox : queue' = Append(queue, Batch(notice))
    <3>1. PICK notice \in outbox : queue' = Append(queue, Batch(notice))
      BY <2>3
    <3>2. Batch(notice).notice = notice /\ Batch(notice) \in Deliveries
      BY DEF Batch, Deliveries, TypeOK
    <3>3. \A k \in DOMAIN queue' :
            \/ k \in DOMAIN queue /\ queue'[k] = queue[k]
            \/ queue'[k].notice = notice
      BY <1>2, <3>1, <3>2
    <3>4. notice.from \subseteq Client /\ \A c \in notice.from : HasPlayed(c)
      BY DEF ActorsHavePlayed, TypeOK, Notice
    <3> QED
      BY <1>1, <1>4, <3>3, <3>4 DEF ActorsHavePlayed
  <2>4. CASE \E c \in Client : queue' = Append(queue, Initial(c))
    <3>1. PICK c \in Client : queue' = Append(queue, Initial(c))
      BY <2>4
    <3>2. Initial(c).op = "initial" /\ Initial(c) \in Deliveries
      BY DEF Initial, Deliveries
    <3>3. \A k \in DOMAIN queue' : queue'[k].op = "batch" =>
            k \in DOMAIN queue /\ queue'[k] = queue[k]
      BY <1>2, <3>1, <3>2
    <3> QED
      BY <1>1, <1>4, <3>3 DEF ActorsHavePlayed
  <2> QED
    BY <2>1, <2>2, <2>3, <2>4, QueueStep
<1>6. \A result \in results' : HasPlayed(result.client)'
  <2>1. CASE FinishBatch \/ SendBatch \/ FailBatch
    <3>1. PICK closing \in SUBSET Client : Deliver(Head(queue).notice, closing)
      BY <2>1, BatchesDeliver
    <3>2. 1 \in DOMAIN queue /\ Head(queue) = queue[1] /\ Head(queue).op = "batch"
      BY <1>2, <2>1, BatchesDeliver
    <3>3. \A c \in Head(queue).notice.from : HasPlayed(c)'
      BY <1>1, <1>4, <3>2 DEF ActorsHavePlayed
    <3>4. \A result \in results : result.client \in Client /\ HasPlayed(result.client)
      BY DEF ActorsHavePlayed, TypeOK
    <3> QED
      BY <1>1, <3>1, <3>3, <3>4 DEF Deliver
  <2>2. CASE results' \subseteq results
    BY <1>1, <2>2 DEF ActorsHavePlayed, TypeOK
  <2> QED
    BY <2>1, <2>2, ServiceCommits
    DEF RoomNext, Delivery, Commits, Commit, Notify, Enqueue, Answer, SendResult, BeginRead,
        SkipInitial, FinishInitial, FailInitial, Authenticate, Join, Acknowledge, Disconnect,
        roomVars, TypeOK
<1> QED
  BY <1>3, <1>5, <1>6 DEF ActorsHavePlayed

\* A connection's watermark is the last thing it was sent.
LEMMA WatermarkStep ==
  ASSUME TypeOK, ReadsAreCurrent, RetiredAreGone, InitialsAreJoining, NewcomersHaveNothing,
         WatermarkIsSent, [RoomNext]_roomVars
  PROVE  WatermarkIsSent'
PROOF
<1> SUFFICES ASSUME NEW c \in Client
             PROVE  /\ conn'[c] = "joined" =>
                         \E i \in DOMAIN sent'[c] : /\ sent'[c][i].type # "result"
                                                    /\ sent'[c][i].seq = watermark'[c]
                    /\ \A i \in DOMAIN sent'[c] :
                         sent'[c][i].type # "result" => sent'[c][i].seq <= watermark'[c]
  BY DEF WatermarkIsSent
<1>1. /\ sent[c] \in Seq(Message)
      /\ watermark[c] \in Nat
      /\ \A i \in DOMAIN sent[c] : sent[c][i].type # "result" => sent[c][i].seq <= watermark[c]
      /\ \A i \in DOMAIN sent[c] : sent[c][i].seq \in Nat
  <2>1. sent[c] \in Seq(Message) /\ watermark[c] \in Nat
    BY RoomAssumption DEF TypeOK
  <2>2. \A i \in DOMAIN sent[c] : sent[c][i] \in Message
    BY <2>1
  <2>3. \A i \in DOMAIN sent[c] : sent[c][i].seq \in Nat
    BY <2>2, RoomAssumption DEF Message
  <2> QED
    BY <2>1, <2>3 DEF WatermarkIsSent
<1>2. CASE NothingSent(c)
  BY <1>2 DEF NothingSent, WatermarkIsSent
<1>3. CASE FirstSent(c)
  BY <1>3 DEF FirstSent, TypeOK
<1>4. CASE \E seq \in 1..MaxSequence : EventSent(c, seq)
  <2>1. PICK seq \in 1..MaxSequence : EventSent(c, seq)
    BY <1>4
  <2> DEFINE m == Messages(seq)
  <2>2. /\ m \in Seq(Message) /\ Len(m) \in 1..2
        /\ \A k \in DOMAIN m : m[k].type # "result" /\ m[k].seq = seq
    <3>1. /\ m \in Seq(Message) /\ Len(m) \in 1..2
          /\ m[1] = [type |-> "event", seq |-> seq]
          /\ Len(m) = 2 => m[2] = [type |-> "snapshot", seq |-> seq]
      BY MessagesType
    <3> HIDE DEF m
    <3>2. \A k \in DOMAIN m : k = 1 \/ (k = 2 /\ Len(m) = 2)
      BY <3>1
    <3> QED
      BY <3>1, <3>2
  <2> HIDE DEF m
  <2>3. sent'[c] = sent[c] \o m /\ watermark'[c] = seq /\ watermark[c] < seq
    BY <2>1 DEF EventSent, m
  <2>4. \A i \in DOMAIN sent'[c] :
          \/ i \in DOMAIN sent[c] /\ sent'[c][i] = sent[c][i]
          \/ i - Len(sent[c]) \in DOMAIN m /\ sent'[c][i] = m[i - Len(sent[c])]
    BY <1>1, <2>2, <2>3
  <2>5. Len(sent[c]) + 1 \in DOMAIN sent'[c] /\ sent'[c][Len(sent[c]) + 1] = m[1]
    BY <1>1, <2>2, <2>3
  <2>6. m[1].type # "result" /\ m[1].seq = seq
    BY <2>2
  <2>7. ASSUME NEW i \in DOMAIN sent'[c], sent'[c][i].type # "result"
        PROVE  sent'[c][i].seq <= seq
    <3>1. CASE i \in DOMAIN sent[c] /\ sent'[c][i] = sent[c][i]
      <4>1. sent[c][i].seq <= watermark[c] /\ sent[c][i].seq \in Nat
        BY <1>1, <2>7, <3>1
      <4> QED
        BY <1>1, <2>3, <3>1, <4>1
    <3>2. CASE i - Len(sent[c]) \in DOMAIN m /\ sent'[c][i] = m[i - Len(sent[c])]
      <4>1. sent'[c][i].seq = seq
        BY <2>2, <3>2
      <4> QED
        BY <4>1
    <3> QED
      BY <2>4, <2>7, <3>1, <3>2
  <2> QED
    BY <2>3, <2>5, <2>6, <2>7
<1>5. CASE \E result \in results : ResultSent(c, result)
  <2>1. PICK result \in results : ResultSent(c, result)
    BY <1>5
  <2> DEFINE m == [type |-> "result", seq |-> result.seq]
  <2>2. m.type = "result" /\ sent'[c] = Append(sent[c], m) /\ watermark'[c] = watermark[c]
    BY <2>1 DEF ResultSent
  <2> HIDE DEF m
  <2>3. \A i \in DOMAIN sent'[c] : sent'[c][i].type # "result" =>
          i \in DOMAIN sent[c] /\ sent'[c][i] = sent[c][i]
    BY <1>1, <2>2
  <2>4. \A i \in DOMAIN sent[c] : i \in DOMAIN sent'[c] /\ sent'[c][i] = sent[c][i]
    BY <1>1, <2>2
  <2>5. conn[c] = "joined"
    BY <2>1 DEF ResultSent
  <2> QED
    BY <1>1, <2>2, <2>3, <2>4, <2>5 DEF WatermarkIsSent
<1> QED
  BY <1>2, <1>3, <1>4, <1>5, SentStep

\* A watermark only rises while its connection is joined.
LEMMA WatermarkRises ==
  ASSUME TypeOK, ReadsAreCurrent, RetiredAreGone, InitialsAreJoining, NewcomersHaveNothing,
         [RoomNext]_roomVars, NEW c \in Client, sent[c] # <<>>
  PROVE  watermark[c] <= watermark'[c] /\ (conn'[c] = "joined" => conn[c] = "joined")
PROOF
<1>1. watermark[c] \in Nat
  BY RoomAssumption DEF TypeOK
<1>2. CASE NothingSent(c)
  BY <1>1, <1>2 DEF NothingSent
<1>3. CASE FirstSent(c)
  BY <1>3 DEF FirstSent
<1>4. CASE \E seq \in 1..MaxSequence : EventSent(c, seq)
  <2>1. PICK seq \in 1..MaxSequence : EventSent(c, seq)
    BY <1>4
  <2> QED
    BY <1>1, <2>1, RoomAssumption DEF EventSent
<1>5. CASE \E result \in results : ResultSent(c, result)
  BY <1>1, <1>5 DEF ResultSent
<1> QED
  BY <1>2, <1>3, <1>4, <1>5, SentStep

\* A result is owed only when its event, or a later one, was sent.
LEMMA ResultsStep ==
  ASSUME TypeOK, ReadsAreCurrent, RetiredAreGone, InitialsAreJoining, NewcomersHaveNothing,
         ActorsHavePlayed, ResultsAreShown, [RoomNext]_roomVars
  PROVE  ResultsAreShown'
PROOF
<1> SUFFICES ASSUME NEW result \in results', conn'[result.client] = "joined"
             PROVE  watermark'[result.client] >= result.seq
  BY DEF ResultsAreShown
<1> DEFINE c == result.client
<1>1. CASE result \in results
  <2>1. c \in Client /\ sent[c] # <<>> /\ result.seq \in Nat
    BY <1>1, RoomAssumption DEF TypeOK, ActorsHavePlayed, HasPlayed
  <2>2. watermark[c] <= watermark'[c] /\ conn[c] = "joined"
    BY <2>1, WatermarkRises
  <2>3. watermark[c] \in Nat /\ watermark'[c] \in Nat
    BY <2>1, TypeStep, RoomAssumption DEF TypeOK
  <2> QED
    BY <1>1, <2>1, <2>2, <2>3 DEF ResultsAreShown
<1>2. CASE FinishBatch \/ SendBatch \/ FailBatch
  <2>1. PICK closing \in SUBSET Client :
          /\ Deliver(Head(queue).notice, closing)
          /\ \A d \in Client : conn[d] = "joined" /\ d \notin closing =>
               BindingOf[d] \notin retired
    BY <1>2, BatchesDeliver
  <2> DEFINE notice == Head(queue).notice
  <2>2. notice \in Notice
    BY <1>2, BatchesDeliver, HeadOfQueue
  <2>3. notice.seq \in Nat /\ notice.from \subseteq Client
    BY <2>2, RoomAssumption DEF Notice
  <2> HIDE DEF notice
  <2>4. CASE result \notin results
    <3>1. c \in notice.from /\ result.seq = notice.seq
      BY <2>1, <2>4 DEF Deliver, notice
    <3>2. c \in Client
      BY <2>3, <3>1
    <3>3. conn[c] = "joined" /\ c \notin closing
      BY <2>1, <3>2 DEF Deliver, Closing
    <3>4. CanReceive(c)
      BY <2>1, <3>2, <3>3 DEF CanReceive, InRoom
    <3>5. CASE watermark[c] < notice.seq
      BY <2>1, <2>3, <3>1, <3>2, <3>3, <3>4, <3>5 DEF Deliver, Receivers, notice
    <3>6. CASE ~(watermark[c] < notice.seq)
      <4>1. watermark'[c] = watermark[c] /\ watermark[c] \in Nat
        BY <2>1, <3>2, <3>6, RoomAssumption DEF Deliver, Receivers, notice, TypeOK
      <4> QED
        BY <2>3, <3>1, <3>6, <4>1
    <3> QED
      BY <3>5, <3>6
  <2> QED
    BY <1>1, <2>4
<1>3. CASE results' \subseteq results
  BY <1>1, <1>3
<1> QED
  BY <1>2, <1>3, ServiceCommits
  DEF RoomNext, Delivery, Commits, Commit, Notify, Enqueue, Answer, SendResult, BeginRead,
      SkipInitial, FinishInitial, FailInitial, Authenticate, Join, Acknowledge, Disconnect,
      roomVars, TypeOK

\* Nothing that has not been sent is forgotten.
LEMMA LostStep ==
  ASSUME TypeOK, ReadsAreCurrent, RetiredAreGone, InitialsAreJoining, NewcomersHaveNothing,
         NothingIsLost, [RoomNext]_roomVars
  PROVE  NothingIsLost'
PROOF
<1> SUFFICES ASSUME NEW c \in Client, conn'[c] = "joined",
                    NEW n \in (watermark'[c] + 1)..Len(history')
             PROVE  \/ \E notice \in outbox' : notice.seq = n
                    \/ \E k \in DOMAIN queue' :
                         queue'[k].op = "batch" /\ queue'[k].notice.seq = n
  BY DEF NothingIsLost
<1>1. /\ watermark[c] \in Nat /\ watermark'[c] \in Nat
      /\ Len(history) \in Nat /\ Len(history') \in Nat
      /\ n \in Nat /\ watermark'[c] < n /\ n <= Len(history')
  BY TypeStep, RoomAssumption DEF TypeOK
<1>2. queue \in Seq(Deliveries)
  BY DEF TypeOK, Deliveries
<1>3. CASE FirstSent(c)
  BY <1>1, <1>3 DEF FirstSent, FinishInitial
<1>4. CASE ~FirstSent(c)
  <2>1. conn[c] = "joined" /\ watermark[c] < n
    <3>1. CASE NothingSent(c)
      BY <1>1, <3>1 DEF NothingSent
    <3>2. CASE \E seq \in 1..MaxSequence : EventSent(c, seq)
      <4>1. PICK seq \in 1..MaxSequence : EventSent(c, seq)
        BY <3>2
      <4>2. seq \in Nat
        BY RoomAssumption
      <4> QED
        BY <1>1, <4>1, <4>2 DEF EventSent
    <3>3. CASE \E result \in results : ResultSent(c, result)
      BY <1>1, <3>3 DEF ResultSent
    <3> QED
      BY <1>4, <3>1, <3>2, <3>3, SentStep
  <2>2. n <= Len(history) =>
          \/ \E notice \in outbox : notice.seq = n
          \/ \E k \in DOMAIN queue : queue[k].op = "batch" /\ queue[k].notice.seq = n
    BY <1>1, <2>1 DEF NothingIsLost
  <2>3. CASE ServiceStep
    <3>1. PICK kind \in Kinds, drops \in SUBSET Binding, from \in SUBSET Client :
            Commit(kind, drops, from)
      BY <2>3, ServiceCommits DEF TypeOK, Commits
    <3>2. /\ outbox' = outbox \cup {[seq |-> Len(history) + 1, from |-> from]}
          /\ Len(history') = Len(history) + 1
          /\ queue' = queue
      BY <3>1 DEF Commit, TypeOK
    <3>3. CASE n = Len(history) + 1
      <4>1. [seq |-> Len(history) + 1, from |-> from].seq = n
        BY <3>3
      <4> QED
        BY <3>2, <4>1
    <3>4. CASE n <= Len(history)
      BY <2>2, <3>2, <3>4
    <3> QED
      BY <1>1, <3>2, <3>3, <3>4
  <2>4. CASE Notify
    <3>1. PICK m \in outbox : Enqueue(m)
      BY <2>4 DEF Notify
    <3>2. /\ outbox' = outbox \ {m} /\ queue' = Append(queue, Batch(m)) /\ history' = history
          /\ Batch(m) \in Deliveries
      BY <3>1 DEF Enqueue, Deliveries, TypeOK
    <3>3. CASE m.seq = n
      <4>1. Len(queue) + 1 \in DOMAIN queue' /\ queue'[Len(queue) + 1] = Batch(m)
        BY <1>2, <3>2
      <4>2. Batch(m).op = "batch" /\ Batch(m).notice = m
        BY DEF Batch
      <4> QED
        BY <3>3, <4>1, <4>2
    <3>4. CASE m.seq # n
      <4>1. \A k \in DOMAIN queue : k \in DOMAIN queue' /\ queue'[k] = queue[k]
        BY <1>2, <3>2
      <4> QED
        BY <1>1, <2>2, <3>2, <3>4, <4>1
    <3> QED
      BY <3>3, <3>4
  <2>5. CASE \/ SkipInitial \/ FinishInitial \/ FailInitial
             \/ FinishBatch \/ SendBatch \/ FailBatch
    <3>1. queue # <<>> /\ queue' = Tail(queue) /\ UNCHANGED <<history, outbox>>
      BY <2>5 DEF SkipInitial, FinishInitial, FailInitial, FinishBatch, SendBatch, FailBatch,
                  Deliver
    <3>2. Head(queue).op = "batch" => Head(queue).notice.seq # n
      <4>1. CASE SkipInitial \/ FinishInitial \/ FailInitial
        BY <4>1 DEF SkipInitial, FinishInitial, FailInitial
      <4>2. CASE FinishBatch \/ SendBatch \/ FailBatch
        <5> SUFFICES ASSUME Head(queue).notice.seq = n
                     PROVE  FALSE
          OBVIOUS
        <5>1. PICK closing \in SUBSET Client :
                /\ Deliver(Head(queue).notice, closing)
                /\ \A d \in Client : conn[d] = "joined" /\ d \notin closing =>
                     BindingOf[d] \notin retired
          BY <4>2, BatchesDeliver
        <5>2. c \notin closing
          BY <5>1 DEF Deliver, Closing
        <5>3. c \in Receivers(n, closing)
          BY <2>1, <5>1, <5>2 DEF Receivers, CanReceive, InRoom
        <5>4. watermark'[c] = n
          BY <5>1, <5>3 DEF Deliver
        <5> QED
          BY <1>1, <5>4
      <4> QED
        BY <2>5, <4>1, <4>2
    <3>3. \A k \in DOMAIN queue : k # 1 =>
            k - 1 \in DOMAIN queue' /\ queue'[k - 1] = queue[k]
      BY <1>2, <3>1
    <3>4. Head(queue) = queue[1]
      BY <1>2, <3>1
    <3> QED
      BY <1>1, <2>2, <3>1, <3>2, <3>3, <3>4
  <2>6. CASE queue' = queue /\ UNCHANGED <<history, outbox>>
    BY <1>1, <2>2, <2>6
  <2>7. CASE (\E d \in Client : queue' = Append(queue, Initial(d))) /\ UNCHANGED <<history, outbox>>
    <3>1. PICK d \in Client : queue' = Append(queue, Initial(d))
      BY <2>7
    <3>2. \A k \in DOMAIN queue : k \in DOMAIN queue' /\ queue'[k] = queue[k]
      BY <1>2, <3>1 DEF Deliveries
    <3> QED
      BY <1>1, <2>2, <2>7, <3>2
  <2> QED
    BY <2>3, <2>4, <2>5, <2>6, <2>7
    DEF RoomNext, Delivery, BeginRead, Answer, SendResult, Authenticate, Join, Acknowledge,
        Disconnect, roomVars
<1> QED
  BY <1>3, <1>4

\* What is sent never goes back.
LEMMA OrderStep ==
  ASSUME TypeOK, ReadsAreCurrent, RetiredAreGone, InitialsAreJoining, NewcomersHaveNothing,
         WatermarkIsSent, SentInOrder, [RoomNext]_roomVars
  PROVE  SentInOrder'
PROOF
<1> DEFINE Later(m, k) ==
      \/ m.seq < k.seq
      \/ m.seq = k.seq /\ m.type = "event" /\ k.type = "snapshot"
<1> SUFFICES ASSUME NEW c \in Client
             PROVE  /\ sent'[c] # <<>> => sent'[c][1].type = "snapshot"
                    /\ \A i, j \in DOMAIN sent'[c] :
                         i < j /\ sent'[c][i].type # "result" /\ sent'[c][j].type # "result" =>
                           Later(sent'[c][i], sent'[c][j])
  BY DEF SentInOrder
<1>1. sent[c] \in Seq(Message) /\ watermark[c] \in Nat
  BY RoomAssumption DEF TypeOK
<1>2. \A i \in DOMAIN sent[c] : sent[c][i].seq \in Nat
  <2>1. \A i \in DOMAIN sent[c] : sent[c][i] \in Message
    BY <1>1
  <2> QED
    BY <2>1, RoomAssumption DEF Message
<1>3. conn[c] = "joined" => sent[c] # <<>> /\ sent[c][1].type = "snapshot"
  BY <1>1 DEF WatermarkIsSent, SentInOrder
<1>4. \A i, j \in DOMAIN sent[c] :
        i < j /\ sent[c][i].type # "result" /\ sent[c][j].type # "result" =>
          Later(sent[c][i], sent[c][j])
  BY DEF SentInOrder
<1>5. CASE NothingSent(c)
  BY <1>4, <1>5 DEF NothingSent, SentInOrder
<1>6. CASE FirstSent(c)
  BY <1>6 DEF FirstSent
<1>7. CASE \E seq \in 1..MaxSequence : EventSent(c, seq)
  <2>1. PICK seq \in 1..MaxSequence : EventSent(c, seq)
    BY <1>7
  <2> DEFINE m == Messages(seq)
  <2>2. /\ m \in Seq(Message) /\ Len(m) \in 1..2
        /\ m[1] = [type |-> "event", seq |-> seq]
        /\ Len(m) = 2 => m[2] = [type |-> "snapshot", seq |-> seq]
    BY MessagesType
  <2>3. /\ sent'[c] = sent[c] \o m /\ watermark[c] < seq /\ conn[c] = "joined"
    BY <2>1 DEF EventSent
  <2> HIDE DEF m
  <2>4. \A i \in DOMAIN sent'[c] :
          \/ i \in DOMAIN sent[c] /\ sent'[c][i] = sent[c][i]
          \/ i = Len(sent[c]) + 1 /\ sent'[c][i] = m[1]
          \/ i = Len(sent[c]) + 2 /\ sent'[c][i] = m[2] /\ Len(m) = 2
    <3> SUFFICES ASSUME NEW i \in DOMAIN sent'[c], i \notin DOMAIN sent[c]
                 PROVE  \/ i = Len(sent[c]) + 1 /\ sent'[c][i] = m[1]
                        \/ i = Len(sent[c]) + 2 /\ sent'[c][i] = m[2] /\ Len(m) = 2
      BY <1>1, <2>2, <2>3
    <3>1. i - Len(sent[c]) \in 1..Len(m) /\ sent'[c][i] = m[i - Len(sent[c])] /\ i \in Nat
      BY <1>1, <2>2, <2>3
    <3>2. i - Len(sent[c]) = 1 \/ (i - Len(sent[c]) = 2 /\ Len(m) = 2)
      BY <2>2, <3>1
    <3> QED
      BY <1>1, <3>1, <3>2
  <2>5. 1 \in DOMAIN sent[c] /\ sent'[c][1] = sent[c][1]
    BY <1>1, <1>3, <2>2, <2>3
  <2>6. \A i \in DOMAIN sent[c] : sent[c][i].type # "result" => sent[c][i].seq < seq
    BY <1>1, <1>2, <2>3 DEF WatermarkIsSent
  <2>7. \A i \in DOMAIN sent'[c] :
          \/ i \in DOMAIN sent[c] /\ sent'[c][i] = sent[c][i]
          \/ /\ i = Len(sent[c]) + 1
             /\ sent'[c][i].seq = seq /\ sent'[c][i].type = "event"
          \/ /\ i = Len(sent[c]) + 2
             /\ sent'[c][i].seq = seq /\ sent'[c][i].type = "snapshot"
    BY <2>2, <2>4
  <2>8. ASSUME NEW i \in DOMAIN sent'[c], NEW j \in DOMAIN sent'[c], i < j,
               sent'[c][i].type # "result", sent'[c][j].type # "result"
        PROVE  Later(sent'[c][i], sent'[c][j])
    <3>1. DOMAIN sent[c] = 1..Len(sent[c]) /\ Len(sent[c]) \in Nat
      BY <1>1
    <3>2. CASE j \in DOMAIN sent[c] /\ sent'[c][j] = sent[c][j]
      <4>1. i \in DOMAIN sent[c] /\ sent'[c][i] = sent[c][i]
        BY <2>7, <2>8, <3>1, <3>2
      <4> QED
        BY <1>4, <2>8, <3>2, <4>1
    <3>3. CASE i \in DOMAIN sent[c] /\ sent'[c][i] = sent[c][i] /\ j \notin DOMAIN sent[c]
      <4>1. sent'[c][j].seq = seq
        BY <2>7, <3>3
      <4> QED
        BY <2>6, <2>8, <3>3, <4>1
    <3>4. CASE i \notin DOMAIN sent[c] /\ j \notin DOMAIN sent[c]
      <4>1. i = Len(sent[c]) + 1 /\ j = Len(sent[c]) + 2
        BY <2>7, <2>8, <3>1, <3>4
      <4>2. sent'[c][i].seq = seq /\ sent'[c][i].type = "event"
        BY <2>7, <3>1, <3>4, <4>1
      <4>3. sent'[c][j].seq = seq /\ sent'[c][j].type = "snapshot"
        BY <2>7, <3>1, <3>4, <4>1
      <4> QED
        BY <4>2, <4>3
    <3> QED
      BY <2>7, <2>8, <3>1, <3>2, <3>3, <3>4
  <2> QED
    BY <1>3, <2>3, <2>5, <2>8
<1>8. CASE \E result \in results : ResultSent(c, result)
  <2>1. PICK result \in results : ResultSent(c, result)
    BY <1>8
  <2> DEFINE m == [type |-> "result", seq |-> result.seq]
  <2>2. m.type = "result" /\ sent'[c] = Append(sent[c], m) /\ conn[c] = "joined"
    BY <2>1 DEF ResultSent
  <2> HIDE DEF m
  <2>3. \A i \in DOMAIN sent'[c] : sent'[c][i].type # "result" =>
          i \in DOMAIN sent[c] /\ sent'[c][i] = sent[c][i]
    BY <1>1, <2>2
  <2>4. sent'[c][1] = sent[c][1]
    BY <1>1, <1>3, <2>2
  <2> QED
    BY <1>3, <1>4, <2>2, <2>3, <2>4
<1> QED
  BY <1>5, <1>6, <1>7, <1>8, SentStep

\* No result is sent before its event, or a later one.
LEMMA FollowStep ==
  ASSUME TypeOK, ReadsAreCurrent, RetiredAreGone, InitialsAreJoining, NewcomersHaveNothing,
         WatermarkIsSent, ResultsAreShown, ResultsFollowBroadcasts, [RoomNext]_roomVars
  PROVE  ResultsFollowBroadcasts'
PROOF
<1> SUFFICES ASSUME NEW c \in Client, NEW j \in DOMAIN sent'[c], sent'[c][j].type = "result"
             PROVE  \E i \in 1..(j - 1) :
                      sent'[c][i].type # "result" /\ sent'[c][i].seq >= sent'[c][j].seq
  BY DEF ResultsFollowBroadcasts
<1>1. sent[c] \in Seq(Message) /\ DOMAIN sent[c] = 1..Len(sent[c]) /\ Len(sent[c]) \in Nat
  BY DEF TypeOK
<1>2. CASE j \in DOMAIN sent[c]
  <2>1. \A i \in DOMAIN sent[c] : sent'[c][i] = sent[c][i]
    BY SentGrows
  <2>2. PICK i \in 1..(j - 1) :
          sent[c][i].type # "result" /\ sent[c][i].seq >= sent[c][j].seq
    BY <1>2, <2>1 DEF ResultsFollowBroadcasts
  <2>3. i \in DOMAIN sent[c]
    BY <1>1, <1>2
  <2> QED
    BY <1>2, <2>1, <2>2, <2>3
<1>3. CASE j \notin DOMAIN sent[c]
  <2>1. CASE NothingSent(c)
    BY <1>3, <2>1 DEF NothingSent
  <2>2. CASE FirstSent(c)
    BY <2>2 DEF FirstSent
  <2>3. CASE \E seq \in 1..MaxSequence : EventSent(c, seq)
    <3>1. PICK seq \in 1..MaxSequence : EventSent(c, seq)
      BY <2>3
    <3> DEFINE m == Messages(seq)
    <3>2. /\ m \in Seq(Message) /\ Len(m) \in 1..2
          /\ m[1] = [type |-> "event", seq |-> seq]
          /\ Len(m) = 2 => m[2] = [type |-> "snapshot", seq |-> seq]
      BY MessagesType
    <3>3. sent'[c] = sent[c] \o m
      BY <3>1 DEF EventSent
    <3> HIDE DEF m
    <3>4. \/ sent'[c][j] = m[1]
          \/ sent'[c][j] = m[2] /\ Len(m) = 2
      <4>1. j - Len(sent[c]) \in 1..Len(m) /\ sent'[c][j] = m[j - Len(sent[c])]
        BY <1>1, <1>3, <3>2, <3>3
      <4>2. j - Len(sent[c]) = 1 \/ (j - Len(sent[c]) = 2 /\ Len(m) = 2)
        BY <3>2, <4>1
      <4> QED
        BY <4>1, <4>2
    <3> QED
      BY <3>2, <3>4
  <2>4. CASE \E result \in results : ResultSent(c, result)
    <3>1. PICK result \in results : ResultSent(c, result)
      BY <2>4
    <3> DEFINE m == [type |-> "result", seq |-> result.seq]
    <3>2. /\ m.seq = result.seq /\ sent'[c] = Append(sent[c], m)
          /\ conn[c] = "joined" /\ result.client = c
      BY <3>1 DEF ResultSent
    <3> HIDE DEF m
    <3>3. j = Len(sent[c]) + 1 /\ sent'[c][j] = m
      BY <1>1, <1>3, <3>2
    <3>4. watermark[c] >= result.seq
      BY <3>1, <3>2 DEF ResultsAreShown
    <3>5. PICK i \in DOMAIN sent[c] :
            sent[c][i].type # "result" /\ sent[c][i].seq = watermark[c]
      BY <3>2 DEF WatermarkIsSent
    <3>6. i \in 1..(j - 1) /\ sent'[c][i] = sent[c][i]
      BY <1>1, <3>2, <3>3
    <3> QED
      BY <3>2, <3>3, <3>4, <3>5, <3>6
  <2> QED
    BY <2>1, <2>2, <2>3, <2>4, SentStep
<1> QED
  BY <1>2, <1>3

-----------------------------------------------------------------------------
(* Theorems.                                                               *)

\* The invariant the theorems rest on.
THEOREM RoomInvariance == RoomSpec => []RoomInv
PROOF
<1>1. RoomInit => RoomInv
  <2> SUFFICES ASSUME RoomInit
               PROVE  RoomInv
    OBVIOUS
  <2>1. TypeOK
    BY RoomAssumption DEF RoomInit, TypeOK, Message
  <2>2. ReadsAreCurrent /\ RetiredAreGone /\ OneInRoom /\ InitialsAreJoining /\ ActorsHavePlayed
    BY DEF RoomInit, ReadsAreCurrent, RetiredAreGone, OneInRoom, InRoom, InitialsAreJoining,
           ActorsHavePlayed
  <2>3. /\ NewcomersHaveNothing /\ WatermarkIsSent /\ ResultsAreShown
        /\ NothingIsLost /\ SentInOrder /\ ResultsFollowBroadcasts
    BY DEF RoomInit, NewcomersHaveNothing, WatermarkIsSent, ResultsAreShown, NothingIsLost,
           SentInOrder, ResultsFollowBroadcasts
  <2> QED
    BY <2>1, <2>2, <2>3 DEF RoomInv
<1>2. RoomInv /\ [RoomNext]_roomVars => RoomInv'
  BY TypeStep, ReadsStep, RetiredStep, OneStep, InitialsStep, ActorsStep, NewcomersStep,
     WatermarkStep, ResultsStep, LostStep, OrderStep, FollowStep DEF RoomInv
<1> QED
  BY <1>1, <1>2, PTL DEF RoomSpec

\* Joining and failing reads lose nothing: what a joined connection has not been sent is
\* still on its way.
THEOREM NothingGetsLost == RoomSpec => []NothingIsLost
PROOF
<1>1. RoomInv => NothingIsLost
  BY DEF RoomInv
<1> QED
  BY <1>1, RoomInvariance, PTL

\* What a connection is sent never goes back.
THEOREM SentStaysInOrder == RoomSpec => []SentInOrder
PROOF
<1>1. RoomInv => SentInOrder
  BY DEF RoomInv
<1> QED
  BY <1>1, RoomInvariance, PTL

\* A player who is told that a command took effect has been shown it.
THEOREM ResultsComeLast == RoomSpec => []ResultsFollowBroadcasts
PROOF
<1>1. RoomInv => ResultsFollowBroadcasts
  BY DEF RoomInv
<1> QED
  BY <1>1, RoomInvariance, PTL

\* No binding has two connections that are served.
THEOREM BindingsConnectOnce == RoomSpec => []OneConnectionPerBinding
PROOF
<1>1. RoomInv => OneConnectionPerBinding
  BY DEF RoomInv, OneInRoom, OneConnectionPerBinding, CanReceive
<1> QED
  BY <1>1, RoomInvariance, PTL

\* Spectators see nothing after their access has ended.
THEOREM SpectatorsStayAuthorized == RoomSpec => SpectatorsAreAuthorized
PROOF
<1>1. ASSUME RoomInv, [RoomNext]_roomVars, NEW c \in Client, Spectator(c), sent'[c] # sent[c]
      PROVE  BindingOf[c] \in access
  <2>1. CASE FirstSent(c)
    BY <2>1 DEF FirstSent
  <2>2. CASE \E seq \in 1..MaxSequence : EventSent(c, seq)
    BY <1>1, <2>2 DEF EventSent
  <2>3. CASE \E result \in results : ResultSent(c, result)
    BY <1>1, <2>3 DEF ResultSent, RoomInv, ActorsHavePlayed, HasPlayed
  <2> QED
    BY <1>1, <2>1, <2>2, <2>3, SentStep DEF RoomInv, NothingSent
<1>2. RoomInv /\ [RoomNext]_roomVars =>
        [\A c \in Client : Spectator(c) /\ sent'[c] # sent[c] => BindingOf[c] \in access]_roomVars
  BY <1>1
<1> QED
  BY <1>2, RoomInvariance, PTL DEF RoomSpec, SpectatorsAreAuthorized


\* What a connection is sent is in the order of the commits, its own results last.
THEOREM DeliveriesStayInOrder == RoomSpec => []DeliveryIsInOrder
<1>1. QED
  BY SentStaysInOrder, ResultsComeLast, PTL DEF DeliveryIsInOrder
=============================================================================
