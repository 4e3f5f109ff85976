-------------------------- MODULE SpectatorProofs --------------------------
(***************************************************************************)
(* Proofs about the spectator's screen: it never goes back, and once       *)
(* nothing is left to arrive it shows the server's state, number and list, *)
(* for any number of events, connections and reads and any list's length.  *)
(***************************************************************************)
EXTENDS SpectatorView, FiniteSetTheorems, TLAPS

-----------------------------------------------------------------------------
(* What the operators of the link return.                                  *)

\* A batch is made of messages.
LEMMA BatchType ==
  ASSUME NEW n \in 1..MaxSequence
  PROVE  Batch(n) \in Seq(Message)
<1> DEFINE event == Sent("event", n)
           snapshot == Sent("snapshot", n)
<1>1. event \in Message /\ snapshot \in Message
  BY LinkAssumption DEF Sent, Message, Sequence
<1>2. <<event, snapshot>> \in Seq(Message) /\ <<event>> \in Seq(Message)
  <2> HIDE DEF event, snapshot
  <2> QED BY <1>1
<1> QED BY <1>2 DEF Batch

\* Asking adds a read.
LEMMA AskType ==
  ASSUME reads \subseteq Read(Purpose), NEW purpose \in Purpose, NEW a \in Attempt,
         Ask(purpose, a)
  PROVE  reads' \subseteq Read(Purpose)
<1>1. PICK slot \in FreeSlots :
        reads' = reads \cup {[slot |-> slot, purpose |-> purpose, attempt |-> a, at |-> NotRead]}
  BY DEF Ask
<1>2. [slot |-> slot, purpose |-> purpose, attempt |-> a, at |-> NotRead] \in Read(Purpose)
  BY <1>1 DEF FreeSlots, Read
<1> QED BY <1>1, <1>2

\* A link stays one when a field of it is replaced.
LEMMA LinkFields ==
  ASSUME NEW l \in Link, NEW n \in Sequence, NEW wire \in Seq(Message),
         NEW state \in {"none", "joining", "open", "closing", "closed"}
  PROVE  /\ [l EXCEPT !.state = state] \in Link
         /\ [l EXCEPT !.wire = wire] \in Link
         /\ [l EXCEPT !.state = state, !.wire = wire] \in Link
         /\ [l EXCEPT !.seen = n, !.wire = wire] \in Link
<1>1. ASSUME NEW k \in Link
      PROVE  [k EXCEPT !.state = state] \in Link /\ [k EXCEPT !.wire = wire] \in Link
             /\ [k EXCEPT !.seen = n] \in Link
  BY DEF Link
<1>2. [l EXCEPT !.state = state] \in Link /\ [l EXCEPT !.seen = n] \in Link
  BY <1>1
<1>3. [[l EXCEPT !.state = state] EXCEPT !.wire = wire] \in Link
  <2> DEFINE m == [l EXCEPT !.state = state]
  <2> HIDE DEF m
  <2>1. m \in Link
    BY <1>2 DEF m
  <2>2. [m EXCEPT !.wire = wire] \in Link
    BY <2>1, <1>1
  <2> QED BY <2>2 DEF m
<1>4. [[l EXCEPT !.seen = n] EXCEPT !.wire = wire] \in Link
  <2> DEFINE m == [l EXCEPT !.seen = n]
  <2> HIDE DEF m
  <2>1. m \in Link
    BY <1>2 DEF m
  <2>2. [m EXCEPT !.wire = wire] \in Link
    BY <2>1, <1>1
  <2> QED BY <2>2 DEF m
<1> QED BY <1>1, <1>3, <1>4

\* The browser's ends of a link keep it well formed.
LEMMA LinkEnds ==
  ASSUME links \in [Attempt -> Link], NEW a \in Attempt
  PROVE  /\ Dial(a) => links' \in [Attempt -> Link]
         /\ Hang(a) => links' \in [Attempt -> Link]
         /\ Taken(a) /\ links[a].wire # <<>> => links' \in [Attempt -> Link]
<1>1. links[a] \in Link /\ links[a].wire \in Seq(Message) /\ 0 \in Sequence
  BY LinkAssumption DEF Link, Sequence
<1>2. <<>> \in Seq(Message)
  OBVIOUS
<1>3. links[a].wire # <<>> => Tail(links[a].wire) \in Seq(Message)
  BY <1>1
<1>4. [links[a] EXCEPT !.state = "joining"] \in Link
  BY <1>1, LinkFields
<1>5. [links[a] EXCEPT !.state = "closed", !.wire = <<>>] \in Link
  BY <1>1, <1>2, LinkFields
<1>6. links[a].wire # <<>> => [links[a] EXCEPT !.wire = Tail(links[a].wire)] \in Link
  BY <1>1, <1>3, LinkFields
<1>7. Dial(a) => links' \in [Attempt -> Link]
  BY <1>4 DEF Dial
<1>8. Hang(a) => links' \in [Attempt -> Link]
  BY <1>5 DEF Hang
<1>9. Taken(a) /\ links[a].wire # <<>> => links' \in [Attempt -> Link]
  BY <1>6 DEF Taken
<1> QED BY <1>7, <1>8, <1>9

\* The list holds events.
LEMMA RecentType ==
  ASSUME NEW S \in SUBSET (1..MaxSequence)
  PROVE  Recent(S) \in SUBSET (1..MaxSequence)
BY DEF Recent

\* The later of two sequences is one, and no earlier than either.
LEMMA LaterIsLater ==
  ASSUME NEW m \in {NoState} \cup Sequence, NEW n \in {NoState} \cup Sequence
  PROVE  /\ Later(m, n) \in {NoState} \cup Sequence
         /\ Later(m, n) >= m
         /\ Later(m, n) >= n
BY LinkAssumption DEF Later, NoState, Sequence

-----------------------------------------------------------------------------
(* The server's steps keep the types, and touch no screen.                 *)

LEMMA TellTypes ==
  ASSUME LinkTypeOK(Purpose), NEW n \in untold, Tell(n)
  PROVE  LinkTypeOK(Purpose)'
<1>1. n \in 1..MaxSequence /\ n \in Sequence
  BY LinkAssumption DEF Sequence, LinkTypeOK
<1>2. Batch(n) \in Seq(Message)
  BY <1>1, BatchType
<1>3. ASSUME NEW a \in Attempt
      PROVE  [links[a] EXCEPT !.seen = n, !.wire = links[a].wire \o Batch(n)] \in Link
  <2>1. links[a] \in Link /\ links[a].wire \in Seq(Message)
    BY DEF Link, LinkTypeOK
  <2>2. links[a].wire \o Batch(n) \in Seq(Message)
    BY <1>2, <2>1
  <2>3. "open" \in {"none", "joining", "open", "closing", "closed"}
    OBVIOUS
  <2> QED BY <1>1, <2>1, <2>2, <2>3, LinkFields
<1>4. ASSUME NEW a \in Attempt PROVE links[a] \in Link
  BY DEF LinkTypeOK
<1>5. links' \in [Attempt -> Link]
  BY <1>3, <1>4 DEF Tell
<1> QED BY <1>5 DEF Tell, LinkTypeOK

LEMMA JoinTypes ==
  ASSUME LinkTypeOK(Purpose), NEW a \in Attempt, Join(a)
  PROVE  LinkTypeOK(Purpose)'
<1> DEFINE first == Sent("snapshot", Len(history))
           opened == [state |-> "open", seen |-> Len(history), wire |-> <<first>>]
<1>1. Len(history) \in Sequence
  BY LinkAssumption DEF Sequence, LinkTypeOK
<1>2. first \in Message
  BY <1>1 DEF Sent, Message
<1>3. opened \in Link
  <2> HIDE DEF first
  <2>1. <<first>> \in Seq(Message)
    BY <1>2
  <2> QED BY <1>1, <2>1 DEF Link
<1>4. ASSUME NEW b \in Attempt
      PROVE  links[b] \in Link /\ [links[b] EXCEPT !.state = "closing"] \in Link
  <2>1. links[b] \in Link /\ links[b].wire \in Seq(Message)
    BY DEF LinkTypeOK, Link
  <2> QED BY <1>1, <2>1, LinkFields
<1>5. links' \in [Attempt -> Link]
  <2>1. links' = [b \in Attempt |->
                    IF b = a THEN opened
                    ELSE IF links[b].state = "open" THEN [links[b] EXCEPT !.state = "closing"]
                                                    ELSE links[b]]
    BY DEF Join
  <2> HIDE DEF opened
  <2> QED BY <1>3, <1>4, <2>1
<1> QED BY <1>5 DEF Join, LinkTypeOK

LEMMA AnswerTypes ==
  ASSUME LinkTypeOK(Purpose), NEW r \in reads, AnswerRead(r)
  PROVE  LinkTypeOK(Purpose)'
<1>1. Len(history) \in Sequence /\ r \in Read(Purpose)
  BY LinkAssumption DEF Sequence, LinkTypeOK
<1>2. [r EXCEPT !.at = Len(history)] \in Read(Purpose)
  BY <1>1 DEF Read
<1> QED BY <1>2 DEF AnswerRead, LinkTypeOK

LEMMA CommitTypes ==
  ASSUME LinkTypeOK(Purpose), Commit
  PROVE  LinkTypeOK(Purpose)'
<1>1. PICK kind \in {"gameplay", "management"} : Committed(kind) /\ UNCHANGED <<links, reads>>
  BY DEF Commit
<1>2. /\ history \in Seq({"gameplay", "management"})
      /\ Len(history) < MaxSequence
      /\ history' = Append(history, kind)
  BY <1>1 DEF Committed, LinkTypeOK
<1>3. /\ history' \in Seq({"gameplay", "management"})
      /\ Len(history') <= MaxSequence
      /\ Len(history) + 1 \in 1..MaxSequence
  BY <1>2, LinkAssumption
<1> QED BY <1>1, <1>3 DEF Committed, LinkTypeOK

LEMMA ServerKeepsIt ==
  ASSUME ViewInv, Server
  PROVE  ViewInv'
<1>1. LinkTypeOK(Purpose)'
  BY TellTypes, JoinTypes, AnswerTypes, CommitTypes DEF Server, ServerStep, ViewInv, TypeOK
<1>2. UNCHANGED <<attempt, phase, sequence, snapshotSequence, board, shown, log>>
  BY DEF Server, viewVars
<1> QED BY <1>1, <1>2 DEF ViewInv, TypeOK, ScreenFollows, Active

-----------------------------------------------------------------------------
(* The browser's steps keep what the screen follows, and never go back.    *)

\* What the screen's numbers are, as numbers.
LEMMA Numbers ==
  ASSUME TypeOK
  PROVE  /\ sequence \in Int /\ sequence >= NoState
         /\ snapshotSequence \in Int /\ snapshotSequence >= NoState
         /\ board \in Int /\ board >= NoState
         /\ shown \in Int /\ shown >= NoState
         /\ NoState \in Int
<1>1. NoState \in Int /\ \A n \in Sequence : n \in Int /\ n >= NoState
  BY LinkAssumption DEF NoState, Sequence
<1> HIDE DEF NoState
<1>2. ASSUME NEW m \in {NoState} \cup Sequence PROVE m \in Int /\ m >= NoState
  BY <1>1
<1> QED BY <1>1, <1>2 DEF TypeOK

\* No number is less than itself.
LEMMA NoneIsLess ==
  ASSUME TypeOK
  PROVE  sequence >= sequence /\ board >= board /\ shown >= shown
BY Numbers

NoStepBack == sequence' >= sequence /\ board' >= board /\ shown' >= shown

LEMMA OpenKeepsIt ==
  ASSUME ViewInv, Open
  PROVE  ViewInv'
<1> USE DEF ViewInv
<1>1. attempt + 1 \in Attempt /\ attempt + 1 \in 0..MaxAttempts
  <2>1. attempt \in 0..MaxAttempts /\ attempt < MaxAttempts
    BY DEF Open, TypeOK
  <2> QED BY <2>1, LinkAssumption DEF Attempt
<1>2. reads' \subseteq Read(Purpose)
  <2>1. Ask("first", attempt + 1)
    BY DEF Open
  <2>2. reads \subseteq Read(Purpose)
    BY DEF TypeOK, LinkTypeOK
  <2> QED BY <1>1, <2>1, <2>2, AskType DEF Purpose
<1>3. LinkTypeOK(Purpose)'
  BY <1>2 DEF Open, TypeOK, LinkTypeOK
<1>4. TypeOK'
  BY <1>1, <1>3 DEF Open, TypeOK
<1>5. ScreenFollows'
  <2>1. /\ sequence' = NoState /\ snapshotSequence' = NoState
        /\ board' = NoState /\ shown' = NoState
        /\ phase' = "loading" /\ attempt' \in Attempt
    BY <1>1 DEF Open
  <2>2. NoState >= NoState
    BY DEF NoState
  <2> QED BY <2>1, <2>2 DEF ScreenFollows, Active
<1> QED BY <1>4, <1>5

LEMMA DisconnectKeepsIt ==
  ASSUME ViewInv, Disconnect
  PROVE  ViewInv'
<1> USE DEF ViewInv
<1>1. attempt \in Attempt
  BY DEF Disconnect, ScreenFollows
<1>2. links' \in [Attempt -> Link]
  BY <1>1, LinkEnds DEF Disconnect, TypeOK, LinkTypeOK
<1>3. TypeOK'
  BY <1>2 DEF Disconnect, TypeOK, LinkTypeOK
<1>4. ScreenFollows'
  <2>1. /\ board' = NoState /\ shown' = NoState /\ phase' = "disconnected"
        /\ sequence' = sequence /\ snapshotSequence' = snapshotSequence
    BY DEF Disconnect
  <2>2. sequence >= NoState /\ sequence >= snapshotSequence
    BY Numbers DEF ScreenFollows
  <2> QED BY <2>1, <2>2 DEF ScreenFollows, Active
<1> QED BY <1>3, <1>4

LEMMA RegisterKeepsIt ==
  ASSUME ViewInv, Register
  PROVE  ViewInv' /\ NoStepBack
<1> USE DEF ViewInv
<1>1. attempt \in Attempt
  BY DEF Register, ScreenFollows, Active
<1>2. reads' \subseteq Read(Purpose)
  <2>1. Ask("final", attempt)
    BY DEF Register
  <2>2. reads \subseteq Read(Purpose)
    BY DEF TypeOK, LinkTypeOK
  <2> QED BY <1>1, <2>1, <2>2, AskType DEF Purpose
<1>3. TypeOK'
  BY <1>2 DEF Register, TypeOK, LinkTypeOK, viewVars
<1>4. ScreenFollows' /\ NoStepBack
  <2>1. /\ UNCHANGED <<sequence, snapshotSequence, board, shown, attempt>>
        /\ phase' = "catching up" /\ phase = "joining"
    BY DEF Register, viewVars
  <2>2. NoStepBack
    BY <2>1, NoneIsLess DEF NoStepBack
  <2>3. ScreenFollows'
    BY <1>1, <2>1 DEF ScreenFollows, Active
  <2> QED BY <2>2, <2>3
<1> QED BY <1>3, <1>4

LEMMA UnheardKeepsIt ==
  ASSUME ViewInv, Unheard
  PROVE  ViewInv' /\ NoStepBack
<1> USE DEF ViewInv
<1>1. attempt \in Attempt
  BY DEF Unheard, ScreenFollows, Active
<1>2. links' \in [Attempt -> Link]
  BY <1>1, LinkEnds DEF Unheard, TypeOK, LinkTypeOK
<1>3. TypeOK'
  BY <1>2 DEF Unheard, TypeOK, LinkTypeOK, viewVars
<1>4. ScreenFollows' /\ NoStepBack
  <2>1. UNCHANGED <<sequence, snapshotSequence, board, shown, attempt, phase>>
    BY DEF Unheard, viewVars
  <2>2. NoStepBack
    BY <2>1, NoneIsLess DEF NoStepBack
  <2>3. ScreenFollows'
    BY <2>1 DEF ScreenFollows, Active
  <2> QED BY <2>2, <2>3
<1> QED BY <1>3, <1>4

\* What a read shows.
LEMMA ReadsShowForward ==
  ASSUME ViewInv, Active, NEW n \in Sequence, ShowRead(n)
  PROVE  /\ sequence' \in {NoState} \cup Sequence
         /\ snapshotSequence' \in {NoState} \cup Sequence
         /\ board' \in Sequence
         /\ shown' \in {NoState} \cup Sequence
         /\ log' \in SUBSET (1..MaxSequence)
         /\ sequence' >= snapshotSequence'
         /\ sequence' >= shown'
         /\ board' = snapshotSequence'
         /\ NoStepBack
<1> USE DEF ViewInv
<1>1. /\ sequence' = Later(sequence, n)
      /\ sequence' \in {NoState} \cup Sequence
      /\ sequence' >= sequence
      /\ sequence' >= n
  BY LaterIsLater DEF ShowRead, TypeOK
<1>2. /\ n \in Int /\ n > NoState /\ n <= MaxSequence
      /\ NoState \notin Sequence
      /\ sequence' \in Int
  BY <1>1, LinkAssumption DEF NoState, Sequence
<1>3. log' \in SUBSET (1..MaxSequence)
  <2>1. log \cup 1..n \in SUBSET (1..MaxSequence)
    <3>1. log \subseteq 1..MaxSequence
      BY DEF TypeOK
    <3> QED BY <3>1, <1>2, LinkAssumption
  <2> QED BY <2>1, RecentType DEF ShowRead, ReadLog
<1>4. /\ snapshotSequence \in {NoState} \cup Sequence
      /\ board \in {NoState} \cup Sequence
      /\ shown \in {NoState} \cup Sequence
  BY DEF TypeOK
<1>5. /\ sequence >= snapshotSequence
      /\ sequence >= shown
      /\ board # NoState => board = snapshotSequence
      /\ board = NoState => snapshotSequence = NoState
  BY DEF ScreenFollows
<1>6. board = NoState => IsFresh(n)
  BY <1>2, <1>5, Numbers DEF IsFresh
<1>7. CASE IsFresh(n)
  <2>1. snapshotSequence' = n /\ board' = n /\ shown' = sequence'
    BY <1>7 DEF ShowRead
  <2>2. n >= snapshotSequence
    BY <1>7 DEF IsFresh
  <2>3. n >= board
    BY <1>2, <1>5, <2>2, Numbers
  <2>4. sequence' >= shown /\ sequence' >= sequence'
    BY <1>1, <1>2, <1>5, Numbers
  <2> QED BY <1>1, <1>3, <2>1, <2>3, <2>4 DEF NoStepBack
<1>8. CASE ~IsFresh(n)
  <2>1. board # NoState
    BY <1>6, <1>8
  <2>2. snapshotSequence' = snapshotSequence /\ board' = board /\ shown' = shown
    BY <1>8, <2>1 DEF ShowRead
  <2>3. sequence' >= snapshotSequence /\ sequence' >= shown
    BY <1>1, <1>2, <1>5, Numbers
  <2>4. board >= board /\ shown >= shown
    BY Numbers
  <2>5. board \in Sequence
    BY <1>4, <2>1
  <2> QED BY <1>1, <1>3, <1>4, <1>5, <2>1, <2>2, <2>3, <2>4, <2>5 DEF NoStepBack
<1> QED BY <1>7, <1>8

LEMMA RefreshKeepsIt ==
  ASSUME ViewInv, NEW r \in reads, Refresh(r)
  PROVE  ViewInv' /\ NoStepBack
<1> USE DEF ViewInv
<1>1. r \in Read(Purpose) /\ r.at \in Sequence
  BY DEF Refresh, TypeOK, LinkTypeOK, Read
<1>2. attempt \in Attempt
  BY DEF Refresh, ScreenFollows
<1>3. /\ sequence' \in {NoState} \cup Sequence
      /\ snapshotSequence' \in {NoState} \cup Sequence
      /\ board' \in Sequence
      /\ shown' \in {NoState} \cup Sequence
      /\ log' \in SUBSET (1..MaxSequence)
      /\ sequence' >= snapshotSequence'
      /\ sequence' >= shown'
      /\ board' = snapshotSequence'
      /\ NoStepBack
  BY <1>1, ReadsShowForward DEF Refresh
<1>4. links' \in [Attempt -> Link]
  BY <1>2, LinkEnds DEF Refresh, TypeOK, LinkTypeOK
<1>5. TypeOK'
  BY <1>3, <1>4 DEF Refresh, TypeOK, LinkTypeOK
<1>6. ScreenFollows'
  <2>1. board' # NoState
    BY <1>3, LinkAssumption DEF NoState, Sequence
  <2>2. attempt' \in Attempt
    BY <1>2 DEF Refresh
  <2> QED BY <1>3, <2>1, <2>2 DEF ScreenFollows
<1> QED BY <1>3, <1>5, <1>6

LEMMA RecoverGapType ==
  ASSUME ViewInv, NEW missed \in BOOLEAN, RecoverGap(missed), attempt \in Attempt
  PROVE  reads' \subseteq Read(Purpose)
<1>1. reads \subseteq Read(Purpose) /\ "gap" \in Purpose
  BY DEF ViewInv, TypeOK, LinkTypeOK, Purpose
<1> QED BY <1>1, AskType DEF RecoverGap

LEMMA ReceiveKeepsIt ==
  ASSUME ViewInv, Receive
  PROVE  ViewInv' /\ NoStepBack
<1> USE DEF ViewInv
<1> DEFINE message == Head(links[attempt].wire)
<1>1. attempt \in Attempt /\ board # NoState
  BY DEF Receive, ScreenFollows, Active
<1>2. links' \in [Attempt -> Link]
  BY <1>1, LinkEnds DEF Receive, TypeOK, LinkTypeOK
<1>3. message \in Message
  <2>1. links[attempt] \in Link /\ links[attempt].wire # <<>>
    BY <1>1 DEF Receive, TypeOK, LinkTypeOK
  <2> QED BY <2>1 DEF Link
<1>4. /\ board \in Sequence
      /\ board = snapshotSequence
      /\ sequence \in Sequence
      /\ sequence >= snapshotSequence
      /\ sequence >= shown
  <2>1. /\ board = snapshotSequence
        /\ sequence >= snapshotSequence
        /\ sequence >= shown
        /\ board \in Sequence
        /\ sequence \in {NoState} \cup Sequence
    BY <1>1 DEF TypeOK, ScreenFollows
  <2>2. sequence # NoState
    BY <2>1, LinkAssumption DEF NoState, Sequence
  <2> QED BY <2>1, <2>2
<1>5. CASE message.type = "snapshot" /\ OnSnapshot(message.seq)
  <2> DEFINE n == message.seq
  <2>1. n \in Sequence
    BY <1>3, <1>5 DEF Message
  <2> HIDE DEF message, n
  <2>2. CASE n < snapshotSequence
    <3>1. UNCHANGED <<reads, viewVars>>
      BY <1>5, <2>2 DEF OnSnapshot, n
    <3>2. TypeOK'
      BY <1>2, <3>1 DEF Receive, TypeOK, LinkTypeOK, viewVars
    <3>3. ScreenFollows' /\ NoStepBack
      <4>1. UNCHANGED <<sequence, snapshotSequence, board, shown, attempt, phase>>
        BY <3>1 DEF Receive, viewVars
      <4>2. NoStepBack
        BY <4>1, NoneIsLess DEF NoStepBack
      <4>3. ScreenFollows'
        BY <4>1 DEF ScreenFollows, Active
      <4> QED BY <4>2, <4>3
    <3> QED BY <3>2, <3>3
  <2>3. CASE ~(n < snapshotSequence)
    <3>1. /\ RecoverGap(n > sequence)
          /\ snapshotSequence' = n
          /\ sequence' = Later(sequence, n)
          /\ board' = n
          /\ shown' = sequence'
          /\ UNCHANGED log
      BY <1>5, <2>3 DEF OnSnapshot, n
    <3>2. /\ sequence' \in {NoState} \cup Sequence
          /\ sequence' >= sequence
          /\ sequence' >= n
      BY <1>4, <2>1, <3>1, LaterIsLater
    <3>3. reads' \subseteq Read(Purpose)
      <4>1. (n > sequence) \in BOOLEAN
        OBVIOUS
      <4> QED BY <1>1, <3>1, <4>1, RecoverGapType
    <3>4. TypeOK'
      BY <1>2, <2>1, <3>1, <3>2, <3>3 DEF Receive, TypeOK, LinkTypeOK
    <3>5. /\ n \in Int /\ n >= snapshotSequence /\ n >= board
          /\ n # NoState /\ sequence' \in Int
      BY <1>4, <2>1, <2>3, <3>2, Numbers, LinkAssumption DEF NoState, Sequence
    <3>6. NoStepBack
      BY <1>4, <3>1, <3>2, <3>5, Numbers DEF NoStepBack
    <3>7. ScreenFollows'
      <4>1. attempt' \in Attempt
        BY <1>1 DEF Receive
      <4>2. sequence' >= sequence'
        BY <3>5
      <4> QED BY <3>1, <3>2, <3>5, <4>1, <4>2 DEF ScreenFollows
    <3> QED BY <3>4, <3>6, <3>7
  <2> QED BY <2>2, <2>3
<1>6. CASE message.type = "event" /\ OnEvent(message.seq)
  <2> DEFINE n == message.seq
  <2>1. n \in 1..MaxSequence /\ n \in Sequence
    BY <1>3, <1>6, LinkAssumption DEF Message, Sequence
  <2> HIDE DEF message, n
  <2>2. /\ RecoverGap(n > sequence + 1)
        /\ sequence' = Later(sequence, n)
        /\ shown' = shown \/ shown' = Later(shown, n)
        /\ log' = Recent(log \cup {n})
        /\ UNCHANGED <<snapshotSequence, board>>
    BY <1>6 DEF OnEvent, n
  <2>3. /\ sequence' \in {NoState} \cup Sequence
        /\ sequence' >= sequence
        /\ sequence' >= n
    BY <1>4, <2>1, <2>2, LaterIsLater
  <2>4. shown' \in {NoState} \cup Sequence /\ shown' >= shown
    <3>1. shown \in {NoState} \cup Sequence /\ shown >= shown
      BY NoneIsLess DEF TypeOK
    <3> QED BY <2>1, <2>2, <3>1, LaterIsLater
  <2>5. sequence' >= shown'
    <3>1. n \in Int /\ sequence' \in Int
      BY <2>1, <2>3, LinkAssumption DEF NoState, Sequence
    <3>2. CASE shown' = shown
      BY <1>4, <2>3, <3>1, <3>2, Numbers
    <3>3. CASE shown' = Later(shown, n)
      <4>1. shown' = shown \/ shown' = n
        BY <3>3 DEF Later
      <4> QED BY <1>4, <2>3, <3>1, <4>1, Numbers
    <3> QED BY <2>2, <3>2, <3>3
  <2>6. reads' \subseteq Read(Purpose)
    <3>1. (n > sequence + 1) \in BOOLEAN
      OBVIOUS
    <3> QED BY <1>1, <2>2, <3>1, RecoverGapType
  <2>7. log' \in SUBSET (1..MaxSequence)
    <3>1. log \cup {n} \in SUBSET (1..MaxSequence)
      BY <2>1 DEF TypeOK
    <3> QED BY <2>2, <3>1, RecentType
  <2>8. TypeOK'
    BY <1>2, <2>2, <2>3, <2>4, <2>6, <2>7 DEF Receive, TypeOK, LinkTypeOK
  <2>9. NoStepBack
    <3>1. board' >= board
      BY <2>2, Numbers
    <3> QED BY <2>3, <2>4, <3>1 DEF NoStepBack
  <2>10. ScreenFollows'
    <3>1. /\ attempt' \in Attempt
          /\ board' = board /\ snapshotSequence' = snapshotSequence
      BY <1>1, <2>2 DEF Receive
    <3>2. sequence' >= snapshotSequence
      <4>1. sequence' \in Int
        BY <2>3, LinkAssumption DEF NoState, Sequence
      <4> QED BY <1>4, <2>3, <4>1, Numbers
    <3> QED BY <1>1, <1>4, <2>5, <3>1, <3>2 DEF ScreenFollows
  <2> QED BY <2>8, <2>9, <2>10
<1> QED BY <1>5, <1>6 DEF Receive

-----------------------------------------------------------------------------
(* The theorems.                                                           *)

LEMMA InitKeepsIt ==
  ASSUME Init
  PROVE  ViewInv
<1>1. NoLink \in Link
  BY LinkAssumption DEF NoLink, Link, Sequence
<1>2. LinkTypeOK(Purpose)
  BY <1>1, LinkAssumption DEF Init, LinkInit, LinkTypeOK
<1> QED BY <1>2, LinkAssumption
        DEF Init, ViewInv, TypeOK, ScreenFollows, NoState, Sequence, Active

LEMMA StepKeepsIt ==
  ASSUME ViewInv, [Next]_vars
  PROVE  ViewInv'
<1>1. CASE Server
  BY <1>1, ServerKeepsIt
<1>2. CASE Open \/ Disconnect
  BY <1>2, OpenKeepsIt, DisconnectKeepsIt
<1>3. CASE Unheard \/ Browser
  BY <1>3, UnheardKeepsIt, RegisterKeepsIt, RefreshKeepsIt, ReceiveKeepsIt DEF Browser
<1>4. CASE UNCHANGED vars
  BY <1>4 DEF vars, linkVars, viewVars, ViewInv, TypeOK, LinkTypeOK, ScreenFollows, Active
<1> QED BY <1>1, <1>2, <1>3, <1>4 DEF Next

\* The types and what the screen follows are invariant.
THEOREM ViewInvariance == Spec => []ViewInv
<1>1. Init => ViewInv
  BY InitKeepsIt
<1>2. ViewInv /\ [Next]_vars => ViewInv'
  BY StepKeepsIt
<1> QED BY <1>1, <1>2, PTL DEF Spec

\* Every state of the spectator's screen is well typed: no sequence leaves its
\* range and no read or message is malformed.
THEOREM ViewTypes == Spec => []TypeOK
<1>1. ViewInv => TypeOK
  BY DEF ViewInv
<1> QED BY <1>1, ViewInvariance, PTL

\* Nothing the spectator sees goes back while the screen is connected, whatever
\* messages and answers overtake one another.
THEOREM ScreensNeverGoBack == Spec => ChronologyNeverMovesBack
<1> DEFINE step == Active' /\ attempt' = attempt => NoStepBack
<1>1. ASSUME ViewInv, [Next]_vars
      PROVE  [Active' /\ attempt' = attempt =>
                sequence' >= sequence /\ board' >= board /\ shown' >= shown]_vars
  <2>1. CASE Server
    <3>1. UNCHANGED viewVars
      BY <2>1 DEF Server
    <3> QED BY <1>1, <3>1, Numbers DEF viewVars, ViewInv
  <2>2. CASE Open
    <3>1. attempt' # attempt
      <4>1. attempt \in 0..MaxAttempts /\ attempt' = attempt + 1
        BY <1>1, <2>2 DEF Open, ViewInv, TypeOK
      <4> QED BY <4>1, LinkAssumption
    <3> QED BY <3>1
  <2>3. CASE Disconnect
    BY <2>3 DEF Disconnect, Active
  <2>4. CASE Unheard \/ Browser
    BY <1>1, <2>4, UnheardKeepsIt, RegisterKeepsIt, RefreshKeepsIt, ReceiveKeepsIt
       DEF Browser, NoStepBack
  <2>5. CASE UNCHANGED vars
    BY <2>5
  <2> QED BY <1>1, <2>1, <2>2, <2>3, <2>4, <2>5 DEF Next
<1> QED BY <1>1, ViewInvariance, PTL DEF Spec, ChronologyNeverMovesBack

-----------------------------------------------------------------------------
(* What links, messages and reads follow.                                  *)

\* What is known of a link in a well-typed state.
LEMMA LinkParts ==
  ASSUME LinkTypeOK(Purpose), NEW a \in Attempt
  PROVE  /\ links[a] \in Link
         /\ links[a].seen \in Nat
         /\ links[a].wire \in Seq(Message)
         /\ Len(links[a].wire) \in Nat
         /\ \A k \in 1..Len(links[a].wire) :
              links[a].wire[k] \in Message /\ links[a].wire[k].seq \in Nat
         /\ Len(history) \in Nat
         /\ \A n \in 1..Len(history) : history[n] \in {"gameplay", "management"}
<1>1. links[a] \in Link /\ links[a].wire \in Seq(Message) /\ links[a].seen \in Sequence
  BY DEF LinkTypeOK, Link
<1>2. \A m \in Message : m.seq \in Nat
  BY LinkAssumption DEF Message, Sequence
<1>3. history \in Seq({"gameplay", "management"})
  BY DEF LinkTypeOK
<1>4. Len(history) \in Nat /\ \A n \in 1..Len(history) : history[n] \in {"gameplay", "management"}
  BY <1>3
<1>5. links[a].seen \in Nat
  BY <1>1, LinkAssumption DEF Sequence
<1>6. Len(links[a].wire) \in Nat /\ \A k \in 1..Len(links[a].wire) : links[a].wire[k] \in Message
  BY <1>1
<1> QED BY <1>1, <1>2, <1>4, <1>5, <1>6

\* A link keeps following when it is closing, closed, dialled or hung up on,
\* and when its first message is taken.
LEMMA EndsFollow ==
  ASSUME LinkTypeOK(Purpose), LinksFollow, NEW a \in Attempt
  PROVE  /\ \A state \in {"joining", "closing", "closed"} :
              LinkFollows([links[a] EXCEPT !.state = state])
         /\ LinkFollows([links[a] EXCEPT !.state = "closed", !.wire = <<>>])
         /\ links[a].wire # <<>> => LinkFollows([links[a] EXCEPT !.wire = Tail(links[a].wire)])
<1> DEFINE l == links[a]
<1>1. l \in Link /\ l.wire \in Seq(Message) /\ Len(l.wire) \in Nat
  BY LinkParts
<1>2. LinkFollows(l)
  BY DEF LinksFollow
<1> HIDE DEF l
<1>3. ASSUME NEW state \in {"joining", "closing", "closed"}
      PROVE  LinkFollows([l EXCEPT !.state = state])
  <2> DEFINE m == [l EXCEPT !.state = state]
  <2>1. m.state = state /\ m.seen = l.seen /\ m.wire = l.wire
    BY <1>1 DEF Link
  <2> HIDE DEF m
  <2> QED BY <1>2, <2>1 DEF LinkFollows
<1>4. LinkFollows([l EXCEPT !.state = "closed", !.wire = <<>>])
  <2> DEFINE m == [l EXCEPT !.state = "closed", !.wire = <<>>]
  <2>1. m.state = "closed" /\ m.seen = l.seen /\ m.wire = <<>>
    BY <1>1 DEF Link
  <2> HIDE DEF m
  <2> QED BY <1>2, <2>1 DEF LinkFollows
<1>5. ASSUME l.wire # <<>>
      PROVE  LinkFollows([l EXCEPT !.wire = Tail(l.wire)])
  <2> DEFINE m == [l EXCEPT !.wire = Tail(l.wire)]
  <2>1. m.state = l.state /\ m.seen = l.seen /\ m.wire = Tail(l.wire)
    BY <1>1 DEF Link
  <2>2. /\ Len(Tail(l.wire)) = Len(l.wire) - 1
        /\ \A k \in 1..Len(Tail(l.wire)) :
             k + 1 \in 1..Len(l.wire) /\ Tail(l.wire)[k] = l.wire[k + 1]
    BY <1>1, <1>5
  <2> HIDE DEF m
  <2>3. ASSUME NEW k \in 1..Len(m.wire)
        PROVE  /\ m.wire[k].seq <= Len(history)
               /\ m.wire[k].type = "event" /\ history[m.wire[k].seq] = "gameplay" =>
                    k < Len(m.wire) /\ m.wire[k + 1] = Sent("snapshot", m.wire[k].seq)
    <3>1. k + 1 \in 1..Len(l.wire) /\ m.wire[k] = l.wire[k + 1]
      BY <2>1, <2>2
    <3>2. l.wire[k + 1].seq <= Len(history)
      BY <1>2, <3>1 DEF LinkFollows
    <3>3. ASSUME l.wire[k + 1].type = "event", history[l.wire[k + 1].seq] = "gameplay"
          PROVE  k < Len(m.wire) /\ m.wire[k + 1] = Sent("snapshot", m.wire[k].seq)
      <4>1. k + 1 < Len(l.wire) /\ l.wire[(k + 1) + 1] = Sent("snapshot", l.wire[k + 1].seq)
        BY <1>2, <3>1, <3>3 DEF LinkFollows
      <4>2. k \in Nat /\ k < Len(m.wire) /\ k + 1 \in 1..Len(m.wire)
        BY <1>1, <2>1, <2>2, <3>1, <4>1
      <4>3. m.wire[k + 1] = l.wire[(k + 1) + 1]
        BY <2>1, <2>2, <4>2
      <4> QED BY <3>1, <4>1, <4>2, <4>3
    <3> QED BY <3>1, <3>2, <3>3
  <2> QED BY <1>2, <2>1, <2>3 DEF LinkFollows
<1> QED BY <1>3, <1>4, <1>5 DEF l

\* A batch says what it is about, and its state comes with a gameplay event.
LEMMA BatchFollows ==
  ASSUME NEW n \in 1..Len(history)
  PROVE  /\ Len(Batch(n)) \in Nat /\ Len(Batch(n)) >= 1
         /\ \A k \in 1..Len(Batch(n)) : 
              /\ Batch(n)[k].seq = n
              /\ Batch(n)[k].type = "event" /\ history[n] = "gameplay" =>
                   k < Len(Batch(n)) /\ Batch(n)[k + 1] = Sent("snapshot", n)
<1> DEFINE event == Sent("event", n)
           snapshot == Sent("snapshot", n)
<1>1. event.seq = n /\ snapshot.seq = n /\ event.type = "event" /\ snapshot.type = "snapshot"
  BY DEF Sent
<1>2. Batch(n) = IF history[n] = "gameplay" THEN <<event, snapshot>> ELSE <<event>>
  BY DEF Batch
<1> HIDE DEF event, snapshot
<1>3. CASE history[n] = "gameplay"
  <2>1. Batch(n) = <<event, snapshot>>
    BY <1>2, <1>3
  <2> QED BY <1>1, <2>1 DEF snapshot
<1>4. CASE history[n] # "gameplay"
  <2>1. Batch(n) = <<event>>
    BY <1>2, <1>4
  <2> QED BY <1>1, <1>4, <2>1
<1> QED BY <1>3, <1>4

\* What a batch adds to a link that follows.
LEMMA ToldFollows ==
  ASSUME LinkTypeOK(Purpose), LinksFollow, NEW a \in Attempt, NEW n \in untold,
         n > links[a].seen
  PROVE  /\ n \in 1..Len(history)
         /\ [links[a] EXCEPT !.seen = n, !.wire = links[a].wire \o Batch(n)].seen = n
         /\ [links[a] EXCEPT !.seen = n, !.wire = links[a].wire \o Batch(n)].state = links[a].state
         /\ [links[a] EXCEPT !.seen = n, !.wire = links[a].wire \o Batch(n)].wire
              = links[a].wire \o Batch(n)
         /\ Len(links[a].wire \o Batch(n)) = Len(links[a].wire) + Len(Batch(n))
         /\ \A k \in 1..Len(links[a].wire) : (links[a].wire \o Batch(n))[k] = links[a].wire[k]
         /\ \A k \in 1..Len(Batch(n)) :
              (links[a].wire \o Batch(n))[Len(links[a].wire) + k] = Batch(n)[k]
<1>1. n \in 1..Len(history) /\ n \in 1..MaxSequence
  BY DEF LinksFollow, LinkTypeOK
<1>2. Batch(n) \in Seq(Message)
  BY <1>1, BatchType
<1>3. links[a] \in Link /\ links[a].wire \in Seq(Message)
  BY LinkParts
<1>4. /\ [links[a] EXCEPT !.seen = n, !.wire = links[a].wire \o Batch(n)].seen = n
      /\ [links[a] EXCEPT !.seen = n, !.wire = links[a].wire \o Batch(n)].state = links[a].state
      /\ [links[a] EXCEPT !.seen = n, !.wire = links[a].wire \o Batch(n)].wire
           = links[a].wire \o Batch(n)
  BY <1>3 DEF Link
<1>5. /\ Len(links[a].wire \o Batch(n)) = Len(links[a].wire) + Len(Batch(n))
      /\ \A k \in 1..Len(links[a].wire) : (links[a].wire \o Batch(n))[k] = links[a].wire[k]
      /\ \A k \in 1..Len(Batch(n)) :
           (links[a].wire \o Batch(n))[Len(links[a].wire) + k] = Batch(n)[k]
  <2> DEFINE w == links[a].wire
             b == Batch(n)
  <2>1. w \in Seq(Message) /\ b \in Seq(Message)
    BY <1>2, <1>3
  <2> HIDE DEF w, b
  <2>2. /\ Len(w \o b) = Len(w) + Len(b)
        /\ \A k \in 1..Len(w) : (w \o b)[k] = w[k]
        /\ \A k \in 1..Len(b) : (w \o b)[Len(w) + k] = b[k]
    BY <2>1
  <2> QED BY <2>2 DEF w, b
<1> QED BY <1>1, <1>4, <1>5

\* A link keeps following when it is told of an event.
LEMMA TellFollows ==
  ASSUME LinkTypeOK(Purpose), LinksFollow, NEW n \in untold, Tell(n)
  PROVE  LinksFollow'
<1>1. /\ history' = history /\ untold' = untold \ {n} /\ reads' = reads
      /\ n \in 1..Len(history) /\ Len(history) \in Nat
  <2>1. Len(history) \in Nat
    BY DEF LinkTypeOK
  <2> QED BY <2>1 DEF Tell, LinksFollow
<1>2. ASSUME NEW a \in Attempt
      PROVE  LinkFollows(links[a])'
  <2>1. links[a].seen \in Nat /\ LinkFollows(links[a]) /\ Len(links[a].wire) \in Nat
        /\ links[a].wire \in Seq(Message)
    BY LinkParts DEF LinksFollow
  <2>2. CASE links[a].state = "open" /\ n > links[a].seen
    <3> DEFINE w == links[a].wire
               b == Batch(n)
    <3>1. links'[a] = [links[a] EXCEPT !.seen = n, !.wire = links[a].wire \o Batch(n)]
      BY <2>2 DEF Tell
    <3>2. /\ links'[a].seen = n /\ links'[a].wire = w \o b /\ links'[a].state = "open"
          /\ Len(w \o b) = Len(w) + Len(b)
          /\ \A k \in 1..Len(w) : (w \o b)[k] = w[k]
          /\ \A k \in 1..Len(b) : (w \o b)[Len(w) + k] = b[k]
      <4> DEFINE told == [links[a] EXCEPT !.seen = n, !.wire = links[a].wire \o Batch(n)]
      <4>1. /\ told.seen = n
            /\ told.state = links[a].state
            /\ told.wire = links[a].wire \o Batch(n)
        BY <2>2, ToldFollows
      <4>2. /\ Len(w \o b) = Len(w) + Len(b)
            /\ \A k \in 1..Len(w) : (w \o b)[k] = w[k]
            /\ \A k \in 1..Len(b) : (w \o b)[Len(w) + k] = b[k]
        BY <2>2, ToldFollows, ZenonT(40)
      <4>3. links'[a] = told /\ links[a].wire \o Batch(n) = w \o b
        BY <3>1
      <4> HIDE DEF told, w, b
      <4> QED BY <2>2, <4>1, <4>2, <4>3
    <3>3. /\ Len(b) \in Nat /\ Len(b) >= 1 /\ Len(w) \in Nat
          /\ \A k \in 1..Len(b) : 
               /\ b[k].seq = n
               /\ b[k].type = "event" /\ history[n] = "gameplay" =>
                    k < Len(b) /\ b[k + 1] = Sent("snapshot", n)
      BY <1>1, <2>1, BatchFollows
    <3>4. \A k \in 1..Len(w) :
            /\ w[k].seq <= Len(history)
            /\ w[k].type = "event" /\ history[w[k].seq] = "gameplay" =>
                 k < Len(w) /\ w[k + 1] = Sent("snapshot", w[k].seq)
      BY <2>1 DEF LinkFollows
    <3> HIDE DEF w, b
    <3> DEFINE x == w \o b
    <3>5. ASSUME NEW k \in 1..Len(x)
          PROVE  /\ x[k].seq <= Len(history)
                 /\ x[k].type = "event" /\ history[x[k].seq] = "gameplay" =>
                      k < Len(x) /\ x[k + 1] = Sent("snapshot", x[k].seq)
      <4>1. CASE k \in 1..Len(w)
        <5>1. x[k] = w[k] /\ w[k].seq <= Len(history)
          BY <3>2, <3>4, <4>1
        <5>2. ASSUME w[k].type = "event", history[w[k].seq] = "gameplay"
              PROVE  k < Len(x) /\ x[k + 1] = Sent("snapshot", w[k].seq)
          <6>1. k < Len(w) /\ w[k + 1] = Sent("snapshot", w[k].seq)
            BY <3>4, <4>1, <5>2
          <6>2. k + 1 \in 1..Len(w) /\ k < Len(x)
            BY <3>2, <3>3, <4>1, <6>1
          <6> QED BY <3>2, <6>1, <6>2
        <5> QED BY <5>1, <5>2
      <4>2. CASE k \notin 1..Len(w)
        <5>1. PICK i \in 1..Len(b) : k = Len(w) + i
          <6>1. k - Len(w) \in 1..Len(b) /\ k = Len(w) + (k - Len(w))
            BY <3>2, <3>3, <4>2
          <6> QED BY <6>1
        <5>2. x[k] = b[i] /\ b[i].seq = n
          BY <3>2, <3>3, <5>1
        <5>3. ASSUME b[i].type = "event", history[n] = "gameplay"
              PROVE  k < Len(x) /\ x[k + 1] = Sent("snapshot", n)
          <6>1. i < Len(b) /\ b[i + 1] = Sent("snapshot", n)
            BY <3>3, <5>3
          <6>2. i + 1 \in 1..Len(b) /\ k + 1 = Len(w) + (i + 1) /\ k < Len(x)
            BY <3>2, <3>3, <5>1, <6>1
          <6> QED BY <3>2, <6>1, <6>2
        <5> QED BY <1>1, <5>2, <5>3
      <4> QED BY <4>1, <4>2
    <3>6. \A m \in 1..Len(history) : m > n => m \in untold \ {n}
      <4>1. \A m \in 1..Len(history) : m > links[a].seen => m \in untold
        BY <2>1, <2>2 DEF LinkFollows
      <4> QED BY <1>1, <2>1, <2>2, <4>1
    <3>7. links'[a].wire = x
      BY <3>2
    <3> HIDE DEF x
    <3> QED BY <1>1, <3>2, <3>5, <3>6, <3>7 DEF LinkFollows
  <2>3. CASE ~(links[a].state = "open" /\ n > links[a].seen)
    <3>1. links'[a] = links[a]
      BY <2>3 DEF Tell
    <3>2. \A m \in 1..Len(history) :
            links[a].state = "open" /\ m > links[a].seen => m \in untold \ {n}
      BY <2>1, <2>3 DEF LinkFollows
    <3> QED BY <1>1, <2>1, <3>1, <3>2 DEF LinkFollows
  <2> QED BY <2>2, <2>3
<1> QED BY <1>1, <1>2 DEF LinksFollow

\* Joining replaces the messages by the current state.
LEMMA JoinFollows ==
  ASSUME LinkTypeOK(Purpose), LinksFollow, NEW a \in Attempt, Join(a)
  PROVE  LinksFollow'
<1>1. history' = history /\ untold' = untold /\ reads' = reads /\ Len(history) \in Nat
  BY DEF Join, LinkTypeOK
<1>2. ASSUME NEW b \in Attempt
      PROVE  LinkFollows(links[b])'
  <2>1. CASE b = a
    <3>1. links'[b] = [state |-> "open", seen |-> Len(history),
                       wire |-> <<Sent("snapshot", Len(history))>>]
      BY <2>1 DEF Join
    <3>2. links'[b].seen = Len(history) /\ links'[b].wire = <<Sent("snapshot", Len(history))>>
      BY <3>1
    <3>3. Sent("snapshot", Len(history)).seq = Len(history)
          /\ Sent("snapshot", Len(history)).type = "snapshot"
      BY DEF Sent
    <3> DEFINE m == Sent("snapshot", Len(history))
    <3> HIDE DEF m
    <3>4. Len(<<m>>) = 1 /\ <<m>>[1] = m
      OBVIOUS
    <3> QED BY <1>1, <3>2, <3>3, <3>4 DEF LinkFollows, m
  <2>2. CASE b # a /\ links[b].state = "open"
    <3>1. links'[b] = [links[b] EXCEPT !.state = "closing"]
      BY <2>2 DEF Join
    <3>2. LinkFollows([links[b] EXCEPT !.state = "closing"])
      BY EndsFollow
    <3> QED BY <1>1, <3>1, <3>2 DEF LinkFollows
  <2>3. CASE b # a /\ links[b].state # "open"
    <3>1. links'[b] = links[b] /\ LinkFollows(links[b])
      BY <2>3 DEF Join, LinksFollow
    <3> QED BY <1>1, <3>1 DEF LinkFollows
  <2> QED BY <2>1, <2>2, <2>3
<1> QED BY <1>1, <1>2 DEF LinksFollow

\* A read is answered with what is committed.
LEMMA AnswerFollows ==
  ASSUME LinkTypeOK(Purpose), LinksFollow, NEW r \in reads, AnswerRead(r)
  PROVE  LinksFollow'
<1>1. UNCHANGED <<history, untold, links>> /\ Len(history) \in Nat
  BY DEF AnswerRead, LinkTypeOK
<1>2. [r EXCEPT !.at = Len(history)].at = Len(history)
  BY DEF LinkTypeOK, Read
<1>3. \A q \in reads' : q.at <= Len(history)
  <2> DEFINE answer == [r EXCEPT !.at = Len(history)]
  <2>1. reads' = (reads \ {r}) \cup {answer} /\ answer.at = Len(history)
    BY <1>2 DEF AnswerRead
  <2>2. \A q \in reads : q.at <= Len(history)
    BY DEF LinksFollow
  <2> HIDE DEF answer
  <2> QED BY <1>1, <2>1, <2>2
<1> QED BY <1>1, <1>3 DEF LinksFollow, LinkFollows

\* What is committed stays, and is yet to be told.
LEMMA CommitFollows ==
  ASSUME LinkTypeOK(Purpose), LinksFollow, NEW kind \in {"gameplay", "management"},
         Committed(kind), UNCHANGED <<links, reads>>
  PROVE  /\ LinksFollow'
         /\ Len(history') = Len(history) + 1
         /\ \A n \in 1..Len(history) : history'[n] = history[n]
<1>1. /\ history \in Seq({"gameplay", "management"}) /\ Len(history) \in Nat
      /\ history' = Append(history, kind)
      /\ untold' = untold \cup {Len(history) + 1}
  BY DEF Committed, LinkTypeOK
<1>2. /\ Len(history') = Len(history) + 1
      /\ \A n \in 1..Len(history) : history'[n] = history[n]
  BY <1>1
<1>3. ASSUME NEW a \in Attempt
      PROVE  LinkFollows(links[a])'
  <2> DEFINE l == links[a]
  <2>1. /\ LinkFollows(l) /\ links'[a] = l
        /\ \A k \in 1..Len(l.wire) : l.wire[k] \in Message /\ l.wire[k].seq \in Nat
    BY LinkParts DEF LinksFollow
  <2> HIDE DEF l
  <2>2. l.seen <= Len(history')
    BY <1>1, <1>2, <2>1, LinkParts DEF LinkFollows, l
  <2>3. l.state = "open" => \A n \in 1..Len(history') : n > l.seen => n \in untold'
    BY <1>1, <1>2, <2>1 DEF LinkFollows
  <2>4. ASSUME NEW k \in 1..Len(l.wire)
        PROVE  /\ l.wire[k].seq <= Len(history')
               /\ l.wire[k].type = "event" /\ history'[l.wire[k].seq] = "gameplay" =>
                    k < Len(l.wire) /\ l.wire[k + 1] = Sent("snapshot", l.wire[k].seq)
    <3>1. l.wire[k].seq <= Len(history) /\ l.wire[k].seq \in Nat /\ l.wire[k] \in Message
      BY <2>1 DEF LinkFollows
    <3>2. l.wire[k].type = "event" => l.wire[k].seq \in 1..Len(history)
      BY <1>1, <3>1 DEF Message
    <3>3. l.wire[k].type = "event" => history'[l.wire[k].seq] = history[l.wire[k].seq]
      BY <1>2, <3>2
    <3>4. l.wire[k].seq <= Len(history')
      BY <1>1, <1>2, <3>1
    <3>5. l.wire[k].type = "event" /\ history[l.wire[k].seq] = "gameplay" =>
            k < Len(l.wire) /\ l.wire[k + 1] = Sent("snapshot", l.wire[k].seq)
      BY <2>1 DEF LinkFollows
    <3> QED BY <3>3, <3>4, <3>5
  <2> QED BY <2>1, <2>2, <2>3, <2>4 DEF LinkFollows
<1>4. untold' \subseteq 1..Len(history')
  <2>1. untold \subseteq 1..Len(history)
    BY DEF LinksFollow
  <2>2. ASSUME NEW n \in untold'
        PROVE  n \in 1..Len(history')
    <3>1. n \in 1..Len(history) \/ n = Len(history) + 1
      BY <1>1, <2>1
    <3> QED BY <1>1, <1>2, <3>1
  <2> QED BY <2>2
<1>5. \A r \in reads' : r.at <= Len(history')
  <2>1. \A r \in reads : r.at \in Int
    BY LinkAssumption DEF LinkTypeOK, Read, NotRead, Sequence
  <2> QED BY <1>1, <1>2, <2>1 DEF LinksFollow
<1> QED BY <1>2, <1>3, <1>4, <1>5 DEF LinksFollow

-----------------------------------------------------------------------------
(* What is on the way stays on the way.                                    *)

LEMMA ReadTimes ==
  ASSUME LinkTypeOK(Purpose), NEW r \in reads
  PROVE  r.at \in Int
BY LinkAssumption DEF LinkTypeOK, Read, NotRead, Sequence

LEMMA AnswerArrives ==
  ASSUME LinkTypeOK(Purpose), NEW r \in reads, AnswerRead(r),
         NEW n \in Int, n <= Len(history), Coming(n)
  PROVE  Coming(n)'
<1>1. PICK q \in reads : q.at = NotRead \/ q.at >= n
  BY DEF Coming
<1>2. CASE q # r
  <2>1. q \in reads'
    BY <1>2 DEF AnswerRead
  <2> QED BY <1>1, <2>1 DEF Coming
<1>3. CASE q = r
  <2> DEFINE answer == [r EXCEPT !.at = Len(history)]
  <2>1. answer.at = Len(history)
    BY DEF LinkTypeOK, Read
  <2>2. answer \in reads'
    BY DEF AnswerRead
  <2>3. Len(history) >= n
    BY DEF LinkTypeOK
  <2> HIDE DEF answer
  <2> QED BY <2>1, <2>2, <2>3 DEF Coming
<1> QED BY <1>2, <1>3

LEMMA TellArrives ==
  ASSUME LinkTypeOK(Purpose), LinksFollow, NEW n \in untold, Tell(n), NEW a \in Attempt
  PROVE  /\ \A m \in Int : Wired(a, m) => Wired(a, m)'
         /\ \A m \in Int : Told(a, m) => Told(a, m)'
         /\ \/ links'[a] = links[a]
            \/ links'[a].seen = n /\ Told(a, n)'
<1>1. CASE links[a].state = "open" /\ n > links[a].seen
  <2> DEFINE w == links[a].wire
             b == Batch(n)
             told == [links[a] EXCEPT !.seen = n, !.wire = links[a].wire \o Batch(n)]
  <2>1. links'[a] = told
    BY <1>1 DEF Tell
  <2>2. /\ n \in 1..Len(history) /\ told.seen = n /\ told.wire = w \o b
        /\ Len(w \o b) = Len(w) + Len(b)
        /\ \A k \in 1..Len(w) : (w \o b)[k] = w[k]
        /\ \A k \in 1..Len(b) : (w \o b)[Len(w) + k] = b[k]
    BY <1>1, ToldFollows
  <2>3. Len(w) \in Nat /\ Len(b) \in Nat /\ Len(b) >= 1 /\ b[1].seq = n
    BY <2>2, LinkParts, BatchFollows
  <2> DEFINE x == w \o b
  <2>4. links'[a].wire = x /\ links'[a].seen = n
    BY <2>1, <2>2
  <2>5. \A k \in 1..Len(w) : k \in 1..Len(x) /\ x[k] = w[k]
    <3> HIDE DEF w, b
    <3> QED BY <2>2, <2>3
  <2>6. Len(w) + 1 \in 1..Len(x) /\ x[Len(w) + 1].seq >= n
    <3>1. 1 \in 1..Len(b) /\ n \in Int
      BY <2>2, <2>3
    <3> HIDE DEF w, b
    <3> QED BY <2>2, <2>3, <3>1
  <2> HIDE DEF x, b, told
  <2>7. ASSUME NEW m \in Int, Wired(a, m) PROVE Wired(a, m)'
    <3>1. PICK k \in 1..Len(w) : w[k].type = "snapshot" /\ w[k].seq >= m
      BY <2>7 DEF Wired
    <3> QED BY <2>4, <2>5, <3>1 DEF Wired
  <2>8. ASSUME NEW m \in Int, Told(a, m) PROVE Told(a, m)'
    <3>1. PICK k \in 1..Len(w) : w[k].seq >= m
      BY <2>8 DEF Told
    <3> QED BY <2>4, <2>5, <3>1 DEF Told
  <2>9. Told(a, n)'
    BY <2>4, <2>6 DEF Told
  <2> QED BY <2>4, <2>7, <2>8, <2>9
<1>2. CASE ~(links[a].state = "open" /\ n > links[a].seen)
  <2>1. links'[a] = links[a]
    BY <1>2 DEF Tell
  <2> QED BY <2>1 DEF Wired, Told
<1> QED BY <1>1, <1>2

LEMMA JoinArrives ==
  ASSUME LinkTypeOK(Purpose), LinksFollow, NEW b \in Attempt, Join(b), NEW a \in Attempt
  PROVE  /\ \A m \in Int : m <= Len(history) /\ Wired(a, m) => Wired(a, m)'
         /\ \/ links'[a] = links[a]
            \/ links'[a].state # "open"
            \/ links'[a].seen = Len(history) /\ Told(a, Len(history))'
<1> DEFINE first == Sent("snapshot", Len(history))
           opened == [state |-> "open", seen |-> Len(history), wire |-> <<first>>]
<1>1. Len(history) \in Nat /\ first.seq = Len(history) /\ first.type = "snapshot"
  BY DEF LinkTypeOK, Sent
<1>2. CASE a = b
  <2>1. links'[a] = opened
    BY <1>2 DEF Join
  <2>2. opened.seen = Len(history) /\ opened.wire = <<first>>
    OBVIOUS
  <2> HIDE DEF first
  <2>3. Len(<<first>>) = 1 /\ 1 \in 1..1 /\ <<first>>[1] = first
    OBVIOUS
  <2> HIDE DEF opened
  <2>4. ASSUME NEW m \in Int, m <= Len(history) PROVE Wired(a, m)' /\ Told(a, m)'
    BY <1>1, <2>1, <2>2, <2>3, <2>4 DEF Wired, Told
  <2>5. Told(a, Len(history))'
    <3>1. history' = history
      BY DEF Join
    <3> QED BY <1>1, <2>1, <2>2, <2>3, <3>1 DEF Told
  <2> QED BY <1>1, <2>1, <2>2, <2>4, <2>5
<1>3. CASE a # b /\ links[a].state = "open"
  <2> DEFINE closing == [links[a] EXCEPT !.state = "closing"]
  <2>1. links'[a] = closing
    BY <1>3 DEF Join
  <2>2. closing.state = "closing" /\ closing.wire = links[a].wire
    BY LinkParts DEF Link
  <2> HIDE DEF closing
  <2> QED BY <2>1, <2>2 DEF Wired
<1>4. CASE a # b /\ links[a].state # "open"
  <2>1. links'[a] = links[a]
    BY <1>4 DEF Join
  <2> QED BY <2>1 DEF Wired
<1> QED BY <1>2, <1>3, <1>4

\* The server's steps take nothing back that is on the way.
LEMMA LinkTypes ==
  ASSUME ViewInv
  PROVE  LinkTypeOK(Purpose) /\ Len(history) \in Nat
<1>1. LinkTypeOK(Purpose)
  BY DEF ViewInv, TypeOK
<1> QED BY <1>1 DEF LinkTypeOK

LEMMA ServerArrives ==
  ASSUME ViewInv, LinksFollow, Server, NEW a \in Attempt
  PROVE  /\ Len(history') \in Nat /\ Len(history) \in Nat
         /\ Len(history') >= Len(history)
         /\ \A n \in 1..Len(history) : history'[n] = history[n]
         /\ \A n \in Int : n <= Len(history) /\ Coming(n) => Coming(n)'
         /\ \A n \in Int : n <= Len(history) /\ Wired(a, n) => Wired(a, n)'
         /\ \/ links'[a] = links[a] /\ \A n \in Int : Told(a, n) => Told(a, n)'
            \/ links'[a].state # "open"
            \/ \E n \in Int : links'[a].seen = n /\ Told(a, n)'
<1>1. LinkTypeOK(Purpose) /\ Len(history) \in Nat
  BY LinkTypes
<1>2. CASE Commit
  <2>1. PICK kind \in {"gameplay", "management"} : Committed(kind) /\ UNCHANGED <<links, reads>>
    BY <1>2 DEF Commit
  <2>2. /\ Len(history') = Len(history) + 1
        /\ \A n \in 1..Len(history) : history'[n] = history[n]
    BY <1>1, <2>1, CommitFollows
  <2>3. links' = links /\ reads' = reads
    BY <2>1
  <2> QED BY <1>1, <2>2, <2>3 DEF Coming, Wired, Told
<1>3. CASE \E n \in untold : Tell(n)
  <2>1. PICK n \in untold : Tell(n)
    BY <1>3
  <2>2. history' = history /\ reads' = reads
    BY <2>1 DEF Tell
  <2>3. /\ \A m \in Int : Wired(a, m) => Wired(a, m)'
        /\ \A m \in Int : Told(a, m) => Told(a, m)'
        /\ \/ links'[a] = links[a]
           \/ links'[a].seen = n /\ Told(a, n)'
    BY <1>1, <2>1, TellArrives
  <2>4. n \in Int
    BY <1>1 DEF LinksFollow
  <2>5. \A m \in Int : Coming(m) => Coming(m)'
    BY <2>2 DEF Coming
  <2>6. Len(history') >= Len(history)
    BY <1>1, <2>2
  <2> QED BY <1>1, <2>2, <2>3, <2>4, <2>5, <2>6
<1>4. CASE \E b \in Attempt : Join(b)
  <2>1. PICK b \in Attempt : Join(b)
    BY <1>4
  <2>2. history' = history /\ reads' = reads
    BY <2>1 DEF Join
  <2>3. /\ \A m \in Int : m <= Len(history) /\ Wired(a, m) => Wired(a, m)'
        /\ \/ links'[a] = links[a]
           \/ links'[a].state # "open"
           \/ links'[a].seen = Len(history) /\ Told(a, Len(history))'
    BY <1>1, <2>1, JoinArrives
  <2>4. \A m \in Int : Coming(m) => Coming(m)'
    BY <2>2 DEF Coming
  <2>5. links'[a] = links[a] => \A n \in Int : Told(a, n) => Told(a, n)'
    BY DEF Told
  <2>6. PICK n \in Int : n = Len(history)
    BY <1>1
  <2>7. Told(a, Len(history))' => Told(a, n)'
    BY <2>2, <2>6
  <2>8. Len(history') >= Len(history)
    BY <1>1, <2>2
  <2> QED BY <1>1, <2>2, <2>3, <2>4, <2>5, <2>6, <2>7, <2>8
<1>5. CASE \E r \in reads : AnswerRead(r)
  <2>1. PICK r \in reads : AnswerRead(r)
    BY <1>5
  <2>2. history' = history /\ links' = links
    BY <2>1 DEF AnswerRead
  <2>3. \A n \in Int : n <= Len(history) /\ Coming(n) => Coming(n)'
    BY <1>1, <2>1, AnswerArrives
  <2>4. Len(history') >= Len(history)
    BY <1>1, <2>2
  <2> QED BY <1>1, <2>2, <2>3, <2>4 DEF Wired, Told
<1> QED BY <1>2, <1>3, <1>4, <1>5 DEF Server, ServerStep

LEMMA ServerFollows ==
  ASSUME ViewInv, LinksFollow, Server
  PROVE  LinksFollow'
<1>1. LinkTypeOK(Purpose)
  BY DEF ViewInv, TypeOK
<1>2. CASE Commit
  BY <1>1, <1>2, CommitFollows DEF Commit
<1>3. CASE ServerStep
  BY <1>1, <1>3, TellFollows, JoinFollows, AnswerFollows DEF ServerStep
<1> QED BY <1>2, <1>3 DEF Server

LEMMA ServerReads ==
  ASSUME ReadsInPhase, LinkTypeOK(Purpose), Server
  PROVE  ReadsInPhase'
<1>1. UNCHANGED <<attempt, phase>>
  BY DEF Server
<1>2. CASE reads' = reads
  BY <1>1, <1>2 DEF ReadsInPhase, Heard
<1>3. CASE \E r \in reads : AnswerRead(r)
  <2>1. PICK r \in reads : AnswerRead(r)
    BY <1>3
  <2> DEFINE answer == [r EXCEPT !.at = Len(history)]
  <2>2. reads' = (reads \ {r}) \cup {answer} /\ answer.purpose = r.purpose
    BY <2>1 DEF AnswerRead, LinkTypeOK, Read
  <2> HIDE DEF answer
  <2>3. phase \notin {"away", "joining", "disconnected"}
    BY <2>1 DEF ReadsInPhase
  <2>4. phase = "loading" => reads' = {answer} /\ answer.purpose = "first"
    BY <2>1, <2>2 DEF ReadsInPhase
  <2>5. Heard => \A q \in reads' : q.purpose # "first"
    BY <2>1, <2>2 DEF ReadsInPhase
  <2> QED BY <1>1, <2>3, <2>4, <2>5 DEF ReadsInPhase, Heard
<1>4. reads' = reads \/ \E r \in reads : AnswerRead(r)
  BY DEF Server, ServerStep, Commit, Tell, Join
<1> QED BY <1>2, <1>3, <1>4

\* The numbers on the screen, in range.
LEMMA NumbersFollow ==
  ASSUME ViewInv, NumberFollows
  PROVE  /\ Len(history) \in Nat
         /\ sequence \in Int /\ snapshotSequence \in Int /\ board \in Int /\ shown \in Int
         /\ sequence <= Len(history) /\ snapshotSequence <= Len(history)
         /\ snapshotSequence <= sequence /\ board <= sequence /\ shown <= sequence
         /\ sequence >= -1 /\ board >= -1
<1>1. Len(history) \in Nat
  BY LinkTypes
<1>2. /\ sequence >= snapshotSequence /\ sequence >= shown
      /\ board = snapshotSequence \/ board = NoState
      /\ sequence <= Len(history)
  BY DEF ViewInv, ScreenFollows, NumberFollows
<1>3. NoState = -1
  BY DEF NoState
<1> QED BY <1>1, <1>2, <1>3, Numbers DEF ViewInv

LEMMA ServerSettles ==
  ASSUME ViewInv, SettleInv, Server
  PROVE  SettleInv'
<1> USE DEF SettleInv
<1>1. UNCHANGED <<attempt, phase, sequence, snapshotSequence, board, shown, log>>
  BY DEF Server, viewVars
<1>2. Len(history') \in Nat /\ Len(history') >= Len(history)
      /\ LinkTypeOK(Purpose)
  <2>1. CASE \E a : a \in Attempt
    BY <2>1, ServerArrives DEF ViewInv, TypeOK
  <2>2. CASE ~\E a : a \in Attempt
    <3>1. LinkTypeOK(Purpose) /\ Len(history) \in Nat
      BY LinkTypes
    <3>2. Len(history') = Len(history) \/ Len(history') = Len(history) + 1
      <4>1. CASE Commit
        BY <3>1, <4>1, CommitFollows DEF Commit
      <4>2. CASE ServerStep
        BY <4>2 DEF ServerStep, Tell, Join, AnswerRead
      <4> QED BY <4>1, <4>2 DEF Server
    <3> QED BY <3>1, <3>2
  <2> QED BY <2>1, <2>2
<1>3. LinksFollow' /\ ReadsInPhase'
  BY <1>2, ServerFollows, ServerReads
<1>4. Heard' = Heard /\ Active' = Active /\ (Active => attempt \in Attempt) /\ (Heard => Active)
  BY <1>1 DEF Heard, Active, ViewInv, ScreenFollows
<1>5. /\ sequence <= Len(history) /\ sequence \in Int /\ snapshotSequence \in Int
      /\ snapshotSequence <= Len(history) /\ Len(history) \in Nat
  BY NumbersFollow
<1>6. sequence' <= Len(history')
  BY <1>1, <1>2, <1>5
<1>7. CASE ~Active
  BY <1>1, <1>3, <1>4, <1>6, <1>7 DEF NumberFollows, BoardFollows, ShownFollows, ListFollows
<1>8. CASE Active
  <2>1. /\ \A n \in 1..Len(history) : history'[n] = history[n]
        /\ \A n \in Int : n <= Len(history) /\ Coming(n) => Coming(n)'
        /\ \A n \in Int : n <= Len(history) /\ Wired(attempt, n) => Wired(attempt, n)'
        /\ \/ /\ links'[attempt] = links[attempt]
              /\ \A n \in Int : Told(attempt, n) => Told(attempt, n)'
           \/ links'[attempt].state # "open"
           \/ \E n \in Int : links'[attempt].seen = n /\ Told(attempt, n)'
    <3>1. PICK a \in Attempt : a = attempt
      BY <1>4, <1>8
    <3>2. /\ \A n \in 1..Len(history) : history'[n] = history[n]
          /\ \A n \in Int : n <= Len(history) /\ Coming(n) => Coming(n)'
          /\ \A n \in Int : n <= Len(history) /\ Wired(a, n) => Wired(a, n)'
          /\ \/ /\ links'[a] = links[a]
                /\ \A n \in Int : Told(a, n) => Told(a, n)'
             \/ links'[a].state # "open"
             \/ \E n \in Int : links'[a].seen = n /\ Told(a, n)'
      BY ServerArrives
    <3> QED BY <1>1, <3>1, <3>2
  <2>2. NumberFollows'
    <3>1. ASSUME Heard', (links[attempt].state)' = "open", (links[attempt].seen)' > sequence'
          PROVE  Coming(links[attempt].seen)' \/ Told(attempt, links[attempt].seen)'
      <4>1. CASE links'[attempt] = links[attempt] /\ \A n \in Int : Told(attempt, n) => Told(attempt, n)'
        <5> DEFINE n == links[attempt].seen
        <5>1. n \in Int /\ n <= Len(history) /\ n' = n
          BY <1>1, <1>2, <1>4, <1>8, <4>1, LinkParts DEF LinksFollow, LinkFollows
        <5>2. Coming(n) \/ Told(attempt, n)
          BY <1>1, <1>4, <3>1, <4>1 DEF NumberFollows
        <5> HIDE DEF n
        <5>3. PICK m \in Int : m = n
          BY <5>1
        <5>4. Coming(m)' \/ Told(attempt, m)'
          BY <2>1, <4>1, <5>1, <5>2, <5>3
        <5>5. m = n'
          BY <5>1, <5>3
        <5>6. Coming(n)' \/ Told(attempt, n)'
          BY <5>4, <5>5
        <5> QED BY <5>6 DEF n
      <4>2. CASE \E n \in Int : links'[attempt].seen = n /\ Told(attempt, n)'
        <5>1. PICK n \in Int : links'[attempt].seen = n /\ Told(attempt, n)'
          BY <4>2
        <5> QED BY <1>1, <5>1
      <4> QED BY <1>1, <2>1, <3>1, <4>1, <4>2
    <3> QED BY <1>6, <3>1 DEF NumberFollows
  <2>3. BoardFollows'
    <3>1. ASSUME Heard', NEW n \in 1..Len(history'), history'[n] = "gameplay", board' < n, n <= sequence'
          PROVE  Coming(n)' \/ Wired(attempt, n)'
      <4>1. n \in 1..Len(history) /\ n \in Int /\ n <= Len(history)
        BY <1>1, <1>2, <1>5, <3>1
      <4>2. Coming(n) \/ Wired(attempt, n)
        BY <1>1, <1>4, <2>1, <3>1, <4>1 DEF BoardFollows
      <4> QED BY <1>1, <2>1, <4>1, <4>2
    <3> QED BY <3>1 DEF BoardFollows
  <2>4. ShownFollows'
    <3>1. ASSUME Active', shown' < sequence'
          PROVE  Heard' /\ Wired(attempt, snapshotSequence)'
      <4>1. Heard /\ Wired(attempt, snapshotSequence)
        BY <1>1, <1>4, <3>1 DEF ShownFollows
      <4>2. PICK n \in Int : n = snapshotSequence
        BY <1>5
      <4>3. Wired(attempt, n)'
        BY <1>5, <2>1, <4>1, <4>2
      <4>4. Wired(attempt, snapshotSequence)'
        BY <1>1, <4>2, <4>3
      <4> QED BY <1>4, <4>1, <4>4
    <3> QED BY <3>1 DEF ShownFollows
  <2>5. ListFollows'
    <3>1. \A i \in log' : i <= sequence' /\ Cardinality({j \in log' : j > i}) < LogLength
      BY <1>1, <1>8 DEF ListFollows
    <3>2. ASSUME NEW i \in 1..Len(history'), i <= sequence', i > sequence' - LogLength, i \notin log'
          PROVE  Coming(i)'
      <4>1. i \in 1..Len(history) /\ i \in Int /\ i <= Len(history)
        BY <1>1, <1>2, <1>5, <3>2
      <4>2. Coming(i)
        BY <1>1, <1>8, <3>2, <4>1 DEF ListFollows
      <4> QED BY <2>1, <4>1, <4>2
    <3> QED BY <3>1, <3>2 DEF ListFollows
  <2> QED BY <1>3, <2>2, <2>3, <2>4, <2>5
<1> QED BY <1>7, <1>8

-----------------------------------------------------------------------------
(* What the browser asks for, and what it takes.                           *)

\* What is asked for is on the way.
LEMMA AskBrings ==
  ASSUME LinksFollow, Len(history) \in Nat, NEW purpose, NEW a, Ask(purpose, a)
  PROVE  /\ \A n : Coming(n)'
         /\ reads \subseteq reads'
         /\ \A r \in reads' : r \in reads \/ (r.purpose = purpose /\ r.at = NotRead)
         /\ \A r \in reads' : r.at <= Len(history)
         /\ reads = {} => \A r, q \in reads' : r = q
<1>1. PICK slot \in FreeSlots :
        reads' = reads \cup {[slot |-> slot, purpose |-> purpose, attempt |-> a, at |-> NotRead]}
  BY DEF Ask
<1> DEFINE asked == [slot |-> slot, purpose |-> purpose, attempt |-> a, at |-> NotRead]
<1>2. asked.purpose = purpose /\ asked.at = NotRead /\ reads' = reads \cup {asked}
  BY <1>1
<1> HIDE DEF asked
<1>3. NotRead <= Len(history)
  BY DEF NotRead
<1>4. \A n : Coming(n)'
  BY <1>2 DEF Coming
<1>5. \A r \in reads' : r.at <= Len(history)
  BY <1>2, <1>3 DEF LinksFollow
<1>6. ASSUME reads = {}, NEW r \in reads', NEW q \in reads'
      PROVE  r = q
  <2>1. reads' = {asked}
    BY <1>2, <1>6
  <2> QED BY <2>1
<1>7. reads \subseteq reads' /\ \A r \in reads' : r \in reads \/ (r.purpose = purpose /\ r.at = NotRead)
  BY <1>2
<1> QED BY <1>4, <1>5, <1>6, <1>7

\* What taking the first message leaves.
LEMMA TakenLeaves ==
  ASSUME LinkTypeOK(Purpose), LinksFollow, NEW a \in Attempt, Taken(a), links[a].wire # <<>>,
         UNCHANGED <<history, untold>>
  PROVE  /\ Head(links[a].wire) = links[a].wire[1] /\ 1 \in 1..Len(links[a].wire)
         /\ Head(links[a].wire) \in Message
         /\ links'[a].state = links[a].state /\ links'[a].seen = links[a].seen
         /\ \A n \in Int : Wired(a, n) => 
              Wired(a, n)' \/ (Head(links[a].wire).type = "snapshot" /\ Head(links[a].wire).seq >= n)
         /\ \A n \in Int : Told(a, n) => Told(a, n)' \/ Head(links[a].wire).seq >= n
         /\ \A m, n \in Int :
              Head(links[a].wire) = Sent("event", n) /\ history[n] = "gameplay" /\ m <= n =>
                Wired(a, m)'
         /\ \A b \in Attempt : LinkFollows(links[b])'
<1> DEFINE w == links[a].wire
           left == [links[a] EXCEPT !.wire = Tail(links[a].wire)]
<1>1. links[a] \in Link /\ w \in Seq(Message) /\ w # <<>> /\ Len(w) \in Nat /\ LinkFollows(links[a])
  BY LinkParts DEF LinksFollow
<1>2. /\ links'[a] = left
      /\ \A b \in Attempt : b # a => links'[b] = links[b]
  BY DEF Taken, LinkTypeOK
<1>3. left.state = links[a].state /\ left.seen = links[a].seen /\ left.wire = Tail(w)
  BY <1>1 DEF Link
<1>4. /\ Head(w) = w[1] /\ 1 \in 1..Len(w) /\ w[1] \in Message
      /\ Len(Tail(w)) = Len(w) - 1
      /\ \A k \in 1..Len(w) : k # 1 => k - 1 \in 1..Len(Tail(w)) /\ Tail(w)[k - 1] = w[k]
  <2> HIDE DEF w
  <2> QED BY <1>1
<1> DEFINE t == Tail(w)
<1>5. links'[a].wire = t
  BY <1>2, <1>3
<1>6. \A k \in 1..Len(w) : k # 1 => k - 1 \in 1..Len(t) /\ t[k - 1] = w[k]
  BY <1>4
<1>7. \A b \in Attempt : LinkFollows(links[b])'
  <2>1. LinkFollows(left)
    BY EndsFollow
  <2> HIDE DEF left
  <2>2. LinkFollows(links[a])'
    BY <1>2, <2>1 DEF LinkFollows
  <2>3. ASSUME NEW b \in Attempt, b # a PROVE LinkFollows(links[b])'
    BY <1>2, <2>3 DEF LinkFollows, LinksFollow
  <2> QED BY <2>2, <2>3
<1>8. ASSUME NEW m \in Int, NEW n \in Int, w[1] = Sent("event", n), history[n] = "gameplay",
             m <= n
      PROVE  Wired(a, m)'
  <2>1. w[1].type = "event" /\ w[1].seq = n
    BY <1>8 DEF Sent
  <2>2. 1 < Len(w) /\ w[1 + 1] = Sent("snapshot", n)
    BY <1>1, <1>4, <1>8, <2>1 DEF LinkFollows
  <2>3. 2 \in 1..Len(w) /\ w[2] = Sent("snapshot", n)
    BY <1>1, <2>2
  <2>4. 2 - 1 \in 1..Len(t) /\ t[2 - 1] = w[2]
    BY <1>6, <2>3
  <2>5. 1 \in 1..Len(t) /\ t[1].type = "snapshot" /\ t[1].seq >= m
    BY <1>8, <2>3, <2>4 DEF Sent
  <2> HIDE DEF t
  <2> QED BY <1>5, <2>5 DEF Wired
<1>9. ASSUME NEW n \in Int, Wired(a, n)
      PROVE  Wired(a, n)' \/ (w[1].type = "snapshot" /\ w[1].seq >= n)
  <2>1. PICK k \in 1..Len(w) : w[k].type = "snapshot" /\ w[k].seq >= n
    BY <1>9 DEF Wired
  <2> HIDE DEF t, w
  <2>2. CASE k = 1
    BY <2>1, <2>2
  <2>3. CASE k # 1
    <3>1. PICK j \in 1..Len(t) : t[j] = w[k]
      BY <1>6, <2>3
    <3>2. t[j].type = "snapshot" /\ t[j].seq >= n
      BY <2>1, <3>1
    <3> QED BY <1>5, <3>2 DEF Wired
  <2> QED BY <2>2, <2>3
<1>10. ASSUME NEW n \in Int, Told(a, n)
       PROVE  Told(a, n)' \/ w[1].seq >= n
  <2>1. PICK k \in 1..Len(w) : w[k].seq >= n
    BY <1>10 DEF Told
  <2> HIDE DEF t, w
  <2>2. CASE k = 1
    BY <2>1, <2>2
  <2>3. CASE k # 1
    <3>1. PICK j \in 1..Len(t) : t[j] = w[k]
      BY <1>6, <2>3
    <3>2. t[j].seq >= n
      BY <2>1, <3>1
    <3> QED BY <1>5, <3>2 DEF Told
  <2> QED BY <2>2, <2>3
<1>11. links'[a].state = links[a].state /\ links'[a].seen = links[a].seen
  BY <1>2, <1>3
<1> HIDE DEF t, left
<1> QED BY <1>4, <1>7, <1>8, <1>9, <1>10, <1>11

-----------------------------------------------------------------------------
(* The list.                                                               *)

\* The list of the latest events holds the latest LogLength numbers of what it
\* is made from, and no more.
LEMMA RecentHolds ==
  ASSUME NEW S \in SUBSET (1..MaxSequence), NEW q \in Int, \A i \in S : i <= q
  PROVE  /\ Recent(S) \subseteq S
         /\ \A i \in Recent(S) : Cardinality({j \in Recent(S) : j > i}) < LogLength
         /\ \A i \in S : i > q - LogLength => i \in Recent(S)
<1>1. Recent(S) \subseteq S
  BY DEF Recent
<1>2. IsFiniteSet(1..MaxSequence) /\ MaxSequence \in Nat /\ LogLength \in Nat
  BY LinkAssumption, LogAssumption, FS_Interval
<1>3. ASSUME NEW T \in SUBSET S
      PROVE  IsFiniteSet(T)
  <2>1. T \subseteq 1..MaxSequence
    OBVIOUS
  <2> QED BY <1>2, <2>1, FS_Subset
<1>4. ASSUME NEW i \in Recent(S)
      PROVE  Cardinality({j \in Recent(S) : j > i}) < LogLength
  <2> DEFINE few == {j \in Recent(S) : j > i}
             all == {j \in S : j > i}
  <2>1. few \subseteq all /\ few \in SUBSET S /\ all \in SUBSET S
    BY <1>1
  <2>2. Cardinality(all) < LogLength
    BY <1>4 DEF Recent
  <2> HIDE DEF few, all
  <2>3. IsFiniteSet(all) /\ IsFiniteSet(few)
    BY <1>3, <2>1
  <2>4. Cardinality(few) <= Cardinality(all)
    BY <2>1, <2>3, FS_Subset
  <2>5. Cardinality(few) \in Nat /\ Cardinality(all) \in Nat
    BY <2>3, FS_CardinalityType
  <2>6. Cardinality(few) < LogLength
    BY <1>2, <2>2, <2>4, <2>5
  <2> QED BY <2>6 DEF few
<1>5. ASSUME NEW i \in S, i > q - LogLength
      PROVE  i \in Recent(S)
  <2> DEFINE all == {j \in S : j > i}
  <2>1. i \in Int /\ i <= q
    OBVIOUS
  <2>2. all \subseteq (i + 1)..q
    <3>1. ASSUME NEW j \in all PROVE j \in (i + 1)..q
      <4>1. j \in S /\ j > i /\ j \in Int /\ j <= q
        BY <1>2
      <4> QED BY <2>1, <4>1
    <3> QED BY <3>1
  <2>3. IsFiniteSet((i + 1)..q) /\ Cardinality((i + 1)..q) <= q - i
    <3>1. i + 1 \in Int
      BY <2>1
    <3>2. /\ IsFiniteSet((i + 1)..q)
          /\ Cardinality((i + 1)..q) = IF i + 1 > q THEN 0 ELSE q - (i + 1) + 1
      BY <3>1, FS_Interval
    <3> QED BY <2>1, <3>2
  <2> HIDE DEF all
  <2>4. Cardinality(all) <= Cardinality((i + 1)..q) /\ IsFiniteSet(all)
    BY <2>2, <2>3, FS_Subset
  <2>5. Cardinality(all) \in Nat /\ Cardinality((i + 1)..q) \in Nat
    BY <2>3, <2>4, FS_CardinalityType
  <2>6. Cardinality(all) < LogLength
    BY <1>2, <1>5, <2>1, <2>3, <2>4, <2>5
  <2> QED BY <2>6 DEF Recent, all
<1> QED BY <1>1, <1>4, <1>5

-----------------------------------------------------------------------------
(* The browser's steps keep what settles.                                  *)

\* What is among the latest is so among fewer.
LEMMA StillRecent ==
  ASSUME NEW i \in Int, NEW p \in Int, NEW q \in Int, q >= p, i > q - LogLength
  PROVE  i > p - LogLength
BY LogAssumption

LEMMA OpenSettles ==
  ASSUME ViewInv, SettleInv, Open
  PROVE  SettleInv'
<1> USE DEF SettleInv
<1>1. LinkTypeOK(Purpose) /\ Len(history) \in Nat
  BY LinkTypes
<1>2. /\ Ask("first", attempt + 1) /\ phase \in {"away", "disconnected"}
      /\ phase' = "loading" /\ UNCHANGED <<history, untold, links>>
      /\ sequence' = -1 /\ shown' = -1 /\ log' = {}
  BY DEF Open, NoState
<1>3. /\ \A r \in reads' : r \in reads \/ (r.purpose = "first" /\ r.at = NotRead)
      /\ \A r \in reads' : r.at <= Len(history)
      /\ reads = {} => \A r, q \in reads' : r = q
  BY <1>1, <1>2, AskBrings
<1>4. reads = {}
  BY <1>2 DEF ReadsInPhase
<1>5. LinksFollow'
  BY <1>2, <1>3 DEF LinksFollow, LinkFollows
<1>6. ~Heard' /\ ReadsInPhase'
  BY <1>2, <1>3, <1>4 DEF ReadsInPhase, Heard
<1>7. NumberFollows' /\ BoardFollows' /\ ShownFollows'
  BY <1>1, <1>2, <1>6 DEF NumberFollows, BoardFollows, ShownFollows
<1>8. ListFollows'
  <2>1. \A i \in 1..Len(history') : ~(i <= sequence')
    BY <1>1, <1>2
  <2> QED BY <1>2, <2>1 DEF ListFollows
<1> QED BY <1>5, <1>6, <1>7, <1>8

LEMMA DisconnectSettles ==
  ASSUME ViewInv, SettleInv, Disconnect
  PROVE  SettleInv'
<1> USE DEF SettleInv
<1>1. LinkTypeOK(Purpose) /\ Len(history) \in Nat
  BY LinkTypes
<1>2. /\ phase' = "disconnected" /\ reads' = {} /\ Hang(attempt) /\ attempt \in Attempt
      /\ UNCHANGED <<history, untold, attempt, sequence>>
  BY DEF Disconnect, ViewInv, ScreenFollows
<1>3. LinksFollow'
  <2> DEFINE hung == [links[attempt] EXCEPT !.state = "closed", !.wire = <<>>]
  <2>1. PICK a \in Attempt : a = attempt
    BY <1>2
  <2>2. LinkFollows(hung)
    BY <1>1, <2>1, EndsFollow
  <2>3. links'[a] = hung /\ \A b \in Attempt : b # a => links'[b] = links[b]
    BY <1>1, <1>2, <2>1 DEF Hang, LinkTypeOK
  <2> HIDE DEF hung
  <2>4. LinkFollows(links[a])'
    BY <1>2, <2>2, <2>3 DEF LinkFollows
  <2>5. ASSUME NEW b \in Attempt, b # a PROVE LinkFollows(links[b])'
    BY <1>2, <2>3, <2>5 DEF LinkFollows, LinksFollow
  <2> QED BY <1>2, <2>4, <2>5 DEF LinksFollow
<1>4. ~Heard' /\ ~Active' /\ ReadsInPhase'
  BY <1>2 DEF Heard, Active, ReadsInPhase
<1> QED BY <1>2, <1>3, <1>4 DEF NumberFollows, BoardFollows, ShownFollows, ListFollows

LEMMA RegisterSettles ==
  ASSUME ViewInv, SettleInv, Register
  PROVE  SettleInv'
<1> USE DEF SettleInv
<1>1. LinkTypeOK(Purpose) /\ Len(history) \in Nat
  BY LinkTypes
<1>2. /\ Ask("final", attempt) /\ phase = "joining" /\ phase' = "catching up"
      /\ UNCHANGED <<history, untold, links, attempt, sequence, snapshotSequence, board, shown, log>>
  BY DEF Register, viewVars
<1>3. /\ \A n : Coming(n)'
      /\ \A r \in reads' : r \in reads \/ (r.purpose = "final" /\ r.at = NotRead)
      /\ \A r \in reads' : r.at <= Len(history)
  BY <1>1, <1>2, AskBrings
<1>4. reads = {}
  BY <1>2 DEF ReadsInPhase
<1>5. LinksFollow'
  BY <1>2, <1>3 DEF LinksFollow, LinkFollows
<1>6. ReadsInPhase'
  BY <1>2, <1>3, <1>4 DEF ReadsInPhase, Heard
<1>7. NumberFollows' /\ BoardFollows'
  <2>1. Coming(links[attempt].seen)'
    BY <1>3
  <2>2. ASSUME NEW n PROVE Coming(n)'
    BY <1>3
  <2> QED BY <1>2, <2>1, <2>2 DEF NumberFollows, BoardFollows
<1>8. ~(shown < sequence)
  BY <1>2 DEF ShownFollows, Active, Heard
<1>9. ShownFollows'
  BY <1>2, <1>8 DEF ShownFollows
<1>10. ListFollows'
  BY <1>2, <1>3 DEF ListFollows, Active
<1> QED BY <1>5, <1>6, <1>7, <1>9, <1>10

LEMMA UnheardSettles ==
  ASSUME ViewInv, SettleInv, Unheard
  PROVE  SettleInv'
<1> USE DEF SettleInv
<1>1. LinkTypeOK(Purpose) /\ Len(history) \in Nat
  BY LinkTypes
<1>2. /\ phase = "joining" /\ Taken(attempt) /\ links[attempt].wire # <<>> /\ attempt \in Attempt
      /\ UNCHANGED <<history, untold, reads, attempt, phase,
                     sequence, snapshotSequence, board, shown, log>>
  BY DEF Unheard, viewVars, ViewInv, ScreenFollows, Active
<1>3. \A b \in Attempt : LinkFollows(links[b])'
  BY <1>1, <1>2, TakenLeaves
<1>4. LinksFollow' /\ ReadsInPhase' /\ ~Heard'
  BY <1>2, <1>3 DEF LinksFollow, ReadsInPhase, Heard
<1>5. NumberFollows' /\ BoardFollows'
  BY <1>2, <1>4 DEF NumberFollows, BoardFollows
<1>6. ~(shown < sequence)
  BY <1>2 DEF ShownFollows, Active, Heard
<1>7. ShownFollows' /\ ListFollows'
  BY <1>2, <1>6 DEF ShownFollows, ListFollows, Active, Coming
<1> QED BY <1>4, <1>5, <1>7

\* The screen once a read has been shown, and what was behind that is not.
LEMMA RefreshSettles ==
  ASSUME ViewInv, SettleInv, NEW r \in reads, Refresh(r)
  PROVE  SettleInv'
<1> USE DEF SettleInv
<1> DEFINE n == r.at
<1>1. LinkTypeOK(Purpose) /\ Len(history) \in Nat /\ attempt \in Attempt /\ Active
  BY LinkTypes DEF Refresh, ViewInv, ScreenFollows
<1>2. n \in Sequence /\ n \in Nat /\ n <= Len(history)
  <2>1. n \in Sequence
    BY <1>1 DEF Refresh, LinkTypeOK, Read
  <2>2. n <= Len(history)
    BY DEF LinksFollow
  <2> QED BY <2>1, <2>2, LinkAssumption DEF Sequence
<1>3. /\ reads' = reads \ {r} /\ ShowRead(n)
      /\ UNCHANGED <<history, untold, attempt>>
  BY DEF Refresh
<1> HIDE DEF n
<1>4. /\ sequence' = Later(sequence, n) /\ log' = Recent(log \cup 1..n)
      /\ snapshotSequence' = IF n >= snapshotSequence THEN n ELSE snapshotSequence
      /\ board' = IF n >= snapshotSequence \/ board = NoState THEN n ELSE board
      /\ shown' = IF n >= snapshotSequence \/ board = NoState THEN sequence' ELSE shown
  BY <1>3 DEF ShowRead, IsFresh, ReadLog
<1>5. /\ sequence \in Int /\ snapshotSequence \in Int /\ board \in Int /\ shown \in Int
      /\ sequence <= Len(history) /\ snapshotSequence <= sequence
      /\ board # NoState => board = snapshotSequence
      /\ board = NoState => snapshotSequence = NoState
      /\ NoState = -1
  BY <1>1, NumbersFollow DEF ViewInv, ScreenFollows, NoState
<1>11. sequence' <= Len(history') /\ sequence' >= n /\ sequence' >= sequence /\ sequence' \in Int
  BY <1>2, <1>3, <1>4, <1>5 DEF Later
<1>9. ASSUME NEW m \in Int, Coming(m), m > n
      PROVE  Coming(m)'
  <2>1. PICK q \in reads : q.at = NotRead \/ q.at >= m
    BY <1>9 DEF Coming
  <2>2. q # r
    BY <1>2, <1>9, <2>1 DEF n, NotRead
  <2> QED BY <1>3, <2>1, <2>2 DEF Coming
<1>10. ListFollows'
  <2> DEFINE S == log \cup 1..n
  <2>1. /\ S \in SUBSET (1..MaxSequence) /\ sequence' \in Int
        /\ \A i \in S : i <= sequence'
        /\ sequence' >= sequence /\ sequence' >= n
    <3>1. log \subseteq 1..MaxSequence /\ n <= MaxSequence /\ MaxSequence \in Nat
      <4>1. log \subseteq 1..MaxSequence
        BY DEF ViewInv, TypeOK
      <4> QED BY <1>2, <4>1, LinkAssumption DEF Sequence
    <3>2. \A i \in log : i <= sequence
      BY <1>1 DEF ListFollows
    <3>3. sequence' \in Int /\ sequence' >= sequence /\ sequence' >= n
      BY <1>2, <1>4, <1>5 DEF Later
    <3>4. ASSUME NEW i \in S PROVE i \in 1..MaxSequence /\ i <= sequence'
      BY <1>2, <1>5, <3>1, <3>2, <3>3
    <3> QED BY <3>3, <3>4
  <2>2. log' = Recent(S)
    BY <1>4
  <2> HIDE DEF S
  <2>3. /\ Recent(S) \subseteq S
        /\ \A i \in Recent(S) : Cardinality({j \in Recent(S) : j > i}) < LogLength
        /\ \A i \in S : i > sequence' - LogLength => i \in Recent(S)
    BY <2>1, RecentHolds
  <2>4. \A i \in log' : i <= sequence' /\ Cardinality({j \in log' : j > i}) < LogLength
    BY <2>1, <2>2, <2>3
  <2>5. ASSUME NEW i \in 1..Len(history'), i <= sequence', i > sequence' - LogLength, i \notin log'
        PROVE  Coming(i)'
    <3>1. i \notin S
      BY <2>2, <2>3, <2>5
    <3>2. i \in 1..Len(history) /\ i \in Int /\ i \notin log /\ i > n
      BY <1>1, <1>2, <1>3, <3>1 DEF S
    <3>3. i <= sequence
      BY <1>2, <1>4, <1>5, <2>5, <3>2 DEF Later
    <3>4. i > sequence - LogLength
      <4>1. PICK p \in Int, q \in Int : p = sequence /\ q = sequence' /\ q >= p
        BY <1>5, <1>11
      <4>2. i \in Int /\ i > q - LogLength
        BY <2>5, <3>2, <4>1
      <4>3. i > p - LogLength
        BY <4>1, <4>2, StillRecent
      <4> QED BY <4>1, <4>3
    <3>5. Coming(i)
      BY <1>1, <3>2, <3>3, <3>4 DEF ListFollows
    <3> QED BY <1>9, <3>2, <3>5
  <2> QED BY <2>4, <2>5 DEF ListFollows
<1>6. CASE phase = "loading"
  <2>1. r.purpose = "first" /\ reads = {r}
    BY <1>6 DEF ReadsInPhase
  <2>2. phase' = "joining" /\ Dial(attempt) /\ reads' = {}
    BY <1>3, <2>1 DEF Refresh
  <2>3. LinksFollow'
    <3> DEFINE dialled == [links[attempt] EXCEPT !.state = "joining"]
    <3>1. PICK a \in Attempt : a = attempt
      BY <1>1
    <3>2. LinkFollows(dialled)
      BY <1>1, <3>1, EndsFollow
    <3>3. links'[a] = dialled /\ \A b \in Attempt : b # a => links'[b] = links[b]
      BY <1>1, <2>2, <3>1 DEF Dial, LinkTypeOK
    <3> HIDE DEF dialled
    <3>4. LinkFollows(links[a])'
      BY <1>3, <3>2, <3>3 DEF LinkFollows
    <3>5. ASSUME NEW b \in Attempt, b # a PROVE LinkFollows(links[b])'
      BY <1>3, <3>3, <3>5 DEF LinkFollows, LinksFollow
    <3> QED BY <1>3, <2>2, <3>4, <3>5 DEF LinksFollow
  <2>4. ReadsInPhase' /\ ~Heard'
    BY <2>2 DEF ReadsInPhase, Heard
  <2>5. shown = sequence /\ sequence' <= Len(history')
    <3>1. ~(shown < sequence) /\ shown <= sequence
      BY <1>1, <1>6, NumbersFollow DEF ShownFollows, Heard
    <3>2. sequence' <= Len(history')
      BY <1>2, <1>3, <1>4, <1>5 DEF Later
    <3> QED BY <1>5, <3>1, <3>2
  <2>6. NumberFollows' /\ BoardFollows'
    BY <2>4, <2>5 DEF NumberFollows, BoardFollows
  <2>7. ~(shown' < sequence')
    <3>1. CASE n >= snapshotSequence \/ board = NoState
      BY <1>2, <1>4, <1>5, <3>1 DEF Later
    <3>2. CASE ~(n >= snapshotSequence) /\ board # NoState
      BY <1>2, <1>4, <1>5, <2>5, <3>2 DEF Later
    <3> QED BY <3>1, <3>2
  <2>8. ShownFollows'
    BY <2>7 DEF ShownFollows
  <2> QED BY <1>10, <2>3, <2>4, <2>6, <2>8
<1>7. CASE Heard
  <2>1. r.purpose # "first"
    BY <1>7 DEF ReadsInPhase
  <2>2. links' = links /\ Heard' /\ Active'
    BY <1>1, <1>7, <2>1 DEF Refresh, Heard, Active
  <2>3. LinksFollow'
    BY <1>3, <2>2 DEF LinksFollow, LinkFollows
  <2>4. ReadsInPhase'
    BY <1>3, <1>7, <2>2 DEF ReadsInPhase, Heard
  <2>5. NumberFollows'
    <3>1. ASSUME links[attempt].state = "open", links[attempt].seen > sequence'
          PROVE  Coming(links[attempt].seen)' \/ Told(attempt, links[attempt].seen)'
      <4>1. PICK m \in Int : m = links[attempt].seen
        BY <1>1, LinkParts
      <4>2. m > sequence /\ m > n
        BY <1>2, <1>5, <1>11, <3>1, <4>1
      <4>3. Coming(m) \/ Told(attempt, m)
        BY <1>7, <3>1, <4>1, <4>2 DEF NumberFollows
      <4>4. Coming(m)' \/ Told(attempt, m)'
        BY <1>3, <1>9, <2>2, <4>2, <4>3 DEF Told
      <4>5. m = (links[attempt].seen)'
        BY <1>3, <2>2, <4>1
      <4> QED BY <4>4, <4>5
    <3> QED BY <1>3, <1>11, <2>2, <3>1 DEF NumberFollows
  <2>6. BoardFollows'
    <3>1. ASSUME NEW m \in 1..Len(history'), history'[m] = "gameplay", board' < m, m <= sequence'
          PROVE  Coming(m)' \/ Wired(attempt, m)'
      <4>1. m \in 1..Len(history) /\ m \in Int /\ history[m] = "gameplay"
        BY <1>1, <1>3, <3>1
      <4>2. m > n /\ m > board /\ m <= sequence
        BY <1>2, <1>4, <1>5, <3>1, <4>1 DEF Later
      <4>3. Coming(m) \/ Wired(attempt, m)
        BY <1>7, <4>1, <4>2 DEF BoardFollows
      <4> QED BY <1>3, <1>9, <2>2, <4>1, <4>2, <4>3 DEF Wired
    <3> QED BY <3>1 DEF BoardFollows
  <2>7. ShownFollows'
    <3>1. CASE n >= snapshotSequence \/ board = NoState
      BY <1>4, <1>11, <3>1 DEF ShownFollows
    <3>2. CASE ~(n >= snapshotSequence) /\ board # NoState
      <4>1. sequence' = sequence /\ shown' = shown /\ snapshotSequence' = snapshotSequence
        BY <1>2, <1>4, <1>5, <3>2 DEF Later
      <4> QED BY <1>1, <1>3, <2>2, <4>1 DEF ShownFollows, Wired
    <3> QED BY <3>1, <3>2
  <2> QED BY <1>10, <2>3, <2>4, <2>5, <2>6, <2>7
<1>8. phase # "joining"
  BY DEF ReadsInPhase
<1> QED BY <1>1, <1>6, <1>7, <1>8 DEF Active, Heard

\* Recovering from a gap asks for what was missed, and drops no read.
LEMMA GapBrings ==
  ASSUME LinksFollow, Len(history) \in Nat, NEW missed \in BOOLEAN, RecoverGap(missed)
  PROVE  /\ missed => \A n : Coming(n)'
         /\ \A n : Coming(n) => Coming(n)'
         /\ \A r \in reads' : r \in reads \/ r.purpose = "gap"
         /\ \A r \in reads' : r.at <= Len(history)
<1>1. CASE missed
  BY <1>1, AskBrings DEF RecoverGap
<1>2. CASE ~missed
  BY <1>2 DEF RecoverGap, LinksFollow, Coming
<1> QED BY <1>1, <1>2

LEMMA ReceiveSettles ==
  ASSUME ViewInv, SettleInv, Receive
  PROVE  SettleInv'
<1> USE DEF SettleInv
<1> DEFINE message == Head(links[attempt].wire)
<1>1. LinkTypeOK(Purpose) /\ Len(history) \in Nat /\ attempt \in Attempt /\ Heard /\ Active
  BY LinkTypes DEF Receive, ViewInv, ScreenFollows, Heard, Active
<1>2. /\ Taken(attempt) /\ links[attempt].wire # <<>>
      /\ UNCHANGED <<history, untold, attempt, phase>>
  BY DEF Receive
<1>3. Heard' /\ Active'
  BY <1>1, <1>2 DEF Heard, Active
<1>5. PICK a \in Attempt : a = attempt
  BY <1>1
<1>6. /\ message \in Message
      /\ links'[a].state = links[a].state /\ links'[a].seen = links[a].seen
      /\ \A m \in Int : Wired(a, m) => Wired(a, m)' \/ (message.type = "snapshot" /\ message.seq >= m)
      /\ \A m \in Int : Told(a, m) => Told(a, m)' \/ message.seq >= m
      /\ \A m, q \in Int : message = Sent("event", q) /\ history[q] = "gameplay" /\ m <= q =>
           Wired(a, m)'
      /\ \A b \in Attempt : LinkFollows(links[b])'
      /\ message = links[a].wire[1] /\ 1 \in 1..Len(links[a].wire)
  BY <1>1, <1>2, <1>5, TakenLeaves
<1>7. PICK n \in Nat : n = message.seq
  BY <1>6, LinkAssumption DEF Message, Sequence
<1>4. /\ \/ message.type = "snapshot" /\ OnSnapshot(n)
         \/ message.type = "event" /\ OnEvent(n)
      /\ \A m \in Int : Wired(a, m) => Wired(a, m)' \/ (message.type = "snapshot" /\ n >= m)
      /\ \A m \in Int : Told(a, m) => Told(a, m)' \/ n >= m
      /\ n <= Len(history)
      /\ message.type = "event" => message = Sent("event", n) /\ n \in 1..MaxSequence
  <2>1. message.type = "event" => message = Sent("event", n) /\ n \in 1..MaxSequence
    BY <1>6, <1>7 DEF Message, Sent
  <2>2. n <= Len(history)
    BY <1>6, <1>7 DEF LinksFollow, LinkFollows
  <2>3. \/ message.type = "snapshot" /\ OnSnapshot(n)
        \/ message.type = "event" /\ OnEvent(n)
    BY <1>7 DEF Receive
  <2> QED BY <1>6, <1>7, <2>1, <2>2, <2>3
<1> HIDE DEF message
<1>8. /\ sequence \in Int /\ snapshotSequence \in Int /\ board \in Int /\ shown \in Int
      /\ sequence <= Len(history) /\ snapshotSequence <= sequence /\ shown <= sequence
      /\ board = snapshotSequence
  BY <1>1, NumbersFollow DEF ViewInv, ScreenFollows, Heard
<1>12. ASSUME sequence' \in Int, sequence' >= sequence, sequence' >= n, sequence' <= Len(history),
              \A m : Coming(m) => Coming(m)',
              \A r \in reads' : r \in reads \/ r.purpose = "gap",
              \A r \in reads' : r.at <= Len(history)
       PROVE  LinksFollow' /\ ReadsInPhase' /\ NumberFollows'
  <2>1. LinksFollow'
    BY <1>2, <1>6, <1>12 DEF LinksFollow
  <2>2. ReadsInPhase'
    BY <1>1, <1>2, <1>3, <1>12 DEF ReadsInPhase, Heard
  <2>3. ASSUME (links[a].state)' = "open", (links[a].seen)' > sequence'
        PROVE  Coming(links[a].seen)' \/ Told(a, links[a].seen)'
    <3>1. PICK m \in Int : m = links[a].seen
      BY <1>1, LinkParts
    <3>2. m = (links[a].seen)' /\ links[a].state = "open" /\ m > sequence /\ m > n
      BY <1>6, <1>4, <1>8, <1>12, <2>3, <3>1
    <3>3. Coming(m) \/ Told(a, m)
      BY <1>1, <1>5, <3>1, <3>2 DEF NumberFollows
    <3>4. ~(n >= m)
      BY <1>4, <3>2
    <3>5. Coming(m)' \/ Told(a, m)'
      BY <1>4, <1>12, <3>3, <3>4
    <3> QED BY <3>2, <3>5
  <2>4. NumberFollows'
    BY <1>2, <1>5, <1>12, <2>3 DEF NumberFollows
  <2> QED BY <2>1, <2>2, <2>4
<1>9. CASE message.type = "snapshot" /\ OnSnapshot(n) /\ n < snapshotSequence
  <2>1. UNCHANGED <<reads, sequence, snapshotSequence, board, shown, log>>
    BY <1>9 DEF OnSnapshot, viewVars
  <2>2. \A m : Coming(m) <=> Coming(m)'
    BY <2>1 DEF Coming
  <2>3. LinksFollow' /\ ReadsInPhase' /\ NumberFollows'
    <3>1. sequence' >= n /\ sequence' >= sequence
      BY <1>4, <1>8, <1>9, <2>1
    <3>2. \A r \in reads' : r.at <= Len(history)
      BY <2>1 DEF LinksFollow
    <3> QED BY <1>8, <1>12, <2>1, <2>2, <3>1, <3>2
  <2>4. ASSUME NEW m \in Int, m >= snapshotSequence, Wired(a, m)
        PROVE  Wired(a, m)'
    <3>1. ~(n >= m)
      BY <1>4, <1>8, <1>9, <2>4
    <3> QED BY <1>4, <2>4, <3>1
  <2>5. BoardFollows'
    <3>1. ASSUME NEW m \in 1..Len(history'), history'[m] = "gameplay", board' < m, m <= sequence'
          PROVE  Coming(m)' \/ Wired(attempt, m)'
      <4>1. m \in Int /\ m >= snapshotSequence
        BY <1>8, <2>1, <3>1
      <4>2. Coming(m) \/ Wired(a, m)
        BY <1>1, <1>2, <1>5, <2>1, <3>1 DEF BoardFollows
      <4> QED BY <1>2, <1>5, <2>2, <2>4, <4>1, <4>2
    <3> QED BY <3>1 DEF BoardFollows
  <2>6. ShownFollows'
    <3>1. ASSUME shown' < sequence'
          PROVE  Wired(attempt, snapshotSequence)'
      <4>1. Wired(a, snapshotSequence)
        BY <1>1, <1>5, <2>1, <3>1 DEF ShownFollows
      <4>2. PICK m \in Int : m = snapshotSequence
        BY <1>8
      <4>3. m >= snapshotSequence
        BY <4>2
      <4>4. Wired(a, m)'
        BY <2>4, <4>1, <4>2, <4>3
      <4>5. m = snapshotSequence' /\ a = attempt'
        BY <1>2, <1>5, <2>1, <4>2
      <4> QED BY <1>2, <1>5, <4>4, <4>5
    <3> QED BY <1>3, <3>1 DEF ShownFollows
  <2>7. ListFollows'
    BY <1>1, <1>2, <2>1, <2>2 DEF ListFollows
  <2> QED BY <2>3, <2>5, <2>6, <2>7
<1>10. CASE message.type = "snapshot" /\ OnSnapshot(n) /\ ~(n < snapshotSequence)
  <2>1. /\ RecoverGap(n > sequence) /\ sequence' = Later(sequence, n)
        /\ snapshotSequence' = n /\ board' = n /\ shown' = sequence' /\ log' = log
    BY <1>10 DEF OnSnapshot
  <2>2. /\ n > sequence => \A m : Coming(m)'
        /\ \A m : Coming(m) => Coming(m)'
        /\ \A r \in reads' : r \in reads \/ r.purpose = "gap"
        /\ \A r \in reads' : r.at <= Len(history)
    <3>1. (n > sequence) \in BOOLEAN
      OBVIOUS
    <3> QED BY <1>1, <2>1, <3>1, GapBrings
  <2>3. /\ sequence' \in Int /\ sequence' >= sequence /\ sequence' >= n
        /\ sequence' <= Len(history) /\ (~(n > sequence) => sequence' = sequence)
    BY <1>4, <1>8, <2>1 DEF Later
  <2>4. LinksFollow' /\ ReadsInPhase' /\ NumberFollows'
    BY <1>12, <2>2, <2>3
  <2>5. BoardFollows'
    <3>1. ASSUME NEW m \in 1..Len(history'), history'[m] = "gameplay", board' < m, m <= sequence'
          PROVE  Coming(m)' \/ Wired(attempt, m)'
      <4>1. m \in 1..Len(history) /\ m \in Int /\ ~(n >= m) /\ board < m
        BY <1>1, <1>2, <1>4, <1>8, <1>10, <2>1, <3>1
      <4>2. CASE n > sequence
        BY <2>2, <4>2
      <4>3. CASE ~(n > sequence)
        <5>1. Coming(m) \/ Wired(a, m)
          BY <1>1, <1>2, <1>5, <2>3, <3>1, <4>1, <4>3 DEF BoardFollows
        <5> QED BY <1>2, <1>4, <1>5, <2>2, <4>1, <5>1
      <4> QED BY <4>2, <4>3
    <3> QED BY <3>1 DEF BoardFollows
  <2>6. ShownFollows'
    BY <2>1, <2>3 DEF ShownFollows
  <2>7. ListFollows'
    <3>1. \A i \in log' : i <= sequence' /\ Cardinality({j \in log' : j > i}) < LogLength
      <4>1. /\ log \subseteq 1..MaxSequence
            /\ \A i \in log : i <= sequence /\ Cardinality({j \in log : j > i}) < LogLength
        BY <1>1 DEF ListFollows, ViewInv, TypeOK
      <4>2. ASSUME NEW i \in log PROVE i <= sequence'
        <5>1. i \in 1..MaxSequence /\ i <= sequence
          BY <4>1
        <5> QED BY <1>8, <2>3, <5>1
      <4> QED BY <2>1, <4>1, <4>2
    <3>2. ASSUME NEW i \in 1..Len(history'), i <= sequence', i > sequence' - LogLength, i \notin log'
          PROVE  Coming(i)'
      <4>1. CASE n > sequence
        BY <2>2, <4>1
      <4>2. CASE ~(n > sequence)
        BY <1>1, <1>2, <2>1, <2>2, <2>3, <3>2, <4>2 DEF ListFollows
      <4> QED BY <4>1, <4>2
    <3> QED BY <3>1, <3>2 DEF ListFollows
  <2> QED BY <2>4, <2>5, <2>6, <2>7
<1>11. CASE message.type = "event" /\ OnEvent(n)
  <2>1. /\ RecoverGap(n > sequence + 1) /\ sequence' = Later(sequence, n)
        /\ shown' = IF history[n] = "gameplay" THEN shown ELSE Later(shown, n)
        /\ log' = Recent(log \cup {n})
        /\ snapshotSequence' = snapshotSequence /\ board' = board
    BY <1>11 DEF OnEvent
  <2>2. /\ n > sequence + 1 => \A m : Coming(m)'
        /\ \A m : Coming(m) => Coming(m)'
        /\ \A r \in reads' : r \in reads \/ r.purpose = "gap"
        /\ \A r \in reads' : r.at <= Len(history)
    <3>1. (n > sequence + 1) \in BOOLEAN
      OBVIOUS
    <3> QED BY <1>1, <2>1, <3>1, GapBrings
  <2>3. /\ sequence' \in Int /\ sequence' >= sequence /\ sequence' >= n
        /\ sequence' <= Len(history) /\ (sequence' = sequence \/ (sequence' = n /\ n > sequence))
    BY <1>4, <1>8, <2>1 DEF Later
  <2>4. LinksFollow' /\ ReadsInPhase' /\ NumberFollows'
    BY <1>12, <2>2, <2>3
  <2>5. \A m \in Int : Wired(a, m) => Wired(a, m)'
    BY <1>4, <1>11
  <2>6. history[n] = "gameplay" => Wired(a, n)'
    BY <1>4, <1>6, <1>11
  <2>7. BoardFollows'
    <3>1. ASSUME NEW m \in 1..Len(history'), history'[m] = "gameplay", board' < m, m <= sequence'
          PROVE  Coming(m)' \/ Wired(attempt, m)'
      <4>1. m \in 1..Len(history) /\ m \in Int /\ history[m] = "gameplay" /\ board < m
        BY <1>2, <2>1, <3>1
      <4>2. CASE n > sequence + 1
        BY <2>2, <4>2
      <4>3. CASE m <= sequence
        <5>1. Coming(m) \/ Wired(a, m)
          BY <1>1, <1>5, <4>1, <4>3 DEF BoardFollows
        <5> QED BY <1>2, <1>5, <2>2, <2>5, <4>1, <5>1
      <4>4. CASE ~(n > sequence + 1) /\ ~(m <= sequence)
        <5>1. m = n
          BY <1>4, <1>8, <2>3, <3>1, <4>1, <4>4
        <5> QED BY <1>2, <1>5, <2>6, <4>1, <5>1
      <4> QED BY <4>2, <4>3, <4>4
    <3> QED BY <3>1 DEF BoardFollows
  <2>8. ShownFollows'
    <3>1. ASSUME shown' < sequence'
          PROVE  Wired(a, snapshotSequence)'
      <4>1. CASE shown < sequence
        <5>1. Wired(a, snapshotSequence)
          BY <1>1, <1>5, <4>1 DEF ShownFollows
        <5>2. PICK m \in Int : m = snapshotSequence
          BY <1>8
        <5>3. Wired(a, m)'
          BY <2>5, <5>1, <5>2
        <5> QED BY <2>1, <5>2, <5>3
      <4>2. CASE ~(shown < sequence)
        <5>1. shown = sequence
          BY <1>8, <4>2
        <5>2. CASE history[n] = "gameplay"
          <6>1. Wired(a, n)' /\ n > sequence
            BY <1>4, <1>8, <2>1, <2>3, <2>6, <3>1, <5>1, <5>2
          <6>2. n >= snapshotSequence
            BY <1>4, <1>8, <6>1
          <6>3. PICK m \in Int : m = snapshotSequence /\ m <= n
            BY <1>4, <1>8, <6>2
          <6>4. Wired(a, m)'
            BY <1>4, <1>6, <1>11, <5>2, <6>3
          <6> QED BY <2>1, <6>3, <6>4
        <5>3. CASE history[n] # "gameplay"
          BY <1>4, <1>8, <2>1, <2>3, <3>1, <5>1, <5>3 DEF Later
        <5> QED BY <5>2, <5>3
      <4> QED BY <4>1, <4>2
    <3> QED BY <1>2, <1>3, <1>5, <3>1 DEF ShownFollows
  <2>9. ListFollows'
    <3> DEFINE S == log \cup {n}
    <3>1. /\ S \in SUBSET (1..MaxSequence)
          /\ \A i \in S : i <= sequence'
      <4>1. log \subseteq 1..MaxSequence /\ \A i \in log : i <= sequence
        BY <1>1 DEF ViewInv, TypeOK, ListFollows
      <4>2. n \in 1..MaxSequence
        BY <1>4, <1>11
      <4>3. ASSUME NEW i \in S PROVE i \in 1..MaxSequence /\ i <= sequence'
        <5>1. i \in 1..MaxSequence /\ (i <= sequence \/ i = n)
          BY <4>1, <4>2
        <5> QED BY <1>4, <1>8, <2>3, <5>1, LinkAssumption
      <4> QED BY <4>3
    <3>2. log' = Recent(S)
      BY <2>1
    <3> HIDE DEF S
    <3>3. /\ \A i \in Recent(S) : Cardinality({j \in Recent(S) : j > i}) < LogLength
          /\ \A i \in S : i > sequence' - LogLength => i \in Recent(S)
          /\ Recent(S) \subseteq S
      BY <2>3, <3>1, RecentHolds
    <3>4. \A i \in log' : i <= sequence' /\ Cardinality({j \in log' : j > i}) < LogLength
      BY <3>1, <3>2, <3>3
    <3>5. ASSUME NEW i \in 1..Len(history'), i <= sequence', i > sequence' - LogLength, i \notin log'
          PROVE  Coming(i)'
      <4>1. CASE n > sequence + 1
        BY <2>2, <4>1
      <4>2. CASE ~(n > sequence + 1)
        <5>1. i \notin log /\ i # n /\ i \in 1..Len(history) /\ i \in Int
          <6>1. i \notin S
            BY <3>2, <3>3, <3>5
          <6> QED BY <1>2, <3>5, <6>1 DEF S
        <5>2. i <= sequence
          BY <1>4, <1>8, <2>3, <3>5, <4>2, <5>1
        <5>3. PICK p \in Int, q \in Int : p = sequence /\ q = sequence' /\ q >= p
          BY <1>8, <2>3
        <5>4. i > q - LogLength
          BY <3>5, <5>3
        <5>5. i > p - LogLength
          BY <5>1, <5>3, <5>4, StillRecent
        <5>6. Coming(i)
          BY <1>1, <5>1, <5>2, <5>3, <5>5 DEF ListFollows
        <5> QED BY <2>2, <5>6
      <4> QED BY <4>1, <4>2
    <3> QED BY <3>4, <3>5 DEF ListFollows
  <2> QED BY <2>4, <2>7, <2>8, <2>9
<1> QED BY <1>4, <1>9, <1>10, <1>11

-----------------------------------------------------------------------------
(* What settles.                                                           *)

LEMMA InitSettles ==
  ASSUME Init
  PROVE  SettleInv
<1>1. /\ history = <<>> /\ untold = {} /\ reads = {} /\ phase = "away" /\ sequence = -1
      /\ links = [a \in Attempt |-> NoLink]
  BY DEF Init, LinkInit, NoState
<1>2. Len(history) = 0
  BY <1>1
<1>3. NoLink.state = "none" /\ NoLink.seen = 0 /\ NoLink.wire = <<>>
  BY DEF NoLink
<1>4. LinksFollow
  BY <1>1, <1>2, <1>3 DEF LinksFollow, LinkFollows
<1>5. ReadsInPhase /\ ~Heard /\ ~Active
  BY <1>1 DEF ReadsInPhase, Heard, Active
<1> QED BY <1>1, <1>2, <1>4, <1>5
        DEF SettleInv, NumberFollows, BoardFollows, ShownFollows, ListFollows

LEMMA StepSettles ==
  ASSUME ViewInv, SettleInv, [Next]_vars
  PROVE  SettleInv'
<1>1. CASE Server
  BY <1>1, ServerSettles
<1>2. CASE Open \/ Disconnect
  BY <1>2, OpenSettles, DisconnectSettles
<1>3. CASE Unheard \/ Browser
  BY <1>3, UnheardSettles, RegisterSettles, RefreshSettles, ReceiveSettles DEF Browser
<1>4. CASE UNCHANGED vars
  <2>1. UNCHANGED <<history, untold, links, reads, attempt, phase,
                    sequence, snapshotSequence, board, shown, log>>
    BY <1>4 DEF vars, linkVars, viewVars
  <2>2. LinksFollow' /\ ReadsInPhase'
    BY <2>1 DEF SettleInv, LinksFollow, LinkFollows, ReadsInPhase, Heard
  <2>3. NumberFollows' /\ BoardFollows' /\ ShownFollows' /\ ListFollows'
    BY <2>1 DEF SettleInv, NumberFollows, BoardFollows, ShownFollows, ListFollows,
                Heard, Active, Coming, Wired, Told
  <2> QED BY <2>2, <2>3 DEF SettleInv
<1> QED BY <1>1, <1>2, <1>3, <1>4 DEF Next

\* Once everything has arrived, state, number and list are the server's.
LEMMA SettledShows ==
  ASSUME ViewInv, SettleInv, Settled
  PROVE  SettledIsCurrent /\ SettledLogIsComplete
<1> USE DEF SettleInv
<1>1. LinkTypeOK(Purpose) /\ Len(history) \in Nat
  BY LinkTypes
<1>2. /\ Heard /\ Active /\ links[attempt].state = "open" /\ links[attempt].wire = <<>>
      /\ reads = {} /\ untold = {}
  BY DEF Settled, Heard, Active
<1>3. PICK a \in Attempt : a = attempt
  BY <1>2 DEF ViewInv, ScreenFollows
<1>4. /\ sequence \in Int /\ snapshotSequence \in Int /\ board \in Int /\ shown \in Int
      /\ sequence <= Len(history) /\ board <= sequence /\ shown <= sequence
      /\ sequence >= -1 /\ board >= -1
  BY NumbersFollow
<1>5. \A n : ~Coming(n) /\ ~Wired(a, n) /\ ~Told(a, n)
  <2>1. Len(links[a].wire) = 0
    BY <1>2, <1>3
  <2> QED BY <1>2, <2>1 DEF Coming, Wired, Told
<1>6. sequence = Len(history)
  <2>1. links[a].seen \in Nat
    BY <1>1, LinkParts
  <2>2. ~(links[a].seen > sequence)
    BY <1>2, <1>3, <1>5 DEF NumberFollows
  <2>3. \A n \in 1..Len(history) : ~(n > links[a].seen)
    BY <1>2, <1>3 DEF LinksFollow, LinkFollows
  <2>4. CASE Len(history) = 0
    BY <1>1, <1>4, <2>1, <2>2, <2>4
  <2>5. CASE Len(history) # 0
    <3>1. Len(history) \in 1..Len(history)
      BY <1>1, <2>5
    <3>2. ~(Len(history) > links[a].seen)
      BY <2>3, <3>1
    <3> QED BY <1>1, <1>4, <2>1, <2>2, <3>2
  <2> QED BY <2>4, <2>5
<1>7. shown = Len(history)
  <2>1. ~(shown < sequence)
    BY <1>2, <1>3, <1>5 DEF ShownFollows
  <2> QED BY <1>1, <1>4, <1>6, <2>1
<1>8. Version(board) = Version(Len(history))
  <2> DEFINE gameplay(n) == {i \in 1..n : history[i] = "gameplay"}
  <2>1. ASSUME NEW i \in gameplay(Len(history)) PROVE i \in gameplay(board)
    <3>1. i \in 1..Len(history) /\ i \in Int /\ history[i] = "gameplay"
      OBVIOUS
    <3>2. ~(board < i)
      BY <1>1, <1>2, <1>3, <1>5, <1>6, <3>1 DEF BoardFollows
    <3> QED BY <1>4, <3>1, <3>2
  <2>2. ASSUME NEW i \in gameplay(board) PROVE i \in gameplay(Len(history))
    <3>1. i \in 1..board /\ i \in Int /\ history[i] = "gameplay"
      BY <1>4
    <3> QED BY <1>1, <1>4, <3>1
  <2>3. gameplay(board) = gameplay(Len(history))
    BY <2>1, <2>2
  <2> QED BY <2>3 DEF Version
<1>9. log = Recent(1..Len(history))
  <2> DEFINE N == Len(history)
             S == 1..N
  <2>1. N \in Nat /\ N <= MaxSequence /\ MaxSequence \in Nat
    BY <1>1, LinkAssumption DEF LinkTypeOK
  <2>2. S \in SUBSET (1..MaxSequence) /\ \A i \in S : i <= N
    BY <2>1
  <2>3. /\ log \subseteq S
        /\ \A i \in log : Cardinality({j \in log : j > i}) < LogLength
    <3>1. log \subseteq 1..MaxSequence /\ \A i \in log : i <= sequence
      BY <1>2 DEF ViewInv, TypeOK, ListFollows
    <3>2. ASSUME NEW i \in log PROVE i \in S
      BY <1>6, <2>1, <3>1
    <3> QED BY <1>2, <3>2 DEF ListFollows
  <2>4. \A i \in S : i > N - LogLength => i \in log
    BY <1>2, <1>5, <1>6, <2>1 DEF ListFollows
  <2>5. IsFiniteSet(S)
    <3>1. 1 \in Int /\ N \in Int
      BY <2>1
    <3> QED BY <3>1, FS_Interval
  <2>6. ASSUME NEW i \in S, i > N - LogLength
        PROVE  i \in Recent(S)
    BY <2>1, <2>2, <2>6, RecentHolds
  <2>7. ASSUME NEW i \in S, ~(i > N - LogLength), NEW T \in SUBSET S,
               \A k \in S : k > N - LogLength => k \in T
        PROVE  ~(Cardinality({j \in T : j > i}) < LogLength)
    <3> DEFINE late == (N - LogLength + 1)..N
               all == {j \in T : j > i}
    <3>1. i \in Int /\ LogLength \in Nat /\ i >= 1 /\ N - LogLength >= i
      BY <2>1, <2>7, LogAssumption
    <3>2. Cardinality(late) = LogLength /\ IsFiniteSet(late)
      <4>1. N - LogLength + 1 \in Int /\ N \in Int
        BY <2>1, <3>1
      <4>2. /\ IsFiniteSet(late)
            /\ Cardinality(late) = IF N - LogLength + 1 > N THEN 0 ELSE N - (N - LogLength + 1) + 1
        BY <4>1, FS_Interval
      <4> QED BY <2>1, <3>1, <4>2
    <3>3. late \subseteq all
      BY <2>1, <2>7, <3>1
    <3>4. IsFiniteSet(all)
      BY <2>5, FS_Subset
    <3> HIDE DEF late, all
    <3>5. Cardinality(late) <= Cardinality(all) /\ Cardinality(all) \in Nat
      BY <3>3, <3>4, FS_Subset, FS_CardinalityType
    <3>6. ~(Cardinality(all) < LogLength)
      BY <3>1, <3>2, <3>5
    <3> QED BY <3>6 DEF all
  <2> HIDE DEF N, S
  <2>8. \A i \in log : i > N - LogLength
    BY <2>3, <2>4, <2>7
  <2>9. \A i \in Recent(S) : i \in S /\ i > N - LogLength
    <3>1. \A i \in Recent(S) : i \in S /\ Cardinality({j \in S : j > i}) < LogLength
      BY DEF Recent
    <3> QED BY <2>7, <3>1
  <2>10. log = Recent(S)
    BY <2>3, <2>4, <2>6, <2>8, <2>9
  <2> QED BY <2>10 DEF S, N
<1> QED BY <1>6, <1>7, <1>8, <1>9 DEF SettledIsCurrent, SettledLogIsComplete

\* Once nothing is left to arrive, the spectator's screen shows the current
\* state, the number of the latest event and the full list of the latest ones,
\* whatever was overtaken, missed or came too early before.
THEOREM SettledScreensAreComplete == Spec => []SettledIsComplete
<1> DEFINE Inv == ViewInv /\ SettleInv
<1>1. Init => Inv
  BY InitKeepsIt, InitSettles
<1>2. Inv /\ [Next]_vars => Inv'
  BY StepKeepsIt, StepSettles
<1>3. Inv => SettledIsComplete
  BY SettledShows DEF SettledIsComplete, SettledIsCurrent, SettledLogIsComplete
<1> HIDE DEF Inv
<1> QED BY <1>1, <1>2, <1>3, PTL DEF Spec
=============================================================================
