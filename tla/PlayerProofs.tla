---------------------------- MODULE PlayerProofs ----------------------------
(***************************************************************************)
(* Proofs about the player's screen: what is settled is current, the       *)
(* host's answers are applied in order, and nobody is put back on a seat,  *)
(* for any number of events, connections, reads and operations.            *)
(***************************************************************************)
EXTENDS PlayerView, FiniteSetTheorems, TLAPS

-----------------------------------------------------------------------------
(* What the operators of the link return, and keep.                        *)

\* A batch is made of messages.
LEMMA BatchType ==
  ASSUME NEW n \in 1..MaxSequence
  PROVE  Batch(n) \in Seq(Message)
<1> DEFINE event == Sent("event", n)
           snapshot == Sent("snapshot", n)
<1>1. event \in Message /\ snapshot \in Message
  BY LinkAssumption DEF Sent, Message, Sequence
<1>2. <<event, snapshot>> \in Seq(Message) /\ <<event>> \in Seq(Message)
  <2> HIDE DEF event, snapshot
  <2> QED BY <1>1
<1> QED BY <1>2 DEF Batch

\* A link stays one when a field of it is replaced.
LEMMA LinkFields ==
  ASSUME NEW l \in Link, NEW n \in Sequence, NEW wire \in Seq(Message),
         NEW state \in {"none", "joining", "open", "closing", "closed"}
  PROVE  /\ [l EXCEPT !.state = state] \in Link
         /\ [l EXCEPT !.wire = wire] \in Link
         /\ [l EXCEPT !.state = state, !.wire = wire] \in Link
         /\ [l EXCEPT !.seen = n, !.wire = wire] \in Link
<1>1. ASSUME NEW k \in Link
      PROVE  [k EXCEPT !.state = state] \in Link /\ [k EXCEPT !.wire = wire] \in Link
             /\ [k EXCEPT !.seen = n] \in Link
  BY DEF Link
<1>2. [l EXCEPT !.state = state] \in Link /\ [l EXCEPT !.seen = n] \in Link
  BY <1>1
<1>3. [[l EXCEPT !.state = state] EXCEPT !.wire = wire] \in Link
  <2> DEFINE m == [l EXCEPT !.state = state]
  <2> HIDE DEF m
  <2>1. m \in Link
    BY <1>2 DEF m
  <2>2. [m EXCEPT !.wire = wire] \in Link
    BY <2>1, <1>1
  <2> QED BY <2>2 DEF m
<1>4. [[l EXCEPT !.seen = n] EXCEPT !.wire = wire] \in Link
  <2> DEFINE m == [l EXCEPT !.seen = n]
  <2> HIDE DEF m
  <2>1. m \in Link
    BY <1>2 DEF m
  <2>2. [m EXCEPT !.wire = wire] \in Link
    BY <2>1, <1>1
  <2> QED BY <2>2 DEF m
<1> QED BY <1>1, <1>3, <1>4

\* The browser's ends of a link keep it well formed.
LEMMA LinkEnds ==
  ASSUME links \in [Attempt -> Link], NEW a \in Attempt
  PROVE  /\ Dial(a) => links' \in [Attempt -> Link]
         /\ Hang(a) => links' \in [Attempt -> Link]
         /\ Taken(a) /\ links[a].wire # <<>> => links' \in [Attempt -> Link]
<1>1. links[a] \in Link /\ links[a].wire \in Seq(Message) /\ 0 \in Sequence
  BY LinkAssumption DEF Link, Sequence
<1>2. <<>> \in Seq(Message)
  OBVIOUS
<1>3. links[a].wire # <<>> => Tail(links[a].wire) \in Seq(Message)
  BY <1>1
<1>4. [links[a] EXCEPT !.state = "joining"] \in Link
  BY <1>1, LinkFields
<1>5. [links[a] EXCEPT !.state = "closed", !.wire = <<>>] \in Link
  BY <1>1, <1>2, LinkFields
<1>6. links[a].wire # <<>> => [links[a] EXCEPT !.wire = Tail(links[a].wire)] \in Link
  BY <1>1, <1>3, LinkFields
<1>7. Dial(a) => links' \in [Attempt -> Link]
  BY <1>4 DEF Dial
<1>8. Hang(a) => links' \in [Attempt -> Link]
  BY <1>5 DEF Hang
<1>9. Taken(a) /\ links[a].wire # <<>> => links' \in [Attempt -> Link]
  BY <1>6 DEF Taken
<1> QED BY <1>7, <1>8, <1>9

LEMMA TellTypes ==
  ASSUME LinkTypeOK(Purpose), NEW n \in untold, Tell(n)
  PROVE  LinkTypeOK(Purpose)'
<1>1. n \in 1..MaxSequence /\ n \in Sequence
  BY LinkAssumption DEF Sequence, LinkTypeOK
<1>2. Batch(n) \in Seq(Message)
  BY <1>1, BatchType
<1>3. ASSUME NEW a \in Attempt
      PROVE  [links[a] EXCEPT !.seen = n, !.wire = links[a].wire \o Batch(n)] \in Link
  <2>1. links[a] \in Link /\ links[a].wire \in Seq(Message)
    BY DEF Link, LinkTypeOK
  <2>2. links[a].wire \o Batch(n) \in Seq(Message)
    BY <1>2, <2>1
  <2>3. "open" \in {"none", "joining", "open", "closing", "closed"}
    OBVIOUS
  <2> QED BY <1>1, <2>1, <2>2, <2>3, LinkFields
<1>4. ASSUME NEW a \in Attempt PROVE links[a] \in Link
  BY DEF LinkTypeOK
<1>5. links' \in [Attempt -> Link]
  BY <1>3, <1>4 DEF Tell
<1> QED BY <1>5 DEF Tell, LinkTypeOK

LEMMA JoinTypes ==
  ASSUME LinkTypeOK(Purpose), NEW a \in Attempt, Join(a)
  PROVE  LinkTypeOK(Purpose)'
<1> DEFINE first == Sent("snapshot", Len(history))
           opened == [state |-> "open", seen |-> Len(history), wire |-> <<first>>]
<1>1. Len(history) \in Sequence
  BY LinkAssumption DEF Sequence, LinkTypeOK
<1>2. first \in Message
  BY <1>1 DEF Sent, Message
<1>3. opened \in Link
  <2> HIDE DEF first
  <2>1. <<first>> \in Seq(Message)
    BY <1>2
  <2> QED BY <1>1, <2>1 DEF Link
<1>4. ASSUME NEW b \in Attempt
      PROVE  links[b] \in Link /\ [links[b] EXCEPT !.state = "closing"] \in Link
  <2>1. links[b] \in Link /\ links[b].wire \in Seq(Message)
    BY DEF LinkTypeOK, Link
  <2> QED BY <1>1, <2>1, LinkFields
<1>5. links' \in [Attempt -> Link]
  <2>1. links' = [b \in Attempt |->
                    IF b = a THEN opened
                    ELSE IF links[b].state = "open" THEN [links[b] EXCEPT !.state = "closing"]
                                                    ELSE links[b]]
    BY DEF Join
  <2> HIDE DEF opened
  <2> QED BY <1>3, <1>4, <2>1
<1> QED BY <1>5 DEF Join, LinkTypeOK

LEMMA AnswerTypes ==
  ASSUME LinkTypeOK(Purpose), NEW r \in reads, AnswerRead(r)
  PROVE  LinkTypeOK(Purpose)'
<1>1. Len(history) \in Sequence /\ r \in Read(Purpose)
  BY LinkAssumption DEF Sequence, LinkTypeOK
<1>2. [r EXCEPT !.at = Len(history)] \in Read(Purpose)
  BY <1>1 DEF Read
<1> QED BY <1>2 DEF AnswerRead, LinkTypeOK

LEMMA CommitTypes ==
  ASSUME LinkTypeOK(Purpose), Commit
  PROVE  LinkTypeOK(Purpose)'
<1>1. PICK kind \in {"gameplay", "management"} : Committed(kind) /\ UNCHANGED <<links, reads>>
  BY DEF Commit
<1>2. /\ history \in Seq({"gameplay", "management"})
      /\ Len(history) < MaxSequence
      /\ history' = Append(history, kind)
  BY <1>1 DEF Committed, LinkTypeOK
<1>3. /\ history' \in Seq({"gameplay", "management"})
      /\ Len(history') <= MaxSequence
      /\ Len(history) + 1 \in 1..MaxSequence
  BY <1>2, LinkAssumption
<1> QED BY <1>1, <1>3 DEF Committed, LinkTypeOK

-----------------------------------------------------------------------------
(* What links, messages and reads follow.                                  *)

\* What is known of a link in a well-typed state.
LEMMA LinkParts ==
  ASSUME LinkTypeOK(Purpose), NEW a \in Attempt
  PROVE  /\ links[a] \in Link
         /\ links[a].seen \in Nat
         /\ links[a].wire \in Seq(Message)
         /\ Len(links[a].wire) \in Nat
         /\ \A k \in 1..Len(links[a].wire) :
              links[a].wire[k] \in Message /\ links[a].wire[k].seq \in Nat
         /\ Len(history) \in Nat
         /\ \A n \in 1..Len(history) : history[n] \in {"gameplay", "management"}
<1>1. links[a] \in Link /\ links[a].wire \in Seq(Message) /\ links[a].seen \in Sequence
  BY DEF LinkTypeOK, Link
<1>2. \A m \in Message : m.seq \in Nat
  BY LinkAssumption DEF Message, Sequence
<1>3. history \in Seq({"gameplay", "management"})
  BY DEF LinkTypeOK
<1>4. Len(history) \in Nat /\ \A n \in 1..Len(history) : history[n] \in {"gameplay", "management"}
  BY <1>3
<1>5. links[a].seen \in Nat
  BY <1>1, LinkAssumption DEF Sequence
<1>6. Len(links[a].wire) \in Nat /\ \A k \in 1..Len(links[a].wire) : links[a].wire[k] \in Message
  BY <1>1
<1> QED BY <1>1, <1>2, <1>4, <1>5, <1>6

\* A link keeps following when it is closing, closed, dialled or hung up on,
\* and when its first message is taken.
LEMMA EndsFollow ==
  ASSUME LinkTypeOK(Purpose), LinksFollow, NEW a \in Attempt
  PROVE  /\ \A state \in {"joining", "closing", "closed"} :
              LinkFollows([links[a] EXCEPT !.state = state])
         /\ LinkFollows([links[a] EXCEPT !.state = "closed", !.wire = <<>>])
         /\ links[a].wire # <<>> => LinkFollows([links[a] EXCEPT !.wire = Tail(links[a].wire)])
<1> DEFINE l == links[a]
<1>1. l \in Link /\ l.wire \in Seq(Message) /\ Len(l.wire) \in Nat
  BY LinkParts
<1>2. LinkFollows(l)
  BY DEF LinksFollow
<1> HIDE DEF l
<1>3. ASSUME NEW state \in {"joining", "closing", "closed"}
      PROVE  LinkFollows([l EXCEPT !.state = state])
  <2> DEFINE m == [l EXCEPT !.state = state]
  <2>1. m.state = state /\ m.seen = l.seen /\ m.wire = l.wire
    BY <1>1 DEF Link
  <2> HIDE DEF m
  <2> QED BY <1>2, <2>1 DEF LinkFollows
<1>4. LinkFollows([l EXCEPT !.state = "closed", !.wire = <<>>])
  <2> DEFINE m == [l EXCEPT !.state = "closed", !.wire = <<>>]
  <2>1. m.state = "closed" /\ m.seen = l.seen /\ m.wire = <<>>
    BY <1>1 DEF Link
  <2> HIDE DEF m
  <2> QED BY <1>2, <2>1 DEF LinkFollows
<1>5. ASSUME l.wire # <<>>
      PROVE  LinkFollows([l EXCEPT !.wire = Tail(l.wire)])
  <2> DEFINE m == [l EXCEPT !.wire = Tail(l.wire)]
  <2>1. m.state = l.state /\ m.seen = l.seen /\ m.wire = Tail(l.wire)
    BY <1>1 DEF Link
  <2>2. /\ Len(Tail(l.wire)) = Len(l.wire) - 1
        /\ \A k \in 1..Len(Tail(l.wire)) :
             k + 1 \in 1..Len(l.wire) /\ Tail(l.wire)[k] = l.wire[k + 1]
    BY <1>1, <1>5
  <2> HIDE DEF m
  <2>3. ASSUME NEW k \in 1..Len(m.wire)
        PROVE  /\ m.wire[k].seq <= Len(history)
               /\ m.wire[k].type = "event" /\ history[m.wire[k].seq] = "gameplay" =>
                    k < Len(m.wire) /\ m.wire[k + 1] = Sent("snapshot", m.wire[k].seq)
    <3>1. k + 1 \in 1..Len(l.wire) /\ m.wire[k] = l.wire[k + 1]
      BY <2>1, <2>2
    <3>2. l.wire[k + 1].seq <= Len(history)
      BY <1>2, <3>1 DEF LinkFollows
    <3>3. ASSUME l.wire[k + 1].type = "event", history[l.wire[k + 1].seq] = "gameplay"
          PROVE  k < Len(m.wire) /\ m.wire[k + 1] = Sent("snapshot", m.wire[k].seq)
      <4>1. k + 1 < Len(l.wire) /\ l.wire[(k + 1) + 1] = Sent("snapshot", l.wire[k + 1].seq)
        BY <1>2, <3>1, <3>3 DEF LinkFollows
      <4>2. k \in Nat /\ k < Len(m.wire) /\ k + 1 \in 1..Len(m.wire)
        BY <1>1, <2>1, <2>2, <3>1, <4>1
      <4>3. m.wire[k + 1] = l.wire[(k + 1) + 1]
        BY <2>1, <2>2, <4>2
      <4> QED BY <3>1, <4>1, <4>2, <4>3
    <3> QED BY <3>1, <3>2, <3>3
  <2> QED BY <1>2, <2>1, <2>3 DEF LinkFollows
<1> QED BY <1>3, <1>4, <1>5 DEF l

\* A batch says what it is about, and its state comes with a gameplay event.
LEMMA BatchFollows ==
  ASSUME NEW n \in 1..Len(history)
  PROVE  /\ Len(Batch(n)) \in Nat /\ Len(Batch(n)) >= 1
         /\ \A k \in 1..Len(Batch(n)) : 
              /\ Batch(n)[k].seq = n
              /\ Batch(n)[k].type = "event" /\ history[n] = "gameplay" =>
                   k < Len(Batch(n)) /\ Batch(n)[k + 1] = Sent("snapshot", n)
<1> DEFINE event == Sent("event", n)
           snapshot == Sent("snapshot", n)
<1>1. event.seq = n /\ snapshot.seq = n /\ event.type = "event" /\ snapshot.type = "snapshot"
  BY DEF Sent
<1>2. Batch(n) = IF history[n] = "gameplay" THEN <<event, snapshot>> ELSE <<event>>
  BY DEF Batch
<1> HIDE DEF event, snapshot
<1>3. CASE history[n] = "gameplay"
  <2>1. Batch(n) = <<event, snapshot>>
    BY <1>2, <1>3
  <2> QED BY <1>1, <2>1 DEF snapshot
<1>4. CASE history[n] # "gameplay"
  <2>1. Batch(n) = <<event>>
    BY <1>2, <1>4
  <2> QED BY <1>1, <1>4, <2>1
<1> QED BY <1>3, <1>4

\* What a batch adds to a link that follows.
LEMMA ToldFollows ==
  ASSUME LinkTypeOK(Purpose), LinksFollow, NEW a \in Attempt, NEW n \in untold,
         n > links[a].seen
  PROVE  /\ n \in 1..Len(history)
         /\ [links[a] EXCEPT !.seen = n, !.wire = links[a].wire \o Batch(n)].seen = n
         /\ [links[a] EXCEPT !.seen = n, !.wire = links[a].wire \o Batch(n)].state = links[a].state
         /\ [links[a] EXCEPT !.seen = n, !.wire = links[a].wire \o Batch(n)].wire
              = links[a].wire \o Batch(n)
         /\ Len(links[a].wire \o Batch(n)) = Len(links[a].wire) + Len(Batch(n))
         /\ \A k \in 1..Len(links[a].wire) : (links[a].wire \o Batch(n))[k] = links[a].wire[k]
         /\ \A k \in 1..Len(Batch(n)) :
              (links[a].wire \o Batch(n))[Len(links[a].wire) + k] = Batch(n)[k]
<1>1. n \in 1..Len(history) /\ n \in 1..MaxSequence
  BY DEF LinksFollow, LinkTypeOK
<1>2. Batch(n) \in Seq(Message)
  BY <1>1, BatchType
<1>3. links[a] \in Link /\ links[a].wire \in Seq(Message)
  BY LinkParts
<1>4. /\ [links[a] EXCEPT !.seen = n, !.wire = links[a].wire \o Batch(n)].seen = n
      /\ [links[a] EXCEPT !.seen = n, !.wire = links[a].wire \o Batch(n)].state = links[a].state
      /\ [links[a] EXCEPT !.seen = n, !.wire = links[a].wire \o Batch(n)].wire
           = links[a].wire \o Batch(n)
  BY <1>3 DEF Link
<1>5. /\ Len(links[a].wire \o Batch(n)) = Len(links[a].wire) + Len(Batch(n))
      /\ \A k \in 1..Len(links[a].wire) : (links[a].wire \o Batch(n))[k] = links[a].wire[k]
      /\ \A k \in 1..Len(Batch(n)) :
           (links[a].wire \o Batch(n))[Len(links[a].wire) + k] = Batch(n)[k]
  <2> DEFINE w == links[a].wire
             b == Batch(n)
  <2>1. w \in Seq(Message) /\ b \in Seq(Message)
    BY <1>2, <1>3
  <2> HIDE DEF w, b
  <2>2. /\ Len(w \o b) = Len(w) + Len(b)
        /\ \A k \in 1..Len(w) : (w \o b)[k] = w[k]
        /\ \A k \in 1..Len(b) : (w \o b)[Len(w) + k] = b[k]
    BY <2>1
  <2> QED BY <2>2 DEF w, b
<1> QED BY <1>1, <1>4, <1>5

\* A link keeps following when it is told of an event.
LEMMA TellFollows ==
  ASSUME LinkTypeOK(Purpose), LinksFollow, NEW n \in untold, Tell(n)
  PROVE  LinksFollow'
<1>1. /\ history' = history /\ untold' = untold \ {n} /\ reads' = reads
      /\ n \in 1..Len(history) /\ Len(history) \in Nat
  <2>1. Len(history) \in Nat
    BY DEF LinkTypeOK
  <2> QED BY <2>1 DEF Tell, LinksFollow
<1>2. ASSUME NEW a \in Attempt
      PROVE  LinkFollows(links[a])'
  <2>1. links[a].seen \in Nat /\ LinkFollows(links[a]) /\ Len(links[a].wire) \in Nat
        /\ links[a].wire \in Seq(Message)
    BY LinkParts DEF LinksFollow
  <2>2. CASE links[a].state = "open" /\ n > links[a].seen
    <3> DEFINE w == links[a].wire
               b == Batch(n)
    <3>1. links'[a] = [links[a] EXCEPT !.seen = n, !.wire = links[a].wire \o Batch(n)]
      BY <2>2 DEF Tell
    <3>2. /\ links'[a].seen = n /\ links'[a].wire = w \o b /\ links'[a].state = "open"
          /\ Len(w \o b) = Len(w) + Len(b)
          /\ \A k \in 1..Len(w) : (w \o b)[k] = w[k]
          /\ \A k \in 1..Len(b) : (w \o b)[Len(w) + k] = b[k]
      <4> DEFINE told == [links[a] EXCEPT !.seen = n, !.wire = links[a].wire \o Batch(n)]
      <4>1. /\ told.seen = n
            /\ told.state = links[a].state
            /\ told.wire = links[a].wire \o Batch(n)
        BY <2>2, ToldFollows
      <4>2. /\ Len(w \o b) = Len(w) + Len(b)
            /\ \A k \in 1..Len(w) : (w \o b)[k] = w[k]
            /\ \A k \in 1..Len(b) : (w \o b)[Len(w) + k] = b[k]
        BY <2>2, ToldFollows, ZenonT(40)
      <4>3. links'[a] = told /\ links[a].wire \o Batch(n) = w \o b
        BY <3>1
      <4> HIDE DEF told, w, b
      <4> QED BY <2>2, <4>1, <4>2, <4>3
    <3>3. /\ Len(b) \in Nat /\ Len(b) >= 1 /\ Len(w) \in Nat
          /\ \A k \in 1..Len(b) : 
               /\ b[k].seq = n
               /\ b[k].type = "event" /\ history[n] = "gameplay" =>
                    k < Len(b) /\ b[k + 1] = Sent("snapshot", n)
      BY <1>1, <2>1, BatchFollows
    <3>4. \A k \in 1..Len(w) :
            /\ w[k].seq <= Len(history)
            /\ w[k].type = "event" /\ history[w[k].seq] = "gameplay" =>
                 k < Len(w) /\ w[k + 1] = Sent("snapshot", w[k].seq)
      BY <2>1 DEF LinkFollows
    <3> HIDE DEF w, b
    <3> DEFINE x == w \o b
    <3>5. ASSUME NEW k \in 1..Len(x)
          PROVE  /\ x[k].seq <= Len(history)
                 /\ x[k].type = "event" /\ history[x[k].seq] = "gameplay" =>
                      k < Len(x) /\ x[k + 1] = Sent("snapshot", x[k].seq)
      <4>1. CASE k \in 1..Len(w)
        <5>1. x[k] = w[k] /\ w[k].seq <= Len(history)
          BY <3>2, <3>4, <4>1
        <5>2. ASSUME w[k].type = "event", history[w[k].seq] = "gameplay"
              PROVE  k < Len(x) /\ x[k + 1] = Sent("snapshot", w[k].seq)
          <6>1. k < Len(w) /\ w[k + 1] = Sent("snapshot", w[k].seq)
            BY <3>4, <4>1, <5>2
          <6>2. k + 1 \in 1..Len(w) /\ k < Len(x)
            BY <3>2, <3>3, <4>1, <6>1
          <6> QED BY <3>2, <6>1, <6>2
        <5> QED BY <5>1, <5>2
      <4>2. CASE k \notin 1..Len(w)
        <5>1. PICK i \in 1..Len(b) : k = Len(w) + i
          <6>1. k - Len(w) \in 1..Len(b) /\ k = Len(w) + (k - Len(w))
            BY <3>2, <3>3, <4>2
          <6> QED BY <6>1
        <5>2. x[k] = b[i] /\ b[i].seq = n
          BY <3>2, <3>3, <5>1
        <5>3. ASSUME b[i].type = "event", history[n] = "gameplay"
              PROVE  k < Len(x) /\ x[k + 1] = Sent("snapshot", n)
          <6>1. i < Len(b) /\ b[i + 1] = Sent("snapshot", n)
            BY <3>3, <5>3
          <6>2. i + 1 \in 1..Len(b) /\ k + 1 = Len(w) + (i + 1) /\ k < Len(x)
            BY <3>2, <3>3, <5>1, <6>1
          <6> QED BY <3>2, <6>1, <6>2
        <5> QED BY <1>1, <5>2, <5>3
      <4> QED BY <4>1, <4>2
    <3>6. \A m \in 1..Len(history) : m > n => m \in untold \ {n}
      <4>1. \A m \in 1..Len(history) : m > links[a].seen => m \in untold
        BY <2>1, <2>2 DEF LinkFollows
      <4> QED BY <1>1, <2>1, <2>2, <4>1
    <3>7. links'[a].wire = x
      BY <3>2
    <3> HIDE DEF x
    <3> QED BY <1>1, <3>2, <3>5, <3>6, <3>7 DEF LinkFollows
  <2>3. CASE ~(links[a].state = "open" /\ n > links[a].seen)
    <3>1. links'[a] = links[a]
      BY <2>3 DEF Tell
    <3>2. \A m \in 1..Len(history) :
            links[a].state = "open" /\ m > links[a].seen => m \in untold \ {n}
      BY <2>1, <2>3 DEF LinkFollows
    <3> QED BY <1>1, <2>1, <3>1, <3>2 DEF LinkFollows
  <2> QED BY <2>2, <2>3
<1> QED BY <1>1, <1>2 DEF LinksFollow

\* Joining replaces the messages by the current state.
LEMMA JoinFollows ==
  ASSUME LinkTypeOK(Purpose), LinksFollow, NEW a \in Attempt, Join(a)
  PROVE  LinksFollow'
<1>1. history' = history /\ untold' = untold /\ reads' = reads /\ Len(history) \in Nat
  BY DEF Join, LinkTypeOK
<1>2. ASSUME NEW b \in Attempt
      PROVE  LinkFollows(links[b])'
  <2>1. CASE b = a
    <3>1. links'[b] = [state |-> "open", seen |-> Len(history),
                       wire |-> <<Sent("snapshot", Len(history))>>]
      BY <2>1 DEF Join
    <3>2. links'[b].seen = Len(history) /\ links'[b].wire = <<Sent("snapshot", Len(history))>>
      BY <3>1
    <3>3. Sent("snapshot", Len(history)).seq = Len(history)
          /\ Sent("snapshot", Len(history)).type = "snapshot"
      BY DEF Sent
    <3> DEFINE m == Sent("snapshot", Len(history))
    <3> HIDE DEF m
    <3>4. Len(<<m>>) = 1 /\ <<m>>[1] = m
      OBVIOUS
    <3> QED BY <1>1, <3>2, <3>3, <3>4 DEF LinkFollows, m
  <2>2. CASE b # a /\ links[b].state = "open"
    <3>1. links'[b] = [links[b] EXCEPT !.state = "closing"]
      BY <2>2 DEF Join
    <3>2. LinkFollows([links[b] EXCEPT !.state = "closing"])
      BY EndsFollow
    <3> QED BY <1>1, <3>1, <3>2 DEF LinkFollows
  <2>3. CASE b # a /\ links[b].state # "open"
    <3>1. links'[b] = links[b] /\ LinkFollows(links[b])
      BY <2>3 DEF Join, LinksFollow
    <3> QED BY <1>1, <3>1 DEF LinkFollows
  <2> QED BY <2>1, <2>2, <2>3
<1> QED BY <1>1, <1>2 DEF LinksFollow

\* A read is answered with what is committed.
LEMMA AnswerFollows ==
  ASSUME LinkTypeOK(Purpose), LinksFollow, NEW r \in reads, AnswerRead(r)
  PROVE  LinksFollow'
<1>1. UNCHANGED <<history, untold, links>> /\ Len(history) \in Nat
  BY DEF AnswerRead, LinkTypeOK
<1>2. [r EXCEPT !.at = Len(history)].at = Len(history)
  BY DEF LinkTypeOK, Read
<1>3. \A q \in reads' : q.at <= Len(history)
  <2> DEFINE answer == [r EXCEPT !.at = Len(history)]
  <2>1. reads' = (reads \ {r}) \cup {answer} /\ answer.at = Len(history)
    BY <1>2 DEF AnswerRead
  <2>2. \A q \in reads : q.at <= Len(history)
    BY DEF LinksFollow
  <2> HIDE DEF answer
  <2> QED BY <1>1, <2>1, <2>2
<1> QED BY <1>1, <1>3 DEF LinksFollow, LinkFollows

\* What is committed stays, and is yet to be told.
LEMMA CommitFollows ==
  ASSUME LinkTypeOK(Purpose), LinksFollow, NEW kind \in {"gameplay", "management"},
         Committed(kind), UNCHANGED <<links, reads>>
  PROVE  /\ LinksFollow'
         /\ Len(history') = Len(history) + 1
         /\ \A n \in 1..Len(history) : history'[n] = history[n]
<1>1. /\ history \in Seq({"gameplay", "management"}) /\ Len(history) \in Nat
      /\ history' = Append(history, kind)
      /\ untold' = untold \cup {Len(history) + 1}
  BY DEF Committed, LinkTypeOK
<1>2. /\ Len(history') = Len(history) + 1
      /\ \A n \in 1..Len(history) : history'[n] = history[n]
  BY <1>1
<1>3. ASSUME NEW a \in Attempt
      PROVE  LinkFollows(links[a])'
  <2> DEFINE l == links[a]
  <2>1. /\ LinkFollows(l) /\ links'[a] = l
        /\ \A k \in 1..Len(l.wire) : l.wire[k] \in Message /\ l.wire[k].seq \in Nat
    BY LinkParts DEF LinksFollow
  <2> HIDE DEF l
  <2>2. l.seen <= Len(history')
    BY <1>1, <1>2, <2>1, LinkParts DEF LinkFollows, l
  <2>3. l.state = "open" => \A n \in 1..Len(history') : n > l.seen => n \in untold'
    BY <1>1, <1>2, <2>1 DEF LinkFollows
  <2>4. ASSUME NEW k \in 1..Len(l.wire)
        PROVE  /\ l.wire[k].seq <= Len(history')
               /\ l.wire[k].type = "event" /\ history'[l.wire[k].seq] = "gameplay" =>
                    k < Len(l.wire) /\ l.wire[k + 1] = Sent("snapshot", l.wire[k].seq)
    <3>1. l.wire[k].seq <= Len(history) /\ l.wire[k].seq \in Nat /\ l.wire[k] \in Message
      BY <2>1 DEF LinkFollows
    <3>2. l.wire[k].type = "event" => l.wire[k].seq \in 1..Len(history)
      BY <1>1, <3>1 DEF Message
    <3>3. l.wire[k].type = "event" => history'[l.wire[k].seq] = history[l.wire[k].seq]
      BY <1>2, <3>2
    <3>4. l.wire[k].seq <= Len(history')
      BY <1>1, <1>2, <3>1
    <3>5. l.wire[k].type = "event" /\ history[l.wire[k].seq] = "gameplay" =>
            k < Len(l.wire) /\ l.wire[k + 1] = Sent("snapshot", l.wire[k].seq)
      BY <2>1 DEF LinkFollows
    <3> QED BY <3>3, <3>4, <3>5
  <2> QED BY <2>1, <2>2, <2>3, <2>4 DEF LinkFollows
<1>4. untold' \subseteq 1..Len(history')
  <2>1. untold \subseteq 1..Len(history)
    BY DEF LinksFollow
  <2>2. ASSUME NEW n \in untold'
        PROVE  n \in 1..Len(history')
    <3>1. n \in 1..Len(history) \/ n = Len(history) + 1
      BY <1>1, <2>1
    <3> QED BY <1>1, <1>2, <3>1
  <2> QED BY <2>2
<1>5. \A r \in reads' : r.at <= Len(history')
  <2>1. \A r \in reads : r.at \in Int
    BY LinkAssumption DEF LinkTypeOK, Read, NotRead, Sequence
  <2> QED BY <1>1, <1>2, <2>1 DEF LinksFollow
<1> QED BY <1>2, <1>3, <1>4, <1>5 DEF LinksFollow

-----------------------------------------------------------------------------
(* What is on the way stays on the way.                                    *)

LEMMA ReadTimes ==
  ASSUME LinkTypeOK(Purpose), NEW r \in reads
  PROVE  r.at \in Int
BY LinkAssumption DEF LinkTypeOK, Read, NotRead, Sequence

LEMMA TellArrives ==
  ASSUME LinkTypeOK(Purpose), LinksFollow, NEW n \in untold, Tell(n), NEW a \in Attempt
  PROVE  /\ \A m \in Int : Wired(a, m) => Wired(a, m)'
         /\ \A m \in Int : Told(a, m) => Told(a, m)'
         /\ \/ links'[a] = links[a]
            \/ links'[a].seen = n /\ Told(a, n)'
<1>1. CASE links[a].state = "open" /\ n > links[a].seen
  <2> DEFINE w == links[a].wire
             b == Batch(n)
             told == [links[a] EXCEPT !.seen = n, !.wire = links[a].wire \o Batch(n)]
  <2>1. links'[a] = told
    BY <1>1 DEF Tell
  <2>2. /\ n \in 1..Len(history) /\ told.seen = n /\ told.wire = w \o b
        /\ Len(w \o b) = Len(w) + Len(b)
        /\ \A k \in 1..Len(w) : (w \o b)[k] = w[k]
        /\ \A k \in 1..Len(b) : (w \o b)[Len(w) + k] = b[k]
    BY <1>1, ToldFollows
  <2>3. Len(w) \in Nat /\ Len(b) \in Nat /\ Len(b) >= 1 /\ b[1].seq = n
    BY <2>2, LinkParts, BatchFollows
  <2> DEFINE x == w \o b
  <2>4. links'[a].wire = x /\ links'[a].seen = n
    BY <2>1, <2>2
  <2>5. \A k \in 1..Len(w) : k \in 1..Len(x) /\ x[k] = w[k]
    <3> HIDE DEF w, b
    <3> QED BY <2>2, <2>3
  <2>6. Len(w) + 1 \in 1..Len(x) /\ x[Len(w) + 1].seq >= n
    <3>1. 1 \in 1..Len(b) /\ n \in Int
      BY <2>2, <2>3
    <3> HIDE DEF w, b
    <3> QED BY <2>2, <2>3, <3>1
  <2> HIDE DEF x, b, told
  <2>7. ASSUME NEW m \in Int, Wired(a, m) PROVE Wired(a, m)'
    <3>1. PICK k \in 1..Len(w) : w[k].type = "snapshot" /\ w[k].seq >= m
      BY <2>7 DEF Wired
    <3> QED BY <2>4, <2>5, <3>1 DEF Wired
  <2>8. ASSUME NEW m \in Int, Told(a, m) PROVE Told(a, m)'
    <3>1. PICK k \in 1..Len(w) : w[k].seq >= m
      BY <2>8 DEF Told
    <3> QED BY <2>4, <2>5, <3>1 DEF Told
  <2>9. Told(a, n)'
    BY <2>4, <2>6 DEF Told
  <2> QED BY <2>4, <2>7, <2>8, <2>9
<1>2. CASE ~(links[a].state = "open" /\ n > links[a].seen)
  <2>1. links'[a] = links[a]
    BY <1>2 DEF Tell
  <2> QED BY <2>1 DEF Wired, Told
<1> QED BY <1>1, <1>2

LEMMA JoinArrives ==
  ASSUME LinkTypeOK(Purpose), LinksFollow, NEW b \in Attempt, Join(b), NEW a \in Attempt
  PROVE  /\ \A m \in Int : m <= Len(history) /\ Wired(a, m) => Wired(a, m)'
         /\ \/ links'[a] = links[a]
            \/ links'[a].state # "open"
            \/ links'[a].seen = Len(history) /\ Told(a, Len(history))' /\ Wired(a, 0)'
<1> DEFINE first == Sent("snapshot", Len(history))
           opened == [state |-> "open", seen |-> Len(history), wire |-> <<first>>]
<1>1. Len(history) \in Nat /\ first.seq = Len(history) /\ first.type = "snapshot"
  BY DEF LinkTypeOK, Sent
<1>2. CASE a = b
  <2>1. links'[a] = opened
    BY <1>2 DEF Join
  <2>2. opened.seen = Len(history) /\ opened.wire = <<first>>
    OBVIOUS
  <2> HIDE DEF first
  <2>3. Len(<<first>>) = 1 /\ 1 \in 1..1 /\ <<first>>[1] = first
    OBVIOUS
  <2> HIDE DEF opened
  <2>4. ASSUME NEW m \in Int, m <= Len(history) PROVE Wired(a, m)' /\ Told(a, m)'
    BY <1>1, <2>1, <2>2, <2>3, <2>4 DEF Wired, Told
  <2>5. Told(a, Len(history))'
    <3>1. history' = history
      BY DEF Join
    <3> QED BY <1>1, <2>1, <2>2, <2>3, <3>1 DEF Told
  <2>6. Wired(a, 0)'
    BY <1>1, <2>4
  <2> QED BY <1>1, <2>1, <2>2, <2>4, <2>5, <2>6
<1>3. CASE a # b /\ links[a].state = "open"
  <2> DEFINE closing == [links[a] EXCEPT !.state = "closing"]
  <2>1. links'[a] = closing
    BY <1>3 DEF Join
  <2>2. closing.state = "closing" /\ closing.wire = links[a].wire
    BY LinkParts DEF Link
  <2> HIDE DEF closing
  <2> QED BY <2>1, <2>2 DEF Wired
<1>4. CASE a # b /\ links[a].state # "open"
  <2>1. links'[a] = links[a]
    BY <1>4 DEF Join
  <2> QED BY <2>1 DEF Wired
<1> QED BY <1>2, <1>3, <1>4

\* What taking the first message leaves.
LEMMA TakenLeaves ==
  ASSUME LinkTypeOK(Purpose), LinksFollow, NEW a \in Attempt, Taken(a), links[a].wire # <<>>,
         UNCHANGED <<history, untold>>
  PROVE  /\ Head(links[a].wire) = links[a].wire[1] /\ 1 \in 1..Len(links[a].wire)
         /\ Head(links[a].wire) \in Message
         /\ links'[a].state = links[a].state /\ links'[a].seen = links[a].seen
         /\ \A n \in Int : Wired(a, n) => 
              Wired(a, n)' \/ (Head(links[a].wire).type = "snapshot" /\ Head(links[a].wire).seq >= n)
         /\ \A n \in Int : Told(a, n) => Told(a, n)' \/ Head(links[a].wire).seq >= n
         /\ \A m, n \in Int :
              Head(links[a].wire) = Sent("event", n) /\ history[n] = "gameplay" /\ m <= n =>
                Wired(a, m)'
         /\ \A b \in Attempt : LinkFollows(links[b])'
<1> DEFINE w == links[a].wire
           left == [links[a] EXCEPT !.wire = Tail(links[a].wire)]
<1>1. links[a] \in Link /\ w \in Seq(Message) /\ w # <<>> /\ Len(w) \in Nat /\ LinkFollows(links[a])
  BY LinkParts DEF LinksFollow
<1>2. /\ links'[a] = left
      /\ \A b \in Attempt : b # a => links'[b] = links[b]
  BY DEF Taken, LinkTypeOK
<1>3. left.state = links[a].state /\ left.seen = links[a].seen /\ left.wire = Tail(w)
  BY <1>1 DEF Link
<1>4. /\ Head(w) = w[1] /\ 1 \in 1..Len(w) /\ w[1] \in Message
      /\ Len(Tail(w)) = Len(w) - 1
      /\ \A k \in 1..Len(w) : k # 1 => k - 1 \in 1..Len(Tail(w)) /\ Tail(w)[k - 1] = w[k]
  <2> HIDE DEF w
  <2> QED BY <1>1
<1> DEFINE t == Tail(w)
<1>5. links'[a].wire = t
  BY <1>2, <1>3
<1>6. \A k \in 1..Len(w) : k # 1 => k - 1 \in 1..Len(t) /\ t[k - 1] = w[k]
  BY <1>4
<1>7. \A b \in Attempt : LinkFollows(links[b])'
  <2>1. LinkFollows(left)
    BY EndsFollow
  <2> HIDE DEF left
  <2>2. LinkFollows(links[a])'
    BY <1>2, <2>1 DEF LinkFollows
  <2>3. ASSUME NEW b \in Attempt, b # a PROVE LinkFollows(links[b])'
    BY <1>2, <2>3 DEF LinkFollows, LinksFollow
  <2> QED BY <2>2, <2>3
<1>8. ASSUME NEW m \in Int, NEW n \in Int, w[1] = Sent("event", n), history[n] = "gameplay",
             m <= n
      PROVE  Wired(a, m)'
  <2>1. w[1].type = "event" /\ w[1].seq = n
    BY <1>8 DEF Sent
  <2>2. 1 < Len(w) /\ w[1 + 1] = Sent("snapshot", n)
    BY <1>1, <1>4, <1>8, <2>1 DEF LinkFollows
  <2>3. 2 \in 1..Len(w) /\ w[2] = Sent("snapshot", n)
    BY <1>1, <2>2
  <2>4. 2 - 1 \in 1..Len(t) /\ t[2 - 1] = w[2]
    BY <1>6, <2>3
  <2>5. 1 \in 1..Len(t) /\ t[1].type = "snapshot" /\ t[1].seq >= m
    BY <1>8, <2>3, <2>4 DEF Sent
  <2> HIDE DEF t
  <2> QED BY <1>5, <2>5 DEF Wired
<1>9. ASSUME NEW n \in Int, Wired(a, n)
      PROVE  Wired(a, n)' \/ (w[1].type = "snapshot" /\ w[1].seq >= n)
  <2>1. PICK k \in 1..Len(w) : w[k].type = "snapshot" /\ w[k].seq >= n
    BY <1>9 DEF Wired
  <2> HIDE DEF t, w
  <2>2. CASE k = 1
    BY <2>1, <2>2
  <2>3. CASE k # 1
    <3>1. PICK j \in 1..Len(t) : t[j] = w[k]
      BY <1>6, <2>3
    <3>2. t[j].type = "snapshot" /\ t[j].seq >= n
      BY <2>1, <3>1
    <3> QED BY <1>5, <3>2 DEF Wired
  <2> QED BY <2>2, <2>3
<1>10. ASSUME NEW n \in Int, Told(a, n)
       PROVE  Told(a, n)' \/ w[1].seq >= n
  <2>1. PICK k \in 1..Len(w) : w[k].seq >= n
    BY <1>10 DEF Told
  <2> HIDE DEF t, w
  <2>2. CASE k = 1
    BY <2>1, <2>2
  <2>3. CASE k # 1
    <3>1. PICK j \in 1..Len(t) : t[j] = w[k]
      BY <1>6, <2>3
    <3>2. t[j].seq >= n
      BY <2>1, <3>1
    <3> QED BY <1>5, <3>2 DEF Told
  <2> QED BY <2>2, <2>3
<1>11. links'[a].state = links[a].state /\ links'[a].seen = links[a].seen
  BY <1>2, <1>3
<1> HIDE DEF t, left
<1> QED BY <1>4, <1>7, <1>8, <1>9, <1>10, <1>11

-----------------------------------------------------------------------------
(* Reads, versions and the links of a player.                              *)

\* Asking adds a read that is under way.
LEMMA AskAdds ==
  ASSUME NEW purpose, NEW a, Ask(purpose, a)
  PROVE  \E r : /\ r.purpose = purpose /\ r.attempt = a /\ r.at = NotRead
                /\ reads' = reads \cup {r}
                /\ purpose \in Purpose /\ a \in Attempt => r \in Read(Purpose)
<1>1. PICK slot \in FreeSlots :
        reads' = reads \cup {[slot |-> slot, purpose |-> purpose, attempt |-> a, at |-> NotRead]}
  BY DEF Ask
<1> DEFINE asked == [slot |-> slot, purpose |-> purpose, attempt |-> a, at |-> NotRead]
<1>2. /\ asked.purpose = purpose /\ asked.attempt = a /\ asked.at = NotRead
      /\ reads' = reads \cup {asked}
  BY <1>1
<1>3. purpose \in Purpose /\ a \in Attempt => asked \in Read(Purpose)
  BY <1>1 DEF FreeSlots, Read
<1> HIDE DEF asked
<1> QED BY <1>2, <1>3

\* An answer is the read with what was committed.
LEMMA AnswerAdds ==
  ASSUME LinkTypeOK(Purpose), NEW r \in reads, AnswerRead(r)
  PROVE  \E q : /\ q.purpose = r.purpose /\ q.attempt = r.attempt /\ q.at = Len(history)
                /\ reads' = (reads \ {r}) \cup {q}
<1> DEFINE answer == [r EXCEPT !.at = Len(history)]
<1>1. answer.purpose = r.purpose /\ answer.attempt = r.attempt /\ answer.at = Len(history)
  BY DEF LinkTypeOK, Read
<1>2. reads' = (reads \ {r}) \cup {answer}
  BY DEF AnswerRead
<1> HIDE DEF answer
<1> QED BY <1>1, <1>2

\* A version is a number of events.
LEMMA VersionType ==
  ASSUME NEW n \in Int, n <= MaxSequence
  PROVE  Version(n) \in Sequence /\ Version(n) \in Nat
<1> DEFINE S == {i \in 1..n : history[i] = "gameplay"}
<1>1. IsFiniteSet(1..n) /\ Cardinality(1..n) <= MaxSequence
  <2>1. /\ IsFiniteSet(1..n)
        /\ Cardinality(1..n) = IF 1 > n THEN 0 ELSE n - 1 + 1
    BY FS_Interval
  <2> QED BY <2>1, LinkAssumption
<1>2. S \in SUBSET (1..n)
  OBVIOUS
<1> HIDE DEF S
<1>3. Cardinality(S) <= Cardinality(1..n) /\ IsFiniteSet(S)
  BY <1>1, <1>2, FS_Subset
<1>4. Cardinality(S) \in Nat /\ Cardinality(1..n) \in Nat
  BY <1>1, <1>3, FS_CardinalityType
<1>5. Cardinality(S) \in 0..MaxSequence
  BY <1>1, <1>3, <1>4, LinkAssumption
<1> QED BY <1>4, <1>5 DEF Version, S, Sequence

\* What is committed keeps its version.
LEMMA VersionKept ==
  ASSUME NEW n \in Int, n <= Len(history), Len(history) \in Nat,
         \A i \in 1..Len(history) : history'[i] = history[i]
  PROVE  Version(n)' = Version(n)
<1>1. \A i \in 1..n : i \in 1..Len(history)
  OBVIOUS
<1>2. {i \in 1..n : history'[i] = "gameplay"} = {i \in 1..n : history[i] = "gameplay"}
  BY <1>1
<1> QED BY <1>2 DEF Version

\* The types of the links, and the length of the history.
LEMMA LinkTypes ==
  ASSUME TypeOK
  PROVE  LinkTypeOK(Purpose) /\ Len(history) \in Nat /\ Len(history) <= MaxSequence
<1>1. LinkTypeOK(Purpose)
  BY DEF TypeOK
<1> QED BY <1>1 DEF LinkTypeOK

\* What a step that commits at most does to the history.
HistoryGrows ==
  /\ Len(history') \in Nat /\ Len(history') >= Len(history)
  /\ \A i \in 1..Len(history) : history'[i] = history[i]

\* A commit adds an event.
LEMMA CommittedGrows ==
  ASSUME LinkTypeOK(Purpose), NEW kind \in {"gameplay", "management"}, Committed(kind)
  PROVE  /\ HistoryGrows
         /\ history' \in Seq({"gameplay", "management"}) /\ Len(history') <= MaxSequence
         /\ Len(history') = Len(history) + 1 /\ Len(history) + 1 \in 1..MaxSequence
         /\ untold' \subseteq 1..MaxSequence
<1>1. /\ history \in Seq({"gameplay", "management"})
      /\ Len(history) < MaxSequence
      /\ history' = Append(history, kind)
      /\ untold' = untold \cup {Len(history) + 1}
      /\ untold \subseteq 1..MaxSequence
  BY DEF Committed, LinkTypeOK
<1>2. /\ history' \in Seq({"gameplay", "management"})
      /\ Len(history') = Len(history) + 1
      /\ Len(history) \in Nat
      /\ \A i \in 1..Len(history) : history'[i] = history[i]
  BY <1>1
<1>3. Len(history) + 1 \in 1..MaxSequence /\ Len(history') <= MaxSequence
  BY <1>1, <1>2, LinkAssumption
<1>4. Len(history') \in Nat /\ Len(history') >= Len(history)
  BY <1>2
<1> QED BY <1>1, <1>2, <1>3, <1>4 DEF HistoryGrows

\* A step without a commit adds none.
LEMMA HistoryStays ==
  ASSUME LinkTypeOK(Purpose), history' = history
  PROVE  HistoryGrows
<1>1. Len(history) \in Nat
  BY DEF LinkTypeOK
<1> QED BY <1>1 DEF HistoryGrows

-----------------------------------------------------------------------------
(* The cursor and the board as numbers.                                    *)

\* They point at committed events.
LEMMA Numbers ==
  ASSUME TypeOK, CursorCounts
  PROVE  /\ cursor.seq \in Nat /\ cursor.seq <= Len(history)
         /\ cursor.version \in Nat /\ cursor.version = Version(cursor.seq)
         /\ board \in Int /\ board <= Len(history) /\ board >= -1
         /\ Len(history) \in Nat /\ Len(history) <= MaxSequence
         /\ phase # "left" => board \in Sequence
<1>1. Len(history) \in Nat /\ Len(history) <= MaxSequence
  BY LinkTypes
<1>2. /\ cursor.seq \in Sequence /\ cursor.version \in Sequence
      /\ board \in {NoState} \cup Sequence
  BY DEF TypeOK
<1>3. \A n \in Sequence : n \in Nat
  BY LinkAssumption DEF Sequence
<1>4. board \in Int /\ board >= -1
  BY <1>2, <1>3 DEF NoState
<1> QED BY <1>1, <1>2, <1>3, <1>4 DEF CursorCounts

\* What shows a state shows one that is committed.
LEMMA ShowCounts ==
  ASSUME TypeOK, CursorCounts, NEW n \in Nat, n <= Len(history), Show(n), history' = history
  PROVE  /\ cursor' = At(n) /\ cursor'.seq = n /\ cursor'.version = Version(n)
         /\ cursor' \in [seq : Sequence, version : Sequence]
         /\ board' \in {NoState} \cup Sequence
         /\ board' = NoState => board = NoState
         /\ board # NoState => board' = n
         /\ board' <= Len(history)
         /\ (cursor.version)' = Version(cursor.seq)'
<1>1. cursor' = [seq |-> n, version |-> Version(n)]
  BY DEF Show, At
<1>2. n \in Sequence /\ Version(n) \in Sequence /\ Len(history) \in Nat
  <2>1. n <= MaxSequence /\ Len(history) \in Nat
    BY Numbers, LinkAssumption
  <2> QED BY <2>1, VersionType, LinkAssumption DEF Sequence
<1>3. /\ board' \in {NoState} \cup Sequence
      /\ board' = NoState => board = NoState
      /\ board # NoState => board' = n
      /\ board' <= Len(history)
  <2>1. (board' = NoState /\ board = NoState) \/ (board # NoState /\ board' = n)
    BY DEF Show
  <2>2. n # NoState /\ NoState <= Len(history)
    BY <1>2 DEF NoState
  <2> QED BY <1>2, <2>1, <2>2
<1>4. Version(n)' = Version(n)
  BY DEF Version
<1>5. cursor' = At(n) /\ cursor'.seq = n /\ cursor'.version = Version(n)
      /\ cursor' \in [seq : Sequence, version : Sequence]
  BY <1>1, <1>2 DEF At
<1>6. (cursor.version)' = Version(cursor.seq)'
  BY <1>4, <1>5
<1> QED BY <1>3, <1>5, <1>6

-----------------------------------------------------------------------------
(* One link at a time.                                                     *)

\* A link stays in order when its state changes, when its messages are dropped
\* and when the first of them is taken.
LEMMA EndsInOrder ==
  ASSUME LinkTypeOK(Purpose), LatestIsLast, NEW a \in Attempt
  PROVE  /\ \A state \in {"joining", "closing", "closed"} :
              InOrder([links[a] EXCEPT !.state = state])
         /\ InOrder([links[a] EXCEPT !.state = "closed", !.wire = <<>>])
         /\ links[a].wire # <<>> => InOrder([links[a] EXCEPT !.wire = Tail(links[a].wire)])
<1> DEFINE l == links[a]
<1>1. l \in Link /\ l.wire \in Seq(Message) /\ Len(l.wire) \in Nat
  BY LinkParts
<1>2. InOrder(l)
  BY DEF LatestIsLast
<1> HIDE DEF l
<1>3. ASSUME NEW state \in {"joining", "closing", "closed"}
      PROVE  InOrder([l EXCEPT !.state = state])
  <2> DEFINE m == [l EXCEPT !.state = state]
  <2>1. m.seen = l.seen /\ m.wire = l.wire
    BY <1>1 DEF Link
  <2> HIDE DEF m
  <2> QED BY <1>2, <2>1 DEF InOrder
<1>4. InOrder([l EXCEPT !.state = "closed", !.wire = <<>>])
  <2> DEFINE m == [l EXCEPT !.state = "closed", !.wire = <<>>]
  <2>1. m.wire = <<>>
    BY <1>1 DEF Link
  <2> HIDE DEF m
  <2> QED BY <2>1 DEF InOrder
<1>5. ASSUME l.wire # <<>>
      PROVE  InOrder([l EXCEPT !.wire = Tail(l.wire)])
  <2> DEFINE m == [l EXCEPT !.wire = Tail(l.wire)]
  <2>1. m.seen = l.seen /\ m.wire = Tail(l.wire)
    BY <1>1 DEF Link
  <2>2. /\ Len(Tail(l.wire)) = Len(l.wire) - 1
        /\ \A k \in 1..Len(Tail(l.wire)) :
             k + 1 \in 1..Len(l.wire) /\ Tail(l.wire)[k] = l.wire[k + 1]
    BY <1>1, <1>5
  <2> HIDE DEF m
  <2>3. ASSUME NEW k \in 1..Len(m.wire), m.wire[k].type # "result", m.wire[k].seq # m.seen
        PROVE  \E j \in 1..Len(m.wire) : j > k /\ m.wire[j].seq = m.seen
    <3>1. k + 1 \in 1..Len(l.wire) /\ m.wire[k] = l.wire[k + 1]
      BY <2>1, <2>2
    <3>2. PICK j \in 1..Len(l.wire) : j > k + 1 /\ l.wire[j].seq = l.seen
      BY <1>2, <2>1, <2>3, <3>1 DEF InOrder
    <3>3. j - 1 \in 1..Len(m.wire) /\ j - 1 > k /\ (j - 1) + 1 = j
      BY <1>1, <2>1, <2>2, <3>2
    <3>4. m.wire[j - 1] = l.wire[j]
      BY <2>1, <2>2, <3>3
    <3> QED BY <2>1, <3>2, <3>3, <3>4
  <2>4. InOrder(m)
    BY <2>3 DEF InOrder
  <2> QED BY <2>4 DEF m
<1> QED BY <1>3, <1>4, <1>5 DEF l

\* A result goes to the end, and leaves what a link follows.
LEMMA ResultsFollow ==
  ASSUME LinkTypeOK(Purpose), LinksFollow, LatestIsLast, NEW a \in Attempt,
         NEW m \in Message, m.type = "result", NEW l \in Link,
         l.seen = links[a].seen, l.wire = Append(links[a].wire, m),
         l.state = "open" => links[a].state = "open"
  PROVE  LinkFollows(l) /\ InOrder(l)
<1> DEFINE w == links[a].wire
<1>1. /\ w \in Seq(Message) /\ Len(w) \in Nat
      /\ LinkFollows(links[a]) /\ InOrder(links[a])
  BY LinkParts DEF LinksFollow, LatestIsLast
<1>2. m.seq = 0 /\ Len(history) \in Nat
  <2>1. Len(history) \in Nat
    BY DEF LinkTypeOK
  <2> QED BY <2>1 DEF Message
<1>3. /\ Len(Append(w, m)) = Len(w) + 1
      /\ \A k \in 1..Len(w) : Append(w, m)[k] = w[k]
      /\ Append(w, m)[Len(w) + 1] = m
  <2> HIDE DEF w
  <2> QED BY <1>1
<1>4. l.wire = Append(w, m)
  OBVIOUS
<1>5. /\ \A k \in 1..Len(w) :
           /\ w[k].seq <= Len(history)
           /\ w[k].type = "event" /\ history[w[k].seq] = "gameplay" =>
                k < Len(w) /\ w[k + 1] = Sent("snapshot", w[k].seq)
      /\ \A k \in 1..Len(w) :
           w[k].type # "result" /\ w[k].seq # links[a].seen =>
             \E j \in 1..Len(w) : j > k /\ w[j].seq = links[a].seen
  BY <1>1 DEF LinkFollows, InOrder
<1> HIDE DEF w
<1>6. ASSUME NEW k \in 1..Len(l.wire)
      PROVE  /\ l.wire[k].seq <= Len(history)
             /\ l.wire[k].type = "event" /\ history[l.wire[k].seq] = "gameplay" =>
                  k < Len(l.wire) /\ l.wire[k + 1] = Sent("snapshot", l.wire[k].seq)
             /\ l.wire[k].type # "result" /\ l.wire[k].seq # l.seen =>
                  \E j \in 1..Len(l.wire) : j > k /\ l.wire[j].seq = l.seen
  <2>1. CASE k \in 1..Len(w)
    <3>1. l.wire[k] = w[k]
      BY <1>3, <1>4, <2>1
    <3>2. ASSUME w[k].type = "event", history[w[k].seq] = "gameplay"
          PROVE  k < Len(l.wire) /\ l.wire[k + 1] = Sent("snapshot", w[k].seq)
      <4>1. k < Len(w) /\ w[k + 1] = Sent("snapshot", w[k].seq)
        BY <1>5, <2>1, <3>2
      <4>2. k + 1 \in 1..Len(w) /\ k < Len(l.wire)
        BY <1>1, <1>3, <1>4, <2>1, <4>1
      <4> QED BY <1>3, <1>4, <4>1, <4>2
    <3>3. ASSUME w[k].type # "result", w[k].seq # l.seen
          PROVE  \E j \in 1..Len(l.wire) : j > k /\ l.wire[j].seq = l.seen
      <4>1. PICK j \in 1..Len(w) : j > k /\ w[j].seq = l.seen
        BY <1>5, <2>1, <3>3
      <4>2. j \in 1..Len(l.wire) /\ l.wire[j] = w[j]
        BY <1>1, <1>3, <1>4, <4>1
      <4> QED BY <4>1, <4>2
    <3> QED BY <1>5, <2>1, <3>1, <3>2, <3>3
  <2>2. CASE k \notin 1..Len(w)
    <3>1. k = Len(w) + 1
      BY <1>1, <1>3, <1>4, <2>2
    <3>2. l.wire[k] = m
      BY <1>3, <1>4, <3>1
    <3> QED BY <1>2, <3>2
  <2> QED BY <2>1, <2>2
<1>7. l.seen <= Len(history) /\ (l.state = "open" => \A n \in 1..Len(history) : n > l.seen => n \in untold)
  BY <1>1 DEF LinkFollows
<1> QED BY <1>6, <1>7 DEF LinkFollows, InOrder

\* When one link is replaced by one that follows and is in order, all are.
LEMMA OneReplaced ==
  ASSUME LinksFollow, LatestIsLast, UNCHANGED <<history, untold>>,
         NEW a \in Attempt, NEW l, LinkFollows(l), InOrder(l), links'[a] = l,
         \A b \in Attempt : b # a => links'[b] = links[b]
  PROVE  (\A b \in Attempt : LinkFollows(links[b])') /\ LatestIsLast'
<1>1. LinkFollows(links[a])' /\ InOrder(links[a])'
  BY DEF LinkFollows, InOrder
<1>2. ASSUME NEW b \in Attempt, b # a
      PROVE  LinkFollows(links[b])' /\ InOrder(links[b])'
  BY <1>2 DEF LinkFollows, InOrder, LinksFollow, LatestIsLast
<1> QED BY <1>1, <1>2 DEF LatestIsLast

\* A link told of an event is in order again.
LEMMA TellInOrder ==
  ASSUME LinkTypeOK(Purpose), LinksFollow, LatestIsLast, NEW n \in untold, Tell(n)
  PROVE  LatestIsLast'
<1>1. ASSUME NEW a \in Attempt, links[a].state = "open" /\ n > links[a].seen
      PROVE  InOrder(links[a])'
  <2> DEFINE w == links[a].wire
             b == Batch(n)
             told == [links[a] EXCEPT !.seen = n, !.wire = links[a].wire \o Batch(n)]
  <2>1. links'[a] = told
    BY <1>1 DEF Tell
  <2>2. /\ n \in 1..Len(history) /\ told.seen = n /\ told.wire = w \o b
        /\ Len(w \o b) = Len(w) + Len(b)
        /\ \A k \in 1..Len(b) : (w \o b)[Len(w) + k] = b[k]
    BY <1>1, ToldFollows
  <2>3. Len(w) \in Nat /\ Len(b) \in Nat /\ Len(b) >= 1 /\ \A k \in 1..Len(b) : b[k].seq = n
    BY <2>2, LinkParts, BatchFollows
  <2> DEFINE x == w \o b
  <2>4. links'[a].wire = x /\ links'[a].seen = n
    BY <2>1, <2>2
  <2>5. Len(x) = Len(w) + Len(b) /\ \A k \in 1..Len(b) : x[Len(w) + k] = b[k]
    BY <2>2
  <2> HIDE DEF w, b, x, told
  <2>6. Len(w) + 1 \in 1..Len(x) /\ x[Len(w) + 1].seq = n
    BY <2>3, <2>5
  <2>7. ASSUME NEW k \in 1..Len(x), x[k].seq # n
        PROVE  Len(w) + 1 > k
    <3>1. SUFFICES ASSUME ~(Len(w) + 1 > k) PROVE FALSE
      OBVIOUS
    <3>2. k - Len(w) \in 1..Len(b) /\ Len(w) + (k - Len(w)) = k
      BY <2>3, <2>5, <3>1
    <3>3. x[k] = b[k - Len(w)] /\ b[k - Len(w)].seq = n
      BY <2>3, <2>5, <3>2
    <3> QED BY <2>7, <3>3
  <2> QED BY <2>4, <2>6, <2>7 DEF InOrder
<1>2. ASSUME NEW a \in Attempt, ~(links[a].state = "open" /\ n > links[a].seen)
      PROVE  InOrder(links[a])'
  <2>1. links'[a] = links[a]
    BY <1>2 DEF Tell
  <2> QED BY <2>1 DEF InOrder, LatestIsLast
<1> QED BY <1>1, <1>2 DEF LatestIsLast

\* A link that joins starts with the latest state; the others stay in order.
LEMMA JoinInOrder ==
  ASSUME LinkTypeOK(Purpose), LatestIsLast, NEW a \in Attempt, Join(a)
  PROVE  LatestIsLast'
<1>1. ASSUME NEW b \in Attempt
      PROVE  InOrder(links[b])'
  <2>1. CASE b = a
    <3> DEFINE m == Sent("snapshot", Len(history))
    <3>1. links'[b] = [state |-> "open", seen |-> Len(history), wire |-> <<m>>]
      BY <2>1 DEF Join
    <3>2. m.seq = Len(history)
      BY DEF Sent
    <3> HIDE DEF m
    <3>3. links'[b].seen = Len(history) /\ links'[b].wire = <<m>>
      BY <3>1
    <3>4. Len(<<m>>) = 1 /\ <<m>>[1] = m
      OBVIOUS
    <3> QED BY <3>2, <3>3, <3>4 DEF InOrder
  <2>2. CASE b # a /\ links[b].state = "open"
    <3>1. links'[b] = [links[b] EXCEPT !.state = "closing"]
      BY <2>2 DEF Join
    <3>2. InOrder([links[b] EXCEPT !.state = "closing"])
      BY EndsInOrder
    <3> QED BY <3>1, <3>2 DEF InOrder
  <2>3. CASE b # a /\ links[b].state # "open"
    <3>1. links'[b] = links[b] /\ InOrder(links[b])
      BY <2>3 DEF Join, LatestIsLast
    <3> QED BY <3>1 DEF InOrder
  <2> QED BY <2>1, <2>2, <2>3
<1> QED BY <1>1 DEF LatestIsLast

-----------------------------------------------------------------------------
(* Types, and the cursor, whatever the step.                               *)

\* What nothing but the history grows under keeps its cursor and its board.
LEMMA CursorStays ==
  ASSUME TypeOK, CursorCounts, HistoryGrows, UNCHANGED <<board, cursor>>,
         phase = "left" => phase' = "left"
  PROVE  /\ CursorCounts'
         /\ Version(board)' = Version(board)
<1>1. /\ cursor.seq \in Nat /\ cursor.seq <= Len(history)
      /\ cursor.version = Version(cursor.seq)
      /\ board \in Int /\ board <= Len(history) /\ Len(history) \in Nat
  BY Numbers
<1>2. /\ Len(history') \in Nat /\ Len(history') >= Len(history)
      /\ \A i \in 1..Len(history) : history'[i] = history[i]
  BY DEF HistoryGrows
<1>3. \A n \in Int : n <= Len(history) => Version(n)' = Version(n)
  BY <1>1, <1>2, VersionKept
<1>4. PICK n \in Nat : n = cursor.seq
  BY <1>1
<1>5. PICK m \in Int : m = board
  BY <1>1
<1>6. Version(cursor.seq)' = Version(cursor.seq)
  <2>1. Version(n)' = Version(n)
    BY <1>1, <1>3, <1>4
  <2>2. cursor'.seq = n
    BY <1>4
  <2> QED BY <1>4, <2>1, <2>2
<1>7. Version(board)' = Version(board)
  <2>1. Version(m)' = Version(m)
    BY <1>1, <1>3, <1>5
  <2>2. board' = m
    BY <1>5
  <2> QED BY <1>5, <2>1, <2>2
<1>8. (cursor.seq <= Len(history))' /\ (board <= Len(history))'
  BY <1>1, <1>2
<1>9. (cursor.version = Version(cursor.seq))'
  BY <1>1, <1>6
<1>10. (board = NoState => phase = "left")'
  BY DEF CursorCounts, NoState
<1> QED BY <1>7, <1>8, <1>9, <1>10 DEF CursorCounts

\* A state that is shown counts.
LEMMA CursorShows ==
  ASSUME TypeOK, CursorCounts, NEW n \in Nat, n <= Len(history), Show(n), history' = history,
         phase = "left" => phase' = "left"
  PROVE  CursorCounts'
<1>1. /\ cursor'.seq = n
      /\ board' = NoState => board = NoState
      /\ board' <= Len(history)
      /\ (cursor.version)' = Version(cursor.seq)'
  BY ShowCounts
<1>2. (cursor.seq <= Len(history))' /\ (board <= Len(history))'
  BY <1>1
<1>3. (board = NoState => phase = "left")'
  BY <1>1 DEF CursorCounts, NoState
<1>4. (cursor.version = Version(cursor.seq))'
  BY <1>1
<1> QED BY <1>2, <1>3, <1>4 DEF CursorCounts

\* The server's steps.
LEMMA ServerTypes ==
  ASSUME TypeOK, LinksFollow, CursorCounts, Server
  PROVE  /\ TypeOK' /\ LinksFollow' /\ CursorCounts' /\ Version(board)' = Version(board)
         /\ HistoryGrows
<1>1. UNCHANGED <<attempt, phase, screenVars, commandVars, hostVars>> /\ (Commit \/ ServerStep)
  BY DEF Server, ServerStep
<1>2. LinkTypeOK(Purpose)
  BY LinkTypes
<1>3. LinkTypeOK(Purpose)' /\ LinksFollow' /\ HistoryGrows
  <2>1. CASE Commit
    <3>1. PICK kind \in {"gameplay", "management"} : Committed(kind) /\ UNCHANGED <<links, reads>>
      BY <2>1 DEF Commit
    <3> QED BY <1>2, <2>1, <3>1, CommitTypes, CommitFollows, CommittedGrows
  <2>2. CASE \E n \in untold : Tell(n)
    <3>1. PICK n \in untold : Tell(n)
      BY <2>2
    <3>2. history' = history
      BY <3>1 DEF Tell
    <3> QED BY <1>2, <3>1, <3>2, TellTypes, TellFollows, HistoryStays
  <2>3. CASE \E a \in Attempt : Join(a)
    <3>1. PICK a \in Attempt : Join(a)
      BY <2>3
    <3>2. history' = history
      BY <3>1 DEF Join
    <3> QED BY <1>2, <3>1, <3>2, JoinTypes, JoinFollows, HistoryStays
  <2>4. CASE \E r \in reads : AnswerRead(r)
    <3>1. PICK r \in reads : AnswerRead(r)
      BY <2>4
    <3>2. history' = history
      BY <3>1 DEF AnswerRead
    <3> QED BY <1>2, <3>1, <3>2, AnswerTypes, AnswerFollows, HistoryStays
  <2> QED BY <1>1, <2>1, <2>2, <2>3, <2>4 DEF ServerStep
<1>4. TypeOK'
  BY <1>1, <1>3 DEF TypeOK, screenVars, commandVars, hostVars
<1>5. CursorCounts' /\ Version(board)' = Version(board)
  BY <1>1, <1>3, CursorStays DEF screenVars
<1> QED BY <1>3, <1>4, <1>5

\* The browser's ends keep the types of the links.
LEMMA EndsTypes ==
  ASSUME LinkTypeOK(Purpose), UNCHANGED <<history, untold>>, NEW a \in Attempt,
         Hang(a) \/ (Taken(a) /\ links[a].wire # <<>>),
         reads' = reads
  PROVE  LinkTypeOK(Purpose)'
BY LinkEnds DEF LinkTypeOK

\* One more read keeps the types.
LEMMA AskTypes ==
  ASSUME LinkTypeOK(Purpose), UNCHANGED <<history, untold>>, links' \in [Attempt -> Link],
         NEW purpose \in Purpose, NEW a \in Attempt, Ask(purpose, a)
  PROVE  LinkTypeOK(Purpose)'
<1>1. PICK r : /\ reads' = reads \cup {r} /\ r \in Read(Purpose)
  BY AskAdds
<1> QED BY <1>1 DEF LinkTypeOK

\* The steps of connecting.
LEMMA ConnectingTypes ==
  ASSUME TypeOK, CursorCounts, Reconnect \/ JoinFails \/ Register \/ Unheard
  PROVE  TypeOK' /\ CursorCounts'
<1>1. LinkTypeOK(Purpose) /\ attempt \in Attempt /\ links \in [Attempt -> Link]
  BY LinkTypes DEF TypeOK, LinkTypeOK
<1>2. CASE Reconnect
  <2>1. attempt + 1 \in Attempt /\ attempt + 1 # attempt
    BY <1>1, <1>2, LinkAssumption DEF Reconnect, Attempt
  <2>2. [links[attempt + 1] EXCEPT !.state = "joining"] \in Link
        /\ [links[attempt] EXCEPT !.state = "closing"] \in Link
    <3>1. links[attempt + 1] \in Link /\ links[attempt] \in Link
      BY <1>1, <2>1
    <3> QED BY <3>1 DEF Link
  <2>3. links' \in [Attempt -> Link]
    <3> DEFINE l == [links[attempt] EXCEPT !.state = IF @ = "open" THEN "closing" ELSE @]
               m == [links[attempt + 1] EXCEPT !.state = "joining"]
    <3>1. l \in Link /\ m \in Link
      <4>1. links[attempt] \in Link /\ links[attempt + 1] \in Link
        BY <1>1, <2>1
      <4> QED BY <4>1 DEF Link
    <3>2. links' = [links EXCEPT ![attempt + 1] = m, ![attempt] = l]
      BY <1>1, <1>2, <2>1 DEF Reconnect
    <3> HIDE DEF l, m
    <3> QED BY <1>1, <2>1, <3>1, <3>2
  <2>4. LinkTypeOK(Purpose)'
    BY <1>1, <1>2, <2>3 DEF Reconnect, LinkTypeOK
  <2>5. PICK n \in Nat : n = board /\ n \in Sequence /\ n <= Len(history)
    <3>1. board \in Sequence /\ board <= Len(history)
      BY <1>2, Numbers DEF Reconnect
    <3> QED BY <3>1, LinkAssumption DEF Sequence
  <2>6. Version(n) \in Sequence
    BY <2>5, VersionType, LinkAssumption DEF Sequence
  <2>7. cursor' = [seq |-> n, version |-> Version(n)] /\ history' = history /\ board' = board
    BY <1>2, <2>5 DEF Reconnect, At
  <2>8. TypeOK'
    <3>1. cursor' \in [seq : Sequence, version : Sequence]
      BY <2>5, <2>6, <2>7
    <3> QED BY <1>2, <2>1, <2>4, <3>1 DEF Reconnect, TypeOK, commandVars, hostVars
  <2>9. CursorCounts'
    <3>1. Version(n)' = Version(n)
      BY <2>7 DEF Version
    <3>2. cursor'.seq = n /\ cursor'.version = Version(n)
      BY <2>7
    <3>3. Version(cursor.seq)' = Version(n)
      BY <3>1, <3>2
    <3>4. board' # NoState
      BY <2>5, <2>7 DEF NoState
    <3> QED BY <2>5, <2>7, <3>2, <3>3, <3>4 DEF CursorCounts
  <2> QED BY <2>8, <2>9
<1>3. CASE JoinFails \/ Register \/ Unheard
  <2>1. ASSUME JoinFails PROVE TypeOK'
    <3>1. LinkTypeOK(Purpose)'
      BY <1>1, <2>1, EndsTypes DEF JoinFails
    <3> QED BY <2>1, <3>1 DEF JoinFails, TypeOK, commandVars, hostVars
  <2>2. ASSUME Register PROVE TypeOK'
    <3>1. "resume" \in Purpose
      BY DEF Purpose
    <3>2. Ask("resume", attempt) /\ UNCHANGED <<history, untold, links>>
      BY <2>2 DEF Register
    <3>3. LinkTypeOK(Purpose)'
      BY <1>1, <3>1, <3>2, AskTypes
    <3> QED BY <2>2, <3>3 DEF Register, TypeOK, commandVars, hostVars
  <2>3. ASSUME Unheard PROVE TypeOK'
    <3>1. LinkTypeOK(Purpose)'
      BY <1>1, <2>3, EndsTypes DEF Unheard
    <3> QED BY <2>3, <3>1 DEF Unheard, TypeOK, screenVars, commandVars, hostVars
  <2>4. UNCHANGED <<history, board, cursor>> /\ phase # "left"
    BY <1>3 DEF JoinFails, Register, Unheard, screenVars
  <2>5. CursorCounts'
    BY <1>1, <2>4, HistoryStays, CursorStays
  <2> QED BY <1>3, <2>1, <2>2, <2>3, <2>5
<1> QED BY <1>2, <1>3

\* A connection that is lost.
LEMMA LostTypes ==
  ASSUME TypeOK, CursorCounts, NEW a \in Attempt, LinkLost(a)
  PROVE  TypeOK' /\ CursorCounts'
<1>1. LinkTypeOK(Purpose)
  BY LinkTypes
<1>2. LinkTypeOK(Purpose)'
  BY <1>1, EndsTypes DEF LinkLost
<1>3. phase' = phase \/ (phase' = "disconnected" /\ phase # "left")
  BY DEF LinkLost, Active, SeatShown
<1>4. TypeOK'
  BY <1>2, <1>3 DEF LinkLost, TypeOK, screenVars, commandVars, hostVars
<1>5. UNCHANGED <<history, board, cursor>>
  BY DEF LinkLost, screenVars
<1> QED BY <1>1, <1>3, <1>4, <1>5, HistoryStays, CursorStays

\* What a read brings is committed.
LEMMA ReadCounts ==
  ASSUME TypeOK, LinksFollow, NEW r \in reads, r.at # NotRead
  PROVE  r.at \in Nat /\ r.at <= Len(history)
<1>1. r \in Read(Purpose)
  BY LinkTypes DEF LinkTypeOK
<1>2. r.at \in {NotRead} \cup Sequence
  BY <1>1 DEF Read
<1>3. r.at \in Nat
  BY <1>2, LinkAssumption DEF Sequence
<1> QED BY <1>3 DEF LinksFollow

\* Fewer reads keep the types of the links.
LEMMA FewerTypes ==
  ASSUME LinkTypeOK(Purpose), UNCHANGED <<history, untold, links>>, reads' \subseteq reads
  PROVE  LinkTypeOK(Purpose)'
BY DEF LinkTypeOK

\* The answers to reads.
LEMMA RefreshTypes ==
  ASSUME TypeOK, LinksFollow, CursorCounts, NEW r \in reads,
         Refresh(r) \/ RefreshFails(r) \/ EnterAsHost(r)
  PROVE  TypeOK' /\ CursorCounts'
<1>1. LinkTypeOK(Purpose) /\ HistoryGrows /\ UNCHANGED <<history, untold, links>>
  <2>1. UNCHANGED <<history, untold, links>>
    BY DEF Refresh, RefreshFails, EnterAsHost
  <2> QED BY <2>1, LinkTypes, HistoryStays
<1>2. LinkTypeOK(Purpose)'
  <2>1. reads' \subseteq reads
    BY DEF Refresh, RefreshFails, EnterAsHost
  <2> QED BY <1>1, <2>1, FewerTypes
<1>3. phase' \in {"connecting", "resuming", "connected", "disconnected", "seatless", "left"}
      /\ (phase = "left" => phase' = "left")
  <2>1. phase \in {"connecting", "resuming", "connected", "disconnected", "seatless", "left"}
    BY DEF TypeOK
  <2> QED BY <2>1 DEF Refresh, RefreshFails, EnterAsHost, Active, SeatShown
<1>4. \/ UNCHANGED <<board, cursor>>
      \/ r.at # NotRead /\ Show(r.at)
  BY DEF Refresh, RefreshFails, EnterAsHost
<1>5. /\ CursorCounts' /\ cursor' \in [seq : Sequence, version : Sequence]
      /\ board' \in {NoState} \cup Sequence
  <2>1. CASE UNCHANGED <<board, cursor>>
    BY <1>1, <1>3, <2>1, CursorStays DEF TypeOK
  <2>2. CASE r.at # NotRead /\ Show(r.at)
    <3>1. PICK n \in Nat : n = r.at /\ n <= Len(history)
      BY <2>2, ReadCounts
    <3>2. Show(n)
      BY <2>2, <3>1
    <3> QED BY <1>1, <1>3, <3>1, <3>2, CursorShows, ShowCounts
  <2> QED BY <1>4, <2>1, <2>2
<1>6. doubt' \in {"none", "host answer", "former connection", "failed read"}
      /\ UNCHANGED <<attempt, pending, commandVars, hostVars>>
  BY DEF Refresh, RefreshFails, EnterAsHost, TypeOK
<1> QED BY <1>2, <1>3, <1>5, <1>6 DEF TypeOK, commandVars, hostVars

\* A message is about a committed event.
LEMMA HeadCounts ==
  ASSUME LinkTypeOK(Purpose), LinksFollow, NEW a \in Attempt, links[a].wire # <<>>
  PROVE  /\ Head(links[a].wire) = links[a].wire[1] /\ 1 \in 1..Len(links[a].wire)
         /\ Head(links[a].wire) \in Message
         /\ Head(links[a].wire).seq \in Nat /\ Head(links[a].wire).seq <= Len(history)
         /\ Head(links[a].wire).type = "event" =>
              /\ Head(links[a].wire).seq \in 1..Len(history)
              /\ Head(links[a].wire) = Sent("event", Head(links[a].wire).seq)
<1> DEFINE w == links[a].wire
<1>1. w \in Seq(Message) /\ w # <<>> /\ LinkFollows(links[a]) /\ Len(history) \in Nat
  BY LinkParts DEF LinksFollow
<1>2. Head(w) = w[1] /\ 1 \in 1..Len(w)
  <2> HIDE DEF w
  <2> QED BY <1>1
<1>3. w[1] \in Message /\ w[1].seq \in Nat
  BY <1>2, LinkParts
<1>4. w[1].seq <= Len(history)
  BY <1>1, <1>2 DEF LinkFollows
<1>5. w[1].type = "event" => w[1].seq \in 1..Len(history) /\ w[1] = Sent("event", w[1].seq)
  <2> HIDE DEF w
  <2>1. SUFFICES ASSUME w[1].type = "event"
                 PROVE  w[1].seq \in 1..Len(history) /\ w[1] = Sent("event", w[1].seq)
    OBVIOUS
  <2>2. w[1] \in [type : {"event"}, seq : 1..MaxSequence, outcome : {"-"}]
    BY <1>3, <2>1 DEF Message
  <2> QED BY <1>1, <1>3, <1>4, <2>2 DEF Sent
<1> QED BY <1>2, <1>3, <1>4, <1>5

\* The messages received.
LEMMA ReceiveTypes ==
  ASSUME TypeOK, LinksFollow, CursorCounts, NEW a \in Attempt, Receive(a)
  PROVE  TypeOK' /\ CursorCounts'
<1> DEFINE message == Head(links[a].wire)
<1>1. LinkTypeOK(Purpose) /\ links[a].wire # <<>> /\ Taken(a)
      /\ UNCHANGED <<history, untold, attempt, commandVars, hostVars>>
  BY LinkTypes DEF Receive
<1>2. HistoryGrows
  BY <1>1, HistoryStays
<1>3. links' \in [Attempt -> Link]
  BY <1>1, LinkEnds DEF LinkTypeOK
<1>4. /\ message \in Message /\ message.seq \in Nat /\ message.seq <= Len(history)
      /\ message.type = "event" => message.seq \in 1..Len(history)
  BY <1>1, HeadCounts
<1>5. \/ message.type = "snapshot" /\ OnSnapshot(a, message.seq)
      \/ message.type = "event" /\ OnEvent(a, message.seq)
      \/ message.type = "result" /\ OnResult(a, message.outcome)
  BY DEF Receive
<1> HIDE DEF message
<1>6. PICK n \in Nat : n = message.seq
  BY <1>4
<1>7. \/ reads' = reads
      \/ \E purpose \in {"refresh", "enter"} : Ask(purpose, a)
  BY <1>5 DEF OnSnapshot, OnEvent, OnResult, OnGap
<1>8. LinkTypeOK(Purpose)'
  <2>1. CASE reads' = reads
    BY <1>1, <1>3, <2>1 DEF LinkTypeOK
  <2>2. ASSUME NEW purpose \in {"refresh", "enter"}, Ask(purpose, a)
        PROVE  LinkTypeOK(Purpose)'
    <3>1. purpose \in Purpose
      BY DEF Purpose
    <3> QED BY <1>1, <1>3, <2>2, <3>1, AskTypes
  <2> QED BY <1>7, <2>1, <2>2
<1>9. phase' \in {"connecting", "resuming", "connected", "disconnected", "seatless", "left"}
      /\ (phase = "left" => phase' = "left") /\ pending' \in BOOLEAN
      /\ doubt' \in {"none", "host answer", "former connection", "failed read"}
  <2>1. phase \in {"connecting", "resuming", "connected", "disconnected", "seatless", "left"}
        /\ pending \in BOOLEAN
        /\ doubt \in {"none", "host answer", "former connection", "failed read"}
    BY DEF TypeOK
  <2> QED BY <1>5, <2>1 DEF OnSnapshot, OnEvent, OnResult, Doubt
<1>10. \/ UNCHANGED <<board, cursor>>
       \/ Show(n)
       \/ UNCHANGED board /\ cursor' = At(n) 
       \/ UNCHANGED cursor /\ board' = NoState /\ phase' = "left"
  BY <1>5, <1>6 DEF OnSnapshot, OnEvent, OnResult
<1>11. /\ CursorCounts' /\ cursor' \in [seq : Sequence, version : Sequence]
       /\ board' \in {NoState} \cup Sequence
  <2>1. CASE UNCHANGED <<board, cursor>>
    BY <1>2, <1>9, <2>1, CursorStays DEF TypeOK
  <2>2. CASE Show(n)
    BY <1>1, <1>4, <1>6, <1>9, <2>2, CursorShows, ShowCounts
  <2>3. CASE UNCHANGED board /\ cursor' = At(n)
    <3>1. n \in Sequence /\ n <= Len(history)
      BY <1>4, <1>6, Numbers, LinkAssumption DEF Sequence
    <3>2. Version(n) \in Sequence /\ Version(n)' = Version(n)
      <4>1. n <= MaxSequence
        BY <3>1, LinkAssumption DEF Sequence
      <4> QED BY <1>1, <4>1, VersionType DEF Version
    <3>3. cursor' = [seq |-> n, version |-> Version(n)]
      BY <2>3 DEF At
    <3>4. cursor'.seq = n /\ cursor'.version = Version(n)
          /\ cursor' \in [seq : Sequence, version : Sequence]
      BY <3>1, <3>2, <3>3
    <3>5. Version(cursor.seq)' = Version(n)
      BY <3>2, <3>4
    <3>6. (cursor.version = Version(cursor.seq))'
      BY <3>4, <3>5
    <3>7. (cursor.seq <= Len(history))' /\ (board <= Len(history))'
          /\ (board = NoState => phase = "left")'
      BY <1>1, <1>9, <2>3, <3>1, <3>4 DEF CursorCounts, NoState
    <3> QED BY <2>3, <3>4, <3>6, <3>7 DEF CursorCounts, TypeOK
  <2>4. CASE UNCHANGED cursor /\ board' = NoState /\ phase' = "left"
    <3>1. PICK k \in Nat : k = cursor.seq /\ k <= Len(history) /\ cursor.version = Version(k)
      BY Numbers
    <3>2. Version(k)' = Version(k)
      BY <1>1 DEF Version
    <3>3. cursor'.seq = k
      BY <2>4, <3>1
    <3>4. Version(cursor.seq)' = Version(k)
      BY <3>2, <3>3
    <3>5. (cursor.version = Version(cursor.seq))'
      BY <2>4, <3>1, <3>4
    <3>6. NoState <= Len(history)
      BY Numbers DEF NoState
    <3> QED BY <1>1, <2>4, <3>1, <3>3, <3>5, <3>6 DEF CursorCounts, TypeOK
  <2> QED BY <1>10, <2>1, <2>2, <2>3, <2>4
<1>12. TypeOK'
  BY <1>1, <1>8, <1>9, <1>11 DEF TypeOK, commandVars, hostVars
<1> QED BY <1>11, <1>12

\* A result is a message.
LEMMA ResultTypes ==
  ASSUME NEW outcome \in {"ok", "stale", "refused", "surrendered"}
  PROVE  Result(outcome) \in Message /\ Result(outcome).type = "result"
BY DEF Result, Message

\* One that does not tell of a surrender is not taken for one.
LEMMA OtherResults ==
  ASSUME NEW outcome \in {"ok", "stale", "refused"}
  PROVE  Result(outcome).outcome # "surrendered"
BY DEF Result

\* The player's commands sent.
LEMMA CommandTypes ==
  ASSUME TypeOK, CursorCounts, NEW kind \in MoveKinds, SendCommand(kind)
  PROVE  TypeOK' /\ CursorCounts'
<1>1. LinkTypeOK(Purpose) /\ UNCHANGED <<linkVars, attempt, phase, board, cursor, doubt, owed, surrendered, hostVars>>
      /\ phase # "left"
  BY LinkTypes DEF SendCommand
<1>2. Version(board) \in Sequence
  <2>1. board \in Int /\ board <= MaxSequence
    BY Numbers, LinkAssumption
  <2> QED BY <2>1, VersionType
<1>3. LinkTypeOK(Purpose)'
  BY <1>1 DEF LinkTypeOK, linkVars
<1>4. command' \in [kind : MoveKinds, expected : Sequence, attempt : Attempt]
  BY <1>2 DEF SendCommand, TypeOK
<1>5. TypeOK'
  BY <1>1, <1>3, <1>4 DEF SendCommand, TypeOK, hostVars
<1>6. HistoryGrows
  BY <1>1, HistoryStays DEF linkVars
<1> QED BY <1>1, <1>5, <1>6, CursorStays

\* One link with a result at its end, in another state perhaps, is a link.
LEMMA AnsweredLink ==
  ASSUME LinkTypeOK(Purpose), NEW a \in Attempt, NEW m \in Message,
         NEW state \in {"none", "joining", "open", "closing", "closed"}
  PROVE  /\ [links[a] EXCEPT !.wire = Append(links[a].wire, m)] \in Link
         /\ [links[a] EXCEPT !.state = state, !.wire = Append(links[a].wire, m)] \in Link
         /\ [links[a] EXCEPT !.state = state] \in Link
<1>1. links[a] \in Link /\ links[a].wire \in Seq(Message) /\ links[a].seen \in Sequence
  BY LinkParts DEF Link
<1> DEFINE w == links[a].wire
<1>2. Append(w, m) \in Seq(Message)
  <2>1. w \in Seq(Message)
    BY <1>1
  <2> HIDE DEF w
  <2> QED BY <2>1
<1>3. Append(links[a].wire, m) \in Seq(Message)
  BY <1>2
<1> QED BY <1>1, <1>3, LinkFields

\* The player's commands carried out, or refused.
LEMMA ExecuteTypes ==
  ASSUME TypeOK, CursorCounts, Execute
  PROVE  TypeOK' /\ CursorCounts' /\ HistoryGrows /\ Version(board)' = Version(board)
<1> DEFINE a == command.attempt
<1>1. LinkTypeOK(Purpose) /\ UNCHANGED <<reads, attempt, phase, screenVars, hostVars>>
  BY LinkTypes DEF Execute
<1>2. a \in Attempt /\ command.kind \in MoveKinds
  BY DEF Execute, TypeOK, NoCommand
<1>3. LinkTypeOK(Purpose)' /\ HistoryGrows
      /\ owed' \subseteq [kind : MoveKinds, seq : 1..MaxSequence, attempt : Attempt]
      /\ surrendered' \in Sequence
  <2>1. CASE /\ Committed("gameplay") /\ UNCHANGED links
             /\ surrendered' = (IF command.kind = "surrender" THEN Len(history) + 1 ELSE 0)
             /\ owed' = owed \cup {[kind |-> command.kind, seq |-> Len(history) + 1, attempt |-> a]}
    <3>1. /\ HistoryGrows
          /\ history' \in Seq({"gameplay", "management"}) /\ Len(history') <= MaxSequence
          /\ Len(history) + 1 \in 1..MaxSequence
          /\ untold' \subseteq 1..MaxSequence
      BY <1>1, <2>1, CommittedGrows
    <3> HIDE DEF a
    <3>2. owed' \subseteq [kind : MoveKinds, seq : 1..MaxSequence, attempt : Attempt]
      <4>1. owed \subseteq [kind : MoveKinds, seq : 1..MaxSequence, attempt : Attempt]
        BY DEF TypeOK
      <4>2. [kind |-> command.kind, seq |-> Len(history) + 1, attempt |-> a]
              \in [kind : MoveKinds, seq : 1..MaxSequence, attempt : Attempt]
        BY <1>2, <3>1
      <4> QED BY <2>1, <4>1, <4>2
    <3>3. LinkTypeOK(Purpose)'
      BY <1>1, <2>1, <3>1 DEF LinkTypeOK
    <3>4. surrendered' \in Sequence
      BY <2>1, <3>1, LinkAssumption DEF Sequence
    <3> QED BY <3>1, <3>2, <3>3, <3>4
  <2>2. ASSUME NEW outcome \in {"stale", "refused"}, Answer(a, outcome),
               UNCHANGED <<history, untold, owed, surrendered>>
        PROVE  /\ LinkTypeOK(Purpose)' /\ HistoryGrows
               /\ owed' \subseteq [kind : MoveKinds, seq : 1..MaxSequence, attempt : Attempt]
               /\ surrendered' \in Sequence
    <3>1. [links[a] EXCEPT !.wire = Append(links[a].wire, Result(outcome))] \in Link
      BY <1>1, <1>2, ResultTypes, AnsweredLink
    <3>2. links' \in [Attempt -> Link]
      <4> HIDE DEF a
      <4> QED BY <1>1, <1>2, <2>2, <3>1 DEF LinkTypeOK, Answer
    <3> QED BY <1>1, <2>2, <3>2, HistoryStays DEF LinkTypeOK, TypeOK
  <2>3. CASE UNCHANGED <<history, untold, links, owed, surrendered>>
    BY <1>1, <2>3, HistoryStays DEF LinkTypeOK, TypeOK
  <2> QED BY <2>1, <2>2, <2>3 DEF Execute
<1>4. TypeOK'
  <2>1. command' = NoCommand
    BY DEF Execute
  <2> QED BY <1>1, <1>3, <2>1 DEF TypeOK, screenVars, hostVars
<1>5. CursorCounts' /\ Version(board)' = Version(board)
  BY <1>1, <1>3, CursorStays DEF screenVars
<1> QED BY <1>3, <1>4, <1>5

\* All that happens to the links is that a result is sent over one, closing it perhaps.
OneAnswered(a) ==
  /\ links' \in [Attempt -> Link]
  /\ \A b \in Attempt : b # a => links'[b] = links[b]
  /\ links'[a].seen = links[a].seen
  /\ \/ links'[a] = links[a]
     \/ /\ links[a].state = "open"
        /\ \E m \in Message : m.type = "result" /\ links'[a].wire = Append(links[a].wire, m)

\* A command that is not carried out is answered.
LEMMA RefusalAnswered ==
  ASSUME LinkTypeOK(Purpose), NEW a \in Attempt, links[a].state = "open",
         NEW outcome \in {"stale", "refused"}, Answer(a, outcome)
  PROVE  OneAnswered(a)
<1> DEFINE m == Result(outcome)
           l == [links[a] EXCEPT !.wire = Append(links[a].wire, m)]
<1>1. m \in Message /\ m.type = "result"
  BY ResultTypes
<1>2. l \in Link /\ links[a] \in Link
  BY <1>1, AnsweredLink, LinkParts
<1>3. l.seen = links[a].seen /\ l.wire = Append(links[a].wire, m)
  BY <1>2 DEF Link
<1>4. links' = [links EXCEPT ![a] = l] /\ links \in [Attempt -> Link]
  BY DEF LinkTypeOK, Answer
<1> HIDE DEF l, m
<1>5. links'[a] = l /\ links' \in [Attempt -> Link] /\ \A b \in Attempt : b # a => links'[b] = links[b]
  BY <1>2, <1>4
<1> QED BY <1>1, <1>3, <1>5 DEF OneAnswered

\* A result is sent after its broadcast, or dropped.
LEMMA ResultAnswered ==
  ASSUME LinkTypeOK(Purpose), NEW result \in owed, SendResult(result), result.attempt \in Attempt
  PROVE  OneAnswered(result.attempt)
<1> DEFINE a == result.attempt
           outcome == IF result.kind = "surrender" THEN "surrendered" ELSE "ok"
           m == Result(outcome)
           l == [links[a] EXCEPT !.wire = IF links[a].state = "open" THEN Append(links[a].wire, m)
                                                                    ELSE links[a].wire,
                                 !.state = IF links[a].state = "open" /\ outcome = "surrendered"
                                             THEN "closing" ELSE links[a].state]
<1>1. m \in Message /\ m.type = "result"
  BY ResultTypes
<1>2. links[a] \in Link /\ links \in [Attempt -> Link]
  BY LinkParts DEF LinkTypeOK
<1>3. links' = [links EXCEPT ![a] = l]
  BY DEF SendResult
<1>4. l.seen = links[a].seen /\ l.wire = (IF links[a].state = "open" THEN Append(links[a].wire, m) ELSE links[a].wire)
  BY <1>2 DEF Link
<1>5. links[a].state # "open" => l = links[a]
  BY <1>2 DEF Link
<1>6. l \in Link
  <2>1. CASE links[a].state # "open"
    BY <1>2, <1>5, <2>1
  <2>2. CASE links[a].state = "open" /\ outcome = "surrendered"
    <3>1. l = [links[a] EXCEPT !.wire = Append(links[a].wire, m), !.state = "closing"]
      BY <2>2
    <3>2. [links[a] EXCEPT !.state = "closing", !.wire = Append(links[a].wire, m)] \in Link
      BY <1>1, AnsweredLink
    <3>3. [links[a] EXCEPT !.wire = Append(links[a].wire, m), !.state = "closing"]
            = [links[a] EXCEPT !.state = "closing", !.wire = Append(links[a].wire, m)]
      BY <1>2 DEF Link
    <3> QED BY <3>1, <3>2, <3>3
  <2>3. CASE links[a].state = "open" /\ outcome # "surrendered"
    <3>1. l = [links[a] EXCEPT !.wire = Append(links[a].wire, m)]
      BY <1>2, <2>3 DEF Link
    <3>2. [links[a] EXCEPT !.wire = Append(links[a].wire, m)] \in Link
      BY <1>1, AnsweredLink
    <3> QED BY <3>1, <3>2
  <2> QED BY <2>1, <2>2, <2>3
<1> HIDE DEF l, m, outcome
<1>7. links'[a] = l /\ links' \in [Attempt -> Link] /\ \A b \in Attempt : b # a => links'[b] = links[b]
  BY <1>2, <1>3, <1>6
<1> QED BY <1>1, <1>4, <1>5, <1>7 DEF OneAnswered

\* What a result sent leaves of what is followed and on its way.
LEMMA AnsweredFollows ==
  ASSUME LinkTypeOK(Purpose), LinksFollow, LatestIsLast, UNCHANGED <<history, untold>>,
         NEW a \in Attempt, OneAnswered(a)
  PROVE  /\ \A b \in Attempt : LinkFollows(links[b])'
         /\ LatestIsLast'
         /\ \A b \in Attempt, n \in Int : Told(b, n) => Told(b, n)'
         /\ \A b \in Attempt, n \in Int : Wired(b, n) => Wired(b, n)'
         /\ \A b \in Attempt : links'[b].seen = links[b].seen
         /\ \A b \in Attempt : links'[b].state = "open" => links[b].state = "open"
<1>1. CASE links'[a] = links[a]
  <2>1. \A b \in Attempt : links'[b] = links[b]
    BY <1>1 DEF OneAnswered
  <2>2. \A b \in Attempt : LinkFollows(links[b])'
    BY <2>1 DEF LinksFollow, LinkFollows
  <2>3. LatestIsLast'
    BY <2>1 DEF LatestIsLast, InOrder
  <2>4. ASSUME NEW b \in Attempt, NEW n \in Int
        PROVE  (Told(b, n) => Told(b, n)') /\ (Wired(b, n) => Wired(b, n)')
    BY <2>1 DEF Told, Wired
  <2> QED BY <2>1, <2>2, <2>3, <2>4
<1>2. CASE links'[a] # links[a]
  <2>1. PICK m \in Message : m.type = "result" /\ links'[a].wire = Append(links[a].wire, m)
    BY <1>2 DEF OneAnswered
  <2>2. links[a].state = "open" /\ links'[a] \in Link /\ links'[a].seen = links[a].seen
        /\ \A b \in Attempt : b # a => links'[b] = links[b]
    BY <1>2 DEF OneAnswered
  <2>3. PICK l \in Link : l = links'[a]
    BY <2>2
  <2>4. LinkFollows(l) /\ InOrder(l)
    BY <2>1, <2>2, <2>3, ResultsFollow
  <2>5. (\A b \in Attempt : LinkFollows(links[b])') /\ LatestIsLast'
    BY <2>2, <2>3, <2>4, OneReplaced
  <2> DEFINE w == links[a].wire
  <2>6. w \in Seq(Message) /\ Len(w) \in Nat
    BY LinkParts
  <2> DEFINE x == Append(w, m)
  <2>7. \A k \in 1..Len(w) : k \in 1..Len(x) /\ x[k] = w[k]
    <3> HIDE DEF w
    <3> QED BY <2>6
  <2>8. links'[a].wire = x
    BY <2>1
  <2> HIDE DEF w, x
  <2>9. ASSUME NEW n \in Int, Told(a, n) PROVE Told(a, n)'
    <3>1. PICK k \in 1..Len(w) : w[k].seq >= n
      BY <2>9 DEF Told, w
    <3> QED BY <2>7, <2>8, <3>1 DEF Told
  <2>10. ASSUME NEW n \in Int, Wired(a, n) PROVE Wired(a, n)'
    <3>1. PICK k \in 1..Len(w) : w[k].type = "snapshot" /\ w[k].seq >= n
      BY <2>10 DEF Wired, w
    <3> QED BY <2>7, <2>8, <3>1 DEF Wired
  <2>11. ASSUME NEW b \in Attempt, b # a, NEW n \in Int
         PROVE  (Told(b, n) => Told(b, n)') /\ (Wired(b, n) => Wired(b, n)')
    BY <2>2, <2>11 DEF Told, Wired
  <2>12. \A b \in Attempt : links'[b].seen = links[b].seen
    BY <2>2
  <2>13. \A b \in Attempt : links'[b].state = "open" => links[b].state = "open"
    BY <2>2
  <2> QED BY <2>5, <2>9, <2>10, <2>11, <2>12, <2>13
<1> QED BY <1>1, <1>2

\* The results sent.
LEMMA SendTypes ==
  ASSUME TypeOK, CursorCounts, NEW result \in owed, SendResult(result)
  PROVE  TypeOK' /\ CursorCounts' /\ result.attempt \in Attempt /\ OneAnswered(result.attempt)
<1>1. LinkTypeOK(Purpose) /\ UNCHANGED <<history, untold, reads, attempt, phase, screenVars, command, surrendered, hostVars>>
  BY LinkTypes DEF SendResult
<1>2. owed \subseteq [kind : MoveKinds, seq : 1..MaxSequence, attempt : Attempt]
  BY DEF TypeOK
<1>3. result.attempt \in Attempt
  BY <1>2
<1>4. OneAnswered(result.attempt)
  BY <1>1, <1>3, ResultAnswered
<1>5. LinkTypeOK(Purpose)'
  BY <1>1, <1>4 DEF OneAnswered, LinkTypeOK
<1>6. owed' \subseteq [kind : MoveKinds, seq : 1..MaxSequence, attempt : Attempt]
  BY <1>2 DEF SendResult
<1>7. TypeOK'
  BY <1>1, <1>5, <1>6 DEF TypeOK, screenVars, hostVars
<1>8. CursorCounts'
  BY <1>1, HistoryStays, CursorStays DEF screenVars
<1> QED BY <1>3, <1>4, <1>7, <1>8

-----------------------------------------------------------------------------
(* The host's steps.                                                       *)

\* No operation of the host is a read of the player's.
LEMMA HostReads ==
  ASSUME NEW o \in Op
  PROVE  o \in Purpose /\ o \notin {"resume", "refresh", "enter"}
BY PlayerAssumption DEF Purpose

\* The states of an operation.
HostStates ==
  {Idle, [at |-> "refreshing"], [at |-> "accepted"], [at |-> "refused"], [at |-> "synchronizing"]}
    \cup [at : {"sending"}, expected : Sequence]

\* An operation gets further.
LEMMA HostTypes ==
  ASSUME TypeOK, NEW o \in Op, NEW h \in HostStates
  PROVE  [host EXCEPT ![o] = h] \in [Op -> HostStates]
BY DEF TypeOK, HostStates

\* What an answer's seat makes of the connections.
SeatMoves(n) == SeatStays(n) \/ SeatGone(n) \/ SeatBack(n)

\* A link as it was, or ended or dialled.
LinkMoves(old, new) ==
  \/ new = old
  \/ \E state \in {"joining", "closing", "closed"} : new = [old EXCEPT !.state = state]
  \/ new = [old EXCEPT !.state = "closed", !.wire = <<>>]

\* It ends a link, or dials the next one.
LEMMA SeatTypes ==
  ASSUME TypeOK, NEW n, SeatMoves(n)
  PROVE  /\ links' \in [Attempt -> Link] /\ attempt' \in Attempt
         /\ phase' \in {"connecting", "resuming", "connected", "disconnected", "seatless", "left"}
         /\ phase = "left" => phase' = "left"
         /\ \A a \in Attempt : LinkMoves(links[a], links'[a])
<1>1. /\ LinkTypeOK(Purpose) /\ attempt \in Attempt /\ links \in [Attempt -> Link]
      /\ phase \in {"connecting", "resuming", "connected", "disconnected", "seatless", "left"}
  BY LinkTypes DEF TypeOK, LinkTypeOK
<1>2. CASE SeatStays(n)
  BY <1>1, <1>2 DEF SeatStays, LinkMoves
<1>3. CASE SeatGone(n)
  <2>1. links' \in [Attempt -> Link] /\ \A a \in Attempt : LinkMoves(links[a], links'[a])
    <3>1. CASE phase = "connecting"
      <4>1. Hang(attempt)
        BY <1>3, <3>1 DEF SeatGone
      <4> QED BY <1>1, <4>1, LinkEnds DEF Hang, LinkMoves
    <3>2. CASE phase # "connecting"
      <4> DEFINE l == [links[attempt] EXCEPT !.state = "closing"]
      <4>1. links' = links \/ links' = [links EXCEPT ![attempt] = l]
        <5>1. links' = [links EXCEPT ![attempt].state = IF links[attempt].state = "open" THEN "closing" ELSE links[attempt].state]
          BY <1>3, <3>2 DEF SeatGone
        <5>2. CASE links[attempt].state = "open"
          BY <5>1, <5>2
        <5>3. CASE links[attempt].state # "open"
          BY <1>1, <5>1, <5>3 DEF Link
        <5> QED BY <5>2, <5>3
      <4>2. l \in Link /\ LinkMoves(links[attempt], l)
        <5>1. links[attempt] \in Link
          BY <1>1
        <5>2. l \in Link
          BY <5>1 DEF Link
        <5>3. \E state \in {"joining", "closing", "closed"} : l = [links[attempt] EXCEPT !.state = state]
          OBVIOUS
        <5> HIDE DEF l
        <5> QED BY <5>2, <5>3 DEF LinkMoves
      <4> HIDE DEF l
      <4> QED BY <1>1, <4>1, <4>2 DEF LinkMoves
    <3> QED BY <3>1, <3>2
  <2> QED BY <1>1, <1>3, <2>1 DEF SeatGone, SeatShown
<1>4. CASE SeatBack(n)
  <2>1. attempt + 1 \in Attempt
    BY <1>1, <1>4, LinkAssumption DEF SeatBack, Attempt
  <2>2. Dial(attempt + 1) /\ attempt' = attempt + 1 /\ phase' = "connecting" /\ phase # "left"
    BY <1>4 DEF SeatBack
  <2>3. links' \in [Attempt -> Link]
    BY <1>1, <2>1, <2>2, LinkEnds
  <2>4. \A a \in Attempt : LinkMoves(links[a], links'[a])
    BY <1>1, <2>1, <2>2 DEF Dial, LinkMoves
  <2> QED BY <2>1, <2>2, <2>3, <2>4
<1> QED BY <1>2, <1>3, <1>4 DEF SeatMoves

\* The host's steps.
LEMMA HostAtTypes ==
  ASSUME TypeOK, CursorCounts, LinksFollow, NEW o \in Op,
         \/ StartHostCommand(o)
         \/ \E r \in reads : ApplySession(o, r)
         \/ ExecuteHostCommand(o)
         \/ HostAccepted(o)
         \/ HostRefused(o)
         \/ HostFails(o)
  PROVE  TypeOK' /\ CursorCounts' /\ HistoryGrows
<1>1. LinkTypeOK(Purpose) /\ o \in Purpose /\ attempt \in Attempt
  BY LinkTypes, HostReads DEF TypeOK
<1>2. /\ Idle \in HostStates /\ [at |-> "refreshing"] \in HostStates
      /\ [at |-> "accepted"] \in HostStates /\ [at |-> "refused"] \in HostStates
      /\ [at |-> "synchronizing"] \in HostStates
      /\ \A n \in Sequence : [at |-> "sending", expected |-> n] \in HostStates
  BY DEF HostStates
<1>3. /\ (host' \in [Op -> HostStates]) <=> 
           (host' \in [Op -> {Idle, [at |-> "refreshing"], [at |-> "accepted"], [at |-> "refused"],
                              [at |-> "synchronizing"]} \cup [at : {"sending"}, expected : Sequence]])
      /\ kept \subseteq Op /\ answered \in Sequence
  BY DEF HostStates, TypeOK
<1>4. CASE StartHostCommand(o)
  <2>1. Ask(o, attempt) /\ UNCHANGED <<history, untold, links, attempt, phase, board, cursor, pending,
                                       doubt, commandVars, isHost, kept, answered>>
        /\ host' = [host EXCEPT ![o] = [at |-> "refreshing"]]
    BY <1>4 DEF StartHostCommand
  <2>2. LinkTypeOK(Purpose)'
    BY <1>1, <2>1, AskTypes DEF LinkTypeOK
  <2>3. host' \in [Op -> HostStates]
    BY <1>2, <2>1, HostTypes
  <2>4. TypeOK'
    BY <1>3, <2>1, <2>2, <2>3 DEF TypeOK, commandVars
  <2> QED BY <1>1, <2>1, <2>4, HistoryStays, CursorStays
<1>5. ASSUME NEW r \in reads, ApplySession(o, r)
      PROVE  TypeOK' /\ CursorCounts' /\ HistoryGrows
  <2>1. PICK n \in Nat : n = r.at /\ n <= Len(history)
    BY <1>5, ReadCounts DEF ApplySession
  <2>2. Show(n) /\ reads' \subseteq reads
        /\ SeatMoves(n) /\ UNCHANGED <<history, untold, pending, commandVars, isHost>>
        /\ answered' = n /\ doubt' = "host answer" /\ kept' \subseteq kept
    BY <1>5, <2>1 DEF ApplySession, SeatMoves
  <2>8. /\ links' \in [Attempt -> Link] /\ attempt' \in Attempt
        /\ phase' \in {"connecting", "resuming", "connected", "disconnected", "seatless", "left"}
        /\ phase = "left" => phase' = "left"
    BY <2>2, SeatTypes
  <2>3. LinkTypeOK(Purpose)' /\ HistoryGrows
    BY <1>1, <2>2, <2>8, HistoryStays DEF LinkTypeOK
  <2>4. n \in Sequence /\ Version(n) \in Sequence
    <3>1. n <= MaxSequence
      BY <2>1, Numbers, LinkAssumption
    <3> QED BY <3>1, VersionType, LinkAssumption DEF Sequence
  <2>5. host' \in [Op -> HostStates]
    <3>1. host' = [host EXCEPT ![o] = [at |-> "sending", expected |-> Version(n)]]
          \/ host' = [host EXCEPT ![o] = Idle]
      BY <1>5, <2>1 DEF ApplySession
    <3> QED BY <1>2, <2>4, <3>1, HostTypes
  <2>6. /\ CursorCounts' /\ cursor' \in [seq : Sequence, version : Sequence]
        /\ board' \in {NoState} \cup Sequence
    BY <2>1, <2>2, <2>8, CursorShows, ShowCounts
  <2>7. TypeOK'
    BY <1>3, <2>2, <2>3, <2>4, <2>5, <2>6, <2>8 DEF TypeOK, commandVars
  <2> QED BY <2>3, <2>6, <2>7
<1>6. CASE ExecuteHostCommand(o)
  <2>1. UNCHANGED <<links, reads, attempt, phase, screenVars, commandVars, isHost, answered>>
        /\ kept' \subseteq Op
        /\ (Committed("management") \/ UNCHANGED <<history, untold>>)
        /\ (host' = [host EXCEPT ![o] = [at |-> "accepted"]] \/ host' = [host EXCEPT ![o] = [at |-> "refused"]])
    BY <1>3, <1>6 DEF ExecuteHostCommand
  <2>2. LinkTypeOK(Purpose)' /\ HistoryGrows
    <3>1. CASE Committed("management")
      <4>1. /\ HistoryGrows
            /\ history' \in Seq({"gameplay", "management"}) /\ Len(history') <= MaxSequence
            /\ untold' \subseteq 1..MaxSequence
        BY <1>1, <3>1, CommittedGrows
      <4> QED BY <1>1, <2>1, <4>1 DEF LinkTypeOK
    <3>2. CASE UNCHANGED <<history, untold>>
      BY <1>1, <2>1, <3>2, HistoryStays DEF LinkTypeOK
    <3> QED BY <2>1, <3>1, <3>2
  <2>3. host' \in [Op -> HostStates]
    BY <1>2, <2>1, HostTypes
  <2>4. TypeOK'
    BY <1>3, <2>1, <2>2, <2>3 DEF TypeOK, commandVars, screenVars
  <2> QED BY <2>1, <2>2, <2>4, CursorStays DEF screenVars
<1>7. CASE HostAccepted(o)
  <2>1. Ask(o, attempt) /\ UNCHANGED <<history, untold, links, attempt, phase, screenVars, commandVars,
                                       isHost, kept, answered>>
        /\ host' = [host EXCEPT ![o] = [at |-> "synchronizing"]]
    BY <1>7 DEF HostAccepted
  <2>2. LinkTypeOK(Purpose)'
    BY <1>1, <2>1, AskTypes DEF LinkTypeOK
  <2>3. host' \in [Op -> HostStates]
    BY <1>2, <2>1, HostTypes
  <2>4. TypeOK'
    BY <1>3, <2>1, <2>2, <2>3 DEF TypeOK, commandVars, screenVars
  <2> QED BY <1>1, <2>1, <2>4, HistoryStays, CursorStays DEF screenVars
<1>8. CASE HostRefused(o) \/ HostFails(o)
  <2>1. UNCHANGED <<history, untold, links, attempt, phase, board, cursor, pending, doubt, commandVars,
                    isHost, kept, answered>>
        /\ host' = [host EXCEPT ![o] = Idle] /\ reads' \subseteq reads
    BY <1>8 DEF HostRefused, HostFails, linkVars
  <2>2. LinkTypeOK(Purpose)'
    BY <1>1, <2>1, FewerTypes
  <2>3. host' \in [Op -> HostStates]
    BY <1>2, <2>1, HostTypes
  <2>4. TypeOK'
    BY <1>3, <2>1, <2>2, <2>3 DEF TypeOK, commandVars
  <2> QED BY <1>1, <2>1, <2>4, HistoryStays, CursorStays
<1> QED BY <1>4, <1>5, <1>6, <1>7, <1>8

\* Types, and a cursor that counts, whatever the step.
LEMMA TypesKept ==
  ASSUME TypeOK, LinksFollow, CursorCounts, [Next]_vars
  PROVE  TypeOK' /\ CursorCounts'
<1>1. CASE Server
  BY <1>1, ServerTypes
<1>2. CASE Reconnect \/ JoinFails \/ Register \/ Unheard
  BY <1>2, ConnectingTypes
<1>3. CASE \E a \in Attempt : LinkLost(a) \/ Receive(a)
  BY <1>3, LostTypes, ReceiveTypes
<1>4. CASE \E r \in reads : Refresh(r) \/ RefreshFails(r) \/ EnterAsHost(r)
  BY <1>4, RefreshTypes
<1>5. CASE \E kind \in MoveKinds : SendCommand(kind)
  BY <1>5, CommandTypes
<1>6. CASE Execute
  BY <1>6, ExecuteTypes
<1>7. CASE \E result \in owed : SendResult(result)
  BY <1>7, SendTypes
<1>8. ASSUME NEW o \in Op,
             \/ StartHostCommand(o)
             \/ \E r \in reads : ApplySession(o, r)
             \/ ExecuteHostCommand(o)
             \/ HostAccepted(o)
             \/ HostRefused(o)
             \/ HostFails(o)
      PROVE  TypeOK' /\ CursorCounts'
  BY <1>8, HostAtTypes
<1>9. CASE UNCHANGED vars
  BY <1>9 DEF vars, linkVars, screenVars, commandVars, hostVars, TypeOK, LinkTypeOK, CursorCounts, Version
<1> QED BY <1>1, <1>2, <1>3, <1>4, <1>5, <1>6, <1>7, <1>8, <1>9 DEF Next

-----------------------------------------------------------------------------
(* Links follow and are in order.                                          *)

\* When no link changes, all stay in order.
LEMMA SameInOrder ==
  ASSUME LatestIsLast, UNCHANGED links
  PROVE  LatestIsLast'
BY DEF LatestIsLast, InOrder

\* A link that is hung up on, or a message taken, leaves all following and in order.
LEMMA EndsKeep ==
  ASSUME LinkTypeOK(Purpose), LinksFollow, LatestIsLast, UNCHANGED <<history, untold>>,
         NEW a \in Attempt, Hang(a) \/ (Taken(a) /\ links[a].wire # <<>>)
  PROVE  (\A b \in Attempt : LinkFollows(links[b])') /\ LatestIsLast'
<1>1. links \in [Attempt -> Link]
  BY DEF LinkTypeOK
<1>2. CASE Hang(a)
  <2> DEFINE l == [links[a] EXCEPT !.state = "closed", !.wire = <<>>]
  <2>1. LinkFollows(l) /\ InOrder(l)
    BY EndsFollow, EndsInOrder
  <2>2. links'[a] = l /\ \A b \in Attempt : b # a => links'[b] = links[b]
    BY <1>1, <1>2 DEF Hang
  <2> HIDE DEF l
  <2> QED BY <2>1, <2>2, OneReplaced
<1>3. CASE Taken(a) /\ links[a].wire # <<>>
  <2> DEFINE l == [links[a] EXCEPT !.wire = Tail(links[a].wire)]
  <2>1. LinkFollows(l) /\ InOrder(l)
    BY <1>3, EndsFollow, EndsInOrder
  <2>2. links'[a] = l /\ \A b \in Attempt : b # a => links'[b] = links[b]
    BY <1>1, <1>3 DEF Taken
  <2> HIDE DEF l
  <2> QED BY <2>1, <2>2, OneReplaced
<1> QED BY <1>2, <1>3

\* Connecting again leaves all links following and in order.
LEMMA ReconnectKeeps ==
  ASSUME TypeOK, LinksFollow, LatestIsLast, Reconnect
  PROVE  /\ attempt \in Attempt /\ attempt + 1 \in Attempt /\ attempt + 1 # attempt
         /\ links'[attempt + 1] = [links[attempt + 1] EXCEPT !.state = "joining"]
         /\ \A b \in Attempt : b # attempt /\ b # attempt + 1 => links'[b] = links[b]
         /\ (\A b \in Attempt : LinkFollows(links[b])') /\ LatestIsLast'
<1>1. LinkTypeOK(Purpose) /\ attempt \in Attempt /\ links \in [Attempt -> Link] /\ history' = history
      /\ untold' = untold
  BY LinkTypes DEF TypeOK, LinkTypeOK, Reconnect
<1>2. attempt + 1 \in Attempt /\ attempt + 1 # attempt
  BY <1>1, LinkAssumption DEF Reconnect, Attempt
<1> DEFINE l == [links[attempt] EXCEPT !.state = IF @ = "open" THEN "closing" ELSE @]
           m == [links[attempt + 1] EXCEPT !.state = "joining"]
<1>3. links' = [links EXCEPT ![attempt + 1] = m, ![attempt] = l]
  BY <1>1, <1>2 DEF Reconnect
<1>4. LinkFollows(l) /\ InOrder(l)
  <2>1. CASE links[attempt].state = "open"
    <3>1. l = [links[attempt] EXCEPT !.state = "closing"]
      BY <2>1
    <3> QED BY <1>1, <3>1, EndsFollow, EndsInOrder
  <2>2. CASE links[attempt].state # "open"
    <3>1. links[attempt] \in Link
      BY <1>1
    <3>2. l = links[attempt]
      BY <2>2, <3>1 DEF Link
    <3> QED BY <1>1, <3>2 DEF LinksFollow, LatestIsLast
  <2> QED BY <2>1, <2>2
<1>5. LinkFollows(m) /\ InOrder(m)
  BY <1>1, <1>2, EndsFollow, EndsInOrder
<1> HIDE DEF l
<1>6. links'[attempt + 1] = m
      /\ \A b \in Attempt : b # attempt /\ b # attempt + 1 => links'[b] = links[b]
  <2> HIDE DEF m
  <2> QED BY <1>1, <1>2, <1>3
<1>7. ASSUME NEW b \in Attempt
      PROVE  LinkFollows(links[b])' /\ InOrder(links[b])'
  <2> HIDE DEF m
  <2>1. CASE b = attempt
    <3>1. links'[b] = l
      BY <1>1, <1>2, <1>3, <2>1
    <3> QED BY <1>1, <1>4, <3>1 DEF LinkFollows, InOrder
  <2>2. CASE b = attempt + 1
    <3>1. links'[b] = m
      BY <1>6, <2>2
    <3> QED BY <1>1, <1>5, <3>1 DEF LinkFollows, InOrder
  <2>3. CASE b # attempt /\ b # attempt + 1
    <3>1. links'[b] = links[b]
      BY <1>6, <2>3
    <3> QED BY <1>1, <3>1 DEF LinkFollows, InOrder, LinksFollow, LatestIsLast
  <2> QED BY <2>1, <2>2, <2>3
<1> QED BY <1>1, <1>2, <1>6, <1>7 DEF LatestIsLast

\* Reads that are fewer, or one more, bring what is committed.
LEMMA ReadsKeep ==
  ASSUME LinkTypeOK(Purpose), LinksFollow, history' = history,
         reads' \subseteq reads \/ \E purpose \in Purpose, a \in Attempt : Ask(purpose, a)
  PROVE  \A r \in reads' : r.at <= Len(history')
<1>1. Len(history) \in Nat /\ \A r \in reads : r.at <= Len(history)
  BY DEF LinkTypeOK, LinksFollow
<1>2. ASSUME NEW purpose \in Purpose, NEW a \in Attempt, Ask(purpose, a)
      PROVE  \A r \in reads' : r.at <= Len(history')
  <2>1. PICK q : q.at = NotRead /\ reads' = reads \cup {q}
    BY <1>2, AskAdds
  <2>2. NotRead <= Len(history)
    BY <1>1 DEF NotRead
  <2> QED BY <1>1, <2>1, <2>2
<1> QED BY <1>1, <1>2

\* The server's steps leave all links in order.
LEMMA ServerInOrder ==
  ASSUME TypeOK, LinksFollow, LatestIsLast, Server
  PROVE  LatestIsLast'
<1>1. LinkTypeOK(Purpose) /\ (Commit \/ ServerStep)
  BY LinkTypes DEF Server, ServerStep
<1>2. CASE Commit \/ \E r \in reads : AnswerRead(r)
  <2>1. UNCHANGED links
    BY <1>2 DEF Commit, AnswerRead
  <2> QED BY <2>1, SameInOrder
<1>3. CASE \E n \in untold : Tell(n)
  BY <1>1, <1>3, TellInOrder
<1>4. CASE \E a \in Attempt : Join(a)
  BY <1>1, <1>4, JoinInOrder
<1> QED BY <1>1, <1>2, <1>3, <1>4 DEF ServerStep

\* Reads a message asks for.
LEMMA ReceiveAsks ==
  ASSUME NEW a \in Attempt, Receive(a)
  PROVE  reads' = reads \/ \E purpose \in {"refresh", "enter"} : Ask(purpose, a)
BY DEF Receive, OnSnapshot, OnEvent, OnResult, OnGap

\* A command is committed, answered or lost.
LEMMA ExecuteCases ==
  ASSUME TypeOK, Execute
  PROVE  \/ Committed("gameplay") /\ UNCHANGED <<links, reads>>
         \/ /\ command.attempt \in Attempt /\ OneAnswered(command.attempt)
            /\ UNCHANGED <<history, untold, reads>>
         \/ UNCHANGED <<history, untold, links, reads>>
<1> DEFINE a == command.attempt
<1>1. a \in Attempt /\ LinkTypeOK(Purpose) /\ reads' = reads
  BY LinkTypes DEF Execute, TypeOK, NoCommand
<1>2. ASSUME NEW outcome \in {"stale", "refused"}, links[a].state = "open", Answer(a, outcome)
      PROVE  OneAnswered(a)
  <2> HIDE DEF a
  <2> QED BY <1>1, <1>2, RefusalAnswered
<1>3. \/ Committed("gameplay") /\ UNCHANGED links
      \/ \E outcome \in {"stale", "refused"} :
           links[a].state = "open" /\ Answer(a, outcome) /\ UNCHANGED <<history, untold>>
      \/ UNCHANGED <<history, untold, links>>
  BY DEF Execute
<1> HIDE DEF a
<1>4. a = command.attempt
  BY DEF a
<1> QED BY <1>1, <1>2, <1>3, <1>4

\* Links that are ended or dialled follow, and stay in order.
LEMMA MovesKeep ==
  ASSUME LinkTypeOK(Purpose), LinksFollow, LatestIsLast, UNCHANGED <<history, untold>>,
         \A a \in Attempt : LinkMoves(links[a], links'[a])
  PROVE  (\A b \in Attempt : LinkFollows(links[b])') /\ LatestIsLast'
<1>1. ASSUME NEW b \in Attempt
      PROVE  LinkFollows(links'[b]) /\ InOrder(links'[b])
  <2>1. CASE links'[b] = links[b]
    BY <2>1 DEF LinksFollow, LatestIsLast
  <2>2. CASE links'[b] # links[b]
    <3>1. CASE \E state \in {"joining", "closing", "closed"} : links'[b] = [links[b] EXCEPT !.state = state]
      <4>1. PICK state \in {"joining", "closing", "closed"} : links'[b] = [links[b] EXCEPT !.state = state]
        BY <3>1
      <4>2. LinkFollows([links[b] EXCEPT !.state = state]) /\ InOrder([links[b] EXCEPT !.state = state])
        BY <1>1, EndsFollow, EndsInOrder
      <4> QED BY <4>1, <4>2
    <3>2. CASE links'[b] = [links[b] EXCEPT !.state = "closed", !.wire = <<>>]
      BY <1>1, <3>2, EndsFollow, EndsInOrder
    <3> QED BY <1>1, <2>2, <3>1, <3>2 DEF LinkMoves
  <2> QED BY <2>1, <2>2
<1>2. \A b \in Attempt : LinkFollows(links[b])'
  BY <1>1 DEF LinkFollows
<1> QED BY <1>1, <1>2 DEF LatestIsLast, InOrder

\* Links follow and are in order, whatever the step.
LEMMA LinksKept ==
  ASSUME TypeOK, LinksFollow, LatestIsLast, CursorCounts, [Next]_vars
  PROVE  LinksFollow' /\ LatestIsLast'
<1>1. LinkTypeOK(Purpose) /\ attempt \in Attempt /\ {"resume", "refresh", "enter"} \subseteq Purpose
      /\ Op \subseteq Purpose /\ untold \subseteq 1..Len(history) /\ LinkTypeOK(Purpose)
  BY LinkTypes DEF TypeOK, Purpose, LinksFollow
<1>2. CASE Server
  BY <1>2, ServerTypes, ServerInOrder
<1>3. ASSUME UNCHANGED <<history, untold>>,
             (\A b \in Attempt : LinkFollows(links[b])') /\ LatestIsLast',
             reads' \subseteq reads \/ \E purpose \in Purpose, a \in Attempt : Ask(purpose, a)
      PROVE  LinksFollow' /\ LatestIsLast'
  <2>1. \A r \in reads' : r.at <= Len(history')
    BY <1>1, <1>3, ReadsKeep
  <2> QED BY <1>1, <1>3, <2>1 DEF LinksFollow
<1>4. ASSUME UNCHANGED <<history, untold, links>>,
             reads' \subseteq reads \/ \E purpose \in Purpose, a \in Attempt : Ask(purpose, a)
      PROVE  LinksFollow' /\ LatestIsLast'
  <2>1. \A b \in Attempt : LinkFollows(links[b])'
    BY <1>4 DEF LinksFollow, LinkFollows
  <2> QED BY <1>3, <1>4, <2>1, SameInOrder
<1>5. CASE Reconnect
  <2>1. UNCHANGED <<history, untold, reads>>
    BY <1>5 DEF Reconnect
  <2> QED BY <1>3, <1>5, <2>1, ReconnectKeeps
<1>6. CASE JoinFails \/ Unheard \/ \E a \in Attempt : LinkLost(a)
  <2>1. PICK a \in Attempt : Hang(a) \/ (Taken(a) /\ links[a].wire # <<>>)
    BY <1>1, <1>6 DEF JoinFails, Unheard, LinkLost
  <2>2. UNCHANGED <<history, untold, reads>>
    BY <1>6 DEF JoinFails, Unheard, LinkLost
  <2> QED BY <1>1, <1>3, <2>1, <2>2, EndsKeep
<1>7. CASE Register
  <2>1. UNCHANGED <<history, untold, links>> /\ Ask("resume", attempt)
    BY <1>7 DEF Register
  <2> QED BY <1>1, <1>4, <2>1
<1>8. ASSUME NEW a \in Attempt, Receive(a)
      PROVE  LinksFollow' /\ LatestIsLast'
  <2>1. UNCHANGED <<history, untold>> /\ Taken(a) /\ links[a].wire # <<>>
    BY <1>8 DEF Receive
  <2>2. reads' = reads \/ \E purpose \in {"refresh", "enter"} : Ask(purpose, a)
    BY <1>8, ReceiveAsks
  <2>3. (\A b \in Attempt : LinkFollows(links[b])') /\ LatestIsLast'
    BY <1>1, <2>1, EndsKeep
  <2> QED BY <1>1, <1>3, <2>1, <2>2, <2>3
<1>9. CASE \E r \in reads : Refresh(r) \/ RefreshFails(r) \/ EnterAsHost(r)
  <2>1. UNCHANGED <<history, untold, links>> /\ reads' \subseteq reads
    BY <1>9 DEF Refresh, RefreshFails, EnterAsHost
  <2> QED BY <1>4, <2>1
<1>10. CASE (\E kind \in MoveKinds : SendCommand(kind)) \/ UNCHANGED vars
  <2>1. UNCHANGED <<history, untold, links, reads>>
    BY <1>10 DEF SendCommand, vars, linkVars
  <2> QED BY <1>4, <2>1
<1>11. CASE Execute
  <2>1. \/ /\ Committed("gameplay") /\ UNCHANGED <<links, reads>>
        \/ /\ command.attempt \in Attempt /\ OneAnswered(command.attempt)
           /\ UNCHANGED <<history, untold, reads>>
        \/ UNCHANGED <<history, untold, links, reads>>
    BY <1>11, ExecuteCases
  <2>2. CASE Committed("gameplay") /\ UNCHANGED <<links, reads>>
    BY <1>1, <2>2, CommitFollows, SameInOrder
  <2>3. CASE /\ command.attempt \in Attempt /\ OneAnswered(command.attempt)
             /\ UNCHANGED <<history, untold, reads>>
    BY <1>1, <1>3, <2>3, AnsweredFollows
  <2>4. CASE UNCHANGED <<history, untold, links, reads>>
    BY <1>4, <2>4
  <2> QED BY <2>1, <2>2, <2>3, <2>4
<1>12. ASSUME NEW result \in owed, SendResult(result)
       PROVE  LinksFollow' /\ LatestIsLast'
  <2>1. result.attempt \in Attempt /\ OneAnswered(result.attempt)
    BY <1>12, SendTypes
  <2>2. UNCHANGED <<history, untold, reads>>
    BY <1>12 DEF SendResult
  <2> QED BY <1>1, <1>3, <2>1, <2>2, AnsweredFollows
<1>13. ASSUME NEW o \in Op,
             \/ StartHostCommand(o)
             \/ \E r \in reads : ApplySession(o, r)
             \/ ExecuteHostCommand(o)
             \/ HostAccepted(o)
             \/ HostRefused(o)
             \/ HostFails(o)
       PROVE  LinksFollow' /\ LatestIsLast'
  <2>1. CASE StartHostCommand(o) \/ HostAccepted(o)
    <3>1. Ask(o, attempt) /\ UNCHANGED <<history, untold, links>>
      BY <2>1 DEF StartHostCommand, HostAccepted
    <3> QED BY <1>1, <1>4, <3>1
  <2>2. CASE HostRefused(o) \/ HostFails(o)
    <3>1. UNCHANGED <<history, untold, links>> /\ reads' \subseteq reads
      BY <2>2 DEF HostRefused, HostFails, linkVars
    <3> QED BY <1>4, <3>1
  <2>4. ASSUME NEW r \in reads, ApplySession(o, r)
        PROVE  LinksFollow' /\ LatestIsLast'
    <3>1. UNCHANGED <<history, untold>> /\ SeatMoves(r.at) /\ reads' \subseteq reads
      BY <2>4 DEF ApplySession, SeatMoves
    <3>2. \A a \in Attempt : LinkMoves(links[a], links'[a])
      BY <3>1, SeatTypes
    <3> QED BY <1>1, <1>3, <3>1, <3>2, MovesKeep
  <2>3. CASE ExecuteHostCommand(o)
    <3>1. UNCHANGED <<links, reads>> /\ (Committed("management") \/ UNCHANGED <<history, untold>>)
      BY <2>3 DEF ExecuteHostCommand
    <3>2. CASE Committed("management")
      BY <1>1, <3>1, <3>2, CommitFollows, SameInOrder
    <3>3. CASE UNCHANGED <<history, untold>>
      BY <1>4, <3>1, <3>3
    <3> QED BY <3>1, <3>2, <3>3
  <2> QED BY <1>13, <2>1, <2>2, <2>3, <2>4
<1> QED BY <1>2, <1>5, <1>6, <1>7, <1>8, <1>9, <1>10, <1>11, <1>12, <1>13 DEF Next

-----------------------------------------------------------------------------
(* The host's turns.                                                       *)

\* What a read's answer changes of the reads.
LEMMA ServerReads ==
  ASSUME TypeOK, Server
  PROVE  \/ reads' = reads /\ UNCHANGED <<attempt, phase, host, answered>>
         \/ /\ UNCHANGED <<history, links, attempt, phase, host, answered, cursor, board, doubt>>
            /\ \E r \in reads : \E q :
                 /\ q.purpose = r.purpose /\ q.attempt = r.attempt /\ q.at = Len(history)
                 /\ r.at = NotRead
                 /\ reads' = (reads \ {r}) \cup {q}
<1>1. LinkTypeOK(Purpose) /\ UNCHANGED <<attempt, phase, screenVars, commandVars, hostVars>>
      /\ (Commit \/ ServerStep)
  BY LinkTypes DEF Server, ServerStep
<1>2. UNCHANGED <<host, answered, cursor, board, doubt>>
  BY <1>1 DEF hostVars, screenVars
<1>3. ASSUME NEW r \in reads, AnswerRead(r)
      PROVE  /\ UNCHANGED <<history, links>> /\ r.at = NotRead
             /\ \E q : /\ q.purpose = r.purpose /\ q.attempt = r.attempt /\ q.at = Len(history)
                       /\ reads' = (reads \ {r}) \cup {q}
  <2>1. UNCHANGED <<history, links>> /\ r.at = NotRead
    BY <1>3 DEF AnswerRead
  <2> QED BY <1>1, <1>3, <2>1, AnswerAdds
<1>4. reads' = reads \/ \E r \in reads : AnswerRead(r)
  BY <1>1 DEF ServerStep, Commit, Tell, Join
<1> QED BY <1>1, <1>2, <1>3, <1>4

\* The state of the host's last answer as a number.
LEMMA AnsweredCounts ==
  ASSUME TypeOK, HostTakesTurns
  PROVE  /\ LinkTypeOK(Purpose)
         /\ answered \in Nat /\ Len(history) \in Nat /\ answered <= Len(history)
<1>1. answered \in Sequence
  BY DEF TypeOK
<1>2. answered \in Nat
  BY <1>1, LinkAssumption DEF Sequence
<1> QED BY <1>2, LinkTypes DEF HostTakesTurns

\* With the host, and what it is waiting for, as they were, turns are taken.
LEMMA TurnsStay ==
  ASSUME TypeOK, HostTakesTurns, HistoryGrows, UNCHANGED <<host, answered>>,
         \A r \in reads' : r.purpose \in Op => r \in reads
  PROVE  HostTakesTurns'
<1>1. answered' <= Len(history')
  <2>1. answered \in Nat /\ Len(history) \in Nat
    BY AnsweredCounts
  <2>2. Len(history') \in Nat /\ Len(history') >= Len(history) /\ answered <= Len(history)
    BY DEF HistoryGrows, HostTakesTurns
  <2> QED BY <2>1, <2>2
<1>2. \A o, q \in Op : host'[o] # Idle /\ host'[q] # Idle => o = q
  BY DEF HostTakesTurns
<1>3. \A r \in reads' : r.purpose \in Op =>
        /\ host'[r.purpose].at \in {"refreshing", "synchronizing"}
        /\ r.at = NotRead \/ r.at >= answered'
  BY DEF HostTakesTurns
<1>4. \A r, q \in reads' : r.purpose \in Op /\ q.purpose = r.purpose => r = q
  BY DEF HostTakesTurns
<1> QED BY <1>1, <1>2, <1>3, <1>4 DEF HostTakesTurns

\* An answered read keeps its turn, and is newer than the last one applied.
LEMMA AnswerKeepsTurns ==
  ASSUME TypeOK, HostTakesTurns, NEW r \in reads, NEW q,
         q.purpose = r.purpose, q.at = Len(history), reads' = (reads \ {r}) \cup {q},
         UNCHANGED <<history, host, answered>>
  PROVE  HostTakesTurns'
<1>1. answered <= Len(history) /\ answered \in Nat /\ Len(history) \in Nat
  BY AnsweredCounts
<1>2. \A o, p \in Op : host'[o] # Idle /\ host'[p] # Idle => o = p
  BY DEF HostTakesTurns
<1>3. \A p \in reads' : p.purpose \in Op =>
        /\ host'[p.purpose].at \in {"refreshing", "synchronizing"}
        /\ p.at = NotRead \/ p.at >= answered'
  <2>1. \A p \in reads : p.purpose \in Op =>
          /\ host[p.purpose].at \in {"refreshing", "synchronizing"}
          /\ p.at = NotRead \/ p.at >= answered
    BY DEF HostTakesTurns
  <2>2. Len(history) >= answered
    BY <1>1
  <2> QED BY <2>1, <2>2
<1>4. \A p, s \in reads' : p.purpose \in Op /\ s.purpose = p.purpose => p = s
  <2>1. \A p, s \in reads : p.purpose \in Op /\ s.purpose = p.purpose => p = s
    BY DEF HostTakesTurns
  <2> QED BY <2>1
<1> QED BY <1>1, <1>2, <1>3, <1>4 DEF HostTakesTurns

\* An operation under way is the only one, and the only one to read.
LEMMA OneHostReads ==
  ASSUME TypeOK, HostTakesTurns, NEW o \in Op, host[o] # Idle \/ QueueIsFree
  PROVE  /\ \A q \in Op : host[q] # Idle => q = o
         /\ \A r \in reads : r.purpose \in Op =>
              r.purpose = o /\ host[o].at \in {"refreshing", "synchronizing"}
<1>1. \A q \in Op : host[q] # Idle => q = o
  BY DEF HostTakesTurns, QueueIsFree
<1>2. ASSUME NEW r \in reads, r.purpose \in Op
      PROVE  r.purpose = o /\ host[o].at \in {"refreshing", "synchronizing"}
  <2>1. host[r.purpose].at \in {"refreshing", "synchronizing"}
    BY <1>2 DEF HostTakesTurns
  <2>2. host[r.purpose] # Idle
    BY <2>1 DEF Idle
  <2> QED BY <1>1, <1>2, <2>1, <2>2
<1> QED BY <1>1, <1>2

\* The operation whose turn it is gets further, and reads nothing or asks anew.
LEMMA HostMoves ==
  ASSUME TypeOK, HostTakesTurns, NEW o \in Op, NEW h, NEW q,
         \A p \in Op : host[p] # Idle => p = o,
         host' = [host EXCEPT ![o] = h], answered' <= Len(history'),
         \A r \in reads' : r.purpose \in Op =>
           r = q /\ q.purpose = o /\ q.at = NotRead /\ h.at \in {"refreshing", "synchronizing"}
  PROVE  HostTakesTurns'
<1>1. host'[o] = h /\ \A p \in Op : p # o => host'[p] = Idle
  BY DEF TypeOK
<1> QED BY <1>1 DEF HostTakesTurns

\* The host's commands take turns, whatever the step.
LEMMA TurnsKept ==
  ASSUME TypeOK, LinksFollow, CursorCounts, HostTakesTurns, [Next]_vars
  PROVE  HostTakesTurns'
<1>1. LinkTypeOK(Purpose) /\ Op \cap {"resume", "refresh", "enter"} = {}
      /\ answered \in Nat /\ Len(history) \in Nat /\ answered <= Len(history)
  BY AnsweredCounts, PlayerAssumption
<1>2. CASE Server
  <2>1. CASE reads' = reads /\ UNCHANGED <<attempt, phase, host, answered>>
    <3>1. HistoryGrows
      BY <1>2, ServerTypes
    <3> QED BY <2>1, <3>1, TurnsStay
  <2>2. CASE /\ UNCHANGED <<history, links, attempt, phase, host, answered, cursor, board, doubt>>
             /\ \E r \in reads : \E q :
                  /\ q.purpose = r.purpose /\ q.attempt = r.attempt /\ q.at = Len(history)
                  /\ r.at = NotRead
                  /\ reads' = (reads \ {r}) \cup {q}
    BY <2>2, AnswerKeepsTurns
  <2> QED BY <1>2, <2>1, <2>2, ServerReads
<1>3. ASSUME UNCHANGED <<host, answered>>, HistoryGrows,
             reads' \subseteq reads
               \/ \E purpose \in {"resume", "refresh", "enter"}, a \in Attempt : Ask(purpose, a)
      PROVE  HostTakesTurns'
  <2>1. \A r \in reads' : r.purpose \in Op => r \in reads
    <3>1. CASE reads' \subseteq reads
      BY <3>1
    <3>2. ASSUME NEW purpose \in {"resume", "refresh", "enter"}, NEW a \in Attempt, Ask(purpose, a)
          PROVE  \A r \in reads' : r.purpose \in Op => r \in reads
      <4>1. PICK q : q.purpose = purpose /\ reads' = reads \cup {q}
        BY <3>2, AskAdds
      <4> QED BY <1>1, <4>1
    <3> QED BY <1>3, <3>1, <3>2
  <2> QED BY <1>3, <2>1, TurnsStay
<1>4. CASE Reconnect \/ JoinFails \/ Register \/ Unheard
  <2>1. UNCHANGED <<host, answered, history>>
    BY <1>4 DEF Reconnect, JoinFails, Register, Unheard, hostVars
  <2>2. reads' = reads \/ Ask("resume", attempt)
    BY <1>4 DEF Reconnect, JoinFails, Register, Unheard
  <2>3. attempt \in Attempt
    BY DEF TypeOK
  <2> QED BY <1>1, <1>3, <2>1, <2>2, <2>3, HistoryStays
<1>5. ASSUME NEW a \in Attempt, LinkLost(a) \/ Receive(a)
      PROVE  HostTakesTurns'
  <2>1. UNCHANGED <<host, answered, history>>
    BY <1>5 DEF LinkLost, Receive, hostVars
  <2>2. reads' = reads \/ \E purpose \in {"refresh", "enter"} : Ask(purpose, a)
    BY <1>5, ReceiveAsks DEF LinkLost
  <2> QED BY <1>1, <1>3, <2>1, <2>2, HistoryStays
<1>6. CASE \E r \in reads : Refresh(r) \/ RefreshFails(r) \/ EnterAsHost(r)
  <2>1. UNCHANGED <<host, answered, history>> /\ reads' \subseteq reads
    BY <1>6 DEF Refresh, RefreshFails, EnterAsHost, hostVars
  <2> QED BY <1>1, <1>3, <2>1, HistoryStays
<1>7. CASE (\E kind \in MoveKinds : SendCommand(kind)) \/ UNCHANGED vars
  <2>1. UNCHANGED <<host, answered, history, reads>>
    BY <1>7 DEF SendCommand, vars, linkVars, hostVars
  <2> QED BY <1>1, <1>3, <2>1, HistoryStays
<1>8. CASE Execute
  <2>1. UNCHANGED <<host, answered, reads>>
    BY <1>8 DEF Execute, hostVars
  <2> QED BY <1>3, <1>8, <2>1, ExecuteTypes
<1>9. CASE \E result \in owed : SendResult(result)
  <2>1. UNCHANGED <<host, answered, history, reads>>
    BY <1>9 DEF SendResult, hostVars
  <2> QED BY <1>1, <1>3, <2>1, HistoryStays
<1>10. ASSUME NEW o \in Op, StartHostCommand(o) \/ HostAccepted(o)
       PROVE  HostTakesTurns'
  <2>1. PICK h : /\ h.at \in {"refreshing", "synchronizing"} /\ host' = [host EXCEPT ![o] = h]
                 /\ Ask(o, attempt) /\ UNCHANGED <<history, answered>>
    <3>1. CASE StartHostCommand(o)
      <4>1. [at |-> "refreshing"].at = "refreshing"
        OBVIOUS
      <4> QED BY <3>1, <4>1 DEF StartHostCommand
    <3>2. CASE HostAccepted(o)
      <4>1. [at |-> "synchronizing"].at = "synchronizing"
        OBVIOUS
      <4> QED BY <3>2, <4>1 DEF HostAccepted
    <3> QED BY <1>10, <3>1, <3>2
  <2>2. PICK q : q.purpose = o /\ q.at = NotRead /\ reads' = reads \cup {q}
    BY <2>1, AskAdds
  <2>3. /\ \A p \in Op : host[p] # Idle => p = o
        /\ \A r \in reads : r.purpose \notin Op
    <3>1. host[o] # Idle \/ QueueIsFree
      BY <1>10 DEF StartHostCommand, HostAccepted, Idle
    <3>2. host[o].at \notin {"refreshing", "synchronizing"}
      BY <1>10 DEF StartHostCommand, HostAccepted, Idle
    <3> QED BY <3>1, <3>2, OneHostReads
  <2>4. answered' <= Len(history')
    BY <1>1, <2>1
  <2>5. \A r \in reads' : r.purpose \in Op =>
          r = q /\ q.purpose = o /\ q.at = NotRead /\ h.at \in {"refreshing", "synchronizing"}
    BY <2>1, <2>2, <2>3
  <2> QED BY <2>1, <2>3, <2>4, <2>5, HostMoves
<1>11. ASSUME NEW o \in Op,
              \/ \E r \in reads : ApplySession(o, r)
              \/ ExecuteHostCommand(o)
              \/ HostRefused(o)
              \/ HostFails(o)
       PROVE  HostTakesTurns'
  <2>1. /\ host[o] # Idle
        /\ \/ \E r \in reads : r.purpose = o /\ reads' = reads \ {r}
           \/ host[o].at \in {"sending", "refused"} /\ reads' = reads
           \/ reads' = {r \in reads : r.purpose # o}
    <3>1. ASSUME NEW r \in reads, ApplySession(o, r)
          PROVE  host[o] # Idle /\ r.purpose = o /\ reads' = reads \ {r}
      <4>1. host[o].at \in {"refreshing", "synchronizing"} /\ r.purpose = o /\ reads' = reads \ {r}
        BY <3>1 DEF ApplySession
      <4>2. Idle.at = "idle"
        BY DEF Idle
      <4> QED BY <4>1, <4>2
    <3>2. CASE ExecuteHostCommand(o)
      BY <3>2 DEF ExecuteHostCommand, Idle
    <3>3. CASE HostRefused(o)
      BY <3>3 DEF HostRefused, Idle, linkVars
    <3>4. CASE HostFails(o)
      BY <3>4 DEF HostFails
    <3> QED BY <1>11, <3>1, <3>2, <3>3, <3>4
  <2>2. PICK h : host' = [host EXCEPT ![o] = h]
    BY <1>11 DEF ApplySession, ExecuteHostCommand, HostRefused, HostFails
  <2>3. /\ \A q \in Op : host[q] # Idle => q = o
        /\ \A r \in reads : r.purpose \in Op =>
              r.purpose = o /\ host[o].at \in {"refreshing", "synchronizing"}
    BY <2>1, OneHostReads
  <2>4. \A r \in reads' : r.purpose \notin Op
    <3>1. \A r, q \in reads : r.purpose \in Op /\ q.purpose = r.purpose => r = q
      BY DEF HostTakesTurns
    <3> QED BY <2>1, <2>3, <3>1
  <2>5. answered' <= Len(history')
    <3>1. ASSUME NEW r \in reads, ApplySession(o, r)
          PROVE  answered' <= Len(history')
      BY <3>1, ReadCounts DEF ApplySession
    <3>2. CASE ExecuteHostCommand(o) \/ HostRefused(o) \/ HostFails(o)
      <4>1. answered' = answered
        BY <3>2 DEF ExecuteHostCommand, HostRefused, HostFails
      <4>2. HistoryGrows
        BY <3>2, HostAtTypes
      <4> QED BY <1>1, <4>1, <4>2 DEF HistoryGrows
    <3> QED BY <1>11, <3>1, <3>2
  <2> QED BY <2>2, <2>3, <2>4, <2>5, HostMoves
<1> QED BY <1>2, <1>4, <1>5, <1>6, <1>7, <1>8, <1>9, <1>10, <1>11 DEF Next

-----------------------------------------------------------------------------
(* Who stays without a seat, and the attempts made.                        *)

\* Only a host is without a seat, or commands, whatever the step.
LEMMA OnlyHostsStayKept ==
  ASSUME TypeOK, OnlyHostsStay, [Next]_vars
  PROVE  OnlyHostsStay'
<1>1. isHost' = isHost
  BY DEF Next, Server, Reconnect, JoinFails, Register, Unheard, LinkLost, Receive, Refresh,
         RefreshFails, EnterAsHost, SendCommand, Execute, SendResult, StartHostCommand, ApplySession,
         ExecuteHostCommand, HostAccepted, HostRefused, HostFails, hostVars, vars
<1>2. SUFFICES ASSUME ~isHost, phase # "seatless", \A r \in reads : r.purpose # "enter",
                      \A o \in Op : host[o] = Idle
               PROVE  /\ phase' # "seatless"
                      /\ \A r \in reads' : r.purpose # "enter"
                      /\ \A o \in Op : host'[o] = Idle
  BY <1>1 DEF OnlyHostsStay
<1>3. ASSUME phase' # "seatless", host' = host,
             reads' \subseteq reads \/ \E purpose \in {"resume", "refresh"}, a \in Attempt : Ask(purpose, a)
      PROVE  /\ phase' # "seatless"
             /\ \A r \in reads' : r.purpose # "enter"
             /\ \A o \in Op : host'[o] = Idle
  <2>1. ASSUME NEW purpose \in {"resume", "refresh"}, NEW a \in Attempt, Ask(purpose, a)
        PROVE  \A r \in reads' : r.purpose # "enter"
    <3>1. PICK q : q.purpose = purpose /\ reads' = reads \cup {q}
      BY <2>1, AskAdds
    <3> QED BY <1>2, <3>1
  <2> QED BY <1>2, <1>3, <2>1
<1>4. CASE Server
  <2>1. phase' = phase /\ host' = host
    BY <1>4 DEF Server, hostVars
  <2>2. \A r \in reads' : r.purpose # "enter"
    BY <1>2, <1>4, ServerReads
  <2> QED BY <1>2, <2>1, <2>2
<1>5. CASE Reconnect \/ JoinFails \/ Register \/ Unheard
  <2>1. phase' # "seatless" /\ host' = host
    BY <1>5 DEF Reconnect, JoinFails, Register, Unheard, hostVars
  <2>2. reads' = reads \/ Ask("resume", attempt)
    BY <1>5 DEF Reconnect, JoinFails, Register, Unheard
  <2>3. attempt \in Attempt
    BY DEF TypeOK
  <2> QED BY <1>3, <2>1, <2>2, <2>3
<1>6. ASSUME NEW a \in Attempt, LinkLost(a) \/ Receive(a)
      PROVE  /\ phase' # "seatless"
             /\ \A r \in reads' : r.purpose # "enter"
             /\ \A o \in Op : host'[o] = Idle
  <2>1. phase' # "seatless" /\ host' = host
    BY <1>2, <1>6 DEF LinkLost, Receive, OnSnapshot, OnEvent, OnResult, hostVars
  <2>2. reads' = reads \/ Ask("refresh", a)
    BY <1>2, <1>6 DEF LinkLost, Receive, OnSnapshot, OnEvent, OnResult, OnGap
  <2> QED BY <1>3, <2>1, <2>2
<1>7. CASE \E r \in reads : Refresh(r) \/ RefreshFails(r) \/ EnterAsHost(r)
  <2>1. phase' # "seatless" /\ reads' \subseteq reads /\ host' = host
    BY <1>2, <1>7 DEF Refresh, RefreshFails, EnterAsHost, hostVars
  <2> QED BY <1>3, <2>1
<1>8. CASE (\E kind \in MoveKinds : SendCommand(kind)) \/ Execute
             \/ (\E result \in owed : SendResult(result)) \/ UNCHANGED vars
  <2>1. phase' = phase /\ reads' = reads /\ host' = host
    BY <1>8 DEF SendCommand, Execute, SendResult, vars, linkVars, hostVars
  <2> QED BY <1>2, <2>1
<1>9. ASSUME NEW o \in Op,
             \/ StartHostCommand(o)
             \/ \E r \in reads : ApplySession(o, r)
             \/ ExecuteHostCommand(o)
             \/ HostAccepted(o)
             \/ HostRefused(o)
             \/ HostFails(o)
      PROVE  FALSE
  <2>1. host[o] = Idle /\ Idle.at = "idle"
    BY <1>2 DEF Idle
  <2> QED BY <1>2, <1>9, <2>1 DEF StartHostCommand, ApplySession, ExecuteHostCommand, HostAccepted,
                                HostRefused, HostFails
<1> QED BY <1>2, <1>4, <1>5, <1>6, <1>7, <1>8, <1>9 DEF Next

\* The attempts as numbers.
LEMMA AttemptNumbers ==
  ASSUME TypeOK
  PROVE  attempt \in Attempt /\ attempt \in Int /\ \A a \in Attempt : a \in Int
<1>1. attempt \in Attempt
  BY DEF TypeOK
<1> QED BY <1>1, LinkAssumption DEF Attempt

\* Links that are not yet made, or change only when they were, count.
LEMMA LinksCount ==
  ASSUME TypeOK, AttemptsCount, attempt' = attempt, NEW a \in Attempt,
         links[a].state # "none" \/ links[a].wire # <<>> \/ a <= attempt,
         \A b \in Attempt : b # a => links'[b] = links[b]
  PROVE  \A b \in Attempt : b > attempt' => links'[b].state = "none" /\ links'[b].wire = <<>>
<1>1. a \in Int /\ attempt \in Int
  BY AttemptNumbers
<1>2. a <= attempt
  BY <1>1 DEF AttemptsCount
<1> QED BY <1>1, <1>2 DEF AttemptsCount

\* Reads that are fewer, or one more of an attempt made, count.
LEMMA ReadsCount ==
  ASSUME TypeOK, AttemptsCount, attempt' = attempt, phase' = "connecting" => phase = "connecting",
         \/ reads' \subseteq reads
         \/ \E purpose \in Purpose, a \in Attempt :
              /\ Ask(purpose, a) /\ a <= attempt
              /\ purpose \in Op \/ a # attempt \/ phase' # "connecting"
  PROVE  \A r \in reads' :
           /\ r.attempt <= attempt'
           /\ phase' = "connecting" /\ r.purpose \in {"resume", "refresh", "enter"} =>
                r.attempt # attempt'
<1>1. CASE reads' \subseteq reads
  BY <1>1 DEF AttemptsCount
<1>2. ASSUME NEW purpose \in Purpose, NEW a \in Attempt, Ask(purpose, a), a <= attempt,
             purpose \in Op \/ a # attempt \/ phase' # "connecting"
      PROVE  \A r \in reads' :
               /\ r.attempt <= attempt'
               /\ phase' = "connecting" /\ r.purpose \in {"resume", "refresh", "enter"} =>
                    r.attempt # attempt'
  <2>1. PICK q : q.purpose = purpose /\ q.attempt = a /\ reads' = reads \cup {q}
    BY <1>2, AskAdds
  <2>2. purpose \in Op => purpose \notin {"resume", "refresh", "enter"}
    BY PlayerAssumption
  <2> QED BY <1>2, <2>1, <2>2 DEF AttemptsCount
<1> QED BY <1>1, <1>2

\* Everything that leaves the links alone.
LEMMA SameLinksCount ==
  ASSUME AttemptsCount, UNCHANGED <<links, attempt>>
  PROVE  \A b \in Attempt : b > attempt' => links'[b].state = "none" /\ links'[b].wire = <<>>
BY DEF AttemptsCount

\* The server's steps touch no connection that is not made.
LEMMA ServerCounts ==
  ASSUME TypeOK, AttemptsCount, Server
  PROVE  AttemptsCount'
<1>1. UNCHANGED <<attempt, phase>> /\ (Commit \/ ServerStep)
  BY DEF Server, ServerStep
<1>2. \A b \in Attempt : b > attempt' => links'[b].state = "none" /\ links'[b].wire = <<>>
  <2>1. CASE Commit \/ \E r \in reads : AnswerRead(r)
    <3>1. UNCHANGED links
      BY <2>1 DEF Commit, AnswerRead
    <3> QED BY <1>1, <3>1, SameLinksCount
  <2>2. ASSUME NEW n \in untold, Tell(n), NEW b \in Attempt, b > attempt'
        PROVE  links'[b] = links[b]
    <3>1. links[b].state = "none"
      BY <1>1, <2>2 DEF AttemptsCount
    <3> QED BY <2>2, <3>1 DEF Tell
  <2>3. ASSUME NEW a \in Attempt, Join(a), NEW b \in Attempt, b > attempt'
        PROVE  links'[b] = links[b]
    <3>1. links[b].state = "none"
      BY <1>1, <2>3 DEF AttemptsCount
    <3>2. b # a
      BY <2>3, <3>1 DEF Join
    <3> QED BY <2>3, <3>1, <3>2 DEF Join
  <2> QED BY <1>1, <2>1, <2>2, <2>3 DEF ServerStep, AttemptsCount
<1>3. \A r \in reads' :
        /\ r.attempt <= attempt'
        /\ phase' = "connecting" /\ r.purpose \in {"resume", "refresh", "enter"} =>
             r.attempt # attempt'
  BY <1>1, ServerReads DEF AttemptsCount
<1> QED BY <1>2, <1>3 DEF AttemptsCount

\* One more attempt: no read is its own yet.
LEMMA ReconnectCounts ==
  ASSUME TypeOK, LinksFollow, LatestIsLast, AttemptsCount, Reconnect
  PROVE  AttemptsCount'
<1>1. /\ attempt \in Int /\ attempt' = attempt + 1 /\ reads' = reads
      /\ \A b \in Attempt : b # attempt /\ b # attempt + 1 => links'[b] = links[b]
  BY ReconnectKeeps, AttemptNumbers DEF Reconnect
<1>2. \A b \in Attempt : b \in Int
  BY LinkAssumption DEF Attempt
<1>3. \A b \in Attempt : b > attempt' => links'[b].state = "none" /\ links'[b].wire = <<>>
  BY <1>1, <1>2 DEF AttemptsCount
<1>4. \A r \in reads : r.attempt \in Int /\ r.attempt <= attempt
  <2>1. \A r \in reads : r.attempt \in Attempt
    BY LinkTypes DEF LinkTypeOK, Read
  <2> QED BY <1>2, <2>1 DEF AttemptsCount
<1>5. \A r \in reads' : r.attempt <= attempt' /\ r.attempt # attempt'
  BY <1>1, <1>4
<1> QED BY <1>3, <1>5 DEF AttemptsCount

\* An answer's seat ends a connection, or makes one more: no read is its own yet.
LEMMA SeatCounts ==
  ASSUME TypeOK, AttemptsCount, NEW n, SeatMoves(n), reads' \subseteq reads
  PROVE  AttemptsCount'
<1>1. /\ attempt \in Attempt /\ attempt \in Int /\ links \in [Attempt -> Link]
      /\ \A b \in Attempt : b \in Int
  BY LinkTypes, AttemptNumbers DEF LinkTypeOK
<1>2. \A r \in reads : r.attempt \in Int /\ r.attempt <= attempt
  <2>1. \A r \in reads : r.attempt \in Attempt
    BY LinkTypes DEF LinkTypeOK, Read
  <2> QED BY <1>1, <2>1 DEF AttemptsCount
<1>3. CASE SeatStays(n)
  BY <1>3 DEF SeatStays, AttemptsCount
<1>4. CASE SeatGone(n)
  <2>1. attempt' = attempt /\ phase' # "connecting"
    BY <1>4 DEF SeatGone
  <2>2. \A b \in Attempt : b # attempt => links'[b] = links[b]
    BY <1>1, <1>4 DEF SeatGone, Hang
  <2>3. \A b \in Attempt : b > attempt' => links'[b].state = "none" /\ links'[b].wire = <<>>
    BY <1>1, <2>1, <2>2 DEF AttemptsCount
  <2>4. \A r \in reads' : r.attempt <= attempt'
    BY <2>1 DEF AttemptsCount
  <2> QED BY <2>1, <2>3, <2>4 DEF AttemptsCount
<1>5. CASE SeatBack(n)
  <2>1. attempt' = attempt + 1
    BY <1>5 DEF SeatBack
  <2>2. \A b \in Attempt : b # attempt + 1 => links'[b] = links[b]
    BY <1>5 DEF SeatBack, Dial
  <2>3. \A b \in Attempt : b > attempt' => links'[b].state = "none" /\ links'[b].wire = <<>>
    BY <1>1, <2>1, <2>2 DEF AttemptsCount
  <2>4. \A r \in reads' : r.attempt <= attempt' /\ r.attempt # attempt'
    BY <1>1, <1>2, <2>1
  <2> QED BY <2>3, <2>4 DEF AttemptsCount
<1> QED BY <1>3, <1>4, <1>5 DEF SeatMoves

\* Attempts count, whatever the step.
LEMMA AttemptsKept ==
  ASSUME TypeOK, LinksFollow, LatestIsLast, CursorCounts, AttemptsCount, [Next]_vars
  PROVE  AttemptsCount'
<1>1. /\ LinkTypeOK(Purpose) /\ attempt \in Attempt /\ attempt <= attempt
      /\ {"resume", "refresh", "enter"} \subseteq Purpose /\ Op \subseteq Purpose
      /\ links \in [Attempt -> Link]
  <2>1. attempt \in Attempt
    BY DEF TypeOK
  <2>2. attempt <= attempt
    BY <2>1, LinkAssumption DEF Attempt
  <2> QED BY <2>1, <2>2, LinkTypes DEF Purpose, LinkTypeOK
<1>2. CASE Server
  BY <1>2, ServerCounts
<1>3. CASE Reconnect
  BY <1>3, ReconnectCounts
<1>4. ASSUME attempt' = attempt, phase' = "connecting" => phase = "connecting",
             \/ UNCHANGED links
             \/ \E a \in Attempt :
                  /\ links[a].state # "none" \/ links[a].wire # <<>> \/ a <= attempt
                  /\ \A b \in Attempt : b # a => links'[b] = links[b],
             \/ reads' \subseteq reads
             \/ \E purpose \in Purpose, a \in Attempt :
                  /\ Ask(purpose, a) /\ a <= attempt
                  /\ purpose \in Op \/ a # attempt \/ phase' # "connecting"
      PROVE  AttemptsCount'
  <2>1. \A b \in Attempt : b > attempt' => links'[b].state = "none" /\ links'[b].wire = <<>>
    BY <1>4, LinksCount, SameLinksCount
  <2>2. \A r \in reads' :
           /\ r.attempt <= attempt'
           /\ phase' = "connecting" /\ r.purpose \in {"resume", "refresh", "enter"} =>
                r.attempt # attempt'
    BY <1>4, ReadsCount
  <2> QED BY <2>1, <2>2 DEF AttemptsCount
<1>5. CASE JoinFails \/ Register \/ Unheard
  <2>1. attempt' = attempt /\ (phase' = "connecting" => phase = "connecting")
    BY <1>5 DEF JoinFails, Register, Unheard
  <2>2. \/ UNCHANGED links
        \/ \A b \in Attempt : b # attempt => links'[b] = links[b]
    BY <1>1, <1>5 DEF JoinFails, Register, Unheard, Hang, Taken
  <2>3. reads' = reads \/ (Ask("resume", attempt) /\ phase' # "connecting")
    BY <1>5 DEF JoinFails, Register, Unheard
  <2> QED BY <1>1, <1>4, <2>1, <2>2, <2>3
<1>6. ASSUME NEW a \in Attempt, LinkLost(a) \/ Receive(a)
      PROVE  AttemptsCount'
  <2>1. attempt' = attempt /\ (phase' = "connecting" => phase = "connecting")
    BY <1>6 DEF LinkLost, Receive, OnSnapshot, OnEvent, OnResult
  <2>2. links[a].state # "none" \/ links[a].wire # <<>>
    BY <1>6 DEF LinkLost, Receive
  <2>3. \A b \in Attempt : b # a => links'[b] = links[b]
    BY <1>1, <1>6 DEF LinkLost, Receive, Hang, Taken
  <2>4. a <= attempt
    BY <2>2, AttemptNumbers DEF AttemptsCount
  <2>5. \/ reads' = reads
        \/ /\ \E purpose \in {"refresh", "enter"} : Ask(purpose, a)
           /\ a < attempt \/ phase # "connecting"
    BY <1>6, ReceiveAsks DEF LinkLost, Receive
  <2>6. a < attempt => a # attempt
    BY <1>1, LinkAssumption DEF Attempt
  <2> QED BY <1>1, <1>4, <2>1, <2>2, <2>3, <2>4, <2>5, <2>6
<1>7. CASE \E r \in reads : Refresh(r) \/ RefreshFails(r) \/ EnterAsHost(r)
  <2>1. attempt' = attempt /\ (phase' = "connecting" => phase = "connecting") /\ UNCHANGED links
        /\ reads' \subseteq reads
    BY <1>7 DEF Refresh, RefreshFails, EnterAsHost
  <2> QED BY <1>4, <2>1
<1>8. CASE (\E kind \in MoveKinds : SendCommand(kind)) \/ UNCHANGED vars
  <2>1. UNCHANGED <<attempt, phase, links, reads>>
    BY <1>8 DEF SendCommand, vars, linkVars
  <2> QED BY <1>4, <2>1
<1>9. CASE Execute
  <2>1. UNCHANGED <<attempt, phase, reads>>
    BY <1>9 DEF Execute
  <2>2. CASE UNCHANGED links
    BY <1>4, <2>1, <2>2
  <2>3. ASSUME NEW a \in Attempt, OneAnswered(a), ~UNCHANGED links
        PROVE  AttemptsCount'
    <3>1. CASE links'[a] = links[a]
      <4>1. \A b \in Attempt : b # attempt => links'[b] = links[b]
        BY <2>3, <3>1 DEF OneAnswered
      <4> QED BY <1>1, <1>4, <2>1, <4>1
    <3>2. CASE links'[a] # links[a]
      <4>1. links[a].state # "none"
        BY <2>3, <3>2 DEF OneAnswered
      <4>2. \A b \in Attempt : b # a => links'[b] = links[b]
        BY <2>3 DEF OneAnswered
      <4> QED BY <1>4, <2>1, <4>1, <4>2
    <3> QED BY <3>1, <3>2
  <2> QED BY <1>9, <2>2, <2>3, ExecuteCases
<1>10. ASSUME NEW result \in owed, SendResult(result)
       PROVE  AttemptsCount'
  <2>1. UNCHANGED <<attempt, phase, reads>>
    BY <1>10 DEF SendResult
  <2>2. result.attempt \in Attempt /\ OneAnswered(result.attempt)
    BY <1>10, SendTypes
  <2>3. \/ \A b \in Attempt : links'[b] = links[b]
        \/ /\ links[result.attempt].state = "open"
           /\ \A b \in Attempt : b # result.attempt => links'[b] = links[b]
    BY <2>2 DEF OneAnswered
  <2>4. CASE \A b \in Attempt : links'[b] = links[b]
    <3>1. \A b \in Attempt : b # attempt => links'[b] = links[b]
      BY <2>4
    <3> QED BY <1>1, <1>4, <2>1, <3>1
  <2> QED BY <1>4, <2>1, <2>2, <2>3, <2>4
<1>11. ASSUME NEW o \in Op,
              \/ StartHostCommand(o)
              \/ ExecuteHostCommand(o)
              \/ HostAccepted(o)
              \/ HostRefused(o)
              \/ HostFails(o)
       PROVE  AttemptsCount'
  <2>1. UNCHANGED <<attempt, phase, links>>
    BY <1>11 DEF StartHostCommand, ExecuteHostCommand, HostAccepted, HostRefused, HostFails, linkVars
  <2>2. reads' \subseteq reads \/ Ask(o, attempt)
    BY <1>11 DEF StartHostCommand, ExecuteHostCommand, HostAccepted, HostRefused, HostFails, linkVars
  <2> QED BY <1>1, <1>4, <2>1, <2>2
<1>12. ASSUME NEW o \in Op, NEW r \in reads, ApplySession(o, r)
       PROVE  AttemptsCount'
  <2>1. SeatMoves(r.at) /\ reads' \subseteq reads
    BY <1>12 DEF ApplySession, SeatMoves
  <2> QED BY <2>1, SeatCounts
<1> QED BY <1>2, <1>3, <1>5, <1>6, <1>7, <1>8, <1>9, <1>10, <1>11, <1>12 DEF Next

-----------------------------------------------------------------------------
(* The cursor and the board follow.                                        *)

\* A state shown on a board has the version of the cursor.
LEMMA ShowMatches ==
  ASSUME TypeOK, CursorCounts, NEW n \in Nat, n <= Len(history), Show(n), history' = history,
         board # NoState
  PROVE  Version(board)' = (cursor.version)' /\ cursor'.seq = n
<1>1. cursor'.seq = n /\ cursor'.version = Version(n) /\ board' = n
  BY ShowCounts
<1>2. Version(n)' = Version(n)
  BY DEF Version
<1>3. Version(board)' = Version(n)
  BY <1>1, <1>2
<1> QED BY <1>1, <1>3

\* The nth event is passed, or on its way.
Reached(n) == cursor.seq >= n \/ Told(attempt, n) \/ Brought(n)

\* The cursor follows when what was reached is reached again.
LEMMA FollowsStay ==
  ASSUME TypeOK, LinksFollow, CursorFollows, attempt' = attempt, Following' => Following,
         Following => links'[attempt].seen = links[attempt].seen,
         \A n \in Nat : n <= Len(history) /\ Reached(n) => Reached(n)'
  PROVE  CursorFollows'
<1>1. SUFFICES ASSUME Following' PROVE Reached(links[attempt].seen)'
  BY DEF CursorFollows, Reached
<1>2. PICK n \in Nat : n = links[attempt].seen /\ n <= Len(history)
  BY LinkTypes, LinkParts, AttemptNumbers DEF LinksFollow, LinkFollows
<1>3. Reached(n)
  BY <1>1, <1>2 DEF CursorFollows, Reached
<1>4. Reached(n)'
  BY <1>2, <1>3
<1>5. links'[attempt'].seen = n
  BY <1>1, <1>2
<1> QED BY <1>4, <1>5 DEF Reached

\* The board follows when nothing on the screen changes.
LEMMA BoardStays ==
  ASSUME TypeOK, CursorCounts, BoardFollows, HistoryGrows, UNCHANGED <<board, cursor, attempt>>,
         phase' = "connecting" /\ doubt' # "former connection" =>
           phase = "connecting" /\ doubt # "former connection",
         Following' => Following,
         Following /\ Wired(attempt, 0) => Wired(attempt, 0)'
  PROVE  BoardFollows'
<1>1. Version(board)' = Version(board) /\ cursor'.version = cursor.version
  <2>1. CASE phase = "left" => phase' = "left"
    BY <2>1, CursorStays
  <2>2. CASE ~(phase = "left" => phase' = "left")
    <3>1. PICK n \in Int : n = board /\ n <= Len(history) /\ Len(history) \in Nat
      BY Numbers
    <3>2. Version(n)' = Version(n)
      BY <3>1, VersionKept DEF HistoryGrows
    <3>3. board' = n
      BY <3>1
    <3>4. Version(board)' = Version(n)
      BY <3>2, <3>3
    <3> QED BY <3>1, <3>4
  <2> QED BY <2>1, <2>2
<1>2. (phase = "connecting" /\ doubt # "former connection" => Version(board) = cursor.version)'
  BY <1>1 DEF BoardFollows
<1>3. (Following => Version(board) = cursor.version \/ Wired(attempt, 0))'
  BY <1>1 DEF BoardFollows
<1> QED BY <1>2, <1>3 DEF BoardFollows

\* Reads that stay, or are answered, bring what they were to bring.
LEMMA BroughtStays ==
  ASSUME NEW n, attempt' = attempt, Brought(n),
         \A r \in reads : r.attempt = attempt /\ r.purpose \in {"resume", "refresh"} =>
           \E q \in reads' : /\ q.attempt = r.attempt /\ q.purpose = r.purpose
                             /\ q.at = NotRead \/ q.at = r.at \/ q.at >= n
  PROVE  Brought(n)'
BY DEF Brought

\* Telling opens no link, and closes none.
LEMMA TellStates ==
  ASSUME LinkTypeOK(Purpose), NEW n \in untold, Tell(n), NEW a \in Attempt
  PROVE  links'[a].state = links[a].state
<1>1. links[a] \in Link
  BY LinkParts
<1>2. [links[a] EXCEPT !.seen = n, !.wire = links[a].wire \o Batch(n)].state = links[a].state
  BY <1>1 DEF Link
<1> QED BY <1>2 DEF Tell

\* The screen keeps up with the server's steps.
LEMMA ServerKeepsUp ==
  ASSUME TypeOK, LinksFollow, CursorCounts, CursorFollows, BoardFollows, Server
  PROVE  CursorFollows' /\ BoardFollows'
<1>1. /\ LinkTypeOK(Purpose) /\ attempt \in Attempt /\ HistoryGrows
      /\ UNCHANGED <<attempt, phase, board, cursor, doubt>> /\ (Commit \/ ServerStep)
      /\ Len(history) \in Nat
  BY LinkTypes, ServerTypes, AttemptNumbers DEF Server, ServerStep, screenVars
<1>2. CASE Commit \/ \E r \in reads : AnswerRead(r)
  <2>1. UNCHANGED links
    BY <1>2 DEF Commit, AnswerRead
  <2>2. Following' = Following
    BY <1>1, <2>1 DEF Following
  <2>3. ASSUME NEW n \in Nat, n <= Len(history), Reached(n) PROVE Reached(n)'
    <3>1. Told(attempt, n) => Told(attempt, n)'
      BY <1>1, <2>1 DEF Told
    <3>2. Brought(n) => Brought(n)'
      <4>1. CASE reads' = reads
        BY <1>1, <4>1 DEF Brought
      <4>2. ASSUME NEW r \in reads, NEW q, q.purpose = r.purpose, q.attempt = r.attempt,
                   q.at = Len(history), reads' = (reads \ {r}) \cup {q}
            PROVE  Brought(n) => Brought(n)'
        BY <1>1, <2>3, <4>2 DEF Brought
      <4> QED BY <1>2, <4>1, <4>2, ServerReads
    <3> QED BY <1>1, <2>3, <3>1, <3>2 DEF Reached
  <2>4. CursorFollows'
    BY <1>1, <2>1, <2>2, <2>3, FollowsStay
  <2>5. BoardFollows'
    <3>1. Wired(attempt, 0) => Wired(attempt, 0)'
      BY <1>1, <2>1 DEF Wired
    <3> QED BY <1>1, <2>2, <3>1, BoardStays
  <2> QED BY <2>4, <2>5
<1>3. ASSUME UNCHANGED <<history, reads>>, Wired(attempt, 0) => Wired(attempt, 0)',
             links'[attempt] = links[attempt], \A m \in Int : Told(attempt, m) => Told(attempt, m)'
      PROVE  CursorFollows' /\ BoardFollows'
  <2>1. Following' = Following
    BY <1>1, <1>3 DEF Following
  <2>2. ASSUME NEW n \in Nat, n <= Len(history), Reached(n) PROVE Reached(n)'
    BY <1>1, <1>3, <2>2 DEF Reached, Brought
  <2>3. CursorFollows'
    BY <1>1, <1>3, <2>1, <2>2, FollowsStay
  <2>4. BoardFollows'
    BY <1>1, <1>3, <2>1, BoardStays
  <2> QED BY <2>3, <2>4
<1>4. ASSUME NEW n \in untold, Tell(n)
      PROVE  CursorFollows' /\ BoardFollows'
  <2>1. UNCHANGED <<history, reads>>
    BY <1>4 DEF Tell
  <2>2. /\ \A m \in Int : Wired(attempt, m) => Wired(attempt, m)'
        /\ \A m \in Int : Told(attempt, m) => Told(attempt, m)'
        /\ links'[attempt] = links[attempt] \/ (links'[attempt].seen = n /\ Told(attempt, n)')
    BY <1>1, <1>4, TellArrives
  <2>3. CASE links'[attempt] = links[attempt]
    BY <1>3, <2>1, <2>2, <2>3
  <2>4. CASE links'[attempt].seen = n /\ Told(attempt, n)'
    <3>1. Told(attempt, links[attempt].seen)'
      BY <1>1, <2>4
    <3>2. Following' => Following
      <4>1. links'[attempt].state = links[attempt].state
        BY <1>1, <1>4, TellStates
      <4> QED BY <1>1, <4>1 DEF Following
    <3>3. BoardFollows'
      <4>1. Wired(attempt, 0) => Wired(attempt, 0)'
        BY <2>2
      <4> QED BY <1>1, <3>2, <4>1, BoardStays
    <3> QED BY <3>1, <3>3 DEF CursorFollows
  <2> QED BY <2>2, <2>3, <2>4
<1>5. ASSUME NEW b \in Attempt, Join(b)
      PROVE  CursorFollows' /\ BoardFollows'
  <2>1. UNCHANGED <<history, reads>>
    BY <1>5 DEF Join
  <2>2. /\ \A m \in Int : m <= Len(history) /\ Wired(attempt, m) => Wired(attempt, m)'
        /\ \/ links'[attempt] = links[attempt]
           \/ links'[attempt].state # "open"
           \/ links'[attempt].seen = Len(history) /\ Told(attempt, Len(history))' /\ Wired(attempt, 0)'
    BY <1>1, <1>5, JoinArrives
  <2>3. Wired(attempt, 0) => Wired(attempt, 0)'
    BY <1>1, <2>2
  <2>4. CASE links'[attempt] = links[attempt]
    <3>1. \A m \in Int : Told(attempt, m) => Told(attempt, m)'
      BY <1>1, <2>4 DEF Told
    <3> QED BY <1>3, <2>1, <2>3, <2>4, <3>1
  <2>5. CASE links'[attempt].state # "open"
    <3>1. ~Following'
      BY <1>1, <2>5 DEF Following
    <3>2. BoardFollows'
      BY <1>1, <2>3, <3>1, BoardStays
    <3> QED BY <3>1, <3>2 DEF CursorFollows
  <2>6. CASE links'[attempt].seen = Len(history) /\ Told(attempt, Len(history))' /\ Wired(attempt, 0)'
    <3>1. CursorFollows'
      BY <1>1, <2>1, <2>6 DEF CursorFollows
    <3>2. (phase = "connecting" /\ doubt # "former connection" => Version(board) = cursor.version)'
      BY <1>1, <2>1 DEF BoardFollows, Version
    <3> QED BY <2>6, <3>1, <3>2 DEF BoardFollows
  <2> QED BY <2>2, <2>4, <2>5, <2>6
<1> QED BY <1>1, <1>2, <1>4, <1>5 DEF ServerStep

\* The screen keeps up while connecting.
LEMMA ConnectingKeepsUp ==
  ASSUME TypeOK, LinksFollow, CursorCounts, BoardFollows,
         Reconnect \/ JoinFails \/ Register \/ Unheard
  PROVE  CursorFollows' /\ BoardFollows'
<1>1. /\ LinkTypeOK(Purpose) /\ attempt \in Attempt /\ HistoryGrows /\ links \in [Attempt -> Link]
      /\ history' = history
  <2>1. history' = history
    BY DEF Reconnect, JoinFails, Register, Unheard
  <2> QED BY <2>1, LinkTypes, HistoryStays, AttemptNumbers DEF LinkTypeOK
<1>2. CASE Reconnect
  <2>1. phase' = "connecting" /\ board' = board /\ cursor' = At(board)
    BY <1>2 DEF Reconnect
  <2>2. (Version(board) = cursor.version)'
    BY <1>1, <2>1 DEF At, Version
  <2>3. ~Following'
    BY <2>1 DEF Following
  <2> QED BY <2>2, <2>3 DEF CursorFollows, BoardFollows
<1>3. CASE JoinFails
  <2>1. phase' = "disconnected" /\ UNCHANGED <<board, cursor, attempt>> /\ links'[attempt].state = "closed"
    <3>1. links' = [links EXCEPT ![attempt] = [@ EXCEPT !.state = "closed", !.wire = <<>>]]
      BY <1>3 DEF JoinFails, Hang
    <3>2. links[attempt] \in Link
      BY <1>1
    <3>3. links'[attempt] = [links[attempt] EXCEPT !.state = "closed", !.wire = <<>>]
      BY <1>1, <3>1
    <3>4. links'[attempt].state = "closed"
      BY <3>2, <3>3 DEF Link
    <3> QED BY <1>3, <3>4 DEF JoinFails
  <2>2. ~Following'
    BY <2>1 DEF Following
  <2> QED BY <1>1, <2>1, <2>2 DEF CursorFollows, BoardFollows
<1>4. CASE Register
  <2>1. /\ phase = "connecting" /\ phase' = "resuming" /\ UNCHANGED <<board, cursor, attempt>>
        /\ doubt' = (IF doubt = "former connection" THEN doubt ELSE "none")
    BY <1>4 DEF Register
  <2>2. PICK q : q.purpose = "resume" /\ q.attempt = attempt /\ q.at = NotRead /\ reads' = reads \cup {q}
    <3>1. Ask("resume", attempt)
      BY <1>4 DEF Register
    <3> QED BY <3>1, AskAdds
  <2>3. Brought(links[attempt].seen)'
    BY <2>1, <2>2 DEF Brought
  <2>4. Following' => (Version(board) = cursor.version)'
    <3>1. SUFFICES ASSUME doubt' = "none" PROVE (Version(board) = cursor.version)'
      BY DEF Following
    <3>2. Version(board) = cursor.version
      BY <2>1, <3>1 DEF BoardFollows
    <3> QED BY <1>1, <2>1, <3>2 DEF Version
  <2> QED BY <2>1, <2>3, <2>4 DEF CursorFollows, BoardFollows
<1>5. CASE Unheard
  <2>1. phase' = "connecting" /\ phase = "connecting" /\ UNCHANGED <<board, cursor, doubt, attempt>>
    BY <1>5 DEF Unheard, screenVars
  <2>2. ~Following'
    BY <2>1 DEF Following
  <2>3. BoardFollows'
    <3>1. ~(Following /\ Wired(attempt, 0))
      BY <2>1 DEF Following
    <3> QED BY <1>1, <2>1, <2>2, <3>1, BoardStays
  <2> QED BY <2>2, <2>3 DEF CursorFollows
<1> QED BY <1>2, <1>3, <1>4, <1>5

\* Following only depends on the phase, the doubt and the link.
LEMMA LostKeepsUp ==
  ASSUME TypeOK, LinksFollow, CursorCounts, CursorFollows, BoardFollows, NEW a \in Attempt, LinkLost(a)
  PROVE  CursorFollows' /\ BoardFollows'
<1>1. /\ LinkTypeOK(Purpose) /\ attempt \in Attempt /\ HistoryGrows /\ links \in [Attempt -> Link]
      /\ UNCHANGED <<history, attempt, board, cursor, doubt, reads>>
  <2>1. UNCHANGED <<history, attempt, board, cursor, doubt, reads>>
    BY DEF LinkLost, screenVars
  <2> QED BY <2>1, LinkTypes, HistoryStays, AttemptNumbers DEF LinkTypeOK
<1>2. links' = [links EXCEPT ![a] = [@ EXCEPT !.state = "closed", !.wire = <<>>]]
  BY DEF LinkLost, Hang
<1>3. phase' = phase \/ phase' = "disconnected"
  BY DEF LinkLost
<1>4. CASE a = attempt
  <2>1. links[attempt] \in Link
    BY <1>1
  <2>2. links'[attempt] = [links[attempt] EXCEPT !.state = "closed", !.wire = <<>>]
    BY <1>1, <1>2, <1>4
  <2>3. links'[attempt].state = "closed"
    BY <2>1, <2>2 DEF Link
  <2>4. ~Following'
    BY <1>1, <2>3 DEF Following
  <2>5. (phase = "connecting" /\ doubt # "former connection" => Version(board) = cursor.version)'
    BY <1>1, <1>3 DEF BoardFollows, Version
  <2> QED BY <2>4, <2>5 DEF CursorFollows, BoardFollows
<1>5. CASE a # attempt
  <2>1. links'[attempt] = links[attempt]
    BY <1>1, <1>2, <1>5
  <2>2. phase' = phase
    BY <1>5 DEF LinkLost, Active, SeatShown
  <2>3. Following' => Following
    BY <1>1, <2>1, <2>2 DEF Following
  <2>4. Wired(attempt, 0) => Wired(attempt, 0)'
    BY <1>1, <2>1 DEF Wired
  <2>5. ASSUME NEW n \in Nat, n <= Len(history), Reached(n) PROVE Reached(n)'
    BY <1>1, <2>1, <2>5 DEF Reached, Told, Brought
  <2>6. CursorFollows'
    BY <1>1, <2>1, <2>3, <2>5, FollowsStay
  <2>7. BoardFollows'
    BY <1>1, <2>2, <2>3, <2>4, BoardStays
  <2> QED BY <2>6, <2>7
<1> QED BY <1>4, <1>5

\* The phases in which the connection's own reads and events are applied.
LEMMA FollowingIsActive ==
  ASSUME Following
  PROVE  Active(attempt)
BY DEF Following, Active, SeatShown

\* The screen keeps up with an answer it shows, or that is older than it.
LEMMA RefreshKeepsUp ==
  ASSUME TypeOK, LinksFollow, CursorCounts, AttemptsCount, CursorFollows, BoardFollows,
         NEW r \in reads, Refresh(r)
  PROVE  CursorFollows' /\ BoardFollows'
<1>1. /\ LinkTypeOK(Purpose) /\ attempt \in Attempt /\ HistoryGrows
      /\ UNCHANGED <<history, links, attempt, doubt>>
      /\ r.at # NotRead /\ r.purpose \in {"resume", "refresh"} /\ reads' = reads \ {r}
      /\ IF Active(r.attempt) /\ IsFresh(r.at) THEN Show(r.at) ELSE UNCHANGED <<board, cursor>>
      /\ phase' = IF Active(r.attempt) /\ r.purpose = "resume" THEN "connected" ELSE phase
  BY LinkTypes, HistoryStays, AttemptNumbers DEF Refresh
<1>2. PICK n \in Nat : n = r.at /\ n <= Len(history)
  BY <1>1, ReadCounts
<1>3. cursor.seq \in Nat /\ (phase # "left" => board # NoState)
  BY Numbers DEF CursorCounts
<1>4. phase = "connecting" => ~Active(r.attempt)
  BY <1>1 DEF AttemptsCount, Active, SeatShown
<1>5. Following' => Following
  BY <1>1, <1>4 DEF Following, Active, SeatShown
<1>6. CASE Active(r.attempt) /\ IsFresh(r.at)
  <2>1. Show(n) /\ n >= cursor.seq /\ phase # "connecting" /\ phase # "left"
    BY <1>1, <1>2, <1>4, <1>6 DEF IsFresh, Active, SeatShown
  <2>2. Version(board)' = (cursor.version)' /\ cursor'.seq = n
    BY <1>1, <1>2, <1>3, <2>1, ShowMatches
  <2>3. BoardFollows'
    BY <2>2 DEF BoardFollows
  <2>4. ASSUME NEW m \in Nat, m <= Len(history), Reached(m) PROVE Reached(m)'
    <3>1. CASE cursor.seq >= m
      BY <1>3, <2>1, <2>2, <3>1 DEF Reached
    <3>2. CASE Told(attempt, m)
      BY <1>1, <3>2 DEF Reached, Told
    <3>3. CASE Brought(m)
      <4>1. PICK q \in reads : /\ q.purpose \in {"resume", "refresh"} /\ q.attempt = attempt
                               /\ q.at = NotRead \/ q.at >= m
        BY <3>3 DEF Brought
      <4>2. CASE q = r
        <5>1. n >= m
          BY <1>1, <1>2, <4>1, <4>2
        <5> QED BY <2>2, <5>1 DEF Reached
      <4>3. CASE q # r
        BY <1>1, <4>1, <4>3 DEF Reached, Brought
      <4> QED BY <4>2, <4>3
    <3> QED BY <2>4, <3>1, <3>2, <3>3 DEF Reached
  <2>5. CursorFollows'
    BY <1>1, <1>5, <2>4, FollowsStay
  <2> QED BY <2>3, <2>5
<1>7. CASE ~(Active(r.attempt) /\ IsFresh(r.at))
  <2>1. UNCHANGED <<board, cursor>>
    BY <1>1, <1>7
  <2>2. BoardFollows'
    <3>1. Wired(attempt, 0) => Wired(attempt, 0)'
      BY <1>1 DEF Wired
    <3>2. phase' = "connecting" => phase = "connecting"
      BY <1>1
    <3> QED BY <1>1, <1>5, <2>1, <3>1, <3>2, BoardStays
  <2>3. CASE Following
    <3>1. r.attempt = attempt => n < cursor.seq
      BY <1>2, <1>3, <1>7, <2>3, FollowingIsActive DEF IsFresh
    <3>2. ASSUME NEW m \in Nat, m <= Len(history), Reached(m) PROVE Reached(m)'
      <4>1. CASE cursor.seq >= m
        BY <2>1, <4>1 DEF Reached
      <4>2. CASE Told(attempt, m)
        BY <1>1, <4>2 DEF Reached, Told
      <4>3. CASE Brought(m)
        <5>1. PICK q \in reads : /\ q.purpose \in {"resume", "refresh"} /\ q.attempt = attempt
                                 /\ q.at = NotRead \/ q.at >= m
          BY <4>3 DEF Brought
        <5>2. CASE q = r
          <6>1. n >= m /\ n < cursor.seq
            BY <1>1, <1>2, <3>1, <5>1, <5>2
          <6>2. cursor'.seq >= m
            BY <1>3, <2>1, <6>1
          <6> QED BY <6>2 DEF Reached
        <5>3. CASE q # r
          BY <1>1, <5>1, <5>3 DEF Reached, Brought
        <5> QED BY <5>2, <5>3
      <4> QED BY <3>2, <4>1, <4>2, <4>3 DEF Reached
    <3>3. CursorFollows'
      BY <1>1, <1>5, <3>2, FollowsStay
    <3> QED BY <2>2, <3>3
  <2>4. CASE ~Following
    BY <1>5, <2>2, <2>4 DEF CursorFollows
  <2> QED BY <2>3, <2>4
<1> QED BY <1>6, <1>7

\* The screen keeps up when a read fails, or a host is left without a seat.
LEMMA FailureKeepsUp ==
  ASSUME TypeOK, LinksFollow, CursorCounts, AttemptsCount, CursorFollows, BoardFollows,
         NEW r \in reads, RefreshFails(r) \/ EnterAsHost(r)
  PROVE  CursorFollows' /\ BoardFollows'
<1>1. /\ LinkTypeOK(Purpose) /\ attempt \in Attempt /\ HistoryGrows
      /\ UNCHANGED <<history, links, attempt>>
      /\ r.purpose \in {"resume", "refresh", "enter"} /\ reads' = reads \ {r}
  BY LinkTypes, HistoryStays, AttemptNumbers DEF RefreshFails, EnterAsHost
<1>2. CASE Active(r.attempt)
  <2>1. phase # "connecting" 
    BY <1>1, <1>2 DEF AttemptsCount, Active, SeatShown
  <2>2. phase' # "connecting" /\ ~Following'
    BY <1>2, <2>1 DEF RefreshFails, EnterAsHost, Following
  <2> QED BY <2>2 DEF CursorFollows, BoardFollows
<1>3. CASE ~Active(r.attempt)
  <2>1. UNCHANGED <<board, cursor, phase, doubt>>
    BY <1>3 DEF RefreshFails, EnterAsHost
  <2>2. Following' = Following
    BY <1>1, <2>1 DEF Following
  <2>3. BoardFollows'
    <3>1. Wired(attempt, 0) => Wired(attempt, 0)'
      BY <1>1 DEF Wired
    <3> QED BY <1>1, <2>1, <2>2, <3>1, BoardStays
  <2>4. CASE Following
    <3>1. r.attempt # attempt
      BY <1>3, <2>4, FollowingIsActive
    <3>2. ASSUME NEW m \in Nat, m <= Len(history), Reached(m) PROVE Reached(m)'
      <4>1. Told(attempt, m) => Told(attempt, m)'
        BY <1>1 DEF Told
      <4>2. Brought(m) => Brought(m)'
        BY <1>1, <3>1 DEF Brought
      <4> QED BY <1>1, <2>1, <3>2, <4>1, <4>2 DEF Reached
    <3>3. CursorFollows'
      BY <1>1, <2>2, <3>2, FollowsStay
    <3> QED BY <2>3, <3>3
  <2>5. CASE ~Following
    BY <2>2, <2>3, <2>5 DEF CursorFollows
  <2> QED BY <2>4, <2>5
<1> QED BY <1>2, <1>3

\* What a message leaves of the links, and of what is on the way.
LEMMA TakenKeeps ==
  ASSUME TypeOK, LinksFollow, NEW a \in Attempt, Receive(a)
  PROVE  /\ LinkTypeOK(Purpose) /\ attempt \in Attempt /\ HistoryGrows
         /\ UNCHANGED <<history, attempt>> /\ Taken(a) /\ links[a].wire # <<>>
         /\ a < attempt \/ phase # "connecting"
         /\ links'[attempt].state = links[attempt].state
         /\ links'[attempt].seen = links[attempt].seen
         /\ a # attempt => links'[attempt] = links[attempt]
<1>1. /\ LinkTypeOK(Purpose) /\ attempt \in Attempt /\ HistoryGrows
      /\ UNCHANGED <<history, untold, attempt>> /\ Taken(a) /\ links[a].wire # <<>>
      /\ a < attempt \/ phase # "connecting"
  <2>1. UNCHANGED <<history, untold, attempt>>
    BY DEF Receive
  <2> QED BY <2>1, LinkTypes, HistoryStays, AttemptNumbers DEF Receive
<1>2. a # attempt => links'[attempt] = links[attempt]
  BY <1>1 DEF Taken, LinkTypeOK
<1>3. a = attempt => /\ links'[attempt].state = links[attempt].state
                     /\ links'[attempt].seen = links[attempt].seen
  BY <1>1, TakenLeaves
<1> QED BY <1>1, <1>2, <1>3

\* The screen keeps up with a snapshot, the last of which is the latest.
LEMMA SnapshotKeepsUp ==
  ASSUME TypeOK, LinksFollow, CursorCounts, LatestIsLast, CursorFollows, BoardFollows,
         NEW a \in Attempt, Receive(a), NEW n \in Nat,
         Head(links[a].wire).type = "snapshot", Head(links[a].wire).seq = n, OnSnapshot(a, n)
  PROVE  CursorFollows' /\ BoardFollows'
<1>1. /\ LinkTypeOK(Purpose) /\ attempt \in Attempt
      /\ UNCHANGED <<history, attempt>> /\ Taken(a) /\ links[a].wire # <<>>
      /\ a < attempt \/ phase # "connecting"
      /\ links'[attempt].state = links[attempt].state
      /\ links'[attempt].seen = links[attempt].seen
  BY TakenKeeps
<1>2. Show(n) /\ UNCHANGED <<reads, phase>> /\ doubt' = Doubt(a, "none")
  BY DEF OnSnapshot
<1>3. n <= Len(history)
  BY <1>1, HeadCounts
<1>4. CASE a = attempt
  <2>1. phase # "connecting"
    BY <1>1, <1>4, AttemptNumbers
  <2>2. CASE phase = "left"
    BY <1>2, <2>2 DEF CursorFollows, BoardFollows, Following
  <2>3. CASE phase # "left"
    <3>1. Version(board)' = (cursor.version)' /\ cursor'.seq = n
      <4>1. board # NoState
        BY <2>3 DEF CursorCounts
      <4> QED BY <1>1, <1>2, <1>3, <4>1, ShowMatches
    <3>2. BoardFollows'
      BY <3>1 DEF BoardFollows
    <3>3. PICK s \in Nat : s = links[attempt].seen
      BY <1>1, LinkParts
    <3>4. CASE n = s
      <4>1. cursor'.seq >= links'[attempt'].seen
        BY <1>1, <3>1, <3>3, <3>4
      <4> QED BY <3>2, <4>1 DEF CursorFollows
    <3>5. CASE n # s
      <4> DEFINE w == links[a].wire
      <4>1. /\ Head(w) = w[1] /\ 1 \in 1..Len(w) /\ w \in Seq(Message) /\ w # <<>>
        BY <1>1, HeadCounts, LinkParts
      <4>2. PICK j \in 1..Len(w) : j > 1 /\ w[j].seq = s
        BY <1>4, <3>3, <3>5, <4>1 DEF LatestIsLast, InOrder
      <4>3. links'[a].wire = Tail(w)
        <5>1. links[a] \in Link /\ links'[a] = [links[a] EXCEPT !.wire = Tail(links[a].wire)]
          BY <1>1, LinkParts DEF Taken, LinkTypeOK
        <5> QED BY <5>1 DEF Link
      <4> HIDE DEF w
      <4>4. j - 1 \in 1..Len(Tail(w)) /\ Tail(w)[j - 1] = w[j]
        BY <4>1, <4>2
      <4>5. PICK i \in 1..Len(Tail(w)) : Tail(w)[i] = w[j]
        BY <4>4
      <4>6. Told(a, s)'
        BY <3>3, <4>2, <4>3, <4>5 DEF Told
      <4>7. Told(attempt, links[attempt].seen)'
        BY <1>1, <1>4, <3>3, <4>6
      <4> QED BY <3>2, <4>7 DEF CursorFollows
    <3> QED BY <3>4, <3>5
  <2> QED BY <2>2, <2>3
<1>5. CASE a # attempt
  <2>1. doubt' = "former connection"
    BY <1>2, <1>5 DEF Doubt
  <2> QED BY <2>1 DEF CursorFollows, BoardFollows, Following
<1> QED BY <1>4, <1>5

\* What is left to arrive when the cursor stays, unless a state is among it.
LEMMA TakenReaches ==
  ASSUME TypeOK, LinksFollow, NEW a \in Attempt, Receive(a), NEW n \in Nat, Reached(n),
         Head(links[a].wire).seq >= n => cursor'.seq >= n \/ Brought(n)',
         cursor.seq >= n => cursor'.seq >= n,
         Brought(n) => Brought(n)'
  PROVE  Reached(n)'
<1>1. /\ LinkTypeOK(Purpose) /\ attempt \in Attempt
      /\ UNCHANGED <<history, untold, attempt>> /\ Taken(a) /\ links[a].wire # <<>>
      /\ a # attempt => links'[attempt] = links[attempt]
  BY TakenKeeps DEF Receive
<1>2. CASE Told(attempt, n)
  <2>1. CASE a = attempt
    <3>1. Told(a, n)' \/ Head(links[a].wire).seq >= n
      BY <1>1, <1>2, <2>1, TakenLeaves
    <3> QED BY <1>1, <2>1, <3>1 DEF Reached
  <2>2. CASE a # attempt
    BY <1>1, <1>2, <2>2 DEF Told, Reached
  <2> QED BY <2>1, <2>2
<1> QED BY <1>2 DEF Reached

\* A state on the way stays on the way unless it is taken.
LEMMA TakenWired ==
  ASSUME TypeOK, LinksFollow, NEW a \in Attempt, Receive(a), Wired(attempt, 0),
         Head(links[a].wire).type # "snapshot" \/ a # attempt
  PROVE  Wired(attempt, 0)'
<1>1. /\ LinkTypeOK(Purpose) /\ attempt \in Attempt
      /\ UNCHANGED <<history, untold, attempt>> /\ Taken(a) /\ links[a].wire # <<>>
      /\ a # attempt => links'[attempt] = links[attempt]
  BY TakenKeeps DEF Receive
<1>2. CASE a = attempt
  <2>1. Wired(a, 0)'
    BY <1>1, <1>2, TakenLeaves
  <2> QED BY <1>1, <1>2, <2>1
<1>3. CASE a # attempt
  BY <1>1, <1>3 DEF Wired
<1> QED BY <1>2, <1>3

\* The screen keeps up with an event: it is the next one, or leads to a read.
LEMMA EventKeepsUp ==
  ASSUME TypeOK, LinksFollow, CursorCounts, CursorFollows, BoardFollows,
         NEW a \in Attempt, Receive(a), NEW n \in Nat,
         Head(links[a].wire).type = "event", Head(links[a].wire).seq = n, OnEvent(a, n)
  PROVE  CursorFollows' /\ BoardFollows'
<1>1. /\ LinkTypeOK(Purpose) /\ attempt \in Attempt /\ HistoryGrows
      /\ UNCHANGED <<history, untold, attempt>> /\ Taken(a) /\ links[a].wire # <<>>
      /\ a < attempt \/ phase # "connecting"
      /\ links'[attempt].state = links[attempt].state
      /\ links'[attempt].seen = links[attempt].seen
      /\ UNCHANGED <<phase, board>>
  BY TakenKeeps DEF Receive, OnEvent
<1>2. cursor.seq \in Nat /\ n \in 1..Len(history) /\ Head(links[a].wire) = Sent("event", n)
  BY <1>1, Numbers, HeadCounts
<1>3. Wired(attempt, 0) => Wired(attempt, 0)'
  BY TakenWired
<1>4. CASE cursor' = cursor /\ doubt' = doubt /\ (reads' = reads \/ Ask("refresh", a))
           /\ (a = attempt => Ask("refresh", a) \/ ~Active(a))
  <2>1. Following' = Following
    BY <1>1, <1>4 DEF Following
  <2>2. BoardFollows'
    BY <1>1, <1>3, <1>4, <2>1, BoardStays
  <2>3. CASE Following
    <3>1. ASSUME NEW m \in Nat, Brought(m) PROVE Brought(m)'
      <4>1. reads \subseteq reads'
        BY <1>4, AskAdds
      <4> QED BY <1>1, <3>1, <4>1 DEF Brought
    <3>2. ASSUME NEW m \in Nat, m <= Len(history), Reached(m) PROVE Reached(m)'
      <4>1. CASE a = attempt
        <5>1. Ask("refresh", a)
          BY <1>4, <2>3, <4>1, FollowingIsActive
        <5>2. PICK q : q.purpose = "refresh" /\ q.attempt = a /\ q.at = NotRead /\ reads' = reads \cup {q}
          BY <5>1, AskAdds
        <5> QED BY <1>1, <4>1, <5>2 DEF Reached, Brought
      <4>2. CASE a # attempt
        <5>1. links'[attempt] = links[attempt]
          BY <4>2, TakenKeeps
        <5> QED BY <1>1, <1>4, <3>1, <3>2, <5>1 DEF Reached, Told
      <4> QED BY <4>1, <4>2
    <3>3. CursorFollows'
      BY <1>1, <2>1, <3>2, FollowsStay
    <3> QED BY <2>2, <3>3
  <2>4. CASE ~Following
    BY <2>1, <2>2, <2>4 DEF CursorFollows
  <2> QED BY <2>3, <2>4
<1>5. CASE Accept(n) /\ cursor' = At(n) /\ doubt' = Doubt(a, doubt) /\ reads' = reads
  <2>1. CASE a # attempt
    <3>1. doubt' = "former connection"
      BY <1>5, <2>1 DEF Doubt
    <3> QED BY <3>1 DEF CursorFollows, BoardFollows, Following
  <2>2. CASE a = attempt
    <3>1. phase # "connecting" /\ doubt' = doubt
      BY <1>1, <1>5, <2>2, AttemptNumbers DEF Doubt
    <3>2. Following' = Following
      BY <1>1, <3>1 DEF Following
    <3>3. n = cursor.seq + 1 /\ cursor'.seq = n /\ cursor'.version = Version(n)
      BY <1>5 DEF Accept, AcceptGameplayEvent, AcceptManagementEvent, At
    <3>4. ASSUME NEW m \in Nat, m <= Len(history), Reached(m) PROVE Reached(m)'
      <4>1. cursor.seq >= m => cursor'.seq >= m
        BY <1>2, <3>3
      <4>2. Head(links[a].wire).seq >= m => cursor'.seq >= m
        BY <3>3
      <4>3. Brought(m) => Brought(m)'
        BY <1>1, <1>5 DEF Brought
      <4> QED BY <3>4, <4>1, <4>2, <4>3, TakenReaches
    <3>5. CursorFollows'
      BY <1>1, <3>2, <3>4, FollowsStay
    <3>6. CASE history[n] = "gameplay"
      <4>1. Wired(a, 0)'
        BY <1>1, <1>2, <3>6, TakenLeaves
      <4> QED BY <1>1, <2>2, <3>1, <3>5, <4>1 DEF BoardFollows
    <3>7. CASE history[n] # "gameplay"
      <4>1. cursor'.version = cursor.version
        BY <1>5, <3>3, <3>7 DEF Accept, AcceptManagementEvent
      <4>2. Version(board)' = Version(board)
        BY <1>1 DEF Version
      <4> QED BY <1>1, <1>3, <3>1, <3>2, <3>5, <4>1, <4>2 DEF BoardFollows
    <3> QED BY <3>6, <3>7
  <2> QED BY <2>1, <2>2
<1>6. \/ UNCHANGED <<reads, cursor, doubt>> /\ ~Active(a)
      \/ Accept(n) /\ cursor' = At(n) /\ doubt' = Doubt(a, doubt) /\ reads' = reads
      \/ Ask("refresh", a) /\ UNCHANGED <<cursor, doubt>>
  BY DEF OnEvent, OnGap
<1> QED BY <1>4, <1>5, <1>6

\* The screen keeps up with a result.
LEMMA ResultKeepsUp ==
  ASSUME TypeOK, LinksFollow, CursorCounts, CursorFollows, BoardFollows,
         NEW a \in Attempt, Receive(a), Head(links[a].wire).type = "result",
         OnResult(a, Head(links[a].wire).outcome)
  PROVE  CursorFollows' /\ BoardFollows'
<1>1. /\ LinkTypeOK(Purpose) /\ attempt \in Attempt /\ HistoryGrows
      /\ UNCHANGED <<history, untold, attempt>> /\ Taken(a) /\ links[a].wire # <<>>
      /\ links'[attempt].state = links[attempt].state
      /\ links'[attempt].seen = links[attempt].seen
      /\ UNCHANGED <<cursor, doubt>>
  BY TakenKeeps DEF Receive, OnResult
<1>2. Head(links[a].wire).seq = 0 /\ cursor.seq \in Nat
  <2>1. Head(links[a].wire) \in Message
    BY <1>1, HeadCounts
  <2>2. Head(links[a].wire).seq = 0
    BY <2>1 DEF Message
  <2> QED BY <2>2, Numbers
<1>3. (phase' = phase /\ board' = board) \/ phase' = "left"
  BY DEF OnResult
<1>4. CASE phase' = "left"
  BY <1>4 DEF CursorFollows, BoardFollows, Following
<1>5. CASE phase' = phase /\ board' = board
  <2>1. Following' = Following
    BY <1>1, <1>5 DEF Following
  <2>2. ASSUME NEW m \in Nat, m <= Len(history), Reached(m) PROVE Reached(m)'
    <3>1. Brought(m) => Brought(m)'
      <4>1. reads \subseteq reads'
        BY ReceiveAsks, AskAdds
      <4> QED BY <1>1, <4>1 DEF Brought
    <3>2. Head(links[a].wire).seq >= m => cursor'.seq >= m
      BY <1>1, <1>2
    <3> QED BY <1>1, <2>2, <3>1, <3>2, TakenReaches
  <2>3. CursorFollows'
    BY <1>1, <2>1, <2>2, FollowsStay
  <2>4. Wired(attempt, 0) => Wired(attempt, 0)'
    BY TakenWired
  <2>5. BoardFollows'
    BY <1>1, <1>5, <2>1, <2>4, BoardStays
  <2> QED BY <2>3, <2>5
<1> QED BY <1>3, <1>4, <1>5

\* The screen keeps up with every message.
LEMMA ReceiveKeepsUp ==
  ASSUME TypeOK, LinksFollow, CursorCounts, LatestIsLast, CursorFollows, BoardFollows,
         NEW a \in Attempt, Receive(a)
  PROVE  CursorFollows' /\ BoardFollows'
<1>1. LinkTypeOK(Purpose) /\ links[a].wire # <<>>
  BY TakenKeeps
<1>2. PICK n \in Nat : n = Head(links[a].wire).seq
  BY <1>1, HeadCounts
<1> QED BY <1>2, SnapshotKeepsUp, EventKeepsUp, ResultKeepsUp DEF Receive

\* A step that leaves the screen alone keeps it up with the links, when it takes
\* nothing from the attempt's link and none of the reads it follows.
LEMMA ScreenKeepsUp ==
  ASSUME TypeOK, LinksFollow, CursorCounts, CursorFollows, BoardFollows, HistoryGrows,
         UNCHANGED <<attempt, phase, board, cursor, doubt>>,
         links'[attempt].state = "open" => links[attempt].state = "open",
         links'[attempt].seen = links[attempt].seen,
         \A m \in Int : Told(attempt, m) => Told(attempt, m)',
         \A m \in Int : Wired(attempt, m) => Wired(attempt, m)',
         \A r \in reads : r.purpose \in {"resume", "refresh"} => r \in reads'
  PROVE  CursorFollows' /\ BoardFollows'
<1>1. Following' => Following
  BY DEF Following
<1>2. ASSUME NEW m \in Nat, m <= Len(history), Reached(m) PROVE Reached(m)'
  <2>1. Brought(m) => Brought(m)'
    BY DEF Brought
  <2>2. Told(attempt, m) => Told(attempt, m)'
    OBVIOUS
  <2> QED BY <1>2, <2>1, <2>2 DEF Reached
<1>3. CursorFollows'
  BY <1>1, <1>2, FollowsStay
<1>4. Wired(attempt, 0) => Wired(attempt, 0)'
  OBVIOUS
<1>5. BoardFollows'
  BY <1>1, <1>4, BoardStays
<1> QED BY <1>3, <1>5

\* The same when the links are left alone too.
LEMMA SameKeepsUp ==
  ASSUME TypeOK, LinksFollow, CursorCounts, CursorFollows, BoardFollows, HistoryGrows,
         UNCHANGED <<attempt, phase, board, cursor, doubt, links>>,
         \A r \in reads : r.purpose \in {"resume", "refresh"} => r \in reads'
  PROVE  CursorFollows' /\ BoardFollows'
<1>1. \A m \in Int : Told(attempt, m) => Told(attempt, m)'
  BY DEF Told
<1>2. \A m \in Int : Wired(attempt, m) => Wired(attempt, m)'
  BY DEF Wired
<1> QED BY <1>1, <1>2, ScreenKeepsUp

\* The same when a result was sent.
LEMMA AnsweredKeepsUp ==
  ASSUME TypeOK, LinksFollow, LatestIsLast, CursorCounts, CursorFollows, BoardFollows,
         UNCHANGED <<history, untold, reads, attempt, phase, screenVars>>,
         NEW a \in Attempt, OneAnswered(a)
  PROVE  CursorFollows' /\ BoardFollows'
<1>1. LinkTypeOK(Purpose) /\ attempt \in Attempt /\ HistoryGrows
      /\ UNCHANGED <<board, cursor, doubt>>
  BY LinkTypes, HistoryStays, AttemptNumbers DEF screenVars
<1>2. /\ links'[attempt].state = "open" => links[attempt].state = "open"
      /\ links'[attempt].seen = links[attempt].seen
      /\ \A m \in Int : Told(attempt, m) => Told(attempt, m)'
      /\ \A m \in Int : Wired(attempt, m) => Wired(attempt, m)'
  <2>1. /\ \A b \in Attempt, n \in Int : Told(b, n) => Told(b, n)'
        /\ \A b \in Attempt, n \in Int : Wired(b, n) => Wired(b, n)'
        /\ \A b \in Attempt : links'[b].seen = links[b].seen
        /\ \A b \in Attempt : links'[b].state = "open" => links[b].state = "open"
    BY <1>1, AnsweredFollows
  <2>2. PICK b \in Attempt : b = attempt
    BY <1>1
  <2>3. ASSUME NEW m \in Int PROVE (Told(b, m) => Told(b, m)') /\ (Wired(b, m) => Wired(b, m)')
    BY <2>1
  <2>4. attempt' = b
    BY <2>2
  <2>5. ASSUME NEW m \in Int
        PROVE  (Told(attempt, m) => Told(attempt, m)') /\ (Wired(attempt, m) => Wired(attempt, m)')
    BY <2>2, <2>3, <2>4
  <2> QED BY <1>1, <2>1, <2>5
<1> QED BY <1>1, <1>2, ScreenKeepsUp

\* The screen keeps up with the host's steps, or is in doubt.
LEMMA HostKeepsUp ==
  ASSUME TypeOK, LinksFollow, CursorCounts, CursorFollows, BoardFollows, NEW o \in Op,
         \/ StartHostCommand(o)
         \/ \E r \in reads : ApplySession(o, r)
         \/ ExecuteHostCommand(o)
         \/ HostAccepted(o)
         \/ HostRefused(o)
         \/ HostFails(o)
  PROVE  CursorFollows' /\ BoardFollows'
<1>1. HistoryGrows /\ o \notin {"resume", "refresh"}
  BY HostAtTypes, HostReads
<1>2. ASSUME NEW r \in reads, ApplySession(o, r)
      PROVE  CursorFollows' /\ BoardFollows'
  <2>1. PICK n \in Nat : n = r.at /\ n <= Len(history)
    BY <1>2, ReadCounts DEF ApplySession
  <2>2. Show(n) /\ history' = history /\ SeatMoves(n) /\ doubt' = "host answer"
    BY <1>2, <2>1 DEF ApplySession, SeatMoves
  <2>3. ~Following'
    BY <2>2 DEF Following
  <2>4. phase' = "connecting" => (Version(board) = cursor.version)'
    <3>1. phase' = "connecting" => phase # "left"
      BY <2>2, SeatTypes
    <3>2. phase' = "connecting" => board # NoState
      BY <3>1 DEF CursorCounts
    <3> QED BY <2>1, <2>2, <3>2, ShowMatches
  <2> QED BY <2>2, <2>3, <2>4 DEF CursorFollows, BoardFollows
<1>3. CASE StartHostCommand(o) \/ HostAccepted(o)
  <2>1. Ask(o, attempt) /\ UNCHANGED <<attempt, phase, board, cursor, doubt, links>>
    BY <1>3 DEF StartHostCommand, HostAccepted, screenVars
  <2>2. \A r \in reads : r \in reads'
    BY <2>1, AskAdds
  <2> QED BY <1>1, <2>1, <2>2, SameKeepsUp
<1>4. CASE ExecuteHostCommand(o) \/ HostRefused(o) \/ HostFails(o)
  <2>1. UNCHANGED <<attempt, phase, board, cursor, doubt, links>>
    BY <1>4 DEF ExecuteHostCommand, HostRefused, HostFails, screenVars, linkVars
  <2>2. \A r \in reads : r.purpose \in {"resume", "refresh"} => r \in reads'
    BY <1>1, <1>4 DEF ExecuteHostCommand, HostRefused, HostFails, linkVars
  <2> QED BY <1>1, <2>1, <2>2, SameKeepsUp
<1> QED BY <1>2, <1>3, <1>4

\* The cursor and the board follow, whatever the step.
LEMMA ScreenKept ==
  ASSUME TypeOK, LinksFollow, LatestIsLast, CursorCounts, AttemptsCount, CursorFollows, BoardFollows,
         [Next]_vars
  PROVE  CursorFollows' /\ BoardFollows'
<1>1. LinkTypeOK(Purpose)
  BY LinkTypes
<1>2. CASE (\E kind \in MoveKinds : SendCommand(kind)) \/ UNCHANGED vars
  <2>1. UNCHANGED <<history, links, reads, attempt, phase, board, cursor, doubt>>
    BY <1>2 DEF SendCommand, vars, linkVars, screenVars
  <2>2. HistoryGrows
    BY <1>1, <2>1, HistoryStays
  <2> QED BY <2>1, <2>2, SameKeepsUp
<1>3. CASE Execute
  <2>1. HistoryGrows /\ UNCHANGED <<reads, attempt, phase, screenVars>>
    BY <1>3, ExecuteTypes DEF Execute
  <2>2. CASE UNCHANGED links
    BY <2>1, <2>2, SameKeepsUp DEF screenVars
  <2>3. ASSUME NEW a \in Attempt, OneAnswered(a), UNCHANGED <<history, untold>>
        PROVE  CursorFollows' /\ BoardFollows'
    BY <2>1, <2>3, AnsweredKeepsUp
  <2> QED BY <1>3, <2>2, <2>3, ExecuteCases
<1>4. ASSUME NEW result \in owed, SendResult(result)
      PROVE  CursorFollows' /\ BoardFollows'
  <2>1. result.attempt \in Attempt /\ OneAnswered(result.attempt)
    BY <1>4, SendTypes
  <2>2. UNCHANGED <<history, untold, reads, attempt, phase, screenVars>>
    BY <1>4 DEF SendResult
  <2> QED BY <2>1, <2>2, AnsweredKeepsUp
<1> QED BY <1>2, <1>3, <1>4, ServerKeepsUp, ConnectingKeepsUp, LostKeepsUp, ReceiveKeepsUp,
           RefreshKeepsUp, FailureKeepsUp, HostKeepsUp DEF Next

-----------------------------------------------------------------------------
(* Who has surrendered.                                                    *)

\* A link brings no connection, and no result of a surrender, that it did not.
Eases(old, new) ==
  /\ new.state = "open" => old.state = "open"
  /\ new.state = "joining" => old.state = "joining"
  /\ Dismissed(new) => Dismissed(old)

AllEase == \A a \in Attempt : Eases(links[a], links'[a])

\* Links that stay bring no more.
LEMMA SameEase ==
  ASSUME UNCHANGED links
  PROVE  AllEase
<1>1. ASSUME NEW a \in Attempt PROVE Eases(links[a], links'[a])
  <2>1. links'[a] = links[a]
    OBVIOUS
  <2> QED BY <2>1 DEF Eases
<1> QED BY <1>1 DEF AllEase

\* A link with one more message at its end, that tells of no surrender, is not taken for one
\* that does.
LEMMA AppendEases ==
  ASSUME LinkTypeOK(Purpose), NEW a \in Attempt, NEW m, m.outcome # "surrendered",
         NEW l, l.wire = Append(links[a].wire, m), Dismissed(l)
  PROVE  Dismissed(links[a])
<1>1. links[a].wire \in Seq(Message)
  BY LinkParts
<1>2. PICK k \in 1..Len(l.wire) : l.wire[k].outcome = "surrendered"
  BY DEF Dismissed
<1>3. k \in 1..Len(links[a].wire) /\ links[a].wire[k] = l.wire[k]
  <2> DEFINE w == links[a].wire
  <2>1. w \in Seq(Message) /\ l.wire = Append(w, m)
    BY <1>1
  <2> HIDE DEF w
  <2>2. /\ Len(l.wire) = Len(w) + 1 /\ Len(w) \in Nat
        /\ l.wire[Len(w) + 1] = m /\ \A i \in 1..Len(w) : l.wire[i] = w[i]
    BY <2>1
  <2>3. k # Len(w) + 1
    BY <1>2, <2>2
  <2>4. k \in 1..Len(w) /\ w[k] = l.wire[k]
    BY <1>2, <2>2, <2>3
  <2> QED BY <2>4 DEF w
<1> QED BY <1>2, <1>3 DEF Dismissed

\* A link that loses its first message, or all, keeps no more.
LEMMA EndsEase ==
  ASSUME LinkTypeOK(Purpose), NEW a \in Attempt, Hang(a) \/ (Taken(a) /\ links[a].wire # <<>>)
  PROVE  /\ AllEase
         /\ Hang(a) => links'[a].state = "closed"
         /\ Taken(a) => links'[a].state = links[a].state
<1>1. links[a] \in Link /\ links[a].wire \in Seq(Message) /\ links \in [Attempt -> Link]
  BY LinkParts DEF LinkTypeOK
<1>2. \A b \in Attempt : b # a => links'[b] = links[b]
  BY <1>1 DEF Hang, Taken
<1>3. ASSUME NEW b \in Attempt, b # a PROVE Eases(links[b], links'[b])
  BY <1>2, <1>3 DEF Eases
<1>4. CASE Hang(a)
  <2>1. links'[a] = [links[a] EXCEPT !.state = "closed", !.wire = <<>>]
    BY <1>1, <1>4 DEF Hang
  <2>2. links'[a].state = "closed" /\ links'[a].wire = <<>>
    BY <1>1, <2>1 DEF Link
  <2>3. Eases(links[a], links'[a])
    BY <2>2 DEF Eases, Dismissed
  <2>4. ~Taken(a) \/ links'[a].state = links[a].state
    <3>1. Taken(a) => links'[a].state = links[a].state
      BY <1>1 DEF Taken, Link
    <3> QED BY <3>1
  <2> QED BY <1>3, <2>2, <2>3, <2>4 DEF AllEase
<1>5. CASE Taken(a) /\ links[a].wire # <<>>
  <2>1. links'[a] = [links[a] EXCEPT !.wire = Tail(links[a].wire)]
    BY <1>1, <1>5 DEF Taken
  <2>2. links'[a].state = links[a].state /\ links'[a].wire = Tail(links[a].wire)
    BY <1>1, <2>1 DEF Link
  <2>3. Dismissed(links'[a]) => Dismissed(links[a])
    <3>1. ASSUME NEW k \in 1..Len(Tail(links[a].wire)), Tail(links[a].wire)[k].outcome = "surrendered"
          PROVE  Dismissed(links[a])
      <4>1. k + 1 \in 1..Len(links[a].wire) /\ links[a].wire[k + 1] = Tail(links[a].wire)[k]
        BY <1>1, <1>5, <3>1
      <4> QED BY <3>1, <4>1 DEF Dismissed
    <3> QED BY <2>2, <3>1 DEF Dismissed
  <2>4. Eases(links[a], links'[a])
    BY <2>2, <2>3 DEF Eases
  <2>5. Hang(a) => links'[a].state = "closed"
    BY <1>1 DEF Hang, Link
  <2> QED BY <1>3, <2>2, <2>4, <2>5 DEF AllEase
<1> QED BY <1>4, <1>5

\* What the room tells of dismisses nobody.
LEMMA TellEases ==
  ASSUME LinkTypeOK(Purpose), LinksFollow, NEW n \in untold, Tell(n)
  PROVE  AllEase
<1>1. ASSUME NEW a \in Attempt PROVE Eases(links[a], links'[a])
  <2>1. CASE links'[a] = links[a]
    BY <2>1 DEF Eases
  <2>2. CASE links'[a] # links[a]
    <3>1. /\ n > links[a].seen
          /\ links'[a] = [links[a] EXCEPT !.seen = n, !.wire = links[a].wire \o Batch(n)]
      BY <2>2 DEF Tell
    <3>2. links'[a].state = links[a].state
      BY <1>1, TellStates
    <3>3. /\ links'[a].wire = links[a].wire \o Batch(n)
          /\ Len(links'[a].wire) = Len(links[a].wire) + Len(Batch(n))
          /\ \A k \in 1..Len(links[a].wire) : links'[a].wire[k] = links[a].wire[k]
          /\ \A k \in 1..Len(Batch(n)) : links'[a].wire[Len(links[a].wire) + k] = Batch(n)[k]
          /\ n \in 1..Len(history)
      BY <1>1, <3>1, ToldFollows
    <3>4. Len(links[a].wire) \in Nat /\ Len(Batch(n)) \in Nat
      BY <1>1, <3>3, LinkParts, BatchFollows
    <3>5. \A k \in 1..Len(Batch(n)) : Batch(n)[k].outcome = "-"
      BY DEF Batch, Sent
    <3>6. ASSUME Dismissed(links'[a]) PROVE Dismissed(links[a])
      <4>1. PICK k \in 1..Len(links'[a].wire) : links'[a].wire[k].outcome = "surrendered"
        BY <3>6 DEF Dismissed
      <4>2. k \in 1..Len(links[a].wire)
        <5>1. SUFFICES ASSUME k > Len(links[a].wire) PROVE FALSE
          BY <3>3, <3>4, <4>1
        <5>2. k - Len(links[a].wire) \in 1..Len(Batch(n))
              /\ Len(links[a].wire) + (k - Len(links[a].wire)) = k
          BY <3>3, <3>4, <4>1, <5>1
        <5>3. links'[a].wire[k] = Batch(n)[k - Len(links[a].wire)]
          BY <3>3, <5>2
        <5>4. links'[a].wire[k].outcome = "-"
          BY <3>5, <5>2, <5>3
        <5> QED BY <4>1, <5>4
      <4> QED BY <3>3, <4>1, <4>2 DEF Dismissed
    <3> QED BY <3>2, <3>6 DEF Eases
  <2> QED BY <2>1, <2>2
<1> QED BY <1>1 DEF AllEase

\* A link that is ended or dialled, or stays, is not opened, and brings no more.
LEMMA MovesEase ==
  ASSUME NEW old \in Link, NEW new, LinkMoves(old, new)
  PROVE  (new.state = "open" => old.state = "open") /\ (Dismissed(new) => Dismissed(old))
<1>1. CASE new = old
  BY <1>1
<1>2. ASSUME NEW state \in {"joining", "closing", "closed"}, new = [old EXCEPT !.state = state]
      PROVE  new.state # "open" /\ new.wire = old.wire
  BY <1>2 DEF Link
<1>3. CASE new = [old EXCEPT !.state = "closed", !.wire = <<>>]
  <2>1. new.state = "closed" /\ new.wire = <<>>
    BY <1>3 DEF Link
  <2> QED BY <2>1 DEF Dismissed
<1> QED BY <1>1, <1>2, <1>3 DEF LinkMoves, Dismissed

\* Connecting again opens no link, and dials the attempt's alone.
LEMMA ReconnectEases ==
  ASSUME TypeOK, Reconnect
  PROVE  /\ \A a \in Attempt : Dismissed(links'[a]) => Dismissed(links[a])
         /\ \A a \in Attempt : links'[a].state = "open" =>
              links[a].state = "open" /\ a # attempt /\ a # attempt + 1
         /\ \A a \in Attempt : links'[a].state = "joining" =>
              links[a].state = "joining" \/ a = attempt + 1
<1>1. attempt \in Attempt /\ links \in [Attempt -> Link]
  BY LinkTypes DEF TypeOK, LinkTypeOK
<1>2. attempt + 1 \in Attempt /\ attempt + 1 # attempt
  BY <1>1, LinkAssumption DEF Reconnect, Attempt
<1> DEFINE state == IF links[attempt].state = "open" THEN "closing" ELSE links[attempt].state
           l == [links[attempt] EXCEPT !.state = state]
           m == [links[attempt + 1] EXCEPT !.state = "joining"]
<1>3. links' = [links EXCEPT ![attempt + 1] = m, ![attempt] = l]
  BY <1>1, <1>2 DEF Reconnect
<1>4. m.state = "joining" /\ m.wire = links[attempt + 1].wire
  BY <1>1, <1>2 DEF Link
<1>5. l.state # "open" /\ l.wire = links[attempt].wire
      /\ (l.state = "joining" => links[attempt].state = "joining")
  BY <1>1 DEF Link
<1> HIDE DEF l, m
<1>6. /\ links'[attempt] = l /\ links'[attempt + 1] = m
      /\ \A b \in Attempt : b # attempt /\ b # attempt + 1 => links'[b] = links[b]
  BY <1>1, <1>2, <1>3
<1>7. ASSUME NEW a \in Attempt
      PROVE  links'[a].wire = links[a].wire \/ links'[a] = links[a]
  BY <1>4, <1>5, <1>6
<1> QED BY <1>4, <1>5, <1>6, <1>7 DEF Dismissed

\* The server's end of a command opens no link and dismisses nobody; who surrenders has an
\* open link.
LEMMA ExecuteEases ==
  ASSUME TypeOK, Execute
  PROVE  /\ AllEase /\ command # NoCommand /\ command.attempt \in Attempt
         /\ \/ UNCHANGED <<owed, surrendered>>
            \/ /\ surrendered = 0 /\ links[command.attempt].state = "open"
               /\ surrendered' \in {0, Len(history) + 1} /\ Len(history') = Len(history) + 1
               /\ \A result \in owed' : result \in owed \/ result.kind = command.kind
               /\ command.kind = "surrender" => surrendered' = Len(history) + 1
<1>1. command # NoCommand /\ command.attempt \in Attempt /\ LinkTypeOK(Purpose)
      /\ links \in [Attempt -> Link]
  BY LinkTypes DEF Execute, TypeOK, NoCommand, LinkTypeOK
<1>2. ASSUME UNCHANGED links PROVE AllEase
  BY <1>2, SameEase
<1>3. ASSUME NEW outcome \in {"stale", "refused"}, Answer(command.attempt, outcome)
      PROVE  AllEase
  <2>1. PICK a \in Attempt : a = command.attempt
    BY <1>1
  <2> DEFINE l == [links[a] EXCEPT !.wire = Append(links[a].wire, Result(outcome))]
  <2>2. links' = [links EXCEPT ![a] = l]
    BY <1>1, <1>3, <2>1 DEF Answer
  <2>3. l.state = links[a].state /\ l.wire = Append(links[a].wire, Result(outcome))
    BY <1>1 DEF Link
  <2> HIDE DEF l
  <2>4. Dismissed(l) => Dismissed(links[a])
    <3> DEFINE m == Result(outcome)
    <3>1. m.outcome # "surrendered" /\ l.wire = Append(links[a].wire, m)
      BY <2>3, OtherResults
    <3> HIDE DEF m
    <3> QED BY <1>1, <3>1, AppendEases
  <2>5. links'[a] = l /\ \A b \in Attempt : b # a => links'[b] = links[b]
    BY <1>1, <2>2
  <2> QED BY <2>3, <2>4, <2>5 DEF AllEase, Eases
<1>4. AllEase
  BY <1>2, <1>3 DEF Execute
<1>5. \/ UNCHANGED <<owed, surrendered>>
      \/ /\ surrendered = 0 /\ links[command.attempt].state = "open" /\ Committed("gameplay")
         /\ owed' = owed \cup {[kind |-> command.kind, seq |-> Len(history) + 1,
                                attempt |-> command.attempt]}
         /\ surrendered' = IF command.kind = "surrender" THEN Len(history) + 1 ELSE 0
  BY DEF Execute
<1>6. CASE UNCHANGED <<owed, surrendered>>
  BY <1>1, <1>4, <1>6
<1>7. CASE /\ surrendered = 0 /\ links[command.attempt].state = "open" /\ Committed("gameplay")
           /\ owed' = owed \cup {[kind |-> command.kind, seq |-> Len(history) + 1,
                                  attempt |-> command.attempt]}
           /\ surrendered' = IF command.kind = "surrender" THEN Len(history) + 1 ELSE 0
  <2>1. Len(history') = Len(history) + 1
    BY <1>1, <1>7, CommittedGrows
  <2> QED BY <1>1, <1>4, <1>7, <2>1
<1> QED BY <1>5, <1>6, <1>7

\* A result opens no link; the one that dismisses closes it.
LEMMA SendEases ==
  ASSUME TypeOK, CursorCounts, NEW result \in owed, SendResult(result)
  PROVE  \A a \in Attempt :
           /\ links'[a].state = "open" => links[a].state = "open"
           /\ links'[a].state = "joining" => links[a].state = "joining"
           /\ Dismissed(links'[a]) =>
                \/ Dismissed(links[a])
                \/ result.kind = "surrender" /\ links'[a].state # "open"
<1>1. result.attempt \in Attempt /\ LinkTypeOK(Purpose) /\ links \in [Attempt -> Link]
  BY SendTypes, LinkTypes DEF LinkTypeOK
<1>2. PICK a \in Attempt : a = result.attempt
  BY <1>1
<1> DEFINE open == links[a].state = "open"
           outcome == IF result.kind = "surrender" THEN "surrendered" ELSE "ok"
           m == Result(outcome)
           wire == IF open THEN Append(links[a].wire, m) ELSE links[a].wire
           state == IF open /\ outcome = "surrendered" THEN "closing" ELSE links[a].state
           l == [links[a] EXCEPT !.wire = wire, !.state = state]
<1>3. links' = [links EXCEPT ![a] = l]
  BY <1>2 DEF SendResult
<1>4. links'[a] = l /\ \A b \in Attempt : b # a => links'[b] = links[b]
  <2> HIDE DEF l
  <2> QED BY <1>1, <1>3
<1>5. l.state = state /\ l.wire = wire
  <2> HIDE DEF wire, state
  <2> QED BY <1>1 DEF Link
<1>6. (state = "open" => links[a].state = "open") /\ (state = "joining" => links[a].state = "joining")
  OBVIOUS
<1>7. Dismissed(l) => Dismissed(links[a]) \/ (result.kind = "surrender" /\ state # "open")
  <2>1. CASE ~open
    <3>1. l.wire = links[a].wire
      BY <1>5, <2>1
    <3> QED BY <3>1 DEF Dismissed
  <2>2. CASE open /\ result.kind = "surrender"
    BY <2>2
  <2>3. CASE open /\ result.kind # "surrender"
    <3>1. m.outcome # "surrendered" /\ l.wire = Append(links[a].wire, m)
      BY <1>5, <2>3, OtherResults
    <3> HIDE DEF m, l
    <3> QED BY <1>1, <3>1, AppendEases
  <2> QED BY <2>1, <2>2, <2>3
<1> HIDE DEF l, state
<1> QED BY <1>4, <1>5, <1>6, <1>7

\* A step that neither takes the seat nor takes the player for one without it.
LEMMA OnceStays ==
  ASSUME TypeOK, OnceSurrendered, HistoryGrows, surrendered' = surrendered,
         phase' = "seatless" => phase = "seatless" \/ surrendered # 0,
         \A r \in reads' : r.purpose = "enter" =>
           surrendered # 0 \/ \E q \in reads : q.purpose = "enter",
         \A a \in Attempt : Dismissed(links'[a]) => Dismissed(links[a]) \/ surrendered # 0,
         \A result \in owed' : result \in owed
  PROVE  OnceSurrendered'
<1>1. surrendered \in Nat /\ surrendered <= Len(history) /\ Len(history) \in Nat
  <2>1. surrendered \in 0..MaxSequence
    BY DEF TypeOK, Sequence
  <2>2. surrendered \in Nat
    BY <2>1, LinkAssumption
  <2> QED BY <2>2, LinkTypes DEF OnceSurrendered
<1>2. surrendered' <= Len(history')
  BY <1>1 DEF HistoryGrows
<1>3. \A a \in Attempt : Dismissed(links'[a]) => surrendered' # 0
  BY DEF OnceSurrendered
<1>4. \A r \in reads' : r.purpose = "enter" => surrendered' # 0
  BY DEF OnceSurrendered
<1>5. (phase' = "seatless" => surrendered' # 0) 
      /\ \A result \in owed' : result.kind = "surrender" => surrendered' # 0
  BY DEF OnceSurrendered
<1>6. (\A a \in Attempt : Dismissed(links[a]) => surrendered # 0)'
  BY <1>3 DEF Dismissed
<1> QED BY <1>2, <1>4, <1>5, <1>6 DEF OnceSurrendered

\* The reads the player asks for to stay in the game come of the result of a surrender.
LEMMA EntersAsked ==
  ASSUME NEW a \in Attempt, Receive(a)
  PROVE  \/ reads' = reads
         \/ Ask("refresh", a)
         \/ Ask("enter", a) /\ links[a].wire # <<>> /\ Head(links[a].wire).outcome = "surrendered"
BY DEF Receive, OnSnapshot, OnEvent, OnResult, OnGap

\* The first message of a link is one of them.
LEMMA HeadDismisses ==
  ASSUME LinkTypeOK(Purpose), NEW a \in Attempt, links[a].wire # <<>>,
         Head(links[a].wire).outcome = "surrendered"
  PROVE  Dismissed(links[a])
<1>1. links[a].wire \in Seq(Message)
  BY LinkParts
<1>2. Head(links[a].wire) = links[a].wire[1] /\ 1 \in 1..Len(links[a].wire)
  BY <1>1
<1> QED BY <1>2 DEF Dismissed

\* Only who has surrendered is taken for it, whatever the step.
LEMMA OnceSurrenderedKept ==
  ASSUME TypeOK, LinksFollow, LatestIsLast, CursorCounts, OnceSurrendered, [Next]_vars
  PROVE  OnceSurrendered'
<1>1. LinkTypeOK(Purpose) /\ attempt \in Attempt
      /\ (AllEase => \A a \in Attempt : Dismissed(links'[a]) => Dismissed(links[a]))
  BY LinkTypes DEF TypeOK, AllEase, Eases
<1>2. CASE Server
  <2>1. UNCHANGED <<phase, owed, surrendered>> /\ HistoryGrows
    BY <1>2, ServerTypes DEF Server, commandVars
  <2>2. \A r \in reads' : r.purpose = "enter" => \E q \in reads : q.purpose = "enter"
    BY <1>2, ServerReads
  <2>3. \A a \in Attempt : Dismissed(links'[a]) => Dismissed(links[a])
    <3>1. CASE Commit \/ \E r \in reads : AnswerRead(r)
      <4>1. UNCHANGED links
        BY <3>1 DEF Commit, AnswerRead
      <4> QED BY <1>1, <4>1, SameEase
    <3>2. CASE \E n \in untold : Tell(n)
      BY <1>1, <3>2, TellEases
    <3>3. ASSUME NEW b \in Attempt, Join(b), NEW a \in Attempt, Dismissed(links'[a])
          PROVE  Dismissed(links[a])
      <4>1. CASE a = b
        <5>1. links'[a].wire = <<Sent("snapshot", Len(history))>>
          BY <3>3, <4>1 DEF Join
        <5>2. Sent("snapshot", Len(history)).outcome = "-"
          BY DEF Sent
        <5> QED BY <3>3, <5>1, <5>2 DEF Dismissed
      <4>2. CASE a # b
        <5>1. links[a] \in Link
          BY <1>1, LinkParts
        <5>2. links'[a].wire = links[a].wire
          BY <3>3, <4>2, <5>1 DEF Join, Link
        <5> QED BY <3>3, <5>2 DEF Dismissed
      <4> QED BY <4>1, <4>2
    <3> QED BY <1>2, <3>1, <3>2, <3>3 DEF Server
  <2> QED BY <2>1, <2>2, <2>3, OnceStays
<1>3. ASSUME UNCHANGED <<history, owed, surrendered>>,
             phase' = "seatless" => phase = "seatless" \/ surrendered # 0,
             \A a \in Attempt : Dismissed(links'[a]) => Dismissed(links[a]),
             reads' \subseteq reads \/ \E purpose \in Purpose, a \in Attempt :
                Ask(purpose, a) /\ (purpose = "enter" => surrendered # 0)
      PROVE  OnceSurrendered'
  <2>1. \A r \in reads' : r.purpose = "enter" =>
           surrendered # 0 \/ \E q \in reads : q.purpose = "enter"
    <3>1. CASE reads' \subseteq reads
      BY <3>1
    <3>2. ASSUME NEW purpose \in Purpose, NEW a \in Attempt, Ask(purpose, a),
                 purpose = "enter" => surrendered # 0, NEW r \in reads', r.purpose = "enter"
          PROVE  surrendered # 0 \/ \E q \in reads : q.purpose = "enter"
      <4>1. PICK q : q.purpose = purpose /\ reads' = reads \cup {q}
        BY <3>2, AskAdds
      <4> QED BY <3>2, <4>1
    <3> QED BY <1>3, <3>1, <3>2
  <2> QED BY <1>1, <1>3, <2>1, HistoryStays, OnceStays
<1>4. CASE Reconnect \/ JoinFails \/ Register \/ Unheard
  <2>1. UNCHANGED <<history, owed, surrendered>> /\ phase' \in {phase, "connecting", "disconnected", "resuming"}
    BY <1>4 DEF Reconnect, JoinFails, Register, Unheard, commandVars
  <2>2. \A a \in Attempt : Dismissed(links'[a]) => Dismissed(links[a])
    <3>1. CASE Reconnect
      BY <3>1, ReconnectEases
    <3>2. CASE JoinFails \/ Unheard
      BY <1>1, <3>2, EndsEase DEF JoinFails, Unheard
    <3>3. CASE Register
      BY <1>1, <3>3, SameEase DEF Register
    <3> QED BY <1>4, <3>1, <3>2, <3>3
  <2>3. reads' = reads \/ Ask("resume", attempt)
    BY <1>4 DEF Reconnect, JoinFails, Register, Unheard
  <2> QED BY <1>1, <1>3, <2>1, <2>2, <2>3 DEF Purpose
<1>5. ASSUME NEW a \in Attempt, LinkLost(a) \/ Receive(a)
      PROVE  OnceSurrendered'
  <2>1. UNCHANGED <<history, owed, surrendered>> /\ (phase' = "seatless" => phase = "seatless")
    BY <1>5 DEF LinkLost, Receive, OnSnapshot, OnEvent, OnResult, commandVars
  <2>2. \A b \in Attempt : Dismissed(links'[b]) => Dismissed(links[b])
    BY <1>1, <1>5, EndsEase DEF LinkLost, Receive
  <2>3. reads' = reads \/ Ask("refresh", a) \/ (Ask("enter", a) /\ surrendered # 0)
    <3>1. CASE LinkLost(a)
      BY <3>1 DEF LinkLost
    <3>2. CASE Receive(a)
      BY <1>1, <3>2, EntersAsked, HeadDismisses DEF OnceSurrendered
    <3> QED BY <1>5, <3>1, <3>2
  <2> QED BY <1>3, <2>1, <2>2, <2>3 DEF Purpose
<1>6. ASSUME NEW r \in reads, Refresh(r) \/ RefreshFails(r) \/ EnterAsHost(r)
      PROVE  OnceSurrendered'
  <2>1. UNCHANGED <<history, owed, surrendered, links>> /\ reads' \subseteq reads
    BY <1>6 DEF Refresh, RefreshFails, EnterAsHost, commandVars
  <2>2. phase' = "seatless" => phase = "seatless" \/ surrendered # 0
    BY <1>6 DEF Refresh, RefreshFails, EnterAsHost, OnceSurrendered
  <2> QED BY <1>1, <1>3, <2>1, <2>2, SameEase
<1>7. CASE (\E kind \in MoveKinds : SendCommand(kind)) \/ UNCHANGED vars
  <2>1. UNCHANGED <<history, owed, surrendered, links, reads, phase>>
    BY <1>7 DEF SendCommand, vars, linkVars, commandVars
  <2> QED BY <1>1, <1>3, <2>1, SameEase
<1>8. CASE Execute
  <2>1. AllEase /\ HistoryGrows /\ UNCHANGED <<phase, reads>>
    BY <1>8, ExecuteEases, ExecuteTypes DEF Execute
  <2>2. CASE UNCHANGED <<owed, surrendered>>
    BY <1>1, <2>1, <2>2, OnceStays
  <2>3. CASE /\ surrendered = 0 /\ links[command.attempt].state = "open"
             /\ surrendered' \in {0, Len(history) + 1} /\ Len(history') = Len(history) + 1
             /\ \A result \in owed' : result \in owed \/ result.kind = command.kind
             /\ command.kind = "surrender" => surrendered' = Len(history) + 1
    <3>1. Len(history) \in Nat
      BY LinkTypes
    <3>2. surrendered' <= Len(history') /\ (command.kind = "surrender" => surrendered' # 0)
      BY <2>3, <3>1
    <3>3. \A a \in Attempt : ~Dismissed(links'[a])
      BY <1>1, <2>1, <2>3 DEF OnceSurrendered
    <3>4. (\A a \in Attempt : Dismissed(links[a]) => surrendered # 0)'
      BY <3>3 DEF Dismissed
    <3>5. /\ phase' # "seatless" /\ \A r \in reads' : r.purpose # "enter"
          /\ \A result \in owed' : result.kind = "surrender" => surrendered' # 0
      BY <2>1, <2>3, <3>2 DEF OnceSurrendered
    <3> QED BY <3>2, <3>4, <3>5 DEF OnceSurrendered
  <2> QED BY <1>8, <2>2, <2>3, ExecuteEases
<1>9. ASSUME NEW result \in owed, SendResult(result)
      PROVE  OnceSurrendered'
  <2>1. UNCHANGED <<history, phase, reads, surrendered>> /\ owed' \subseteq owed
    BY <1>9 DEF SendResult
  <2>2. \A a \in Attempt : Dismissed(links'[a]) => Dismissed(links[a]) \/ surrendered # 0
    BY <1>9, SendEases DEF OnceSurrendered
  <2> QED BY <1>1, <2>1, <2>2, HistoryStays, OnceStays
<1>10. ASSUME NEW o \in Op,
              \/ StartHostCommand(o)
              \/ ExecuteHostCommand(o)
              \/ HostAccepted(o)
              \/ HostRefused(o)
              \/ HostFails(o)
       PROVE  OnceSurrendered'
  <2>1. UNCHANGED <<phase, owed, surrendered, links>> /\ HistoryGrows
    BY <1>10, HostAtTypes DEF StartHostCommand, ExecuteHostCommand, HostAccepted, HostRefused,
                              HostFails, linkVars, commandVars
  <2>2. reads' \subseteq reads \/ Ask(o, attempt)
    BY <1>10 DEF StartHostCommand, ExecuteHostCommand, HostAccepted, HostRefused, HostFails, linkVars
  <2>3. \A r \in reads' : r.purpose = "enter" => \E q \in reads : q.purpose = "enter"
    <3>1. CASE Ask(o, attempt)
      <4>1. PICK q : q.purpose = o /\ reads' = reads \cup {q}
        BY <3>1, AskAdds
      <4> QED BY <4>1, HostReads
    <3> QED BY <2>2, <3>1
  <2> QED BY <1>1, <2>1, <2>3, SameEase, OnceStays
<1>11. ASSUME NEW o \in Op, NEW r \in reads, ApplySession(o, r)
       PROVE  OnceSurrendered'
  <2>1. UNCHANGED <<history, owed, surrendered>> /\ reads' \subseteq reads /\ SeatMoves(r.at)
    BY <1>11 DEF ApplySession, SeatMoves, commandVars
  <2>2. \A a \in Attempt : Dismissed(links'[a]) => Dismissed(links[a])
    BY <1>1, <2>1, SeatTypes, LinkParts, MovesEase
  <2>3. phase' = "seatless" => phase = "seatless" \/ surrendered # 0
    BY <2>1 DEF SeatMoves, SeatStays, SeatGone, SeatBack, Seated
  <2> QED BY <1>3, <2>1, <2>2, <2>3
<1> QED BY <1>2, <1>4, <1>5, <1>6, <1>7, <1>8, <1>9, <1>10, <1>11 DEF Next

-----------------------------------------------------------------------------
(* The connections of who has surrendered.                                 *)

\* The attempt's connection alone is open, and no other is made.
LastOpen ==
  \A a \in Attempt :
    /\ links[a].state = "open" => a = attempt /\ ~Dismissed(links[a])
    /\ links[a].state = "joining" => a = attempt /\ phase \in {"connecting", "left"}

\* A step that opens no connection, and dismisses nobody whose connection stays open.
LEMMA OpenStays ==
  ASSUME TypeOK, OpenLinks, attempt' = attempt,
         \A a \in Attempt :
           /\ links'[a].state = "open" => links[a].state = "open"
           /\ links'[a].state = "open" /\ Dismissed(links'[a]) => Dismissed(links[a])
           /\ links'[a].state = "joining" => links[a].state = "joining",
         phase' = "connecting" => phase = "connecting",
         \/ phase \in {"connecting", "left"} => phase' \in {"connecting", "left"}
         \/ links'[attempt].state # "joining",
         \A r \in reads' : r.purpose = "enter" =>
           \/ links'[r.attempt].state # "open"
           \/ r.attempt \in Attempt /\ \E q \in reads : q.purpose = "enter" /\ q.attempt = r.attempt,
         phase' = "seatless" => phase = "seatless" \/ links'[attempt].state # "open",
         surrendered' # 0 => surrendered # 0 \/ phase' # "connecting",
         command' # NoCommand =>
           command' = command \/ (command'.attempt = attempt /\ phase' # "connecting")
  PROVE  OpenLinks'
<1>1. attempt \in Attempt /\ attempt <= attempt
  BY AttemptNumbers
<1>2. ASSUME NEW a \in Attempt
      PROVE  /\ links'[a].state = "open" => a = attempt' /\ ~Dismissed(links'[a])
             /\ links'[a].state = "joining" => a = attempt' /\ phase' \in {"connecting", "left"}
  BY <1>1, <1>2 DEF OpenLinks
<1>3. LastOpen'
  BY <1>2 DEF LastOpen, Dismissed
<1>4. \A r \in reads' : r.purpose = "enter" => links'[r.attempt].state # "open"
  BY DEF OpenLinks
<1>5. phase' = "seatless" => links'[attempt'].state # "open"
  BY <1>1 DEF OpenLinks
<1>6. surrendered' # 0 /\ phase' = "connecting" => links'[attempt'].state # "open"
  BY <1>1 DEF OpenLinks
<1>7. command' # NoCommand =>
        command'.attempt <= attempt' /\ (phase' = "connecting" => command'.attempt # attempt')
  BY <1>1 DEF OpenLinks
<1>8. OpenLinks' = (LastOpen /\ (\A r \in reads : r.purpose = "enter" => links[r.attempt].state # "open")
        /\ (phase = "seatless" => links[attempt].state # "open")
        /\ (surrendered # 0 /\ phase = "connecting" => links[attempt].state # "open")
        /\ (command # NoCommand =>
              command.attempt <= attempt /\ (phase = "connecting" => command.attempt # attempt)))'
  BY DEF OpenLinks, LastOpen
<1>9. (command # NoCommand =>
         command.attempt <= attempt /\ (phase = "connecting" => command.attempt # attempt))'
  BY <1>7 DEF NoCommand
<1> QED BY <1>3, <1>4, <1>5, <1>6, <1>8, <1>9

\* The same when all links ease, and the screen does not move.
LEMMA OpenEases ==
  ASSUME TypeOK, OpenLinks, AllEase, UNCHANGED <<attempt, phase>>,
         \A r \in reads' : r.purpose = "enter" =>
           r.attempt \in Attempt /\ \E q \in reads : q.purpose = "enter" /\ q.attempt = r.attempt,
         surrendered' # 0 => surrendered # 0 \/ phase' # "connecting",
         command' # NoCommand =>
           command' = command \/ (command'.attempt = attempt /\ phase' # "connecting")
  PROVE  OpenLinks'
<1>1. \A a \in Attempt :
        /\ links'[a].state = "open" => links[a].state = "open"
        /\ links'[a].state = "open" /\ Dismissed(links'[a]) => Dismissed(links[a])
        /\ links'[a].state = "joining" => links[a].state = "joining"
  BY DEF AllEase, Eases
<1> QED BY <1>1, OpenStays

\* A connection is made for who holds the seat.
LEMMA JoinOpens ==
  ASSUME TypeOK, LinksFollow, OnceSurrendered, OpenLinks, surrendered = 0, NEW a \in Attempt, Join(a),
         UNCHANGED <<attempt, phase, command, surrendered>>
  PROVE  OpenLinks'
<1>1. LinkTypeOK(Purpose) /\ links \in [Attempt -> Link] /\ reads' = reads
  BY LinkTypes DEF LinkTypeOK, Join
<1>2. a = attempt /\ phase \in {"connecting", "left"}
  BY DEF OpenLinks, Join
<1>3. links'[a].state = "open" /\ links'[a].wire = <<Sent("snapshot", Len(history))>>
  BY DEF Join
<1>4. ~Dismissed(links'[a])
  <2>1. Sent("snapshot", Len(history)).outcome = "-"
    BY DEF Sent
  <2> QED BY <1>3, <2>1 DEF Dismissed
<1>5. ASSUME NEW b \in Attempt, b # a
      PROVE  links'[b].state # "open" /\ (links'[b].state = "joining" => links[b].state = "joining")
  <2>1. links[b] \in Link
    BY <1>1, LinkParts
  <2> QED BY <1>5, <2>1 DEF Join, Link
<1>6. ASSUME NEW b \in Attempt
      PROVE  /\ links'[b].state = "open" => b = attempt' /\ ~Dismissed(links'[b])
             /\ links'[b].state = "joining" => b = attempt' /\ phase' \in {"connecting", "left"}
  BY <1>2, <1>3, <1>4, <1>5 DEF OpenLinks
<1>7. LastOpen'
  BY <1>6 DEF LastOpen, Dismissed
<1>8. (\A r \in reads' : r.purpose # "enter") /\ phase' # "seatless"
  BY <1>1 DEF OnceSurrendered
<1>9. (command # NoCommand =>
         command.attempt <= attempt /\ (phase = "connecting" => command.attempt # attempt))'
  BY DEF OpenLinks, NoCommand
<1> QED BY <1>7, <1>8, <1>9 DEF OpenLinks, LastOpen

\* A new attempt dials its own connection, when no other is open.
LEMMA DialOpens ==
  ASSUME TypeOK, OpenLinks, AttemptsCount, UNCHANGED <<command, surrendered>>, reads' \subseteq reads,
         attempt' = attempt + 1, attempt' \in Attempt, phase' = "connecting",
         phase \notin {"connecting", "left"},
         \A a \in Attempt :
           /\ links'[a].state # "open"
           /\ links'[a].state = "joining" => links[a].state = "joining" \/ a = attempt + 1
  PROVE  OpenLinks'
<1>1. attempt \in Int /\ attempt + 1 # attempt /\ \A a \in Attempt : a \in Int
  BY AttemptNumbers
<1>2. ASSUME NEW a \in Attempt
      PROVE  /\ links'[a].state # "open"
             /\ links'[a].state = "joining" => a = attempt' /\ phase' \in {"connecting", "left"}
  BY <1>2 DEF OpenLinks
<1>3. LastOpen'
  BY <1>2 DEF LastOpen
<1>4. \A r \in reads' : links'[r.attempt].state # "open"
  <2>1. \A r \in reads : r.attempt \in Attempt
    BY LinkTypes DEF LinkTypeOK, Read
  <2> QED BY <1>2, <2>1
<1>5. links'[attempt'].state # "open"
  BY <1>2
<1>6. (command # NoCommand =>
         command.attempt <= attempt /\ (phase = "connecting" => command.attempt # attempt))'
  <2>1. command' # NoCommand => command.attempt \in Int /\ command.attempt <= attempt
    BY <1>1 DEF OpenLinks, TypeOK
  <2>2. command' # NoCommand => command'.attempt <= attempt' /\ command'.attempt # attempt'
    BY <1>1, <2>1
  <2> QED BY <2>2 DEF NoCommand
<1> QED BY <1>3, <1>4, <1>5, <1>6 DEF OpenLinks, LastOpen

\* Where an answer's seat is not the one shown, no connection stays open.
LEMMA SeatOpens ==
  ASSUME TypeOK, OpenLinks, AttemptsCount, NEW n, SeatMoves(n), reads' \subseteq reads,
         UNCHANGED <<command, surrendered>>
  PROVE  OpenLinks'
<1>1. /\ LinkTypeOK(Purpose) /\ attempt \in Attempt /\ links \in [Attempt -> Link]
      /\ attempt' \in Attempt
      /\ \A a \in Attempt :
           /\ links'[a].state = "open" => links[a].state = "open"
           /\ Dismissed(links'[a]) => Dismissed(links[a])
  BY LinkTypes, SeatTypes, LinkParts, MovesEase DEF TypeOK, LinkTypeOK
<1>2. \A r \in reads' : r.purpose = "enter" =>
        r.attempt \in Attempt /\ \E q \in reads : q.purpose = "enter" /\ q.attempt = r.attempt
  <2>1. \A r \in reads : r.attempt \in Attempt
    BY <1>1 DEF LinkTypeOK, Read
  <2> QED BY <2>1
<1>3. CASE SeatStays(n)
  <2>1. AllEase /\ UNCHANGED <<attempt, phase>>
    BY <1>3, SameEase DEF SeatStays
  <2> QED BY <1>2, <2>1, OpenEases
<1>4. CASE SeatGone(n)
  <2>1. attempt' = attempt /\ phase' = "seatless"
    BY <1>4 DEF SeatGone
  <2>2. links'[attempt].state # "open" /\ links'[attempt].state # "joining"
        /\ \A b \in Attempt : b # attempt => links'[b] = links[b]
    <3>1. CASE phase = "connecting"
      BY <1>1, <1>4, <3>1, EndsEase DEF SeatGone, Hang
    <3>2. CASE phase # "connecting"
      <4>1. links' = [links EXCEPT ![attempt].state = IF links[attempt].state = "open" THEN "closing" ELSE links[attempt].state]
        BY <1>4, <3>2 DEF SeatGone
      <4>2. links'[attempt].state = IF links[attempt].state = "open" THEN "closing" ELSE links[attempt].state
        BY <1>1, <4>1 DEF Link
      <4>3. links[attempt].state # "joining"
        BY <1>1, <1>4, <3>2 DEF SeatGone, SeatShown, OpenLinks
      <4> QED BY <1>1, <4>1, <4>2, <4>3
    <3> QED BY <3>1, <3>2
  <2>3. \A a \in Attempt : links'[a].state = "joining" => links[a].state = "joining"
    BY <2>2
  <2> QED BY <1>1, <1>2, <2>1, <2>2, <2>3, OpenStays
<1>5. CASE SeatBack(n)
  <2>1. /\ phase = "seatless" /\ attempt' = attempt + 1 /\ phase' = "connecting"
        /\ Dial(attempt + 1)
    BY <1>5 DEF SeatBack
  <2>2. ASSUME NEW a \in Attempt
        PROVE  /\ links'[a].state # "open"
               /\ links'[a].state = "joining" => links[a].state = "joining" \/ a = attempt + 1
    <3>1. links[a].state # "open"
      BY <2>1 DEF OpenLinks
    <3>2. a # attempt + 1 => links'[a] = links[a]
      BY <2>1 DEF Dial
    <3> QED BY <1>1, <3>1, <3>2
  <2> QED BY <1>1, <2>1, <2>2, DialOpens
<1> QED BY <1>3, <1>4, <1>5 DEF SeatMoves

\* No connection is open to who has lost the seat, whatever the step.
LEMMA OpenLinksKept ==
  ASSUME TypeOK, LinksFollow, LatestIsLast, CursorCounts, AttemptsCount, OnceSurrendered, OpenLinks,
         [Next]_vars
  PROVE  OpenLinks'
<1>1. /\ LinkTypeOK(Purpose) /\ attempt \in Attempt /\ links \in [Attempt -> Link]
      /\ \A r \in reads : r.attempt \in Attempt
  BY LinkTypes DEF TypeOK, LinkTypeOK, Read
<1>2. ASSUME reads' \subseteq reads \/ \E purpose \in Purpose, a \in Attempt :
               Ask(purpose, a) /\ (purpose = "enter" => links'[a].state # "open"),
             NEW r \in reads', r.purpose = "enter"
      PROVE  \/ links'[r.attempt].state # "open"
             \/ r.attempt \in Attempt /\ \E q \in reads : q.purpose = "enter" /\ q.attempt = r.attempt
  <2>1. CASE r \in reads
    BY <1>1, <1>2, <2>1
  <2>2. ASSUME NEW purpose \in Purpose, NEW a \in Attempt, Ask(purpose, a), r \notin reads,
               purpose = "enter" => links'[a].state # "open"
        PROVE  links'[r.attempt].state # "open"
    <3>1. PICK q : q.purpose = purpose /\ q.attempt = a /\ reads' = reads \cup {q}
      BY <2>2, AskAdds
    <3>2. r = q
      BY <1>2, <2>2, <3>1
    <3> QED BY <1>2, <2>2, <3>1, <3>2
  <2> QED BY <1>2, <2>1, <2>2
<1>3. CASE Server
  <2>1. UNCHANGED <<attempt, phase, command, surrendered>>
    BY <1>3 DEF Server, commandVars
  <2>2. ASSUME NEW r \in reads', r.purpose = "enter"
        PROVE  r.attempt \in Attempt /\ \E q \in reads : q.purpose = "enter" /\ q.attempt = r.attempt
    BY <1>1, <1>3, <2>2, ServerReads
  <2>3. CASE Commit \/ \E r \in reads : AnswerRead(r)
    <3>1. UNCHANGED links
      BY <2>3 DEF Commit, AnswerRead
    <3> QED BY <2>1, <2>2, <3>1, SameEase, OpenEases
  <2>4. CASE \E n \in untold : Tell(n)
    BY <1>1, <2>1, <2>2, <2>4, TellEases, OpenEases
  <2>5. CASE surrendered = 0 /\ \E a \in Attempt : Join(a)
    BY <2>1, <2>5, JoinOpens
  <2> QED BY <1>3, <2>3, <2>4, <2>5 DEF Server
<1>4. CASE Reconnect
  <2>1. attempt' = attempt + 1 /\ attempt' \in Attempt /\ phase' = "connecting" /\ reads' = reads
        /\ phase \notin {"connecting", "left"} /\ UNCHANGED <<command, surrendered>>
    BY <1>4, ReconnectKeeps DEF Reconnect, commandVars
  <2>2. \A a \in Attempt :
           /\ links'[a].state # "open"
           /\ links'[a].state = "joining" => links[a].state = "joining" \/ a = attempt + 1
    BY <1>4, ReconnectEases DEF OpenLinks
  <2> QED BY <2>1, <2>2, DialOpens
<1>5. CASE JoinFails
  <2>1. phase' = "disconnected" /\ UNCHANGED <<attempt, reads, command, surrendered>> /\ Hang(attempt)
    BY <1>5 DEF JoinFails, commandVars
  <2>2. AllEase /\ links'[attempt].state = "closed"
    BY <1>1, <2>1, EndsEase
  <2> QED BY <1>1, <2>1, <2>2, OpenStays DEF AllEase, Eases
<1>6. CASE Register
  <2>1. /\ phase' = "resuming" /\ UNCHANGED <<links, attempt, command, surrendered>>
        /\ Ask("resume", attempt) /\ links[attempt].state = "open"
    BY <1>6 DEF Register, commandVars
  <2>2. AllEase /\ links'[attempt].state # "joining"
    BY <2>1, SameEase
  <2>3. \A r \in reads' : r.purpose = "enter" =>
          \/ links'[r.attempt].state # "open"
          \/ r.attempt \in Attempt /\ \E q \in reads : q.purpose = "enter" /\ q.attempt = r.attempt
    BY <1>1, <1>2, <2>1 DEF Purpose
  <2> QED BY <2>1, <2>2, <2>3, OpenStays DEF AllEase, Eases
<1>7. CASE Unheard
  <2>1. UNCHANGED <<phase, attempt, reads, command, surrendered>> /\ AllEase
    BY <1>1, <1>7, EndsEase DEF Unheard, commandVars
  <2> QED BY <1>1, <2>1, OpenEases
<1>8. ASSUME NEW a \in Attempt, LinkLost(a)
      PROVE  OpenLinks'
  <2>1. /\ UNCHANGED <<attempt, reads, command, surrendered>> /\ Hang(a)
        /\ phase' = phase \/ (phase' = "disconnected" /\ a = attempt)
    BY <1>8 DEF LinkLost, Active, commandVars
  <2>2. AllEase /\ links'[a].state = "closed"
    BY <1>1, <1>8, <2>1, EndsEase
  <2>3. phase' = phase \/ (phase' = "disconnected" /\ links'[attempt].state # "joining")
    BY <2>1, <2>2
  <2> QED BY <1>1, <2>1, <2>2, <2>3, OpenStays DEF AllEase, Eases
<1>9. ASSUME NEW a \in Attempt, Receive(a)
      PROVE  OpenLinks'
  <2>1. UNCHANGED <<attempt, command, surrendered>> /\ phase' \in {phase, "left"}
    BY <1>9 DEF Receive, OnSnapshot, OnEvent, OnResult, commandVars
  <2>2. AllEase /\ links'[a].state = links[a].state
    BY <1>1, <1>9, EndsEase DEF Receive
  <2>3. \/ reads' = reads
        \/ Ask("refresh", a)
        \/ Ask("enter", a) /\ links'[a].state # "open"
    <3>1. CASE Ask("enter", a) /\ links[a].wire # <<>> /\ Head(links[a].wire).outcome = "surrendered"
      <4>1. links[a].state # "open"
        BY <1>1, <3>1, HeadDismisses DEF OpenLinks
      <4> QED BY <2>2, <3>1, <4>1
    <3> QED BY <1>9, <3>1, EntersAsked
  <2>4. \A r \in reads' : r.purpose = "enter" =>
          \/ links'[r.attempt].state # "open"
          \/ r.attempt \in Attempt /\ \E q \in reads : q.purpose = "enter" /\ q.attempt = r.attempt
    BY <1>1, <1>2, <2>3 DEF Purpose
  <2> QED BY <2>1, <2>2, <2>4, OpenStays DEF AllEase, Eases
<1>10. ASSUME NEW r \in reads, Refresh(r) \/ RefreshFails(r) \/ EnterAsHost(r)
       PROVE  OpenLinks'
  <2>1. UNCHANGED <<attempt, links, command, surrendered>> /\ reads' \subseteq reads
    BY <1>10 DEF Refresh, RefreshFails, EnterAsHost, commandVars
  <2>2. phase' = phase \/ (phase' \in {"connected", "disconnected", "seatless"}
                            /\ phase \notin {"connecting", "left"})
    BY <1>10 DEF Refresh, RefreshFails, EnterAsHost, Active, SeatShown, AttemptsCount
  <2>3. phase' = "seatless" => phase = "seatless" \/ links'[attempt].state # "open"
    BY <1>10, <2>1 DEF Refresh, RefreshFails, EnterAsHost, Active, OpenLinks
  <2>4. AllEase
    BY <2>1, SameEase
  <2> QED BY <1>1, <2>1, <2>2, <2>3, <2>4, OpenStays DEF AllEase, Eases
<1>11. CASE (\E kind \in MoveKinds : SendCommand(kind)) \/ UNCHANGED vars
  <2>1. UNCHANGED <<links, reads, phase, attempt, surrendered>>
    BY <1>11 DEF SendCommand, vars, linkVars, commandVars
  <2>2. command' = command \/ (command'.attempt = attempt /\ phase # "connecting")
    BY <1>11 DEF SendCommand, vars, commandVars
  <2> QED BY <1>1, <2>1, <2>2, SameEase, OpenEases
<1>12. CASE Execute
  <2>1. UNCHANGED <<attempt, phase, reads>> /\ command' = NoCommand /\ AllEase
    BY <1>12, ExecuteEases DEF Execute
  <2>2. surrendered' # 0 => surrendered # 0 \/ phase' # "connecting"
    BY <1>12, <2>1, ExecuteEases DEF OpenLinks
  <2> QED BY <1>1, <2>1, <2>2, OpenEases
<1>13. ASSUME NEW result \in owed, SendResult(result)
       PROVE  OpenLinks'
  <2>1. UNCHANGED <<attempt, phase, reads, command, surrendered>>
    BY <1>13 DEF SendResult
  <2>2. \A a \in Attempt :
           /\ links'[a].state = "open" => links[a].state = "open"
           /\ links'[a].state = "open" /\ Dismissed(links'[a]) => Dismissed(links[a])
           /\ links'[a].state = "joining" => links[a].state = "joining"
    BY <1>13, SendEases
  <2> QED BY <1>1, <2>1, <2>2, OpenStays
<1>14. ASSUME NEW o \in Op,
              \/ StartHostCommand(o)
              \/ ExecuteHostCommand(o)
              \/ HostAccepted(o)
              \/ HostRefused(o)
              \/ HostFails(o)
       PROVE  OpenLinks'
  <2>1. UNCHANGED <<attempt, phase, links, command, surrendered>>
    BY <1>14 DEF StartHostCommand, ExecuteHostCommand, HostAccepted, HostRefused, HostFails, linkVars,
                 commandVars
  <2>2. reads' \subseteq reads \/ Ask(o, attempt)
    BY <1>14 DEF StartHostCommand, ExecuteHostCommand, HostAccepted, HostRefused, HostFails, linkVars
  <2>3. \A r \in reads' : r.purpose = "enter" => r \in reads
    <3>1. CASE Ask(o, attempt)
      <4>1. PICK q : q.purpose = o /\ reads' = reads \cup {q}
        BY <3>1, AskAdds
      <4> QED BY <4>1, HostReads
    <3> QED BY <2>2, <3>1
  <2> QED BY <1>1, <2>1, <2>3, SameEase, OpenEases
<1>15. ASSUME NEW o \in Op, NEW r \in reads, ApplySession(o, r)
       PROVE  OpenLinks'
  <2>1. UNCHANGED <<command, surrendered>> /\ reads' \subseteq reads /\ SeatMoves(r.at)
    BY <1>15 DEF ApplySession, SeatMoves, commandVars
  <2> QED BY <2>1, SeatOpens
<1> QED BY <1>3, <1>4, <1>5, <1>6, <1>7, <1>8, <1>9, <1>10, <1>11, <1>12, <1>13, <1>14, <1>15 DEF Next

-----------------------------------------------------------------------------
(* The theorems.                                                           *)

\* The player who has entered shows nothing yet, and is told of everything.
LEMMA PlayerInit == Init => PlayerInv
<1> SUFFICES ASSUME Init PROVE PlayerInv
  OBVIOUS
<1>1. /\ history = <<>> /\ untold = {} /\ reads = {} /\ attempt = 1 /\ phase = "connecting"
      /\ board = 0 /\ cursor = [seq |-> 0, version |-> 0] /\ pending = FALSE /\ command = NoCommand
      /\ owed = {} /\ surrendered = 0 /\ isHost \in BOOLEAN /\ host = [o \in Op |-> Idle] /\ kept = {}
      /\ doubt = "none" /\ answered = 0
  BY DEF Init
<1>2. 1 \in Attempt /\ 0 \in Sequence /\ MaxSequence \in Nat
      /\ \A a \in Attempt : a \in Int
  BY LinkAssumption, PlayerAssumption DEF Attempt, Sequence
<1>3. /\ history \in Seq({"gameplay", "management"}) /\ Len(history) = 0 /\ Len(history) <= MaxSequence
  BY <1>1, <1>2
<1>4. Version(0) = 0
  <2>1. {i \in 1..0 : history[i] = "gameplay"} = {}
    OBVIOUS
  <2> QED BY <2>1, FS_EmptySet DEF Version
<1>5. ASSUME NEW a \in Attempt
      PROVE  /\ links[a] \in Link /\ links[a].wire = <<>> /\ links[a].seen = 0
             /\ links[a].state \in {"none", "joining"} /\ (a # 1 => links[a].state = "none")
  <2> DEFINE joining == [NoLink EXCEPT !.state = "joining"]
  <2>1. /\ NoLink \in Link /\ NoLink.wire = <<>> /\ NoLink.seen = 0 /\ NoLink.state = "none"
        /\ joining \in Link /\ joining.wire = <<>> /\ joining.seen = 0 /\ joining.state = "joining"
    <3>1. <<>> \in Seq(Message)
      OBVIOUS
    <3>2. NoLink = [state |-> "none", seen |-> 0, wire |-> <<>>]
      BY DEF NoLink
    <3>3. joining = [state |-> "joining", seen |-> 0, wire |-> <<>>]
      BY <3>2
    <3> HIDE DEF joining
    <3> QED BY <1>2, <3>1, <3>2, <3>3 DEF Link
  <2>2. links[a] = IF a = 1 THEN joining ELSE NoLink
    BY DEF Init
  <2> HIDE DEF joining
  <2> QED BY <2>1, <2>2
<1>6. TypeOK
  <2>1. links \in [Attempt -> Link]
    <3>1. \A a \in Attempt : links[a] \in Link
      BY <1>5
    <3> QED BY <3>1 DEF Init
  <2>2. LinkTypeOK(Purpose)
    BY <1>1, <1>3, <2>1 DEF LinkTypeOK
  <2>3. host \in [Op -> HostStates]
    BY <1>1 DEF HostStates
  <2> QED BY <1>1, <1>2, <2>2, <2>3 DEF TypeOK, HostStates
<1>7. LinksFollow
  <2>1. \A a \in Attempt : LinkFollows(links[a])
    BY <1>3, <1>5 DEF LinkFollows
  <2> QED BY <1>1, <2>1 DEF LinksFollow
<1>8. HostTakesTurns /\ OnlyHostsStay
  BY <1>1, <1>3 DEF HostTakesTurns, OnlyHostsStay
<1>9. CursorCounts
  BY <1>1, <1>3, <1>4 DEF CursorCounts, NoState
<1>10. LatestIsLast
  BY <1>5 DEF LatestIsLast, InOrder
<1>11. AttemptsCount
  BY <1>1, <1>2, <1>5 DEF AttemptsCount
<1>12. CursorFollows /\ BoardFollows
  BY <1>1, <1>4 DEF CursorFollows, BoardFollows, Following
<1>13. \A a \in Attempt : ~Dismissed(links[a]) /\ links[a].state # "open"
  BY <1>5 DEF Dismissed
<1>14. OnceSurrendered
  BY <1>1, <1>3, <1>13 DEF OnceSurrendered
<1>15. OpenLinks
  BY <1>1, <1>2, <1>5, <1>13 DEF OpenLinks
<1> QED BY <1>6, <1>7, <1>8, <1>9, <1>10, <1>11, <1>12, <1>14, <1>15 DEF PlayerInv

\* The invariant is kept by every step.
LEMMA PlayerStep == PlayerInv /\ [Next]_vars => PlayerInv'
<1> SUFFICES ASSUME PlayerInv, [Next]_vars PROVE PlayerInv'
  OBVIOUS
<1>1. /\ TypeOK /\ LinksFollow /\ HostTakesTurns /\ OnlyHostsStay /\ CursorCounts
      /\ LatestIsLast /\ AttemptsCount /\ CursorFollows /\ BoardFollows
      /\ OnceSurrendered /\ OpenLinks
  BY DEF PlayerInv
<1>2. TypeOK' /\ CursorCounts'
  BY <1>1, TypesKept
<1>3. LinksFollow' /\ LatestIsLast'
  BY <1>1, LinksKept
<1>4. HostTakesTurns' /\ OnlyHostsStay'
  BY <1>1, TurnsKept, OnlyHostsStayKept
<1>5. AttemptsCount'
  BY <1>1, AttemptsKept
<1>6. CursorFollows' /\ BoardFollows'
  BY <1>1, ScreenKept
<1>7. OnceSurrendered' /\ OpenLinks'
  BY <1>1, OnceSurrenderedKept, OpenLinksKept
<1> QED BY <1>2, <1>3, <1>4, <1>5, <1>6, <1>7 DEF PlayerInv

\* The state of the screen, the links and the host's commands is what they
\* may be, and what they follow they follow, whatever the order of steps.
THEOREM PlayerInvariance == Spec => []PlayerInv
BY PlayerInit, PlayerStep, PTL DEF Spec

\* With nothing left to arrive, the player sees the current state: the cursor
\* and the board of apps/web/src/App.tsx miss no event, whatever was lost,
\* overtaken, refused or read again, unless the view is in doubt.
THEOREM SettledIsCurrentHolds == Spec => []SettledIsCurrent
<1>1. ASSUME PlayerInv PROVE SettledIsCurrent
  <2>1. SUFFICES ASSUME Settled, doubt = "none" PROVE IsCurrent
    BY DEF SettledIsCurrent
  <2>2. /\ TypeOK /\ LinksFollow /\ CursorCounts /\ CursorFollows /\ BoardFollows
    BY <1>1 DEF PlayerInv
  <2>3. /\ LinkTypeOK(Purpose) /\ attempt \in Attempt /\ Len(history) \in Nat
        /\ cursor.seq \in Nat /\ cursor.seq <= Len(history) /\ cursor.version = Version(cursor.seq)
        /\ links[attempt].seen \in Nat
    BY <2>2, LinkTypes, AttemptNumbers, Numbers, LinkParts
  <2>4. Following
    BY <2>1 DEF Settled, Following
  <2>5. links[attempt].wire = <<>> /\ reads = {} /\ untold = {} /\ links[attempt].state = "open"
    BY <2>1, <2>3 DEF Settled
  <2>6. cursor.seq >= links[attempt].seen
    BY <2>2, <2>4, <2>5 DEF CursorFollows, Told, Brought
  <2>7. links[attempt].seen >= Len(history)
    <3>1. \A n \in 1..Len(history) : n > links[attempt].seen => n \in untold
      BY <2>2, <2>3, <2>5 DEF LinksFollow, LinkFollows
    <3>2. CASE Len(history) = 0
      BY <2>3, <3>2
    <3>3. CASE Len(history) # 0
      <4>1. Len(history) \in 1..Len(history)
        BY <2>3, <3>3
      <4> QED BY <2>3, <2>5, <3>1, <4>1
    <3> QED BY <3>2, <3>3
  <2>8. cursor.seq = Len(history)
    BY <2>3, <2>6, <2>7
  <2>9. cursor = At(Len(history))
    <3>1. cursor \in [seq : Sequence, version : Sequence]
      BY <2>2 DEF TypeOK
    <3> QED BY <2>3, <2>8, <3>1 DEF At
  <2>10. Version(board) = cursor.version
    <3>1. ~Wired(attempt, 0)
      BY <2>5 DEF Wired
    <3> QED BY <2>2, <2>4, <3>1 DEF BoardFollows
  <2> QED BY <2>9, <2>10 DEF IsCurrent
<1> QED BY <1>1, PlayerInvariance, PTL

\* No host command's answer takes the place of a newer one's, with any number
\* of operations: createSerialOperations lets one at a time read.
THEOREM HostAnswersStayInOrder == Spec => HostAnswersInOrder
<1>1. ASSUME PlayerInv, [Next]_vars PROVE [answered' >= answered]_vars
  <2>1. TypeOK /\ LinksFollow /\ HostTakesTurns /\ answered \in Nat
    BY <1>1, AnsweredCounts DEF PlayerInv
  <2>2. ASSUME NEW o \in Op, NEW r \in reads, ApplySession(o, r)
        PROVE  answered' >= answered
    BY <2>1, <2>2 DEF ApplySession, HostTakesTurns
  <2>3. CASE answered' = answered
    BY <2>1, <2>3
  <2>4. (\E o \in Op, r \in reads : ApplySession(o, r)) \/ answered' = answered
    BY <1>1 DEF Next, Server, Reconnect, JoinFails, Register, Unheard, LinkLost, Receive, Refresh,
                RefreshFails, EnterAsHost, SendCommand, Execute, SendResult, StartHostCommand,
                ExecuteHostCommand, HostAccepted, HostRefused, HostFails, hostVars, vars
  <2> QED BY <2>2, <2>3, <2>4
<1> QED BY <1>1, PlayerInvariance, PTL DEF Spec, HostAnswersInOrder

\* Who has left after a surrender stays out.  A host is shown on the seat again only by an
\* answer to a command of his that was read before the surrender (App.tsx:427 replaces the
\* seat too), and the connection the effect then makes is never registered.
THEOREM SurrenderStaysFinal == Spec => SurrenderIsFinal
<1> DEFINE A ==
      /\ phase = "left" => phase' = "left"
      /\ phase = "seatless" /\ phase' # "seatless" => phase' = "connecting" /\ answered' < surrendered
      /\ surrendered # 0 /\ phase = "connecting" => phase' # "resuming"
<1>1. ASSUME PlayerInv, [Next]_vars PROVE [A]_vars
  <2>1. TypeOK /\ LinksFollow /\ OnlyHostsStay /\ OnceSurrendered /\ OpenLinks /\ AttemptsCount
    BY <1>1 DEF PlayerInv
  <2>2. ASSUME phase' = phase PROVE A
    BY <2>2
  <2>3. CASE Reconnect \/ JoinFails
    BY <2>3 DEF Reconnect, JoinFails
  <2>4. CASE Register
    BY <2>1, <2>4 DEF Register, OpenLinks
  <2>5. ASSUME NEW a \in Attempt, LinkLost(a) PROVE A
    BY <2>5 DEF LinkLost, Active, SeatShown
  <2>6. ASSUME NEW a \in Attempt, Receive(a) PROVE A
    BY <2>1, <2>6 DEF Receive, OnSnapshot, OnEvent, OnResult, OnlyHostsStay
  <2>7. ASSUME NEW r \in reads, Refresh(r) \/ RefreshFails(r) \/ EnterAsHost(r) PROVE A
    BY <2>7 DEF Refresh, RefreshFails, EnterAsHost, Active, SeatShown
  <2>8. ASSUME NEW o \in Op, NEW r \in reads, ApplySession(o, r) PROVE A
    <3>1. SeatMoves(r.at) /\ answered' = r.at
      BY <2>8 DEF ApplySession, SeatMoves
    <3>2. CASE SeatStays(r.at)
      BY <2>2, <3>2 DEF SeatStays
    <3>3. CASE SeatGone(r.at)
      BY <3>3 DEF SeatGone, SeatShown
    <3>4. CASE SeatBack(r.at)
      <4>1. surrendered # 0
        BY <2>1, <3>4 DEF SeatBack, OnceSurrendered
      <4> QED BY <3>1, <3>4, <4>1 DEF SeatBack, Seated
    <3> QED BY <3>1, <3>2, <3>3, <3>4 DEF SeatMoves
  <2>9. \/ phase' = phase
        \/ Reconnect \/ JoinFails \/ Register
        \/ \E a \in Attempt : LinkLost(a) \/ Receive(a)
        \/ \E r \in reads : Refresh(r) \/ RefreshFails(r) \/ EnterAsHost(r)
        \/ \E o \in Op, r \in reads : ApplySession(o, r)
    BY <1>1 DEF Next, Server, Unheard, SendCommand, Execute, SendResult, StartHostCommand,
                ExecuteHostCommand, HostAccepted, HostRefused, HostFails, vars
  <2> HIDE DEF A
  <2> QED BY <2>2, <2>3, <2>4, <2>5, <2>6, <2>7, <2>8, <2>9
<1> QED BY <1>1, PlayerInvariance, PTL DEF Spec, SurrenderIsFinal
=============================================================================
