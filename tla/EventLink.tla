----------------------------- MODULE EventLink -----------------------------
(***************************************************************************)
(* What a browser and the server exchange about one game: the committed    *)
(* events, the room's batches over the browser's connections, and the      *)
(* answers to its reads over HTTP.                                         *)
(*                                                                         *)
(* A connection delivers in order what it delivers at all.  Nothing orders *)
(* the answer to a read with the messages of a connection, nor with the    *)
(* answer to another read.  What the room sends is GameRoom's subject:     *)
(* here it tells of a commit in one step, and drops what was overtaken.    *)
(***************************************************************************)
EXTENDS Integers, Sequences, FiniteSets

CONSTANTS
  MaxSequence,  \* bound on the number of events
  MaxAttempts,  \* bound on the connections the browser makes
  MaxReads      \* bound on the reads under way at a time

ASSUME LinkAssumption == MaxSequence \in Nat /\ MaxAttempts \in Nat /\ MaxReads \in Nat

VARIABLES
  history,  \* the kinds of the committed events
  untold,   \* events committed, of which the room has not been told yet
  links,    \* the connections
  reads     \* the reads under way

linkVars == <<history, untold, links, reads>>

Sequence == 0..MaxSequence
Attempt == 1..MaxAttempts
Slot == 1..MaxReads
NotRead == -1  \* the server has not read yet

Message ==
  [type : {"event"}, seq : 1..MaxSequence, outcome : {"-"}]
    \cup [type : {"snapshot"}, seq : Sequence, outcome : {"-"}]
    \cup [type : {"result"}, seq : {0}, outcome : {"ok", "stale", "refused", "surrendered"}]
Link == [state : {"none", "joining", "open", "closing", "closed"}, seen : Sequence, wire : Seq(Message)]
NoLink == [state |-> "none", seen |-> 0, wire |-> <<>>]

Read(Purpose) ==
  [slot : Slot, purpose : Purpose, attempt : Attempt, at : {NotRead} \cup Sequence]

LinkTypeOK(Purpose) ==
  /\ history \in Seq({"gameplay", "management"})
  /\ Len(history) <= MaxSequence
  /\ untold \subseteq 1..MaxSequence
  /\ links \in [Attempt -> Link]
  /\ reads \subseteq Read(Purpose)

LinkInit ==
  /\ history = <<>>
  /\ untold = {}
  /\ links = [a \in Attempt |-> NoLink]
  /\ reads = {}

\* The game version after the first n events.
Version(n) == Cardinality({i \in 1..n : history[i] = "gameplay"})

Sent(type, n) == [type |-> type, seq |-> n, outcome |-> "-"]
Batch(n) ==
  IF history[n] = "gameplay" THEN <<Sent("event", n), Sent("snapshot", n)>>
                             ELSE <<Sent("event", n)>>

-----------------------------------------------------------------------------
(* The server.                                                             *)

Committed(kind) ==
  /\ Len(history) < MaxSequence
  /\ history' = Append(history, kind)
  /\ untold' = untold \cup {Len(history) + 1}

\* Someone else's command, or a management or audit event.
Commit == \E kind \in {"gameplay", "management"} : Committed(kind) /\ UNCHANGED <<links, reads>>

Tell(n) ==
  /\ n \in untold
  /\ untold' = untold \ {n}
  /\ links' = [a \in Attempt |->
                 IF links[a].state = "open" /\ n > links[a].seen
                   THEN [links[a] EXCEPT !.seen = n, !.wire = @ \o Batch(n)]
                   ELSE links[a]]
  /\ UNCHANGED <<history, reads>>

\* The first snapshot; the binding's former connection is replaced.
Join(a) ==
  /\ links[a].state = "joining"
  /\ links' = [b \in Attempt |->
                 IF b = a
                   THEN [state |-> "open", seen |-> Len(history),
                         wire |-> <<Sent("snapshot", Len(history))>>]
                   ELSE IF links[b].state = "open" THEN [links[b] EXCEPT !.state = "closing"]
                                                   ELSE links[b]]
  /\ UNCHANGED <<history, untold, reads>>

AnswerRead(r) ==
  /\ r \in reads
  /\ r.at = NotRead
  /\ reads' = (reads \ {r}) \cup {[r EXCEPT !.at = Len(history)]}
  /\ UNCHANGED <<history, untold, links>>

ServerStep ==
  \/ \E n \in untold : Tell(n)
  \/ \E a \in Attempt : Join(a)
  \/ \E r \in reads : AnswerRead(r)

-----------------------------------------------------------------------------
(* The browser's ends.                                                     *)

FreeSlots == {s \in Slot : \A r \in reads : r.slot # s}

\* One more read is sent off.
Ask(purpose, a) ==
  \E slot \in FreeSlots :
    /\ \A s \in FreeSlots : slot <= s
    /\ reads' = reads \cup {[slot |-> slot, purpose |-> purpose, attempt |-> a, at |-> NotRead]}

Dial(a) == links' = [links EXCEPT ![a].state = "joining"]
Hang(a) == links' = [links EXCEPT ![a] = [@ EXCEPT !.state = "closed", !.wire = <<>>]]
Taken(a) == links' = [links EXCEPT ![a].wire = Tail(@)]

-----------------------------------------------------------------------------
(* What the proofs rest on.                                                *)

\* An open link has told of everything its room has been told of, a message is
\* about a committed event, and a gameplay event comes with its state.
LinkFollows(link) ==
  /\ link.seen <= Len(history)
  /\ link.state = "open" => \A n \in 1..Len(history) : n > link.seen => n \in untold
  /\ \A k \in 1..Len(link.wire) :
       /\ link.wire[k].seq <= Len(history)
       /\ link.wire[k].type = "event" /\ history[link.wire[k].seq] = "gameplay" =>
            k < Len(link.wire) /\ link.wire[k + 1] = Sent("snapshot", link.wire[k].seq)

LinksFollow ==
  /\ untold \subseteq 1..Len(history)
  /\ \A a \in Attempt : LinkFollows(links[a])
  /\ \A r \in reads : r.at <= Len(history)

\* A read under way will bring the state after the first n events, or a later one.
Coming(n) == \E r \in reads : r.at = NotRead \/ r.at >= n

\* A link is about to.
Wired(a, n) ==
  \E k \in 1..Len(links[a].wire) : links[a].wire[k].type = "snapshot" /\ links[a].wire[k].seq >= n

\* The link is about to tell of the nth event, or of a later one.
Told(a, n) == \E k \in 1..Len(links[a].wire) : links[a].wire[k].seq >= n
=============================================================================
