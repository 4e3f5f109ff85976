--------------------------- MODULE SpectatorView ---------------------------
(***************************************************************************)
(* The spectator's screen, apps/web/src/SpectatorApp.tsx: what it shows of *)
(* the game, from the messages of its connection and from the reads it     *)
(* makes whenever it has missed something.                                 *)
(***************************************************************************)
EXTENDS EventLink

CONSTANT LogLength  \* how many events the screen lists

ASSUME LogAssumption == LogLength \in Nat

VARIABLES
  attempt,           \* how often the spectator has connected
  phase,             \* how far connect() got
  sequence,          \* the latest event heard of
  snapshotSequence,  \* the latest state accepted
  board,             \* the state on the screen, by its event sequence
  shown,             \* the event sequence shown with it
  log                \* the events listed

viewVars == <<sequence, snapshotSequence, board, shown, log>>
vars == <<linkVars, attempt, phase, viewVars>>

Purpose == {"first", "final", "gap"}
NoState == -1

TypeOK ==
  /\ LinkTypeOK(Purpose)
  /\ attempt \in 0..MaxAttempts
  /\ phase \in {"away", "loading", "joining", "catching up", "connected", "disconnected"}
  /\ sequence \in {NoState} \cup Sequence
  /\ snapshotSequence \in {NoState} \cup Sequence
  /\ board \in {NoState} \cup Sequence
  /\ shown \in {NoState} \cup Sequence
  /\ log \subseteq 1..MaxSequence

Init ==
  /\ LinkInit
  /\ attempt = 0
  /\ phase = "away"
  /\ sequence = NoState
  /\ snapshotSequence = NoState
  /\ board = NoState
  /\ shown = NoState
  /\ log = {}

Later(m, n) == IF m >= n THEN m ELSE n

\* recentActions
Recent(S) == {i \in S : Cardinality({j \in S : j > i}) < LogLength}

-----------------------------------------------------------------------------
(* Connecting.                                                             *)

Open ==
  /\ phase \in {"away", "disconnected"}
  /\ attempt < MaxAttempts
  /\ attempt' = attempt + 1
  /\ phase' = "loading"
  /\ sequence' = NoState
  /\ snapshotSequence' = NoState
  /\ board' = NoState
  /\ shown' = NoState
  /\ log' = {}
  /\ Ask("first", attempt + 1)
  /\ UNCHANGED <<history, untold, links>>

Active == phase \in {"loading", "joining", "catching up", "connected"}

\* The board is cleared and what is under way aborted.
Disconnect ==
  /\ Active
  /\ phase' = "disconnected"
  /\ board' = NoState
  /\ shown' = NoState
  /\ log' = {}
  /\ reads' = {}
  /\ Hang(attempt)
  /\ UNCHANGED <<history, untold, attempt, sequence, snapshotSequence>>

\* (A variant that does not read again.)
Register_Trusting ==
  /\ phase = "joining"
  /\ links[attempt].state \in {"joining", "open"}
  /\ phase' = "connected"
  /\ UNCHANGED <<linkVars, attempt, viewVars>>

\* Handlers are registered, and what came before is covered by another read.
Register ==
  /\ phase = "joining"
  /\ links[attempt].state \in {"joining", "open"}
  /\ phase' = "catching up"
  /\ Ask("final", attempt)
  /\ UNCHANGED <<history, untold, links, attempt, viewVars>>

\* A message nobody handles yet.
Unheard ==
  /\ phase = "joining"
  /\ links[attempt].wire # <<>>
  /\ Taken(attempt)
  /\ UNCHANGED <<history, untold, reads, attempt, phase, viewVars>>

-----------------------------------------------------------------------------
(* Reads.                                                                  *)

\* (A variant that takes whatever is read.)
IsFresh_Always(n) == TRUE
IsFresh(n) == n >= snapshotSequence

ReadLog(n) == Recent(log \cup 1..n)

ShowRead(n) ==
  /\ sequence' = Later(sequence, n)
  /\ snapshotSequence' = IF IsFresh(n) THEN n ELSE snapshotSequence
  /\ board' = IF IsFresh(n) \/ board = NoState THEN n ELSE board
  /\ shown' = IF IsFresh(n) \/ board = NoState THEN sequence' ELSE shown
  /\ log' = ReadLog(n)

Refresh(r) ==
  /\ r \in reads
  /\ r.at # NotRead
  /\ Active
  /\ reads' = reads \ {r}
  /\ ShowRead(r.at)
  /\ \/ /\ r.purpose = "first"
        /\ phase' = "joining"
        /\ Dial(attempt)
     \/ /\ r.purpose = "final"
        /\ phase' = "connected"
        /\ UNCHANGED links
     \/ /\ r.purpose = "gap"
        /\ UNCHANGED <<phase, links>>
  /\ UNCHANGED <<history, untold, attempt>>

-----------------------------------------------------------------------------
(* Messages.                                                               *)

\* (A variant that goes on without what was missed.)
RecoverGap_Never(missed) == UNCHANGED reads
RecoverGap(missed) == IF missed THEN Ask("gap", attempt) ELSE UNCHANGED reads

OnSnapshot(n) ==
  IF n < snapshotSequence
    THEN UNCHANGED <<reads, viewVars>>
    ELSE /\ RecoverGap(n > sequence)
         /\ snapshotSequence' = n
         /\ sequence' = Later(sequence, n)
         /\ board' = n
         /\ shown' = sequence'
         /\ UNCHANGED log

\* Management events advance the number shown without the state.
OnEvent(n) ==
  /\ RecoverGap(n > sequence + 1)
  /\ sequence' = Later(sequence, n)
  /\ shown' = IF history[n] = "gameplay" THEN shown ELSE Later(shown, n)
  /\ log' = Recent(log \cup {n})
  /\ UNCHANGED <<snapshotSequence, board>>

Receive ==
  /\ phase \in {"catching up", "connected"}
  /\ links[attempt].wire # <<>>
  /\ Taken(attempt)
  /\ LET message == Head(links[attempt].wire) IN
       \/ message.type = "snapshot" /\ OnSnapshot(message.seq)
       \/ message.type = "event" /\ OnEvent(message.seq)
  /\ UNCHANGED <<history, untold, attempt, phase>>

-----------------------------------------------------------------------------
Browser ==
  \/ Register
  \/ \E r \in reads : Refresh(r)
  \/ Receive

Server == (Commit \/ ServerStep) /\ UNCHANGED <<attempt, phase, viewVars>>

Next == Server \/ Open \/ Disconnect \/ Unheard \/ Browser

Spec == Init /\ [][Next]_vars

\* What is sent arrives, and what is asked for is answered, unless it fails.
FairSpec ==
  /\ Spec
  /\ WF_vars(Browser)
  /\ WF_vars(ServerStep /\ UNCHANGED <<attempt, phase, viewVars>>)

-----------------------------------------------------------------------------
(* What the screen promises.                                               *)

\* Nothing the spectator sees goes back while the screen is connected: neither
\* the latest event, nor the board, nor the number shown with it, whichever
\* answers and messages overtake one another.
ChronologyNeverMovesBack ==
  [][Active' /\ attempt' = attempt =>
       sequence' >= sequence /\ board' >= board /\ shown' >= shown]_vars

Settled ==
  /\ phase = "connected"
  /\ links[attempt].state = "open"
  /\ links[attempt].wire = <<>>
  /\ reads = {}
  /\ untold = {}

\* With nothing left to arrive, the screen shows the current state under the
\* latest event's number, though broadcasts were overtaken or came too early.
SettledIsCurrent ==
  Settled => /\ sequence = Len(history)
             /\ shown = Len(history)
             /\ Version(board) = Version(Len(history))

\* An answer that is older than the board still fills in the missed events: the
\* list ends up with the latest ones, none left out.
SettledLogIsComplete == Settled => log = Recent(1..Len(history))

\* Once everything has arrived, state, number and list agree with the server.
SettledIsComplete == SettledIsCurrent /\ SettledLogIsComplete

\* A screen that is behind catches up or says that it is disconnected.
BehindCatchesUp ==
  (phase = "connected" /\ Version(board) < Version(Len(history)))
    ~> (phase # "connected" \/ Version(board) = Version(Len(history)))

-----------------------------------------------------------------------------
(* What the proofs rest on.                                                *)

\* What is on the screen is the latest state accepted, under a number that
\* has been heard of.
ScreenFollows ==
  /\ sequence >= snapshotSequence
  /\ sequence >= shown
  /\ board # NoState => board = snapshotSequence
  /\ Active /\ board = NoState => snapshotSequence = NoState
  /\ phase \in {"joining", "catching up", "connected"} => board # NoState
  /\ Active => attempt \in Attempt

ViewInv == TypeOK /\ ScreenFollows

Heard == phase \in {"catching up", "connected"}

\* Each read belongs to its phase.
ReadsInPhase ==
  /\ phase \in {"away", "joining", "disconnected"} => reads = {}
  /\ phase = "loading" => \A r, q \in reads : r.purpose = "first" /\ r = q
  /\ Heard => \A r \in reads : r.purpose # "first"

\* The screen has heard of no event that is not committed; of what its link has
\* seen it has heard, or is going to.
NumberFollows ==
  /\ sequence <= Len(history)
  /\ Heard /\ links[attempt].state = "open" /\ links[attempt].seen > sequence =>
       Coming(links[attempt].seen) \/ Told(attempt, links[attempt].seen)

\* A gameplay event heard of is on the board, or its state is on the way.
BoardFollows ==
  Heard => \A n \in 1..Len(history) :
             history[n] = "gameplay" /\ board < n /\ n <= sequence => Coming(n) \/ Wired(attempt, n)

\* The number shown lags behind only until the board's next state.
ShownFollows ==
  Active /\ shown < sequence => Heard /\ Wired(attempt, snapshotSequence)

\* Of the latest events heard of, those that are not listed are on the way; no
\* listed event is older than the list is long.
ListFollows ==
  Active =>
    /\ \A i \in log : i <= sequence /\ Cardinality({j \in log : j > i}) < LogLength
    /\ \A i \in 1..Len(history) :
         i <= sequence /\ i > sequence - LogLength /\ i \notin log => Coming(i)

SettleInv ==
  /\ LinksFollow
  /\ ReadsInPhase
  /\ NumberFollows
  /\ BoardFollows
  /\ ShownFollows
  /\ ListFollows
=============================================================================
