----------------------------- MODULE PlayerView -----------------------------
(***************************************************************************)
(* The player's screen, apps/web/src/App.tsx: the state on the board, the  *)
(* cursor that finds gaps in the events, the reads and connections that    *)
(* restore it, and the host's commands, whose answers replace it, seat and *)
(* all.                                                                    *)
(***************************************************************************)
EXTENDS EventLink

CONSTANTS
  Op,        \* the host's operations, by their keys
  MoveKinds  \* what the player sends: "move", "surrender"

ASSUME PlayerAssumption ==
  /\ MaxAttempts >= 1
  /\ Op \cap {"resume", "refresh", "enter"} = {}
  /\ MoveKinds \subseteq {"move", "surrender"}

VARIABLES
  attempt,  \* how often the player has connected
  phase,    \* how far connect() got
  board,    \* the state on the board, by its event sequence
  cursor,   \* eventCursorReference
  pending,  \* whether a command awaits its result
  command,  \* the command on its way to the room
  owed,     \* results to be sent after their broadcast
  surrendered, \* the event that took the player's seat, 0 while it is held
  isHost,   \* is_host
  host,     \* how far each operation of the host got
  kept,     \* operations whose command, under the id kept, has been committed
  doubt,    \* (history) what may have left the view behind
  answered  \* (history) the state of the last host's answer applied

screenVars == <<board, cursor, pending, doubt>>
commandVars == <<command, owed, surrendered>>
hostVars == <<isHost, host, kept, answered>>
vars == <<linkVars, attempt, phase, screenVars, commandVars, hostVars>>

Purpose == {"resume", "refresh", "enter"} \cup Op
NoState == -1
NoCommand == [kind |-> "none"]
Idle == [at |-> "idle"]

\* The state after n events, as far as the cursor tells.
At(n) == [seq |-> n, version |-> Version(n)]

TypeOK ==
  /\ LinkTypeOK(Purpose)
  /\ attempt \in Attempt
  /\ phase \in {"connecting", "resuming", "connected", "disconnected", "seatless", "left"}
  /\ board \in {NoState} \cup Sequence
  /\ cursor \in [seq : Sequence, version : Sequence]
  /\ pending \in BOOLEAN
  /\ command \in {NoCommand} \cup [kind : MoveKinds, expected : Sequence, attempt : Attempt]
  /\ owed \subseteq [kind : MoveKinds, seq : 1..MaxSequence, attempt : Attempt]
  /\ surrendered \in Sequence
  /\ isHost \in BOOLEAN
  /\ host \in [Op -> {Idle, [at |-> "refreshing"], [at |-> "accepted"], [at |-> "refused"], [at |-> "synchronizing"]}
                     \cup [at : {"sending"}, expected : Sequence]]
  /\ kept \subseteq Op
  /\ doubt \in {"none", "host answer", "former connection", "failed read"}
  /\ answered \in Sequence

\* The player has entered the game.
Init ==
  /\ history = <<>>
  /\ untold = {}
  /\ links = [a \in Attempt |-> IF a = 1 THEN [NoLink EXCEPT !.state = "joining"] ELSE NoLink]
  /\ reads = {}
  /\ attempt = 1
  /\ phase = "connecting"
  /\ board = 0
  /\ cursor = [seq |-> 0, version |-> 0]
  /\ pending = FALSE
  /\ command = NoCommand
  /\ owed = {}
  /\ surrendered = 0
  /\ isHost \in BOOLEAN
  /\ host = [o \in Op |-> Idle]
  /\ kept = {}
  /\ doubt = "none"
  /\ answered = 0

\* (A variant that leaves the closures of a player without a seat in force.)
Active_Latest(a) == a = attempt

\* activeGame.seat is not null.
SeatShown == phase \in {"connecting", "resuming", "connected", "disconnected"}

\* Whether the closures of connection a are active.
Active(a) == a = attempt /\ SeatShown

-----------------------------------------------------------------------------
(* Connecting.                                                             *)

\* The effect runs again: its former closures are inactive, its room is left.
Reconnect ==
  /\ phase = "disconnected"
  /\ attempt < MaxAttempts
  /\ attempt' = attempt + 1
  /\ phase' = "connecting"
  /\ cursor' = At(board)
  /\ links' = [links EXCEPT ![attempt + 1].state = "joining",
                            ![attempt].state = IF @ = "open" THEN "closing" ELSE @]
  /\ UNCHANGED <<history, untold, reads, board, pending, doubt, commandVars, hostVars>>

JoinFails ==
  /\ phase = "connecting"
  /\ phase' = "disconnected"
  /\ Hang(attempt)
  /\ UNCHANGED <<history, untold, reads, attempt, board, cursor, pending, doubt, commandVars, hostVars>>

Register ==
  /\ phase = "connecting"
  /\ links[attempt].state = "open"
  /\ phase' = "resuming"
  /\ doubt' = IF doubt = "former connection" THEN doubt ELSE "none"
  /\ Ask("resume", attempt)
  /\ UNCHANGED <<history, untold, links, attempt, board, cursor, pending, commandVars, hostVars>>

\* A message nobody handles yet.
Unheard ==
  /\ phase = "connecting"
  /\ links[attempt].wire # <<>>
  /\ Taken(attempt)
  /\ UNCHANGED <<history, untold, reads, attempt, phase, screenVars, commandVars, hostVars>>

\* onLeave, with whatever was still under way lost
LinkLost(a) ==
  /\ a < attempt \/ phase # "connecting"
  /\ links[a].state \in {"open", "closing"}
  /\ Hang(a)
  /\ phase' = IF Active(a) THEN "disconnected" ELSE phase
  /\ UNCHANGED <<history, untold, reads, attempt, screenVars, commandVars, hostVars>>

-----------------------------------------------------------------------------
(* Reads.                                                                  *)

IsFresh(n) == n >= cursor.seq

Show(n) ==
  /\ board' = IF board = NoState THEN board ELSE n
  /\ cursor' = At(n)

\* The answer to the read after joining, or to refreshAuthoritativeState.
Refresh(r) ==
  /\ r \in reads
  /\ r.at # NotRead
  /\ r.purpose \in {"resume", "refresh"}
  /\ reads' = reads \ {r}
  /\ IF Active(r.attempt) /\ IsFresh(r.at)
       THEN Show(r.at)
       ELSE UNCHANGED <<board, cursor>>
  /\ phase' = IF Active(r.attempt) /\ r.purpose = "resume" THEN "connected" ELSE phase
  /\ UNCHANGED <<history, untold, links, attempt, pending, doubt, commandVars, hostVars>>

RefreshFails(r) ==
  /\ r \in reads
  /\ r.purpose \in {"resume", "refresh", "enter"}
  /\ reads' = reads \ {r}
  /\ IF Active(r.attempt)
       THEN /\ doubt' = "failed read"
            /\ phase' = IF r.purpose = "resume" THEN "disconnected" ELSE phase
       ELSE UNCHANGED <<doubt, phase>>
  /\ UNCHANGED <<history, untold, links, attempt, board, cursor, pending, commandVars, hostVars>>

\* A host without a seat stays in the game, without a room.
EnterAsHost(r) ==
  /\ r \in reads
  /\ r.at # NotRead
  /\ r.purpose = "enter"
  /\ reads' = reads \ {r}
  /\ IF Active(r.attempt)
       THEN /\ Show(r.at)
            /\ phase' = "seatless"
       ELSE UNCHANGED <<board, cursor, phase>>
  /\ UNCHANGED <<history, untold, links, attempt, pending, doubt, commandVars, hostVars>>

-----------------------------------------------------------------------------
(* Messages.  The handlers of snapshots, results and gameplay events stay  *)
(* in force for a connection that was left.                                *)

\* What a message of connection a leaves in doubt, if it settles it.
Doubt(a, settled) == IF a = attempt THEN settled ELSE "former connection"

OnSnapshot(a, n) ==
  /\ Show(n)
  /\ doubt' = Doubt(a, "none")
  /\ pending' = FALSE
  /\ UNCHANGED <<reads, phase>>

\* acceptGameplayEvent
AcceptGameplayEvent(n) == n = cursor.seq + 1 /\ Version(n) = cursor.version + 1

\* acceptManagementEvent
AcceptManagementEvent(n) == n = cursor.seq + 1 /\ Version(n) = cursor.version

Accept(n) == IF history[n] = "gameplay" THEN AcceptGameplayEvent(n) ELSE AcceptManagementEvent(n)

\* (A variant that does not read again.)
OnGap_Ignored(a) == UNCHANGED reads

OnGap(a) == Ask("refresh", a)

OnEvent(a, n) ==
  /\ IF history[n] = "management" /\ ~Active(a)
       THEN UNCHANGED <<reads, cursor, doubt>>
       ELSE \/ /\ Accept(n)
               /\ cursor' = At(n)
               /\ doubt' = Doubt(a, doubt)
               /\ UNCHANGED reads
            \/ /\ ~Accept(n)
               /\ OnGap(a)
               /\ UNCHANGED <<cursor, doubt>>
  /\ UNCHANGED <<phase, board, pending>>

OnResult(a, outcome) ==
  /\ pending' = FALSE
  /\ \/ /\ outcome = "stale"
        /\ Ask("refresh", a)
        /\ UNCHANGED <<phase, board>>
     \/ /\ outcome \in {"ok", "refused"}
        /\ UNCHANGED <<reads, phase, board>>
     \/ /\ outcome = "surrendered"
        /\ IF isHost THEN Ask("enter", a) /\ UNCHANGED <<phase, board>>
                     ELSE phase' = "left" /\ board' = NoState /\ UNCHANGED reads
  /\ UNCHANGED <<cursor, doubt>>

Receive(a) ==
  /\ a < attempt \/ phase # "connecting"
  /\ links[a].wire # <<>>
  /\ Taken(a)
  /\ LET message == Head(links[a].wire) IN
       \/ message.type = "snapshot" /\ OnSnapshot(a, message.seq)
       \/ message.type = "event" /\ OnEvent(a, message.seq)
       \/ message.type = "result" /\ OnResult(a, message.outcome)
  /\ UNCHANGED <<history, untold, attempt, commandVars, hostVars>>

-----------------------------------------------------------------------------
(* The player's commands.                                                  *)

\* The board is disabled until the connection is restored and the last command
\* answered, the surrender only until the latter.  What a room that is closing is sent
\* is lost.  Only the bound of one command under way is the model's.
SendCommand(kind) ==
  /\ kind = "move" => phase = "connected"
  /\ phase \in {"resuming", "connected", "disconnected"}
  /\ links[attempt].state \in {"open", "closing"}
  /\ ~pending
  /\ command = NoCommand
  /\ command' = [kind |-> kind, expected |-> Version(board), attempt |-> attempt]
  /\ pending' = TRUE
  /\ UNCHANGED <<linkVars, attempt, phase, board, cursor, doubt, owed, surrendered, hostVars>>

Result(outcome) == [type |-> "result", seq |-> 0, outcome |-> outcome]

Answer(a, outcome) == links' = [links EXCEPT ![a].wire = Append(@, Result(outcome))]

\* The server's end, executeCommand: who has no seat any more is refused, and so is a
\* version that is not current.
Execute ==
  /\ command # NoCommand
  /\ command' = NoCommand
  /\ LET a == command.attempt
         current == command.expected = Version(Len(history)) IN
       \/ /\ links[a].state = "open"
          /\ surrendered = 0
          /\ current
          /\ Committed("gameplay")
          /\ owed' = owed \cup {[kind |-> command.kind, seq |-> Len(history) + 1, attempt |-> a]}
          /\ surrendered' = IF command.kind = "surrender" THEN Len(history) + 1 ELSE 0
          /\ UNCHANGED links
       \/ /\ links[a].state = "open"
          /\ surrendered = 0
          /\ ~current
          /\ Answer(a, "stale")
          /\ UNCHANGED <<history, untold, owed, surrendered>>
       \/ /\ links[a].state = "open"
          /\ surrendered # 0
          /\ Answer(a, "refused")
          /\ UNCHANGED <<history, untold, owed, surrendered>>
       \/ /\ links[a].state # "open"
          /\ UNCHANGED <<history, untold, links, owed, surrendered>>
  /\ UNCHANGED <<reads, attempt, phase, screenVars, hostVars>>

\* The result follows the broadcast; who surrendered is sent away.
SendResult(result) ==
  /\ result \in owed
  /\ result.seq \notin untold
  /\ owed' = owed \ {result}
  /\ LET link == links[result.attempt]
         open == link.state = "open"
         outcome == IF result.kind = "surrender" THEN "surrendered" ELSE "ok" IN
       links' = [links EXCEPT ![result.attempt] =
                   [link EXCEPT
                      !.wire = IF open THEN Append(link.wire, Result(outcome)) ELSE link.wire,
                      !.state = IF open /\ outcome = "surrendered" THEN "closing" ELSE link.state]]
  /\ UNCHANGED <<history, untold, reads, attempt, phase, screenVars, command, surrendered, hostVars>>

-----------------------------------------------------------------------------
(* The host's commands, over HTTP.                                         *)

\* (A variant without the queue.)
QueueIsFree_Always == TRUE

\* createSerialOperations
QueueIsFree == \A o \in Op : host[o] = Idle

StartHostCommand(o) ==
  /\ isHost
  /\ QueueIsFree
  /\ host[o] = Idle
  /\ board # NoState
  /\ host' = [host EXCEPT ![o] = [at |-> "refreshing"]]
  /\ Ask(o, attempt)
  /\ UNCHANGED <<history, untold, links, attempt, phase, board, cursor, pending, doubt, commandVars, isHost, kept, answered>>

\* Whether what was read after n events has the player on the seat.
Seated(n) == surrendered = 0 \/ n < surrendered

\* The effect's dependency on the seat: without it the room is left, or the joining
\* given up; back on it, by a late answer, the player connects once more.
SeatStays(n) == (SeatShown <=> Seated(n)) /\ UNCHANGED <<links, attempt, phase>>

SeatGone(n) ==
  /\ SeatShown /\ ~Seated(n)
  /\ phase' = "seatless"
  /\ IF phase = "connecting"
       THEN Hang(attempt)
       ELSE links' = [links EXCEPT ![attempt].state = IF @ = "open" THEN "closing" ELSE @]
  /\ UNCHANGED attempt

SeatBack(n) ==
  /\ phase = "seatless" /\ Seated(n)
  /\ attempt < MaxAttempts
  /\ attempt' = attempt + 1
  /\ phase' = "connecting"
  /\ Dial(attempt + 1)

\* applySession: what was read replaces what is shown.
ApplySession(o, r) ==
  /\ r \in reads
  /\ r.purpose = o
  /\ r.at # NotRead
  /\ reads' = reads \ {r}
  /\ Show(r.at)
  /\ SeatStays(r.at) \/ SeatGone(r.at) \/ SeatBack(r.at)
  /\ doubt' = "host answer"
  /\ answered' = r.at
  /\ \/ /\ host[o].at = "refreshing"
        /\ host' = [host EXCEPT ![o] = [at |-> "sending", expected |-> Version(r.at)]]
        /\ UNCHANGED kept
     \/ /\ host[o].at = "synchronizing"
        /\ host' = [host EXCEPT ![o] = Idle]
        /\ kept' = kept \ {o}
  /\ UNCHANGED <<history, untold, pending, commandVars, isHost>>

\* The server's end: a command kept for a retry is known by its id.
ExecuteHostCommand(o) ==
  /\ host[o].at = "sending"
  /\ \/ /\ o \in kept
        /\ host' = [host EXCEPT ![o] = [at |-> "accepted"]]
        /\ UNCHANGED <<history, untold, kept>>
     \/ /\ o \notin kept
        /\ host[o].expected = Version(Len(history))
        /\ Committed("management")
        /\ host' = [host EXCEPT ![o] = [at |-> "accepted"]]
        /\ kept' = kept \cup {o}
     \/ /\ o \notin kept
        /\ host[o].expected # Version(Len(history))
        /\ host' = [host EXCEPT ![o] = [at |-> "refused"]]
        /\ UNCHANGED <<history, untold, kept>>
  /\ UNCHANGED <<links, reads, attempt, phase, screenVars, commandVars, isHost, answered>>

HostAccepted(o) ==
  /\ host[o].at = "accepted"
  /\ host' = [host EXCEPT ![o] = [at |-> "synchronizing"]]
  /\ Ask(o, attempt)
  /\ UNCHANGED <<history, untold, links, attempt, phase, screenVars, commandVars, isHost, kept, answered>>

\* The refusal is shown, and nothing read again.
HostRefused(o) ==
  /\ host[o].at = "refused"
  /\ host' = [host EXCEPT ![o] = Idle]
  /\ UNCHANGED <<linkVars, attempt, phase, board, cursor, pending, doubt, commandVars, isHost, kept, answered>>

\* A request fails, at either end of it; the command's id is kept.
HostFails(o) ==
  /\ host[o] # Idle
  /\ host' = [host EXCEPT ![o] = Idle]
  /\ reads' = {r \in reads : r.purpose # o}
  /\ UNCHANGED <<history, untold, links, attempt, phase, board, cursor, pending, doubt, commandVars, isHost, kept, answered>>

-----------------------------------------------------------------------------
\* Who has surrendered is refused by the room, and unless he is the host by every read.
Server ==
  /\ \/ Commit
     \/ \E n \in untold : Tell(n)
     \/ surrendered = 0 /\ \E a \in Attempt : Join(a)
     \/ (surrendered = 0 \/ isHost) /\ \E r \in reads : AnswerRead(r)
  /\ UNCHANGED <<attempt, phase, screenVars, commandVars, hostVars>>

Next ==
  \/ Server
  \/ Reconnect
  \/ JoinFails
  \/ Register
  \/ Unheard
  \/ \E a \in Attempt : LinkLost(a) \/ Receive(a)
  \/ \E r \in reads : Refresh(r) \/ RefreshFails(r) \/ EnterAsHost(r)
  \/ \E kind \in MoveKinds : SendCommand(kind)
  \/ Execute
  \/ \E result \in owed : SendResult(result)
  \/ \E o \in Op :
       \/ StartHostCommand(o)
       \/ \E r \in reads : ApplySession(o, r)
       \/ ExecuteHostCommand(o)
       \/ HostAccepted(o)
       \/ HostRefused(o)
       \/ HostFails(o)

Spec == Init /\ [][Next]_vars

-----------------------------------------------------------------------------
(* What the screen promises.                                               *)

Settled ==
  /\ phase = "connected"
  /\ \A a \in Attempt : links[a].wire = <<>>
  /\ links[attempt].state = "open"
  /\ reads = {}
  /\ untold = {}

IsCurrent == cursor = At(Len(history)) /\ Version(board) = cursor.version

\* With nothing left to arrive, the player sees the current state, unless the
\* view was last set by a host command's answer or a former connection's
\* message, neither of which is compared with the cursor, or a read failed,
\* which the player is told.
SettledIsCurrent == Settled /\ doubt = "none" => IsCurrent

\* No host command's answer takes the place of a newer one's.
HostAnswersInOrder == [][answered' >= answered]_vars

\* Who has left the game after surrendering stays out.  A host without a seat is shown
\* on it again only by an answer read before the surrender, and no connection is then
\* made for that seat.
SurrenderIsFinal ==
  [][/\ phase = "left" => phase' = "left"
     /\ phase = "seatless" /\ phase' # "seatless" =>
          phase' = "connecting" /\ answered' < surrendered
     /\ surrendered # 0 /\ phase = "connecting" => phase' # "resuming"]_vars

-----------------------------------------------------------------------------
(* What the proofs rest on.                                                *)

\* The host's commands take turns, and what one is waiting for was read after
\* the last answer applied.
HostTakesTurns ==
  /\ answered <= Len(history)
  /\ \A o, q \in Op : host[o] # Idle /\ host[q] # Idle => o = q
  /\ \A r \in reads : r.purpose \in Op =>
       /\ host[r.purpose].at \in {"refreshing", "synchronizing"}
       /\ r.at = NotRead \/ r.at >= answered
  /\ \A r, q \in reads : r.purpose \in Op /\ q.purpose = r.purpose => r = q

\* The link brings the result of a surrender.
Dismissed(link) == \E k \in 1..Len(link.wire) : link.wire[k].outcome = "surrendered"

\* Only a host is ever without a seat in the game, or commands.
OnlyHostsStay ==
  ~isHost => /\ phase # "seatless"
             /\ \A r \in reads : r.purpose # "enter"
             /\ \A o \in Op : host[o] = Idle

\* Nothing takes the player for one who has surrendered, but the surrender.
OnceSurrendered ==
  /\ surrendered <= Len(history)
  /\ phase = "seatless" => surrendered # 0
  /\ \A r \in reads : r.purpose = "enter" => surrendered # 0
  /\ \A a \in Attempt : Dismissed(links[a]) => surrendered # 0
  /\ \A result \in owed : result.kind = "surrender" => surrendered # 0

\* Only the last connection made is open, and none is open to who has lost the seat.
OpenLinks ==
  /\ \A a \in Attempt :
       /\ links[a].state = "open" => a = attempt /\ ~Dismissed(links[a])
       /\ links[a].state = "joining" => a = attempt /\ phase \in {"connecting", "left"}
  /\ \A r \in reads : r.purpose = "enter" => links[r.attempt].state # "open"
  /\ phase = "seatless" => links[attempt].state # "open"
  /\ surrendered # 0 /\ phase = "connecting" => links[attempt].state # "open"
  /\ command # NoCommand =>
       command.attempt <= attempt /\ (phase = "connecting" => command.attempt # attempt)

\* The cursor is the position of a committed event.
CursorCounts ==
  /\ cursor.seq <= Len(history) /\ cursor.version = Version(cursor.seq)
  /\ board <= Len(history)
  /\ board = NoState => phase = "left"

\* The last message about an event is about the latest one the link has seen.
InOrder(link) ==
  \A k \in 1..Len(link.wire) :
    link.wire[k].type # "result" /\ link.wire[k].seq # link.seen =>
      \E j \in 1..Len(link.wire) : j > k /\ link.wire[j].seq = link.seen

LatestIsLast == \A a \in Attempt : InOrder(links[a])

\* A read whose answer will be applied brings the nth event or a later one.
Brought(n) ==
  \E r \in reads :
    /\ r.purpose \in {"resume", "refresh"}
    /\ r.attempt = attempt
    /\ r.at = NotRead \/ r.at >= n

\* The screen follows its open link, with nothing in doubt.
Following ==
  /\ phase \in {"resuming", "connected", "disconnected"}
  /\ doubt = "none"
  /\ links[attempt].state = "open"

\* What the link has seen the cursor has passed, or is going to.
CursorFollows ==
  Following =>
    \/ cursor.seq >= links[attempt].seen
    \/ Told(attempt, links[attempt].seen)
    \/ Brought(links[attempt].seen)

\* No connection but those made has messages or reads, the one being made no read.
AttemptsCount ==
  /\ \A a \in Attempt : a > attempt => links[a].state = "none" /\ links[a].wire = <<>>
  /\ \A r \in reads :
       /\ r.attempt <= attempt
       /\ phase = "connecting" /\ r.purpose \in {"resume", "refresh", "enter"} =>
            r.attempt # attempt

\* The board is as far as the cursor, or its next state is on the way.
BoardFollows ==
  /\ phase = "connecting" /\ doubt # "former connection" => Version(board) = cursor.version
  /\ Following => Version(board) = cursor.version \/ Wired(attempt, 0)

PlayerInv ==
  /\ TypeOK
  /\ LinksFollow
  /\ HostTakesTurns
  /\ OnlyHostsStay
  /\ OnceSurrendered
  /\ OpenLinks
  /\ CursorCounts
  /\ LatestIsLast
  /\ AttemptsCount
  /\ CursorFollows
  /\ BoardFollows
=============================================================================
