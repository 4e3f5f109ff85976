----------------------------- MODULE PushProofs -----------------------------
(***************************************************************************)
(* Proofs about turn reminders, for any number of seats, workers, combats, *)
(* retries and events.                                                     *)
(*                                                                         *)
(* A transaction makes some row of what it loaded and saves what pruning   *)
(* leaves of it, so each action is shown to make a row that is Sound and   *)
(* Known to the workers, and one lemma about Pruned does the rest.         *)
(***************************************************************************)
EXTENDS PushOutbox, TLAPS

(* Types.                                                                  *)

\* Stages and choices are states of a combat.
LEMMA StageType ==
  /\ \A kind \in {"absent", "awaiting", "resolved"} : Stage(kind) \in Combat
  /\ NoCombats \in [CombatId -> Combat]
BY GroupsAssumption DEF Stage, Combat, NoCombats

\* Beginning a side's turn, or completing the game, makes a game.
LEMMA FinishType ==
  ASSUME NEW game \in Game
  PROVE  FinishSideTurn(game) \subseteq Game
<1>1. game.turn \in Nat /\ game.turn + 1 \in Nat
  BY DEF Game
<1>2. \A side \in Side, turn \in Nat : BeginTurn(side, turn) \in Game
  BY StageType DEF BeginTurn, Game
<1>3. Completed(game.turn) \in Game
  BY <1>1, StageType DEF Completed, Game
<1> QED
  BY <1>1, <1>2, <1>3 DEF FinishSideTurn, Side

\* endPhase makes a game.
LEMMA EndPhaseType ==
  ASSUME NEW game \in Game
  PROVE  EndPhase(game) \subseteq Game
<1>1. \A fights \in SUBSET CombatId :
        [game EXCEPT !.phase = "combat",
                     !.combats = [k \in CombatId |-> Stage(IF k \in fights THEN "awaiting" ELSE "absent")]] \in Game
  <2> SUFFICES ASSUME NEW fights \in SUBSET CombatId
               PROVE  [game EXCEPT !.phase = "combat",
                         !.combats = [k \in CombatId |-> Stage(IF k \in fights THEN "awaiting" ELSE "absent")]] \in Game
    OBVIOUS
  <2> DEFINE new == [k \in CombatId |-> Stage(IF k \in fights THEN "awaiting" ELSE "absent")]
  <2>1. new \in [CombatId -> Combat]
    BY StageType
  <2> HIDE DEF new
  <2>2. [game EXCEPT !.phase = "combat", !.combats = new] \in Game
    BY <2>1 DEF Game
  <2> QED
    BY <2>2 DEF new
<1> QED
  BY <1>1, FinishType DEF EndPhase

\* Whatever a command makes of a game is a game.
LEMMA OutcomesType ==
  ASSUME NEW game \in Game, NEW side
  PROVE  Outcomes(game, side) \subseteq Game
<1>1. \A k \in CombatId, next \in Combat : [game EXCEPT !.combats[k] = next] \in Game
  BY DEF Game
<1>2. Fight(game, side) \subseteq Game
  BY <1>1 DEF Fight, Unresolved
<1> QED
  BY <1>2, EndPhaseType DEF Outcomes

\* The decisions of a side are decisions.
LEMMA RequiredType ==
  ASSUME NEW game \in Game, NEW side
  PROVE  Required(game, side) \in SUBSET AnyDecision
<1>1. \A what \in {"movement", "end-combat"} : Decision("turn", what, game.turn) \in AnyDecision
  BY DEF Decision, AnyDecision, Game
<1>2. \A k \in Unresolved(game) : CombatDecision(game, k) \in AnyDecision
  <2> SUFFICES ASSUME NEW k \in Unresolved(game) PROVE CombatDecision(game, k) \in AnyDecision
    OBVIOUS
  <2>1. k \in CombatId /\ game.combats[k] \in Combat
    BY DEF Game, Unresolved
  <2>2. game.combats[k].kind \in {"awaiting", "loss", "retreat", "advance"}
    BY <2>1 DEF Combat, Unresolved
  <2>3. game.combats[k].left \in Nat
    BY <2>1, GroupsAssumption DEF Combat
  <2> QED
    BY <2>1, <2>2, <2>3 DEF CombatDecision, Decision, AnyDecision
<1> QED
  BY <1>1, <1>2 DEF Required

(* Pruning.                                                                *)

\* Pruning takes consents, reminders and receipts away and changes none.
LEMMA PrunedRow ==
  ASSUME NEW s \in Row
  PROVE  /\ Pruned(s) \in Row
         /\ Pruned(s).game = s.game
         /\ Pruned(s).sequence = s.sequence
         /\ Pruned(s).deleted = s.deleted
         /\ Pruned(s).seats = s.seats
         /\ \A b \in Binding :
              Pruned(s).consents[b] = IF KeptConsent(s, b) THEN s.consents[b] ELSE None
         /\ \A b \in Binding :
              Pruned(s).items[b] =
                IF s.items[b] # None /\ KeptItem(s, s.items[b]) THEN s.items[b] ELSE None
         /\ Pruned(s).receipts = {x \in s.receipts : KeptReceipt(s, x)}
<1> DEFINE consents == [b \in Binding |-> IF KeptConsent(s, b) THEN s.consents[b] ELSE None]
           items == [b \in Binding |->
                       IF s.items[b] # None /\ KeptItem(s, s.items[b]) THEN s.items[b] ELSE None]
           receipts == {x \in s.receipts : KeptReceipt(s, x)}
<1>1. consents \in [Binding -> Consent \cup {None}]
  BY DEF Row
<1>2. items \in [Binding -> Intent \cup {None}]
  BY DEF Row
<1>3. receipts \in SUBSET Intent
  BY DEF Row
<1>4. Pruned(s) = [s EXCEPT !.consents = consents, !.items = items, !.receipts = receipts]
  BY DEF Pruned
<1>5. \A b \in Binding : consents[b] = IF KeptConsent(s, b) THEN s.consents[b] ELSE None
  OBVIOUS
<1>6. \A b \in Binding :
        items[b] = IF s.items[b] # None /\ KeptItem(s, s.items[b]) THEN s.items[b] ELSE None
  OBVIOUS
<1>7. receipts = {x \in s.receipts : KeptReceipt(s, x)}
  OBVIOUS
<1> HIDE DEF consents, items, receipts
<1>8. /\ Pruned(s) \in Row
      /\ Pruned(s).game = s.game
      /\ Pruned(s).sequence = s.sequence
      /\ Pruned(s).deleted = s.deleted
      /\ Pruned(s).seats = s.seats
      /\ Pruned(s).consents = consents
      /\ Pruned(s).items = items
      /\ Pruned(s).receipts = receipts
  BY <1>1, <1>2, <1>3, <1>4 DEF Row
<1> QED
  BY <1>5, <1>6, <1>7, <1>8

\* What pruning leaves is sound.
LEMMA PrunedSound ==
  ASSUME NEW s \in Row, Sound(s, clock)
  PROVE  Sound(Pruned(s), clock)
<1>1. \A x : Made(s, x, clock) => Made(Pruned(s), x, clock)
  BY PrunedRow DEF Made
<1>2. \A b \in Binding : Pruned(s).items[b] # None => Pruned(s).items[b] = s.items[b]
  BY PrunedRow
<1>3. Pruned(s).receipts \subseteq s.receipts
  BY PrunedRow
<1> QED
  BY <1>1, <1>2, <1>3 DEF Sound

\* What pruning leaves is settled.
LEMMA PrunedSettled ==
  ASSUME NEW s \in Row, Sound(s, clock)
  PROVE  Settled(Pruned(s))
<1> SUFFICES ASSUME NEW b \in Binding
             PROVE  /\ Pruned(s).consents[b] # None =>
                         /\ Pruned(s).seats[b] = "active"
                         /\ ~Pruned(s).deleted
                         /\ Pruned(s).game.phase # "completed"
                    /\ Pruned(s).items[b] # None =>
                         /\ Pruned(s).consents[b] # None
                         /\ Pruned(s).consents[b].tag = Pruned(s).items[b].tag
                         /\ Pruned(s).items[b].expires <= Pruned(s).consents[b].expires
                         /\ Pruned(s).items[b].decision = Required(Pruned(s).game, SideOf[b])
  BY DEF Settled
<1>1. Pruned(s).consents[b] # None => KeptConsent(s, b)
  BY PrunedRow
<1>2. ASSUME Pruned(s).items[b] # None
      PROVE  /\ Pruned(s).items[b] = s.items[b]
             /\ s.items[b] # None
             /\ s.items[b].binding = b
             /\ KeptItem(s, s.items[b])
  BY <1>2, PrunedRow DEF Sound
<1>3. ASSUME Pruned(s).items[b] # None
      PROVE  /\ CurrentConsent(s, s.items[b])
             /\ StillRequired(s, s.items[b])
             /\ KeptConsent(s, b)
  BY <1>2, <1>3 DEF KeptItem, CurrentConsent
<1>4. ASSUME Pruned(s).items[b] # None
      PROVE  Pruned(s).consents[b] = s.consents[b] /\ s.consents[b] # None
  BY <1>3, <1>4, PrunedRow DEF KeptConsent
<1>5. Pruned(s).game = s.game /\ Pruned(s).seats = s.seats /\ Pruned(s).deleted = s.deleted
  BY PrunedRow
<1> QED
  BY <1>1, <1>2, <1>3, <1>4, <1>5 DEF KeptConsent, CurrentConsent, StillRequired

\* What a worker knows, it knows of the pruned row.
LEMMA PrunedKnown ==
  ASSUME NEW s \in Row, NEW x \in Intent, Known(s, x, clock), clock \in Nat
  PROVE  Known(Pruned(s), x, clock)
<1>1. Made(Pruned(s), x, clock)
  BY PrunedRow DEF Made, Known
<1>2. \A b \in Binding : Pruned(s).items[b] # None => Pruned(s).items[b] = s.items[b]
  BY PrunedRow
<1>3. Pruned(s).receipts \subseteq s.receipts
  BY PrunedRow
<1>4. ASSUME x.lease > clock,
             Pruned(s).consents[x.binding] # None,
             Pruned(s).consents[x.binding].tag = x.tag
      PROVE  /\ x.expires <= Pruned(s).consents[x.binding].expires
             /\ x \in Pruned(s).receipts
  <2>1. x.binding \in Binding /\ x.lease \in Nat /\ x.expires \in Nat
    BY DEF Intent
  <2>2. KeptConsent(s, x.binding) /\ Pruned(s).consents[x.binding] = s.consents[x.binding]
    BY <1>4, <2>1, PrunedRow
  <2>3. x.expires <= s.consents[x.binding].expires /\ x \in s.receipts
    BY <1>4, <2>2 DEF Known
  <2>4. x.expires > clock
    BY <1>4, <2>1 DEF Known, Made, Valid
  <2>5. CurrentConsent(s, x)
    BY <1>4, <2>2, <2>3 DEF CurrentConsent, Known, Made
  <2>6. KeptReceipt(s, x)
    BY <1>4, <2>4, <2>5 DEF KeptReceipt
  <2> QED
    BY <2>2, <2>3, <2>6, PrunedRow
<1> QED
  BY <1>1, <1>2, <1>3, <1>4 DEF Known

(* Transactions.                                                           *)

\* A row that only loses reminders, receipts and consents stays sound.
LEMMA SoundCarries ==
  ASSUME NEW l \in Row, NEW s \in Row, Sound(l, clock),
         s.sequence >= l.sequence,
         \A b \in Binding : s.items[b] # None => s.items[b] = l.items[b],
         s.receipts \subseteq l.receipts
  PROVE  Sound(s, clock)
<1>1. \A x \in Intent : Made(l, x, clock) => Made(s, x, clock)
  BY DEF Made, Row, Intent
<1>2. \A b \in Binding : l.items[b] # None => l.items[b] \in Intent
  BY DEF Row
<1>3. l.receipts \subseteq Intent
  BY DEF Row
<1> QED
  BY <1>1, <1>2, <1>3 DEF Sound

\* What a worker knows stays known while its own lease and consent are left
\* alone, or its consent is replaced.
LEMMA KnownCarries ==
  ASSUME NEW l \in Row, NEW s \in Row, NEW x \in Intent, Known(l, x, clock),
         s.sequence >= l.sequence,
         \A b \in Binding : (s.items[b] # None /\ SameReminder(s.items[b], x)) =>
           \/ s.items[b] = l.items[b]
           \/ x.attempts < s.items[b].attempts /\ x.lease <= clock,
         \A r \in s.receipts : r \in l.receipts \/ ~SameLease(r, x),
         x \in l.receipts => x \in s.receipts,
         \A b \in Binding : s.consents[b] # None =>
           s.consents[b] = l.consents[b] \/ s.consents[b].tag # x.tag
  PROVE  Known(s, x, clock)
<1>1. Made(s, x, clock)
  BY DEF Known, Made, Row, Intent
<1>2. x.binding \in Binding
  BY DEF Intent
<1> QED
  BY <1>1, <1>2 DEF Known

\* What a transaction loads is as sound and as well known as what it read.
LEMMA LoadedFacts ==
  ASSUME PushInv
  PROVE  /\ Loaded \in Row
         /\ Sound(Loaded, clock)
         /\ Settled(Loaded)
         /\ Loaded.game = row.game
         /\ Loaded.sequence = row.sequence
         /\ Loaded.seats = row.seats
         /\ Loaded.deleted = row.deleted
         /\ \A b \in Binding : Loaded.consents[b] # None =>
              Loaded.consents[b] = row.consents[b] /\ Loaded.consents[b].tag <= tags
         /\ \A w \in Worker : workers[w] # Idle =>
              workers[w].intent \in Intent /\ Known(Loaded, workers[w].intent, clock)
<1>1. row \in Row /\ clock \in Nat /\ Sound(row, clock)
  BY PushAssumption DEF PushInv, TypeOK
<1>2. ASSUME NEW w \in Worker, workers[w] # Idle
      PROVE  workers[w].intent \in Intent /\ Known(Loaded, workers[w].intent, clock)
  <2>1. workers[w].intent \in Intent
    BY <1>2 DEF PushInv, TypeOK, Activity
  <2>2. Known(row, workers[w].intent, clock)
    BY <1>2 DEF PushInv, WorkersKnow
  <2> QED
    BY <2>1, <2>2, <1>1, PrunedKnown DEF Loaded
<1>3. \A b \in Binding : Loaded.consents[b] # None =>
        Loaded.consents[b] = row.consents[b] /\ Loaded.consents[b].tag <= tags
  BY <1>1, PrunedRow DEF Loaded, PushInv, TagsAreDrawn
<1> QED
  BY <1>1, <1>2, <1>3, PrunedRow, PrunedSound, PrunedSettled DEF Loaded

\* A transaction that makes a sound row, known to the workers, saves one.
LEMMA Transaction ==
  ASSUME PushInv, NEW s \in Row, Sound(s, clock), row' = Pruned(s), UNCHANGED clock,
         tags' \in 0..MaxTag,
         workers' \in [Worker -> {Idle} \cup Activity],
         \A b \in Binding : s.consents[b] # None => s.consents[b].tag <= tags',
         \A w \in Worker : workers'[w] # Idle =>
           /\ Known(s, workers'[w].intent, clock)
           /\ workers'[w].intent.lease # 0
           /\ workers'[w].intent.tag <= tags'
           /\ workers'[w].opened = workers'[w].intent.tag,
         LeasesFollow'
  PROVE  PushInv'
<1>1. clock \in Nat /\ clock' = clock
  BY PushAssumption DEF PushInv, TypeOK
<1>2. TypeOK'
  BY PrunedRow DEF TypeOK, PushInv
<1>3. Sound(row', clock') /\ Settled(row')
  BY <1>1, PrunedSound, PrunedSettled
<1>4. TagsAreDrawn'
  BY PrunedRow DEF TagsAreDrawn
<1>5. WorkersKnow'
  <2> SUFFICES ASSUME NEW w \in Worker, workers'[w] # Idle
               PROVE  Known(row', workers'[w].intent, clock')
    BY DEF WorkersKnow
  <2>1. workers'[w].intent \in Intent
    BY DEF Activity
  <2> QED
    BY <1>1, <2>1, PrunedKnown
<1> QED
  BY <1>2, <1>3, <1>4, <1>5 DEF PushInv, Sound, Settled

\* The same for a transaction no worker takes part in.
LEMMA Undisturbed ==
  ASSUME PushInv, NEW s \in Row, Sound(s, clock), row' = Pruned(s), UNCHANGED <<clock, workers>>,
         tags' \in tags..MaxTag,
         \A b \in Binding : s.consents[b] # None => s.consents[b].tag <= tags',
         \A w \in Worker : workers[w] # Idle => Known(s, workers[w].intent, clock)
  PROVE  PushInv'
<1>1. tags \in Nat /\ tags' \in 0..MaxTag /\ tags' >= tags
  BY PushAssumption DEF PushInv, TypeOK
<1>2. workers' \in [Worker -> {Idle} \cup Activity]
  BY DEF PushInv, TypeOK
<1>3. \A w \in Worker : workers[w] # Idle => workers[w].intent.tag \in Nat
  BY DEF PushInv, TypeOK, Activity, Intent
<1>4. LeasesFollow'
  BY DEF PushInv, LeasesFollow
<1> QED
  BY <1>1, <1>2, <1>3, <1>4, Transaction DEF PushInv, WorkersKnow

(* Reminders that leave.                                                   *)

\* What pruning takes away for another reason than time.
LEMMA PrunedAway ==
  ASSUME NEW s \in Row, NEW b \in Binding, clock \in Nat,
         s.items[b] # None, s.items[b].binding = b, Made(s, s.items[b], clock),
         s.items[b].expires > clock, ~Exhausted(s.items[b]),
         (s.consents[b] # None /\ s.consents[b].tag = s.items[b].tag) =>
           s.items[b].expires <= s.consents[b].expires,
         Pruned(s).items[b] # s.items[b]
  PROVE  \/ Pruned(s).consents[b] = None
         \/ Pruned(s).consents[b].tag # s.items[b].tag
         \/ s.items[b].decision # Required(Pruned(s).game, SideOf[b])
<1>1. ~CurrentConsent(s, s.items[b]) \/ ~StillRequired(s, s.items[b])
  BY PrunedRow DEF KeptItem
<1>2. CASE ~StillRequired(s, s.items[b])
  BY <1>2, PrunedRow DEF StillRequired
<1>3. CASE ~CurrentConsent(s, s.items[b])
  BY <1>3, PrunedRow DEF CurrentConsent, Made, KeptConsent
<1> QED
  BY <1>1, <1>2, <1>3

\* Loading a snapshot takes away only what is over.
LEMMA LoadedAway ==
  ASSUME PushInv, NEW b \in Binding, row.items[b] # None, Loaded.items[b] # row.items[b]
  PROVE  row.items[b].expires <= clock \/ Exhausted(row.items[b])
<1> DEFINE x == row.items[b]
<1>1. row \in Row /\ clock \in Nat /\ Sound(row, clock) /\ Settled(row)
  BY PushAssumption DEF PushInv, TypeOK
<1>2. x \in Intent /\ x.binding = b /\ Made(row, x, clock)
  BY <1>1 DEF Sound, Row
<1>3. /\ row.consents[b] # None
      /\ row.consents[b].tag = x.tag
      /\ x.expires <= row.consents[b].expires
      /\ x.decision = Required(row.game, SideOf[b])
      /\ row.seats[b] = "active"
      /\ ~row.deleted
      /\ row.game.phase # "completed"
  BY <1>1 DEF Settled
<1>4. x.expires \in Nat /\ row.consents[b].expires \in Nat
  BY <1>1, <1>2, <1>3 DEF Row, Intent, Consent
<1>5. ~KeptItem(row, x)
  BY <1>1, PrunedRow DEF Loaded
<1> HIDE DEF x
<1>6. x.expires <= clock \/ Exhausted(x)
  BY <1>1, <1>2, <1>3, <1>4, <1>5 DEF KeptItem, CurrentConsent, KeptConsent, StillRequired, Made
<1> QED
  BY <1>6 DEF x

\* A reminder a transaction leaves alone is only lost with its consent, its
\* decision or its time.
LEMMA LeftAlone ==
  ASSUME PushInv, NEW s \in Row, row' = Pruned(s), NEW b \in Binding,
         s.sequence >= row.sequence,
         s.items[b] = Loaded.items[b],
         s.consents[b] # None =>
           s.consents[b] = Loaded.consents[b] \/ s.consents[b].tag > tags
  PROVE  LeavesByRight(b)
<1> DEFINE x == row.items[b]
<1> SUFFICES ASSUME x # None, row'.items[b] = None \/ ~SameReminder(x, row'.items[b]),
                    ~(x.expires <= clock), ~Exhausted(x)
             PROVE  \/ row'.consents[b] = None
                    \/ row'.consents[b].tag # x.tag
                    \/ x.decision # Required(row'.game, SideOf[b])
  BY DEF LeavesByRight
<1>1. row \in Row /\ clock \in Nat /\ tags \in Nat /\ Sound(row, clock) /\ Settled(Loaded)
  BY LoadedFacts, PushAssumption DEF PushInv, TypeOK
<1>2. Loaded.items[b] = x
  BY LoadedAway
<1>3. x \in Intent /\ x.binding = b /\ Made(row, x, clock)
  BY <1>1 DEF Sound, Row
<1>4. /\ Loaded.consents[b] # None
      /\ Loaded.consents[b].tag = x.tag
      /\ x.expires <= Loaded.consents[b].expires
      /\ x.tag <= tags
  BY <1>1, <1>2, LoadedFacts DEF Settled
<1>5. x.expires > clock /\ x.tag \in Nat
  BY <1>1, <1>3 DEF Intent
<1> HIDE DEF x
<1>6. Made(s, x, clock)
  BY <1>1, <1>3 DEF Made, Row, Intent
<1>7. row'.items[b] # x
  BY DEF SameReminder
<1>8. (s.consents[b] # None /\ s.consents[b].tag = x.tag) => x.expires <= s.consents[b].expires
  BY <1>1, <1>4, <1>5
<1> QED
  BY <1>1, <1>2, <1>3, <1>5, <1>6, <1>7, <1>8, PrunedAway

(* The steps.                                                              *)

\* A step that keeps the invariant and takes no reminder away wrongly.
GoodStep == PushInv' /\ \A b \in Binding : LeavesByRight(b)

\* Where the row stays, no reminder leaves it.
LEMMA RowStays ==
  ASSUME row' = row
  PROVE  \A b \in Binding : LeavesByRight(b)
BY DEF LeavesByRight, SameReminder

\* The clock ends leases and nothing else.
LEMMA TickStep ==
  ASSUME PushInv, Tick
  PROVE  GoodStep
<1>1. clock \in Nat /\ clock' \in 0..MaxTime /\ clock' > clock
  BY PushAssumption DEF PushInv, TypeOK, Tick
<1>2. row \in Row /\ row' = row /\ tags' = tags /\ workers' = workers
  BY DEF PushInv, TypeOK, Tick
<1>3. \A x \in Intent : Made(row, x, clock) => Made(row, x, clock')
  BY <1>1 DEF Made, Intent
<1>4. Sound(row', clock')
  <2>1. Sound(row, clock)
    BY DEF PushInv
  <2>2. \A b \in Binding : row.items[b] # None => row.items[b] \in Intent
    BY <1>2 DEF Row
  <2>3. row.receipts \subseteq Intent
    BY <1>2 DEF Row
  <2> QED
    BY <1>2, <1>3, <2>1, <2>2, <2>3 DEF Sound
<1>5. WorkersKnow'
  <2> SUFFICES ASSUME NEW w \in Worker, workers[w] # Idle
               PROVE  Known(row, workers[w].intent, clock')
    BY <1>2 DEF PushInv, WorkersKnow
  <2> DEFINE x == workers[w].intent
  <2>1. x \in Intent
    BY DEF PushInv, TypeOK, Activity
  <2>2. Known(row, x, clock)
    BY DEF PushInv, WorkersKnow
  <2>3. x.lease \in Nat
    BY <2>1 DEF Intent
  <2> HIDE DEF x
  <2>4. Known(row, x, clock')
    BY <1>1, <1>3, <2>1, <2>2, <2>3 DEF Known
  <2> QED
    BY <2>4 DEF x
<1>6. LeasesFollow'
  <2>1. \A w \in Worker : workers[w] # Idle => workers[w].intent.lease \in Nat
    BY DEF PushInv, TypeOK, Activity, Intent
  <2> QED
    BY <1>1, <1>2, <2>1 DEF PushInv, LeasesFollow
<1>7. PushInv'
  BY <1>1, <1>2, <1>4, <1>5, <1>6 DEF PushInv, TypeOK, Settled, TagsAreDrawn, Sound
<1> QED
  BY <1>2, <1>7, RowStays DEF GoodStep

\* A transaction on the game or its seats, which leaves the outbox to pruning.
LEMMA QuietStep ==
  ASSUME PushInv, NEW s \in Row, Save(s), UNCHANGED <<clock, tags, workers>>,
         s.sequence >= row.sequence,
         s.items = Loaded.items,
         s.receipts = Loaded.receipts,
         \A b \in Binding : s.consents[b] # None => s.consents[b] = Loaded.consents[b]
  PROVE  GoodStep
<1>1. tags' \in tags..MaxTag
  BY PushAssumption DEF PushInv, TypeOK
<1>2. Sound(s, clock)
  BY LoadedFacts, SoundCarries
<1>3. \A b \in Binding : s.consents[b] # None => s.consents[b].tag <= tags'
  BY LoadedFacts
<1>4. \A w \in Worker : workers[w] # Idle => Known(s, workers[w].intent, clock)
  BY LoadedFacts, KnownCarries
<1>5. \A b \in Binding : LeavesByRight(b)
  BY LeftAlone DEF Save
<1> QED
  BY <1>1, <1>2, <1>3, <1>4, <1>5, Undisturbed DEF Save, GoodStep

\* A seat is claimed.
LEMMA ClaimSeatStep ==
  ASSUME PushInv, NEW b \in Binding, ClaimSeat(b)
  PROVE  GoodStep
<1> DEFINE seats == [Loaded.seats EXCEPT ![b] = "active"]
           s == [Loaded EXCEPT !.seats = seats]
<1>1. Loaded \in Row /\ row.sequence = Loaded.sequence /\ row.sequence \in Nat
  BY LoadedFacts DEF Row
<1>2. seats \in [Binding -> {"new", "active", "revoked"}]
  BY <1>1 DEF Row
<1>3. Save(s) /\ UNCHANGED <<clock, tags, workers>>
  BY DEF ClaimSeat
<1> HIDE DEF seats
<1>4. /\ s \in Row
      /\ s.sequence = row.sequence
      /\ s.items = Loaded.items
      /\ s.receipts = Loaded.receipts
      /\ s.consents = Loaded.consents
  BY <1>1, <1>2 DEF Row
<1> HIDE DEF s
<1> QED
  BY <1>1, <1>3, <1>4, QuietStep

\* A seat is given up or recovered.
LEMMA SeatEvent ==
  ASSUME PushInv, NEW seats \in [Binding -> {"new", "active", "revoked"}],
         Save([Loaded EXCEPT !.seats = seats, !.sequence = row.sequence + 1]),
         UNCHANGED <<clock, tags, workers>>
  PROVE  GoodStep
<1> DEFINE n == row.sequence + 1
           s == [Loaded EXCEPT !.seats = seats, !.sequence = n]
<1>1. Loaded \in Row /\ row.sequence = Loaded.sequence /\ row.sequence \in Nat
  BY LoadedFacts DEF Row
<1>2. n \in Nat /\ n >= row.sequence
  BY <1>1
<1>3. Save(s)
  OBVIOUS
<1> HIDE DEF n
<1>4. /\ s \in Row
      /\ s.sequence = n
      /\ s.items = Loaded.items
      /\ s.receipts = Loaded.receipts
      /\ s.consents = Loaded.consents
  BY <1>1, <1>2 DEF Row
<1> HIDE DEF s
<1> QED
  BY <1>1, <1>2, <1>3, <1>4, QuietStep

\* A seat is surrendered.
LEMMA SurrenderStep ==
  ASSUME PushInv, NEW b \in Binding, Surrender(b)
  PROVE  GoodStep
<1> DEFINE seats == [Loaded.seats EXCEPT ![b] = "revoked"]
<1>1. seats \in [Binding -> {"new", "active", "revoked"}]
  BY LoadedFacts DEF Row
<1>2. /\ Save([Loaded EXCEPT !.seats = seats, !.sequence = row.sequence + 1])
      /\ UNCHANGED <<clock, tags, workers>>
  BY DEF Surrender
<1> HIDE DEF seats
<1> QED
  BY <1>1, <1>2, SeatEvent

\* A seat is recovered by another binding.
LEMMA RecoverStep ==
  ASSUME PushInv, NEW old \in Binding, NEW b \in Binding, RecoverSeat(old, b)
  PROVE  GoodStep
<1> DEFINE seats == [[Loaded.seats EXCEPT ![old] = "revoked"] EXCEPT ![b] = "active"]
<1>1. seats \in [Binding -> {"new", "active", "revoked"}]
  BY LoadedFacts DEF Row
<1>2. [Loaded EXCEPT !.seats[old] = "revoked", !.seats[b] = "active", !.sequence = row.sequence + 1]
      = [Loaded EXCEPT !.seats = seats, !.sequence = row.sequence + 1]
  BY LoadedFacts DEF Row
<1>3. /\ Save([Loaded EXCEPT !.seats = seats, !.sequence = row.sequence + 1])
      /\ UNCHANGED <<clock, tags, workers>>
  BY <1>2 DEF RecoverSeat
<1> HIDE DEF seats
<1> QED
  BY <1>1, <1>3, SeatEvent

\* An event of the host's.
LEMMA ManageStep ==
  ASSUME PushInv, Manage
  PROVE  GoodStep
<1> DEFINE s == [Loaded EXCEPT !.sequence = row.sequence + 1]
<1>1. Loaded \in Row /\ Loaded.sequence = row.sequence /\ row.sequence \in Nat
  BY LoadedFacts DEF Row
<1>2. /\ s \in Row
      /\ s.sequence = row.sequence + 1
      /\ s.items = Loaded.items
      /\ s.receipts = Loaded.receipts
      /\ s.consents = Loaded.consents
  BY <1>1 DEF Row
<1>3. Save(s) /\ UNCHANGED <<clock, tags, workers>>
  BY DEF Manage
<1> HIDE DEF s
<1> QED
  BY <1>1, <1>2, <1>3, QuietStep

\* The game is deleted.
LEMMA DeleteStep ==
  ASSUME PushInv, DeleteGame
  PROVE  GoodStep
<1> DEFINE seats == [b \in Binding |-> IF row.seats[b] = "active" THEN "revoked" ELSE row.seats[b]]
           n == row.sequence + 1
           gone == TRUE
           s == [Loaded EXCEPT !.deleted = gone, !.sequence = n, !.seats = seats]
<1>1. Loaded \in Row /\ row \in Row /\ row.sequence \in Nat
  BY LoadedFacts DEF PushInv, TypeOK, Row
<1>2. seats \in [Binding -> {"new", "active", "revoked"}]
  BY <1>1 DEF Row
<1>3. n \in Nat /\ n >= row.sequence /\ gone \in BOOLEAN
  BY <1>1
<1>4. Save(s) /\ UNCHANGED <<clock, tags, workers>>
  BY DEF DeleteGame
<1> HIDE DEF seats, n, gone
<1>5. /\ s \in Row
      /\ s.sequence = n
      /\ s.items = Loaded.items
      /\ s.receipts = Loaded.receipts
      /\ s.consents = Loaded.consents
  BY <1>1, <1>2, <1>3 DEF Row
<1> HIDE DEF s
<1> QED
  BY <1>1, <1>3, <1>4, <1>5, QuietStep

\* A consent is withdrawn.
LEMMA UnsubscribeStep ==
  ASSUME PushInv, NEW b \in Binding, Unsubscribe(b)
  PROVE  GoodStep
<1> DEFINE consents == [Loaded.consents EXCEPT ![b] = None]
           s == [Loaded EXCEPT !.consents = consents]
<1>1. Loaded \in Row /\ row.sequence = Loaded.sequence /\ row.sequence \in Nat
  BY LoadedFacts DEF Row
<1>2. consents \in [Binding -> Consent \cup {None}]
  BY <1>1 DEF Row
<1>3. \A c \in Binding : consents[c] # None => consents[c] = Loaded.consents[c]
  BY <1>1 DEF Row
<1>4. Save(s) /\ UNCHANGED <<clock, tags, workers>>
  BY DEF Unsubscribe
<1> HIDE DEF consents
<1>5. /\ s \in Row
      /\ s.sequence = row.sequence
      /\ s.items = Loaded.items
      /\ s.receipts = Loaded.receipts
      /\ s.consents = consents
  BY <1>1, <1>2 DEF Row
<1> HIDE DEF s
<1> QED
  BY <1>1, <1>3, <1>4, <1>5, QuietStep

\* A new consent is known by a tag nobody holds.
LEMMA SubscribeStep ==
  ASSUME PushInv, NEW b \in Binding, Subscribe(b)
  PROVE  GoodStep
<1>1. /\ Loaded \in Row /\ row.sequence = Loaded.sequence /\ row.sequence \in Nat
      /\ clock \in Nat /\ tags \in Nat /\ tags + 1 <= MaxTag /\ MaxTag \in Nat
  BY LoadedFacts, PushAssumption DEF PushInv, TypeOK, Row, Subscribe
<1>2. PICK span \in Spans :
        Save([Loaded EXCEPT !.consents[b] = [tag |-> tags + 1, expires |-> clock + span]])
  BY DEF Subscribe
<1> DEFINE new == [tag |-> tags + 1, expires |-> clock + span]
           consents == [Loaded.consents EXCEPT ![b] = new]
           s == [Loaded EXCEPT !.consents = consents]
<1>3. new \in Consent /\ new.tag = tags + 1
  BY <1>1, PushAssumption DEF Consent
<1> HIDE DEF new
<1>4. consents \in [Binding -> Consent \cup {None}]
  BY <1>1, <1>3 DEF Row
<1>5. \A c \in Binding : consents[c] = IF c = b THEN new ELSE Loaded.consents[c]
  BY <1>1 DEF Row
<1>6. row' = Pruned(s)
  BY <1>2 DEF Save, new
<1> HIDE DEF consents
<1>7. /\ s \in Row
      /\ s.sequence = row.sequence
      /\ s.items = Loaded.items
      /\ s.receipts = Loaded.receipts
      /\ s.consents = consents
  BY <1>1, <1>4 DEF Row
<1> HIDE DEF s
<1>8. tags' = tags + 1 /\ UNCHANGED <<clock, workers>>
  BY DEF Subscribe
<1>9. Sound(s, clock)
  BY <1>1, <1>7, LoadedFacts, SoundCarries
<1>10. \A c \in Binding : s.consents[c] # None => s.consents[c].tag <= tags'
  <2>1. \A c \in Binding : Loaded.consents[c] # None => Loaded.consents[c].tag \in Nat
    BY <1>1 DEF Row, Consent
  <2> QED
    BY <1>1, <1>3, <1>5, <1>7, <1>8, <2>1, LoadedFacts
<1>11. ASSUME NEW w \in Worker, workers[w] # Idle
       PROVE  Known(s, workers[w].intent, clock)
  <2> DEFINE x == workers[w].intent
  <2>1. x \in Intent /\ Known(Loaded, x, clock) /\ x.tag <= tags /\ x.tag \in Nat
    BY <1>11, LoadedFacts DEF PushInv, WorkersKnow, Intent
  <2> HIDE DEF x
  <2>2. \A c \in Binding : s.consents[c] # None =>
          s.consents[c] = Loaded.consents[c] \/ s.consents[c].tag # x.tag
    BY <1>1, <1>3, <1>5, <1>7, <2>1
  <2>3. Known(s, x, clock)
    BY <1>1, <1>7, <2>1, <2>2, KnownCarries
  <2> QED
    BY <2>3 DEF x
<1>12. \A c \in Binding : LeavesByRight(c)
  <2>1. \A c \in Binding : s.consents[c] # None =>
          s.consents[c] = Loaded.consents[c] \/ s.consents[c].tag > tags
    BY <1>1, <1>3, <1>5, <1>7
  <2> QED
    BY <2>1, <1>1, <1>6, <1>7, LeftAlone
<1> QED
  BY <1>1, <1>6, <1>7, <1>8, <1>9, <1>10, <1>11, <1>12, Undisturbed DEF GoodStep

\* What enqueue leaves for a player: what was there, or a reminder of this event.
LEMMA EnqueuedFacts ==
  ASSUME NEW s \in Row, NEW b \in Binding, clock \in Nat, s.sequence > 0,
         s.consents[b] # None, Required(s.game, SideOf[b]) # {},
         Enqueued(s, b) # s.items[b]
  PROVE  /\ Enqueued(s, b) \in Intent
         /\ Enqueued(s, b).binding = b
         /\ Enqueued(s, b).event = s.sequence
         /\ Enqueued(s, b).tag = s.consents[b].tag
         /\ Enqueued(s, b).decision = Required(s.game, SideOf[b])
         /\ Enqueued(s, b).expires > clock
         /\ Enqueued(s, b).expires <= s.consents[b].expires
         /\ Enqueued(s, b).attempts = 0
         /\ Made(s, Enqueued(s, b), clock)
<1> DEFINE consent == s.consents[b]
           decision == Required(s.game, SideOf[b])
           expires == Min2(clock + Lifetime, consent.expires)
           x == [binding |-> b, event |-> s.sequence, tag |-> consent.tag, decision |-> decision,
                 created |-> clock, expires |-> expires, attempts |-> 0, next |-> clock, lease |-> 0]
<1>1. consent \in Consent /\ s.sequence \in Nat /\ s.game \in Game
  BY DEF Row
<1>2. consent.tag \in Nat /\ consent.expires \in Nat
  BY <1>1 DEF Consent
<1>3. Enqueued(s, b) = x /\ ~(consent.expires <= clock)
  BY DEF Enqueued
<1>4. expires \in Nat /\ expires > clock /\ expires <= clock + Lifetime /\ expires <= consent.expires
  BY <1>2, <1>3, PushAssumption DEF Min2
<1>5. decision \in SUBSET AnyDecision
  BY <1>1, RequiredType
<1>6. MaxAttempts \in Nat
  BY PushAssumption DEF MaxAttempts
<1> HIDE DEF consent, decision, expires
<1>7. x \in Intent
  BY <1>1, <1>2, <1>4, <1>5 DEF Intent
<1>8. Valid(x)
  BY <1>4, <1>6 DEF Valid
<1>9. Made(s, x, clock)
  BY <1>1, <1>8 DEF Made
<1> QED
  BY <1>3, <1>4, <1>7, <1>9 DEF decision, consent

\* A command reminds players of decisions they owe, under an event of its own.
LEMMA CommandStep ==
  ASSUME PushInv, NEW actor \in Binding, Command(actor)
  PROVE  GoodStep
<1>1. /\ Loaded \in Row
      /\ Loaded.sequence = row.sequence
      /\ row.sequence \in Nat
      /\ row.game \in Game
      /\ clock \in Nat
      /\ tags' \in tags..MaxTag
  BY LoadedFacts, PushAssumption DEF PushInv, TypeOK, Row, Command
<1>2. PICK game \in Outcomes(row.game, SideOf[actor]) :
        LET played == Pruned([Loaded EXCEPT !.game = game, !.sequence = row.sequence + 1])
            told == {b \in Binding : /\ SideOf[b] \in Reminded(row.game, game, SideOf[actor])
                                     /\ played.seats[b] = "active"
                                     /\ played.consents[b] # None}
        IN Save([played EXCEPT !.items = [b \in Binding |->
                   IF b \in told THEN Enqueued(played, b) ELSE played.items[b]]])
  BY DEF Command
<1> DEFINE n == row.sequence + 1
           first == [Loaded EXCEPT !.game = game, !.sequence = n]
           played == Pruned(first)
           told == {b \in Binding : /\ SideOf[b] \in Reminded(row.game, game, SideOf[actor])
                                    /\ played.seats[b] = "active"
                                    /\ played.consents[b] # None}
           items == [b \in Binding |-> IF b \in told THEN Enqueued(played, b) ELSE played.items[b]]
           s == [played EXCEPT !.items = items]
<1>3. row' = Pruned(s)
  BY <1>2 DEF Save
<1>4. game \in Game /\ n \in Nat /\ n = row.sequence + 1
  BY <1>1, OutcomesType
<1>5. \A b \in told : Required(game, SideOf[b]) # {}
  BY DEF Reminded
<1> HIDE DEF n
<1>6. /\ first \in Row
      /\ first.game = game
      /\ first.sequence = n
      /\ first.items = Loaded.items
      /\ first.receipts = Loaded.receipts
      /\ first.consents = Loaded.consents
  BY <1>1, <1>4 DEF Row
<1> HIDE DEF first
<1>7. Sound(first, clock)
  BY <1>1, <1>4, <1>6, LoadedFacts, SoundCarries
<1>8. /\ played \in Row
      /\ played.game = game
      /\ played.sequence = n
      /\ played = Pruned(first)
      /\ Sound(played, clock)
      /\ played.receipts \subseteq Loaded.receipts
      /\ \A b \in Binding : played.consents[b] # None => played.consents[b] = Loaded.consents[b]
  BY <1>6, <1>7, PrunedRow, PrunedSound
<1> HIDE DEF played
<1>9. ASSUME NEW b \in Binding, items[b] # played.items[b]
      PROVE  /\ items[b] \in Intent
             /\ items[b].binding = b
             /\ items[b].event = n
             /\ items[b].tag = played.consents[b].tag
             /\ items[b].decision = Required(game, SideOf[b])
             /\ items[b].decision # {}
             /\ played.consents[b] # None
             /\ items[b].expires > clock
             /\ items[b].expires <= played.consents[b].expires
             /\ items[b].attempts = 0
             /\ Made(played, items[b], clock)
  <2>1. b \in told /\ items[b] = Enqueued(played, b)
    BY <1>9
  <2>2. played.consents[b] # None /\ Required(played.game, SideOf[b]) # {}
    BY <2>1, <1>5, <1>8
  <2>3. played.sequence > 0
    BY <1>1, <1>4, <1>8
  <2> HIDE DEF items
  <2> QED
    BY <1>1, <1>8, <1>9, <2>1, <2>2, <2>3, EnqueuedFacts
<1>10. items \in [Binding -> Intent \cup {None}]
  <2>1. \A b \in Binding : items[b] \in Intent \cup {None}
    BY <1>8, <1>9 DEF Row
  <2> QED
    BY <2>1
<1> HIDE DEF items
<1>11. /\ s \in Row
       /\ s.game = game
       /\ s.sequence = n
       /\ s.items = items
       /\ s.receipts = played.receipts
       /\ s.consents = played.consents
  BY <1>8, <1>10 DEF Row
<1> HIDE DEF s
<1>12. \A x : Made(played, x, clock) => Made(s, x, clock)
  BY <1>8, <1>11 DEF Made
<1>13. \A r \in s.receipts : r.event < n
  <2>1. \A r \in Loaded.receipts : r \in Intent /\ r.event <= Loaded.sequence
    BY <1>1, LoadedFacts DEF Sound, Made, Row
  <2> QED
    BY <1>1, <1>4, <1>8, <1>11, <2>1 DEF Intent
<1>14. Sound(s, clock)
  <2>1. ASSUME NEW b \in Binding, s.items[b] # None
        PROVE  /\ s.items[b].binding = b
               /\ Made(s, s.items[b], clock)
               /\ s.items[b].decision # {}
    BY <2>1, <1>8, <1>9, <1>11, <1>12 DEF Sound
  <2>2. \A r \in s.receipts : Made(s, r, clock) /\ r.lease # 0
    BY <1>8, <1>11, <1>12 DEF Sound
  <2>3. ASSUME NEW b \in Binding, NEW r \in s.receipts,
               s.items[b] # None, SameReminder(s.items[b], r)
        PROVE  r.attempts <= s.items[b].attempts
    <3>1. s.items[b].event = r.event /\ r.event < n /\ n \in Nat
      BY <2>3, <1>4, <1>13 DEF SameReminder
    <3>2. s.items[b] = played.items[b]
      BY <3>1, <1>9, <1>11
    <3> QED
      BY <2>3, <3>2, <1>8, <1>11 DEF Sound
  <2> QED
    BY <2>1, <2>2, <2>3, <1>8, <1>11 DEF Sound
<1>15. \A b \in Binding : s.consents[b] # None => s.consents[b].tag <= tags'
  <2>1. tags' = tags
    BY DEF Command
  <2> QED
    BY <1>8, <1>11, <2>1, LoadedFacts
<1>16. ASSUME NEW w \in Worker, workers[w] # Idle
       PROVE  Known(s, workers[w].intent, clock)
  <2> DEFINE x == workers[w].intent
  <2>1. x \in Intent /\ Known(Loaded, x, clock)
    BY <1>16, LoadedFacts
  <2>2. x.event # n
    BY <1>1, <1>4, <2>1 DEF Known, Made, Intent
  <2> HIDE DEF x
  <2>3. Known(first, x, clock)
    BY <1>1, <1>4, <1>6, <2>1, KnownCarries
  <2>4. Known(played, x, clock)
    BY <1>1, <1>6, <1>8, <2>1, <2>3, PrunedKnown
  <2>5. \A b \in Binding : (s.items[b] # None /\ SameReminder(s.items[b], x)) =>
          s.items[b] = played.items[b]
    BY <1>9, <1>11, <2>2 DEF SameReminder
  <2>6. Known(s, x, clock)
    BY <1>4, <1>8, <1>11, <2>1, <2>4, <2>5, KnownCarries
  <2> QED
    BY <2>6 DEF x
<1>17. UNCHANGED <<clock, workers>>
  BY DEF Command
<1>18. PushInv'
  BY <1>1, <1>3, <1>11, <1>14, <1>15, <1>16, <1>17, Undisturbed
<1>19. ASSUME NEW b \in Binding
       PROVE  LeavesByRight(b)
  <2> DEFINE x == row.items[b]
  <2> SUFFICES ASSUME x # None, row'.items[b] = None \/ ~SameReminder(x, row'.items[b]),
                      ~(x.expires <= clock), ~Exhausted(x),
                      ~(row'.items[b] # None /\ row'.items[b].event > x.event)
               PROVE  \/ row'.consents[b] = None
                      \/ row'.consents[b].tag # x.tag
                      \/ x.decision # Required(row'.game, SideOf[b])
    BY DEF LeavesByRight
  <2>1. Loaded.items[b] = x
    BY LoadedAway
  <2>2. x \in Intent /\ x.binding = b /\ Made(Loaded, x, clock) /\ x.expires > clock
    BY <1>1, <2>1, LoadedFacts DEF Sound, Row, Intent
  <2>3. /\ Loaded.consents[b] # None
        /\ Loaded.consents[b].tag = x.tag
        /\ x.expires <= Loaded.consents[b].expires
    BY <2>1, LoadedFacts DEF Settled
  <2>4. x.event < n
    BY <1>1, <1>4, <2>2 DEF Made, Intent
  <2> HIDE DEF x
  <2>5. /\ row'.game = game
        /\ row'.consents[b] = None \/ row'.consents[b] = played.consents[b]
    BY <1>3, <1>8, <1>11, PrunedRow
  <2>6. CASE played.items[b] # x
    <3>1. Made(first, x, clock)
      BY <1>1, <1>4, <1>6, <2>2 DEF Made, Intent
    <3>2. \/ played.consents[b] = None
          \/ played.consents[b].tag # x.tag
          \/ x.decision # Required(game, SideOf[b])
      BY <1>1, <1>6, <1>8, <2>1, <2>2, <2>3, <2>6, <3>1, PrunedAway
    <3> QED
      BY <2>5, <3>2
  <2>7. CASE played.items[b] = x /\ items[b] = x
    <3>1. row'.items[b] # x
      BY DEF SameReminder
    <3>2. Made(s, x, clock) /\ s.items[b] = x
      BY <1>1, <1>4, <1>11, <2>2, <2>7 DEF Made, Intent
    <3>3. s.consents[b] # None => x.expires <= s.consents[b].expires
      BY <1>8, <1>11, <2>3
    <3> QED
      BY <1>1, <1>3, <1>11, <2>2, <3>1, <3>2, <3>3, PrunedAway
  <2>8. CASE played.items[b] = x /\ items[b] # x
    <3> DEFINE y == s.items[b]
    <3>1. /\ y \in Intent
          /\ y # None
          /\ y.binding = b
          /\ y.event = n
          /\ y.tag = s.consents[b].tag
          /\ y.expires > clock
          /\ y.expires <= s.consents[b].expires
          /\ y.attempts = 0
          /\ Made(s, y, clock)
      BY <1>9, <1>11, <1>12, <2>8, NoneAssumption
    <3>2. y.decision = Required(s.game, SideOf[b]) /\ s.consents[b] # None
      BY <1>9, <1>11, <2>8
    <3>3. row'.items[b] # y
      BY <1>4, <2>4, <3>1
    <3>4. ~Exhausted(y)
      <4>1. MaxAttempts \in Nat /\ MaxAttempts > 0
        BY PushAssumption DEF MaxAttempts
      <4> QED
        BY <3>1, <4>1 DEF Exhausted
    <3>5. row'.consents[b] = None
      BY <1>1, <1>3, <1>11, <3>1, <3>2, <3>3, <3>4, PrunedAway, PrunedRow
    <3> QED
      BY <3>5
  <2> QED
    BY <2>6, <2>7, <2>8 DEF x
<1> QED
  BY <1>18, <1>19 DEF GoodStep

\* What a claim leaves: the next attempt, under a lease that has begun.
LEMMA ClaimedFacts ==
  ASSUME NEW s \in Row, NEW b \in Binding, clock \in Nat, Sound(s, clock), Due(s, b)
  PROVE  /\ s.items[b] \in Intent
         /\ Claimed(s.items[b]) \in Intent
         /\ Made(s, Claimed(s.items[b]), clock)
         /\ Claimed(s.items[b]).lease > clock
         /\ Claimed(s.items[b]).attempts = s.items[b].attempts + 1
         /\ Claimed(s.items[b]).binding = b
         /\ Claimed(s.items[b]).event = s.items[b].event
         /\ Claimed(s.items[b]).tag = s.items[b].tag
         /\ Claimed(s.items[b]).expires = s.items[b].expires
         /\ Claimed(s.items[b]).decision = s.items[b].decision
<1> DEFINE item == s.items[b]
           lease == LeaseEnd(item)
           attempts == item.attempts + 1
<1>1. item # None /\ item \in Intent
  BY DEF Due, Row
<1>2. item.binding = b /\ Made(s, item, clock)
  BY <1>1 DEF Sound
<1>3. item.expires \in Nat /\ item.expires > clock
  BY <1>1 DEF Due, Intent
<1>4. lease \in Nat /\ lease > clock /\ lease <= item.expires
  BY <1>3, PushAssumption DEF LeaseEnd, Min2
<1>5. attempts \in Nat /\ attempts > 0 /\ attempts <= MaxAttempts
  <2>1. MaxAttempts \in Nat
    BY PushAssumption DEF MaxAttempts
  <2>2. item.attempts \in Nat
    BY <1>1 DEF Intent
  <2>3. item.attempts < MaxAttempts
    BY DEF Due
  <2> QED
    BY <2>1, <2>2, <2>3
<1>6. Claimed(item) = [item EXCEPT !.attempts = attempts, !.lease = lease]
  BY DEF Claimed
<1> HIDE DEF item, lease, attempts
<1> DEFINE claimed == [item EXCEPT !.attempts = attempts, !.lease = lease]
<1>7. /\ claimed \in Intent
      /\ claimed.attempts = attempts
      /\ claimed.lease = lease
      /\ claimed.binding = item.binding
      /\ claimed.event = item.event
      /\ claimed.tag = item.tag
      /\ claimed.decision = item.decision
      /\ claimed.created = item.created
      /\ claimed.expires = item.expires
      /\ claimed.next = item.next
  BY <1>1, <1>4, <1>5 DEF Intent
<1> HIDE DEF claimed
<1>8. lease >= item.created
  BY <1>1, <1>2, <1>4 DEF Made, Intent
<1>9. Made(s, claimed, clock)
  <2>1. item.created \in Nat /\ item.next \in Nat /\ item.event \in Nat
    BY <1>1 DEF Intent
  <2>2. Valid(claimed)
    BY <2>1, <1>2, <1>4, <1>5, <1>7, <1>8 DEF Made, Valid
  <2> QED
    BY <2>2, <1>2, <1>7 DEF Made
<1>10. Claimed(item) = claimed
  BY <1>6 DEF claimed
<1> QED
  BY <1>1, <1>2, <1>4, <1>7, <1>9, <1>10 DEF item, attempts

\* A claim leases a reminder that no worker's lease still holds.
LEMMA ClaimStep ==
  ASSUME PushInv, NEW w \in Worker, NEW b \in Binding, Claim(w, b)
  PROVE  GoodStep
<1> DEFINE l == Loaded
           item == l.items[b]
           claimed == Claimed(item)
           held == [at |-> "holding", intent |-> claimed, opened |-> l.consents[b].tag, outcome |-> "none"]
           items == [l.items EXCEPT ![b] = claimed]
           receipts == l.receipts \cup {claimed}
           s == [l EXCEPT !.items = items, !.receipts = receipts]
<1>1. /\ workers[w] = Idle
      /\ Due(l, b)
      /\ row' = Pruned(s)
      /\ workers' = [workers EXCEPT ![w] = held]
      /\ UNCHANGED <<clock, tags>>
  BY DEF Claim, Save
<1>2. l \in Row /\ Sound(l, clock) /\ Settled(l) /\ clock \in Nat /\ tags \in 0..MaxTag
  BY LoadedFacts, PushAssumption DEF PushInv, TypeOK
<1>3. \A v \in Worker : workers[v] # Idle =>
        /\ workers[v].intent \in Intent
        /\ Known(l, workers[v].intent, clock)
        /\ workers[v].intent.lease # 0
        /\ workers[v].intent.tag <= tags
        /\ workers[v].opened = workers[v].intent.tag
  BY LoadedFacts DEF PushInv, WorkersKnow
<1>4. \A c \in Binding : l.consents[c] # None => l.consents[c].tag <= tags
  BY LoadedFacts
<1> HIDE DEF l
<1>5. /\ item \in Intent
      /\ claimed \in Intent
      /\ Made(l, claimed, clock)
      /\ claimed.lease > clock
      /\ claimed.attempts = item.attempts + 1
      /\ claimed.binding = b
      /\ claimed.event = item.event
      /\ claimed.tag = item.tag
      /\ claimed.expires = item.expires
      /\ claimed.decision = item.decision
  BY <1>1, <1>2, ClaimedFacts
<1>6. item # None /\ item.binding = b /\ item.lease <= clock /\ item.decision # {}
  BY <1>1, <1>2 DEF Due, Sound
<1>7. /\ l.consents[b] # None
      /\ l.consents[b].tag = claimed.tag
      /\ claimed.expires <= l.consents[b].expires
      /\ claimed.tag <= tags
  BY <1>2, <1>4, <1>5, <1>6 DEF Settled
<1> HIDE DEF claimed, item
<1>8. \A c \in Binding : items[c] = IF c = b THEN claimed ELSE l.items[c]
  BY <1>2 DEF Row
<1>9. items \in [Binding -> Intent \cup {None}] /\ receipts \in SUBSET Intent
  BY <1>2, <1>5 DEF Row
<1>10. receipts = l.receipts \cup {claimed}
  OBVIOUS
<1> HIDE DEF items, receipts
<1>11. /\ s \in Row
       /\ s.sequence = l.sequence
       /\ s.items = items
       /\ s.receipts = receipts
       /\ s.consents = l.consents
  BY <1>2, <1>9 DEF Row
<1> HIDE DEF s
<1>12. \A x : Made(l, x, clock) => Made(s, x, clock)
  BY <1>11 DEF Made
<1>13. \A r \in l.receipts : SameReminder(claimed, r) => r.attempts < claimed.attempts
  <2> SUFFICES ASSUME NEW r \in l.receipts, SameReminder(claimed, r)
               PROVE  r.attempts < claimed.attempts
    OBVIOUS
  <2>1. r.attempts \in Nat /\ item.attempts \in Nat
    BY <1>2, <1>5 DEF Row, Intent
  <2>2. SameReminder(l.items[b], r)
    BY <1>5, <1>6 DEF SameReminder, item
  <2>3. r.attempts <= item.attempts
    BY <1>2, <1>6, <2>2 DEF Sound, item
  <2> QED
    BY <1>5, <2>1, <2>3
<1>14. \A r \in l.receipts : ~SameLease(claimed, r) /\ ~SameLease(r, claimed)
  <2>1. \A r \in l.receipts : r.attempts \in Nat
    BY <1>2 DEF Row, Intent
  <2> QED
    BY <1>5, <1>13, <2>1 DEF SameLease, SameReminder, Intent
<1>15. Sound(s, clock)
  <2>1. ASSUME NEW c \in Binding, s.items[c] # None
        PROVE  s.items[c].binding = c /\ Made(s, s.items[c], clock) /\ s.items[c].decision # {}
    BY <2>1, <1>2, <1>5, <1>6, <1>8, <1>11, <1>12 DEF Sound
  <2>2. \A r \in s.receipts : Made(s, r, clock) /\ r.lease # 0
    BY <1>2, <1>5, <1>10, <1>11, <1>12 DEF Sound
  <2>3. \A r, q \in s.receipts : SameLease(r, q) => r = q
    BY <1>2, <1>10, <1>11, <1>14 DEF Sound
  <2>4. ASSUME NEW c \in Binding, NEW r \in s.receipts, s.items[c] # None, SameReminder(s.items[c], r)
        PROVE  r.attempts <= s.items[c].attempts
    <3>1. claimed.attempts \in Nat /\ \A q \in l.receipts : q.attempts \in Nat
      BY <1>2, <1>5 DEF Row, Intent
    <3>2. CASE c = b
      BY <2>4, <3>1, <3>2, <1>8, <1>10, <1>11, <1>13
    <3>3. CASE c # b
      <4>1. s.items[c] = l.items[c] /\ l.items[c].binding = c
        BY <2>4, <3>3, <1>2, <1>8, <1>11 DEF Sound
      <4>2. r # claimed
        BY <2>4, <3>3, <4>1, <1>5 DEF SameReminder
      <4> QED
        BY <2>4, <4>1, <4>2, <1>2, <1>10, <1>11 DEF Sound
    <3> QED
      BY <3>2, <3>3
  <2> QED
    BY <2>1, <2>2, <2>3, <2>4 DEF Sound
<1>16. ASSUME NEW v \in Worker, v # w, workers[v] # Idle
       PROVE  /\ Known(s, workers[v].intent, clock)
              /\ SameReminder(claimed, workers[v].intent) =>
                   /\ workers[v].intent.attempts < claimed.attempts
                   /\ workers[v].intent.lease <= clock
  <2> DEFINE y == workers[v].intent
  <2>1. y \in Intent /\ Known(l, y, clock) /\ y.lease # 0
    BY <1>3, <1>16
  <2> HIDE DEF y
  <2>2. y.attempts \in Nat /\ item.attempts \in Nat /\ claimed.attempts \in Nat
    BY <2>1, <1>5 DEF Intent
  <2>3. ASSUME SameReminder(claimed, y)
        PROVE  y.attempts < claimed.attempts /\ y.lease <= clock
    <3>1. SameReminder(item, y)
      BY <2>3, <1>5, <1>6 DEF SameReminder
    <3>2. item = y \/ (y.attempts < item.attempts /\ y.lease <= clock)
      BY <2>1, <3>1, <1>6 DEF Known, item
    <3> QED
      BY <3>2, <2>2, <1>5, <1>6
  <2>4. \A c \in Binding : (s.items[c] # None /\ SameReminder(s.items[c], y)) =>
          \/ s.items[c] = l.items[c]
          \/ y.attempts < s.items[c].attempts /\ y.lease <= clock
    BY <2>3, <1>8, <1>11
  <2>5. ~SameLease(claimed, y)
    BY <2>2, <2>3 DEF SameLease
  <2>6. Known(s, y, clock)
    <3>1. s.sequence >= l.sequence
      BY <1>2, <1>11 DEF Row
    <3> QED
      BY <2>1, <2>4, <2>5, <3>1, <1>2, <1>10, <1>11, KnownCarries
  <2> QED
    BY <2>3, <2>6 DEF y
<1>17. Known(s, claimed, clock)
  <2>1. \A c \in Binding : (s.items[c] # None /\ SameReminder(s.items[c], claimed)) =>
          s.items[c] = claimed
    BY <1>5, <1>8, <1>11, <1>15 DEF Sound, SameReminder
  <2>2. \A r \in s.receipts : SameLease(r, claimed) => r = claimed
    BY <1>10, <1>11, <1>14
  <2> QED
    BY <2>1, <2>2, <1>5, <1>7, <1>10, <1>11, <1>12 DEF Known
<1> HIDE DEF held
<1>18. /\ held \in Activity
       /\ held # Idle
       /\ held.intent = claimed
       /\ held.opened = claimed.tag
       /\ claimed.lease # 0
  <2>1. l.consents[b].tag \in Nat
    BY <1>5, <1>7 DEF Intent
  <2> QED
    BY <2>1, <1>2, <1>5, <1>7 DEF held, Activity, Idle
<1>19. workers' \in [Worker -> {Idle} \cup Activity]
  BY <1>1, <1>18 DEF PushInv, TypeOK
<1>20. \A v \in Worker : workers'[v] = IF v = w THEN held ELSE workers[v]
  BY <1>1 DEF PushInv, TypeOK
<1>21. ASSUME NEW v \in Worker, workers'[v] # Idle
       PROVE  /\ Known(s, workers'[v].intent, clock)
              /\ workers'[v].intent.lease # 0
              /\ workers'[v].intent.tag <= tags'
              /\ workers'[v].opened = workers'[v].intent.tag
  <2>1. CASE v = w
    BY <2>1, <1>1, <1>7, <1>17, <1>18, <1>20
  <2>2. CASE v # w
    BY <2>2, <1>1, <1>3, <1>16, <1>20, <1>21
  <2> QED
    BY <2>1, <2>2
<1>22. LeasesFollow'
  <2> SUFFICES ASSUME NEW u \in Worker, NEW v \in Worker, u # v,
                      workers'[u] # Idle, workers'[v] # Idle,
                      SameReminder(workers'[u].intent, workers'[v].intent)
               PROVE  \/ /\ workers'[u].intent.attempts < workers'[v].intent.attempts
                         /\ workers'[u].intent.lease <= clock'
                      \/ /\ workers'[v].intent.attempts < workers'[u].intent.attempts
                         /\ workers'[v].intent.lease <= clock'
    BY DEF LeasesFollow
  <2>1. CASE u = w
    BY <2>1, <1>1, <1>16, <1>18, <1>20
  <2>2. CASE v = w
    BY <2>2, <1>1, <1>16, <1>18, <1>20 DEF SameReminder
  <2>3. CASE u # w /\ v # w
    BY <2>3, <1>1, <1>20 DEF PushInv, LeasesFollow
  <2> QED
    BY <2>1, <2>2, <2>3
<1>23. \A c \in Binding : s.consents[c] # None => s.consents[c].tag <= tags'
  BY <1>1, <1>4, <1>11
<1>24. ASSUME NEW c \in Binding, c # b
       PROVE  LeavesByRight(c)
  <2>1. l.sequence >= row.sequence
    BY LoadedFacts DEF l, PushInv, TypeOK, Row
  <2>2. s.items[c] = Loaded.items[c] /\ s.consents[c] = Loaded.consents[c]
    BY <1>8, <1>11, <1>24 DEF l
  <2> QED
    BY <2>1, <2>2, <1>1, <1>11, LeftAlone
<1>25. LeavesByRight(b)
  <2> SUFFICES ASSUME row.items[b] # None,
                      row'.items[b] = None \/ ~SameReminder(row.items[b], row'.items[b])
               PROVE  \/ row.items[b].expires <= clock
                      \/ Exhausted(row.items[b])
                      \/ row'.consents[b] = None
                      \/ row'.consents[b].tag # row.items[b].tag
                      \/ row.items[b].decision # Required(row'.game, SideOf[b])
    BY DEF LeavesByRight
  <2>1. CASE item # row.items[b]
    BY <2>1, LoadedAway DEF item, l
  <2>2. CASE item = row.items[b]
    <3>1. s.items[b] = claimed /\ claimed # None /\ row.items[b].binding = b
      BY <2>2, <1>5, <1>6, <1>8, <1>11, NoneAssumption
    <3>2. Pruned(s).items[b] # claimed
      BY <2>2, <3>1, <1>1, <1>5 DEF SameReminder
    <3>3. claimed.expires > clock /\ ~Exhausted(claimed)
      BY <1>1, <1>2, <1>5 DEF Due, Exhausted, Intent, item
    <3>4. Made(s, claimed, clock) /\ claimed.expires <= s.consents[b].expires
      BY <1>5, <1>7, <1>11, <1>12
    <3>5. \/ row'.consents[b] = None
          \/ row'.consents[b].tag # claimed.tag
          \/ claimed.decision # Required(row'.game, SideOf[b])
      BY <3>1, <3>2, <3>3, <3>4, <1>1, <1>2, <1>5, <1>11, PrunedAway
    <3> QED
      BY <2>2, <3>5, <1>5
  <2> QED
    BY <2>1, <2>2
<1>26. PushInv'
  BY <1>1, <1>2, <1>11, <1>15, <1>19, <1>21, <1>22, <1>23, Transaction
<1> QED
  BY <1>24, <1>25, <1>26 DEF GoodStep

\* Asking for work when there is none prunes what is stored.
LEMMA PollStep ==
  ASSUME PushInv, NEW w \in Worker, Poll(w)
  PROVE  GoodStep
<1>1. row' = Loaded /\ row' \in Row /\ UNCHANGED <<clock, tags, workers>>
  BY LoadedFacts DEF Poll
<1>2. Sound(row', clock') /\ Settled(row')
  <2>1. Sound(Loaded, clock) /\ Settled(Loaded)
    BY LoadedFacts
  <2> QED
    BY <1>1, <2>1
<1>3. TypeOK' /\ TagsAreDrawn'
  BY <1>1, LoadedFacts DEF PushInv, TypeOK, TagsAreDrawn
<1>4. WorkersKnow'
  BY <1>1, LoadedFacts DEF PushInv, WorkersKnow
<1>5. LeasesFollow'
  BY <1>1 DEF PushInv, LeasesFollow
<1>6. \A b \in Binding : LeavesByRight(b)
  BY <1>1, LoadedAway DEF LeavesByRight, SameReminder
<1> QED
  BY <1>2, <1>3, <1>4, <1>5, <1>6 DEF PushInv, Sound, Settled, GoodStep

\* Talking to the provider changes what the worker does and nothing it holds.
LEMMA AdvanceStep ==
  ASSUME PushInv, NEW w \in Worker, Dispatch(w) \/ GiveUp(w) \/ Respond(w)
  PROVE  GoodStep
<1>1. PICK at \in {"waiting", "answered"}, outcome \in {"none", "sent", "gone", "retry"} :
        workers[w].at # "idle" /\ Advance(w, at, outcome)
  BY DEF Dispatch, GiveUp, Respond
<1>2. workers[w] \in Activity
  BY <1>1 DEF PushInv, TypeOK, Idle
<1> DEFINE next == [workers[w] EXCEPT !.at = at, !.outcome = outcome]
<1>3. /\ next \in Activity
      /\ next.intent = workers[w].intent
      /\ next.opened = workers[w].opened
  BY <1>1, <1>2 DEF Activity
<1>4. workers' = [workers EXCEPT ![w] = next] /\ UNCHANGED <<clock, row, tags>>
  BY <1>1 DEF Advance, PushInv, TypeOK
<1> HIDE DEF next
<1>5. \A v \in Worker : workers'[v] # Idle =>
        /\ workers[v] # Idle
        /\ workers'[v].intent = workers[v].intent
        /\ workers'[v].opened = workers[v].opened
  BY <1>2, <1>3, <1>4 DEF PushInv, TypeOK, Activity, Idle
<1>6. TypeOK'
  BY <1>3, <1>4 DEF PushInv, TypeOK
<1>7. WorkersKnow' /\ LeasesFollow'
  BY <1>4, <1>5 DEF PushInv, WorkersKnow, LeasesFollow
<1> QED
  BY <1>4, <1>6, <1>7, RowStays DEF PushInv, TagsAreDrawn, Sound, Settled, GoodStep

\* An interrupted worker forgets what it held.
LEMMA AbandonStep ==
  ASSUME PushInv, NEW w \in Worker, Abandon(w)
  PROVE  GoodStep
<1>1. workers' = [workers EXCEPT ![w] = Idle] /\ UNCHANGED <<clock, row, tags>>
  BY DEF Abandon, Freed
<1>2. \A v \in Worker : workers'[v] # Idle => workers'[v] = workers[v]
  BY <1>1 DEF PushInv, TypeOK
<1>3. TypeOK'
  BY <1>1 DEF PushInv, TypeOK
<1>4. WorkersKnow' /\ LeasesFollow'
  BY <1>1, <1>2 DEF PushInv, WorkersKnow, LeasesFollow
<1> QED
  BY <1>1, <1>3, <1>4, RowStays DEF PushInv, TagsAreDrawn, Sound, Settled, GoodStep

\* A reminder whose lease a worker still holds is the one the worker claimed.
LEMMA HeldIsClaimed ==
  ASSUME NEW s \in Row, NEW x \in Intent, clock \in Nat, Known(s, x, clock), Holds(s, x)
  PROVE  s.items[x.binding] = x
<1>1. x.binding \in Binding
  BY DEF Intent
<1>2. s.items[x.binding] # None /\ SameLease(s.items[x.binding], x)
  BY DEF Holds
<1>3. s.items[x.binding] = x \/ x.attempts < s.items[x.binding].attempts
  BY <1>1, <1>2 DEF Known, SameLease
<1>4. x.attempts \in Nat
  BY DEF Intent
<1> QED
  BY <1>2, <1>3, <1>4 DEF SameLease

\* What a finish leaves: a retry of the reminder if its lease was held, and its
\* receipt gone.
LEMMA FinishedFacts ==
  ASSUME NEW s \in Row, NEW x \in Intent, NEW outcome, clock \in Nat,
         Sound(s, clock), Known(s, x, clock)
  PROVE  LET done == Finished(s, x, outcome) IN
         /\ done \in Row
         /\ done.game = s.game
         /\ done.sequence = s.sequence
         /\ done.seats = s.seats
         /\ done.deleted = s.deleted
         /\ done.consents = s.consents
         /\ done.receipts = {r \in s.receipts : ~SameLease(r, x)}
         /\ \A b \in Binding : done.items[b] # s.items[b] =>
              /\ b = x.binding
              /\ s.items[b] # None
              /\ s.items[b] = x
              /\ x.lease > clock
              /\ done.items[b] # None =>
                   /\ done.items[b].binding = x.binding
                   /\ done.items[b].event = x.event
                   /\ done.items[b].attempts = x.attempts
                   /\ done.items[b].decision = x.decision
                   /\ done.items[b].tag = x.tag
                   /\ done.items[b].expires = x.expires
                   /\ Made(s, done.items[b], clock)
              /\ Retryable(x, outcome) => done.items[b] # None
              /\ SameLease(x, x)
<1> DEFINE b == x.binding
           item == s.items[b]
           later == clock + RetryDelays[x.attempts]
           retried == [x EXCEPT !.next = later, !.lease = 0]
           next == IF Holds(s, x) THEN (IF Retryable(x, outcome) THEN retried ELSE None) ELSE item
           items == [s.items EXCEPT ![b] = next]
           receipts == {r \in s.receipts : ~SameLease(r, x)}
           done == [s EXCEPT !.items = items, !.receipts = receipts]
<1>1. b \in Binding /\ item \in Intent \cup {None}
  BY DEF Row, Intent
<1>2. Holds(s, x) => item # None /\ item = x /\ x.lease > clock
  BY HeldIsClaimed DEF Holds
<1>3. Finished(s, x, outcome) = done
  <2>1. CASE Holds(s, x)
    <3>1. s.items[x.binding] = x
      BY <2>1, <1>2
    <3> QED
      BY <2>1, <3>1 DEF Finished
  <2>2. CASE ~Holds(s, x)
    BY <2>2 DEF Finished
  <2> QED
    BY <2>1, <2>2
<1>4. ASSUME Holds(s, x), Retryable(x, outcome)
      PROVE  /\ retried \in Intent
             /\ retried.binding = x.binding
             /\ retried.event = x.event
             /\ retried.attempts = x.attempts
             /\ retried.decision = x.decision
             /\ retried.tag = x.tag
             /\ retried.expires = x.expires
             /\ Made(s, retried, clock)
  <2>1. Made(s, x, clock) /\ x.lease # 0
    BY <1>2, <1>4 DEF Known, Holds, SameLease, Intent
  <2>2. x.attempts \in 1..Len(RetryDelays)
    BY <1>4, <2>1, PushAssumption DEF Made, Valid, Retryable, MaxAttempts, Intent
  <2>3. later \in Nat /\ later >= x.created
    <3>1. RetryDelays[x.attempts] \in Nat
      BY <2>2, PushAssumption
    <3>2. x.created \in Nat /\ x.created <= clock
      BY <2>1 DEF Made, Intent
    <3> QED
      BY <3>1, <3>2
  <2> HIDE DEF later
  <2>4. /\ retried \in Intent
        /\ retried.binding = x.binding
        /\ retried.event = x.event
        /\ retried.attempts = x.attempts
        /\ retried.decision = x.decision
        /\ retried.tag = x.tag
        /\ retried.created = x.created
        /\ retried.expires = x.expires
        /\ retried.next = later
        /\ retried.lease = 0
    BY <2>3 DEF Intent
  <2> HIDE DEF retried
  <2>5. Made(s, retried, clock)
    BY <2>1, <2>3, <2>4 DEF Made, Valid
  <2> QED
    BY <2>4, <2>5
<1> HIDE DEF retried
<1>5. next \in Intent \cup {None}
  BY <1>1, <1>4
<1>6. items \in [Binding -> Intent \cup {None}] /\ receipts \in SUBSET Intent
  BY <1>1, <1>5 DEF Row
<1>7. \A c \in Binding : items[c] = IF c = b THEN next ELSE s.items[c]
  BY DEF Row
<1>8. receipts = {r \in s.receipts : ~SameLease(r, x)}
  OBVIOUS
<1> HIDE DEF items, receipts
<1>9. /\ done \in Row
      /\ done.game = s.game
      /\ done.sequence = s.sequence
      /\ done.seats = s.seats
      /\ done.deleted = s.deleted
      /\ done.consents = s.consents
      /\ done.items = items
      /\ done.receipts = receipts
  BY <1>6 DEF Row
<1> HIDE DEF done
<1>10. \A c \in Binding : items[c] # s.items[c] =>
         /\ c = x.binding
         /\ s.items[c] # None
         /\ s.items[c] = x
         /\ x.lease > clock
         /\ items[c] # None =>
              /\ items[c].binding = x.binding
              /\ items[c].event = x.event
              /\ items[c].attempts = x.attempts
              /\ items[c].decision = x.decision
              /\ items[c].tag = x.tag
              /\ items[c].expires = x.expires
              /\ Made(s, items[c], clock)
         /\ Retryable(x, outcome) => items[c] # None
         /\ SameLease(x, x)
  BY <1>1, <1>2, <1>4, <1>7, NoneAssumption DEF Holds, SameLease, SameReminder
<1> QED
  BY <1>3, <1>8, <1>9, <1>10

\* An outcome touches the reminder whose lease its worker still holds, and that
\* worker's receipt; what the other workers know stays true.
LEMMA FinishStep ==
  ASSUME PushInv, NEW w \in Worker, Finish(w)
  PROVE  GoodStep
<1> DEFINE l == Loaded
           x == workers[w].intent
           outcome == workers[w].outcome
           heeded == outcome = "gone" /\ (Holds(l, x) \/ HasReceipt(l, x))
           done == Finished(l, x, outcome)
           consents == IF heeded THEN [done.consents EXCEPT ![x.binding] = None] ELSE done.consents
           s == IF heeded THEN [done EXCEPT !.consents = consents] ELSE done
<1>1. /\ workers[w] # Idle
      /\ workers[w].at = "answered"
      /\ row' = Pruned(s)
      /\ workers' = [workers EXCEPT ![w] = Idle]
      /\ UNCHANGED <<clock, tags>>
  BY DEF Finish, Save, Freed, Idle
<1>2. l \in Row /\ Sound(l, clock) /\ clock \in Nat /\ tags \in 0..MaxTag
  BY LoadedFacts, PushAssumption DEF PushInv, TypeOK
<1>3. \A v \in Worker : workers[v] # Idle =>
        /\ workers[v].intent \in Intent
        /\ Known(l, workers[v].intent, clock)
        /\ workers[v].intent.lease # 0
        /\ workers[v].intent.tag <= tags
        /\ workers[v].opened = workers[v].intent.tag
  BY LoadedFacts DEF PushInv, WorkersKnow
<1>4. \A c \in Binding : l.consents[c] # None => l.consents[c].tag <= tags
  BY LoadedFacts
<1>5. \A v \in Worker : (v # w /\ workers[v] # Idle /\ SameReminder(workers[v].intent, x)) =>
        \/ workers[v].intent.attempts < x.attempts /\ workers[v].intent.lease <= clock
        \/ x.attempts < workers[v].intent.attempts /\ x.lease <= clock
  BY <1>1 DEF PushInv, LeasesFollow
<1>6. x \in Intent /\ Known(l, x, clock)
  BY <1>1, <1>3
<1> HIDE DEF l, x, outcome, heeded
<1>7. /\ done \in Row
      /\ done.sequence = l.sequence
      /\ done.consents = l.consents
      /\ done.receipts = {r \in l.receipts : ~SameLease(r, x)}
      /\ \A b \in Binding : done.items[b] # l.items[b] =>
           /\ b = x.binding
           /\ l.items[b] # None
           /\ l.items[b] = x
           /\ x.lease > clock
           /\ done.items[b] # None =>
                /\ done.items[b].binding = x.binding
                /\ done.items[b].event = x.event
                /\ done.items[b].attempts = x.attempts
                /\ done.items[b].decision = x.decision
                /\ done.items[b].tag = x.tag
                /\ done.items[b].expires = x.expires
                /\ Made(l, done.items[b], clock)
           /\ Retryable(x, outcome) => done.items[b] # None
           /\ SameLease(x, x)
  BY <1>2, <1>6, FinishedFacts
<1> HIDE DEF done
<1>8. /\ consents \in [Binding -> Consent \cup {None}]
      /\ \A c \in Binding : consents[c] # None => consents[c] = l.consents[c]
  BY <1>7 DEF Row
<1> HIDE DEF consents
<1>9. /\ s \in Row
      /\ s.sequence = l.sequence
      /\ s.items = done.items
      /\ s.receipts = done.receipts
      /\ \A c \in Binding : s.consents[c] # None => s.consents[c] = l.consents[c]
  <2>1. CASE heeded
    BY <2>1, <1>7, <1>8 DEF Row
  <2>2. CASE ~heeded
    BY <2>2, <1>7
  <2> QED
    BY <2>1, <2>2
<1> HIDE DEF s
<1>10. \A y : Made(l, y, clock) => Made(s, y, clock)
  BY <1>9 DEF Made
<1>11. Sound(s, clock)
  <2>1. ASSUME NEW b \in Binding, s.items[b] # None
        PROVE  s.items[b].binding = b /\ Made(s, s.items[b], clock) /\ s.items[b].decision # {}
    <3>1. CASE done.items[b] = l.items[b]
      BY <2>1, <3>1, <1>2, <1>9, <1>10 DEF Sound
    <3>2. CASE done.items[b] # l.items[b]
      BY <2>1, <3>2, <1>2, <1>7, <1>9, <1>10 DEF Sound
    <3> QED
      BY <3>1, <3>2
  <2>2. s.receipts \subseteq l.receipts
    BY <1>7, <1>9
  <2>3. ASSUME NEW b \in Binding, NEW r \in s.receipts, s.items[b] # None, SameReminder(s.items[b], r)
        PROVE  r.attempts <= s.items[b].attempts
    <3>1. CASE done.items[b] = l.items[b]
      BY <2>2, <2>3, <3>1, <1>2, <1>9 DEF Sound
    <3>2. CASE done.items[b] # l.items[b]
      <4>1. l.items[b] # None /\ l.items[b] = x /\ SameReminder(x, r)
        BY <2>3, <3>2, <1>7, <1>9 DEF SameReminder
      <4> QED
        BY <2>2, <2>3, <3>2, <4>1, <1>2, <1>7, <1>9 DEF Sound
    <3> QED
      BY <3>1, <3>2
  <2> QED
    BY <2>1, <2>2, <2>3, <1>2, <1>10 DEF Sound
<1>12. \A c \in Binding : s.consents[c] # None => s.consents[c].tag <= tags'
  BY <1>1, <1>4, <1>9
<1>13. \A v \in Worker : workers'[v] # Idle => v # w /\ workers'[v] = workers[v]
  BY <1>1 DEF PushInv, TypeOK
<1>14. ASSUME NEW v \in Worker, v # w, workers[v] # Idle
       PROVE  Known(s, workers[v].intent, clock)
  <2> DEFINE y == workers[v].intent
  <2>1. y \in Intent /\ Known(l, y, clock) /\ y.lease # 0
    BY <1>3, <1>14
  <2>2. SameReminder(y, x) =>
          \/ y.attempts < x.attempts /\ y.lease <= clock
          \/ x.attempts < y.attempts /\ x.lease <= clock
    BY <1>5, <1>14
  <2> HIDE DEF y
  <2>3. x.lease \in Nat /\ x.attempts \in Nat /\ y.attempts \in Nat
    BY <2>1, <1>6 DEF Intent
  <2>4. \A c \in Binding : (s.items[c] # None /\ SameReminder(s.items[c], y)) =>
          \/ s.items[c] = l.items[c]
          \/ y.attempts < s.items[c].attempts /\ y.lease <= clock
    <3> SUFFICES ASSUME NEW c \in Binding, s.items[c] # None, SameReminder(s.items[c], y),
                        s.items[c] # l.items[c]
                 PROVE  y.attempts < s.items[c].attempts /\ y.lease <= clock
      OBVIOUS
    <3>1. SameReminder(y, x) /\ x.lease > clock /\ s.items[c].attempts = x.attempts
      BY <1>7, <1>9 DEF SameReminder
    <3> QED
      BY <3>1, <2>2, <2>3, <1>2
  <2>5. y \in l.receipts => y \in s.receipts
    BY <2>2, <2>3, <1>7, <1>9 DEF SameLease
  <2>6. Known(s, y, clock)
    <3>1. s.sequence >= l.sequence
      BY <1>2, <1>9 DEF Row
    <3> QED
      BY <2>1, <2>4, <2>5, <3>1, <1>2, <1>7, <1>9, KnownCarries
  <2> QED
    BY <2>6 DEF y
<1>15. workers' \in [Worker -> {Idle} \cup Activity]
  BY <1>1 DEF PushInv, TypeOK
<1>16. LeasesFollow'
  BY <1>1, <1>13 DEF PushInv, LeasesFollow
<1>17. ASSUME NEW v \in Worker, workers'[v] # Idle
       PROVE  /\ Known(s, workers'[v].intent, clock)
              /\ workers'[v].intent.lease # 0
              /\ workers'[v].intent.tag <= tags'
              /\ workers'[v].opened = workers'[v].intent.tag
  BY <1>1, <1>3, <1>13, <1>14, <1>17
<1>18. ASSUME NEW c \in Binding, done.items[c] = l.items[c]
       PROVE  LeavesByRight(c)
  <2>1. l.sequence >= row.sequence
    BY LoadedFacts DEF l, PushInv, TypeOK, Row
  <2> QED
    BY <2>1, <1>1, <1>9, <1>18, LeftAlone DEF l
<1>19. ASSUME NEW c \in Binding, done.items[c] # l.items[c]
       PROVE  LeavesByRight(c)
  <2>1. l.items[c] = x /\ l.items[c] # None /\ c = x.binding /\ x.lease > clock /\ SameLease(x, x)
    BY <1>7, <1>19
  <2>2. row.items[c] = x
    BY <2>1, <1>2, PrunedRow DEF l, Loaded, PushInv, TypeOK
  <2>3. CASE outcome = "retry" => ~Retryable(x, "retry")
    BY <2>1, <2>2, <2>3, <1>1 DEF LeavesByRight, x, outcome
  <2>4. CASE outcome = "retry" /\ Retryable(x, "retry")
    <3> DEFINE y == s.items[c]
    <3>1. /\ y # None
          /\ y.binding = c
          /\ y.event = x.event
          /\ y.attempts = x.attempts
          /\ y.decision = x.decision
          /\ y.tag = x.tag
          /\ y.expires = x.expires
          /\ Made(s, y, clock)
      BY <2>1, <2>4, <1>7, <1>9, <1>10, <1>19
    <3>2. x.lease <= x.expires /\ x.attempts \in Nat /\ x.lease \in Nat /\ x.expires \in Nat
      BY <1>2, <1>6, <2>1 DEF Known, Made, Valid, Intent
    <3>3. y.expires > clock /\ ~Exhausted(y)
      <4>1. MaxAttempts \in Nat
        BY PushAssumption DEF MaxAttempts
      <4>2. y.expires > clock
        BY <2>1, <3>1, <3>2, <1>2
      <4>3. x.attempts < MaxAttempts
        BY <2>4 DEF Retryable
      <4> QED
        BY <3>1, <3>2, <4>1, <4>2, <4>3 DEF Exhausted
    <3>4. s.consents[c] # None => x.expires <= s.consents[c].expires
      BY <2>1, <2>2, <1>9, LoadedFacts DEF l, Settled
    <3>5. CASE row'.items[c] = y
      BY <2>1, <2>2, <3>1, <3>5 DEF LeavesByRight, SameReminder
    <3>6. CASE row'.items[c] # y
      <4>1. \/ row'.consents[c] = None
            \/ row'.consents[c].tag # x.tag
            \/ x.decision # Required(row'.game, SideOf[c])
        BY <3>1, <3>3, <3>4, <3>6, <1>1, <1>2, <1>9, PrunedAway
      <4> QED
        BY <2>2, <4>1 DEF LeavesByRight
    <3> QED
      BY <3>5, <3>6
  <2> QED
    BY <2>3, <2>4
<1>20. PushInv'
  BY <1>1, <1>2, <1>9, <1>11, <1>12, <1>15, <1>16, <1>17, Transaction
<1> QED
  BY <1>18, <1>19, <1>20 DEF GoodStep

(* The invariant.                                                          *)

\* The game begins with nobody asking for reminders.
LEMMA PushInitially ==
  ASSUME PushInit
  PROVE  PushInv
<1>1. FirstMove \in Game
  BY StageType DEF FirstMove, Game, Side
<1> DEFINE seats == [b \in Binding |-> IF b \in Bound THEN "active" ELSE "new"]
           none == [b \in Binding |-> None]
           gone == FALSE
           first == [game |-> FirstMove, sequence |-> 0, deleted |-> gone, seats |-> seats,
                     consents |-> none, items |-> none, receipts |-> {}]
<1>2. row = first /\ clock = 0 /\ tags = 0 /\ workers = [w \in Worker |-> Idle]
  BY DEF PushInit
<1>3. /\ seats \in [Binding -> {"new", "active", "revoked"}]
      /\ none \in [Binding -> Consent \cup {None}]
      /\ none \in [Binding -> Intent \cup {None}]
      /\ gone \in BOOLEAN
      /\ \A b \in Binding : none[b] = None
  OBVIOUS
<1> HIDE DEF seats, none, gone
<1>4. first \in Row /\ first.consents = none /\ first.items = none /\ first.receipts = {}
  BY <1>1, <1>3 DEF Row
<1> HIDE DEF first
<1>5. TypeOK
  BY <1>2, <1>4, PushAssumption DEF TypeOK
<1>6. Sound(row, clock) /\ Settled(row) /\ TagsAreDrawn
  BY <1>2, <1>3, <1>4 DEF Sound, Settled, TagsAreDrawn
<1>7. WorkersKnow /\ LeasesFollow
  BY <1>2 DEF WorkersKnow, LeasesFollow
<1> QED
  BY <1>5, <1>6, <1>7 DEF PushInv

\* Every step keeps the invariant and takes no reminder away wrongly.
LEMMA PushStep ==
  ASSUME PushInv, [PushNext]_pushVars
  PROVE  GoodStep
<1>1. CASE Tick
  BY <1>1, TickStep
<1>2. CASE \E b \in Binding : Command(b) \/ Surrender(b) \/ ClaimSeat(b)
  BY <1>2, CommandStep, SurrenderStep, ClaimSeatStep
<1>3. CASE \E b \in Binding : Subscribe(b) \/ Unsubscribe(b)
  BY <1>3, SubscribeStep, UnsubscribeStep
<1>4. CASE \E old, b \in Binding : RecoverSeat(old, b)
  BY <1>4, RecoverStep
<1>5. CASE Manage
  BY <1>5, ManageStep
<1>6. CASE DeleteGame
  BY <1>6, DeleteStep
<1>7. ASSUME NEW w \in Worker, Work(w)
      PROVE  GoodStep
  BY <1>7, ClaimStep, PollStep, AdvanceStep, FinishStep DEF Work
<1>8. CASE \E w \in Worker : Abandon(w)
  BY <1>8, AbandonStep
<1>9. CASE UNCHANGED pushVars
  BY <1>9, RowStays DEF GoodStep, pushVars, PushInv, TypeOK, Sound, Settled, TagsAreDrawn,
                       WorkersKnow, LeasesFollow, Known
<1> QED
  BY <1>1, <1>2, <1>3, <1>4, <1>5, <1>6, <1>7, <1>8, <1>9 DEF PushNext

\* The row is sound, pruning has settled it, and what a worker holds is what
\* the row knows of it, in every reachable state.
THEOREM PushInvariance == PushSpec => []PushInv
<1> QED
  BY PushInitially, PushStep, PTL DEF PushSpec, GoodStep

\* Clock, row, tags and workers keep their types.
THEOREM PushTypes == PushSpec => []TypeOK
<1>1. PushInv => TypeOK
  BY DEF PushInv
<1> QED
  BY <1>1, PushInvariance, PTL

\* Nothing the outbox writes is dropped as damaged when it is loaded again.
THEOREM RemindersReload == PushSpec => []SurvivesReload
<1>1. PushInv => SurvivesReload
  BY DEF PushInv, Sound, Made, SurvivesReload
<1> QED
  BY <1>1, PushInvariance, PTL

\* A stored reminder is for who holds the seat, consented and owes the decision.
THEOREM RemindersStayCurrent == PushSpec => []RemindersAreCurrent
<1>1. PushInv => RemindersAreCurrent
  BY DEF PushInv, Sound, Settled, RemindersAreCurrent
<1> QED
  BY <1>1, PushInvariance, PTL

\* However many workers there are, one at most holds an unexpired lease of a
\* reminder.
THEOREM LeasesAreExclusive == PushSpec => []OneUnexpiredLease
<1>1. ASSUME PushInv PROVE OneUnexpiredLease
  <2>1. clock \in Nat
    BY <1>1, PushAssumption DEF PushInv, TypeOK
  <2>2. \A w \in Worker : workers[w] # Idle => workers[w].intent.lease \in Nat
    BY <1>1 DEF PushInv, TypeOK, Activity, Intent
  <2> QED
    BY <1>1, <2>1, <2>2 DEF PushInv, LeasesFollow, OneUnexpiredLease
<1> QED
  BY <1>1, PushInvariance, PTL

(* The steps of a worker.                                                  *)

\* The only step that sends a request is the worker's own Dispatch.
LEMMA OnlyDispatchSends ==
  ASSUME PushInv, [PushNext]_pushVars, NEW w \in Worker,
         workers[w].at = "holding", workers'[w].at = "waiting"
  PROVE  Dispatch(w) /\ Authorized(workers[w].intent)
<1>1. workers \in [Worker -> {Idle} \cup Activity]
  BY DEF PushInv, TypeOK
<1>2. workers' # workers
  OBVIOUS
<1>3. PICK v \in Worker : Work(v) \/ Abandon(v)
  BY <1>2 DEF PushNext, pushVars, Tick, Command, Surrender, ClaimSeat, Subscribe, Unsubscribe,
              RecoverSeat, Manage, DeleteGame
<1>4. v = w
  BY <1>1, <1>2, <1>3 DEF Work, Abandon, Freed, Claim, Poll, Dispatch, GiveUp, Respond, Finish, Advance
<1>5. \A at, outcome : Advance(w, at, outcome) => workers'[w].at = at
  BY <1>1 DEF Advance, Activity, Idle
<1>6. ~Abandon(w) /\ ~Finish(w) /\ ~Poll(w) /\ \A b \in Binding : ~Claim(w, b)
  <2>1. workers[w] # Idle
    BY DEF Idle
  <2>2. Freed(w)[w] = Idle
    BY <1>1 DEF Freed
  <2>3. workers' # Freed(w)
    BY <2>2 DEF Idle
  <2> QED
    BY <2>1, <2>3 DEF Abandon, Finish, Poll, Claim
<1>7. ~GiveUp(w) /\ ~Respond(w)
  BY <1>5 DEF GiveUp, Respond
<1> QED
  BY <1>3, <1>4, <1>5, <1>6, <1>7 DEF Work, Dispatch

\* When a request leaves, what it is sent for is still wanted.
THEOREM DispatchesAreWanted == PushSpec => DispatchIsWanted
<1>1. ASSUME PushInv, [PushNext]_pushVars, NEW w \in Worker,
             workers[w].at = "holding", workers'[w].at = "waiting"
      PROVE  LET x == workers[w].intent IN
             /\ row.seats[x.binding] = "active"
             /\ row.consents[x.binding] # None
             /\ row.consents[x.binding].tag = workers[w].opened
             /\ row.consents[x.binding].expires > clock
             /\ x.decision = Required(row.game, SideOf[x.binding])
             /\ x.lease > clock
  <2> DEFINE x == workers[w].intent
             b == x.binding
             item == Loaded.items[b]
  <2>1. item # None /\ SameLease(item, x) /\ item.lease > clock
    BY <1>1, OnlyDispatchSends DEF Authorized
  <2>2. workers[w] # Idle
    BY <1>1 DEF Idle
  <2>3. x \in Intent /\ Known(Loaded, x, clock) /\ workers[w].opened = x.tag
    BY <1>1, <2>2, LoadedFacts DEF PushInv, WorkersKnow
  <2>4. b \in Binding /\ x.attempts \in Nat
    BY <2>3 DEF Intent
  <2>5. item = x
    BY <2>1, <2>3, <2>4 DEF Known, SameLease
  <2>6. /\ row.seats[b] = "active"
        /\ Loaded.consents[b] # None
        /\ Loaded.consents[b] = row.consents[b]
        /\ row.consents[b].tag = x.tag
        /\ x.decision = Required(row.game, SideOf[b])
    BY <1>1, <2>1, <2>4, <2>5, LoadedFacts DEF Settled
  <2>7. KeptConsent(row, b)
    BY <1>1, <2>4, <2>6, PrunedRow DEF Loaded, PushInv, TypeOK
  <2> QED
    BY <2>1, <2>3, <2>5, <2>6, <2>7 DEF KeptConsent
<1>2. PushInv /\ [PushNext]_pushVars =>
        \A w \in Worker : (workers[w].at = "holding" /\ workers'[w].at = "waiting") =>
          LET x == workers[w].intent IN
          /\ row.seats[x.binding] = "active"
          /\ row.consents[x.binding] # None
          /\ row.consents[x.binding].tag = workers[w].opened
          /\ row.consents[x.binding].expires > clock
          /\ x.decision = Required(row.game, SideOf[x.binding])
          /\ x.lease > clock
  BY <1>1
<1> QED
  BY <1>2, PushInvariance, PTL DEF PushSpec, DispatchIsWanted

\* The only steps that free a worker are its own Finish and its interruption.
LEMMA OnlyFinishFrees ==
  ASSUME PushInv, [PushNext]_pushVars, NEW w \in Worker,
         workers[w].at = "answered", workers'[w] = Idle
  PROVE  Finish(w) \/ Abandon(w)
<1>1. workers \in [Worker -> {Idle} \cup Activity]
  BY DEF PushInv, TypeOK
<1>2. workers' # workers /\ workers[w] # Idle
  BY DEF Idle
<1>3. PICK v \in Worker : Work(v) \/ Abandon(v)
  BY <1>2 DEF PushNext, pushVars, Tick, Command, Surrender, ClaimSeat, Subscribe, Unsubscribe,
              RecoverSeat, Manage, DeleteGame
<1>4. v = w
  BY <1>1, <1>2, <1>3 DEF Work, Abandon, Freed, Claim, Poll, Dispatch, GiveUp, Respond, Finish, Advance
<1>5. ~Poll(w) /\ \A b \in Binding : ~Claim(w, b)
  BY <1>2 DEF Poll, Claim
<1>6. ~Dispatch(w) /\ ~GiveUp(w) /\ ~Respond(w)
  BY DEF Dispatch, GiveUp, Respond
<1> QED
  BY <1>3, <1>4, <1>5, <1>6 DEF Work

\* What the saved row of a finish keeps of the consents.
LEMMA FinishConsents ==
  ASSUME PushInv, NEW w \in Worker, Finish(w)
  PROVE  LET x == workers[w].intent
             heeded == workers[w].outcome = "gone" /\ (Holds(Loaded, x) \/ HasReceipt(Loaded, x))
         IN /\ x \in Intent /\ Known(Loaded, x, clock) /\ workers[w].opened = x.tag
            /\ heeded => row'.consents[x.binding] = None
            /\ \A b \in Binding : (b # x.binding \/ ~heeded) =>
                 row'.consents[b] = Loaded.consents[b]
<1> DEFINE l == Loaded
           x == workers[w].intent
           outcome == workers[w].outcome
           heeded == outcome = "gone" /\ (Holds(l, x) \/ HasReceipt(l, x))
           done == Finished(l, x, outcome)
           consents == IF heeded THEN [done.consents EXCEPT ![x.binding] = None] ELSE done.consents
           s == IF heeded THEN [done EXCEPT !.consents = consents] ELSE done
<1>1. row' = Pruned(s) /\ workers[w] # Idle
  BY DEF Finish, Save, Idle
<1>2. l \in Row /\ Sound(l, clock) /\ Settled(l) /\ clock \in Nat /\ l = Pruned(row) /\ row \in Row
  BY LoadedFacts, PushAssumption DEF PushInv, TypeOK, Loaded
<1>3. x \in Intent /\ Known(l, x, clock) /\ workers[w].opened = x.tag
  BY <1>1, LoadedFacts DEF PushInv, WorkersKnow
<1>4. x.binding \in Binding
  BY <1>3 DEF Intent
<1> HIDE DEF l, x, outcome, heeded
<1>5. /\ done \in Row
      /\ done.game = l.game
      /\ done.seats = l.seats
      /\ done.deleted = l.deleted
      /\ done.consents = l.consents
  BY <1>2, <1>3, FinishedFacts
<1> HIDE DEF done
<1>6. /\ consents \in [Binding -> Consent \cup {None}]
      /\ heeded => consents[x.binding] = None
      /\ \A b \in Binding : (b # x.binding \/ ~heeded) => consents[b] = l.consents[b]
  BY <1>4, <1>5 DEF Row
<1> HIDE DEF consents
<1>7. /\ s \in Row
      /\ s.game = l.game
      /\ s.seats = l.seats
      /\ s.deleted = l.deleted
      /\ heeded => s.consents[x.binding] = None
      /\ \A b \in Binding : (b # x.binding \/ ~heeded) => s.consents[b] = l.consents[b]
  <2>1. CASE heeded
    BY <2>1, <1>5, <1>6 DEF Row
  <2>2. CASE ~heeded
    BY <2>2, <1>5
  <2> QED
    BY <2>1, <2>2
<1> HIDE DEF s
<1>8. heeded => row'.consents[x.binding] = None
  BY <1>1, <1>4, <1>7, PrunedRow
<1>9. ASSUME NEW b \in Binding, s.consents[b] = l.consents[b]
      PROVE  row'.consents[b] = l.consents[b]
  <2>1. CASE l.consents[b] = None
    BY <2>1, <1>1, <1>7, <1>9, PrunedRow
  <2>2. CASE l.consents[b] # None
    <3>1. KeptConsent(row, b) /\ l.consents[b] = row.consents[b]
      BY <2>2, <1>2, PrunedRow
    <3>2. l.game = row.game /\ l.seats = row.seats /\ l.deleted = row.deleted
      BY <1>2, PrunedRow
    <3>3. KeptConsent(s, b)
      BY <3>1, <3>2, <1>7, <1>9 DEF KeptConsent
    <3> QED
      BY <3>3, <1>1, <1>7, <1>9, PrunedRow
  <2> QED
    BY <2>1, <2>2
<1> QED
  BY <1>3, <1>7, <1>8, <1>9 DEF l, x, outcome, heeded

\* A receipt, or the reminder itself, vouches for the consent of its lease.
LEMMA LeaseVouches ==
  ASSUME PushInv, NEW x \in Intent, Known(Loaded, x, clock),
         Holds(Loaded, x) \/ HasReceipt(Loaded, x)
  PROVE  row.consents[x.binding] # None => row.consents[x.binding].tag = x.tag
<1>1. Loaded \in Row /\ Settled(Loaded) /\ clock \in Nat /\ x.binding \in Binding /\ row \in Row
  BY LoadedFacts, PushAssumption DEF PushInv, TypeOK, Intent
<1>2. CASE Holds(Loaded, x)
  <2>1. Loaded.items[x.binding] = x /\ Loaded.items[x.binding] # None
    BY <1>1, <1>2, HeldIsClaimed DEF Holds
  <2> QED
    BY <1>1, <2>1, LoadedFacts DEF Settled
<1>3. CASE HasReceipt(Loaded, x)
  <2>1. x \in Loaded.receipts
    BY <1>3 DEF HasReceipt, Known
  <2>2. CurrentConsent(row, x)
    BY <1>1, <2>1, PrunedRow DEF Loaded, KeptReceipt
  <2> QED
    BY <2>2 DEF CurrentConsent
<1> QED
  BY <1>2, <1>3

\* A consent that an outcome ends is the one its request was sent under.
THEOREM OnlyGoneRetires == PushSpec => GoneRetiresItsOwn
<1>1. ASSUME PushInv, [PushNext]_pushVars, NEW w \in Worker, NEW b \in Binding,
             workers[w].at = "answered", workers'[w] = Idle,
             row.consents[b] # None, row.consents[b].expires > clock, row'.consents[b] = None
      PROVE  /\ workers[w].intent.binding = b
             /\ workers[w].outcome = "gone"
             /\ workers[w].opened = row.consents[b].tag
  <2>1. Finish(w)
    BY <1>1, OnlyFinishFrees DEF Abandon
  <2>2. KeptConsent(row, b)
    BY <1>1 DEF PushInv, Settled, KeptConsent
  <2>3. Loaded.consents[b] # None
    BY <1>1, <2>2, PrunedRow DEF Loaded, PushInv, TypeOK
  <2> QED
    BY <1>1, <2>1, <2>3, FinishConsents, LeaseVouches
<1>2. PushInv /\ [PushNext]_pushVars =>
        \A w \in Worker, b \in Binding :
          (/\ workers[w].at = "answered"
           /\ workers'[w] = Idle
           /\ row.consents[b] # None
           /\ row.consents[b].expires > clock
           /\ row'.consents[b] = None) =>
            /\ workers[w].intent.binding = b
            /\ workers[w].outcome = "gone"
            /\ workers[w].opened = row.consents[b].tag
  BY <1>1
<1> QED
  BY <1>2, PushInvariance, PTL DEF PushSpec, GoneRetiresItsOwn

\* A request that finds the subscription gone within its lease retires it.
THEOREM GoneRetires == PushSpec => GoneIsHeeded
<1>1. ASSUME PushInv, NEW w \in Worker, Finish(w),
             workers[w].outcome = "gone", workers[w].intent.lease > clock
      PROVE  LET consent == row'.consents[workers[w].intent.binding] IN
             consent = None \/ consent.tag # workers[w].opened
  <2> DEFINE x == workers[w].intent
             b == x.binding
  <2> SUFFICES ASSUME row'.consents[b] # None, row'.consents[b].tag = workers[w].opened
               PROVE  FALSE
    OBVIOUS
  <2>1. x \in Intent /\ Known(Loaded, x, clock) /\ workers[w].opened = x.tag
    BY <1>1, FinishConsents
  <2>2. b \in Binding /\ x.lease \in Nat /\ x.expires \in Nat /\ clock \in Nat
    BY <1>1, <2>1, PushAssumption DEF Intent, PushInv, TypeOK
  <2>3. ~(Holds(Loaded, x) \/ HasReceipt(Loaded, x)) /\ row'.consents[b] = Loaded.consents[b]
    BY <1>1, <2>2, FinishConsents
  <2>4. x \in Loaded.receipts
    BY <1>1, <2>1, <2>3 DEF Known
  <2>5. x.expires > clock /\ x.lease # 0
    BY <1>1, <2>1, <2>2 DEF Known, Made, Valid
  <2> QED
    BY <1>1, <2>3, <2>4, <2>5 DEF HasReceipt, SameLease, SameReminder
<1>2. PushInv /\ [PushNext]_pushVars =>
        \A w \in Worker :
          (/\ Finish(w)
           /\ workers[w].outcome = "gone"
           /\ workers[w].intent.lease > clock) =>
            LET consent == row'.consents[workers[w].intent.binding] IN
            consent = None \/ consent.tag # workers[w].opened
  BY <1>1
<1> QED
  BY <1>2, PushInvariance, PTL DEF PushSpec, GoneIsHeeded

\* A reminder only leaves the outbox by right: no worker ends a lease but its own.
THEOREM LeasesEndTheirOwn == PushSpec => OnlyItsLeaseEndsIt
<1>1. PushInv /\ [PushNext]_pushVars => \A b \in Binding : LeavesByRight(b)
  BY PushStep DEF GoodStep
<1> QED
  BY <1>1, PushInvariance, PTL DEF PushSpec, OnlyItsLeaseEndsIt

\* Both ways: a subscription found gone within its lease is retired, and no other one is.
THEOREM GoneEndsConsents == PushSpec => GoneEndsItsConsent
<1>1. QED
  BY OnlyGoneRetires, GoneRetires DEF GoneEndsItsConsent
=============================================================================
