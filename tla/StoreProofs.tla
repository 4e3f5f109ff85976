----------------------------- MODULE StoreProofs -----------------------------
(***************************************************************************)
(* Proofs about Store, for any number of callers, workers, rooms, games    *)
(* and slots: the delivery slots, the sends under the row lock, the        *)
(* mirror, and that every call is one step of AtomicService; and about     *)
(* Restoration, which makes the same calls on a database that is backed up *)
(* and restored: what its deletion ledger promises.                        *)
(***************************************************************************)
EXTENDS Store, Restoration, FiniteSetTheorems, TLAPS

Phases ==
  /\ phase \in [Process -> {"idle", "loaded", "unanswered", "waiting", "slot", "shared", "read", "sent"}]
  /\ \A c \in Client : phase[c] \in {"idle", "loaded", "unanswered"}
  /\ \A w \in Worker : phase[w] \in {"idle", "waiting", "slot", "loaded"}
  /\ \A d \in Room : phase[d] \in {"idle", "waiting", "slot", "shared", "read", "sent"}

\* Who waits does so once.
QueueIsOrdered ==
  /\ waiting \in Seq(Deliverer)
  /\ \A i, j \in 1..Len(waiting) : waiting[i] = waiting[j] => i = j

Using == {p \in Deliverer : phase[p] \notin {"idle", "waiting"}}
Queued == {p \in Deliverer : phase[p] = "waiting"}

SlotInv ==
  /\ Phases
  /\ QueueIsOrdered
  /\ active \in Nat
  /\ SlotsAreShared

-----------------------------------------------------------------------------
(* The queue. *)

LEMMA Distinct ==
  ASSUME StoreAssumption
  PROVE  /\ \A p \in Deliverer : p \in Process /\ p \notin Client
         /\ \A w \in Worker : w \in Deliverer /\ w \notin Room
         /\ \A d \in Room : d \in Deliverer /\ d \notin Worker
         /\ \A c \in Client : c \in Process /\ c \notin Deliverer
         /\ IsFiniteSet(Deliverer)
         /\ Slots \in Nat \ {0}
BY DEF StoreAssumption, Process, Deliverer

LEMMA Appended ==
  ASSUME QueueIsOrdered, NEW p \in Deliverer, p \notin ToSet(waiting),
         waiting' = Append(waiting, p)
  PROVE  /\ QueueIsOrdered'
         /\ ToSet(waiting)' = ToSet(waiting) \cup {p}
         /\ waiting' # <<>>
<1>1. /\ waiting' \in Seq(Deliverer) /\ Len(waiting') = Len(waiting) + 1 /\ Len(waiting) \in Nat
      /\ \A i \in 1..Len(waiting) : waiting'[i] = waiting[i]
      /\ waiting'[Len(waiting) + 1] = p
      /\ DOMAIN waiting = 1..Len(waiting) /\ DOMAIN waiting' = 1..Len(waiting')
  BY DEF QueueIsOrdered
<1>2. \A i \in 1..Len(waiting) : waiting[i] # p
  BY <1>1 DEF ToSet
<1>3. \A i \in 1..Len(waiting') : i \in 1..Len(waiting) \/ i = Len(waiting) + 1
  BY <1>1
<1>4. QueueIsOrdered'
  BY <1>1, <1>2, <1>3 DEF QueueIsOrdered
<1>5. ToSet(waiting)' = ToSet(waiting) \cup {p}
  <2>1. \A i \in 1..Len(waiting) : i \in 1..Len(waiting')
    BY <1>1
  <2>2. Len(waiting) + 1 \in 1..Len(waiting')
    BY <1>1
  <2> QED BY <1>1, <1>3, <2>1, <2>2 DEF ToSet
<1> QED BY <1>1, <1>4, <1>5

LEMMA Shifted ==
  ASSUME QueueIsOrdered, waiting # <<>>, waiting' = Tail(waiting)
  PROVE  /\ QueueIsOrdered'
         /\ Head(waiting) \in ToSet(waiting)
         /\ ToSet(waiting)' = ToSet(waiting) \ {Head(waiting)}
<1>1. /\ waiting' \in Seq(Deliverer) /\ Len(waiting') = Len(waiting) - 1
      /\ Len(waiting) \in Nat /\ Len(waiting) >= 1
      /\ \A i \in 1..Len(waiting') : waiting'[i] = waiting[i + 1]
      /\ Head(waiting) = waiting[1]
      /\ DOMAIN waiting = 1..Len(waiting) /\ DOMAIN waiting' = 1..Len(waiting')
  BY DEF QueueIsOrdered
<1>2. QueueIsOrdered'
  <2> SUFFICES ASSUME NEW i \in 1..Len(waiting'), NEW j \in 1..Len(waiting'), waiting'[i] = waiting'[j]
               PROVE  i = j
    BY <1>1 DEF QueueIsOrdered
  <2>1. i + 1 \in 1..Len(waiting) /\ j + 1 \in 1..Len(waiting) /\ waiting[i + 1] = waiting[j + 1]
    BY <1>1
  <2>2. i + 1 = j + 1
    BY <2>1 DEF QueueIsOrdered
  <2> QED BY <2>2
<1>3. ASSUME NEW i \in 1..Len(waiting')
      PROVE  waiting'[i] \in ToSet(waiting) \ {Head(waiting)}
  <2>1. i + 1 \in 1..Len(waiting) /\ 1 \in 1..Len(waiting) /\ i + 1 # 1
    BY <1>1
  <2> QED BY <1>1, <2>1 DEF QueueIsOrdered, ToSet
<1>4. ASSUME NEW i \in 1..Len(waiting), waiting[i] # Head(waiting)
      PROVE  waiting[i] \in ToSet(waiting)'
  <2>1. i # 1
    BY <1>1, <1>4
  <2>2. i - 1 \in 1..Len(waiting') /\ waiting'[i - 1] = waiting[(i - 1) + 1] /\ (i - 1) + 1 = i
    BY <1>1, <2>1
  <2> QED BY <1>1, <2>2 DEF ToSet
<1>5. Head(waiting) \in ToSet(waiting)
  BY <1>1 DEF ToSet
<1> QED BY <1>1, <1>2, <1>3, <1>4, <1>5 DEF ToSet

\* Concatenation, item by item.
LEMMA Joined ==
  ASSUME NEW S, NEW a \in Seq(S), NEW b \in Seq(S)
  PROVE  /\ a \o b \in Seq(S)
         /\ Len(a \o b) = Len(a) + Len(b)
         /\ DOMAIN (a \o b) = 1..(Len(a) + Len(b))
         /\ \A j \in 1..Len(a) : (a \o b)[j] = a[j]
         /\ \A j \in 1..(Len(a) + Len(b)) : j > Len(a) => (a \o b)[j] = b[j - Len(a)]
<1>1. a \o b \in Seq(S) /\ Len(a \o b) = Len(a) + Len(b)
  OBVIOUS
<1>2. DOMAIN (a \o b) = 1..(Len(a) + Len(b))
  BY <1>1
<1>3. \A j \in 1..Len(a) : (a \o b)[j] = a[j]
  OBVIOUS
<1>4. \A j \in 1..(Len(a) + Len(b)) : j > Len(a) => (a \o b)[j] = b[j - Len(a)]
  OBVIOUS
<1> QED BY <1>1, <1>2, <1>3, <1>4

LEMMA Removed ==
  ASSUME QueueIsOrdered, NEW i \in DOMAIN waiting, waiting' = RemoveAt(waiting, i)
  PROVE  /\ QueueIsOrdered'
         /\ ToSet(waiting)' = ToSet(waiting) \ {waiting[i]}
<1> DEFINE Old(j) == IF j < i THEN j ELSE j + 1
<1>1. /\ waiting \in Seq(Deliverer) /\ Len(waiting) \in Nat
      /\ DOMAIN waiting = 1..Len(waiting) /\ i \in 1..Len(waiting)
  BY DEF QueueIsOrdered
<1>2. /\ waiting' \in Seq(Deliverer) /\ Len(waiting') = Len(waiting) - 1
      /\ DOMAIN waiting' = 1..Len(waiting')
      /\ \A j \in 1..Len(waiting') : waiting'[j] = waiting[Old(j)]
  <2> DEFINE a == SubSeq(waiting, 1, i - 1)
             b == SubSeq(waiting, i + 1, Len(waiting))
  <2>1. /\ a \in Seq(Deliverer) /\ Len(a) = i - 1
        /\ \A j \in 1..(i - 1) : a[j] = waiting[j]
    BY <1>1
  <2>2. /\ b \in Seq(Deliverer) /\ Len(b) = Len(waiting) - i
        /\ \A j \in 1..(Len(waiting) - i) : b[j] = waiting[i + j]
    BY <1>1
  <2>3. waiting' = a \o b
    BY DEF RemoveAt
  <2> HIDE DEF a, b
  <2>4. /\ waiting' \in Seq(Deliverer) /\ Len(waiting') = Len(waiting) - 1
        /\ DOMAIN waiting' = 1..Len(waiting')
    <3>1. waiting' \in Seq(Deliverer) /\ Len(waiting') = Len(a) + Len(b)
      <4>1. a \in Seq(Deliverer) /\ b \in Seq(Deliverer)
        BY <2>1, <2>2
      <4>2. a \o b \in Seq(Deliverer) /\ Len(a \o b) = Len(a) + Len(b)
        BY <4>1
      <4> QED BY <2>3, <4>2
    <3>2. Len(a) + Len(b) = Len(waiting) - 1
      BY <1>1, <2>1, <2>2
    <3>3. DOMAIN waiting' = 1..Len(waiting')
      BY <3>1
    <3> QED BY <3>1, <3>2, <3>3
  <2>5. ASSUME NEW j \in 1..Len(waiting')
        PROVE  waiting'[j] = waiting[Old(j)]
    <3>1. CASE j < i
      <4>1. j \in 1..(i - 1) /\ Old(j) = j /\ j <= Len(a)
        BY <1>1, <2>1, <2>4, <3>1
      <4>2. waiting'[j] = a[j]
        <5>1. a \in Seq(Deliverer) /\ b \in Seq(Deliverer) /\ j \in 1..Len(a)
          BY <2>1, <2>2, <4>1
        <5> QED BY <2>3, <5>1, Joined
      <4> QED BY <2>1, <4>1, <4>2
    <3>2. CASE ~(j < i)
      <4>1. /\ Old(j) = j + 1 /\ j - (i - 1) \in 1..(Len(waiting) - i) /\ j > Len(a)
            /\ i + (j - (i - 1)) = j + 1
        BY <1>1, <2>1, <2>4, <3>2
      <4>2. waiting'[j] = b[j - Len(a)]
        <5>1. a \in Seq(Deliverer) /\ b \in Seq(Deliverer)
          BY <2>1, <2>2
        <5>2. j \in 1..(Len(a) + Len(b))
          BY <1>1, <2>1, <2>2, <2>4
        <5> QED BY <2>3, <4>1, <5>1, <5>2, Joined
      <4>3. Len(a) = i - 1
        BY <2>1
      <4> QED BY <2>2, <4>1, <4>2, <4>3
    <3> QED BY <3>1, <3>2
  <2> QED BY <2>4, <2>5
<1>3. \A j \in 1..Len(waiting') : Old(j) \in 1..Len(waiting) /\ Old(j) # i
  BY <1>1, <1>2
<1>4. \A j, k \in 1..Len(waiting') : Old(j) = Old(k) => j = k
  BY <1>1, <1>2
<1>5. \A k \in 1..Len(waiting) : k # i => \E j \in 1..Len(waiting') : Old(j) = k
  <2> SUFFICES ASSUME NEW k \in 1..Len(waiting), k # i
               PROVE  \E j \in 1..Len(waiting') : Old(j) = k
    OBVIOUS
  <2>1. CASE k < i
    <3>1. k \in 1..Len(waiting') /\ Old(k) = k
      BY <1>1, <1>2, <2>1
    <3> QED BY <3>1
  <2>2. CASE k > i
    <3>1. k - 1 \in 1..Len(waiting') /\ Old(k - 1) = k
      BY <1>1, <1>2, <2>2
    <3> QED BY <3>1
  <2> QED BY <1>1, <2>1, <2>2
<1> HIDE DEF Old
<1>6. QueueIsOrdered'
  BY <1>2, <1>3, <1>4 DEF QueueIsOrdered
<1>7. \A j \in 1..Len(waiting') : waiting'[j] \in ToSet(waiting) \ {waiting[i]}
  BY <1>1, <1>2, <1>3 DEF QueueIsOrdered, ToSet
<1>8. ASSUME NEW k \in 1..Len(waiting), waiting[k] # waiting[i]
      PROVE  waiting[k] \in ToSet(waiting)'
  <2>1. PICK j \in 1..Len(waiting') : Old(j) = k
    BY <1>5, <1>8
  <2>2. waiting'[j] = waiting[k]
    BY <1>2, <2>1
  <2> QED BY <1>2, <2>2 DEF ToSet
<1> QED BY <1>1, <1>2, <1>6, <1>7, <1>8 DEF ToSet
-----------------------------------------------------------------------------
(* The slots. *)

\* Nobody enters or leaves a slot or the queue.
LEMMA SlotsStay ==
  ASSUME StoreAssumption, SlotInv, Phases', UNCHANGED slots,
         Using' = Using, Queued' = Queued
  PROVE  SlotInv'
BY DEF SlotInv, QueueIsOrdered, SlotsAreShared, slots, Using, Queued

\* One process moves on.
LEMMA Moved ==
  ASSUME StoreAssumption, SlotInv, NEW p \in Process,
         NEW to \in {"idle", "loaded", "unanswered", "waiting", "slot", "shared", "read", "sent"},
         Move(p, to)
  PROVE  /\ phase' \in [Process -> {"idle", "loaded", "unanswered", "waiting", "slot", "shared", "read", "sent"}]
         /\ phase'[p] = to /\ \A q \in Process : q # p => phase'[q] = phase[q]
BY DEF SlotInv, Phases, Move

LEMMA ClientMoves ==
  ASSUME StoreAssumption, SlotInv, NEW c \in Client, NEW to \in {"idle", "loaded", "unanswered"},
         Move(c, to), UNCHANGED slots
  PROVE  SlotInv'
<1>1. Phases'
  BY Moved, Distinct DEF SlotInv, Phases
<1>2. Using' = Using /\ Queued' = Queued
  BY Moved, Distinct DEF Using, Queued
<1> QED BY <1>1, <1>2, SlotsStay

\* A deliverer in a slot goes on with it.
LEMMA DelivererMoves ==
  ASSUME StoreAssumption, SlotInv, NEW p \in Deliverer, phase[p] \notin {"idle", "waiting"},
         NEW to \in {"loaded", "shared", "read", "sent"}, (to = "loaded") <=> (p \in Worker),
         Move(p, to), UNCHANGED slots
  PROVE  SlotInv'
<1>1. Phases'
  BY Moved, Distinct DEF SlotInv, Phases, Deliverer
<1>2. Using' = Using /\ Queued' = Queued
  BY Moved, Distinct DEF Using, Queued
<1> QED BY <1>1, <1>2, SlotsStay

LEMMA Counted ==
  ASSUME StoreAssumption, SlotInv
  PROVE  /\ IsFiniteSet(Using) /\ active = Cardinality(Using) /\ active <= Slots
         /\ ToSet(waiting) = Queued
         /\ waiting # <<>> => active = Slots
<1>1. IsFiniteSet(Using)
  BY Distinct, FS_Subset DEF Using
<1> QED BY <1>1 DEF SlotInv, SlotsAreShared, Using, Queued

LEMMA AcquireKeeps ==
  ASSUME StoreAssumption, SlotInv, NEW p \in Deliverer, NEW r, Acquire(p, r)
  PROVE  SlotInv'
<1>1. CASE active < Slots
  <2>1. Move(p, "slot") /\ active' = active + 1 /\ waiting' = waiting /\ phase[p] = "idle"
    BY <1>1 DEF Acquire
  <2>2. Phases'
    BY <2>1, Moved, Distinct DEF SlotInv, Phases, Deliverer
  <2>3. Using' = Using \cup {p} /\ p \notin Using /\ Queued' = Queued
    BY <2>1, Moved, Distinct DEF Using, Queued
  <2>4. Cardinality(Using') = active + 1
    BY <2>3, Counted, FS_AddElement
  <2>5. active + 1 \in Nat /\ active + 1 <= Slots /\ waiting = <<>>
    BY <1>1, Counted, Distinct DEF SlotInv
  <2> QED BY <2>1, <2>2, <2>3, <2>4, <2>5, Counted
      DEF SlotInv, QueueIsOrdered, SlotsAreShared, Using, Queued
<1>2. CASE ~(active < Slots)
  <2>1. Move(p, "waiting") /\ active' = active /\ waiting' = Append(waiting, p) /\ phase[p] = "idle"
    BY <1>2 DEF Acquire
  <2>2. Phases'
    BY <2>1, Moved, Distinct DEF SlotInv, Phases, Deliverer
  <2>3. Using' = Using /\ Queued' = Queued \cup {p} /\ p \notin Queued
    BY <2>1, Moved, Distinct DEF Using, Queued
  <2>4. QueueIsOrdered' /\ ToSet(waiting)' = Queued'
    BY <2>1, <2>3, Appended, Counted DEF SlotInv
  <2>5. active = Slots
    BY <1>2, Counted, Distinct DEF SlotInv
  <2> QED BY <2>1, <2>2, <2>3, <2>4, <2>5, Counted
      DEF SlotInv, SlotsAreShared, Using, Queued
<1> QED BY <1>1, <1>2

LEMMA ReleaseKeeps ==
  ASSUME StoreAssumption, SlotInv, NEW p \in Deliverer, phase[p] \notin {"idle", "waiting"},
         Release(p)
  PROVE  SlotInv'
<1>1. p \in Process /\ p \in Using
  BY Distinct DEF Using
<1>2. CASE waiting = <<>>
  <2>1. active' = active - 1 /\ waiting' = waiting /\ Move(p, "idle")
    BY <1>2 DEF Release, Move
  <2>2. Phases'
    BY <1>1, <2>1, Moved, Distinct DEF SlotInv, Phases, Deliverer
  <2>3. Using' = Using \ {p} /\ Queued' = Queued
    BY <1>1, <2>1, Moved, Distinct DEF Using, Queued
  <2>4. Cardinality(Using') = active - 1 /\ IsFiniteSet(Using')
    BY <1>1, <2>3, Counted, FS_RemoveElement
  <2>5. active - 1 \in Nat /\ active - 1 <= Slots
    BY <2>4, Counted, Distinct, FS_CardinalityType DEF SlotInv
  <2> QED BY <1>2, <2>1, <2>2, <2>3, <2>4, <2>5, Counted
      DEF SlotInv, QueueIsOrdered, SlotsAreShared, Using, Queued
<1>3. CASE waiting # <<>>
  <2> DEFINE h == Head(waiting)
  <2>1. /\ active' = active /\ waiting' = Tail(waiting)
        /\ phase' = [phase EXCEPT ![p] = "idle", ![h] = "slot"]
    BY <1>3 DEF Release
  <2>2. QueueIsOrdered' /\ h \in Queued /\ ToSet(waiting)' = Queued \ {h}
    BY <1>3, <2>1, Shifted, Counted DEF SlotInv
  <2>3. h \in Deliverer /\ h \in Process /\ h # p /\ phase[h] = "waiting"
    BY <2>2, Distinct DEF Queued
  <2> HIDE DEF h
  <2>4. /\ phase' \in [Process -> {"idle", "loaded", "unanswered", "waiting", "slot", "shared", "read", "sent"}]
        /\ phase'[p] = "idle" /\ phase'[h] = "slot"
        /\ \A q \in Process : q # p /\ q # h => phase'[q] = phase[q]
    BY <1>1, <2>1, <2>3 DEF SlotInv, Phases
  <2>5. Phases'
    BY <1>1, <2>3, <2>4, Distinct DEF SlotInv, Phases, Deliverer
  <2>6. Using' = (Using \ {p}) \cup {h} /\ h \notin Using \ {p} /\ Queued' = Queued \ {h}
    BY <1>1, <2>3, <2>4, Distinct DEF Using, Queued
  <2>7. IsFiniteSet(Using \ {p}) /\ Cardinality(Using \ {p}) = active - 1
    BY <1>1, Counted, FS_RemoveElement
  <2>8. Cardinality(Using') = (active - 1) + 1
    BY <2>6, <2>7, FS_AddElement
  <2>9. (active - 1) + 1 = active /\ active = Slots
    BY <1>3, Counted DEF SlotInv
  <2> QED BY <2>1, <2>2, <2>5, <2>6, <2>8, <2>9, Counted
      DEF SlotInv, SlotsAreShared, Using, Queued
<1> QED BY <1>2, <1>3

LEMMA WithdrawKeeps ==
  ASSUME StoreAssumption, SlotInv, NEW p \in Deliverer, phase[p] = "waiting", Withdraw(p)
  PROVE  SlotInv'
<1>1. PICK i \in DOMAIN waiting : waiting[i] = p /\ waiting' = RemoveAt(waiting, i)
  BY DEF Withdraw
<1>2. Move(p, "idle") /\ active' = active
  BY DEF Withdraw
<1>3. Phases'
  BY <1>2, Moved, Distinct DEF SlotInv, Phases, Deliverer
<1>4. Using' = Using /\ Queued' = Queued \ {p}
  BY <1>2, Moved, Distinct DEF Using, Queued
<1>5. QueueIsOrdered' /\ ToSet(waiting)' = Queued'
  BY <1>1, <1>4, Removed, Counted DEF SlotInv
<1>6. active = Slots
  BY <1>1, Counted
<1> QED BY <1>2, <1>3, <1>4, <1>5, <1>6, Counted
    DEF SlotInv, SlotsAreShared, Using, Queued
LEMMA CrashKeeps ==
  ASSUME StoreAssumption, SlotInv, Crash
  PROVE  SlotInv'
<1>1. /\ phase' \in [Process -> {"idle", "unanswered"}]
      /\ \A p \in Deliverer : phase'[p] = "idle"
      /\ \A c \in Client : phase'[c] \in {"idle", "unanswered"}
      /\ active' = 0 /\ waiting' = <<>>
  BY Distinct DEF Crash
<1>2. Phases'
  BY <1>1, Distinct DEF Phases, Deliverer
<1>3. Using' = {} /\ Queued' = {}
  BY <1>1 DEF Using, Queued
<1>4. QueueIsOrdered' /\ ToSet(waiting)' = {}
  BY <1>1 DEF QueueIsOrdered, ToSet
<1>5. Cardinality(Using') = 0
  BY <1>3, FS_EmptySet
<1>6. active' \in Nat /\ active' <= Slots
  BY <1>1, Distinct
<1> QED BY <1>1, <1>2, <1>3, <1>4, <1>5, <1>6 DEF SlotInv, SlotsAreShared, Using, Queued

LEMMA CancelKeeps ==
  ASSUME StoreAssumption, SlotInv, NEW p \in Deliverer, Cancel(p)
  PROVE  SlotInv'
<1>1. CASE phase[p] = "waiting" BY <1>1, WithdrawKeeps DEF Cancel
<1>2. CASE phase[p] # "waiting" BY <1>2, ReleaseKeeps DEF Cancel
<1> QED BY <1>1, <1>2

LEMMA NextKeepsSlots ==
  ASSUME StoreAssumption, SlotInv, [Next]_vars
  PROVE  SlotInv'
<1>1. CASE UNCHANGED vars
  <2>1. UNCHANGED <<phase, active, waiting>>
    BY <1>1 DEF vars, slots
  <2> QED BY <2>1 DEF SlotInv, Phases, QueueIsOrdered, SlotsAreShared
<1>2. ASSUME NEW c \in Client, \/ \E r \in Asked : Begin(c, r)
                               \/ Commit(c) \/ Rollback(c) \/ Answer(c)
      PROVE  SlotInv'
  <2>1. \E to \in {"idle", "loaded", "unanswered"} : Move(c, to) /\ UNCHANGED slots
    BY <1>2 DEF Begin, Commit, Rollback, Answer
  <2> QED BY <2>1, ClientMoves
<1>3. ASSUME NEW w \in Worker, NEW r, Acquire(w, r) PROVE SlotInv'
  BY <1>3, AcquireKeeps, Distinct
<1>4. ASSUME NEW w \in Worker, BeginPush(w) PROVE SlotInv'
  BY <1>4, DelivererMoves, Distinct DEF BeginPush
<1>5. ASSUME NEW w \in Worker, CommitPush(w) PROVE SlotInv'
  BY <1>5, ReleaseKeeps, Distinct DEF CommitPush
<1>6. ASSUME NEW d \in Room, NEW r, Acquire(d, r) PROVE SlotInv'
  BY <1>6, AcquireKeeps, Distinct
<1>7. ASSUME NEW d \in Room, Share(d) \/ ReadShared(d) \/ Send(d) PROVE SlotInv'
  <2>1. /\ phase[d] \notin {"idle", "waiting"} /\ UNCHANGED slots
        /\ \E to \in {"shared", "read", "sent"} : Move(d, to)
    BY <1>7 DEF Share, ReadShared, Send
  <2> QED BY <2>1, DelivererMoves, Distinct
<1>8. ASSUME NEW d \in Room, End(d) PROVE SlotInv'
  BY <1>8, ReleaseKeeps, Distinct DEF End
<1>9. ASSUME NEW p \in Deliverer, Cancel(p) PROVE SlotInv'
  BY <1>9, CancelKeeps
<1>10. CASE Crash BY <1>10, CrashKeeps
<1> QED BY <1>1, <1>2, <1>3, <1>4, <1>5, <1>6, <1>7, <1>8, <1>9, <1>10 DEF Next

LEMMA InitSlots ==
  ASSUME StoreAssumption, Init
  PROVE  SlotInv
<1> USE DEF Init
<1>1. Phases
  BY DEF Phases, Process
<1>2. QueueIsOrdered /\ ToSet(waiting) = {}
  BY DEF QueueIsOrdered, ToSet
<1>3. Using = {} /\ Queued = {}
  BY DEF Using, Queued, Process, Deliverer
<1>4. Cardinality(Using) = 0 /\ active <= Slots /\ active \in Nat
  BY <1>3, FS_EmptySet, Distinct
<1> QED BY <1>1, <1>2, <1>3, <1>4 DEF SlotInv, SlotsAreShared, Using, Queued

LEMMA Slotted == Spec => []SlotInv
BY InitSlots, NextKeepsSlots, StoreAssumption, PTL DEF Spec

\* However deliveries are cancelled, fail or crash, exactly the processes that deliver hold
\* a slot, and nobody waits while one is free, whatever the number of slots.
THEOREM SlotsStayShared == Spec => []SlotsAreShared
<1>1. SlotInv => SlotsAreShared BY DEF SlotInv
<1> QED BY <1>1, Slotted, PTL

-----------------------------------------------------------------------------
(* The row lock and the sends under it. *)

\* The lock excludes, and what a room has read under it is what is stored.
LockInv ==
  /\ DOMAIN loaded = Process /\ DOMAIN request = Process
  /\ ForUpdate = {} \/ ForShare = {}
  /\ \A d \in Room : phase[d] = "read" => loaded[d] = Load({request[d].game})

\* Nobody is given the lock and no room reads.
LEMMA LockStays ==
  ASSUME SlotInv, LockInv, Phases', UNCHANGED tables,
         DOMAIN loaded' = Process, DOMAIN request' = Process,
         \A p \in Process : phase'[p] = "loaded" => phase[p] = "loaded",
         \A d \in Room : phase'[d] \in {"shared", "read", "sent"} =>
                           phase[d] \in {"shared", "read", "sent"},
         \A d \in Room : phase'[d] = "read" =>
                           phase[d] = "read" /\ loaded'[d] = loaded[d] /\ request'[d] = request[d]
  PROVE  LockInv'
<1>1. ForUpdate' \subseteq ForUpdate /\ ForShare' \subseteq ForShare
  BY DEF ForUpdate, ForShare
<1>2. meta' = meta /\ rows' = rows
  BY DEF tables
<1>3. ASSUME NEW d \in Room, phase'[d] = "read"
      PROVE  loaded'[d] = Load({request[d].game})'
  <2>1. loaded[d] = Load({request[d].game}) /\ loaded'[d] = loaded[d] /\ request'[d] = request[d]
    BY <1>3 DEF LockInv
  <2> QED BY <1>2, <2>1 DEF Load
<1> QED BY <1>1, <1>3 DEF LockInv

\* The tables change under the lock for update only, when no room reads.
LEMMA LockedWrite ==
  ASSUME StoreAssumption, SlotInv, LockInv, Phases', NEW p \in Process, phase[p] = "loaded",
         DOMAIN loaded' = Process, DOMAIN request' = Process,
         \A q \in Process : phase'[q] = "loaded" => phase[q] = "loaded",
         \A d \in Room : phase'[d] \in {"shared", "read", "sent"} =>
                           phase[d] \in {"shared", "read", "sent"}
  PROVE  LockInv'
<1>1. ForShare = {}
  BY DEF LockInv, ForUpdate
<1>2. ForShare' = {}
  BY <1>1 DEF ForShare
<1>3. \A d \in Room : phase'[d] # "read"
  BY <1>2 DEF ForShare
<1> QED BY <1>2, <1>3 DEF LockInv

\* Releasing a slot gives nobody the lock.
LEMMA ReleasedLock ==
  ASSUME StoreAssumption, SlotInv, LockInv, NEW p \in Deliverer, Release(p)
  PROVE  /\ DOMAIN loaded' = Process /\ DOMAIN request' = Process
         /\ \A q \in Process : phase'[q] = "loaded" => phase[q] = "loaded"
         /\ \A d \in Room : phase'[d] \in {"shared", "read", "sent"} =>
                              phase'[d] = phase[d] /\ loaded'[d] = loaded[d] /\ request'[d] = request[d]
<1>1. phase \in [Process -> {"idle", "loaded", "unanswered", "waiting", "slot", "shared", "read", "sent"}]
  BY DEF SlotInv, Phases
<1>2. p \in Process /\ Room \subseteq Process
  BY Distinct DEF Deliverer, Process
<1>3. \A q \in Process : q # p => loaded'[q] = loaded[q] /\ request'[q] = request[q]
  BY <1>2 DEF Release, LockInv
<1>4. DOMAIN loaded' = Process /\ DOMAIN request' = Process
  BY DEF Release, LockInv
<1>5. \A q \in Process : phase'[q] \in {"idle", "slot"} \/ (q # p /\ phase'[q] = phase[q])
  BY <1>1, <1>2 DEF Release
<1> QED BY <1>2, <1>3, <1>4, <1>5

LEMMA NextKeepsLock ==
  ASSUME StoreAssumption, SlotInv, SlotInv', LockInv, [Next]_vars
  PROVE  LockInv'
<1>a. Phases /\ Phases'
  BY DEF SlotInv
<1>b. /\ \A d \in Room : d \in Process /\ d \in Deliverer /\ d \notin Client /\ d \notin Worker
      /\ \A c \in Client : c \in Process /\ c \notin Room
      /\ \A w \in Worker : w \in Process /\ w \in Deliverer /\ w \notin Room
      /\ \A p \in Deliverer : p \in Process /\ p \notin Client
  BY Distinct
<1>1. CASE UNCHANGED vars
  BY <1>1, <1>a, LockStays DEF vars, slots, tables, LockInv
<1>2. ASSUME NEW c \in Client, NEW r \in Asked, Begin(c, r) PROVE LockInv'
  <2>1. ForShare = {} /\ Move(c, "loaded") /\ UNCHANGED tables
    BY <1>2 DEF Begin
  <2>2. \A d \in Room : phase'[d] = phase[d]
    BY <1>b, <2>1, Moved
  <2>3. ForShare' = {} /\ \A d \in Room : phase'[d] # "read"
    BY <2>1, <2>2 DEF ForShare
  <2>4. DOMAIN loaded' = Process /\ DOMAIN request' = Process
    BY <1>2 DEF Begin, LockInv
  <2> QED BY <2>3, <2>4 DEF LockInv
<1>3. ASSUME NEW c \in Client, Commit(c) PROVE LockInv'
  <2>1. phase[c] = "loaded" /\ Move(c, "unanswered")
    BY <1>3 DEF Commit
  <2>2. DOMAIN loaded' = Process /\ DOMAIN request' = Process
    BY <1>3 DEF Commit, LockInv
  <2> QED BY <1>a, <1>b, <2>1, <2>2, Moved, LockedWrite
<1>4. ASSUME NEW c \in Client, Rollback(c) \/ Answer(c) PROVE LockInv'
  <2>1. UNCHANGED tables /\ \E to \in {"idle", "unanswered"} : Move(c, to)
    BY <1>4 DEF Rollback, Answer
  <2>2. /\ DOMAIN loaded' = Process /\ DOMAIN request' = Process
        /\ \A d \in Room : loaded'[d] = loaded[d] /\ request'[d] = request[d]
    BY <1>4, <1>b DEF Rollback, Answer, LockInv
  <2> QED BY <1>a, <1>b, <2>1, <2>2, Moved, LockStays
<1>5. ASSUME NEW p \in Deliverer, NEW r, Acquire(p, r) PROVE LockInv'
  <2>1. UNCHANGED tables /\ phase[p] = "idle" /\ \E to \in {"slot", "waiting"} : Move(p, to)
    BY <1>5 DEF Acquire
  <2>2. /\ DOMAIN loaded' = Process /\ DOMAIN request' = Process
        /\ \A d \in Room : d # p => loaded'[d] = loaded[d] /\ request'[d] = request[d]
    BY <1>5, <1>b DEF Acquire, LockInv
  <2> QED BY <1>a, <1>b, <2>1, <2>2, Moved, LockStays
<1>6. ASSUME NEW w \in Worker, BeginPush(w) PROVE LockInv'
  <2>1. ForShare = {} /\ Move(w, "loaded")
    BY <1>6 DEF BeginPush
  <2>2. \A d \in Room : phase'[d] = phase[d]
    BY <1>b, <2>1, Moved
  <2>3. ForShare' = {} /\ \A d \in Room : phase'[d] # "read"
    BY <2>1, <2>2 DEF ForShare
  <2>4. DOMAIN loaded' = Process /\ DOMAIN request' = Process
    BY <1>6 DEF BeginPush, LockInv
  <2> QED BY <2>3, <2>4 DEF LockInv
<1>7. ASSUME NEW w \in Worker, CommitPush(w) PROVE LockInv'
  BY <1>7, <1>a, <1>b, ReleasedLock, LockedWrite DEF CommitPush
<1>8. ASSUME NEW d \in Room, Share(d) PROVE LockInv'
  <2>1. ForUpdate = {} /\ Move(d, "shared") /\ UNCHANGED <<tables, loaded, request>>
    BY <1>8 DEF Share
  <2>2. phase'[d] = "shared" /\ \A p \in Process : p # d => phase'[p] = phase[p]
    BY <1>b, <2>1, Moved
  <2>3. ForUpdate' = {}
    BY <1>b, <2>1, <2>2 DEF ForUpdate
  <2>4. \A e \in Room : phase'[e] = "read" => phase[e] = "read"
    BY <1>b, <2>2
  <2> QED BY <2>1, <2>3, <2>4 DEF LockInv, Load, tables
<1>9. ASSUME NEW d \in Room, ReadShared(d) PROVE LockInv'
  <2>1. /\ phase[d] = "shared" /\ Move(d, "read") /\ UNCHANGED <<tables, request>>
        /\ loaded' = [loaded EXCEPT ![d] = Load({request[d].game})]
    BY <1>9 DEF ReadShared
  <2>2. phase'[d] = "read" /\ \A p \in Process : p # d => phase'[p] = phase[p]
    BY <1>b, <2>1, Moved
  <2>3. d \in ForShare /\ ForUpdate = {}
    BY <2>1 DEF LockInv, ForShare
  <2>4. ForUpdate' = {}
    BY <1>b, <2>2, <2>3 DEF ForUpdate
  <2>5. /\ DOMAIN loaded' = Process /\ loaded'[d] = Load({request[d].game})
        /\ \A e \in Room : e # d => loaded'[e] = loaded[e]
    BY <1>b, <2>1 DEF LockInv
  <2>6. \A e \in Room : phase'[e] = "read" => loaded'[e] = Load({request[e].game})
    BY <1>b, <2>2, <2>5 DEF LockInv
  <2> QED BY <2>1, <2>4, <2>5, <2>6 DEF LockInv, Load, tables
<1>10. ASSUME NEW d \in Room, Send(d) PROVE LockInv'
  <2>1. phase[d] = "read" /\ Move(d, "sent") /\ UNCHANGED <<tables, loaded, request>>
    BY <1>10 DEF Send
  <2> QED BY <1>a, <1>b, <2>1, Moved, LockStays DEF LockInv
<1>11. ASSUME NEW p \in Deliverer, Release(p), UNCHANGED tables PROVE LockInv'
  BY <1>11, <1>a, ReleasedLock, LockStays
<1>12. ASSUME NEW p \in Deliverer, Withdraw(p), phase[p] = "waiting", UNCHANGED tables PROVE LockInv'
  <2>1. Move(p, "idle")
    BY <1>12 DEF Withdraw
  <2>2. /\ DOMAIN loaded' = Process /\ DOMAIN request' = Process
        /\ \A d \in Room : d # p => loaded'[d] = loaded[d] /\ request'[d] = request[d]
    BY <1>12, <1>b DEF Withdraw, LockInv
  <2> QED BY <1>12, <1>a, <1>b, <2>1, <2>2, Moved, LockStays
<1>13. CASE Crash
  <2>1. /\ \A p \in Process : phase'[p] \in {"idle", "unanswered"}
        /\ DOMAIN loaded' = Process /\ DOMAIN request' = Process
    BY <1>13 DEF Crash
  <2> QED BY <1>b, <2>1 DEF LockInv, ForUpdate, ForShare
<1>14. ASSUME NEW p \in Deliverer, Cancel(p) PROVE LockInv'
  BY <1>11, <1>12, <1>14 DEF Cancel
<1>15. ASSUME NEW d \in Room, End(d) PROVE LockInv'
  BY <1>11, <1>15, <1>b DEF End
<1> QED BY <1>1, <1>2, <1>3, <1>4, <1>5, <1>6, <1>7, <1>8, <1>9, <1>10, <1>13, <1>14, <1>15, <1>b DEF Next

LEMMA InitLock ==
  ASSUME Init
  PROVE  LockInv
BY DEF Init, LockInv, ForUpdate, ForShare, Process

\* Only Send sends.
LEMMA SendsOnly ==
  ASSUME StoreAssumption, SlotInv, LockInv, Next, NEW d \in Room,
         phase[d] = "read", phase'[d] = "sent"
  PROVE  Send(d)
<1>a. /\ d \in Process /\ d \in Deliverer /\ d \notin Client /\ d \notin Worker
      /\ \A p \in Client \cup Worker \cup Room : p \in Process
      /\ \A p \in Worker \cup Room : p \in Deliverer
      /\ phase \in [Process -> {"idle", "loaded", "unanswered", "waiting", "slot", "shared", "read", "sent"}]
  BY Distinct DEF SlotInv, Phases
<1>1. ASSUME NEW p \in Process, NEW to \in {"idle", "loaded", "unanswered", "waiting", "slot", "shared", "read"},
             Move(p, to)
      PROVE  FALSE
  BY <1>1, <1>a, Moved
<1>2. ASSUME NEW p \in Deliverer, Release(p)
      PROVE  FALSE
  BY <1>2, <1>a DEF Release
<1>3. ASSUME NEW c \in Client, \/ \E r \in Asked : Begin(c, r)
                               \/ Commit(c) \/ Rollback(c) \/ Answer(c)
      PROVE  FALSE
  BY <1>1, <1>3, <1>a DEF Begin, Commit, Rollback, Answer
<1>4. ASSUME NEW p \in Deliverer, NEW r, Acquire(p, r)
      PROVE  FALSE
  BY <1>1, <1>4 DEF Acquire, Process, Deliverer
<1>5. ASSUME NEW w \in Worker, BeginPush(w) \/ CommitPush(w)
      PROVE  FALSE
  BY <1>1, <1>2, <1>5, <1>a DEF BeginPush, CommitPush
<1>6. ASSUME NEW e \in Room, Share(e) \/ ReadShared(e) \/ End(e)
      PROVE  FALSE
  BY <1>1, <1>2, <1>6, <1>a DEF Share, ReadShared, End
<1>7. ASSUME NEW p \in Deliverer, Cancel(p)
      PROVE  FALSE
  BY <1>1, <1>2, <1>7 DEF Cancel, Withdraw, Process, Deliverer
<1>8. ~Crash
  BY <1>a DEF Crash
<1>9. ASSUME NEW e \in Room, Send(e)
      PROVE  e = d
  BY <1>9, <1>a, Moved DEF Send
<1> QED BY <1>3, <1>4, <1>5, <1>6, <1>7, <1>8, <1>9, <1>a DEF Next

LEMMA SentIsAllowed ==
  ASSUME StoreAssumption, SlotInv, LockInv, [Next]_vars
  PROVE  [\A d \in Room : phase[d] = "read" /\ phase'[d] = "sent" => MayHear(Stored, request[d])]_vars
<1> SUFFICES ASSUME Next, NEW d \in Room, phase[d] = "read", phase'[d] = "sent"
             PROVE  MayHear(Stored, request[d])
  OBVIOUS
<1>1. MayHear(loaded[d], request[d])
  BY SendsOnly DEF Send
<1>2. loaded[d] = Load({request[d].game})
  BY DEF LockInv
<1> QED BY <1>1, <1>2 DEF MayHear, Load, Stored, WithGames, Active, Restrict

LEMMA Locked == Spec => []LockInv
<1>1. Init => LockInv
  BY InitLock
<1>2. SlotInv /\ SlotInv' /\ LockInv /\ [Next]_vars => LockInv'
  BY NextKeepsLock, StoreAssumption
<1> QED BY <1>1, <1>2, Slotted, PTL DEF Spec

\* What a room sends is addressed to a player who sits there by the state committed at that
\* moment, however many calls, workers and rooms compete for the lock.
THEOREM SendsStayAuthorized == Spec => SendsAreAuthorized
<1>1. SlotInv /\ LockInv /\ [Next]_vars =>
        [\A d \in Room : phase[d] = "read" /\ phase'[d] = "sent" => MayHear(Stored, request[d])]_vars
  BY SentIsAllowed, StoreAssumption
<1> QED BY <1>1, Slotted, Locked, PTL DEF Spec, SendsAreAuthorized

-----------------------------------------------------------------------------
(* What the tables hold.                                                   *)

Row == [creation : CreationId, over : BOOLEAN, deletedAt : Nat]
Receipt == [game : Game, deletedAt : Nat \ {0}, purgedAt : Nat]
Player == [game : Game, session : Session]

IsSnapshot(S) ==
  /\ S \in [games : {S.games},
            bindings : SUBSET [role : {"host", "seat"}, game : Game, session : Session, live : BOOLEAN],
            invitations : SUBSET Game,
            spectators : SUBSET Player,
            consents : SUBSET Player,
            sessions : SUBSET Session,
            ledger : Seq(Receipt)]
  /\ S.games \in [DOMAIN S.games -> Row]
  /\ DOMAIN S.games \subseteq Game

\* Who is bound is bound to an open game by a session in use; nobody else has one.
BindingsAreSound(S) ==
  /\ \A b \in S.bindings : b.live /\ Active(S, b.game) /\ b.session \in S.sessions
  /\ \A b \in S.spectators : b.session \in S.sessions
  /\ \A s \in S.sessions : \E b \in S.bindings \cup S.spectators : b.session = s

\* A game has one host, a creation identifier one game.
GamesAreUnique(S) ==
  /\ \A b, c \in S.bindings : b.role = "host" /\ c.role = "host" /\ b.game = c.game => b = c
  /\ \A g, h \in DOMAIN S.games : S.games[g].creation = S.games[h].creation => g = h

SnapshotInv(S) == IsSnapshot(S) /\ BindingsAreSound(S) /\ GamesAreUnique(S)

\* What a call has loaded is what is stored, in its scope; only one call has.
LoadsAreCurrent ==
  /\ \A p, q \in ForUpdate : p = q
  /\ \A p \in ForUpdate :
       loaded[p] = Load(IF p \in Client THEN Selection(request[p]) ELSE PushGames)

\* Who is at work does what it was asked to.
RequestsAreKnown ==
  /\ \A c \in Client : phase[c] # "idle" => request[c] \in Asked
  /\ \A w \in Worker : phase[w] # "idle" =>
       request[w] \in Request /\ request[w].kind \in {"unsubscribe", "poll"}

-----------------------------------------------------------------------------
(* Snapshots.                                                              *)

LEMMA SnapshotFields ==
  ASSUME NEW S, IsSnapshot(S)
  PROVE  /\ S = [games |-> S.games, bindings |-> S.bindings, invitations |-> S.invitations,
                 spectators |-> S.spectators, consents |-> S.consents, sessions |-> S.sessions,
                 ledger |-> S.ledger]
         /\ S.games = [g \in DOMAIN S.games |-> S.games[g]]
         /\ DOMAIN S.games \subseteq Game
         /\ \A g \in DOMAIN S.games : S.games[g] \in Row
         /\ S.bindings \subseteq [role : {"host", "seat"}, game : Game, session : Session, live : BOOLEAN]
         /\ S.invitations \subseteq Game
         /\ S.spectators \subseteq Player /\ S.consents \subseteq Player
         /\ S.sessions \subseteq Session
         /\ S.ledger \in Seq(Receipt)
BY DEF IsSnapshot

\* Two snapshots are the same if they agree field by field and game by game.
LEMMA SameSnapshot ==
  ASSUME NEW S, NEW T, IsSnapshot(S), IsSnapshot(T),
         DOMAIN S.games = DOMAIN T.games,
         \A g \in DOMAIN S.games : S.games[g] = T.games[g],
         S.bindings = T.bindings, S.invitations = T.invitations, S.spectators = T.spectators,
         S.consents = T.consents, S.sessions = T.sessions, S.ledger = T.ledger
  PROVE  S = T
<1>1. /\ S = [games |-> S.games, bindings |-> S.bindings, invitations |-> S.invitations,
             spectators |-> S.spectators, consents |-> S.consents, sessions |-> S.sessions,
             ledger |-> S.ledger]
      /\ S.games = [g \in DOMAIN S.games |-> S.games[g]]
  BY SnapshotFields
<1>2. /\ T = [games |-> T.games, bindings |-> T.bindings, invitations |-> T.invitations,
             spectators |-> T.spectators, consents |-> T.consents, sessions |-> T.sessions,
             ledger |-> T.ledger]
      /\ T.games = [g \in DOMAIN T.games |-> T.games[g]]
  BY SnapshotFields
<1>3. S.games = T.games
  BY <1>1, <1>2
<1> QED BY <1>1, <1>2, <1>3

LEMMA MadeSnapshot ==
  ASSUME NEW games, NEW bindings, NEW invitations, NEW spectators, NEW consents, NEW sessions,
         NEW ledger,
         games = [g \in DOMAIN games |-> games[g]], DOMAIN games \subseteq Game,
         \A g \in DOMAIN games : games[g] \in Row,
         bindings \subseteq [role : {"host", "seat"}, game : Game, session : Session, live : BOOLEAN],
         invitations \subseteq Game, spectators \subseteq Player, consents \subseteq Player,
         sessions \subseteq Session, ledger \in Seq(Receipt)
  PROVE  IsSnapshot([games |-> games, bindings |-> bindings, invitations |-> invitations,
                     spectators |-> spectators, consents |-> consents, sessions |-> sessions,
                     ledger |-> ledger])
BY DEF IsSnapshot

\* What the calls do to a snapshot, field by field.
LEMMA PruneFields ==
  ASSUME NEW S, IsSnapshot(S)
  PROVE  /\ IsSnapshot(Prune(S))
         /\ Prune(S).games = S.games /\ Prune(S).bindings = S.bindings
         /\ Prune(S).invitations = S.invitations /\ Prune(S).spectators = S.spectators
         /\ Prune(S).sessions = S.sessions /\ Prune(S).ledger = S.ledger
         /\ Prune(S).consents = {c \in S.consents : /\ Binding("seat", c.game, c.session) \in S.bindings
                                                    /\ c.session \in S.sessions
                                                    /\ Active(S, c.game)
                                                    /\ ~S.games[c.game].over}
<1> DEFINE kept == {c \in S.consents : /\ Binding("seat", c.game, c.session) \in S.bindings
                                       /\ c.session \in S.sessions
                                       /\ Active(S, c.game)
                                       /\ ~S.games[c.game].over}
<1>1. Prune(S) = [games |-> S.games, bindings |-> S.bindings, invitations |-> S.invitations,
                  spectators |-> S.spectators, consents |-> kept, sessions |-> S.sessions,
                  ledger |-> S.ledger]
  <2>1. Prune(S) = [S EXCEPT !.consents = kept]
    BY DEF Prune
  <2> HIDE DEF kept
  <2> QED BY <2>1, SnapshotFields
<1>2. kept \subseteq Player
  BY SnapshotFields
<1> HIDE DEF kept
<1>3. IsSnapshot(Prune(S))
  <2>1. /\ S.games = [g \in DOMAIN S.games |-> S.games[g]]
        /\ DOMAIN S.games \subseteq Game
        /\ \A g \in DOMAIN S.games : S.games[g] \in Row
        /\ S.bindings \subseteq [role : {"host", "seat"}, game : Game, session : Session, live : BOOLEAN]
        /\ S.invitations \subseteq Game /\ S.spectators \subseteq Player
        /\ S.sessions \subseteq Session /\ S.ledger \in Seq(Receipt)
    BY SnapshotFields
  <2> QED BY <1>1, <1>2, <2>1, MadeSnapshot
<1>4. Prune(S).consents = kept
  BY <1>1
<1> QED BY <1>1, <1>3, <1>4 DEF kept

SeatType == [role : {"host", "seat"}, game : Game, session : Session, live : BOOLEAN]

\* The calls with a game and a session.
PlayerCalls == {"claim", "watch", "subscribe", "unsubscribe", "finish", "delete"}

LEMMA RequestFields ==
  ASSUME NEW r \in Request
  PROVE  /\ r.kind \in PlayerCalls \cup {"create", "purge", "poll"}
         /\ r.kind = "create" => r.session \in Session /\ r.id \in CreationId
         /\ r.kind \in PlayerCalls => r.game \in Game /\ r.session \in Session
         /\ r.kind = "purge" => r.upTo \in 1..(2 * MaxGames)
BY DEF Request, PlayerCalls

LEMMA BoundTypes ==
  ASSUME NEW g \in Game, NEW s \in Session, NEW role \in {"host", "seat"}
  PROVE  /\ Binding(role, g, s) \in SeatType
         /\ [game |-> g, session |-> s] \in Player
BY DEF Binding, SeatType, Player

LEMMA CreateFields ==
  ASSUME NEW S, IsSnapshot(S), NEW r \in Request, r.kind = "create", NEW new \in Game,
         ~ \E g \in DOMAIN S.games : S.games[g].creation = r.id
  PROVE  LET T == CreateGame(S, r, new) IN
         /\ IsSnapshot(T)
         /\ T.games = [g \in DOMAIN S.games \cup {new} |->
                         IF g \in DOMAIN S.games THEN S.games[g]
                         ELSE [creation |-> r.id, over |-> FALSE, deletedAt |-> 0]]
         /\ T.bindings = S.bindings \cup {Binding("host", new, r.session), Binding("seat", new, r.session)}
         /\ T.invitations = S.invitations \cup {new}
         /\ T.spectators = S.spectators /\ T.consents = S.consents
         /\ T.sessions = S.sessions \cup {r.session}
         /\ T.ledger = S.ledger
<1> DEFINE games == [g \in DOMAIN S.games \cup {new} |->
                       IF g \in DOMAIN S.games THEN S.games[g]
                       ELSE [creation |-> r.id, over |-> FALSE, deletedAt |-> 0]]
           bindings == S.bindings \cup {Binding("host", new, r.session), Binding("seat", new, r.session)}
           T == [games |-> games, bindings |-> bindings, invitations |-> S.invitations \cup {new},
                 spectators |-> S.spectators, consents |-> S.consents,
                 sessions |-> S.sessions \cup {r.session}, ledger |-> S.ledger]
<1>1. S = [games |-> S.games, bindings |-> S.bindings, invitations |-> S.invitations,
           spectators |-> S.spectators, consents |-> S.consents, sessions |-> S.sessions,
           ledger |-> S.ledger]
  BY SnapshotFields
<1>2. CreateGame(S, r, new) = T
  BY <1>1 DEF CreateGame, WithSession
<1>3. r.session \in Session /\ r.id \in CreationId
  BY RequestFields
<1>4. /\ DOMAIN S.games \subseteq Game /\ \A g \in DOMAIN S.games : S.games[g] \in Row
      /\ S.bindings \subseteq SeatType /\ S.invitations \subseteq Game
      /\ S.spectators \subseteq Player /\ S.consents \subseteq Player
      /\ S.sessions \subseteq Session /\ S.ledger \in Seq(Receipt)
  BY SnapshotFields DEF SeatType
<1>5. /\ games = [g \in DOMAIN games |-> games[g]] /\ DOMAIN games \subseteq Game
      /\ \A g \in DOMAIN games : games[g] \in Row
  BY <1>3, <1>4 DEF Row
<1>6. bindings \subseteq SeatType
  BY <1>3, <1>4, BoundTypes
<1>7. S.invitations \cup {new} \subseteq Game /\ S.sessions \cup {r.session} \subseteq Session
  BY <1>3, <1>4
<1>8. IsSnapshot(T)
  <2> HIDE DEF games, bindings
  <2> QED BY <1>4, <1>5, <1>6, <1>7, MadeSnapshot DEF SeatType
<1> QED BY <1>2, <1>8

LEMMA ClaimFields ==
  ASSUME NEW S, IsSnapshot(S), NEW r \in Request, r.kind = "claim",
         r.game \in S.invitations, Active(S, r.game),
         Binding("seat", r.game, r.session) \notin S.bindings
  PROVE  LET T == ClaimInvitation(S, r) IN
         /\ IsSnapshot(T)
         /\ T.games = S.games
         /\ T.bindings = S.bindings \cup {Binding("seat", r.game, r.session)}
         /\ T.invitations = S.invitations \ {r.game}
         /\ T.spectators = S.spectators /\ T.consents = S.consents
         /\ T.sessions = S.sessions \cup {r.session}
         /\ T.ledger = S.ledger
<1> DEFINE bindings == S.bindings \cup {Binding("seat", r.game, r.session)}
           T == [games |-> S.games, bindings |-> bindings, invitations |-> S.invitations \ {r.game},
                 spectators |-> S.spectators, consents |-> S.consents,
                 sessions |-> S.sessions \cup {r.session}, ledger |-> S.ledger]
<1>1. S = [games |-> S.games, bindings |-> S.bindings, invitations |-> S.invitations,
           spectators |-> S.spectators, consents |-> S.consents, sessions |-> S.sessions,
           ledger |-> S.ledger]
  BY SnapshotFields
<1>2. ClaimInvitation(S, r) = T
  BY <1>1 DEF ClaimInvitation, WithSession
<1>3. r.session \in Session /\ r.game \in Game
  BY RequestFields DEF PlayerCalls
<1>4. /\ S.games = [g \in DOMAIN S.games |-> S.games[g]]
      /\ DOMAIN S.games \subseteq Game /\ \A g \in DOMAIN S.games : S.games[g] \in Row
      /\ S.bindings \subseteq SeatType /\ S.invitations \subseteq Game
      /\ S.spectators \subseteq Player /\ S.consents \subseteq Player
      /\ S.sessions \subseteq Session /\ S.ledger \in Seq(Receipt)
  BY SnapshotFields DEF SeatType
<1>5. bindings \subseteq SeatType
  BY <1>3, <1>4, BoundTypes
<1>6. S.invitations \ {r.game} \subseteq Game /\ S.sessions \cup {r.session} \subseteq Session
  BY <1>3, <1>4
<1>7. IsSnapshot(T)
  <2> HIDE DEF bindings
  <2> QED BY <1>4, <1>5, <1>6, MadeSnapshot DEF SeatType
<1> QED BY <1>2, <1>7

LEMMA WatchFields ==
  ASSUME NEW S, IsSnapshot(S), NEW r \in Request, r.kind = "watch", Active(S, r.game)
  PROVE  LET T == ClaimSpectatorInvitation(S, r) IN
         /\ IsSnapshot(T)
         /\ T.games = S.games /\ T.bindings = S.bindings /\ T.invitations = S.invitations
         /\ T.spectators = S.spectators \cup {[game |-> r.game, session |-> r.session]}
         /\ T.consents = S.consents
         /\ T.sessions = S.sessions \cup {r.session}
         /\ T.ledger = S.ledger
<1> DEFINE spectators == S.spectators \cup {[game |-> r.game, session |-> r.session]}
           T == [games |-> S.games, bindings |-> S.bindings, invitations |-> S.invitations,
                 spectators |-> spectators, consents |-> S.consents,
                 sessions |-> S.sessions \cup {r.session}, ledger |-> S.ledger]
<1>1. S = [games |-> S.games, bindings |-> S.bindings, invitations |-> S.invitations,
           spectators |-> S.spectators, consents |-> S.consents, sessions |-> S.sessions,
           ledger |-> S.ledger]
  BY SnapshotFields
<1>2. ClaimSpectatorInvitation(S, r) = T
  BY <1>1 DEF ClaimSpectatorInvitation, WithSession
<1>3. r.session \in Session /\ r.game \in Game
  BY RequestFields DEF PlayerCalls
<1>4. /\ S.games = [g \in DOMAIN S.games |-> S.games[g]]
      /\ DOMAIN S.games \subseteq Game /\ \A g \in DOMAIN S.games : S.games[g] \in Row
      /\ S.bindings \subseteq SeatType /\ S.invitations \subseteq Game
      /\ S.spectators \subseteq Player /\ S.consents \subseteq Player
      /\ S.sessions \subseteq Session /\ S.ledger \in Seq(Receipt)
  BY SnapshotFields DEF SeatType
<1>5. spectators \subseteq Player
  BY <1>3, <1>4, BoundTypes
<1>6. S.sessions \cup {r.session} \subseteq Session
  BY <1>3, <1>4
<1>7. IsSnapshot(T)
  <2> HIDE DEF spectators
  <2> QED BY <1>4, <1>5, <1>6, MadeSnapshot DEF SeatType
<1> QED BY <1>2, <1>7

\* Consents are changed by two calls, and nothing else is.
LEMMA ConsentFields ==
  ASSUME NEW S, IsSnapshot(S), NEW consents \in SUBSET Player
  PROVE  LET T == [S EXCEPT !.consents = consents] IN
         /\ IsSnapshot(T)
         /\ T.games = S.games /\ T.bindings = S.bindings /\ T.invitations = S.invitations
         /\ T.spectators = S.spectators /\ T.consents = consents
         /\ T.sessions = S.sessions /\ T.ledger = S.ledger
<1> DEFINE T == [games |-> S.games, bindings |-> S.bindings, invitations |-> S.invitations,
                 spectators |-> S.spectators, consents |-> consents,
                 sessions |-> S.sessions, ledger |-> S.ledger]
<1>1. S = [games |-> S.games, bindings |-> S.bindings, invitations |-> S.invitations,
           spectators |-> S.spectators, consents |-> S.consents, sessions |-> S.sessions,
           ledger |-> S.ledger]
  BY SnapshotFields
<1>2. [S EXCEPT !.consents = consents] = T
  BY <1>1
<1>3. /\ S.games = [g \in DOMAIN S.games |-> S.games[g]]
      /\ DOMAIN S.games \subseteq Game /\ \A g \in DOMAIN S.games : S.games[g] \in Row
      /\ S.bindings \subseteq SeatType /\ S.invitations \subseteq Game
      /\ S.spectators \subseteq Player
      /\ S.sessions \subseteq Session /\ S.ledger \in Seq(Receipt)
  BY SnapshotFields DEF SeatType
<1>4. IsSnapshot(T)
  BY <1>3, MadeSnapshot DEF SeatType
<1> QED BY <1>2, <1>4

LEMMA FinishFields ==
  ASSUME NEW S, IsSnapshot(S), NEW r, Active(S, r.game),
         Binding("seat", r.game, r.session) \in S.bindings
  PROVE  LET T == FinishGame(S, r) IN
         /\ IsSnapshot(T)
         /\ T.games = [g \in DOMAIN S.games |->
                         IF g = r.game THEN [S.games[g] EXCEPT !.over = TRUE] ELSE S.games[g]]
         /\ T.bindings = S.bindings /\ T.invitations = S.invitations
         /\ T.spectators = S.spectators /\ T.consents = S.consents
         /\ T.sessions = S.sessions /\ T.ledger = S.ledger
<1> DEFINE games == [g \in DOMAIN S.games |->
                       IF g = r.game THEN [S.games[g] EXCEPT !.over = TRUE] ELSE S.games[g]]
           T == [games |-> games, bindings |-> S.bindings, invitations |-> S.invitations,
                 spectators |-> S.spectators, consents |-> S.consents,
                 sessions |-> S.sessions, ledger |-> S.ledger]
<1>1. S = [games |-> S.games, bindings |-> S.bindings, invitations |-> S.invitations,
           spectators |-> S.spectators, consents |-> S.consents, sessions |-> S.sessions,
           ledger |-> S.ledger]
  BY SnapshotFields
<1>2. /\ S.games = [g \in DOMAIN S.games |-> S.games[g]]
      /\ DOMAIN S.games \subseteq Game /\ \A g \in DOMAIN S.games : S.games[g] \in Row
      /\ S.bindings \subseteq SeatType /\ S.invitations \subseteq Game
      /\ S.spectators \subseteq Player /\ S.consents \subseteq Player
      /\ S.sessions \subseteq Session /\ S.ledger \in Seq(Receipt)
  BY SnapshotFields DEF SeatType
<1>3. FinishGame(S, r) = T
  <2>1. [S.games EXCEPT ![r.game].over = TRUE] = games
    BY <1>2 DEF Active
  <2>2. FinishGame(S, r) = [S EXCEPT !.games = [S.games EXCEPT ![r.game].over = TRUE]]
    BY DEF FinishGame
  <2> HIDE DEF games
  <2> QED BY <1>1, <2>1, <2>2
<1>4. /\ games = [g \in DOMAIN games |-> games[g]] /\ DOMAIN games \subseteq Game
      /\ \A g \in DOMAIN games : games[g] \in Row
  BY <1>2 DEF Row
<1>5. IsSnapshot(T)
  <2> HIDE DEF games
  <2> QED BY <1>2, <1>4, MadeSnapshot DEF SeatType
<1> QED BY <1>3, <1>5

LEMMA IdleFields ==
  ASSUME NEW S, IsSnapshot(S)
  PROVE  LET T == WithoutIdleSessions(S) IN
         /\ IsSnapshot(T)
         /\ T.games = S.games /\ T.bindings = S.bindings /\ T.invitations = S.invitations
         /\ T.spectators = S.spectators /\ T.consents = S.consents
         /\ T.sessions = {s \in S.sessions : \E b \in S.bindings \cup S.spectators : b.session = s}
         /\ T.ledger = S.ledger
<1> DEFINE sessions == {s \in S.sessions : \E b \in S.bindings \cup S.spectators : b.session = s}
           T == [games |-> S.games, bindings |-> S.bindings, invitations |-> S.invitations,
                 spectators |-> S.spectators, consents |-> S.consents,
                 sessions |-> sessions, ledger |-> S.ledger]
<1>1. S = [games |-> S.games, bindings |-> S.bindings, invitations |-> S.invitations,
           spectators |-> S.spectators, consents |-> S.consents, sessions |-> S.sessions,
           ledger |-> S.ledger]
  BY SnapshotFields
<1>2. /\ S.games = [g \in DOMAIN S.games |-> S.games[g]]
      /\ DOMAIN S.games \subseteq Game /\ \A g \in DOMAIN S.games : S.games[g] \in Row
      /\ S.bindings \subseteq SeatType /\ S.invitations \subseteq Game
      /\ S.spectators \subseteq Player /\ S.consents \subseteq Player
      /\ S.sessions \subseteq Session /\ S.ledger \in Seq(Receipt)
  BY SnapshotFields DEF SeatType
<1>3. WithoutIdleSessions(S) = T
  <2>1. WithoutIdleSessions(S) = [S EXCEPT !.sessions = sessions]
    BY DEF WithoutIdleSessions
  <2> HIDE DEF sessions
  <2> QED BY <1>1, <2>1
<1>4. sessions \subseteq Session
  BY <1>2
<1>5. IsSnapshot(T)
  <2> HIDE DEF sessions
  <2> QED BY <1>2, <1>4, MadeSnapshot DEF SeatType
<1> QED BY <1>3, <1>5

LEMMA DeleteFields ==
  ASSUME NEW S, IsSnapshot(S), NEW r \in Request, r.kind = "delete", NEW now \in Nat \ {0},
         Active(S, r.game), Binding("host", r.game, r.session) \in S.bindings
  PROVE  LET T == DeleteGame(S, r, now) IN
         /\ IsSnapshot(T)
         /\ T.games = [g \in DOMAIN S.games |->
                         IF g = r.game THEN [S.games[g] EXCEPT !.deletedAt = now] ELSE S.games[g]]
         /\ T.bindings = {b \in S.bindings : b.game # r.game}
         /\ T.invitations = S.invitations \ {r.game}
         /\ T.spectators = {b \in S.spectators : b.game # r.game}
         /\ T.consents = S.consents
         /\ T.sessions = {s \in S.sessions : \E b \in T.bindings \cup T.spectators : b.session = s}
         /\ T.ledger = Append(S.ledger, [game |-> r.game, deletedAt |-> now, purgedAt |-> 0])
<1> DEFINE games == [g \in DOMAIN S.games |->
                       IF g = r.game THEN [S.games[g] EXCEPT !.deletedAt = now] ELSE S.games[g]]
           bindings == {b \in S.bindings : b.game # r.game}
           spectators == {b \in S.spectators : b.game # r.game}
           ledger == Append(S.ledger, [game |-> r.game, deletedAt |-> now, purgedAt |-> 0])
           U == [games |-> games, bindings |-> bindings, invitations |-> S.invitations \ {r.game},
                 spectators |-> spectators, consents |-> S.consents,
                 sessions |-> S.sessions, ledger |-> ledger]
<1>1. S = [games |-> S.games, bindings |-> S.bindings, invitations |-> S.invitations,
           spectators |-> S.spectators, consents |-> S.consents, sessions |-> S.sessions,
           ledger |-> S.ledger]
  BY SnapshotFields
<1>2. /\ S.games = [g \in DOMAIN S.games |-> S.games[g]]
      /\ DOMAIN S.games \subseteq Game /\ \A g \in DOMAIN S.games : S.games[g] \in Row
      /\ S.bindings \subseteq SeatType /\ S.invitations \subseteq Game
      /\ S.spectators \subseteq Player /\ S.consents \subseteq Player
      /\ S.sessions \subseteq Session /\ S.ledger \in Seq(Receipt)
  BY SnapshotFields DEF SeatType
<1>3. DeleteGame(S, r, now) = WithoutIdleSessions(U)
  <2>1. [S.games EXCEPT ![r.game].deletedAt = now] = games
    BY <1>2 DEF Active
  <2>2. S.bindings \ Of(r.game, S.bindings) = bindings /\ S.spectators \ Of(r.game, S.spectators) = spectators
    BY DEF Of
  <2>3. DeleteGame(S, r, now) =
          WithoutIdleSessions(
            [S EXCEPT !.games = [S.games EXCEPT ![r.game].deletedAt = now],
                      !.ledger = ledger,
                      !.bindings = S.bindings \ Of(r.game, S.bindings),
                      !.spectators = S.spectators \ Of(r.game, S.spectators),
                      !.invitations = S.invitations \ {r.game}])
    BY DEF DeleteGame
  <2> HIDE DEF games, bindings, spectators, ledger
  <2>4. DeleteGame(S, r, now) =
          WithoutIdleSessions(
            [S EXCEPT !.games = games, !.ledger = ledger, !.bindings = bindings,
                      !.spectators = spectators, !.invitations = S.invitations \ {r.game}])
    BY <2>1, <2>2, <2>3
  <2>5. [S EXCEPT !.games = games, !.ledger = ledger, !.bindings = bindings,
                  !.spectators = spectators, !.invitations = S.invitations \ {r.game}] = U
    <3> DEFINE T == [S EXCEPT !.games = games, !.ledger = ledger, !.bindings = bindings,
                              !.spectators = spectators, !.invitations = S.invitations \ {r.game}]
    <3>1. /\ DOMAIN T = {"games", "bindings", "invitations", "spectators", "consents", "sessions", "ledger"}
          /\ T = [x \in DOMAIN T |-> T[x]]
      BY <1>1
    <3>2. /\ T.games = games /\ T.ledger = ledger /\ T.bindings = bindings
          /\ T.spectators = spectators /\ T.invitations = S.invitations \ {r.game}
          /\ T.consents = S.consents /\ T.sessions = S.sessions
      BY <1>1
    <3> HIDE DEF T
    <3>3. T = U
      BY <3>1, <3>2
    <3> QED BY <3>3 DEF T
  <2> QED BY <2>4, <2>5
<1>4. r.game \in Game
  BY RequestFields DEF PlayerCalls
<1>5. /\ games = [g \in DOMAIN games |-> games[g]] /\ DOMAIN games \subseteq Game
      /\ \A g \in DOMAIN games : games[g] \in Row
  BY <1>2 DEF Row
<1>6. bindings \subseteq SeatType /\ spectators \subseteq Player /\ S.invitations \ {r.game} \subseteq Game
  BY <1>2
<1>7. ledger \in Seq(Receipt)
  <2>1. [game |-> r.game, deletedAt |-> now, purgedAt |-> 0] \in Receipt
    BY <1>4 DEF Receipt
  <2> QED BY <1>2, <2>1
<1>8. IsSnapshot(U)
  <2> HIDE DEF games, bindings, spectators, ledger
  <2> QED BY <1>2, <1>5, <1>6, <1>7, MadeSnapshot DEF SeatType
<1> HIDE DEF U
<1>9. LET T == WithoutIdleSessions(U) IN
         /\ IsSnapshot(T)
         /\ T.games = U.games /\ T.bindings = U.bindings /\ T.invitations = U.invitations
         /\ T.spectators = U.spectators /\ T.consents = U.consents
         /\ T.sessions = {s \in U.sessions : \E b \in U.bindings \cup U.spectators : b.session = s}
         /\ T.ledger = U.ledger
  BY <1>8, IdleFields
<1>10. /\ U.games = games /\ U.bindings = bindings /\ U.invitations = S.invitations \ {r.game}
       /\ U.spectators = spectators /\ U.consents = S.consents /\ U.sessions = S.sessions
       /\ U.ledger = ledger
  BY DEF U
<1> HIDE DEF games, bindings, spectators, ledger
<1>11. LET T == DeleteGame(S, r, now) IN
         /\ IsSnapshot(T)
         /\ T.games = games /\ T.bindings = bindings /\ T.invitations = S.invitations \ {r.game}
         /\ T.spectators = spectators /\ T.consents = S.consents
         /\ T.sessions = {s \in S.sessions : \E b \in bindings \cup spectators : b.session = s}
         /\ T.ledger = ledger
  BY <1>3, <1>9, <1>10
<1> QED BY <1>11 DEF games, bindings, spectators, ledger

-----------------------------------------------------------------------------
(* The deletion ledger.                                                    *)

Closed(receipts) == {receipts[i].game : i \in {j \in DOMAIN receipts : receipts[j].purgedAt = 0}}
Purged(receipts) == {receipts[i].game : i \in {j \in DOMAIN receipts : receipts[j].purgedAt # 0}}

LEMMA ReceiptFields ==
  ASSUME NEW S, IsSnapshot(S), NEW receipts \in Seq(Receipt)
  PROVE  LET T == ApplyReceipts(S, receipts) IN
         /\ IsSnapshot(T)
         /\ T.ledger = S.ledger \o receipts
         /\ T.spectators = {b \in S.spectators : b.game \notin Closed(receipts) \cup Purged(receipts)}
         /\ T.invitations = S.invitations \ (Closed(receipts) \cup Purged(receipts))
         /\ T.consents = S.consents /\ T.sessions = S.sessions
         /\ DOMAIN T.games = DOMAIN S.games \ Purged(receipts)
         /\ \A g \in DOMAIN T.games :
              /\ T.games[g].creation = S.games[g].creation /\ T.games[g].over = S.games[g].over
              /\ g \in Closed(receipts) => T.games[g].deletedAt # 0
              /\ g \notin Closed(receipts) => T.games[g] = S.games[g]
         /\ T.bindings = {IF b.game \in Closed(receipts) THEN [b EXCEPT !.live = FALSE] ELSE b
                            : b \in S.bindings}
<1> DEFINE tombstones == {i \in DOMAIN receipts : receipts[i].purgedAt = 0}
           DeletedAt(g) == receipts[CHOOSE i \in tombstones : receipts[i].game = g].deletedAt
           gone == Closed(receipts) \cup Purged(receipts)
           spectators == {b \in S.spectators : b.game \notin gone}
           games == [g \in DOMAIN S.games \ Purged(receipts) |->
                       IF g \in Closed(receipts) THEN [S.games[g] EXCEPT !.deletedAt = DeletedAt(g)]
                       ELSE S.games[g]]
           bindings == {IF b.game \in Closed(receipts) THEN [b EXCEPT !.live = FALSE] ELSE b
                          : b \in S.bindings}
           T == [games |-> games, bindings |-> bindings, invitations |-> S.invitations \ gone,
                 spectators |-> spectators, consents |-> S.consents,
                 sessions |-> S.sessions, ledger |-> S.ledger \o receipts]
<1>1. S = [games |-> S.games, bindings |-> S.bindings, invitations |-> S.invitations,
           spectators |-> S.spectators, consents |-> S.consents, sessions |-> S.sessions,
           ledger |-> S.ledger]
  BY SnapshotFields
<1>2. /\ S.games = [g \in DOMAIN S.games |-> S.games[g]]
      /\ DOMAIN S.games \subseteq Game /\ \A g \in DOMAIN S.games : S.games[g] \in Row
      /\ S.bindings \subseteq SeatType /\ S.invitations \subseteq Game
      /\ S.spectators \subseteq Player /\ S.consents \subseteq Player
      /\ S.sessions \subseteq Session /\ S.ledger \in Seq(Receipt)
  BY SnapshotFields DEF SeatType
<1>3. ApplyReceipts(S, receipts) = T
  <2>1. /\ Closed(receipts) = {receipts[i].game : i \in tombstones}
        /\ Purged(receipts) = {receipts[i].game : i \in DOMAIN receipts \ tombstones}
    BY DEF Closed, Purged
  <2>2. ApplyReceipts(S, receipts) =
          [S EXCEPT !.ledger = S.ledger \o receipts, !.spectators = spectators,
                    !.invitations = S.invitations \ gone, !.games = games, !.bindings = bindings]
    BY <2>1 DEF ApplyReceipts
  <2> HIDE DEF games, bindings, spectators, gone
  <2> QED BY <1>1, <2>2
<1>4. \A g \in Closed(receipts) : DeletedAt(g) \in Nat \ {0}
  <2>1. ASSUME NEW g \in Closed(receipts) PROVE DeletedAt(g) \in Nat \ {0}
    <3>1. \E i \in tombstones : receipts[i].game = g
      BY DEF Closed
    <3>2. (CHOOSE i \in tombstones : receipts[i].game = g) \in tombstones
      BY <3>1
    <3>3. \A i \in DOMAIN receipts : receipts[i] \in Receipt
      OBVIOUS
    <3>4. \A i \in tombstones : receipts[i].deletedAt \in Nat \ {0}
      BY <3>3 DEF Receipt
    <3> QED BY <3>2, <3>4
  <2> QED BY <2>1
<1> HIDE DEF DeletedAt
<1>5. \A g \in DOMAIN S.games : S.games[g] = [creation |-> S.games[g].creation, over |-> S.games[g].over,
                                              deletedAt |-> S.games[g].deletedAt]
                                /\ S.games[g].creation \in CreationId /\ S.games[g].over \in BOOLEAN
  BY <1>2 DEF Row
<1>6. DOMAIN games = DOMAIN S.games \ Purged(receipts) /\ games = [g \in DOMAIN games |-> games[g]]
  OBVIOUS
<1>7. ASSUME NEW g \in DOMAIN games
      PROVE  /\ games[g] \in Row
             /\ games[g].creation = S.games[g].creation /\ games[g].over = S.games[g].over
             /\ g \in Closed(receipts) => games[g].deletedAt # 0
             /\ g \notin Closed(receipts) => games[g] = S.games[g]
  <2>1. CASE g \in Closed(receipts)
    <3>1. games[g] = [creation |-> S.games[g].creation, over |-> S.games[g].over, deletedAt |-> DeletedAt(g)]
      <4>1. g \in DOMAIN S.games /\ games[g] = [S.games[g] EXCEPT !.deletedAt = DeletedAt(g)]
        BY <1>6, <2>1
      <4> HIDE DEF games
      <4>2. S.games[g] = [creation |-> S.games[g].creation, over |-> S.games[g].over,
                          deletedAt |-> S.games[g].deletedAt]
        BY <1>5, <4>1
      <4> QED BY <4>1, <4>2
    <3> HIDE DEF games
    <3>2. DeletedAt(g) \in Nat \ {0} /\ g \in DOMAIN S.games
      BY <1>4, <1>6, <2>1
    <3>3. games[g] \in Row
      <4>1. S.games[g].creation \in CreationId /\ S.games[g].over \in BOOLEAN
        BY <1>5, <3>2
      <4> HIDE DEF games
      <4> QED BY <3>1, <3>2, <4>1 DEF Row
    <3>4. games[g].creation = S.games[g].creation /\ games[g].over = S.games[g].over
          /\ games[g].deletedAt = DeletedAt(g)
      BY <3>1
    <3> QED BY <2>1, <3>2, <3>3, <3>4
  <2>2. CASE g \notin Closed(receipts)
    <3>1. games[g] = S.games[g]
      BY <1>6, <2>2
    <3> HIDE DEF games
    <3> QED BY <1>2, <1>6, <2>2, <3>1
  <2> QED BY <2>1, <2>2
<1>8. bindings \subseteq SeatType
  BY <1>2 DEF SeatType
<1>9. /\ spectators \subseteq Player /\ S.invitations \ gone \subseteq Game
      /\ S.ledger \o receipts \in Seq(Receipt)
  BY <1>2
<1> HIDE DEF games, bindings, spectators, gone
<1>10. IsSnapshot(T)
  <2>1. DOMAIN games \subseteq Game
    BY <1>2, <1>6
  <2> QED BY <1>2, <1>6, <1>7, <1>8, <1>9, <2>1, MadeSnapshot DEF SeatType
<1>11. /\ T.games = games /\ T.bindings = bindings /\ T.invitations = S.invitations \ gone
       /\ T.spectators = spectators /\ T.consents = S.consents /\ T.sessions = S.sessions
       /\ T.ledger = S.ledger \o receipts
  OBVIOUS
<1> HIDE DEF T
<1>12. /\ IsSnapshot(T) /\ T.ledger = S.ledger \o receipts
       /\ T.spectators = {b \in S.spectators : b.game \notin Closed(receipts) \cup Purged(receipts)}
       /\ T.invitations = S.invitations \ (Closed(receipts) \cup Purged(receipts))
       /\ T.consents = S.consents /\ T.sessions = S.sessions
       /\ T.bindings = {IF b.game \in Closed(receipts) THEN [b EXCEPT !.live = FALSE] ELSE b
                          : b \in S.bindings}
  BY <1>10, <1>11 DEF spectators, gone, bindings
<1>13. /\ DOMAIN T.games = DOMAIN S.games \ Purged(receipts)
       /\ \A g \in DOMAIN T.games :
            /\ T.games[g].creation = S.games[g].creation /\ T.games[g].over = S.games[g].over
            /\ g \in Closed(receipts) => T.games[g].deletedAt # 0
            /\ g \notin Closed(receipts) => T.games[g] = S.games[g]
  BY <1>6, <1>7, <1>11
<1> QED BY <1>3, <1>12, <1>13

\* A set of games can be enumerated in order: the place of a game is how many come before it.
LEMMA Enumerated ==
  ASSUME MaxGames \in Nat, NEW games \in SUBSET Game
  PROVE  /\ Cardinality(games) \in Nat
         /\ InOrder(games) \in [1..Cardinality(games) -> games]
<1> DEFINE n == Cardinality(games)
           UpTo(g) == {h \in games : h <= g}
           place == [g \in games |-> Cardinality(UpTo(g))]
<1>1. games \subseteq Nat /\ IsFiniteSet(games)
  <2>1. IsFiniteSet(Game)
    BY FS_Interval DEF Game
  <2>2. IsFiniteSet(games)
    BY <2>1, FS_Subset
  <2> QED BY <2>2 DEF Game
<1>2. n \in Nat
  BY <1>1, FS_CardinalityType
<1>3. ASSUME NEW g \in games
      PROVE  IsFiniteSet(UpTo(g)) /\ Cardinality(UpTo(g)) \in 1..n
  <2>1. IsFiniteSet(UpTo(g)) /\ Cardinality(UpTo(g)) <= n
    BY <1>1, FS_Subset
  <2>2. Cardinality(UpTo(g)) \in Nat
    BY <2>1, FS_CardinalityType
  <2>3. g \in UpTo(g)
    BY <1>1
  <2>4. Cardinality(UpTo(g)) # 0
    BY <2>1, <2>3, FS_EmptySet
  <2> HIDE DEF UpTo
  <2> QED BY <1>2, <2>1, <2>2, <2>4
<1>4. ASSUME NEW g \in games, NEW h \in games, g < h
      PROVE  place[g] < place[h]
  <2>1. UpTo(g) \subseteq UpTo(h)
    <3>1. g \in Nat /\ h \in Nat /\ \A k \in games : k \in Nat
      BY <1>1
    <3>2. \A k \in games : k <= g => k <= h
      BY <1>4, <3>1
    <3> QED BY <3>2
  <2>2. h \in UpTo(h) /\ h \notin UpTo(g)
    BY <1>1, <1>4
  <2>3. Cardinality(UpTo(g)) <= Cardinality(UpTo(h)) /\ Cardinality(UpTo(g)) # Cardinality(UpTo(h))
    BY <1>3, <2>1, <2>2, FS_Subset
  <2>4. Cardinality(UpTo(g)) \in Nat /\ Cardinality(UpTo(h)) \in Nat
    BY <1>2, <1>3
  <2>5. place[g] = Cardinality(UpTo(g)) /\ place[h] = Cardinality(UpTo(h))
    OBVIOUS
  <2> HIDE DEF UpTo, place
  <2> QED BY <2>3, <2>4, <2>5
<1>5. place \in [games -> 1..n]
  BY <1>3
<1> HIDE DEF place
<1>6. place \in Injection(games, 1..n)
  <2>1. \A g, h \in games : place[g] = place[h] => g = h
    <3> SUFFICES ASSUME NEW g \in games, NEW h \in games, place[g] = place[h], g # h
                 PROVE  FALSE
      OBVIOUS
    <3>1. place[g] \in Nat /\ place[h] \in Nat
      BY <1>2, <1>5
    <3>2. g < h \/ h < g
      BY <1>1
    <3> QED BY <1>4, <3>1, <3>2
  <2> QED BY <1>5, <2>1 DEF Injection, IsInjective
<1>7. place \in Surjection(games, 1..n)
  <2>1. IsFiniteSet(1..n) /\ Cardinality(1..n) = n
    BY <1>2, FS_Interval
  <2> QED BY <1>6, <2>1, FS_Injection
<1> DEFINE order == [i \in 1..n |-> CHOOSE g \in games : place[g] = i]
<1>8. ASSUME NEW i \in 1..n
      PROVE  order[i] \in games /\ place[order[i]] = i
  <2>1. \E g \in games : place[g] = i
    BY <1>7 DEF Surjection
  <2> QED BY <2>1
<1>9. order \in [1..n -> games]
  BY <1>8
<1> HIDE DEF order
<1>10. \A i, j \in DOMAIN order : i < j => order[i] < order[j]
  <2> SUFFICES ASSUME NEW i \in 1..n, NEW j \in 1..n, i < j
               PROVE  order[i] < order[j]
    BY <1>9
  <2>1. order[i] \in games /\ order[j] \in games /\ place[order[i]] = i /\ place[order[j]] = j
    BY <1>8
  <2>2. ~ (order[j] < order[i])
    BY <1>2, <1>4, <2>1
  <2>3. order[i] # order[j]
    BY <1>2, <2>1
  <2>4. order[i] \in Nat /\ order[j] \in Nat
    BY <1>1, <2>1
  <2> QED BY <2>2, <2>3, <2>4
<1>11. \E o \in [1..Cardinality(games) -> games] : \A i, j \in DOMAIN o : i < j => o[i] < o[j]
  BY <1>9, <1>10
<1> QED BY <1>2, <1>11 DEF InOrder

LEMMA Suffix ==
  ASSUME NEW V, NEW a \in Seq(V), NEW b \in Seq(V)
  PROVE  SubSeq(a \o b, Len(a) + 1, Len(a \o b)) = b
<1> DEFINE c == a \o b
           d == SubSeq(c, Len(a) + 1, Len(c))
<1>1. /\ c \in Seq(V) /\ Len(c) = Len(a) + Len(b) /\ Len(a) \in Nat /\ Len(b) \in Nat
      /\ \A j \in 1..(Len(a) + Len(b)) : j > Len(a) => c[j] = b[j - Len(a)]
  BY Joined
<1> HIDE DEF c
<1>2. /\ d = [i \in 1..Len(b) |-> c[Len(a) + i]]
      /\ d \in Seq(V)
  BY <1>1
<1>3. \A i \in 1..Len(b) : c[Len(a) + i] = b[i]
  <2> SUFFICES ASSUME NEW i \in 1..Len(b) PROVE c[Len(a) + i] = b[i]
    OBVIOUS
  <2>1. Len(a) + i \in 1..(Len(a) + Len(b)) /\ Len(a) + i > Len(a) /\ (Len(a) + i) - Len(a) = i
    BY <1>1
  <2> QED BY <1>1, <2>1
<1>4. b = [i \in 1..Len(b) |-> b[i]]
  OBVIOUS
<1> HIDE DEF d
<1>5. d = b
  BY <1>2, <1>3, <1>4
<1> QED BY <1>5 DEF d, c

\* Retention: what is purged was deleted, and takes its observers with it.
LEMMA PurgeFields ==
  ASSUME NEW S, IsSnapshot(S), BindingsAreSound(S), MaxGames \in Nat, NEW upTo \in Int,
         NEW now \in Nat \ {0}, PurgeDeletedGames(S, upTo, now) # S
  PROVE  LET T == PurgeDeletedGames(S, upTo, now) IN
         \E receipts \in Seq(Receipt) :
           /\ IsSnapshot(T)
           /\ \A g \in Purged(receipts) : g \in DOMAIN S.games /\ S.games[g].deletedAt # 0
           /\ DOMAIN T.games = DOMAIN S.games \ Purged(receipts)
           /\ \A g \in DOMAIN T.games : T.games[g] = S.games[g]
           /\ T.bindings = S.bindings
           /\ T.spectators = {b \in S.spectators : b.game \notin Purged(receipts)}
           /\ T.invitations = S.invitations \ Purged(receipts)
           /\ T.consents = S.consents
           /\ T.sessions = {s \in S.sessions : \E b \in T.bindings \cup T.spectators : b.session = s}
           /\ T.ledger = S.ledger \o receipts
<1> DEFINE doomed == {g \in DOMAIN S.games : S.games[g].deletedAt \in 1..upTo}
           order == InOrder(doomed)
           n == Cardinality(doomed)
           R(g) == [game |-> g, deletedAt |-> S.games[g].deletedAt, purgedAt |-> now]
           receipts == [i \in DOMAIN order |-> R(order[i])]
           applied == ApplyReceipts(S, receipts)
           kept == [applied EXCEPT !.bindings = {b \in applied.bindings : b.game \in DOMAIN applied.games}]
           T == PurgeDeletedGames(S, upTo, now)
<1>1. /\ DOMAIN S.games \subseteq Game /\ \A g \in DOMAIN S.games : S.games[g] \in Row
      /\ S.bindings \subseteq SeatType /\ S.ledger \in Seq(Receipt)
  BY SnapshotFields DEF SeatType
<1>2. n \in Nat /\ order \in [1..n -> doomed]
  <2> HIDE DEF doomed
  <2>1. doomed \in SUBSET Game
    BY <1>1 DEF doomed
  <2> QED BY <2>1, Enumerated
<1>3. \A g \in doomed : g \in DOMAIN S.games /\ S.games[g].deletedAt # 0 /\ R(g) \in Receipt
  BY <1>1 DEF Receipt, Row
<1> HIDE DEF doomed, order, R
<1>4. receipts \in Seq(Receipt) /\ DOMAIN receipts = 1..n
      /\ \A i \in 1..n : receipts[i] = R(order[i]) /\ order[i] \in doomed
  BY <1>2, <1>3
<1>5. \A i \in DOMAIN receipts : receipts[i].purgedAt # 0 /\ receipts[i].game \in doomed
  BY <1>4 DEF R
<1>6. T = WithoutIdleSessions(kept)
  <2>1. SubSeq(S.ledger \o receipts, Len(S.ledger) + 1, Len(S.ledger \o receipts)) = receipts
    BY <1>1, <1>4, Suffix
  <2>2. T = SynchronizeDeletionLedger(S, S.ledger \o receipts)
    BY DEF PurgeDeletedGames, doomed, order, R
  <2>3. Continues(S.ledger \o receipts, S.ledger)
    BY <2>2 DEF SynchronizeDeletionLedger
  <2> HIDE DEF receipts
  <2> QED BY <2>1, <2>2, <2>3 DEF SynchronizeDeletionLedger
<1> HIDE DEF receipts
<1>7. Closed(receipts) = {} /\ \A g \in Purged(receipts) : g \in doomed
  BY <1>5 DEF Closed, Purged
<1>8. /\ IsSnapshot(applied)
      /\ applied.ledger = S.ledger \o receipts
      /\ applied.spectators = {b \in S.spectators : b.game \notin Purged(receipts)}
      /\ applied.invitations = S.invitations \ Purged(receipts)
      /\ applied.consents = S.consents /\ applied.sessions = S.sessions
      /\ DOMAIN applied.games = DOMAIN S.games \ Purged(receipts)
      /\ \A g \in DOMAIN applied.games : applied.games[g] = S.games[g]
      /\ applied.bindings = {IF b.game \in Closed(receipts) THEN [b EXCEPT !.live = FALSE] ELSE b
                               : b \in S.bindings}
  <2> HIDE DEF applied
  <2>0. applied = ApplyReceipts(S, receipts)
    BY DEF applied
  <2>1. IsSnapshot(S) /\ receipts \in Seq(Receipt)
    BY <1>4
  <2>2. LET U == ApplyReceipts(S, receipts) IN
        /\ IsSnapshot(U)
        /\ U.ledger = S.ledger \o receipts
        /\ U.spectators = {b \in S.spectators : b.game \notin Closed(receipts) \cup Purged(receipts)}
        /\ U.invitations = S.invitations \ (Closed(receipts) \cup Purged(receipts))
        /\ U.consents = S.consents /\ U.sessions = S.sessions
        /\ DOMAIN U.games = DOMAIN S.games \ Purged(receipts)
        /\ \A g \in DOMAIN U.games :
              /\ U.games[g].creation = S.games[g].creation /\ U.games[g].over = S.games[g].over
              /\ g \in Closed(receipts) => U.games[g].deletedAt # 0
              /\ g \notin Closed(receipts) => U.games[g] = S.games[g]
        /\ U.bindings = {IF b.game \in Closed(receipts) THEN [b EXCEPT !.live = FALSE] ELSE b
                           : b \in S.bindings}
    BY <2>1, ReceiptFields
  <2> QED BY <1>7, <2>0, <2>2
<1> HIDE DEF applied
<1>9. applied.bindings = S.bindings
  BY <1>7, <1>8
<1>10. {b \in applied.bindings : b.game \in DOMAIN applied.games} = applied.bindings
  <2>1. ASSUME NEW b \in S.bindings PROVE b.game \in DOMAIN applied.games
    <3>1. b.game \in DOMAIN S.games /\ S.games[b.game].deletedAt = 0
      BY DEF BindingsAreSound, Active
    <3> QED BY <1>3, <1>7, <1>8, <3>1
  <2> QED BY <1>9, <2>1
<1>11. kept = applied
  <2>1. kept = [applied EXCEPT !.bindings = applied.bindings]
    BY <1>10
  <2>2. applied = [games |-> applied.games, bindings |-> applied.bindings,
                   invitations |-> applied.invitations,
                   spectators |-> applied.spectators, consents |-> applied.consents,
                   sessions |-> applied.sessions, ledger |-> applied.ledger]
    BY <1>8, SnapshotFields
  <2> QED BY <2>1, <2>2
<1> HIDE DEF kept, T
<1>12. LET U == WithoutIdleSessions(applied) IN
         /\ IsSnapshot(U)
         /\ U.games = applied.games /\ U.bindings = applied.bindings /\ U.invitations = applied.invitations
         /\ U.spectators = applied.spectators /\ U.consents = applied.consents
         /\ U.sessions = {s \in applied.sessions :
                            \E b \in applied.bindings \cup applied.spectators : b.session = s}
         /\ U.ledger = applied.ledger
  BY <1>8, IdleFields
<1>13. T = WithoutIdleSessions(applied)
  BY <1>6, <1>11
<1>14. /\ IsSnapshot(T)
       /\ T.games = applied.games /\ T.bindings = S.bindings /\ T.invitations = applied.invitations
       /\ T.spectators = applied.spectators /\ T.consents = S.consents
       /\ T.sessions = {s \in S.sessions : \E b \in T.bindings \cup T.spectators : b.session = s}
       /\ T.ledger = S.ledger \o receipts
  BY <1>8, <1>9, <1>12, <1>13
<1>15. \A g \in Purged(receipts) : g \in DOMAIN S.games /\ S.games[g].deletedAt # 0
  BY <1>3, <1>7
<1>16. /\ DOMAIN T.games = DOMAIN S.games \ Purged(receipts)
       /\ \A g \in DOMAIN T.games : T.games[g] = S.games[g]
       /\ T.spectators = {b \in S.spectators : b.game \notin Purged(receipts)}
       /\ T.invitations = S.invitations \ Purged(receipts)
  BY <1>8, <1>14
<1> QED BY <1>4, <1>14, <1>15, <1>16 DEF T

-----------------------------------------------------------------------------
(* What a call leaves sound.                                               *)

\* What a snapshot owes to the one before it.
Follows(S, T) ==
  /\ \E receipts \in Seq(Receipt) :
       /\ T.ledger = S.ledger \o receipts
       /\ DOMAIN T.games \cap Purged(receipts) = {}
       /\ DOMAIN S.games \ Purged(receipts) \subseteq DOMAIN T.games
  /\ \A b \in S.bindings \ T.bindings : ~Active(T, b.game)
  /\ \/ S.bindings \subseteq T.bindings /\ S.spectators \subseteq T.spectators
     \/ T.bindings \subseteq S.bindings

LEMMA NoReceipts ==
  ASSUME NEW S, IsSnapshot(S), NEW T, T.ledger = S.ledger, DOMAIN S.games \subseteq DOMAIN T.games
  PROVE  \E receipts \in Seq(Receipt) :
           /\ T.ledger = S.ledger \o receipts
           /\ DOMAIN T.games \cap Purged(receipts) = {}
           /\ DOMAIN S.games \ Purged(receipts) \subseteq DOMAIN T.games
<1>1. S.ledger \in Seq(Receipt)
  BY SnapshotFields
<1>2. S.ledger \o <<>> = S.ledger /\ <<>> \in Seq(Receipt)
  BY <1>1
<1>3. Purged(<<>>) = {}
  BY DEF Purged
<1> QED BY <1>2, <1>3

LEMMA FollowsItself ==
  ASSUME NEW S, IsSnapshot(S)
  PROVE  Follows(S, S)
BY NoReceipts DEF Follows

\* Only consents and the course of the games differ.
LEMMA SameBindings ==
  ASSUME NEW S, SnapshotInv(S), NEW T, IsSnapshot(T), DOMAIN T.games = DOMAIN S.games,
         \A g \in DOMAIN S.games : /\ T.games[g].deletedAt = S.games[g].deletedAt
                                   /\ T.games[g].creation = S.games[g].creation,
         T.bindings = S.bindings, T.spectators = S.spectators, T.sessions = S.sessions,
         T.ledger = S.ledger
  PROVE  SnapshotInv(T) /\ Follows(S, T)
<1>1. \A g : Active(S, g) => Active(T, g)
  BY DEF Active
<1>2. BindingsAreSound(T)
  BY <1>1 DEF SnapshotInv, BindingsAreSound
<1>3. GamesAreUnique(T)
  BY DEF SnapshotInv, GamesAreUnique
<1>4. IsSnapshot(S)
  BY DEF SnapshotInv
<1>5. Follows(S, T)
  BY <1>4, NoReceipts DEF Follows
<1> QED BY <1>2, <1>3, <1>5 DEF SnapshotInv

LEMMA CreateKeeps ==
  ASSUME NEW S, SnapshotInv(S), NEW r \in Request, r.kind = "create",
         NEW new \in Game, new \notin DOMAIN S.games
  PROVE  SnapshotInv(CreateGame(S, r, new)) /\ Follows(S, CreateGame(S, r, new))
<1> DEFINE T == CreateGame(S, r, new)
<1>1. IsSnapshot(S) /\ BindingsAreSound(S) /\ GamesAreUnique(S)
  BY DEF SnapshotInv
<1>2. CASE \E g \in DOMAIN S.games : S.games[g].creation = r.id
  <2>1. T = S
    BY <1>2 DEF CreateGame
  <2> QED BY <1>1, <2>1, FollowsItself
<1>3. CASE ~ \E g \in DOMAIN S.games : S.games[g].creation = r.id
  <2> DEFINE made == [creation |-> r.id, over |-> FALSE, deletedAt |-> 0]
  <2>1. LET U == CreateGame(S, r, new) IN
         /\ IsSnapshot(U)
         /\ U.games = [g \in DOMAIN S.games \cup {new} |->
                         IF g \in DOMAIN S.games THEN S.games[g]
                         ELSE [creation |-> r.id, over |-> FALSE, deletedAt |-> 0]]
         /\ U.bindings = S.bindings \cup {Binding("host", new, r.session), Binding("seat", new, r.session)}
         /\ U.invitations = S.invitations \cup {new}
         /\ U.spectators = S.spectators /\ U.consents = S.consents
         /\ U.sessions = S.sessions \cup {r.session}
         /\ U.ledger = S.ledger
    BY <1>1, <1>3, CreateFields
  <2> HIDE DEF T
  <2>2. /\ IsSnapshot(T)
        /\ DOMAIN T.games = DOMAIN S.games \cup {new}
        /\ \A g \in DOMAIN S.games : T.games[g] = S.games[g]
        /\ T.games[new] = made
        /\ T.bindings = S.bindings \cup {Binding("host", new, r.session), Binding("seat", new, r.session)}
        /\ T.spectators = S.spectators
        /\ T.sessions = S.sessions \cup {r.session}
        /\ T.ledger = S.ledger
    BY <2>1 DEF T
  <2>3. \A g : Active(S, g) => Active(T, g)
    BY <2>2 DEF Active
  <2>4. Active(T, new)
    BY <2>2 DEF Active
  <2>5. ASSUME NEW b \in {Binding("host", new, r.session), Binding("seat", new, r.session)}
        PROVE  b.live /\ b.game = new /\ b.session = r.session
    BY DEF Binding
  <2>6. BindingsAreSound(T)
    <3>1. \A b \in T.bindings : b.live /\ Active(T, b.game) /\ b.session \in T.sessions
      BY <1>1, <2>2, <2>3, <2>4, <2>5 DEF BindingsAreSound
    <3>2. \A b \in T.spectators : b.session \in T.sessions
      BY <1>1, <2>2 DEF BindingsAreSound
    <3>3. \A s \in T.sessions : \E b \in T.bindings \cup T.spectators : b.session = s
      BY <1>1, <2>2, <2>5 DEF BindingsAreSound
    <3> QED BY <3>1, <3>2, <3>3 DEF BindingsAreSound
  <2>7. GamesAreUnique(T)
    <3>1. \A b \in S.bindings : b.game \in DOMAIN S.games /\ b.game # new
      BY <1>1 DEF BindingsAreSound, Active
    <3>2. /\ Binding("host", new, r.session).role = "host" /\ Binding("seat", new, r.session).role = "seat"
          /\ Binding("host", new, r.session).game = new
      BY DEF Binding
    <3>3. \A b, c \in T.bindings : b.role = "host" /\ c.role = "host" /\ b.game = c.game => b = c
      BY <1>1, <2>2, <3>1, <3>2 DEF GamesAreUnique
    <3>4. \A g, h \in DOMAIN T.games : T.games[g].creation = T.games[h].creation => g = h
      <4>1. T.games[new].creation = r.id
        BY <2>2
      <4>2. \A g \in DOMAIN S.games : T.games[g].creation # r.id
        BY <1>3, <2>2
      <4>3. \A g, h \in DOMAIN S.games : T.games[g].creation = T.games[h].creation => g = h
        BY <1>1, <2>2 DEF GamesAreUnique
      <4> QED BY <2>2, <4>1, <4>2, <4>3
    <3> QED BY <3>3, <3>4 DEF GamesAreUnique
  <2>8. Follows(S, T)
    BY <1>1, <2>2, NoReceipts DEF Follows
  <2> QED BY <2>2, <2>6, <2>7, <2>8 DEF SnapshotInv, T
<1> QED BY <1>2, <1>3

LEMMA ClaimKeeps ==
  ASSUME NEW S, SnapshotInv(S), NEW r \in Request, r.kind = "claim"
  PROVE  SnapshotInv(ClaimInvitation(S, r)) /\ Follows(S, ClaimInvitation(S, r))
<1> DEFINE T == ClaimInvitation(S, r)
           seat == Binding("seat", r.game, r.session)
<1>1. IsSnapshot(S) /\ BindingsAreSound(S) /\ GamesAreUnique(S)
  BY DEF SnapshotInv
<1>2. CASE ~ (r.game \in S.invitations /\ Active(S, r.game) /\ seat \notin S.bindings)
  <2>1. T = S
    BY <1>2 DEF ClaimInvitation
  <2> QED BY <1>1, <2>1, FollowsItself
<1>3. CASE r.game \in S.invitations /\ Active(S, r.game) /\ seat \notin S.bindings
  <2>1. LET U == ClaimInvitation(S, r) IN
         /\ IsSnapshot(U)
         /\ U.games = S.games
         /\ U.bindings = S.bindings \cup {Binding("seat", r.game, r.session)}
         /\ U.invitations = S.invitations \ {r.game}
         /\ U.spectators = S.spectators /\ U.consents = S.consents
         /\ U.sessions = S.sessions \cup {r.session}
         /\ U.ledger = S.ledger
    BY <1>1, <1>3, ClaimFields
  <2> HIDE DEF T
  <2>2. /\ IsSnapshot(T) /\ T.games = S.games /\ T.bindings = S.bindings \cup {seat}
        /\ T.spectators = S.spectators
        /\ T.sessions = S.sessions \cup {r.session}
        /\ T.ledger = S.ledger
    BY <2>1 DEF T
  <2>3. \A g : Active(S, g) <=> Active(T, g)
    BY <2>2 DEF Active
  <2>4. seat.live /\ seat.game = r.game /\ seat.session = r.session /\ seat.role = "seat"
    BY DEF Binding
  <2> HIDE DEF seat
  <2>5. BindingsAreSound(T)
    BY <1>1, <1>3, <2>2, <2>3, <2>4 DEF BindingsAreSound
  <2>6. GamesAreUnique(T)
    BY <1>1, <2>2, <2>4 DEF GamesAreUnique
  <2>7. Follows(S, T)
    BY <1>1, <2>2, NoReceipts DEF Follows
  <2> QED BY <2>2, <2>5, <2>6, <2>7 DEF SnapshotInv, T
<1> QED BY <1>2, <1>3

LEMMA WatchKeeps ==
  ASSUME NEW S, SnapshotInv(S), NEW r \in Request, r.kind = "watch"
  PROVE  SnapshotInv(ClaimSpectatorInvitation(S, r)) /\ Follows(S, ClaimSpectatorInvitation(S, r))
<1> DEFINE T == ClaimSpectatorInvitation(S, r)
           player == [game |-> r.game, session |-> r.session]
<1>1. IsSnapshot(S) /\ BindingsAreSound(S) /\ GamesAreUnique(S)
  BY DEF SnapshotInv
<1>2. CASE ~Active(S, r.game)
  <2>1. T = S
    BY <1>2 DEF ClaimSpectatorInvitation
  <2> QED BY <1>1, <2>1, FollowsItself
<1>3. CASE Active(S, r.game)
  <2>1. LET U == ClaimSpectatorInvitation(S, r) IN
         /\ IsSnapshot(U)
         /\ U.games = S.games /\ U.bindings = S.bindings /\ U.invitations = S.invitations
         /\ U.spectators = S.spectators \cup {[game |-> r.game, session |-> r.session]}
         /\ U.consents = S.consents
         /\ U.sessions = S.sessions \cup {r.session}
         /\ U.ledger = S.ledger
    BY <1>1, <1>3, WatchFields
  <2> HIDE DEF T
  <2>2. /\ IsSnapshot(T) /\ T.games = S.games /\ T.bindings = S.bindings
        /\ T.spectators = S.spectators \cup {player}
        /\ T.sessions = S.sessions \cup {r.session}
        /\ T.ledger = S.ledger
    BY <2>1 DEF T
  <2>3. \A g : Active(S, g) <=> Active(T, g)
    BY <2>2 DEF Active
  <2>4. player.session = r.session
    OBVIOUS
  <2> HIDE DEF player
  <2>5. BindingsAreSound(T)
    BY <1>1, <1>3, <2>2, <2>3, <2>4 DEF BindingsAreSound
  <2>6. GamesAreUnique(T)
    BY <1>1, <2>2 DEF GamesAreUnique
  <2>7. Follows(S, T)
    BY <1>1, <2>2, NoReceipts DEF Follows
  <2> QED BY <2>2, <2>5, <2>6, <2>7 DEF SnapshotInv, T
<1> QED BY <1>2, <1>3

LEMMA ConsentKeeps ==
  ASSUME NEW S, SnapshotInv(S), NEW consents \in SUBSET Player
  PROVE  LET T == [S EXCEPT !.consents = consents] IN SnapshotInv(T) /\ Follows(S, T)
<1> DEFINE T == [S EXCEPT !.consents = consents]
<1>1. IsSnapshot(S)
  BY DEF SnapshotInv
<1>2. LET U == [S EXCEPT !.consents = consents] IN
         /\ IsSnapshot(U)
         /\ U.games = S.games /\ U.bindings = S.bindings /\ U.invitations = S.invitations
         /\ U.spectators = S.spectators /\ U.consents = consents
         /\ U.sessions = S.sessions /\ U.ledger = S.ledger
  BY <1>1, ConsentFields
<1> HIDE DEF T
<1>3. /\ IsSnapshot(T) /\ T.games = S.games /\ T.bindings = S.bindings
      /\ T.spectators = S.spectators /\ T.sessions = S.sessions /\ T.ledger = S.ledger
  BY <1>2 DEF T
<1>4. SnapshotInv(T) /\ Follows(S, T)
  BY <1>3, SameBindings
<1> QED BY <1>4 DEF T

LEMMA PruneKeeps ==
  ASSUME NEW S, SnapshotInv(S)
  PROVE  SnapshotInv(Prune(S)) /\ Follows(S, Prune(S))
<1>1. IsSnapshot(S)
  BY DEF SnapshotInv
<1>2. /\ IsSnapshot(Prune(S))
      /\ Prune(S).games = S.games /\ Prune(S).bindings = S.bindings
      /\ Prune(S).spectators = S.spectators
      /\ Prune(S).sessions = S.sessions /\ Prune(S).ledger = S.ledger
  BY <1>1, PruneFields
<1> QED BY <1>2, SameBindings

LEMMA SubscribeKeeps ==
  ASSUME NEW S, SnapshotInv(S), NEW r \in Request, r.kind = "subscribe"
  PROVE  SnapshotInv(SetPushSubscription(S, r)) /\ Follows(S, SetPushSubscription(S, r))
<1> DEFINE allowed == /\ Active(S, r.game)
                      /\ Binding("seat", r.game, r.session) \in S.bindings
                      /\ ~S.games[r.game].over
           consents == S.consents \cup {[game |-> r.game, session |-> r.session]}
<1>1. IsSnapshot(S)
  BY DEF SnapshotInv
<1>2. CASE ~allowed
  <2>1. SetPushSubscription(S, r) = S
    BY <1>2 DEF SetPushSubscription
  <2> QED BY <1>1, <2>1, FollowsItself
<1>3. CASE allowed
  <2>1. consents \in SUBSET Player
    <3>1. r.game \in Game /\ r.session \in Session
      BY RequestFields DEF PlayerCalls
    <3>2. S.consents \subseteq Player
      BY <1>1, SnapshotFields
    <3> QED BY <3>1, <3>2 DEF Player
  <2>2. SetPushSubscription(S, r) = [S EXCEPT !.consents = consents]
    BY <1>3 DEF SetPushSubscription
  <2> QED BY <2>1, <2>2, ConsentKeeps
<1> QED BY <1>2, <1>3

LEMMA UnsubscribeKeeps ==
  ASSUME NEW S, SnapshotInv(S), NEW r
  PROVE  SnapshotInv(RemovePushSubscription(S, r)) /\ Follows(S, RemovePushSubscription(S, r))
<1> DEFINE consents == S.consents \ {[game |-> r.game, session |-> r.session]}
<1>1. consents \in SUBSET Player
  BY SnapshotFields DEF SnapshotInv
<1>2. RemovePushSubscription(S, r) = [S EXCEPT !.consents = consents]
  BY DEF RemovePushSubscription
<1> QED BY <1>1, <1>2, ConsentKeeps

LEMMA FinishKeeps ==
  ASSUME NEW S, SnapshotInv(S), NEW r
  PROVE  SnapshotInv(FinishGame(S, r)) /\ Follows(S, FinishGame(S, r))
<1> DEFINE T == FinishGame(S, r)
           allowed == Active(S, r.game) /\ Binding("seat", r.game, r.session) \in S.bindings
<1>1. IsSnapshot(S)
  BY DEF SnapshotInv
<1>2. CASE ~allowed
  <2>1. FinishGame(S, r) = S
    BY <1>2 DEF FinishGame
  <2> QED BY <1>1, <2>1, FollowsItself
<1>3. CASE allowed
  <2>1. LET U == FinishGame(S, r) IN
         /\ IsSnapshot(U)
         /\ U.games = [g \in DOMAIN S.games |->
                         IF g = r.game THEN [S.games[g] EXCEPT !.over = TRUE] ELSE S.games[g]]
         /\ U.bindings = S.bindings /\ U.invitations = S.invitations
         /\ U.spectators = S.spectators /\ U.consents = S.consents
         /\ U.sessions = S.sessions /\ U.ledger = S.ledger
    BY <1>1, <1>3, FinishFields
  <2> HIDE DEF T
  <2>2. /\ IsSnapshot(T) /\ DOMAIN T.games = DOMAIN S.games /\ T.bindings = S.bindings
        /\ T.spectators = S.spectators /\ T.sessions = S.sessions /\ T.ledger = S.ledger
    BY <2>1 DEF T
  <2>3. \A g \in DOMAIN S.games : /\ T.games[g].deletedAt = S.games[g].deletedAt
                                  /\ T.games[g].creation = S.games[g].creation
    <3>1. \A g \in DOMAIN S.games :
            T.games[g] = IF g = r.game THEN [S.games[g] EXCEPT !.over = TRUE] ELSE S.games[g]
      BY <2>1 DEF T
    <3>2. \A g \in DOMAIN S.games : S.games[g] \in Row
      BY <1>1, SnapshotFields
    <3> QED BY <3>1, <3>2 DEF Row
  <2>4. SnapshotInv(T) /\ Follows(S, T)
    BY <2>2, <2>3, SameBindings
  <2> QED BY <2>4 DEF T
<1> QED BY <1>2, <1>3

LEMMA DeleteKeeps ==
  ASSUME NEW S, SnapshotInv(S), NEW r \in Request, r.kind = "delete", NEW now \in Nat \ {0}
  PROVE  SnapshotInv(DeleteGame(S, r, now)) /\ Follows(S, DeleteGame(S, r, now))
<1> DEFINE T == DeleteGame(S, r, now)
           allowed == Active(S, r.game) /\ Binding("host", r.game, r.session) \in S.bindings
           receipt == [game |-> r.game, deletedAt |-> now, purgedAt |-> 0]
<1>1. IsSnapshot(S) /\ BindingsAreSound(S) /\ GamesAreUnique(S)
  BY DEF SnapshotInv
<1>2. CASE ~allowed
  <2>1. DeleteGame(S, r, now) = S
    BY <1>2 DEF DeleteGame
  <2> QED BY <1>1, <2>1, FollowsItself
<1>3. CASE allowed
  <2>1. LET U == DeleteGame(S, r, now) IN
         /\ IsSnapshot(U)
         /\ U.games = [g \in DOMAIN S.games |->
                         IF g = r.game THEN [S.games[g] EXCEPT !.deletedAt = now] ELSE S.games[g]]
         /\ U.bindings = {b \in S.bindings : b.game # r.game}
         /\ U.invitations = S.invitations \ {r.game}
         /\ U.spectators = {b \in S.spectators : b.game # r.game}
         /\ U.consents = S.consents
         /\ U.sessions = {s \in S.sessions : \E b \in U.bindings \cup U.spectators : b.session = s}
         /\ U.ledger = Append(S.ledger, [game |-> r.game, deletedAt |-> now, purgedAt |-> 0])
    BY <1>1, <1>3, DeleteFields
  <2> HIDE DEF T
  <2>2. /\ IsSnapshot(T) /\ DOMAIN T.games = DOMAIN S.games
        /\ T.bindings = {b \in S.bindings : b.game # r.game}
        /\ T.spectators = {b \in S.spectators : b.game # r.game}
        /\ T.sessions = {s \in S.sessions : \E b \in T.bindings \cup T.spectators : b.session = s}
        /\ T.ledger = Append(S.ledger, receipt)
    BY <2>1 DEF T
  <2>3. /\ \A g \in DOMAIN S.games : g # r.game => T.games[g] = S.games[g]
        /\ T.games[r.game] = [S.games[r.game] EXCEPT !.deletedAt = now]
    <3>1. r.game \in DOMAIN S.games
      BY <1>3 DEF Active
    <3>2. T.games = [g \in DOMAIN S.games |->
                         IF g = r.game THEN [S.games[g] EXCEPT !.deletedAt = now] ELSE S.games[g]]
      BY <2>1 DEF T
    <3> QED BY <3>1, <3>2
  <2>4. \A g : g # r.game /\ Active(S, g) => Active(T, g)
    BY <2>2, <2>3 DEF Active
  <2>5. BindingsAreSound(T)
    BY <1>1, <2>2, <2>4 DEF BindingsAreSound
  <2>6. GamesAreUnique(T)
    <3>1. \A g \in DOMAIN S.games : T.games[g].creation = S.games[g].creation
      <4>1. S.games[r.game] \in Row
        BY <1>1, <1>3, SnapshotFields DEF Active
      <4>2. [S.games[r.game] EXCEPT !.deletedAt = now].creation = S.games[r.game].creation
        BY <4>1 DEF Row
      <4> QED BY <2>3, <4>2
    <3> QED BY <1>1, <2>2, <3>1 DEF GamesAreUnique
  <2>7. Follows(S, T)
    <3>1. /\ S.ledger \in Seq(Receipt) /\ receipt \in Receipt /\ receipt.purgedAt = 0
      <4>1. r.game \in Game
        BY RequestFields DEF PlayerCalls
      <4> QED BY <1>1, <4>1, SnapshotFields DEF Receipt
    <3> HIDE DEF receipt
    <3>2. <<receipt>> \in Seq(Receipt) /\ Append(S.ledger, receipt) = S.ledger \o <<receipt>>
      BY <3>1
    <3>3. Purged(<<receipt>>) = {}
      BY <3>1 DEF Purged
    <3>4. \E receipts \in Seq(Receipt) :
            /\ T.ledger = S.ledger \o receipts
            /\ DOMAIN T.games \cap Purged(receipts) = {}
            /\ DOMAIN S.games \ Purged(receipts) \subseteq DOMAIN T.games
      BY <2>2, <3>2, <3>3
    <3>5. ~Active(T, r.game)
      <4>1. T.games[r.game].deletedAt = now
        <5>1. S.games[r.game] \in Row
          BY <1>1, <1>3, SnapshotFields DEF Active
        <5> QED BY <2>3, <5>1 DEF Row
      <4> QED BY <4>1 DEF Active
    <3> QED BY <2>2, <3>4, <3>5 DEF Follows
  <2>8. SnapshotInv(T) /\ Follows(S, T)
    BY <2>2, <2>5, <2>6, <2>7 DEF SnapshotInv
  <2> QED BY <2>8 DEF T
<1> QED BY <1>2, <1>3

LEMMA PurgeKeeps ==
  ASSUME NEW S, SnapshotInv(S), MaxGames \in Nat, NEW upTo \in Int, NEW now \in Nat \ {0}
  PROVE  SnapshotInv(PurgeDeletedGames(S, upTo, now)) /\ Follows(S, PurgeDeletedGames(S, upTo, now))
<1> DEFINE T == PurgeDeletedGames(S, upTo, now)
<1> HIDE DEF T
<1>1. IsSnapshot(S) /\ BindingsAreSound(S) /\ GamesAreUnique(S)
  BY DEF SnapshotInv
<1>2. CASE T = S
  BY <1>1, <1>2, FollowsItself DEF T
<1>3. CASE T # S
  <2>1. \E receipts \in Seq(Receipt) :
           /\ IsSnapshot(T)
           /\ \A g \in Purged(receipts) : g \in DOMAIN S.games /\ S.games[g].deletedAt # 0
           /\ DOMAIN T.games = DOMAIN S.games \ Purged(receipts)
           /\ \A g \in DOMAIN T.games : T.games[g] = S.games[g]
           /\ T.bindings = S.bindings
           /\ T.spectators = {b \in S.spectators : b.game \notin Purged(receipts)}
           /\ T.invitations = S.invitations \ Purged(receipts)
           /\ T.consents = S.consents
           /\ T.sessions = {s \in S.sessions : \E b \in T.bindings \cup T.spectators : b.session = s}
           /\ T.ledger = S.ledger \o receipts
    BY <1>1, <1>3, PurgeFields DEF T
  <2>2. PICK receipts \in Seq(Receipt) :
           /\ IsSnapshot(T)
           /\ \A g \in Purged(receipts) : g \in DOMAIN S.games /\ S.games[g].deletedAt # 0
           /\ DOMAIN T.games = DOMAIN S.games \ Purged(receipts)
           /\ \A g \in DOMAIN T.games : T.games[g] = S.games[g]
           /\ T.bindings = S.bindings
           /\ T.spectators = {b \in S.spectators : b.game \notin Purged(receipts)}
           /\ T.sessions = {s \in S.sessions : \E b \in T.bindings \cup T.spectators : b.session = s}
           /\ T.ledger = S.ledger \o receipts
    BY <2>1
  <2>3. \A g : Active(S, g) => Active(T, g)
    BY <2>2 DEF Active
  <2>4. BindingsAreSound(T)
    BY <1>1, <2>2, <2>3 DEF BindingsAreSound
  <2>5. GamesAreUnique(T)
    BY <1>1, <2>2 DEF GamesAreUnique
  <2>6. Follows(S, T)
    BY <2>2 DEF Follows
  <2> QED BY <2>2, <2>4, <2>5, <2>6 DEF SnapshotInv, T
<1> QED BY <1>2, <1>3

\* A call on a pruned snapshot.
Served(S, r, new, now) ==
  CASE r.kind = "create" -> CreateGame(S, r, new)
    [] r.kind = "claim" -> ClaimInvitation(S, r)
    [] r.kind = "watch" -> ClaimSpectatorInvitation(S, r)
    [] r.kind = "subscribe" -> SetPushSubscription(S, r)
    [] r.kind = "unsubscribe" -> RemovePushSubscription(S, r)
    [] r.kind = "finish" -> FinishGame(S, r)
    [] r.kind = "delete" -> DeleteGame(S, r, now)
    [] r.kind = "purge" -> PurgeDeletedGames(S, r.upTo, now)
    [] r.kind = "poll" -> S

LEMMA ApplyIsServed ==
  ASSUME NEW S, NEW r, NEW new, NEW now
  PROVE  Apply(S, r, new, now) = Prune(Served(Prune(S), r, new, now))
BY DEF Apply, Served

LEMMA ServedCases ==
  ASSUME NEW S, NEW r, NEW new, NEW now
  PROVE  /\ r.kind = "create" => Served(S, r, new, now) = CreateGame(S, r, new)
         /\ r.kind = "claim" => Served(S, r, new, now) = ClaimInvitation(S, r)
         /\ r.kind = "watch" => Served(S, r, new, now) = ClaimSpectatorInvitation(S, r)
         /\ r.kind = "subscribe" => Served(S, r, new, now) = SetPushSubscription(S, r)
         /\ r.kind = "unsubscribe" => Served(S, r, new, now) = RemovePushSubscription(S, r)
         /\ r.kind = "finish" => Served(S, r, new, now) = FinishGame(S, r)
         /\ r.kind = "delete" => Served(S, r, new, now) = DeleteGame(S, r, now)
         /\ r.kind = "purge" => Served(S, r, new, now) = PurgeDeletedGames(S, r.upTo, now)
         /\ r.kind = "poll" => Served(S, r, new, now) = S
BY DEF Served

LEMMA ServedKeeps ==
  ASSUME NEW S, SnapshotInv(S), MaxGames \in Nat, NEW r \in Request, NEW new, NEW now \in Nat \ {0},
         r.kind = "create" => new \in Game \ DOMAIN S.games
  PROVE  SnapshotInv(Served(S, r, new, now)) /\ Follows(S, Served(S, r, new, now))
<1>1. CASE r.kind = "create"
  BY <1>1, ServedCases, CreateKeeps
<1>2. CASE r.kind = "claim"
  BY <1>2, ServedCases, ClaimKeeps
<1>3. CASE r.kind = "watch"
  BY <1>3, ServedCases, WatchKeeps
<1>4. CASE r.kind = "subscribe"
  BY <1>4, ServedCases, SubscribeKeeps
<1>5. CASE r.kind = "unsubscribe"
  BY <1>5, ServedCases, UnsubscribeKeeps
<1>6. CASE r.kind = "finish"
  BY <1>6, ServedCases, FinishKeeps
<1>7. CASE r.kind = "delete"
  BY <1>7, ServedCases, DeleteKeeps
<1>8. CASE r.kind = "purge"
  <2>1. r.upTo \in Int
    BY <1>8, RequestFields
  <2> QED BY <1>8, <2>1, ServedCases, PurgeKeeps
<1>9. CASE r.kind = "poll"
  <2>1. Served(S, r, new, now) = S
    BY <1>9, ServedCases
  <2> QED BY <2>1, FollowsItself DEF SnapshotInv
<1> QED BY <1>1, <1>2, <1>3, <1>4, <1>5, <1>6, <1>7, <1>8, <1>9, RequestFields DEF PlayerCalls

LEMMA ApplyKeeps ==
  ASSUME NEW S, SnapshotInv(S), MaxGames \in Nat, NEW r \in Request, NEW new, NEW now \in Nat \ {0},
         r.kind = "create" => new \in Game \ DOMAIN S.games
  PROVE  SnapshotInv(Apply(S, r, new, now)) /\ Follows(S, Apply(S, r, new, now))
<1> DEFINE P == Prune(S)
           O == Served(P, r, new, now)
           T == Prune(O)
<1>1. /\ SnapshotInv(P) /\ P.games = S.games /\ P.bindings = S.bindings
      /\ P.spectators = S.spectators /\ P.ledger = S.ledger
  BY PruneKeeps, PruneFields DEF SnapshotInv
<1> HIDE DEF P
<1>2. SnapshotInv(O) /\ Follows(P, O)
  BY <1>1, ServedKeeps
<1> HIDE DEF O
<1>3. /\ SnapshotInv(T) /\ T.games = O.games /\ T.bindings = O.bindings
      /\ T.spectators = O.spectators /\ T.ledger = O.ledger
  BY <1>2, PruneKeeps, PruneFields DEF SnapshotInv
<1> HIDE DEF T
<1>4. \A g : Active(T, g) <=> Active(O, g)
  BY <1>3 DEF Active
<1>5. Follows(S, T)
  BY <1>1, <1>2, <1>3, <1>4 DEF Follows
<1>6. T = Apply(S, r, new, now)
  BY ApplyIsServed DEF T, O, P
<1> QED BY <1>3, <1>5, <1>6

-----------------------------------------------------------------------------
(* What a call needs to have loaded.                                       *)

\* N is F without the rows of the games in rest.
Agree(N, F, rest) ==
  /\ IsSnapshot(N) /\ IsSnapshot(F)
  /\ N.bindings = F.bindings /\ N.invitations = F.invitations /\ N.spectators = F.spectators
  /\ N.consents = F.consents /\ N.sessions = F.sessions /\ N.ledger = F.ledger
  /\ DOMAIN N.games \cap rest = {} /\ DOMAIN F.games = DOMAIN N.games \cup rest
  /\ \A g \in DOMAIN N.games : N.games[g] = F.games[g]

\* ... and no consent is to a game in rest.
Local(N, F, rest) == Agree(N, F, rest) /\ \A c \in F.consents : c.game \notin rest

Untouched(F, S, rest) == \A g \in rest : F.games[g] = S.games[g]

LEMMA AgreeActive ==
  ASSUME NEW N, NEW F, NEW rest, Agree(N, F, rest), NEW g, g \notin rest
  PROVE  /\ Active(N, g) <=> Active(F, g)
         /\ Active(N, g) => N.games[g] = F.games[g]
BY DEF Agree, Active

LEMMA PruneAgrees ==
  ASSUME NEW N, NEW F, NEW rest, Agree(N, F, rest),
         \A c \in F.consents : Binding("seat", c.game, c.session) \in F.bindings => c.game \notin rest
  PROVE  Local(Prune(N), Prune(F), rest) /\ Prune(F).games = F.games
<1>1. IsSnapshot(N) /\ IsSnapshot(F)
  BY DEF Agree
<1>2. /\ IsSnapshot(Prune(N))
      /\ Prune(N).games = N.games /\ Prune(N).bindings = N.bindings
      /\ Prune(N).invitations = N.invitations /\ Prune(N).spectators = N.spectators
      /\ Prune(N).sessions = N.sessions /\ Prune(N).ledger = N.ledger
      /\ Prune(N).consents = {c \in N.consents : /\ Binding("seat", c.game, c.session) \in N.bindings
                                                 /\ c.session \in N.sessions
                                                 /\ Active(N, c.game)
                                                 /\ ~N.games[c.game].over}
  BY <1>1, PruneFields
<1>3. /\ IsSnapshot(Prune(F))
      /\ Prune(F).games = F.games /\ Prune(F).bindings = F.bindings
      /\ Prune(F).invitations = F.invitations /\ Prune(F).spectators = F.spectators
      /\ Prune(F).sessions = F.sessions /\ Prune(F).ledger = F.ledger
      /\ Prune(F).consents = {c \in F.consents : /\ Binding("seat", c.game, c.session) \in F.bindings
                                                 /\ c.session \in F.sessions
                                                 /\ Active(F, c.game)
                                                 /\ ~F.games[c.game].over}
  BY <1>1, PruneFields
<1>4. \A c \in F.consents : Binding("seat", c.game, c.session) \in F.bindings =>
        /\ Active(N, c.game) <=> Active(F, c.game)
        /\ Active(N, c.game) => N.games[c.game] = F.games[c.game]
  BY AgreeActive
<1>5. Prune(N).consents = Prune(F).consents
  <2>1. N.consents = F.consents /\ N.bindings = F.bindings /\ N.sessions = F.sessions
    BY DEF Agree
  <2> QED BY <1>2, <1>3, <1>4, <2>1
<1>6. \A c \in Prune(F).consents : c.game \notin rest
  BY <1>3
<1>7. Agree(Prune(N), Prune(F), rest)
  BY <1>2, <1>3, <1>5 DEF Agree
<1> QED BY <1>3, <1>6, <1>7 DEF Local

\* What is the same before is the same after, for each call whose game is loaded.
Alike(N, F, N2, F2, rest) == Local(N2, F2, rest) /\ Untouched(F2, F, rest)

LEMMA AlikeItself ==
  ASSUME NEW N, NEW F, NEW rest, Local(N, F, rest)
  PROVE  Alike(N, F, N, F, rest)
BY DEF Alike, Untouched

LEMMA CreateAlike ==
  ASSUME NEW N, NEW F, NEW rest, Local(N, F, rest), NEW r \in Request, r.kind = "create",
         NEW new \in Game, new \notin DOMAIN F.games, \A g \in rest : F.games[g].creation # r.id
  PROVE  Alike(N, F, CreateGame(N, r, new), CreateGame(F, r, new), rest)
<1> DEFINE Made(S) == \E g \in DOMAIN S.games : S.games[g].creation = r.id
           N2 == CreateGame(N, r, new)
           F2 == CreateGame(F, r, new)
<1>1. IsSnapshot(N) /\ IsSnapshot(F)
  BY DEF Local, Agree
<1>2. Made(N) <=> Made(F)
  BY DEF Local, Agree
<1>3. CASE Made(N)
  <2>1. N2 = N /\ F2 = F
    BY <1>2, <1>3 DEF CreateGame
  <2> QED BY <2>1, AlikeItself
<1>4. CASE ~Made(N)
  <2>1. LET T == CreateGame(N, r, new) IN
         /\ IsSnapshot(T)
         /\ T.games = [g \in DOMAIN N.games \cup {new} |->
                         IF g \in DOMAIN N.games THEN N.games[g]
                         ELSE [creation |-> r.id, over |-> FALSE, deletedAt |-> 0]]
         /\ T.bindings = N.bindings \cup {Binding("host", new, r.session), Binding("seat", new, r.session)}
         /\ T.invitations = N.invitations \cup {new}
         /\ T.spectators = N.spectators /\ T.consents = N.consents
         /\ T.sessions = N.sessions \cup {r.session}
         /\ T.ledger = N.ledger
    BY <1>1, <1>4, CreateFields
  <2>2. LET T == CreateGame(F, r, new) IN
         /\ IsSnapshot(T)
         /\ T.games = [g \in DOMAIN F.games \cup {new} |->
                         IF g \in DOMAIN F.games THEN F.games[g]
                         ELSE [creation |-> r.id, over |-> FALSE, deletedAt |-> 0]]
         /\ T.bindings = F.bindings \cup {Binding("host", new, r.session), Binding("seat", new, r.session)}
         /\ T.invitations = F.invitations \cup {new}
         /\ T.spectators = F.spectators /\ T.consents = F.consents
         /\ T.sessions = F.sessions \cup {r.session}
         /\ T.ledger = F.ledger
    BY <1>1, <1>2, <1>4, CreateFields
  <2> HIDE DEF N2, F2
  <2>3. /\ DOMAIN N2.games = DOMAIN N.games \cup {new} /\ DOMAIN F2.games = DOMAIN F.games \cup {new}
        /\ \A g \in DOMAIN N.games : N2.games[g] = N.games[g]
        /\ \A g \in DOMAIN F.games : F2.games[g] = F.games[g]
        /\ new \notin DOMAIN N.games => N2.games[new] = [creation |-> r.id, over |-> FALSE, deletedAt |-> 0]
        /\ F2.games[new] = [creation |-> r.id, over |-> FALSE, deletedAt |-> 0]
    BY <2>1, <2>2 DEF N2, F2
  <2>4. new \notin rest /\ new \notin DOMAIN N.games
    BY DEF Local, Agree
  <2>5. \A g \in DOMAIN N2.games : N2.games[g] = F2.games[g]
    BY <2>3, <2>4 DEF Local, Agree
  <2>6. /\ DOMAIN N2.games \cap rest = {} /\ DOMAIN F2.games = DOMAIN N2.games \cup rest
    BY <2>3, <2>4 DEF Local, Agree
  <2>7. Agree(N2, F2, rest)
    <3>1. /\ IsSnapshot(N2) /\ IsSnapshot(F2)
          /\ N2.bindings = F2.bindings /\ N2.invitations = F2.invitations
          /\ N2.spectators = F2.spectators /\ N2.consents = F2.consents
          /\ N2.sessions = F2.sessions /\ N2.ledger = F2.ledger
      BY <2>1, <2>2 DEF Local, Agree, N2, F2
    <3> QED BY <2>5, <2>6, <3>1 DEF Agree
  <2>8. Local(N2, F2, rest)
    <3>1. F2.consents = F.consents
      BY <2>2 DEF F2
    <3> QED BY <2>7, <3>1 DEF Local
  <2>9. Untouched(F2, F, rest)
    BY <2>3 DEF Untouched, Local, Agree
  <2> QED BY <2>8, <2>9 DEF Alike, N2, F2
<1> QED BY <1>3, <1>4

LEMMA ClaimAlike ==
  ASSUME NEW N, NEW F, NEW rest, Local(N, F, rest), NEW r \in Request, r.kind = "claim", r.game \notin rest
  PROVE  Alike(N, F, ClaimInvitation(N, r), ClaimInvitation(F, r), rest)
<1> DEFINE May(S) == r.game \in S.invitations /\ Active(S, r.game)
                     /\ Binding("seat", r.game, r.session) \notin S.bindings
           N2 == ClaimInvitation(N, r)
           F2 == ClaimInvitation(F, r)
<1>1. IsSnapshot(N) /\ IsSnapshot(F)
  BY DEF Local, Agree
<1>2. May(N) <=> May(F)
  BY AgreeActive DEF Local, Agree
<1>3. CASE ~May(N)
  <2>1. N2 = N /\ F2 = F
    BY <1>2, <1>3 DEF ClaimInvitation
  <2> QED BY <2>1, AlikeItself
<1>4. CASE May(N)
  <2>1. LET T == ClaimInvitation(N, r) IN
         /\ IsSnapshot(T)
         /\ T.games = N.games
         /\ T.bindings = N.bindings \cup {Binding("seat", r.game, r.session)}
         /\ T.invitations = N.invitations \ {r.game}
         /\ T.spectators = N.spectators /\ T.consents = N.consents
         /\ T.sessions = N.sessions \cup {r.session}
         /\ T.ledger = N.ledger
    BY <1>1, <1>4, ClaimFields
  <2>2. LET T == ClaimInvitation(F, r) IN
         /\ IsSnapshot(T)
         /\ T.games = F.games
         /\ T.bindings = F.bindings \cup {Binding("seat", r.game, r.session)}
         /\ T.invitations = F.invitations \ {r.game}
         /\ T.spectators = F.spectators /\ T.consents = F.consents
         /\ T.sessions = F.sessions \cup {r.session}
         /\ T.ledger = F.ledger
    BY <1>1, <1>2, <1>4, ClaimFields
  <2> HIDE DEF N2, F2
  <2>3. Agree(N2, F2, rest)
    BY <2>1, <2>2 DEF Local, Agree, N2, F2
  <2>4. F2.consents = F.consents /\ F2.games = F.games
    BY <2>2 DEF F2
  <2>5. Alike(N, F, N2, F2, rest)
    BY <2>3, <2>4 DEF Alike, Local, Untouched
  <2> QED BY <2>5 DEF N2, F2
<1> QED BY <1>3, <1>4

LEMMA WatchAlike ==
  ASSUME NEW N, NEW F, NEW rest, Local(N, F, rest), NEW r \in Request, r.kind = "watch", r.game \notin rest
  PROVE  Alike(N, F, ClaimSpectatorInvitation(N, r), ClaimSpectatorInvitation(F, r), rest)
<1> DEFINE N2 == ClaimSpectatorInvitation(N, r)
           F2 == ClaimSpectatorInvitation(F, r)
<1>1. IsSnapshot(N) /\ IsSnapshot(F)
  BY DEF Local, Agree
<1>2. Active(N, r.game) <=> Active(F, r.game)
  BY AgreeActive DEF Local
<1>3. CASE ~Active(N, r.game)
  <2>1. N2 = N /\ F2 = F
    BY <1>2, <1>3 DEF ClaimSpectatorInvitation
  <2> QED BY <2>1, AlikeItself
<1>4. CASE Active(N, r.game)
  <2>1. LET T == ClaimSpectatorInvitation(N, r) IN
         /\ IsSnapshot(T)
         /\ T.games = N.games /\ T.bindings = N.bindings /\ T.invitations = N.invitations
         /\ T.spectators = N.spectators \cup {[game |-> r.game, session |-> r.session]}
         /\ T.consents = N.consents
         /\ T.sessions = N.sessions \cup {r.session}
         /\ T.ledger = N.ledger
    BY <1>1, <1>4, WatchFields
  <2>2. LET T == ClaimSpectatorInvitation(F, r) IN
         /\ IsSnapshot(T)
         /\ T.games = F.games /\ T.bindings = F.bindings /\ T.invitations = F.invitations
         /\ T.spectators = F.spectators \cup {[game |-> r.game, session |-> r.session]}
         /\ T.consents = F.consents
         /\ T.sessions = F.sessions \cup {r.session}
         /\ T.ledger = F.ledger
    BY <1>1, <1>2, <1>4, WatchFields
  <2> HIDE DEF N2, F2
  <2>3. Agree(N2, F2, rest)
    BY <2>1, <2>2 DEF Local, Agree, N2, F2
  <2>4. F2.consents = F.consents /\ F2.games = F.games
    BY <2>2 DEF F2
  <2>5. Alike(N, F, N2, F2, rest)
    BY <2>3, <2>4 DEF Alike, Local, Untouched
  <2> QED BY <2>5 DEF N2, F2
<1> QED BY <1>3, <1>4

LEMMA ConsentAlike ==
  ASSUME NEW N, NEW F, NEW rest, Local(N, F, rest), NEW consents \in SUBSET Player,
         \A c \in consents : c.game \notin rest
  PROVE  Alike(N, F, [N EXCEPT !.consents = consents], [F EXCEPT !.consents = consents], rest)
<1> DEFINE N2 == [N EXCEPT !.consents = consents]
           F2 == [F EXCEPT !.consents = consents]
<1>1. IsSnapshot(N) /\ IsSnapshot(F)
  BY DEF Local, Agree
<1>2. LET T == [N EXCEPT !.consents = consents] IN
         /\ IsSnapshot(T)
         /\ T.games = N.games /\ T.bindings = N.bindings /\ T.invitations = N.invitations
         /\ T.spectators = N.spectators /\ T.consents = consents
         /\ T.sessions = N.sessions /\ T.ledger = N.ledger
  BY <1>1, ConsentFields
<1>3. LET T == [F EXCEPT !.consents = consents] IN
         /\ IsSnapshot(T)
         /\ T.games = F.games /\ T.bindings = F.bindings /\ T.invitations = F.invitations
         /\ T.spectators = F.spectators /\ T.consents = consents
         /\ T.sessions = F.sessions /\ T.ledger = F.ledger
  BY <1>1, ConsentFields
<1> HIDE DEF N2, F2
<1>4. Agree(N2, F2, rest)
  BY <1>2, <1>3 DEF Local, Agree, N2, F2
<1>5. F2.consents = consents /\ F2.games = F.games
  BY <1>3 DEF F2
<1>6. Alike(N, F, N2, F2, rest)
  BY <1>4, <1>5 DEF Alike, Local, Untouched
<1> QED BY <1>6 DEF N2, F2

LEMMA SubscribeAlike ==
  ASSUME NEW N, NEW F, NEW rest, Local(N, F, rest), NEW r \in Request, r.kind = "subscribe",
         r.game \notin rest
  PROVE  Alike(N, F, SetPushSubscription(N, r), SetPushSubscription(F, r), rest)
<1> DEFINE May(S) == /\ Active(S, r.game)
                     /\ Binding("seat", r.game, r.session) \in S.bindings
                     /\ ~S.games[r.game].over
           consents == F.consents \cup {[game |-> r.game, session |-> r.session]}
<1>1. N.consents = F.consents /\ IsSnapshot(F) /\ N.bindings = F.bindings
  BY DEF Local, Agree
<1>2. May(N) <=> May(F)
  BY <1>1, AgreeActive DEF Local
<1>3. CASE ~May(N)
  <2>1. SetPushSubscription(N, r) = N /\ SetPushSubscription(F, r) = F
    BY <1>2, <1>3 DEF SetPushSubscription
  <2> QED BY <2>1, AlikeItself
<1>4. CASE May(N)
  <2>1. consents \in SUBSET Player
    <3>1. r.game \in Game /\ r.session \in Session
      BY RequestFields DEF PlayerCalls
    <3>2. F.consents \subseteq Player
      BY <1>1, SnapshotFields
    <3> QED BY <3>1, <3>2 DEF Player
  <2>2. \A c \in consents : c.game \notin rest
    BY DEF Local
  <2>3. /\ SetPushSubscription(N, r) = [N EXCEPT !.consents = consents]
        /\ SetPushSubscription(F, r) = [F EXCEPT !.consents = consents]
    BY <1>1, <1>2, <1>4 DEF SetPushSubscription
  <2> HIDE DEF consents
  <2>4. Alike(N, F, [N EXCEPT !.consents = consents], [F EXCEPT !.consents = consents], rest)
    BY <2>1, <2>2, ConsentAlike
  <2> QED BY <2>3, <2>4
<1> QED BY <1>3, <1>4

LEMMA UnsubscribeAlike ==
  ASSUME NEW N, NEW F, NEW rest, Local(N, F, rest), NEW r
  PROVE  Alike(N, F, RemovePushSubscription(N, r), RemovePushSubscription(F, r), rest)
<1> DEFINE consents == F.consents \ {[game |-> r.game, session |-> r.session]}
<1>1. N.consents = F.consents /\ IsSnapshot(F)
  BY DEF Local, Agree
<1>2. consents \in SUBSET Player
  BY <1>1, SnapshotFields
<1>3. \A c \in consents : c.game \notin rest
  BY DEF Local
<1>4. /\ RemovePushSubscription(N, r) = [N EXCEPT !.consents = consents]
      /\ RemovePushSubscription(F, r) = [F EXCEPT !.consents = consents]
  BY <1>1 DEF RemovePushSubscription
<1> HIDE DEF consents
<1> QED BY <1>2, <1>3, <1>4, ConsentAlike

LEMMA FinishAlike ==
  ASSUME NEW N, NEW F, NEW rest, Local(N, F, rest), NEW r, r.game \notin rest
  PROVE  Alike(N, F, FinishGame(N, r), FinishGame(F, r), rest)
<1> DEFINE May(S) == Active(S, r.game) /\ Binding("seat", r.game, r.session) \in S.bindings
           Over(row) == [row EXCEPT !.over = TRUE]
           N2 == FinishGame(N, r)
           F2 == FinishGame(F, r)
<1>1. IsSnapshot(N) /\ IsSnapshot(F) /\ N.bindings = F.bindings
  BY DEF Local, Agree
<1>2. May(N) <=> May(F)
  BY <1>1, AgreeActive DEF Local
<1>3. CASE ~May(N)
  <2>1. N2 = N /\ F2 = F
    BY <1>2, <1>3 DEF FinishGame
  <2> QED BY <2>1, AlikeItself
<1>4. CASE May(N)
  <2>1. LET T == FinishGame(N, r) IN
         /\ IsSnapshot(T)
         /\ T.games = [g \in DOMAIN N.games |->
                         IF g = r.game THEN [N.games[g] EXCEPT !.over = TRUE] ELSE N.games[g]]
         /\ T.bindings = N.bindings /\ T.invitations = N.invitations
         /\ T.spectators = N.spectators /\ T.consents = N.consents
         /\ T.sessions = N.sessions /\ T.ledger = N.ledger
    BY <1>1, <1>4, FinishFields
  <2>2. LET T == FinishGame(F, r) IN
         /\ IsSnapshot(T)
         /\ T.games = [g \in DOMAIN F.games |->
                         IF g = r.game THEN [F.games[g] EXCEPT !.over = TRUE] ELSE F.games[g]]
         /\ T.bindings = F.bindings /\ T.invitations = F.invitations
         /\ T.spectators = F.spectators /\ T.consents = F.consents
         /\ T.sessions = F.sessions /\ T.ledger = F.ledger
    BY <1>1, <1>2, <1>4, FinishFields
  <2> HIDE DEF N2, F2
  <2>3. /\ DOMAIN N2.games = DOMAIN N.games /\ DOMAIN F2.games = DOMAIN F.games
        /\ \A g \in DOMAIN N.games :
             N2.games[g] = IF g = r.game THEN Over(N.games[g]) ELSE N.games[g]
        /\ \A g \in DOMAIN F.games :
             F2.games[g] = IF g = r.game THEN Over(F.games[g]) ELSE F.games[g]
    BY <2>1, <2>2 DEF N2, F2
  <2>4. \A g \in DOMAIN N2.games : N2.games[g] = F2.games[g]
    <3> HIDE DEF Over
    <3>1. \A g \in DOMAIN N.games : g \in DOMAIN F.games /\ N.games[g] = F.games[g]
      BY DEF Local, Agree
    <3> QED BY <2>3, <3>1
  <2>5. /\ IsSnapshot(N2) /\ IsSnapshot(F2)
        /\ N2.bindings = F2.bindings /\ N2.invitations = F2.invitations
        /\ N2.spectators = F2.spectators /\ N2.consents = F2.consents
        /\ N2.sessions = F2.sessions /\ N2.ledger = F2.ledger /\ F2.consents = F.consents
    BY <2>1, <2>2 DEF Local, Agree, N2, F2
  <2>6. Agree(N2, F2, rest)
    BY <2>3, <2>4, <2>5 DEF Local, Agree
  <2>7. Untouched(F2, F, rest)
    BY <2>3 DEF Untouched, Local, Agree
  <2>8. Alike(N, F, N2, F2, rest)
    BY <2>5, <2>6, <2>7 DEF Alike, Local
  <2> QED BY <2>8 DEF N2, F2
<1> QED BY <1>3, <1>4

LEMMA DeleteAlike ==
  ASSUME NEW N, NEW F, NEW rest, Local(N, F, rest), NEW r \in Request, r.kind = "delete",
         r.game \notin rest, NEW now \in Nat \ {0}
  PROVE  Alike(N, F, DeleteGame(N, r, now), DeleteGame(F, r, now), rest)
<1> DEFINE May(S) == Active(S, r.game) /\ Binding("host", r.game, r.session) \in S.bindings
           Shut(row) == [row EXCEPT !.deletedAt = now]
           N2 == DeleteGame(N, r, now)
           F2 == DeleteGame(F, r, now)
<1>1. IsSnapshot(N) /\ IsSnapshot(F) /\ N.bindings = F.bindings
  BY DEF Local, Agree
<1>2. May(N) <=> May(F)
  BY <1>1, AgreeActive DEF Local
<1>3. CASE ~May(N)
  <2>1. N2 = N /\ F2 = F
    BY <1>2, <1>3 DEF DeleteGame
  <2> QED BY <2>1, AlikeItself
<1>4. CASE May(N)
  <2>1. LET T == DeleteGame(N, r, now) IN
         /\ IsSnapshot(T)
         /\ T.games = [g \in DOMAIN N.games |->
                         IF g = r.game THEN [N.games[g] EXCEPT !.deletedAt = now] ELSE N.games[g]]
         /\ T.bindings = {b \in N.bindings : b.game # r.game}
         /\ T.invitations = N.invitations \ {r.game}
         /\ T.spectators = {b \in N.spectators : b.game # r.game}
         /\ T.consents = N.consents
         /\ T.sessions = {s \in N.sessions : \E b \in T.bindings \cup T.spectators : b.session = s}
         /\ T.ledger = Append(N.ledger, [game |-> r.game, deletedAt |-> now, purgedAt |-> 0])
    BY <1>1, <1>4, DeleteFields
  <2>2. LET T == DeleteGame(F, r, now) IN
         /\ IsSnapshot(T)
         /\ T.games = [g \in DOMAIN F.games |->
                         IF g = r.game THEN [F.games[g] EXCEPT !.deletedAt = now] ELSE F.games[g]]
         /\ T.bindings = {b \in F.bindings : b.game # r.game}
         /\ T.invitations = F.invitations \ {r.game}
         /\ T.spectators = {b \in F.spectators : b.game # r.game}
         /\ T.consents = F.consents
         /\ T.sessions = {s \in F.sessions : \E b \in T.bindings \cup T.spectators : b.session = s}
         /\ T.ledger = Append(F.ledger, [game |-> r.game, deletedAt |-> now, purgedAt |-> 0])
    BY <1>1, <1>2, <1>4, DeleteFields
  <2> HIDE DEF N2, F2
  <2>3. /\ DOMAIN N2.games = DOMAIN N.games /\ DOMAIN F2.games = DOMAIN F.games
        /\ \A g \in DOMAIN N.games :
             N2.games[g] = IF g = r.game THEN Shut(N.games[g]) ELSE N.games[g]
        /\ \A g \in DOMAIN F.games :
             F2.games[g] = IF g = r.game THEN Shut(F.games[g]) ELSE F.games[g]
    BY <2>1, <2>2 DEF N2, F2
  <2>4. \A g \in DOMAIN N2.games : N2.games[g] = F2.games[g]
    <3> HIDE DEF Shut
    <3>1. \A g \in DOMAIN N.games : g \in DOMAIN F.games /\ N.games[g] = F.games[g]
      BY DEF Local, Agree
    <3> QED BY <2>3, <3>1
  <2>5. /\ IsSnapshot(N2) /\ IsSnapshot(F2)
        /\ N2.bindings = F2.bindings /\ N2.invitations = F2.invitations
        /\ N2.spectators = F2.spectators /\ N2.consents = F2.consents
        /\ N2.ledger = F2.ledger /\ F2.consents = F.consents
    BY <2>1, <2>2 DEF Local, Agree, N2, F2
  <2>6. N2.sessions = F2.sessions
    <3>1. N.sessions = F.sessions
      BY DEF Local, Agree
    <3> QED BY <2>1, <2>2, <2>5, <3>1 DEF N2, F2
  <2>7. Agree(N2, F2, rest)
    BY <2>3, <2>4, <2>5, <2>6 DEF Local, Agree
  <2>8. Untouched(F2, F, rest)
    BY <2>3 DEF Untouched, Local, Agree
  <2>9. Alike(N, F, N2, F2, rest)
    BY <2>5, <2>7, <2>8 DEF Alike, Local
  <2> QED BY <2>9 DEF N2, F2
<1> QED BY <1>3, <1>4

\* The calls that name a game and read its row.
Reading == {"claim", "watch", "subscribe", "finish", "delete"}

\* What the loaded games must include.
Suffices(r, F, new, rest) ==
  /\ r.kind = "create" => new \in Game \ DOMAIN F.games /\ \A g \in rest : F.games[g].creation # r.id
  /\ r.kind \in Reading => r.game \notin rest
  /\ r.kind # "purge"

LEMMA ServedAlike ==
  ASSUME NEW N, NEW F, NEW rest, Local(N, F, rest), NEW r \in Request, NEW new, NEW now \in Nat \ {0},
         Suffices(r, F, new, rest)
  PROVE  Alike(N, F, Served(N, r, new, now), Served(F, r, new, now), rest)
<1> USE DEF Suffices, Reading
<1>1. CASE r.kind = "create"
  BY <1>1, ServedCases, CreateAlike
<1>2. CASE r.kind = "claim"
  BY <1>2, ServedCases, ClaimAlike
<1>3. CASE r.kind = "watch"
  BY <1>3, ServedCases, WatchAlike
<1>4. CASE r.kind = "subscribe"
  BY <1>4, ServedCases, SubscribeAlike
<1>5. CASE r.kind = "unsubscribe"
  BY <1>5, ServedCases, UnsubscribeAlike
<1>6. CASE r.kind = "finish"
  BY <1>6, ServedCases, FinishAlike
<1>7. CASE r.kind = "delete"
  BY <1>7, ServedCases, DeleteAlike
<1>8. CASE r.kind = "poll"
  BY <1>8, ServedCases, AlikeItself
<1> QED BY <1>1, <1>2, <1>3, <1>4, <1>5, <1>6, <1>7, <1>8, RequestFields DEF PlayerCalls

\* A scoped call does to the loaded rows what the whole call does to all of them.
LEMMA ApplyAlike ==
  ASSUME NEW N, NEW F, NEW rest, Agree(N, F, rest),
         \A c \in F.consents : Binding("seat", c.game, c.session) \in F.bindings => c.game \notin rest,
         NEW r \in Request, NEW new, NEW now \in Nat \ {0}, Suffices(r, F, new, rest)
  PROVE  Alike(N, F, Apply(N, r, new, now), Apply(F, r, new, now), rest)
<1> DEFINE PN == Prune(N)
           PF == Prune(F)
           ON == Served(PN, r, new, now)
           OF == Served(PF, r, new, now)
<1>1. Local(PN, PF, rest) /\ PF.games = F.games
  BY PruneAgrees
<1> HIDE DEF PN, PF
<1>2. Suffices(r, PF, new, rest)
  BY <1>1 DEF Suffices
<1>3. Alike(PN, PF, ON, OF, rest)
  BY <1>1, <1>2, ServedAlike
<1> HIDE DEF ON, OF
<1>4. Local(Prune(ON), Prune(OF), rest) /\ Prune(OF).games = OF.games
  BY <1>3, PruneAgrees DEF Alike, Local
<1>5. Untouched(Prune(OF), F, rest)
  BY <1>1, <1>3, <1>4 DEF Alike, Untouched
<1>6. Apply(N, r, new, now) = Prune(ON) /\ Apply(F, r, new, now) = Prune(OF)
  BY ApplyIsServed DEF ON, OF, PN, PF
<1> QED BY <1>4, <1>5, <1>6 DEF Alike

-----------------------------------------------------------------------------
(* The abstract service calls by the same names what it does.              *)

LEMMA SameWords ==
  /\ Service!Request = Request /\ Service!Empty = Empty
  /\ \A games, ledger : Service!Fresh(games, ledger) = Fresh(games, ledger)
  /\ Service!Now = Len(Stored.ledger) + 1
BY DEF Service!Request, Request, Service!Game, Game, Service!Empty, Empty, Service!Fresh, Fresh,
       Service!Now

LEMMA SamePrune ==
  ASSUME NEW S
  PROVE  Service!Prune(S) = Prune(S)
BY DEF Service!Prune, Prune, Service!Binding, Binding, Service!Active, Active

LEMMA SameCalls ==
  ASSUME NEW S, NEW r, NEW new, NEW now
  PROVE  /\ Service!CreateGame(S, r, new) = CreateGame(S, r, new)
         /\ Service!ClaimInvitation(S, r) = ClaimInvitation(S, r)
         /\ Service!ClaimSpectatorInvitation(S, r) = ClaimSpectatorInvitation(S, r)
         /\ Service!SetPushSubscription(S, r) = SetPushSubscription(S, r)
         /\ Service!RemovePushSubscription(S, r) = RemovePushSubscription(S, r)
         /\ Service!FinishGame(S, r) = FinishGame(S, r)
         /\ Service!DeleteGame(S, r, now) = DeleteGame(S, r, now)
<1>1. Service!CreateGame(S, r, new) = CreateGame(S, r, new)
  BY DEF Service!CreateGame, CreateGame, Service!WithSession, WithSession, Service!Binding, Binding
<1>2. Service!ClaimInvitation(S, r) = ClaimInvitation(S, r)
  BY DEF Service!ClaimInvitation, ClaimInvitation, Service!WithSession, WithSession,
         Service!Binding, Binding, Service!Active, Active
<1>3. Service!ClaimSpectatorInvitation(S, r) = ClaimSpectatorInvitation(S, r)
  BY DEF Service!ClaimSpectatorInvitation, ClaimSpectatorInvitation, Service!WithSession, WithSession,
         Service!Active, Active
<1>4. Service!SetPushSubscription(S, r) = SetPushSubscription(S, r)
  BY DEF Service!SetPushSubscription, SetPushSubscription, Service!Binding, Binding,
         Service!Active, Active
<1>5. Service!RemovePushSubscription(S, r) = RemovePushSubscription(S, r)
  BY DEF Service!RemovePushSubscription, RemovePushSubscription
<1>6. Service!FinishGame(S, r) = FinishGame(S, r)
  BY DEF Service!FinishGame, FinishGame, Service!Binding, Binding, Service!Active, Active
<1>7. Service!DeleteGame(S, r, now) = DeleteGame(S, r, now)
  BY DEF Service!DeleteGame, DeleteGame, Service!Binding, Binding, Service!Active, Active,
         Service!Of, Of, Service!WithoutIdleSessions, WithoutIdleSessions
<1> QED BY <1>1, <1>2, <1>3, <1>4, <1>5, <1>6, <1>7

LEMMA SameRetention ==
  ASSUME NEW S, NEW upTo, NEW now
  PROVE  Service!PurgeDeletedGames(S, upTo, now) = PurgeDeletedGames(S, upTo, now)
<1>1. ASSUME NEW T, NEW receipts
      PROVE  Service!ApplyReceipts(T, receipts) = ApplyReceipts(T, receipts)
  BY DEF Service!ApplyReceipts, ApplyReceipts
<1>2. ASSUME NEW receipts, NEW ledger
      PROVE  Service!Continues(receipts, ledger) = Continues(receipts, ledger)
  BY DEF Service!Continues, Continues, Service!IsPrefix, IsPrefix
<1>3. ASSUME NEW T
      PROVE  Service!WithoutIdleSessions(T) = WithoutIdleSessions(T)
  BY DEF Service!WithoutIdleSessions, WithoutIdleSessions
<1>4. ASSUME NEW T, NEW receipts
      PROVE  Service!SynchronizeDeletionLedger(T, receipts) = SynchronizeDeletionLedger(T, receipts)
  BY <1>1, <1>2, <1>3 DEF Service!SynchronizeDeletionLedger, SynchronizeDeletionLedger
<1>5. ASSUME NEW games
      PROVE  Service!InOrder(games) = InOrder(games)
  <2>1. Service!Cardinality(games) = Cardinality(games)
    BY DEF Service!Cardinality, Cardinality
  <2> QED BY <2>1 DEF Service!InOrder, InOrder
<1> QED BY <1>4, <1>5 DEF Service!PurgeDeletedGames, PurgeDeletedGames

LEMMA SameApply ==
  ASSUME NEW S, NEW r, NEW new, NEW now
  PROVE  Service!Apply(S, r, new, now) = Apply(S, r, new, now)
<1>1. \A T : Service!Prune(T) = Prune(T)
  BY SamePrune
<1>2. ASSUME NEW T
      PROVE  /\ Service!CreateGame(T, r, new) = CreateGame(T, r, new)
             /\ Service!ClaimInvitation(T, r) = ClaimInvitation(T, r)
             /\ Service!ClaimSpectatorInvitation(T, r) = ClaimSpectatorInvitation(T, r)
             /\ Service!SetPushSubscription(T, r) = SetPushSubscription(T, r)
             /\ Service!RemovePushSubscription(T, r) = RemovePushSubscription(T, r)
             /\ Service!FinishGame(T, r) = FinishGame(T, r)
             /\ Service!DeleteGame(T, r, now) = DeleteGame(T, r, now)
  BY SameCalls
<1>3. \A T, upTo : Service!PurgeDeletedGames(T, upTo, now) = PurgeDeletedGames(T, upTo, now)
  BY SameRetention
<1> QED BY <1>1, <1>2, <1>3 DEF Service!Apply, Apply

-----------------------------------------------------------------------------
(* What a transaction reads.                                               *)

LEMMA StoredFields ==
  /\ Stored.games = rows /\ Stored.bindings = meta.bindings /\ Stored.invitations = meta.invitations
  /\ Stored.spectators = meta.spectators /\ Stored.consents = meta.consents
  /\ Stored.sessions = meta.sessions /\ Stored.ledger = meta.ledger
BY DEF Stored, WithGames

LEMMA LoadAgrees ==
  ASSUME IsSnapshot(Stored), NEW games
  PROVE  Agree(Load(games), Stored, DOMAIN rows \ games)
<1> DEFINE loadedRows == [g \in games \cap DOMAIN rows |-> rows[g]]
           L == Load(games)
<1>1. L = [games |-> loadedRows, bindings |-> meta.bindings, invitations |-> meta.invitations,
           spectators |-> meta.spectators, consents |-> meta.consents, sessions |-> meta.sessions,
           ledger |-> meta.ledger]
  BY DEF Load, WithGames, Restrict
<1>2. /\ Stored.games = rows /\ Stored.bindings = meta.bindings /\ Stored.invitations = meta.invitations
      /\ Stored.spectators = meta.spectators /\ Stored.consents = meta.consents
      /\ Stored.sessions = meta.sessions /\ Stored.ledger = meta.ledger
  BY StoredFields
<1>3. /\ DOMAIN rows \subseteq Game /\ \A g \in DOMAIN rows : rows[g] \in Row
      /\ meta.bindings \subseteq SeatType /\ meta.invitations \subseteq Game
      /\ meta.spectators \subseteq Player /\ meta.consents \subseteq Player
      /\ meta.sessions \subseteq Session /\ meta.ledger \in Seq(Receipt)
  <2>1. /\ DOMAIN Stored.games \subseteq Game /\ \A g \in DOMAIN Stored.games : Stored.games[g] \in Row
        /\ Stored.bindings \subseteq SeatType /\ Stored.invitations \subseteq Game
        /\ Stored.spectators \subseteq Player /\ Stored.consents \subseteq Player
        /\ Stored.sessions \subseteq Session /\ Stored.ledger \in Seq(Receipt)
    BY SnapshotFields DEF SeatType
  <2> QED BY <1>2, <2>1
<1>4. /\ loadedRows = [g \in DOMAIN loadedRows |-> loadedRows[g]]
      /\ DOMAIN loadedRows = games \cap DOMAIN rows
      /\ \A g \in DOMAIN loadedRows : loadedRows[g] = rows[g]
  OBVIOUS
<1> HIDE DEF loadedRows, L
<1>5. IsSnapshot(L)
  <2>1. DOMAIN loadedRows \subseteq Game /\ \A g \in DOMAIN loadedRows : loadedRows[g] \in Row
    BY <1>3, <1>4
  <2> QED BY <1>1, <1>3, <1>4, <2>1, MadeSnapshot DEF SeatType
<1>6. Agree(L, Stored, DOMAIN rows \ games)
  BY <1>1, <1>2, <1>4, <1>5 DEF Agree
<1> QED BY <1>6 DEF L

LEMMA LoadWhole ==
  ASSUME IsSnapshot(Stored), NEW games, DOMAIN rows \subseteq games
  PROVE  Load(games) = Stored
<1>1. Agree(Load(games), Stored, DOMAIN rows \ games)
  BY LoadAgrees
<1>2. DOMAIN rows \ games = {}
  OBVIOUS
<1>3. Agree(Load(games), Stored, {})
  BY <1>1, <1>2
<1> HIDE DEF Stored
<1> QED BY <1>3, SameSnapshot DEF Agree

\* Who has consent and a seat is in a game that is loaded.
LEMMA ConsentsAreLoaded ==
  ASSUME IsSnapshot(Stored), NEW c \in Stored.consents,
         Binding("seat", c.game, c.session) \in Stored.bindings
  PROVE  c.game \in PushGames
<1>1. c \in Player
  BY SnapshotFields
<1>2. c = [game |-> c.game, session |-> c.session]
  BY <1>1 DEF Player
<1> DEFINE b == Binding("seat", c.game, c.session)
<1>3. b.role = "seat" /\ b.game = c.game /\ b.session = c.session
  BY DEF Binding
<1>4. b \in meta.bindings /\ c \in meta.consents
  BY StoredFields
<1> HIDE DEF b
<1>5. [game |-> b.game, session |-> b.session] \in meta.consents
  BY <1>2, <1>3, <1>4
<1> QED BY <1>3, <1>4, <1>5 DEF PushGames

LEMMA SelectionFacts ==
  ASSUME NEW r \in Request
  PROVE  /\ PushGames \subseteq Selection(r) \/ r.kind = "purge"
         /\ r.kind = "purge" => Selection(r) = DOMAIN rows
         /\ r.kind \in Reading => r.game \in Selection(r)
         /\ r.kind = "create" => \A g \in DOMAIN rows \ Selection(r) : rows[g].creation # r.id
BY RequestFields DEF Selection, Reading

-----------------------------------------------------------------------------
(* What a transaction writes.                                              *)

\* Without some rows that it leaves alone, the call has done what it does to all of them.
Wrote(p, next, F) ==
  \E rest :
    /\ Agree(loaded[p], Stored, rest) /\ Agree(next, F, rest) /\ Untouched(F, Stored, rest)
    /\ SnapshotInv(F) /\ Follows(Stored, F)

\* The game that a call may create.
May(r, new) ==
  IF r.kind = "create" THEN new \in Fresh(DOMAIN rows, meta.ledger) ELSE new = 0

LEMMA FreshIsNew ==
  ASSUME NEW games, NEW ledger, NEW new \in Fresh(games, ledger)
  PROVE  new \in Game \ games
BY DEF Fresh

LEMMA OutcomeIsWhole ==
  ASSUME StoreAssumption, LoadsAreCurrent, RequestsAreKnown, SnapshotInv(Stored), Phases,
         NEW p \in ForUpdate, NEW next \in Outcomes(p)
  PROVE  /\ request[p] \in Request
         /\ \E new : May(request[p], new) /\ Wrote(p, next, Apply(Stored, request[p], new, Stamp))
<1> DEFINE r == request[p]
           games == IF p \in Client THEN Selection(r) ELSE PushGames
           rest == DOMAIN rows \ games
<1>1. p \in Process /\ phase[p] = "loaded" /\ p \in Client \cup Worker
  BY DEF ForUpdate, Phases, Process
<1>2. r \in Request /\ (p \notin Client => r.kind \in {"unsubscribe", "poll"})
  BY <1>1 DEF RequestsAreKnown, StoreAssumption
<1>3. IsSnapshot(Stored) /\ Stored.games = rows /\ Stored.ledger = meta.ledger
  BY StoredFields DEF SnapshotInv
<1>4. Stamp \in Nat \ {0}
  <2>1. meta.ledger \in Seq(Receipt)
    BY <1>3, SnapshotFields
  <2> QED BY <2>1 DEF Stamp
<1>5. loaded[p] = Load(games)
  BY DEF LoadsAreCurrent
<1>6. \E new : May(r, new) /\ next = Apply(loaded[p], r, new, Stamp)
  BY DEF Outcomes, May
<1>7. PICK new : May(r, new) /\ next = Apply(loaded[p], r, new, Stamp)
  BY <1>6
<1>8. r.kind = "create" => new \in Game \ DOMAIN Stored.games
  BY <1>3, <1>7, FreshIsNew DEF May
<1> DEFINE F == Apply(Stored, r, new, Stamp)
<1>9. SnapshotInv(F) /\ Follows(Stored, F)
  BY <1>2, <1>4, <1>8, ApplyKeeps DEF StoreAssumption
<1>10. CASE r.kind = "purge"
  <2>1. loaded[p] = Stored
    <3>1. games = DOMAIN rows
      BY <1>2, <1>10, SelectionFacts
    <3> QED BY <1>3, <1>5, <3>1, LoadWhole
  <2>2. next = F
    BY <1>7, <2>1
  <2>3. Agree(Stored, Stored, {}) /\ Agree(F, F, {}) /\ Untouched(F, Stored, {})
    BY <1>3, <1>9 DEF Agree, SnapshotInv, Untouched
  <2> HIDE DEF F
  <2>4. Wrote(p, next, F)
    BY <1>9, <2>1, <2>2, <2>3 DEF Wrote
  <2> QED BY <1>2, <1>7, <2>4 DEF F
<1>11. CASE r.kind # "purge"
  <2>1. PushGames \subseteq games
    BY <1>2, <1>11, SelectionFacts
  <2>2. Agree(loaded[p], Stored, rest)
    BY <1>3, <1>5, LoadAgrees
  <2>3. \A c \in Stored.consents :
          Binding("seat", c.game, c.session) \in Stored.bindings => c.game \notin rest
    BY <1>3, <2>1, ConsentsAreLoaded
  <2>4. Suffices(r, Stored, new, rest)
    <3>1. r.kind \in Reading => r.game \notin rest
      BY <1>2, SelectionFacts DEF Reading
    <3>2. r.kind = "create" => \A g \in rest : Stored.games[g].creation # r.id
      BY <1>2, <1>3, SelectionFacts
    <3> QED BY <1>8, <1>11, <3>1, <3>2 DEF Suffices
  <2> HIDE DEF rest
  <2>5. Alike(loaded[p], Stored, Apply(loaded[p], r, new, Stamp), Apply(Stored, r, new, Stamp), rest)
    BY <1>2, <1>4, <2>2, <2>3, <2>4, ApplyAlike
  <2>6. Agree(next, F, rest) /\ Untouched(F, Stored, rest)
    BY <1>7, <2>5 DEF Alike, Local
  <2> HIDE DEF F
  <2>7. Wrote(p, next, F)
    BY <1>9, <2>2, <2>6 DEF Wrote
  <2> QED BY <1>2, <1>7, <2>7 DEF F
<1> QED BY <1>10, <1>11

LEMMA UpsertedIsWhole ==
  ASSUME IsSnapshot(Stored), NEW p, NEW next, NEW F, Wrote(p, next, F)
  PROVE  Upserted(next, loaded[p]) = F.games
<1> DEFINE L == loaded[p]
           S == Stored
           changed == Changed(next, L)
           U == Upserted(next, L)
<1>1. PICK rest :
        /\ Agree(L, S, rest) /\ Agree(next, F, rest) /\ Untouched(F, S, rest)
  BY DEF Wrote
<1>2. S.games = rows
  BY StoredFields
<1> HIDE DEF L, S
<1>3. /\ DOMAIN L.games \cap rest = {} /\ DOMAIN rows = DOMAIN L.games \cup rest
      /\ \A g \in DOMAIN L.games : L.games[g] = rows[g]
  BY <1>1, <1>2 DEF Agree
<1>4. /\ DOMAIN next.games \cap rest = {} /\ DOMAIN F.games = DOMAIN next.games \cup rest
      /\ \A g \in DOMAIN next.games : next.games[g] = F.games[g]
      /\ \A g \in rest : F.games[g] = rows[g]
  BY <1>1, <1>2 DEF Agree, Untouched
<1>5. \A g : g \in changed <=> g \in DOMAIN next.games /\ (g \in DOMAIN L.games => next.games[g] # L.games[g])
  BY DEF Changed
<1>6. U = [g \in (DOMAIN rows \ (DOMAIN L.games \ DOMAIN next.games)) \cup changed |->
             IF g \in changed THEN next.games[g] ELSE rows[g]]
  BY DEF Upserted
<1> HIDE DEF changed, U
<1>7. (DOMAIN rows \ (DOMAIN L.games \ DOMAIN next.games)) \cup changed = DOMAIN F.games
  BY <1>3, <1>4, <1>5
<1>8. \A g \in DOMAIN F.games : (IF g \in changed THEN next.games[g] ELSE rows[g]) = F.games[g]
  BY <1>3, <1>4, <1>5
<1>9. F.games = [g \in DOMAIN F.games |-> F.games[g]]
  BY <1>1, SnapshotFields DEF Agree
<1>10. U = F.games
  BY <1>6, <1>7, <1>8, <1>9
<1> QED BY <1>10 DEF U, L

LEMMA MirroredIsWhole ==
  ASSUME SnapshotInv(Stored), MirrorAgrees, NEW p, NEW next, NEW F, Wrote(p, next, F)
  PROVE  Mirrored(next, loaded[p]) =
           [games |-> DOMAIN F.games, sessions |-> F.sessions, bindings |-> F.bindings,
            ledger |-> F.ledger]
<1> DEFINE L == loaded[p]
           S == Stored
           changed == Changed(next, L)
           receipts == SubSeq(next.ledger, Len(L.ledger) + 1, Len(next.ledger))
           deleted == {g \in DOMAIN next.games : next.games[g].deletedAt # 0}
           kept == {b \in mirror.bindings : b.game \notin Purged(receipts) \cup (deleted \cap changed)}
           observers == {b.session : b \in next.spectators}
           found == {s \in mirror.sessions : s \in observers \/ \E b \in kept : b.session = s}
           new == {b \in next.bindings \ L.bindings : b.game \notin deleted}
<1>1. PICK rest :
        /\ Agree(L, S, rest) /\ Agree(next, F, rest) /\ Untouched(F, S, rest)
        /\ SnapshotInv(F) /\ Follows(S, F)
  BY DEF Wrote
<1>2. /\ mirror = [games |-> DOMAIN S.games, sessions |-> S.sessions, bindings |-> S.bindings,
                   ledger |-> S.ledger]
      /\ SnapshotInv(S) /\ IsSnapshot(S) /\ IsSnapshot(F)
  BY <1>1, StoredFields DEF MirrorAgrees, SnapshotInv
<1>3. Mirrored(next, L) =
        [games |-> (mirror.games \ Purged(receipts)) \cup changed,
         sessions |-> found \cup (next.sessions \cap observers) \cup (next.sessions \ L.sessions),
         bindings |-> {b \in kept : [b EXCEPT !.live = ~b.live] \notin new} \cup new,
         ledger |-> mirror.ledger \o
                      SubSeq(next.ledger, Len(mirror.ledger) + 1, Len(next.ledger))]
  BY DEF Mirrored, Purged
<1>4. PICK rs \in Seq(Receipt) :
        /\ F.ledger = S.ledger \o rs
        /\ DOMAIN F.games \cap Purged(rs) = {}
        /\ DOMAIN S.games \ Purged(rs) \subseteq DOMAIN F.games
  BY <1>1 DEF Follows
<1> HIDE DEF L, S
<1>5. /\ L.bindings = S.bindings /\ L.sessions = S.sessions /\ L.ledger = S.ledger
      /\ next.bindings = F.bindings /\ next.spectators = F.spectators
      /\ next.sessions = F.sessions /\ next.ledger = F.ledger
  BY <1>1 DEF Agree
<1>6. receipts = rs /\ S.ledger \o receipts = F.ledger
  <2>1. S.ledger \in Seq(Receipt)
    BY <1>2, SnapshotFields
  <2>2. SubSeq(F.ledger, Len(S.ledger) + 1, Len(F.ledger)) = rs
    BY <1>4, <2>1, Suffix
  <2> QED BY <1>4, <1>5, <2>2
<1>7. /\ DOMAIN L.games \cap rest = {} /\ DOMAIN S.games = DOMAIN L.games \cup rest
      /\ \A g \in DOMAIN L.games : L.games[g] = S.games[g]
      /\ DOMAIN next.games \cap rest = {} /\ DOMAIN F.games = DOMAIN next.games \cup rest
      /\ \A g \in DOMAIN next.games : next.games[g] = F.games[g]
      /\ \A g \in rest : F.games[g] = S.games[g]
  BY <1>1 DEF Agree, Untouched
<1>8. \A g : g \in changed <=> g \in DOMAIN next.games /\ (g \in DOMAIN L.games => next.games[g] # L.games[g])
  BY DEF Changed
<1>9. /\ mirror.games = DOMAIN S.games /\ mirror.sessions = S.sessions /\ mirror.bindings = S.bindings
      /\ mirror.ledger = S.ledger
  BY <1>2
<1>10. (mirror.games \ Purged(receipts)) \cup changed = DOMAIN F.games
  <2> HIDE DEF changed, receipts
  <2> QED BY <1>4, <1>6, <1>7, <1>8, <1>9
<1>11. mirror.ledger \o SubSeq(next.ledger, Len(mirror.ledger) + 1, Len(next.ledger)) = F.ledger
  BY <1>5, <1>6, <1>9
<1>12. \A g : g \in deleted <=> g \in DOMAIN next.games /\ next.games[g].deletedAt # 0
  OBVIOUS
<1>13. /\ \A b \in F.bindings : b.live /\ Active(F, b.game) /\ b.session \in F.sessions
       /\ \A b \in F.spectators : b.session \in F.sessions
       /\ \A s \in F.sessions : \E b \in F.bindings \cup F.spectators : b.session = s
       /\ \A b \in S.bindings : Active(S, b.game)
       /\ \A s \in S.sessions : \E b \in S.bindings \cup S.spectators : b.session = s
  BY <1>1, <1>2 DEF SnapshotInv, BindingsAreSound
<1> HIDE DEF changed, receipts, deleted
<1>14. \A b \in S.bindings : b.game \notin Purged(receipts) \cup (deleted \cap changed) <=> b \in F.bindings
  <2> SUFFICES ASSUME NEW b \in S.bindings
               PROVE  b.game \notin Purged(receipts) \cup (deleted \cap changed) <=> b \in F.bindings
    OBVIOUS
  <2>1. Active(S, b.game)
    BY <1>13
  <2>2. CASE b \in F.bindings
    <3>1. Active(F, b.game)
      BY <1>13, <2>2
    <3> QED BY <1>4, <1>6, <1>7, <1>12, <2>2, <3>1 DEF Active
  <2>3. CASE b \notin F.bindings
    <3>1. ~Active(F, b.game)
      BY <1>1, <2>3 DEF Follows
    <3>2. b.game \in DOMAIN F.games => b.game \in deleted \cap changed
      BY <1>7, <1>8, <1>12, <2>1, <3>1 DEF Active
    <3>3. b.game \notin DOMAIN F.games => b.game \in Purged(receipts)
      BY <1>4, <1>6, <2>1 DEF Active
    <3> QED BY <2>3, <3>2, <3>3
  <2> QED BY <2>2, <2>3
<1>15. kept = S.bindings \cap F.bindings
  BY <1>9, <1>14
<1>16. new = F.bindings \ S.bindings
  <2>1. \A b \in F.bindings : b.game \notin deleted
    BY <1>7, <1>12, <1>13 DEF Active
  <2> QED BY <1>5, <2>1
<1> HIDE DEF kept, new
<1>17. \A b \in kept : [b EXCEPT !.live = ~b.live] \notin new
  <2>1. ASSUME NEW b \in kept PROVE [b EXCEPT !.live = ~b.live] \notin new
    <3>1. b.live /\ b \in SeatType
      BY <1>2, <1>13, <1>15, SnapshotFields DEF SeatType
    <3>2. [b EXCEPT !.live = ~b.live].live = FALSE
      BY <3>1 DEF SeatType
    <3>3. \A c \in new : c.live
      BY <1>13, <1>16
    <3> QED BY <3>2, <3>3
  <2> QED BY <2>1
<1>18. {b \in kept : [b EXCEPT !.live = ~b.live] \notin new} \cup new = F.bindings
  <2>1. {b \in kept : [b EXCEPT !.live = ~b.live] \notin new} = kept
    BY <1>17
  <2> QED BY <1>15, <1>16, <2>1
<1>19. found \cup (next.sessions \cap observers) \cup (next.sessions \ L.sessions) = F.sessions
  <2>1. \A s : s \in observers <=> \E b \in F.spectators : b.session = s
    BY <1>5
  <2>2. \A s : s \in found <=> s \in S.sessions /\ (s \in observers \/ \E b \in kept : b.session = s)
    BY <1>9
  <2> HIDE DEF observers, found
  <2>3. \A s \in found : s \in F.sessions
    BY <1>13, <1>15, <2>1, <2>2
  <2>4. \A s \in F.sessions : s \in S.sessions => s \in found
    <3> SUFFICES ASSUME NEW s \in F.sessions, s \in S.sessions, s \notin observers
                 PROVE  \E b \in kept : b.session = s
      BY <2>2
    <3>1. PICK b \in F.bindings : b.session = s
      BY <1>13, <2>1
    <3>2. CASE S.bindings \subseteq F.bindings /\ S.spectators \subseteq F.spectators
      <4>1. \E c \in S.bindings : c.session = s
        BY <1>13, <2>1, <3>2
      <4> QED BY <1>15, <3>2, <4>1
    <3>3. CASE F.bindings \subseteq S.bindings
      BY <1>15, <3>1, <3>3
    <3> QED BY <1>1, <3>2, <3>3 DEF Follows
  <2> QED BY <1>5, <2>3, <2>4
<1> HIDE DEF observers, found
<1>20. Mirrored(next, L) =
         [games |-> DOMAIN F.games, sessions |-> F.sessions, bindings |-> F.bindings, ledger |-> F.ledger]
  BY <1>3, <1>10, <1>11, <1>18, <1>19
<1> QED BY <1>20 DEF L

LEMMA WrittenFits ==
  ASSUME NEW F, SnapshotInv(F)
  PROVE  Fits(F.games, [games |-> DOMAIN F.games, sessions |-> F.sessions, bindings |-> F.bindings,
                        ledger |-> F.ledger])
BY DEF SnapshotInv, BindingsAreSound, GamesAreUnique, Active, Fits

-----------------------------------------------------------------------------
(* The tables, the loads and the mirror.                                   *)

TableInv ==
  /\ LoadsAreCurrent
  /\ RequestsAreKnown
  /\ SnapshotInv(Stored)
  /\ MirrorAgrees

-----------------------------------------------------------------------------
(* What a commit does to the tables.                                       *)

LEMMA PersistedIsWhole ==
  ASSUME StoreAssumption, SlotInv, TableInv, NEW p \in ForUpdate, NEW next \in Outcomes(p),
         Persist(next, loaded[p])
  PROVE  /\ SnapshotInv(Stored)' /\ MirrorAgrees'
         /\ \E new : /\ May(request[p], new)
                     /\ Stored' = Apply(Stored, request[p], new, Stamp)
<1>1. PICK new : May(request[p], new) /\ Wrote(p, next, Apply(Stored, request[p], new, Stamp))
  BY OutcomeIsWhole DEF TableInv, SlotInv
<1> DEFINE F == Apply(Stored, request[p], new, Stamp)
<1>2. Wrote(p, next, F)
  BY <1>1
<1> HIDE DEF F
<1>3. PICK rest : Agree(next, F, rest) /\ SnapshotInv(F)
  BY <1>2 DEF Wrote
<1>4. IsSnapshot(Stored) /\ IsSnapshot(F)
  BY <1>3 DEF TableInv, SnapshotInv
<1>5. rows' = F.games
  BY <1>2, <1>4, UpsertedIsWhole DEF Persist
<1>6. mirror' = [games |-> DOMAIN F.games, sessions |-> F.sessions, bindings |-> F.bindings,
                 ledger |-> F.ledger]
  BY <1>2, MirroredIsWhole DEF Persist, TableInv
<1>7. /\ meta'.bindings = F.bindings /\ meta'.invitations = F.invitations
      /\ meta'.spectators = F.spectators /\ meta'.consents = F.consents
      /\ meta'.sessions = F.sessions /\ meta'.ledger = F.ledger
  BY <1>3 DEF Persist, WithGames, Agree
<1>8. Stored' = F
  <2>1. Stored' = [games |-> F.games, bindings |-> F.bindings, invitations |-> F.invitations,
                   spectators |-> F.spectators, consents |-> F.consents, sessions |-> F.sessions,
                   ledger |-> F.ledger]
    BY <1>5, <1>7 DEF Stored, WithGames
  <2> QED BY <1>4, <2>1, SnapshotFields
<1>9. MirrorAgrees'
  BY <1>5, <1>6, <1>7 DEF MirrorAgrees
<1>10. SnapshotInv(Stored)'
  BY <1>3, <1>8
<1> QED BY <1>1, <1>8, <1>9, <1>10 DEF F

\* A commit never meets a constraint of the database.
LEMMA OutcomesFit ==
  ASSUME StoreAssumption, SlotInv, TableInv
  PROVE  EveryCommitFits
<1> SUFFICES ASSUME NEW p \in ForUpdate, NEW next \in Outcomes(p)
             PROVE  Fits(Upserted(next, loaded[p]), Mirrored(next, loaded[p]))
  BY DEF EveryCommitFits
<1>1. PICK new : Wrote(p, next, Apply(Stored, request[p], new, Stamp))
  BY OutcomeIsWhole DEF TableInv, SlotInv
<1> DEFINE F == Apply(Stored, request[p], new, Stamp)
<1>2. Wrote(p, next, F)
  BY <1>1
<1> HIDE DEF F
<1>3. SnapshotInv(F) /\ IsSnapshot(Stored)
  BY <1>2 DEF Wrote, TableInv, SnapshotInv
<1>4. Upserted(next, loaded[p]) = F.games
  BY <1>2, <1>3, UpsertedIsWhole
<1>5. Mirrored(next, loaded[p]) =
        [games |-> DOMAIN F.games, sessions |-> F.sessions, bindings |-> F.bindings, ledger |-> F.ledger]
  BY <1>2, MirroredIsWhole DEF TableInv
<1>6. Fits(F.games, [games |-> DOMAIN F.games, sessions |-> F.sessions, bindings |-> F.bindings,
                     ledger |-> F.ledger])
  BY <1>3, WrittenFits
<1> QED BY <1>4, <1>5, <1>6

\* What a commit does is one call of the abstract service.
LEMMA PersistedIsCall ==
  ASSUME StoreAssumption, SlotInv, TableInv, NEW p \in ForUpdate, NEW next \in Outcomes(p),
         Persist(next, loaded[p])
  PROVE  Service!Next
<1>1. request[p] \in Request
  BY OutcomeIsWhole DEF TableInv, SlotInv
<1>2. PICK new : May(request[p], new) /\ Stored' = Apply(Stored, request[p], new, Stamp)
  BY PersistedIsWhole
<1>3. Stamp = Service!Now /\ Stored.games = rows /\ Stored.ledger = meta.ledger
  BY SameWords, StoredFields DEF Stamp
<1>4. Stored' = Service!Apply(Stored, request[p], new, Service!Now)
  BY <1>2, <1>3, SameApply
<1>5. Service!Call(request[p])
  <2>1. CASE request[p].kind = "create"
    <3>1. new \in Service!Fresh(DOMAIN Stored.games, Stored.ledger)
      BY <1>2, <1>3, <2>1, SameWords DEF May
    <3> QED BY <1>4, <2>1, <3>1 DEF Service!Call
  <2>2. CASE request[p].kind # "create"
    BY <1>2, <1>4, <2>2 DEF Service!Call, May
  <2> QED BY <2>1, <2>2
<1> QED BY <1>1, <1>5, SameWords DEF Service!Next

-----------------------------------------------------------------------------
(* Who calls, and what the call has read.                                  *)

LEMMA SnapshotStays ==
  ASSUME TableInv, UNCHANGED tables
  PROVE  SnapshotInv(Stored)' /\ MirrorAgrees'
<1>1. meta' = meta /\ rows' = rows /\ mirror' = mirror
  BY DEF tables
<1>2. Stored' = Stored
  BY <1>1 DEF Stored, WithGames
<1> QED BY <1>1, <1>2 DEF TableInv, MirrorAgrees

LEMMA LoadStays ==
  ASSUME UNCHANGED tables
  PROVE  /\ \A games : Load(games)' = Load(games)
         /\ PushGames' = PushGames
         /\ \A r : Selection(r)' = Selection(r)
BY DEF tables, Load, PushGames, Selection

\* Nobody begins a call, and nothing is committed.
LEMMA CallsStay ==
  ASSUME TableInv, UNCHANGED tables,
         \A p \in Process : phase'[p] = "loaded" =>
           phase[p] = "loaded" /\ loaded'[p] = loaded[p] /\ request'[p] = request[p]
  PROVE  LoadsAreCurrent'
<1>1. ForUpdate' \subseteq ForUpdate
  BY DEF ForUpdate
<1>2. \A p, q \in ForUpdate' : p = q
  BY <1>1 DEF TableInv, LoadsAreCurrent
<1>3. ASSUME NEW p \in ForUpdate'
      PROVE  loaded'[p] = Load(IF p \in Client THEN Selection(request[p]) ELSE PushGames)'
  <2>1. p \in ForUpdate /\ loaded'[p] = loaded[p] /\ request'[p] = request[p]
    BY <1>1, <1>3 DEF ForUpdate
  <2>2. loaded[p] = Load(IF p \in Client THEN Selection(request[p]) ELSE PushGames)
    BY <2>1 DEF TableInv, LoadsAreCurrent
  <2> QED BY <2>1, <2>2 DEF tables, Load, PushGames, Selection
<1> QED BY <1>2, <1>3 DEF LoadsAreCurrent

\* One call begins when there is none.
LEMMA CallBegins ==
  ASSUME UNCHANGED tables, ForUpdate = {}, NEW p \in Process, DOMAIN loaded = Process,
         \A q \in Process : q # p => phase'[q] = phase[q],
         loaded'[p] = Load(IF p \in Client THEN Selection(request'[p]) ELSE PushGames)
  PROVE  LoadsAreCurrent'
<1>1. ForUpdate' \subseteq {p}
  BY DEF ForUpdate
<1>2. loaded'[p] = Load(IF p \in Client THEN Selection(request[p]) ELSE PushGames)'
  BY DEF tables, Load, PushGames, Selection
<1> QED BY <1>1, <1>2 DEF LoadsAreCurrent

\* A call ends.
LEMMA CallEnds ==
  ASSUME LoadsAreCurrent, NEW p \in ForUpdate,
         \A q \in Process : phase'[q] = "loaded" => phase[q] = "loaded" /\ q # p
  PROVE  LoadsAreCurrent'
<1>1. ForUpdate' = {}
  BY DEF ForUpdate, LoadsAreCurrent
<1> QED BY <1>1 DEF LoadsAreCurrent

\* Nobody asks for anything new.
LEMMA RequestsStay ==
  ASSUME StoreAssumption, RequestsAreKnown,
         \A p \in Client \cup Worker : phase'[p] # "idle" => phase[p] # "idle" /\ request'[p] = request[p]
  PROVE  RequestsAreKnown'
BY DEF RequestsAreKnown

\* One process asks.
LEMMA RequestMade ==
  ASSUME StoreAssumption, RequestsAreKnown, NEW p \in Process,
         \A q \in Process : q # p => phase'[q] = phase[q] /\ request'[q] = request[q],
         p \in Client => request'[p] \in Asked,
         p \in Worker => request'[p] \in Request /\ request'[p].kind \in {"unsubscribe", "poll"}
  PROVE  RequestsAreKnown'
BY Distinct DEF RequestsAreKnown, Process

LEMMA GoneIsKnown ==
  ASSUME IsSnapshot(Stored), NEW r \in Gone \cup {[kind |-> "poll"]}
  PROVE  r \in Request /\ r.kind \in {"unsubscribe", "poll"}
<1>1. meta.consents \subseteq Player
  BY SnapshotFields, StoredFields
<1> QED BY <1>1 DEF Gone, Request, Player

LEMMA ReleasedCalls ==
  ASSUME StoreAssumption, SlotInv, LockInv, NEW p \in Deliverer, phase[p] # "waiting", Release(p)
  PROVE  /\ \A q \in Process : phase'[q] = "loaded" =>
              q # p /\ phase[q] = "loaded" /\ loaded'[q] = loaded[q] /\ request'[q] = request[q]
         /\ \A q \in Process : phase'[q] # "idle" => phase[q] # "idle" /\ request'[q] = request[q]
<1>1. phase \in [Process -> {"idle", "loaded", "unanswered", "waiting", "slot", "shared", "read", "sent"}]
  BY DEF SlotInv, Phases
<1>2. p \in Process
  BY Distinct
<1>3. \A q \in Process : q # p => loaded'[q] = loaded[q] /\ request'[q] = request[q]
  BY <1>2 DEF Release, LockInv
<1>4. waiting # <<>> => Head(waiting) \in Process /\ phase[Head(waiting)] = "waiting"
  <2>1. waiting # <<>> => Head(waiting) \in ToSet(waiting)
    <3>1. waiting \in Seq(Deliverer)
      BY DEF SlotInv, QueueIsOrdered
    <3>2. waiting # <<>> => 1 \in DOMAIN waiting /\ Head(waiting) = waiting[1]
      BY <3>1
    <3> QED BY <3>2 DEF ToSet
  <2> QED BY <2>1, Distinct DEF SlotInv, SlotsAreShared
<1>5. \A q \in Process : \/ phase'[q] = "idle"
                         \/ q # p /\ phase'[q] = phase[q]
                         \/ q # p /\ phase'[q] = "slot" /\ phase[q] = "waiting"
  <2>1. CASE waiting = <<>>
    BY <1>1, <1>2, <2>1 DEF Release
  <2>2. CASE waiting # <<>>
    <3>1. phase' = [phase EXCEPT ![p] = "idle", ![Head(waiting)] = "slot"]
      BY <2>2 DEF Release
    <3>2. Head(waiting) # p
      BY <1>4, <2>2
    <3> QED BY <1>1, <1>2, <1>4, <2>2, <3>1, <3>2
  <2> QED BY <2>1, <2>2
<1> QED BY <1>3, <1>5

LEMMA NextKeepsTables ==
  ASSUME StoreAssumption, SlotInv, LockInv, TableInv, [Next]_vars
  PROVE  TableInv'
<1>a. /\ \A c \in Client : c \in Process /\ c \notin Worker /\ c \notin Deliverer
      /\ \A w \in Worker : w \in Process /\ w \in Deliverer /\ w \notin Client
      /\ \A d \in Room : d \in Process /\ d \in Deliverer /\ d \notin Client /\ d \notin Worker
      /\ \A p \in Deliverer : p \in Process /\ p \notin Client
  BY Distinct
<1>b. LoadsAreCurrent /\ RequestsAreKnown /\ IsSnapshot(Stored)
  BY DEF TableInv, SnapshotInv
<1>c. DOMAIN loaded = Process /\ DOMAIN request = Process
  BY DEF LockInv
<1>1. CASE UNCHANGED vars
  <2>1. UNCHANGED <<tables, phase, request, loaded>>
    BY <1>1 DEF vars, tables
  <2>2. LoadsAreCurrent'
    BY <2>1, CallsStay
  <2>3. RequestsAreKnown'
    BY <1>b, <2>1, RequestsStay
  <2> QED BY <2>1, <2>2, <2>3, SnapshotStays DEF TableInv
<1>2. ASSUME NEW c \in Client, NEW r \in Asked, Begin(c, r) PROVE TableInv'
  <2>1. /\ UNCHANGED tables /\ ForUpdate = {} /\ Move(c, "loaded")
        /\ request' = [request EXCEPT ![c] = r]
        /\ loaded' = [loaded EXCEPT ![c] = Load(Selection(r))]
    BY <1>2 DEF Begin
  <2>2. \A q \in Process : q # c => phase'[q] = phase[q]
    BY <1>a, <2>1, Moved
  <2>3. /\ request'[c] = r /\ loaded'[c] = Load(Selection(r))
        /\ \A q \in Process : q # c => request'[q] = request[q]
    BY <1>a, <1>c, <2>1
  <2>4. LoadsAreCurrent'
    BY <1>a, <1>c, <2>1, <2>2, <2>3, CallBegins
  <2>5. RequestsAreKnown'
    BY <1>a, <1>b, <2>2, <2>3, RequestMade
  <2> QED BY <2>1, <2>4, <2>5, SnapshotStays DEF TableInv
<1>3. ASSUME NEW c \in Client, Commit(c) PROVE TableInv'
  <2>1. /\ phase[c] = "loaded" /\ Move(c, "unanswered") /\ UNCHANGED request
        /\ \E next \in Outcomes(c) : Persist(next, loaded[c])
    BY <1>3 DEF Commit
  <2>2. c \in ForUpdate
    BY <1>a, <2>1 DEF ForUpdate
  <2>3. phase'[c] = "unanswered" /\ \A q \in Process : q # c => phase'[q] = phase[q]
    BY <1>a, <2>1, Moved
  <2>4. LoadsAreCurrent'
    BY <1>b, <2>2, <2>3, CallEnds
  <2>5. RequestsAreKnown'
    BY <1>a, <1>b, <2>1, <2>3, RequestsStay
  <2>6. SnapshotInv(Stored)' /\ MirrorAgrees'
    BY <2>1, <2>2, PersistedIsWhole
  <2> QED BY <2>4, <2>5, <2>6 DEF TableInv
<1>4. ASSUME NEW c \in Client, Rollback(c) PROVE TableInv'
  <2>1. /\ phase[c] = "loaded" /\ Move(c, "unanswered") /\ UNCHANGED <<tables, request>>
    BY <1>4 DEF Rollback
  <2>2. c \in ForUpdate
    BY <1>a, <2>1 DEF ForUpdate
  <2>3. phase'[c] = "unanswered" /\ \A q \in Process : q # c => phase'[q] = phase[q]
    BY <1>a, <2>1, Moved
  <2>4. LoadsAreCurrent'
    BY <1>b, <2>2, <2>3, CallEnds
  <2>5. RequestsAreKnown'
    BY <1>a, <1>b, <2>1, <2>3, RequestsStay
  <2> QED BY <2>1, <2>4, <2>5, SnapshotStays DEF TableInv
<1>5. ASSUME NEW c \in Client, Answer(c) PROVE TableInv'
  <2>1. /\ Move(c, "idle") /\ request' = [request EXCEPT ![c] = None] /\ UNCHANGED <<tables, loaded>>
    BY <1>5 DEF Answer
  <2>2. phase'[c] = "idle" /\ \A q \in Process : q # c => phase'[q] = phase[q] /\ request'[q] = request[q]
    BY <1>a, <1>c, <2>1, Moved
  <2>3. LoadsAreCurrent'
    BY <2>1, <2>2, CallsStay
  <2>4. RequestsAreKnown'
    BY <1>a, <1>b, <2>2, RequestsStay
  <2> QED BY <2>1, <2>3, <2>4, SnapshotStays DEF TableInv
<1>6. ASSUME NEW p \in Deliverer, NEW r, Acquire(p, r),
             p \in Worker => r \in Request /\ r.kind \in {"unsubscribe", "poll"}
      PROVE  TableInv'
  <2>1. /\ \E to \in {"slot", "waiting"} : Move(p, to)
        /\ request' = [request EXCEPT ![p] = r] /\ UNCHANGED <<tables, loaded>>
    BY <1>6 DEF Acquire
  <2>2. /\ phase'[p] # "loaded" /\ request'[p] = r
        /\ \A q \in Process : q # p => phase'[q] = phase[q] /\ request'[q] = request[q]
    BY <1>a, <1>c, <2>1, Moved
  <2>3. LoadsAreCurrent'
    BY <2>1, <2>2, CallsStay
  <2>4. RequestsAreKnown'
    BY <1>6, <1>a, <1>b, <2>2, RequestMade
  <2> QED BY <2>1, <2>3, <2>4, SnapshotStays DEF TableInv
<1>7. ASSUME NEW w \in Worker, BeginPush(w) PROVE TableInv'
  <2>1. /\ phase[w] = "slot" /\ UNCHANGED <<tables, request>> /\ ForUpdate = {} /\ Move(w, "loaded")
        /\ loaded' = [loaded EXCEPT ![w] = Load(PushGames)]
    BY <1>7 DEF BeginPush
  <2>2. \A q \in Process : q # w => phase'[q] = phase[q]
    BY <1>a, <2>1, Moved
  <2>3. loaded'[w] = Load(PushGames)
    BY <1>a, <1>c, <2>1
  <2>4. LoadsAreCurrent'
    BY <1>a, <1>c, <2>1, <2>2, <2>3, CallBegins
  <2>5. RequestsAreKnown'
    BY <1>a, <1>b, <2>1, <2>2, RequestsStay
  <2> QED BY <2>1, <2>4, <2>5, SnapshotStays DEF TableInv
<1>8. ASSUME NEW p \in Deliverer, Release(p), phase[p] # "waiting" PROVE RequestsAreKnown'
  BY <1>8, <1>a, <1>b, ReleasedCalls, RequestsStay
<1>9. ASSUME NEW w \in Worker, CommitPush(w) PROVE TableInv'
  <2>1. /\ phase[w] = "loaded" /\ Release(w)
        /\ \E next \in Outcomes(w) : UNCHANGED tables \/ Persist(next, loaded[w])
    BY <1>9 DEF CommitPush
  <2>2. w \in ForUpdate
    BY <1>a, <2>1 DEF ForUpdate
  <2>3. LoadsAreCurrent'
    BY <1>a, <1>b, <2>1, <2>2, ReleasedCalls, CallEnds
  <2>4. SnapshotInv(Stored)' /\ MirrorAgrees'
    BY <2>1, <2>2, PersistedIsWhole, SnapshotStays
  <2> QED BY <1>8, <1>a, <2>1, <2>3, <2>4 DEF TableInv
<1>10. ASSUME NEW d \in Room, Share(d) \/ ReadShared(d) \/ Send(d) PROVE TableInv'
  <2>1. /\ UNCHANGED <<tables, request>> /\ \E to \in {"shared", "read", "sent"} : Move(d, to)
        /\ \A q \in Process : q # d => loaded'[q] = loaded[q]
    BY <1>10, <1>a, <1>c DEF Share, ReadShared, Send
  <2>2. phase'[d] # "loaded" /\ \A q \in Process : q # d => phase'[q] = phase[q]
    BY <1>a, <2>1, Moved
  <2>3. LoadsAreCurrent'
    BY <2>1, <2>2, CallsStay
  <2>4. RequestsAreKnown'
    BY <1>a, <1>b, <2>1, <2>2, RequestsStay
  <2> QED BY <2>1, <2>3, <2>4, SnapshotStays DEF TableInv
<1>11. ASSUME NEW p \in Deliverer, Release(p), phase[p] # "waiting", UNCHANGED tables PROVE TableInv'
  <2>1. LoadsAreCurrent'
    BY <1>11, ReleasedCalls, CallsStay
  <2> QED BY <1>8, <1>11, <2>1, SnapshotStays DEF TableInv
<1>12. ASSUME NEW p \in Deliverer, Withdraw(p), UNCHANGED tables PROVE TableInv'
  <2>1. Move(p, "idle") /\ request' = [request EXCEPT ![p] = None] /\ UNCHANGED loaded
    BY <1>12 DEF Withdraw
  <2>2. phase'[p] = "idle" /\ \A q \in Process : q # p => phase'[q] = phase[q] /\ request'[q] = request[q]
    BY <1>a, <1>c, <2>1, Moved
  <2>3. LoadsAreCurrent'
    BY <1>12, <2>1, <2>2, CallsStay
  <2>4. RequestsAreKnown'
    BY <1>a, <1>b, <2>2, RequestsStay
  <2> QED BY <1>12, <2>3, <2>4, SnapshotStays DEF TableInv
<1>13. ASSUME NEW p \in Deliverer, Cancel(p) PROVE TableInv'
  BY <1>11, <1>12, <1>13 DEF Cancel
<1>14. ASSUME NEW d \in Room, End(d) PROVE TableInv'
  BY <1>11, <1>14, <1>a DEF End
<1>15. CASE Crash
  <2>1. /\ UNCHANGED tables
        /\ \A p \in Process : phase'[p] \in {"idle", "unanswered"}
        /\ \A p \in Client : phase'[p] # "idle" => phase[p] # "idle" /\ request'[p] = request[p]
        /\ \A p \in Worker : phase'[p] = "idle"
    BY <1>15, <1>a DEF Crash
  <2>2. LoadsAreCurrent'
    BY <2>1, CallsStay
  <2>3. RequestsAreKnown'
    BY <1>a, <1>b, <2>1, RequestsStay
  <2> QED BY <2>1, <2>2, <2>3, SnapshotStays DEF TableInv
<1>16. ASSUME NEW w \in Worker, NEW r \in Gone \cup {[kind |-> "poll"]}, Acquire(w, r) PROVE TableInv'
  BY <1>6, <1>16, <1>a, <1>b, GoneIsKnown
<1>17. ASSUME NEW d \in Room, NEW r, Acquire(d, r) PROVE TableInv'
  BY <1>6, <1>17, <1>a
<1> QED BY <1>1, <1>2, <1>3, <1>4, <1>5, <1>7, <1>9, <1>10, <1>13, <1>14, <1>15, <1>16, <1>17 DEF Next

LEMMA InitTables ==
  ASSUME StoreAssumption, Init
  PROVE  TableInv /\ Stored = Empty
<1>1. Stored = Empty
  BY DEF Init, Stored, WithGames, Empty
<1>2. SnapshotInv(Empty)
  <2>1. IsSnapshot(Empty)
    BY DEF IsSnapshot, Empty
  <2> QED BY <2>1 DEF SnapshotInv, BindingsAreSound, GamesAreUnique, Empty
<1>3. ForUpdate = {}
  BY DEF Init, ForUpdate
<1>4. LoadsAreCurrent
  BY <1>3 DEF LoadsAreCurrent
<1>5. RequestsAreKnown
  BY Distinct DEF Init, RequestsAreKnown
<1>6. MirrorAgrees
  BY DEF Init, MirrorAgrees, Empty
<1> QED BY <1>1, <1>2, <1>4, <1>5, <1>6 DEF TableInv

\* Every step of the store is a call of the abstract service, or none.
LEMMA NextCalls ==
  ASSUME StoreAssumption, SlotInv, TableInv, [Next]_vars
  PROVE  [Service!Next]_Stored
<1>a. /\ \A c \in Client : c \in Process
      /\ \A w \in Worker : w \in Process
  BY Distinct
<1>b. UNCHANGED tables => UNCHANGED Stored
  BY DEF tables, Stored, WithGames
<1>1. CASE UNCHANGED vars
  BY <1>1, <1>b DEF vars
<1>2. ASSUME NEW c \in Client, Commit(c) PROVE Service!Next
  <2>1. phase[c] = "loaded" /\ \E next \in Outcomes(c) : Persist(next, loaded[c])
    BY <1>2 DEF Commit
  <2>2. c \in ForUpdate
    BY <1>a, <2>1 DEF ForUpdate
  <2> QED BY <2>1, <2>2, PersistedIsCall
<1>3. ASSUME NEW w \in Worker, CommitPush(w) PROVE Service!Next \/ UNCHANGED tables
  <2>1. /\ phase[w] = "loaded"
        /\ \E next \in Outcomes(w) : UNCHANGED tables \/ Persist(next, loaded[w])
    BY <1>3 DEF CommitPush
  <2>2. w \in ForUpdate
    BY <1>a, <2>1 DEF ForUpdate
  <2> QED BY <2>1, <2>2, PersistedIsCall
<1>4. ASSUME NEW c \in Client, (\E r \in Asked : Begin(c, r)) \/ Rollback(c) \/ Answer(c)
      PROVE  UNCHANGED tables
  BY <1>4 DEF Begin, Rollback, Answer
<1>5. ASSUME NEW p, NEW r, Acquire(p, r) PROVE UNCHANGED tables
  BY <1>5 DEF Acquire
<1>6. ASSUME NEW p, BeginPush(p) \/ Share(p) \/ ReadShared(p) \/ Send(p) \/ End(p) \/ Cancel(p)
      PROVE  UNCHANGED tables
  BY <1>6 DEF BeginPush, Share, ReadShared, Send, End, Cancel
<1>7. Crash => UNCHANGED tables
  BY DEF Crash
<1> QED BY <1>1, <1>2, <1>3, <1>4, <1>5, <1>6, <1>7, <1>b DEF Next

LEMMA Tabled == Spec => []TableInv
<1>1. Init => TableInv
  BY InitTables, StoreAssumption
<1>2. SlotInv /\ LockInv /\ TableInv /\ [Next]_vars => TableInv'
  BY NextKeepsTables, StoreAssumption
<1> QED BY <1>1, <1>2, Slotted, Locked, PTL DEF Spec

\* The relational tables are at all times what the snapshot implies, and no call is refused
\* by a constraint of the database, whatever the calls load and however many compete.
THEOREM MirrorStaysSound == Spec => []MirrorIsSound
<1>1. SlotInv /\ TableInv => MirrorIsSound
  BY OutcomesFit, StoreAssumption DEF TableInv, MirrorIsSound
<1> QED BY <1>1, Slotted, Tabled, PTL

\* A transaction that loads a few games does to the committed tables what the same call does
\* to the whole snapshot in one step; a crash or a rollback does nothing.
THEOREM CallsStayAtomic == Spec => CallsAreAtomic
<1>1. Init => Service!Init
  BY InitTables, StoreAssumption, SameWords DEF Service!Init
<1>2. SlotInv /\ TableInv /\ [Next]_vars => [Service!Next]_Stored
  BY NextCalls, StoreAssumption
<1> QED BY <1>1, <1>2, Slotted, Tabled, PTL DEF Spec, CallsAreAtomic, Service!Spec

-----------------------------------------------------------------------------
(* Sequences that begin with one another.                                  *)

\* One sequence begins with another.
LEMMA Begins ==
  ASSUME NEW V, NEW a \in Seq(V), NEW b \in Seq(V)
  PROVE  IsPrefix(a, b) <=> Len(a) <= Len(b) /\ \A i \in 1..Len(a) : a[i] = b[i]
<1> DEFINE c == SubSeq(a, 1, Len(a))
           d == SubSeq(b, 1, Len(a))
<1>1. Len(a) \in Nat /\ Len(b) \in Nat /\ DOMAIN a = 1..Len(a)
  OBVIOUS
<1>2. c \in Seq(V) /\ Len(c) = Len(a) /\ \A i \in 1..Len(a) : c[i] = a[i]
  BY <1>1
<1>3. ASSUME Len(a) <= Len(b)
      PROVE  d \in Seq(V) /\ Len(d) = Len(a) /\ \A i \in 1..Len(a) : d[i] = b[i]
  BY <1>1, <1>3
<1>4. IsPrefix(a, b) <=> Len(a) <= Len(b) /\ c = d
  BY DEF IsPrefix
<1> HIDE DEF c, d
<1>5. ASSUME Len(a) <= Len(b)
      PROVE  c = d <=> \A i \in 1..Len(a) : c[i] = d[i]
  <2>1. c \in Seq(V) /\ d \in Seq(V) /\ Len(c) = Len(a) /\ Len(d) = Len(a)
    BY <1>2, <1>3, <1>5
  <2>2. c = [i \in 1..Len(a) |-> c[i]] /\ d = [i \in 1..Len(a) |-> d[i]]
    BY <2>1
  <2> QED BY <2>2
<1>6. ASSUME Len(a) <= Len(b)
      PROVE  c = d <=> \A i \in 1..Len(a) : a[i] = b[i]
  <2>1. \A i \in 1..Len(a) : c[i] = a[i] /\ d[i] = b[i]
    BY <1>2, <1>3, <1>6
  <2>2. c = d <=> \A i \in 1..Len(a) : c[i] = d[i]
    BY <1>5, <1>6
  <2> QED BY <2>1, <2>2
<1> QED BY <1>4, <1>6

\* What comes after the beginning.
LEMMA Rest ==
  ASSUME NEW V, NEW a \in Seq(V), NEW b \in Seq(V), IsPrefix(a, b)
  PROVE  LET added == SubSeq(b, Len(a) + 1, Len(b)) IN
         /\ added \in Seq(V)
         /\ b = a \o added
         /\ Len(b) = Len(a) + Len(added)
         /\ \A i \in 1..Len(added) : added[i] = b[Len(a) + i]
<1> DEFINE added == SubSeq(b, Len(a) + 1, Len(b))
           whole == a \o added
<1>1. /\ Len(a) \in Nat /\ Len(b) \in Nat /\ Len(a) <= Len(b)
      /\ \A i \in 1..Len(a) : a[i] = b[i]
  BY Begins
<1>2. /\ added \in Seq(V) /\ Len(added) = Len(b) - Len(a)
      /\ \A i \in 1..Len(added) : added[i] = b[Len(a) + i]
  BY <1>1
<1> HIDE DEF added
<1>3. /\ whole \in Seq(V) /\ Len(whole) = Len(a) + Len(added)
      /\ \A j \in 1..Len(a) : whole[j] = a[j]
      /\ \A j \in 1..(Len(a) + Len(added)) : j > Len(a) => whole[j] = added[j - Len(a)]
  BY <1>2, Joined
<1>4. Len(whole) = Len(b)
  BY <1>1, <1>2, <1>3
<1>5. ASSUME NEW j \in 1..Len(b) PROVE whole[j] = b[j]
  <2>1. CASE j <= Len(a)
    BY <1>1, <1>3, <2>1
  <2>2. CASE j > Len(a)
    <3>1. /\ j - Len(a) \in 1..Len(added) /\ Len(a) + (j - Len(a)) = j
          /\ j \in 1..(Len(a) + Len(added))
      BY <1>1, <1>2, <2>2
    <3> QED BY <1>2, <1>3, <2>2, <3>1
  <2>3. j <= Len(a) \/ j > Len(a)
    BY <1>1
  <2> QED BY <2>1, <2>2, <2>3
<1> HIDE DEF whole
<1>6. whole = b
  <2>1. whole = [j \in 1..Len(b) |-> whole[j]] /\ b = [j \in 1..Len(b) |-> b[j]]
    BY <1>3, <1>4
  <2> QED BY <1>5, <2>1
<1>7. Len(b) = Len(a) + Len(added)
  BY <1>1, <1>2
<1> QED BY <1>2, <1>6, <1>7 DEF whole, added

\* Bindings of games that are not held go, then idle sessions.
LEMMA DroppedFields ==
  ASSUME NEW S, IsSnapshot(S)
  PROVE  LET T == WithoutIdleSessions([S EXCEPT !.bindings = {b \in S.bindings : b.game \in DOMAIN S.games}]) IN
         /\ IsSnapshot(T)
         /\ T.games = S.games /\ T.bindings = {b \in S.bindings : b.game \in DOMAIN S.games}
         /\ T.invitations = S.invitations /\ T.spectators = S.spectators /\ T.consents = S.consents
         /\ T.sessions = {s \in S.sessions : \E b \in T.bindings \cup T.spectators : b.session = s}
         /\ T.ledger = S.ledger
<1> DEFINE kept == {b \in S.bindings : b.game \in DOMAIN S.games}
           K == [S EXCEPT !.bindings = kept]
           T == WithoutIdleSessions(K)
<1>1. kept \subseteq SeatType
  BY SnapshotFields DEF SeatType
<1> HIDE DEF kept
<1>2. K = [games |-> S.games, bindings |-> kept, invitations |-> S.invitations,
           spectators |-> S.spectators, consents |-> S.consents, sessions |-> S.sessions,
           ledger |-> S.ledger]
  <2>1. S = [games |-> S.games, bindings |-> S.bindings, invitations |-> S.invitations,
             spectators |-> S.spectators, consents |-> S.consents, sessions |-> S.sessions,
             ledger |-> S.ledger]
    BY SnapshotFields
  <2> QED BY <2>1
<1>3. IsSnapshot(K)
  <2>1. IsSnapshot([games |-> S.games, bindings |-> kept, invitations |-> S.invitations,
                    spectators |-> S.spectators, consents |-> S.consents, sessions |-> S.sessions,
                    ledger |-> S.ledger])
    <3>1. /\ S.games = [g \in DOMAIN S.games |-> S.games[g]] /\ DOMAIN S.games \subseteq Game
          /\ \A g \in DOMAIN S.games : S.games[g] \in Row
          /\ S.invitations \subseteq Game
          /\ S.spectators \subseteq Player /\ S.consents \subseteq Player
          /\ S.sessions \subseteq Session /\ S.ledger \in Seq(Receipt)
      BY SnapshotFields
    <3>2. kept \subseteq [role : {"host", "seat"}, game : Game, session : Session, live : BOOLEAN]
      BY <1>1 DEF SeatType
    <3> QED BY <3>1, <3>2, MadeSnapshot
  <2> QED BY <1>2, <2>1
<1>4. /\ K.games = S.games /\ K.bindings = kept /\ K.invitations = S.invitations
      /\ K.spectators = S.spectators /\ K.consents = S.consents /\ K.sessions = S.sessions
      /\ K.ledger = S.ledger
  BY <1>2
<1> HIDE DEF K
<1>5. LET U == WithoutIdleSessions(K) IN
        /\ IsSnapshot(U)
        /\ U.games = K.games /\ U.bindings = K.bindings /\ U.invitations = K.invitations
        /\ U.spectators = K.spectators /\ U.consents = K.consents
        /\ U.sessions = {s \in K.sessions : \E b \in K.bindings \cup K.spectators : b.session = s}
        /\ U.ledger = K.ledger
  BY <1>3, IdleFields
<1> HIDE DEF T
<1>6. /\ IsSnapshot(T) /\ T.games = S.games /\ T.bindings = kept
      /\ T.invitations = S.invitations /\ T.spectators = S.spectators /\ T.consents = S.consents
      /\ T.sessions = {s \in S.sessions : \E b \in T.bindings \cup T.spectators : b.session = s}
      /\ T.ledger = S.ledger
  BY <1>4, <1>5 DEF T
<1> QED BY <1>6 DEF T, K, kept

\* What synchronizing adds to a ledger and does to the rest.
LEMMA SynchronizedFields ==
  ASSUME NEW S, IsSnapshot(S), NEW receipts \in Seq(Receipt), Continues(receipts, S.ledger)
  PROVE  LET T == SynchronizeDeletionLedger(S, receipts)
             added == SubSeq(receipts, Len(S.ledger) + 1, Len(receipts))
             dropped == Closed(added) \cup Purged(added) IN
         /\ added \in Seq(Receipt) /\ receipts = S.ledger \o added
         /\ IsSnapshot(T) /\ T.ledger = receipts
         /\ T.spectators = {b \in S.spectators : b.game \notin dropped}
         /\ T.invitations = S.invitations \ dropped
         /\ T.consents = S.consents
         /\ T.sessions = {s \in S.sessions : \E b \in T.bindings \cup T.spectators : b.session = s}
         /\ DOMAIN T.games = DOMAIN S.games \ Purged(added)
         /\ \A g \in DOMAIN T.games : /\ g \in Closed(added) => T.games[g].deletedAt # 0
                                      /\ g \notin Closed(added) => T.games[g] = S.games[g]
         /\ \A b \in T.bindings : /\ b.game \in DOMAIN T.games
                                  /\ b.game \in Closed(added) => ~b.live
                                  /\ b.game \notin Closed(added) => b \in S.bindings
                                  /\ \E c \in S.bindings : c.game = b.game
         /\ \A b \in S.bindings : b.game \in DOMAIN T.games \ Closed(added) => b \in T.bindings
<1> DEFINE T == SynchronizeDeletionLedger(S, receipts)
           added == SubSeq(receipts, Len(S.ledger) + 1, Len(receipts))
           A == ApplyReceipts(S, added)
<1>1. added \in Seq(Receipt) /\ receipts = S.ledger \o added
  <2>1. S.ledger \in Seq(Receipt) /\ IsPrefix(S.ledger, receipts)
    BY SnapshotFields DEF Continues
  <2> QED BY <2>1, Rest
<1> HIDE DEF added
<1>2. T = WithoutIdleSessions([A EXCEPT !.bindings = {b \in A.bindings : b.game \in DOMAIN A.games}])
  BY DEF SynchronizeDeletionLedger, added
<1>3. LET U == ApplyReceipts(S, added) IN
        /\ IsSnapshot(U)
        /\ U.ledger = S.ledger \o added
        /\ U.spectators = {b \in S.spectators : b.game \notin Closed(added) \cup Purged(added)}
        /\ U.invitations = S.invitations \ (Closed(added) \cup Purged(added))
        /\ U.consents = S.consents /\ U.sessions = S.sessions
        /\ DOMAIN U.games = DOMAIN S.games \ Purged(added)
        /\ \A g \in DOMAIN U.games :
              /\ U.games[g].creation = S.games[g].creation /\ U.games[g].over = S.games[g].over
              /\ g \in Closed(added) => U.games[g].deletedAt # 0
              /\ g \notin Closed(added) => U.games[g] = S.games[g]
        /\ U.bindings = {IF b.game \in Closed(added) THEN [b EXCEPT !.live = FALSE] ELSE b
                           : b \in S.bindings}
  <2>1. IsSnapshot(S) /\ added \in Seq(Receipt)
    BY <1>1
  <2> QED BY <2>1, ReceiptFields
<1> HIDE DEF A
<1>4. /\ IsSnapshot(A)
      /\ A.ledger = S.ledger \o added
      /\ A.spectators = {b \in S.spectators : b.game \notin Closed(added) \cup Purged(added)}
      /\ A.invitations = S.invitations \ (Closed(added) \cup Purged(added))
      /\ A.consents = S.consents /\ A.sessions = S.sessions
      /\ DOMAIN A.games = DOMAIN S.games \ Purged(added)
      /\ \A g \in DOMAIN A.games : /\ g \in Closed(added) => A.games[g].deletedAt # 0
                                   /\ g \notin Closed(added) => A.games[g] = S.games[g]
      /\ A.bindings = {IF b.game \in Closed(added) THEN [b EXCEPT !.live = FALSE] ELSE b
                         : b \in S.bindings}
  BY <1>3 DEF A
<1>5. LET U == WithoutIdleSessions([A EXCEPT !.bindings = {b \in A.bindings : b.game \in DOMAIN A.games}]) IN
         /\ IsSnapshot(U)
         /\ U.games = A.games /\ U.bindings = {b \in A.bindings : b.game \in DOMAIN A.games}
         /\ U.invitations = A.invitations /\ U.spectators = A.spectators /\ U.consents = A.consents
         /\ U.sessions = {s \in A.sessions : \E b \in U.bindings \cup U.spectators : b.session = s}
         /\ U.ledger = A.ledger
  BY <1>4, DroppedFields
<1> HIDE DEF T
<1>6. /\ IsSnapshot(T)
      /\ T.games = A.games /\ T.bindings = {b \in A.bindings : b.game \in DOMAIN A.games}
      /\ T.invitations = A.invitations /\ T.spectators = A.spectators /\ T.consents = A.consents
      /\ T.sessions = {s \in A.sessions : \E b \in T.bindings \cup T.spectators : b.session = s}
      /\ T.ledger = A.ledger
  BY <1>2, <1>5
<1>7. /\ T.ledger = receipts
      /\ T.spectators = {b \in S.spectators : b.game \notin Closed(added) \cup Purged(added)}
      /\ T.invitations = S.invitations \ (Closed(added) \cup Purged(added))
      /\ T.consents = S.consents
      /\ T.sessions = {s \in S.sessions : \E b \in T.bindings \cup T.spectators : b.session = s}
      /\ DOMAIN T.games = DOMAIN S.games \ Purged(added)
      /\ \A g \in DOMAIN T.games : /\ g \in Closed(added) => T.games[g].deletedAt # 0
                                   /\ g \notin Closed(added) => T.games[g] = S.games[g]
  BY <1>1, <1>4, <1>6
<1> DEFINE Revoked(b) == IF b.game \in Closed(added) THEN [b EXCEPT !.live = FALSE] ELSE b
<1>8. T.bindings = {b \in {Revoked(b) : b \in S.bindings} : b.game \in DOMAIN T.games}
  BY <1>4, <1>6
<1> HIDE DEF Revoked
<1>9. ASSUME NEW b \in S.bindings
      PROVE  /\ Revoked(b).game = b.game
             /\ b.game \in Closed(added) => ~Revoked(b).live
             /\ b.game \notin Closed(added) => Revoked(b) = b
  <2>1. b \in SeatType
    BY SnapshotFields DEF SeatType
  <2>2. CASE b.game \in Closed(added)
    <3>1. Revoked(b) = [b EXCEPT !.live = FALSE]
      BY <2>2 DEF Revoked
    <3> QED BY <2>1, <2>2, <3>1 DEF SeatType
  <2>3. CASE b.game \notin Closed(added)
    <3>1. Revoked(b) = b
      BY <2>3 DEF Revoked
    <3> QED BY <2>3, <3>1
  <2> QED BY <2>2, <2>3
<1>10. ASSUME NEW b \in T.bindings
       PROVE  /\ b.game \in DOMAIN T.games
              /\ b.game \in Closed(added) => ~b.live
              /\ b.game \notin Closed(added) => b \in S.bindings
              /\ \E c \in S.bindings : c.game = b.game
  <2>1. PICK c \in S.bindings : b = Revoked(c)
    BY <1>8
  <2>2. b.game = c.game
    BY <1>9, <2>1
  <2> QED BY <1>8, <1>9, <2>1, <2>2
<1>11. ASSUME NEW b \in S.bindings, b.game \in DOMAIN T.games \ Closed(added)
       PROVE  b \in T.bindings
  <2>1. Revoked(b) = b
    BY <1>9, <1>11
  <2> QED BY <1>8, <1>11, <2>1
<1> QED BY <1>1, <1>6, <1>7, <1>10, <1>11 DEF T, added

-----------------------------------------------------------------------------
(* What a restored database owes to its ledger.                            *)

\* Nothing of the game can be used.
Quiet(S, g) ==
  /\ ~Active(S, g)
  /\ g \notin S.invitations
  /\ \A b \in S.spectators : b.game # g
  /\ \A b \in S.bindings : b.game = g => ~b.live

\* Nothing of the game is left.
Erased(S, g) == g \notin DOMAIN S.games /\ \A b \in S.bindings : b.game # g

InForce(S) ==
  \A i \in DOMAIN S.ledger : /\ Quiet(S, S.ledger[i].game)
                             /\ S.ledger[i].purgedAt # 0 => Erased(S, S.ledger[i].game)

\* Who is notified sits in an open game.
IsPruned(S) ==
  \A c \in S.consents : /\ Binding("seat", c.game, c.session) \in S.bindings
                        /\ c.session \in S.sessions
                        /\ Active(S, c.game) /\ ~S.games[c.game].over

IsHeld(S) == IsSnapshot(S) /\ InForce(S) /\ IsPruned(S)

\* The ledger goes on where it was.
GoesOn(S, T) == IsSnapshot(T) /\ InForce(T) /\ IsPrefix(S.ledger, T.ledger)

\* What was quiet stays so.
LEMMA ForceStays ==
  ASSUME NEW S, IsSnapshot(S), InForce(S), NEW T, IsSnapshot(T), T.ledger = S.ledger,
         \A i \in DOMAIN S.ledger : LET g == S.ledger[i].game IN
           Quiet(S, g) => Quiet(T, g) /\ (Erased(S, g) => Erased(T, g))
  PROVE  GoesOn(S, T)
<1>1. S.ledger \in Seq(Receipt)
  BY SnapshotFields
<1>2. IsPrefix(S.ledger, T.ledger)
  BY <1>1, Begins
<1>3. InForce(T)
  BY DEF InForce
<1> QED BY <1>2, <1>3 DEF GoesOn

LEMMA CreateForces ==
  ASSUME NEW S, IsSnapshot(S), InForce(S), NEW r \in Request, r.kind = "create",
         NEW new \in Fresh(DOMAIN S.games, S.ledger)
  PROVE  GoesOn(S, CreateGame(S, r, new))
<1> DEFINE T == CreateGame(S, r, new)
<1>1. new \in Game /\ \A i \in DOMAIN S.ledger : S.ledger[i].game # new
  BY DEF Fresh
<1>2. CASE \E g \in DOMAIN S.games : S.games[g].creation = r.id
  <2>1. T = S
    BY <1>2 DEF CreateGame
  <2> QED BY <2>1, ForceStays
<1>3. CASE ~ \E g \in DOMAIN S.games : S.games[g].creation = r.id
  <2>1. LET U == CreateGame(S, r, new) IN
          /\ IsSnapshot(U)
          /\ U.games = [g \in DOMAIN S.games \cup {new} |->
                          IF g \in DOMAIN S.games THEN S.games[g]
                          ELSE [creation |-> r.id, over |-> FALSE, deletedAt |-> 0]]
          /\ U.bindings = S.bindings \cup {Binding("host", new, r.session), Binding("seat", new, r.session)}
          /\ U.invitations = S.invitations \cup {new}
          /\ U.spectators = S.spectators /\ U.consents = S.consents
          /\ U.sessions = S.sessions \cup {r.session}
          /\ U.ledger = S.ledger
    BY <1>1, <1>3, CreateFields
  <2> HIDE DEF T
  <2>2. /\ IsSnapshot(T) /\ T.ledger = S.ledger
        /\ DOMAIN T.games = DOMAIN S.games \cup {new}
        /\ \A g \in DOMAIN S.games : T.games[g] = S.games[g]
        /\ T.bindings = S.bindings \cup {Binding("host", new, r.session), Binding("seat", new, r.session)}
        /\ T.invitations = S.invitations \cup {new}
        /\ T.spectators = S.spectators
    BY <2>1 DEF T
  <2>3. \A b \in T.bindings : b \in S.bindings \/ b.game = new
    BY <2>2 DEF Binding
  <2>4. ASSUME NEW g, g # new, Quiet(S, g)
        PROVE  Quiet(T, g) /\ (Erased(S, g) => Erased(T, g))
    BY <2>2, <2>3, <2>4 DEF Quiet, Erased, Active
  <2>5. GoesOn(S, T)
    BY <1>1, <2>2, <2>4, ForceStays
  <2> QED BY <2>5 DEF T
<1> QED BY <1>2, <1>3

LEMMA ClaimForces ==
  ASSUME NEW S, IsSnapshot(S), InForce(S), NEW r \in Request, r.kind = "claim"
  PROVE  GoesOn(S, ClaimInvitation(S, r))
<1> DEFINE T == ClaimInvitation(S, r)
           Allowed == /\ r.game \in S.invitations /\ Active(S, r.game)
                  /\ Binding("seat", r.game, r.session) \notin S.bindings
<1>1. CASE ~Allowed
  <2>1. T = S
    BY <1>1 DEF ClaimInvitation
  <2> QED BY <2>1, ForceStays
<1>2. CASE Allowed
  <2>1. LET U == ClaimInvitation(S, r) IN
          /\ IsSnapshot(U)
          /\ U.games = S.games
          /\ U.bindings = S.bindings \cup {Binding("seat", r.game, r.session)}
          /\ U.invitations = S.invitations \ {r.game}
          /\ U.spectators = S.spectators /\ U.consents = S.consents
          /\ U.sessions = S.sessions \cup {r.session}
          /\ U.ledger = S.ledger
    BY <1>2, ClaimFields
  <2> HIDE DEF T
  <2>2. /\ IsSnapshot(T) /\ T.ledger = S.ledger /\ T.games = S.games
        /\ T.bindings = S.bindings \cup {Binding("seat", r.game, r.session)}
        /\ T.invitations = S.invitations \ {r.game}
        /\ T.spectators = S.spectators
    BY <2>1 DEF T
  <2>3. \A b \in T.bindings : b \in S.bindings \/ b.game = r.game
    BY <2>2 DEF Binding
  <2>4. ASSUME NEW g, Quiet(S, g)
        PROVE  Quiet(T, g) /\ (Erased(S, g) => Erased(T, g))
    <3>1. g # r.game
      BY <1>2, <2>4 DEF Quiet
    <3> QED BY <2>2, <2>3, <2>4, <3>1 DEF Quiet, Erased, Active
  <2>5. GoesOn(S, T)
    BY <2>2, <2>4, ForceStays
  <2> QED BY <2>5 DEF T
<1> QED BY <1>1, <1>2

LEMMA WatchForces ==
  ASSUME NEW S, IsSnapshot(S), InForce(S), NEW r \in Request, r.kind = "watch"
  PROVE  GoesOn(S, ClaimSpectatorInvitation(S, r))
<1> DEFINE T == ClaimSpectatorInvitation(S, r)
<1>1. CASE ~Active(S, r.game)
  <2>1. T = S
    BY <1>1 DEF ClaimSpectatorInvitation
  <2> QED BY <2>1, ForceStays
<1>2. CASE Active(S, r.game)
  <2>1. LET U == ClaimSpectatorInvitation(S, r) IN
          /\ IsSnapshot(U)
          /\ U.games = S.games /\ U.bindings = S.bindings /\ U.invitations = S.invitations
          /\ U.spectators = S.spectators \cup {[game |-> r.game, session |-> r.session]}
          /\ U.consents = S.consents
          /\ U.sessions = S.sessions \cup {r.session}
          /\ U.ledger = S.ledger
    BY <1>2, WatchFields
  <2> HIDE DEF T
  <2>2. /\ IsSnapshot(T) /\ T.ledger = S.ledger /\ T.games = S.games
        /\ T.bindings = S.bindings /\ T.invitations = S.invitations
        /\ T.spectators = S.spectators \cup {[game |-> r.game, session |-> r.session]}
    BY <2>1 DEF T
  <2>3. \A b \in T.spectators : b \in S.spectators \/ b.game = r.game
    BY <2>2
  <2>4. ASSUME NEW g, Quiet(S, g)
        PROVE  Quiet(T, g) /\ (Erased(S, g) => Erased(T, g))
    <3>1. g # r.game
      BY <1>2, <2>4 DEF Quiet
    <3> QED BY <2>2, <2>3, <2>4, <3>1 DEF Quiet, Erased, Active
  <2>5. GoesOn(S, T)
    BY <2>2, <2>4, ForceStays
  <2> QED BY <2>5 DEF T
<1> QED BY <1>1, <1>2

LEMMA ConsentForces ==
  ASSUME NEW S, IsSnapshot(S), InForce(S), NEW consents \in SUBSET Player
  PROVE  GoesOn(S, [S EXCEPT !.consents = consents])
<1> DEFINE T == [S EXCEPT !.consents = consents]
<1>1. LET U == [S EXCEPT !.consents = consents] IN
        /\ IsSnapshot(U)
        /\ U.games = S.games /\ U.bindings = S.bindings /\ U.invitations = S.invitations
        /\ U.spectators = S.spectators /\ U.consents = consents
        /\ U.sessions = S.sessions /\ U.ledger = S.ledger
  BY ConsentFields
<1> HIDE DEF T
<1>2. /\ IsSnapshot(T) /\ T.ledger = S.ledger /\ T.games = S.games /\ T.bindings = S.bindings
      /\ T.invitations = S.invitations /\ T.spectators = S.spectators
  BY <1>1 DEF T
<1>3. \A g : Quiet(S, g) => Quiet(T, g) /\ (Erased(S, g) => Erased(T, g))
  BY <1>2 DEF Quiet, Erased, Active
<1>4. GoesOn(S, T)
  BY <1>2, <1>3, ForceStays
<1> QED BY <1>4 DEF T

LEMMA PruneForces ==
  ASSUME NEW S, IsSnapshot(S), InForce(S)
  PROVE  GoesOn(S, Prune(S)) /\ IsPruned(Prune(S))
<1> DEFINE T == Prune(S)
<1>1. /\ IsSnapshot(T)
      /\ T.games = S.games /\ T.bindings = S.bindings
      /\ T.invitations = S.invitations /\ T.spectators = S.spectators
      /\ T.sessions = S.sessions /\ T.ledger = S.ledger
      /\ T.consents = {c \in S.consents : /\ Binding("seat", c.game, c.session) \in S.bindings
                                          /\ c.session \in S.sessions
                                          /\ Active(S, c.game)
                                          /\ ~S.games[c.game].over}
  BY PruneFields
<1> HIDE DEF T
<1>2. \A g : Quiet(S, g) => Quiet(T, g) /\ (Erased(S, g) => Erased(T, g))
  BY <1>1 DEF Quiet, Erased, Active
<1>3. GoesOn(S, T)
  BY <1>1, <1>2, ForceStays
<1>4. IsPruned(T)
  BY <1>1 DEF IsPruned, Active
<1> QED BY <1>3, <1>4 DEF T

LEMMA SubscribeForces ==
  ASSUME NEW S, IsSnapshot(S), InForce(S), NEW r \in Request, r.kind = "subscribe"
  PROVE  GoesOn(S, SetPushSubscription(S, r))
<1> DEFINE consents == S.consents \cup {[game |-> r.game, session |-> r.session]}
<1>1. CASE SetPushSubscription(S, r) = S
  BY <1>1, ForceStays
<1>2. CASE SetPushSubscription(S, r) # S
  <2>1. consents \subseteq Player
    <3>1. r.game \in Game /\ r.session \in Session
      BY RequestFields DEF PlayerCalls
    <3>2. S.consents \subseteq Player
      BY SnapshotFields
    <3> QED BY <3>1, <3>2 DEF Player
  <2>2. SetPushSubscription(S, r) = [S EXCEPT !.consents = consents]
    BY <1>2 DEF SetPushSubscription
  <2> HIDE DEF consents
  <2> QED BY <2>1, <2>2, ConsentForces
<1> QED BY <1>1, <1>2

LEMMA UnsubscribeForces ==
  ASSUME NEW S, IsSnapshot(S), InForce(S), NEW r
  PROVE  GoesOn(S, RemovePushSubscription(S, r))
<1> DEFINE consents == S.consents \ {[game |-> r.game, session |-> r.session]}
<1>1. consents \subseteq Player
  BY SnapshotFields
<1>2. RemovePushSubscription(S, r) = [S EXCEPT !.consents = consents]
  BY DEF RemovePushSubscription
<1> HIDE DEF consents
<1> QED BY <1>1, <1>2, ConsentForces

LEMMA FinishForces ==
  ASSUME NEW S, IsSnapshot(S), InForce(S), NEW r
  PROVE  GoesOn(S, FinishGame(S, r))
<1> DEFINE T == FinishGame(S, r)
           Allowed == Active(S, r.game) /\ Binding("seat", r.game, r.session) \in S.bindings
<1>1. CASE ~Allowed
  <2>1. T = S
    BY <1>1 DEF FinishGame
  <2> QED BY <2>1, ForceStays
<1>2. CASE Allowed
  <2>1. LET U == FinishGame(S, r) IN
          /\ IsSnapshot(U)
          /\ U.games = [g \in DOMAIN S.games |->
                          IF g = r.game THEN [S.games[g] EXCEPT !.over = TRUE] ELSE S.games[g]]
          /\ U.bindings = S.bindings /\ U.invitations = S.invitations
          /\ U.spectators = S.spectators /\ U.consents = S.consents
          /\ U.sessions = S.sessions /\ U.ledger = S.ledger
    BY <1>2, FinishFields
  <2> HIDE DEF T
  <2>2. /\ IsSnapshot(T) /\ T.ledger = S.ledger /\ DOMAIN T.games = DOMAIN S.games
        /\ \A g \in DOMAIN S.games : g # r.game => T.games[g] = S.games[g]
        /\ T.bindings = S.bindings /\ T.invitations = S.invitations /\ T.spectators = S.spectators
    BY <2>1 DEF T
  <2>3. ASSUME NEW g, Quiet(S, g)
        PROVE  Quiet(T, g) /\ (Erased(S, g) => Erased(T, g))
    <3>1. g # r.game
      BY <1>2, <2>3 DEF Quiet
    <3> QED BY <2>2, <2>3, <3>1 DEF Quiet, Erased, Active
  <2>4. GoesOn(S, T)
    BY <2>2, <2>3, ForceStays
  <2> QED BY <2>4 DEF T
<1> QED BY <1>1, <1>2

LEMMA DeleteForces ==
  ASSUME NEW S, IsSnapshot(S), InForce(S), NEW r \in Request, r.kind = "delete", NEW now \in Nat \ {0}
  PROVE  GoesOn(S, DeleteGame(S, r, now))
<1> DEFINE T == DeleteGame(S, r, now)
           Allowed == Active(S, r.game) /\ Binding("host", r.game, r.session) \in S.bindings
           receipt == [game |-> r.game, deletedAt |-> now, purgedAt |-> 0]
<1>1. CASE ~Allowed
  <2>1. T = S
    BY <1>1 DEF DeleteGame
  <2> QED BY <2>1, ForceStays
<1>2. CASE Allowed
  <2>1. LET U == DeleteGame(S, r, now) IN
          /\ IsSnapshot(U)
          /\ U.games = [g \in DOMAIN S.games |->
                          IF g = r.game THEN [S.games[g] EXCEPT !.deletedAt = now] ELSE S.games[g]]
          /\ U.bindings = {b \in S.bindings : b.game # r.game}
          /\ U.invitations = S.invitations \ {r.game}
          /\ U.spectators = {b \in S.spectators : b.game # r.game}
          /\ U.consents = S.consents
          /\ U.sessions = {s \in S.sessions : \E b \in U.bindings \cup U.spectators : b.session = s}
          /\ U.ledger = Append(S.ledger, [game |-> r.game, deletedAt |-> now, purgedAt |-> 0])
    BY <1>2, DeleteFields
  <2>2. r.game \in DOMAIN S.games /\ S.games[r.game] \in Row
    BY <1>2, SnapshotFields DEF Active
  <2>3. [S.games[r.game] EXCEPT !.deletedAt = now].deletedAt = now
    BY <2>2 DEF Row
  <2> HIDE DEF T, receipt
  <2>4. /\ IsSnapshot(T) /\ T.ledger = Append(S.ledger, receipt) /\ DOMAIN T.games = DOMAIN S.games
        /\ \A g \in DOMAIN S.games : g # r.game => T.games[g] = S.games[g]
        /\ T.games[r.game].deletedAt = now
        /\ T.bindings = {b \in S.bindings : b.game # r.game}
        /\ T.invitations = S.invitations \ {r.game}
        /\ T.spectators = {b \in S.spectators : b.game # r.game}
    BY <2>1, <2>2, <2>3 DEF T, receipt
  <2>5. ASSUME NEW g, Quiet(S, g)
        PROVE  Quiet(T, g) /\ (Erased(S, g) => Erased(T, g))
    <3>1. g # r.game
      BY <1>2, <2>5 DEF Quiet
    <3> QED BY <2>4, <2>5, <3>1 DEF Quiet, Erased, Active
  <2>6. Quiet(T, r.game)
    BY <2>4 DEF Quiet, Active
  <2>7. /\ S.ledger \in Seq(Receipt) /\ receipt \in Receipt
        /\ receipt.game = r.game /\ receipt.purgedAt = 0
    <3>1. r.game \in Game
      BY <2>2, SnapshotFields
    <3> QED BY <3>1, SnapshotFields DEF Receipt, receipt
  <2>8. /\ T.ledger \in Seq(Receipt) /\ Len(T.ledger) = Len(S.ledger) + 1 /\ Len(S.ledger) \in Nat
        /\ \A i \in 1..Len(S.ledger) : T.ledger[i] = S.ledger[i]
        /\ T.ledger[Len(S.ledger) + 1] = receipt
        /\ DOMAIN S.ledger = 1..Len(S.ledger) /\ DOMAIN T.ledger = 1..Len(T.ledger)
    BY <2>4, <2>7
  <2>9. IsPrefix(S.ledger, T.ledger)
    BY <2>7, <2>8, Begins
  <2>10. ASSUME NEW i \in DOMAIN T.ledger
         PROVE  Quiet(T, T.ledger[i].game) /\ (T.ledger[i].purgedAt # 0 => Erased(T, T.ledger[i].game))
    <3>1. CASE i \in 1..Len(S.ledger)
      <4>1. /\ Quiet(S, S.ledger[i].game)
            /\ S.ledger[i].purgedAt # 0 => Erased(S, S.ledger[i].game)
        BY <2>8, <3>1 DEF InForce
      <4> QED BY <2>5, <2>8, <3>1, <4>1
    <3>2. CASE i = Len(S.ledger) + 1
      BY <2>6, <2>7, <2>8, <3>2
    <3>3. i \in 1..Len(S.ledger) \/ i = Len(S.ledger) + 1
      BY <2>8
    <3> QED BY <3>1, <3>2, <3>3
  <2>11. GoesOn(S, T)
    BY <2>4, <2>9, <2>10 DEF GoesOn, InForce
  <2> QED BY <2>11 DEF T
<1> QED BY <1>1, <1>2

LEMMA BeginsTwice ==
  ASSUME NEW V, NEW a \in Seq(V), NEW b \in Seq(V), NEW c \in Seq(V), IsPrefix(a, b), IsPrefix(b, c)
  PROVE  IsPrefix(a, c)
<1>1. Len(a) <= Len(b) /\ \A i \in 1..Len(a) : a[i] = b[i]
  BY Begins
<1>2. Len(b) <= Len(c) /\ \A i \in 1..Len(b) : b[i] = c[i]
  BY Begins
<1>3. Len(a) <= Len(c) /\ \A i \in 1..Len(a) : i \in 1..Len(b)
  BY <1>1, <1>2
<1>4. \A i \in 1..Len(a) : a[i] = c[i]
  BY <1>1, <1>2, <1>3
<1> QED BY <1>3, <1>4, Begins

LEMMA SynchronizeForces ==
  ASSUME NEW S, IsSnapshot(S), InForce(S), NEW receipts \in Seq(Receipt)
  PROVE  LET T == SynchronizeDeletionLedger(S, receipts) IN
         GoesOn(S, T) /\ (Continues(receipts, S.ledger) => T.ledger = receipts)
<1> DEFINE T == SynchronizeDeletionLedger(S, receipts)
           added == SubSeq(receipts, Len(S.ledger) + 1, Len(receipts))
<1>1. CASE ~Continues(receipts, S.ledger)
  <2>1. T = S
    BY <1>1 DEF SynchronizeDeletionLedger
  <2>2. GoesOn(S, S)
    BY ForceStays
  <2> QED BY <1>1, <2>1, <2>2
<1>2. CASE Continues(receipts, S.ledger)
  <2>1. LET N == SynchronizeDeletionLedger(S, receipts)
            more == SubSeq(receipts, Len(S.ledger) + 1, Len(receipts))
            dropped == Closed(more) \cup Purged(more) IN
         /\ more \in Seq(Receipt) /\ receipts = S.ledger \o more
         /\ IsSnapshot(N) /\ N.ledger = receipts
         /\ N.spectators = {b \in S.spectators : b.game \notin dropped}
         /\ N.invitations = S.invitations \ dropped
         /\ N.consents = S.consents
         /\ N.sessions = {s \in S.sessions : \E b \in N.bindings \cup N.spectators : b.session = s}
         /\ DOMAIN N.games = DOMAIN S.games \ Purged(more)
         /\ \A g \in DOMAIN N.games : /\ g \in Closed(more) => N.games[g].deletedAt # 0
                                      /\ g \notin Closed(more) => N.games[g] = S.games[g]
         /\ \A b \in N.bindings : /\ b.game \in DOMAIN N.games
                                  /\ b.game \in Closed(more) => ~b.live
                                  /\ b.game \notin Closed(more) => b \in S.bindings
                                  /\ \E c \in S.bindings : c.game = b.game
         /\ \A b \in S.bindings : b.game \in DOMAIN N.games \ Closed(more) => b \in N.bindings
    <3>1. IsSnapshot(S) /\ receipts \in Seq(Receipt) /\ Continues(receipts, S.ledger)
      BY <1>2
    <3> QED BY <3>1, SynchronizedFields
  <2> HIDE DEF T, added
  <2>2. /\ added \in Seq(Receipt) /\ receipts = S.ledger \o added
        /\ IsSnapshot(T) /\ T.ledger = receipts
        /\ T.spectators = {b \in S.spectators : b.game \notin Closed(added) \cup Purged(added)}
        /\ T.invitations = S.invitations \ (Closed(added) \cup Purged(added))
        /\ DOMAIN T.games = DOMAIN S.games \ Purged(added)
        /\ \A g \in DOMAIN T.games : /\ g \in Closed(added) => T.games[g].deletedAt # 0
                                     /\ g \notin Closed(added) => T.games[g] = S.games[g]
    BY <2>1 DEF T, added
  <2>3. \A b \in T.bindings : /\ b.game \in DOMAIN T.games
                              /\ b.game \in Closed(added) => ~b.live
                              /\ b.game \notin Closed(added) => b \in S.bindings
                              /\ \E c \in S.bindings : c.game = b.game
    BY <2>1 DEF T, added
  <2>6. ASSUME NEW g, Quiet(S, g)
        PROVE  Quiet(T, g) /\ (Erased(S, g) => Erased(T, g))
    <3>1. ~Active(T, g)
      BY <2>2, <2>6 DEF Quiet, Active
    <3>2. g \notin T.invitations /\ \A b \in T.spectators : b.game # g
      BY <2>2, <2>6 DEF Quiet
    <3>3. \A b \in T.bindings : b.game = g => ~b.live
      BY <2>3, <2>6 DEF Quiet
    <3>4. Erased(S, g) => Erased(T, g)
      BY <2>2, <2>3 DEF Erased
    <3> QED BY <3>1, <3>2, <3>3, <3>4 DEF Quiet
  <2>7. ASSUME NEW g \in Closed(added) PROVE Quiet(T, g)
    <3>1. \A b \in T.bindings : b.game = g => ~b.live
      BY <2>3
    <3> QED BY <2>2, <3>1 DEF Quiet, Active
  <2>8. ASSUME NEW g \in Purged(added) PROVE Quiet(T, g) /\ Erased(T, g)
    <3>1. g \notin DOMAIN T.games /\ \A b \in T.bindings : b.game # g
      BY <2>2, <2>3
    <3> QED BY <2>2, <3>1 DEF Quiet, Erased, Active
  <2>9. /\ S.ledger \in Seq(Receipt) /\ Len(S.ledger) \in Nat
        /\ Len(receipts) = Len(S.ledger) + Len(added) /\ Len(added) \in Nat
        /\ \A i \in 1..Len(S.ledger) : receipts[i] = S.ledger[i]
        /\ \A j \in 1..(Len(S.ledger) + Len(added)) : j > Len(S.ledger) => receipts[j] = added[j - Len(S.ledger)]
    <3>1. S.ledger \in Seq(Receipt)
      BY SnapshotFields
    <3>2. /\ Len(S.ledger \o added) = Len(S.ledger) + Len(added)
          /\ \A i \in 1..Len(S.ledger) : (S.ledger \o added)[i] = S.ledger[i]
          /\ \A j \in 1..(Len(S.ledger) + Len(added)) :
                j > Len(S.ledger) => (S.ledger \o added)[j] = added[j - Len(S.ledger)]
      BY <2>2, <3>1, Joined
    <3>3. Len(S.ledger) \in Nat /\ Len(added) \in Nat
      BY <2>2, <3>1
    <3> QED BY <2>2, <3>1, <3>2, <3>3
  <2>10. ASSUME NEW i \in DOMAIN receipts
         PROVE  Quiet(T, receipts[i].game) /\ (receipts[i].purgedAt # 0 => Erased(T, receipts[i].game))
    <3>1. i \in 1..(Len(S.ledger) + Len(added))
      BY <2>9
    <3>2. CASE i \in 1..Len(S.ledger)
      <4>1. i \in DOMAIN S.ledger /\ receipts[i] = S.ledger[i]
        BY <2>9, <3>2
      <4>2. /\ Quiet(S, S.ledger[i].game)
            /\ S.ledger[i].purgedAt # 0 => Erased(S, S.ledger[i].game)
        BY <4>1 DEF InForce
      <4> QED BY <2>6, <4>1, <4>2
    <3>3. CASE i > Len(S.ledger)
      <4> DEFINE j == i - Len(S.ledger)
      <4>1. j \in 1..Len(added) /\ receipts[i] = added[j]
        BY <2>9, <3>1, <3>3
      <4>2. j \in DOMAIN added
        BY <2>2, <4>1
      <4>3. CASE added[j].purgedAt = 0
        <5>1. added[j].game \in Closed(added)
          BY <4>2, <4>3 DEF Closed
        <5> QED BY <2>7, <4>1, <4>3, <5>1
      <4>4. CASE added[j].purgedAt # 0
        <5>1. added[j].game \in Purged(added)
          BY <4>2, <4>4 DEF Purged
        <5> QED BY <2>8, <4>1, <5>1
      <4> QED BY <4>3, <4>4
    <3>4. i \in 1..Len(S.ledger) \/ i > Len(S.ledger)
      BY <2>9, <3>1
    <3> QED BY <3>2, <3>3, <3>4
  <2>11. IsPrefix(S.ledger, receipts)
    BY <1>2 DEF Continues
  <2>12. GoesOn(S, T) /\ T.ledger = receipts
    BY <2>2, <2>10, <2>11 DEF GoesOn, InForce
  <2> QED BY <2>12 DEF T
<1> QED BY <1>1, <1>2

LEMMA PurgeForces ==
  ASSUME NEW S, IsSnapshot(S), InForce(S), MaxGames \in Nat, NEW upTo \in Int, NEW now \in Nat \ {0}
  PROVE  GoesOn(S, PurgeDeletedGames(S, upTo, now))
<1> DEFINE doomed == {g \in DOMAIN S.games : S.games[g].deletedAt \in 1..upTo}
           order == InOrder(doomed)
           n == Cardinality(doomed)
           R(g) == [game |-> g, deletedAt |-> S.games[g].deletedAt, purgedAt |-> now]
           receipts == [i \in DOMAIN order |-> R(order[i])]
<1>1. /\ DOMAIN S.games \subseteq Game /\ \A g \in DOMAIN S.games : S.games[g] \in Row
      /\ S.ledger \in Seq(Receipt)
  BY SnapshotFields
<1>2. n \in Nat /\ order \in [1..n -> doomed]
  <2> HIDE DEF doomed
  <2>1. doomed \in SUBSET Game
    BY <1>1 DEF doomed
  <2> QED BY <2>1, Enumerated
<1>3. \A g \in doomed : R(g) \in Receipt
  BY <1>1 DEF Receipt, Row
<1>4. PurgeDeletedGames(S, upTo, now) = SynchronizeDeletionLedger(S, S.ledger \o receipts)
  BY DEF PurgeDeletedGames
<1> HIDE DEF doomed, order, R
<1>5. receipts \in Seq(Receipt)
  BY <1>2, <1>3
<1> HIDE DEF receipts
<1>6. S.ledger \o receipts \in Seq(Receipt)
  BY <1>1, <1>5
<1>7. GoesOn(S, SynchronizeDeletionLedger(S, S.ledger \o receipts))
  BY <1>6, SynchronizeForces
<1> QED BY <1>4, <1>7

LEMMA ApplyForces ==
  ASSUME NEW S, IsSnapshot(S), InForce(S), MaxGames \in Nat, NEW now \in Nat \ {0},
         NEW r \in Request \cup [kind : {"purge"}, upTo : Nat],
         NEW new, r.kind = "create" => new \in Fresh(DOMAIN S.games, S.ledger)
  PROVE  LET T == Apply(S, r, new, now) IN GoesOn(S, T) /\ IsPruned(T)
<1> DEFINE P == Prune(S)
           Q == Served(P, r, new, now)
           T == Prune(Q)
<1>0. r \in Request \/ (r.kind = "purge" /\ r.upTo \in Nat)
  OBVIOUS
<1>1. /\ IsSnapshot(P) /\ InForce(P) /\ P.ledger = S.ledger /\ P.games = S.games
  BY PruneFields, PruneForces DEF GoesOn
<1>2. T = Apply(S, r, new, now)
  BY ApplyIsServed
<1> HIDE DEF P
<1>3. GoesOn(P, Q)
  <2> HIDE DEF Q
  <2>0. /\ r.kind # "purge" => r \in Request
        /\ r.kind = "purge" => r.upTo \in Int
        /\ r.kind \in PlayerCalls \cup {"create", "purge", "poll"}
    BY <1>0, RequestFields
  <2>1. CASE r.kind = "create"
    <3>1. new \in Fresh(DOMAIN P.games, P.ledger)
      BY <1>1, <2>1
    <3>2. Q = CreateGame(P, r, new)
      BY <2>1, ServedCases DEF Q
    <3> QED BY <1>1, <2>0, <2>1, <3>1, <3>2, CreateForces
  <2>2. CASE r.kind = "claim"
    BY <1>1, <2>0, <2>2, ServedCases, ClaimForces DEF Q
  <2>3. CASE r.kind = "watch"
    BY <1>1, <2>0, <2>3, ServedCases, WatchForces DEF Q
  <2>4. CASE r.kind = "subscribe"
    BY <1>1, <2>0, <2>4, ServedCases, SubscribeForces DEF Q
  <2>5. CASE r.kind = "unsubscribe"
    BY <1>1, <2>0, <2>5, ServedCases, UnsubscribeForces DEF Q
  <2>6. CASE r.kind = "finish"
    BY <1>1, <2>0, <2>6, ServedCases, FinishForces DEF Q
  <2>7. CASE r.kind = "delete"
    BY <1>1, <2>0, <2>7, ServedCases, DeleteForces DEF Q
  <2>8. CASE r.kind = "purge"
    <3>1. r.upTo \in Int
      BY <2>0, <2>8
    <3> QED BY <1>1, <2>8, <3>1, ServedCases, PurgeForces DEF Q
  <2>9. CASE r.kind = "poll"
    <3>1. Q = P
      BY <2>9, ServedCases DEF Q
    <3> QED BY <1>1, <3>1, ForceStays
  <2> QED BY <2>1, <2>2, <2>3, <2>4, <2>5, <2>6, <2>7, <2>8, <2>9, <2>0 DEF PlayerCalls
<1> HIDE DEF Q
<1>4. IsSnapshot(Q) /\ InForce(Q) /\ IsPrefix(P.ledger, Q.ledger)
  BY <1>3 DEF GoesOn
<1>5. GoesOn(Q, T) /\ IsPruned(T) /\ T.ledger = Q.ledger
  BY <1>4, PruneForces, PruneFields
<1>6. GoesOn(S, T)
  BY <1>1, <1>4, <1>5 DEF GoesOn
<1> HIDE DEF T
<1> QED BY <1>2, <1>5, <1>6

-----------------------------------------------------------------------------
(* Restoring and synchronizing.                                            *)

\* Synchronizing leaves the games that stay open alone.
LEMMA SynchronizeSpares ==
  ASSUME NEW S, IsSnapshot(S), NEW receipts \in Seq(Receipt), Continues(receipts, S.ledger),
         NEW g, Active(SynchronizeDeletionLedger(S, receipts), g)
  PROVE  LET T == SynchronizeDeletionLedger(S, receipts) IN
         /\ Active(S, g) /\ T.games[g] = S.games[g]
         /\ Of(g, T.bindings) = Of(g, S.bindings)
         /\ Of(g, T.spectators) = Of(g, S.spectators)
         /\ T.consents = S.consents
         /\ \A b \in Of(g, S.bindings) \cup Of(g, S.spectators) : b.session \in S.sessions => b.session \in T.sessions
<1> DEFINE T == SynchronizeDeletionLedger(S, receipts)
           added == SubSeq(receipts, Len(S.ledger) + 1, Len(receipts))
<1>1. LET N == SynchronizeDeletionLedger(S, receipts)
          more == SubSeq(receipts, Len(S.ledger) + 1, Len(receipts))
          dropped == Closed(more) \cup Purged(more) IN
       /\ more \in Seq(Receipt) /\ receipts = S.ledger \o more
       /\ IsSnapshot(N) /\ N.ledger = receipts
       /\ N.spectators = {b \in S.spectators : b.game \notin dropped}
       /\ N.invitations = S.invitations \ dropped
       /\ N.consents = S.consents
       /\ N.sessions = {s \in S.sessions : \E b \in N.bindings \cup N.spectators : b.session = s}
       /\ DOMAIN N.games = DOMAIN S.games \ Purged(more)
       /\ \A h \in DOMAIN N.games : /\ h \in Closed(more) => N.games[h].deletedAt # 0
                                    /\ h \notin Closed(more) => N.games[h] = S.games[h]
       /\ \A b \in N.bindings : /\ b.game \in DOMAIN N.games
                                /\ b.game \in Closed(more) => ~b.live
                                /\ b.game \notin Closed(more) => b \in S.bindings
                                /\ \E c \in S.bindings : c.game = b.game
       /\ \A b \in S.bindings : b.game \in DOMAIN N.games \ Closed(more) => b \in N.bindings
  <2>1. IsSnapshot(S) /\ receipts \in Seq(Receipt) /\ Continues(receipts, S.ledger)
    OBVIOUS
  <2> QED BY <2>1, SynchronizedFields
<1> HIDE DEF T, added
<1>2. /\ T.spectators = {b \in S.spectators : b.game \notin Closed(added) \cup Purged(added)}
      /\ T.consents = S.consents
      /\ T.sessions = {s \in S.sessions : \E b \in T.bindings \cup T.spectators : b.session = s}
      /\ DOMAIN T.games = DOMAIN S.games \ Purged(added)
      /\ \A h \in DOMAIN T.games : /\ h \in Closed(added) => T.games[h].deletedAt # 0
                                   /\ h \notin Closed(added) => T.games[h] = S.games[h]
  BY <1>1 DEF T, added
<1>3. /\ \A b \in T.bindings : b.game \notin Closed(added) => b \in S.bindings
      /\ \A b \in S.bindings : b.game \in DOMAIN T.games \ Closed(added) => b \in T.bindings
  BY <1>1 DEF T, added
<1>4. g \in DOMAIN T.games /\ T.games[g].deletedAt = 0
  BY DEF T, Active
<1>5. g \notin Closed(added) \cup Purged(added)
  BY <1>2, <1>4
<1>6. T.games[g] = S.games[g] /\ Active(S, g)
  BY <1>2, <1>4, <1>5 DEF Active
<1>7. Of(g, T.bindings) = Of(g, S.bindings)
  BY <1>3, <1>4, <1>5 DEF Of
<1>8. Of(g, T.spectators) = Of(g, S.spectators)
  BY <1>2, <1>5 DEF Of
<1>9. \A b \in Of(g, S.bindings) \cup Of(g, S.spectators) : b \in T.bindings \cup T.spectators
  BY <1>7, <1>8 DEF Of
<1>10. \A b \in Of(g, S.bindings) \cup Of(g, S.spectators) : b.session \in S.sessions => b.session \in T.sessions
  BY <1>2, <1>9
<1> QED BY <1>2, <1>6, <1>7, <1>8, <1>10 DEF T

RestorationInv ==
  /\ written \in Nat
  /\ offhost \in Seq(Receipt)
  /\ \A S \in backups \cup {snapshot} : IsHeld(S)

LEMMA HeldBegins ==
  ASSUME NEW S, NEW T, IsHeld(S), GoesOn(S, T), IsPruned(T)
  PROVE  IsHeld(T)
BY DEF IsHeld, GoesOn

LEMMA EmptyIsHeld == IsHeld(Empty) /\ Empty.ledger = <<>>
<1>1. /\ Empty.games = [g \in {} |-> {}] /\ Empty.bindings = {} /\ Empty.invitations = {}
      /\ Empty.spectators = {} /\ Empty.consents = {} /\ Empty.sessions = {} /\ Empty.ledger = <<>>
  BY DEF Empty
<1>2. IsSnapshot(Empty)
  BY DEF IsSnapshot, Empty
<1>3. InForce(Empty) /\ IsPruned(Empty)
  BY <1>1 DEF InForce, IsPruned
<1> QED BY <1>1, <1>2, <1>3 DEF IsHeld

\* A call or a purge, at its date.
LEMMA DoneHolds ==
  ASSUME MaxGames \in Nat, written \in Nat, IsHeld(snapshot),
         NEW r \in Request \cup [kind : {"purge"}, upTo : Nat],
         NEW new, r.kind = "create" => new \in Fresh(DOMAIN snapshot.games, snapshot.ledger),
         Do(Apply(snapshot, r, new, written + 1))
  PROVE  /\ written' \in Nat /\ IsHeld(snapshot')
         /\ IsPrefix(snapshot.ledger, snapshot'.ledger)
<1> DEFINE T == Apply(snapshot, r, new, written + 1)
<1>1. written + 1 \in Nat \ {0} /\ IsSnapshot(snapshot) /\ InForce(snapshot)
  BY DEF IsHeld
<1>2. GoesOn(snapshot, T) /\ IsPruned(T)
  BY <1>1, ApplyForces
<1>3. snapshot' = T /\ written' \in {written, written + 1}
  BY DEF Do
<1> HIDE DEF T
<1> QED BY <1>2, <1>3, HeldBegins DEF GoesOn

LEMMA SynchronizedHolds ==
  ASSUME IsHeld(snapshot), offhost \in Seq(Receipt), Synchronize
  PROVE  IsHeld(snapshot') /\ snapshot'.ledger = offhost
<1> DEFINE P == Prune(snapshot)
           Q == SynchronizeDeletionLedger(P, offhost)
<1>1. /\ snapshot' = Prune(Q) /\ Continues(offhost, snapshot.ledger)
  BY DEF Synchronize
<1>2. GoesOn(snapshot, P) /\ P.ledger = snapshot.ledger
  BY PruneForces, PruneFields DEF IsHeld
<1>3. IsSnapshot(P) /\ InForce(P) /\ Continues(offhost, P.ledger)
  BY <1>1, <1>2 DEF GoesOn
<1> HIDE DEF P
<1>4. GoesOn(P, Q) /\ Q.ledger = offhost
  BY <1>3, SynchronizeForces
<1> HIDE DEF Q
<1>5. IsSnapshot(Q) /\ InForce(Q)
  BY <1>4 DEF GoesOn
<1>6. GoesOn(Q, Prune(Q)) /\ IsPruned(Prune(Q)) /\ Prune(Q).ledger = Q.ledger
  BY <1>5, PruneForces, PruneFields
<1> QED BY <1>1, <1>4, <1>6 DEF IsHeld, GoesOn

LEMMA InRange == ASSUME NEW m \in Nat, NEW i \in 1..m PROVE i \in Nat
OBVIOUS

LEMMA NextKeepsHeld ==
  ASSUME RestorationAssumption, RestorationInv, [RestorationNext]_restorationVars
  PROVE  RestorationInv'
<1>a. /\ MaxGames \in Nat /\ written \in Nat /\ offhost \in Seq(Receipt) /\ IsHeld(snapshot)
      /\ \A S \in backups : IsHeld(S)
  BY DEF RestorationInv, RestorationAssumption
<1>1. ASSUME UNCHANGED <<backups, offhost>>, written' \in Nat, IsHeld(snapshot')
      PROVE  RestorationInv'
  <2>1. \A S \in backups' \cup {snapshot'} : IsHeld(S)
    BY <1>1, <1>a
  <2>2. offhost' \in Seq(Receipt)
    BY <1>1, <1>a
  <2> QED BY <1>1, <2>1, <2>2 DEF RestorationInv
<1>2. CASE UNCHANGED restorationVars
  BY <1>1, <1>2, <1>a DEF restorationVars
<1>3. ASSUME NEW r \in Asked, Serve(r) PROVE RestorationInv'
  <2>1. r \in Request
    BY DEF RestorationAssumption
  <2>2. PICK new \in IF r.kind = "create" THEN Fresh(DOMAIN snapshot.games, snapshot.ledger) ELSE {0} :
          Do(Apply(snapshot, r, new, written + 1))
    BY <1>3 DEF Serve
  <2>3. r.kind = "create" => new \in Fresh(DOMAIN snapshot.games, snapshot.ledger)
    BY <2>2
  <2>4. written' \in Nat /\ IsHeld(snapshot')
    BY <1>a, <2>1, <2>2, <2>3, DoneHolds
  <2>5. UNCHANGED <<backups, offhost>>
    BY <1>3 DEF Serve
  <2> QED BY <1>1, <2>4, <2>5
<1>4. ASSUME NEW upTo \in 1..MaxReceipts, PurgeDeleted(upTo) PROVE RestorationInv'
  <2> DEFINE r == [kind |-> "purge", upTo |-> upTo]
  <2>1. Do(Apply(snapshot, r, 0, written + 1)) /\ UNCHANGED <<backups, offhost>>
    BY <1>4 DEF PurgeDeleted
  <2>2. r \in Request \cup [kind : {"purge"}, upTo : Nat] /\ r.kind # "create"
    <3>0. MaxReceipts \in Nat
      BY DEF RestorationAssumption
    <3>1. upTo \in Nat
      BY <3>0, InRange
    <3>2. r \in [kind : {"purge"}, upTo : Nat]
      BY <3>1
    <3> QED BY <3>2
  <2> HIDE DEF r
  <2>3. written' \in Nat /\ IsHeld(snapshot')
    BY <1>a, <2>1, <2>2, DoneHolds
  <2> QED BY <1>1, <2>1, <2>3
<1>5. ASSUME NEW acknowledges \in BOOLEAN, BackUp(acknowledges) PROVE RestorationInv'
  <2>1. /\ backups' = backups \cup {snapshot} /\ offhost' = snapshot.ledger
        /\ UNCHANGED <<snapshot, written>>
    BY <1>5 DEF BackUp
  <2>2. \A S \in backups' \cup {snapshot'} : IsHeld(S)
    BY <1>a, <2>1
  <2>3. offhost' \in Seq(Receipt)
    BY <1>a, <2>1, SnapshotFields DEF IsHeld
  <2> QED BY <1>a, <2>1, <2>2, <2>3 DEF RestorationInv
<1>6. ASSUME NEW backup \in backups, Restore(backup) PROVE RestorationInv'
  BY <1>1, <1>6, <1>a DEF Restore
<1>7. CASE Stop \/ Start
  BY <1>1, <1>7, <1>a DEF Stop, Start
<1>8. CASE Synchronize
  <2>1. UNCHANGED <<backups, offhost, written>>
    BY <1>8 DEF Synchronize
  <2> QED BY <1>1, <1>8, <1>a, <2>1, SynchronizedHolds
<1> QED BY <1>2, <1>3, <1>4, <1>5, <1>6, <1>7, <1>8 DEF RestorationNext

LEMMA InitHeld ==
  ASSUME RestorationInit
  PROVE  RestorationInv
BY EmptyIsHeld DEF RestorationInit, RestorationInv

LEMMA Held == RestorationSpec => []RestorationInv
<1>1. RestorationInit => RestorationInv
  BY InitHeld
<1>2. RestorationInv /\ [RestorationNext]_restorationVars => RestorationInv'
  BY NextKeepsHeld, RestorationAssumption
<1> QED BY <1>1, <1>2, PTL DEF RestorationSpec

LEMMA HeldIsInForce ==
  ASSUME RestorationInv
  PROVE  LedgerIsInForce
<1>1. IsSnapshot(snapshot) /\ InForce(snapshot) /\ IsPruned(snapshot)
  BY DEF RestorationInv, IsHeld
<1> SUFFICES ASSUME NEW i \in DOMAIN snapshot.ledger
             PROVE  LET g == snapshot.ledger[i].game
                    IN /\ ~Active(snapshot, g)
                       /\ g \notin snapshot.invitations
                       /\ Of(g, snapshot.spectators) = {} /\ Of(g, snapshot.consents) = {}
                       /\ \A b \in Of(g, snapshot.bindings) : ~b.live
                       /\ snapshot.ledger[i].purgedAt # 0
                            => g \notin DOMAIN snapshot.games /\ Of(g, snapshot.bindings) = {}
  BY DEF LedgerIsInForce
<1> DEFINE g == snapshot.ledger[i].game
<1>2. /\ Quiet(snapshot, g)
      /\ snapshot.ledger[i].purgedAt # 0 => Erased(snapshot, g)
  BY <1>1 DEF InForce
<1> HIDE DEF g
<1>3. Of(g, snapshot.consents) = {}
  BY <1>1, <1>2 DEF IsPruned, Quiet, Of
<1>4. /\ ~Active(snapshot, g)
      /\ g \notin snapshot.invitations
      /\ Of(g, snapshot.spectators) = {}
      /\ \A b \in Of(g, snapshot.bindings) : ~b.live
  BY <1>2 DEF Quiet, Of
<1>5. snapshot.ledger[i].purgedAt # 0
        => g \notin DOMAIN snapshot.games /\ Of(g, snapshot.bindings) = {}
  BY <1>2 DEF Erased, Of
<1> QED BY <1>3, <1>4, <1>5 DEF g

\* Whatever is created, claimed, deleted, purged, restored and synchronized, and whatever
\* goes wrong with purge and watermark, every receipt the database holds is in force.
THEOREM LedgersAreInForce == RestorationSpec => []LedgerIsInForce
BY Held, HeldIsInForce, PTL

\* The players of the games that stay open.
LEMMA SynchronizingSpares ==
  ASSUME RestorationInv, Synchronize, NEW g \in Game, Active(snapshot', g)
  PROVE  /\ Of(g, snapshot'.bindings) = Of(g, snapshot.bindings)
         /\ Of(g, snapshot'.spectators) = Of(g, snapshot.spectators)
         /\ Of(g, snapshot'.consents) = Of(g, snapshot.consents)
         /\ \A b \in Of(g, snapshot.bindings) \cup Of(g, snapshot.spectators) :
              b.session \in snapshot.sessions => b.session \in snapshot'.sessions
<1> DEFINE P == Prune(snapshot)
           Q == SynchronizeDeletionLedger(P, offhost)
<1>1. snapshot' = Prune(Q) /\ Continues(offhost, snapshot.ledger) /\ offhost \in Seq(Receipt)
  BY DEF Synchronize, RestorationInv
<1>2. IsSnapshot(snapshot) /\ InForce(snapshot) /\ IsPruned(snapshot)
  BY DEF RestorationInv, IsHeld
<1>3. /\ P.games = snapshot.games /\ P.bindings = snapshot.bindings
      /\ P.spectators = snapshot.spectators /\ P.sessions = snapshot.sessions
      /\ P.ledger = snapshot.ledger /\ P.consents = snapshot.consents
  <2>1. /\ P.games = snapshot.games /\ P.bindings = snapshot.bindings
        /\ P.spectators = snapshot.spectators /\ P.sessions = snapshot.sessions
        /\ P.ledger = snapshot.ledger
        /\ P.consents = {c \in snapshot.consents :
                           /\ Binding("seat", c.game, c.session) \in snapshot.bindings
                           /\ c.session \in snapshot.sessions
                           /\ Active(snapshot, c.game)
                           /\ ~snapshot.games[c.game].over}
    BY <1>2, PruneFields
  <2>2. P.consents = snapshot.consents
    BY <1>2, <2>1 DEF IsPruned
  <2> QED BY <2>1, <2>2
<1>4. IsSnapshot(P) /\ InForce(P) /\ Continues(offhost, P.ledger)
  BY <1>1, <1>2, <1>3, PruneForces DEF GoesOn
<1> HIDE DEF P
<1>5. GoesOn(P, Q)
  BY <1>1, <1>4, SynchronizeForces
<1>6. IsSnapshot(Q)
  BY <1>5 DEF GoesOn
<1>7. /\ snapshot'.games = Q.games /\ snapshot'.bindings = Q.bindings
      /\ snapshot'.spectators = Q.spectators /\ snapshot'.sessions = Q.sessions
      /\ snapshot'.consents = {c \in Q.consents : /\ Binding("seat", c.game, c.session) \in Q.bindings
                                                  /\ c.session \in Q.sessions
                                                  /\ Active(Q, c.game)
                                                  /\ ~Q.games[c.game].over}
  BY <1>1, <1>6, PruneFields
<1>8. Active(Q, g)
  BY <1>7 DEF Active
<1>9. /\ Active(P, g) /\ Q.games[g] = P.games[g]
      /\ Of(g, Q.bindings) = Of(g, P.bindings)
      /\ Of(g, Q.spectators) = Of(g, P.spectators)
      /\ Q.consents = P.consents
      /\ \A b \in Of(g, P.bindings) \cup Of(g, P.spectators) : b.session \in P.sessions => b.session \in Q.sessions
  BY <1>1, <1>4, <1>8, SynchronizeSpares
<1> HIDE DEF Q
<1>10. ASSUME NEW c \in snapshot.consents, c.game = g
       PROVE  c \in snapshot'.consents
  <2>1. /\ Binding("seat", g, c.session) \in snapshot.bindings /\ c.session \in snapshot.sessions
        /\ ~snapshot.games[g].over
    BY <1>2, <1>10 DEF IsPruned
  <2>2. Binding("seat", g, c.session) \in Of(g, P.bindings) /\ Binding("seat", g, c.session).session = c.session
    BY <1>3, <2>1 DEF Of, Binding
  <2>3. Binding("seat", g, c.session) \in Q.bindings /\ c.session \in Q.sessions
    <3>1. Binding("seat", g, c.session) \in Of(g, Q.bindings)
      BY <1>9, <2>2
    <3>2. c.session \in Q.sessions
      BY <1>3, <1>9, <2>1, <2>2
    <3> QED BY <3>1, <3>2 DEF Of
  <2>4. ~Q.games[g].over
    BY <1>3, <1>9, <2>1
  <2> QED BY <1>3, <1>7, <1>8, <1>9, <1>10, <2>3, <2>4
<1>11. \A c \in snapshot'.consents : c \in snapshot.consents
  BY <1>3, <1>7, <1>9
<1>12. Of(g, snapshot'.consents) = Of(g, snapshot.consents)
  BY <1>10, <1>11 DEF Of
<1> QED BY <1>3, <1>7, <1>9, <1>12

\* Synchronizing a ledger takes nothing from the players and observers of the games it does
\* not close, whatever it closes.
THEOREM OthersKeepTheirPlayers == RestorationSpec => OtherGamesKeepTheirPlayers
<1>1. RestorationInv /\ [RestorationNext]_restorationVars =>
        [Synchronize =>
           \A g \in Game : Active(snapshot', g) =>
             /\ Of(g, snapshot'.bindings) = Of(g, snapshot.bindings)
             /\ Of(g, snapshot'.spectators) = Of(g, snapshot.spectators)
             /\ Of(g, snapshot'.consents) = Of(g, snapshot.consents)
             /\ \A b \in Of(g, snapshot.bindings) \cup Of(g, snapshot.spectators) :
                  b.session \in snapshot.sessions => b.session \in snapshot'.sessions]_restorationVars
  BY SynchronizingSpares
<1> QED BY <1>1, Held, PTL DEF RestorationSpec, OtherGamesKeepTheirPlayers

-----------------------------------------------------------------------------
(* The watermark.                                                          *)

\* Without accidents the ledgers are pieces of one history, and the watermark is the length
\* of what has been copied of it.
LedgerInv ==
  /\ watermark = Len(offhost) /\ acknowledged = Deleted(offhost)
  /\ \A S \in backups : IsPrefix(S.ledger, offhost)
  /\ IsPrefix(snapshot.ledger, offhost) \/ IsPrefix(offhost, snapshot.ledger)
  /\ server = "ready" => IsPrefix(offhost, snapshot.ledger)

LEMMA BeginsWithItself ==
  ASSUME NEW V, NEW a \in Seq(V)
  PROVE  IsPrefix(a, a)
<1>1. Len(a) \in Nat
  OBVIOUS
<1>2. IsPrefix(a, a) <=> Len(a) <= Len(a) /\ \A i \in 1..Len(a) : a[i] = a[i]
  BY Begins
<1> QED BY <1>1, <1>2

LEMMA BeginsAndNoShorter ==
  ASSUME NEW V, NEW a \in Seq(V), NEW b \in Seq(V), IsPrefix(a, b), Len(b) <= Len(a)
  PROVE  a = b
<1>1. Len(a) \in Nat /\ Len(b) \in Nat
  OBVIOUS
<1>2. Len(a) <= Len(b) /\ \A i \in 1..Len(a) : a[i] = b[i]
  BY Begins
<1>3. Len(a) = Len(b)
  BY <1>1, <1>2
<1>4. a = [i \in 1..Len(a) |-> a[i]] /\ b = [i \in 1..Len(b) |-> b[i]]
  OBVIOUS
<1> QED BY <1>2, <1>3, <1>4

LEMMA InitLedgers ==
  ASSUME RestorationInit
  PROVE  LedgerInv
<1>1. /\ offhost = <<>> /\ watermark = 0 /\ acknowledged = {} /\ backups = {} /\ server = "down"
      /\ snapshot.ledger = <<>>
  BY EmptyIsHeld DEF RestorationInit
<1>2. IsPrefix(snapshot.ledger, offhost)
  <2>1. <<>> \in Seq(Receipt)
    OBVIOUS
  <2> QED BY <1>1, <2>1, BeginsWithItself
<1>3. Deleted(offhost) = {} /\ Len(offhost) = 0
  BY <1>1 DEF Deleted
<1> QED BY <1>1, <1>2, <1>3 DEF LedgerInv

\* A ledger that grows while the server serves keeps what has been copied of it.
LEMMA GrowingKeepsLedgers ==
  ASSUME LedgerInv, server = "ready", offhost \in Seq(Receipt),
         snapshot.ledger \in Seq(Receipt), snapshot'.ledger \in Seq(Receipt),
         IsPrefix(snapshot.ledger, snapshot'.ledger),
         UNCHANGED <<server, backups, offhost, watermark, acknowledged>>
  PROVE  LedgerInv'
<1>1. IsPrefix(offhost, snapshot'.ledger)
  BY BeginsTwice DEF LedgerInv
<1>2. Deleted(offhost)' = Deleted(offhost)
  BY DEF Deleted
<1> QED BY <1>1, <1>2 DEF LedgerInv

LEMMA NextKeepsLedgers ==
  ASSUME RestorationAssumption, Accidents = {}, RestorationInv, RestorationInv', LedgerInv,
         [RestorationNext]_restorationVars
  PROVE  LedgerInv'
<1>a. /\ MaxGames \in Nat /\ written \in Nat /\ offhost \in Seq(Receipt) /\ IsHeld(snapshot)
      /\ snapshot.ledger \in Seq(Receipt) /\ snapshot'.ledger \in Seq(Receipt)
      /\ \A S \in backups : S.ledger \in Seq(Receipt)
  BY SnapshotFields DEF RestorationInv, RestorationAssumption, IsHeld
<1>b. /\ watermark = Len(offhost) /\ acknowledged = Deleted(offhost)
      /\ \A S \in backups : IsPrefix(S.ledger, offhost)
      /\ IsPrefix(snapshot.ledger, offhost) \/ IsPrefix(offhost, snapshot.ledger)
      /\ server = "ready" => IsPrefix(offhost, snapshot.ledger)
  BY DEF LedgerInv
<1>2. CASE UNCHANGED restorationVars
  <2>1. UNCHANGED <<snapshot, server, backups, offhost, watermark, acknowledged>>
    BY <1>2 DEF restorationVars
  <2> QED BY <1>b, <2>1 DEF LedgerInv, Deleted
<1>3. ASSUME NEW r \in Asked, Serve(r) PROVE LedgerInv'
  <2>1. r \in Request
    BY DEF RestorationAssumption
  <2>2. PICK new \in IF r.kind = "create" THEN Fresh(DOMAIN snapshot.games, snapshot.ledger) ELSE {0} :
          Do(Apply(snapshot, r, new, written + 1))
    BY <1>3 DEF Serve
  <2>3. r.kind = "create" => new \in Fresh(DOMAIN snapshot.games, snapshot.ledger)
    BY <2>2
  <2>4. IsPrefix(snapshot.ledger, snapshot'.ledger)
    BY <1>a, <2>1, <2>2, <2>3, DoneHolds
  <2>5. server = "ready" /\ UNCHANGED <<server, backups, offhost, watermark, acknowledged>>
    BY <1>3 DEF Serve
  <2> QED BY <1>a, <2>4, <2>5, GrowingKeepsLedgers
<1>4. ASSUME NEW upTo \in 1..MaxReceipts, PurgeDeleted(upTo) PROVE LedgerInv'
  <2> DEFINE r == [kind |-> "purge", upTo |-> upTo]
  <2>1. /\ Do(Apply(snapshot, r, 0, written + 1)) /\ server = "ready"
        /\ UNCHANGED <<server, backups, offhost, watermark, acknowledged>>
    BY <1>4 DEF PurgeDeleted
  <2>2. r \in Request \cup [kind : {"purge"}, upTo : Nat] /\ r.kind # "create"
    BY InRange DEF RestorationAssumption
  <2> HIDE DEF r
  <2>3. IsPrefix(snapshot.ledger, snapshot'.ledger)
    BY <1>a, <2>1, <2>2, DoneHolds
  <2> QED BY <1>a, <2>1, <2>3, GrowingKeepsLedgers
<1>5. ASSUME NEW acknowledges \in BOOLEAN, BackUp(acknowledges) PROVE LedgerInv'
  <2>1. /\ Len(snapshot.ledger) >= Len(offhost)
        /\ backups' = backups \cup {snapshot} /\ offhost' = snapshot.ledger
        /\ watermark' = Len(snapshot.ledger)
        /\ acknowledged' = acknowledged \cup Deleted(snapshot.ledger)
        /\ UNCHANGED <<snapshot, server>>
    BY <1>5 DEF BackUp
  <2>2. IsPrefix(offhost, snapshot.ledger)
    <3>1. Len(offhost) <= Len(snapshot.ledger)
      BY <1>a, <2>1
    <3>2. CASE IsPrefix(snapshot.ledger, offhost)
      <4>1. snapshot.ledger = offhost
        BY <1>a, <3>1, <3>2, BeginsAndNoShorter
      <4> QED BY <3>2, <4>1
    <3> QED BY <1>b, <3>2
  <2>3. \A S \in backups' : IsPrefix(S.ledger, offhost')
    <3>1. IsPrefix(snapshot.ledger, snapshot.ledger)
      BY <1>a, BeginsWithItself
    <3>2. \A S \in backups : IsPrefix(S.ledger, snapshot.ledger)
      BY <1>a, <1>b, <2>2, BeginsTwice
    <3> QED BY <2>1, <3>1, <3>2
  <2>4. acknowledged' = Deleted(snapshot.ledger)
    <3>1. Len(offhost) <= Len(snapshot.ledger) /\ \A i \in 1..Len(offhost) : offhost[i] = snapshot.ledger[i]
      BY <1>a, <2>2, Begins
    <3>2. DOMAIN offhost = 1..Len(offhost) /\ DOMAIN snapshot.ledger = 1..Len(snapshot.ledger)
          /\ Len(offhost) \in Nat /\ Len(snapshot.ledger) \in Nat
      BY <1>a
    <3>3. 1..Len(offhost) \subseteq 1..Len(snapshot.ledger)
      BY <3>1, <3>2
    <3>4. Deleted(offhost) \subseteq Deleted(snapshot.ledger)
      BY <3>1, <3>2, <3>3 DEF Deleted
    <3> QED BY <1>b, <2>1, <3>4
  <2>5. IsPrefix(offhost, snapshot.ledger)'
    BY <1>a, <2>1, BeginsWithItself
  <2> QED BY <2>1, <2>3, <2>4, <2>5 DEF LedgerInv
<1>6. ASSUME NEW backup \in backups, Restore(backup) PROVE LedgerInv'
  BY <1>6, <1>b DEF Restore, LedgerInv, Deleted
<1>7. CASE Stop
  BY <1>7, <1>b DEF Stop, LedgerInv, Deleted
<1>8. CASE Start
  <2>1. /\ UNCHANGED <<snapshot, backups, offhost, watermark, acknowledged>>
        /\ server' = "ready" => watermark = Len(snapshot.ledger)
    BY <1>8 DEF Start
  <2>2. ASSUME server' = "ready" PROVE IsPrefix(offhost, snapshot.ledger)
    <3>1. Len(offhost) <= Len(snapshot.ledger)
      BY <1>a, <1>b, <2>1, <2>2
    <3>2. CASE IsPrefix(snapshot.ledger, offhost)
      <4>1. snapshot.ledger = offhost
        BY <1>a, <3>1, <3>2, BeginsAndNoShorter
      <4> QED BY <3>2, <4>1
    <3> QED BY <1>b, <3>2
  <2> QED BY <1>b, <2>1, <2>2 DEF LedgerInv, Deleted
<1>9. CASE Synchronize
  <2>1. snapshot'.ledger = offhost
    BY <1>9, <1>a, SynchronizedHolds
  <2>2. /\ UNCHANGED <<server, backups, offhost>> /\ watermark' = Len(offhost)
        /\ acknowledged' = acknowledged \cup Deleted(offhost)
    BY <1>9 DEF Synchronize
  <2>3. IsPrefix(offhost, snapshot'.ledger)
    BY <1>a, <2>1, BeginsWithItself
  <2>4. Deleted(offhost)' = Deleted(offhost)
    BY <2>2 DEF Deleted
  <2> QED BY <1>b, <2>2, <2>3, <2>4 DEF LedgerInv
<1> QED BY <1>2, <1>3, <1>4, <1>5, <1>6, <1>7, <1>8, <1>9 DEF RestorationNext

LEMMA CoveredAreClosed ==
  ASSUME RestorationInv, LedgerInv
  PROVE  DeletedGamesStayClosed
<1> SUFFICES ASSUME server = "ready", NEW g \in acknowledged
             PROVE  ~Active(snapshot, g)
  BY DEF DeletedGamesStayClosed
<1>1. /\ offhost \in Seq(Receipt) /\ snapshot.ledger \in Seq(Receipt)
      /\ IsPrefix(offhost, snapshot.ledger) /\ g \in Deleted(offhost)
  BY SnapshotFields DEF RestorationInv, IsHeld, LedgerInv
<1>2. PICK i \in 1..Len(offhost) : g = offhost[i].game
  BY <1>1 DEF Deleted
<1>3. Len(offhost) <= Len(snapshot.ledger) /\ offhost[i] = snapshot.ledger[i]
  BY <1>1, Begins
<1>4. i \in DOMAIN snapshot.ledger
  <2>1. Len(offhost) \in Nat /\ Len(snapshot.ledger) \in Nat
        /\ DOMAIN snapshot.ledger = 1..Len(snapshot.ledger)
    BY <1>1
  <2> QED BY <1>3, <2>1
<1>5. LedgerIsInForce
  BY HeldIsInForce
<1> QED BY <1>2, <1>3, <1>4, <1>5 DEF LedgerIsInForce

\* As long as the purge runs only in a server that serves and no watermark is lost, a server
\* that serves holds every receipt that was copied off the host, so a game whose deletion was
\* acknowledged is closed in it, whatever backup was restored and started from.
THEOREM DeletedStayClosed ==
  ASSUME Accidents = {}
  PROVE  RestorationSpec => []DeletedGamesStayClosed
<1>1. RestorationInit => LedgerInv
  BY InitLedgers
<1>2. RestorationInv /\ RestorationInv' /\ LedgerInv /\ [RestorationNext]_restorationVars => LedgerInv'
  BY NextKeepsLedgers, RestorationAssumption
<1>3. RestorationInv /\ LedgerInv => DeletedGamesStayClosed
  BY CoveredAreClosed
<1> QED BY <1>1, <1>2, <1>3, Held, PTL DEF RestorationSpec
=============================================================================
