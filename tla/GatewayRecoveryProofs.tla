----------------------- MODULE GatewayRecoveryProofs -----------------------
(***************************************************************************)
(* What the memories of the inbound path and the recovery promise, for any *)
(* number of rooms, messages, recoveries, outages and restarts and any     *)
(* limits: the dedup window prevents early repeats, no watermark, in       *)
(* memory, in a payload or in the file, claims what was not read, and what *)
(* the gateway dropped is read unless it was overtaken or left out.        *)
(***************************************************************************)
EXTENDS GatewayRecovery, FiniteSetTheorems, TLAPS

(* The window is the end of what the process took, and never shorter than  *)
(* half its capacity once something has left it.                           *)
IsWindow(o, h) ==
    /\ o \in Seq(ever) /\ h \in Seq(ever)
    /\ Len(o) <= Len(h) /\ Len(o) <= Capacity
    /\ Len(o) = Len(h) \/ Len(o) > Capacity \div 2
    /\ \A i \in 1..Len(o) : o[i] = h[Len(h) - Len(o) + i]

WindowInv == IsWindow(order, took) /\ NoEarlyRepeat

(* Watermarks that were read, and the record of the thread's save.         *)
ReadMarks == [Rooms -> ever \cup {0}]
WasRead(w) == w \in ReadMarks /\ \A r \in Rooms : w[r] # 0 => RoomOf[w[r]] = r
Savers == [busy : BOOLEAN, payload : ReadMarks, raced : BOOLEAN]
MarksInv ==
    /\ saver \in Savers
    /\ WasRead(marks) /\ WasRead(disk) /\ WasRead(saver.payload)
-----------------------------------------------------------------------------
(* Taking a new message keeps the window.                                  *)
LEMMA AcceptKeepsWindow ==
    ASSUME WindowInv, NEW m, IsNew(m),
           order' = Remembered(m), took' = Append(took, m), ever' = ever \cup {m}
    PROVE  WindowInv'
<1> USE CapacityAssumption
<1> DEFINE longer == Append(order, m)
           half == Capacity \div 2
<1>1. /\ order \in Seq(ever') /\ took \in Seq(ever') /\ m \in ever'
      /\ Len(order) \in Nat /\ Len(took) \in Nat
  BY DEF WindowInv, IsWindow
<1>2. /\ longer \in Seq(ever') /\ Len(longer) = Len(order) + 1
      /\ \A i \in 1..Len(order) : longer[i] = order[i]
      /\ longer[Len(order) + 1] = m
  BY <1>1
<1>3. /\ took' \in Seq(ever') /\ Len(took') = Len(took) + 1
      /\ \A i \in 1..Len(took) : took'[i] = took[i]
      /\ took'[Len(took) + 1] = m
  BY <1>1
<1>4. half \in Nat /\ half >= 1 /\ half + half <= Capacity
  OBVIOUS
<1>5. /\ Len(order) <= Len(took) /\ Len(order) <= Capacity
      /\ Len(order) = Len(took) \/ Len(order) > half
      /\ \A i \in 1..Len(order) : order[i] = took[Len(took) - Len(order) + i]
  BY DEF WindowInv, IsWindow
<1> HIDE DEF half, longer
<1>6. \A i \in 1..Len(longer) : longer[i] = took'[Len(took') - Len(longer) + i]
  <2> SUFFICES ASSUME NEW i \in 1..Len(longer)
               PROVE  longer[i] = took'[Len(took') - Len(longer) + i]
    OBVIOUS
  <2>1. CASE i = Len(order) + 1
    BY <1>1, <1>2, <1>3, <2>1
  <2>2. CASE i # Len(order) + 1
    <3>1. i \in 1..Len(order)
      BY <1>1, <1>2, <2>2
    <3>2. /\ Len(took) - Len(order) + i \in 1..Len(took)
          /\ Len(took') - Len(longer) + i = Len(took) - Len(order) + i
      BY <1>1, <1>2, <1>3, <1>5, <3>1
    <3> QED BY <1>2, <1>3, <1>5, <3>1, <3>2
  <2> QED BY <2>1, <2>2
<1>7. IsWindow(order, took)'
  <2>1. CASE Len(longer) > Capacity
    <3>1. order' = SubSeq(longer, half + 1, Len(longer))
      BY <2>1 DEF Remembered, longer, half
    <3>2. Len(order') = Len(longer) - half
          /\ \A i \in 1..Len(order') : order'[i] = longer[half + i]
      BY <1>1, <1>2, <1>4, <2>1, <3>1
    <3>3. order' \in Seq(ever')
      BY <1>1, <1>2, <1>4, <2>1, <3>1
    <3>4. /\ Len(order') <= Len(took') /\ Len(order') <= Capacity
          /\ Len(order') > half
      BY <1>1, <1>2, <1>3, <1>4, <1>5, <2>1, <3>2
    <3>5. \A i \in 1..Len(order') : order'[i] = took'[Len(took') - Len(order') + i]
      <4> SUFFICES ASSUME NEW i \in 1..Len(order')
                   PROVE  order'[i] = took'[Len(took') - Len(order') + i]
        OBVIOUS
      <4>1. /\ half + i \in 1..Len(longer)
            /\ Len(took') - Len(longer) + (half + i) = Len(took') - Len(order') + i
        BY <1>1, <1>2, <1>3, <1>4, <3>2
      <4> QED BY <1>6, <3>2, <4>1
    <3> QED BY <1>3, <3>3, <3>4, <3>5 DEF IsWindow, half
  <2>2. CASE ~(Len(longer) > Capacity)
    <3>1. order' = longer
      BY <2>2 DEF Remembered, longer
    <3>2. Len(longer) <= Capacity /\ Len(longer) <= Len(took')
      BY <1>1, <1>2, <1>3, <1>5, <2>2
    <3>3. Len(longer) = Len(took') \/ Len(longer) > half
      BY <1>1, <1>2, <1>3, <1>4, <1>5
    <3> QED BY <1>2, <1>3, <1>6, <3>1, <3>2, <3>3 DEF IsWindow, half
  <2> QED BY <2>1, <2>2
<1>8. NoEarlyRepeat'
  <2> SUFFICES ASSUME NEW i \in DOMAIN took', NEW j \in DOMAIN took',
                      i < j, took'[i] = took'[j]
               PROVE  j - i > half
    BY DEF NoEarlyRepeat, half
  <2>1. i \in 1..(Len(took) + 1) /\ j \in 1..(Len(took) + 1)
    BY <1>3
  <2>2. CASE j # Len(took) + 1
    <3>1. i \in 1..Len(took) /\ j \in 1..Len(took)
      BY <1>1, <2>1, <2>2
    <3>2. i \in DOMAIN took /\ j \in DOMAIN took /\ took[i] = took[j]
      BY <1>1, <1>3, <3>1
    <3> QED BY <3>2 DEF WindowInv, NoEarlyRepeat, half
  <2>3. CASE j = Len(took) + 1
    <3>1. i \in 1..Len(took) /\ took[i] = m
      BY <1>1, <1>3, <2>1, <2>3
    <3>2. ~(i > Len(took) - Len(order))
      <4> SUFFICES ASSUME i > Len(took) - Len(order) PROVE FALSE
        OBVIOUS
      <4> DEFINE k == i - (Len(took) - Len(order))
      <4>1. k \in 1..Len(order) /\ Len(took) - Len(order) + k = i
        BY <1>1, <1>5, <3>1
      <4>2. order[k] = m
        BY <1>5, <3>1, <4>1
      <4>3. k \in DOMAIN order
        BY <1>1, <4>1
      <4> QED BY <4>2, <4>3 DEF IsNew, Elements
    <3>3. Len(order) > half
      BY <1>1, <1>5, <3>1, <3>2
    <3> QED BY <1>1, <1>4, <2>3, <3>1, <3>2, <3>3
  <2> QED BY <2>2, <2>3
<1> QED BY <1>7, <1>8 DEF WindowInv
-----------------------------------------------------------------------------
LEMMA StartsInWindow == Init => WindowInv
<1> SUFFICES ASSUME Init PROVE WindowInv
  OBVIOUS
<1>1. order = <<>> /\ took = <<>>
  BY DEF Init
<1>2. IsWindow(<<>>, <<>>)
  BY CapacityAssumption DEF IsWindow
<1> QED BY <1>1, <1>2 DEF WindowInv, NoEarlyRepeat

LEMMA MessageKeepsWindow ==
    ASSUME WindowInv, NEW m, OnMessage(m)
    PROVE  WindowInv'
<1>1. CASE IsNew(m)
  BY <1>1, AcceptKeepsWindow DEF OnMessage
<1>2. CASE ~IsNew(m)
  BY <1>2 DEF OnMessage, reading, WindowInv, IsWindow, NoEarlyRepeat
<1> QED BY <1>1, <1>2

LEMMA StepKeepsWindow == WindowInv /\ [Next]_vars => WindowInv'
<1> SUFFICES ASSUME WindowInv, [Next]_vars PROVE WindowInv'
  OBVIOUS
<1>1. ASSUME UNCHANGED <<order, took, ever>> PROVE WindowInv'
  BY <1>1 DEF WindowInv, IsWindow, NoEarlyRepeat
<1>2. CASE UNCHANGED vars
  BY <1>1, <1>2 DEF vars
<1>3. ASSUME NEW m \in Messages, Post(m) PROVE WindowInv'
  BY <1>1, <1>3 DEF Post
<1>4. ASSUME NEW m \in Messages, Deliver(m) PROVE WindowInv'
  BY <1>4, MessageKeepsWindow DEF Deliver
<1>5. ASSUME NEW replayed, Resume(replayed) PROVE WindowInv'
  BY <1>1, <1>5 DEF Resume
<1>6. ASSUME NEW t \in Tasks,
             Connected(t) \/ Wakes(t) \/ ScanRoom(t) \/ ScanFails(t) \/ RecoveryEnds(t)
      PROVE  WindowInv'
  BY <1>1, <1>6 DEF Connected, Wakes, ScanRoom, ScanFails, RecoveryEnds
<1>7. ASSUME NEW t \in Tasks, Replay(t) PROVE WindowInv'
  BY <1>7, MessageKeepsWindow DEF Replay
<1>8. CASE Drop \/ SaveBegins \/ SaveLands \/ SaveFails \/ ShutdownSaves
  BY <1>1, <1>8 DEF Drop, SaveBegins, SaveLands, SaveFails, ShutdownSaves, reading
<1>9. CASE Restart
  <2>1. order' = <<>> /\ took' = <<>>
    BY <1>9 DEF Restart
  <2>2. IsWindow(<<>>, <<>>)'
    BY CapacityAssumption DEF IsWindow
  <2> QED BY <2>1, <2>2 DEF WindowInv, NoEarlyRepeat, IsWindow
<1> QED BY <1>2, <1>3, <1>4, <1>5, <1>6, <1>7, <1>8, <1>9 DEF Next

(* One reply per message id, for every capacity of the window: a process   *)
(* takes a message again only after more than half of that many others     *)
(* (InboundDedup.check_and_add in front of on_message).                    *)
THEOREM NoRepeatInWindow == Spec => []NoEarlyRepeat
<1>1. WindowInv => NoEarlyRepeat
  BY DEF WindowInv
<1> QED BY <1>1, StartsInWindow, StepKeepsWindow, PTL DEF Spec
-----------------------------------------------------------------------------
(* Noting a message, and what it was noted beside, stay within what was    *)
(* read once the message counts as read.                                   *)
LEMMA NotingKeepsRead ==
    ASSUME MarksInv, NEW m, ever' = ever \cup {m}
    PROVE  /\ Noted(m) \in ReadMarks'
           /\ \A r \in Rooms : Noted(m)[r] # 0 => RoomOf[Noted(m)[r]] = r
<1> DEFINE raised == [marks EXCEPT ![RoomOf[m]] = m]
<1>1. marks \in ReadMarks /\ \A r \in Rooms : marks[r] # 0 => RoomOf[marks[r]] = r
  BY DEF MarksInv, WasRead
<1>2. marks \in ReadMarks'
  BY <1>1 DEF ReadMarks
<1>3. /\ raised \in ReadMarks'
      /\ \A r \in Rooms : raised[r] # 0 => RoomOf[raised[r]] = r
  BY <1>1, <1>2 DEF ReadMarks
<1> HIDE DEF raised
<1>4. /\ Trimmed(raised) \in ReadMarks'
      /\ \A r \in Rooms : Trimmed(raised)[r] # 0 => RoomOf[Trimmed(raised)[r]] = r
  BY <1>3 DEF Trimmed, ReadMarks
<1> QED BY <1>1, <1>2, <1>4 DEF Noted, raised

LEMMA ReadStaysRead ==
    ASSUME ever \subseteq ever', NEW w, WasRead(w)
    PROVE  w \in ReadMarks' /\ \A r \in Rooms : w[r] # 0 => RoomOf[w[r]] = r
BY DEF WasRead, ReadMarks

LEMMA NothingIsRead == NoMarks \in ReadMarks /\ WasRead(NoMarks)
BY DEF NoMarks, ReadMarks, WasRead

LEMMA MessageKeepsMarks ==
    ASSUME MarksInv, NEW m, OnMessage(m), UNCHANGED <<disk, saver>>
    PROVE  MarksInv'
<1>1. ever \subseteq ever'
  BY DEF OnMessage, reading
<1>2. WasRead(disk)' /\ WasRead(saver.payload)' /\ saver' \in Savers'
  BY <1>1, ReadStaysRead DEF MarksInv, WasRead, Savers
<1>3. CASE IsNew(m)
  <2>1. marks' = Noted(m) /\ ever' = ever \cup {m}
    BY <1>3 DEF OnMessage
  <2> QED BY <1>2, <2>1, NotingKeepsRead DEF MarksInv, WasRead
<1>4. CASE ~IsNew(m)
  BY <1>4 DEF OnMessage, reading, MarksInv, WasRead, Savers, ReadMarks
<1> QED BY <1>3, <1>4

LEMMA SavingKeepsMarks ==
    ASSUME MarksInv, SaveNow, UNCHANGED <<marks, ever>>
    PROVE  MarksInv'
<1>1. ReadMarks' = ReadMarks /\ Savers' = Savers
  BY DEF ReadMarks, Savers
<1>2. disk' \in {disk, marks, saver.payload, NoMarks}
  BY DEF SaveNow
<1>3. WasRead(disk)' /\ WasRead(marks)'
  BY <1>1, <1>2, NothingIsRead DEF MarksInv, WasRead
<1>4. saver' \in Savers /\ saver'.payload = saver.payload
  BY DEF SaveNow, MarksInv, Savers
<1> QED BY <1>1, <1>3, <1>4 DEF MarksInv, WasRead

LEMMA StartsUnread == Init => MarksInv
<1> SUFFICES ASSUME Init PROVE MarksInv
  OBVIOUS
<1>1. marks = NoMarks /\ disk = NoMarks /\ saver = NotSaving
  BY DEF Init
<1>2. NotSaving \in Savers /\ NotSaving.payload = NoMarks
  BY NothingIsRead DEF NotSaving, Savers
<1> QED BY <1>1, <1>2, NothingIsRead DEF MarksInv

LEMMA StepKeepsMarks == MarksInv /\ [Next]_vars => MarksInv'
<1> SUFFICES ASSUME MarksInv, [Next]_vars PROVE MarksInv'
  OBVIOUS
<1>1. ASSUME UNCHANGED <<marks, disk, saver, ever>> PROVE MarksInv'
  BY <1>1 DEF MarksInv, WasRead, ReadMarks, Savers
<1>2. CASE UNCHANGED vars
  BY <1>1, <1>2 DEF vars
<1>3. ASSUME NEW m \in Messages, Post(m) PROVE MarksInv'
  BY <1>1, <1>3 DEF Post
<1>4. ASSUME NEW m \in Messages, Deliver(m) PROVE MarksInv'
  BY <1>4, MessageKeepsMarks DEF Deliver
<1>5. ASSUME NEW replayed, Resume(replayed) PROVE MarksInv'
  BY <1>1, <1>5 DEF Resume
<1>6. ASSUME NEW t \in Tasks, Connected(t) \/ Wakes(t) \/ ScanRoom(t) \/ ScanFails(t)
      PROVE  MarksInv'
  BY <1>1, <1>6 DEF Connected, Wakes, ScanRoom, ScanFails
<1>7. ASSUME NEW t \in Tasks, Replay(t) PROVE MarksInv'
  BY <1>7, MessageKeepsMarks DEF Replay
<1>8. ASSUME NEW t \in Tasks, RecoveryEnds(t) PROVE MarksInv'
  BY <1>8, SavingKeepsMarks DEF RecoveryEnds
<1>9. CASE Drop
  BY <1>1, <1>9 DEF Drop
<1>10. ASSUME UNCHANGED <<marks, ever>>, saver' \in Savers,
              disk' \in {disk, saver.payload, NoMarks},
              saver'.payload \in {marks, saver.payload, NoMarks}
       PROVE  MarksInv'
  <2>1. ReadMarks' = ReadMarks /\ Savers' = Savers
    BY <1>10 DEF ReadMarks, Savers
  <2> QED BY <1>10, <2>1, NothingIsRead DEF MarksInv, WasRead
<1>11. NotSaving \in Savers /\ NotSaving.payload = NoMarks
  BY NothingIsRead DEF NotSaving, Savers
<1>12. CASE SaveBegins
  <2>1. saver' \in Savers /\ saver'.payload = marks
    BY <1>12 DEF SaveBegins, Savers, MarksInv, WasRead
  <2> QED BY <1>10, <1>12, <2>1 DEF SaveBegins, reading
<1>13. CASE SaveLands
  BY <1>10, <1>11, <1>13 DEF SaveLands
<1>14. CASE SaveFails
  BY <1>10, <1>11, <1>14 DEF SaveFails, reading
<1>15. CASE ShutdownSaves
  BY <1>15, SavingKeepsMarks DEF ShutdownSaves
<1>16. CASE Restart
  <2>1. /\ ever' = ever /\ disk' = disk /\ marks' = disk /\ saver' = NotSaving
    BY <1>16 DEF Restart
  <2>2. ReadMarks' = ReadMarks /\ Savers' = Savers
    BY <2>1 DEF ReadMarks, Savers
  <2> QED BY <1>11, <2>1, <2>2, NothingIsRead DEF MarksInv, WasRead
<1> QED BY <1>2, <1>3, <1>4, <1>5, <1>6, <1>7, <1>8, <1>9, <1>12, <1>13,
           <1>14, <1>15, <1>16 DEF Next

(* No watermark, in memory, in the payload of a save or in the file, ever  *)
(* claims a message that was not read, whatever the races of the two       *)
(* savers leave in the file (Watermarks.note, save and load).              *)
THEOREM MarksNeverAhead == Spec => []NeverAhead
<1>1. MarksInv => NeverAhead
  BY DEF MarksInv, WasRead, ReadMarks, NeverAhead
<1> QED BY <1>1, StartsUnread, StepKeepsMarks, PTL DEF Spec
-----------------------------------------------------------------------------
(* In a finite set whose members have different keys, the number of those  *)
(* below a member grows with its key and takes every value there is.       *)
LEMMA Ranks ==
    ASSUME NEW S, IsFiniteSet(S), NEW key \in [S -> Int],
           \A x, y \in S : x # y => key[x] # key[y],
           NEW below, below = [x \in S |-> { y \in S : key[y] < key[x] }],
           NEW rank, rank = [x \in S |-> Cardinality(below[x])]
    PROVE  /\ \A x, y \in S : key[x] < key[y] => rank[x] < rank[y]
           /\ rank \in [S -> 0..(Cardinality(S) - 1)]
           /\ \A i \in 0..(Cardinality(S) - 1) : \E x \in S : rank[x] = i
<1> DEFINE n == Cardinality(S)
<1>1. n \in Nat
  BY FS_CardinalityType
<1> HIDE DEF n
<1>2. \A x \in S : IsFiniteSet(below[x]) /\ rank[x] \in 0..(n - 1)
  <2> SUFFICES ASSUME NEW x \in S
               PROVE  IsFiniteSet(below[x]) /\ rank[x] \in 0..(n - 1)
    OBVIOUS
  <2>1. below[x] \in SUBSET (S \ {x})
    OBVIOUS
  <2>2. IsFiniteSet(S \ {x}) /\ Cardinality(S \ {x}) = n - 1
    BY FS_RemoveElement DEF n
  <2>3. IsFiniteSet(below[x]) /\ Cardinality(below[x]) <= n - 1
    BY <2>1, <2>2, FS_Subset
  <2>4. Cardinality(below[x]) \in Nat
    BY <2>3, FS_CardinalityType
  <2> QED BY <1>1, <2>3, <2>4
<1>3. rank \in [S -> 0..(n - 1)]
  BY <1>2
<1>4. ASSUME NEW x \in S, NEW y \in S, key[x] < key[y] PROVE rank[x] < rank[y]
  <2>1. below[x] \in SUBSET below[y] /\ x \in below[y] /\ x \notin below[x]
    BY <1>4
  <2>2. IsFiniteSet(below[x]) /\ IsFiniteSet(below[y])
    BY <1>2
  <2>3. rank[x] = Cardinality(below[x]) /\ rank[y] = Cardinality(below[y])
    OBVIOUS
  <2>4. rank[x] <= rank[y] /\ rank[x] # rank[y]
    BY <2>1, <2>2, <2>3, FS_Subset
  <2> QED BY <1>1, <1>3, <2>4
<1>5. ASSUME NEW x \in S, NEW y \in S, rank[x] = rank[y] PROVE x = y
  <2>1. ~(key[x] < key[y]) /\ ~(key[y] < key[x])
    <3>1. rank[x] \in Int /\ rank[y] \in Int
      BY <1>1, <1>3
    <3>2. ~(rank[x] < rank[y]) /\ ~(rank[y] < rank[x])
      BY <1>5, <3>1
    <3> QED BY <1>4, <3>2
  <2> QED BY <2>1
<1>6. rank \in Injection(S, 0..(n - 1))
  BY <1>3, <1>5 DEF Injection, IsInjective
<1>7. IsFiniteSet(0..(n - 1)) /\ Cardinality(0..(n - 1)) = n
  BY <1>1, FS_Interval
<1>8. rank \in Surjection(S, 0..(n - 1))
  BY <1>6, <1>7, FS_Injection DEF n
<1> QED BY <1>3, <1>4, <1>8 DEF Surjection, n

(* missed.reverse(): all of the messages, the oldest first.                *)
LEMMA OldestFirstSorts ==
    ASSUME NEW ids \in SUBSET Messages, IsFiniteSet(ids)
    PROVE  /\ OldestFirst(ids) \in Seq(ids)
           /\ \A m \in ids : \E i \in DOMAIN OldestFirst(ids) : OldestFirst(ids)[i] = m
           /\ \A i, j \in DOMAIN OldestFirst(ids) :
                 OldestFirst(ids)[i] < OldestFirst(ids)[j] => i < j
<1> DEFINE key == [m \in ids |-> m]
           below == [m \in ids |-> { n \in ids : key[n] < key[m] }]
           rank == [m \in ids |-> Cardinality(below[m])]
           Before(m) == Cardinality({ k \in ids : k < m })
           n == Cardinality(ids)
           s == OldestFirst(ids)
<1>1. key \in [ids -> Int] /\ \A x, y \in ids : x # y => key[x] # key[y]
  BY IdsAssumption DEF Messages
<1>2. \A m \in ids : rank[m] = Before(m)
  <2>1. \A m \in ids : below[m] = { k \in ids : k < m }
    OBVIOUS
  <2> QED BY <2>1
<1>3. /\ \A x, y \in ids : x < y => rank[x] < rank[y]
      /\ rank \in [ids -> 0..(n - 1)]
      /\ \A i \in 0..(n - 1) : \E x \in ids : rank[x] = i
  <2>1. \A x \in ids : key[x] = x
    OBVIOUS
  <2> HIDE DEF key, below, rank
  <2>2. /\ below = [x \in ids |-> { y \in ids : key[y] < key[x] }]
        /\ rank = [x \in ids |-> Cardinality(below[x])]
    BY DEF below, rank
  <2>3. /\ \A x, y \in ids : key[x] < key[y] => rank[x] < rank[y]
        /\ rank \in [ids -> 0..(Cardinality(ids) - 1)]
        /\ \A i \in 0..(Cardinality(ids) - 1) : \E x \in ids : rank[x] = i
    BY <1>1, <2>2, Ranks
  <2> QED BY <2>1, <2>3
<1>4. n \in Nat
  BY FS_CardinalityType
<1>5. s = [i \in 1..n |-> CHOOSE m \in ids : Before(m) = i - 1]
  BY DEF OldestFirst
<1> HIDE DEF s, n, key, below, rank, Before
<1>6. \A i \in 1..n : s[i] \in ids /\ rank[s[i]] = i - 1
  <2>1. \A i \in 1..n : i - 1 \in 0..(n - 1)
    BY <1>4
  <2>2. \A i \in 1..n : \E m \in ids : Before(m) = i - 1
    BY <1>2, <1>3, <2>1
  <2>3. \A i \in 1..n : s[i] \in ids /\ Before(s[i]) = i - 1
    BY <1>5, <2>2
  <2> QED BY <1>2, <2>3
<1>7. DOMAIN s = 1..n /\ s \in [1..n -> ids]
  BY <1>5, <1>6
<1>8. s \in Seq(ids)
  BY <1>4, <1>7
<1>9. ASSUME NEW m \in ids PROVE \E i \in DOMAIN s : s[i] = m
  <2> DEFINE i == rank[m] + 1
  <2>1. i \in 1..n /\ rank[m] \in Nat
    BY <1>3, <1>4
  <2>2. s[i] \in ids /\ rank[s[i]] = rank[m]
    BY <1>6, <2>1
  <2>3. s[i] = m
    <3>1. m \in Nat /\ s[i] \in Nat
      BY <2>2, IdsAssumption DEF Messages
    <3>2. ~(m < s[i]) /\ ~(s[i] < m)
      BY <1>3, <2>1, <2>2
    <3> QED BY <3>1, <3>2
  <2> QED BY <1>7, <2>1, <2>3
<1>10. ASSUME NEW i \in DOMAIN s, NEW j \in DOMAIN s, s[i] < s[j] PROVE i < j
  <2>1. i \in 1..n /\ j \in 1..n /\ rank[s[i]] < rank[s[j]]
    BY <1>3, <1>6, <1>7, <1>10
  <2> QED BY <1>4, <1>6, <2>1
<1> QED BY <1>8, <1>9, <1>10 DEF s
-----------------------------------------------------------------------------
(* Every room has its own messages, so every watermark is of one room and  *)
(* the list of a recovery has each marked room with its watermark.         *)
LEMMA HottestAreMarked ==
    ASSUME posted \subseteq Messages, IsFiniteSet(posted), ever \subseteq posted,
           WasRead(marks)
    PROVE  /\ HottestFirst(marks) \in Seq([room : Rooms, last : posted])
           /\ \A i \in DOMAIN HottestFirst(marks) :
                 HottestFirst(marks)[i].last = marks[HottestFirst(marks)[i].room]
<1> DEFINE S == Marked(marks)
           key == [r \in S |-> 0 - marks[r]]
           below == [r \in S |-> { x \in S : key[x] < key[r] }]
           rank == [r \in S |-> Cardinality(below[r])]
           n == Cardinality(S)
           Place(r) == Cardinality(Hotter(marks, r))
           At(i) == CHOOSE r \in S : Place(r) = i - 1
           s == HottestFirst(marks)
<1>1. /\ posted \subseteq Nat /\ 0 \notin posted
      /\ \A r \in S : r \in Rooms /\ marks[r] \in posted /\ marks[r] \in Int
  BY IdsAssumption DEF Messages, Marked, WasRead, ReadMarks
<1>1a. \A r \in S : RoomOf[marks[r]] = r
  BY IdsAssumption DEF Messages, Marked, WasRead, ReadMarks
<1> HIDE DEF S
<1>2. IsFiniteSet(S)
  <2> DEFINE f == [r \in S |-> marks[r]]
  <2>1. f \in Injection(S, posted)
    <3>1. f \in [S -> posted]
      BY <1>1
    <3>2. \A x, y \in S : f[x] = f[y] => x = y
      BY <1>1a
    <3> HIDE DEF f
    <3> QED BY <3>1, <3>2 DEF Injection, IsInjective
  <2> HIDE DEF f
  <2> QED BY <2>1, FS_Injection
<1>3. key \in [S -> Int] /\ \A x, y \in S : x # y => key[x] # key[y]
  <2>1. \A x \in S : marks[x] \in Nat
    BY <1>1
  <2>2. \A x, y \in S : x # y => marks[x] # marks[y]
    BY <1>1a
  <2> QED BY <2>1, <2>2
<1>4. n \in Nat
  BY <1>2, FS_CardinalityType
<1>5. \A r \in S : rank[r] = Place(r)
  <2> SUFFICES ASSUME NEW r \in S PROVE rank[r] = Place(r)
    OBVIOUS
  <2>1. below[r] = Hotter(marks, r)
    <3>1. \A x \in S : key[x] < key[r] <=> marks[x] > marks[r]
      <4>1. \A x \in S : key[x] = 0 - marks[x]
        OBVIOUS
      <4> HIDE DEF key
      <4>2. \A x \in S : marks[x] \in Int
        BY <1>1
      <4> QED BY <4>1, <4>2
    <3>2. below[r] = { x \in S : marks[x] > marks[r] }
      <4> HIDE DEF key
      <4> QED BY <3>1
    <3> QED BY <3>2 DEF Hotter, S
  <2> QED BY <2>1
<1>6. \A i \in 0..(n - 1) : \E r \in S : rank[r] = i
  <2> HIDE DEF key, below, rank
  <2>1. /\ below = [x \in S |-> { y \in S : key[y] < key[x] }]
        /\ rank = [x \in S |-> Cardinality(below[x])]
    BY DEF below, rank
  <2> QED BY <1>2, <1>3, <2>1, Ranks
<1>7. s = [i \in 1..n |-> [room |-> At(i), last |-> marks[At(i)]]]
  BY DEF HottestFirst, S
<1> HIDE DEF s, n, key, below, rank, Place
<1>8. \A i \in 1..n : At(i) \in S
  <2>1. \A i \in 1..n : i - 1 \in 0..(n - 1)
    BY <1>4
  <2>2. \A i \in 1..n : \E r \in S : Place(r) = i - 1
    BY <1>5, <1>6, <2>1
  <2> QED BY <2>2
<1> HIDE DEF At
<1>9. \A i \in 1..n : [room |-> At(i), last |-> marks[At(i)]] \in [room : Rooms, last : posted]
  BY <1>1, <1>8
<1>10. DOMAIN s = 1..n /\ s \in [1..n -> [room : Rooms, last : posted]]
  BY <1>7, <1>9
<1>11. s \in Seq([room : Rooms, last : posted])
  <2> DEFINE Entries == [room : Rooms, last : posted]
  <2>1. s \in [1..n -> Entries]
    BY <1>10
  <2> HIDE DEF Entries
  <2>2. s \in Seq(Entries)
    BY <1>4, <2>1
  <2> QED BY <2>2 DEF Entries
<1>12. \A i \in 1..n : s[i].last = marks[s[i].room]
  BY <1>7
<1> QED BY <1>10, <1>11, <1>12 DEF s
-----------------------------------------------------------------------------
(* The variables that the window and the watermarks do not determine.      *)
Rest ==
    /\ posted \subseteq Messages /\ IsFiniteSet(posted) /\ wire \subseteq posted
    /\ link \in {"up", "down", "replaying", "off"}
    /\ ever \cup gap \cup excused \subseteq posted /\ overtaken \subseteq gap
    /\ dirty \in BOOLEAN
    /\ task \in [Tasks -> TaskStates]
    /\ outages \in 0..MaxOutages /\ crashes \in 0..MaxCrashes

LEMMA RestIsTyped == Rest /\ WindowInv /\ MarksInv => TypeOK
<1> SUFFICES ASSUME Rest, WindowInv, MarksInv PROVE TypeOK
  OBVIOUS
<1>1. ever \subseteq Messages
  BY DEF Rest
<1>2. order \in Seq(Messages) /\ took \in Seq(Messages)
  BY <1>1 DEF WindowInv, IsWindow
<1>3. ReadMarks \subseteq Marks
  BY <1>1 DEF ReadMarks, Marks
<1>4. marks \in Marks /\ disk \in Marks /\ saver \in [busy : BOOLEAN, payload : Marks, raced : BOOLEAN]
  BY <1>3 DEF MarksInv, WasRead, Savers
<1> QED BY <1>2, <1>4 DEF TypeOK, Rest

LEMMA StartsAtRest == Init => Rest
<1> SUFFICES ASSUME Init PROVE Rest
  OBVIOUS
<1>1. NoTask \in TaskStates
  BY DEF NoTask, TaskStates
<1>2. task \in [Tasks -> TaskStates]
  BY <1>1 DEF Init
<1>3. IsFiniteSet({})
  BY FS_EmptySet
<1>4. MaxOutages \in Nat /\ MaxCrashes \in Nat
  BY BoundsAssumption
<1>5. /\ posted = {} /\ wire = {} /\ link = "off" /\ ever = {} /\ gap = {}
      /\ excused = {} /\ overtaken = {} /\ dirty = FALSE /\ outages = 0 /\ crashes = 0
  BY DEF Init
<1>6. outages \in 0..MaxOutages /\ crashes \in 0..MaxCrashes
  BY <1>4, <1>5
<1> QED BY <1>2, <1>3, <1>5, <1>6 DEF Rest

LEMMA MessageKeepsRest ==
    ASSUME Rest, NEW m \in posted, OnMessage(m), UNCHANGED <<posted>>
    PROVE  dirty' \in BOOLEAN /\ ever' \subseteq posted'
BY DEF OnMessage, reading, Rest

LEMMA StepKeepsRest == Rest /\ MarksInv /\ [Next]_vars => Rest'
<1> SUFFICES ASSUME Rest, MarksInv, [Next]_vars PROVE Rest'
  OBVIOUS
<1> USE DEF Rest
<1>1. CASE UNCHANGED vars
  BY <1>1 DEF vars, TaskStates
<1>2. ASSUME NEW m \in Messages, Post(m) PROVE Rest'
  <2>1. IsFiniteSet(posted') /\ posted \subseteq posted' /\ posted' \subseteq Messages
    BY <1>2, FS_AddElement DEF Post
  <2>2. TaskStates \subseteq TaskStates'
    <3>1. Seq(posted) \subseteq Seq(posted')
      BY <2>1
    <3>2. [room : Rooms, last : posted] \subseteq [room : Rooms, last : posted']
      BY <2>1
    <3>3. Seq([room : Rooms, last : posted]) \subseteq Seq([room : Rooms, last : posted'])
      <4> DEFINE before == [room : Rooms, last : posted]
                 after == [room : Rooms, last : posted']
      <4>1. before \subseteq after
        BY <3>2
      <4> HIDE DEF before, after
      <4>2. Seq(before) \subseteq Seq(after)
        BY <4>1
      <4> QED BY <4>2 DEF before, after
    <3> QED BY <3>1, <3>3 DEF TaskStates
  <2>3. wire' \subseteq posted' /\ gap' \subseteq posted' /\ gap \subseteq gap'
    BY <1>2, <2>1 DEF Post, Owed
  <2>4. task' \in [Tasks -> TaskStates']
    BY <1>2, <2>2 DEF Post
  <2> QED BY <1>2, <2>1, <2>3, <2>4 DEF Post, history
<1>3. ASSUME UNCHANGED posted PROVE TaskStates' = TaskStates
  BY <1>3 DEF TaskStates
<1>4. ASSUME NEW m \in Messages, Deliver(m) PROVE Rest'
  <2>1. dirty' \in BOOLEAN /\ ever' \subseteq posted'
    BY <1>4, MessageKeepsRest DEF Deliver
  <2>2. overtaken' \subseteq gap'
    BY <1>4 DEF Deliver, Unread
  <2> QED BY <1>3, <1>4, <2>1, <2>2 DEF Deliver
<1>5. ASSUME NEW replayed \in SUBSET posted, Resume(replayed) PROVE Rest'
  BY <1>3, <1>5 DEF Resume, history
<1>6. ASSUME NEW t \in Tasks, Connected(t) PROVE Rest'
  <2>1. [task[t] EXCEPT !.at = "settle"] \in TaskStates
    BY DEF TaskStates
  <2>2. task' \in [Tasks -> TaskStates]
    BY <1>6, <2>1 DEF Connected, Spawn
  <2> QED BY <1>3, <1>6, <2>2 DEF Connected, history
<1>7. ASSUME NEW t \in Tasks, Wakes(t) PROVE Rest'
  <2> DEFINE all == HottestFirst(marks)
             count == IF Len(all) < ScanRooms THEN Len(all) ELSE ScanRooms
             listed == SubSeq(all, 1, count)
  <2>1. all \in Seq([room : Rooms, last : posted])
    BY HottestAreMarked DEF MarksInv
  <2>2. listed \in Seq([room : Rooms, last : posted])
    <3> DEFINE Entries == [room : Rooms, last : posted]
    <3>1. all \in Seq(Entries) /\ count \in 0..Len(all)
      BY <2>1, ScanAssumption
    <3> HIDE DEF Entries, all, count
    <3>2. SubSeq(all, 1, count) \in Seq(Entries)
      BY <3>1
    <3> QED BY <3>2 DEF Entries
  <2>3. task' = [task EXCEPT ![t] = [at |-> "scan", rooms |-> listed, missed |-> <<>>]]
    BY <1>7 DEF Wakes
  <2>4. [at |-> "scan", rooms |-> listed, missed |-> <<>>] \in TaskStates
    <3> HIDE DEF listed
    <3> QED BY <2>2 DEF TaskStates
  <2>5. excused' \subseteq posted
    BY <1>7 DEF Wakes, Unread
  <2> HIDE DEF listed
  <2>6. task' \in [Tasks -> TaskStates]
    BY <2>3, <2>4
  <2> QED BY <1>3, <1>7, <2>5, <2>6 DEF Wakes
<1>8. ASSUME NEW t \in Tasks, ScanRoom(t) PROVE Rest'
  <2> DEFINE next == Head(task[t].rooms)
             missed == History(next.room, next.last)
  <2>1. missed \in SUBSET posted /\ IsFiniteSet(missed)
    <3>1. missed \in SUBSET posted
      BY DEF History, Behind, Newest
    <3> QED BY <3>1, FS_Subset
  <2>2. OldestFirst(missed) \in Seq(posted)
    <3> HIDE DEF missed
    <3>1. missed \in SUBSET Messages
      BY <2>1
    <3>2. OldestFirst(missed) \in Seq(missed)
      BY <2>1, <3>1, OldestFirstSorts
    <3> QED BY <2>1, <3>2
  <2>3. task[t].rooms # <<>> /\ task[t].rooms \in Seq([room : Rooms, last : posted])
    BY <1>8 DEF ScanRoom, Scanning, TaskStates
  <2>4. task' = [task EXCEPT ![t].rooms = Tail(@), ![t].missed = OldestFirst(missed)]
    BY <1>8 DEF ScanRoom
  <2>5. excused' \subseteq posted
    BY <1>8 DEF ScanRoom, Behind
  <2> HIDE DEF missed, next
  <2>6. task' \in [Tasks -> TaskStates]
    <3>1. Tail(task[t].rooms) \in Seq([room : Rooms, last : posted])
      BY <2>3
    <3> QED BY <2>2, <2>4, <3>1 DEF TaskStates
  <2> QED BY <1>3, <1>8, <2>5, <2>6 DEF ScanRoom
<1>9. ASSUME NEW t \in Tasks, ScanFails(t) PROVE Rest'
  <2>1. task[t].rooms # <<>> /\ task[t].rooms \in Seq([room : Rooms, last : posted])
    BY <1>9 DEF ScanFails, Scanning, TaskStates
  <2>2. Tail(task[t].rooms) \in Seq([room : Rooms, last : posted])
    BY <2>1
  <2>3. task' \in [Tasks -> TaskStates]
    BY <1>9, <2>2 DEF ScanFails, TaskStates
  <2>4. excused' \subseteq posted
    BY <1>9 DEF ScanFails, Unread
  <2> QED BY <1>3, <1>9, <2>3, <2>4 DEF ScanFails
<1>10. ASSUME NEW t \in Tasks, Replay(t) PROVE Rest'
  <2>1. task[t].missed # <<>> /\ task[t].missed \in Seq(posted)
    BY <1>10 DEF Replay, TaskStates
  <2>2. Tail(task[t].missed) \in Seq(posted) /\ Head(task[t].missed) \in posted
    BY <2>1
  <2>3. task' \in [Tasks -> TaskStates]
    BY <1>10, <2>2 DEF Replay, TaskStates
  <2>4. dirty' \in BOOLEAN /\ ever' \subseteq posted'
    BY <1>10, <2>2, MessageKeepsRest DEF Replay, discord
  <2> QED BY <1>3, <1>10, <2>3, <2>4 DEF Replay, discord, history
<1>11. ASSUME NEW t \in Tasks, RecoveryEnds(t) PROVE Rest'
  <2>1. NoTask \in TaskStates
    BY DEF NoTask, TaskStates
  <2>2. task' \in [Tasks -> TaskStates]
    BY <1>11, <2>1 DEF RecoveryEnds
  <2>3. dirty' \in BOOLEAN
    BY <1>11 DEF RecoveryEnds, SaveNow
  <2> QED BY <1>3, <1>11, <2>2, <2>3 DEF RecoveryEnds, discord, history
<1>12. CASE Drop
  BY <1>3, <1>12, BoundsAssumption DEF Drop, Owed, history
<1>13. CASE SaveBegins \/ SaveLands \/ SaveFails
  BY <1>3, <1>13 DEF SaveBegins, SaveLands, SaveFails, discord, reading, history
<1>14. CASE ShutdownSaves
  <2>1. dirty' \in BOOLEAN
    BY <1>14 DEF ShutdownSaves, SaveNow
  <2> QED BY <1>3, <1>14, <2>1 DEF ShutdownSaves, discord, history
<1>15. CASE Restart
  <2>1. NoTask \in TaskStates
    BY DEF NoTask, TaskStates
  <2>2. task' \in [Tasks -> TaskStates]
    BY <1>15, <2>1 DEF Restart
  <2>3. MaxCrashes \in Nat /\ crashes < MaxCrashes /\ crashes' = crashes + 1
    BY <1>15, BoundsAssumption DEF Restart
  <2>4. crashes' \in 0..MaxCrashes
    BY <2>3
  <2> QED BY <1>3, <1>15, <2>2, <2>4 DEF Restart, Owed, history
<1> QED BY <1>1, <1>2, <1>4, <1>5, <1>6, <1>7, <1>8, <1>9, <1>10, <1>11,
           <1>12, <1>13, <1>14, <1>15 DEF Next
-----------------------------------------------------------------------------
(* The messages that a recovery has to find: dropped ones, and those a new *)
(* outage would drop now, that nothing has read, overtaken or excused.     *)
AtRisk == (gap \cup IF link = "up" THEN wire ELSE {}) \ (ever \cup overtaken \cup excused)

(* Nothing that a recovery goes by has passed such a message: not a        *)
(* watermark, not a list of rooms, and not the messages fetched so far,    *)
(* where it stands before every later one of its room.                     *)
ListedBefore(s, m) == \A i \in DOMAIN s : s[i].room = RoomOf[m] => s[i].last < m
InTurn(s, m) ==
    \A i \in DOMAIN s : RoomOf[s[i]] = RoomOf[m] /\ s[i] > m
                           => \E j \in DOMAIN s : j < i /\ s[j] = m
NotPassed(m) ==
    /\ marks[RoomOf[m]] < m /\ disk[RoomOf[m]] < m /\ saver.payload[RoomOf[m]] < m
    /\ \A t \in Tasks : ListedBefore(task[t].rooms, m) /\ InTurn(task[t].missed, m)

(* A task that has still to look where the message is.                     *)
LooksFor(t, m) ==
    \/ task[t].at = "settle"
    \/ task[t].at = "scan" /\ m \in Elements(task[t].missed)
    \/ task[t].at = "scan" /\ \E i \in DOMAIN task[t].rooms : task[t].rooms[i].room = RoomOf[m]

PostedInOrder == \A n \in posted, k \in Messages : k < n => k \in posted

GapInv ==
    /\ PostedInOrder
    /\ link \in {"down", "off"} => wire = {}
    /\ \A m \in AtRisk : NotPassed(m)
    /\ link = "up" => \A m \in AtRisk \cap gap : \E t \in Tasks : LooksFor(t, m)

IInv == Rest /\ WindowInv /\ MarksInv /\ GapInv
-----------------------------------------------------------------------------
LEMMA MessagesAreNumbers == \A m \in Messages : m \in Nat /\ m # 0 /\ RoomOf[m] \in Rooms
BY IdsAssumption, RoomsAssumption DEF Messages

LEMMA TailKeepsListed ==
    ASSUME NEW E, NEW s \in Seq(E), s # <<>>, NEW m, ListedBefore(s, m)
    PROVE  ListedBefore(Tail(s), m)
<1>1. \A i \in DOMAIN Tail(s) : i + 1 \in DOMAIN s /\ Tail(s)[i] = s[i + 1]
  OBVIOUS
<1> QED BY <1>1 DEF ListedBefore

LEMMA TailKeepsTurn ==
    ASSUME NEW s \in Seq(posted), s # <<>>, NEW m, Head(s) # m, InTurn(s, m)
    PROVE  InTurn(Tail(s), m)
<1>1. \A i \in DOMAIN Tail(s) : i \in Nat /\ i + 1 \in DOMAIN s /\ Tail(s)[i] = s[i + 1]
  OBVIOUS
<1>2. \A j \in DOMAIN s : j \in Nat /\ (j # 1 => j - 1 \in DOMAIN Tail(s) /\ Tail(s)[j - 1] = s[j])
  OBVIOUS
<1>3. Head(s) = s[1]
  OBVIOUS
<1> SUFFICES ASSUME NEW i \in DOMAIN Tail(s), RoomOf[Tail(s)[i]] = RoomOf[m], Tail(s)[i] > m
             PROVE  \E j \in DOMAIN Tail(s) : j < i /\ Tail(s)[j] = m
  BY DEF InTurn
<1>4. PICK j \in DOMAIN s : j < i + 1 /\ s[j] = m
  BY <1>1 DEF InTurn
<1>5. j # 1
  BY <1>3, <1>4
<1>6. j - 1 \in DOMAIN Tail(s) /\ Tail(s)[j - 1] = m /\ j - 1 < i
  BY <1>1, <1>2, <1>4, <1>5
<1> QED BY <1>6

LEMMA TailKeepsOthers ==
    ASSUME NEW s \in Seq(posted), s # <<>>, NEW m \in Elements(s), Head(s) # m
    PROVE  m \in Elements(Tail(s))
<1>1. PICK j \in DOMAIN s : s[j] = m
  BY DEF Elements
<1>2. j # 1 /\ j - 1 \in DOMAIN Tail(s) /\ Tail(s)[j - 1] = m
  BY <1>1
<1> QED BY <1>2 DEF Elements

(* Noting a message passes none that is not older in the same room.        *)
LEMMA NotingPassesNone ==
    ASSUME MarksInv, NEW k \in Messages, NEW m \in Messages,
           RoomOf[k] = RoomOf[m] => k < m, marks[RoomOf[m]] < m
    PROVE  Noted(k)[RoomOf[m]] < m
<1> DEFINE raised == [marks EXCEPT ![RoomOf[k]] = k]
<1>1. RoomOf[m] \in Rooms /\ RoomOf[k] \in Rooms /\ m \in Nat /\ m > 0 /\ marks \in ReadMarks
  BY MessagesAreNumbers DEF MarksInv, WasRead
<1>2. raised[RoomOf[m]] < m /\ DOMAIN raised = Rooms
  BY <1>1 DEF ReadMarks
<1> HIDE DEF raised
<1>3. Trimmed(raised)[RoomOf[m]] \in {0, raised[RoomOf[m]]}
  BY <1>1, <1>2 DEF Trimmed
<1>4. Trimmed(raised)[RoomOf[m]] < m
  BY <1>1, <1>2, <1>3
<1> QED BY <1>4 DEF Noted, raised

(* What is posted last is passed by nothing.                               *)
LEMMA LatestNotPassed ==
    ASSUME Rest, MarksInv, PostedInOrder, NEW m \in Messages, m \notin posted
    PROVE  NotPassed(m)
<1>1. \A n \in posted : n < m
  <2> SUFFICES ASSUME NEW n \in posted PROVE n < m
    OBVIOUS
  <2>1. n \in Messages /\ n # m
    BY DEF Rest
  <2>2. n \in Nat /\ m \in Nat
    BY <2>1, MessagesAreNumbers
  <2>3. ~(m < n)
    BY DEF PostedInOrder
  <2> QED BY <2>1, <2>2, <2>3
<1>2. m \in Nat /\ m > 0 /\ RoomOf[m] \in Rooms
  BY MessagesAreNumbers
<1>3. \A w : WasRead(w) => w[RoomOf[m]] < m
  <2> SUFFICES ASSUME NEW w, WasRead(w) PROVE w[RoomOf[m]] < m
    OBVIOUS
  <2>1. w[RoomOf[m]] \in posted \cup {0}
    BY <1>2 DEF WasRead, ReadMarks, Rest
  <2> QED BY <1>1, <1>2, <2>1
<1>4. ASSUME NEW t \in Tasks
      PROVE  ListedBefore(task[t].rooms, m) /\ InTurn(task[t].missed, m)
  <2>1. task[t].rooms \in Seq([room : Rooms, last : posted]) /\ task[t].missed \in Seq(posted)
    BY DEF Rest, TaskStates
  <2>2. \A i \in DOMAIN task[t].rooms : task[t].rooms[i].last \in posted
    <3>1. \A i \in DOMAIN task[t].rooms : task[t].rooms[i] \in [room : Rooms, last : posted]
      <4> DEFINE Entries == [room : Rooms, last : posted]
      <4>1. task[t].rooms \in Seq(Entries)
        BY <2>1
      <4> HIDE DEF Entries
      <4>2. \A i \in DOMAIN task[t].rooms : task[t].rooms[i] \in Entries
        BY <4>1
      <4> QED BY <4>2 DEF Entries
    <3> QED BY <3>1
  <2>3. \A i \in DOMAIN task[t].missed : task[t].missed[i] \in posted
    BY <2>1
  <2>4. \A n \in posted : n \in Nat
    BY MessagesAreNumbers DEF Rest
  <2>5. \A i \in DOMAIN task[t].missed : ~(task[t].missed[i] > m)
    BY <1>1, <1>2, <2>3, <2>4
  <2> QED BY <1>1, <2>2, <2>5 DEF ListedBefore, InTurn
<1> QED BY <1>3, <1>4 DEF NotPassed, MarksInv
-----------------------------------------------------------------------------
LEMMA StartsWithNoGap == Init => GapInv
<1> SUFFICES ASSUME Init PROVE GapInv
  OBVIOUS
<1>1. posted = {} /\ gap = {} /\ wire = {} /\ AtRisk = {}
  BY DEF Init, AtRisk
<1> QED BY <1>1 DEF GapInv, PostedInOrder

(* Steps that move no message and no recovery: the savers and the shutdown.*)
LEMMA SavingKeepsGap ==
    ASSUME IInv, UNCHANGED <<posted, link, wire, gap, ever, history, marks, task>>,
           disk' \in {disk, marks, saver.payload, NoMarks},
           saver'.payload \in {marks, saver.payload, NoMarks}
    PROVE  GapInv'
<1>1. AtRisk' = AtRisk
  BY DEF AtRisk, history
<1>2. \A m \in AtRisk : m \in Messages
  BY DEF IInv, Rest, AtRisk
<1>3. ASSUME NEW m \in AtRisk PROVE NotPassed(m)'
  <2>1. NotPassed(m) /\ m > 0 /\ RoomOf[m] \in Rooms
    BY <1>2, MessagesAreNumbers DEF IInv, GapInv
  <2>2. NoMarks[RoomOf[m]] < m
    BY <2>1 DEF NoMarks
  <2> QED BY <2>1, <2>2 DEF NotPassed
<1>4. \A m, t : LooksFor(t, m)' <=> LooksFor(t, m)
  BY DEF LooksFor
<1> QED BY <1>1, <1>3, <1>4 DEF IInv, GapInv, PostedInOrder

(* Steps of the gateway and of one recovery leave the watermarks alone.    *)
LEMMA PostKeepsGap ==
    ASSUME IInv, NEW m \in Messages, Post(m)
    PROVE  GapInv'
<1>1. PostedInOrder'
  BY MessagesAreNumbers DEF Post, IInv, GapInv, PostedInOrder
<1>2. link' \in {"down", "off"} => wire' = {}
  BY DEF Post, IInv, GapInv
<1>3. AtRisk' \subseteq AtRisk \cup {m}
  BY DEF AtRisk, Post, Owed, history
<1>4. ASSUME NEW k \in AtRisk' PROVE NotPassed(k)'
  <2>1. NotPassed(k)
    <3>1. m \notin posted
      BY DEF Post
    <3> QED BY <1>3, <3>1, LatestNotPassed DEF IInv, GapInv
  <2> QED BY <2>1 DEF NotPassed, Post
<1>5. ASSUME link' = "up", NEW k \in AtRisk' \cap gap' PROVE \E t \in Tasks : LooksFor(t, k)'
  <2>1. link = "up" /\ gap' = gap /\ k \in gap /\ task' = task
    BY <1>5 DEF Post
  <2>2. k \in AtRisk \cap gap
    BY <2>1, <1>5 DEF AtRisk, Post, history
  <2>3. PICK t \in Tasks : LooksFor(t, k)
    BY <2>1, <2>2 DEF IInv, GapInv
  <2> QED BY <2>1, <2>3 DEF LooksFor
<1> QED BY <1>1, <1>2, <1>4, <1>5 DEF GapInv

(* A message is taken: from the wire, or by a recovery in its turn.        *)
LEMMA TakingPassesNone ==
    ASSUME IInv, NEW k \in posted, OnMessage(k), NEW m \in AtRisk, m \notin ever',
           IsNew(k) /\ RoomOf[k] = RoomOf[m] => ~(k > m)
    PROVE  marks'[RoomOf[m]] < m /\ k # m
<1>1. m \in Messages /\ k \in Messages /\ m \in Nat /\ k \in Nat
  BY MessagesAreNumbers DEF IInv, Rest, AtRisk
<1>2. marks[RoomOf[m]] < m
  BY DEF IInv, GapInv, NotPassed
<1>3. CASE IsNew(k)
  <2>1. k # m
    BY <1>3 DEF OnMessage
  <2>2. RoomOf[k] = RoomOf[m] => k < m
    BY <1>1, <1>3, <2>1
  <2> QED BY <1>1, <1>2, <1>3, <2>1, <2>2, NotingPassesNone DEF OnMessage, IInv
<1>4. CASE ~IsNew(k)
  <2>1. order \in Seq(ever)
    BY DEF IInv, WindowInv, IsWindow
  <2>2. k \in ever
    BY <1>4, <2>1 DEF IsNew, Elements
  <2>3. k # m
    BY <2>2 DEF AtRisk
  <2> QED BY <1>2, <1>4, <2>3 DEF OnMessage, reading
<1> QED BY <1>3, <1>4

LEMMA DeliverKeepsGap ==
    ASSUME IInv, NEW k \in Messages, Deliver(k)
    PROVE  GapInv'
<1>1. k \in posted /\ OnMessage(k) /\ ever \subseteq ever' /\ UNCHANGED <<disk, saver, task, gap>>
  BY DEF Deliver, IInv, Rest, OnMessage, reading
<1>2. AtRisk' \subseteq AtRisk /\ \A m \in AtRisk' : m \notin ever'
  BY <1>1 DEF AtRisk, Deliver
<1>3. ASSUME NEW m \in AtRisk' PROVE NotPassed(m)'
  <2>1. NotPassed(m)
    BY <1>2 DEF IInv, GapInv
  <2>2. IsNew(k) /\ RoomOf[k] = RoomOf[m] => ~(k > m)
    <3> SUFFICES ASSUME IsNew(k), RoomOf[k] = RoomOf[m], k > m PROVE FALSE
      OBVIOUS
    <3>1. m \in Nat /\ k \in Nat
      BY <1>1, <1>2, MessagesAreNumbers DEF AtRisk, IInv, Rest
    <3>2. CASE m \in gap
      <4>1. m \in Unread(RoomOf[k]) /\ m < k
        BY <1>2, <3>1, <3>2 DEF Unread, AtRisk
      <4>2. m \in overtaken'
        BY <4>1 DEF Deliver
      <4> QED BY <4>2 DEF AtRisk
    <3>3. CASE m \notin gap
      <4>1. m \in wire
        BY <1>2, <3>3 DEF AtRisk
      <4> QED BY <3>1, <4>1 DEF Deliver
    <3> QED BY <3>2, <3>3
  <2>3. marks'[RoomOf[m]] < m
    BY <1>1, <1>2, <2>2, TakingPassesNone
  <2> QED BY <1>1, <2>1, <2>3 DEF NotPassed
<1>4. ASSUME link' = "up", NEW m \in AtRisk' \cap gap' PROVE \E t \in Tasks : LooksFor(t, m)'
  <2>1. PICK t \in Tasks : LooksFor(t, m)
    BY <1>1, <1>2, <1>4 DEF Deliver, IInv, GapInv
  <2> QED BY <1>1, <2>1 DEF LooksFor
<1> QED BY <1>3, <1>4 DEF GapInv, PostedInOrder, Deliver, IInv

LEMMA ReplayKeepsGap ==
    ASSUME IInv, NEW t \in Tasks, Replay(t)
    PROVE  GapInv'
<1> DEFINE k == Head(task[t].missed)
<1>1. /\ task[t].missed \in Seq(posted) /\ task[t].missed # <<>> /\ k = task[t].missed[1]
      /\ 1 \in DOMAIN task[t].missed /\ k \in posted
  BY DEF Replay, IInv, Rest, TaskStates
<1>2. OnMessage(k) /\ ever \subseteq ever' /\ UNCHANGED <<disk, saver, gap, posted, link, wire, overtaken, excused>>
  BY DEF Replay, OnMessage, reading, discord, history
<1>3. /\ task' = [task EXCEPT ![t].missed = Tail(@)] /\ task \in [Tasks -> TaskStates]
  BY DEF Replay, IInv, Rest
<1>4. /\ task'[t].missed = Tail(task[t].missed) /\ task'[t].rooms = task[t].rooms
      /\ task'[t].at = task[t].at /\ \A x \in Tasks : x # t => task'[x] = task[x]
  BY <1>3 DEF TaskStates
<1> HIDE DEF k
<1>5. AtRisk' \subseteq AtRisk /\ \A m \in AtRisk' : m \notin ever'
  BY <1>2 DEF AtRisk
<1>6. ASSUME NEW m \in AtRisk' PROVE marks'[RoomOf[m]] < m /\ k # m
  <2>1. InTurn(task[t].missed, m)
    BY <1>5 DEF IInv, GapInv, NotPassed
  <2>2. RoomOf[k] = RoomOf[m] => ~(k > m)
    <3> SUFFICES ASSUME RoomOf[k] = RoomOf[m], k > m PROVE FALSE
      OBVIOUS
    <3>1. PICK j \in DOMAIN task[t].missed : j < 1
      BY <1>1, <2>1 DEF InTurn
    <3> QED BY <1>1, <3>1
  <2> QED BY <1>1, <1>2, <1>5, <2>2, TakingPassesNone
<1>7. ASSUME NEW m \in AtRisk' PROVE NotPassed(m)'
  <2>1. NotPassed(m)
    BY <1>5 DEF IInv, GapInv
  <2>2. ASSUME NEW x \in Tasks
        PROVE  ListedBefore(task'[x].rooms, m) /\ InTurn(task'[x].missed, m)
    <3>1. CASE x # t
      BY <1>4, <2>1, <3>1 DEF NotPassed
    <3>2. CASE x = t
      <4>1. k # m
        BY <1>6
      <4>2. InTurn(Tail(task[t].missed), m)
        BY <1>1, <2>1, <4>1, TailKeepsTurn DEF NotPassed, k
      <4> QED BY <1>4, <2>1, <3>2, <4>2 DEF NotPassed
    <3> QED BY <3>1, <3>2
  <2> QED BY <1>2, <1>6, <2>1, <2>2 DEF NotPassed
<1>8. ASSUME link' = "up", NEW m \in AtRisk' \cap gap' PROVE \E x \in Tasks : LooksFor(x, m)'
  <2>1. PICK x \in Tasks : LooksFor(x, m)
    BY <1>2, <1>5, <1>8 DEF IInv, GapInv
  <2>2. CASE x # t
    BY <1>4, <2>1, <2>2 DEF LooksFor
  <2>3. CASE x = t
    <3>1. m \in Elements(task[t].missed) => m \in Elements(task'[t].missed)
      BY <1>1, <1>4, <1>6, <1>8, TailKeepsOthers DEF k
    <3> QED BY <1>4, <2>1, <2>3, <3>1 DEF LooksFor
  <2> QED BY <2>2, <2>3
<1> QED BY <1>2, <1>7, <1>8 DEF GapInv, PostedInOrder, IInv
-----------------------------------------------------------------------------
(* The gateway comes and goes.                                             *)
LEMMA GatewayKeepsGap ==
    ASSUME IInv,
           \/ Drop
           \/ \E replayed \in SUBSET posted : Resume(replayed)
           \/ \E t \in Tasks : Connected(t)
    PROVE  GapInv'
<1>1. UNCHANGED <<posted, marks, disk, saver, ever, overtaken, excused>>
  BY DEF Drop, Resume, Connected, history
<1>2. CASE Drop
  <2>1. AtRisk' \subseteq AtRisk /\ link' = "down" /\ wire' = {} /\ task' = task
    BY <1>1, <1>2 DEF Drop, AtRisk, Owed
  <2> QED BY <1>1, <2>1 DEF GapInv, NotPassed, PostedInOrder, IInv
<1>3. ASSUME NEW replayed, Resume(replayed) PROVE GapInv'
  <2>1. AtRisk' \subseteq AtRisk /\ link' = "replaying" /\ task' = task
    BY <1>1, <1>3 DEF Resume, AtRisk
  <2> QED BY <1>1, <2>1 DEF GapInv, NotPassed, PostedInOrder, IInv
<1>4. ASSUME NEW t \in Tasks, Connected(t) PROVE GapInv'
  <2>1. wire = {} /\ wire' = {} /\ link' = "up" /\ gap' = gap
    BY <1>4 DEF Connected, IInv, GapInv
  <2>2. AtRisk' \subseteq AtRisk
    BY <1>1, <2>1 DEF AtRisk
  <2>3. task \in [Tasks -> TaskStates] /\ task' = [task EXCEPT ![t].at = "settle"]
    BY <1>4 DEF Connected, Spawn, IInv, Rest
  <2>4. /\ \A x \in Tasks : task'[x].rooms = task[x].rooms /\ task'[x].missed = task[x].missed
        /\ task'[t].at = "settle"
    BY <2>3 DEF TaskStates
  <2>5. \A m : LooksFor(t, m)'
    BY <2>4 DEF LooksFor
  <2> QED BY <1>1, <2>1, <2>2, <2>4, <2>5 DEF GapInv, NotPassed, PostedInOrder, IInv
<1> QED BY <1>2, <1>3, <1>4

(* A recovery goes on: it may only drop messages that become excused.      *)
LEMMA ScanKeepsGap ==
    ASSUME IInv, NEW t \in Tasks,
           UNCHANGED <<posted, link, wire, marks, disk, saver, ever, gap, overtaken>>,
           excused \subseteq excused', \A x \in Tasks \ {t} : task'[x] = task[x],
           \A m \in AtRisk' : /\ ListedBefore(task'[t].rooms, m)
                              /\ InTurn(task'[t].missed, m),
           \A m \in AtRisk' \cap gap : LooksFor(t, m) => LooksFor(t, m)'
    PROVE  GapInv'
<1>1. AtRisk' \subseteq AtRisk
  BY DEF AtRisk
<1>2. ASSUME NEW m \in AtRisk' PROVE NotPassed(m)'
  BY <1>1 DEF NotPassed, IInv, GapInv
<1>3. ASSUME link' = "up", NEW m \in AtRisk' \cap gap' PROVE \E x \in Tasks : LooksFor(x, m)'
  <2>1. PICK x \in Tasks : LooksFor(x, m)
    BY <1>1, <1>3 DEF IInv, GapInv
  <2>2. CASE x = t
    BY <1>3, <2>1, <2>2
  <2>3. CASE x # t
    BY <2>1, <2>3 DEF LooksFor
  <2> QED BY <2>2, <2>3
<1> QED BY <1>2, <1>3 DEF GapInv, PostedInOrder, IInv

LEMMA WakesKeepsGap ==
    ASSUME IInv, NEW t \in Tasks, Wakes(t)
    PROVE  GapInv'
<1> DEFINE all == HottestFirst(marks)
           count == IF Len(all) < ScanRooms THEN Len(all) ELSE ScanRooms
           listed == SubSeq(all, 1, count)
           seen == { listed[i].room : i \in DOMAIN listed }
<1>1. /\ task' = [task EXCEPT ![t] = [at |-> "scan", rooms |-> listed, missed |-> <<>>]]
      /\ excused' = excused \cup UNION { Unread(r) : r \in Rooms \ seen }
      /\ UNCHANGED <<posted, link, wire, marks, disk, saver, ever, gap, overtaken>>
  BY DEF Wakes
<1>2. \A i \in DOMAIN listed : listed[i].last = marks[listed[i].room]
  <2> DEFINE Entries == [room : Rooms, last : posted]
  <2>1. all \in Seq(Entries) /\ \A i \in DOMAIN all : all[i].last = marks[all[i].room]
    BY HottestAreMarked DEF IInv, Rest, MarksInv
  <2>2. count \in 0..Len(all)
    BY <2>1, ScanAssumption
  <2> HIDE DEF Entries, all, count
  <2>3. \A i \in DOMAIN listed : i \in DOMAIN all /\ listed[i] = all[i]
    BY <2>1, <2>2
  <2> QED BY <2>1, <2>3
<1> HIDE DEF listed, seen
<1>3. task \in [Tasks -> TaskStates]
  BY DEF IInv, Rest
<1>4. /\ task'[t].rooms = listed /\ task'[t].missed = <<>> /\ task'[t].at = "scan"
      /\ \A x \in Tasks \ {t} : task'[x] = task[x]
  BY <1>1, <1>3
<1>5. AtRisk' \subseteq AtRisk
  BY <1>1 DEF AtRisk
<1>6. ASSUME NEW m \in AtRisk'
      PROVE  ListedBefore(task'[t].rooms, m) /\ InTurn(task'[t].missed, m)
  <2>1. marks[RoomOf[m]] < m
    BY <1>5 DEF IInv, GapInv, NotPassed
  <2> QED BY <1>2, <1>4, <2>1 DEF ListedBefore, InTurn
<1>7. ASSUME NEW m \in AtRisk' \cap gap PROVE LooksFor(t, m)'
  <2>1. m \in Unread(RoomOf[m]) /\ RoomOf[m] \in Rooms
    BY <1>5, <1>7, MessagesAreNumbers DEF Unread, AtRisk, IInv, Rest
  <2>2. RoomOf[m] \in seen
    <3> SUFFICES ASSUME RoomOf[m] \notin seen PROVE FALSE
      OBVIOUS
    <3>1. m \in excused'
      BY <1>1, <2>1
    <3> QED BY <3>1 DEF AtRisk
  <2>3. PICK i \in DOMAIN listed : listed[i].room = RoomOf[m]
    BY <2>2 DEF seen
  <2> QED BY <1>4, <2>3 DEF LooksFor
<1> QED BY <1>1, <1>4, <1>6, <1>7, ScanKeepsGap

LEMMA ScanRoomKeepsGap ==
    ASSUME IInv, NEW t \in Tasks, ScanRoom(t)
    PROVE  GapInv'
<1> DEFINE next == Head(task[t].rooms)
           missed == History(next.room, next.last)
           s == OldestFirst(missed)
<1>1. /\ task' = [task EXCEPT ![t].rooms = Tail(@), ![t].missed = s]
      /\ excused' = excused \cup (Behind(next.room, next.last) \ missed)
      /\ UNCHANGED <<posted, link, wire, marks, disk, saver, ever, gap, overtaken>>
      /\ task[t].at = "scan" /\ task[t].missed = <<>> /\ task[t].rooms # <<>>
  BY DEF ScanRoom, Scanning
<1>2. /\ task \in [Tasks -> TaskStates]
      /\ task[t].rooms \in Seq([room : Rooms, last : posted])
  BY DEF IInv, Rest, TaskStates
<1>3. missed \in SUBSET posted /\ IsFiniteSet(missed) /\ \A n \in missed : RoomOf[n] = next.room
  <2>1. missed \in SUBSET posted /\ \A n \in missed : RoomOf[n] = next.room
    BY DEF History, Behind, Newest
  <2> QED BY <2>1, FS_Subset DEF IInv, Rest
<1> HIDE DEF missed
<1>4. /\ s \in Seq(missed)
      /\ \A m \in missed : \E i \in DOMAIN s : s[i] = m
      /\ \A i, j \in DOMAIN s : s[i] < s[j] => i < j
  <2>1. missed \in SUBSET Messages
    BY <1>3 DEF IInv, Rest
  <2> QED BY <1>3, <2>1, OldestFirstSorts
<1> HIDE DEF s
<1>5. 1 \in DOMAIN task[t].rooms /\ next = task[t].rooms[1]
  BY <1>1, <1>2
<1> HIDE DEF next
<1>6. /\ task'[t].rooms = Tail(task[t].rooms) /\ task'[t].missed = s /\ task'[t].at = "scan"
      /\ \A x \in Tasks \ {t} : task'[x] = task[x]
  BY <1>1, <1>2 DEF TaskStates
<1>7. AtRisk' \subseteq AtRisk
  BY <1>1 DEF AtRisk
<1>8. ASSUME NEW m \in AtRisk', RoomOf[m] = next.room PROVE m \in missed
  <2>1. next.last < m
    BY <1>5, <1>7, <1>8 DEF IInv, GapInv, NotPassed, ListedBefore
  <2>2. m \in posted /\ m \notin excused'
    BY <1>7 DEF AtRisk, IInv, Rest
  <2>3. next.last \in Nat /\ m \in Nat
    <3>1. next.last \in posted
      <4> DEFINE Entries == [room : Rooms, last : posted]
      <4>1. task[t].rooms \in Seq(Entries)
        BY <1>2
      <4> HIDE DEF Entries
      <4>2. next \in Entries
        BY <1>5, <4>1
      <4> QED BY <4>2 DEF Entries
    <3> QED BY <2>2, <3>1, MessagesAreNumbers DEF IInv, Rest
  <2>4. m \in Behind(next.room, next.last)
    BY <1>8, <2>1, <2>2, <2>3 DEF Behind
  <2> QED BY <1>1, <2>2, <2>4
<1>9. ASSUME NEW m \in AtRisk'
      PROVE  ListedBefore(task'[t].rooms, m) /\ InTurn(task'[t].missed, m)
  <2>1. ListedBefore(Tail(task[t].rooms), m)
    BY <1>1, <1>2, <1>7, TailKeepsListed DEF IInv, GapInv, NotPassed
  <2>2. InTurn(s, m)
    <3> SUFFICES ASSUME NEW i \in DOMAIN s, RoomOf[s[i]] = RoomOf[m], s[i] > m
                 PROVE  \E j \in DOMAIN s : j < i /\ s[j] = m
      BY DEF InTurn
    <3>1. s[i] \in missed
      BY <1>4
    <3>2. m \in missed
      BY <1>3, <1>8, <3>1
    <3>3. PICK j \in DOMAIN s : s[j] = m
      BY <1>4, <3>2
    <3>4. s[i] \in Nat /\ m \in Nat
      BY <1>3, <3>1, <3>2, MessagesAreNumbers DEF IInv, Rest
    <3>5. s[j] < s[i]
      BY <3>3, <3>4
    <3> QED BY <1>4, <3>3, <3>5
  <2> QED BY <1>6, <2>1, <2>2
<1>10. ASSUME NEW m \in AtRisk' \cap gap, LooksFor(t, m) PROVE LooksFor(t, m)'
  <2>1. CASE RoomOf[m] = next.room
    <3>1. m \in missed
      BY <1>8, <1>10, <2>1
    <3>2. m \in Elements(s)
      BY <1>4, <3>1 DEF Elements
    <3> QED BY <1>6, <3>2 DEF LooksFor
  <2>2. CASE RoomOf[m] # next.room
    <3>1. PICK i \in DOMAIN task[t].rooms : task[t].rooms[i].room = RoomOf[m]
      BY <1>1, <1>10 DEF LooksFor, Elements
    <3>2. i # 1
      BY <1>5, <2>2, <3>1
    <3>3. i - 1 \in DOMAIN Tail(task[t].rooms) /\ Tail(task[t].rooms)[i - 1] = task[t].rooms[i]
      BY <1>1, <1>2, <3>1, <3>2
    <3> QED BY <1>6, <3>1, <3>3 DEF LooksFor
  <2> QED BY <2>1, <2>2
<1> QED BY <1>1, <1>6, <1>9, <1>10, ScanKeepsGap

LEMMA ScanFailsKeepsGap ==
    ASSUME IInv, NEW t \in Tasks, ScanFails(t)
    PROVE  GapInv'
<1> DEFINE next == Head(task[t].rooms)
<1>1. /\ task' = [task EXCEPT ![t].rooms = Tail(@)]
      /\ excused' = excused \cup Unread(next.room)
      /\ UNCHANGED <<posted, link, wire, marks, disk, saver, ever, gap, overtaken>>
      /\ task[t].at = "scan" /\ task[t].missed = <<>> /\ task[t].rooms # <<>>
  BY DEF ScanFails, Scanning
<1>2. /\ task \in [Tasks -> TaskStates]
      /\ task[t].rooms \in Seq([room : Rooms, last : posted])
  BY DEF IInv, Rest, TaskStates
<1>3. 1 \in DOMAIN task[t].rooms /\ next = task[t].rooms[1]
  BY <1>1, <1>2
<1> HIDE DEF next
<1>4. /\ task'[t].rooms = Tail(task[t].rooms) /\ task'[t].missed = <<>> /\ task'[t].at = "scan"
      /\ \A x \in Tasks \ {t} : task'[x] = task[x]
  BY <1>1, <1>2 DEF TaskStates
<1>5. AtRisk' \subseteq AtRisk
  BY <1>1 DEF AtRisk
<1>6. ASSUME NEW m \in AtRisk'
      PROVE  ListedBefore(task'[t].rooms, m) /\ InTurn(task'[t].missed, m)
  <2>1. ListedBefore(Tail(task[t].rooms), m)
    BY <1>1, <1>2, <1>5, TailKeepsListed DEF IInv, GapInv, NotPassed
  <2> QED BY <1>4, <2>1 DEF InTurn
<1>7. ASSUME NEW m \in AtRisk' \cap gap, LooksFor(t, m) PROVE LooksFor(t, m)'
  <2>1. PICK i \in DOMAIN task[t].rooms : task[t].rooms[i].room = RoomOf[m]
    BY <1>1, <1>7 DEF LooksFor, Elements
  <2>2. RoomOf[m] # next.room
    BY <1>1, <1>7 DEF Unread, AtRisk
  <2>3. i # 1
    BY <1>3, <2>1, <2>2
  <2>4. i - 1 \in DOMAIN Tail(task[t].rooms) /\ Tail(task[t].rooms)[i - 1] = task[t].rooms[i]
    BY <1>1, <1>2, <2>1, <2>3
  <2> QED BY <1>4, <2>1, <2>4 DEF LooksFor
<1> QED BY <1>1, <1>4, <1>6, <1>7, ScanKeepsGap

(* A recovery that ends looks for nothing any more.                        *)
LEMMA EndKeepsGap ==
    ASSUME IInv, NEW t \in Tasks, RecoveryEnds(t)
    PROVE  GapInv'
<1>1. /\ UNCHANGED <<posted, link, wire, marks, ever, gap, overtaken, excused>>
      /\ task[t].at = "scan" /\ task[t].missed = <<>> /\ task[t].rooms = <<>>
      /\ task' = [task EXCEPT ![t] = NoTask] /\ SaveNow
  BY DEF RecoveryEnds, discord, history
<1>2. task \in [Tasks -> TaskStates]
  BY DEF IInv, Rest
<1>3. task'[t] = NoTask /\ \A x \in Tasks : x # t => task'[x] = task[x]
  BY <1>1, <1>2
<1>4. AtRisk' = AtRisk
  BY <1>1 DEF AtRisk
<1>5. disk' \in {disk, marks, saver.payload, NoMarks} /\ saver'.payload = saver.payload
  BY <1>1 DEF SaveNow, IInv, MarksInv, Savers
<1>6. ASSUME NEW m \in AtRisk' PROVE NotPassed(m)'
  <2>1. NotPassed(m) /\ m > 0 /\ RoomOf[m] \in Rooms
    BY <1>4, MessagesAreNumbers DEF IInv, GapInv, Rest, AtRisk
  <2>2. NoMarks[RoomOf[m]] < m
    BY <2>1 DEF NoMarks
  <2>3. disk'[RoomOf[m]] < m
    BY <1>5, <2>1, <2>2 DEF NotPassed
  <2>4. ListedBefore(NoTask.rooms, m) /\ InTurn(NoTask.missed, m)
    BY DEF NoTask, ListedBefore, InTurn
  <2>5. \A x \in Tasks : ListedBefore(task'[x].rooms, m) /\ InTurn(task'[x].missed, m)
    BY <1>3, <2>1, <2>4 DEF NotPassed
  <2> QED BY <1>1, <1>5, <2>1, <2>3, <2>5 DEF NotPassed
<1>7. ASSUME link' = "up", NEW m \in AtRisk' \cap gap' PROVE \E x \in Tasks : LooksFor(x, m)'
  <2>1. PICK x \in Tasks : LooksFor(x, m)
    BY <1>1, <1>4, <1>7 DEF IInv, GapInv
  <2>2. x # t
    BY <1>1, <2>1 DEF LooksFor, Elements
  <2> QED BY <1>3, <2>1, <2>2 DEF LooksFor
<1> QED BY <1>1, <1>6, <1>7 DEF GapInv, PostedInOrder, IInv

(* After a restart the file is where the rooms were read up to.            *)
LEMMA RestartKeepsGap ==
    ASSUME IInv, Restart
    PROVE  GapInv'
<1>1. /\ link' = "off" /\ wire' = {} /\ gap' = gap \cup Owed(wire, disk)
      /\ marks' = disk /\ disk' = disk /\ saver' = NotSaving
      /\ task' = [x \in Tasks |-> NoTask]
      /\ UNCHANGED <<posted, ever, overtaken, excused>>
  BY DEF Restart, history
<1>2. ASSUME NEW m \in AtRisk' PROVE NotPassed(m)'
  <2>1. m \in Messages
    BY <1>1 DEF AtRisk, Owed, IInv, Rest
  <2>2. m \in Nat /\ m > 0 /\ RoomOf[m] \in Rooms
    BY <2>1, MessagesAreNumbers
  <2>3. disk[RoomOf[m]] < m
    <3>1. CASE m \in gap
      <4>1. m \in AtRisk
        BY <1>1, <3>1 DEF AtRisk
      <4> QED BY <4>1 DEF IInv, GapInv, NotPassed
    <3>2. CASE m \notin gap
      BY <1>1, <2>2, <3>2 DEF AtRisk, Owed
    <3> QED BY <3>1, <3>2
  <2>4. NotSaving.payload[RoomOf[m]] < m
    BY <2>2 DEF NotSaving, NoMarks
  <2>5. ListedBefore(NoTask.rooms, m) /\ InTurn(NoTask.missed, m)
    BY DEF NoTask, ListedBefore, InTurn
  <2> QED BY <1>1, <2>3, <2>4, <2>5 DEF NotPassed
<1> QED BY <1>1, <1>2 DEF GapInv, PostedInOrder, IInv
-----------------------------------------------------------------------------
LEMMA StepKeepsGap == IInv /\ [Next]_vars => GapInv'
<1> SUFFICES ASSUME IInv, [Next]_vars PROVE GapInv'
  OBVIOUS
<1>1. CASE UNCHANGED vars
  BY <1>1 DEF vars, IInv, GapInv, AtRisk, NotPassed, LooksFor, PostedInOrder
<1>2. ASSUME NEW m \in Messages, Post(m) \/ Deliver(m) PROVE GapInv'
  BY <1>2, PostKeepsGap, DeliverKeepsGap
<1>3. ASSUME NEW replayed \in SUBSET posted, Resume(replayed) PROVE GapInv'
  BY <1>3, GatewayKeepsGap
<1>4. ASSUME NEW t \in Tasks, Connected(t) PROVE GapInv'
  BY <1>4, GatewayKeepsGap
<1>5. ASSUME NEW t \in Tasks,
             Wakes(t) \/ ScanRoom(t) \/ ScanFails(t) \/ Replay(t) \/ RecoveryEnds(t)
      PROVE  GapInv'
  BY <1>5, WakesKeepsGap, ScanRoomKeepsGap, ScanFailsKeepsGap, ReplayKeepsGap, EndKeepsGap
<1>6. CASE Drop
  BY <1>6, GatewayKeepsGap
<1>7. CASE SaveBegins \/ SaveLands \/ SaveFails
  <2>1. /\ disk' \in {disk, marks, saver.payload, NoMarks}
        /\ saver'.payload \in {marks, saver.payload, NoMarks}
    BY <1>7 DEF SaveBegins, SaveLands, SaveFails, NotSaving
  <2> QED BY <1>7, <2>1, SavingKeepsGap DEF SaveBegins, SaveLands, SaveFails, discord, reading
<1>8. CASE ShutdownSaves
  <2>1. disk' \in {disk, marks, saver.payload, NoMarks} /\ saver'.payload = saver.payload
    BY <1>8 DEF ShutdownSaves, SaveNow, IInv, MarksInv, Savers
  <2> QED BY <1>8, <2>1, SavingKeepsGap DEF ShutdownSaves, discord
<1>9. CASE Restart
  BY <1>9, RestartKeepsGap
<1> QED BY <1>1, <1>2, <1>3, <1>4, <1>5, <1>6, <1>7, <1>8, <1>9 DEF Next

THEOREM InvariantHolds == Spec => []IInv
<1>1. Init => IInv
  BY StartsInWindow, StartsUnread, StartsAtRest, StartsWithNoGap DEF IInv
<1>2. IInv /\ [Next]_vars => IInv'
  BY StepKeepsWindow, StepKeepsMarks, StepKeepsRest, StepKeepsGap DEF IInv
<1> QED BY <1>1, <1>2, PTL DEF Spec

(* Every variable has its type: Discord's messages, the window, the        *)
(* watermarks and what a recovery holds of both.                           *)
THEOREM TypeCorrect == Spec => []TypeOK
<1>1. IInv => TypeOK
  BY RestIsTyped DEF IInv
<1> QED BY <1>1, InvariantHolds, PTL

(* A message the gateway dropped is read after the next recovery, through  *)
(* restarts, racing saves and overlapping recoveries, or it was overtaken  *)
(* or left out by a limit (_recover_missed_messages).                      *)
THEOREM GapIsRecovered == Spec => []OnlyOvertakenAreLost
<1>1. IInv => OnlyOvertakenAreLost
  <2> SUFFICES ASSUME IInv, Settled PROVE gap \subseteq ever \cup overtaken \cup excused
    BY DEF OnlyOvertakenAreLost
  <2>1. \A t \in Tasks : \A m : ~LooksFor(t, m)
    BY DEF Settled, Alive, LooksFor
  <2> QED BY <2>1 DEF IInv, GapInv, Settled, AtRisk
<1> QED BY <1>1, InvariantHolds, PTL
=============================================================================
