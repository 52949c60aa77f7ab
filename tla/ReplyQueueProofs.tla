----------------------- MODULE ReplyQueueProofs ------------------------
(***************************************************************************)
(* Proofs about ReplyQueue for every set of rooms and messages, every      *)
(* bound on a line, and any number of pump tasks a room could be given.    *)
(***************************************************************************)
EXTENDS ReplyQueue, FiniteSetTheorems, WellFoundedInduction, TLAPS

(* The least-number principle, the form of induction used for _expire.     *)
LEMMA LeastNumber ==
    ASSUME NEW T \in SUBSET Nat, T # {}
    PROVE  \E x \in T : \A y \in T : x <= y
<1> DEFINE R == OpToRel(<, Nat)
<1>1. IsWellFoundedOn(R, Nat)
  BY NatLessThanWellFounded
<1>2. PICK x \in T : \A y \in T : <<y, x>> \notin R
  BY <1>1, WFMin, Zenon
<1>3. \A y \in T : ~(y < x)
  BY <1>2 DEF OpToRel
<1> QED BY <1>3, SMT

(* The recursive function of _expire exists for every line, so what it     *)
(* keeps is a line of entries that were there before, in their order.      *)
LEMMA ExpiryKeepsEntries ==
    ASSUME NEW line \in Seq(Entry)
    PROVE  /\ Unexpired(line) \in Seq(Entry)
           /\ Len(Unexpired(line)) <= Len(line)
           /\ Ids(Unexpired(line)) \subseteq Ids(line)
           /\ WellFormed(line) => WellFormed(Unexpired(line))
<1> DEFINE L == Len(line)
           Body(f, n) == IF n = 0 THEN <<>>
                         ELSE IF line[n].stale THEN f[n - 1]
                         ELSE Append(f[n - 1], line[n])
           Keeps(f, k) == f = [n \in 0..k |-> Body(f, n)]
           K == CHOOSE f : f = [n \in 0..L |-> Body(f, n)]
<1>1. \A k \in Nat : \E f : Keeps(f, k)
  <2> DEFINE Bad == {k \in Nat : ~ \E f : Keeps(f, k)}
  <2> SUFFICES ASSUME Bad # {} PROVE FALSE
    OBVIOUS
  <2>1. PICK k \in Bad : \A y \in Bad : k <= y
    <3> HIDE DEF Keeps
    <3> QED BY LeastNumber
  <2>2. k # 0
    <3>1. Keeps([n \in 0..0 |-> <<>>], 0)
      OBVIOUS
    <3> QED BY <3>1
  <2>3. k - 1 \in Nat /\ k - 1 \notin Bad
    <3>1. Bad \subseteq Nat
      OBVIOUS
    <3> HIDE DEF Bad
    <3> QED BY <2>1, <2>2, <3>1, SMT
  <2>4. PICK f : Keeps(f, k - 1)
    BY <2>3
  <2> DEFINE g == [n \in 0..k |-> IF n < k THEN f[n] ELSE Body(f, k)]
  <2>5. \A n \in 0..k : g[n] = Body(g, n)
    <3> TAKE n \in 0..k
    <3>1. CASE n = k
      <4>1. g[n - 1] = f[n - 1]
        BY <2>2, <3>1
      <4> QED BY <2>2, <3>1, <4>1
    <3>2. CASE n < k /\ n # 0
      <4>1. g[n] = f[n] /\ g[n - 1] = f[n - 1]
        BY <3>2
      <4>2. f[n] = Body(f, n)
        <5>1. n \in 0..(k - 1)
          BY <2>3, <3>2
        <5> HIDE DEF Body
        <5> QED BY <2>4, <5>1
      <4> QED BY <3>2, <4>1, <4>2
    <3>3. CASE n = 0
      <4>1. g[n] = f[n]
        BY <2>2, <3>3
      <4>2. f[n] = <<>>
        BY <2>2, <2>4, <3>3
      <4> QED BY <3>3, <4>1, <4>2
    <3> QED BY <3>1, <3>2, <3>3
  <2>6. Keeps(g, k)
    BY <2>5
  <2> QED BY <2>1, <2>6
<1>2. K = [n \in 0..L |-> Body(K, n)]
  <2> HIDE DEF Body
  <2>1. \E f : f = [n \in 0..L |-> Body(f, n)]
    <3>1. L \in Nat
      OBVIOUS
    <3> HIDE DEF L
    <3> QED BY <1>1, <3>1
  <2> QED BY <2>1, Zenon
<1>3. Unexpired(line) = K[L]
  BY DEF Unexpired
<1> HIDE DEF K
<1> DEFINE Kept(n) == /\ K[n] \in Seq(Entry)
                      /\ Len(K[n]) <= n
                      /\ \A i \in DOMAIN K[n] : \E j \in 1..n : K[n][i] = line[j]
                      /\ WellFormed(line) => WellFormed(K[n])
<1>4. \A n \in 0..L : Kept(n)
  <2> DEFINE Bad == {n \in 0..L : ~Kept(n)}
  <2> SUFFICES ASSUME Bad # {} PROVE FALSE
    OBVIOUS
  <2>1. PICK n \in Bad : \A y \in Bad : n <= y
    <3>1. Bad \in SUBSET Nat
      OBVIOUS
    <3> HIDE DEF Bad
    <3> QED BY <3>1, LeastNumber
  <2>2. n \in 0..L /\ K[n] = Body(K, n)
    BY <1>2
  <2>3. n # 0
    <3>1. ASSUME n = 0 PROVE Kept(0)
      <4>1. K[0] = <<>>
        BY <2>2, <3>1
      <4>2. WellFormed(<<>>)
        BY DEF WellFormed
      <4> QED BY <4>1, <4>2
    <3> QED BY <2>1, <3>1
  <2>4. n - 1 \in 0..L /\ Kept(n - 1)
    BY <2>1, <2>2, <2>3, SMT
  <2>5. n \in DOMAIN line /\ line[n] \in Entry
    BY <2>2, <2>3
  <2>6. CASE line[n].stale
    <3>1. K[n] = K[n - 1]
      BY <2>2, <2>3, <2>6
    <3>2. Kept(n)
      BY <2>2, <2>4, <3>1
    <3> QED BY <2>1, <3>2
  <2>7. CASE ~line[n].stale
    <3>1. K[n] = Append(K[n - 1], line[n])
      BY <2>2, <2>3, <2>7
    <3>2. K[n] \in Seq(Entry) /\ Len(K[n]) = Len(K[n - 1]) + 1
      BY <2>2, <2>4, <2>5, <3>1
    <3>3. /\ K[n][Len(K[n])] = line[n]
          /\ \A i \in DOMAIN K[n] : i # Len(K[n]) =>
                i \in DOMAIN K[n - 1] /\ K[n][i] = K[n - 1][i]
      BY <2>4, <2>5, <3>1, <3>2
    <3>4. \A i \in DOMAIN K[n] : i # Len(K[n]) =>
             \E j \in 1..(n - 1) : K[n][i] = line[j]
      BY <2>4, <3>3
    <3>5. ASSUME WellFormed(line) PROVE WellFormed(K[n])
      <4>1. ASSUME NEW i \in DOMAIN K[n], i # Len(K[n])
            PROVE  /\ K[n][i].msg # line[n].msg
                   /\ K[n][i].directed \/ line[n].directed
        <5>1. PICK j \in 1..(n - 1) : K[n][i] = line[j]
          BY <3>4, <4>1
        <5>2. j \in DOMAIN line /\ j # n
          BY <2>2, <2>5
        <5> QED BY <2>5, <3>5, <5>1, <5>2 DEF WellFormed
      <4>2. WellFormed(K[n - 1])
        BY <2>4, <3>5
      <4>3. ASSUME NEW i \in DOMAIN K[n], NEW j \in DOMAIN K[n], i # j
            PROVE  /\ K[n][i].msg # K[n][j].msg
                   /\ K[n][i].directed \/ K[n][j].directed
        <5>1. CASE i = Len(K[n])
          BY <3>3, <4>1, <4>3, <5>1
        <5>2. CASE j = Len(K[n])
          BY <3>3, <4>1, <4>3, <5>2
        <5>3. CASE i # Len(K[n]) /\ j # Len(K[n])
          BY <3>3, <4>2, <4>3, <5>3 DEF WellFormed
        <5> QED BY <5>1, <5>2, <5>3
      <4> QED BY <4>3 DEF WellFormed
    <3>6. Kept(n)
      <4>1. Len(K[n]) <= n
        BY <2>2, <2>4, <3>2
      <4>2. ASSUME NEW i \in DOMAIN K[n] PROVE \E j \in 1..n : K[n][i] = line[j]
        <5>1. CASE i = Len(K[n])
          BY <2>2, <2>3, <3>3, <5>1
        <5>2. CASE i # Len(K[n])
          <6>1. PICK j \in 1..(n - 1) : K[n][i] = line[j]
            BY <3>4, <4>2, <5>2
          <6>2. n \in Nat /\ j \in 1..n
            BY <2>2, <6>1
          <6> QED BY <6>1, <6>2
        <5> QED BY <5>1, <5>2
      <4> QED BY <3>2, <3>5, <4>1, <4>2
    <3> QED BY <2>1, <3>6
  <2> QED BY <2>6, <2>7
<1>5. Kept(L)
  BY <1>4
<1>6. Ids(K[L]) \subseteq Ids(line)
  BY <1>5 DEF Ids
<1> QED BY <1>3, <1>5, <1>6
-----------------------------------------------------------------------------
(* What the steps on a line return: entries of the line, in a line within  *)
(* its bound.                                                              *)
LEMMA FirstIsThere ==
    ASSUME NEW I \in SUBSET Nat, I # {}
    PROVE  Min(I) \in I
BY LeastNumber DEF Min

LEMMA SoftPlaceInLine ==
    ASSUME NEW line \in Seq(Entry)
    PROVE  /\ SoftPlace(line) \in 0..Len(line)
           /\ SoftPlace(line) # 0 => ~line[SoftPlace(line)].directed
           /\ SoftPlace(line) = 0 => \A i \in DOMAIN line : line[i].directed
<1> DEFINE I == {i \in 1..Len(line) : ~line[i].directed}
<1>1. SoftPlace(line) = IF I # {} THEN Min(I) ELSE 0
  BY DEF SoftPlace, SelectInSeq
<1>2. I # {} => Min(I) \in I
  <2>1. I \in SUBSET Nat
    OBVIOUS
  <2> HIDE DEF I
  <2> QED BY <2>1, FirstIsThere
<1>3. Len(line) \in Nat /\ DOMAIN line = 1..Len(line)
  OBVIOUS
<1>4. CASE I # {}
  <2>1. SoftPlace(line) \in I
    BY <1>1, <1>2, <1>4
  <2> QED BY <1>3, <2>1
<1>5. CASE I = {}
  BY <1>1, <1>3, <1>5
<1> QED BY <1>4, <1>5

LEMMA MessagePlaceInLine ==
    ASSUME NEW line \in Seq(Entry), NEW m
    PROVE  /\ PlaceOf(line, m) \in 0..Len(line)
           /\ PlaceOf(line, m) # 0 => line[PlaceOf(line, m)].msg = m
           /\ PlaceOf(line, m) = 0 => m \notin Ids(line)
<1> DEFINE I == {i \in 1..Len(line) : line[i].msg = m}
<1>1. PlaceOf(line, m) = IF I # {} THEN Min(I) ELSE 0
  BY DEF PlaceOf, SelectInSeq
<1>2. I # {} => Min(I) \in I
  <2>1. I \in SUBSET Nat
    OBVIOUS
  <2> HIDE DEF I
  <2> QED BY <2>1, FirstIsThere
<1>3. Len(line) \in Nat /\ DOMAIN line = 1..Len(line)
  OBVIOUS
<1>4. CASE I # {}
  <2>1. PlaceOf(line, m) \in I
    BY <1>1, <1>2, <1>4
  <2> QED BY <1>3, <2>1
<1>5. CASE I = {}
  BY <1>1, <1>3, <1>5 DEF Ids
<1> QED BY <1>4, <1>5

Others(line, i) == {line[k] : k \in DOMAIN line \ {i}}

LEMMA RemovalKeepsEntries ==
    ASSUME NEW line \in Seq(Entry), NEW i \in 1..Len(line)
    PROVE  /\ RemoveAt(line, i) \in Seq(Entry)
           /\ Len(RemoveAt(line, i)) = Len(line) - 1
           /\ Ids(RemoveAt(line, i)) \subseteq Ids(line)
           /\ WellFormed(line) => WellFormed(RemoveAt(line, i))
           /\ Range(RemoveAt(line, i)) = Others(line, i)
<1> DEFINE front == SubSeq(line, 1, i - 1)
           back == SubSeq(line, i + 1, Len(line))
           rest == front \o back
           from(k) == IF k <= i - 1 THEN k ELSE k + 1
<1>1. RemoveAt(line, i) = rest
  BY DEF RemoveAt
<1>2. /\ front \in Seq(Entry) /\ back \in Seq(Entry)
      /\ Len(front) = i - 1 /\ Len(back) = Len(line) - i
  OBVIOUS
<1>3. /\ \A k \in DOMAIN front : front[k] = line[k]
      /\ \A k \in DOMAIN back : back[k] = line[k + i]
  <2>1. ASSUME NEW k \in 1..(i - 1) PROVE front[k] = line[k]
    BY <2>1
  <2>2. ASSUME NEW k \in 1..(Len(line) - i) PROVE back[k] = line[k + i]
    BY <2>2
  <2>3. DOMAIN front = 1..(i - 1) /\ DOMAIN back = 1..(Len(line) - i)
    BY <1>2
  <2> HIDE DEF front, back
  <2> QED BY <2>1, <2>2, <2>3
<1> HIDE DEF front, back
<1>4. rest \in Seq(Entry) /\ Len(rest) = Len(line) - 1
  BY <1>2
<1>5. ASSUME NEW k \in DOMAIN rest
      PROVE  from(k) \in DOMAIN line /\ from(k) # i /\ rest[k] = line[from(k)]
  <2>1. CASE k <= i - 1
    BY <1>2, <1>3, <1>4, <2>1
  <2>2. CASE k > i - 1
    <3>1. k - (i - 1) \in DOMAIN back /\ k + 1 \in DOMAIN line
      BY <1>2, <1>4, <2>2
    <3>2. rest[k] = back[k - (i - 1)]
      BY <1>2, <1>4, <2>2
    <3>3. back[k - (i - 1)] = line[k + 1]
      BY <1>3, <3>1
    <3> QED BY <1>4, <2>2, <3>1, <3>2, <3>3
  <2> QED BY <1>4, <2>1, <2>2
<1>6. \A j, k \in DOMAIN rest : j # k => from(j) # from(k)
  BY <1>4
<1>9. ASSUME NEW k \in DOMAIN line, k # i
      PROVE  \E j \in DOMAIN rest : rest[j] = line[k]
  <2>1. CASE k < i
    <3>1. k \in DOMAIN rest /\ from(k) = k
      BY <1>4, <2>1
    <3> QED BY <1>5, <3>1
  <2>2. CASE k > i
    <3>1. k - 1 \in DOMAIN rest /\ from(k - 1) = k
      BY <1>4, <2>2
    <3> QED BY <1>5, <3>1
  <2> QED BY <1>9, <2>1, <2>2
<1> HIDE DEF rest, from
<1>7. Ids(rest) \subseteq Ids(line)
  BY <1>5 DEF Ids
<1>8. WellFormed(line) => WellFormed(rest)
  BY <1>5, <1>6 DEF WellFormed
<1>10. Range(rest) = Others(line, i)
  BY <1>5, <1>9 DEF Range, Others
<1> QED BY <1>1, <1>4, <1>7, <1>8, <1>10

LEMMA ReplacementKeepsEntries ==
    ASSUME NEW line \in Seq(Entry), NEW i \in 1..Len(line), NEW e \in Entry,
           e.msg \notin Ids(line) \/ line[i].msg = e.msg,
           e.directed \/ ~line[i].directed
    PROVE  /\ TakePlace(line, i, e) \in Seq(Entry)
           /\ Len(TakePlace(line, i, e)) = Len(line)
           /\ Ids(TakePlace(line, i, e)) \subseteq Ids(line) \cup {e.msg}
           /\ WellFormed(line) => WellFormed(TakePlace(line, i, e))
<1> DEFINE new == TakePlace(line, i, e)
<1>1. /\ new \in Seq(Entry) /\ Len(new) = Len(line)
      /\ new[i] = e /\ DOMAIN new = DOMAIN line
      /\ \A k \in DOMAIN line : k # i => new[k] = line[k]
  BY DEF TakePlace, ReplaceAt
<1> HIDE DEF new
<1>2. Ids(new) \subseteq Ids(line) \cup {e.msg}
  BY <1>1 DEF Ids
<1>3. ASSUME WellFormed(line) PROVE WellFormed(new)
  <2>1. ASSUME NEW k \in DOMAIN line, k # i
        PROVE  line[k].msg # e.msg /\ (line[k].directed \/ e.directed)
    <3>1. line[k].msg \in Ids(line)
      BY <2>1 DEF Ids
    <3>2. line[k].msg # line[i].msg /\ (line[k].directed \/ line[i].directed)
      BY <1>3, <2>1 DEF WellFormed
    <3> QED BY <3>1, <3>2
  <2> QED BY <1>1, <1>3, <2>1 DEF WellFormed
<1> QED BY <1>1, <1>2, <1>3 DEF new

LEMMA AppendingKeepsEntries ==
    ASSUME NEW line \in Seq(Entry), NEW e \in Entry, e.msg \notin Ids(line),
           e.directed \/ \A k \in DOMAIN line : line[k].directed
    PROVE  /\ Append(line, e) \in Seq(Entry)
           /\ Len(Append(line, e)) = Len(line) + 1
           /\ Ids(Append(line, e)) \subseteq Ids(line) \cup {e.msg}
           /\ WellFormed(line) => WellFormed(Append(line, e))
<1> DEFINE new == Append(line, e)
<1>1. /\ new \in Seq(Entry) /\ Len(new) = Len(line) + 1
      /\ new[Len(line) + 1] = e
      /\ \A k \in DOMAIN new : k # Len(line) + 1 =>
            k \in DOMAIN line /\ new[k] = line[k]
  OBVIOUS
<1> HIDE DEF new
<1>2. Ids(new) \subseteq Ids(line) \cup {e.msg}
  BY <1>1 DEF Ids
<1>3. \A k \in DOMAIN line : line[k].msg # e.msg /\ (line[k].directed \/ e.directed)
  BY DEF Ids
<1>4. ASSUME WellFormed(line), NEW j \in DOMAIN new, NEW k \in DOMAIN new, j # k
      PROVE  new[j].msg # new[k].msg /\ (new[j].directed \/ new[k].directed)
  <2>1. CASE j = Len(line) + 1
    BY <1>1, <1>3, <1>4, <2>1
  <2>2. CASE k = Len(line) + 1
    BY <1>1, <1>3, <1>4, <2>2
  <2>3. CASE j # Len(line) + 1 /\ k # Len(line) + 1
    BY <1>1, <1>4, <2>3 DEF WellFormed
  <2> QED BY <2>1, <2>2, <2>3
<1> QED BY <1>1, <1>2, <1>4 DEF new, WellFormed

LEMMA PlacingKeepsEntries ==
    ASSUME NEW line \in Seq(Entry), Len(line) <= MaxDirected, NEW e \in Entry
    PROVE  /\ Placed(line, e) \in Seq(Entry)
           /\ Len(Placed(line, e)) <= MaxDirected
           /\ Ids(Placed(line, e)) \subseteq Ids(line) \cup {e.msg}
           /\ WellFormed(line) => WellFormed(Placed(line, e))
<1> DEFINE again == PlaceOf(line, e.msg)
           merged == [e EXCEPT !.directed = @ \/ line[again].directed]
           longer == Append(line, e)
<1>1. /\ again \in 0..Len(line)
      /\ again # 0 => line[again].msg = e.msg
      /\ again = 0 => e.msg \notin Ids(line)
  BY MessagePlaceInLine
<1>2. MaxDirected \in Nat \ {0}
  BY QueueAssumption
<1>3. CASE again # 0
  <2>1. line[again] \in Entry
    BY <1>1, <1>3
  <2>2. /\ merged \in Entry /\ merged.msg = e.msg
        /\ merged.directed \/ ~line[again].directed
    BY <2>1 DEF Entry
  <2>3. Placed(line, e) = TakePlace(line, again, merged)
    BY <1>3 DEF Placed
  <2>4. again \in 1..Len(line) /\ line[again].msg = merged.msg
    BY <1>1, <1>3, <2>2
  <2> HIDE DEF again, merged
  <2>5. /\ TakePlace(line, again, merged) \in Seq(Entry)
        /\ Len(TakePlace(line, again, merged)) = Len(line)
        /\ Ids(TakePlace(line, again, merged)) \subseteq Ids(line) \cup {merged.msg}
        /\ WellFormed(line) => WellFormed(TakePlace(line, again, merged))
    BY <2>2, <2>4, ReplacementKeepsEntries
  <2> QED BY <2>2, <2>3, <2>5
<1>4. CASE again = 0 /\ ~e.directed /\ SoftPlace(line) # 0
  <2> DEFINE i == SoftPlace(line)
  <2>1. Placed(line, e) = TakePlace(line, i, e)
    BY <1>4 DEF Placed
  <2>2. i \in 1..Len(line) /\ ~line[i].directed /\ e.msg \notin Ids(line)
    BY <1>1, <1>4, SoftPlaceInLine
  <2> HIDE DEF i
  <2>3. /\ TakePlace(line, i, e) \in Seq(Entry)
        /\ Len(TakePlace(line, i, e)) = Len(line)
        /\ Ids(TakePlace(line, i, e)) \subseteq Ids(line) \cup {e.msg}
        /\ WellFormed(line) => WellFormed(TakePlace(line, i, e))
    BY <2>2, ReplacementKeepsEntries
  <2> QED BY <2>1, <2>3
<1>5. CASE again = 0 /\ (e.directed \/ SoftPlace(line) = 0)
  <2>1. Placed(line, e) = EnforceBound(longer)
    BY <1>5 DEF Placed
  <2>2. /\ e.msg \notin Ids(line)
        /\ e.directed \/ \A k \in DOMAIN line : line[k].directed
    BY <1>1, <1>5, SoftPlaceInLine
  <2>3. /\ longer \in Seq(Entry) /\ Len(longer) = Len(line) + 1
        /\ Ids(longer) \subseteq Ids(line) \cup {e.msg}
        /\ WellFormed(line) => WellFormed(longer)
    BY <2>2, AppendingKeepsEntries
  <2> HIDE DEF longer
  <2>4. Victim(longer) \in 1..Len(longer)
    BY <2>3, SoftPlaceInLine DEF Victim
  <2>5. CASE Overfull(longer)
    <3> DEFINE shorter == RemoveAt(longer, Victim(longer))
    <3>1. EnforceBound(longer) = shorter
      BY <2>5 DEF EnforceBound
    <3>2. /\ shorter \in Seq(Entry) /\ Len(shorter) = Len(longer) - 1
          /\ Ids(shorter) \subseteq Ids(longer)
          /\ WellFormed(longer) => WellFormed(shorter)
      BY <2>3, <2>4, RemovalKeepsEntries
    <3> HIDE DEF shorter
    <3> QED BY <1>2, <2>1, <2>3, <3>1, <3>2
  <2>6. CASE ~Overfull(longer)
    BY <1>2, <2>1, <2>3, <2>6 DEF EnforceBound, Overfull
  <2> QED BY <2>5, <2>6
<1> QED BY <1>3, <1>4, <1>5
-----------------------------------------------------------------------------
(* A new pump task is one of the room's own that has nothing to do.        *)
LEMMA NewWorkerIsFree ==
    ASSUME NEW r \in Rooms, Free(r) # {}
    PROVE  /\ NewWorker(r) \in Pumps
           /\ RoomFor(NewWorker(r)) = r
           /\ worker[NewWorker(r)] = Idle
<1>1. NewWorker(r) \in Free(r)
  BY DEF NewWorker
<1> QED BY <1>1 DEF Free, Pumps, RoomFor

LEMMA PumpsHaveRooms ==
    ASSUME NEW p \in Pumps
    PROVE  RoomFor(p) \in Rooms
BY DEF Pumps, RoomFor

(* TypeOK is preserved by every step; in particular expiry, coalescing and *)
(* eviction keep every line a sequence of entries within its bound.        *)
THEOREM TypeCorrect == Spec => []TypeOK
<1>1. Init => TypeOK
  BY QueueAssumption DEF Init, TypeOK, Idle, WorkerStates
<1>2. TypeOK /\ [Next]_vars => TypeOK'
  <2> SUFFICES ASSUME TypeOK, [Next]_vars PROVE TypeOK'
    OBVIOUS
  <2> USE DEF TypeOK
  <2>1. ASSUME NEW m \in Messages, NEW d \in BOOLEAN, Submit(m, d) PROVE TypeOK'
    <3> DEFINE r == RoomOf[m]
               e == [msg |-> m, directed |-> d, stale |-> FALSE]
               line == Unexpired(queue[r])
    <3>1. r \in Rooms /\ e \in Entry
      BY QueueAssumption DEF Entry
    <3>2. /\ queue' = [queue EXCEPT ![r] = Placed(line, e)]
          /\ EnsurePump(r)
          /\ UNCHANGED <<running, phase, toClose, visiting>>
      BY <2>1 DEF Submit
    <3> HIDE DEF r, e
    <3>3. line \in Seq(Entry) /\ Len(line) <= MaxDirected
      BY <3>1, ExpiryKeepsEntries, QueueAssumption
    <3> HIDE DEF line
    <3>4. Placed(line, e) \in Seq(Entry) /\ Len(Placed(line, e)) <= MaxDirected
      BY <3>1, <3>3, PlacingKeepsEntries
    <3>5. /\ queue' \in [Rooms -> Seq(Entry)]
          /\ \A q \in Rooms : Len(queue'[q]) <= MaxDirected
      BY <3>1, <3>2, <3>4
    <3>6. /\ pump' \in [Rooms -> Pumps \cup {None}]
          /\ worker' \in [Pumps -> [state : WorkerStates, msg : Messages \cup {None}]]
      <4>1. CASE NeedsPump(r)
        <5>1. /\ NewWorker(r) \in Pumps
              /\ worker' = [worker EXCEPT ![NewWorker(r)].state = "ready"]
              /\ pump' = [pump EXCEPT ![r] = NewWorker(r)]
          BY <3>1, <3>2, <4>1, NewWorkerIsFree DEF EnsurePump
        <5> QED BY <5>1 DEF WorkerStates
      <4>2. CASE ~NeedsPump(r)
        BY <3>2, <4>2 DEF EnsurePump
      <4> QED BY <4>1, <4>2
    <3> QED BY <3>2, <3>5, <3>6
  <2>2. ASSUME NEW r \in Rooms, NEW i \in 1..MaxDirected, GrowOld(r, i)
        PROVE  TypeOK'
    <3> DEFINE line == [queue[r] EXCEPT ![i].stale = TRUE]
    <3>1. queue' = [queue EXCEPT ![r] = line] /\ i \in DOMAIN queue[r]
      BY <2>2 DEF GrowOld
    <3>2. [queue[r][i] EXCEPT !.stale = TRUE] \in Entry
      <4>1. queue[r][i] \in Entry
        BY <3>1
      <4> QED BY <4>1 DEF Entry
    <3>3. line \in Seq(Entry) /\ Len(line) = Len(queue[r])
      BY <3>1, <3>2
    <3> HIDE DEF line
    <3>4. /\ queue' \in [Rooms -> Seq(Entry)]
          /\ \A q \in Rooms : Len(queue'[q]) <= MaxDirected
      BY <3>1, <3>3
    <3> QED BY <2>2, <3>4 DEF GrowOld
  <2>3. ASSUME NEW p \in Pumps, PumpRuns(p) PROVE TypeOK'
    <3> DEFINE r == RoomFor(p)
    <3>1. r \in Rooms
      BY PumpsHaveRooms
    <3>2. CASE HasWork(r)
      <4>1. /\ queue' = [queue EXCEPT ![r] = Tail(@)]
            /\ worker' = [worker EXCEPT ![p] =
                  [@ EXCEPT !.state = "live", !.msg = Head(queue[r]).msg]]
            /\ running' = [running EXCEPT ![r] = p]
            /\ UNCHANGED <<pump, phase, toClose, visiting>>
        BY <2>3, <3>2 DEF PumpRuns, Recorded
      <4>2. /\ queue[r] # <<>>
            /\ Tail(queue[r]) \in Seq(Entry)
            /\ Len(Tail(queue[r])) <= MaxDirected
            /\ Head(queue[r]) \in Entry
        BY <3>1, <3>2, QueueAssumption DEF HasWork
      <4>3. Head(queue[r]).msg \in Messages
        BY <4>2 DEF Entry
      <4> HIDE DEF r
      <4>4. /\ queue' \in [Rooms -> Seq(Entry)]
            /\ \A q \in Rooms : Len(queue'[q]) <= MaxDirected
        BY <3>1, <4>1, <4>2
      <4>5. worker' \in [Pumps -> [state : WorkerStates, msg : Messages \cup {None}]]
        BY <4>1, <4>3 DEF WorkerStates
      <4> QED BY <3>1, <4>1, <4>4, <4>5
    <3>3. CASE ~HasWork(r)
      <4>1. /\ UNCHANGED <<queue, phase, toClose, visiting>>
            /\ worker' = [worker EXCEPT ![p] = Idle]
            /\ running' = [running EXCEPT ![r] = None]
            /\ pump' = [pump EXCEPT ![r] = None]
        BY <2>3, <3>3 DEF PumpRuns
      <4>2. Idle \in [state : WorkerStates, msg : Messages \cup {None}]
        BY DEF Idle, WorkerStates
      <4> QED BY <3>1, <4>1, <4>2
    <3> QED BY <3>2, <3>3
  <2>4. ASSUME NEW p \in Pumps, TurnEnds(p) PROVE TypeOK'
    BY <2>4 DEF TurnEnds, WorkerStates
  <2>5. ASSUME NEW r \in Rooms, CancelTurn(r)
        PROVE  worker' \in [Pumps -> [state : WorkerStates, msg : Messages \cup {None}]]
    BY <2>5 DEF CancelTurn, Active, WorkerStates
  <2>6. ASSUME NEW r \in Rooms
        PROVE  LET emptied == [queue EXCEPT ![r] = <<>>]
               IN  /\ emptied \in [Rooms -> Seq(Entry)]
                   /\ \A q \in Rooms : Len(emptied[q]) <= MaxDirected
    BY QueueAssumption
  <2>7. ASSUME NEW r \in Rooms, CancelChannel(r) \/ Interrupt(r) PROVE TypeOK'
    BY <2>5, <2>6, <2>7 DEF CancelChannel, Interrupt
  <2>8. ASSUME NEW m \in Messages, CancelMessage(m) PROVE TypeOK'
    <3>1. RoomOf[m] \in Rooms
      BY QueueAssumption
    <3>2. CASE CancelTurn(RoomOf[m]) /\ UNCHANGED queue
      BY <2>5, <2>8, <3>1, <3>2 DEF CancelMessage
    <3>3. CASE /\ PlaceOf(queue[RoomOf[m]], m) # 0
               /\ queue' = [queue EXCEPT ![RoomOf[m]] =
                               RemoveAt(@, PlaceOf(queue[RoomOf[m]], m))]
               /\ UNCHANGED worker
      <4> DEFINE r == RoomOf[m]
                 i == PlaceOf(queue[r], m)
      <4>1. i \in 1..Len(queue[r])
        BY <3>1, <3>3, MessagePlaceInLine
      <4>2. /\ RemoveAt(queue[r], i) \in Seq(Entry)
            /\ Len(RemoveAt(queue[r], i)) = Len(queue[r]) - 1
        BY <3>1, <4>1, RemovalKeepsEntries
      <4>3. /\ queue' \in [Rooms -> Seq(Entry)]
            /\ \A q \in Rooms : Len(queue'[q]) <= MaxDirected
        BY <3>1, <3>3, <4>2, QueueAssumption
      <4> QED BY <2>8, <3>3, <4>3 DEF CancelMessage
    <3> QED BY <2>8, <3>2, <3>3 DEF CancelMessage
  <2>9. CASE CloseBegins
    BY <2>9 DEF CloseBegins
  <2>10. ASSUME NEW r \in Rooms, CloseVisits(r) PROVE TypeOK'
    <3>1. /\ queue' \in [Rooms -> Seq(Entry)]
          /\ \A q \in Rooms : Len(queue'[q]) <= MaxDirected
      BY <2>6, <2>10 DEF CloseVisits
    <3>2. /\ pump' \in [Rooms -> Pumps \cup {None}]
          /\ worker' \in [Pumps -> [state : WorkerStates, msg : Messages \cup {None}]]
      <4>1. CASE pump[r] # None /\ worker[pump[r]].state = "ready"
        <5>1. /\ worker' = [worker EXCEPT ![pump[r]] = Idle]
              /\ pump' = [pump EXCEPT ![r] = None]
          BY <2>10, <4>1 DEF CloseVisits
        <5>2. Idle \in [state : WorkerStates, msg : Messages \cup {None}]
          BY DEF Idle, WorkerStates
        <5> QED BY <5>1, <5>2
      <4>2. CASE ~(pump[r] # None /\ worker[pump[r]].state = "ready")
        BY <2>5, <2>10, <4>2 DEF CloseVisits
      <4> QED BY <4>1, <4>2
    <3> QED BY <2>10, <3>1, <3>2 DEF CloseVisits
  <2>11. CASE CloseMovesOn
    BY <2>11 DEF CloseMovesOn
  <2>12. CASE CloseEnds
    BY <2>12 DEF CloseEnds
  <2>13. CASE UNCHANGED vars
    BY <2>13 DEF vars
  <2> QED BY <2>1, <2>2, <2>3, <2>4, <2>7, <2>8, <2>9, <2>10, <2>11, <2>12, <2>13
          DEF Next, Close
<1> QED BY <1>1, <1>2, PTL DEF Spec
-----------------------------------------------------------------------------
(* The discipline of the pump tasks.  TurnIsTracked alone is not inductive:*)
(* a second pump would break it one step later, so the invariant says that *)
(* a room's pump is the only one of its tasks that is not done, and that   *)
(* state.running names it exactly while it awaits a turn.                  *)
Awaiting(p) == worker[p].state \in {"live", "cancelling", "over"}

PumpDiscipline ==
    /\ \A p \in Pumps : worker[p].state # "done" => pump[RoomFor(p)] = p
    /\ \A r \in Rooms : pump[r] # None =>
          RoomFor(pump[r]) = r /\ worker[pump[r]].state # "done"
    /\ \A p \in Pumps : Awaiting(p) <=> running[RoomFor(p)] = p
    /\ \A r \in Rooms : running[r] # None => RoomFor(running[r]) = r
    /\ \A r \in Rooms : queue[r] # <<>> => pump[r] # None

(* close() leaves behind only rooms it has finished with, and no room gets *)
(* a pump again: it has one only until it has been visited.                *)
CloseProgress ==
    /\ visiting # None => phase = "closing"
    /\ phase = "closed" => toClose = {}
    /\ phase # "open" =>
          \A r \in Rooms : pump[r] # None => r \in toClose \/ r = visiting

LEMMA NoneIsNoPump == None \notin Pumps /\ None \notin Rooms
BY QueueAssumption DEF Pumps

LEMMA PumpDisciplineInit == Init => PumpDiscipline /\ CloseProgress
<1> SUFFICES ASSUME Init PROVE PumpDiscipline /\ CloseProgress
  OBVIOUS
<1>1. \A p \in Pumps : worker[p].state = "done" /\ running[RoomFor(p)] # p
  BY NoneIsNoPump, PumpsHaveRooms DEF Init, Idle
<1>2. \A r \in Rooms : pump[r] = None /\ running[r] = None /\ queue[r] = <<>>
  BY DEF Init
<1>3. CloseProgress
  BY DEF Init, CloseProgress
<1> QED BY <1>1, <1>2, <1>3 DEF PumpDiscipline, Awaiting

(* Cancelling a turn changes no task's room and ends none.                 *)
LEMMA CancelKeepsTasks ==
    ASSUME TypeOK, PumpDiscipline, NEW r \in Rooms, CancelTurn(r)
    PROVE  \A p \in Pumps : /\ worker'[p].state = "done" <=> worker[p].state = "done"
                            /\ Awaiting(p)' <=> Awaiting(p)
BY DEF CancelTurn, Active, InTurn, Awaiting, TypeOK

LEMMA PumpDisciplineStep ==
    ASSUME TypeOK, PumpDiscipline, [Next]_vars
    PROVE  PumpDiscipline'
<1> USE NoneIsNoPump
<1>1. ASSUME NEW m \in Messages, NEW d \in BOOLEAN, Submit(m, d)
      PROVE  PumpDiscipline'
  <2> DEFINE r == RoomOf[m]
  <2>1. r \in Rooms /\ EnsurePump(r) /\ UNCHANGED running
        /\ \A q \in Rooms \ {r} : queue'[q] = queue[q]
    BY <1>1, QueueAssumption DEF Submit, TypeOK
  <2> HIDE DEF r
  <2>2. CASE NeedsPump(r)
    <3>1. pump[r] = None
      BY <2>1, <2>2 DEF NeedsPump, PumpDiscipline
    <3> DEFINE n == NewWorker(r)
    <3>2. /\ n \in Pumps /\ RoomFor(n) = r /\ worker[n] = Idle
          /\ worker' = [worker EXCEPT ![n].state = "ready"]
          /\ pump' = [pump EXCEPT ![r] = n]
      BY <2>1, <2>2, NewWorkerIsFree DEF EnsurePump
    <3> HIDE DEF n
    <3>3. \A p \in Pumps : p # n => worker'[p] = worker[p]
      BY <3>2 DEF TypeOK
    <3>4. worker'[n].state = "ready" /\ worker[n].state = "done"
      BY <3>2 DEF TypeOK, Idle
    <3>5. pump'[r] = n /\ \A q \in Rooms : q # r => pump'[q] = pump[q]
      BY <2>1, <3>2 DEF TypeOK
    <3>6. \A p \in Pumps : p # n /\ RoomFor(p) = r => worker[p].state = "done"
      BY <3>1 DEF PumpDiscipline
    <3> QED BY <2>1, <3>2, <3>3, <3>4, <3>5, <3>6, PumpsHaveRooms
            DEF PumpDiscipline, Awaiting, TypeOK
  <2>3. CASE ~NeedsPump(r)
    <3>1. pump[r] # None /\ UNCHANGED <<worker, pump, running>>
      BY <2>1, <2>3 DEF EnsurePump, NeedsPump
    <3> QED BY <2>1, <3>1 DEF PumpDiscipline, Awaiting
  <2> QED BY <2>2, <2>3
<1>2. ASSUME NEW r \in Rooms, NEW i \in 1..MaxDirected, GrowOld(r, i)
      PROVE  PumpDiscipline'
  <2>1. queue[r] # <<>>
    BY <1>2 DEF GrowOld
  <2>2. /\ UNCHANGED <<worker, pump, running>>
        /\ \A q \in Rooms \ {r} : queue'[q] = queue[q]
    BY <1>2 DEF GrowOld, TypeOK
  <2> QED BY <2>1, <2>2 DEF PumpDiscipline, Awaiting
<1>3. ASSUME NEW p \in Pumps, PumpRuns(p) PROVE PumpDiscipline'
  <2> DEFINE r == RoomFor(p)
  <2>1. r \in Rooms /\ pump[r] = p
    BY <1>3, PumpsHaveRooms DEF PumpRuns, PumpDiscipline
  <2>2. CASE HasWork(r)
    <3>1. /\ \A q \in Rooms \ {r} : queue'[q] = queue[q]
          /\ worker' = [worker EXCEPT ![p] =
                [@ EXCEPT !.state = "live", !.msg = Head(queue[r]).msg]]
          /\ running' = [running EXCEPT ![r] = p]
          /\ UNCHANGED pump
      BY <1>3, <2>1, <2>2 DEF PumpRuns, Recorded, TypeOK
    <3>2. /\ worker'[p].state = "live"
          /\ \A q \in Pumps : q # p => worker'[q] = worker[q]
      BY <3>1 DEF TypeOK
    <3>3. running'[r] = p /\ \A q \in Rooms : q # r => running'[q] = running[q]
      BY <2>1, <3>1 DEF TypeOK
    <3>4. \A q \in Pumps : q # p /\ RoomFor(q) = r => ~Awaiting(q)
      BY <2>1 DEF PumpDiscipline, Awaiting
    <3> QED BY <2>1, <3>1, <3>2, <3>3, <3>4, PumpsHaveRooms
            DEF PumpDiscipline, Awaiting
  <2>3. CASE ~HasWork(r)
    <3>1. /\ worker' = [worker EXCEPT ![p] = Idle]
          /\ running' = [running EXCEPT ![r] = None]
          /\ pump' = [pump EXCEPT ![r] = None]
          /\ UNCHANGED queue
          /\ queue[r] = <<>>
      BY <1>3, <2>3 DEF PumpRuns, HasWork
    <3>2. /\ worker'[p].state = "done"
          /\ \A q \in Pumps : q # p => worker'[q] = worker[q]
      BY <3>1 DEF TypeOK, Idle
    <3>3. /\ running'[r] = None /\ pump'[r] = None
          /\ \A q \in Rooms : q # r => running'[q] = running[q] /\ pump'[q] = pump[q]
      BY <2>1, <3>1 DEF TypeOK
    <3>4. \A q \in Pumps : q # p /\ RoomFor(q) = r => worker[q].state = "done"
      BY <2>1 DEF PumpDiscipline
    <3> QED BY <2>1, <3>1, <3>2, <3>3, <3>4, PumpsHaveRooms
            DEF PumpDiscipline, Awaiting, TypeOK
  <2> QED BY <2>2, <2>3
<1>4. ASSUME NEW p \in Pumps, TurnEnds(p) PROVE PumpDiscipline'
  <2>1. \A q \in Pumps : /\ worker'[q].state = "done" <=> worker[q].state = "done"
                         /\ Awaiting(q)' <=> Awaiting(q)
    BY <1>4 DEF TurnEnds, InTurn, Awaiting, TypeOK
  <2> QED BY <1>4, <2>1 DEF TurnEnds, PumpDiscipline, TypeOK
<1>5. ASSUME NEW r \in Rooms, CancelChannel(r) PROVE PumpDiscipline'
  <2>1. \A q \in Rooms : queue'[q] # <<>> => queue[q] # <<>>
    BY <1>5 DEF CancelChannel, TypeOK
  <2> QED BY <1>5, <2>1, CancelKeepsTasks DEF CancelChannel, PumpDiscipline, TypeOK
<1>6. ASSUME NEW r \in Rooms, Interrupt(r) PROVE PumpDiscipline'
  BY <1>6, CancelKeepsTasks DEF Interrupt, PumpDiscipline, TypeOK
<1>7. ASSUME NEW m \in Messages, CancelMessage(m) PROVE PumpDiscipline'
  <2> DEFINE r == RoomOf[m]
  <2>1. r \in Rooms
    BY QueueAssumption
  <2>2. CASE CancelTurn(r) /\ UNCHANGED queue
    BY <1>7, <2>1, <2>2, CancelKeepsTasks DEF CancelMessage, PumpDiscipline, TypeOK
  <2>3. CASE /\ PlaceOf(queue[r], m) # 0
             /\ queue' = [queue EXCEPT ![r] = RemoveAt(@, PlaceOf(queue[r], m))]
             /\ UNCHANGED worker
    <3>1. PlaceOf(queue[r], m) \in 1..Len(queue[r])
      BY <2>1, <2>3, MessagePlaceInLine DEF TypeOK
    <3>2. queue[r] # <<>> /\ \A q \in Rooms \ {r} : queue'[q] = queue[q]
      BY <2>1, <2>3, <3>1 DEF TypeOK
    <3> QED BY <1>7, <2>1, <2>3, <3>2 DEF CancelMessage, PumpDiscipline, Awaiting
  <2> QED BY <1>7, <2>2, <2>3 DEF CancelMessage
<1>8. ASSUME NEW r \in Rooms, CloseVisits(r) PROVE PumpDiscipline'
  <2>1. /\ queue'[r] = <<>> /\ \A q \in Rooms \ {r} : queue'[q] = queue[q]
        /\ UNCHANGED running
    BY <1>8 DEF CloseVisits, TypeOK
  <2>2. CASE pump[r] # None /\ worker[pump[r]].state = "ready"
    <3> DEFINE p == pump[r]
    <3>1. /\ p \in Pumps /\ RoomFor(p) = r
          /\ worker' = [worker EXCEPT ![p] = Idle]
          /\ pump' = [pump EXCEPT ![r] = None]
      BY <1>8, <2>2 DEF CloseVisits, TypeOK, PumpDiscipline
    <3> HIDE DEF p
    <3>2. /\ worker'[p].state = "done"
          /\ \A q \in Pumps : q # p => worker'[q] = worker[q]
      BY <3>1 DEF TypeOK, Idle
    <3>3. pump'[r] = None /\ \A q \in Rooms : q # r => pump'[q] = pump[q]
      BY <3>1 DEF TypeOK
    <3>4. worker[p].state = "ready" /\ pump[r] = p
      BY <2>2 DEF p
    <3>5. \A q \in Pumps : q # p /\ RoomFor(q) = r => worker[q].state = "done"
      BY <3>4 DEF PumpDiscipline
    <3> QED BY <2>1, <3>1, <3>2, <3>3, <3>4, <3>5, PumpsHaveRooms
            DEF PumpDiscipline, Awaiting, TypeOK
  <2>3. CASE CancelTurn(r) /\ UNCHANGED pump
    BY <2>1, <2>3, CancelKeepsTasks DEF PumpDiscipline, TypeOK
  <2> QED BY <1>8, <2>2, <2>3 DEF CloseVisits
<1>9. CASE CloseBegins \/ CloseMovesOn \/ CloseEnds \/ UNCHANGED vars
  BY <1>9 DEF CloseBegins, CloseMovesOn, CloseEnds, vars, PumpDiscipline, Awaiting
<1> QED BY <1>1, <1>2, <1>3, <1>4, <1>5, <1>6, <1>7, <1>8, <1>9 DEF Next, Close
-----------------------------------------------------------------------------
LEMMA CloseProgressStep ==
    ASSUME TypeOK, PumpDiscipline, CloseProgress, [Next]_vars
    PROVE  CloseProgress'
<1> USE NoneIsNoPump DEF CloseProgress
<1>1. ASSUME NEW m \in Messages, NEW d \in BOOLEAN, Submit(m, d)
      PROVE  CloseProgress'
  BY <1>1 DEF Submit, Accepting
<1>2. ASSUME NEW r \in Rooms, NEW i \in 1..MaxDirected, GrowOld(r, i)
      PROVE  CloseProgress'
  BY <1>2 DEF GrowOld
<1>3. ASSUME NEW p \in Pumps, PumpRuns(p) PROVE CloseProgress'
  <2>1. \A r \in Rooms : pump'[r] # None => pump[r] # None
    BY <1>3, PumpsHaveRooms DEF PumpRuns, TypeOK
  <2> QED BY <1>3, <2>1 DEF PumpRuns
<1>4. ASSUME NEW p \in Pumps, TurnEnds(p) PROVE CloseProgress'
  BY <1>4 DEF TurnEnds
<1>5. ASSUME NEW r \in Rooms, CancelChannel(r) \/ Interrupt(r)
      PROVE  CloseProgress'
  BY <1>5 DEF CancelChannel, Interrupt
<1>6. ASSUME NEW m \in Messages, CancelMessage(m) PROVE CloseProgress'
  BY <1>6 DEF CancelMessage
<1>7. CASE CloseBegins
  BY <1>7 DEF CloseBegins
<1>8. ASSUME NEW r \in Rooms, CloseVisits(r) PROVE CloseProgress'
  <2>1. \A q \in Rooms : pump'[q] # None => pump[q] # None
    BY <1>8 DEF CloseVisits, TypeOK
  <2> QED BY <1>8, <2>1 DEF CloseVisits, TypeOK
<1>9. CASE CloseMovesOn
  BY <1>9 DEF CloseMovesOn
<1>10. CASE CloseEnds
  BY <1>10 DEF CloseEnds
<1>11. CASE UNCHANGED vars
  BY <1>11 DEF vars
<1> QED BY <1>1, <1>2, <1>3, <1>4, <1>5, <1>6, <1>7, <1>8, <1>9, <1>10, <1>11
        DEF Next, Close

(* Who is waiting after a step: at most the submitted message is new.      *)
LEMMA SubmittedLine ==
    ASSUME TypeOK, NEW m \in Messages, NEW d \in BOOLEAN, Submit(m, d)
    PROVE  /\ RoomOf[m] \in Rooms
           /\ \A r \in Rooms : r # RoomOf[m] => queue'[r] = queue[r]
           /\ Ids(queue'[RoomOf[m]]) \subseteq Ids(queue[RoomOf[m]]) \cup {m}
           /\ WellFormed(queue[RoomOf[m]]) => WellFormed(queue'[RoomOf[m]])
<1> DEFINE r == RoomOf[m]
           e == [msg |-> m, directed |-> d, stale |-> FALSE]
           line == Unexpired(queue[r])
<1>1. r \in Rooms /\ e \in Entry /\ e.msg = m
  BY QueueAssumption DEF Entry
<1>2. queue' = [queue EXCEPT ![r] = Placed(line, e)]
  BY DEF Submit
<1> HIDE DEF r, e
<1>3. /\ line \in Seq(Entry) /\ Len(line) <= MaxDirected
      /\ Ids(line) \subseteq Ids(queue[r])
      /\ WellFormed(queue[r]) => WellFormed(line)
  <2>1. queue[r] \in Seq(Entry) /\ Len(queue[r]) <= MaxDirected
    BY <1>1 DEF TypeOK
  <2>2. /\ line \in Seq(Entry) /\ Len(line) <= Len(queue[r])
        /\ Ids(line) \subseteq Ids(queue[r])
        /\ WellFormed(queue[r]) => WellFormed(line)
    BY <2>1, ExpiryKeepsEntries
  <2> HIDE DEF line
  <2> QED BY <2>1, <2>2, QueueAssumption
<1> HIDE DEF line
<1>4. /\ Ids(Placed(line, e)) \subseteq Ids(line) \cup {m}
      /\ WellFormed(line) => WellFormed(Placed(line, e))
  BY <1>1, <1>3, PlacingKeepsEntries
<1>5. queue'[r] = Placed(line, e) /\ \A q \in Rooms : q # r => queue'[q] = queue[q]
  BY <1>1, <1>2 DEF TypeOK
<1> QED BY <1>1, <1>3, <1>4, <1>5 DEF r

(* The pump takes the first message of a well-formed line, and only that.  *)
LEMMA FirstLeaves ==
    ASSUME NEW line \in Seq(Entry), line # <<>>, WellFormed(line)
    PROVE  /\ Head(line).msg \in Ids(line)
           /\ Ids(Tail(line)) = Ids(line) \ {Head(line).msg}
           /\ WellFormed(Tail(line))
<1>1. /\ Head(line) = line[1] /\ 1 \in DOMAIN line
      /\ Tail(line) \in Seq(Entry) /\ Len(Tail(line)) = Len(line) - 1
      /\ \A i \in DOMAIN Tail(line) : Tail(line)[i] = line[i + 1] /\ i + 1 \in DOMAIN line
  OBVIOUS
<1>2. \A i \in DOMAIN line : i # 1 =>
        i - 1 \in DOMAIN Tail(line) /\ line[i] = Tail(line)[i - 1]
  BY <1>1
<1>3. \A i \in DOMAIN line : i # 1 => line[i].msg # line[1].msg
  BY <1>1 DEF WellFormed
<1>4. Ids(Tail(line)) \subseteq Ids(line) \ {line[1].msg}
  BY <1>1, <1>3 DEF Ids
<1>5. Ids(line) \ {line[1].msg} \subseteq Ids(Tail(line))
  BY <1>2 DEF Ids
<1>6. WellFormed(Tail(line))
  BY <1>1 DEF WellFormed
<1> QED BY <1>1, <1>4, <1>5, <1>6 DEF Ids

(* Growing old changes no message of the line.                             *)
LEMMA OldLineIsTheLine ==
    ASSUME TypeOK, NEW r \in Rooms, NEW i \in 1..MaxDirected, GrowOld(r, i)
    PROVE  /\ \A q \in Rooms : Ids(queue'[q]) = Ids(queue[q])
           /\ WellFormedLines => WellFormedLines'
<1>1. \A q \in Rooms : DOMAIN queue'[q] = DOMAIN queue[q]
  BY DEF GrowOld, TypeOK
<1>2. \A q \in Rooms : \A k \in DOMAIN queue[q] :
        /\ queue'[q][k].msg = queue[q][k].msg
        /\ queue'[q][k].directed = queue[q][k].directed
  <2> TAKE q \in Rooms
  <2> TAKE k \in DOMAIN queue[q]
  <2>1. queue[q][k] \in Entry
    BY DEF TypeOK
  <2> QED BY <2>1 DEF GrowOld, TypeOK, Entry
<1> QED BY <1>1, <1>2 DEF Ids, WellFormedLines, WellFormed

LEMMA EmptyLineIsWellFormed == Ids(<<>>) = {} /\ WellFormed(<<>>)
BY DEF Ids, WellFormed

LEMMA CancelledEntry ==
    ASSUME TypeOK, NEW m \in Messages, CancelMessage(m), queue' # queue
    PROVE  LET r == RoomOf[m]
           IN  /\ r \in Rooms
               /\ \A q \in Rooms : q # r => queue'[q] = queue[q]
               /\ Ids(queue'[r]) \subseteq Ids(queue[r])
               /\ WellFormed(queue[r]) => WellFormed(queue'[r])
               /\ UNCHANGED worker
<1> DEFINE r == RoomOf[m]
           i == PlaceOf(queue[r], m)
<1>1. r \in Rooms
  BY QueueAssumption
<1>2. /\ i # 0 /\ UNCHANGED worker
      /\ queue' = [queue EXCEPT ![r] = RemoveAt(@, i)]
  BY DEF CancelMessage
<1>3. queue[r] \in Seq(Entry)
  BY <1>1 DEF TypeOK
<1>4. i \in 1..Len(queue[r])
  BY <1>2, <1>3, MessagePlaceInLine
<1> HIDE DEF i, r
<1>5. /\ Ids(RemoveAt(queue[r], i)) \subseteq Ids(queue[r])
      /\ WellFormed(queue[r]) => WellFormed(RemoveAt(queue[r], i))
  BY <1>3, <1>4, RemovalKeepsEntries
<1>6. /\ queue'[r] = RemoveAt(queue[r], i)
      /\ \A q \in Rooms : q # r => queue'[q] = queue[q]
  BY <1>1, <1>2 DEF TypeOK
<1> QED BY <1>1, <1>2, <1>5, <1>6 DEF r

LEMMA WellFormedStep ==
    ASSUME TypeOK, WellFormedLines, [Next]_vars
    PROVE  WellFormedLines'
<1> USE EmptyLineIsWellFormed DEF WellFormedLines
<1>1. ASSUME NEW m \in Messages, NEW d \in BOOLEAN, Submit(m, d)
      PROVE  WellFormedLines'
  BY <1>1, SubmittedLine
<1>2. ASSUME NEW r \in Rooms, NEW i \in 1..MaxDirected, GrowOld(r, i)
      PROVE  WellFormedLines'
  BY <1>2, OldLineIsTheLine
<1>3. ASSUME NEW p \in Pumps, PumpRuns(p) PROVE WellFormedLines'
  <2> DEFINE r == RoomFor(p)
  <2>1. CASE HasWork(r)
    <3>1. WellFormed(Tail(queue[r]))
      <4>1. queue[r] \in Seq(Entry) /\ queue[r] # <<>> /\ WellFormed(queue[r])
        BY <2>1, PumpsHaveRooms DEF HasWork, TypeOK
      <4> QED BY <4>1, FirstLeaves
    <3>2. queue' = [queue EXCEPT ![r] = Tail(@)]
      BY <1>3, <2>1 DEF PumpRuns
    <3>3. \A q \in Rooms : queue'[q] = IF q = r THEN Tail(queue[r]) ELSE queue[q]
      BY <3>2 DEF TypeOK
    <3> QED BY <3>1, <3>3
  <2>2. CASE ~HasWork(r)
    BY <1>3, <2>2 DEF PumpRuns
  <2> QED BY <2>1, <2>2
<1>4. ASSUME NEW r \in Rooms, CancelChannel(r) \/ CloseVisits(r)
      PROVE  WellFormedLines'
  <2>1. \A q \in Rooms : queue'[q] = IF q = r THEN <<>> ELSE queue[q]
    BY <1>4 DEF CancelChannel, CloseVisits, TypeOK
  <2> QED BY <2>1
<1>5. ASSUME NEW m \in Messages, CancelMessage(m) PROVE WellFormedLines'
  BY <1>5, CancelledEntry
<1>6. CASE \/ \E p \in Pumps : TurnEnds(p)
           \/ \E r \in Rooms : Interrupt(r)
           \/ CloseBegins \/ CloseMovesOn \/ CloseEnds \/ UNCHANGED vars
  BY <1>6 DEF TurnEnds, Interrupt, CloseBegins, CloseMovesOn, CloseEnds, vars
<1> QED BY <1>1, <1>2, <1>3, <1>4, <1>5, <1>6 DEF Next, Close
-----------------------------------------------------------------------------
(* The inductive invariant.                                                *)
IInv == TypeOK /\ WellFormedLines /\ PumpDiscipline /\ CloseProgress

THEOREM InductiveInvariant == Spec => []IInv
<1>1. Init => WellFormedLines
  BY EmptyLineIsWellFormed DEF Init, WellFormedLines
<1>2. WellFormedLines /\ TypeOK /\ [Next]_vars => WellFormedLines'
  BY WellFormedStep
<1>3. TypeOK /\ PumpDiscipline /\ [Next]_vars => PumpDiscipline'
  BY PumpDisciplineStep
<1>4. TypeOK /\ PumpDiscipline /\ CloseProgress /\ [Next]_vars => CloseProgress'
  BY CloseProgressStep
<1> QED BY <1>1, <1>2, <1>3, <1>4, TypeCorrect, PumpDisciplineInit, PTL
        DEF Spec, IInv

(* A message waits at most once and soft lines coalesce (submit), whatever *)
(* order submissions, expiry, eviction and cancellation come in.           *)
THEOREM LinesWellFormed == Spec => []WellFormedLines
BY InductiveInvariant, PTL DEF IInv

(* No interleaving strands a queue without a pump (_ensure_pump, _pump).   *)
THEOREM LinesManned == Spec => []NobodyForgotten
<1>1. IInv => NobodyForgotten
  BY DEF IInv, PumpDiscipline, NobodyForgotten
<1> QED BY <1>1, InductiveInvariant, PTL

(* A room's live turn is unique and is the one state.running names.        *)
THEOREM TurnsTracked == Spec => []TurnIsTracked
<1>1. IInv => TurnIsTracked
  BY DEF IInv, PumpDiscipline, TurnIsTracked, InTurn, Awaiting
<1> QED BY <1>1, InductiveInvariant, PTL

(* Once close() has returned no task of the queue is left.                 *)
THEOREM ClosesQuietly == Spec => []QuietAfterClose
<1>1. IInv => QuietAfterClose
  <2> SUFFICES ASSUME IInv, phase = "closed" PROVE QuietAfterClose
    BY DEF QuietAfterClose
  <2>1. \A r \in Rooms : pump[r] = None
    BY NoneIsNoPump DEF IInv, CloseProgress
  <2>2. \A p \in Pumps : worker[p].state = "done"
    BY <2>1, NoneIsNoPump, PumpsHaveRooms DEF IInv, PumpDiscipline
  <2> QED BY <2>1, <2>2 DEF QuietAfterClose, IInv, PumpDiscipline
<1> QED BY <1>1, InductiveInvariant, PTL
-----------------------------------------------------------------------------
(* A step that leaves every turn where it is leaves answering alone.       *)
LEMMA SameAnswers ==
    ASSUME \A p \in Pumps : /\ InTurn(p)' <=> InTurn(p)
                            /\ InTurn(p) => worker'[p].msg = worker[p].msg
    PROVE  Answering' = Answering
<1>1. \A r \in Rooms : Turns(r)' = Turns(r)
  BY DEF Turns
<1>2. \A r \in Rooms : {worker[p].msg : p \in Turns(r)}' = {worker[p].msg : p \in Turns(r)}
  BY <1>1 DEF Turns
<1> QED BY <1>2 DEF Answering

LEMMA CancelKeepsAnswers ==
    ASSUME TypeOK, NEW r \in Rooms, CancelTurn(r)
    PROVE  Answering' = Answering
BY SameAnswers DEF CancelTurn, Active, InTurn, TypeOK

(* Every step of ReplyQueue is a step of ReplyLine or changes nothing that *)
(* ReplyLine can see.                                                      *)
LEMMA StepRefinesLine ==
    ASSUME IInv, [Next]_vars
    PROVE  [Line!Next]_(Line!vars)
<1> USE DEF IInv, Line!vars
<1>1. ASSUME NEW m \in Messages, NEW d \in BOOLEAN, Submit(m, d)
      PROVE  [Line!Next]_(Line!vars)
  <2> DEFINE r == RoomOf[m]
  <2>1. /\ r \in Rooms
        /\ \A q \in Rooms : q # r => queue'[q] = queue[q]
        /\ Ids(queue'[r]) \subseteq Ids(queue[r]) \cup {m}
    BY <1>1, SubmittedLine
  <2>2. phase = "open" /\ phase' = phase
    BY <1>1 DEF Submit, Accepting
  <2>3. Answering' = Answering
    <3>1. CASE NeedsPump(r)
      <4>1. /\ NewWorker(r) \in Pumps /\ worker[NewWorker(r)] = Idle
            /\ worker' = [worker EXCEPT ![NewWorker(r)].state = "ready"]
        BY <1>1, <2>1, <3>1, NewWorkerIsFree DEF Submit, EnsurePump
      <4> QED BY <4>1, SameAnswers DEF InTurn, Idle, TypeOK
    <3>2. CASE ~NeedsPump(r)
      BY <1>1, <3>2, SameAnswers DEF Submit, EnsurePump, InTurn
    <3> QED BY <3>1, <3>2
  <2> HIDE DEF r
  <2>4. \A q \in Rooms : Waiting'[q] = Ids(queue'[q]) /\ Waiting[q] = Ids(queue[q])
    BY DEF Waiting
  <2>5. Waiting' = [Waiting EXCEPT ![r] = Ids(queue'[r])]
    BY <2>1, <2>4 DEF Waiting
  <2> DEFINE gone == Waiting[r] \ Ids(queue'[r])
  <2>6. CASE m \in Ids(queue'[r])
    <3>1. Ids(queue'[r]) = (Waiting[r] \ gone) \cup {m}
      BY <2>1, <2>4, <2>6
    <3>2. Line!Join(r, m)
      BY <2>2, <2>3, <2>5, <3>1 DEF Line!Join
    <3> QED BY <2>1, <3>2 DEF Line!Next
  <2>7. CASE m \notin Ids(queue'[r])
    <3>1. Ids(queue'[r]) = Waiting[r] \ gone
      BY <2>1, <2>4, <2>7
    <3>2. Line!Leave(r)
      BY <2>2, <2>3, <2>5, <3>1 DEF Line!Leave
    <3> QED BY <2>1, <3>2 DEF Line!Next
  <2> QED BY <2>6, <2>7
<1>2. ASSUME NEW r \in Rooms, NEW i \in 1..MaxDirected, GrowOld(r, i)
      PROVE  [Line!Next]_(Line!vars)
  <2>1. Waiting' = Waiting
    BY <1>2, OldLineIsTheLine DEF Waiting
  <2>2. Answering' = Answering
    BY <1>2, SameAnswers DEF GrowOld, InTurn
  <2> QED BY <1>2, <2>1, <2>2 DEF GrowOld
<1>3. ASSUME NEW p \in Pumps, PumpRuns(p) PROVE [Line!Next]_(Line!vars)
  <2> DEFINE r == RoomFor(p)
  <2>1. r \in Rooms /\ phase' = phase /\ worker[p].state \in {"ready", "over"}
    BY <1>3, PumpsHaveRooms DEF PumpRuns
  <2>2. \A q \in Pumps : RoomFor(q) = r => ~InTurn(q)
    <3>1. pump[r] = p
      BY <2>1 DEF PumpDiscipline
    <3> QED BY <2>1, <3>1 DEF PumpDiscipline, InTurn
  <2>3. CASE HasWork(r)
    <3> DEFINE m == Head(queue[r]).msg
    <3>1. /\ queue' = [queue EXCEPT ![r] = Tail(@)]
          /\ worker' = [worker EXCEPT ![p] = [@ EXCEPT !.state = "live", !.msg = m]]
      BY <1>3, <2>3 DEF PumpRuns
    <3>2. queue[r] \in Seq(Entry) /\ queue[r] # <<>> /\ WellFormed(queue[r])
      BY <2>1, <2>3 DEF HasWork, TypeOK, WellFormedLines
    <3>3. m \in Ids(queue[r]) /\ Ids(Tail(queue[r])) = Ids(queue[r]) \ {m}
      BY <3>2, FirstLeaves
    <3>4. m \in Messages
      <4>1. Head(queue[r]) \in Entry
        BY <3>2
      <4> QED BY <4>1 DEF Entry
    <3> HIDE DEF m
    <3>5. Waiting' = [Waiting EXCEPT ![r] = @ \ {m}]
      <4>1. \A q \in Rooms : queue'[q] = IF q = r THEN Tail(queue[r]) ELSE queue[q]
        BY <3>1 DEF TypeOK
      <4> QED BY <2>1, <3>3, <4>1 DEF Waiting
    <3>6. /\ InTurn(p)' /\ worker'[p].msg = m
          /\ \A q \in Pumps : q # p => worker'[q] = worker[q]
      BY <3>1 DEF TypeOK, InTurn
    <3>7. Answering[r] = {}
      BY <2>1, <2>2 DEF Answering, Turns
    <3>8. Answering' = [Answering EXCEPT ![r] = {m}]
      <4>1. Turns(r)' = {p}
        BY <2>2, <3>6 DEF Turns, InTurn
      <4>2. \A q \in Rooms : q # r => Turns(q)' = Turns(q) /\ p \notin Turns(q)
        BY <3>6 DEF Turns, InTurn
      <4>3. {worker'[q].msg : q \in Turns(r)'} = {m}
        BY <3>6, <4>1
      <4>4. \A q \in Rooms : q # r =>
              {worker'[k].msg : k \in Turns(q)'} = {worker[k].msg : k \in Turns(q)}
        BY <3>6, <4>2 DEF Turns
      <4> QED BY <2>1, <4>3, <4>4 DEF Answering
    <3>9. m \in Waiting[r]
      BY <2>1, <3>3 DEF Waiting
    <3>10. Line!Begin(r, m)
      BY <2>1, <3>5, <3>7, <3>8, <3>9 DEF Line!Begin
    <3> QED BY <2>1, <3>4, <3>10 DEF Line!Next
  <2>4. CASE ~HasWork(r)
    <3>1. UNCHANGED queue /\ worker' = [worker EXCEPT ![p] = Idle]
      BY <1>3, <2>4 DEF PumpRuns
    <3>2. Answering' = Answering
      BY <2>2, <3>1, SameAnswers DEF InTurn, Idle, TypeOK
    <3> QED BY <2>1, <3>1, <3>2 DEF Waiting
  <2> QED BY <2>3, <2>4
<1>4. ASSUME NEW p \in Pumps, TurnEnds(p) PROVE [Line!Next]_(Line!vars)
  <2> DEFINE r == RoomFor(p)
  <2>1. /\ r \in Rooms /\ InTurn(p) /\ ~InTurn(p)'
        /\ \A q \in Pumps : q # p => worker'[q] = worker[q]
        /\ UNCHANGED <<queue, phase>>
    BY <1>4, PumpsHaveRooms DEF TurnEnds, InTurn, TypeOK
  <2>2. \A q \in Pumps : RoomFor(q) = r /\ q # p => ~InTurn(q)
    BY <2>1 DEF PumpDiscipline, InTurn
  <2>3. Turns(r)' = {}
    BY <2>1, <2>2 DEF Turns, InTurn
  <2>4. \A q \in Rooms : q # r => Turns(q)' = Turns(q) /\ p \notin Turns(q)
    BY <2>1 DEF Turns, InTurn
  <2>5. \A q \in Rooms : q # r =>
          {worker'[k].msg : k \in Turns(q)'} = {worker[k].msg : k \in Turns(q)}
    BY <2>1, <2>4 DEF Turns
  <2>6. Answering' = [Answering EXCEPT ![r] = {}]
    BY <2>1, <2>3, <2>5 DEF Answering
  <2>7. Line!End(r)
    BY <2>1, <2>6 DEF Line!End, Waiting
  <2> QED BY <2>1, <2>7 DEF Line!Next
<1>5. ASSUME NEW r \in Rooms, CancelChannel(r) \/ CloseVisits(r)
      PROVE  [Line!Next]_(Line!vars)
  <2>1. \A q \in Rooms : queue'[q] = IF q = r THEN <<>> ELSE queue[q]
    BY <1>5 DEF CancelChannel, CloseVisits, TypeOK
  <2>2. Waiting' = [Waiting EXCEPT ![r] = @ \ Waiting[r]]
    BY <2>1, EmptyLineIsWellFormed DEF Waiting
  <2>3. Answering' = Answering
    <3>1. CASE CancelTurn(r)
      BY <3>1, CancelKeepsAnswers
    <3>2. CASE /\ pump[r] # None /\ worker[pump[r]].state = "ready"
               /\ worker' = [worker EXCEPT ![pump[r]] = Idle]
      BY <3>2, SameAnswers DEF InTurn, Idle, TypeOK
    <3> QED BY <1>5, <3>1, <3>2 DEF CancelChannel, CloseVisits
  <2>4. Line!Leave(r)
    BY <1>5, <2>2, <2>3 DEF CancelChannel, CloseVisits, Line!Leave
  <2> QED BY <2>4 DEF Line!Next
<1>6. ASSUME NEW r \in Rooms, Interrupt(r) PROVE [Line!Next]_(Line!vars)
  BY <1>6, CancelKeepsAnswers DEF Interrupt, Waiting
<1>7. ASSUME NEW m \in Messages, CancelMessage(m) PROVE [Line!Next]_(Line!vars)
  <2> DEFINE r == RoomOf[m]
  <2>1. phase' = phase /\ r \in Rooms
    BY <1>7, QueueAssumption DEF CancelMessage
  <2>2. CASE queue' = queue
    <3>1. CancelTurn(r) \/ UNCHANGED worker
      BY <1>7 DEF CancelMessage
    <3>2. Answering' = Answering
      BY <2>1, <3>1, CancelKeepsAnswers, SameAnswers DEF InTurn
    <3> QED BY <2>1, <2>2, <3>2 DEF Waiting
  <2>3. CASE queue' # queue
    <3>1. /\ \A q \in Rooms : q # r => queue'[q] = queue[q]
          /\ Ids(queue'[r]) \subseteq Ids(queue[r])
          /\ UNCHANGED worker
      BY <1>7, <2>3, CancelledEntry
    <3>2. Answering' = Answering
      BY <3>1, SameAnswers DEF InTurn
    <3>3. Waiting' = [Waiting EXCEPT ![r] = @ \ (Waiting[r] \ Ids(queue'[r]))]
      BY <2>1, <3>1 DEF Waiting
    <3>4. Line!Leave(r)
      BY <2>1, <3>2, <3>3 DEF Line!Leave
    <3> QED BY <2>1, <3>4 DEF Line!Next
  <2> QED BY <2>2, <2>3
<1>8. CASE CloseBegins \/ CloseMovesOn \/ UNCHANGED vars
  <2>1. UNCHANGED <<Waiting, Answering>>
    BY <1>8, SameAnswers DEF CloseBegins, CloseMovesOn, vars, Waiting, InTurn
  <2> QED BY <1>8, <2>1 DEF CloseBegins, CloseMovesOn, vars
<1>9. CASE CloseEnds
  <2>1. UNCHANGED <<Waiting, Answering>> /\ phase' = "closed"
    BY <1>9, SameAnswers DEF CloseEnds, Waiting, InTurn
  <2>2. \A r \in Rooms : pump[r] = None
    BY <1>9, NoneIsNoPump DEF CloseEnds, CloseProgress
  <2>3. \A r \in Rooms : Waiting[r] = {}
    BY <2>2, EmptyLineIsWellFormed DEF PumpDiscipline, Waiting
  <2>4. \A r \in Rooms : Answering[r] = {}
    <3>1. \A p \in Pumps : ~InTurn(p)
      BY <2>2, NoneIsNoPump, PumpsHaveRooms DEF PumpDiscipline, InTurn
    <3> QED BY <3>1 DEF Answering, Turns
  <2>5. Line!Close
    BY <2>1, <2>3, <2>4 DEF Line!Close
  <2> QED BY <2>5 DEF Line!Next
<1> QED BY <1>1, <1>2, <1>3, <1>4, <1>5, <1>6, <1>7, <1>8, <1>9 DEF Next, Close

(* The queue with its pump tasks implements the abstract line: at most one *)
(* message of a room is being answered, only a waiting one is taken, and   *)
(* after close() there is nothing left.                                    *)
THEOREM ImplementsLine == Spec => LineSpec
<1>1. Init => Line!Init
  <2> SUFFICES ASSUME Init PROVE Line!Init
    OBVIOUS
  <2>1. Waiting = [r \in Rooms |-> {}]
    BY EmptyLineIsWellFormed DEF Init, Waiting
  <2>2. Answering = [r \in Rooms |-> {}]
    BY DEF Init, Answering, Turns, InTurn, Idle
  <2> QED BY <2>1, <2>2 DEF Init, Line!Init
<1>2. IInv /\ [Next]_vars => [Line!Next]_(Line!vars)
  BY StepRefinesLine
<1> QED BY <1>1, <1>2, InductiveInvariant, PTL DEF Spec, LineSpec, Line!Spec
-------------------------------------------------------------------------
(* Who gives way.  A line of distinct directed messages has as many of     *)
(* them as it has places.                                                  *)
LEMMA OneMessageAPlace ==
    ASSUME NEW line \in Seq(Entry), WellFormed(line),
           \A k \in DOMAIN line : line[k].directed
    PROVE  Cardinality(Directed(line)) = Len(line)
<1> DEFINE n == Len(line)
           S == Directed(line)
           f == [k \in 1..n |-> line[k].msg]
<1>1. n \in Nat /\ DOMAIN line = 1..n
  OBVIOUS
<1>2. S = {line[k].msg : k \in 1..n}
  BY <1>1 DEF Directed
<1>3. \A j, k \in 1..n : line[j].msg = line[k].msg => j = k
  BY <1>1 DEF WellFormed
<1> HIDE DEF n, S
<1>4. f \in [1..n -> S] /\ (\A s \in S : \E k \in 1..n : f[k] = s)
      /\ \A j, k \in 1..n : f[j] = f[k] => j = k
  BY <1>2, <1>3
<1> HIDE DEF f
<1>5. f \in Bijection(1..n, S)
  BY <1>4 DEF Bijection, Injection, Surjection, IsInjective
<1>6. ExistsBijection(1..n, S)
  BY <1>5 DEF ExistsBijection
<1> QED BY <1>1, <1>6, FS_CountingElements DEF n, S

(* What placing a newcomer in a line costs.                                *)
LEMMA PlacingCostsTheOldest ==
    ASSUME NEW line \in Seq(Entry), Len(line) <= MaxDirected, WellFormed(line),
           NEW e \in Entry, e.msg \notin Ids(line)
    PROVE  \/ Directed(line) \subseteq Ids(Placed(line, e))
           \/ /\ e.msg \in Directed(Placed(line, e))
              /\ Cardinality(Directed(line)) = MaxDirected
              /\ Directed(line) \ Ids(Placed(line, e)) = {line[1].msg}
<1> DEFINE longer == Append(line, e)
           new == Placed(line, e)
<1>1. PlaceOf(line, e.msg) = 0
  BY MessagePlaceInLine DEF Ids
<1>2. MaxDirected \in Nat \ {0}
  BY QueueAssumption
<1>3. CASE ~e.directed /\ SoftPlace(line) # 0
  <2> DEFINE i == SoftPlace(line)
  <2>1. new = TakePlace(line, i, e)
    BY <1>1, <1>3 DEF Placed
  <2>2. i \in DOMAIN line /\ ~line[i].directed
    BY <1>3, SoftPlaceInLine
  <2> HIDE DEF i, new
  <2>3. /\ DOMAIN new = DOMAIN line
        /\ \A k \in DOMAIN line : k # i => new[k] = line[k]
    BY <2>1, <2>2 DEF TakePlace, ReplaceAt
  <2>4. Directed(line) \subseteq Ids(new)
    BY <2>2, <2>3 DEF Directed, Ids
  <2> QED BY <2>4 DEF new
<1>4. CASE e.directed \/ SoftPlace(line) = 0
  <2>1. new = EnforceBound(longer)
    BY <1>1, <1>4 DEF Placed
  <2>2. e.directed \/ \A k \in DOMAIN line : line[k].directed
    BY <1>4, SoftPlaceInLine
  <2>3. /\ longer \in Seq(Entry) /\ Len(longer) = Len(line) + 1
        /\ WellFormed(longer)
    BY <2>2, AppendingKeepsEntries
  <2>4. /\ longer[Len(line) + 1] = e
        /\ \A k \in DOMAIN line : k \in DOMAIN longer /\ longer[k] = line[k]
    OBVIOUS
  <2> HIDE DEF longer, new
  <2>5. CASE ~Overfull(longer)
    <3>1. new = longer
      BY <2>1, <2>5 DEF EnforceBound
    <3>2. Directed(line) \subseteq Ids(new)
      BY <2>4, <3>1 DEF Directed, Ids
    <3> QED BY <3>2 DEF new
  <2>6. CASE Overfull(longer)
    <3> DEFINE v == Victim(longer)
    <3>1. new = RemoveAt(longer, v) /\ Len(line) = MaxDirected
      BY <1>2, <2>1, <2>3, <2>6 DEF EnforceBound, Overfull
    <3>2. v \in 1..Len(longer)
      BY <2>3, SoftPlaceInLine DEF Victim
    <3> HIDE DEF v
    <3>3. /\ \A k \in DOMAIN longer : k # v => \E j \in DOMAIN new : new[j] = longer[k]
          /\ \A j \in DOMAIN new : \E k \in DOMAIN longer : k # v /\ new[j] = longer[k]
      <4>1. Range(new) = Others(longer, v)
        BY <2>3, <3>1, <3>2, RemovalKeepsEntries
      <4> QED BY <4>1 DEF Range, Others
    <3>4. CASE SoftPlace(longer) # 0
      <4>1. ~longer[v].directed
        BY <2>3, <3>4, SoftPlaceInLine DEF Victim, v
      <4>2. Directed(line) \subseteq Ids(new)
        BY <2>4, <3>3, <4>1 DEF Directed, Ids
      <4> QED BY <4>2 DEF new
    <3>5. CASE SoftPlace(longer) = 0
      <4>1. v = 1
        BY <3>5 DEF Victim, v
      <4>2. \A k \in DOMAIN longer : longer[k].directed
        BY <2>3, <3>5, SoftPlaceInLine
      <4>3. \A k \in DOMAIN line : line[k].directed
        BY <2>4, <4>2
      <4>4. Cardinality(Directed(line)) = MaxDirected
        BY <3>1, <4>3, OneMessageAPlace
      <4>5. 1 \in DOMAIN line /\ Len(line) + 1 \in DOMAIN longer /\ Len(line) + 1 # 1
        BY <1>2, <2>3, <3>1
      <4>6. e.msg \in Directed(new)
        <5>1. \E j \in DOMAIN new : new[j] = e
          BY <2>4, <3>3, <4>1, <4>5
        <5>2. e.directed
          BY <2>4, <4>2, <4>5
        <5> QED BY <5>1, <5>2 DEF Directed
      <4>7. line[1].msg \in Directed(line) /\ line[1].msg \notin Ids(new)
        <5>1. line[1] = longer[1] /\ 1 \in DOMAIN longer
          BY <2>4, <4>5
        <5>2. \A k \in DOMAIN longer : k # 1 => longer[k].msg # longer[1].msg
          BY <2>3, <5>1 DEF WellFormed
        <5>3. line[1].msg \notin Ids(new)
          BY <3>3, <4>1, <5>1, <5>2 DEF Ids
        <5> QED BY <4>3, <4>5, <5>3 DEF Directed
      <4>8. \A k \in DOMAIN line : k # 1 => line[k].msg \in Ids(new)
        BY <2>4, <3>3, <4>1 DEF Ids
      <4>9. Directed(line) \ Ids(new) = {line[1].msg}
        BY <4>7, <4>8 DEF Directed
      <4> QED BY <4>4, <4>6, <4>9 DEF new
    <3> QED BY <3>4, <3>5
  <2> QED BY <2>5, <2>6
<1> QED BY <1>3, <1>4

(* Only a submission brings a newcomer.                                    *)
LEMMA OnlySubmissionsAdd ==
    ASSUME TypeOK, WellFormedLines, [Next]_vars,
           NEW r \in Rooms, Newcomers(r) # {}
    PROVE  \E m \in Messages, d \in BOOLEAN : Submit(m, d) /\ RoomOf[m] = r
<1>1. ASSUME NEW m \in Messages, NEW d \in BOOLEAN, Submit(m, d)
      PROVE  RoomOf[m] = r
  BY <1>1, SubmittedLine DEF Newcomers
<1>2. ASSUME NEW q \in Rooms, NEW i \in 1..MaxDirected, GrowOld(q, i)
      PROVE  FALSE
  BY <1>2, OldLineIsTheLine DEF Newcomers
<1>3. ASSUME NEW p \in Pumps, PumpRuns(p) PROVE FALSE
  <2>1. queue'[r] = queue[r] \/ (r = RoomFor(p) /\ HasWork(r) /\ queue'[r] = Tail(queue[r]))
    BY <1>3 DEF PumpRuns, TypeOK
  <2>2. CASE HasWork(r) /\ queue'[r] = Tail(queue[r])
    <3>1. queue[r] \in Seq(Entry) /\ queue[r] # <<>> /\ WellFormed(queue[r])
      BY <2>2 DEF HasWork, TypeOK, WellFormedLines
    <3>2. Ids(Tail(queue[r])) \subseteq Ids(queue[r])
      BY <3>1, FirstLeaves
    <3> QED BY <2>2, <3>2 DEF Newcomers
  <2> QED BY <2>1, <2>2 DEF Newcomers
<1>4. ASSUME NEW q \in Rooms, CancelChannel(q) \/ CloseVisits(q)
      PROVE  FALSE
  <2>1. queue'[r] = queue[r] \/ queue'[r] = <<>>
    BY <1>4 DEF CancelChannel, CloseVisits, TypeOK
  <2> QED BY <2>1, EmptyLineIsWellFormed DEF Newcomers
<1>5. ASSUME NEW m \in Messages, CancelMessage(m) PROVE FALSE
  BY <1>5, CancelledEntry DEF Newcomers
<1>6. CASE \/ \E p \in Pumps : TurnEnds(p)
           \/ \E q \in Rooms : Interrupt(q)
           \/ CloseBegins \/ CloseMovesOn \/ CloseEnds \/ UNCHANGED vars
  <2>1. queue' = queue
    BY <1>6 DEF TurnEnds, Interrupt, CloseBegins, CloseMovesOn, CloseEnds, vars
  <2> QED BY <2>1 DEF Newcomers
<1> QED BY <1>1, <1>2, <1>3, <1>4, <1>5, <1>6 DEF Next, Close

(* A newcomer takes a lively directed message's place only in a line full  *)
(* of them, only when it is directed itself, and then the oldest's         *)
(* (submit, _expire and _enforce_bound together).                          *)
THEOREM OnlyTheOldestGivesWay == Spec => OldestGivesWay
<1> DEFINE GivesWay(r) ==
             Newcomers(r) # {} =>
               LET lost == Lively(queue[r]) \ Ids(queue'[r])
               IN  \/ lost = {}
                   \/ /\ Newcomers(r) \subseteq Directed(queue'[r])
                      /\ Cardinality(Lively(queue[r])) = MaxDirected
                      /\ lost = {Unexpired(queue[r])[1].msg}
<1>1. ASSUME IInv, [Next]_vars, NEW r \in Rooms, Newcomers(r) # {}
      PROVE  GivesWay(r)
  <2>1. PICK m \in Messages, d \in BOOLEAN : Submit(m, d) /\ RoomOf[m] = r
    BY <1>1, OnlySubmissionsAdd DEF IInv
  <2> DEFINE e == [msg |-> m, directed |-> d, stale |-> FALSE]
             young == Unexpired(queue[r])
  <2>2. queue'[r] = Placed(young, e)
    BY <1>1, <2>1 DEF Submit, IInv, TypeOK
  <2>3. Newcomers(r) = {m} /\ m \notin Ids(queue[r])
    BY <1>1, <2>1, SubmittedLine DEF IInv, Newcomers
  <2>4. e \in Entry /\ e.msg = m
    BY DEF Entry
  <2>5. /\ young \in Seq(Entry) /\ Len(young) <= Len(queue[r])
        /\ Ids(young) \subseteq Ids(queue[r]) /\ WellFormed(young)
    BY <1>1, ExpiryKeepsEntries DEF IInv, TypeOK, WellFormedLines
  <2>6. Len(queue[r]) <= MaxDirected /\ queue[r] \in Seq(Entry)
    BY <1>1 DEF IInv, TypeOK
  <2> HIDE DEF e, young
  <2>7. Len(young) <= MaxDirected
    BY <2>5, <2>6, QueueAssumption
  <2>8. \/ Directed(young) \subseteq Ids(Placed(young, e))
        \/ /\ e.msg \in Directed(Placed(young, e))
           /\ Cardinality(Directed(young)) = MaxDirected
           /\ Directed(young) \ Ids(Placed(young, e)) = {young[1].msg}
    BY <2>3, <2>4, <2>5, <2>7, PlacingCostsTheOldest
  <2>9. Lively(queue[r]) = Directed(young)
    BY DEF Lively, young
  <2> QED BY <2>2, <2>3, <2>4, <2>8, <2>9 DEF young
<1>2. IInv /\ [Next]_vars => [\A r \in Rooms : GivesWay(r)]_vars
  BY <1>1
<1> QED BY <1>2, InductiveInvariant, PTL DEF Spec, OldestGivesWay
=========================================================================
