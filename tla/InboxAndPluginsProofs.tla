----------------------- MODULE InboxAndPluginsProofs -----------------------
(***************************************************************************)
(* Two independent components.                                             *)
(*                                                                         *)
(* The inbox, for any people, notices, tasks and limits: Filed and Held    *)
(* are the types, Queued says who is in the line of the lock, Serial that  *)
(* nobody replaces the file another has written; on these rest what a      *)
(* dismissal (Decided), a new request (Waits) and a reply (Announces) have *)
(* promised and the sections that are still to come.                       *)
(*                                                                         *)
(* The plugin manager keeps its types, lets no job go on unseen, and       *)
(* respects what each person asked for, for any plugins, people and number *)
(* of reloads.                                                             *)
(***************************************************************************)
EXTENDS Inbox, Plugins, FiniteSetTheorems, WellFoundedInduction, TLAPS

-----------------------------------------------------------------------------
(* The inbox: what its list operators return.                               *)

(* A set of naturals has a least element.                                   *)
LEMMA Least ==
    ASSUME NEW T, T \subseteq Nat, T # {}
    PROVE  \E n \in T : \A m \in T : n <= m
<1>1. PICK n \in T : \A m \in T : <<m, n>> \notin OpToRel(<, Nat)
  BY WFMin, NatLessThanWellFounded, Zenon
<1>2. \A m \in T : ~(m < n)
  BY <1>1, Zenon DEF OpToRel
<1> QED BY <1>2

(* The recursion of Only has a solution, and what Only returns are the      *)
(* wanted elements of the list, all of them and in their order.             *)
Keeps(list, wanted, m, f) ==
    f = [n \in 0..m |->
            IF n = 0 THEN <<>>
            ELSE IF list[n] \in wanted THEN Append(f[n - 1], list[n]) ELSE f[n - 1]]

LEMMA KeepsExists ==
    ASSUME NEW X, NEW list \in Seq(X), NEW wanted
    PROVE  \A m \in 0..Len(list) : \E f : Keeps(list, wanted, m, f)
<1> DEFINE T == {m \in 0..Len(list) : ~ \E f : Keeps(list, wanted, m, f)}
<1> SUFFICES ASSUME T # {} PROVE FALSE
  OBVIOUS
<1>1. PICK m \in T : \A k \in T : m <= k
  <2>1. T \subseteq Nat
    OBVIOUS
  <2> HIDE DEF T
  <2> QED BY <2>1, Least, Zenon
<1>2. m # 0
  <2>1. Keeps(list, wanted, 0, [n \in 0..0 |-> <<>>])
    BY DEF Keeps
  <2> QED BY <2>1
<1>3. PICK f : Keeps(list, wanted, m - 1, f)
  BY <1>1, <1>2
<1> DEFINE last == IF list[m] \in wanted THEN Append(f[m - 1], list[m]) ELSE f[m - 1]
           g == [n \in 0..m |-> IF n = m THEN last ELSE f[n]]
<1>4. Keeps(list, wanted, m, g)
  <2>1. m \in Nat /\ m > 0
    BY <1>2
  <2>2. \A n \in 0..(m - 1) :
          f[n] = IF n = 0 THEN <<>>
                 ELSE IF list[n] \in wanted THEN Append(f[n - 1], list[n]) ELSE f[n - 1]
    BY <1>3, <2>1 DEF Keeps
  <2>3. \A n \in 0..(m - 1) : g[n] = f[n]
    BY <2>1
  <2>4. \A n \in 0..m :
          g[n] = IF n = 0 THEN <<>>
                 ELSE IF list[n] \in wanted THEN Append(g[n - 1], list[n]) ELSE g[n - 1]
    BY <2>1, <2>2, <2>3
  <2> HIDE DEF last
  <2>5. g = [n \in 0..m |-> g[n]]
    OBVIOUS
  <2> HIDE DEF g
  <2> QED BY <2>4, <2>5 DEF Keeps
<1> QED BY <1>4

Embeds(h, out, list, wanted, m) ==
    /\ h \in [1..Len(out) -> 1..m]
    /\ \A k \in 1..Len(out) : out[k] = list[h[k]] /\ out[k] \in wanted
    /\ \A j, k \in 1..Len(out) : j < k => h[j] < h[k]
    /\ \A i \in 1..m : list[i] \in wanted => \E k \in 1..Len(out) : h[k] = i

LEMMA KeepsEmbeds ==
    ASSUME NEW X, NEW list \in Seq(X), NEW wanted, NEW f, Keeps(list, wanted, Len(list), f)
    PROVE  \A m \in 0..Len(list) : f[m] \in Seq(X) /\ \E h : Embeds(h, f[m], list, wanted, m)
<1> DEFINE Good(m) == f[m] \in Seq(X) /\ \E h : Embeds(h, f[m], list, wanted, m)
           T == {m \in 0..Len(list) : ~ Good(m)}
<1> SUFFICES ASSUME T # {} PROVE FALSE
  OBVIOUS
<1>1. PICK m \in T : \A k \in T : m <= k
  <2>1. T \subseteq Nat
    OBVIOUS
  <2> HIDE DEF T
  <2> QED BY <2>1, Least, Zenon
<1>2. \A n \in 0..Len(list) :
        f[n] = IF n = 0 THEN <<>>
               ELSE IF list[n] \in wanted THEN Append(f[n - 1], list[n]) ELSE f[n - 1]
  BY DEF Keeps
<1>3. m # 0
  <2>1. f[0] = <<>>
    BY <1>2
  <2>2. Embeds([k \in 1..0 |-> 1], <<>>, list, wanted, 0)
    BY DEF Embeds
  <2>3. Good(0)
    BY <2>1, <2>2
  <2> QED BY <2>3
<1>4. m - 1 \in 0..Len(list) /\ Good(m - 1) /\ m \in 1..Len(list)
  BY <1>1, <1>3
<1>5. PICK h : Embeds(h, f[m - 1], list, wanted, m - 1)
  BY <1>4
<1>6. CASE list[m] \in wanted
  <2> DEFINE out == Append(f[m - 1], list[m])
             g == [k \in 1..Len(out) |-> IF k = Len(out) THEN m ELSE h[k]]
  <2>1. f[m] = out
    BY <1>2, <1>3, <1>4, <1>6
  <2>3. out \in Seq(X)
    BY <1>4
  <2>2. Embeds(g, out, list, wanted, m)
    <3>1. /\ Len(out) = Len(f[m - 1]) + 1 /\ out[Len(out)] = list[m]
          /\ Len(f[m - 1]) \in Nat
          /\ \A k \in 1..Len(f[m - 1]) : out[k] = f[m - 1][k]
      BY <1>4
    <3>2. g \in [1..Len(out) -> 1..m]
      BY <1>4, <1>5, <3>1 DEF Embeds
    <3>3. \A k \in 1..Len(out) : out[k] = list[g[k]] /\ out[k] \in wanted
      BY <1>4, <1>5, <1>6, <3>1 DEF Embeds
    <3>4. ASSUME NEW j \in 1..Len(out), NEW k \in 1..Len(out), j < k PROVE g[j] < g[k]
      <4>1. j \in 1..Len(f[m - 1]) /\ g[j] = h[j] /\ h[j] \in 1..(m - 1)
        BY <1>5, <3>1, <3>4 DEF Embeds
      <4>2. CASE k = Len(out)
        BY <1>4, <4>1, <4>2
      <4>3. CASE k # Len(out)
        BY <1>5, <3>1, <3>4, <4>1, <4>3 DEF Embeds
      <4> QED BY <4>2, <4>3
    <3>5. ASSUME NEW i \in 1..m, list[i] \in wanted PROVE \E k \in 1..Len(out) : g[k] = i
      <4>1. CASE i = m
        <5>1. Len(out) \in 1..Len(out) /\ g[Len(out)] = m
          BY <3>1
        <5> QED BY <4>1, <5>1
      <4>2. CASE i # m
        <5>1. PICK k \in 1..Len(f[m - 1]) : h[k] = i
          BY <1>4, <1>5, <3>5, <4>2 DEF Embeds
        <5>2. k \in 1..Len(out) /\ g[k] = h[k]
          BY <3>1, <5>1
        <5> QED BY <5>1, <5>2
      <4> QED BY <4>1, <4>2
    <3> QED BY <3>2, <3>3, <3>4, <3>5 DEF Embeds
  <2> QED BY <2>1, <2>2, <2>3
<1>7. CASE list[m] \notin wanted
  <2>1. f[m] = f[m - 1]
    BY <1>2, <1>3, <1>4, <1>7
  <2>2. Embeds(h, f[m], list, wanted, m)
    BY <1>4, <1>5, <1>7, <2>1 DEF Embeds
  <2> QED BY <1>4, <2>1, <2>2
<1> QED BY <1>6, <1>7

LEMMA OnlyEmbeds ==
    ASSUME NEW X, NEW list \in Seq(X), NEW wanted
    PROVE  /\ Only(list, wanted) \in Seq(X)
           /\ \E h : Embeds(h, Only(list, wanted), list, wanted, Len(list))
<1> DEFINE f == CHOOSE g : Keeps(list, wanted, Len(list), g)
<1>1. Keeps(list, wanted, Len(list), f)
  <2>1. Len(list) \in 0..Len(list)
    OBVIOUS
  <2>2. \E g : Keeps(list, wanted, Len(list), g)
    BY <2>1, KeepsExists, Zenon
  <2> QED BY <2>2, Zenon
<1>2. Only(list, wanted) = f[Len(list)]
  BY DEF Only, Keeps
<1> HIDE DEF f
<1> QED BY <1>1, <1>2, KeepsEmbeds

Filtered(list, wanted, out) ==
    /\ \A k \in DOMAIN out : out[k] \in wanted /\ \E i \in DOMAIN list : out[k] = list[i]
    /\ \A i \in DOMAIN list : list[i] \in wanted => \E k \in DOMAIN out : out[k] = list[i]
    /\ \A i, j \in DOMAIN list : i < j /\ list[i] \in wanted /\ list[j] \in wanted =>
         \E k, l \in DOMAIN out : k < l /\ out[k] = list[i] /\ out[l] = list[j]
    /\ (\A i, j \in DOMAIN list : list[i] = list[j] => i = j) =>
         \A k, l \in DOMAIN out : out[k] = out[l] => k = l

LEMMA OnlyIs ==
    ASSUME NEW X, NEW list \in Seq(X), NEW wanted
    PROVE  /\ Only(list, wanted) \in Seq(X)
           /\ Filtered(list, wanted, Only(list, wanted))
<1> DEFINE out == Only(list, wanted)
<1>1. out \in Seq(X) /\ DOMAIN out = 1..Len(out) /\ DOMAIN list = 1..Len(list)
  BY OnlyEmbeds
<1>2. PICK h : Embeds(h, out, list, wanted, Len(list))
  BY OnlyEmbeds
<1> HIDE DEF out
<1>3. /\ h \in [1..Len(out) -> 1..Len(list)]
      /\ \A k \in 1..Len(out) : out[k] = list[h[k]] /\ out[k] \in wanted
      /\ \A j, k \in 1..Len(out) : j < k => h[j] < h[k]
      /\ \A i \in 1..Len(list) : list[i] \in wanted => \E k \in 1..Len(out) : h[k] = i
  BY <1>2 DEF Embeds
<1>4. ASSUME NEW i \in DOMAIN list, NEW j \in DOMAIN list,
             i < j, list[i] \in wanted, list[j] \in wanted
      PROVE  \E k, l \in DOMAIN out : k < l /\ out[k] = list[i] /\ out[l] = list[j]
  <2>1. PICK k \in 1..Len(out) : h[k] = i
    BY <1>1, <1>3, <1>4
  <2>2. PICK l \in 1..Len(out) : h[l] = j
    BY <1>1, <1>3, <1>4
  <2>3. k < l
    <3>1. CASE l < k
      BY <1>1, <1>3, <1>4, <2>1, <2>2, <3>1
    <3>2. CASE l = k
      BY <1>1, <1>4, <2>1, <2>2, <3>2
    <3> QED BY <3>1, <3>2, <1>1
  <2>4. out[k] = list[i] /\ out[l] = list[j] /\ k \in DOMAIN out /\ l \in DOMAIN out
    BY <1>1, <1>3, <2>1, <2>2
  <2> QED BY <2>3, <2>4
<1>5. ASSUME \A i, j \in DOMAIN list : list[i] = list[j] => i = j,
             NEW k \in DOMAIN out, NEW l \in DOMAIN out, out[k] = out[l]
      PROVE  k = l
  <2>1. h[k] = h[l]
    BY <1>1, <1>3, <1>5
  <2>2. h[k] \in Nat /\ h[l] \in Nat
    BY <1>1, <1>3
  <2>3. ~(k < l) /\ ~(l < k)
    BY <1>1, <1>3, <2>1, <2>2
  <2> QED BY <1>1, <2>3
<1>6. Filtered(list, wanted, out)
  BY <1>1, <1>3, <1>4, <1>5 DEF Filtered
<1> QED BY <1>1, <1>6 DEF out

-----------------------------------------------------------------------------
(* Lists of items, each of which has an id of its own.                      *)
Items == [id : Ids, state : States]
Kept(list) == /\ list \in Seq(Items)
                /\ \A k, l \in DOMAIN list : list[k].id = list[l].id => k = l

LEMMA StateIs ==
    ASSUME NEW list, Kept(list), NEW k \in DOMAIN list
    PROVE  Has(list, list[k].id) /\ State(list, list[k].id) = list[k].state
<1>1. Has(list, list[k].id)
  BY DEF Has
<1>2. list[k] \in ToSet(list) /\ \A x \in ToSet(list) : x.id = list[k].id => x = list[k]
  BY DEF Kept, ToSet
<1>3. (CHOOSE x \in ToSet(list) : x.id = list[k].id) = list[k]
  BY <1>2
<1> QED BY <1>1, <1>3 DEF State

LEMMA NoStateIs ==
    ASSUME NEW list, NEW i, ~Has(list, i) PROVE State(list, i) = None
BY DEF State

LEMMA MarkedIs ==
    ASSUME NEW list, Kept(list), NEW i \in Ids, NEW s \in States
    PROVE  /\ Kept(Marked(list, i, s))
           /\ \A j : Has(Marked(list, i, s), j) <=> Has(list, j)
           /\ Has(list, i) => State(Marked(list, i, s), i) = s
           /\ \A j : j # i => State(Marked(list, i, s), j) = State(list, j)
<1> DEFINE m == Marked(list, i, s)
<1>1. /\ m \in Seq(Items) /\ DOMAIN m = DOMAIN list
      /\ \A k \in DOMAIN list : m[k].id = list[k].id
      /\ \A k \in DOMAIN list : m[k].state = IF list[k].id = i THEN s ELSE list[k].state
  BY DEF Marked, Kept, Items
<1>2. Kept(m) /\ \A j : Has(m, j) <=> Has(list, j)
  BY <1>1 DEF Kept, Has
<1>3. ASSUME NEW k \in DOMAIN list
      PROVE  /\ State(m, list[k].id) = m[k].state
             /\ State(list, list[k].id) = list[k].state
  BY <1>1, <1>2, StateIs
<1>4. Has(list, i) => State(m, i) = s
  BY <1>1, <1>3 DEF Has
<1>5. ASSUME NEW j, j # i PROVE State(m, j) = State(list, j)
  BY <1>1, <1>2, <1>3, <1>5, NoStateIs DEF Has
<1> QED BY <1>2, <1>4, <1>5

LEMMA UpsertedIs ==
    ASSUME NEW list, Kept(list), NEW i \in Ids
    PROVE  /\ Kept(Upserted(list, i))
           /\ \A j : Has(Upserted(list, i), j) <=> Has(list, j) \/ j = i
           /\ State(Upserted(list, i), i) = "unread"
           /\ \A j : j # i => State(Upserted(list, i), j) = State(list, j)
<1>1. CASE Has(list, i)
  BY <1>1, MarkedIs DEF Upserted, States
<1>2. CASE ~Has(list, i)
  <2> DEFINE x == [id |-> i, state |-> "unread"]
             u == Append(list, x)
  <2>1. /\ list \in Seq(Items) /\ u \in Seq(Items) /\ Len(u) = Len(list) + 1
        /\ u[Len(u)] = x /\ \A k \in 1..Len(list) : u[k] = list[k]
        /\ DOMAIN u = 1..Len(u) /\ DOMAIN list = 1..Len(list) /\ Len(list) \in Nat
    BY DEF Kept, Items, States
  <2>2. \A k \in DOMAIN list : list[k].id # i
    BY <1>2 DEF Has
  <2>3. Kept(u)
    BY <2>1, <2>2 DEF Kept
  <2>4. \A j : Has(u, j) <=> Has(list, j) \/ j = i
    BY <2>1 DEF Has
  <2>5. State(u, i) = "unread"
    <3>1. Len(u) \in DOMAIN u /\ u[Len(u)].id = i /\ u[Len(u)].state = "unread"
      BY <2>1
    <3> HIDE DEF u
    <3> QED BY <2>3, <3>1, StateIs
  <2>6. ASSUME NEW j, j # i PROVE State(u, j) = State(list, j)
    <3>1. CASE Has(list, j)
      <4>1. PICK k \in DOMAIN list : list[k].id = j
        BY <3>1 DEF Has
      <4>2. k \in DOMAIN u /\ u[k] = list[k]
        BY <2>1
      <4> QED BY <2>3, <4>1, <4>2, StateIs
    <3>2. CASE ~Has(list, j)
      BY <2>4, <2>6, <3>2, NoStateIs
    <3> QED BY <3>1, <3>2
  <2>7. Upserted(list, i) = u
    BY <1>2 DEF Upserted
  <2> QED BY <2>3, <2>4, <2>5, <2>6, <2>7
<1> QED BY <1>1, <1>2

LEMMA RingedIs ==
    ASSUME NEW list, Kept(list)
    PROVE  /\ Kept(Ringed(list)) /\ Len(Ringed(list)) <= Ring
           /\ \A j : Has(Ringed(list), j) =>
                Has(list, j) /\ State(Ringed(list), j) = State(list, j)
<1> DEFINE from == IF Len(list) > Ring THEN Len(list) - Ring + 1 ELSE 1
           r == Ringed(list)
<1>1. list \in Seq(Items) /\ Len(list) \in Nat /\ DOMAIN list = 1..Len(list)
  BY DEF Kept
<1>2. from \in Nat /\ from >= 1
  BY <1>1, InboxAssumption DEF InboxAssumption
<1>3. /\ r \in Seq(Items) /\ Len(r) = Len(list) - from + 1
      /\ DOMAIN r = 1..Len(r) /\ \A k \in 1..Len(r) : r[k] = list[from + k - 1]
  <2>1. r = SubSeq(list, from, Len(list)) /\ from <= Len(list) + 1
    BY <1>1, InboxAssumption DEF Ringed, InboxAssumption
  <2> HIDE DEF from, r
  <2> QED BY <1>1, <1>2, <2>1
<1>4. \A k \in 1..Len(r) : from + k - 1 \in 1..Len(list)
  BY <1>1, <1>2, <1>3
<1>5. Kept(r)
  <2> HIDE DEF from, r
  <2>1. ASSUME NEW k \in 1..Len(r), NEW l \in 1..Len(r), r[k].id = r[l].id PROVE k = l
    <3>1. list[from + k - 1].id = list[from + l - 1].id
      BY <1>3, <2>1
    <3>2. from + k - 1 = from + l - 1
      BY <1>1, <1>4, <3>1 DEF Kept
    <3> QED BY <1>1, <1>2, <1>3, <3>2
  <2> QED BY <1>3, <2>1 DEF Kept
<1>6. Len(r) <= Ring
  BY <1>1, <1>3, InboxAssumption DEF InboxAssumption
<1>7. ASSUME NEW j, Has(r, j) PROVE Has(list, j) /\ State(r, j) = State(list, j)
  <2>1. PICK k \in 1..Len(r) : r[k].id = j
    BY <1>3, <1>7 DEF Has
  <2>2. list[from + k - 1] = r[k] /\ from + k - 1 \in DOMAIN list
    BY <1>1, <1>3, <1>4
  <2> HIDE DEF from, r
  <2> QED BY <1>3, <1>5, <2>1, <2>2, StateIs
<1> QED BY <1>5, <1>6, <1>7

(* What a prompt shows are items of the list, and what it remembers are the *)
(* unread notices among them.                                               *)
Within(s, list) == s \in Seq(Items) /\ \A k \in DOMAIN s : \E i \in DOMAIN list : s[k] = list[i]

LEMMA CutWithin ==
    ASSUME NEW list, NEW s, Within(s, list), NEW n \in Nat
    PROVE  Within(SubSeq(s, 1, IF Len(s) > n THEN n ELSE Len(s)), list)
<1> DEFINE m == IF Len(s) > n THEN n ELSE Len(s)
           t == SubSeq(s, 1, m)
<1>1. s \in Seq(Items) /\ m \in 0..Len(s) /\ DOMAIN s = 1..Len(s)
  BY DEF Within
<1> HIDE DEF m
<1>2. t \in Seq(Items) /\ DOMAIN t = 1..m /\ \A k \in 1..m : t[k] = s[k]
  BY <1>1
<1>3. 1..m \subseteq DOMAIN s
  BY <1>1
<1> HIDE DEF t
<1>4. Within(t, list)
  BY <1>2, <1>3 DEF Within
<1> QED BY <1>4 DEF t, m

LEMMA OnlyWithin ==
    ASSUME NEW list, NEW s, Within(s, list), NEW wanted
    PROVE  Within(Only(s, wanted), list)
<1> DEFINE t == Only(s, wanted)
<1>1. t \in Seq(Items) /\ \A k \in DOMAIN t : \E i \in DOMAIN s : t[k] = s[i]
  <2>1. s \in Seq(Items)
    BY DEF Within
  <2>2. t \in Seq(Items) /\ Filtered(s, wanted, t)
    BY <2>1, OnlyIs, Zenon
  <2> QED BY <2>2 DEF Filtered
<1> HIDE DEF t
<1>2. Within(t, list)
  BY <1>1 DEF Within
<1> QED BY <1>2 DEF t

LEMMA ConcatWithin ==
    ASSUME NEW list, NEW s, NEW t, Within(s, list), Within(t, list)
    PROVE  Within(s \o t, list)
<1>1. s \in Seq(Items) /\ t \in Seq(Items)
  BY DEF Within
<1>2. /\ s \o t \in Seq(Items) /\ DOMAIN (s \o t) = 1..(Len(s) + Len(t))
      /\ \A k \in 1..(Len(s) + Len(t)) :
           (s \o t)[k] = IF k <= Len(s) THEN s[k] ELSE t[k - Len(s)]
  BY <1>1
<1>3. ASSUME NEW k \in 1..(Len(s) + Len(t))
      PROVE  \E i \in DOMAIN list : (s \o t)[k] = list[i]
  <2>1. CASE k <= Len(s)
    <3>1. k \in DOMAIN s /\ (s \o t)[k] = s[k]
      BY <1>1, <1>2, <2>1
    <3> QED BY <3>1 DEF Within
  <2>2. CASE k > Len(s)
    <3>1. k - Len(s) \in DOMAIN t /\ (s \o t)[k] = t[k - Len(s)]
      BY <1>1, <1>2, <2>2
    <3> QED BY <3>1 DEF Within
  <2> QED BY <1>1, <2>1, <2>2
<1> QED BY <1>2, <1>3 DEF Within

LEMMA PendingWithin ==
    ASSUME NEW list, Kept(list)
    PROVE  Within(Pending(list), list)
<1> DEFINE feed == Reverse(list)
           requests == Capped(Only(feed, Of(Users, "unread")) \o Only(feed, Of(Users, "read")))
<1>1. Within(feed, list)
  <2>1. list \in Seq(Items) /\ DOMAIN list = 1..Len(list) /\ Len(list) \in Nat
    BY DEF Kept
  <2>2. feed = [i \in 1..Len(list) |-> list[(Len(list) - i) + 1]]
    BY DEF Reverse
  <2>3. \A i \in 1..Len(list) : (Len(list) - i) + 1 \in DOMAIN list
    BY <2>1
  <2>4. \A i \in 1..Len(list) : list[(Len(list) - i) + 1] \in Items
    BY <2>1, <2>3
  <2>5. feed \in Seq(Items) /\ DOMAIN feed = 1..Len(list)
    BY <2>1, <2>2, <2>4
  <2> QED BY <2>2, <2>3, <2>5 DEF Within
<1> HIDE DEF feed
<1>2. PerKind \in Nat
  BY InboxAssumption DEF InboxAssumption
<1>3. Within(requests, list)
  <2>1. Within(Only(feed, Of(Users, "unread")), list)
    BY <1>1, OnlyWithin, Zenon
  <2>2. Within(Only(feed, Of(Users, "read")), list)
    BY <1>1, OnlyWithin, Zenon
  <2>3. Within(Only(feed, Of(Users, "unread")) \o Only(feed, Of(Users, "read")), list)
    BY <2>1, <2>2, ConcatWithin, Zenon
  <2> QED BY <1>2, <2>3, CutWithin, Zenon DEF Capped
<1> HIDE DEF requests
<1>4. Within(Only(requests, Of(Users, "unread")), list)
  BY <1>3, OnlyWithin, Zenon
<1>5. Within(Only(requests, Of(Users, "read")), list)
  BY <1>3, OnlyWithin, Zenon
<1>6. Within(Capped(Only(feed, Of(Notices, "unread"))), list)
  <2>1. Within(Only(feed, Of(Notices, "unread")), list)
    BY <1>1, OnlyWithin, Zenon
  <2> QED BY <1>2, <2>1, CutWithin, Zenon DEF Capped
<1>7. Within(Only(requests, Of(Users, "unread")) \o Capped(Only(feed, Of(Notices, "unread"))),
             list)
  BY <1>4, <1>6, ConcatWithin, Zenon
<1>8. Within((Only(requests, Of(Users, "unread")) \o Capped(Only(feed, Of(Notices, "unread"))))
               \o Only(requests, Of(Users, "read")), list)
  BY <1>5, <1>7, ConcatWithin, Zenon
<1> QED BY <1>8, Zenon DEF Pending, feed, requests

LEMMA RememberedIs ==
    ASSUME NEW list, NEW s, Within(s, list)
    PROVE  /\ Remembered(s) \in Seq(Notices)
           /\ \A x \in ToSet(s) : x.id \in Notices /\ x.state = "unread" =>
                x.id \in ToSet(Remembered(s))
<1> DEFINE w == Of(Notices, "unread")
           news == Only(s, w)
           r == [k \in DOMAIN news |-> news[k].id]
<1>1. s \in Seq(Items)
  BY DEF Within
<1>2. /\ news \in Seq(Items)
      /\ \A k \in DOMAIN news : news[k] \in w
      /\ \A i \in DOMAIN s : s[i] \in w => \E k \in DOMAIN news : news[k] = s[i]
  <2>1. news \in Seq(Items) /\ Filtered(s, w, news)
    BY <1>1, OnlyIs, Zenon
  <2> QED BY <2>1 DEF Filtered
<1>3. Remembered(s) = r
  BY DEF Remembered
<1> HIDE DEF news
<1>4. r \in Seq(Notices) /\ DOMAIN r = DOMAIN news
  <2>1. \A k \in DOMAIN news : news[k].id \in Notices
    BY <1>2 DEF Of
  <2>2. DOMAIN news = 1..Len(news) /\ Len(news) \in Nat
    BY <1>2
  <2> QED BY <2>1, <2>2
<1>5. ASSUME NEW x \in ToSet(s), x.id \in Notices, x.state = "unread"
      PROVE  x.id \in ToSet(r)
  <2>1. PICK i \in DOMAIN s : s[i] = x
    BY DEF ToSet
  <2>2. s[i] \in w
    <3>1. x \in [id : Ids, state : States]
      <4>1. x \in Items
        BY <1>1, <2>1
      <4> QED BY <4>1 DEF Items
    <3>2. x = [id |-> x.id, state |-> x.state]
      BY <3>1
    <3>3. [id |-> x.id, state |-> x.state] \in [id : Notices, state : {"unread"}]
      BY <1>5
    <3> QED BY <2>1, <3>2, <3>3 DEF Of
  <2>3. PICK k \in DOMAIN news : news[k] = s[i]
    BY <1>2, <2>2
  <2>4. r[k] = x.id
    BY <2>1, <2>3
  <2> QED BY <1>4, <2>4 DEF ToSet
<1> QED BY <1>3, <1>4, <1>5

LEMMA RenderedIs ==
    ASSUME NEW list, NEW s, Within(s, list)
    PROVE  ToSet(Rendered(s)) \subseteq ToSet(s)
<1> DEFINE m == IF Len(s) > Lines THEN Lines ELSE Len(s)
           t == SubSeq(s, 1, m)
<1>1. s \in Seq(Items) /\ m \in 0..Len(s) /\ DOMAIN s = 1..Len(s)
  BY InboxAssumption DEF Within, InboxAssumption
<1> HIDE DEF m
<1>2. DOMAIN t = 1..m /\ \A k \in 1..m : t[k] = s[k]
  BY <1>1
<1>3. 1..m \subseteq DOMAIN s
  BY <1>1
<1>4. ToSet(t) \subseteq ToSet(s)
  BY <1>2, <1>3 DEF ToSet
<1> QED BY <1>4 DEF Rendered, t, m

LEMMA PromptShows ==
    ASSUME NEW list, Kept(list)
    PROVE  /\ Remembered(Pending(list)) \in Seq(Notices)
           /\ {x.id : x \in ToSet(Rendered(Pending(list)))} \subseteq Ids
           /\ \A n \in {x.id : x \in ToSet(Rendered(Pending(list)))} \cap Notices :
                State(list, n) = "unread" => n \in ToSet(Remembered(Pending(list)))
<1> DEFINE p == Pending(list)
           r == Remembered(p)
           ids == {x.id : x \in ToSet(Rendered(p))}
<1>1. Within(p, list)
  BY PendingWithin
<1>2. /\ r \in Seq(Notices)
      /\ \A x \in ToSet(p) : x.id \in Notices /\ x.state = "unread" => x.id \in ToSet(r)
  BY <1>1, RememberedIs, Zenon
<1>3. ToSet(Rendered(p)) \subseteq ToSet(p)
  BY <1>1, RenderedIs, Zenon
<1> HIDE DEF p, r
<1>4. \A x \in ToSet(p) : x \in Items /\ State(list, x.id) = x.state
  <2> TAKE x \in ToSet(p)
  <2>1. PICK k \in DOMAIN p : p[k] = x
    BY DEF ToSet
  <2>2. PICK i \in DOMAIN list : p[k] = list[i]
    BY <1>1, <2>1 DEF Within
  <2>3. x \in Items
    BY <1>1, <2>1 DEF Within
  <2> QED BY <2>1, <2>2, <2>3, StateIs
<1>5. ids \subseteq Ids
  BY <1>3, <1>4 DEF Items
<1>6. \A n \in ids \cap Notices : State(list, n) = "unread" => n \in ToSet(r)
  BY <1>2, <1>3, <1>4
<1> QED BY <1>2, <1>5, <1>6, Zenon DEF p, r

(* The line at the lock: who is in it, and who is ahead of whom.            *)
Lined(q) == q \in Seq(Calls) /\ \A i, j \in DOMAIN q : q[i] = q[j] => i = j
In(q, c) == \E i \in DOMAIN q : q[i] = c
Ahead(q, d, e) == \E i, j \in DOMAIN q : i < j /\ q[i] = d /\ q[j] = e

LEMMA AppendLine ==
    ASSUME NEW q, Lined(q), NEW c \in Calls, ~In(q, c)
    PROVE  /\ Lined(Append(q, c))
           /\ \A d : In(Append(q, c), d) <=> In(q, d) \/ d = c
           /\ \A d, e : Ahead(q, d, e) => Ahead(Append(q, c), d, e)
           /\ \A d : In(q, d) => Ahead(Append(q, c), d, c)
           /\ Append(q, c) # <<>>
           /\ q # <<>> => Head(Append(q, c)) = Head(q)
<1> DEFINE r == Append(q, c)
           n == Len(q)
<1>1. /\ q \in Seq(Calls) /\ n \in Nat /\ DOMAIN q = 1..n
      /\ r \in Seq(Calls) /\ DOMAIN r = 1..(n + 1) /\ Len(r) = n + 1
      /\ \A k \in 1..n : r[k] = q[k]
      /\ r[n + 1] = c
  BY DEF Lined
<1>2. \A k \in 1..n : q[k] # c
  BY <1>1 DEF In
<1>3. q # <<>> => Head(r) = Head(q) /\ r # <<>>
  BY <1>1
<1>4. r # <<>>
  BY <1>1
<1> HIDE DEF r, n
<1>5. Lined(r)
  BY <1>1, <1>2 DEF Lined
<1>6. \A d : In(r, d) <=> In(q, d) \/ d = c
  BY <1>1 DEF In
<1>7. \A d, e : Ahead(q, d, e) => Ahead(r, d, e)
  <2> TAKE d, e
  <2> HAVE Ahead(q, d, e)
  <2>1. PICK i, j \in 1..n : i < j /\ q[i] = d /\ q[j] = e
    BY <1>1 DEF Ahead
  <2>2. i \in DOMAIN r /\ j \in DOMAIN r /\ r[i] = d /\ r[j] = e
    BY <1>1, <2>1
  <2> QED BY <2>1, <2>2 DEF Ahead
<1>8. \A d : In(q, d) => Ahead(r, d, c)
  <2> TAKE d
  <2> HAVE In(q, d)
  <2>1. PICK i \in 1..n : q[i] = d
    BY <1>1 DEF In
  <2>2. i \in DOMAIN r /\ n + 1 \in DOMAIN r /\ i < n + 1 /\ r[i] = d
    BY <1>1, <2>1
  <2> QED BY <1>1, <2>2 DEF Ahead
<1> QED BY <1>3, <1>4, <1>5, <1>6, <1>7, <1>8 DEF r

LEMMA TailLine ==
    ASSUME NEW q, Lined(q), q # <<>>
    PROVE  /\ Lined(Tail(q))
           /\ Head(q) \in Calls /\ In(q, Head(q))
           /\ \A d : In(Tail(q), d) <=> In(q, d) /\ d # Head(q)
           /\ \A d, e : d # Head(q) /\ Ahead(q, d, e) => Ahead(Tail(q), d, e)
           /\ \A d : ~Ahead(q, d, Head(q))
<1> DEFINE r == Tail(q)
           n == Len(q)
<1>1. /\ q \in Seq(Calls) /\ n \in Nat /\ n >= 1 /\ DOMAIN q = 1..n
      /\ r \in Seq(Calls) /\ DOMAIN r = 1..(n - 1) /\ Len(r) = n - 1
      /\ \A k \in 1..(n - 1) : r[k] = q[k + 1]
      /\ Head(q) = q[1]
  BY DEF Lined
<1>2. \A i, j \in 1..n : q[i] = q[j] => i = j
  BY <1>1 DEF Lined
<1> HIDE DEF r, n
<1>3. Lined(r)
  <2>1. ASSUME NEW i \in 1..(n - 1), NEW j \in 1..(n - 1), r[i] = r[j] PROVE i = j
    <3>1. q[i + 1] = q[j + 1] /\ i + 1 \in 1..n /\ j + 1 \in 1..n
      BY <1>1, <2>1
    <3>2. i + 1 = j + 1
      BY <1>2, <3>1
    <3> QED BY <1>1, <3>2
  <2> QED BY <1>1, <2>1 DEF Lined
<1>4. Head(q) \in Calls /\ In(q, Head(q))
  BY <1>1 DEF In
<1>5. ASSUME NEW d PROVE In(r, d) <=> In(q, d) /\ d # Head(q)
  <2>1. ASSUME In(r, d) PROVE In(q, d) /\ d # Head(q)
    <3>1. PICK i \in 1..(n - 1) : r[i] = d
      BY <1>1, <2>1 DEF In
    <3>2. i + 1 \in 1..n /\ i + 1 # 1 /\ 1 \in 1..n /\ q[i + 1] = d
      BY <1>1, <3>1
    <3>3. q[i + 1] # q[1]
      BY <1>2, <3>2
    <3> QED BY <1>1, <3>2, <3>3 DEF In
  <2>2. ASSUME In(q, d), d # Head(q) PROVE In(r, d)
    <3>1. PICK i \in 1..n : q[i] = d
      BY <1>1, <2>2 DEF In
    <3>2. i # 1
      BY <1>1, <2>2, <3>1
    <3>3. i - 1 \in 1..(n - 1) /\ r[i - 1] = d
      BY <1>1, <3>1, <3>2
    <3> QED BY <1>1, <3>3 DEF In
  <2> QED BY <2>1, <2>2
<1>6. ASSUME NEW d, NEW e, d # Head(q), Ahead(q, d, e) PROVE Ahead(r, d, e)
  <2>1. PICK i, j \in 1..n : i < j /\ q[i] = d /\ q[j] = e
    BY <1>1, <1>6 DEF Ahead
  <2>2. i # 1
    BY <1>1, <1>6, <2>1
  <2>3. /\ i - 1 \in 1..(n - 1) /\ j - 1 \in 1..(n - 1) /\ i - 1 < j - 1
        /\ r[i - 1] = d /\ r[j - 1] = e
    BY <1>1, <2>1, <2>2
  <2> QED BY <1>1, <2>3 DEF Ahead
<1>7. ASSUME NEW d, Ahead(q, d, Head(q)) PROVE FALSE
  <2>1. PICK i, j \in 1..n : i < j /\ q[i] = d /\ q[j] = q[1]
    BY <1>1, <1>7 DEF Ahead
  <2>2. j = 1
    BY <1>1, <1>2, <2>1
  <2> QED BY <2>1, <2>2
<1> QED BY <1>3, <1>4, <1>5, <1>6, <1>7 DEF r

LEMMA OnlyLine ==
    ASSUME NEW q, Lined(q), NEW c
    PROVE  LET r == Only(q, Calls \ {c}) IN
           /\ Lined(r)
           /\ \A d : In(r, d) <=> In(q, d) /\ d # c
           /\ \A d, e : d # c /\ e # c /\ Ahead(q, d, e) => Ahead(r, d, e)
           /\ q # <<>> /\ Head(q) # c => r # <<>> /\ Head(r) = Head(q)
<1> DEFINE w == Calls \ {c}
           r == Only(q, w)
<1>1. /\ q \in Seq(Calls) /\ DOMAIN q = 1..Len(q) /\ Len(q) \in Nat
      /\ \A i, j \in DOMAIN q : q[i] = q[j] => i = j
      /\ \A i \in DOMAIN q : q[i] \in w <=> q[i] # c
  BY DEF Lined
<1>2. /\ r \in Seq(Calls)
      /\ \A k \in DOMAIN r : r[k] \in w /\ \E i \in DOMAIN q : r[k] = q[i]
      /\ \A i \in DOMAIN q : q[i] \in w => \E k \in DOMAIN r : r[k] = q[i]
      /\ \A i, j \in DOMAIN q : i < j /\ q[i] \in w /\ q[j] \in w =>
           \E k, l \in DOMAIN r : k < l /\ r[k] = q[i] /\ r[l] = q[j]
      /\ \A k, l \in DOMAIN r : r[k] = r[l] => k = l
  <2>1. r \in Seq(Calls) /\ Filtered(q, w, r)
    BY <1>1, OnlyIs, Zenon
  <2> HIDE DEF w, r
  <2> QED BY <1>1, <2>1 DEF Filtered
<1> HIDE DEF w, r
<1>3. DOMAIN r = 1..Len(r) /\ Len(r) \in Nat
  BY <1>2
<1>4. Lined(r)
  BY <1>2 DEF Lined
<1>5. ASSUME NEW d PROVE In(r, d) <=> In(q, d) /\ d # c
  <2>1. ASSUME In(r, d) PROVE In(q, d) /\ d # c
    <3>1. PICK k \in DOMAIN r : r[k] = d
      BY <2>1 DEF In
    <3>2. r[k] \in w /\ \E i \in DOMAIN q : r[k] = q[i]
      BY <1>2, Zenon
    <3>3. PICK i \in DOMAIN q : r[k] = q[i]
      BY <3>2
    <3>4. q[i] \in w
      BY <3>2, <3>3
    <3>5. q[i] # c
      BY <1>1, <3>4
    <3> QED BY <3>1, <3>3, <3>5 DEF In
  <2>2. ASSUME In(q, d), d # c PROVE In(r, d)
    <3>1. PICK i \in DOMAIN q : q[i] = d
      BY <2>2 DEF In
    <3>2. q[i] \in w
      BY <1>1, <2>2, <3>1
    <3> QED BY <1>2, <3>1, <3>2 DEF In
  <2> QED BY <2>1, <2>2
<1>6. ASSUME NEW d, NEW e, d # c, e # c, Ahead(q, d, e) PROVE Ahead(r, d, e)
  <2>1. PICK i, j \in DOMAIN q : i < j /\ q[i] = d /\ q[j] = e
    BY <1>6 DEF Ahead
  <2>2. q[i] \in w /\ q[j] \in w
    BY <1>1, <1>6, <2>1
  <2>3. PICK k, l \in DOMAIN r : k < l /\ r[k] = q[i] /\ r[l] = q[j]
    BY <1>2, <2>1, <2>2
  <2> QED BY <2>1, <2>3 DEF Ahead
<1>7. ASSUME q # <<>>, Head(q) # c PROVE r # <<>> /\ Head(r) = Head(q)
  <2>1. 1 \in DOMAIN q /\ Head(q) = q[1] /\ q[1] \in w
    BY <1>1, <1>7
  <2>2. PICK k \in DOMAIN r : r[k] = q[1]
    BY <1>2, <2>1
  <2>3. r # <<>> /\ Head(r) = r[1] /\ 1 \in DOMAIN r
    BY <1>2, <1>3, <2>2
  <2>4. PICK i \in DOMAIN q : r[1] = q[i]
    BY <1>2, <2>3
  <2>5. CASE i = 1
    BY <2>1, <2>3, <2>4, <2>5
  <2>6. CASE i # 1
    <3>1. 1 < i /\ q[i] \in w
      <4>1. r[1] \in w
        BY <1>2, <2>3
      <4> QED BY <1>1, <2>4, <2>6, <4>1
    <3>2. \E m, l \in DOMAIN r : m < l /\ r[m] = q[1] /\ r[l] = q[i]
      <4>1. 1 \in DOMAIN q /\ q[1] \in w
        BY <2>1
      <4>2. \A j \in DOMAIN q : 1 < j /\ q[1] \in w /\ q[j] \in w =>
              \E m, l \in DOMAIN r : m < l /\ r[m] = q[1] /\ r[l] = q[j]
        BY <1>2, <4>1, Zenon
      <4> QED BY <4>1, <4>2, <3>1, Zenon
    <3>3. PICK m, l \in DOMAIN r : m < l /\ r[m] = q[1] /\ r[l] = q[i]
      BY <3>2
    <3>4. l = 1
      BY <1>2, <2>3, <2>4, <3>3
    <3> QED BY <1>3, <3>3, <3>4
  <2> QED BY <2>5, <2>6
<1> QED BY <1>4, <1>5, <1>6, <1>7, Zenon DEF r, w

-----------------------------------------------------------------------------
(* The inductive invariant. A task that asks for the lock or holds it is in *)
(* the line, and only the first in line writes.                             *)
Sections == {"get", "upsert", "mark"} \cup Writing
Places == Sections \cup {"idle", "asking", "answered", "writing"}
Tasks == [at : Places, kind : Kinds \cup {None}, id : Ids \cup {None}, base : Seq(Items),
          todo : Seq(Notices)]

Serves(w) ==
    /\ w.at = "get" => w.kind \in {"friends", "seed", "dismiss", "see", "accept", "decline"}
    /\ w.at \in {"upsert", "upserting"} => w.kind \in {"add", "seed", "notice"}
    /\ w.at \in {"mark", "marking"} =>
         w.kind \in {"gone", "friends", "dismiss", "blind", "see", "accept", "decline", "announce"}
    /\ w.at \in {"asking", "answered"} => w.kind \in {"accept", "decline"}
    /\ w.at \in {"idle", "writing"} => w.kind = None
Concerns(w) ==
    /\ w.kind = None => w.id = None
    /\ w.kind \in {"dismiss", "see"} => w.id \in Ids
    /\ w.kind \in {"notice", "announce"} => w.id \in Notices
    /\ w.kind \in {"add", "gone", "friends", "seed", "blind", "accept", "decline"} =>
         w.id \in Users
CallOK(w) ==
    /\ w \in Tasks /\ Kept(w.base) /\ Serves(w) /\ Concerns(w)
    /\ w.kind # "announce" => w.todo = <<>>

Filed ==
    /\ Kept(items) /\ Len(items) <= Ring
    /\ call \in [Calls -> Tasks] /\ \A c \in Calls : CallOK(call[c])
    /\ \A c \in Calls : call[c].kind = "add" => c \in Handlers
    /\ \A w \in late : CallOK(w) /\ w.at \in Writing
Held ==
    /\ relation \in [Users -> {"none", "incoming", "friend"}]
    /\ wire \in Seq([kind : {"add", "gone", "friends", "parted"}, id : Users])
    /\ shown \in Seq(Notices) /\ carried \in [Turns -> SUBSET Ids] /\ moves \in 0..MaxMoves
    /\ told \subseteq Ids /\ lost \subseteq Ids /\ closed \subseteq Ids
    /\ fresh \subseteq Users /\ dropped \subseteq Users /\ strayed \in BOOLEAN

Queued ==
    /\ Lined(queue)
    /\ \A c \in Calls : call[c].at \in Sections <=> In(queue, c)
    /\ \A c \in Calls : call[c].at \in Writing => HasLock(c)

(* As long as no write outlives its task, whoever writes has read the file  *)
(* it replaces.                                                             *)
Serial ==
    ~strayed => /\ late = {}
                /\ \A c \in Calls : call[c].at \in Writing => call[c].base = items

(* What he dismissed is in the ring, and so is what a task is about to      *)
(* dismiss; a seed that goes on to its second section is ahead of these.    *)
Dismisses(w, u) == w.kind = "dismiss" /\ w.at \in {"mark", "marking"} /\ w.id = u
Inserts(w, u) == w.kind = "seed" /\ w.at \in {"upsert", "upserting"} /\ w.id = u
Decided ==
    ~strayed => \A u \in Users \ dropped :
      /\ u \in closed => Has(items, u) /\ State(items, u) \notin Actionable
      /\ \A d \in Calls : Dismisses(call[d], u) => Has(items, u)
      /\ \A c \in Calls : Inserts(call[c], u) =>
           u \notin closed /\ \A d \in Calls : Dismisses(call[d], u) => Ahead(queue, c, d)

(* An untouched request has only its own operation, seeds, and withdrawals  *)
(* of an earlier request, which are ahead of it.                            *)
Adds(w, u) == w.kind = "add" /\ w.id = u
Waits ==
    ~strayed => \A u \in fresh :
      /\ \A d \in Calls : call[d].id = u => call[d].kind \in {"add", "gone", "seed"}
      /\ \A d \in Calls : call[d].id = u /\ call[d].kind = "gone" =>
           Coming(u) /\ \A e \in Calls : Adds(call[e], u) => Ahead(queue, d, e)
      /\ Coming(u) \/ ~Has(items, u) \/ State(items, u) \in Actionable

(* An unread notice that a reply has carried is going to be marked; one     *)
(* that a prompt carries is also among those that are remembered.           *)
Announcing(w, n) == w.kind = "announce" /\ (w.id = n \/ n \in ToSet(w.todo))
ToMark(n) == \E t \in Calls : Announcing(call[t], n)
Announces ==
    ~strayed => \A n \in Ids \ lost : State(items, n) = "unread" =>
      /\ n \in told => ToMark(n)
      /\ \A t \in Turns : n \in Notices /\ n \in carried[t] => n \in ToSet(shown) \/ ToMark(n)

InboxInv == Filed /\ Held /\ Queued /\ Serial /\ Decided /\ Waits /\ Announces

-----------------------------------------------------------------------------
(* How a task moves: it is the only one that does, and the others keep      *)
(* their order; whoever joins the line is behind everybody.                 *)
Sets(c, w) == call' = [call EXCEPT ![c] = w]
GoesLast(c) == \A d \in Calls \ {c} : In(queue, d) => Ahead(queue', d, c)
Moved(c, w) ==
    /\ Sets(c, w) /\ CallOK(w) /\ Queued'
    /\ \A d, e \in Calls \ {c} : Ahead(queue, d, e) => Ahead(queue', d, e)

LEMMA SetsIs ==
    ASSUME Filed, NEW c \in Calls, NEW w, Sets(c, w)
    PROVE  call'[c] = w /\ \A d \in Calls \ {c} : call'[d] = call[d]
BY DEF Sets, Filed

LEMMA Stays ==
    ASSUME Filed, Queued, NEW c \in Calls, NEW w, Sets(c, w), CallOK(w), queue' = queue,
           w.at \in Sections <=> call[c].at \in Sections, w.at \in Writing => HasLock(c)
    PROVE  Moved(c, w)
<1>1. call'[c] = w /\ \A d \in Calls \ {c} : call'[d] = call[d]
  BY SetsIs
<1>2. Queued'
  <2>1. Lined(queue)'
    BY DEF Queued, Lined
  <2>2. \A d \in Calls : call'[d].at \in Sections <=> In(queue', d)
    BY <1>1 DEF Queued
  <2>3. \A d \in Calls : call'[d].at \in Writing => HasLock(d)'
    BY <1>1 DEF Queued, HasLock
  <2> QED BY <2>1, <2>2, <2>3 DEF Queued, In
<1> QED BY <1>2 DEF Moved

LEMMA Joins ==
    ASSUME Filed, Queued, NEW c \in Calls, NEW w, Sets(c, w), CallOK(w),
           queue' = Append(queue, c), call[c].at \notin Sections, w.at \in Sections \ Writing
    PROVE  Moved(c, w) /\ GoesLast(c)
<1>1. call'[c] = w /\ \A d \in Calls \ {c} : call'[d] = call[d]
  BY SetsIs
<1>2. Lined(queue) /\ ~In(queue, c)
  BY DEF Queued
<1>3. /\ Lined(queue')
      /\ \A d : In(queue', d) <=> In(queue, d) \/ d = c
      /\ \A d, e : Ahead(queue, d, e) => Ahead(queue', d, e)
      /\ \A d : In(queue, d) => Ahead(queue', d, c)
      /\ queue' # <<>>
      /\ queue # <<>> => Head(queue') = Head(queue)
  BY <1>2, AppendLine, Zenon
<1>4. \A d \in Calls : call'[d].at \in Sections <=> In(queue', d)
  BY <1>1, <1>3 DEF Queued
<1>5. \A d \in Calls : call'[d].at \in Writing => HasLock(d)'
  BY <1>1, <1>3 DEF Queued, HasLock
<1>6. Queued'
  BY <1>3, <1>4, <1>5 DEF Queued, Lined, In
<1> QED BY <1>3, <1>6 DEF Moved, GoesLast

LEMMA MovesOn ==
    ASSUME Filed, Queued, NEW c \in Calls, NEW w, GoesOn(c, w), CallOK(w), HasLock(c),
           w.at \notin Writing
    PROVE  Moved(c, w) /\ (w.at \in Sections => GoesLast(c))
<1>1. Sets(c, w)
  BY DEF GoesOn, Sets
<1>2. call'[c] = w /\ \A d \in Calls \ {c} : call'[d] = call[d]
  BY <1>1, SetsIs
<1> DEFINE q == Tail(queue)
<1>3. /\ Lined(q) /\ ~In(q, c)
      /\ \A d : In(q, d) <=> In(queue, d) /\ d # c
      /\ \A d, e : d # c /\ Ahead(queue, d, e) => Ahead(q, d, e)
  <2>1. Lined(queue) /\ queue # <<>> /\ Head(queue) = c
    BY DEF Queued, HasLock
  <2> HIDE DEF q
  <2>2. /\ Lined(Tail(queue))
        /\ \A d : In(Tail(queue), d) <=> In(queue, d) /\ d # c
        /\ \A d, e : d # c /\ Ahead(queue, d, e) => Ahead(Tail(queue), d, e)
    BY <2>1, TailLine
  <2> QED BY <2>2 DEF q
<1>4. \A d \in Calls \ {c} : call[d].at \notin Writing
  BY DEF Queued, HasLock
<1>5. CASE w.at \in Sections
  <2>1. queue' = Append(q, c)
    BY <1>5 DEF GoesOn, Sections
  <2> HIDE DEF q
  <2>2. /\ Lined(queue')
        /\ \A d : In(queue', d) <=> In(q, d) \/ d = c
        /\ \A d, e : Ahead(q, d, e) => Ahead(queue', d, e)
        /\ \A d : In(q, d) => Ahead(queue', d, c)
    BY <1>3, <2>1, AppendLine, Zenon
  <2>3. \A d \in Calls : call'[d].at \in Sections <=> In(queue', d)
    BY <1>2, <1>3, <1>5, <2>2 DEF Queued
  <2>4. \A d \in Calls : call'[d].at \notin Writing
    BY <1>2, <1>4
  <2>5. Queued'
    BY <2>2, <2>3, <2>4 DEF Queued, Lined, In
  <2> QED BY <1>1, <1>3, <2>2, <2>5 DEF Moved, GoesLast
<1>6. CASE w.at \notin Sections
  <2>1. queue' = q
    BY <1>6 DEF GoesOn, Sections
  <2> HIDE DEF q
  <2>3. \A d \in Calls : call'[d].at \in Sections <=> In(queue', d)
    BY <1>2, <1>3, <1>6, <2>1 DEF Queued
  <2>4. \A d \in Calls : call'[d].at \notin Writing
    BY <1>2, <1>4
  <2>5. Queued'
    BY <1>3, <2>1, <2>3, <2>4 DEF Queued, Lined, In
  <2> QED BY <1>1, <1>3, <1>6, <2>1, <2>5 DEF Moved
<1> QED BY <1>5, <1>6

LEMMA Leaves ==
    ASSUME Filed, Queued, NEW c \in Calls, NEW w, Sets(c, w), CallOK(w),
           queue' = Only(queue, Calls \ {c}), w.at \notin Sections
    PROVE  Moved(c, w)
<1>1. call'[c] = w /\ \A d \in Calls \ {c} : call'[d] = call[d]
  BY SetsIs
<1>2. Lined(queue)
  BY DEF Queued
<1>3. /\ Lined(queue')
      /\ \A d : In(queue', d) <=> In(queue, d) /\ d # c
      /\ \A d, e : d # c /\ e # c /\ Ahead(queue, d, e) => Ahead(queue', d, e)
      /\ queue # <<>> /\ Head(queue) # c => queue' # <<>> /\ Head(queue') = Head(queue)
  BY <1>2, OnlyLine, Zenon
<1>4. \A d \in Calls : call'[d].at \in Sections <=> In(queue', d)
  BY <1>1, <1>3 DEF Queued
<1>5. \A d \in Calls : call'[d].at \in Writing => HasLock(d)'
  BY <1>1, <1>3 DEF Queued, HasLock, Sections
<1>6. Queued'
  BY <1>3, <1>4, <1>5 DEF Queued, Lined, In
<1> QED BY <1>3, <1>6 DEF Moved

-----------------------------------------------------------------------------
(* What a task becomes.                                                     *)
LEMMA NothingListed == Kept(<<>>) /\ <<>> \in Seq(Items)
BY DEF Kept

LEMMA IdIs ==
    ASSUME NEW w, CallOK(w), w.at \notin {"idle", "writing"}
    PROVE  w.id \in Ids /\ w.kind \in Kinds
<1>1. w.at \in Places
  BY DEF CallOK, Tasks
<1>2. w.kind \in Kinds
  BY <1>1 DEF CallOK, Serves, Kinds, Places, Sections, Writing
<1>3. w.id \in Ids
  BY <1>2 DEF CallOK, Concerns, Kinds, Ids
<1> QED BY <1>2, <1>3

LEMMA TaskOK ==
    ASSUME NEW at \in Places \ Writing, NEW kind \in Kinds \cup {None}, NEW i \in Ids \cup {None},
           NEW todo \in Seq(Notices), kind # "announce" => todo = <<>>,
           Serves(Task(at, kind, i, todo)), Concerns(Task(at, kind, i, todo))
    PROVE  CallOK(Task(at, kind, i, todo))
<1> DEFINE w == Task(at, kind, i, todo)
<1>1. w \in Tasks
  BY NothingListed DEF Task, Tasks
<1>2. w.base = <<>> /\ w.todo = todo /\ w.kind = kind
  BY DEF Task
<1>3. Serves(w) /\ Concerns(w)
  OBVIOUS
<1> HIDE DEF w
<1>4. CallOK(w)
  BY <1>1, <1>2, <1>3, NothingListed DEF CallOK
<1> QED BY <1>4 DEF w

LEMMA IdleIs == CallOK(Idle) /\ Idle.at = "idle" /\ Idle.kind = None /\ Idle.id = None
<1>1. Idle.at = "idle" /\ Idle.kind = None /\ Idle.id = None
  BY DEF Idle, Task
<1>2. Serves(Idle) /\ Concerns(Idle)
  BY <1>1, InboxAssumption DEF Serves, Concerns, InboxAssumption, Kinds
<1>3. "idle" \in Places \ Writing /\ <<>> \in Seq(Notices)
  BY DEF Places, Sections, Writing
<1> QED BY <1>1, <1>2, <1>3, TaskOK DEF Idle

LEMMA AsksOK ==
    ASSUME NEW i, NEW section, NEW kind, NEW w, w = Task(section, kind, i, <<>>),
           \/ section = "upsert" /\ kind \in {"add", "seed"} /\ i \in Users
           \/ section = "mark" /\ kind \in {"gone", "friends", "blind"} /\ i \in Users
           \/ section = "mark" /\ kind \in {"dismiss", "see"} /\ i \in Ids
           \/ section = "get" /\ kind \in {"friends", "seed", "accept", "decline"} /\ i \in Users
           \/ section = "asking" /\ kind \in {"accept", "decline"} /\ i \in Users
           \/ section = "upsert" /\ kind = "notice" /\ i \in Notices
           \/ section = "get" /\ kind \in {"dismiss", "see"} /\ i \in Ids
    PROVE  CallOK(w) /\ w.at = section /\ w.kind = kind /\ w.id = i
<1>1. section \in Places \ Writing /\ kind \in Kinds \ {"announce"} /\ i \in Ids
  BY DEF Places, Sections, Writing, Kinds, Ids
<1>2. w.at = section /\ w.kind = kind /\ w.id = i
  BY DEF Task
<1>3. kind # None
  BY InboxAssumption DEF InboxAssumption, Kinds
<1>4. Serves(w)
  BY <1>2, <1>3 DEF Serves
<1>5. Concerns(w)
  BY <1>2, <1>3 DEF Concerns, Ids
<1>6. <<>> \in Seq(Notices)
  OBVIOUS
<1>7. CallOK(Task(section, kind, i, <<>>))
  BY <1>1, <1>4, <1>5, <1>6, TaskOK
<1> QED BY <1>2, <1>7

LEMMA AfterGetIs ==
    ASSUME Filed, NEW c \in Calls, call[c].at = "get", NEW list, NEW w, w = AfterGet(c, list)
    PROVE  /\ CallOK(w)
           /\ \/ /\ w.at = "mark" /\ w.id = call[c].id
                 /\ call[c].kind \in {"friends", "dismiss", "see"}
                 /\ w.kind \in {"friends", "dismiss", "blind", "see"}
                 /\ w.kind = "dismiss" => State(list, w.id) # None
              \/ /\ w.at = "upsert" /\ w.id = call[c].id /\ w.kind = "seed"
                 /\ call[c].kind = "seed" /\ State(list, w.id) = None
              \/ /\ w.at = "asking" /\ w.id = call[c].id
                 /\ call[c].kind \in {"accept", "decline"} /\ w.kind = call[c].kind
              \/ w = Idle
<1> DEFINE v == call[c]
           x == State(list, v.id)
           marks == \/ v.kind = "friends" /\ x \in Actionable
                    \/ v.kind \in {"dismiss", "see"} /\ (x # None \/ v.id \in Users)
           blind == v.kind = "dismiss" /\ x = None
           kind == IF blind THEN "blind" ELSE v.kind
<1>1. v.kind \in {"friends", "seed", "accept", "decline"} => v.id \in Users
  BY DEF Filed, CallOK, Concerns
<1>2. v.id \in Ids
  BY IdIs DEF Filed
<1>3. w = IF marks THEN Task("mark", kind, v.id, <<>>)
          ELSE IF v.kind = "seed" /\ Reseeds(x) THEN Task("upsert", v.kind, v.id, <<>>)
          ELSE IF v.kind \in {"accept", "decline"} /\ cache[v.id] # "none"
          THEN Task("asking", v.kind, v.id, <<>>)
          ELSE Idle
  BY DEF AfterGet
<1>4. CASE marks
  <2>1. w = Task("mark", kind, v.id, <<>>) /\ v.kind \in {"friends", "dismiss", "see"}
    BY <1>3, <1>4
  <2>2. /\ kind \in {"friends", "dismiss", "blind", "see"}
        /\ kind = "dismiss" => x # None
    BY <2>1
  <2>3. kind \in {"friends", "blind"} => v.id \in Users
    BY <1>1, <1>4
  <2> HIDE DEF kind, x, marks, blind, v
  <2>4. CallOK(w) /\ w.at = "mark" /\ w.kind = kind /\ w.id = v.id
    BY <1>2, <2>1, <2>2, <2>3, AsksOK
  <2> QED BY <2>1, <2>2, <2>4 DEF v, x
<1>5. CASE ~marks /\ v.kind = "seed" /\ Reseeds(x)
  <2>1. w = Task("upsert", "seed", v.id, <<>>) /\ x = None
    BY <1>3, <1>5 DEF Reseeds
  <2>2. CallOK(w) /\ w.at = "upsert" /\ w.kind = "seed" /\ w.id = v.id
    BY <1>1, <1>5, <2>1, AsksOK
  <2> QED BY <1>5, <2>1, <2>2
<1>6. CASE ~marks /\ v.kind \in {"accept", "decline"} /\ cache[v.id] # "none"
  <2>1. w = Task("asking", v.kind, v.id, <<>>)
    BY <1>3, <1>6
  <2>2. CallOK(w) /\ w.at = "asking" /\ w.kind = v.kind /\ w.id = v.id
    BY <1>1, <1>6, <2>1, AsksOK
  <2> QED BY <1>6, <2>2
<1>7. CASE w = Idle
  BY <1>7, IdleIs
<1> QED BY <1>3, <1>4, <1>5, <1>6, <1>7

LEMMA AnnounceIs ==
    ASSUME NEW ids \in Seq(Notices), NEW w, w = Announce(ids)
    PROVE  /\ CallOK(w)
           /\ w = Idle \/ (w.at = "mark" /\ w.kind = "announce" /\ w.id \in Notices)
           /\ \A n \in ToSet(ids) : Announcing(w, n)
<1>1. CASE ids = <<>>
  BY <1>1, IdleIs DEF Announce, ToSet
<1>2. CASE ids # <<>>
  <2> DEFINE first == Head(ids)
             rest == Tail(ids)
  <2>1. /\ first = ids[1] /\ first \in Notices /\ rest \in Seq(Notices)
        /\ \A k \in 1..Len(ids) : k # 1 => k - 1 \in 1..Len(rest) /\ rest[k - 1] = ids[k]
    BY <1>2
  <2>2. w = Task("mark", "announce", first, rest)
    BY <1>2 DEF Announce
  <2> HIDE DEF first, rest
  <2>3. w.at = "mark" /\ w.kind = "announce" /\ w.id = first /\ w.todo = rest
    BY <2>2 DEF Task
  <2>4. Serves(w) /\ Concerns(w)
    BY <2>1, <2>3, InboxAssumption DEF Serves, Concerns, InboxAssumption, Kinds
  <2>5. /\ "mark" \in Places \ Writing /\ "announce" \in Kinds \cup {None}
        /\ first \in Ids \cup {None}
    BY <2>1 DEF Places, Sections, Writing, Kinds, Ids
  <2>6. CallOK(Task("mark", "announce", first, rest))
    BY <2>1, <2>2, <2>4, <2>5, TaskOK
  <2>7. ASSUME NEW n \in ToSet(ids) PROVE n = first \/ n \in ToSet(rest)
    <3>1. PICK k \in 1..Len(ids) : ids[k] = n
      BY DEF ToSet
    <3>2. CASE k = 1
      BY <2>1, <3>1, <3>2
    <3>3. CASE k # 1
      <4>1. k - 1 \in 1..Len(rest) /\ rest[k - 1] = n
        BY <2>1, <3>1, <3>3
      <4>2. DOMAIN rest = 1..Len(rest)
        BY <2>1
      <4> QED BY <4>1, <4>2 DEF ToSet
    <3> QED BY <3>2, <3>3
  <2> QED BY <2>1, <2>2, <2>3, <2>6, <2>7 DEF Announcing
<1> QED BY <1>1, <1>2

LEMMA NextMarkIs ==
    ASSUME Filed, NEW c \in Calls, NEW w, w = NextMark(c)
    PROVE  /\ CallOK(w)
           /\ w = Idle \/ (w.at = "mark" /\ w.kind = "announce" /\ w.id \in Notices)
           /\ \A n : Announcing(call[c], n) => n = call[c].id \/ Announcing(w, n)
<1>1. call[c].todo \in Seq(Notices)
  BY DEF Filed, CallOK, Tasks
<1>2. w = Announce(call[c].todo)
  BY DEF NextMark
<1> QED BY <1>1, <1>2, AnnounceIs DEF Announcing

LEMMA OutcomeIs ==
    ASSUME NEW w, CallOK(w), w.at = "marking"
    PROVE  /\ Outcome[w.kind] \in States \ {"unread"}
           /\ w.kind \in {"dismiss", "blind", "gone"} => Outcome[w.kind] = "dismissed"
           /\ Outcome[w.kind] \in Actionable => w.kind \in {"see", "announce"}
<1>1. w.kind \in {"gone", "friends", "dismiss", "blind", "see", "accept", "decline", "announce"}
  BY DEF CallOK, Serves
<1>2. /\ Outcome["dismiss"] = "dismissed" /\ Outcome["blind"] = "dismissed"
      /\ Outcome["gone"] = "dismissed" /\ Outcome["see"] = "read" /\ Outcome["announce"] = "read"
      /\ Outcome["friends"] = "acted" /\ Outcome["accept"] = "acted"
      /\ Outcome["decline"] = "acted"
  BY DEF Outcome
<1> QED BY <1>1, <1>2 DEF States, Actionable

LEMMA WrittenIs ==
    ASSUME NEW w, CallOK(w), w.at \in Writing, NEW list, list = Written(w)
    PROVE  /\ Kept(list) /\ Len(list) <= Ring
           /\ \A j : Has(list, j) => Has(w.base, j) \/ (j = w.id /\ w.at = "upserting")
           /\ \A j : Has(list, j) /\ j # w.id => State(list, j) = State(w.base, j)
           /\ Has(list, w.id) =>
                State(list, w.id) = IF w.at = "upserting" THEN "unread" ELSE Outcome[w.kind]
<1>1. Kept(w.base) /\ w.id \in Ids
  BY IdIs DEF CallOK, Writing
<1>2. CASE w.at = "upserting"
  <2> DEFINE u == Upserted(w.base, w.id)
  <2>1. /\ Kept(u) /\ State(u, w.id) = "unread"
        /\ \A j : Has(u, j) <=> Has(w.base, j) \/ j = w.id
        /\ \A j : j # w.id => State(u, j) = State(w.base, j)
    BY <1>1, UpsertedIs, Zenon
  <2>2. list = Ringed(u)
    BY <1>2 DEF Written
  <2> HIDE DEF u
  <2>3. /\ Kept(list) /\ Len(list) <= Ring
        /\ \A j : Has(list, j) => Has(u, j) /\ State(list, j) = State(u, j)
    <3>1. /\ Kept(Ringed(u)) /\ Len(Ringed(u)) <= Ring
          /\ \A j : Has(Ringed(u), j) => Has(u, j) /\ State(Ringed(u), j) = State(u, j)
      BY <2>1, RingedIs
    <3> QED BY <2>2, <3>1
  <2> QED BY <1>2, <2>1, <2>3
<1>3. CASE w.at = "marking"
  <2> DEFINE s == Outcome[w.kind]
             u == Marked(w.base, w.id, s)
  <2>1. s \in States
    BY <1>3, OutcomeIs
  <2> HIDE DEF s
  <2>2. /\ Kept(u)
        /\ \A j : Has(u, j) <=> Has(w.base, j)
        /\ Has(w.base, w.id) => State(u, w.id) = s
        /\ \A j : j # w.id => State(u, j) = State(w.base, j)
    BY <1>1, <2>1, MarkedIs, Zenon
  <2>3. list = Ringed(u)
    BY <1>3 DEF Written, s
  <2> HIDE DEF u
  <2>4. /\ Kept(list) /\ Len(list) <= Ring
        /\ \A j : Has(list, j) => Has(u, j) /\ State(list, j) = State(u, j)
    <3>1. /\ Kept(Ringed(u)) /\ Len(Ringed(u)) <= Ring
          /\ \A j : Has(Ringed(u), j) => Has(u, j) /\ State(Ringed(u), j) = State(u, j)
      BY <2>2, RingedIs
    <3> QED BY <2>3, <3>1
  <2>5. \A j : Has(list, j) => Has(w.base, j)
    BY <2>2, <2>4
  <2>6. \A j : Has(list, j) /\ j # w.id => State(list, j) = State(w.base, j)
    BY <2>2, <2>4
  <2>7. Has(list, w.id) => State(list, w.id) = s
    BY <2>2, <2>4
  <2> QED BY <1>3, <2>4, <2>5, <2>6, <2>7 DEF s
<1> QED BY <1>2, <1>3 DEF Writing

-----------------------------------------------------------------------------
(* What a move that leaves the file alone leaves alone.                     *)
LEMMA FiledMove ==
    ASSUME Filed, NEW c \in Calls, NEW w, Moved(c, w), w.kind = "add" => c \in Handlers,
           Kept(items'), Len(items') <= Ring, \A v \in late' : CallOK(v) /\ v.at \in Writing
    PROVE  Filed'
<1>1. call'[c] = w /\ \A d \in Calls \ {c} : call'[d] = call[d]
  BY SetsIs DEF Moved
<1>2. CallOK(w) /\ w \in Tasks
  BY DEF Moved, CallOK
<1>3. call' \in [Calls -> Tasks]
  BY <1>2 DEF Moved, Sets, Filed
<1>4. \A d \in Calls : CallOK(call'[d])
  BY <1>1, <1>2 DEF Filed
<1>5. \A d \in Calls : call'[d].kind = "add" => d \in Handlers
  BY <1>1 DEF Filed
<1> QED BY <1>3, <1>4, <1>5 DEF Filed, Kept, CallOK, Serves, Concerns

LEMMA SerialMove ==
    ASSUME Filed, Serial, NEW c \in Calls, NEW w, Moved(c, w), items' = items,
           late' = late \/ strayed', strayed => strayed', w.at \in Writing => w.base = items
    PROVE  Serial'
<1>1. call'[c] = w /\ \A d \in Calls \ {c} : call'[d] = call[d]
  BY SetsIs DEF Moved
<1> QED BY <1>1 DEF Serial

LEMMA DecidedMove ==
    ASSUME Filed, Queued, Decided, NEW c \in Calls, NEW w, Moved(c, w),
           items' = items, closed' = closed, dropped' = dropped, strayed => strayed',
           ASSUME ~strayed, NEW u \in Users \ dropped, Dismisses(w, u)
           PROVE  Has(items, u) /\ (GoesLast(c) \/ (Dismisses(call[c], u) /\ queue' = queue)),
           ASSUME ~strayed, NEW u \in Users \ dropped, Inserts(w, u)
           PROVE  \/ u \notin closed /\ \A d \in Calls : ~Dismisses(call[d], u)
                  \/ Inserts(call[c], u) /\ queue' = queue
    PROVE  Decided'
<1> SUFFICES ASSUME ~strayed, NEW u \in Users \ dropped
             PROVE  /\ u \in closed => Has(items, u) /\ State(items, u) \notin Actionable
                    /\ \A d \in Calls : Dismisses(call'[d], u) => Has(items, u)
                    /\ \A e \in Calls : Inserts(call'[e], u) =>
                         /\ u \notin closed
                         /\ \A d \in Calls : Dismisses(call'[d], u) => Ahead(queue', e, d)
  BY DEF Decided, Ahead, Has, State, Dismisses, Inserts
<1>1. call'[c] = w /\ \A d \in Calls \ {c} : call'[d] = call[d]
  BY SetsIs DEF Moved
<1>2. \A d, e \in Calls \ {c} : Ahead(queue, d, e) => Ahead(queue', d, e)
  BY DEF Moved
<1>3. u \in closed => Has(items, u) /\ State(items, u) \notin Actionable
  BY DEF Decided
<1>4. \A d \in Calls : Dismisses(call'[d], u) => Has(items, u)
  BY <1>1 DEF Decided
<1>5. ASSUME NEW e \in Calls, Inserts(call'[e], u)
      PROVE  /\ u \notin closed
             /\ \A d \in Calls : Dismisses(call'[d], u) => Ahead(queue', e, d)
  <2>1. \A v : Inserts(v, u) => ~Dismisses(v, u)
    BY DEF Inserts, Dismisses
  <2>2. CASE e = c
    <3>1. ~Dismisses(call'[c], u)
      BY <1>5, <2>1, <2>2
    <3>2. CASE u \notin closed /\ \A d \in Calls : ~Dismisses(call[d], u)
      BY <1>1, <3>1, <3>2
    <3>3. CASE Inserts(call[c], u) /\ queue' = queue
      BY <1>1, <2>2, <3>1, <3>3 DEF Decided
    <3> QED BY <1>1, <1>5, <2>2, <3>2, <3>3
  <2>3. CASE e # c
    <3>1. Inserts(call[e], u)
      BY <1>1, <1>5, <2>3
    <3>2. u \notin closed /\ \A d \in Calls : Dismisses(call[d], u) => Ahead(queue, e, d)
      BY <3>1 DEF Decided
    <3>3. In(queue, e)
      BY <3>1 DEF Queued, Inserts, Sections, Writing
    <3>4. ASSUME Dismisses(w, u) PROVE Ahead(queue', e, c)
      BY <2>3, <3>2, <3>3, <3>4 DEF GoesLast
    <3> QED BY <1>1, <1>2, <2>3, <3>2, <3>4
  <2> QED BY <2>2, <2>3
<1> QED BY <1>3, <1>4, <1>5

LEMMA WaitsMove ==
    ASSUME Filed, Waits, NEW c \in Calls, NEW w, Moved(c, w),
           items' = items, fresh' \subseteq fresh, strayed => strayed',
           ASSUME ~strayed, NEW u \in fresh', w.id = u
           PROVE  w.kind = "seed" \/ (w.kind = call[c].kind /\ call[c].id = u /\ queue' = queue),
           ASSUME ~strayed, NEW u \in fresh', Adds(call[c], u) PROVE Adds(w, u)
    PROVE  Waits'
<1> SUFFICES ASSUME ~strayed, NEW u \in fresh'
             PROVE  /\ \A d \in Calls : call'[d].id = u => call'[d].kind \in {"add", "gone", "seed"}
                    /\ \A d \in Calls : call'[d].id = u /\ call'[d].kind = "gone" =>
                         /\ Coming(u)'
                         /\ \A e \in Calls : Adds(call'[e], u) => Ahead(queue', d, e)
                    /\ Coming(u)' \/ ~Has(items, u) \/ State(items, u) \in Actionable
  BY DEF Waits, Ahead, Has, State, Adds, Coming
<1>1. call'[c] = w /\ \A d \in Calls \ {c} : call'[d] = call[d]
  BY SetsIs DEF Moved
<1>2. \A d, e \in Calls \ {c} : Ahead(queue, d, e) => Ahead(queue', d, e)
  BY DEF Moved
<1>3. /\ \A d \in Calls : call[d].id = u => call[d].kind \in {"add", "gone", "seed"}
      /\ \A d \in Calls : call[d].id = u /\ call[d].kind = "gone" =>
           Coming(u) /\ \A e \in Calls : Adds(call[e], u) => Ahead(queue, d, e)
      /\ Coming(u) \/ ~Has(items, u) \/ State(items, u) \in Actionable
  BY DEF Waits
<1>4. Coming(u) => Coming(u)'
  BY <1>1 DEF Coming, Adds
<1>5. \A d \in Calls : call'[d].id = u => call'[d].kind \in {"add", "gone", "seed"}
  BY <1>1, <1>3
<1>6. ASSUME NEW d \in Calls, call'[d].id = u, call'[d].kind = "gone",
             NEW e \in Calls, Adds(call'[e], u)
      PROVE  Coming(u)' /\ Ahead(queue', d, e)
  <2>1. CASE d = c \/ e = c
    <3>1. w.id = u /\ w.kind # "seed"
      BY <1>1, <1>6, <2>1 DEF Adds
    <3>2. w.kind = call[c].kind /\ call[c].id = u /\ queue' = queue
      BY <3>1
    <3>3. call[d].id = u /\ call[d].kind = "gone" /\ Adds(call[e], u)
      BY <1>1, <1>6, <3>1, <3>2 DEF Adds
    <3> QED BY <1>3, <1>4, <3>2, <3>3
  <2>2. CASE d # c /\ e # c
    BY <1>1, <1>2, <1>3, <1>4, <1>6, <2>2
  <2> QED BY <2>1, <2>2
<1>7. ASSUME NEW d \in Calls, call'[d].id = u, call'[d].kind = "gone" PROVE Coming(u)'
  <2>1. call[d].id = u /\ call[d].kind = "gone"
    BY <1>1, <1>7
  <2> QED BY <1>3, <1>4, <2>1
<1> QED BY <1>3, <1>4, <1>5, <1>6, <1>7

LEMMA AnnouncesMove ==
    ASSUME Filed, Announces, NEW c \in Calls, NEW w, Moved(c, w),
           items' = items, told' = told, shown' = shown, lost \subseteq lost',
           strayed => strayed', \A t \in Turns : carried'[t] \subseteq carried[t],
           ASSUME NEW n \in Ids \ lost', State(items, n) = "unread", Announcing(call[c], n)
           PROVE  Announcing(w, n)
    PROVE  Announces'
<1> SUFFICES ASSUME ~strayed, NEW n \in Ids \ lost', State(items, n) = "unread"
             PROVE  /\ n \in told => ToMark(n)'
                    /\ \A t \in Turns : n \in Notices /\ n \in carried'[t] =>
                         n \in ToSet(shown) \/ ToMark(n)'
  BY DEF Announces, State, Has, ToMark, ToSet
<1>1. call'[c] = w /\ \A d \in Calls \ {c} : call'[d] = call[d]
  BY SetsIs DEF Moved
<1>2. ToMark(n) => ToMark(n)'
  <2> SUFFICES ASSUME NEW t \in Calls, Announcing(call[t], n) PROVE ToMark(n)'
    BY DEF ToMark
  <2>1. Announcing(call'[t], n)
    BY <1>1
  <2> QED BY <2>1 DEF ToMark, Announcing, ToSet
<1> QED BY <1>2 DEF Announces

-----------------------------------------------------------------------------
(* Every step keeps the invariant.                                          *)
LEMMA HasState ==
    ASSUME NEW list, Kept(list), NEW i, Has(list, i)
    PROVE  State(list, i) \in States /\ State(list, i) # None
<1>1. PICK k \in DOMAIN list : list[k].id = i
  BY DEF Has
<1>2. list[k] \in Items
  BY DEF Kept
<1>3. State(list, i) = list[k].state
  BY <1>1, StateIs
<1> QED BY <1>2, <1>3, InboxAssumption DEF Items, InboxAssumption

LEMMA Apart ==
    ASSUME NEW u \in Users
    PROVE  u # None /\ u \notin Notices /\ u # Idle.id
BY IdleIs, InboxAssumption DEF InboxAssumption, Ids

LEMMA GetKeeps ==
    ASSUME InboxInv, NEW c \in Calls, Get(c) PROVE InboxInv'
<1> DEFINE w == AfterGet(c, items)
<1>1. call[c].at = "get" /\ HasLock(c) /\ GoesOn(c, w)
  BY DEF Get
<1> HIDE DEF w
<1>2. /\ CallOK(w)
      /\ \/ /\ w.at = "mark" /\ w.id = call[c].id
            /\ call[c].kind \in {"friends", "dismiss", "see"}
            /\ w.kind \in {"friends", "dismiss", "blind", "see"}
            /\ w.kind = "dismiss" => State(items, w.id) # None
         \/ /\ w.at = "upsert" /\ w.id = call[c].id /\ w.kind = "seed"
            /\ call[c].kind = "seed" /\ State(items, w.id) = None
         \/ /\ w.at = "asking" /\ w.id = call[c].id
            /\ call[c].kind \in {"accept", "decline"} /\ w.kind = call[c].kind
         \/ w = Idle
  BY <1>1, AfterGetIs DEF InboxInv, w
<1>3. w.at \notin Writing /\ w.kind \notin {"add", "gone", "announce"}
  BY <1>2, IdleIs, InboxAssumption DEF Writing, InboxAssumption, Kinds
<1>4. Moved(c, w) /\ (w.at \in Sections => GoesLast(c))
  BY <1>1, <1>2, <1>3, MovesOn DEF InboxInv
<1>5. /\ UNCHANGED <<items, late, relation, cache, wire, shown, carried, moves>>
      /\ UNCHANGED <<told, lost, closed, fresh, strayed, dropped>>
  BY DEF Get, discord, prompts, history
<1>6. Filed'
  BY <1>3, <1>4, <1>5, FiledMove DEF InboxInv, Filed
<1>7. Held'
  BY <1>5 DEF InboxInv, Held
<1>8. Queued'
  BY <1>4 DEF Moved
<1>9. Serial'
  BY <1>3, <1>4, <1>5, SerialMove DEF InboxInv
<1>10. Decided'
  <2>1. ASSUME NEW u \in Users, Dismisses(w, u) PROVE Has(items, u) /\ GoesLast(c)
    <3>1. w.at = "mark" /\ w.kind = "dismiss" /\ w.id = u
      BY <1>3, <2>1 DEF Dismisses, Writing
    <3>2. State(items, u) # None
      BY <1>2, <3>1, IdleIs
    <3> QED BY <1>4, <3>1, <3>2, NoStateIs DEF Sections
  <2>2. ASSUME ~strayed, NEW u \in Users \ dropped, Inserts(w, u)
        PROVE  u \notin closed /\ \A d \in Calls : ~Dismisses(call[d], u)
    <3>1. w.at = "upsert" /\ w.kind = "seed" /\ w.id = u
      BY <1>3, <2>2 DEF Inserts, Writing
    <3>2. State(items, u) = None
      BY <1>2, <3>1, IdleIs
    <3>3. ~Has(items, u)
      BY <3>2, HasState DEF InboxInv, Filed
    <3> QED BY <2>2, <3>3 DEF InboxInv, Decided
  <2> QED BY <1>4, <1>5, <2>1, <2>2, DecidedMove DEF InboxInv
<1>11. Waits'
  <2>1. ASSUME ~strayed, NEW u \in fresh, w.id = u PROVE w.kind = "seed"
    <3>1. w # Idle
      BY <2>1, Apart DEF InboxInv, Held
    <3>2. call[c].id = u
      BY <1>2, <2>1, <3>1
    <3>3. call[c].kind \in {"add", "gone", "seed"}
      BY <2>1, <3>2 DEF InboxInv, Waits
    <3> QED BY <1>2, <3>1, <3>3
  <2>2. call[c].kind # "add"
    BY <1>1 DEF InboxInv, Filed, CallOK, Serves
  <2> QED BY <1>4, <1>5, <2>1, <2>2, WaitsMove DEF InboxInv, Adds
<1>12. Announces'
  <2>1. call[c].kind # "announce"
    BY <1>1 DEF InboxInv, Filed, CallOK, Serves
  <2> QED BY <1>4, <1>5, <2>1, AnnouncesMove DEF InboxInv, Announcing
<1> QED BY <1>6, <1>7, <1>8, <1>9, <1>10, <1>11, <1>12 DEF InboxInv

LEMMA LoadKeeps ==
    ASSUME InboxInv, NEW c \in Calls, Load(c) PROVE InboxInv'
<1> DEFINE v == call[c]
<1>1. /\ UNCHANGED <<items, late, relation, cache, wire, shown, carried, moves>>
      /\ UNCHANGED <<told, lost, closed, fresh, strayed, dropped>>
  BY DEF Load, discord, prompts, history
<1>2. HasLock(c) /\ v.at \in {"upsert", "mark"} /\ CallOK(v)
  BY DEF Load, InboxInv, Filed
<1>3. Held'
  BY <1>1 DEF InboxInv, Held
<1>4. CASE v.at = "mark" /\ ~Has(items, v.id)
  <2> DEFINE w == NextMark(c)
  <2>1. GoesOn(c, w)
    BY <1>4 DEF Load
  <2> HIDE DEF w
  <2>2. /\ CallOK(w)
        /\ w = Idle \/ (w.at = "mark" /\ w.kind = "announce" /\ w.id \in Notices)
        /\ \A n : Announcing(v, n) => n = v.id \/ Announcing(w, n)
    BY NextMarkIs DEF w, InboxInv
  <2>3. w.at \notin Writing /\ w.kind \notin {"add", "gone", "dismiss", "seed"}
    BY <2>2, IdleIs, InboxAssumption DEF Writing, InboxAssumption, Kinds
  <2>4. Moved(c, w)
    BY <1>2, <2>1, <2>2, <2>3, MovesOn DEF InboxInv
  <2>5. Filed'
    BY <1>1, <2>3, <2>4, FiledMove DEF InboxInv, Filed
  <2>6. Queued'
    BY <2>4 DEF Moved
  <2>7. Serial'
    BY <1>1, <2>3, <2>4, SerialMove DEF InboxInv
  <2>8. Decided'
    BY <1>1, <2>3, <2>4, DecidedMove DEF InboxInv, Dismisses, Inserts
  <2>9. Waits'
    <3>1. \A u \in fresh : w.id # u
      BY <2>2, Apart DEF InboxInv, Held
    <3>2. v.kind # "add"
      BY <1>2, <1>4 DEF CallOK, Serves
    <3> QED BY <1>1, <2>4, <3>1, <3>2, WaitsMove DEF InboxInv, Adds
  <2>10. Announces'
    <3>1. ASSUME NEW n, State(items, n) = "unread", Announcing(v, n) PROVE Announcing(w, n)
      <4>1. Has(items, n)
        BY <3>1, NoStateIs, InboxAssumption DEF InboxAssumption, States
      <4> QED BY <1>4, <2>2, <3>1, <4>1
    <3> QED BY <1>1, <2>4, <3>1, AnnouncesMove DEF InboxInv
  <2> QED BY <1>3, <2>5, <2>6, <2>7, <2>8, <2>9, <2>10 DEF InboxInv
<1>5. CASE ~(v.at = "mark" /\ ~Has(items, v.id))
  <2> DEFINE w == Loaded(v)
  <2>1. Sets(c, w) /\ queue' = queue
    BY <1>5 DEF Load, Sets
  <2>2. /\ w.at = IF v.at = "mark" THEN "marking" ELSE "upserting"
        /\ w.kind = v.kind /\ w.id = v.id /\ w.base = items /\ w.todo = v.todo
    BY DEF Loaded
  <2>3. w \in Tasks
    BY <1>2 DEF Loaded, InboxInv, Filed, Kept, CallOK, Tasks, Places, Sections, Writing
  <2> HIDE DEF w
  <2>4. CallOK(w)
    <3>1. Serves(w)
      BY <1>2, <2>2 DEF CallOK, Serves
    <3>2. Concerns(w)
      BY <1>2, <2>2 DEF CallOK, Concerns
    <3> QED BY <1>2, <2>2, <2>3, <3>1, <3>2 DEF CallOK, InboxInv, Filed
  <2>5. Moved(c, w)
    BY <1>2, <2>1, <2>2, <2>4, Stays DEF InboxInv, Sections, Writing
  <2>6. Filed'
    BY <1>1, <2>2, <2>5, FiledMove DEF InboxInv, Filed
  <2>7. Queued'
    BY <2>5 DEF Moved
  <2>8. Serial'
    BY <1>1, <2>2, <2>5, SerialMove DEF InboxInv
  <2>9. Decided'
    <3>1. ASSUME NEW u, Dismisses(w, u) PROVE Dismisses(v, u)
      BY <1>2, <2>2, <3>1 DEF Dismisses
    <3>2. ASSUME NEW u, Inserts(w, u) PROVE Inserts(v, u)
      BY <1>2, <2>2, <3>2 DEF Inserts
    <3>3. ASSUME ~strayed, NEW u \in Users \ dropped, Dismisses(v, u) PROVE Has(items, u)
      BY <3>3 DEF InboxInv, Decided
    <3> QED BY <1>1, <2>1, <2>5, <3>1, <3>2, <3>3, DecidedMove DEF InboxInv
  <2>10. Waits'
    BY <1>1, <2>1, <2>2, <2>5, WaitsMove DEF InboxInv, Adds
  <2>11. Announces'
    BY <1>1, <2>2, <2>5, AnnouncesMove DEF InboxInv, Announcing
  <2> QED BY <1>3, <2>6, <2>7, <2>8, <2>9, <2>10, <2>11 DEF InboxInv
<1> QED BY <1>4, <1>5

LEMMA RecordedIs ==
    ASSUME Held, NEW v, CallOK(v), v.at \in Writing, Recorded(v)
    PROVE  /\ told' \subseteq Ids /\ closed' \subseteq Ids /\ dropped' \subseteq Users
           /\ carried' \in [Turns -> SUBSET Ids] /\ \A t \in Turns : carried'[t] \subseteq carried[t]
           /\ told' \subseteq told \cup {v.id}
           /\ v.at = "upserting" =>
                v.id \notin told' /\ \A t \in Turns : v.id \notin carried'[t]
<1>1. v.id \in Ids
  BY IdIs DEF Writing
<1>2. told' \subseteq Ids /\ told' \subseteq told \cup {v.id}
  BY <1>1 DEF Recorded, Held
<1>3. closed' \subseteq Ids
  BY <1>1 DEF Recorded, Held
<1>4. carried' \in [Turns -> SUBSET Ids] /\ \A t \in Turns : carried'[t] \subseteq carried[t]
  BY DEF Recorded, Held
<1>5. dropped' \subseteq Users
  BY DEF Recorded, Held
<1>6. v.at = "upserting" => v.id \notin told' /\ \A t \in Turns : v.id \notin carried'[t]
  BY DEF Recorded, Held
<1> QED BY <1>2, <1>3, <1>4, <1>5, <1>6

LEMMA SaveKeeps ==
    ASSUME InboxInv, NEW c \in Calls, Save(c) PROVE InboxInv'
<1> DEFINE v == call[c]
           w == NextMark(c)
<1>1. /\ UNCHANGED <<late, relation, cache, wire, shown, moves, lost, fresh, strayed>>
      /\ HasLock(c) /\ v.at \in Writing /\ items' = Written(v) /\ Recorded(v) /\ GoesOn(c, w)
  BY DEF Save, discord
<1> HIDE DEF w
<1>2. CallOK(v)
  BY DEF InboxInv, Filed
<1>3. /\ CallOK(w)
      /\ w = Idle \/ (w.at = "mark" /\ w.kind = "announce" /\ w.id \in Notices)
      /\ \A n : Announcing(v, n) => n = v.id \/ Announcing(w, n)
  BY NextMarkIs DEF w, InboxInv
<1>4. w.at \notin Writing /\ w.kind \notin {"add", "gone", "dismiss", "seed"}
  BY <1>3, IdleIs, InboxAssumption DEF Writing, InboxAssumption, Kinds
<1>5. Moved(c, w)
  BY <1>1, <1>3, <1>4, MovesOn DEF InboxInv
<1>6. call'[c] = w /\ \A d \in Calls \ {c} : call'[d] = call[d]
  BY <1>5, SetsIs DEF Moved, InboxInv
<1>7. \A d, e \in Calls \ {c} : Ahead(queue, d, e) => Ahead(queue', d, e)
  BY <1>5 DEF Moved
<1>8. \A d : ~Ahead(queue, d, c)
  BY <1>1, TailLine DEF InboxInv, Queued, HasLock
<1>9. /\ Kept(items') /\ Len(items') <= Ring
      /\ \A j : Has(items', j) => Has(v.base, j) \/ (j = v.id /\ v.at = "upserting")
      /\ \A j : Has(items', j) /\ j # v.id => State(items', j) = State(v.base, j)
      /\ Has(items', v.id) =>
           State(items', v.id) = IF v.at = "upserting" THEN "unread" ELSE Outcome[v.kind]
  BY <1>1, <1>2, WrittenIs
<1>10. /\ told' \subseteq Ids /\ closed' \subseteq Ids /\ dropped' \subseteq Users
       /\ carried' \in [Turns -> SUBSET Ids] /\ \A t \in Turns : carried'[t] \subseteq carried[t]
       /\ told' \subseteq told \cup {v.id}
       /\ v.at = "upserting" => v.id \notin told' /\ \A t \in Turns : v.id \notin carried'[t]
  BY <1>1, <1>2, RecordedIs DEF InboxInv
<1>11. ~strayed => v.base = items
  BY <1>1 DEF InboxInv, Serial
<1>12. Filed'
  BY <1>1, <1>4, <1>5, <1>9, FiledMove DEF InboxInv, Filed
<1>13. Held'
  BY <1>1, <1>10 DEF InboxInv, Held
<1>14. Queued'
  BY <1>5 DEF Moved
<1>15. Serial'
  <2>1. \A d \in Calls \ {c} : call[d].at \notin Writing
    BY <1>1 DEF InboxInv, Queued, HasLock
  <2> QED BY <1>1, <1>4, <1>6, <2>1 DEF InboxInv, Serial
<1>16. Decided'
  <2> SUFFICES ASSUME ~strayed, NEW u \in Users \ dropped'
               PROVE  /\ u \in closed' => Has(items', u) /\ State(items', u) \notin Actionable
                      /\ \A d \in Calls : Dismisses(call'[d], u) => Has(items', u)
                      /\ \A e \in Calls : Inserts(call'[e], u) =>
                           /\ u \notin closed'
                           /\ \A d \in Calls : Dismisses(call'[d], u) => Ahead(queue', e, d)
    BY <1>1 DEF Decided, Ahead, Has, State, Dismisses, Inserts
  <2>1. u \notin dropped /\ (Has(items, u) => Has(items', u))
    BY <1>1 DEF Recorded
  <2>2. /\ u \in closed => Has(items, u) /\ State(items, u) \notin Actionable
        /\ \A d \in Calls : Dismisses(call[d], u) => Has(items, u)
        /\ \A e \in Calls : Inserts(call[e], u) =>
             u \notin closed /\ \A d \in Calls : Dismisses(call[d], u) => Ahead(queue, e, d)
    BY <2>1 DEF InboxInv, Decided
  <2>3. ASSUME u \in closed' PROVE Has(items', u) /\ State(items', u) \notin Actionable
    <3>1. CASE u # v.id
      <4>1. u \in closed
        BY <1>1, <2>3, <3>1 DEF Recorded
      <4> QED BY <1>9, <1>11, <2>1, <2>2, <3>1, <4>1
    <3>2. CASE u = v.id /\ v.at = "upserting"
      <4>1. v.kind = "seed" /\ u \in closed
        BY <1>1, <2>3, <3>2 DEF Recorded
      <4>2. Inserts(v, u)
        BY <3>2, <4>1 DEF Inserts
      <4> QED BY <2>2, <4>1, <4>2
    <3>3. CASE u = v.id /\ v.at = "marking"
      <4>1. v.kind # "see"
        BY <1>1, <2>3, <3>3 DEF Recorded
      <4>2. v.kind # "announce"
        BY <1>2, <3>3, Apart DEF CallOK, Concerns
      <4>3. Has(items, u)
        <5>1. CASE v.kind = "dismiss"
          BY <2>2, <3>3, <5>1 DEF Dismisses
        <5>2. CASE v.kind # "dismiss"
          BY <1>1, <2>2, <2>3, <3>3, <5>2 DEF Recorded
        <5> QED BY <5>1, <5>2
      <4>4. State(items', u) = Outcome[v.kind]
        BY <1>9, <2>1, <3>3, <4>3
      <4> QED BY <1>2, <2>1, <3>3, <4>1, <4>2, <4>3, <4>4, OutcomeIs
    <3> QED BY <1>1, <3>1, <3>2, <3>3 DEF Writing
  <2>4. ASSUME NEW d \in Calls, Dismisses(call'[d], u) PROVE d # c /\ Dismisses(call[d], u)
    BY <1>4, <1>6, <2>4 DEF Dismisses
  <2>5. ASSUME NEW e \in Calls, Inserts(call'[e], u)
        PROVE  /\ u \notin closed'
               /\ \A d \in Calls : Dismisses(call'[d], u) => Ahead(queue', e, d)
    <3>1. e # c /\ Inserts(call[e], u)
      BY <1>4, <1>6, <2>5 DEF Inserts
    <3>2. ~Dismisses(v, u)
      BY <1>8, <2>2, <3>1
    <3>3. u \notin closed'
      <4> SUFFICES ASSUME u \in closed', u \notin closed PROVE FALSE
        BY <2>2, <3>1
      <4>1. v.at = "marking" /\ v.kind = "dismiss" /\ v.id = u
        BY <1>1 DEF Recorded, Writing
      <4> QED BY <3>2, <4>1 DEF Dismisses
    <3> QED BY <1>7, <2>2, <2>4, <3>1, <3>3
  <2> QED BY <2>1, <2>2, <2>3, <2>4, <2>5
<1>17. Waits'
  <2> SUFFICES ASSUME ~strayed, NEW u \in fresh
               PROVE  /\ \A d \in Calls : call'[d].id = u => call'[d].kind \in {"add", "gone", "seed"}
                      /\ \A d \in Calls : call'[d].id = u /\ call'[d].kind = "gone" =>
                           /\ Coming(u)'
                           /\ \A e \in Calls : Adds(call'[e], u) => Ahead(queue', d, e)
                      /\ Coming(u)' \/ ~Has(items', u) \/ State(items', u) \in Actionable
    BY <1>1 DEF Waits, Ahead, Has, State, Adds, Coming
  <2>1. /\ \A d \in Calls : call[d].id = u => call[d].kind \in {"add", "gone", "seed"}
        /\ \A d \in Calls : call[d].id = u /\ call[d].kind = "gone" =>
             Coming(u) /\ \A e \in Calls : Adds(call[e], u) => Ahead(queue, d, e)
        /\ Coming(u) \/ ~Has(items, u) \/ State(items, u) \in Actionable
    BY DEF InboxInv, Waits
  <2>2. w.id # u /\ u \in Users
    BY <1>3, Apart DEF InboxInv, Held
  <2>3. \A d \in Calls : call'[d].id = u => d # c /\ call[d].id = u /\ call'[d] = call[d]
    BY <1>6, <2>2
  <2>4. ASSUME Coming(u), ~Adds(v, u) PROVE Coming(u)'
    <3>1. PICK e \in Calls : Adds(call[e], u)
      BY <2>4 DEF Coming, Adds
    <3>2. call'[e] = call[e]
      BY <1>6, <2>4, <3>1
    <3> QED BY <3>1, <3>2 DEF Coming, Adds
  <2>5. ASSUME NEW d \in Calls, call[d].id = u, call[d].kind = "gone" PROVE Coming(u)'
    BY <1>8, <2>1, <2>4, <2>5
  <2>6. Coming(u)' \/ ~Has(items', u) \/ State(items', u) \in Actionable
    <3>1. CASE u # v.id
      <4>1. ~Adds(v, u)
        BY <3>1 DEF Adds
      <4>2. Has(items', u) => Has(items, u) /\ State(items', u) = State(items, u)
        BY <1>9, <1>11, <3>1
      <4> QED BY <2>1, <2>4, <4>1, <4>2
    <3>2. CASE u = v.id /\ v.kind = "gone"
      BY <2>5, <3>2
    <3>3. CASE u = v.id /\ v.kind # "gone"
      <4>1. v.at = "upserting"
        BY <1>1, <1>2, <2>1, <3>3 DEF Writing, CallOK, Serves
      <4> QED BY <1>9, <3>3, <4>1 DEF Actionable
    <3> QED BY <3>1, <3>2, <3>3
  <2> QED BY <1>7, <2>1, <2>3, <2>5, <2>6 DEF Adds
<1>18. Announces'
  <2> SUFFICES ASSUME ~strayed, NEW n \in Ids \ lost, State(items', n) = "unread"
               PROVE  /\ n \in told' => ToMark(n)'
                      /\ \A t \in Turns : n \in Notices /\ n \in carried'[t] =>
                           n \in ToSet(shown) \/ ToMark(n)'
    BY <1>1 DEF Announces, State, Has, ToMark, ToSet
  <2>1. Has(items', n)
    BY NoStateIs, InboxAssumption DEF InboxAssumption, States
  <2>2. CASE n = v.id
    <3>1. CASE v.at = "upserting"
      BY <1>10, <2>2, <3>1
    <3>2. CASE v.at = "marking"
      BY <1>2, <1>9, <2>1, <2>2, <3>2, OutcomeIs
    <3> QED BY <1>1, <3>1, <3>2 DEF Writing
  <2>3. CASE n # v.id
    <3>1. State(items, n) = "unread"
      BY <1>9, <1>11, <2>1, <2>3
    <3>2. ToMark(n) => ToMark(n)'
      <4> SUFFICES ASSUME NEW t \in Calls, Announcing(call[t], n) PROVE ToMark(n)'
        BY DEF ToMark
      <4>1. Announcing(call'[t], n)
        BY <1>3, <1>6, <2>3
      <4> QED BY <4>1 DEF ToMark, Announcing, ToSet
    <3> QED BY <1>10, <2>3, <3>1, <3>2 DEF InboxInv, Announces
  <2> QED BY <2>2, <2>3
<1> QED BY <1>12, <1>13, <1>14, <1>15, <1>16, <1>17, <1>18 DEF InboxInv

LEMMA LateSaveKeeps ==
    ASSUME InboxInv, NEW w \in late, LateSave(w) PROVE InboxInv'
<1>1. /\ UNCHANGED <<queue, call, relation, cache, wire, shown, moves, lost, fresh, strayed>>
      /\ items' = Written(w) /\ Recorded(w) /\ late' \subseteq late
  BY DEF LateSave, discord
<1>2. CallOK(w) /\ w.at \in Writing
  BY DEF InboxInv, Filed
<1>3. strayed'
  BY <1>1 DEF InboxInv, Serial, Held
<1>4. Kept(items') /\ Len(items') <= Ring
  BY <1>1, <1>2, WrittenIs
<1>5. /\ told' \subseteq Ids /\ closed' \subseteq Ids /\ dropped' \subseteq Users
      /\ carried' \in [Turns -> SUBSET Ids]
  BY <1>1, <1>2, RecordedIs DEF InboxInv
<1>6. Filed'
  BY <1>1, <1>4 DEF InboxInv, Filed, Kept, CallOK, Serves, Concerns
<1>7. Held'
  BY <1>1, <1>5 DEF InboxInv, Held
<1>8. Queued'
  BY <1>1 DEF InboxInv, Queued, Lined, In, HasLock
<1> QED BY <1>3, <1>6, <1>7, <1>8 DEF InboxInv, Serial, Decided, Waits, Announces

LEMMA CancelKeeps ==
    ASSUME InboxInv, NEW c \in Calls, Cancel(c) PROVE InboxInv'
<1> DEFINE v == call[c]
<1>1. /\ UNCHANGED <<items, relation, cache, wire, shown, moves, told, closed, fresh, dropped>>
      /\ c \in Actions \cup Turns /\ v # Idle
      /\ Sets(c, Idle) /\ queue' = Only(queue, Calls \ {c})
  BY DEF Cancel, discord, Sets
<1>2. /\ late' \subseteq late \cup {v}
      /\ v.at \in Writing \/ late' = late
      /\ (late' = late \/ strayed') /\ (strayed => strayed') /\ strayed' \in BOOLEAN
  BY DEF Cancel, InboxInv, Held
<1>3. lost' = IF v.kind = "announce" THEN lost \cup ToSet(v.todo) \cup {v.id} ELSE lost
  BY DEF Cancel
<1>4. carried' = IF c \in Turns THEN [carried EXCEPT ![c] = {}] ELSE carried
  BY DEF Cancel
<1>5. CallOK(v)
  BY DEF InboxInv, Filed
<1>6. CallOK(Idle) /\ Idle.at \notin Sections /\ Idle.kind \notin Kinds /\ Idle.id = None
  BY IdleIs, InboxAssumption DEF Sections, Writing, InboxAssumption
<1>7. Moved(c, Idle)
  BY <1>1, <1>6, Leaves DEF InboxInv
<1>8. Idle.at \notin Writing
  BY <1>6 DEF Sections
<1>9. Filed'
  BY <1>1, <1>2, <1>5, <1>6, <1>7, FiledMove DEF InboxInv, Filed, Kinds
<1>10. Held'
  <2>1. lost' \subseteq Ids
    <3>1. v.kind = "announce" => ToSet(v.todo) \subseteq Ids /\ v.id \in Ids
      <4>1. v.kind = "announce" => v.id \in Ids
        BY <1>5 DEF CallOK, Concerns, Ids
      <4>2. v.todo \in Seq(Notices)
        BY <1>5 DEF CallOK, Tasks
      <4> QED BY <4>1, <4>2 DEF ToSet, Ids
    <3> QED BY <1>3, <3>1 DEF InboxInv, Held
  <2>2. carried' \in [Turns -> SUBSET Ids]
    BY <1>4 DEF InboxInv, Held
  <2> QED BY <1>1, <1>2, <2>1, <2>2 DEF InboxInv, Held
<1>11. Queued'
  BY <1>7 DEF Moved
<1>12. Serial'
  BY <1>1, <1>2, <1>7, <1>8, SerialMove DEF InboxInv
<1>13. Decided'
  BY <1>1, <1>2, <1>6, <1>7, DecidedMove DEF InboxInv, Dismisses, Inserts, Kinds
<1>14. Waits'
  <2>1. \A u \in fresh : Idle.id # u
    BY <1>6, Apart DEF InboxInv, Held
  <2>2. v.kind # "add"
    BY <1>1, InboxAssumption DEF InboxInv, Filed, InboxAssumption
  <2> QED BY <1>1, <1>2, <1>7, <2>1, <2>2, WaitsMove DEF InboxInv, Adds
<1>15. Announces'
  <2>1. \A n \in Ids \ lost' : ~Announcing(v, n)
    BY <1>3 DEF Announcing
  <2>2. lost \subseteq lost'
    BY <1>3
  <2>3. \A t \in Turns : carried'[t] \subseteq carried[t]
    BY <1>4 DEF InboxInv, Held
  <2> QED BY <1>1, <1>2, <1>7, <2>1, <2>2, <2>3, AnnouncesMove DEF InboxInv
<1> QED BY <1>9, <1>10, <1>11, <1>12, <1>13, <1>14, <1>15 DEF InboxInv

(* Nobody moves, or somebody who has nothing to do with a write begins or   *)
(* ends.                                                                    *)
LEMMA NobodyMoves ==
    ASSUME InboxInv, Held', fresh' \subseteq fresh,
           UNCHANGED <<items, queue, call, late, shown, carried>>,
           UNCHANGED <<told, lost, closed, strayed, dropped>>
    PROVE  InboxInv'
<1>1. Filed'
  BY DEF InboxInv, Filed, Kept, CallOK, Serves, Concerns
<1>2. Queued' /\ Serial'
  BY DEF InboxInv, Queued, Lined, In, HasLock, Serial
<1>3. Decided'
  BY DEF InboxInv, Decided, Has, State, Dismisses, Inserts, Ahead
<1>4. Waits'
  BY DEF InboxInv, Waits, Has, State, Adds, Coming, Ahead
<1>5. Announces'
  BY DEF InboxInv, Announces, Has, State, ToMark, Announcing, ToSet
<1> QED BY <1>1, <1>2, <1>3, <1>4, <1>5 DEF InboxInv

LEMMA SomebodyMoves ==
    ASSUME InboxInv, NEW c \in Calls, NEW w, Moved(c, w), Held', fresh' \subseteq fresh,
           UNCHANGED <<items, late, shown, told, lost, closed, strayed, dropped>>,
           w.at \notin Writing, w.kind # "add",
           w.at = "mark" => w.kind # "dismiss", w.at = "upsert" => w.kind # "seed",
           call[c].kind \notin {"add", "announce"},
           \A t \in Turns : carried'[t] \subseteq carried[t],
           ~strayed => \A u \in fresh' : w.id = u => w.kind = "seed"
    PROVE  InboxInv'
<1>1. Filed'
  BY FiledMove DEF InboxInv, Filed
<1>2. Queued'
  BY DEF Moved
<1>3. Serial'
  BY SerialMove DEF InboxInv
<1>4. \A u : ~Dismisses(w, u) /\ ~Inserts(w, u)
  BY DEF Dismisses, Inserts, Writing
<1>5. Decided'
  BY <1>4, DecidedMove DEF InboxInv
<1>6. Waits'
  BY WaitsMove DEF InboxInv, Adds
<1>7. Announces'
  BY AnnouncesMove DEF InboxInv, Announcing
<1> QED BY <1>1, <1>2, <1>3, <1>5, <1>6, <1>7 DEF InboxInv

LEMMA BeginsIs ==
    ASSUME InboxInv, NEW c \in Calls, NEW section \in {"get", "upsert", "mark"}, NEW kind, NEW i,
           Begins(c, section, kind, i), NEW w, w = Task(section, kind, i, <<>>),
           CallOK(w), w.at = section
    PROVE  Moved(c, w) /\ GoesLast(c) /\ call[c].kind = None
<1>1. Sets(c, w) /\ queue' = Append(queue, c) /\ call[c] = Idle
  BY DEF Begins, Sets
<1>2. call[c].at \notin Sections /\ w.at \in Sections \ Writing /\ call[c].kind = None
  BY <1>1, IdleIs DEF Sections, Writing
<1> QED BY <1>1, <1>2, Joins DEF InboxInv

LEMMA NoneIs == None \notin Kinds /\ None \notin Ids
BY InboxAssumption DEF InboxAssumption

LEMMA MovesIs == ASSUME Held, Moves PROVE moves' \in 0..MaxMoves
BY InboxAssumption DEF Moves, Held, InboxAssumption

LEMMA BecomesIs ==
    ASSUME Held, NEW u \in Users, NEW state \in {"none", "incoming", "friend"},
           NEW event \in {"add", "gone", "friends", "parted"}, Becomes(u, state, event)
    PROVE  /\ relation' \in [Users -> {"none", "incoming", "friend"}]
           /\ wire' \in Seq([kind : {"add", "gone", "friends", "parted"}, id : Users])
<1>1. relation' \in [Users -> {"none", "incoming", "friend"}]
  BY DEF Becomes, Held
<1>2. [kind |-> event, id |-> u] \in [kind : {"add", "gone", "friends", "parted"}, id : Users]
  OBVIOUS
<1>3. wire' \in Seq([kind : {"add", "gone", "friends", "parted"}, id : Users])
  BY <1>2 DEF Becomes, Held
<1> QED BY <1>1, <1>3

LEMMA PersonKeeps ==
    ASSUME InboxInv, NEW u \in Users, PersonAsks(u) \/ PersonLeaves(u) PROVE InboxInv'
<1>1. /\ UNCHANGED <<items, queue, call, late, shown, carried>>
      /\ UNCHANGED <<told, lost, closed, fresh, strayed, dropped>>
      /\ Moves
  BY DEF PersonAsks, PersonLeaves, file, prompts, history
<1>2. /\ relation' \in [Users -> {"none", "incoming", "friend"}]
      /\ wire' \in Seq([kind : {"add", "gone", "friends", "parted"}, id : Users])
  BY BecomesIs DEF PersonAsks, PersonLeaves, InboxInv
<1>3. Held'
  BY <1>1, <1>2, MovesIs DEF InboxInv, Held
<1> QED BY <1>1, <1>3, NobodyMoves

LEMMA HandleKeeps ==
    ASSUME InboxInv, NEW c \in Handlers, Handle(c) PROVE InboxInv'
<1> DEFINE e == Head(wire)
           open == \E d \in Calls : call[d].id = e.id /\ call[d].kind # "gone"
<1>1. /\ wire # <<>> /\ wire' = Tail(wire)
      /\ fresh' = IF e.kind = "add" /\ ~open THEN fresh \cup {e.id} ELSE fresh \ {e.id}
      /\ \/ e.kind = "add" /\ Request(c, e.id)
         \/ e.kind = "gone" /\ Begins(c, "mark", "gone", e.id)
         \/ e.kind = "friends" /\ Begins(c, "get", "friends", e.id)
         \/ e.kind = "parted" /\ UNCHANGED <<call, queue>>
      /\ UNCHANGED <<items, late, relation, shown, carried, moves>>
      /\ UNCHANGED <<told, lost, closed, strayed, dropped>>
  BY DEF Handle, prompts
<1>2. /\ e \in [kind : {"add", "gone", "friends", "parted"}, id : Users]
      /\ wire' \in Seq([kind : {"add", "gone", "friends", "parted"}, id : Users])
  <2> DEFINE E == [kind : {"add", "gone", "friends", "parted"}, id : Users]
  <2>1. wire \in Seq(E)
    BY DEF InboxInv, Held
  <2> HIDE DEF E
  <2>2. Head(wire) \in E /\ Tail(wire) \in Seq(E)
    BY <1>1, <2>1
  <2> QED BY <1>1, <2>2 DEF E
<1> HIDE DEF e
<1>3. e.id \in Users /\ c \in Calls
  BY <1>2 DEF Calls
<1>4. Held'
  BY <1>1, <1>2, <1>3 DEF InboxInv, Held
<1>5. CASE e.kind = "parted" /\ UNCHANGED <<call, queue>>
  BY <1>1, <1>4, <1>5, NobodyMoves
<1>6. CASE e.kind = "gone" /\ Begins(c, "mark", "gone", e.id)
  <2> DEFINE w == Task("mark", "gone", e.id, <<>>)
  <2>1. CallOK(w) /\ w.at = "mark" /\ w.kind = "gone" /\ w.id = e.id
    BY <1>3, AsksOK
  <2> HIDE DEF w
  <2>2. Moved(c, w) /\ call[c].kind = None
    BY <1>3, <1>6, <2>1, BeginsIs DEF w
  <2>3. fresh' = fresh \ {e.id}
    BY <1>1, <1>6
  <2> QED BY <1>1, <1>3, <1>4, <2>1, <2>2, <2>3, NoneIs, SomebodyMoves DEF Kinds, Writing
<1>7. CASE e.kind = "friends" /\ Begins(c, "get", "friends", e.id)
  <2> DEFINE w == Task("get", "friends", e.id, <<>>)
  <2>1. CallOK(w) /\ w.at = "get" /\ w.kind = "friends" /\ w.id = e.id
    BY <1>3, AsksOK
  <2> HIDE DEF w
  <2>2. Moved(c, w) /\ call[c].kind = None
    BY <1>3, <1>7, <2>1, BeginsIs DEF w
  <2>3. fresh' = fresh \ {e.id}
    BY <1>1, <1>7
  <2> QED BY <1>1, <1>3, <1>4, <2>1, <2>2, <2>3, NoneIs, SomebodyMoves DEF Kinds, Writing
<1>8. CASE e.kind = "add" /\ Request(c, e.id)
  <2> DEFINE w == Task("upsert", "add", e.id, <<>>)
  <2>1. CallOK(w) /\ w.at = "upsert" /\ w.kind = "add" /\ w.id = e.id
    BY <1>3, AsksOK
  <2> HIDE DEF w
  <2>2. Moved(c, w) /\ GoesLast(c) /\ call[c].kind = None
    BY <1>3, <1>8, <2>1, BeginsIs DEF w, Request
  <2>3. call'[c] = w /\ \A d \in Calls \ {c} : call'[d] = call[d]
    BY <1>3, <2>2, SetsIs DEF Moved, InboxInv
  <2>4. w.at \notin Writing /\ call[c].kind \notin Kinds
    BY <2>1, <2>2, NoneIs DEF Writing
  <2>5. Filed'
    BY <1>1, <1>3, <2>2, FiledMove DEF InboxInv, Filed
  <2>6. Queued'
    BY <2>2 DEF Moved
  <2>7. Serial'
    BY <1>1, <1>3, <2>2, <2>4, SerialMove DEF InboxInv
  <2>8. Decided'
    BY <1>1, <1>3, <2>1, <2>2, DecidedMove DEF InboxInv, Dismisses, Inserts
  <2>9. Announces'
    BY <1>1, <1>3, <2>2, <2>4, AnnouncesMove DEF InboxInv, Announcing, Kinds
  <2>10. items' = items /\ strayed' = strayed
    BY <1>1
  <2>11. Waits'
    <3> SUFFICES ASSUME ~strayed, NEW u \in fresh'
                 PROVE  /\ \A d \in Calls : call'[d].id = u =>
                             call'[d].kind \in {"add", "gone", "seed"}
                        /\ \A d \in Calls : call'[d].id = u /\ call'[d].kind = "gone" =>
                             /\ Coming(u)'
                             /\ \A f \in Calls : Adds(call'[f], u) => Ahead(queue', d, f)
                        /\ Coming(u)' \/ ~Has(items, u) \/ State(items, u) \in Actionable
      BY <2>10 DEF Waits, Has, State, Adds, Coming, Ahead
    <3>1. \A d, f \in Calls \ {c} : Ahead(queue, d, f) => Ahead(queue', d, f)
      BY <2>2 DEF Moved
    <3>2. CASE u = e.id
      <4>1. ~open
        BY <1>1, <3>2
      <4>2. \A d \in Calls \ {c} : call'[d].id = u => call[d].id = u /\ call'[d].kind = "gone"
        BY <2>3, <3>2, <4>1
      <4>3. Coming(u)'
        BY <1>3, <2>1, <2>3, <3>2 DEF Coming
      <4>4. ASSUME NEW d \in Calls, call'[d].id = u, call'[d].kind = "gone",
                   NEW f \in Calls, Adds(call'[f], u)
            PROVE  Ahead(queue', d, f)
        <5>1. f = c /\ d # c
          BY <2>1, <2>3, <4>2, <4>4 DEF Adds
        <5>2. call[d].kind = "gone"
          BY <2>3, <4>4, <5>1
        <5>3. call[d].at \in Sections
          <6>1. call[d].at \in Places /\ Serves(call[d])
            BY DEF InboxInv, Filed, CallOK, Tasks
          <6> QED BY <5>2, <6>1, NoneIs DEF Serves, Places, Kinds
        <5>4. In(queue, d)
          BY <5>3 DEF InboxInv, Queued
        <5> QED BY <2>2, <5>1, <5>4 DEF GoesLast
      <4> QED BY <2>1, <2>3, <4>2, <4>3, <4>4
    <3>3. CASE u # e.id
      <4>1. u \in fresh
        BY <1>1, <3>3
      <4>2. /\ \A d \in Calls : call[d].id = u => call[d].kind \in {"add", "gone", "seed"}
            /\ \A d \in Calls : call[d].id = u /\ call[d].kind = "gone" =>
                 Coming(u) /\ \A f \in Calls : Adds(call[f], u) => Ahead(queue, d, f)
            /\ Coming(u) \/ ~Has(items, u) \/ State(items, u) \in Actionable
        BY <4>1 DEF InboxInv, Waits
      <4>3. \A d \in Calls : call'[d].id = u => d # c /\ call[d].id = u /\ call'[d] = call[d]
        BY <2>1, <2>3, <3>3
      <4>4. Coming(u) => Coming(u)'
        BY <2>3, <2>4 DEF Coming, Kinds
      <4> QED BY <3>1, <4>2, <4>3, <4>4 DEF Adds
    <3> QED BY <3>2, <3>3
  <2> QED BY <1>4, <2>5, <2>6, <2>7, <2>8, <2>9, <2>11 DEF InboxInv
<1> QED BY <1>1, <1>5, <1>6, <1>7, <1>8

LEMMA SeedKeeps ==
    ASSUME InboxInv, NEW c \in Handlers, NEW u \in Users, Seed(c, u) PROVE InboxInv'
<1>1. /\ Moves /\ wire' = <<>> /\ fresh' \subseteq fresh
      /\ Begins(c, "get", "seed", u) \/ UNCHANGED <<call, queue>>
      /\ UNCHANGED <<items, late, relation, shown, carried>>
      /\ UNCHANGED <<told, lost, closed, strayed, dropped>>
      /\ c \in Calls
  BY DEF Seed, prompts, Calls
<1>2. Held'
  BY <1>1, MovesIs DEF InboxInv, Held
<1>3. CASE UNCHANGED <<call, queue>>
  BY <1>1, <1>2, <1>3, NobodyMoves
<1>4. CASE Begins(c, "get", "seed", u)
  <2> DEFINE w == Task("get", "seed", u, <<>>)
  <2>1. CallOK(w) /\ w.at = "get" /\ w.kind = "seed" /\ w.id = u
    BY AsksOK
  <2> HIDE DEF w
  <2>2. Moved(c, w) /\ call[c].kind = None
    BY <1>1, <1>4, <2>1, BeginsIs DEF w
  <2> QED BY <1>1, <1>2, <2>1, <2>2, NoneIs, SomebodyMoves DEF Kinds, Writing
<1> QED BY <1>1, <1>3, <1>4

LEMMA NoticeKeeps ==
    ASSUME InboxInv, NEW c \in Handlers, NEW n \in Notices, Notice(c, n) PROVE InboxInv'
<1>1. /\ Moves /\ Begins(c, "upsert", "notice", n)
      /\ UNCHANGED <<items, late, relation, cache, wire, shown, carried>>
      /\ UNCHANGED <<told, lost, closed, fresh, strayed, dropped>>
      /\ c \in Calls
  BY DEF Notice, discord, prompts, history, Calls
<1>2. Held'
  BY <1>1, MovesIs DEF InboxInv, Held
<1> DEFINE w == Task("upsert", "notice", n, <<>>)
<1>3. CallOK(w) /\ w.at = "upsert" /\ w.kind = "notice" /\ w.id = n
  BY AsksOK
<1> HIDE DEF w
<1>4. Moved(c, w) /\ call[c].kind = None
  BY <1>1, <1>3, BeginsIs DEF w
<1>5. \A u \in fresh : w.id # u
  BY <1>3, Apart DEF InboxInv, Held
<1> QED BY <1>1, <1>2, <1>3, <1>4, <1>5, NoneIs, SomebodyMoves DEF Kinds, Writing

LEMMA ActKeeps ==
    ASSUME InboxInv, NEW c \in Actions, NEW kind, NEW i, Act(c, kind, i),
           \/ kind \in {"dismiss", "see"} /\ i \in Ids
           \/ kind \in {"accept", "decline"} /\ i \in Users
    PROVE  InboxInv'
<1>1. /\ Moves /\ Begins(c, "get", kind, i) /\ fresh' = fresh \ {i}
      /\ UNCHANGED <<items, late, relation, cache, wire, shown, carried>>
      /\ UNCHANGED <<told, lost, closed, strayed, dropped>>
      /\ c \in Calls
  BY DEF Act, discord, prompts, Calls
<1>2. Held'
  BY <1>1, MovesIs DEF InboxInv, Held
<1> DEFINE w == Task("get", kind, i, <<>>)
<1>3. CallOK(w) /\ w.at = "get" /\ w.kind = kind /\ w.id = i
  BY AsksOK
<1> HIDE DEF w
<1>4. Moved(c, w) /\ call[c].kind = None
  BY <1>1, <1>3, BeginsIs DEF w
<1> QED BY <1>1, <1>2, <1>3, <1>4, NoneIs, SomebodyMoves DEF Kinds, Writing

(* A task that talks to Discord.                                            *)
LEMMA PlacedIs ==
    ASSUME NEW v, CallOK(v), v.at \in {"asking", "answered"},
           NEW at \in {"answered", "mark"}, NEW w, w = [v EXCEPT !.at = at]
    PROVE  /\ CallOK(w) /\ w.at = at /\ w.kind = v.kind /\ w.id = v.id
           /\ v.kind \in {"accept", "decline"} /\ v.at \notin Sections
<1>1. v \in Tasks /\ v.kind \in {"accept", "decline"} /\ v.at \notin Sections
  BY DEF CallOK, Serves, Sections, Writing
<1>2. w = [at |-> at, kind |-> v.kind, id |-> v.id, base |-> v.base, todo |-> v.todo]
  BY <1>1 DEF Tasks
<1>3. /\ w.at = at /\ w.kind = v.kind /\ w.id = v.id /\ w.base = v.base /\ w.todo = v.todo
  BY <1>2
<1>4. w \in Tasks
  BY <1>1, <1>2 DEF Tasks, Places, Sections
<1>5. Serves(w)
  BY <1>1, <1>3, NoneIs DEF Serves, Kinds
<1>6. Concerns(w)
  BY <1>3 DEF Concerns, CallOK
<1>7. CallOK(w)
  BY <1>3, <1>4, <1>5, <1>6 DEF CallOK
<1> QED BY <1>1, <1>3, <1>7

LEMMA UntouchedIs ==
    ASSUME InboxInv, ~strayed, NEW c \in Calls, call[c].kind \in {"accept", "decline"}
    PROVE  call[c].id \notin fresh
BY DEF InboxInv, Waits

LEMMA EffectKeeps ==
    ASSUME InboxInv, NEW c \in Actions, Effect(c) PROVE InboxInv'
<1> DEFINE v == call[c]
           w == [v EXCEPT !.at = "answered"]
<1>1. /\ v.at = "asking" /\ Sets(c, w) /\ queue' = queue /\ c \in Calls
      /\ UNCHANGED <<items, late, shown, carried, moves>>
      /\ UNCHANGED <<told, lost, closed, fresh, strayed, dropped>>
  BY DEF Effect, Sets, prompts, history, Calls
<1>2. CallOK(v)
  BY <1>1 DEF InboxInv, Filed
<1> HIDE DEF w
<1>3. /\ CallOK(w) /\ w.at = "answered" /\ w.kind = v.kind /\ w.id = v.id
      /\ v.kind \in {"accept", "decline"} /\ v.at \notin Sections
  BY <1>1, <1>2, PlacedIs DEF w
<1>4. v.id \in Users
  BY <1>2, <1>3 DEF CallOK, Concerns
<1>5. /\ relation' \in [Users -> {"none", "incoming", "friend"}]
      /\ wire' \in Seq([kind : {"add", "gone", "friends", "parted"}, id : Users])
  BY <1>4, BecomesIs DEF Effect, InboxInv
<1>6. Held'
  BY <1>1, <1>5 DEF InboxInv, Held
<1>7. Moved(c, w)
  BY <1>1, <1>3, Stays DEF InboxInv, Sections, Writing
<1>8. ~strayed => \A u \in fresh' : w.id # u
  BY <1>1, <1>3, UntouchedIs
<1> QED BY <1>1, <1>3, <1>6, <1>7, <1>8, SomebodyMoves DEF Writing

LEMMA ReplyKeeps ==
    ASSUME InboxInv, NEW c \in Actions, Reply(c) PROVE InboxInv'
<1> DEFINE v == call[c]
           w == [v EXCEPT !.at = "mark"]
<1>1. /\ v.at = "answered" /\ Sets(c, w) /\ queue' = Append(queue, c) /\ c \in Calls
      /\ UNCHANGED <<items, late, relation, cache, wire, shown, carried, moves>>
      /\ UNCHANGED <<told, lost, closed, fresh, strayed, dropped>>
  BY DEF Reply, Sets, discord, prompts, history, Calls
<1>2. CallOK(v)
  BY <1>1 DEF InboxInv, Filed
<1> HIDE DEF w
<1>3. /\ CallOK(w) /\ w.at = "mark" /\ w.kind = v.kind /\ w.id = v.id
      /\ v.kind \in {"accept", "decline"} /\ v.at \notin Sections
  BY <1>1, <1>2, PlacedIs DEF w
<1>4. Held'
  BY <1>1 DEF InboxInv, Held
<1>5. Moved(c, w)
  BY <1>1, <1>3, Joins DEF InboxInv, Sections, Writing
<1>6. ~strayed => \A u \in fresh' : w.id # u
  BY <1>1, <1>3, UntouchedIs
<1> QED BY <1>1, <1>3, <1>4, <1>5, <1>6, SomebodyMoves DEF Writing

LEMMA IdleMoves ==
    ASSUME InboxInv, NEW c \in Calls, Sets(c, Idle), queue' = queue, call[c].at \notin Sections
    PROVE  Moved(c, Idle)
<1>1. CallOK(Idle) /\ Idle.at \notin Sections /\ Idle.at \notin Writing
  BY IdleIs DEF Sections, Writing
<1> QED BY <1>1, Stays DEF InboxInv

LEMMA RefusedKeeps ==
    ASSUME InboxInv, NEW c \in Actions, Refused(c) PROVE InboxInv'
<1>1. /\ call[c].at \in {"asking", "answered"} /\ Sets(c, Idle) /\ queue' = queue /\ c \in Calls
      /\ UNCHANGED <<items, late, relation, cache, wire, shown, carried, moves>>
      /\ UNCHANGED <<told, lost, closed, fresh, strayed, dropped>>
  BY DEF Refused, Sets, discord, prompts, history, Calls
<1>2. Held'
  BY <1>1 DEF InboxInv, Held
<1>3. call[c].kind \in {"accept", "decline"} /\ call[c].at \notin Sections
  BY <1>1 DEF InboxInv, Filed, CallOK, Serves, Sections, Writing
<1>4. Moved(c, Idle)
  BY <1>1, <1>3, IdleMoves
<1>5. \A u \in fresh : Idle.id # u
  BY Apart DEF InboxInv, Held
<1> QED BY <1>1, <1>2, <1>3, <1>4, <1>5, IdleIs, NoneIs, SomebodyMoves DEF Kinds, Writing

(* A turn.                                                                  *)
LEMMA SilentKeeps ==
    ASSUME InboxInv, NEW t \in Turns, Silent(t) PROVE InboxInv'
<1>1. /\ call[t].at = "writing" /\ Sets(t, Idle) /\ queue' = queue /\ t \in Calls
      /\ UNCHANGED <<items, late, relation, cache, wire, shown, moves>>
      /\ UNCHANGED <<told, lost, closed, fresh, strayed, dropped>>
      /\ carried' = [carried EXCEPT ![t] = {}]
  BY DEF Silent, Sets, discord, history, Calls
<1>2. Held' /\ \A s \in Turns : carried'[s] \subseteq carried[s]
  BY <1>1 DEF InboxInv, Held
<1>3. call[t].kind = None /\ call[t].at \notin Sections
  BY <1>1 DEF InboxInv, Filed, CallOK, Serves, Sections, Writing
<1>4. Moved(t, Idle)
  BY <1>1, <1>3, IdleMoves
<1>5. \A u \in fresh : Idle.id # u
  BY Apart DEF InboxInv, Held
<1> QED BY <1>1, <1>2, <1>3, <1>4, <1>5, IdleIs, NoneIs, SomebodyMoves DEF Kinds, Writing

LEMMA TurnMoves ==
    ASSUME InboxInv, NEW t \in Turns, NEW w, Moved(t, w), Announces', Held',
           UNCHANGED <<items, late, closed, fresh, strayed, dropped>>,
           w.at \notin Writing, w.kind \in {None, "announce"}, call[t].kind = None,
           \A u \in Users : w.id # u
    PROVE  InboxInv'
<1>1. t \in Calls /\ w.kind \notin {"add", "dismiss", "seed"}
  BY NoneIs DEF Kinds, Calls
<1>2. Filed'
  BY <1>1, FiledMove DEF InboxInv, Filed
<1>3. Queued'
  BY DEF Moved
<1>4. Serial'
  BY <1>1, SerialMove DEF InboxInv
<1>5. Decided'
  BY <1>1, DecidedMove DEF InboxInv, Dismisses, Inserts
<1>6. Waits'
  <2>1. fresh \subseteq Users /\ call[t].kind # "add"
    BY NoneIs DEF InboxInv, Held, Kinds
  <2> QED BY <1>1, <2>1, WaitsMove DEF InboxInv, Adds
<1> QED BY <1>2, <1>3, <1>4, <1>5, <1>6 DEF InboxInv

LEMMA PromptKeeps ==
    ASSUME InboxInv, NEW t \in Turns, Prompt(t) PROVE InboxInv'
<1> DEFINE w == Task("writing", None, None, <<>>)
           p == Pending(items)
           ids == {x.id : x \in ToSet(Rendered(p))}
           r == Remembered(p)
<1>1. /\ Moves /\ call[t] = Idle /\ queue' = queue /\ Sets(t, w) /\ t \in Calls
      /\ UNCHANGED <<items, late, relation, cache, wire, told, closed, fresh, strayed, dropped>>
  BY DEF Prompt, Sets, discord, Calls
<1>2. \/ carried' = [carried EXCEPT ![t] = {}] /\ shown' = shown /\ lost' = lost
      \/ /\ shown' = r /\ carried' = [carried EXCEPT ![t] = ids]
         /\ lost' = lost \cup {n \in ToSet(shown) \ ToSet(shown') : State(items, n) = "unread"}
  BY DEF Prompt
<1>3. /\ r \in Seq(Notices) /\ ids \subseteq Ids
      /\ \A n \in ids \cap Notices : State(items, n) = "unread" => n \in ToSet(r)
  BY PromptShows DEF InboxInv, Filed
<1>4. w.at = "writing" /\ w.kind = None /\ w.id = None
  BY DEF Task
<1>5. CallOK(w)
  <2>1. Serves(w) /\ Concerns(w)
    BY <1>4, NoneIs DEF Serves, Concerns, Kinds
  <2>2. "writing" \in Places \ Writing /\ <<>> \in Seq(Notices)
    BY DEF Places, Sections, Writing
  <2> QED BY <2>1, <2>2, TaskOK
<1> HIDE DEF w, p, ids, r
<1>6. call[t].kind = None /\ call[t].at \notin Sections
  BY <1>1, IdleIs DEF Sections, Writing
<1>7. Moved(t, w) /\ w.at \notin Writing
  BY <1>1, <1>4, <1>5, <1>6, Stays DEF InboxInv, Sections, Writing
<1>8. Held'
  <2>1. ToSet(shown) \subseteq Ids
    BY DEF InboxInv, Held, ToSet, Ids
  <2>2. shown' \in Seq(Notices) /\ carried' \in [Turns -> SUBSET Ids] /\ lost' \subseteq Ids
    BY <1>2, <1>3, <2>1 DEF InboxInv, Held
  <2> QED BY <1>1, <2>2, MovesIs DEF InboxInv, Held
<1>9. Announces'
  <2> SUFFICES ASSUME ~strayed, NEW n \in Ids \ lost', State(items, n) = "unread"
               PROVE  /\ n \in told => ToMark(n)'
                      /\ \A s \in Turns : n \in Notices /\ n \in carried'[s] =>
                           n \in ToSet(shown') \/ ToMark(n)'
    BY <1>1 DEF Announces, State, Has, ToMark, ToSet
  <2>1. call'[t] = w /\ \A d \in Calls \ {t} : call'[d] = call[d]
    BY <1>1, SetsIs DEF InboxInv
  <2>2. ToMark(n) => ToMark(n)'
    <3> SUFFICES ASSUME NEW s \in Calls, Announcing(call[s], n) PROVE ToMark(n)'
      BY DEF ToMark
    <3>1. Announcing(call'[s], n)
      BY <1>6, <2>1, NoneIs DEF Announcing, Kinds
    <3> QED BY <3>1 DEF ToMark, Announcing, ToSet
  <2>3. n \notin lost
    BY <1>2
  <2>4. /\ n \in told => ToMark(n)
        /\ \A s \in Turns : n \in Notices /\ n \in carried[s] => n \in ToSet(shown) \/ ToMark(n)
    BY <2>3 DEF InboxInv, Announces
  <2>5. ASSUME NEW s \in Turns, n \in Notices, n \in carried'[s]
        PROVE  n \in ToSet(shown') \/ ToMark(n)
    <3>1. CASE shown' = shown /\ carried' = [carried EXCEPT ![t] = {}]
      BY <2>4, <2>5, <3>1 DEF InboxInv, Held
    <3>2. CASE /\ shown' = r /\ carried' = [carried EXCEPT ![t] = ids]
               /\ lost' = lost \cup
                    {m \in ToSet(shown) \ ToSet(shown') : State(items, m) = "unread"}
      <4>1. CASE s = t
        BY <1>3, <2>5, <3>2, <4>1 DEF InboxInv, Held
      <4>2. CASE s # t
        BY <2>4, <2>5, <3>2, <4>2 DEF InboxInv, Held
      <4> QED BY <4>1, <4>2
    <3> QED BY <1>2, <3>1, <3>2
  <2> QED BY <2>2, <2>4, <2>5
<1>10. \A u \in Users : w.id # u
  BY <1>4, Apart
<1> QED BY <1>1, <1>4, <1>6, <1>7, <1>8, <1>9, <1>10, TurnMoves

LEMMA DeliveredKeeps ==
    ASSUME InboxInv, NEW t \in Turns, Delivered(t) PROVE InboxInv'
<1> DEFINE w == Announce(shown)
<1>1. /\ call[t].at = "writing" /\ Sets(t, w) /\ t \in Calls /\ shown' = <<>>
      /\ queue' = IF shown = <<>> THEN queue ELSE Append(queue, t)
      /\ told' = told \cup (carried[t] \cap Notices)
      /\ carried' = [carried EXCEPT ![t] = {}]
      /\ UNCHANGED <<items, late, relation, cache, wire, moves>>
      /\ UNCHANGED <<lost, closed, fresh, strayed, dropped>>
  BY DEF Delivered, Sets, discord, Calls
<1>2. shown \in Seq(Notices)
  BY DEF InboxInv, Held
<1>3. /\ CallOK(w)
      /\ w = Idle \/ (w.at = "mark" /\ w.kind = "announce" /\ w.id \in Notices)
      /\ \A n \in ToSet(shown) : Announcing(w, n)
  BY <1>2, AnnounceIs
<1>4. /\ shown = <<>> => w = Idle
      /\ shown # <<>> => w.at = "mark"
  BY DEF Announce, Task
<1> HIDE DEF w
<1>5. call[t].kind = None /\ call[t].at \notin Sections
  BY <1>1 DEF InboxInv, Filed, CallOK, Serves, Sections, Writing
<1>6. Moved(t, w)
  <2>1. CASE shown = <<>>
    BY <1>1, <1>4, <1>5, <2>1, IdleMoves
  <2>2. CASE shown # <<>>
    BY <1>1, <1>3, <1>4, <1>5, <2>2, Joins DEF InboxInv, Sections, Writing
  <2> QED BY <2>1, <2>2
<1>7. /\ w.at \notin Writing /\ w.kind \in {None, "announce"}
      /\ \A u \in Users : w.id # u
  BY <1>3, IdleIs, Apart DEF Writing
<1>8. Held'
  <2>1. told' \subseteq Ids /\ carried' \in [Turns -> SUBSET Ids]
    BY <1>1 DEF InboxInv, Held, Ids
  <2> QED BY <1>1, <2>1 DEF InboxInv, Held
<1>9. Announces'
  <2> SUFFICES ASSUME ~strayed, NEW n \in Ids \ lost, State(items, n) = "unread"
               PROVE  /\ n \in told' => ToMark(n)'
                      /\ \A s \in Turns : n \in Notices /\ n \in carried'[s] => ToMark(n)'
    BY <1>1 DEF Announces, State, Has, ToMark, ToSet
  <2>1. call'[t] = w /\ \A d \in Calls \ {t} : call'[d] = call[d]
    BY <1>1, SetsIs DEF InboxInv
  <2>2. ASSUME n \in ToSet(shown) \/ ToMark(n) PROVE ToMark(n)'
    <3>1. ASSUME NEW s \in Calls, Announcing(call'[s], n) PROVE ToMark(n)'
      BY <3>1 DEF ToMark, Announcing, ToSet
    <3>2. CASE n \in ToSet(shown)
      BY <1>1, <1>3, <2>1, <3>1, <3>2
    <3>3. CASE ToMark(n)
      <4>1. PICK s \in Calls : Announcing(call[s], n)
        BY <3>3 DEF ToMark
      <4>2. s # t
        BY <1>5, <4>1, NoneIs DEF Announcing, Kinds
      <4> QED BY <2>1, <3>1, <4>1, <4>2
    <3> QED BY <2>2, <3>2, <3>3
  <2>3. /\ n \in told => ToMark(n)
        /\ \A s \in Turns : n \in Notices /\ n \in carried[s] => n \in ToSet(shown) \/ ToMark(n)
    BY DEF InboxInv, Announces
  <2>4. ASSUME NEW s \in Turns, n \in carried'[s] PROVE n \in carried[s]
    BY <1>1, <2>4 DEF InboxInv, Held
  <2> QED BY <1>1, <2>2, <2>3, <2>4
<1> QED BY <1>1, <1>5, <1>6, <1>7, <1>8, <1>9, TurnMoves

-----------------------------------------------------------------------------
LEMMA InboxStarts == InboxInit => InboxInv
<1> SUFFICES ASSUME InboxInit PROVE InboxInv
  OBVIOUS
<1>1. \A c \in Calls : call[c] = Idle
  BY DEF InboxInit
<1>2. Filed
  <2>1. Idle \in Tasks /\ Idle.kind # "add" /\ 0 <= Ring
    BY IdleIs, NoneIs, InboxAssumption DEF CallOK, Kinds, InboxAssumption
  <2> QED BY <1>1, <2>1, IdleIs, NothingListed DEF InboxInit, Filed
<1>3. Held
  <2>1. cache = relation /\ relation \in [Users -> {"none", "incoming", "friend"}]
    BY DEF InboxInit
  <2>2. wire \in Seq([kind : {"add", "gone", "friends", "parted"}, id : Users])
    BY DEF InboxInit
  <2>3. moves \in 0..MaxMoves
    BY InboxAssumption DEF InboxInit, InboxAssumption
  <2>4. shown \in Seq(Notices)
    BY DEF InboxInit
  <2>5. carried \in [Turns -> SUBSET Ids]
    BY DEF InboxInit
  <2>6. told = {} /\ lost = {} /\ closed = {} /\ fresh = {} /\ dropped = {} /\ strayed = FALSE
    BY DEF InboxInit
  <2> QED BY <2>1, <2>2, <2>3, <2>4, <2>5, <2>6 DEF Held
<1>4. Queued
  BY <1>1, IdleIs DEF InboxInit, Queued, Lined, In, Sections, Writing
<1>5. Serial
  BY <1>1, IdleIs DEF InboxInit, Serial, Writing
<1>6. Decided
  BY <1>1, IdleIs, NoneIs DEF InboxInit, Decided, Dismisses, Inserts, Kinds
<1>7. Waits
  BY DEF InboxInit, Waits
<1>8. Announces
  <2>1. \A n : ~Has(items, n)
    BY DEF InboxInit, Has
  <2> QED BY <2>1, NoStateIs, InboxAssumption DEF Announces, InboxAssumption, States
<1> QED BY <1>2, <1>3, <1>4, <1>5, <1>6, <1>7, <1>8 DEF InboxInv

LEMMA InboxKeeps == InboxInv /\ [InboxNext]_inboxVars => InboxInv'
<1> SUFFICES ASSUME InboxInv, [InboxNext]_inboxVars PROVE InboxInv'
  OBVIOUS
<1>1. CASE UNCHANGED inboxVars
  <2>1. Held'
    BY <1>1 DEF inboxVars, file, discord, prompts, history, InboxInv, Held
  <2> QED BY <1>1, <2>1, NobodyMoves DEF inboxVars, file, prompts, history
<1>2. CASE \E c \in Calls : Get(c) \/ Load(c) \/ Save(c) \/ Cancel(c)
  BY <1>2, GetKeeps, LoadKeeps, SaveKeeps, CancelKeeps
<1>3. CASE \E w \in late : LateSave(w)
  BY <1>3, LateSaveKeeps
<1>4. CASE \E u \in Users : PersonAsks(u) \/ PersonLeaves(u)
  BY <1>4, PersonKeeps
<1>5. CASE \E c \in Handlers : Handle(c) \/ (\E u \in Users : Seed(c, u))
                               \/ (\E n \in Notices : Notice(c, n))
  BY <1>5, HandleKeeps, SeedKeeps, NoticeKeeps
<1>6. CASE \E c \in Actions : \/ \E k \in {"dismiss", "see"} : \E i \in Ids : Act(c, k, i)
                              \/ \E k \in {"accept", "decline"} : \E u \in Users : Act(c, k, u)
                              \/ Effect(c) \/ Reply(c) \/ Refused(c)
  BY <1>6, ActKeeps, EffectKeeps, ReplyKeeps, RefusedKeeps
<1>7. CASE \E t \in Turns : Prompt(t) \/ Delivered(t) \/ Silent(t)
  BY <1>7, PromptKeeps, DeliveredKeeps, SilentKeeps
<1> QED BY <1>1, <1>2, <1>3, <1>4, <1>5, <1>6, <1>7 DEF InboxNext

(* The invariant holds in every state the inbox can be in.                  *)
THEOREM InboxInvariant == InboxSpec => []InboxInv
<1>1. InboxInit => InboxInv
  BY InboxStarts
<1>2. InboxInv /\ [InboxNext]_inboxVars => InboxInv'
  BY InboxKeeps
<1> QED BY <1>1, <1>2, PTL DEF InboxSpec

(* The file holds at most INBOX_RING_SIZE well-formed items, tasks are at   *)
(* the places of inbox.py, and the histories are of known items.            *)
THEOREM InboxTypeCorrect == InboxSpec => []InboxTypeOK
<1>1. InboxInv => InboxTypeOK
  <2> SUFFICES ASSUME InboxInv PROVE InboxTypeOK
    OBVIOUS
  <2>1. \A x \in ToSet(items) : x.id \in Ids /\ x.state \in States
    <3>1. items \in Seq(Items)
      BY DEF InboxInv, Filed, Kept
    <3>2. \A x \in ToSet(items) : x \in Items
      BY <3>1 DEF ToSet
    <3> QED BY <3>2 DEF Items
  <2>2. \A c \in Calls : call[c].kind \in Kinds \cup {None} /\ call[c].id \in Ids \cup {None}
    BY DEF InboxInv, Filed, Tasks
  <2>3. ToSet(queue) \subseteq Calls
    BY DEF InboxInv, Queued, Lined, ToSet
  <2> QED BY <2>1, <2>2, <2>3 DEF InboxTypeOK, InboxInv, Filed, Held
<1> QED BY <1>1, InboxInvariant, PTL

(* An untouched friend request asks for the decision, in every interleaving *)
(* of events, seeds, actions and turns (inbox.py:294-345).                  *)
THEOREM UntouchedIsShown == InboxSpec => []WaitingIsShown
<1>1. InboxInv => WaitingIsShown
  BY DEF InboxInv, Waits, WaitingIsShown
<1> QED BY <1>1, InboxInvariant, PTL

(* A dismissed request stays dismissed until it is sent anew                *)
(* (inbox.py:234-245).                                                      *)
THEOREM DismissedStays == InboxSpec => []DecisionStands
<1>1. InboxInv => DecisionStands
  <2> SUFFICES ASSUME InboxInv, ~strayed, NEW u \in (closed \cap Users) \ dropped
               PROVE  State(items, u) \notin Actionable
    BY DEF DecisionStands
  <2> QED BY DEF InboxInv, Decided
<1> QED BY <1>1, InboxInvariant, PTL

(* A notice that a reply has carried is not announced a second time         *)
(* (bot.py:3899-3903).                                                      *)
THEOREM NoticesAreNotRepeated == InboxSpec => []AnnouncedOnce
<1>1. InboxInv => AnnouncedOnce
  <2> SUFFICES ASSUME InboxInv, Quiet, ~strayed, NEW n \in told \ lost,
                      State(items, n) = "unread"
               PROVE  FALSE
    BY DEF AnnouncedOnce
  <2>1. ToMark(n)
    BY DEF InboxInv, Announces, Held
  <2> QED BY <2>1, IdleIs, NoneIs DEF ToMark, Announcing, Quiet, Kinds
<1> QED BY <1>1, InboxInvariant, PTL

-----------------------------------------------------------------------------
(* The plugin manager: types.                                               *)

LEMMA FirstGeneration == 1 \in Gens /\ MaxGen \in Nat
BY PluginsAssumption DEF Gens, PluginsAssumption

(* What a reload registers, and the tasks it starts for it, are of the      *)
(* generation it makes.                                                     *)

LEMMA RegisteredType ==
    ASSUME NEW failing \in SUBSET Names, NEW g \in Gens
    PROVE  /\ Registered(failing, g) \in [Names -> 0..MaxGen]
           /\ \A p \in Names : Registered(failing, g)[p] # 0 => Registered(failing, g)[p] = g
BY PluginsAssumption DEF Registered, Gens, PluginsAssumption

LEMMA StartedType ==
    ASSUME NEW failing \in SUBSET Names, NEW g \in Gens
    PROVE  /\ Started(Registered(failing, g)) \subseteq Jobs
           /\ \A j \in Started(Registered(failing, g)) :
                 j[1] \notin failing /\ j[2] = g
<1>1. Registered(failing, g) = [p \in Names |-> IF p \in failing THEN 0 ELSE g]
  BY DEF Registered
<1>2. SUFFICES ASSUME NEW p \in Names, Registered(failing, g)[p] # 0
               PROVE  p \notin failing /\ <<p, Registered(failing, g)[p]>> = <<p, g>>
  BY DEF Started, Jobs
<1> QED BY <1>1, <1>2

-----------------------------------------------------------------------------
(* Types.                                                                   *)

LEMMA InitTyped == Init => TypeOK
<1> SUFFICES ASSUME Init PROVE TypeOK
  OBVIOUS
<1>1. PICK failing \in SUBSET Names :
          /\ gen = 1 /\ loaded = [p \in Names |-> IF p \in failing THEN 0 ELSE 1]
          /\ listening = Registered(failing, 1) /\ specs = Registered(failing, 1)
          /\ tracked = Started(specs)
  BY DEF Init
<1>2. tracked \subseteq Jobs /\ listening \in [Names -> 0..MaxGen] /\ specs \in [Names -> 0..MaxGen]
  BY <1>1, FirstGeneration, StartedType, RegisteredType
<1>3. loaded \in [Names -> 0..MaxGen]
  BY <1>1, FirstGeneration DEF Gens
<1>4. cancelled = {} /\ callbacks = {} /\ awaited = {} /\ deaf = {} /\ mode = "up"
  BY DEF Init
<1>5. job \in [Jobs -> Alive \cup {"none", "done"}]
  BY DEF Init, Alive
<1>6. /\ global \subseteq Names /\ allowed \in [Names -> SUBSET People]
      /\ denied \in [Names -> SUBSET People]
      /\ choice \in [People -> [Names -> {"none", "in", "out"}]]
  BY DEF Init
<1> QED BY <1>1, <1>2, <1>3, <1>4, <1>5, <1>6, FirstGeneration DEF TypeOK

(* People change who has a plugin and nothing else.                         *)
LEMMA ScopeTyped ==
    ASSUME TypeOK, NEW p \in Names,
           ForEverybody(p) \/ (\E u \in People : Enable(p, u) \/ Disable(p, u))
    PROVE  TypeOK'
<1>1. CASE ForEverybody(p)
  BY <1>1 DEF ForEverybody, TypeOK, registry, tasks
<1>2. ASSUME NEW u \in People, Enable(p, u) PROVE TypeOK'
  BY <1>2 DEF Enable, TypeOK, registry, tasks
<1>3. ASSUME NEW u \in People, Disable(p, u) PROVE TypeOK'
  <2>1. OptedOut(p, u) \in SUBSET People
    BY DEF OptedOut, TypeOK
  <2> QED BY <1>3, <2>1 DEF Disable, TypeOK, registry, tasks
<1> QED BY <1>1, <1>2, <1>3

LEMMA JobTyped ==
    ASSUME TypeOK, NEW j \in Jobs, JobStep(j)
    PROVE  TypeOK'
BY DEF JobStep, JobRuns, JobSleeps, Thrown, Unwound, Swallows, TypeOK, registry, scope, Alive

LEMMA CallbackTyped ==
    ASSUME TypeOK,
           (\E u \in People : Dispatch(u)) \/ (\E c \in callbacks : CallbackStarts(c) \/ CallbackEnds(c))
    PROVE  TypeOK'
<1> USE DEF TypeOK, registry, tasks, scope
<1>1. ASSUME NEW u \in People, Dispatch(u) PROVE TypeOK'
  <2>1. ASSUME NEW p \in Names, listening[p] # 0
        PROVE  [at |-> "created", by |-> p, gen |-> listening[p]]
                   \in [at : {"created", "running"}, by : Names, gen : Gens]
    BY <2>1, FirstGeneration DEF Gens
  <2>2. callbacks' \subseteq [at : {"created", "running"}, by : Names, gen : Gens]
    BY <1>1, <2>1 DEF Dispatch
  <2> QED BY <1>1, <2>2 DEF Dispatch
<1>2. ASSUME NEW c \in callbacks, CallbackStarts(c) PROVE TypeOK'
  <2>1. [c EXCEPT !.at = "running"] \in [at : {"created", "running"}, by : Names, gen : Gens]
    OBVIOUS
  <2> QED BY <1>2, <2>1 DEF CallbackStarts
<1>3. ASSUME NEW c \in callbacks, CallbackEnds(c) PROVE TypeOK'
  BY <1>3 DEF CallbackEnds
<1> QED BY <1>1, <1>2, <1>3

LEMMA ReloadTyped ==
    ASSUME TypeOK, NEW failing \in SUBSET Names, Reload(failing)
    PROVE  TypeOK' /\ gen' \in Gens
<1>1. gen' \in Gens /\ gen' = gen + 1
  BY FirstGeneration DEF Reload, TypeOK, Gens
<1>2. listening' \in [Names -> 0..MaxGen] /\ specs' \in [Names -> 0..MaxGen] /\ tracked' \subseteq Jobs
  BY <1>1, RegisteredType, StartedType DEF Reload
<1>3. loaded' \in [Names -> 0..MaxGen]
  BY <1>1, FirstGeneration DEF Reload, Gens
<1>4. cancelled' \subseteq Jobs
  BY DEF Reload, Stopped, TypeOK
<1>5. job' \in [Jobs -> Alive \cup {"none", "done"}]
  BY DEF Reload, TypeOK, Alive
<1> QED BY <1>1, <1>2, <1>3, <1>4, <1>5 DEF Reload, TypeOK, scope

LEMMA TeardownTyped ==
    ASSUME TypeOK, Teardown \/ JobsStopped \/ HooksDone
    PROVE  TypeOK'
<1> USE DEF TypeOK, registry, tasks, scope
<1>1. CASE Teardown
  BY <1>1 DEF Teardown, Stopped
<1>2. CASE JobsStopped
  BY <1>2 DEF JobsStopped
<1>3. CASE HooksDone
  BY <1>3, FirstGeneration DEF HooksDone
<1> QED BY <1>1, <1>2, <1>3

LEMMA Typed == TypeOK /\ [Next]_vars => TypeOK'
<1> SUFFICES ASSUME TypeOK, [Next]_vars PROVE TypeOK'
  OBVIOUS
<1>1. CASE UNCHANGED vars
  BY <1>1 DEF vars, registry, tasks, scope, TypeOK
<1>2. CASE Next
  BY <1>2, ScopeTyped, JobTyped, CallbackTyped, ReloadTyped, TeardownTyped DEF Next
<1> QED BY <1>1, <1>2

(* The type invariant of the plugin manager.                                *)
THEOREM TypeCorrect == Spec => []TypeOK
BY InitTyped, Typed, PTL DEF Spec

-----------------------------------------------------------------------------
(* Jobs.                                                                    *)

(* A step that leaves the registry alone, marks no new job as going on and  *)
(* forgets no task keeps the invariant.                                     *)
LEMMA SameJobs ==
    ASSUME NoneGoesOnUnseen, tracked' = tracked, loaded' = loaded, gen' = gen,
           deaf \subseteq deaf',
           \A j \in Jobs : Going(j)' /\ j \notin deaf' => Going(j)
    PROVE  NoneGoesOnUnseen'
BY DEF NoneGoesOnUnseen

LEMMA SilentSteps ==
    ASSUME NoneGoesOnUnseen, UNCHANGED <<gen, loaded, tasks, deaf>>
    PROVE  NoneGoesOnUnseen'
BY SameJobs DEF Going, tasks

LEMMA JobSeen ==
    ASSUME TypeOK, NoneGoesOnUnseen, NEW j \in Jobs, JobStep(j)
    PROVE  NoneGoesOnUnseen'
<1>1. CASE JobRuns(j) \/ JobSleeps(j)
  <2>1. \A i \in Jobs : Going(i)' => Going(i)
    BY <1>1 DEF JobRuns, JobSleeps, Going, TypeOK
  <2> QED BY <1>1, <2>1, SameJobs DEF JobRuns, JobSleeps, registry
<1>2. CASE Thrown(j) \/ Unwound(j)
  <2>1. \A i \in Jobs : Going(i)' => Going(i)
    BY <1>2 DEF Thrown, Unwound, Going, TypeOK
  <2> QED BY <1>2, <2>1, SameJobs DEF Thrown, Unwound, registry
<1>3. CASE Swallows(j)
  <2>1. \A i \in Jobs : Going(i)' /\ i \notin deaf' => Going(i)
    BY <1>3 DEF Swallows, Going, TypeOK
  <2> QED BY <1>3, <2>1, SameJobs DEF Swallows, registry
<1> QED BY <1>1, <1>2, <1>3 DEF JobStep

(* Whatever goes on after a reload, or after stop_jobs, was started by it:  *)
(* all that went on before was tracked, hence cancelled.                    *)
LEMMA ReloadSeen ==
    ASSUME TypeOK, NoneGoesOnUnseen, NEW failing \in SUBSET Names, Reload(failing)
    PROVE  NoneGoesOnUnseen'
<1>1. gen' \in Gens
  BY ReloadTyped
<1>2. \A j \in tracked' : j[1] \notin failing /\ j[2] = gen'
  BY <1>1, StartedType DEF Reload
<1> SUFFICES ASSUME NEW j \in Jobs, Going(j)', j \notin deaf'
             PROVE  j \in tracked' /\ loaded'[j[1]] = j[2] /\ j[2] = gen'
  BY DEF NoneGoesOnUnseen
<1>3. j \in tracked'
  <2> SUFFICES ASSUME j \notin tracked' PROVE FALSE
    OBVIOUS
  <2>1. job'[j] = job[j] /\ j \notin cancelled /\ j \notin Stopped /\ j \notin deaf
    BY DEF Reload, Going
  <2>2. Going(j)
    BY <2>1 DEF Going
  <2>3. j \in tracked /\ job[j] \in {"sleeping", "running"}
    BY <2>1, <2>2 DEF NoneGoesOnUnseen, Going
  <2> QED BY <2>1, <2>3 DEF Stopped, Alive
<1>4. j[1] \in Names /\ j[1] \notin failing /\ j[2] = gen'
  BY <1>2, <1>3 DEF Jobs
<1> QED BY <1>3, <1>4 DEF Reload

LEMMA TeardownSeen ==
    ASSUME TypeOK, NoneGoesOnUnseen, Teardown \/ JobsStopped \/ HooksDone
    PROVE  NoneGoesOnUnseen'
<1>1. CASE Teardown
  <2> SUFFICES ASSUME NEW j \in Jobs, Going(j)', j \notin deaf' PROVE FALSE
    BY DEF NoneGoesOnUnseen
  <2>1. Going(j) /\ j \notin Stopped /\ j \notin deaf
    BY <1>1 DEF Teardown, Going
  <2>2. j \in tracked /\ job[j] \in {"sleeping", "running"}
    BY <2>1 DEF NoneGoesOnUnseen, Going
  <2> QED BY <2>1, <2>2 DEF Stopped, Alive
<1>2. CASE JobsStopped \/ HooksDone
  BY <1>2, SilentSteps DEF JobsStopped, HooksDone, registry, tasks
<1> QED BY <1>1, <1>2

LEMMA Seen == TypeOK /\ NoneGoesOnUnseen /\ [Next]_vars => NoneGoesOnUnseen'
<1> SUFFICES ASSUME TypeOK, NoneGoesOnUnseen, [Next]_vars PROVE NoneGoesOnUnseen'
  OBVIOUS
<1>1. CASE UNCHANGED vars
  BY <1>1, SilentSteps DEF vars, registry
<1>2. ASSUME NEW p \in Names, ForEverybody(p) \/ (\E u \in People : Enable(p, u) \/ Disable(p, u))
      PROVE  NoneGoesOnUnseen'
  BY <1>2, SilentSteps DEF ForEverybody, Enable, Disable, registry
<1>3. CASE (\E u \in People : Dispatch(u)) \/ (\E c \in callbacks : CallbackStarts(c) \/ CallbackEnds(c))
  BY <1>3, SilentSteps DEF Dispatch, CallbackStarts, CallbackEnds, registry
<1>4. CASE Next
  BY <1>2, <1>3, <1>4, JobSeen, ReloadSeen, TeardownSeen DEF Next
<1> QED BY <1>1, <1>4

(* No job goes on that the manager does not know, unless its own code       *)
(* swallowed a cancellation, over any reloads, failures and the teardown.   *)
THEOREM NoJobUnseen == Spec => []NoneGoesOnUnseen
<1>1. Init => NoneGoesOnUnseen
  <2> SUFFICES ASSUME Init, NEW j \in Jobs, Going(j)
               PROVE  j \in tracked /\ loaded[j[1]] = j[2] /\ j[2] = gen
    BY DEF NoneGoesOnUnseen
  <2>1. PICK failing \in SUBSET Names :
            /\ gen = 1 /\ loaded = [p \in Names |-> IF p \in failing THEN 0 ELSE 1]
            /\ specs = Registered(failing, 1) /\ tracked = Started(specs)
    BY DEF Init
  <2>2. j \in tracked
    BY DEF Init, Going
  <2>4. j[1] \in Names /\ j[1] \notin failing /\ j[2] = 1
    BY <2>1, <2>2, FirstGeneration, StartedType DEF Jobs
  <2> QED BY <2>1, <2>2, <2>4
<1> QED BY <1>1, InitTyped, Typed, Seen, PTL DEF Spec

-----------------------------------------------------------------------------
(* Choices.                                                                 *)

(* Enabled alone is not inductive, as the plugin may be taken from          *)
(* everybody: who asked for it is on its list, and who opted out is written *)
(* down.                                                                    *)
Listed == \A u \in People, p \in Names :
             /\ choice[u][p] = "in" => u \in allowed[p] /\ u \notin denied[p]
             /\ choice[u][p] = "out" => u \in denied[p]

LEMMA OptedOutIsListed ==
    ASSUME TypeOK, NEW p \in Names, NEW u \in People,
           p \in global, Cardinality(denied[p] \cup {u}) <= Limit
    PROVE  u \in OptedOut(p, u)
<1>1. CASE u \in denied[p]
  BY <1>1 DEF OptedOut
<1>2. CASE u \notin denied[p]
  <2>1. IsFiniteSet(denied[p])
    BY FS_Subset, PluginsAssumption DEF TypeOK, PluginsAssumption
  <2>2. Cardinality(denied[p]) \in Nat
    BY <2>1, FS_CardinalityType
  <2>3. Cardinality(denied[p] \cup {u}) = Cardinality(denied[p]) + 1
    BY <1>2, <2>1, FS_AddElement
  <2>4. Cardinality(denied[p]) < Limit
    BY <2>2, <2>3, PluginsAssumption DEF PluginsAssumption
  <2> QED BY <2>4 DEF OptedOut
<1> QED BY <1>1, <1>2

LEMMA ScopeListed ==
    ASSUME TypeOK, Listed, NEW p \in Names,
           ForEverybody(p) \/ (\E u \in People : Enable(p, u) \/ Disable(p, u))
    PROVE  Listed'
<1>1. CASE ForEverybody(p)
  BY <1>1 DEF ForEverybody, Listed
<1>2. ASSUME NEW u \in People, Enable(p, u) PROVE Listed'
  BY <1>2 DEF Enable, Listed, TypeOK
<1>3. ASSUME NEW u \in People, Disable(p, u) PROVE Listed'
  <2>1. choice'[u][p] \in {"out", "none"} /\ (choice'[u][p] = "out" => u \in denied'[p])
    BY <1>3, OptedOutIsListed DEF Disable, TypeOK
  <2>2. ASSUME NEW v \in People, NEW q \in Names, v # u \/ q # p
        PROVE  /\ choice'[v][q] = choice[v][q]
               /\ v \in allowed'[q] <=> v \in allowed[q]
               /\ v \in denied'[q] <=> v \in denied[q]
    BY <1>3, <2>2 DEF Disable, TypeOK, OptedOut
  <2> QED BY <2>1, <2>2 DEF Listed
<1> QED BY <1>1, <1>2, <1>3

LEMMA StaysListed == TypeOK /\ Listed /\ [Next]_vars => Listed'
<1> SUFFICES ASSUME TypeOK, Listed, [Next]_vars PROVE Listed'
  OBVIOUS
<1>1. ASSUME UNCHANGED <<allowed, denied, choice>> PROVE Listed'
  BY <1>1 DEF Listed
<1>2. CASE UNCHANGED vars
  BY <1>1, <1>2 DEF vars, scope
<1>3. ASSUME NEW j \in Jobs, JobStep(j) PROVE Listed'
  BY <1>1, <1>3 DEF JobStep, JobRuns, JobSleeps, Thrown, Unwound, Swallows, scope
<1>4. CASE (\E u \in People : Dispatch(u)) \/ (\E c \in callbacks : CallbackStarts(c) \/ CallbackEnds(c))
  BY <1>1, <1>4 DEF Dispatch, CallbackStarts, CallbackEnds, scope
<1>5. ASSUME NEW failing \in SUBSET Names, Reload(failing) PROVE Listed'
  BY <1>1, <1>5 DEF Reload, scope
<1>6. CASE Teardown \/ JobsStopped \/ HooksDone
  BY <1>1, <1>6 DEF Teardown, JobsStopped, HooksDone, scope
<1>7. CASE Next
  BY <1>3, <1>4, <1>5, <1>6, <1>7, ScopeListed DEF Next
<1> QED BY <1>2, <1>7

(* What a person asked for stands against everything others and reloads do. *)
THEOREM ChoicesStand == Spec => []ChoiceStands
<1>1. Init => Listed
  BY DEF Init, Listed
<1>2. Listed => ChoiceStands
  BY DEF Listed, ChoiceStands, Enabled
<1> QED BY <1>1, <1>2, InitTyped, Typed, StaysListed, PTL DEF Spec
=============================================================================
