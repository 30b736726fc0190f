--------------------------- MODULE Routers_proofs ----------------------------
(***************************************************************************)
(* Theorems about the routers of NjuRouter and LabRouters, for any         *)
(* addresses, tables, inputs and bounds.                                   *)
(***************************************************************************)
EXTENDS MCRouters, FiniteSetTheorems, SequenceTheorems, WellFoundedInduction, TLAPS

-----------------------------------------------------------------------------
(***************************************************************************)
(* The first of the longest                                                *)
(***************************************************************************)

\* Of finitely many integers there is a first one that none is below.
LEMMA FirstLeast ==
  ASSUME NEW m \in Nat \ {0}, NEW f \in [1 .. m -> Int]
  PROVE  \E i \in 1 .. m : \A j \in 1 .. m : f[j] > f[i] \/ (f[j] = f[i] /\ i <= j)
  <1> DEFINE Least(k, g) ==
        \E i \in 1 .. k : \A j \in 1 .. k : g[j] > g[i] \/ (g[j] = g[i] /\ i <= j)
  <1> DEFINE Without == {k \in Nat \ {0} : \E g \in [1 .. k -> Int] : ~ Least(k, g)}
  <1>1. CASE Without = {}
    <2>1. Least(m, f)
      BY <1>1, Zenon
    <2> QED
      BY <2>1, Zenon
  <1>2. CASE Without # {}
    <2>1. Without \subseteq Nat
      OBVIOUS
    <2> HIDE DEF Without
    <2>2. PICK k \in Without : \A y \in Without : ~ (<<y, k>> \in OpToRel(<, Nat))
      BY <1>2, <2>1, WFMin, NatLessThanWellFounded
    <2>3. k \in Nat \ {0}
      BY <2>2 DEF Without
    <2>4. PICK g \in [1 .. k -> Int] : ~ Least(k, g)
      BY <2>2 DEF Without
    <2>5. CASE k = 1
      <3>1. \A j \in 1 .. k : g[j] = g[1] /\ 1 <= j
        BY <2>5
      <3> QED
        BY <2>4, <2>5, <3>1
    <2>6. CASE k # 1
      <3> DEFINE r == [j \in 1 .. k - 1 |-> g[j]]
      <3>1. k - 1 \in Nat \ {0} /\ k - 1 < k /\ r \in [1 .. k - 1 -> Int]
        BY <2>3, <2>6
      <3>2. k - 1 \notin Without
        BY <2>1, <2>2, <2>3, <3>1, Zenon DEF OpToRel
      <3>3. Least(k - 1, r)
        BY <3>1, <3>2, Zenon DEF Without
      <3>4. PICK i \in 1 .. k - 1 :
              \A j \in 1 .. k - 1 : r[j] > r[i] \/ (r[j] = r[i] /\ i <= j)
        BY <3>3
      <3>5. \A j \in 1 .. k - 1 : g[j] > g[i] \/ (g[j] = g[i] /\ i <= j)
        BY <3>4
      <3>6. /\ i \in 1 .. k /\ k \in 1 .. k /\ g[i] \in Int /\ g[k] \in Int
            /\ \A j \in 1 .. k : g[j] \in Int
            /\ \A j \in 1 .. k : j = k \/ j \in 1 .. k - 1
        BY <2>3, <3>4
      <3>7. CASE g[k] < g[i]
        <4>1. \A j \in 1 .. k : g[j] > g[k] \/ (g[j] = g[k] /\ k <= j)
          BY <2>3, <3>5, <3>6, <3>7
        <4> QED
          BY <2>4, <3>6, <4>1
      <3>8. CASE ~ (g[k] < g[i])
        <4>1. \A j \in 1 .. k : g[j] > g[i] \/ (g[j] = g[i] /\ i <= j)
          BY <2>3, <3>4, <3>5, <3>6, <3>8
        <4> QED
          BY <2>4, <3>6, <4>1
      <3> QED
        BY <3>7, <3>8
    <2> QED
      BY <2>5, <2>6
  <1> QED
    BY <1>1, <1>2

LEMMA RowOf ==
  ASSUME NEW t \in Seq(Row), NEW i \in DOMAIN t
  PROVE  t[i].len \in 0 .. 32 /\ t[i].intf \in Intf /\ t[i].hop \in Addr \cup {NoAddr}
  <1>1. t[i] \in Row
    BY LenProperties, ElementOfSeq
  <1> QED
    BY <1>1 DEF Row

\* Of the rows that match one is the first of the longest.
LEMMA LongestExists ==
  ASSUME NEW t \in Seq(Row), NEW S, S \subseteq DOMAIN t, S # {}
  PROVE  \E i \in S : \A j \in S : t[j].len < t[i].len \/ (t[j].len = t[i].len /\ i <= j)
  <1> DEFINE len(i) == t[i].len
             f == [i \in 1 .. Len(t) |-> IF i \in S THEN - len(i) ELSE 1]
  <1>1. Len(t) \in Nat /\ DOMAIN t = 1 .. Len(t) /\ S \subseteq 1 .. Len(t)
    BY LenProperties
  <1>2. \A i \in 1 .. Len(t) : len(i) \in Int /\ - len(i) \in Int /\ - len(i) <= 0
    <2>1. \A i \in 1 .. Len(t) : len(i) \in 0 .. 32
      BY RowOf, <1>1
    <2>2. \A x \in 0 .. 32 : x \in Int /\ - x \in Int /\ - x <= 0
      OBVIOUS
    <2> HIDE DEF len
    <2> QED
      BY <2>1, <2>2, Zenon
  <1> HIDE DEF len
  <1>3. Len(t) \in Nat \ {0} /\ f \in [1 .. Len(t) -> Int]
    BY <1>1, <1>2
  <1>4. PICK i \in 1 .. Len(t) :
          \A j \in 1 .. Len(t) : f[j] > f[i] \/ (f[j] = f[i] /\ i <= j)
    BY <1>3, FirstLeast
  <1>5. \A j \in 1 .. Len(t) : /\ j \in S => f[j] = - len(j) /\ f[j] <= 0
                               /\ j \notin S => f[j] = 1
    BY <1>2
  <1>6. \A j \in 1 .. Len(t) : f[j] \in Int
    BY <1>3
  <1> HIDE DEF f
  <1>7. i \in S
    <2>1. PICK j \in S : TRUE
      OBVIOUS
    <2>2. j \in 1 .. Len(t) /\ f[j] <= 0 /\ (f[j] > f[i] \/ f[j] = f[i])
      BY <1>1, <1>4, <1>5
    <2>3. f[i] <= 0
      BY <1>6, <2>2
    <2> QED
      BY <1>5, <2>3
  <1>8. ASSUME NEW j \in S
        PROVE  t[j].len < t[i].len \/ (t[j].len = t[i].len /\ i <= j)
    <2>1. j \in 1 .. Len(t) /\ f[j] = - len(j) /\ f[i] = - len(i)
      BY <1>1, <1>5, <1>7
    <2>2. len(j) \in Int /\ len(i) \in Int
      BY <1>2, <2>1
    <2> QED
      BY <1>4, <2>1, <2>2 DEF len
  <1> QED
    BY <1>7, <1>8

LEMMA BestRoute ==
  ASSUME NEW dst \in Addr, Routable(dst)
  PROVE  /\ Best(dst) \in Matches(dst)
         /\ \A j \in Matches(dst) : Table[j].len <= Table[Best(dst)].len
         /\ Route(dst).intf \in Intf /\ Route(dst).hop \in Addr
         /\ NextHop(dst) \in Addr
  <1>1. Table \in Seq(Row)
    BY TableAssumption
  <1>2. Matches(dst) \subseteq DOMAIN Table /\ Matches(dst) # {}
    BY DEF Matches, Routable
  <1>3. \E i \in Matches(dst) : \A j \in Matches(dst) :
          Table[j].len < Table[i].len \/ (Table[j].len = Table[i].len /\ i <= j)
    BY <1>1, <1>2, LongestExists
  <1>4. /\ Best(dst) \in Matches(dst)
        /\ \A j \in Matches(dst) :
             \/ Table[j].len < Table[Best(dst)].len
             \/ Table[j].len = Table[Best(dst)].len
    BY <1>3 DEF Best
  <1>5. \A j \in Matches(dst) : /\ Table[j].len \in 0 .. 32 /\ Table[j].intf \in Intf
                                /\ Table[j].hop \in Addr
    BY <1>1, <1>2, RowOf, TableAssumption
  <1> QED
    BY <1>4, <1>5 DEF Route, NextHop
-----------------------------------------------------------------------------
(***************************************************************************)
(* arp_send.  A packet waits in one place; an entry is the only one of its *)
(* key, and its packets, its key and its interface come from the same      *)
(* route; an entry that has been asked for is as old as any such behind it.*)
(***************************************************************************)

\* An address is behind one interface: a condition on the table, which the
\* routers read and do not check.
OneIntfPerHop ==
  \A a, b \in Addr :
    Routable(a) /\ Routable(b) /\ NextHop(a) = NextHop(b) => Route(a).intf = Route(b).intf

In(i, packs) == \E j \in DOMAIN packs : packs[j].id = i

Holds(q, i) == \E k \in DOMAIN q : In(i, q[k].packs)

\* the way of the entry is that of some address, and of its packets
ByRoute(e) ==
  /\ \E a \in Addr : Routable(a) /\ NextHop(a) = e.key /\ Route(a).intf = e.intf
  /\ \A j \in DOMAIN e.packs :
       LET dst == e.packs[j].dst
       IN  Routable(dst) /\ NextHop(dst) = e.key /\ (OneIntfPerHop => Route(dst).intf = e.intf)

Once(packs) == \A j, m \in DOMAIN packs : packs[j].id = packs[m].id => j = m

Queue(q) ==
  /\ q \in Seq(NjuEntry)
  /\ \A k, l \in DOMAIN q : q[k].key = q[l].key => k = l
  /\ \A k, l \in DOMAIN q : \A i \in Id : In(i, q[k].packs) /\ In(i, q[l].packs) => k = l
  /\ \A k \in DOMAIN q : Once(q[k].packs) /\ ByRoute(q[k])

Ages(q) ==
  /\ \A k \in DOMAIN q : q[k].remain = ArpTries => q[k].age = RetryAge
  /\ \A k, l \in DOMAIN q :
       k < l /\ q[k].remain < ArpTries /\ q[l].remain < ArpTries => q[l].age <= q[k].age

-----------------------------------------------------------------------------
LEMMA EntryOf ==
  ASSUME NEW q \in Seq(NjuEntry), NEW k \in DOMAIN q
  PROVE  /\ q[k] \in NjuEntry
         /\ q[k].key \in Addr /\ q[k].age \in 0 .. RetryAge /\ q[k].remain \in 0 .. ArpTries
         /\ q[k].packs \in Seq(NjuPacket) /\ q[k].intf \in Intf
  <1>1. q[k] \in NjuEntry
    BY LenProperties, ElementOfSeq
  <1> QED
    BY <1>1 DEF NjuEntry

LEMMA PacketOf ==
  ASSUME NEW s \in Seq(NjuPacket), NEW j \in DOMAIN s
  PROVE  /\ s[j] \in NjuPacket /\ s[j].id \in Id /\ s[j].src \in Addr /\ s[j].dst \in Addr
  <1>1. s[j] \in NjuPacket
    BY LenProperties, ElementOfSeq
  <1> QED
    BY <1>1 DEF NjuPacket

\* What RemoveAt leaves; Tail is the case of the first.
LEMMA Removal ==
  ASSUME NEW S, NEW t \in Seq(S), NEW i \in 1 .. Len(t)
  PROVE  /\ RemoveAt(t, i) \in Seq(S)
         /\ Len(RemoveAt(t, i)) = Len(t) - 1 /\ Len(t) \in Nat
         /\ DOMAIN RemoveAt(t, i) = 1 .. Len(t) - 1 /\ DOMAIN t = 1 .. Len(t)
         /\ \A k \in 1 .. Len(t) - 1 : RemoveAt(t, i)[k] = IF k < i THEN t[k] ELSE t[k + 1]
  <1> DEFINE a == SubSeq(t, 1, i - 1)
             b == SubSeq(t, i + 1, Len(t))
  <1>1. /\ a \in Seq(S) /\ Len(a) = i - 1
        /\ \A k \in 1 .. i - 1 : a[k] = t[k]
    BY SubSeqProperties
  <1>2. /\ b \in Seq(S) /\ Len(b) = Len(t) - i
        /\ \A k \in 1 .. Len(t) - i : b[k] = t[i + k]
    BY SubSeqProperties
  <1>3. RemoveAt(t, i) = a \o b
    BY DEF RemoveAt
  <1> HIDE DEF a, b
  <1>4. Len(a) + Len(b) = Len(t) - 1 /\ Len(t) \in Nat
    BY <1>1, <1>2, LenProperties
  <1>5. /\ a \o b \in Seq(S) /\ Len(a \o b) = Len(a) + Len(b)
        /\ \A k \in 1 .. Len(a) + Len(b) : (a \o b)[k] = IF k <= Len(a) THEN a[k] ELSE b[k - Len(a)]
    BY <1>1, <1>2, ConcatProperties
  <1>6. \A k \in 1 .. Len(t) - 1 : k >= i => b[k - (i - 1)] = t[k + 1]
    <2>1. \A k \in 1 .. Len(t) - 1 : k >= i =>
            k - (i - 1) \in 1 .. Len(t) - i /\ i + (k - (i - 1)) = k + 1
      OBVIOUS
    <2> QED
      BY <1>2, <2>1
  <1>7. \A k \in 1 .. Len(t) - 1 : (a \o b)[k] = IF k < i THEN t[k] ELSE t[k + 1]
    BY <1>1, <1>4, <1>5, <1>6
  <1>8. DOMAIN (a \o b) = 1 .. Len(t) - 1 /\ DOMAIN t = 1 .. Len(t)
    BY <1>4, <1>5, LenProperties
  <1> QED
    BY <1>3, <1>4, <1>5, <1>7, <1>8

LEMMA TailIsRemoval ==
  ASSUME NEW S, NEW t \in Seq(S), t # << >>
  PROVE  Tail(t) = RemoveAt(t, 1) /\ 1 \in 1 .. Len(t) /\ Head(t) = t[1]
  <1>1. Len(t) \in Nat \ {0}
    BY EmptySeq
  <1>2. /\ Tail(t) \in Seq(S) /\ Len(Tail(t)) = Len(t) - 1
        /\ \A i \in 1 .. Len(t) - 1 : Tail(t)[i] = t[i + 1]
    BY HeadTailProperties
  <1>3. /\ RemoveAt(t, 1) \in Seq(S) /\ Len(RemoveAt(t, 1)) = Len(t) - 1
        /\ \A i \in 1 .. Len(t) - 1 : RemoveAt(t, 1)[i] = t[i + 1]
    BY <1>1, Removal
  <1>4. Tail(t) = RemoveAt(t, 1)
    BY <1>2, <1>3, SeqEqual
  <1> QED
    BY <1>1, <1>4

\* Entries that are moved, dropped or grow older remain a queue.
LEMMA Rearranged ==
  ASSUME NEW q, Queue(q), NEW r \in Seq(NjuEntry), NEW f \in [DOMAIN r -> DOMAIN q],
         \A m, n \in DOMAIN r : f[m] = f[n] => m = n,
         \A m \in DOMAIN r :
           r[m].key = q[f[m]].key /\ r[m].packs = q[f[m]].packs /\ r[m].intf = q[f[m]].intf
  PROVE  /\ Queue(r)
         /\ \A i : Holds(r, i) <=> \E m \in DOMAIN r : In(i, q[f[m]].packs)
  <1>1. \A m, n \in DOMAIN r : r[m].key = r[n].key => m = n
    BY DEF Queue
  <1>2. \A m, n \in DOMAIN r : \A i \in Id : In(i, r[m].packs) /\ In(i, r[n].packs) => m = n
    BY DEF Queue
  <1>3. \A m \in DOMAIN r : Once(r[m].packs) /\ ByRoute(r[m])
    <2> TAKE m \in DOMAIN r
    <2>1. Once(q[f[m]].packs) /\ ByRoute(q[f[m]])
      BY DEF Queue
    <2> QED
      BY <2>1 DEF ByRoute
  <1>4. \A i : Holds(r, i) <=> \E m \in DOMAIN r : In(i, q[f[m]].packs)
    BY DEF Holds
  <1> QED
    BY <1>1, <1>2, <1>3, <1>4 DEF Queue

LEMMA QueueWithout ==
  ASSUME NEW q, Queue(q), Ages(q), NEW k \in 1 .. Len(q)
  PROVE  /\ Queue(RemoveAt(q, k)) /\ Ages(RemoveAt(q, k))
         /\ \A i \in Id : Holds(RemoveAt(q, k), i) <=> Holds(q, i) /\ ~ In(i, q[k].packs)
  <1> DEFINE r == RemoveAt(q, k)
             f == [m \in 1 .. Len(q) - 1 |-> IF m < k THEN m ELSE m + 1]
  <1>1. /\ r \in Seq(NjuEntry) /\ DOMAIN r = 1 .. Len(q) - 1 /\ DOMAIN q = 1 .. Len(q)
        /\ Len(q) \in Nat
        /\ \A m \in 1 .. Len(q) - 1 : r[m] = IF m < k THEN q[m] ELSE q[m + 1]
    BY Removal DEF Queue
  <1> HIDE DEF r
  <1>2. /\ f \in [DOMAIN r -> DOMAIN q]
        /\ \A m, n \in DOMAIN r : (f[m] = f[n] => m = n) /\ (m < n => f[m] < f[n])
        /\ \A m \in DOMAIN r : r[m] = q[f[m]] /\ f[m] # k
        /\ \A l \in DOMAIN q : l # k => \E m \in DOMAIN r : f[m] = l
    <2>1. /\ f \in [DOMAIN r -> DOMAIN q]
          /\ \A m, n \in DOMAIN r : (f[m] = f[n] => m = n) /\ (m < n => f[m] < f[n])
          /\ \A m \in DOMAIN r : r[m] = q[f[m]] /\ f[m] # k
      BY <1>1
    <2>2. ASSUME NEW l \in DOMAIN q, l # k
          PROVE  \E m \in DOMAIN r : f[m] = l
      <3>1. CASE l < k
        BY <1>1, <3>1
      <3>2. CASE l > k
        <4>1. l - 1 \in 1 .. Len(q) - 1 /\ f[l - 1] = l
          BY <1>1, <3>2
        <4> QED
          BY <1>1, <4>1
      <3> QED
        BY <1>1, <2>2, <3>1, <3>2
    <2> QED
      BY <2>1, <2>2
  <1> HIDE DEF f
  <1>3. Queue(r) /\ \A i : Holds(r, i) <=> \E m \in DOMAIN r : In(i, q[f[m]].packs)
    <2>1. \A m \in DOMAIN r :
            r[m].key = q[f[m]].key /\ r[m].packs = q[f[m]].packs /\ r[m].intf = q[f[m]].intf
      BY <1>2
    <2>2. r \in Seq(NjuEntry) /\ f \in [DOMAIN r -> DOMAIN q]
          /\ \A m, n \in DOMAIN r : f[m] = f[n] => m = n
      BY <1>1, <1>2
    <2> QED
      BY <2>1, <2>2, Rearranged
  <1>4. Ages(r)
    BY <1>1, <1>2 DEF Ages
  <1>5. \A i \in Id : Holds(r, i) <=> Holds(q, i) /\ ~ In(i, q[k].packs)
    <2> TAKE i \in Id
    <2>1. ASSUME Holds(r, i)
          PROVE  Holds(q, i) /\ ~ In(i, q[k].packs)
      <3>1. PICK m \in DOMAIN r : In(i, q[f[m]].packs)
        BY <1>3, <2>1
      <3>2. f[m] \in DOMAIN q /\ f[m] # k /\ k \in DOMAIN q
        BY <1>1, <1>2
      <3> QED
        BY <3>1, <3>2 DEF Holds, Queue
    <2>2. ASSUME Holds(q, i), ~ In(i, q[k].packs)
          PROVE  Holds(r, i)
      <3>1. PICK l \in DOMAIN q : In(i, q[l].packs)
        BY <2>2 DEF Holds
      <3>2. PICK m \in DOMAIN r : f[m] = l
        BY <1>2, <2>2, <3>1
      <3> QED
        BY <1>3, <3>1, <3>2
    <2> QED
      BY <2>1, <2>2
  <1> QED
    BY <1>3, <1>4, <1>5 DEF r

LEMMA Pended ==
  ASSUME NEW q, Queue(q), Ages(q), NEW p \in NjuPacket, Routable(p.dst), ~ Holds(q, p.id)
  PROVE  LET r == Pend(NextHop(p.dst), p, q)
         IN  /\ Queue(r) /\ Ages(r)
             /\ \A i \in Id : Holds(r, i) <=> Holds(q, i) \/ i = p.id
  <1> DEFINE hop == NextHop(p.dst)
             r == Pend(hop, p, q)
  <1>1. p.id \in Id /\ p.dst \in Addr
    BY DEF NjuPacket
  <1>2. hop \in Addr /\ Route(p.dst).intf \in Intf
    BY <1>1, BestRoute
  <1>3. q \in Seq(NjuEntry) /\ DOMAIN q = 1 .. Len(q) /\ Len(q) \in Nat
    BY LenProperties DEF Queue
  <1> HIDE DEF hop
  <1>4. CASE \E k \in DOMAIN q : q[k].key = hop
    <2>1. PICK k \in DOMAIN q : q[k].key = hop /\ \A l \in DOMAIN q : q[l].key = hop => l = k
      BY <1>4 DEF Queue
    <2> DEFINE packs == Append(q[k].packs, p)
    <2>2. /\ packs \in Seq(NjuPacket) /\ DOMAIN packs = 1 .. Len(q[k].packs) + 1
          /\ DOMAIN q[k].packs = 1 .. Len(q[k].packs) /\ Len(q[k].packs) \in Nat
          /\ \A j \in 1 .. Len(q[k].packs) : packs[j] = q[k].packs[j]
          /\ packs[Len(q[k].packs) + 1] = p
      BY <1>3, EntryOf, AppendProperties, LenProperties
    <2> HIDE DEF packs
    <2>3. \A i : In(i, packs) <=> In(i, q[k].packs) \/ i = p.id
      <3>1. \A j \in DOMAIN packs : j \in 1 .. Len(q[k].packs) \/ j = Len(q[k].packs) + 1
        BY <2>2
      <3> QED
        BY <2>2, <3>1 DEF In
    <2>4. r = [l \in DOMAIN q |-> IF l = k THEN [q[k] EXCEPT !.packs = packs] ELSE q[l]]
      BY <1>4, <2>1 DEF Pend, packs
    <2>5. /\ [q[k] EXCEPT !.packs = packs] \in NjuEntry
          /\ [q[k] EXCEPT !.packs = packs].packs = packs
          /\ [q[k] EXCEPT !.packs = packs].key = hop
          /\ [q[k] EXCEPT !.packs = packs].intf = q[k].intf
          /\ [q[k] EXCEPT !.packs = packs].age = q[k].age
          /\ [q[k] EXCEPT !.packs = packs].remain = q[k].remain
      <3>1. q[k] \in NjuEntry
        BY <1>3, EntryOf
      <3> QED
        BY <2>1, <2>2, <3>1 DEF NjuEntry
    <2> HIDE DEF r
    <2>6. /\ DOMAIN r = DOMAIN q
          /\ \A l \in DOMAIN q : r[l] \in NjuEntry /\ r[l].key = q[l].key
                                 /\ r[l].intf = q[l].intf /\ r[l].age = q[l].age
                                 /\ r[l].remain = q[l].remain
          /\ \A l \in DOMAIN q : l # k => r[l] = q[l]
          /\ r[k].packs = packs
      BY <1>3, <2>1, <2>4, <2>5, EntryOf
    <2>7. r \in Seq(NjuEntry)
      <3>1. r \in [1 .. Len(q) -> NjuEntry]
        BY <1>3, <2>4, <2>6
      <3> QED
        BY <1>3, <3>1, SeqDef
    <2>8. \A l \in DOMAIN q : \A i : In(i, r[l].packs) <=> In(i, q[l].packs) \/ (l = k /\ i = p.id)
      BY <2>3, <2>6
    <2>9. \A l \in DOMAIN q : ~ In(p.id, q[l].packs)
      BY DEF Holds
    <2>10. \A l, m \in DOMAIN r : \A i \in Id : In(i, r[l].packs) /\ In(i, r[m].packs) => l = m
      BY <2>6, <2>8, <2>9 DEF Queue
    <2>11. Once(packs)
      <3>1. Once(q[k].packs) /\ ~ In(p.id, q[k].packs)
        BY <2>9 DEF Queue
      <3>2. \A j \in DOMAIN packs : j \in 1 .. Len(q[k].packs) \/ j = Len(q[k].packs) + 1
        BY <2>2
      <3> QED
        BY <2>2, <3>1, <3>2 DEF Once, In
    <2>12. ByRoute(r[k])
      <3>1. ByRoute(q[k])
        BY DEF Queue
      <3>2. OneIntfPerHop => Route(p.dst).intf = q[k].intf
        BY <1>1, <2>1, <3>1 DEF ByRoute, OneIntfPerHop, hop
      <3>3. \A j \in DOMAIN packs : j \in DOMAIN q[k].packs \/ packs[j] = p
        BY <2>2
      <3>4. \A j \in DOMAIN packs :
              /\ Routable(packs[j].dst) /\ NextHop(packs[j].dst) = q[k].key
              /\ OneIntfPerHop => Route(packs[j].dst).intf = q[k].intf
        BY <2>1, <2>2, <3>1, <3>2, <3>3 DEF ByRoute, hop
      <3> QED
        BY <2>6, <3>1, <3>4 DEF ByRoute
    <2>13. \A l \in DOMAIN r : Once(r[l].packs) /\ ByRoute(r[l])
      BY <2>6, <2>11, <2>12 DEF Queue
    <2>14. Queue(r)
      BY <2>6, <2>7, <2>10, <2>13 DEF Queue
    <2>15. Ages(r)
      BY <2>6 DEF Ages
    <2>16. \A i \in Id : Holds(r, i) <=> Holds(q, i) \/ i = p.id
      BY <2>6, <2>8 DEF Holds
    <2> QED
      BY <2>14, <2>15, <2>16 DEF r, hop
  <1>5. CASE ~ \E k \in DOMAIN q : q[k].key = hop
    <2> DEFINE e == [key |-> hop, age |-> RetryAge, remain |-> ArpTries,
                     packs |-> <<p>>, intf |-> Route(p.dst).intf]
    <2>1. r = Append(q, e)
      BY <1>5 DEF Pend
    <2>2. e \in NjuEntry /\ e.key = hop /\ e.age = RetryAge /\ e.remain = ArpTries
          /\ e.packs = <<p>> /\ e.intf = Route(p.dst).intf
      BY <1>2, BoundsAssumption DEF NjuEntry
    <2> HIDE DEF e, r
    <2>3. /\ r \in Seq(NjuEntry) /\ DOMAIN r = 1 .. Len(q) + 1
          /\ \A k \in 1 .. Len(q) : r[k] = q[k]
          /\ r[Len(q) + 1] = e
      BY <1>3, <2>1, <2>2, AppendProperties, LenProperties
    <2>4. \A k \in DOMAIN r : (k \in DOMAIN q /\ r[k] = q[k]) \/ (k = Len(q) + 1 /\ r[k] = e)
      BY <1>3, <2>3
    <2>5. (\A i : In(i, e.packs) <=> i = p.id) /\ Once(e.packs)
      BY <2>2 DEF In, Once
    <2>6. ByRoute(e)
      BY <1>1, <2>2 DEF ByRoute, hop
    <2>7. \A k, l \in DOMAIN r : r[k].key = r[l].key => k = l
      BY <1>5, <2>2, <2>4 DEF Queue
    <2>8. \A k, l \in DOMAIN r : \A i \in Id : In(i, r[k].packs) /\ In(i, r[l].packs) => k = l
      BY <2>4, <2>5 DEF Queue, Holds
    <2>9. \A k \in DOMAIN r : Once(r[k].packs) /\ ByRoute(r[k])
      BY <2>4, <2>5, <2>6 DEF Queue
    <2>10. Queue(r)
      BY <2>3, <2>7, <2>8, <2>9 DEF Queue
    <2>11. Ages(r)
      <3>1. ~ (e.remain < ArpTries) /\ e.age = RetryAge
        BY <2>2, BoundsAssumption
      <3> QED
        BY <2>4, <3>1 DEF Ages
    <2>12. \A i \in Id : Holds(r, i) <=> Holds(q, i) \/ i = p.id
      <3>1. Len(q) + 1 \in DOMAIN r /\ \A k \in DOMAIN q : k \in DOMAIN r /\ r[k] = q[k]
        BY <1>3, <2>3
      <3> QED
        BY <2>3, <2>4, <2>5, <3>1 DEF Holds
    <2> QED
      BY <2>10, <2>11, <2>12 DEF r, hop
  <1> QED
    BY <1>4, <1>5
-----------------------------------------------------------------------------
(***************************************************************************)
(* One of each packet: it waits in arp_send, is among those given up, has  *)
(* left or was thrown away.                                                *)
(***************************************************************************)

Alone(a, b, c, d) ==
  ~ (a /\ b) /\ ~ (a /\ c) /\ ~ (a /\ d) /\ ~ (b /\ c) /\ ~ (b /\ d) /\ ~ (c /\ d)

NjuOne(i) ==
  /\ Alone(Holds(arpSend, i), In(i, unreach), left[i] = 1, i \in thrown)
  /\ Holds(arpSend, i) \/ In(i, unreach) \/ left[i] = 1 \/ i \in thrown <=> i <= accepted

NjuInv ==
  /\ accepted \in Nat
  /\ Queue(arpSend) /\ Ages(arpSend)
  /\ unreach \in Seq(NjuPacket) /\ Once(unreach)
  /\ left \in [Id -> {0, 1}]
  /\ where \notin {"unreach", "crashed"} => unreach = << >>
  /\ where # "crashed" => \A i \in Id : NjuOne(i)
  /\ lab = 5 => thrown = {}

-----------------------------------------------------------------------------
\* What is made of a packet has its number and can be sent.
LEMMA Made ==
  ASSUME NEW p \in NjuPacket, p.ttl # 0
  PROVE  /\ Error(p) \in NjuPacket /\ Error(p).id = p.id /\ Error(p).ttl # 0
         /\ Reply(p) \in NjuPacket /\ Reply(p).id = p.id /\ Reply(p).ttl # 0
         /\ RecursionEnds(p) =>
              /\ ToForward(p) \in NjuPacket /\ ToForward(p).id = p.id
              /\ Routable(ToForward(p).dst) /\ ToForward(p).ttl # 0
  <1>1. \A q \in NjuPacket : /\ Error(q) \in NjuPacket /\ Error(q).id = q.id
                             /\ Error(q).ttl # 0 /\ Error(q).dst = q.src /\ Error(q).src = Zero
    BY TableAssumption DEF NjuPacket, Error
  <1>2. Reply(p) \in NjuPacket /\ Reply(p).id = p.id /\ Reply(p).ttl # 0
    BY DEF NjuPacket, Reply
  <1>3. /\ Error(Error(p)) \in NjuPacket /\ Error(Error(p)).id = p.id
        /\ Error(Error(p)).ttl # 0 /\ Error(Error(p)).dst = Zero
    BY <1>1
  <1>4. RecursionEnds(p) => /\ ToForward(p) \in NjuPacket /\ ToForward(p).id = p.id
                            /\ Routable(ToForward(p).dst) /\ ToForward(p).ttl # 0
    BY <1>1, <1>3 DEF RecursionEnds, ToForward, Forwardable
  <1> QED
    BY <1>1, <1>2, <1>4

\* A packet that is sent leaves or waits, and nothing else moves.
LEMMA SentOnce ==
  ASSUME Queue(arpSend), Ages(arpSend), left \in [Id -> {0, 1}],
         NEW p \in NjuPacket, p.ttl # 0, Routable(p.dst),
         ~ Holds(arpSend, p.id), left[p.id] = 0, SendOrPend(p)
  PROVE  /\ Queue(arpSend') /\ Ages(arpSend') /\ left' \in [Id -> {0, 1}]
         /\ \A i \in Id : i # p.id => (Holds(arpSend', i) <=> Holds(arpSend, i)) /\ left'[i] = left[i]
         /\ Holds(arpSend', p.id) <=> left'[p.id] = 0
  <1>1. p.id \in Id /\ p.dst \in Addr /\ p.ttl \in 1 .. 65 /\ p.src \in Addr
    BY DEF NjuPacket
  <1>2. CASE CountSent(p) /\ UNCHANGED arpSend
    BY <1>1, <1>2 DEF CountSent
  <1>3. CASE arpSend' = Pend(NextHop(p.dst), Leaving(p), arpSend) /\ UNCHANGED left
    <2>1. /\ Leaving(p) \in NjuPacket /\ Leaving(p).id = p.id /\ Leaving(p).dst = p.dst
      <3>1. IntfAddr[Route(p.dst).intf] \in Addr
        BY <1>1, BestRoute, AddrAssumption
      <3>2. p.ttl - 1 \in 0 .. 65
        BY <1>1
      <3> QED
        BY <3>1, <3>2 DEF NjuPacket, Leaving
    <2>2. /\ Queue(arpSend') /\ Ages(arpSend')
          /\ \A i \in Id : Holds(arpSend', i) <=> Holds(arpSend, i) \/ i = p.id
      BY <1>3, <2>1, Pended
    <2> QED
      BY <1>1, <1>3, <2>2
  <1> QED
    BY <1>2, <1>3 DEF SendOrPend

\* send_ip ends with the packet, or an error about it, sent once; or in the crash.
LEMMA SentIp ==
  ASSUME Queue(arpSend), Ages(arpSend), left \in [Id -> {0, 1}],
         NEW p \in NjuPacket, p.ttl # 0,
         ~ Holds(arpSend, p.id), left[p.id] = 0, NEW next, SendIp(p, next)
  PROVE  /\ Queue(arpSend') /\ Ages(arpSend') /\ left' \in [Id -> {0, 1}]
         /\ where' = "crashed" \/
              /\ where' = next
              /\ \A i \in Id : i # p.id =>
                   (Holds(arpSend', i) <=> Holds(arpSend, i)) /\ left'[i] = left[i]
              /\ Holds(arpSend', p.id) <=> left'[p.id] = 0
  <1>1. CASE RecursionEnds(p)
    <2> DEFINE q == ToForward(p)
    <2>1. q \in NjuPacket /\ q.id = p.id /\ Routable(q.dst) /\ q.ttl # 0
      BY <1>1, Made
    <2>2. SendOrPend(q) /\ where' = next
      BY <1>1 DEF SendIp
    <2> HIDE DEF q
    <2> QED
      BY <2>1, <2>2, SentOnce
  <1>2. CASE ~ RecursionEnds(p)
    BY <1>2 DEF SendIp
  <1> QED
    BY <1>1, <1>2

LEMMA NjuIpInv ==
  ASSUME NjuInv, NjuHandleIp
  PROVE  NjuInv'
  <1>1. /\ where = "recv" /\ accepted \in Nat /\ accepted < MaxPackets
        /\ accepted' = accepted + 1 /\ unreach = << >> /\ UNCHANGED <<lab, unreach>>
    BY DEF NjuInv, NjuHandleIp
  <1>2. PICK p \in NjuPacket :
          /\ p.id = accepted' /\ p.ttl # 0
          /\ IF lab = 4 THEN Lab4Handle(p) ELSE Lab5Handle(p)
    <2>1. PICK in \in NjuInputs :
            LET p == [id |-> accepted', kind |-> in.kind, src |-> in.src,
                      dst |-> in.dst, ttl |-> in.ttl]
            IN  IF lab = 4 THEN Lab4Handle(p) ELSE Lab5Handle(p)
      BY DEF NjuHandleIp
    <2> DEFINE p == [id |-> accepted', kind |-> in.kind, src |-> in.src,
                     dst |-> in.dst, ttl |-> in.ttl]
    <2>2. in \in [kind : {"data", "echo"}, src : Addr, dst : Addr, ttl : 1 .. 64]
      BY NjuInputsAssumption
    <2>3. accepted' \in Id
      BY <1>1, BoundsAssumption DEF Id
    <2>4. p \in NjuPacket /\ p.id = accepted' /\ p.ttl # 0
      BY <2>2, <2>3 DEF NjuPacket
    <2> QED
      BY <2>1, <2>4
  <1>3. p.id \in Id /\ p.id = accepted + 1 /\ Id \subseteq Int
    BY <1>1, <1>2 DEF NjuPacket, Id
  <1>4. /\ \A i \in Id : NjuOne(i)
        /\ ~ Holds(arpSend, p.id) /\ left[p.id] = 0 /\ p.id \notin thrown
    <2>1. ~ (p.id <= accepted)
      BY <1>1, <1>3
    <2> QED
      BY <1>1, <1>3, <2>1 DEF NjuInv, NjuOne
  <1>5. \A i \in Id : ~ In(i, unreach)
    BY <1>1 DEF In
  <1>6. \A i \in Id : i <= accepted' <=> i <= accepted \/ i = p.id
    BY <1>1, <1>3
  <1>7. Queue(arpSend) /\ Ages(arpSend) /\ left \in [Id -> {0, 1}]
    BY DEF NjuInv
  <1>8. CASE /\ Queue(arpSend') /\ Ages(arpSend') /\ left' \in [Id -> {0, 1}]
             /\ UNCHANGED thrown
             /\ where' = "crashed" \/
                  /\ where' = "resend"
                  /\ \A i \in Id : i # p.id =>
                       (Holds(arpSend', i) <=> Holds(arpSend, i)) /\ left'[i] = left[i]
                  /\ Holds(arpSend', p.id) <=> left'[p.id] = 0
    <2>1. where' # "crashed" => \A i \in Id : NjuOne(i)'
      <3> SUFFICES ASSUME where' # "crashed", NEW i \in Id PROVE NjuOne(i)'
        OBVIOUS
      <3>1. left'[i] \in {0, 1}
        BY <1>8
      <3> QED
        BY <1>1, <1>3, <1>4, <1>5, <1>6, <1>8, <3>1 DEF NjuOne, Alone
    <2> QED
      BY <1>1, <1>8, <2>1 DEF NjuInv
  <1>9. CASE /\ where' = "resend" /\ lab = 4
             /\ thrown' = thrown \cup {p.id} /\ UNCHANGED <<arpSend, left>>
    <2>1. \A i \in Id : NjuOne(i)'
      <3> SUFFICES ASSUME NEW i \in Id PROVE NjuOne(i)'
        OBVIOUS
      <3> QED
        BY <1>1, <1>4, <1>5, <1>6, <1>9 DEF NjuOne, Alone
    <2> QED
      BY <1>1, <1>9, <2>1 DEF NjuInv
  <1>10. CASE lab = 4
    <2>1. Lab4Handle(p)
      BY <1>2, <1>10
    <2>2. CASE Throw({p.id}) /\ UNCHANGED <<arpSend, left>>
      BY <1>9, <1>10, <2>1, <2>2 DEF Lab4Handle, Throw
    <2>3. CASE Routable(p.dst) /\ SendOrPend(p) /\ UNCHANGED thrown
      BY <1>2, <1>4, <1>7, <1>8, <2>1, <2>3, SentOnce DEF Lab4Handle
    <2> QED
      BY <2>1, <2>2, <2>3 DEF Lab4Handle
  <1>11. CASE lab # 4
    <2> DEFINE q == IF p.dst \notin RouterAddrs THEN p
                    ELSE IF p.kind = "echo" THEN Reply(p) ELSE Error(p)
    <2>1. SendIp(q, "resend") /\ UNCHANGED thrown
      BY <1>2, <1>11 DEF Lab5Handle
    <2>2. q \in NjuPacket /\ q.id = p.id /\ q.ttl # 0
      BY <1>2, Made
    <2> HIDE DEF q
    <2> QED
      BY <1>4, <1>7, <1>8, <2>1, <2>2, SentIp
  <1> QED
    BY <1>10, <1>11
\* How often a packet waits at some entries: once or not at all.
LEMMA WaitsOnce ==
  ASSUME Queue(arpSend), NEW i \in Id, NEW S, S \subseteq DOMAIN arpSend
  PROVE  WaitsAt(i, S) = IF \E k \in S : In(i, arpSend[k].packs) THEN 1 ELSE 0
  <1> DEFINE spots == UNION {{k} \X Places(i, arpSend[k].packs) : k \in S}
  <1>1. CASE \E k \in S : In(i, arpSend[k].packs)
    <2>1. PICK k \in S : In(i, arpSend[k].packs)
      BY <1>1
    <2>2. PICK j \in DOMAIN arpSend[k].packs : arpSend[k].packs[j].id = i
      BY <2>1 DEF In
    <2>3. \A l \in S : l # k => Places(i, arpSend[l].packs) = {}
      BY <2>1 DEF Queue, In, Places
    <2>4. Places(i, arpSend[k].packs) = {j}
      BY <2>2 DEF Queue, Once, Places
    <2>5. spots = {<<k, j>>}
      BY <2>3, <2>4
    <2> HIDE DEF spots
    <2>6. Cardinality(spots) = 1
      BY <2>5, FS_Singleton
    <2> QED
      BY <1>1, <2>6 DEF WaitsAt, spots
  <1>2. CASE ~ \E k \in S : In(i, arpSend[k].packs)
    <2>1. \A k \in S : Places(i, arpSend[k].packs) = {}
      BY <1>2 DEF In, Places
    <2>2. spots = {}
      BY <2>1
    <2> HIDE DEF spots
    <2>3. Cardinality(spots) = 0
      BY <2>2, FS_EmptySet
    <2> QED
      BY <1>2, <2>3 DEF WaitsAt, spots
  <1> QED
    BY <1>1, <1>2

LEMMA ReplyInv ==
  ASSUME NjuInv, HandleArpReply
  PROVE  NjuInv'
  <1>1. PICK sender : /\ arpSend' = AfterReply(sender)
                      /\ left' = [i \in Id |-> left[i] + WaitsAt(i, KeyAt(sender))]
    BY DEF HandleArpReply
  <1>2. /\ where = "recv" /\ where' = "resend" /\ unreach = << >>
        /\ UNCHANGED <<lab, unreach, accepted, thrown>>
        /\ Queue(arpSend) /\ Ages(arpSend) /\ left \in [Id -> {0, 1}]
        /\ \A i \in Id : NjuOne(i)
    BY DEF HandleArpReply, NjuInv
  <1>3. KeyAt(sender) \subseteq DOMAIN arpSend
    BY DEF KeyAt
  <1>4. \A i \in Id : left'[i] = left[i] + (IF \E k \in KeyAt(sender) : In(i, arpSend[k].packs)
                                            THEN 1 ELSE 0)
    BY <1>1, <1>2, <1>3, WaitsOnce
  <1>5. CASE KeyAt(sender) = {}
    <2>1. arpSend' = arpSend /\ \A i \in Id : left'[i] = left[i]
      BY <1>1, <1>2, <1>4, <1>5 DEF AfterReply
    <2>2. left' = left
      BY <1>1, <1>2, <2>1
    <2>3. \A i \in Id : NjuOne(i)'
      BY <1>2, <2>1 DEF NjuOne, Alone
    <2> QED
      BY <1>2, <2>1, <2>2, <2>3 DEF NjuInv
  <1>6. CASE KeyAt(sender) # {}
    <2> DEFINE k == CHOOSE k \in KeyAt(sender) : TRUE
    <2>1. k \in KeyAt(sender)
      BY <1>6
    <2>2. arpSend' = RemoveAt(arpSend, k)
      BY <1>6, <1>1 DEF AfterReply
    <2> HIDE DEF k
    <2>3. KeyAt(sender) = {k} /\ k \in 1 .. Len(arpSend)
      <3>1. DOMAIN arpSend = 1 .. Len(arpSend)
        BY <1>2, LenProperties DEF Queue
      <3> QED
        BY <1>2, <2>1, <3>1 DEF KeyAt, Queue
    <2>4. /\ Queue(arpSend') /\ Ages(arpSend')
          /\ \A i \in Id : Holds(arpSend', i) <=> Holds(arpSend, i) /\ ~ In(i, arpSend[k].packs)
      BY <1>2, <2>2, <2>3, QueueWithout
    <2>5. \A i \in Id : In(i, arpSend[k].packs) => Holds(arpSend, i)
      BY <1>3, <2>1 DEF Holds
    <2>6. \A i \in Id : left'[i] = IF In(i, arpSend[k].packs) THEN 1 ELSE left[i]
      <3> TAKE i \in Id
      <3>1. In(i, arpSend[k].packs) => left[i] = 0
        BY <1>2, <2>5 DEF NjuOne, Alone
      <3>2. left[i] \in {0, 1}
        BY <1>2
      <3> QED
        BY <1>4, <2>3, <3>1, <3>2
    <2>7. left' \in [Id -> {0, 1}]
      BY <1>1, <1>2, <2>6
    <2>8. \A i \in Id : NjuOne(i)'
      <3> SUFFICES ASSUME NEW i \in Id PROVE NjuOne(i)'
        OBVIOUS
      <3>1. left[i] \in {0, 1} /\ NjuOne(i)
        BY <1>2
      <3> QED
        BY <1>2, <2>4, <2>5, <2>6, <3>1 DEF NjuOne, Alone
    <2> QED
      BY <1>2, <2>4, <2>7, <2>8 DEF NjuInv
  <1> QED
    BY <1>5, <1>6

\* The order of the entries does not matter, nor what else is changed in them: r is q
\* with its head moved to the end.
LEMMA Rotated ==
  ASSUME NEW q, Queue(q), q # << >>, NEW r \in Seq(NjuEntry), Len(r) = Len(q),
         \A m \in 1 .. Len(q) - 1 :
           /\ r[m].key = q[m + 1].key
           /\ r[m].packs = q[m + 1].packs /\ r[m].intf = q[m + 1].intf,
         r[Len(q)].key = q[1].key, r[Len(q)].packs = q[1].packs, r[Len(q)].intf = q[1].intf
  PROVE  Queue(r) /\ \A i : Holds(r, i) <=> Holds(q, i)
  <1> DEFINE f == [m \in 1 .. Len(q) |-> IF m = Len(q) THEN 1 ELSE m + 1]
  <1>2. DOMAIN q = 1 .. Len(q) /\ DOMAIN r = 1 .. Len(q) /\ Len(q) \in Nat \ {0}
    BY LenProperties, EmptySeq DEF Queue
  <1>7. /\ f \in [DOMAIN r -> DOMAIN q]
        /\ \A m, n \in DOMAIN r : f[m] = f[n] => m = n
        /\ \A m \in DOMAIN r : f[m] = IF m = Len(q) THEN 1 ELSE m + 1
        /\ \A l \in DOMAIN q : \E m \in DOMAIN r : f[m] = l
    <2>1. /\ f \in [DOMAIN r -> DOMAIN q]
          /\ \A m, n \in DOMAIN r : f[m] = f[n] => m = n
          /\ \A m \in DOMAIN r : f[m] = IF m = Len(q) THEN 1 ELSE m + 1
      BY <1>2
    <2> HIDE DEF f
    <2>2. ASSUME NEW l \in DOMAIN q
          PROVE  \E m \in DOMAIN r : f[m] = l
      <3>1. CASE l = 1
        BY <1>2, <2>1, <3>1
      <3>2. CASE l # 1
        <4>1. l - 1 \in DOMAIN r /\ l - 1 # Len(q)
          BY <1>2, <3>2
        <4>2. f[l - 1] = l
          BY <1>2, <2>1, <4>1
        <4> QED
          BY <4>1, <4>2
      <3> QED
        BY <3>1, <3>2
    <2> QED
      BY <2>1, <2>2
  <1> HIDE DEF f
  <1>8. \A m \in DOMAIN r : /\ r[m].key = q[f[m]].key
                            /\ r[m].packs = q[f[m]].packs
                            /\ r[m].intf = q[f[m]].intf
    <2> TAKE m \in DOMAIN r
    <2>1. CASE m = Len(q)
      BY <1>2, <1>7, <2>1
    <2>2. CASE m # Len(q)
      <3>1. m \in 1 .. Len(q) - 1 /\ f[m] = m + 1
        BY <1>2, <1>7, <2>2
      <3> QED
        BY <3>1
    <2> QED
      BY <2>1, <2>2
  <1>9. Queue(r) /\ \A i : Holds(r, i) <=> \E m \in DOMAIN r : In(i, q[f[m]].packs)
    <2>1. \A m \in DOMAIN r :
            r[m].key = q[f[m]].key /\ r[m].packs = q[f[m]].packs /\ r[m].intf = q[f[m]].intf
      BY <1>8
    <2>2. f \in [DOMAIN r -> DOMAIN q] /\ \A m, n \in DOMAIN r : f[m] = f[n] => m = n
      BY <1>7
    <2> QED
      BY <2>1, <2>2, Rearranged
  <1> QED
    BY <1>7, <1>9 DEF Holds

\* The head is asked for again and goes to the end.
LEMMA Requeued ==
  ASSUME NEW q, Queue(q), Ages(q), q # << >>, Head(q).remain > 0,
         NEW r, r = Append(Tail(q), [Head(q) EXCEPT !.age = 0, !.remain = @ - 1])
  PROVE  Queue(r) /\ Ages(r) /\ \A i : Holds(r, i) <=> Holds(q, i)
  <1> DEFINE e == [Head(q) EXCEPT !.age = 0, !.remain = @ - 1]
  <1>1. r = Append(Tail(q), e)
    OBVIOUS
  <1>2. /\ q \in Seq(NjuEntry)
        /\ Head(q) = q[1] /\ DOMAIN q = 1 .. Len(q) /\ Len(q) \in Nat \ {0}
    BY EmptySeq, LenProperties DEF Queue
  <1>3. /\ Tail(q) \in Seq(NjuEntry) /\ Len(Tail(q)) = Len(q) - 1
        /\ \A m \in 1 .. Len(q) - 1 : Tail(q)[m] = q[m + 1]
    BY <1>1, <1>2, HeadTailProperties
  <1>4. q[1] \in NjuEntry /\ q[1].remain \in 1 .. ArpTries
    BY <1>1, <1>2, EntryOf
  <1>5. /\ e \in NjuEntry /\ e.key = q[1].key /\ e.packs = q[1].packs /\ e.intf = q[1].intf
        /\ e.age = 0 /\ e.remain < ArpTries
    <2>1. q[1].remain - 1 \in 0 .. ArpTries /\ q[1].remain - 1 < ArpTries /\ 0 \in 0 .. RetryAge
      BY <1>4, BoundsAssumption
    <2> QED
      BY <1>2, <1>4, <2>1 DEF NjuEntry
  <1> HIDE DEF e
  <1>6. /\ r \in Seq(NjuEntry) /\ DOMAIN r = 1 .. Len(q)
        /\ \A m \in 1 .. Len(q) - 1 : r[m] = q[m + 1]
        /\ r[Len(q)] = e
    <2>1. /\ r \in Seq(NjuEntry) /\ Len(r) = Len(Tail(q)) + 1
          /\ \A m \in 1 .. Len(Tail(q)) : r[m] = Tail(q)[m]
          /\ r[Len(Tail(q)) + 1] = e
      BY <1>1, <1>3, <1>5, AppendProperties
    <2> QED
      BY <1>2, <1>3, <2>1, LenProperties
  <1>7. Queue(r) /\ \A i : Holds(r, i) <=> Holds(q, i)
    <2>1. Len(r) = Len(q)
      BY <1>2, <1>6, LenProperties
    <2>2. \A m \in 1 .. Len(q) - 1 :
            /\ r[m].key = q[m + 1].key
            /\ r[m].packs = q[m + 1].packs /\ r[m].intf = q[m + 1].intf
      BY <1>6
    <2>3. r[Len(q)].key = q[1].key /\ r[Len(q)].packs = q[1].packs /\ r[Len(q)].intf = q[1].intf
      BY <1>5, <1>6
    <2>4. r \in Seq(NjuEntry) /\ q # << >>
      BY <1>1, <1>6
    <2> QED
      BY <2>1, <2>2, <2>3, <2>4, Rotated
  <1>8. Ages(r)
    <2>1. \A m \in DOMAIN r : r[m].remain = ArpTries => r[m].age = RetryAge
      <3> TAKE m \in DOMAIN r
      <3>1. CASE m = Len(q)
        BY <1>5, <1>6, <3>1, BoundsAssumption
      <3>2. CASE m # Len(q)
        <4>1. r[m] = q[m + 1] /\ m + 1 \in DOMAIN q
          BY <1>2, <1>6, <3>2
        <4> QED
          BY <1>2, <4>1 DEF Ages
      <3> QED
        BY <3>1, <3>2
    <2>2. ASSUME NEW m \in DOMAIN r, NEW n \in DOMAIN r, m < n,
                 r[m].remain < ArpTries, r[n].remain < ArpTries
          PROVE  r[n].age <= r[m].age
      <3>1. r[m] = q[m + 1] /\ m + 1 \in DOMAIN q /\ q[m + 1].age >= 0
        <4>1. m \in 1 .. Len(q) - 1 /\ m + 1 \in DOMAIN q
          BY <1>2, <1>6, <2>2
        <4>2. q[m + 1].age \in 0 .. RetryAge
          BY <1>2, <4>1, EntryOf
        <4> QED
          BY <1>6, <4>1, <4>2
      <3>2. CASE n = Len(q)
        BY <1>5, <1>6, <3>1, <3>2
      <3>3. CASE n # Len(q)
        <4>1. r[n] = q[n + 1] /\ n + 1 \in DOMAIN q /\ m + 1 < n + 1
          BY <1>2, <1>6, <2>2, <3>3
        <4> QED
          BY <1>2, <2>2, <3>1, <4>1 DEF Ages
      <3> QED
        BY <3>2, <3>3
    <2> QED
      BY <2>1, <2>2 DEF Ages
  <1> QED
    BY <1>7, <1>8

LEMMA ResendInv ==
  ASSUME NjuInv, ResendArp
  PROVE  NjuInv'
  <1>1. /\ arpSend # << >> /\ Head(arpSend).remain > 0
        /\ arpSend' = Append(Tail(arpSend), [Head(arpSend) EXCEPT !.age = 0, !.remain = @ - 1])
        /\ UNCHANGED <<lab, unreach, where, accepted, left, thrown>>
    BY DEF ResendArp, HeadDue, MayRetry, Requeue
  <1>2. Queue(arpSend') /\ Ages(arpSend') /\ \A i : Holds(arpSend', i) <=> Holds(arpSend, i)
    BY <1>1, Requeued DEF NjuInv
  <1>3. where # "crashed" => \A i \in Id : NjuOne(i)'
    BY <1>1, <1>2 DEF NjuInv, NjuOne, Alone
  <1> QED
    BY <1>1, <1>2, <1>3 DEF NjuInv

\* The packets of the head become those given up, or are thrown away.
LEMMA GiveUpInv ==
  ASSUME NjuInv, GiveUp \/ Lab4GiveUp
  PROVE  NjuInv'
  <1> DEFINE packs == Head(arpSend).packs
  <1>1. /\ arpSend # << >> /\ arpSend' = Tail(arpSend) /\ where = "resend" /\ unreach = << >>
        /\ UNCHANGED <<lab, accepted, left>>
        /\ \/ lab = 5 /\ unreach' = packs /\ where' = "unreach" /\ thrown' = thrown
           \/ /\ lab = 4 /\ UNCHANGED <<unreach, where>>
              /\ thrown' = thrown \cup {p.id : p \in ToSet(packs)}
    BY DEF GiveUp, Lab4GiveUp, HeadDue, GivenUp, Throw, NjuInv
  <1>2. /\ arpSend \in Seq(NjuEntry) /\ Queue(arpSend) /\ Ages(arpSend)
        /\ \A i \in Id : NjuOne(i)
    BY <1>1 DEF NjuInv, Queue
  <1>3. /\ arpSend' = RemoveAt(arpSend, 1) /\ 1 \in 1 .. Len(arpSend) /\ 1 \in DOMAIN arpSend
        /\ packs = arpSend[1].packs
    BY <1>1, <1>2, TailIsRemoval, LenProperties
  <1>4. /\ Queue(arpSend') /\ Ages(arpSend')
        /\ \A i \in Id : Holds(arpSend', i) <=> Holds(arpSend, i) /\ ~ In(i, packs)
    BY <1>2, <1>3, QueueWithout
  <1>5. packs \in Seq(NjuPacket) /\ Once(packs) /\ \A i \in Id : In(i, packs) => Holds(arpSend, i)
    BY <1>2, <1>3, EntryOf DEF Queue, Holds
  <1>6. \A i \in Id : i \in {p.id : p \in ToSet(packs)} <=> In(i, packs)
    BY <1>5 DEF ToSet, In
  <1>7. \A i : ~ In(i, unreach)
    BY <1>1 DEF In
  <1> HIDE DEF packs
  <1>8. \A i \in Id : NjuOne(i)'
    <2> SUFFICES ASSUME NEW i \in Id PROVE NjuOne(i)'
      OBVIOUS
    <2>1. NjuOne(i)
      BY <1>2
    <2>2. CASE unreach' = packs /\ thrown' = thrown
      BY <1>1, <1>4, <1>5, <1>7, <2>1, <2>2 DEF NjuOne, Alone
    <2>3. CASE unreach' = unreach /\ (i \in thrown' <=> i \in thrown \/ In(i, packs))
      BY <1>1, <1>4, <1>5, <1>7, <2>1, <2>3 DEF NjuOne, Alone
    <2> QED
      BY <1>1, <1>6, <2>2, <2>3
  <1> QED
    <2>1. unreach' \in Seq(NjuPacket) /\ Once(unreach')
      BY <1>1, <1>5 DEF NjuInv
    <2>2. where' \notin {"unreach", "crashed"} => unreach' = << >>
      BY <1>1
    <2>3. lab' = 5 => thrown' = {}
      BY <1>1 DEF NjuInv
    <2> QED
      BY <1>1, <1>4, <1>8, <2>1, <2>2, <2>3 DEF NjuInv

LEMMA UnreachableInv ==
  ASSUME NjuInv, HostUnreachable
  PROVE  NjuInv'
  <1>1. where = "unreach" /\ UNCHANGED <<lab, accepted, thrown>> /\ \A i \in Id : NjuOne(i)
    BY DEF HostUnreachable, NjuInv
  <1>2. CASE unreach = << >>
    <2>1. where' = "resend" /\ UNCHANGED <<arpSend, unreach, left>>
      BY <1>2 DEF HostUnreachable
    <2>2. \A i \in Id : NjuOne(i)'
      BY <1>1, <2>1 DEF NjuOne, Alone
    <2> QED
      BY <1>1, <1>2, <2>1, <2>2 DEF NjuInv
  <1>3. CASE unreach # << >>
    <2> DEFINE h == unreach[1]
               p == Error(h)
    <2>1. /\ SendIp(Error(Head(unreach)), "unreach") /\ unreach' = RemoveAt(unreach, 1)
          /\ 1 \in 1 .. Len(unreach) /\ Head(unreach) = h /\ unreach \in Seq(NjuPacket)
      BY <1>3, TailIsRemoval DEF HostUnreachable, NjuInv
    <2>2. h \in NjuPacket /\ h.id \in Id /\ In(h.id, unreach)
      <3>1. 1 \in DOMAIN unreach
        BY <2>1, LenProperties
      <3> QED
        BY <2>1, <3>1, PacketOf DEF In
    <2>3. p \in NjuPacket /\ p.id = h.id /\ p.ttl # 0
      BY <2>2, TableAssumption DEF NjuPacket, Error
    <2> HIDE DEF p, h
    <2>4. ~ Holds(arpSend, p.id) /\ left[p.id] = 0
      BY <1>1, <2>2, <2>3 DEF NjuInv, NjuOne, Alone
    <2>5. /\ Queue(arpSend') /\ Ages(arpSend') /\ left' \in [Id -> {0, 1}]
          /\ where' = "crashed" \/
               /\ where' = "unreach"
               /\ \A i \in Id : i # p.id =>
                    (Holds(arpSend', i) <=> Holds(arpSend, i)) /\ left'[i] = left[i]
               /\ Holds(arpSend', p.id) <=> left'[p.id] = 0
      BY <2>1, <2>3, <2>4, SentIp DEF NjuInv, p
    <2>6. /\ unreach' \in Seq(NjuPacket) /\ Once(unreach')
          /\ \A i : In(i, unreach') <=> In(i, unreach) /\ i # h.id
      <3>1. /\ unreach' \in Seq(NjuPacket) /\ DOMAIN unreach' = 1 .. Len(unreach) - 1
            /\ DOMAIN unreach = 1 .. Len(unreach) /\ Len(unreach) \in Nat
            /\ \A j \in 1 .. Len(unreach) - 1 : unreach'[j] = unreach[j + 1]
        <4>1. \A j \in 1 .. Len(unreach) - 1 : ~ (j < 1)
          OBVIOUS
        <4> QED
          BY <2>1, <4>1, Removal
      <3>2. \A j, m \in DOMAIN unreach : unreach[j].id = unreach[m].id => j = m
        BY DEF NjuInv, Once
      <3>3. Once(unreach')
        <4>1. \A j \in 1 .. Len(unreach) - 1 : j + 1 \in 1 .. Len(unreach)
          BY <3>1
        <4>2. \A j, m \in 1 .. Len(unreach) - 1 : unreach'[j].id = unreach'[m].id => j + 1 = m + 1
          BY <3>1, <3>2, <4>1
        <4> QED
          BY <3>1, <4>2 DEF Once
      <3>4. ASSUME NEW i, In(i, unreach')
            PROVE  In(i, unreach) /\ i # h.id
        <4>1. PICK j \in 1 .. Len(unreach) - 1 : unreach[j + 1].id = i
          BY <3>1, <3>4 DEF In
        <4> QED
          BY <2>1, <3>1, <3>2, <4>1 DEF In, h
      <3>5. ASSUME NEW i, In(i, unreach), i # h.id
            PROVE  In(i, unreach')
        <4>1. PICK j \in 1 .. Len(unreach) : unreach[j].id = i
          BY <3>1, <3>5 DEF In
        <4>2. j # 1
          BY <3>5, <4>1 DEF h
        <4>3. j - 1 \in 1 .. Len(unreach) - 1 /\ unreach'[j - 1] = unreach[j]
          BY <3>1, <4>1, <4>2
        <4> QED
          BY <3>1, <4>1, <4>3 DEF In
      <3> QED
        BY <3>1, <3>3, <3>4, <3>5
    <2>7. where' # "crashed" => \A i \in Id : NjuOne(i)'
      <3> SUFFICES ASSUME where' # "crashed", NEW i \in Id PROVE NjuOne(i)'
        OBVIOUS
      <3>1. NjuOne(i) /\ left'[i] \in {0, 1}
        BY <1>1, <2>5
      <3> QED
        BY <1>1, <2>2, <2>3, <2>4, <2>5, <2>6, <3>1 DEF NjuOne, Alone
    <2> QED
      BY <1>1, <2>5, <2>6, <2>7 DEF NjuInv
  <1> QED
    BY <1>2, <1>3

\* r is q with the ages changed.
LEMMA SameEntries ==
  ASSUME NEW q, Queue(q), NEW r \in Seq(NjuEntry), DOMAIN r = DOMAIN q,
         \A m \in DOMAIN q :
           r[m].key = q[m].key /\ r[m].packs = q[m].packs /\ r[m].intf = q[m].intf
  PROVE  Queue(r) /\ \A i : Holds(r, i) <=> Holds(q, i)
  <1> DEFINE f == [m \in DOMAIN q |-> m]
  <1>1. Queue(r) /\ \A i : Holds(r, i) <=> \E m \in DOMAIN r : In(i, q[f[m]].packs)
    <2>1. /\ f \in [DOMAIN r -> DOMAIN q]
          /\ \A m, n \in DOMAIN r : f[m] = f[n] => m = n
          /\ \A m \in DOMAIN r : f[m] = m
      OBVIOUS
    <2> HIDE DEF f
    <2>2. \A m \in DOMAIN r :
            r[m].key = q[f[m]].key /\ r[m].packs = q[f[m]].packs /\ r[m].intf = q[f[m]].intf
      BY <2>1
    <2> QED
      BY <2>1, <2>2, Rearranged
  <1> QED
    BY <1>1 DEF Holds

LEMMA Older ==
  ASSUME NEW q, Queue(q), Ages(q), NEW r,
         r = [k \in DOMAIN q |-> [q[k] EXCEPT !.age = IF @ < RetryAge THEN @ + 1 ELSE @]]
  PROVE  Queue(r) /\ Ages(r) /\ \A i : Holds(r, i) <=> Holds(q, i)
  <1> DEFINE old(a) == IF a < RetryAge THEN a + 1 ELSE a
  <1>1. r = [k \in DOMAIN q |-> [q[k] EXCEPT !.age = old(q[k].age)]]
    OBVIOUS
  <1>2. q \in Seq(NjuEntry) /\ DOMAIN q = 1 .. Len(q) /\ Len(q) \in Nat
    BY LenProperties DEF Queue
  <1>3. /\ \A a \in 0 .. RetryAge : old(a) \in 0 .. RetryAge
        /\ \A a, b \in 0 .. RetryAge : a <= b => old(a) <= old(b)
        /\ old(RetryAge) = RetryAge
    BY BoundsAssumption
  <1> HIDE DEF old
  <1>4. \A k \in DOMAIN q : /\ r[k] \in NjuEntry /\ r[k].age = old(q[k].age)
                            /\ r[k].key = q[k].key /\ r[k].packs = q[k].packs
                            /\ r[k].intf = q[k].intf /\ r[k].remain = q[k].remain
    <2> TAKE k \in DOMAIN q
    <2>1. q[k] \in NjuEntry /\ old(q[k].age) \in 0 .. RetryAge
      BY <1>2, <1>3, EntryOf
    <2> QED
      BY <1>1, <2>1 DEF NjuEntry
  <1>5. r \in Seq(NjuEntry) /\ DOMAIN r = DOMAIN q
    <2>1. r \in [1 .. Len(q) -> NjuEntry]
      BY <1>1, <1>2, <1>4
    <2> QED
      BY <1>2, <2>1, SeqDef
  <1>6. Queue(r) /\ \A i : Holds(r, i) <=> Holds(q, i)
    BY <1>4, <1>5, SameEntries
  <1>7. Ages(r)
    <2>1. \A k \in DOMAIN q : q[k].age \in 0 .. RetryAge
      BY <1>2, EntryOf
    <2>2. \A k \in DOMAIN r : r[k].remain = ArpTries => r[k].age = RetryAge
      BY <1>3, <1>4, <1>5 DEF Ages
    <2>3. \A k, l \in DOMAIN r :
            k < l /\ r[k].remain < ArpTries /\ r[l].remain < ArpTries => r[l].age <= r[k].age
      <3> TAKE k, l \in DOMAIN r
      <3> HAVE k < l /\ r[k].remain < ArpTries /\ r[l].remain < ArpTries
      <3>1. q[l].age <= q[k].age
        BY <1>4, <1>5 DEF Ages
      <3>2. q[l].age \in 0 .. RetryAge /\ q[k].age \in 0 .. RetryAge
        BY <1>5, <2>1
      <3>3. old(q[l].age) <= old(q[k].age)
        BY <1>3, <3>1, <3>2
      <3>4. r[l].age = old(q[l].age) /\ r[k].age = old(q[k].age)
        BY <1>4, <1>5
      <3> QED
        BY <3>3, <3>4
    <2> QED
      BY <2>2, <2>3 DEF Ages
  <1> QED
    BY <1>6, <1>7

LEMMA NjuTickInv ==
  ASSUME NjuInv, NjuTick
  PROVE  NjuInv'
  <1>1. /\ arpSend' = [k \in DOMAIN arpSend |->
                        [arpSend[k] EXCEPT !.age = IF @ < RetryAge THEN @ + 1 ELSE @]]
        /\ UNCHANGED <<lab, unreach, where, accepted, left, thrown>>
    BY DEF NjuTick
  <1>2. Queue(arpSend') /\ Ages(arpSend') /\ \A i : Holds(arpSend', i) <=> Holds(arpSend, i)
    BY <1>1, Older DEF NjuInv
  <1>3. where # "crashed" => \A i \in Id : NjuOne(i)'
    BY <1>1, <1>2 DEF NjuInv, NjuOne, Alone
  <1> QED
    BY <1>1, <1>2, <1>3 DEF NjuInv

LEMMA NjuQuietInv ==
  ASSUME NjuInv, UNCHANGED <<lab, arpSend, unreach, accepted, left, thrown>>,
         where \notin {"unreach", "crashed"} \/ where' = where
  PROVE  NjuInv'
  <1>1. where' # "crashed" => where # "crashed"
    OBVIOUS
  <1>2. where # "crashed" => \A i \in Id : NjuOne(i)'
    BY DEF NjuInv, NjuOne, Alone
  <1> QED
    BY <1>1, <1>2 DEF NjuInv

LEMMA NjuStart ==
  /\ NjuInit \/ NjuOff => NjuInv
  /\ NjuInv /\ [NjuNext]_njuVars => NjuInv'
  <1>1. NjuInit \/ NjuOff => NjuInv
    <2> SUFFICES ASSUME NjuInit \/ NjuOff PROVE NjuInv
      OBVIOUS
    <2>1. /\ arpSend = << >> /\ unreach = << >> /\ accepted = 0 /\ left = [i \in Id |-> 0]
          /\ thrown = {}
      BY DEF NjuInit, NjuOff, Id
    <2>2. Queue(arpSend) /\ Ages(arpSend) /\ unreach \in Seq(NjuPacket) /\ Once(unreach)
      BY <2>1 DEF Queue, Ages, Once
    <2>3. \A i \in Id : NjuOne(i)
      BY <2>1 DEF NjuOne, Alone, Holds, In, Id
    <2> QED
      BY <2>1, <2>2, <2>3 DEF NjuInv
  <1>2. NjuInv /\ [NjuNext]_njuVars => NjuInv'
    <2> SUFFICES ASSUME NjuInv, [NjuNext]_njuVars PROVE NjuInv'
      OBVIOUS
    <2>1. CASE NjuHandleIp
      BY <2>1, NjuIpInv
    <2>2. CASE HandleArpRequest
      BY <2>2, NjuQuietInv DEF HandleArpRequest
    <2>3. CASE HandleArpReply
      BY <2>3, ReplyInv
    <2>4. CASE NjuNoPackets
      BY <2>4, NjuQuietInv DEF NjuNoPackets
    <2>5. CASE ResendArp
      BY <2>5, ResendInv
    <2>6. CASE GiveUp \/ Lab4GiveUp
      BY <2>6, GiveUpInv
    <2>7. CASE HostUnreachable
      BY <2>7, UnreachableInv
    <2>8. CASE ResendDone
      BY <2>8, NjuQuietInv DEF ResendDone
    <2>9. CASE NjuTick
      BY <2>9, NjuTickInv
    <2>10. CASE UNCHANGED njuVars
      BY <2>10, NjuQuietInv DEF njuVars
    <2> QED
      BY <2>1, <2>2, <2>3, <2>4, <2>5, <2>6, <2>7, <2>8, <2>9, <2>10 DEF NjuNext, NjuStep
  <1> QED
    BY <1>1, <1>2
-----------------------------------------------------------------------------
\* What the invariant says of the NJU router.
LEMMA NjuConserves ==
  NjuInv => NothingLostOrDoubled
  <1> SUFFICES ASSUME NjuInv, where # "crashed", NEW i \in Id
               PROVE  NjuWaits(i) + left[i] + Cardinality({i} \cap thrown)
                        = IF i <= accepted THEN 1 ELSE 0
    BY DEF NjuInv, NothingLostOrDoubled
  <1>1. NjuOne(i) /\ left[i] \in {0, 1} /\ Queue(arpSend) /\ Once(unreach)
    BY DEF NjuInv
  <1>2. WaitsAt(i, DOMAIN arpSend) = IF Holds(arpSend, i) THEN 1 ELSE 0
    BY <1>1, WaitsOnce DEF Holds
  <1>3. Cardinality(Places(i, unreach)) = IF In(i, unreach) THEN 1 ELSE 0
    <2>1. CASE In(i, unreach)
      <3>1. PICK j \in DOMAIN unreach : unreach[j].id = i
        BY <2>1 DEF In
      <3>2. Places(i, unreach) = {j}
        BY <1>1, <3>1 DEF Places, Once
      <3> QED
        BY <2>1, <3>2, FS_Singleton
    <2>2. CASE ~ In(i, unreach)
      <3>1. Places(i, unreach) = {}
        BY <2>2 DEF In, Places
      <3> QED
        BY <2>2, <3>1, FS_EmptySet
    <2> QED
      BY <2>1, <2>2
  <1>4. Cardinality({i} \cap thrown) = IF i \in thrown THEN 1 ELSE 0
    <2>1. {i} \cap thrown = IF i \in thrown THEN {i} ELSE {}
      OBVIOUS
    <2> QED
      BY <2>1, FS_Singleton, FS_EmptySet
  <1> QED
    BY <1>1, <1>2, <1>3, <1>4 DEF NjuWaits, NjuOne, Alone

LEMMA NjuFollows ==
  NjuInv /\ OneIntfPerHop => QueueFollowsRoutes
  <1> SUFFICES ASSUME NjuInv, OneIntfPerHop
               PROVE  QueueMatchesRoutes /\ MostSpecificRoute
    BY DEF QueueFollowsRoutes
  <1>1. Queue(arpSend)
    BY DEF NjuInv
  <1>2. ASSUME NEW k \in DOMAIN arpSend, NEW j \in DOMAIN arpSend[k].packs
        PROVE  LET dst == arpSend[k].packs[j].dst
               IN  /\ dst \in Addr /\ Routable(dst) /\ NextHop(dst) = arpSend[k].key
                   /\ Route(dst).intf = arpSend[k].intf
    <2>1. arpSend[k].packs \in Seq(NjuPacket) /\ ByRoute(arpSend[k])
      BY <1>1, EntryOf DEF Queue
    <2> QED
      BY <2>1, PacketOf DEF ByRoute
  <1>3. QueueMatchesRoutes
    BY <1>1, <1>2 DEF QueueMatchesRoutes, Queue
  <1>4. MostSpecificRoute
    <2> SUFFICES ASSUME NEW k \in DOMAIN arpSend, NEW j \in DOMAIN arpSend[k].packs,
                        NEW dst, dst = arpSend[k].packs[j].dst
                 PROVE  \E m \in Matches(dst) :
                          /\ arpSend[k].key = IF Table[m].hop = Zero THEN dst ELSE Table[m].hop
                          /\ \A l \in Matches(dst) : Table[l].len <= Table[m].len
      BY DEF MostSpecificRoute
    <2>1. dst \in Addr /\ Routable(dst) /\ NextHop(dst) = arpSend[k].key
      BY <1>2
    <2>2. /\ Best(dst) \in Matches(dst)
          /\ \A l \in Matches(dst) : Table[l].len <= Table[Best(dst)].len
      BY <2>1, BestRoute
    <2>3. arpSend[k].key = IF Table[Best(dst)].hop = Zero THEN dst ELSE Table[Best(dst)].hop
      BY <2>1 DEF NextHop, Route
    <2> QED
      BY <2>2, <2>3
  <1> QED
    BY <1>3, <1>4

\* The head is as old as any entry that has been asked for.
LEMMA HeadIsOldest ==
  ASSUME NjuInv, ResendDone, NEW k \in DOMAIN arpSend
  PROVE  arpSend[k].remain = ArpTries \/ arpSend[k].age < RetryAge
  <1>1. /\ arpSend \in Seq(NjuEntry) /\ Ages(arpSend) /\ DOMAIN arpSend = 1 .. Len(arpSend)
        /\ Len(arpSend) \in Nat
    BY LenProperties DEF NjuInv, Queue
  <1>2. 1 \in DOMAIN arpSend /\ 1 <= k /\ arpSend # << >> /\ Head(arpSend) = arpSend[1]
    BY <1>1, EmptySeq
  <1>3. ~ (arpSend[1].age >= RetryAge)
    BY <1>2 DEF ResendDone, HeadDue
  <1>4. \A l \in DOMAIN arpSend :
          arpSend[l].age \in 0 .. RetryAge /\ arpSend[l].remain \in 0 .. ArpTries
    BY <1>1, EntryOf
  <1>5. CASE k = 1
    BY <1>2, <1>3, <1>4, <1>5, BoundsAssumption
  <1>6. CASE k # 1
    <2> SUFFICES ASSUME arpSend[k].remain # ArpTries
                 PROVE  arpSend[k].age < RetryAge
      OBVIOUS
    <2>1. arpSend[k].remain < ArpTries
      BY <1>4, BoundsAssumption
    <2>2. arpSend[1].remain # ArpTries
      BY <1>1, <1>2, <1>3, BoundsAssumption DEF Ages
    <2>3. arpSend[1].remain < ArpTries
      BY <1>2, <1>4, <2>2, BoundsAssumption
    <2>4. 1 < k
      BY <1>1, <1>2, <1>6
    <2>5. arpSend[k].age <= arpSend[1].age
      BY <1>1, <1>2, <2>1, <2>3, <2>4 DEF Ages
    <2> QED
      BY <1>2, <1>3, <1>4, <2>5, BoundsAssumption
  <1> QED
    BY <1>5, <1>6
-----------------------------------------------------------------------------
(***************************************************************************)
(* The routers of LabRouters.  What a handler makes of the queue is a      *)
(* Result; it is Good if nothing of the queue, nor the packet new, is in   *)
(* two places of it or in none (new is 0 if there is none), and nothing    *)
(* left it unasked.  known are the addresses known then.                   *)
(***************************************************************************)
Waiter ==
  [p : Packet, hop : Addr, intf : Intf, dev : Intf, tries : Nat, age : Nat,
   arpSent : BOOLEAN, asked : Nat]

\* No try is counted that was not made.
Cell == {e \in Waiter : e.tries <= e.asked}

Unique(q) == \A k, l \in DOMAIN q : q[k].p.id = q[l].p.id => k = l

Queued(q, i) == \E k \in DOMAIN q : q[k].p.id = i

Among(i, packets) == \E k \in packets : k.id = i

Kept(q, r, known) ==
  \A k \in DOMAIN q : \/ \E j \in DOMAIN r : r[j].p = q[k].p
                      \/ q[k].hop \in known
                      \/ q[k].asked >= ArpTries

Placed(r, q, new) ==
  \A i \in Id :
    /\ ~ (Queued(r.queue, i) /\ Among(i, r.out))
    /\ ~ (Queued(r.queue, i) /\ Among(i, r.lost))
    /\ ~ (Among(i, r.out) /\ Among(i, r.lost))
    /\ Queued(r.queue, i) \/ Among(i, r.out) \/ Among(i, r.lost) <=> Queued(q, i) \/ i = new

Good(r, q, new, known) ==
  /\ r.queue \in Seq(Cell) /\ Unique(r.queue)
  /\ Kept(q, r.queue, known)
  /\ r.ends => Placed(r, q, new)
  /\ ~ r.ends => r.out = {}

LabOne(i) ==
  /\ ~ (Queued(queue, i) /\ sent[i] = 1)
  /\ ~ (Queued(queue, i) /\ i \in dropped)
  /\ ~ (sent[i] = 1 /\ i \in dropped)
  /\ Queued(queue, i) \/ sent[i] = 1 \/ i \in dropped <=> i <= received

Tables == table \in Seq(Row) /\ (program \in {"m4", "m5"} => table # << >>)

LabInv ==
  /\ Tables
  /\ queue \in Seq(Cell) /\ Unique(queue)
  /\ at \in Nat \ {0} /\ received \in Nat /\ sent \in [Id -> {0, 1}]
  /\ pc # "crashed" => \A i \in Id : LabOne(i)
  /\ program \in {"hh5", "m5"} => dropped = {}

-----------------------------------------------------------------------------
LEMMA CellOf ==
  ASSUME NEW q \in Seq(Cell), NEW k \in DOMAIN q
  PROVE  q[k] \in Waiter /\ q[k].tries <= q[k].asked /\ q[k].p \in Packet /\ q[k].p.id \in Id
  <1>1. q[k] \in Cell
    BY LenProperties, ElementOfSeq
  <1> QED
    BY <1>1 DEF Cell, Waiter, Packet

\* A packet that waits for the row's next hop.
LEMMA WaitingIsCell ==
  ASSUME NEW p \in Packet, NEW row \in Row, NEW dev \in Intf
  PROVE  Waiting(p, row, dev) \in Cell /\ Waiting(p, row, dev).p = p
  <1>1. HopOf(row, p.dst) \in Addr /\ row.intf \in Intf
    BY DEF HopOf, Row, Packet
  <1> QED
    BY <1>1 DEF Waiting, Cell, Waiter

LEMMA RowsFound ==
  ASSUME Tables, NEW dst
  PROVE  /\ HhMatches(dst) # {} => HhRow(dst) \in Row
         /\ program \in {"m4", "m5"} => MRow(dst) \in Row
  <1>1. table \in Seq(Row) /\ DOMAIN table = 1 .. Len(table) /\ Len(table) \in Nat
    BY LenProperties DEF Tables
  <1>2. ASSUME NEW S, S \subseteq DOMAIN table, S # {}
        PROVE  table[FirstLongest(S)] \in Row
    <2>1. \E i \in S : \A j \in S :
            table[j].len < table[i].len \/ (table[j].len = table[i].len /\ i <= j)
      BY <1>1, <1>2, LongestExists
    <2>2. FirstLongest(S) \in S
      BY <2>1 DEF FirstLongest
    <2> QED
      BY <1>1, <1>2, <2>2, ElementOfSeq
  <1>3. HhMatches(dst) # {} => HhRow(dst) \in Row
    BY <1>2 DEF HhMatches, HhRow
  <1>4. ASSUME program \in {"m4", "m5"}
        PROVE  MRow(dst) \in Row
    <2>1. CASE MMatches(dst) = {}
      <3>1. Len(table) \in 1 .. Len(table)
        BY <1>1, <1>4, EmptySeq DEF Tables
      <3> QED
        BY <1>1, <2>1, <3>1, ElementOfSeq DEF MRow, Last
    <2>2. CASE MMatches(dst) # {}
      BY <1>2, <2>2 DEF MMatches, MRow
    <2> QED
      BY <2>1, <2>2
  <1> QED
    BY <1>3, <1>4

LEMMA SomeIntf ==
  (CHOOSE i \in Intf : TRUE) \in Intf
  <1>1. Len(IntfRoutes) \in Nat \ {0}
    BY RoutesAssumption, EmptySeq
  <1>2. IntfRoutes[1] \in Row
    BY <1>1, RoutesAssumption, ElementOfSeq
  <1>3. \E i \in Intf : TRUE
    BY <1>2 DEF Row
  <1> QED
    BY <1>3

-----------------------------------------------------------------------------
\* The three things that are done to the queue: entries are changed, one is taken
\* out, one is added.
LEMMA Changed ==
  ASSUME NEW q \in Seq(Cell), Unique(q), NEW r, DOMAIN r = DOMAIN q, NEW n,
         r \in [1 .. n -> Cell], n \in Nat, \A k \in DOMAIN q : r[k].p = q[k].p, NEW known
  PROVE  /\ r \in Seq(Cell) /\ Unique(r) /\ Kept(q, r, known)
         /\ \A i : Queued(r, i) <=> Queued(q, i)
  <1>1. r \in Seq(Cell)
    BY SeqDef
  <1> QED
    BY <1>1 DEF Unique, Kept, Queued

LEMMA TakenOut ==
  ASSUME NEW q \in Seq(Cell), Unique(q), NEW k \in 1 .. Len(q), NEW known,
         q[k].hop \in known \/ q[k].tries >= ArpTries
  PROVE  LET r == RemoveAt(q, k)
         IN  /\ r \in Seq(Cell) /\ Unique(r) /\ Kept(q, r, known)
             /\ \A i : Queued(r, i) <=> Queued(q, i) /\ i # q[k].p.id
             /\ Queued(q, q[k].p.id) /\ q[k].p.id \in Id
  <1> DEFINE r == RemoveAt(q, k)
  <1>1. /\ r \in Seq(Cell) /\ DOMAIN r = 1 .. Len(q) - 1 /\ DOMAIN q = 1 .. Len(q)
        /\ Len(q) \in Nat
        /\ \A m \in 1 .. Len(q) - 1 : r[m] = IF m < k THEN q[m] ELSE q[m + 1]
    BY Removal
  <1> HIDE DEF r
  <1>2. q[k] \in Waiter /\ q[k].tries <= q[k].asked /\ q[k].p.id \in Id
    BY <1>1, CellOf
  <1>3. q[k].hop \in known \/ q[k].asked >= ArpTries
    <2>1. q[k].tries \in Nat /\ q[k].asked \in Nat
      BY <1>2 DEF Waiter
    <2> QED
      BY <1>2, <2>1, BoundsAssumption
  <1>4. ASSUME NEW l \in DOMAIN q, l # k
        PROVE  \E m \in DOMAIN r : r[m] = q[l]
    <2>1. CASE l < k
      <3>1. l \in 1 .. Len(q) - 1
        BY <1>1, <2>1
      <3> QED
        BY <1>1, <2>1, <3>1
    <2>2. CASE ~ (l < k)
      <3>1. l - 1 \in 1 .. Len(q) - 1 /\ ~ (l - 1 < k) /\ (l - 1) + 1 = l
        BY <1>1, <1>4, <2>2
      <3> QED
        BY <1>1, <3>1
    <2> QED
      BY <2>1, <2>2
  <1>5. \A m \in DOMAIN r : \E l \in DOMAIN q : l # k /\ r[m] = q[l] /\ l = IF m < k THEN m ELSE m + 1
    BY <1>1
  <1>6. Unique(r)
    <2> SUFFICES ASSUME NEW a \in DOMAIN r, NEW b \in DOMAIN r, r[a].p.id = r[b].p.id
                 PROVE  a = b
      BY DEF Unique
    <2>1. (IF a < k THEN a ELSE a + 1) = (IF b < k THEN b ELSE b + 1)
      BY <1>5 DEF Unique
    <2> QED
      BY <1>1, <2>1
  <1>7. Kept(q, r, known)
    BY <1>3, <1>4 DEF Kept
  <1>8. \A i : Queued(r, i) <=> Queued(q, i) /\ i # q[k].p.id
    <2>1. ASSUME NEW m \in DOMAIN r
          PROVE  Queued(q, r[m].p.id) /\ r[m].p.id # q[k].p.id
      BY <1>1, <1>5 DEF Queued, Unique
    <2>2. ASSUME NEW l \in DOMAIN q, q[l].p.id # q[k].p.id
          PROVE  Queued(r, q[l].p.id)
      <3>1. l # k
        BY <2>2
      <3> QED
        BY <1>4, <3>1 DEF Queued
    <2> QED
      BY <2>1, <2>2 DEF Queued
  <1>9. Queued(q, q[k].p.id)
    BY <1>1 DEF Queued
  <1> QED
    BY <1>1, <1>2, <1>6, <1>7, <1>8, <1>9 DEF r

LEMMA Added ==
  ASSUME NEW q \in Seq(Cell), Unique(q), NEW e \in Cell, ~ Queued(q, e.p.id)
  PROVE  LET r == Append(q, e)
         IN  /\ r \in Seq(Cell) /\ Unique(r)
             /\ \A i : Queued(r, i) <=> Queued(q, i) \/ i = e.p.id
             /\ \A k \in DOMAIN q : \E j \in DOMAIN r : r[j] = q[k]
  <1> DEFINE r == Append(q, e)
  <1>1. /\ r \in Seq(Cell) /\ Len(r) = Len(q) + 1 /\ r[Len(q) + 1] = e
        /\ \A k \in 1 .. Len(q) : r[k] = q[k]
    BY AppendProperties
  <1>2. /\ DOMAIN q = 1 .. Len(q) /\ DOMAIN r = 1 .. Len(q) + 1 /\ Len(q) \in Nat
    BY <1>1, LenProperties
  <1> HIDE DEF r
  <1>3. \A k \in DOMAIN r : k \in DOMAIN q \/ k = Len(q) + 1
    BY <1>2
  <1>4. \A k \in DOMAIN q : k \in DOMAIN r /\ r[k] = q[k]
    BY <1>1, <1>2
  <1>5. Len(q) + 1 \in DOMAIN r
    BY <1>2
  <1>6. \A k \in DOMAIN q : q[k].p.id # e.p.id
    BY DEF Queued
  <1>7. Unique(r)
    BY <1>1, <1>3, <1>4, <1>6 DEF Unique
  <1>8. \A i : Queued(r, i) <=> Queued(q, i) \/ i = e.p.id
    BY <1>1, <1>3, <1>4, <1>5 DEF Queued
  <1> QED
    BY <1>1, <1>4, <1>7, <1>8 DEF r
-----------------------------------------------------------------------------
\* forward_packet of hh5: the recursion does not end, or the packet, or an error
\* with its number, leaves or is queued.
LEMMA Forwarded ==
  ASSUME Tables, NEW q, NEW packet \in Packet, NEW known
  PROVE  LET r == Hh5Forward(packet, q, known)
         IN  \/ r = Result(q, {}, {}, FALSE)
             \/ \E x : x.id = packet.id /\ r = Result(q, {x}, {}, TRUE)
             \/ \E e \in Cell : e.p.id = packet.id /\ r = Result(Append(q, e), {}, {}, TRUE)
  <1> DEFINE p == Hh5ToForward(packet)
             e == Waiting([p EXCEPT !.ttl = @ - 1], HhRow(p.dst), CHOOSE i \in Intf : TRUE)
             r == Hh5Forward(packet, q, known)
  <1>1. CASE ~ Hh5Ends(packet)
    BY <1>1 DEF Hh5Forward
  <1>2. CASE Hh5Ends(packet)
    <2>1. p \in Packet /\ p.id = packet.id /\ p.ttl > 1 /\ HhMatches(p.dst) # {}
      <3>1. \A x \in Packet : /\ HhError(x) \in Packet /\ HhError(x).id = x.id
                              /\ HhError(x).ttl = 64 /\ HhError(x).dst = x.src
                              /\ HhError(x).src = x.dst
        BY DEF Packet, HhError
      <3>2. HhError(HhError(packet)).dst = packet.dst
        BY <3>1
      <3> QED
        BY <1>2, <3>1, <3>2 DEF Hh5ToForward, Hh5Ends, Hh5Forwardable
    <2> HIDE DEF p
    <2>2. [p EXCEPT !.ttl = @ - 1] \in Packet /\ [p EXCEPT !.ttl = @ - 1].id = packet.id
      <3>1. p.ttl - 1 \in 0 .. 64
        BY <2>1 DEF Packet
      <3> QED
        BY <2>1, <3>1 DEF Packet
    <2>3. e \in Cell /\ e.p.id = packet.id
      BY <2>1, <2>2, RowsFound, SomeIntf, WaitingIsCell
    <2>4. Hh5Leaving(p).id = packet.id
      BY <2>1 DEF Hh5Leaving, Packet
    <2>5. r = IF e.hop \in known THEN Result(q, {Hh5Leaving(p)}, {}, TRUE)
              ELSE Result(Append(q, e), {}, {}, TRUE)
      BY <1>2 DEF Hh5Forward, p
    <2> HIDE DEF e, r
    <2>6. CASE e.hop \in known
      BY <2>4, <2>5, <2>6 DEF r
    <2>7. CASE e.hop \notin known
      BY <2>3, <2>5, <2>7 DEF r
    <2> QED
      BY <2>6, <2>7
  <1> QED
    BY <1>1, <1>2

\* The packet taken out at k leaves, as itself or as another of its number, or is
\* thrown away.
LEMMA TakenOutGood ==
  ASSUME NEW q \in Seq(Cell), Unique(q), NEW k \in 1 .. Len(q), NEW known,
         q[k].hop \in known \/ q[k].tries >= ArpTries, NEW x, x.id = q[k].p.id
  PROVE  /\ Good(Result(RemoveAt(q, k), {x}, {}, TRUE), q, 0, known)
         /\ Good(Result(RemoveAt(q, k), {}, {x}, TRUE), q, 0, known)
  <1>1. /\ RemoveAt(q, k) \in Seq(Cell) /\ Unique(RemoveAt(q, k))
        /\ Kept(q, RemoveAt(q, k), known)
        /\ \A i : Queued(RemoveAt(q, k), i) <=> Queued(q, i) /\ i # q[k].p.id
        /\ Queued(q, q[k].p.id)
    BY TakenOut
  <1>2. 0 \notin Id
    BY DEF Id
  <1>3. \A i : Among(i, {x}) <=> i = q[k].p.id
    BY DEF Among
  <1>4. \A i : ~ Among(i, {})
    BY DEF Among
  <1> QED
    BY <1>1, <1>2, <1>3, <1>4 DEF Good, Placed, Result

\* Nothing leaves, and a new packet may be queued.
LEMMA StaysGood ==
  ASSUME NEW q \in Seq(Cell), Unique(q), NEW known, NEW r \in Seq(Cell), Unique(r),
         Kept(q, r, known), NEW new, \A i \in Id : Queued(r, i) <=> Queued(q, i) \/ i = new
  PROVE  Good(Result(r, {}, {}, TRUE), q, new, known)
  BY DEF Good, Placed, Result, Among

\* A new packet leaves at once, or is thrown away.
LEMMA PassesGood ==
  ASSUME NEW q \in Seq(Cell), Unique(q), NEW known, NEW x, ~ Queued(q, x.id)
  PROVE  /\ Good(Result(q, {x}, {}, TRUE), q, x.id, known)
         /\ Good(Result(q, {}, {x}, TRUE), q, x.id, known)
  <1>1. Kept(q, q, known)
    BY DEF Kept
  <1>2. \A i : (Among(i, {x}) <=> i = x.id) /\ ~ Among(i, {})
    BY DEF Among
  <1> QED
    BY <1>1, <1>2 DEF Good, Placed, Result

LEMMA QueuedGood ==
  ASSUME NEW q \in Seq(Cell), Unique(q), NEW known, NEW e \in Cell, ~ Queued(q, e.p.id)
  PROVE  Good(Result(Append(q, e), {}, {}, TRUE), q, e.p.id, known)
  <1>1. /\ Append(q, e) \in Seq(Cell) /\ Unique(Append(q, e))
        /\ \A i : Queued(Append(q, e), i) <=> Queued(q, i) \/ i = e.p.id
        /\ \A k \in DOMAIN q : \E j \in DOMAIN Append(q, e) : Append(q, e)[j] = q[k]
    BY Added
  <1>2. Kept(q, Append(q, e), known)
    BY <1>1 DEF Kept
  <1> QED
    BY <1>1, <1>2, StaysGood

LEMMA CrashGood ==
  ASSUME NEW q, NEW new, NEW known, NEW r \in Seq(Cell), Unique(r), Kept(q, r, known)
  PROVE  Good(Result(r, {}, {}, FALSE), q, new, known)
  BY DEF Good, Result

\* What hh5 makes of a packet received.
LEMMA Hh5NewGood ==
  ASSUME Tables, NEW q \in Seq(Cell), Unique(q), NEW known, NEW packet \in Packet,
         ~ Queued(q, packet.id), NEW r, r = Hh5Forward(packet, q, known)
  PROVE  Good(r, q, packet.id, known) /\ r.lost = {}
  <1>1. \/ r = Result(q, {}, {}, FALSE)
        \/ \E x : x.id = packet.id /\ r = Result(q, {x}, {}, TRUE)
        \/ \E e \in Cell : e.p.id = packet.id /\ r = Result(Append(q, e), {}, {}, TRUE)
    BY Forwarded
  <1>2. CASE r = Result(q, {}, {}, FALSE)
    <2>1. Kept(q, q, known)
      BY DEF Kept
    <2> QED
      BY <1>2, <2>1, CrashGood DEF Result
  <1>3. CASE \E x : x.id = packet.id /\ r = Result(q, {x}, {}, TRUE)
    <2>1. PICK x : x.id = packet.id /\ r = Result(q, {x}, {}, TRUE)
      BY <1>3
    <2>2. Good(Result(q, {x}, {}, TRUE), q, x.id, known)
      BY <2>1, PassesGood
    <2> QED
      BY <2>1, <2>2 DEF Result
  <1>4. CASE \E e \in Cell : e.p.id = packet.id /\ r = Result(Append(q, e), {}, {}, TRUE)
    BY <1>4, QueuedGood DEF Result
  <1> QED
    BY <1>1, <1>2, <1>3, <1>4

-----------------------------------------------------------------------------
\* A request for hop, in whose count the entries of hop join.
LEMMA AskedGood ==
  ASSUME NEW q \in Seq(Cell), Unique(q), NEW known, NEW hop, NEW s, DOMAIN s = DOMAIN q,
         \A k \in DOMAIN q :
           /\ s[k] \in Waiter /\ s[k].p = q[k].p
           /\ \/ s[k].tries <= s[k].asked
              \/ s[k].hop = hop /\ s[k].tries <= s[k].asked + 1
  PROVE  Good(Result(Asked(s, hop), {}, {}, TRUE), q, 0, known)
  <1> DEFINE r == Asked(s, hop)
  <1>1. DOMAIN q = 1 .. Len(q) /\ Len(q) \in Nat
    BY LenProperties
  <1>2. DOMAIN r = DOMAIN q /\ \A k \in DOMAIN q : r[k] \in Cell /\ r[k].p = q[k].p
    <2>1. DOMAIN r = DOMAIN q
      BY DEF Asked
    <2>2. ASSUME NEW k \in DOMAIN q
          PROVE  r[k] \in Cell /\ r[k].p = q[k].p
      <3> DEFINE n == IF s[k].hop = hop THEN s[k].asked + 1 ELSE s[k].asked
      <3>1. r[k] = [s[k] EXCEPT !.asked = n]
        BY DEF Asked
      <3>2. /\ s[k] \in Waiter /\ s[k].p = q[k].p
            /\ n \in Nat /\ s[k].tries <= n
        BY DEF Waiter
      <3> HIDE DEF n, r
      <3> QED
        BY <3>1, <3>2 DEF Cell, Waiter
    <2> QED
      BY <2>1, <2>2
  <1>3. r = [k \in 1 .. Len(q) |-> r[k]]
    BY <1>1 DEF Asked
  <1> HIDE DEF r
  <1>4. r \in [1 .. Len(q) -> Cell]
    BY <1>1, <1>2, <1>3
  <1>5. r \in Seq(Cell) /\ Unique(r) /\ Kept(q, r, known) /\ \A i : Queued(r, i) <=> Queued(q, i)
    BY <1>1, <1>2, <1>4, Changed
  <1>6. 0 \notin Id
    BY DEF Id
  <1>7. \A i \in Id : Queued(r, i) <=> Queued(q, i) \/ i = 0
    BY <1>5, <1>6
  <1> QED
    BY <1>5, <1>7, StaysGood DEF r
\* An entry gives way to another with the same number at the end.
LEMMA ReplacedGood ==
  ASSUME NEW q \in Seq(Cell), Unique(q), NEW k \in 1 .. Len(q), NEW known,
         q[k].hop \in known \/ q[k].tries >= ArpTries, NEW e \in Cell, e.p.id = q[k].p.id
  PROVE  LET r == Append(RemoveAt(q, k), e)
         IN  /\ r \in Seq(Cell) /\ Unique(r) /\ Kept(q, r, known)
             /\ \A i : Queued(r, i) <=> Queued(q, i)
             /\ Good(Result(r, {}, {}, TRUE), q, 0, known)
  <1> DEFINE t == RemoveAt(q, k)
             r == Append(t, e)
  <1>1. /\ t \in Seq(Cell) /\ Unique(t) /\ Kept(q, t, known)
        /\ \A i : Queued(t, i) <=> Queued(q, i) /\ i # q[k].p.id
        /\ Queued(q, q[k].p.id)
    BY TakenOut
  <1> HIDE DEF t
  <1>2. /\ r \in Seq(Cell) /\ Unique(r)
        /\ \A i : Queued(r, i) <=> Queued(t, i) \/ i = e.p.id
        /\ \A m \in DOMAIN t : \E j \in DOMAIN r : r[j] = t[m]
    BY <1>1, Added
  <1> HIDE DEF r
  <1>3. Kept(q, r, known)
    <2> SUFFICES ASSUME NEW m \in DOMAIN q, ~ (q[m].hop \in known), ~ (q[m].asked >= ArpTries)
                 PROVE  \E j \in DOMAIN r : r[j].p = q[m].p
      BY DEF Kept
    <2>1. PICK n \in DOMAIN t : t[n].p = q[m].p
      BY <1>1 DEF Kept
    <2>2. PICK j \in DOMAIN r : r[j] = t[n]
      BY <1>2
    <2> QED
      BY <2>1, <2>2
  <1>4. \A i : Queued(r, i) <=> Queued(q, i)
    BY <1>1, <1>2
  <1>5. 0 \notin Id
    BY DEF Id
  <1>6. Good(Result(r, {}, {}, TRUE), q, 0, known)
    BY <1>2, <1>3, <1>4, <1>5, StaysGood
  <1> QED
    BY <1>2, <1>3, <1>4, <1>6 DEF r, t

\* A request counted as a try.
LEMMA Tried ==
  ASSUME NEW e \in Waiter, e.tries <= e.asked, NEW b \in BOOLEAN
  PROVE  \A f : \/ f = [e EXCEPT !.tries = @ + 1, !.age = 0]
               \/ f = [e EXCEPT !.tries = @ + 1, !.age = 0, !.arpSent = b]
               => f \in Waiter /\ f.p = e.p /\ f.hop = e.hop /\ f.tries <= f.asked + 1
  <1> DEFINE n == e.tries + 1
  <1>1. n \in Nat /\ n <= e.asked + 1 /\ e.asked \in Nat
    BY DEF Waiter
  <1>2. SUFFICES ASSUME NEW f, \/ f = [e EXCEPT !.tries = n, !.age = 0]
                               \/ f = [e EXCEPT !.tries = n, !.age = 0, !.arpSent = b]
                 PROVE  f \in Waiter /\ f.p = e.p /\ f.hop = e.hop /\ f.tries <= f.asked + 1
    OBVIOUS
  <1> HIDE DEF n
  <1>3. CASE f = [e EXCEPT !.tries = n, !.age = 0]
    BY <1>1, <1>3 DEF Waiter
  <1>4. CASE f = [e EXCEPT !.tries = n, !.age = 0, !.arpSent = b]
    BY <1>1, <1>4 DEF Waiter
  <1> QED
    BY <1>2, <1>3, <1>4

LEMMA Hh5QueueGood ==
  ASSUME Tables, NEW q \in Seq(Cell), Unique(q), NEW known, NEW r, r = Hh5Queue(q, known)
  PROVE  Good(r, q, 0, known) /\ r.lost = {}
  <1>1. CASE q = << >>
    <2>1. Kept(q, q, known) /\ 0 \notin Id
      BY DEF Kept, Id
    <2>2. r = Result(q, {}, {}, TRUE)
      BY <1>1 DEF Hh5Queue
    <2> QED
      BY <2>1, <2>2, StaysGood DEF Result
  <1>2. CASE q # << >>
    <2>1. /\ Tail(q) = RemoveAt(q, 1) /\ 1 \in 1 .. Len(q) /\ DOMAIN q = 1 .. Len(q)
          /\ 1 \in DOMAIN q /\ Len(q) \in Nat
      BY <1>2, TailIsRemoval, LenProperties
    <2>2. q[1] \in Waiter /\ q[1].tries <= q[1].asked /\ q[1].p \in Packet
      BY <2>1, CellOf
    <2>3. CASE q[1].hop \in known
      <3>1. r = Result(RemoveAt(q, 1), {q[1].p}, {}, TRUE)
        BY <1>2, <2>1, <2>3 DEF Hh5Queue
      <3>2. Good(Result(RemoveAt(q, 1), {q[1].p}, {}, TRUE), q, 0, known)
        BY <2>1, <2>3, TakenOutGood
      <3> QED
        BY <3>1, <3>2 DEF Result
    <2>4. CASE q[1].hop \notin known /\ q[1].tries >= ArpTries
      <3> DEFINE f == Hh5Forward(HhError(q[1].p), q, known)
      <3>1. r = [f EXCEPT !.queue = Tail(@)]
        BY <1>2, <2>4 DEF Hh5Queue, Hh5GiveUp
      <3>2. HhError(q[1].p) \in Packet /\ HhError(q[1].p).id = q[1].p.id
        BY <2>2 DEF HhError, Packet
      <3>3. \/ f = Result(q, {}, {}, FALSE)
            \/ \E x : x.id = q[1].p.id /\ f = Result(q, {x}, {}, TRUE)
            \/ \E e \in Cell : e.p.id = q[1].p.id /\ f = Result(Append(q, e), {}, {}, TRUE)
        BY <3>2, Forwarded
      <3> HIDE DEF f
      <3>4. CASE f = Result(q, {}, {}, FALSE)
        <4>1. r = Result(RemoveAt(q, 1), {}, {}, FALSE)
          BY <2>1, <3>1, <3>4 DEF Result
        <4>2. /\ RemoveAt(q, 1) \in Seq(Cell) /\ Unique(RemoveAt(q, 1))
              /\ Kept(q, RemoveAt(q, 1), known)
          BY <2>1, <2>4, TakenOut
        <4> QED
          BY <4>1, <4>2, CrashGood DEF Result
      <3>5. CASE \E x : x.id = q[1].p.id /\ f = Result(q, {x}, {}, TRUE)
        <4>1. PICK x : x.id = q[1].p.id /\ f = Result(q, {x}, {}, TRUE)
          BY <3>5
        <4>2. r = Result(RemoveAt(q, 1), {x}, {}, TRUE)
          BY <2>1, <3>1, <4>1 DEF Result
        <4>3. Good(Result(RemoveAt(q, 1), {x}, {}, TRUE), q, 0, known)
          BY <2>1, <2>4, <4>1, TakenOutGood
        <4> QED
          BY <4>2, <4>3 DEF Result
      <3>6. CASE \E e \in Cell : e.p.id = q[1].p.id /\ f = Result(Append(q, e), {}, {}, TRUE)
        <4>1. PICK e \in Cell : e.p.id = q[1].p.id /\ f = Result(Append(q, e), {}, {}, TRUE)
          BY <3>6
        <4>2. Tail(Append(q, e)) = Append(RemoveAt(q, 1), e)
          BY <1>2, <2>1, HeadTailAppend
        <4>3. r = Result(Append(RemoveAt(q, 1), e), {}, {}, TRUE)
          BY <3>1, <4>1, <4>2 DEF Result
        <4>4. Good(Result(Append(RemoveAt(q, 1), e), {}, {}, TRUE), q, 0, known)
          BY <2>1, <2>4, <4>1, ReplacedGood
        <4> QED
          BY <4>3, <4>4 DEF Result
      <3> QED
        BY <3>3, <3>4, <3>5, <3>6
    <2>5. CASE r = Result(Asked(Hh5Request(q), q[1].hop), {}, {}, TRUE)
      <3> DEFINE s == Hh5Request(q)
      <3>1. DOMAIN s = DOMAIN q
        BY DEF Hh5Request
      <3>2. ASSUME NEW k \in DOMAIN q
            PROVE  /\ s[k] \in Waiter /\ s[k].p = q[k].p
                   /\ \/ s[k].tries <= s[k].asked
                      \/ s[k].hop = q[1].hop /\ s[k].tries <= s[k].asked + 1
        <4>1. q[k] \in Waiter /\ q[k].tries <= q[k].asked
          BY CellOf
        <4>2. \/ s[k] = [q[k] EXCEPT !.tries = @ + 1, !.age = 0, !.arpSent = FALSE] /\ k = 1
              \/ /\ s[k] = [q[k] EXCEPT !.tries = @ + 1, !.age = 0, !.arpSent = TRUE]
                 /\ q[k].hop = q[1].hop
              \/ s[k] = q[k]
          BY DEF Hh5Request
        <4> HIDE DEF s
        <4>3. CASE s[k] = [q[k] EXCEPT !.tries = @ + 1, !.age = 0, !.arpSent = FALSE] /\ k = 1
          BY <4>1, <4>3, Tried
        <4>4. CASE /\ s[k] = [q[k] EXCEPT !.tries = @ + 1, !.age = 0, !.arpSent = TRUE]
                   /\ q[k].hop = q[1].hop
          BY <4>1, <4>4, Tried
        <4> QED
          BY <4>1, <4>2, <4>3, <4>4
      <3> HIDE DEF s
      <3>3. Good(Result(Asked(s, q[1].hop), {}, {}, TRUE), q, 0, known)
        BY <3>1, <3>2, AskedGood
      <3> QED
        BY <2>5, <3>3 DEF s, Result
    <2>6. CASE r = Result(Hh5Unmarked(q), {}, {}, TRUE)
      <3> DEFINE s == Hh5Unmarked(q)
      <3>1. DOMAIN s = DOMAIN q
        BY DEF Hh5Unmarked
      <3>2. ASSUME NEW k \in DOMAIN q
            PROVE  s[k] \in Cell /\ s[k].p = q[k].p
        <4>1. q[k] \in Waiter /\ q[k].tries <= q[k].asked
          BY CellOf
        <4>2. s[k] = [q[k] EXCEPT !.arpSent = FALSE] \/ s[k] = q[k]
          BY DEF Hh5Unmarked
        <4> HIDE DEF s
        <4> QED
          BY <4>1, <4>2 DEF Waiter, Cell
      <3>3. s = [k \in 1 .. Len(q) |-> s[k]]
        BY <2>1 DEF Hh5Unmarked
      <3> HIDE DEF s
      <3>4. s \in [1 .. Len(q) -> Cell]
        BY <2>1, <3>2, <3>3
      <3>5. Len(q) \in Nat /\ \A k \in DOMAIN q : s[k].p = q[k].p
        BY <2>1, <3>2
      <3>6. /\ s \in Seq(Cell) /\ Unique(s) /\ Kept(q, s, known)
            /\ \A i : Queued(s, i) <=> Queued(q, i)
        BY <3>1, <3>4, <3>5, Changed
      <3>7. 0 \notin Id
        BY DEF Id
      <3>8. Good(Result(s, {}, {}, TRUE), q, 0, known)
        BY <3>6, <3>7, StaysGood
      <3> QED
        BY <2>6, <3>8 DEF s, Result
    <2> QED
      BY <1>2, <2>3, <2>4, <2>5, <2>6 DEF Hh5Queue
  <1> QED
    BY <1>1, <1>2
\* A request for the entry at k.
LEMMA RequestGood ==
  ASSUME NEW q \in Seq(Cell), Unique(q), NEW k \in DOMAIN q, NEW known
  PROVE  Good(Result(Asked([q EXCEPT ![k].tries = @ + 1, ![k].age = 0], q[k].hop), {}, {}, TRUE),
              q, 0, known)
  <1> DEFINE s == [q EXCEPT ![k].tries = @ + 1, ![k].age = 0]
  <1>1. DOMAIN s = DOMAIN q
    OBVIOUS
  <1>2. ASSUME NEW m \in DOMAIN q
        PROVE  /\ s[m] \in Waiter /\ s[m].p = q[m].p
               /\ \/ s[m].tries <= s[m].asked
                  \/ s[m].hop = q[k].hop /\ s[m].tries <= s[m].asked + 1
    <2>1. q[m] \in Waiter /\ q[m].tries <= q[m].asked
      BY CellOf
    <2>2. \/ m = k /\ s[m] = [q[m] EXCEPT !.tries = @ + 1, !.age = 0]
          \/ m # k /\ s[m] = q[m]
      OBVIOUS
    <2> HIDE DEF s
    <2>3. CASE m = k /\ s[m] = [q[m] EXCEPT !.tries = @ + 1, !.age = 0]
      BY <2>1, <2>3, Tried
    <2> QED
      BY <2>1, <2>2, <2>3
  <1> HIDE DEF s
  <1>3. Good(Result(Asked(s, q[k].hop), {}, {}, TRUE), q, 0, known)
    BY <1>1, <1>2, AskedGood
  <1> QED
    BY <1>3 DEF s

\* What is made of a queue that only lost what it was to lose.
LEMMA GoodAfter ==
  ASSUME NEW q, NEW t, NEW r, NEW known, Kept(q, t, known), \A i : Queued(t, i) <=> Queued(q, i),
         Good(Result(r, {}, {}, TRUE), t, 0, known),
         \A k \in DOMAIN t : \E j \in DOMAIN r : r[j].p = t[k].p
  PROVE  Good(Result(r, {}, {}, TRUE), q, 0, known)
  <1>1. r \in Seq(Cell) /\ Unique(r) /\ \A i \in Id : Queued(r, i) <=> Queued(t, i)
    <2>1. 0 \notin Id /\ \A i : ~ Among(i, {})
      BY DEF Id, Among
    <2> QED
      BY <2>1 DEF Good, Placed, Result
  <1>2. Kept(q, r, known)
    <2> SUFFICES ASSUME NEW m \in DOMAIN q, ~ (q[m].hop \in known), ~ (q[m].asked >= ArpTries)
                 PROVE  \E j \in DOMAIN r : r[j].p = q[m].p
      BY DEF Kept
    <2>1. PICK n \in DOMAIN t : t[n].p = q[m].p
      BY DEF Kept
    <2>2. PICK j \in DOMAIN r : r[j].p = t[n].p
      OBVIOUS
    <2> QED
      BY <2>1, <2>2
  <1>3. 0 \notin Id
    BY DEF Id
  <1>4. \A i \in Id : Queued(r, i) <=> Queued(q, i) \/ i = 0
    BY <1>1, <1>3
  <1>5. \A i : ~ Among(i, {})
    BY DEF Among
  <1> QED
    BY <1>1, <1>2, <1>4, <1>5 DEF Good, Placed, Result

LEMMA SameGood ==
  ASSUME NEW q \in Seq(Cell), Unique(q), NEW known
  PROVE  Good(Result(q, {}, {}, TRUE), q, 0, known)
  <1>1. Kept(q, q, known) /\ 0 \notin Id
    BY DEF Kept, Id
  <1> QED
    BY <1>1, StaysGood

LEMMA Fields ==
  ASSUME NEW r, NEW q, NEW out, NEW lost, r = Result(q, out, lost, TRUE)
  PROVE  r.ends /\ r.lost = lost
  BY Zenon DEF Result

\* The head of switchyard-master's queue.
LEMMA MServeGood ==
  ASSUME Tables, queue \in Seq(Cell), Unique(queue), queue # << >>,
         program \in {"m4", "m5"}, NEW r,
         r = IF program = "m4" THEN M4Serve(queue) ELSE M5Serve(queue)
  PROVE  Good(r, queue, 0, arpTable) /\ r.ends /\ (program = "m5" => r.lost = {})
  <1>1. /\ Tail(queue) = RemoveAt(queue, 1) /\ 1 \in 1 .. Len(queue)
        /\ DOMAIN queue = 1 .. Len(queue) /\ 1 \in DOMAIN queue /\ Len(queue) \in Nat
    BY TailIsRemoval, LenProperties
  <1>2. queue[1] \in Waiter /\ queue[1].p \in Packet /\ queue[1].dev \in Intf
    BY <1>1, CellOf DEF Waiter
  <1>3. CASE queue[1].hop \in arpTable
    <2>1. r = Result(RemoveAt(queue, 1), {queue[1].p}, {}, TRUE)
      BY <1>1, <1>3 DEF M4Serve, M5Serve
    <2>2. Good(Result(RemoveAt(queue, 1), {queue[1].p}, {}, TRUE), queue, 0, arpTable)
      BY <1>1, <1>3, TakenOutGood
    <2> QED
      BY <2>1, <2>2, Fields
  <1>4. CASE queue[1].hop \notin arpTable /\ queue[1].tries >= ArpTries
    <2>1. CASE program = "m4"
      <3>1. r = Result(RemoveAt(queue, 1), {}, {queue[1].p}, TRUE)
        BY <1>1, <1>4, <2>1 DEF M4Serve
      <3>2. Good(Result(RemoveAt(queue, 1), {}, {queue[1].p}, TRUE), queue, 0, arpTable)
        BY <1>1, <1>4, TakenOutGood
      <3> QED
        BY <2>1, <3>1, <3>2, Fields
    <2>2. CASE program # "m4"
      <3> DEFINE err == MError(queue[1].p, queue[1].dev)
                 e == Waiting(err, MRow(err.dst), queue[1].dev)
                 t == Append(RemoveAt(queue, 1), e)
      <3>1. r = IF e.hop \in arpTable THEN Result(RemoveAt(queue, 1), {err}, {}, TRUE)
                ELSE Result(Asked(t, e.hop), {}, {}, TRUE)
        BY <1>1, <1>4, <2>2 DEF M5Serve, M5GiveUp
      <3>2. err \in Packet /\ err.id = queue[1].p.id
        BY <1>2, AddrAssumption DEF MError, Packet
      <3> HIDE DEF err
      <3>3. e \in Cell /\ e.p = err
        BY <1>2, <3>2, RowsFound, WaitingIsCell
      <3> HIDE DEF e
      <3>4. Good(Result(RemoveAt(queue, 1), {err}, {}, TRUE), queue, 0, arpTable)
        BY <1>1, <1>4, <3>2, TakenOutGood
      <3>5. /\ t \in Seq(Cell) /\ Unique(t) /\ Kept(queue, t, arpTable)
            /\ \A i : Queued(t, i) <=> Queued(queue, i)
        BY <1>1, <1>4, <3>2, <3>3, ReplacedGood
      <3> HIDE DEF t
      <3>6. \A k \in DOMAIN t : t[k] \in Waiter /\ t[k].tries <= t[k].asked
        BY <3>5, CellOf
      <3>7. Good(Result(Asked(t, e.hop), {}, {}, TRUE), t, 0, arpTable)
        BY <3>5, <3>6, AskedGood
      <3>8. \A k \in DOMAIN t : \E j \in DOMAIN Asked(t, e.hop) : Asked(t, e.hop)[j].p = t[k].p
        <4> TAKE k \in DOMAIN t
        <4>1. k \in DOMAIN Asked(t, e.hop) /\ Asked(t, e.hop)[k].p = t[k].p
          BY <3>6 DEF Asked, Waiter
        <4> QED
          BY <4>1
      <3>9. Good(Result(Asked(t, e.hop), {}, {}, TRUE), queue, 0, arpTable)
        BY <3>5, <3>7, <3>8, GoodAfter
      <3> QED
        BY <3>1, <3>4, <3>9, Fields
    <2> QED
      BY <2>1, <2>2
  <1>5. CASE queue[1].hop \notin arpTable /\ ~ (queue[1].tries >= ArpTries)
    <2>1. r = Result(MRequest(queue), {}, {}, TRUE)
      BY <1>5 DEF M4Serve, M5Serve
    <2>2. Good(Result(MRequest(queue), {}, {}, TRUE), queue, 0, arpTable)
      BY <1>1, RequestGood, SameGood DEF MRequest
    <2> QED
      BY <2>1, <2>2, Fields
  <1> QED
    BY <1>3, <1>4, <1>5
\* What the routers but hh5 make of a packet received.
LEMMA HandleGood ==
  ASSUME Tables, queue \in Seq(Cell), Unique(queue), NEW p \in Packet, p.ttl # 0,
         ~ Queued(queue, p.id), NEW dev \in Intf, NEW r,
         \/ program = "hh4" /\ r = Hh4Handle(p)
         \/ program = "m4" /\ r = M4Handle(p)
         \/ program = "m5" /\ r = M5Handle(p, dev)
  PROVE  Good(r, queue, p.id, arpTable) /\ r.ends /\ (program = "m5" => r.lost = {})
  <1>1. [p EXCEPT !.ttl = @ - 1] \in Packet /\ [p EXCEPT !.ttl = @ - 1].id = p.id
    <2>1. p.ttl - 1 \in 0 .. 64
      BY DEF Packet
    <2> QED
      BY <2>1 DEF Packet
  <1>2. /\ Good(Result(queue, {p}, {}, TRUE), queue, p.id, arpTable)
        /\ Good(Result(queue, {}, {p}, TRUE), queue, p.id, arpTable)
    BY PassesGood
  <1>3. CASE program = "hh4" /\ r = Hh4Handle(p)
    <2> DEFINE e == Waiting([p EXCEPT !.ttl = @ - 1], HhRow(p.dst), CHOOSE i \in Intf : TRUE)
    <2>1. CASE HhMatches(p.dst) = {}
      <3>1. r = Result(queue, {}, {p}, TRUE)
        BY <1>3, <2>1 DEF Hh4Handle
      <3> QED
        BY <1>2, <1>3, <3>1, Fields
    <2>2. CASE HhMatches(p.dst) # {}
      <3>1. e \in Cell /\ e.p.id = p.id
        BY <1>1, <2>2, RowsFound, SomeIntf, WaitingIsCell
      <3>2. \/ r = Result(queue, {p}, {}, TRUE)
            \/ r = Result(Append(queue, e), {}, {}, TRUE)
        BY <1>3, <2>2 DEF Hh4Handle
      <3> HIDE DEF e
      <3>3. Good(Result(Append(queue, e), {}, {}, TRUE), queue, p.id, arpTable)
        BY <3>1, QueuedGood
      <3> QED
        BY <1>2, <1>3, <3>2, <3>3, Fields
    <2> QED
      BY <2>1, <2>2
  <1>4. CASE program = "m4" /\ r = M4Handle(p)
    <2> DEFINE e == Waiting([p EXCEPT !.ttl = @ - 1], MRow(p.dst), CHOOSE i \in Intf : TRUE)
    <2>1. e \in Cell /\ e.p.id = p.id
      BY <1>1, <1>4, RowsFound, SomeIntf, WaitingIsCell
    <2>2. \/ r = Result(queue, {}, {p}, TRUE)
          \/ r = Result(Append(queue, e), {}, {}, TRUE)
      BY <1>4 DEF M4Handle
    <2> HIDE DEF e
    <2>3. Good(Result(Append(queue, e), {}, {}, TRUE), queue, p.id, arpTable)
      BY <2>1, QueuedGood
    <2> QED
      BY <1>2, <1>4, <2>2, <2>3, Fields
  <1>5. CASE program = "m5" /\ r = M5Handle(p, dev)
    <2> DEFINE out == M5Routed(M5InTime(M5Answer(p, dev), dev), dev)
               e == Waiting(out, MRow(out.dst), dev)
    <2>1. \A x \in Packet : MError(x, dev) \in Packet /\ MError(x, dev).id = x.id
      BY AddrAssumption DEF MError, Packet
    <2>2. M5Answer(p, dev) \in Packet /\ M5Answer(p, dev).id = p.id
      BY <2>1 DEF M5Answer, EchoReply, Packet
    <2>3. ASSUME NEW x \in Packet
          PROVE  M5InTime(x, dev) \in Packet /\ M5InTime(x, dev).id = x.id
      <3>1. CASE x.ttl <= 1
        BY <2>1, <3>1 DEF M5InTime
      <3>2. CASE ~ (x.ttl <= 1)
        <4>1. x.ttl - 1 \in 0 .. 64
          BY <3>2 DEF Packet
        <4> QED
          BY <3>2, <4>1 DEF M5InTime, Packet
      <3> QED
        BY <3>1, <3>2
    <2>4. \A x \in Packet : M5Routed(x, dev) \in Packet /\ M5Routed(x, dev).id = x.id
      BY <2>1 DEF M5Routed
    <2>5. out \in Packet /\ out.id = p.id
      BY <2>2, <2>3, <2>4
    <2>6. r = Result(Append(queue, e), {}, {}, TRUE)
      BY <1>5 DEF M5Handle
    <2> HIDE DEF out
    <2>7. e \in Cell /\ e.p.id = p.id
      BY <1>5, <2>5, RowsFound, WaitingIsCell
    <2> HIDE DEF e
    <2>8. Good(Result(Append(queue, e), {}, {}, TRUE), queue, p.id, arpTable)
      BY <2>7, QueuedGood
    <2> QED
      BY <2>6, <2>8, Fields
  <1> QED
    BY <1>3, <1>4, <1>5

-----------------------------------------------------------------------------
\* What is Good for the queue keeps the invariant when it is applied.
LEMMA Applied ==
  ASSUME LabInv, pc # "crashed", NEW r, NEW new, NEW known, Good(r, queue, new, known),
         Apply(r), known \subseteq arpTable', UNCHANGED <<program, table>>,
         at' \in Nat \ {0}, received' \in Nat,
         \A i \in Id : i <= received' <=> i <= received \/ i = new,
         new \in Id => ~ (new <= received),
         r.ends \/ pc' = "crashed", program \in {"hh5", "m5"} => r.lost = {}
  PROVE  LabInv' /\ Kept(queue, queue', arpTable')
  <1>1. /\ queue' = r.queue
        /\ sent' = [i \in Id |-> IF Among(i, r.out) THEN sent[i] + 1 ELSE sent[i]]
        /\ dropped' = dropped \cup {k.id : k \in r.lost}
    BY DEF Apply, Among
  <1>2. queue' \in Seq(Cell) /\ Unique(queue') /\ Kept(queue, queue', known)
    BY <1>1 DEF Good
  <1>3. Kept(queue, queue', arpTable')
    BY <1>2 DEF Kept
  <1>4. \A i \in Id : LabOne(i) /\ sent[i] \in {0, 1}
    BY DEF LabInv
  <1>5. \A i : i \in dropped' <=> i \in dropped \/ Among(i, r.lost)
    BY <1>1 DEF Among
  <1>6. CASE r.ends
    <2>1. \A i \in Id :
            /\ ~ (Queued(queue', i) /\ Among(i, r.out))
            /\ ~ (Queued(queue', i) /\ Among(i, r.lost))
            /\ ~ (Among(i, r.out) /\ Among(i, r.lost))
            /\ Queued(queue', i) \/ Among(i, r.out) \/ Among(i, r.lost)
                 <=> Queued(queue, i) \/ i = new
      BY <1>1, <1>6 DEF Good, Placed
    <2>2. ASSUME NEW i \in Id
          PROVE  sent'[i] \in {0, 1} /\ LabOne(i)'
      <3>1. LabOne(i) /\ sent[i] \in {0, 1}
        BY <1>4
      <3>2. Among(i, r.out) => sent[i] = 0
        BY <2>1, <3>1 DEF LabOne
      <3>3. /\ sent'[i] = IF Among(i, r.out) THEN sent[i] + 1 ELSE sent[i]
            /\ sent'[i] \in {0, 1}
        BY <1>1, <3>1, <3>2
      <3>4. sent'[i] = 1 <=> sent[i] = 1 \/ Among(i, r.out)
        BY <3>1, <3>2, <3>3
      <3> QED
        BY <1>5, <2>1, <3>1, <3>3, <3>4 DEF LabOne
    <2>3. sent' \in [Id -> {0, 1}]
      BY <1>1, <2>2
    <2> QED
      BY <1>2, <1>3, <1>5, <2>2, <2>3 DEF LabInv, Tables, Among
  <1>7. CASE ~ r.ends
    <2>1. \A i : ~ Among(i, r.out)
      BY <1>7 DEF Good, Among
    <2>2. sent' \in [Id -> {0, 1}]
      BY <1>1, <1>4, <2>1
    <2> QED
      BY <1>2, <1>3, <1>5, <1>7, <2>2 DEF LabInv, Tables, Among
  <1> QED
    BY <1>6, <1>7

\* A step that leaves the packets where they are.
LEMMA LabQuiet ==
  ASSUME LabInv, UNCHANGED <<program, table, queue, received, sent, dropped>>,
         at' \in Nat \ {0}, pc' # "crashed" => pc # "crashed"
  PROVE  LabInv' /\ Kept(queue, queue', arpTable')
  <1>1. pc' # "crashed" => \A i \in Id : LabOne(i)'
    BY DEF LabInv, LabOne
  <1> QED
    BY <1>1 DEF LabInv, Tables, Kept
-----------------------------------------------------------------------------
LEMMA LabIpStep ==
  ASSUME LabInv, HandleIp
  PROVE  LabInv' /\ Kept(queue, queue', arpTable')
  <1>1. /\ pc = "recv" /\ received < MaxPackets /\ received' = received + 1
        /\ UNCHANGED <<program, table, arpTable, at>>
    BY DEF HandleIp
  <1>2. PICK in \in Inputs :
          LET p == [id |-> received', kind |-> in.kind, src |-> in.src,
                    dst |-> in.dst, ttl |-> in.ttl]
          IN  \/ program = "hh5" /\ Hh5Do(Hh5Forward(Hh5Answer(p), queue, arpTable), "recv")
              \/ program = "hh4" /\ Apply(Hh4Handle(p)) /\ pc' = "serve"
              \/ program = "m5" /\ Apply(M5Handle(p, in.dev)) /\ pc' = "serve"
              \/ program = "m4" /\ Apply(M4Handle(p)) /\ pc' = "serve"
    BY DEF HandleIp
  <1> DEFINE p == [id |-> received', kind |-> in.kind, src |-> in.src,
                   dst |-> in.dst, ttl |-> in.ttl]
  <1>3. received \in Nat /\ at \in Nat \ {0} /\ received' \in Id /\ Id \subseteq Int
    BY <1>1, BoundsAssumption DEF LabInv, Id
  <1>4. in \in [kind : {"data", "echo"}, src : Addr, dst : Addr, ttl : 1 .. 64, dev : Intf]
    BY InputsAssumption
  <1>5. p \in Packet /\ p.id = received' /\ p.ttl # 0 /\ in.dev \in Intf
    BY <1>3, <1>4 DEF Packet
  <1>6. \/ program = "hh5" /\ Hh5Do(Hh5Forward(Hh5Answer(p), queue, arpTable), "recv")
        \/ program = "hh4" /\ Apply(Hh4Handle(p))
        \/ program = "m5" /\ Apply(M5Handle(p, in.dev))
        \/ program = "m4" /\ Apply(M4Handle(p))
    BY <1>2
  <1> HIDE DEF p
  <1>7. /\ Tables /\ queue \in Seq(Cell) /\ Unique(queue)
        /\ \A i \in Id : LabOne(i)
    BY <1>1 DEF LabInv
  <1>8. /\ ~ (received' <= received) /\ received' \in Nat /\ at' \in Nat \ {0}
        /\ \A i \in Id : i <= received' <=> i <= received \/ i = received'
    BY <1>1, <1>3
  <1>9. ~ Queued(queue, p.id)
    BY <1>3, <1>5, <1>7, <1>8 DEF LabOne
  <1>10. ASSUME NEW r, Good(r, queue, received', arpTable), Apply(r),
                r.ends \/ pc' = "crashed", program \in {"hh5", "m5"} => r.lost = {}
         PROVE  LabInv' /\ Kept(queue, queue', arpTable')
    <2>1. pc # "crashed" /\ arpTable \subseteq arpTable' /\ UNCHANGED <<program, table>>
      BY <1>1
    <2> QED
      BY <1>8, <1>10, <2>1, Applied
  <1>11. CASE program = "hh5" /\ Hh5Do(Hh5Forward(Hh5Answer(p), queue, arpTable), "recv")
    <2> DEFINE r == Hh5Forward(Hh5Answer(p), queue, arpTable)
    <2>1. Hh5Answer(p) \in Packet /\ Hh5Answer(p).id = received'
      BY <1>5 DEF Hh5Answer, EchoReply, HhError, Packet
    <2>2. Good(r, queue, received', arpTable) /\ r.lost = {}
      BY <1>5, <1>7, <1>9, <2>1, Hh5NewGood
    <2>3. Apply(r) /\ (r.ends \/ pc' = "crashed")
      BY <1>11 DEF Hh5Do
    <2> HIDE DEF r
    <2> QED
      BY <1>10, <2>2, <2>3
  <1>12. ASSUME NEW r, Apply(r),
                \/ program = "hh4" /\ r = Hh4Handle(p)
                \/ program = "m4" /\ r = M4Handle(p)
                \/ program = "m5" /\ r = M5Handle(p, in.dev)
         PROVE  LabInv' /\ Kept(queue, queue', arpTable')
    <2>1. Good(r, queue, p.id, arpTable) /\ r.ends /\ (program = "m5" => r.lost = {})
      BY <1>5, <1>7, <1>9, <1>12, HandleGood
    <2>2. program # "hh5"
      BY <1>12
    <2> QED
      BY <1>5, <1>10, <1>12, <2>1, <2>2
  <1> QED
    BY <1>6, <1>11, <1>12

\* A step that is given a Result of the queue alone.
LEMMA LabResult ==
  ASSUME LabInv, pc # "crashed", NEW r, NEW known, Good(r, queue, 0, known), Apply(r),
         known \subseteq arpTable', UNCHANGED <<program, table, received>>,
         at' \in Nat \ {0}, r.ends \/ pc' = "crashed", program \in {"hh5", "m5"} => r.lost = {}
  PROVE  LabInv' /\ Kept(queue, queue', arpTable')
  <1>1. 0 \notin Id /\ received \in Nat
    BY DEF Id, LabInv
  <1>2. \A i \in Id : i <= received' <=> i <= received \/ i = 0
    BY <1>1
  <1> QED
    BY <1>1, <1>2, Applied

LEMMA Hh5QueueStep ==
  ASSUME LabInv, pc = "recv", NEW known, Hh5Do(Hh5Queue(queue, known), "recv"),
         known \subseteq arpTable', UNCHANGED <<program, table, at, received>>
  PROVE  LabInv' /\ Kept(queue, queue', arpTable')
  <1> DEFINE r == Hh5Queue(queue, known)
  <1>1. Tables /\ queue \in Seq(Cell) /\ Unique(queue) /\ at \in Nat \ {0}
    BY DEF LabInv
  <1>2. Good(r, queue, 0, known) /\ r.lost = {}
    BY <1>1, Hh5QueueGood
  <1>3. Apply(r) /\ (r.ends \/ pc' = "crashed")
    BY DEF Hh5Do
  <1> HIDE DEF r
  <1> QED
    BY <1>1, <1>2, <1>3, LabResult

LEMMA LabArpStep ==
  ASSUME LabInv, HandleArp
  PROVE  LabInv' /\ Kept(queue, queue', arpTable')
  <1>1. pc = "recv" /\ UNCHANGED <<program, table, at, received>> /\ at \in Nat \ {0}
    BY DEF HandleArp, LabInv
  <1>2. CASE \E op, sender, target : Hh5Arp(op, sender, target)
    <2>1. PICK op, sender, target : Hh5Arp(op, sender, target)
      BY <1>2
    <2>2. /\ arpTable' = Learned(op, sender, target)
          /\ Hh5Do(Hh5Queue(queue, Learned(op, sender, target)), "recv")
      BY <2>1 DEF Hh5Arp
    <2>3. Learned(op, sender, target) \subseteq arpTable'
      BY <2>2
    <2> HIDE <2>1
    <2> QED
      BY <1>1, <2>2, <2>3, Hh5QueueStep
  <1>3. CASE UNCHANGED <<queue, sent, dropped>>
    BY <1>1, <1>3, LabQuiet
  <1> QED
    BY <1>2, <1>3 DEF HandleArp, Hh4Arp, MArp, Hh3Arp, Hh3TestArp, M3Arp, Nju3Arp

LEMMA LabServeStep ==
  ASSUME LabInv, Serve
  PROVE  LabInv' /\ Kept(queue, queue', arpTable')
  <1>1. /\ Tables /\ queue \in Seq(Cell) /\ Unique(queue) /\ at \in Nat \ {0} /\ pc = "serve"
        /\ DOMAIN queue = 1 .. Len(queue)
    BY LenProperties DEF LabInv, Serve, Hh4Round, Hh4RoundsDone, MTop
  <1>2. CASE Hh4Round
    <2>1. /\ program = "hh4" /\ at \in 1 .. Len(queue) /\ at' \in Nat \ {0}
          /\ UNCHANGED <<program, table, arpTable, pc, received>>
      <3>1. /\ program = "hh4" /\ at <= Len(queue) /\ (at' = at \/ at' = at + 1)
            /\ UNCHANGED <<program, table, arpTable, pc, received>>
        BY <1>2 DEF Hh4Round
      <3>2. Len(queue) \in Nat
        BY <1>1, LenProperties
      <3> QED
        BY <1>1, <3>1, <3>2
    <2>2. CASE queue[at].hop \in arpTable /\ Apply(Result(Hh4Remove(at), {queue[at].p}, {}, TRUE))
      <3> DEFINE r == Result(RemoveAt(queue, at), {queue[at].p}, {}, TRUE)
      <3>1. Good(r, queue, 0, arpTable)
        BY <1>1, <2>1, <2>2, TakenOutGood
      <3>2. Apply(r) /\ r.ends
        BY <2>2, Fields DEF Hh4Remove
      <3> HIDE DEF r
      <3> QED
        BY <1>1, <2>1, <3>1, <3>2, LabResult
    <2>3. CASE /\ queue[at].tries >= ArpTries
               /\ Apply(Result(Hh4Remove(at), {}, {queue[at].p}, TRUE))
      <3> DEFINE r == Result(RemoveAt(queue, at), {}, {queue[at].p}, TRUE)
      <3>1. Good(r, queue, 0, arpTable)
        BY <1>1, <2>1, <2>3, TakenOutGood
      <3>2. Apply(r) /\ r.ends
        BY <2>3, Fields DEF Hh4Remove
      <3> HIDE DEF r
      <3> QED
        BY <1>1, <2>1, <3>1, <3>2, LabResult
    <2>4. CASE Apply(Result(Hh4Request(at), {}, {}, TRUE))
      <3> DEFINE r == Result(Hh4Request(at), {}, {}, TRUE)
      <3>1. Good(r, queue, 0, arpTable)
        BY <1>1, <2>1, RequestGood DEF Hh4Request
      <3>2. r.ends
        BY Fields
      <3> QED
        BY <1>1, <2>1, <2>4, <3>1, <3>2, LabResult
    <2> QED
      BY <1>2, <2>2, <2>3, <2>4 DEF Hh4Round
  <1>3. CASE Hh4RoundsDone
    BY <1>1, <1>3, LabQuiet DEF Hh4RoundsDone
  <1>4. CASE MTop
    <2>1. program \in {"m4", "m5"} /\ UNCHANGED <<program, table, arpTable, at, received>>
      BY <1>4 DEF MTop
    <2>2. CASE queue = << >>
      BY <1>1, <1>4, <2>1, <2>2, LabQuiet DEF MTop
    <2>3. CASE queue # << >>
      <3> DEFINE r == IF program = "m4" THEN M4Serve(queue) ELSE M5Serve(queue)
      <3>1. Good(r, queue, 0, arpTable) /\ r.ends /\ (program = "m5" => r.lost = {})
        BY <1>1, <2>1, <2>3, MServeGood
      <3>2. Apply(r)
        BY <1>4, <2>3 DEF MTop
      <3>3. program # "hh5"
        BY <2>1
      <3> HIDE DEF r
      <3> QED
        BY <1>1, <2>1, <3>1, <3>2, <3>3, LabResult
    <2> QED
      BY <2>2, <2>3
  <1> QED
    BY <1>2, <1>3, <1>4 DEF Serve
LEMMA LabTickStep ==
  ASSUME LabInv, Tick
  PROVE  LabInv' /\ Kept(queue, queue', arpTable')
  <1>1. /\ queue' = [k \in DOMAIN queue |->
                      [queue[k] EXCEPT !.age = IF @ < RetryAge THEN @ + 1 ELSE @]]
        /\ UNCHANGED <<program, table, arpTable, at, pc, received, sent, dropped>>
    BY DEF Tick
  <1>2. /\ queue \in Seq(Cell) /\ Unique(queue) /\ DOMAIN queue = 1 .. Len(queue)
        /\ Len(queue) \in Nat
    BY LenProperties DEF LabInv
  <1>3. DOMAIN queue' = DOMAIN queue
    BY <1>1
  <1>4. ASSUME NEW k \in DOMAIN queue
        PROVE  queue'[k] \in Cell /\ queue'[k].p = queue[k].p
    <2> DEFINE n == IF queue[k].age < RetryAge THEN queue[k].age + 1 ELSE queue[k].age
    <2>1. queue'[k] = [queue[k] EXCEPT !.age = n]
      BY <1>1
    <2>2. queue[k] \in Waiter /\ queue[k].tries <= queue[k].asked /\ n \in Nat
      BY <1>2, CellOf DEF Waiter
    <2> HIDE DEF n
    <2> QED
      BY <2>1, <2>2 DEF Waiter, Cell
  <1>5. queue' \in [1 .. Len(queue) -> Cell]
    BY <1>1, <1>2, <1>4
  <1>6. /\ queue' \in Seq(Cell) /\ Unique(queue') /\ Kept(queue, queue', arpTable')
        /\ \A i : Queued(queue', i) <=> Queued(queue, i)
    BY <1>2, <1>3, <1>4, <1>5, Changed
  <1>7. pc' # "crashed" => \A i \in Id : LabOne(i)'
    BY <1>1, <1>6 DEF LabInv, LabOne
  <1> QED
    BY <1>1, <1>6, <1>7 DEF LabInv, Tables

LEMMA LabStart ==
  /\ Init \/ LabOff => LabInv
  /\ LabInv /\ [Next]_vars => LabInv' /\ Kept(queue, queue', arpTable')
  <1>1. Init \/ LabOff => LabInv
    <2> SUFFICES ASSUME Init \/ LabOff PROVE LabInv
      OBVIOUS
    <2>1. /\ queue = << >> /\ at = 1 /\ received = 0 /\ sent = [i \in Id |-> 0] /\ dropped = {}
      BY DEF Init, LabOff, Id
    <2>2. Tables
      <3>1. CASE table = << >> /\ program \notin {"m4", "m5"}
        BY <3>1 DEF Tables
      <3>2. CASE \E file \in FileRoutes : table = file \o IntfRoutes \/ table = IntfRoutes \o file
        <4>1. PICK file \in FileRoutes : table = file \o IntfRoutes \/ table = IntfRoutes \o file
          BY <3>2
        <4>2. /\ file \in Seq(Row) /\ IntfRoutes \in Seq(Row)
              /\ Len(IntfRoutes) \in Nat \ {0} /\ Len(file) \in Nat
          BY RoutesAssumption, EmptySeq, LenProperties
        <4>3. /\ file \o IntfRoutes \in Seq(Row) /\ IntfRoutes \o file \in Seq(Row)
              /\ Len(file \o IntfRoutes) = Len(file) + Len(IntfRoutes)
              /\ Len(IntfRoutes \o file) = Len(IntfRoutes) + Len(file)
          BY <4>2, ConcatProperties
        <4>4. Len(file) + Len(IntfRoutes) # 0 /\ Len(IntfRoutes) + Len(file) # 0
          BY <4>2
        <4>5. table \in Seq(Row) /\ Len(table) # 0
          <5>1. CASE table = file \o IntfRoutes
            BY <4>3, <4>4, <5>1
          <5>2. CASE table = IntfRoutes \o file
            BY <4>3, <4>4, <5>2
          <5> QED
            BY <4>1, <5>1, <5>2
        <4> QED
          BY <4>5, EmptySeq DEF Tables
      <3> QED
        BY <3>1, <3>2 DEF Init, LabOff, HhTable, MTable
    <2>3. queue \in Seq(Cell) /\ Unique(queue)
      BY <2>1 DEF Unique
    <2>4. \A i \in Id : LabOne(i)
      BY <2>1 DEF LabOne, Queued, Id
    <2> QED
      BY <2>1, <2>2, <2>3, <2>4 DEF LabInv
  <1>2. ASSUME LabInv, [Next]_vars
        PROVE  LabInv' /\ Kept(queue, queue', arpTable')
    <2>1. at \in Nat \ {0}
      BY <1>2 DEF LabInv
    <2>2. CASE HandleIp
      BY <1>2, <2>2, LabIpStep
    <2>3. CASE HandleArp
      BY <1>2, <2>3, LabArpStep
    <2>4. CASE NoPackets
      <3>1. CASE Hh5NoPackets
        <4>1. /\ pc = "recv" /\ Hh5Do(Hh5Queue(queue, arpTable), "recv")
              /\ arpTable \subseteq arpTable' /\ UNCHANGED <<program, table, at, received>>
          BY <2>4, <3>1 DEF NoPackets, Hh5NoPackets
        <4> QED
          BY <1>2, <4>1, Hh5QueueStep
      <3>2. CASE UNCHANGED <<queue, at, received, sent, dropped>>
        BY <1>2, <2>1, <2>4, <3>2, LabQuiet DEF NoPackets
      <3> QED
        BY <2>4, <3>1, <3>2 DEF NoPackets
    <2>5. CASE Serve
      BY <1>2, <2>5, LabServeStep
    <2>6. CASE Tick
      BY <1>2, <2>6, LabTickStep
    <2>7. CASE UNCHANGED vars
      BY <1>2, <2>1, <2>7, LabQuiet DEF vars
    <2> QED
      BY <1>2, <2>2, <2>3, <2>4, <2>5, <2>6, <2>7 DEF Next
  <1> QED
    BY <1>1, <1>2

LEMMA LabConserves ==
  LabInv => OneOfEach
  <1> SUFFICES ASSUME LabInv, pc # "crashed", NEW i \in Id
               PROVE  Waits(i) + sent[i] + Cardinality({i} \cap dropped)
                        = IF i <= received THEN 1 ELSE 0
    BY DEF LabInv, OneOfEach
  <1>1. LabOne(i) /\ sent[i] \in {0, 1} /\ Unique(queue)
    BY DEF LabInv
  <1>2. Waits(i) = IF Queued(queue, i) THEN 1 ELSE 0
    <2> DEFINE here == {k \in DOMAIN queue : queue[k].p.id = i}
    <2>1. CASE Queued(queue, i)
      <3>1. PICK k \in DOMAIN queue : queue[k].p.id = i
        BY <2>1 DEF Queued
      <3>2. here = {k}
        BY <1>1, <3>1 DEF Unique
      <3> QED
        BY <2>1, <3>2, FS_Singleton DEF Waits
    <2>2. CASE ~ Queued(queue, i)
      <3>1. here = {}
        BY <2>2 DEF Queued
      <3> QED
        BY <2>2, <3>1, FS_EmptySet DEF Waits
    <2> QED
      BY <2>1, <2>2
  <1>3. Cardinality({i} \cap dropped) = IF i \in dropped THEN 1 ELSE 0
    <2>1. {i} \cap dropped = IF i \in dropped THEN {i} ELSE {}
      OBVIOUS
    <2> QED
      BY <2>1, FS_Singleton, FS_EmptySet
  <1> QED
    BY <1>1, <1>2, <1>3 DEF LabOne

-----------------------------------------------------------------------------
(***************************************************************************)
(* The theorems.  One of the routers runs and the other is off.            *)
(***************************************************************************)
LEMMA RoutersInv ==
  /\ MCInit => LabInv /\ NjuInv
  /\ LabInv /\ NjuInv /\ [MCNext]_allVars =>
       /\ LabInv' /\ NjuInv'
       /\ UNCHANGED vars \/ Kept(queue, queue', arpTable')
       /\ [NjuNext]_njuVars
  <1>1. MCInit => LabInv /\ NjuInv
    BY LabStart, NjuStart DEF MCInit
  <1>2. ASSUME LabInv, NjuInv, [MCNext]_allVars
        PROVE  /\ LabInv' /\ NjuInv'
               /\ UNCHANGED vars \/ Kept(queue, queue', arpTable')
               /\ [NjuNext]_njuVars
    <2>1. [Next]_vars /\ [NjuNext]_njuVars /\ (UNCHANGED vars \/ Next)
      BY <1>2 DEF MCNext, allVars
    <2> QED
      BY <1>2, <2>1, LabStart, NjuStart
  <1> QED
    BY <1>1, <1>2

\* No packet is lost or doubled, whatever the queues, the recursion and the errors
\* about errors turn it into.
THEOREM PacketsAreConserved == MCSpec => []PacketsConserved
  <1>1. MCInit => LabInv /\ NjuInv
    BY RoutersInv
  <1>2. LabInv /\ NjuInv /\ [MCNext]_allVars => (LabInv /\ NjuInv)'
    BY RoutersInv
  <1>3. LabInv /\ NjuInv => PacketsConserved
    BY LabConserves, NjuConserves DEF PacketsConserved
  <1> QED
    BY <1>1, <1>2, <1>3, PTL DEF MCSpec

\* What waits goes to the next hop and the interface of its most specific route,
\* if the table never leads to one next hop by two interfaces.
THEOREM RoutesAreFollowed ==
  ASSUME OneIntfPerHop
  PROVE  MCSpec => []QueueFollowsRoutes
  <1>1. MCInit => LabInv /\ NjuInv
    BY RoutersInv
  <1>2. LabInv /\ NjuInv /\ [MCNext]_allVars => (LabInv /\ NjuInv)'
    BY RoutersInv
  <1>3. LabInv /\ NjuInv => QueueFollowsRoutes
    BY NjuFollows
  <1> QED
    BY <1>1, <1>2, <1>3, PTL DEF MCSpec

\* No packet is given up before its requests were made, and no entry is overlooked
\* whose request is a second old.
THEOREM RequestsAreMade == MCSpec => RequestsMade
  <1>1. MCInit => LabInv /\ NjuInv
    BY RoutersInv
  <1>2. LabInv /\ NjuInv /\ [MCNext]_allVars => (LabInv /\ NjuInv)'
    BY RoutersInv
  <1>3. LabInv /\ NjuInv /\ [MCNext]_allVars =>
          [\A k \in DOMAIN queue :
             LET e == queue[k]
             IN  \/ \E j \in DOMAIN queue' : queue'[j].p = e.p
                 \/ e.hop \in arpTable'
                 \/ e.asked >= ArpTries]_vars
    BY RoutersInv DEF Kept
  <1>4. LabInv /\ NjuInv /\ [MCNext]_allVars =>
          [ResendDone => \A i \in DOMAIN arpSend :
             arpSend[i].remain = ArpTries \/ arpSend[i].age < RetryAge]_njuVars
    BY HeadIsOldest
  <1> QED
    BY <1>1, <1>2, <1>3, <1>4, PTL DEF MCSpec, RequestsMade, AllRequestsMade, NoRetryOverlooked
=============================================================================
