------------------------- MODULE RouteGraph_proofs -------------------------
(***************************************************************************)
(* The alternative routes, for every graph: where no two chains join the   *)
(* same nodes, the accepted routes are at any time the first of all, in    *)
(* order, and in the end K or all of them.                                 *)
(*                                                                         *)
(* Two searches, two invariants.  Of one search (Searching): of every      *)
(* cheapest way to the goal a part is in the heap, because a part that is  *)
(* thrown away for a cheaper way to its end would make a shortcut.  Of the *)
(* rounds (Yen): every route that is left leaves the accepted ones at a    *)
(* spur that is still to come, or after as many nodes as a candidate that  *)
(* comes before it.                                                        *)
(***************************************************************************)
EXTENDS RouteGraph, FiniteSetTheorems, SequenceTheorems, TLAPS

\* A set of natural numbers has a least element, so one that holds 0 and the
\* successor of each of its elements holds all of them.
LEMMA LeastNatural ==
  ASSUME NEW T \in SUBSET Nat, T # {}
  PROVE  \E m \in T : \A n \in T : m <= n
<1>1. PICK m \in T : \A n \in T : ~(<<n, m>> \in OpToRel(<, Nat))
  BY NatLessThanWellFounded, WFMin
<1>2. \A n \in T : ~(n < m)
  BY <1>1 DEF OpToRel
<1> QED BY <1>2

LEMMA AllNaturals ==
  ASSUME NEW S \in SUBSET Nat, 0 \in S, \A n \in S : n + 1 \in S
  PROVE  S = Nat
<1> SUFFICES ASSUME Nat \ S # {} PROVE FALSE
  OBVIOUS
<1>1. PICK m \in Nat \ S : \A n \in Nat \ S : m <= n
  BY LeastNatural
<1>2. m - 1 \in S
  BY <1>1
<1> QED BY <1>1, <1>2

-------------------------------------------------------------------------------
(* The order of the heap *)

Items == [cost : Nat, nodes : Seq(Int), lanes : Seq(Int)]

\* The order of tuples is a strict total order.
LEMMA BeforeTotal ==
  ASSUME NEW s \in Seq(Int), NEW t \in Seq(Int), s # t
  PROVE  Before(s, t) \/ Before(t, s)
<1> DEFINE D == {i \in Nat \ {0} : i > Len(s) \/ i > Len(t) \/ s[i] # t[i]}
<1>1. Len(s) \in Nat /\ Len(t) \in Nat
  OBVIOUS
<1>2. PICK i \in D : \A j \in D : i <= j
  <2>1. D \in SUBSET Nat /\ Len(s) + 1 \in D
    BY <1>1
  <2> HIDE DEF D
  <2> QED BY <2>1, LeastNatural
<1>3. \A j \in 1..(i - 1) : j <= Len(s) /\ j <= Len(t) /\ s[j] = t[j]
  <2> SUFFICES ASSUME NEW j \in 1..(i - 1) PROVE j \notin D
    BY <1>1
  <2> QED BY <1>2
<1>4. CASE i > Len(s) /\ i > Len(t)
  <2>1. Len(s) = Len(t)
    <3>1. ~(Len(s) < Len(t))
      BY <1>1, <1>3, <1>4
    <3>2. ~(Len(t) < Len(s))
      BY <1>1, <1>3, <1>4
    <3> QED BY <1>1, <3>1, <3>2
  <2>2. \A j \in 1..Len(s) : s[j] = t[j]
    BY <1>1, <1>3, <1>4
  <2> QED BY <2>1, <2>2, SeqEqual
<1>5. CASE i > Len(s) /\ i <= Len(t)
  BY <1>1, <1>3, <1>5 DEF Before
<1>6. CASE i <= Len(s) /\ i > Len(t)
  BY <1>1, <1>3, <1>6, SMTT(60) DEF Before
<1>7. CASE i <= Len(s) /\ i <= Len(t)
  <2>1. s[i] \in Int /\ t[i] \in Int /\ s[i] # t[i]
    BY <1>1, <1>7, ElementOfSeq
  <2>2. CASE s[i] < t[i]
    <3>1. i \in 1..Len(t) /\ \A j \in 1..(i - 1) : j <= Len(s) /\ s[j] = t[j]
      BY <1>1, <1>3, <1>7
    <3> QED BY <2>2, <3>1 DEF Before
  <2>3. CASE t[i] < s[i]
    <3>1. i \in 1..Len(s) /\ \A j \in 1..(i - 1) : j <= Len(t) /\ t[j] = s[j]
      BY <1>1, <1>3, <1>7
    <3> QED BY <2>3, <3>1 DEF Before
  <2> QED BY <2>1, <2>2, <2>3
<1> QED BY <1>1, <1>4, <1>5, <1>6, <1>7

LEMMA BeforeTransitive ==
  ASSUME NEW s \in Seq(Int), NEW t \in Seq(Int), NEW u \in Seq(Int), Before(s, t), Before(t, u)
  PROVE  Before(s, u)
<1>1. Len(s) \in Nat /\ Len(t) \in Nat /\ Len(u) \in Nat
  OBVIOUS
<1>2. PICK i \in 1..Len(t) : /\ \A j \in 1..(i - 1) : j <= Len(s) /\ s[j] = t[j]
                             /\ i > Len(s) \/ s[i] < t[i]
  BY DEF Before
<1>3. PICK k \in 1..Len(u) : /\ \A j \in 1..(k - 1) : j <= Len(t) /\ t[j] = u[j]
                             /\ k > Len(t) \/ t[k] < u[k]
  BY DEF Before
<1>4. CASE i < k
  <2>1. i \in 1..Len(u) /\ t[i] = u[i]
    BY <1>1, <1>3, <1>4
  <2>2. \A j \in 1..(i - 1) : j <= Len(s) /\ s[j] = u[j]
    BY <1>1, <1>2, <1>3, <1>4, SMTT(60)
  <2> QED BY <1>2, <2>1, <2>2 DEF Before
<1>5. CASE i >= k
  <2>1. \A j \in 1..(k - 1) : j <= Len(s) /\ s[j] = u[j]
    BY <1>1, <1>2, <1>3, <1>5, SMTT(60)
  <2>2. k > Len(s) \/ s[k] < u[k]
    <3>1. k <= Len(t) /\ t[k] < u[k]
      BY <1>1, <1>2, <1>3, <1>5
    <3>2. CASE i = k /\ i <= Len(s)
      <4>1. s[k] \in Int /\ t[k] \in Int /\ u[k] \in Int
        BY <1>1, <3>1, <3>2, ElementOfSeq
      <4> QED BY <1>2, <3>1, <3>2, <4>1, SMTT(60)
    <3>3. CASE i = k /\ i > Len(s)
      BY <3>3
    <3>4. CASE i > k
      BY <1>1, <1>2, <3>1, <3>4
    <3> QED BY <1>1, <1>5, <3>2, <3>3, <3>4
  <2> QED BY <2>1, <2>2 DEF Before
<1> QED BY <1>1, <1>4, <1>5

LEMMA BeforeIrreflexive ==
  ASSUME NEW s \in Seq(Int)
  PROVE  ~Before(s, s)
<1> SUFFICES ASSUME NEW i \in 1..Len(s), i > Len(s) \/ s[i] < s[i] PROVE FALSE
  BY DEF Before
<1>1. Len(s) \in Nat /\ s[i] \in Int
  BY ElementOfSeq
<1> QED BY <1>1

\* What comes before the beginning of a sequence comes before the sequence.
LEMMA BeforeLonger ==
  ASSUME NEW s \in Seq(Int), NEW t \in Seq(Int), NEW u \in Seq(Int), Before(s, t),
         Len(t) <= Len(u), \A i \in 1..Len(t) : u[i] = t[i]
  PROVE  Before(s, u)
<1>1. Len(s) \in Nat /\ Len(t) \in Nat /\ Len(u) \in Nat
  OBVIOUS
<1>2. PICK i \in 1..Len(t) : /\ \A j \in 1..(i - 1) : j <= Len(s) /\ s[j] = t[j]
                             /\ i > Len(s) \/ s[i] < t[i]
  BY DEF Before
<1>3. i \in 1..Len(u) /\ \A j \in 1..i : u[j] = t[j]
  <2>1. 1..i \subseteq 1..Len(t) /\ i \in 1..Len(u)
    BY <1>1
  <2> QED BY <2>1
<1>4. u[i] = t[i] /\ \A j \in 1..(i - 1) : u[j] = t[j]
  BY <1>1, <1>3
<1> QED BY <1>2, <1>3, <1>4 DEF Before

\* So is the order of the entries of a heap.
LEMMA PrecedesTotal ==
  ASSUME NEW r \in Items, NEW o \in Items, r # o
  PROVE  Precedes(r, o) \/ Precedes(o, r)
<1>1. /\ r.cost \in Nat /\ o.cost \in Nat /\ r.nodes \in Seq(Int) /\ o.nodes \in Seq(Int)
      /\ r.lanes \in Seq(Int) /\ o.lanes \in Seq(Int)
      /\ ~(r.cost = o.cost /\ r.nodes = o.nodes /\ r.lanes = o.lanes)
  BY DEF Items
<1>2. r.nodes # o.nodes => Before(r.nodes, o.nodes) \/ Before(o.nodes, r.nodes)
  BY <1>1, BeforeTotal
<1>3. r.lanes # o.lanes => Before(r.lanes, o.lanes) \/ Before(o.lanes, r.lanes)
  BY <1>1, BeforeTotal
<1> QED BY <1>1, <1>2, <1>3 DEF Precedes

LEMMA PrecedesTransitive ==
  ASSUME NEW r \in Items, NEW o \in Items, NEW q \in Items, Precedes(r, o), Precedes(o, q)
  PROVE  Precedes(r, q)
<1>1. /\ r.cost \in Nat /\ o.cost \in Nat /\ q.cost \in Nat
      /\ r.nodes \in Seq(Int) /\ o.nodes \in Seq(Int) /\ q.nodes \in Seq(Int)
      /\ r.lanes \in Seq(Int) /\ o.lanes \in Seq(Int) /\ q.lanes \in Seq(Int)
  BY DEF Items
<1>2. Before(r.nodes, o.nodes) /\ Before(o.nodes, q.nodes) => Before(r.nodes, q.nodes)
  BY <1>1, BeforeTransitive
<1>3. Before(r.lanes, o.lanes) /\ Before(o.lanes, q.lanes) => Before(r.lanes, q.lanes)
  BY <1>1, BeforeTransitive
<1> QED BY <1>1, <1>2, <1>3 DEF Precedes

LEMMA PrecedesIrreflexive ==
  ASSUME NEW r \in Items
  PROVE  ~Precedes(r, r)
<1>1. r.cost \in Nat /\ r.nodes \in Seq(Int) /\ r.lanes \in Seq(Int)
  BY DEF Items
<1>2. ~Before(r.nodes, r.nodes) /\ ~Before(r.lanes, r.lanes)
  BY <1>1, BeforeIrreflexive
<1> QED BY <1>1, <1>2 DEF Precedes

\* A heap has a first entry.
LEMMA FirstExists ==
  ASSUME NEW H \in SUBSET Items, IsFiniteSet(H), H # {}
  PROVE  FirstOf(H) \in H /\ \A o \in H \ {FirstOf(H)} : Precedes(FirstOf(H), o)
<1> DEFINE First(T) == \E r \in T : \A o \in T \ {r} : Precedes(r, o)
           S == {n \in Nat : \A T \in SUBSET Items :
                   IsFiniteSet(T) /\ Cardinality(T) = n + 1 => First(T)}
<1>1. S = Nat
  <2>1. 0 \in S
    <3> SUFFICES ASSUME NEW T \in SUBSET Items, IsFiniteSet(T), Cardinality(T) = 0 + 1
                 PROVE  First(T)
      OBVIOUS
    <3>1. PICK r : T = {r}
      <4>1. Cardinality(T) = 1
        OBVIOUS
      <4> QED BY <4>1, FS_Singleton
    <3> QED BY <3>1
  <2>2. ASSUME NEW n \in S PROVE n + 1 \in S
    <3> SUFFICES ASSUME NEW T \in SUBSET Items, IsFiniteSet(T), Cardinality(T) = (n + 1) + 1
                 PROVE  First(T)
      OBVIOUS
    <3>1. PICK q \in T : TRUE
      <4>1. T # {}
        BY FS_EmptySet
      <4> QED BY <4>1
    <3>2. IsFiniteSet(T \ {q}) /\ Cardinality(T \ {q}) = n + 1 /\ T \ {q} \in SUBSET Items
      BY <3>1, FS_RemoveElement
    <3>3. PICK r \in T \ {q} : \A o \in (T \ {q}) \ {r} : Precedes(r, o)
      BY <3>2
    <3>4. r \in Items /\ q \in Items /\ r # q
      BY <3>1, <3>3
    <3>5. CASE Precedes(r, q)
      BY <3>3, <3>5
    <3>6. CASE Precedes(q, r)
      <4>1. \A o \in T \ {q} : Precedes(q, o)
        BY <3>3, <3>4, <3>6, PrecedesTransitive
      <4> QED BY <3>1, <4>1
    <3> QED BY <3>4, <3>5, <3>6, PrecedesTotal
  <2>3. S \in SUBSET Nat
    OBVIOUS
  <2> HIDE DEF S
  <2> QED BY <2>1, <2>2, <2>3, AllNaturals
<1>2. Cardinality(H) \in Nat /\ Cardinality(H) # 0
  BY FS_EmptySet, FS_CardinalityType
<1>3. Cardinality(H) - 1 \in S
  BY <1>1, <1>2
<1>4. First(H)
  BY <1>2, <1>3
<1> QED BY <1>4 DEF FirstOf

-------------------------------------------------------------------------------
(* What a path costs *)

\* A sum of natural numbers, term by term, exists, and there is one.
LEMMA Sums ==
  ASSUME NEW n \in Nat, NEW d, \A i \in 1..n : d[i] \in Nat
  PROVE  \E f \in [0..n -> Nat] : f[0] = 0 /\ \A i \in 1..n : f[i] = f[i - 1] + d[i]
<1> DEFINE Sum(k, f) == f \in [0..k -> Nat] /\ f[0] = 0 /\ \A i \in 1..k : f[i] = f[i - 1] + d[i]
           S == {k \in Nat : k <= n => \E f : Sum(k, f)}
<1>1. 0 \in S
  <2>1. Sum(0, [i \in 0..0 |-> 0])
    OBVIOUS
  <2> HIDE DEF Sum
  <2> QED BY <2>1
<1>2. ASSUME NEW k \in S PROVE k + 1 \in S
  <2> SUFFICES ASSUME k + 1 <= n PROVE \E f : Sum(k + 1, f)
    BY SMTT(60)
  <2>1. PICK f : Sum(k, f)
    OBVIOUS
  <2> DEFINE g == [i \in 0..(k + 1) |-> IF i <= k THEN f[i] ELSE f[k] + d[k + 1]]
  <2>2. g \in [0..(k + 1) -> Nat] /\ g[0] = 0
    BY <2>1
  <2>3. \A i \in 1..(k + 1) : g[i] = g[i - 1] + d[i]
    <3> SUFFICES ASSUME NEW i \in 1..(k + 1) PROVE g[i] = g[i - 1] + d[i]
      OBVIOUS
    <3>1. CASE i <= k
      BY <2>1, <3>1
    <3>2. CASE i = k + 1
      BY <2>1, <3>2
    <3> QED BY <3>1, <3>2
  <2>4. Sum(k + 1, g)
    BY <2>2, <2>3
  <2> HIDE DEF Sum, g
  <2> QED BY <2>4
<1>3. n \in S
  <2>1. S \in SUBSET Nat
    OBVIOUS
  <2> HIDE DEF S
  <2> QED BY <1>1, <1>2, <2>1, AllNaturals
<1>4. \E f : Sum(n, f)
  <2> HIDE DEF Sum
  <2> QED BY <1>3
<1> QED BY <1>4

\* Two sums that begin alike and go on alike end alike.
LEMMA OneSum ==
  ASSUME NEW n \in Nat, NEW f, NEW g, f[0] = g[0],
         \A i \in 1..n : f[i - 1] = g[i - 1] => f[i] = g[i]
  PROVE  f[n] = g[n]
<1> DEFINE S == {k \in Nat : k <= n => f[k] = g[k]}
<1>1. 0 \in S
  OBVIOUS
<1>2. ASSUME NEW k \in S PROVE k + 1 \in S
  <2> SUFFICES ASSUME k + 1 <= n PROVE f[k + 1] = g[k + 1]
    OBVIOUS
  <2>1. f[k] = g[k] /\ k + 1 \in 1..n /\ (k + 1) - 1 = k
    OBVIOUS
  <2> QED BY <2>1
<1>3. S = Nat
  <2>1. S \in SUBSET Nat
    OBVIOUS
  <2> HIDE DEF S
  <2> QED BY <1>1, <1>2, <2>1, AllNaturals
<1> QED BY <1>3

\* What the steps of some nodes and lanes add up to.
LEMMA CostIs ==
  ASSUME NEW nodes, NEW lanes, Len(lanes) \in Nat,
         \A i \in 1..Len(lanes) : cost[ChainOf(nodes, lanes, i)] \in Nat,
         NEW f \in [0..Len(lanes) -> Int],
         \A i \in 1..Len(lanes) : f[i] = f[i - 1] + cost[ChainOf(nodes, lanes, i)]
  PROVE  TotalCost(nodes, lanes) = f[Len(lanes)] - f[0]
<1> DEFINE n == Len(lanes)
           d == [i \in 1..n |-> cost[ChainOf(nodes, lanes, i)]]
           IsSum(h) == h = [i \in 0..n |-> IF i = 0 THEN 0
                                           ELSE h[i - 1] + cost[ChainOf(nodes, lanes, i)]]
           sum == CHOOSE h : IsSum(h)
           g == [i \in 0..n |-> f[i] - f[0]]
<1>1. \E h : IsSum(h)
  <2>1. \A i \in 1..n : d[i] \in Nat
    OBVIOUS
  <2>2. PICK h \in [0..n -> Nat] : h[0] = 0 /\ \A i \in 1..n : h[i] = h[i - 1] + d[i]
    <3> HIDE DEF d
    <3> QED BY <2>1, Sums
  <2>3. h = [i \in 0..n |-> h[i]]
    OBVIOUS
  <2>4. \A i \in 0..n : h[i] = IF i = 0 THEN 0 ELSE h[i - 1] + cost[ChainOf(nodes, lanes, i)]
    <3> SUFFICES ASSUME NEW i \in 1..n PROVE h[i] = h[i - 1] + cost[ChainOf(nodes, lanes, i)]
      BY <2>2
    <3>1. d[i] = cost[ChainOf(nodes, lanes, i)]
      OBVIOUS
    <3> HIDE DEF d
    <3> QED BY <2>2, <3>1
  <2>5. [i \in 0..n |-> h[i]] =
          [i \in 0..n |-> IF i = 0 THEN 0 ELSE h[i - 1] + cost[ChainOf(nodes, lanes, i)]]
    BY <2>4
  <2> HIDE DEF d, n
  <2>6. IsSum(h)
    BY <2>3, <2>5
  <2> HIDE DEF IsSum
  <2> QED BY <2>6
<1>2. IsSum(sum)
  <2> HIDE DEF IsSum
  <2> QED BY <1>1
<1>3. TotalCost(nodes, lanes) = sum[n]
  BY DEF TotalCost
<1>4. sum[0] = 0 /\ \A i \in 1..n : sum[i] = sum[i - 1] + d[i]
  <2> HIDE DEF sum
  <2>1. sum[0] = 0
    BY <1>2
  <2>2. \A i \in 1..n : sum[i] = sum[i - 1] + cost[ChainOf(nodes, lanes, i)]
    BY <1>2
  <2> QED BY <2>1, <2>2
<1>5. g[0] = 0 /\ \A i \in 1..n : g[i] = g[i - 1] + d[i]
  <2>1. g[0] = 0
    OBVIOUS
  <2>2. ASSUME NEW i \in 1..n PROVE g[i] = g[i - 1] + d[i]
    <3>1. /\ f[i] = f[i - 1] + d[i] /\ d[i] \in Nat /\ f[i - 1] \in Int /\ f[0] \in Int
          /\ i \in 0..n /\ i - 1 \in 0..n
      OBVIOUS
    <3> HIDE DEF d
    <3> QED BY <3>1
  <2> QED BY <2>1, <2>2
<1>6. sum[n] = g[n]
  <2>1. n \in Nat /\ n \in 0..n
    OBVIOUS
  <2> HIDE DEF sum, g, d, n, IsSum
  <2>2. sum[0] = g[0] /\ \A i \in 1..n : sum[i - 1] = g[i - 1] => sum[i] = g[i]
    BY <1>4, <1>5
  <2> QED BY <2>1, <2>2, OneSum
<1> QED BY <1>3, <1>6

Given == GraphAssumption /\ cost \in [Chains -> Costs] /\ kept \subseteq Chains

\* A loopless path of the kept graph, with its cost.
Path(r) ==
  /\ r \in [cost : Nat, nodes : Seq(Nodes), lanes : Seq({1, 2})]
  /\ Len(r.nodes) = Len(r.lanes) + 1
  /\ \A i, j \in 1..Len(r.nodes) : r.nodes[i] = r.nodes[j] => i = j
  /\ \A i \in 1..Len(r.lanes) : ChainOf(r.nodes, r.lanes, i) \in kept
  /\ r.cost = TotalCost(r.nodes, r.lanes)

\* What it costs from its first node on.
IsCost(f, r) ==
  /\ f \in [0..Len(r.lanes) -> Nat] /\ f[0] = 0 /\ f[Len(r.lanes)] = r.cost
  /\ \A i \in 1..Len(r.lanes) : f[i] = f[i - 1] + cost[ChainOf(r.nodes, r.lanes, i)]
  /\ \A i, j \in 0..Len(r.lanes) : i <= j => f[i] <= f[j]

\* What a path is made of.
LEMMA PathType ==
  ASSUME Given, NEW r, Path(r)
  PROVE  /\ r \in Items /\ r.cost \in Nat /\ r.nodes \in Seq(Nodes) /\ r.lanes \in Seq({1, 2})
         /\ r.lanes \in Seq(Int) /\ r.nodes \in Seq(Int)
         /\ Len(r.nodes) \in Nat \ {0} /\ Len(r.lanes) \in Nat /\ Len(r.nodes) = Len(r.lanes) + 1
         /\ \A i \in 1..Len(r.nodes) : r.nodes[i] \in Nodes
         /\ \A i \in 1..Len(r.lanes) : /\ r.lanes[i] \in {1, 2}
                                       /\ cost[ChainOf(r.nodes, r.lanes, i)] \in Nat
         /\ r = Entry(r.cost, r.nodes, r.lanes)
<1>1. /\ r.cost \in Nat /\ r.nodes \in Seq(Nodes) /\ r.lanes \in Seq({1, 2})
      /\ r = Entry(r.cost, r.nodes, r.lanes) /\ Len(r.nodes) = Len(r.lanes) + 1
  BY DEF Path, Entry
<1>2. Nodes \subseteq Int /\ {1, 2} \subseteq Int
  BY DEF Given, GraphAssumption
<1>3. r.nodes \in Seq(Int) /\ r.lanes \in Seq(Int)
  BY <1>1, <1>2, SeqMonotonic, ZenonT(60)
<1>4. r \in Items
  BY <1>1, <1>3 DEF Items, Entry
<1>5. Len(r.lanes) \in Nat /\ Len(r.nodes) \in Nat \ {0}
  BY <1>1
<1>6. \A i \in 1..Len(r.nodes) : r.nodes[i] \in Nodes
  BY <1>1, ElementOfSeq
<1>7. \A i \in 1..Len(r.lanes) : r.lanes[i] \in {1, 2}
  BY <1>1, ElementOfSeq
<1>8. \A i \in 1..Len(r.lanes) : cost[ChainOf(r.nodes, r.lanes, i)] \in Nat
  BY DEF Path, Given, GraphAssumption
<1> QED BY <1>1, <1>3, <1>4, <1>5, <1>6, <1>7, <1>8

\* The cost of a path grows along it.
LEMMA CostExists ==
  ASSUME Given, NEW r, Path(r)
  PROVE  \E f : IsCost(f, r)
<1> DEFINE n == Len(r.lanes)
           d == [i \in 1..n |-> cost[ChainOf(r.nodes, r.lanes, i)]]
<1>1. n \in Nat /\ \A i \in 1..n : d[i] \in Nat /\ d[i] = cost[ChainOf(r.nodes, r.lanes, i)]
  BY PathType
<1>2. PICK f \in [0..n -> Nat] : f[0] = 0 /\ \A i \in 1..n : f[i] = f[i - 1] + d[i]
  <2> HIDE DEF d, n
  <2> QED BY <1>1, Sums
<1>3. f[n] = r.cost
  <2>1. TotalCost(r.nodes, r.lanes) = f[n] - f[0]
    <3>1. f \in [0..n -> Int]
      BY <1>2
    <3>2. \A i \in 1..n : /\ cost[ChainOf(r.nodes, r.lanes, i)] \in Nat
                          /\ f[i] = f[i - 1] + cost[ChainOf(r.nodes, r.lanes, i)]
      <4> HIDE DEF d, n
      <4> QED BY <1>1, <1>2
    <3> HIDE DEF d
    <3> QED BY <1>1, <3>1, <3>2, CostIs, ZenonT(60)
  <2> QED BY <1>1, <1>2, <2>1 DEF Path
<1>4. ASSUME NEW i \in 0..n, NEW j \in 0..n, i <= j PROVE f[i] <= f[j]
  <2> DEFINE S == {k \in Nat : i + k <= n => f[i] <= f[i + k]}
  <2>1. S = Nat
    <3>1. S \in SUBSET Nat /\ 0 \in S
      BY <1>1, <1>2
    <3>2. ASSUME NEW k \in S PROVE k + 1 \in S
      <4> SUFFICES ASSUME i + (k + 1) <= n PROVE f[i] <= f[i + (k + 1)]
        OBVIOUS
      <4>1. f[i] <= f[i + k] /\ i + k \in 0..n /\ i + (k + 1) \in 1..n
            /\ (i + (k + 1)) - 1 = i + k
        BY <1>1
      <4>2. f[i + (k + 1)] = f[i + k] + d[i + (k + 1)]
        BY <1>2, <4>1
      <4>3. f[i] \in Nat /\ f[i + k] \in Nat /\ d[i + (k + 1)] \in Nat
        BY <1>1, <1>2, <4>1
      <4> HIDE DEF d
      <4> QED BY <4>1, <4>2, <4>3
    <3> HIDE DEF S
    <3> QED BY <3>1, <3>2, AllNaturals
  <2>2. j - i \in S
    BY <1>1, <1>4, <2>1
  <2> QED BY <1>1, <1>4, <2>2
<1> QED BY <1>1, <1>2, <1>3, <1>4 DEF IsCost

\* Nodes and lanes make the path: its cost is theirs.
LEMMA SamePath ==
  ASSUME Given, NEW r, NEW o, Path(r), Path(o), Len(r.nodes) = Len(o.nodes),
         \A i \in 1..Len(r.nodes) : r.nodes[i] = o.nodes[i],
         \A i \in 1..Len(r.lanes) : r.lanes[i] = o.lanes[i]
  PROVE  r = o
<1>1. /\ Len(r.lanes) = Len(o.lanes) /\ r.nodes \in Seq(Nodes) /\ o.nodes \in Seq(Nodes)
      /\ r.lanes \in Seq({1, 2}) /\ o.lanes \in Seq({1, 2})
      /\ r = Entry(r.cost, r.nodes, r.lanes) /\ o = Entry(o.cost, o.nodes, o.lanes)
  BY PathType
<1>2. r.nodes = o.nodes
  BY <1>1, SeqEqual
<1>3. r.lanes = o.lanes
  BY <1>1, SeqEqual
<1>4. r.cost = o.cost
  BY <1>2, <1>3 DEF Path
<1> QED BY <1>1, <1>2, <1>3, <1>4

\* A part of a path is a path.
Part(r, a, b) ==
  LET nodes == SubSeq(r.nodes, a, b)
      lanes == SubSeq(r.lanes, a, b - 1)
  IN Entry(TotalCost(nodes, lanes), nodes, lanes)

\* It costs what the whole costs there.
LEMMA PartOfPath ==
  ASSUME Given, NEW r, Path(r), NEW a \in 1..Len(r.nodes), NEW b \in a..Len(r.nodes)
  PROVE  LET part == Part(r, a, b)
         IN /\ Path(part) /\ Len(part.nodes) = b - a + 1 /\ Len(part.lanes) = b - a
            /\ \A i \in 1..(b - a + 1) : part.nodes[i] = r.nodes[a + i - 1]
            /\ \A i \in 1..(b - a) : part.lanes[i] = r.lanes[a + i - 1]
            /\ \A f : IsCost(f, r) => part.cost = f[b - 1] - f[a - 1]
<1> DEFINE nodes == SubSeq(r.nodes, a, b)
           lanes == SubSeq(r.lanes, a, b - 1)
           part == Part(r, a, b)
           n == Len(r.lanes)
<1>1. /\ n \in Nat /\ Len(r.nodes) = n + 1 /\ a \in 1..(n + 1) /\ b \in a..(n + 1)
      /\ \A i \in 1..(n + 1) : r.nodes[i] \in Nodes
      /\ \A i \in 1..n : r.lanes[i] \in {1, 2}
  BY PathType
<1>2. /\ nodes \in Seq(Nodes) /\ Len(nodes) = b - a + 1
      /\ \A i \in 1..(b - a + 1) : nodes[i] = r.nodes[a + i - 1]
  <2>1. a \in Int /\ b \in Int /\ a <= b /\ \A i \in a..b : r.nodes[i] \in Nodes
    BY <1>1
  <2> QED BY <2>1, SubSeqProperties
<1>3. /\ lanes \in Seq({1, 2}) /\ Len(lanes) = b - a
      /\ \A i \in 1..(b - a) : lanes[i] = r.lanes[a + i - 1]
  <2>1. a \in Int /\ b - 1 \in Int /\ \A i \in a..(b - 1) : r.lanes[i] \in {1, 2}
    BY <1>1
  <2>2. /\ lanes \in Seq({1, 2}) /\ Len(lanes) = IF a <= b - 1 THEN b - 1 - a + 1 ELSE 0
        /\ \A i \in 1..(b - 1 - a + 1) : lanes[i] = r.lanes[a + i - 1]
    BY <2>1, SubSeqProperties
  <2> QED BY <1>1, <2>2
<1>4. \A i \in 1..(b - a) : ChainOf(nodes, lanes, i) = ChainOf(r.nodes, r.lanes, a + i - 1)
  <2> SUFFICES ASSUME NEW i \in 1..(b - a)
               PROVE  ChainOf(nodes, lanes, i) = ChainOf(r.nodes, r.lanes, a + i - 1)
    OBVIOUS
  <2>1. /\ nodes[i] = r.nodes[a + i - 1] /\ nodes[i + 1] = r.nodes[(a + i - 1) + 1]
        /\ lanes[i] = r.lanes[a + i - 1]
    <3>1. i \in 1..(b - a + 1) /\ i + 1 \in 1..(b - a + 1) /\ a + (i + 1) - 1 = (a + i - 1) + 1
      BY <1>1
    <3> HIDE DEF nodes, lanes
    <3> QED BY <1>2, <1>3, <3>1
  <2> HIDE DEF nodes, lanes
  <2> QED BY <2>1 DEF ChainOf
<1>5. \A i \in 1..(b - a) : a + i - 1 \in 1..n
  BY <1>1
<1>6. \A i \in 1..(b - a) : ChainOf(nodes, lanes, i) \in kept
  <2> HIDE DEF nodes, lanes
  <2> QED BY <1>4, <1>5 DEF Path
<1>7. \A i, j \in 1..(b - a + 1) : nodes[i] = nodes[j] => i = j
  <2> SUFFICES ASSUME NEW i \in 1..(b - a + 1), NEW j \in 1..(b - a + 1), nodes[i] = nodes[j]
               PROVE  i = j
    OBVIOUS
  <2>1. a + i - 1 \in 1..(n + 1) /\ a + j - 1 \in 1..(n + 1)
    BY <1>1
  <2>2. r.nodes[a + i - 1] = r.nodes[a + j - 1]
    <3> HIDE DEF nodes
    <3> QED BY <1>2
  <2>3. a + i - 1 = a + j - 1
    BY <1>1, <2>1, <2>2 DEF Path
  <2> QED BY <1>1, <2>3
<1>8. ASSUME NEW f, IsCost(f, r) PROVE TotalCost(nodes, lanes) = f[b - 1] - f[a - 1]
  <2> DEFINE g == [i \in 0..(b - a) |-> f[a - 1 + i]]
  <2>1. \A i \in 0..(b - a) : a - 1 + i \in 0..n /\ f[a - 1 + i] \in Int
    BY <1>1, <1>8 DEF IsCost
  <2>2. g \in [0..(b - a) -> Int]
    BY <2>1
  <2>3. \A i \in 1..(b - a) : /\ g[i] = g[i - 1] + cost[ChainOf(nodes, lanes, i)]
                              /\ cost[ChainOf(nodes, lanes, i)] \in Nat
    <3> SUFFICES ASSUME NEW i \in 1..(b - a)
                 PROVE  /\ g[i] = g[i - 1] + cost[ChainOf(nodes, lanes, i)]
                        /\ cost[ChainOf(nodes, lanes, i)] \in Nat
      OBVIOUS
    <3>1. /\ i \in 0..(b - a) /\ i - 1 \in 0..(b - a) /\ a + i - 1 \in 1..n
          /\ a - 1 + i = a + i - 1 /\ a - 1 + (i - 1) = (a + i - 1) - 1
      BY <1>1
    <3>2. f[a + i - 1] = f[(a + i - 1) - 1] + cost[ChainOf(r.nodes, r.lanes, a + i - 1)]
      BY <1>8, <3>1 DEF IsCost
    <3>3. cost[ChainOf(r.nodes, r.lanes, a + i - 1)] \in Nat
      BY <3>1, PathType
    <3>4. g[i] = f[a + i - 1] /\ g[i - 1] = f[(a + i - 1) - 1]
      BY <3>1
    <3> HIDE DEF nodes, lanes, g
    <3> QED BY <1>4, <3>2, <3>3, <3>4
  <2>4. g[b - a] = f[b - 1] /\ g[0] = f[a - 1]
    <3>1. b - a \in 0..(b - a) /\ 0 \in 0..(b - a) /\ a - 1 + (b - a) = b - 1 /\ a - 1 + 0 = a - 1
      BY <1>1
    <3> QED BY <3>1
  <2>5. b - a \in Nat
    BY <1>1
  <2> HIDE DEF g, nodes, lanes
  <2>6. TotalCost(nodes, lanes) = g[Len(lanes)] - g[0]
    <3>1. Len(lanes) = b - a
      BY <1>3
    <3>2. /\ Len(lanes) \in Nat /\ g \in [0..Len(lanes) -> Int]
          /\ \A i \in 1..Len(lanes) : /\ g[i] = g[i - 1] + cost[ChainOf(nodes, lanes, i)]
                                     /\ cost[ChainOf(nodes, lanes, i)] \in Nat
      BY <2>2, <2>3, <2>5, <3>1, Zenon
    <3> QED BY <3>2, CostIs
  <2> QED BY <1>3, <2>4, <2>6
<1>9. TotalCost(nodes, lanes) \in Nat
  <2>1. PICK f : IsCost(f, r)
    BY CostExists
  <2>2. a - 1 \in 0..n /\ b - 1 \in 0..n /\ a - 1 <= b - 1
    BY <1>1
  <2>3. f[a - 1] \in Nat /\ f[b - 1] \in Nat /\ f[a - 1] <= f[b - 1]
    BY <2>1, <2>2 DEF IsCost
  <2>4. TotalCost(nodes, lanes) = f[b - 1] - f[a - 1]
    BY <1>8, <2>1
  <2> HIDE DEF nodes, lanes
  <2> QED BY <2>3, <2>4
<1>10. part = [cost |-> TotalCost(nodes, lanes), nodes |-> nodes, lanes |-> lanes]
  BY DEF Part, Entry
<1> HIDE DEF nodes, lanes, part
<1>11. part.nodes = nodes /\ part.lanes = lanes /\ part.cost = TotalCost(nodes, lanes)
  BY <1>10
<1>12. Path(part)
  <2>1. part \in [cost : Nat, nodes : Seq(Nodes), lanes : Seq({1, 2})]
    BY <1>2, <1>3, <1>9, <1>10
  <2>2. Len(part.nodes) = Len(part.lanes) + 1
    BY <1>1, <1>2, <1>3, <1>11
  <2> QED BY <1>2, <1>3, <1>6, <1>7, <1>11, <2>1, <2>2 DEF Path
<1> QED BY <1>2, <1>3, <1>8, <1>11, <1>12 DEF part

\* A path and one that leads on from its end make a path.
Join(r, s) == Entry(r.cost + s.cost, r.nodes \o Tail(s.nodes), r.lanes \o s.lanes)

\* Their costs are added.
LEMMA JoinOfPaths ==
  ASSUME Given, NEW r, NEW s, Path(r), Path(s), End(r) = s.nodes[1],
         \A i \in 1..Len(r.nodes) : \A j \in 2..Len(s.nodes) : r.nodes[i] # s.nodes[j]
  PROVE  LET join == Join(r, s)
             n == Len(r.lanes)
             m == Len(s.lanes)
         IN /\ Path(join) /\ Len(join.nodes) = n + m + 1 /\ Len(join.lanes) = n + m
            /\ \A i \in 1..(n + m + 1) :
                 join.nodes[i] = IF i <= n + 1 THEN r.nodes[i] ELSE s.nodes[i - n]
            /\ \A i \in 1..(n + m) : join.lanes[i] = IF i <= n THEN r.lanes[i] ELSE s.lanes[i - n]
            /\ join.cost = r.cost + s.cost
<1> DEFINE n == Len(r.lanes)
           m == Len(s.lanes)
           nodes == r.nodes \o Tail(s.nodes)
           lanes == r.lanes \o s.lanes
           join == Join(r, s)
<1>0. n \in Nat /\ m \in Nat
  BY PathType
<1>1. /\ Len(r.lanes) = n /\ Len(s.lanes) = m /\ Len(r.nodes) = n + 1 /\ Len(s.nodes) = m + 1
      /\ r.nodes \in Seq(Nodes) /\ s.nodes \in Seq(Nodes)
      /\ r.lanes \in Seq({1, 2}) /\ s.lanes \in Seq({1, 2})
      /\ r.cost \in Nat /\ s.cost \in Nat /\ s.nodes[1] = r.nodes[n + 1]
  BY PathType DEF End
<1>s. /\ \A i, j \in 1..(n + 1) : r.nodes[i] = r.nodes[j] => i = j
      /\ \A i \in 1..n : /\ ChainOf(r.nodes, r.lanes, i) \in kept
                         /\ cost[ChainOf(r.nodes, r.lanes, i)] \in Nat
      /\ \A i, j \in 1..(m + 1) : s.nodes[i] = s.nodes[j] => i = j
      /\ \A i \in 1..m : /\ ChainOf(s.nodes, s.lanes, i) \in kept
                         /\ cost[ChainOf(s.nodes, s.lanes, i)] \in Nat
  BY <1>1, PathType DEF Path
<1>d. \A i \in 1..(n + 1) : \A j \in 2..(m + 1) : r.nodes[i] # s.nodes[j]
  BY <1>1
<1>f. \A f : IsCost(f, r) =>
        /\ f \in [0..n -> Nat] /\ f[0] = 0 /\ f[n] = r.cost
        /\ \A i \in 1..n : f[i] = f[i - 1] + cost[ChainOf(r.nodes, r.lanes, i)]
  BY <1>1 DEF IsCost
<1>g. \A f : IsCost(f, s) =>
        /\ f \in [0..m -> Nat] /\ f[0] = 0 /\ f[m] = s.cost
        /\ \A i \in 1..m : f[i] = f[i - 1] + cost[ChainOf(s.nodes, s.lanes, i)]
  BY <1>1 DEF IsCost
<1> HIDE DEF n, m
<1>2. /\ Tail(s.nodes) \in Seq(Nodes) /\ Len(Tail(s.nodes)) = m
      /\ \A i \in 1..m : Tail(s.nodes)[i] = s.nodes[i + 1]
  <2>1. s.nodes # <<>>
    BY <1>0, <1>1
  <2> QED BY <1>0, <1>1, <2>1, HeadTailProperties
<1>3. /\ nodes \in Seq(Nodes) /\ Len(nodes) = n + m + 1
      /\ \A i \in 1..(n + m + 1) : nodes[i] = IF i <= n + 1 THEN r.nodes[i] ELSE s.nodes[i - n]
  <2>1. /\ nodes \in Seq(Nodes) /\ Len(nodes) = (n + 1) + m
        /\ \A i \in 1..((n + 1) + m) :
             nodes[i] = IF i <= n + 1 THEN r.nodes[i] ELSE Tail(s.nodes)[i - (n + 1)]
    <3> DEFINE u == r.nodes
               v == Tail(s.nodes)
    <3>1. u \in Seq(Nodes) /\ v \in Seq(Nodes) /\ Len(u) = n + 1 /\ Len(v) = m
      BY <1>1, <1>2
    <3>2. nodes = u \o v
      OBVIOUS
    <3> HIDE DEF u, v, nodes
    <3>3. /\ nodes \in Seq(Nodes) /\ Len(nodes) = Len(u) + Len(v)
          /\ \A i \in 1..(Len(u) + Len(v)) :
               nodes[i] = IF i <= Len(u) THEN u[i] ELSE v[i - Len(u)]
      BY <3>1, <3>2, ConcatProperties, ZenonT(60)
    <3> QED BY <3>1, <3>3, Zenon DEF u, v
  <2>2. ASSUME NEW i \in 1..(n + m + 1)
        PROVE  nodes[i] = IF i <= n + 1 THEN r.nodes[i] ELSE s.nodes[i - n]
    <3>1. CASE i <= n + 1
      <4>1. i \in 1..((n + 1) + m)
        BY <1>0
      <4> HIDE DEF nodes
      <4> QED BY <2>1, <3>1, <4>1
    <3>2. CASE ~(i <= n + 1)
      <4>1. i - (n + 1) \in 1..m /\ (i - (n + 1)) + 1 = i - n /\ i \in 1..((n + 1) + m)
        BY <1>0, <1>1, <3>2
      <4> HIDE DEF nodes
      <4> QED BY <1>2, <2>1, <3>2, <4>1
    <3> QED BY <3>1, <3>2
  <2>3. (n + 1) + m = n + m + 1
    BY <1>0
  <2> HIDE DEF nodes
  <2> QED BY <2>1, <2>2, <2>3
<1>4. /\ lanes \in Seq({1, 2}) /\ Len(lanes) = n + m
      /\ \A i \in 1..(n + m) : lanes[i] = IF i <= n THEN r.lanes[i] ELSE s.lanes[i - n]
  <2> DEFINE u == r.lanes
             v == s.lanes
  <2>1. u \in Seq({1, 2}) /\ v \in Seq({1, 2}) /\ Len(u) = n /\ Len(v) = m
    BY <1>1
  <2>2. lanes = u \o v
    OBVIOUS
  <2> HIDE DEF u, v, lanes
  <2>3. /\ lanes \in Seq({1, 2}) /\ Len(lanes) = Len(u) + Len(v)
        /\ \A i \in 1..(Len(u) + Len(v)) :
             lanes[i] = IF i <= Len(u) THEN u[i] ELSE v[i - Len(u)]
    BY <2>1, <2>2, ConcatProperties, ZenonT(60)
  <2> QED BY <2>1, <2>3, Zenon DEF u, v
<1> HIDE DEF nodes, lanes
<1>5. ASSUME NEW i \in 1..(n + m)
      PROVE  ChainOf(nodes, lanes, i) =
               IF i <= n THEN ChainOf(r.nodes, r.lanes, i) ELSE ChainOf(s.nodes, s.lanes, i - n)
  <2>1. CASE i <= n
    <3>1. nodes[i] = r.nodes[i] /\ nodes[i + 1] = r.nodes[i + 1] /\ lanes[i] = r.lanes[i]
      <4>1. i \in 1..(n + m + 1) /\ i + 1 \in 1..(n + m + 1) /\ i <= n + 1 /\ i + 1 <= n + 1
        BY <1>0, <2>1
      <4> QED BY <1>3, <1>4, <2>1, <4>1
    <3> QED BY <2>1, <3>1 DEF ChainOf
  <2>2. CASE ~(i <= n)
    <3>1. /\ i - n \in 1..m /\ i + 1 \in 1..(n + m + 1) /\ ~(i + 1 <= n + 1)
          /\ (i + 1) - n = (i - n) + 1
      BY <1>0, <1>1, <2>2
    <3>2. nodes[i + 1] = s.nodes[(i - n) + 1] /\ lanes[i] = s.lanes[i - n]
      <4> QED BY <1>3, <1>4, <2>2, <3>1
    <3>3. nodes[i] = s.nodes[i - n]
      <4>1. CASE i = n + 1
        <5>1. nodes[i] = r.nodes[n + 1] /\ i - n = 1
          BY <1>0, <1>1, <1>3, <4>1
        <5> QED BY <1>0, <1>1, <5>1
      <4>2. CASE i # n + 1
        <5>1. i \in 1..(n + m + 1) /\ ~(i <= n + 1)
          BY <1>0, <1>1, <2>2, <4>2
        <5> QED BY <1>3, <5>1
      <4> QED BY <4>1, <4>2
    <3> QED BY <2>2, <3>2, <3>3 DEF ChainOf
  <2> QED BY <2>1, <2>2
<1>6. \A i \in 1..(n + m) : /\ ChainOf(nodes, lanes, i) \in kept
                            /\ cost[ChainOf(nodes, lanes, i)] \in Nat
  <2> SUFFICES ASSUME NEW i \in 1..(n + m)
               PROVE  /\ ChainOf(nodes, lanes, i) \in kept
                      /\ cost[ChainOf(nodes, lanes, i)] \in Nat
    OBVIOUS
  <2>1. CASE i <= n
    BY <1>0, <1>5, <1>s, <2>1
  <2>2. CASE ~(i <= n)
    <3>1. i - n \in 1..m
      BY <1>0, <1>1, <2>2
    <3> QED BY <1>5, <1>s, <2>2, <3>1
  <2> QED BY <2>1, <2>2
<1>7. \A i, j \in 1..(n + m + 1) : nodes[i] = nodes[j] => i = j
  <2>1. ASSUME NEW i \in 1..(n + 1), NEW j \in 1..(n + 1), nodes[i] = nodes[j] PROVE i = j
    BY <1>0, <1>3, <1>s, <2>1
  <2>2. ASSUME NEW i \in 1..(n + 1), NEW j \in (n + 2)..(n + m + 1) PROVE nodes[i] # nodes[j]
    <3>1. j - n \in 2..(m + 1) /\ i \in 1..(n + 1)
      BY <1>0, <1>1
    <3>2. nodes[i] = r.nodes[i] /\ nodes[j] = s.nodes[j - n]
      BY <1>0, <1>1, <1>3, SMTT(60)
    <3> QED BY <1>d, <3>1, <3>2
  <2>3. ASSUME NEW i \in (n + 2)..(n + m + 1), NEW j \in (n + 2)..(n + m + 1), nodes[i] = nodes[j]
        PROVE  i = j
    <3>1. i - n \in 1..(m + 1) /\ j - n \in 1..(m + 1)
      BY <1>0, <1>1
    <3>2. s.nodes[i - n] = s.nodes[j - n]
      <4>1. ~(i <= n + 1) /\ ~(j <= n + 1) /\ i \in 1..(n + m + 1) /\ j \in 1..(n + m + 1)
        BY <1>0
      <4>2. nodes[i] = s.nodes[i - n] /\ nodes[j] = s.nodes[j - n]
        BY <1>3, <4>1
      <4> QED BY <2>3, <4>2
    <3>3. i - n = j - n
      <4> QED BY <1>s, <3>1, <3>2
    <3> QED BY <1>0, <1>1, <3>3
  <2>4. \A i \in 1..(n + m + 1) : i \in 1..(n + 1) \/ i \in (n + 2)..(n + m + 1)
    BY <1>0, <1>1
  <2> QED BY <2>1, <2>2, <2>3, <2>4
<1>8. TotalCost(nodes, lanes) = r.cost + s.cost
  <2>1. PICK f : IsCost(f, r)
    BY CostExists
  <2>2. PICK h : IsCost(h, s)
    BY CostExists
  <2> DEFINE g == [i \in 0..Len(lanes) |-> IF i <= n THEN f[i] ELSE f[n] + h[i - n]]
  <2>3. /\ f \in [0..n -> Nat] /\ f[0] = 0 /\ f[n] = r.cost
        /\ \A i \in 1..n : f[i] = f[i - 1] + cost[ChainOf(r.nodes, r.lanes, i)]
        /\ h \in [0..m -> Nat] /\ h[0] = 0 /\ h[m] = s.cost
        /\ \A i \in 1..m : h[i] = h[i - 1] + cost[ChainOf(s.nodes, s.lanes, i)]
    BY <1>f, <1>g, <2>1, <2>2
  <2>4. g \in [0..Len(lanes) -> Int]
    <3> SUFFICES ASSUME NEW i \in 0..(n + m) PROVE (IF i <= n THEN f[i] ELSE f[n] + h[i - n]) \in Int
      BY <1>4
    <3>1. CASE i <= n
      BY <1>0, <1>1, <2>3, <3>1
    <3>2. CASE ~(i <= n)
      <4>1. i - n \in 0..m /\ n \in 0..n
        BY <1>0, <1>1, <3>2
      <4> QED BY <2>3, <3>2, <4>1
    <3> QED BY <3>1, <3>2
  <2>5. \A i \in 0..(n + m) : g[i] = IF i <= n THEN f[i] ELSE f[n] + h[i - n]
    BY <1>4
  <2> HIDE DEF g
  <2>6. ASSUME NEW i \in 1..(n + m) PROVE g[i] = g[i - 1] + cost[ChainOf(nodes, lanes, i)]
    <3>1. CASE i <= n
      <4>1. g[i] = f[i] /\ g[i - 1] = f[i - 1] /\ i \in 1..n
        BY <1>0, <1>1, <2>5, <3>1, SMTT(60)
      <4> QED BY <1>5, <2>3, <3>1, <4>1
    <3>2. CASE ~(i <= n)
      <4>1. /\ i - n \in 1..m /\ (i - 1) - n = (i - n) - 1 /\ i - 1 \in 0..(n + m)
            /\ i \in 0..(n + m) /\ (i - n) - 1 \in 0..m /\ n \in 0..n /\ i - n \in 0..m
        BY <1>0, <1>1, <3>2
      <4>2. g[i] = f[n] + h[i - n]
        <5> QED BY <2>5, <3>2, <4>1
      <4>3. g[i - 1] = f[n] + h[(i - n) - 1]
        <5>1. CASE i - 1 <= n
          <6>1. i - 1 = n /\ (i - n) - 1 = 0
            BY <1>0, <1>1, <3>2, <5>1
          <6>2. g[i - 1] = f[n] /\ f[n] \in Nat
            <7> QED BY <2>3, <2>5, <4>1, <6>1
          <6> QED BY <2>3, <6>1, <6>2
        <5>2. CASE ~(i - 1 <= n)
          <6> QED BY <2>5, <4>1, <5>2
        <5> QED BY <5>1, <5>2
      <4>4. h[i - n] = h[(i - n) - 1] + cost[ChainOf(s.nodes, s.lanes, i - n)]
        <5> QED BY <2>3, <4>1
      <4>5. ChainOf(nodes, lanes, i) = ChainOf(s.nodes, s.lanes, i - n)
        BY <1>5, <3>2
      <4>6. /\ f[n] \in Nat /\ h[(i - n) - 1] \in Nat
            /\ cost[ChainOf(s.nodes, s.lanes, i - n)] \in Nat
        <5>1. cost[ChainOf(s.nodes, s.lanes, i - n)] \in Nat
          BY <1>6, <4>5
        <5> QED BY <2>3, <4>1, <5>1
      <4> QED BY <4>2, <4>3, <4>4, <4>5, <4>6
    <3> QED BY <3>1, <3>2
  <2>7. TotalCost(nodes, lanes) = g[Len(lanes)] - g[0]
    <3>1. Len(lanes) = n + m /\ Len(lanes) \in Nat
      BY <1>0, <1>1, <1>4
    <3>2. \A i \in 1..Len(lanes) : /\ g[i] = g[i - 1] + cost[ChainOf(nodes, lanes, i)]
                                   /\ cost[ChainOf(nodes, lanes, i)] \in Nat
      BY <1>6, <2>6, <3>1, Zenon
    <3> QED BY <2>4, <3>1, <3>2, CostIs, SMTT(60)
  <2>8. g[0] = 0 /\ g[n + m] = r.cost + s.cost
    <3>1. 0 \in 0..(n + m) /\ 0 <= n /\ n + m \in 0..(n + m)
      BY <1>0, <1>1
    <3>2. g[0] = 0
      <4> QED BY <2>3, <2>5, <3>1
    <3>3. CASE m = 0
      <4>1. n + m <= n /\ n + m = n /\ s.cost = 0
        BY <1>0, <1>1, <2>3, <3>3
      <4> QED BY <1>0, <1>1, <2>3, <2>5, <3>1, <3>2, <4>1
    <3>4. CASE m # 0
      <4>1. ~(n + m <= n) /\ (n + m) - n = m
        BY <1>0, <1>1, <3>4
      <4> QED BY <2>3, <2>5, <3>1, <3>2, <4>1
    <3> QED BY <3>3, <3>4
  <2> QED BY <1>0, <1>1, <1>4, <2>7, <2>8
<1>9. join = [cost |-> r.cost + s.cost, nodes |-> nodes, lanes |-> lanes]
  BY DEF Join, Entry, nodes, lanes
<1> HIDE DEF join
<1>10. join.nodes = nodes /\ join.lanes = lanes /\ join.cost = r.cost + s.cost
  BY <1>9
<1>11. Path(join)
  <2>1. join \in [cost : Nat, nodes : Seq(Nodes), lanes : Seq({1, 2})]
    <3>1. nodes \in Seq(Nodes) /\ lanes \in Seq({1, 2}) /\ r.cost + s.cost \in Nat
      BY <1>1, <1>3, <1>4
    <3> QED BY <1>9, <3>1
  <2>2. Len(join.nodes) = n + m + 1 /\ Len(join.lanes) = n + m /\ n + m + 1 = (n + m) + 1
    BY <1>0, <1>1, <1>3, <1>4, <1>10
  <2> QED BY <1>6, <1>7, <1>8, <1>10, <2>1, <2>2 DEF Path
<1> QED BY <1>3, <1>4, <1>10, <1>11, Zenon DEF join, n, m

\* Paths of no chain and of one.
LEMMA OnePath ==
  ASSUME Given, NEW n \in Nodes
  PROVE  Path(Entry(0, <<n>>, <<>>))
<1> DEFINE f == [i \in 0..0 |-> 0]
<1>1. TotalCost(<<n>>, <<>>) = 0
  <2>1. /\ Len(<<>>) = 0 /\ f \in [0..0 -> Int] /\ f[0] = 0
        /\ \A i \in 1..0 : f[i] = f[i - 1] + cost[ChainOf(<<n>>, <<>>, i)]
        /\ \A i \in 1..0 : cost[ChainOf(<<n>>, <<>>, i)] \in Nat
    OBVIOUS
  <2> HIDE DEF f
  <2>2. TotalCost(<<n>>, <<>>) = f[Len(<<>>)] - f[0]
    BY <2>1, CostIs
  <2> QED BY <2>1, <2>2
<1>2. Entry(0, <<n>>, <<>>) \in [cost : Nat, nodes : Seq(Nodes), lanes : Seq({1, 2})]
  BY DEF Entry
<1>3. /\ Len(<<n>>) = 1 /\ Len(<<>>) = 0
      /\ \A i, j \in 1..1 : <<n>>[i] = <<n>>[j] => i = j
  OBVIOUS
<1> QED BY <1>1, <1>2, <1>3 DEF Path, Entry

LEMMA StepPath ==
  ASSUME Given, NEW a \in Nodes, NEW b \in Nodes, a # b, NEW l \in {1, 2}, <<{a, b}, l>> \in kept
  PROVE  Path(Entry(cost[<<{a, b}, l>>], <<a, b>>, <<l>>))
<1> DEFINE c == cost[<<{a, b}, l>>]
           f == [i \in 0..1 |-> IF i = 0 THEN 0 ELSE c]
<1>1. c \in Nat
  BY DEF Given, GraphAssumption
<1>2. ChainOf(<<a, b>>, <<l>>, 1) = <<{a, b}, l>>
  BY DEF ChainOf
<1>3. TotalCost(<<a, b>>, <<l>>) = c
  <2>1. /\ Len(<<l>>) = 1 /\ f \in [0..1 -> Int] /\ f[0] = 0 /\ f[1] = c
    BY <1>1
  <2>2. \A i \in 1..1 : /\ cost[ChainOf(<<a, b>>, <<l>>, i)] \in Nat
                        /\ f[i] = f[i - 1] + cost[ChainOf(<<a, b>>, <<l>>, i)]
    <3> SUFFICES /\ cost[ChainOf(<<a, b>>, <<l>>, 1)] \in Nat
                 /\ f[1] = f[1 - 1] + cost[ChainOf(<<a, b>>, <<l>>, 1)]
      OBVIOUS
    <3> HIDE DEF f
    <3> QED BY <1>1, <1>2, <2>1
  <2> HIDE DEF f, c
  <2>3. TotalCost(<<a, b>>, <<l>>) = f[Len(<<l>>)] - f[0]
    BY <2>1, <2>2, CostIs
  <2> QED BY <1>1, <2>1, <2>3
<1>4. Entry(c, <<a, b>>, <<l>>) \in [cost : Nat, nodes : Seq(Nodes), lanes : Seq({1, 2})]
  BY <1>1 DEF Entry
<1>5. /\ Len(<<a, b>>) = 2 /\ Len(<<l>>) = 1
      /\ \A i, j \in 1..2 : <<a, b>>[i] = <<a, b>>[j] => i = j
      /\ \A i \in 1..1 : ChainOf(<<a, b>>, <<l>>, i) \in kept
  BY <1>2
<1> QED BY <1>3, <1>4, <1>5 DEF Path, Entry

\* The entry that Extensions makes of a node and a lane.
Extended(r, x, l) ==
  Entry(r.cost + cost[<<{End(r), x}, l>>], Append(r.nodes, x), Append(r.lanes, l))

\* It is a path, one chain longer.
LEMMA ExtendedPath ==
  ASSUME Given, NEW r, Path(r), NEW x \in Nodes, NEW l \in {1, 2},
         \A i \in 1..Len(r.nodes) : r.nodes[i] # x, <<{End(r), x}, l>> \in kept
  PROVE  LET e == Extended(r, x, l)
             n == Len(r.lanes)
         IN /\ Path(e) /\ Len(e.nodes) = n + 2 /\ Len(e.lanes) = n + 1
            /\ \A i \in 1..(n + 1) : e.nodes[i] = r.nodes[i]
            /\ e.nodes[n + 2] = x
            /\ \A i \in 1..n : e.lanes[i] = r.lanes[i]
            /\ e.lanes[n + 1] = l
<1> DEFINE e == Extended(r, x, l)
           n == Len(r.lanes)
           s == Entry(cost[<<{End(r), x}, l>>], <<End(r), x>>, <<l>>)
<1>1. /\ n \in Nat /\ Len(r.nodes) = n + 1 /\ r.nodes \in Seq(Nodes) /\ r.lanes \in Seq({1, 2})
      /\ End(r) \in Nodes /\ End(r) # x
  BY PathType DEF End
<1>2. Path(s)
  BY <1>1, StepPath
<1>3. /\ s.nodes = <<End(r), x>> /\ s.lanes = <<l>> /\ s.cost = cost[<<{End(r), x}, l>>]
      /\ Len(s.nodes) = 2 /\ Len(s.lanes) = 1 /\ s.nodes[1] = End(r) /\ s.nodes[2] = x
      /\ s.lanes[1] = l /\ Tail(s.nodes) = <<x>>
  BY DEF Entry
<1> HIDE DEF s
<1>4. e = Join(r, s)
  <2>1. Append(r.nodes, x) = r.nodes \o <<x>> /\ Append(r.lanes, l) = r.lanes \o <<l>>
    BY <1>1, AppendIsConcat
  <2> QED BY <1>3, <2>1 DEF Join, Extended
<1>5. \A i \in 1..Len(r.nodes) : \A j \in 2..Len(s.nodes) : r.nodes[i] # s.nodes[j]
  BY <1>3
<1> HIDE DEF e
<1>6. /\ Path(e) /\ Len(e.nodes) = n + Len(s.lanes) + 1 /\ Len(e.lanes) = n + Len(s.lanes)
      /\ \A i \in 1..(n + Len(s.lanes) + 1) :
           e.nodes[i] = IF i <= n + 1 THEN r.nodes[i] ELSE s.nodes[i - n]
      /\ \A i \in 1..(n + Len(s.lanes)) :
           e.lanes[i] = IF i <= n THEN r.lanes[i] ELSE s.lanes[i - n]
  <2>1. End(r) = s.nodes[1]
    BY <1>3
  <2> HIDE DEF n
  <2> QED BY <1>2, <1>4, <1>5, <2>1, JoinOfPaths, ZenonT(60) DEF n
<1>7. /\ Path(e) /\ Len(e.nodes) = n + 2 /\ Len(e.lanes) = n + 1
      /\ \A i \in 1..(n + 2) : e.nodes[i] = IF i <= n + 1 THEN r.nodes[i] ELSE s.nodes[i - n]
      /\ \A i \in 1..(n + 1) : e.lanes[i] = IF i <= n THEN r.lanes[i] ELSE s.lanes[i - n]
  <2>1. n + 1 + 1 = n + 2
    BY <1>1
  <2> HIDE DEF n
  <2> QED BY <1>3, <1>6, <2>1, Zenon
<1> HIDE DEF n
<1>8. /\ n + 2 \in 1..(n + 2) /\ ~(n + 2 <= n + 1) /\ (n + 2) - n = 2
      /\ n + 1 \in 1..(n + 1) /\ ~(n + 1 <= n) /\ (n + 1) - n = 1
      /\ \A i \in 1..(n + 1) : i \in 1..(n + 2) /\ i <= n + 1
      /\ \A i \in 1..n : i \in 1..(n + 1) /\ i <= n
  BY <1>1
<1>9. e.nodes[n + 2] = x /\ e.lanes[n + 1] = l
  BY <1>3, <1>7, <1>8
<1>10. /\ \A i \in 1..(n + 1) : e.nodes[i] = r.nodes[i]
       /\ \A i \in 1..n : e.lanes[i] = r.lanes[i]
  BY <1>7, <1>8
<1> QED BY <1>7, <1>9, <1>10, Zenon DEF e, n

-------------------------------------------------------------------------------
(* The ways of one search *)

\* The node that a search starts from, and what it may find.
Source == IF spur = 0 THEN Start ELSE Previous.nodes[spur]

Way(p) ==
  /\ Path(p) /\ p.nodes[1] = Source
  /\ \A i \in 2..Len(p.nodes) : p.nodes[i] \notin BannedNodes
  /\ \A i \in 1..Len(p.lanes) : ChainOf(p.nodes, p.lanes, i) \notin BannedEdges

GoalWay(p) == Way(p) /\ End(p) = Goal

\* The beginning of a way is a way.
LEMMA WayPart ==
  ASSUME Given, NEW p, Way(p), NEW k \in 1..Len(p.nodes)
  PROVE  LET part == Part(p, 1, k)
         IN /\ Way(part) /\ End(part) = p.nodes[k] /\ Len(part.nodes) = k /\ Len(part.lanes) = k - 1
            /\ \A i \in 1..k : part.nodes[i] = p.nodes[i]
            /\ \A i \in 1..(k - 1) : part.lanes[i] = p.lanes[i]
            /\ \A f : IsCost(f, p) => part.cost = f[k - 1]
<1> DEFINE part == Part(p, 1, k)
<1>1. /\ Len(p.nodes) = Len(p.lanes) + 1 /\ Len(p.lanes) \in Nat /\ 1 \in 1..Len(p.nodes)
      /\ k \in 1..Len(p.nodes) /\ k - 1 + 1 = k
  BY PathType DEF Way
<1>2. /\ Path(part) /\ Len(part.nodes) = k - 1 + 1 /\ Len(part.lanes) = k - 1
      /\ \A i \in 1..(k - 1 + 1) : part.nodes[i] = p.nodes[1 + i - 1]
      /\ \A i \in 1..(k - 1) : part.lanes[i] = p.lanes[1 + i - 1]
      /\ \A f : IsCost(f, p) => part.cost = f[k - 1] - f[1 - 1]
  BY <1>1, PartOfPath DEF Way
<1> HIDE DEF part
<1>3. Len(part.nodes) = k /\ \A i \in 1..k : part.nodes[i] = p.nodes[i]
  <2>1. \A i \in 1..k : 1 + i - 1 = i
    BY <1>1
  <2> QED BY <1>1, <1>2, <2>1
<1>4. \A i \in 1..(k - 1) : part.lanes[i] = p.lanes[i]
  <2>1. \A i \in 1..(k - 1) : 1 + i - 1 = i
    BY <1>1
  <2> QED BY <1>2, <2>1
<1>5. ASSUME NEW f, IsCost(f, p) PROVE part.cost = f[k - 1]
  <2>1. f[0] = 0 /\ f[k - 1] \in Nat /\ 1 - 1 = 0
    <3>1. f[0] = 0 /\ f \in [0..Len(p.lanes) -> Nat] /\ k - 1 \in 0..Len(p.lanes)
      BY <1>1, <1>5 DEF IsCost
    <3> QED BY <3>1
  <2> QED BY <1>2, <1>5, <2>1
<1>6. part.nodes[1] = Source
  BY <1>1, <1>3 DEF Way
<1>7. \A i \in 2..Len(part.nodes) : part.nodes[i] \notin BannedNodes
  BY <1>1, <1>3, SMTT(60) DEF Way
<1>8. \A i \in 1..Len(part.lanes) : ChainOf(part.nodes, part.lanes, i) \notin BannedEdges
  <2> SUFFICES ASSUME NEW i \in 1..(k - 1)
               PROVE  ChainOf(part.nodes, part.lanes, i) \notin BannedEdges
    BY <1>2
  <2>1. i \in 1..k /\ i + 1 \in 1..k /\ i \in 1..Len(p.lanes)
    BY <1>1
  <2>2. ChainOf(part.nodes, part.lanes, i) = ChainOf(p.nodes, p.lanes, i)
    BY <1>3, <1>4, <2>1 DEF ChainOf
  <2> QED BY <2>1, <2>2 DEF Way
<1>9. Way(part)
  BY <1>2, <1>6, <1>7, <1>8 DEF Way
<1>10. End(part) = p.nodes[k]
  BY <1>1, <1>3 DEF End
<1> QED BY <1>2, <1>3, <1>4, <1>5, <1>9, <1>10 DEF part

\* A way that goes on along a path that nothing bans is a way.
LEMMA WayJoin ==
  ASSUME Given, NEW r, NEW s, Way(r), Path(s), End(r) = s.nodes[1],
         \A i \in 1..Len(r.nodes) : \A j \in 2..Len(s.nodes) : r.nodes[i] # s.nodes[j],
         \A i \in 2..Len(s.nodes) : s.nodes[i] \notin BannedNodes,
         \A i \in 1..Len(s.lanes) : ChainOf(s.nodes, s.lanes, i) \notin BannedEdges
  PROVE  LET join == Join(r, s)
         IN Way(join) /\ End(join) = End(s) /\ join.cost = r.cost + s.cost
<1> DEFINE join == Join(r, s)
           n == Len(r.lanes)
           m == Len(s.lanes)
<1>1. /\ Path(join) /\ Len(join.nodes) = n + m + 1 /\ Len(join.lanes) = n + m
      /\ \A i \in 1..(n + m + 1) :
           join.nodes[i] = IF i <= n + 1 THEN r.nodes[i] ELSE s.nodes[i - n]
      /\ \A i \in 1..(n + m) : join.lanes[i] = IF i <= n THEN r.lanes[i] ELSE s.lanes[i - n]
      /\ join.cost = r.cost + s.cost
  BY JoinOfPaths DEF Way
<1>2. /\ n \in Nat /\ m \in Nat /\ Len(r.nodes) = n + 1 /\ Len(s.nodes) = m + 1
      /\ Len(r.lanes) = n /\ Len(s.lanes) = m
  BY PathType DEF Way
<1>a. n \in Nat /\ m \in Nat
  BY <1>2
<1>3. s.nodes[1] = r.nodes[n + 1]
  BY <1>2 DEF End
<1>4. /\ \A i \in 2..(n + 1) : r.nodes[i] \notin BannedNodes
      /\ \A i \in 2..(m + 1) : s.nodes[i] \notin BannedNodes
      /\ \A i \in 1..n : ChainOf(r.nodes, r.lanes, i) \notin BannedEdges
      /\ \A i \in 1..m : ChainOf(s.nodes, s.lanes, i) \notin BannedEdges
      /\ r.nodes[1] = Source
  BY <1>2 DEF Way
<1> HIDE DEF n, m, join
<1>5. join.nodes[1] = Source
  <2>1. 1 \in 1..(n + m + 1) /\ 1 <= n + 1
    BY <1>a
  <2> QED BY <1>1, <1>4, <2>1
<1>6. ASSUME NEW i \in 2..(n + m + 1) PROVE join.nodes[i] \notin BannedNodes
  <2>1. i \in 1..(n + m + 1)
    BY <1>a
  <2>2. CASE i <= n + 1
    <3>1. i \in 2..(n + 1)
      BY <1>a, <2>2
    <3> QED BY <1>1, <1>4, <2>1, <2>2, <3>1
  <2>3. CASE ~(i <= n + 1)
    <3>1. i - n \in 2..(m + 1)
      BY <1>a, <2>3
    <3> QED BY <1>1, <1>4, <2>1, <2>3, <3>1
  <2> QED BY <2>2, <2>3
<1>7. ASSUME NEW i \in 1..(n + m) PROVE ChainOf(join.nodes, join.lanes, i) \notin BannedEdges
  <2>1. i \in 1..(n + m + 1) /\ i + 1 \in 1..(n + m + 1)
    BY <1>a
  <2>2. CASE i <= n
    <3>1. i \in 1..n /\ i <= n + 1 /\ i + 1 <= n + 1
      BY <1>a, <2>2
    <3>2. ChainOf(join.nodes, join.lanes, i) = ChainOf(r.nodes, r.lanes, i)
      BY <1>1, <2>1, <2>2, <3>1 DEF ChainOf
    <3> QED BY <1>4, <3>1, <3>2
  <2>3. CASE ~(i <= n)
    <3>1. /\ i - n \in 1..m /\ ~(i + 1 <= n + 1) /\ (i + 1) - n = (i - n) + 1
      BY <1>a, <2>3
    <3>2. join.nodes[i + 1] = s.nodes[(i - n) + 1] /\ join.lanes[i] = s.lanes[i - n]
      BY <1>1, <2>1, <2>3, <3>1
    <3>3. join.nodes[i] = s.nodes[i - n]
      <4>1. CASE i = n + 1
        <5>1. i <= n + 1 /\ i - n = 1
          BY <1>a, <4>1
        <5> QED BY <1>1, <1>3, <2>1, <4>1, <5>1
      <4>2. CASE i # n + 1
        <5>1. ~(i <= n + 1)
          BY <1>a, <2>3, <4>2
        <5> QED BY <1>1, <2>1, <5>1
      <4> QED BY <4>1, <4>2
    <3>4. ChainOf(join.nodes, join.lanes, i) = ChainOf(s.nodes, s.lanes, i - n)
      BY <3>2, <3>3 DEF ChainOf
    <3> QED BY <1>4, <3>1, <3>4
  <2> QED BY <2>2, <2>3
<1>8. Way(join)
  BY <1>1, <1>5, <1>6, <1>7 DEF Way
<1>9. End(join) = End(s)
  <2>1. n + m + 1 \in 1..(n + m + 1)
    BY <1>a
  <2>2. CASE m = 0
    <3>1. n + m + 1 <= n + 1 /\ n + m + 1 = n + 1 /\ m + 1 = 1
      BY <1>a, <2>2
    <3>2. join.nodes[n + m + 1] = s.nodes[m + 1]
      BY <1>1, <1>3, <2>1, <3>1
    <3> QED BY <1>1, <1>2, <3>2 DEF End
  <2>3. CASE m # 0
    <3>1. ~(n + m + 1 <= n + 1) /\ (n + m + 1) - n = m + 1
      BY <1>a, <2>3
    <3>2. join.nodes[n + m + 1] = s.nodes[m + 1]
      BY <1>1, <2>1, <3>1
    <3> QED BY <1>1, <1>2, <3>2 DEF End
  <2> QED BY <2>2, <2>3
<1> QED BY <1>1, <1>8, <1>9 DEF join

\* A way that goes on along one chain that nothing bans is a way.
LEMMA WayExtended ==
  ASSUME Given, NEW r, Way(r), NEW x \in Nodes, NEW l \in {1, 2},
         \A i \in 1..Len(r.nodes) : r.nodes[i] # x, <<{End(r), x}, l>> \in kept,
         x \notin BannedNodes, <<{End(r), x}, l>> \notin BannedEdges
  PROVE  Way(Extended(r, x, l))
<1> DEFINE e == Extended(r, x, l)
           n == Len(r.lanes)
<1>1. /\ Path(e) /\ Len(e.nodes) = n + 2 /\ Len(e.lanes) = n + 1
      /\ \A i \in 1..(n + 1) : e.nodes[i] = r.nodes[i]
      /\ e.nodes[n + 2] = x
      /\ \A i \in 1..n : e.lanes[i] = r.lanes[i]
      /\ e.lanes[n + 1] = l
  <2>1. Path(r)
    BY DEF Way
  <2> QED BY <2>1, ExtendedPath, ZenonT(180)
<1>2. n \in Nat /\ Len(r.nodes) = n + 1 /\ Len(r.lanes) = n
  BY PathType DEF Way
<1>3. /\ \A i \in 2..(n + 1) : r.nodes[i] \notin BannedNodes
      /\ \A i \in 1..n : ChainOf(r.nodes, r.lanes, i) \notin BannedEdges
      /\ r.nodes[1] = Source /\ End(r) = r.nodes[n + 1]
  BY <1>2 DEF Way, End
<1>a. n \in Nat
  BY <1>2
<1> HIDE DEF e, n
<1>4. e.nodes[1] = Source
  BY <1>a, <1>1, <1>3
<1>5. ASSUME NEW i \in 2..(n + 2) PROVE e.nodes[i] \notin BannedNodes
  <2>1. CASE i = n + 2
    BY <1>1, <2>1
  <2>2. CASE i # n + 2
    <3>1. i \in 2..(n + 1) /\ i \in 1..(n + 1)
      BY <1>a, <2>2
    <3> QED BY <1>1, <1>3, <3>1
  <2> QED BY <2>1, <2>2
<1>6. ASSUME NEW i \in 1..(n + 1) PROVE ChainOf(e.nodes, e.lanes, i) \notin BannedEdges
  <2>1. CASE i = n + 1
    <3>1. i \in 1..(n + 1) /\ i + 1 = n + 2
      BY <1>a, <2>1
    <3>2. ChainOf(e.nodes, e.lanes, i) = <<{End(r), x}, l>>
      BY <1>1, <1>3, <2>1, <3>1 DEF ChainOf
    <3> QED BY <3>2
  <2>2. CASE i # n + 1
    <3>1. i \in 1..n /\ i \in 1..(n + 1) /\ i + 1 \in 1..(n + 1)
      BY <1>a, <2>2
    <3>2. ChainOf(e.nodes, e.lanes, i) = ChainOf(r.nodes, r.lanes, i)
      BY <1>1, <3>1 DEF ChainOf
    <3> QED BY <1>3, <3>1, <3>2
  <2> QED BY <2>1, <2>2
<1> QED BY <1>1, <1>4, <1>5, <1>6 DEF Way, e

\* A cheaper way to a node of a way to the goal makes a cheaper way to the goal.
LEMMA Shortcut ==
  ASSUME Given, NEW p, GoalWay(p), NEW k \in 1..Len(p.nodes),
         NEW r, Way(r), End(r) = p.nodes[k], r.cost < Part(p, 1, k).cost
  PROVE  \E o : GoalWay(o) /\ o.cost < p.cost
<1> DEFINE n == Len(r.nodes)
           m == Len(p.nodes)
           H == {j \in Nat : j \in 1..n /\ \E i \in k..m : r.nodes[j] = p.nodes[i]}
<1>1. /\ n \in Nat \ {0} /\ m \in Nat \ {0} /\ Len(r.lanes) = n - 1 /\ Len(p.lanes) = m - 1
      /\ Len(r.nodes) = n /\ Len(p.nodes) = m /\ k \in 1..m
      /\ r.cost \in Nat /\ p.cost \in Nat
  BY PathType DEF GoalWay, Way
<1>a. n \in Nat \ {0} /\ m \in Nat \ {0} /\ k \in 1..m
  BY <1>1
<1>2. /\ Path(r) /\ Path(p) /\ r.nodes[n] = p.nodes[k] /\ p.nodes[m] = Goal
      /\ \A i, j \in 1..m : p.nodes[i] = p.nodes[j] => i = j
      /\ \A i \in 2..m : p.nodes[i] \notin BannedNodes
      /\ \A i \in 1..(m - 1) : ChainOf(p.nodes, p.lanes, i) \notin BannedEdges
  BY <1>1 DEF GoalWay, Way, Path, End
<1>3. PICK j \in H : \A l \in H : j <= l
  <2>1. n \in H /\ H \in SUBSET Nat
    BY <1>1, <1>2
  <2> HIDE DEF H
  <2> QED BY <2>1, LeastNatural
<1>4. PICK i \in k..m : r.nodes[j] = p.nodes[i]
  BY <1>3
<1>5. j \in 1..n
  BY <1>3
<1>6. ASSUME NEW u \in 1..(j - 1), NEW v \in k..m PROVE r.nodes[u] # p.nodes[v]
  <2>1. u \in Nat /\ u \in 1..n /\ ~(j <= u)
    BY <1>1, <1>5
  <2>2. u \notin H
    BY <1>3, <2>1
  <2> QED BY <2>1, <2>2
<1> DEFINE a == Part(r, 1, j)
           b == Part(p, i, m)
<1> HIDE DEF n, m, H
<1>7. /\ Way(a) /\ End(a) = r.nodes[j] /\ Len(a.nodes) = j
      /\ \A x \in 1..j : a.nodes[x] = r.nodes[x]
      /\ \A f : IsCost(f, r) => a.cost = f[j - 1]
  BY <1>1, <1>5, WayPart
<1>8. /\ Path(b) /\ Len(b.nodes) = m - i + 1 /\ Len(b.lanes) = m - i
      /\ \A x \in 1..(m - i + 1) : b.nodes[x] = p.nodes[i + x - 1]
      /\ \A x \in 1..(m - i) : b.lanes[x] = p.lanes[i + x - 1]
      /\ \A f : IsCost(f, p) => b.cost = f[m - 1] - f[i - 1]
  <2>1. i \in 1..Len(p.nodes) /\ m \in i..Len(p.nodes)
    BY <1>1
  <2> QED BY <1>2, <2>1, PartOfPath, ZenonT(60)
<1> HIDE DEF a, b
<1>9. End(a) = b.nodes[1]
  <2>1. 1 \in 1..(m - i + 1) /\ i + 1 - 1 = i
    BY <1>a
  <2>2. b.nodes[1] = p.nodes[i]
    BY <1>8, <2>1
  <2> QED BY <1>4, <1>7, <2>2
<1>10. ASSUME NEW u \in 1..j, NEW v \in 2..(m - i + 1) PROVE a.nodes[u] # b.nodes[v]
  <2>1. /\ v \in 1..(m - i + 1) /\ i + v - 1 \in k..m /\ i + v - 1 # i
        /\ i \in 1..m /\ i + v - 1 \in 1..m
    BY <1>a
  <2>2. a.nodes[u] = r.nodes[u] /\ b.nodes[v] = p.nodes[i + v - 1]
    BY <1>7, <1>8, <2>1
  <2>3. CASE u = j
    BY <1>2, <1>4, <2>1, <2>2, <2>3
  <2>4. CASE u # j
    <3>1. u \in 1..(j - 1)
      BY <1>a, <1>5, <2>4
    <3> QED BY <1>6, <2>1, <2>2, <3>1
  <2> QED BY <2>3, <2>4
<1>11. ASSUME NEW v \in 2..(m - i + 1) PROVE b.nodes[v] \notin BannedNodes
  <2>1. v \in 1..(m - i + 1) /\ i + v - 1 \in 2..m
    BY <1>a
  <2> QED BY <1>2, <1>8, <2>1
<1>12. ASSUME NEW v \in 1..(m - i) PROVE ChainOf(b.nodes, b.lanes, v) \notin BannedEdges
  <2>1. /\ v \in 1..(m - i + 1) /\ v + 1 \in 1..(m - i + 1) /\ i + v - 1 \in 1..(m - 1)
        /\ i + (v + 1) - 1 = (i + v - 1) + 1
    BY <1>a
  <2>2. ChainOf(b.nodes, b.lanes, v) = ChainOf(p.nodes, p.lanes, i + v - 1)
    BY <1>8, <2>1 DEF ChainOf
  <2> QED BY <1>2, <2>1, <2>2
<1>13. Way(Join(a, b)) /\ End(Join(a, b)) = End(b) /\ Join(a, b).cost = a.cost + b.cost
  <2>1. /\ \A u \in 1..Len(a.nodes) : \A v \in 2..Len(b.nodes) : a.nodes[u] # b.nodes[v]
        /\ \A v \in 2..Len(b.nodes) : b.nodes[v] \notin BannedNodes
        /\ \A v \in 1..Len(b.lanes) : ChainOf(b.nodes, b.lanes, v) \notin BannedEdges
    BY <1>7, <1>8, <1>10, <1>11, <1>12
  <2> QED BY <1>7, <1>8, <1>9, <2>1, WayJoin, ZenonT(60)
<1>14. End(b) = Goal
  <2>1. m - i + 1 \in 1..(m - i + 1) /\ i + (m - i + 1) - 1 = m
    BY <1>a
  <2> QED BY <1>2, <1>8, <2>1 DEF End
<1>15. a.cost + b.cost < p.cost
  <2>1. PICK f : IsCost(f, r)
    BY <1>2, CostExists
  <2>2. PICK g : IsCost(g, p)
    BY <1>2, CostExists
  <2>3. /\ a.cost = f[j - 1] /\ b.cost = g[m - 1] - g[i - 1]
    BY <1>7, <1>8, <2>1, <2>2
  <2>4. Part(p, 1, k).cost = g[k - 1]
    BY <1>1, <2>2, WayPart DEF GoalWay
  <2>5. /\ j - 1 \in 0..(n - 1) /\ n - 1 \in 0..(n - 1) /\ j - 1 <= n - 1
        /\ i - 1 \in 0..(m - 1) /\ k - 1 \in 0..(m - 1) /\ m - 1 \in 0..(m - 1) /\ k - 1 <= i - 1
    BY <1>a, <1>5, SMTT(60)
  <2>6. /\ f[j - 1] <= f[n - 1] /\ f[n - 1] = r.cost /\ f[j - 1] \in Nat
    BY <1>1, <2>1, <2>5 DEF IsCost
  <2>7. /\ g[k - 1] <= g[i - 1] /\ g[m - 1] = p.cost /\ g[k - 1] \in Nat /\ g[i - 1] \in Nat
    BY <1>1, <2>2, <2>5 DEF IsCost
  <2>8. f[j - 1] < g[k - 1]
    BY <1>1, <2>3, <2>4, <2>6, <2>7, SMTT(60)
  <2>9. g[m - 1] \in Nat
    BY <1>1, <2>7
  <2> QED BY <2>3, <2>6, <2>7, <2>8, <2>9
<1> QED BY <1>13, <1>14, <1>15 DEF GoalWay

\* What a pop puts into the heap are ways, and finitely many.
LEMMA ExtensionIsWay ==
  ASSUME Given, NEW r, Way(r), NEW e \in Extensions(r)
  PROVE  Way(e)
<1>1. PICK y \in Nodes \X {1, 2} :
        /\ ~OnRoute(y[1], r) /\ y[1] \notin BannedNodes
        /\ <<{End(r), y[1]}, y[2]>> \in kept \ BannedEdges
        /\ e = Extended(r, y[1], y[2])
  BY DEF Extensions, Extended
<1>2. PICK x \in Nodes, l \in {1, 2} : y[1] = x /\ y[2] = l
  BY <1>1
<1>3. \A i \in 1..Len(r.nodes) : r.nodes[i] # x
  <2>1. DOMAIN r.nodes = 1..Len(r.nodes)
    BY PathType DEF Way
  <2> QED BY <1>1, <1>2, <2>1 DEF OnRoute
<1>4. /\ <<{End(r), x}, l>> \in kept /\ <<{End(r), x}, l>> \notin BannedEdges
      /\ x \notin BannedNodes
  BY <1>1, <1>2
<1>5. Way(Extended(r, x, l))
  BY <1>3, <1>4, WayExtended, ZenonT(60)
<1> QED BY <1>1, <1>2, <1>5

LEMMA ExtensionsFinite ==
  ASSUME Given, NEW r
  PROVE  IsFiniteSet(Extensions(r))
<1> DEFINE S == {x \in Nodes \X {1, 2} :
                   /\ ~OnRoute(x[1], r) /\ x[1] \notin BannedNodes
                   /\ <<{End(r), x[1]}, x[2]>> \in kept \ BannedEdges}
           f == [y \in S |-> Extended(r, y[1], y[2])]
<1>1. IsFiniteSet(S)
  <2>1. IsFiniteSet(Nodes)
    BY DEF Given, GraphAssumption
  <2>2. IsFiniteSet({1, 2})
    <3>1. IsFiniteSet({1}) /\ IsFiniteSet({2})
      BY FS_Singleton
    <3>2. IsFiniteSet({1} \cup {2})
      BY <3>1, FS_Union
    <3>3. {1} \cup {2} = {1, 2}
      OBVIOUS
    <3> QED BY <3>2, <3>3
  <2>3. IsFiniteSet(Nodes \X {1, 2})
    BY <2>1, <2>2, FS_Product
  <2>4. S \in SUBSET (Nodes \X {1, 2})
    OBVIOUS
  <2> HIDE DEF S
  <2> QED BY <2>3, <2>4, FS_Subset
<1>2. Extensions(r) = {Extended(r, y[1], y[2]) : y \in S}
  BY DEF Extensions, Extended
<1>3. f \in Surjection(S, Extensions(r))
  <2> HIDE DEF S
  <2> QED BY <1>2 DEF Surjection
<1> HIDE DEF S, f
<1> QED BY <1>1, <1>3, FS_Surjection

\* What a way to the goal does next is an extension of what it has done.
LEMMA NextPart ==
  ASSUME Given, NEW p, Way(p), NEW k \in 1..(Len(p.nodes) - 1)
  PROVE  Part(p, 1, k + 1) \in Extensions(Part(p, 1, k))
<1> DEFINE r == Part(p, 1, k)
           o == Part(p, 1, k + 1)
           x == p.nodes[k + 1]
           l == p.lanes[k]
           m == Len(p.nodes)
<1>1. /\ m \in Nat /\ Len(p.lanes) = m - 1 /\ Path(p) /\ k \in 1..(m - 1)
      /\ k \in 1..Len(p.nodes) /\ k + 1 \in 1..Len(p.nodes)
  BY PathType DEF Way
<1>2. /\ Way(r) /\ End(r) = p.nodes[k] /\ Len(r.nodes) = k /\ Len(r.lanes) = k - 1
      /\ \A i \in 1..k : r.nodes[i] = p.nodes[i]
      /\ \A i \in 1..(k - 1) : r.lanes[i] = p.lanes[i]
  BY <1>1, WayPart
<1>3. /\ Way(o) /\ Len(o.nodes) = k + 1 /\ Len(o.lanes) = (k + 1) - 1
      /\ \A i \in 1..(k + 1) : o.nodes[i] = p.nodes[i]
      /\ \A i \in 1..((k + 1) - 1) : o.lanes[i] = p.lanes[i]
  BY <1>1, WayPart, SMTT(60)
<1>4. /\ x \in Nodes /\ l \in {1, 2} /\ <<{End(r), x}, l>> \in kept
      /\ <<{End(r), x}, l>> \notin BannedEdges /\ x \notin BannedNodes
  <2>1. /\ k \in 1..Len(p.lanes) /\ k + 1 \in 2..Len(p.nodes)
    BY <1>1
  <2>2. ChainOf(p.nodes, p.lanes, k) = <<{End(r), x}, l>>
    BY <1>2 DEF ChainOf
  <2>3. ChainOf(p.nodes, p.lanes, k) \in kept /\ ChainOf(p.nodes, p.lanes, k) \notin BannedEdges
    BY <2>1 DEF Way, Path
  <2>4. x \in Nodes /\ l \in {1, 2}
    BY <1>1, <2>1, PathType
  <2>5. x \notin BannedNodes
    BY <2>1 DEF Way
  <2> QED BY <2>2, <2>3, <2>4, <2>5
<1>5. \A i \in 1..Len(r.nodes) : r.nodes[i] # x
  <2> SUFFICES ASSUME NEW i \in 1..k, r.nodes[i] = x PROVE FALSE
    BY <1>2
  <2>1. i \in 1..m /\ k + 1 \in 1..m /\ i # k + 1
    BY <1>1
  <2>2. p.nodes[i] = p.nodes[k + 1]
    BY <1>2
  <2> QED BY <1>1, <2>1, <2>2 DEF Path
<1> HIDE DEF r, o, x, l, m
<1> DEFINE e == Extended(r, x, l)
           n == Len(r.lanes)
<1>6. /\ Path(e) /\ Len(e.nodes) = n + 2 /\ Len(e.lanes) = n + 1
      /\ \A i \in 1..(n + 1) : e.nodes[i] = r.nodes[i]
      /\ e.nodes[n + 2] = x
      /\ \A i \in 1..n : e.lanes[i] = r.lanes[i]
      /\ e.lanes[n + 1] = l
  <2>1. Path(r)
    BY <1>2 DEF Way
  <2> QED BY <1>4, <1>5, <2>1, ExtendedPath, ZenonT(180)
<1>7. e = o
  <2>a. k \in Nat \ {0} /\ n = k - 1 /\ n + 1 = k /\ n + 2 = k + 1 /\ (k + 1) - 1 = k
    BY <1>1, <1>2
  <2> HIDE DEF e, n
  <2>1. /\ Len(e.nodes) = k + 1 /\ Len(e.lanes) = k /\ Len(o.lanes) = k
        /\ \A i \in 1..k : e.nodes[i] = r.nodes[i]
        /\ \A i \in 1..(k - 1) : e.lanes[i] = r.lanes[i]
        /\ e.nodes[k + 1] = x /\ e.lanes[k] = l
    BY <1>3, <1>6, <2>a
  <2>2. \A i \in 1..(k + 1) : e.nodes[i] = o.nodes[i]
    <3> SUFFICES ASSUME NEW i \in 1..(k + 1) PROVE e.nodes[i] = o.nodes[i]
      OBVIOUS
    <3>1. CASE i = k + 1
      BY <1>3, <2>1, <3>1 DEF x
    <3>2. CASE i # k + 1
      <4>1. i \in 1..k
        BY <2>a, <3>2
      <4> QED BY <1>2, <1>3, <2>1, <4>1
    <3> QED BY <3>1, <3>2
  <2>3. \A i \in 1..k : e.lanes[i] = o.lanes[i]
    <3> SUFFICES ASSUME NEW i \in 1..k PROVE e.lanes[i] = o.lanes[i]
      OBVIOUS
    <3>0. o.lanes[i] = p.lanes[i]
      BY <1>3, <2>a
    <3>1. CASE i = k
      BY <2>1, <3>0, <3>1 DEF l
    <3>2. CASE i # k
      <4>1. i \in 1..(k - 1)
        BY <2>a, <3>2
      <4> QED BY <1>2, <2>1, <3>0, <4>1
    <3> QED BY <3>1, <3>2
  <2>4. Path(e) /\ Path(o) /\ Len(e.nodes) = Len(o.nodes)
    BY <1>3, <1>6, <2>1 DEF Way
  <2>5. /\ \A i \in 1..Len(e.nodes) : e.nodes[i] = o.nodes[i]
        /\ \A i \in 1..Len(e.lanes) : e.lanes[i] = o.lanes[i]
    BY <2>1, <2>2, <2>3
  <2> QED BY <2>4, <2>5, SamePath
<1>8. e \in Extensions(r)
  <2>1. DOMAIN r.nodes = 1..Len(r.nodes)
    BY <1>2, PathType DEF Way
  <2>2. ~OnRoute(x, r)
    BY <1>5, <2>1 DEF OnRoute
  <2> DEFINE y == <<x, l>>
  <2>3. y \in Nodes \X {1, 2} /\ y[1] = x /\ y[2] = l
    BY <1>4
  <2>4. /\ ~OnRoute(y[1], r) /\ y[1] \notin BannedNodes
        /\ <<{End(r), y[1]}, y[2]>> \in kept \ BannedEdges
    BY <1>4, <2>2
  <2>5. e = Entry(r.cost + cost[<<{End(r), y[1]}, y[2]>>], Append(r.nodes, y[1]),
                  Append(r.lanes, y[2]))
    BY DEF Extended
  <2> HIDE DEF y, e
  <2> QED BY <2>3, <2>4, <2>5 DEF Extensions
<1> QED BY <1>7, <1>8 DEF r, o

-------------------------------------------------------------------------------
(* The search *)

Cheapest(p) == GoalWay(p) /\ \A o : GoalWay(o) => p.cost <= o.cost

\* The invariant of one search: the heap holds ways, what was reached was
\* reached by a way, and of every cheapest way to the goal a part is in the heap.
Searching ==
  /\ IsFiniteSet(queue) /\ \A r \in queue : Way(r)
  /\ \A n \in DOMAIN best : \E r : Way(r) /\ End(r) = n /\ r.cost = best[n]
  /\ \A p : Cheapest(p) => \E k \in 1..Len(p.nodes) : Part(p, 1, k) \in queue

\* A step that changes nothing they are made of leaves the ways as they are.
LEMMA SameWays ==
  ASSUME UNCHANGED <<cost, kept, accepted, spur>>
  PROVE  /\ \A p : Way(p)' = Way(p) /\ End(p)' = End(p)
         /\ \A p, a, b : Part(p, a, b)' = Part(p, a, b)
         /\ \A p : Cheapest(p)' = Cheapest(p)
<1>1. \A nodes, lanes : TotalCost(nodes, lanes)' = TotalCost(nodes, lanes)
  BY DEF TotalCost, ChainOf
<1>2. \A nodes, lanes, i : ChainOf(nodes, lanes, i)' = ChainOf(nodes, lanes, i)
  BY DEF ChainOf
<1>3. \A p : Path(p)' = Path(p)
  BY <1>1, <1>2 DEF Path
<1>4. Source' = Source /\ BannedNodes' = BannedNodes
  BY DEF Source, BannedNodes, Previous
<1>5. BannedEdges' = BannedEdges
  BY <1>1, <1>2 DEF BannedEdges, NextChain, SameRoot, Root, Previous, Entry
<1>6. \A p : Way(p)' = Way(p)
  BY <1>2, <1>3, <1>4, <1>5 DEF Way
<1>7. \A p : End(p)' = End(p)
  BY DEF End
<1>8. \A p : GoalWay(p)' = GoalWay(p)
  BY <1>6, <1>7 DEF GoalWay
<1>9. \A p : Cheapest(p)' = Cheapest(p)
  BY <1>8 DEF Cheapest
<1>10. \A p, a, b : Part(p, a, b)' = Part(p, a, b)
  BY <1>1 DEF Part, Entry
<1> QED BY <1>6, <1>7, <1>9, <1>10

\* If there is a way to the goal then there is a cheapest one.
LEMMA CheapestExists ==
  ASSUME Given, NEW p, GoalWay(p)
  PROVE  \E o : Cheapest(o) /\ o.cost <= p.cost
<1> DEFINE H == {c \in Nat : \E o : GoalWay(o) /\ o.cost = c}
<1>1. \A o : GoalWay(o) => o.cost \in H
  BY PathType DEF GoalWay, Way
<1>2. PICK c \in H : \A d \in H : c <= d
  <2>1. H \in SUBSET Nat /\ p.cost \in H
    BY <1>1
  <2> HIDE DEF H
  <2> QED BY <2>1, LeastNatural
<1>3. PICK o : GoalWay(o) /\ o.cost = c
  BY <1>2
<1>4. Cheapest(o)
  <2> HIDE DEF H
  <2> QED BY <1>1, <1>2, <1>3 DEF Cheapest
<1>5. o.cost <= p.cost
  <2> HIDE DEF H
  <2> QED BY <1>1, <1>2, <1>3
<1> QED BY <1>4, <1>5

\* The heap has a first entry, which is a way.
LEMMA HeapItems ==
  ASSUME Given, Searching
  PROVE  queue \in SUBSET Items /\ IsFiniteSet(queue)
BY PathType DEF Searching, Way

LEMMA FirstInHeap ==
  ASSUME Given, Searching, queue # {}
  PROVE  /\ FirstOf(queue) \in queue /\ Way(FirstOf(queue))
         /\ \A o \in queue \ {FirstOf(queue)} : Precedes(FirstOf(queue), o)
<1>1. queue \in SUBSET Items /\ IsFiniteSet(queue)
  BY HeapItems
<1>2. /\ FirstOf(queue) \in queue
      /\ \A o \in queue \ {FirstOf(queue)} : Precedes(FirstOf(queue), o)
  BY <1>1, FirstExists
<1> QED BY <1>2 DEF Searching

\* No part of a cheapest way is thrown away.
LEMMA PartKept ==
  ASSUME Given, Searching, NEW p, Cheapest(p), NEW k \in 1..Len(p.nodes)
  PROVE  ~Worse(Part(p, 1, k))
<1> DEFINE r == Part(p, 1, k)
<1>1. Way(r) /\ End(r) = p.nodes[k] /\ GoalWay(p)
  BY WayPart DEF Cheapest, GoalWay
<1> HIDE DEF r
<1>2. ASSUME Worse(r) PROVE FALSE
  <2>1. PICK o : Way(o) /\ End(o) = End(r) /\ o.cost = best[End(r)]
    BY <1>2 DEF Worse, Searching
  <2>2. o.cost < r.cost
    <3>1. o.cost \in Nat /\ r.cost \in Nat
      BY <1>1, <2>1, PathType DEF Way
    <3> QED BY <1>2, <2>1, <3>1 DEF Worse
  <2>3. PICK q : GoalWay(q) /\ q.cost < p.cost
    BY <1>1, <2>1, <2>2, Shortcut DEF r
  <2>4. q.cost \in Nat /\ p.cost \in Nat /\ p.cost <= q.cost
    BY <1>1, <2>3, PathType DEF Cheapest, GoalWay, Way
  <2> QED BY <2>3, <2>4
<1> QED BY <1>2 DEF r

\* Popping an entry, thrown away or extended, keeps the invariant of the search.
LEMMA PopSearches ==
  ASSUME Given, Searching, Pop
  PROVE  Searching'
<1> DEFINE r == FirstOf(queue)
<1>1. /\ queue # {}
      /\ Worse(r) \/ End(r) # Goal
      /\ best' = IF Worse(r) THEN best
                 ELSE [n \in DOMAIN best \cup {End(r)} |-> IF n = End(r) THEN r.cost ELSE best[n]]
      /\ queue' = (queue \ {r}) \cup (IF Worse(r) THEN {} ELSE Extensions(r))
  BY DEF Pop
<1>2. /\ \A p : Way(p)' = Way(p) /\ End(p)' = End(p)
      /\ \A p, a, b : Part(p, a, b)' = Part(p, a, b)
      /\ \A p : Cheapest(p)' = Cheapest(p)
  BY SameWays DEF Pop
<1>3. r \in queue /\ Way(r)
  <2>1. queue # {}
    BY DEF Pop
  <2> QED BY <2>1, FirstInHeap, Zenon
<1> HIDE DEF r
<1>4. IsFiniteSet(queue')
  <2>1. IsFiniteSet(queue \ {r})
    BY FS_RemoveElement DEF Searching
  <2>2. IsFiniteSet(IF Worse(r) THEN {} ELSE Extensions(r))
    BY ExtensionsFinite, FS_EmptySet
  <2> QED BY <1>1, <2>1, <2>2, FS_Union
<1>5. \A o \in queue' : Way(o)
  BY <1>1, <1>3, ExtensionIsWay DEF Searching
<1>6. \A n \in DOMAIN best' : \E o : Way(o) /\ End(o) = n /\ o.cost = best'[n]
  <2>1. CASE Worse(r)
    BY <1>1, <2>1 DEF Searching
  <2>2. CASE ~Worse(r)
    <3> SUFFICES ASSUME NEW n \in DOMAIN best \cup {End(r)}
                 PROVE  \E o : Way(o) /\ End(o) = n /\ o.cost = best'[n]
      BY <1>1, <2>2
    <3>1. best'[n] = IF n = End(r) THEN r.cost ELSE best[n]
      BY <1>1, <2>2
    <3> QED BY <1>3, <3>1 DEF Searching
  <2> QED BY <2>1, <2>2
<1>7. ASSUME NEW p, Cheapest(p)
      PROVE  \E k \in 1..Len(p.nodes) : Part(p, 1, k) \in queue'
  <2>1. PICK k \in 1..Len(p.nodes) : Part(p, 1, k) \in queue
    BY <1>7 DEF Searching
  <2>2. CASE Part(p, 1, k) # r
    BY <1>1, <2>1, <2>2
  <2>3. CASE Part(p, 1, k) = r
    <3>1. ~Worse(r)
      BY <1>7, <2>3, PartKept
    <3>2. Way(p) /\ End(p) = Goal /\ End(r) = p.nodes[k] /\ Len(p.nodes) \in Nat
      BY <1>7, <2>3, WayPart, PathType DEF Cheapest, GoalWay, Way
    <3>3. k # Len(p.nodes)
      BY <1>1, <3>1, <3>2 DEF End
    <3>4. k \in 1..(Len(p.nodes) - 1) /\ k + 1 \in 1..Len(p.nodes)
      BY <3>2, <3>3
    <3>5. Part(p, 1, k + 1) \in Extensions(r)
      BY <2>3, <3>2, <3>4, NextPart
    <3> QED BY <1>1, <3>1, <3>4, <3>5
  <2> QED BY <2>2, <2>3
<1> QED BY <1>2, <1>4, <1>5, <1>6, <1>7 DEF Searching

\* Where a search begins.
LEMMA SearchBegins ==
  /\ Given /\ Source \in Nodes /\ queue = {Entry(0, <<Source>>, <<>>)} /\ best = <<>>
  => Searching
<1> SUFFICES ASSUME Given, Source \in Nodes, queue = {Entry(0, <<Source>>, <<>>)}, best = <<>>
             PROVE  Searching
  OBVIOUS
<1> DEFINE e == Entry(0, <<Source>>, <<>>)
<1>1. /\ Path(e) /\ e.nodes = <<Source>> /\ e.lanes = <<>> /\ Len(e.nodes) = 1 /\ Len(e.lanes) = 0
      /\ e.nodes[1] = Source
  BY OnePath DEF Entry
<1>2. queue = {e}
  OBVIOUS
<1> HIDE DEF e
<1>3. Way(e)
  BY <1>1 DEF Way
<1>4. IsFiniteSet(queue)
  BY <1>2, FS_Singleton
<1>5. DOMAIN best = {}
  OBVIOUS
<1>6. ASSUME NEW p, Cheapest(p) PROVE 1 \in 1..Len(p.nodes) /\ Part(p, 1, 1) = e
  <2>1. Way(p) /\ 1 \in 1..Len(p.nodes) /\ p.nodes[1] = Source
    BY <1>6, PathType DEF Cheapest, GoalWay, Way
  <2>2. /\ Way(Part(p, 1, 1)) /\ Len(Part(p, 1, 1).nodes) = 1 /\ Len(Part(p, 1, 1).lanes) = 1 - 1
        /\ \A i \in 1..1 : Part(p, 1, 1).nodes[i] = p.nodes[i]
    BY <2>1, WayPart
  <2>3. Path(Part(p, 1, 1))
    BY <2>2 DEF Way
  <2>4. /\ \A i \in 1..1 : Part(p, 1, 1).nodes[i] = e.nodes[i]
    BY <1>1, <2>1, <2>2
  <2>5. \A i \in 1..0 : Part(p, 1, 1).lanes[i] = e.lanes[i]
    OBVIOUS
  <2> QED BY <1>1, <2>1, <2>2, <2>3, <2>4, <2>5, SamePath
<1> QED BY <1>2, <1>3, <1>4, <1>5, <1>6 DEF Searching

\* What the search finds is the first of all ways to the goal.
LEMMA ArrivedIsFirst ==
  ASSUME Given, Searching, Arrived
  PROVE  LET f == FirstOf(queue)
         IN GoalWay(f) /\ \A p : GoalWay(p) /\ p # f => Precedes(f, p)
<1> DEFINE f == FirstOf(queue)
<1>1. queue # {} /\ End(f) = Goal
  BY DEF Arrived
<1>2. f \in queue /\ Way(f) /\ \A o \in queue \ {f} : Precedes(f, o)
  <2>1. queue # {}
    BY DEF Arrived
  <2> QED BY <2>1, FirstInHeap, Zenon
<1> HIDE DEF f
<1>3. GoalWay(f) /\ f \in Items
  BY <1>1, <1>2, PathType DEF GoalWay, Way
<1>4. ASSUME NEW p, Cheapest(p), p # f PROVE Precedes(f, p)
  <2>1. PICK k \in 1..Len(p.nodes) : Part(p, 1, k) \in queue
    BY <1>4 DEF Searching
  <2> DEFINE q == Part(p, 1, k)
             m == Len(p.nodes)
  <2>2. /\ Way(p) /\ Path(p) /\ p \in Items /\ p.nodes[m] = Goal /\ m \in Nat \ {0}
        /\ p.cost \in Nat /\ Len(p.lanes) = m - 1 /\ p.nodes \in Seq(Int)
    BY <1>4, PathType DEF Cheapest, GoalWay, Way, End
  <2>3. /\ Way(q) /\ End(q) = p.nodes[k] /\ Len(q.nodes) = k /\ Len(q.lanes) = k - 1
        /\ \A i \in 1..k : q.nodes[i] = p.nodes[i]
        /\ \A i \in 1..(k - 1) : q.lanes[i] = p.lanes[i]
        /\ \A g : IsCost(g, p) => q.cost = g[k - 1]
    BY <2>2, WayPart
  <2>4. q \in Items /\ q.cost \in Nat /\ q.nodes \in Seq(Int) /\ Path(q)
    BY <2>3, PathType DEF Way
  <2>5. q.cost <= p.cost
    <3>1. PICK g : IsCost(g, p)
      BY <2>2, CostExists
    <3>2. k - 1 \in 0..(m - 1) /\ m - 1 \in 0..(m - 1) /\ k - 1 <= m - 1
      BY <2>2
    <3>3. g[k - 1] <= g[m - 1] /\ g[m - 1] = p.cost
      BY <2>2, <3>1, <3>2 DEF IsCost
    <3> QED BY <2>3, <3>1, <3>3
  <2>6. p.cost <= f.cost /\ f.cost \in Nat /\ f.nodes \in Seq(Int)
    BY <1>3, <1>4, PathType DEF Cheapest, GoalWay, Way
  <2>7. q \in queue /\ k \in 1..m
    BY <2>1
  <2> HIDE DEF q, m
  <2>8. CASE k = m
    <3>1. q = p
      <4>1. Len(q.nodes) = Len(p.nodes) /\ Len(q.lanes) = m - 1
        BY <2>3, <2>8 DEF m
      <4> QED BY <2>2, <2>3, <2>4, <2>8, <4>1, SamePath
    <3> QED BY <1>2, <1>4, <2>7, <3>1
  <2>9. CASE k # m
    <3>1. End(q) # Goal
      BY <2>2, <2>3, <2>7, <2>9 DEF Path, m
    <3>2. q # f /\ q.nodes # f.nodes
      <4>1. f.nodes = q.nodes => End(f) = End(q)
        BY DEF End
      <4> QED BY <1>1, <3>1, <4>1 DEF f
    <3>3. Precedes(f, q)
      BY <1>2, <2>7, <3>2
    <3>4. f.cost = q.cost /\ q.cost = p.cost /\ Before(f.nodes, q.nodes)
      BY <2>2, <2>4, <2>5, <2>6, <3>2, <3>3 DEF Precedes
    <3>5. Len(q.nodes) <= Len(p.nodes) /\ \A i \in 1..Len(q.nodes) : p.nodes[i] = q.nodes[i]
      BY <2>2, <2>3, <2>7 DEF m
    <3>6. Before(f.nodes, p.nodes)
      BY <2>2, <2>4, <2>6, <3>4, <3>5, BeforeLonger
    <3> QED BY <3>4, <3>6 DEF Precedes
  <2> QED BY <2>8, <2>9
<1>5. ASSUME NEW p, GoalWay(p), p # f PROVE Precedes(f, p)
  <2>1. PICK o : Cheapest(o) /\ o.cost <= p.cost
    BY <1>5, CheapestExists
  <2>2. p.cost \in Nat /\ o.cost \in Nat /\ f.cost \in Nat
    BY <1>3, <1>5, <2>1, PathType DEF Cheapest, GoalWay, Way
  <2>3. f.cost <= o.cost
    BY <1>4, <2>1, <2>2 DEF Precedes
  <2>4. CASE f.cost < p.cost
    BY <2>4 DEF Precedes
  <2>5. CASE ~(f.cost < p.cost)
    <3>1. p.cost = o.cost
      BY <2>1, <2>2, <2>3, <2>5
    <3>2. Cheapest(p)
      BY <1>5, <2>1, <3>1 DEF Cheapest
    <3> QED BY <1>4, <1>5, <3>2
  <2> QED BY <2>4, <2>5
<1> QED BY <1>3, <1>5 DEF f

\* A heap that runs empty says that there is no way to the goal.
LEMMA NothingFound ==
  ASSUME Given, Searching, queue = {}, NEW p
  PROVE  ~GoalWay(p)
<1> SUFFICES ASSUME GoalWay(p) PROVE FALSE
  OBVIOUS
<1>1. PICK o : Cheapest(o)
  BY CheapestExists
<1> QED BY <1>1 DEF Searching

-------------------------------------------------------------------------------
(* Routes that share their first nodes *)

Route(r) == Path(r) /\ r.nodes[1] = Start /\ End(r) = Goal

\* Two routes share their first m nodes.
Agree(r, o, m) ==
  m <= Len(r.nodes) /\ m <= Len(o.nodes) /\ \A i \in 1..m : r.nodes[i] = o.nodes[i]

\* A route has two nodes or more, and only its last one is the goal.
LEMMA RouteType ==
  ASSUME Given, NEW r, Route(r)
  PROVE  /\ Path(r) /\ r \in Items /\ Len(r.nodes) \in Nat /\ Len(r.nodes) >= 2
         /\ Len(r.lanes) = Len(r.nodes) - 1
         /\ r.nodes[1] = Start /\ r.nodes[Len(r.nodes)] = Goal
         /\ \A i \in 1..Len(r.nodes) : r.nodes[i] = Goal => i = Len(r.nodes)
<1>1. /\ Path(r) /\ r \in Items /\ Len(r.nodes) \in Nat \ {0} /\ Len(r.lanes) = Len(r.nodes) - 1
      /\ r.nodes[1] = Start /\ r.nodes[Len(r.nodes)] = Goal
  BY PathType DEF Route, End
<1>2. Len(r.nodes) # 1
  BY <1>1 DEF Given, GraphAssumption
<1>3. \A i \in 1..Len(r.nodes) : r.nodes[i] = Goal => i = Len(r.nodes)
  BY <1>1 DEF Path
<1>4. Len(r.nodes) >= 2
  <2>1. \A n \in Nat \ {0} : n # 1 => n >= 2
    OBVIOUS
  <2> QED BY <1>1, <1>2, <2>1, Zenon
<1> QED BY <1>1, <1>3, <1>4

\* Where no two chains join the same nodes, the nodes make the path.
LEMMA SameNodes ==
  ASSUME Given, SingleLanes, NEW r, NEW o, Path(r), Path(o), Len(r.nodes) = Len(o.nodes),
         \A i \in 1..Len(r.nodes) : r.nodes[i] = o.nodes[i]
  PROVE  r = o
<1> DEFINE n == Len(r.lanes)
<1>1. n \in Nat /\ Len(r.nodes) = n + 1 /\ Len(o.nodes) = n + 1 /\ Len(o.lanes) = n /\ Len(r.lanes) = n
  BY PathType, SMTT(60)
<1>2. ASSUME NEW i \in 1..n PROVE r.lanes[i] = o.lanes[i]
  <2>1. i \in 1..(n + 1) /\ i + 1 \in 1..(n + 1)
    BY <1>1
  <2>2. r.nodes[i] = o.nodes[i] /\ r.nodes[i + 1] = o.nodes[i + 1]
    BY <1>1, <2>1
  <2>3. ChainOf(r.nodes, r.lanes, i) \in kept /\ ChainOf(o.nodes, o.lanes, i) \in kept
    BY <1>1 DEF Path
  <2>4. ChainOf(r.nodes, r.lanes, i) = ChainOf(o.nodes, o.lanes, i)
    BY <2>2, <2>3 DEF SingleLanes, ChainOf
  <2> QED BY <2>4 DEF ChainOf
<1> QED BY <1>1, <1>2, SamePath

\* A route that shares all nodes of a route is that route.
LEMMA RouteEnds ==
  ASSUME Given, SingleLanes, NEW r, NEW o, Route(r), Route(o),
         Agree(r, o, Len(r.nodes)) \/ Agree(r, o, Len(o.nodes))
  PROVE  r = o
<1> DEFINE n == Len(r.nodes)
           m == Len(o.nodes)
<1>1. /\ n \in Nat /\ m \in Nat /\ n >= 2 /\ m >= 2 /\ Path(r) /\ Path(o)
      /\ r.nodes[n] = Goal /\ o.nodes[m] = Goal
      /\ \A i \in 1..n : r.nodes[i] = Goal => i = n
      /\ \A i \in 1..m : o.nodes[i] = Goal => i = m
  BY RouteType
<1>2. n = m /\ \A i \in 1..n : r.nodes[i] = o.nodes[i]
  <2>1. CASE Agree(r, o, n)
    <3>1. n \in 1..n /\ n \in 1..m /\ \A i \in 1..n : r.nodes[i] = o.nodes[i]
      BY <1>1, <2>1 DEF Agree
    <3> HIDE DEF n, m
    <3> QED BY <1>1, <3>1
  <2>2. CASE Agree(r, o, m)
    <3>1. m \in 1..m /\ m \in 1..n /\ \A i \in 1..m : r.nodes[i] = o.nodes[i]
      BY <1>1, <2>2 DEF Agree
    <3> HIDE DEF n, m
    <3> QED BY <1>1, <3>1
  <2> QED BY <2>1, <2>2
<1> QED BY <1>1, <1>2, SameNodes

\* Sharing the first nodes, from both sides and over several routes.
LEMMA AgreeLess ==
  ASSUME NEW r, NEW o, NEW m \in Nat, NEW k \in Nat, k <= m, Agree(r, o, m),
         Len(r.nodes) \in Nat, Len(o.nodes) \in Nat
  PROVE  Agree(r, o, k) /\ Agree(o, r, k)
BY DEF Agree

LEMMA AgreeTransitive ==
  ASSUME NEW r, NEW o, NEW q, NEW m \in Nat, Agree(r, o, m), Agree(o, q, m)
  PROVE  Agree(r, q, m)
BY DEF Agree

\* There is a number of nodes after which two routes part.
LEMMA MostShared ==
  ASSUME NEW r, NEW o, Len(r.nodes) \in Nat, NEW m \in Nat, Agree(r, o, m)
  PROVE  \E k \in Nat : m <= k /\ Agree(r, o, k) /\ ~Agree(r, o, k + 1)
<1> DEFINE H == {k \in Nat : m <= k /\ ~Agree(r, o, k + 1)}
<1>1. PICK k \in H : \A l \in H : k <= l
  <2>1. Len(r.nodes) \in H /\ H \in SUBSET Nat
    BY DEF Agree
  <2> HIDE DEF H
  <2> QED BY <2>1, LeastNatural
<1>2. Agree(r, o, k)
  <2>1. CASE k = m
    BY <2>1
  <2>2. CASE k # m
    <3>1. k - 1 \in Nat /\ m <= k - 1 /\ (k - 1) + 1 = k /\ ~(k <= k - 1)
      BY <1>1, <2>2
    <3>2. k - 1 \notin H
      BY <1>1, <3>1
    <3> QED BY <3>1, <3>2
  <2> QED BY <2>1, <2>2
<1> QED BY <1>1, <1>2

\* The order of two spurs is the order of the routes they make.
LEMMA JoinPrecedes ==
  ASSUME Given, SingleLanes, NEW q, NEW s, NEW t, Path(q), Path(s), Path(t),
         Path(Join(q, s)), Path(Join(q, t)), s.nodes[1] = t.nodes[1], Precedes(s, t)
  PROVE  Precedes(Join(q, s), Join(q, t))
<1> DEFINE a == Join(q, s)
           b == Join(q, t)
           n == Len(q.nodes)
<1>1. /\ q.cost \in Nat /\ s.cost \in Nat /\ t.cost \in Nat /\ s \in Items /\ t \in Items
      /\ q.nodes \in Seq(Int) /\ s.nodes \in Seq(Int) /\ t.nodes \in Seq(Int)
      /\ Len(s.nodes) \in Nat \ {0} /\ Len(t.nodes) \in Nat \ {0} /\ n \in Nat
  BY PathType
<1>2. /\ a.cost = q.cost + s.cost /\ b.cost = q.cost + t.cost
      /\ a.nodes = q.nodes \o Tail(s.nodes) /\ b.nodes = q.nodes \o Tail(t.nodes)
  BY DEF Join, Entry
<1>3. s.nodes # t.nodes \/ s = t
  BY SameNodes
<1>4. s # t
  BY <1>1, PrecedesIrreflexive
<1>5. CASE s.cost < t.cost
  <2>1. q.cost + s.cost < q.cost + t.cost
    BY <1>1, <1>5, SMTT(60)
  <2> HIDE DEF a, b
  <2>2. a.cost < b.cost
    BY <1>2, <2>1
  <2> QED BY <2>2 DEF Precedes, a, b
<1>6. CASE s.cost = t.cost /\ Before(s.nodes, t.nodes)
  <2>1. PICK i \in 1..Len(t.nodes) :
          /\ \A j \in 1..(i - 1) : j <= Len(s.nodes) /\ s.nodes[j] = t.nodes[j]
          /\ i > Len(s.nodes) \/ s.nodes[i] < t.nodes[i]
    BY <1>6 DEF Before
  <2>2. i # 1
    <3>1. t.nodes[1] \in Int
      BY <1>1, ElementOfSeq
    <3> QED BY <1>1, <2>1, <3>1
  <2> DEFINE u == a.nodes
             v == b.nodes
             ls == Len(s.nodes)
             lt == Len(t.nodes)
  <2>3. /\ Len(u) = n + ls - 1 /\ \A j \in 1..(n + ls - 1) :
                                    u[j] = IF j <= n THEN q.nodes[j] ELSE s.nodes[j - n + 1]
    <3> DEFINE y == Tail(s.nodes)
               x == q.nodes
    <3>1. /\ y \in Seq(Int) /\ Len(y) = ls - 1 /\ \A j \in 1..(ls - 1) : y[j] = s.nodes[j + 1]
      <4>1. s.nodes # <<>>
        BY <1>1
      <4> QED BY <1>1, <4>1, HeadTailProperties
    <3>2. x \in Seq(Int) /\ Len(x) = n /\ u = x \o y /\ ls \in Nat \ {0} /\ n \in Nat
      BY <1>1, <1>2
    <3> HIDE DEF x, y, u, n, ls, lt
    <3>3. /\ Len(u) = Len(x) + Len(y)
          /\ \A j \in 1..(Len(x) + Len(y)) : u[j] = IF j <= Len(x) THEN x[j] ELSE y[j - Len(x)]
      BY <3>1, <3>2, ConcatProperties
    <3>4. ASSUME NEW j \in 1..(n + ls - 1)
          PROVE  u[j] = IF j <= n THEN x[j] ELSE s.nodes[j - n + 1]
      <4>1. j \in 1..(n + (ls - 1)) /\ (j <= n \/ j - n \in 1..(ls - 1))
        BY <3>2
      <4>2. u[j] = IF j <= n THEN x[j] ELSE y[j - n]
        BY <3>1, <3>2, <3>3, <4>1
      <4> QED BY <3>1, <4>1, <4>2
    <3>5. Len(u) = n + ls - 1
      BY <3>1, <3>2, <3>3
    <3> QED BY <3>4, <3>5 DEF x
  <2>4. /\ Len(v) = n + lt - 1 /\ \A j \in 1..(n + lt - 1) :
                                    v[j] = IF j <= n THEN q.nodes[j] ELSE t.nodes[j - n + 1]
    <3> DEFINE y == Tail(t.nodes)
               x == q.nodes
    <3>1. /\ y \in Seq(Int) /\ Len(y) = lt - 1 /\ \A j \in 1..(lt - 1) : y[j] = t.nodes[j + 1]
      <4>1. t.nodes # <<>>
        BY <1>1
      <4> QED BY <1>1, <4>1, HeadTailProperties
    <3>2. x \in Seq(Int) /\ Len(x) = n /\ v = x \o y /\ lt \in Nat \ {0} /\ n \in Nat
      BY <1>1, <1>2
    <3> HIDE DEF x, y, v, n, ls, lt
    <3>3. /\ Len(v) = Len(x) + Len(y)
          /\ \A j \in 1..(Len(x) + Len(y)) : v[j] = IF j <= Len(x) THEN x[j] ELSE y[j - Len(x)]
      BY <3>1, <3>2, ConcatProperties
    <3>4. ASSUME NEW j \in 1..(n + lt - 1)
          PROVE  v[j] = IF j <= n THEN x[j] ELSE t.nodes[j - n + 1]
      <4>1. j \in 1..(n + (lt - 1)) /\ (j <= n \/ j - n \in 1..(lt - 1))
        BY <3>2
      <4>2. v[j] = IF j <= n THEN x[j] ELSE y[j - n]
        BY <3>1, <3>2, <3>3, <4>1
      <4> QED BY <3>1, <4>1, <4>2
    <3>5. Len(v) = n + lt - 1
      BY <3>1, <3>2, <3>3
    <3> QED BY <3>4, <3>5 DEF x
  <2>5. n \in Nat /\ ls \in Nat \ {0} /\ lt \in Nat \ {0} /\ i \in 2..lt
    BY <1>1, <2>1, <2>2
  <2>6. /\ \A j \in 1..(i - 1) : j <= ls /\ s.nodes[j] = t.nodes[j]
        /\ i > ls \/ s.nodes[i] < t.nodes[i]
    BY <2>1
  <2> HIDE DEF u, v, n, ls, lt
  <2> DEFINE k == n + i - 1
  <2>7. k \in 1..Len(v)
    BY <2>4, <2>5
  <2>8. ASSUME NEW j \in 1..(k - 1) PROVE j <= Len(u) /\ u[j] = v[j]
    <3>1. CASE j <= n
      BY <2>3, <2>4, <2>5, <3>1
    <3>2. CASE ~(j <= n)
      <4>1. j - n + 1 \in 1..(i - 1) /\ j \in 1..(n + lt - 1) /\ (j - n + 1 <= ls => j <= n + ls - 1)
        BY <2>5, <3>2
      <4>2. j - n + 1 <= ls /\ s.nodes[j - n + 1] = t.nodes[j - n + 1]
        BY <2>6, <4>1
      <4>3. j \in 1..(n + ls - 1)
        BY <2>5, <4>1, <4>2
      <4> QED BY <2>3, <2>4, <3>2, <4>1, <4>2, <4>3
    <3> QED BY <3>1, <3>2
  <2>9. k > Len(u) \/ u[k] < v[k]
    <3>1. k - n + 1 = i /\ ~(k <= n) /\ k \in 1..(n + lt - 1)
      BY <2>5
    <3>2. CASE i > ls
      BY <2>3, <2>5, <3>2
    <3>3. CASE i <= ls /\ s.nodes[i] < t.nodes[i]
      <4>1. k \in 1..(n + ls - 1)
        BY <2>5, <3>3
      <4> HIDE DEF k
      <4> QED BY <2>3, <2>4, <3>1, <3>3, <4>1
    <3> QED BY <2>5, <2>6, <3>2, <3>3
  <2>10. Before(u, v)
    <3> HIDE DEF k
    <3> QED BY <2>7, <2>8, <2>9 DEF Before
  <2> QED BY <1>2, <1>6, <2>10 DEF Precedes, u, v
<1> QED BY <1>3, <1>4, <1>5, <1>6 DEF Precedes

-------------------------------------------------------------------------------
(* The rounds *)

Accepted == {accepted[i] : i \in DOMAIN accepted}

\* A route leaves the accepted ones after its first m nodes.
Branch(r, m) ==
  /\ \E a \in Accepted : Agree(r, a, m)
  /\ \A a \in Accepted : ~Agree(r, a, m + 1)

\* It leaves them where a spur is still to come, or a candidate that leaves them
\* there too is the route or comes before it.
Covered(r, first, routes) ==
  \E m \in Nat \ {0} :
    /\ Branch(r, m)
    /\ \/ Agree(r, Previous, m) /\ first <= m
       \/ \E c \in routes : Branch(c, m) /\ Agree(c, r, m) /\ (c = r \/ Precedes(c, r))

\* The invariant of the rounds.
Yen ==
  /\ accepted # <<>> /\ accepted \in Seq(Items) /\ \A a \in Accepted : Route(a)
  /\ spur \in 1..(Len(Previous.nodes) - 1)
  /\ IsFiniteSet(candidates) /\ \A c \in candidates : Route(c) /\ c \notin Accepted
  /\ \A i, j \in DOMAIN accepted : i < j => Precedes(accepted[i], accepted[j])
  /\ \A r : Route(r) /\ r \notin Accepted => Precedes(Previous, r)
  /\ \A r : Route(r) /\ r \notin Accepted => Covered(r, spur, candidates)

\* The root is the beginning of the previous route, and the spur is not its goal.
LEMMA RootType ==
  ASSUME Given, Yen
  PROVE  /\ Previous \in Accepted /\ Route(Previous) /\ spur \in Nat \ {0}
         /\ spur < Len(Previous.nodes)
         /\ Path(Root) /\ Len(Root.nodes) = spur /\ Len(Root.lanes) = spur - 1
         /\ \A i \in 1..spur : Root.nodes[i] = Previous.nodes[i]
         /\ End(Root) = Source /\ Source = Previous.nodes[spur] /\ Source # Goal
<1>1. Previous \in Accepted
  <2>1. Len(accepted) \in DOMAIN accepted
    BY DEF Yen
  <2> QED BY <2>1 DEF Previous, Accepted
<1>2. Route(Previous)
  BY <1>1 DEF Yen
<1>3. /\ Path(Previous) /\ Len(Previous.nodes) \in Nat
      /\ \A i \in 1..Len(Previous.nodes) : Previous.nodes[i] = Goal => i = Len(Previous.nodes)
  BY <1>2, RouteType
<1>4. /\ spur \in Nat \ {0} /\ spur < Len(Previous.nodes) /\ spur \in 1..Len(Previous.nodes)
  BY <1>3 DEF Yen
<1>5. Root = Part(Previous, 1, spur)
  BY DEF Root, Part
<1>6. /\ Path(Root) /\ Len(Root.nodes) = spur - 1 + 1 /\ Len(Root.lanes) = spur - 1
      /\ \A i \in 1..(spur - 1 + 1) : Root.nodes[i] = Previous.nodes[1 + i - 1]
  <2>1. 1 \in 1..Len(Previous.nodes) /\ spur \in 1..Len(Previous.nodes)
    BY <1>4, <1>3
  <2> QED BY <1>3, <1>5, <2>1, PartOfPath, SMTT(60)
<1>7. Len(Root.nodes) = spur /\ \A i \in 1..spur : Root.nodes[i] = Previous.nodes[i]
  <2>1. spur - 1 + 1 = spur /\ \A i \in 1..spur : 1 + i - 1 = i
    BY <1>4
  <2> QED BY <1>6, <2>1
<1>8. Source = Previous.nodes[spur]
  BY <1>4 DEF Source
<1>9. End(Root) = Source
  BY <1>4, <1>7, <1>8 DEF End
<1>10. Source # Goal
  BY <1>3, <1>4, <1>8
<1> QED BY <1>1, <1>2, <1>4, <1>6, <1>7, <1>8, <1>9, <1>10

\* An accepted route that shares the root leaves it by a banned edge.
LEMMA SharedRoot ==
  ASSUME Given, Yen, NEW a \in Accepted
  PROVE  /\ SameRoot(a) <=> Agree(a, Previous, spur)
         /\ SameRoot(a) => spur < Len(a.nodes) /\ spur \in 1..Len(a.lanes)
         /\ SameRoot(a) => NextChain(a) \in BannedEdges /\ NextChain(a) \in kept
<1>1. /\ Route(a) /\ Path(a) /\ Len(a.nodes) \in Nat /\ Len(a.lanes) = Len(a.nodes) - 1
      /\ a.nodes[Len(a.nodes)] = Goal
  BY RouteType DEF Yen
<1>2. /\ spur \in Nat \ {0} /\ spur < Len(Previous.nodes) /\ Path(Root)
      /\ Len(Root.nodes) = spur /\ Source = Previous.nodes[spur] /\ Source # Goal
      /\ \A i \in 1..spur : Root.nodes[i] = Previous.nodes[i]
  BY RootType
<1>3. ASSUME Len(a.nodes) >= spur
      PROVE  /\ SubSeq(a.nodes, 1, spur) \in Seq(Nodes) /\ Len(SubSeq(a.nodes, 1, spur)) = spur
             /\ \A i \in 1..spur : SubSeq(a.nodes, 1, spur)[i] = a.nodes[i]
  <2>1. 1 \in Int /\ spur \in Int /\ 1 <= spur /\ \A i \in 1..spur : a.nodes[i] \in Nodes
    BY <1>1, <1>2, <1>3, PathType
  <2>2. /\ SubSeq(a.nodes, 1, spur) \in Seq(Nodes)
        /\ Len(SubSeq(a.nodes, 1, spur)) = spur - 1 + 1
        /\ \A i \in 1..(spur - 1 + 1) : SubSeq(a.nodes, 1, spur)[i] = a.nodes[1 + i - 1]
    BY <2>1, SubSeqProperties
  <2>3. spur - 1 + 1 = spur /\ \A i \in 1..spur : 1 + i - 1 = i
    BY <2>1
  <2> QED BY <2>2, <2>3
<1>4. SameRoot(a) <=> Agree(a, Previous, spur)
  <2>1. ASSUME SameRoot(a) PROVE Agree(a, Previous, spur)
    <3>1. Len(a.nodes) >= spur /\ SubSeq(a.nodes, 1, spur) = Root.nodes
      BY <2>1 DEF SameRoot
    <3> QED BY <1>1, <1>2, <1>3, <3>1, SMTT(60) DEF Agree
  <2>2. ASSUME Agree(a, Previous, spur) PROVE SameRoot(a)
    <3>1. Len(a.nodes) >= spur /\ \A i \in 1..spur : a.nodes[i] = Previous.nodes[i]
      BY <1>1, <1>2, <2>2 DEF Agree
    <3>2. Root.nodes \in Seq(Nodes)
      BY <1>2, PathType
    <3>3. SubSeq(a.nodes, 1, spur) = Root.nodes
      BY <1>2, <1>3, <3>1, <3>2, SeqEqual
    <3> QED BY <3>1, <3>3 DEF SameRoot
  <2> QED BY <2>1, <2>2
<1>5. ASSUME SameRoot(a)
      PROVE  /\ spur < Len(a.nodes) /\ spur \in 1..Len(a.lanes)
             /\ NextChain(a) \in BannedEdges /\ NextChain(a) \in kept
  <2>1. /\ spur <= Len(a.nodes) /\ a.nodes[spur] = Source
    <3>1. Agree(a, Previous, spur) /\ spur \in 1..spur
      BY <1>2, <1>4, <1>5
    <3> QED BY <1>2, <3>1 DEF Agree
  <2>2. spur < Len(a.nodes) /\ spur \in 1..Len(a.lanes)
    BY <1>1, <1>2, <2>1
  <2>3. NextChain(a) \in kept
    BY <1>1, <2>2 DEF Path, NextChain
  <2>4. NextChain(a) \in BannedEdges
    <3>1. PICK i \in DOMAIN accepted : a = accepted[i]
      BY DEF Accepted
    <3> QED BY <1>2, <1>5, <3>1 DEF BannedEdges
  <2> QED BY <2>2, <2>3, <2>4
<1> QED BY <1>4, <1>5

\* A spur makes a route that leaves the accepted ones at the spur.
LEMMA JoinedIsRoute ==
  ASSUME Given, SingleLanes, Yen, NEW f, GoalWay(f)
  PROVE  LET j == Joined(f)
         IN /\ j = Join(Root, f) /\ Route(j) /\ Agree(j, Previous, spur) /\ Branch(j, spur)
            /\ j \notin Accepted
            /\ Len(j.nodes) = spur + Len(f.nodes) - 1
            /\ \A i \in 1..Len(j.nodes) :
                 j.nodes[i] = IF i <= spur THEN Previous.nodes[i] ELSE f.nodes[i - spur + 1]
<1> DEFINE j == Joined(f)
           m == Len(f.nodes)
<1>1. /\ Previous \in Accepted /\ Route(Previous) /\ spur \in Nat \ {0}
      /\ spur < Len(Previous.nodes)
      /\ Path(Root) /\ Len(Root.nodes) = spur /\ Len(Root.lanes) = spur - 1
      /\ \A i \in 1..spur : Root.nodes[i] = Previous.nodes[i]
      /\ End(Root) = Source /\ Source = Previous.nodes[spur] /\ Source # Goal
  BY RootType
<1>2. /\ Path(f) /\ m \in Nat \ {0} /\ Len(f.lanes) = m - 1 /\ f.nodes[1] = Source
      /\ f.nodes[m] = Goal /\ Len(f.nodes) = m
      /\ \A i, k \in 1..m : f.nodes[i] = f.nodes[k] => i = k
      /\ \A i \in 2..m : f.nodes[i] \notin BannedNodes
      /\ \A i \in 1..(m - 1) : ChainOf(f.nodes, f.lanes, i) \notin BannedEdges
      /\ \A i \in 1..(m - 1) : ChainOf(f.nodes, f.lanes, i) \in kept
  <2>1. Way(f) /\ End(f) = Goal /\ Path(f)
    BY DEF GoalWay, Way
  <2>2. m \in Nat \ {0} /\ Len(f.lanes) = m - 1
    BY <2>1, PathType
  <2> QED BY <2>1, <2>2 DEF Way, Path, End
<1>3. m >= 2
  <2>1. m # 1
    BY <1>1, <1>2
  <2>2. \A n \in Nat \ {0} : n # 1 => n >= 2
    OBVIOUS
  <2> HIDE DEF m
  <2> QED BY <1>2, <2>1, <2>2, Zenon
<1> HIDE DEF m
<1>4. j = Join(Root, f)
  BY DEF Joined, Join
<1>5. \A i \in 1..Len(Root.nodes) : \A k \in 2..Len(f.nodes) : Root.nodes[i] # f.nodes[k]
  <2> SUFFICES ASSUME NEW i \in 1..spur, NEW k \in 2..m PROVE Previous.nodes[i] # f.nodes[k]
    BY <1>1, <1>2
  <2>1. CASE i = spur
    <3>1. 1 \in 1..m /\ k \in 1..m /\ k # 1
      BY <1>2, <1>3
    <3> QED BY <1>1, <1>2, <2>1, <3>1
  <2>2. CASE i # spur
    <3>1. i \in 1..(spur - 1)
      BY <1>1, <2>2
    <3> QED BY <1>2, <3>1 DEF BannedNodes
  <2> QED BY <2>1, <2>2
<1>6. /\ Path(j) /\ Len(j.nodes) = (spur - 1) + (m - 1) + 1
      /\ \A i \in 1..((spur - 1) + (m - 1) + 1) :
           j.nodes[i] = IF i <= (spur - 1) + 1 THEN Root.nodes[i] ELSE f.nodes[i - (spur - 1)]
  <2>1. End(Root) = f.nodes[1]
    BY <1>1, <1>2
  <2>2. /\ Path(Join(Root, f))
        /\ Len(Join(Root, f).nodes) = Len(Root.lanes) + Len(f.lanes) + 1
        /\ \A i \in 1..(Len(Root.lanes) + Len(f.lanes) + 1) :
             Join(Root, f).nodes[i] =
               IF i <= Len(Root.lanes) + 1 THEN Root.nodes[i] ELSE f.nodes[i - Len(Root.lanes)]
    BY <1>1, <1>2, <1>5, <2>1, JoinOfPaths, ZenonT(60)
  <2> HIDE DEF j
  <2>3. Len(Root.lanes) = spur - 1 /\ Len(f.lanes) = m - 1
    BY <1>1, <1>2
  <2> QED BY <1>4, <2>2, <2>3, Zenon
<1> HIDE DEF j
<1>7. /\ Len(j.nodes) = spur + m - 1 /\ spur + m - 1 \in Nat /\ spur + m - 1 >= spur + 1
      /\ \A i \in 1..(spur + m - 1) :
           j.nodes[i] = IF i <= spur THEN Previous.nodes[i] ELSE f.nodes[i - spur + 1]
  <2>1. /\ (spur - 1) + (m - 1) + 1 = spur + m - 1 /\ (spur - 1) + 1 = spur
        /\ spur + m - 1 \in Nat /\ spur + m - 1 >= spur + 1
    BY <1>1, <1>2, <1>3
  <2>2. ASSUME NEW i \in 1..(spur + m - 1)
        PROVE  j.nodes[i] = IF i <= spur THEN Previous.nodes[i] ELSE f.nodes[i - spur + 1]
    <3>1. i - (spur - 1) = i - spur + 1 /\ (i <= spur => i \in 1..spur)
      BY <1>1, <2>1
    <3> QED BY <1>1, <1>6, <2>1, <3>1
  <2> QED BY <1>6, <2>1, <2>2
<1>8. Route(j)
  <2>1. 1 \in 1..(spur + m - 1) /\ 1 <= spur /\ 1 \in 1..spur
    BY <1>1, <1>7
  <2>2. j.nodes[1] = Start
    BY <1>1, <1>7, <2>1 DEF Route
  <2>3. /\ spur + m - 1 \in 1..(spur + m - 1) /\ ~(spur + m - 1 <= spur)
        /\ (spur + m - 1) - spur + 1 = m
    BY <1>1, <1>2, <1>3
  <2>4. End(j) = Goal
    BY <1>2, <1>7, <2>3 DEF End
  <2> QED BY <1>6, <2>2, <2>4 DEF Route
<1>9. Agree(j, Previous, spur)
  <2>1. spur <= Len(Previous.nodes) /\ spur <= Len(j.nodes)
    BY <1>1, <1>7, RouteType
  <2>2. \A i \in 1..spur : i \in 1..(spur + m - 1) /\ i <= spur
    BY <1>1, <1>7
  <2> QED BY <1>7, <2>1, <2>2 DEF Agree
<1>10. ASSUME NEW a \in Accepted, Agree(j, a, spur + 1) PROVE FALSE
  <2>1. /\ Route(a) /\ Path(a) /\ Len(a.nodes) \in Nat
    BY RouteType DEF Yen
  <2>2. /\ spur + 1 <= Len(a.nodes) /\ \A i \in 1..(spur + 1) : j.nodes[i] = a.nodes[i]
    BY <1>10 DEF Agree
  <2>3. Agree(a, Previous, spur)
    <3>1. Agree(a, j, spur)
      <4>1. Len(j.nodes) \in Nat /\ spur \in Nat /\ spur + 1 \in Nat /\ spur <= spur + 1
        BY <1>1, <1>7
      <4> QED BY <1>10, <2>1, <4>1, AgreeLess
    <3> QED BY <1>1, <1>9, <3>1, AgreeTransitive
  <2>4. NextChain(a) \in BannedEdges /\ NextChain(a) \in kept
    BY <2>3, SharedRoot
  <2>5. ChainOf(f.nodes, f.lanes, 1) \in kept /\ ChainOf(f.nodes, f.lanes, 1) \notin BannedEdges
    <3>1. 1 \in 1..(m - 1)
      BY <1>2, <1>3
    <3> QED BY <1>2, <3>1
  <2>6. a.nodes[spur] = f.nodes[1] /\ a.nodes[spur + 1] = f.nodes[1 + 1]
    <3>1. /\ spur \in 1..(spur + 1) /\ spur + 1 \in 1..(spur + 1) /\ spur <= spur
          /\ ~(spur + 1 <= spur) /\ (spur + 1) - spur + 1 = 1 + 1
          /\ spur \in 1..(spur + m - 1) /\ spur + 1 \in 1..(spur + m - 1)
      BY <1>1, <1>2, <1>3
    <3> QED BY <1>1, <1>2, <1>7, <2>2, <3>1
  <2>7. NextChain(a) = ChainOf(f.nodes, f.lanes, 1)
    <3>1. NextChain(a)[1] = ChainOf(f.nodes, f.lanes, 1)[1]
      BY <2>6 DEF NextChain, ChainOf
    <3> QED BY <2>4, <2>5, <3>1 DEF SingleLanes
  <2> QED BY <2>4, <2>5, <2>7
<1>11. Branch(j, spur)
  BY <1>1, <1>9, <1>10 DEF Branch
<1>12. j \notin Accepted
  <2>1. Agree(j, j, spur + 1)
    BY <1>1, <1>7 DEF Agree
  <2> QED BY <1>10, <2>1
<1> QED BY <1>4, <1>7, <1>8, <1>9, <1>11, <1>12, Zenon DEF j, m

\* What a route does after the spur is a way to the goal.
LEMMA SpurOfRoute ==
  ASSUME Given, SingleLanes, Yen, NEW r, Route(r), Branch(r, spur), Agree(r, Previous, spur)
  PROVE  \E s : GoalWay(s) /\ Joined(s) = r
<1> DEFINE n == Len(r.nodes)
           s == Part(r, spur, n)
           d == n - spur
<1>1. /\ Previous \in Accepted /\ Route(Previous) /\ spur \in Nat \ {0}
      /\ spur < Len(Previous.nodes)
      /\ Path(Root) /\ Len(Root.nodes) = spur /\ Len(Root.lanes) = spur - 1
      /\ \A i \in 1..spur : Root.nodes[i] = Previous.nodes[i]
      /\ End(Root) = Source /\ Source = Previous.nodes[spur] /\ Source # Goal
  BY RootType
<1>2. /\ Path(r) /\ n \in Nat /\ r.nodes[n] = Goal /\ Len(r.lanes) = n - 1 /\ Len(r.nodes) = n
      /\ \A i, k \in 1..n : r.nodes[i] = r.nodes[k] => i = k
  BY RouteType DEF Path
<1>3. spur <= n /\ \A i \in 1..spur : r.nodes[i] = Previous.nodes[i]
  BY DEF Agree
<1>4. spur < n
  <2>1. spur \in 1..spur
    BY <1>1
  <2>2. r.nodes[spur] # Goal
    BY <1>1, <1>3, <2>1
  <2> HIDE DEF n
  <2> QED BY <1>1, <1>2, <1>3, <2>2
<1>5. d \in Nat \ {0} /\ n = spur + d /\ spur \in Nat \ {0} /\ n \in Nat
  BY <1>1, <1>2, <1>4
<1> HIDE DEF n, d
<1>6. /\ Path(s) /\ Len(s.nodes) = n - spur + 1 /\ Len(s.lanes) = n - spur
      /\ \A i \in 1..(n - spur + 1) : s.nodes[i] = r.nodes[spur + i - 1]
      /\ \A i \in 1..(n - spur) : s.lanes[i] = r.lanes[spur + i - 1]
  <2>1. spur \in 1..Len(r.nodes) /\ n \in spur..Len(r.nodes)
    BY <1>2, <1>4, <1>5
  <2>2. Path(r)
    BY <1>2
  <2>3. LET part == Part(r, spur, n)
        IN /\ Path(part) /\ Len(part.nodes) = n - spur + 1 /\ Len(part.lanes) = n - spur
           /\ \A i \in 1..(n - spur + 1) : part.nodes[i] = r.nodes[spur + i - 1]
           /\ \A i \in 1..(n - spur) : part.lanes[i] = r.lanes[spur + i - 1]
    BY <2>1, <2>2, PartOfPath, SMTT(60)
  <2> QED BY <2>3, Zenon
<1> HIDE DEF s
<1>7. /\ Len(s.nodes) = d + 1 /\ Len(s.lanes) = d
      /\ \A i \in 1..(d + 1) : s.nodes[i] = r.nodes[spur + i - 1]
      /\ \A i \in 1..d : s.lanes[i] = r.lanes[spur + i - 1]
  <2>1. n - spur = d
    BY <1>5
  <2> QED BY <1>6, <2>1
<1>8. s.nodes[1] = Source
  <2>1. 1 \in 1..(d + 1) /\ spur + 1 - 1 = spur /\ spur \in 1..spur
    BY <1>5
  <2> QED BY <1>1, <1>3, <1>7, <2>1
<1>9. ASSUME NEW i \in 2..(d + 1) PROVE s.nodes[i] \notin BannedNodes
  <2> SUFFICES ASSUME NEW k \in 1..(spur - 1), s.nodes[i] = Previous.nodes[k] PROVE FALSE
    BY DEF BannedNodes
  <2>1. /\ i \in 1..(d + 1) /\ spur + i - 1 \in 1..n /\ k \in 1..n /\ k \in 1..spur
        /\ spur + i - 1 # k
    BY <1>5
  <2>2. r.nodes[spur + i - 1] = r.nodes[k]
    BY <1>3, <1>7, <2>1
  <2> QED BY <1>2, <2>1, <2>2
<1>10. ASSUME NEW i \in 1..d PROVE ChainOf(s.nodes, s.lanes, i) \notin BannedEdges
  <2> SUFFICES ASSUME NEW x \in DOMAIN accepted, SameRoot(accepted[x]),
                      ChainOf(s.nodes, s.lanes, i) = NextChain(accepted[x])
               PROVE  FALSE
    BY <1>1 DEF BannedEdges
  <2> DEFINE a == accepted[x]
  <2>1. a \in Accepted
    BY DEF Accepted
  <2>2. /\ SameRoot(a) /\ ChainOf(s.nodes, s.lanes, i) = NextChain(a)
    OBVIOUS
  <2> HIDE DEF a
  <2>3. /\ Agree(a, Previous, spur) /\ spur < Len(a.nodes) /\ Len(a.nodes) \in Nat
    BY <2>1, <2>2, SharedRoot, RouteType DEF Yen
  <2>4. \A k \in 1..spur : a.nodes[k] = r.nodes[k]
    BY <1>3, <2>3 DEF Agree
  <2>5. /\ i \in 1..(d + 1) /\ i + 1 \in 1..(d + 1) /\ spur + (i + 1) - 1 = spur + i
        /\ spur + i - 1 \in 1..n /\ spur + i \in 1..n /\ spur \in 1..n /\ spur \in 1..spur
        /\ spur + i # spur
    BY <1>5
  <2>6. {r.nodes[spur + i - 1], r.nodes[spur + i]} = {a.nodes[spur], a.nodes[spur + 1]}
    <3>1. s.nodes[i] = r.nodes[spur + i - 1] /\ s.nodes[i + 1] = r.nodes[spur + i]
      BY <1>7, <2>5
    <3> QED BY <2>2, <3>1 DEF ChainOf, NextChain
  <2>7. a.nodes[spur] = r.nodes[spur]
    BY <2>4, <2>5
  <2>8. r.nodes[spur] # r.nodes[spur + i]
    BY <1>2, <2>5
  <2>9. r.nodes[spur + i - 1] = r.nodes[spur]
    BY <2>6, <2>7, <2>8
  <2>10. spur + i - 1 = spur
    BY <1>2, <2>5, <2>9
  <2>11. i = 1
    BY <1>5, <2>10
  <2>12. a.nodes[spur + 1] = r.nodes[spur + 1]
    BY <2>6, <2>7, <2>8, <2>9, <2>11
  <2>13. Agree(r, a, spur + 1)
    <3>1. spur + 1 <= n /\ spur + 1 <= Len(a.nodes)
      BY <1>5, <2>3
    <3>2. \A k \in 1..(spur + 1) : r.nodes[k] = a.nodes[k]
      <4>1. \A k \in 1..(spur + 1) : k = spur + 1 \/ k \in 1..spur
        BY <1>5
      <4> QED BY <2>4, <2>12, <4>1
    <3> QED BY <1>2, <3>1, <3>2 DEF Agree
  <2> QED BY <2>1, <2>13 DEF Branch
<1>11. End(s) = Goal
  <2>1. d + 1 \in 1..(d + 1) /\ spur + (d + 1) - 1 = n
    BY <1>5
  <2> QED BY <1>2, <1>7, <2>1 DEF End
<1>12. GoalWay(s)
  BY <1>6, <1>7, <1>8, <1>9, <1>10, <1>11 DEF GoalWay, Way
<1>13. Joined(s) = r
  <2> DEFINE j == Joined(s)
  <2>1. /\ Route(j) /\ Len(j.nodes) = spur + Len(s.nodes) - 1
        /\ \A i \in 1..Len(j.nodes) :
             j.nodes[i] = IF i <= spur THEN Previous.nodes[i] ELSE s.nodes[i - spur + 1]
    BY <1>12, JoinedIsRoute
  <2> HIDE DEF j
  <2>2. Len(j.nodes) = n
    BY <1>5, <1>7, <2>1
  <2>3. ASSUME NEW i \in 1..n PROVE j.nodes[i] = r.nodes[i]
    <3>1. CASE i <= spur
      <4>1. i \in 1..spur
        BY <1>5, <3>1
      <4> QED BY <1>3, <2>1, <2>2, <3>1, <4>1
    <3>2. CASE ~(i <= spur)
      <4>1. i - spur + 1 \in 1..(d + 1) /\ spur + (i - spur + 1) - 1 = i
        BY <1>5, <3>2
      <4>2. j.nodes[i] = s.nodes[i - spur + 1]
        BY <2>1, <2>2, <3>2
      <4> QED BY <1>7, <4>1, <4>2
    <3> QED BY <3>1, <3>2
  <2>4. Path(j) /\ Path(r) /\ Len(j.nodes) = Len(r.nodes)
    BY <1>2, <2>1, <2>2 DEF Route
  <2>5. \A i \in 1..Len(j.nodes) : j.nodes[i] = r.nodes[i]
    BY <2>2, <2>3
  <2> QED BY <2>4, <2>5, SameNodes DEF j
<1> QED BY <1>12, <1>13

\* The first spur makes the first of the routes that leave there.
LEMMA JoinedPrecedes ==
  ASSUME Given, SingleLanes, Yen, NEW f, NEW s, GoalWay(f), GoalWay(s), Precedes(f, s)
  PROVE  Precedes(Joined(f), Joined(s))
<1>1. /\ Joined(f) = Join(Root, f) /\ Path(Joined(f))
  BY JoinedIsRoute DEF Route
<1>2. /\ Joined(s) = Join(Root, s) /\ Path(Joined(s))
  BY JoinedIsRoute DEF Route
<1>3. /\ Path(f) /\ Path(s) /\ f.nodes[1] = s.nodes[1] /\ Path(Root)
  BY RootType DEF GoalWay, Way
<1>4. Precedes(Join(Root, f), Join(Root, s))
  BY <1>1, <1>2, <1>3, JoinPrecedes
<1> QED BY <1>1, <1>2, <1>4

\* After the search from a spur, one spur less is to come.
LEMMA SpurTried ==
  ASSUME Given, SingleLanes, Yen, Searching, SearchOver
  PROVE  LET all == candidates \cup Found
         IN /\ IsFiniteSet(all) /\ \A c \in all : Route(c) /\ c \notin Accepted
            /\ \A r : Route(r) /\ r \notin Accepted => Covered(r, spur + 1, all)
<1> DEFINE all == candidates \cup Found
           f == FirstOf(queue)
<1>1. spur \in Nat \ {0} /\ spur < Len(Previous.nodes) /\ Route(Previous)
  BY RootType
<1>2. ASSUME Arrived PROVE GoalWay(f) /\ \A p : GoalWay(p) /\ p # f => Precedes(f, p)
  BY <1>2, ArrivedIsFirst
<1> HIDE DEF f
<1>3. ASSUME NEW p, GoalWay(p) PROVE Arrived
  <2>1. queue # {}
    BY <1>3, NothingFound
  <2> QED BY <2>1 DEF SearchOver
<1>4. IsFiniteSet(all)
  <2>1. IsFiniteSet(Found)
    BY FS_Singleton, FS_EmptySet DEF Found
  <2> QED BY <2>1, FS_Union DEF Yen
<1>5. ASSUME NEW c \in all PROVE Route(c) /\ c \notin Accepted
  <2>1. CASE c \in candidates
    BY <2>1 DEF Yen
  <2>2. CASE c \in Found
    <3>1. Arrived /\ c = Joined(f)
      BY <2>2 DEF Found, f
    <3> QED BY <1>2, <3>1, JoinedIsRoute
  <2> QED BY <2>1, <2>2
<1>6. ASSUME Arrived PROVE Joined(f) \in all
  <2> DEFINE j == Joined(f)
  <2>1. Route(j) /\ j \notin Accepted
    BY <1>2, <1>6, JoinedIsRoute
  <2>2. ASSUME NEW o, Route(o), o.nodes = j.nodes, o.lanes = j.lanes PROVE o = j
    <3>1. Path(o) /\ Path(j)
      BY <2>1, <2>2 DEF Route
    <3>2. o.cost = j.cost
      BY <2>2, <3>1 DEF Path
    <3> QED BY <2>2, <3>1, <3>2, PathType
  <2>3. CASE Known(j)
    <3>1. j \in candidates
      <4> HIDE DEF j
      <4>1. CASE \E i \in DOMAIN accepted : accepted[i].nodes = j.nodes /\ accepted[i].lanes = j.lanes
        <5>1. PICK i \in DOMAIN accepted : accepted[i].nodes = j.nodes /\ accepted[i].lanes = j.lanes
          BY <4>1
        <5>2. accepted[i] \in Accepted /\ Route(accepted[i])
          BY DEF Accepted, Yen
        <5> QED BY <2>1, <2>2, <5>1, <5>2
      <4>2. CASE \E o \in candidates : o.nodes = j.nodes /\ o.lanes = j.lanes
        BY <2>2, <4>2 DEF Yen
      <4> QED BY <2>3, <4>1, <4>2 DEF Known
    <3> QED BY <3>1
  <2>4. CASE ~Known(j)
    BY <1>6, <2>4 DEF Found, f
  <2> QED BY <2>3, <2>4
<1>7. ASSUME NEW r, Route(r), r \notin Accepted PROVE Covered(r, spur + 1, all)
  <2>1. PICK m \in Nat \ {0} :
          /\ Branch(r, m)
          /\ \/ Agree(r, Previous, m) /\ spur <= m
             \/ \E c \in candidates : Branch(c, m) /\ Agree(c, r, m) /\ (c = r \/ Precedes(c, r))
    BY <1>7 DEF Yen, Covered
  <2>2. CASE \E c \in candidates : Branch(c, m) /\ Agree(c, r, m) /\ (c = r \/ Precedes(c, r))
    BY <2>1, <2>2 DEF Covered
  <2>3. CASE Agree(r, Previous, m) /\ spur + 1 <= m
    BY <2>1, <2>3 DEF Covered
  <2>4. CASE Agree(r, Previous, m) /\ spur = m
    <3>1. PICK s : GoalWay(s) /\ Joined(s) = r
      BY <1>7, <2>1, <2>4, SpurOfRoute
    <3>2. Arrived
      BY <1>3, <3>1
    <3> DEFINE j == Joined(f)
    <3>3. /\ Branch(j, m) /\ Agree(j, Previous, m) /\ j \in all
          /\ Route(j)
      BY <1>2, <1>6, <2>4, <3>2, JoinedIsRoute
    <3>4. j = r \/ Precedes(j, r)
      BY <1>2, <3>1, <3>2, JoinedPrecedes
    <3>5. Agree(j, r, m)
      <4>1. Len(r.nodes) \in Nat /\ Len(Previous.nodes) \in Nat
        BY <1>1, <1>7, RouteType
      <4>2. Agree(Previous, r, m)
        BY <2>4, <4>1, AgreeLess
      <4> QED BY <3>3, <4>2, AgreeTransitive
    <3> HIDE DEF j, all
    <3> QED BY <2>1, <3>3, <3>4, <3>5 DEF Covered
  <2>5. spur <= m => spur + 1 <= m \/ spur = m
    BY <1>1
  <2> QED BY <2>1, <2>2, <2>3, <2>4, <2>5
<1> QED BY <1>4, <1>5, <1>7

\* After the last spur of a route: the first candidate comes before every other
\* route that is left, and all of these are covered again once it is accepted.
LEMMA FirstCandidate ==
  ASSUME Given, SingleLanes, Yen, Searching, SearchOver, spur = Len(Previous.nodes) - 1
  PROVE  LET all == candidates \cup Found
             x == FirstOf(all)
         IN /\ IsFiniteSet(all) /\ \A c \in all : Route(c) /\ c \notin Accepted
            /\ all = {} => \A r : Route(r) => r \in Accepted
            /\ all # {} =>
                 /\ x \in all /\ Route(x) /\ x \notin Accepted
                 /\ \A r : Route(r) /\ r \notin Accepted /\ r # x => Precedes(x, r)
                 /\ \A i \in DOMAIN accepted : Precedes(accepted[i], x)
            /\ \A r : Route(r) /\ r \notin Accepted /\ r # x =>
                 \E m \in Nat \ {0} :
                   /\ \A a \in Accepted \cup {x} : ~Agree(r, a, m + 1)
                   /\ \/ Agree(r, x, m)
                      \/ /\ \E a \in Accepted : Agree(r, a, m)
                         /\ \E c \in all \ {x} :
                              /\ \E a \in Accepted : Agree(c, a, m)
                              /\ \A a \in Accepted \cup {x} : ~Agree(c, a, m + 1)
                              /\ Agree(c, r, m) /\ (c = r \/ Precedes(c, r))
<1> DEFINE all == candidates \cup Found
           x == FirstOf(all)
<1>1. /\ IsFiniteSet(all) /\ \A c \in all : Route(c) /\ c \notin Accepted
      /\ \A r : Route(r) /\ r \notin Accepted => Covered(r, spur + 1, all)
  BY SpurTried
<1>2. /\ Previous \in Accepted /\ Route(Previous) /\ spur \in Nat \ {0}
      /\ Len(Previous.nodes) \in Nat /\ spur + 1 = Len(Previous.nodes)
  BY RootType, RouteType
<1> HIDE DEF all
<1>3. ASSUME NEW r, Route(r), r \notin Accepted
      PROVE  \E m \in Nat \ {0} :
               /\ Branch(r, m)
               /\ \E c \in all : Branch(c, m) /\ Agree(c, r, m) /\ (c = r \/ Precedes(c, r))
  <2>1. PICK m \in Nat \ {0} :
          /\ Branch(r, m)
          /\ \/ Agree(r, Previous, m) /\ spur + 1 <= m
             \/ \E c \in all : Branch(c, m) /\ Agree(c, r, m) /\ (c = r \/ Precedes(c, r))
    BY <1>1, <1>3 DEF Covered
  <2>2. ASSUME Agree(r, Previous, m), spur + 1 <= m PROVE FALSE
    <3>1. m <= Len(Previous.nodes)
      BY <2>2 DEF Agree
    <3>2. m = Len(Previous.nodes)
      BY <1>2, <2>2, <3>1
    <3>3. r = Previous
      BY <1>2, <1>3, <2>2, <3>2, RouteEnds
    <3> QED BY <1>2, <1>3, <3>3
  <2> QED BY <2>1, <2>2
<1>4. ASSUME all = {}, NEW r, Route(r) PROVE r \in Accepted
  BY <1>3, <1>4
<1>5. ASSUME all # {}
      PROVE  /\ x \in all /\ Route(x) /\ x \notin Accepted /\ x \in Items
             /\ \A o \in all \ {x} : Precedes(x, o)
  <2>1. all \in SUBSET Items
    BY <1>1, RouteType
  <2>2. x \in all /\ \A o \in all \ {x} : Precedes(x, o)
    BY <1>1, <1>5, <2>1, FirstExists
  <2> HIDE DEF x
  <2> QED BY <1>1, <2>1, <2>2
<1> HIDE DEF x
<1>6. ASSUME all # {}, NEW r, Route(r), r \notin Accepted, r # x PROVE Precedes(x, r)
  <2>1. PICK c \in all : c = r \/ Precedes(c, r)
    BY <1>3, <1>6
  <2>2. r \in Items /\ c \in Items /\ x \in Items
    BY <1>1, <1>5, <1>6, RouteType
  <2>3. c = x \/ Precedes(x, c)
    BY <1>5, <1>6
  <2> QED BY <1>5, <1>6, <2>1, <2>2, <2>3, PrecedesTransitive
<1>7. ASSUME all # {}, NEW i \in DOMAIN accepted PROVE Precedes(accepted[i], x)
  <2>1. Precedes(Previous, x)
    BY <1>5, <1>7 DEF Yen
  <2>2. accepted[i] \in Accepted /\ accepted[i] \in Items /\ Previous \in Items /\ x \in Items
    BY <1>2, <1>5, <1>7, RouteType DEF Accepted, Yen
  <2>3. i = Len(accepted) \/ (i < Len(accepted) /\ Len(accepted) \in DOMAIN accepted)
    BY DEF Yen
  <2>4. accepted[i] = Previous \/ Precedes(accepted[i], Previous)
    BY <2>3 DEF Yen, Previous
  <2> QED BY <2>1, <2>2, <2>4, PrecedesTransitive
<1>8. ASSUME NEW r, Route(r), r \notin Accepted, r # x
      PROVE  \E m \in Nat \ {0} :
               /\ \A a \in Accepted \cup {x} : ~Agree(r, a, m + 1)
               /\ \/ Agree(r, x, m)
                  \/ /\ \E a \in Accepted : Agree(r, a, m)
                     /\ \E c \in all \ {x} :
                          /\ \E a \in Accepted : Agree(c, a, m)
                          /\ \A a \in Accepted \cup {x} : ~Agree(c, a, m + 1)
                          /\ Agree(c, r, m) /\ (c = r \/ Precedes(c, r))
  <2>1. PICK m \in Nat \ {0} :
          /\ Branch(r, m)
          /\ \E c \in all : Branch(c, m) /\ Agree(c, r, m) /\ (c = r \/ Precedes(c, r))
    BY <1>3, <1>8
  <2>2. PICK c \in all : Branch(c, m) /\ Agree(c, r, m) /\ (c = r \/ Precedes(c, r))
    BY <2>1
  <2>3. /\ Route(x) /\ Route(c) /\ Len(x.nodes) \in Nat /\ Len(r.nodes) \in Nat
        /\ Len(c.nodes) \in Nat /\ \A a \in Accepted : Len(a.nodes) \in Nat
    BY <1>1, <1>5, <1>8, <2>2, RouteType DEF Yen
  <2>4. CASE Agree(r, x, m)
    <3>1. PICK k \in Nat : m <= k /\ Agree(r, x, k) /\ ~Agree(r, x, k + 1)
      BY <2>1, <2>3, <2>4, MostShared
    <3>2. k \in Nat \ {0} /\ m + 1 \in Nat /\ k + 1 \in Nat /\ m + 1 <= k + 1
      BY <3>1
    <3>3. \A a \in Accepted : ~Agree(r, a, k + 1)
      BY <2>1, <2>3, <3>2, AgreeLess DEF Branch
    <3> QED BY <3>1, <3>2, <3>3
  <2>5. CASE ~Agree(r, x, m)
    <3>1. m \in Nat /\ m + 1 \in Nat /\ m <= m + 1 /\ m <= m
      OBVIOUS
    <3>2. ~Agree(r, x, m + 1)
      BY <2>3, <2>5, <3>1, AgreeLess
    <3>3. Agree(r, c, m)
      BY <2>2, <2>3, <3>1, AgreeLess
    <3>4. ~Agree(c, x, m)
      BY <2>5, <3>1, <3>3, AgreeTransitive
    <3>5. ~Agree(c, x, m + 1)
      BY <2>3, <3>1, <3>4, AgreeLess
    <3>6. c # x
      <4>1. Agree(c, c, m)
        BY <2>2 DEF Agree
      <4> QED BY <3>4, <4>1
    <3>7. /\ \A a \in Accepted \cup {x} : ~Agree(r, a, m + 1)
          /\ \A a \in Accepted \cup {x} : ~Agree(c, a, m + 1)
          /\ \E a \in Accepted : Agree(r, a, m)
          /\ \E a \in Accepted : Agree(c, a, m)
      BY <2>1, <2>2, <3>2, <3>5 DEF Branch
    <3> QED BY <2>1, <2>2, <3>6, <3>7
  <2> QED BY <2>4, <2>5
<1> QED BY <1>1, <1>4, <1>5, <1>6, <1>7, <1>8 DEF x, all

-------------------------------------------------------------------------------
\* Routes, of the property, are the loopless paths from the start to the goal.
LEMMA RoutesAreRoutes ==
  ASSUME Given, NEW r \in Routes
  PROVE  Route(r)
<1>1. PICK p, lanes :
        /\ p \in Inner
        /\ \A i, j \in DOMAIN p : p[i] = p[j] => i = j
        /\ lanes \in [1..(Len(<<Start>> \o p \o <<Goal>>) - 1) -> {1, 2}]
        /\ \A i \in DOMAIN lanes : ChainOf(<<Start>> \o p \o <<Goal>>, lanes, i) \in kept
        /\ r = Entry(TotalCost(<<Start>> \o p \o <<Goal>>, lanes), <<Start>> \o p \o <<Goal>>, lanes)
  BY DEF Routes, SimplePaths
<1>2. PICK n \in Nat : p \in [1..n -> Nodes \ {Start, Goal}]
  <2>1. Cardinality(Nodes) \in Nat
    BY FS_CardinalityType DEF Given, GraphAssumption
  <2> QED BY <1>1, <2>1, SMTT(60) DEF Inner
<1> DEFINE nodes == <<Start>> \o p \o <<Goal>>
<1>3. /\ p \in Seq(Nodes) /\ Len(p) = n /\ DOMAIN p = 1..n
      /\ \A i \in 1..n : p[i] \in Nodes /\ p[i] # Start /\ p[i] # Goal
  BY <1>2
<1>4. Start \in Nodes /\ Goal \in Nodes /\ Start # Goal
  BY DEF Given, GraphAssumption
<1>5. /\ nodes \in Seq(Nodes) /\ Len(nodes) = n + 2 /\ nodes[1] = Start /\ nodes[n + 2] = Goal
      /\ \A i \in 1..n : nodes[i + 1] = p[i]
  <2> DEFINE s == <<Start>>
             t == s \o p
             g == <<Goal>>
  <2>1. s \in Seq(Nodes) /\ Len(s) = 1 /\ s[1] = Start /\ g \in Seq(Nodes) /\ Len(g) = 1 /\ g[1] = Goal
    BY <1>4
  <2>2. nodes = t \o g /\ t = s \o p
    OBVIOUS
  <2> HIDE DEF nodes, t, s, g
  <2>3. /\ t \in Seq(Nodes) /\ Len(t) = Len(s) + Len(p)
        /\ \A i \in 1..(Len(s) + Len(p)) : t[i] = IF i <= Len(s) THEN s[i] ELSE p[i - Len(s)]
    BY <1>3, <2>1, <2>2, ConcatProperties
  <2>4. /\ nodes \in Seq(Nodes) /\ Len(nodes) = Len(t) + Len(g)
        /\ \A i \in 1..(Len(t) + Len(g)) : nodes[i] = IF i <= Len(t) THEN t[i] ELSE g[i - Len(t)]
    BY <2>1, <2>2, <2>3, ConcatProperties
  <2>5. /\ Len(t) = 1 + n /\ Len(nodes) = (1 + n) + 1
        /\ \A i \in 1..(1 + n) : t[i] = IF i <= 1 THEN s[i] ELSE p[i - 1]
        /\ \A i \in 1..((1 + n) + 1) : nodes[i] = IF i <= 1 + n THEN t[i] ELSE g[i - (1 + n)]
    BY <1>3, <2>1, <2>3, <2>4, Zenon
  <2>6. nodes[1] = Start
    <3>1. 1 \in 1..((1 + n) + 1) /\ 1 <= 1 + n /\ 1 \in 1..(1 + n) /\ 1 <= 1
      BY <1>2
    <3> QED BY <2>1, <2>5, <3>1
  <2>7. nodes[n + 2] = Goal
    <3>1. n + 2 \in 1..((1 + n) + 1) /\ ~(n + 2 <= 1 + n) /\ (n + 2) - (1 + n) = 1
      BY <1>2
    <3> QED BY <2>1, <2>5, <3>1
  <2>8. ASSUME NEW i \in 1..n PROVE nodes[i + 1] = p[i]
    <3>1. /\ i + 1 \in 1..((1 + n) + 1) /\ i + 1 <= 1 + n /\ i + 1 \in 1..(1 + n) /\ ~(i + 1 <= 1)
          /\ (i + 1) - 1 = i
      BY <1>2
    <3> QED BY <2>5, <3>1
  <2>9. (1 + n) + 1 = n + 2
    BY <1>2
  <2> QED BY <2>4, <2>5, <2>6, <2>7, <2>8, <2>9
<1> HIDE DEF nodes
<1>6. n + 2 - 1 = n + 1 /\ n + 1 \in Nat
  BY <1>2
<1>7. /\ lanes \in [1..(n + 1) -> {1, 2}]
      /\ \A i \in 1..(n + 1) : ChainOf(nodes, lanes, i) \in kept
      /\ r = Entry(TotalCost(nodes, lanes), nodes, lanes)
  <2>1. /\ lanes \in [1..(Len(nodes) - 1) -> {1, 2}]
        /\ \A i \in DOMAIN lanes : ChainOf(nodes, lanes, i) \in kept
        /\ r = Entry(TotalCost(nodes, lanes), nodes, lanes)
    BY <1>1, Zenon DEF nodes
  <2>2. Len(nodes) - 1 = n + 1
    BY <1>5, <1>6
  <2>3. lanes \in [1..(n + 1) -> {1, 2}]
    BY <2>1, <2>2, Zenon
  <2>4. DOMAIN lanes = 1..(n + 1)
    BY <2>3
  <2> QED BY <2>1, <2>3, <2>4, Zenon
<1>8. lanes \in Seq({1, 2}) /\ Len(lanes) = n + 1
  BY <1>6, <1>7
<1>9. \A i, j \in 1..(n + 2) : nodes[i] = nodes[j] => i = j
  <2> SUFFICES ASSUME NEW i \in 1..(n + 2), NEW j \in 1..(n + 2), nodes[i] = nodes[j], i < j
               PROVE  FALSE
    BY <1>2
  <2>1. CASE i = 1
    <3>1. CASE j = n + 2
      BY <1>4, <1>5, <2>1, <3>1
    <3>2. CASE j # n + 2
      <4>1. j - 1 \in 1..n /\ (j - 1) + 1 = j
        BY <1>2, <2>1, <3>2
      <4> QED BY <1>3, <1>5, <2>1, <4>1
    <3> QED BY <3>1, <3>2
  <2>2. CASE i # 1
    <3>1. i - 1 \in 1..n /\ (i - 1) + 1 = i
      BY <1>2, <2>2
    <3>2. nodes[i] = p[i - 1]
      BY <1>5, <3>1
    <3>3. CASE j = n + 2
      BY <1>3, <1>5, <3>1, <3>2, <3>3
    <3>4. CASE j # n + 2
      <4>1. j - 1 \in 1..n /\ (j - 1) + 1 = j /\ i - 1 # j - 1
        BY <1>2, <2>2, <3>4
      <4>2. nodes[j] = p[j - 1]
        BY <1>5, <4>1
      <4> QED BY <1>1, <1>3, <3>1, <3>2, <4>1, <4>2
    <3> QED BY <3>3, <3>4
  <2> QED BY <2>1, <2>2
<1>10. TotalCost(nodes, lanes) \in Nat
  <2> DEFINE d == [i \in 1..(n + 1) |-> cost[ChainOf(nodes, lanes, i)]]
  <2>1. \A i \in 1..(n + 1) : d[i] \in Nat /\ d[i] = cost[ChainOf(nodes, lanes, i)]
    BY <1>7 DEF Given, GraphAssumption
  <2>2. PICK f \in [0..(n + 1) -> Nat] : f[0] = 0 /\ \A i \in 1..(n + 1) : f[i] = f[i - 1] + d[i]
    <3> HIDE DEF d
    <3> QED BY <1>6, <2>1, Sums
  <2>3. /\ f \in [0..(n + 1) -> Int] /\ n + 1 \in 0..(n + 1) /\ 0 \in 0..(n + 1)
        /\ \A i \in 1..(n + 1) : /\ cost[ChainOf(nodes, lanes, i)] \in Nat
                                 /\ f[i] = f[i - 1] + cost[ChainOf(nodes, lanes, i)]
    <3>1. f \in [0..(n + 1) -> Int] /\ n + 1 \in 0..(n + 1) /\ 0 \in 0..(n + 1)
      BY <1>6
    <3> HIDE DEF d
    <3> QED BY <2>1, <2>2, <3>1
  <2>4. TotalCost(nodes, lanes) = f[Len(lanes)] - f[0]
    <3>1. /\ Len(lanes) \in Nat /\ f \in [0..Len(lanes) -> Int]
          /\ \A i \in 1..Len(lanes) : /\ cost[ChainOf(nodes, lanes, i)] \in Nat
                                      /\ f[i] = f[i - 1] + cost[ChainOf(nodes, lanes, i)]
      BY <1>6, <1>8, <2>3, Zenon
    <3> QED BY <3>1, CostIs
  <2> HIDE DEF d
  <2> QED BY <1>8, <2>2, <2>3, <2>4
<1>11. /\ r \in [cost : Nat, nodes : Seq(Nodes), lanes : Seq({1, 2})]
       /\ r.nodes = nodes /\ r.lanes = lanes /\ r.cost = TotalCost(nodes, lanes)
  BY <1>5, <1>7, <1>8, <1>10 DEF Entry
<1>12. Len(r.nodes) = n + 2 /\ Len(r.lanes) = n + 1 /\ n + 2 = (n + 1) + 1
  BY <1>2, <1>5, <1>8, <1>11
<1>13. Path(r)
  BY <1>7, <1>9, <1>11, <1>12 DEF Path
<1> QED BY <1>5, <1>11, <1>12, <1>13 DEF Route, End

\* All of them: none has more nodes than there are.
LEMMA RoutesAreAll ==
  ASSUME Given, NEW r, Route(r)
  PROVE  r \in Routes
<1> DEFINE n == Len(r.nodes) - 2
           p == [i \in 1..n |-> r.nodes[i + 1]]
           nodes == <<Start>> \o p \o <<Goal>>
<1>1. /\ Path(r) /\ n \in Nat /\ Len(r.nodes) = n + 2 /\ Len(r.lanes) = n + 1
      /\ r.nodes[1] = Start /\ r.nodes[n + 2] = Goal
      /\ r.nodes \in Seq(Nodes) /\ r.lanes \in Seq({1, 2})
      /\ \A i, j \in 1..(n + 2) : r.nodes[i] = r.nodes[j] => i = j
      /\ \A i \in 1..(n + 2) : r.nodes[i] \in Nodes
      /\ r = Entry(r.cost, r.nodes, r.lanes) /\ r.cost = TotalCost(r.nodes, r.lanes)
      /\ \A i \in 1..(n + 1) : ChainOf(r.nodes, r.lanes, i) \in kept
  <2>1. /\ Path(r) /\ Len(r.nodes) \in Nat /\ Len(r.nodes) >= 2 /\ Len(r.lanes) = Len(r.nodes) - 1
        /\ r.nodes[1] = Start /\ r.nodes[Len(r.nodes)] = Goal
    BY RouteType
  <2>2. n \in Nat /\ Len(r.nodes) = n + 2 /\ Len(r.lanes) = n + 1
    BY <2>1
  <2> HIDE DEF n
  <2>3. /\ r.nodes \in Seq(Nodes) /\ r.lanes \in Seq({1, 2})
        /\ \A i \in 1..(n + 2) : r.nodes[i] \in Nodes
        /\ r = Entry(r.cost, r.nodes, r.lanes)
    BY <2>1, <2>2, PathType
  <2> QED BY <2>1, <2>2, <2>3 DEF Path
<1> HIDE DEF n
<1>2. \A i \in 1..n : p[i] = r.nodes[i + 1] /\ p[i] \in Nodes \ {Start, Goal}
  <2> SUFFICES ASSUME NEW i \in 1..n PROVE r.nodes[i + 1] \in Nodes \ {Start, Goal}
    OBVIOUS
  <2>1. /\ i + 1 \in 1..(n + 2) /\ 1 \in 1..(n + 2) /\ n + 2 \in 1..(n + 2) /\ i + 1 # 1 /\ i + 1 # n + 2
    BY <1>1
  <2> QED BY <1>1, <2>1
<1>3. \A i, j \in 1..n : p[i] = p[j] => i = j
  <2> SUFFICES ASSUME NEW i \in 1..n, NEW j \in 1..n, p[i] = p[j] PROVE i = j
    OBVIOUS
  <2>1. i + 1 \in 1..(n + 2) /\ j + 1 \in 1..(n + 2) /\ r.nodes[i + 1] = r.nodes[j + 1]
    BY <1>1, <1>2
  <2>2. i + 1 = j + 1
    BY <1>1, <2>1
  <2> QED BY <2>2
<1>4. p \in [1..n -> Nodes \ {Start, Goal}] /\ DOMAIN p = 1..n
  BY <1>2
<1> HIDE DEF p
<1>5. Start \in Nodes /\ Goal \in Nodes /\ Start # Goal /\ IsFiniteSet(Nodes)
  BY DEF Given, GraphAssumption
<1>6. n \in 0..(Cardinality(Nodes) - 2)
  <2> DEFINE S == Nodes \ {Start}
             T == S \ {Goal}
  <2>1. IsFiniteSet(S) /\ Cardinality(S) = Cardinality(Nodes) - 1
    BY <1>5, FS_RemoveElement
  <2>2. Goal \in S /\ T = Nodes \ {Start, Goal}
    BY <1>5
  <2> HIDE DEF S
  <2>3. IsFiniteSet(T) /\ Cardinality(T) = Cardinality(S) - 1
    BY <2>1, <2>2, FS_RemoveElement
  <2> HIDE DEF T
  <2>4. Cardinality(1..n) = n
    BY <1>1, FS_Interval
  <2>5. p \in Injection(1..n, T)
    BY <1>3, <1>4, <2>2 DEF Injection, IsInjective
  <2>6. Cardinality(1..n) <= Cardinality(T)
    BY <2>3, <2>5, FS_Injection
  <2>7. Cardinality(Nodes) \in Nat /\ Cardinality(T) = Cardinality(Nodes) - 2
    BY <1>5, <2>1, <2>3, FS_CardinalityType
  <2> QED BY <1>1, <2>4, <2>6, <2>7
<1>7. p \in Inner
  BY <1>4, <1>6 DEF Inner
<1>8. nodes \in SimplePaths
  BY <1>3, <1>4, <1>7 DEF SimplePaths
<1>9. nodes = r.nodes
  <2>1. p \in Seq(Nodes) /\ Len(p) = n
    <3>1. n \in Nat
      BY <1>1
    <3> QED BY <1>4, <3>1
  <2> DEFINE s == <<Start>>
             t == s \o p
             g == <<Goal>>
  <2>2. s \in Seq(Nodes) /\ Len(s) = 1 /\ s[1] = Start /\ g \in Seq(Nodes) /\ Len(g) = 1 /\ g[1] = Goal
    BY <1>5
  <2>3. nodes = t \o g /\ t = s \o p
    OBVIOUS
  <2> HIDE DEF nodes, t, s, g
  <2>4. /\ t \in Seq(Nodes) /\ Len(t) = Len(s) + Len(p)
        /\ \A i \in 1..(Len(s) + Len(p)) : t[i] = IF i <= Len(s) THEN s[i] ELSE p[i - Len(s)]
    BY <2>1, <2>2, <2>3, ConcatProperties
  <2>5. /\ nodes \in Seq(Nodes) /\ Len(nodes) = Len(t) + Len(g)
        /\ \A i \in 1..(Len(t) + Len(g)) : nodes[i] = IF i <= Len(t) THEN t[i] ELSE g[i - Len(t)]
    BY <2>2, <2>3, <2>4, ConcatProperties
  <2>6. /\ Len(t) = 1 + n /\ Len(nodes) = (1 + n) + 1
        /\ \A i \in 1..(1 + n) : t[i] = IF i <= 1 THEN s[i] ELSE p[i - 1]
        /\ \A i \in 1..((1 + n) + 1) : nodes[i] = IF i <= 1 + n THEN t[i] ELSE g[i - (1 + n)]
    BY <2>1, <2>2, <2>4, <2>5, Zenon
  <2>7. (1 + n) + 1 = n + 2
    BY <1>1
  <2>8. ASSUME NEW i \in 1..(n + 2) PROVE nodes[i] = r.nodes[i]
    <3>0. i \in 1..((1 + n) + 1)
      BY <2>7
    <3>1. CASE i = 1
      <4>1. 1 <= 1 + n /\ 1 \in 1..(1 + n) /\ 1 <= 1
        BY <1>1
      <4> QED BY <1>1, <2>2, <2>6, <3>0, <3>1, <4>1
    <3>2. CASE i = n + 2
      <4>1. ~(n + 2 <= 1 + n) /\ (n + 2) - (1 + n) = 1
        BY <1>1
      <4> QED BY <1>1, <2>2, <2>6, <3>0, <3>2, <4>1
    <3>3. CASE i # 1 /\ i # n + 2
      <4>1. i <= 1 + n /\ i \in 1..(1 + n) /\ ~(i <= 1) /\ i - 1 \in 1..n /\ (i - 1) + 1 = i
        BY <1>1, <3>3
      <4> QED BY <1>2, <2>6, <3>0, <4>1
    <3> QED BY <3>1, <3>2, <3>3
  <2> QED BY <1>1, <2>5, <2>6, <2>7, <2>8, SeqEqual
<1> HIDE DEF nodes
<1>10. /\ Len(nodes) - 1 = n + 1 /\ r.lanes \in [1..(Len(nodes) - 1) -> {1, 2}]
       /\ DOMAIN r.lanes = 1..(n + 1)
  <2>1. Len(nodes) - 1 = n + 1
    BY <1>1, <1>9
  <2>2. r.lanes \in [1..(n + 1) -> {1, 2}] /\ DOMAIN r.lanes = 1..(n + 1)
    BY <1>1
  <2> QED BY <2>1, <2>2
<1>11. \A i \in DOMAIN r.lanes : ChainOf(nodes, r.lanes, i) \in kept
  BY <1>1, <1>9, <1>10
<1>12. r = Entry(TotalCost(nodes, r.lanes), nodes, r.lanes)
  BY <1>1, <1>9
<1> QED BY <1>8, <1>10, <1>11, <1>12 DEF Routes

-------------------------------------------------------------------------------
(* The steps *)

\* What the end of the rounds promises.
Done ==
  /\ accepted \in Seq(Items) /\ \A a \in Accepted : Route(a)
  /\ \A i, j \in DOMAIN accepted : i < j => Precedes(accepted[i], accepted[j])
  /\ \A r : Route(r) /\ r \notin Accepted => accepted # <<>> /\ Precedes(Previous, r)
  /\ Len(accepted) = K \/ \A r : Route(r) => r \in Accepted

RouteInv ==
  /\ Given
  /\ stage \in {"built", "classified", "ready"} => accepted = <<>> /\ candidates = {} /\ spur = 0
  /\ SingleLanes =>
       /\ stage = "search" =>
            /\ Searching
            /\ spur = 0 => accepted = <<>> /\ candidates = {}
            /\ spur # 0 => Yen
       /\ stage = "done" => Done

\* The graph stays as it is while routes are searched for.
LEMMA SameRoutes ==
  ASSUME UNCHANGED <<cost, kept>>
  PROVE  /\ \A r : Route(r)' = Route(r)
         /\ SingleLanes' = SingleLanes /\ Given' = Given
<1>1. \A nodes, lanes : TotalCost(nodes, lanes)' = TotalCost(nodes, lanes)
  BY DEF TotalCost, ChainOf
<1>2. \A nodes, lanes, i : ChainOf(nodes, lanes, i)' = ChainOf(nodes, lanes, i)
  BY DEF ChainOf
<1>3. \A p : Path(p)' = Path(p)
  BY <1>1, <1>2 DEF Path
<1>4. \A p : Route(p)' = Route(p)
  BY <1>3 DEF Route, End
<1>5. SingleLanes' = SingleLanes
  BY DEF SingleLanes
<1>6. Given' = Given
  BY DEF Given, GraphAssumption, Chains
<1> QED BY <1>4, <1>5, <1>6

\* A search that a step begins.
LEMMA NewSearch ==
  ASSUME Given', NEW n \in Nodes, Source' = n, Search(n)
  PROVE  Searching'
<1>1. (Given /\ Source \in Nodes /\ queue = {Entry(0, <<Source>>, <<>>)} /\ best = <<>>)'
  BY DEF Search, Entry
<1>2. (Given /\ Source \in Nodes /\ queue = {Entry(0, <<Source>>, <<>>)} /\ best = <<>>)'
      => Searching'
  BY SearchBegins, PTL
<1> QED BY <1>1, <1>2

\* The first route is the first of all, and every other one leaves it somewhere.
LEMMA FirstRouteStep ==
  ASSUME Given, SingleLanes, Searching, FirstRoute, accepted = <<>>, candidates = {}
  PROVE  /\ stage' = "search" => Searching' /\ spur' # 0 /\ Yen'
         /\ stage' = "done" => Done'
<1> DEFINE f == FirstOf(queue)
<1>1. /\ SearchOver /\ spur = 0 /\ spur' = 1 /\ Search(Start) /\ UNCHANGED <<cost, kept, candidates>>
      /\ IF Arrived
           THEN accepted' = <<f>> /\ stage' = (IF K = 1 THEN "done" ELSE "search")
           ELSE stage' = "done" /\ UNCHANGED accepted
  BY DEF FirstRoute
<1>2. /\ \A r : Route(r)' = Route(r)
      /\ Given'
  BY <1>1, SameRoutes
<1>3. \A p : Route(p) => GoalWay(p)
  <2>1. Source = Start /\ BannedNodes = {} /\ BannedEdges = {}
    BY <1>1 DEF Source, BannedNodes, BannedEdges
  <2> QED BY <2>1 DEF Route, GoalWay, Way
<1>4. \A p : GoalWay(p) => Route(p)
  <2>1. Source = Start
    BY <1>1 DEF Source
  <2> QED BY <2>1 DEF Route, GoalWay, Way
<1>5. CASE ~Arrived
  <2>1. queue = {} /\ stage' = "done" /\ accepted' = <<>>
    BY <1>1, <1>5 DEF SearchOver
  <2>2. \A p : ~Route(p)
    BY <1>3, <2>1, NothingFound
  <2>3. Accepted' = {} /\ DOMAIN accepted' = {}
    BY <2>1 DEF Accepted
  <2> QED BY <1>2, <2>1, <2>2, <2>3 DEF Done
<1>6. CASE Arrived
  <2>1. GoalWay(f) /\ \A p : GoalWay(p) /\ p # f => Precedes(f, p)
    BY <1>6, ArrivedIsFirst
  <2>2. accepted' = <<f>> /\ stage' = (IF K = 1 THEN "done" ELSE "search")
    BY <1>1, <1>6
  <2> HIDE DEF f
  <2>3. Route(f) /\ \A r : Route(r) /\ r # f => Precedes(f, r)
    BY <1>3, <1>4, <2>1
  <2>4. f \in Items /\ Len(f.nodes) \in Nat /\ Len(f.nodes) >= 2 /\ f.nodes[1] = Start
    BY <2>3, RouteType
  <2>5. /\ accepted' # <<>> /\ accepted' \in Seq(Items) /\ Len(accepted') = 1
        /\ DOMAIN accepted' = {1} /\ accepted'[1] = f
    BY <2>2, <2>4
  <2>6. Accepted' = {f} /\ Previous' = f
    BY <2>5 DEF Accepted, Previous
  <2>7. ASSUME NEW r, Route(r), r # f
        PROVE  \E m \in Nat \ {0} : Agree(r, f, m) /\ ~Agree(r, f, m + 1)
    <3>1. Len(r.nodes) \in Nat /\ Len(r.nodes) >= 2 /\ r.nodes[1] = Start
      BY <2>7, RouteType
    <3>2. Agree(r, f, 1)
      BY <2>4, <3>1 DEF Agree
    <3>3. PICK k \in Nat : 1 <= k /\ Agree(r, f, k) /\ ~Agree(r, f, k + 1)
      BY <3>1, <3>2, MostShared
    <3> QED BY <3>3
  <2>8. Yen'
    <3>1. /\ (spur \in 1..(Len(Previous.nodes) - 1))'
      BY <1>1, <2>4, <2>6
    <3>2. candidates' = {} /\ IsFiniteSet({})
      BY <1>1, FS_EmptySet
    <3>3. \A i, j \in DOMAIN accepted' : ~(i < j)
      BY <2>5
    <3>4. \A a \in Accepted' : Route(a)'
      BY <1>2, <2>3, <2>6
    <3>5. \A r : Route(r)' /\ r \notin Accepted' => Precedes(Previous', r)
      BY <1>2, <2>3, <2>6
    <3>6. ASSUME NEW r, Route(r), r \notin Accepted' PROVE Covered(r, spur, candidates)'
      <4>1. PICK m \in Nat \ {0} : Agree(r, f, m) /\ ~Agree(r, f, m + 1)
        BY <2>6, <2>7, <3>6
      <4>2. Branch(r, m)'
        BY <2>6, <4>1 DEF Branch
      <4>3. Agree(r, Previous', m) /\ spur' <= m
        BY <1>1, <2>6, <4>1
      <4> QED BY <4>2, <4>3 DEF Covered
    <3> QED BY <1>2, <2>5, <3>1, <3>2, <3>3, <3>4, <3>5, <3>6 DEF Yen
  <2>9. Searching'
    <3>1. Source' = Start
      BY <1>1, <2>4, <2>6 DEF Source
    <3>2. Start \in Nodes
      BY DEF Given, GraphAssumption
    <3> QED BY <1>1, <1>2, <3>1, <3>2, NewSearch
  <2>10. ASSUME stage' = "done" PROVE Done'
    <3>1. K = 1
      BY <2>2, <2>10
    <3>2. Len(accepted') = K
      BY <2>5, <3>1
    <3>3. \A i, j \in DOMAIN accepted' : ~(i < j)
      BY <2>5
    <3> QED BY <1>2, <2>3, <2>5, <2>6, <3>2, <3>3 DEF Done
  <2> QED BY <1>1, <2>8, <2>9, <2>10
<1> QED BY <1>5, <1>6

\* The next spur: what the last one was there for is covered by a candidate.
LEMMA NextSpurStep ==
  ASSUME Given, SingleLanes, Searching, Yen, NextSpur
  PROVE  Searching' /\ spur' # 0 /\ Yen'
<1> DEFINE all == candidates \cup Found
<1>1. /\ SearchOver /\ spur > 0 /\ spur < Len(Previous.nodes) - 1
      /\ candidates' = all /\ spur' = spur + 1
      /\ Search(Previous.nodes[spur + 1]) /\ UNCHANGED <<cost, kept, stage, accepted>>
  BY DEF NextSpur
<1>2. /\ \A r : Route(r)' = Route(r)
      /\ Given'
  BY <1>1, SameRoutes
<1>3. /\ IsFiniteSet(all) /\ \A c \in all : Route(c) /\ c \notin Accepted
      /\ \A r : Route(r) /\ r \notin Accepted => Covered(r, spur + 1, all)
  BY <1>1, SpurTried
<1>4. /\ Previous \in Accepted /\ Route(Previous) /\ spur \in Nat \ {0}
      /\ Len(Previous.nodes) \in Nat /\ Path(Previous)
  BY RootType, RouteType
<1> HIDE DEF all
<1>5. Accepted' = Accepted /\ Previous' = Previous /\ accepted' = accepted
  BY <1>1 DEF Accepted, Previous
<1>6. \A r, m : Branch(r, m)' = Branch(r, m)
  BY <1>5 DEF Branch
<1>7. \A r : Covered(r, spur + 1, all) => Covered(r, spur, candidates)'
  BY <1>1, <1>5, <1>6 DEF Covered
<1>8. spur' \in 1..(Len(Previous.nodes) - 1) /\ spur' # 0 /\ spur' \in 1..Len(Previous.nodes)
  BY <1>1, <1>4
<1>9. Yen'
  BY <1>1, <1>2, <1>3, <1>5, <1>7, <1>8 DEF Yen
<1>10. Searching'
  <2>1. Previous.nodes[spur'] \in Nodes
    BY <1>4, <1>8, PathType
  <2>2. Source' = Previous.nodes[spur']
    BY <1>5, <1>8 DEF Source
  <2> QED BY <1>1, <1>2, <2>1, <2>2, NewSearch
<1> QED BY <1>8, <1>9, <1>10

\* The next route: the first candidate, and what it covered leaves it now.
LEMMA SelectStep ==
  ASSUME Given, SingleLanes, Searching, Yen, Select
  PROVE  /\ stage' = "search" => Searching' /\ spur' # 0 /\ Yen'
         /\ stage' = "done" => Done'
<1> DEFINE all == candidates \cup Found
           x == FirstOf(all)
<1>1. /\ SearchOver /\ spur = Len(Previous.nodes) - 1 /\ spur' = 1 /\ Search(Start)
      /\ UNCHANGED <<cost, kept>>
      /\ IF all = {}
           THEN stage' = "done" /\ UNCHANGED <<accepted, candidates>>
           ELSE /\ accepted' = Append(accepted, x) /\ candidates' = all \ {x}
                /\ stage' = IF Len(accepted) + 1 = K THEN "done" ELSE "search"
  BY DEF Select
<1>2. /\ \A r : Route(r)' = Route(r)
      /\ Given'
  BY <1>1, SameRoutes
<1>3. /\ IsFiniteSet(all) /\ \A c \in all : Route(c) /\ c \notin Accepted
      /\ all = {} => \A r : Route(r) => r \in Accepted
      /\ all # {} =>
           /\ x \in all /\ Route(x) /\ x \notin Accepted
           /\ \A r : Route(r) /\ r \notin Accepted /\ r # x => Precedes(x, r)
           /\ \A i \in DOMAIN accepted : Precedes(accepted[i], x)
      /\ \A r : Route(r) /\ r \notin Accepted /\ r # x =>
           \E m \in Nat \ {0} :
             /\ \A a \in Accepted \cup {x} : ~Agree(r, a, m + 1)
             /\ \/ Agree(r, x, m)
                \/ /\ \E a \in Accepted : Agree(r, a, m)
                   /\ \E c \in all \ {x} :
                        /\ \E a \in Accepted : Agree(c, a, m)
                        /\ \A a \in Accepted \cup {x} : ~Agree(c, a, m + 1)
                        /\ Agree(c, r, m) /\ (c = r \/ Precedes(c, r))
  BY <1>1, FirstCandidate
<1> HIDE DEF x, all
<1>4. CASE all = {}
  <2>1. accepted' = accepted /\ stage' = "done"
    BY <1>1, <1>4
  <2>2. Accepted' = Accepted /\ Previous' = Previous
    BY <2>1 DEF Accepted, Previous
  <2> QED BY <1>2, <1>3, <1>4, <2>1, <2>2 DEF Done, Yen
<1>5. CASE all # {}
  <2>1. /\ x \in all /\ Route(x) /\ x \notin Accepted /\ x \in Items
        /\ Len(x.nodes) \in Nat /\ Len(x.nodes) >= 2 /\ x.nodes[1] = Start
    BY <1>3, <1>5, RouteType
  <2>2. /\ accepted' = Append(accepted, x) /\ candidates' = all \ {x}
        /\ stage' = IF Len(accepted) + 1 = K THEN "done" ELSE "search"
    BY <1>1, <1>5
  <2> DEFINE n == Len(accepted)
  <2>3. /\ n \in Nat /\ accepted' # <<>> /\ accepted' \in Seq(Items) /\ Len(accepted') = n + 1
        /\ DOMAIN accepted = 1..n /\ DOMAIN accepted' = 1..(n + 1)
        /\ \A i \in 1..n : accepted'[i] = accepted[i]
        /\ accepted'[n + 1] = x
    <3>1. accepted \in Seq(Items)
      BY DEF Yen
    <3>2. /\ accepted' \in Seq(Items) /\ accepted' # <<>> /\ Len(accepted') = Len(accepted) + 1
          /\ \A i \in 1..Len(accepted) : accepted'[i] = accepted[i]
          /\ accepted'[Len(accepted) + 1] = x
      BY <2>1, <2>2, <3>1, AppendProperties
    <3> QED BY <3>1, <3>2
  <2>4. Accepted' = Accepted \cup {x}
    <3>1. \A i \in 1..(n + 1) : i \in 1..n \/ i = n + 1
      BY <2>3
    <3>2. \A i \in 1..n : i \in 1..(n + 1)
      BY <2>3
    <3>3. n + 1 \in 1..(n + 1)
      BY <2>3
    <3> HIDE DEF n
    <3>4. Accepted' = {accepted'[i] : i \in 1..(n + 1)} /\ Accepted = {accepted[i] : i \in 1..n}
      BY <2>3, Zenon DEF Accepted
    <3> QED BY <2>3, <3>1, <3>2, <3>3, <3>4
  <2>5. Previous' = x
    BY <2>3 DEF Previous
  <2>6. ASSUME NEW i \in DOMAIN accepted', NEW j \in DOMAIN accepted', i < j
        PROVE  Precedes(accepted'[i], accepted'[j])
    <3>1. i \in 1..n
      BY <2>3, <2>6
    <3>2. CASE j = n + 1
      <4>1. accepted'[i] = accepted[i] /\ accepted'[j] = x /\ i \in DOMAIN accepted
        BY <2>3, <3>1, <3>2
      <4> HIDE DEF n
      <4> QED BY <1>3, <1>5, <4>1
    <3>3. CASE j # n + 1
      <4>1. j \in 1..n
        BY <2>3, <3>3
      <4>2. accepted'[i] = accepted[i] /\ accepted'[j] = accepted[j]
            /\ i \in DOMAIN accepted /\ j \in DOMAIN accepted
        BY <2>3, <3>1, <4>1
      <4> HIDE DEF n
      <4> QED BY <2>6, <4>2 DEF Yen
    <3> QED BY <3>2, <3>3
  <2>7. \A a \in Accepted' : Route(a)'
    BY <1>2, <2>1, <2>4 DEF Yen
  <2>8. \A r : Route(r)' /\ r \notin Accepted' => Precedes(Previous', r)
    BY <1>2, <1>3, <1>5, <2>4, <2>5
  <2>9. Yen'
    <3>1. (spur \in 1..(Len(Previous.nodes) - 1))'
      BY <1>1, <2>1, <2>5
    <3>2. IsFiniteSet(candidates') /\ \A c \in candidates' : Route(c)' /\ c \notin Accepted'
      <4>1. IsFiniteSet(all \ {x})
        BY <1>3, FS_RemoveElement
      <4> QED BY <1>2, <1>3, <2>2, <2>4, <4>1
    <3>3. ASSUME NEW r, Route(r), r \notin Accepted' PROVE Covered(r, spur, candidates)'
      <4>1. r \notin Accepted /\ r # x
        BY <2>4, <3>3
      <4>2. PICK m \in Nat \ {0} :
              /\ \A a \in Accepted' : ~Agree(r, a, m + 1)
              /\ \/ Agree(r, x, m)
                 \/ /\ \E a \in Accepted : Agree(r, a, m)
                    /\ \E c \in all \ {x} :
                         /\ \E a \in Accepted : Agree(c, a, m)
                         /\ \A a \in Accepted' : ~Agree(c, a, m + 1)
                         /\ Agree(c, r, m) /\ (c = r \/ Precedes(c, r))
        BY <1>3, <2>4, <3>3, <4>1
      <4>3. CASE Agree(r, x, m)
        <5>1. Branch(r, m)'
          BY <2>4, <4>2, <4>3 DEF Branch
        <5>2. Agree(r, Previous', m) /\ spur' <= m
          BY <1>1, <2>5, <4>3
        <5> QED BY <5>1, <5>2 DEF Covered
      <4>4. CASE ~Agree(r, x, m)
        <5>1. Branch(r, m)'
          BY <2>4, <4>2, <4>4 DEF Branch
        <5>2. PICK c \in all \ {x} :
                /\ \E a \in Accepted : Agree(c, a, m)
                /\ \A a \in Accepted' : ~Agree(c, a, m + 1)
                /\ Agree(c, r, m) /\ (c = r \/ Precedes(c, r))
          BY <4>2, <4>4
        <5>3. Branch(c, m)'
          BY <2>4, <5>2 DEF Branch
        <5>4. c \in candidates'
          BY <2>2
        <5> QED BY <5>1, <5>2, <5>3, <5>4 DEF Covered
      <4> QED BY <4>3, <4>4
    <3> QED BY <1>2, <2>3, <2>6, <2>7, <2>8, <3>1, <3>2, <3>3 DEF Yen
  <2>10. Searching'
    <3>1. Source' = Start
      BY <1>1, <2>1, <2>5 DEF Source
    <3>2. Start \in Nodes
      BY DEF Given, GraphAssumption
    <3> QED BY <1>1, <1>2, <3>1, <3>2, NewSearch
  <2>11. ASSUME stage' = "done" PROVE Done'
    <3>1. n + 1 = K
      BY <2>2, <2>11
    <3>2. Len(accepted') = K
      BY <2>3, <3>1
    <3> QED BY <2>3, <2>6, <2>7, <2>8, <3>2 DEF Done
  <2> QED BY <1>1, <2>9, <2>10, <2>11
<1> QED BY <1>4, <1>5

\* A pop leaves the rounds as they are.
LEMMA SameRounds ==
  ASSUME UNCHANGED <<cost, kept, accepted, candidates, spur>>
  PROVE  Yen' = Yen
<1>1. \A r : Route(r)' = Route(r)
  BY SameRoutes
<1>2. Accepted' = Accepted /\ Previous' = Previous
  BY DEF Accepted, Previous
<1>3. \A r, m : Branch(r, m)' = Branch(r, m)
  BY <1>2 DEF Branch
<1>4. \A r : Covered(r, spur, candidates)' = Covered(r, spur, candidates)
  BY <1>2, <1>3 DEF Covered
<1> QED BY <1>1, <1>2, <1>4 DEF Yen

\* The invariant holds at first, is kept by every step, and implies the property.
LEMMA RouteInvInit ==
  ASSUME GraphAssumption, Init
  PROVE  RouteInv
BY DEF Init, RouteInv, Given

LEMMA RouteInvNext ==
  ASSUME RouteInv, [Next]_graphVars
  PROVE  RouteInv'
<1> USE DEF graphVars, searchVars
<1>1. Given
  BY DEF RouteInv
<1>2. GraphAssumption' = GraphAssumption /\ Chains' = Chains
  BY DEF GraphAssumption, Chains
<1>3. CASE ApplyFootprintFeasibility
  <2>1. Given'
    BY <1>1, <1>2, <1>3, SameRoutes DEF ApplyFootprintFeasibility
  <2> QED BY <1>3, <2>1 DEF ApplyFootprintFeasibility, RouteInv
<1>4. CASE RetainLargestFeasibleComponent
  <2>1. Given'
    <3>1. kept' \subseteq Chains
      BY <1>1, <1>4 DEF RetainLargestFeasibleComponent, Feasible, Given
    <3> QED BY <1>1, <1>2, <1>4, <3>1 DEF RetainLargestFeasibleComponent, Given
  <2>2. stage' \in {"failed", "ready"}
    BY <1>4 DEF RetainLargestFeasibleComponent
  <2> QED BY <1>4, <2>1, <2>2 DEF RetainLargestFeasibleComponent, RouteInv
<1>5. CASE Query
  <2>1. Given' /\ SingleLanes' = SingleLanes
    BY <1>1, <1>5, SameRoutes DEF Query
  <2>2. accepted' = <<>> /\ candidates' = {} /\ spur' = 0 /\ stage' = "search"
    BY <1>5 DEF Query, RouteInv
  <2>3. Searching'
    <3>1. Source' = Start /\ Start \in Nodes /\ Search(Start)
      BY <1>1, <1>5, <2>2 DEF Source, Given, GraphAssumption, Query
    <3> QED BY <2>1, <3>1, NewSearch
  <2> QED BY <2>1, <2>2, <2>3 DEF RouteInv
<1>6. CASE Pop
  <2>1. /\ stage = "search" /\ stage' = "search"
        /\ UNCHANGED <<cost, kept, accepted, candidates, spur>>
    BY <1>6 DEF Pop
  <2>2. Given' /\ SingleLanes' = SingleLanes
    BY <1>1, <2>1, SameRoutes
  <2>3. Yen' = Yen
    BY <2>1, SameRounds
  <2>4. SingleLanes => Searching'
    BY <1>1, <1>6, <2>1, PopSearches DEF RouteInv
  <2> QED BY <2>1, <2>2, <2>3, <2>4 DEF RouteInv
<1>7. CASE FirstRoute
  <2>1. /\ stage = "search" /\ spur = 0 /\ stage' \in {"search", "done"}
        /\ UNCHANGED <<cost, kept>>
    BY <1>7 DEF FirstRoute, SearchOver
  <2>2. Given' /\ SingleLanes' = SingleLanes
    BY <1>1, <2>1, SameRoutes
  <2>3. SingleLanes => /\ stage' = "search" => Searching' /\ spur' # 0 /\ Yen'
                       /\ stage' = "done" => Done'
    BY <1>1, <1>7, <2>1, FirstRouteStep DEF RouteInv
  <2> QED BY <2>1, <2>2, <2>3 DEF RouteInv
<1>8. CASE NextSpur
  <2>1. /\ stage = "search" /\ spur # 0 /\ stage' = "search"
        /\ UNCHANGED <<cost, kept>>
    BY <1>8 DEF NextSpur, SearchOver
  <2>2. Given' /\ SingleLanes' = SingleLanes
    BY <1>1, <2>1, SameRoutes
  <2>3. SingleLanes => Searching' /\ spur' # 0 /\ Yen'
    BY <1>1, <1>8, <2>1, NextSpurStep DEF RouteInv
  <2> QED BY <2>1, <2>2, <2>3 DEF RouteInv
<1>9. CASE Select
  <2>1. /\ stage = "search" /\ spur # 0 /\ stage' \in {"search", "done"}
        /\ UNCHANGED <<cost, kept>>
    <3>1. SearchOver /\ spur > 0 /\ UNCHANGED <<cost, kept>>
      BY <1>9 DEF Select
    <3>2. CASE candidates \cup Found = {}
      <4>1. stage' = "done"
        BY <1>9, <3>2, Zenon DEF Select
      <4> QED BY <3>1, <4>1 DEF SearchOver
    <3>3. CASE candidates \cup Found # {}
      <4>1. stage' = IF Len(accepted) + 1 = K THEN "done" ELSE "search"
        BY <1>9, <3>3 DEF Select
      <4> QED BY <3>1, <4>1 DEF SearchOver
    <3> QED BY <3>2, <3>3
  <2>2. Given' /\ SingleLanes' = SingleLanes
    BY <1>1, <2>1, SameRoutes
  <2>3. SingleLanes => /\ stage' = "search" => Searching' /\ spur' # 0 /\ Yen'
                       /\ stage' = "done" => Done'
    BY <1>1, <1>9, <2>1, SelectStep DEF RouteInv
  <2> QED BY <2>1, <2>2, <2>3 DEF RouteInv
<1>10. CASE UNCHANGED graphVars
  <2>1. /\ UNCHANGED <<cost, kept, accepted, candidates, spur, stage, queue, best>>
    BY <1>10
  <2>2. Given' /\ SingleLanes' = SingleLanes /\ \A r : Route(r)' = Route(r)
    BY <1>1, <2>1, SameRoutes
  <2>3. Yen' = Yen
    BY <2>1, SameRounds
  <2>4. Searching' = Searching
    BY <2>1, SameWays DEF Searching
  <2>5. Done' = Done
    <3>1. Accepted' = Accepted /\ Previous' = Previous
      BY <2>1 DEF Accepted, Previous
    <3> QED BY <2>1, <2>2, <3>1 DEF Done
  <2> QED BY <2>1, <2>2, <2>3, <2>4, <2>5 DEF RouteInv
<1> QED BY <1>3, <1>4, <1>5, <1>6, <1>7, <1>8, <1>9, <1>10 DEF Next

LEMMA RouteInvFound ==
  ASSUME RouteInv
  PROVE  FirstRoutesFound
<1> SUFFICES ASSUME stage \in {"search", "done"}, spur = 1, SingleLanes
             PROVE  LET found == {accepted[i] : i \in DOMAIN accepted} IN
                    /\ found \subseteq Routes
                    /\ \A i, j \in DOMAIN accepted : i < j => Precedes(accepted[i], accepted[j])
                    /\ \A r \in Routes \ found :
                         accepted # <<>> /\ Precedes(accepted[Len(accepted)], r)
                    /\ stage = "done" => Len(accepted) = K \/ found = Routes
  BY DEF FirstRoutesFound
<1>1. Given
  BY DEF RouteInv
<1>2. \A r : r \in Routes <=> Route(r)
  BY <1>1, RoutesAreRoutes, RoutesAreAll
<1>3. CASE stage = "search"
  <2>1. Yen
    BY <1>3 DEF RouteInv
  <2> QED BY <1>2, <1>3, <2>1 DEF Yen, Accepted, Previous
<1>4. CASE stage = "done"
  <2>1. Done
    BY <1>4 DEF RouteInv
  <2>2. /\ Accepted \subseteq Routes
        /\ \A i, j \in DOMAIN accepted : i < j => Precedes(accepted[i], accepted[j])
        /\ \A r \in Routes \ Accepted : accepted # <<>> /\ Precedes(Previous, r)
        /\ Len(accepted) = K \/ Accepted = Routes
    BY <1>2, <2>1 DEF Done
  <2> QED BY <2>2 DEF Accepted, Previous
<1> QED BY <1>3, <1>4

\* The invariant of feasibility.py and multiroute.py, from the graph that is built
\* to the last round.
THEOREM RouteInvHolds == GraphAssumption => (Spec => []RouteInv)
<1> SUFFICES ASSUME GraphAssumption PROVE Spec => []RouteInv
  OBVIOUS
<1>1. Init => RouteInv
  BY RouteInvInit
<1>2. RouteInv /\ [Next]_graphVars => RouteInv'
  BY RouteInvNext
<1> QED BY <1>1, <1>2, PTL DEF Spec

\* k_shortest_loopless_routes accepts the first routes of all, in order, and stops
\* with k of them or all, whatever the graph, its costs, the query and k.
THEOREM FirstRoutes == GraphAssumption => (Spec => []FirstRoutesFound)
<1>1. RouteInv => FirstRoutesFound
  BY RouteInvFound
<1> QED BY <1>1, RouteInvHolds, PTL
=============================================================================
