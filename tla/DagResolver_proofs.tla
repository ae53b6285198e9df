-------------------------- MODULE DagResolver_proofs --------------------------
(***************************************************************************)
(* Proofs about the resolver (dag_resolver.py) for graphs of any length:   *)
(* LevelsOf ends, and resolve returns the earliest levels that keep the    *)
(* order, or raises CycleDetectedError if there are none.                  *)
(* They are inductions, written with a least counterexample: the set of    *)
(* natural numbers for which a claim fails has a least element.            *)
(*                                                                         *)
(* LoopInv is the invariant of the loop: in_degree counts the mentions of  *)
(* steps that are in no level yet, and the queue holds the steps without   *)
(* one that are in no level themselves.                                    *)
(***************************************************************************)
EXTENDS DagResolver, Integers, FiniteSetTheorems, WellFoundedInduction, TLAPS

\* Levels in which steps can be run: the numbers of the steps are distinct,
\* each is in one place, and after those it comes after.
KeepsOrder(g, levels) ==
    /\ g # <<>>
    /\ \A i, j \in DOMAIN g : g[i].step = g[j].step => i = j
    /\ levels \in Seq(Seq(Ids(g)))
    /\ \A n \in Ids(g) : \E k \in DOMAIN levels : n \in ToSet(levels[k])
    /\ \A j, k \in DOMAIN levels : \A x \in DOMAIN levels[j], y \in DOMAIN levels[k] :
          levels[j][x] = levels[k][y] => j = k /\ x = y
    /\ \A i \in DOMAIN g, k \in DOMAIN levels :
          g[i].step \in ToSet(levels[k]) =>
              \A d \in ToSet(g[i].after) \cap Ids(g) :
                  \E j \in 1 .. k - 1 : d \in ToSet(levels[j])

\* No number is that of two steps.
NoneTwice(g) == \A i, j \in DOMAIN g : g[i].step = g[j].step => i = j

-----------------------------------------------------------------------------
(* Numbers *)

\* A nonempty set of natural numbers has a least element (used for every
\* induction over a plan graph, dag_resolver.py:41-71).
LEMMA LeastNatural ==
  ASSUME NEW S \in SUBSET Nat, S # {}
  PROVE  \E n \in S : \A k \in S : n <= k
  <1>. DEFINE R == {ss \in Nat \X Nat : ss[1] < ss[2]}
  <1>1. IsWellFoundedOn(R, Nat)
    BY NatLessThanWellFounded, Zenon DEF OpToRel
  <1>2. \E x \in S : \A y \in S : ~ (<<y, x>> \in R)
    <2>. HIDE DEF R
    <2>. QED BY <1>1, WFMin, Zenon
  <1>3. PICK x \in S : \A y \in S : ~ (<<y, x>> \in R)
    BY <1>2
  <1>4. ASSUME NEW y \in S PROVE x <= y
    <2>1. ~(y < x)  BY <1>3
    <2>. QED BY <2>1
  <1>. QED BY <1>4

\* The maximum of a bounded, nonempty set of natural numbers is one of them
\* and none is larger (max(s.step ...), execute_service.py:1107).
LEMMA MaxOfBounded ==
  ASSUME NEW S \in SUBSET Nat, S # {},
         NEW b \in Nat, \A x \in S : x <= b
  PROVE  Max(S) \in S /\ \A x \in S : x <= Max(S)
  <1>. DEFINE Bounds == {c \in Nat : \A x \in S : x <= c}
  <1>1. PICK m \in Bounds : \A c \in Bounds : m <= c
    BY LeastNatural, b \in Bounds
  <1>2. m \in S
    <2>. SUFFICES ASSUME m \notin S PROVE FALSE
      OBVIOUS
    <2>1. \A x \in S : x < m  OBVIOUS
    <2>2. m \in Nat /\ m # 0
      <3>1. PICK x \in S : TRUE  OBVIOUS
      <3>2. x \in Nat /\ x < m  BY <2>1
      <3>. QED BY <3>2
    <2>3. \A x \in S : x <= m - 1  BY <2>1, <2>2
    <2>4. m - 1 \in Bounds  BY <2>2, <2>3
    <2>. HIDE DEF Bounds
    <2>. QED BY <1>1, <2>2, <2>4
  <1>3. \A y \in S : m >= y  BY <1>1
  <1>. HIDE DEF Bounds
  <1>. QED BY <1>2, <1>3 DEF Max

\* The values of a finite sequence of natural numbers are bounded, however
\* long it is (execute_service.py:1107).
LEMMA ValuesBounded ==
  ASSUME NEW L \in Nat, NEW f \in [1 .. L -> Nat]
  PROVE  \E b \in Nat : \A i \in 1 .. L : f[i] <= b
  <1>. DEFINE Bounded(n) == \E b \in Nat : \A i \in 1 .. n : f[i] <= b
              Bad == {n \in 0 .. L : ~Bounded(n)}
  <1>1. Bad = {}
    <2>. SUFFICES ASSUME Bad # {} PROVE FALSE
      OBVIOUS
    <2>1. PICK n \in Bad : \A k \in Bad : n <= k
      <3>1. Bad \in SUBSET Nat  OBVIOUS
      <3>. QED BY <3>1, LeastNatural
    <2>2. n \in 1 .. L
      <3>1. \A i \in 1 .. 0 : f[i] <= 0  OBVIOUS
      <3>2. Bounded(0)  BY <3>1
      <3>. HIDE DEF Bounded
      <3>. QED BY <3>2
    <2>3. n - 1 \in 0 .. L /\ n - 1 \notin Bad
      <3>. HIDE DEF Bad
      <3>. QED BY <2>1, <2>2
    <2>4. PICK b \in Nat : \A i \in 1 .. n - 1 : f[i] <= b
      BY <2>3
    <2>. DEFINE c == b + f[n]
    <2>. HIDE DEF Bad, Bounded
    <2>5. c \in Nat /\ b <= c /\ f[n] <= c
      BY <2>2
    <2>6. \A i \in 1 .. n : f[i] <= c
      <3>. SUFFICES ASSUME NEW i \in 1 .. n PROVE f[i] <= c
        OBVIOUS
      <3>. HIDE DEF c
      <3>1. CASE i = n  BY <2>5, <3>1
      <3>2. CASE i \in 1 .. n - 1
        <4>1. f[i] \in Nat /\ f[i] <= b  BY <2>2, <2>4, <3>2
        <4>. QED BY <2>5, <4>1
      <3>. QED BY <2>2, <3>1, <3>2
    <2>7. Bounded(n)
      <3>. HIDE DEF c
      <3>. QED BY <2>5, <2>6 DEF Bounded
    <2>. QED BY <2>7 DEF Bad
  <1>2. L \in 0 .. L /\ L \notin Bad
    <2>. HIDE DEF Bad
    <2>. QED BY <1>1
  <1>. QED BY <1>2

\* The minimum of a nonempty set of natural numbers is one of them.
LEMMA MinOfNaturals ==
  ASSUME NEW S \in SUBSET Nat, S # {}
  PROVE  Min(S) \in S /\ \A x \in S : Min(S) <= x
  BY LeastNatural DEF Min

-----------------------------------------------------------------------------
(* Finite sets and sequences *)

\* The interval from 1 to n has n elements.
LEMMA IntervalCounted ==
  ASSUME NEW n \in Nat
  PROVE  IsFiniteSet(1 .. n) /\ Cardinality(1 .. n) = n
  <1>1. 1 \in Int /\ n \in Int
    OBVIOUS
  <1>2. IsFiniteSet(1 .. n) /\ Cardinality(1 .. n) = IF 1 > n THEN 0 ELSE n - 1 + 1
    BY <1>1, FS_Interval, Zenon
  <1>. QED BY <1>2

\* A graph has at most as many numbers as steps, and as many only if they are
\* distinct (dag_resolver.py:41-42, 68).
LEMMA IdsFinite ==
  ASSUME NEW g, IsGraph(g)
  PROVE  /\ IsFiniteSet(Ids(g)) /\ Cardinality(Ids(g)) \in Nat
         /\ Cardinality(Ids(g)) <= Len(g)
         /\ Cardinality(Ids(g)) = Len(g) <=> NoneTwice(g)
  <1>. DEFINE f == [i \in 1 .. Len(g) |-> g[i].step]
  <1>1. Len(g) \in Nat /\ DOMAIN g = 1 .. Len(g)
    BY DEF IsGraph
  <1>2. f \in Surjection(1 .. Len(g), Ids(g))
    BY <1>1 DEF Ids, Surjection
  <1>3. IsFiniteSet(1 .. Len(g)) /\ Cardinality(1 .. Len(g)) = Len(g)
    BY <1>1, IntervalCounted
  <1>4. f \in Injection(1 .. Len(g), Ids(g)) <=> NoneTwice(g)
    BY <1>1, <1>2 DEF Injection, IsInjective, NoneTwice, Surjection
  <1>. HIDE DEF f
  <1>. QED BY <1>2, <1>3, <1>4, FS_Surjection, FS_CardinalityType

\* The mentions a step's in_degree counts are finitely many, and places in the
\* graph (dag_resolver.py:45-49).
LEMMA MentionsFinite ==
  ASSUME NEW g, IsGraph(g), NEW s
  PROVE  /\ IsFiniteSet(Mentions(g, s))
         /\ \A m \in Mentions(g, s) :
               /\ m[1] \in DOMAIN g /\ g[m[1]].step = s /\ Target(g, m) \in Ids(g)
               /\ m = <<m[1], m[2]>>
  <1>1. \A m \in Mentions(g, s) :
          /\ m[1] \in DOMAIN g /\ g[m[1]].step = s /\ m[2] \in DOMAIN g[m[1]].after
          /\ m = <<m[1], m[2]>> /\ Target(g, m) \in Ids(g)
    BY DEF Mentions, Target
  <1>. DEFINE f == [i \in 1 .. Len(g) |-> Len(g[i].after)]
  <1>2. /\ Len(g) \in Nat /\ DOMAIN g = 1 .. Len(g)
        /\ \A i \in DOMAIN g : Len(g[i].after) \in Nat /\ DOMAIN g[i].after = 1 .. Len(g[i].after)
    BY DEF IsGraph
  <1>3. f \in [1 .. Len(g) -> Nat]
    BY <1>2
  <1>4. PICK b \in Nat : \A i \in 1 .. Len(g) : f[i] <= b
    <2>. HIDE DEF f
    <2>. QED BY <1>2, <1>3, ValuesBounded
  <1>5. \A m \in Mentions(g, s) : m \in (1 .. Len(g)) \X (1 .. b)
    <2>. TAKE m \in Mentions(g, s)
    <2>1. m[1] \in 1 .. Len(g) /\ m[2] \in 1 .. Len(g[m[1]].after) /\ Len(g[m[1]].after) <= b
      BY <1>1, <1>2, <1>4
    <2>2. m[2] \in 1 .. b
      BY <1>2, <2>1
    <2>. QED BY <1>1, <2>1, <2>2
  <1>6. IsFiniteSet((1 .. Len(g)) \X (1 .. b))
    BY <1>2, IntervalCounted, FS_Product
  <1>7. IsFiniteSet(Mentions(g, s))
    <2>1. Mentions(g, s) \in SUBSET ((1 .. Len(g)) \X (1 .. b))
      BY <1>5
    <2>. QED BY <1>6, <2>1, FS_Subset
  <1>. QED BY <1>1, <1>7

\* A sequence without repetitions has as many elements as places.
LEMMA ElementsCounted ==
  ASSUME NEW S, NEW q \in Seq(S), \A x, y \in DOMAIN q : q[x] = q[y] => x = y
  PROVE  IsFiniteSet(ToSet(q)) /\ Cardinality(ToSet(q)) = Len(q)
  <1>1. DOMAIN q = 1 .. Len(q) /\ Len(q) \in Nat
    OBVIOUS
  <1>2. IsFiniteSet(1 .. Len(q)) /\ Cardinality(1 .. Len(q)) = Len(q)
    BY <1>1, IntervalCounted
  <1>. DEFINE f == [i \in 1 .. Len(q) |-> q[i]]
  <1>3. f \in Bijection(1 .. Len(q), ToSet(q))
    BY <1>1 DEF Bijection, Injection, Surjection, IsInjective, ToSet
  <1>. HIDE DEF f
  <1>. QED BY <1>2, <1>3, FS_Bijection DEF ExistsBijection

\* The elements that have distinct places are listed once each (the order of
\* the dictionary in_degree and of the queue, dag_resolver.py:51, 66).
LEMMA ListedOnce ==
  ASSUME NEW S, IsFiniteSet(S), NEW place \in [S -> Nat \X Nat],
         \A s, t \in S : place[s] = place[t] => s = t
  PROVE  /\ InOrder(place) \in Seq(S) /\ ToSet(InOrder(place)) = S
         /\ \A x, y \in DOMAIN InOrder(place) : InOrder(place)[x] = InOrder(place)[y] => x = y
  <1>. DEFINE N == Cardinality(S)
              Below(s) == {t \in S : Precedes(place[t], place[s])}
              rank == [s \in S |-> Cardinality(Below(s))]
              q == InOrder(place)
  <1>1. N \in Nat
    BY FS_CardinalityType
  <1>2. \A s \in S : place[s][1] \in Nat /\ place[s][2] \in Nat /\ place[s] = <<place[s][1], place[s][2]>>
    OBVIOUS
  <1>3. ASSUME NEW s \in S
        PROVE  IsFiniteSet(Below(s)) /\ Cardinality(Below(s)) \in 0 .. N - 1
    <2>1. Below(s) \in SUBSET S /\ s \notin Below(s)
      BY <1>2 DEF Precedes
    <2>2. IsFiniteSet(Below(s)) /\ Cardinality(Below(s)) <= N /\ Cardinality(Below(s)) # N
      BY <2>1, FS_Subset
    <2>3. Cardinality(Below(s)) \in Nat
      BY <2>2, FS_CardinalityType
    <2>. QED BY <1>1, <2>2, <2>3
  <1>4. ASSUME NEW s \in S, NEW t \in S, Precedes(place[s], place[t])
        PROVE  Cardinality(Below(s)) # Cardinality(Below(t))
    <2>1. Below(s) \subseteq Below(t)
      BY <1>2, <1>4 DEF Precedes
    <2>2. s \in Below(t) /\ s \notin Below(s)
      BY <1>2, <1>4 DEF Precedes
    <2>3. Below(s) # Below(t) /\ Below(s) \in SUBSET Below(t)
      BY <2>1, <2>2
    <2>. HIDE DEF Below
    <2>. QED BY <1>3, <2>3, FS_Subset
  <1>5. \A s, t \in S : s # t => Precedes(place[s], place[t]) \/ Precedes(place[t], place[s])
    <2>. SUFFICES ASSUME NEW s \in S, NEW t \in S, s # t
                  PROVE  Precedes(place[s], place[t]) \/ Precedes(place[t], place[s])
      OBVIOUS
    <2>1. place[s] # place[t]
      OBVIOUS
    <2>2. place[s][1] # place[t][1] \/ place[s][2] # place[t][2]
      BY <1>2, <2>1
    <2>. QED BY <1>2, <2>2 DEF Precedes
  <1>6. rank \in Injection(S, 0 .. N - 1)
    <2>1. rank \in [S -> 0 .. N - 1]
      <3>. HIDE DEF Below, N
      <3>. QED BY <1>3
    <2>2. \A s, t \in S : rank[s] = rank[t] => s = t
      <3>. HIDE DEF Below
      <3>. QED BY <1>4, <1>5
    <2>. HIDE DEF rank
    <2>. QED BY <2>1, <2>2 DEF Injection, IsInjective
  <1>7. IsFiniteSet(0 .. N - 1) /\ Cardinality(0 .. N - 1) = N
    <2>. HIDE DEF N
    <2>. QED BY <1>1, FS_Interval
  <1>8. \A n \in 0 .. N - 1 : \E s \in S : rank[s] = n
    <2>. HIDE DEF rank
    <2>1. rank \in Surjection(S, 0 .. N - 1)
      BY <1>6, <1>7, FS_Injection
    <2>. QED BY <2>1 DEF Surjection
  <1>9. q \in [1 .. N -> S] /\ \A n \in 1 .. N : rank[q[n]] = n - 1
    <2>1. DOMAIN place = S
      OBVIOUS
    <2>2. q = [n \in 1 .. N |-> CHOOSE s \in S : Cardinality(Below(s)) = n - 1]
      BY <2>1 DEF InOrder
    <2>3. \A s \in S : rank[s] = Cardinality(Below(s))
      OBVIOUS
    <2>. HIDE DEF q, rank, N, Below
    <2>4. ASSUME NEW n \in 1 .. N PROVE q[n] \in S /\ rank[q[n]] = n - 1
      <3>1. n - 1 \in 0 .. N - 1
        BY <1>1
      <3>2. \E s \in S : Cardinality(Below(s)) = n - 1
        BY <3>1, <1>8, <2>3
      <3>3. q[n] = CHOOSE s \in S : Cardinality(Below(s)) = n - 1
        BY <2>2
      <3>. QED BY <3>2, <3>3, <2>3
    <2>. QED BY <2>2, <2>4
  <1>. HIDE DEF rank, q, N, Below
  <1>10. q \in Seq(S)
    BY <1>1, <1>9
  <1>11. ASSUME NEW x \in DOMAIN q, NEW y \in DOMAIN q, q[x] = q[y] PROVE x = y
    <2>1. x \in 1 .. N /\ y \in 1 .. N /\ rank[q[x]] = x - 1 /\ rank[q[y]] = y - 1
      BY <1>9
    <2>2. x - 1 = y - 1 /\ x \in Int /\ y \in Int
      BY <1>11, <2>1
    <2>. QED BY <2>2
  <1>12. ToSet(q) = S
    <2>1. ASSUME NEW s \in S PROVE \E n \in DOMAIN q : q[n] = s
      <3>1. rank[s] \in 0 .. N - 1 /\ rank[s] + 1 \in 1 .. N
        BY <1>1, <1>6 DEF Injection
      <3>2. q[rank[s] + 1] \in S /\ rank[q[rank[s] + 1]] = rank[s]
        BY <1>1, <1>9, <3>1
      <3>3. q[rank[s] + 1] = s
        BY <1>6, <3>2 DEF Injection, IsInjective
      <3>. QED BY <1>9, <3>1, <3>3
    <2>. QED BY <1>9, <2>1 DEF ToSet
  <1>. QED BY <1>10, <1>11, <1>12 DEF q

-----------------------------------------------------------------------------
(* The loop *)

Done(levels) == UNION {ToSet(levels[k]) : k \in DOMAIN levels}
Unmet(g, levels, s) == {m \in Mentions(g, s) : Target(g, m) \notin Done(levels)}

\* Every step is in one place, after all it mentions, and as early as they allow.
LevelsInv(g, levels) ==
    /\ levels \in Seq(Seq(Ids(g)))
    /\ \A j, k \in DOMAIN levels : \A x \in DOMAIN levels[j], y \in DOMAIN levels[k] :
          levels[j][x] = levels[k][y] => j = k /\ x = y
    /\ \A k \in DOMAIN levels : \A s \in ToSet(levels[k]) :
          /\ \A m \in Mentions(g, s) : \E j \in 1 .. k - 1 : Target(g, m) \in ToSet(levels[j])
          /\ k # 1 => \E m \in Mentions(g, s) : Target(g, m) \in ToSet(levels[k - 1])

\* The queue holds the steps without unmet mentions that are in no level; the
\* last level has brought each of them its last one.
QueueInv(g, r) ==
    /\ r.queue \in Seq(Ids(g))
    /\ \A x, y \in DOMAIN r.queue : r.queue[x] = r.queue[y] => x = y
    /\ ToSet(r.queue) \cap Done(r.levels) = {}
    /\ \A s \in Ids(g) : s \in Done(r.levels) \cup ToSet(r.queue) <=> Unmet(g, r.levels, s) = {}
    /\ r.levels # <<>> => \A s \in ToSet(r.queue) :
          \E m \in Mentions(g, s) : Target(g, m) \in ToSet(r.levels[Len(r.levels)])

LoopInv(g, r) ==
    /\ LevelsInv(g, r.levels) /\ QueueInv(g, r)
    /\ r.deg \in [Ids(g) -> Nat]
    /\ \A s \in Ids(g) : r.deg[s] = Cardinality(Unmet(g, r.levels, s))
    /\ r.processed = Cardinality(Done(r.levels)) /\ r.processed \in Nat
    /\ Len(r.levels) <= r.processed

\* The loop begins with the steps that come after no other
\* (dag_resolver.py:41-53).
LEMMA LoopBegins ==
  ASSUME NEW g, IsGraph(g)
  PROVE  LoopInv(g, LoopStart(g))
  <1>. DEFINE r == LoopStart(g)
              roots == {n \in Ids(g) : InDegree(g)[n] = 0}
              place == [s \in roots |-> <<0, Min({i \in DOMAIN g : g[i].step = s})>>]
  <1>1. r.levels = <<>> /\ r.deg = InDegree(g) /\ r.processed = 0 /\ r.queue = InOrder(place)
    BY DEF LoopStart, Roots
  <1>2. Done(r.levels) = {} /\ Cardinality(Done(r.levels)) = 0
    <2>1. DOMAIN r.levels = {}
      BY <1>1
    <2>2. \A x : x \notin Done(r.levels)
      BY <2>1, Zenon DEF Done
    <2>3. Done(r.levels) = {}
      BY <2>2
    <2>. QED BY <2>3, FS_EmptySet
  <1>3. \A s \in Ids(g) : Unmet(g, r.levels, s) = Mentions(g, s)
    BY <1>2 DEF Unmet
  <1>4. \A s \in Ids(g) : /\ InDegree(g)[s] = Cardinality(Mentions(g, s)) /\ InDegree(g)[s] \in Nat
                          /\ InDegree(g)[s] = 0 <=> Mentions(g, s) = {}
    BY MentionsFinite, FS_CardinalityType, FS_EmptySet DEF InDegree
  <1>5. IsFiniteSet(roots)
    BY IdsFinite, FS_Subset
  <1>6. ASSUME NEW s \in roots
        PROVE  place[s] \in Nat \X Nat /\ place[s][2] \in DOMAIN g /\ g[place[s][2]].step = s
    <2>. DEFINE here == {i \in DOMAIN g : g[i].step = s}
    <2>1. here \in SUBSET Nat /\ here # {}
      BY DEF IsGraph, Ids
    <2>2. Min(here) \in here /\ Min(here) \in Nat
      BY <2>1, MinOfNaturals
    <2>. QED BY <2>2
  <1>. HIDE DEF r, place
  <1>7. place \in [roots -> Nat \X Nat] /\ \A s, t \in roots : place[s] = place[t] => s = t
    <2>1. place = [s \in roots |-> place[s]]
      BY DEF place
    <2>. HIDE DEF roots
    <2>. QED BY <2>1, <1>6
  <1>8. /\ r.queue \in Seq(roots) /\ ToSet(r.queue) = roots
        /\ \A x, y \in DOMAIN r.queue : r.queue[x] = r.queue[y] => x = y
    <2>. HIDE DEF roots
    <2>. QED BY <1>1, <1>5, <1>7, ListedOnce
  <1>9. r.queue \in Seq(Ids(g))
    BY <1>8
  <1>10. LevelsInv(g, r.levels)
    BY <1>1 DEF LevelsInv
  <1>11. QueueInv(g, r)
    BY <1>1, <1>2, <1>3, <1>4, <1>8, <1>9 DEF QueueInv
  <1>12. r.deg \in [Ids(g) -> Nat] /\ \A s \in Ids(g) : r.deg[s] = Cardinality(Unmet(g, r.levels, s))
    <2>1. r.deg = [s \in Ids(g) |-> r.deg[s]]
      BY <1>1 DEF InDegree
    <2>. QED BY <2>1, <1>1, <1>3, <1>4
  <1>. QED BY <1>1, <1>2, <1>10, <1>11, <1>12 DEF LoopInv, r

\* A round takes from in_degree what the queue has met (dag_resolver.py:62-64):
\* no mention is met by two of the queue.
LEMMA DecrementsCounted ==
  ASSUME NEW g, IsGraph(g), NEW queue, queue \in Seq(Ids(g)), NEW s,
         \A x, y \in DOMAIN queue : queue[x] = queue[y] => x = y
  PROVE  LET hit == {m \in Mentions(g, s) : Target(g, m) \in ToSet(queue)}
         IN  /\ IsFiniteSet(Decrements(g, queue, s))
             /\ Cardinality(Decrements(g, queue, s)) = Cardinality(hit)
             /\ Decrements(g, queue, s) = {} <=> hit = {}
  <1>. DEFINE hit == {m \in Mentions(g, s) : Target(g, m) \in ToSet(queue)}
              D == Decrements(g, queue, s)
              f == [d \in D |-> d[2]]
  <1>1. IsFiniteSet(hit)
    BY MentionsFinite, FS_Subset
  <1>2. \A d \in D : /\ d[1] \in DOMAIN queue /\ d[2] \in Mentions(g, s) /\ d = <<d[1], d[2]>>
                     /\ Target(g, d[2]) = queue[d[1]]
    BY DEF Decrements
  <1>3. \A d \in D : d[2] \in hit
    BY <1>2 DEF ToSet
  <1>4. \A d, e \in D : d[2] = e[2] => d = e
    <2>. SUFFICES ASSUME NEW d \in D, NEW e \in D, d[2] = e[2] PROVE d = e
      OBVIOUS
    <2>1. d[1] = e[1]
      BY <1>2
    <2>2. d = <<d[1], d[2]>> /\ e = <<e[1], e[2]>>
      BY <1>2
    <2>. QED BY <2>1, <2>2
  <1>5. \A m \in hit : \E d \in D : d[2] = m
    <2>. TAKE m \in hit
    <2>1. PICK x \in DOMAIN queue : queue[x] = Target(g, m)
      BY DEF ToSet
    <2>2. <<x, m>> \in D
      BY <2>1 DEF Decrements
    <2>. QED BY <2>2
  <1>. HIDE DEF hit, D
  <1>6. f \in Bijection(D, hit)
    BY <1>3, <1>4, <1>5 DEF Bijection, Injection, Surjection, IsInjective
  <1>7. f \in Injection(D, hit)
    BY <1>6 DEF Bijection
  <1>8. ExistsBijection(D, hit)
    BY <1>6 DEF ExistsBijection
  <1>9. IsFiniteSet(D)
    BY <1>1, <1>7, FS_Injection
  <1>10. Cardinality(D) = Cardinality(hit)
    BY <1>8, <1>9, FS_Bijection
  <1>11. D = {} <=> hit = {}
    BY <1>3, <1>5
  <1>. QED BY <1>9, <1>10, <1>11 DEF D, hit

\* Where the last mention of a step is met tells the step
\* (dag_resolver.py:62-66).
LEMMA LastDecrementTells ==
  ASSUME NEW g, IsGraph(g), NEW queue, queue \in Seq(Ids(g)), NEW s,
         Decrements(g, queue, s) # {}
  PROVE  /\ LastDecrement(g, queue, s) \in Nat \X Nat
         /\ LastDecrement(g, queue, s)[2] \in DOMAIN g
         /\ g[LastDecrement(g, queue, s)[2]].step = s
  <1>. DEFINE D == Decrements(g, queue, s)
              Q == {d[1] : d \in D}
              q == Max(Q)
              I == {d[2][1] : d \in {e \in D : e[1] = q}}
  <1>1. /\ Len(g) \in Nat /\ DOMAIN g = 1 .. Len(g)
        /\ Len(queue) \in Nat /\ DOMAIN queue = 1 .. Len(queue)
    BY DEF IsGraph
  <1>2. \A d \in D : /\ d[1] \in 1 .. Len(queue) /\ d[2][1] \in 1 .. Len(g) /\ g[d[2][1]].step = s
    BY <1>1, MentionsFinite DEF Decrements
  <1>. HIDE DEF D
  <1>3. q \in Q /\ q \in Nat
    <2>1. Q \in SUBSET Nat /\ Q # {} /\ \A x \in Q : x <= Len(queue)
      BY <1>1, <1>2 DEF D
    <2>. HIDE DEF Q
    <2>. QED BY <1>1, <2>1, MaxOfBounded
  <1>4. Max(I) \in I
    <2>1. \A d \in D : d[2][1] \in Nat /\ d[2][1] <= Len(g)
      BY <1>1, <1>2
    <2>2. I # {}
      BY <1>3
    <2>3. \A x \in I : \E d \in D : x = d[2][1]
      OBVIOUS
    <2>4. I \in SUBSET Nat /\ \A x \in I : x <= Len(g)
      <3>. HIDE DEF I
      <3>. QED BY <2>1, <2>3
    <2>. HIDE DEF I
    <2>. QED BY <1>1, <2>2, <2>4, MaxOfBounded
  <1>5. Max(I) \in 1 .. Len(g) /\ g[Max(I)].step = s
    BY <1>2, <1>4
  <1>6. LastDecrement(g, queue, s) = <<q, Max(I)>>
    BY DEF LastDecrement, D
  <1>. HIDE DEF q, I
  <1>. QED BY <1>1, <1>3, <1>5, <1>6

\* A round adds the queue to what is in a level (dag_resolver.py:56-60).
LEMMA DoneGrows ==
  ASSUME NEW S, NEW levels \in Seq(S), NEW queue
  PROVE  Done(Append(levels, queue)) = Done(levels) \cup ToSet(queue)
  <1>. DEFINE after == Append(levels, queue)
  <1>1. Len(levels) \in Nat /\ DOMAIN levels = 1 .. Len(levels)
    OBVIOUS
  <1>2. levels \in Seq(S \cup {queue})
    OBVIOUS
  <1>3. /\ DOMAIN after = 1 .. Len(levels) + 1
        /\ after[Len(levels) + 1] = queue
        /\ \A k \in DOMAIN levels : after[k] = levels[k]
    BY <1>2
  <1>4. DOMAIN after = (DOMAIN levels) \cup {Len(levels) + 1}
    BY <1>1, <1>3
  <1>. HIDE DEF after
  <1>5. \A x : x \in Done(after) <=> x \in Done(levels) \/ x \in ToSet(queue)
    BY <1>3, <1>4, Zenon DEF Done
  <1>. QED BY <1>5 DEF after

\* A round keeps the invariant: what it frees had unmet mentions before and
\* has none now, the last one met by this queue (dag_resolver.py:55-66).
LEMMA LoopGoesOn ==
  ASSUME NEW g, IsGraph(g), NEW r, LoopInv(g, r), r.queue # <<>>
  PROVE  LoopInv(g, LoopBody(g, r))
  <1>. DEFINE t == LoopBody(g, r)
              L == Len(r.levels)
              hit(s) == {m \in Mentions(g, s) : Target(g, m) \in ToSet(r.queue)}
              freed == {n \in Ids(g) : Freed(r.deg[n], t.deg[n])}
              place == [s \in freed |-> LastDecrement(g, r.queue, s)]
  <1>1. /\ t.levels = Append(r.levels, r.queue)
        /\ t.processed = r.processed + Len(r.queue)
        /\ t.deg = [s \in Ids(g) |-> r.deg[s] - Cardinality(Decrements(g, r.queue, s))]
        /\ t.queue = InOrder(place)
    BY DEF LoopBody
  <1>2. LevelsInv(g, r.levels) /\ QueueInv(g, r)
    BY DEF LoopInv
  <1>3. /\ r.levels \in Seq(Seq(Ids(g))) /\ L \in Nat /\ DOMAIN r.levels = 1 .. L
        /\ r.queue \in Seq(Ids(g)) /\ Len(r.queue) \in Nat /\ Len(r.queue) # 0
        /\ DOMAIN r.queue = 1 .. Len(r.queue)
    BY <1>2 DEF LevelsInv, QueueInv
  <1>. HIDE DEF t, L
  <1>4. /\ DOMAIN t.levels = 1 .. L + 1 /\ Len(t.levels) = L + 1
        /\ t.levels[L + 1] = r.queue
        /\ \A k \in 1 .. L : t.levels[k] = r.levels[k]
        /\ t.levels \in Seq(Seq(Ids(g)))
    BY <1>1, <1>3 DEF L
  <1>5. Done(t.levels) = Done(r.levels) \cup ToSet(r.queue)
    BY <1>1, <1>3, DoneGrows
  <1>6. ASSUME NEW s \in Ids(g)
        PROVE  /\ Unmet(g, t.levels, s) = Unmet(g, r.levels, s) \ hit(s)
               /\ hit(s) \subseteq Unmet(g, r.levels, s)
               /\ t.deg[s] = Cardinality(Unmet(g, t.levels, s)) /\ t.deg[s] \in Nat
               /\ Freed(r.deg[s], t.deg[s]) <=>
                    (Unmet(g, r.levels, s) # {} /\ Unmet(g, t.levels, s) = {})
    <2>1. Unmet(g, t.levels, s) = Unmet(g, r.levels, s) \ hit(s)
      BY <1>5 DEF Unmet
    <2>2. hit(s) \subseteq Unmet(g, r.levels, s)
      BY <1>2 DEF Unmet, QueueInv
    <2>3. IsFiniteSet(Unmet(g, r.levels, s))
      BY MentionsFinite, FS_Subset DEF Unmet
    <2>4. r.deg[s] = Cardinality(Unmet(g, r.levels, s))
      BY DEF LoopInv
    <2>5. Cardinality(Decrements(g, r.queue, s)) = Cardinality(hit(s))
      BY <1>2, <1>3, DecrementsCounted DEF QueueInv
    <2>6. IsFiniteSet(Unmet(g, t.levels, s)) /\ IsFiniteSet(hit(s))
      BY <2>1, <2>2, <2>3, FS_Subset
    <2>7. Unmet(g, r.levels, s) \cap hit(s) = hit(s)
      BY <2>2
    <2>. HIDE DEF hit
    <2>8. Cardinality(Unmet(g, t.levels, s))
            = Cardinality(Unmet(g, r.levels, s)) - Cardinality(hit(s))
      BY <2>1, <2>3, <2>7, FS_Difference
    <2>9. t.deg[s] = Cardinality(Unmet(g, t.levels, s))
      BY <1>1, <2>4, <2>5, <2>8
    <2>10. /\ Cardinality(Unmet(g, t.levels, s)) \in Nat
           /\ Cardinality(Unmet(g, r.levels, s)) \in Nat
           /\ Cardinality(Unmet(g, t.levels, s)) = 0 <=> Unmet(g, t.levels, s) = {}
           /\ Cardinality(Unmet(g, r.levels, s)) = 0 <=> Unmet(g, r.levels, s) = {}
      BY <2>3, <2>6, FS_CardinalityType, FS_EmptySet
    <2>. QED BY <2>1, <2>2, <2>4, <2>9, <2>10 DEF Freed
  <1>7. ASSUME NEW s \in freed
        PROVE  /\ s \in Ids(g) /\ s \notin Done(t.levels)
               /\ \E m \in Mentions(g, s) : Target(g, m) \in ToSet(r.queue)
               /\ place[s] \in Nat \X Nat /\ g[place[s][2]].step = s
    <2>1. s \in Ids(g) /\ Unmet(g, r.levels, s) # {} /\ Unmet(g, t.levels, s) = {}
      BY <1>6
    <2>2. s \notin Done(t.levels)
      BY <1>2, <1>5, <2>1 DEF QueueInv
    <2>3. hit(s) # {}
      BY <1>6, <2>1
    <2>4. Decrements(g, r.queue, s) # {}
      BY <1>2, <1>3, <2>3, DecrementsCounted DEF QueueInv
    <2>5. place[s] = LastDecrement(g, r.queue, s)
      OBVIOUS
    <2>. HIDE DEF place
    <2>6. place[s] \in Nat \X Nat /\ g[place[s][2]].step = s
      BY <1>3, <2>4, <2>5, LastDecrementTells
    <2>. QED BY <2>1, <2>2, <2>3, <2>6
  <1>8. \A s \in Ids(g) : s \in freed <=>
              (Unmet(g, r.levels, s) # {} /\ Unmet(g, t.levels, s) = {})
    BY <1>6
  <1>9. IsFiniteSet(freed)
    BY IdsFinite, FS_Subset
  <1>10. place \in [freed -> Nat \X Nat] /\ \A s, u \in freed : place[s] = place[u] => s = u
    <2>1. place = [s \in freed |-> place[s]]
      OBVIOUS
    <2>. HIDE DEF place, freed
    <2>. QED BY <2>1, <1>7
  <1>11. /\ t.queue \in Seq(freed) /\ ToSet(t.queue) = freed
         /\ \A x, y \in DOMAIN t.queue : t.queue[x] = t.queue[y] => x = y
    <2>. HIDE DEF place, freed
    <2>. QED BY <1>1, <1>9, <1>10, ListedOnce
  <1>12. QueueInv(g, t)
    <2>1. t.queue \in Seq(Ids(g))
      BY <1>11
    <2>2. ToSet(t.queue) \cap Done(t.levels) = {}
      <3>. HIDE DEF freed
      <3>. QED BY <1>7, <1>11
    <2>3. ASSUME NEW s \in Ids(g)
          PROVE  s \in Done(t.levels) \cup ToSet(t.queue) <=> Unmet(g, t.levels, s) = {}
      <3>1. s \in Done(t.levels) <=> Unmet(g, r.levels, s) = {}
        BY <1>2, <1>5 DEF QueueInv
      <3>2. Unmet(g, r.levels, s) = {} => Unmet(g, t.levels, s) = {}
        BY <1>6
      <3>. HIDE DEF freed
      <3>. QED BY <1>8, <1>11, <3>1, <3>2
    <2>4. \A s \in ToSet(t.queue) :
            \E m \in Mentions(g, s) : Target(g, m) \in ToSet(t.levels[Len(t.levels)])
      <3>. HIDE DEF freed
      <3>. QED BY <1>4, <1>7, <1>11
    <2>. QED BY <1>11, <2>1, <2>2, <2>3, <2>4 DEF QueueInv
  <1>. HIDE DEF freed, place
  <1>13. LevelsInv(g, t.levels)
    <2>1. ASSUME NEW j \in DOMAIN t.levels, NEW k \in DOMAIN t.levels,
                 NEW x \in DOMAIN t.levels[j], NEW y \in DOMAIN t.levels[k],
                 t.levels[j][x] = t.levels[k][y]
          PROVE  j = k /\ x = y
      <3>1. j \in 1 .. L \cup {L + 1} /\ k \in 1 .. L \cup {L + 1}
        BY <1>3, <1>4
      <3>2. \A i \in 1 .. L : \A z \in DOMAIN r.queue, w \in DOMAIN t.levels[i] : t.levels[i][w] # r.queue[z]
        <4>1. \A i \in 1 .. L : \A w \in DOMAIN r.levels[i] : r.levels[i][w] \in Done(r.levels)
          BY <1>3 DEF Done, ToSet
        <4>2. \A z \in DOMAIN r.queue : r.queue[z] \in ToSet(r.queue)
          BY DEF ToSet
        <4>. QED BY <1>2, <1>4, <4>1, <4>2 DEF QueueInv
      <3>3. CASE j \in 1 .. L /\ k \in 1 .. L
        <4>1. t.levels[j] = r.levels[j] /\ t.levels[k] = r.levels[k]
          BY <1>4, <3>3
        <4>. QED BY <1>2, <1>3, <2>1, <3>3, <4>1 DEF LevelsInv
      <3>4. CASE j = L + 1 /\ k = L + 1
        BY <1>2, <1>4, <2>1, <3>4 DEF QueueInv
      <3>5. CASE j = L + 1 /\ k \in 1 .. L
        <4>1. t.levels[k][y] # r.queue[x]
          BY <1>4, <3>2, <3>5
        <4>. QED BY <1>4, <2>1, <3>5, <4>1
      <3>6. CASE j \in 1 .. L /\ k = L + 1
        <4>1. t.levels[j][x] # r.queue[y]
          BY <1>4, <3>2, <3>6
        <4>. QED BY <1>4, <2>1, <3>6, <4>1
      <3>. QED BY <3>1, <3>3, <3>4, <3>5, <3>6
    <2>2. ASSUME NEW k \in DOMAIN t.levels, NEW s \in ToSet(t.levels[k])
          PROVE  /\ \A m \in Mentions(g, s) : \E j \in 1 .. k - 1 : Target(g, m) \in ToSet(t.levels[j])
                 /\ k # 1 => \E m \in Mentions(g, s) : Target(g, m) \in ToSet(t.levels[k - 1])
      <3>1. k \in 1 .. L \/ k = L + 1
        BY <1>3, <1>4
      <3>2. CASE k \in 1 .. L
        <4>1. s \in ToSet(r.levels[k]) /\ k \in DOMAIN r.levels
          BY <1>3, <1>4, <3>2
        <4>2. \A j \in 1 .. k - 1 : t.levels[j] = r.levels[j]
          BY <1>3, <1>4, <3>2
        <4>3. k # 1 => t.levels[k - 1] = r.levels[k - 1]
          <5>1. k # 1 => k - 1 \in 1 .. k - 1
            BY <1>3, <3>2
          <5>. QED BY <4>2, <5>1
        <4>4. \A m \in Mentions(g, s) : \E j \in 1 .. k - 1 : Target(g, m) \in ToSet(r.levels[j])
          BY <1>2, <4>1 DEF LevelsInv
        <4>5. k # 1 => \E m \in Mentions(g, s) : Target(g, m) \in ToSet(r.levels[k - 1])
          BY <1>2, <4>1 DEF LevelsInv
        <4>. QED BY <4>2, <4>3, <4>4, <4>5
      <3>3. CASE k = L + 1
        <4>1. s \in ToSet(r.queue) /\ s \in Ids(g)
          <5>1. s \in ToSet(r.queue)
            BY <1>4, <3>3
          <5>2. \A x \in DOMAIN r.queue : r.queue[x] \in Ids(g)
            BY <1>3
          <5>. QED BY <5>1, <5>2 DEF ToSet
        <4>2. \A m \in Mentions(g, s) : Target(g, m) \in Done(r.levels)
          BY <1>2, <4>1 DEF QueueInv, Unmet
        <4>3. \A m \in Mentions(g, s) : \E j \in 1 .. L : Target(g, m) \in ToSet(r.levels[j])
          BY <1>3, <4>2 DEF Done
        <4>4. k - 1 = L /\ \A j \in 1 .. L : t.levels[j] = r.levels[j]
          BY <1>3, <1>4, <3>3
        <4>5. k # 1 => r.levels # <<>> /\ t.levels[L] = r.levels[L]
          BY <1>3, <4>4, <3>3
        <4>. QED BY <1>2, <4>1, <4>3, <4>4, <4>5 DEF QueueInv, L
      <3>. QED BY <3>1, <3>2, <3>3
    <2>. QED BY <1>4, <2>1, <2>2 DEF LevelsInv
  <1>14. t.processed = Cardinality(Done(t.levels)) /\ t.processed \in Nat
    <2>1. \A s \in Done(r.levels) : s \in Ids(g)
      <3>1. \A k \in DOMAIN r.levels : r.levels[k] \in Seq(Ids(g))
        BY <1>3
      <3>2. \A k \in DOMAIN r.levels : \A s \in ToSet(r.levels[k]) : s \in Ids(g)
        BY <3>1 DEF ToSet
      <3>. QED BY <3>2 DEF Done
    <2>2. IsFiniteSet(Done(r.levels))
      BY <2>1, IdsFinite, FS_Subset
    <2>3. IsFiniteSet(ToSet(r.queue)) /\ Cardinality(ToSet(r.queue)) = Len(r.queue)
      BY <1>2, <1>3, ElementsCounted DEF QueueInv
    <2>4. Cardinality(Done(r.levels) \cap ToSet(r.queue)) = 0
      <3>1. Done(r.levels) \cap ToSet(r.queue) = {}
        BY <1>2 DEF QueueInv
      <3>. QED BY <3>1, FS_EmptySet
    <2>5. r.processed = Cardinality(Done(r.levels)) /\ r.processed \in Nat
      BY DEF LoopInv
    <2>6. Cardinality(Done(t.levels)) = Cardinality(Done(r.levels)) + Cardinality(ToSet(r.queue)) - 0
      BY <1>5, <2>2, <2>3, <2>4, FS_Union
    <2>. QED BY <1>1, <1>3, <2>3, <2>5, <2>6
  <1>15. Len(t.levels) <= t.processed
    BY <1>1, <1>3, <1>4 DEF LoopInv, L
  <1>16. t.deg \in [Ids(g) -> Nat] /\ \A s \in Ids(g) : t.deg[s] = Cardinality(Unmet(g, t.levels, s))
    <2>1. t.deg = [s \in Ids(g) |-> t.deg[s]]
      BY <1>1
    <2>. QED BY <2>1, <1>6
  <1>. QED BY <1>12, <1>13, <1>14, <1>15, <1>16 DEF LoopInv, t

-----------------------------------------------------------------------------
(* The recursion: the rule of the loop defines one function *)

LoopStep(g, r) == IF r.queue = <<>> THEN r ELSE LoopBody(g, r)

LoopRule(g, f) ==
    [n \in Nat |-> IF n = 0 THEN LoopStart(g)
                   ELSE LET r == f[n - 1] IN IF r.queue = <<>> THEN r ELSE LoopBody(g, r)]

RunsTo(g, n, f) == f[0] = LoopStart(g) /\ \A k \in 1 .. n : f[k] = LoopStep(g, f[k - 1])

\* The loop can be run for any number of rounds (dag_resolver.py:55).
LEMMA RunsGoOn ==
  ASSUME NEW g, NEW n \in Nat
  PROVE  \E f : RunsTo(g, n, f)
  <1>. DEFINE Bad == {m \in Nat : ~ \E f : RunsTo(g, m, f)}
  <1>1. Bad = {}
    <2>. SUFFICES ASSUME Bad # {} PROVE FALSE
      OBVIOUS
    <2>1. PICK m \in Bad : \A k \in Bad : m <= k
      BY LeastNatural
    <2>2. m # 0
      <3>1. [k \in {0} |-> LoopStart(g)][0] = LoopStart(g)
        OBVIOUS
      <3>2. RunsTo(g, 0, [k \in {0} |-> LoopStart(g)])
        BY <3>1 DEF RunsTo
      <3>. QED BY <3>2
    <2>3. PICK f : RunsTo(g, m - 1, f)
      <3>1. m - 1 \in Nat /\ ~(m <= m - 1)
        BY <2>2
      <3>2. m - 1 \notin Bad
        BY <2>1, <3>1
      <3>. QED BY <3>1, <3>2
    <2>. DEFINE h == [k \in 0 .. m |-> IF k = m THEN LoopStep(g, f[m - 1]) ELSE f[k]]
    <2>4. h[0] = f[0] /\ h[m] = LoopStep(g, f[m - 1]) /\ \A k \in 0 .. m - 1 : h[k] = f[k]
      BY <2>2
    <2>. HIDE DEF h
    <2>5. ASSUME NEW k \in 1 .. m PROVE h[k] = LoopStep(g, h[k - 1])
      <3>1. h[k - 1] = f[k - 1]
        BY <2>4
      <3>2. CASE k = m
        BY <2>4, <3>1, <3>2
      <3>3. CASE k \in 1 .. m - 1
        BY <2>3, <2>4, <3>1, <3>3 DEF RunsTo
      <3>. QED BY <3>2, <3>3
    <2>6. RunsTo(g, m, h)
      BY <2>3, <2>4, <2>5 DEF RunsTo
    <2>. QED BY <2>6
  <1>. QED BY <1>1

\* Two runs of the loop agree as far as both go.
LEMMA RunsAgree ==
  ASSUME NEW g, NEW n \in Nat, NEW f, NEW h, RunsTo(g, n, f), RunsTo(g, n, h)
  PROVE  f[n] = h[n]
  <1>. DEFINE Bad == {m \in 0 .. n : f[m] # h[m]}
  <1>1. Bad = {}
    <2>. SUFFICES ASSUME Bad # {} PROVE FALSE
      OBVIOUS
    <2>1. PICK m \in Bad : \A k \in Bad : m <= k
      <3>1. Bad \in SUBSET Nat
        OBVIOUS
      <3>. QED BY <3>1, LeastNatural
    <2>2. m # 0 /\ m \in 0 .. n /\ f[m] # h[m]
      BY DEF RunsTo
    <2>3. m - 1 \in 0 .. n /\ ~(m <= m - 1) /\ m \in 1 .. n
      BY <2>2
    <2>4. f[m - 1] = h[m - 1]
      BY <2>1, <2>3
    <2>. QED BY <2>2, <2>3, <2>4 DEF RunsTo
  <1>. QED BY <1>1

\* The rule has one solution: Loop is a function (dag_resolver.py:55-66).
LEMMA LoopIsRun ==
  ASSUME NEW g
  PROVE  \E f : /\ f[0] = LoopStart(g) /\ \A n \in Nat \ {0} : f[n] = LoopStep(g, f[n - 1])
                /\ Len(g) \in Nat => Resolved(g) = f[Len(g)]
  <1>. DEFINE run(n) == CHOOSE f : RunsTo(g, n, f)
              f0 == [n \in Nat |-> run(n)[n]]
  <1>1. \A n \in Nat : RunsTo(g, n, run(n))
    BY RunsGoOn
  <1>. HIDE DEF run
  <1>2. f0[0] = LoopStart(g)
    BY <1>1 DEF RunsTo
  <1>3. ASSUME NEW n \in Nat \ {0} PROVE f0[n] = LoopStep(g, f0[n - 1])
    <2>1. n - 1 \in Nat /\ n \in 1 .. n /\ \A k \in 1 .. n - 1 : k \in 1 .. n
      OBVIOUS
    <2>2. RunsTo(g, n, run(n)) /\ RunsTo(g, n - 1, run(n - 1))
      BY <1>1, <2>1
    <2>3. RunsTo(g, n - 1, run(n))
      BY <2>1, <2>2 DEF RunsTo
    <2>4. run(n)[n - 1] = run(n - 1)[n - 1]
      BY <2>1, <2>2, <2>3, RunsAgree
    <2>5. run(n)[n] = LoopStep(g, run(n)[n - 1])
      BY <2>1, <2>2 DEF RunsTo
    <2>. QED BY <2>1, <2>4, <2>5
  <1>4. f0 = LoopRule(g, f0)
    <2>1. \A n \in Nat : f0[n] = LoopRule(g, f0)[n]
      <3>. TAKE n \in Nat
      <3>1. CASE n = 0
        <4>1. LoopRule(g, f0)[0] = LoopStart(g)
          BY DEF LoopRule
        <4>. HIDE DEF f0
        <4>. QED BY <1>2, <3>1, <4>1
      <3>2. CASE n # 0
        <4>. HIDE DEF f0
        <4>. QED BY <1>3, <3>2 DEF LoopRule, LoopStep
      <3>. QED BY <3>1, <3>2
    <2>. QED BY <2>1 DEF LoopRule
  <1>. HIDE DEF f0
  <1>5. ASSUME NEW f, f = LoopRule(g, f) PROVE f = f0
    <2>1. \A h : h = LoopRule(g, h) => \A n \in Nat : RunsTo(g, n, h)
      <3>. SUFFICES ASSUME NEW h, h = LoopRule(g, h), NEW n \in Nat PROVE RunsTo(g, n, h)
        OBVIOUS
      <3>1. h[0] = LoopStart(g)
        BY DEF LoopRule
      <3>2. ASSUME NEW k \in 1 .. n PROVE h[k] = LoopStep(g, h[k - 1])
        BY DEF LoopRule, LoopStep
      <3>. QED BY <3>1, <3>2 DEF RunsTo
    <2>2. \A n \in Nat : f[n] = f0[n]
      BY <1>4, <1>5, <2>1, RunsAgree
    <2>3. f = [n \in Nat |-> f[n]] /\ f0 = [n \in Nat |-> f0[n]]
      BY <1>4, <1>5 DEF LoopRule
    <2>. QED BY <2>2, <2>3
  <1>6. Resolved(g) = f0[Len(g)]
    BY <1>4, <1>5 DEF Resolved, LoopRule
  <1>. QED BY <1>2, <1>3, <1>6

-----------------------------------------------------------------------------
(* What resolve returns *)

\* Every step in a level is a step of the graph.
LEMMA DoneAreIds ==
  ASSUME NEW g, IsGraph(g), NEW levels \in Seq(Seq(Ids(g)))
  PROVE  Done(levels) \subseteq Ids(g) /\ Cardinality(Done(levels)) <= Cardinality(Ids(g))
         /\ (Cardinality(Done(levels)) = Cardinality(Ids(g)) => Done(levels) = Ids(g))
  <1>1. \A k \in DOMAIN levels : levels[k] \in Seq(Ids(g))
    OBVIOUS
  <1>2. \A k \in DOMAIN levels : \A s \in ToSet(levels[k]) : s \in Ids(g)
    BY <1>1 DEF ToSet
  <1>3. Done(levels) \in SUBSET Ids(g)
    BY <1>2 DEF Done
  <1>. QED BY <1>3, IdsFinite, FS_Subset

\* When the loop has run as often as the graph is long its queue is empty:
\* every round puts a step into a level (dag_resolver.py:55).
LEMMA LoopEnds ==
  ASSUME NEW g, IsGraph(g)
  PROVE  LoopInv(g, Resolved(g)) /\ Resolved(g).queue = <<>>
  <1>1. Len(g) \in Nat
    BY DEF IsGraph
  <1>2. PICK f : /\ f[0] = LoopStart(g) /\ \A n \in Nat \ {0} : f[n] = LoopStep(g, f[n - 1])
                 /\ Resolved(g) = f[Len(g)]
    BY <1>1, LoopIsRun
  <1>. DEFINE Fine(n) == LoopInv(g, f[n]) /\ (f[n].queue = <<>> \/ Len(f[n].levels) = n)
              Bad == {n \in Nat : ~Fine(n)}
  <1>3. Bad = {}
    <2>. SUFFICES ASSUME Bad # {} PROVE FALSE
      OBVIOUS
    <2>1. PICK n \in Bad : \A k \in Bad : n <= k
      BY LeastNatural
    <2>2. n # 0
      <3>1. LoopInv(g, f[0]) /\ f[0].levels = <<>>
        BY <1>2, LoopBegins DEF LoopStart
      <3>2. Fine(0)
        BY <3>1
      <3>. HIDE DEF Fine
      <3>. QED BY <3>2
    <2>3. Fine(n - 1) /\ n - 1 \in Nat
      <3>1. n - 1 \in Nat /\ ~(n <= n - 1)
        BY <2>2
      <3>2. n - 1 \notin Bad
        BY <2>1, <3>1
      <3>. HIDE DEF Fine
      <3>. QED BY <3>1, <3>2
    <2>4. f[n] = LoopStep(g, f[n - 1])
      BY <1>2, <2>2
    <2>5. CASE f[n - 1].queue = <<>>
      BY <2>1, <2>3, <2>4, <2>5 DEF LoopStep
    <2>6. CASE f[n - 1].queue # <<>>
      <3>1. f[n] = LoopBody(g, f[n - 1])
        BY <2>4, <2>6 DEF LoopStep
      <3>2. LoopInv(g, f[n])
        BY <2>3, <2>6, <3>1, LoopGoesOn
      <3>3. f[n].levels = Append(f[n - 1].levels, f[n - 1].queue)
        BY <3>1 DEF LoopBody
      <3>4. Len(f[n - 1].levels) = n - 1 /\ f[n - 1].levels \in Seq(Seq(Ids(g)))
            /\ f[n - 1].queue \in Seq(Ids(g))
        BY <2>3, <2>6 DEF LoopInv, LevelsInv, QueueInv
      <3>5. Len(f[n].levels) = n
        BY <3>3, <3>4
      <3>. QED BY <2>1, <3>2, <3>5
    <2>. QED BY <2>5, <2>6
  <1>4. Fine(Len(g))
    <2>. HIDE DEF Fine
    <2>. QED BY <1>1, <1>3
  <1>. DEFINE r == f[Len(g)]
  <1>5. LoopInv(g, r) /\ (r.queue = <<>> \/ Len(r.levels) = Len(g))
    BY <1>4
  <1>. HIDE DEF r
  <1>6. r.queue = <<>>
    <2>. SUFFICES ASSUME r.queue # <<>> PROVE FALSE
      OBVIOUS
    <2>1. /\ r.levels \in Seq(Seq(Ids(g))) /\ r.queue \in Seq(Ids(g))
          /\ ToSet(r.queue) \cap Done(r.levels) = {}
          /\ Len(r.levels) = Len(g) /\ Len(r.levels) <= r.processed
          /\ r.processed = Cardinality(Done(r.levels)) /\ r.processed \in Nat
      BY <1>5 DEF LoopInv, LevelsInv, QueueInv
    <2>2. r.queue[1] \in Ids(g) /\ r.queue[1] \in ToSet(r.queue)
      BY <2>1 DEF ToSet
    <2>3. Done(r.levels) # Ids(g)
      BY <2>1, <2>2
    <2>4. /\ Cardinality(Done(r.levels)) <= Cardinality(Ids(g))
          /\ Cardinality(Done(r.levels)) # Cardinality(Ids(g))
      BY <2>1, <2>3, DoneAreIds
    <2>5. Cardinality(Ids(g)) \in Nat /\ Cardinality(Ids(g)) <= Len(g)
      BY IdsFinite
    <2>. QED BY <1>1, <2>1, <2>4, <2>5
  <1>. QED BY <1>2, <1>5, <1>6 DEF r

\* A graph is resolved if its numbers are distinct and every step has a level
\* (dag_resolver.py:68-71).
LEMMA ResolvedIsComplete ==
  ASSUME NEW g, IsGraph(g)
  PROVE  /\ Resolved(g).processed = Cardinality(Done(LevelsOf(g)))
         /\ Resolved(g).processed = Len(g) <=> (NoneTwice(g) /\ Done(LevelsOf(g)) = Ids(g))
  <1>1. /\ LevelsOf(g) \in Seq(Seq(Ids(g)))
        /\ Resolved(g).processed = Cardinality(Done(LevelsOf(g)))
    BY LoopEnds DEF LoopInv, LevelsInv, LevelsOf
  <1>2. /\ Cardinality(Done(LevelsOf(g))) <= Cardinality(Ids(g))
        /\ Cardinality(Done(LevelsOf(g))) = Cardinality(Ids(g)) => Done(LevelsOf(g)) = Ids(g)
    BY <1>1, DoneAreIds
  <1>3. /\ Cardinality(Ids(g)) \in Nat /\ Cardinality(Ids(g)) <= Len(g)
        /\ Cardinality(Ids(g)) = Len(g) <=> NoneTwice(g)
    BY IdsFinite
  <1>4. Cardinality(Done(LevelsOf(g))) \in Nat /\ Len(g) \in Nat
    BY <1>1, LoopEnds DEF LoopInv, IsGraph
  <1>. QED BY <1>1, <1>2, <1>3, <1>4

\* resolve returns levels in which the steps of a graph of any length can be
\* run: each is in one place, after those it comes after (dag_resolver.py:18-71).
THEOREM LevelsKeepOrder ==
  ASSUME NEW g, IsGraph(g), Resolvable(g)
  PROVE  KeepsOrder(g, LevelsOf(g))
  <1>. DEFINE levels == LevelsOf(g)
  <1>1. g # <<>> /\ NoneTwice(g) /\ Done(levels) = Ids(g)
    BY ResolvedIsComplete DEF Resolvable
  <1>2. LevelsInv(g, levels)
    BY LoopEnds DEF LoopInv, LevelsOf
  <1>. HIDE DEF levels
  <1>3. \A n \in Ids(g) : \E k \in DOMAIN levels : n \in ToSet(levels[k])
    BY <1>1, Zenon DEF Done
  <1>4. ASSUME NEW i \in DOMAIN g, NEW k \in DOMAIN levels, g[i].step \in ToSet(levels[k]),
               NEW d \in ToSet(g[i].after) \cap Ids(g)
        PROVE  \E j \in 1 .. k - 1 : d \in ToSet(levels[j])
    <2>1. PICK x \in DOMAIN g[i].after : g[i].after[x] = d
      BY DEF ToSet
    <2>2. <<i, x>> \in Mentions(g, g[i].step) /\ Target(g, <<i, x>>) = d
      BY <2>1 DEF Mentions, Target
    <2>. QED BY <1>2, <1>4, <2>2 DEF LevelsInv
  <1>5. /\ levels \in Seq(Seq(Ids(g)))
        /\ \A j, k \in DOMAIN levels : \A x \in DOMAIN levels[j], y \in DOMAIN levels[k] :
              levels[j][x] = levels[k][y] => j = k /\ x = y
    BY <1>2 DEF LevelsInv
  <1>6. KeepsOrder(g, levels)
    BY <1>1, <1>3, <1>4, <1>5 DEF KeepsOrder, NoneTwice
  <1>. QED BY <1>6 DEF levels

-----------------------------------------------------------------------------
(* The resolver as a process *)

\* The steps the loop has gone through, and where it is now.
OnTheRun ==
    \E f : /\ f[0] = LoopStart(graph) /\ \A n \in Nat \ {0} : f[n] = LoopStep(graph, f[n - 1])
           /\ Resolved(graph) = f[Len(graph)]
           /\ loop = f[Len(loop.levels)]

Answered ==
    /\ returned = "levels" => loop.queue = <<>> /\ loop.processed = Len(graph)
    /\ returned = "cycle" => loop.queue = <<>> /\ loop.processed # Len(graph)

ResolverInv == graph \in Graphs /\ LoopInv(graph, loop) /\ OnTheRun /\ Answered

\* The loop stays on its run until the queue is empty.
LEMMA ResolverInvariance == ResolverSpec => []ResolverInv
  <1>1. ResolverInit => ResolverInv
    <2>. SUFFICES ASSUME ResolverInit PROVE ResolverInv
      OBVIOUS
    <2>1. graph \in Graphs /\ IsGraph(graph) /\ loop = LoopStart(graph) /\ returned = "running"
      BY GraphParameters DEF ResolverInit
    <2>2. LoopInv(graph, loop)
      BY <2>1, LoopBegins
    <2>3. loop.levels = <<>> /\ Len(graph) \in Nat
      BY <2>1 DEF LoopStart, IsGraph
    <2>4. Len(loop.levels) = 0
      BY <2>3
    <2>5. OnTheRun
      BY <2>1, <2>3, <2>4, LoopIsRun DEF OnTheRun
    <2>. QED BY <2>1, <2>2, <2>5 DEF ResolverInv, Answered
  <1>2. ResolverInv /\ [ResolverNext]_resolverVars => ResolverInv'
    <2>. SUFFICES ASSUME ResolverInv, [ResolverNext]_resolverVars PROVE ResolverInv'
      OBVIOUS
    <2>1. CASE Round
      <3>1. /\ graph' = graph /\ returned' = "running" /\ loop.queue # <<>>
            /\ loop' = LoopBody(graph, loop) /\ graph \in Graphs /\ IsGraph(graph)
        BY <2>1, GraphParameters DEF Round, ResolverInv
      <3>2. LoopInv(graph, loop')
        BY <3>1, LoopGoesOn DEF ResolverInv
      <3>3. loop.levels \in Seq(Seq(Ids(graph))) /\ loop.queue \in Seq(Ids(graph))
        BY DEF ResolverInv, LoopInv, LevelsInv, QueueInv
      <3>4. loop'.levels = Append(loop.levels, loop.queue)
        BY <3>1 DEF LoopBody
      <3>5. /\ Len(loop.levels) \in Nat /\ Len(loop'.levels) = Len(loop.levels) + 1
            /\ Len(loop'.levels) \in Nat \ {0} /\ Len(loop'.levels) - 1 = Len(loop.levels)
        BY <3>3, <3>4
      <3>6. LoopStep(graph, loop) = loop'
        BY <3>1 DEF LoopStep
      <3>7. OnTheRun'
        <4>1. PICK f : /\ f[0] = LoopStart(graph)
                       /\ \A n \in Nat \ {0} : f[n] = LoopStep(graph, f[n - 1])
                       /\ Resolved(graph) = f[Len(graph)]
                       /\ loop = f[Len(loop.levels)]
          BY DEF ResolverInv, OnTheRun
        <4>2. f[Len(loop'.levels)] = loop'
          BY <3>5, <3>6, <4>1
        <4>. QED BY <3>1, <4>1, <4>2 DEF OnTheRun
      <3>. QED BY <3>1, <3>2, <3>7 DEF ResolverInv, Answered
    <2>2. CASE EmptyGraph \/ Return \/ UNCHANGED resolverVars
      <3>1. graph' = graph /\ loop' = loop
        BY <2>2 DEF EmptyGraph, Return, resolverVars
      <3>2. Answered'
        BY <2>2 DEF EmptyGraph, Return, resolverVars, ResolverInv, Answered
      <3>. QED BY <3>1, <3>2 DEF ResolverInv, OnTheRun
    <2>. QED BY <2>1, <2>2 DEF ResolverNext
  <1>. QED BY <1>1, <1>2, PTL DEF ResolverSpec

\* A run that has come to an empty queue has come to what Resolved says.
LEMMA EmptyQueueIsResolved ==
  ASSUME ResolverInv, loop.queue = <<>>
  PROVE  loop = Resolved(graph)
  <1>1. IsGraph(graph) /\ LoopInv(graph, loop) /\ Len(graph) \in Nat
    BY GraphParameters DEF ResolverInv, IsGraph
  <1>. DEFINE k == Len(loop.levels)
  <1>2. PICK f : /\ \A n \in Nat \ {0} : f[n] = LoopStep(graph, f[n - 1])
                 /\ Resolved(graph) = f[Len(graph)] /\ loop = f[k]
    BY DEF ResolverInv, OnTheRun
  <1>3. k \in Nat /\ k <= Len(graph)
    <2>1. loop.levels \in Seq(Seq(Ids(graph))) /\ k <= loop.processed /\ loop.processed \in Nat
          /\ loop.processed = Cardinality(Done(loop.levels))
      BY <1>1 DEF LoopInv, LevelsInv
    <2>2. Cardinality(Done(loop.levels)) <= Cardinality(Ids(graph))
      BY <1>1, <2>1, DoneAreIds
    <2>3. Cardinality(Ids(graph)) \in Nat /\ Cardinality(Ids(graph)) <= Len(graph)
      BY <1>1, IdsFinite
    <2>4. k \in Nat
      BY <2>1
    <2>. QED BY <1>1, <2>1, <2>2, <2>3, <2>4
  <1>. HIDE DEF k
  <1>. DEFINE Bad == {n \in Nat : k <= n /\ f[n] # loop}
  <1>4. Bad = {}
    <2>. SUFFICES ASSUME Bad # {} PROVE FALSE
      OBVIOUS
    <2>1. PICK n \in Bad : \A j \in Bad : n <= j
      BY LeastNatural
    <2>2. n # k /\ k <= n /\ n \in Nat /\ f[n] # loop
      BY <1>2
    <2>3. n - 1 \in Nat /\ k <= n - 1 /\ ~(n <= n - 1) /\ n \in Nat \ {0}
      BY <1>3, <2>2
    <2>4. f[n - 1] = loop
      BY <2>1, <2>3
    <2>5. f[n] = LoopStep(graph, loop)
      BY <1>2, <2>3, <2>4
    <2>. QED BY <2>2, <2>5 DEF LoopStep
  <1>. QED BY <1>1, <1>2, <1>3, <1>4

\* A graph is circular if steps are left out when the queue is empty: each of
\* them comes after another one (dag_resolver.py:68-69).
LEMMA LeftOutIsCyclic ==
  ASSUME NEW g, IsGraph(g), NEW r, LoopInv(g, r), r.queue = <<>>, Done(r.levels) # Ids(g)
  PROVE  Cyclic(g)
  <1>. DEFINE C == Ids(g) \ Done(r.levels)
  <1>1. C # {} /\ C \in SUBSET Ids(g)
    BY DoneAreIds DEF LoopInv, LevelsInv
  <1>2. ASSUME NEW s \in C PROVE \E d \in C : <<d, s>> \in Edges(g)
    <2>1. s \notin ToSet(r.queue)
      BY DEF ToSet
    <2>2. Unmet(g, r.levels, s) # {}
      BY <2>1 DEF LoopInv, QueueInv
    <2>3. PICK m \in Mentions(g, s) : Target(g, m) \notin Done(r.levels)
      BY <2>2 DEF Unmet
    <2>4. /\ m[1] \in DOMAIN g /\ g[m[1]].step = s /\ Target(g, m) \in Ids(g)
          /\ m[2] \in DOMAIN g[m[1]].after /\ Target(g, m) = g[m[1]].after[m[2]]
      BY DEF Mentions, Target
    <2>5. Target(g, m) \in ToSet(g[m[1]].after)
      BY <2>4 DEF ToSet
    <2>6. <<Target(g, m), s>> \in Edges(g)
      BY <2>4, <2>5 DEF Edges
    <2>. QED BY <2>3, <2>4, <2>6
  <1>. HIDE DEF C
  <1>. QED BY <1>1, <1>2 DEF Cyclic

\* Steps that come after earlier ones only cannot be circular
\* (dag_resolver.py:51-69).
LEMMA DescentIsResolvable ==
  ASSUME NEW g, IsGraph(g), g # <<>>, NoneTwice(g), Ids(g) \subseteq Nat,
         \A i \in DOMAIN g : \A d \in ToSet(g[i].after) : d < g[i].step
  PROVE  Resolvable(g)
  <1>1. ~Cyclic(g)
    <2>. SUFFICES ASSUME Cyclic(g) PROVE FALSE
      OBVIOUS
    <2>1. PICK C \in SUBSET Ids(g) : C # {} /\ \A s \in C : \E d \in C : <<d, s>> \in Edges(g)
      BY DEF Cyclic
    <2>2. PICK s \in C : \A k \in C : s <= k
      BY <2>1, LeastNatural
    <2>3. PICK d \in C : <<d, s>> \in Edges(g)
      BY <2>1
    <2>4. PICK i \in DOMAIN g : g[i].step = s /\ d \in ToSet(g[i].after)
      BY <2>3 DEF Edges
    <2>5. d < s
      BY <2>4
    <2>. QED BY <2>2, <2>5
  <1>2. Done(LevelsOf(g)) = Ids(g)
    BY <1>1, LoopEnds, LeftOutIsCyclic DEF LevelsOf
  <1>. QED BY <1>2, ResolvedIsComplete DEF Resolvable

\* A dependency in the graph is a mention.
LEMMA EdgeIsMention ==
  ASSUME NEW g, IsGraph(g), NEW d, NEW s
  PROVE  <<d, s>> \in Edges(g) <=>
             s \in Ids(g) /\ \E m \in Mentions(g, s) : Target(g, m) = d
  <1>1. ASSUME <<d, s>> \in Edges(g)
        PROVE  s \in Ids(g) /\ \E m \in Mentions(g, s) : Target(g, m) = d
    <2>1. PICK i \in DOMAIN g : g[i].step = s /\ d \in ToSet(g[i].after)
      BY <1>1 DEF Edges
    <2>2. PICK x \in DOMAIN g[i].after : g[i].after[x] = d
      BY <2>1 DEF ToSet
    <2>3. d \in Ids(g) /\ s \in Ids(g)
      BY <1>1 DEF Edges
    <2>4. <<i, x>> \in Mentions(g, s) /\ Target(g, <<i, x>>) = d
      BY <2>1, <2>2, <2>3 DEF Mentions, Target
    <2>. QED BY <2>3, <2>4
  <1>2. ASSUME s \in Ids(g), NEW m \in Mentions(g, s), Target(g, m) = d
        PROVE  <<d, s>> \in Edges(g)
    <2>1. /\ m[1] \in DOMAIN g /\ g[m[1]].step = s /\ d \in Ids(g)
          /\ m[2] \in DOMAIN g[m[1]].after /\ d = g[m[1]].after[m[2]]
      BY <1>2 DEF Mentions, Target
    <2>2. d \in ToSet(g[m[1]].after)
      BY <2>1 DEF ToSet
    <2>. QED BY <1>2, <2>1, <2>2 DEF Edges
  <1>. QED BY <1>1, <1>2

\* Steps in a circle are in no level: the first of them to get into one would
\* come after another of them (dag_resolver.py:62-66).
LEMMA CyclicIsLeftOut ==
  ASSUME NEW g, IsGraph(g), NEW levels, LevelsInv(g, levels), Cyclic(g)
  PROVE  Done(levels) # Ids(g)
  <1>. SUFFICES ASSUME Done(levels) = Ids(g) PROVE FALSE
    OBVIOUS
  <1>1. PICK C \in SUBSET Ids(g) : C # {} /\ \A s \in C : \E d \in C : <<d, s>> \in Edges(g)
    BY DEF Cyclic
  <1>. DEFINE K == {k \in DOMAIN levels : \E s \in C : s \in ToSet(levels[k])}
  <1>2. Len(levels) \in Nat /\ DOMAIN levels = 1 .. Len(levels)
    BY DEF LevelsInv
  <1>3. K \in SUBSET Nat /\ K # {}
    <2>1. PICK s \in C : TRUE
      BY <1>1
    <2>2. s \in Done(levels)
      BY <2>1
    <2>3. \E k \in DOMAIN levels : s \in ToSet(levels[k])
      BY <2>2 DEF Done
    <2>. QED BY <1>2, <2>3
  <1>4. PICK k \in K : \A j \in K : k <= j
    <2>. HIDE DEF K
    <2>. QED BY <1>3, LeastNatural
  <1>5. PICK s \in C : s \in ToSet(levels[k])
    OBVIOUS
  <1>6. PICK d \in C : <<d, s>> \in Edges(g)
    BY <1>1
  <1>7. PICK j \in 1 .. k - 1 : d \in ToSet(levels[j])
    BY <1>5, <1>6, EdgeIsMention DEF LevelsInv
  <1>8. j \in K /\ ~(k <= j)
    BY <1>2, <1>7
  <1>. QED BY <1>4, <1>8

\* A step is in one level, one after the last level of what it comes after
\* (dag_resolver.py:62-66).
LEMMA EarliestLevel ==
  ASSUME NEW g, IsGraph(g), NEW levels, LevelsInv(g, levels), Done(levels) = Ids(g),
         NEW s \in Ids(g)
  PROVE  AtEarliestLevel(g, levels, s)
  <1>. DEFINE LevelOf(u) == {n \in DOMAIN levels : u \in ToSet(levels[n])}
              Earlier == UNION {LevelOf(e[1]) : e \in {x \in Edges(g) : x[2] = s}}
              M == {0} \cup Earlier
  <1>1. Len(levels) \in Nat /\ DOMAIN levels = 1 .. Len(levels)
    BY DEF LevelsInv
  <1>2. \A u, j, k : j \in LevelOf(u) /\ k \in LevelOf(u) => j = k
    <2>. SUFFICES ASSUME NEW u, NEW j \in DOMAIN levels, NEW k \in DOMAIN levels,
                         u \in ToSet(levels[j]), u \in ToSet(levels[k])
                  PROVE  j = k
      OBVIOUS
    <2>1. PICK x \in DOMAIN levels[j] : levels[j][x] = u
      BY DEF ToSet
    <2>2. PICK y \in DOMAIN levels[k] : levels[k][y] = u
      BY DEF ToSet
    <2>. QED BY <2>1, <2>2 DEF LevelsInv
  <1>3. PICK n \in DOMAIN levels : s \in ToSet(levels[n])
    BY DEF Done
  <1>4. LevelOf(s) = {n}
    BY <1>2, <1>3
  <1>5. \A j : j \in Earlier <=> j \in DOMAIN levels /\ \E m \in Mentions(g, s) : Target(g, m) \in ToSet(levels[j])
    <2>1. \A e \in Edges(g) : e = <<e[1], e[2]>>
      BY DEF Edges
    <2>2. \A j : j \in Earlier <=> \E d : <<d, s>> \in Edges(g) /\ j \in LevelOf(d)
      <3>1. \A j : j \in Earlier <=> \E e \in Edges(g) : e[2] = s /\ j \in LevelOf(e[1])
        OBVIOUS
      <3>. HIDE DEF Earlier, LevelOf
      <3>2. \A d : <<d, s>>[1] = d /\ <<d, s>>[2] = s
        OBVIOUS
      <3>. QED BY <2>1, <3>1, <3>2
    <2>. HIDE DEF Earlier
    <2>3. ASSUME NEW j \in Earlier
          PROVE  j \in DOMAIN levels /\ \E m \in Mentions(g, s) : Target(g, m) \in ToSet(levels[j])
      <3>1. PICK d : <<d, s>> \in Edges(g) /\ j \in LevelOf(d)
        BY <2>2
      <3>2. PICK m \in Mentions(g, s) : Target(g, m) = d
        BY <3>1, EdgeIsMention
      <3>. QED BY <3>1, <3>2
    <2>4. ASSUME NEW j \in DOMAIN levels, NEW m \in Mentions(g, s), Target(g, m) \in ToSet(levels[j])
          PROVE  j \in Earlier
      <3>1. <<Target(g, m), s>> \in Edges(g)
        BY EdgeIsMention
      <3>2. j \in LevelOf(Target(g, m))
        BY <2>4
      <3>. QED BY <2>2, <3>1, <3>2
    <2>. QED BY <2>3, <2>4
  <1>6. \A j \in Earlier : j \in 1 .. n - 1
    <2>. SUFFICES ASSUME NEW j \in Earlier PROVE j \in 1 .. n - 1
      OBVIOUS
    <2>. HIDE DEF Earlier
    <2>1. PICK m \in Mentions(g, s) : Target(g, m) \in ToSet(levels[j]) /\ j \in DOMAIN levels
      BY <1>5
    <2>2. PICK i \in 1 .. n - 1 : Target(g, m) \in ToSet(levels[i])
      BY <1>3 DEF LevelsInv
    <2>3. i \in DOMAIN levels
      BY <1>1, <2>2
    <2>. QED BY <1>2, <2>1, <2>2, <2>3
  <1>7. n # 1 => n - 1 \in Earlier
    <2>. HIDE DEF Earlier
    <2>. SUFFICES ASSUME n # 1 PROVE n - 1 \in Earlier
      OBVIOUS
    <2>1. PICK m \in Mentions(g, s) : Target(g, m) \in ToSet(levels[n - 1])
      BY <1>3 DEF LevelsInv
    <2>2. n - 1 \in DOMAIN levels
      BY <1>1
    <2>. QED BY <1>5, <2>1, <2>2
  <1>8. Max(M) = n - 1
    <2>. HIDE DEF Earlier
    <2>1. n \in Nat /\ n # 0
      BY <1>1
    <2>2. M \in SUBSET Nat /\ M # {} /\ (\A j \in M : j <= n - 1) /\ n - 1 \in M
      BY <1>6, <1>7, <2>1
    <2>. HIDE DEF M
    <2>3. Max(M) \in M /\ \A j \in M : j <= Max(M)
      BY <2>1, <2>2, MaxOfBounded
    <2>4. Max(M) <= n - 1 /\ n - 1 <= Max(M) /\ Max(M) \in Nat
      BY <2>2, <2>3
    <2>. QED BY <2>1, <2>4
  <1>9. n = 1 + Max(M)
    <2>. HIDE DEF M
    <2>. QED BY <1>1, <1>8
  <1>. HIDE DEF Earlier
  <1>. QED BY <1>3, <1>4, <1>9 DEF Earlier, AtEarliestLevel

\* resolve ends, raises CycleDetectedError exactly for the graphs that cannot
\* be ordered, and returns the earliest levels of all others, for graphs of
\* any length with any numbers (dag_resolver.py:18-71).
THEOREM ResolverIsRight == ResolverSpec => []ResolvesToEarliestLevels
  <1>1. ResolverInv => ResolvesToEarliestLevels
    <2>. SUFFICES ASSUME ResolverInv PROVE ResolvesToEarliestLevels
      OBVIOUS
    <2>1. IsGraph(graph) /\ LoopInv(graph, loop) /\ Answered
      BY GraphParameters DEF ResolverInv
    <2>2. /\ LevelsInv(graph, loop.levels) /\ Len(loop.levels) <= loop.processed
          /\ loop.processed = Cardinality(Done(loop.levels)) /\ loop.processed \in Nat
          /\ loop.levels \in Seq(Seq(Ids(graph)))
      BY <2>1 DEF LoopInv, LevelsInv
    <2>3. /\ Cardinality(Done(loop.levels)) <= Cardinality(Ids(graph))
          /\ Cardinality(Ids(graph)) \in Nat
      BY <2>1, <2>2, DoneAreIds, IdsFinite
    <2>4. Len(loop.levels) <= Cardinality(Ids(graph))
      <3>1. Len(loop.levels) \in Nat
        BY <2>2
      <3>. QED BY <2>2, <2>3, <3>1
    <2>5. Distinct(graph) <=> NoneTwice(graph)
      BY <2>1, IdsFinite DEF Distinct
    <2>6. ASSUME returned \in {"levels", "cycle"}
          PROVE  /\ loop.queue = <<>> /\ loop.levels = LevelsOf(graph)
                 /\ returned = "levels" <=> (NoneTwice(graph) /\ Done(loop.levels) = Ids(graph))
      <3>1. loop.queue = <<>> /\ (returned = "levels" <=> loop.processed = Len(graph))
        BY <2>1, <2>6 DEF Answered
      <3>2. loop = Resolved(graph)
        BY <3>1, EmptyQueueIsResolved
      <3>. QED BY <2>1, <3>1, <3>2, ResolvedIsComplete DEF LevelsOf
    <2>7. ASSUME returned \in {"levels", "cycle"}
          PROVE  returned = "cycle" <=> Cyclic(graph) \/ ~Distinct(graph)
      <3>1. Done(loop.levels) = Ids(graph) <=> ~Cyclic(graph)
        BY <2>1, <2>2, <2>6, <2>7, LeftOutIsCyclic, CyclicIsLeftOut
      <3>. QED BY <2>5, <2>6, <2>7, <3>1
    <2>8. ASSUME returned = "levels"
          PROVE  /\ loop.levels = LevelsOf(graph)
                 /\ loop.processed = Cardinality(Ids(graph))
                 /\ \A s \in Ids(graph) : AtEarliestLevel(graph, loop.levels, s)
      <3>1. loop.levels = LevelsOf(graph) /\ Done(loop.levels) = Ids(graph)
        BY <2>6, <2>8
      <3>2. loop.processed = Cardinality(Ids(graph))
        BY <2>2, <3>1
      <3>. QED BY <2>1, <2>2, <3>1, <3>2, EarliestLevel
    <2>. QED BY <2>4, <2>7, <2>8 DEF ResolvesToEarliestLevels
  <1>. QED BY <1>1, ResolverInvariance, PTL
=============================================================================
