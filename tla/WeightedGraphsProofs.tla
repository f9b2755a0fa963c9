------------------------ MODULE WeightedGraphsProofs ------------------------
(***************************************************************************)
(* What the reference definitions of WeightedGraphs mean, for every graph. *)
(* They are recursive functions, so each is first shown to exist, and then *)
(* to be what it stands for, by looking at the least length at which it    *)
(* were not.                                                               *)
(***************************************************************************)
EXTENDS WeightedGraphs, FiniteSetTheorems, SequenceTheorems, TLAPS

(* Every nonempty set of naturals has a least element: induction over the  *)
(* naturals in a form that takes no operator.                              *)
LEMMA LeastNatural ==
    ASSUME NEW T, T \subseteq Nat, T # {}
    PROVE  \E m \in T : \A k \in T : m <= k
<1> DEFINE R == OpToRel(<, Nat)
<1>1. ASSUME NEW k \in T, NEW m \in T, k < m
      PROVE  <<k, m>> \in R
  <2>1. k \in Nat /\ m \in Nat
    OBVIOUS
  <2>2. QED
    BY <2>1, <1>1 DEF OpToRel
<1>2. IsWellFoundedOn(R, Nat)
  BY NatLessThanWellFounded
<1> HIDE DEF R
<1>3. PICK m \in T : \A k \in T : ~(<<k, m>> \in R)
  BY <1>2, WFMin
<1>4. \A k \in T : ~(k < m)
  BY <1>1, <1>3
<1>5. QED
  BY <1>4

(* What Least returns of a nonempty set of naturals.                       *)
LEMMA LeastOf ==
    ASSUME NEW T, T \subseteq Nat, T # {}
    PROVE  Least(T) \in T /\ \A k \in T : Least(T) <= k
<1>1. \E m \in T : \A k \in T : m <= k
  BY LeastNatural
<1>2. QED
  BY <1>1 DEF Least

-----------------------------------------------------------------------------
LEMMA WeightsAre ==
    ASSUME NEW V, NEW edges, edges \subseteq V \X V \X Nat, NEW u, NEW v
    PROVE  \A w : w \in Weights(edges, u, v) <=> <<u, v, w>> \in edges
<1>1. ASSUME NEW w, <<u, v, w>> \in edges PROVE w \in Weights(edges, u, v)
  <2> DEFINE e == <<u, v, w>>
  <2>1. e \in edges /\ e[1] = u /\ e[2] = v /\ e[3] = w
    BY <1>1
  <2> HIDE DEF e
  <2>2. QED
    BY <2>1 DEF Weights
<1>2. ASSUME NEW w, w \in Weights(edges, u, v) PROVE <<u, v, w>> \in edges
  BY <1>2 DEF Weights
<1>3. QED
  BY <1>1, <1>2

(* The cheapest edge between two vertices, where there is one.             *)
LEMMA LeastWeight ==
    ASSUME NEW V, NEW edges, edges \subseteq V \X V \X Nat, NEW u, NEW v,
           Weights(edges, u, v) # {}
    PROVE  /\ Least(Weights(edges, u, v)) \in Nat
           /\ <<u, v, Least(Weights(edges, u, v))>> \in edges
           /\ \A w : <<u, v, w>> \in edges => Least(Weights(edges, u, v)) <= w
<1> DEFINE W == Weights(edges, u, v)
<1>1. \A w : w \in W <=> w \in Nat /\ <<u, v, w>> \in edges
  BY DEF Weights
<1>2. W \subseteq Nat
  BY <1>1
<1>3. Least(W) \in W /\ \A w \in W : Least(W) <= w
  <2> HIDE DEF W
  <2>1. W # {}
    BY DEF W
  <2>2. QED
    BY <1>2, <2>1, LeastOf
<1>4. \A w : <<u, v, w>> \in edges => w \in W
  BY <1>1
<1>5. QED
  BY <1>1, <1>3, <1>4

(* The costs along a walk: the function that its recursion says.           *)
LEMMA CostsExist ==
    ASSUME NEW edges, NEW p, NEW n \in Nat, Len(p) = n
    PROVE  CostsAlong(edges, p) =
               [i \in 1 .. n |->
                   IF i = 1 THEN 0
                   ELSE CostsAlong(edges, p)[i - 1] + Least(Weights(edges, p[i - 1], p[i]))]
<1> DEFINE w(i) == Least(Weights(edges, p[i - 1], p[i]))
           Sums(f, m) == f = [i \in 1 .. m |-> IF i = 1 THEN 0 ELSE f[i - 1] + w(i)]
           T == {m \in Nat : ~\E f : Sums(f, m)}
<1> HIDE DEF w
<1>1. T = {}
  <2> SUFFICES ASSUME T # {} PROVE FALSE
    OBVIOUS
  <2>1. PICK m \in T : \A k \in T : m <= k
    <3> HIDE DEF T
    <3>1. T \subseteq Nat
      BY DEF T
    <3>2. QED
      BY <3>1, LeastNatural
  <2>2. m # 0
    <3> DEFINE f == [i \in 1 .. 0 |-> 0]
    <3>1. Sums(f, 0)
      OBVIOUS
    <3>2. QED
      BY <3>1
  <2>3. m \in Nat /\ m - 1 \in Nat
    BY <2>2
  <2>4. PICK g : Sums(g, m - 1)
    <3>1. m - 1 \notin T
      <4> HIDE DEF T
      <4>1. QED
        BY <2>1, <2>3
    <3>2. QED
      BY <2>3, <3>1
  <2> DEFINE f == [i \in 1 .. m |-> IF i = 1 THEN 0 ELSE g[i - 1] + w(i)]
  <2>5. \A i \in 1 .. m - 1 : f[i] = g[i]
    BY <2>2, <2>3, <2>4
  <2>6. \A i \in 1 .. m : i # 1 => f[i - 1] = g[i - 1]
    <3> HIDE DEF f
    <3>1. QED
      BY <2>3, <2>5
  <2>7. Sums(f, m)
    BY <2>6
  <2>8. QED
    BY <2>1, <2>7
<1>2. \E f : Sums(f, n)
  BY <1>1
<1>3. CostsAlong(edges, p) = CHOOSE f : Sums(f, n)
  BY DEF CostsAlong, w
<1>4. Sums(CostsAlong(edges, p), n)
  BY <1>2, <1>3
<1>5. QED
  BY <1>4 DEF w

(* Induction up to a bound, for a property given as the set it holds on.   *)
LEMMA UpTo ==
    ASSUME NEW n \in Nat, NEW S, 1 \in S,
           \A i \in 1 .. n - 1 : i \in S => i + 1 \in S
    PROVE  \A i \in 1 .. n : i \in S
<1> DEFINE T == {i \in 1 .. n : i \notin S}
<1>1. SUFFICES ASSUME T # {} PROVE FALSE
  OBVIOUS
<1>2. T \subseteq Nat
  OBVIOUS
<1> HIDE DEF T
<1>3. PICK m \in T : \A k \in T : m <= k
  BY <1>1, <1>2, LeastNatural
<1>4. m \in 1 .. n /\ m \notin S
  BY DEF T
<1>5. m - 1 \in 1 .. n - 1
  BY <1>4
<1>6. m - 1 \notin T
  BY <1>2, <1>3, <1>5
<1>7. m - 1 \in S
  BY <1>5, <1>6 DEF T
<1>8. QED
  BY <1>4, <1>5, <1>7

(* What is known of a priced walk: every vertex and every cost has its     *)
(* type, and consecutive vertices are joined by an edge.                   *)
LEMMA PricedFacts ==
    ASSUME NEW V, NEW edges, edges \subseteq V \X V \X Nat, NEW from, NEW to,
           NEW k \in [at : Seq(V), cost : Seq(Nat)], IsPricedWalk(edges, k, from, to)
    PROVE  /\ Len(k.at) \in Nat \ {0} /\ Len(k.cost) = Len(k.at)
           /\ k.at[1] = from /\ k.at[Len(k.at)] = to /\ k.cost[1] = 0
           /\ \A i \in 1 .. Len(k.at) : k.at[i] \in V /\ k.cost[i] \in Nat
           /\ \A i \in 1 .. Len(k.at) - 1 :
                /\ k.cost[i] <= k.cost[i + 1]
                /\ k.cost[i + 1] - k.cost[i] \in Nat
                /\ <<k.at[i], k.at[i + 1], k.cost[i + 1] - k.cost[i]>> \in edges
<1>1. k.at \in Seq(V) /\ k.cost \in Seq(Nat)
  OBVIOUS
<1>2. /\ Len(k.at) > 0 /\ Len(k.cost) = Len(k.at)
      /\ k.at[1] = from /\ k.at[Len(k.at)] = to /\ k.cost[1] = 0
      /\ \A i \in 1 .. Len(k.at) - 1 :
            <<k.at[i], k.at[i + 1], k.cost[i + 1] - k.cost[i]>> \in edges
  BY DEF IsPricedWalk
<1>3. /\ Len(k.at) \in Nat \ {0}
      /\ \A i \in 1 .. Len(k.at) : k.at[i] \in V /\ k.cost[i] \in Nat
  BY <1>1, <1>2
<1>4. ASSUME NEW i \in 1 .. Len(k.at) - 1
      PROVE  k.cost[i] <= k.cost[i + 1] /\ k.cost[i + 1] - k.cost[i] \in Nat
  <2> DEFINE hop == <<k.at[i], k.at[i + 1], k.cost[i + 1] - k.cost[i]>>
  <2>1. hop \in edges
    BY <1>2
  <2>2. k.cost[i + 1] - k.cost[i] \in Nat
    BY <2>1
  <2>3. k.cost[i] \in Nat /\ k.cost[i + 1] \in Nat
    BY <1>3
  <2> DEFINE c == k.cost[i]
             d == k.cost[i + 1]
  <2> HIDE DEF hop, c, d
  <2>4. d - c \in Nat /\ c \in Nat /\ d \in Nat
    BY <2>2, <2>3 DEF c, d
  <2>5. c <= d
    BY <2>4
  <2>6. QED
    BY <2>2, <2>5 DEF c, d
<1>5. QED
  BY <1>2, <1>3, <1>4

(* Costs grow along a walk.                                                *)
LEMMA PricesGrow ==
    ASSUME NEW V, NEW edges, edges \subseteq V \X V \X Nat, NEW from, NEW to,
           NEW k \in [at : Seq(V), cost : Seq(Nat)], IsPricedWalk(edges, k, from, to),
           NEW i \in 1 .. Len(k.at), NEW j \in 1 .. Len(k.at), i <= j
    PROVE  k.cost[i] <= k.cost[j]
<1> DEFINE n == Len(k.at)
           T == {m \in i .. n : ~(k.cost[i] <= k.cost[m])}
<1>1. /\ n \in Nat /\ \A m \in 1 .. n : k.cost[m] \in Nat
      /\ \A m \in 1 .. n - 1 : k.cost[m] <= k.cost[m + 1]
  BY PricedFacts
<1>2. ASSUME T # {}
      PROVE  FALSE
  <2>1. PICK m \in T : \A l \in T : m <= l
    BY <1>1, <1>2, LeastNatural, T \subseteq Nat
  <2>2. m # i
    BY <1>1, <2>1
  <2>3. m - 1 \in i .. n /\ m - 1 \notin T /\ m - 1 \in 1 .. n - 1
    BY <1>1, <2>1, <2>2
  <2>4. k.cost[i] <= k.cost[m - 1] /\ k.cost[m - 1] <= k.cost[m]
    BY <1>1, <2>3
  <2> DEFINE a == k.cost[i]
             b == k.cost[m - 1]
             c == k.cost[m]
  <2>5. a \in Nat /\ b \in Nat /\ c \in Nat /\ ~(a <= c)
    BY <1>1, <2>1, <2>3
  <2> HIDE DEF a, b, c
  <2>6. a <= b /\ b <= c
    BY <2>4 DEF a, b, c
  <2>7. QED
    BY <2>5, <2>6
<1>3. j \in i .. n
  <2>1. n \in Nat /\ i \in 1 .. n /\ j \in 1 .. n /\ i <= j
    BY <1>1
  <2> HIDE DEF n
  <2>2. QED
    BY <2>1
<1>4. QED
  BY <1>2, <1>3

(* Along a walk the costs are naturals, and each is reached over an edge.  *)
CostsMatch(edges, p, c) ==
    \A i \in 1 .. Len(p) - 1 :
        /\ c[i + 1] = c[i] + Least(Weights(edges, p[i], p[i + 1]))
        /\ <<p[i], p[i + 1], c[i + 1] - c[i]>> \in edges

LEMMA CostsPrice ==
    ASSUME NEW V, NEW edges, edges \subseteq V \X V \X Nat, NEW from, NEW to,
           NEW p \in Seq(V), IsWalk(edges, p, from, to)
    PROVE  /\ CostsAlong(edges, p) \in Seq(Nat)
           /\ Len(CostsAlong(edges, p)) = Len(p)
           /\ CostsAlong(edges, p)[1] = 0
           /\ CostsMatch(edges, p, CostsAlong(edges, p))
<1> DEFINE n == Len(p)
           c == CostsAlong(edges, p)
           w(i) == Least(Weights(edges, p[i], p[i + 1]))
           S == {i \in 1 .. n : c[i] \in Nat}
<1>1. n \in Nat /\ n > 0
  BY DEF IsWalk
<1>2. c = [i \in 1 .. n |->
             IF i = 1 THEN 0 ELSE c[i - 1] + Least(Weights(edges, p[i - 1], p[i]))]
  <2> HIDE DEF c
  <2>1. QED
    BY CostsExist, <1>1 DEF c
<1> HIDE DEF c, n
<1>3. c[1] = 0
  BY <1>1, <1>2
<1>4. ASSUME NEW i \in 1 .. n - 1 PROVE c[i + 1] = c[i] + w(i)
  <2>1. i + 1 \in 1 .. n /\ i + 1 # 1 /\ (i + 1) - 1 = i
    BY <1>1
  <2>2. QED
    BY <1>2, <2>1
<1>5. ASSUME NEW i \in 1 .. n - 1 PROVE w(i) \in Nat /\ <<p[i], p[i + 1], w(i)>> \in edges
  <2>1. Weights(edges, p[i], p[i + 1]) # {}
    BY DEF IsWalk, n
  <2>2. QED
    BY <2>1, LeastWeight
<1>6. ASSUME NEW i \in 1 .. n - 1, i \in S PROVE i + 1 \in S
  <2> HIDE DEF w
  <2>1. i + 1 \in 1 .. n
    BY <1>1
  <2>2. c[i] \in Nat /\ w(i) \in Nat
    BY <1>5, <1>6
  <2>3. c[i + 1] = c[i] + w(i)
    BY <1>4
  <2>4. QED
    BY <2>1, <2>2, <2>3
<1>7. 1 \in S
  BY <1>1, <1>3
<1>8. \A i \in 1 .. n : c[i] \in Nat
  <2>1. \A i \in 1 .. n : i \in S
    <3> HIDE DEF S
    <3>1. QED
      BY <1>1, <1>6, <1>7, UpTo
  <2>2. QED
    BY <2>1
<1>9. c \in Seq(Nat) /\ Len(c) = n
  <2>1. c \in [1 .. n -> Nat]
    BY <1>2, <1>8
  <2>2. QED
    BY <1>1, <2>1
<1>10. ASSUME NEW i \in 1 .. n - 1 PROVE <<p[i], p[i + 1], c[i + 1] - c[i]>> \in edges
  <2> HIDE DEF w
  <2>1. i \in 1 .. n /\ i + 1 \in 1 .. n
    BY <1>1
  <2>2. w(i) \in Nat /\ c[i] \in Nat
    BY <1>5, <1>8, <2>1
  <2>3. c[i + 1] = c[i] + w(i)
    BY <1>4
  <2>4. c[i + 1] - c[i] = w(i)
    BY <2>2, <2>3
  <2>5. QED
    BY <1>5, <2>4
<1>11. QED
  <2> HIDE DEF w
  <2>1. \A i \in 1 .. n - 1 :
          /\ c[i + 1] = c[i] + Least(Weights(edges, p[i], p[i + 1]))
          /\ <<p[i], p[i + 1], c[i + 1] - c[i]>> \in edges
    BY <1>4, <1>10 DEF w
  <2>2. QED
    BY <1>3, <1>9, <2>1 DEF n, c, CostsMatch

(* No costs that a walk may be given are less than by its cheapest edges.  *)
LEMMA CheapestCosts ==
    ASSUME NEW V, NEW edges, edges \subseteq V \X V \X Nat, NEW from, NEW to,
           NEW p \in Seq(V), NEW q \in Seq(Nat),
           IsPricedWalk(edges, [at |-> p, cost |-> q], from, to)
    PROVE  /\ IsWalk(edges, p, from, to)
           /\ WalkCost(edges, p) \in Nat
           /\ WalkCost(edges, p) <= q[Len(q)]
<1> DEFINE n == Len(p)
           c == CostsAlong(edges, p)
           S == {i \in 1 .. n : c[i] <= q[i]}
<1>1. n \in Nat /\ n > 0 /\ Len(q) = n /\ q[1] = 0 /\ p[1] = from /\ p[n] = to
  BY DEF IsPricedWalk
<1>2. ASSUME NEW i \in 1 .. n - 1
      PROVE  /\ Weights(edges, p[i], p[i + 1]) # {}
             /\ Least(Weights(edges, p[i], p[i + 1])) \in Nat
             /\ Least(Weights(edges, p[i], p[i + 1])) <= q[i + 1] - q[i]
  <2>1. <<p[i], p[i + 1], q[i + 1] - q[i]>> \in edges
    BY DEF IsPricedWalk
  <2>2. Weights(edges, p[i], p[i + 1]) # {}
    BY <2>1, WeightsAre
  <2>3. QED
    BY <2>1, <2>2, LeastWeight
<1>3. IsWalk(edges, p, from, to)
  BY <1>1, <1>2 DEF IsWalk
<1>4. c \in Seq(Nat) /\ Len(c) = n /\ c[1] = 0
  BY <1>3, CostsPrice
<1>5. CostsMatch(edges, p, c)
  BY <1>3, CostsPrice
<1>6. 1 \in S
  <2> HIDE DEF c
  <2>1. QED
    BY <1>1, <1>4
<1>7. ASSUME NEW i \in 1 .. n - 1, i \in S PROVE i + 1 \in S
  <2> DEFINE w == Least(Weights(edges, p[i], p[i + 1]))
  <2> HIDE DEF c
  <2>1. i \in 1 .. n /\ i + 1 \in 1 .. n
    BY <1>1
  <2>2. c[i] \in Nat /\ c[i + 1] \in Nat /\ q[i] \in Nat /\ q[i + 1] \in Nat
    BY <1>1, <1>4, <2>1, ElementOfSeq
  <2>3. c[i + 1] = c[i] + w
    BY <1>5 DEF CostsMatch
  <2>4. w \in Nat /\ w <= q[i + 1] - q[i] /\ c[i] <= q[i]
    BY <1>2, <1>7
  <2> HIDE DEF w
  <2>5. c[i + 1] <= q[i + 1]
    BY <2>2, <2>3, <2>4, SMTT(20)
  <2>6. QED
    BY <2>1, <2>5
<1>8. n \in S
  <2> HIDE DEF S
  <2>1. \A i \in 1 .. n : i \in S
    BY <1>1, <1>6, <1>7, UpTo
  <2>2. QED
    BY <1>1, <2>1
<1>9. WalkCost(edges, p) = c[n] /\ c[n] \in Nat
  BY <1>1, <1>4, ElementOfSeq DEF WalkCost
<1>10. QED
  BY <1>1, <1>3, <1>8, <1>9

LEMMA CheapestPrice ==
    ASSUME NEW V, NEW edges, edges \subseteq V \X V \X Nat, NEW from, NEW to,
           NEW k \in [at : Seq(V), cost : Seq(Nat)], IsPricedWalk(edges, k, from, to)
    PROVE  /\ IsWalk(edges, k.at, from, to)
           /\ WalkCost(edges, k.at) \in Nat
           /\ WalkCost(edges, k.at) <= k.cost[Len(k.cost)]
<1>1. k.at \in Seq(V) /\ k.cost \in Seq(Nat) /\ k = [at |-> k.at, cost |-> k.cost]
  OBVIOUS
<1>2. QED
  BY <1>1, CheapestCosts

(* A walk can be priced at its cost.                                       *)
LEMMA PricedAtCost ==
    ASSUME NEW V, NEW edges, edges \subseteq V \X V \X Nat, NEW from, NEW to,
           NEW p \in Seq(V), IsWalk(edges, p, from, to)
    PROVE  \E k \in [at : Seq(V), cost : Seq(Nat)] :
             /\ IsPricedWalk(edges, k, from, to)
             /\ k.at = p /\ k.cost[Len(k.cost)] = WalkCost(edges, p)
<1> DEFINE c == CostsAlong(edges, p)
           k == [at |-> p, cost |-> c]
<1>1. c \in Seq(Nat) /\ Len(c) = Len(p) /\ c[1] = 0 /\ CostsMatch(edges, p, c)
  BY CostsPrice
<1>2. k \in [at : Seq(V), cost : Seq(Nat)]
  BY <1>1
<1>3. IsPricedWalk(edges, k, from, to)
  BY <1>1 DEF IsPricedWalk, IsWalk, CostsMatch
<1>4. k.cost[Len(k.cost)] = WalkCost(edges, p)
  BY <1>1 DEF WalkCost
<1>5. QED
  BY <1>2, <1>3, <1>4

-----------------------------------------------------------------------------
(* The walks that repeat no vertex, with n vertices.                       *)
SimpleOf(V, edges, from, n) ==
    {p \in Seq(V) : Len(p) = n /\ IsWalk(edges, p, from, p[n]) /\ IsInjective(p)}

(* A vertex that a sequence does not hold can be added to its end.         *)
LEMMA AddedOnce ==
    ASSUME NEW V, NEW p \in Seq(V), NEW v \in V, IsInjective(p), v \notin Range(p)
    PROVE  IsInjective(Append(p, v))
<1> DEFINE n == Len(p)
           q == Append(p, v)
<1>1. /\ n \in Nat /\ DOMAIN p = 1 .. n /\ DOMAIN q = 1 .. n + 1 /\ q[n + 1] = v
      /\ \A i \in 1 .. n : q[i] = p[i]
  OBVIOUS
<1> HIDE DEF q, n
<1>2. \A i \in 1 .. n : p[i] # v
  BY <1>1 DEF Range
<1>3. \A i, j \in 1 .. n : p[i] = p[j] => i = j
  BY <1>1 DEF IsInjective
<1>4. ASSUME NEW i \in 1 .. n + 1, NEW j \in 1 .. n + 1, q[i] = q[j] PROVE i = j
  <2>1. CASE i \in 1 .. n /\ j \in 1 .. n
    BY <1>1, <1>3, <1>4, <2>1
  <2>2. CASE i = n + 1 /\ j \in 1 .. n
    BY <1>1, <1>2, <1>4, <2>2
  <2>3. CASE i \in 1 .. n /\ j = n + 1
    BY <1>1, <1>2, <1>4, <2>3
  <2>4. QED
    BY <1>1, <2>1, <2>2, <2>3
<1>5. QED
  BY <1>1, <1>4 DEF IsInjective, q

LEMMA AddedRange ==
    ASSUME NEW V, NEW p \in Seq(V), NEW v \in V
    PROVE  Range(Append(p, v)) = Range(p) \cup {v}
<1> DEFINE n == Len(p)
           q == Append(p, v)
<1>1. /\ n \in Nat /\ DOMAIN p = 1 .. n /\ DOMAIN q = 1 .. n + 1 /\ q[n + 1] = v
      /\ \A i \in 1 .. n : q[i] = p[i]
  OBVIOUS
<1> HIDE DEF q, n
<1>2. 1 .. n + 1 = (1 .. n) \cup {n + 1}
  BY <1>1
<1>3. Range(q) = Range(p) \cup {v}
  BY <1>1, <1>2 DEF Range
<1>4. QED
  BY <1>3 DEF q

(* A simple walk goes on to any vertex it has not met.                     *)
LEMMA LongerWalk ==
    ASSUME NEW V, NEW edges, NEW from, NEW n \in Nat, n > 0,
           NEW p \in SimpleOf(V, edges, from, n), NEW v \in Onward(V, edges, p)
    PROVE  Append(p, v) \in SimpleOf(V, edges, from, n + 1)
<1> DEFINE q == Append(p, v)
<1>1. p \in Seq(V) /\ Len(p) = n /\ p[1] = from
  BY DEF SimpleOf, IsWalk
<1>2. v \in V /\ v \notin Range(p) /\ Weights(edges, p[n], v) # {}
  BY <1>1 DEF Onward
<1>3. /\ q \in Seq(V) /\ Len(q) = n + 1 /\ q[n + 1] = v
      /\ \A i \in 1 .. n : q[i] = p[i]
  BY <1>1, <1>2
<1> HIDE DEF q
<1>4. ASSUME NEW i \in 1 .. n PROVE Weights(edges, q[i], q[i + 1]) # {}
  <2>1. CASE i = n
    BY <1>2, <1>3, <2>1
  <2>2. CASE i < n
    <3>1. i \in 1 .. n - 1 /\ i + 1 \in 1 .. n
      BY <2>2
    <3>2. Weights(edges, p[i], p[i + 1]) # {}
      BY <1>1, <3>1 DEF SimpleOf, IsWalk
    <3>3. QED
      BY <1>3, <3>1, <3>2
  <2>3. QED
    BY <2>1, <2>2
<1>5. IsWalk(edges, q, from, q[n + 1])
  <2>1. q[1] = from
    BY <1>1, <1>3
  <2>2. (n + 1) - 1 = n
    OBVIOUS
  <2>3. QED
    BY <1>3, <1>4, <2>1, <2>2, SMTT(20) DEF IsWalk
<1>6. IsInjective(q)
  BY <1>1, <1>2, AddedOnce DEF SimpleOf, q
<1>7. QED
  BY <1>3, <1>5, <1>6 DEF SimpleOf, q

(* Without its last vertex a simple walk is one still.                     *)
LEMMA ShorterWalk ==
    ASSUME NEW V, NEW edges, NEW from, NEW n \in Nat, n > 0,
           NEW q \in SimpleOf(V, edges, from, n + 1)
    PROVE  q \in Longer(V, edges, SimpleOf(V, edges, from, n))
<1> DEFINE p == SubSeq(q, 1, n)
           v == q[n + 1]
<1>1. q \in Seq(V) /\ Len(q) = n + 1 /\ q[1] = from
  BY DEF SimpleOf, IsWalk
<1>2. p \in Seq(V) /\ Len(p) = n /\ \A i \in 1 .. n : p[i] = q[i]
  BY <1>1, SubSeqProperties
<1>3. v \in V
  BY <1>1
<1>4. q = Append(p, v)
  BY <1>1
<1> HIDE DEF p
<1>5. \A i \in 1 .. n : Weights(edges, q[i], q[i + 1]) # {}
  BY <1>1, SMTT(20) DEF SimpleOf, IsWalk
<1>6. \A i, j \in 1 .. n + 1 : q[i] = q[j] => i = j
  BY <1>1 DEF SimpleOf, IsInjective
<1>7. DOMAIN p = 1 .. n
  BY <1>2
<1>8. v \in Onward(V, edges, p)
  <2>1. \A i \in 1 .. n : p[i] # v
    BY <1>2, <1>6
  <2>2. v \notin Range(p)
    BY <1>7, <2>1 DEF Range
  <2>3. n \in 1 .. n
    OBVIOUS
  <2>4. Weights(edges, p[Len(p)], v) # {}
    BY <1>2, <1>5, <2>3
  <2>5. QED
    BY <1>3, <2>2, <2>4 DEF Onward
<1>9. IsInjective(p)
  <2>1. ASSUME NEW i \in 1 .. n, NEW j \in 1 .. n, p[i] = p[j] PROVE i = j
    <3>1. q[i] = q[j] /\ i \in 1 .. n + 1 /\ j \in 1 .. n + 1
      BY <1>2, <2>1
    <3>2. QED
      BY <1>6, <3>1
  <2>2. QED
    BY <1>7, <2>1 DEF IsInjective
<1>10. IsWalk(edges, p, from, p[n])
  <2>1. p[1] = from
    BY <1>1, <1>2
  <2>2. ASSUME NEW i \in 1 .. n - 1 PROVE Weights(edges, p[i], p[i + 1]) # {}
    <3>1. i \in 1 .. n /\ i + 1 \in 1 .. n
      OBVIOUS
    <3>2. QED
      BY <1>2, <1>5, <3>1
  <2>3. QED
    BY <1>2, <2>1, <2>2 DEF IsWalk
<1>11. p \in SimpleOf(V, edges, from, n)
  BY <1>2, <1>9, <1>10 DEF SimpleOf
<1>12. QED
  BY <1>4, <1>8, <1>11 DEF Longer

LEMMA OneVertexMore ==
    ASSUME NEW V, NEW edges, NEW from, NEW n \in Nat, n > 0
    PROVE  SimpleOf(V, edges, from, n + 1) = Longer(V, edges, SimpleOf(V, edges, from, n))
<1>1. ASSUME NEW q \in SimpleOf(V, edges, from, n + 1)
      PROVE  q \in Longer(V, edges, SimpleOf(V, edges, from, n))
  BY <1>1, ShorterWalk
<1>2. ASSUME NEW q \in Longer(V, edges, SimpleOf(V, edges, from, n))
      PROVE  q \in SimpleOf(V, edges, from, n + 1)
  <2>1. PICK p \in SimpleOf(V, edges, from, n) : \E v \in Onward(V, edges, p) : q = Append(p, v)
    BY DEF Longer
  <2>2. PICK v \in Onward(V, edges, p) : q = Append(p, v)
    BY <2>1
  <2>3. QED
    BY <2>1, <2>2, LongerWalk
<1>3. QED
  BY <1>1, <1>2

(* The walks by their number of vertices: the function its recursion says. *)
LEMMA SimpleWalksExist ==
    ASSUME NEW V, IsFiniteSet(V), NEW edges, NEW from
    PROVE  SimpleWalksFrom(V, edges, from) =
               [n \in 1 .. Cardinality(V) |->
                   IF n = 1 THEN {<<from>>}
                   ELSE Longer(V, edges, SimpleWalksFrom(V, edges, from)[n - 1])]
<1> DEFINE IsWalks(f, m) ==
               f = [n \in 1 .. m |-> IF n = 1 THEN {<<from>>} ELSE Longer(V, edges, f[n - 1])]
           T == {m \in Nat : ~\E f : IsWalks(f, m)}
<1>1. T = {}
  <2> SUFFICES ASSUME T # {} PROVE FALSE
    OBVIOUS
  <2>1. PICK m \in T : \A k \in T : m <= k
    <3> HIDE DEF T
    <3>1. T \subseteq Nat
      BY DEF T
    <3>2. QED
      BY <3>1, LeastNatural
  <2>2. m # 0
    <3> DEFINE f == [n \in 1 .. 0 |-> 0]
    <3>1. IsWalks(f, 0)
      OBVIOUS
    <3>2. QED
      BY <3>1
  <2>3. m \in Nat /\ m - 1 \in Nat
    BY <2>2
  <2>4. PICK g : IsWalks(g, m - 1)
    <3>1. m - 1 \notin T
      <4> HIDE DEF T
      <4>1. QED
        BY <2>1, <2>3
    <3>2. QED
      BY <2>3, <3>1
  <2> DEFINE f == [n \in 1 .. m |-> IF n = 1 THEN {<<from>>} ELSE Longer(V, edges, g[n - 1])]
  <2>5. \A n \in 1 .. m - 1 : f[n] = g[n]
    <3>1. \A n \in 1 .. m - 1 : g[n] = IF n = 1 THEN {<<from>>} ELSE Longer(V, edges, g[n - 1])
      BY <2>4
    <3>2. \A n \in 1 .. m - 1 : n \in 1 .. m
      BY <2>3
    <3>3. QED
      BY <3>1, <3>2
  <2>6. \A n \in 1 .. m : n # 1 => f[n - 1] = g[n - 1]
    <3> HIDE DEF f
    <3>1. QED
      BY <2>3, <2>5
  <2>7. IsWalks(f, m)
    BY <2>6
  <2>8. QED
    BY <2>1, <2>7
<1>2. Cardinality(V) \in Nat
  BY FS_CardinalityType
<1>3. \E f : IsWalks(f, Cardinality(V))
  BY <1>1, <1>2
<1>4. SimpleWalksFrom(V, edges, from) = CHOOSE f : IsWalks(f, Cardinality(V))
  BY DEF SimpleWalksFrom
<1>5. IsWalks(SimpleWalksFrom(V, edges, from), Cardinality(V))
  BY <1>3, <1>4
<1>6. QED
  BY <1>5

LEMMA SimpleWalksByLength ==
    ASSUME NEW V, IsFiniteSet(V), NEW edges, NEW from \in V
    PROVE  \A n \in 1 .. Cardinality(V) :
                SimpleWalksFrom(V, edges, from)[n] = SimpleOf(V, edges, from, n)
<1> DEFINE c == Cardinality(V)
           walks == SimpleWalksFrom(V, edges, from)
           S == {n \in 1 .. c : walks[n] = SimpleOf(V, edges, from, n)}
<1>1. c \in Nat
  BY FS_CardinalityType
<1>2. walks = [n \in 1 .. c |->
                   IF n = 1 THEN {<<from>>} ELSE Longer(V, edges, walks[n - 1])]
  <2> HIDE DEF walks
  <2>1. QED
    BY SimpleWalksExist DEF walks
<1> HIDE DEF c, walks
<1>3. {<<from>>} = SimpleOf(V, edges, from, 1)
  <2>1. <<from>> \in SimpleOf(V, edges, from, 1)
    <3> DEFINE p == <<from>>
    <3>1. p \in Seq(V) /\ Len(p) = 1 /\ p[1] = from /\ DOMAIN p = {1}
      OBVIOUS
    <3> HIDE DEF p
    <3>2. QED
      BY <3>1 DEF SimpleOf, IsWalk, IsInjective
  <2>2. ASSUME NEW p \in SimpleOf(V, edges, from, 1) PROVE p = <<from>>
    <3>1. p \in Seq(V) /\ Len(p) = 1 /\ p[1] = from
      BY DEF SimpleOf, IsWalk
    <3>2. QED
      BY <3>1
  <2>3. QED
    BY <2>1, <2>2
<1>4. c > 0 => 1 \in S
  BY <1>1, <1>2, <1>3
<1>5. ASSUME NEW n \in 1 .. c - 1, n \in S PROVE n + 1 \in S
  <2>1. n + 1 \in 1 .. c /\ n + 1 # 1 /\ (n + 1) - 1 = n /\ n \in Nat /\ n > 0
    BY <1>1
  <2>2. walks[n] = SimpleOf(V, edges, from, n)
    BY <1>5
  <2>3. walks[n + 1] = Longer(V, edges, SimpleOf(V, edges, from, n))
    BY <1>2, <2>1, <2>2
  <2>4. walks[n + 1] = SimpleOf(V, edges, from, n + 1)
    BY <2>1, <2>3, OneVertexMore
  <2>5. QED
    BY <2>1, <2>4
<1>6. \A n \in 1 .. c : n \in S
  <2> HIDE DEF S
  <2>1. CASE c = 0
    BY <2>1
  <2>2. CASE c > 0
    BY <1>1, <1>4, <1>5, <2>2, UpTo
  <2>3. QED
    BY <1>1, <2>1, <2>2
<1>7. QED
  BY <1>6 DEF c, walks

(* SimpleWalks holds the walks that repeat no vertex, and all of them: none *)
(* can have more vertices than there are.                                  *)
THEOREM SimpleWalksAre ==
    ASSUME NEW V, IsFiniteSet(V), NEW edges, NEW from \in V, NEW to
    PROVE  SimpleWalks(V, edges, from, to) =
               {p \in Seq(V) : IsWalk(edges, p, from, to) /\ IsInjective(p)}
<1> DEFINE c == Cardinality(V)
           walks == SimpleWalksFrom(V, edges, from)
<1>1. c \in Nat
  BY FS_CardinalityType
<1>2. \A n \in 1 .. c : walks[n] = SimpleOf(V, edges, from, n)
  BY SimpleWalksByLength
<1>3. SimpleWalks(V, edges, from, to) =
        {p \in UNION {walks[n] : n \in 1 .. c} : p[Len(p)] = to}
  BY DEF SimpleWalks
<1> HIDE DEF c, walks
<1>4. ASSUME NEW p \in SimpleWalks(V, edges, from, to)
      PROVE  p \in Seq(V) /\ IsWalk(edges, p, from, to) /\ IsInjective(p)
  <2>1. PICK n \in 1 .. c : p \in walks[n]
    BY <1>3
  <2>2. p \in SimpleOf(V, edges, from, n) /\ p[Len(p)] = to
    BY <1>2, <1>3, <2>1
  <2>3. QED
    BY <2>2 DEF SimpleOf, IsWalk
<1>5. ASSUME NEW p \in Seq(V), IsWalk(edges, p, from, to), IsInjective(p)
      PROVE  p \in SimpleWalks(V, edges, from, to)
  <2> DEFINE n == Len(p)
  <2>1. n \in Nat /\ n > 0 /\ p[n] = to
    BY <1>5 DEF IsWalk
  <2>2. n <= c
    <3>1. p \in Injection(1 .. n, V)
      BY <1>5 DEF Injection
    <3>2. Cardinality(1 .. n) <= c
      BY <3>1, FS_Injection DEF c
    <3>3. Cardinality(1 .. n) = n
      BY <2>1, FS_Interval
    <3>4. QED
      BY <3>2, <3>3
  <2>3. n \in 1 .. c
    BY <1>1, <2>1, <2>2
  <2>4. p \in SimpleOf(V, edges, from, n)
    BY <1>5, <2>1 DEF SimpleOf
  <2>5. p \in walks[n]
    BY <1>2, <2>3, <2>4
  <2>6. QED
    BY <1>3, <2>1, <2>3, <2>5
<1>6. QED
  BY <1>4, <1>5

(* What a walk costs is a natural.                                         *)
LEMMA WalkCostType ==
    ASSUME NEW V, NEW edges, edges \subseteq V \X V \X Nat, NEW from, NEW to,
           NEW p \in Seq(V), IsWalk(edges, p, from, to)
    PROVE  WalkCost(edges, p) \in Nat
<1>1. Len(p) \in 1 .. Len(p)
  BY DEF IsWalk
<1>2. CostsAlong(edges, p) \in Seq(Nat) /\ Len(CostsAlong(edges, p)) = Len(p)
  BY CostsPrice
<1>3. QED
  BY <1>1, <1>2, ElementOfSeq DEF WalkCost

(* ShortestCost is the cost of any walk that no other undercuts ...        *)
THEOREM ShortestOf ==
    ASSUME NEW V, IsFiniteSet(V), NEW edges, edges \subseteq V \X V \X Nat,
           NEW from \in V, NEW to,
           NEW p \in Seq(V), IsWalk(edges, p, from, to), IsInjective(p),
           \A q \in Seq(V) : IsWalk(edges, q, from, to) => WalkCost(edges, p) <= WalkCost(edges, q)
    PROVE  ShortestCost(V, edges, from, to) = WalkCost(edges, p)
<1> DEFINE W == SimpleWalks(V, edges, from, to)
           C == {WalkCost(edges, q) : q \in W}
<1>1. \A q \in W : q \in Seq(V) /\ IsWalk(edges, q, from, to)
  BY SimpleWalksAre
<1>2. p \in W
  BY SimpleWalksAre
<1> HIDE DEF W
<1>3. C \subseteq Nat
  <2>1. \A q \in W : WalkCost(edges, q) \in Nat
    BY <1>1, WalkCostType
  <2>2. QED
    BY <2>1
<1>4. WalkCost(edges, p) \in C
  BY <1>2
<1>5. \A x \in C : WalkCost(edges, p) <= x
  BY <1>1
<1>6. ShortestCost(V, edges, from, to) = Least(C)
  BY <1>2 DEF ShortestCost, W
<1> HIDE DEF C
<1>7. Least(C) \in C /\ \A x \in C : Least(C) <= x
  BY <1>3, <1>4, LeastOf
<1>8. Least(C) = WalkCost(edges, p)
  <2>1. Least(C) \in Nat /\ WalkCost(edges, p) \in Nat
    BY <1>3, <1>4, <1>7
  <2>2. Least(C) <= WalkCost(edges, p) /\ WalkCost(edges, p) <= Least(C)
    BY <1>4, <1>5, <1>7
  <2>3. QED
    BY <2>1, <2>2
<1>9. QED
  BY <1>6, <1>8

(* ... and Infinity where there is none.                                   *)
LEMMA ShortestOfNone ==
    ASSUME NEW V, IsFiniteSet(V), NEW edges, NEW from \in V, NEW to,
           \A q \in Seq(V) : ~IsWalk(edges, q, from, to)
    PROVE  ShortestCost(V, edges, from, to) = Infinity
<1>1. SimpleWalks(V, edges, from, to) = {}
  BY SimpleWalksAre
<1>2. QED
  BY <1>1 DEF ShortestCost

-----------------------------------------------------------------------------
(* A priced walk that repeats no vertex and that no priced walk undercuts  *)
(* is a shortest path.                                                     *)
LEMMA CheapestRoute ==
    ASSUME NEW V, IsFiniteSet(V), NEW edges, edges \subseteq V \X V \X Nat,
           NEW from \in V, NEW to,
           NEW k \in [at : Seq(V), cost : Seq(Nat)], IsPricedWalk(edges, k, from, to),
           IsInjective(k.at), NEW c \in Nat, c = k.cost[Len(k.cost)],
           \A l \in [at : Seq(V), cost : Seq(Nat)] :
                IsPricedWalk(edges, l, from, to) => c <= l.cost[Len(l.cost)]
    PROVE  /\ IsWalk(edges, k.at, from, to)
           /\ WalkCost(edges, k.at) = c
           /\ ShortestCost(V, edges, from, to) = c
<1> DEFINE p == k.at
<1>1. p \in Seq(V) /\ IsInjective(p)
  OBVIOUS
<1>2. IsWalk(edges, p, from, to) /\ WalkCost(edges, p) \in Nat /\ WalkCost(edges, p) <= c
  BY CheapestPrice
<1> HIDE DEF p
<1>3. ASSUME NEW q \in Seq(V), IsWalk(edges, q, from, to)
      PROVE  c <= WalkCost(edges, q)
  <2>1. PICK l \in [at : Seq(V), cost : Seq(Nat)] :
            /\ IsPricedWalk(edges, l, from, to)
            /\ l.cost[Len(l.cost)] = WalkCost(edges, q)
    BY <1>3, PricedAtCost, SMTT(20)
  <2>2. QED
    BY <2>1
<1>4. WalkCost(edges, p) = c
  <2> DEFINE w == WalkCost(edges, p)
  <2>1. w \in Nat /\ w <= c /\ c <= w
    BY <1>1, <1>2, <1>3
  <2> HIDE DEF w
  <2>2. w = c
    BY <2>1
  <2>3. QED
    BY <2>2 DEF w
<1>5. ShortestCost(V, edges, from, to) = WalkCost(edges, p)
  BY <1>1, <1>2, <1>3, <1>4, ShortestOf
<1>6. QED
  BY <1>2, <1>4, <1>5 DEF p

(* Without a priced walk there is no path.                                 *)
LEMMA NoRouteAtAll ==
    ASSUME NEW V, IsFiniteSet(V), NEW edges, edges \subseteq V \X V \X Nat,
           NEW from \in V, NEW to,
           \A l \in [at : Seq(V), cost : Seq(Nat)] : ~IsPricedWalk(edges, l, from, to)
    PROVE  ShortestCost(V, edges, from, to) = Infinity
<1>1. ASSUME NEW q \in Seq(V), IsWalk(edges, q, from, to)
      PROVE  FALSE
  BY <1>1, PricedAtCost
<1>2. QED
  BY <1>1, ShortestOfNone

(* To stay where one is costs nothing.                                     *)
LEMMA StayingIsFree ==
    ASSUME NEW V, IsFiniteSet(V), NEW edges, edges \subseteq V \X V \X Nat, NEW from \in V
    PROVE  /\ IsWalk(edges, <<from>>, from, from)
           /\ WalkCost(edges, <<from>>) = 0
           /\ ShortestCost(V, edges, from, from) = 0
<1> DEFINE p == <<from>>
<1>1. p \in Seq(V) /\ Len(p) = 1 /\ p[1] = from /\ IsInjective(p)
  BY DEF IsInjective
<1> HIDE DEF p
<1>2. IsWalk(edges, p, from, from)
  BY <1>1 DEF IsWalk
<1>3. WalkCost(edges, p) = 0
  BY <1>1, <1>2, CostsPrice DEF WalkCost
<1>4. ASSUME NEW q \in Seq(V), IsWalk(edges, q, from, from)
      PROVE  WalkCost(edges, p) <= WalkCost(edges, q)
  <2>1. WalkCost(edges, q) \in Nat
    BY <1>4, WalkCostType
  <2>2. QED
    BY <1>3, <2>1
<1>5. ShortestCost(V, edges, from, from) = WalkCost(edges, p)
  BY <1>1, <1>2, <1>4, ShortestOf
<1>6. QED
  BY <1>2, <1>3, <1>5 DEF p
-----------------------------------------------------------------------------
(***************************************************************************)
(* Least costs in one graph and in another.                                *)
(***************************************************************************)
PricedWalks(V) == [at : Seq(V), cost : Seq(Nat)]

(* What a priced walk costs from its first vertex to its last.             *)
Price(k) == k.cost[Len(k.cost)]

(* The vertices and the costs of a walk have their types, and each vertex  *)
(* is reached from the one before over an edge.                            *)
StopsOf(V, edges, k, from, to) ==
    /\ Len(k.at) \in Nat \ {0} /\ Len(k.cost) = Len(k.at)
    /\ k.at[1] = from /\ k.at[Len(k.at)] = to /\ k.cost[1] = 0
    /\ \A i \in 1 .. Len(k.at) : k.at[i] \in V /\ k.cost[i] \in Nat
    /\ \A i \in 1 .. Len(k.at) - 1 :
         <<k.at[i], k.at[i + 1], k.cost[i + 1] - k.cost[i]>> \in edges

LEMMA StopsOfWalk ==
    ASSUME NEW V, NEW edges, edges \subseteq V \X V \X Nat, NEW from, NEW to,
           NEW k \in PricedWalks(V), IsPricedWalk(edges, k, from, to)
    PROVE  StopsOf(V, edges, k, from, to)
<1>1. k.at \in Seq(V) /\ k.cost \in Seq(Nat)
  BY DEF PricedWalks
<1>2. /\ Len(k.at) > 0 /\ Len(k.cost) = Len(k.at)
      /\ k.at[1] = from /\ k.at[Len(k.at)] = to /\ k.cost[1] = 0
      /\ \A i \in 1 .. Len(k.at) - 1 :
            <<k.at[i], k.at[i + 1], k.cost[i + 1] - k.cost[i]>> \in edges
  BY DEF IsPricedWalk
<1>3. /\ Len(k.at) \in Nat \ {0}
      /\ \A i \in 1 .. Len(k.at) : k.at[i] \in V /\ k.cost[i] \in Nat
  BY <1>1, <1>2
<1>4. QED
  BY <1>2, <1>3 DEF StopsOf

LEMMA PriceIsNatural ==
    ASSUME NEW V, NEW edges, edges \subseteq V \X V \X Nat, NEW from, NEW to,
           NEW k \in PricedWalks(V), IsPricedWalk(edges, k, from, to)
    PROVE  Price(k) \in Nat
<1>1. k.cost \in Seq(Nat) /\ Len(k.cost) > 0
  BY DEF PricedWalks, IsPricedWalk
<1>2. Len(k.cost) \in 1 .. Len(k.cost)
  BY <1>1
<1>3. QED
  BY <1>1, <1>2, ElementOfSeq DEF Price

(* A walk that comes to one vertex twice can be cut short: what lies       *)
(* between is left out.                                                    *)
LEMMA CutShort ==
    ASSUME NEW V, NEW edges, edges \subseteq V \X V \X Nat, NEW from, NEW to,
           NEW k \in PricedWalks(V), IsPricedWalk(edges, k, from, to),
           NEW i \in 1 .. Len(k.at), NEW j \in 1 .. Len(k.at), i < j, k.at[i] = k.at[j]
    PROVE  \E l \in PricedWalks(V) :
             /\ IsPricedWalk(edges, l, from, to)
             /\ Price(l) <= Price(k)
             /\ Len(l.at) < Len(k.at)
<1> DEFINE n == Len(k.at)
           m == n - (j - i)
           d == k.cost[j] - k.cost[i]
           at == [x \in 1 .. m |-> IF x <= i THEN k.at[x] ELSE k.at[x + (j - i)]]
           cost == [x \in 1 .. m |-> IF x <= i THEN k.cost[x] ELSE k.cost[x + (j - i)] - d]
           l == [at |-> at, cost |-> cost]
<1>0. StopsOf(V, edges, k, from, to)
  BY StopsOfWalk
<1>1. k \in [at : Seq(V), cost : Seq(Nat)]
  BY DEF PricedWalks
<1>2. /\ n \in Nat \ {0} /\ Len(k.cost) = n
      /\ k.at[1] = from /\ k.at[n] = to /\ k.cost[1] = 0
      /\ \A x \in 1 .. n : k.at[x] \in V /\ k.cost[x] \in Nat
  BY <1>0 DEF StopsOf
<1>3. \A x \in 1 .. n - 1 : <<k.at[x], k.at[x + 1], k.cost[x + 1] - k.cost[x]>> \in edges
  BY <1>0 DEF StopsOf
<1>4. ASSUME NEW x \in 1 .. n, NEW y \in 1 .. n, x <= y PROVE k.cost[x] <= k.cost[y]
  BY <1>1, <1>4, PricesGrow
<1>5. i \in 1 .. n /\ j \in 1 .. n /\ i \in Nat /\ j \in Nat
  BY <1>2
<1> HIDE DEF n
<1>6. m \in Nat /\ m < n /\ i <= m /\ 1 <= i /\ m + (j - i) = n
  BY <1>2, <1>5
<1>7. d \in Nat /\ k.cost[j] = k.cost[i] + d
  <2>1. k.cost[i] \in Nat /\ k.cost[j] \in Nat /\ k.cost[i] <= k.cost[j]
    BY <1>2, <1>4, <1>5
  <2> DEFINE a == k.cost[i]
             b == k.cost[j]
  <2>2. a \in Nat /\ b \in Nat /\ a <= b
    BY <2>1
  <2> HIDE DEF a, b
  <2>3. b - a \in Nat /\ b = a + (b - a)
    BY <2>2
  <2>4. QED
    BY <2>3 DEF a, b
<1> HIDE DEF d
<1>8. ASSUME NEW x \in 1 .. m, ~(x <= i)
      PROVE  /\ x + (j - i) \in 1 .. n /\ j <= x + (j - i)
             /\ k.cost[x + (j - i)] - d \in Nat
  <2>1. x + (j - i) \in 1 .. n /\ j <= x + (j - i)
    BY <1>5, <1>6, <1>8
  <2>2. k.cost[j] <= k.cost[x + (j - i)] /\ k.cost[x + (j - i)] \in Nat /\ k.cost[i] \in Nat
    BY <1>2, <1>4, <1>5, <2>1
  <2> DEFINE a == k.cost[i]
             b == k.cost[j]
             c == k.cost[x + (j - i)]
  <2>3. a \in Nat /\ b = a + d /\ b <= c /\ c \in Nat /\ d \in Nat
    BY <1>7, <2>2
  <2> HIDE DEF a, b, c
  <2>4. c - d \in Nat
    BY <2>3
  <2>5. QED
    BY <2>1, <2>4 DEF c
<1>9. ASSUME NEW x \in 1 .. m
      PROVE  at[x] \in V /\ cost[x] \in Nat
  <2>1. x \in 1 .. n
    BY <1>6, <1>2
  <2>2. CASE x <= i
    BY <1>2, <2>1, <2>2
  <2>3. CASE ~(x <= i)
    BY <1>2, <1>8, <2>3
  <2>4. QED
    BY <2>2, <2>3
<1>10. /\ DOMAIN at = 1 .. m /\ at \in Seq(V) /\ Len(at) = m
       /\ cost \in Seq(Nat) /\ Len(cost) = m
  <2>1. at \in [1 .. m -> V] /\ cost \in [1 .. m -> Nat]
    BY <1>9
  <2>2. m \in Nat
    BY <1>6
  <2> HIDE DEF at, cost, m
  <2>3. at \in Seq(V) /\ Len(at) = m /\ DOMAIN at = 1 .. m
    BY <2>1, <2>2
  <2>4. cost \in Seq(Nat) /\ Len(cost) = m
    BY <2>1, <2>2
  <2>5. QED
    BY <2>3, <2>4
<1>11. at[1] = from /\ cost[1] = 0
  <2>1. 1 \in 1 .. m /\ 1 <= i
    BY <1>6
  <2>2. QED
    BY <1>2, <2>1
<1>12. at[m] = to /\ cost[m] <= Price(k)
  <2>1. m \in 1 .. m /\ n \in 1 .. n
    BY <1>2, <1>6
  <2>2. CASE m <= i
    <3>1. m = i /\ n = j
      <4> HIDE DEF m
      <4>1. i \in Nat /\ j \in Nat /\ n \in Nat /\ m \in Nat /\ i <= m /\ m + (j - i) = n /\ m <= i
        BY <1>2, <1>5, <1>6, <2>2
      <4>2. QED
        BY <4>1
    <3>2. at[m] = k.at[i] /\ cost[m] = k.cost[i]
      BY <2>1, <3>1
    <3>3. k.cost[i] <= k.cost[n]
      BY <1>4, <1>5, <2>1, <3>1
    <3>4. QED
      BY <1>2, <3>1, <3>2, <3>3 DEF Price
  <2>3. CASE ~(m <= i)
    <3>1. at[m] = k.at[n] /\ cost[m] = k.cost[n] - d
      BY <1>6, <2>1, <2>3
    <3>2. k.cost[n] - d <= k.cost[n]
      <4>1. k.cost[n] \in Nat
        BY <1>2, <2>1
      <4>2. QED
        BY <1>7, <4>1
    <3>3. QED
      BY <1>2, <3>1, <3>2 DEF Price
  <2>4. QED
    BY <2>2, <2>3
<1>13. ASSUME NEW x \in 1 .. m - 1
       PROVE  <<at[x], at[x + 1], cost[x + 1] - cost[x]>> \in edges
  <2>1. x \in 1 .. m /\ x + 1 \in 1 .. m /\ x \in Nat
    BY <1>6
  <2>2. CASE x < i
    <3>1. x <= i /\ x + 1 <= i /\ x \in 1 .. n - 1
      BY <1>5, <1>6, <2>1, <2>2
    <3>2. at[x] = k.at[x] /\ at[x + 1] = k.at[x + 1] /\ cost[x] = k.cost[x] /\ cost[x + 1] = k.cost[x + 1]
      BY <2>1, <3>1
    <3>3. QED
      BY <1>3, <3>1, <3>2
  <2>3. CASE x = i
    <3>1. x <= i /\ ~(x + 1 <= i) /\ j \in 1 .. n - 1 /\ (x + 1) + (j - i) = j + 1
      BY <1>5, <1>6, <2>1, <2>3
    <3>2. at[x] = k.at[j] /\ at[x + 1] = k.at[j + 1] /\ cost[x] = k.cost[i] /\ cost[x + 1] = k.cost[j + 1] - d
      BY <2>1, <2>3, <3>1
    <3>3. (k.cost[j + 1] - d) - k.cost[i] = k.cost[j + 1] - k.cost[j]
      <4>1. j + 1 \in 1 .. n
        <5>1. j \in Nat /\ n \in Nat /\ j \in 1 .. n - 1
          BY <1>2, <1>5, <3>1
        <5>2. QED
          BY <5>1
      <4> DEFINE a == k.cost[i]
                 b == k.cost[j]
                 c == k.cost[j + 1]
      <4>2. a \in Nat /\ b = a + d /\ c \in Nat /\ d \in Nat
        BY <1>2, <1>5, <1>7, <4>1
      <4> HIDE DEF a, b, c
      <4>3. (c - d) - a = c - b
        BY <4>2
      <4>4. QED
        BY <4>3 DEF a, b, c
    <3>4. QED
      BY <1>3, <3>1, <3>2, <3>3
  <2>4. CASE x > i
    <3> DEFINE y == x + (j - i)
    <3>1. ~(x <= i) /\ ~(x + 1 <= i) /\ y \in 1 .. n - 1 /\ (x + 1) + (j - i) = y + 1 /\ y \in 1 .. n /\ y + 1 \in 1 .. n
      <4> HIDE DEF m
      <4>1. /\ i \in Nat /\ j \in Nat /\ n \in Nat /\ m \in Nat /\ x \in Nat /\ x > i /\ x + 1 <= m
            /\ 1 <= i /\ i < j /\ m + (j - i) = n
        BY <1>2, <1>5, <1>6, <2>1, <2>4
      <4>2. QED
        BY <4>1
    <3>2. at[x] = k.at[y] /\ at[x + 1] = k.at[y + 1] /\ cost[x] = k.cost[y] - d /\ cost[x + 1] = k.cost[y + 1] - d
      BY <2>1, <3>1
    <3> HIDE DEF y
    <3>3. (k.cost[y + 1] - d) - (k.cost[y] - d) = k.cost[y + 1] - k.cost[y]
      <4> DEFINE a == k.cost[y]
                 b == k.cost[y + 1]
      <4>1. a \in Nat /\ b \in Nat /\ d \in Nat
        BY <1>2, <1>7, <3>1
      <4> HIDE DEF a, b
      <4>2. (b - d) - (a - d) = b - a
        BY <4>1
      <4>3. QED
        BY <4>2 DEF a, b
    <3>4. QED
      BY <1>3, <3>1, <3>2, <3>3
  <2>5. QED
    BY <1>5, <2>1, <2>2, <2>3, <2>4
<1> HIDE DEF at, cost, m
<1>14. l \in PricedWalks(V) /\ IsPricedWalk(edges, l, from, to)
  BY <1>6, <1>10, <1>11, <1>12, <1>13, SMTT(20) DEF PricedWalks, IsPricedWalk
<1>15. Price(l) <= Price(k) /\ Len(l.at) < Len(k.at)
  BY <1>6, <1>10, <1>12 DEF Price, n
<1>16. QED
  BY <1>14, <1>15

(* No walk undercuts every walk that repeats no vertex.                    *)
LEMMA SimpleWalkUndercuts ==
    ASSUME NEW V, NEW edges, edges \subseteq V \X V \X Nat, NEW from, NEW to,
           NEW k \in PricedWalks(V), IsPricedWalk(edges, k, from, to)
    PROVE  \E l \in PricedWalks(V) :
             IsPricedWalk(edges, l, from, to) /\ Price(l) <= Price(k) /\ IsInjective(l.at)
<1> DEFINE Cheap == {l \in PricedWalks(V) : IsPricedWalk(edges, l, from, to) /\ Price(l) <= Price(k)}
           T == {Len(l.at) : l \in Cheap}
<1>1. Price(k) \in Nat
  BY PriceIsNatural
<1>2. k \in Cheap
  BY <1>1
<1>3. T \subseteq Nat /\ T # {}
  <2>1. \A l \in Cheap : Len(l.at) \in Nat
    BY DEF PricedWalks
  <2>2. QED
    BY <1>2, <2>1
<1>4. PICK n \in T : \A x \in T : n <= x
  <2> HIDE DEF T
  <2>1. QED
    BY <1>3, LeastNatural
<1>5. PICK l \in Cheap : Len(l.at) = n
  OBVIOUS
<1>6. \A x \in Cheap : ~(Len(x.at) < Len(l.at))
  <2>1. \A x \in Cheap : Len(l.at) <= Len(x.at)
    BY <1>4, <1>5
  <2>2. \A x \in Cheap : Len(x.at) \in Nat
    BY <1>3
  <2> HIDE DEF Cheap, T
  <2>3. QED
    BY <2>1, <2>2
<1>7. l \in PricedWalks(V) /\ IsPricedWalk(edges, l, from, to) /\ Price(l) <= Price(k) /\ Price(l) \in Nat
  BY PriceIsNatural
<1>8. ASSUME NEW i \in 1 .. Len(l.at), NEW j \in 1 .. Len(l.at), i < j, l.at[i] = l.at[j]
      PROVE  FALSE
  <2>1. PICK x \in PricedWalks(V) :
          IsPricedWalk(edges, x, from, to) /\ Price(x) <= Price(l) /\ Len(x.at) < Len(l.at)
    <3> HIDE DEF Cheap
    <3>1. QED
      BY <1>7, <1>8, CutShort
  <2>2. Price(x) \in Nat
    BY <2>1, PriceIsNatural
  <2>3. Price(x) <= Price(k)
    <3> HIDE DEF Cheap
    <3>1. QED
      BY <1>1, <1>7, <2>1, <2>2
  <2>4. x \in Cheap
    BY <2>1, <2>3
  <2>5. QED
    BY <1>6, <2>1, <2>4
<1>9. IsInjective(l.at)
  <2>1. DOMAIN l.at = 1 .. Len(l.at) /\ Len(l.at) \in Nat
    BY <1>7 DEF PricedWalks
  <2>2. ASSUME NEW i \in 1 .. Len(l.at), NEW j \in 1 .. Len(l.at), l.at[i] = l.at[j] PROVE i = j
    <3>1. ~(i < j) /\ ~(j < i)
      BY <1>8, <2>2
    <3>2. QED
      BY <2>1, <3>1
  <2>3. QED
    BY <2>1, <2>2 DEF IsInjective
<1>10. QED
  BY <1>7, <1>9

(* The least cost is what some walk that repeats no vertex costs, and no   *)
(* walk costs less.                                                        *)
LEMMA LeastCostOfWalks ==
    ASSUME NEW V, IsFiniteSet(V), NEW edges, edges \subseteq V \X V \X Nat,
           NEW from \in V, NEW to, NEW k \in PricedWalks(V), IsPricedWalk(edges, k, from, to)
    PROVE  \E l \in PricedWalks(V) :
             /\ IsPricedWalk(edges, l, from, to) /\ IsInjective(l.at)
             /\ Price(l) = ShortestCost(V, edges, from, to)
             /\ \A x \in PricedWalks(V) : IsPricedWalk(edges, x, from, to) => Price(l) <= Price(x)
<1> DEFINE C == {Price(x) : x \in {y \in PricedWalks(V) : IsPricedWalk(edges, y, from, to)}}
<1>1. C \subseteq Nat
  BY PriceIsNatural
<1>2. Price(k) \in C
  OBVIOUS
<1>3. PICK c \in C : \A d \in C : c <= d
  <2> HIDE DEF C
  <2>1. QED
    BY <1>1, <1>2, LeastNatural
<1>4. PICK x \in PricedWalks(V) : IsPricedWalk(edges, x, from, to) /\ Price(x) = c
  BY <1>3
<1>5. \A y \in PricedWalks(V) : IsPricedWalk(edges, y, from, to) => c <= Price(y) /\ Price(y) \in Nat
  BY <1>1, <1>3
<1> HIDE DEF C
<1>6. PICK l \in PricedWalks(V) :
        IsPricedWalk(edges, l, from, to) /\ Price(l) <= Price(x) /\ IsInjective(l.at)
  BY <1>4, SimpleWalkUndercuts
<1>7. Price(l) = c
  <2>1. Price(l) \in Nat /\ c \in Nat /\ Price(l) <= c /\ c <= Price(l)
    BY <1>1, <1>3, <1>4, <1>5, <1>6
  <2>2. QED
    BY <2>1
<1>8. ShortestCost(V, edges, from, to) = c
  <2>1. l \in [at : Seq(V), cost : Seq(Nat)] /\ c \in Nat /\ c = l.cost[Len(l.cost)]
    BY <1>1, <1>3, <1>7 DEF PricedWalks, Price
  <2>2. \A y \in [at : Seq(V), cost : Seq(Nat)] :
          IsPricedWalk(edges, y, from, to) => c <= y.cost[Len(y.cost)]
    BY <1>5 DEF PricedWalks, Price
  <2>3. QED
    BY <1>6, <2>1, <2>2, CheapestRoute
<1>9. QED
  BY <1>5, <1>6, <1>7, <1>8

(* Each walk of the one graph that repeats no vertex is undercut by a walk *)
(* of the other.                                                           *)
Undercut(V, edges, W, others, from, to) ==
    \A k \in PricedWalks(V) : IsPricedWalk(edges, k, from, to) /\ IsInjective(k.at) =>
        \E l \in PricedWalks(W) : IsPricedWalk(others, l, from, to) /\ Price(l) <= Price(k)

(* Two graphs that undercut each other have the same least cost.           *)
LEMMA SameLeastCost ==
    ASSUME NEW V, IsFiniteSet(V), NEW edges, edges \subseteq V \X V \X Nat,
           NEW W, IsFiniteSet(W), NEW others, others \subseteq W \X W \X Nat,
           NEW from \in V \cap W, NEW to,
           Undercut(V, edges, W, others, from, to),
           Undercut(W, others, V, edges, from, to)
    PROVE  ShortestCost(V, edges, from, to) = ShortestCost(W, others, from, to)
<1> USE DEF Undercut
<1>1. CASE \A k \in PricedWalks(V) : ~IsPricedWalk(edges, k, from, to)
  <2>1. \A k \in PricedWalks(W) : ~IsPricedWalk(others, k, from, to)
    BY <1>1, SimpleWalkUndercuts
  <2>2. ShortestCost(V, edges, from, to) = Infinity
    BY <1>1, NoRouteAtAll DEF PricedWalks
  <2>3. ShortestCost(W, others, from, to) = Infinity
    BY <2>1, NoRouteAtAll DEF PricedWalks
  <2>4. QED
    BY <2>2, <2>3
<1>2. CASE \E k \in PricedWalks(V) : IsPricedWalk(edges, k, from, to)
  <2>1. PICK a \in PricedWalks(V) :
          /\ IsPricedWalk(edges, a, from, to) /\ IsInjective(a.at)
          /\ Price(a) = ShortestCost(V, edges, from, to)
          /\ \A x \in PricedWalks(V) : IsPricedWalk(edges, x, from, to) => Price(a) <= Price(x)
    BY <1>2, LeastCostOfWalks
  <2>2. PICK b \in PricedWalks(W) : IsPricedWalk(others, b, from, to) /\ Price(b) <= Price(a)
    BY <2>1
  <2>3. PICK c \in PricedWalks(W) :
          /\ IsPricedWalk(others, c, from, to) /\ IsInjective(c.at)
          /\ Price(c) = ShortestCost(W, others, from, to)
          /\ \A x \in PricedWalks(W) : IsPricedWalk(others, x, from, to) => Price(c) <= Price(x)
    BY <2>2, LeastCostOfWalks
  <2>4. PICK d \in PricedWalks(V) : IsPricedWalk(edges, d, from, to) /\ Price(d) <= Price(c)
    BY <2>3
  <2>5. Price(a) \in Nat /\ Price(b) \in Nat /\ Price(c) \in Nat /\ Price(d) \in Nat
    BY <2>1, <2>2, <2>3, <2>4, PriceIsNatural
  <2>6. Price(c) <= Price(b) /\ Price(b) <= Price(a) /\ Price(a) <= Price(d) /\ Price(d) <= Price(c)
    BY <2>1, <2>2, <2>3, <2>4
  <2>7. Price(a) = Price(c)
    BY <2>5, <2>6
  <2>8. QED
    BY <2>1, <2>3, <2>7
<1>3. QED
  BY <1>1, <1>2

(* Walks are made of edges: none, or one more than another has.            *)
LEMMA WalkOfNoEdge ==
    ASSUME NEW V, NEW edges, NEW from \in V
    PROVE  \E k \in PricedWalks(V) : IsPricedWalk(edges, k, from, from) /\ Price(k) = 0
<1> DEFINE k == [at |-> <<from>>, cost |-> <<0>>]
<1>1. /\ k \in PricedWalks(V) /\ Len(k.at) = 1 /\ Len(k.cost) = 1
      /\ k.at[1] = from /\ k.cost[1] = 0
  BY DEF PricedWalks
<1> HIDE DEF k
<1>2. QED
  BY <1>1 DEF IsPricedWalk, Price

LEMMA WalkOfOneEdgeMore ==
    ASSUME NEW V, NEW edges, edges \subseteq V \X V \X Nat, NEW from, NEW u, NEW v, NEW w,
           <<u, v, w>> \in edges, NEW k \in PricedWalks(V), IsPricedWalk(edges, k, from, u)
    PROVE  \E l \in PricedWalks(V) :
             IsPricedWalk(edges, l, from, v) /\ Price(l) = Price(k) + w
<1> DEFINE n == Len(k.at)
           c == Price(k)
           at == Append(k.at, v)
           cost == Append(k.cost, c + w)
           l == [at |-> at, cost |-> cost]
<1>1. c \in Nat /\ v \in V /\ w \in Nat /\ c + w \in Nat
  BY PriceIsNatural
<1>2. StopsOf(V, edges, k, from, u)
  BY StopsOfWalk
<1>3. /\ n \in Nat \ {0} /\ Len(k.cost) = n /\ k.at[1] = from /\ k.at[n] = u /\ k.cost[1] = 0
      /\ k.cost[n] = c
  BY <1>2 DEF StopsOf, Price
<1>4. \A i \in 1 .. n - 1 : <<k.at[i], k.at[i + 1], k.cost[i + 1] - k.cost[i]>> \in edges
  BY <1>2 DEF StopsOf
<1>5. k.at \in Seq(V) /\ k.cost \in Seq(Nat)
  BY DEF PricedWalks
<1> HIDE DEF c
<1>6. /\ at \in Seq(V) /\ Len(at) = n + 1 /\ at[n + 1] = v
      /\ \A i \in 1 .. n : at[i] = k.at[i]
  BY <1>1, <1>5
<1>7. /\ cost \in Seq(Nat) /\ Len(cost) = n + 1 /\ cost[n + 1] = c + w
      /\ \A i \in 1 .. n : cost[i] = k.cost[i]
  <2> DEFINE q == k.cost
  <2>1. q \in Seq(Nat) /\ Len(q) = n /\ c + w \in Nat
    BY <1>1, <1>3, <1>5
  <2> HIDE DEF q, n
  <2>2. QED
    BY <2>1 DEF q
<1> HIDE DEF n, at, cost
<1>8. at[1] = from /\ cost[1] = 0 /\ at[n] = u /\ cost[n] = c
  BY <1>3, <1>6, <1>7
<1>9. ASSUME NEW i \in 1 .. n
      PROVE  <<at[i], at[i + 1], cost[i + 1] - cost[i]>> \in edges
  <2>1. CASE i = n
    <3>1. (c + w) - c = w
      BY <1>1
    <3>2. QED
      BY <1>6, <1>7, <1>8, <2>1, <3>1
  <2>2. CASE i # n
    <3>1. i \in 1 .. n - 1 /\ i + 1 \in 1 .. n
      BY <1>3, <2>2
    <3>2. QED
      BY <1>4, <1>6, <1>7, <3>1
  <2>3. QED
    BY <2>1, <2>2
<1>10. l \in PricedWalks(V)
  BY <1>6, <1>7 DEF PricedWalks
<1>11. IsPricedWalk(edges, l, from, v)
  <2>1. n + 1 > 0 /\ (n + 1) - 1 = n
    BY <1>3
  <2>2. QED
    BY <1>6, <1>7, <1>8, <1>9, <2>1 DEF IsPricedWalk
<1>12. Price(l) = c + w
  BY <1>7 DEF Price
<1>13. QED
  BY <1>10, <1>11, <1>12 DEF c

(* The walks of a graph are walks of every graph that holds it.            *)
LEMMA WalksOfMore ==
    ASSUME NEW V, NEW edges, NEW W, V \subseteq W, NEW others, edges \subseteq others,
           NEW from, NEW to, NEW k \in PricedWalks(V), IsPricedWalk(edges, k, from, to)
    PROVE  k \in PricedWalks(W) /\ IsPricedWalk(others, k, from, to)
<1>1. k \in PricedWalks(W)
  BY DEF PricedWalks
<1>2. IsPricedWalk(others, k, from, to)
  BY DEF IsPricedWalk
<1>3. QED
  BY <1>1, <1>2

(* Who walks along edges that lead out of no set of vertices-with-costs    *)
(* that the walk starts in, arrives in that set.                           *)
LEMMA ArrivesIn ==
    ASSUME NEW V, NEW edges, edges \subseteq V \X V \X Nat, NEW from, NEW to,
           NEW k \in PricedWalks(V), IsPricedWalk(edges, k, from, to),
           NEW S, <<from, 0>> \in S,
           \A x, y \in V : \A c, d \in Nat :
               <<x, c>> \in S /\ <<x, y, d>> \in edges => <<y, c + d>> \in S
    PROVE  <<to, Price(k)>> \in S
<1> DEFINE n == Len(k.at)
           T == {i \in 1 .. n : <<k.at[i], k.cost[i]>> \in S}
<1>1. StopsOf(V, edges, k, from, to)
  BY StopsOfWalk
<1>2. /\ n \in Nat \ {0} /\ Len(k.cost) = n /\ k.at[1] = from /\ k.at[n] = to /\ k.cost[1] = 0
      /\ \A i \in 1 .. n : k.at[i] \in V /\ k.cost[i] \in Nat
  BY <1>1 DEF StopsOf
<1>3. \A i \in 1 .. n - 1 : <<k.at[i], k.at[i + 1], k.cost[i + 1] - k.cost[i]>> \in edges
  BY <1>1 DEF StopsOf
<1> HIDE DEF n
<1>4. 1 \in T
  BY <1>2
<1>5. ASSUME NEW i \in 1 .. n - 1, i \in T
      PROVE  i + 1 \in T
  <2>1. i \in 1 .. n /\ i + 1 \in 1 .. n
    BY <1>2
  <2> DEFINE x == k.at[i]
             y == k.at[i + 1]
             a == k.cost[i]
             b == k.cost[i + 1]
  <2>2. x \in V /\ y \in V /\ a \in Nat /\ b \in Nat /\ <<x, a>> \in S
    BY <1>2, <1>5, <2>1
  <2>3. <<x, y, b - a>> \in edges
    BY <1>3
  <2>4. (<<y, b>> \in S) => i + 1 \in T
    BY <2>1
  <2> HIDE DEF x, y, a, b, T
  <2>5. b - a \in Nat
    BY <2>3
  <2>6. a + (b - a) = b
    BY <2>2
  <2>7. <<y, a + (b - a)>> \in S
    BY <2>2, <2>3, <2>5
  <2>8. QED
    BY <2>4, <2>6, <2>7
<1>6. \A i \in 1 .. n : i \in T
  <2> HIDE DEF T
  <2>1. QED
    BY <1>2, <1>4, <1>5, UpTo
<1>7. n \in T
  BY <1>2, <1>6
<1>8. QED
  BY <1>2, <1>7 DEF Price

(* A walk that repeats no vertex does not come back to its first vertex    *)
(* and does not go on from its last.                                       *)
LEMMA NeverBackNorOn ==
    ASSUME NEW V, NEW edges, edges \subseteq V \X V \X Nat, NEW from, NEW to,
           NEW k \in PricedWalks(V), IsPricedWalk(edges, k, from, to), IsInjective(k.at)
    PROVE  IsPricedWalk({e \in edges : e[1] # to /\ e[2] # from}, k, from, to)
<1> DEFINE n == Len(k.at)
           some == {e \in edges : e[1] # to /\ e[2] # from}
<1>1. /\ n > 0 /\ Len(k.cost) = n
      /\ k.at[1] = from /\ k.at[n] = to /\ k.cost[1] = 0
      /\ \A i \in 1 .. n - 1 : <<k.at[i], k.at[i + 1], k.cost[i + 1] - k.cost[i]>> \in edges
  BY DEF IsPricedWalk
<1>2. DOMAIN k.at = 1 .. n /\ n \in Nat
  BY DEF PricedWalks
<1>3. \A i, j \in 1 .. n : k.at[i] = k.at[j] => i = j
  BY <1>2 DEF IsInjective
<1> HIDE DEF n
<1>4. ASSUME NEW i \in 1 .. n - 1
      PROVE  <<k.at[i], k.at[i + 1], k.cost[i + 1] - k.cost[i]>> \in some
  <2>1. i \in 1 .. n /\ i + 1 \in 1 .. n /\ 1 \in 1 .. n /\ n \in 1 .. n /\ i # n /\ i + 1 # 1
    BY <1>2
  <2>2. k.at[i] # to /\ k.at[i + 1] # from
    BY <1>1, <1>3, <2>1
  <2> DEFINE x == k.at[i]
             y == k.at[i + 1]
             d == k.cost[i + 1] - k.cost[i]
  <2>3. <<x, y, d>> \in edges
    BY <1>1
  <2> HIDE DEF x, y, d
  <2>4. x # to /\ y # from
    BY <2>2 DEF x, y
  <2>5. <<x, y, d>> \in some
    BY <2>3, <2>4
  <2>6. QED
    BY <2>5 DEF x, y, d
<1> HIDE DEF some
<1>5. IsPricedWalk(some, k, from, to)
  BY <1>1, <1>4 DEF IsPricedWalk, n
<1>6. QED
  BY <1>5 DEF some
=============================================================================
