----------------------- MODULE RunPreparation_proofs -----------------------
(***************************************************************************)
(* Proofs about RunPreparation.                                            *)
(*                                                                         *)
(* The first half is about data: sets put in order, the components of the  *)
(* walkable network, totals, the entry points found, and the order of      *)
(* departures.  What a recursive definition computes is proved by a least  *)
(* counterexample.  The second half is one invariant, Inv, which says at   *)
(* each stage what the programs so far have settled, and the properties    *)
(* that follow from it.                                                    *)
(***************************************************************************)
EXTENDS RunPreparation, DataLemmas, SequenceTheorems

(***************************************************************************)
(* Sets in order.                                                          *)
(***************************************************************************)
Before(S, before) ==
  /\ IsFiniteSet(S)
  /\ \A x \in S : before[x] \subseteq S /\ x \notin before[x]
  /\ \A x, y \in S : x # y => x \in before[y] \/ y \in before[x]
  /\ \A x, y \in S : x \in before[y] => before[x] \subseteq before[y]

\* Each element has a place of its own: the number of those before it.
LEMMA PlacesDiffer ==
  ASSUME NEW S, NEW before, Before(S, before), NEW x \in S, NEW y \in S, x \in before[y]
  PROVE  Cardinality(before[x]) < Cardinality(before[y])
<1>1. /\ before[x] \subseteq before[y] /\ x \notin before[x]
      /\ before[x] \subseteq S /\ before[y] \subseteq S /\ IsFiniteSet(S)
  BY DEF Before
<1>2. IsFiniteSet(before[y]) /\ IsFiniteSet(before[x])
  BY <1>1, FS_Subset
<1>3. /\ Cardinality(before[x]) <= Cardinality(before[y])
      /\ Cardinality(before[x]) = Cardinality(before[y]) => before[y] = before[x]
  BY <1>1, <1>2, FS_Subset
<1>4. Cardinality(before[x]) \in Nat /\ Cardinality(before[y]) \in Nat
  BY <1>2, FS_CardinalityType
<1> QED
  BY <1>1, <1>3, <1>4

LEMMA PlaceInRange ==
  ASSUME NEW S, NEW before, Before(S, before), NEW x \in S
  PROVE  Cardinality(before[x]) \in 0 .. Cardinality(S) - 1
<1>1. before[x] \subseteq S /\ x \notin before[x] /\ IsFiniteSet(S)
  BY DEF Before
<1>2. IsFiniteSet(before[x])
  BY <1>1, FS_Subset
<1>3. /\ Cardinality(before[x]) <= Cardinality(S)
      /\ Cardinality(before[x]) = Cardinality(S) => S = before[x]
  BY <1>1, <1>2, FS_Subset
<1>4. Cardinality(before[x]) \in Nat /\ Cardinality(S) \in Nat
  BY <1>1, <1>2, FS_CardinalityType
<1> QED
  BY <1>1, <1>3, <1>4

\* InOrder lists every element of the set once.
LEMMA InOrderLists ==
  ASSUME NEW S, NEW before, Before(S, before)
  PROVE  /\ Cardinality(S) \in Nat
         /\ InOrder(S, before) \in [1 .. Cardinality(S) -> S]
         /\ \A i, j \in 1 .. Cardinality(S) :
              InOrder(S, before)[i] = InOrder(S, before)[j] => i = j
         /\ \A x \in S : \E i \in 1 .. Cardinality(S) : InOrder(S, before)[i] = x
<1> DEFINE N == Cardinality(S)
           place == [x \in S |-> Cardinality(before[x])]
<1>1. IsFiniteSet(S) /\ N \in Nat
  BY FS_CardinalityType DEF Before
<1>2. place \in [S -> 0 .. N - 1]
  BY PlaceInRange
<1>3. \A x, y \in S : place[x] = place[y] => x = y
  <2> SUFFICES ASSUME NEW x \in S, NEW y \in S, x # y PROVE place[x] # place[y]
    OBVIOUS
  <2>1. x \in before[y] \/ y \in before[x]
    BY DEF Before
  <2>2. place[x] < place[y] \/ place[y] < place[x]
    BY <2>1, PlacesDiffer
  <2>3. place[x] \in Int /\ place[y] \in Int
    BY <1>1, <1>2
  <2> QED
    BY <2>2, <2>3
<1> HIDE DEF place
<1>4. IsFiniteSet(0 .. N - 1) /\ Cardinality(0 .. N - 1) = N
  BY <1>1, FromZero
<1>5. place \in Injection(S, 0 .. N - 1)
  BY <1>2, <1>3 DEF Injection, IsInjective
<1>6. place \in Surjection(S, 0 .. N - 1)
  BY <1>4, <1>5, FS_Injection
<1>7. \A k \in 1 .. N : k - 1 \in 0 .. N - 1
  BY <1>1
<1>8. \A k \in 1 .. N : \E x \in S : place[x] = k - 1
  BY <1>6, <1>7 DEF Surjection
<1> DEFINE order == InOrder(S, before)
<1>9. order = [k \in 1 .. N |-> CHOOSE x \in S : Cardinality(before[x]) = k - 1]
  BY DEF InOrder
<1>10. \A k \in 1 .. N : order[k] \in S /\ place[order[k]] = k - 1
  <2> SUFFICES ASSUME NEW k \in 1 .. N PROVE order[k] \in S /\ place[order[k]] = k - 1
    OBVIOUS
  <2>1. PICK x \in S : place[x] = k - 1
    BY <1>8
  <2>2. Cardinality(before[x]) = k - 1
    BY <2>1 DEF place
  <2>3. order[k] \in S /\ Cardinality(before[order[k]]) = k - 1
    BY <1>9, <2>2
  <2> QED
    BY <2>3 DEF place
<1>11. order \in [1 .. N -> S]
  BY <1>9, <1>10
<1>12. \A i, j \in 1 .. N : order[i] = order[j] => i = j
  <2> SUFFICES ASSUME NEW i \in 1 .. N, NEW j \in 1 .. N, order[i] = order[j] PROVE i = j
    OBVIOUS
  <2>1. i - 1 = j - 1
    BY <1>10
  <2> QED
    BY <1>1, <2>1
<1>13. \A x \in S : \E i \in 1 .. N : order[i] = x
  <2> SUFFICES ASSUME NEW x \in S PROVE \E i \in 1 .. N : order[i] = x
    OBVIOUS
  <2>1. place[x] \in 0 .. N - 1
    BY <1>2
  <2>2. place[x] + 1 \in 1 .. N /\ (place[x] + 1) - 1 = place[x]
    BY <1>1, <2>1
  <2>3. place[order[place[x] + 1]] = place[x] /\ order[place[x] + 1] \in S
    BY <1>10, <2>2
  <2> QED
    BY <1>3, <2>2, <2>3
<1> QED
  BY <1>1, <1>11, <1>12, <1>13

LEMMA SmallerBefore ==
  ASSUME NEW S, IsFiniteSet(S), S \subseteq Nat
  PROVE  Before(S, Smaller(S))
<1> DEFINE before == Smaller(S)
<1>1. before = [x \in S |-> {y \in S : y < x}]
  BY DEF Smaller
<1>2. \A x \in S : \A y : y \in before[x] <=> y \in S /\ y < x
  BY <1>1
<1> HIDE DEF before
<1>3. \A x, y \in S : x < y => \A z \in S : z < x => z < y
  OBVIOUS
<1>4. \A x, y \in S : x # y => x < y \/ y < x
  OBVIOUS
<1>5. \A x \in S : ~(x < x)
  OBVIOUS
<1>6. Before(S, before)
  BY <1>2, <1>3, <1>4, <1>5 DEF Before
<1> QED
  BY <1>6 DEF before

(***************************************************************************)
(* The walkable network.  Component counts to the number of paths; by then *)
(* nothing is added any more, as every round before added a path.          *)
(***************************************************************************)
Around(s) == {q \in Paths : \E r \in s : q = r \/ {q, r} \in world.links}

Rounds(p, f, n) == f = [k \in 0 .. n |-> IF k = 0 THEN {p} ELSE Around(f[k - 1])]

LEMMA ComponentIsRounds ==
  ASSUME NEW p, \E f : Rounds(p, f, Cardinality(Paths))
  PROVE  \E f : Rounds(p, f, Cardinality(Paths)) /\ Component(p) = f[Cardinality(Paths)]
BY DEF Component, Rounds, Around

LEMMA RoundsExist ==
  ASSUME NEW p, NEW n \in Nat
  PROVE  \E f : Rounds(p, f, n)
<1> DEFINE S == {k \in Nat : ~ \E f : Rounds(p, f, k)}
<1> SUFFICES ASSUME S # {} PROVE FALSE
  OBVIOUS
<1>0. S \subseteq Nat
  OBVIOUS
<1> HIDE DEF S
<1>1. PICK k \in S : \A m \in S : k <= m
  BY <1>0, LeastNumber
<1>2. CASE k = 0
  <2>1. Rounds(p, [i \in 0 .. 0 |-> {p}], 0)
    BY DEF Rounds
  <2> QED
    BY <2>1, <1>2 DEF S
<1>3. CASE k # 0
  <2>1. k - 1 \in Nat /\ k - 1 \notin S /\ k \in Nat
    BY <1>0, <1>1, <1>3
  <2>2. PICK f : Rounds(p, f, k - 1)
    BY <2>1 DEF S
  <2> DEFINE g == [i \in 0 .. k |-> IF i = k THEN Around(f[k - 1]) ELSE f[i]]
             h == [i \in 0 .. k |-> IF i = 0 THEN {p} ELSE Around(g[i - 1])]
  <2>3. \A i \in 0 .. k - 1 : f[i] = IF i = 0 THEN {p} ELSE Around(f[i - 1])
    BY <2>2 DEF Rounds
  <2>4. ASSUME NEW i \in 0 .. k PROVE g[i] = h[i]
    <3>1. CASE i = k
      <4>1. k - 1 \in 0 .. k /\ k - 1 # k
        BY <2>1
      <4>2. g[i - 1] = f[k - 1]
        BY <3>1, <4>1
      <4> QED
        BY <3>1, <4>2, <1>3
    <3>2. CASE i # k
      <4>1. i \in 0 .. k - 1
        BY <3>2, <2>1
      <4>2. CASE i = 0
        BY <4>1, <4>2, <2>3, <3>2
      <4>3. CASE i # 0
        <5>1. i - 1 \in 0 .. k /\ i - 1 # k
          BY <4>1, <4>3, <2>1
        <5>2. g[i - 1] = f[i - 1] /\ g[i] = f[i]
          BY <5>1, <3>2
        <5> QED
          BY <5>2, <4>1, <4>3, <2>3
      <4> QED
        BY <4>2, <4>3
    <3> QED
      BY <3>1, <3>2
  <2>5. g = h
    BY <2>4
  <2>6. Rounds(p, g, k)
    BY <2>5 DEF Rounds
  <2> QED
    BY <2>6 DEF S
<1> QED
  BY <1>2, <1>3

\* Nothing links a component to the rest, and no smaller set around p is so.
Closed(c) == c \subseteq Paths /\ Around(c) = c

LEMMA AroundGrows ==
  ASSUME NEW s, s \subseteq Paths
  PROVE  s \subseteq Around(s) /\ Around(s) \subseteq Paths
BY DEF Around

LEMMA AroundMonotone ==
  ASSUME NEW s, NEW t, s \subseteq t
  PROVE  Around(s) \subseteq Around(t)
BY DEF Around

LEMMA RoundsStep ==
  ASSUME NEW p, NEW f, NEW n \in Nat, Rounds(p, f, n)
  PROVE  /\ f[0] = {p}
         /\ \A k \in 1 .. n : k - 1 \in 0 .. n /\ f[k] = Around(f[k - 1])
<1>1. \A k \in 0 .. n : f[k] = IF k = 0 THEN {p} ELSE Around(f[k - 1])
  BY DEF Rounds
<1>2. 0 \in 0 .. n /\ \A k \in 1 .. n : k \in 0 .. n /\ k # 0 /\ k - 1 \in 0 .. n
  OBVIOUS
<1> QED
  BY <1>1, <1>2

LEMMA RoundsStay ==
  ASSUME NEW p \in Paths, NEW f, NEW n \in Nat, Rounds(p, f, n),
         NEW c, Closed(c), p \in c
  PROVE  \A k \in 0 .. n : f[k] \subseteq c
<1> DEFINE S == {k \in 0 .. n : ~(f[k] \subseteq c)}
<1> SUFFICES ASSUME S # {} PROVE FALSE
  OBVIOUS
<1>0. S \subseteq Nat /\ S \subseteq 0 .. n
  OBVIOUS
<1>1. PICK k \in S : \A m \in S : k <= m
  <2> HIDE DEF S
  <2> QED
    BY <1>0, LeastNumber
<1>2. k # 0
  BY RoundsStep
<1>3. k \in 1 .. n /\ k - 1 \in 0 .. n /\ k - 1 \notin S
  BY <1>0, <1>1, <1>2
<1>4. f[k - 1] \subseteq c
  BY <1>3
<1>5. f[k] = Around(f[k - 1])
  BY <1>3, RoundsStep
<1>6. f[k] \subseteq Around(c)
  BY <1>4, <1>5, AroundMonotone
<1> QED
  BY <1>6 DEF Closed

LEMMA RoundsInPaths ==
  ASSUME NEW p \in Paths, NEW f, NEW n \in Nat, Rounds(p, f, n)
  PROVE  \A k \in 0 .. n : f[k] \subseteq Paths /\ p \in f[k]
<1>1. Closed(Paths)
  BY AroundGrows DEF Closed
<1>2. \A k \in 0 .. n : f[k] \subseteq Paths
  BY <1>1, RoundsStay
<1> DEFINE S == {k \in 0 .. n : p \notin f[k]}
<1> SUFFICES ASSUME S # {} PROVE FALSE
  BY <1>2
<1>0. S \subseteq Nat /\ S \subseteq 0 .. n
  OBVIOUS
<1>3. PICK k \in S : \A m \in S : k <= m
  <2> HIDE DEF S
  <2> QED
    BY <1>0, LeastNumber
<1>4. k # 0
  BY RoundsStep
<1>5. k \in 1 .. n /\ k - 1 \in 0 .. n /\ k - 1 \notin S
  BY <1>0, <1>3, <1>4
<1>6. f[k] = Around(f[k - 1])
  BY <1>5, RoundsStep
<1>7. f[k - 1] \subseteq Around(f[k - 1])
  BY <1>2, <1>5, AroundGrows
<1> QED
  BY <1>5, <1>6, <1>7

\* A round that is not closed leads to one with more paths.
LEMMA RoundsGrow ==
  ASSUME NEW p \in Paths, NEW f, NEW n \in Nat, Rounds(p, f, n), IsFiniteSet(Paths),
         \A k \in 0 .. n : ~ Closed(f[k])
  PROVE  \A k \in 0 .. n : Cardinality(f[k]) > k
<1>a. \A k \in 0 .. n : /\ f[k] \subseteq Paths
                        /\ p \in f[k]
                        /\ IsFiniteSet(f[k])
                        /\ Cardinality(f[k]) \in Nat
  BY RoundsInPaths, FS_Subset, FS_CardinalityType
<1> DEFINE S == {k \in 0 .. n : ~(Cardinality(f[k]) > k)}
<1> SUFFICES ASSUME S # {} PROVE FALSE
  OBVIOUS
<1>0. S \subseteq Nat /\ S \subseteq 0 .. n
  OBVIOUS
<1>1. PICK k \in S : \A m \in S : k <= m
  <2> HIDE DEF S
  <2> QED
    BY <1>0, LeastNumber
<1>2. k # 0
  <2>1. f[0] = {p}
    BY RoundsStep
  <2>2. Cardinality(f[0]) = 1
    BY <2>1, FS_Singleton
  <2> QED
    BY <2>2
<1>3. k \in 1 .. n /\ k - 1 \in 0 .. n /\ k - 1 \notin S
  BY <1>0, <1>1, <1>2
<1>4. Cardinality(f[k - 1]) > k - 1
  BY <1>3
<1>5. f[k] = Around(f[k - 1])
  BY <1>3, RoundsStep
<1>6. f[k - 1] \subseteq f[k] /\ f[k - 1] # f[k]
  BY <1>a, <1>3, <1>5, AroundGrows DEF Closed
<1>7. /\ Cardinality(f[k - 1]) <= Cardinality(f[k])
      /\ Cardinality(f[k - 1]) # Cardinality(f[k])
  BY <1>a, <1>3, <1>6, FS_Subset
<1>8. Cardinality(f[k]) > k
  BY <1>a, <1>3, <1>4, <1>7
<1> QED
  BY <1>8

LEMMA ComponentClosed ==
  ASSUME PreparationAssumption, NEW p \in Paths
  PROVE  /\ Closed(Component(p)) /\ p \in Component(p)
         /\ \A c : Closed(c) /\ p \in c => Component(p) \subseteq c
<1> DEFINE n == Cardinality(Paths)
<1>1. IsFiniteSet(Paths) /\ n \in Nat /\ n \in 0 .. n
  BY FS_CardinalityType DEF PreparationAssumption
<1>2. PICK f : Rounds(p, f, n) /\ Component(p) = f[n]
  BY <1>1, RoundsExist, ComponentIsRounds
<1>3. p \in f[n] /\ f[n] \subseteq Paths
  BY <1>1, <1>2, RoundsInPaths
<1>4. \A c : Closed(c) /\ p \in c => f[n] \subseteq c
  BY <1>1, <1>2, RoundsStay
<1>5. PICK k \in 0 .. n : Closed(f[k])
  <2> SUFFICES ASSUME \A k \in 0 .. n : ~ Closed(f[k]) PROVE FALSE
    OBVIOUS
  <2>1. Cardinality(f[n]) > n
    BY <1>1, <1>2, RoundsGrow
  <2>2. Cardinality(f[n]) <= n /\ Cardinality(f[n]) \in Nat
    BY <1>1, <1>3, FS_Subset, FS_CardinalityType
  <2> QED
    BY <2>1, <2>2, <1>1
<1> DEFINE S == {j \in k .. n : f[j] # f[k]}
<1>6. f[n] = f[k]
  <2> SUFFICES ASSUME S # {} PROVE FALSE
    BY <1>1
  <2>0. S \subseteq Nat /\ S \subseteq 0 .. n
    OBVIOUS
  <2>1. PICK j \in S : \A m \in S : j <= m
    <3> HIDE DEF S
    <3> QED
      BY <2>0, LeastNumber
  <2>2. j # k
    OBVIOUS
  <2>3. j \in 1 .. n /\ j - 1 \in k .. n /\ j - 1 \notin S
    <3>1. j \in k .. n /\ k \in Nat /\ n \in Nat
      BY <1>1
    <3>2. j \in 1 .. n /\ j - 1 \in k .. n /\ j - 1 \in Nat /\ j - 1 < j
      BY <3>1, <2>2
    <3>3. j - 1 \notin S
      BY <3>2, <2>1
    <3> QED
      BY <3>2, <3>3
  <2>4. f[j - 1] = f[k]
    BY <2>3
  <2>5. f[j] = Around(f[j - 1])
    BY <1>1, <1>2, <2>3, RoundsStep
  <2> QED
    BY <1>5, <2>4, <2>5 DEF Closed
<1> QED
  BY <1>2, <1>3, <1>4, <1>5, <1>6

Classes(of) ==
  /\ of \in [Paths -> SUBSET Paths]
  /\ \A p \in Paths : p \in of[p]
  /\ \A p \in Paths : \A q \in of[p] : of[q] = of[p]

\* The components are classes (_pedestrian_component_sizes): a path's component is that of
\* its members, so two places share one or have none in common.
THEOREM ComponentsAreClasses ==
  ASSUME PreparationAssumption
  PROVE  Classes([p \in Paths |-> Component(p)])
<1>1. \A p \in Paths : /\ Closed(Component(p)) /\ p \in Component(p)
                       /\ \A c : Closed(c) /\ p \in c => Component(p) \subseteq c
  BY ComponentClosed
<1>2. \A p \in Paths : Component(p) \subseteq Paths
  BY <1>1 DEF Closed
<1>3. ASSUME NEW p \in Paths, NEW q \in Component(p) PROVE Component(q) = Component(p)
  <2>1. q \in Paths
    BY <1>2
  <2>2. Component(q) \subseteq Component(p)
    BY <1>1, <2>1
  <2>3. p \in Component(q)
    <3> SUFFICES ASSUME p \notin Component(q) PROVE FALSE
      OBVIOUS
    <3> DEFINE c == Component(p) \ Component(q)
    <3>1. Closed(c)
      <4>1. c \subseteq Paths
        BY <1>2
      <4>2. ASSUME NEW x \in Around(c) PROVE x \in c
        <5>1. PICK y \in c : x \in Paths /\ (x = y \/ {x, y} \in world.links)
          BY DEF Around
        <5>2. x \in Component(p)
          <6>1. x \in Around(Component(p))
            BY <5>1 DEF Around
          <6> QED
            BY <6>1, <1>1 DEF Closed
        <5>3. x \notin Component(q)
          <6> SUFFICES ASSUME x \in Component(q) PROVE FALSE
            OBVIOUS
          <6>1. y \in Paths /\ {y, x} = {x, y}
            BY <4>1, <5>1
          <6>2. y = x \/ {y, x} \in world.links
            BY <5>1, <6>1
          <6>3. y \in Around(Component(q))
            BY <6>1, <6>2 DEF Around
          <6> QED
            BY <6>3, <1>1, <2>1, <5>1 DEF Closed
        <5> QED
          BY <5>2, <5>3
      <4> QED
        BY <4>1, <4>2, AroundGrows DEF Closed
    <3>2. p \in c
      BY <1>1
    <3>3. Component(p) \subseteq c
      <4> HIDE DEF c
      <4> QED
        BY <1>1, <3>1, <3>2
    <3>4. q \in Component(q)
      BY <1>1, <2>1
    <3> QED
      BY <3>3, <3>4
  <2>4. Component(p) \subseteq Component(q)
    BY <1>1, <2>1, <2>3
  <2> QED
    BY <2>2, <2>4
<1> DEFINE of == [p \in Paths |-> Component(p)]
<1>4. \A p \in Paths : of[p] = Component(p)
  OBVIOUS
<1>5. of \in [Paths -> SUBSET Paths]
  BY <1>2
<1> HIDE DEF of
<1>6. \A p \in Paths : p \in of[p]
  BY <1>1, <1>4
<1>7. ASSUME NEW p \in Paths, NEW q \in of[p] PROVE of[q] = of[p]
  <2>1. q \in Component(p) /\ q \in Paths
    BY <1>2, <1>4
  <2> QED
    BY <1>3, <1>4, <2>1
<1> QED
  BY <1>5, <1>6, <1>7 DEF Classes, of

(***************************************************************************)
(* Access on foot, as a function of the map and its components.            *)
(***************************************************************************)
BetterOf(w, of, place, p, q) ==
  LET sizeP == Cardinality(of[p])
      sizeQ == Cardinality(of[q])
      near  == w.near[place]
  IN  \/ sizeP > sizeQ
      \/ sizeP = sizeQ /\ near[p] < near[q]
      \/ sizeP = sizeQ /\ near[p] = near[q] /\ p < q

SnapOf(w, of, place) ==
  CHOOSE p \in DOMAIN w.near[place] :
    \A q \in (DOMAIN w.near[place]) \ {p} : BetterOf(w, of, place, p, q)

LEMMA SnapIsSnapOf ==
  ASSUME NEW place
  PROVE  Snap(place) = SnapOf(world, islands, place)
BY DEF Snap, SnapOf, Candidates, Better, BetterOf

\* A place with an edge in reach is attached to one of them, and to none of a
\* smaller component than another.
LEMMA SnapBest ==
  ASSUME PreparationAssumption, NEW w, MapType(w), NEW of, Classes(of),
         NEW place \in Places, DOMAIN w.near[place] # {}
  PROVE  /\ SnapOf(w, of, place) \in DOMAIN w.near[place]
         /\ SnapOf(w, of, place) \in Paths
         /\ \A q \in DOMAIN w.near[place] :
              Cardinality(of[q]) <= Cardinality(of[SnapOf(w, of, place)])
<1> DEFINE C    == DOMAIN w.near[place]
           near == w.near[place]
           N    == Cardinality(Paths)
<1>1. C \subseteq Paths /\ C # {} /\ \A p \in C : near[p] \in Nat
  BY DEF MapType
<1>2. IsFiniteSet(Paths) /\ Paths \subseteq Nat /\ N \in Nat
  BY FS_CardinalityType DEF PreparationAssumption
<1>3. \A p \in Paths : Cardinality(of[p]) \in Nat /\ Cardinality(of[p]) <= N
  BY <1>2, FS_Subset, FS_CardinalityType DEF Classes
<1> DEFINE less == [p \in C |-> N - Cardinality(of[p])]
<1>4. ASSUME NEW p \in C
      PROVE  /\ less[p] = N - Cardinality(of[p]) /\ less[p] \in Nat
             /\ Cardinality(of[p]) \in Nat
  <2>1. Cardinality(of[p]) \in Nat /\ Cardinality(of[p]) <= N
    BY <1>1, <1>3
  <2>2. less[p] = N - Cardinality(of[p])
    OBVIOUS
  <2> HIDE DEF less, N
  <2> QED
    BY <1>2, <2>1, <2>2
<1>5. PICK p1 \in C : \A q \in C : less[p1] <= less[q]
  <2> HIDE DEF less, C
  <2> QED
    BY <1>1, <1>4, LeastBy
<1>6. \A q \in C : Cardinality(of[q]) <= Cardinality(of[p1])
  <2> HIDE DEF less, C, N
  <2> QED
    BY <1>2, <1>4, <1>5
<1> DEFINE C1 == {p \in C : Cardinality(of[p]) = Cardinality(of[p1])}
<1>7. PICK p2 \in C1 : \A q \in C1 : near[p2] <= near[q]
  <2>1. C1 # {} /\ \A p \in C1 : near[p] \in Nat
    BY <1>1
  <2> HIDE DEF C1
  <2> QED
    BY <2>1, LeastBy
<1> DEFINE C2 == {p \in C1 : near[p] = near[p2]}
<1>8. PICK p3 \in C2 : \A q \in C2 : p3 <= q
  <2>1. C2 # {} /\ C2 \subseteq Nat
    BY <1>1, <1>2
  <2> HIDE DEF C2
  <2> QED
    BY <2>1, LeastNumber
<1>9. p3 \in C
  OBVIOUS
<1>10. \A q \in C \ {p3} : BetterOf(w, of, place, p3, q)
  <2> SUFFICES ASSUME NEW q \in C, q # p3 PROVE BetterOf(w, of, place, p3, q)
    OBVIOUS
  <2>1. /\ Cardinality(of[q]) \in Nat /\ Cardinality(of[p3]) \in Nat
        /\ near[q] \in Nat /\ near[p3] \in Nat /\ q \in Nat /\ p3 \in Nat
    BY <1>1, <1>2, <1>3, <1>9
  <2>2. Cardinality(of[q]) <= Cardinality(of[p3])
    BY <1>6
  <2>3. Cardinality(of[q]) = Cardinality(of[p3]) => near[p3] <= near[q]
    BY <1>7
  <2>4. Cardinality(of[q]) = Cardinality(of[p3]) /\ near[q] = near[p3] => p3 <= q
    BY <1>7, <1>8
  <2> QED
    BY <2>1, <2>2, <2>3, <2>4 DEF BetterOf
<1> DEFINE s == SnapOf(w, of, place)
<1>11. s \in C /\ \A q \in C \ {s} : BetterOf(w, of, place, s, q)
  BY <1>9, <1>10 DEF SnapOf
<1>12. ASSUME NEW q \in C PROVE Cardinality(of[q]) <= Cardinality(of[s])
  <2>1. Cardinality(of[q]) \in Nat /\ Cardinality(of[s]) \in Nat
    BY <1>1, <1>3, <1>11
  <2>2. CASE q = s
    BY <2>1, <2>2
  <2>3. CASE q # s
    <3>1. BetterOf(w, of, place, s, q)
      BY <1>11, <2>3
    <3> QED
      BY <2>1, <3>1 DEF BetterOf
  <2> QED
    BY <2>2, <2>3
<1> QED
  BY <1>1, <1>11, <1>12

(***************************************************************************)
(* Totals: sums over a finite set.                                         *)
(***************************************************************************)
\* The total of an even split is what was split, and no share differs from another
\* by more than one (_vehicle_origin_allocation_snapshot).
THEOREM EvenTotal ==
  ASSUME NEW n \in Nat, NEW k \in Nat \ {0}
  PROVE  /\ Even(n, k) \in [1 .. k -> Nat]
         /\ Total(Even(n, k)) = n
         /\ \A i \in 1 .. k : Even(n, k)[i] \in {n \div k, (n \div k) + 1}
<1> DEFINE g == Even(n, k)
           q == n \div k
           m == n % k
           D == 1 .. k
<1>1. q \in Nat /\ m \in 0 .. k - 1 /\ n = k * q + m
  OBVIOUS
<1>2. g = [i \in D |-> q + IF i <= m THEN 1 ELSE 0]
  BY DEF Even
<1> HIDE DEF q, m, g
<1>3. /\ DOMAIN g = D
      /\ \A i \in D : g[i] = IF i <= m THEN q + 1 ELSE q
  BY <1>1, <1>2
<1>4. g \in [D -> Nat] /\ \A i \in D : g[i] \in {q, q + 1}
  BY <1>1, <1>2
<1>5. IsFiniteSet(D) /\ Cardinality(D) = k
  BY FS_Interval
<1>6. PICK f : Adding(g, f) /\ Total(g) = f[D]
  BY <1>3, <1>4, <1>5, SumAdds DEF Total
<1> DEFINE M == 1 .. m
           Fit(s) == f[s] = Cardinality(s) * q + Cardinality(s \cap M)
           F == {s \in SUBSET D : ~ Fit(s)}
<1>7. \A s \in SUBSET D : /\ IsFiniteSet(s) /\ Cardinality(s) \in Nat
                          /\ IsFiniteSet(s \cap M) /\ Cardinality(s \cap M) \in Nat
  BY <1>5, FS_Subset, FS_CardinalityType
<1>8. F = {}
  <2> SUFFICES ASSUME F # {} PROVE FALSE
    OBVIOUS
  <2>1. PICK s \in F : \A t \in F : t \subseteq s => t = s
    <3>1. F \subseteq SUBSET D
      OBVIOUS
    <3> HIDE DEF F, D
    <3> QED
      BY <3>1, <1>5, SmallestSubset
  <2>2. s # {}
    <3>1. Cardinality({}) = 0 /\ {} \cap M = {}
      BY FS_EmptySet
    <3>2. f[{}] = 0
      BY <1>6 DEF Adding
    <3>3. Fit({})
      BY <3>1, <3>2, <1>1
    <3> QED
      BY <3>3
  <2>3. s \in SUBSET D
    OBVIOUS
  <2>4. PICK x \in s : f[s] = g[x] + f[s \ {x}]
    BY <2>2, <2>3, <1>3, <1>6 DEF Adding
  <2> DEFINE t == s \ {x}
  <2>5. t \in SUBSET D /\ t \notin F
    BY <2>1
  <2>6. f[t] = Cardinality(t) * q + Cardinality(t \cap M)
    BY <2>5
  <2>7. Cardinality(t) = Cardinality(s) - 1
    BY <2>3, <1>7, FS_RemoveElement
  <2>8. t \cap M = (s \cap M) \ {x}
    OBVIOUS
  <2>9. Cardinality((s \cap M) \ {x})
          = IF x \in s \cap M THEN Cardinality(s \cap M) - 1 ELSE Cardinality(s \cap M)
    BY <2>3, <1>7, FS_RemoveElement
  <2>10. x \in D /\ (x \in s \cap M <=> x <= m)
    BY <2>3, <1>1
  <2>11. g[x] = q + (Cardinality(s \cap M) - Cardinality(t \cap M))
    <3>1. Cardinality(s \cap M) \in Nat
      BY <2>3, <1>7
    <3> DEFINE c == Cardinality(s \cap M)
               d == Cardinality(t \cap M)
    <3>2. d = IF x <= m THEN c - 1 ELSE c
      BY <2>8, <2>9, <2>10
    <3>3. g[x] = IF x <= m THEN q + 1 ELSE q
      BY <2>10, <1>3
    <3> HIDE DEF c, d
    <3>4. c \in Nat
      BY <3>1 DEF c
    <3>5. g[x] = q + (c - d)
      BY <3>2, <3>3, <3>4, <1>1
    <3> QED
      BY <3>5 DEF c, d
  <2>12. Fit(s)
    <3> DEFINE c == Cardinality(s \cap M)
               d == Cardinality(t \cap M)
               a == Cardinality(s)
               b == Cardinality(t)
    <3>1. c \in Nat /\ a \in Nat /\ d \in Nat /\ b \in Nat /\ b = a - 1
      BY <2>3, <2>5, <2>7, <1>7
    <3>2. f[s] = (q + (c - d)) + (b * q + d)
      BY <2>4, <2>6, <2>11
    <3> HIDE DEF a, b, c, d
    <3>3. (q + (c - d)) + (b * q + d) = a * q + c
      BY <3>1, <1>1
    <3>4. f[s] = a * q + c
      BY <3>2, <3>3
    <3> QED
      BY <3>4 DEF a, c
  <2> QED
    BY <2>12
<1>9. f[D] = k * q + m
  <2>1. Fit(D)
    BY <1>8
  <2>2. D \cap M = M
    BY <1>1
  <2>3. Cardinality(M) = m
    BY <1>1, FS_Interval
  <2> QED
    BY <2>1, <2>2, <2>3, <1>5
<1> QED
  BY <1>1, <1>4, <1>6, <1>9 DEF g, q

\* A total of counts is the number of pairs of an index and a number up to
\* its count; none of the counts exceeds it.
Pairs(g, s, v) == {p \in s \X (1 .. v) : p[2] <= g[p[1]]}

LEMMA TotalBounds ==
  ASSUME NEW g, IsFiniteSet(DOMAIN g), \A i \in DOMAIN g : g[i] \in Nat
  PROVE  Total(g) \in Nat /\ \A i \in DOMAIN g : g[i] <= Total(g)
<1> DEFINE D == DOMAIN g
<1>1. PICK f : Adding(g, f) /\ Total(g) = f[D]
  BY SumAdds DEF Total
<1> DEFINE F == {s \in SUBSET D : ~ (f[s] \in Nat /\ \A i \in s : g[i] <= f[s])}
<1>2. F = {}
  <2> SUFFICES ASSUME F # {} PROVE FALSE
    OBVIOUS
  <2>1. PICK s \in F : \A t \in F : t \subseteq s => t = s
    <3>1. F \subseteq SUBSET D
      OBVIOUS
    <3> HIDE DEF F, D
    <3> QED
      BY <3>1, SmallestSubset DEF D
  <2>2. s # {}
    <3>1. f[{}] = 0
      BY <1>1 DEF Adding
    <3>2. {} \notin F
      BY <3>1
    <3> HIDE DEF F
    <3> QED
      BY <3>2
  <2>3. s \in SUBSET D
    OBVIOUS
  <2>4. PICK x \in s : f[s] = g[x] + f[s \ {x}]
    BY <2>2, <2>3, <1>1 DEF Adding
  <2>5. s \ {x} \in SUBSET D /\ s \ {x} \notin F
    BY <2>1
  <2>6. f[s \ {x}] \in Nat /\ \A i \in s \ {x} : g[i] <= f[s \ {x}]
    BY <2>5
  <2>7. \A i \in s : g[i] \in Nat
    BY <2>3
  <2> DEFINE r == f[s \ {x}]
  <2>8. f[s] = g[x] + r /\ r \in Nat /\ \A i \in s : i = x \/ g[i] <= r
    BY <2>4, <2>6
  <2> HIDE DEF r
  <2>9. f[s] \in Nat /\ \A i \in s : g[i] <= f[s]
    BY <2>7, <2>8
  <2> QED
    BY <2>9
<1> QED
  BY <1>1, <1>2

LEMMA PairsCounted ==
  ASSUME NEW g, IsFiniteSet(DOMAIN g), NEW v \in Nat,
         \A i \in DOMAIN g : g[i] \in 0 .. v
  PROVE  /\ IsFiniteSet(Pairs(g, DOMAIN g, v))
         /\ Cardinality(Pairs(g, DOMAIN g, v)) = Total(g)
         /\ \A i \in DOMAIN g : Cardinality(Pairs(g, {i}, v)) = g[i]
<1> DEFINE D == DOMAIN g
<1>1. PICK f : Adding(g, f) /\ Total(g) = f[D]
  BY SumAdds DEF Total
<1>2. ASSUME NEW i \in D
      PROVE  IsFiniteSet(Pairs(g, {i}, v)) /\ Cardinality(Pairs(g, {i}, v)) = g[i]
  <2> DEFINE c == g[i]
             b == [m \in 1 .. c |-> <<i, m>>]
  <2>1. c \in Nat /\ c <= v
    OBVIOUS
  <2>2. \A p \in Pairs(g, {i}, v) : p = <<i, p[2]>> /\ p[2] \in 1 .. c
    BY DEF Pairs
  <2>3. \A m \in 1 .. c : <<i, m>> \in Pairs(g, {i}, v)
    BY <2>1 DEF Pairs
  <2>4. b \in [1 .. c -> Pairs(g, {i}, v)]
    BY <2>3
  <2>5. \A m, o \in 1 .. c : b[m] = b[o] => m = o
    OBVIOUS
  <2>6. \A p \in Pairs(g, {i}, v) : \E m \in 1 .. c : b[m] = p
    BY <2>2
  <2> HIDE DEF b, c
  <2>7. b \in Bijection(1 .. c, Pairs(g, {i}, v))
    BY <2>4, <2>5, <2>6 DEF Bijection, Injection, Surjection, IsInjective
  <2>8. ExistsBijection(1 .. c, Pairs(g, {i}, v))
    BY <2>7 DEF ExistsBijection
  <2> QED
    BY <2>1, <2>8, FS_NatBijection, FS_CountingElements DEF c
<1> DEFINE Fit(s) == /\ IsFiniteSet(Pairs(g, s, v))
                     /\ Cardinality(Pairs(g, s, v)) = f[s]
           F == {s \in SUBSET D : ~ Fit(s)}
<1>3. F = {}
  <2> SUFFICES ASSUME F # {} PROVE FALSE
    OBVIOUS
  <2>1. PICK s \in F : \A t \in F : t \subseteq s => t = s
    <3>1. F \subseteq SUBSET D
      OBVIOUS
    <3> HIDE DEF F, D
    <3> QED
      BY <3>1, SmallestSubset DEF D
  <2>2. s # {}
    <3>1. Pairs(g, {}, v) = {}
      BY DEF Pairs
    <3>2. f[{}] = 0
      BY <1>1 DEF Adding
    <3>3. Fit({})
      BY <3>1, <3>2, FS_EmptySet
    <3> QED
      BY <3>3
  <2>3. s \in SUBSET D
    OBVIOUS
  <2>4. PICK x \in s : f[s] = g[x] + f[s \ {x}]
    BY <2>2, <2>3, <1>1 DEF Adding
  <2> DEFINE t == s \ {x}
             P == Pairs(g, s, v)
             Q == Pairs(g, t, v)
             R == Pairs(g, {x}, v)
  <2>5. t \in SUBSET D /\ t \notin F
    BY <2>1
  <2>6. IsFiniteSet(Q) /\ Cardinality(Q) = f[t]
    BY <2>5
  <2>7. IsFiniteSet(R) /\ Cardinality(R) = g[x]
    BY <1>2, <2>3
  <2>8. P = Q \cup R /\ Q \cap R = {}
    BY DEF Pairs
  <2> HIDE DEF P, Q, R
  <2>9. IsFiniteSet(P) /\ Cardinality(P) = Cardinality(Q) + Cardinality(R) - Cardinality({})
    BY <2>6, <2>7, <2>8, FS_Union
  <2>10. Cardinality({}) = 0 /\ Cardinality(Q) \in Nat /\ Cardinality(R) \in Nat
    BY <2>6, <2>7, FS_EmptySet, FS_CardinalityType
  <2>11. Cardinality(P) = f[s]
    <3> DEFINE a == Cardinality(Q)
               b == Cardinality(R)
    <3>1. Cardinality(P) = a + b - 0 /\ a \in Nat /\ b \in Nat /\ f[s] = b + a
      BY <2>4, <2>6, <2>7, <2>9, <2>10
    <3> HIDE DEF a, b
    <3> QED
      BY <3>1
  <2>12. Fit(s)
    BY <2>9, <2>11 DEF P
  <2> QED
    BY <2>12
<1> QED
  BY <1>1, <1>2, <1>3

(***************************************************************************)
(* The entry points that are found when none is saved.                     *)
(***************************************************************************)
Flattens(seqs, f, n) ==
  f = [i \in 1 .. n |-> IF i = 1 THEN seqs[i] ELSE f[i - 1] \o seqs[i]]

LEMMA FlattenSeqFlattens ==
  ASSUME NEW seqs, Len(seqs) # 0, \E f : Flattens(seqs, f, Len(seqs))
  PROVE  \E f : Flattens(seqs, f, Len(seqs)) /\ FlattenSeq(seqs) = f[Len(seqs)]
BY DEF FlattenSeq, Flattens

LEMMA FlattensExist ==
  ASSUME NEW seqs, NEW n \in Nat
  PROVE  \E f : Flattens(seqs, f, n)
<1> DEFINE S == {k \in Nat : ~ \E f : Flattens(seqs, f, k)}
<1> SUFFICES ASSUME S # {} PROVE FALSE
  OBVIOUS
<1>0. S \subseteq Nat
  OBVIOUS
<1>1. PICK k \in S : \A m \in S : k <= m
  <2> HIDE DEF S
  <2> QED
    BY <1>0, LeastNumber
<1>2. CASE k = 0
  <2> DEFINE f == [i \in 1 .. 0 |-> 0]
             h == [i \in 1 .. 0 |-> IF i = 1 THEN seqs[i] ELSE f[i - 1] \o seqs[i]]
  <2>1. f = h
    OBVIOUS
  <2>2. Flattens(seqs, f, 0)
    BY <2>1 DEF Flattens
  <2> QED
    BY <1>2, <2>2
<1>3. CASE k # 0
  <2>1. k \in Nat /\ k - 1 \in Nat /\ k - 1 \notin S
    <3>1. k \in Nat /\ k - 1 \in Nat
      BY <1>0, <1>3
    <3> HIDE DEF S
    <3> QED
      BY <3>1, <1>1
  <2>2. PICK f : Flattens(seqs, f, k - 1)
    BY <2>1
  <2> DEFINE new(i) == IF i = 1 THEN seqs[i] ELSE f[i - 1] \o seqs[i]
             e == [i \in 1 .. k |-> new(i)]
             h == [i \in 1 .. k |-> IF i = 1 THEN seqs[i] ELSE e[i - 1] \o seqs[i]]
  <2>3. \A i \in 1 .. k - 1 : f[i] = new(i)
    BY <2>2 DEF Flattens
  <2>4. ASSUME NEW i \in 1 .. k PROVE e[i] = h[i]
    <3>1. CASE i = 1
      BY <3>1
    <3>2. CASE i # 1
      <4>1. i - 1 \in 1 .. k - 1 /\ i - 1 \in 1 .. k
        BY <3>2, <2>1
      <4>2. e[i - 1] = f[i - 1]
        BY <4>1, <2>3
      <4> QED
        BY <4>2, <3>2
    <3> QED
      BY <3>1, <3>2
  <2>5. e = h
    BY <2>4
  <2>6. Flattens(seqs, e, k)
    BY <2>5 DEF Flattens
  <2> QED
    BY <2>6
<1> QED
  BY <1>2, <1>3

LEMMA FlattenSeqJoins ==
  ASSUME NEW V, NEW seqs \in Seq(Seq(V)), seqs # <<>>, seqs[1] # <<>>
  PROVE  FlattenSeq(seqs) \in Seq(V) /\ FlattenSeq(seqs) # <<>>
<1> DEFINE n == Len(seqs)
<1>1. n \in Nat /\ n # 0 /\ \A i \in 1 .. n : seqs[i] \in Seq(V)
  OBVIOUS
<1>2. PICK f : Flattens(seqs, f, n) /\ FlattenSeq(seqs) = f[n]
  BY <1>1, FlattensExist, FlattenSeqFlattens
<1>3. \A i \in 1 .. n : f[i] = IF i = 1 THEN seqs[i] ELSE f[i - 1] \o seqs[i]
  BY <1>2 DEF Flattens
<1> DEFINE S == {i \in 1 .. n : ~ (f[i] \in Seq(V) /\ f[i] # <<>>)}
<1>4. S = {}
  <2> SUFFICES ASSUME S # {} PROVE FALSE
    OBVIOUS
  <2>1. S \subseteq Nat /\ S \subseteq 1 .. n
    OBVIOUS
  <2>2. PICK i \in S : \A m \in S : i <= m
    <3> HIDE DEF S
    <3> QED
      BY <2>1, LeastNumber
  <2>3. i # 1
    BY <1>1, <1>3
  <2>4. i - 1 \in 1 .. n /\ i - 1 < i /\ i \in 1 .. n
    BY <2>3
  <2>5. i - 1 \notin S
    <3> HIDE DEF S
    <3> QED
      BY <2>1, <2>2, <2>4
  <2>6. f[i - 1] \in Seq(V) /\ f[i - 1] # <<>> /\ seqs[i] \in Seq(V)
    BY <1>1, <2>4, <2>5
  <2>7. f[i] = f[i - 1] \o seqs[i]
    BY <1>3, <2>3, <2>4
  <2>8. f[i] \in Seq(V) /\ f[i] # <<>>
    BY <2>6, <2>7
  <2> QED
    BY <2>8
<1>5. n \in 1 .. n
  BY <1>1
<1> QED
  BY <1>2, <1>4, <1>5

Enters(seq, f, n) ==
  f = [s \in {s \in SUBSET (DOMAIN seq) : Cardinality(s) <= n} |->
         IF s = {} THEN <<>> ELSE Enter(f[s \ {Max(s)}], seq[Max(s)])]

AllEnters(seq, f) ==
  f = [s \in SUBSET (DOMAIN seq) |->
         IF s = {} THEN <<>> ELSE Enter(f[s \ {Max(s)}], seq[Max(s)])]

LEMMA FoldEnters ==
  ASSUME NEW seq, \E f : AllEnters(seq, f)
  PROVE  \E f : AllEnters(seq, f) /\ FoldLeft(Enter, <<>>, seq) = f[DOMAIN seq]
BY DEF FoldLeft, MapThenFoldSet, AllEnters

LEMMA EntersExist ==
  ASSUME NEW seq, IsFiniteSet(DOMAIN seq), NEW n \in Nat,
         \A s \in SUBSET (DOMAIN seq) : s # {} => Max(s) \in s
  PROVE  \E f : Enters(seq, f, n)
<1> DEFINE D == DOMAIN seq
           Upto(k) == {s \in SUBSET D : Cardinality(s) <= k}
           S == {k \in Nat : ~ \E f : Enters(seq, f, k)}
<1> SUFFICES ASSUME S # {} PROVE FALSE
  OBVIOUS
<1>0. S \subseteq Nat
  OBVIOUS
<1>a. \A s \in SUBSET D : IsFiniteSet(s) /\ Cardinality(s) \in Nat
  BY FS_Subset, FS_CardinalityType
<1>c. \A s \in SUBSET D : s # {} => Cardinality(s \ {Max(s)}) = Cardinality(s) - 1
  BY <1>a, FS_RemoveElement
<1>d. \A s \in SUBSET D : Cardinality(s) = 0 => s = {}
  BY <1>a, FS_EmptySet
<1>1. PICK k \in S : \A m \in S : k <= m
  <2> HIDE DEF S
  <2> QED
    BY <1>0, LeastNumber
<1>2. CASE k = 0
  <2> DEFINE f == [s \in Upto(0) |-> <<>>]
             h == [s \in Upto(0) |->
                     IF s = {} THEN <<>> ELSE Enter(f[s \ {Max(s)}], seq[Max(s)])]
  <2>1. \A s \in Upto(0) : s = {}
    BY <1>a, <1>d
  <2>2. f = h
    BY <2>1
  <2>3. Enters(seq, f, 0)
    BY <2>2 DEF Enters
  <2> QED
    BY <1>2, <2>3
<1>3. CASE k # 0
  <2>1. k \in Nat /\ k - 1 \in Nat /\ k - 1 \notin S
    <3>1. k \in Nat /\ k - 1 \in Nat
      BY <1>0, <1>3
    <3> HIDE DEF S
    <3> QED
      BY <3>1, <1>1
  <2>2. PICK f : Enters(seq, f, k - 1)
    BY <2>1
  <2> DEFINE new(s) == IF s = {} THEN <<>> ELSE Enter(f[s \ {Max(s)}], seq[Max(s)])
             e == [s \in Upto(k) |-> new(s)]
             h == [s \in Upto(k) |->
                     IF s = {} THEN <<>> ELSE Enter(e[s \ {Max(s)}], seq[Max(s)])]
  <2>3. \A s \in Upto(k - 1) : f[s] = new(s)
    BY <2>2 DEF Enters
  <2>4. ASSUME NEW s \in Upto(k) PROVE e[s] = h[s]
    <3>1. CASE s = {}
      BY <3>1
    <3>2. CASE s # {}
      <4> DEFINE t == s \ {Max(s)}
      <4>1. t \in SUBSET D /\ Cardinality(t) = Cardinality(s) - 1 /\ Cardinality(s) \in Nat
        BY <1>a, <1>c, <3>2
      <4>2. t \in Upto(k - 1) /\ t \in Upto(k)
        <5>1. Cardinality(s) <= k
          OBVIOUS
        <5>2. Cardinality(s) - 1 <= k - 1 /\ Cardinality(s) - 1 <= k
          BY <5>1, <4>1, <2>1
        <5> HIDE DEF t
        <5> QED
          BY <5>2, <4>1
      <4>3. e[t] = f[t]
        <5> HIDE DEF t
        <5> QED
          BY <4>2, <2>3
      <4> QED
        BY <4>3, <3>2
    <3> QED
      BY <3>1, <3>2
  <2>5. e = h
    BY <2>4
  <2>6. Enters(seq, e, k)
    BY <2>5 DEF Enters
  <2> QED
    BY <2>6
<1> QED
  BY <1>2, <1>3

FoundPoint == [id : Nat, edge : Entries, count : {Uncounted}]

\* An entry found again keeps its place, a new one comes last.
LEMMA EnterPoints ==
  ASSUME NEW found \in Seq(FoundPoint), NEW edge \in Entries
  PROVE  Enter(found, edge) \in Seq(FoundPoint) /\ Enter(found, edge) # <<>>
<1> DEFINE point == [id |-> Len(found) + 1, edge |-> edge, count |-> Uncounted]
<1>1. point \in FoundPoint
  BY DEF FoundPoint
<1> HIDE DEF point
<1>2. CASE \E i \in DOMAIN found : found[i].edge = edge
  <2> DEFINE n == Len(found)
             new == [i \in 1 .. n |-> IF found[i].edge = edge THEN point ELSE found[i]]
  <2>1. n \in Nat /\ n # 0 /\ DOMAIN found = 1 .. n
    BY <1>2
  <2>2. Enter(found, edge) = new
    BY <1>2, <2>1 DEF Enter, point
  <2>3. \A i \in 1 .. n : new[i] \in FoundPoint
    BY <1>1
  <2>4. new \in [1 .. n -> FoundPoint]
    BY <2>3
  <2>5. new \in Seq(FoundPoint) /\ Len(new) = n
    <3> HIDE DEF new
    <3> QED
      BY <2>1, <2>4, SeqDef
  <2> QED
    BY <2>1, <2>2, <2>5
<1>3. CASE ~ \E i \in DOMAIN found : found[i].edge = edge
  <2>1. Enter(found, edge) = Append(found, point)
    BY <1>3 DEF Enter, point
  <2> QED
    BY <1>1, <2>1
<1> QED
  BY <1>2, <1>3

LEMMA EnteredPoints ==
  ASSUME NEW seq \in Seq(Entries)
  PROVE  /\ FoldLeft(Enter, <<>>, seq) \in Seq(FoundPoint)
         /\ seq # <<>> => FoldLeft(Enter, <<>>, seq) # <<>>
<1> DEFINE D == 1 .. Len(seq)
           n == Cardinality(D)
<1>1. D = DOMAIN seq /\ Len(seq) \in Nat
  OBVIOUS
<1>2. IsFiniteSet(D) /\ n \in Nat
  BY <1>1, FS_Interval, FS_CardinalityType
<1>3. ASSUME NEW s \in SUBSET D, s # {} PROVE Max(s) \in s
  <2>1. s \subseteq Nat /\ \A i \in s : i <= Len(seq)
    OBVIOUS
  <2>2. PICK i \in s : \A j \in s : j <= i
    BY <1>1, <1>3, <2>1, GreatestNumber
  <2>3. \A j \in s : i >= j
    BY <2>1, <2>2
  <2> QED
    BY <2>2, <2>3 DEF Max
<1>4. PICK g : Enters(seq, g, n)
  BY <1>1, <1>2, <1>3, EntersExist
<1>5. {s \in SUBSET D : Cardinality(s) <= n} = SUBSET D
  BY <1>2, FS_Subset
<1>6. AllEnters(seq, g)
  BY <1>1, <1>4, <1>5 DEF Enters, AllEnters
<1>7. PICK f : AllEnters(seq, f) /\ FoldLeft(Enter, <<>>, seq) = f[D]
  BY <1>1, <1>6, FoldEnters
<1>8. \A s \in SUBSET D : f[s] = IF s = {} THEN <<>> ELSE Enter(f[s \ {Max(s)}], seq[Max(s)])
  BY <1>1, <1>7 DEF AllEnters
<1> DEFINE Right(s) == f[s] \in Seq(FoundPoint) /\ (s # {} => f[s] # <<>>)
           F == {s \in SUBSET D : ~ Right(s)}
<1>9. F = {}
  <2> SUFFICES ASSUME F # {} PROVE FALSE
    OBVIOUS
  <2>1. PICK s \in F : \A t \in F : t \subseteq s => t = s
    <3>1. F \subseteq SUBSET D
      OBVIOUS
    <3> HIDE DEF F, D
    <3> QED
      BY <3>1, <1>2, SmallestSubset
  <2>2. s \in SUBSET D
    OBVIOUS
  <2>3. s # {}
    <3>1. f[{}] = <<>>
      BY <1>8
    <3>2. Right({})
      BY <3>1
    <3> QED
      BY <3>2
  <2>4. Max(s) \in s
    BY <1>3, <2>2, <2>3
  <2>5. s \ {Max(s)} \in SUBSET D /\ s \ {Max(s)} \notin F
    BY <2>1, <2>4
  <2>6. Right(s \ {Max(s)}) /\ seq[Max(s)] \in Entries
    <3>1. Max(s) \in D
      BY <2>2, <2>4
    <3>2. seq[Max(s)] \in Entries
      BY <3>1
    <3> QED
      BY <2>5, <3>2
  <2>7. f[s] = Enter(f[s \ {Max(s)}], seq[Max(s)])
    BY <1>8, <2>2, <2>3
  <2>8. Right(s)
    BY <2>6, <2>7, EnterPoints
  <2> QED
    BY <2>8
<1>10. f[D] \in Seq(FoundPoint) /\ (D # {} => f[D] # <<>>)
  BY <1>9
<1>11. seq # <<>> => D # {}
  <2>1. seq # <<>> => Len(seq) # 0
    OBVIOUS
  <2>2. Len(seq) # 0 => 1 \in D
    BY <1>1
  <2> QED
    BY <2>1, <2>2
<1> QED
  BY <1>7, <1>10, <1>11

LEMMA OrderedNumbers ==
  ASSUME NEW S, IsFiniteSet(S), S \subseteq Nat
  PROVE  /\ InOrder(S, Smaller(S)) \in Seq(S)
         /\ S # {} => InOrder(S, Smaller(S)) # <<>>
<1> DEFINE order == InOrder(S, Smaller(S))
           n == Cardinality(S)
<1>1. n \in Nat /\ order \in [1 .. n -> S]
  BY SmallerBefore, InOrderLists
<1> HIDE DEF order
<1>2. order \in Seq(S) /\ Len(order) = n
  BY <1>1, SeqDef
<1>3. S # {} => n # 0
  BY FS_EmptySet
<1> QED
  BY <1>2, <1>3 DEF order

LEMMA PreferredEntriesFound ==
  ASSUME PreparationAssumption, MapType(world), NEW lot \in world.selected,
         ReachedEdges(lot) # {}
  PROVE  /\ Min(ReachedEdges(lot)) \in ReachedEdges(lot)
         /\ PreferredEntries(lot) \in Seq(Entries)
         /\ PreferredEntries(lot) # <<>>
<1> DEFINE roads == world.roads[lot]
           reached == roads[Min(ReachedEdges(lot))]
           order == InOrder(reached, Smaller(reached))
           k == IF Len(order) < 2 THEN Len(order) ELSE 2
<1>1. roads \in Seq(SUBSET Entries)
  BY DEF MapType
<1>2. DOMAIN roads \subseteq Nat
  BY <1>1
<1>3. ReachedEdges(lot) \subseteq Nat
  BY <1>2 DEF ReachedEdges
<1>4. Min(ReachedEdges(lot)) \in ReachedEdges(lot)
  BY <1>3, MinMember
<1>5. reached # {} /\ reached \in SUBSET Entries
  <2> DEFINE m == Min(ReachedEdges(lot))
  <2>1. m \in DOMAIN roads /\ roads[m] # {}
    BY <1>4 DEF ReachedEdges
  <2> HIDE DEF m, roads
  <2>2. roads[m] \in SUBSET Entries
    BY <1>1, <2>1
  <2> QED
    BY <2>1, <2>2 DEF m, roads
<1>6. IsFiniteSet(reached) /\ reached \subseteq Nat
  BY <1>5, FS_Subset DEF PreparationAssumption
<1> HIDE DEF reached
<1>7. order \in Seq(reached) /\ order # <<>>
  BY <1>5, <1>6, OrderedNumbers
<1>8. PreferredEntries(lot) = SubSeq(order, 1, k)
  BY DEF PreferredEntries, reached
<1> HIDE DEF order
<1>9. k \in 1 .. Len(order)
  BY <1>7
<1>10. \A i \in 1 .. k : order[i] \in Entries
  <2>1. \A i \in 1 .. k : i \in 1 .. Len(order)
    BY <1>7, <1>9
  <2>2. \A i \in 1 .. Len(order) : order[i] \in reached
    BY <1>7
  <2> QED
    BY <1>5, <2>1, <2>2
<1> HIDE DEF k
<1>11. k \in Int
  BY <1>7, <1>9
<1>12. /\ SubSeq(order, 1, k) \in Seq(Entries)
       /\ Len(SubSeq(order, 1, k)) = IF 1 <= k THEN k - 1 + 1 ELSE 0
  BY <1>10, <1>11, SubSeqProperties
<1>13. SubSeq(order, 1, k) # <<>>
  BY <1>7, <1>9, <1>12
<1> QED
  BY <1>4, <1>8, <1>12, <1>13

LEMMA FoundPointsFound ==
  ASSUME PreparationAssumption, MapType(world),
         \A lot \in world.selected : ReachedEdges(lot) # {}
  PROVE  /\ FoundPoints \in Seq(FoundPoint)
         /\ world.selected # {} => FoundPoints # <<>>
<1> DEFINE chosen == world.selected
           lots == InOrder(chosen, Smaller(chosen))
           parts == [i \in DOMAIN lots |-> PreferredEntries(lots[i])]
<1>1. IsFiniteSet(chosen) /\ chosen \subseteq Nat
  BY FS_Subset DEF MapType, PreparationAssumption
<1> HIDE DEF chosen
<1>2. lots \in Seq(chosen) /\ (chosen # {} => lots # <<>>)
  BY <1>1, OrderedNumbers
<1> USE DEF chosen
<1>3. FoundPoints = FoldLeft(Enter, <<>>, FlattenSeq(parts))
  BY DEF FoundPoints
<1> HIDE DEF lots
<1>4. DOMAIN lots = 1 .. Len(lots) /\ Len(lots) \in Nat /\ \A i \in 1 .. Len(lots) : lots[i] \in chosen
  BY <1>2
<1>5. \A i \in 1 .. Len(lots) :
        PreferredEntries(lots[i]) \in Seq(Entries) /\ PreferredEntries(lots[i]) # <<>>
  BY <1>4, PreferredEntriesFound
<1>6. parts \in [1 .. Len(lots) -> Seq(Entries)]
  BY <1>4, <1>5
<1>7. \A i \in 1 .. Len(lots) : parts[i] # <<>>
  BY <1>4, <1>5
<1> HIDE DEF parts
<1>8. parts \in Seq(Seq(Entries)) /\ Len(parts) = Len(lots)
  BY <1>4, <1>6, SeqDef
<1>9. CASE parts = <<>>
  <2>1. FlattenSeq(parts) = <<>>
    BY <1>9 DEF FlattenSeq
  <2>2. FlattenSeq(parts) \in Seq(Entries)
    BY <2>1
  <2>3. lots = <<>>
    BY <1>2, <1>8, <1>9
  <2> QED
    BY <1>2, <1>3, <2>2, <2>3, EnteredPoints
<1>10. CASE parts # <<>>
  <2>1. 1 \in 1 .. Len(lots)
    BY <1>4, <1>8, <1>10
  <2>2. FlattenSeq(parts) \in Seq(Entries) /\ FlattenSeq(parts) # <<>>
    BY <1>7, <1>8, <1>10, <2>1, FlattenSeqJoins
  <2> QED
    BY <1>3, <2>2, EnteredPoints
<1> QED
  BY <1>9, <1>10

(***************************************************************************)
(* The order of departures.                                                *)
(***************************************************************************)
LEMMA Crosswise ==
  ASSUME NEW a \in Nat, NEW b \in Nat, NEW c \in Nat,
         NEW x \in Nat \ {0}, NEW y \in Nat \ {0}, NEW z \in Nat \ {0},
         a * y <= b * x, b * z <= c * y
  PROVE  /\ a * z <= c * x
         /\ a * y < b * x \/ b * z < c * y => a * z < c * x
<1>1. (a * y) * z <= (b * x) * z /\ (a * y < b * x => (a * y) * z < (b * x) * z)
  OBVIOUS
<1>2. (b * z) * x <= (c * y) * x /\ (b * z < c * y => (b * z) * x < (c * y) * x)
  OBVIOUS
<1>3. (b * x) * z = (b * z) * x
  OBVIOUS
<1>4. (a * y) * z = (a * z) * y /\ (c * y) * x = (c * x) * y
  OBVIOUS
<1> DEFINE l == a * z
           r == c * x
<1>5. l \in Nat /\ r \in Nat /\ (a * y) * z \in Nat /\ (b * x) * z \in Nat /\ (c * y) * x \in Nat
  OBVIOUS
<1> HIDE DEF l, r
<1>6. l * y <= r * y /\ (a * y < b * x \/ b * z < c * y => l * y < r * y)
  BY <1>1, <1>2, <1>3, <1>4, <1>5 DEF l, r
<1>7. (l * y <= r * y => l <= r) /\ (l * y < r * y => l < r)
  BY <1>5
<1> QED
  BY <1>6, <1>7 DEF l, r

LEMMA SamePlace ==
  ASSUME NEW a \in Nat, NEW b \in Nat, NEW x \in Nat \ {0}, (2 * a - 1) * x = (2 * b - 1) * x
  PROVE  a = b
OBVIOUS

Slots(ps, v) == {s \in (DOMAIN ps) \X (1 .. v) : s[2] <= ps[s[1]].count}

SlotEarlier(ps, s, t) ==
  LET left  == (2 * s[2] - 1) * ps[t[1]].count
      right == (2 * t[2] - 1) * ps[s[1]].count
  IN  left < right \/ (left = right /\ s[1] < t[1])

SlotsBefore(ps, v) == [t \in Slots(ps, v) |-> {s \in Slots(ps, v) : SlotEarlier(ps, s, t)}]

Departures(ps, v) == InOrder(Slots(ps, v), SlotsBefore(ps, v))

OriginsOf(w, r, ps) ==
  IF w.points = <<>>
  THEN [n \in 1 .. r.vehicles |-> ((n - 1) % Len(ps)) + 1]
  ELSE [n \in DOMAIN Departures(ps, r.vehicles) |-> Departures(ps, r.vehicles)[n][1]]

LEMMA VehicleOriginsAre == VehicleOrigins = OriginsOf(world, request, points)
BY DEF VehicleOrigins, OriginsOf, Departures, SlotsBefore, SlotEarlier, Slots

\* The points carry the counts c, which make v in all.
Counts(ps, c, v) ==
  /\ v \in Nat
  /\ \E k \in Nat : DOMAIN ps = 1 .. k /\ c \in [1 .. k -> Nat]
  /\ \A i \in DOMAIN ps : ps[i].count = c[i]
  /\ Total(c) = v

LEMMA SlotsArePairs ==
  ASSUME NEW ps, NEW c, NEW v, Counts(ps, c, v)
  PROVE  /\ DOMAIN c = DOMAIN ps /\ DOMAIN ps \subseteq Nat
         /\ IsFiniteSet(Slots(ps, v)) /\ Cardinality(Slots(ps, v)) = v
         /\ \A i \in DOMAIN ps : c[i] \in 0 .. v
         /\ \A i \in DOMAIN ps : Cardinality(Pairs(c, {i}, v)) = c[i]
         /\ Slots(ps, v) = Pairs(c, DOMAIN c, v)
<1>1. PICK k \in Nat : DOMAIN ps = 1 .. k /\ c \in [1 .. k -> Nat]
  BY DEF Counts
<1>2. DOMAIN c = 1 .. k /\ IsFiniteSet(1 .. k) /\ \A i \in DOMAIN c : c[i] \in Nat
  <2>1. IsFiniteSet(1 .. k)
    BY FS_Interval
  <2> QED
    BY <1>1, <2>1
<1>3. v \in Nat /\ Total(c) = v /\ \A i \in DOMAIN c : ps[i].count = c[i]
  BY <1>1, <1>2 DEF Counts
<1>4. \A i \in DOMAIN c : c[i] \in 0 .. v
  BY <1>2, <1>3, TotalBounds
<1>5. Slots(ps, v) = Pairs(c, DOMAIN c, v)
  BY <1>1, <1>2, <1>3 DEF Slots, Pairs
<1>6. IsFiniteSet(DOMAIN c)
  BY <1>2
<1>7. /\ IsFiniteSet(Pairs(c, DOMAIN c, v))
      /\ Cardinality(Pairs(c, DOMAIN c, v)) = Total(c)
      /\ \A i \in DOMAIN c : Cardinality(Pairs(c, {i}, v)) = c[i]
  BY <1>3, <1>4, <1>6, PairsCounted
<1> QED
  BY <1>1, <1>2, <1>3, <1>4, <1>5, <1>7

LEMMA SlotsInOrder ==
  ASSUME NEW ps, NEW c, NEW v, Counts(ps, c, v)
  PROVE  Before(Slots(ps, v), SlotsBefore(ps, v))
<1> DEFINE S == Slots(ps, v)
           b == SlotsBefore(ps, v)
           n(s) == 2 * s[2] - 1
           d(s) == c[s[1]]
<1>1. ASSUME NEW s \in S
      PROVE  /\ s = <<s[1], s[2]>> /\ s[1] \in Nat /\ s[2] \in Nat
             /\ n(s) \in Nat /\ d(s) \in Nat \ {0} /\ ps[s[1]].count = d(s)
  <2>1. s = <<s[1], s[2]>> /\ s[1] \in DOMAIN ps /\ s[2] \in 1 .. v /\ s[2] <= ps[s[1]].count
    BY DEF Slots
  <2>2. v \in Nat /\ ps[s[1]].count = c[s[1]] /\ c[s[1]] \in Nat /\ s[1] \in Nat
    BY <2>1, SlotsArePairs DEF Counts
  <2>3. s[2] \in Nat /\ s[2] >= 1 /\ c[s[1]] >= 1
    BY <2>1, <2>2
  <2> QED
    BY <2>1, <2>2, <2>3
<1>2. \A s, t \in S :
        SlotEarlier(ps, s, t) <=> \/ n(s) * d(t) < n(t) * d(s)
                                  \/ n(s) * d(t) = n(t) * d(s) /\ s[1] < t[1]
  BY <1>1 DEF SlotEarlier
<1>3. \A s, t \in S : n(s) * d(t) \in Nat
  <2> SUFFICES ASSUME NEW s \in S, NEW t \in S PROVE n(s) * d(t) \in Nat
    OBVIOUS
  <2>1. n(s) \in Nat /\ d(t) \in Nat
    BY <1>1
  <2> HIDE DEF n, d
  <2> QED
    BY <2>1
<1>4. \A t \in S : \A s : s \in b[t] <=> s \in S /\ SlotEarlier(ps, s, t)
  BY DEF SlotsBefore
<1>5. ASSUME NEW s \in S PROVE ~ SlotEarlier(ps, s, s)
  <2>1. n(s) * d(s) \in Nat /\ s[1] \in Nat
    BY <1>1, <1>3
  <2> HIDE DEF n, d, S
  <2>2. ~ (n(s) * d(s) < n(s) * d(s)) /\ ~ (s[1] < s[1])
    BY <2>1
  <2> QED
    BY <2>2, <1>2
<1>6. ASSUME NEW s \in S, NEW t \in S, s # t
      PROVE  SlotEarlier(ps, s, t) \/ SlotEarlier(ps, t, s)
  <2>1. CASE s[1] = t[1]
    <3>1. d(s) = d(t)
      BY <2>1
    <3>2. s[2] # t[2]
      <4>1. s = <<s[1], s[2]>> /\ t = <<t[1], t[2]>>
        BY <1>1
      <4> QED
        BY <2>1, <4>1, <1>6
    <3>3. n(s) * d(s) # n(t) * d(s)
      BY <3>2, <1>1, SamePlace
    <3>4. n(s) * d(t) # n(t) * d(s)
      BY <3>1, <3>3
    <3>5. n(s) * d(t) \in Nat /\ n(t) * d(s) \in Nat
      BY <1>3
    <3> HIDE DEF n, d, S
    <3>6. n(s) * d(t) < n(t) * d(s) \/ n(t) * d(s) < n(s) * d(t)
      BY <3>4, <3>5
    <3> QED
      BY <3>6, <1>2
  <2>2. CASE s[1] # t[1]
    <3>1. n(s) * d(t) \in Nat /\ n(t) * d(s) \in Nat /\ s[1] \in Nat /\ t[1] \in Nat
      BY <1>1, <1>3
    <3> HIDE DEF n, d, S
    <3>2. \/ n(s) * d(t) < n(t) * d(s)
          \/ n(t) * d(s) < n(s) * d(t)
          \/ n(s) * d(t) = n(t) * d(s) /\ s[1] < t[1]
          \/ n(t) * d(s) = n(s) * d(t) /\ t[1] < s[1]
      BY <3>1, <2>2
    <3> QED
      BY <3>2, <1>2
  <2> QED
    BY <2>1, <2>2
<1>7. ASSUME NEW s \in S, NEW t \in S, NEW u \in S,
             SlotEarlier(ps, s, t), SlotEarlier(ps, t, u)
      PROVE  SlotEarlier(ps, s, u)
  <2>1. /\ n(s) \in Nat /\ n(t) \in Nat /\ n(u) \in Nat
        /\ d(s) \in Nat \ {0} /\ d(t) \in Nat \ {0} /\ d(u) \in Nat \ {0}
        /\ s[1] \in Nat /\ t[1] \in Nat /\ u[1] \in Nat
    BY <1>1
  <2>2. /\ n(s) * d(t) \in Nat /\ n(t) * d(s) \in Nat /\ n(t) * d(u) \in Nat
        /\ n(u) * d(t) \in Nat /\ n(s) * d(u) \in Nat /\ n(u) * d(s) \in Nat
    BY <1>3
  <2> HIDE DEF n, d, S
  <2>3. \/ n(s) * d(t) < n(t) * d(s)
        \/ n(s) * d(t) = n(t) * d(s) /\ s[1] < t[1]
    BY <1>2, <1>7
  <2>4. \/ n(t) * d(u) < n(u) * d(t)
        \/ n(t) * d(u) = n(u) * d(t) /\ t[1] < u[1]
    BY <1>2, <1>7
  <2>5. n(s) * d(t) <= n(t) * d(s) /\ n(t) * d(u) <= n(u) * d(t)
    BY <2>2, <2>3, <2>4
  <2>6. /\ n(s) * d(u) <= n(u) * d(s)
        /\ n(s) * d(t) < n(t) * d(s) \/ n(t) * d(u) < n(u) * d(t) => n(s) * d(u) < n(u) * d(s)
    BY <2>1, <2>5, Crosswise
  <2>7. s[1] < t[1] /\ t[1] < u[1] => s[1] < u[1]
    BY <2>1
  <2>8. \/ n(s) * d(u) < n(u) * d(s)
        \/ n(s) * d(u) = n(u) * d(s) /\ s[1] < u[1]
    BY <2>2, <2>3, <2>4, <2>6, <2>7
  <2> QED
    BY <1>2, <2>8
<1>8. IsFiniteSet(S)
  BY SlotsArePairs
<1> HIDE DEF S, b, n, d
<1>9. \A x \in S : b[x] \subseteq S /\ x \notin b[x]
  BY <1>4, <1>5
<1>10. \A x, y \in S : x # y => x \in b[y] \/ y \in b[x]
  BY <1>4, <1>6
<1>11. \A x, y \in S : x \in b[y] => b[x] \subseteq b[y]
  BY <1>4, <1>7
<1>12. Before(S, b)
  BY <1>8, <1>9, <1>10, <1>11 DEF Before
<1> QED
  BY <1>12 DEF S, b

\* The vehicles that enter at point i.
EnteringAt(from, v, i) == {n \in 1 .. v : from[n] = i}

\* The vehicles of the request are divided over the points of the map.
Divides(w, r, ps, c) == w.points # <<>> /\ Counts(ps, c, r.vehicles)

\* Every vehicle has an origin, and every point as many vehicles as it counts:
\* sorting the departures of all points by time loses and repeats none.
THEOREM DeparturesExact ==
  ASSUME NEW ps, NEW c, NEW w, NEW r, Divides(w, r, ps, c)
  PROVE  /\ OriginsOf(w, r, ps) \in [1 .. r.vehicles -> DOMAIN ps]
         /\ \A i \in DOMAIN ps :
              Cardinality(EnteringAt(OriginsOf(w, r, ps), r.vehicles, i)) = c[i]
<1> DEFINE v == r.vehicles
           S == Slots(ps, v)
           order == Departures(ps, v)
           from == OriginsOf(w, r, ps)
<1>0. w.points # <<>> /\ Counts(ps, c, v)
  BY DEF Divides
<1> USE <1>0
<1>1. v \in Nat
  BY DEF Counts
<1>2. IsFiniteSet(S) /\ Cardinality(S) = v /\ S = Pairs(c, DOMAIN c, v) /\ DOMAIN c = DOMAIN ps
  BY SlotsArePairs
<1>3. Before(S, SlotsBefore(ps, v))
  BY SlotsInOrder
<1>4. /\ order \in [1 .. v -> S]
      /\ \A i, j \in 1 .. v : order[i] = order[j] => i = j
      /\ \A x \in S : \E i \in 1 .. v : order[i] = x
  BY <1>2, <1>3, InOrderLists DEF Departures
<1>5. \A s \in S : s[1] \in DOMAIN ps
  BY DEF Slots
<1>6. from = [n \in DOMAIN order |-> order[n][1]]
  BY DEF OriginsOf
<1> HIDE DEF order, S, from
<1>7. from \in [1 .. v -> DOMAIN ps] /\ \A n \in 1 .. v : from[n] = order[n][1]
  BY <1>4, <1>5, <1>6
<1>8. ASSUME NEW i \in DOMAIN ps PROVE Cardinality(EnteringAt(from, v, i)) = c[i]
  <2> DEFINE N == EnteringAt(from, v, i)
             P == Pairs(c, {i}, v)
             f == [n \in N |-> order[n]]
  <2>1. \A s \in S : s[1] = i <=> s \in P
    BY <1>2 DEF Pairs
  <2>2. P \subseteq S
    BY <1>2 DEF Pairs
  <2>3. \A n \in 1 .. v : n \in N <=> order[n] \in P
    BY <1>4, <1>7, <2>1 DEF EnteringAt
  <2>4. N \subseteq 1 .. v
    BY DEF EnteringAt
  <2>5. IsFiniteSet(N)
    <3>1. IsFiniteSet(1 .. v)
      BY <1>1, FS_Interval
    <3> HIDE DEF N
    <3> QED
      BY <2>4, <3>1, FS_Subset
  <2> HIDE DEF N, P
  <2>6. f \in [N -> P]
    BY <2>3, <2>4
  <2>7. \A m, n \in N : f[m] = f[n] => m = n
    BY <1>4, <2>4
  <2>8. \A x \in P : \E n \in N : f[n] = x
    BY <1>4, <2>2, <2>3
  <2> HIDE DEF f
  <2>9. f \in Bijection(N, P)
    BY <2>6, <2>7, <2>8 DEF Bijection, Injection, Surjection, IsInjective
  <2>10. ExistsBijection(N, P)
    BY <2>9 DEF ExistsBijection
  <2>11. Cardinality(P) = Cardinality(N)
    BY <2>5, <2>10, FS_Bijection
  <2>12. Cardinality(P) = c[i]
    BY SlotsArePairs DEF P
  <2> QED
    BY <2>11, <2>12 DEF N
<1> QED
  BY <1>7, <1>8 DEF from

(***************************************************************************)
(* A check that finds nothing: none of its conditions holds.               *)
(***************************************************************************)
LEMMA NoRefusal ==
  ASSUME Refusals = {}
  PROVE  /\ ~ (request.transport > 0 /\ Stops = {})
         /\ ~ (request.residential > 0 /\ world.residential = {})
         /\ ~ (request.given /\ DOMAIN request.counts # DOMAIN world.points)
         /\ ~ /\ request.given
              /\ world.points # <<>>
              /\ Total(request.counts) # request.vehicles
         /\ ~ (request.vehicles > 0 /\ world.selected = {})
BY DEF Refusals, When

LEMMA NoConfigureProblem ==
  ASSUME ConfigureProblems = {}
  PROVE  /\ ~ (request.vehicles > 0 /\ world.selected = {})
         /\ \A i, j \in DOMAIN world.points : i # j => world.points[i] # world.points[j]
         /\ \A lot \in world.selected : world.roads[lot] # <<>>
         /\ ~ (allocation # <<>> /\ DOMAIN allocation # DOMAIN world.points)
         /\ world.points = <<>> => \A lot \in world.selected : ReachedEdges(lot) # {}
BY DEF ConfigureProblems, When

LEMMA NoResolveProblem ==
  ASSUME ResolveProblems = {}
  PROVE  /\ \A b \in Buildings : Candidates(b) # {}
         /\ \A s \in Origins("public_transport") : Candidates(s) # {}
         /\ Buildings # {}
         /\ \A m \in Modes : Requested(m) > 0 => Resolved.origins[m] # {}
         /\ request.vehicles > 0 => \E b \in Buildings : Resolved.candidates[b] # {}
<1>1. AttachProblems = {}
  BY DEF ResolveProblems
<1>2. /\ \A b \in Buildings : Candidates(b) # {}
      /\ \A s \in Origins("public_transport") : Candidates(s) # {}
      /\ Buildings # {}
  BY <1>1 DEF AttachProblems, When
<1> QED
  BY <1>1, <1>2 DEF ResolveProblems, When

LEMMA NoDemandProblem ==
  ASSUME DemandProblems = {}
  PROVE  /\ ~ (request.vehicles > 0 /\ TargetLots = {})
         /\ ~ (request.vehicles > 0 /\ points = <<>>)
         /\ ~ /\ world.points # <<>>
              /\ Total([i \in DOMAIN points |-> points[i].count]) # request.vehicles
         /\ \A m \in Modes : ~ (Requested(m) > 0 /\ access.origins[m] = {})
BY DEF DemandProblems, When

(***************************************************************************)
(* What is known at each stage, as a function of the state, so that a step *)
(* that leaves a part of the state alone leaves what is known of it alone. *)
(***************************************************************************)
RequestedOf(r, mode) == IF mode = "residential" THEN r.residential ELSE r.transport

\* Creation: the allocation makes the vehicles asked for.
Accepted(w, r, alloc) ==
  /\ r.transport > 0 => Stops # {}
  /\ r.residential > 0 => w.residential # {}
  /\ r.vehicles > 0 => w.selected # {}
  /\ w.points = <<>> => alloc = <<>>
  /\ w.points # <<>> =>
       /\ alloc \in [1 .. Len(w.points) -> Nat]
       /\ Total(alloc) = r.vehicles
       /\ r.given => alloc = r.counts
       /\ ~ r.given => \A i \in 1 .. Len(w.points) :
                         alloc[i] \in {r.vehicles \div Len(w.points),
                                       (r.vehicles \div Len(w.points)) + 1}

\* Configuration: entry points for every lot, and routing edges of the lots.
Configured(w, alloc, ps, rt) ==
  /\ \A i, j \in DOMAIN w.points : i # j => w.points[i] # w.points[j]
  /\ w.points # <<>> =>
       ps = [i \in DOMAIN w.points |->
               [id |-> i, edge |-> w.points[i], count |-> alloc[i]]]
  /\ ps \in Seq([id : Nat, edge : Entries, count : Int])
  /\ w.selected # {} => ps # <<>>
  /\ \A lot \in w.selected : rt[lot] \subseteq DOMAIN w.roads[lot] /\ rt[lot] # {}

WalkableOf(w, of, from, to) == SnapOf(w, of, to) \in of[SnapOf(w, of, from)]

\* Access: who reaches what on foot, and something for everybody asked for.
Accessible(w, of, r, acc) ==
  /\ acc.areas = {a \in Areas : LotOf[a] \in w.selected /\ DOMAIN w.near[a] # {}}
  /\ \A b \in Buildings :
       /\ DOMAIN w.near[b] # {}
       /\ acc.candidates[b] = {LotOf[a] : a \in {a \in acc.areas : WalkableOf(w, of, a, b)}}
  /\ r.vehicles > 0 => \E b \in Buildings : acc.candidates[b] # {}
  /\ \A m \in Modes :
       /\ RequestedOf(r, m) > 0 => acc.origins[m] # {}
       /\ \A o \in acc.origins[m] :
            /\ o \in Buildings \cup Stops
            /\ acc.reachable[o] # {}
            /\ acc.reachable[o] \subseteq Buildings
            /\ \A b \in acc.reachable[o] :
                 SnapOf(w, of, b) # SnapOf(w, of, o) /\ WalkableOf(w, of, o, b)

Trip == [id : Nat \X Nat, from : Entries, building : Buildings, lot : Lots, lots : SUBSET Lots]
Walk == [mode : Modes, origin : Buildings \cup Stops, building : Buildings]

\* The rows drawn so far can be driven and walked.
Realizable(w, of, r, ts, ws) ==
  /\ ts \in Seq(Trip)
  /\ Len(ts) <= r.vehicles
  /\ \A n \in 1 .. Len(ts) :
       /\ ts[n].id[2] = n - 1
       /\ \A lot \in ts[n].lots :
            /\ lot \in w.selected
            /\ \E k \in DOMAIN w.roads[lot] : ts[n].from \in w.roads[lot][k]
            /\ \E a \in Areas : /\ LotOf[a] = lot
                                /\ DOMAIN w.near[a] # {}
                                /\ WalkableOf(w, of, a, ts[n].building)
  /\ ws \in Seq(Walk)
  /\ \A n \in 1 .. Len(ws) :
       /\ SnapOf(w, of, ws[n].origin) # SnapOf(w, of, ws[n].building)
       /\ WalkableOf(w, of, ws[n].origin, ws[n].building)

Sent(ws, m) == {n \in DOMAIN ws : ws[n].mode = m}

\* No source sends more people than asked for, and everybody has a source.
WalksCounted(r, ws) ==
  /\ \A m \in Modes : Cardinality(Sent(ws, m)) <= RequestedOf(r, m)
  /\ Cardinality(Sent(ws, "residential")) + Cardinality(Sent(ws, "public_transport")) = Len(ws)

\* The trips depart in the order of the origins.
Departed(w, r, ps, ts) ==
  \A n \in 1 .. Len(ts) :
    OriginsOf(w, r, ps)[n] \in DOMAIN ps /\ ts[n].from = ps[OriginsOf(w, r, ps)[n]].edge

\* All areas of a lot lead to one component.
LevelLots(w, of, acc) ==
  \A a, b \in acc.areas : LotOf[a] = LotOf[b] => WalkableOf(w, of, a, b)

Arrived(w, of, acc, ts, occ) ==
  LevelLots(w, of, acc) => \A n \in DOMAIN occ : occ[n].building = ts[n].building

Inv ==
  /\ world \in Worlds
  /\ request \in Requests
  /\ Classes(islands)
  /\ stage \in Stages
  /\ stage \in {"created", "configured", "resolved", "written"} =>
       Accepted(world, request, allocation)
  /\ stage \in {"configured", "resolved", "written"} =>
       Configured(world, allocation, points, routing)
  /\ stage \in {"resolved", "written"} =>
       /\ Accessible(world, islands, request, access)
       /\ Departed(world, request, points, trips)
  /\ stage \notin {"resolved", "written", "failed"} => trips = <<>> /\ walks = <<>>
  /\ Realizable(world, islands, request, trips, walks)
  /\ WalksCounted(request, walks)
  /\ stage = "written" =>
       Len(trips) = request.vehicles /\ Len(walks) = request.residential + request.transport
  /\ stage # "written" => occupants = <<>>
  /\ Arrived(world, islands, access, trips, occupants)

(***************************************************************************)
(* The initial states.                                                     *)
(***************************************************************************)
LEMMA NothingDrawn ==
  ASSUME NEW w, NEW of, NEW r, RequestType(r)
  PROVE  Realizable(w, of, r, <<>>, <<>>) /\ WalksCounted(r, <<>>)
<1>1. <<>> \in Seq(Trip) /\ <<>> \in Seq(Walk) /\ Len(<<>>) = 0
  OBVIOUS
<1>2. 0 <= r.vehicles /\ \A m \in Modes : 0 <= RequestedOf(r, m)
  BY DEF RequestType, RequestedOf
<1>3. \A m : Sent(<<>>, m) = {}
  BY DEF Sent
<1>4. \A m : Cardinality(Sent(<<>>, m)) = 0
  BY <1>3, FS_EmptySet
<1> QED
  BY <1>1, <1>2, <1>4 DEF Realizable, WalksCounted

LEMMA InitInv ==
  ASSUME PreparationAssumption, Init
  PROVE  Inv
<1>1. RequestType(request)
  BY DEF Init, PreparationAssumption
<1>2. Classes(islands)
  BY ComponentsAreClasses DEF Init
<1>3. Realizable(world, islands, request, trips, walks) /\ WalksCounted(request, walks)
  BY <1>1, NothingDrawn DEF Init
<1>4. Arrived(world, islands, access, trips, occupants)
  BY DEF Init, Arrived
<1> QED
  BY <1>2, <1>3, <1>4 DEF Init, Inv, Stages

(***************************************************************************)
(* The steps up to the draw.                                               *)
(***************************************************************************)
LEMMA CreateInv ==
  ASSUME PreparationAssumption, Inv, Create
  PROVE  Inv'
<1>1. MapType(world) /\ RequestType(request)
  BY DEF Inv, PreparationAssumption
<1> DEFINE k == Len(world.points)
           v == request.vehicles
<1>2. /\ ~ (request.transport > 0 /\ Stops = {})
      /\ ~ (request.residential > 0 /\ world.residential = {})
      /\ ~ (request.given /\ DOMAIN request.counts # DOMAIN world.points)
      /\ ~ /\ request.given
           /\ world.points # <<>>
           /\ Total(request.counts) # v
      /\ ~ (v > 0 /\ world.selected = {})
  BY NoRefusal DEF Create
<1>3. world.points \in Seq(Entries) /\ DOMAIN world.points = 1 .. k /\ k \in Nat /\ v \in Nat
  BY <1>1 DEF MapType, RequestType
<1>4. ASSUME world.points # <<>>
      PROVE  /\ allocation' \in [1 .. k -> Nat]
             /\ Total(allocation') = v
             /\ request.given => allocation' = request.counts
             /\ ~ request.given => \A i \in 1 .. k : allocation'[i] \in {v \div k, (v \div k) + 1}
  <2>1. CASE request.given
    <3>1. allocation' = request.counts
      BY <1>4, <2>1 DEF Create
    <3>2. request.counts \in [1 .. k -> Nat] /\ Total(request.counts) = v
      BY <1>1, <1>2, <1>3, <1>4, <2>1 DEF RequestType
    <3> QED
      BY <2>1, <3>1, <3>2
  <2>2. CASE ~ request.given
    <3>1. allocation' = Even(v, k)
      BY <1>4, <2>2 DEF Create
    <3>2. k \in Nat \ {0}
      BY <1>3, <1>4
    <3> HIDE DEF k, v
    <3>3. /\ Even(v, k) \in [1 .. k -> Nat]
          /\ Total(Even(v, k)) = v
          /\ \A i \in 1 .. k : Even(v, k)[i] \in {v \div k, (v \div k) + 1}
      BY <1>3, <3>2, EvenTotal
    <3> QED
      BY <2>2, <3>1, <3>3
  <2> QED
    BY <2>1, <2>2
<1>5. world.points = <<>> => allocation' = <<>>
  BY DEF Create
<1>6. Accepted(world, request, allocation')
  BY <1>2, <1>4, <1>5 DEF Accepted
<1>7. /\ UNCHANGED <<world, request, islands, points, routing, access, trips, walks, occupants>>
      /\ stage = "submitted" /\ stage' = "created"
  BY DEF Create
<1> QED
  BY <1>6, <1>7 DEF Inv, Stages

LEMMA ConfigureInv ==
  ASSUME PreparationAssumption, Inv, Configure
  PROVE  Inv'
<1>1. MapType(world) /\ RequestType(request)
  BY DEF Inv, PreparationAssumption
<1>2. /\ UNCHANGED <<world, request, islands, allocation, access, trips, walks, occupants>>
      /\ stage = "created" /\ stage' = "configured"
      /\ points' = ConfiguredPoints
      /\ routing' = ConfiguredRouting
  BY DEF Configure
<1>3. Accepted(world, request, allocation)
  BY <1>2 DEF Inv
<1>4. /\ \A i, j \in DOMAIN world.points : i # j => world.points[i] # world.points[j]
      /\ \A lot \in world.selected : world.roads[lot] # <<>>
      /\ world.points = <<>> => \A lot \in world.selected : ReachedEdges(lot) # {}
  BY NoConfigureProblem DEF Configure
<1> DEFINE PointType == [id : Nat, edge : Entries, count : Int]
           k == Len(world.points)
<1>5. world.points \in Seq(Entries) /\ DOMAIN world.points = 1 .. k /\ k \in Nat
  BY <1>1 DEF MapType
<1>6. \A lot \in world.selected : /\ world.roads[lot] \in Seq(SUBSET Entries)
                                  /\ DOMAIN world.roads[lot] # {}
  <2> SUFFICES ASSUME NEW lot \in world.selected
               PROVE  world.roads[lot] \in Seq(SUBSET Entries) /\ DOMAIN world.roads[lot] # {}
    OBVIOUS
  <2>1. world.roads[lot] \in Seq(SUBSET Entries)
    BY <1>1 DEF MapType
  <2> DEFINE roads == world.roads[lot]
  <2>2. roads # <<>>
    BY <1>4
  <2> HIDE DEF roads
  <2>3. roads \in Seq(SUBSET Entries)
    BY <2>1 DEF roads
  <2>4. 1 \in DOMAIN roads
    BY <2>2, <2>3
  <2> QED
    BY <2>3, <2>4 DEF roads
<1>7. CASE world.points # <<>>
  <2> DEFINE ps == [i \in DOMAIN world.points |->
                      [id |-> i, edge |-> world.points[i], count |-> allocation[i]]]
  <2>1. points' = ps
    BY <1>2, <1>7 DEF ConfiguredPoints, SavedPoints
  <2>2. allocation \in [1 .. k -> Nat]
    BY <1>3, <1>7 DEF Accepted
  <2>3. \A i \in 1 .. k : [id |-> i, edge |-> world.points[i], count |-> allocation[i]] \in PointType
    BY <1>5, <2>2
  <2>4. ps \in [1 .. k -> PointType]
    BY <1>5, <2>3
  <2> HIDE DEF PointType
  <2>5. ps \in Seq(PointType) /\ Len(ps) = k
    <3> HIDE DEF ps
    <3> QED
      BY <1>5, <2>4, SeqDef
  <2>6. k # 0
    BY <1>5, <1>7
  <2>7. ps # <<>>
    BY <2>5, <2>6
  <2>8. \A lot \in world.selected :
          routing'[lot] \subseteq DOMAIN world.roads[lot] /\ routing'[lot] # {}
    BY <1>2, <1>6, <1>7 DEF ConfiguredRouting
  <2>9. Configured(world, allocation, points', routing')
    BY <1>4, <2>1, <2>5, <2>7, <2>8 DEF Configured, PointType
  <2> QED
    BY <1>2, <1>3, <2>9 DEF Inv, Stages
<1>8. CASE world.points = <<>>
  <2>1. points' = FoundPoints
    BY <1>2, <1>8 DEF ConfiguredPoints
  <2>2. FoundPoints \in Seq(FoundPoint) /\ (world.selected # {} => FoundPoints # <<>>)
    BY <1>1, <1>4, <1>8, FoundPointsFound
  <2>3. FoundPoint \subseteq PointType
    BY DEF FoundPoint, Uncounted
  <2>4. FoundPoints \in Seq(PointType)
    <3> HIDE DEF PointType
    <3> QED
      BY <2>2, <2>3, SeqMonotonic
  <2>5. ASSUME NEW lot \in world.selected
        PROVE  routing'[lot] \subseteq DOMAIN world.roads[lot] /\ routing'[lot] # {}
    <3>1. Min(ReachedEdges(lot)) \in ReachedEdges(lot)
      BY <1>1, <1>4, <1>8, PreferredEntriesFound
    <3>2. Min(ReachedEdges(lot)) \in DOMAIN world.roads[lot]
      BY <3>1 DEF ReachedEdges
    <3>3. routing'[lot] = {Min(ReachedEdges(lot))}
      BY <1>2, <1>8 DEF ConfiguredRouting
    <3> QED
      BY <3>2, <3>3
  <2>6. Configured(world, allocation, points', routing')
    BY <1>4, <1>8, <2>1, <2>2, <2>4, <2>5 DEF Configured
  <2> QED
    BY <1>2, <1>3, <2>6 DEF Inv, Stages
<1> QED
  BY <1>7, <1>8

LEMMA RequestedIs == \A m \in Modes : Requested(m) = RequestedOf(request, m)
BY DEF Requested, RequestedOf

LEMMA WalkableIs ==
  \A p, q : Walkable(Snap(p), Snap(q)) <=> WalkableOf(world, islands, p, q)
BY SnapIsSnapOf DEF Walkable, WalkableOf

LEMMA ResolvedAccessible ==
  ASSUME PreparationAssumption, MapType(world), ResolveProblems = {}
  PROVE  Accessible(world, islands, request, Resolved)
<1>1. /\ \A b \in Buildings : DOMAIN world.near[b] # {}
      /\ \A m \in Modes : Requested(m) > 0 => Resolved.origins[m] # {}
      /\ request.vehicles > 0 => \E b \in Buildings : Resolved.candidates[b] # {}
  BY NoResolveProblem DEF Candidates
<1>2. Resolved.areas = {a \in Areas : LotOf[a] \in world.selected /\ DOMAIN world.near[a] # {}}
  BY DEF Resolved, AttachedAreas, Candidates
<1>3. ASSUME NEW b \in Buildings
      PROVE  Resolved.candidates[b]
               = {LotOf[a] : a \in {a \in Resolved.areas : WalkableOf(world, islands, a, b)}}
  <2>1. Resolved.candidates[b] = ParkingCandidates(b) /\ Resolved.areas = AttachedAreas
    BY DEF Resolved
  <2>2. {a \in AttachedAreas : Walkable(Snap(a), Snap(b))}
          = {a \in AttachedAreas : WalkableOf(world, islands, a, b)}
    BY WalkableIs
  <2> QED
    BY <2>1, <2>2 DEF ParkingCandidates
<1>4. ASSUME NEW m \in Modes, NEW o \in Resolved.origins[m]
      PROVE  /\ o \in Buildings \cup Stops
             /\ Resolved.reachable[o] # {}
             /\ Resolved.reachable[o] \subseteq Buildings
             /\ \A b \in Resolved.reachable[o] :
                  /\ SnapOf(world, islands, b) # SnapOf(world, islands, o)
                  /\ WalkableOf(world, islands, o, b)
  <2>1. o \in Origins(m) /\ RoutableDestinations(o) # {}
    BY DEF Resolved
  <2>2. o \in Buildings \cup Stops
    BY <2>1 DEF Origins, MapType
  <2>3. Resolved.reachable[o] = RoutableDestinations(o)
    BY <2>1 DEF Resolved
  <2> QED
    BY <2>1, <2>2, <2>3, SnapIsSnapOf, WalkableIs DEF RoutableDestinations
<1> QED
  BY <1>1, <1>2, <1>3, <1>4, RequestedIs DEF Accessible

LEMMA ResolveInv ==
  ASSUME PreparationAssumption, Inv, Resolve
  PROVE  Inv'
<1>1. MapType(world)
  BY DEF Inv, PreparationAssumption
<1>2. /\ UNCHANGED <<world, request, islands, allocation, points, routing, trips, walks, occupants>>
      /\ stage = "configured" /\ stage' = "resolved"
      /\ access' = Resolved
      /\ ResolveProblems = {}
  BY DEF Resolve
<1>3. Accessible(world, islands, request, access')
  BY <1>1, <1>2, ResolvedAccessible
<1>4. trips = <<>> /\ occupants = <<>>
  BY <1>2 DEF Inv
<1>5. Departed(world, request, points, trips)
  BY <1>4 DEF Departed
<1>6. Arrived(world, islands, access', trips, occupants)
  BY <1>4 DEF Arrived
<1> QED
  BY <1>2, <1>3, <1>5, <1>6 DEF Inv, Stages

(***************************************************************************)
(* The draw.                                                               *)
(***************************************************************************)
LEMMA OriginsKnown ==
  ASSUME NEW w, MapType(w), NEW r, RequestType(r), NEW alloc, Accepted(w, r, alloc),
         NEW ps, NEW rt, Configured(w, alloc, ps, rt)
  PROVE  /\ OriginsOf(w, r, ps) \in [1 .. r.vehicles -> DOMAIN ps]
         /\ w.points # <<>> =>
              /\ DOMAIN ps = DOMAIN w.points
              /\ \A i \in DOMAIN ps :
                   Cardinality(EnteringAt(OriginsOf(w, r, ps), r.vehicles, i)) = alloc[i]
<1>1. r.vehicles \in Nat
  BY DEF RequestType
<1>2. CASE w.points = <<>>
  <2> DEFINE from == [n \in 1 .. r.vehicles |-> ((n - 1) % Len(ps)) + 1]
  <2>1. OriginsOf(w, r, ps) = from
    BY <1>2 DEF OriginsOf
  <2>2. ps \in Seq([id : Nat, edge : Entries, count : Int])
    BY DEF Configured
  <2>3. Len(ps) \in Nat /\ DOMAIN ps = 1 .. Len(ps)
    BY <2>2
  <2>4. ASSUME NEW n \in 1 .. r.vehicles PROVE ((n - 1) % Len(ps)) + 1 \in DOMAIN ps
    <3>1. r.vehicles > 0
      BY <1>1
    <3>2. ps # <<>>
      BY <3>1 DEF Accepted, Configured
    <3>3. Len(ps) \in Nat \ {0}
      BY <2>2, <2>3, <3>2
    <3> DEFINE k == Len(ps)
    <3> HIDE DEF k
    <3>4. k \in Nat \ {0}
      BY <3>3 DEF k
    <3>5. (n - 1) % k \in 0 .. k - 1
      BY <1>1, <3>4
    <3>6. ((n - 1) % k) + 1 \in 1 .. k
      BY <3>4, <3>5
    <3> QED
      BY <2>3, <3>6 DEF k
  <2>5. from \in [1 .. r.vehicles -> DOMAIN ps]
    BY <2>4
  <2> QED
    BY <1>2, <2>1, <2>5
<1>3. CASE w.points # <<>>
  <2> DEFINE k == Len(w.points)
  <2>1. w.points \in Seq(Entries) /\ k \in Nat /\ DOMAIN w.points = 1 .. k
    BY DEF MapType
  <2>2. alloc \in [1 .. k -> Nat] /\ Total(alloc) = r.vehicles
    BY <1>3 DEF Accepted
  <2>3. ps = [i \in DOMAIN w.points |->
                [id |-> i, edge |-> w.points[i], count |-> alloc[i]]]
    BY <1>3 DEF Configured
  <2>4. DOMAIN ps = 1 .. k /\ \A i \in DOMAIN ps : ps[i].count = alloc[i]
    BY <2>1, <2>3
  <2> HIDE DEF k
  <2>5. Counts(ps, alloc, r.vehicles)
    BY <1>1, <2>1, <2>2, <2>4 DEF Counts
  <2>6. /\ OriginsOf(w, r, ps) \in [1 .. r.vehicles -> DOMAIN ps]
        /\ \A i \in DOMAIN ps :
             Cardinality(EnteringAt(OriginsOf(w, r, ps), r.vehicles, i)) = alloc[i]
    <3>1. w.points # <<>>
      BY <1>3
    <3>2. Divides(w, r, ps, alloc)
      BY <2>5, <3>1 DEF Divides
    <3> QED
      BY <3>2, DeparturesExact
  <2> QED
    BY <2>1, <2>4, <2>6
<1> QED
  BY <1>2, <1>3

LEMMA InvTypes ==
  ASSUME PreparationAssumption, Inv
  PROVE  MapType(world) /\ RequestType(request)
BY DEF Inv, PreparationAssumption

\* The point at which the next vehicle enters.
LEMMA NextPointKnown ==
  ASSUME PreparationAssumption, Inv, stage = "resolved", Len(trips) < request.vehicles
  PROVE  /\ Len(trips) + 1 \in 1 .. request.vehicles
         /\ OriginsOf(world, request, points)[Len(trips) + 1] \in DOMAIN points
         /\ NextPoint = points[OriginsOf(world, request, points)[Len(trips) + 1]]
         /\ NextPoint \in [id : Nat, edge : Entries, count : Int]
<1>1. /\ MapType(world) /\ RequestType(request)
      /\ Accepted(world, request, allocation)
      /\ Configured(world, allocation, points, routing)
  BY InvTypes DEF Inv
<1>2. OriginsOf(world, request, points) \in [1 .. request.vehicles -> DOMAIN points]
  BY <1>1, OriginsKnown
<1>3. Len(trips) \in Nat /\ request.vehicles \in Nat
  BY <1>1 DEF Inv, Realizable, RequestType
<1>4. Len(trips) + 1 \in 1 .. request.vehicles
  BY <1>3
<1>5. OriginsOf(world, request, points)[Len(trips) + 1] \in DOMAIN points
  BY <1>2, <1>4
<1>6. NextPoint = points[OriginsOf(world, request, points)[Len(trips) + 1]]
  BY VehicleOriginsAre DEF NextPoint
<1>7. points \in Seq([id : Nat, edge : Entries, count : Int])
  BY <1>1 DEF Configured
<1>8. NextPoint \in [id : Nat, edge : Entries, count : Int]
  <2>1. DOMAIN points = 1 .. Len(points)
    BY <1>7, LenProperties
  <2> QED
    BY <1>5, <1>6, <1>7, <2>1, ElementOfSeq
<1> QED
  BY <1>4, <1>5, <1>6, <1>8

\* A lot offered to a driver can be driven to and walked from.
LEMMA ReachableLotsReach ==
  ASSUME PreparationAssumption, Inv, stage = "resolved", NEW edge,
         NEW b \in Buildings, NEW lot \in ReachableLots(edge, b)
  PROVE  /\ lot \in Lots /\ lot \in world.selected
         /\ \E k \in DOMAIN world.roads[lot] : edge \in world.roads[lot][k]
         /\ \E a \in Areas : /\ LotOf[a] = lot
                             /\ DOMAIN world.near[a] # {}
                             /\ WalkableOf(world, islands, a, b)
<1>1. /\ MapType(world)
      /\ Configured(world, allocation, points, routing)
      /\ Accessible(world, islands, request, access)
  BY InvTypes DEF Inv
<1>2. lot \in access.candidates[b] /\ lot \in world.selected /\ Drives(edge, lot)
  BY DEF ReachableLots, TargetLots
<1>3. lot \in Lots
  BY <1>1, <1>2 DEF MapType
<1>4. \E k \in DOMAIN world.roads[lot] : edge \in world.roads[lot][k]
  <2>1. routing[lot] \subseteq DOMAIN world.roads[lot]
    BY <1>1, <1>2 DEF Configured
  <2> QED
    BY <1>2, <2>1 DEF Drives
<1>5. access.candidates[b]
        = {LotOf[a] : a \in {a \in access.areas : WalkableOf(world, islands, a, b)}}
  BY <1>1 DEF Accessible
<1>6. PICK a \in access.areas : LotOf[a] = lot /\ WalkableOf(world, islands, a, b)
  BY <1>2, <1>5
<1>7. a \in Areas /\ DOMAIN world.near[a] # {}
  BY <1>1, <1>6 DEF Accessible
<1> QED
  BY <1>2, <1>3, <1>4, <1>6, <1>7

LEMMA AppendTripInv ==
  ASSUME PreparationAssumption, Inv, AppendTrip
  PROVE  Inv'
<1>1. /\ UNCHANGED <<world, request, islands, stage, allocation, points, routing, access, walks,
                     occupants>>
      /\ stage = "resolved" /\ Len(trips) < request.vehicles
  BY DEF AppendTrip
<1>2. PICK b \in RoutableBuildings(NextPoint.edge) \cap world.weighted :
        \E lot \in ReachableLots(NextPoint.edge, b) :
          trips' = Append(trips, [id       |-> <<NextPoint.id, Len(trips)>>,
                                  from     |-> NextPoint.edge,
                                  building |-> b,
                                  lot      |-> lot,
                                  lots     |-> ReachableLots(NextPoint.edge, b)])
  BY DEF AppendTrip
<1>3. PICK lot \in ReachableLots(NextPoint.edge, b) :
        trips' = Append(trips, [id       |-> <<NextPoint.id, Len(trips)>>,
                                from     |-> NextPoint.edge,
                                building |-> b,
                                lot      |-> lot,
                                lots     |-> ReachableLots(NextPoint.edge, b)])
  BY <1>2
<1> DEFINE t == [id       |-> <<NextPoint.id, Len(trips)>>,
                 from     |-> NextPoint.edge,
                 building |-> b,
                 lot      |-> lot,
                 lots     |-> ReachableLots(NextPoint.edge, b)]
           n == Len(trips)
           origins == OriginsOf(world, request, points)
<1>4. b \in Buildings
  BY DEF RoutableBuildings
<1>5. /\ trips \in Seq(Trip) /\ n \in Nat /\ request.vehicles \in Nat
      /\ Realizable(world, islands, request, trips, walks)
      /\ Departed(world, request, points, trips)
  <2>1. RequestType(request)
    BY InvTypes
  <2>2. Realizable(world, islands, request, trips, walks)
    BY DEF Inv
  <2>3. Departed(world, request, points, trips)
    BY <1>1 DEF Inv
  <2>4. trips \in Seq(Trip)
    BY <2>2 DEF Realizable
  <2>5. Len(trips) \in Nat
    BY <2>4, LenProperties
  <2> QED
    BY <2>1, <2>2, <2>3, <2>4, <2>5 DEF RequestType
<1>6. /\ n + 1 \in 1 .. request.vehicles
      /\ origins[n + 1] \in DOMAIN points
      /\ NextPoint = points[origins[n + 1]]
      /\ NextPoint \in [id : Nat, edge : Entries, count : Int]
  BY <1>1, NextPointKnown
<1>7. \A l \in ReachableLots(NextPoint.edge, b) :
        /\ l \in Lots /\ l \in world.selected
        /\ \E k \in DOMAIN world.roads[l] : NextPoint.edge \in world.roads[l][k]
        /\ \E a \in Areas : /\ LotOf[a] = l
                            /\ DOMAIN world.near[a] # {}
                            /\ WalkableOf(world, islands, a, b)
  BY <1>1, <1>4, ReachableLotsReach
<1>8. /\ t.id = <<NextPoint.id, n>> /\ t.id[2] = n /\ t.from = NextPoint.edge
      /\ t.building = b /\ t.lots = ReachableLots(NextPoint.edge, b)
  OBVIOUS
<1>9. t \in Trip
  <2>1. NextPoint.id \in Nat /\ NextPoint.edge \in Entries
    BY <1>6
  <2>2. lot \in Lots /\ ReachableLots(NextPoint.edge, b) \in SUBSET Lots
    BY <1>7
  <2> QED
    BY <1>4, <1>5, <2>1, <2>2 DEF Trip
<1> HIDE DEF t
<1>10. trips' = Append(trips, t)
  BY <1>3 DEF t
<1>11. /\ trips' \in Seq(Trip) /\ Len(trips') = n + 1
       /\ \A i \in 1 .. n : trips'[i] = trips[i]
       /\ trips'[n + 1] = t
  BY <1>5, <1>9, <1>10, AppendProperties
<1>12. \A i \in 1 .. n + 1 : i \in 1 .. n \/ i = n + 1
  BY <1>5
<1>13. Realizable(world, islands, request, trips', walks)
  <2>1. \A i \in 1 .. n :
          /\ trips[i].id[2] = i - 1
          /\ \A l \in trips[i].lots :
               /\ l \in world.selected
               /\ \E k \in DOMAIN world.roads[l] : trips[i].from \in world.roads[l][k]
               /\ \E a \in Areas : /\ LotOf[a] = l
                                   /\ DOMAIN world.near[a] # {}
                                   /\ WalkableOf(world, islands, a, trips[i].building)
    BY <1>5 DEF Realizable
  <2>2. /\ t.id[2] = (n + 1) - 1
        /\ \A l \in t.lots :
             /\ l \in world.selected
             /\ \E k \in DOMAIN world.roads[l] : t.from \in world.roads[l][k]
             /\ \E a \in Areas : /\ LotOf[a] = l
                                 /\ DOMAIN world.near[a] # {}
                                 /\ WalkableOf(world, islands, a, t.building)
    BY <1>5, <1>7, <1>8
  <2>3. \A i \in 1 .. n + 1 :
          /\ trips'[i].id[2] = i - 1
          /\ \A l \in trips'[i].lots :
               /\ l \in world.selected
               /\ \E k \in DOMAIN world.roads[l] : trips'[i].from \in world.roads[l][k]
               /\ \E a \in Areas : /\ LotOf[a] = l
                                   /\ DOMAIN world.near[a] # {}
                                   /\ WalkableOf(world, islands, a, trips'[i].building)
    <3> SUFFICES ASSUME NEW i \in 1 .. n + 1
                 PROVE  /\ trips'[i].id[2] = i - 1
                        /\ \A l \in trips'[i].lots :
                             /\ l \in world.selected
                             /\ \E k \in DOMAIN world.roads[l] :
                                  trips'[i].from \in world.roads[l][k]
                             /\ \E a \in Areas :
                                  /\ LotOf[a] = l
                                  /\ DOMAIN world.near[a] # {}
                                  /\ WalkableOf(world, islands, a, trips'[i].building)
      OBVIOUS
    <3>1. CASE i \in 1 .. n
      <4>1. trips'[i] = trips[i]
        BY <1>11, <3>1
      <4> QED
        BY <2>1, <3>1, <4>1
    <3>2. CASE i = n + 1
      <4>1. trips'[i] = t
        BY <1>11, <3>2
      <4> QED
        BY <2>2, <3>2, <4>1
    <3> QED
      BY <1>12, <3>1, <3>2
  <2>4. n + 1 <= request.vehicles
    BY <1>6
  <2> QED
    BY <1>5, <1>11, <2>3, <2>4 DEF Realizable
<1>14. Departed(world, request, points, trips')
  <2>1. \A i \in 1 .. n : origins[i] \in DOMAIN points /\ trips[i].from = points[origins[i]].edge
    BY <1>5 DEF Departed
  <2>2. t.from = points[origins[n + 1]].edge
    BY <1>6, <1>8
  <2>3. \A i \in 1 .. n + 1 :
          origins[i] \in DOMAIN points /\ trips'[i].from = points[origins[i]].edge
    BY <1>6, <1>11, <1>12, <2>1, <2>2
  <2> QED
    BY <1>11, <2>3 DEF Departed
<1>15. Arrived(world, islands, access, trips', occupants)
  <2>1. occupants = <<>>
    BY <1>1 DEF Inv
  <2> QED
    BY <2>1 DEF Arrived
<1> QED
  BY <1>1, <1>13, <1>14, <1>15 DEF Inv

LEMMA SentGrows ==
  ASSUME NEW ws \in Seq(Walk), NEW k \in Walk, NEW m \in Modes
  PROVE  /\ IsFiniteSet(Sent(ws, m)) /\ Cardinality(Sent(ws, m)) \in Nat
         /\ Cardinality(Sent(Append(ws, k), m))
              = Cardinality(Sent(ws, m)) + (IF k.mode = m THEN 1 ELSE 0)
<1> DEFINE n  == Len(ws)
           us == Append(ws, k)
<1>1. n \in Nat /\ DOMAIN ws = 1 .. n
  BY LenProperties
<1>2. /\ Len(us) = n + 1 /\ DOMAIN us = 1 .. n + 1
      /\ \A i \in 1 .. n : us[i] = ws[i]
      /\ us[n + 1] = k
  BY <1>1, AppendProperties
<1> DEFINE S == Sent(ws, m)
           T == Sent(us, m)
<1>3. S \subseteq 1 .. n
  BY <1>1 DEF Sent
<1>4. IsFiniteSet(1 .. n)
  BY <1>1, FS_Interval
<1> HIDE DEF us, n
<1>5. T = IF k.mode = m THEN S \cup {n + 1} ELSE S
  <2>1. \A i : i \in S <=> i \in 1 .. n /\ ws[i].mode = m
    BY <1>1 DEF Sent
  <2>2. \A i : i \in T <=> i \in 1 .. n + 1 /\ us[i].mode = m
    BY <1>2 DEF Sent
  <2>3. \A i : i \in 1 .. n + 1 <=> i \in 1 .. n \/ i = n + 1
    BY <1>1
  <2> HIDE DEF S, T
  <2>4. ASSUME NEW i PROVE i \in T <=> i \in S \/ (i = n + 1 /\ k.mode = m)
    <3>1. CASE i \in 1 .. n
      <4>1. i # n + 1
        BY <1>1, <3>1
      <4> QED
        BY <1>2, <2>1, <2>2, <2>3, <3>1, <4>1
    <3>2. CASE i \notin 1 .. n
      BY <1>2, <2>1, <2>2, <2>3, <3>2
    <3> QED
      BY <3>1, <3>2
  <2> QED
    BY <2>4
<1>6. n + 1 \notin S
  BY <1>1, <1>3
<1> HIDE DEF S, T
<1>7. IsFiniteSet(S) /\ Cardinality(S) \in Nat
  BY <1>3, <1>4, FS_Subset, FS_CardinalityType
<1>8. Cardinality(S \cup {n + 1}) = Cardinality(S) + 1
  BY <1>6, <1>7, FS_AddElement
<1>9. Cardinality(T) = Cardinality(S) + (IF k.mode = m THEN 1 ELSE 0)
  BY <1>5, <1>7, <1>8
<1> QED
  BY <1>7, <1>9 DEF S, T, us

LEMMA AppendWalkInv ==
  ASSUME PreparationAssumption, Inv, AppendWalk
  PROVE  Inv'
<1>1. /\ UNCHANGED <<world, request, islands, stage, allocation, points, routing, access, trips,
                     occupants>>
      /\ stage = "resolved"
  BY DEF AppendWalk
<1>2. PICK m \in Modes : \E o \in access.origins[m] :
        /\ Due(m, o)
        /\ \E b \in access.reachable[o] \cap world.weighted :
             walks' = Append(walks, [mode |-> m, origin |-> o, building |-> b])
  BY DEF AppendWalk
<1>3. PICK o \in access.origins[m] :
        /\ Due(m, o)
        /\ \E b \in access.reachable[o] \cap world.weighted :
             walks' = Append(walks, [mode |-> m, origin |-> o, building |-> b])
  BY <1>2
<1>4. PICK b \in access.reachable[o] \cap world.weighted :
        walks' = Append(walks, [mode |-> m, origin |-> o, building |-> b])
  BY <1>3
<1>5. /\ Accessible(world, islands, request, access)
      /\ Realizable(world, islands, request, trips, walks)
      /\ WalksCounted(request, walks)
      /\ RequestType(request)
  BY <1>1, InvTypes DEF Inv
<1>6. /\ o \in Buildings \cup Stops /\ b \in Buildings
      /\ SnapOf(world, islands, b) # SnapOf(world, islands, o)
      /\ WalkableOf(world, islands, o, b)
  BY <1>4, <1>5 DEF Accessible
<1> DEFINE k == [mode |-> m, origin |-> o, building |-> b]
           n == Len(walks)
<1>7. k \in Walk /\ k.mode = m /\ k.origin = o /\ k.building = b
  BY <1>6 DEF Walk
<1> HIDE DEF k
<1>8. walks' = Append(walks, k)
  BY <1>4 DEF k
<1>9. walks \in Seq(Walk)
  BY <1>5 DEF Realizable
<1>10. n \in Nat
  BY <1>9, LenProperties
<1>11. /\ walks' \in Seq(Walk) /\ Len(walks') = n + 1
       /\ \A i \in 1 .. n : walks'[i] = walks[i]
       /\ walks'[n + 1] = k
  BY <1>7, <1>8, <1>9, AppendProperties
<1> HIDE DEF n
<1>12. Realizable(world, islands, request, trips, walks')
  <2>1. \A i \in 1 .. n :
          /\ SnapOf(world, islands, walks[i].origin) # SnapOf(world, islands, walks[i].building)
          /\ WalkableOf(world, islands, walks[i].origin, walks[i].building)
    BY <1>5 DEF Realizable, n
  <2>2. \A i \in 1 .. n + 1 : i \in 1 .. n \/ i = n + 1
    BY <1>10
  <2>3. \A i \in 1 .. n + 1 :
          /\ SnapOf(world, islands, walks'[i].origin) # SnapOf(world, islands, walks'[i].building)
          /\ WalkableOf(world, islands, walks'[i].origin, walks'[i].building)
    BY <1>6, <1>7, <1>11, <2>1, <2>2
  <2> QED
    BY <1>5, <1>11, <2>3 DEF Realizable
<1>13. WalksCounted(request, walks')
  <2>1. Cardinality(Sent(walks, m)) < RequestedOf(request, m)
    <3>1. Cardinality(WalksOf(m)) < Requested(m)
      BY <1>3 DEF Due
    <3> QED
      BY <3>1, RequestedIs DEF WalksOf, Sent
  <2>2. \A x \in Modes :
          /\ Cardinality(Sent(walks, x)) \in Nat
          /\ Cardinality(Sent(walks', x))
               = Cardinality(Sent(walks, x)) + (IF m = x THEN 1 ELSE 0)
          /\ RequestedOf(request, x) \in Nat
    BY <1>5, <1>7, <1>8, <1>9, SentGrows DEF RequestedOf, RequestType
  <2>3. ASSUME NEW x \in Modes PROVE Cardinality(Sent(walks', x)) <= RequestedOf(request, x)
    <3>1. Cardinality(Sent(walks, x)) <= RequestedOf(request, x)
      BY <1>5 DEF WalksCounted
    <3> QED
      BY <2>1, <2>2, <3>1
  <2>4. Cardinality(Sent(walks', "residential")) + Cardinality(Sent(walks', "public_transport"))
          = n + 1
    <3>1. Cardinality(Sent(walks, "residential")) + Cardinality(Sent(walks, "public_transport"))
            = n
      BY <1>5 DEF WalksCounted, n
    <3>2. m = "residential" \/ m = "public_transport"
      BY DEF Modes
    <3>3. \A x \in {"residential", "public_transport"} :
          /\ Cardinality(Sent(walks, x)) \in Nat
          /\ Cardinality(Sent(walks', x))
               = Cardinality(Sent(walks, x)) + (IF m = x THEN 1 ELSE 0)
      BY <2>2 DEF Modes
    <3> QED
      BY <1>10, <3>1, <3>2, <3>3
  <2> QED
    BY <1>11, <2>3, <2>4 DEF WalksCounted
<1> QED
  BY <1>1, <1>12, <1>13 DEF Inv

LEMMA WriteDemandInv ==
  ASSUME PreparationAssumption, Inv, WriteDemand
  PROVE  Inv'
<1>1. /\ UNCHANGED <<world, request, islands, allocation, points, routing, access, trips, walks,
                     occupants>>
      /\ stage = "resolved" /\ stage' = "written"
      /\ Len(trips) = request.vehicles /\ Len(walks) = request.residential + request.transport
  BY DEF WriteDemand, Pedestrians
<1> QED
  BY <1>1 DEF Inv, Stages

LEMMA FailInv ==
  ASSUME PreparationAssumption, Inv, Fail
  PROVE  Inv'
<1>1. /\ UNCHANGED <<world, request, islands, allocation, points, routing, access, trips, walks,
                     occupants>>
      /\ stage' = IF stage = "submitted" THEN "refused" ELSE "failed"
  BY DEF Fail
<1>2. stage \in {"submitted", "created", "configured", "resolved"}
  BY DEF Fail, Problems, Inv, Stages
<1> QED
  BY <1>1, <1>2 DEF Inv, Stages

(***************************************************************************)
(* Parking.                                                                *)
(***************************************************************************)
\* Two places of one component, and a third one that the second reaches.
LEMMA WalkOn ==
  ASSUME PreparationAssumption, NEW w, MapType(w), NEW of, Classes(of),
         NEW p \in Places, NEW q \in Places, NEW x \in Places,
         DOMAIN w.near[p] # {}, DOMAIN w.near[q] # {},
         WalkableOf(w, of, p, q), WalkableOf(w, of, q, x)
  PROVE  WalkableOf(w, of, p, x)
<1>1. SnapOf(w, of, p) \in Paths /\ SnapOf(w, of, q) \in Paths
  BY SnapBest
<1>2. of[SnapOf(w, of, q)] = of[SnapOf(w, of, p)]
  BY <1>1 DEF WalkableOf, Classes
<1> QED
  BY <1>2 DEF WalkableOf

LEMMA ParkInv ==
  ASSUME PreparationAssumption, Inv, NEW n \in DOMAIN trips, Park(n)
  PROVE  Inv'
<1>1. /\ UNCHANGED <<world, request, islands, stage, allocation, points, routing, access, trips,
                     walks>>
      /\ stage = "written"
  BY DEF Park
<1>2. /\ MapType(world) /\ Classes(islands)
      /\ Accessible(world, islands, request, access)
      /\ Realizable(world, islands, request, trips, walks)
      /\ Arrived(world, islands, access, trips, occupants)
  BY <1>1, InvTypes DEF Inv
<1> DEFINE reachedFrom(a) == {b \in Buildings : Walkable(Snap(a), Snap(b))}
           chosenFrom(a) == IF trips[n].building \in reachedFrom(a)
                            THEN {trips[n].building} ELSE reachedFrom(a)
<1>3. PICK a \in access.areas :
        /\ LotOf[a] \in trips[n].lots
        /\ \E b \in IF chosenFrom(a) = {} THEN {"stranded"} ELSE chosenFrom(a) :
             occupants' = [m \in DOMAIN occupants \cup {n} |->
                             IF m = n THEN [area |-> a, building |-> b] ELSE occupants[m]]
  BY DEF Park
<1>4. PICK b \in IF chosenFrom(a) = {} THEN {"stranded"} ELSE chosenFrom(a) :
        occupants' = [m \in DOMAIN occupants \cup {n} |->
                        IF m = n THEN [area |-> a, building |-> b] ELSE occupants[m]]
  BY <1>3
<1>5. ASSUME LevelLots(world, islands, access) PROVE b = trips[n].building
  <2>1. trips \in Seq(Trip) /\ n \in 1 .. Len(trips)
    BY <1>2, LenProperties DEF Realizable
  <2>2. trips[n].building \in Buildings
    <3>1. trips[n] \in Trip
      BY <2>1, ElementOfSeq
    <3> QED
      BY <3>1 DEF Trip
  <2>3. PICK c \in Areas : /\ LotOf[c] = LotOf[a]
                           /\ DOMAIN world.near[c] # {}
                           /\ WalkableOf(world, islands, c, trips[n].building)
    BY <1>2, <1>3, <2>1 DEF Realizable
  <2>4. a \in Areas /\ DOMAIN world.near[a] # {} /\ LotOf[a] \in world.selected
    BY <1>2 DEF Accessible
  <2>5. c \in access.areas
    BY <1>2, <2>3, <2>4 DEF Accessible
  <2>6. WalkableOf(world, islands, a, c)
    BY <1>5, <2>3, <2>5 DEF LevelLots
  <2>7. a \in Places /\ c \in Places /\ trips[n].building \in Places
    BY <2>2, <2>3, <2>4 DEF Places
  <2>8. WalkableOf(world, islands, a, trips[n].building)
    BY <1>2, <2>3, <2>4, <2>6, <2>7, WalkOn
  <2>9. trips[n].building \in reachedFrom(a)
    BY <2>2, <2>8, WalkableIs
  <2>10. chosenFrom(a) = {trips[n].building}
    BY <2>9
  <2> QED
    BY <1>4, <2>10
<1>6. Arrived(world, islands, access, trips, occupants')
  <2>1. ASSUME LevelLots(world, islands, access), NEW m \in DOMAIN occupants'
        PROVE  occupants'[m].building = trips[m].building
    <3>1. CASE m = n
      <4>1. occupants'[m].building = b
        BY <1>4, <3>1
      <4> QED
        BY <1>5, <2>1, <3>1, <4>1
    <3>2. CASE m # n
      BY <1>2, <1>4, <2>1, <3>2 DEF Arrived
    <3> QED
      BY <3>1, <3>2
  <2> QED
    BY <2>1 DEF Arrived
<1> QED
  BY <1>1, <1>6 DEF Inv

(***************************************************************************)
(* The invariant.                                                          *)
(***************************************************************************)
LEMMA InvStep ==
  ASSUME PreparationAssumption, Inv, [Next]_vars
  PROVE  Inv'
<1>1. CASE Create
  BY <1>1, CreateInv
<1>2. CASE Configure
  BY <1>2, ConfigureInv
<1>3. CASE Resolve
  BY <1>3, ResolveInv
<1>4. CASE AppendTrip
  BY <1>4, AppendTripInv
<1>5. CASE AppendWalk
  BY <1>5, AppendWalkInv
<1>6. CASE WriteDemand
  BY <1>6, WriteDemandInv
<1>7. CASE \E n \in DOMAIN trips : Park(n)
  BY <1>7, ParkInv
<1>8. CASE Fail
  BY <1>8, FailInv
<1>9. CASE UNCHANGED vars
  BY <1>9 DEF vars, Inv
<1> QED
  BY <1>1, <1>2, <1>3, <1>4, <1>5, <1>6, <1>7, <1>8, <1>9 DEF Next

\* The facts each program passes on to the next: what creation accepted, what
\* the scenario was configured with, what is accessible, and for the rows drawn
\* so far how they can be driven and walked.
THEOREM InvHolds == Spec => []Inv
<1>1. Init => Inv
  BY PreparationAssumption, InitInv
<1>2. Inv /\ [Next]_vars => Inv'
  BY PreparationAssumption, InvStep
<1> QED
  BY <1>1, <1>2, PTL DEF Spec

\* TripsRealizable: what the draw offers can be driven from the entry of the
\* vehicle and walked from an area of the lot (generate.py, person_access.py).
THEOREM TripsRealizableHolds == Spec => []TripsRealizable
<1>1. Inv => TripsRealizable
  <2> SUFFICES ASSUME Inv PROVE TripsRealizable
    OBVIOUS
  <2>1. Realizable(world, islands, request, trips, walks)
    BY DEF Inv
  <2>2. DOMAIN trips = 1 .. Len(trips) /\ DOMAIN walks = 1 .. Len(walks)
    BY <2>1, LenProperties DEF Realizable
  <2>3. ASSUME NEW n \in DOMAIN trips, NEW lot \in trips[n].lots
        PROVE  /\ lot \in world.selected
               /\ \E k \in DOMAIN world.roads[lot] : trips[n].from \in world.roads[lot][k]
               /\ \E a \in Areas : /\ LotOf[a] = lot
                                   /\ Candidates(a) # {}
                                   /\ Walkable(Snap(a), Snap(trips[n].building))
    BY <2>1, <2>2, WalkableIs DEF Realizable, Candidates
  <2>4. ASSUME NEW n \in DOMAIN walks
        PROVE  /\ Snap(walks[n].origin) # Snap(walks[n].building)
               /\ Walkable(Snap(walks[n].origin), Snap(walks[n].building))
    BY <2>1, <2>2, WalkableIs, SnapIsSnapOf DEF Realizable
  <2> QED
    BY <2>3, <2>4 DEF TripsRealizable
<1> QED
  BY <1>1, InvHolds, PTL

\* OccupantsArrive: the driver reaches the planned building whenever the areas
\* of each lot lead to one component (controller/person_manager.py).
THEOREM OccupantsArriveHolds == Spec => []OccupantsArrive
<1>1. Inv => OccupantsArrive
  BY WalkableIs DEF Inv, Arrived, LevelLots, OccupantsArrive
<1> QED
  BY <1>1, InvHolds, PTL

(***************************************************************************)
(* The later programs find nothing wrong with what creation accepted.      *)
(***************************************************************************)
Disagreements ==
  {"no parking configured", "allocation ids", "no origin", "no accessible parking",
   "no entry point", "point counts", "mode without origin"}

LEMMA RefusalsApart == Refusals \cap Disagreements = {}
BY DEF Refusals, When, Disagreements

LEMMA ConfigureAgrees ==
  ASSUME PreparationAssumption, Inv, stage = "created"
  PROVE  ConfigureProblems \cap Disagreements = {}
<1>1. MapType(world) /\ Accepted(world, request, allocation)
  BY InvTypes DEF Inv
<1>2. DOMAIN world.points = 1 .. Len(world.points)
  BY <1>1, LenProperties DEF MapType
<1>3. ~ (request.vehicles > 0 /\ world.selected = {})
  BY <1>1 DEF Accepted
<1>4. ~ (allocation # <<>> /\ DOMAIN allocation # DOMAIN world.points)
  BY <1>1, <1>2 DEF Accepted
<1> QED
  BY <1>3, <1>4 DEF ConfigureProblems, When, Disagreements

LEMMA ResolveAgrees ==
  ASSUME PreparationAssumption, Inv, stage = "configured"
  PROVE  ResolveProblems \cap Disagreements = {}
<1>1. RequestType(request) /\ Accepted(world, request, allocation)
  BY InvTypes DEF Inv
<1>2. AttachProblems \cap Disagreements = {}
  BY DEF AttachProblems, When, Disagreements
<1>3. ~ (Pedestrians > 0 /\ \A m \in Modes : Origins(m) = {})
  <2> SUFFICES ASSUME Pedestrians > 0 PROVE \E m \in Modes : Origins(m) # {}
    OBVIOUS
  <2>1. request.residential > 0 \/ request.transport > 0
    BY <1>1 DEF Pedestrians, RequestType
  <2>2. CASE request.residential > 0
    BY <1>1, <2>2 DEF Accepted, Origins, Requested, Modes
  <2>3. CASE request.transport > 0
    BY <1>1, <2>3 DEF Accepted, Origins, Requested, Modes
  <2> QED
    BY <2>1, <2>2, <2>3
<1> QED
  BY <1>2, <1>3 DEF ResolveProblems, When, Disagreements

LEMMA DemandAgrees ==
  ASSUME PreparationAssumption, Inv, stage = "resolved"
  PROVE  DemandProblems = {}
<1>1. /\ MapType(world) /\ RequestType(request)
      /\ Accepted(world, request, allocation)
      /\ Configured(world, allocation, points, routing)
      /\ Accessible(world, islands, request, access)
  BY InvTypes DEF Inv
<1>2. ~ (request.vehicles > 0 /\ TargetLots = {})
  <2> SUFFICES ASSUME request.vehicles > 0 PROVE TargetLots # {}
    OBVIOUS
  <2>1. PICK b \in Buildings : access.candidates[b] # {}
    BY <1>1 DEF Accessible
  <2>2. PICK a \in access.areas : WalkableOf(world, islands, a, b)
    BY <1>1, <2>1 DEF Accessible
  <2>3. LotOf[a] \in world.selected
    BY <1>1, <2>2 DEF Accessible
  <2> QED
    BY <2>2, <2>3 DEF TargetLots
<1>3. ~ (request.vehicles > 0 /\ points = <<>>)
  BY <1>1 DEF Accepted, Configured
<1>4. ASSUME world.points # <<>>
      PROVE  Total([i \in DOMAIN points |-> points[i].count]) = request.vehicles
  <2>1. DOMAIN world.points = 1 .. Len(world.points)
    BY <1>1, LenProperties DEF MapType
  <2>2. allocation \in [1 .. Len(world.points) -> Nat] /\ Total(allocation) = request.vehicles
    BY <1>1, <1>4 DEF Accepted
  <2>3. points = [i \in DOMAIN world.points |->
                    [id |-> i, edge |-> world.points[i], count |-> allocation[i]]]
    BY <1>1, <1>4 DEF Configured
  <2>4. [i \in DOMAIN points |-> points[i].count] = allocation
    BY <2>1, <2>2, <2>3
  <2> QED
    BY <2>2, <2>4
<1>5. \A m \in Modes : ~ (Requested(m) > 0 /\ access.origins[m] = {})
  BY <1>1, RequestedIs DEF Accessible
<1> QED
  BY <1>2, <1>3, <1>4, <1>5 DEF DemandProblems, When

LEMMA DrawApart == DrawProblems \cap Disagreements = {}
BY DEF DrawProblems, When, Disagreements

\* ChecksAgree: what creation accepted, no later check of the same fact
\* rejects (service.py, configure.py, generate.py).
THEOREM ChecksAgreeHolds == Spec => []ChecksAgree
<1>1. Init => ChecksAgree
  BY DEF Init, ChecksAgree
<1>2. Inv /\ ChecksAgree /\ [Next]_vars => ChecksAgree'
  <2> SUFFICES ASSUME Inv, ChecksAgree, [Next]_vars PROVE ChecksAgree'
    OBVIOUS
  <2>1. CASE reason' = reason
    BY <2>1 DEF ChecksAgree
  <2>2. CASE Fail
    <3>1. reason' \in Problems
      BY <2>2 DEF Fail
    <3>2. Problems \cap Disagreements = {}
      BY PreparationAssumption, RefusalsApart, ConfigureAgrees, ResolveAgrees, DemandAgrees,
         DrawApart DEF Problems
    <3> QED
      BY <3>1, <3>2 DEF ChecksAgree, Disagreements
  <2>3. reason' = reason \/ Fail
    BY DEF Next, vars, Create, Configure, Resolve, AppendTrip, AppendWalk, WriteDemand, Park
  <2> QED
    BY <2>1, <2>2, <2>3
<1> QED
  BY <1>1, <1>2, InvHolds, PTL DEF Spec

(***************************************************************************)
(* Demand.                                                                 *)
(***************************************************************************)
LEMMA WalksComplete ==
  ASSUME PreparationAssumption, Inv, stage = "written", NEW m \in Modes
  PROVE  Cardinality(WalksOf(m)) = Requested(m)
<1> DEFINE a == Cardinality(Sent(walks, "residential"))
           b == Cardinality(Sent(walks, "public_transport"))
<1>1. /\ RequestType(request) /\ WalksCounted(request, walks)
      /\ Realizable(world, islands, request, trips, walks)
      /\ Len(walks) = request.residential + request.transport
  BY InvTypes DEF Inv
<1>2. walks \in Seq(Walk)
  BY <1>1 DEF Realizable
<1>3. \A x \in Modes : Cardinality(Sent(walks, x)) \in Nat
  <2> SUFFICES ASSUME NEW x \in Modes PROVE Cardinality(Sent(walks, x)) \in Nat
    OBVIOUS
  <2>1. DOMAIN walks = 1 .. Len(walks) /\ Len(walks) \in Nat
    BY <1>2, LenProperties
  <2>2. IsFiniteSet(1 .. Len(walks))
    BY <2>1, FS_Interval
  <2>3. Sent(walks, x) \subseteq 1 .. Len(walks)
    BY <2>1 DEF Sent
  <2> QED
    BY <2>2, <2>3, FS_Subset, FS_CardinalityType
<1>4. a \in Nat /\ b \in Nat
  BY <1>3 DEF Modes
<1>5. /\ a <= request.residential /\ b <= request.transport
      /\ a + b = request.residential + request.transport
  BY <1>1 DEF WalksCounted, RequestedOf, Modes
<1>6. a = request.residential /\ b = request.transport
  <2> HIDE DEF a, b
  <2> QED
    BY <1>1, <1>4, <1>5 DEF RequestType
<1>7. Cardinality(Sent(walks, m)) = RequestedOf(request, m)
  BY <1>6 DEF Modes, RequestedOf
<1> QED
  BY <1>7, RequestedIs DEF WalksOf, Sent

\* The vehicles that enter at an edge, as DemandExact counts them.
EnteredAt(ts, edge) == {n \in DOMAIN ts : ts[n].from = edge}

LEMMA PointsServed ==
  ASSUME PreparationAssumption, Inv, stage = "written", NEW i \in DOMAIN world.points
  PROVE  /\ Cardinality(EnteredAt(trips, world.points[i])) = allocation[i]
         /\ request.given => allocation = request.counts
         /\ ~ request.given =>
              allocation[i] \in {request.vehicles \div Len(world.points),
                                 (request.vehicles \div Len(world.points)) + 1}
<1> DEFINE v == request.vehicles
           from == OriginsOf(world, request, points)
<1>1. /\ MapType(world) /\ RequestType(request)
      /\ Accepted(world, request, allocation)
      /\ Configured(world, allocation, points, routing)
      /\ Departed(world, request, points, trips)
      /\ Realizable(world, islands, request, trips, walks)
      /\ Len(trips) = v
  BY InvTypes DEF Inv
<1>2. world.points # <<>>
  OBVIOUS
<1>3. /\ from \in [1 .. v -> DOMAIN points]
      /\ DOMAIN points = DOMAIN world.points
      /\ \A j \in DOMAIN points : Cardinality(EnteringAt(from, v, j)) = allocation[j]
  BY <1>1, <1>2, OriginsKnown
<1>4. DOMAIN trips = 1 .. v
  BY <1>1, LenProperties DEF Realizable
<1>5. /\ \A x, y \in DOMAIN world.points : x # y => world.points[x] # world.points[y]
      /\ \A x \in DOMAIN world.points : points[x].edge = world.points[x]
  BY <1>1, <1>2 DEF Configured
<1>6. \A n \in 1 .. v : trips[n].from = points[from[n]].edge
  BY <1>1 DEF Departed
<1> HIDE DEF from
<1>7. \A n \in 1 .. v : trips[n].from = world.points[i] <=> from[n] = i
  BY <1>3, <1>5, <1>6
<1>8. EnteredAt(trips, world.points[i]) = EnteringAt(from, v, i)
  BY <1>4, <1>7 DEF EnteredAt, EnteringAt
<1>9. Cardinality(EnteredAt(trips, world.points[i])) = allocation[i]
  BY <1>3, <1>8
<1>10. i \in 1 .. Len(world.points)
  BY <1>1, LenProperties DEF MapType
<1> QED
  BY <1>1, <1>2, <1>9, <1>10 DEF Accepted

\* DemandExact: every row asked for, each vehicle under its own id, every
\* point with its share (generate.py).
THEOREM DemandExactHolds == Spec => []DemandExact
<1>1. Inv => DemandExact
  <2> SUFFICES ASSUME Inv, stage = "written"
               PROVE  /\ Len(trips) = request.vehicles
                      /\ \A m, n \in DOMAIN trips : trips[m].id = trips[n].id => m = n
                      /\ \A m \in Modes : Cardinality(WalksOf(m)) = Requested(m)
                      /\ \A i \in DOMAIN world.points :
                           LET entered == Cardinality({n \in DOMAIN trips :
                                                         trips[n].from = world.points[i]})
                               share   == request.vehicles \div Len(world.points)
                           IN  IF request.given THEN entered = request.counts[i]
                               ELSE entered \in {share, share + 1}
    BY DEF DemandExact
  <2>1. Len(trips) = request.vehicles
    BY DEF Inv
  <2>2. ASSUME NEW m \in DOMAIN trips, NEW n \in DOMAIN trips, trips[m].id = trips[n].id
        PROVE  m = n
    <3>1. Realizable(world, islands, request, trips, walks)
      BY DEF Inv
    <3>2. DOMAIN trips = 1 .. Len(trips) /\ Len(trips) \in Nat
      BY <3>1, LenProperties DEF Realizable
    <3>3. trips[m].id[2] = m - 1 /\ trips[n].id[2] = n - 1
      BY <3>1, <3>2 DEF Realizable
    <3> QED
      BY <2>2, <3>2, <3>3
  <2>3. \A m \in Modes : Cardinality(WalksOf(m)) = Requested(m)
    BY PreparationAssumption, WalksComplete
  <2>4. ASSUME NEW i \in DOMAIN world.points
        PROVE  LET entered == Cardinality({n \in DOMAIN trips :
                                             trips[n].from = world.points[i]})
                   share   == request.vehicles \div Len(world.points)
               IN  IF request.given THEN entered = request.counts[i]
                   ELSE entered \in {share, share + 1}
    <3>1. /\ Cardinality(EnteredAt(trips, world.points[i])) = allocation[i]
          /\ request.given => allocation = request.counts
          /\ ~ request.given =>
               allocation[i] \in {request.vehicles \div Len(world.points),
                                  (request.vehicles \div Len(world.points)) + 1}
      BY PreparationAssumption, PointsServed
    <3> QED
      BY <3>1 DEF EnteredAt
  <2> QED
    BY <2>1, <2>2, <2>3, <2>4
<1> QED
  BY <1>1, InvHolds, PTL

(***************************************************************************)
(* A sound map: the largest component is in reach of every place.          *)
(***************************************************************************)
\* The premises of SoundMap about the component main.
MainIn(main) ==
  /\ main \in Range(islands)
  /\ \A p \in Paths \ main : Cardinality(islands[p]) < Cardinality(main)
  /\ \A place \in Places : Candidates(place) \cap main # {}
  /\ \A o \in Buildings \cup Stops : \E b \in Buildings :
       Candidates(o) \cap Candidates(b) \cap main = {}

LEMMA SnapInMain ==
  ASSUME PreparationAssumption, MapType(world), Classes(islands),
         NEW main, MainIn(main), NEW place \in Places
  PROVE  /\ Candidates(place) # {} /\ Snap(place) \in Candidates(place)
         /\ Snap(place) \in main /\ islands[Snap(place)] = main
<1>1. PICK x \in Paths : main = islands[x]
  BY DEF MainIn, Range, Classes
<1>2. \A p \in main : p \in Paths /\ islands[p] = main
  BY <1>1 DEF Classes
<1>3. PICK q \in Candidates(place) : q \in main
  BY DEF MainIn
<1>4. /\ Snap(place) \in Candidates(place) /\ Snap(place) \in Paths
      /\ Cardinality(islands[q]) <= Cardinality(islands[Snap(place)])
  <2>1. DOMAIN world.near[place] # {} /\ q \in DOMAIN world.near[place]
    BY <1>3 DEF Candidates
  <2> QED
    BY <2>1, SnapBest, SnapIsSnapOf DEF Candidates
<1>5. \A p \in Paths : Cardinality(islands[p]) \in Nat
  <2>1. \A p \in Paths : islands[p] \subseteq Paths
    BY DEF Classes
  <2> QED
    BY <2>1, FS_Subset, FS_CardinalityType DEF PreparationAssumption
<1>6. Snap(place) \in main
  <2> SUFFICES ASSUME Snap(place) \notin main PROVE FALSE
    OBVIOUS
  <2>1. Cardinality(islands[Snap(place)]) < Cardinality(main)
    BY <1>4 DEF MainIn
  <2>2. Cardinality(main) <= Cardinality(islands[Snap(place)])
    BY <1>2, <1>3, <1>4
  <2>3. Cardinality(main) \in Nat
    BY <1>1, <1>5
  <2>4. Cardinality(islands[Snap(place)]) \in Nat
    BY <1>4, <1>5
  <2> QED
    BY <2>1, <2>2, <2>3, <2>4
<1> QED
  BY <1>2, <1>3, <1>4, <1>6

LEMMA MainWalkable ==
  ASSUME PreparationAssumption, MapType(world), Classes(islands),
         NEW main, MainIn(main), NEW p \in Places, NEW q \in Places
  PROVE  Walkable(Snap(p), Snap(q))
BY SnapInMain DEF Walkable

LEMMA DistinctPoints ==
  ASSUME NEW ps \in Seq(Entries), Cardinality(Range(ps)) = Len(ps),
         NEW i \in DOMAIN ps, NEW j \in DOMAIN ps, ps[i] = ps[j]
  PROVE  i = j
<1> DEFINE k == Len(ps)
<1>1. k \in Nat /\ ps \in [1 .. k -> Entries]
  BY LenProperties
<1>2. IsFiniteSet(1 .. k) /\ Cardinality(1 .. k) = k
  <2> HIDE DEF k
  <2>1. /\ IsFiniteSet(1 .. k)
        /\ Cardinality(1 .. k) = IF 1 > k THEN 0 ELSE k - 1 + 1
    BY <1>1, FS_Interval
  <2> QED
    BY <1>1, <2>1
<1>3. ps \in [1 .. k -> Range(ps)]
  BY <1>1 DEF Range
<1>4. ps \in Surjection(1 .. k, Range(ps))
  BY <1>1, <1>3 DEF Surjection, Range
<1>5. ps \in Injection(1 .. k, Range(ps))
  <2>1. Cardinality(1 .. k) = Cardinality(Range(ps))
    BY <1>2
  <2> QED
    BY <1>2, <1>4, <2>1, FS_Surjection
<1> QED
  BY <1>1, <1>5 DEF Injection, IsInjective

LEMMA SoundConfigured ==
  ASSUME PreparationAssumption, Inv, stage = "created", SoundMap
  PROVE  ConfigureProblems = {}
<1>1. MapType(world) /\ Accepted(world, request, allocation)
  BY InvTypes DEF Inv
<1>2. world.points \in Seq(Entries) /\ DOMAIN world.points = 1 .. Len(world.points)
  BY <1>1, LenProperties DEF MapType
<1>3. ~ (request.vehicles > 0 /\ world.selected = {})
  BY <1>1 DEF Accepted
<1>4. ~ (allocation # <<>> /\ DOMAIN allocation # DOMAIN world.points)
  BY <1>1, <1>2 DEF Accepted
<1>5. \A i, j \in DOMAIN world.points : world.points[i] = world.points[j] => i = j
  BY <1>2, DistinctPoints DEF SoundMap
<1>6. \A lot \in world.selected : world.roads[lot] # <<>>
  BY <1>1 DEF SoundMap, MapType
<1>7. \A lot \in world.selected : ReachedEdges(lot) # {}
  <2> SUFFICES ASSUME NEW lot \in world.selected PROVE ReachedEdges(lot) # {}
    OBVIOUS
  <2> DEFINE roads == world.roads[lot]
  <2>1. roads \in Seq(SUBSET Entries) /\ roads # <<>> /\ lot \in Lots
    BY <1>1, <1>6 DEF MapType
  <2>2. 1 \in DOMAIN roads
    <3> HIDE DEF roads
    <3> QED
      BY <2>1
  <2>3. roads[1] = Entries /\ Entries # {}
    BY <2>1, <2>2 DEF SoundMap
  <2> QED
    BY <2>2, <2>3 DEF ReachedEdges
<1> QED
  BY <1>3, <1>4, <1>5, <1>6, <1>7 DEF ConfigureProblems, When

LEMMA SoundResolved ==
  ASSUME PreparationAssumption, Inv, stage = "configured", SoundMap
  PROVE  ResolveProblems = {}
<1>1. /\ MapType(world) /\ RequestType(request) /\ Classes(islands)
      /\ Accepted(world, request, allocation)
  BY InvTypes DEF Inv
<1>2. PICK main : MainIn(main)
  BY DEF SoundMap, MainIn
<1>3. \A place \in Places : Candidates(place) # {}
  BY <1>1, <1>2, SnapInMain
<1>4. Buildings # {} /\ \A lot \in Lots : lot \in Range(LotOf)
  BY DEF SoundMap
<1>5. AttachProblems = {}
  <2>1. \A b \in Buildings : Candidates(b) # {}
    BY <1>3 DEF Places
  <2>2. \A s \in Origins("public_transport") : Candidates(s) # {}
    BY <1>3 DEF Origins, Places
  <2> QED
    BY <1>4, <2>1, <2>2 DEF AttachProblems, When
<1>6. \A m \in Modes : Requested(m) > 0 => Origins(m) # {} /\ Origins(m) \subseteq Buildings \cup Stops
  BY <1>1 DEF Accepted, Origins, Requested, Modes, MapType
<1>7. ~ (Pedestrians > 0 /\ \A m \in Modes : Origins(m) = {})
  <2> SUFFICES ASSUME Pedestrians > 0 PROVE \E m \in Modes : Requested(m) > 0
    BY <1>6
  <2> QED
    BY <1>1 DEF Pedestrians, RequestType, Requested, Modes
<1>8. ASSUME NEW m \in Modes, Requested(m) > 0 PROVE Resolved.origins[m] # {}
  <2>1. PICK o \in Origins(m) : o \in Buildings \cup Stops
    BY <1>6, <1>8
  <2>2. PICK b \in Buildings : Candidates(o) \cap Candidates(b) \cap main = {}
    BY <1>2, <2>1 DEF MainIn
  <2>3. o \in Places /\ b \in Places
    BY <2>1 DEF Places
  <2>4. /\ Snap(o) \in Candidates(o) /\ Snap(b) \in Candidates(b)
        /\ Snap(o) \in main /\ Snap(b) \in main
    BY <1>1, <1>2, <2>3, SnapInMain
  <2>5. Snap(b) # Snap(o)
    BY <2>2, <2>4
  <2>6. Walkable(Snap(o), Snap(b))
    BY <1>1, <1>2, <2>3, MainWalkable
  <2>7. b \in RoutableDestinations(o)
    BY <2>5, <2>6 DEF RoutableDestinations
  <2> QED
    BY <2>1, <2>7 DEF Resolved
<1>9. ASSUME request.vehicles > 0 PROVE \E b \in Buildings : Resolved.candidates[b] # {}
  <2>1. PICK lot \in world.selected : lot \in Lots
    BY <1>1, <1>9 DEF Accepted, MapType
  <2>2. PICK a \in Areas : LotOf[a] = lot
    BY <1>4, <2>1 DEF Range, PreparationAssumption
  <2>3. PICK b \in Buildings : TRUE
    BY <1>4
  <2>4. a \in Places /\ b \in Places
    BY DEF Places
  <2>5. a \in AttachedAreas
    BY <1>3, <2>1, <2>2, <2>4 DEF AttachedAreas
  <2>6. Walkable(Snap(a), Snap(b))
    BY <1>1, <1>2, <2>4, MainWalkable
  <2>7. LotOf[a] \in ParkingCandidates(b)
    BY <2>5, <2>6 DEF ParkingCandidates
  <2> QED
    BY <2>7 DEF Resolved
<1> QED
  BY <1>5, <1>7, <1>8, <1>9 DEF ResolveProblems, When

LEMMA SoundDrawn ==
  ASSUME PreparationAssumption, Inv, stage = "resolved", SoundMap
  PROVE  DrawProblems = {}
<1>1. /\ MapType(world)
      /\ Configured(world, allocation, points, routing)
      /\ Accessible(world, islands, request, access)
  BY InvTypes DEF Inv
<1>2. world.weighted = Buildings
  BY DEF SoundMap
<1>3. ASSUME Len(trips) < request.vehicles
      PROVE  /\ RoutableBuildings(NextPoint.edge) # {}
             /\ RoutableBuildings(NextPoint.edge) \cap world.weighted # {}
  <2>1. NextPoint.edge \in Entries /\ request.vehicles > 0
    <3>1. RequestType(request) /\ Len(trips) + 1 \in 1 .. request.vehicles
      BY <1>3, InvTypes, NextPointKnown
    <3>2. NextPoint \in [id : Nat, edge : Entries, count : Int]
      BY <1>3, NextPointKnown
    <3> QED
      BY <3>1, <3>2 DEF RequestType
  <2>2. PICK b \in Buildings : access.candidates[b] # {}
    BY <1>1, <2>1 DEF Accessible
  <2>3. PICK a \in access.areas : LotOf[a] \in access.candidates[b]
    BY <1>1, <2>2 DEF Accessible
  <2>4. LotOf[a] \in world.selected /\ LotOf[a] \in Lots
    BY <1>1, <2>3 DEF Accessible, MapType
  <2>5. PICK k \in routing[LotOf[a]] : k \in DOMAIN world.roads[LotOf[a]]
    BY <1>1, <2>4 DEF Configured
  <2>6. NextPoint.edge \in world.roads[LotOf[a]][k]
    BY <2>1, <2>4, <2>5 DEF SoundMap
  <2>7. LotOf[a] \in ReachableLots(NextPoint.edge, b)
    BY <2>3, <2>4, <2>5, <2>6 DEF ReachableLots, TargetLots, Drives
  <2>8. b \in RoutableBuildings(NextPoint.edge)
    BY <2>7 DEF RoutableBuildings
  <2> QED
    BY <1>2, <2>8
<1>4. \A m \in Modes : \A o \in access.origins[m] : access.reachable[o] \cap world.weighted # {}
  BY <1>1, <1>2 DEF Accessible
<1> QED
  BY <1>3, <1>4 DEF DrawProblems, When

\* SoundMapPrepares: on a map with one largest walkable component in reach of
\* every place, what creation accepted is prepared (person_access.py and
\* generate.py find everything they need).
THEOREM SoundMapPreparesHolds == Spec => []SoundMapPrepares
<1>1. Init => SoundMapPrepares
  BY DEF Init, SoundMapPrepares
<1>2. Inv /\ SoundMapPrepares /\ [Next]_vars => SoundMapPrepares'
  <2> SUFFICES ASSUME Inv, SoundMapPrepares, [Next]_vars PROVE SoundMapPrepares'
    OBVIOUS
  <2>1. world' = world /\ islands' = islands
    BY DEF Next, vars, Create, Configure, Resolve, AppendTrip, AppendWalk, WriteDemand, Park, Fail
  <2>2. SoundMap' <=> SoundMap
    BY <2>1 DEF SoundMap, Candidates
  <2>3. CASE Fail
    <3>1. SoundMap => stage = "submitted"
      <4> SUFFICES ASSUME SoundMap, stage # "submitted" PROVE FALSE
        OBVIOUS
      <4>1. Problems # {}
        BY <2>3 DEF Fail
      <4> QED
        BY <4>1, PreparationAssumption, SoundConfigured, SoundResolved, DemandAgrees, SoundDrawn
        DEF Problems
    <3>2. SoundMap => stage' = "refused"
      BY <2>3, <3>1 DEF Fail
    <3> QED
      BY <2>2, <3>2 DEF SoundMapPrepares
  <2>4. stage' = "failed" => stage = "failed" \/ Fail
    BY DEF Next, vars, Create, Configure, Resolve, AppendTrip, AppendWalk, WriteDemand, Park
  <2> QED
    BY <2>2, <2>3, <2>4 DEF SoundMapPrepares
<1> QED
  BY <1>1, <1>2, InvHolds, PTL DEF Spec
=============================================================================
