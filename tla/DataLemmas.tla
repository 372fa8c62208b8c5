----------------------------- MODULE DataLemmas -----------------------------
(***************************************************************************)
(* What proofs about data need: least elements, functions defined by       *)
(* recursion over finite sets, sums, sequences put together, quotients,    *)
(* what is shared out in an order.                                         *)
(*                                                                         *)
(* A fold is a recursive function.  That the function exists is proved for *)
(* every step function at once (SetRecursion), by a least counterexample;  *)
(* what it computes follows from its equation in the same way.             *)
(***************************************************************************)
EXTENDS Integers, Sequences, Functions, FiniteSetsExt, SequencesExt, FiniteSetTheorems,
        WellFoundedInduction, TLAPS

(***************************************************************************)
(* Least elements.  An induction looks at a least counterexample.          *)
(***************************************************************************)

\* Of the intervals 0 .. n with n in S one contains no other.
LEMMA LeastNumber ==
  ASSUME NEW S, S \subseteq Nat, S # {}
  PROVE  \E n \in S : \A m \in S : n <= m
<1> DEFINE T == {0 .. n : n \in S}
           R == StrictSubsetOrdering(Nat)
<1>1. T \subseteq FiniteSubsetsOf(Nat)
  <2> SUFFICES ASSUME NEW n \in S PROVE 0 .. n \in FiniteSubsetsOf(Nat)
    OBVIOUS
  <2>1. IsFiniteSet(0 .. n)
    BY FS_Interval
  <2> QED
    BY <2>1 DEF FiniteSubsetsOf
<1>2. IsWellFoundedOn(R, FiniteSubsetsOf(Nat))
  BY FS_StrictSubsetOrderingWellFounded
<1>3. T # {}
  OBVIOUS
<1> HIDE DEF T
<1>4. PICK t \in T : \A u \in T : ~ (<<u, t>> \in R)
  BY <1>1, <1>2, <1>3, WFMin
<1>5. PICK n \in S : t = 0 .. n
  BY DEF T
<1>6. ASSUME NEW m \in S PROVE n <= m
  <2> SUFFICES ASSUME m < n PROVE FALSE
    OBVIOUS
  <2>1. 0 .. m \in T
    BY DEF T
  <2>2. <<0 .. m, 0 .. n>> \in R
    <3>1. 0 .. m \subseteq 0 .. n
      OBVIOUS
    <3>2. n \in 0 .. n /\ n \notin 0 .. m
      OBVIOUS
    <3> QED
      BY <3>1, <3>2 DEF StrictSubsetOrdering
  <2> QED
    BY <2>1, <2>2, <1>4, <1>5
<1> QED
  BY <1>6

LEMMA GreatestNumber ==
  ASSUME NEW S, S \subseteq Nat, S # {}, NEW b \in Nat, \A n \in S : n <= b
  PROVE  \E n \in S : \A m \in S : m <= n
<1> DEFINE T == {b - n : n \in S}
<1>1. T \subseteq Nat /\ T # {}
  <2>1. \A n \in S : b - n \in Nat
    OBVIOUS
  <2> QED
    BY <2>1
<1>2. \A n \in S : b - n \in T
  OBVIOUS
<1>3. \A t \in T : \E n \in S : t = b - n
  OBVIOUS
<1> HIDE DEF T
<1>4. PICK t \in T : \A u \in T : t <= u
  BY <1>1, LeastNumber
<1>5. PICK n \in S : t = b - n
  BY <1>3
<1>6. \A m \in S : b - n <= b - m
  BY <1>2, <1>4, <1>5
<1> QED
  BY <1>6

LEMMA LeastBy ==
  ASSUME NEW S, S # {}, NEW f, \A x \in S : f[x] \in Nat
  PROVE  \E x \in S : \A y \in S : f[x] <= f[y]
<1> DEFINE T == {f[x] : x \in S}
<1>1. T \subseteq Nat /\ T # {}
  OBVIOUS
<1>2. \A x \in S : f[x] \in T
  OBVIOUS
<1>3. \A t \in T : \E x \in S : t = f[x]
  OBVIOUS
<1> HIDE DEF T
<1>4. PICK t \in T : \A u \in T : t <= u
  BY <1>1, LeastNumber
<1> QED
  BY <1>2, <1>3, <1>4

\* The least and the greatest of a finite set of numbers are in it.
LEMMA MinMember ==
  ASSUME NEW S, S \subseteq Nat, S # {}
  PROVE  Min(S) \in S /\ \A n \in S : Min(S) <= n
BY LeastNumber DEF Min

LEMMA MaxMember ==
  ASSUME NEW S, S \subseteq Nat, S # {}, NEW b \in Nat, \A n \in S : n <= b
  PROVE  Max(S) \in S /\ \A n \in S : n <= Max(S)
<1>1. \E n \in S : \A m \in S : n >= m
  <2>1. PICK n \in S : \A m \in S : m <= n
    BY GreatestNumber
  <2>2. \A m \in S : n >= m
    BY <2>1
  <2> QED
    BY <2>2
<1>2. Max(S) \in S /\ \A m \in S : Max(S) >= m
  BY <1>1 DEF Max
<1> QED
  BY <1>2

\* A smallest one among the subsets of a finite set that have a property.
LEMMA SmallestSubset ==
  ASSUME NEW D, IsFiniteSet(D), NEW F, F \subseteq SUBSET D, F # {}
  PROVE  \E s \in F : \A t \in F : t \subseteq s => t = s
<1>1. IsWellFoundedOn(StrictSubsetOrdering(D), FiniteSubsetsOf(D))
  BY FS_StrictSubsetOrderingWellFounded
<1>2. F \subseteq FiniteSubsetsOf(D)
  BY FS_FiniteSubsetsOfFinite
<1>3. PICK s \in F : \A t \in F : ~ (<<t, s>> \in StrictSubsetOrdering(D))
  BY <1>1, <1>2, WFMin
<1> QED
  BY <1>3 DEF StrictSubsetOrdering

(***************************************************************************)
(* Recursion over the subsets of a finite set: each is built from a        *)
(* smaller one by the element pick chooses.                                *)
(***************************************************************************)
Recursive(D, b, pick, step, f, n) ==
  f = [s \in {s \in SUBSET D : Cardinality(s) <= n} |->
         IF s = {} THEN b ELSE step[<<s, f[s \ {pick[s]}]>>]]

FullyRecursive(D, b, pick, step, f) ==
  f = [s \in SUBSET D |-> IF s = {} THEN b ELSE step[<<s, f[s \ {pick[s]}]>>]]

LEMMA RecursionUpto ==
  ASSUME NEW D, IsFiniteSet(D), NEW b, NEW step, NEW n \in Nat,
         NEW pick, \A s \in SUBSET D : s # {} => pick[s] \in s
  PROVE  \E f : Recursive(D, b, pick, step, f, n)
<1> DEFINE Upto(k) == {s \in SUBSET D : Cardinality(s) <= k}
           S == {k \in Nat : ~ \E f : Recursive(D, b, pick, step, f, k)}
<1> SUFFICES ASSUME S # {} PROVE FALSE
  OBVIOUS
<1>0. S \subseteq Nat
  OBVIOUS
<1>a. \A s \in SUBSET D : IsFiniteSet(s) /\ Cardinality(s) \in Nat
  BY FS_Subset, FS_CardinalityType
<1>c. \A s \in SUBSET D : s # {} => Cardinality(s \ {pick[s]}) = Cardinality(s) - 1
  BY <1>a, FS_RemoveElement
<1>d. \A s \in SUBSET D : Cardinality(s) = 0 => s = {}
  BY <1>a, FS_EmptySet
<1>1. PICK k \in S : \A m \in S : k <= m
  <2> HIDE DEF S
  <2> QED
    BY <1>0, LeastNumber
<1>2. CASE k = 0
  <2> DEFINE f == [s \in Upto(0) |-> b]
             h == [s \in Upto(0) |-> IF s = {} THEN b ELSE step[<<s, f[s \ {pick[s]}]>>]]
  <2>1. \A s \in Upto(0) : s = {}
    BY <1>a, <1>d
  <2>2. f = h
    BY <2>1
  <2>3. Recursive(D, b, pick, step, f, 0)
    BY <2>2 DEF Recursive
  <2> QED
    BY <1>2, <2>3
<1>3. CASE k # 0
  <2>1. k \in Nat /\ k - 1 \in Nat /\ k - 1 \notin S
    <3>1. k \in Nat /\ k - 1 \in Nat
      BY <1>0, <1>3
    <3> HIDE DEF S
    <3> QED
      BY <3>1, <1>1
  <2>2. PICK f : Recursive(D, b, pick, step, f, k - 1)
    BY <2>1
  <2> DEFINE new(s) == IF s = {} THEN b ELSE step[<<s, f[s \ {pick[s]}]>>]
             e == [s \in Upto(k) |-> new(s)]
             h == [s \in Upto(k) |-> IF s = {} THEN b ELSE step[<<s, e[s \ {pick[s]}]>>]]
  <2>3. \A s \in Upto(k - 1) : f[s] = new(s)
    BY <2>2 DEF Recursive
  <2>4. ASSUME NEW s \in Upto(k) PROVE e[s] = h[s]
    <3>1. CASE s = {}
      BY <3>1
    <3>2. CASE s # {}
      <4> DEFINE t == s \ {pick[s]}
      <4>1. t \in SUBSET D /\ Cardinality(t) = Cardinality(s) - 1 /\ Cardinality(s) \in Nat
        BY <1>a, <1>c, <3>2
      <4>2. t \in Upto(k - 1) /\ t \in Upto(k)
        <5>1. Cardinality(s) <= k
          OBVIOUS
        <5>2. Cardinality(s) - 1 <= k - 1 /\ Cardinality(s) - 1 <= k
          BY <5>1, <4>1, <2>1
        <5> HIDE DEF t
        <5> QED
          BY <5>2, <4>1
      <4>3. e[t] = f[t]
        <5> HIDE DEF t
        <5> QED
          BY <4>2, <2>3
      <4> QED
        BY <4>3, <3>2
    <3> QED
      BY <3>1, <3>2
  <2>5. e = h
    BY <2>4
  <2>6. Recursive(D, b, pick, step, e, k)
    BY <2>5 DEF Recursive
  <2> QED
    BY <2>6
<1> QED
  BY <1>2, <1>3

\* There is a function that takes one step for each element of a set, and its
\* values are of the type the steps keep: what SumFunction and the other folds are.
THEOREM SetRecursion ==
  ASSUME NEW D, IsFiniteSet(D), NEW V, NEW b \in V, NEW step \in [(SUBSET D) \X V -> V],
         NEW pick, \A s \in SUBSET D : s # {} => pick[s] \in s
  PROVE  \E f \in [SUBSET D -> V] : FullyRecursive(D, b, pick, step, f)
<1>1. Cardinality(D) \in Nat
  BY FS_CardinalityType
<1>2. PICK f : Recursive(D, b, pick, step, f, Cardinality(D))
  BY <1>1, RecursionUpto
<1>3. {s \in SUBSET D : Cardinality(s) <= Cardinality(D)} = SUBSET D
  BY FS_Subset
<1>4. FullyRecursive(D, b, pick, step, f)
  BY <1>2, <1>3 DEF Recursive, FullyRecursive
<1>5. DOMAIN f = SUBSET D /\ f = [s \in SUBSET D |-> f[s]]
  BY <1>4 DEF FullyRecursive
<1>6. \A s \in SUBSET D : f[s] \in V
  <2> DEFINE F == {s \in SUBSET D : f[s] \notin V}
  <2> SUFFICES ASSUME F # {} PROVE FALSE
    OBVIOUS
  <2>1. PICK s \in F : \A t \in F : t \subseteq s => t = s
    <3>1. F \subseteq SUBSET D
      OBVIOUS
    <3> HIDE DEF F
    <3> QED
      BY <3>1, SmallestSubset
  <2>2. f[s] = IF s = {} THEN b ELSE step[<<s, f[s \ {pick[s]}]>>]
    BY <1>4 DEF FullyRecursive
  <2>3. s # {}
    BY <2>2
  <2>4. s \ {pick[s]} # s /\ s \ {pick[s]} \in SUBSET D
    BY <2>3
  <2>5. f[s \ {pick[s]}] \in V
    BY <2>1, <2>4
  <2>6. step[<<s, f[s \ {pick[s]}]>>] \in V
    BY <2>5
  <2> QED
    BY <2>2, <2>3, <2>6
<1> QED
  BY <1>4, <1>5, <1>6

(***************************************************************************)
(* Sums.  SumFunction folds over its domain in an order that is not said.  *)
(***************************************************************************)
Picked(s) == CHOOSE x \in s : TRUE

AllSums(g, f) ==
  f = [s \in SUBSET (DOMAIN g) |-> IF s = {} THEN 0 ELSE g[Picked(s)] + f[s \ {Picked(s)}]]

LEMMA SumIsFold ==
  ASSUME NEW g, \E f : AllSums(g, f)
  PROVE  \E f : AllSums(g, f) /\ SumFunction(g) = f[DOMAIN g]
BY DEF SumFunction, SumFunctionOnSet, FoldFunctionOnSet, MapThenFoldSet, AllSums, Picked

\* What the proofs know of a sum: the sums of all subsets of the domain, built
\* up one element at a time.
Adding(g, f) ==
  /\ f[{}] = 0
  /\ \A s \in SUBSET (DOMAIN g) : s # {} => \E x \in s : f[s] = g[x] + f[s \ {x}]

LEMMA SumAdds ==
  ASSUME NEW g, IsFiniteSet(DOMAIN g), \A x \in DOMAIN g : g[x] \in Int
  PROVE  \E f : Adding(g, f) /\ SumFunction(g) = f[DOMAIN g]
<1> DEFINE D == DOMAIN g
           pick == [s \in SUBSET D |-> Picked(s)]
           step == [x \in (SUBSET D) \X Int |->
                      IF x[1] = {} THEN 0 ELSE g[Picked(x[1])] + x[2]]
<1>1. \A s \in SUBSET D : s # {} => Picked(s) \in s
  BY DEF Picked
<1>2. \A s \in SUBSET D : pick[s] = Picked(s)
  OBVIOUS
<1>3. \E f : AllSums(g, f)
  <2>1. step \in [(SUBSET D) \X Int -> Int]
    <3>1. ASSUME NEW x \in (SUBSET D) \X Int
          PROVE  (IF x[1] = {} THEN 0 ELSE g[Picked(x[1])] + x[2]) \in Int
      BY <1>1
    <3> QED
      BY <3>1
  <2>2. \A s \in SUBSET D : \A y \in Int : s # {} => step[<<s, y>>] = g[Picked(s)] + y
    OBVIOUS
  <2> HIDE DEF pick, step
  <2>3. PICK f \in [SUBSET D -> Int] : FullyRecursive(D, 0, pick, step, f)
    <3>1. \A s \in SUBSET D : s # {} => pick[s] \in s
      BY <1>1, <1>2
    <3>2. IsFiniteSet(D) /\ 0 \in Int
      OBVIOUS
    <3> HIDE DEF D
    <3> QED
      BY <2>1, <3>1, <3>2, SetRecursion
  <2>4. \A s \in SUBSET D : s # {} => s \ {Picked(s)} \in SUBSET D
    OBVIOUS
  <2>5. ASSUME NEW s \in SUBSET D
        PROVE  f[s] = IF s = {} THEN 0 ELSE g[Picked(s)] + f[s \ {Picked(s)}]
    <3>1. f[s] = IF s = {} THEN 0 ELSE step[<<s, f[s \ {pick[s]}]>>]
      BY <2>3 DEF FullyRecursive
    <3>2. pick[s] = Picked(s)
      BY <1>2
    <3>3. s # {} => f[s \ {Picked(s)}] \in Int
      BY <2>3, <2>4
    <3> QED
      BY <2>2, <3>1, <3>2, <3>3
  <2>6. AllSums(g, f)
    BY <2>3, <2>5 DEF AllSums
  <2> QED
    BY <2>6
<1>5. PICK e : AllSums(g, e) /\ SumFunction(g) = e[D]
  BY <1>3, SumIsFold
<1>6. \A s \in SUBSET D : e[s] = IF s = {} THEN 0 ELSE g[Picked(s)] + e[s \ {Picked(s)}]
  BY <1>5 DEF AllSums
<1>8. Adding(g, e)
  BY <1>1, <1>6 DEF Adding
<1> QED
  BY <1>5, <1>8

\* Any element may be taken out first.
LEMMA AnyOrder ==
  ASSUME NEW g, IsFiniteSet(DOMAIN g), NEW f, Adding(g, f), NEW s \in SUBSET (DOMAIN g),
         \A x \in DOMAIN g : g[x] \in Int
  PROVE  f[s] \in Int /\ \A x \in s : f[s] = g[x] + f[s \ {x}]
<1> DEFINE D == DOMAIN g
           Fit(u) == f[u] \in Int /\ \A x \in u : f[u] = g[x] + f[u \ {x}]
           F == {u \in SUBSET D : ~ Fit(u)}
<1> SUFFICES ASSUME F # {} PROVE FALSE
  OBVIOUS
<1>1. PICK u \in F : \A w \in F : w \subseteq u => w = u
  <2>1. F \subseteq SUBSET D
    OBVIOUS
  <2> HIDE DEF F, D
  <2> QED
    BY <2>1, SmallestSubset DEF D
<1>2. u \in SUBSET D /\ ~ Fit(u)
  OBVIOUS
<1>3. \A x \in u : Fit(u \ {x})
  <2> TAKE x \in u
  <2>1. u \ {x} \in SUBSET D /\ u \ {x} # u /\ u \ {x} \subseteq u
    BY <1>2
  <2>2. u \ {x} \notin F
    BY <2>1, <1>1
  <2> QED
    BY <2>1, <2>2
<1>4. u # {}
  <2>1. Fit({})
    BY DEF Adding
  <2> QED
    BY <1>2, <2>1
<1>5. PICK y \in u : f[u] = g[y] + f[u \ {y}]
  BY <1>2, <1>4 DEF Adding
<1>6. f[u] \in Int
  <2>1. g[y] \in Int /\ f[u \ {y}] \in Int
    BY <1>2, <1>3, <1>5
  <2> QED
    BY <1>5, <2>1
<1>7. ASSUME NEW x \in u, x # y
      PROVE  f[u] = g[x] + f[u \ {x}]
  <2> DEFINE rest == f[(u \ {x}) \ {y}]
  <2>1. (u \ {y}) \ {x} = (u \ {x}) \ {y} /\ x \in u \ {y} /\ y \in u \ {x}
    BY <1>7
  <2>2. f[u \ {y}] = g[x] + rest
    BY <1>3, <2>1
  <2>3. f[u \ {x}] = g[y] + rest
    BY <1>3, <2>1
  <2>4. f[u \ {x}] \in Int /\ g[y] \in Int /\ g[x] \in Int
    BY <1>2, <1>3
  <2>5. rest \in Int
    <3>1. \A z \in u \ {x} : f[(u \ {x}) \ {z}] \in Int
      <4> TAKE z \in u \ {x}
      <4> DEFINE w == (u \ {x}) \ {z}
      <4>1. w \in SUBSET D /\ w # u /\ w \subseteq u
        BY <1>2
      <4>2. w \notin F
        BY <4>1, <1>1
      <4> QED
        BY <4>1, <4>2
    <3> QED
      BY <3>1, <2>1
  <2> HIDE DEF rest
  <2> QED
    BY <1>5, <2>2, <2>3, <2>4, <2>5
<1>8. \A x \in u : f[u] = g[x] + f[u \ {x}]
  BY <1>5, <1>7
<1> QED
  BY <1>2, <1>6, <1>8

\* A part of a finite set and the rest of it.
LEMMA TwoParts ==
  ASSUME NEW A, IsFiniteSet(A), NEW B, IsFiniteSet(B), A \cap B = {}
  PROVE  /\ IsFiniteSet(A \cup B)
         /\ Cardinality(A \cup B) = Cardinality(A) + Cardinality(B)
<1>1. IsFiniteSet(A \cup B) /\ Cardinality(A \cup B) = Cardinality(A) + Cardinality(B) - Cardinality({})
  BY FS_Union
<1>2. Cardinality({}) = 0 /\ Cardinality(A) \in Nat /\ Cardinality(B) \in Nat
  BY FS_EmptySet, FS_CardinalityType
<1> QED
  BY <1>1, <1>2

\* What a finite set is mapped to is finite.
LEMMA ImageFinite ==
  ASSUME NEW D, IsFiniteSet(D), NEW f, NEW T, \A y \in T : \E x \in D : y = f[x]
  PROVE  IsFiniteSet(T)
<1> DEFINE E == {x \in D : f[x] \in T}
           h == [x \in E |-> f[x]]
<1>1. E \subseteq D
  OBVIOUS
<1>2. h \in Surjection(E, T)
  BY DEF Surjection
<1> HIDE DEF E, h
<1>3. IsFiniteSet(E)
  BY <1>1, FS_Subset
<1> QED
  BY <1>2, <1>3, FS_Surjection

\* Parts that have no element in common are counted one by one.
LEMMA SumsOfParts ==
  ASSUME NEW K, IsFiniteSet(K), NEW part,
         \A k \in K : IsFiniteSet(part[k]),
         \A k, l \in K : k # l => part[k] \cap part[l] = {}
  PROVE  /\ IsFiniteSet(UNION {part[k] : k \in K})
         /\ SumFunction([k \in K |-> Cardinality(part[k])]) = Cardinality(UNION {part[k] : k \in K})
<1> DEFINE g == [k \in K |-> Cardinality(part[k])]
           All(s) == UNION {part[k] : k \in s}
<1>1. DOMAIN g = K /\ \A k \in K : g[k] \in Nat /\ g[k] = Cardinality(part[k])
  BY FS_CardinalityType
<1> HIDE DEF g
<1>2. PICK f : Adding(g, f) /\ SumFunction(g) = f[K]
  BY <1>1, SumAdds
<1> DEFINE Fit(s) == IsFiniteSet(All(s)) /\ Cardinality(All(s)) = f[s]
           F == {s \in SUBSET K : ~ Fit(s)}
<1>3. F = {}
  <2> SUFFICES ASSUME F # {} PROVE FALSE
    OBVIOUS
  <2>1. PICK s \in F : \A t \in F : t \subseteq s => t = s
    <3>1. F \subseteq SUBSET K
      OBVIOUS
    <3> HIDE DEF F
    <3> QED
      BY <3>1, SmallestSubset
  <2>2. s # {}
    <3>1. All({}) = {}
      OBVIOUS
    <3>2. f[{}] = 0
      BY <1>2 DEF Adding
    <3>3. Fit({})
      BY <3>1, <3>2, FS_EmptySet
    <3> QED
      BY <3>3
  <2>3. s \in SUBSET K /\ ~ Fit(s)
    OBVIOUS
  <2>4. PICK x \in s : f[s] = g[x] + f[s \ {x}]
    BY <2>2, <2>3, <1>1, <1>2 DEF Adding
  <2> DEFINE t == s \ {x}
             P == All(s)
             Q == All(t)
             R == part[x]
  <2>5. t \in SUBSET K /\ t \subseteq s /\ t # s
    BY <2>3
  <2>6. IsFiniteSet(Q) /\ Cardinality(Q) = f[t]
    <3>1. t \notin F
      BY <2>1, <2>5
    <3> QED
      BY <2>5, <3>1
  <2>7. IsFiniteSet(R) /\ Cardinality(R) = g[x]
    BY <1>1, <2>3
  <2>8. P = Q \cup R
    OBVIOUS
  <2>9. Q \cap R = {}
    BY <2>3
  <2> HIDE DEF P, Q, R
  <2>10. IsFiniteSet(Q \cup R) /\ Cardinality(Q \cup R) = Cardinality(Q) + Cardinality(R)
    BY <2>6, <2>7, <2>9, TwoParts
  <2>11. Cardinality(Q) \in Nat /\ Cardinality(R) \in Nat
    BY <2>6, <2>7, FS_CardinalityType
  <2>12. IsFiniteSet(P) /\ Cardinality(P) = f[s]
    <3> DEFINE a == Cardinality(Q)
               b == Cardinality(R)
    <3>1. Cardinality(P) = a + b /\ a \in Nat /\ b \in Nat /\ f[s] = b + a
      BY <2>4, <2>6, <2>7, <2>8, <2>10, <2>11
    <3> HIDE DEF a, b
    <3>2. Cardinality(P) = f[s]
      BY <3>1
    <3> QED
      BY <3>2, <2>8, <2>10
  <2>13. Fit(s)
    BY <2>12 DEF P
  <2> QED
    BY <2>3, <2>13
<1>4. Fit(K)
  <2>1. K \in SUBSET K
    OBVIOUS
  <2> HIDE DEF Fit
  <2> QED
    BY <1>3, <2>1
<1> QED
  BY <1>2, <1>4 DEF g

\* ... sorted by a key, for instance: g counts what is in the part of each key.
Sorted(S, K, key, part, g) ==
  /\ IsFiniteSet(S) /\ IsFiniteSet(K)
  /\ \A x \in S : key[x] \in K
  /\ \A k \in K : \A x : x \in part[k] <=> x \in S /\ key[x] = k
  /\ g = [k \in K |-> Cardinality(part[k])]

\* The counts of the single keys add up: no element is lost or counted twice.
THEOREM CountByKey ==
  ASSUME NEW S, NEW K, NEW key, NEW part, NEW g, Sorted(S, K, key, part, g)
  PROVE  SumFunction(g) = Cardinality(S)
<1>0. /\ IsFiniteSet(S) /\ IsFiniteSet(K)
      /\ \A x \in S : key[x] \in K
      /\ \A k \in K : \A x : x \in part[k] <=> x \in S /\ key[x] = k
  BY DEF Sorted
<1>1. \A k \in K : IsFiniteSet(part[k])
  <2> SUFFICES ASSUME NEW k \in K PROVE IsFiniteSet(part[k])
    OBVIOUS
  <2>1. part[k] \subseteq S
    BY <1>0
  <2> QED
    BY <1>0, <2>1, FS_Subset
<1>2. \A k, l \in K : k # l => part[k] \cap part[l] = {}
  BY <1>0
<1>3. UNION {part[k] : k \in K} = S
  <2>1. \A x \in S : x \in part[key[x]]
    BY <1>0
  <2>2. \A k \in K : part[k] \subseteq S
    BY <1>0
  <2> QED
    BY <1>0, <2>1, <2>2
<1>4. g = [k \in K |-> Cardinality(part[k])]
  BY DEF Sorted
<1>5. SumFunction([k \in K |-> Cardinality(part[k])]) = Cardinality(UNION {part[k] : k \in K})
  <2>1. IsFiniteSet(K)
    BY <1>0
  <2> QED
    BY ONLY <1>1, <1>2, <2>1, SumsOfParts
<1> QED
  BY <1>3, <1>4, <1>5

(***************************************************************************)
(* Sums of parts of a domain.                                              *)
(***************************************************************************)

\* A function that agrees with g on a part of its domain has the sum of that part.
LEMMA PartSum ==
  ASSUME NEW g, IsFiniteSet(DOMAIN g), \A x \in DOMAIN g : g[x] \in Int,
         NEW f, Adding(g, f), NEW s \in SUBSET (DOMAIN g),
         NEW h, DOMAIN h = s, \A x \in s : h[x] = g[x]
  PROVE  SumFunction(h) = f[s]
<1>1. IsFiniteSet(s) /\ \A x \in DOMAIN h : h[x] \in Int
  BY FS_Subset
<1>2. PICK e : Adding(h, e) /\ SumFunction(h) = e[s]
  BY <1>1, SumAdds
<1> DEFINE F == {u \in SUBSET s : e[u] # f[u]}
<1>3. F = {}
  <2> SUFFICES ASSUME F # {} PROVE FALSE
    OBVIOUS
  <2>1. PICK u \in F : \A w \in F : w \subseteq u => w = u
    <3>1. F \subseteq SUBSET s
      OBVIOUS
    <3> HIDE DEF F
    <3> QED
      BY <1>1, <3>1, SmallestSubset
  <2>2. u \in SUBSET s /\ e[u] # f[u]
    OBVIOUS
  <2>3. u # {}
    BY <1>2, <2>2 DEF Adding
  <2>4. PICK x \in u : e[u] = h[x] + e[u \ {x}]
    BY <1>2, <2>2, <2>3 DEF Adding
  <2>5. u \ {x} \notin F /\ u \ {x} \in SUBSET s
    BY <2>1, <2>2
  <2>6. e[u \ {x}] = f[u \ {x}]
    BY <2>5
  <2>7. f[u] = g[x] + f[u \ {x}]
    BY <2>2, AnyOrder
  <2> QED
    BY <2>2, <2>4, <2>6, <2>7
<1>4. s \in SUBSET s
  OBVIOUS
<1> QED
  BY <1>2, <1>3, <1>4

LEMMA SumsAdd ==
  ASSUME NEW g, IsFiniteSet(DOMAIN g), \A x \in DOMAIN g : g[x] \in Int,
         NEW f, Adding(g, f),
         NEW A \in SUBSET (DOMAIN g), NEW B \in SUBSET (DOMAIN g), A \cap B = {}
  PROVE  f[A \cup B] = f[A] + f[B]
<1>1. IsFiniteSet(B)
  BY FS_Subset
<1> DEFINE F == {u \in SUBSET B : f[A \cup u] # f[A] + f[u]}
<1>3. F = {}
  <2> SUFFICES ASSUME F # {} PROVE FALSE
    OBVIOUS
  <2>1. PICK u \in F : \A w \in F : w \subseteq u => w = u
    <3>1. F \subseteq SUBSET B
      OBVIOUS
    <3> HIDE DEF F
    <3> QED
      BY <1>1, <3>1, SmallestSubset
  <2>2. u \in SUBSET B /\ f[A \cup u] # f[A] + f[u]
    OBVIOUS
  <2>a. f[A] \in Int
    BY AnyOrder
  <2>3. u # {}
    <3> SUFFICES ASSUME u = {} PROVE FALSE
      OBVIOUS
    <3>1. f[u] = 0
      BY DEF Adding
    <3>2. A \cup u = A
      OBVIOUS
    <3> QED
      BY <2>2, <2>a, <3>1, <3>2
  <2>4. PICK x : x \in u
    BY <2>3
  <2> DEFINE w == u \ {x}
  <2>5. w \notin F /\ w \in SUBSET B
    BY <2>1, <2>2, <2>4
  <2>6. f[A \cup w] = f[A] + f[w]
    BY <2>5
  <2>7. f[u] = g[x] + f[w]
    BY <2>2, <2>4, AnyOrder
  <2>8. f[A \cup u] = g[x] + f[A \cup w]
    <3>1. A \cup u \in SUBSET (DOMAIN g) /\ x \in A \cup u
      BY <2>2, <2>4
    <3>2. (A \cup u) \ {x} = A \cup w
      BY <2>2, <2>4
    <3> QED
      BY <3>1, <3>2, AnyOrder
  <2>9. f[w] \in Int /\ g[x] \in Int
    <3>1. w \in SUBSET (DOMAIN g) /\ x \in DOMAIN g
      BY <2>5, <2>2, <2>4
    <3> HIDE DEF w
    <3> QED
      BY <3>1, AnyOrder
  <2> HIDE DEF w
  <2> QED
    BY <2>2, <2>a, <2>6, <2>7, <2>8, <2>9
<1>4. B \in SUBSET B
  OBVIOUS
<1> QED
  BY <1>3, <1>4

\* h is for each key the sum of what has that key.
Grouped(g, K, key, h) ==
  /\ IsFiniteSet(DOMAIN g) /\ IsFiniteSet(K)
  /\ \A x \in DOMAIN g : g[x] \in Int /\ key[x] \in K
  /\ DOMAIN h = K
  /\ \A k \in K : h[k] = SumFunction([x \in {y \in DOMAIN g : key[y] = k} |-> g[x]])

\* A sum may be taken key by key.
THEOREM SumByKey ==
  ASSUME NEW g, NEW K, NEW key, NEW h, Grouped(g, K, key, h)
  PROVE  SumFunction(h) = SumFunction(g)
<1> DEFINE D == DOMAIN g
           Part(k) == {y \in D : key[y] = k}
           All(T) == {y \in D : key[y] \in T}
<1>1. IsFiniteSet(D) /\ IsFiniteSet(K) /\ DOMAIN h = K
  BY DEF Grouped
<1>2. \A x \in D : g[x] \in Int /\ key[x] \in K
  BY DEF Grouped
<1>3. PICK f : Adding(g, f) /\ SumFunction(g) = f[D]
  BY <1>1, <1>2, SumAdds
<1>4. ASSUME NEW k \in K PROVE h[k] = f[Part(k)] /\ h[k] \in Int
  <2> DEFINE q == [x \in Part(k) |-> g[x]]
  <2>1. h[k] = SumFunction(q)
    BY DEF Grouped
  <2>2. DOMAIN q = Part(k) /\ \A x \in Part(k) : q[x] = g[x]
    OBVIOUS
  <2>3. Part(k) \in SUBSET D
    OBVIOUS
  <2> HIDE DEF q, Part
  <2>4. SumFunction(q) = f[Part(k)]
    BY <1>1, <1>2, <1>3, <2>2, <2>3, PartSum
  <2>5. f[Part(k)] \in Int
    BY <1>1, <1>2, <1>3, <2>3, AnyOrder
  <2> QED
    BY <2>1, <2>4, <2>5
<1>5. PICK e : Adding(h, e) /\ SumFunction(h) = e[K]
  BY <1>1, <1>4, SumAdds
<1> DEFINE F == {T \in SUBSET K : e[T] # f[All(T)]}
<1>6. F = {}
  <2> SUFFICES ASSUME F # {} PROVE FALSE
    OBVIOUS
  <2>1. PICK T \in F : \A w \in F : w \subseteq T => w = T
    <3>1. F \subseteq SUBSET K
      OBVIOUS
    <3> HIDE DEF F
    <3> QED
      BY <1>1, <3>1, SmallestSubset
  <2>2. T \in SUBSET K /\ e[T] # f[All(T)]
    OBVIOUS
  <2>3. T # {}
    <3>1. All({}) = {}
      OBVIOUS
    <3> QED
      BY <1>3, <1>5, <2>2, <3>1 DEF Adding
  <2>4. PICK k \in T : e[T] = h[k] + e[T \ {k}]
    BY <1>1, <1>5, <2>2, <2>3 DEF Adding
  <2>5. T \ {k} \notin F /\ T \ {k} \in SUBSET K
    BY <2>1, <2>2
  <2>6. e[T \ {k}] = f[All(T \ {k})]
    BY <2>5
  <2>7. h[k] = f[Part(k)]
    BY <1>4, <2>2
  <2>8. /\ All(T) = Part(k) \cup All(T \ {k}) /\ Part(k) \cap All(T \ {k}) = {}
        /\ Part(k) \in SUBSET D /\ All(T \ {k}) \in SUBSET D
    OBVIOUS
  <2>9. f[All(T)] = f[Part(k)] + f[All(T \ {k})]
    <3> DEFINE P == Part(k)
               Q == All(T \ {k})
    <3>1. P \in SUBSET (DOMAIN g) /\ Q \in SUBSET (DOMAIN g) /\ P \cap Q = {} /\ All(T) = P \cup Q
      BY <2>8
    <3>2. IsFiniteSet(DOMAIN g) /\ \A x \in DOMAIN g : g[x] \in Int
      BY <1>1, <1>2
    <3> HIDE DEF P, Q, All
    <3>3. f[P \cup Q] = f[P] + f[Q]
      BY <1>3, <3>1, <3>2, SumsAdd
    <3> QED
      BY <3>1, <3>3 DEF P, Q
  <2> QED
    BY <2>2, <2>4, <2>6, <2>7, <2>9
<1>7. All(K) = D
  BY <1>2
<1>8. e[K] = f[All(K)]
  <2>1. K \in SUBSET K
    OBVIOUS
  <2> QED
    BY <1>6, <2>1
<1> QED
  BY <1>3, <1>5, <1>7, <1>8

LEMMA SumOfNothing ==
  ASSUME NEW g, IsFiniteSet(DOMAIN g), \A x \in DOMAIN g : g[x] = 0
  PROVE  SumFunction(g) = 0
<1>0. \A x \in DOMAIN g : g[x] \in Int
  OBVIOUS
<1>1. PICK f : Adding(g, f) /\ SumFunction(g) = f[DOMAIN g]
  BY <1>0, SumAdds
<1> DEFINE F == {s \in SUBSET (DOMAIN g) : f[s] # 0}
<1>2. F = {}
  <2> SUFFICES ASSUME F # {} PROVE FALSE
    OBVIOUS
  <2>1. PICK s \in F : \A w \in F : w \subseteq s => w = s
    <3>1. F \subseteq SUBSET (DOMAIN g)
      OBVIOUS
    <3> HIDE DEF F
    <3> QED
      BY <3>1, SmallestSubset
  <2>2. s \in SUBSET (DOMAIN g) /\ f[s] # 0
    OBVIOUS
  <2>3. s # {}
    BY <1>1, <2>2 DEF Adding
  <2>4. PICK x \in s : f[s] = g[x] + f[s \ {x}]
    BY <1>1, <2>2, <2>3 DEF Adding
  <2>5. f[s \ {x}] = 0
    BY <2>1, <2>2
  <2> QED
    BY <2>2, <2>4, <2>5
<1> QED
  BY <1>1, <1>2

\* A sum grows with its parts.
LEMMA SumOfLess ==
  ASSUME NEW g, NEW h, IsFiniteSet(DOMAIN g), DOMAIN h = DOMAIN g,
         \A x \in DOMAIN g : g[x] \in Int /\ h[x] \in Int /\ g[x] <= h[x]
  PROVE  SumFunction(g) \in Int /\ SumFunction(h) \in Int /\ SumFunction(g) <= SumFunction(h)
<1> DEFINE D == DOMAIN g
<1>1. PICK f : Adding(g, f) /\ SumFunction(g) = f[D]
  BY SumAdds
<1>2. PICK e : Adding(h, e) /\ SumFunction(h) = e[D]
  BY SumAdds
<1>a. \A s \in SUBSET D : f[s] \in Int /\ e[s] \in Int
  BY <1>1, <1>2, AnyOrder
<1> DEFINE F == {s \in SUBSET D : ~ (f[s] <= e[s])}
<1>3. F = {}
  <2> SUFFICES ASSUME F # {} PROVE FALSE
    OBVIOUS
  <2>1. PICK s \in F : \A w \in F : w \subseteq s => w = s
    <3>1. F \subseteq SUBSET D
      OBVIOUS
    <3> HIDE DEF F
    <3> QED
      BY <3>1, SmallestSubset
  <2>2. s \in SUBSET D /\ ~ (f[s] <= e[s])
    OBVIOUS
  <2>3. s # {}
    <3> SUFFICES ASSUME s = {} PROVE FALSE
      OBVIOUS
    <3>1. f[s] = 0 /\ e[s] = 0
      BY <1>1, <1>2 DEF Adding
    <3> QED
      BY <2>2, <3>1
  <2>4. PICK x \in s : f[s] = g[x] + f[s \ {x}]
    BY <1>1, <2>2, <2>3 DEF Adding
  <2>5. e[s] = h[x] + e[s \ {x}]
    BY <1>2, <2>2, AnyOrder
  <2>6. s \ {x} \in SUBSET D /\ f[s \ {x}] <= e[s \ {x}]
    BY <2>1, <2>2
  <2>7. g[x] \in Int /\ h[x] \in Int /\ g[x] <= h[x]
    BY <2>2
  <2>8. f[s \ {x}] \in Int /\ e[s \ {x}] \in Int
    BY <1>a, <2>6
  <2> DEFINE fr == f[s \ {x}]
             er == e[s \ {x}]
  <2> HIDE DEF fr, er
  <2>9. fr \in Int /\ er \in Int /\ fr <= er /\ f[s] = g[x] + fr /\ e[s] = h[x] + er
    BY <2>4, <2>5, <2>6, <2>8 DEF fr, er
  <2> QED
    BY <2>2, <2>7, <2>9
<1>4. D \in SUBSET D
  OBVIOUS
<1> QED
  BY <1>1, <1>2, <1>3, <1>4, <1>a

LEMMA SumOfCounts ==
  ASSUME NEW g, IsFiniteSet(DOMAIN g), \A x \in DOMAIN g : g[x] \in Nat
  PROVE  SumFunction(g) \in Nat
<1> DEFINE z == [x \in DOMAIN g |-> 0]
<1>1. DOMAIN z = DOMAIN g /\ \A x \in DOMAIN z : z[x] = 0
  OBVIOUS
<1> HIDE DEF z
<1>2. SumFunction(z) = 0
  BY <1>1, SumOfNothing
<1>3. SumFunction(g) \in Int /\ SumFunction(z) <= SumFunction(g)
  BY <1>1, SumOfLess
<1> QED
  BY <1>2, <1>3

\* w is a times u, and v added.
Linear(w, a, u, v) ==
  /\ a \in Int
  /\ IsFiniteSet(DOMAIN w) /\ DOMAIN u = DOMAIN w /\ DOMAIN v = DOMAIN w
  /\ \A x \in DOMAIN w : u[x] \in Int /\ v[x] \in Int /\ w[x] = a * u[x] + v[x]

\* Sums are linear.
LEMMA SumIsLinear ==
  ASSUME NEW u, NEW v, NEW w, NEW a, Linear(w, a, u, v)
  PROVE  /\ SumFunction(u) \in Int /\ SumFunction(v) \in Int /\ SumFunction(w) \in Int
         /\ SumFunction(w) = a * SumFunction(u) + SumFunction(v)
<1> USE DEF Linear
<1> DEFINE D == DOMAIN w
<1>0. \A x \in D : w[x] \in Int
  <2> SUFFICES ASSUME NEW x \in D PROVE w[x] \in Int
    OBVIOUS
  <2>1. u[x] \in Int /\ v[x] \in Int /\ w[x] = a * u[x] + v[x]
    OBVIOUS
  <2>2. a * u[x] \in Int
    BY <2>1
  <2> QED
    BY <2>1, <2>2
<1>1. PICK f : Adding(u, f) /\ SumFunction(u) = f[D]
  BY SumAdds
<1>2. PICK e : Adding(v, e) /\ SumFunction(v) = e[D]
  BY SumAdds
<1>3. PICK h : Adding(w, h) /\ SumFunction(w) = h[D]
  BY <1>0, SumAdds
<1>4. \A s \in SUBSET D : f[s] \in Int /\ e[s] \in Int /\ h[s] \in Int
  BY <1>0, <1>1, <1>2, <1>3, AnyOrder
<1> DEFINE F == {s \in SUBSET D : h[s] # a * f[s] + e[s]}
<1>5. F = {}
  <2> SUFFICES ASSUME F # {} PROVE FALSE
    OBVIOUS
  <2>1. PICK s \in F : \A t \in F : t \subseteq s => t = s
    <3>1. F \subseteq SUBSET D
      OBVIOUS
    <3> HIDE DEF F
    <3> QED
      BY <3>1, SmallestSubset
  <2>2. s \in SUBSET D /\ h[s] # a * f[s] + e[s]
    OBVIOUS
  <2>3. s # {}
    <3> SUFFICES ASSUME s = {} PROVE FALSE
      OBVIOUS
    <3>1. f[s] = 0 /\ e[s] = 0 /\ h[s] = 0
      BY <1>1, <1>2, <1>3 DEF Adding
    <3>2. a * 0 + 0 = 0
      OBVIOUS
    <3> QED
      BY <2>2, <3>1, <3>2
  <2>4. PICK x \in s : h[s] = w[x] + h[s \ {x}]
    BY <1>3, <2>2, <2>3 DEF Adding
  <2>5. f[s] = u[x] + f[s \ {x}] /\ e[s] = v[x] + e[s \ {x}]
    BY <1>1, <1>2, <2>2, AnyOrder
  <2>6. s \ {x} \in SUBSET D /\ h[s \ {x}] = a * f[s \ {x}] + e[s \ {x}]
    BY <2>1, <2>2
  <2>7. u[x] \in Int /\ v[x] \in Int /\ w[x] = a * u[x] + v[x]
    BY <2>2
  <2> DEFINE fr == f[s \ {x}]
             er == e[s \ {x}]
             ux == u[x]
             vx == v[x]
  <2>8. fr \in Int /\ er \in Int /\ ux \in Int /\ vx \in Int
    BY <1>4, <2>6, <2>7
  <2>9. f[s] = ux + fr /\ e[s] = vx + er /\ h[s] = a * ux + vx + (a * fr + er)
    BY <2>4, <2>5, <2>6, <2>7
  <2> HIDE DEF fr, er, ux, vx
  <2>10. a * (ux + fr) + (vx + er) = a * ux + vx + (a * fr + er)
    <3>1. a * (ux + fr) = a * ux + a * fr
      BY <2>8
    <3>2. a * ux \in Int /\ a * fr \in Int
      BY <2>8
    <3> QED
      BY <2>8, <3>1, <3>2
  <2> QED
    BY <2>2, <2>9, <2>10
<1>6. D \in SUBSET D
  OBVIOUS
<1> QED
  BY <1>1, <1>2, <1>3, <1>4, <1>5, <1>6

\* A sum of ones counts.
LEMMA SumOfMembers ==
  ASSUME NEW D, IsFiniteSet(D), NEW A \in SUBSET D, NEW g, DOMAIN g = D,
         \A x \in D : g[x] = IF x \in A THEN 1 ELSE 0
  PROVE  SumFunction(g) = Cardinality(A)
<1>1. \A x \in D : g[x] \in Int
  OBVIOUS
<1>2. PICK f : Adding(g, f) /\ SumFunction(g) = f[D]
  BY <1>1, SumAdds
<1> DEFINE F == {s \in SUBSET D : f[s] # Cardinality(s \cap A)}
<1>3. F = {}
  <2> SUFFICES ASSUME F # {} PROVE FALSE
    OBVIOUS
  <2>1. PICK s \in F : \A t \in F : t \subseteq s => t = s
    <3>1. F \subseteq SUBSET D
      OBVIOUS
    <3> HIDE DEF F
    <3> QED
      BY <3>1, SmallestSubset
  <2>2. s \in SUBSET D /\ f[s] # Cardinality(s \cap A)
    OBVIOUS
  <2>3. s # {}
    <3> SUFFICES ASSUME s = {} PROVE FALSE
      OBVIOUS
    <3>1. f[s] = 0 /\ s \cap A = {}
      BY <1>2 DEF Adding
    <3> QED
      BY <2>2, <3>1, FS_EmptySet
  <2>4. PICK x \in s : f[s] = g[x] + f[s \ {x}]
    BY <1>2, <2>2, <2>3 DEF Adding
  <2>5. f[s \ {x}] = Cardinality((s \ {x}) \cap A)
    <3>1. s \ {x} \in SUBSET D /\ s \ {x} \subseteq s /\ s \ {x} # s
      BY <2>2, <2>4
    <3>2. s \ {x} \notin F
      BY <2>1, <3>1
    <3> QED
      BY <3>1, <3>2
  <2>6. IsFiniteSet(s \cap A)
    BY <2>2, FS_Subset
  <2>7. (s \ {x}) \cap A = (s \cap A) \ {x}
    OBVIOUS
  <2> DEFINE C == s \cap A
  <2> HIDE DEF C
  <2>8. Cardinality(C \ {x}) = IF x \in C THEN Cardinality(C) - 1 ELSE Cardinality(C)
    <3>1. IsFiniteSet(C)
      BY <2>6 DEF C
    <3> QED
      BY <3>1, FS_RemoveElement
  <2>9. Cardinality(s \cap A) \in Nat
    BY <2>6, FS_CardinalityType
  <2>10. g[x] = IF x \in A THEN 1 ELSE 0
    BY <2>2
  <2>11. x \in C <=> x \in A
    BY <2>4 DEF C
  <2>12. f[s] = g[x] + Cardinality(C \ {x}) /\ f[s] # Cardinality(C) /\ Cardinality(C) \in Nat
    BY <2>2, <2>4, <2>5, <2>7, <2>9 DEF C
  <2> QED
    BY <2>8, <2>10, <2>11, <2>12
<1>4. D \in SUBSET D /\ D \cap A = A
  OBVIOUS
<1> QED
  BY <1>2, <1>3, <1>4

\* The sum of a constant.
LEMMA SumOfEqual ==
  ASSUME NEW k \in Nat, NEW a \in Int, NEW g \in [1 .. k -> Int], \A i \in 1 .. k : g[i] = a
  PROVE  SumFunction(g) = a * k
<1> DEFINE ones == [i \in 1 .. k |-> 1]
           zeros == [i \in 1 .. k |-> 0]
<1>1. IsFiniteSet(1 .. k) /\ Cardinality(1 .. k) = k
  BY FS_Interval
<1>2. SumFunction(ones) = k
  <2>1. 1 .. k \in SUBSET (1 .. k) /\ DOMAIN ones = 1 .. k
        /\ \A i \in 1 .. k : ones[i] = IF i \in 1 .. k THEN 1 ELSE 0
    OBVIOUS
  <2> HIDE DEF ones
  <2> QED
    BY <1>1, <2>1, SumOfMembers
<1>3. SumFunction(zeros) = 0
  <2>1. DOMAIN zeros = 1 .. k /\ \A i \in DOMAIN zeros : zeros[i] = 0
    OBVIOUS
  <2> HIDE DEF zeros
  <2> QED
    BY <1>1, <2>1, SumOfNothing
<1>4. SumFunction(g) = a * SumFunction(ones) + SumFunction(zeros)
  <2>1. /\ DOMAIN g = 1 .. k /\ DOMAIN ones = DOMAIN g /\ DOMAIN zeros = DOMAIN g
        /\ \A i \in DOMAIN g : ones[i] \in Int /\ zeros[i] \in Int
                               /\ g[i] = a * ones[i] + zeros[i]
    OBVIOUS
  <2> HIDE DEF ones, zeros
  <2> QED
    BY <1>1, <2>1, SumIsLinear DEF Linear
<1> HIDE DEF ones, zeros
<1> QED
  BY <1>2, <1>3, <1>4

\* A sum of naturals, one of them positive.
LEMMA PositiveSum ==
  ASSUME NEW k \in Nat, NEW g \in [1 .. k -> Nat], NEW x \in 1 .. k, g[x] > 0
  PROVE  SumFunction(g) > 0
<1> DEFINE one == [i \in 1 .. k |-> IF i \in {x} THEN 1 ELSE 0]
<1>1. IsFiniteSet(1 .. k)
  BY FS_Interval
<1>2. DOMAIN one = 1 .. k /\ DOMAIN g = 1 .. k /\ {x} \in SUBSET (1 .. k)
      /\ \A i \in 1 .. k : one[i] = IF i \in {x} THEN 1 ELSE 0
  OBVIOUS
<1>3. \A i \in 1 .. k : one[i] \in Int /\ g[i] \in Int /\ one[i] <= g[i]
  OBVIOUS
<1> HIDE DEF one
<1>4. SumFunction(one) = 1
  <2>1. Cardinality({x}) = 1
    BY FS_Singleton
  <2>2. SumFunction(one) = Cardinality({x})
    BY <1>1, <1>2, SumOfMembers
  <2> QED
    BY <2>1, <2>2
<1>5. SumFunction(one) <= SumFunction(g) /\ SumFunction(g) \in Int
  BY <1>1, <1>2, <1>3, SumOfLess
<1> QED
  BY <1>4, <1>5

\* The first n numbers.
LEMMA FromZero ==
  ASSUME NEW n \in Nat
  PROVE  IsFiniteSet(0 .. (n - 1)) /\ Cardinality(0 .. (n - 1)) = n
<1> DEFINE m == n - 1
<1>1. m \in Int /\ (0 > m => n = 0) /\ (~ (0 > m) => m - 0 + 1 = n)
  OBVIOUS
<1> HIDE DEF m
<1>2. IsFiniteSet(0 .. m) /\ Cardinality(0 .. m) = IF 0 > m THEN 0 ELSE m - 0 + 1
  BY <1>1, FS_Interval
<1> QED
  BY <1>1, <1>2 DEF m

\* What comes before each element in a total order.
Ranks(D, before) ==
  /\ IsFiniteSet(D) /\ before \in [D -> SUBSET D]
  /\ \A i, j \in D : i # j => i \in before[j] \/ j \in before[i]
  /\ \A i, j \in D : i \in before[j] => before[i] \subseteq before[j]
  /\ \A i \in D : i \notin before[i]

\* Of the elements of an ordered set as many have fewer than n before them as
\* there can be.
LEMMA LowRanks ==
  ASSUME NEW D, NEW before, Ranks(D, before),
         NEW n \in Nat, n <= Cardinality(D)
  PROVE  Cardinality({i \in D : Cardinality(before[i]) < n}) = n
<1> USE DEF Ranks
<1> DEFINE N == Cardinality(D)
           rank == [i \in D |-> Cardinality(before[i])]
           Early == {i \in D : rank[i] < n}
<1>0. N \in Nat
  BY FS_CardinalityType
<1>1. \A i \in D : IsFiniteSet(before[i]) /\ rank[i] \in 0 .. (N - 1)
  <2> SUFFICES ASSUME NEW i \in D
               PROVE  IsFiniteSet(before[i]) /\ Cardinality(before[i]) \in 0 .. (N - 1)
    OBVIOUS
  <2>1. IsFiniteSet(D \ {i}) /\ Cardinality(D \ {i}) = N - 1
    BY FS_RemoveElement
  <2>2. before[i] \in SUBSET (D \ {i})
    OBVIOUS
  <2>3. IsFiniteSet(before[i]) /\ Cardinality(before[i]) <= N - 1
    BY <2>1, <2>2, FS_Subset
  <2>4. Cardinality(before[i]) \in Nat
    BY <2>3, FS_CardinalityType
  <2> QED
    BY <2>3, <2>4, <1>0
<1>2. ASSUME NEW i \in D, NEW j \in D, i \in before[j]
      PROVE  rank[i] < rank[j]
  <2>1. before[i] \in SUBSET before[j] /\ before[i] # before[j]
    BY <1>2
  <2>2. Cardinality(before[i]) <= Cardinality(before[j])
        /\ Cardinality(before[i]) # Cardinality(before[j])
    BY <2>1, <1>1, FS_Subset
  <2>3. rank[i] \in Int /\ rank[j] \in Int
    BY <1>0, <1>1
  <2> QED
    BY <2>2, <2>3
<1>3. rank \in Injection(D, 0 .. (N - 1))
  <2>1. rank \in [D -> 0 .. (N - 1)]
    BY <1>1
  <2>2. ASSUME NEW i \in D, NEW j \in D, rank[i] = rank[j] PROVE i = j
    <3>1. rank[i] \in Int
      BY <1>0, <1>1
    <3> HIDE DEF rank
    <3> QED
      BY <1>2, <2>2, <3>1
  <2> QED
    BY <2>1, <2>2 DEF Injection, IsInjective
<1>4. \A k \in 0 .. (N - 1) : \E i \in D : rank[i] = k
  <2>1. IsFiniteSet(0 .. (N - 1)) /\ Cardinality(0 .. (N - 1)) = N
    <3> HIDE DEF N
    <3> QED
      BY <1>0, FromZero
  <2>2. rank \in Surjection(D, 0 .. (N - 1))
    BY <1>3, <2>1, FS_Injection
  <2> QED
    BY <2>2 DEF Surjection
<1> DEFINE early == [i \in Early |-> rank[i]]
<1>5. early \in Bijection(Early, 0 .. (n - 1))
  <2>1. early \in [Early -> 0 .. (n - 1)]
    <3>1. \A i \in Early : rank[i] \in 0 .. (n - 1)
      BY <1>0, <1>1
    <3> QED
      BY <3>1
  <2>2. \A i, j \in Early : early[i] = early[j] => i = j
    BY <1>3 DEF Injection, IsInjective
  <2>3. \A k \in 0 .. (n - 1) : \E i \in Early : early[i] = k
    <3> SUFFICES ASSUME NEW k \in 0 .. (n - 1) PROVE \E i \in Early : early[i] = k
      OBVIOUS
    <3>1. k \in 0 .. (N - 1) /\ k < n
      BY <1>0
    <3>2. PICK i \in D : rank[i] = k
      BY <1>4, <3>1
    <3>3. i \in Early
      BY <3>1, <3>2
    <3> QED
      BY <3>2, <3>3
  <2> HIDE DEF early, Early
  <2> QED
    BY <2>1, <2>2, <2>3 DEF Bijection, Injection, IsInjective, Surjection
<1>6. IsFiniteSet(Early)
  BY FS_Subset
<1>7. Cardinality(0 .. (n - 1)) = n
  BY FS_Interval
<1>8. Cardinality(0 .. (n - 1)) = Cardinality(Early)
  <2>1. ExistsBijection(Early, 0 .. (n - 1))
    BY <1>5 DEF ExistsBijection
  <2> HIDE DEF Early
  <2> QED
    BY <1>6, <2>1, FS_Bijection
<1> QED
  BY <1>7, <1>8

(***************************************************************************)
(* FlattenSeq, put together from the left.                                 *)
(***************************************************************************)
FlattensUpto(seqs, f, n) ==
  f = [i \in 1 .. n |-> IF i = 1 THEN seqs[i] ELSE f[i - 1] \o seqs[i]]

LEMMA FlattenIsFold ==
  ASSUME NEW seqs, Len(seqs) # 0, \E f : FlattensUpto(seqs, f, Len(seqs))
  PROVE  \E f : FlattensUpto(seqs, f, Len(seqs)) /\ FlattenSeq(seqs) = f[Len(seqs)]
BY DEF FlattenSeq, FlattensUpto

LEMMA FlattenUpto ==
  ASSUME NEW seqs, NEW n \in Nat
  PROVE  \E f : FlattensUpto(seqs, f, n)
<1> DEFINE S == {k \in Nat : ~ \E f : FlattensUpto(seqs, f, k)}
<1> SUFFICES ASSUME S # {} PROVE FALSE
  OBVIOUS
<1>1. PICK k \in S : \A m \in S : k <= m
  <2>1. S \subseteq Nat
    OBVIOUS
  <2> HIDE DEF S
  <2> QED
    BY <2>1, LeastNumber
<1>2. k \in Nat /\ ~ \E f : FlattensUpto(seqs, f, k)
  OBVIOUS
<1>3. CASE k = 0
  <2> DEFINE f == [i \in 1 .. 0 |-> i]
             h == [i \in 1 .. 0 |-> IF i = 1 THEN seqs[i] ELSE f[i - 1] \o seqs[i]]
  <2>1. f = h
    OBVIOUS
  <2>2. FlattensUpto(seqs, f, 0)
    BY <2>1 DEF FlattensUpto
  <2> QED
    BY <1>2, <1>3, <2>2
<1>4. CASE k # 0
  <2>1. k - 1 \in Nat /\ k - 1 \notin S
    <3>1. k - 1 \in Nat
      BY <1>2, <1>4
    <3> HIDE DEF S
    <3> QED
      BY <1>1, <1>2, <3>1
  <2>2. PICK f : FlattensUpto(seqs, f, k - 1)
    BY <2>1
  <2> DEFINE next(g, i) == IF i = 1 THEN seqs[i] ELSE g[i - 1] \o seqs[i]
             e == [i \in 1 .. k |-> next(f, i)]
             h == [i \in 1 .. k |-> next(e, i)]
  <2>3. \A i \in 1 .. (k - 1) : f[i] = next(f, i)
    BY <2>2 DEF FlattensUpto
  <2>4. ASSUME NEW i \in 1 .. k PROVE e[i] = h[i]
    <3>1. CASE i = 1
      BY <3>1
    <3>2. CASE i # 1
      <4> DEFINE j == i - 1
      <4>1. j \in 1 .. (k - 1) /\ j \in 1 .. k
        BY <1>2, <3>2
      <4>2. e[j] = f[j]
        <5> HIDE DEF j
        <5> QED
          BY <4>1, <2>3
      <4>3. next(e, i) = next(f, i)
        <5> HIDE DEF e
        <5> QED
          BY <3>2, <4>2
      <4> HIDE DEF j, next
      <4> QED
        BY <4>3
    <3> QED
      BY <3>1, <3>2
  <2>5. e = h
    BY <2>4
  <2>6. FlattensUpto(seqs, e, k)
    BY <2>5 DEF FlattensUpto
  <2> QED
    BY <1>2, <2>6
<1> QED
  BY <1>3, <1>4

\* Some function has the concatenation of the first i sequences for each i.
LEMMA FlattenSteps ==
  ASSUME NEW seqs, Len(seqs) \in Nat, Len(seqs) >= 1
  PROVE  \E f : /\ f[1] = seqs[1]
                /\ \A i \in 2 .. Len(seqs) : f[i] = f[i - 1] \o seqs[i]
                /\ FlattenSeq(seqs) = f[Len(seqs)]
<1>1. \E f : FlattensUpto(seqs, f, Len(seqs))
  BY FlattenUpto
<1>2. PICK f : FlattensUpto(seqs, f, Len(seqs)) /\ FlattenSeq(seqs) = f[Len(seqs)]
  BY <1>1, FlattenIsFold
<1>3. \A i \in 1 .. Len(seqs) : f[i] = IF i = 1 THEN seqs[i] ELSE f[i - 1] \o seqs[i]
  BY <1>2 DEF FlattensUpto
<1> DEFINE n == Len(seqs)
<1>4. n \in Nat /\ n >= 1
  OBVIOUS
<1> HIDE DEF n
<1>5. 1 \in 1 .. n /\ \A i \in 2 .. n : i \in 1 .. n /\ i # 1
  BY <1>4
<1>6. f[1] = seqs[1] /\ \A i \in 2 .. n : f[i] = f[i - 1] \o seqs[i]
  BY <1>3, <1>5 DEF n
<1> QED
  BY <1>2, <1>6 DEF n

LEMMA FiniteHasGreatest ==
  ASSUME NEW V, IsFiniteSet(V), V \subseteq Int, V # {}
  PROVE  \E v \in V : \A w \in V : w <= v
<1> DEFINE Has(s) == \E v \in s : \A w \in s : w <= v
           F == {s \in SUBSET V : s # {} /\ ~ Has(s)}
<1> SUFFICES ASSUME F # {} PROVE FALSE
  OBVIOUS
<1>1. PICK s \in F : \A t \in F : t \subseteq s => t = s
  <2>1. F \subseteq SUBSET V /\ F # {} /\ IsFiniteSet(V)
    OBVIOUS
  <2> HIDE DEF F
  <2> QED
    BY ONLY <2>1, SmallestSubset
<1>2. s \in SUBSET V /\ s # {} /\ ~ Has(s)
  OBVIOUS
<1>3. PICK x : x \in s
  BY <1>2
<1>4. s \ {x} \in SUBSET V /\ s \ {x} # s /\ s \ {x} \notin F
  BY <1>1, <1>2, <1>3
<1>5. CASE s \ {x} = {}
  <2>1. s = {x}
    BY <1>3, <1>5
  <2> QED
    BY <1>2, <2>1
<1>6. CASE s \ {x} # {}
  <2>1. PICK v \in s \ {x} : \A w \in s \ {x} : w <= v
    BY <1>4, <1>6
  <2>2. v \in Int /\ x \in Int /\ \A w \in s : w \in Int
    BY <1>2, <1>3
  <2>3. CASE x <= v
    <3>1. \A w \in s : w <= v
      BY <2>1, <2>3
    <3> QED
      BY <1>2, <3>1
  <2>4. CASE ~ (x <= v)
    <3>1. \A w \in s : w <= x
      BY <2>1, <2>2, <2>4
    <3> QED
      BY <1>2, <1>3, <3>1
  <2> QED
    BY <2>3, <2>4
<1> QED
  BY <1>5, <1>6

LEMMA GreatestMember ==
  ASSUME NEW V, IsFiniteSet(V), V \subseteq Int, V # {}
  PROVE  Max(V) \in V /\ \A w \in V : w <= Max(V)
<1>1. \E v \in V : \A w \in V : v >= w
  <2>1. PICK v \in V : \A w \in V : w <= v
    BY FiniteHasGreatest
  <2>2. \A w \in V : v >= w
    BY <2>1
  <2> QED
    BY <2>2
<1>2. Max(V) \in V /\ \A w \in V : Max(V) >= w
  BY <1>1 DEF Max
<1> QED
  BY <1>2

(***************************************************************************)
(* Multiples, quotients and intervals of whole numbers.                    *)
(***************************************************************************)
\* Multiples of a larger number are larger.
LEMMA ScaledGrow ==
  ASSUME NEW m \in Int, NEW n \in Int, NEW d \in Nat, m <= n
  PROVE  m * d \in Int /\ n * d \in Int /\ m * d <= n * d
<1>1. (n - m) * d >= 0
  BY SMT
<1>2. (n - m) * d = n * d - m * d
  BY SMT
<1> QED
  BY <1>1, <1>2

\* Different numbers have different multiples.
LEMMA OneMultiple ==
  ASSUME NEW m \in Int, NEW n \in Int, NEW d \in Nat \ {0}, m * d = n * d
  PROVE  m = n
<1>1. ASSUME NEW a \in Int, NEW b \in Int, a < b PROVE a * d < b * d
  <2>1. (a + 1) * d <= b * d /\ (a + 1) * d \in Int /\ b * d \in Int
    BY <1>1, ScaledGrow
  <2>2. (a + 1) * d = a * d + d /\ a * d \in Int
    OBVIOUS
  <2> QED
    BY <2>1, <2>2
<1>2. m * d \in Int
  OBVIOUS
<1>3. ~ (m < n)
  BY <1>1, <1>2
<1>4. ~ (n < m)
  BY <1>1, <1>2
<1> QED
  BY <1>3, <1>4

\* What a quotient leaves.
LEMMA QuotientBounds ==
  ASSUME NEW a \in Int, NEW d \in Nat \ {0}
  PROVE  a \div d \in Int /\ (a \div d) * d <= a /\ a < (a \div d) * d + d
BY SMT

\* n is what a holds of the divisor d.
LEMMA QuotientIs ==
  ASSUME NEW a \in Int, NEW d \in Nat \ {0}, NEW n \in Int
  PROVE  a \div d = n <=> n * d <= a /\ a < n * d + d
<1> DEFINE q == a \div d
<1>1. q \in Int /\ q * d <= a /\ a < q * d + d /\ q * d \in Int /\ n * d \in Int
  BY QuotientBounds
<1> HIDE DEF q
<1>2. ASSUME n * d <= a, a < n * d + d PROVE q = n
  <2>1. CASE q < n
    <3>1. (q + 1) * d <= n * d
      BY <1>1, <2>1, ScaledGrow
    <3>2. (q + 1) * d = q * d + d
      BY <1>1
    <3> QED
      BY <1>1, <1>2, <3>1, <3>2
  <2>2. CASE n < q
    <3>1. (n + 1) * d <= q * d
      BY <1>1, <2>2, ScaledGrow
    <3>2. (n + 1) * d = n * d + d
      OBVIOUS
    <3> QED
      BY <1>1, <1>2, <3>1, <3>2
  <2> QED
    BY <1>1, <2>1, <2>2
<1> QED
  BY <1>1, <1>2 DEF q

\* Quotients grow with what is divided.
LEMMA QuotientGrows ==
  ASSUME NEW a \in Nat, NEW b \in Nat, a <= b, NEW d \in Nat \ {0}
  PROVE  a \div d \in Nat /\ b \div d \in Nat /\ a \div d <= b \div d
<1> DEFINE q == a \div d
           u == b \div d
<1>1. q \in Int /\ q * d <= a /\ a < q * d + d /\ u \in Int /\ u * d <= b /\ b < u * d + d
  BY QuotientBounds
<1> HIDE DEF q, u
<1>2. ~ (u < q)
  <2> SUFFICES ASSUME u < q PROVE FALSE
    OBVIOUS
  <2>1. (u + 1) * d <= q * d /\ (u + 1) * d \in Int /\ q * d \in Int
    BY <1>1, ScaledGrow
  <2>2. (u + 1) * d = u * d + d
    BY <1>1
  <2> QED
    BY <1>1, <2>1, <2>2
<1>3. ~ (q < 0)
  <2> SUFFICES ASSUME q < 0 PROVE FALSE
    OBVIOUS
  <2>1. (q + 1) * d <= 0 * d /\ (q + 1) * d \in Int
    BY <1>1, ScaledGrow
  <2>2. (q + 1) * d = q * d + d /\ 0 * d = 0
    BY <1>1
  <2> QED
    BY <1>1, <2>1, <2>2
<1> QED
  BY <1>1, <1>2, <1>3 DEF q, u

\* The smaller of two numbers, and ...
LEMMA MinOfTwo ==
  ASSUME NEW a \in Int, NEW b \in Int
  PROVE  Min({a, b}) \in {a, b} /\ Min({a, b}) <= a /\ Min({a, b}) <= b
BY DEF Min

\* ... the larger.
LEMMA MaxOfTwo ==
  ASSUME NEW a \in Int, NEW b \in Int
  PROVE  Max({a, b}) \in {a, b} /\ a <= Max({a, b}) /\ b <= Max({a, b})
BY DEF Max

\* T holds the members of S, each with n.
Copied(S, n, T) == T = {<<p, n>> : p \in S}

\* Pairs with one second part are as many as their first parts.
LEMMA Copies ==
  ASSUME NEW S, IsFiniteSet(S), NEW n, NEW T, Copied(S, n, T)
  PROVE  IsFiniteSet(T) /\ Cardinality(T) = Cardinality(S)
<1> DEFINE f == [p \in S |-> <<p, n>>]
<1>1. f \in [S -> T] /\ (\A p, q \in S : f[p] = f[q] => p = q) /\ \A x \in T : \E p \in S : f[p] = x
  BY DEF Copied
<1> HIDE DEF f
<1>2. f \in Bijection(S, T)
  BY <1>1 DEF Bijection, Injection, Surjection, IsInjective
<1>3. ExistsBijection(S, T)
  BY <1>2 DEF ExistsBijection
<1> QED
  BY <1>2, <1>3, FS_Bijection, FS_Surjection DEF Bijection

\* Of two sets that differ by what came and what went.
LEMMA ComeAndGo ==
  ASSUME NEW A, IsFiniteSet(A), NEW B, IsFiniteSet(B)
  PROVE  Cardinality(B \ A) + Cardinality(A) = Cardinality(A \ B) + Cardinality(B)
<1>1. IsFiniteSet(B \ A) /\ IsFiniteSet(A \ B)
  BY FS_Subset
<1>2. Cardinality((B \ A) \cup A) = Cardinality(B \ A) + Cardinality(A)
  BY <1>1, TwoParts
<1>3. Cardinality((A \ B) \cup B) = Cardinality(A \ B) + Cardinality(B)
  BY <1>1, TwoParts
<1>4. (B \ A) \cup A = (A \ B) \cup B
  OBVIOUS
<1> QED
  BY <1>2, <1>3, <1>4

\* Sets of pairs with the same pairs are the same.
LEMMA SamePairs ==
  ASSUME NEW S, NEW T, NEW A, A \subseteq S \X T, NEW B, B \subseteq S \X T,
         \A p \in S, i \in T : <<p, i>> \in A <=> <<p, i>> \in B
  PROVE  A = B
<1>1. \A x \in S \X T : \E p \in S, i \in T : x = <<p, i>>
  OBVIOUS
<1>2. \A x \in S \X T : x \in A <=> x \in B
  BY <1>1
<1> QED
  BY <1>2

\* The pairs of a member of S and a number after the first and up to n that f
\* chooses.
ChosenPairs(S, f, first, n) == {x \in S \X ((first + 1) .. n) : f[x]}

ChosenAt(S, f, n) == {p \in S : f[<<p, n>>]}

\* What a set of pairs gains from one more second part.
LEMMA OneMoreStep ==
  ASSUME NEW S, IsFiniteSet(S), NEW first \in Nat, NEW n \in Nat, first <= n,
         NEW f, NEW m, m = n + 1
  PROVE  /\ Cardinality(ChosenPairs(S, f, first, n)) \in Nat
         /\ Cardinality(ChosenAt(S, f, m)) \in Nat
         /\ Cardinality(ChosenPairs(S, f, first, m)) =
              Cardinality(ChosenPairs(S, f, first, n)) + Cardinality(ChosenAt(S, f, m))
<1> DEFINE Upto(k) == {x \in S \X ((first + 1) .. k) : f[x]}
           more == {p \in S : f[<<p, m>>]}
           fresh == {<<p, m>> : p \in more}
<1>1. IsFiniteSet(Upto(n))
  <2>1. IsFiniteSet((first + 1) .. n)
    BY FS_Interval
  <2>2. IsFiniteSet(S \X ((first + 1) .. n))
    BY <2>1, FS_Product
  <2> QED
    BY <2>2, FS_Subset
<1>2. IsFiniteSet(more)
  BY FS_Subset
<1>3. IsFiniteSet(fresh) /\ Cardinality(fresh) = Cardinality(more)
  <2> HIDE DEF more
  <2>1. Copied(more, m, fresh)
    BY DEF Copied
  <2> HIDE DEF fresh
  <2> QED
    BY <1>2, <2>1, Copies
<1>4. (first + 1) .. m = ((first + 1) .. n) \cup {m} /\ m \notin (first + 1) .. n
  OBVIOUS
<1>5. Upto(m) = Upto(n) \cup fresh
  <2>1. ASSUME NEW p \in S, NEW i \in Nat
        PROVE  <<p, i>> \in Upto(m) <=> <<p, i>> \in Upto(n) \cup fresh
    <3>1. <<p, i>> \in fresh <=> i = m /\ f[<<p, m>>]
      OBVIOUS
    <3>2. <<p, i>> \in Upto(m) <=> i \in (first + 1) .. m /\ f[<<p, i>>]
      OBVIOUS
    <3>3. <<p, i>> \in Upto(n) <=> i \in (first + 1) .. n /\ f[<<p, i>>]
      OBVIOUS
    <3>4. i = m => i \in (first + 1) .. m
      OBVIOUS
    <3> HIDE DEF Upto, fresh
    <3> QED
      BY <1>4, <3>1, <3>2, <3>3, <3>4
  <2>2. Upto(m) \subseteq S \X Nat /\ Upto(n) \subseteq S \X Nat
    <3>1. (first + 1) .. m \subseteq Nat /\ (first + 1) .. n \subseteq Nat
      OBVIOUS
    <3> QED
      BY <3>1
  <2>3. fresh \subseteq S \X Nat
    <3>1. more \subseteq S /\ m \in Nat
      OBVIOUS
    <3>2. fresh = {<<p, m>> : p \in more}
      OBVIOUS
    <3> HIDE DEF more, fresh
    <3> QED
      BY <3>1, <3>2
  <2> HIDE DEF Upto, fresh
  <2>4. Upto(n) \cup fresh \subseteq S \X Nat
    BY <2>2, <2>3
  <2> QED
    BY <2>1, <2>2, <2>4, SamePairs
<1>6. Upto(n) \cap fresh = {}
  <2>1. ASSUME NEW x \in Upto(n), x \in fresh PROVE FALSE
    <3>1. x[2] \in (first + 1) .. n
      OBVIOUS
    <3>2. x[2] = m
      <4>1. \E p \in more : x = <<p, m>>
        BY <2>1
      <4> HIDE DEF more
      <4> QED
        BY <4>1
    <3> QED
      BY <1>4, <3>1, <3>2
  <2> HIDE DEF Upto, fresh
  <2> QED
    BY <2>1
<1> HIDE DEF Upto, fresh, more
<1>7. Cardinality(Upto(m)) = Cardinality(Upto(n)) + Cardinality(fresh)
  BY <1>1, <1>3, <1>5, <1>6, TwoParts
<1> QED
  BY <1>1, <1>2, <1>3, <1>7, FS_CardinalityType DEF Upto, more, ChosenPairs, ChosenAt

\* T holds the pairs of A with z between.
Tripled(A, z, T) == T = {<<x[1], z, x[2]>> : x \in A}

\* Pairs keep their number with a third part between.
LEMMA TriplesCount ==
  ASSUME NEW S, NEW U, NEW A, A \subseteq S \X U, IsFiniteSet(A), NEW z, NEW T, Tripled(A, z, T)
  PROVE  IsFiniteSet(T) /\ Cardinality(T) = Cardinality(A)
<1> DEFINE f == [x \in A |-> <<x[1], z, x[2]>>]
<1>1. \A x \in A : x = <<x[1], x[2]>>
  OBVIOUS
<1>2. f \in [A -> T] /\ \A y \in T : \E x \in A : f[x] = y
  BY DEF Tripled
<1>3. \A x, y \in A : f[x] = f[y] => x = y
  <2> SUFFICES ASSUME NEW x \in A, NEW y \in A, f[x] = f[y] PROVE x = y
    OBVIOUS
  <2>1. <<x[1], z, x[2]>> = <<y[1], z, y[2]>>
    OBVIOUS
  <2>2. x[1] = y[1] /\ x[2] = y[2]
    BY <2>1
  <2> QED
    BY <1>1, <2>2
<1> HIDE DEF f
<1>4. f \in Bijection(A, T)
  BY <1>2, <1>3 DEF Bijection, Injection, Surjection, IsInjective
<1>5. ExistsBijection(A, T)
  BY <1>4 DEF ExistsBijection
<1> QED
  BY <1>4, <1>5, FS_Bijection, FS_Surjection DEF Bijection

\* A number without a remainder is a multiple.
LEMMA WholeQuotient ==
  ASSUME NEW a \in Nat, NEW d \in Nat \ {0}, a % d = 0
  PROVE  a \div d \in Nat /\ a = (a \div d) * d
<1>1. a \div d \in Nat
  BY QuotientGrows
<1>2. a = d * (a \div d)
  BY ONLY a \in Nat, d \in Nat \ {0}, a % d = 0
<1> DEFINE q == a \div d
<1>3. q \in Nat /\ a = d * q
  BY <1>1, <1>2
<1> HIDE DEF q
<1>4. d * q = q * d
  BY <1>3
<1> QED
  BY <1>3, <1>4 DEF q

\* Of two multiples of a number the larger is one more multiple at least.
LEMMA ScaledLess ==
  ASSUME NEW m \in Int, NEW n \in Int, NEW d \in Nat, m * d < n * d
  PROVE  m + 1 <= n /\ m * d + d <= n * d
<1>1. m < n
  <2>1. ASSUME n <= m PROVE FALSE
    <3>1. n * d <= m * d /\ n * d \in Int /\ m * d \in Int
      BY <2>1, ScaledGrow
    <3> QED
      BY <3>1
  <2> QED
    BY <2>1
<1>2. (m + 1) * d <= n * d
  BY <1>1, ScaledGrow
<1>3. (m + 1) * d = m * d + d
  OBVIOUS
<1> QED
  BY <1>1, <1>2, <1>3

\* How much of the interval from a to b lies between lo and hi.
LEMMA OverlapCases ==
  ASSUME NEW a \in Int, NEW b \in Int, a < b, NEW lo \in Int, NEW hi \in Int, lo < hi
  PROVE  LET shared == Max({0, Min({b, hi}) - Max({a, lo})})
         IN  /\ lo <= a /\ b <= hi => shared = b - a
             /\ hi <= a \/ b <= lo => shared = 0
<1> DEFINE l == Min({b, hi})
           f == Max({a, lo})
           shared == Max({0, l - f})
<1>1. l \in {b, hi} /\ l <= b /\ l <= hi
  BY ONLY b \in Int, hi \in Int, MinOfTwo
<1>2. f \in {a, lo} /\ a <= f /\ lo <= f
  BY ONLY a \in Int, lo \in Int, MaxOfTwo
<1> HIDE DEF l, f
<1>3. l \in Int /\ f \in Int
  BY <1>1, <1>2
<1>4. shared \in {0, l - f} /\ 0 <= shared /\ l - f <= shared
  <2>1. l - f \in Int /\ 0 \in Int
    BY <1>3
  <2> DEFINE d == l - f
  <2>3. d \in Int
    BY <2>1
  <2> HIDE DEF d
  <2>2. Max({0, d}) \in {0, d} /\ 0 <= Max({0, d}) /\ d <= Max({0, d})
    BY ONLY <2>1, <2>3, MaxOfTwo
  <2> QED
    BY <2>2 DEF d
<1> HIDE DEF shared
<1>5. ASSUME lo <= a, b <= hi PROVE shared = b - a
  BY <1>1, <1>2, <1>3, <1>4, <1>5
<1>6. ASSUME hi <= a \/ b <= lo PROVE shared = 0
  BY <1>1, <1>2, <1>3, <1>4, <1>6
<1> QED
  BY <1>5, <1>6 DEF shared, l, f

(***************************************************************************)
(* Sharing out in an order.                                                *)
(***************************************************************************)

\* Of finitely many elements in an order, partial or not, one comes first.
LEMMA OneIsFirst ==
  ASSUME NEW S, IsFiniteSet(S), S # {}, NEW before, before \in [S -> SUBSET S],
         \A x \in S : x \notin before[x] /\ \A y \in before[x] : before[y] \subseteq before[x]
  PROVE  \E x \in S : before[x] = {}
<1> DEFINE rank == [x \in S |-> Cardinality(before[x])]
<1>1. \A x \in S : IsFiniteSet(before[x])
  BY FS_Subset
<1>2. \A x \in S : rank[x] \in Nat
  BY <1>1, FS_CardinalityType
<1>3. PICK x \in S : \A y \in S : rank[x] <= rank[y]
  <2> HIDE DEF rank
  <2> QED
    BY <1>2, LeastBy
<1>4. before[x] = {}
  <2> SUFFICES ASSUME NEW y \in before[x] PROVE FALSE
    OBVIOUS
  <2>1. y \in S /\ before[y] \in SUBSET before[x] /\ before[y] # before[x]
    OBVIOUS
  <2>2. Cardinality(before[y]) <= Cardinality(before[x])
        /\ Cardinality(before[y]) # Cardinality(before[x])
    BY <1>1, <2>1, FS_Subset
  <2>3. rank[x] <= rank[y] /\ rank[x] \in Nat /\ rank[y] \in Nat
    BY <1>2, <1>3, <2>1
  <2>4. rank[x] = Cardinality(before[x]) /\ rank[y] = Cardinality(before[y])
    BY <2>1
  <2> QED
    BY <2>2, <2>3, <2>4
<1> QED
  BY <1>4

\* What comes before an element of an ordered set, and the element, are the set,
\* if nothing comes after it.
LEMMA OneIsLast ==
  ASSUME NEW D, NEW before, Ranks(D, before), NEW T \in SUBSET D, T # {},
         \A x \in T : before[x] \subseteq T
  PROVE  \E x \in T : before[x] = T \ {x}
<1> USE DEF Ranks
<1> DEFINE after == [x \in T |-> {y \in T : x \in before[y]}]
<1>1. IsFiniteSet(T)
  BY FS_Subset
<1>2. PICK x \in T : after[x] = {}
  <2>1. after \in [T -> SUBSET T]
    OBVIOUS
  <2>2. \A x \in T : x \notin after[x] /\ \A y \in after[x] : after[y] \subseteq after[x]
    OBVIOUS
  <2> HIDE DEF after
  <2> QED
    BY <1>1, <2>1, <2>2, OneIsFirst
<1>3. \A y \in T : x \notin before[y]
  BY <1>2
<1>4. \A y \in T \ {x} : y \in before[x]
  BY <1>3
<1>5. x \notin before[x] /\ before[x] \subseteq T
  OBVIOUS
<1> QED
  BY <1>4, <1>5

LEMMA LesserOfTwo ==
  ASSUME NEW a \in Int, NEW b \in Int
  PROVE  Min({a, b}) = IF a <= b THEN a ELSE b
BY MinOfTwo

LEMMA GreaterOfTwo ==
  ASSUME NEW a \in Int, NEW b \in Int
  PROVE  Max({a, b}) = IF a <= b THEN b ELSE a
BY MaxOfTwo

\* Each in its turn gives up what is still wanted, as far as it has it.
TakenFrom(D, before, has, wanted, earlier, cut) ==
  /\ Ranks(D, before) /\ wanted \in Nat
  /\ DOMAIN has = D /\ DOMAIN cut = D
  /\ \A x \in D : /\ has[x] \in Nat
                  /\ DOMAIN earlier[x] = before[x]
                  /\ \A y \in before[x] : earlier[x][y] = has[y]
                  /\ cut[x] = Min({has[x], Max({0, wanted - SumFunction(earlier[x])})})

\* Together they give up what is wanted, or all they have.
THEOREM TakenInTurn ==
  ASSUME NEW D, NEW before, NEW has, NEW wanted, NEW earlier, NEW cut,
         TakenFrom(D, before, has, wanted, earlier, cut)
  PROVE  /\ \A x \in D : cut[x] \in 0 .. has[x] /\ cut[x] <= wanted
         /\ SumFunction(has) \in Nat
         /\ SumFunction(cut) = IF wanted <= SumFunction(has) THEN wanted ELSE SumFunction(has)
<1> USE DEF TakenFrom
<1>0. IsFiniteSet(D)
  BY DEF Ranks
<1>a. IsFiniteSet(DOMAIN has) /\ \A y \in DOMAIN has : has[y] \in Int
  <2>1. DOMAIN has = D /\ \A y \in D : has[y] \in Nat
    OBVIOUS
  <2> QED
    BY <1>0, <2>1
<1>1. PICK f : Adding(has, f) /\ SumFunction(has) = f[D]
  BY <1>a, SumAdds
<1>2. \A x \in D : before[x] \in SUBSET D
  BY DEF Ranks
<1>3. \A x \in D : SumFunction(earlier[x]) = f[before[x]]
  <2> SUFFICES ASSUME NEW x \in D PROVE SumFunction(earlier[x]) = f[before[x]]
    OBVIOUS
  <2> DEFINE h == earlier[x]
             s == before[x]
  <2>1. s \in SUBSET (DOMAIN has) /\ DOMAIN h = s /\ \A y \in s : h[y] = has[y]
    BY <1>2
  <2> HIDE DEF h, s
  <2>3. SumFunction(h) = f[s]
    BY <1>1, <1>a, <2>1, PartSum
  <2> QED
    BY <2>3 DEF h, s
<1>4. \A T \in SUBSET D : f[T] \in Nat
  <2> SUFFICES ASSUME NEW T \in SUBSET D PROVE f[T] \in Nat
    OBVIOUS
  <2> DEFINE h == [x \in T |-> has[x]]
  <2>1. DOMAIN h = T /\ \A x \in T : h[x] = has[x]
    OBVIOUS
  <2>2. IsFiniteSet(T) /\ \A x \in DOMAIN h : h[x] \in Nat
    BY <1>0, FS_Subset
  <2>3. T \in SUBSET (DOMAIN has)
    OBVIOUS
  <2> HIDE DEF h
  <2>4. SumFunction(h) = f[T]
    BY <1>1, <1>a, <2>1, <2>3, PartSum
  <2>5. SumFunction(h) \in Nat
    BY <2>1, <2>2, SumOfCounts
  <2> QED
    BY <2>4, <2>5
<1>5. \A x \in D : /\ has[x] \in Nat /\ f[before[x]] \in Nat
                   /\ cut[x] = Min({has[x], Max({0, wanted - f[before[x]]})})
  BY <1>2, <1>3, <1>4
<1>6. \A x \in D : cut[x] = IF has[x] <= wanted - f[before[x]] THEN has[x]
                            ELSE IF f[before[x]] <= wanted THEN wanted - f[before[x]] ELSE 0
  <2> SUFFICES ASSUME NEW x \in D
               PROVE  cut[x] = IF has[x] <= wanted - f[before[x]] THEN has[x]
                               ELSE IF f[before[x]] <= wanted THEN wanted - f[before[x]] ELSE 0
    OBVIOUS
  <2> DEFINE a == f[before[x]]
             b == has[x]
             m == Max({0, wanted - a})
  <2>1. a \in Nat /\ b \in Nat /\ wanted \in Nat /\ cut[x] = Min({b, m})
    BY <1>5
  <2> HIDE DEF a, b
  <2>2. m = IF 0 <= wanted - a THEN wanted - a ELSE 0
    <3> DEFINE d == wanted - a
    <3>1. 0 \in Int /\ d \in Int
      BY <2>1
    <3> HIDE DEF d
    <3>2. Max({0, d}) = IF 0 <= d THEN d ELSE 0
      BY <3>1, GreaterOfTwo
    <3> QED
      BY <3>2 DEF d
  <2>3. m \in Int
    BY <2>1, <2>2
  <2> HIDE DEF m
  <2>4. Min({b, m}) = IF b <= m THEN b ELSE m
    BY <2>1, <2>3, LesserOfTwo
  <2>5. cut[x] = IF b <= wanted - a THEN b ELSE IF a <= wanted THEN wanted - a ELSE 0
    BY <2>1, <2>2, <2>4
  <2> QED
    BY <2>5 DEF a, b
<1>7. \A x \in D : cut[x] \in 0 .. has[x] /\ cut[x] <= wanted
  <2> SUFFICES ASSUME NEW x \in D PROVE cut[x] \in 0 .. has[x] /\ cut[x] <= wanted
    OBVIOUS
  <2> DEFINE a == f[before[x]]
             b == has[x]
             c == cut[x]
  <2>1. a \in Nat /\ b \in Nat /\ wanted \in Nat
        /\ c = IF b <= wanted - a THEN b ELSE IF a <= wanted THEN wanted - a ELSE 0
    BY <1>5, <1>6
  <2> HIDE DEF a, b, c
  <2>2. c \in 0 .. b /\ c <= wanted
    BY <2>1
  <2> QED
    BY <2>2 DEF b, c
<1>8. PICK e : Adding(cut, e) /\ SumFunction(cut) = e[D]
  <2>1. \A x \in DOMAIN cut : cut[x] \in Int
    BY <1>5, <1>7
  <2> QED
    BY <1>0, <2>1, SumAdds
<1> DEFINE Right(T) == e[T] = IF wanted <= f[T] THEN wanted ELSE f[T]
           F == {T \in SUBSET D : (\A x \in T : before[x] \subseteq T) /\ ~ Right(T)}
<1>9. F = {}
  <2> SUFFICES ASSUME F # {} PROVE FALSE
    OBVIOUS
  <2>1. PICK T \in F : \A t \in F : t \subseteq T => t = T
    <3>1. F \subseteq SUBSET D
      OBVIOUS
    <3> HIDE DEF F
    <3> QED
      BY <1>0, <3>1, SmallestSubset
  <2>2. T \in SUBSET D /\ (\A x \in T : before[x] \subseteq T) /\ ~ Right(T)
    OBVIOUS
  <2>3. T # {}
    <3> SUFFICES ASSUME T = {} PROVE FALSE
      OBVIOUS
    <3>1. e[T] = 0 /\ f[T] = 0
      BY <1>1, <1>8 DEF Adding
    <3> QED
      BY <2>2, <3>1
  <2>4. PICK x \in T : before[x] = T \ {x}
    BY <2>2, <2>3, OneIsLast
  <2>5. Right(T \ {x})
    <3>1. T \ {x} \in SUBSET D /\ T \ {x} \subseteq T /\ T \ {x} # T
      BY <2>2
    <3>2. \A y \in T \ {x} : before[y] \subseteq T \ {x}
      BY <2>2, <2>4 DEF Ranks
    <3> QED
      BY <2>1, <3>1, <3>2
  <2>6. f[T] = has[x] + f[T \ {x}]
    <3>1. T \in SUBSET (DOMAIN has)
      BY <2>2
    <3> QED
      BY <1>1, <1>a, <3>1, AnyOrder
  <2>7. e[T] = cut[x] + e[T \ {x}]
    <3>1. \A y \in DOMAIN cut : cut[y] \in Int
      BY <1>5, <1>7
    <3> QED
      BY <1>0, <1>8, <2>2, <3>1, AnyOrder
  <2> DEFINE a == f[T \ {x}]
             b == has[x]
             c == cut[x]
             r == e[T \ {x}]
             ft == f[T]
             et == e[T]
  <2>8. x \in D /\ a = f[before[x]]
    BY <2>2, <2>4
  <2>9. a \in Nat /\ b \in Nat /\ wanted \in Nat
    BY <1>5, <2>8
  <2>10. c = IF b <= wanted - a THEN b ELSE IF a <= wanted THEN wanted - a ELSE 0
    BY <1>6, <2>8
  <2>11. r = IF wanted <= a THEN wanted ELSE a
    BY <2>5
  <2>12. ft = b + a /\ et = c + r
    BY <2>6, <2>7
  <2>13. ~ (et = IF wanted <= ft THEN wanted ELSE ft)
    BY <2>2
  <2> HIDE DEF a, b, c, r, ft, et
  <2> QED
    BY <2>9, <2>10, <2>11, <2>12, <2>13
<1>10. D \in SUBSET D /\ \A x \in D : before[x] \subseteq D
  BY <1>2
<1>11. Right(D)
  BY <1>9, <1>10
<1> QED
  BY <1>1, <1>4, <1>7, <1>8, <1>10, <1>11

\* By a number, and by themselves where it is the same.
Lower(S, rest, l) == {k \in S : rest[k] < rest[l] \/ (rest[k] = rest[l] /\ k < l)}

LEMMA OrderedByNumber ==
  ASSUME NEW S, IsFiniteSet(S), S \subseteq Nat, NEW rest, \A l \in S : rest[l] \in Int,
         NEW order \in [S -> SUBSET S]
  PROVE  /\ (\A k, l \in S : k \in order[l] <=> k \in Lower(S, rest, l)) => Ranks(S, order)
         /\ (\A k, l \in S : k \in order[l] <=> l \in Lower(S, rest, k)) => Ranks(S, order)
<1>1. ASSUME NEW k \in S, NEW l \in S, k # l
      PROVE  k \in Lower(S, rest, l) \/ l \in Lower(S, rest, k)
  <2>1. rest[k] \in Int /\ rest[l] \in Int /\ k \in Nat /\ l \in Nat
    OBVIOUS
  <2>2. \/ rest[k] < rest[l] \/ (rest[k] = rest[l] /\ k < l)
        \/ rest[l] < rest[k] \/ (rest[l] = rest[k] /\ l < k)
    BY <1>1, <2>1
  <2> QED
    BY <2>2 DEF Lower
<1>2. ASSUME NEW j \in S, NEW k \in S, NEW l \in S, j \in Lower(S, rest, k), k \in Lower(S, rest, l)
      PROVE  j \in Lower(S, rest, l)
  <2>1. /\ rest[j] \in Int /\ rest[k] \in Int /\ rest[l] \in Int
        /\ j \in Nat /\ k \in Nat /\ l \in Nat
    OBVIOUS
  <2>2. /\ rest[j] < rest[k] \/ (rest[j] = rest[k] /\ j < k)
        /\ rest[k] < rest[l] \/ (rest[k] = rest[l] /\ k < l)
    BY <1>2 DEF Lower
  <2>3. rest[j] < rest[l] \/ (rest[j] = rest[l] /\ j < l)
    BY <2>1, <2>2
  <2> QED
    BY <2>3 DEF Lower
<1>3. \A l \in S : l \notin Lower(S, rest, l) /\ Lower(S, rest, l) \subseteq S
  BY DEF Lower
<1>4. ASSUME \A k, l \in S : k \in order[l] <=> k \in Lower(S, rest, l) PROVE Ranks(S, order)
  <2>1. \A k, l \in S : k # l => k \in order[l] \/ l \in order[k]
    BY <1>1, <1>4
  <2>2. \A k, l \in S : k \in order[l] => order[k] \subseteq order[l]
    <3> SUFFICES ASSUME NEW k \in S, NEW l \in S, k \in order[l], NEW j \in order[k]
                 PROVE  j \in order[l]
      OBVIOUS
    <3>1. j \in S /\ j \in Lower(S, rest, k) /\ k \in Lower(S, rest, l)
      BY <1>4
    <3>2. j \in Lower(S, rest, l)
      BY <1>2, <3>1
    <3> QED
      BY <1>4, <3>1, <3>2
  <2>3. \A l \in S : l \notin order[l]
    BY <1>3, <1>4
  <2> QED
    BY <2>1, <2>2, <2>3 DEF Ranks
<1>5. ASSUME \A k, l \in S : k \in order[l] <=> l \in Lower(S, rest, k) PROVE Ranks(S, order)
  <2>1. \A k, l \in S : k # l => k \in order[l] \/ l \in order[k]
    BY <1>1, <1>5
  <2>2. \A k, l \in S : k \in order[l] => order[k] \subseteq order[l]
    <3> SUFFICES ASSUME NEW k \in S, NEW l \in S, k \in order[l], NEW j \in order[k]
                 PROVE  j \in order[l]
      OBVIOUS
    <3>1. j \in S /\ k \in Lower(S, rest, j) /\ l \in Lower(S, rest, k)
      BY <1>5
    <3>2. l \in Lower(S, rest, j)
      BY <1>2, <3>1
    <3> QED
      BY <1>5, <3>1, <3>2
  <2>3. \A l \in S : l \notin order[l]
    BY <1>3, <1>5
  <2> QED
    BY <2>1, <2>2, <2>3 DEF Ranks
<1> QED
  BY <1>4, <1>5

\* base is what fits into each share of the total by length, but one at least.
Sharing(S, len, total, whole, base, given) ==
  /\ IsFiniteSet(S) /\ S # {} /\ S \subseteq Nat /\ total \in Nat
  /\ DOMAIN len = S /\ DOMAIN base = S
  /\ whole = SumFunction(len) /\ given = SumFunction(base)
  /\ \A l \in S : /\ len[l] \in Nat \ {0}
                  /\ base[l] = Max({1, (total * len[l]) \div whole})

Ample(S, len, total, whole) == \A l \in S : total * len[l] >= whole

LEMMA SomethingToShare ==
  ASSUME NEW S, IsFiniteSet(S), S # {}, NEW g, DOMAIN g = S, \A l \in S : g[l] \in Nat \ {0}
  PROVE  SumFunction(g) \in Nat \ {0} /\ Cardinality(S) <= SumFunction(g)
<1> DEFINE ones == [l \in S |-> IF l \in S THEN 1 ELSE 0]
<1>1. DOMAIN ones = S /\ \A l \in S : ones[l] = IF l \in S THEN 1 ELSE 0
  OBVIOUS
<1>2. \A l \in S : ones[l] \in Int /\ g[l] \in Int /\ ones[l] <= g[l]
  OBVIOUS
<1>3. S \in SUBSET S
  OBVIOUS
<1> HIDE DEF ones
<1>4. SumFunction(ones) = Cardinality(S)
  BY <1>1, <1>3, SumOfMembers
<1>5. SumFunction(ones) <= SumFunction(g) /\ SumFunction(g) \in Int
  BY <1>1, <1>2, SumOfLess
<1>6. Cardinality(S) \in Nat \ {0}
  BY FS_CardinalityType, FS_EmptySet
<1> QED
  BY <1>4, <1>5, <1>6

\* What is left of each share, and how much is missing.
LEMMA SharesAreClose ==
  ASSUME NEW S, NEW len, NEW total, NEW whole, NEW base, NEW given,
         Sharing(S, len, total, whole, base, given)
  PROVE  /\ whole \in Nat \ {0} /\ given \in Nat \ {0} /\ Cardinality(S) \in Nat \ {0}
         /\ Cardinality(S) <= given
         /\ \A l \in S : /\ base[l] \in Nat \ {0}
                         /\ base[l] * whole \in Nat /\ total * len[l] \in Nat
                         /\ total * len[l] < base[l] * whole + whole
                         /\ Ample(S, len, total, whole) => base[l] * whole <= total * len[l]
<1> USE DEF Sharing
<1>1. whole \in Nat \ {0}
  BY SomethingToShare
<1>2. ASSUME NEW l \in S
      PROVE  /\ base[l] \in Nat \ {0} /\ base[l] * whole \in Nat /\ total * len[l] \in Nat
             /\ total * len[l] < base[l] * whole + whole
             /\ Ample(S, len, total, whole) => base[l] * whole <= total * len[l]
  <2> DEFINE a == total * len[l]
             q == a \div whole
             b == base[l]
             m == Ample(S, len, total, whole)
  <2>1. a \in Nat
    <3>1. len[l] \in Nat /\ total \in Nat
      OBVIOUS
    <3> QED
      BY <3>1
  <2>2. b = Max({1, q})
    OBVIOUS
  <2>3. m => a >= whole
    BY DEF Ample
  <2> HIDE DEF a, b, m, Sharing
  <2>4. q \in Int /\ q * whole <= a /\ a < q * whole + whole
    BY <1>1, <2>1, QuotientBounds
  <2>5. q >= 0
    <3>1. q \in Nat
      BY <1>1, <2>1, SMT
    <3> QED
      BY <3>1
  <2> HIDE DEF q
  <2>6. b = IF 1 <= q THEN q ELSE 1
    BY <2>2, <2>4, GreaterOfTwo
  <2>7. b \in Nat \ {0} /\ q <= b
    BY <2>4, <2>5, <2>6
  <2>8. b * whole \in Int /\ q * whole \in Int /\ q * whole <= b * whole
    BY <1>1, <2>4, <2>7, ScaledGrow
  <2>9. a < b * whole + whole
    BY <1>1, <2>1, <2>4, <2>8
  <2>10. m => b = q
    <3> SUFFICES ASSUME m, q < 1 PROVE FALSE
      BY <2>4, <2>6
    <3>1. q = 0
      BY <2>4, <2>5
    <3>2. a < whole
      BY <1>1, <2>1, <2>4, <3>1
    <3> QED
      BY <1>1, <2>1, <2>3, <3>2
  <2>11. m => b * whole <= a
    BY <2>4, <2>10
  <2>12. b * whole \in Nat
    BY <1>1, <2>7
  <2> QED
    BY <2>1, <2>7, <2>9, <2>11, <2>12 DEF a, b, m
<1>3. given \in Nat \ {0} /\ Cardinality(S) <= given
  BY <1>2, SomethingToShare
<1>4. Cardinality(S) \in Nat \ {0}
  BY FS_CardinalityType, FS_EmptySet
<1> QED
  BY <1>1, <1>2, <1>3, <1>4

\* The parts of the shares that are left add up to what is missing.
LEMMA RestsAddUp ==
  ASSUME NEW S, NEW len, NEW total, NEW whole, NEW base, NEW given,
         Sharing(S, len, total, whole, base, given),
         NEW rest, DOMAIN rest = S, \A l \in S : rest[l] = total * len[l] - base[l] * whole
  PROVE  /\ \A l \in S : rest[l] \in Int
         /\ SumFunction(rest) \in Int /\ SumFunction(rest) = total * whole - given * whole
<1>1. /\ whole \in Nat \ {0} /\ given \in Nat \ {0} /\ total \in Nat
      /\ \A l \in S : /\ base[l] \in Nat /\ len[l] \in Nat
                      /\ base[l] * whole \in Nat /\ total * len[l] \in Nat
  <2>1. total \in Nat /\ \A l \in S : len[l] \in Nat
    BY DEF Sharing
  <2> QED
    BY <2>1, SharesAreClose
<1>2. /\ IsFiniteSet(S) /\ DOMAIN len = S /\ DOMAIN base = S
      /\ SumFunction(len) = whole /\ SumFunction(base) = given
  BY DEF Sharing
<1> DEFINE off == [l \in S |-> 0 - base[l] * whole]
           zero == [l \in S |-> 0]
<1>3. \A l \in S : off[l] = (0 - whole) * base[l] + zero[l] /\ off[l] \in Int /\ zero[l] = 0
  <2> SUFFICES ASSUME NEW l \in S
               PROVE  0 - base[l] * whole = (0 - whole) * base[l] + 0 /\ 0 - base[l] * whole \in Int
    OBVIOUS
  <2>1. whole \in Nat /\ base[l] \in Nat
    BY <1>1
  <2> QED
    BY <2>1, SMT
<1>4. DOMAIN off = S /\ DOMAIN zero = S
  OBVIOUS
<1> HIDE DEF off, zero
<1>5. SumFunction(zero) = 0
  BY <1>2, <1>3, <1>4, SumOfNothing
<1>6. SumFunction(off) \in Int /\ SumFunction(off) = (0 - whole) * given + 0
  <2>1. Linear(off, 0 - whole, base, zero)
    <3>1. 0 - whole \in Int
      BY <1>1
    <3> QED
      BY <1>1, <1>2, <1>3, <1>4, <3>1 DEF Linear
  <2> QED
    BY <1>2, <1>5, <2>1, SumIsLinear
<1>7. \A l \in S : rest[l] = total * len[l] + off[l]
  <2> SUFFICES ASSUME NEW l \in S PROVE rest[l] = total * len[l] + off[l]
    OBVIOUS
  <2> DEFINE a == total * len[l]
             b == base[l] * whole
  <2>1. a \in Nat /\ b \in Nat
    BY <1>1
  <2>2. rest[l] = a - b /\ off[l] = 0 - b
    BY DEF off
  <2> HIDE DEF a, b
  <2>3. rest[l] = a + off[l]
    BY <2>1, <2>2
  <2> QED
    BY <2>3 DEF a
<1>8. SumFunction(rest) \in Int /\ SumFunction(rest) = total * whole + SumFunction(off)
  <2>1. Linear(rest, total, len, off)
    <3>1. total \in Int /\ \A l \in S : len[l] \in Int
      BY <1>1
    <3> QED
      BY <1>2, <1>3, <1>4, <1>7, <3>1 DEF Linear
  <2> QED
    BY <1>2, <2>1, SumIsLinear
<1>9. (0 - whole) * given + 0 = 0 - given * whole /\ given * whole \in Nat /\ total * whole \in Nat
  BY <1>1, SMT
<1>10. \A l \in S : rest[l] \in Int
  BY <1>1
<1> DEFINE tw == total * whole
           gw == given * whole
<1>11. tw \in Nat /\ gw \in Nat /\ SumFunction(off) = 0 - gw /\ SumFunction(rest) = tw + SumFunction(off)
  BY <1>6, <1>8, <1>9
<1> HIDE DEF tw, gw
<1>12. SumFunction(rest) = tw - gw
  BY <1>11
<1> QED
  BY <1>8, <1>10, <1>12 DEF tw, gw

\* A sum of whole numbers less than w each, of which as many are positive as A has.
LEMMA FewPositive ==
  ASSUME NEW S, IsFiniteSet(S), NEW rest, DOMAIN rest = S, NEW w \in Nat,
         NEW A \in SUBSET S,
         \A l \in S : rest[l] \in Int /\ rest[l] <= w /\ (l \notin A => rest[l] <= 0)
  PROVE  /\ SumFunction(rest) \in Int /\ SumFunction(rest) <= w * Cardinality(A)
         /\ Cardinality(A) \in Nat
<1> DEFINE ones == [l \in S |-> IF l \in A THEN 1 ELSE 0]
           zero == [l \in S |-> 0]
           bound == [l \in S |-> IF l \in A THEN w ELSE 0]
<1>1. /\ DOMAIN ones = S /\ DOMAIN zero = S /\ DOMAIN bound = S
      /\ \A l \in S : /\ ones[l] = (IF l \in A THEN 1 ELSE 0) /\ zero[l] = 0
                      /\ bound[l] = (IF l \in A THEN w ELSE 0)
  OBVIOUS
<1> HIDE DEF ones, zero, bound
<1>2. SumFunction(ones) = Cardinality(A)
  BY <1>1, SumOfMembers
<1>3. SumFunction(zero) = 0
  BY <1>1, SumOfNothing
<1>4. \A l \in S : bound[l] = w * ones[l] + zero[l] /\ ones[l] \in Int /\ zero[l] \in Int
  <2> SUFFICES ASSUME NEW l \in S
               PROVE  bound[l] = w * ones[l] + zero[l] /\ ones[l] \in Int /\ zero[l] \in Int
    OBVIOUS
  <2>1. CASE l \in A
    <3>1. ones[l] = 1 /\ zero[l] = 0 /\ bound[l] = w
      BY <1>1, <2>1
    <3> QED
      BY <3>1
  <2>2. CASE l \notin A
    <3>1. ones[l] = 0 /\ zero[l] = 0 /\ bound[l] = 0
      BY <1>1, <2>2
    <3> QED
      BY <3>1
  <2> QED
    BY <2>1, <2>2
<1>5. /\ SumFunction(ones) \in Int
      /\ SumFunction(bound) = w * SumFunction(ones) + SumFunction(zero)
  <2>1. Linear(bound, w, ones, zero)
    BY <1>1, <1>4 DEF Linear
  <2> QED
    BY <2>1, SumIsLinear
<1>6. Cardinality(A) \in Nat
  BY FS_Subset, FS_CardinalityType
<1>7. SumFunction(bound) = w * Cardinality(A)
  <2>1. w * Cardinality(A) \in Int
    BY <1>6
  <2> QED
    BY <1>2, <1>3, <1>5, <2>1
<1>8. \A l \in S : rest[l] \in Int /\ bound[l] \in Int /\ rest[l] <= bound[l]
  <2> SUFFICES ASSUME NEW l \in S PROVE rest[l] \in Int /\ bound[l] \in Int /\ rest[l] <= bound[l]
    OBVIOUS
  <2>1. bound[l] = IF l \in A THEN w ELSE 0
    BY <1>1
  <2> QED
    BY <2>1
<1>9. SumFunction(rest) \in Int /\ SumFunction(rest) <= SumFunction(bound)
  BY <1>1, <1>8, SumOfLess
<1> QED
  BY <1>6, <1>7, <1>9

\* What is missing is less than one for each.
LEMMA LittleIsMissing ==
  ASSUME NEW S, NEW len, NEW total, NEW whole, NEW base, NEW given,
         Sharing(S, len, total, whole, base, given),
         NEW rest, DOMAIN rest = S, \A l \in S : rest[l] = total * len[l] - base[l] * whole
  PROVE  /\ \A A \in SUBSET S : (\A l \in S : rest[l] > 0 => l \in A) => total - given <= Cardinality(A)
         /\ total - given < Cardinality(S)
         /\ Ample(S, len, total, whole) => given <= total
<1>1. /\ whole \in Nat \ {0} /\ given \in Nat \ {0} /\ total \in Nat
      /\ \A l \in S : /\ base[l] \in Nat /\ len[l] \in Nat
                      /\ base[l] * whole \in Nat /\ total * len[l] \in Nat
                      /\ total * len[l] < base[l] * whole + whole
                      /\ Ample(S, len, total, whole) => base[l] * whole <= total * len[l]
  <2>1. total \in Nat /\ \A l \in S : len[l] \in Nat
    BY DEF Sharing
  <2> QED
    BY <2>1, SharesAreClose
<1>2. IsFiniteSet(S) /\ S # {}
  BY DEF Sharing
<1>3. /\ \A l \in S : rest[l] \in Int
      /\ SumFunction(rest) \in Int /\ SumFunction(rest) = total * whole - given * whole
  BY RestsAddUp
<1> DEFINE m == total - given
<1>4. m \in Int /\ SumFunction(rest) = m * whole
  BY <1>1, <1>3, SMT
<1>5. \A l \in S : rest[l] <= whole - 1
  <2> SUFFICES ASSUME NEW l \in S PROVE rest[l] <= whole - 1
    OBVIOUS
  <2> DEFINE a == total * len[l]
             b == base[l] * whole
  <2>1. a \in Nat /\ b \in Nat /\ whole \in Nat /\ a < b + whole /\ rest[l] = a - b
    BY <1>1
  <2> HIDE DEF a, b
  <2> QED
    BY <2>1
<1> HIDE DEF m
<1>6. ASSUME NEW A \in SUBSET S, \A l \in S : rest[l] > 0 => l \in A
      PROVE  m <= Cardinality(A)
  <2> DEFINE c == Cardinality(A)
  <2>1. \A l \in S : rest[l] \in Int /\ rest[l] <= whole /\ (l \notin A => rest[l] <= 0)
    <3> SUFFICES ASSUME NEW l \in S
                 PROVE  rest[l] \in Int /\ rest[l] <= whole /\ (l \notin A => rest[l] <= 0)
      OBVIOUS
    <3>1. rest[l] \in Int /\ rest[l] <= whole - 1 /\ (rest[l] > 0 => l \in A)
      BY <1>3, <1>5, <1>6
    <3> QED
      BY <1>1, <3>1
  <2>2. SumFunction(rest) <= whole * c /\ c \in Nat
    BY <1>1, <1>2, <2>1, FewPositive
  <2> HIDE DEF c
  <2>3. m * whole <= c * whole
    <3>1. whole * c = c * whole
      BY <1>1, <2>2
    <3> QED
      BY <1>4, <2>2, <3>1
  <2>4. m <= c
    <3> SUFFICES ASSUME c + 1 <= m PROVE FALSE
      BY <1>4, <2>2
    <3>1. (c + 1) * whole <= m * whole
      BY <1>1, <1>4, <2>2, ScaledGrow
    <3>2. (c + 1) * whole = c * whole + whole /\ c * whole \in Nat
      BY <1>1, <2>2, SMT
    <3>3. m * whole \in Int
      BY <1>1, <1>4
    <3> QED
      BY <1>1, <2>3, <3>1, <3>2, <3>3
  <2> QED
    BY <2>4 DEF c
<1>7. m < Cardinality(S)
  <2> DEFINE c == Cardinality(S)
             bound == [l \in S |-> IF l \in S THEN whole - 1 ELSE 0]
  <2>1. c \in Nat \ {0}
    BY <1>2, FS_CardinalityType, FS_EmptySet
  <2>2. \A l \in S : rest[l] \in Int /\ rest[l] <= whole - 1 /\ (l \notin S => rest[l] <= 0)
    BY <1>3, <1>5
  <2>3. S \in SUBSET S /\ whole - 1 \in Nat
    BY <1>1
  <2>4. SumFunction(rest) <= (whole - 1) * c
    BY <1>2, <2>2, <2>3, FewPositive
  <2> HIDE DEF c
  <2>5. (whole - 1) * c = c * whole - c /\ c * whole \in Nat
    BY <1>1, <2>1, SMT
  <2>6. m * whole \in Int /\ m * whole < c * whole
    BY <1>1, <1>4, <2>1, <2>4, <2>5
  <2>7. m < c
    <3> SUFFICES ASSUME c <= m PROVE FALSE
      BY <1>4, <2>1
    <3>1. c * whole <= m * whole
      BY <1>1, <1>4, <2>1, ScaledGrow
    <3> QED
      BY <2>5, <2>6, <3>1
  <2> QED
    BY <2>7 DEF c
<1>8. ASSUME Ample(S, len, total, whole) PROVE given <= total
  <2>1. \A l \in S : rest[l] >= 0
    <3> SUFFICES ASSUME NEW l \in S PROVE rest[l] >= 0
      OBVIOUS
    <3> DEFINE a == total * len[l]
               b == base[l] * whole
    <3>1. a \in Nat /\ b \in Nat /\ b <= a /\ rest[l] = a - b
      BY <1>1, <1>8
    <3> HIDE DEF a, b
    <3> QED
      BY <3>1
  <2>2. SumFunction(rest) \in Nat
    <3>1. \A l \in S : rest[l] \in Nat
      BY <1>3, <2>1
    <3> QED
      BY <1>2, <3>1, SumOfCounts
  <2>3. m >= 0
    <3> SUFFICES ASSUME m + 1 <= 0 PROVE FALSE
      BY <1>4
    <3>1. (m + 1) * whole <= 0 * whole
      BY <1>1, <1>4, ScaledGrow
    <3>2. (m + 1) * whole = m * whole + whole /\ m * whole \in Int /\ 0 * whole = 0
      BY <1>1, <1>4, SMT
    <3> QED
      BY <1>1, <1>4, <2>2, <3>1, <3>2
  <2> QED
    BY <1>1, <2>3 DEF m
<1> QED
  BY <1>6, <1>7, <1>8 DEF m

\* The greatest rests get what is missing: together they then have the total, and
\* who gets one more had a rest.
LEMMA ToppedUp ==
  ASSUME NEW S, NEW len, NEW total, NEW whole, NEW base, NEW given,
         Sharing(S, len, total, whole, base, given), given < total,
         NEW rest, DOMAIN rest = S, \A l \in S : rest[l] = total * len[l] - base[l] * whole,
         NEW ahead \in [S -> SUBSET S],
         \A l \in S : ahead[l] = {k \in S : l \in Lower(S, rest, k)},
         NEW shares, DOMAIN shares = S,
         \A l \in S : shares[l] = base[l] + (total - given + Cardinality(S) - 1 - Cardinality(ahead[l]))
                                              \div Cardinality(S)
  PROVE  /\ \A l \in S : /\ shares[l] \in Nat \ {0}
                         /\ \/ shares[l] = base[l]
                            \/ shares[l] = base[l] + 1 /\ base[l] * whole < total * len[l]
         /\ SumFunction(shares) = total
<1> DEFINE m == total - given
           n == Cardinality(S)
           extra == [l \in S |-> IF l \in {k \in S : Cardinality(ahead[k]) < m} THEN 1 ELSE 0]
<1>1. /\ whole \in Nat \ {0} /\ given \in Nat \ {0} /\ n \in Nat \ {0}
      /\ \A l \in S : /\ base[l] \in Nat \ {0}
                      /\ base[l] * whole \in Nat /\ total * len[l] \in Nat
  BY SharesAreClose
<1>2. /\ IsFiniteSet(S) /\ S \subseteq Nat /\ total \in Nat /\ DOMAIN base = S
      /\ SumFunction(base) = given
  BY DEF Sharing
<1>3. \A l \in S : rest[l] \in Int
  BY RestsAddUp
<1>4. Ranks(S, ahead)
  <2>1. \A k, l \in S : k \in ahead[l] <=> l \in Lower(S, rest, k)
    OBVIOUS
  <2> QED
    BY <1>2, <1>3, <2>1, OrderedByNumber
<1>5. m \in Nat /\ m < n
  <2>1. total - given < Cardinality(S)
    BY LittleIsMissing
  <2> QED
    BY <1>1, <1>2, <2>1
<1>6. \A l \in S : ahead[l] \in SUBSET S /\ Cardinality(ahead[l]) \in Nat /\ Cardinality(ahead[l]) < n
  <2> SUFFICES ASSUME NEW l \in S
               PROVE  ahead[l] \in SUBSET S /\ Cardinality(ahead[l]) \in Nat /\ Cardinality(ahead[l]) < n
    OBVIOUS
  <2>1. ahead[l] \in SUBSET S /\ ahead[l] # S
    BY <1>4 DEF Ranks
  <2>2. IsFiniteSet(ahead[l]) /\ Cardinality(ahead[l]) <= n /\ Cardinality(ahead[l]) # n
    BY <1>2, <2>1, FS_Subset
  <2>3. Cardinality(ahead[l]) \in Nat
    BY <2>2, FS_CardinalityType
  <2> QED
    BY <1>1, <2>1, <2>2, <2>3
<1> HIDE DEF m, n
<1>7. \A l \in S : shares[l] = base[l] + extra[l] /\ extra[l] = IF Cardinality(ahead[l]) < m THEN 1 ELSE 0
  <2> SUFFICES ASSUME NEW l \in S
               PROVE  /\ shares[l] = base[l] + extra[l]
                      /\ extra[l] = IF Cardinality(ahead[l]) < m THEN 1 ELSE 0
    OBVIOUS
  <2> DEFINE c == Cardinality(ahead[l])
             a == m + n - 1 - c
  <2>1. c \in Nat /\ c < n /\ m \in Nat /\ m < n /\ n \in Nat \ {0}
    BY <1>1, <1>5, <1>6
  <2>2. shares[l] = base[l] + a \div n
    BY DEF m, n
  <2> HIDE DEF c
  <2>3. a \in Int /\ (c < m => 1 * n <= a /\ a < 1 * n + n) /\ (~ (c < m) => 0 * n <= a /\ a < 0 * n + n)
    BY <2>1
  <2> HIDE DEF a
  <2>4. a \div n = IF c < m THEN 1 ELSE 0
    BY <2>1, <2>3, QuotientIs
  <2>5. extra[l] = IF c < m THEN 1 ELSE 0
    BY DEF c
  <2> QED
    BY <2>2, <2>4, <2>5 DEF c
<1>8. SumFunction(extra) = m
  <2> DEFINE A == {k \in S : Cardinality(ahead[k]) < m}
  <2>1. A \in SUBSET S /\ DOMAIN extra = S /\ \A l \in S : extra[l] = IF l \in A THEN 1 ELSE 0
    OBVIOUS
  <2> HIDE DEF extra
  <2>2. Cardinality(A) = m
    <3>1. m <= Cardinality(S)
      BY <1>1, <1>5 DEF n
    <3> QED
      BY <1>4, <1>5, <3>1, LowRanks
  <2> HIDE DEF A
  <2> QED
    BY <1>2, <2>1, <2>2, SumOfMembers
<1>9. SumFunction(shares) = total
  <2>1. Linear(shares, 1, base, extra)
    <3>1. DOMAIN extra = S /\ \A l \in S : extra[l] \in Int /\ base[l] \in Int
      BY <1>1
    <3>2. \A l \in S : shares[l] = 1 * base[l] + extra[l]
      <4> SUFFICES ASSUME NEW l \in S PROVE shares[l] = 1 * base[l] + extra[l]
        OBVIOUS
      <4>1. shares[l] = base[l] + extra[l] /\ base[l] \in Int
        BY <1>1, <1>7
      <4> HIDE DEF extra
      <4> QED
        BY <4>1
    <3>3. IsFiniteSet(DOMAIN shares) /\ DOMAIN base = DOMAIN shares /\ DOMAIN extra = DOMAIN shares
      BY <1>2
    <3> HIDE DEF extra
    <3>4. \A l \in DOMAIN shares : /\ base[l] \in Int /\ extra[l] \in Int
                                   /\ shares[l] = 1 * base[l] + extra[l]
      BY <3>1, <3>2
    <3> QED
      BY <3>3, <3>4 DEF Linear
  <2>2. SumFunction(shares) = 1 * given + SumFunction(extra)
    BY <1>2, <2>1, SumIsLinear
  <2> HIDE DEF extra
  <2> QED
    BY <1>1, <1>2, <1>8, <2>2 DEF m
<1>10. ASSUME NEW l \in S, Cardinality(ahead[l]) < m PROVE base[l] * whole < total * len[l]
  <2> DEFINE a == total * len[l]
             b == base[l] * whole
  <2>1. a \in Nat /\ b \in Nat /\ rest[l] = a - b
    BY <1>1
  <2> HIDE DEF a, b
  <2>2. rest[l] > 0
    <3> SUFFICES ASSUME rest[l] <= 0 PROVE FALSE
      BY <1>3
    <3>1. \A k \in S : rest[k] > 0 => k \in ahead[l]
      <4> SUFFICES ASSUME NEW k \in S, rest[k] > 0 PROVE k \in ahead[l]
        OBVIOUS
      <4>1. rest[l] < rest[k]
        BY <1>3
      <4> QED
        BY <4>1 DEF Lower
    <3>2. total - given <= Cardinality(ahead[l])
      BY <1>6, <3>1, LittleIsMissing
    <3> QED
      BY <1>5, <1>6, <1>10, <3>2 DEF m
  <2>3. b < a
    BY <2>1, <2>2
  <2> QED
    BY <2>3 DEF a, b
<1>11. ASSUME NEW l \in S
       PROVE  /\ shares[l] \in Nat \ {0}
              /\ \/ shares[l] = base[l]
                 \/ shares[l] = base[l] + 1 /\ base[l] * whole < total * len[l]
  <2>1. base[l] \in Nat \ {0} /\ shares[l] = base[l] + extra[l]
        /\ extra[l] = IF Cardinality(ahead[l]) < m THEN 1 ELSE 0
    BY <1>1, <1>7
  <2> HIDE DEF extra
  <2>2. CASE Cardinality(ahead[l]) < m
    <3>1. extra[l] = 1
      BY <2>1, <2>2
    <3>2. base[l] * whole < total * len[l]
      BY <1>10, <2>2
    <3>3. shares[l] = base[l] + 1 /\ shares[l] \in Nat \ {0}
      BY <2>1, <3>1
    <3> QED
      BY <3>2, <3>3
  <2>3. CASE ~ (Cardinality(ahead[l]) < m)
    <3>1. extra[l] = 0
      BY <2>1, <2>3
    <3>2. shares[l] = base[l]
      BY <2>1, <3>1
    <3> QED
      BY <2>1, <3>2
  <2> QED
    BY <2>2, <2>3
<1> QED
  BY <1>9, <1>11

\* Of those with a lower rest, each has given up what it could.
CutAs(S, rest, total, given, base, behind, earlier, shares) ==
  /\ behind \in [S -> SUBSET S] /\ DOMAIN shares = S
  /\ \A k, l \in S : k \in behind[l] <=> k \in Lower(S, rest, l)
  /\ \A l \in S : DOMAIN earlier[l] = behind[l]
  /\ \A l \in S : \A k \in behind[l] : earlier[l][k] = base[k] - 1
  /\ \A l \in S : shares[l] = base[l] - Min({base[l] - 1,
                                            Max({0, given - total - SumFunction(earlier[l])})})

\* The least rests give up what is too much, but never their last.
LEMMA CutBack ==
  ASSUME NEW S, NEW len, NEW total, NEW whole, NEW base, NEW given,
         Sharing(S, len, total, whole, base, given), total <= given,
         NEW rest, DOMAIN rest = S, \A l \in S : rest[l] = total * len[l] - base[l] * whole,
         NEW behind, NEW earlier, NEW shares,
         CutAs(S, rest, total, given, base, behind, earlier, shares)
  PROVE  /\ \A l \in S : shares[l] \in Nat \ {0}
         /\ SumFunction(shares) = IF total <= Cardinality(S) THEN Cardinality(S) ELSE total
         /\ total = given => \A l \in S : shares[l] = base[l]
<1> DEFINE n == Cardinality(S)
           w == given - total
           has == [l \in S |-> base[l] - 1]
           cut == [l \in S |-> Min({base[l] - 1, Max({0, w - SumFunction(earlier[l])})})]
           ones == [l \in S |-> IF l \in S THEN 1 ELSE 0]
<1>1. /\ given \in Nat \ {0} /\ n \in Nat \ {0} /\ n <= given
      /\ \A l \in S : base[l] \in Nat \ {0}
  BY SharesAreClose
<1>2. /\ IsFiniteSet(S) /\ S \subseteq Nat /\ total \in Nat /\ DOMAIN base = S
      /\ SumFunction(base) = given
  BY DEF Sharing
<1>3. Ranks(S, behind)
  <2>1. \A l \in S : rest[l] \in Int
    BY RestsAddUp
  <2> QED
    BY <1>2, <2>1, OrderedByNumber DEF CutAs
<1>4. w \in Nat
  BY <1>1, <1>2
<1>5. DOMAIN has = S /\ DOMAIN cut = S /\ DOMAIN ones = S
  OBVIOUS
<1>b. \A l \in S : has[l] = base[l] - 1 /\ ones[l] = 1
  OBVIOUS
<1>c. \A l \in S : cut[l] = Min({base[l] - 1, Max({0, w - SumFunction(earlier[l])})})
  OBVIOUS
<1>d. DOMAIN shares = S /\ \A l \in S : shares[l] = base[l] - cut[l]
  BY DEF CutAs
<1>e. /\ behind \in [S -> SUBSET S] /\ \A l \in S : DOMAIN earlier[l] = behind[l]
      /\ \A l \in S : \A k \in behind[l] : earlier[l][k] = base[k] - 1
  BY DEF CutAs
<1>w. w = given - total
  OBVIOUS
<1> HIDE DEF has, cut, ones, w, n
<1>6. TakenFrom(S, behind, has, w, earlier, cut)
  <2>1. \A l \in S : has[l] \in Nat /\ cut[l] = Min({has[l], Max({0, w - SumFunction(earlier[l])})})
    <3> SUFFICES ASSUME NEW l \in S
                 PROVE  has[l] \in Nat /\ cut[l] = Min({has[l], Max({0, w - SumFunction(earlier[l])})})
      OBVIOUS
    <3>1. base[l] \in Nat \ {0} /\ has[l] = base[l] - 1
      BY <1>1, <1>b
    <3>2. cut[l] = Min({has[l], Max({0, w - SumFunction(earlier[l])})})
      BY <1>c, <3>1
    <3>3. has[l] \in Nat
      BY <3>1
    <3> QED
      BY <3>2, <3>3, Zenon
  <2>2. \A l \in S : \A k \in behind[l] : earlier[l][k] = has[k]
    BY <1>b, <1>e
  <2> QED
    BY <1>3, <1>4, <1>5, <1>e, <2>1, <2>2 DEF TakenFrom
<1>7. /\ \A l \in S : cut[l] \in 0 .. has[l] /\ cut[l] <= w
      /\ SumFunction(has) \in Nat
      /\ SumFunction(cut) = IF w <= SumFunction(has) THEN w ELSE SumFunction(has)
  BY <1>6, TakenInTurn
<1>8. SumFunction(ones) = n
  <2>1. S \in SUBSET S /\ \A l \in S : ones[l] = IF l \in S THEN 1 ELSE 0
    BY <1>b
  <2> QED
    BY <1>2, <1>5, <2>1, SumOfMembers DEF n
<1>9. SumFunction(has) = given - n
  <2>1. Linear(base, 1, has, ones)
    <3>1. \A l \in S : has[l] \in Int /\ ones[l] \in Int /\ base[l] = 1 * has[l] + ones[l]
      <4> SUFFICES ASSUME NEW l \in S
                   PROVE  has[l] \in Int /\ ones[l] \in Int /\ base[l] = 1 * has[l] + ones[l]
        OBVIOUS
      <4>1. base[l] \in Nat \ {0} /\ has[l] = base[l] - 1 /\ ones[l] = 1
        BY <1>1, <1>b
      <4> QED
        BY <4>1
    <3>2. IsFiniteSet(DOMAIN base) /\ DOMAIN has = DOMAIN base /\ DOMAIN ones = DOMAIN base
      BY <1>2, <1>5
    <3>3. \A l \in DOMAIN base : has[l] \in Int /\ ones[l] \in Int /\ base[l] = 1 * has[l] + ones[l]
      BY <1>2, <3>1
    <3> QED
      BY <3>2, <3>3 DEF Linear
  <2>2. SumFunction(base) = 1 * SumFunction(has) + SumFunction(ones)
    BY <2>1, SumIsLinear
  <2> QED
    BY <1>1, <1>2, <1>7, <1>8, <2>2
<1>10. SumFunction(shares) = given - SumFunction(cut)
  <2>1. Linear(shares, 0 - 1, cut, base)
    <3>1. \A l \in S : cut[l] \in Int /\ base[l] \in Int /\ shares[l] = (0 - 1) * cut[l] + base[l]
      <4> SUFFICES ASSUME NEW l \in S
                   PROVE  cut[l] \in Int /\ base[l] \in Int /\ shares[l] = (0 - 1) * cut[l] + base[l]
        OBVIOUS
      <4>1. cut[l] \in Int /\ base[l] \in Int /\ shares[l] = base[l] - cut[l]
        <5>1. base[l] \in Nat \ {0} /\ has[l] = base[l] - 1 /\ cut[l] \in 0 .. has[l]
          BY <1>1, <1>b, <1>7
        <5> QED
          BY <1>d, <5>1
      <4> QED
        BY <4>1
    <3>2. IsFiniteSet(DOMAIN shares) /\ DOMAIN cut = DOMAIN shares /\ DOMAIN base = DOMAIN shares
      BY <1>2, <1>5, <1>d
    <3>3. /\ 0 - 1 \in Int
          /\ \A l \in DOMAIN shares : /\ cut[l] \in Int /\ base[l] \in Int
                                      /\ shares[l] = (0 - 1) * cut[l] + base[l]
      BY <1>d, <3>1
    <3> QED
      BY <3>2, <3>3 DEF Linear
  <2>2. SumFunction(cut) \in Int /\ SumFunction(shares) = (0 - 1) * SumFunction(cut) + SumFunction(base)
    BY <2>1, SumIsLinear
  <2> QED
    BY <1>1, <1>2, <2>2
<1>11. SumFunction(shares) = IF total <= n THEN n ELSE total
  <2> DEFINE h == SumFunction(has)
             c == SumFunction(cut)
  <2>1. h = given - n /\ c = (IF w <= h THEN w ELSE h) /\ SumFunction(shares) = given - c
    BY <1>7, <1>9, <1>10
  <2> HIDE DEF h, c
  <2> QED
    BY <1>1, <1>2, <1>w, <2>1
<1>12. ASSUME NEW l \in S
       PROVE  shares[l] \in Nat \ {0} /\ (total = given => shares[l] = base[l])
  <2>1. /\ base[l] \in Nat \ {0} /\ has[l] = base[l] - 1 /\ cut[l] \in 0 .. has[l] /\ cut[l] <= w
        /\ shares[l] = base[l] - cut[l]
    BY <1>1, <1>b, <1>d, <1>7
  <2>2. cut[l] \in Int /\ 0 <= cut[l] /\ cut[l] <= base[l] - 1
    BY <2>1
  <2> QED
    BY <1>1, <1>2, <1>w, <2>1, <2>2
<1> QED
  BY <1>11, <1>12 DEF n

=============================================================================
