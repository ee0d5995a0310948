----------------------------- MODULE OrderLemmas -----------------------------
(***************************************************************************)
(* What the proofs need of finite sets and numbers, orders and folds.      *)
(* The theorems of the library that reason by induction take a predicate   *)
(* as a parameter, which is beyond the provers; these are derived from the *)
(* well-foundedness of the natural numbers instead.                        *)
(***************************************************************************)
EXTENDS Integers, FiniteSets, FiniteSetsExt, FiniteSetTheorems, WellFoundedInduction, TLAPS

LEMMA LeastNumber ==
  ASSUME NEW T, T \subseteq Nat, T # {}
  PROVE  \E n \in T : \A m \in T : n <= m
<1> DEFINE R == OpToRel(<, Nat)
<1>1. IsWellFoundedOn(R, Nat)
  BY NatLessThanWellFounded
<1>2. \A x, y \in Nat : <<x, y>> \in R <=> x < y
  BY DEF OpToRel
<1> HIDE DEF R
<1>3. PICK n \in T : \A m \in T : <<m, n>> \notin R
  BY <1>1, WFMin
<1>4. \A m \in T : ~(m < n)
  BY <1>2, <1>3
<1>5. \A m \in T : n \in Nat /\ m \in Nat
  OBVIOUS
<1>6. \A m \in T : n <= m
  BY <1>4, <1>5
<1> QED BY <1>6

\* Of finitely many things in a strict order there is one that no other comes
\* before.
LEMMA FirstElement ==
  ASSUME NEW S, IsFiniteSet(S), S # {}, NEW R,
         \A x \in S : <<x, x>> \notin R,
         \A x, y, z \in S : <<x, y>> \in R /\ <<y, z>> \in R => <<x, z>> \in R
  PROVE  \E p \in S : \A q \in S : <<q, p>> \notin R
<1> DEFINE Above(p) == {q \in S : <<q, p>> \in R}
           T == {Cardinality(Above(p)) : p \in S}
<1>1. \A p : Above(p) \subseteq S /\ IsFiniteSet(Above(p)) /\ Cardinality(Above(p)) \in Nat
  BY FS_Subset, FS_CardinalityType
<1>2. T \subseteq Nat /\ T # {}
  <2> HIDE DEF Above
  <2> QED BY <1>1
<1>3. PICK n \in T : \A m \in T : n <= m
  <2> HIDE DEF T
  <2> QED BY <1>2, LeastNumber
<1>4. PICK p \in S : n = Cardinality(Above(p))
  OBVIOUS
<1>5. ASSUME NEW q \in Above(p) PROVE FALSE
  <2>1. q \in S /\ <<q, p>> \in R
    OBVIOUS
  <2>2. Above(q) \subseteq Above(p)
    BY <2>1
  <2>3. q \notin Above(q)
    BY <2>1
  <2>4. Cardinality(Above(q)) <= Cardinality(Above(p)) /\ Cardinality(Above(q)) # Cardinality(Above(p))
    <3> HIDE DEF Above
    <3> QED BY <1>1, <2>2, <2>3, <1>5, FS_Subset
  <2>5. Cardinality(Above(q)) \in T
    BY <2>1
  <2>6. Cardinality(Above(p)) <= Cardinality(Above(q))
    <3> HIDE DEF T, Above
    <3> QED BY <1>3, <1>4, <2>5
  <2> HIDE DEF T, Above
  <2> QED BY <1>1, <2>4, <2>6
<1> QED BY <1>4, <1>5

LEMMA GreatestNumber ==
  ASSUME NEW S, IsFiniteSet(S), S # {}, S \subseteq Nat
  PROVE  \E n \in S : \A m \in S : m <= n
<1> DEFINE R == {p \in S \X S : p[1] > p[2]}
<1>1. \A x, y \in S : <<x, y>> \in R <=> x > y
  OBVIOUS
<1>2. \A x \in S : x \in Nat
  OBVIOUS
<1> HIDE DEF R
<1>3. \A x \in S : <<x, x>> \notin R
  BY <1>1, <1>2
<1>4. \A x, y, z \in S : <<x, y>> \in R /\ <<y, z>> \in R => <<x, z>> \in R
  BY <1>1, <1>2
<1>5. PICK p \in S : \A q \in S : <<q, p>> \notin R
  BY <1>3, <1>4, FirstElement
<1>6. \A m \in S : ~(m > p)
  BY <1>1, <1>5
<1>7. \A m \in S : m <= p
  BY <1>2, <1>6
<1> QED BY <1>7

-----------------------------------------------------------------------------
(* Induction and folds *)

LEMMA Induction ==
  ASSUME NEW S, 0 \in S, \A n \in Nat : n \in S => n + 1 \in S
  PROVE  Nat \subseteq S
<1>1. SUFFICES ASSUME Nat \ S # {} PROVE FALSE
  OBVIOUS
<1>2. PICK n \in Nat \ S : \A m \in Nat \ S : n <= m
  BY <1>1, LeastNumber
<1>3. n # 0 /\ n - 1 \in Nat /\ ~(n <= n - 1)
  BY <1>2
<1>4. n - 1 \in S
  BY <1>2, <1>3
<1>5. n - 1 + 1 = n
  BY <1>2
<1> QED BY <1>2, <1>3, <1>4, <1>5

LEMMA MaxIs ==
  ASSUME NEW S, S \subseteq Int, NEW x \in S, \A y \in S : y <= x
  PROVE  Max(S) = x
<1>1. \A y \in S : x >= y
  OBVIOUS
<1>2. ASSUME NEW z \in S, \A y \in S : z >= y PROVE z = x
  <2>1. z >= x /\ z <= x /\ z \in Int /\ x \in Int
    BY <1>2
  <2> QED BY <2>1
<1> QED BY <1>1, <1>2 DEF Max

LEMMA MinIs ==
  ASSUME NEW S, S \subseteq Int, NEW x \in S, \A y \in S : x <= y
  PROVE  Min(S) = x
<1>2. ASSUME NEW z \in S, \A y \in S : z <= y PROVE z = x
  <2>1. z >= x /\ z <= x /\ z \in Int /\ x \in Int
    BY <1>2
  <2> QED BY <2>1
<1> QED BY <1>2 DEF Min

\* f[t] folds the steps that G takes at the indices t into e.
FoldOf(f, E, e, n, G) ==
  /\ f \in [SUBSET (1..n) -> E]
  /\ \A t \in SUBSET (1..n) : f[t] = IF t = {} THEN e ELSE G[Max(t)][f[t \ {Max(t)}]]

\* A fold from left to right over n steps has a value at every stage, whatever
\* the function that takes each step.
LEMMA FoldIsDefined ==
  ASSUME NEW E, NEW e \in E, NEW n \in Nat, NEW G \in [1..n -> [E -> E]]
  PROVE  \E f : FoldOf(f, E, e, n, G)
<1> DEFINE Good(m, f) ==
             /\ f \in [SUBSET (1..m) -> E]
             /\ \A t \in SUBSET (1..m) :
                  f[t] = IF t = {} THEN e ELSE G[Max(t)][f[t \ {Max(t)}]]
           S == {m \in Nat : m <= n => \E f : Good(m, f)}
<1>1. 0 \in S
  <2> DEFINE f == [t \in SUBSET (1..0) |-> e]
  <2>1. SUBSET (1..0) = {{}}
    OBVIOUS
  <2>2. Good(0, f)
    BY <2>1
  <2> HIDE DEF f, Good
  <2> QED BY <2>2
<1>2. ASSUME NEW m \in Nat, m \in S PROVE m + 1 \in S
  <2> SUFFICES ASSUME m + 1 <= n PROVE \E f : Good(m + 1, f)
    <3> HIDE DEF Good
    <3> QED OBVIOUS
  <2>1. PICK f : Good(m, f)
    <3>1. m <= n
      OBVIOUS
    <3> HIDE DEF Good
    <3> QED BY <1>2, <3>1
  <2> DEFINE g == [t \in SUBSET (1..(m + 1)) |->
                     IF m + 1 \in t THEN G[m + 1][f[t \ {m + 1}]] ELSE f[t]]
  <2>2. \A t \in SUBSET (1..(m + 1)) :
          /\ m + 1 \in t => t \ {m + 1} \in SUBSET (1..m) /\ Max(t) = m + 1
          /\ m + 1 \notin t => t \in SUBSET (1..m)
    <3>1. \A i \in 1..(m + 1) : i = m + 1 \/ i \in 1..m
      OBVIOUS
    <3>2. ASSUME NEW t \in SUBSET (1..(m + 1)), m + 1 \in t PROVE Max(t) = m + 1
      <4>1. t \subseteq Int /\ \A y \in t : y <= m + 1
        OBVIOUS
      <4> QED BY <4>1, <3>2, MaxIs
    <3> QED BY <3>1, <3>2
  <2>3. g \in [SUBSET (1..(m + 1)) -> E]
    <3>1. m + 1 \in 1..n
      OBVIOUS
    <3> QED BY <2>1, <2>2, <3>1
  <2>4. ASSUME NEW t \in SUBSET (1..(m + 1))
        PROVE  g[t] = IF t = {} THEN e ELSE G[Max(t)][g[t \ {Max(t)}]]
    <3>1. CASE m + 1 \in t
      <4>1. g[t] = G[m + 1][f[t \ {m + 1}]] /\ Max(t) = m + 1
        BY <2>2, <3>1
      <4>2. t \ {m + 1} \in SUBSET (1..(m + 1)) /\ m + 1 \notin t \ {m + 1}
        OBVIOUS
      <4>3. g[t \ {m + 1}] = f[t \ {m + 1}]
        BY <4>2
      <4> HIDE DEF g
      <4> QED BY <3>1, <4>1, <4>3
    <3>2. CASE m + 1 \notin t
      <4>1. t \in SUBSET (1..m) /\ g[t] = f[t]
        BY <2>2, <3>2
      <4>2. t \ {Max(t)} \in SUBSET (1..(m + 1)) /\ m + 1 \notin t \ {Max(t)}
        BY <3>2
      <4>3. g[t \ {Max(t)}] = f[t \ {Max(t)}]
        BY <4>2
      <4> HIDE DEF g
      <4> QED BY <2>1, <4>1, <4>3
    <3> QED BY <3>1, <3>2
  <2>5. Good(m + 1, g)
    <3> HIDE DEF g
    <3> QED BY <2>3, <2>4
  <2> HIDE DEF g, Good
  <2> QED BY <2>5
<1>3. n \in S
  <2> HIDE DEF S
  <2> QED BY <1>1, <1>2, Induction
<1>4. PICK f : Good(n, f)
  <2>1. n <= n
    OBVIOUS
  <2> HIDE DEF Good
  <2> QED BY <1>3, <2>1
<1> QED BY <1>4 DEF FoldOf

LEMMA MaxIn ==
  ASSUME NEW S, IsFiniteSet(S), S # {}, S \subseteq Nat
  PROVE  Max(S) \in S /\ \A y \in S : y <= Max(S)
<1>1. PICK x \in S : \A y \in S : y <= x
  BY GreatestNumber
<1>2. S \subseteq Int
  OBVIOUS
<1>3. Max(S) = x
  BY <1>1, <1>2, MaxIs
<1> QED BY <1>1, <1>3

\* The last of some of the first n indices, and the others.
LEMMA LastOfSome ==
  ASSUME NEW n \in Nat, NEW t \in SUBSET (1..n), t # {}
  PROVE  Max(t) \in 1..n /\ t \ {Max(t)} \in SUBSET (1..n)
<1>1. IsFiniteSet(1..n) /\ 1..n \subseteq Nat
  BY FS_Interval
<1>2. IsFiniteSet(t) /\ t \subseteq Nat
  BY <1>1, FS_Subset
<1> QED BY <1>2, MaxIn

\* The last of the first i indices, and the ones before it.
LEMMA Prefix ==
  ASSUME NEW n \in Nat, NEW i \in 1..n
  PROVE  /\ Max(1..i) = i /\ (1..i) \ {i} = 1..(i - 1)
         /\ 1..i \in SUBSET (1..n) /\ 1..i # {}
<1>1. 1..i \subseteq Int /\ i \in 1..i /\ (\A y \in 1..i : y <= i)
  OBVIOUS
<1>2. Max(1..i) = i
  BY <1>1, MaxIs
<1> QED BY <1>2

\* What every stage of a fold starts with and every step keeps, all have.
LEMMA StagesKeep ==
  ASSUME NEW n \in Nat, NEW h, NEW E, h[0] \in E,
         \A i \in 1..n : h[i - 1] \in E => h[i] \in E
  PROVE  \A i \in 0..n : h[i] \in E
<1> DEFINE S == {i \in Nat : i <= n => h[i] \in E}
<1>1. 0 \in S
  OBVIOUS
<1>2. ASSUME NEW i \in Nat, i \in S PROVE i + 1 \in S
  <2>1. SUFFICES ASSUME i + 1 <= n PROVE h[i + 1] \in E
    OBVIOUS
  <2>2. i + 1 \in 1..n /\ (i + 1) - 1 = i /\ i <= n
    BY <2>1
  <2>3. h[i] \in E
    BY <1>2, <2>2
  <2> QED BY <2>2, <2>3
<1>3. Nat \subseteq S
  <2> HIDE DEF S
  <2> QED BY <1>1, <1>2, Induction
<1> QED BY <1>3

=============================================================================
