---------------------------- MODULE SharedLemmas -----------------------------
(***************************************************************************)
(* What the proofs of several modules rest on: induction, recursion, sums  *)
(* over finite sets, orders, remainders, and the waits of a backoff.       *)
(* The library states them for operators, which the provers at hand do not *)
(* instantiate; here they are stated for sets and functions, and rest on   *)
(* the one fact that the order of the natural numbers is well founded.     *)
(***************************************************************************)
EXTENDS Backoff, FiniteSetsExt, FiniteSetTheorems, TLAPS

-----------------------------------------------------------------------------
(* Induction over the natural numbers.                                      *)

(* Every set of natural numbers that is not empty has a least member. *)
LEMMA LeastNumber ==
    ASSUME NEW S, S \subseteq Nat, S # {}
    PROVE  \E n \in S : \A m \in S : n <= m
<1> DEFINE R == OpToRel(<, Nat)
<1>1. IsWellFoundedOn(R, Nat)
  BY NatLessThanWellFounded
<1> HIDE DEF R
<1>2. PICK n \in S : \A m \in S : ~(<<m, n>> \in R)
  BY <1>1, WFMin, Zenon
<1>3. ASSUME NEW m \in S, m < n PROVE FALSE
  BY <1>2, <1>3 DEF R, OpToRel
<1>. QED
  BY <1>3

(* A set that holds 0 and with every number the next one holds them all. *)
LEMMA InductionOverNat ==
    ASSUME NEW P, 0 \in P, \A n \in Nat : n \in P => n + 1 \in P
    PROVE  Nat \subseteq P
<1> DEFINE Left == Nat \ P
<1>1. SUFFICES ASSUME Left # {} PROVE FALSE
  OBVIOUS
<1>2. PICK n \in Left : \A m \in Left : n <= m
  BY <1>1, LeastNumber, Zenon
<1>3. n \in Nat \ {0} /\ n - 1 \in Nat /\ n - 1 \notin Left
  BY <1>2
<1>. QED
  BY <1>2, <1>3

(* A sequence that begins with a value and goes on by a function. *)
Iterates(f, first, step) == f[0] = first /\ \A n \in Nat : f[n + 1] = step[f[n]]

(* A first value and a function from each value to the next one make an      *)
(* infinite sequence.                                                       *)
LEMMA Iteration ==
    ASSUME NEW T, NEW first \in T, NEW step \in [T -> T]
    PROVE  \E f \in [Nat -> T] : Iterates(f, first, step)
<1> DEFINE Upto(n, g) ==
             /\ g \in [0..n -> T] /\ g[0] = first
             /\ \A i \in 0..n : i < n => g[i + 1] = step[g[i]]
           Reached == {n \in Nat : \E g : Upto(n, g)}
<1>1. \A n \in Nat : \E g : Upto(n, g)
  <2>1. 0 \in Reached
    <3>1. Upto(0, [i \in 0..0 |-> first])
      OBVIOUS
    <3>. QED
      BY <3>1
  <2>2. ASSUME NEW n \in Nat, n \in Reached PROVE n + 1 \in Reached
    <3>1. PICK g : Upto(n, g)
      BY <2>2
    <3> DEFINE h == [i \in 0..n + 1 |-> IF i = n + 1 THEN step[g[n]] ELSE g[i]]
    <3>2. h \in [0..n + 1 -> T] /\ h[0] = first
      BY <3>1
    <3>3. ASSUME NEW i \in 0..n + 1, i < n + 1 PROVE h[i + 1] = step[h[i]]
      <4>1. i \in 0..n /\ h[i] = g[i]
        BY <3>3
      <4>2. CASE i = n
        BY <4>1, <4>2
      <4>3. CASE i < n
        <5>1. g[i + 1] = step[g[i]] /\ i + 1 \in 0..n /\ i + 1 # n + 1
          BY <3>1, <4>1, <4>3
        <5>. QED
          BY <4>1, <5>1
      <4>. QED
        BY <4>1, <4>2, <4>3
    <3>4. Upto(n + 1, h)
      BY <3>2, <3>3
    <3>. QED
      BY <3>4
  <2> HIDE DEF Upto
  <2>3. Nat \subseteq Reached
    BY <2>1, <2>2, InductionOverNat, Zenon
  <2>. QED
    BY <2>3
<1>2. ASSUME NEW n \in Nat, NEW m \in Nat, n <= m, NEW g, NEW h, Upto(n, g), Upto(m, h)
      PROVE  \A i \in 0..n : g[i] = h[i]
  <2> DEFINE Same == {i \in Nat : i <= n => g[i] = h[i]}
  <2>1. 0 \in Same
    BY <1>2
  <2>2. ASSUME NEW i \in Nat, i \in Same PROVE i + 1 \in Same
    <3>1. SUFFICES ASSUME i + 1 <= n PROVE g[i + 1] = h[i + 1]
      OBVIOUS
    <3>2. i \in 0..n /\ i \in 0..m /\ i < n /\ i < m
      BY <1>2, <3>1
    <3>. QED
      BY <1>2, <2>2, <3>1, <3>2
  <2>3. Nat \subseteq Same
    <3> HIDE DEF Same
    <3>. QED
      BY <2>1, <2>2, InductionOverNat, Zenon
  <2>. QED
    BY <2>3
<1> DEFINE G(n) == CHOOSE g : Upto(n, g)
           f == [n \in Nat |-> G(n)[n]]
<1>3. \A n \in Nat : Upto(n, G(n))
  <2> HIDE DEF Upto
  <2>. QED
    BY <1>1
<1>4. \A n \in Nat : Upto(n, G(n)) /\ f[n] = G(n)[n] /\ Upto(n + 1, G(n + 1))
  <2>1. \A n \in Nat : n + 1 \in Nat
    OBVIOUS
  <2> HIDE DEF Upto
  <2>. QED
    BY <1>3, <2>1 DEF f
<1> HIDE DEF G, f
<1>5. f \in [Nat -> T]
  <2>1. ASSUME NEW n \in Nat PROVE f[n] \in T
    <3>1. n \in 0..n
      OBVIOUS
    <3>. QED
      BY <1>4, <3>1
  <2>. QED
    BY <2>1 DEF f
<1>6. f[0] = first
  BY <1>4
<1>7. ASSUME NEW n \in Nat PROVE f[n + 1] = step[f[n]]
  <2>1. n + 1 \in Nat /\ n <= n + 1 /\ n \in 0..n /\ n \in 0..n + 1 /\ n < n + 1
    OBVIOUS
  <2>2. G(n + 1)[n] = G(n)[n]
    <3> HIDE DEF Upto
    <3>1. Upto(n, G(n)) /\ Upto(n + 1, G(n + 1))
      BY <1>4
    <3>2. \A i \in 0..n : G(n)[i] = G(n + 1)[i]
      BY <1>2, <2>1, <3>1
    <3>. QED
      BY <2>1, <3>2
  <2>3. G(n + 1)[n + 1] = step[G(n + 1)[n]]
    BY <1>4, <2>1
  <2>4. f[n + 1] = G(n + 1)[n + 1] /\ f[n] = G(n)[n]
    BY <1>4, <2>1
  <2>. QED
    BY <2>2, <2>3, <2>4
<1>8. Iterates(f, first, step)
  BY <1>6, <1>7 DEF Iterates
<1>. QED
  BY <1>5, <1>8

(* A finite set without one of its members is one smaller. *)
LEMMA OneLess ==
    ASSUME NEW S, IsFiniteSet(S), NEW x \in S, NEW n \in Nat, Cardinality(S) = n + 1
    PROVE  Cardinality(S \ {x}) = n
<1>1. Cardinality(S \ {x}) = Cardinality(S) - 1
  BY FS_RemoveElement
<1>. QED
  BY <1>1

(* Induction over the subsets of a finite set: a family of sets that holds   *)
(* the empty set, and a set with every set that is one member smaller.       *)
LEMMA SubsetInduction ==
    ASSUME NEW S, IsFiniteSet(S), NEW P, {} \in P,
           \A s : s \subseteq S /\ s # {} /\ (\A x \in s : s \ {x} \in P) => s \in P
    PROVE  \A s : s \subseteq S => s \in P
<1> DEFINE Sizes == {n \in Nat : \A s : s \subseteq S /\ Cardinality(s) = n => s \in P}
<1>1. ASSUME NEW s, s \subseteq S PROVE IsFiniteSet(s) /\ Cardinality(s) \in Nat
  BY <1>1, FS_Subset, FS_CardinalityType
<1>2. 0 \in Sizes
  <2>1. ASSUME NEW s, s \subseteq S, Cardinality(s) = 0 PROVE s \in P
    BY <1>1, <2>1, FS_EmptySet
  <2>. QED
    BY <2>1
<1>3. ASSUME NEW n \in Nat, n \in Sizes PROVE n + 1 \in Sizes
  <2>1. ASSUME NEW s, s \subseteq S, Cardinality(s) = n + 1 PROVE s \in P
    <3>1. s # {}
      BY <2>1, FS_EmptySet
    <3>2. ASSUME NEW x \in s PROVE s \ {x} \in P
      <4>1. Cardinality(s \ {x}) = n /\ s \ {x} \subseteq S
        BY <1>1, <2>1, OneLess
      <4>. QED
        BY <1>3, <4>1
    <3>. QED
      BY <2>1, <3>1, <3>2
  <2>. QED
    BY <2>1
<1>4. Nat \subseteq Sizes
  <2> HIDE DEF Sizes
  <2>. QED
    BY <1>2, <1>3, InductionOverNat, Zenon
<1>. QED
  BY <1>1, <1>4

(* The powers of two, as they are defined by recursion. *)
LEMMA Doubling ==
    ASSUME NEW f, f = CHOOSE g : g = [n \in Nat |-> IF n = 0 THEN 1 ELSE 2 * g[n - 1]]
    PROVE  f \in [Nat -> Nat \ {0}] /\ f[0] = 1 /\ \A n \in Nat : f[n + 1] = 2 * f[n]
<1> DEFINE Powers(g) == g = [n \in Nat |-> IF n = 0 THEN 1 ELSE 2 * g[n - 1]]
<1>1. PICK double : double = [v \in Nat \ {0} |-> 2 * v]
  OBVIOUS
<1>2. PICK g \in [Nat -> Nat \ {0}] : Iterates(g, 1, double)
  <2>1. double \in [Nat \ {0} -> Nat \ {0}] /\ 1 \in Nat \ {0}
    BY <1>1
  <2>. QED
    BY <2>1, Iteration
<1>3. g[0] = 1 /\ \A n \in Nat : g[n + 1] = 2 * g[n]
  BY <1>1, <1>2 DEF Iterates
<1>4. Powers(g)
  <2>1. ASSUME NEW n \in Nat \ {0} PROVE g[n] = 2 * g[n - 1]
    <3>1. n - 1 \in Nat /\ (n - 1) + 1 = n
      OBVIOUS
    <3>. QED
      BY <1>3, <3>1
  <2>. QED
    BY <1>3, <2>1
<1>5. Powers(f)
  <2>1. f = CHOOSE h : Powers(h)
    OBVIOUS
  <2> HIDE DEF Powers
  <2>. QED
    BY <1>4, <2>1, Zenon
<1>6. f[0] = 1 /\ \A n \in Nat : f[n + 1] = 2 * f[n]
  <2>1. f[0] = 1
    BY <1>5
  <2>2. ASSUME NEW n \in Nat PROVE f[n + 1] = 2 * f[n]
    <3>1. n + 1 \in Nat /\ n + 1 # 0 /\ (n + 1) - 1 = n
      OBVIOUS
    <3>2. f[n + 1] = 2 * f[(n + 1) - 1]
      BY <1>5, <3>1
    <3>. QED
      BY <3>1, <3>2
  <2>. QED
    BY <2>1, <2>2
<1>7. \A n \in Nat : f[n] \in Nat \ {0}
  <2> DEFINE Positive == {n \in Nat : f[n] \in Nat \ {0}}
  <2>1. 0 \in Positive /\ \A n \in Nat : n \in Positive => n + 1 \in Positive
    BY <1>6
  <2> HIDE DEF Positive
  <2>2. Nat \subseteq Positive
    BY <2>1, InductionOverNat, Zenon
  <2>. QED
    BY <2>2 DEF Positive
<1>8. f \in [Nat -> Nat \ {0}]
  BY <1>5, <1>7
<1>. QED
  BY <1>6, <1>8

-----------------------------------------------------------------------------
(* The waits of a backoff. *)

(* Backoff's Doubled are the powers of two. *)
LEMMA DoubledDoubles ==
    Doubled \in [Nat -> Nat \ {0}] /\ Doubled[0] = 1 /\ \A n \in Nat : Doubled[n + 1] = 2 * Doubled[n]
<1>1. Doubled = CHOOSE g : g = [n \in Nat |-> IF n = 0 THEN 1 ELSE 2 * g[n - 1]]
  BY Zenon DEF Doubled
<1>. QED
  BY <1>1, Doubling, Zenon

(* The waits begin at the base and double up to the maximum. *)
LEMMA WaitsDouble ==
    ASSUME NEW base \in Nat \ {0}, NEW max \in Nat, max >= base
    PROVE  /\ CappedWait(base, max, 1) = base
           /\ \A n \in Nat \ {0} :
                 /\ CappedWait(base, max, n) \in base..max
                 /\ CappedWait(base, max, n + 1) =
                       IF 2 * CappedWait(base, max, n) < max
                       THEN 2 * CappedWait(base, max, n) ELSE max
<1>1. CappedWait(base, max, 1) = base
  <2>1. base * Doubled[1 - 1] = base
    BY DoubledDoubles
  <2>. QED
    BY <2>1 DEF CappedWait
<1>2. ASSUME NEW n \in Nat \ {0}
      PROVE  /\ CappedWait(base, max, n) \in base..max
             /\ CappedWait(base, max, n + 1) =
                   IF 2 * CappedWait(base, max, n) < max
                   THEN 2 * CappedWait(base, max, n) ELSE max
  <2>1. PICK d \in Nat \ {0} : d = Doubled[n - 1] /\ Doubled[(n + 1) - 1] = 2 * d
    <3>1. n - 1 \in Nat /\ (n - 1) + 1 = (n + 1) - 1
      OBVIOUS
    <3>. QED
      BY <3>1, DoubledDoubles
  <2>2. PICK w \in Nat : w = base * d /\ w >= base /\ base * (2 * d) = 2 * w
    <3>1. base * d \in Nat /\ base * d >= base /\ base * (2 * d) = 2 * (base * d)
      OBVIOUS
    <3>. QED
      BY <3>1
  <2>3. /\ CappedWait(base, max, n) = IF w < max THEN w ELSE max
        /\ CappedWait(base, max, n + 1) = IF 2 * w < max THEN 2 * w ELSE max
    BY <2>1, <2>2 DEF CappedWait
  <2>. QED
    BY <2>2, <2>3
<1>. QED
  BY <1>1, <1>2

-----------------------------------------------------------------------------
(* The extremes of a finite set of integers. *)

(* A finite set of integers that is not empty has a least and a greatest     *)
(* member.                                                                  *)
LEMMA FiniteExtremes ==
    ASSUME NEW S, IsFiniteSet(S), S \subseteq Int, S # {}
    PROVE  /\ \E x \in S : \A y \in S : x <= y
           /\ \E x \in S : \A y \in S : y <= x
<1> DEFINE Bounded(s) == /\ \E x \in s : \A y \in s : x <= y
                         /\ \E x \in s : \A y \in s : y <= x
           Sizes == {n \in Nat : \A s \in SUBSET S : Cardinality(s) = n + 1 => Bounded(s)}
<1>1. ASSUME NEW s \in SUBSET S PROVE IsFiniteSet(s) /\ Cardinality(s) \in Nat
  BY FS_Subset, FS_CardinalityType
<1>2. 0 \in Sizes
  <2>1. ASSUME NEW s \in SUBSET S, Cardinality(s) = 1 PROVE Bounded(s)
    <3>1. PICK x : s = {x}
      BY <1>1, <2>1, FS_Singleton
    <3>2. x \in Int
      BY <3>1
    <3>. QED
      BY <3>1, <3>2
  <2> HIDE DEF Bounded
  <2>. QED
    BY <2>1
<1>3. ASSUME NEW n \in Nat, n \in Sizes PROVE n + 1 \in Sizes
  <2>1. ASSUME NEW s \in SUBSET S, Cardinality(s) = (n + 1) + 1 PROVE Bounded(s)
    <3>1. PICK x \in s : TRUE
      <4>1. s # {}
        BY <2>1, FS_EmptySet
      <4>. QED
        BY <4>1
    <3>2. s \ {x} \in SUBSET S /\ Cardinality(s \ {x}) = n + 1
      BY <1>1, <2>1, OneLess
    <3>3. Bounded(s \ {x})
      BY <1>3, <3>2
    <3>4. PICK low \in s \ {x}, high \in s \ {x} :
              \A y \in s \ {x} : low <= y /\ y <= high
      BY <3>3
    <3>5. x \in Int /\ low \in Int /\ high \in Int /\ s \subseteq Int
      OBVIOUS
    <3>6. \E w \in s : \A y \in s : w <= y
      <4>1. \A y \in s : (IF x < low THEN x ELSE low) <= y
        BY <3>4, <3>5
      <4>. QED
        BY <4>1
    <3>7. \E w \in s : \A y \in s : y <= w
      <4>1. \A y \in s : y <= (IF x > high THEN x ELSE high)
        BY <3>4, <3>5
      <4>. QED
        BY <4>1
    <3>. QED
      BY <3>6, <3>7
  <2> HIDE DEF Bounded
  <2>. QED
    BY <2>1
<1>4. Nat \subseteq Sizes
  <2> HIDE DEF Sizes
  <2>. QED
    BY <1>2, <1>3, InductionOverNat, Zenon
<1>5. Cardinality(S) \in Nat \ {0} /\ S \in SUBSET S
  BY <1>1, FS_EmptySet
<1>6. Cardinality(S) - 1 \in Sizes /\ Cardinality(S) = (Cardinality(S) - 1) + 1
  BY <1>4, <1>5
<1>. QED
  BY <1>5, <1>6

(* Min and Max are the least and the greatest member. *)
LEMMA MinAndMax ==
    ASSUME NEW S, IsFiniteSet(S), S \subseteq Int, S # {}
    PROVE  /\ Min(S) \in S /\ \A y \in S : Min(S) <= y
           /\ Max(S) \in S /\ \A y \in S : y <= Max(S)
BY FiniteExtremes DEF Min, Max

(* No other member is. *)
LEMMA MinIs ==
    ASSUME NEW S, IsFiniteSet(S), S \subseteq Int, NEW m \in S, \A y \in S : m <= y
    PROVE  Min(S) = m
<1>1. Min(S) \in S /\ \A y \in S : Min(S) <= y
  BY MinAndMax
<1>2. Min(S) <= m /\ m <= Min(S) /\ Min(S) \in Int /\ m \in Int
  BY <1>1
<1>. QED
  BY <1>2

LEMMA MaxIs ==
    ASSUME NEW S \in SUBSET Int, NEW m \in S, \A x \in S : m >= x
    PROVE  Max(S) = m
<1>1. \A y \in S : (\A x \in S : y >= x) => y = m
  OBVIOUS
<1>. QED
  BY <1>1 DEF Max

-----------------------------------------------------------------------------
(* Recursion over the subsets of a finite set: members are taken out one by  *)
(* one, as pick says, and a function of each takes the value on.            *)

Picks(pick, S) == \A s \in SUBSET S : s # {} => pick[s] \in s

FoldsBy(g, S, first, pick, step) ==
    /\ g[{}] = first
    /\ \A s \in SUBSET S : s # {} => g[s] = step[pick[s]][g[s \ {pick[s]}]]

(* There is a function that folds the subsets of a finite set. *)
LEMMA SetRecursion ==
    ASSUME NEW S, IsFiniteSet(S), NEW T, NEW first \in T,
           NEW pick, Picks(pick, S), NEW step \in [S -> [T -> T]]
    PROVE  \E g \in [SUBSET S -> T] : FoldsBy(g, S, first, pick, step)
<1> USE DEF Picks
<1> DEFINE Layers == [SUBSET S -> T]
           Deeper(h) == [s \in SUBSET S |->
                            IF s = {} THEN first ELSE step[pick[s]][h[s \ {pick[s]}]]]
           deeper == [h \in Layers |-> Deeper(h)]
           start == [s \in SUBSET S |-> first]
<1>1. ASSUME NEW h \in Layers PROVE Deeper(h) \in Layers
  <2>1. ASSUME NEW s \in SUBSET S, s # {} PROVE step[pick[s]][h[s \ {pick[s]}]] \in T
    <3>1. pick[s] \in S /\ s \ {pick[s]} \in SUBSET S
      BY <2>1
    <3>. QED
      BY <3>1
  <2>. QED
    BY <2>1
<1>2. PICK f \in [Nat -> Layers] : Iterates(f, start, deeper)
  <2>1. start \in Layers /\ deeper \in [Layers -> Layers]
    BY <1>1
  <2> HIDE DEF Layers, deeper, start
  <2>. QED
    BY <2>1, Iteration
<1> DEFINE g == [s \in SUBSET S |-> f[Cardinality(s)][s]]
<1>3. ASSUME NEW s \in SUBSET S PROVE IsFiniteSet(s) /\ Cardinality(s) \in Nat
  BY FS_Subset, FS_CardinalityType
<1>4. g \in [SUBSET S -> T]
  BY <1>2, <1>3 DEF Iterates
<1>5. g[{}] = first
  <2>1. Cardinality({}) = 0 /\ {} \in SUBSET S
    BY FS_EmptySet
  <2>. QED
    BY <1>2, <2>1 DEF Iterates
<1>6. ASSUME NEW s \in SUBSET S, s # {} PROVE g[s] = step[pick[s]][g[s \ {pick[s]}]]
  <2> DEFINE rest == s \ {pick[s]}
             n == Cardinality(rest)
  <2>1. pick[s] \in s /\ rest \in SUBSET S
    BY <1>6
  <2>2. n \in Nat /\ Cardinality(s) = n + 1
    <3>1. Cardinality(rest) = Cardinality(s) - 1
      BY <1>3, <2>1, FS_RemoveElement
    <3>. QED
      BY <1>3, <2>1, <3>1
  <2>3. f[n + 1] = Deeper(f[n])
    BY <1>2, <2>2 DEF Iterates
  <2>4. f[n + 1][s] = step[pick[s]][f[n][rest]]
    BY <1>6, <2>3
  <2>5. g[s] = f[n + 1][s] /\ g[rest] = f[n][rest]
    BY <2>1, <2>2
  <2>. QED
    BY <2>4, <2>5
<1> HIDE DEF g
<1>7. FoldsBy(g, S, first, pick, step)
  BY <1>5, <1>6 DEF FoldsBy
<1>. QED
  BY <1>4, <1>7

-----------------------------------------------------------------------------
(* Sums over finite sets: what MapThenSumSet computes.                      *)

(* The function from subsets to sums that MapThenSumSet goes by. *)
SumsUp(F, S, g) ==
    g = [s \in SUBSET S |->
            IF s = {} THEN 0
            ELSE F[CHOOSE x \in s : TRUE] + g[s \ {CHOOSE x \in s : TRUE}]]

SumOf(F, S) == MapThenSumSet(LAMBDA x : F[x], S)

(* There is a function from the subsets of a finite set to their sums. *)
LEMMA SumsUpExists ==
    ASSUME NEW S, IsFiniteSet(S), NEW F, \A x \in S : F[x] \in Int
    PROVE  \E g \in [SUBSET S -> Int] : SumsUp(F, S, g)
<1>1. PICK pick : pick = [s \in SUBSET S |-> CHOOSE x \in s : TRUE]
  OBVIOUS
<1>2. PICK step : step = [x \in S |-> [v \in Int |-> F[x] + v]]
  OBVIOUS
<1>3. PICK g \in [SUBSET S -> Int] : FoldsBy(g, S, 0, pick, step)
  <2>1. Picks(pick, S)
    BY <1>1 DEF Picks
  <2>2. step \in [S -> [Int -> Int]] /\ 0 \in Int
    BY <1>2
  <2>. QED
    BY <2>1, <2>2, SetRecursion
<1>4. g[{}] = 0
  BY <1>3 DEF FoldsBy
<1>5. ASSUME NEW s \in SUBSET S, s # {}
      PROVE  g[s] = F[CHOOSE x \in s : TRUE] + g[s \ {CHOOSE x \in s : TRUE}]
  <2> DEFINE x == CHOOSE x \in s : TRUE
  <2>1. x \in S /\ s \ {x} \in SUBSET S /\ pick[s] = x
    BY <1>1, <1>5
  <2> HIDE DEF x
  <2>2. g[s \ {x}] \in Int
    BY <2>1
  <2>3. g[s] = step[x][g[s \ {x}]]
    BY <1>3, <1>5, <2>1 DEF FoldsBy
  <2>4. g[s] = F[x] + g[s \ {x}]
    BY <1>2, <2>1, <2>2, <2>3
  <2>. QED
    BY <2>4 DEF x
<1>6. SumsUp(F, S, g)
  BY <1>4, <1>5 DEF SumsUp
<1>. QED
  BY <1>6

(* A sum is a sum, whatever member of the set is taken out first. *)
AnyOrder(F, S, g) ==
    /\ g[{}] = 0
    /\ \A s : s \subseteq S => g[s] \in Int /\ \A x \in s : g[s] = F[x] + g[s \ {x}]

LEMMA SumsInAnyOrder ==
    ASSUME NEW S, IsFiniteSet(S), NEW F, \A x \in S : F[x] \in Int,
           NEW g, SumsUp(F, S, g)
    PROVE  AnyOrder(F, S, g)
<1> DEFINE Good(s) == g[s] \in Int /\ \A x \in s : g[s] = F[x] + g[s \ {x}]
           Sizes == {n \in Nat : \A s \in SUBSET S : Cardinality(s) <= n => Good(s)}
<1>1. g[{}] = 0
  BY DEF SumsUp
<1>2. ASSUME NEW s \in SUBSET S PROVE IsFiniteSet(s) /\ Cardinality(s) \in Nat
  BY FS_Subset, FS_CardinalityType
<1>3. 0 \in Sizes
  <2>1. ASSUME NEW s \in SUBSET S, Cardinality(s) <= 0 PROVE Good(s)
    <3>1. Cardinality(s) = 0
      BY <1>2, <2>1
    <3>2. s = {}
      BY <1>2, <3>1, FS_EmptySet
    <3>. QED
      BY <1>1, <3>2
  <2> HIDE DEF Good
  <2>. QED
    BY <2>1
<1>4. ASSUME NEW n \in Nat, n \in Sizes PROVE n + 1 \in Sizes
  <2> HIDE DEF Good
  <2>1. ASSUME NEW s \in SUBSET S, Cardinality(s) = n + 1 PROVE Good(s)
    <3> DEFINE p == CHOOSE x \in s : TRUE
    <3>1. s # {}
      BY <2>1, FS_EmptySet
    <3>2. p \in s /\ g[s] = F[p] + g[s \ {p}]
      BY <3>1 DEF SumsUp
    <3> HIDE DEF p
    <3>3. ASSUME NEW x \in s PROVE s \ {x} \in SUBSET S /\ Cardinality(s \ {x}) = n
      BY <1>2, <2>1, OneLess
    <3>4. ASSUME NEW x \in s PROVE Good(s \ {x}) /\ F[x] \in Int
      BY <1>4, <3>3
    <3>5. F[p] \in Int /\ g[s \ {p}] \in Int
      BY <3>2, <3>4 DEF Good
    <3>6. ASSUME NEW x \in s PROVE g[s] = F[x] + g[s \ {x}]
      <4>1. CASE x = p
        BY <3>2, <4>1
      <4>2. CASE x # p
        <5> DEFINE rest == (s \ {p}) \ {x}
        <5>1. x \in s \ {p} /\ p \in s \ {x} /\ rest = (s \ {x}) \ {p}
          BY <3>2, <4>2
        <5>2. rest \in SUBSET S /\ Cardinality(rest) <= n
          <6>1. IsFiniteSet(s \ {p}) /\ rest \in SUBSET (s \ {p})
            BY <1>2, <3>2, <3>3
          <6>. QED
            BY <3>2, <3>3, <6>1, FS_Subset
        <5>3. Good(rest)
          BY <1>4, <5>2
        <5> HIDE DEF rest
        <5>4. g[rest] \in Int /\ g[s \ {p}] = F[x] + g[rest] /\ g[s \ {x}] = F[p] + g[rest]
          BY <3>2, <3>4, <5>1, <5>3 DEF Good, rest
        <5>5. F[x] \in Int
          BY <3>4
        <5>. QED
          BY <3>2, <3>5, <5>4, <5>5
      <4>. QED
        BY <4>1, <4>2
    <3>7. g[s] \in Int
      BY <3>2, <3>5
    <3>. QED
      BY <3>6, <3>7 DEF Good
  <2>2. ASSUME NEW s \in SUBSET S, Cardinality(s) <= n + 1 PROVE Good(s)
    <3>1. Cardinality(s) <= n \/ Cardinality(s) = n + 1
      BY <1>2, <2>2
    <3>. QED
      BY <1>4, <2>1, <3>1
  <2>. QED
    BY <2>2
<1>5. Nat \subseteq Sizes
  <2> HIDE DEF Sizes
  <2>. QED
    BY <1>3, <1>4, InductionOverNat, Zenon
<1>6. ASSUME NEW s \in SUBSET S PROVE Good(s)
  <2> HIDE DEF Good
  <2>1. Cardinality(s) \in Nat /\ Cardinality(s) \in Sizes /\ Cardinality(s) <= Cardinality(s)
    BY <1>2, <1>5
  <2>. QED
    BY <2>1
<1>. QED
  BY <1>1, <1>6 DEF AnyOrder

(* Sums over a set depend on nothing but the summands. *)
LEMMA SumsAgree ==
    ASSUME NEW T, NEW S1, NEW S2, IsFiniteSet(S1), IsFiniteSet(S2),
           T \subseteq S1, T \subseteq S2,
           NEW F1, NEW F2, \A x \in S1 : F1[x] \in Int, \A x \in S2 : F2[x] \in Int,
           \A x \in T : F1[x] = F2[x],
           NEW g1, SumsUp(F1, S1, g1), NEW g2, SumsUp(F2, S2, g2)
    PROVE  g1[T] = g2[T]
<1> DEFINE Sizes == {n \in Nat : \A s \in SUBSET T : Cardinality(s) = n => g1[s] = g2[s]}
<1>1. /\ g1[{}] = 0 /\ \A s \in SUBSET S1 : \A x \in s : g1[s] = F1[x] + g1[s \ {x}]
      /\ g2[{}] = 0 /\ \A s \in SUBSET S2 : \A x \in s : g2[s] = F2[x] + g2[s \ {x}]
  <2>1. AnyOrder(F1, S1, g1) /\ AnyOrder(F2, S2, g2)
    BY SumsInAnyOrder
  <2>. QED
    BY <2>1 DEF AnyOrder
<1>2. ASSUME NEW s \in SUBSET T PROVE IsFiniteSet(s) /\ Cardinality(s) \in Nat
  BY FS_Subset, FS_CardinalityType
<1>3. 0 \in Sizes
  <2>1. ASSUME NEW s \in SUBSET T, Cardinality(s) = 0 PROVE s = {}
    BY <1>2, <2>1, FS_EmptySet
  <2>. QED
    BY <1>1, <2>1
<1>4. ASSUME NEW n \in Nat, n \in Sizes PROVE n + 1 \in Sizes
  <2>1. SUFFICES ASSUME NEW s \in SUBSET T, Cardinality(s) = n + 1 PROVE g1[s] = g2[s]
    OBVIOUS
  <2>2. PICK x \in s : TRUE
    BY <2>1, FS_EmptySet
  <2>3. Cardinality(s \ {x}) = n
    BY <1>2, <2>1, <2>2, OneLess
  <2>4. g1[s \ {x}] = g2[s \ {x}]
    BY <1>4, <2>3
  <2>. QED
    BY <1>1, <2>2, <2>4
<1>5. Nat \subseteq Sizes
  <2> HIDE DEF Sizes
  <2>. QED
    BY <1>3, <1>4, InductionOverNat, Zenon
<1>. QED
  BY <1>2, <1>5

(* MapThenSumSet follows its function from subsets to sums. *)
LEMMA SumOfFunction ==
    ASSUME NEW S, IsFiniteSet(S), NEW F, \A x \in S : F[x] \in Int
    PROVE  \E g \in [SUBSET S -> Int] : SumsUp(F, S, g) /\ SumOf(F, S) = g[S]
<1>1. PICK h \in [SUBSET S -> Int] : SumsUp(F, S, h)
  BY SumsUpExists
<1>2. PICK g : SumsUp(F, S, g) /\ SumOf(F, S) = g[S]
  BY <1>1, Zenon DEF SumOf, SumsUp, MapThenSumSet, MapThenFoldSet
<1>3. g = [s \in SUBSET S |-> g[s]]
  BY <1>2 DEF SumsUp
<1>4. AnyOrder(F, S, g)
  BY <1>2, SumsInAnyOrder
<1>5. g \in [SUBSET S -> Int]
  BY <1>3, <1>4 DEF AnyOrder
<1>. QED
  BY <1>2, <1>5

(* What a state's own use of MapThenSumSet is to be compared with. *)
LEMMA SumOfIs ==
    ASSUME NEW S, IsFiniteSet(S), NEW F, \A x \in S : F[x] \in Int,
           NEW g, SumsUp(F, S, g)
    PROVE  SumOf(F, S) = g[S]
<1>1. PICK h : SumsUp(F, S, h) /\ SumOf(F, S) = h[S]
  BY SumOfFunction
<1>2. S \subseteq S
  OBVIOUS
<1>3. h[S] = g[S]
  BY <1>1, <1>2, SumsAgree
<1>. QED
  BY <1>1, <1>3

(* The sum over no members. *)
LEMMA SumOfEmpty == ASSUME NEW F PROVE SumOf(F, {}) = 0
<1>1. PICK g \in [SUBSET {} -> Int] : SumsUp(F, {}, g) /\ SumOf(F, {}) = g[{}]
  BY SumOfFunction, FS_EmptySet
<1>. QED
  BY <1>1 DEF SumsUp

(* A sum of integers is an integer. *)
LEMMA SumOfInt ==
    ASSUME NEW S, IsFiniteSet(S), NEW F, \A x \in S : F[x] \in Int
    PROVE  SumOf(F, S) \in Int
<1>1. PICK g \in [SUBSET S -> Int] : SumOf(F, S) = g[S]
  BY SumOfFunction
<1>. QED
  BY <1>1

(* Two sums are the same when their summands are. *)
LEMMA SumOfSame ==
    ASSUME NEW S, IsFiniteSet(S), NEW F1, NEW F2,
           \A x \in S : F1[x] \in Int, \A x \in S : F1[x] = F2[x]
    PROVE  SumOf(F1, S) = SumOf(F2, S)
<1>1. PICK g1 : SumsUp(F1, S, g1) /\ SumOf(F1, S) = g1[S]
  BY SumOfFunction
<1>2. PICK g2 : SumsUp(F2, S, g2) /\ SumOf(F2, S) = g2[S]
  BY SumOfFunction
<1>3. g1[S] = g2[S]
  BY <1>1, <1>2, SumsAgree
<1>. QED
  BY <1>1, <1>2, <1>3

(* A member can be taken out of a sum. *)
LEMMA SumOfRemove ==
    ASSUME NEW S, IsFiniteSet(S), NEW F, \A y \in S : F[y] \in Int, NEW x \in S
    PROVE  SumOf(F, S) = F[x] + SumOf(F, S \ {x})
<1>1. PICK g : SumsUp(F, S, g) /\ SumOf(F, S) = g[S]
  BY SumOfFunction
<1>2. g[S] = F[x] + g[S \ {x}]
  <2>1. SumsUp(F, S, g)
    BY <1>1
  <2>2. AnyOrder(F, S, g)
    BY <2>1, SumsInAnyOrder
  <2>. QED
    BY <2>2 DEF AnyOrder
<1>3. IsFiniteSet(S \ {x})
  BY FS_Subset
<1>4. PICK h : SumsUp(F, S \ {x}, h) /\ SumOf(F, S \ {x}) = h[S \ {x}]
  BY <1>3, SumOfFunction
<1>5. g[S \ {x}] = h[S \ {x}]
  <2> DEFINE T == S \ {x}
  <2>1. T \subseteq S /\ T \subseteq T /\ \A y \in T : F[y] \in Int /\ F[y] = F[y]
    OBVIOUS
  <2> HIDE DEF T
  <2>2. IsFiniteSet(T) /\ SumsUp(F, T, h)
    BY <1>3, <1>4 DEF T
  <2>3. g[T] = h[T]
    BY <1>1, <2>1, <2>2, SumsAgree
  <2>. QED
    BY <2>3 DEF T
<1>. QED
  BY <1>1, <1>2, <1>4, <1>5

(* A member can be added to a sum. *)
LEMMA SumOfAdd ==
    ASSUME NEW S, IsFiniteSet(S), NEW F, NEW x, x \notin S,
           \A y \in S \cup {x} : F[y] \in Int
    PROVE  SumOf(F, S \cup {x}) = F[x] + SumOf(F, S)
<1>1. IsFiniteSet(S \cup {x}) /\ (S \cup {x}) \ {x} = S
  BY FS_AddElement
<1>2. SumOf(F, S \cup {x}) = F[x] + SumOf(F, (S \cup {x}) \ {x})
  BY <1>1, SumOfRemove
<1>. QED
  BY <1>1, <1>2

(* A sum of natural numbers grows with the set, by the sum over the rest. *)
LEMMA SumOfSplit ==
    ASSUME NEW S, IsFiniteSet(S), NEW F, \A x \in S : F[x] \in Nat, NEW T, T \subseteq S
    PROVE  /\ SumOf(F, T) \in Nat /\ SumOf(F, S \ T) \in Nat
           /\ SumOf(F, S) = SumOf(F, T) + SumOf(F, S \ T)
<1> DEFINE Split == {s \in SUBSET S :
                       /\ SumOf(F, s) \in Nat
                       /\ s \cap T = {} => SumOf(F, T \cup s) = SumOf(F, T) + SumOf(F, s)}
<1>1. ASSUME NEW s, s \subseteq S
      PROVE  IsFiniteSet(s) /\ \A x \in s : F[x] \in Int
  BY <1>1, FS_Subset
<1>2. {} \in Split
  <2>1. SumOf(F, {}) = 0 /\ SumOf(F, T) \in Int
    BY <1>1, SumOfEmpty, SumOfInt
  <2>. QED
    BY <2>1
<1>3. ASSUME NEW s, s \subseteq S, s # {}, \A x \in s : s \ {x} \in Split PROVE s \in Split
  <2>1. PICK x \in s : TRUE
    BY <1>3
  <2>2. SumOf(F, s) = F[x] + SumOf(F, s \ {x})
    <3>1. IsFiniteSet(s) /\ \A y \in s : F[y] \in Int
      BY <1>1, <1>3
    <3>. QED
      BY <3>1, SumOfRemove
  <2>3. SumOf(F, s \ {x}) \in Nat /\ F[x] \in Nat
    BY <1>3
  <2>4. ASSUME s \cap T = {} PROVE SumOf(F, T \cup s) = SumOf(F, T) + SumOf(F, s)
    <3> DEFINE W == T \cup s
    <3>1. W \subseteq S /\ x \in W /\ W \ {x} = T \cup (s \ {x}) /\ (s \ {x}) \cap T = {}
      BY <1>3, <2>4
    <3>2. SumOf(F, W) = F[x] + SumOf(F, W \ {x})
      <4> HIDE DEF W
      <4>1. IsFiniteSet(W) /\ \A y \in W : F[y] \in Int
        BY <1>1, <3>1
      <4>. QED
        BY <3>1, <4>1, SumOfRemove
    <3>3. SumOf(F, T \cup (s \ {x})) = SumOf(F, T) + SumOf(F, s \ {x})
      BY <1>3, <3>1
    <3>4. SumOf(F, T) \in Int
      BY <1>1, SumOfInt
    <3>5. SumOf(F, W) = F[x] + SumOf(F, T \cup (s \ {x}))
      BY <3>1, <3>2, Zenon
    <3> HIDE DEF W
    <3>6. SumOf(F, W) = SumOf(F, T) + SumOf(F, s)
      BY <2>2, <2>3, <3>3, <3>4, <3>5
    <3>. QED
      BY <3>6 DEF W
  <2>. QED
    BY <1>3, <2>2, <2>3, <2>4
<1>4. \A s : s \subseteq S => s \in Split
  <2> HIDE DEF Split
  <2>. QED
    BY <1>2, <1>3, SubsetInduction
<1>5. S = T \cup (S \ T) /\ T \in Split /\ S \ T \in Split
  BY <1>4
<1>. QED
  BY <1>5

-----------------------------------------------------------------------------
(* Division and remainder.                                                  *)

(* Quotient and remainder as the defining equation has them.                *)
LEMMA Split ==
    ASSUME NEW N \in Nat \ {0}, NEW x \in Int
    PROVE  \E k \in Int, r \in 0..(N - 1) : x = N * k + r /\ x % N = r /\ x \div N = k
<1>1. x = N * (x \div N) + (x % N) /\ x % N \in 0..(N - 1) /\ x \div N \in Int
  OBVIOUS
<1>. QED
  BY <1>1

(* Quotient and remainder are the only ones. *)
LEMMA ModUnique ==
    ASSUME NEW N \in Nat \ {0}, NEW k \in Int, NEW q \in Int,
           NEW r \in 0..(N - 1), NEW s \in 0..(N - 1), N * k + r = N * q + s
    PROVE  r = s /\ k = q
<1>1. N * (k - q) = s - r
  OBVIOUS
<1>2. CASE k - q >= 1
  BY <1>1, <1>2
<1>3. CASE k - q <= -1
  BY <1>1, <1>3
<1>4. CASE k - q = 0
  BY <1>1, <1>4
<1>. QED
  BY <1>2, <1>3, <1>4

(* How to compute a remainder: exhibit the quotient.                        *)
LEMMA ModOf ==
    ASSUME NEW N \in Nat \ {0}, NEW k \in Int, NEW r \in 0..(N - 1), NEW x \in Int,
           x = N * k + r
    PROVE  x % N = r /\ x \div N = k
BY Split, ModUnique

(* A remainder of a remainder. *)
LEMMA ModMod ==
    ASSUME NEW N \in Nat \ {0}, NEW x \in Int
    PROVE  (x % (N * N)) % N = x % N
<1>1. N * N \in Nat \ {0}
  OBVIOUS
<1>2. PICK k \in Int, r \in 0..((N * N) - 1) : x = (N * N) * k + r /\ x % (N * N) = r
  BY <1>1, Split
<1>3. PICK m \in Int, s \in 0..(N - 1) : r = N * m + s /\ r % N = s
  <2>1. r \in Int
    BY <1>1
  <2>. QED
    BY <2>1, Split
<1> DEFINE j == N * k + m
<1>4. j \in Int /\ x = N * j + s
  <2>1. (N * N) * k = N * (N * k)
    OBVIOUS
  <2>2. N * (N * k + m) = N * (N * k) + N * m
    OBVIOUS
  <2>. QED
    BY <1>2, <1>3, <2>1, <2>2
<1> HIDE DEF j
<1>5. x % N = s
  BY <1>4, ModOf
<1>. QED
  BY <1>2, <1>3, <1>5

(* Adding a multiple changes the remainder as little as it should. *)
LEMMA ModPlus ==
    ASSUME NEW N \in Nat \ {0}, NEW a \in Int, NEW x \in Int
    PROVE  (N * a + x) % N = x % N
<1>1. PICK k \in Int, r \in 0..(N - 1) : x = N * k + r /\ x % N = r
  BY Split
<1> DEFINE j == a + k
           y == N * a + x
<1>2. j \in Int /\ y = N * j + r /\ y \in Int
  BY <1>1
<1> HIDE DEF j, y
<1>3. y % N = r
  BY <1>1, <1>2, ModOf
<1>. QED
  BY <1>1, <1>3 DEF y

(* A number without a remainder is a multiple, and the other way round. *)
LEMMA Multiple ==
    ASSUME NEW N \in Nat \ {0}
    PROVE  /\ \A x \in Int : x % N = 0 => \E k \in Int : x = N * k
           /\ \A k \in Int : N * k \in Int /\ (N * k) % N = 0
<1>1. ASSUME NEW x \in Int, x % N = 0 PROVE \E k \in Int : x = N * k
  <2>1. PICK k \in Int, r \in 0..(N - 1) : x = N * k + r /\ x % N = r
    BY Split
  <2>2. x = N * k
    BY <1>1, <2>1
  <2>. QED
    BY <2>2
<1>2. ASSUME NEW k \in Int PROVE N * k \in Int /\ (N * k) % N = 0
  <2> DEFINE x == N * k
  <2>1. x \in Int /\ x = N * k + 0 /\ 0 \in 0..(N - 1)
    OBVIOUS
  <2> HIDE DEF x
  <2>2. x % N = 0
    BY <2>1, ModOf
  <2>. QED
    BY <2>1, <2>2 DEF x
<1>. QED
  BY <1>1, <1>2

(* What a division without a remainder returns. *)
LEMMA ExactQuotient ==
    ASSUME NEW N \in Nat \ {0}, NEW x \in Nat, x % N = 0
    PROVE  \E g \in Nat : g = x \div N /\ x = N * g
<1>1. PICK k \in Int, r \in 0..(N - 1) : x = N * k + r /\ x % N = r /\ x \div N = k
  BY Split
<1>2. x = N * k
  BY <1>1
<1>3. k >= 0
  BY <1>2
<1>. QED
  BY <1>1, <1>2, <1>3

(* Division by a word is monotonic.                                         *)
LEMMA DivMono ==
    ASSUME NEW N \in Nat \ {0}, NEW a \in Nat, NEW b \in Nat, a <= b
    PROVE  a \div N \in Nat /\ b \div N \in Nat /\ a \div N <= b \div N
<1>1. PICK k \in Int, r \in 0..(N - 1) : a = N * k + r /\ a \div N = k
  BY Split
<1>2. PICK m \in Int, s \in 0..(N - 1) : b = N * m + s /\ b \div N = m
  BY Split
<1>3. k >= 0 /\ m >= 0
  <2>1. CASE k <= -1
    BY <1>1, <2>1
  <2>2. CASE m <= -1
    BY <1>2, <2>2
  <2>. QED
    BY <2>1, <2>2
<1>4. k <= m
  <2>1. CASE k >= m + 1
    <3>1. N * k >= N * (m + 1)
      BY <2>1
    <3>2. N * (m + 1) = N * m + N
      OBVIOUS
    <3>. QED
      BY <1>1, <1>2, <3>1, <3>2
  <2>. QED
    BY <2>1
<1>. QED
  BY <1>1, <1>2, <1>3, <1>4

-----------------------------------------------------------------------------
(* Order: the members of a finite set by the number of those before them.   *)

(* The members of S that an order, a set of pairs, puts before x. *)
BeforeIn(order, S, x) == {y \in S : <<y, x>> \in order}

(* A strict order of all members. *)
StrictOrder(order, S) ==
    /\ \A x \in S : ~(<<x, x>> \in order)
    /\ \A x, y, z \in S : <<x, y>> \in order /\ <<y, z>> \in order => <<x, z>> \in order
    /\ \A x, y \in S : x = y \/ <<x, y>> \in order \/ <<y, x>> \in order

(* In a strict order every place is taken by one member, and a member that   *)
(* is before another has the lower place.                                   *)
LEMMA EveryPlaceTaken ==
    ASSUME NEW S, IsFiniteSet(S), NEW order, StrictOrder(order, S)
    PROVE  /\ \A k \in 1..Cardinality(S) :
                  \E x \in S : Cardinality(BeforeIn(order, S, x)) = k - 1
           /\ \A x \in S : Cardinality(BeforeIn(order, S, x)) \in 0..Cardinality(S) - 1
           /\ \A x, y \in S :
                  <<x, y>> \in order
                  <=> Cardinality(BeforeIn(order, S, x)) < Cardinality(BeforeIn(order, S, y))
<1> DEFINE n == Cardinality(S)
           place == [x \in S |-> Cardinality(BeforeIn(order, S, x))]
<1>1. n \in Nat
  BY FS_CardinalityType
<1>2. ASSUME NEW x \in S
      PROVE  IsFiniteSet(BeforeIn(order, S, x)) /\ place[x] \in 0..n - 1
  <2>1. BeforeIn(order, S, x) \subseteq S \ {x}
    BY DEF BeforeIn, StrictOrder
  <2>2. IsFiniteSet(S \ {x}) /\ Cardinality(S \ {x}) = n - 1
    BY FS_RemoveElement
  <2>3. IsFiniteSet(BeforeIn(order, S, x)) /\ Cardinality(BeforeIn(order, S, x)) <= n - 1
    BY <2>1, <2>2, FS_Subset
  <2>4. Cardinality(BeforeIn(order, S, x)) \in Nat
    BY <2>3, FS_CardinalityType
  <2>. QED
    BY <1>1, <2>3, <2>4
<1>3. ASSUME NEW x \in S, NEW y \in S, <<x, y>> \in order PROVE place[x] < place[y]
  <2> DEFINE X == BeforeIn(order, S, x)
             Y == BeforeIn(order, S, y)
  <2>1. X \subseteq Y /\ x \in Y /\ x \notin X
    BY <1>3 DEF BeforeIn, StrictOrder
  <2>2. IsFiniteSet(Y) /\ place[x] = Cardinality(X) /\ place[y] = Cardinality(Y)
    BY <1>2
  <2>3. Cardinality(X) \in Int /\ Cardinality(Y) \in Int
    BY <1>2, <2>2
  <2> HIDE DEF X, Y, place
  <2>4. Cardinality(X) <= Cardinality(Y) /\ (Cardinality(Y) = Cardinality(X) => Y = X)
    BY <2>1, <2>2, FS_Subset
  <2>. QED
    BY <2>1, <2>2, <2>3, <2>4
<1>4. ASSUME NEW x \in S, NEW y \in S, place[x] < place[y] PROVE <<x, y>> \in order
  <2>1. place[x] \in Int /\ place[y] \in Int
    BY <1>2
  <2>2. x # y /\ ~(<<y, x>> \in order)
    <3>1. ASSUME <<y, x>> \in order PROVE FALSE
      <4>1. place[y] < place[x]
        BY <1>3, <3>1
      <4> HIDE DEF place
      <4>. QED
        BY <1>4, <2>1, <4>1
    <3>2. ASSUME x = y PROVE FALSE
      BY <1>4, <2>1, <3>2
    <3>. QED
      BY <3>1, <3>2
  <2>. QED
    BY <2>2 DEF StrictOrder
<1>5. place \in Injection(S, 0..n - 1)
  <2>1. place \in [S -> 0..n - 1]
    BY <1>2
  <2>2. ASSUME NEW x \in S, NEW y \in S, place[x] = place[y] PROVE x = y
    <3>1. place[x] \in Int /\ place[y] \in Int
      BY <1>2
    <3>2. ~(<<x, y>> \in order) /\ ~(<<y, x>> \in order)
      <4>1. ~(place[x] < place[y]) /\ ~(place[y] < place[x])
        BY <2>2, <3>1
      <4>. QED
        BY <1>3, <4>1
    <3>. QED
      BY <3>2 DEF StrictOrder
  <2> HIDE DEF place
  <2>. QED
    BY <2>1, <2>2 DEF Injection, IsInjective
<1>6. IsFiniteSet(0..n - 1) /\ Cardinality(0..n - 1) = n
  BY <1>1, FS_Interval
<1>7. place \in Surjection(S, 0..n - 1)
  <2> HIDE DEF place
  <2>. QED
    BY <1>5, <1>6, FS_Injection
<1>8. \A k \in 0..n - 1 : \E x \in S : place[x] = k
  <2> HIDE DEF place
  <2>. QED
    BY <1>7 DEF Surjection
<1>9. \A k \in 1..n : \E x \in S : place[x] = k - 1
  BY <1>1, <1>8
<1>. QED
  BY <1>2, <1>3, <1>4, <1>9
=============================================================================
