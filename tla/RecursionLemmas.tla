--------------------------- MODULE RecursionLemmas ---------------------------
(***************************************************************************)
(* Least elements and definitions by recursion over the natural numbers.   *)
(* The library's theorems on these take operators as parameters, which no  *)
(* back end can instantiate; the ones here take sets and functions.        *)
(***************************************************************************)
EXTENDS Integers, WellFoundedInduction, TLAPS

(* A set of natural numbers has a least one: what every induction in the   *)
(* project is, with the counterexamples as the set.                        *)
LEMMA LeastNumber ==
    ASSUME NEW T \in SUBSET Nat, T # {}
    PROVE  \E n \in T : \A m \in T : n <= m
<1>1. IsWellFoundedOn(OpToRel(<, Nat), Nat)
  BY NatLessThanWellFounded
<1>2. OpToRel(<, Nat) = {ss \in Nat \X Nat : ss[1] < ss[2]}
  BY DEF OpToRel
<1> DEFINE R == {ss \in Nat \X Nat : ss[1] < ss[2]}
<1>3. IsWellFoundedOn(R, Nat)
  BY <1>1, <1>2
<1> HIDE DEF R
<1>4. PICK n \in T : \A m \in T : <<m, n>> \notin R
  BY <1>3, WFMin
<1>5. ASSUME NEW m \in T PROVE n <= m
  <2>1. m \in Nat /\ n \in Nat
    OBVIOUS
  <2>2. m < n => <<m, n>> \in R
    BY <2>1 DEF R
  <2>3. ~(m < n)
    BY <1>4, <2>2
  <2> QED
    BY <2>1, <2>3
<1> QED
  BY <1>5

(* Induction: a set with 0 and the successors of its members has every     *)
(* natural number.                                                         *)
LEMMA SetInduction ==
    ASSUME NEW G, 0 \in G, \A n \in Nat : n \in G => n + 1 \in G
    PROVE  \A n \in Nat : n \in G
<1> DEFINE T == {n \in Nat : n \notin G}
<1> SUFFICES ASSUME T # {} PROVE FALSE
  OBVIOUS
<1>1. PICK k \in T : \A m \in T : k <= m
  BY LeastNumber
<1>2. k - 1 \in Nat /\ k - 1 \notin T
  BY <1>1
<1> QED
  BY <1>1, <1>2

(* The functions on 0..n that start with b and follow h.                   *)
Partial(S, b, h, n) ==
    {p \in [0..n -> S] : p[0] = b /\ \A i \in 0..(n - 1) : p[i + 1] = h[i][p[i]]}

LEMMA PartialExists ==
    ASSUME NEW S, NEW b \in S, NEW h \in [Nat -> [S -> S]]
    PROVE  \A n \in Nat : Partial(S, b, h, n) # {}
<1> DEFINE G == {n \in Nat : Partial(S, b, h, n) # {}}
<1>1. 0 \in G
  <2>1. [i \in 0..0 |-> b] \in Partial(S, b, h, 0)
    BY DEF Partial
  <2> QED
    BY <2>1
<1>2. ASSUME NEW k \in Nat, k \in G PROVE k + 1 \in G
  <2>1. PICK p : p \in Partial(S, b, h, k)
    BY <1>2
  <2> DEFINE q == [i \in 0..(k + 1) |-> IF i <= k THEN p[i] ELSE h[k][p[k]]]
  <2>2. /\ p \in [0..k -> S] /\ p[0] = b
        /\ \A i \in 0..(k - 1) : p[i + 1] = h[i][p[i]]
    BY <2>1 DEF Partial
  <2>3. q \in [0..(k + 1) -> S]
    <3>1. h[k][p[k]] \in S
      BY <2>2
    <3> QED
      BY <2>2, <3>1
  <2>4. q[0] = b
    BY <2>2
  <2>5. ASSUME NEW i \in 0..((k + 1) - 1) PROVE q[i + 1] = h[i][q[i]]
    <3>1. CASE i < k
      BY <2>2, <3>1
    <3>2. CASE i = k
      BY <3>2
    <3> QED
      BY <3>1, <3>2
  <2> HIDE DEF q
  <2>6. q \in Partial(S, b, h, k + 1)
    BY <2>3, <2>4, <2>5 DEF Partial
  <2> QED
    BY <2>6
<1> HIDE DEF G
<1>3. \A n \in Nat : n \in G
  BY <1>1, <1>2, SetInduction
<1> QED
  BY <1>3 DEF G

LEMMA PartialsAgree ==
    ASSUME NEW S, NEW b \in S, NEW h \in [Nat -> [S -> S]], NEW m \in Nat, NEW n \in Nat,
           NEW p \in Partial(S, b, h, m), NEW q \in Partial(S, b, h, n)
    PROVE  \A i \in Nat : i <= m /\ i <= n => p[i] = q[i]
<1> DEFINE G == {i \in Nat : i <= m /\ i <= n => p[i] = q[i]}
<1>1. 0 \in G
  BY DEF Partial
<1>2. ASSUME NEW k \in Nat, k \in G PROVE k + 1 \in G
  <2>1. SUFFICES ASSUME k + 1 <= m, k + 1 <= n PROVE p[k + 1] = q[k + 1]
    OBVIOUS
  <2>2. k \in 0..(m - 1) /\ k \in 0..(n - 1) /\ p[k] = q[k]
    BY <1>2, <2>1
  <2>3. p[k + 1] = h[k][p[k]] /\ q[k + 1] = h[k][q[k]]
    BY <2>2 DEF Partial
  <2> QED
    BY <2>2, <2>3
<1> HIDE DEF G
<1>3. \A n1 \in Nat : n1 \in G
  BY <1>1, <1>2, SetInduction
<1> QED
  BY <1>3 DEF G

(* A first value and a function from each value to the next define a       *)
(* function on the natural numbers.                                        *)
Following(S, b, h) == {f \in [Nat -> S] : f[0] = b /\ \A i \in Nat : f[i + 1] = h[i][f[i]]}

LEMMA FollowingExists ==
    ASSUME NEW S, NEW b \in S, NEW h \in [Nat -> [S -> S]]
    PROVE  Following(S, b, h) # {}
<1> DEFINE p(n) == CHOOSE q \in Partial(S, b, h, n) : TRUE
           f == [n \in Nat |-> p(n)[n]]
<1>1. ASSUME NEW n \in Nat
      PROVE  /\ p(n) \in Partial(S, b, h, n)
             /\ p(n) \in [0..n -> S] /\ p(n)[0] = b
             /\ \A i \in 0..(n - 1) : p(n)[i + 1] = h[i][p(n)[i]]
  <2>1. p(n) \in Partial(S, b, h, n)
    BY PartialExists
  <2> QED
    BY <2>1 DEF Partial
<1>2. f \in [Nat -> S] /\ f[0] = b
  BY <1>1
<1>3. ASSUME NEW n \in Nat PROVE f[n + 1] = h[n][f[n]]
  <2>1. p(n + 1)[n] = p(n)[n]
    <3>1. p(n) \in Partial(S, b, h, n) /\ p(n + 1) \in Partial(S, b, h, n + 1)
      BY <1>1
    <3> HIDE DEF p
    <3> QED
      BY <3>1, PartialsAgree
  <2>2. p(n + 1)[n + 1] = h[n][p(n + 1)[n]]
    BY <1>1
  <2> QED
    BY <2>1, <2>2
<1> HIDE DEF f
<1>4. f \in Following(S, b, h)
  BY <1>2, <1>3 DEF Following
<1> QED
  BY <1>4

LEMMA PrimitiveRecursion ==
    ASSUME NEW S, NEW b \in S, NEW h \in [Nat -> [S -> S]]
    PROVE  \E f \in [Nat -> S] : f[0] = b /\ \A i \in Nat : f[i + 1] = h[i][f[i]]
<1>1. Following(S, b, h) # {}
  BY FollowingExists
<1> QED
  BY <1>1 DEF Following
=============================================================================
