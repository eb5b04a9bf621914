------------------------ MODULE LayeredDocument_proofs ------------------------
(***************************************************************************)
(* Proofs that texts with includes and layered configurations leave the    *)
(* tree of one document, or one that references cannot tell from it.       *)
(***************************************************************************)
EXTENDS LayeredDocument, FlatDocument_proofs

(* A layer in which parts are replaced is a layer, and free of references  *)
(* to k if the parts that stay and the layer put in are.                   *)
LEMMA ReplacedLayer ==
    ASSUME NEW layer \in Layer, NEW places, NEW k, NEW old \in Layer, ~ContainsSubst(old, k),
           \A i \in 1..Len(layer) : i \notin places => ~RefersTo(layer[i], k)
    PROVE  Replaced(layer, places, old) \in Layer /\ ~ContainsSubst(Replaced(layer, places, old), k)
<1> DEFINE n == Len(layer)
           Free(s) == s \in Seq(Part) /\ \A j \in 1..Len(s) : ~RefersTo(s[j], k)
<1>1. n \in Nat /\ n # 0 /\ layer \in Seq(Part) /\ old \in Seq(Part) /\ old # <<>>
  <2>1. layer \in Seq(Part) /\ layer # <<>> /\ old \in Seq(Part) /\ old # <<>>
    BY DEF Layer
  <2> QED
    BY <2>1
<1>2. PICK F : /\ F \in [0..n -> Seq(Part)]
               /\ F[0] = <<>>
               /\ \A i \in 1..n : F[i] = F[i - 1] \o Bit(layer, places, old, i)
               /\ Replaced(layer, places, old) = F[n]
  BY <1>1, ReplacedSteps
<1>3. ASSUME NEW i \in 1..n
      PROVE  Free(Bit(layer, places, old, i)) /\ Len(Bit(layer, places, old, i)) # 0
  <2>1. CASE i \in places
    <3>1. Bit(layer, places, old, i) = old
      BY <2>1 DEF Bit
    <3>2. DOMAIN old = 1..Len(old) /\ Len(old) # 0
      BY <1>1
    <3> QED
      BY <1>1, <3>1, <3>2 DEF ContainsSubst
  <2>2. CASE i \notin places
    <3>1. Bit(layer, places, old, i) = <<layer[i]>> /\ layer[i] \in Part
      BY <1>1, <2>2 DEF Bit
    <3>2. ~RefersTo(layer[i], k)
      BY <2>2
    <3> QED
      BY <3>1, <3>2
  <2> QED
    BY <2>1, <2>2
<1> DEFINE G == {i \in Nat : i <= n => Free(F[i]) /\ (i # 0 => Len(F[i]) # 0)}
<1>4. 0 \in G
  BY <1>2
<1>5. ASSUME NEW i \in Nat, i \in G PROVE i + 1 \in G
  <2> SUFFICES ASSUME i + 1 <= n PROVE Free(F[i + 1]) /\ Len(F[i + 1]) # 0
    OBVIOUS
  <2>1. i + 1 \in 1..n /\ (i + 1) - 1 = i /\ i <= n
    BY <1>1
  <2> DEFINE s == F[i]
             r == Bit(layer, places, old, i + 1)
  <2>2. Free(s) /\ Free(r) /\ Len(r) # 0 /\ F[i + 1] = s \o r
    BY <1>2, <1>3, <1>5, <2>1
  <2> HIDE DEF s, r
  <2>3. \A j \in 1..Len(s \o r) : ~RefersTo((s \o r)[j], k)
    BY <2>2, ConcatParts
  <2>4. s \o r \in Seq(Part) /\ Len(s \o r) = Len(s) + Len(r) /\ Len(s) \in Nat /\ Len(r) \in Nat
    BY <2>2, ConcatParts
  <2> QED
    BY <2>2, <2>3, <2>4
<1> HIDE DEF G
<1>6. n \in G
  BY <1>1, <1>4, <1>5, SetInduction
<1>7. Free(F[n]) /\ Len(F[n]) # 0
  BY <1>1, <1>6 DEF G
<1>8. F[n] \in Layer /\ DOMAIN F[n] = 1..Len(F[n])
  BY <1>7 DEF Layer
<1> QED
  BY <1>2, <1>7, <1>8 DEF ContainsSubst

(* What replacing comes to, as one fact.                                   *)
Unfolds(F, layer, places, old) ==
    /\ F \in [0..Len(layer) -> Seq(Part)]
    /\ F[0] = <<>>
    /\ \A i \in 1..Len(layer) : F[i] = F[i - 1] \o Bit(layer, places, old, i)
    /\ Replaced(layer, places, old) = F[Len(layer)]

LEMMA ReplacedUnfolds ==
    ASSUME NEW layer \in Seq(Part), NEW places, NEW old \in Seq(Part)
    PROVE  \E F : Unfolds(F, layer, places, old)
  BY ReplacedSteps DEF Unfolds

(* Replacing depends only on the parts that stay and the places of those   *)
(* that do not.                                                            *)
LEMMA ReplacedSame ==
    ASSUME NEW s \in Seq(Part), NEW r \in Seq(Part), Len(s) = Len(r), NEW P, NEW Q,
           NEW old \in Seq(Part),
           \A i \in 1..Len(s) : (i \in P <=> i \in Q) /\ (i \notin P => s[i] = r[i])
    PROVE  Replaced(s, P, old) = Replaced(r, Q, old)
<1> DEFINE n == Len(s)
<1>1. n \in Nat
  OBVIOUS
<1>2. PICK F : Unfolds(F, s, P, old)
  BY ReplacedUnfolds
<1>3. PICK E : Unfolds(E, r, Q, old)
  BY ReplacedUnfolds
<1>4. \A i \in 1..n : Bit(s, P, old, i) = Bit(r, Q, old, i)
  BY DEF Bit
<1>5. /\ F[0] = <<>> /\ E[0] = <<>>
      /\ \A i \in 1..n : F[i] = F[i - 1] \o Bit(s, P, old, i) /\ E[i] = E[i - 1] \o Bit(s, P, old, i)
      /\ Replaced(s, P, old) = F[n] /\ Replaced(r, Q, old) = E[n]
  BY <1>2, <1>3, <1>4 DEF Unfolds
<1> DEFINE G == {i \in Nat : i <= n => F[i] = E[i]}
<1>6. 0 \in G
  BY <1>5
<1>7. ASSUME NEW i \in Nat, i \in G PROVE i + 1 \in G
  <2> SUFFICES ASSUME i + 1 <= n PROVE F[i + 1] = E[i + 1]
    OBVIOUS
  <2>1. i + 1 \in 1..n /\ (i + 1) - 1 = i /\ i <= n
    BY <1>1
  <2>2. F[i] = E[i]
    BY <1>7, <2>1
  <2> QED
    BY <1>5, <2>1, <2>2
<1> HIDE DEF G
<1>8. n \in G
  BY <1>1, <1>6, <1>7, SetInduction
<1> QED
  BY <1>1, <1>5, <1>8 DEF G

(* The references to k that were found to be absent.                       *)
IsKnownAbsent(part, k) == IsReference(part) /\ part.absent /\ part.key = k
AbsentAt(layer, k) == {i \in DOMAIN layer : IsKnownAbsent(layer[i], k)}

LEMMA AbsentFold ==
    ASSUME NEW s, NEW k, NEW x
    PROVE  FoldKnownAbsent(s, k, x) = Replaced(s, AbsentAt(s, k), x)
  BY DEF FoldKnownAbsent, AbsentAt, IsKnownAbsent

LEMMA PartsAssociative ==
    ASSUME NEW u \in Seq(Part), NEW v \in Seq(Part), NEW z \in Seq(Part)
    PROVE  (u \o v) \o z = u \o (v \o z)
  BY ConcatAssociative

(* Replacing absent references in one layer after another.                 *)
Cat(s, r) == s \o r

LEMMA AbsentConcat ==
    ASSUME NEW s \in Seq(Part), NEW r \in Seq(Part), NEW k, NEW x \in Seq(Part)
    PROVE  FoldKnownAbsent(Cat(s, r), k, x) = Cat(FoldKnownAbsent(s, k, x), FoldKnownAbsent(r, k, x))
<1> DEFINE w == s \o r
           a == Len(s)
           b == Len(r)
<1>1. /\ a \in Nat /\ b \in Nat /\ w \in Seq(Part) /\ Len(w) = a + b
      /\ \A i \in 1..a : w[i] = s[i]
      /\ \A i \in 1..b : w[a + i] = r[i]
      /\ DOMAIN s = 1..a /\ DOMAIN r = 1..b /\ DOMAIN w = 1..(a + b)
  BY ConcatParts
<1> HIDE DEF w
<1>2. PICK F : Unfolds(F, s, AbsentAt(s, k), x)
  BY ReplacedUnfolds
<1>3. PICK E : Unfolds(E, r, AbsentAt(r, k), x)
  BY ReplacedUnfolds
<1>4. PICK H : Unfolds(H, w, AbsentAt(w, k), x)
  BY <1>1, ReplacedUnfolds
<1>5. /\ F \in [0..a -> Seq(Part)] /\ F[0] = <<>>
      /\ \A i \in 1..a : F[i] = F[i - 1] \o Bit(s, AbsentAt(s, k), x, i)
      /\ FoldKnownAbsent(s, k, x) = F[a]
  BY <1>2, AbsentFold DEF Unfolds
<1>6. /\ E \in [0..b -> Seq(Part)] /\ E[0] = <<>>
      /\ \A i \in 1..b : E[i] = E[i - 1] \o Bit(r, AbsentAt(r, k), x, i)
      /\ FoldKnownAbsent(r, k, x) = E[b]
  BY <1>3, AbsentFold DEF Unfolds
<1>7. /\ H[0] = <<>>
      /\ \A i \in 1..(a + b) : H[i] = H[i - 1] \o Bit(w, AbsentAt(w, k), x, i)
      /\ FoldKnownAbsent(w, k, x) = H[a + b]
  BY <1>1, <1>4, AbsentFold DEF Unfolds
<1>8. \A i \in 1..a : Bit(w, AbsentAt(w, k), x, i) = Bit(s, AbsentAt(s, k), x, i)
  <2> TAKE i \in 1..a
  <2>1. i \in 1..(a + b) /\ w[i] = s[i]
    BY <1>1
  <2> QED
    BY <1>1, <2>1 DEF Bit, AbsentAt
<1>9. \A i \in 1..b : Bit(w, AbsentAt(w, k), x, a + i) = Bit(r, AbsentAt(r, k), x, i)
  <2> TAKE i \in 1..b
  <2>1. a + i \in 1..(a + b) /\ w[a + i] = r[i]
    BY <1>1
  <2> QED
    BY <1>1, <2>1 DEF Bit, AbsentAt
<1>10. \A i \in 1..b : Bit(r, AbsentAt(r, k), x, i) \in Seq(Part)
  <2> TAKE i \in 1..b
  <2>1. r[i] \in Part /\ <<r[i]>> \in Seq(Part)
    <3>1. r[i] \in Part
      BY <1>1
    <3> QED
      BY <3>1
  <2> QED
    BY <2>1 DEF Bit
<1> HIDE DEF a, b
<1> DEFINE G == {i \in Nat : i <= a => H[i] = F[i]}
<1>11. 0 \in G
  BY <1>5, <1>7
<1>12. ASSUME NEW i \in Nat, i \in G PROVE i + 1 \in G
  <2> SUFFICES ASSUME i + 1 <= a PROVE H[i + 1] = F[i + 1]
    OBVIOUS
  <2>1. i + 1 \in 1..a /\ i + 1 \in 1..(a + b) /\ (i + 1) - 1 = i /\ i <= a
    BY <1>1
  <2>2. H[i] = F[i]
    BY <1>12, <2>1
  <2> QED
    BY <1>5, <1>7, <1>8, <2>1, <2>2
<1> HIDE DEF G
<1>13. a \in G
  BY <1>1, <1>11, <1>12, SetInduction
<1>14. H[a] = F[a] /\ F[a] \in Seq(Part)
  BY <1>1, <1>5, <1>13 DEF G
<1> DEFINE Follows(i) == H[a + i] = Cat(F[a], E[i])
           K == {i \in Nat : i <= b => Follows(i)}
<1>15. 0 \in K
  <2>1. a + 0 = a /\ Cat(F[a], <<>>) = F[a]
    BY <1>1, <1>14 DEF Cat
  <2> QED
    BY <1>6, <1>14, <2>1
<1>16. ASSUME NEW i \in Nat, i \in K PROVE i + 1 \in K
  <2> SUFFICES ASSUME i + 1 <= b PROVE Follows(i + 1)
    <3> HIDE DEF Follows
    <3> QED
      OBVIOUS
  <2>1. /\ i + 1 \in 1..b /\ a + (i + 1) \in 1..(a + b) /\ (i + 1) - 1 = i /\ i <= b
        /\ (a + (i + 1)) - 1 = a + i /\ i \in 0..b
    BY <1>1
  <2>2. H[a + i] = Cat(F[a], E[i])
    <3>1. Follows(i)
      <4> HIDE DEF Follows
      <4> QED
        BY <1>16, <2>1
    <3> QED
      BY <3>1
  <2> DEFINE f == F[a]
             e == E[i]
             z == Bit(r, AbsentAt(r, k), x, i + 1)
  <2>3. H[a + (i + 1)] = (f \o e) \o z
    BY <1>7, <1>9, <2>1, <2>2 DEF Cat
  <2>4. E[i + 1] = e \o z
    BY <1>6, <2>1
  <2>5. f \in Seq(Part) /\ e \in Seq(Part) /\ z \in Seq(Part)
    BY <1>6, <1>10, <1>14, <2>1
  <2> HIDE DEF f, e, z
  <2>6. (f \o e) \o z = f \o (e \o z)
    BY ONLY <2>5, PartsAssociative, ZenonT(60)
  <2> QED
    BY <2>3, <2>4, <2>6 DEF f, Cat
<1> HIDE DEF K
<1>17. b \in K
  BY <1>1, <1>15, <1>16, SetInduction
<1>18. H[a + b] = Cat(F[a], E[b])
  BY <1>1, <1>17 DEF K
<1> QED
  BY <1>5, <1>6, <1>7, <1>18 DEF Cat, w

LEMMA AbsentSingle ==
    ASSUME NEW part \in Part, NEW k, ~IsKnownAbsent(part, k), NEW x \in Seq(Part)
    PROVE  FoldKnownAbsent(<<part>>, k, x) = <<part>>
<1> DEFINE s == <<part>>
<1>1. s \in Seq(Part) /\ Len(s) = 1 /\ s[1] = part /\ <<>> \o s = s
  OBVIOUS
<1>2. PICK F : Unfolds(F, s, AbsentAt(s, k), x)
  BY <1>1, ReplacedUnfolds
<1>3. F[0] = <<>> /\ F[1] = F[0] \o Bit(s, AbsentAt(s, k), x, 1) /\ FoldKnownAbsent(s, k, x) = F[1]
  <2>1. 1 \in 1..Len(s) /\ 1 - 1 = 0
    BY <1>1
  <2> HIDE DEF s
  <2> QED
    BY <1>1, <1>2, <2>1, AbsentFold DEF Unfolds
<1>4. Bit(s, AbsentAt(s, k), x, 1) = s
  BY <1>1 DEF Bit, AbsentAt
<1> QED
  BY <1>1, <1>3, <1>4

LEMMA AbsentLayer ==
    ASSUME NEW old \in Layer, NEW k, ~ContainsSubst(old, k), NEW x \in Layer, ~ContainsSubst(x, k)
    PROVE  FoldKnownAbsent(old, k, x) \in Layer /\ ~ContainsSubst(FoldKnownAbsent(old, k, x), k)
<1>1. \A i \in 1..Len(old) : i \notin AbsentAt(old, k) => ~RefersTo(old[i], k)
  <2>1. DOMAIN old = 1..Len(old)
    BY DEF Layer
  <2> QED
    BY <2>1 DEF ContainsSubst
<1>2. Replaced(old, AbsentAt(old, k), x) \in Layer /\ ~ContainsSubst(Replaced(old, AbsentAt(old, k), x), k)
  BY <1>1, ReplacedLayer
<1> QED
  BY <1>2, AbsentFold

(* Completing a saved prior with what lies below it is the same as saving  *)
(* it over what lies below: for a layer whose references were marked       *)
(* absent, and for one that was folded with a prior that has some.         *)
LEMMA AbsentOfMarked ==
    ASSUME NEW layer \in Layer, NEW k, Written(layer), NEW m, m = FoldOptionalSelfRefAbsent(layer, k),
           m # NoPrior, NEW x \in Layer
    PROVE  FoldKnownAbsent(m, k, x) = FoldSelfRef(layer, k, x)
<1> DEFINE P == AbsentAt(m, k)
           Q == {i \in DOMAIN layer : RefersTo(layer[i], k)}
<1>1. /\ layer \in Seq(Part) /\ x \in Seq(Part) /\ DOMAIN layer = 1..Len(layer)
      /\ \A i \in 1..Len(layer) : IsReference(layer[i]) => ~layer[i].absent
  BY DEF Layer, Written
<1>2. m \in Seq(Part) /\ Len(m) = Len(layer) /\ DOMAIN m = 1..Len(m)
  <2>1. m \in Layer /\ Len(m) = Len(layer)
    BY MarkedLayer
  <2> QED
    BY <2>1 DEF Layer
<1>3. m = [i \in DOMAIN layer |-> IF RefersTo(layer[i], k) THEN [layer[i] EXCEPT !.absent = TRUE]
                                                         ELSE layer[i]]
  BY DEF FoldOptionalSelfRefAbsent
<1>4. ASSUME NEW i \in 1..Len(m)
      PROVE  (i \in P <=> i \in Q) /\ (i \notin P => m[i] = layer[i])
  <2>1. i \in 1..Len(layer) /\ i \in DOMAIN m /\ i \in DOMAIN layer
    BY <1>1, <1>2
  <2>2. CASE RefersTo(layer[i], k)
    <3>1. IsKnownAbsent(m[i], k)
      <4> DEFINE p == layer[i]
                 q == [p EXCEPT !.absent = TRUE]
      <4>1. p \in Part /\ IsReference(p) /\ p.key = k /\ m[i] = q
        BY <1>1, <1>3, <2>1, <2>2 DEF RefersTo
      <4>2. IsReference(q) /\ q.absent /\ q.key = k
        <5> HIDE DEF p
        <5> QED
          BY <4>1 DEF Part, IsReference
      <4> QED
        BY <4>1, <4>2 DEF IsKnownAbsent
    <3> QED
      BY <2>1, <2>2, <3>1 DEF AbsentAt
  <2>3. CASE ~RefersTo(layer[i], k)
    <3>1. m[i] = layer[i]
      BY <1>3, <2>1, <2>3
    <3>2. ~IsKnownAbsent(m[i], k)
      BY <1>1, <2>1, <3>1 DEF IsKnownAbsent
    <3> QED
      BY <2>1, <2>3, <3>1, <3>2 DEF AbsentAt
  <2> QED
    BY <2>2, <2>3
<1> HIDE DEF P, Q
<1>5. Replaced(m, P, x) = Replaced(layer, Q, x)
  BY <1>1, <1>2, <1>4, ReplacedSame
<1> QED
  BY <1>5, AbsentFold DEF P, Q, FoldSelfRef

LEMMA AbsentOfFolded ==
    ASSUME NEW layer \in Layer, NEW k, Written(layer), NEW old \in Layer, NEW x \in Layer,
           NEW y \in Layer, y = FoldKnownAbsent(old, k, x)
    PROVE  FoldKnownAbsent(FoldSelfRef(layer, k, old), k, x) = FoldSelfRef(layer, k, y)
<1> DEFINE n == Len(layer)
           Q == {i \in DOMAIN layer : RefersTo(layer[i], k)}
<1>1. /\ layer \in Seq(Part) /\ x \in Seq(Part) /\ DOMAIN layer = 1..n /\ n \in Nat
      /\ old \in Seq(Part) /\ y \in Seq(Part)
      /\ \A i \in 1..n : layer[i] \in Part /\ (IsReference(layer[i]) => ~layer[i].absent)
  BY DEF Layer, Written
<1>2. /\ FoldSelfRef(layer, k, old) = Replaced(layer, Q, old)
      /\ FoldSelfRef(layer, k, y) = Replaced(layer, Q, y)
  BY DEF FoldSelfRef
<1> HIDE DEF Q
<1>3. PICK F : Unfolds(F, layer, Q, old)
  BY <1>1, ReplacedUnfolds
<1>4. PICK E : Unfolds(E, layer, Q, y)
  BY <1>1, ReplacedUnfolds
<1>5. /\ F \in [0..n -> Seq(Part)] /\ F[0] = <<>> /\ E[0] = <<>>
      /\ \A i \in 1..n : /\ F[i] = F[i - 1] \o Bit(layer, Q, old, i)
                        /\ E[i] = E[i - 1] \o Bit(layer, Q, y, i)
      /\ FoldSelfRef(layer, k, old) = F[n] /\ FoldSelfRef(layer, k, y) = E[n]
  BY <1>2, <1>3, <1>4 DEF Unfolds
<1> HIDE DEF n
<1>6. ASSUME NEW i \in 1..n
      PROVE  /\ Bit(layer, Q, old, i) \in Seq(Part)
             /\ FoldKnownAbsent(Bit(layer, Q, old, i), k, x) = Bit(layer, Q, y, i)
  <2>1. CASE i \in Q
    BY <1>1, <2>1 DEF Bit
  <2>2. CASE i \notin Q
    <3>1. layer[i] \in Part /\ ~IsKnownAbsent(layer[i], k) /\ <<layer[i]>> \in Seq(Part)
      <4>1. layer[i] \in Part /\ ~IsKnownAbsent(layer[i], k)
        BY <1>1 DEF IsKnownAbsent
      <4> QED
        BY <4>1
    <3>2. FoldKnownAbsent(<<layer[i]>>, k, x) = <<layer[i]>>
      BY <1>1, <3>1, AbsentSingle
    <3> QED
      BY <2>2, <3>1, <3>2 DEF Bit
  <2> QED
    BY <2>1, <2>2
<1> DEFINE G == {i \in Nat : i <= n => FoldKnownAbsent(F[i], k, x) = E[i]}
<1>7. 0 \in G
  <2>1. <<>> \in Seq(Part) /\ Len(<<>>) = 0
    OBVIOUS
  <2>2. PICK H : Unfolds(H, <<>>, AbsentAt(<<>>, k), x)
    BY <1>1, <2>1, ReplacedUnfolds
  <2>3. FoldKnownAbsent(<<>>, k, x) = <<>>
    BY <2>1, <2>2, AbsentFold DEF Unfolds
  <2> QED
    BY <1>5, <2>3
<1>8. ASSUME NEW i \in Nat, i \in G PROVE i + 1 \in G
  <2> SUFFICES ASSUME i + 1 <= n PROVE FoldKnownAbsent(F[i + 1], k, x) = E[i + 1]
    OBVIOUS
  <2>1. i + 1 \in 1..n /\ (i + 1) - 1 = i /\ i <= n /\ i \in 0..n
    BY <1>1
  <2> DEFINE s == F[i]
             r == Bit(layer, Q, old, i + 1)
  <2>2. s \in Seq(Part) /\ r \in Seq(Part) /\ F[i + 1] = s \o r
    BY <1>5, <1>6, <2>1
  <2>3. FoldKnownAbsent(s, k, x) = E[i] /\ FoldKnownAbsent(r, k, x) = Bit(layer, Q, y, i + 1)
    BY <1>6, <1>8, <2>1
  <2>4. E[i + 1] = E[i] \o Bit(layer, Q, y, i + 1)
    BY <1>5, <2>1
  <2>5. F[i + 1] = Cat(s, r) /\ E[i + 1] = Cat(E[i], Bit(layer, Q, y, i + 1))
    BY <2>2, <2>4 DEF Cat
  <2> HIDE DEF s, r
  <2>6. FoldKnownAbsent(Cat(s, r), k, x) = Cat(FoldKnownAbsent(s, k, x), FoldKnownAbsent(r, k, x))
    BY <1>1, <2>2, AbsentConcat
  <2> QED
    BY <2>3, <2>5, <2>6
<1> HIDE DEF G
<1>9. n \in G
  BY <1>1, <1>7, <1>8, SetInduction
<1> QED
  BY <1>1, <1>5, <1>9 DEF G
-----------------------------------------------------------------------------
(* Documents one assignment after the other.                               *)
Longer(e, a) == Append(e, a)

LEMMA AppendParts ==
    ASSUME NEW e \in Seq(Assignment), NEW a \in Assignment
    PROVE  LET w == Longer(e, a)
           IN  /\ w \in Seq(Assignment) /\ Len(e) \in Nat /\ Len(w) = Len(e) + 1
               /\ DOMAIN e = 1..Len(e) /\ DOMAIN w = 1..(Len(e) + 1)
               /\ \A i \in 1..Len(e) : w[i] = e[i]
               /\ w[Len(e) + 1] = a
               /\ KeysOf(w) = KeysOf(e) \cup {a.key}
               /\ a.key \in Keys /\ a.layer \in Layer /\ Written(a.layer)
<1> DEFINE w == Longer(e, a)
           n == Len(e)
<1>1. /\ w \in Seq(Assignment) /\ n \in Nat /\ Len(w) = n + 1 /\ DOMAIN e = 1..n /\ DOMAIN w = 1..(n + 1)
      /\ \A i \in 1..n : w[i] = e[i]
      /\ w[n + 1] = a
  BY DEF Longer
<1>2. \A i \in 1..(n + 1) : i \in 1..n \/ i = n + 1
  BY <1>1
<1>3. 1..n \subseteq 1..(n + 1) /\ n + 1 \in 1..(n + 1)
  BY <1>1
<1> HIDE DEF n, w
<1>4. KeysOf(w) = KeysOf(e) \cup {a.key}
  BY <1>1, <1>2, <1>3 DEF KeysOf
<1>5. a.key \in Keys /\ a.layer \in Layer /\ Written(a.layer)
  BY DEF Assignment
<1> QED
  BY <1>1, <1>4, <1>5 DEF n, w

LEMMA DocumentInduction ==
    ASSUME NEW G, <<>> \in G,
           \A e \in Seq(Assignment), a \in Assignment : e \in G => Longer(e, a) \in G
    PROVE  \A e \in Seq(Assignment) : e \in G
<1> DEFINE N == {n \in Nat : \A e \in Seq(Assignment) : Len(e) = n => e \in G}
<1>1. 0 \in N
  <2>1. \A e \in Seq(Assignment) : Len(e) = 0 => e = <<>>
    OBVIOUS
  <2> QED
    BY <2>1
<1>2. ASSUME NEW n \in Nat, n \in N PROVE n + 1 \in N
  <2> SUFFICES ASSUME NEW e \in Seq(Assignment), Len(e) = n + 1 PROVE e \in G
    OBVIOUS
  <2>1. e # <<>>
    OBVIOUS
  <2>2. PICK s \in Seq(Assignment), a \in Assignment : e = Longer(s, a)
    BY <2>1, SequenceEmptyOrAppend DEF Longer
  <2>3. Len(s) = n
    <3>1. Len(s) \in Nat /\ Len(e) = Len(s) + 1
      BY <2>2, AppendParts
    <3> QED
      BY <3>1
  <2> QED
    BY <1>2, <2>2, <2>3
<1> HIDE DEF N
<1>3. \A n \in Nat : n \in N
  BY <1>1, <1>2, SetInduction
<1> QED
  BY <1>3 DEF N

LEMMA BuiltAppend ==
    ASSUME NEW e \in Seq(Assignment), NEW a \in Assignment, NEW w, w = Longer(e, a)
    PROVE  /\ Built(w) = Assign(Built(e), a.key, a.layer)
           /\ Built(e) \in BuiltTrees /\ Built(w) \in BuiltTrees
           /\ DOMAIN Built(e).fields = KeysOf(e)
<1> DEFINE n == Len(e)
<1>1. /\ w \in Seq(Assignment) /\ n \in Nat /\ Len(w) = n + 1
      /\ \A i \in 1..n : w[i] = e[i]
      /\ w[n + 1] = a
  BY AppendParts
<1>2. /\ Building(e)[0] = EmptyTree
      /\ \A i \in 0..n : Building(e)[i] \in BuiltTrees
      /\ \A i \in 1..n : Building(e)[i] = Assign(Building(e)[i - 1], e[i].key, e[i].layer)
  BY BuildingSteps
<1>3. /\ Building(w)[0] = EmptyTree
      /\ \A i \in 0..(n + 1) : Building(w)[i] \in BuiltTrees
      /\ \A i \in 1..(n + 1) : Building(w)[i] = Assign(Building(w)[i - 1], w[i].key, w[i].layer)
  BY <1>1, BuildingSteps
<1> HIDE DEF n
<1> DEFINE G == {i \in Nat : i <= n => Building(w)[i] = Building(e)[i]}
<1>4. 0 \in G
  BY <1>2, <1>3
<1>5. ASSUME NEW i \in Nat, i \in G PROVE i + 1 \in G
  <2> SUFFICES ASSUME i + 1 <= n PROVE Building(w)[i + 1] = Building(e)[i + 1]
    OBVIOUS
  <2>1. i + 1 \in 1..n /\ i + 1 \in 1..(n + 1) /\ (i + 1) - 1 = i /\ i <= n
    BY <1>1
  <2>2. Building(w)[i] = Building(e)[i] /\ w[i + 1] = e[i + 1]
    BY <1>1, <1>5, <2>1
  <2> QED
    BY <1>2, <1>3, <2>1, <2>2
<1> HIDE DEF G
<1>6. n \in G
  BY <1>1, <1>4, <1>5, SetInduction
<1>7. Building(w)[n] = Building(e)[n]
  BY <1>1, <1>6 DEF G
<1>8. n + 1 \in 1..(n + 1) /\ (n + 1) - 1 = n /\ n \in 0..n /\ n + 1 \in 0..(n + 1)
  BY <1>1
<1>9. Building(w)[n + 1] = Assign(Building(e)[n], a.key, a.layer)
  BY <1>1, <1>3, <1>7, <1>8
<1>10. DOMAIN Built(e).fields = KeysOf(e)
  BY BuildsTrees
<1> QED
  BY <1>1, <1>2, <1>3, <1>8, <1>9, <1>10 DEF Built, n

LEMMA BuiltSound ==
    ASSUME NEW e \in Seq(Assignment)
    PROVE  Built(e) \in BuiltTrees /\ DOMAIN Built(e).fields = KeysOf(e) /\ KeysOf(e) \in SUBSET Keys
<1>1. Len(e) \in 0..Len(e)
  OBVIOUS
<1>2. Built(e) \in BuiltTrees
  BY <1>1, BuildingSteps DEF Built
<1>3. DOMAIN Built(e).fields = KeysOf(e)
  BY BuildsTrees
<1> QED
  BY <1>2, <1>3, BuiltParts

LEMMA EmptyDocument ==
    <<>> \in Seq(Assignment) /\ Len(<<>>) = 0 /\ KeysOf(<<>>) = {} /\ Built(<<>>) = EmptyTree
<1>1. <<>> \in Seq(Assignment) /\ Len(<<>>) = 0 /\ DOMAIN <<>> = {}
  OBVIOUS
<1>2. Built(<<>>) = Building(<<>>)[0]
  BY <1>1 DEF Built
<1>3. Building(<<>>)[0] = EmptyTree
  BY <1>1, BuildingSteps
<1> QED
  BY <1>1, <1>2, <1>3 DEF KeysOf

(* A layer is saved as nothing only if nothing was saved before, so        *)
(* assigning a key makes what was saved its prior.                         *)
Loose(x, k) == x = NoPrior \/ (x \in Layer /\ ~ContainsSubst(x, k))

LEMMA FoldNone ==
    ASSUME NEW layer \in Layer, NEW k, NEW old, Loose(old, k)
    PROVE  /\ Loose(FoldOrSkipPrior(layer, k, old), k)
           /\ FoldOrSkipPrior(layer, k, old) = NoPrior => old = NoPrior /\ ContainsSubst(layer, k)
<1>1. layer # NoPrior
  BY DEF Layer, NoPrior
<1>2. Loose(FoldOrSkipPrior(layer, k, old), k)
  BY SavedLayer DEF Loose
<1>3. old # NoPrior => FoldSelfRef(layer, k, old) # NoPrior
  <2>1. old # NoPrior => FoldSelfRef(layer, k, old) \in Layer
    BY FoldedLayer DEF Loose
  <2> QED
    BY <2>1 DEF Layer, NoPrior
<1> QED
  BY <1>1, <1>2, <1>3 DEF FoldOrSkipPrior

LEMMA SavedNone ==
    ASSUME NEW t \in BuiltTrees, NEW k
    PROVE  /\ Loose(OldPrior(t, k), k) /\ Loose(Saved(t, k), k)
           /\ Saved(t, k) = NoPrior => OldPrior(t, k) = NoPrior
           /\ k \notin DOMAIN t.fields => OldPrior(t, k) = NoPrior /\ Saved(t, k) = NoPrior
           /\ OldPrior(t, k) = NoPrior <=> k \notin DOMAIN t.priors
<1>1. /\ DOMAIN t.priors \in SUBSET DOMAIN t.fields /\ t.fields \in [DOMAIN t.fields -> Layer]
      /\ t.priors \in [DOMAIN t.priors -> Layer]
      /\ \A j \in DOMAIN t.fields : OldPrior(t, j) = NoPrior \/
             (OldPrior(t, j) \in Layer /\ ~ContainsSubst(OldPrior(t, j), j))
  BY BuiltParts
<1>2. NoPrior \notin Layer
  BY DEF Layer, NoPrior
<1>3. CASE k \notin DOMAIN t.fields
  BY <1>1, <1>3 DEF Saved, OldPrior, Loose
<1>4. CASE k \in DOMAIN t.fields
  <2>1. t.fields[k] \in Layer /\ Loose(OldPrior(t, k), k)
    BY <1>1, <1>4 DEF Loose
  <2>2. Saved(t, k) = FoldOrSkipPrior(t.fields[k], k, OldPrior(t, k))
    BY <1>4 DEF Saved
  <2>3. Loose(Saved(t, k), k) /\ (Saved(t, k) = NoPrior => OldPrior(t, k) = NoPrior)
    BY <2>1, <2>2, FoldNone
  <2>4. OldPrior(t, k) = NoPrior <=> k \notin DOMAIN t.priors
    BY <1>1, <1>2 DEF OldPrior
  <2> QED
    BY <1>4, <2>1, <2>3, <2>4
<1> QED
  BY <1>3, <1>4

LEMMA PriorsAssigned ==
    ASSUME NEW t \in BuiltTrees, NEW j \in Keys, NEW layer \in Layer, NEW u, u = Assign(t, j, layer)
    PROVE  /\ OldPrior(u, j) = Saved(t, j)
           /\ \A k : k # j => OldPrior(u, k) = OldPrior(t, k) /\ Saved(u, k) = Saved(t, k)
<1>1. /\ Saved(t, j) = NoPrior => u.priors = t.priors
      /\ Saved(t, j) # NoPrior => (j \in DOMAIN u.priors /\ u.priors[j] = Saved(t, j))
      /\ \A k : k # j => /\ k \in DOMAIN u.priors <=> k \in DOMAIN t.priors
                         /\ k \in DOMAIN t.priors => u.priors[k] = t.priors[k]
  BY PriorsAfter
<1>2. /\ DOMAIN u.fields = DOMAIN t.fields \cup {j}
      /\ \A k \in DOMAIN t.fields : k # j => u.fields[k] = t.fields[k]
  BY AssignParts
<1>3. Saved(t, j) = NoPrior => OldPrior(t, j) = NoPrior
  BY SavedNone
<1>4. OldPrior(u, j) = Saved(t, j)
  BY <1>1, <1>3 DEF OldPrior
<1>5. ASSUME NEW k, k # j PROVE OldPrior(u, k) = OldPrior(t, k)
  BY <1>1, <1>5 DEF OldPrior
<1>6. ASSUME NEW k, k # j PROVE Saved(u, k) = Saved(t, k)
  BY <1>2, <1>5, <1>6 DEF Saved
<1> QED
  BY <1>4, <1>5, <1>6
-----------------------------------------------------------------------------
(* The first and the last layer of a key, and whether it is set anew, as   *)
(* assignments are added.                                                  *)
IsFirst(e, k, i) == i \in Of(e, k) /\ \A j \in Of(e, k) : i <= j
IsLast(e, k, i) == i \in Of(e, k) /\ \A j \in Of(e, k) : j <= i
HasEnds(e, k) == k \in KeysOf(e) =>
    /\ IsFirst(e, k, First(e, k)) /\ IsLast(e, k, Last(e, k))
    /\ Built(e).fields[k] = e[Last(e, k)].layer

LEMMA EndsAre ==
    ASSUME NEW e \in Seq(Assignment), NEW k
    PROVE  /\ \A i : IsFirst(e, k, i) => First(e, k) = i
           /\ \A i : IsLast(e, k, i) => Last(e, k) = i
           /\ Of(e, k) \subseteq 1..Len(e)
           /\ k \in KeysOf(e) <=> Of(e, k) # {}
<1>1. Of(e, k) \subseteq 1..Len(e) /\ Len(e) \in Nat
  BY DEF Of
<1>2. ASSUME NEW i, IsFirst(e, k, i) PROVE First(e, k) = i
  <2>1. \A j \in Of(e, k) : (\A m \in Of(e, k) : j <= m) => j = i
    BY <1>1, <1>2 DEF IsFirst
  <2> QED
    BY <1>2, <2>1 DEF First, IsFirst
<1>3. ASSUME NEW i, IsLast(e, k, i) PROVE Last(e, k) = i
  <2>1. \A j \in Of(e, k) : (\A m \in Of(e, k) : m <= j) => j = i
    BY <1>1, <1>3 DEF IsLast
  <2> QED
    BY <1>3, <2>1 DEF Last, IsLast
<1> QED
  BY <1>1, <1>2, <1>3 DEF Of, KeysOf

LEMMA OfAppend ==
    ASSUME NEW e \in Seq(Assignment), NEW a \in Assignment, NEW w, w = Longer(e, a), NEW k
    PROVE  /\ Of(w, k) = IF a.key = k THEN Of(e, k) \cup {Len(e) + 1} ELSE Of(e, k)
           /\ Of(e, k) \subseteq 1..Len(e) /\ Len(e) \in Nat
           /\ \A i \in Of(e, k) : w[i] = e[i] /\ (RefersBack(w, i) <=> RefersBack(e, i)) /\ i < Len(e) + 1
           /\ w[Len(e) + 1] = a /\ (RefersBack(w, Len(e) + 1) <=> ContainsSubst(a.layer, a.key))
<1> DEFINE n == Len(e)
<1>1. /\ n \in Nat /\ DOMAIN e = 1..n /\ DOMAIN w = 1..(n + 1)
      /\ \A i \in 1..n : w[i] = e[i]
      /\ w[n + 1] = a
  BY AppendParts
<1>2. /\ \A i \in 1..(n + 1) : i \in 1..n \/ i = n + 1
      /\ 1..n \subseteq 1..(n + 1) /\ n + 1 \in 1..(n + 1)
      /\ \A i \in 1..n : i < n + 1
  BY <1>1
<1> HIDE DEF n
<1>3. Of(e, k) \subseteq 1..n
  BY <1>1 DEF Of
<1>4. Of(w, k) = IF a.key = k THEN Of(e, k) \cup {n + 1} ELSE Of(e, k)
  BY <1>1, <1>2 DEF Of
<1> QED
  BY <1>1, <1>2, <1>3, <1>4 DEF n, RefersBack

LEMMA EndsAppend ==
    ASSUME NEW e \in Seq(Assignment), NEW a \in Assignment, NEW w, w = Longer(e, a), NEW k,
           HasEnds(e, k)
    PROVE  /\ k \in KeysOf(w) =>
                  /\ IsFirst(w, k, IF k \in KeysOf(e) THEN First(e, k) ELSE Len(e) + 1)
                  /\ IsLast(w, k, IF k = a.key THEN Len(e) + 1 ELSE Last(e, k))
           /\ k \in KeysOf(e) =>
                  /\ First(e, k) \in Of(e, k) /\ Last(e, k) \in Of(e, k)
                  /\ First(w, k) = First(e, k) /\ w[First(w, k)] = e[First(e, k)]
           /\ HasEnds(w, k)
<1> DEFINE n == Len(e)
<1>1. /\ Of(w, k) = IF a.key = k THEN Of(e, k) \cup {n + 1} ELSE Of(e, k)
      /\ Of(e, k) \subseteq 1..n /\ n \in Nat
      /\ \A i \in Of(e, k) : w[i] = e[i] /\ i < n + 1
      /\ w[n + 1] = a
  BY OfAppend
<1>2. w \in Seq(Assignment) /\ KeysOf(w) = KeysOf(e) \cup {a.key} /\ a.key \in Keys /\ a.layer \in Layer
  BY AppendParts
<1>3. k \in KeysOf(e) <=> Of(e, k) # {}
  BY EndsAre
<1>4. k \in KeysOf(e) => IsFirst(e, k, First(e, k)) /\ IsLast(e, k, Last(e, k))
  BY DEF HasEnds
<1> HIDE DEF n
<1>5. ASSUME k \in KeysOf(w)
      PROVE  /\ IsFirst(w, k, IF k \in KeysOf(e) THEN First(e, k) ELSE n + 1)
             /\ IsLast(w, k, IF k = a.key THEN n + 1 ELSE Last(e, k))
  <2>1. CASE k # a.key
    <3>1. k \in KeysOf(e) /\ Of(w, k) = Of(e, k)
      BY <1>1, <1>2, <1>5, <2>1
    <3> QED
      BY <1>4, <2>1, <3>1 DEF IsFirst, IsLast
  <2>2. CASE k = a.key /\ k \notin KeysOf(e)
    <3>1. Of(w, k) = {n + 1} /\ n + 1 <= n + 1
      BY <1>1, <1>3, <2>2
    <3> QED
      BY <2>2, <3>1 DEF IsFirst, IsLast
  <2>3. CASE k = a.key /\ k \in KeysOf(e)
    <3>1. Of(w, k) = Of(e, k) \cup {n + 1} /\ n + 1 <= n + 1
      BY <1>1, <2>3
    <3>2. /\ First(e, k) \in Of(e, k) /\ \A j \in Of(e, k) : First(e, k) <= j
          /\ \A j \in Of(e, k) : j <= n + 1
      BY <1>1, <1>4, <2>3 DEF IsFirst
    <3>3. First(e, k) <= n + 1
      BY <3>2
    <3> QED
      BY <2>3, <3>1, <3>2, <3>3 DEF IsFirst, IsLast
  <2> QED
    BY <2>1, <2>2, <2>3
<1>6. k \in KeysOf(w) =>
          /\ First(w, k) = IF k \in KeysOf(e) THEN First(e, k) ELSE n + 1
          /\ Last(w, k) = IF k = a.key THEN n + 1 ELSE Last(e, k)
  BY <1>2, <1>5, EndsAre
<1>7. k \in KeysOf(e) => First(e, k) \in Of(e, k) /\ Last(e, k) \in Of(e, k)
  BY <1>4 DEF IsFirst, IsLast
<1>8. k \in KeysOf(w) => Built(w).fields[k] = w[Last(w, k)].layer
  <2>1. /\ Built(w) = Assign(Built(e), a.key, a.layer) /\ Built(e) \in BuiltTrees
        /\ DOMAIN Built(e).fields = KeysOf(e)
    BY BuiltAppend
  <2> DEFINE t == Built(e)
             u == Built(w)
  <2>2. /\ t \in BuiltTrees /\ u = Assign(t, a.key, a.layer) /\ DOMAIN t.fields = KeysOf(e)
        /\ k \in KeysOf(e) => t.fields[k] = e[Last(e, k)].layer
    BY <2>1 DEF HasEnds
  <2> HIDE DEF t, u
  <2>3. u.fields[a.key] = a.layer /\ \A j \in KeysOf(e) : j # a.key => u.fields[j] = t.fields[j]
    BY <1>2, <2>2, AssignParts
  <2>4. k \in KeysOf(w) => u.fields[k] = w[Last(w, k)].layer
    BY <1>1, <1>2, <1>6, <1>7, <2>2, <2>3
  <2> QED
    BY <2>4 DEF u
<1> QED
  BY <1>1, <1>2, <1>5, <1>6, <1>7, <1>8 DEF n, HasEnds

LEMMA DocumentEnds ==
    ASSUME NEW e \in Seq(Assignment), NEW k
    PROVE  HasEnds(e, k)
<1> DEFINE G == {d \in Seq(Assignment) : HasEnds(d, k)}
<1>1. <<>> \in G
  BY EmptyDocument DEF HasEnds
<1>2. ASSUME NEW d \in Seq(Assignment), NEW a \in Assignment, d \in G PROVE Longer(d, a) \in G
  <2> DEFINE w == Longer(d, a)
  <2>1. HasEnds(d, k) /\ w = Longer(d, a) /\ w \in Seq(Assignment)
    BY <1>2, AppendParts
  <2> HIDE DEF w
  <2>2. HasEnds(w, k)
    BY <2>1, EndsAppend
  <2> QED
    BY <2>1, <2>2
<1> HIDE DEF G
<1>3. e \in G
  BY <1>1, <1>2, DocumentInduction
<1> QED
  BY <1>3 DEF G

(* What the conditions of a seam are made of.                              *)
LEMMA SettlesParts ==
    ASSUME NEW e \in Seq(Assignment), NEW k
    PROVE  /\ k \notin KeysOf(e) => ~Settles(e, k) /\ ~SettlesBelow(e, k)
           /\ k \in KeysOf(e) =>
                  /\ Settles(e, k) <=> SettlesBelow(e, k) \/ ~ContainsSubst(Built(e).fields[k], k)
                  /\ RefersBack(e, Last(e, k)) <=> ContainsSubst(Built(e).fields[k], k)
                  /\ Single(e, k) => /\ ~SettlesBelow(e, k)
                                     /\ e[First(e, k)].layer = Built(e).fields[k]
<1>1. k \in KeysOf(e) =>
          /\ IsFirst(e, k, First(e, k)) /\ IsLast(e, k, Last(e, k))
          /\ Built(e).fields[k] = e[Last(e, k)].layer
  BY DocumentEnds DEF HasEnds
<1>2. (k \in KeysOf(e) <=> Of(e, k) # {}) /\ Of(e, k) \subseteq 1..Len(e) /\ Len(e) \in Nat
  BY EndsAre
<1>3. \A i \in Of(e, k) : e[i].key = k
  BY DEF Of
<1>4. CASE k \notin KeysOf(e)
  BY <1>2, <1>4 DEF Settles, SettlesBelow
<1>5. CASE k \in KeysOf(e)
  <2>1. First(e, k) \in Of(e, k) /\ Last(e, k) \in Of(e, k)
    BY <1>1, <1>5 DEF IsFirst, IsLast
  <2>2. RefersBack(e, Last(e, k)) <=> ContainsSubst(Built(e).fields[k], k)
    BY <1>1, <1>3, <1>5, <2>1 DEF RefersBack
  <2>3. Settles(e, k) <=> SettlesBelow(e, k) \/ ~ContainsSubst(Built(e).fields[k], k)
    BY <2>1, <2>2 DEF Settles, SettlesBelow
  <2>4. Single(e, k) => \A i \in Of(e, k) : i = Last(e, k)
    BY <1>1, <1>2, <1>5, <2>1 DEF Single, IsFirst, IsLast
  <2> QED
    BY <1>1, <1>5, <2>2, <2>3, <2>4 DEF Single, SettlesBelow
<1> QED
  BY <1>4, <1>5

LEMMA SettlesAppend ==
    ASSUME NEW e \in Seq(Assignment), NEW a \in Assignment, NEW w, w = Longer(e, a), NEW k
    PROVE  /\ Settles(w, k) <=> Settles(e, k) \/ (k = a.key /\ ~ContainsSubst(a.layer, k))
           /\ k \in KeysOf(e) => (Foldable(w, k) <=> Foldable(e, k))
           /\ k \in KeysOf(e) /\ k # a.key =>
                  /\ SettlesBelow(w, k) <=> SettlesBelow(e, k)
                  /\ Single(w, k) <=> Single(e, k)
           /\ k \in KeysOf(e) /\ k = a.key => ~Single(w, k) /\ (SettlesBelow(w, k) <=> Settles(e, k))
           /\ k \notin KeysOf(e) /\ k = a.key => Single(w, k)
<1> DEFINE n == Len(e)
<1>1. /\ Of(w, k) = IF a.key = k THEN Of(e, k) \cup {n + 1} ELSE Of(e, k)
      /\ Of(e, k) \subseteq 1..n /\ n \in Nat
      /\ \A i \in Of(e, k) : w[i] = e[i] /\ (RefersBack(w, i) <=> RefersBack(e, i)) /\ i < n + 1
      /\ RefersBack(w, n + 1) <=> ContainsSubst(a.layer, a.key)
  BY OfAppend
<1>2. w \in Seq(Assignment) /\ KeysOf(w) = KeysOf(e) \cup {a.key}
  BY AppendParts
<1>3. /\ k \in KeysOf(w) =>
             /\ IsFirst(w, k, IF k \in KeysOf(e) THEN First(e, k) ELSE n + 1)
             /\ IsLast(w, k, IF k = a.key THEN n + 1 ELSE Last(e, k))
      /\ k \in KeysOf(e) =>
             /\ First(e, k) \in Of(e, k) /\ Last(e, k) \in Of(e, k)
             /\ First(w, k) = First(e, k) /\ w[First(w, k)] = e[First(e, k)]
  BY DocumentEnds, EndsAppend
<1>4. k \in KeysOf(w) =>
          /\ First(w, k) = IF k \in KeysOf(e) THEN First(e, k) ELSE n + 1
          /\ Last(w, k) = IF k = a.key THEN n + 1 ELSE Last(e, k)
  BY <1>2, <1>3, EndsAre
<1> HIDE DEF n
<1>5. Settles(w, k) <=> Settles(e, k) \/ (k = a.key /\ ~ContainsSubst(a.layer, k))
  BY <1>1 DEF Settles
<1>6. k \in KeysOf(e) => (Foldable(w, k) <=> Foldable(e, k))
  BY <1>3 DEF Foldable
<1>7. ASSUME k \in KeysOf(e), k # a.key
      PROVE  (SettlesBelow(w, k) <=> SettlesBelow(e, k)) /\ (Single(w, k) <=> Single(e, k))
  <2>1. Of(w, k) = Of(e, k) /\ First(w, k) = First(e, k) /\ Last(w, k) = Last(e, k)
    BY <1>1, <1>2, <1>3, <1>4, <1>7
  <2> QED
    BY <1>1, <2>1 DEF SettlesBelow, Single
<1>8. ASSUME k \in KeysOf(e), k = a.key
      PROVE  ~Single(w, k) /\ (SettlesBelow(w, k) <=> Settles(e, k))
  <2>1. /\ Of(w, k) = Of(e, k) \cup {n + 1} /\ First(w, k) \in Of(e, k) /\ Last(w, k) = n + 1
        /\ \A i \in Of(e, k) : i # n + 1
    BY <1>1, <1>2, <1>3, <1>4, <1>8
  <2>2. ~Single(w, k)
    BY <2>1 DEF Single
  <2>3. SettlesBelow(w, k) <=> Settles(e, k)
    BY <1>1, <2>1 DEF SettlesBelow, Settles
  <2> QED
    BY <2>2, <2>3
<1>9. k \notin KeysOf(e) /\ k = a.key => Single(w, k)
  BY <1>2, <1>4 DEF Single
<1> QED
  BY <1>5, <1>6, <1>7, <1>8, <1>9

-----------------------------------------------------------------------------
(* The order of the keys, when those of another order are added.           *)
Has(s, x) == \E i \in 1..Len(s) : s[i] = x
Distinct(s) == \A i, j \in 1..Len(s) : s[i] = s[j] => i = j

LEMMA WithKeyParts ==
    ASSUME NEW S, NEW s \in Seq(S), NEW k \in S
    PROVE  LET r == WithKey(s, k)
           IN  /\ r \in Seq(S)
               /\ Distinct(s) => Distinct(r)
               /\ Has(r, k) /\ \A x : Has(s, x) => Has(r, x)
<1> DEFINE r == WithKey(s, k)
           n == Len(s)
<1>1. n \in Nat /\ DOMAIN s = 1..n
  OBVIOUS
<1>2. CASE Has(s, k)
  BY <1>1, <1>2 DEF WithKey, Has
<1>3. CASE ~Has(s, k)
  <2>1. r = Append(s, k)
    BY <1>1, <1>3 DEF WithKey, Has
  <2>2. /\ r \in Seq(S) /\ Len(r) = n + 1
        /\ \A i \in 1..n : r[i] = s[i] /\ i \in 1..(n + 1)
        /\ r[n + 1] = k /\ n + 1 \in 1..(n + 1)
    BY <2>1
  <2>3. \A i \in 1..(n + 1) : i \in 1..n \/ i = n + 1
    BY <1>1
  <2> HIDE DEF n, r
  <2>4. Has(r, k) /\ \A x : Has(s, x) => Has(r, x)
    BY <2>2 DEF Has, n
  <2>5. ASSUME Distinct(s) PROVE Distinct(r)
    <3> SUFFICES ASSUME NEW i \in 1..(n + 1), NEW j \in 1..(n + 1), r[i] = r[j] PROVE i = j
      BY <2>2 DEF Distinct
    <3>1. \A m \in 1..n : s[m] # k
      BY <1>3 DEF Has, n
    <3>2. \A m, q \in 1..n : s[m] = s[q] => m = q
      BY <2>5 DEF Distinct, n
    <3> QED
      BY <2>2, <2>3, <3>1, <3>2
  <2> QED
    BY <2>2, <2>4, <2>5 DEF r
<1> QED
  BY <1>2, <1>3

Orders(F, S, o, m) ==
    /\ F \in [0..Len(m) -> Seq(S)] /\ F[0] = o
    /\ \A i \in 1..Len(m) : F[i] = WithKey(F[i - 1], m[i])
    /\ WithKeys(o, m) = F[Len(m)]

LEMMA WithKeysSteps ==
    ASSUME NEW S, NEW o \in Seq(S), NEW m \in Seq(S)
    PROVE  \E F : Orders(F, S, o, m)
<1> DEFINE n == Len(m)
           T == Seq(S)
           h == [i \in Nat |-> [x \in T |-> IF i + 1 \in 1..n THEN WithKey(x, m[i + 1]) ELSE x]]
           Solves(g) == g = [i \in 0..n |-> IF i = 0 THEN o ELSE WithKey(g[i - 1], m[i])]
           F == CHOOSE g : Solves(g)
<1>1. n \in Nat /\ \A i \in 1..n : m[i] \in S
  OBVIOUS
<1>2. ASSUME NEW i \in 1..n, NEW x \in T PROVE WithKey(x, m[i]) \in T
  <2>1. m[i] \in S
    BY <1>1
  <2> QED
    BY <2>1, WithKeyParts
<1>3. o \in T
  OBVIOUS
<1>4. h \in [Nat -> [T -> T]]
  <2> HIDE DEF T, n
  <2> QED
    BY <1>2
<1>5. PICK E : E \in Partial(T, o, h, n)
  <2> HIDE DEF h, T, n
  <2>1. \A q \in Nat : Partial(T, o, h, q) # {}
    BY <1>3, <1>4, PartialExists
  <2> QED
    BY <1>1, <2>1
<1>6. E \in [0..n -> T] /\ E[0] = o /\ \A i \in 0..(n - 1) : E[i + 1] = h[i][E[i]]
  <2> HIDE DEF h, T, n
  <2> QED
    BY <1>5 DEF Partial
<1>7. ASSUME NEW i \in 1..n PROVE E[i] = WithKey(E[i - 1], m[i])
  <2>1. i - 1 \in 0..n /\ i - 1 \in 0..(n - 1) /\ (i - 1) + 1 = i /\ i - 1 \in Nat
    BY <1>1
  <2>2. E[i - 1] \in T /\ E[i] = h[i - 1][E[i - 1]]
    <3> HIDE DEF h, T, n
    <3> QED
      BY <1>6, <2>1
  <2> HIDE DEF T
  <2> QED
    BY <2>1, <2>2
<1> HIDE DEF h
<1>8. Solves(E)
  <2>1. ASSUME NEW i \in 0..n PROVE E[i] = IF i = 0 THEN o ELSE WithKey(E[i - 1], m[i])
    <3>1. CASE i = 0
      BY <1>6, <3>1
    <3>2. CASE i # 0
      <4>1. i \in 1..n
        BY <1>1, <3>2
      <4> QED
        BY <1>7, <3>2, <4>1
    <3> QED
      BY <3>1, <3>2
  <2> HIDE DEF n, T
  <2> QED
    BY <1>6, <2>1
<1>9. Solves(F)
  <2> HIDE DEF Solves
  <2> QED
    BY <1>8
<1>10. WithKeys(o, m) = F[n]
  BY DEF WithKeys
<1> HIDE DEF F
<1>11. F[0] = o /\ \A i \in 1..n : F[i] = WithKey(F[i - 1], m[i])
  <2>1. \A i \in 0..n : F[i] = IF i = 0 THEN o ELSE WithKey(F[i - 1], m[i])
    <3> HIDE DEF n
    <3> QED
      BY <1>9
  <2>2. 0 \in 0..n /\ \A i \in 1..n : i \in 0..n /\ i # 0
    BY <1>1
  <2> QED
    BY <2>1, <2>2
<1> DEFINE G == {i \in Nat : i <= n => F[i] \in T}
<1>12. 0 \in G
  BY <1>3, <1>11
<1>13. ASSUME NEW i \in Nat, i \in G PROVE i + 1 \in G
  <2> SUFFICES ASSUME i + 1 <= n PROVE F[i + 1] \in T
    OBVIOUS
  <2>1. i + 1 \in 1..n /\ (i + 1) - 1 = i /\ i <= n
    BY <1>1
  <2> HIDE DEF T
  <2> QED
    BY <1>2, <1>11, <1>13, <2>1
<1> HIDE DEF G
<1>14. \A i \in Nat : i \in G
  BY <1>12, <1>13, SetInduction
<1>15. F \in [0..n -> T]
  <2>1. F = [i \in 0..n |-> IF i = 0 THEN o ELSE WithKey(F[i - 1], m[i])]
    BY <1>9
  <2> HIDE DEF n
  <2>2. F = [i \in 0..n |-> F[i]]
    BY <2>1
  <2>3. \A i \in 0..n : F[i] \in T
    BY <1>1, <1>14 DEF G
  <2> HIDE DEF T
  <2> QED
    BY <2>2, <2>3
<1> QED
  BY <1>10, <1>11, <1>15 DEF Orders

LEMMA WithKeysAppend ==
    ASSUME NEW S, NEW o \in Seq(S), NEW m \in Seq(S), NEW k \in S
    PROVE  WithKeys(o, Longer(m, k)) = WithKey(WithKeys(o, m), k)
<1> DEFINE n == Len(m)
           r == Longer(m, k)
<1>1. n \in Nat /\ r \in Seq(S) /\ Len(r) = n + 1 /\ (\A i \in 1..n : r[i] = m[i]) /\ r[n + 1] = k
  BY DEF Longer
<1> HIDE DEF r
<1>2. PICK F : Orders(F, S, o, m)
  BY WithKeysSteps
<1>3. PICK E : Orders(E, S, o, r)
  BY <1>1, WithKeysSteps
<1>4. /\ F[0] = o /\ \A i \in 1..n : F[i] = WithKey(F[i - 1], m[i])
      /\ WithKeys(o, m) = F[n]
  BY <1>2 DEF Orders
<1>5. /\ E[0] = o /\ \A i \in 1..(n + 1) : E[i] = WithKey(E[i - 1], r[i])
      /\ WithKeys(o, r) = E[n + 1]
  BY <1>1, <1>3 DEF Orders
<1> HIDE DEF n
<1> DEFINE G == {i \in Nat : i <= n => E[i] = F[i]}
<1>6. 0 \in G
  BY <1>4, <1>5
<1>7. ASSUME NEW i \in Nat, i \in G PROVE i + 1 \in G
  <2> SUFFICES ASSUME i + 1 <= n PROVE E[i + 1] = F[i + 1]
    OBVIOUS
  <2>1. i + 1 \in 1..n /\ i + 1 \in 1..(n + 1) /\ (i + 1) - 1 = i /\ i <= n
    BY <1>1
  <2>2. E[i] = F[i] /\ r[i + 1] = m[i + 1]
    BY <1>1, <1>7, <2>1
  <2> QED
    BY <1>4, <1>5, <2>1, <2>2
<1> HIDE DEF G
<1>8. n \in G
  BY <1>1, <1>6, <1>7, SetInduction
<1>9. E[n] = F[n] /\ n + 1 \in 1..(n + 1) /\ (n + 1) - 1 = n
  BY <1>1, <1>8 DEF G
<1> QED
  BY <1>1, <1>4, <1>5, <1>9 DEF r

LEMMA WithKeysParts ==
    ASSUME NEW S, NEW o \in Seq(S), NEW m \in Seq(S), Distinct(o)
    PROVE  LET r == WithKeys(o, m)
           IN  r \in Seq(S) /\ Distinct(r) /\ \A x : Has(o, x) \/ Has(m, x) => Has(r, x)
<1> DEFINE n == Len(m)
<1>1. n \in Nat /\ \A i \in 1..n : m[i] \in S
  OBVIOUS
<1>2. PICK F : Orders(F, S, o, m)
  BY WithKeysSteps
<1>3. /\ F[0] = o /\ \A i \in 1..n : F[i] = WithKey(F[i - 1], m[i])
      /\ WithKeys(o, m) = F[n]
  BY <1>2 DEF Orders
<1> DEFINE Keeping(s, i) == /\ s \in Seq(S) /\ Distinct(s) /\ \A x : Has(o, x) => Has(s, x)
                         /\ \A j \in 1..i : Has(s, m[j])
           G == {i \in Nat : i <= n => Keeping(F[i], i)}
<1> HIDE DEF n
<1>4. 0 \in G
  BY <1>3
<1>5. ASSUME NEW i \in Nat, i \in G PROVE i + 1 \in G
  <2> SUFFICES ASSUME i + 1 <= n PROVE Keeping(F[i + 1], i + 1)
    <3> HIDE DEF Keeping
    <3> QED
      OBVIOUS
  <2>1. i + 1 \in 1..n /\ (i + 1) - 1 = i /\ i <= n
    BY <1>1
  <2> DEFINE s == F[i]
             k == m[i + 1]
  <2>2. k \in S /\ F[i + 1] = WithKey(s, k)
    BY <1>1, <1>3, <2>1
  <2>3. Keeping(s, i)
    <3> HIDE DEF Keeping
    <3> QED
      BY <1>5, <2>1
  <2>4. \A j \in 1..(i + 1) : j \in 1..i \/ j = i + 1
    OBVIOUS
  <2> DEFINE r == WithKey(s, k)
  <2> HIDE DEF s, k
  <2>5. r \in Seq(S) /\ Distinct(r) /\ Has(r, k) /\ \A x : Has(s, x) => Has(r, x)
    BY <2>2, <2>3, WithKeyParts
  <2> HIDE DEF r
  <2>6. Keeping(r, i + 1)
    BY <2>3, <2>4, <2>5 DEF k
  <2> QED
    BY <2>2, <2>6 DEF r
<1> HIDE DEF G
<1>6. n \in G
  BY <1>1, <1>4, <1>5, SetInduction
<1>7. Keeping(F[n], n)
  BY <1>1, <1>6 DEF G
<1> QED
  BY <1>3, <1>7 DEF Has, n

-----------------------------------------------------------------------------
(* One document after another: x is what the first would save of a key, p  *)
(* the prior of the key in the second, and q the prior in both together.   *)
Continues(k, x, p, q, single, below, foldable) ==
    /\ below => q = p /\ p # NoPrior
    /\ single => p = NoPrior /\ q = x
    /\ ~single /\ x = NoPrior => q = p
    /\ ~single /\ ~below /\ x # NoPrior /\ foldable => p # NoPrior /\ q = FoldKnownAbsent(p, k, x)
    /\ x # NoPrior \/ p # NoPrior => q # NoPrior

LEMMA ContinuesStep ==
    ASSUME NEW k, NEW x, NEW p, NEW q, NEW single \in BOOLEAN, NEW below \in BOOLEAN,
           NEW foldable \in BOOLEAN, Loose(x, k), Loose(p, k), Loose(q, k),
           NEW layer \in Layer, Written(layer), Continues(k, x, p, q, single, below, foldable),
           single /\ foldable => FoldOptionalSelfRefAbsent(layer, k) # NoPrior,
           NEW alone \in BOOLEAN, ~alone,
           NEW settles \in BOOLEAN, settles <=> below \/ ~ContainsSubst(layer, k)
    PROVE  Continues(k, x, FoldOrSkipPrior(layer, k, p), FoldOrSkipPrior(layer, k, q),
                     alone, settles, foldable)
<1> DEFINE u == FoldOrSkipPrior(layer, k, p)
           v == FoldOrSkipPrior(layer, k, q)
<1>1. /\ u = NoPrior => p = NoPrior /\ ContainsSubst(layer, k)
      /\ v = NoPrior => q = NoPrior /\ ContainsSubst(layer, k)
  BY FoldNone
<1>2. settles => u = v /\ u # NoPrior
  <2>1. CASE below
    <3>1. q = p /\ p # NoPrior
      BY <2>1 DEF Continues
    <3> QED
      BY <1>1, <3>1
  <2>2. CASE ~ContainsSubst(layer, k)
    <3>1. u = layer /\ v = layer
      BY <2>2 DEF FoldOrSkipPrior
    <3> QED
      BY <1>1, <2>2, <3>1
  <2> QED
    BY <2>1, <2>2
<1>3. x = NoPrior => p = q
  BY DEF Continues
<1>4. ASSUME ~settles, x # NoPrior, foldable PROVE u # NoPrior /\ v = FoldKnownAbsent(u, k, x)
  <2>1. ContainsSubst(layer, k) /\ x \in Layer /\ ~ContainsSubst(x, k) /\ x # NoPrior
    BY <1>4 DEF Loose
  <2>2. CASE single
    <3>1. p = NoPrior /\ q = x
      BY <2>2 DEF Continues
    <3>2. u = FoldOptionalSelfRefAbsent(layer, k) /\ v = FoldSelfRef(layer, k, x)
      BY <2>1, <3>1 DEF FoldOrSkipPrior
    <3>3. u # NoPrior
      BY <1>4, <2>2, <3>2
    <3> HIDE DEF u
    <3>4. FoldKnownAbsent(u, k, x) = FoldSelfRef(layer, k, x)
      BY <2>1, <3>2, <3>3, AbsentOfMarked
    <3> QED
      BY <3>2, <3>3, <3>4
  <2>3. CASE ~single
    <3>1. p # NoPrior /\ q = FoldKnownAbsent(p, k, x)
      BY <1>4, <2>3 DEF Continues
    <3>2. p \in Layer /\ q \in Layer
      <4>1. q # NoPrior
        BY <1>4 DEF Continues
      <4> QED
        BY <3>1, <4>1 DEF Loose
    <3>3. u = FoldSelfRef(layer, k, p) /\ v = FoldSelfRef(layer, k, q)
      <4>1. q # NoPrior
        BY <3>2 DEF Layer, NoPrior
      <4> QED
        BY <2>1, <3>1, <4>1 DEF FoldOrSkipPrior
    <3>4. FoldKnownAbsent(FoldSelfRef(layer, k, p), k, x) = FoldSelfRef(layer, k, q)
      BY <2>1, <3>1, <3>2, AbsentOfFolded
    <3> QED
      BY <1>1, <3>1, <3>3, <3>4
  <2> QED
    BY <2>2, <2>3
<1>5. x # NoPrior \/ u # NoPrior => v # NoPrior
  <2>1. CASE q # NoPrior
    BY <1>1, <2>1
  <2>2. CASE q = NoPrior
    <3>1. x = NoPrior /\ p = NoPrior
      BY <2>2 DEF Continues
    <3> QED
      BY <2>2, <3>1
  <2> QED
    BY <2>1, <2>2
<1> HIDE DEF u, v
<1>6. x = NoPrior => u = v
  BY <1>3 DEF u, v
<1>7. Continues(k, x, u, v, alone, settles, foldable)
  BY <1>2, <1>4, <1>5, <1>6 DEF Continues
<1> QED
  BY <1>7 DEF u, v

LEMMA CatLonger ==
    ASSUME NEW d \in Seq(Assignment), NEW e \in Seq(Assignment), NEW a \in Assignment
    PROVE  /\ Cat(d, e) \in Seq(Assignment)
           /\ Cat(d, Longer(e, a)) = Longer(Cat(d, e), a)
<1>1. Cat(d, e) \in Seq(Assignment)
  BY ConcatProperties DEF Cat
<1>2. <<a>> \in Seq(Assignment)
  OBVIOUS
<1>3. \A s \in Seq(Assignment) : Longer(s, a) = Cat(s, <<a>>)
  <2> SUFFICES ASSUME NEW s \in Seq(Assignment) PROVE Append(s, a) = s \o <<a>>
    BY DEF Longer, Cat
  <2> QED
    BY AppendIsConcat, SMTT(40)
<1>4. \A s, r, z \in Seq(Assignment) : Cat(Cat(s, r), z) = Cat(s, Cat(r, z))
  BY ConcatAssociative DEF Cat
<1>5. Cat(d, Longer(e, a)) = Cat(d, Cat(e, <<a>>))
  BY <1>3
<1>6. Longer(Cat(d, e), a) = Cat(Cat(d, e), <<a>>)
  BY <1>1, <1>3
<1> QED
  BY <1>1, <1>2, <1>4, <1>5, <1>6

LEMMA CatEmpty ==
    ASSUME NEW d \in Seq(Assignment)
    PROVE  Cat(d, <<>>) = d
  BY ConcatEmptySeq DEF Cat

(* What the assignments of e do to the keys after those of d.              *)
AddsKey(d, e, k) ==
    LET t == Built(Cat(d, e))
    IN  IF k \in KeysOf(e)
        THEN /\ t.fields[k] = Built(e).fields[k]
             /\ Continues(k, Saved(Built(d), k), OldPrior(Built(e), k), OldPrior(t, k),
                          Single(e, k), SettlesBelow(e, k), Foldable(e, k))
        ELSE /\ OldPrior(t, k) = OldPrior(Built(d), k) /\ Saved(t, k) = Saved(Built(d), k)
             /\ k \in KeysOf(d) => t.fields[k] = Built(d).fields[k]

Adds(d, e) ==
    /\ KeysOf(Cat(d, e)) = KeysOf(d) \cup KeysOf(e)
    /\ Built(Cat(d, e)).order = WithKeys(Built(d).order, Built(e).order)
    /\ \A k : AddsKey(d, e, k)
    /\ \A k : Settles(Cat(d, e), k) <=> Settles(d, k) \/ Settles(e, k)

LEMMA OrderAppend ==
    ASSUME NEW t \in BuiltTrees, NEW k \in Keys, NEW layer \in Layer
    PROVE  Assign(t, k, layer).order = WithKey(t.order, k)
<1>1. /\ t.order \in Seq(DOMAIN t.fields) /\ Complete(t) /\ DOMAIN t.order = 1..Len(t.order)
  <2>1. t.order \in Seq(DOMAIN t.fields) /\ Complete(t)
    BY BuiltParts
  <2> QED
    BY <2>1
<1>2. Assign(t, k, layer).order = IF k \in DOMAIN t.fields THEN t.order ELSE Append(t.order, k)
  BY DEF Assign
<1>3. k \in DOMAIN t.fields <=> \E i \in DOMAIN t.order : t.order[i] = k
  <2>1. \A i \in 1..Len(t.order) : t.order[i] \in DOMAIN t.fields
    BY <1>1
  <2> QED
    BY <1>1, <2>1 DEF Complete
<1> QED
  BY <1>2, <1>3 DEF WithKey

LEMMA AddsKeyStep ==
    ASSUME NEW d \in Seq(Assignment), NEW e \in Seq(Assignment), NEW a \in Assignment, NEW k,
           AddsKey(d, e, k), KeysOf(Cat(d, e)) = KeysOf(d) \cup KeysOf(e)
    PROVE  AddsKey(d, Longer(e, a), k)
<1> DEFINE w == Longer(e, a)
           t == Built(Cat(d, e))
           t2 == Built(Cat(d, w))
           s == Built(e)
           s2 == Built(w)
           j == a.key
           layer == a.layer
           x == Saved(Built(d), k)
<1>1. /\ w \in Seq(Assignment) /\ KeysOf(w) = KeysOf(e) \cup {j}
      /\ j \in Keys /\ layer \in Layer /\ Written(layer)
  BY AppendParts
<1>2. /\ Cat(d, e) \in Seq(Assignment) /\ Cat(d, w) = Longer(Cat(d, e), a)
  BY CatLonger
<1>3. /\ s2 = Assign(s, j, layer) /\ s \in BuiltTrees /\ DOMAIN s.fields = KeysOf(e)
  BY BuiltAppend
<1>4. /\ t2 = Assign(t, j, layer) /\ t \in BuiltTrees /\ DOMAIN t.fields = KeysOf(Cat(d, e))
  BY <1>2, BuiltAppend
<1>5. Built(d) \in BuiltTrees /\ DOMAIN Built(d).fields = KeysOf(d)
  BY BuiltSound
<1>6. Loose(x, k) /\ (k \notin KeysOf(d) => x = NoPrior)
  BY <1>5, SavedNone
<1> DEFINE xs == Saved(s, k)
           xt == Saved(t, k)
           p == OldPrior(s, k)
           q == OldPrior(t, k)
<1>7. Loose(p, k) /\ Loose(q, k) /\ (k \notin KeysOf(e) => xs = NoPrior /\ p = NoPrior)
  BY <1>3, <1>4, SavedNone
<1>8. /\ OldPrior(s2, j) = Saved(s, j) /\ OldPrior(t2, j) = Saved(t, j)
      /\ k # j => /\ OldPrior(s2, k) = p /\ Saved(s2, k) = xs
                  /\ OldPrior(t2, k) = q /\ Saved(t2, k) = xt
  BY <1>1, <1>3, <1>4, PriorsAssigned
<1>9. /\ s2.fields[j] = layer /\ (k \in DOMAIN s.fields /\ k # j => s2.fields[k] = s.fields[k])
      /\ t2.fields[j] = layer /\ (k \in DOMAIN t.fields /\ k # j => t2.fields[k] = t.fields[k])
  BY <1>1, <1>3, <1>4, AssignParts
<1>10. /\ k \in KeysOf(e) => /\ t.fields[k] = s.fields[k]
                             /\ Continues(k, x, p, q, Single(e, k), SettlesBelow(e, k), Foldable(e, k))
       /\ k \notin KeysOf(e) => /\ q = OldPrior(Built(d), k) /\ xt = x
                                /\ k \in KeysOf(d) => t.fields[k] = Built(d).fields[k]
  BY DEF AddsKey
<1>11. KeysOf(e) \subseteq DOMAIN t.fields /\ KeysOf(d) \subseteq DOMAIN t.fields
  BY <1>4
<1>12. /\ AddsKey(d, w, k) <=>
              IF k \in KeysOf(w)
              THEN /\ t2.fields[k] = s2.fields[k]
                   /\ Continues(k, x, OldPrior(s2, k), OldPrior(t2, k),
                                Single(w, k), SettlesBelow(w, k), Foldable(w, k))
              ELSE /\ OldPrior(t2, k) = OldPrior(Built(d), k) /\ Saved(t2, k) = x
                   /\ k \in KeysOf(d) => t2.fields[k] = Built(d).fields[k]
  BY DEF AddsKey
<1>13. /\ k \in KeysOf(e) => (Foldable(w, k) <=> Foldable(e, k))
       /\ k \in KeysOf(e) /\ k # j => /\ SettlesBelow(w, k) <=> SettlesBelow(e, k)
                                      /\ Single(w, k) <=> Single(e, k)
       /\ k \in KeysOf(e) /\ k = j => ~Single(w, k) /\ (SettlesBelow(w, k) <=> Settles(e, k))
       /\ k \notin KeysOf(e) /\ k = j => Single(w, k)
  BY SettlesAppend
<1>14. k \in KeysOf(e) => /\ Written(s.fields[k]) /\ s.fields[k] \in Layer
                          /\ xs = FoldOrSkipPrior(s.fields[k], k, p)
                          /\ xt = FoldOrSkipPrior(t.fields[k], k, q)
  <2> SUFFICES ASSUME k \in KeysOf(e)
               PROVE  /\ Written(s.fields[k]) /\ s.fields[k] \in Layer
                      /\ xs = FoldOrSkipPrior(s.fields[k], k, p)
                      /\ xt = FoldOrSkipPrior(t.fields[k], k, q)
    OBVIOUS
  <2>1. Last(e, k) \in 1..Len(e) /\ s.fields[k] = e[Last(e, k)].layer
    BY DocumentEnds, EndsAre DEF HasEnds, IsLast
  <2>2. Written(s.fields[k]) /\ s.fields[k] \in Layer
    BY <2>1, AssignmentParts
  <2> QED
    BY <1>3, <1>11, <2>2 DEF Saved
<1>15. /\ k \in KeysOf(e) => /\ Settles(e, k) <=> SettlesBelow(e, k) \/ ~ContainsSubst(s.fields[k], k)
                             /\ Single(e, k) => e[First(e, k)].layer = s.fields[k]
       /\ k \in KeysOf(w) /\ Single(w, k) => ~SettlesBelow(w, k)
  BY <1>1, SettlesParts
<1> HIDE DEF w, t, t2, s, s2, j, layer, x, xs, xt, p, q
<1>16. CASE k # j /\ k \in KeysOf(e)
  <2>1. t2.fields[k] = s2.fields[k] /\ k \in KeysOf(w)
    BY <1>1, <1>3, <1>9, <1>10, <1>11, <1>16
  <2>2. Continues(k, x, p, q, Single(w, k), SettlesBelow(w, k), Foldable(w, k))
    BY <1>10, <1>13, <1>16 DEF Continues
  <2> QED
    BY <1>8, <1>12, <1>16, <2>1, <2>2 DEF w
<1>17. CASE k # j /\ k \notin KeysOf(e)
  BY <1>1, <1>8, <1>9, <1>10, <1>11, <1>12, <1>17 DEF w
<1>18. CASE k = j /\ k \notin KeysOf(e)
  <2>1. /\ k \in KeysOf(w) /\ Single(w, k) /\ ~SettlesBelow(w, k)
        /\ OldPrior(s2, k) = NoPrior /\ OldPrior(t2, k) = x
        /\ t2.fields[k] = s2.fields[k]
    BY <1>1, <1>7, <1>8, <1>9, <1>10, <1>13, <1>15, <1>18 DEF xs, xt
  <2>2. Continues(k, x, OldPrior(s2, k), OldPrior(t2, k), Single(w, k), SettlesBelow(w, k), Foldable(w, k))
    BY <2>1 DEF Continues
  <2> QED
    BY <1>12, <2>1, <2>2 DEF w
<1>19. CASE k = j /\ k \in KeysOf(e)
  <2> DEFINE l == s.fields[k]
             single == Single(e, k)
             below == SettlesBelow(e, k)
             foldable == Foldable(e, k)
             alone == Single(w, k)
             settles == SettlesBelow(w, k)
  <2>1. /\ single \in BOOLEAN /\ below \in BOOLEAN /\ foldable \in BOOLEAN
        /\ alone \in BOOLEAN /\ settles \in BOOLEAN
    BY DEF Single, SettlesBelow, Foldable
  <2>2. /\ l \in Layer /\ Written(l) /\ Continues(k, x, p, q, single, below, foldable)
        /\ single /\ foldable => FoldOptionalSelfRefAbsent(l, k) # NoPrior
    BY <1>10, <1>14, <1>15, <1>19 DEF Foldable
  <2>3. Loose(x, k) /\ Loose(p, k) /\ Loose(q, k)
    BY <1>6, <1>7
  <2>4. t.fields[k] = l
    BY <1>10, <1>19
  <2>5. /\ OldPrior(s2, k) = FoldOrSkipPrior(l, k, p) /\ OldPrior(t2, k) = FoldOrSkipPrior(l, k, q)
        /\ t2.fields[k] = s2.fields[k] /\ k \in KeysOf(w)
    BY <1>1, <1>8, <1>9, <1>14, <1>19, <2>4 DEF xs, xt
  <2>6. /\ ~alone /\ (Foldable(w, k) <=> foldable)
        /\ settles <=> below \/ ~ContainsSubst(l, k)
    BY <1>13, <1>15, <1>19
  <2> HIDE DEF l, single, below, foldable, alone, settles
  <2>7. Continues(k, x, FoldOrSkipPrior(l, k, p), FoldOrSkipPrior(l, k, q), alone, settles, foldable)
    BY <2>1, <2>2, <2>3, <2>6, ContinuesStep
  <2>8. Continues(k, x, OldPrior(s2, k), OldPrior(t2, k), Single(w, k), SettlesBelow(w, k), Foldable(w, k))
    BY <2>5, <2>6, <2>7 DEF Continues, alone, settles
  <2> QED
    BY <1>12, <2>5, <2>8 DEF w
<1> QED
  BY <1>16, <1>17, <1>18, <1>19

LEMMA AddsAll ==
    ASSUME NEW d \in Seq(Assignment), NEW e \in Seq(Assignment)
    PROVE  Adds(d, e)
<1> DEFINE G == {w \in Seq(Assignment) : Adds(d, w)}
<1>1. <<>> \in G
  <2> DEFINE w == <<>>
  <2>1. /\ w \in Seq(Assignment) /\ KeysOf(w) = {} /\ Cat(d, w) = d /\ Built(w).order = <<>>
        /\ \A k : ~Settles(w, k)
    <3>1. /\ w \in Seq(Assignment) /\ KeysOf(w) = {} /\ Cat(d, w) = d /\ Built(w).order = <<>>
      BY EmptyDocument, CatEmpty DEF EmptyTree
    <3>2. \A k : ~Settles(w, k)
      BY <3>1, SettlesParts
    <3> QED
      BY <3>1, <3>2
  <2>2. WithKeys(Built(d).order, <<>>) = Built(d).order
    <3>1. Built(d).order \in Seq(Keys) /\ <<>> \in Seq(Keys) /\ Len(<<>>) = 0
      <4>1. Built(d).order \in Seq(Keys)
        BY BuiltSound, BuiltParts
      <4> QED
        BY <4>1
    <3> DEFINE o == Built(d).order
    <3> HIDE DEF o
    <3>2. PICK F : Orders(F, Keys, o, <<>>)
      BY <3>1, WithKeysSteps DEF o
    <3> QED
      BY <3>1, <3>2 DEF Orders, o
  <2> HIDE DEF w
  <2>3. \A k : AddsKey(d, w, k)
    BY <2>1 DEF AddsKey
  <2>4. Adds(d, w)
    BY <2>1, <2>2, <2>3 DEF Adds
  <2> QED
    BY <2>1, <2>4 DEF w
<1>2. ASSUME NEW s \in Seq(Assignment), NEW a \in Assignment, s \in G PROVE Longer(s, a) \in G
  <2> DEFINE w == Longer(s, a)
             c == Cat(d, s)
  <2>1. Adds(d, s)
    BY <1>2
  <2>2. /\ w \in Seq(Assignment) /\ KeysOf(w) = KeysOf(s) \cup {a.key}
        /\ a.key \in Keys /\ a.layer \in Layer
    BY AppendParts
  <2>3. c \in Seq(Assignment) /\ Cat(d, w) = Longer(c, a)
    BY CatLonger
  <2>4. KeysOf(Longer(c, a)) = KeysOf(c) \cup {a.key}
    <3> HIDE DEF c
    <3> QED
      BY <2>3, AppendParts
  <2>5. KeysOf(c) = KeysOf(d) \cup KeysOf(s) /\ Built(c).order = WithKeys(Built(d).order, Built(s).order)
    BY <2>1 DEF Adds
  <2>6. /\ Built(w) = Assign(Built(s), a.key, a.layer) /\ Built(s) \in BuiltTrees
        /\ Built(Longer(c, a)) = Assign(Built(c), a.key, a.layer) /\ Built(c) \in BuiltTrees
    <3> HIDE DEF c
    <3> QED
      BY <2>3, BuiltAppend
  <2>7. Built(w).order = WithKey(Built(s).order, a.key) /\ Built(Longer(c, a)).order = WithKey(Built(c).order, a.key)
    BY <2>2, <2>6, OrderAppend
  <2>8. WithKeys(Built(d).order, WithKey(Built(s).order, a.key)) =
            WithKey(WithKeys(Built(d).order, Built(s).order), a.key)
    <3> DEFINE o == Built(d).order
               m == Built(s).order
               k == a.key
    <3>1. o \in Seq(Keys) /\ m \in Seq(Keys) /\ k \in Keys /\ Distinct(o)
      BY <2>2, BuiltSound, BuiltParts DEF Distinct
    <3> HIDE DEF o, m, k
    <3>2. DOMAIN m = 1..Len(m)
      BY <3>1
    <3>3. CASE Has(m, k)
      <4>1. WithKey(m, k) = m
        BY <3>2, <3>3 DEF WithKey, Has
      <4>2. Has(WithKeys(o, m), k) /\ WithKeys(o, m) \in Seq(Keys)
        BY <3>1, <3>3, WithKeysParts
      <4>3. WithKey(WithKeys(o, m), k) = WithKeys(o, m)
        <5> DEFINE r == WithKeys(o, m)
        <5> HIDE DEF r
        <5>1. DOMAIN r = 1..Len(r)
          BY <4>2 DEF r
        <5> QED
          BY <4>2, <5>1 DEF WithKey, Has, r
      <4> QED
        BY <4>1, <4>3 DEF o, m, k
    <3>4. CASE ~Has(m, k)
      <4>1. WithKey(m, k) = Longer(m, k)
        BY <3>2, <3>4 DEF WithKey, Has, Longer
      <4>2. WithKeys(o, Longer(m, k)) = WithKey(WithKeys(o, m), k)
        BY <3>1, WithKeysAppend
      <4> QED
        BY <4>1, <4>2 DEF o, m, k
    <3> QED
      BY <3>3, <3>4
  <2>9. \A k : AddsKey(d, w, k)
    BY <2>1, <2>5, AddsKeyStep DEF Adds
  <2>10. \A k : Settles(Cat(d, w), k) <=> Settles(d, k) \/ Settles(w, k)
    <3> TAKE k
    <3>1. Settles(w, k) <=> Settles(s, k) \/ (k = a.key /\ ~ContainsSubst(a.layer, k))
      BY SettlesAppend
    <3>2. Settles(Longer(c, a), k) <=> Settles(c, k) \/ (k = a.key /\ ~ContainsSubst(a.layer, k))
      <4> HIDE DEF c
      <4> QED
        BY <2>3, SettlesAppend
    <3>3. Settles(c, k) <=> Settles(d, k) \/ Settles(s, k)
      BY <2>1 DEF Adds
    <3> QED
      BY <2>3, <3>1, <3>2, <3>3
  <2>11. Adds(d, w)
    <3>1. KeysOf(Cat(d, w)) = KeysOf(d) \cup KeysOf(w)
      BY <2>2, <2>3, <2>4, <2>5
    <3>2. Built(Cat(d, w)).order = WithKeys(Built(d).order, Built(w).order)
      BY <2>3, <2>5, <2>7, <2>8
    <3> QED
      BY <2>9, <2>10, <3>1, <3>2 DEF Adds
  <2> QED
    BY <2>2, <2>11
<1> HIDE DEF G
<1>3. e \in G
  BY <1>1, <1>2, DocumentInduction
<1> QED
  BY <1>3 DEF G

-----------------------------------------------------------------------------
(* A tree that references cannot tell from that of document d: a prior     *)
(* that differs is one that nothing looks back at, and there is none where *)
(* the document has none.                                                  *)
Represents(t, d) ==
    /\ t \in BuiltTrees
    /\ t.fields = Built(d).fields /\ t.order = Built(d).order
    /\ \A k : OldPrior(t, k) # NoPrior => OldPrior(Built(d), k) # NoPrior
    /\ \A k \in KeysOf(d) : ContainsSubst(t.fields[k], k) => OldPrior(t, k) = OldPrior(Built(d), k)

LEMMA BuiltRepresents ==
    ASSUME NEW d \in Seq(Assignment)
    PROVE  Represents(Built(d), d)
  BY BuiltSound DEF Represents

(* What is saved of a key is the same in both trees.                       *)
LEMMA RepresentsSaved ==
    ASSUME NEW d \in Seq(Assignment), NEW t, Represents(t, d), NEW k
    PROVE  Saved(t, k) = Saved(Built(d), k)
<1>1. t.fields = Built(d).fields /\ DOMAIN t.fields = KeysOf(d)
  BY BuiltSound DEF Represents
<1>2. k \in KeysOf(d) /\ ContainsSubst(t.fields[k], k) => OldPrior(t, k) = OldPrior(Built(d), k)
  BY DEF Represents
<1> QED
  BY <1>1, <1>2 DEF Saved, FoldOrSkipPrior

LEMMA SameTree ==
    ASSUME NEW t \in BuiltTrees, NEW u \in BuiltTrees, t.fields = u.fields, t.order = u.order,
           \A k : OldPrior(t, k) = OldPrior(u, k)
    PROVE  t = u
<1>1. /\ \A k : OldPrior(t, k) = NoPrior <=> k \notin DOMAIN t.priors
      /\ \A k : OldPrior(u, k) = NoPrior <=> k \notin DOMAIN u.priors
  BY SavedNone
<1>2. t.priors \in [DOMAIN t.priors -> Layer] /\ u.priors \in [DOMAIN u.priors -> Layer]
  BY BuiltParts
<1>3. DOMAIN t.priors = DOMAIN u.priors
  BY <1>1
<1>4. \A k \in DOMAIN t.priors : t.priors[k] = u.priors[k]
  BY <1>3 DEF OldPrior
<1>5. t.priors = u.priors
  BY <1>2, <1>3, <1>4
<1>6. /\ t = [order |-> t.order, fields |-> t.fields, priors |-> t.priors]
      /\ u = [order |-> u.order, fields |-> u.fields, priors |-> u.priors]
  BY DEF BuiltTrees
<1> QED
  BY <1>5, <1>6

(* A tree that is put together from two.                                   *)
Joins(t, low, high, fields, prior) ==
    /\ low \in BuiltTrees /\ high \in BuiltTrees
    /\ fields = Over(high.fields, low.fields)
    /\ DOMAIN prior = DOMAIN fields /\ \A k \in DOMAIN fields : Loose(prior[k], k)
    /\ t = TreeWith(WithKeys(low.order, high.order), fields, prior)

IsJoined(t, low, high, fields, prior) ==
    /\ t \in BuiltTrees
    /\ t.order = WithKeys(low.order, high.order) /\ t.fields = fields
    /\ DOMAIN fields = DOMAIN high.fields \cup DOMAIN low.fields
    /\ \A k \in DOMAIN fields : OldPrior(t, k) = prior[k]
    /\ \A k : k \notin DOMAIN fields => OldPrior(t, k) = NoPrior

LEMMA TreeWithParts ==
    ASSUME NEW t, NEW low, NEW high, NEW fields, NEW prior, Joins(t, low, high, fields, prior)
    PROVE  IsJoined(t, low, high, fields, prior)
<1>0. /\ low \in BuiltTrees /\ high \in BuiltTrees /\ fields = Over(high.fields, low.fields)
      /\ DOMAIN prior = DOMAIN fields /\ \A k \in DOMAIN fields : Loose(prior[k], k)
      /\ t = TreeWith(WithKeys(low.order, high.order), fields, prior)
  BY DEF Joins
<1> DEFINE D == DOMAIN fields
           r == WithKeys(low.order, high.order)
<1>1. /\ DOMAIN low.fields \in SUBSET Keys /\ low.fields \in [DOMAIN low.fields -> Layer]
      /\ DOMAIN high.fields \in SUBSET Keys /\ high.fields \in [DOMAIN high.fields -> Layer]
      /\ low.order \in Seq(DOMAIN low.fields) /\ high.order \in Seq(DOMAIN high.fields)
      /\ Distinct(low.order) /\ Complete(low) /\ Complete(high)
  BY <1>0, BuiltParts DEF Distinct
<1>2. fields \in [D -> Layer] /\ D = DOMAIN high.fields \cup DOMAIN low.fields /\ D \in SUBSET Keys
  BY <1>0, <1>1 DEF Over
<1>3. low.order \in Seq(D) /\ high.order \in Seq(D)
  <2>1. DOMAIN low.fields \subseteq D /\ DOMAIN high.fields \subseteq D
    BY <1>2
  <2> HIDE DEF D
  <2> QED
    BY <1>1, <2>1
<1>4. r \in Seq(D) /\ Distinct(r) /\ \A x : Has(low.order, x) \/ Has(high.order, x) => Has(r, x)
  <2> DEFINE o == low.order
             m == high.order
  <2>1. o \in Seq(D) /\ m \in Seq(D) /\ Distinct(o)
    BY <1>1, <1>3
  <2> HIDE DEF D, o, m
  <2>2. LET w == WithKeys(o, m)
        IN  w \in Seq(D) /\ Distinct(w) /\ \A x : Has(o, x) \/ Has(m, x) => Has(w, x)
    BY <2>1, WithKeysParts
  <2> QED
    BY <2>2 DEF o, m
<1> HIDE DEF r
<1> DEFINE P == {k \in D : prior[k] # NoPrior}
           f == [k \in P |-> prior[k]]
<1>5. t = [order |-> r, fields |-> fields, priors |-> f]
  BY <1>0 DEF TreeWith, r
<1>6. t.order = r /\ t.fields = fields /\ t.priors = f /\ DOMAIN t = {"order", "fields", "priors"}
  BY <1>5
<1>7. /\ P \in SUBSET D /\ f \in [P -> Layer] /\ DOMAIN f = P
      /\ \A k \in P : f[k] = prior[k] /\ ~ContainsSubst(f[k], k)
  BY <1>0 DEF Loose
<1> HIDE DEF P, f
<1>8. /\ \A k \in D : OldPrior(t, k) = prior[k]
      /\ \A k : k \notin D => OldPrior(t, k) = NoPrior
  BY <1>6, <1>7 DEF OldPrior, P
<1>9. Complete(t)
  <2>1. \A k \in D : Has(low.order, k) \/ Has(high.order, k)
    BY <1>1, <1>2 DEF Complete, Has
  <2> QED
    BY <1>4, <1>6, <2>1 DEF Complete, Has
<1>10. IsTree(t)
  <2>1. DOMAIN r = 1..Len(r)
    BY <1>4
  <2>2. /\ DOMAIN t = {"order", "fields", "priors"} /\ DOMAIN t.fields \in SUBSET Keys
        /\ t.fields \in [DOMAIN t.fields -> Layer]
        /\ t.order \in Seq(DOMAIN t.fields)
    BY <1>2, <1>4, <1>6
  <2>3. DOMAIN t.priors \in SUBSET DOMAIN t.fields /\ t.priors \in [DOMAIN t.priors -> Layer]
    BY <1>6, <1>7
  <2>4. \A i, j \in DOMAIN t.order : t.order[i] = t.order[j] => i = j
    BY <1>4, <1>6, <2>1 DEF Distinct
  <2>5. \A k \in DOMAIN t.priors : ~ContainsSubst(t.priors[k], k)
    BY <1>6, <1>7
  <2> QED
    BY <2>2, <2>3, <2>4, <2>5 DEF IsTree
<1>11. t \in [order : Seq(Keys), fields : LayerMaps, priors : LayerMaps]
  <2>1. r \in Seq(Keys)
    <3> HIDE DEF D
    <3> QED
      BY <1>2, <1>4
  <2>2. fields \in LayerMaps /\ f \in LayerMaps
    BY <1>2, <1>7 DEF LayerMaps
  <2> QED
    BY <1>5, <2>1, <2>2
<1> QED
  BY <1>2, <1>6, <1>8, <1>9, <1>10, <1>11 DEF BuiltTrees, r, IsJoined

(* One more assignment to both.                                            *)
LEMMA RepresentsField ==
    ASSUME NEW d \in Seq(Assignment), NEW t, Represents(t, d), NEW a \in Assignment
    PROVE  Represents(Assign(t, a.key, a.layer), Longer(d, a))
<1> DEFINE j == a.key
           layer == a.layer
           b == Built(d)
           v == Assign(t, j, layer)
           c == Assign(b, j, layer)
           w == Longer(d, a)
<1>1. w \in Seq(Assignment) /\ KeysOf(w) = KeysOf(d) \cup {j} /\ j \in Keys /\ layer \in Layer
  BY AppendParts
<1>2. Built(w) = c /\ b \in BuiltTrees /\ DOMAIN b.fields = KeysOf(d)
  BY BuiltAppend
<1>3. /\ t \in BuiltTrees /\ t.fields = b.fields /\ t.order = b.order
      /\ \A k : OldPrior(t, k) # NoPrior => OldPrior(b, k) # NoPrior
      /\ \A k \in KeysOf(d) : ContainsSubst(t.fields[k], k) => OldPrior(t, k) = OldPrior(b, k)
  BY DEF Represents
<1>4. v.fields = c.fields /\ v.order = c.order
  BY <1>3 DEF Assign
<1>5. Saved(t, j) = Saved(b, j)
  BY RepresentsSaved
<1> HIDE DEF j, layer, b, w, v, c
<1>6. /\ OldPrior(v, j) = Saved(t, j) /\ \A k : k # j => OldPrior(v, k) = OldPrior(t, k)
      /\ OldPrior(c, j) = Saved(b, j) /\ \A k : k # j => OldPrior(c, k) = OldPrior(b, k)
  BY <1>1, <1>2, <1>3, PriorsAssigned DEF v, c
<1>7. v \in BuiltTrees /\ \A k \in DOMAIN t.fields : k # j => v.fields[k] = t.fields[k]
  BY <1>1, <1>3, AssignParts DEF v
<1>8. \A k : OldPrior(v, k) # NoPrior => OldPrior(c, k) # NoPrior
  BY <1>3, <1>5, <1>6
<1>9. ASSUME NEW k \in KeysOf(w), ContainsSubst(v.fields[k], k) PROVE OldPrior(v, k) = OldPrior(c, k)
  <2>1. CASE k = j
    BY <1>5, <1>6, <2>1
  <2>2. CASE k # j
    <3>1. k \in KeysOf(d) /\ v.fields[k] = t.fields[k]
      BY <1>1, <1>2, <1>3, <1>7, <2>2
    <3> QED
      BY <1>3, <1>6, <1>9, <2>2, <3>1
  <2> QED
    BY <2>1, <2>2
<1> QED
  BY <1>2, <1>4, <1>7, <1>8, <1>9 DEF Represents, v, w, j, layer

-----------------------------------------------------------------------------
(* The two trees at a seam, and what they make of one key: p is the prior  *)
(* of the key in the tree of e, x what the tree of d saves of it, o its    *)
(* prior there, and q the prior in the document of both.                   *)
Seam(d, e, low, high) ==
    d \in Seq(Assignment) /\ e \in Seq(Assignment) /\ Represents(low, d) /\ Represents(high, e)

LEMMA SeamParts ==
    ASSUME NEW d, NEW e, NEW low, NEW high, Seam(d, e, low, high), NEW k,
           NEW c, c = Built(Cat(d, e))
    PROVE  /\ low \in BuiltTrees /\ high \in BuiltTrees
           /\ DOMAIN low.fields = KeysOf(d) /\ DOMAIN high.fields = KeysOf(e)
           /\ c \in BuiltTrees /\ DOMAIN c.fields = KeysOf(d) \cup KeysOf(e)
           /\ Cat(d, e) \in Seq(Assignment) /\ KeysOf(Cat(d, e)) = KeysOf(d) \cup KeysOf(e)
           /\ c.order = WithKeys(low.order, high.order)
           /\ k \in KeysOf(e) => c.fields[k] = high.fields[k]
           /\ k \in KeysOf(d) /\ k \notin KeysOf(e) => c.fields[k] = low.fields[k]
           /\ Settles(Cat(d, e), k) <=> Settles(d, k) \/ Settles(e, k)
<1>1. /\ d \in Seq(Assignment) /\ e \in Seq(Assignment)
      /\ low \in BuiltTrees /\ low.fields = Built(d).fields /\ low.order = Built(d).order
      /\ high \in BuiltTrees /\ high.fields = Built(e).fields /\ high.order = Built(e).order
  BY DEF Seam, Represents
<1>2. DOMAIN Built(d).fields = KeysOf(d) /\ DOMAIN Built(e).fields = KeysOf(e)
  BY <1>1, BuiltSound
<1>3. Cat(d, e) \in Seq(Assignment)
  BY <1>1, ConcatProperties DEF Cat
<1>4. c \in BuiltTrees /\ DOMAIN c.fields = KeysOf(Cat(d, e))
  BY <1>3, BuiltSound
<1>5. /\ KeysOf(Cat(d, e)) = KeysOf(d) \cup KeysOf(e)
      /\ c.order = WithKeys(Built(d).order, Built(e).order)
      /\ AddsKey(d, e, k)
      /\ Settles(Cat(d, e), k) <=> Settles(d, k) \/ Settles(e, k)
  BY <1>1, AddsAll DEF Adds
<1> QED
  BY <1>1, <1>2, <1>3, <1>4, <1>5 DEF AddsKey

LEMMA SeamPriors ==
    ASSUME NEW d, NEW e, NEW low, NEW high, Seam(d, e, low, high), NEW k,
           NEW c, c = Built(Cat(d, e)), NEW x, x = Saved(low, k), NEW o, o = OldPrior(low, k),
           NEW p, p = OldPrior(high, k), NEW q, q = OldPrior(c, k)
    PROVE  /\ Loose(x, k) /\ Loose(o, k) /\ Loose(p, k) /\ Loose(q, k)
           /\ x = NoPrior => o = NoPrior
           /\ k \notin KeysOf(d) => x = NoPrior /\ o = NoPrior
           /\ k \notin KeysOf(e) => p = NoPrior /\ (o # NoPrior => q # NoPrior)
           /\ k \notin KeysOf(e) /\ k \in KeysOf(d) /\ ContainsSubst(low.fields[k], k) => o = q
           /\ k \in KeysOf(e) /\ (x # NoPrior \/ p # NoPrior) => q # NoPrior
           /\ k \in KeysOf(e) /\ ContainsSubst(high.fields[k], k) =>
                  /\ x = NoPrior => q = p
                  /\ SettlesBelow(e, k) => q = p /\ p # NoPrior
                  /\ ~SettlesBelow(e, k) /\ Foldable(e, k) /\ ~Single(e, k) /\ x # NoPrior =>
                         p # NoPrior /\ q = FoldKnownAbsent(p, k, x)
           /\ k \in KeysOf(e) /\ Single(e, k) => p = NoPrior /\ q = x
<1> DEFINE b == Built(d)
           h == Built(e)
           p0 == OldPrior(h, k)
           o0 == OldPrior(b, k)
<1>1. d \in Seq(Assignment) /\ e \in Seq(Assignment) /\ Represents(low, d) /\ Represents(high, e)
  BY DEF Seam
<1>2. /\ low \in BuiltTrees /\ high \in BuiltTrees /\ c \in BuiltTrees
      /\ DOMAIN low.fields = KeysOf(d) /\ DOMAIN high.fields = KeysOf(e)
  BY SeamParts
<1>3. /\ Loose(x, k) /\ Loose(o, k) /\ Loose(p, k) /\ Loose(q, k)
      /\ x = NoPrior => o = NoPrior
      /\ k \notin KeysOf(d) => x = NoPrior /\ o = NoPrior
      /\ k \notin KeysOf(e) => p = NoPrior
  BY <1>2, SavedNone
<1>4. x = Saved(b, k)
  BY <1>1, RepresentsSaved
<1>5. /\ p # NoPrior => p0 # NoPrior
      /\ k \in KeysOf(e) /\ ContainsSubst(high.fields[k], k) => p = p0
      /\ o # NoPrior => o0 # NoPrior
      /\ k \in KeysOf(d) /\ ContainsSubst(low.fields[k], k) => o = o0
      /\ low.fields = b.fields /\ high.fields = h.fields
  BY <1>1 DEF Represents
<1>6. /\ k \in KeysOf(e) => Continues(k, x, p0, q, Single(e, k), SettlesBelow(e, k), Foldable(e, k))
      /\ k \notin KeysOf(e) => q = o0
  <2>1. AddsKey(d, e, k)
    BY <1>1, AddsAll DEF Adds
  <2> QED
    BY <1>4, <2>1 DEF AddsKey
<1> HIDE DEF b, h, p0, o0
<1>7. k \in KeysOf(e) =>
          /\ SettlesBelow(e, k) => q = p0 /\ p0 # NoPrior
          /\ Single(e, k) => p0 = NoPrior /\ q = x
          /\ ~Single(e, k) /\ x = NoPrior => q = p0
          /\ ~Single(e, k) /\ ~SettlesBelow(e, k) /\ x # NoPrior /\ Foldable(e, k) =>
                 p0 # NoPrior /\ q = FoldKnownAbsent(p0, k, x)
          /\ x # NoPrior \/ p0 # NoPrior => q # NoPrior
  BY <1>6 DEF Continues
<1> QED
  BY <1>3, <1>5, <1>6, <1>7

(* The prior that a merge of two trees gives to key k is the one of both   *)
(* documents together, or one that references cannot tell from it.         *)
Clearly(c, k, prior) ==
    /\ prior # NoPrior => OldPrior(c, k) # NoPrior
    /\ ContainsSubst(c.fields[k], k) => prior = OldPrior(c, k)

LEMMA SpliceKey ==
    ASSUME NEW d, NEW e, NEW dst, NEW src, Seam(d, e, dst.tree, src.tree), NEW k,
           NEW c, c = Built(Cat(d, e)), NEW prior, prior = CarriedOver(dst, src, k),
           k \in KeysOf(d) \cup KeysOf(e), k \in src.reset <=> k \in KeysOf(e) /\ Settles(e, k)
    PROVE  /\ Loose(prior, k)
           /\ k \notin Shared(d, e) \/ IncludesClearly(e, k) => Clearly(c, k, prior)
           /\ dst.tree = Built(d) /\ src.tree = Built(e) /\ (k \in Shared(d, e) => IncludesExactly(e, k)) =>
                  prior = OldPrior(c, k)
<1> DEFINE low == dst.tree
           high == src.tree
           x == Saved(low, k)
           o == OldPrior(low, k)
           p == OldPrior(high, k)
           q == OldPrior(c, k)
<1>1. /\ Loose(x, k) /\ Loose(o, k) /\ Loose(p, k) /\ Loose(q, k)
      /\ x = NoPrior => o = NoPrior
      /\ k \notin KeysOf(d) => x = NoPrior /\ o = NoPrior
      /\ k \notin KeysOf(e) => p = NoPrior /\ (o # NoPrior => q # NoPrior)
      /\ k \notin KeysOf(e) /\ k \in KeysOf(d) /\ ContainsSubst(low.fields[k], k) => o = q
      /\ k \in KeysOf(e) /\ (x # NoPrior \/ p # NoPrior) => q # NoPrior
      /\ k \in KeysOf(e) /\ ContainsSubst(high.fields[k], k) =>
             /\ x = NoPrior => q = p
             /\ SettlesBelow(e, k) => q = p /\ p # NoPrior
             /\ ~SettlesBelow(e, k) /\ Foldable(e, k) /\ ~Single(e, k) /\ x # NoPrior =>
                    p # NoPrior /\ q = FoldKnownAbsent(p, k, x)
      /\ k \in KeysOf(e) /\ Single(e, k) => p = NoPrior /\ q = x
  BY SeamPriors
<1>2. /\ DOMAIN low.fields = KeysOf(d) /\ DOMAIN high.fields = KeysOf(e)
      /\ k \in KeysOf(e) => c.fields[k] = high.fields[k]
      /\ k \in KeysOf(d) /\ k \notin KeysOf(e) => c.fields[k] = low.fields[k]
  BY SeamParts
<1>3. k \in KeysOf(e) => (Settles(e, k) <=> SettlesBelow(e, k) \/ ~ContainsSubst(high.fields[k], k))
  <2>1. e \in Seq(Assignment) /\ high.fields = Built(e).fields
    BY DEF Seam, Represents
  <2> QED
    BY <2>1, SettlesParts
<1>4. prior = IF k \notin Shared(d, e) THEN (IF o = NoPrior THEN p ELSE o)
              ELSE IF Settles(e, k) THEN p
              ELSE IF x = NoPrior THEN (IF o = NoPrior THEN p ELSE o)
              ELSE IF p = NoPrior THEN x
              ELSE IF FoldKnownAbsent(p, k, x) = NoPrior THEN p ELSE FoldKnownAbsent(p, k, x)
  BY <1>2 DEF CarriedOver, SplicedPrior, Shared
<1> HIDE DEF low, high, x, o, p, q
<1>5. p # NoPrior /\ x # NoPrior => Loose(FoldKnownAbsent(p, k, x), k) /\ FoldKnownAbsent(p, k, x) # NoPrior
  <2> SUFFICES ASSUME p # NoPrior, x # NoPrior
               PROVE  Loose(FoldKnownAbsent(p, k, x), k) /\ FoldKnownAbsent(p, k, x) # NoPrior
    OBVIOUS
  <2>1. p \in Layer /\ ~ContainsSubst(p, k) /\ x \in Layer /\ ~ContainsSubst(x, k)
    BY <1>1 DEF Loose
  <2>2. FoldKnownAbsent(p, k, x) \in Layer /\ ~ContainsSubst(FoldKnownAbsent(p, k, x), k)
    BY <2>1, AbsentLayer
  <2> QED
    BY <2>2 DEF Loose, Layer, NoPrior
<1>6. Loose(prior, k)
  BY <1>1, <1>4, <1>5
<1>7. CASE k \notin KeysOf(e)
  <2>1. k \in KeysOf(d) /\ k \notin Shared(d, e) /\ p = NoPrior /\ prior = o
    BY <1>1, <1>4, <1>7 DEF Shared
  <2>2. Clearly(c, k, prior)
    BY <1>1, <1>2, <1>7, <2>1 DEF Clearly, q
  <2>3. dst.tree = Built(d) => prior = q
    <3>1. AddsKey(d, e, k)
      BY AddsAll DEF Adds, Seam
    <3> QED
      BY <1>7, <2>1, <3>1 DEF AddsKey, o, q, low
  <2> QED
    BY <1>6, <2>1, <2>2, <2>3 DEF q
<1>8. CASE k \in KeysOf(e) /\ k \notin KeysOf(d)
  <2>1. k \notin Shared(d, e) /\ x = NoPrior /\ o = NoPrior /\ prior = p
    BY <1>1, <1>4, <1>8 DEF Shared
  <2>2. Clearly(c, k, prior)
    BY <1>1, <1>2, <1>8, <2>1 DEF Clearly, q
  <2>3. src.tree = Built(e) => prior = q
    <3>1. AddsKey(d, e, k)
      BY AddsAll DEF Adds, Seam
    <3>2. Saved(Built(d), k) = NoPrior
      BY <2>1, RepresentsSaved DEF Seam, x, low
    <3> QED
      BY <1>1, <1>8, <2>1, <3>1, <3>2 DEF AddsKey, Continues, p, q, high
  <2> QED
    BY <1>6, <2>1, <2>2, <2>3 DEF q
<1>9. CASE k \in Shared(d, e) /\ Settles(e, k)
  <2>1. k \in KeysOf(e) /\ prior = p
    BY <1>4, <1>9 DEF Shared
  <2>2. Clearly(c, k, prior)
    BY <1>1, <1>2, <1>3, <1>9, <2>1 DEF Clearly, q
  <2>3. src.tree = Built(e) /\ SettlesBelow(e, k) => prior = q
    <3>1. AddsKey(d, e, k)
      BY AddsAll DEF Adds, Seam
    <3> QED
      BY <2>1, <3>1 DEF AddsKey, Continues, p, q, high
  <2>4. IncludesExactly(e, k) => SettlesBelow(e, k)
    BY <1>9 DEF IncludesExactly
  <2> QED
    BY <1>6, <1>9, <2>2, <2>3, <2>4 DEF q
<1>10. CASE k \in Shared(d, e) /\ ~Settles(e, k) /\ Folds(e, k)
  <2>1. k \in KeysOf(e) /\ ContainsSubst(high.fields[k], k) /\ ~SettlesBelow(e, k)
    BY <1>3, <1>10 DEF Shared
  <2>2. prior = q
    <3>1. CASE x = NoPrior
      BY <1>1, <1>4, <1>10, <2>1, <3>1
    <3>2. CASE x # NoPrior /\ p = NoPrior
      BY <1>1, <1>4, <1>10, <2>1, <3>2 DEF Folds
    <3>3. CASE x # NoPrior /\ p # NoPrior
      BY <1>1, <1>4, <1>5, <1>10, <2>1, <3>3 DEF Folds
    <3> QED
      BY <3>1, <3>2, <3>3
  <2>3. q # NoPrior \/ prior = NoPrior
    BY <2>2
  <2> QED
    BY <1>6, <2>2, <2>3 DEF Clearly, q
<1>11. CASE k \in Shared(d, e) /\ ~Settles(e, k) /\ ~Folds(e, k)
  <2>1. ~IncludesClearly(e, k) /\ ~IncludesExactly(e, k)
    BY <1>3, <1>11 DEF IncludesClearly, IncludesExactly, Shared
  <2> QED
    BY <1>6, <1>11, <2>1
<1> QED
  BY <1>7, <1>8, <1>9, <1>10, <1>11 DEF Shared

(* A key that has one layer in a document has no prior there.              *)
LEMMA SingleNoPrior ==
    ASSUME NEW d \in Seq(Assignment), NEW k \in KeysOf(d), Single(d, k)
    PROVE  OldPrior(Built(d), k) = NoPrior
<1>1. <<>> \in Seq(Assignment)
  OBVIOUS
<1>2. AddsKey(<<>>, d, k)
  BY <1>1, AddsAll DEF Adds
<1> QED
  BY <1>2 DEF AddsKey, Continues

LEMMA MergeKey ==
    ASSUME NEW d, NEW e, NEW low, NEW high, Seam(d, e, low, high), NEW k,
           NEW c, c = Built(Cat(d, e)), NEW prior, prior = MergedPrior(high, low, k),
           k \in KeysOf(d) \cup KeysOf(e)
    PROVE  /\ Loose(prior, k)
           /\ k \notin Shared(d, e) \/ LayersClearly(d, e, k) => Clearly(c, k, prior)
           /\ low = Built(d) /\ high = Built(e) /\ (k \in Shared(d, e) => LayersExactly(d, e, k)) =>
                  prior = OldPrior(c, k)
<1> DEFINE x == Saved(low, k)
           o == OldPrior(low, k)
           p == OldPrior(high, k)
           q == OldPrior(c, k)
           folded == FoldOrSkipPrior(low.fields[k], k, NoPrior)
<1>1. /\ Loose(x, k) /\ Loose(o, k) /\ Loose(p, k) /\ Loose(q, k)
      /\ x = NoPrior => o = NoPrior
      /\ k \notin KeysOf(d) => x = NoPrior /\ o = NoPrior
      /\ k \notin KeysOf(e) => p = NoPrior /\ (o # NoPrior => q # NoPrior)
      /\ k \notin KeysOf(e) /\ k \in KeysOf(d) /\ ContainsSubst(low.fields[k], k) => o = q
      /\ k \in KeysOf(e) /\ (x # NoPrior \/ p # NoPrior) => q # NoPrior
      /\ k \in KeysOf(e) /\ ContainsSubst(high.fields[k], k) =>
             /\ x = NoPrior => q = p
             /\ SettlesBelow(e, k) => q = p /\ p # NoPrior
      /\ k \in KeysOf(e) /\ Single(e, k) => p = NoPrior /\ q = x
  BY SeamPriors
<1>2. /\ DOMAIN low.fields = KeysOf(d) /\ DOMAIN high.fields = KeysOf(e)
      /\ low \in BuiltTrees
      /\ k \in KeysOf(e) => c.fields[k] = high.fields[k]
      /\ k \in KeysOf(d) /\ k \notin KeysOf(e) => c.fields[k] = low.fields[k]
  BY SeamParts
<1>3. k \in KeysOf(e) => (Settles(e, k) <=> SettlesBelow(e, k) \/ ~ContainsSubst(high.fields[k], k))
  <2>1. e \in Seq(Assignment) /\ high.fields = Built(e).fields
    BY DEF Seam, Represents
  <2> QED
    BY <2>1, SettlesParts
<1>4. prior = IF p # NoPrior THEN p
              ELSE IF k \in Shared(d, e) /\ folded # NoPrior THEN folded
              ELSE o
  BY <1>2 DEF MergedPrior, Shared
<1>5. k \in KeysOf(d) => /\ low.fields[k] \in Layer /\ Loose(folded, k)
                         /\ x = FoldOrSkipPrior(low.fields[k], k, o)
                         /\ ~ContainsSubst(low.fields[k], k) => folded = low.fields[k] /\ x = low.fields[k]
  <2> SUFFICES ASSUME k \in KeysOf(d)
               PROVE  /\ low.fields[k] \in Layer /\ Loose(folded, k)
                      /\ x = FoldOrSkipPrior(low.fields[k], k, o)
                      /\ ~ContainsSubst(low.fields[k], k) =>
                             folded = low.fields[k] /\ x = low.fields[k]
    OBVIOUS
  <2>1. low.fields[k] \in Layer
    BY <1>2, BuiltParts
  <2>2. Loose(NoPrior, k)
    BY DEF Loose
  <2>3. Loose(folded, k)
    BY <2>1, <2>2, FoldNone
  <2>4. x = FoldOrSkipPrior(low.fields[k], k, o)
    BY <1>2 DEF Saved
  <2>5. ~ContainsSubst(low.fields[k], k) => folded = low.fields[k] /\ x = low.fields[k]
    BY <2>4 DEF FoldOrSkipPrior
  <2> QED
    BY <2>1, <2>3, <2>4, <2>5
<1>6. NoPrior \notin Layer
  BY DEF NoPrior, Layer
<1> HIDE DEF x, o, p, q, folded
<1>7. k \in KeysOf(d) => (folded # NoPrior => x # NoPrior)
  <2>1. CASE o = NoPrior
    BY <1>5, <2>1 DEF folded
  <2>2. CASE o # NoPrior
    BY <1>1, <2>2
  <2> QED
    BY <2>1, <2>2
<1>8. Loose(prior, k)
  BY <1>1, <1>4, <1>5 DEF Shared
<1>9. CASE k \notin KeysOf(e)
  <2>1. k \in KeysOf(d) /\ k \notin Shared(d, e) /\ p = NoPrior /\ prior = o
    BY <1>1, <1>4, <1>9 DEF Shared
  <2>2. Clearly(c, k, prior)
    BY <1>1, <1>2, <1>9, <2>1 DEF Clearly, q
  <2>3. low = Built(d) => prior = q
    <3>1. AddsKey(d, e, k)
      BY AddsAll DEF Adds, Seam
    <3> QED
      BY <1>9, <2>1, <3>1 DEF AddsKey, o, q
  <2> QED
    BY <1>8, <2>1, <2>2, <2>3 DEF q
<1>10. CASE k \in KeysOf(e) /\ k \notin KeysOf(d)
  <2>1. k \notin Shared(d, e) /\ x = NoPrior /\ o = NoPrior /\ prior = p
    BY <1>1, <1>4, <1>10 DEF Shared
  <2>2. Clearly(c, k, prior)
    BY <1>1, <1>2, <1>10, <2>1 DEF Clearly, q
  <2>3. high = Built(e) => prior = q
    <3>1. AddsKey(d, e, k)
      BY AddsAll DEF Adds, Seam
    <3>2. Saved(Built(d), k) = NoPrior
      BY <2>1, RepresentsSaved DEF Seam, x
    <3> QED
      BY <1>1, <1>10, <2>1, <3>1, <3>2 DEF AddsKey, Continues, p, q
  <2> QED
    BY <1>8, <2>1, <2>2, <2>3 DEF q
<1>11. CASE k \in Shared(d, e)
  <2>1. k \in KeysOf(d) /\ k \in KeysOf(e)
    BY <1>11 DEF Shared
  <2>2. prior # NoPrior => q # NoPrior
    BY <1>1, <1>4, <1>7, <2>1
  <2>3. Settles(e, k) => Clearly(c, k, prior)
    BY <1>1, <1>2, <1>3, <1>4, <2>1, <2>2 DEF Clearly, q
  <2>4. high = Built(e) /\ SettlesBelow(e, k) => prior = q
    <3>1. AddsKey(d, e, k)
      BY AddsAll DEF Adds, Seam
    <3> QED
      BY <1>4, <2>1, <3>1 DEF AddsKey, Continues, p, q
  <2>5. LayersSimply(d, e, k) => prior = q
    <3> SUFFICES ASSUME LayersSimply(d, e, k) PROVE prior = q
      OBVIOUS
    <3>1. p = NoPrior /\ q = x /\ (Single(d, k) \/ ~RefersBack(d, Last(d, k)))
      BY <1>1, <2>1 DEF LayersSimply
    <3>2. prior = IF folded # NoPrior THEN folded ELSE o
      BY <1>4, <1>11, <3>1
    <3>3. CASE ~RefersBack(d, Last(d, k))
      <4>1. d \in Seq(Assignment) /\ low.fields = Built(d).fields
        BY DEF Seam, Represents
      <4>2. ~ContainsSubst(low.fields[k], k)
        BY <2>1, <3>3, <4>1, SettlesParts
      <4> QED
        BY <1>5, <1>6, <2>1, <3>1, <3>2, <4>2
    <3>4. CASE Single(d, k)
      <4>1. OldPrior(Built(d), k) = NoPrior
        BY <2>1, <3>4, SingleNoPrior DEF Seam
      <4>2. o = NoPrior
        BY <4>1 DEF Seam, Represents, o
      <4>3. x = folded
        BY <1>5, <2>1, <4>2 DEF folded
      <4> QED
        BY <3>1, <3>2, <4>2, <4>3
    <3> QED
      BY <3>1, <3>3, <3>4
  <2>6. prior = q => Clearly(c, k, prior)
    BY DEF Clearly, q
  <2> QED
    BY <1>8, <1>11, <2>3, <2>4, <2>5, <2>6 DEF LayersClearly, LayersExactly, q
<1> QED
  BY <1>9, <1>10, <1>11 DEF Shared

-----------------------------------------------------------------------------
(* A merge of two trees, whatever priors it gives to the keys: the fields  *)
(* and their order are those of both documents together.                   *)
HasFieldsOf(t, d) ==
    /\ d \in Seq(Assignment) /\ t \in BuiltTrees
    /\ t.fields = Built(d).fields /\ t.order = Built(d).order

LEMMA BothFields ==
    ASSUME NEW d \in Seq(Assignment), NEW e \in Seq(Assignment)
    PROVE  /\ Cat(d, e) \in Seq(Assignment)
           /\ KeysOf(Cat(d, e)) = KeysOf(d) \cup KeysOf(e)
           /\ Built(Cat(d, e)).fields = Over(Built(e).fields, Built(d).fields)
           /\ Built(Cat(d, e)).order = WithKeys(Built(d).order, Built(e).order)
<1> DEFINE c == Built(Cat(d, e))
           f == Built(d).fields
           g == Built(e).fields
<1>1. Cat(d, e) \in Seq(Assignment)
  BY ConcatProperties DEF Cat
<1>2. /\ KeysOf(Cat(d, e)) = KeysOf(d) \cup KeysOf(e)
      /\ c.order = WithKeys(Built(d).order, Built(e).order)
      /\ \A k : AddsKey(d, e, k)
  BY AddsAll DEF Adds
<1>3. DOMAIN c.fields = KeysOf(Cat(d, e)) /\ c.fields \in [DOMAIN c.fields -> Layer]
  <2> DEFINE w == Cat(d, e)
  <2>1. w \in Seq(Assignment)
    BY <1>1
  <2> HIDE DEF w
  <2>2. Built(w) \in BuiltTrees /\ DOMAIN Built(w).fields = KeysOf(w)
    BY <2>1, BuiltSound
  <2>3. Built(w).fields \in [DOMAIN Built(w).fields -> Layer]
    BY <2>2, BuiltParts
  <2> QED
    BY <2>2, <2>3 DEF w
<1>4. DOMAIN f = KeysOf(d) /\ DOMAIN g = KeysOf(e)
  BY BuiltSound
<1>5. \A k : /\ k \in KeysOf(e) => c.fields[k] = g[k]
             /\ k \notin KeysOf(e) /\ k \in KeysOf(d) => c.fields[k] = f[k]
  BY <1>2 DEF AddsKey
<1> HIDE DEF c, f, g
<1>6. c.fields = Over(g, f)
  BY <1>2, <1>3, <1>4, <1>5 DEF Over
<1> QED
  BY <1>1, <1>2, <1>6 DEF c, f, g

MergesInto(t, d, e, low, high, prior) ==
    /\ HasFieldsOf(low, d) /\ HasFieldsOf(high, e)
    /\ DOMAIN prior = KeysOf(d) \cup KeysOf(e)
    /\ \A k \in KeysOf(d) \cup KeysOf(e) : Loose(prior[k], k)
    /\ t = TreeWith(WithKeys(low.order, high.order), Over(high.fields, low.fields), prior)

IsMergeOf(t, d, e, prior) ==
    /\ HasFieldsOf(t, Cat(d, e)) /\ KeysOf(Cat(d, e)) = KeysOf(d) \cup KeysOf(e)
    /\ \A k \in KeysOf(d) \cup KeysOf(e) : OldPrior(t, k) = prior[k]
    /\ \A k : k \notin KeysOf(d) \cup KeysOf(e) => OldPrior(t, k) = NoPrior

LEMMA JoinedFits ==
    ASSUME NEW d, NEW e, NEW low, NEW high, NEW prior, NEW t, MergesInto(t, d, e, low, high, prior)
    PROVE  IsMergeOf(t, d, e, prior)
<1>0. /\ HasFieldsOf(low, d) /\ HasFieldsOf(high, e)
      /\ DOMAIN prior = KeysOf(d) \cup KeysOf(e)
      /\ \A k \in KeysOf(d) \cup KeysOf(e) : Loose(prior[k], k)
      /\ t = TreeWith(WithKeys(low.order, high.order), Over(high.fields, low.fields), prior)
  BY DEF MergesInto
<1>1. /\ d \in Seq(Assignment) /\ low \in BuiltTrees
      /\ low.fields = Built(d).fields /\ low.order = Built(d).order
      /\ e \in Seq(Assignment) /\ high \in BuiltTrees
      /\ high.fields = Built(e).fields /\ high.order = Built(e).order
  BY <1>0 DEF HasFieldsOf
<1>2. /\ Cat(d, e) \in Seq(Assignment)
      /\ KeysOf(Cat(d, e)) = KeysOf(d) \cup KeysOf(e)
      /\ Built(Cat(d, e)).fields = Over(high.fields, low.fields)
      /\ Built(Cat(d, e)).order = WithKeys(low.order, high.order)
  BY <1>1, BothFields
<1> DEFINE fields == Over(high.fields, low.fields)
<1>3. DOMAIN fields = KeysOf(d) \cup KeysOf(e)
  BY <1>2, BuiltSound
<1> HIDE DEF fields
<1>4. /\ t \in BuiltTrees /\ t.order = WithKeys(low.order, high.order) /\ t.fields = fields
      /\ \A k \in DOMAIN fields : OldPrior(t, k) = prior[k]
      /\ \A k : k \notin DOMAIN fields => OldPrior(t, k) = NoPrior
  <2>1. Joins(t, low, high, fields, prior)
    BY <1>0, <1>1, <1>3 DEF fields, Joins
  <2>2. IsJoined(t, low, high, fields, prior)
    BY <2>1, TreeWithParts
  <2> QED
    BY <2>2 DEF IsJoined
<1> QED
  BY <1>2, <1>3, <1>4 DEF HasFieldsOf, fields, IsMergeOf

(* Priors that references cannot tell from those of the one document, and  *)
(* priors that are those.                                                  *)
LEMMA JoinedRepresents ==
    ASSUME NEW t, NEW d, HasFieldsOf(t, d),
           \A k \in KeysOf(d) : Clearly(Built(d), k, OldPrior(t, k)),
           \A k : k \notin KeysOf(d) => OldPrior(t, k) = NoPrior
    PROVE  Represents(t, d)
  BY DEF HasFieldsOf, Represents, Clearly

LEMMA JoinedSame ==
    ASSUME NEW t, NEW d, HasFieldsOf(t, d),
           \A k \in KeysOf(d) : OldPrior(t, k) = OldPrior(Built(d), k),
           \A k : k \notin KeysOf(d) => OldPrior(t, k) = NoPrior
    PROVE  t = Built(d)
<1>1. Built(d) \in BuiltTrees /\ DOMAIN Built(d).fields = KeysOf(d) /\ d \in Seq(Assignment)
  BY BuiltSound DEF HasFieldsOf
<1>2. \A k : k \notin KeysOf(d) => OldPrior(Built(d), k) = NoPrior
  BY <1>1, SavedNone
<1>3. \A k : OldPrior(t, k) = OldPrior(Built(d), k)
  BY <1>2
<1> QED
  BY <1>1, <1>3, SameTree DEF HasFieldsOf

(* A prior that a merge makes does not refer to its key.                   *)
LEMMA CarriedLoose ==
    ASSUME NEW dst, NEW src, dst.tree \in BuiltTrees, src.tree \in BuiltTrees, NEW k
    PROVE  Loose(CarriedOver(dst, src, k), k)
<1> DEFINE x == Saved(dst.tree, k)
           o == OldPrior(dst.tree, k)
           p == OldPrior(src.tree, k)
<1>1. Loose(x, k) /\ Loose(o, k) /\ Loose(p, k)
  BY SavedNone
<1>2. p # NoPrior /\ x # NoPrior => Loose(FoldKnownAbsent(p, k, x), k)
  <2> SUFFICES ASSUME p # NoPrior, x # NoPrior PROVE Loose(FoldKnownAbsent(p, k, x), k)
    OBVIOUS
  <2> HIDE DEF p, x
  <2>1. p \in Layer /\ ~ContainsSubst(p, k) /\ x \in Layer /\ ~ContainsSubst(x, k)
    BY <1>1 DEF Loose
  <2>2. FoldKnownAbsent(p, k, x) \in Layer /\ ~ContainsSubst(FoldKnownAbsent(p, k, x), k)
    BY <2>1, AbsentLayer
  <2> QED
    BY <2>2 DEF Loose
<1>3. CarriedOver(dst, src, k) \in {x, o, p}
      \/ (CarriedOver(dst, src, k) = FoldKnownAbsent(p, k, x) /\ p # NoPrior /\ x # NoPrior)
  BY DEF CarriedOver, SplicedPrior
<1> HIDE DEF x, o, p
<1> QED
  BY <1>1, <1>2, <1>3

LEMMA MergedLoose ==
    ASSUME NEW low \in BuiltTrees, NEW high \in BuiltTrees, NEW k
    PROVE  Loose(MergedPrior(high, low, k), k)
<1> DEFINE o == OldPrior(low, k)
           p == OldPrior(high, k)
           folded == FoldOrSkipPrior(low.fields[k], k, NoPrior)
<1>1. Loose(o, k) /\ Loose(p, k)
  BY SavedNone
<1>2. k \in DOMAIN low.fields => Loose(folded, k)
  <2> SUFFICES ASSUME k \in DOMAIN low.fields PROVE Loose(folded, k)
    OBVIOUS
  <2>1. low.fields[k] \in Layer /\ Loose(NoPrior, k)
    BY BuiltParts DEF Loose
  <2> QED
    BY <2>1, FoldNone
<1>3. MergedPrior(high, low, k) \in {o, p}
      \/ (MergedPrior(high, low, k) = folded /\ k \in DOMAIN low.fields)
  BY DEF MergedPrior
<1> HIDE DEF o, p, folded
<1> QED
  BY <1>1, <1>2, <1>3

LEMMA IncludedTree ==
    ASSUME NEW d, NEW e, NEW dst, NEW src, HasFieldsOf(dst.tree, d), HasFieldsOf(src.tree, e),
           \A k : k \in src.reset <=> k \in KeysOf(e) /\ Settles(e, k),
           NEW t, t = Splice(dst, src)
    PROVE  /\ HasFieldsOf(t, Cat(d, e)) /\ KeysOf(Cat(d, e)) = KeysOf(d) \cup KeysOf(e)
           /\ Represents(dst.tree, d) /\ Represents(src.tree, e)
                  /\ (\A k \in Shared(d, e) : IncludesClearly(e, k)) => Represents(t, Cat(d, e))
           /\ dst.tree = Built(d) /\ src.tree = Built(e)
                  /\ (\A k \in Shared(d, e) : IncludesExactly(e, k)) => t = Built(Cat(d, e))
<1> DEFINE c == Built(Cat(d, e))
           D == KeysOf(d) \cup KeysOf(e)
           low == dst.tree
           high == src.tree
           prior == [k \in D |-> CarriedOver(dst, src, k)]
<1>1. /\ d \in Seq(Assignment) /\ e \in Seq(Assignment)
      /\ low \in BuiltTrees /\ high \in BuiltTrees
      /\ DOMAIN low.fields = KeysOf(d) /\ DOMAIN high.fields = KeysOf(e)
  BY BuiltSound DEF HasFieldsOf
<1>2. t = TreeWith(WithKeys(low.order, high.order), Over(high.fields, low.fields), prior)
  <2>1. DOMAIN Over(high.fields, low.fields) = D
    BY <1>1 DEF Over
  <2> QED
    BY <2>1 DEF Splice
<1>3. \A k \in D : Loose(prior[k], k)
  BY <1>1, CarriedLoose
<1>4. DOMAIN prior = D /\ \A k \in D : prior[k] = CarriedOver(dst, src, k)
  OBVIOUS
<1>5. /\ HasFieldsOf(t, Cat(d, e)) /\ KeysOf(Cat(d, e)) = D
      /\ \A k \in D : OldPrior(t, k) = prior[k]
      /\ \A k : k \notin D => OldPrior(t, k) = NoPrior
  <2> HIDE DEF prior, low, high
  <2>1. HasFieldsOf(low, d) /\ HasFieldsOf(high, e)
    BY DEF low, high
  <2>2. MergesInto(t, d, e, low, high, prior)
    BY <1>2, <1>3, <1>4, <2>1 DEF MergesInto
  <2>3. IsMergeOf(t, d, e, prior)
    BY <2>2, JoinedFits
  <2> QED
    BY <2>3 DEF IsMergeOf
<1> HIDE DEF prior, D, c
<1>6. ASSUME Represents(low, d), Represents(high, e), \A k \in Shared(d, e) : IncludesClearly(e, k)
      PROVE  Represents(t, Cat(d, e))
  <2>1. Seam(d, e, low, high)
    BY <1>1, <1>6 DEF Seam
  <2>2. \A k \in D : Clearly(c, k, OldPrior(t, k))
    BY <1>4, <1>5, <1>6, <2>1, SpliceKey DEF D, c
  <2> QED
    BY <1>5, <2>2, JoinedRepresents DEF c
<1>7. ASSUME low = Built(d), high = Built(e), \A k \in Shared(d, e) : IncludesExactly(e, k)
      PROVE  t = c
  <2>1. Seam(d, e, low, high)
    BY <1>1, <1>7, BuiltRepresents DEF Seam
  <2>2. \A k \in D : OldPrior(t, k) = OldPrior(c, k)
    BY <1>4, <1>5, <1>7, <2>1, SpliceKey DEF D, c
  <2> QED
    BY <1>5, <2>2, JoinedSame DEF c
<1> QED
  BY <1>5, <1>6, <1>7 DEF D, c

LEMMA LayeredTree ==
    ASSUME NEW d, NEW e, NEW low, NEW high, HasFieldsOf(low, d), HasFieldsOf(high, e),
           NEW t, t = MergeUnresolved(high, low)
    PROVE  /\ HasFieldsOf(t, Cat(d, e)) /\ KeysOf(Cat(d, e)) = KeysOf(d) \cup KeysOf(e)
           /\ Represents(low, d) /\ Represents(high, e)
                  /\ (\A k \in Shared(d, e) : LayersClearly(d, e, k)) => Represents(t, Cat(d, e))
           /\ low = Built(d) /\ high = Built(e)
                  /\ (\A k \in Shared(d, e) : LayersExactly(d, e, k)) => t = Built(Cat(d, e))
<1> DEFINE c == Built(Cat(d, e))
           D == KeysOf(d) \cup KeysOf(e)
           prior == [k \in D |-> MergedPrior(high, low, k)]
<1>1. /\ d \in Seq(Assignment) /\ e \in Seq(Assignment)
      /\ low \in BuiltTrees /\ high \in BuiltTrees
      /\ DOMAIN low.fields = KeysOf(d) /\ DOMAIN high.fields = KeysOf(e)
  BY BuiltSound DEF HasFieldsOf
<1>2. t = TreeWith(WithKeys(low.order, high.order), Over(high.fields, low.fields), prior)
  <2>1. DOMAIN Over(high.fields, low.fields) = D
    BY <1>1 DEF Over
  <2> QED
    BY <2>1 DEF MergeUnresolved
<1>3. \A k \in D : Loose(prior[k], k)
  BY <1>1, MergedLoose
<1>4. DOMAIN prior = D /\ \A k \in D : prior[k] = MergedPrior(high, low, k)
  OBVIOUS
<1>5. /\ HasFieldsOf(t, Cat(d, e)) /\ KeysOf(Cat(d, e)) = D
      /\ \A k \in D : OldPrior(t, k) = prior[k]
      /\ \A k : k \notin D => OldPrior(t, k) = NoPrior
  <2> HIDE DEF prior
  <2>1. MergesInto(t, d, e, low, high, prior)
    BY <1>2, <1>3, <1>4 DEF MergesInto
  <2>2. IsMergeOf(t, d, e, prior)
    BY <2>1, JoinedFits
  <2> QED
    BY <2>2 DEF IsMergeOf
<1> HIDE DEF prior, D, c
<1>6. ASSUME Represents(low, d), Represents(high, e), \A k \in Shared(d, e) : LayersClearly(d, e, k)
      PROVE  Represents(t, Cat(d, e))
  <2>1. Seam(d, e, low, high)
    BY <1>1, <1>6 DEF Seam
  <2>2. \A k \in D : Clearly(c, k, OldPrior(t, k))
    BY <1>4, <1>5, <1>6, <2>1, MergeKey DEF D, c
  <2> QED
    BY <1>5, <2>2, JoinedRepresents DEF c
<1>7. ASSUME low = Built(d), high = Built(e), \A k \in Shared(d, e) : LayersExactly(d, e, k)
      PROVE  t = c
  <2>1. Seam(d, e, low, high)
    BY <1>1, <1>7, BuiltRepresents DEF Seam
  <2>2. \A k \in D : OldPrior(t, k) = OldPrior(c, k)
    BY <1>4, <1>5, <1>7, <2>1, MergeKey DEF D, c
  <2> QED
    BY <1>5, <2>2, JoinedSame DEF c
<1> QED
  BY <1>5, <1>6, <1>7 DEF D, c

-----------------------------------------------------------------------------
(* The invariant.  A piece has the fields of the document that it was made *)
(* of, and where the conditions held so far, its tree or one that          *)
(* references cannot tell from it; the keys that a text has set anew are   *)
(* those that the next seam takes its own layers of.                       *)
PieceRecord ==
    [tree : BuiltTrees, reset : SUBSET Keys, doc : Seq(Assignment), exact : BOOLEAN, clear : BOOLEAN]
Sound(b) ==
    /\ HasFieldsOf(b.tree, b.doc)
    /\ b.exact => b.tree = Built(b.doc)
    /\ b.clear => Represents(b.tree, b.doc)
SetAnew(b) == \A k : k \in b.reset <=> k \in KeysOf(b.doc) /\ Settles(b.doc, k)

Configurations == {b \in PieceRecord : Sound(b)}
Texts == {b \in Configurations : SetAnew(b)}

LayeredInv ==
    /\ building \in Seq(Texts) /\ building # <<>>
    /\ configs \in SUBSET Configurations

LEMMA EmptyPieceGood == EmptyPiece \in Texts
<1> DEFINE b == EmptyPiece
<1>1. /\ b.tree = EmptyTree /\ b.reset = {} /\ b.doc = <<>> /\ b.exact = TRUE /\ b.clear = TRUE
      /\ b = [tree |-> EmptyTree, reset |-> {}, doc |-> <<>>, exact |-> TRUE, clear |-> TRUE]
  BY DEF EmptyPiece
<1>2. <<>> \in Seq(Assignment) /\ KeysOf(<<>>) = {} /\ Built(<<>>) = EmptyTree
  BY EmptyDocument
<1>3. Built(<<>>) \in BuiltTrees
  BY <1>2, BuiltSound
<1>4. Represents(EmptyTree, <<>>)
  BY <1>2, BuiltRepresents
<1>5. b \in PieceRecord
  BY <1>1, <1>2, <1>3 DEF PieceRecord
<1> HIDE DEF b
<1>6. Sound(b)
  BY <1>1, <1>2, <1>3, <1>4 DEF Sound, HasFieldsOf
<1>7. SetAnew(b)
  BY <1>1, <1>2 DEF SetAnew
<1> QED
  BY <1>5, <1>6, <1>7 DEF Texts, Configurations, b

LEMMA FieldGood ==
    ASSUME NEW b \in Texts, NEW a \in Assignment
    PROVE  WithField(b, a) \in Texts
<1> DEFINE d == b.doc
           w == Longer(d, a)
           t == Assign(b.tree, a.key, a.layer)
           r == Reset(b.reset, a)
           v == WithField(b, a)
<1>1. /\ b \in PieceRecord /\ Sound(b) /\ SetAnew(b)
      /\ d \in Seq(Assignment) /\ b.tree \in BuiltTrees /\ b.reset \in SUBSET Keys
      /\ b.exact \in BOOLEAN /\ b.clear \in BOOLEAN
  BY DEF Texts, Configurations, PieceRecord
<1>2. w \in Seq(Assignment) /\ KeysOf(w) = KeysOf(d) \cup {a.key} /\ a.key \in Keys /\ a.layer \in Layer
  BY <1>1, AppendParts
<1>3. Built(w) = Assign(Built(d), a.key, a.layer)
  BY <1>1, BuiltAppend
<1>4. v = [tree |-> t, reset |-> r, doc |-> w, exact |-> b.exact, clear |-> b.clear]
  <2>1. b = [tree |-> b.tree, reset |-> b.reset, doc |-> d, exact |-> b.exact, clear |-> b.clear]
    BY <1>1 DEF PieceRecord
  <2>2. v = [b EXCEPT !.tree = t, !.reset = r, !.doc = w]
    BY <2>1 DEF WithField, Longer
  <2> HIDE DEF t, r, w, d, v
  <2> QED
    BY <2>1, <2>2
<1>5. t \in BuiltTrees
  BY <1>1, <1>2, AssignParts
<1>6. r \in SUBSET Keys
  BY <1>1, <1>2 DEF Reset
<1>7. v \in PieceRecord
  BY <1>1, <1>2, <1>4, <1>5, <1>6 DEF PieceRecord
<1>8. v.tree = t /\ v.reset = r /\ v.doc = w /\ v.exact = b.exact /\ v.clear = b.clear
  BY <1>4
<1>9. HasFieldsOf(t, w)
  <2>1. b.tree.fields = Built(d).fields /\ b.tree.order = Built(d).order
    BY <1>1 DEF Sound, HasFieldsOf
  <2>2. t.fields = Built(w).fields /\ t.order = Built(w).order
    BY <1>3, <2>1 DEF Assign
  <2> QED
    BY <1>2, <1>5, <2>2 DEF HasFieldsOf
<1>10. b.exact => t = Built(w)
  BY <1>1, <1>3 DEF Sound
<1>11. b.clear => Represents(t, w)
  BY <1>1, RepresentsField DEF Sound
<1>12. SetAnew(v)
  <2>1. \A k : k \in r <=> k \in b.reset \/ (k = a.key /\ ~ContainsSubst(a.layer, a.key))
    BY DEF Reset
  <2>2. \A k : Settles(w, k) <=> Settles(d, k) \/ (k = a.key /\ ~ContainsSubst(a.layer, k))
    BY <1>1, SettlesAppend
  <2>3. \A k : k \notin KeysOf(d) => ~Settles(d, k)
    BY <1>1, SettlesParts
  <2> HIDE DEF r, w, v, d
  <2>4. \A k : k \in b.reset <=> k \in KeysOf(d) /\ Settles(d, k)
    BY <1>1 DEF SetAnew, d
  <2>5. \A k : k \in r <=> k \in KeysOf(w) /\ Settles(w, k)
    BY <1>2, <2>1, <2>2, <2>3, <2>4
  <2> QED
    BY <1>8, <2>5 DEF SetAnew
<1> HIDE DEF v, t, w, r
<1>13. Sound(v)
  BY <1>8, <1>9, <1>10, <1>11 DEF Sound
<1> QED
  BY <1>7, <1>12, <1>13 DEF Texts, Configurations, v

LEMMA IncludedGood ==
    ASSUME NEW dst \in Texts, NEW src \in Texts
    PROVE  Included(dst, src) \in Texts
<1> DEFINE d == dst.doc
           e == src.doc
           t == Splice(dst, src)
           v == Included(dst, src)
           exact == v.exact
           clear == v.clear
<1>1. /\ dst \in PieceRecord /\ Sound(dst) /\ SetAnew(dst) /\ src \in PieceRecord /\ Sound(src) /\ SetAnew(src)
      /\ d \in Seq(Assignment) /\ e \in Seq(Assignment)
      /\ dst.reset \in SUBSET Keys /\ src.reset \in SUBSET Keys
      /\ dst.exact \in BOOLEAN /\ src.exact \in BOOLEAN /\ dst.clear \in BOOLEAN /\ src.clear \in BOOLEAN
  BY DEF Texts, Configurations, PieceRecord
<1>2. /\ v = [tree |-> t, reset |-> dst.reset \cup src.reset, doc |-> Cat(d, e), exact |-> exact,
              clear |-> clear]
      /\ v.tree = t /\ v.reset = dst.reset \cup src.reset /\ v.doc = Cat(d, e)
      /\ exact = (dst.exact /\ src.exact /\ \A k \in Shared(d, e) : IncludesExactly(e, k))
      /\ clear = (dst.clear /\ src.clear /\ \A k \in Shared(d, e) : IncludesClearly(e, k))
  BY DEF Included, Cat
<1>3. exact \in BOOLEAN /\ clear \in BOOLEAN
  BY <1>2
<1>4. HasFieldsOf(dst.tree, d) /\ HasFieldsOf(src.tree, e)
  BY <1>1 DEF Sound
<1>5. /\ \A k : k \in dst.reset <=> k \in KeysOf(d) /\ Settles(d, k)
      /\ \A k : k \in src.reset <=> k \in KeysOf(e) /\ Settles(e, k)
  BY <1>1 DEF SetAnew
<1> HIDE DEF v, d, e, t, exact, clear
<1>6. /\ HasFieldsOf(t, Cat(d, e)) /\ KeysOf(Cat(d, e)) = KeysOf(d) \cup KeysOf(e)
      /\ Represents(dst.tree, d) /\ Represents(src.tree, e)
             /\ (\A k \in Shared(d, e) : IncludesClearly(e, k)) => Represents(t, Cat(d, e))
      /\ dst.tree = Built(d) /\ src.tree = Built(e)
             /\ (\A k \in Shared(d, e) : IncludesExactly(e, k)) => t = Built(Cat(d, e))
  BY <1>4, <1>5, IncludedTree DEF t
<1>7. v \in PieceRecord
  <2>1. t \in BuiltTrees /\ Cat(d, e) \in Seq(Assignment)
    BY <1>6 DEF HasFieldsOf
  <2>2. dst.reset \cup src.reset \in SUBSET Keys
    BY <1>1
  <2> QED
    BY <1>2, <1>3, <2>1, <2>2 DEF PieceRecord
<1>8. exact => t = Built(Cat(d, e))
  <2> SUFFICES ASSUME exact PROVE t = Built(Cat(d, e))
    OBVIOUS
  <2>1. dst.exact /\ src.exact /\ \A k \in Shared(d, e) : IncludesExactly(e, k)
    BY <1>2
  <2>2. dst.tree = Built(d) /\ src.tree = Built(e)
    BY <1>1, <2>1 DEF Sound, d, e
  <2> QED
    BY <1>6, <2>1, <2>2
<1>9. clear => Represents(t, Cat(d, e))
  <2> SUFFICES ASSUME clear PROVE Represents(t, Cat(d, e))
    OBVIOUS
  <2>1. dst.clear /\ src.clear /\ \A k \in Shared(d, e) : IncludesClearly(e, k)
    BY <1>2
  <2>2. Represents(dst.tree, d) /\ Represents(src.tree, e)
    BY <1>1, <2>1 DEF Sound, d, e
  <2> QED
    BY <1>6, <2>1, <2>2
<1>10. Sound(v)
  BY <1>2, <1>6, <1>8, <1>9 DEF Sound, exact, clear
<1>11. SetAnew(v)
  <2>1. \A k : Settles(Cat(d, e), k) <=> Settles(d, k) \/ Settles(e, k)
    BY <1>1, AddsAll DEF Adds, d, e
  <2>2. \A k : (k \notin KeysOf(d) => ~Settles(d, k)) /\ (k \notin KeysOf(e) => ~Settles(e, k))
    BY <1>1, SettlesParts DEF d, e
  <2>3. \A k : k \in v.reset <=> k \in KeysOf(Cat(d, e)) /\ Settles(Cat(d, e), k)
    BY <1>2, <1>5, <1>6, <2>1, <2>2
  <2> QED
    BY <1>2, <2>3 DEF SetAnew
<1> QED
  BY <1>7, <1>10, <1>11 DEF Texts, Configurations, v

LEMMA LayeredGood ==
    ASSUME NEW high \in Configurations, NEW low \in Configurations
    PROVE  Layered(high, low) \in Configurations
<1> DEFINE d == low.doc
           e == high.doc
           t == MergeUnresolved(high.tree, low.tree)
           v == Layered(high, low)
           exact == v.exact
           clear == v.clear
<1>1. /\ high \in PieceRecord /\ Sound(high) /\ low \in PieceRecord /\ Sound(low)
      /\ high.exact \in BOOLEAN /\ low.exact \in BOOLEAN /\ high.clear \in BOOLEAN /\ low.clear \in BOOLEAN
  BY DEF Configurations, PieceRecord
<1>2. /\ v = [tree |-> t, reset |-> {}, doc |-> Cat(d, e), exact |-> exact, clear |-> clear]
      /\ v.tree = t /\ v.reset = {} /\ v.doc = Cat(d, e)
      /\ exact = (high.exact /\ low.exact /\ \A k \in Shared(d, e) : LayersExactly(d, e, k))
      /\ clear = (high.clear /\ low.clear /\ \A k \in Shared(d, e) : LayersClearly(d, e, k))
  BY DEF Layered, Cat
<1>3. exact \in BOOLEAN /\ clear \in BOOLEAN
  BY <1>2
<1>4. HasFieldsOf(low.tree, d) /\ HasFieldsOf(high.tree, e)
  BY <1>1 DEF Sound
<1> HIDE DEF v, d, e, t, exact, clear
<1>5. /\ HasFieldsOf(t, Cat(d, e))
      /\ Represents(low.tree, d) /\ Represents(high.tree, e)
             /\ (\A k \in Shared(d, e) : LayersClearly(d, e, k)) => Represents(t, Cat(d, e))
      /\ low.tree = Built(d) /\ high.tree = Built(e)
             /\ (\A k \in Shared(d, e) : LayersExactly(d, e, k)) => t = Built(Cat(d, e))
  BY <1>4, LayeredTree DEF t
<1>6. v \in PieceRecord
  <2>1. t \in BuiltTrees /\ Cat(d, e) \in Seq(Assignment)
    BY <1>5 DEF HasFieldsOf
  <2> QED
    BY <1>2, <1>3, <2>1 DEF PieceRecord
<1>7. exact => t = Built(Cat(d, e))
  <2> SUFFICES ASSUME exact PROVE t = Built(Cat(d, e))
    OBVIOUS
  <2>1. high.exact /\ low.exact /\ \A k \in Shared(d, e) : LayersExactly(d, e, k)
    BY <1>2
  <2>2. low.tree = Built(d) /\ high.tree = Built(e)
    BY <1>1, <2>1 DEF Sound, d, e
  <2> QED
    BY <1>5, <2>1, <2>2
<1>8. clear => Represents(t, Cat(d, e))
  <2> SUFFICES ASSUME clear PROVE Represents(t, Cat(d, e))
    OBVIOUS
  <2>1. high.clear /\ low.clear /\ \A k \in Shared(d, e) : LayersClearly(d, e, k)
    BY <1>2
  <2>2. Represents(low.tree, d) /\ Represents(high.tree, e)
    BY <1>1, <2>1 DEF Sound, d, e
  <2> QED
    BY <1>5, <2>1, <2>2
<1>9. Sound(v)
  BY <1>2, <1>5, <1>7, <1>8 DEF Sound, exact, clear
<1> QED
  BY <1>6, <1>9 DEF Configurations, v

LEMMA LayeredStart == ConfigInit => LayeredInv
<1> SUFFICES ASSUME ConfigInit PROVE LayeredInv
  OBVIOUS
<1>1. building = <<EmptyPiece>> /\ configs = {}
  BY DEF ConfigInit
<1>2. <<EmptyPiece>> \in Seq(Texts) /\ <<EmptyPiece>> # <<>>
  BY EmptyPieceGood
<1> QED
  BY <1>1, <1>2 DEF LayeredInv

LEMMA SomeElements ==
    ASSUME NEW S, NEW m, NEW f, f \in [1..m -> S] /\ m \in Nat \ {0}
    PROVE  f \in Seq(S) /\ f # <<>>
<1>1. m \in Nat /\ 1 \in 1..m
  OBVIOUS
<1>2. f \in Seq(S)
  BY <1>1
<1>3. DOMAIN f # {}
  BY <1>1
<1> QED
  BY <1>2, <1>3

LEMMA LayeredStep == LayeredInv /\ [ConfigNext]_configVars => LayeredInv'
<1> SUFFICES ASSUME LayeredInv, [ConfigNext]_configVars PROVE LayeredInv'
  OBVIOUS
<1> USE DEF LayeredInv
<1>1. /\ building \in Seq(Texts) /\ Len(building) \in Nat \ {0}
      /\ DOMAIN building = 1..Len(building)
      /\ \A i \in 1..Len(building) : building[i] \in Texts
  OBVIOUS
<1>2. CASE SetField
  <2>1. PICK a \in Assignments : building' = [building EXCEPT ![Len(building)] = WithField(@, a)]
    BY <1>2 DEF SetField
  <2>2. WithField(building[Len(building)], a) \in Texts
    BY <1>1, FieldGood, AssignmentsAssumption
  <2>3. building' = [building EXCEPT ![Len(building)] = WithField(building[Len(building)], a)]
    BY <2>1
  <2>4. building' \in Seq(Texts) /\ building' # <<>>
    BY <1>1, <2>2, <2>3
  <2> QED
    BY <1>2, <2>4 DEF SetField
<1>3. CASE BeginInclude
  <2>1. building' = Append(building, EmptyPiece) /\ configs' = configs
    BY <1>3 DEF BeginInclude
  <2> QED
    BY <1>1, <2>1, EmptyPieceGood
<1>4. CASE EndInclude
  <2> DEFINE n == Len(building)
             v == Included(building[n - 1], building[n])
  <2>1. /\ n > 1 /\ configs' = configs
        /\ building' = [i \in 1..n - 1 |-> IF i = n - 1 THEN v ELSE building[i]]
    <3>1. /\ n > 1 /\ configs' = configs
          /\ building' = [i \in 1..n - 1 |-> IF i = n - 1 THEN Included(building[i], building[n])
                                                          ELSE building[i]]
      BY <1>4 DEF EndInclude
    <3> QED
      BY <1>1, <3>1
  <2>2. n \in Nat /\ n - 1 \in 1..n /\ n \in 1..n /\ 1..n - 1 \subseteq 1..n
    <3>1. n \in Nat \ {0} /\ n > 1
      BY ONLY <1>1, <2>1
    <3> HIDE DEF n
    <3> QED
      BY ONLY <3>1
  <2>3. \A i \in 1..n : building[i] \in Texts
    BY <1>1
  <2>4. v \in Texts
    BY <2>2, <2>3, IncludedGood
  <2> HIDE DEF v, n
  <2>5. \A i \in 1..n - 1 : (IF i = n - 1 THEN v ELSE building[i]) \in Texts
    BY <2>2, <2>3, <2>4
  <2>6. building' \in [1..n - 1 -> Texts] /\ n - 1 \in Nat \ {0}
    BY <2>1, <2>2, <2>5
  <2>7. building' \in Seq(Texts) /\ building' # <<>>
    BY ONLY <2>6, SomeElements
  <2> QED
    BY <2>1, <2>7
<1>5. CASE Parse
  <2>1. building' = <<EmptyPiece>> /\ configs' = configs \cup {building[1]}
    BY <1>5 DEF Parse
  <2>2. building[1] \in Configurations
    BY <1>1 DEF Texts
  <2>3. <<EmptyPiece>> \in Seq(Texts) /\ <<EmptyPiece>> # <<>>
    BY EmptyPieceGood
  <2> QED
    BY <2>1, <2>2, <2>3
<1>6. CASE WithFallback
  <2>1. PICK receiver \in configs, fallback \in configs :
            configs' = configs \cup {Layered(receiver, fallback)}
    BY <1>6 DEF WithFallback
  <2>2. Layered(receiver, fallback) \in Configurations
    BY LayeredGood
  <2> QED
    BY <1>6, <2>1, <2>2 DEF WithFallback
<1>7. CASE UNCHANGED configVars
  BY <1>7 DEF configVars
<1> QED
  BY <1>2, <1>3, <1>4, <1>5, <1>6, <1>7 DEF ConfigNext

LEMMA PiecesAreConfigurations == LayeredInv => \A b \in Pieces : b \in Configurations
<1> SUFFICES ASSUME LayeredInv, NEW b \in Pieces PROVE b \in Configurations
  OBVIOUS
<1>1. /\ building \in Seq(Texts) /\ configs \in SUBSET Configurations
  BY DEF LayeredInv
<1>2. \A i \in DOMAIN building : building[i] \in Texts
  BY <1>1
<1> QED
  BY <1>1, <1>2 DEF Pieces, Texts

LEMMA LayeredTreesAreSound == LayeredInv => TreesAreSound
<1> SUFFICES ASSUME LayeredInv, NEW b \in Pieces
             PROVE  /\ IsTree(b.tree)
                    /\ DOMAIN b.tree.fields = KeysOf(b.doc)
                    /\ \A k \in KeysOf(b.doc) : b.tree.fields[k] = b.doc[Last(b.doc, k)].layer
  BY DEF TreesAreSound
<1> DEFINE d == b.doc
           t == b.tree
<1>1. d \in Seq(Assignment) /\ t \in BuiltTrees /\ t.fields = Built(d).fields
  BY PiecesAreConfigurations DEF Configurations, Sound, HasFieldsOf
<1> HIDE DEF d, t
<1>2. IsTree(t) /\ DOMAIN Built(d).fields = KeysOf(d)
  BY <1>1, BuiltParts, BuiltSound
<1>3. \A k \in KeysOf(d) : Built(d).fields[k] = d[Last(d, k)].layer
  BY <1>1, DocumentEnds DEF HasEnds
<1> QED
  BY <1>1, <1>2, <1>3 DEF d, t

LEMMA LayeredExact == LayeredInv => ExactPiecesAreOneDocument
  BY PiecesAreConfigurations DEF ExactPiecesAreOneDocument, Configurations, Sound

-----------------------------------------------------------------------------
(* A tree that references cannot tell from that of a document means what   *)
(* the document means, where that does not depend on what is below a layer *)
(* that comes to nothing.                                                  *)
LEMMA PieceMeaning ==
    ASSUME NEW d, NEW t, NEW lv, NEW tl, Represents(t, d), Final(d, t, lv, tl), NEW k \in KeysOf(d),
           NEW s, s = Stack(d, k, lv), IsGood(Seen(s))
    PROVE  KeyMeaning(t, k, tl) = Seen(s) /\ FieldMeaning(t, k, tl) = Seen(s)
<1> DEFINE b == Built(d)
           layer == t.fields[k]
           below == s.below
           ms == OverParts(d, k, layer, below, lv)
           ts == LayerMeanings(t, k, tl)
           n == Len(layer)
<1>1. /\ d \in Seq(Assignment) /\ IsTree(t) /\ lv \in LevelIn(d) /\ tl \in LevelOf(t)
      /\ DOMAIN t.fields = KeysOf(d) /\ Len(d) \in 0..Len(d)
      /\ t.fields = b.fields /\ t \in BuiltTrees /\ b \in BuiltTrees
      /\ \A j : OldPrior(t, j) # NoPrior => OldPrior(b, j) # NoPrior
      /\ ContainsSubst(layer, k) => OldPrior(t, k) = OldPrior(b, k)
  BY BuiltSound DEF Final, Represents
<1>2. s \in StackSet /\ s.top \in Meaning /\ below \in Laid
  BY <1>1, WholeStack, SeenType
<1>3. Agree(d, k, lv, t, tl, b, s)
  <2>1. b = Building(d)[Len(d)] /\ s = Stacks(d, k, lv)[Len(d)]
    BY DEF Built, Stack
  <2> QED
    BY <1>1, <2>1, AgreeAll
<1>4. /\ OldPrior(t, k) = NoPrior <=> k \notin DOMAIN t.priors
      /\ OldPrior(b, k) = NoPrior <=> k \notin DOMAIN b.priors
  BY <1>1, SavedNone
<1> HIDE DEF b
<1>5. layer \in Layer /\ Written(layer) /\ s.top = LayerOver(d, k, layer, below, lv)
  BY <1>1, <1>3 DEF IsTree, Agree
<1>6. /\ below = NoLayer => k \notin DOMAIN t.priors
      /\ ContainsSubst(layer, k) /\ IsGood(below) =>
             k \in DOMAIN t.priors /\ PriorMeaning(t, k, tl) = below
  <2>1. below = NoLayer => OldPrior(b, k) = NoPrior
    BY <1>3, <1>4 DEF Agree
  <2>2. ASSUME ContainsSubst(layer, k), IsGood(below)
        PROVE  k \in DOMAIN t.priors /\ PriorMeaning(t, k, tl) = below
    <3>1. k \in DOMAIN b.priors /\ PlainTogether(t, b.priors[k], tl) = below
      BY <1>3, <2>2 DEF Agree
    <3>2. k \in DOMAIN t.priors /\ t.priors[k] = b.priors[k]
      BY <1>1, <1>4, <2>2, <3>1 DEF OldPrior
    <3>3. PlainTogether(t, t.priors[k], tl) = PriorMeaning(t, k, tl)
      BY DEF PlainTogether, PlainParts, PriorMeaning, PriorMeanings
    <3> QED
      BY <3>1, <3>2, <3>3
  <2> QED
    BY <1>1, <1>4, <2>1, <2>2
<1>7. IsGood(s.top) /\ Seen(s) = s.top /\ ~LeavesToBelow(s)
  BY SeenGood
<1>8. /\ n \in Nat /\ DOMAIN layer = 1..n /\ layer \in Seq(Part)
      /\ \A i \in 1..n : layer[i] \in Part
  BY <1>5 DEF Layer
<1>9. /\ s.top = Together(ms, n)
      /\ \A i \in 1..n : /\ ms[i] \in Meaning
                         /\ ms[i] = PartOver(d, k, layer[i], below, lv)
                         /\ IsGood(s.top) => IsGood(ms[i])
  <2> HIDE DEF ms, layer, below
  <2>1. ms = OverParts(d, k, layer, below, lv)
    BY DEF ms
  <2> QED
    BY <1>1, <1>2, <1>5, <2>1, LayerOverParts
<1>10. \A i \in 1..n : IsReference(layer[i]) => ~layer[i].absent
  BY <1>5, <1>8 DEF Written
<1>11. /\ LayerMeaning(t, k, tl) = Together(ts, n)
       /\ \A i \in 1..n : ts[i] \in Meaning /\ ts[i] = PartMeaning(t, k, layer[i], tl)
  BY <1>1, LayerType DEF LayerMeaning
<1> HIDE DEF ms, n, layer, below, ts
<1>12. ASSUME NEW i \in 1..n PROVE ts[i] = ms[i]
  <2>1. IsGood(ms[i])
    BY <1>7, <1>9
  <2>2. CASE ~RefersTo(layer[i], k)
    <3>1. ms[i] = OtherMeaning(d, layer[i], lv)
      BY <1>9, <2>2 DEF PartOver
    <3>2. layer[i] \in Part /\ (IsReference(layer[i]) => ~layer[i].absent)
      BY <1>8, <1>10
    <3>3. PlainMeaning(t, layer[i], tl) = ms[i]
      BY <2>1, <3>1, <3>2, OtherIsPlain
    <3> QED
      BY <1>11, <2>2, <3>3 DEF PartMeaning
  <2>3. CASE RefersTo(layer[i], k) /\ below = NoLayer
    <3>1. ms[i] = NoProvider(layer[i]) /\ k \notin DOMAIN t.priors
      BY <1>6, <1>9, <2>3 DEF PartOver
    <3> QED
      BY <1>11, <2>3, <3>1 DEF PartMeaning
  <2>4. CASE RefersTo(layer[i], k) /\ below # NoLayer
    <3>1. ms[i] = Demanded(layer[i], below) /\ ContainsSubst(layer, k)
      BY <1>8, <1>9, <2>4 DEF PartOver, ContainsSubst
    <3>2. k \in DOMAIN t.priors /\ PriorMeaning(t, k, tl) = below
      <4>1. IsGood(below)
        BY <1>2, <2>1, <2>4, <3>1, DemandedParts DEF Laid
      <4> QED
        BY <1>6, <3>1, <4>1
    <3> QED
      BY <1>11, <2>4, <3>1, <3>2 DEF PartMeaning
  <2> QED
    BY <2>2, <2>3, <2>4
<1>13. LayerMeaning(t, k, tl) = s.top
  <2>1. \A i \in 1..n : ms[i] \in Meaning /\ ts[i] \in Meaning
    BY <1>9, <1>11
  <2>2. \A i \in 1..n : IsGood(ms[i]) => ts[i] = ms[i]
    BY <1>12
  <2>3. IsGood(Together(ms, n))
    BY <1>7, <1>9
  <2>4. Together(ts, n) = Together(ms, n)
    BY <1>8, <2>1, <2>2, <2>3, TogetherSame
  <2> QED
    BY <1>9, <1>11, <2>4
<1>14. ~ComesToNothing(t, k, s.top)
  <2>1. s.top.value.found \/ below = NoLayer
    BY <1>7 DEF LeavesToBelow, below
  <2> QED
    BY <1>6, <2>1 DEF ComesToNothing
<1> QED
  BY <1>7, <1>13, <1>14 DEF KeyMeaning, FieldMeaning

LEMMA PieceLevels ==
    ASSUME NEW d \in Seq(Assignment), NEW t, Represents(t, d)
    PROVE  \A n \in Nat : Final(d, t, DocumentLevels(d)[n], Levels(t)[n])
<1> DEFINE lv == DocumentLevels(d)
           tl == Levels(t)
           G == {n \in Nat : Final(d, t, lv[n], tl[n])}
<1>1. IsTree(t) /\ DOMAIN t.fields = KeysOf(d)
  BY BuiltSound, BuiltParts DEF Represents
<1>2. \A n \in Nat : lv[n] \in LevelIn(d) /\ tl[n] \in LevelOf(t)
  BY <1>1, DocumentSteps, LevelsSteps
<1>3. 0 \in G
  <2>1. \A k \in KeysOf(d) : ~IsGood(lv[0][k])
    BY DocumentSteps, MeaningTypes
  <2> QED
    BY <1>1, <1>2, <2>1 DEF Final
<1>4. ASSUME NEW n \in Nat, n \in G PROVE n + 1 \in G
  <2>1. Final(d, t, lv[n], tl[n])
    BY <1>4
  <2>2. ASSUME NEW k \in KeysOf(d), IsGood(lv[n + 1][k]) PROVE tl[n + 1][k] = lv[n + 1][k]
    <3>1. lv[n + 1][k] = Seen(Stack(d, k, lv[n]))
      BY DocumentSteps
    <3>2. tl[n + 1][k] = KeyMeaning(t, k, tl[n])
      BY <1>1, LevelsSteps DEF Level
    <3> HIDE DEF lv, tl
    <3> DEFINE s == Stack(d, k, lv[n])
    <3>3. IsGood(Seen(s)) => KeyMeaning(t, k, tl[n]) = Seen(s)
      <4> HIDE DEF s
      <4>1. s = Stack(d, k, lv[n])
        BY DEF s
      <4> QED
        BY <2>1, <4>1, PieceMeaning
    <3> QED
      BY <2>2, <3>1, <3>2, <3>3
  <2>3. n + 1 \in Nat
    OBVIOUS
  <2>4. Final(d, t, lv[n + 1], tl[n + 1])
    BY <1>1, <1>2, <2>2, <2>3 DEF Final
  <2> QED
    BY <2>3, <2>4
<1> HIDE DEF G
<1>5. \A n \in Nat : n \in G
  BY <1>3, <1>4, SetInduction
<1> QED
  BY <1>5 DEF G

LEMMA LayeredMeanings == Depth \in Nat /\ LayeredInv => ClearPiecesKeepMeanings
<1> SUFFICES ASSUME Depth \in Nat, LayeredInv, NEW b \in Pieces, b.clear, NEW k \in KeysOf(b.doc),
                    IsGood(Seen(Stack(b.doc, k, DocumentLevels(b.doc)[Depth])))
             PROVE  FieldMeaning(b.tree, k, Levels(b.tree)[Depth]) =
                        Seen(Stack(b.doc, k, DocumentLevels(b.doc)[Depth]))
  BY DEF ClearPiecesKeepMeanings
<1> DEFINE d == b.doc
           t == b.tree
           lv == DocumentLevels(d)[Depth]
           tl == Levels(t)[Depth]
           s == Stack(d, k, lv)
<1>1. d \in Seq(Assignment) /\ Represents(t, d)
  BY PiecesAreConfigurations DEF Configurations, Sound, HasFieldsOf
<1>2. Final(d, t, lv, tl)
  BY <1>1, PieceLevels
<1>3. s = Stack(d, k, lv) /\ IsGood(Seen(s))
  OBVIOUS
<1> HIDE DEF d, t, lv, tl, s
<1>4. k \in KeysOf(d)
  BY DEF d
<1>5. FieldMeaning(t, k, tl) = Seen(s)
  BY <1>1, <1>2, <1>3, <1>4, PieceMeaning
<1> QED
  BY <1>5 DEF d, t, lv, tl, s
-----------------------------------------------------------------------------
(* However many texts include each other and however many configurations   *)
(* are layered, phase 2 gets a tree that it can evaluate: every key in its *)
(* place with its last value, and no prior that refers to its own key      *)
(* (utils.py:81, types.py:130).                                            *)
THEOREM PiecesSound == ConfigSpec => []TreesAreSound
  BY LayeredStart, LayeredStep, LayeredTreesAreSound, PTL DEF ConfigSpec

(* Where the conditions hold at every seam, includes and fallbacks leave   *)
(* the tree of one document with all assignments in sequence, down to the  *)
(* last prior, whatever was saved, folded and carried over on the way      *)
(* (structure_builder.py:108, utils.py:101, types.py:155).                 *)
THEOREM PiecesAreOneDocument == ConfigSpec => []ExactPiecesAreOneDocument
  BY LayeredStart, LayeredStep, LayeredExact, PTL DEF ConfigSpec

(* And where references cannot tell the difference, every key that has a   *)
(* meaning in the one document keeps it, for every set of texts, any       *)
(* nesting of includes and any layering of configurations                  *)
(* (utils.py:101, types.py:155, fold_self_ref.py:282).                     *)
THEOREM PiecesKeepMeanings == IsFiniteSet(Keys) => (ConfigSpec => []ClearPiecesKeepMeanings)
<1> SUFFICES ASSUME IsFiniteSet(Keys) PROVE ConfigSpec => []ClearPiecesKeepMeanings
  OBVIOUS
<1>1. Depth \in Nat
  BY FS_CardinalityType DEF Depth
<1>2. LayeredInv => ClearPiecesKeepMeanings
  BY <1>1, LayeredMeanings
<1> QED
  BY <1>2, LayeredStart, LayeredStep, PTL DEF ConfigSpec

-----------------------------------------------------------------------------
(* The two phases together: what the pieces leave is the tree that phase 2 *)
(* evaluates.  Each key that has a meaning in the one document gets it,    *)
(* and a tree is rejected only if one of its keys has none, or for its     *)
(* depth.  A key of which a required reference leads to nothing, whether   *)
(* to no key or to one without a value (S13.10), has no meaning: it may be *)
(* rejected, and what it is otherwise is left open.                        *)
PiecesGetTheirMeaning ==
    outcome # "running" =>
        \A b \in Pieces : b.clear /\ b.tree = tree =>
            LET Means(k) == Seen(Stack(b.doc, k, DocumentLevels(b.doc)[Depth]))
            IN  IF outcome = "resolved"
                THEN \A k \in KeysOf(b.doc) : IsGood(Means(k)) => result[k] = Means(k).value
                ELSE \/ \E k \in KeysOf(b.doc) : ~IsGood(Means(k))
                     \/ outcome = "recursion" /\ MaxRecursion <= 2 * Depth + 1

(* Files that include each other and configurations that are layered end,  *)
(* resolved, in what the one document means: through the priors that were  *)
(* saved, spliced and carried over, the cache, the guards and the looking  *)
(* back of phase 2, for every set of texts and every tree among those that *)
(* phase 2 is given; the document may be rejected where S13.10 asks for an *)
(* error (utils.py:101, types.py:155, substitution_resolver.py:62, 221).   *)
THEOREM PiecesResolved == IsFiniteSet(Keys) => (Spec /\ ConfigSpec => []PiecesGetTheirMeaning)
<1> SUFFICES ASSUME IsFiniteSet(Keys) PROVE Spec /\ ConfigSpec => []PiecesGetTheirMeaning
  OBVIOUS
<1>1. Depth \in Nat
  BY FS_CardinalityType DEF Depth
<1>2. MInv /\ KeysGetTheirMeaning /\ ErrorsHaveACause /\ EndsLast /\ LayeredInv => PiecesGetTheirMeaning
  <2> SUFFICES ASSUME MInv, KeysGetTheirMeaning, ErrorsHaveACause, EndsLast, LayeredInv,
                      outcome # "running", NEW b \in Pieces, b.clear, b.tree = tree
               PROVE  LET Means(k) == Seen(Stack(b.doc, k, DocumentLevels(b.doc)[Depth]))
                      IN  IF outcome = "resolved"
                          THEN \A k \in KeysOf(b.doc) : IsGood(Means(k)) => result[k] = Means(k).value
                          ELSE \/ \E k \in KeysOf(b.doc) : ~IsGood(Means(k))
                               \/ outcome = "recursion" /\ MaxRecursion <= 2 * Depth + 1
    BY DEF PiecesGetTheirMeaning
  <2> DEFINE d == b.doc
             Means(k) == Seen(Stack(d, k, DocumentLevels(d)[Depth]))
  <2>1. d \in Seq(Assignment) /\ tree \in BuiltTrees /\ tree.fields = Built(d).fields
    BY PiecesAreConfigurations DEF Configurations, Sound, HasFieldsOf
  <2>2. /\ IsTree(tree) /\ Fields = KeysOf(d)
        /\ \A k \in KeysOf(d) : \E i \in 1..Len(tree.order) : tree.order[i] = k
    <3>1. DOMAIN Built(d).fields = KeysOf(d)
      BY <2>1, BuiltSound
    <3>2. IsTree(tree) /\ Complete(tree)
      BY <2>1, BuiltParts
    <3> HIDE DEF d
    <3> QED
      BY <2>1, <3>1, <3>2 DEF Complete, Fields
  <2>3. \A k \in KeysOf(d) : IsGood(Means(k)) => Meant(k, Depth) = Means(k)
    BY <1>1, LayeredMeanings DEF ClearPiecesKeepMeanings, Meant
  <2> HIDE DEF d, Means
  <2>4. CASE outcome = "resolved"
    <3> SUFFICES ASSUME NEW k \in KeysOf(d), IsGood(Means(k)) PROVE result[k] = Means(k).value
      BY <2>4 DEF d, Means
    <3>1. PICK i \in 1..Len(tree.order) : tree.order[i] = k
      BY <2>2
    <3>2. Len(tree.order) \in Nat /\ DOMAIN tree.order = 1..Len(tree.order) /\ next > Len(tree.order)
      <4>1. tree.order \in Seq(DOMAIN tree.fields)
        BY <2>2 DEF IsTree
      <4> QED
        BY <2>4, <4>1 DEF EndsLast
    <3>3. i \in DOMAIN tree.order /\ i < next
      <4>1. next \in Nat
        BY DEF MInv, IInv, TypeOK
      <4> QED
        BY <3>1, <3>2, <4>1
    <3> QED
      BY <2>3, <3>1, <3>2, <3>3 DEF KeysGetTheirMeaning
  <2>5. CASE outcome # "resolved"
    <3>1. \/ \E k \in KeysOf(d) : ~IsGood(Means(k))
          \/ outcome = "recursion" /\ MaxRecursion <= 2 * Depth + 1
      BY <2>2, <2>3, <2>5 DEF ErrorsHaveACause
    <3> QED
      BY <2>5, <3>1 DEF d, Means
  <2> QED
    BY <2>4, <2>5
<1> QED
  BY <1>2, MeaningsHold, KeysMeant, ErrorsCaused, EndsLastHolds, LayeredStart, LayeredStep, PTL
     DEF ConfigSpec
=============================================================================
