------------------------- MODULE FlatDocument_proofs -------------------------
(***************************************************************************)
(* Proofs that phase 1 builds trees that phase 2 can evaluate, and that    *)
(* both together give every key of a document its meaning.                 *)
(***************************************************************************)
EXTENDS ReferenceMeaning_proofs, SequenceTheorems

(* Meanings together, if they are good: all beginnings are good, equal     *)
(* meanings give the same, and what two sequences give together is what    *)
(* one after the other gives.                                              *)
LEMMA TogetherGood ==
    ASSUME NEW N \in Nat, NEW ms, \A i \in 1..N : ms[i] \in Meaning /\ IsGood(ms[i])
    PROVE  \A n \in 0..N : Together(ms, n) \in Meaning /\ IsGood(Together(ms, n))
<1> DEFINE G == {n \in Nat : n <= N => IsGood(Together(ms, n))}
<1>1. 0 \in G
  BY TogetherSteps, MeaningTypes
<1>2. ASSUME NEW n \in Nat, n \in G PROVE n + 1 \in G
  <2> SUFFICES ASSUME n + 1 <= N PROVE IsGood(Together(ms, n + 1))
    OBVIOUS
  <2>1. n + 1 \in 1..N /\ (n + 1) - 1 = n /\ n \in 0..N
    OBVIOUS
  <2>2. Together(ms, n + 1) = Both(Together(ms, n), ms[n + 1]) /\ Together(ms, n) \in Meaning
    BY <2>1, TogetherSteps
  <2>3. IsGood(Together(ms, n)) /\ IsGood(ms[n + 1]) /\ ms[n + 1] \in Meaning
    BY <1>2, <2>1
  <2>4. Joined(Together(ms, n).value, ms[n + 1].value) \in Value
    BY <2>2, <2>3, MeaningParts, JoinedType
  <2>5. IsGood(Good(Joined(Together(ms, n).value, ms[n + 1].value)))
    BY <2>4, MeaningTypes
  <2>6. Both(Together(ms, n), ms[n + 1]) = Good(Joined(Together(ms, n).value, ms[n + 1].value))
    BY <2>2, <2>3, BothType
  <2> QED
    BY <2>2, <2>5, <2>6
<1> HIDE DEF G
<1>3. \A n \in Nat : n \in G
  BY <1>1, <1>2, SetInduction
<1> QED
  BY <1>3, TogetherSteps DEF G

LEMMA TogetherSame ==
    ASSUME NEW N \in Nat, NEW ds, NEW ts,
           \A i \in 1..N : ds[i] \in Meaning /\ ts[i] \in Meaning,
           \A i \in 1..N : IsGood(ds[i]) => ts[i] = ds[i],
           IsGood(Together(ds, N))
    PROVE  Together(ts, N) = Together(ds, N)
<1>1. \A i \in 1..N : ts[i] = ds[i]
  BY TogetherAll
<1> DEFINE G == {n \in Nat : n <= N => Together(ts, n) = Together(ds, n)}
<1>2. 0 \in G
  BY TogetherSteps
<1>3. ASSUME NEW n \in Nat, n \in G PROVE n + 1 \in G
  <2> SUFFICES ASSUME n + 1 <= N PROVE Together(ts, n + 1) = Together(ds, n + 1)
    OBVIOUS
  <2>1. n + 1 \in 1..N /\ (n + 1) - 1 = n
    OBVIOUS
  <2>2. /\ Together(ts, n + 1) = Both(Together(ts, n), ts[n + 1])
        /\ Together(ds, n + 1) = Both(Together(ds, n), ds[n + 1])
    BY <2>1, TogetherSteps
  <2> QED
    BY <1>1, <1>3, <2>1, <2>2
<1> HIDE DEF G
<1>4. N \in G
  BY <1>2, <1>3, SetInduction
<1> QED
  BY <1>4 DEF G

LEMMA JoinedAssociative ==
    ASSUME NEW u \in Value, NEW v \in Value, NEW w \in Value
    PROVE  Joined(Joined(u, v), w) = Joined(u, Joined(v, w))
<1>1. /\ u.text \in Text /\ v.text \in Text /\ w.text \in Text
      /\ (u.text \o v.text) \o w.text = u.text \o (v.text \o w.text)
  BY ConcatAssociative DEF Value, Text
<1> QED
  BY <1>1 DEF Joined, Some

LEMMA GoodIsItsValue ==
    ASSUME NEW m \in Meaning, IsGood(m)
    PROVE  m = Good(m.value) /\ m.value \in Value /\ Both(Good(Nothing), m) = m
<1>1. m = Good(m.value) /\ m.value \in Value
  BY DEF Meaning, IsGood, Good
<1>2. IsGood(Good(Nothing)) /\ Good(Nothing).value = Nothing /\ ~Nothing.found
  BY MeaningTypes DEF Nothing
<1>3. Both(Good(Nothing), m) = Good(Joined(Nothing, m.value))
  BY <1>2 DEF Both
<1> QED
  BY <1>1, <1>2, <1>3 DEF Joined

LEMMA BothAssociative ==
    ASSUME NEW r \in Meaning, NEW s \in Meaning, NEW q \in Meaning,
           IsGood(r), IsGood(s), IsGood(q)
    PROVE  Both(Both(r, s), q) = Both(r, Both(s, q))
<1>1. r.value \in Value /\ s.value \in Value /\ q.value \in Value
  BY MeaningParts
<1>2. Joined(r.value, s.value) \in Value /\ Joined(s.value, q.value) \in Value
  BY <1>1, JoinedType
<1>3. /\ Both(r, s) = Good(Joined(r.value, s.value))
      /\ Both(s, q) = Good(Joined(s.value, q.value))
  BY BothType
<1>4. /\ Good(Joined(r.value, s.value)) \in Meaning /\ IsGood(Good(Joined(r.value, s.value)))
      /\ Good(Joined(r.value, s.value)).value = Joined(r.value, s.value)
      /\ Good(Joined(s.value, q.value)) \in Meaning /\ IsGood(Good(Joined(s.value, q.value)))
      /\ Good(Joined(s.value, q.value)).value = Joined(s.value, q.value)
  BY <1>2, MeaningTypes
<1>5. /\ Both(Both(r, s), q) = Good(Joined(Joined(r.value, s.value), q.value))
      /\ Both(r, Both(s, q)) = Good(Joined(r.value, Joined(s.value, q.value)))
  BY <1>3, <1>4 DEF Both
<1> QED
  BY <1>1, <1>5, JoinedAssociative

LEMMA TogetherConcat ==
    ASSUME NEW A \in Nat, NEW B \in Nat, B # 0, NEW ms, NEW xs, NEW ys,
           \A i \in 1..A : xs[i] \in Meaning /\ IsGood(xs[i]) /\ ms[i] = xs[i],
           \A i \in 1..B : ys[i] \in Meaning /\ IsGood(ys[i]) /\ ms[A + i] = ys[i]
    PROVE  Together(ms, A + B) = Both(Together(xs, A), Together(ys, B))
<1>1. \A i \in 1..(A + B) : ms[i] \in Meaning /\ IsGood(ms[i])
  <2> TAKE i \in 1..(A + B)
  <2>1. CASE i <= A
    <3>1. i \in 1..A
      BY <2>1
    <3> QED
      BY <3>1
  <2>2. CASE i > A
    <3>1. i - A \in 1..B /\ A + (i - A) = i
      BY <2>2
    <3> QED
      BY <3>1
  <2> QED
    BY <2>1, <2>2
<1>2. A + B \in Nat /\ A \in 0..(A + B) /\ A \in 0..A
  OBVIOUS
<1>3. Together(xs, A) \in Meaning /\ IsGood(Together(xs, A))
  BY <1>2, TogetherGood
<1>4. Together(ms, A) = Together(xs, A)
  BY <1>3, TogetherSame
<1> DEFINE G == {n \in Nat : n + 1 <= B => Together(ms, A + (n + 1)) = Both(Together(xs, A), Together(ys, n + 1))}
<1>5. \A n \in Nat : n + 1 <= B =>
          /\ Together(ms, A + (n + 1)) = Both(Together(ms, A + n), ys[n + 1])
          /\ Together(ys, n + 1) = Both(Together(ys, n), ys[n + 1])
          /\ ys[n + 1] \in Meaning /\ IsGood(ys[n + 1])
          /\ Together(ys, n) \in Meaning /\ IsGood(Together(ys, n))
  <2> SUFFICES ASSUME NEW n \in Nat, n + 1 <= B
               PROVE  /\ Together(ms, A + (n + 1)) = Both(Together(ms, A + n), ys[n + 1])
                      /\ Together(ys, n + 1) = Both(Together(ys, n), ys[n + 1])
                      /\ ys[n + 1] \in Meaning /\ IsGood(ys[n + 1])
                      /\ Together(ys, n) \in Meaning /\ IsGood(Together(ys, n))
    OBVIOUS
  <2>1. /\ A + (n + 1) \in 1..(A + B) /\ (A + (n + 1)) - 1 = A + n
        /\ n + 1 \in 1..B /\ (n + 1) - 1 = n /\ n \in 0..B
    OBVIOUS
  <2>2. \A m \in 1..(A + B) : Together(ms, m) = Both(Together(ms, m - 1), ms[m])
    BY <1>1, <1>2, TogetherSteps
  <2>3. \A m \in 1..B : Together(ys, m) = Both(Together(ys, m - 1), ys[m])
    BY TogetherSteps
  <2>4. Together(ys, n) \in Meaning /\ IsGood(Together(ys, n))
    BY <2>1, TogetherGood
  <2> QED
    BY <2>1, <2>2, <2>3, <2>4
<1>6. 0 \in G
  <2> SUFFICES ASSUME 0 + 1 <= B
               PROVE  Together(ms, A + (0 + 1)) = Both(Together(xs, A), Together(ys, 0 + 1))
    OBVIOUS
  <2>1. Together(ys, 0) = Good(Nothing)
    BY TogetherSteps
  <2>2. Together(ys, 0 + 1) = ys[0 + 1]
    BY <1>5, <2>1, GoodIsItsValue
  <2>3. A + 0 = A
    OBVIOUS
  <2> QED
    BY <1>4, <1>5, <2>2, <2>3
<1>7. ASSUME NEW n \in Nat, n \in G PROVE n + 1 \in G
  <2> SUFFICES ASSUME (n + 1) + 1 <= B
               PROVE  Together(ms, A + ((n + 1) + 1)) = Both(Together(xs, A), Together(ys, (n + 1) + 1))
    OBVIOUS
  <2>1. n + 1 \in Nat /\ n + 1 <= B
    OBVIOUS
  <2>2. Together(ms, A + (n + 1)) = Both(Together(xs, A), Together(ys, n + 1))
    BY <1>7, <2>1
  <2>3. /\ Together(ms, A + ((n + 1) + 1)) = Both(Together(ms, A + (n + 1)), ys[(n + 1) + 1])
        /\ Together(ys, (n + 1) + 1) = Both(Together(ys, n + 1), ys[(n + 1) + 1])
        /\ ys[(n + 1) + 1] \in Meaning /\ IsGood(ys[(n + 1) + 1])
        /\ Together(ys, n + 1) \in Meaning /\ IsGood(Together(ys, n + 1))
    BY <1>5, <2>1
  <2> QED
    BY <1>3, <2>2, <2>3, BothAssociative
<1> HIDE DEF G
<1>8. B - 1 \in G
  <2>1. B - 1 \in Nat
    OBVIOUS
  <2> QED
    BY <1>6, <1>7, <2>1, SetInduction
<1> QED
  <2>1. B - 1 \in Nat /\ (B - 1) + 1 = B
    OBVIOUS
  <2> QED
    BY <1>8, <2>1 DEF G
-----------------------------------------------------------------------------
(* What replacing makes of a layer, part by part.                          *)
Bit(layer, places, old, i) == IF i \in places THEN old ELSE <<layer[i]>>

LEMMA ReplacedSteps ==
    ASSUME NEW layer \in Seq(Part), NEW places, NEW old \in Seq(Part)
    PROVE  \E F : /\ F \in [0..Len(layer) -> Seq(Part)]
                  /\ F[0] = <<>>
                  /\ \A i \in 1..Len(layer) : F[i] = F[i - 1] \o Bit(layer, places, old, i)
                  /\ Replaced(layer, places, old) = F[Len(layer)]
<1> DEFINE n == Len(layer)
           S == Seq(Part)
           h == [i \in Nat |-> [x \in S |-> IF i + 1 \in 1..n THEN x \o Bit(layer, places, old, i + 1)
                                                             ELSE x]]
           Solves(g) == g = [i \in 0..n |-> IF i = 0 THEN <<>>
                                            ELSE g[i - 1] \o (IF i \in places THEN old
                                                                                ELSE <<layer[i]>>)]
           F == CHOOSE g : Solves(g)
<1>1. n \in Nat /\ layer \in Seq(Part) /\ old \in Seq(Part)
  OBVIOUS
<1>2. \A i \in 1..n : Bit(layer, places, old, i) \in Seq(Part)
  <2> TAKE i \in 1..n
  <2>1. layer[i] \in Part
    BY <1>1
  <2>2. <<layer[i]>> \in Seq(Part)
    BY <2>1
  <2> QED
    BY <1>1, <2>2 DEF Bit
<1>3. <<>> \in S
  OBVIOUS
<1>4. h \in [Nat -> [S -> S]]
  <2>1. ASSUME NEW i \in 1..n, NEW x \in S PROVE x \o Bit(layer, places, old, i) \in S
    BY <1>2, ConcatProperties
  <2> HIDE DEF S, n
  <2> QED
    BY <2>1
<1>5. PICK E : E \in Partial(S, <<>>, h, n)
  <2> HIDE DEF h, S, n
  <2>1. \A m \in Nat : Partial(S, <<>>, h, m) # {}
    BY <1>3, <1>4, PartialExists
  <2> QED
    BY <1>1, <2>1
<1>6. E \in [0..n -> S] /\ E[0] = <<>> /\ \A i \in 0..(n - 1) : E[i + 1] = h[i][E[i]]
  <2> HIDE DEF h, S, n
  <2> QED
    BY <1>5 DEF Partial
<1>7. ASSUME NEW i \in 1..n PROVE E[i] = E[i - 1] \o Bit(layer, places, old, i)
  <2>1. i - 1 \in 0..n /\ i - 1 \in 0..(n - 1) /\ (i - 1) + 1 = i /\ i - 1 \in Nat
    BY <1>1
  <2>2. E[i - 1] \in S /\ E[i] = h[i - 1][E[i - 1]]
    <3> HIDE DEF h, S, n
    <3> QED
      BY <1>6, <2>1
  <2> HIDE DEF S
  <2> QED
    BY <2>1, <2>2
<1> HIDE DEF h
<1>8. Solves(E)
  <2>1. ASSUME NEW i \in 0..n
        PROVE  E[i] = IF i = 0 THEN <<>>
                      ELSE E[i - 1] \o (IF i \in places THEN old ELSE <<layer[i]>>)
    <3>1. CASE i = 0
      BY <1>6, <3>1
    <3>2. CASE i # 0
      <4>1. i \in 1..n
        BY <1>1, <3>2
      <4> QED
        BY <1>7, <3>2, <4>1 DEF Bit
    <3> QED
      BY <3>1, <3>2
  <2> HIDE DEF n, S
  <2> QED
    BY <1>6, <2>1
<1>9. Solves(F)
  <2> HIDE DEF Solves
  <2> QED
    BY <1>8
<1>10. Replaced(layer, places, old) = F[n]
  BY DEF Replaced
<1> HIDE DEF F
<1>11. F[0] = <<>> /\ \A i \in 1..n : F[i] = F[i - 1] \o Bit(layer, places, old, i)
  <2>1. \A i \in 0..n : F[i] = IF i = 0 THEN <<>>
                               ELSE F[i - 1] \o (IF i \in places THEN old ELSE <<layer[i]>>)
    <3> HIDE DEF n
    <3> QED
      BY <1>9
  <2>2. 0 \in 0..n /\ \A i \in 1..n : i \in 0..n /\ i # 0
    BY <1>1
  <2> QED
    BY <2>1, <2>2 DEF Bit
<1> DEFINE G == {i \in Nat : i <= n => F[i] \in Seq(Part)}
<1>12. 0 \in G
  BY <1>3, <1>11
<1>13. ASSUME NEW i \in Nat, i \in G PROVE i + 1 \in G
  <2> SUFFICES ASSUME i + 1 <= n PROVE F[i + 1] \in Seq(Part)
    OBVIOUS
  <2>1. i + 1 \in 1..n /\ (i + 1) - 1 = i /\ i <= n
    BY <1>1
  <2>2. F[i] \in Seq(Part) /\ Bit(layer, places, old, i + 1) \in Seq(Part)
    BY <1>2, <1>13, <2>1
  <2>3. F[i + 1] = F[i] \o Bit(layer, places, old, i + 1)
    BY <1>11, <2>1
  <2> QED
    BY <2>2, <2>3, ConcatProperties
<1> HIDE DEF G
<1>14. \A i \in Nat : i \in G
  BY <1>12, <1>13, SetInduction
<1>15. F \in [0..n -> Seq(Part)]
  <2>1. F = [i \in 0..n |-> IF i = 0 THEN <<>>
                            ELSE F[i - 1] \o (IF i \in places THEN old ELSE <<layer[i]>>)]
    BY <1>9
  <2> HIDE DEF n
  <2>2. F = [i \in 0..n |-> F[i]]
    BY <2>1
  <2>3. \A i \in 0..n : F[i] \in Seq(Part)
    BY <1>1, <1>14 DEF G
  <2> QED
    BY <2>2, <2>3
<1> QED
  BY <1>10, <1>11, <1>15

(* What a fold makes of a layer, part by part.                             *)
Piece(layer, k, old, i) == IF RefersTo(layer[i], k) THEN old ELSE <<layer[i]>>

LEMMA FoldSteps ==
    ASSUME NEW layer \in Layer, NEW k, NEW old \in Layer
    PROVE  \E F : /\ F \in [0..Len(layer) -> Seq(Part)]
                  /\ F[0] = <<>>
                  /\ \A i \in 1..Len(layer) : F[i] = F[i - 1] \o Piece(layer, k, old, i)
                  /\ FoldSelfRef(layer, k, old) = F[Len(layer)]
<1> DEFINE places == {i \in DOMAIN layer : RefersTo(layer[i], k)}
<1>1. PICK F : /\ F \in [0..Len(layer) -> Seq(Part)]
               /\ F[0] = <<>>
               /\ \A i \in 1..Len(layer) : F[i] = F[i - 1] \o Bit(layer, places, old, i)
               /\ Replaced(layer, places, old) = F[Len(layer)]
  <2>1. layer \in Seq(Part) /\ old \in Seq(Part)
    BY DEF Layer
  <2> HIDE DEF places
  <2> QED
    BY <2>1, ReplacedSteps
<1>2. DOMAIN layer = 1..Len(layer)
  BY DEF Layer
<1>3. \A i \in 1..Len(layer) : Bit(layer, places, old, i) = Piece(layer, k, old, i)
  BY <1>2 DEF Bit, Piece
<1> QED
  BY <1>1, <1>3 DEF FoldSelfRef

(* Layers put together part by part.                                       *)
LEMMA ConcatParts ==
    ASSUME NEW s \in Seq(Part), NEW r \in Seq(Part)
    PROVE  /\ s \o r \in Seq(Part) /\ Len(s \o r) = Len(s) + Len(r)
           /\ Len(s) \in Nat /\ Len(r) \in Nat
           /\ \A i \in 1..Len(s) : (s \o r)[i] = s[i]
           /\ \A i \in 1..Len(r) : (s \o r)[Len(s) + i] = r[i]
           /\ \A i \in 1..Len(s \o r) : i \in 1..Len(s) \/ (i - Len(s) \in 1..Len(r) /\ i = Len(s) + (i - Len(s)))
<1>1. Len(s) \in Nat /\ Len(r) \in Nat
  OBVIOUS
<1>2. /\ s \o r \in Seq(Part) /\ Len(s \o r) = Len(s) + Len(r)
      /\ \A i \in 1..Len(s) + Len(r) : (s \o r)[i] = IF i <= Len(s) THEN s[i] ELSE r[i - Len(s)]
  BY ConcatProperties
<1> DEFINE a == Len(s)
           b == Len(r)
<1>3. /\ \A i \in 1..a : i \in 1..a + b /\ i <= a
      /\ \A i \in 1..b : a + i \in 1..a + b /\ ~(a + i <= a) /\ (a + i) - a = i
      /\ \A i \in 1..a + b : i \in 1..a \/ (i - a \in 1..b /\ i = a + (i - a))
  <2> HIDE DEF a, b
  <2> QED
    BY <1>1 DEF a, b
<1> QED
  BY <1>1, <1>2, <1>3

(* What is saved as a prior: a layer without references to its own key.    *)
LEMMA FoldedLayer ==
    ASSUME NEW layer \in Layer, NEW k, NEW old \in Layer, ~ContainsSubst(old, k)
    PROVE  FoldSelfRef(layer, k, old) \in Layer /\ ~ContainsSubst(FoldSelfRef(layer, k, old), k)
<1> DEFINE n == Len(layer)
           Free(s) == s \in Seq(Part) /\ \A j \in 1..Len(s) : ~RefersTo(s[j], k)
<1>1. n \in Nat /\ n # 0 /\ layer \in Seq(Part) /\ old \in Seq(Part) /\ old # <<>>
  <2>1. layer \in Seq(Part) /\ layer # <<>> /\ old \in Seq(Part) /\ old # <<>>
    BY DEF Layer
  <2> QED
    BY <2>1
<1>2. PICK F : /\ F \in [0..n -> Seq(Part)]
               /\ F[0] = <<>>
               /\ \A i \in 1..n : F[i] = F[i - 1] \o Piece(layer, k, old, i)
               /\ FoldSelfRef(layer, k, old) = F[n]
  BY FoldSteps
<1>3. ASSUME NEW i \in 1..n PROVE Free(Piece(layer, k, old, i)) /\ Len(Piece(layer, k, old, i)) # 0
  <2>1. CASE RefersTo(layer[i], k)
    <3>1. Piece(layer, k, old, i) = old
      BY <2>1 DEF Piece
    <3>2. DOMAIN old = 1..Len(old) /\ Len(old) # 0
      BY <1>1
    <3> QED
      BY <1>1, <3>1, <3>2 DEF ContainsSubst
  <2>2. CASE ~RefersTo(layer[i], k)
    <3>1. Piece(layer, k, old, i) = <<layer[i]>> /\ layer[i] \in Part
      BY <1>1, <2>2 DEF Piece
    <3> QED
      BY <2>2, <3>1
  <2> QED
    BY <2>1, <2>2
<1> DEFINE G == {i \in Nat : i <= n => Free(F[i]) /\ (i # 0 => Len(F[i]) # 0)}
<1>4. 0 \in G
  BY <1>2
<1>5. ASSUME NEW i \in Nat, i \in G PROVE i + 1 \in G
  <2> SUFFICES ASSUME i + 1 <= n PROVE Free(F[i + 1]) /\ Len(F[i + 1]) # 0
    OBVIOUS
  <2>1. i + 1 \in 1..n /\ (i + 1) - 1 = i /\ i <= n
    BY <1>1
  <2> DEFINE s == F[i]
             r == Piece(layer, k, old, i + 1)
  <2>2. Free(s) /\ Free(r) /\ Len(r) # 0 /\ F[i + 1] = s \o r
    BY <1>2, <1>3, <1>5, <2>1
  <2> HIDE DEF s, r
  <2>3. \A j \in 1..Len(s \o r) : ~RefersTo((s \o r)[j], k)
    BY <2>2, ConcatParts
  <2>4. s \o r \in Seq(Part) /\ Len(s \o r) = Len(s) + Len(r) /\ Len(s) \in Nat /\ Len(r) \in Nat
    BY <2>2, ConcatParts
  <2> QED
    BY <2>2, <2>3, <2>4
<1> HIDE DEF G
<1>6. n \in G
  BY <1>1, <1>4, <1>5, SetInduction
<1>7. Free(F[n]) /\ Len(F[n]) # 0
  BY <1>1, <1>6 DEF G
<1>8. F[n] \in Layer /\ DOMAIN F[n] = 1..Len(F[n])
  BY <1>7 DEF Layer
<1> QED
  BY <1>2, <1>7, <1>8 DEF ContainsSubst

LEMMA MarkedLayer ==
    ASSUME NEW layer \in Layer, NEW k, NEW m, m = FoldOptionalSelfRefAbsent(layer, k), m # NoPrior
    PROVE  /\ m \in Layer /\ ~ContainsSubst(m, k) /\ Len(m) = Len(layer)
           /\ \A i \in 1..Len(layer) :
                  IF RefersTo(layer[i], k)
                  THEN layer[i].optional /\ IsReference(m[i]) /\ m[i].absent /\ m[i].optional
                  ELSE m[i] = layer[i]
<1>1. layer \in Seq(Part) /\ DOMAIN layer = 1..Len(layer) /\ Len(layer) \in Nat /\ layer # <<>>
  BY DEF Layer
<1>2. /\ \A i \in DOMAIN layer : RefersTo(layer[i], k) => layer[i].optional
      /\ m = [i \in DOMAIN layer |-> IF RefersTo(layer[i], k) THEN [layer[i] EXCEPT !.absent = TRUE]
                                                            ELSE layer[i]]
  BY DEF FoldOptionalSelfRefAbsent
<1>3. ASSUME NEW p \in Part, IsReference(p), p.optional
      PROVE  LET q == [p EXCEPT !.absent = TRUE]
             IN  q \in Part /\ IsReference(q) /\ q.absent /\ q.optional
  BY <1>3 DEF Part, IsReference
<1>4. ASSUME NEW i \in 1..Len(layer)
      PROVE  /\ m[i] \in Part /\ ~RefersTo(m[i], k)
             /\ IF RefersTo(layer[i], k)
                THEN layer[i].optional /\ IsReference(m[i]) /\ m[i].absent /\ m[i].optional
                ELSE m[i] = layer[i]
  <2>1. layer[i] \in Part
    BY <1>1
  <2>2. CASE RefersTo(layer[i], k)
    <3>1. IsReference(layer[i]) /\ layer[i].optional
      BY <1>1, <1>2, <2>2 DEF RefersTo
    <3>2. m[i] = [layer[i] EXCEPT !.absent = TRUE]
      BY <1>1, <1>2, <2>2
    <3>3. m[i] \in Part /\ IsReference(m[i]) /\ m[i].absent /\ m[i].optional
      BY <1>3, <2>1, <3>1, <3>2
    <3> QED
      BY <2>2, <3>1, <3>3 DEF RefersTo
  <2>3. CASE ~RefersTo(layer[i], k)
    BY <1>1, <1>2, <2>1, <2>3
  <2> QED
    BY <2>2, <2>3
<1>5. DOMAIN m = 1..Len(layer)
  BY <1>1, <1>2
<1>6. m \in Seq(Part) /\ Len(m) = Len(layer) /\ m # <<>>
  <2>1. m = [i \in 1..Len(layer) |-> m[i]]
    BY <1>1, <1>2
  <2>2. m \in Seq(Part) /\ Len(m) = Len(layer)
    BY <1>1, <1>4, <2>1, IsASeq
  <2> QED
    BY <2>2 DEF NoPrior
<1> QED
  BY <1>4, <1>5, <1>6 DEF Layer, ContainsSubst

LEMMA SavedLayer ==
    ASSUME NEW layer \in Layer, NEW k, NEW old,
           old = NoPrior \/ (old \in Layer /\ ~ContainsSubst(old, k))
    PROVE  LET saved == FoldOrSkipPrior(layer, k, old)
           IN  saved = NoPrior \/ (saved \in Layer /\ ~ContainsSubst(saved, k))
<1>1. CASE ~ContainsSubst(layer, k)
  BY <1>1 DEF FoldOrSkipPrior
<1>2. CASE ContainsSubst(layer, k) /\ old = NoPrior
  BY <1>2, MarkedLayer DEF FoldOrSkipPrior
<1>3. CASE ContainsSubst(layer, k) /\ old # NoPrior
  BY <1>3, FoldedLayer DEF FoldOrSkipPrior
<1> QED
  BY <1>1, <1>2, <1>3
-----------------------------------------------------------------------------
(* The trees that phase 1 builds: phase 2 can evaluate them, and meets     *)
(* every field of them.                                                    *)
LayerMaps == UNION {[D -> Layer] : D \in SUBSET Keys}
Complete(t) == \A k \in DOMAIN t.fields : \E i \in 1..Len(t.order) : t.order[i] = k
BuiltTrees == {t \in [order : Seq(Keys), fields : LayerMaps, priors : LayerMaps] :
                   IsTree(t) /\ Complete(t)}

LEMMA BuiltParts ==
    ASSUME NEW t \in BuiltTrees
    PROVE  /\ IsTree(t) /\ Complete(t)
           /\ DOMAIN t.fields \in SUBSET Keys /\ t.fields \in [DOMAIN t.fields -> Layer]
           /\ DOMAIN t.priors \in SUBSET DOMAIN t.fields /\ t.priors \in [DOMAIN t.priors -> Layer]
           /\ t.order \in Seq(Keys) /\ t.order \in Seq(DOMAIN t.fields) /\ Len(t.order) \in Nat
           /\ \A i, j \in 1..Len(t.order) : t.order[i] = t.order[j] => i = j
           /\ \A k \in DOMAIN t.priors : ~ContainsSubst(t.priors[k], k)
           /\ \A k \in DOMAIN t.fields : OldPrior(t, k) = NoPrior \/
                  (OldPrior(t, k) \in Layer /\ ~ContainsSubst(OldPrior(t, k), k))
<1>1. IsTree(t) /\ Complete(t) /\ t.order \in Seq(Keys)
  BY DEF BuiltTrees
<1>2. /\ DOMAIN t.fields \in SUBSET Keys /\ t.fields \in [DOMAIN t.fields -> Layer]
      /\ DOMAIN t.priors \in SUBSET DOMAIN t.fields /\ t.priors \in [DOMAIN t.priors -> Layer]
      /\ t.order \in Seq(DOMAIN t.fields)
      /\ \A k \in DOMAIN t.priors : ~ContainsSubst(t.priors[k], k)
  BY <1>1 DEF IsTree
<1>3. Len(t.order) \in Nat /\ \A i, j \in 1..Len(t.order) : t.order[i] = t.order[j] => i = j
  BY <1>1, TreeParts
<1> QED
  BY <1>1, <1>2, <1>3 DEF OldPrior

(* The order of the keys with one more.                                    *)
LEMMA OrderWithKey ==
    ASSUME NEW D, NEW s \in Seq(D), NEW k, k \notin D, NEW r, r = Append(s, k),
           \A i, j \in 1..Len(s) : s[i] = s[j] => i = j,
           \A x \in D : \E i \in 1..Len(s) : s[i] = x
    PROVE  /\ r \in Seq(D \cup {k})
           /\ \A i, j \in 1..Len(r) : r[i] = r[j] => i = j
           /\ \A x \in D \cup {k} : \E i \in 1..Len(r) : r[i] = x
<1> DEFINE n == Len(s)
<1>1. n \in Nat /\ \A i \in 1..n : s[i] \in D
  OBVIOUS
<1>2. s \in Seq(D \cup {k})
  OBVIOUS
<1>3. /\ r \in Seq(D \cup {k}) /\ Len(r) = n + 1
      /\ \A i \in 1..n : r[i] = s[i]
      /\ r[n + 1] = k
  BY <1>2
<1>4. \A i \in 1..(n + 1) : i \in 1..n \/ i = n + 1
  BY <1>1
<1>5. \A i \in 1..n : r[i] # k /\ i \in 1..(n + 1)
  BY <1>1, <1>3
<1>6. n + 1 \in 1..(n + 1)
  BY <1>1
<1> HIDE DEF n
<1>7. \A i, j \in 1..Len(r) : r[i] = r[j] => i = j
  BY <1>3, <1>4, <1>5, SMTT(40) DEF n
<1>8. \A x \in D \cup {k} : \E i \in 1..Len(r) : r[i] = x
  BY <1>3, <1>5, <1>6 DEF n
<1> QED
  BY <1>3, <1>7, <1>8

LEMMA AssignParts ==
    ASSUME NEW t \in BuiltTrees, NEW k \in Keys, NEW layer \in Layer, NEW u, u = Assign(t, k, layer)
    PROVE  /\ u \in BuiltTrees
           /\ DOMAIN u.fields = DOMAIN t.fields \cup {k}
           /\ u.fields[k] = layer
           /\ \A j \in DOMAIN t.fields : j # k => u.fields[j] = t.fields[j]
           /\ u.priors = IF Saved(t, k) = NoPrior THEN t.priors ELSE Put(t.priors, k, Saved(t, k))
           /\ Saved(t, k) # NoPrior => k \in DOMAIN t.fields /\ Saved(t, k) \in Layer
<1> DEFINE D == DOMAIN t.fields
           saved == Saved(t, k)
<1>1. /\ u.order = IF k \in D THEN t.order ELSE Append(t.order, k)
      /\ u.fields = Put(t.fields, k, layer)
      /\ u.priors = IF saved = NoPrior THEN t.priors ELSE Put(t.priors, k, saved)
      /\ u = [order |-> u.order, fields |-> u.fields, priors |-> u.priors]
  BY DEF Assign, Saved
<1>2. D \in SUBSET Keys /\ t.fields \in [D -> Layer]
  BY BuiltParts
<1>3. /\ u.fields \in [D \cup {k} -> Layer] /\ DOMAIN u.fields = D \cup {k}
      /\ u.fields[k] = layer
      /\ \A j \in D : j # k => u.fields[j] = t.fields[j]
  <2> DEFINE f == t.fields
  <2>1. f \in [D -> Layer] /\ u.fields = Put(f, k, layer)
    BY <1>1, <1>2
  <2> HIDE DEF D, f
  <2>2. /\ Put(f, k, layer) \in [D \cup {k} -> Layer] /\ DOMAIN Put(f, k, layer) = D \cup {k}
        /\ Put(f, k, layer)[k] = layer
        /\ \A j \in D : j # k => Put(f, k, layer)[j] = f[j]
    BY <2>1 DEF Put
  <2> QED
    BY <2>1, <2>2 DEF f
<1>4. saved = NoPrior \/ (k \in D /\ saved \in Layer /\ ~ContainsSubst(saved, k))
  <2>1. CASE k \notin D
    BY <2>1 DEF Saved
  <2>2. CASE k \in D
    <3>1. t.fields[k] \in Layer
      BY <1>2, <2>2
    <3>2. OldPrior(t, k) = NoPrior \/ (OldPrior(t, k) \in Layer /\ ~ContainsSubst(OldPrior(t, k), k))
      BY <2>2, BuiltParts
    <3> QED
      BY <2>2, <3>1, <3>2, SavedLayer DEF Saved
  <2> QED
    BY <2>1, <2>2
<1> DEFINE P == DOMAIN t.priors
<1>5. P \in SUBSET D /\ t.priors \in [P -> Layer] /\ \A j \in P : ~ContainsSubst(t.priors[j], j)
  BY BuiltParts
<1>6. /\ DOMAIN u.priors \in SUBSET DOMAIN u.fields /\ u.priors \in [DOMAIN u.priors -> Layer]
      /\ \A j \in DOMAIN u.priors : ~ContainsSubst(u.priors[j], j)
  <2>1. CASE saved = NoPrior
    BY <1>1, <1>3, <1>5, <2>1
  <2>2. CASE saved # NoPrior
    <3>1. k \in D /\ saved \in Layer /\ ~ContainsSubst(saved, k)
      BY <1>4, <2>2
    <3> DEFINE f == t.priors
    <3>2. u.priors = Put(f, k, saved) /\ f \in [P -> Layer]
      BY <1>1, <1>5, <2>2
    <3>3. P \in SUBSET D /\ (\A j \in P : ~ContainsSubst(f[j], j)) /\ DOMAIN u.fields = D \cup {k}
      BY <1>3, <1>5
    <3> HIDE DEF saved, P, D, f
    <3>4. /\ Put(f, k, saved) \in [P \cup {k} -> Layer] /\ DOMAIN Put(f, k, saved) = P \cup {k}
          /\ Put(f, k, saved)[k] = saved
          /\ \A j \in P : j # k => Put(f, k, saved)[j] = f[j]
      BY <3>1, <3>2 DEF Put
    <3> QED
      BY <3>1, <3>2, <3>3, <3>4
  <2> QED
    BY <2>1, <2>2
<1>7. /\ u.order \in Seq(DOMAIN u.fields)
      /\ \A i, j \in 1..Len(u.order) : u.order[i] = u.order[j] => i = j
      /\ Complete(u)
  <2>1. /\ t.order \in Seq(D) /\ Complete(t)
        /\ \A i, j \in 1..Len(t.order) : t.order[i] = t.order[j] => i = j
    BY BuiltParts
  <2>2. CASE k \in D
    <3>1. u.order = t.order /\ DOMAIN u.fields = D
      BY <1>1, <1>3, <2>2
    <3> QED
      BY <2>1, <3>1 DEF Complete
  <2>3. CASE k \notin D
    <3>1. u.order = Append(t.order, k) /\ DOMAIN u.fields = D \cup {k}
      BY <1>1, <1>3, <2>3
    <3> DEFINE s == t.order
               r == u.order
    <3>2. /\ s \in Seq(D) /\ k \notin D /\ r = Append(s, k)
          /\ \A i, j \in 1..Len(s) : s[i] = s[j] => i = j
          /\ \A x \in D : \E i \in 1..Len(s) : s[i] = x
      BY <2>1, <2>3, <3>1 DEF Complete
    <3> HIDE DEF D, s, r
    <3>3. /\ r \in Seq(D \cup {k})
          /\ \A i, j \in 1..Len(r) : r[i] = r[j] => i = j
          /\ \A x \in D \cup {k} : \E i \in 1..Len(r) : r[i] = x
      BY <3>2, OrderWithKey
    <3> USE DEF r
    <3> QED
      BY <3>1, <3>3 DEF Complete
  <2> QED
    BY <2>2, <2>3
<1>8. DOMAIN u = {"order", "fields", "priors"}
  BY <1>1
<1>9. DOMAIN u.order = 1..Len(u.order)
  BY <1>7
<1>10. DOMAIN u.fields \in SUBSET Keys
  BY <1>2, <1>3
<1>11. IsTree(u)
  BY <1>3, <1>6, <1>7, <1>8, <1>9, <1>10 DEF IsTree
<1>12. u \in [order : Seq(Keys), fields : LayerMaps, priors : LayerMaps]
  <2>1. u.order \in Seq(Keys)
    BY <1>7, <1>10
  <2>2. u.fields \in LayerMaps /\ u.priors \in LayerMaps
    BY <1>3, <1>6, <1>10 DEF LayerMaps
  <2> QED
    BY <1>1, <2>1, <2>2
<1> QED
  BY <1>1, <1>3, <1>4, <1>7, <1>11, <1>12 DEF BuiltTrees

LEMMA EmptyIsBuilt == EmptyTree \in BuiltTrees
<1>1. /\ DOMAIN EmptyTree.fields = {} /\ DOMAIN EmptyTree.priors = {} /\ EmptyTree.order = <<>>
      /\ DOMAIN EmptyTree = {"order", "fields", "priors"}
  BY DEF EmptyTree
<1>2. EmptyTree.fields \in [{} -> Layer] /\ EmptyTree.priors \in [{} -> Layer]
  BY DEF EmptyTree
<1>3. <<>> \in Seq(Keys) /\ <<>> \in Seq({}) /\ DOMAIN <<>> = {}
  OBVIOUS
<1>4. IsTree(EmptyTree)
  BY <1>1, <1>2, <1>3 DEF IsTree
<1>5. Complete(EmptyTree)
  BY <1>1 DEF Complete
<1>6. EmptyTree.fields \in LayerMaps /\ EmptyTree.priors \in LayerMaps
  <2>1. {} \in SUBSET Keys
    OBVIOUS
  <2> QED
    BY <1>2, <2>1 DEF LayerMaps
<1>7. EmptyTree \in [order : Seq(Keys), fields : LayerMaps, priors : LayerMaps]
  BY <1>1, <1>3, <1>6 DEF EmptyTree
<1> QED
  BY <1>4, <1>5, <1>7 DEF BuiltTrees
-----------------------------------------------------------------------------
(* Phase 1, one assignment after the other.                                *)
LEMMA AssignmentParts ==
    ASSUME NEW d \in Seq(Assignment), NEW i \in 1..Len(d)
    PROVE  /\ d[i].key \in Keys /\ d[i].layer \in Layer /\ Written(d[i].layer)
           /\ d[i].key \in KeysOf(d)
<1>1. d[i] \in Assignment /\ DOMAIN d = 1..Len(d)
  OBVIOUS
<1> QED
  BY <1>1 DEF Assignment, KeysOf

LEMMA BuildingSteps ==
    ASSUME NEW d \in Seq(Assignment)
    PROVE  /\ Building(d)[0] = EmptyTree
           /\ \A i \in 0..Len(d) : Building(d)[i] \in BuiltTrees
           /\ \A i \in 1..Len(d) : Building(d)[i] = Assign(Building(d)[i - 1], d[i].key, d[i].layer)
<1> DEFINE n == Len(d)
           S == BuiltTrees
           h == [i \in Nat |-> [x \in S |-> IF i + 1 \in 1..n
                                            THEN Assign(x, d[i + 1].key, d[i + 1].layer) ELSE x]]
           Solves(g) == g = [i \in 0..n |-> IF i = 0 THEN EmptyTree
                                            ELSE Assign(g[i - 1], d[i].key, d[i].layer)]
           F == CHOOSE g : Solves(g)
<1>1. n \in Nat
  OBVIOUS
<1>2. \A i \in 1..n : \A x \in S : Assign(x, d[i].key, d[i].layer) \in S
  BY AssignmentParts, AssignParts
<1>3. EmptyTree \in S
  BY EmptyIsBuilt
<1>4. h \in [Nat -> [S -> S]]
  <2> HIDE DEF S, n
  <2> QED
    BY <1>2
<1>5. PICK E : E \in Partial(S, EmptyTree, h, n)
  <2> HIDE DEF h, S, n
  <2>1. \A m \in Nat : Partial(S, EmptyTree, h, m) # {}
    BY <1>3, <1>4, PartialExists
  <2> QED
    BY <1>1, <2>1
<1>6. E \in [0..n -> S] /\ E[0] = EmptyTree /\ \A i \in 0..(n - 1) : E[i + 1] = h[i][E[i]]
  <2> HIDE DEF h, S, n
  <2> QED
    BY <1>5 DEF Partial
<1>7. ASSUME NEW i \in 1..n PROVE E[i] = Assign(E[i - 1], d[i].key, d[i].layer)
  <2>1. i - 1 \in 0..n /\ i - 1 \in 0..(n - 1) /\ (i - 1) + 1 = i /\ i - 1 \in Nat
    BY <1>1
  <2>2. E[i - 1] \in S /\ E[i] = h[i - 1][E[i - 1]]
    <3> HIDE DEF h, S, n
    <3> QED
      BY <1>6, <2>1
  <2> HIDE DEF S
  <2> QED
    BY <2>1, <2>2
<1> HIDE DEF h
<1>8. Solves(E)
  <2>1. ASSUME NEW i \in 0..n
        PROVE  E[i] = IF i = 0 THEN EmptyTree ELSE Assign(E[i - 1], d[i].key, d[i].layer)
    <3>1. CASE i = 0
      BY <1>6, <3>1
    <3>2. CASE i # 0
      <4>1. i \in 1..n
        BY <1>1, <3>2
      <4> QED
        BY <1>7, <3>2, <4>1
    <3> QED
      BY <3>1, <3>2
  <2> HIDE DEF n, S
  <2> QED
    BY <1>6, <2>1
<1>9. Solves(F)
  <2> HIDE DEF Solves
  <2> QED
    BY <1>8
<1>10. Building(d) = F
  BY DEF Building
<1> HIDE DEF F
<1>11. F[0] = EmptyTree /\ \A i \in 1..n : F[i] = Assign(F[i - 1], d[i].key, d[i].layer)
  <2>1. \A i \in 0..n : F[i] = IF i = 0 THEN EmptyTree
                               ELSE Assign(F[i - 1], d[i].key, d[i].layer)
    <3> HIDE DEF n
    <3> QED
      BY <1>9
  <2>2. 0 \in 0..n /\ \A i \in 1..n : i \in 0..n /\ i # 0
    BY <1>1
  <2> QED
    BY <2>1, <2>2
<1> DEFINE G == {i \in Nat : i <= n => F[i] \in S}
<1>12. 0 \in G
  BY <1>3, <1>11
<1>13. ASSUME NEW i \in Nat, i \in G PROVE i + 1 \in G
  <2> SUFFICES ASSUME i + 1 <= n PROVE F[i + 1] \in S
    OBVIOUS
  <2>1. i + 1 \in 1..n /\ (i + 1) - 1 = i /\ i <= n
    BY <1>1
  <2>2. F[i] \in S /\ F[i + 1] = Assign(F[i], d[i + 1].key, d[i + 1].layer)
    BY <1>11, <1>13, <2>1
  <2> QED
    BY <1>2, <2>1, <2>2
<1> HIDE DEF G
<1>14. \A i \in Nat : i \in G
  BY <1>12, <1>13, SetInduction
<1> QED
  BY <1>1, <1>10, <1>11, <1>14 DEF G

(* The keys of the first assignments.                                      *)
KeysTo(d, i) == {d[j].key : j \in 1..i}

LEMMA BuiltKeys ==
    ASSUME NEW d \in Seq(Assignment)
    PROVE  \A i \in 0..Len(d) : DOMAIN Building(d)[i].fields = KeysTo(d, i)
<1> DEFINE n == Len(d)
           G == {i \in Nat : i <= n => DOMAIN Building(d)[i].fields = KeysTo(d, i)}
<1>1. n \in Nat
  OBVIOUS
<1>2. 0 \in G
  BY BuildingSteps DEF KeysTo, EmptyTree
<1>3. ASSUME NEW i \in Nat, i \in G PROVE i + 1 \in G
  <2> SUFFICES ASSUME i + 1 <= n PROVE DOMAIN Building(d)[i + 1].fields = KeysTo(d, i + 1)
    OBVIOUS
  <2>1. i + 1 \in 1..n /\ (i + 1) - 1 = i /\ i \in 0..n /\ i <= n
    BY <1>1
  <2> DEFINE t == Building(d)[i]
             u == Building(d)[i + 1]
             k == d[i + 1].key
             layer == d[i + 1].layer
  <2>2. t \in BuiltTrees /\ u = Assign(t, k, layer) /\ k \in Keys /\ layer \in Layer
    BY <2>1, BuildingSteps, AssignmentParts
  <2>3. DOMAIN t.fields = KeysTo(d, i)
    BY <1>3, <2>1
  <2>4. DOMAIN u.fields = DOMAIN t.fields \cup {k}
    <3> HIDE DEF t, u, k, layer
    <3> QED
      BY <2>2, AssignParts
  <2>5. KeysTo(d, i + 1) = KeysTo(d, i) \cup {d[i + 1].key}
    <3>1. \A j : j \in 1..(i + 1) <=> (j \in 1..i \/ j = i + 1)
      BY <2>1
    <3> QED
      BY <3>1 DEF KeysTo
  <2> QED
    BY <2>3, <2>4, <2>5
<1> HIDE DEF G
<1>4. \A i \in Nat : i \in G
  BY <1>2, <1>3, SetInduction
<1> QED
  BY <1>1, <1>4 DEF G

(* Whatever a document assigns, in whatever order and with whatever        *)
(* references, phase 1 builds a tree that phase 2 can evaluate: it has the *)
(* keys of the document, each of them once in its order, and no prior      *)
(* refers to its own key (structure_builder.py:108, fold_self_ref.py:282). *)
THEOREM BuildsTrees ==
    \A d \in Seq(Assignment) :
        IsTree(Built(d)) /\ DOMAIN Built(d).fields = KeysOf(d) /\ Complete(Built(d))
<1> TAKE d \in Seq(Assignment)
<1>1. Len(d) \in Nat /\ Len(d) \in 0..Len(d) /\ DOMAIN d = 1..Len(d)
  OBVIOUS
<1>2. Built(d) \in BuiltTrees /\ DOMAIN Built(d).fields = KeysTo(d, Len(d))
  BY <1>1, BuildingSteps, BuiltKeys DEF Built
<1> QED
  BY <1>1, <1>2, BuiltParts DEF KeysTo, KeysOf
-----------------------------------------------------------------------------
(* What documents mean.                                                    *)
LevelIn(d) == [KeysOf(d) -> Meaning]
Laid == Meaning \cup {NoLayer}
StackSet == [top : Laid, below : Laid]

LEMMA NoLayerParts ==
    /\ NoLayer \notin Meaning /\ ~IsGood(NoLayer) /\ NoLayers \in StackSet
    /\ NoLayers.top = NoLayer /\ NoLayers.below = NoLayer
<1>1. NoLayer.why = "none" /\ ~IsGood(NoLayer)
  BY DEF NoLayer, Wrong, IsGood
<1>2. NoLayer \notin Meaning
  BY <1>1, MeaningParts DEF Whys
<1> QED
  BY <1>1, <1>2 DEF NoLayers, StackSet, Laid

LEMMA SeenType ==
    ASSUME NEW s \in StackSet
    PROVE  /\ s.top \in Laid /\ s.below \in Laid /\ Seen(s) \in Laid /\ Left(s) \in Laid
           /\ s.top \in Meaning => (Seen(s) \in Meaning /\ Left(s) \in Meaning)
           /\ s.top = NoLayer => (Seen(s) = NoLayer /\ Left(s) = NoLayer)
<1>1. s.top \in Laid /\ s.below \in Laid
  BY DEF StackSet
<1> QED
  BY <1>1, MeaningTypes, NoLayerParts DEF Seen, Left, LeavesToBelow, Laid

LEMMA OtherType ==
    ASSUME NEW d \in Seq(Assignment), NEW part \in Part, NEW level \in LevelIn(d)
    PROVE  OtherMeaning(d, part, level) \in Meaning
<1>1. CASE ~IsReference(part)
  <2>1. Some(part.text) \in Value
    BY <1>1, PartKinds DEF Some, Value
  <2> QED
    BY <1>1, <2>1, MeaningTypes DEF OtherMeaning
<1>2. CASE IsReference(part) /\ part.key \in KeysOf(d)
  BY <1>2, DemandedParts DEF OtherMeaning, LevelIn
<1>3. CASE IsReference(part) /\ part.key \notin KeysOf(d) /\ part.key \in DOMAIN Environment
  <2>1. Some(Environment[part.key]) \in Value
    BY <1>3, EnvironmentAssumption DEF Some, Value
  <2> QED
    BY <1>3, <2>1, MeaningTypes DEF OtherMeaning
<1>4. CASE IsReference(part) /\ part.key \notin KeysOf(d) /\ part.key \notin DOMAIN Environment
  BY <1>4, NoProviderType DEF OtherMeaning
<1> QED
  BY <1>1, <1>2, <1>3, <1>4

LEMMA OverType ==
    ASSUME NEW d \in Seq(Assignment), NEW k, NEW layer \in Layer, NEW below \in Laid,
           NEW level \in LevelIn(d)
    PROVE  /\ Len(layer) \in Nat /\ DOMAIN layer = 1..Len(layer) /\ layer \in Seq(Part)
           /\ \A i \in 1..Len(layer) : PartOver(d, k, layer[i], below, level) \in Meaning
           /\ LayerOver(d, k, layer, below, level) \in Meaning
<1>1. Len(layer) \in Nat /\ DOMAIN layer = 1..Len(layer) /\ layer \in Seq(Part)
  BY DEF Layer
<1>2. ASSUME NEW i \in 1..Len(layer) PROVE PartOver(d, k, layer[i], below, level) \in Meaning
  <2>1. layer[i] \in Part
    BY <1>1
  <2>2. CASE ~RefersTo(layer[i], k)
    BY <2>1, <2>2, OtherType DEF PartOver
  <2>3. CASE RefersTo(layer[i], k) /\ below = NoLayer
    <3>1. IsReference(layer[i])
      BY <2>3 DEF RefersTo
    <3> QED
      BY <2>1, <2>3, <3>1, NoProviderType DEF PartOver
  <2>4. CASE RefersTo(layer[i], k) /\ below # NoLayer
    BY <2>4, DemandedParts DEF PartOver, Laid
  <2> QED
    BY <2>2, <2>3, <2>4
<1> DEFINE ms == [i \in DOMAIN layer |-> PartOver(d, k, layer[i], below, level)]
           N == Len(layer)
<1>3. \A i \in 1..N : ms[i] \in Meaning
  BY <1>1, <1>2
<1>4. LayerOver(d, k, layer, below, level) = Together(ms, N)
  BY DEF LayerOver
<1> HIDE DEF ms
<1>5. Together(ms, N) \in Meaning
  <2>1. N \in 0..N
    BY <1>1
  <2> QED
    BY <1>1, <1>3, <2>1, TogetherSteps
<1> QED
  BY <1>1, <1>2, <1>4, <1>5

LEMMA LaidOverType ==
    ASSUME NEW d \in Seq(Assignment), NEW k, NEW layer \in Layer, NEW s \in StackSet,
           NEW level \in LevelIn(d)
    PROVE  /\ LaidOver(d, k, layer, s, level) \in StackSet
           /\ LaidOver(d, k, layer, s, level).top = LayerOver(d, k, layer, Seen(s), level)
           /\ LaidOver(d, k, layer, s, level).below = Seen(s)
           /\ LaidOver(d, k, layer, s, level).top \in Meaning
<1>1. Seen(s) \in Laid
  BY SeenType
<1>2. LayerOver(d, k, layer, Seen(s), level) \in Meaning
  BY <1>1, OverType
<1> QED
  BY <1>1, <1>2 DEF LaidOver, StackSet, Laid

LEMMA StacksSteps ==
    ASSUME NEW d \in Seq(Assignment), NEW k, NEW level \in LevelIn(d)
    PROVE  /\ Stacks(d, k, level)[0] = NoLayers
           /\ \A i \in 0..Len(d) : Stacks(d, k, level)[i] \in StackSet
           /\ \A i \in 1..Len(d) :
                  Stacks(d, k, level)[i] =
                      IF d[i].key # k THEN Stacks(d, k, level)[i - 1]
                      ELSE LaidOver(d, k, d[i].layer, Stacks(d, k, level)[i - 1], level)
<1> DEFINE n == Len(d)
           S == StackSet
           Over(i, x) == IF d[i].key # k THEN x ELSE LaidOver(d, k, d[i].layer, x, level)
           h == [i \in Nat |-> [x \in S |-> IF i + 1 \in 1..n THEN Over(i + 1, x) ELSE x]]
           Solves(g) == g = [i \in 0..n |-> IF i = 0 THEN NoLayers
                                            ELSE IF d[i].key # k THEN g[i - 1]
                                            ELSE LaidOver(d, k, d[i].layer, g[i - 1], level)]
           F == CHOOSE g : Solves(g)
<1>1. n \in Nat
  OBVIOUS
<1>2. \A i \in 1..n : \A x \in S : Over(i, x) \in S
  BY AssignmentParts, LaidOverType
<1>3. NoLayers \in S
  BY NoLayerParts
<1>4. h \in [Nat -> [S -> S]]
  <2> HIDE DEF S, n, Over
  <2> QED
    BY <1>2
<1>5. PICK E : E \in Partial(S, NoLayers, h, n)
  <2> HIDE DEF h, S, n
  <2>1. \A m \in Nat : Partial(S, NoLayers, h, m) # {}
    BY <1>3, <1>4, PartialExists
  <2> QED
    BY <1>1, <2>1
<1>6. E \in [0..n -> S] /\ E[0] = NoLayers /\ \A i \in 0..(n - 1) : E[i + 1] = h[i][E[i]]
  <2> HIDE DEF h, S, n
  <2> QED
    BY <1>5 DEF Partial
<1>7. ASSUME NEW i \in 1..n PROVE E[i] = Over(i, E[i - 1])
  <2>1. i - 1 \in 0..n /\ i - 1 \in 0..(n - 1) /\ (i - 1) + 1 = i /\ i - 1 \in Nat
    BY <1>1
  <2>2. E[i - 1] \in S /\ E[i] = h[i - 1][E[i - 1]]
    <3> HIDE DEF h, S, n
    <3> QED
      BY <1>6, <2>1
  <2> HIDE DEF S, Over
  <2> QED
    BY <2>1, <2>2
<1> HIDE DEF h
<1>8. Solves(E)
  <2>1. ASSUME NEW i \in 0..n
        PROVE  E[i] = IF i = 0 THEN NoLayers
                      ELSE IF d[i].key # k THEN E[i - 1]
                      ELSE LaidOver(d, k, d[i].layer, E[i - 1], level)
    <3>1. CASE i = 0
      BY <1>6, <3>1
    <3>2. CASE i # 0
      <4>1. i \in 1..n
        BY <1>1, <3>2
      <4> QED
        BY <1>7, <3>2, <4>1
    <3> QED
      BY <3>1, <3>2
  <2> HIDE DEF n, S
  <2> QED
    BY <1>6, <2>1
<1>9. Solves(F)
  <2> HIDE DEF Solves
  <2> QED
    BY <1>8
<1>10. Stacks(d, k, level) = F
  BY DEF Stacks
<1> HIDE DEF F
<1>11. F[0] = NoLayers /\ \A i \in 1..n : F[i] = Over(i, F[i - 1])
  <2>1. \A i \in 0..n : F[i] = IF i = 0 THEN NoLayers
                               ELSE IF d[i].key # k THEN F[i - 1]
                               ELSE LaidOver(d, k, d[i].layer, F[i - 1], level)
    <3> HIDE DEF n
    <3> QED
      BY <1>9
  <2>2. 0 \in 0..n /\ \A i \in 1..n : i \in 0..n /\ i # 0
    BY <1>1
  <2> QED
    BY <2>1, <2>2
<1> DEFINE G == {i \in Nat : i <= n => F[i] \in S}
<1>12. 0 \in G
  BY <1>3, <1>11
<1>13. ASSUME NEW i \in Nat, i \in G PROVE i + 1 \in G
  <2> SUFFICES ASSUME i + 1 <= n PROVE F[i + 1] \in S
    OBVIOUS
  <2>1. i + 1 \in 1..n /\ (i + 1) - 1 = i /\ i <= n
    BY <1>1
  <2> HIDE DEF S, Over
  <2>2. F[i] \in S /\ F[i + 1] = Over(i + 1, F[i])
    BY <1>11, <1>13, <2>1
  <2> QED
    BY <1>2, <2>1, <2>2
<1> HIDE DEF G
<1>14. \A i \in Nat : i \in G
  BY <1>12, <1>13, SetInduction
<1> QED
  BY <1>1, <1>10, <1>11, <1>14 DEF G
LEMMA StackTops ==
    ASSUME NEW d \in Seq(Assignment), NEW k, NEW level \in LevelIn(d)
    PROVE  \A i \in 0..Len(d) :
               /\ Stacks(d, k, level)[i] \in StackSet
               /\ k \in KeysTo(d, i) => Stacks(d, k, level)[i].top \in Meaning
               /\ k \notin KeysTo(d, i) => Stacks(d, k, level)[i] = NoLayers
<1> DEFINE n == Len(d)
           at == Stacks(d, k, level)
           Q(i) == /\ k \in KeysTo(d, i) => at[i].top \in Meaning
                   /\ k \notin KeysTo(d, i) => at[i] = NoLayers
           G == {i \in Nat : i <= n => Q(i)}
<1>1. n \in Nat
  OBVIOUS
<1>2. 0 \in G
  BY StacksSteps DEF KeysTo
<1>3. ASSUME NEW i \in Nat, i \in G PROVE i + 1 \in G
  <2> SUFFICES ASSUME i + 1 <= n PROVE Q(i + 1)
    OBVIOUS
  <2>1. i + 1 \in 1..n /\ (i + 1) - 1 = i /\ i \in 0..n /\ i <= n
    BY <1>1
  <2>2. /\ at[i] \in StackSet /\ Q(i) /\ d[i + 1].layer \in Layer
        /\ at[i + 1] = IF d[i + 1].key # k THEN at[i] ELSE LaidOver(d, k, d[i + 1].layer, at[i], level)
    BY <1>3, <2>1, StacksSteps, AssignmentParts
  <2>3. \A j : j \in 1..(i + 1) <=> (j \in 1..i \/ j = i + 1)
    BY <2>1
  <2>4. KeysTo(d, i + 1) = KeysTo(d, i) \cup {d[i + 1].key}
    BY <2>3 DEF KeysTo
  <2> HIDE DEF at
  <2>5. CASE d[i + 1].key # k
    BY <2>2, <2>4, <2>5
  <2>6. CASE d[i + 1].key = k
    <3>1. at[i + 1] = LaidOver(d, k, d[i + 1].layer, at[i], level)
      BY <2>2, <2>6
    <3>2. at[i + 1].top \in Meaning
      BY <2>2, <3>1, LaidOverType
    <3> QED
      BY <2>4, <2>6, <3>2
  <2> QED
    BY <2>5, <2>6
<1> HIDE DEF G
<1>4. \A i \in Nat : i \in G
  BY <1>2, <1>3, SetInduction
<1>5. \A i \in 0..n : at[i] \in StackSet
  BY StacksSteps
<1> QED
  BY <1>1, <1>4, <1>5 DEF G

LEMMA WholeStack ==
    ASSUME NEW d \in Seq(Assignment), NEW k \in KeysOf(d), NEW level \in LevelIn(d)
    PROVE  /\ Stack(d, k, level) = Stacks(d, k, level)[Len(d)]
           /\ Stack(d, k, level) \in StackSet /\ Stack(d, k, level).top \in Meaning
           /\ Seen(Stack(d, k, level)) \in Meaning /\ Left(Stack(d, k, level)) \in Meaning
<1>1. Len(d) \in 0..Len(d) /\ DOMAIN d = 1..Len(d)
  OBVIOUS
<1>2. k \in KeysTo(d, Len(d))
  BY <1>1 DEF KeysOf, KeysTo
<1>3. Stack(d, k, level) = Stacks(d, k, level)[Len(d)]
  BY DEF Stack
<1>4. Stack(d, k, level) \in StackSet /\ Stack(d, k, level).top \in Meaning
  BY <1>1, <1>2, <1>3, StackTops
<1> QED
  BY <1>3, <1>4, SeenType

LEMMA DocumentSteps ==
    ASSUME NEW d \in Seq(Assignment)
    PROVE  /\ \A n \in Nat : DocumentLevels(d)[n] \in LevelIn(d)
           /\ \A k \in KeysOf(d) : DocumentLevels(d)[0][k] = Endless
           /\ \A n \in Nat, k \in KeysOf(d) :
                  DocumentLevels(d)[n + 1][k] = Seen(Stack(d, k, DocumentLevels(d)[n]))
<1> DEFINE D == KeysOf(d)
           S == LevelIn(d)
           b == [k \in D |-> Endless]
           h == [n \in Nat |-> [level \in S |-> [k \in D |-> Seen(Stack(d, k, level))]]]
           Solves(g) == g = [n \in Nat |-> [k \in D |-> IF n = 0 THEN Endless
                                                        ELSE Seen(Stack(d, k, g[n - 1]))]]
<1>1. b \in S
  BY MeaningTypes DEF LevelIn
<1>2. h \in [Nat -> [S -> S]]
  <2>1. ASSUME NEW level \in S PROVE [k \in D |-> Seen(Stack(d, k, level))] \in S
    BY WholeStack DEF LevelIn
  <2> HIDE DEF S, D
  <2> QED
    BY <2>1
<1>3. PICK F \in [Nat -> S] : F[0] = b /\ \A i \in Nat : F[i + 1] = h[i][F[i]]
  <2> HIDE DEF h, b, S
  <2>1. Following(S, b, h) # {}
    BY <1>1, <1>2, FollowingExists
  <2> QED
    BY <2>1 DEF Following
<1>4. ASSUME NEW n \in Nat, n # 0
      PROVE  F[n] = [k \in D |-> Seen(Stack(d, k, F[n - 1]))]
  <2>1. n - 1 \in Nat /\ (n - 1) + 1 = n
    BY <1>4
  <2>2. F[n - 1] \in S
    BY <1>3, <2>1
  <2>3. F[n] = h[n - 1][F[n - 1]]
    BY <1>3, <2>1
  <2> HIDE DEF S, D
  <2> QED
    BY <2>1, <2>2, <2>3
<1> HIDE DEF h
<1>5. Solves(F)
  <2>1. \A n \in Nat : F[n] = [k \in D |-> IF n = 0 THEN Endless ELSE Seen(Stack(d, k, F[n - 1]))]
    <3> TAKE n \in Nat
    <3>1. CASE n = 0
      BY <1>3, <3>1
    <3>2. CASE n # 0
      BY <1>4, <3>2
    <3> QED
      BY <3>1, <3>2
  <2>2. F = [n \in Nat |-> F[n]]
    BY <1>3
  <2> HIDE DEF D
  <2> QED
    BY <2>1, <2>2
<1> HIDE DEF Solves
<1>6. Solves(DocumentLevels(d))
  <2>1. DocumentLevels(d) = CHOOSE g : Solves(g)
    BY DEF DocumentLevels, Solves
  <2> QED
    BY <1>5, <2>1
<1> DEFINE L == DocumentLevels(d)
<1>7. \A n \in Nat : L[n] = [k \in D |-> IF n = 0 THEN Endless ELSE Seen(Stack(d, k, L[n - 1]))]
  <2> HIDE DEF D
  <2> QED
    BY <1>6 DEF Solves
<1> HIDE DEF L
<1> DEFINE G == {n \in Nat : L[n] \in S}
<1>8. 0 \in G
  BY <1>1, <1>7
<1>9. ASSUME NEW n \in Nat, n \in G PROVE n + 1 \in G
  <2>1. L[n + 1] = [k \in D |-> Seen(Stack(d, k, L[n]))]
    BY <1>7
  <2>2. L[n] \in S
    BY <1>9
  <2>3. [k \in D |-> Seen(Stack(d, k, L[n]))] \in S
    BY <2>2, WholeStack DEF LevelIn
  <2> QED
    BY <2>1, <2>3
<1> HIDE DEF G
<1>10. \A n \in Nat : n \in G
  BY <1>8, <1>9, SetInduction
<1>11. \A n \in Nat : L[n] \in S
  BY <1>10 DEF G
<1>12. \A k \in D : L[0][k] = Endless
  BY <1>7
<1>13. ASSUME NEW n \in Nat, NEW k \in D
       PROVE  L[n + 1][k] = Seen(Stack(d, k, L[n]))
  <2>1. n + 1 \in Nat /\ n + 1 # 0 /\ (n + 1) - 1 = n
    OBVIOUS
  <2>2. L[n + 1] = [j \in D |-> Seen(Stack(d, j, L[n]))]
    BY <1>7, <2>1
  <2> QED
    BY <2>2
<1> QED
  BY <1>11, <1>12, <1>13 DEF L
-----------------------------------------------------------------------------
(* What a layer means in a tree, if it does not look back.                 *)
PlainParts(t, s, level) == [i \in DOMAIN s |-> PlainMeaning(t, s[i], level)]
PlainTogether(t, s, level) == Together(PlainParts(t, s, level), Len(s))

LEMMA PlainTogetherParts ==
    ASSUME NEW t, IsTree(t), NEW level \in LevelOf(t), NEW s \in Seq(Part)
    PROVE  /\ Len(s) \in Nat
           /\ \A i \in 1..Len(s) : /\ PlainParts(t, s, level)[i] \in Meaning
                                   /\ PlainParts(t, s, level)[i] = PlainMeaning(t, s[i], level)
           /\ PlainTogether(t, s, level) \in Meaning
           /\ IsGood(PlainTogether(t, s, level)) =>
                  \A i \in 1..Len(s) : IsGood(PlainParts(t, s, level)[i])
<1> DEFINE n == Len(s)
           ms == PlainParts(t, s, level)
<1>1. n \in Nat /\ DOMAIN s = 1..n /\ \A i \in 1..n : s[i] \in Part
  OBVIOUS
<1>2. \A i \in 1..n : ms[i] = PlainMeaning(t, s[i], level)
  BY <1>1 DEF PlainParts
<1>3. \A i \in 1..n : ms[i] \in Meaning
  BY <1>1, <1>2, PlainType
<1>4. n \in 0..n
  BY <1>1
<1> HIDE DEF ms, n
<1>5. Together(ms, n) \in Meaning
  BY <1>1, <1>3, <1>4, TogetherSteps
<1>6. IsGood(Together(ms, n)) => \A i \in 1..n : IsGood(ms[i])
  BY <1>1, <1>3, TogetherAll
<1> QED
  BY <1>1, <1>2, <1>3, <1>5, <1>6 DEF PlainTogether, ms, n

(* One layer after the other, if both have a meaning.                      *)
LEMMA PlainConcat ==
    ASSUME NEW t, IsTree(t), NEW level \in LevelOf(t), NEW s \in Seq(Part), NEW r \in Seq(Part),
           Len(r) # 0,
           \A i \in 1..Len(s) : IsGood(PlainParts(t, s, level)[i]),
           \A i \in 1..Len(r) : IsGood(PlainParts(t, r, level)[i])
    PROVE  /\ PlainTogether(t, s \o r, level) =
                  Both(PlainTogether(t, s, level), PlainTogether(t, r, level))
           /\ \A i \in 1..Len(s \o r) : IsGood(PlainParts(t, s \o r, level)[i])
<1> DEFINE A == Len(s)
           B == Len(r)
           q == s \o r
           xs == PlainParts(t, s, level)
           ys == PlainParts(t, r, level)
           ms == PlainParts(t, q, level)
<1>1. /\ q \in Seq(Part) /\ Len(q) = A + B /\ A \in Nat /\ B \in Nat
      /\ \A i \in 1..A : q[i] = s[i]
      /\ \A i \in 1..B : q[A + i] = r[i]
      /\ \A i \in 1..Len(q) : i \in 1..A \/ (i - A \in 1..B /\ i = A + (i - A))
  BY ConcatParts
<1>2. /\ \A i \in 1..A : xs[i] \in Meaning /\ xs[i] = PlainMeaning(t, s[i], level)
      /\ \A i \in 1..B : ys[i] \in Meaning /\ ys[i] = PlainMeaning(t, r[i], level)
  BY PlainTogetherParts
<1> HIDE DEF q, ms
<1>3. \A i \in 1..Len(q) : ms[i] = PlainMeaning(t, q[i], level)
  <2>1. q \in Seq(Part)
    BY <1>1
  <2> QED
    BY <2>1, PlainTogetherParts DEF ms
<1> HIDE DEF A, B, xs, ys
<1>4. \A i \in 1..A : ms[i] = xs[i]
  <2> TAKE i \in 1..A
  <2>1. i \in 1..Len(q)
    BY <1>1
  <2> QED
    BY <1>1, <1>2, <1>3, <2>1
<1>5. \A i \in 1..B : ms[A + i] = ys[i]
  <2> TAKE i \in 1..B
  <2>1. A + i \in 1..Len(q)
    BY <1>1
  <2> QED
    BY <1>1, <1>2, <1>3, <2>1
<1>6. /\ \A i \in 1..A : xs[i] \in Meaning /\ IsGood(xs[i]) /\ ms[i] = xs[i]
      /\ \A i \in 1..B : ys[i] \in Meaning /\ IsGood(ys[i]) /\ ms[A + i] = ys[i]
  BY <1>2, <1>4, <1>5 DEF A, B, xs, ys
<1>7. B # 0
  BY DEF B
<1>8. Together(ms, A + B) = Both(Together(xs, A), Together(ys, B))
  <2>1. A \in Nat /\ B \in Nat /\ B # 0
    BY <1>1, <1>7
  <2>2. \A i \in 1..A : xs[i] \in Meaning /\ IsGood(xs[i]) /\ ms[i] = xs[i]
    BY <1>6
  <2>3. \A i \in 1..B : ys[i] \in Meaning /\ IsGood(ys[i]) /\ ms[A + i] = ys[i]
    BY <1>6
  <2> QED
    BY <2>1, <2>2, <2>3, TogetherConcat, SMTT(60)
<1>9. \A i \in 1..Len(q) : IsGood(ms[i])
  <2> TAKE i \in 1..Len(q)
  <2>1. CASE i \in 1..A
    BY <1>6, <2>1
  <2>2. CASE i - A \in 1..B /\ i = A + (i - A)
    BY <1>6, <2>2
  <2> QED
    BY <1>1, <2>1, <2>2
<1> QED
  BY <1>1, <1>8, <1>9 DEF PlainTogether, A, B, q, xs, ys, ms

LEMMA PlainSingle ==
    ASSUME NEW t, IsTree(t), NEW level \in LevelOf(t), NEW part \in Part,
           IsGood(PlainMeaning(t, part, level))
    PROVE  /\ <<part>> \in Seq(Part) /\ Len(<<part>>) = 1
           /\ IsGood(PlainParts(t, <<part>>, level)[1])
           /\ PlainTogether(t, <<part>>, level) = PlainMeaning(t, part, level)
<1> DEFINE s == <<part>>
           ms == PlainParts(t, s, level)
<1>1. s \in Seq(Part) /\ Len(s) = 1 /\ s[1] = part
  OBVIOUS
<1> HIDE DEF s
<1>2. \A i \in 1..1 : ms[i] \in Meaning /\ ms[i] = PlainMeaning(t, s[i], level)
  BY <1>1, PlainTogetherParts
<1> HIDE DEF ms
<1>3. ms[1] = PlainMeaning(t, part, level) /\ ms[1] \in Meaning
  <2>1. 1 \in 1..1
    OBVIOUS
  <2> QED
    BY <1>1, <1>2, <2>1
<1>4. Together(ms, 0) = Good(Nothing) /\ Together(ms, 1) = Both(Together(ms, 0), ms[1])
  <2>1. 1 \in Nat /\ 1 \in 1..1 /\ 1 - 1 = 0
    OBVIOUS
  <2>2. \A i \in 1..1 : ms[i] \in Meaning
    BY <1>2
  <2>3. Together(ms, 0) = Good(Nothing) /\ \A n \in 1..1 : Together(ms, n) = Both(Together(ms, n - 1), ms[n])
    BY <2>1, <2>2, TogetherSteps
  <2> QED
    BY <2>1, <2>3
<1>5. Together(ms, 1) = ms[1]
  BY <1>3, <1>4, GoodIsItsValue
<1> QED
  BY <1>1, <1>3, <1>5 DEF PlainTogether, s, ms

(* A fold puts the old prior where a reference was, and the layer means    *)
(* what it means with the meaning of the old prior in that place.          *)
LEMMA FoldedMeaning ==
    ASSUME NEW t, IsTree(t), NEW level \in LevelOf(t), NEW layer \in Layer, NEW k,
           NEW old \in Layer, IsGood(PlainTogether(t, old, level)), NEW ms,
           \A i \in 1..Len(layer) :
               /\ IsGood(ms[i])
               /\ ms[i] = IF RefersTo(layer[i], k) THEN PlainTogether(t, old, level)
                          ELSE PlainMeaning(t, layer[i], level)
    PROVE  PlainTogether(t, FoldSelfRef(layer, k, old), level) = Together(ms, Len(layer))
<1> DEFINE n == Len(layer)
           P == PlainTogether(t, old, level)
<1>1. /\ n \in Nat /\ layer \in Seq(Part) /\ old \in Seq(Part) /\ Len(old) # 0
      /\ \A i \in 1..n : layer[i] \in Part
  <2>1. layer \in Seq(Part) /\ layer # <<>> /\ old \in Seq(Part) /\ old # <<>>
    BY DEF Layer
  <2> QED
    BY <2>1
<1>2. PICK F : /\ F \in [0..n -> Seq(Part)]
               /\ F[0] = <<>>
               /\ \A i \in 1..n : F[i] = F[i - 1] \o Piece(layer, k, old, i)
               /\ FoldSelfRef(layer, k, old) = F[n]
  BY FoldSteps
<1>3. ASSUME NEW i \in 1..n
      PROVE  /\ Piece(layer, k, old, i) \in Seq(Part) /\ Len(Piece(layer, k, old, i)) # 0
             /\ \A j \in 1..Len(Piece(layer, k, old, i)) :
                    IsGood(PlainParts(t, Piece(layer, k, old, i), level)[j])
             /\ PlainTogether(t, Piece(layer, k, old, i), level) = ms[i]
  <2>1. CASE RefersTo(layer[i], k)
    <3>1. Piece(layer, k, old, i) = old /\ ms[i] = P
      BY <2>1 DEF Piece
    <3> QED
      BY <1>1, <3>1, PlainTogetherParts
  <2>2. CASE ~RefersTo(layer[i], k)
    <3>1. Piece(layer, k, old, i) = <<layer[i]>> /\ ms[i] = PlainMeaning(t, layer[i], level)
      BY <2>2 DEF Piece
    <3>2. layer[i] \in Part /\ IsGood(PlainMeaning(t, layer[i], level))
      BY <1>1, <3>1
    <3>3. /\ <<layer[i]>> \in Seq(Part) /\ Len(<<layer[i]>>) = 1
          /\ IsGood(PlainParts(t, <<layer[i]>>, level)[1])
          /\ PlainTogether(t, <<layer[i]>>, level) = PlainMeaning(t, layer[i], level)
      BY <3>2, PlainSingle
    <3>4. \A j \in 1..1 : j = 1
      OBVIOUS
    <3> QED
      BY <3>1, <3>3, <3>4
  <2> QED
    BY <2>1, <2>2
<1>4. \A i \in 1..n : ms[i] \in Meaning
  BY <1>3, PlainTogetherParts
<1> DEFINE Q(i) == /\ \A j \in 1..Len(F[i]) : IsGood(PlainParts(t, F[i], level)[j])
                   /\ PlainTogether(t, F[i], level) = Together(ms, i)
           G == {i \in Nat : i <= n => Q(i)}
<1>5. 0 \in G
  <2>1. Len(<<>>) = 0 /\ <<>> \in Seq(Part) /\ (\A j \in 1..0 : FALSE)
    OBVIOUS
  <2>2. Together(ms, 0) = Good(Nothing)
    BY <1>1, <1>4, TogetherSteps
  <2>3. Together(PlainParts(t, <<>>, level), 0) = Good(Nothing)
    <3>1. 0 \in Nat /\ \A i \in 1..0 : PlainParts(t, <<>>, level)[i] \in Meaning
      BY <2>1
    <3> QED
      BY <3>1, TogetherSteps
  <2>4. Q(0)
    BY <1>2, <2>1, <2>2, <2>3 DEF PlainTogether
  <2> QED
    BY <2>4
<1>6. ASSUME NEW i \in Nat, i \in G PROVE i + 1 \in G
  <2> SUFFICES ASSUME i + 1 <= n PROVE Q(i + 1)
    OBVIOUS
  <2>1. i + 1 \in 1..n /\ (i + 1) - 1 = i /\ i \in 0..n /\ i <= n
    BY <1>1
  <2> DEFINE s == F[i]
             r == Piece(layer, k, old, i + 1)
  <2>2. /\ s \in Seq(Part) /\ r \in Seq(Part) /\ Len(r) # 0
        /\ \A j \in 1..Len(r) : IsGood(PlainParts(t, r, level)[j])
        /\ PlainTogether(t, r, level) = ms[i + 1]
        /\ F[i + 1] = s \o r
    BY <1>2, <1>3, <2>1
  <2>3. /\ \A j \in 1..Len(s) : IsGood(PlainParts(t, s, level)[j])
        /\ PlainTogether(t, s, level) = Together(ms, i)
    BY <1>6, <2>1
  <2> HIDE DEF s, r, n
  <2>4. /\ PlainTogether(t, s \o r, level) =
               Both(PlainTogether(t, s, level), PlainTogether(t, r, level))
        /\ \A j \in 1..Len(s \o r) : IsGood(PlainParts(t, s \o r, level)[j])
    BY <2>2, <2>3, PlainConcat
  <2>5. Together(ms, i + 1) = Both(Together(ms, i), ms[i + 1])
    BY <1>1, <1>4, <2>1, TogetherSteps
  <2> QED
    BY <2>2, <2>3, <2>4, <2>5
<1> HIDE DEF G
<1>7. \A i \in Nat : i \in G
  BY <1>5, <1>6, SetInduction
<1>8. Q(n)
  BY <1>1, <1>7 DEF G
<1> QED
  BY <1>2, <1>8
-----------------------------------------------------------------------------
(* A document and the tree that it builds, with meanings of the keys that  *)
(* agree where the document has one.                                       *)
Final(d, t, lv, tl) ==
    /\ d \in Seq(Assignment) /\ IsTree(t) /\ DOMAIN t.fields = KeysOf(d)
    /\ lv \in LevelIn(d) /\ tl \in LevelOf(t)
    /\ \A k \in KeysOf(d) : IsGood(lv[k]) => tl[k] = lv[k]

LEMMA OtherIsPlain ==
    ASSUME NEW d, NEW t, NEW lv, NEW tl, Final(d, t, lv, tl),
           NEW part \in Part, IsReference(part) => ~part.absent, IsGood(OtherMeaning(d, part, lv))
    PROVE  PlainMeaning(t, part, tl) = OtherMeaning(d, part, lv)
<1>1. /\ DOMAIN t.fields = KeysOf(d) /\ lv \in LevelIn(d)
      /\ \A k \in KeysOf(d) : IsGood(lv[k]) => tl[k] = lv[k]
  BY DEF Final
<1>2. CASE IsReference(part) /\ part.key \in KeysOf(d)
  <2>1. lv[part.key] \in Meaning
    BY <1>1, <1>2 DEF LevelIn
  <2>2. OtherMeaning(d, part, lv) = Demanded(part, lv[part.key])
    BY <1>2 DEF OtherMeaning
  <2>3. PlainMeaning(t, part, tl) = Demanded(part, tl[part.key])
    BY <1>1, <1>2 DEF PlainMeaning
  <2> QED
    BY <1>1, <1>2, <2>1, <2>2, <2>3, DemandedParts
<1>3. CASE ~(IsReference(part) /\ part.key \in KeysOf(d))
  BY <1>1, <1>3 DEF OtherMeaning, PlainMeaning
<1> QED
  BY <1>2, <1>3

OverParts(d, k, layer, below, level) ==
    [j \in DOMAIN layer |-> PartOver(d, k, layer[j], below, level)]

LEMMA LayerOverParts ==
    ASSUME NEW d \in Seq(Assignment), NEW k, NEW layer \in Layer, NEW below \in Laid,
           NEW level \in LevelIn(d), NEW ms, ms = OverParts(d, k, layer, below, level),
           NEW m, m = LayerOver(d, k, layer, below, level)
    PROVE  /\ m = Together(ms, Len(layer)) /\ m \in Meaning
           /\ \A i \in 1..Len(layer) :
                  /\ ms[i] \in Meaning
                  /\ ms[i] = PartOver(d, k, layer[i], below, level)
                  /\ IsGood(m) => IsGood(ms[i])
<1> DEFINE n == Len(layer)
<1>1. /\ n \in Nat /\ DOMAIN layer = 1..n /\ m \in Meaning
      /\ \A i \in 1..n : PartOver(d, k, layer[i], below, level) \in Meaning
  BY OverType
<1>2. m = Together(ms, n)
  BY DEF LayerOver, OverParts
<1>3. \A i \in 1..n : ms[i] = PartOver(d, k, layer[i], below, level)
  BY <1>1 DEF OverParts
<1> HIDE DEF n
<1>4. \A i \in 1..n : ms[i] \in Meaning
  BY <1>1, <1>3
<1>5. IsGood(Together(ms, n)) => \A i \in 1..n : IsGood(ms[i])
  BY <1>1, <1>4, TogetherAll
<1> QED
  BY <1>1, <1>2, <1>3, <1>4, <1>5 DEF n

(* A tree on the way and the layers so far: what lies below the top layer  *)
(* of a key is its prior, which means the same in the whole tree.          *)
Agree(d, k, lv, t, tl, u, s) ==
    /\ k \in DOMAIN u.fields =>
           Written(u.fields[k]) /\ s.top = LayerOver(d, k, u.fields[k], s.below, lv)
    /\ k \in DOMAIN u.priors =>
           /\ s.below # NoLayer
           /\ IsGood(s.below) => PlainTogether(t, u.priors[k], tl) = s.below
    /\ k \notin DOMAIN u.priors => ~IsGood(s.below)

LEMMA SeenGood ==
    ASSUME NEW s
    PROVE  /\ IsGood(Seen(s)) => (Seen(s) = s.top /\ IsGood(s.top) /\ ~LeavesToBelow(s))
           /\ ~IsGood(s.top) => ~IsGood(Seen(s))
BY MeaningTypes DEF Seen, LeavesToBelow

(* The prior that is saved means what the layers so far mean, and there is *)
(* none only if they mean nothing.                                         *)
LEMMA SavedMeaning ==
    ASSUME NEW d, NEW t, NEW lv, NEW tl, Final(d, t, lv, tl), NEW k,
           NEW u \in BuiltTrees, NEW s \in StackSet, k \in DOMAIN u.fields,
           Agree(d, k, lv, t, tl, u, s)
    PROVE  /\ Saved(u, k) = NoPrior => k \notin DOMAIN u.priors /\ ~IsGood(Seen(s))
           /\ Saved(u, k) # NoPrior /\ IsGood(Seen(s)) =>
                  PlainTogether(t, Saved(u, k), tl) = Seen(s)
<1> DEFINE layer == u.fields[k]
           old == OldPrior(u, k)
           below == s.below
           ms == OverParts(d, k, layer, below, lv)
           n == Len(layer)
<1>1. /\ d \in Seq(Assignment) /\ IsTree(t) /\ lv \in LevelIn(d) /\ tl \in LevelOf(t)
  BY DEF Final
<1>2. layer \in Layer /\ (old = NoPrior \/ old \in Layer) /\ below \in Laid
  BY BuiltParts, SeenType
<1>3. Written(layer) /\ s.top = LayerOver(d, k, layer, below, lv)
  BY DEF Agree
<1>4. /\ k \in DOMAIN u.priors => (old = u.priors[k] /\ old # NoPrior)
      /\ k \notin DOMAIN u.priors => old = NoPrior
  <2>1. k \in DOMAIN u.priors => u.priors[k] \in Layer
    BY BuiltParts
  <2> QED
    BY <2>1 DEF OldPrior, NoPrior, Layer
<1>5. Saved(u, k) = FoldOrSkipPrior(layer, k, old)
  BY DEF Saved
<1>6. /\ below # NoLayer /\ IsGood(below) => PlainTogether(t, old, tl) = below /\ old # NoPrior
      /\ old # NoPrior => below # NoLayer
      /\ old = NoPrior => ~IsGood(below)
  BY <1>4 DEF Agree
<1> HIDE DEF layer, old, below
<1>7. /\ n \in Nat /\ DOMAIN layer = 1..n /\ layer \in Seq(Part)
      /\ \A i \in 1..n : layer[i] \in Part
  BY <1>2 DEF Layer
<1>8. /\ s.top = Together(ms, n) /\ s.top \in Meaning
      /\ \A i \in 1..n : /\ ms[i] \in Meaning
                         /\ ms[i] = PartOver(d, k, layer[i], below, lv)
                         /\ IsGood(s.top) => IsGood(ms[i])
  <2> HIDE DEF ms
  <2>1. ms = OverParts(d, k, layer, below, lv)
    BY DEF ms
  <2> QED
    BY <1>1, <1>2, <1>3, <2>1, LayerOverParts
<1>9. \A i \in 1..n : IsReference(layer[i]) => ~layer[i].absent
  BY <1>3, <1>7 DEF Written
<1> HIDE DEF ms, n
<1>10. ASSUME IsGood(s.top), NEW i \in 1..n, ~RefersTo(layer[i], k)
       PROVE  PlainMeaning(t, layer[i], tl) = ms[i]
  <2>1. ms[i] = OtherMeaning(d, layer[i], lv) /\ IsGood(ms[i])
    BY <1>8, <1>10 DEF PartOver
  <2>2. layer[i] \in Part /\ (IsReference(layer[i]) => ~layer[i].absent)
    BY <1>7, <1>9
  <2> QED
    BY <2>1, <2>2, OtherIsPlain
<1>11. ASSUME IsGood(s.top), NEW i \in 1..n, RefersTo(layer[i], k)
       PROVE  IF below = NoLayer THEN ms[i] = NoProvider(layer[i]) /\ layer[i].optional
              ELSE ms[i] = below /\ IsGood(below)
  <2>1. IsGood(ms[i])
        /\ ms[i] = IF below = NoLayer THEN NoProvider(layer[i]) ELSE Demanded(layer[i], below)
    BY <1>8, <1>11 DEF PartOver
  <2>2. ~layer[i].optional => ~IsGood(NoProvider(layer[i]))
    BY MeaningTypes DEF NoProvider
  <2>3. below # NoLayer /\ IsGood(Demanded(layer[i], below)) => Demanded(layer[i], below) = below
    BY <1>2, DemandedParts DEF Laid
  <2> QED
    BY <2>1, <2>2, <2>3
<1>12. ASSUME Saved(u, k) = NoPrior PROVE k \notin DOMAIN u.priors /\ ~IsGood(s.top)
  <2>1. ContainsSubst(layer, k)
    <3>1. layer # NoPrior
      BY <1>2 DEF Layer, NoPrior
    <3> QED
      BY <1>5, <1>12, <3>1 DEF FoldOrSkipPrior
  <2>2. old = NoPrior
    <3> SUFFICES ASSUME old # NoPrior PROVE FALSE
      OBVIOUS
    <3>1. old \in Layer /\ old = u.priors[k] /\ k \in DOMAIN u.priors
      BY <1>2, <1>4
    <3>2. ~ContainsSubst(old, k)
      BY <3>1, BuiltParts
    <3>3. FoldSelfRef(layer, k, old) \in Layer
      BY <1>2, <3>1, <3>2, FoldedLayer
    <3> QED
      BY <1>5, <1>12, <2>1, <3>3 DEF FoldOrSkipPrior, Layer, NoPrior
  <2>3. \E i \in 1..n : RefersTo(layer[i], k) /\ ~layer[i].optional
    <3>1. FoldOptionalSelfRefAbsent(layer, k) = NoPrior
      BY <1>5, <1>12, <2>1, <2>2 DEF FoldOrSkipPrior
    <3> SUFFICES ASSUME ~(\E i \in DOMAIN layer : RefersTo(layer[i], k) /\ ~layer[i].optional)
                 PROVE  FALSE
      BY <1>7
    <3>2. FoldOptionalSelfRefAbsent(layer, k) =
              [i \in DOMAIN layer |-> IF RefersTo(layer[i], k) THEN [layer[i] EXCEPT !.absent = TRUE]
                                                              ELSE layer[i]]
      BY DEF FoldOptionalSelfRefAbsent
    <3>3. DOMAIN FoldOptionalSelfRefAbsent(layer, k) = DOMAIN layer
      BY <3>2
    <3>4. DOMAIN NoPrior = {} /\ DOMAIN layer # {}
      <4>1. \E i \in DOMAIN layer : RefersTo(layer[i], k)
        BY <2>1 DEF ContainsSubst
      <4> QED
        BY <4>1 DEF NoPrior
    <3> QED
      BY <3>1, <3>3, <3>4
  <2> QED
    BY <1>4, <1>6, <1>11, <2>2, <2>3
<1>13. ASSUME Saved(u, k) # NoPrior, IsGood(s.top)
       PROVE  PlainTogether(t, Saved(u, k), tl) = s.top
  <2>1. CASE ~ContainsSubst(layer, k)
    <3>1. Saved(u, k) = layer
      BY <1>5, <2>1 DEF FoldOrSkipPrior
    <3> DEFINE ts == PlainParts(t, layer, tl)
    <3>2. \A i \in 1..n : ts[i] \in Meaning /\ ts[i] = PlainMeaning(t, layer[i], tl)
      BY <1>1, <1>7, PlainTogetherParts DEF n
    <3>3. \A i \in 1..n : ~RefersTo(layer[i], k)
      BY <1>7, <2>1 DEF ContainsSubst
    <3> HIDE DEF ts
    <3>4. \A i \in 1..n : ts[i] \in Meaning /\ ms[i] \in Meaning
      BY <1>8, <3>2
    <3>5. \A i \in 1..n : IsGood(ms[i]) => ts[i] = ms[i]
      BY <1>10, <1>13, <3>2, <3>3
    <3>6. IsGood(Together(ms, n))
      BY <1>8, <1>13
    <3>7. Together(ts, n) = Together(ms, n)
      BY <1>7, <3>4, <3>5, <3>6, TogetherSame
    <3> QED
      BY <1>8, <3>1, <3>7 DEF PlainTogether, ts, n
  <2>2. CASE ContainsSubst(layer, k) /\ old = NoPrior
    <3> DEFINE m == Saved(u, k)
    <3>1. m = FoldOptionalSelfRefAbsent(layer, k) /\ m # NoPrior
      BY <1>5, <1>13, <2>2 DEF FoldOrSkipPrior
    <3> HIDE DEF m
    <3>2. /\ m \in Layer /\ Len(m) = n
          /\ \A i \in 1..n :
                 IF RefersTo(layer[i], k)
                 THEN layer[i].optional /\ IsReference(m[i]) /\ m[i].absent /\ m[i].optional
                 ELSE m[i] = layer[i]
      BY <1>2, <3>1, MarkedLayer DEF n
    <3>3. below = NoLayer
      <4>1. \E i \in 1..n : RefersTo(layer[i], k)
        BY <1>7, <2>2 DEF ContainsSubst
      <4> QED
        BY <1>6, <1>11, <1>13, <2>2, <4>1
    <3> DEFINE ts == PlainParts(t, m, tl)
    <3>4. m \in Seq(Part)
      BY <3>2 DEF Layer
    <3>5. \A i \in 1..n : ts[i] \in Meaning /\ ts[i] = PlainMeaning(t, m[i], tl)
      BY <1>1, <3>2, <3>4, PlainTogetherParts
    <3> HIDE DEF ts
    <3>6. ASSUME NEW i \in 1..n PROVE ts[i] = ms[i]
      <4>1. CASE RefersTo(layer[i], k)
        <5>1. ms[i] = NoProvider(layer[i]) /\ layer[i].optional
          BY <1>11, <1>13, <3>3, <4>1
        <5>2. IsReference(m[i]) /\ m[i].absent /\ m[i].optional
          BY <3>2, <4>1
        <5> QED
          BY <3>5, <5>1, <5>2 DEF PlainMeaning, NoProvider
      <4>2. CASE ~RefersTo(layer[i], k)
        <5>1. m[i] = layer[i]
          BY <3>2, <4>2
        <5>2. PlainMeaning(t, layer[i], tl) = ms[i]
          BY <1>10, <1>13, <4>2
        <5> QED
          BY <3>5, <5>1, <5>2
      <4> QED
        BY <4>1, <4>2
    <3>7. \A i \in 1..n : ts[i] \in Meaning /\ ms[i] \in Meaning
      BY <1>8, <3>5
    <3>8. \A i \in 1..n : IsGood(ms[i]) => ts[i] = ms[i]
      BY <3>6
    <3>9. IsGood(Together(ms, n))
      BY <1>8, <1>13
    <3>10. Together(ts, n) = Together(ms, n)
      BY <1>7, <3>7, <3>8, <3>9, TogetherSame
    <3> QED
      BY <1>8, <3>2, <3>10 DEF PlainTogether, ts, m
  <2>3. CASE ContainsSubst(layer, k) /\ old # NoPrior
    <3>1. Saved(u, k) = FoldSelfRef(layer, k, old) /\ old \in Layer /\ below # NoLayer
      BY <1>2, <1>5, <1>6, <2>3 DEF FoldOrSkipPrior
    <3>2. \E i \in 1..n : RefersTo(layer[i], k)
      BY <1>7, <2>3 DEF ContainsSubst
    <3>3. IsGood(below)
      BY <1>11, <1>13, <3>1, <3>2
    <3>4. PlainTogether(t, old, tl) = below
      BY <1>6, <3>1, <3>3
    <3>5. \A i \in 1..n : /\ IsGood(ms[i])
                          /\ ms[i] = IF RefersTo(layer[i], k) THEN PlainTogether(t, old, tl)
                                     ELSE PlainMeaning(t, layer[i], tl)
      BY <1>8, <1>10, <1>11, <1>13, <3>1, <3>4
    <3>6. IsGood(PlainTogether(t, old, tl))
      BY <3>3, <3>4
    <3>7. PlainTogether(t, FoldSelfRef(layer, k, old), tl) = Together(ms, n)
      BY <1>1, <1>2, <3>1, <3>5, <3>6, FoldedMeaning DEF n
    <3> QED
      BY <1>8, <3>1, <3>7
  <2> QED
    BY <2>1, <2>2, <2>3
<1> QED
  BY <1>12, <1>13, SeenGood
-----------------------------------------------------------------------------
LEMMA PriorsAfter ==
    ASSUME NEW u \in BuiltTrees, NEW j \in Keys, NEW layer \in Layer, NEW v, v = Assign(u, j, layer)
    PROVE  /\ Saved(u, j) = NoPrior => v.priors = u.priors
           /\ Saved(u, j) # NoPrior => (j \in DOMAIN v.priors /\ v.priors[j] = Saved(u, j))
           /\ \A k : k # j => /\ k \in DOMAIN v.priors <=> k \in DOMAIN u.priors
                              /\ k \in DOMAIN u.priors => v.priors[k] = u.priors[k]
<1>1. v.priors = IF Saved(u, j) = NoPrior THEN u.priors ELSE Put(u.priors, j, Saved(u, j))
  BY AssignParts
<1> QED
  BY <1>1 DEF Put

LEMMA AgreeStep ==
    ASSUME NEW d, NEW t, NEW lv, NEW tl, Final(d, t, lv, tl), NEW k,
           NEW u \in BuiltTrees, NEW s \in StackSet, Agree(d, k, lv, t, tl, u, s),
           k \in DOMAIN u.fields => s.top \in Meaning,
           k \notin DOMAIN u.fields => s = NoLayers,
           NEW j \in Keys, NEW layer \in Layer, Written(layer),
           NEW v, v = Assign(u, j, layer),
           NEW r, r = IF j # k THEN s ELSE LaidOver(d, k, layer, s, lv)
    PROVE  Agree(d, k, lv, t, tl, v, r)
<1>1. d \in Seq(Assignment) /\ lv \in LevelIn(d)
  BY DEF Final
<1>2. /\ DOMAIN v.fields = DOMAIN u.fields \cup {j} /\ v.fields[j] = layer
      /\ \A i \in DOMAIN u.fields : i # j => v.fields[i] = u.fields[i]
  BY AssignParts
<1>3. /\ Saved(u, j) = NoPrior => v.priors = u.priors
      /\ Saved(u, j) # NoPrior => (j \in DOMAIN v.priors /\ v.priors[j] = Saved(u, j))
      /\ \A i : i # j => /\ i \in DOMAIN v.priors <=> i \in DOMAIN u.priors
                         /\ i \in DOMAIN u.priors => v.priors[i] = u.priors[i]
  BY PriorsAfter
<1>4. CASE j # k
  <2>1. r = s
    BY <1>4
  <2>2. k \in DOMAIN v.fields => k \in DOMAIN u.fields /\ v.fields[k] = u.fields[k]
    BY <1>2, <1>4
  <2>3. /\ k \in DOMAIN v.priors <=> k \in DOMAIN u.priors
        /\ k \in DOMAIN u.priors => v.priors[k] = u.priors[k]
    BY <1>3, <1>4
  <2> QED
    BY <2>1, <2>2, <2>3 DEF Agree
<1>5. CASE j = k
  <2>1. r.top = LayerOver(d, k, layer, Seen(s), lv) /\ r.below = Seen(s)
    BY <1>1, <1>5, LaidOverType
  <2>2. v.fields[k] = layer
    BY <1>2, <1>5
  <2>3. CASE k \notin DOMAIN u.fields
    <3>1. k \notin DOMAIN u.priors
      BY <2>3, BuiltParts
    <3>2. Saved(u, k) = NoPrior
      BY <2>3 DEF Saved
    <3>3. k \notin DOMAIN v.priors
      BY <1>3, <1>5, <3>1, <3>2
    <3>4. Seen(s) = NoLayer /\ ~IsGood(NoLayer)
      BY <2>3, NoLayerParts, SeenType
    <3> QED
      BY <2>1, <2>2, <3>3, <3>4 DEF Agree
  <2>4. CASE k \in DOMAIN u.fields
    <3>1. Seen(s) \in Meaning /\ Seen(s) # NoLayer
      BY <2>4, SeenType, NoLayerParts
    <3>2. /\ Saved(u, k) = NoPrior => k \notin DOMAIN u.priors /\ ~IsGood(Seen(s))
          /\ Saved(u, k) # NoPrior /\ IsGood(Seen(s)) => PlainTogether(t, Saved(u, k), tl) = Seen(s)
      BY <2>4, SavedMeaning
    <3>3. k \in DOMAIN v.priors <=> Saved(u, k) # NoPrior
      BY <1>3, <1>5, <3>2
    <3>4. k \in DOMAIN v.priors => v.priors[k] = Saved(u, k)
      BY <1>3, <1>5, <3>3
    <3> QED
      BY <2>1, <2>2, <3>1, <3>2, <3>3, <3>4 DEF Agree
  <2> QED
    BY <2>3, <2>4
<1> QED
  BY <1>4, <1>5

LEMMA AgreeAll ==
    ASSUME NEW d, NEW t, NEW lv, NEW tl, Final(d, t, lv, tl), NEW k
    PROVE  \A i \in 0..Len(d) : Agree(d, k, lv, t, tl, Building(d)[i], Stacks(d, k, lv)[i])
<1>1. d \in Seq(Assignment) /\ lv \in LevelIn(d) /\ Len(d) \in Nat
  BY DEF Final
<1> DEFINE n == Len(d)
           b == Building(d)
           at == Stacks(d, k, lv)
           G == {i \in Nat : i <= n => Agree(d, k, lv, t, tl, b[i], at[i])}
<1>2. 0 \in G
  <2>1. b[0] = EmptyTree /\ at[0] = NoLayers
    BY <1>1, BuildingSteps, StacksSteps
  <2>2. DOMAIN EmptyTree.fields = {} /\ DOMAIN EmptyTree.priors = {}
    BY DEF EmptyTree
  <2>3. Agree(d, k, lv, t, tl, EmptyTree, NoLayers)
    BY <2>2, NoLayerParts DEF Agree
  <2> QED
    BY <2>1, <2>3
<1>3. ASSUME NEW i \in Nat, i \in G PROVE i + 1 \in G
  <2> SUFFICES ASSUME i + 1 <= n PROVE Agree(d, k, lv, t, tl, b[i + 1], at[i + 1])
    OBVIOUS
  <2>1. i + 1 \in 1..n /\ (i + 1) - 1 = i /\ i \in 0..n /\ i <= n
    BY <1>1
  <2> DEFINE j == d[i + 1].key
             layer == d[i + 1].layer
             u == b[i]
             v == b[i + 1]
             s == at[i]
             r == at[i + 1]
  <2>2. j \in Keys /\ layer \in Layer /\ Written(layer)
    BY <1>1, <2>1, AssignmentParts
  <2>3. u \in BuiltTrees /\ v = Assign(u, j, layer) /\ DOMAIN u.fields = KeysTo(d, i)
    BY <1>1, <2>1, BuildingSteps, BuiltKeys
  <2>4. r = IF j # k THEN s ELSE LaidOver(d, k, layer, s, lv)
    BY <1>1, <2>1, StacksSteps
  <2>5. /\ s \in StackSet
        /\ k \in KeysTo(d, i) => s.top \in Meaning
        /\ k \notin KeysTo(d, i) => s = NoLayers
    BY <1>1, <2>1, StackTops
  <2>6. Agree(d, k, lv, t, tl, u, s)
    BY <1>3, <2>1
  <2> HIDE DEF b, at, j, layer, u, v, s, r
  <2>7. Agree(d, k, lv, t, tl, v, r)
    BY <2>2, <2>3, <2>4, <2>5, <2>6, AgreeStep
  <2> QED
    BY <2>7 DEF v, r
<1> HIDE DEF G
<1>4. \A i \in Nat : i \in G
  BY <1>2, <1>3, SetInduction
<1> QED
  BY <1>1, <1>4 DEF G

(* With the whole tree: what the layers of a key mean is what its field    *)
(* means.                                                                  *)
LEMMA WholeMeaning ==
    ASSUME NEW d, NEW lv, NEW tl, Final(d, Built(d), lv, tl), NEW k \in KeysOf(d),
           NEW s, s = Stack(d, k, lv)
    PROVE  /\ IsGood(Seen(s)) => KeyMeaning(Built(d), k, tl) = Seen(s)
           /\ IsGood(Left(s)) => FieldMeaning(Built(d), k, tl) = Left(s)
<1> DEFINE t == Built(d)
           layer == t.fields[k]
           below == s.below
           ms == OverParts(d, k, layer, below, lv)
           n == Len(layer)
<1>1. /\ d \in Seq(Assignment) /\ IsTree(t) /\ lv \in LevelIn(d) /\ tl \in LevelOf(t)
      /\ DOMAIN t.fields = KeysOf(d) /\ Len(d) \in 0..Len(d)
  BY DEF Final
<1>2. s \in StackSet /\ s.top \in Meaning /\ below \in Laid
  BY <1>1, WholeStack, SeenType
<1>3. Agree(d, k, lv, t, tl, t, s)
  <2>1. t = Building(d)[Len(d)] /\ s = Stacks(d, k, lv)[Len(d)]
    BY DEF Built, Stack
  <2> QED
    BY <1>1, <2>1, AgreeAll
<1> HIDE DEF t
<1>4. layer \in Layer
  BY <1>1 DEF IsTree
<1>5. Written(layer) /\ s.top = LayerOver(d, k, layer, below, lv)
  BY <1>1, <1>3 DEF Agree
<1>6. /\ k \in DOMAIN t.priors =>
             /\ below # NoLayer
             /\ IsGood(below) => PriorMeaning(t, k, tl) = below
      /\ k \notin DOMAIN t.priors => ~IsGood(below)
  <2>1. k \in DOMAIN t.priors => PlainTogether(t, t.priors[k], tl) = PriorMeaning(t, k, tl)
    BY DEF PlainTogether, PlainParts, PriorMeaning, PriorMeanings
  <2> QED
    BY <1>3, <2>1 DEF Agree
<1>7. /\ n \in Nat /\ DOMAIN layer = 1..n /\ layer \in Seq(Part)
      /\ \A i \in 1..n : layer[i] \in Part
  BY <1>4 DEF Layer
<1>8. /\ s.top = Together(ms, n)
      /\ \A i \in 1..n : /\ ms[i] \in Meaning
                         /\ ms[i] = PartOver(d, k, layer[i], below, lv)
                         /\ IsGood(s.top) => IsGood(ms[i])
  <2> HIDE DEF ms, layer, below
  <2>1. ms = OverParts(d, k, layer, below, lv)
    BY DEF ms
  <2> QED
    BY <1>1, <1>2, <1>4, <1>5, <2>1, LayerOverParts
<1>9. \A i \in 1..n : IsReference(layer[i]) => ~layer[i].absent
  BY <1>5, <1>7 DEF Written
<1> DEFINE ts == LayerMeanings(t, k, tl)
<1>10. /\ LayerMeaning(t, k, tl) = Together(ts, n)
       /\ \A i \in 1..n : ts[i] \in Meaning /\ ts[i] = PartMeaning(t, k, layer[i], tl)
  BY <1>1, LayerType DEF LayerMeaning
<1> HIDE DEF ms, n, layer, below, ts
<1>11. ASSUME NEW i \in 1..n, IsGood(ms[i]) PROVE ts[i] = ms[i]
  <2>1. CASE ~RefersTo(layer[i], k)
    <3>1. ms[i] = OtherMeaning(d, layer[i], lv) /\ IsGood(ms[i])
      BY <1>8, <1>11, <2>1 DEF PartOver
    <3>2. layer[i] \in Part /\ (IsReference(layer[i]) => ~layer[i].absent)
      BY <1>7, <1>9
    <3>3. PlainMeaning(t, layer[i], tl) = ms[i]
      <4>1. Final(d, t, lv, tl)
        BY DEF t
      <4> QED
        BY <3>1, <3>2, <4>1, OtherIsPlain
    <3> QED
      BY <1>10, <2>1, <3>3 DEF PartMeaning
  <2>2. CASE RefersTo(layer[i], k) /\ below = NoLayer
    <3>1. ms[i] = NoProvider(layer[i]) /\ k \notin DOMAIN t.priors
      BY <1>6, <1>8, <2>2 DEF PartOver
    <3> QED
      BY <1>10, <2>2, <3>1 DEF PartMeaning
  <2>3. CASE RefersTo(layer[i], k) /\ below # NoLayer
    <3>1. ms[i] = Demanded(layer[i], below)
      BY <1>8, <2>3 DEF PartOver
    <3>2. IsGood(below)
      BY <1>2, <1>11, <2>3, <3>1, DemandedParts DEF Laid
    <3>3. k \in DOMAIN t.priors /\ PriorMeaning(t, k, tl) = below
      BY <1>6, <3>2
    <3> QED
      BY <1>10, <2>3, <3>1, <3>3 DEF PartMeaning
  <2> QED
    BY <2>1, <2>2, <2>3
<1>12. IsGood(s.top) => LayerMeaning(t, k, tl) = s.top
  <2> SUFFICES ASSUME IsGood(s.top) PROVE Together(ts, n) = Together(ms, n)
    BY <1>8, <1>10
  <2>1. \A i \in 1..n : ms[i] \in Meaning /\ ts[i] \in Meaning
    BY <1>8, <1>10
  <2>2. \A i \in 1..n : IsGood(ms[i]) => ts[i] = ms[i]
    BY <1>11
  <2>3. IsGood(Together(ms, n))
    BY <1>8
  <2> QED
    BY <1>7, <2>1, <2>2, <2>3, TogetherSame
<1>13. ASSUME IsGood(s.top), ~LeavesToBelow(s)
       PROVE  KeyMeaning(t, k, tl) = s.top /\ FieldMeaning(t, k, tl) = s.top
  <2>1. s.top.value.found \/ below = NoLayer
    BY <1>13 DEF LeavesToBelow, below
  <2>2. ~ComesToNothing(t, k, s.top)
    BY <1>6, <2>1 DEF ComesToNothing
  <2> QED
    BY <1>12, <1>13, <2>2 DEF KeyMeaning, FieldMeaning
<1>14. ASSUME LeavesToBelow(s), IsGood(below)
       PROVE  FieldMeaning(t, k, tl) = below
  <2>1. IsGood(s.top) /\ ~s.top.value.found
    BY <1>14 DEF LeavesToBelow
  <2>2. k \in DOMAIN t.priors /\ PriorMeaning(t, k, tl) = below
    BY <1>6, <1>14
  <2> QED
    BY <1>12, <2>1, <2>2 DEF FieldMeaning, ComesToNothing
<1>15. IsGood(Seen(s)) => KeyMeaning(t, k, tl) = Seen(s)
  BY <1>13, SeenGood
<1>16. IsGood(Left(s)) => FieldMeaning(t, k, tl) = Left(s)
  BY <1>13, <1>14 DEF Left, below
<1> QED
  BY <1>15, <1>16 DEF t
-----------------------------------------------------------------------------
LEMMA LevelsAgree ==
    ASSUME NEW d \in Seq(Assignment)
    PROVE  \A n \in Nat : Final(d, Built(d), DocumentLevels(d)[n], Levels(Built(d))[n])
<1> DEFINE t == Built(d)
           lv == DocumentLevels(d)
           tl == Levels(t)
           G == {n \in Nat : Final(d, t, lv[n], tl[n])}
<1>1. IsTree(t) /\ DOMAIN t.fields = KeysOf(d)
  BY BuildsTrees
<1> HIDE DEF t
<1>2. \A n \in Nat : lv[n] \in LevelIn(d) /\ tl[n] \in LevelOf(t)
  BY <1>1, DocumentSteps, LevelsSteps
<1>3. 0 \in G
  <2>1. \A k \in KeysOf(d) : ~IsGood(lv[0][k])
    BY DocumentSteps, MeaningTypes
  <2> QED
    BY <1>1, <1>2, <2>1 DEF Final
<1>4. ASSUME NEW n \in Nat, n \in G PROVE n + 1 \in G
  <2>1. Final(d, t, lv[n], tl[n])
    BY <1>4
  <2>2. ASSUME NEW k \in KeysOf(d), IsGood(lv[n + 1][k]) PROVE tl[n + 1][k] = lv[n + 1][k]
    <3>1. lv[n + 1][k] = Seen(Stack(d, k, lv[n]))
      BY DocumentSteps
    <3>2. tl[n + 1][k] = KeyMeaning(t, k, tl[n])
      BY <1>1, LevelsSteps DEF Level
    <3> HIDE DEF lv, tl
    <3> DEFINE s == Stack(d, k, lv[n])
    <3>3. IsGood(Seen(s)) => KeyMeaning(t, k, tl[n]) = Seen(s)
      <4>1. Final(d, Built(d), lv[n], tl[n])
        BY <2>1 DEF t
      <4> HIDE DEF s
      <4>2. s = Stack(d, k, lv[n])
        BY DEF s
      <4> QED
        BY <4>1, <4>2, WholeMeaning DEF t
    <3> QED
      BY <2>2, <3>1, <3>2, <3>3
  <2>3. n + 1 \in Nat
    OBVIOUS
  <2>4. Final(d, t, lv[n + 1], tl[n + 1])
    BY <1>1, <1>2, <2>2, <2>3 DEF Final
  <2> QED
    BY <2>3, <2>4
<1> HIDE DEF G
<1>5. \A n \in Nat : n \in G
  BY <1>3, <1>4, SetInduction
<1> QED
  BY <1>5 DEF G, t

(* Phase 1 keeps meanings: where the layers of a key, lying one upon the   *)
(* other, have a meaning, the tree that was built from them, with its      *)
(* fields, its folded priors and its references marked absent, means the   *)
(* same, for every document and every number of levels                     *)
(* (structure_builder.py:108, fold_self_ref.py:163, 282).                  *)
THEOREM BuildingKeepsMeanings ==
    \A d \in Seq(Assignment), n \in Nat : \A k \in KeysOf(d) :
        IsGood(DocumentMeans(d, k, n)) =>
            FieldMeaning(Built(d), k, Levels(Built(d))[n]) = DocumentMeans(d, k, n)
<1> SUFFICES ASSUME NEW d \in Seq(Assignment), NEW n \in Nat, NEW k \in KeysOf(d),
                    IsGood(DocumentMeans(d, k, n))
             PROVE  FieldMeaning(Built(d), k, Levels(Built(d))[n]) = DocumentMeans(d, k, n)
  OBVIOUS
<1> DEFINE lv == DocumentLevels(d)[n]
           tl == Levels(Built(d))[n]
           s == Stack(d, k, lv)
<1>1. Final(d, Built(d), lv, tl)
  BY LevelsAgree
<1>2. DocumentMeans(d, k, n) = Left(s) /\ s = Stack(d, k, lv)
  BY DEF DocumentMeans
<1> HIDE DEF lv, s
<1>3. IsGood(Left(s)) => FieldMeaning(Built(d), k, tl) = Left(s)
  <2> HIDE DEF tl
  <2> QED
    BY <1>1, <1>2, WholeMeaning
<1> QED
  BY <1>2, <1>3
-----------------------------------------------------------------------------
(* A tree is resolved when all of its fields are.                          *)
EndsLast == outcome = "resolved" => next > Len(tree.order)

LEMMA EndsLastHolds == Spec => []EndsLast
<1>1. Init => EndsLast
  BY DEF Init, EndsLast
<1>2. EndsLast /\ [Next]_vars => EndsLast'
  <2> SUFFICES ASSUME EndsLast, [Next]_vars, outcome' = "resolved"
               PROVE  (next > Len(tree.order))'
    BY DEF EndsLast
  <2>1. ASSUME NEW why, why # "resolved", Raise(why) PROVE FALSE
    BY <2>1 DEF Raise
  <2>2. ASSUME NEW why, why # "resolved", Unprovided(why), Waiting PROVE FALSE
    BY <2>2 DEF Unprovided, Raise, Waiting
  <2>3. ASSUME NEW what, NEW layer, NEW guards, NEW joining,
               Call(what, layer, guards, joining), Waiting
        PROVE  FALSE
    BY <2>3 DEF Call, Raise, Waiting
  <2>4. CASE EnterField
    BY <2>4 DEF EnterField
  <2>5. CASE Finish
    BY <2>5 DEF Finish
  <2>6. CASE TakeText
    BY <2>6 DEF TakeText, AtPart, Waiting
  <2>7. CASE KnownAbsent
    BY <2>2, <2>7 DEF KnownAbsent, AtReference, AtPart
  <2>8. CASE Cached
    BY <2>8 DEF Cached, AtReference, AtPart, Waiting
  <2>9. CASE Cycle
    BY <2>2, <2>3, <2>9 DEF Cycle, Uncached, AtReference, AtPart
  <2>10. CASE LookBack
    BY <2>2, <2>3, <2>10 DEF LookBack, Unguarded, Uncached, AtReference, AtPart
  <2>11. CASE Follow
    BY <2>3, <2>11 DEF Follow, Unguarded, Uncached, AtReference, AtPart
  <2>12. CASE FromEnvironment
    <3>1. Waiting
      BY <2>12 DEF FromEnvironment, Unguarded, Uncached, AtReference, AtPart
    <3>2. CASE Ref.key \in DOMAIN Environment
      BY <2>12, <3>1, <3>2 DEF FromEnvironment, Waiting
    <3>3. CASE Ref.key \notin DOMAIN Environment
      <4>1. Unprovided("could not resolve")
        BY <2>12, <3>3 DEF FromEnvironment
      <4> QED
        BY <2>2, <3>1, <4>1
    <3> QED
      BY <3>2, <3>3
  <2>13. CASE Return
    BY <2>13 DEF Return, AtEnd, Waiting
  <2>14. CASE ReturnFromCycle
    BY <2>14 DEF ReturnFromCycle, AtEnd, Waiting
  <2>15. CASE FallBack
    BY <2>15 DEF FallBack, AtEnd, Waiting
  <2>16. CASE StoreField
    BY <2>16 DEF StoreField, Stored, AtEnd, Waiting
  <2>17. CASE StoreFallback
    BY <2>17 DEF StoreFallback, Stored, AtEnd, Waiting
  <2>18. CASE UNCHANGED vars
    BY <2>18 DEF vars, EndsLast
  <2> QED
    BY <2>4, <2>5, <2>6, <2>7, <2>8, <2>9, <2>10, <2>11, <2>12, <2>13, <2>14, <2>15, <2>16,
       <2>17, <2>18 DEF Next
<1> QED
  BY <1>1, <1>2, PTL DEF Spec

(* Phase 1 and phase 2 together, for every document: what was saved,       *)
(* folded, cached and looked back at on the way, each key that has a       *)
(* meaning gets it when its document is resolved, and a document whose     *)
(* keys all have one is not rejected (structure_builder.py:108,            *)
(* fold_self_ref.py:282, substitution_resolver.py:62, 221).  A key that    *)
(* needs a value where there is none (S13.10) has no meaning, so that its  *)
(* document may be rejected.                                               *)
THEOREM DocumentsMeant == IsFiniteSet(Keys) => (Spec => []DocumentsGetTheirMeaning)
<1> SUFFICES ASSUME IsFiniteSet(Keys) PROVE Spec => []DocumentsGetTheirMeaning
  OBVIOUS
<1>1. Depth \in Nat
  BY FS_CardinalityType DEF Depth
<1>2. MInv /\ KeysGetTheirMeaning /\ ErrorsHaveACause /\ EndsLast => DocumentsGetTheirMeaning
  <2> SUFFICES ASSUME MInv, KeysGetTheirMeaning, ErrorsHaveACause, EndsLast,
                      outcome # "running", NEW d \in Documents, tree = Built(d)
               PROVE  IF outcome = "resolved"
                      THEN \A k \in KeysOf(d) :
                               IsGood(DocumentMeans(d, k, Depth)) =>
                                   result[k] = DocumentMeans(d, k, Depth).value
                      ELSE \/ \E k \in KeysOf(d) : ~IsGood(DocumentMeans(d, k, Depth))
                           \/ outcome = "recursion" /\ MaxRecursion <= 2 * Depth + 1
    BY DEF DocumentsGetTheirMeaning, Writings
  <2>1. d \in Seq(Assignment)
    BY DocumentsAssumption
  <2>2. /\ IsTree(tree) /\ Fields = KeysOf(d)
        /\ \A k \in KeysOf(d) : \E i \in 1..Len(tree.order) : tree.order[i] = k
    BY <2>1, BuildsTrees DEF Complete, Fields
  <2>3. \A k \in KeysOf(d) : IsGood(DocumentMeans(d, k, Depth)) =>
            Meant(k, Depth) = DocumentMeans(d, k, Depth)
    BY <1>1, <2>1, BuildingKeepsMeanings DEF Meant
  <2>4. CASE outcome = "resolved"
    <3> SUFFICES ASSUME NEW k \in KeysOf(d), IsGood(DocumentMeans(d, k, Depth))
                 PROVE  result[k] = DocumentMeans(d, k, Depth).value
      BY <2>4
    <3>1. PICK i \in 1..Len(tree.order) : tree.order[i] = k
      BY <2>2
    <3>2. Len(tree.order) \in Nat /\ DOMAIN tree.order = 1..Len(tree.order) /\ next > Len(tree.order)
      <4>1. tree.order \in Seq(DOMAIN tree.fields)
        BY <2>2 DEF IsTree
      <4> QED
        BY <2>4, <4>1 DEF EndsLast
    <3>3. i \in DOMAIN tree.order /\ i < next
      <4>1. next \in Nat
        BY DEF MInv, IInv, TypeOK
      <4> QED
        BY <3>1, <3>2, <4>1
    <3> QED
      BY <2>3, <3>1, <3>2, <3>3 DEF KeysGetTheirMeaning
  <2>5. CASE outcome # "resolved"
    BY <2>2, <2>3, <2>5 DEF ErrorsHaveACause
  <2> QED
    BY <2>4, <2>5
<1> QED
  BY <1>2, MeaningsHold, KeysMeant, ErrorsCaused, EndsLastHolds, PTL
=============================================================================
