----------------------- MODULE ReferenceMeaning_proofs -----------------------
(***************************************************************************)
(* Proofs that evaluating a tree with a cache, a guard and priors gives    *)
(* every key its meaning, for every tree.                                  *)
(***************************************************************************)
EXTENDS ReferenceEvaluation_proofs, RecursionLemmas

(* In the operators below, t is the tree, fs the frames and c the cache.   *)

(* What key k means to a reference, with n levels below it.                *)
Level(t, k, n) == Levels(t)[n][k]
Endlessly(t, k) == \A n \in Nat : Level(t, k, n).why = "endless"

(* A value fits a meaning.  It fits every meaning that is endless, which   *)
(* is how a circle cannot spoil what is outside of it.                     *)
Fits(v, m) == m.why # "missing" /\ (IsGood(m) => v = m.value)
FitsKey(t, v, k) == \A n \in Nat : Fits(v, Level(t, k, n))
FitsPrior(t, v, k) == \A n \in Nat : Fits(v, PriorMeaning(t, k, Levels(t)[n]))

(* What the parts of a frame mean, and that its value is what the parts    *)
(* before the one at hand mean.                                            *)
PartsMean(t, f, n) ==
    IF IsField(f) THEN LayerMeanings(t, f.key, Levels(t)[n]) ELSE PriorMeanings(t, f.key, Levels(t)[n])
FrameFits(t, f) == \A n \in Nat : Fits(f.value, Together(PartsMean(t, f, n), f.at - 1))

LooksAtSelf(t, k) == ContainsSubst(t.fields[k], k)

(* A lookback or a cycle that its own field did not call is in a circle.   *)
CalledBySelf(t, fs) ==
    \A i \in 1..Len(fs) - 1 : fs[i + 1].what \in {"lookback", "cycle"} =>
        fs[i].key = fs[i + 1].key \/ Endlessly(t, fs[i + 1].key)

(* The field in turn is followed only if it does not look at itself.       *)
FollowsOthers(t, fs) ==
    \A i \in DOMAIN fs : fs[i].what = "found" /\ fs[i].key = fs[1].key => ~LooksAtSelf(t, fs[i].key)

(* What is guarded is not cached.                                          *)
Fresh(fs, c) == \A i \in DOMAIN fs : IsGuarded(fs[i]) => ~c[fs[i].key].found

(* The field that falls back came to nothing.                              *)
CameToNothing(t, fs) ==
    fs # <<>> /\ fs[1].what = "fallback" =>
        \A n \in Nat : LET m == LayerMeaning(t, fs[1].key, Levels(t)[n])
                       IN  m.why # "missing" /\ (IsGood(m) => ~m.value.found)

(* The field in turn looks at itself: a reference to it may have been      *)
(* given its prior.                                                        *)
LookingBack(t, fs, k) == fs # <<>> /\ fs[1].what = "field" /\ fs[1].key = k /\ LooksAtSelf(t, k)
CacheFits(t, fs, c) ==
    \A k \in Keys : c[k].found =>
        IF k \notin DOMAIN t.fields
        THEN k \in DOMAIN Environment /\ c[k] = Some(Environment[k])
        ELSE IF LookingBack(t, fs, k)
        THEN /\ k \in DOMAIN t.priors /\ FitsPrior(t, c[k], k)
             /\ fs[1].value.found \/ Endlessly(t, k)
        ELSE FitsKey(t, c[k], k)

(* The results so far are what their fields mean.                          *)
ResultsFit(t, r, upTo) ==
    \A i \in 1..Len(t.order) : i < upTo =>
        \A n \in Nat : Fits(r[t.order[i]], FieldMeaning(t, t.order[i], Levels(t)[n]))

(* A key without a meaning, or so many frames that the tree has no room    *)
(* for them without a circle.                                              *)
Meaningless(t, k) == \A n \in Nat : ~IsGood(FieldMeaning(t, k, Levels(t)[n]))
Explained(t, why) ==
    \/ \E k \in DOMAIN t.fields : Meaningless(t, k)
    \/ why = "recursion" /\ (IsFiniteSet(Keys) => MaxRecursion <= 2 * Cardinality(Keys) + 1)

Meanings(t, fs, c, r, upTo, why) ==
    /\ \A i \in DOMAIN fs : FrameFits(t, fs[i])
    /\ CalledBySelf(t, fs)
    /\ FollowsOthers(t, fs)
    /\ Fresh(fs, c)
    /\ CameToNothing(t, fs)
    /\ CacheFits(t, fs, c)
    /\ ResultsFit(t, r, upTo)
    /\ why \notin {"running", "resolved"} => Explained(t, why)

MInv == IInv /\ Meanings(tree, frames, cache, result, next, outcome)
-----------------------------------------------------------------------------
LEMMA MeaningTypes ==
    /\ \A v \in Value : Good(v) \in Meaning /\ IsGood(Good(v)) /\ Good(v).value = v
    /\ Nothing \in Value
    /\ Endless \in Meaning /\ Missing \in Meaning /\ Empty \in Meaning /\ Unclear \in Meaning
    /\ Endless.why = "endless" /\ Missing.why = "missing"
    /\ Empty.why = "empty" /\ Unclear.why = "unclear"
    /\ ~IsGood(Endless) /\ ~IsGood(Missing) /\ ~IsGood(Empty) /\ ~IsGood(Unclear)
<1>1. Nothing \in Value /\ ~Nothing.found
  BY DEF Nothing, Value, Text
<1>2. \A why \in Whys : Wrong(why) \in Meaning /\ Wrong(why).why = why
  BY <1>1 DEF Wrong, Meaning
<1>3. \A v \in Value : Good(v) \in Meaning /\ IsGood(Good(v)) /\ Good(v).value = v
  BY DEF Good, Meaning, Whys, IsGood
<1>4. {"endless", "missing", "empty", "unclear"} \in SUBSET Whys
  BY DEF Whys
<1> QED
  BY <1>1, <1>2, <1>3, <1>4 DEF Endless, Missing, Empty, Unclear, IsGood

LEMMA MeaningParts ==
    ASSUME NEW m \in Meaning
    PROVE  m.why \in Whys /\ m.value \in Value
BY DEF Meaning

LEMMA BothType ==
    ASSUME NEW r \in Meaning, NEW s \in Meaning
    PROVE  /\ Both(r, s) \in Meaning
           /\ IsGood(Both(r, s)) => (IsGood(r) /\ IsGood(s))
           /\ (IsGood(r) /\ IsGood(s)) => Both(r, s) = Good(Joined(r.value, s.value))
           /\ Both(r, s).why # "endless" => (r.why # "endless" /\ s.why # "endless")
           /\ Both(r, s).why = "missing" => (r.why = "missing" \/ s.why = "missing")
<1>1. CASE IsGood(r) /\ IsGood(s)
  <2>1. Joined(r.value, s.value) \in Value
    BY MeaningParts, JoinedType
  <2>2. Both(r, s) = Good(Joined(r.value, s.value))
    BY <1>1 DEF Both
  <2>3. r.why = "value" /\ s.why = "value"
    BY <1>1 DEF IsGood
  <2> QED
    BY <1>1, <2>1, <2>2, <2>3, MeaningTypes DEF IsGood
<1>2. CASE ~(IsGood(r) /\ IsGood(s))
  <2>1. CASE "endless" \in {r.why, s.why}
    BY <1>2, <2>1, MeaningTypes DEF Both
  <2>2. CASE "endless" \notin {r.why, s.why} /\ "missing" \in {r.why, s.why}
    BY <1>2, <2>2, MeaningTypes DEF Both
  <2>3. CASE /\ "endless" \notin {r.why, s.why} /\ "missing" \notin {r.why, s.why}
             /\ "empty" \in {r.why, s.why}
    BY <1>2, <2>3, MeaningTypes DEF Both
  <2>4. CASE {"endless", "missing", "empty"} \cap {r.why, s.why} = {}
    BY <1>2, <2>4, MeaningTypes DEF Both
  <2> QED
    BY <2>1, <2>2, <2>3, <2>4
<1> QED
  BY <1>1, <1>2

LEMMA BothFits ==
    ASSUME NEW v \in Value, NEW w \in Value, NEW r \in Meaning, NEW s \in Meaning,
           Fits(v, r), Fits(w, s)
    PROVE  Fits(Joined(v, w), Both(r, s))
<1>1. CASE IsGood(r) /\ IsGood(s)
  <2>1. v = r.value /\ w = s.value
    BY <1>1 DEF Fits
  <2>2. Joined(v, w) \in Value
    BY JoinedType
  <2>3. Both(r, s) = Good(Joined(v, w))
    BY <1>1, <2>1, BothType
  <2> QED
    BY <2>2, <2>3, MeaningTypes DEF Fits, IsGood
<1>2. CASE ~(IsGood(r) /\ IsGood(s))
  BY <1>2, BothType DEF Fits
<1> QED
  BY <1>1, <1>2

(* A required reference to what came to nothing is a fault of its own, and *)
(* otherwise a reference means what it leads to.                           *)
LEMMA DemandedParts ==
    ASSUME NEW m \in Meaning, NEW part
    PROVE  /\ Demanded(part, m) \in Meaning
           /\ Demanded(part, m).why = "endless" <=> m.why = "endless"
           /\ IsGood(Demanded(part, m)) => Demanded(part, m) = m
           /\ part.optional \/ m # Good(Nothing) => Demanded(part, m) = m
BY MeaningTypes DEF Demanded, IsGood

LEMMA DemandedFits ==
    ASSUME NEW m \in Meaning, NEW part, NEW v, Fits(v, m)
    PROVE  Fits(v, Demanded(part, m))
BY MeaningTypes DEF Demanded, Fits

(* Meanings together: a fold, whose recursive function is the one that     *)
(* lemma PrimitiveRecursion gives.                                         *)
LEMMA TogetherFunction ==
    ASSUME NEW N \in Nat, NEW ms, \A i \in 1..N : ms[i] \in Meaning
    PROVE  \E F \in [Nat -> Meaning] :
               /\ F[0] = Good(Nothing)
               /\ \A i \in 1..N : F[i] = Both(F[i - 1], ms[i])
               /\ \A n \in 0..N : Together(ms, n) = F[n]
<1> DEFINE at(i) == IF i \in 1..N THEN ms[i] ELSE Good(Nothing)
           h == [i \in Nat |-> [x \in Meaning |-> Both(x, at(i + 1))]]
<1>1. Good(Nothing) \in Meaning
  BY MeaningTypes
<1>2. h \in [Nat -> [Meaning -> Meaning]]
  <2>1. ASSUME NEW i \in Nat, NEW x \in Meaning PROVE Both(x, at(i + 1)) \in Meaning
    <3>1. at(i + 1) \in Meaning
      BY <1>1
    <3> HIDE DEF at
    <3> QED
      BY <3>1, BothType
  <2> HIDE DEF at
  <2> QED
    BY <2>1
<1>3. PICK F \in [Nat -> Meaning] : F[0] = Good(Nothing) /\ \A i \in Nat : F[i + 1] = h[i][F[i]]
  <2> HIDE DEF h
  <2>1. \A b \in Meaning : \A k \in [Nat -> [Meaning -> Meaning]] :
            \E F \in [Nat -> Meaning] : F[0] = b /\ \A i \in Nat : F[i + 1] = k[i][F[i]]
    BY PrimitiveRecursion, SMTT(40)
  <2> QED
    BY <1>1, <1>2, <2>1
<1>4. ASSUME NEW i \in 1..N PROVE F[i] = Both(F[i - 1], ms[i])
  <2>1. i - 1 \in Nat /\ (i - 1) + 1 = i /\ F[i - 1] \in Meaning
    BY <1>3
  <2>2. F[i] = h[i - 1][F[i - 1]]
    BY <1>3, <2>1
  <2> QED
    BY <2>1, <2>2
<1> HIDE DEF h
<1>5. ASSUME NEW n \in 0..N PROVE Together(ms, n) = F[n]
  <2> DEFINE Solves(g) ==
                 g = [i \in 0..n |-> IF i = 0 THEN Good(Nothing) ELSE Both(g[i - 1], ms[i])]
             upTo == CHOOSE g : Solves(g)
             E == [i \in 0..n |-> F[i]]
  <2>1. Solves(E)
    <3>1. ASSUME NEW i \in 0..n, i # 0 PROVE F[i] = Both(E[i - 1], ms[i])
      BY <1>4, <3>1
    <3> QED
      BY <1>3, <3>1
  <2>2. Solves(upTo)
    <3> HIDE DEF Solves, E
    <3> QED
      BY <2>1
  <2>3. Together(ms, n) = upTo[n]
    BY DEF Together
  <2> DEFINE G == {i \in Nat : i <= n => upTo[i] = F[i]}
  <2> HIDE DEF upTo
  <2>4. 0 \in G
    BY <1>3, <2>2
  <2>5. ASSUME NEW i \in Nat, i \in G PROVE i + 1 \in G
    <3> SUFFICES ASSUME i + 1 <= n PROVE upTo[i + 1] = F[i + 1]
      OBVIOUS
    <3>1. upTo[i + 1] = Both(upTo[i], ms[i + 1])
      BY <2>2
    <3>2. F[i + 1] = Both(F[i], ms[i + 1])
      BY <1>4
    <3> QED
      BY <2>5, <3>1, <3>2
  <2> HIDE DEF G
  <2>6. n \in G
    BY <2>4, <2>5, SetInduction
  <2> QED
    BY <2>3, <2>6 DEF G
<1> QED
  BY <1>3, <1>4, <1>5

LEMMA TogetherSteps ==
    ASSUME NEW N \in Nat, NEW ms, \A i \in 1..N : ms[i] \in Meaning
    PROVE  /\ Together(ms, 0) = Good(Nothing)
           /\ \A n \in 0..N : Together(ms, n) \in Meaning
           /\ \A n \in 1..N : Together(ms, n) = Both(Together(ms, n - 1), ms[n])
<1>1. PICK F \in [Nat -> Meaning] :
          /\ F[0] = Good(Nothing)
          /\ \A i \in 1..N : F[i] = Both(F[i - 1], ms[i])
          /\ \A n \in 0..N : Together(ms, n) = F[n]
  BY TogetherFunction, ZenonT(40)
<1>2. \A n \in 1..N : n \in 0..N /\ n - 1 \in 0..N
  OBVIOUS
<1>3. 0 \in 0..N
  OBVIOUS
<1> QED
  BY <1>1, <1>2, <1>3

(* Meanings together have an end, and are good, only if all of them have   *)
(* one, and are.                                                           *)
LEMMA TogetherAll ==
    ASSUME NEW N \in Nat, NEW ms, \A i \in 1..N : ms[i] \in Meaning
    PROVE  \A i \in 1..N :
               /\ Together(ms, N).why # "endless" => ms[i].why # "endless"
               /\ IsGood(Together(ms, N)) => IsGood(ms[i])
<1> DEFINE Q(n) == \A i \in 1..n :
                       /\ Together(ms, n).why # "endless" => ms[i].why # "endless"
                       /\ IsGood(Together(ms, n)) => IsGood(ms[i])
           G == {n \in Nat : n <= N => Q(n)}
<1>1. 0 \in G
  OBVIOUS
<1>2. ASSUME NEW n \in Nat, n \in G PROVE n + 1 \in G
  <2> SUFFICES ASSUME n + 1 <= N PROVE Q(n + 1)
    OBVIOUS
  <2>1. n + 1 \in 1..N /\ (n + 1) - 1 = n /\ n \in 0..N
    OBVIOUS
  <2>2. Q(n)
    BY <1>2
  <2>3. Together(ms, n) \in Meaning /\ ms[n + 1] \in Meaning
    BY <2>1, TogetherSteps
  <2>4. Together(ms, n + 1) = Both(Together(ms, n), ms[n + 1])
    BY <2>1, TogetherSteps
  <2>5. /\ Together(ms, n + 1).why # "endless" =>
               Together(ms, n).why # "endless" /\ ms[n + 1].why # "endless"
        /\ IsGood(Together(ms, n + 1)) => IsGood(Together(ms, n)) /\ IsGood(ms[n + 1])
    <3> DEFINE r == Together(ms, n)
               s == ms[n + 1]
    <3>1. r \in Meaning /\ s \in Meaning /\ Together(ms, n + 1) = Both(r, s)
      BY <2>3, <2>4
    <3> HIDE DEF r, s
    <3>2. /\ Both(r, s).why # "endless" => r.why # "endless" /\ s.why # "endless"
          /\ IsGood(Both(r, s)) => IsGood(r) /\ IsGood(s)
      BY <3>1, BothType
    <3> QED
      BY <3>1, <3>2 DEF r, s
  <2>6. \A i \in 1..n + 1 : i \in 1..n \/ i = n + 1
    OBVIOUS
  <2> QED
    BY <2>2, <2>5, <2>6
<1> HIDE DEF G
<1>3. N \in G
  BY <1>1, <1>2, SetInduction
<1> QED
  BY <1>3 DEF G
-----------------------------------------------------------------------------
(* The operators of ReferenceMeaning give meanings.                        *)
LevelOf(t) == [DOMAIN t.fields -> Meaning]

LEMMA NoProviderType ==
    ASSUME NEW part \in Part, IsReference(part)
    PROVE  /\ NoProvider(part) \in Meaning
           /\ part.optional => NoProvider(part) = Good(Nothing)
           /\ ~part.optional => NoProvider(part) = Missing
BY MeaningTypes, PartKinds DEF NoProvider

LEMMA PlainType ==
    ASSUME NEW t, IsTree(t), NEW part \in Part, NEW level \in LevelOf(t)
    PROVE  PlainMeaning(t, part, level) \in Meaning
<1>1. CASE ~IsReference(part)
  <2>1. Some(part.text) \in Value
    BY <1>1, PartKinds DEF Some, Value
  <2> QED
    BY <1>1, <2>1, MeaningTypes DEF PlainMeaning
<1>2. CASE IsReference(part) /\ ~part.absent /\ part.key \in DOMAIN t.fields
  BY <1>2, DemandedParts DEF PlainMeaning, LevelOf
<1>3. CASE /\ IsReference(part) /\ ~part.absent
           /\ part.key \notin DOMAIN t.fields /\ part.key \in DOMAIN Environment
  <2>1. Some(Environment[part.key]) \in Value
    BY <1>3, EnvironmentAssumption DEF Some, Value
  <2> QED
    BY <1>3, <2>1, MeaningTypes DEF PlainMeaning
<1>4. CASE /\ IsReference(part)
           /\ part.absent \/ (part.key \notin DOMAIN t.fields /\ part.key \notin DOMAIN Environment)
  BY <1>4, NoProviderType DEF PlainMeaning
<1> QED
  BY <1>1, <1>2, <1>3, <1>4

LEMMA PriorType ==
    ASSUME NEW t, IsTree(t), NEW k \in DOMAIN t.priors, NEW level \in LevelOf(t)
    PROVE  /\ Len(t.priors[k]) \in Nat /\ t.priors[k] \in Seq(Part)
           /\ \A i \in 1..Len(t.priors[k]) :
                  /\ PriorMeanings(t, k, level)[i] \in Meaning
                  /\ PriorMeanings(t, k, level)[i] = PlainMeaning(t, t.priors[k][i], level)
           /\ PriorMeaning(t, k, level) \in Meaning
           /\ \A i \in 1..Len(t.priors[k]) :
                  /\ PriorMeaning(t, k, level).why # "endless" =>
                         PriorMeanings(t, k, level)[i].why # "endless"
                  /\ IsGood(PriorMeaning(t, k, level)) => IsGood(PriorMeanings(t, k, level)[i])
<1> DEFINE s == t.priors[k]
           ms == PriorMeanings(t, k, level)
           N == Len(s)
<1>1. s \in Seq(Part) /\ N \in Nat
  <2>1. s \in Layer
    BY TreeParts
  <2> QED
    BY <2>1 DEF Layer
<1>2. \A i \in 1..N : ms[i] \in Meaning /\ ms[i] = PlainMeaning(t, s[i], level)
  <2> TAKE i \in 1..N
  <2>1. s[i] \in Part /\ i \in DOMAIN s
    BY <1>1
  <2> QED
    BY <2>1, PlainType DEF PriorMeanings
<1>3. PriorMeaning(t, k, level) = Together(ms, N)
  BY DEF PriorMeaning
<1> HIDE DEF s, ms, N
<1>4. Together(ms, N) \in Meaning
  <2>1. N \in 0..N
    BY <1>1
  <2> QED
    BY <1>1, <1>2, <2>1, TogetherSteps
<1>5. \A i \in 1..N : /\ Together(ms, N).why # "endless" => ms[i].why # "endless"
                      /\ IsGood(Together(ms, N)) => IsGood(ms[i])
  BY <1>1, <1>2, TogetherAll
<1> QED
  BY <1>1, <1>2, <1>3, <1>4, <1>5 DEF s, ms, N

LEMMA PartType ==
    ASSUME NEW t, IsTree(t), NEW k \in DOMAIN t.fields, NEW part \in Part, NEW level \in LevelOf(t)
    PROVE  PartMeaning(t, k, part, level) \in Meaning
<1>1. RefersTo(part, k) => IsReference(part)
  BY DEF RefersTo
<1> QED
  BY <1>1, PlainType, PriorType, NoProviderType, DemandedParts DEF PartMeaning

LEMMA LayerType ==
    ASSUME NEW t, IsTree(t), NEW k \in DOMAIN t.fields, NEW level \in LevelOf(t)
    PROVE  /\ Len(t.fields[k]) \in Nat /\ t.fields[k] \in Seq(Part)
           /\ \A i \in 1..Len(t.fields[k]) :
                  /\ LayerMeanings(t, k, level)[i] \in Meaning
                  /\ LayerMeanings(t, k, level)[i] = PartMeaning(t, k, t.fields[k][i], level)
           /\ LayerMeaning(t, k, level) \in Meaning
           /\ \A i \in 1..Len(t.fields[k]) :
                  /\ LayerMeaning(t, k, level).why # "endless" =>
                         LayerMeanings(t, k, level)[i].why # "endless"
                  /\ IsGood(LayerMeaning(t, k, level)) => IsGood(LayerMeanings(t, k, level)[i])
<1> DEFINE s == t.fields[k]
           ms == LayerMeanings(t, k, level)
           N == Len(s)
<1>1. s \in Seq(Part) /\ N \in Nat
  <2>1. s \in Layer
    BY TreeParts
  <2> QED
    BY <2>1 DEF Layer
<1>2. \A i \in 1..N : ms[i] \in Meaning /\ ms[i] = PartMeaning(t, k, s[i], level)
  <2> TAKE i \in 1..N
  <2>1. s[i] \in Part /\ i \in DOMAIN s
    BY <1>1
  <2> QED
    BY <2>1, PartType DEF LayerMeanings
<1>3. LayerMeaning(t, k, level) = Together(ms, N)
  BY DEF LayerMeaning
<1> HIDE DEF s, ms, N
<1>4. Together(ms, N) \in Meaning
  <2>1. N \in 0..N
    BY <1>1
  <2> QED
    BY <1>1, <1>2, <2>1, TogetherSteps
<1>5. \A i \in 1..N : /\ Together(ms, N).why # "endless" => ms[i].why # "endless"
                      /\ IsGood(Together(ms, N)) => IsGood(ms[i])
  BY <1>1, <1>2, TogetherAll
<1> QED
  BY <1>1, <1>2, <1>3, <1>4, <1>5 DEF s, ms, N

LEMMA KeyType ==
    ASSUME NEW t, IsTree(t), NEW k \in DOMAIN t.fields, NEW level \in LevelOf(t)
    PROVE  KeyMeaning(t, k, level) \in Meaning /\ FieldMeaning(t, k, level) \in Meaning
BY LayerType, PriorType, MeaningTypes DEF KeyMeaning, FieldMeaning, ComesToNothing

(* No key has an end without levels, and with one level more it means what *)
(* the levels below give.                                                  *)
LEMMA LevelsSteps ==
    ASSUME NEW t, IsTree(t)
    PROVE  /\ \A n \in Nat : Levels(t)[n] \in LevelOf(t)
           /\ \A k \in DOMAIN t.fields : Level(t, k, 0) = Endless
           /\ \A n \in Nat, k \in DOMAIN t.fields :
                  Level(t, k, n + 1) = KeyMeaning(t, k, Levels(t)[n])
<1> DEFINE D == DOMAIN t.fields
           b == [k \in D |-> Endless]
           h == [n \in Nat |-> [level \in LevelOf(t) |-> [k \in D |-> KeyMeaning(t, k, level)]]]
           Solves(g) == g = [n \in Nat |-> [k \in D |-> IF n = 0 THEN Endless
                                                        ELSE KeyMeaning(t, k, g[n - 1])]]
<1>1. b \in LevelOf(t)
  BY MeaningTypes DEF LevelOf
<1>2. h \in [Nat -> [LevelOf(t) -> LevelOf(t)]]
  <2>1. ASSUME NEW level \in LevelOf(t) PROVE [k \in D |-> KeyMeaning(t, k, level)] \in LevelOf(t)
    BY KeyType DEF LevelOf
  <2> QED
    BY <2>1
<1>3. PICK F \in [Nat -> LevelOf(t)] : F[0] = b /\ \A i \in Nat : F[i + 1] = h[i][F[i]]
  <2> HIDE DEF h, b
  <2>1. \A c \in LevelOf(t) : \A g \in [Nat -> [LevelOf(t) -> LevelOf(t)]] :
            \E F \in [Nat -> LevelOf(t)] : F[0] = c /\ \A i \in Nat : F[i + 1] = g[i][F[i]]
    BY PrimitiveRecursion, SMTT(40)
  <2> QED
    BY <1>1, <1>2, <2>1
<1>4. ASSUME NEW n \in Nat, n # 0
      PROVE  F[n] = [k \in D |-> KeyMeaning(t, k, F[n - 1])]
  <2>1. n - 1 \in Nat /\ (n - 1) + 1 = n
    BY <1>4
  <2>2. F[n - 1] \in LevelOf(t)
    BY <1>3, <2>1
  <2>3. F[n] = h[n - 1][F[n - 1]]
    BY <1>3, <2>1
  <2> QED
    BY <2>1, <2>2, <2>3
<1> HIDE DEF h
<1>5. Solves(F)
  <2>1. \A n \in Nat : F[n] = [k \in D |-> IF n = 0 THEN Endless ELSE KeyMeaning(t, k, F[n - 1])]
    <3> TAKE n \in Nat
    <3>1. CASE n = 0
      BY <1>3, <3>1
    <3>2. CASE n # 0
      BY <1>4, <3>2
    <3> QED
      BY <3>1, <3>2
  <2>2. F = [n \in Nat |-> F[n]]
    BY <1>3
  <2> HIDE DEF D
  <2> QED
    BY <2>1, <2>2
<1> HIDE DEF Solves
<1>6. Solves(Levels(t))
  <2>1. Levels(t) = CHOOSE g : Solves(g)
    BY DEF Levels, Solves
  <2> QED
    BY <1>5, <2>1
<1>7. \A n \in Nat : Levels(t)[n] = [k \in D |-> IF n = 0 THEN Endless
                                               ELSE KeyMeaning(t, k, Levels(t)[n - 1])]
  <2> HIDE DEF D
  <2> QED
    BY <1>6 DEF Solves
<1> DEFINE G == {n \in Nat : Levels(t)[n] \in LevelOf(t)}
<1>8. 0 \in G
  BY <1>1, <1>7
<1>9. ASSUME NEW n \in Nat, n \in G PROVE n + 1 \in G
  <2>1. Levels(t)[n + 1] = [k \in D |-> KeyMeaning(t, k, Levels(t)[n])]
    BY <1>7
  <2>2. Levels(t)[n] \in LevelOf(t)
    BY <1>9
  <2>3. [k \in D |-> KeyMeaning(t, k, Levels(t)[n])] \in LevelOf(t)
    BY <2>2, KeyType DEF LevelOf
  <2> QED
    BY <2>1, <2>3
<1> HIDE DEF G
<1>10. \A n \in Nat : n \in G
  BY <1>8, <1>9, SetInduction
<1>11. \A n \in Nat : Levels(t)[n] \in LevelOf(t)
  BY <1>10 DEF G
<1>12. \A k \in D : Level(t, k, 0) = Endless
  BY <1>7 DEF Level
<1>13. ASSUME NEW n \in Nat, NEW k \in D
       PROVE  Level(t, k, n + 1) = KeyMeaning(t, k, Levels(t)[n])
  <2>1. n + 1 \in Nat /\ n + 1 # 0 /\ (n + 1) - 1 = n
    OBVIOUS
  <2>2. Levels(t)[n + 1] = [j \in D |-> KeyMeaning(t, j, Levels(t)[n])]
    BY <1>7, <2>1
  <2> QED
    BY <2>2 DEF Level
<1> QED
  BY <1>11, <1>12, <1>13
-----------------------------------------------------------------------------
(* Circles.  A key that ends with some number of levels needs the keys it  *)
(* refers to to end with fewer.                                            *)
Ends(t, k, n) == Level(t, k, n).why # "endless"

LEMMA PlainOfReference ==
    ASSUME NEW t, NEW part, NEW level, NEW r \in DOMAIN t.fields, RefersTo(part, r)
    PROVE  /\ PlainMeaning(t, part, level) = Demanded(part, level[r])
           /\ \A k : k # r => ~RefersTo(part, k)
BY DEF PlainMeaning, RefersTo

LEMMA KeyEnds ==
    ASSUME NEW t, IsTree(t), NEW k \in DOMAIN t.fields, NEW n \in Nat, Ends(t, k, n)
    PROVE  /\ n # 0 /\ n - 1 \in Nat /\ Levels(t)[n - 1] \in LevelOf(t)
           /\ LayerMeaning(t, k, Levels(t)[n - 1]).why # "endless"
<1>1. n # 0
  BY LevelsSteps, MeaningTypes DEF Ends
<1>2. n - 1 \in Nat /\ (n - 1) + 1 = n
  BY <1>1
<1>3. Level(t, k, n) = KeyMeaning(t, k, Levels(t)[n - 1]) /\ Levels(t)[n - 1] \in LevelOf(t)
  BY <1>2, LevelsSteps
<1>4. LayerMeaning(t, k, Levels(t)[n - 1]).why # "endless"
  BY <1>3 DEF KeyMeaning, ComesToNothing, IsGood, Ends
<1> QED
  BY <1>1, <1>2, <1>3, <1>4

LEMMA Descends ==
    ASSUME NEW t, IsTree(t), NEW k \in DOMAIN t.fields, NEW n \in Nat, Ends(t, k, n),
           NEW r \in DOMAIN t.fields, r # k,
           \/ ContainsSubst(t.fields[k], r)
           \/ LooksAtSelf(t, k) /\ k \in DOMAIN t.priors /\ ContainsSubst(t.priors[k], r)
    PROVE  n # 0 /\ n - 1 \in Nat /\ Ends(t, r, n - 1)
<1> DEFINE level == Levels(t)[n - 1]
<1>1. /\ n # 0 /\ n - 1 \in Nat /\ level \in LevelOf(t)
      /\ LayerMeaning(t, k, level).why # "endless"
  BY KeyEnds
<1> HIDE DEF level
<1>2. /\ t.fields[k] \in Seq(Part)
      /\ \A i \in DOMAIN t.fields[k] : PartMeaning(t, k, t.fields[k][i], level).why # "endless"
  BY <1>1, LayerType
<1>3. level[r].why # "endless"
  <2>1. CASE ContainsSubst(t.fields[k], r)
    <3>1. PICK i \in DOMAIN t.fields[k] : RefersTo(t.fields[k][i], r)
      BY <2>1 DEF ContainsSubst
    <3>2. PartMeaning(t, k, t.fields[k][i], level) = Demanded(t.fields[k][i], level[r])
      BY <3>1, PlainOfReference DEF PartMeaning
    <3>3. level[r] \in Meaning
      BY <1>1 DEF LevelOf
    <3> QED
      BY <1>2, <3>2, <3>3, DemandedParts
  <2>2. CASE LooksAtSelf(t, k) /\ k \in DOMAIN t.priors /\ ContainsSubst(t.priors[k], r)
    <3>1. PICK i \in DOMAIN t.fields[k] : RefersTo(t.fields[k][i], k)
      BY <2>2 DEF ContainsSubst, LooksAtSelf
    <3>2. PriorMeaning(t, k, level).why # "endless"
      <4>1. PartMeaning(t, k, t.fields[k][i], level) = Demanded(t.fields[k][i], PriorMeaning(t, k, level))
        BY <2>2, <3>1 DEF PartMeaning
      <4>2. PriorMeaning(t, k, level) \in Meaning
        BY <1>1, <2>2, PriorType
      <4> QED
        BY <1>2, <4>1, <4>2, DemandedParts
    <3>3. PICK j \in DOMAIN t.priors[k] : RefersTo(t.priors[k][j], r)
      BY <2>2 DEF ContainsSubst
    <3>4. /\ t.priors[k] \in Seq(Part)
          /\ \A i1 \in DOMAIN t.priors[k] : PlainMeaning(t, t.priors[k][i1], level).why # "endless"
      BY <1>1, <2>2, <3>2, PriorType
    <3>5. level[r] \in Meaning
      BY <1>1 DEF LevelOf
    <3>6. PlainMeaning(t, t.priors[k][j], level) = Demanded(t.priors[k][j], level[r])
      BY <3>3, PlainOfReference
    <3> QED
      BY <3>4, <3>5, <3>6, DemandedParts
  <2> QED
    BY <2>1, <2>2
<1> QED
  BY <1>1, <1>3 DEF Ends, Level, level

(* What a frame that waits at a reference says about its layer.            *)
LEMMA CallsContains ==
    ASSUME NEW t, NEW f \in Frame, OfTree(t, f), NEW r, Calls(f, r)
    PROVE  ContainsSubst(f.layer, r)
<1>1. f.at \in DOMAIN f.layer
  BY FrameParts DEF OfTree, Calls, Layer
<1> QED
  BY <1>1 DEF Calls, ContainsSubst

LEMMA SelfCall ==
    ASSUME NEW t, IsTree(t), NEW f \in Frame, OfTree(t, f), Calls(f, f.key)
    PROVE  IsField(f) /\ LooksAtSelf(t, f.key)
<1>1. ContainsSubst(f.layer, f.key)
  BY CallsContains
<1>2. ~LooksBack(f)
  BY <1>1, TreeParts DEF OfTree
<1>3. IsField(f)
  BY <1>2, FrameParts DEF LooksBack, IsField, Kinds
<1> QED
  BY <1>1, <1>3 DEF OfTree, LooksAtSelf

(* A frame that the meaning of its key depends on, or a key without end.   *)
Passes(t, f) == IsField(f) \/ LooksAtSelf(t, f.key) \/ Endlessly(t, f.key)

LEMMA FrameDescends ==
    ASSUME NEW t, IsTree(t), NEW f \in Frame, OfTree(t, f), Passes(t, f),
           NEW n \in Nat, Ends(t, f.key, n),
           NEW r \in DOMAIN t.fields, r # f.key, Calls(f, r)
    PROVE  n # 0 /\ n - 1 \in Nat /\ Ends(t, r, n - 1)
<1>1. ContainsSubst(f.layer, r) /\ f.key \in DOMAIN t.fields
  BY CallsContains DEF OfTree
<1>2. IsField(f) \/ LooksBack(f)
  BY FrameParts DEF LooksBack, IsField, Kinds
<1>3. IsField(f) \/ LooksAtSelf(t, f.key)
  BY DEF Passes, Endlessly, Ends
<1>4. \/ ContainsSubst(t.fields[f.key], r)
      \/ /\ LooksAtSelf(t, f.key) /\ f.key \in DOMAIN t.priors
         /\ ContainsSubst(t.priors[f.key], r)
  BY <1>1, <1>2, <1>3 DEF OfTree
<1> QED
  BY <1>1, <1>4, Descends

(* The frames of a tree, as the invariant has them.                        *)
Chain(t, fs) ==
    /\ IsTree(t) /\ fs \in Seq(Frame)
    /\ \A i \in 1..Len(fs) : OfTree(t, fs[i])
    /\ OneBottom(fs) /\ Linked(fs) /\ NoReentry(fs) /\ CalledBySelf(t, fs)

LEMMA ChainFrame ==
    ASSUME NEW t, NEW fs, Chain(t, fs), NEW i \in 1..Len(fs)
    PROVE  /\ fs[i] \in Frame /\ OfTree(t, fs[i]) /\ fs[i].key \in DOMAIN t.fields
           /\ IsBottom(fs[i]) <=> i = 1
           /\ i # Len(fs) => (i + 1 \in 1..Len(fs) /\ Calls(fs[i], fs[i + 1].key))
           /\ i # 1 => (i - 1 \in 1..Len(fs) /\ Calls(fs[i - 1], fs[i].key))
           /\ (i # 1 /\ fs[i].what = "found") => fs[i - 1].key # fs[i].key
           /\ (i # 1 /\ LooksBack(fs[i])) =>
                  (fs[i - 1].key = fs[i].key \/ Endlessly(t, fs[i].key))
<1>1. /\ fs \in Seq(Frame) /\ Len(fs) \in Nat /\ DOMAIN fs = 1..Len(fs)
      /\ Linked(fs) /\ OneBottom(fs) /\ NoReentry(fs) /\ CalledBySelf(t, fs)
  BY DEF Chain
<1>2. fs[i] \in Frame /\ OfTree(t, fs[i]) /\ fs[i].key \in DOMAIN t.fields
  BY <1>1 DEF Chain, OfTree
<1>3. IsBottom(fs[i]) <=> i = 1
  BY <1>1 DEF OneBottom
<1>4. ASSUME i # Len(fs) PROVE i + 1 \in 1..Len(fs) /\ Calls(fs[i], fs[i + 1].key)
  <2>a. \A m \in Nat : (i \in 1..m /\ i # m) => (i \in 1..m - 1 /\ i + 1 \in 1..m)
    OBVIOUS
  <2>1. i \in 1..Len(fs) - 1 /\ i + 1 \in 1..Len(fs)
    BY <1>1, <1>4, <2>a
  <2> QED
    BY <1>1, <2>1 DEF Linked
<1>5. ASSUME i # 1
      PROVE  /\ i - 1 \in 1..Len(fs) /\ Calls(fs[i - 1], fs[i].key)
             /\ fs[i].what = "found" => fs[i - 1].key # fs[i].key
             /\ LooksBack(fs[i]) => (fs[i - 1].key = fs[i].key \/ Endlessly(t, fs[i].key))
  <2>1. i - 1 \in 1..Len(fs) - 1 /\ i - 1 \in 1..Len(fs) /\ (i - 1) + 1 = i
    BY <1>1, <1>5
  <2>2. fs[i].what # "fallback"
    BY <1>3, <1>5 DEF IsBottom
  <2>3. \A j \in 1..Len(fs) - 1 :
            /\ Calls(fs[j], fs[j + 1].key)
            /\ fs[j + 1].what = "found" => fs[j].key # fs[j + 1].key
            /\ fs[j + 1].what \in {"lookback", "cycle"} =>
                   (fs[j].key = fs[j + 1].key \/ Endlessly(t, fs[j + 1].key))
    BY <1>1 DEF Linked, NoReentry, CalledBySelf
  <2> DEFINE j == i - 1
  <2>4. j \in 1..Len(fs) - 1 /\ j + 1 = i
    BY <2>1
  <2>5. /\ Calls(fs[j], fs[j + 1].key)
        /\ fs[j + 1].what = "found" => fs[j].key # fs[j + 1].key
        /\ fs[j + 1].what \in {"lookback", "cycle"} =>
               (fs[j].key = fs[j + 1].key \/ Endlessly(t, fs[j + 1].key))
    <3> HIDE DEF j
    <3> QED
      BY <2>3, <2>4
  <2> QED
    BY <2>1, <2>2, <2>5 DEF LooksBack
<1> QED
  BY <1>2, <1>3, <1>4, <1>5

LEMMA FramesPass ==
    ASSUME NEW t, NEW fs, Chain(t, fs), NEW i \in 1..Len(fs), i # 1
    PROVE  Passes(t, fs[i])
<1>1. /\ fs[i] \in Frame /\ fs[i - 1] \in Frame /\ OfTree(t, fs[i - 1])
      /\ Calls(fs[i - 1], fs[i].key) /\ IsTree(t)
      /\ LooksBack(fs[i]) => (fs[i - 1].key = fs[i].key \/ Endlessly(t, fs[i].key))
  <2>1. /\ i - 1 \in 1..Len(fs) /\ Calls(fs[i - 1], fs[i].key) /\ fs[i] \in Frame
        /\ LooksBack(fs[i]) => (fs[i - 1].key = fs[i].key \/ Endlessly(t, fs[i].key))
    BY ChainFrame
  <2>2. fs[i - 1] \in Frame /\ OfTree(t, fs[i - 1])
    BY <2>1, ChainFrame
  <2> QED
    BY <2>1, <2>2 DEF Chain
<1>2. CASE IsField(fs[i])
  BY <1>2 DEF Passes
<1>3. CASE LooksBack(fs[i]) /\ fs[i - 1].key = fs[i].key
  BY <1>1, <1>3, SelfCall DEF Passes
<1>4. CASE LooksBack(fs[i]) /\ Endlessly(t, fs[i].key)
  BY <1>4 DEF Passes
<1> QED
  BY <1>1, <1>2, <1>3, <1>4, FrameParts DEF IsField, LooksBack, Kinds

(* From one frame to a later one the key needs no more levels.             *)
LEMMA Path ==
    ASSUME NEW t, NEW fs, Chain(t, fs), NEW p \in 1..Len(fs), NEW q \in 1..Len(fs), p <= q,
           Passes(t, fs[p]), NEW n \in Nat, Ends(t, fs[p].key, n)
    PROVE  \E m \in 0..n : Ends(t, fs[q].key, m)
<1> DEFINE Q(i) == \E m \in 0..n : Ends(t, fs[i].key, m)
           G == {d \in Nat : p + d <= Len(fs) => Q(p + d)}
<1>1. Len(fs) \in Nat /\ IsTree(t)
  BY DEF Chain
<1>2. 0 \in G
  <2>1. n \in 0..n
    OBVIOUS
  <2> QED
    BY <2>1
<1>3. ASSUME NEW d \in Nat, d \in G PROVE d + 1 \in G
  <2> SUFFICES ASSUME p + (d + 1) <= Len(fs) PROVE Q(p + (d + 1))
    OBVIOUS
  <2> DEFINE i == p + d
  <2>1. i \in 1..Len(fs) /\ i # Len(fs) /\ p + (d + 1) = i + 1 /\ (i = 1 => p = i)
    BY <1>1
  <2>2. PICK m \in 0..n : Ends(t, fs[i].key, m)
    BY <1>3, <2>1
  <2>3. Passes(t, fs[i])
    BY <2>1, FramesPass
  <2> HIDE DEF i
  <2>4. /\ fs[i] \in Frame /\ OfTree(t, fs[i]) /\ i + 1 \in 1..Len(fs)
        /\ Calls(fs[i], fs[i + 1].key)
    BY <2>1, ChainFrame
  <2>5. fs[i + 1].key \in DOMAIN t.fields
    BY <2>4, ChainFrame
  <2>6. CASE fs[i + 1].key = fs[i].key
    BY <2>1, <2>2, <2>6
  <2>7. CASE fs[i + 1].key # fs[i].key
    <3>1. m - 1 \in Nat /\ Ends(t, fs[i + 1].key, m - 1)
      BY <1>1, <2>2, <2>3, <2>4, <2>5, <2>7, FrameDescends, SMTT(40)
    <3>2. m - 1 \in 0..n
      BY <3>1
    <3> QED
      BY <2>1, <3>1, <3>2
  <2> QED
    BY <2>6, <2>7
<1> HIDE DEF G
<1>4. q - p \in Nat /\ p + (q - p) = q
  BY <1>1
<1>5. q - p \in G
  BY <1>2, <1>3, <1>4, SetInduction
<1> QED
  BY <1>4, <1>5, <1>1 DEF G

(* A key whose frames come to a reference to it, from another key, has no  *)
(* end: the least number of levels where it ended would not be the least.  *)
LEMMA Circle ==
    ASSUME NEW t, NEW fs, Chain(t, fs), NEW p \in 1..Len(fs), NEW q \in 1..Len(fs), p <= q,
           Passes(t, fs[p]), NEW r, r = fs[p].key, r # fs[q].key, Calls(fs[q], r)
    PROVE  Endlessly(t, r)
<1> DEFINE T == {n \in Nat : Ends(t, r, n)}
<1> SUFFICES ASSUME T # {} PROVE FALSE
  BY DEF Endlessly, Ends
<1>1. PICK n \in T : \A m \in T : n <= m
  BY LeastNumber
<1>2. n \in Nat /\ Ends(t, r, n)
  OBVIOUS
<1>3. PICK m \in 0..n : Ends(t, fs[q].key, m)
  BY <1>2, Path
<1>4. IsTree(t) /\ fs[q] \in Frame /\ OfTree(t, fs[q]) /\ r \in DOMAIN t.fields
  BY ChainFrame DEF Chain
<1>5. Passes(t, fs[q])
  <2>1. CASE q = 1
    <3>1. p = 1
      BY <2>1
    <3> QED
      BY <2>1, <3>1
  <2>2. CASE q # 1
    BY <2>2, FramesPass
  <2> QED
    BY <2>1, <2>2
<1>6. m # 0 /\ m - 1 \in Nat /\ Ends(t, r, m - 1)
  BY <1>3, <1>4, <1>5, FrameDescends
<1>7. m - 1 \in T /\ m - 1 < n
  BY <1>3, <1>6
<1> QED
  BY <1>1, <1>2, <1>7
-----------------------------------------------------------------------------
(* Frames and values.  What the parts of a frame mean.                     *)
LEMMA PartsMeanType ==
    ASSUME NEW t, IsTree(t), NEW f \in Frame, OfTree(t, f), NEW n \in Nat
    PROVE  /\ Len(f.layer) \in Nat /\ IsField(f) = ~LooksBack(f)
           /\ \A i \in 1..Len(f.layer) :
                  /\ PartsMean(t, f, n)[i] \in Meaning
                  /\ PartsMean(t, f, n)[i] =
                         IF IsField(f) THEN PartMeaning(t, f.key, f.layer[i], Levels(t)[n])
                         ELSE PlainMeaning(t, f.layer[i], Levels(t)[n])
           /\ Together(PartsMean(t, f, n), Len(f.layer)) =
                  IF IsField(f) THEN LayerMeaning(t, f.key, Levels(t)[n])
                  ELSE PriorMeaning(t, f.key, Levels(t)[n])
<1>1. Levels(t)[n] \in LevelOf(t) /\ f.key \in DOMAIN t.fields
  BY LevelsSteps DEF OfTree
<1>2. Len(f.layer) \in Nat /\ IsField(f) = ~LooksBack(f)
  BY FrameParts DEF IsField, LooksBack, Kinds
<1>3. CASE IsField(f)
  <2>1. f.layer = t.fields[f.key]
    BY <1>3 DEF OfTree
  <2>2. PartsMean(t, f, n) = LayerMeanings(t, f.key, Levels(t)[n])
    BY <1>3 DEF PartsMean
  <2> QED
    BY <1>1, <1>2, <1>3, <2>1, <2>2, LayerType DEF LayerMeaning
<1>4. CASE LooksBack(f)
  <2>1. f.layer = t.priors[f.key] /\ f.key \in DOMAIN t.priors
    BY <1>4 DEF OfTree
  <2>2. PartsMean(t, f, n) = PriorMeanings(t, f.key, Levels(t)[n]) /\ ~IsField(f)
    BY <1>2, <1>4 DEF PartsMean
  <2> QED
    BY <1>1, <1>2, <1>4, <2>1, <2>2, PriorType DEF PriorMeaning
<1> QED
  BY <1>2, <1>3, <1>4

(* A value that fits the part at hand is taken.                            *)
LEMMA TakeFits ==
    ASSUME NEW t, IsTree(t), NEW f \in Frame, OfTree(t, f), f.at <= Len(f.layer),
           FrameFits(t, f), NEW v \in Value, \A n \in Nat : Fits(v, PartsMean(t, f, n)[f.at])
    PROVE  FrameFits(t, Taken(f, v))
<1> SUFFICES ASSUME NEW n \in Nat
             PROVE  Fits(Taken(f, v).value, Together(PartsMean(t, Taken(f, v), n), Taken(f, v).at - 1))
  BY DEF FrameFits
<1> DEFINE ms == PartsMean(t, f, n)
           N == Len(f.layer)
<1>1. /\ Taken(f, v).at = f.at + 1 /\ Taken(f, v).value = Joined(f.value, v)
      /\ Taken(f, v).key = f.key /\ Taken(f, v).what = f.what
  BY TakenParts
<1>2. PartsMean(t, Taken(f, v), n) = ms
  BY <1>1 DEF PartsMean, IsField
<1>3. N \in Nat /\ \A i \in 1..N : ms[i] \in Meaning
  BY PartsMeanType
<1>4. f.at \in 1..N /\ f.at - 1 \in 0..N /\ (f.at + 1) - 1 = f.at
  BY <1>3 DEF OfTree
<1>5. f.value \in Value
  BY FrameParts
<1>6. Fits(f.value, Together(ms, f.at - 1)) /\ Fits(v, ms[f.at])
  BY DEF FrameFits
<1> HIDE DEF ms, N
<1>7. /\ Together(ms, f.at) = Both(Together(ms, f.at - 1), ms[f.at])
      /\ Together(ms, f.at - 1) \in Meaning /\ ms[f.at] \in Meaning
  BY <1>3, <1>4, TogetherSteps
<1>8. Fits(Joined(f.value, v), Together(ms, f.at))
  BY <1>5, <1>6, <1>7, BothFits
<1> QED
  BY <1>1, <1>2, <1>4, <1>8

(* A frame that just began.                                                *)
LEMMA BeginFits ==
    ASSUME NEW t, IsTree(t), NEW f \in Frame, OfTree(t, f), f.at = 1, f.value = Nothing
    PROVE  FrameFits(t, f)
<1> SUFFICES ASSUME NEW n \in Nat PROVE Fits(f.value, Together(PartsMean(t, f, n), f.at - 1))
  BY DEF FrameFits
<1>1. Together(PartsMean(t, f, n), 0) = Good(Nothing)
  BY PartsMeanType, TogetherSteps
<1> QED
  BY <1>1, MeaningTypes DEF Fits, IsGood, Good

(* A frame that is done has what its layer means.                          *)
LEMMA DoneFits ==
    ASSUME NEW t, IsTree(t), NEW f \in Frame, OfTree(t, f), f.at > Len(f.layer), FrameFits(t, f)
    PROVE  /\ IsField(f) => \A n \in Nat : Fits(f.value, LayerMeaning(t, f.key, Levels(t)[n]))
           /\ LooksBack(f) => FitsPrior(t, f.value, f.key)
<1>1. ASSUME NEW n \in Nat
      PROVE  Fits(f.value, IF IsField(f) THEN LayerMeaning(t, f.key, Levels(t)[n])
                           ELSE PriorMeaning(t, f.key, Levels(t)[n]))
  <2>1. Len(f.layer) \in Nat
    BY FrameParts
  <2>2. f.at - 1 = Len(f.layer)
    BY <2>1 DEF OfTree
  <2> QED
    BY <2>2, PartsMeanType DEF FrameFits
<1>2. IsField(f) = ~LooksBack(f)
  BY FrameParts DEF IsField, LooksBack, Kinds
<1> QED
  BY <1>1, <1>2 DEF FitsPrior

(* The part at hand: a reference to the key of the frame itself, to        *)
(* another key, and everything else.                                       *)
LEMMA MeansOwn ==
    ASSUME NEW t, IsTree(t), NEW f \in Frame, OfTree(t, f), Calls(f, f.key), NEW n \in Nat
    PROVE  PartsMean(t, f, n)[f.at] =
               IF f.key \in DOMAIN t.priors
               THEN Demanded(f.layer[f.at], PriorMeaning(t, f.key, Levels(t)[n]))
               ELSE NoProvider(f.layer[f.at])
<1>1. IsField(f) /\ f.at \in 1..Len(f.layer)
  BY SelfCall, FrameParts DEF OfTree, Calls
<1>2. PartsMean(t, f, n)[f.at] = PartMeaning(t, f.key, f.layer[f.at], Levels(t)[n])
  BY <1>1, PartsMeanType
<1> QED
  BY <1>2 DEF PartMeaning, Calls

LEMMA MeansOther ==
    ASSUME NEW t, IsTree(t), NEW f \in Frame, OfTree(t, f), NEW r \in DOMAIN t.fields, r # f.key,
           Calls(f, r), NEW n \in Nat
    PROVE  PartsMean(t, f, n)[f.at] = Demanded(f.layer[f.at], Level(t, r, n))
<1>1. f.at \in 1..Len(f.layer)
  BY FrameParts DEF OfTree, Calls
<1>2. RefersTo(f.layer[f.at], r) /\ ~RefersTo(f.layer[f.at], f.key)
  BY DEF Calls, RefersTo
<1>3. PartsMean(t, f, n)[f.at] = PlainMeaning(t, f.layer[f.at], Levels(t)[n])
  BY <1>1, <1>2, PartsMeanType DEF PartMeaning
<1> QED
  BY <1>2, <1>3, PlainOfReference DEF Level

(* What fits the prior of its key or another key fits a reference to it.   *)
LEMMA OwnFits ==
    ASSUME NEW t, IsTree(t), NEW f \in Frame, OfTree(t, f), Calls(f, f.key), f.key \in DOMAIN t.priors,
           NEW v, FitsPrior(t, v, f.key), NEW n \in Nat
    PROVE  Fits(v, PartsMean(t, f, n)[f.at])
<1>1. Levels(t)[n] \in LevelOf(t)
  BY LevelsSteps
<1>2. PriorMeaning(t, f.key, Levels(t)[n]) \in Meaning
  BY <1>1, PriorType
<1>3. Fits(v, PriorMeaning(t, f.key, Levels(t)[n]))
  BY DEF FitsPrior
<1>4. Fits(v, Demanded(f.layer[f.at], PriorMeaning(t, f.key, Levels(t)[n])))
  BY <1>2, <1>3, DemandedFits
<1> QED
  BY <1>4, MeansOwn

LEMMA OtherFits ==
    ASSUME NEW t, IsTree(t), NEW f \in Frame, OfTree(t, f), NEW r \in DOMAIN t.fields, r # f.key,
           Calls(f, r), NEW v, FitsKey(t, v, r), NEW n \in Nat
    PROVE  Fits(v, PartsMean(t, f, n)[f.at])
<1>1. Level(t, r, n) \in Meaning
  BY LevelsSteps DEF LevelOf, Level
<1>2. Fits(v, Level(t, r, n))
  BY DEF FitsKey
<1>3. Fits(v, Demanded(f.layer[f.at], Level(t, r, n)))
  BY <1>1, <1>2, DemandedFits
<1> QED
  BY <1>3, MeansOther

LEMMA MeansPlain ==
    ASSUME NEW t, IsTree(t), NEW f \in Frame, OfTree(t, f), f.at <= Len(f.layer),
           ~RefersTo(f.layer[f.at], f.key), NEW n \in Nat
    PROVE  PartsMean(t, f, n)[f.at] = PlainMeaning(t, f.layer[f.at], Levels(t)[n])
<1>1. f.at \in 1..Len(f.layer)
  BY FrameParts DEF OfTree
<1> QED
  BY <1>1, PartsMeanType DEF PartMeaning

(* What a value fits that a layer, or after it the prior, came to.         *)
LEMMA EndlessFits ==
    ASSUME NEW t, NEW k, Endlessly(t, k), NEW v
    PROVE  FitsKey(t, v, k)
BY DEF FitsKey, Fits, Endlessly, IsGood

LEMMA FieldFits ==
    ASSUME NEW t, IsTree(t), NEW k \in DOMAIN t.fields, NEW v,
           \A n \in Nat : Fits(v, LayerMeaning(t, k, Levels(t)[n]))
    PROVE  /\ FitsKey(t, v, k)
           /\ (v.found \/ k \notin DOMAIN t.priors) =>
                  \A n \in Nat : Fits(v, FieldMeaning(t, k, Levels(t)[n]))
<1>1. ASSUME NEW n \in Nat PROVE Fits(v, KeyMeaning(t, k, Levels(t)[n]))
  BY MeaningTypes DEF KeyMeaning, Fits
<1>2. ASSUME NEW n \in Nat PROVE Fits(v, Level(t, k, n))
  <2>1. CASE n = 0
    BY <2>1, LevelsSteps, MeaningTypes DEF Fits
  <2>2. CASE n # 0
    <3>1. n - 1 \in Nat /\ (n - 1) + 1 = n
      BY <2>2
    <3>2. Level(t, k, n) = KeyMeaning(t, k, Levels(t)[n - 1])
      BY <3>1, LevelsSteps
    <3> QED
      BY <1>1, <3>1, <3>2
  <2> QED
    BY <2>1, <2>2
<1>3. ASSUME v.found \/ k \notin DOMAIN t.priors, NEW n \in Nat
      PROVE  Fits(v, FieldMeaning(t, k, Levels(t)[n]))
  <2>1. ~ComesToNothing(t, k, LayerMeaning(t, k, Levels(t)[n]))
    BY <1>3 DEF ComesToNothing, Fits
  <2> QED
    BY <2>1 DEF FieldMeaning
<1> QED
  BY <1>2, <1>3 DEF FitsKey

LEMMA FallbackFits ==
    ASSUME NEW t, IsTree(t), NEW k \in DOMAIN t.fields, k \in DOMAIN t.priors, NEW v,
           \A n \in Nat : /\ LayerMeaning(t, k, Levels(t)[n]).why # "missing"
                          /\ IsGood(LayerMeaning(t, k, Levels(t)[n])) =>
                                 ~LayerMeaning(t, k, Levels(t)[n]).value.found
    PROVE  /\ FitsKey(t, v, k)
           /\ FitsPrior(t, v, k) => \A n \in Nat : Fits(v, FieldMeaning(t, k, Levels(t)[n]))
<1>1. ASSUME NEW n \in Nat PROVE Fits(v, KeyMeaning(t, k, Levels(t)[n]))
  BY MeaningTypes DEF KeyMeaning, ComesToNothing, Fits
<1>2. ASSUME NEW n \in Nat PROVE Fits(v, Level(t, k, n))
  <2>1. CASE n = 0
    BY <2>1, LevelsSteps, MeaningTypes DEF Fits
  <2>2. CASE n # 0
    <3>1. n - 1 \in Nat /\ (n - 1) + 1 = n
      BY <2>2
    <3>2. Level(t, k, n) = KeyMeaning(t, k, Levels(t)[n - 1])
      BY <3>1, LevelsSteps
    <3> QED
      BY <1>1, <3>1, <3>2
  <2> QED
    BY <2>1, <2>2
<1>3. ASSUME FitsPrior(t, v, k), NEW n \in Nat PROVE Fits(v, FieldMeaning(t, k, Levels(t)[n]))
  BY <1>3 DEF FieldMeaning, ComesToNothing, FitsPrior, Fits
<1> QED
  BY <1>2, <1>3 DEF FitsKey
-----------------------------------------------------------------------------
(* A key without an end has no meaning, and neither has a key whose frame  *)
(* stands at a part that is never good.                                    *)
LEMMA EndlessMeaningless ==
    ASSUME NEW t, IsTree(t), NEW k \in DOMAIN t.fields, Endlessly(t, k)
    PROVE  Meaningless(t, k)
<1> SUFFICES ASSUME NEW n \in Nat PROVE ~IsGood(FieldMeaning(t, k, Levels(t)[n]))
  BY DEF Meaningless
<1>1. KeyMeaning(t, k, Levels(t)[n]).why = "endless"
  BY LevelsSteps DEF Endlessly
<1>2. ~ComesToNothing(t, k, LayerMeaning(t, k, Levels(t)[n]))
  BY <1>1, MeaningTypes DEF KeyMeaning
<1> QED
  BY <1>1, <1>2 DEF KeyMeaning, FieldMeaning, IsGood

LEMMA BadPart ==
    ASSUME NEW t, NEW fs, Chain(t, fs), CameToNothing(t, fs), NEW i \in 1..Len(fs),
           fs[i].at <= Len(fs[i].layer),
           \A n \in Nat : ~IsGood(PartsMean(t, fs[i], n)[fs[i].at])
    PROVE  Meaningless(t, fs[i].key)
<1> DEFINE f == fs[i]
           k == f.key
<1>1. f \in Frame /\ OfTree(t, f) /\ k \in DOMAIN t.fields /\ IsTree(t)
  BY ChainFrame DEF Chain
<1>2. f.at \in 1..Len(f.layer)
  BY <1>1, FrameParts DEF OfTree
<1>3. CASE IsField(f)
  <2> SUFFICES ASSUME NEW n \in Nat PROVE ~IsGood(FieldMeaning(t, k, Levels(t)[n]))
    BY DEF Meaningless
  <2>1. ~IsGood(LayerMeaning(t, k, Levels(t)[n]))
    <3>1. PartsMean(t, f, n) = LayerMeanings(t, k, Levels(t)[n]) /\ f.layer = t.fields[k]
      BY <1>1, <1>3 DEF PartsMean, OfTree
    <3>2. ~IsGood(LayerMeanings(t, k, Levels(t)[n])[f.at]) /\ f.at \in 1..Len(t.fields[k])
      BY <1>2, <3>1
    <3>3. Levels(t)[n] \in LevelOf(t)
      BY <1>1, LevelsSteps
    <3> HIDE DEF f
    <3> QED
      BY <1>1, <3>2, <3>3, LayerType
  <2> QED
    BY <2>1 DEF FieldMeaning, ComesToNothing
<1>4. CASE LooksBack(f)
  <2>1. k \in DOMAIN t.priors /\ f.layer = t.priors[k]
    BY <1>1, <1>4 DEF OfTree
  <2>2. ~IsField(f)
    BY <1>4 DEF IsField, LooksBack
  <2>3. ASSUME NEW n \in Nat PROVE ~IsGood(PriorMeaning(t, k, Levels(t)[n]))
    <3>1. PartsMean(t, f, n) = PriorMeanings(t, k, Levels(t)[n])
      BY <2>2 DEF PartsMean
    <3>2. ~IsGood(PriorMeanings(t, k, Levels(t)[n])[f.at]) /\ f.at \in 1..Len(t.priors[k])
      BY <1>2, <2>1, <3>1
    <3>3. Levels(t)[n] \in LevelOf(t)
      BY <1>1, LevelsSteps
    <3> HIDE DEF f
    <3> QED
      BY <1>1, <2>1, <3>2, <3>3, PriorType
  <2>4. CASE i = 1
    <3>1. f.what = "fallback" /\ fs # <<>>
      <4>1. IsBottom(f)
        BY <2>4, ChainFrame
      <4> QED
        BY <1>4, <4>1 DEF IsBottom, LooksBack
    <3> SUFFICES ASSUME NEW n \in Nat PROVE ~IsGood(FieldMeaning(t, k, Levels(t)[n]))
      BY DEF Meaningless
    <3>2. IsGood(LayerMeaning(t, k, Levels(t)[n])) => ~LayerMeaning(t, k, Levels(t)[n]).value.found
      BY <2>4, <3>1 DEF CameToNothing
    <3> QED
      BY <2>1, <2>3, <3>2 DEF FieldMeaning, ComesToNothing
  <2>5. CASE i # 1 /\ Endlessly(t, k)
    BY <1>1, <2>5, EndlessMeaningless
  <2>6. CASE i # 1 /\ ~Endlessly(t, k)
    <3>1. LooksAtSelf(t, k)
      <4>1. i - 1 \in 1..Len(fs) /\ Calls(fs[i - 1], k) /\ fs[i - 1].key = k
        BY <1>4, <2>6, ChainFrame
      <4>2. fs[i - 1] \in Frame /\ OfTree(t, fs[i - 1])
        BY <4>1, ChainFrame
      <4> QED
        BY <1>1, <4>1, <4>2, SelfCall
    <3> SUFFICES ASSUME NEW n \in Nat PROVE ~IsGood(FieldMeaning(t, k, Levels(t)[n]))
      BY DEF Meaningless
    <3>2. PICK j \in DOMAIN t.fields[k] : RefersTo(t.fields[k][j], k)
      BY <3>1 DEF LooksAtSelf, ContainsSubst
    <3>3. PartMeaning(t, k, t.fields[k][j], Levels(t)[n]) =
              Demanded(t.fields[k][j], PriorMeaning(t, k, Levels(t)[n]))
      BY <2>1, <3>2 DEF PartMeaning
    <3>4. ~IsGood(LayerMeaning(t, k, Levels(t)[n]))
      <4>1. Levels(t)[n] \in LevelOf(t)
        BY <1>1, LevelsSteps
      <4>2. /\ t.fields[k] \in Seq(Part)
            /\ \A j1 \in 1..Len(t.fields[k]) :
                   IsGood(LayerMeaning(t, k, Levels(t)[n])) =>
                       IsGood(PartMeaning(t, k, t.fields[k][j1], Levels(t)[n]))
        <5> HIDE DEF k
        <5> QED
          BY <1>1, <4>1, LayerType
      <4>3. j \in 1..Len(t.fields[k])
        BY <3>2, <4>2
      <4>4. PriorMeaning(t, k, Levels(t)[n]) \in Meaning
        BY <1>1, <2>1, <4>1, PriorType
      <4> QED
        BY <2>3, <3>3, <4>2, <4>3, <4>4, DemandedParts
    <3> QED
      BY <3>4 DEF FieldMeaning, ComesToNothing
  <2> QED
    BY <2>4, <2>5, <2>6
<1> QED
  BY <1>1, <1>3, <1>4, PartsMeanType
-----------------------------------------------------------------------------
(* How many frames there can be when no key is without an end: no key is   *)
(* twice among the fields, none twice among the priors that were called.   *)
LEMMA FieldsOnce ==
    ASSUME NEW t, NEW fs, Chain(t, fs), \A k \in DOMAIN t.fields : ~Endlessly(t, k),
           NEW i \in 1..Len(fs), NEW j \in 1..Len(fs), i < j,
           IsField(fs[i]), IsField(fs[j]), fs[i].key = fs[j].key
    PROVE  FALSE
<1>1. Len(fs) \in Nat
  BY DEF Chain
<1>2. j # 1 /\ i <= j - 1
  BY <1>1
<1>3. /\ fs[j] \in Frame /\ fs[j].key \in DOMAIN t.fields /\ ~IsBottom(fs[j])
      /\ j - 1 \in 1..Len(fs) /\ Calls(fs[j - 1], fs[j].key)
      /\ fs[j].what = "found" => fs[j - 1].key # fs[j].key
  BY <1>2, ChainFrame
<1>4. fs[j].what = "found"
  BY <1>3 DEF IsBottom, IsField
<1>5. Passes(t, fs[i])
  BY DEF Passes
<1>6. Endlessly(t, fs[i].key)
  BY <1>2, <1>3, <1>4, <1>5, Circle
<1> QED
  BY <1>3, <1>6

LEMMA PriorsOnce ==
    ASSUME NEW t, NEW fs, Chain(t, fs), \A k \in DOMAIN t.fields : ~Endlessly(t, k),
           NEW i \in 1..Len(fs), NEW j \in 1..Len(fs), i # 1, i < j,
           LooksBack(fs[i]), LooksBack(fs[j]), fs[i].key = fs[j].key
    PROVE  FALSE
<1>1. Len(fs) \in Nat /\ IsTree(t)
  BY DEF Chain
<1>2. ASSUME NEW l \in 1..Len(fs), l # 1, LooksBack(fs[l])
      PROVE  l - 1 \in 1..Len(fs) /\ fs[l - 1].key = fs[l].key /\ IsField(fs[l - 1])
  <2>1. /\ l - 1 \in 1..Len(fs) /\ Calls(fs[l - 1], fs[l].key) /\ fs[l].key \in DOMAIN t.fields
        /\ fs[l - 1].key = fs[l].key \/ Endlessly(t, fs[l].key)
    BY <1>2, ChainFrame
  <2>2. fs[l - 1].key = fs[l].key
    BY <2>1
  <2>3. fs[l - 1] \in Frame /\ OfTree(t, fs[l - 1])
    BY <2>1, ChainFrame
  <2> QED
    BY <1>1, <2>1, <2>2, <2>3, SelfCall
<1>3. j # 1 /\ i - 1 < j - 1
  BY <1>1
<1>4. /\ i - 1 \in 1..Len(fs) /\ fs[i - 1].key = fs[i].key /\ IsField(fs[i - 1])
      /\ j - 1 \in 1..Len(fs) /\ fs[j - 1].key = fs[j].key /\ IsField(fs[j - 1])
  BY <1>2, <1>3
<1> QED
  BY <1>3, <1>4, FieldsOnce

LEMMA KeysCount ==
    ASSUME NEW fs, fs \in Seq(Frame), NEW A \in SUBSET (1..Len(fs)), IsFiniteSet(Keys),
           \A i, j \in A : i < j => fs[i].key # fs[j].key
    PROVE  IsFiniteSet(A) /\ Cardinality(A) <= Cardinality(Keys)
<1> DEFINE g == [i \in A |-> fs[i].key]
<1>1. \A i \in A : i \in Int /\ fs[i] \in Frame
  OBVIOUS
<1>2. g \in [A -> Keys]
  BY <1>1, FrameParts
<1>3. \A i, j \in A : g[i] = g[j] => i = j
  BY <1>1
<1>4. g \in Injection(A, Keys)
  BY <1>2, <1>3 DEF Injection, IsInjective
<1> HIDE DEF g
<1> QED
  BY <1>4, FS_Injection

LEMMA FramesCount ==
    ASSUME NEW t, NEW fs, Chain(t, fs), IsFiniteSet(Keys),
           \A k \in DOMAIN t.fields : ~Endlessly(t, k)
    PROVE  Len(fs) <= 2 * Cardinality(Keys) + 1
<1> DEFINE n == Len(fs)
           A == {i \in 1..n : IsField(fs[i])}
           B == {i \in 1..n : i # 1 /\ LooksBack(fs[i])}
<1>1. n \in Nat /\ fs \in Seq(Frame) /\ DOMAIN fs = 1..n
  BY DEF Chain
<1>2. IsFiniteSet(A) /\ Cardinality(A) <= Cardinality(Keys)
  <2>1. \A i, j \in A : i < j => fs[i].key # fs[j].key
    BY FieldsOnce
  <2> QED
    BY <1>1, <2>1, KeysCount
<1>3. IsFiniteSet(B) /\ Cardinality(B) <= Cardinality(Keys)
  <2>1. \A i, j \in B : i < j => fs[i].key # fs[j].key
    BY PriorsOnce
  <2> QED
    BY <1>1, <2>1, KeysCount
<1>4. 1..n \subseteq (A \cup B) \cup {1}
  <2>1. ASSUME NEW i \in 1..n PROVE IsField(fs[i]) \/ LooksBack(fs[i])
    BY <1>1, FrameParts DEF IsField, LooksBack, Kinds
  <2> QED
    BY <2>1
<1> HIDE DEF A, B
<1>5. IsFiniteSet({1}) /\ Cardinality({1}) = 1
  BY FS_Singleton
<1>6. /\ IsFiniteSet(A \cup B)
      /\ Cardinality(A \cup B) = Cardinality(A) + Cardinality(B) - Cardinality(A \cap B)
      /\ Cardinality(A \cap B) \in Nat
  <2>1. IsFiniteSet(A \cap B)
    BY <1>2, FS_Subset
  <2> QED
    BY <1>2, <1>3, <2>1, FS_Union, FS_CardinalityType
<1>7. /\ IsFiniteSet((A \cup B) \cup {1})
      /\ Cardinality((A \cup B) \cup {1}) =
             Cardinality(A \cup B) + 1 - Cardinality((A \cup B) \cap {1})
      /\ Cardinality((A \cup B) \cap {1}) \in Nat
  <2>1. IsFiniteSet((A \cup B) \cap {1})
    BY <1>6, FS_Subset
  <2> QED
    BY <1>5, <1>6, <2>1, FS_Union, FS_CardinalityType, ZenonT(40)
<1>8. Cardinality(1..n) = n
  BY <1>1, FS_Interval, SMTT(40)
<1>9. Cardinality(1..n) <= Cardinality((A \cup B) \cup {1})
  BY <1>4, <1>7, FS_Subset
<1>10. Cardinality(A) \in Nat /\ Cardinality(B) \in Nat /\ Cardinality(Keys) \in Nat
  BY <1>2, <1>3, FS_CardinalityType
<1> QED
  BY <1>1, <1>2, <1>3, <1>6, <1>7, <1>8, <1>9, <1>10

LEMMA TooDeep ==
    ASSUME NEW t, NEW fs, Chain(t, fs), Len(fs) >= MaxRecursion
    PROVE  Explained(t, "recursion")
<1>1. CASE \E k \in DOMAIN t.fields : Endlessly(t, k)
  <2>1. IsTree(t)
    BY DEF Chain
  <2> QED
    BY <1>1, <2>1, EndlessMeaningless DEF Explained
<1>2. CASE \A k \in DOMAIN t.fields : ~Endlessly(t, k)
  <2>1. ASSUME IsFiniteSet(Keys) PROVE MaxRecursion <= 2 * Cardinality(Keys) + 1
    <3>1. Len(fs) <= 2 * Cardinality(Keys) + 1
      BY <1>2, <2>1, FramesCount
    <3>2. Len(fs) \in Nat /\ MaxRecursion \in Nat /\ Cardinality(Keys) \in Nat
      BY <2>1, FS_CardinalityType, MaxRecursionAssumption DEF Chain
    <3> QED
      BY <3>1, <3>2
  <2> QED
    BY <2>1 DEF Explained
<1> QED
  BY <1>1, <1>2
-----------------------------------------------------------------------------
(* What the invariant says of the frames, and of the one that stands at a  *)
(* reference.                                                              *)
LEMMA FramesOf ==
    ASSUME MInv
    PROVE  /\ IInv /\ Chain(tree, frames) /\ IsTree(tree) /\ frames \in Seq(Frame)
           /\ Len(frames) \in Nat /\ DOMAIN frames = 1..Len(frames)
           /\ \A i \in 1..Len(frames) : FrameFits(tree, frames[i])
           /\ CalledBySelf(tree, frames) /\ FollowsOthers(tree, frames)
           /\ Fresh(frames, cache) /\ CameToNothing(tree, frames)
           /\ CacheFits(tree, frames, cache) /\ ResultsFit(tree, result, next)
           /\ Fields = DOMAIN tree.fields /\ Priors = DOMAIN tree.priors
<1>1. /\ IInv /\ frames \in Seq(Frame) /\ IsTree(tree)
      /\ Structure(tree, frames, resolving, concats)
  BY DEF MInv, IInv, TypeOK
<1>2. Len(frames) \in Nat /\ DOMAIN frames = 1..Len(frames)
  BY <1>1
<1>3. /\ \A i \in 1..Len(frames) : FrameFits(tree, frames[i])
      /\ CalledBySelf(tree, frames) /\ FollowsOthers(tree, frames)
      /\ Fresh(frames, cache) /\ CameToNothing(tree, frames)
      /\ CacheFits(tree, frames, cache) /\ ResultsFit(tree, result, next)
  BY <1>2 DEF MInv, Meanings
<1>4. Chain(tree, frames)
  BY <1>1, <1>2, <1>3 DEF Chain, Structure
<1> QED
  BY <1>1, <1>2, <1>3, <1>4 DEF Fields, Priors

LEMMA TopStands ==
    ASSUME MInv, AtPart
    PROVE  /\ Len(frames) \in 1..Len(frames) /\ Top = frames[Len(frames)]
           /\ Top \in Frame /\ OfTree(tree, Top) /\ FrameFits(tree, Top)
           /\ Top.key \in Fields /\ Top.key \in Keys
           /\ Top.at <= Len(Top.layer) /\ Ref = Top.layer[Top.at] /\ Ref \in Part
           /\ outcome = "running"
           /\ (AtReference /\ ~Ref.absent) => (Calls(Top, Ref.key) /\ Ref.key \in Keys)
<1>1. IInv /\ Waiting /\ Top.at <= Len(Top.layer)
  BY FramesOf DEF AtPart
<1>2. /\ Len(frames) \in Nat \ {0} /\ Top \in Frame /\ OfTree(tree, Top) /\ Ref \in Part
  BY <1>1, TopFrame
<1>3. Len(frames) \in 1..Len(frames) /\ Top = frames[Len(frames)]
  BY <1>2 DEF Top
<1>4. FrameFits(tree, Top)
  BY <1>3, FramesOf
<1>5. (AtReference /\ ~Ref.absent) => (Calls(Top, Ref.key) /\ Ref.key \in Keys)
  BY <1>1, <1>2, PartKinds DEF AtReference, Calls, RefersTo, Ref
<1> QED
  BY <1>1, <1>2, <1>3, <1>4, <1>5, FrameParts DEF Ref, OfTree, Fields, Waiting

(* Frames of which only the last changes, by taking a value that fits.     *)
LEMMA TakeKeepsMeanings ==
    ASSUME NEW t, IsTree(t), NEW fs \in Seq(Frame), NEW n \in Nat \ {0}, Len(fs) = n,
           \A i \in 1..n : OfTree(t, fs[i]) /\ FrameFits(t, fs[i]),
           CalledBySelf(t, fs), FollowsOthers(t, fs), CameToNothing(t, fs),
           fs[n].at <= Len(fs[n].layer), NEW v \in Value,
           \A m \in Nat : Fits(v, PartsMean(t, fs[n], m)[fs[n].at]),
           NEW gs \in Seq(Frame), Len(gs) = n, \A i \in 1..n : i # n => gs[i] = fs[i],
           gs[n] = Taken(fs[n], v)
    PROVE  /\ \A i \in DOMAIN gs : FrameFits(t, gs[i])
           /\ CalledBySelf(t, gs) /\ FollowsOthers(t, gs) /\ CameToNothing(t, gs)
           /\ gs # <<>> /\ gs[1].what = fs[1].what /\ gs[1].key = fs[1].key
           /\ fs[1].value.found => gs[1].value.found
           /\ \A i \in 1..n : gs[i].what = fs[i].what /\ gs[i].key = fs[i].key
           /\ v.found => gs[n].value.found
<1>1. n \in 1..n /\ 1 \in 1..n /\ DOMAIN gs = 1..n /\ DOMAIN fs = 1..n /\ fs[n] \in Frame
  OBVIOUS
<1>2. /\ Taken(fs[n], v).what = fs[n].what /\ Taken(fs[n], v).key = fs[n].key
      /\ Taken(fs[n], v).value = Joined(fs[n].value, v) /\ fs[n].value \in Value
  BY <1>1, TakenParts, FrameParts
<1>3. /\ fs[n].value.found => Joined(fs[n].value, v).found
      /\ v.found => Joined(fs[n].value, v).found
  BY DEF Joined, Some
<1>4. \A i \in 1..n : gs[i].what = fs[i].what /\ gs[i].key = fs[i].key
  BY <1>2
<1>5. FrameFits(t, gs[n])
  BY <1>1, TakeFits
<1>6. \A i \in 1..n : FrameFits(t, gs[i])
  BY <1>5
<1>7. CalledBySelf(t, gs)
  <2>1. \A m \in Nat : \A i \in 1..m - 1 : i \in 1..m /\ i + 1 \in 1..m
    OBVIOUS
  <2>2. \A i \in 1..n - 1 : i \in 1..n /\ i + 1 \in 1..n
    BY <2>1
  <2> QED
    BY <1>4, <2>2 DEF CalledBySelf
<1>8. FollowsOthers(t, gs)
  BY <1>1, <1>4 DEF FollowsOthers
<1>9. CameToNothing(t, gs)
  BY <1>1, <1>4 DEF CameToNothing
<1>10. (fs[1].value.found => gs[1].value.found) /\ (v.found => gs[n].value.found)
  BY <1>1, <1>2, <1>3
<1> QED
  BY <1>1, <1>4, <1>6, <1>7, <1>8, <1>9, <1>10

(* The cache stays true while the first frame stays what it is.            *)
LEMMA CacheStays ==
    ASSUME NEW t, NEW fs, NEW gs, NEW c, NEW d, CacheFits(t, fs, c),
           fs # <<>>, gs # <<>>, gs[1].what = fs[1].what, gs[1].key = fs[1].key,
           fs[1].value.found => gs[1].value.found,
           \A k \in Keys : d[k] = c[k]
               \/ (k \notin DOMAIN t.fields /\ k \in DOMAIN Environment /\ d[k] = Some(Environment[k]))
    PROVE  CacheFits(t, gs, d)
<1> SUFFICES ASSUME NEW k \in Keys, d[k].found
             PROVE  IF k \notin DOMAIN t.fields
                    THEN k \in DOMAIN Environment /\ d[k] = Some(Environment[k])
                    ELSE IF LookingBack(t, gs, k)
                    THEN /\ k \in DOMAIN t.priors /\ FitsPrior(t, d[k], k)
                         /\ gs[1].value.found \/ Endlessly(t, k)
                    ELSE FitsKey(t, d[k], k)
  BY DEF CacheFits
<1>1. LookingBack(t, gs, k) <=> LookingBack(t, fs, k)
  BY DEF LookingBack
<1>2. CASE k \notin DOMAIN t.fields /\ k \in DOMAIN Environment /\ d[k] = Some(Environment[k])
  BY <1>2
<1>3. CASE d[k] = c[k]
  BY <1>1, <1>3 DEF CacheFits
<1> QED
  BY <1>2, <1>3

(* The step of a part.                                                     *)
LEMMA TakeMeans ==
    ASSUME MInv, AtPart, NEW v \in Value, Take(v),
           UNCHANGED <<tree, resolving, concats, result, next, outcome>>, IInv',
           \A n \in Nat : Fits(v, PartsMean(tree, Top, n)[Top.at]),
           \A k \in Keys : cache'[k] = cache[k]
               \/ (k \notin Fields /\ k \in DOMAIN Environment /\ cache'[k] = Some(Environment[k]))
    PROVE  MInv'
<1> DEFINE n == Len(frames)
<1>1. /\ frames \in Seq(Frame) /\ n \in Nat \ {0} /\ n \in 1..n /\ frames[n] \in Frame
      /\ DOMAIN frames = 1..n /\ Top = frames[n] /\ frames # <<>>
  BY TopStands, FramesOf DEF AtPart, Waiting
<1>2. Taken(frames[n], v) \in Frame
  BY <1>1, TakenParts
<1>3. /\ frames' \in Seq(Frame) /\ Len(frames') = n /\ DOMAIN frames' = 1..n
      /\ \A i \in 1..n : i # n => frames'[i] = frames[i]
      /\ frames'[n] = Taken(frames[n], v)
  <2>1. frames' = [frames EXCEPT ![n] = Taken(frames[n], v)]
    BY DEF Take
  <2>2. Len(frames) = n
    OBVIOUS
  <2> HIDE DEF n
  <2> QED
    BY <1>1, <1>2, <2>1, <2>2, LastChanged
<1>4. /\ IsTree(tree) /\ \A i \in 1..n : OfTree(tree, frames[i]) /\ FrameFits(tree, frames[i])
      /\ CalledBySelf(tree, frames) /\ FollowsOthers(tree, frames)
      /\ CameToNothing(tree, frames) /\ frames[n].at <= Len(frames[n].layer)
      /\ \A m \in Nat : Fits(v, PartsMean(tree, frames[n], m)[frames[n].at])
      /\ CacheFits(tree, frames, cache) /\ Fresh(frames, cache)
      /\ ResultsFit(tree, result, next)
  <2>1. \A i \in 1..n : OfTree(tree, frames[i])
    BY FramesOf DEF Chain
  <2> QED
    BY <1>1, <2>1, FramesOf, TopStands
<1>5. /\ Len(frames) = n /\ outcome' = "running" /\ tree' = tree /\ result' = result /\ next' = next
  BY TopStands
<1>6. \A k \in Keys : cache'[k] = cache[k]
          \/ (k \notin DOMAIN tree.fields /\ k \in DOMAIN Environment
              /\ cache'[k] = Some(Environment[k]))
  BY DEF Fields
<1> HIDE DEF n
<1>7. /\ \A i \in DOMAIN frames' : FrameFits(tree, frames'[i])
      /\ CalledBySelf(tree, frames') /\ FollowsOthers(tree, frames') /\ CameToNothing(tree, frames')
      /\ frames' # <<>> /\ frames'[1].what = frames[1].what /\ frames'[1].key = frames[1].key
      /\ frames[1].value.found => frames'[1].value.found
      /\ \A i \in 1..n : frames'[i].what = frames[i].what /\ frames'[i].key = frames[i].key
  <2>1. IsTree(tree) /\ frames \in Seq(Frame) /\ n \in Nat \ {0} /\ Len(frames) = n
    BY <1>1, <1>4, <1>5
  <2>2. \A i \in 1..n : OfTree(tree, frames[i]) /\ FrameFits(tree, frames[i])
    BY <1>4
  <2>3. /\ CalledBySelf(tree, frames) /\ FollowsOthers(tree, frames)
        /\ CameToNothing(tree, frames) /\ frames[n].at <= Len(frames[n].layer)
    BY <1>4
  <2>4. \A m \in Nat : Fits(v, PartsMean(tree, frames[n], m)[frames[n].at])
    BY <1>4
  <2>5. /\ frames' \in Seq(Frame) /\ Len(frames') = n
        /\ frames'[n] = Taken(frames[n], v)
    BY <1>3
  <2>6. \A i \in 1..n : i # n => frames'[i] = frames[i]
    BY <1>3
  <2> QED
    BY <2>1, <2>2, <2>3, <2>4, <2>5, <2>6, TakeKeepsMeanings, SMTT(90)
<1>8. CacheFits(tree, frames', cache')
  BY <1>1, <1>4, <1>6, <1>7, CacheStays
<1>9. Fresh(frames', cache')
  <2> SUFFICES ASSUME NEW i \in 1..n, IsGuarded(frames'[i]) PROVE ~cache'[frames'[i].key].found
    BY <1>3 DEF Fresh
  <2>1. IsGuarded(frames[i]) /\ frames'[i].key = frames[i].key
    BY <1>7 DEF IsGuarded
  <2>2. ~cache[frames[i].key].found
    BY <1>1, <1>4, <2>1 DEF Fresh
  <2>3. frames[i].key \in DOMAIN tree.fields /\ frames[i].key \in Keys
    <3>1. frames[i] \in Frame
      BY <1>1
    <3> QED
      BY <1>4, <3>1, FrameParts DEF OfTree
  <2>4. cache'[frames[i].key] = cache[frames[i].key]
    BY <1>6, <2>3
  <2> QED
    BY <2>1, <2>2, <2>4
<1>10. Meanings(tree, frames', cache', result, next, "running")
  BY <1>4, <1>7, <1>8, <1>9 DEF Meanings
<1> QED
  BY <1>5, <1>10 DEF MInv

(* The step that raises an exception.                                      *)
LEMMA RaiseMeans ==
    ASSUME MInv, NEW why, Raise(why), IInv', Explained(tree, why)
    PROVE  MInv'
BY DEF MInv, Meanings, Raise

(* A reference that nothing provides, or that belongs to a circle.         *)
LEMMA UnprovidedMeans ==
    ASSUME MInv, AtReference, NEW why, Unprovided(why), IInv',
           \A n \in Nat : PartsMean(tree, Top, n)[Top.at] = NoProvider(Ref)
                          \/ PartsMean(tree, Top, n)[Top.at].why = "endless"
    PROVE  MInv'
<1>1. AtPart /\ IsReference(Ref) /\ Ref \in Part
  BY TopStands DEF AtReference
<1>2. CASE Ref.optional
  <2>1. Nothing \in Value
    BY MeaningTypes
  <2>2. NoProvider(Ref) = Good(Nothing)
    BY <1>1, <1>2, NoProviderType
  <2>3. \A n \in Nat : Fits(Nothing, PartsMean(tree, Top, n)[Top.at])
    <3>1. Good(Nothing).why # "missing" /\ Good(Nothing).value = Nothing
      BY DEF Good
    <3> QED
      BY <2>2, <3>1 DEF Fits, IsGood
  <2>4. Take(Nothing) /\ UNCHANGED <<tree, cache, resolving, concats, result, next, outcome>>
    BY <1>2 DEF Unprovided
  <2> QED
    BY <1>1, <2>1, <2>3, <2>4, TakeMeans
<1>3. CASE ~Ref.optional
  <2>1. Raise(why)
    BY <1>3 DEF Unprovided
  <2>2. \A n \in Nat : ~IsGood(PartsMean(tree, Top, n)[Top.at])
    <3>1. NoProvider(Ref) = Missing /\ ~IsGood(Missing)
      BY <1>1, <1>3, NoProviderType, MeaningTypes
    <3> QED
      BY <3>1 DEF IsGood
  <2>3. Meaningless(tree, Top.key) /\ Top.key \in DOMAIN tree.fields
    <3>1. /\ Chain(tree, frames) /\ CameToNothing(tree, frames)
          /\ Len(frames) \in 1..Len(frames) /\ Top = frames[Len(frames)]
          /\ Top.at <= Len(Top.layer) /\ Top.key \in DOMAIN tree.fields
      BY <1>1, FramesOf, TopStands
    <3> DEFINE i == Len(frames)
    <3>2. i \in 1..Len(frames) /\ Top = frames[i]
      BY <3>1
    <3> HIDE DEF i
    <3> QED
      BY <2>2, <3>1, <3>2, BadPart
  <2>4. Explained(tree, why)
    BY <2>3 DEF Explained
  <2> QED
    BY <2>1, <2>4, RaiseMeans
<1> QED
  BY <1>2, <1>3

(* The step that calls the layer of a key.                                 *)
LEMMA CallMeans ==
    ASSUME MInv, AtReference, ~Ref.absent, Ref.key \in Fields, IInv',
           NEW what \in {"found", "lookback", "cycle"}, NEW layer, NEW guards, NEW joining,
           Call(what, layer, guards, joining),
           what = "found" => layer = tree.fields[Ref.key],
           what # "found" => Ref.key \in Priors /\ layer = tree.priors[Ref.key],
           what # "found" => (Top.key = Ref.key \/ Endlessly(tree, Ref.key)),
           what = "found" => (Ref.key = Owner => ~LooksAtSelf(tree, Ref.key)),
           ~cache[Ref.key].found
    PROVE  MInv'
<1> DEFINE f == Evaluating(what, Ref.key, layer)
           n == Len(frames)
           gs == Append(frames, f)
<1>1. /\ AtPart /\ TypeOK /\ IsTree(tree) /\ frames \in Seq(Frame) /\ n \in Nat \ {0}
      /\ n \in 1..n /\ 1 \in 1..n /\ Top = frames[n] /\ outcome = "running"
      /\ DOMAIN frames = 1..n /\ frames # <<>>
  <2>1. AtPart /\ frames # <<>>
    BY DEF AtReference, AtPart, Waiting
  <2>2. /\ IInv /\ IsTree(tree) /\ frames \in Seq(Frame) /\ DOMAIN frames = 1..n
    BY FramesOf
  <2>3. n \in Nat \ {0}
    BY <2>1, <2>2
  <2> QED
    BY <2>1, <2>2, <2>3, TopStands DEF IInv
<1>2. CASE Raise("recursion") /\ n >= MaxRecursion
  <2>1. Explained(tree, "recursion")
    BY <1>2, FramesOf, TooDeep
  <2> QED
    BY <1>2, <2>1, RaiseMeans
<1>3. CASE frames' = gs /\ UNCHANGED <<tree, cache, result, next, outcome>>
  <2>1. f \in Frame /\ OfTree(tree, f)
    BY <1>1, CalledFrame DEF Kinds
  <2>2. f.what = what /\ f.key = Ref.key /\ f.at = 1 /\ f.value = Nothing
    BY DEF Evaluating
  <2> HIDE DEF f
  <2>3. /\ gs \in Seq(Frame) /\ Len(gs) = n + 1 /\ DOMAIN gs = 1..n + 1
        /\ \A i \in 1..n : gs[i] = frames[i]
        /\ gs[n + 1] = f /\ gs[1] = frames[1] /\ gs # <<>>
    BY <1>1, <2>1
  <2>4. \A i \in 1..n + 1 : i \in 1..n \/ i = n + 1
    BY <1>1
  <2>a. \A i \in 1..(n + 1) - 1 : i \in 1..n - 1 \/ i = n
    <3>1. \A m \in Nat \ {0} : \A i \in 1..(m + 1) - 1 : i \in 1..m - 1 \/ i = m
      OBVIOUS
    <3> QED
      BY <1>1, <3>1
  <2>b. \A i \in 1..n - 1 : i \in 1..n /\ i + 1 \in 1..n
    BY <1>1
  <2> HIDE DEF gs, n
  <2>5. \A i \in DOMAIN gs : FrameFits(tree, gs[i])
    <3>1. FrameFits(tree, f)
      BY <1>1, <2>1, <2>2, BeginFits
    <3>2. \A i \in 1..n : FrameFits(tree, frames[i])
      BY FramesOf DEF n
    <3> QED
      BY <2>3, <2>4, <3>1, <3>2
  <2>6. CalledBySelf(tree, gs)
    <3> SUFFICES ASSUME NEW i \in 1..(n + 1) - 1, gs[i + 1].what \in {"lookback", "cycle"}
                 PROVE  gs[i].key = gs[i + 1].key \/ Endlessly(tree, gs[i + 1].key)
      BY <2>3 DEF CalledBySelf
    <3>1. CASE i \in 1..n - 1
      <4>1. CalledBySelf(tree, frames)
        BY FramesOf
      <4> QED
        BY <2>3, <2>b, <3>1, <4>1 DEF CalledBySelf, n
    <3>2. CASE i = n
      <4>1. gs[i + 1] = f /\ gs[i] = Top
        BY <1>1, <2>3, <3>2
      <4> QED
        BY <2>2, <4>1
    <3> QED
      BY <2>a, <3>1, <3>2
  <2>7. FollowsOthers(tree, gs)
    <3>1. FollowsOthers(tree, frames)
      BY FramesOf
    <3> SUFFICES ASSUME NEW i \in 1..n + 1, gs[i].what = "found", gs[i].key = gs[1].key
                 PROVE  ~LooksAtSelf(tree, gs[i].key)
      BY <2>3 DEF FollowsOthers
    <3>2. CASE i \in 1..n
      BY <1>1, <2>3, <3>1, <3>2 DEF FollowsOthers
    <3>3. CASE i = n + 1
      BY <2>2, <2>3, <3>3 DEF Owner
    <3> QED
      BY <2>4, <3>2, <3>3
  <2>8. Fresh(gs, cache)
    <3>1. Fresh(frames, cache)
      BY FramesOf
    <3> SUFFICES ASSUME NEW i \in 1..n + 1, IsGuarded(gs[i]) PROVE ~cache[gs[i].key].found
      BY <2>3 DEF Fresh
    <3>2. CASE i \in 1..n
      BY <1>1, <2>3, <3>1, <3>2 DEF Fresh
    <3>3. CASE i = n + 1
      BY <2>2, <2>3, <3>3
    <3> QED
      BY <2>4, <3>2, <3>3
  <2>9. CameToNothing(tree, gs)
    <3>1. CameToNothing(tree, frames)
      BY FramesOf
    <3> QED
      BY <1>1, <2>3, <3>1 DEF CameToNothing
  <2>10. CacheFits(tree, gs, cache)
    <3>1. CacheFits(tree, frames, cache)
      BY FramesOf
    <3>2. \A k \in Keys : LookingBack(tree, gs, k) <=> LookingBack(tree, frames, k)
      BY <1>1, <2>3 DEF LookingBack
    <3> QED
      BY <2>3, <3>1, <3>2 DEF CacheFits
  <2>11. Meanings(tree, gs, cache, result, next, "running")
    <3>1. ResultsFit(tree, result, next)
      BY FramesOf
    <3> QED
      BY <2>5, <2>6, <2>7, <2>8, <2>9, <2>10, <3>1 DEF Meanings
  <2>12. /\ tree' = tree /\ frames' = gs /\ cache' = cache /\ result' = result /\ next' = next
         /\ outcome' = "running"
    BY <1>1, <1>3
  <2> QED
    BY <2>11, <2>12 DEF MInv
<1> QED
  BY <1>2, <1>3 DEF Call
-----------------------------------------------------------------------------
(* The steps at a part.  Texts, references that lead nowhere and those to  *)
(* the environment mean what they mean anywhere.                           *)
LEMMA TakeTextMeans == MInv /\ TakeText => MInv'
<1> SUFFICES ASSUME MInv, TakeText PROVE MInv'
  OBVIOUS
<1>1. /\ AtPart /\ ~IsReference(Ref) /\ Take(Some(Ref.text))
      /\ UNCHANGED <<tree, cache, resolving, concats, result, next, outcome>>
  BY DEF TakeText
<1>2. /\ Top \in Frame /\ OfTree(tree, Top) /\ Top.at <= Len(Top.layer)
      /\ Ref = Top.layer[Top.at] /\ Ref \in Part /\ IsTree(tree)
  BY <1>1, TopStands, FramesOf
<1>3. Some(Ref.text) \in Value
  BY <1>1, <1>2, PartKinds DEF Some, Value
<1>4. \A n \in Nat : Fits(Some(Ref.text), PartsMean(tree, Top, n)[Top.at])
  <2> TAKE n \in Nat
  <2>1. ~RefersTo(Top.layer[Top.at], Top.key)
    BY <1>1, <1>2 DEF RefersTo
  <2>2. PartsMean(tree, Top, n)[Top.at] = Good(Some(Ref.text))
    BY <1>1, <1>2, <2>1, MeansPlain DEF PlainMeaning
  <2> QED
    BY <2>2 DEF Fits, Good, IsGood
<1>5. IInv'
  BY TakeTextInv, FramesOf
<1> QED
  BY <1>1, <1>3, <1>4, <1>5, TakeMeans

LEMMA KnownAbsentMeans == MInv /\ KnownAbsent => MInv'
<1> SUFFICES ASSUME MInv, KnownAbsent PROVE MInv'
  OBVIOUS
<1>1. AtReference /\ AtPart /\ Ref.absent /\ Unprovided("could not resolve")
  BY DEF KnownAbsent, AtReference
<1>2. /\ Top \in Frame /\ OfTree(tree, Top) /\ Top.at <= Len(Top.layer)
      /\ Ref = Top.layer[Top.at] /\ IsTree(tree) /\ IsReference(Ref)
  BY <1>1, TopStands, FramesOf DEF AtReference
<1>3. \A n \in Nat : PartsMean(tree, Top, n)[Top.at] = NoProvider(Ref)
  <2> TAKE n \in Nat
  <2>1. ~RefersTo(Top.layer[Top.at], Top.key)
    BY <1>1, <1>2 DEF RefersTo
  <2> QED
    BY <1>1, <1>2, <2>1, MeansPlain DEF PlainMeaning
<1>4. IInv'
  BY KnownAbsentInv, FramesOf
<1> QED
  BY <1>1, <1>3, <1>4, UnprovidedMeans

LEMMA FromEnvironmentMeans == MInv /\ FromEnvironment => MInv'
<1> SUFFICES ASSUME MInv, FromEnvironment PROVE MInv'
  OBVIOUS
<1>1. AtReference /\ AtPart /\ ~Ref.absent /\ Ref.key \notin Fields
  BY DEF FromEnvironment, Unguarded, Uncached, AtReference
<1>2. /\ Top \in Frame /\ OfTree(tree, Top) /\ Top.at <= Len(Top.layer) /\ Top.key \in Fields
      /\ Ref = Top.layer[Top.at] /\ IsTree(tree) /\ IsReference(Ref) /\ Ref.key \in Keys
  BY <1>1, TopStands, FramesOf DEF AtReference
<1>3. ~RefersTo(Top.layer[Top.at], Top.key)
  BY <1>1, <1>2 DEF RefersTo
<1>4. \A n \in Nat : PartsMean(tree, Top, n)[Top.at] =
          IF Ref.key \in DOMAIN Environment THEN Good(Some(Environment[Ref.key]))
          ELSE NoProvider(Ref)
  BY <1>1, <1>2, <1>3, MeansPlain DEF PlainMeaning, Fields
<1>5. IInv'
  BY FromEnvironmentInv, FramesOf
<1> DEFINE v == Some(Environment[Ref.key])
<1>6. CASE /\ Ref.key \in DOMAIN Environment
           /\ Take(v) /\ cache' = Remembered(Ref.key, v)
           /\ UNCHANGED <<tree, resolving, concats, result, next, outcome>>
  <2>1. v \in Value
    BY <1>6, EnvironmentAssumption DEF Some, Value
  <2>2. \A n \in Nat : Fits(v, PartsMean(tree, Top, n)[Top.at])
    BY <1>4, <1>6 DEF Fits, Good, IsGood
  <2>3. \A k \in Keys : cache'[k] = cache[k]
            \/ (k \notin Fields /\ k \in DOMAIN Environment /\ cache'[k] = Some(Environment[k]))
    <3>1. cache \in [Keys -> Value]
      BY FramesOf DEF IInv, TypeOK
    <3> QED
      BY <1>1, <1>6, <3>1 DEF Remembered
  <2> HIDE DEF v
  <2> QED
    BY <1>1, <1>5, <1>6, <2>1, <2>2, <2>3, TakeMeans
<1>7. CASE Ref.key \notin DOMAIN Environment /\ Unprovided("could not resolve")
  BY <1>1, <1>4, <1>5, <1>7, UnprovidedMeans
<1> QED
  BY <1>6, <1>7 DEF FromEnvironment

(* A reference to a key among the frames, or to the field in turn, that    *)
(* stands in another layer closes a circle.                                *)
LEMMA ReachesFrame ==
    ASSUME MInv, AtReference, ~Ref.absent, Ref.key # Top.key,
           NEW i \in 1..Len(frames), frames[i].key = Ref.key, Passes(tree, frames[i])
    PROVE  Endlessly(tree, Ref.key)
<1>1. /\ Chain(tree, frames) /\ Len(frames) \in 1..Len(frames) /\ Top = frames[Len(frames)]
      /\ Calls(Top, Ref.key) /\ i <= Len(frames)
  BY FramesOf, TopStands DEF AtReference
<1>2. PICK q \in 1..Len(frames) : q = Len(frames)
  BY <1>1
<1> QED
  BY <1>1, <1>2, Circle

LEMMA CachedMeans == MInv /\ Cached => MInv'
<1> SUFFICES ASSUME MInv, Cached PROVE MInv'
  OBVIOUS
<1> DEFINE r == Ref.key
           v == cache[r]
<1>1. /\ AtReference /\ AtPart /\ ~Ref.absent /\ v.found /\ Take(v)
      /\ UNCHANGED <<tree, cache, resolving, concats, result, next, outcome>>
  BY DEF Cached, AtReference
<1>2. /\ Top \in Frame /\ OfTree(tree, Top) /\ Top.at <= Len(Top.layer) /\ Top.key \in DOMAIN tree.fields
      /\ Ref = Top.layer[Top.at] /\ IsTree(tree) /\ IsReference(Ref) /\ r \in Keys
      /\ Calls(Top, r) /\ Len(frames) \in 1..Len(frames) /\ Top = frames[Len(frames)]
  BY <1>1, TopStands, FramesOf DEF AtReference
<1>3. /\ IF r \notin DOMAIN tree.fields THEN r \in DOMAIN Environment /\ v = Some(Environment[r])
         ELSE IF LookingBack(tree, frames, r) THEN r \in DOMAIN tree.priors /\ FitsPrior(tree, v, r)
         ELSE FitsKey(tree, v, r)
  <2>1. CacheFits(tree, frames, cache)
    BY FramesOf
  <2> QED
    BY <1>1, <1>2, <2>1 DEF CacheFits
<1>4. v \in Value
  BY <1>2, FramesOf DEF IInv, TypeOK
<1>5. IInv'
  BY CachedInv, FramesOf
<1> HIDE DEF v
<1>6. \A n \in Nat : Fits(v, PartsMean(tree, Top, n)[Top.at])
  <2> TAKE n \in Nat
  <2>1. CASE r \notin DOMAIN tree.fields
    <3>1. ~RefersTo(Top.layer[Top.at], Top.key)
      BY <1>2, <2>1 DEF RefersTo
    <3>2. PartsMean(tree, Top, n)[Top.at] = Good(v)
      <4>1. PartsMean(tree, Top, n)[Top.at] = PlainMeaning(tree, Top.layer[Top.at], Levels(tree)[n])
        BY <1>2, <3>1, MeansPlain
      <4>2. PlainMeaning(tree, Ref, Levels(tree)[n]) = Good(v)
        BY <1>1, <1>2, <1>3, <2>1 DEF PlainMeaning
      <4> QED
        BY <1>2, <4>1, <4>2
    <3> QED
      BY <3>2 DEF Fits, Good, IsGood
  <2>2. CASE r \in DOMAIN tree.fields /\ r # Top.key
    <3>1. FitsKey(tree, v, r)
      <4>1. CASE LookingBack(tree, frames, r)
        <5>1. /\ 1 \in 1..Len(frames) /\ frames[1].key = r /\ Passes(tree, frames[1])
          BY <1>2, <4>1 DEF LookingBack, Passes
        <5>2. Endlessly(tree, r)
          BY <1>1, <2>2, <5>1, ReachesFrame
        <5> QED
          BY <5>2, EndlessFits
      <4>2. CASE ~LookingBack(tree, frames, r)
        BY <1>3, <2>2, <4>2
      <4> QED
        BY <4>1, <4>2
    <3> QED
      BY <1>2, <2>2, <3>1, OtherFits
  <2>3. CASE r = Top.key
    <3>1. IsField(Top) /\ LooksAtSelf(tree, r)
      BY <1>2, <2>3, SelfCall
    <3>2. ~IsGuarded(Top)
      <4>1. Fresh(frames, cache) /\ DOMAIN frames = 1..Len(frames)
        BY FramesOf
      <4> QED
        BY <1>1, <1>2, <2>3, <4>1 DEF Fresh, v
    <3>3. Top.what = "field"
      BY <3>1, <3>2 DEF IsField, IsGuarded
    <3>4. Len(frames) = 1 /\ frames # <<>>
      <4>1. Chain(tree, frames) /\ IsBottom(Top)
        BY <3>3, FramesOf DEF IsBottom
      <4>2. IsBottom(frames[Len(frames)]) <=> Len(frames) = 1
        BY <1>2, <4>1, ChainFrame
      <4> QED
        BY <1>2, <4>1, <4>2
    <3>5. LookingBack(tree, frames, r)
      BY <1>2, <2>3, <3>1, <3>3, <3>4 DEF LookingBack
    <3>6. Calls(Top, Top.key)
      BY <1>2, <2>3
    <3>7. Top.key \in DOMAIN tree.priors /\ FitsPrior(tree, v, Top.key)
      BY <1>2, <1>3, <2>3, <3>5
    <3> QED
      BY <1>2, <1>3, <3>6, <3>7, OwnFits
  <2> QED
    BY <2>1, <2>2, <2>3
<1> QED
  BY <1>1, <1>4, <1>5, <1>6, TakeMeans

(* What every reference to a field says of the frame it stands in.         *)
LEMMA ReferenceStands ==
    ASSUME MInv, AtReference, ~Ref.absent, Ref.key \in Fields
    PROVE  /\ IInv /\ AtPart /\ Top \in Frame /\ OfTree(tree, Top) /\ IsTree(tree)
           /\ Ref.key \in DOMAIN tree.fields /\ Calls(Top, Ref.key) /\ IsReference(Ref)
           /\ Ref = Top.layer[Top.at] /\ Len(frames) \in 1..Len(frames)
           /\ Top = frames[Len(frames)] /\ DOMAIN frames = 1..Len(frames)
           /\ Fields = DOMAIN tree.fields /\ Priors = DOMAIN tree.priors
BY FramesOf, TopStands DEF AtReference

(* Without a prior there is nothing to look back at.                       *)
LEMMA NoPriorMeans ==
    ASSUME MInv, AtReference, ~Ref.absent, Ref.key \in Fields, Ref.key \notin Priors, IInv',
           Top.key = Ref.key \/ Endlessly(tree, Ref.key), NEW why, Unprovided(why)
    PROVE  MInv'
<1>1. /\ Top \in Frame /\ OfTree(tree, Top) /\ IsTree(tree) /\ Ref.key \in DOMAIN tree.fields
      /\ Calls(Top, Ref.key) /\ Ref = Top.layer[Top.at] /\ Ref.key \notin DOMAIN tree.priors
  BY ReferenceStands
<1>2. ASSUME NEW n \in Nat
      PROVE  PartsMean(tree, Top, n)[Top.at] = NoProvider(Ref)
             \/ PartsMean(tree, Top, n)[Top.at].why = "endless"
  <2>1. CASE Top.key = Ref.key
    BY <1>1, <2>1, MeansOwn
  <2>2. CASE Top.key # Ref.key
    <3>1. PartsMean(tree, Top, n)[Top.at] = Demanded(Ref, Level(tree, Ref.key, n))
      BY <1>1, <2>2, MeansOther
    <3>2. Level(tree, Ref.key, n) \in Meaning
      BY <1>1, LevelsSteps DEF LevelOf, Level
    <3> QED
      BY <2>2, <3>1, <3>2, DemandedParts DEF Endlessly
  <2> QED
    BY <2>1, <2>2
<1> QED
  BY <1>2, UnprovidedMeans

LEMMA CycleMeans == MInv /\ Cycle => MInv'
<1> SUFFICES ASSUME MInv, Cycle PROVE MInv'
  OBVIOUS
<1>1. /\ AtReference /\ ~Ref.absent /\ ~cache[Ref.key].found /\ Ref.key \in resolving
  BY DEF Cycle, Uncached
<1>2. PICK i \in 1..Len(frames) : IsGuarded(frames[i]) /\ frames[i].key = Ref.key
  BY <1>1, GuardAndMarks, FramesOf
<1>3. Passes(tree, frames[i]) /\ Ref.key \in Fields
  <2>1. i # 1 /\ frames[i].key \in DOMAIN tree.fields
    <3>1. Chain(tree, frames) /\ ~IsBottom(frames[i])
      BY <1>2, FramesOf DEF IsBottom, IsGuarded
    <3> QED
      BY <3>1, ChainFrame
  <2> QED
    BY <1>2, <2>1, FramesOf, FramesPass
<1>4. Top.key = Ref.key \/ Endlessly(tree, Ref.key)
  BY <1>1, <1>2, <1>3, ReachesFrame
<1>5. IInv'
  BY CycleInv, FramesOf
<1>6. CASE Ref.key \in Priors /\ Call("cycle", tree.priors[Ref.key], resolving, concats)
  BY <1>1, <1>3, <1>4, <1>5, <1>6, CallMeans
<1>7. CASE Ref.key \notin Priors /\ Unprovided("circular")
  BY <1>1, <1>3, <1>4, <1>5, <1>7, NoPriorMeans
<1> QED
  BY <1>6, <1>7 DEF Cycle

(* A lookback that its own field does not call is in a circle: either the  *)
(* field is the first frame, or it fell back and looks at itself, because  *)
(* no concatenation of its key is being joined.                            *)
LEMMA LookBackMeans == MInv /\ LookBack => MInv'
<1> SUFFICES ASSUME MInv, LookBack PROVE MInv'
  OBVIOUS
<1>1. /\ AtReference /\ ~Ref.absent /\ ~cache[Ref.key].found /\ Unguarded /\ Ref.key \in Fields
      /\ IsSelfRef(Ref.key) /\ Ref.key \notin resolving
  BY DEF LookBack, Unguarded, Uncached
<1>2. IInv /\ 1 \in 1..Len(frames) /\ frames[1].key = Ref.key /\ DOMAIN frames = 1..Len(frames)
      /\ IsTree(tree) /\ Chain(tree, frames) /\ Len(frames) \in 1..Len(frames)
  <2>1. IInv /\ Len(frames) \in 1..Len(frames) /\ IsTree(tree) /\ Chain(tree, frames)
        /\ DOMAIN frames = 1..Len(frames)
    BY <1>1, ReferenceStands, FramesOf
  <2> QED
    BY <1>1, <2>1, WhoLooksBack DEF Owner
<1>3. Passes(tree, frames[1])
  <2>1. IsBottom(frames[1]) /\ frames[1] \in Frame
    BY <1>2, ChainFrame
  <2>2. CASE frames[1].what = "field"
    BY <2>2 DEF Passes, IsField
  <2>3. CASE frames[1].what = "fallback"
    <3>1. Ref.key \notin concats
      <4> SUFFICES ASSUME Ref.key \in concats PROVE FALSE
        OBVIOUS
      <4>1. PICK i \in DOMAIN frames : IsJoiner(frames[i]) /\ frames[i].key = Ref.key
        BY <1>2, GuardAndMarks
      <4>2. ~IsGuarded(frames[i])
        BY <1>1, <1>2, <4>1, GuardAndMarks
      <4>3. IsBottom(frames[i])
        BY <4>1, <4>2 DEF IsJoiner, IsField, IsGuarded, IsBottom
      <4>4. i = 1
        BY <1>2, <4>3, GuardAndMarks
      <4> QED
        BY <2>3, <4>1, <4>4 DEF IsJoiner, IsField
    <3>2. LooksAtSelf(tree, Ref.key)
      BY <1>1, <3>1 DEF IsSelfRef, LooksAtSelf
    <3> QED
      BY <1>2, <3>2 DEF Passes
  <2> QED
    BY <2>1, <2>2, <2>3 DEF IsBottom
<1>4. Top.key = Ref.key \/ Endlessly(tree, Ref.key)
  BY <1>1, <1>2, <1>3, ReachesFrame
<1>5. IInv'
  BY LookBackInv, FramesOf
<1>6. CASE /\ Ref.key \in Priors
           /\ Call("lookback", tree.priors[Ref.key], resolving \cup {Ref.key}, concats)
  BY <1>1, <1>4, <1>5, <1>6, CallMeans
<1>7. CASE Ref.key \notin Priors /\ Unprovided("could not resolve")
  BY <1>1, <1>4, <1>5, <1>7, NoPriorMeans
<1> QED
  BY <1>6, <1>7 DEF LookBack

LEMMA FollowMeans == MInv /\ Follow => MInv'
<1> SUFFICES ASSUME MInv, Follow PROVE MInv'
  OBVIOUS
<1>1. /\ AtReference /\ ~Ref.absent /\ ~cache[Ref.key].found /\ Ref.key \in Fields
      /\ ~IsSelfRef(Ref.key)
      /\ Call("found", tree.fields[Ref.key], resolving \cup {Ref.key}, Joining(Ref.key))
  BY DEF Follow, Unguarded, Uncached
<1>2. Ref.key = Owner => ~LooksAtSelf(tree, Ref.key)
  BY <1>1 DEF IsSelfRef, LooksAtSelf
<1>3. IInv'
  BY FollowInv, FramesOf
<1> QED
  BY <1>1, <1>2, <1>3, CallMeans
-----------------------------------------------------------------------------
(* A referenced layer is done: what its frame, and the one that called it, *)
(* are.                                                                    *)
LEMMA CallerStands ==
    ASSUME MInv, AtEnd, ~IsBottom(Top)
    PROVE  \E n \in Nat \ {0} :
               /\ Len(frames) = n + 1 /\ DOMAIN frames = 1..n + 1
               /\ n \in 1..Len(frames) /\ n + 1 \in 1..Len(frames)
               /\ n \in 1..n /\ 1 \in 1..n
               /\ Top = frames[n + 1] /\ Top \in Frame /\ OfTree(tree, Top) /\ FrameFits(tree, Top)
               /\ Top.at > Len(Top.layer) /\ Top.key \in DOMAIN tree.fields /\ Top.key \in Keys
               /\ Top.value \in Value
               /\ frames[n] \in Frame /\ OfTree(tree, frames[n]) /\ Calls(frames[n], Top.key)
               /\ Top.what = "found" => frames[n].key # Top.key
               /\ LooksBack(Top) => (frames[n].key = Top.key \/ Endlessly(tree, Top.key))
               /\ IsTree(tree) /\ frames \in Seq(Frame) /\ frames # <<>> /\ outcome = "running"
<1>1. /\ Chain(tree, frames) /\ frames \in Seq(Frame) /\ IsTree(tree) /\ IInv
      /\ frames # <<>> /\ outcome = "running" /\ Top.at > Len(Top.layer)
      /\ Top = frames[Len(frames)]
  BY FramesOf DEF AtEnd, Waiting, Top
<1>2. Len(frames) \in Nat \ {0} /\ Len(frames) \in 1..Len(frames)
  BY <1>1
<1>3. Len(frames) # 1
  <2>1. IsBottom(frames[Len(frames)]) <=> Len(frames) = 1
    BY <1>1, <1>2, ChainFrame
  <2> QED
    BY <1>1, <2>1
<1>4. PICK n \in Nat \ {0} : Len(frames) = n + 1
  <2>1. Len(frames) - 1 \in Nat \ {0} /\ Len(frames) = (Len(frames) - 1) + 1
    BY <1>2, <1>3
  <2> QED
    BY <2>1
<1>5. /\ n \in 1..Len(frames) /\ n + 1 \in 1..Len(frames) /\ n \in 1..n /\ 1 \in 1..n
      /\ n + 1 # 1 /\ (n + 1) - 1 = n /\ DOMAIN frames = 1..n + 1
  BY <1>1, <1>4
<1>6. Top = frames[n + 1]
  BY <1>1, <1>4
<1>7. /\ frames[n + 1] \in Frame /\ OfTree(tree, frames[n + 1])
      /\ Calls(frames[(n + 1) - 1], frames[n + 1].key)
      /\ frames[n + 1].what = "found" => frames[(n + 1) - 1].key # frames[n + 1].key
      /\ LooksBack(frames[n + 1]) =>
             (frames[(n + 1) - 1].key = frames[n + 1].key \/ Endlessly(tree, frames[n + 1].key))
  <2> DEFINE i == n + 1
  <2>1. i \in 1..Len(frames) /\ i # 1
    BY <1>5
  <2> HIDE DEF i
  <2>2. /\ frames[i] \in Frame /\ OfTree(tree, frames[i])
        /\ Calls(frames[i - 1], frames[i].key)
        /\ frames[i].what = "found" => frames[i - 1].key # frames[i].key
        /\ LooksBack(frames[i]) => (frames[i - 1].key = frames[i].key \/ Endlessly(tree, frames[i].key))
    BY <1>1, <2>1, ChainFrame
  <2> QED
    BY <2>2 DEF i
<1>8. frames[n] \in Frame /\ OfTree(tree, frames[n])
  BY <1>1, <1>5, ChainFrame
<1>9. FrameFits(tree, frames[n + 1])
  BY <1>5, FramesOf
<1>10. Top.key \in DOMAIN tree.fields /\ Top.key \in Keys /\ Top.value \in Value
  BY <1>6, <1>7, FrameParts DEF OfTree
<1>11. /\ Calls(frames[n], Top.key)
       /\ Top.what = "found" => frames[n].key # Top.key
       /\ LooksBack(Top) => (frames[n].key = Top.key \/ Endlessly(tree, Top.key))
       /\ Top \in Frame /\ OfTree(tree, Top) /\ FrameFits(tree, Top)
  BY <1>5, <1>6, <1>7, <1>9
<1> QED
  BY <1>1, <1>4, <1>5, <1>6, <1>8, <1>10, <1>11

LEMMA BackMeans ==
    ASSUME MInv, AtEnd, ~IsBottom(Top), Back(Top.value),
           NEW n \in Nat \ {0}, Len(frames) = n + 1,
           \A m \in Nat : Fits(Top.value, PartsMean(tree, frames[n], m)[frames[n].at])
    PROVE  /\ DOMAIN frames' = 1..n /\ Len(frames') = n /\ frames' # <<>>
           /\ \A i \in DOMAIN frames' : FrameFits(tree, frames'[i])
           /\ CalledBySelf(tree, frames') /\ FollowsOthers(tree, frames')
           /\ CameToNothing(tree, frames')
           /\ frames'[1].what = frames[1].what /\ frames'[1].key = frames[1].key
           /\ frames[1].value.found => frames'[1].value.found
           /\ \A i \in 1..n : frames'[i].what = frames[i].what /\ frames'[i].key = frames[i].key
           /\ Top.value.found => frames'[n].value.found
<1> DEFINE fs == [i \in 1..n |-> frames[i]]
           v == Top.value
<1>1. /\ DOMAIN frames = 1..n + 1 /\ n \in 1..n /\ 1 \in 1..n /\ IsTree(tree)
      /\ v \in Value /\ frames[n] \in Frame /\ Calls(frames[n], Top.key)
      /\ frames \in Seq(Frame) /\ frames # <<>>
  BY CallerStands
<1>2. /\ fs \in Seq(Frame) /\ Len(fs) = n /\ DOMAIN fs = 1..n
      /\ \A i \in 1..n : fs[i] = frames[i] /\ frames[i] \in Frame
  BY <1>1
<1>3. Taken(frames[n], v) \in Frame
  BY <1>1, TakenParts
<1>4. frames' = [i \in 1..n |-> IF i = n THEN Taken(frames[i], v) ELSE frames[i]]
  <2>1. Len(frames) - 1 = n
    OBVIOUS
  <2> QED
    BY <2>1 DEF Back
<1>5. /\ frames' \in Seq(Frame) /\ Len(frames') = n /\ DOMAIN frames' = 1..n
      /\ frames'[n] = Taken(fs[n], v)
  BY <1>1, <1>2, <1>3, <1>4, SMTT(40)
<1>6. \A i \in 1..n : i # n => frames'[i] = fs[i]
  BY <1>2, <1>4
<1> HIDE DEF fs, v
<1>7. \A i \in 1..n : OfTree(tree, fs[i]) /\ FrameFits(tree, fs[i])
  <2>1. \A i \in 1..n + 1 : OfTree(tree, frames[i]) /\ FrameFits(tree, frames[i])
    BY FramesOf DEF Chain
  <2>2. \A i \in 1..n : i \in 1..n + 1
    OBVIOUS
  <2> QED
    BY <1>2, <2>1, <2>2
<1>8. CalledBySelf(tree, fs) /\ FollowsOthers(tree, fs) /\ CameToNothing(tree, fs)
  <2>1. CalledBySelf(tree, frames) /\ FollowsOthers(tree, frames) /\ CameToNothing(tree, frames)
    BY FramesOf
  <2>2. \A i \in 1..n - 1 : i \in 1..(n + 1) - 1 /\ i \in 1..n /\ i + 1 \in 1..n
    OBVIOUS
  <2>3. \A i \in 1..n : i \in 1..n + 1
    OBVIOUS
  <2>4. CalledBySelf(tree, fs)
    BY <1>2, <2>1, <2>2 DEF CalledBySelf
  <2>5. FollowsOthers(tree, fs)
    BY <1>1, <1>2, <2>1, <2>3 DEF FollowsOthers
  <2>6. CameToNothing(tree, fs)
    BY <1>1, <1>2, <2>1 DEF CameToNothing
  <2> QED
    BY <2>4, <2>5, <2>6
<1>9. /\ fs[n].at <= Len(fs[n].layer)
      /\ \A m \in Nat : Fits(v, PartsMean(tree, fs[n], m)[fs[n].at])
  BY <1>1, <1>2 DEF Calls, v
<1>10. /\ \A i \in DOMAIN frames' : FrameFits(tree, frames'[i])
       /\ CalledBySelf(tree, frames') /\ FollowsOthers(tree, frames')
       /\ CameToNothing(tree, frames')
       /\ frames' # <<>> /\ frames'[1].what = fs[1].what /\ frames'[1].key = fs[1].key
       /\ fs[1].value.found => frames'[1].value.found
       /\ \A i \in 1..n : frames'[i].what = fs[i].what /\ frames'[i].key = fs[i].key
       /\ v.found => frames'[n].value.found
  <2>1. IsTree(tree) /\ fs \in Seq(Frame) /\ Len(fs) = n /\ v \in Value
    BY <1>1, <1>2
  <2>2. frames' \in Seq(Frame) /\ Len(frames') = n /\ frames'[n] = Taken(fs[n], v)
    BY <1>5
  <2> QED
    BY <1>6, <1>7, <1>8, <1>9, <2>1, <2>2, TakeKeepsMeanings, SMTT(90)
<1> QED
  BY <1>1, <1>2, <1>5, <1>10 DEF v

(* What is left guarded was not remembered in this step.                   *)
LEMMA BackFresh ==
    ASSUME MInv, AtEnd, ~IsBottom(Top), NEW n \in Nat \ {0}, Len(frames) = n + 1,
           NEW gs, DOMAIN gs = 1..n,
           \A i \in 1..n : gs[i].what = frames[i].what /\ gs[i].key = frames[i].key,
           NEW c, c = cache \/ (IsGuarded(Top) /\ c = Remembered(Top.key, Top.value))
    PROVE  Fresh(gs, c)
<1> SUFFICES ASSUME NEW i \in 1..n, IsGuarded(gs[i]) PROVE ~c[gs[i].key].found
  BY DEF Fresh
<1>1. /\ i \in 1..n + 1 /\ n + 1 \in 1..n + 1 /\ i # n + 1 /\ IsGuarded(frames[i])
      /\ gs[i].key = frames[i].key /\ DOMAIN frames = 1..n + 1 /\ Top = frames[n + 1]
      /\ frames \in Seq(Frame)
  BY CallerStands DEF IsGuarded
<1>2. ~cache[frames[i].key].found
  BY <1>1, FramesOf DEF Fresh
<1>3. CASE c = cache
  BY <1>1, <1>2, <1>3
<1>4. CASE IsGuarded(Top) /\ c = Remembered(Top.key, Top.value)
  <2>1. frames[i].key # Top.key
    <3>1. Once(frames)
      BY FramesOf DEF IInv, Structure, Exact
    <3> QED
      BY <1>1, <1>4, <3>1 DEF Once
  <2>2. frames[i].key \in Keys
    BY <1>1, FrameParts
  <2>3. cache \in [Keys -> Value]
    BY FramesOf DEF IInv, TypeOK
  <2>4. c[frames[i].key] = cache[frames[i].key]
    BY <1>4, <2>1, <2>2, <2>3 DEF Remembered
  <2> QED
    BY <1>1, <1>2, <2>4
<1> QED
  BY <1>3, <1>4

(* A remembered value that fits, for a field that is not looking back or   *)
(* has taken it.                                                           *)
LEMMA RememberFits ==
    ASSUME MInv, NEW k \in Keys, k \in DOMAIN tree.fields, NEW v \in Value, NEW gs,
           CacheFits(tree, gs, cache),
           v.found =>
               IF LookingBack(tree, gs, k)
               THEN /\ k \in DOMAIN tree.priors /\ FitsPrior(tree, v, k)
                    /\ gs[1].value.found \/ Endlessly(tree, k)
               ELSE FitsKey(tree, v, k)
    PROVE  CacheFits(tree, gs, Remembered(k, v))
<1>1. cache \in [Keys -> Value]
  BY FramesOf DEF IInv, TypeOK
<1>2. CASE ~v.found
  BY <1>2 DEF Remembered
<1>3. CASE v.found
  <2>1. \A j \in Keys : Remembered(k, v)[j] = IF j = k THEN v ELSE cache[j]
    BY <1>1, <1>3 DEF Remembered
  <2> DEFINE c == Remembered(k, v)
  <2> HIDE DEF c
  <2>2. \A j \in Keys : c[j] = IF j = k THEN v ELSE cache[j]
    BY <2>1 DEF c
  <2>3. CacheFits(tree, gs, c)
    BY <1>3, <2>2 DEF CacheFits
  <2> QED
    BY <2>3 DEF c
<1> QED
  BY <1>2, <1>3

(* A prior that is done fits the reference that called it.                 *)
LEMMA PriorFitsCaller ==
    ASSUME MInv, AtEnd, ~IsBottom(Top), LooksBack(Top), NEW n \in Nat \ {0}, Len(frames) = n + 1
    PROVE  /\ FitsPrior(tree, Top.value, Top.key) /\ Top.key \in DOMAIN tree.priors
           /\ \A m \in Nat : Fits(Top.value, PartsMean(tree, frames[n], m)[frames[n].at])
<1>1. /\ IsTree(tree) /\ Top \in Frame /\ OfTree(tree, Top) /\ FrameFits(tree, Top)
      /\ Top.at > Len(Top.layer) /\ Top.key \in DOMAIN tree.fields
      /\ frames[n] \in Frame /\ OfTree(tree, frames[n]) /\ Calls(frames[n], Top.key)
      /\ frames[n].key = Top.key \/ Endlessly(tree, Top.key)
  BY CallerStands
<1>2. FitsPrior(tree, Top.value, Top.key) /\ Top.key \in DOMAIN tree.priors
  BY <1>1, DoneFits DEF OfTree
<1>3. ASSUME NEW m \in Nat PROVE Fits(Top.value, PartsMean(tree, frames[n], m)[frames[n].at])
  <2>1. CASE frames[n].key = Top.key
    <3>1. Calls(frames[n], frames[n].key)
      BY <1>1, <2>1
    <3> QED
      BY <1>1, <1>2, <2>1, <3>1, OwnFits
  <2>2. CASE frames[n].key # Top.key
    <3>1. FitsKey(tree, Top.value, Top.key)
      BY <1>1, <2>2, EndlessFits
    <3> QED
      BY <1>1, <2>2, <3>1, OtherFits
  <2> QED
    BY <2>1, <2>2
<1> QED
  BY <1>2, <1>3

LEMMA ReturnFromCycleMeans == MInv /\ ReturnFromCycle => MInv'
<1> SUFFICES ASSUME MInv, ReturnFromCycle PROVE MInv'
  OBVIOUS
<1>1. /\ AtEnd /\ Top.what = "cycle" /\ ~IsBottom(Top) /\ LooksBack(Top) /\ Back(Top.value)
      /\ UNCHANGED <<tree, cache, result, next, outcome>>
  BY DEF ReturnFromCycle, IsBottom, LooksBack
<1>2. PICK n \in Nat \ {0} : Len(frames) = n + 1
  BY <1>1, CallerStands
<1>3. \A m \in Nat : Fits(Top.value, PartsMean(tree, frames[n], m)[frames[n].at])
  BY <1>1, <1>2, PriorFitsCaller
<1>4. /\ DOMAIN frames' = 1..n /\ Len(frames') = n /\ frames' # <<>>
      /\ \A i \in DOMAIN frames' : FrameFits(tree, frames'[i])
      /\ CalledBySelf(tree, frames') /\ FollowsOthers(tree, frames')
      /\ CameToNothing(tree, frames')
      /\ frames'[1].what = frames[1].what /\ frames'[1].key = frames[1].key
      /\ frames[1].value.found => frames'[1].value.found
      /\ \A i \in 1..n : frames'[i].what = frames[i].what /\ frames'[i].key = frames[i].key
  BY <1>1, <1>2, <1>3, BackMeans
<1>5. CacheFits(tree, frames, cache) /\ ResultsFit(tree, result, next) /\ frames # <<>>
      /\ outcome = "running"
  BY <1>1, FramesOf DEF AtEnd, Waiting
<1>6. CacheFits(tree, frames', cache)
  BY <1>4, <1>5, CacheStays
<1>7. Fresh(frames', cache)
  BY <1>1, <1>2, <1>4, BackFresh
<1>8. Meanings(tree, frames', cache, result, next, "running")
  BY <1>4, <1>5, <1>6, <1>7 DEF Meanings
<1>9. IInv'
  BY ReturnFromCycleInv, FramesOf
<1> QED
  BY <1>1, <1>5, <1>8, <1>9 DEF MInv

LEMMA ReturnMeans == MInv /\ Return => MInv'
<1> SUFFICES ASSUME MInv, Return PROVE MInv'
  OBVIOUS
<1> DEFINE k == Top.key
           v == Top.value
<1>1. /\ AtEnd /\ Top.what \in {"found", "lookback"} /\ ~IsBottom(Top) /\ IsGuarded(Top)
      /\ Back(v) /\ cache' = Remembered(k, v)
      /\ UNCHANGED <<tree, result, next, outcome>>
  BY DEF Return, IsBottom, IsGuarded
<1>2. PICK n \in Nat \ {0} :
          /\ Len(frames) = n + 1 /\ DOMAIN frames = 1..n + 1 /\ n \in 1..Len(frames)
          /\ n \in 1..n /\ 1 \in 1..n
          /\ Top = frames[n + 1] /\ Top \in Frame /\ OfTree(tree, Top) /\ FrameFits(tree, Top)
          /\ Top.at > Len(Top.layer) /\ k \in DOMAIN tree.fields /\ k \in Keys /\ v \in Value
          /\ frames[n] \in Frame /\ OfTree(tree, frames[n]) /\ Calls(frames[n], k)
          /\ Top.what = "found" => frames[n].key # k
          /\ LooksBack(Top) => (frames[n].key = k \/ Endlessly(tree, k))
          /\ IsTree(tree) /\ frames # <<>> /\ outcome = "running"
  BY <1>1, CallerStands
<1>3. Top.what = "found" => FitsKey(tree, v, k)
  <2> SUFFICES ASSUME Top.what = "found" PROVE FitsKey(tree, v, k)
    OBVIOUS
  <2>1. \A m \in Nat : Fits(v, LayerMeaning(tree, k, Levels(tree)[m]))
    BY <1>2, DoneFits DEF IsField
  <2> HIDE DEF k, v
  <2> QED
    BY <1>2, <2>1, FieldFits
<1>4. Top.what = "lookback" =>
          /\ FitsPrior(tree, v, k) /\ k \in DOMAIN tree.priors
          /\ \A m \in Nat : Fits(v, PartsMean(tree, frames[n], m)[frames[n].at])
  <2> SUFFICES ASSUME Top.what = "lookback"
               PROVE  /\ FitsPrior(tree, v, k) /\ k \in DOMAIN tree.priors
                      /\ \A m \in Nat : Fits(v, PartsMean(tree, frames[n], m)[frames[n].at])
    OBVIOUS
  <2>1. LooksBack(Top)
    BY DEF LooksBack
  <2> QED
    BY <1>1, <1>2, <2>1, PriorFitsCaller
<1>5. \A m \in Nat : Fits(v, PartsMean(tree, frames[n], m)[frames[n].at])
  <2>1. CASE Top.what = "found"
    <3> TAKE m \in Nat
    <3>1. FitsKey(tree, v, k)
      BY <1>3, <2>1
    <3> HIDE DEF k, v
    <3> QED
      BY <1>2, <2>1, <3>1, OtherFits
  <2> QED
    BY <1>1, <1>4, <2>1
<1>6. /\ DOMAIN frames' = 1..n /\ Len(frames') = n /\ frames' # <<>>
      /\ \A i \in DOMAIN frames' : FrameFits(tree, frames'[i])
      /\ CalledBySelf(tree, frames') /\ FollowsOthers(tree, frames')
      /\ CameToNothing(tree, frames')
      /\ frames'[1].what = frames[1].what /\ frames'[1].key = frames[1].key
      /\ frames[1].value.found => frames'[1].value.found
      /\ \A i \in 1..n : frames'[i].what = frames[i].what /\ frames'[i].key = frames[i].key
      /\ v.found => frames'[n].value.found
  BY <1>1, <1>2, <1>5, BackMeans
<1>7. CacheFits(tree, frames, cache) /\ ResultsFit(tree, result, next)
      /\ FollowsOthers(tree, frames)
  BY FramesOf
<1>8. CacheFits(tree, frames', cache)
  BY <1>2, <1>6, <1>7, CacheStays
<1>9. v.found =>
          IF LookingBack(tree, frames', k)
          THEN /\ k \in DOMAIN tree.priors /\ FitsPrior(tree, v, k)
               /\ frames'[1].value.found \/ Endlessly(tree, k)
          ELSE FitsKey(tree, v, k)
  <2>1. CASE Top.what = "found"
    <3>1. ~LookingBack(tree, frames', k)
      <4>1. n + 1 \in 1..n + 1
        BY <1>2
      <4>2. frames[1].key = k => ~LooksAtSelf(tree, k)
        BY <1>2, <1>7, <2>1, <4>1 DEF FollowsOthers
      <4> QED
        BY <1>6, <4>2 DEF LookingBack
    <3> QED
      BY <1>3, <2>1, <3>1
  <2>2. CASE Top.what = "lookback" /\ Endlessly(tree, k)
    BY <1>4, <2>2, EndlessFits
  <2>3. CASE Top.what = "lookback" /\ ~Endlessly(tree, k)
    <3>1. frames[n].key = k /\ Calls(frames[n], frames[n].key)
      BY <1>2, <2>3 DEF LooksBack
    <3>2. IsField(frames[n]) /\ LooksAtSelf(tree, k)
      BY <1>2, <3>1, SelfCall
    <3>3. k = frames[1].key
      <4>1. OwnLookback(frames) /\ n + 1 \in 1..n + 1
        BY <1>2, FramesOf DEF IInv, Structure
      <4> QED
        BY <1>2, <2>3, <4>1 DEF OwnLookback
    <3>4. frames[n].what # "found"
      BY <1>2, <1>7, <3>1, <3>2, <3>3 DEF FollowsOthers
    <3>5. n = 1 /\ frames[1].what = "field"
      <4>1. frames[n].what = "field"
        BY <3>2, <3>4 DEF IsField
      <4>2. IsBottom(frames[n])
        BY <4>1 DEF IsBottom
      <4>3. n = 1
        <5>1. Chain(tree, frames)
          BY FramesOf
        <5> QED
          BY <1>2, <4>2, <5>1, ChainFrame
      <4> QED
        BY <4>1, <4>3
    <3>6. LookingBack(tree, frames', k)
      BY <1>6, <3>2, <3>3, <3>5 DEF LookingBack
    <3> QED
      BY <1>4, <1>6, <2>3, <3>5, <3>6
  <2> QED
    BY <1>1, <2>1, <2>2, <2>3
<1>10. CacheFits(tree, frames', cache')
  <2> HIDE DEF k, v
  <2>1. CacheFits(tree, frames', Remembered(k, v))
    BY <1>2, <1>8, <1>9, RememberFits
  <2> QED
    BY <1>1, <2>1
<1>11. Fresh(frames', cache')
  BY <1>1, <1>2, <1>6, BackFresh
<1>12. Meanings(tree, frames', cache', result, next, "running")
  BY <1>6, <1>7, <1>10, <1>11 DEF Meanings
<1>13. IInv'
  BY ReturnInv, FramesOf
<1> QED
  BY <1>1, <1>2, <1>12, <1>13 DEF MInv
-----------------------------------------------------------------------------
(* The steps of the loop over all fields.                                  *)
LEMMA InitMeans == Init => MInv
<1> SUFFICES ASSUME Init PROVE MInv
  OBVIOUS
<1>1. /\ frames = <<>> /\ next = 1 /\ outcome = "running" /\ DOMAIN frames = {} /\ Len(frames) = 0
      /\ \A k \in Keys : ~cache[k].found
  BY DEF Init, Nothing
<1>2. IInv
  BY InitInv
<1>3. \A i \in 1..Len(tree.order) : ~(i < next)
  BY <1>1
<1>4. CalledBySelf(tree, frames)
  BY <1>1 DEF CalledBySelf
<1> QED
  BY <1>1, <1>2, <1>3, <1>4 DEF MInv, Meanings, FollowsOthers, Fresh, CameToNothing, CacheFits,
     ResultsFit

LEMMA FinishMeans == MInv /\ Finish => MInv'
<1> SUFFICES ASSUME MInv, Finish PROVE MInv'
  OBVIOUS
<1>1. IInv'
  BY FinishInv, FramesOf
<1> QED
  BY <1>1 DEF MInv, Meanings, Finish

(* A single frame that just began.                                         *)
LEMMA SingleMeans ==
    ASSUME MInv, NEW f \in Frame, OfTree(tree, f), f.at = 1, f.value = Nothing, IsBottom(f),
           NEW c, CacheFits(tree, <<f>>, c),
           f.what = "fallback" =>
               \A n \in Nat : /\ LayerMeaning(tree, f.key, Levels(tree)[n]).why # "missing"
                              /\ IsGood(LayerMeaning(tree, f.key, Levels(tree)[n])) =>
                                     ~LayerMeaning(tree, f.key, Levels(tree)[n]).value.found
    PROVE  Meanings(tree, <<f>>, c, result, next, "running")
<1> DEFINE fs == <<f>>
<1>1. /\ Len(fs) = 1 /\ DOMAIN fs = {1} /\ fs[1] = f /\ fs # <<>> /\ 1..Len(fs) - 1 = {}
  OBVIOUS
<1>2. IsTree(tree) /\ ResultsFit(tree, result, next)
  BY FramesOf
<1>3. CacheFits(tree, fs, c)
  OBVIOUS
<1> HIDE DEF fs
<1>4. FrameFits(tree, f)
  BY <1>2, BeginFits
<1>5. CalledBySelf(tree, fs) /\ FollowsOthers(tree, fs) /\ Fresh(fs, c) /\ CameToNothing(tree, fs)
  BY <1>1 DEF CalledBySelf, FollowsOthers, Fresh, CameToNothing, IsBottom, IsGuarded
<1>6. Meanings(tree, fs, c, result, next, "running")
  BY <1>1, <1>2, <1>3, <1>4, <1>5 DEF Meanings
<1> QED
  BY <1>6 DEF fs

LEMMA EnterFieldMeans == MInv /\ EnterField => MInv'
<1> SUFFICES ASSUME MInv, EnterField PROVE MInv'
  OBVIOUS
<1> DEFINE k == tree.order[next]
           f == Evaluating("field", k, tree.fields[k])
<1>1. /\ frames = <<>> /\ outcome = "running" /\ frames' = <<f>>
      /\ cache' = [cache EXCEPT ![k] = Nothing]
      /\ UNCHANGED <<tree, resolving, result, next, outcome>>
  BY DEF EnterField, Entered
<1>2. TypeOK /\ IInv /\ IsTree(tree) /\ cache \in [Keys -> Value] /\ CacheFits(tree, frames, cache)
  BY FramesOf DEF IInv, TypeOK
<1>3. k \in DOMAIN tree.fields /\ k \in Keys
  <2>1. tree.order \in Seq(DOMAIN tree.fields) /\ Len(tree.order) \in Nat
        /\ DOMAIN tree.fields \in SUBSET Keys
    BY <1>2, TreeParts
  <2>2. next \in 1..Len(tree.order)
    BY <1>2, <2>1 DEF TypeOK, EnterField
  <2> QED
    BY <2>1, <2>2
<1>4. f \in Frame /\ OfTree(tree, f)
  BY <1>2, <1>3, CalledFrame DEF Kinds, Fields
<1>5. f.what = "field" /\ f.key = k /\ f.at = 1 /\ f.value = Nothing /\ IsBottom(f)
  BY DEF Evaluating, IsBottom
<1> HIDE DEF f
<1>6. CacheFits(tree, <<f>>, cache')
  <2>1. \A j \in Keys : cache'[j].found => (j # k /\ cache'[j] = cache[j])
    BY <1>1, <1>2, <1>3 DEF Nothing
  <2>2. \A j \in Keys : j # k => ~LookingBack(tree, <<f>>, j)
    BY <1>5 DEF LookingBack
  <2>3. \A j \in Keys : ~LookingBack(tree, frames, j)
    BY <1>1 DEF LookingBack
  <2> HIDE DEF k
  <2> QED
    BY <1>2, <2>1, <2>2, <2>3 DEF CacheFits
<1>7. Meanings(tree, <<f>>, cache', result, next, "running")
  <2>1. f.what # "fallback"
    BY <1>5
  <2> QED
    BY <1>4, <1>5, <1>6, <2>1, SingleMeans
<1>8. IInv'
  BY EnterFieldInv, FramesOf
<1> QED
  BY <1>1, <1>7, <1>8 DEF MInv

(* The frame of a field that is done.                                      *)
LEMMA BottomStands ==
    ASSUME MInv, AtEnd, IsBottom(Top)
    PROVE  /\ Top \in Frame /\ OfTree(tree, Top) /\ FrameFits(tree, Top) /\ Top.at > Len(Top.layer)
           /\ Top = frames[1] /\ frames # <<>> /\ outcome = "running" /\ IsTree(tree)
           /\ Top.key \in DOMAIN tree.fields /\ Top.key \in Keys /\ Top.value \in Value
           /\ next \in 1..Len(tree.order) /\ Top.key = tree.order[next]
           /\ Top.what = "field" =>
                  \A n \in Nat : Fits(Top.value, LayerMeaning(tree, Top.key, Levels(tree)[n]))
           /\ Top.what = "fallback" =>
                  Top.key \in DOMAIN tree.priors /\ FitsPrior(tree, Top.value, Top.key)
<1>1. /\ IInv /\ Waiting /\ Top.at > Len(Top.layer) /\ frames # <<>> /\ outcome = "running"
      /\ IsTree(tree)
  BY FramesOf DEF AtEnd, Waiting
<1>2. Top \in Frame /\ OfTree(tree, Top)
  BY <1>1, TopFrame
<1>3. /\ Len(frames) = 1 /\ frames[1] = Top /\ next \in 1..Len(tree.order)
      /\ Top.key = tree.order[next]
  BY <1>1, BottomFrame
<1>4. FrameFits(tree, Top)
  <2>1. 1 \in 1..Len(frames)
    BY <1>3
  <2> QED
    BY <1>3, <2>1, FramesOf
<1>5. Top.key \in DOMAIN tree.fields /\ Top.key \in Keys /\ Top.value \in Value
  BY <1>2, FrameParts DEF OfTree
<1>6. /\ IsField(Top) => \A n \in Nat : Fits(Top.value, LayerMeaning(tree, Top.key, Levels(tree)[n]))
      /\ LooksBack(Top) => FitsPrior(tree, Top.value, Top.key)
  BY <1>1, <1>2, <1>4, DoneFits
<1>7. /\ Top.what = "field" => IsField(Top)
      /\ Top.what = "fallback" => LooksBack(Top)
  BY DEF IsField, LooksBack
<1>8. Top.what = "fallback" => Top.key \in DOMAIN tree.priors
  BY <1>2, <1>7 DEF OfTree
<1> QED
  BY <1>1, <1>2, <1>3, <1>4, <1>5, <1>6, <1>7, <1>8

(* A field that is done, or given up, looks back no more: what was cached  *)
(* for it either belongs to a circle or has been taken.                    *)
LEMMA CacheAfter ==
    ASSUME MInv, AtEnd, IsBottom(Top), NEW gs,
           \A k \in Keys : ~LookingBack(tree, gs, k),
           Top.value.found => FitsKey(tree, Top.value, Top.key)
    PROVE  /\ ~Top.value.found => CacheFits(tree, gs, cache)
           /\ CacheFits(tree, gs, Remembered(Top.key, Top.value))
<1>1. /\ Top = frames[1] /\ Top.key \in Keys /\ Top.key \in DOMAIN tree.fields
      /\ Top.value \in Value /\ CacheFits(tree, frames, cache)
  BY BottomStands, FramesOf
<1>2. \A k \in Keys : k # Top.key => ~LookingBack(tree, frames, k)
  BY <1>1 DEF LookingBack
<1>3. CASE ~Top.value.found
  <2>1. \A k \in Keys : (LookingBack(tree, frames, k) /\ cache[k].found) =>
            (k \notin DOMAIN tree.fields \/ FitsKey(tree, cache[k], k))
    <3> SUFFICES ASSUME NEW k \in Keys, LookingBack(tree, frames, k), cache[k].found,
                        k \in DOMAIN tree.fields
                 PROVE  FitsKey(tree, cache[k], k)
      OBVIOUS
    <3>1. frames[1].value.found \/ Endlessly(tree, k)
      BY <1>1 DEF CacheFits
    <3>2. Endlessly(tree, k)
      BY <1>1, <1>3, <3>1
    <3> QED
      BY <3>2, EndlessFits
  <2>2. CacheFits(tree, gs, cache)
    BY <1>1, <2>1 DEF CacheFits
  <2> QED
    BY <1>3, <2>2 DEF Remembered
<1>4. CASE Top.value.found
  <2>1. cache \in [Keys -> Value]
    BY FramesOf DEF IInv, TypeOK
  <2>2. \A j \in Keys : Remembered(Top.key, Top.value)[j] =
            IF j = Top.key THEN Top.value ELSE cache[j]
    BY <1>4, <2>1 DEF Remembered
  <2> DEFINE c == Remembered(Top.key, Top.value)
  <2> HIDE DEF c
  <2>3. \A j \in Keys : c[j] = IF j = Top.key THEN Top.value ELSE cache[j]
    BY <2>2 DEF c
  <2>4. CacheFits(tree, gs, c)
    <3> SUFFICES ASSUME NEW j \in Keys, c[j].found
                 PROVE  IF j \notin DOMAIN tree.fields
                        THEN j \in DOMAIN Environment /\ c[j] = Some(Environment[j])
                        ELSE FitsKey(tree, c[j], j)
      BY DEF CacheFits
    <3>1. CASE j = Top.key
      BY <1>1, <1>4, <2>3, <3>1
    <3>2. CASE j # Top.key
      BY <1>1, <1>2, <2>3, <3>2 DEF CacheFits
    <3> QED
      BY <3>1, <3>2
  <2> QED
    BY <1>4, <2>4 DEF c
<1> QED
  BY <1>1, <1>3, <1>4 DEF Value

LEMMA FallBackMeans == MInv /\ FallBack => MInv'
<1> SUFFICES ASSUME MInv, FallBack PROVE MInv'
  OBVIOUS
<1> DEFINE f == Evaluating("fallback", Top.key, tree.priors[Top.key])
<1>1. /\ AtEnd /\ Top.what = "field" /\ ~Top.value.found /\ Top.key \in Priors /\ IsBottom(Top)
      /\ frames' = <<f>> /\ UNCHANGED <<tree, cache, resolving, result, next, outcome>>
  BY DEF FallBack, IsBottom
<1>2. /\ Top.key \in DOMAIN tree.fields /\ TypeOK /\ outcome = "running"
      /\ \A n \in Nat : Fits(Top.value, LayerMeaning(tree, Top.key, Levels(tree)[n]))
  BY <1>1, BottomStands, FramesOf DEF IInv
<1>3. f \in Frame /\ OfTree(tree, f)
  BY <1>1, <1>2, CalledFrame DEF Kinds, Fields
<1>4. f.what = "fallback" /\ f.key = Top.key /\ f.at = 1 /\ f.value = Nothing /\ IsBottom(f)
  BY DEF Evaluating, IsBottom
<1> HIDE DEF f
<1>5. \A n \in Nat : /\ LayerMeaning(tree, f.key, Levels(tree)[n]).why # "missing"
                     /\ IsGood(LayerMeaning(tree, f.key, Levels(tree)[n])) =>
                            ~LayerMeaning(tree, f.key, Levels(tree)[n]).value.found
  BY <1>1, <1>2, <1>4 DEF Fits
<1>6. CacheFits(tree, <<f>>, cache)
  <2>1. \A k \in Keys : ~LookingBack(tree, <<f>>, k)
    BY <1>4 DEF LookingBack
  <2> QED
    BY <1>1, <2>1, CacheAfter
<1>7. Meanings(tree, <<f>>, cache, result, next, "running")
  BY <1>3, <1>4, <1>5, <1>6, SingleMeans
<1>8. IInv'
  BY FallBackInv, FramesOf
<1> QED
  BY <1>1, <1>2, <1>7, <1>8 DEF MInv

(* The step that stores the value of a field.                              *)
LEMMA StoreMeans ==
    ASSUME MInv, AtEnd, IsBottom(Top), Stored(Top.key, Top.value), IInv',
           Top.value.found => FitsKey(tree, Top.value, Top.key),
           \A n \in Nat : Fits(Top.value, FieldMeaning(tree, Top.key, Levels(tree)[n]))
    PROVE  MInv'
<1> DEFINE k == Top.key
           v == Top.value
<1>1. /\ frames' = <<>> /\ cache' = Remembered(k, v) /\ result' = [result EXCEPT ![k] = v]
      /\ next' = next + 1 /\ UNCHANGED <<tree, resolving, outcome>>
  BY DEF Stored
<1>2. /\ k \in Keys /\ v \in Value /\ next \in 1..Len(tree.order) /\ k = tree.order[next]
      /\ IsTree(tree) /\ outcome = "running" /\ result \in [Keys -> Value]
      /\ ResultsFit(tree, result, next)
  BY BottomStands, FramesOf DEF IInv, TypeOK
<1>3. CacheFits(tree, <<>>, cache')
  <2>1. \A j \in Keys : ~LookingBack(tree, <<>>, j)
    BY DEF LookingBack
  <2> QED
    BY <1>1, <2>1, CacheAfter
<1>4. ResultsFit(tree, result', next')
  <2>1. /\ tree.order \in Seq(DOMAIN tree.fields) /\ Len(tree.order) \in Nat
        /\ DOMAIN tree.fields \in SUBSET Keys
        /\ \A i, j \in 1..Len(tree.order) : tree.order[i] = tree.order[j] => i = j
    BY <1>2, TreeParts
  <2> SUFFICES ASSUME NEW i \in 1..Len(tree.order), i < next', NEW n \in Nat
               PROVE  Fits(result'[tree.order[i]], FieldMeaning(tree, tree.order[i], Levels(tree)[n]))
    BY DEF ResultsFit
  <2>2. i < next \/ i = next
    BY <1>1, <1>2, <2>1
  <2>3. CASE i = next
    BY <1>1, <1>2, <2>3
  <2>4. CASE i < next
    <3>1. tree.order[i] # k /\ tree.order[i] \in Keys
      BY <1>2, <2>1, <2>4
    <3>2. result'[tree.order[i]] = result[tree.order[i]]
      BY <1>1, <1>2, <3>1
    <3> QED
      BY <1>2, <2>4, <3>2 DEF ResultsFit
  <2> QED
    BY <2>2, <2>3, <2>4
<1>5. Meanings(tree, <<>>, cache', result', next', "running")
  <2>1. DOMAIN <<>> = {} /\ Len(<<>>) = 0 /\ 1..0 - 1 = {}
    OBVIOUS
  <2> QED
    BY <1>3, <1>4, <2>1 DEF Meanings, CalledBySelf, FollowsOthers, Fresh, CameToNothing
<1> QED
  BY <1>1, <1>2, <1>5 DEF MInv

LEMMA StoreFieldMeans == MInv /\ StoreField => MInv'
<1> SUFFICES ASSUME MInv, StoreField PROVE MInv'
  OBVIOUS
<1>1. /\ AtEnd /\ Top.what = "field" /\ IsBottom(Top) /\ Stored(Top.key, Top.value)
      /\ Top.value.found \/ Top.key \notin DOMAIN tree.priors
  BY DEF StoreField, IsBottom, Priors
<1>2. /\ IsTree(tree) /\ Top.key \in DOMAIN tree.fields
      /\ \A n \in Nat : Fits(Top.value, LayerMeaning(tree, Top.key, Levels(tree)[n]))
  BY <1>1, BottomStands
<1>3. /\ FitsKey(tree, Top.value, Top.key)
      /\ \A n \in Nat : Fits(Top.value, FieldMeaning(tree, Top.key, Levels(tree)[n]))
  BY <1>1, <1>2, FieldFits
<1>4. IInv'
  BY StoreFieldInv, FramesOf
<1> QED
  BY <1>1, <1>3, <1>4, StoreMeans

LEMMA StoreFallbackMeans == MInv /\ StoreFallback => MInv'
<1> SUFFICES ASSUME MInv, StoreFallback PROVE MInv'
  OBVIOUS
<1>1. AtEnd /\ Top.what = "fallback" /\ IsBottom(Top) /\ Stored(Top.key, Top.value)
  BY DEF StoreFallback, IsBottom
<1>2. /\ IsTree(tree) /\ Top.key \in DOMAIN tree.fields /\ Top.key \in DOMAIN tree.priors
      /\ FitsPrior(tree, Top.value, Top.key) /\ Top = frames[1] /\ frames # <<>>
  BY <1>1, BottomStands
<1>3. \A n \in Nat : /\ LayerMeaning(tree, Top.key, Levels(tree)[n]).why # "missing"
                     /\ IsGood(LayerMeaning(tree, Top.key, Levels(tree)[n])) =>
                            ~LayerMeaning(tree, Top.key, Levels(tree)[n]).value.found
  <2>1. CameToNothing(tree, frames)
    BY FramesOf
  <2> QED
    BY <1>1, <1>2, <2>1 DEF CameToNothing
<1>4. /\ FitsKey(tree, Top.value, Top.key)
      /\ \A n \in Nat : Fits(Top.value, FieldMeaning(tree, Top.key, Levels(tree)[n]))
  BY <1>2, <1>3, FallbackFits
<1>5. IInv'
  BY StoreFallbackInv, FramesOf
<1> QED
  BY <1>1, <1>4, <1>5, StoreMeans

LEMMA StepMeans == MInv /\ [Next]_vars => MInv'
<1>1. CASE UNCHANGED vars
  <2>1. MInv => IInv'
    BY <1>1, StepInv DEF MInv
  <2> QED
    BY <1>1, <2>1 DEF vars, MInv
<1> QED
  BY <1>1, EnterFieldMeans, FinishMeans, TakeTextMeans, KnownAbsentMeans, CachedMeans, CycleMeans,
     LookBackMeans, FollowMeans, FromEnvironmentMeans, ReturnMeans, ReturnFromCycleMeans,
     FallBackMeans, StoreFieldMeans, StoreFallbackMeans DEF Next
-----------------------------------------------------------------------------
(* What is evaluated, cached and stored fits what it means in every state  *)
(* and at every number of levels, for every tree                           *)
(* (substitution_resolver.py:62-131, 221-285).                             *)
THEOREM MeaningsHold == Spec => []MInv
<1>1. Init => MInv
  BY InitMeans
<1>2. MInv /\ [Next]_vars => MInv'
  BY StepMeans
<1> QED
  BY <1>1, <1>2, PTL DEF Spec

(* A key that has a meaning with any number of levels gets it, in whatever *)
(* order the fields are evaluated, and a key with the fault "missing", a   *)
(* required reference to what neither the tree nor the environment has, is *)
(* never passed over, for every tree, finite or not                        *)
(* (substitution_resolver.py:62, 221).  The fault "empty", a required      *)
(* reference to a key that came to nothing, is no meaning either; of such  *)
(* keys nothing is claimed, as the code passes over them.                  *)
THEOREM EveryMeaningReached ==
    Spec => [](\A n \in Nat, i \in DOMAIN tree.order : i < next =>
                   /\ Meant(tree.order[i], n).why # "missing"
                   /\ IsGood(Meant(tree.order[i], n)) =>
                          result[tree.order[i]] = Meant(tree.order[i], n).value)
<1>1. MInv => (\A n \in Nat, i \in DOMAIN tree.order : i < next =>
                   /\ Meant(tree.order[i], n).why # "missing"
                   /\ IsGood(Meant(tree.order[i], n)) =>
                          result[tree.order[i]] = Meant(tree.order[i], n).value)
  <2> SUFFICES ASSUME MInv, NEW n \in Nat, NEW i \in DOMAIN tree.order, i < next
               PROVE  Fits(result[tree.order[i]], FieldMeaning(tree, tree.order[i], Levels(tree)[n]))
    BY DEF Fits, Meant
  <2>1. IsTree(tree) /\ ResultsFit(tree, result, next)
    BY FramesOf
  <2>2. i \in 1..Len(tree.order)
    <3>1. tree.order \in Seq(DOMAIN tree.fields)
      BY <2>1, TreeParts
    <3> QED
      BY <3>1
  <2> QED
    BY <2>1, <2>2 DEF ResultsFit
<1> QED
  BY <1>1, MeaningsHold, PTL

(* The same at the number of levels that the runs use.                     *)
THEOREM KeysMeant == IsFiniteSet(Keys) => (Spec => []KeysGetTheirMeaning)
<1> SUFFICES ASSUME IsFiniteSet(Keys) PROVE Spec => []KeysGetTheirMeaning
  OBVIOUS
<1>1. Depth \in Nat
  BY FS_CardinalityType DEF Depth
<1>2. MInv => KeysGetTheirMeaning
  <2> SUFFICES ASSUME MInv, NEW i \in DOMAIN tree.order, i < next
               PROVE  Fits(result[tree.order[i]], FieldMeaning(tree, tree.order[i], Levels(tree)[Depth]))
    BY DEF Fits, Meant, KeysGetTheirMeaning
  <2>1. IsTree(tree) /\ ResultsFit(tree, result, next)
    BY FramesOf
  <2>2. i \in 1..Len(tree.order)
    <3>1. tree.order \in Seq(DOMAIN tree.fields)
      BY <2>1, TreeParts
    <3> QED
      BY <3>1
  <2> QED
    BY <1>1, <2>1, <2>2 DEF ResultsFit
<1> QED
  BY <1>2, MeaningsHold, PTL

(* A tree whose keys all have a meaning is not rejected, neither as a      *)
(* circle nor for a missing value, and for its depth only where two frames *)
(* for each key and one more are too many                                  *)
(* (substitution_resolver.py:203, 229-285).  A tree with a key that is     *)
(* "missing" or "empty" may be rejected; it has no meaning.                *)
THEOREM ErrorsCaused == IsFiniteSet(Keys) => (Spec => []ErrorsHaveACause)
<1> SUFFICES ASSUME IsFiniteSet(Keys) PROVE Spec => []ErrorsHaveACause
  OBVIOUS
<1>1. Depth \in Nat
  BY FS_CardinalityType DEF Depth
<1>2. MInv => ErrorsHaveACause
  <2> SUFFICES ASSUME MInv, outcome \notin {"running", "resolved"}
               PROVE  \/ \E k \in Fields : ~IsGood(Meant(k, Depth))
                      \/ outcome = "recursion" /\ MaxRecursion <= 2 * Depth + 1
    BY DEF ErrorsHaveACause
  <2>1. Explained(tree, outcome)
    BY DEF MInv, Meanings
  <2>2. CASE \E k \in DOMAIN tree.fields : Meaningless(tree, k)
    BY <1>1, <2>2 DEF Meaningless, Meant, Fields
  <2>3. CASE outcome = "recursion" /\ MaxRecursion <= 2 * Cardinality(Keys) + 1
    BY <2>3 DEF Depth
  <2> QED
    BY <2>1, <2>2, <2>3 DEF Explained
<1> QED
  BY <1>2, MeaningsHold, PTL
=============================================================================
