--------------------- MODULE ReferenceEvaluation_proofs ---------------------
(***************************************************************************)
(* The frames, the guard and the marks of ReferenceEvaluation: proofs, for *)
(* every tree.  Statements about frames take them as a parameter, because  *)
(* a step changes them in one of four ways: it takes a value into the last *)
(* one, appends one, takes the value of the last one into the one before,  *)
(* or leaves just one.                                                     *)
(***************************************************************************)
EXTENDS ReferenceMeaning, FiniteSetTheorems, TLAPS

Outcomes == {"running", "resolved", "recursion", "circular", "could not resolve"}

(* Every variable has its type.                                            *)
TypeOK ==
    /\ IsTree(tree)
    /\ frames \in Seq(Frame)
    /\ cache \in [Keys -> Value]
    /\ result \in [Keys -> Value]
    /\ resolving \in SUBSET Keys
    /\ concats \in SUBSET Keys
    /\ next \in 1..Len(tree.order) + 1
    /\ outcome \in Outcomes

LooksBack(f) == f.what \in {"fallback", "lookback", "cycle"}
IsField(f) == f.what \in {"field", "found"}
IsGuarded(f) == f.what \in {"found", "lookback"}
IsJoiner(f) == IsField(f) /\ IsConcat(f.layer)

(* A frame evaluates the field or the prior of its key.                    *)
OfTree(t, f) ==
    /\ f.key \in DOMAIN t.fields
    /\ IsField(f) => f.layer = t.fields[f.key]
    /\ LooksBack(f) => f.key \in DOMAIN t.priors /\ f.layer = t.priors[f.key]
    /\ f.at \in 1..Len(f.layer) + 1

IsBottom(f) == f.what \in {"field", "fallback"}
OneBottom(fs) == \A i \in DOMAIN fs : IsBottom(fs[i]) <=> i = 1

(* Every frame but the last stands at the reference that called the next.  *)
Calls(f, k) == f.at <= Len(f.layer) /\ RefersTo(f.layer[f.at], k)
Linked(fs) == \A i \in 1..Len(fs) - 1 : Calls(fs[i], fs[i + 1].key)

(* Only a lookback can follow a frame of its own key.                      *)
NoReentry(fs) ==
    \A i \in 1..Len(fs) - 1 : fs[i + 1].what = "found" => fs[i].key # fs[i + 1].key

(* The guard and the marks, and what the copy of the guard keeps.          *)
GuardedKeys(fs, n) == {fs[i].key : i \in {j \in 1..n : IsGuarded(fs[j])}}
JoinedKeys(fs) == {fs[i].key : i \in {j \in DOMAIN fs : IsJoiner(fs[j])}}
Once(fs) ==
    \A i, j \in DOMAIN fs : fs[i].key = fs[j].key =>
        /\ IsGuarded(fs[i]) /\ IsGuarded(fs[j]) => i = j
        /\ IsJoiner(fs[i]) /\ IsJoiner(fs[j]) => i = j
Exact(fs, guard, marks) ==
    /\ guard = GuardedKeys(fs, Len(fs))
    /\ marks = JoinedKeys(fs)
    /\ Once(fs)
    /\ \A i \in DOMAIN fs : fs[i].what = "cycle" => fs[i].saved = GuardedKeys(fs, i - 1)

(* A lookback looks at the field in turn.                                  *)
OwnLookback(fs) == \A i \in DOMAIN fs : fs[i].what = "lookback" => fs[i].key = fs[1].key

Structure(t, fs, guard, marks) ==
    /\ \A i \in DOMAIN fs : OfTree(t, fs[i])
    /\ OneBottom(fs)
    /\ Linked(fs)
    /\ NoReentry(fs)
    /\ Exact(fs, guard, marks)
    /\ OwnLookback(fs)

InTurn ==
    frames # <<>> =>
        outcome # "resolved" /\ next <= Len(tree.order) /\ frames[1].key = tree.order[next]

IInv == TypeOK /\ Structure(tree, frames, resolving, concats) /\ InTurn
-----------------------------------------------------------------------------
(* The parts of a frame, and what taking a value makes of it.              *)
LEMMA FrameParts ==
    ASSUME NEW f \in Frame
    PROVE  /\ f.what \in Kinds /\ f.key \in Keys /\ f.layer \in Layer /\ f.at \in Nat
           /\ f.value \in Value /\ f.saved \in SUBSET Keys
           /\ Len(f.layer) \in Nat
BY DEF Frame, Layer

LEMMA JoinedType ==
    ASSUME NEW v \in Value, NEW w \in Value
    PROVE  Joined(v, w) \in Value
BY DEF Joined, Value, Some, Text

LEMMA TakenParts ==
    ASSUME NEW f \in Frame, NEW v \in Value
    PROVE  /\ Taken(f, v) \in Frame
           /\ Taken(f, v).what = f.what /\ Taken(f, v).key = f.key
           /\ Taken(f, v).layer = f.layer /\ Taken(f, v).saved = f.saved
           /\ Taken(f, v).at = f.at + 1
           /\ Taken(f, v).value = Joined(f.value, v)
<1>1. Joined(f.value, v) \in Value /\ f.at + 1 \in Nat
  BY FrameParts, JoinedType
<1>2. ASSUME NEW a \in Nat, NEW w \in Value
      PROVE  /\ [f EXCEPT !.at = a, !.value = w] \in Frame
             /\ [f EXCEPT !.at = a, !.value = w].at = a
             /\ [f EXCEPT !.at = a, !.value = w].value = w
  BY DEF Frame
<1> QED
  BY <1>1, <1>2, FrameParts DEF Taken, Frame

LEMMA PartKinds ==
    ASSUME NEW p \in Part
    PROVE  /\ ~IsReference(p) => p.text \in Text
           /\ IsReference(p) => p.key \in Keys /\ p.optional \in BOOLEAN /\ p.absent \in BOOLEAN
BY DEF Part, IsReference

(* The part that a frame stands at.                                        *)
LEMMA PartAt ==
    ASSUME NEW f \in Frame, f.at \in 1..Len(f.layer) + 1, f.at <= Len(f.layer)
    PROVE  f.layer[f.at] \in Part
<1>1. f.layer \in Seq(Part) /\ Len(f.layer) \in Nat
  BY FrameParts DEF Layer
<1>2. f.at \in 1..Len(f.layer)
  BY <1>1
<1> QED
  BY <1>1, <1>2
-----------------------------------------------------------------------------
(* The keys of the guarded frames among some of the first frames.          *)
LEMMA SameKeys ==
    ASSUME NEW fs \in Seq(Frame), NEW gs \in Seq(Frame), NEW n \in Nat,
           \A i \in 1..n : gs[i].what = fs[i].what /\ gs[i].key = fs[i].key
    PROVE  GuardedKeys(gs, n) = GuardedKeys(fs, n)
BY DEF GuardedKeys, IsGuarded

(* Frames that differ only in how far the last one is.                     *)
LEMMA SameShape ==
    ASSUME NEW t, NEW fs \in Seq(Frame), NEW guard, NEW marks, NEW n \in Nat \ {0}, Len(fs) = n,
           Structure(t, fs, guard, marks), NEW gs \in Seq(Frame), Len(gs) = n,
           \A i \in 1..n : /\ gs[i].what = fs[i].what /\ gs[i].key = fs[i].key
                            /\ gs[i].layer = fs[i].layer /\ gs[i].saved = fs[i].saved
                            /\ (i # n => gs[i] = fs[i]),
           gs[n].at \in 1..Len(fs[n].layer) + 1
    PROVE  Structure(t, gs, guard, marks)
<1>1. DOMAIN gs = 1..n /\ DOMAIN fs = 1..n
  OBVIOUS
<1>2. \A i \in 1..n : OfTree(t, gs[i])
  <2> TAKE i \in 1..n
  <2>1. OfTree(t, fs[i])
    BY <1>1 DEF Structure
  <2>2. gs[i].at \in 1..Len(gs[i].layer) + 1
    BY <2>1 DEF OfTree
  <2> QED
    BY <2>1, <2>2 DEF OfTree, IsField, LooksBack
<1>3. OneBottom(gs)
  BY <1>1 DEF Structure, OneBottom, IsBottom
<1>4. Linked(gs) /\ NoReentry(gs)
  <2>1. ASSUME NEW i \in 1..n - 1
        PROVE  /\ i \in 1..n /\ i + 1 \in 1..n /\ gs[i] = fs[i]
               /\ gs[i + 1].key = fs[i + 1].key /\ gs[i + 1].what = fs[i + 1].what
    <3>1. i \in 1..n /\ i + 1 \in 1..n /\ i # n
      OBVIOUS
    <3> QED
      BY <3>1
  <2> QED
    BY <2>1 DEF Structure, Linked, NoReentry
<1>5. Exact(gs, guard, marks)
  <2>1. Exact(fs, guard, marks)
    BY DEF Structure
  <2>2. \A k \in 0..n : GuardedKeys(gs, k) = GuardedKeys(fs, k)
    <3> TAKE k \in 0..n
    <3>1. k \in Nat /\ \A j \in 1..k : j \in 1..n
      OBVIOUS
    <3> QED
      BY <3>1, SameKeys
  <2>3. \A i \in 1..n : IsGuarded(gs[i]) = IsGuarded(fs[i]) /\ IsJoiner(gs[i]) = IsJoiner(fs[i])
    BY DEF IsGuarded, IsJoiner, IsField
  <2>4. JoinedKeys(gs) = JoinedKeys(fs)
    <3>1. {j \in 1..n : IsJoiner(gs[j])} = {j \in 1..n : IsJoiner(fs[j])}
      BY <2>3
    <3> QED
      BY <1>1, <3>1 DEF JoinedKeys
  <2>5. Once(gs)
    <3>1. Once(fs)
      BY <2>1 DEF Exact
    <3>2. ASSUME NEW i \in 1..n, NEW j \in 1..n, gs[i].key = gs[j].key
          PROVE  /\ IsGuarded(gs[i]) /\ IsGuarded(gs[j]) => i = j
                 /\ IsJoiner(gs[i]) /\ IsJoiner(gs[j]) => i = j
      <4>1. fs[i].key = fs[j].key
        BY <3>2
      <4> QED
        BY <3>1, <4>1, <2>3, <1>1 DEF Once
    <3> QED
      BY <3>2, <1>1 DEF Once
  <2>6. n \in 0..n /\ \A i \in 1..n : i - 1 \in 0..n
    OBVIOUS
  <2> QED
    BY <1>1, <2>1, <2>2, <2>4, <2>5, <2>6 DEF Exact
<1>6. OwnLookback(gs)
  <2>1. 1 \in 1..n
    OBVIOUS
  <2>2. \A i \in 1..n : fs[i].what = "lookback" => fs[i].key = fs[1].key
    BY <1>1 DEF Structure, OwnLookback
  <2> QED
    BY <1>1, <2>1, <2>2 DEF OwnLookback
<1> QED
  BY <1>1, <1>2, <1>3, <1>4, <1>5, <1>6 DEF Structure

(* Taking a value into the last frame.                                     *)
LEMMA TakeKeepsStructure ==
    ASSUME NEW t, NEW fs \in Seq(Frame), NEW guard, NEW marks, NEW n \in Nat \ {0}, Len(fs) = n,
           Structure(t, fs, guard, marks), fs[n].at <= Len(fs[n].layer),
           NEW v \in Value, NEW gs \in Seq(Frame), Len(gs) = n,
           \A i \in 1..n : i # n => gs[i] = fs[i],
           gs[n] = Taken(fs[n], v)
    PROVE  gs[1].key = fs[1].key /\ Structure(t, gs, guard, marks)
<1>1. n \in 1..n /\ fs[n] \in Frame /\ 1 \in 1..n
  OBVIOUS
<1>2. /\ Taken(fs[n], v).what = fs[n].what /\ Taken(fs[n], v).key = fs[n].key
      /\ Taken(fs[n], v).layer = fs[n].layer /\ Taken(fs[n], v).saved = fs[n].saved
      /\ Taken(fs[n], v).at = fs[n].at + 1
  BY <1>1, TakenParts
<1>3. \A i \in 1..n : /\ gs[i].what = fs[i].what /\ gs[i].key = fs[i].key
                      /\ gs[i].layer = fs[i].layer /\ gs[i].saved = fs[i].saved
                      /\ (i # n => gs[i] = fs[i])
  BY <1>2
<1>4. gs[n].at \in 1..Len(fs[n].layer) + 1
  <2>1. OfTree(t, fs[n])
    BY <1>1 DEF Structure
  <2>2. Len(fs[n].layer) \in Nat
    BY <1>1, FrameParts
  <2> QED
    BY <1>2, <2>1, <2>2 DEF OfTree
<1>5. Structure(t, gs, guard, marks)
  BY <1>3, <1>4, SameShape
<1> QED
  BY <1>1, <1>3, <1>5


(* Appending the frame of a referenced key.                                *)
LEMMA CallKeepsStructure ==
    ASSUME NEW t, NEW fs \in Seq(Frame), NEW guard, NEW marks, fs # <<>>,
           Structure(t, fs, guard, marks),
           NEW f \in Frame, OfTree(t, f), ~IsBottom(f),
           Calls(fs[Len(fs)], f.key),
           f.what = "found" => fs[Len(fs)].key # f.key,
           IsGuarded(f) => f.key \notin guard,
           IsJoiner(f) => f.key \notin marks,
           f.what = "lookback" => f.key = fs[1].key,
           f.what = "cycle" => f.saved = guard
    PROVE  /\ Append(fs, f) \in Seq(Frame) /\ Append(fs, f)[1] = fs[1]
           /\ Structure(t, Append(fs, f), IF IsGuarded(f) THEN guard \cup {f.key} ELSE guard,
                        IF IsJoiner(f) THEN marks \cup {f.key} ELSE marks)
<1> DEFINE n == Len(fs)
           gs == Append(fs, f)
           guard1 == IF IsGuarded(f) THEN guard \cup {f.key} ELSE guard
           marks1 == IF IsJoiner(f) THEN marks \cup {f.key} ELSE marks
<1>1. n \in Nat /\ n >= 1 /\ 1 \in 1..n /\ n \in 1..n
  OBVIOUS
<1>2. gs \in Seq(Frame) /\ Len(gs) = n + 1 /\ DOMAIN gs = 1..n + 1 /\ DOMAIN fs = 1..n
  OBVIOUS
<1>3. (\A i \in 1..n : gs[i] = fs[i]) /\ gs[n + 1] = f
  OBVIOUS
<1>a. \A i \in 1..n + 1 : i = n + 1 \/ i \in 1..n
  BY <1>1
<1>b. \A i \in 1..n : i \in 1..n + 1 /\ i # n + 1
  BY <1>1
<1> HIDE DEF gs
<1>4. \A i \in 1..n + 1 : OfTree(t, gs[i])
  <2>1. \A i \in 1..n : OfTree(t, fs[i])
    BY <1>2 DEF Structure
  <2> QED
    BY <1>3, <1>a, <2>1
<1>5. OneBottom(gs)
  <2>1. \A i \in 1..n : IsBottom(fs[i]) <=> i = 1
    BY <1>2 DEF Structure, OneBottom
  <2>2. n + 1 # 1
    BY <1>1
  <2> QED
    BY <1>2, <1>3, <1>a, <2>1, <2>2 DEF OneBottom
<1>6. Linked(gs) /\ NoReentry(gs)
  <2>1. ASSUME NEW i \in 1..n
        PROVE  /\ Calls(gs[i], gs[i + 1].key)
               /\ gs[i + 1].what = "found" => gs[i].key # gs[i + 1].key
    <3>1. CASE i = n
      BY <3>1, <1>1, <1>3
    <3>2. CASE i # n
      <4>1. i \in 1..n - 1 /\ i + 1 \in 1..n
        BY <1>1, <3>2
      <4>2. Calls(fs[i], fs[i + 1].key) /\ (fs[i + 1].what = "found" => fs[i].key # fs[i + 1].key)
        BY <4>1 DEF Structure, Linked, NoReentry
      <4> QED
        BY <4>1, <4>2, <1>3
    <3> QED
      BY <3>1, <3>2
  <2>2. Len(gs) - 1 = n
    BY <1>1, <1>2
  <2> QED
    BY <2>1, <2>2 DEF Linked, NoReentry
<1>7. Exact(gs, guard1, marks1)
  <2>1. Exact(fs, guard, marks)
    BY DEF Structure
  <2>2. \A k \in 0..n : GuardedKeys(gs, k) = GuardedKeys(fs, k)
    <3> TAKE k \in 0..n
    <3>1. k \in Nat /\ \A i \in 1..k : i \in 1..n
      BY <1>1
    <3> QED
      BY <3>1, <1>2, <1>3, SameKeys
  <2>3. guard = GuardedKeys(gs, n)
    <3>1. n \in 0..n
      BY <1>1
    <3> QED
      BY <2>1, <2>2, <3>1 DEF Exact
  <2>4. guard1 = GuardedKeys(gs, n + 1)
    <3>1. CASE IsGuarded(f)
      <4>1. ASSUME NEW k \in guard1 PROVE k \in GuardedKeys(gs, n + 1)
        <5>1. CASE k = f.key
          <6>1. n + 1 \in 1..n + 1
            BY <1>1
          <6> QED
            BY <5>1, <6>1, <1>3, <3>1 DEF GuardedKeys
        <5>2. CASE k \in guard
          BY <5>2, <2>3, <1>b DEF GuardedKeys
        <5> QED
          BY <3>1, <5>1, <5>2
      <4>2. ASSUME NEW k \in GuardedKeys(gs, n + 1) PROVE k \in guard1
        <5>1. PICK i \in 1..n + 1 : IsGuarded(gs[i]) /\ gs[i].key = k
          BY DEF GuardedKeys
        <5>2. CASE i = n + 1
          BY <3>1, <5>1, <5>2, <1>3
        <5>3. CASE i \in 1..n
          <6>1. k \in GuardedKeys(gs, n)
            BY <5>1, <5>3 DEF GuardedKeys
          <6> QED
            BY <3>1, <6>1, <2>3
        <5> QED
          BY <1>a, <5>2, <5>3
      <4> QED
        BY <4>1, <4>2
    <3>2. CASE ~IsGuarded(f)
      <4>1. {j \in 1..n + 1 : IsGuarded(gs[j])} = {j \in 1..n : IsGuarded(gs[j])}
        BY <1>3, <1>a, <1>b, <3>2
      <4> QED
        BY <4>1, <3>2, <2>3 DEF GuardedKeys
    <3> QED
      BY <3>1, <3>2
  <2>5. marks1 = JoinedKeys(gs)
    <3>0. marks = {fs[i].key : i \in {j \in 1..n : IsJoiner(fs[j])}}
      BY <2>1, <1>2 DEF Exact, JoinedKeys
    <3>1. marks = {gs[i].key : i \in {j \in 1..n : IsJoiner(gs[j])}}
      BY <3>0, <1>3
    <3>2. ASSUME NEW k \in marks1 PROVE k \in JoinedKeys(gs)
      <4>1. CASE IsJoiner(f) /\ k = f.key
        <5>1. n + 1 \in 1..n + 1
          BY <1>1
        <5> QED
          BY <4>1, <5>1, <1>2, <1>3 DEF JoinedKeys
      <4>2. CASE k \in marks
        BY <4>2, <3>1, <1>2, <1>b DEF JoinedKeys
      <4> QED
        BY <4>1, <4>2
    <3>3. ASSUME NEW k \in JoinedKeys(gs) PROVE k \in marks1
      <4>1. PICK i \in 1..n + 1 : IsJoiner(gs[i]) /\ gs[i].key = k
        BY <1>2 DEF JoinedKeys
      <4>2. CASE i = n + 1
        BY <4>1, <4>2, <1>3
      <4>3. CASE i \in 1..n
        <5>1. k \in marks
          BY <4>1, <4>3, <3>1
        <5> QED
          BY <5>1
      <4> QED
        BY <1>a, <4>2, <4>3
    <3> QED
      BY <3>2, <3>3
  <2>6. Once(gs)
    <3>1. ASSUME NEW i \in 1..n, gs[i].key = f.key
          PROVE  ~(IsGuarded(gs[i]) /\ IsGuarded(f)) /\ ~(IsJoiner(gs[i]) /\ IsJoiner(f))
      <4>1. IsGuarded(gs[i]) => f.key \in guard
        BY <2>3, <3>1 DEF GuardedKeys
      <4>2. IsJoiner(gs[i]) => f.key \in marks
        <5>1. gs[i] = fs[i] /\ i \in DOMAIN fs
          BY <1>2, <1>3
        <5> QED
          BY <5>1, <3>1, <2>1 DEF Exact, JoinedKeys
      <4> QED
        BY <4>1, <4>2
    <3>2. ASSUME NEW i \in 1..n + 1, NEW j \in 1..n + 1, gs[i].key = gs[j].key
          PROVE  /\ IsGuarded(gs[i]) /\ IsGuarded(gs[j]) => i = j
                 /\ IsJoiner(gs[i]) /\ IsJoiner(gs[j]) => i = j
      <4>1. CASE i \in 1..n /\ j \in 1..n
        BY <4>1, <3>2, <2>1, <1>2, <1>3 DEF Exact, Once
      <4>2. CASE i \in 1..n /\ j = n + 1
        BY <4>2, <3>1, <3>2, <1>3
      <4>3. CASE i = n + 1 /\ j \in 1..n
        BY <4>3, <3>1, <3>2, <1>3
      <4>4. CASE i = n + 1 /\ j = n + 1
        BY <4>4
      <4> QED
        BY <1>a, <4>1, <4>2, <4>3, <4>4
    <3> QED
      BY <3>2, <1>2 DEF Once
  <2>7. ASSUME NEW i \in 1..n + 1, gs[i].what = "cycle"
        PROVE  gs[i].saved = GuardedKeys(gs, i - 1)
    <3>1. CASE i = n + 1
      <4>1. i - 1 = n
        BY <3>1, <1>1
      <4> QED
        BY <3>1, <4>1, <2>3, <2>7, <1>3
    <3>2. CASE i \in 1..n
      <4>1. i - 1 \in 0..n
        BY <3>2, <1>1
      <4>2. fs[i].saved = GuardedKeys(fs, i - 1)
        BY <3>2, <2>1, <2>7, <1>2, <1>3 DEF Exact
      <4> QED
        BY <3>2, <4>1, <4>2, <2>2, <1>3
    <3> QED
      BY <1>a, <3>1, <3>2
  <2> QED
    BY <2>4, <2>5, <2>6, <2>7, <1>2 DEF Exact
<1>8. OwnLookback(gs)
  <2>1. gs[1] = fs[1]
    BY <1>1, <1>3
  <2>2. \A i \in 1..n : fs[i].what = "lookback" => fs[i].key = fs[1].key
    BY <1>2 DEF Structure, OwnLookback
  <2> QED
    BY <1>2, <1>3, <1>a, <2>1, <2>2 DEF OwnLookback
<1>9. Structure(t, gs, guard1, marks1)
  BY <1>2, <1>4, <1>5, <1>6, <1>7, <1>8 DEF Structure
<1> QED
  BY <1>1, <1>2, <1>3, <1>9 DEF gs
(* Dropping the last frame.  A field's key is not marked any longer, and   *)
(* if the field is no concatenation it was not marked before.              *)
LEMMA DropKeepsStructure ==
    ASSUME NEW t, NEW fs \in Seq(Frame), NEW guard, NEW marks, NEW n \in Nat \ {0}, Len(fs) = n + 1,
           Structure(t, fs, guard, marks), NEW gs \in Seq(Frame), Len(gs) = n,
           \A i \in 1..n : gs[i] = fs[i]
    PROVE  /\ Structure(t, gs,
                        IF IsGuarded(fs[n + 1]) THEN guard \ {fs[n + 1].key} ELSE guard,
                        IF IsField(fs[n + 1]) THEN marks \ {fs[n + 1].key} ELSE marks)
           /\ Calls(fs[n], fs[n + 1].key)
           /\ fs[n + 1].what = "cycle" => fs[n + 1].saved = guard
<1> DEFINE f == fs[n + 1]
           guard1 == IF IsGuarded(f) THEN guard \ {f.key} ELSE guard
           marks1 == IF IsField(f) THEN marks \ {f.key} ELSE marks
<1>1. /\ DOMAIN gs = 1..n /\ DOMAIN fs = 1..n + 1 /\ n \in Nat /\ n >= 1
      /\ 1 \in 1..n /\ n + 1 \in 1..n + 1 /\ n \in 1..n
  OBVIOUS
<1>2. \A i \in 1..n + 1 : i = n + 1 \/ i \in 1..n
  BY <1>1
<1>3. \A i \in 1..n : i \in 1..n + 1 /\ i # n + 1
  BY <1>1
<1>4. Exact(fs, guard, marks) /\ \A i \in 1..n + 1 : OfTree(t, fs[i])
  BY <1>1 DEF Structure
<1> HIDE DEF f
<1>5. (\A i \in 1..n : OfTree(t, gs[i])) /\ OneBottom(gs)
  BY <1>1, <1>3, <1>4 DEF Structure, OneBottom
<1>6. Linked(gs) /\ NoReentry(gs)
  <2>1. ASSUME NEW i \in 1..n - 1
        PROVE  i \in 1..Len(fs) - 1 /\ gs[i] = fs[i] /\ gs[i + 1] = fs[i + 1]
    <3>1. i \in 1..n /\ i + 1 \in 1..n
      BY <1>1
    <3> QED
      BY <3>1, <1>1
  <2> QED
    BY <2>1 DEF Structure, Linked, NoReentry
<1>7. GuardedKeys(fs, n) = GuardedKeys(gs, n) /\ guard = GuardedKeys(fs, n + 1)
  BY <1>1, <1>4, SameKeys DEF Exact
<1>8. guard1 = GuardedKeys(gs, n)
  <2>1. CASE IsGuarded(f)
    <3>1. ASSUME NEW k \in guard1 PROVE k \in GuardedKeys(fs, n)
      <4>1. PICK i \in 1..n + 1 : IsGuarded(fs[i]) /\ fs[i].key = k
        BY <2>1, <1>7 DEF GuardedKeys
      <4>2. i # n + 1
        BY <2>1, <4>1 DEF f
      <4> QED
        BY <4>1, <4>2, <1>2 DEF GuardedKeys
    <3>2. ASSUME NEW k \in GuardedKeys(fs, n) PROVE k \in guard1
      <4>1. PICK i \in 1..n : IsGuarded(fs[i]) /\ fs[i].key = k
        BY DEF GuardedKeys
      <4>2. k \in guard
        BY <4>1, <1>3, <1>7 DEF GuardedKeys
      <4>3. k # f.key
        BY <2>1, <4>1, <1>1, <1>3, <1>4 DEF Exact, Once, f
      <4> QED
        BY <2>1, <4>2, <4>3
    <3>3. guard1 = guard \ {f.key}
      BY <2>1
    <3>4. guard1 = GuardedKeys(fs, n)
      BY <3>1, <3>2, <3>3
    <3> QED
      BY <3>4, <1>7
  <2>2. CASE ~IsGuarded(f)
    <3>1. {j \in 1..n + 1 : IsGuarded(fs[j])} = {j \in 1..n : IsGuarded(fs[j])}
      BY <1>2, <1>3, <2>2 DEF f
    <3> QED
      BY <3>1, <2>2, <1>7 DEF GuardedKeys
  <2> QED
    BY <2>1, <2>2
<1>9. marks1 = JoinedKeys(gs)
  <2>1. marks = {fs[i].key : i \in {j \in 1..n + 1 : IsJoiner(fs[j])}}
    BY <1>1, <1>4 DEF Exact, JoinedKeys
  <2>2. JoinedKeys(gs) = {fs[i].key : i \in {j \in 1..n : IsJoiner(fs[j])}}
    BY <1>1 DEF JoinedKeys
  <2>3. CASE IsField(f)
    <3>1. ASSUME NEW i \in 1..n, IsJoiner(fs[i]) PROVE fs[i].key # f.key
      <4>1. SUFFICES ASSUME fs[i].key = f.key PROVE FALSE
        OBVIOUS
      <4>2. OfTree(t, fs[i]) /\ OfTree(t, f)
        BY <1>1, <1>3, <1>4 DEF f
      <4>3. IsJoiner(f)
        BY <4>1, <4>2, <2>3, <3>1 DEF IsJoiner, OfTree
      <4> QED
        BY <3>1, <4>1, <4>3, <1>1, <1>3, <1>4 DEF Exact, Once, f
    <3>2. ASSUME NEW k \in marks1 PROVE k \in JoinedKeys(gs)
      <4>1. PICK i \in 1..n + 1 : IsJoiner(fs[i]) /\ fs[i].key = k
        BY <2>1, <2>3
      <4>2. i # n + 1
        BY <2>3, <4>1 DEF f
      <4> QED
        BY <2>2, <4>1, <4>2, <1>2
    <3>3. ASSUME NEW k \in JoinedKeys(gs) PROVE k \in marks1
      <4>1. PICK i \in 1..n : IsJoiner(fs[i]) /\ fs[i].key = k
        BY <2>2
      <4>2. k \in marks
        BY <4>1, <2>1, <1>3
      <4> QED
        BY <2>3, <4>1, <4>2, <3>1
    <3> QED
      BY <3>2, <3>3
  <2>4. CASE ~IsField(f)
    <3>1. {j \in 1..n + 1 : IsJoiner(fs[j])} = {j \in 1..n : IsJoiner(fs[j])}
      BY <1>2, <1>3, <2>4 DEF f, IsJoiner
    <3> QED
      BY <3>1, <2>1, <2>2, <2>4
  <2> QED
    BY <2>3, <2>4
<1>10. Exact(gs, guard1, marks1)
  <2>1. Once(gs)
    BY <1>1, <1>3, <1>4 DEF Exact, Once
  <2>2. ASSUME NEW i \in 1..n, gs[i].what = "cycle"
        PROVE  gs[i].saved = GuardedKeys(gs, i - 1)
    <3>1. fs[i].saved = GuardedKeys(fs, i - 1)
      BY <2>2, <1>1, <1>3, <1>4 DEF Exact
    <3>2. i - 1 \in Nat /\ \A j \in 1..i - 1 : j \in 1..n
      BY <1>1
    <3>3. GuardedKeys(gs, i - 1) = GuardedKeys(fs, i - 1)
      BY <3>2, SameKeys
    <3> QED
      BY <3>1, <3>3
  <2> QED
    BY <1>1, <1>8, <1>9, <2>1, <2>2 DEF Exact
<1>11. OwnLookback(gs)
  BY <1>1, <1>3 DEF Structure, OwnLookback
<1>12. f.what = "cycle" => f.saved = guard
  <2>1. ASSUME f.what = "cycle" PROVE f.saved = guard
    <3>1. f.saved = GuardedKeys(fs, n)
      <4>1. f.saved = GuardedKeys(fs, (n + 1) - 1)
        BY <2>1, <1>1, <1>4 DEF Exact, f
      <4>2. (n + 1) - 1 = n
        OBVIOUS
      <4> QED
        BY <4>1, <4>2
    <3>2. ~IsGuarded(f)
      BY <2>1 DEF IsGuarded
    <3> QED
      BY <3>1, <3>2, <1>7, <1>8
  <2> QED
    BY <2>1
<1>13. Calls(fs[n], f.key)
  <2>1. n \in 1..Len(fs) - 1
    BY <1>1
  <2> QED
    BY <2>1 DEF Structure, Linked, f
<1>14. Structure(t, gs, guard1, marks1)
  BY <1>1, <1>5, <1>6, <1>9, <1>10, <1>11 DEF Structure
<1> QED
  BY <1>12, <1>13, <1>14 DEF f

(* A single frame, that of a field or of its fallback.                     *)
LEMMA SingleStructure ==
    ASSUME NEW t, NEW f \in Frame, OfTree(t, f), IsBottom(f), NEW marks,
           marks = IF IsJoiner(f) THEN {f.key} ELSE {}
    PROVE  <<f>> \in Seq(Frame) /\ Structure(t, <<f>>, {}, marks)
<1> DEFINE fs == <<f>>
<1>1. fs \in Seq(Frame) /\ Len(fs) = 1 /\ DOMAIN fs = {1} /\ fs[1] = f
  OBVIOUS
<1> HIDE DEF fs
<1>2. ~IsGuarded(f) /\ f.what # "cycle" /\ f.what # "lookback"
  BY DEF IsBottom, IsGuarded
<1>3. 1..Len(fs) - 1 = {} /\ 1..Len(fs) = {1}
  BY <1>1
<1>4. GuardedKeys(fs, Len(fs)) = {}
  BY <1>1, <1>2, <1>3 DEF GuardedKeys
<1>5. JoinedKeys(fs) = marks
  BY <1>1 DEF JoinedKeys
<1>6. Exact(fs, {}, marks)
  BY <1>1, <1>2, <1>4, <1>5 DEF Exact, Once
<1>7. Structure(t, fs, {}, marks)
  BY <1>1, <1>2, <1>3, <1>6 DEF Structure, OneBottom, Linked, NoReentry, OwnLookback
<1> QED
  BY <1>1, <1>7 DEF fs

(* With one frame nothing is guarded, and at most its key is marked.       *)
LEMMA SingleGuard ==
    ASSUME NEW t, NEW fs \in Seq(Frame), NEW guard, NEW marks, Len(fs) = 1,
           Structure(t, fs, guard, marks)
    PROVE  /\ guard = {}
           /\ marks = IF IsJoiner(fs[1]) THEN {fs[1].key} ELSE {}
           /\ IsBottom(fs[1])
<1>1. DOMAIN fs = {1} /\ 1..Len(fs) = {1}
  OBVIOUS
<1>2. IsBottom(fs[1])
  BY <1>1 DEF Structure, OneBottom
<1>3. ~IsGuarded(fs[1])
  BY <1>2 DEF IsBottom, IsGuarded
<1>4. guard = GuardedKeys(fs, Len(fs)) /\ marks = JoinedKeys(fs)
  BY DEF Structure, Exact
<1>5. guard = {}
  BY <1>1, <1>3, <1>4 DEF GuardedKeys
<1>6. marks = IF IsJoiner(fs[1]) THEN {fs[1].key} ELSE {}
  BY <1>1, <1>4 DEF JoinedKeys
<1> QED
  BY <1>2, <1>5, <1>6

(* With no frame at all neither.                                           *)
LEMMA NoFrames ==
    ASSUME NEW t, NEW guard, NEW marks
    PROVE  Structure(t, <<>>, guard, marks) <=> guard = {} /\ marks = {}
<1>1. DOMAIN <<>> = {} /\ Len(<<>>) = 0 /\ 1..0 = {} /\ 1..0 - 1 = {}
  OBVIOUS
<1>2. GuardedKeys(<<>>, Len(<<>>)) = {} /\ JoinedKeys(<<>>) = {}
  BY <1>1 DEF GuardedKeys, JoinedKeys
<1> QED
  BY <1>1, <1>2 DEF Structure, OneBottom, Linked, NoReentry, Exact, Once, OwnLookback

-----------------------------------------------------------------------------
(* What the parts of a tree are.                                           *)
LEMMA TreeParts ==
    ASSUME NEW t, IsTree(t)
    PROVE  /\ DOMAIN t.fields \in SUBSET Keys /\ DOMAIN t.priors \in SUBSET DOMAIN t.fields
           /\ \A k \in DOMAIN t.fields : t.fields[k] \in Layer
           /\ \A k \in DOMAIN t.priors : t.priors[k] \in Layer /\ ~ContainsSubst(t.priors[k], k)
           /\ t.order \in Seq(DOMAIN t.fields) /\ Len(t.order) \in Nat
           /\ \A i, j \in 1..Len(t.order) : t.order[i] = t.order[j] => i = j
BY DEF IsTree

(* The frame of a layer that is called, and that it is one of the tree's.  *)
LEMMA CalledFrame ==
    ASSUME TypeOK, NEW what \in Kinds, NEW k \in Fields, NEW layer,
           what \in {"field", "found"} => layer = tree.fields[k],
           what \notin {"field", "found"} => k \in Priors /\ layer = tree.priors[k]
    PROVE  /\ Evaluating(what, k, layer) \in Frame
           /\ OfTree(tree, Evaluating(what, k, layer))
<1> DEFINE f == Evaluating(what, k, layer)
<1>1. /\ k \in Keys /\ layer \in Layer
      /\ Nothing \in Value /\ 1 \in Nat /\ resolving \in SUBSET Keys
  <2>1. k \in Keys /\ layer \in Layer
    <3>1. IsTree(tree)
      BY DEF TypeOK
    <3>2. k \in DOMAIN tree.fields
      BY DEF Fields
    <3>3. k \in Keys
      BY <3>1, <3>2, TreeParts
    <3>a. /\ \A j \in DOMAIN tree.fields : tree.fields[j] \in Layer
          /\ \A j \in DOMAIN tree.priors : tree.priors[j] \in Layer
      BY <3>1, TreeParts
    <3>4. CASE what \in {"field", "found"}
      BY <3>a, <3>2, <3>3, <3>4
    <3>5. CASE what \notin {"field", "found"}
      BY <3>a, <3>3, <3>5 DEF Priors
    <3> QED
      BY <3>3, <3>4, <3>5
  <2> QED
    BY <2>1 DEF TypeOK, Nothing, Value, Text
<1>2. f \in Frame
  BY <1>1 DEF Evaluating, Frame
<1>3. /\ f.what = what /\ f.key = k /\ f.layer = layer /\ f.at = 1
  BY DEF Evaluating
<1>4. Len(layer) \in Nat
  BY <1>1 DEF Layer
<1>5. OfTree(tree, f)
  <2>1. IsField(f) => layer = tree.fields[k]
    BY <1>3 DEF IsField
  <2>2. LooksBack(f) => k \in Priors /\ layer = tree.priors[k]
    BY <1>3 DEF LooksBack
  <2>3. 1 \in 1..Len(layer) + 1
    BY <1>4
  <2> QED
    BY <1>3, <2>1, <2>2, <2>3 DEF OfTree, Fields, Priors
<1> QED
  BY <1>2, <1>5

(* The frame at the top, the reference it stands at and its owner.         *)
LEMMA TopFrame ==
    ASSUME IInv, Waiting
    PROVE  /\ Len(frames) \in Nat \ {0} /\ Top \in Frame /\ OfTree(tree, Top)
           /\ Len(Top.layer) \in Nat /\ Top.at \in Nat
           /\ Top.at <= Len(Top.layer) => Ref \in Part
<1>1. frames \in Seq(Frame) /\ frames # <<>> /\ Structure(tree, frames, resolving, concats)
  BY DEF IInv, TypeOK, Waiting
<1>2. Len(frames) \in Nat \ {0} /\ Len(frames) \in DOMAIN frames
  BY <1>1
<1>3. Top \in Frame /\ OfTree(tree, Top)
  BY <1>1, <1>2 DEF Top, Structure
<1>4. Len(Top.layer) \in Nat /\ Top.at \in Nat
  BY <1>3, FrameParts
<1>5. Top.at \in 1..Len(Top.layer) + 1
  BY <1>3 DEF OfTree
<1> QED
  BY <1>2, <1>3, <1>4, <1>5, PartAt DEF Ref

(* Changing the last element of a sequence.                                *)
LEMMA LastChanged ==
    ASSUME NEW S, NEW s \in Seq(S), NEW n \in Nat \ {0}, Len(s) = n, NEW x \in S
    PROVE  /\ [s EXCEPT ![n] = x] \in Seq(S) /\ Len([s EXCEPT ![n] = x]) = n
           /\ \A i \in 1..n : i # n => [s EXCEPT ![n] = x][i] = s[i]
           /\ [s EXCEPT ![n] = x][n] = x
OBVIOUS

(* The step of a part: the last frame takes a value.                       *)
LEMMA TakeStep ==
    ASSUME IInv, AtPart, NEW v \in Value, Take(v),
           UNCHANGED <<tree, resolving, concats, result, next, outcome>>, cache' \in [Keys -> Value]
    PROVE  IInv'
<1> DEFINE n == Len(frames)
<1>1. /\ frames \in Seq(Frame) /\ n \in Nat \ {0} /\ n \in 1..n /\ frames[n] \in Frame
      /\ 1 \in 1..n /\ DOMAIN frames = 1..n
  BY TopFrame DEF AtPart, IInv, TypeOK, Top
<1>2. Taken(frames[n], v) \in Frame
  BY <1>1, TakenParts
<1>3. /\ frames' \in Seq(Frame) /\ Len(frames') = n
      /\ \A i \in 1..n : i # n => frames'[i] = frames[i]
      /\ frames'[n] = Taken(frames[n], v)
  <2>1. frames' = [frames EXCEPT ![n] = Taken(frames[n], v)]
    BY DEF Take
  <2>2. Len(frames) = n
    OBVIOUS
  <2> HIDE DEF n
  <2> QED
    BY <1>1, <1>2, <2>1, <2>2, LastChanged
<1>4. frames'[1].key = frames[1].key /\ Structure(tree, frames', resolving, concats)
  <2>1. Structure(tree, frames, resolving, concats) /\ frames[n].at <= Len(frames[n].layer)
    BY DEF IInv, AtPart, Top
  <2>2. /\ n \in Nat \ {0} /\ Len(frames) = n
    BY <1>1
  <2> HIDE DEF n
  <2> QED
    BY <1>1, <1>3, <2>1, <2>2, TakeKeepsStructure
<1>5. TypeOK'
  BY <1>3 DEF IInv, TypeOK
<1>6. InTurn'
  <2>1. frames # <<>>
    BY <1>1
  <2> QED
    BY <1>4, <2>1 DEF IInv, InTurn
<1> QED
  BY <1>4, <1>5, <1>6 DEF IInv

(* The step that raises an exception.                                      *)
LEMMA RaiseStep ==
    ASSUME IInv, NEW why \in Outcomes \ {"running", "resolved"}, Raise(why)
    PROVE  IInv'
BY DEF IInv, TypeOK, InTurn, Raise

(* A reference that nothing provides is nothing, or an exception.          *)
LEMMA UnprovidedStep ==
    ASSUME IInv, AtPart, NEW why \in Outcomes \ {"running", "resolved"}, Unprovided(why)
    PROVE  IInv'
<1>1. Nothing \in Value
  BY DEF Nothing, Value, Text
<1>2. CASE Raise(why)
  BY <1>2, RaiseStep
<1>3. CASE Take(Nothing) /\ UNCHANGED <<tree, cache, resolving, concats, result, next, outcome>>
  <2>1. cache' \in [Keys -> Value]
    BY <1>3 DEF IInv, TypeOK
  <2> QED
    BY <1>1, <1>3, <2>1, TakeStep
<1> QED
  BY <1>2, <1>3 DEF Unprovided
(* The step that calls the layer of a key.                                 *)
LEMMA CallStep ==
    ASSUME IInv, AtReference, ~Ref.absent, Ref.key \in Fields,
           NEW what \in {"found", "lookback", "cycle"}, NEW layer, NEW guards, NEW joining,
           Call(what, layer, guards, joining),
           what = "found" =>
               /\ layer = tree.fields[Ref.key] /\ Top.key # Ref.key /\ joining = Joining(Ref.key)
               /\ IsConcat(layer) => Ref.key \notin concats,
           what # "found" =>
               Ref.key \in Priors /\ layer = tree.priors[Ref.key] /\ joining = concats,
           what \in {"found", "lookback"} =>
               Ref.key \notin resolving /\ guards = resolving \cup {Ref.key},
           what = "lookback" => Ref.key = Owner,
           what = "cycle" => guards = resolving
    PROVE  IInv'
<1> DEFINE f == Evaluating(what, Ref.key, layer)
<1>1. /\ TypeOK /\ Structure(tree, frames, resolving, concats) /\ frames \in Seq(Frame)
      /\ frames # <<>> /\ Len(frames) \in Nat /\ InTurn
  BY DEF IInv, TypeOK, AtReference, AtPart, Waiting
<1>2. f \in Frame /\ OfTree(tree, f)
  <2>1. what \in Kinds
    BY DEF Kinds
  <2> QED
    BY <1>1, <2>1, CalledFrame
<1>3. /\ f.what = what /\ f.key = Ref.key /\ f.layer = layer /\ f.saved = resolving
  BY DEF Evaluating
<1>4. CASE Raise("recursion")
  <2>1. "recursion" \in Outcomes \ {"running", "resolved"}
    BY DEF Outcomes
  <2> QED
    BY <1>4, <2>1, RaiseStep
<1>5. CASE /\ frames' = Append(frames, f)
           /\ resolving' = guards
           /\ concats' = joining
           /\ UNCHANGED <<tree, cache, result, next, outcome>>
  <2>1. Calls(frames[Len(frames)], f.key) /\ frames[Len(frames)] = Top
    BY <1>3 DEF Calls, AtReference, AtPart, Top, Ref, RefersTo
  <2>2. ~IsBottom(f) /\ (IsGuarded(f) <=> what # "cycle") /\ (IsField(f) <=> what = "found")
    BY <1>3 DEF IsBottom, IsGuarded, IsField
  <2>3. guards = IF IsGuarded(f) THEN resolving \cup {f.key} ELSE resolving
    BY <1>3, <2>2
  <2>4. joining = IF IsJoiner(f) THEN concats \cup {f.key} ELSE concats
    BY <1>3, <2>2 DEF IsJoiner, Joining
  <2>5. /\ f.what = "found" => frames[Len(frames)].key # f.key
        /\ IsGuarded(f) => f.key \notin resolving
        /\ IsJoiner(f) => f.key \notin concats
        /\ f.what = "lookback" => f.key = frames[1].key
        /\ f.what = "cycle" => f.saved = resolving
    BY <1>3, <2>1, <2>2 DEF IsJoiner, Owner
  <2> HIDE DEF f
  <2>6. /\ Append(frames, f) \in Seq(Frame) /\ Append(frames, f)[1] = frames[1]
        /\ Structure(tree, Append(frames, f), guards, joining)
    BY <1>1, <1>2, <2>1, <2>2, <2>3, <2>4, <2>5, CallKeepsStructure
  <2>7. Ref.key \in Keys
    BY <1>1, TreeParts DEF TypeOK, Fields
  <2>8. resolving' \in SUBSET Keys /\ concats' \in SUBSET Keys
    BY <1>1, <1>3, <1>5, <2>3, <2>4, <2>7 DEF TypeOK
  <2>9. TypeOK'
    BY <1>1, <1>5, <2>6, <2>8 DEF TypeOK
  <2>10. InTurn'
    BY <1>1, <1>5, <2>6 DEF InTurn
  <2> QED
    BY <1>5, <2>6, <2>9, <2>10 DEF IInv
<1> QED
  BY <1>4, <1>5 DEF Call

(* The guarded keys and the marked ones, one by one.                       *)
LEMMA GuardAndMarks ==
    ASSUME IInv
    PROVE  /\ \A i \in DOMAIN frames : IsGuarded(frames[i]) => frames[i].key \in resolving
           /\ \A k \in resolving : \E i \in DOMAIN frames : IsGuarded(frames[i]) /\ frames[i].key = k
           /\ \A k \in concats : \E i \in DOMAIN frames : IsJoiner(frames[i]) /\ frames[i].key = k
           /\ \A i \in DOMAIN frames : IsBottom(frames[i]) <=> i = 1
           /\ \A i \in DOMAIN frames : OfTree(tree, frames[i])
<1>1. Structure(tree, frames, resolving, concats) /\ DOMAIN frames = 1..Len(frames)
  BY DEF IInv, TypeOK
<1>2. Exact(frames, resolving, concats) /\ OneBottom(frames)
  BY <1>1 DEF Structure
<1> QED
  BY <1>1, <1>2 DEF Exact, GuardedKeys, JoinedKeys, OneBottom, Structure

(* A reference to the key of its own layer, unless the guard has the key,  *)
(* looks back; and what looks back is the field in turn.                   *)
LEMMA WhoLooksBack ==
    ASSUME IInv, Unguarded, Ref.key \in Fields
    PROVE  /\ IsSelfRef(Ref.key) => Ref.key = Owner
           /\ Top.key = Ref.key => IsSelfRef(Ref.key)
<1>1. /\ Waiting /\ IsReference(Ref) /\ ~Ref.absent /\ Ref.key \notin resolving
      /\ Top.at <= Len(Top.layer)
  BY DEF Unguarded, Uncached, AtReference, AtPart
<1>2. /\ Len(frames) \in DOMAIN frames /\ Top = frames[Len(frames)] /\ OfTree(tree, Top)
      /\ IsTree(tree) /\ Top \in Frame /\ Top.at \in 1..Len(Top.layer)
  <2>1. Top.at \in 1..Len(Top.layer) + 1 /\ Len(Top.layer) \in Nat
    BY <1>1, TopFrame DEF OfTree
  <2> QED
    BY <1>1, <2>1, TopFrame DEF Top, IInv, TypeOK
<1>3. ASSUME IsSelfRef(Ref.key) PROVE Ref.key = Owner
  <2>1. CASE Ref.key \in concats
    <3>1. PICK i \in DOMAIN frames : IsJoiner(frames[i]) /\ frames[i].key = Ref.key
      BY <2>1, GuardAndMarks
    <3>2. ~IsGuarded(frames[i])
      BY <1>1, <3>1, GuardAndMarks
    <3>3. IsBottom(frames[i])
      BY <3>1, <3>2 DEF IsJoiner, IsField, IsGuarded, IsBottom
    <3> QED
      BY <3>1, <3>3, GuardAndMarks DEF Owner
  <2> QED
    BY <1>3, <2>1 DEF IsSelfRef
<1>4. ASSUME Top.key = Ref.key PROVE IsSelfRef(Ref.key)
  <2>1. ContainsSubst(Top.layer, Top.key)
    <3>1. RefersTo(Top.layer[Top.at], Top.key)
      BY <1>1, <1>4 DEF RefersTo, Ref
    <3>2. Top.at \in DOMAIN Top.layer
      BY <1>2, FrameParts DEF Layer
    <3> QED
      BY <3>1, <3>2 DEF ContainsSubst
  <2>2. ~LooksBack(Top)
    BY <1>2, <2>1, TreeParts DEF OfTree
  <2>3. ~IsGuarded(Top)
    BY <1>1, <1>2, <1>4, GuardAndMarks
  <2>4. Top.what = "field"
    BY <1>2, <2>2, <2>3, FrameParts DEF LooksBack, IsGuarded, Kinds
  <2>5. Len(frames) = 1
    BY <1>2, <2>4, GuardAndMarks DEF IsBottom
  <2>6. Top.layer = tree.fields[Top.key]
    BY <1>2, <2>4 DEF OfTree, IsField
  <2> QED
    BY <1>2, <1>4, <2>1, <2>5, <2>6 DEF IsSelfRef, Owner
<1> QED
  BY <1>3, <1>4
-----------------------------------------------------------------------------
LEMMA InitInv == Init => IInv
<1> SUFFICES ASSUME Init PROVE IInv
  OBVIOUS
<1>1. IsTree(tree)
  BY TreesAssumption DEF Init
<1>2. <<>> \in Seq(Frame)
  OBVIOUS
<1>3. Nothing \in Value
  BY DEF Nothing, Value, Text
<1>4. Len(tree.order) \in Nat
  BY <1>1, TreeParts
<1>5. TypeOK
  BY <1>1, <1>2, <1>3, <1>4 DEF Init, TypeOK, Outcomes
<1>6. Structure(tree, frames, resolving, concats)
  BY NoFrames DEF Init
<1> QED
  BY <1>5, <1>6 DEF Init, IInv, InTurn

LEMMA EnterFieldInv == IInv /\ EnterField => IInv'
<1> SUFFICES ASSUME IInv, EnterField PROVE IInv'
  OBVIOUS
<1> DEFINE k == tree.order[next]
           f == Evaluating("field", k, tree.fields[k])
<1>1. TypeOK /\ frames = <<>> /\ outcome = "running" /\ next <= Len(tree.order)
  BY DEF IInv, EnterField
<1>2. resolving = {} /\ concats = {}
  BY <1>1, NoFrames DEF IInv
<1>3. k \in Fields /\ next \in 1..Len(tree.order) /\ k \in Keys
  <2>1. IsTree(tree) /\ next \in 1..Len(tree.order) + 1
    BY <1>1 DEF TypeOK
  <2>2. tree.order \in Seq(Fields) /\ Len(tree.order) \in Nat /\ Fields \in SUBSET Keys
    BY <2>1, TreeParts DEF Fields
  <2> QED
    BY <1>1, <2>1, <2>2
<1>4. f \in Frame /\ OfTree(tree, f)
  <2>1. "field" \in Kinds
    BY DEF Kinds
  <2> QED
    BY <1>1, <1>3, <2>1, CalledFrame
<1>5. /\ f.what = "field" /\ f.key = k /\ f.layer = tree.fields[k]
  BY DEF Evaluating
<1>6. /\ frames' = <<f>> /\ cache' = [cache EXCEPT ![k] = Nothing] /\ concats' = Joining(k)
      /\ UNCHANGED <<tree, resolving, result, next, outcome>>
  BY DEF EnterField, Entered
<1>7. IsBottom(f) /\ Joining(k) = IF IsJoiner(f) THEN {f.key} ELSE {}
  BY <1>2, <1>5 DEF IsBottom, IsJoiner, IsField, Joining
<1> HIDE DEF f
<1>8. <<f>> \in Seq(Frame) /\ Structure(tree, <<f>>, {}, Joining(k))
  BY <1>4, <1>7, SingleStructure
<1>9. Joining(k) \in SUBSET Keys
  BY <1>3, <1>5, <1>7
<1>10. Nothing \in Value
  BY DEF Nothing, Value, Text
<1>11. TypeOK'
  <2>1. cache' \in [Keys -> Value]
    BY <1>1, <1>3, <1>6, <1>10 DEF TypeOK
  <2> HIDE DEF k
  <2> QED
    BY <1>1, <1>6, <1>8, <1>9, <2>1 DEF TypeOK
<1>12. InTurn'
  BY <1>1, <1>5, <1>6 DEF InTurn
<1> QED
  BY <1>2, <1>6, <1>8, <1>11, <1>12 DEF IInv

LEMMA FinishInv == IInv /\ Finish => IInv'
BY DEF IInv, Finish, TypeOK, InTurn, Outcomes

LEMMA TakeTextInv == IInv /\ TakeText => IInv'
<1> SUFFICES ASSUME IInv, TakeText PROVE IInv'
  OBVIOUS
<1>1. Ref \in Part /\ ~IsReference(Ref)
  BY TopFrame DEF TakeText, AtPart
<1>2. Some(Ref.text) \in Value
  BY <1>1, PartKinds DEF Some, Value
<1>3. cache' \in [Keys -> Value]
  BY DEF TakeText, IInv, TypeOK
<1> QED
  BY <1>2, <1>3, TakeStep DEF TakeText

(* The exceptions of references that lead nowhere.                         *)
LEMMA RaisedOutcomes ==
    {"could not resolve", "circular", "recursion"} \in SUBSET (Outcomes \ {"running", "resolved"})
BY DEF Outcomes

LEMMA KnownAbsentInv == IInv /\ KnownAbsent => IInv'
BY UnprovidedStep, RaisedOutcomes DEF KnownAbsent, AtReference

LEMMA CachedInv == IInv /\ Cached => IInv'
<1> SUFFICES ASSUME IInv, Cached PROVE IInv'
  OBVIOUS
<1>1. Ref \in Part /\ IsReference(Ref) /\ AtPart
  BY TopFrame DEF Cached, AtReference, AtPart
<1>2. Ref.key \in Keys /\ cache \in [Keys -> Value]
  BY <1>1, PartKinds DEF IInv, TypeOK
<1>3. cache[Ref.key] \in Value /\ cache' \in [Keys -> Value]
  BY <1>2 DEF Cached
<1> QED
  BY <1>1, <1>3, TakeStep DEF Cached

LEMMA CycleInv == IInv /\ Cycle => IInv'
<1> SUFFICES ASSUME IInv, Cycle PROVE IInv'
  OBVIOUS
<1>1. AtReference /\ AtPart /\ ~Ref.absent
  BY DEF Cycle, Uncached, AtReference
<1>2. CASE Ref.key \in Priors /\ Call("cycle", tree.priors[Ref.key], resolving, concats)
  <2>1. Ref.key \in Fields
    BY <1>2, TreeParts DEF Priors, Fields, IInv, TypeOK
  <2> QED
    BY <1>1, <1>2, <2>1, CallStep
<1>3. CASE Unprovided("circular")
  BY <1>1, <1>3, UnprovidedStep, RaisedOutcomes
<1> QED
  BY <1>2, <1>3 DEF Cycle

LEMMA LookBackInv == IInv /\ LookBack => IInv'
<1> SUFFICES ASSUME IInv, LookBack PROVE IInv'
  OBVIOUS
<1>1. /\ AtReference /\ AtPart /\ ~Ref.absent /\ Unguarded /\ Ref.key \in Fields
      /\ IsSelfRef(Ref.key) /\ Ref.key \notin resolving
  BY DEF LookBack, Unguarded, Uncached, AtReference
<1>2. CASE /\ Ref.key \in Priors
           /\ Call("lookback", tree.priors[Ref.key], resolving \cup {Ref.key}, concats)
  <2>1. Ref.key = Owner
    BY <1>1, WhoLooksBack
  <2> QED
    BY <1>1, <1>2, <2>1, CallStep
<1>3. CASE Unprovided("could not resolve")
  BY <1>1, <1>3, UnprovidedStep, RaisedOutcomes
<1> QED
  BY <1>2, <1>3 DEF LookBack

LEMMA FollowInv == IInv /\ Follow => IInv'
<1> SUFFICES ASSUME IInv, Follow PROVE IInv'
  OBVIOUS
<1>1. /\ AtReference /\ ~Ref.absent /\ Unguarded /\ Ref.key \in Fields
      /\ ~IsSelfRef(Ref.key) /\ Ref.key \notin resolving
      /\ Call("found", tree.fields[Ref.key], resolving \cup {Ref.key}, Joining(Ref.key))
  BY DEF Follow, Unguarded, Uncached
<1>2. Top.key # Ref.key
  BY <1>1, WhoLooksBack
<1>3. IsConcat(tree.fields[Ref.key]) => Ref.key \notin concats
  BY <1>1 DEF IsSelfRef
<1> QED
  BY <1>1, <1>2, <1>3, CallStep

(* What a remembered value makes of the cache.                             *)
LEMMA RememberedType ==
    ASSUME cache \in [Keys -> Value], NEW k \in Keys, NEW v \in Value
    PROVE  Remembered(k, v) \in [Keys -> Value]
BY DEF Remembered

LEMMA FromEnvironmentInv == IInv /\ FromEnvironment => IInv'
<1> SUFFICES ASSUME IInv, FromEnvironment PROVE IInv'
  OBVIOUS
<1>1. AtReference /\ AtPart
  BY DEF FromEnvironment, Unguarded, Uncached, AtReference
<1>2. Ref.key \in Keys /\ cache \in [Keys -> Value]
  BY <1>1, TopFrame, PartKinds DEF AtReference, AtPart, IInv, TypeOK
<1> DEFINE v == Some(Environment[Ref.key])
<1>3. CASE /\ Ref.key \in DOMAIN Environment
           /\ Take(v) /\ cache' = Remembered(Ref.key, v)
           /\ UNCHANGED <<tree, resolving, concats, result, next, outcome>>
  <2>1. v \in Value
    BY <1>3, EnvironmentAssumption DEF Some, Value
  <2> HIDE DEF v
  <2>2. cache' \in [Keys -> Value]
    BY <1>2, <1>3, <2>1, RememberedType
  <2> QED
    BY <1>1, <1>3, <2>1, <2>2, TakeStep
<1>4. CASE Unprovided("could not resolve")
  BY <1>1, <1>4, UnprovidedStep, RaisedOutcomes
<1> QED
  BY <1>3, <1>4 DEF FromEnvironment
-----------------------------------------------------------------------------
(* A referenced layer is done: without its frame, the one before takes its *)
(* value.  The frame of a field, in turn or fallen back, has none before.  *)
LEMMA BackStep ==
    ASSUME IInv, AtEnd, ~IsBottom(Top), Back(Top.value),
           resolving' = IF IsGuarded(Top) THEN resolving \ {Top.key} ELSE resolving,
           concats' = IF IsField(Top) THEN concats \ {Top.key} ELSE concats,
           cache' \in [Keys -> Value], UNCHANGED <<tree, result, next, outcome>>
    PROVE  IInv'
<1>1. /\ TypeOK /\ Structure(tree, frames, resolving, concats) /\ frames \in Seq(Frame)
      /\ frames # <<>> /\ Len(frames) \in Nat \ {0} /\ Top = frames[Len(frames)]
      /\ Len(frames) \in DOMAIN frames
  BY DEF IInv, TypeOK, AtEnd, Waiting, Top
<1>2. Len(frames) # 1
  BY <1>1, GuardAndMarks
<1>3. PICK n \in Nat \ {0} : Len(frames) = n + 1
  <2>1. Len(frames) - 1 \in Nat \ {0} /\ Len(frames) = (Len(frames) - 1) + 1
    BY <1>1, <1>2
  <2> QED
    BY <2>1
<1> DEFINE gs == [i \in 1..n |-> frames[i]]
           v == Top.value
<1>4. /\ gs \in Seq(Frame) /\ Len(gs) = n /\ DOMAIN frames = 1..n + 1
      /\ n \in 1..n /\ 1 \in 1..n /\ Len(frames) - 1 = n
      /\ \A i \in 1..n : gs[i] = frames[i] /\ frames[i] \in Frame
  BY <1>1, <1>3
<1>5. v \in Value
  BY <1>1, FrameParts
<1>6. frames' = [i \in 1..n |-> IF i = n THEN Taken(frames[i], v) ELSE frames[i]]
  BY <1>4 DEF Back
<1>7. Taken(frames[n], v) \in Frame
  BY <1>4, <1>5, TakenParts
<1>8. /\ frames' \in Seq(Frame) /\ Len(frames') = n
      /\ \A i \in 1..n : i # n => frames'[i] = gs[i]
      /\ frames'[n] = Taken(gs[n], v)
  BY <1>4, <1>6, <1>7
<1> HIDE DEF gs, v
<1>9. /\ Structure(tree, gs, resolving', concats')
      /\ Calls(frames[n], frames[n + 1].key)
  <2>1. Top = frames[n + 1]
    BY <1>1, <1>3
  <2>2. Structure(tree, frames, resolving, concats) /\ frames \in Seq(Frame) /\ Len(frames) = n + 1
    BY <1>1, <1>3
  <2>3. /\ resolving' = IF IsGuarded(frames[n + 1]) THEN resolving \ {frames[n + 1].key} ELSE resolving
        /\ concats' = IF IsField(frames[n + 1]) THEN concats \ {frames[n + 1].key} ELSE concats
    BY <2>1
  <2>4. gs \in Seq(Frame) /\ Len(gs) = n /\ \A i \in 1..n : gs[i] = frames[i]
    BY <1>4
  <2>5. /\ Structure(tree, gs,
              IF IsGuarded(frames[n + 1]) THEN resolving \ {frames[n + 1].key} ELSE resolving,
              IF IsField(frames[n + 1]) THEN concats \ {frames[n + 1].key} ELSE concats)
        /\ Calls(frames[n], frames[n + 1].key)
    BY <2>2, <2>4, DropKeepsStructure, ZenonT(40)
  <2> QED
    BY <2>3, <2>5
<1>10. gs[n].at <= Len(gs[n].layer)
  BY <1>4, <1>9 DEF Calls
<1>11. frames'[1].key = gs[1].key /\ Structure(tree, frames', resolving', concats')
  BY <1>4, <1>5, <1>8, <1>9, <1>10, TakeKeepsStructure, SMTT(40)
<1>12. resolving' \in SUBSET Keys /\ concats' \in SUBSET Keys
  BY <1>1 DEF TypeOK
<1>13. TypeOK'
  BY <1>1, <1>8, <1>12 DEF TypeOK
<1>14. InTurn'
  BY <1>1, <1>4, <1>11 DEF IInv, InTurn
<1> QED
  BY <1>11, <1>13, <1>14 DEF IInv

(* The type of what the last frame has.                                    *)
LEMMA TopType ==
    ASSUME IInv, AtEnd
    PROVE  /\ Top.key \in Keys /\ Top.value \in Value /\ Top.what \in Kinds
           /\ Top.key \in Fields /\ cache \in [Keys -> Value]
           /\ Remembered(Top.key, Top.value) \in [Keys -> Value]
<1>1. Top \in Frame /\ OfTree(tree, Top) /\ cache \in [Keys -> Value]
  BY TopFrame DEF AtEnd, IInv, TypeOK
<1> QED
  BY <1>1, FrameParts, RememberedType DEF OfTree, Fields

LEMMA ReturnInv == IInv /\ Return => IInv'
<1> SUFFICES ASSUME IInv, Return PROVE IInv'
  OBVIOUS
<1>1. AtEnd /\ Top.what \in {"found", "lookback"}
  BY DEF Return
<1>2. ~IsBottom(Top) /\ IsGuarded(Top) /\ (IsField(Top) <=> Top.what = "found")
  BY <1>1 DEF IsBottom, IsGuarded, IsField
<1> QED
  BY <1>1, <1>2, BackStep, TopType DEF Return

LEMMA ReturnFromCycleInv == IInv /\ ReturnFromCycle => IInv'
<1> SUFFICES ASSUME IInv, ReturnFromCycle PROVE IInv'
  OBVIOUS
<1>1. AtEnd /\ Top.what = "cycle"
  BY DEF ReturnFromCycle
<1>2. ~IsBottom(Top) /\ ~IsGuarded(Top) /\ ~IsField(Top)
  BY <1>1 DEF IsBottom, IsGuarded, IsField
<1>3. Top.saved = resolving
  <2>1. /\ Structure(tree, frames, resolving, concats) /\ Len(frames) \in DOMAIN frames
        /\ frames \in Seq(Frame) /\ Top = frames[Len(frames)] /\ Len(frames) \in Nat \ {0}
    BY <1>1 DEF IInv, TypeOK, AtEnd, Waiting, Top
  <2>2. Top.saved = GuardedKeys(frames, Len(frames) - 1)
    BY <1>1, <2>1 DEF Structure, Exact
  <2>3. resolving = GuardedKeys(frames, Len(frames))
    BY <2>1 DEF Structure, Exact
  <2>4. \A i \in 1..Len(frames) : i \in 1..Len(frames) - 1 \/ i = Len(frames)
    BY <2>1
  <2>5. \A i \in 1..Len(frames) - 1 : i \in 1..Len(frames)
    BY <2>1
  <2>6. ~IsGuarded(frames[Len(frames)])
    BY <1>2, <2>1
  <2>7. {j \in 1..Len(frames) : IsGuarded(frames[j])}
            = {j \in 1..Len(frames) - 1 : IsGuarded(frames[j])}
    BY <2>4, <2>5, <2>6
  <2> QED
    BY <2>2, <2>3, <2>7 DEF GuardedKeys
<1>4. cache' \in [Keys -> Value]
  BY TopType, <1>1 DEF ReturnFromCycle
<1> QED
  BY <1>1, <1>2, <1>3, <1>4, BackStep DEF ReturnFromCycle

(* The frame of a field is the only one, and the guard is empty.           *)
LEMMA BottomFrame ==
    ASSUME IInv, AtEnd, IsBottom(Top)
    PROVE  /\ Len(frames) = 1 /\ frames[1] = Top /\ resolving = {}
           /\ concats = IF IsJoiner(Top) THEN {Top.key} ELSE {}
           /\ next \in 1..Len(tree.order) /\ Top.key = tree.order[next]
<1>1. /\ TypeOK /\ Structure(tree, frames, resolving, concats) /\ InTurn /\ frames # <<>>
      /\ Len(frames) \in DOMAIN frames /\ Top = frames[Len(frames)]
  BY DEF IInv, TypeOK, AtEnd, Waiting, Top
<1>2. Len(frames) = 1 /\ frames[1] = Top
  BY <1>1, GuardAndMarks
<1>3. frames \in Seq(Frame) /\ IsTree(tree) /\ next \in 1..Len(tree.order) + 1
  BY <1>1 DEF TypeOK
<1>4. Len(tree.order) \in Nat
  BY <1>3, TreeParts
<1>5. next <= Len(tree.order) /\ Top.key = tree.order[next]
  BY <1>1, <1>2 DEF InTurn
<1>6. resolving = {} /\ concats = IF IsJoiner(frames[1]) THEN {frames[1].key} ELSE {}
  BY <1>1, <1>2, <1>3, SingleGuard
<1>7. next \in 1..Len(tree.order)
  BY <1>3, <1>4, <1>5
<1> QED
  BY <1>2, <1>5, <1>6, <1>7

LEMMA FallBackInv == IInv /\ FallBack => IInv'
<1> SUFFICES ASSUME IInv, FallBack PROVE IInv'
  OBVIOUS
<1> DEFINE f == Evaluating("fallback", Top.key, tree.priors[Top.key])
<1>1. AtEnd /\ Top.what = "field" /\ Top.key \in Priors /\ IsBottom(Top)
  BY DEF FallBack, IsBottom
<1>2. TypeOK /\ Top.key \in Fields
  BY <1>1, TopType DEF IInv
<1>3. f \in Frame /\ OfTree(tree, f)
  BY <1>1, <1>2, CalledFrame DEF Kinds
<1>4. f.what = "fallback" /\ f.key = Top.key
  BY DEF Evaluating
<1>5. IsBottom(f) /\ ~IsJoiner(f)
  BY <1>4 DEF IsBottom, IsJoiner, IsField
<1>6. /\ frames' = <<f>> /\ concats' = concats \ {Top.key}
      /\ UNCHANGED <<tree, cache, resolving, result, next, outcome>>
  BY DEF FallBack
<1> HIDE DEF f
<1>7. <<f>> \in Seq(Frame) /\ Structure(tree, <<f>>, {}, {})
  BY <1>3, <1>5, SingleStructure
<1>8. resolving = {} /\ concats' = {}
  BY <1>1, <1>6, BottomFrame
<1>9. TypeOK'
  BY <1>2, <1>6, <1>7, <1>8 DEF TypeOK
<1>10. frames'[1].key = frames[1].key /\ frames # <<>>
  BY <1>1, <1>4, <1>6, BottomFrame DEF AtEnd, Waiting
<1>11. InTurn'
  BY <1>6, <1>10 DEF IInv, InTurn
<1> QED
  BY <1>6, <1>7, <1>8, <1>9, <1>11 DEF IInv

(* The step that stores the value of a field.                              *)
LEMMA StoreStep ==
    ASSUME IInv, AtEnd, IsBottom(Top), Stored(Top.key, Top.value), concats' = {}
    PROVE  IInv'
<1>1. /\ frames' = <<>> /\ cache' = Remembered(Top.key, Top.value)
      /\ result' = [result EXCEPT ![Top.key] = Top.value]
      /\ next' = next + 1 /\ UNCHANGED <<tree, resolving, outcome>>
  BY DEF Stored
<1>2. resolving = {} /\ next \in 1..Len(tree.order) /\ TypeOK
  BY BottomFrame DEF IInv
<1>3. Structure(tree, frames', resolving', concats')
  BY <1>1, <1>2, NoFrames
<1>4. next' \in 1..Len(tree.order) + 1
  <2>1. Len(tree.order) \in Nat
    BY <1>2, TreeParts DEF TypeOK
  <2> QED
    BY <1>1, <1>2, <2>1
<1>5. <<>> \in Seq(Frame)
  OBVIOUS
<1>6. TypeOK'
  <2>1. cache' \in [Keys -> Value] /\ result' \in [Keys -> Value]
    BY <1>1, <1>2, TopType DEF TypeOK
  <2>2. resolving' \in SUBSET Keys /\ outcome' \in Outcomes /\ IsTree(tree')
    BY <1>1, <1>2 DEF TypeOK
  <2>3. Len(tree'.order) = Len(tree.order)
    BY <1>1
  <2> QED
    BY <1>1, <1>4, <1>5, <2>1, <2>2, <2>3 DEF TypeOK
<1>7. InTurn'
  BY <1>1 DEF InTurn
<1> QED
  BY <1>1, <1>3, <1>6, <1>7 DEF IInv

LEMMA StoreFieldInv == IInv /\ StoreField => IInv'
<1> SUFFICES ASSUME IInv, StoreField PROVE IInv'
  OBVIOUS
<1>1. AtEnd /\ IsBottom(Top) /\ Stored(Top.key, Top.value) /\ concats' = concats \ {Top.key}
  BY DEF StoreField, IsBottom
<1>2. concats' = {}
  BY <1>1, BottomFrame
<1> QED
  BY <1>1, <1>2, StoreStep

LEMMA StoreFallbackInv == IInv /\ StoreFallback => IInv'
<1> SUFFICES ASSUME IInv, StoreFallback PROVE IInv'
  OBVIOUS
<1>1. /\ AtEnd /\ IsBottom(Top) /\ Stored(Top.key, Top.value) /\ concats' = concats
      /\ ~IsJoiner(Top)
  BY DEF StoreFallback, IsBottom, IsJoiner, IsField
<1>2. concats' = {}
  BY <1>1, BottomFrame
<1> QED
  BY <1>1, <1>2, StoreStep

(* The invariant holds in every step, whatever it is.                      *)
LEMMA StepInv == IInv /\ [Next]_vars => IInv'
<1>1. CASE UNCHANGED vars
  BY <1>1 DEF vars, IInv, TypeOK, InTurn
<1> QED
  BY <1>1, EnterFieldInv, FinishInv, TakeTextInv, KnownAbsentInv, CachedInv, CycleInv,
     LookBackInv, FollowInv, FromEnvironmentInv, ReturnInv, ReturnFromCycleInv, FallBackInv,
     StoreFieldInv, StoreFallbackInv DEF Next

(* The frames, the guard and the marks belong together in every state, for *)
(* every tree (substitution_resolver.py:62-131, 221-285).                  *)
THEOREM InvHolds == Spec => []IInv
<1>1. Init => IInv
  BY InitInv
<1>2. IInv /\ [Next]_vars => IInv'
  BY StepInv
<1> QED
  BY <1>1, <1>2, PTL DEF Spec

(* The guard has exactly the keys whose evaluation was called by a         *)
(* reference and not answered, none of them twice, and the marks are those *)
(* of the concatenations being joined, for every tree: copying the guard   *)
(* for the prior of a key in a circle and putting the copy back changes    *)
(* nothing (substitution_resolver.py:131, 229-238, 240).                   *)
THEOREM GuardExact == Spec => []GuardIsExact
<1>1. IInv => GuardIsExact
  <2> SUFFICES ASSUME IInv PROVE GuardIsExact
    OBVIOUS
  <2>1. DOMAIN frames = 1..Len(frames) /\ Exact(frames, resolving, concats)
    BY DEF IInv, TypeOK, Structure
  <2>2. resolving = {frames[i].key : i \in Guarded}
    BY <2>1 DEF Exact, GuardedKeys, Guarded, IsGuarded
  <2>3. concats = {frames[i].key : i \in Joiners}
    BY <2>1 DEF Exact, JoinedKeys, Joiners, IsJoiner, IsField
  <2>4. \A i, j \in Guarded : frames[i].key = frames[j].key => i = j
    BY <2>1 DEF Exact, Once, Guarded, IsGuarded
  <2> QED
    BY <2>2, <2>3, <2>4 DEF GuardIsExact
<1> QED
  BY <1>1, InvHolds, PTL
=============================================================================
