-------------------------- MODULE PathMount_proofs --------------------------
(***************************************************************************)
(* Proofs about module PathMount, for every limit, every set of paths and  *)
(* every input.                                                            *)
(***************************************************************************)
EXTENDS PathMount, TLAPS

IsLast(i, p, entries) ==
    /\ i \in entries /\ input[i].path = p
    /\ \A j \in entries : input[j].path = p => j <= i

(* What has been read: exactly the entries that were asked for.            *)
ReadOK ==
    /\ phase # "failed" =>
           /\ pairs = {i \in 1..next - 1 : Asked(input[i])}
           /\ \A i \in 1..next - 1 : ~Unusable(input[i])
           /\ \A i, j \in 1..next - 1 : ~Ambiguous(i, j)
    /\ phase \in {"nesting", "mounted"} => next = Len(input) + 1
    /\ phase \in {"reading", "failed"} => left = pairs /\ entry = 0
    /\ phase = "mounted" => left = {} /\ entry = 0
    /\ phase = "failed" => \/ \E i \in 1..Len(input) : Unusable(input[i])
                           \/ \E i, j \in 1..Len(input) : Ambiguous(i, j)

(* What is inserted was, for each path, read before what is left; and the  *)
(* entries of a path have a last one.                                      *)
OrderOK ==
    /\ \A i \in pairs \ left, j \in left : input[i].path = input[j].path => i < j
    /\ entry # 0 => \A j \in left \ {entry} : input[entry].path = input[j].path => entry < j
    /\ \A k \in pairs \ left : \E i \in pairs \ left : IsLast(i, input[k].path, pairs \ left)

(* The tree while an entry is on its way to its place: n segments of its   *)
(* path are dictionaries.                                                  *)
PrefixesUpTo(p, n) == {SubSeq(p, 1, k) : k \in 1..n}
Descended(tree, p, n) ==
    [q \in DOMAIN tree \cup PrefixesUpTo(p, n) |->
        IF q \in PrefixesUpTo(p, n) THEN Dict ELSE tree[q]]

TreeOK ==
    LET m == LastMounted(input, pairs \ left)
    IN  /\ entry = 0 => depth = 0 /\ root = ViewOf(m)
        /\ entry # 0 => /\ phase = "nesting"
                        /\ depth \in 0..Len(Target) - 1
                        /\ root = Descended(ViewOf(m), Target, depth)

IInv == TypeOK /\ ReadOK /\ OrderOK /\ TreeOK
-----------------------------------------------------------------------------
(* A proper prefix is shorter, so it is not the path itself.               *)
LEMMA PrefixLength ==
    ASSUME NEW p \in Seq(Nat), NEW n \in 0..Len(p)
    PROVE  /\ SubSeq(p, 1, n) \in Seq(Nat)
           /\ Len(SubSeq(p, 1, n)) = n
OBVIOUS

(* Descending one segment more.                                            *)
LEMMA DescendOne ==
    ASSUME NEW tree, NEW p \in Seq(Nat), NEW n \in Nat, n < Len(p) - 1,
           root = Descended(tree, p, n)
    PROVE  DescendInto(SubSeq(p, 1, n + 1)) = Descended(tree, p, n + 1)
<1> DEFINE q == SubSeq(p, 1, n + 1)
<1>1. PrefixesUpTo(p, n + 1) = PrefixesUpTo(p, n) \cup {q}
  <2>1. 1..n + 1 = 1..n \cup {n + 1}
    OBVIOUS
  <2> QED BY <2>1 DEF PrefixesUpTo
<1> HIDE DEF q
<1>2. CASE IsDict(q)
  <2>1. DOMAIN Descended(tree, p, n + 1) = DOMAIN root
    BY <1>1, <1>2 DEF Descended, IsDict
  <2>2. \A x \in DOMAIN root : Descended(tree, p, n + 1)[x] = root[x]
    BY <1>1, <1>2, <2>1 DEF Descended, IsDict
  <2>3. root = Descended(tree, p, n + 1)
    BY <2>1, <2>2 DEF Descended
  <2> QED BY <1>2, <2>3 DEF DescendInto, q
<1>3. CASE ~IsDict(q)
  <2>1. Put(root, q, Dict) = Descended(tree, p, n + 1)
    BY <1>1 DEF Descended, Put
  <2> QED BY <1>3, <2>1 DEF DescendInto, q
<1> QED BY <1>2, <1>3

(* Descending to the last segment and assigning is mounting.               *)
LEMMA AssignMounts ==
    ASSUME NEW m, NEW p \in Seq(Nat) \ {<<>>}, NEW v \in Values,
           \A q \in DOMAIN m : m[q] \in Values,
           root = Descended(ViewOf(m), p, Len(p) - 1)
    PROVE  Assigned(p, v) = ViewOf(Put(m, p, v))
<1> DEFINE objects == UNION {ProperPrefixes(q) : q \in DOMAIN m}
           M == Put(m, p, v)
           all == UNION {ProperPrefixes(q) : q \in DOMAIN M}
<1>1. PrefixesUpTo(p, Len(p) - 1) = ProperPrefixes(p)
  BY DEF PrefixesUpTo, ProperPrefixes
<1>2. p \notin ProperPrefixes(p)
  BY PrefixLength DEF ProperPrefixes
<1>3. all = objects \cup ProperPrefixes(p)
  BY DEF Put
<1>4. DOMAIN M = DOMAIN m \cup {p}
  BY DEF Put
<1>5. \A q \in DOMAIN M : M[q] = IF q = p THEN v ELSE m[q]
  BY DEF Put
<1>6. ViewOf(M) = [q \in DOMAIN M \cup all |-> IF q \in all THEN Dict ELSE M[q]]
  BY DEF ViewOf
<1>7. ViewOf(m) = [q \in DOMAIN m \cup objects |-> IF q \in objects THEN Dict ELSE m[q]]
  BY DEF ViewOf
<1> HIDE DEF objects, all, M
<1>8. root = [q \in DOMAIN m \cup objects \cup ProperPrefixes(p) |->
                 IF q \in ProperPrefixes(p) \cup objects THEN Dict ELSE m[q]]
  BY <1>1, <1>7 DEF Descended
<1>9. CASE p \in objects
  <2>1. IsDict(p)
    BY <1>8, <1>9 DEF IsDict
  <2>2. root = ViewOf(M)
    BY <1>3, <1>4, <1>5, <1>6, <1>8, <1>9, SMTT(40)
  <2> QED BY <2>1, <2>2 DEF Assigned, M
<1>10. CASE p \notin objects
  <2>1. ~IsDict(p)
    BY <1>2, <1>8, <1>10, DictAssumption DEF IsDict
  <2>2. Put(root, p, v) = ViewOf(M)
    BY <1>2, <1>3, <1>4, <1>5, <1>6, <1>8, <1>10 DEF Put
  <2> QED BY <2>1, <2>2 DEF Assigned, M
<1> QED BY <1>9, <1>10

(* The entries of a path have at most one last one, and LastAt finds it.   *)
LEMMA LastAtIsLast ==
    ASSUME NEW S \in SUBSET Nat, NEW p, NEW i \in S, IsLast(i, p, S)
    PROVE  LastAt(input, p, S) = i
<1>1. /\ LastAt(input, p, S) \in S /\ input[LastAt(input, p, S)].path = p
      /\ \A j \in S : input[j].path = p => j <= LastAt(input, p, S)
  BY DEF LastAt, IsLast
<1>2. i <= LastAt(input, p, S) /\ LastAt(input, p, S) <= i
  BY <1>1 DEF IsLast
<1>3. LastAt(input, p, S) \in Nat /\ i \in Nat
  BY <1>1
<1> QED BY <1>2, <1>3

LastsExist(S) == \A k \in S : \E i \in S : IsLast(i, input[k].path, S)

(* One entry more, later than all those of its path.                       *)
LEMMA LastMountedGrows ==
    ASSUME NEW S \in SUBSET Nat, NEW e \in Nat \ S, LastsExist(S),
           \A i \in S : input[i].path = input[e].path => i < e
    PROVE  /\ LastMounted(input, S \cup {e}) =
                  Put(LastMounted(input, S), input[e].path, input[e].value)
           /\ LastsExist(S \cup {e})
<1> DEFINE T == S \cup {e}
           P == input[e].path
<1>1. IsLast(e, P, T)
  BY DEF IsLast
<1>2. \A p, i : i \in S /\ IsLast(i, p, S) /\ p # P => IsLast(i, p, T)
  BY DEF IsLast
<1>3. LastAt(input, P, T) = e
  BY <1>1, LastAtIsLast
<1>4. ASSUME NEW k \in S, input[k].path # P
      PROVE  LastAt(input, input[k].path, T) = LastAt(input, input[k].path, S)
  <2>1. PICK i \in S : IsLast(i, input[k].path, S)
    BY DEF LastsExist
  <2>2. IsLast(i, input[k].path, T)
    BY <1>2, <1>4, <2>1
  <2> QED BY <2>1, <2>2, LastAtIsLast
<1>5. {input[i].path : i \in T} = {input[i].path : i \in S} \cup {P}
  OBVIOUS
<1>6. LastMounted(input, T) = Put(LastMounted(input, S), P, input[e].value)
  BY <1>3, <1>4, <1>5 DEF LastMounted, Put
<1>7. LastsExist(T)
  BY <1>1, <1>2 DEF LastsExist
<1> QED BY <1>6, <1>7

(* The values of a tree that entries are mounted in.                       *)
LEMMA LastMountedValues ==
    ASSUME NEW S \in SUBSET (1..Len(input)), input \in Seq(Entry), LastsExist(S)
    PROVE  \A q \in DOMAIN LastMounted(input, S) : LastMounted(input, S)[q] \in Values
<1>1. ASSUME NEW k \in S PROVE input[LastAt(input, input[k].path, S)].value \in Values
  <2>1. PICK i \in S : IsLast(i, input[k].path, S)
    BY DEF LastsExist
  <2>2. LastAt(input, input[k].path, S) = i
    BY <2>1, LastAtIsLast
  <2>3. input[i] \in Entry
    OBVIOUS
  <2> QED BY <2>2, <2>3 DEF Entry
<1> QED BY <1>1 DEF LastMounted
-----------------------------------------------------------------------------
LEMMA InitIInv == Init => IInv
<1> SUFFICES ASSUME Init PROVE IInv
  OBVIOUS
<1>1. TypeOK
  BY InputsAssumption DEF Init, TypeOK
<1>2. ReadOK
  BY <1>1 DEF Init, ReadOK, Unusable, Ambiguous, Asked, TypeOK
<1>3. OrderOK
  BY DEF Init, OrderOK
<1>4. LastMounted(input, {}) = <<>> /\ ViewOf(<<>>) = <<>>
  BY DEF LastMounted, ViewOf
<1>5. TreeOK
  BY <1>4 DEF Init, TreeOK
<1> QED BY <1>1, <1>2, <1>3, <1>5 DEF IInv

(* Skipping passes over what was not asked for and is no reason to fail;   *)
(* an entry is refused for a reason, and taken when there is none.         *)
LEMMA ReadingMeaning ==
    ASSUME IInv, phase = "reading", next \in 1..Len(input)
    PROVE  LET e == input[next]
           IN  /\ Skipped(e) => ~Asked(e) /\ ~Unusable(e)
               /\ Refused(e) => \/ Unusable(e)
                                \/ \E i \in 1..next - 1 : Ambiguous(i, next)
               /\ ~Skipped(e) /\ ~Refused(e) =>
                      /\ Asked(e) /\ ~Unusable(e)
                      /\ \A i \in 1..next - 1 : ~Ambiguous(i, next) /\ ~Ambiguous(next, i)
<1> DEFINE e == input[next]
<1>1. /\ e \in Entry /\ pairs = {i \in 1..next - 1 : Asked(input[i])}
      /\ next \in Nat
  BY DEF IInv, TypeOK, ReadOK
<1>2. Skipped(e) <=> ~Asked(e) /\ e.flaw # "line"
  BY DEF Skipped, Asked
<1>3. Unusable(e) <=> \/ e.flaw = "line"
                      \/ Asked(e) /\ (\/ e.flaw = "entry" \/ TooDeep(e)
                                      \/ adapter # "properties" /\ EmptySegment(e))
  BY DEF Unusable, TooDeep, EmptySegment
<1>4. Asked(e) /\ adapter = "env" =>
          (Collides(e) <=> \E i \in 1..next - 1 : Ambiguous(i, next))
  BY <1>1 DEF Collides, Ambiguous
<1>5. \A i \in 1..next - 1 : Ambiguous(i, next) <=> Ambiguous(next, i)
  BY DEF Ambiguous
<1>6. \A i \in 1..next - 1 : Ambiguous(i, next) => adapter = "env" /\ Asked(e)
  BY DEF Ambiguous
<1>7. Refused(e) <=> \/ e.flaw = "line"
                     \/ ~Skipped(e) /\ (\/ e.flaw = "entry"
                                        \/ adapter # "properties" /\ EmptySegment(e)
                                        \/ TooDeep(e)
                                        \/ adapter = "env" /\ Collides(e))
  BY DEF Refused
<1> HIDE DEF e
<1> QED BY <1>2, <1>3, <1>4, <1>5, <1>6, <1>7 DEF e

(* Nothing but the position and, for an entry that is taken, the sets of   *)
(* entries changes while reading; what is inserted stays empty.            *)
LEMMA ReadStep ==
    ASSUME IInv, Skip \/ Refuse \/ Take
    PROVE  IInv'
<1> DEFINE e == input[next]
<1>1. /\ phase = "reading" /\ next \in 1..Len(input) /\ next' = next + 1
      /\ UNCHANGED <<adapter, input, entry, depth, root>>
  BY DEF Skip, Refuse, Take, Read, IInv, TypeOK
<1>2. /\ left = pairs /\ entry = 0 /\ pairs \subseteq 1..next - 1
      /\ pairs = {i \in 1..next - 1 : Asked(input[i])}
      /\ \A i \in 1..next - 1 : ~Unusable(input[i])
      /\ \A i, j \in 1..next - 1 : ~Ambiguous(i, j)
  BY <1>1 DEF IInv, ReadOK, TypeOK
<1>3. \/ Skipped(e) /\ pairs' = pairs /\ phase' = "reading"
      \/ Refused(e) /\ pairs' = pairs /\ phase' = "failed"
      \/ ~Skipped(e) /\ ~Refused(e) /\ pairs' = pairs \cup {next} /\ phase' = "reading"
  BY <1>1 DEF Skip, Refuse, Take, Read
<1>4. left' = pairs'
  BY <1>2 DEF Skip, Refuse, Take
<1>5. TypeOK'
  BY <1>1, <1>2, <1>3, <1>4 DEF IInv, TypeOK
<1>6. 1..next' - 1 = 1..next - 1 \cup {next}
  BY <1>1
<1>7. /\ \A f : Asked(f)' <=> Asked(f)
      /\ \A f : Unusable(f)' <=> Unusable(f)
      /\ \A i, j : Ambiguous(i, j)' <=> Ambiguous(i, j)
  BY <1>1 DEF Asked, Unusable, Ambiguous
<1>8. ~Ambiguous(next, next)
  BY DEF Ambiguous
<1>9. /\ Skipped(e) => ~Asked(e) /\ ~Unusable(e)
      /\ Refused(e) => Unusable(e) \/ \E i \in 1..next - 1 : Ambiguous(i, next)
      /\ ~Skipped(e) /\ ~Refused(e) =>
             /\ Asked(e) /\ ~Unusable(e)
             /\ \A i \in 1..next - 1 : ~Ambiguous(i, next) /\ ~Ambiguous(next, i)
  BY <1>1, ReadingMeaning
<1>10. ReadOK'
  <2>1. CASE Refused(e) /\ pairs' = pairs /\ phase' = "failed"
    BY <1>1, <1>2, <1>4, <1>7, <1>9, <2>1 DEF ReadOK
  <2>2. CASE Skipped(e) /\ pairs' = pairs /\ phase' = "reading"
    <3>1. \A i \in 1..next - 1 : ~Ambiguous(i, next) /\ ~Ambiguous(next, i)
      BY <1>9, <2>2 DEF Ambiguous
    <3>2. pairs' = {i \in 1..next' - 1 : Asked(input[i])}
      BY <1>2, <1>6, <1>9, <2>2
    <3> QED BY <1>1, <1>2, <1>4, <1>6, <1>7, <1>8, <1>9, <2>2, <3>1, <3>2 DEF ReadOK
  <2>3. CASE ~Skipped(e) /\ ~Refused(e) /\ pairs' = pairs \cup {next} /\ phase' = "reading"
    <3>1. pairs' = {i \in 1..next' - 1 : Asked(input[i])}
      BY <1>2, <1>6, <1>9, <2>3
    <3> QED BY <1>1, <1>2, <1>4, <1>6, <1>7, <1>8, <1>9, <2>3, <3>1 DEF ReadOK
  <2> QED BY <1>3, <2>1, <2>2, <2>3
<1>11. pairs \ left = {} /\ pairs' \ left' = {}
  BY <1>2, <1>4
<1>12. OrderOK'
  BY <1>1, <1>2, <1>11 DEF OrderOK
<1>13. LastMounted(input, pairs \ left)' = LastMounted(input, pairs \ left)
  BY <1>1, <1>11
<1>14. TreeOK'
  BY <1>1, <1>2, <1>13 DEF IInv, TreeOK, ViewOf
<1> QED BY <1>5, <1>10, <1>12, <1>14 DEF IInv

(* The read-only facts of a step that only nests.                          *)
LEMMA NestingKeepsReadOK ==
    ASSUME IInv, phase = "nesting",
           UNCHANGED <<adapter, input, next, pairs>>,
           \/ phase' = "nesting"
           \/ phase' = "mounted" /\ left' = {} /\ entry' = 0
    PROVE  ReadOK'
<1>1. /\ \A f : Asked(f)' <=> Asked(f)
      /\ \A f : Unusable(f)' <=> Unusable(f)
      /\ \A i, j : Ambiguous(i, j)' <=> Ambiguous(i, j)
  BY DEF Asked, Unusable, Ambiguous
<1> QED BY <1>1 DEF IInv, ReadOK

LEMMA EndReadingStep == ASSUME IInv, EndReading PROVE IInv'
<1>1. TypeOK'
  BY DEF EndReading, IInv, TypeOK
<1>2. ReadOK'
  <2>1. next = Len(input) + 1
    BY DEF EndReading, IInv, TypeOK
  <2>2. /\ \A f : Asked(f)' <=> Asked(f)
        /\ \A f : Unusable(f)' <=> Unusable(f)
        /\ \A i, j : Ambiguous(i, j)' <=> Ambiguous(i, j)
    BY DEF EndReading, Asked, Unusable, Ambiguous
  <2> QED BY <2>1, <2>2 DEF EndReading, IInv, ReadOK
<1>3. OrderOK'
  BY DEF EndReading, IInv, OrderOK, IsLast
<1>4. TreeOK'
  <2>1. entry = 0
    BY DEF EndReading, IInv, ReadOK
  <2>2. LastMounted(input, pairs \ left)' = LastMounted(input, pairs \ left)
    BY DEF EndReading
  <2> QED BY <2>1, <2>2 DEF EndReading, IInv, TreeOK, ViewOf
<1> QED BY <1>1, <1>2, <1>3, <1>4 DEF IInv

(* A path is not less than itself.                                         *)
LEMMA PathLessIrreflexive ==
    ASSUME NEW p \in Seq(Nat)
    PROVE  ~PathLess(p, p)
BY DEF PathLess

LEMMA EntryAt ==
    ASSUME TypeOK, NEW i \in pairs
    PROVE  /\ i \in 1..Len(input) /\ i \in Nat \ {0}
           /\ input[i].path \in Seq(Nat) \ {<<>>} /\ input[i].value \in Values
<1>1. i \in 1..Len(input)
  BY DEF TypeOK
<1>2. input[i] \in Entry
  BY <1>1 DEF TypeOK
<1> QED BY <1>1, <1>2, PathsAssumption DEF Entry

LEMMA StartStep == ASSUME IInv, NEW i \in left, Start(i) PROVE IInv'
<1>1. TypeOK'
  BY DEF Start, IInv, TypeOK
<1>2. ReadOK'
  BY NestingKeepsReadOK DEF Start
<1>3. input[i].path \in Seq(Nat) \ {<<>>} /\ i # 0
  BY EntryAt DEF IInv, TypeOK
<1>4. OrderOK'
  <2>1. \A j \in left \ {i} : input[i].path = input[j].path => i < j
    BY <1>3, PathLessIrreflexive DEF Start, Precedes
  <2> QED BY <2>1 DEF Start, IInv, OrderOK, IsLast
<1>5. TreeOK'
  <2>1. root = ViewOf(LastMounted(input, pairs \ left)) /\ depth = 0
    BY DEF Start, IInv, TreeOK
  <2>2. LastMounted(input, pairs \ left)' = LastMounted(input, pairs \ left)
    BY DEF Start
  <2>3. \A m : Descended(ViewOf(m), input[i].path, 0) = ViewOf(m)
    BY DEF Descended, PrefixesUpTo, ViewOf
  <2>4. Target' = input[i].path /\ entry' = i /\ depth' = 0
    BY <2>1 DEF Start, Target
  <2>5. phase' = "nesting" /\ 0 \in 0..Len(input[i].path) - 1
    BY <1>3 DEF Start
  <2>6. root' = Descended(ViewOf(LastMounted(input, pairs \ left)), input[i].path, 0)
    BY <2>1, <2>3 DEF Start
  <2> QED BY <1>3, <2>2, <2>4, <2>5, <2>6 DEF TreeOK, ViewOf, Descended, PrefixesUpTo
<1> QED BY <1>1, <1>2, <1>4, <1>5 DEF IInv

LEMMA DescendStep == ASSUME IInv, Descend PROVE IInv'
<1>1. entry \in pairs /\ Target \in Seq(Nat) \ {<<>>}
  BY EntryAt DEF Descend, IInv, TypeOK, Target
<1> DEFINE p == SubSeq(Target, 1, depth + 1)
<1>2. depth \in Nat /\ p \in Seq(Nat) \ {<<>>}
  <2>1. depth \in Nat /\ depth + 1 \in 0..Len(Target) /\ depth + 1 # 0
    BY <1>1 DEF Descend, IInv, TypeOK
  <2>2. p \in Seq(Nat) /\ Len(p) = depth + 1
    BY <1>1, <2>1, PrefixLength
  <2> QED BY <2>1, <2>2
<1>3. root' = Descended(ViewOf(LastMounted(input, pairs \ left)), Target, depth + 1)
  BY <1>1, <1>2, DescendOne DEF Descend, IInv, TreeOK
<1>4. TypeOK'
  <2>1. \/ root' = root
        \/ DOMAIN root' = DOMAIN root \cup {p} /\ \A q \in DOMAIN root' : root'[q] \in {root[q], Dict}
    BY DEF Descend, DescendInto, Put
  <2>2. \A q \in DOMAIN root' : root'[q] \in Values \cup {Dict}
    <3> HIDE DEF p
    <3> QED BY DEF Descend, DescendInto, Put, IInv, TypeOK, p
  <2> QED BY <1>2, <2>1, <2>2 DEF Descend, IInv, TypeOK
<1>5. ReadOK'
  BY NestingKeepsReadOK DEF Descend
<1>6. OrderOK'
  BY DEF Descend, IInv, OrderOK, IsLast
<1>7. TreeOK'
  <2>1. LastMounted(input, pairs \ left)' = LastMounted(input, pairs \ left) /\ Target' = Target
    BY DEF Descend, Target
  <2>2. depth' \in 0..Len(Target) - 1 /\ depth' = depth + 1 /\ entry' = entry /\ entry # 0
        /\ phase' = "nesting"
    BY <1>1, <1>2 DEF Descend
  <2> QED BY <1>3, <2>1, <2>2 DEF TreeOK, ViewOf, Descended, PrefixesUpTo
<1> QED BY <1>4, <1>5, <1>6, <1>7 DEF IInv

(* What assigning the last segment of the entry does to what is mounted.   *)
LEMMA AssignInserts ==
    ASSUME IInv, Assign
    PROVE  /\ LastMounted(input, pairs \ left)' =
                  Put(LastMounted(input, pairs \ left), Target, input[entry].value)
           /\ LastsExist(pairs \ left)'
           /\ root' = ViewOf(LastMounted(input, pairs \ left)')
<1> DEFINE S == pairs \ left
<1>1. /\ entry \in pairs /\ entry \in left /\ entry \in Nat /\ input \in Seq(Entry)
      /\ Target \in Seq(Nat) \ {<<>>} /\ input[entry].value \in Values
  BY EntryAt DEF Assign, IInv, TypeOK, Target
<1>2. S \in SUBSET Nat /\ S \in SUBSET (1..Len(input)) /\ entry \in Nat \ S
  BY <1>1 DEF IInv, TypeOK
<1>3. LastsExist(S) /\ \A i \in S : input[i].path = input[entry].path => i < entry
  BY <1>1 DEF IInv, OrderOK, LastsExist
<1>4. (pairs \ left)' = S \cup {entry} /\ input' = input
  BY <1>1 DEF Assign
<1>5. /\ LastMounted(input, S \cup {entry}) = Put(LastMounted(input, S), Target, input[entry].value)
      /\ LastsExist(S \cup {entry})
  BY <1>2, <1>3, LastMountedGrows DEF Target
<1>6. LastMounted(input, pairs \ left)' = LastMounted(input, S \cup {entry})
  BY <1>4 
<1>7. LastsExist(pairs \ left)'
  BY <1>4, <1>5 DEF LastsExist, IsLast
<1>8. root = Descended(ViewOf(LastMounted(input, S)), Target, Len(Target) - 1)
  BY DEF Assign, IInv, TreeOK
<1>9. \A q \in DOMAIN LastMounted(input, S) : LastMounted(input, S)[q] \in Values
  BY <1>1, <1>2, <1>3, LastMountedValues
<1> HIDE DEF S
<1>10. Assigned(Target, input[entry].value) =
           ViewOf(Put(LastMounted(input, S), Target, input[entry].value))
  BY <1>1, <1>8, <1>9, AssignMounts
<1> QED BY <1>5, <1>6, <1>7, <1>10 DEF Assign, S

LEMMA AssignStep == ASSUME IInv, Assign PROVE IInv'
<1>1. entry \in pairs /\ Target \in Seq(Nat) \ {<<>>} /\ input[entry].value \in Values
  BY EntryAt DEF Assign, IInv, TypeOK, Target
<1>2. TypeOK'
  <2>1. /\ DOMAIN root' \subseteq Seq(Nat) \ {<<>>}
        /\ \A q \in DOMAIN root' : root'[q] \in Values \cup {Dict}
    BY <1>1 DEF Assign, Assigned, Put, IInv, TypeOK
  <2> QED BY <2>1 DEF Assign, IInv, TypeOK
<1>3. ReadOK'
  BY NestingKeepsReadOK DEF Assign
<1>4. OrderOK'
  <2>1. (pairs \ left)' = (pairs \ left) \cup {entry} /\ left' = left \ {entry}
        /\ entry' = 0 /\ input' = input
    BY <1>1 DEF Assign
  <2>2. \A i \in (pairs \ left)', j \in left' : input[i].path = input[j].path => i < j
    BY <1>1, <2>1 DEF Assign, IInv, OrderOK
  <2> QED BY <2>1, <2>2, AssignInserts DEF OrderOK, LastsExist
<1>5. TreeOK'
  <2>1. entry' = 0 /\ depth' = 0
    BY DEF Assign
  <2>2. root' = ViewOf(LastMounted(input, pairs \ left))'
    BY AssignInserts DEF ViewOf
  <2> QED BY <2>1, <2>2 DEF TreeOK
<1> QED BY <1>2, <1>3, <1>4, <1>5 DEF IInv

LEMMA FinishStep == ASSUME IInv, Finish PROVE IInv'
<1>1. TypeOK'
  BY DEF Finish, IInv, TypeOK
<1>2. ReadOK'
  BY NestingKeepsReadOK DEF Finish
<1>3. OrderOK'
  BY DEF Finish, IInv, OrderOK, IsLast
<1>4. TreeOK'
  <2>1. LastMounted(input, pairs \ left)' = LastMounted(input, pairs \ left)
    BY DEF Finish
  <2> QED BY <2>1 DEF Finish, IInv, TreeOK, ViewOf
<1> QED BY <1>1, <1>2, <1>3, <1>4 DEF IInv

LEMMA NextIInv == IInv /\ [Next]_vars => IInv'
<1> SUFFICES ASSUME IInv, [Next]_vars PROVE IInv'
  OBVIOUS
<1>1. CASE Skip \/ Refuse \/ Take
  BY <1>1, ReadStep
<1>2. CASE EndReading
  BY <1>2, EndReadingStep
<1>3. CASE \E i \in left : Start(i)
  BY <1>3, StartStep
<1>4. CASE Descend
  BY <1>4, DescendStep
<1>5. CASE Assign
  BY <1>5, AssignStep
<1>6. CASE Finish
  BY <1>6, FinishStep
<1>7. CASE UNCHANGED vars
  <2> USE <1>7 DEF vars
  <2>1. TypeOK'
    BY DEF IInv, TypeOK
  <2>2. ReadOK'
    BY DEF IInv, ReadOK, Asked, Unusable, Ambiguous
  <2>3. OrderOK'
    BY DEF IInv, OrderOK, IsLast
  <2>4. TreeOK'
    <3>1. LastMounted(input, pairs \ left)' = LastMounted(input, pairs \ left) /\ Target' = Target
      BY DEF Target
    <3>2. ViewOf(LastMounted(input, pairs \ left))' = ViewOf(LastMounted(input, pairs \ left))
      BY <3>1 DEF ViewOf
    <3>3. Descended(ViewOf(LastMounted(input, pairs \ left)), Target, depth)' =
              Descended(ViewOf(LastMounted(input, pairs \ left)), Target, depth)
      BY <3>1, <3>2 DEF Descended, PrefixesUpTo
    <3> QED BY <3>1, <3>2, <3>3 DEF IInv, TreeOK
  <2> QED BY <2>1, <2>2, <2>3, <2>4 DEF IInv
<1> QED BY <1>1, <1>2, <1>3, <1>4, <1>5, <1>6, <1>7 DEF Next

THEOREM Invariance == Spec => []IInv
BY InitIInv, NextIInv, PTL DEF Spec
-----------------------------------------------------------------------------
(* Every variable keeps its type.                                          *)
THEOREM TypeCorrect == Spec => []TypeOK
BY Invariance, PTL DEF IInv

(* The tree that a call returns holds every entry that was asked for, the  *)
(* last of each path, and nothing else - whatever order distinct paths are *)
(* inserted in: the proof uses of Precedes only that it keeps the entries  *)
(* of one path in their order, so the result does not depend on the sort.  *)
THEOREM MountComplete == Spec => []MountIsComplete
<1>1. IInv => MountIsComplete
  <2> SUFFICES ASSUME IInv, phase = "mounted"
               PROVE  root = ViewOf(LastMounted(input, {i \in 1..Len(input) : Asked(input[i])}))
    BY DEF MountIsComplete
  <2>1. left = {} /\ entry = 0 /\ next = Len(input) + 1 /\ Len(input) \in Nat
    BY DEF IInv, ReadOK, TypeOK
  <2>2. pairs \ left = {i \in 1..Len(input) : Asked(input[i])}
    BY <2>1 DEF IInv, ReadOK
  <2>3. root = ViewOf(LastMounted(input, pairs \ left))
    BY <2>1 DEF IInv, TreeOK
  <2> QED BY <2>2, <2>3
<1> QED BY <1>1, Invariance, PTL

(* A call fails exactly when something in its input leaves it no choice.   *)
THEOREM FailureHasACause == Spec => []FailsForACause
<1>1. IInv => FailsForACause
  <2> SUFFICES ASSUME IInv PROVE FailsForACause
    OBVIOUS
  <2>1. phase \in {"nesting", "mounted"} => 1..next - 1 = 1..Len(input)
    BY DEF IInv, ReadOK, TypeOK
  <2> QED BY <2>1 DEF FailsForACause, IInv, ReadOK
<1> QED BY <1>1, Invariance, PTL

(* Inserting segment by segment refines mounting each value at once.       *)
THEOREM Refinement == Spec => InsertsAreMounts
<1> DEFINE m == LastMounted(input, pairs \ left)
           v == IF entry = 0 THEN root ELSE ViewOf(LastMounted(input, pairs \ left))
<1>1. Init => Store!Init
  <2> SUFFICES ASSUME Init PROVE Store!Init
    OBVIOUS
  <2>1. LastMounted(input, pairs \ left) = <<>>
    BY DEF Init, LastMounted
  <2> QED BY <2>1 DEF Init, Store!Init
<1>2. IInv /\ [Next]_vars => [Store!Next]_<<m, v>>
  <2> SUFFICES ASSUME IInv, [Next]_vars PROVE Store!Next \/ UNCHANGED <<m, v>>
    OBVIOUS
  <2>1. CASE Assign
    <3>1. /\ entry \in pairs /\ Target \in Paths /\ input[entry].value \in Values
      <4>1. entry \in 1..Len(input) /\ entry \in pairs
        BY <2>1, EntryAt DEF Assign, IInv, TypeOK
      <4>2. input[entry] \in Entry
        BY <4>1 DEF IInv, TypeOK
      <4> QED BY <4>1, <4>2 DEF Entry, Target
    <3>2. m' = Put(m, Target, input[entry].value) /\ v' = ViewOf(m')
      BY <2>1, AssignInserts DEF Assign, ViewOf
    <3>3. Store!Mount(Target, input[entry].value)
      BY <3>2 DEF Store!Mount, Store!Put, Put, Store!ViewOf, ViewOf,
                  Store!ProperPrefixes, ProperPrefixes
    <3> QED BY <3>1, <3>3 DEF Store!Next
  <2>2. CASE ~Assign
    <3>1. input' = input /\ (pairs \ left)' = pairs \ left
      BY <2>2 DEF Next, Skip, Refuse, Take, Read, EndReading, Start, Descend, Finish,
                  vars, IInv, TypeOK
    <3>2. m' = m
      BY <3>1
    <3>3. (entry = 0 /\ entry' = 0 /\ root' = root) \/ (entry # 0 /\ entry' # 0)
          \/ (entry = 0 /\ entry' # 0)
      BY <2>2 DEF Next, Skip, Refuse, Take, Read, EndReading, Start, Descend, Finish,
                  vars
    <3>4. entry = 0 => root = ViewOf(m)
      BY DEF IInv, TreeOK
    <3> QED BY <3>2, <3>3, <3>4 DEF ViewOf
  <2> QED BY <2>1, <2>2
<1> QED BY <1>1, <1>2, Invariance, PTL DEF Spec, InsertsAreMounts, Store!Spec
=============================================================================
