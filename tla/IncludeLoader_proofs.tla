------------------------- MODULE IncludeLoader_proofs -------------------------
(***************************************************************************)
(* Proofs about module IncludeLoader, for every set of files, every        *)
(* content of them and every depth limit.                                  *)
(***************************************************************************)
EXTENDS IncludeLoader, FiniteSetTheorems, TLAPS

(* What the induction needs besides: a build inside load stands at a       *)
(* directive, and load was entered below the depth limit.                  *)
LoadEntered ==
    \A i \in 1..Len(frames) :
        frames[i].mode = "probe" => /\ frames[i].todo # <<>>
                                    /\ Len(frames[i].stack) < MaxDepth

IInv == TypeOK /\ LoadEntered /\ ChainsKnown

(* A frame that may replace the innermost one: it has its include stack.   *)
Continues(f) ==
    /\ f \in Frame
    /\ f.stack = Top.stack
    /\ f.mode = "probe" => f.todo # <<>> /\ Len(f.stack) < MaxDepth

(* The innermost frame has the type of a frame, and replacing it changes   *)
(* nothing else.                                                           *)
LEMMA TopFrame ==
    ASSUME frames \in Seq(Frame) \ {<<>>}
    PROVE  /\ Len(frames) \in Nat \ {0}
           /\ Top \in Frame
           /\ \A f \in Frame :
                  /\ WithTop(f) \in Seq(Frame) \ {<<>>}
                  /\ Len(WithTop(f)) = Len(frames)
                  /\ \A i \in 1..Len(frames) :
                         WithTop(f)[i] = IF i = Len(frames) THEN f ELSE frames[i]
BY DEF Top, WithTop

(* The paths of a tree that is placed under a path.                        *)
LEMMA UnderType ==
    ASSUME NEW at \in Seq(Names), NEW entries \in Seq(Entry)
    PROVE  Under(at, entries) \in Seq(Entry)
<1>1. ASSUME NEW i \in 1..Len(entries)
      PROVE  [entries[i] EXCEPT !.path = at \o @] \in Entry
  <2>1. entries[i] \in Entry
    OBVIOUS
  <2>2. at \o entries[i].path \in Seq(Names)
    BY <2>1 DEF Entry
  <2> QED
    BY <2>1, <2>2 DEF Entry
<1>2. DOMAIN entries = 1..Len(entries) /\ Len(entries) \in Nat
  OBVIOUS
<1> QED
  BY <1>1, <1>2, SMTT(40) DEF Under

(* The tree of a .properties file: every statement of it assigns.          *)
LEMMA EntriesType ==
    ASSUME NEW file \in Files, NEW items \in Seq(Statement),
           \A i \in 1..Len(items) : items[i].how = "set"
    PROVE  Entries(file, items) \in Seq(Entry)
<1>1. ASSUME NEW i \in 1..Len(items)
      PROVE  [path |-> Append(items[i].at, items[i].target), from |-> file] \in Entry
  <2>1. items[i] \in Statement /\ items[i].how = "set"
    OBVIOUS
  <2>2. items[i] \notin PathInclude /\ items[i] \notin PackageInclude
    BY <2>1 DEF PathInclude, PackageInclude
  <2>3. items[i].at \in Seq(Names) /\ items[i].target \in Names
    BY <2>1, <2>2 DEF Statement, Assignment
  <2>4. Append(items[i].at, items[i].target) \in Seq(Names)
    BY <2>3
  <2> QED
    BY <2>4 DEF Entry
<1> QED
  BY <1>1 DEF Entries

(* A step that only changes the innermost frame keeps the invariant.       *)
LEMMA FrameStep ==
    ASSUME IInv, NEW f, Continues(f), Step(WithTop(f))
    PROVE  IInv'
<1> USE DEF Step
<1>1. frames \in Seq(Frame) \ {<<>>} /\ f \in Frame
  BY DEF IInv, TypeOK, Continues
<1>2. TypeOK'
  BY <1>1, TopFrame DEF IInv, TypeOK
<1>3. Len(frames') = Len(frames)
  BY <1>1, TopFrame
<1>4. Stacks' = Stacks
  BY <1>1, <1>3, TopFrame DEF Continues, Top, Stacks
<1>5. LoadEntered'
  BY <1>1, <1>3, TopFrame DEF IInv, LoadEntered, Continues
<1> QED
  BY <1>2, <1>4, <1>5 DEF IInv, ChainsKnown

(* A step that raises changes no frame.                                    *)
LEMMA FailStep ==
    ASSUME IInv, NEW why \in Outcomes, Fail(why)
    PROVE  IInv'
BY DEF Fail, IInv, TypeOK, LoadEntered, ChainsKnown, Stacks

(* Entering a file: the include stack grows by a key that is not on it.    *)
LEMMA ChainGrows ==
    ASSUME NEW stacks \in Seq(Seq(Keys)) \ {<<>>}, Chained(stacks), NEW key \in Keys,
           Len(stacks[Len(stacks)]) < MaxDepth,
           \A i \in 1..Len(stacks[Len(stacks)]) : stacks[Len(stacks)][i] # key
    PROVE  Chained(Append(stacks, Append(stacks[Len(stacks)], key)))
<1> DEFINE n == Len(stacks)
           last == stacks[n]
           new == Append(last, key)
           longer == Append(stacks, new)
<1>1. \A i \in 1..n :
         /\ Len(stacks[i]) = i - 1 /\ i - 1 <= MaxDepth
         /\ \A j, k \in 1..(i - 1) : stacks[i][j] = stacks[i][k] => j = k
         /\ \A j \in 1..i : \A k \in 1..(j - 1) : stacks[j][k] = stacks[i][k]
  BY DEF Chained
<1>2. n \in Nat \ {0} /\ n \in 1..n /\ stacks \in Seq(Seq(Keys)) /\ last \in Seq(Keys)
  OBVIOUS
<1>3. Len(last) = n - 1
  BY <1>1, <1>2
<1>a. n <= MaxDepth
  BY <1>2, <1>3, MaxDepthAssumption
<1>b. \A i \in 1..(n - 1) : last[i] # key
  BY <1>3
<1>4. /\ Len(longer) = n + 1
      /\ \A i \in 1..n : longer[i] = stacks[i]
      /\ longer[n + 1] = new
  BY <1>2
<1>5. /\ Len(new) = n
      /\ \A k \in 1..(n - 1) : new[k] = last[k]
      /\ new[n] = key
  BY <1>2, <1>3
<1>6. \A j, k \in 1..(n - 1) : last[j] = last[k] => j = k
  BY <1>1, <1>2
<1>7. \A j \in 1..n : \A k \in 1..(j - 1) : stacks[j][k] = last[k]
  BY <1>1, <1>2
<1> HIDE DEF n, last, new, longer
<1>8. ASSUME NEW j \in 1..n, NEW k \in 1..n, new[j] = new[k]
      PROVE  j = k
  <2>1. (j \in 1..(n - 1) \/ j = n) /\ (k \in 1..(n - 1) \/ k = n)
    BY <1>2
  <2> QED
    BY <1>b, <1>5, <1>6, <1>8, <2>1
<1>9. ASSUME NEW j \in 1..n, NEW k \in 1..(j - 1)
      PROVE  stacks[j][k] = new[k]
  <2>1. k \in 1..(n - 1)
    BY <1>2
  <2> QED
    BY <1>5, <1>7, <2>1
<1>10. Chained(longer)
  <2> SUFFICES ASSUME NEW i \in 1..(n + 1)
               PROVE  /\ Len(longer[i]) = i - 1 /\ i - 1 <= MaxDepth
                      /\ \A j, k \in 1..(i - 1) : longer[i][j] = longer[i][k] => j = k
                      /\ \A j \in 1..i : \A k \in 1..(j - 1) : longer[j][k] = longer[i][k]
    BY <1>4 DEF Chained
  <2>1. CASE i \in 1..n
    <3>1. longer[i] = stacks[i] /\ \A j \in 1..i : longer[j] = stacks[j]
      BY <1>2, <1>4, <2>1
    <3>2. /\ Len(stacks[i]) = i - 1 /\ i - 1 <= MaxDepth
          /\ \A j, k \in 1..(i - 1) : stacks[i][j] = stacks[i][k] => j = k
      BY <1>1, <2>1
    <3>3. ASSUME NEW j \in 1..i, NEW k \in 1..(j - 1)
          PROVE  longer[j][k] = longer[i][k]
      <4>1. stacks[j][k] = stacks[i][k]
        BY <1>1, <2>1
      <4> QED
        BY <3>1, <4>1
    <3> QED
      BY <3>1, <3>2, <3>3
  <2>2. CASE i = n + 1
    <3>1. i - 1 = n /\ longer[i] = new
      BY <1>2, <1>4, <2>2
    <3>2. \A j, k \in 1..(i - 1) : longer[i][j] = longer[i][k] => j = k
      BY <1>8, <3>1
    <3>3. ASSUME NEW j \in 1..i, NEW k \in 1..(j - 1)
          PROVE  longer[j][k] = longer[i][k]
      <4>1. CASE j \in 1..n
        BY <1>4, <1>9, <3>1, <4>1
      <4>2. CASE j = i
        BY <4>2
      <4> QED
        BY <1>2, <2>2, <4>1, <4>2
    <3>4. Len(longer[i]) = i - 1 /\ i - 1 <= MaxDepth
      BY <1>a, <1>5, <3>1
    <3> QED
      BY <3>2, <3>3, <3>4
  <2> QED
    BY <1>2, <2>1, <2>2
<1> QED
  BY <1>10 DEF n, last, new, longer
(* Leaving a file: the outer builds have the stacks they had.              *)
LEMMA ChainShrinks ==
    ASSUME NEW stacks, Chained(stacks), NEW shorter, Len(stacks) \in Nat,
           NEW m \in Nat, m <= Len(stacks), Len(shorter) = m,
           \A i \in 1..m : shorter[i] = stacks[i]
    PROVE  Chained(shorter)
<1> SUFFICES ASSUME NEW i \in 1..m
             PROVE  /\ Len(shorter[i]) = i - 1 /\ i - 1 <= MaxDepth
                    /\ \A j, k \in 1..(i - 1) : shorter[i][j] = shorter[i][k] => j = k
                    /\ \A j \in 1..i : \A k \in 1..(j - 1) : shorter[j][k] = shorter[i][k]
  BY DEF Chained
<1>1. i \in 1..Len(stacks) /\ shorter[i] = stacks[i] /\ \A j \in 1..i : shorter[j] = stacks[j]
  OBVIOUS
<1>2. /\ Len(stacks[i]) = i - 1 /\ i - 1 <= MaxDepth
      /\ \A j, k \in 1..(i - 1) : stacks[i][j] = stacks[i][k] => j = k
  BY <1>1 DEF Chained
<1>3. ASSUME NEW j \in 1..i, NEW k \in 1..(j - 1)
      PROVE  shorter[j][k] = shorter[i][k]
  <2>1. stacks[j][k] = stacks[i][k]
    BY <1>1 DEF Chained
  <2> QED
    BY <1>1, <2>1
<1> QED
  BY <1>1, <1>2, <1>3

(* What load and load_package do before the first read keeps the           *)
(* invariant, whichever candidates they find.                              *)
LEMMA EnterStep ==
    ASSUME IInv, Applying, NEW key, NEW candidates \in Seq(Files), Enter(key, candidates)
    PROVE  IInv'
<1>1. Top \in Frame
  BY TopFrame DEF IInv, TypeOK
<1>2. CASE OnStack(Top, key)
  BY <1>2, FailStep DEF Enter, Outcomes
<1>3. CASE ~OnStack(Top, key) /\ Len(Top.stack) >= MaxDepth
  BY <1>3, FailStep DEF Enter, Outcomes
<1>4. CASE ~OnStack(Top, key) /\ ~(Len(Top.stack) >= MaxDepth) /\ candidates = <<>>
  BY <1>4, FailStep DEF Enter, Outcomes
<1>5. CASE ~OnStack(Top, key) /\ ~(Len(Top.stack) >= MaxDepth) /\ candidates # <<>>
  <2> DEFINE f == [Top EXCEPT !.mode = "probe", !.probes = candidates,
                              !.merged = <<>>, !.found = FALSE]
  <2>0. <<>> \in Seq(Entry)
    OBVIOUS
  <2>1. f \in Frame /\ f.stack = Top.stack /\ f.todo = Top.todo
    BY <1>1, <2>0 DEF Frame
  <2>2. Len(f.stack) < MaxDepth
    BY <1>1, <1>5, <2>1, MaxDepthAssumption DEF Frame
  <2>3. Continues(f)
    BY <2>1, <2>2 DEF Continues, Applying
  <2>4. Step(WithTop(f))
    BY <1>5 DEF Enter
  <2> QED
    BY <2>3, <2>4, FrameStep
<1> QED
  BY <1>2, <1>3, <1>4, <1>5

(* The innermost build inside load stands at a directive, below the limit. *)
LEMMA ProbingFrame ==
    ASSUME IInv, Probing
    PROVE  /\ Top \in Frame /\ Top.todo # <<>> /\ Item \in Statement
           /\ Len(Top.stack) < MaxDepth
<1>1. Top \in Frame /\ Len(frames) \in 1..Len(frames)
  BY TopFrame DEF IInv, TypeOK
<1>2. Top.todo # <<>> /\ Len(Top.stack) < MaxDepth
  BY <1>1 DEF IInv, LoadEntered, Probing, Top
<1>3. Top.todo \in Seq(Statement)
  BY <1>1 DEF Frame
<1> QED
  BY <1>1, <1>2, <1>3 DEF Item
LEMMA InitInv == Init => IInv
<1> SUFFICES ASSUME Init PROVE IInv
  OBVIOUS
<1> DEFINE f == NewFrame(Root, BaseDir, <<>>, text)
<1>1. text \in Seq(Statement) /\ disk \in [Files -> Content]
  BY ContentAssumption DEF Init
<1>2. f \in Frame /\ f.stack = <<>> /\ f.mode = "apply"
  BY <1>1, NamingAssumption DEF NewFrame, Frame
<1>3. frames = <<f>>
  BY DEF Init
<1> HIDE DEF f
<1>4. Len(frames) = 1 /\ frames[1] = f /\ frames \in Seq(Frame) \ {<<>>}
  BY <1>2, <1>3
<1>5. TypeOK
  BY <1>4 DEF TypeOK, Init, Outcomes
<1>6. LoadEntered
  BY <1>2, <1>4 DEF LoadEntered
<1>7. Stacks = <<<<>>>>
  BY <1>2, <1>4 DEF Stacks
<1>8. ChainsKnown
  BY <1>7, MaxDepthAssumption DEF ChainsKnown, Chained
<1> QED
  BY <1>5, <1>6, <1>8 DEF IInv

(* A file is entered.                                                      *)
LEMMA CallStep ==
    ASSUME IInv, Probing, Top.probes # <<>>,
           ~OnStack(Top, KeyOf(Head(Top.probes))),
           Step(Called(KeyOf(Head(Top.probes)), Head(Top.probes)))
    PROVE  IInv'
<1> DEFINE n == Len(frames)
           c == Head(Top.probes)
           key == KeyOf(c)
           waiting == [Top EXCEPT !.probes = Tail(@)]
           inner == NewFrame(c, DirOf[c], Append(Top.stack, key), disk[c].items)
<1>1. /\ Top \in Frame /\ Top.todo # <<>> /\ Item \in Statement
      /\ Len(Top.stack) < MaxDepth
  BY ProbingFrame
<1>2. c \in Files /\ Tail(Top.probes) \in Seq(Files)
  BY <1>1 DEF Frame
<1>3. key \in Keys
  BY <1>1, <1>2 DEF KeyOf, Keys, Statement, Assignment, PathInclude, PackageInclude
<1>4. disk[c].items \in Seq(Statement)
  BY <1>2, ContentAssumption DEF IInv, TypeOK, Content
<1>5. /\ waiting \in Frame /\ waiting.stack = Top.stack
      /\ waiting.mode = Top.mode /\ waiting.todo = Top.todo
  BY <1>1, <1>2 DEF Frame
<1>6. Top.stack \in Seq(Keys)
  BY <1>1 DEF Frame
<1>7. inner \in Frame /\ inner.stack = Append(Top.stack, key) /\ inner.mode = "apply"
  BY <1>2, <1>3, <1>4, <1>6, NamingAssumption DEF NewFrame, Frame
<1>8. /\ n \in Nat \ {0}
      /\ WithTop(waiting) \in Seq(Frame) \ {<<>>} /\ Len(WithTop(waiting)) = n
      /\ \A i \in 1..n : WithTop(waiting)[i] = IF i = n THEN waiting ELSE frames[i]
  BY <1>5, TopFrame DEF IInv, TypeOK
<1>9. frames' = Append(WithTop(waiting), inner)
  BY DEF Step, Called
<1> HIDE DEF waiting, inner
<1>10. /\ frames' \in Seq(Frame) \ {<<>>} /\ Len(frames') = n + 1
       /\ frames'[n + 1] = inner
       /\ \A i \in 1..n : frames'[i] = IF i = n THEN waiting ELSE frames[i]
  BY <1>7, <1>8, <1>9
<1>11. TypeOK'
  BY <1>10 DEF Step, IInv, TypeOK
<1>12. LoadEntered'
  <2>1. ASSUME NEW i \in 1..(n + 1), frames'[i].mode = "probe"
        PROVE  frames'[i].todo # <<>> /\ Len(frames'[i].stack) < MaxDepth
    <3>1. CASE i = n + 1
      BY <1>7, <1>10, <2>1, <3>1
    <3>2. CASE i = n
      BY <1>1, <1>5, <1>8, <1>10, <3>2
    <3>3. CASE i \in 1..n /\ i # n
      BY <1>10, <2>1, <3>3 DEF IInv, LoadEntered
    <3> QED
      BY <1>8, <3>1, <3>2, <3>3
  <2> QED
    BY <1>10, <2>1 DEF LoadEntered
<1>13. ChainsKnown'
  <2>1. frames \in Seq(Frame)
    BY DEF IInv, TypeOK
  <2>2. /\ Stacks \in Seq(Seq(Keys)) \ {<<>>} /\ Len(Stacks) = n
        /\ Stacks[n] = Top.stack
    <3>1. ASSUME NEW i \in 1..n PROVE frames[i].stack \in Seq(Keys)
      <4>1. frames[i] \in Frame
        BY <2>1
      <4> QED
        BY <4>1 DEF Frame
    <3>2. Stacks \in Seq(Seq(Keys)) /\ Len(Stacks) = n
      BY <1>8, <3>1 DEF Stacks
    <3> QED
      BY <1>8, <3>2 DEF Stacks, Top
  <2>3. \A i \in 1..Len(Top.stack) : Top.stack[i] # key
    BY DEF OnStack
  <2>4. Chained(Append(Stacks, Append(Top.stack, key)))
    BY <1>1, <1>3, <2>2, <2>3, ChainGrows DEF IInv, ChainsKnown
  <2>5. Stacks' = Append(Stacks, Append(Top.stack, key))
    BY <1>5, <1>7, <1>8, <1>10, <2>2 DEF Stacks, Top
  <2> QED
    BY <2>4, <2>5 DEF ChainsKnown
<1> QED
  BY <1>11, <1>12, <1>13 DEF IInv

(* An included file's build ends and its caller goes on.                   *)
LEMMA ReturnStep ==
    ASSUME IInv, Return
    PROVE  IInv'
<1> DEFINE m == Len(frames) - 1
           caller == [frames[m] EXCEPT !.merged = @ \o Top.obj, !.found = TRUE]
<1>1. /\ frames \in Seq(Frame) /\ m \in Nat \ {0} /\ m < Len(frames)
      /\ Top \in Frame /\ frames[m] \in Frame
  BY TopFrame DEF IInv, TypeOK, Return
<1>2. frames[m].merged \o Top.obj \in Seq(Entry)
  <2>1. frames[m].merged \in Seq(Entry) /\ Top.obj \in Seq(Entry)
    BY <1>1 DEF Frame
  <2> QED
    BY <2>1
<1>3. /\ caller \in Frame /\ caller.stack = frames[m].stack
      /\ caller.mode = frames[m].mode /\ caller.todo = frames[m].todo
  BY <1>1, <1>2 DEF Frame
<1>4. frames' = [i \in 1..m |-> IF i < m THEN frames[i] ELSE caller]
  BY DEF Return, Step
<1> HIDE DEF caller
<1>5. frames' \in Seq(Frame) \ {<<>>} /\ Len(frames') = m
  <2>1. ASSUME NEW i \in 1..m
        PROVE  (IF i < m THEN frames[i] ELSE caller) \in Frame
    BY <1>1, <1>3
  <2>2. frames' \in [1..m -> Frame]
    BY <1>4, <2>1
  <2>3. frames' \in Seq(Frame) /\ Len(frames') = m
    BY <1>1, <2>2
  <2> QED
    BY <1>1, <2>3
<1>6. \A i \in 1..m : /\ frames'[i].stack = frames[i].stack
                      /\ frames'[i].mode = frames[i].mode
                      /\ frames'[i].todo = frames[i].todo
  BY <1>1, <1>3, <1>4
<1>7. TypeOK'
  BY <1>5 DEF IInv, TypeOK, Return, Step
<1>8. LoadEntered'
  BY <1>1, <1>5, <1>6 DEF IInv, LoadEntered
<1>9. ChainsKnown'
  <2>1. /\ Len(Stacks') = m /\ Len(Stacks) = Len(frames)
        /\ \A i \in 1..m : Stacks'[i] = Stacks[i]
    BY <1>1, <1>5, <1>6 DEF Stacks
  <2>2. Chained(Stacks)
    BY DEF IInv, ChainsKnown
  <2>3. Chained(Stacks')
    BY <1>1, <2>1, <2>2, ChainShrinks
  <2> QED
    BY <2>3 DEF ChainsKnown
<1> QED
  BY <1>7, <1>8, <1>9 DEF IInv
(* Every step of the loader keeps the invariant.                           *)
LEMMA NextInv == IInv /\ [Next]_vars => IInv'
<1> SUFFICES ASSUME IInv, [Next]_vars PROVE IInv'
  OBVIOUS
<1>1. frames \in Seq(Frame) \ {<<>>} /\ Top \in Frame /\ disk \in [Files -> Content]
  BY TopFrame, ContentAssumption DEF IInv, TypeOK
<1>2. ASSUME Applying
      PROVE  /\ Item \in Statement /\ Tail(Top.todo) \in Seq(Statement)
             /\ Top.dir \in Dirs /\ Top.from \in Files \cup {Root} /\ Top.obj \in Seq(Entry)
  BY <1>1, <1>2 DEF Applying, Item, Frame
<1>3. CASE Assign
  <2> DEFINE entry == [path |-> Append(Item.at, Item.target), from |-> Top.from]
             f == [Top EXCEPT !.todo = Tail(@), !.obj = Append(@, entry)]
  <2>1. Applying /\ Item.how = "set" /\ Step(WithTop(f))
    BY <1>3 DEF Assign
  <2>2. Item.at \in Seq(Names) /\ Item.target \in Names
    BY <1>2, <2>1 DEF Statement, Assignment, PathInclude, PackageInclude
  <2>3. Append(Item.at, Item.target) \in Seq(Names)
    BY <2>2
  <2>4. entry \in Entry
    BY <1>2, <2>1, <2>3 DEF Entry
  <2>5. Append(Top.obj, entry) \in Seq(Entry)
    BY <1>2, <2>1, <2>4
  <2> HIDE DEF entry
  <2>6. f \in Frame /\ f.stack = Top.stack /\ f.mode = Top.mode
    BY <1>1, <1>2, <2>1, <2>5 DEF Frame
  <2>7. Continues(f)
    BY <2>1, <2>6 DEF Continues, Applying
  <2> QED
    BY <2>1, <2>7, FrameStep
<1>4. CASE Load
  <2>1. Applying /\ Item.how \in {"relative", "file"} /\ Item \in Statement
    BY <1>2, <1>4 DEF Load
  <2> DEFINE abs == Joined[IF Item.how = "file" THEN Cwd ELSE Top.dir][Item.target]
  <2>2. Item.target \in Paths
    BY <2>1 DEF Statement, Assignment, PathInclude, PackageInclude
  <2>3. abs \in Files \cup Bare
    BY <1>2, <2>1, <2>2, NamingAssumption
  <2>4. Enter(abs, Candidates(abs))
    BY <1>4 DEF Load
  <2> HIDE DEF abs
  <2>5. Candidates(abs) \in Seq(Files)
    <3>1. CASE abs \in Files
      BY <3>1 DEF Candidates
    <3>2. CASE abs \in Bare /\ abs \notin Files
      <4>1. ASSUME NEW i \in 1..3 PROVE WithExtension[abs][Extensions[i]] \in Files
        <5>1. Extensions[i] \in {Extensions[j] : j \in 1..3}
          OBVIOUS
        <5>2. WithExtension[abs] \in [{Extensions[j] : j \in 1..3} -> Files]
          BY <3>2, NamingAssumption
        <5> QED
          BY <5>1, <5>2
      <4>2. Candidates(abs) = [i \in 1..3 |-> WithExtension[abs][Extensions[i]]]
        BY <3>2 DEF Candidates
      <4> QED
        BY <4>1, <4>2
    <3> QED
      BY <2>3, <3>1, <3>2
  <2> QED
    BY <2>1, <2>4, <2>5, EnterStep
<1>5. CASE LoadPackage
  <2>1. Applying /\ Item.how = "package" /\ Item \in Statement
    BY <1>2, <1>5 DEF LoadPackage
  <2>2. Item.target \in Packages
    BY <2>1 DEF Statement, Assignment, PathInclude, PackageInclude
  <2>3. Bases \in Seq(Dirs)
    BY <1>2, <2>1, NamingAssumption DEF Bases
  <2>4. CASE Enter(Item.target, <<>>)
    <3>1. <<>> \in Seq(Files)
      OBVIOUS
    <3> QED
      BY <2>1, <2>4, <3>1, EnterStep
  <2>5. ASSUME NEW i \in Hits, Enter(Item.target, <<PackageFile[Bases[i]][Item.target]>>)
        PROVE  IInv'
    <3>1. Bases[i] \in Dirs
      BY <2>3 DEF Hits
    <3>2. PackageFile[Bases[i]][Item.target] \in Files
      BY <2>2, <3>1, NamingAssumption
    <3>3. <<PackageFile[Bases[i]][Item.target]>> \in Seq(Files)
      BY <3>2
    <3> QED
      BY <2>1, <2>5, <3>3, EnterStep
  <2> QED
    BY <1>5, <2>4, <2>5 DEF LoadPackage
<1>6. CASE ReadCircular
  BY <1>6, FailStep DEF ReadCircular, Outcomes
<1>7. CASE ReadMissing
  <2>1. Probing /\ Top.probes # <<>> /\ Step(WithTop(AfterMissing(Top)))
    BY <1>7 DEF ReadMissing, Read
  <2>0. Tail(Top.probes) \in Seq(Files)
    BY <1>1, <2>1 DEF Frame
  <2>2. /\ AfterMissing(Top) \in Frame /\ AfterMissing(Top).stack = Top.stack
        /\ AfterMissing(Top).todo = Top.todo
    BY <1>1, <2>0 DEF AfterMissing, Frame
  <2>3. Continues(AfterMissing(Top))
    BY <2>1, <2>2, ProbingFrame DEF Continues
  <2> QED
    BY <2>1, <2>3, FrameStep
<1>8. CASE ReadFails
  BY <1>8, FailStep DEF ReadFails, Outcomes
<1>9. CASE ReadProperties
  <2> DEFINE c == Head(Top.probes)
             added == Top.merged \o Entries(c, disk[c].items)
             f == [Top EXCEPT !.probes = Tail(@), !.found = TRUE, !.merged = added]
  <2>1. Probing /\ Top.probes # <<>> /\ c \in PropertiesFiles /\ Step(WithTop(f))
    BY <1>9 DEF ReadProperties, Read
  <2>2. c \in Files /\ Tail(Top.probes) \in Seq(Files) /\ Top.merged \in Seq(Entry)
    BY <1>1, <2>1 DEF Frame
  <2>3. disk[c].items \in Seq(Statement) /\ \A i \in 1..Len(disk[c].items) : disk[c].items[i].how = "set"
    BY <1>1, <2>1, <2>2, ContentAssumption DEF IInv, TypeOK, Content
  <2>4. Entries(c, disk[c].items) \in Seq(Entry)
    BY <2>2, <2>3, EntriesType
  <2>5. added \in Seq(Entry)
    BY <2>2, <2>4
  <2> HIDE DEF added
  <2>6. f \in Frame /\ f.stack = Top.stack /\ f.todo = Top.todo
    BY <1>1, <2>2, <2>5 DEF Frame
  <2>7. Continues(f)
    BY <2>1, <2>6, ProbingFrame DEF Continues
  <2> QED
    BY <2>1, <2>7, FrameStep DEF added
<1>10. CASE ReadDocument
  BY <1>10, CallStep DEF ReadDocument, Read
<1>11. CASE Include
  <2>1. Probing /\ Item \in Statement
    BY <1>11, ProbingFrame DEF Include
  <2>2. CASE Item.required /\ ~Top.found
    BY <1>11, <2>2, FailStep DEF Include, Outcomes
  <2>3. CASE ~(Item.required /\ ~Top.found)
    <3> DEFINE added == Top.obj \o Under(Item.at, Top.merged)
               f == [Top EXCEPT !.mode = "apply", !.todo = Tail(@), !.obj = added]
    <3>1. Item.at \in Seq(Names) /\ Top.merged \in Seq(Entry) /\ Top.obj \in Seq(Entry)
      BY <1>1, <2>1 DEF Statement, Assignment, PathInclude, PackageInclude, Frame
    <3>2. Tail(Top.todo) \in Seq(Statement)
      BY <1>1, <2>1, ProbingFrame DEF Frame
    <3>3. added \in Seq(Entry)
      BY <3>1, UnderType
    <3>4. Step(WithTop(f))
      BY <1>11, <2>3 DEF Include
    <3> HIDE DEF added
    <3>5. f \in Frame /\ f.stack = Top.stack /\ f.mode = "apply"
      BY <1>1, <3>2, <3>3 DEF Frame
    <3> QED
      BY <3>4, <3>5, FrameStep DEF Continues
  <2> QED
    BY <2>2, <2>3
<1>12. CASE Return
  BY <1>12, ReturnStep
<1>13. CASE Finish
  BY <1>13 DEF Finish, IInv, TypeOK, LoadEntered, ChainsKnown, Stacks, Outcomes
<1>14. CASE UNCHANGED vars
  BY <1>14 DEF vars, IInv, TypeOK, LoadEntered, ChainsKnown, Stacks
<1> QED
  BY <1>3, <1>4, <1>5, <1>6, <1>7, <1>8, <1>9, <1>10, <1>11, <1>12, <1>13, <1>14 DEF Next

LEMMA Invariant == Spec => []IInv
BY InitInv, NextInv, PTL DEF Spec

(* Every frame of the loader has the types of the code's locals.           *)
THEOREM TypeCorrect == Spec => []TypeOK
<1>1. IInv => TypeOK
  BY DEF IInv
<1> QED
  BY <1>1, Invariant, PTL

(* Whatever files include each other, no build is entered while a build of *)
(* the same file waits for it, and no more than MaxDepth wait.             *)
THEOREM NoFileWaitsForItself == Spec => []ChainsKnown
<1>1. IInv => ChainsKnown
  BY DEF IInv
<1> QED
  BY <1>1, Invariant, PTL
(* A build that was refused for its depth has a full include stack.        *)
RefusedAtLimit == outcome = "too deep" => Len(Top.stack) >= MaxDepth

LEMMA RefusedAtLimitInvariant == Spec => []RefusedAtLimit
<1>1. Init => RefusedAtLimit
  BY DEF Init, RefusedAtLimit
<1>2. RefusedAtLimit /\ [Next]_vars => RefusedAtLimit'
  <2> SUFFICES ASSUME RefusedAtLimit, [Next]_vars PROVE RefusedAtLimit'
    OBVIOUS
  <2> USE DEF RefusedAtLimit
  <2>1. ASSUME NEW key, NEW candidates, outcome = "running", Enter(key, candidates)
        PROVE  RefusedAtLimit'
    BY <2>1 DEF Enter, Fail, Step, Top
  <2>2. CASE Load \/ LoadPackage
    BY <2>1, <2>2 DEF Load, LoadPackage, Applying
  <2>3. CASE Assign \/ ReadMissing \/ ReadProperties \/ ReadDocument \/ Return
    BY <2>3 DEF Assign, ReadMissing, ReadProperties, ReadDocument, Return, Read, Step,
                Applying, Probing
  <2>4. CASE ReadCircular \/ ReadFails \/ Finish
    BY <2>4 DEF ReadCircular, ReadFails, Finish, Fail
  <2>5. CASE Include
    BY <2>5 DEF Include, Fail, Step, Probing
  <2>6. CASE UNCHANGED vars
    BY <2>6 DEF vars, Top
  <2> QED
    BY <2>2, <2>3, <2>4, <2>5, <2>6 DEF Next
<1> QED
  BY <1>1, <1>2, PTL DEF Spec
=============================================================================
