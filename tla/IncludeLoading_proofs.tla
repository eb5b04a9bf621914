------------------------ MODULE IncludeLoading_proofs ------------------------
(***************************************************************************)
(* Proofs that loading ends in what module IncludeMeaning says a document  *)
(* means, and that a cycle is reported only where inlining has no end.     *)
(*                                                                         *)
(* Every build that is under way stands at a statement of its source, and  *)
(* its tree is what the statements before it mean; a build inside load has *)
(* merged what the files mean that it has tried.  So an exception is the   *)
(* meaning of the statement at hand, then of the document it stands in,    *)
(* then of the directive of the build that waits for it, and so on.        *)
(***************************************************************************)
EXTENDS IncludeMeaning, IncludeLoader_proofs, RecursionLemmas

(* Results in order: a fold, whose recursive function is the one that      *)
(* lemma PrimitiveRecursion gives.                                         *)
LEMMA ThenType ==
    ASSUME NEW r \in Result, NEW next \in Result
    PROVE  Then(r, next) \in Result
<1>1. r.entries \in Seq(Entry) /\ next.entries \in Seq(Entry)
  BY DEF Result
<1>2. r.entries \o next.entries \in Seq(Entry)
  BY <1>1
<1> QED
  BY <1>2 DEF Then, Good, Result, Whys, Outcomes

LEMMA GoodType ==
    ASSUME NEW entries \in Seq(Entry)
    PROVE  /\ Good(entries) \in Result
           /\ IsGood(Good(entries))
           /\ Good(entries).entries = entries
BY DEF Good, IsGood, Result, Whys, Outcomes

LEMMA WrongType ==
    ASSUME NEW why \in Whys, why # "loaded"
    PROVE  Wrong(why) \in Result /\ ~IsGood(Wrong(why))
<1>1. <<>> \in Seq(Entry)
  OBVIOUS
<1> QED
  BY <1>1 DEF Wrong, IsGood, Result

LEMMA InOrderFunction ==
    ASSUME NEW N \in Nat, NEW results, \A i \in 1..N : results[i] \in Result
    PROVE  \E F \in [Nat -> Result] :
               /\ F[0] = Good(<<>>)
               /\ \A i \in 1..N : F[i] = Then(F[i - 1], results[i])
               /\ \A n \in 0..N : InOrder(results, n) = F[n]
<1> DEFINE at(i) == IF i \in 1..N THEN results[i] ELSE Good(<<>>)
           h == [i \in Nat |-> [x \in Result |-> Then(x, at(i + 1))]]
<1>1. Good(<<>>) \in Result
  <2>1. <<>> \in Seq(Entry)
    OBVIOUS
  <2> QED
    BY <2>1, GoodType
<1>2. h \in [Nat -> [Result -> Result]]
  <2>1. ASSUME NEW i \in Nat, NEW x \in Result PROVE Then(x, at(i + 1)) \in Result
    <3>1. at(i + 1) \in Result
      BY <1>1
    <3> HIDE DEF at
    <3> QED
      BY <3>1, ThenType
  <2> HIDE DEF at
  <2> QED
    BY <2>1
<1>3. PICK F \in [Nat -> Result] : F[0] = Good(<<>>) /\ \A i \in Nat : F[i + 1] = h[i][F[i]]
  <2> HIDE DEF h
  <2>1. \A b \in Result : \A k \in [Nat -> [Result -> Result]] :
            \E F \in [Nat -> Result] : F[0] = b /\ \A i \in Nat : F[i + 1] = k[i][F[i]]
    BY PrimitiveRecursion, SMTT(40)
  <2> QED
    BY <1>1, <1>2, <2>1
<1>4. ASSUME NEW i \in 1..N PROVE F[i] = Then(F[i - 1], results[i])
  <2>1. i - 1 \in Nat /\ (i - 1) + 1 = i /\ F[i - 1] \in Result
    BY <1>3
  <2>2. F[i] = h[i - 1][F[i - 1]]
    BY <1>3, <2>1
  <2> QED
    BY <2>1, <2>2
<1> HIDE DEF h
<1>5. ASSUME NEW n \in 0..N PROVE InOrder(results, n) = F[n]
  <2> DEFINE Solves(g) ==
                 g = [i \in 0..n |-> IF i = 0 THEN Good(<<>>) ELSE Then(g[i - 1], results[i])]
             upTo == CHOOSE g : Solves(g)
             E == [i \in 0..n |-> F[i]]
  <2>1. Solves(E)
    <3>1. ASSUME NEW i \in 0..n, i # 0 PROVE F[i] = Then(E[i - 1], results[i])
      BY <1>4, <3>1
    <3> QED
      BY <1>3, <3>1
  <2>2. Solves(upTo)
    <3> HIDE DEF Solves, E
    <3> QED
      BY <2>1
  <2>3. InOrder(results, n) = upTo[n]
    BY DEF InOrder
  <2> DEFINE G == {i \in Nat : i <= n => upTo[i] = F[i]}
  <2> HIDE DEF upTo
  <2>4. 0 \in G
    BY <1>3, <2>2
  <2>5. ASSUME NEW i \in Nat, i \in G PROVE i + 1 \in G
    <3> SUFFICES ASSUME i + 1 <= n PROVE upTo[i + 1] = F[i + 1]
      OBVIOUS
    <3>1. upTo[i + 1] = Then(upTo[i], results[i + 1])
      BY <2>2
    <3>2. F[i + 1] = Then(F[i], results[i + 1])
      BY <1>4
    <3> QED
      BY <2>5, <3>1, <3>2
  <2> HIDE DEF G
  <2>6. n \in G
    BY <2>4, <2>5, SetInduction
  <2> QED
    BY <2>3, <2>6 DEF G
<1> QED
  BY <1>3, <1>4, <1>5

LEMMA InOrderSteps ==
    ASSUME NEW N \in Nat, NEW results, \A i \in 1..N : results[i] \in Result
    PROVE  /\ InOrder(results, 0) = Good(<<>>)
           /\ \A n \in 0..N : InOrder(results, n) \in Result
           /\ \A n \in 1..N : InOrder(results, n) = Then(InOrder(results, n - 1), results[n])
<1>1. PICK F \in [Nat -> Result] :
          /\ F[0] = Good(<<>>)
          /\ \A i \in 1..N : F[i] = Then(F[i - 1], results[i])
          /\ \A n \in 0..N : InOrder(results, n) = F[n]
  BY InOrderFunction, ZenonT(40)
<1>2. \A n \in 1..N : n \in 0..N /\ n - 1 \in 0..N
  OBVIOUS
<1>3. 0 \in 0..N
  OBVIOUS
<1> QED
  BY <1>1, <1>2, <1>3

(* After an exception nothing changes the result.                          *)
LEMMA InOrderStops ==
    ASSUME NEW N \in Nat, NEW results, \A i \in 1..N : results[i] \in Result,
           NEW n \in 0..N, ~IsGood(InOrder(results, n))
    PROVE  InOrder(results, N) = InOrder(results, n)
<1> DEFINE G == {k \in Nat : n + k <= N => InOrder(results, n + k) = InOrder(results, n)}
<1>1. 0 \in G
  OBVIOUS
<1>2. ASSUME NEW k \in Nat, k \in G PROVE k + 1 \in G
  <2> SUFFICES ASSUME n + k + 1 <= N
               PROVE  InOrder(results, n + k + 1) = InOrder(results, n)
    OBVIOUS
  <2>1. InOrder(results, n + k) = InOrder(results, n)
    BY <1>2
  <2>2. n + k + 1 \in 1..N /\ (n + k + 1) - 1 = n + k
    OBVIOUS
  <2>3. InOrder(results, n + k + 1) = Then(InOrder(results, n + k), results[n + k + 1])
    BY <2>2, InOrderSteps
  <2> QED
    BY <2>1, <2>3 DEF Then
<1> HIDE DEF G
<1>3. N - n \in G
  BY <1>1, <1>2, SetInduction
<1> QED
  BY <1>3 DEF G

(* The result r, unless r is the lack of an end.                           *)
Sharper(r, s) == r = Endless \/ s = r

LEMMA EndlessIsWrong == ~IsGood(Endless)
BY DEF Endless, Wrong, IsGood

LEMMA InOrderSharper ==
    ASSUME NEW N \in Nat, NEW r, NEW s,
           \A i \in 1..N : r[i] \in Result /\ s[i] \in Result /\ Sharper(r[i], s[i])
    PROVE  \A n \in 0..N : Sharper(InOrder(r, n), InOrder(s, n))
<1> DEFINE G == {n \in Nat : n <= N => Sharper(InOrder(r, n), InOrder(s, n))}
<1>1. 0 \in G
  BY InOrderSteps DEF Sharper
<1>2. ASSUME NEW n \in Nat, n \in G PROVE n + 1 \in G
  <2> SUFFICES ASSUME n + 1 <= N
               PROVE  Sharper(InOrder(r, n + 1), InOrder(s, n + 1))
    OBVIOUS
  <2>1. n + 1 \in 1..N /\ (n + 1) - 1 = n
    OBVIOUS
  <2>2. InOrder(r, n + 1) = Then(InOrder(r, n), r[n + 1])
    BY <2>1, InOrderSteps
  <2>3. InOrder(s, n + 1) = Then(InOrder(s, n), s[n + 1])
    BY <2>1, InOrderSteps
  <2>4. Sharper(InOrder(r, n), InOrder(s, n)) /\ Sharper(r[n + 1], s[n + 1])
    BY <1>2, <2>1
  <2> QED
    BY <2>2, <2>3, <2>4, EndlessIsWrong DEF Sharper, Then
<1> HIDE DEF G
<1>3. \A n \in Nat : n \in G
  BY <1>1, <1>2, SetInduction
<1> QED
  BY <1>3 DEF G

-----------------------------------------------------------------------------
(* What a statement names, and the types of meanings.                      *)
LEMMA StatementParts ==
    ASSUME NEW s \in Statement
    PROVE  /\ s.at \in Seq(Names)
           /\ s.how \in {"set", "relative", "file", "package"}
           /\ s.how = "set" => s.target \in Names
           /\ s.how \in {"relative", "file"} => s.target \in Paths
           /\ s.how = "package" => s.target \in Packages
BY DEF Statement, Assignment, PathInclude, PackageInclude

LEMMA PathFilesType ==
    ASSUME NEW dir \in Dirs, NEW path \in Paths
    PROVE  /\ PathFiles(dir, path) = Candidates(Joined[dir][path])
           /\ PathFiles(dir, path) \in Seq(Files) \ {<<>>}
           /\ Joined[dir][path] \in Files => PathFiles(dir, path) = <<Joined[dir][path]>>
<1> DEFINE abs == Joined[dir][path]
<1>1. abs \in Files \cup Bare
  BY NamingAssumption
<1> HIDE DEF abs
<1>2. CASE abs \in Files
  BY <1>2 DEF PathFiles, Candidates, abs
<1>3. CASE abs \notin Files
  <2>1. Extensions[1] = ".properties" /\ Extensions[2] = ".json" /\ Extensions[3] = ".conf"
    BY DEF Extensions
  <2>2. WithExtension[abs] \in [{Extensions[i] : i \in 1..3} -> Files]
    BY <1>1, <1>3, NamingAssumption
  <2>3. \A i \in 1..3 : WithExtension[abs][Extensions[i]] \in Files
    BY <2>2
  <2>4. PathFiles(dir, path) =
            <<WithExtension[abs][Extensions[1]], WithExtension[abs][Extensions[2]],
              WithExtension[abs][Extensions[3]]>>
    BY <1>3, <2>1 DEF PathFiles, abs
  <2>5. Candidates(abs) = [i \in 1..3 |-> WithExtension[abs][Extensions[i]]]
    BY <1>3 DEF Candidates
  <2>6. PathFiles(dir, path) = Candidates(abs)
    BY <2>4, <2>5
  <2>7. PathFiles(dir, path) \in Seq(Files) \ {<<>>}
    BY <2>3, <2>4
  <2> QED
    BY <1>3, <2>6, <2>7 DEF abs
<1> QED
  BY <1>2, <1>3

(* The bases that have a package file, and the first of them.              *)
PackageBases(dir) == IF ResolveFrom = <<>> THEN <<dir>> ELSE ResolveFrom
BasesWith(d, dir, package) ==
    {i \in 1..Len(PackageBases(dir)) : Exists(d, PackageFile[PackageBases(dir)[i]][package])}

LEMMA PackageFilesFirst ==
    ASSUME NEW d, NEW dir \in Dirs, NEW package \in Packages,
           NEW i \in BasesWith(d, dir, package),
           \A j \in BasesWith(d, dir, package) : i <= j
    PROVE  PackageFiles(d, dir, package) = <<PackageFile[PackageBases(dir)[i]][package]>>
<1> DEFINE there == BasesWith(d, dir, package)
           first == CHOOSE k \in there : \A j \in there : k <= j
<1>1. PackageFiles(d, dir, package) = <<PackageFile[PackageBases(dir)[first]][package]>>
  BY DEF PackageFiles, PackageBases, BasesWith
<1>2. there \subseteq Int
  BY DEF BasesWith
<1> HIDE DEF there
<1>3. first \in there /\ \A j \in there : first <= j
  BY DEF there
<1>4. first = i
  <2>1. first <= i /\ i <= first /\ first \in Int /\ i \in Int
    BY <1>2, <1>3 DEF there
  <2> QED
    BY <2>1
<1> QED
  BY <1>1, <1>4

LEMMA PackageFilesNone ==
    ASSUME NEW d, NEW dir, NEW package, BasesWith(d, dir, package) = {}
    PROVE  PackageFiles(d, dir, package) = <<>>
BY DEF PackageFiles, PackageBases, BasesWith

LEMMA PackageFilesType ==
    ASSUME NEW d, NEW dir \in Dirs, NEW package \in Packages
    PROVE  \/ PackageFiles(d, dir, package) = <<>>
           \/ \E base \in Dirs :
                  /\ PackageFiles(d, dir, package) = <<PackageFile[base][package]>>
                  /\ PackageFile[base][package] \in Files
                  /\ Exists(d, PackageFile[base][package])
<1> DEFINE there == BasesWith(d, dir, package)
<1>1. CASE there = {}
  BY <1>1, PackageFilesNone
<1>2. CASE there # {}
  <2>1. PackageBases(dir) \in Seq(Dirs)
    BY NamingAssumption DEF PackageBases
  <2>2. there \in SUBSET Nat
    BY <2>1 DEF BasesWith
  <2> HIDE DEF there
  <2>3. PICK i \in there : \A j \in there : i <= j
    BY <1>2, <2>2, LeastNumber
  <2>4. PackageFiles(d, dir, package) = <<PackageFile[PackageBases(dir)[i]][package]>>
    BY <2>3, PackageFilesFirst DEF there
  <2>5. PackageBases(dir)[i] \in Dirs /\ Exists(d, PackageFile[PackageBases(dir)[i]][package])
    BY <2>1, <2>3 DEF there, BasesWith
  <2>6. PackageFile[PackageBases(dir)[i]][package] \in Files
    BY <2>5, NamingAssumption
  <2> QED
    BY <2>4, <2>5, <2>6
<1> QED
  BY <1>1, <1>2

LEMMA NamedType ==
    ASSUME NEW d, NEW s \in Statement, s.how # "set", NEW dir \in Dirs
    PROVE  /\ Named(d, s, dir) \in Seq(Files)
           /\ s.how # "package" => Named(d, s, dir) # <<>>
<1>1. CASE s.how = "package"
  <2>1. \/ PackageFiles(d, dir, s.target) = <<>>
        \/ \E base \in Dirs : /\ PackageFiles(d, dir, s.target) = <<PackageFile[base][s.target]>>
                              /\ PackageFile[base][s.target] \in Files
    BY <1>1, StatementParts, PackageFilesType
  <2>2. ASSUME NEW f \in Files PROVE <<f>> \in Seq(Files)
    OBVIOUS
  <2>3. <<>> \in Seq(Files)
    OBVIOUS
  <2>4. PackageFiles(d, dir, s.target) \in Seq(Files)
    BY <2>1, <2>2, <2>3
  <2> QED
    BY <1>1, <2>4 DEF Named
<1>2. CASE s.how # "package"
  <2>1. s.target \in Paths
    BY <1>2, StatementParts
  <2>2. (IF s.how = "file" THEN Cwd ELSE dir) \in Dirs
    BY NamingAssumption
  <2> QED
    BY <1>2, <2>1, <2>2, PathFilesType DEF Named
<1> QED
  BY <1>1, <1>2

LEMMA FileMeaningType ==
    ASSUME NEW d \in [Files -> Content], NEW f \in Files, NEW level \in [Files -> Result]
    PROVE  FileMeaning(d, f, level) \in Result
<1>1. d[f].kind \in {"object", "missing", "unreadable", "rejected"}
  BY DEF Content
<1>2. Good(<<>>) \in Result
  <2>1. <<>> \in Seq(Entry)
    OBVIOUS
  <2> QED
    BY <2>1, GoodType
<1>3. d[f].kind \in {"unreadable", "rejected"} => Wrong(d[f].kind) \in Result
  BY WrongType DEF Whys, Outcomes
<1> QED
  BY <1>1, <1>2, <1>3 DEF FileMeaning, Exists

LEMMA FileMeaningsType ==
    ASSUME NEW d \in [Files -> Content], NEW files \in Seq(Files),
           NEW level \in [Files -> Result]
    PROVE  LET results == [i \in 1..Len(files) |-> FileMeaning(d, files[i], level)]
           IN  /\ Len(files) \in Nat
               /\ \A i \in 1..Len(files) : results[i] \in Result
               /\ Included(d, files, level) \in Result
<1> DEFINE results == [i \in 1..Len(files) |-> FileMeaning(d, files[i], level)]
<1>1. Len(files) \in Nat /\ Len(files) \in 0..Len(files)
  OBVIOUS
<1>2. ASSUME NEW i \in 1..Len(files) PROVE results[i] \in Result
  BY FileMeaningType
<1> HIDE DEF results
<1>3. InOrder(results, Len(files)) \in Result
  BY <1>1, <1>2, InOrderSteps
<1> QED
  BY <1>1, <1>2, <1>3 DEF Included, results

LEMMA PlacedType ==
    ASSUME NEW s \in Statement, NEW r \in Result
    PROVE  Placed(s, r) \in Result
<1>1. s.at \in Seq(Names) /\ r.entries \in Seq(Entry)
  BY StatementParts DEF Result
<1>2. Good(Under(s.at, r.entries)) \in Result
  BY <1>1, UnderType, GoodType
<1> QED
  BY <1>2 DEF Placed

LEMMA MeaningType ==
    ASSUME NEW d \in [Files -> Content], NEW s \in Statement, NEW from \in Files \cup {Root},
           NEW dir \in Dirs, NEW n \in Nat, NEW level, n # 0 => level \in [Files -> Result]
    PROVE  Meaning(d, s, from, dir, n, level) \in Result
<1>1. CASE s.how = "set"
  <2>1. Append(s.at, s.target) \in Seq(Names)
    BY <1>1, StatementParts
  <2>2. [path |-> Append(s.at, s.target), from |-> from] \in Entry
    BY <2>1 DEF Entry
  <2>3. ASSUME NEW e \in Entry PROVE Good(<<e>>) \in Result
    <3>1. <<e>> \in Seq(Entry)
      OBVIOUS
    <3> QED
      BY <3>1, GoodType
  <2> QED
    BY <1>1, <2>2, <2>3 DEF Meaning
<1>2. CASE s.how # "set" /\ n = 0
  BY <1>2, WrongType DEF Meaning, Endless, Whys
<1>3. CASE s.how # "set" /\ n # 0
  <2> DEFINE files == Named(d, s, dir)
  <2>1. files \in Seq(Files)
    BY <1>3, NamedType
  <2> HIDE DEF files
  <2>2. Placed(s, Included(d, files, level)) \in Result
    BY <1>3, <2>1, FileMeaningsType, PlacedType
  <2>3. Wrong("package not found") \in Result /\ Wrong("required not found") \in Result
    BY WrongType DEF Whys, Outcomes
  <2>4. Good(<<>>) \in Result
    <3>1. <<>> \in Seq(Entry)
      OBVIOUS
    <3> QED
      BY <3>1, GoodType
  <2> QED
    BY <1>3, <2>2, <2>3, <2>4 DEF Meaning, DirectiveMeaning, files
<1> QED
  BY <1>1, <1>2, <1>3

LEMMA DocumentType ==
    ASSUME NEW d \in [Files -> Content], NEW items \in Seq(Statement),
           NEW from \in Files \cup {Root}, NEW dir \in Dirs, NEW n \in Nat,
           NEW level, n # 0 => level \in [Files -> Result]
    PROVE  LET results ==
                   [i \in 1..Len(items) |-> Meaning(d, items[i], from, dir, n, level)]
           IN  /\ Len(items) \in Nat
               /\ \A i \in 1..Len(items) : results[i] \in Result
               /\ DocumentMeaning(d, items, from, dir, n, level) \in Result
<1> DEFINE results == [i \in 1..Len(items) |-> Meaning(d, items[i], from, dir, n, level)]
<1>1. Len(items) \in Nat /\ Len(items) \in 0..Len(items)
  OBVIOUS
<1>2. ASSUME NEW i \in 1..Len(items) PROVE results[i] \in Result
  <2>1. items[i] \in Statement
    OBVIOUS
  <2> QED
    BY <2>1, MeaningType
<1> HIDE DEF results
<1>3. InOrder(results, Len(items)) \in Result
  BY <1>1, <1>2, InOrderSteps
<1> QED
  BY <1>1, <1>2, <1>3 DEF DocumentMeaning, results

(* The levels are what their definition by recursion says.                 *)
LevelOver(d, n, level) ==
    [f \in Files |-> DocumentMeaning(d, d[f].items, f, DirOf[f], n, level)]

LEMMA LevelType ==
    ASSUME NEW d \in [Files -> Content], NEW n \in Nat, NEW level,
           n # 0 => level \in [Files -> Result]
    PROVE  LevelOver(d, n, level) \in [Files -> Result]
<1>1. ASSUME NEW f \in Files
      PROVE  DocumentMeaning(d, d[f].items, f, DirOf[f], n, level) \in Result
  <2>1. d[f].items \in Seq(Statement) /\ DirOf[f] \in Dirs
    BY NamingAssumption DEF Content
  <2> QED
    BY <2>1, DocumentType
<1> QED
  BY <1>1 DEF LevelOver

Level == [Files -> Result]

LEMMA LevelRecursion ==
    \A b \in Level : \A h \in [Nat -> [Level -> Level]] :
        \E F \in [Nat -> Level] : F[0] = b /\ \A i \in Nat : F[i + 1] = h[i][F[i]]
BY PrimitiveRecursion

LEMMA LevelsSteps ==
    ASSUME NEW d \in [Files -> Content], NEW n \in Nat
    PROVE  /\ Levels(d)[n] \in [Files -> Result]
           /\ Levels(d)[n] = LevelOver(d, n, IF n = 0 THEN <<>> ELSE Levels(d)[n - 1])
<1> DEFINE b == LevelOver(d, 0, <<>>)
           h == [k \in Nat |-> [level \in Level |-> LevelOver(d, k + 1, level)]]
           Solves(g) ==
               g = [k \in Nat |-> LET level == IF k = 0 THEN <<>> ELSE g[k - 1]
                                  IN  [f \in Files |->
                                          DocumentMeaning(d, d[f].items, f, DirOf[f], k, level)]]
<1>1. b \in Level
  BY LevelType DEF Level
<1>2. h \in [Nat -> [Level -> Level]]
  <2>1. ASSUME NEW k \in Nat, NEW level \in Level PROVE LevelOver(d, k + 1, level) \in Level
    BY LevelType DEF Level
  <2> QED
    BY <2>1
<1>3. PICK F \in [Nat -> Level] : F[0] = b /\ \A i \in Nat : F[i + 1] = h[i][F[i]]
  <2> HIDE DEF h, b
  <2> QED
    BY <1>1, <1>2, LevelRecursion
<1>4. \A k \in Nat : k # 0 => F[k] = LevelOver(d, k, F[k - 1])
  <2> SUFFICES ASSUME NEW k \in Nat, k # 0 PROVE F[k] = LevelOver(d, k, F[k - 1])
    OBVIOUS
  <2>1. k - 1 \in Nat /\ (k - 1) + 1 = k
    OBVIOUS
  <2>2. F[k - 1] \in Level
    BY <1>3, <2>1
  <2>3. F[k] = h[k - 1][F[k - 1]]
    BY <1>3, <2>1
  <2>4. h[k - 1][F[k - 1]] = LevelOver(d, (k - 1) + 1, F[k - 1])
    BY <2>1, <2>2
  <2> QED
    BY <2>1, <2>3, <2>4
<1> HIDE DEF h
<1>5. Solves(F)
  <2>1. \A k \in Nat : F[k] = LevelOver(d, k, IF k = 0 THEN <<>> ELSE F[k - 1])
    BY <1>3, <1>4
  <2>2. F = [k \in Nat |-> F[k]]
    BY <1>3
  <2>3. F = [k \in Nat |-> LevelOver(d, k, IF k = 0 THEN <<>> ELSE F[k - 1])]
    BY <2>1, <2>2
  <2> QED
    BY <2>3 DEF LevelOver
<1> HIDE DEF Solves
<1>6. Solves(Levels(d))
  <2>1. Levels(d) = CHOOSE g : Solves(g)
    BY DEF Levels, Solves
  <2> QED
    BY <1>5, <2>1
<1>7. \A k \in Nat : Levels(d)[k] = LevelOver(d, k, IF k = 0 THEN <<>> ELSE Levels(d)[k - 1])
  BY <1>6 DEF Solves, LevelOver
<1> DEFINE G == {k \in Nat : Levels(d)[k] \in Level}
<1>8. 0 \in G
  BY <1>7, LevelType DEF Level
<1>9. ASSUME NEW k \in Nat, k \in G PROVE k + 1 \in G
  <2>1. Levels(d)[k] \in [Files -> Result] /\ k + 1 \in Nat /\ k + 1 # 0 /\ (k + 1) - 1 = k
    BY <1>9 DEF Level
  <2>2. Levels(d)[k + 1] = LevelOver(d, k + 1, Levels(d)[k])
    BY <1>7, <2>1
  <2>3. LevelOver(d, k + 1, Levels(d)[k]) \in [Files -> Result]
    BY <2>1, LevelType
  <2> QED
    BY <2>2, <2>3 DEF Level
<1> HIDE DEF G
<1>10. n \in G
  BY <1>8, <1>9, SetInduction
<1> QED
  BY <1>7, <1>10 DEF G, Level

ItemsOf(t, d, from) == IF from = Root THEN t ELSE d[from].items
HomeOf(from) == IF from = Root THEN BaseDir ELSE DirOf[from]

(* The meanings of the statements of a source, with n levels below it, and *)
(* of the files that a directive of it names.                              *)
Below(d, n) == IF n = 0 THEN <<>> ELSE Levels(d)[n - 1]
Meanings(t, d, from, n) ==
    LET items == ItemsOf(t, d, from)
    IN  [j \in 1..Len(items) |-> Meaning(d, items[j], from, HomeOf(from), n, Below(d, n))]
FileMeanings(d, files, n) == [j \in 1..Len(files) |-> FileMeaning(d, files[j], Below(d, n))]

LEMMA BelowType ==
    ASSUME NEW d \in [Files -> Content], NEW n \in Nat
    PROVE  n # 0 => Below(d, n) \in [Files -> Result] /\ Below(d, n) = Levels(d)[n - 1]
BY LevelsSteps DEF Below

LEMMA SourceType ==
    ASSUME NEW t \in Seq(Statement), NEW d \in [Files -> Content], NEW from \in Files \cup {Root}
    PROVE  ItemsOf(t, d, from) \in Seq(Statement) /\ HomeOf(from) \in Dirs
BY NamingAssumption DEF ItemsOf, HomeOf, Content

LEMMA MeaningsType ==
    ASSUME NEW t \in Seq(Statement), NEW d \in [Files -> Content],
           NEW from \in Files \cup {Root}, NEW n \in Nat
    PROVE  /\ Len(ItemsOf(t, d, from)) \in Nat
           /\ \A i \in 1..Len(ItemsOf(t, d, from)) :
                  /\ Meanings(t, d, from, n)[i] \in Result
                  /\ Meanings(t, d, from, n)[i] =
                         Meaning(d, ItemsOf(t, d, from)[i], from, HomeOf(from), n, Below(d, n))
BY SourceType, BelowType, DocumentType DEF Meanings

LEMMA FileMeaningsOf ==
    ASSUME NEW d \in [Files -> Content], NEW files \in Seq(Files), NEW n \in Nat \ {0}
    PROVE  /\ Len(files) \in Nat
           /\ \A i \in 1..Len(files) :
                  /\ FileMeanings(d, files, n)[i] \in Result
                  /\ FileMeanings(d, files, n)[i] = FileMeaning(d, files[i], Below(d, n))
           /\ Included(d, files, Below(d, n)) = InOrder(FileMeanings(d, files, n), Len(files))
BY BelowType, FileMeaningsType DEF FileMeanings, Included

(* The meaning of a file, and of the text.                                 *)
LEMMA FileIsDocument ==
    ASSUME NEW t, NEW d \in [Files -> Content], NEW f \in Files, NEW n \in Nat
    PROVE  Levels(d)[n][f] = InOrder(Meanings(t, d, f, n), Len(ItemsOf(t, d, f)))
<1>1. f # Root
  BY NamingAssumption
<1>2. Levels(d)[n] = LevelOver(d, n, Below(d, n))
  BY LevelsSteps DEF Below
<1>3. Levels(d)[n][f] = DocumentMeaning(d, d[f].items, f, DirOf[f], n, Below(d, n))
  BY <1>2 DEF LevelOver
<1>4. ItemsOf(t, d, f) = d[f].items /\ HomeOf(f) = DirOf[f]
  BY <1>1 DEF ItemsOf, HomeOf
<1> QED
  BY <1>3, <1>4 DEF DocumentMeaning, Meanings

LEMMA TextIsDocument ==
    ASSUME NEW n \in Nat
    PROVE  Unfolded(n) = InOrder(Meanings(text, disk, Root, n), Len(ItemsOf(text, disk, Root)))
BY DEF Unfolded, DocumentMeaning, Meanings, ItemsOf, HomeOf, Below
-----------------------------------------------------------------------------
(* More levels change only what had no end.                                *)
LEMMA IncludedSharper ==
    ASSUME NEW d \in [Files -> Content], NEW files \in Seq(Files),
           NEW r \in [Files -> Result], NEW s \in [Files -> Result],
           \A f \in Files : Sharper(r[f], s[f])
    PROVE  Sharper(Included(d, files, r), Included(d, files, s))
<1> DEFINE a == [i \in 1..Len(files) |-> FileMeaning(d, files[i], r)]
           b == [i \in 1..Len(files) |-> FileMeaning(d, files[i], s)]
<1>1. /\ Len(files) \in Nat /\ Len(files) \in 0..Len(files)
      /\ \A i \in 1..Len(files) : a[i] \in Result /\ b[i] \in Result
  BY FileMeaningsType
<1>2. ASSUME NEW i \in 1..Len(files) PROVE Sharper(a[i], b[i])
  BY DEF FileMeaning, Sharper
<1> HIDE DEF a, b
<1>3. Sharper(InOrder(a, Len(files)), InOrder(b, Len(files)))
  BY <1>1, <1>2, InOrderSharper
<1> QED
  BY <1>3 DEF a, b, Included

LEMMA MeaningSharper ==
    ASSUME NEW d \in [Files -> Content], NEW s \in Statement, NEW from, NEW dir \in Dirs,
           NEW m \in Nat, NEW n \in Nat \ {0}, NEW r, NEW q \in [Files -> Result],
           m # 0 => r \in [Files -> Result] /\ \A f \in Files : Sharper(r[f], q[f])
    PROVE  Sharper(Meaning(d, s, from, dir, m, r), Meaning(d, s, from, dir, n, q))
<1>1. CASE s.how = "set" \/ m = 0
  BY <1>1 DEF Meaning, Sharper
<1>2. CASE s.how # "set" /\ m # 0
  <2> DEFINE files == Named(d, s, dir)
  <2>1. files \in Seq(Files)
    BY <1>2, NamedType
  <2> HIDE DEF files
  <2>2. Sharper(Included(d, files, r), Included(d, files, q))
    BY <1>2, <2>1, IncludedSharper
  <2>3. Sharper(Placed(s, Included(d, files, r)), Placed(s, Included(d, files, q)))
    BY <2>2, EndlessIsWrong DEF Sharper, Placed
  <2>4. Sharper(DirectiveMeaning(d, s, files, r), DirectiveMeaning(d, s, files, q))
    BY <2>3 DEF DirectiveMeaning, Sharper
  <2> QED
    BY <1>2, <2>4 DEF Meaning, files
<1> QED
  BY <1>1, <1>2

LEMMA LevelSharper ==
    ASSUME NEW d \in [Files -> Content], NEW m \in Nat, NEW n \in Nat \ {0},
           m # 0 => \A f \in Files : Sharper(Below(d, m)[f], Below(d, n)[f])
    PROVE  /\ \A t \in Seq(Statement), from \in Files \cup {Root} :
                  \A i \in 1..Len(ItemsOf(t, d, from)) :
                      Sharper(Meanings(t, d, from, m)[i], Meanings(t, d, from, n)[i])
           /\ \A f \in Files : Sharper(Levels(d)[m][f], Levels(d)[n][f])
<1>1. ASSUME NEW t \in Seq(Statement), NEW from \in Files \cup {Root},
             NEW i \in 1..Len(ItemsOf(t, d, from))
      PROVE  Sharper(Meanings(t, d, from, m)[i], Meanings(t, d, from, n)[i])
  <2> DEFINE s == ItemsOf(t, d, from)[i]
  <2>1. s \in Statement /\ HomeOf(from) \in Dirs
    BY SourceType
  <2>2. /\ Meanings(t, d, from, m)[i] = Meaning(d, s, from, HomeOf(from), m, Below(d, m))
        /\ Meanings(t, d, from, n)[i] = Meaning(d, s, from, HomeOf(from), n, Below(d, n))
    BY MeaningsType
  <2>3. Below(d, n) \in [Files -> Result] /\ (m # 0 => Below(d, m) \in [Files -> Result])
    BY BelowType
  <2> HIDE DEF s
  <2> QED
    BY <2>1, <2>2, <2>3, MeaningSharper
<1>2. ASSUME NEW f \in Files PROVE Sharper(Levels(d)[m][f], Levels(d)[n][f])
  <2> DEFINE N == Len(ItemsOf(<<>>, d, f))
             a == Meanings(<<>>, d, f, m)
             b == Meanings(<<>>, d, f, n)
  <2>0. <<>> \in Seq(Statement)
    OBVIOUS
  <2>1. N \in Nat /\ \A i \in 1..N : a[i] \in Result /\ b[i] \in Result
    BY <2>0, MeaningsType
  <2>2. \A i \in 1..N : Sharper(a[i], b[i])
    BY <1>1, <2>0
  <2>3. Levels(d)[m][f] = InOrder(a, N) /\ Levels(d)[n][f] = InOrder(b, N)
    BY FileIsDocument
  <2> HIDE DEF N, a, b
  <2>4. N \in 0..N
    BY <2>1
  <2>5. Sharper(InOrder(a, N), InOrder(b, N))
    BY <2>1, <2>2, <2>4, InOrderSharper
  <2> QED
    BY <2>3, <2>5
<1> QED
  BY <1>1, <1>2

LEMMA LevelsSharper ==
    ASSUME NEW d \in [Files -> Content]
    PROVE  \A m, n \in Nat : m <= n =>
               \A f \in Files : Sharper(Levels(d)[m][f], Levels(d)[n][f])
<1> DEFINE Next1(n) == \A f \in Files : Sharper(Levels(d)[n][f], Levels(d)[n + 1][f])
           G == {n \in Nat : Next1(n)}
<1>1. 0 \in G
  <2>1. Next1(0)
    BY LevelSharper
  <2> QED
    BY <2>1
<1>2. ASSUME NEW n \in Nat, n \in G PROVE n + 1 \in G
  <2>1. Below(d, n + 1) = Levels(d)[n] /\ Below(d, n + 2) = Levels(d)[n + 1]
    BY BelowType
  <2>2. \A f \in Files : Sharper(Below(d, n + 1)[f], Below(d, n + 2)[f])
    BY <1>2, <2>1
  <2>3. Next1(n + 1)
    <3>1. n + 1 \in Nat /\ n + 2 \in Nat \ {0} /\ (n + 1) + 1 = n + 2
      OBVIOUS
    <3> QED
      BY <2>2, <3>1, LevelSharper
  <2> HIDE DEF Next1
  <2> QED
    BY <2>3
<1> HIDE DEF G
<1>3. \A n \in Nat : n \in G
  BY <1>1, <1>2, SetInduction
<1>4. \A n \in Nat : Next1(n)
  BY <1>3 DEF G
<1> SUFFICES ASSUME NEW m \in Nat
             PROVE  \A n \in Nat : m <= n =>
                        \A f \in Files : Sharper(Levels(d)[m][f], Levels(d)[n][f])
  OBVIOUS
<1> DEFINE After(k) == \A f \in Files : Sharper(Levels(d)[m][f], Levels(d)[m + k][f])
           H == {k \in Nat : After(k)}
<1>5. 0 \in H
  BY DEF Sharper
<1>6. ASSUME NEW k \in Nat, k \in H PROVE k + 1 \in H
  <2>1. Next1(m + k)
    BY <1>4
  <2>2. After(k + 1)
    <3>1. (m + k) + 1 = m + (k + 1)
      OBVIOUS
    <3> QED
      BY <1>6, <2>1, <3>1 DEF Sharper
  <2> HIDE DEF After
  <2> QED
    BY <2>2
<1> HIDE DEF H
<1>7. \A k \in Nat : k \in H
  BY <1>5, <1>6, SetInduction
<1>8. \A k \in Nat : After(k)
  BY <1>7 DEF H
<1>9. ASSUME NEW n \in Nat, m <= n
      PROVE  \A f \in Files : Sharper(Levels(d)[m][f], Levels(d)[n][f])
  <2>1. n - m \in Nat /\ m + (n - m) = n
    BY <1>9
  <2>2. After(n - m)
    BY <1>8, <2>1
  <2> QED
    BY <2>1, <2>2
<1> QED
  BY <1>9
-----------------------------------------------------------------------------

SourceMeaning(t, d, from, n) ==
    InOrder(Meanings(t, d, from, n), Len(ItemsOf(t, d, from)))
HeadMeaning(d, n, f) == Meaning(d, Head(f.todo), f.from, f.dir, n, Below(d, n))
Past(t, d, f) == Len(ItemsOf(t, d, f.from)) - Len(f.todo)

(* A build that n more may wait below stands at a statement of its source, *)
(* and its tree is the meaning of the statements before it.                *)
AtStatement(t, d, n, f) ==
    /\ f.dir = HomeOf(f.from)
    /\ Past(t, d, f) >= 0
    /\ \A j \in 1..Len(f.todo) : f.todo[j] = ItemsOf(t, d, f.from)[Past(t, d, f) + j]
    /\ InOrder(Meanings(t, d, f.from, n), Past(t, d, f)) = Good(f.obj)

(* The files that the directive at hand names, and how many of them are no *)
(* longer among the candidates.                                            *)
FilesAt(d, f) == Named(d, Head(f.todo), f.dir)
Tried(d, f) == Len(FilesAt(d, f)) - Len(f.probes)

(* A build inside load has merged what the first files mean.               *)
AtFile(d, n, f, done) ==
    /\ f.todo # <<>> /\ Head(f.todo).how # "set"
    /\ FilesAt(d, f) # <<>>
    /\ Tried(d, f) >= done /\ done >= 0
    /\ \A j \in 1..Len(f.probes) : f.probes[j] = FilesAt(d, f)[Tried(d, f) + j]
    /\ InOrder(FileMeanings(d, FilesAt(d, f), n), done) = Good(f.merged)
    /\ f.found <=> \E j \in 1..done : Exists(d, FilesAt(d, f)[j])
    /\ ~f.found => f.merged = <<>>

KeyAt(f, file) == IF Head(f.todo).how = "package" THEN Head(f.todo).target ELSE file

(* The build f waits for the build g of the file it tried last.            *)
Waits(d, f, g) ==
    /\ f.mode = "probe"
    /\ Tried(d, f) >= 1
    /\ g.from = FilesAt(d, f)[Tried(d, f)]
    /\ d[g.from].kind = "object"
    /\ g.stack = Append(f.stack, KeyAt(f, g.from))

LevelsLeft(i) == MaxDepth + 1 - i
Waiting(i) == IF i < Len(frames) THEN 1 ELSE 0

FrameMeans(t, d, n, f, waiting) ==
    /\ AtStatement(t, d, n, f)
    /\ f.mode = "probe" => AtFile(d, n, f, Tried(d, f) - waiting)

MInv ==
    /\ frames[1].from = Root
    /\ \A i \in 1..Len(frames) : FrameMeans(text, disk, LevelsLeft(i), frames[i], Waiting(i))
    /\ \A i \in 1..(Len(frames) - 1) : Waits(disk, frames[i], frames[i + 1])
-----------------------------------------------------------------------------
LEMMA FrameParts ==
    ASSUME NEW f \in Frame
    PROVE  /\ f.from \in Files \cup {Root} /\ f.dir \in Dirs
           /\ f.todo \in Seq(Statement) /\ f.obj \in Seq(Entry)
           /\ f.probes \in Seq(Files) /\ f.merged \in Seq(Entry) /\ f.stack \in Seq(Keys)
           /\ f.mode \in {"apply", "probe"} /\ f.found \in BOOLEAN
           /\ Len(f.todo) \in Nat /\ Len(f.probes) \in Nat
BY DEF Frame

(* The meaning of the statement at hand goes after the tree that is there. *)
LEMMA NextStatement ==
    ASSUME NEW t \in Seq(Statement), NEW d \in [Files -> Content], NEW n \in Nat,
           NEW f \in Frame, AtStatement(t, d, n, f), f.todo # <<>>
    PROVE  /\ Head(f.todo) \in Statement
           /\ Past(t, d, f) \in Nat
           /\ Past(t, d, f) + 1 \in 1..Len(ItemsOf(t, d, f.from))
           /\ HeadMeaning(d, n, f) \in Result
           /\ InOrder(Meanings(t, d, f.from, n), Past(t, d, f) + 1) =
                  Then(Good(f.obj), HeadMeaning(d, n, f))
<1> DEFINE items == ItemsOf(t, d, f.from)
           p == Past(t, d, f)
           N == Len(items)
           r == Meanings(t, d, f.from, n)
<1>1. /\ f.from \in Files \cup {Root} /\ f.todo \in Seq(Statement) /\ Len(f.todo) \in Nat
  BY FrameParts
<1>2. items \in Seq(Statement) /\ N \in Nat
  BY <1>1, SourceType
<1>3. Len(f.todo) >= 1 /\ Head(f.todo) = f.todo[1] /\ Head(f.todo) \in Statement
  BY <1>1
<1>4. p = N - Len(f.todo) /\ p >= 0
  BY DEF AtStatement, Past
<1>5. p \in Nat /\ p + 1 \in 1..N /\ (p + 1) - 1 = p
  BY <1>1, <1>2, <1>3, <1>4
<1>6. Head(f.todo) = items[p + 1]
  BY <1>1, <1>3 DEF AtStatement
<1>7. \A i \in 1..N : /\ r[i] \in Result
                      /\ r[i] = Meaning(d, items[i], f.from, HomeOf(f.from), n, Below(d, n))
  BY <1>1, MeaningsType
<1>8. r[p + 1] = HeadMeaning(d, n, f)
  BY <1>5, <1>6, <1>7 DEF HeadMeaning, AtStatement
<1> HIDE DEF items, N, r, p
<1>9. InOrder(r, p + 1) = Then(InOrder(r, p), r[p + 1])
  BY <1>2, <1>5, <1>7, InOrderSteps
<1>10. InOrder(r, p) = Good(f.obj)
  BY DEF AtStatement, r, p
<1> QED
  BY <1>3, <1>5, <1>7, <1>8, <1>9, <1>10 DEF items, N, r, p

(* A statement is applied.                                                 *)
LEMMA StatementDone ==
    ASSUME NEW t \in Seq(Statement), NEW d \in [Files -> Content], NEW n \in Nat,
           NEW f \in Frame, AtStatement(t, d, n, f), f.todo # <<>>,
           NEW more \in Seq(Entry), HeadMeaning(d, n, f) = Good(more),
           NEW g, g.from = f.from, g.dir = f.dir, g.todo = Tail(f.todo), g.obj = f.obj \o more
    PROVE  AtStatement(t, d, n, g)
<1>1. f.todo \in Seq(Statement) /\ f.obj \in Seq(Entry) /\ f.todo # <<>> /\ Len(f.todo) \in Nat
  BY FrameParts
<1>2. /\ Len(g.todo) = Len(f.todo) - 1
      /\ \A j \in 1..Len(g.todo) : g.todo[j] = f.todo[j + 1] /\ j + 1 \in 1..Len(f.todo)
  BY <1>1
<1>a. f.from \in Files \cup {Root}
  BY FrameParts
<1>b. Len(ItemsOf(t, d, f.from)) \in Nat
  BY <1>a, SourceType
<1>3. Past(t, d, g) = Past(t, d, f) + 1 /\ Past(t, d, f) \in Nat
  <2>1. Past(t, d, f) \in Nat
    BY NextStatement
  <2>2. /\ Past(t, d, g) = Len(ItemsOf(t, d, f.from)) - Len(g.todo)
        /\ Past(t, d, f) = Len(ItemsOf(t, d, f.from)) - Len(f.todo)
    BY DEF Past
  <2>3. ASSUME NEW a \in Nat, NEW b \in Nat, NEW c, c = b - 1 PROVE a - c = (a - b) + 1
    BY <2>3
  <2>4. Past(t, d, g) = Past(t, d, f) + 1
    BY <1>1, <1>2, <1>b, <2>2, <2>3
  <2> QED
    BY <2>1, <2>4
<1>4. ASSUME NEW j \in 1..Len(g.todo)
      PROVE  g.todo[j] = ItemsOf(t, d, g.from)[Past(t, d, g) + j]
  <2>1. j + 1 \in 1..Len(f.todo)
    BY <1>2
  <2>2. f.todo[j + 1] = ItemsOf(t, d, f.from)[Past(t, d, f) + (j + 1)]
    BY <2>1 DEF AtStatement
  <2>3. Past(t, d, f) + (j + 1) = Past(t, d, g) + j
    BY <1>1, <1>2, <1>3
  <2> QED
    BY <1>2, <2>2, <2>3
<1>5. InOrder(Meanings(t, d, f.from, n), Past(t, d, f) + 1) = Then(Good(f.obj), Good(more))
  BY NextStatement
<1>6. Then(Good(f.obj), Good(more)) = Good(f.obj \o more)
  BY <1>1, GoodType DEF Then
<1> QED
  BY <1>3, <1>4, <1>5, <1>6 DEF AtStatement

(* A statement fails, and with it the source it stands in.                 *)
LEMMA StatementFails ==
    ASSUME NEW t \in Seq(Statement), NEW d \in [Files -> Content], NEW n \in Nat,
           NEW f \in Frame, AtStatement(t, d, n, f), f.todo # <<>>,
           ~IsGood(HeadMeaning(d, n, f))
    PROVE  SourceMeaning(t, d, f.from, n) = HeadMeaning(d, n, f)
<1> DEFINE N == Len(ItemsOf(t, d, f.from))
           r == Meanings(t, d, f.from, n)
           p == Past(t, d, f) + 1
<1>1. N \in Nat /\ \A i \in 1..N : r[i] \in Result
  BY FrameParts, MeaningsType
<1>2. p \in 1..N /\ InOrder(r, p) = Then(Good(f.obj), HeadMeaning(d, n, f))
  BY NextStatement
<1>3. Then(Good(f.obj), HeadMeaning(d, n, f)) = HeadMeaning(d, n, f)
  BY FrameParts, GoodType DEF Then
<1> HIDE DEF N, r, p
<1>4. p \in 0..N /\ ~IsGood(InOrder(r, p))
  BY <1>1, <1>2, <1>3
<1>5. InOrder(r, N) = InOrder(r, p)
  BY <1>1, <1>4, InOrderStops
<1> QED
  BY <1>2, <1>3, <1>5 DEF SourceMeaning, N, r

(* All statements are applied.                                             *)
LEMMA SourceDone ==
    ASSUME NEW t \in Seq(Statement), NEW d \in [Files -> Content], NEW n \in Nat,
           NEW f \in Frame, AtStatement(t, d, n, f), f.todo = <<>>
    PROVE  SourceMeaning(t, d, f.from, n) = Good(f.obj)
<1>1. Len(ItemsOf(t, d, f.from)) \in Nat
  BY FrameParts, SourceType
<1>2. Past(t, d, f) = Len(ItemsOf(t, d, f.from))
  BY <1>1 DEF Past
<1> QED
  BY <1>2 DEF AtStatement, SourceMeaning

(* The next file's meaning goes after what is merged.                      *)
LEMMA NextFile ==
    ASSUME NEW d \in [Files -> Content], NEW n \in Nat \ {0}, NEW f \in Frame,
           NEW done \in Int, AtFile(d, n, f, done)
    PROVE  LET files == FilesAt(d, f)
           IN  /\ Head(f.todo) \in Statement
               /\ files \in Seq(Files) \ {<<>>} /\ Len(files) \in Nat
               /\ Tried(d, f) \in Nat /\ Tried(d, f) <= Len(files)
               /\ done \in Nat /\ done <= Len(files)
               /\ done < Len(files) =>
                      InOrder(FileMeanings(d, files, n), done + 1) =
                          Then(Good(f.merged), FileMeaning(d, files[done + 1], Below(d, n)))
<1> DEFINE files == FilesAt(d, f)
           N == Len(files)
           r == FileMeanings(d, files, n)
<1>1. f.todo \in Seq(Statement) /\ f.probes \in Seq(Files) /\ Len(f.probes) \in Nat /\ f.dir \in Dirs
  BY FrameParts
<1>2. Head(f.todo) \in Statement
  BY <1>1 DEF AtFile
<1>3. files \in Seq(Files) \ {<<>>} /\ N \in Nat
  BY <1>1, <1>2, NamedType DEF AtFile, FilesAt
<1>4. Tried(d, f) \in Int /\ Tried(d, f) <= N /\ Tried(d, f) >= done /\ done >= 0
  BY <1>1, <1>3 DEF Tried, AtFile
<1>5. /\ \A i \in 1..N : r[i] \in Result
      /\ \A i \in 1..N : r[i] = FileMeaning(d, files[i], Below(d, n))
  BY <1>3, FileMeaningsOf
<1>6. InOrder(r, done) = Good(f.merged)
  BY DEF AtFile
<1> HIDE DEF files, N, r
<1>7. ASSUME done < N
      PROVE  InOrder(r, done + 1) = Then(Good(f.merged), FileMeaning(d, files[done + 1], Below(d, n)))
  <2>1. done + 1 \in 1..N /\ (done + 1) - 1 = done
    BY <1>3, <1>4, <1>7
  <2>2. InOrder(r, done + 1) = Then(InOrder(r, done), r[done + 1])
    BY <1>3, <1>5, <2>1, InOrderSteps
  <2> QED
    BY <1>5, <1>6, <2>1, <2>2
<1> QED
  BY <1>2, <1>3, <1>4, <1>7 DEF files, N, r

(* A file is read, or skipped because it is missing.                       *)
LEMMA FileDone ==
    ASSUME NEW d \in [Files -> Content], NEW n \in Nat \ {0}, NEW f \in Frame,
           NEW done \in Int, AtFile(d, n, f, done), done < Len(FilesAt(d, f)),
           NEW more \in Seq(Entry),
           FileMeaning(d, FilesAt(d, f)[done + 1], Below(d, n)) = Good(more),
           NEW g, g.todo = f.todo, g.dir = f.dir, g.merged = f.merged \o more,
           \/ g.probes = f.probes /\ Tried(d, f) = done + 1
           \/ g.probes = Tail(f.probes) /\ f.probes # <<>>,
           g.found <=> f.found \/ Exists(d, FilesAt(d, f)[done + 1])
    PROVE  AtFile(d, n, g, done + 1)
<1> DEFINE files == FilesAt(d, f)
<1>1. /\ files \in Seq(Files) \ {<<>>} /\ Len(files) \in Nat
      /\ Tried(d, f) \in Nat /\ done \in Nat
      /\ InOrder(FileMeanings(d, files, n), done + 1) =
             Then(Good(f.merged), FileMeaning(d, files[done + 1], Below(d, n)))
  BY NextFile
<1>2. f.probes \in Seq(Files) /\ Len(f.probes) \in Nat /\ f.merged \in Seq(Entry)
  BY FrameParts
<1>3. FilesAt(d, g) = files
  BY DEF FilesAt
<1>4. InOrder(FileMeanings(d, files, n), done + 1) = Good(g.merged)
  BY <1>1, <1>2, GoodType DEF Then
<1>5. \A j \in 1..Len(f.probes) : f.probes[j] = files[Tried(d, f) + j]
  BY DEF AtFile
<1>6. f.found <=> \E j \in 1..done : Exists(d, files[j])
  BY DEF AtFile
<1>7. f.todo # <<>> /\ Head(f.todo).how # "set" /\ Tried(d, f) >= done
  BY DEF AtFile
<1>8. g.found <=> \E j \in 1..(done + 1) : Exists(d, files[j])
  BY <1>1, <1>6
<1>c. ~g.found => g.merged = <<>>
  <2> SUFFICES ASSUME ~g.found PROVE g.merged = <<>>
    OBVIOUS
  <2>1. f.merged = <<>>
    BY DEF AtFile
  <2>2. Good(more) = Good(<<>>)
    BY DEF FileMeaning, Exists
  <2>3. more = <<>>
    BY <2>2 DEF Good
  <2> QED
    BY <2>1, <2>3
<1> HIDE DEF files
<1>9. Tried(d, g) >= done + 1 /\ \A j \in 1..Len(g.probes) : g.probes[j] = files[Tried(d, g) + j]
  <2>1. CASE g.probes = f.probes /\ Tried(d, f) = done + 1
    <3>1. Tried(d, g) = Tried(d, f)
      BY <1>3, <2>1 DEF Tried, files
    <3> QED
      BY <1>1, <1>5, <2>1, <3>1
  <2>2. CASE g.probes = Tail(f.probes) /\ f.probes # <<>>
    <3>1. /\ Len(g.probes) = Len(f.probes) - 1
          /\ \A j \in 1..Len(g.probes) : g.probes[j] = f.probes[j + 1] /\ j + 1 \in 1..Len(f.probes)
      BY <1>2, <2>2
    <3>2. Tried(d, g) = Tried(d, f) + 1
      BY <1>1, <1>2, <1>3, <3>1 DEF Tried, files
    <3>3. ASSUME NEW j \in 1..Len(g.probes) PROVE g.probes[j] = files[Tried(d, g) + j]
      <4>1. f.probes[j + 1] = files[Tried(d, f) + (j + 1)]
        BY <1>5, <3>1
      <4>2. Tried(d, f) + (j + 1) = Tried(d, g) + j
        BY <1>1, <1>2, <3>1, <3>2
      <4> QED
        BY <3>1, <4>1, <4>2
    <3> QED
      BY <1>1, <1>7, <3>2, <3>3
  <2> QED
    BY <2>1, <2>2
<1>10. files # <<>>
  BY <1>1
<1> QED
  BY <1>1, <1>3, <1>4, <1>7, <1>8, <1>9, <1>10, <1>c DEF AtFile

(* The meaning of the directive at hand, for a level to include from.      *)
LEMMA DirectiveAtHand ==
    ASSUME NEW d \in [Files -> Content], NEW n \in Nat \ {0}, NEW f \in Frame,
           NEW done \in Int, AtFile(d, n, f, done)
    PROVE  HeadMeaning(d, n, f) =
               DirectiveMeaning(d, Head(f.todo), FilesAt(d, f), Below(d, n))
BY DEF HeadMeaning, Meaning, AtFile, FilesAt

(* A file fails, and with it the directive.                                *)
LEMMA FileFails ==
    ASSUME NEW d \in [Files -> Content], NEW n \in Nat \ {0}, NEW f \in Frame,
           NEW done \in Int, AtFile(d, n, f, done), done < Len(FilesAt(d, f)),
           ~IsGood(FileMeaning(d, FilesAt(d, f)[done + 1], Below(d, n)))
    PROVE  HeadMeaning(d, n, f) = FileMeaning(d, FilesAt(d, f)[done + 1], Below(d, n))
<1> DEFINE files == FilesAt(d, f)
           N == Len(files)
           r == FileMeanings(d, files, n)
           x == FileMeaning(d, files[done + 1], Below(d, n))
<1>1. /\ files \in Seq(Files) \ {<<>>} /\ N \in Nat /\ done \in Nat
      /\ InOrder(r, done + 1) = Then(Good(f.merged), x)
  BY NextFile
<1>2. /\ \A i \in 1..N : r[i] \in Result
      /\ Included(d, files, Below(d, n)) = InOrder(r, N)
  BY <1>1, FileMeaningsOf
<1>3. InOrder(r, done + 1) = x
  BY <1>1, FrameParts, GoodType DEF Then
<1>4. Exists(d, files[done + 1])
  BY GoodType DEF FileMeaning, IsGood, Good, Exists
<1> HIDE DEF files, N, r, x
<1>5. done + 1 \in 1..N /\ done + 1 \in 0..N
  BY <1>1 DEF N, files
<1>6. InOrder(r, N) = x
  <2>1. ~IsGood(InOrder(r, done + 1))
    BY <1>3 DEF x, files
  <2> QED
    BY <1>1, <1>2, <1>3, <1>5, <2>1, InOrderStops
<1>7. Placed(Head(f.todo), Included(d, files, Below(d, n))) = x
  BY <1>2, <1>6 DEF Placed, x, files
<1>8. DirectiveMeaning(d, Head(f.todo), files, Below(d, n)) = x
  BY <1>4, <1>5, <1>7 DEF DirectiveMeaning, N
<1> QED
  BY <1>8, DirectiveAtHand DEF files, x

(* All files are tried.                                                    *)
LEMMA FilesDone ==
    ASSUME NEW d \in [Files -> Content], NEW n \in Nat \ {0}, NEW f \in Frame,
           f.probes = <<>>, AtFile(d, n, f, Tried(d, f))
    PROVE  HeadMeaning(d, n, f) =
               IF Head(f.todo).required /\ ~f.found
               THEN Wrong("required not found")
               ELSE Good(Under(Head(f.todo).at, f.merged))
<1> DEFINE files == FilesAt(d, f)
           N == Len(files)
           s == Head(f.todo)
<1>0. Tried(d, f) = N /\ N \in Nat
  <2>1. N \in Nat /\ Len(f.probes) = 0
    BY NextFile DEF Tried
  <2> QED
    BY <2>1 DEF Tried
<1>1. files \in Seq(Files) \ {<<>>} /\ s \in Statement
  BY <1>0, NextFile
<1>2. Included(d, files, Below(d, n)) = Good(f.merged)
  <2>1. InOrder(FileMeanings(d, files, n), N) = Good(f.merged)
    BY <1>0 DEF AtFile
  <2> HIDE DEF files
  <2> QED
    BY <1>1, <2>1, FileMeaningsOf
<1>3. f.found <=> \E j \in 1..N : Exists(d, files[j])
  BY <1>0 DEF AtFile
<1>4. f.merged \in Seq(Entry) /\ s.at \in Seq(Names) /\ f.dir \in Dirs
  BY <1>1, FrameParts, StatementParts
<1>5. Placed(s, Included(d, files, Below(d, n))) = Good(Under(s.at, f.merged))
  BY <1>2, <1>4, GoodType DEF Placed
<1>6. s.how # "set"
  BY DEF AtFile
<1>7. CASE f.found
  <2>1. DirectiveMeaning(d, s, files, Below(d, n)) = Good(Under(s.at, f.merged))
    <3> HIDE DEF s
    <3> QED
      BY <1>3, <1>5, <1>7 DEF DirectiveMeaning
  <2> QED
    BY <1>0, <1>7, <2>1, DirectiveAtHand
<1>8. CASE ~f.found
  <2>1. s.how # "package"
    <3> SUFFICES ASSUME s.how = "package" PROVE FALSE
      OBVIOUS
    <3>1. files = PackageFiles(d, f.dir, s.target) /\ s.target \in Packages
      BY <1>1, StatementParts DEF FilesAt, Named
    <3>2. files # <<>>
      BY <1>1
    <3>3. PICK c \in Files : files = <<c>> /\ Exists(d, c)
      BY <1>4, <3>1, <3>2, PackageFilesType
    <3>4. N = 1 /\ files[1] = c
      BY <3>3
    <3> QED
      BY <1>3, <1>8, <3>3, <3>4
  <2>2. ASSUME NEW i \in 1..N PROVE ~Exists(d, files[i])
    BY <1>3, <1>8
  <2>3. f.merged = <<>>
    BY <1>8 DEF AtFile
  <2>4. Under(s.at, f.merged) = <<>>
    BY <2>3 DEF Under
  <2>5. DirectiveMeaning(d, s, files, Below(d, n)) =
            IF s.required THEN Wrong("required not found") ELSE Good(<<>>)
    <3> HIDE DEF s
    <3> QED
      BY <2>1, <2>2 DEF DirectiveMeaning
  <2>6. HeadMeaning(d, n, f) = DirectiveMeaning(d, s, files, Below(d, n))
    BY <1>0, DirectiveAtHand
  <2>7. s.required \in BOOLEAN
    BY <1>1 DEF Statement, Assignment, PathInclude, PackageInclude
  <2> HIDE DEF files, N
  <2> QED
    BY <1>8, <2>4, <2>5, <2>6, <2>7
<1> QED
  BY <1>7, <1>8

(* A .properties file means its assignments, at every level.               *)
LEMMA PropertiesMeaning ==
    ASSUME NEW d \in [Files -> Content], NEW f \in Files, NEW n \in Nat,
           \A i \in 1..Len(d[f].items) : d[f].items[i].how = "set"
    PROVE  Levels(d)[n][f] = Good(Entries(f, d[f].items))
<1> DEFINE items == d[f].items
           N == Len(items)
           E == Entries(f, items)
           r == Meanings(<<>>, d, f, n)
           first(k) == [i \in 1..k |-> E[i]]
<1>0. <<>> \in Seq(Statement) /\ f # Root
  BY NamingAssumption
<1>1. ItemsOf(<<>>, d, f) = items /\ items \in Seq(Statement) /\ N \in Nat
  <2>1. items \in Seq(Statement)
    BY DEF Content
  <2> QED
    BY <1>0, <2>1 DEF ItemsOf
<1>2. /\ E \in Seq(Entry) /\ Len(E) = N /\ E = first(N)
      /\ \A i \in 1..N : E[i] \in Entry
  <2>1. E \in Seq(Entry)
    BY <1>1, EntriesType
  <2>2. E = [i \in 1..N |-> E[i]]
    BY DEF Entries
  <2>3. Len(E) = N
    BY <1>1 DEF Entries
  <2> HIDE DEF E
  <2>4. \A i \in 1..Len(E) : E[i] \in Entry
    BY <2>1
  <2> QED
    BY <2>1, <2>2, <2>3, <2>4
<1>3. \A i \in 1..N : r[i] \in Result /\ r[i] = Good(<<E[i]>>)
  <2> SUFFICES ASSUME NEW i \in 1..N PROVE r[i] \in Result /\ r[i] = Good(<<E[i]>>)
    OBVIOUS
  <2>1. /\ r[i] \in Result
        /\ r[i] = Meaning(d, items[i], f, HomeOf(f), n, Below(d, n))
    <3> HIDE DEF items, r
    <3>1. i \in 1..Len(ItemsOf(<<>>, d, f))
      BY <1>1
    <3> QED
      BY <1>0, <1>1, <3>1, MeaningsType, ZenonT(40) DEF r
  <2>2. E[i] = [path |-> Append(items[i].at, items[i].target), from |-> f]
    BY DEF Entries
  <2> QED
    BY <2>1, <2>2 DEF Meaning
<1>4. Levels(d)[n][f] = InOrder(r, N)
  BY <1>1, FileIsDocument
<1> HIDE DEF items, N, E, r
<1> DEFINE G == {k \in Nat : k <= N => InOrder(r, k) = Good(first(k))}
<1>5. 0 \in G
  <2>1. InOrder(r, 0) = Good(<<>>)
    BY <1>1, <1>3, InOrderSteps
  <2>2. first(0) = <<>>
    OBVIOUS
  <2> QED
    BY <2>1, <2>2
<1>6. ASSUME NEW k \in Nat, k \in G PROVE k + 1 \in G
  <2> SUFFICES ASSUME k + 1 <= N PROVE InOrder(r, k + 1) = Good(first(k + 1))
    OBVIOUS
  <2>1. k + 1 \in 1..N /\ (k + 1) - 1 = k /\ k <= N
    BY <1>1
  <2>2. InOrder(r, k + 1) = Then(InOrder(r, k), r[k + 1])
    BY <1>1, <1>3, <2>1, InOrderSteps
  <2>3. InOrder(r, k + 1) = Then(Good(first(k)), Good(<<E[k + 1]>>))
    BY <1>3, <1>6, <2>1, <2>2
  <2>4. first(k) \in Seq(Entry) /\ E[k + 1] \in Entry
    <3>1. \A i \in 1..N : E[i] \in Entry
      BY <1>2
    <3>2. \A i \in 1..k : i \in 1..N
      BY <1>1, <2>1
    <3> QED
      BY <2>1, <3>1, <3>2
  <2>5. first(k) \o <<E[k + 1]>> = first(k + 1)
    BY <1>2, <2>1, <2>4
  <2>6. <<E[k + 1]>> \in Seq(Entry)
    BY <2>4
  <2> HIDE DEF first
  <2>7. IsGood(Good(first(k))) /\ IsGood(Good(<<E[k + 1]>>))
    BY <2>4, <2>6, GoodType
  <2>8. Then(Good(first(k)), Good(<<E[k + 1]>>)) = Good(first(k) \o <<E[k + 1]>>)
    BY <2>7 DEF Then, Good
  <2> QED
    BY <2>3, <2>5, <2>8
<1> HIDE DEF G
<1>7. N \in G
  BY <1>1, <1>5, <1>6, SetInduction
<1> QED
  BY <1>1, <1>2, <1>4, <1>7 DEF G, E, items
-----------------------------------------------------------------------------
(* What the loader's own invariant says of the frames.                     *)
LEMMA Frames ==
    ASSUME IInv
    PROVE  /\ text \in Seq(Statement) /\ disk \in [Files -> Content]
           /\ Len(frames) \in Nat \ {0} /\ Top = frames[Len(frames)]
           /\ \A i \in 1..Len(frames) :
                  /\ frames[i] \in Frame
                  /\ LevelsLeft(i) \in Nat
                  /\ Len(frames[i].stack) = i - 1
                  /\ frames[i].mode = "probe" => LevelsLeft(i) \in Nat \ {0}
<1>1. text \in Seq(Statement) /\ disk \in [Files -> Content]
  BY ContentAssumption DEF IInv, TypeOK
<1>2. Len(frames) \in Nat \ {0} /\ frames \in Seq(Frame)
  BY DEF IInv, TypeOK
<1>3. ASSUME NEW i \in 1..Len(frames)
      PROVE  /\ LevelsLeft(i) \in Nat
             /\ Len(frames[i].stack) = i - 1
             /\ frames[i].mode = "probe" => LevelsLeft(i) \in Nat \ {0}
  <2>1. Len(frames[i].stack) = i - 1 /\ i - 1 <= MaxDepth
    <3>1. Len(Stacks) = Len(frames) /\ Stacks[i] = frames[i].stack
      BY <1>2 DEF Stacks
    <3> QED
      BY <3>1 DEF IInv, ChainsKnown, Chained
  <2>2. frames[i].mode = "probe" => i - 1 < MaxDepth
    BY <2>1 DEF IInv, LoadEntered
  <2>3. i \in Nat
    BY <1>2
  <2> QED
    BY <2>1, <2>2, <2>3, MaxDepthAssumption DEF LevelsLeft
<1> QED
  BY <1>1, <1>2, <1>3 DEF Top

LEMMA InitMeans == Init => MInv
<1> SUFFICES ASSUME Init PROVE MInv
  OBVIOUS
<1> DEFINE f == NewFrame(Root, BaseDir, <<>>, text)
           n == LevelsLeft(1)
<1>1. frames = <<f>> /\ text \in Seq(Statement) /\ disk \in [Files -> Content]
  BY ContentAssumption DEF Init
<1>2. f.from = Root /\ f.dir = BaseDir /\ f.todo = text /\ f.obj = <<>> /\ f.mode = "apply"
  BY DEF NewFrame
<1> HIDE DEF f
<1>3. n \in Nat
  BY MaxDepthAssumption DEF LevelsLeft
<1>4. Past(text, disk, f) = 0 /\ ItemsOf(text, disk, f.from) = text /\ HomeOf(f.from) = BaseDir
  BY <1>1, <1>2 DEF Past, ItemsOf, HomeOf
<1>5. InOrder(Meanings(text, disk, Root, n), 0) = Good(<<>>)
  <2> HIDE DEF n
  <2> QED
    BY <1>1, <1>3, MeaningsType, InOrderSteps
<1>6. AtStatement(text, disk, n, f)
  BY <1>1, <1>2, <1>4, <1>5 DEF AtStatement
<1>7. Len(frames) = 1 /\ frames[1] = f
  BY <1>1
<1> QED
  BY <1>2, <1>6, <1>7 DEF MInv, FrameMeans

(* A step that changes only the innermost build.                           *)
LEMMA TopMeans ==
    ASSUME IInv, MInv, NEW f, Step(WithTop(f)), f.from = Top.from, f.stack = Top.stack,
           FrameMeans(text, disk, LevelsLeft(Len(frames)), f, 0)
    PROVE  MInv'
<1> DEFINE L == Len(frames)
<1>1. L \in Nat \ {0} /\ Top = frames[L]
  BY Frames
<1>2. /\ text' = text /\ disk' = disk /\ Len(frames') = L
      /\ \A i \in 1..L : frames'[i] = IF i = L THEN f ELSE frames[i]
  BY DEF Step, WithTop, IInv, TypeOK
<1>3. frames'[1].from = Root
  BY <1>1, <1>2 DEF MInv
<1>4. ASSUME NEW i \in 1..L
      PROVE  FrameMeans(text, disk, LevelsLeft(i), frames'[i], IF i < L THEN 1 ELSE 0)
  <2>1. CASE i = L
    BY <1>1, <1>2, <2>1
  <2>2. CASE i # L
    BY <1>2, <2>2 DEF MInv, Waiting
  <2> QED
    BY <2>1, <2>2
<1>5. ASSUME NEW i \in 1..(L - 1)
      PROVE  Waits(disk, frames'[i], frames'[i + 1])
  <2>1. Waits(disk, frames[i], frames[i + 1])
    BY DEF MInv
  <2>2. frames'[i] = frames[i] /\ i + 1 \in 1..L
    BY <1>1, <1>2
  <2>3. frames'[i + 1].from = frames[i + 1].from /\ frames'[i + 1].stack = frames[i + 1].stack
    BY <1>1, <1>2, <2>2
  <2> QED
    BY <2>1, <2>2, <2>3 DEF Waits
<1> QED
  BY <1>2, <1>3, <1>4, <1>5 DEF MInv, Waiting, LevelsLeft

LEMMA TopMeaning ==
    ASSUME IInv, MInv
    PROVE  LET n == LevelsLeft(Len(frames))
           IN  /\ Top \in Frame /\ n \in Nat
               /\ Top.mode = "probe" => n \in Nat \ {0}
               /\ AtStatement(text, disk, n, Top)
               /\ Top.mode = "probe" => AtFile(disk, n, Top, Tried(disk, Top))
<1>1. Len(frames) \in 1..Len(frames) /\ Top = frames[Len(frames)]
  BY Frames
<1>2. FrameMeans(text, disk, LevelsLeft(Len(frames)), Top, 0)
  BY <1>1 DEF MInv, Waiting
<1>3. Top.mode = "probe" => Tried(disk, Top) \in Int
  <2> SUFFICES ASSUME Top.mode = "probe" PROVE Tried(disk, Top) \in Int
    OBVIOUS
  <2>1. Top \in Frame /\ Top.todo \in Seq(Statement) /\ Top.todo # <<>>
    BY <1>1, Frames, FrameParts DEF IInv, LoadEntered
  <2>2. Head(Top.todo) \in Statement /\ Top.dir \in Dirs /\ Len(Top.probes) \in Nat
    BY <2>1, FrameParts
  <2>3. Head(Top.todo).how # "set"
    BY <1>2 DEF FrameMeans, AtFile
  <2>4. Len(FilesAt(disk, Top)) \in Nat
    BY <2>2, <2>3, NamedType DEF FilesAt
  <2> QED
    BY <2>2, <2>4 DEF Tried
<1>4. Top.mode = "probe" => Tried(disk, Top) - 0 = Tried(disk, Top)
  BY <1>3
<1> QED
  BY <1>1, <1>2, <1>4, Frames DEF FrameMeans

LEMMA FailMeans ==
    ASSUME MInv, NEW why, Fail(why)
    PROVE  MInv'
BY DEF Fail, MInv, Waiting, LevelsLeft

LEMMA AssignMeans ==
    ASSUME IInv, MInv, Assign
    PROVE  MInv'
<1> DEFINE n == LevelsLeft(Len(frames))
           entry == [path |-> Append(Item.at, Item.target), from |-> Top.from]
           f == [Top EXCEPT !.todo = Tail(@), !.obj = Append(@, entry)]
<1>1. /\ Top \in Frame /\ n \in Nat /\ AtStatement(text, disk, n, Top)
      /\ text \in Seq(Statement) /\ disk \in [Files -> Content]
  BY TopMeaning, Frames
<1>2. Top.mode = "apply" /\ Top.todo # <<>> /\ Item.how = "set" /\ Step(WithTop(f))
  BY DEF Assign, Applying
<1>3. HeadMeaning(disk, n, Top) = Good(<<entry>>)
  BY <1>2 DEF HeadMeaning, Meaning, Item
<1>4. <<entry>> \in Seq(Entry)
  <2>1. Head(Top.todo) \in Statement
    BY <1>1, <1>2, NextStatement
  <2>2. Append(Item.at, Item.target) \in Seq(Names) /\ Top.from \in Files \cup {Root}
    BY <1>1, <1>2, <2>1, StatementParts, FrameParts DEF Item
  <2>3. entry \in Entry
    BY <2>2 DEF Entry
  <2> HIDE DEF entry
  <2> QED
    BY <2>3
<1>5. Top.obj \in Seq(Entry)
  BY <1>1, FrameParts
<1> HIDE DEF entry
<1>6. /\ f.from = Top.from /\ f.dir = Top.dir /\ f.stack = Top.stack /\ f.mode = Top.mode
      /\ f.todo = Tail(Top.todo) /\ f.obj = Append(Top.obj, entry)
  BY <1>1 DEF Frame
<1>7. f.obj = Top.obj \o <<entry>>
  BY <1>5, <1>6
<1> HIDE DEF f, n
<1>8. AtStatement(text, disk, n, f)
  BY <1>1, <1>2, <1>3, <1>4, <1>6, <1>7, StatementDone
<1>9. FrameMeans(text, disk, n, f, 0)
  BY <1>2, <1>6, <1>8 DEF FrameMeans
<1> QED
  BY <1>2, <1>6, <1>9, TopMeans DEF n

(* The candidates of a directive are the files it names.                   *)
LEMMA CandidatesNamed ==
    ASSUME IInv, Applying
    PROVE  /\ Item \in Statement
           /\ Item.how \in {"relative", "file"} =>
                  LET abs == Joined[IF Item.how = "file" THEN Cwd ELSE Top.dir][Item.target]
                  IN  Candidates(abs) = Named(disk, Item, Top.dir)
           /\ Item.how = "package" =>
                  /\ Hits = {} => Named(disk, Item, Top.dir) = <<>>
                  /\ \A i \in Hits :
                         (\A j \in Hits : i <= j) =>
                             <<PackageFile[Bases[i]][Item.target]>> = Named(disk, Item, Top.dir)
<1>1. /\ Item \in Statement /\ Top.dir \in Dirs
  BY Frames, FrameParts DEF Applying, Item
<1>2. CASE Item.how \in {"relative", "file"}
  <2>1. Item.target \in Paths /\ (IF Item.how = "file" THEN Cwd ELSE Top.dir) \in Dirs
    BY <1>1, <1>2, StatementParts, NamingAssumption
  <2> QED
    BY <1>1, <1>2, <2>1, PathFilesType DEF Named
<1>3. CASE Item.how = "package"
  <2>1. Item.target \in Packages
    BY <1>1, <1>3, StatementParts
  <2>2. Bases = PackageBases(Top.dir)
    BY DEF Bases, PackageBases
  <2>3. Hits = BasesWith(disk, Top.dir, Item.target)
    BY <2>2 DEF Hits, BasesWith, Exists
  <2>4. Named(disk, Item, Top.dir) = PackageFiles(disk, Top.dir, Item.target)
    BY <1>3 DEF Named
  <2>5. Hits = {} => Named(disk, Item, Top.dir) = <<>>
    BY <2>3, <2>4, PackageFilesNone
  <2>6. ASSUME NEW i \in Hits, \A j \in Hits : i <= j
        PROVE  <<PackageFile[Bases[i]][Item.target]>> = Named(disk, Item, Top.dir)
    BY <1>1, <2>1, <2>2, <2>3, <2>4, <2>6, PackageFilesFirst
  <2> QED
    BY <1>1, <1>3, <2>5, <2>6
<1>4. CASE Item.how = "set"
  BY <1>1, <1>4
<1> QED
  BY <1>1, <1>2, <1>3, <1>4, StatementParts

LEMMA EnterMeans ==
    ASSUME IInv, MInv, Applying, Item.how # "set", NEW key, Enter(key, Named(disk, Item, Top.dir))
    PROVE  MInv'
<1> DEFINE n == LevelsLeft(Len(frames))
           files == Named(disk, Item, Top.dir)
           f == [Top EXCEPT !.mode = "probe", !.probes = files, !.merged = <<>>, !.found = FALSE]
<1>1. CASE ~(/\ ~OnStack(Top, key) /\ ~(Len(Top.stack) >= MaxDepth) /\ files # <<>>)
  BY <1>1, FailMeans DEF Enter
<1>2. CASE /\ ~OnStack(Top, key) /\ ~(Len(Top.stack) >= MaxDepth) /\ files # <<>>
  <2>1. /\ Top \in Frame /\ n \in Nat /\ AtStatement(text, disk, n, Top)
        /\ text \in Seq(Statement) /\ disk \in [Files -> Content]
    BY TopMeaning, Frames
  <2>2. n \in Nat \ {0}
    <3>1. Len(frames) \in 1..Len(frames) /\ Len(Top.stack) = Len(frames) - 1 /\ Len(frames) \in Nat
      BY Frames
    <3> QED
      BY <1>2, <2>1, <3>1, MaxDepthAssumption DEF LevelsLeft
  <2>3. Step(WithTop(f))
    BY <1>2 DEF Enter
  <2>4. Item \in Statement /\ Top.todo # <<>> /\ Top.dir \in Dirs
    BY <2>1, CandidatesNamed, FrameParts DEF Applying
  <2>5. files \in Seq(Files) /\ Len(files) \in Nat
    BY <2>4, NamedType
  <2> HIDE DEF files
  <2>6. /\ f.from = Top.from /\ f.dir = Top.dir /\ f.stack = Top.stack /\ f.mode = "probe"
        /\ f.todo = Top.todo /\ f.obj = Top.obj /\ f.probes = files
        /\ f.merged = <<>> /\ f.found = FALSE
    BY <2>1 DEF Frame
  <2> HIDE DEF f, n
  <2>7. AtStatement(text, disk, n, f)
    BY <2>1, <2>6 DEF AtStatement, Past
  <2>8. FilesAt(disk, f) = files /\ Tried(disk, f) = 0
    BY <2>5, <2>6 DEF FilesAt, Tried, files, Item
  <2>9. InOrder(FileMeanings(disk, files, n), 0) = Good(<<>>)
    BY <2>1, <2>2, <2>5, FileMeaningsOf, InOrderSteps
  <2>10. \A j \in 1..Len(f.probes) : f.probes[j] = files[0 + j]
    BY <2>5, <2>6
  <2>11. AtFile(disk, n, f, 0)
    BY <1>2, <2>4, <2>6, <2>8, <2>9, <2>10 DEF AtFile, Item
  <2>12. FrameMeans(text, disk, n, f, 0)
    BY <2>7, <2>8, <2>11 DEF FrameMeans
  <2> QED
    BY <2>3, <2>6, <2>12, TopMeans DEF n
<1> QED
  BY <1>1, <1>2

(* The next candidate is the first file that was not tried.                *)
LEMMA CandidateAtHand ==
    ASSUME IInv, MInv, Probing, Top.probes # <<>>
    PROVE  LET n == LevelsLeft(Len(frames))
               done == Tried(disk, Top)
               files == FilesAt(disk, Top)
           IN  /\ text \in Seq(Statement) /\ disk \in [Files -> Content]
               /\ Top \in Frame /\ n \in Nat \ {0} /\ n \in Nat
               /\ AtStatement(text, disk, n, Top) /\ AtFile(disk, n, Top, done)
               /\ Top.todo # <<>> /\ Head(Top.todo) = Item /\ Item \in Statement
               /\ done \in Nat /\ done + 1 \in 1..Len(files) /\ done < Len(files)
               /\ files \in Seq(Files)
               /\ Head(Top.probes) = files[done + 1] /\ Head(Top.probes) \in Files
<1> DEFINE n == LevelsLeft(Len(frames))
           done == Tried(disk, Top)
           files == FilesAt(disk, Top)
<1>1. /\ text \in Seq(Statement) /\ disk \in [Files -> Content]
      /\ Top \in Frame /\ n \in Nat \ {0}
      /\ AtStatement(text, disk, n, Top) /\ AtFile(disk, n, Top, done)
  BY TopMeaning, Frames DEF Probing
<1>2. Top.todo # <<>> /\ Head(Top.todo) = Item /\ Item \in Statement
  BY ProbingFrame DEF Item
<1>3. Top.probes \in Seq(Files) /\ Len(Top.probes) \in Nat
  BY <1>1, FrameParts
<1>4. Head(Top.probes) = Top.probes[1] /\ 1 \in 1..Len(Top.probes) /\ Head(Top.probes) \in Files
  BY <1>3
<1>5. done = Len(files) - Len(Top.probes)
  BY DEF Tried
<1> HIDE DEF files, n
<1>6. done \in Int
  <2>1. Head(Top.todo).how # "set" /\ Top.dir \in Dirs
    BY <1>1, FrameParts DEF AtFile
  <2>2. Len(files) \in Nat
    BY <1>2, <2>1, NamedType DEF files, FilesAt
  <2> QED
    BY <1>3, <1>5, <2>2
<1> HIDE DEF done
<1>7. done \in Nat /\ files \in Seq(Files) /\ Len(files) \in Nat
  BY <1>1, <1>6, NextFile DEF files
<1>8. done + 1 \in 1..Len(files) /\ done < Len(files)
  BY <1>3, <1>4, <1>5, <1>7
<1>9. Head(Top.probes) = files[done + 1]
  BY <1>1, <1>4 DEF AtFile, done, files
<1> QED
  BY <1>1, <1>2, <1>4, <1>7, <1>8, <1>9 DEF n, files, done

(* A frame that has tried one more file.                                   *)
LEMMA FileTried ==
    ASSUME IInv, MInv, Probing, Top.probes # <<>>, NEW f, Step(WithTop(f)),
           f.from = Top.from, f.dir = Top.dir, f.stack = Top.stack, f.mode = Top.mode,
           f.todo = Top.todo, f.obj = Top.obj, f.probes = Tail(Top.probes),
           NEW more \in Seq(Entry), f.merged = Top.merged \o more,
           FileMeaning(disk, Head(Top.probes), Below(disk, LevelsLeft(Len(frames)))) = Good(more),
           f.found <=> Top.found \/ Exists(disk, Head(Top.probes))
    PROVE  MInv'
<1> DEFINE n == LevelsLeft(Len(frames))
           done == Tried(disk, Top)
<1>1. /\ text \in Seq(Statement) /\ disk \in [Files -> Content]
      /\ Top \in Frame /\ n \in Nat \ {0}
      /\ AtStatement(text, disk, n, Top) /\ AtFile(disk, n, Top, done)
      /\ done \in Nat /\ done + 1 \in 1..Len(FilesAt(disk, Top)) /\ done < Len(FilesAt(disk, Top))
      /\ Head(Top.probes) = FilesAt(disk, Top)[done + 1]
  BY CandidateAtHand
<1> HIDE DEF n, done
<1>2. AtFile(disk, n, f, done + 1)
  <2>1. FileMeaning(disk, FilesAt(disk, Top)[done + 1], Below(disk, n)) = Good(more)
    BY <1>1 DEF n
  <2>2. f.found <=> Top.found \/ Exists(disk, FilesAt(disk, Top)[done + 1])
    BY <1>1
  <2>3. done \in Int
    BY <1>1
  <2> QED
    BY <1>1, <2>1, <2>2, <2>3, FileDone
<1>3. AtStatement(text, disk, n, f)
  BY <1>1 DEF AtStatement, Past
<1>4. Tried(disk, f) = done + 1
  <2>1. Top.probes \in Seq(Files)
    BY <1>1, FrameParts
  <2>2. Len(f.probes) = Len(Top.probes) - 1 /\ Len(Top.probes) \in Nat
    BY <2>1
  <2>3. FilesAt(disk, f) = FilesAt(disk, Top)
    BY DEF FilesAt
  <2>4. Len(FilesAt(disk, Top)) \in Nat
    BY <1>1, NextFile
  <2>5. ASSUME NEW a \in Nat, NEW b \in Nat PROVE a - (b - 1) = (a - b) + 1
    OBVIOUS
  <2> QED
    BY <2>2, <2>3, <2>4, <2>5 DEF Tried, done
<1>5. FrameMeans(text, disk, n, f, 0)
  BY <1>1, <1>2, <1>3, <1>4 DEF FrameMeans
<1> QED
  BY <1>5, TopMeans DEF n

LEMMA MissingMeans ==
    ASSUME IInv, MInv, ReadMissing
    PROVE  MInv'
<1> DEFINE f == AfterMissing(Top)
           c == Head(Top.probes)
<1>1. Probing /\ Top.probes # <<>> /\ disk[c].kind = "missing" /\ Step(WithTop(f))
  BY DEF ReadMissing, Read
<1>2. Top \in Frame /\ Top.merged \in Seq(Entry)
  BY <1>1, CandidateAtHand, FrameParts
<1>3. /\ f.from = Top.from /\ f.dir = Top.dir /\ f.stack = Top.stack /\ f.mode = Top.mode
      /\ f.todo = Top.todo /\ f.obj = Top.obj /\ f.probes = Tail(Top.probes)
      /\ f.merged = Top.merged /\ f.found = Top.found
  BY <1>2 DEF Frame, AfterMissing
<1>4. FileMeaning(disk, c, Below(disk, LevelsLeft(Len(frames)))) = Good(<<>>) /\ ~Exists(disk, c)
  BY <1>1 DEF FileMeaning, Exists
<1>5. <<>> \in Seq(Entry) /\ f.merged = Top.merged \o <<>>
  BY <1>2, <1>3
<1> HIDE DEF f, c
<1> QED
  BY <1>1, <1>3, <1>4, <1>5, FileTried DEF c

LEMMA PropertiesMeans ==
    ASSUME IInv, MInv, ReadProperties
    PROVE  MInv'
<1> DEFINE n == LevelsLeft(Len(frames))
           c == Head(Top.probes)
           more == Entries(c, disk[c].items)
           merged == Top.merged \o more
           f == [Top EXCEPT !.probes = Tail(@), !.found = TRUE, !.merged = merged]
<1>1. /\ Probing /\ Top.probes # <<>> /\ disk[c].kind = "object" /\ c \in PropertiesFiles
      /\ Step(WithTop(f))
  BY DEF ReadProperties, Read
<1>2. Top \in Frame /\ c \in Files /\ disk \in [Files -> Content] /\ n \in Nat \ {0}
  BY <1>1, CandidateAtHand
<1>3. disk[c].items \in Seq(Statement) /\ \A i \in 1..Len(disk[c].items) : disk[c].items[i].how = "set"
  BY <1>1, <1>2, ContentAssumption DEF IInv, TypeOK, Content
<1>4. more \in Seq(Entry)
  BY <1>2, <1>3, EntriesType
<1>5. Below(disk, n)[c] = Good(more)
  <2>1. n - 1 \in Nat /\ Below(disk, n) = Levels(disk)[n - 1]
    BY <1>2, BelowType
  <2> QED
    BY <1>2, <1>3, <2>1, PropertiesMeaning
<1> HIDE DEF more, n, c
<1>6. FileMeaning(disk, c, Below(disk, n)) = Good(more) /\ Exists(disk, c)
  BY <1>1, <1>5 DEF FileMeaning, Exists
<1> HIDE DEF merged
<1>7. /\ f.from = Top.from /\ f.dir = Top.dir /\ f.stack = Top.stack /\ f.mode = Top.mode
      /\ f.todo = Top.todo /\ f.obj = Top.obj /\ f.probes = Tail(Top.probes)
      /\ f.merged = merged /\ f.found = TRUE
  BY <1>2 DEF Frame
<1> HIDE DEF f
<1> QED
  BY <1>1, <1>4, <1>6, <1>7, FileTried DEF c, n, merged

(* A directive is done: the tree it read is placed where it stands.        *)
LEMMA IncludeMeans ==
    ASSUME IInv, MInv, Include
    PROVE  MInv'
<1> DEFINE n == LevelsLeft(Len(frames))
           more == Under(Item.at, Top.merged)
           f == [Top EXCEPT !.mode = "apply", !.todo = Tail(@), !.obj = @ \o more]
<1>1. Probing /\ Top.probes = <<>>
  BY DEF Include
<1>2. CASE Item.required /\ ~Top.found
  BY <1>2, FailMeans DEF Include
<1>3. CASE ~(Item.required /\ ~Top.found)
  <2>1. /\ text \in Seq(Statement) /\ disk \in [Files -> Content]
        /\ Top \in Frame /\ n \in Nat \ {0} /\ n \in Nat
        /\ AtStatement(text, disk, n, Top) /\ AtFile(disk, n, Top, Tried(disk, Top))
    BY <1>1, TopMeaning, Frames DEF Probing
  <2>2. Step(WithTop(f))
    BY <1>3 DEF Include
  <2>3. Item \in Statement /\ Top.todo # <<>> /\ Head(Top.todo) = Item
    BY <1>1, ProbingFrame DEF Item
  <2>4. more \in Seq(Entry)
    BY <2>1, <2>3, StatementParts, FrameParts, UnderType
  <2>5. HeadMeaning(disk, n, Top) = Good(more)
    BY <1>1, <1>3, <2>1, <2>3, FilesDone
  <2> HIDE DEF more
  <2>6. /\ f.from = Top.from /\ f.dir = Top.dir /\ f.stack = Top.stack /\ f.mode = "apply"
        /\ f.todo = Tail(Top.todo) /\ f.obj = Top.obj \o more
    BY <2>1 DEF Frame
  <2> HIDE DEF f, n
  <2>7. AtStatement(text, disk, n, f)
    BY <2>1, <2>3, <2>4, <2>5, <2>6, StatementDone
  <2>8. FrameMeans(text, disk, n, f, 0)
    BY <2>6, <2>7 DEF FrameMeans
  <2> QED
    BY <2>2, <2>6, <2>8, TopMeans DEF n
<1> QED
  BY <1>2, <1>3

(* A file is entered: its build starts before its first statement.         *)
LEMMA CallMeans ==
    ASSUME IInv, MInv, ReadDocument
    PROVE  MInv'
<1> DEFINE L == Len(frames)
           n == LevelsLeft(L)
           c == Head(Top.probes)
           key == KeyOf(c)
           waiting == [Top EXCEPT !.probes = Tail(@)]
           inner == NewFrame(c, DirOf[c], Append(Top.stack, key), disk[c].items)
           done == Tried(disk, Top)
           files == FilesAt(disk, Top)
<1>1. Probing /\ Top.probes # <<>> /\ disk[c].kind = "object" /\ Step(Called(key, c))
  BY DEF ReadDocument, Read
<1>2. /\ text \in Seq(Statement) /\ disk \in [Files -> Content]
      /\ Top \in Frame /\ n \in Nat \ {0}
      /\ AtStatement(text, disk, n, Top) /\ AtFile(disk, n, Top, done)
      /\ done \in Nat /\ done + 1 \in 1..Len(files) /\ files \in Seq(Files)
      /\ c = files[done + 1] /\ c \in Files /\ Head(Top.todo) = Item
  BY <1>1, CandidateAtHand
<1>3. L \in Nat \ {0} /\ Top = frames[L] /\ \A i \in 1..L : LevelsLeft(i) \in Nat
  BY Frames
<1>4. /\ text' = text /\ disk' = disk /\ Len(frames') = L + 1
      /\ frames'[L + 1] = inner
      /\ \A i \in 1..L : frames'[i] = IF i = L THEN waiting ELSE frames[i]
  <2>1. frames' = Append(WithTop(waiting), inner)
    BY <1>1 DEF Step, Called
  <2>2. waiting \in Frame
    <3>1. Tail(Top.probes) \in Seq(Files)
      BY <1>1, <1>2, FrameParts
    <3> QED
      BY <1>2, <3>1 DEF Frame
  <2> HIDE DEF waiting, inner
  <2>3. /\ WithTop(waiting) \in Seq(Frame) /\ Len(WithTop(waiting)) = L
        /\ \A i \in 1..L : WithTop(waiting)[i] = IF i = L THEN waiting ELSE frames[i]
    BY <2>2, TopFrame DEF IInv, TypeOK
  <2> QED
    BY <1>1, <1>3, <2>1, <2>3 DEF Step
<1>5. /\ waiting.from = Top.from /\ waiting.dir = Top.dir /\ waiting.stack = Top.stack
      /\ waiting.mode = "probe" /\ waiting.todo = Top.todo /\ waiting.obj = Top.obj
      /\ waiting.probes = Tail(Top.probes) /\ waiting.merged = Top.merged
      /\ waiting.found = Top.found
  BY <1>1, <1>2 DEF Frame, Probing
<1>6. /\ inner.from = c /\ inner.dir = DirOf[c] /\ inner.todo = disk[c].items
      /\ inner.obj = <<>> /\ inner.mode = "apply" /\ inner.stack = Append(Top.stack, key)
  BY DEF NewFrame
<1>7. key = KeyAt(Top, c)
  BY <1>2 DEF KeyOf, KeyAt
<1>8. c # Root
  BY <1>2, NamingAssumption
<1> HIDE DEF waiting, inner, key, L, n
<1>9. FilesAt(disk, waiting) = files /\ Tried(disk, waiting) = done + 1
  <2>1. Top.probes \in Seq(Files)
    BY <1>2, FrameParts
  <2>2. Len(waiting.probes) = Len(Top.probes) - 1 /\ Len(Top.probes) \in Nat
    BY <1>1, <1>5, <2>1
  <2>3. FilesAt(disk, waiting) = files
    BY <1>5 DEF FilesAt
  <2>4. Len(files) \in Nat
    BY <1>2
  <2>5. ASSUME NEW a \in Nat, NEW b \in Nat PROVE a - (b - 1) = (a - b) + 1
    OBVIOUS
  <2>6. Tried(disk, waiting) = Len(files) - Len(waiting.probes) /\ done = Len(files) - Len(Top.probes)
    BY <2>3 DEF Tried
  <2> HIDE DEF done, files
  <2> QED
    BY <2>2, <2>3, <2>4, <2>5, <2>6
<1> HIDE DEF done
<1>10. FrameMeans(text, disk, n, waiting, 1)
  <2>1. AtStatement(text, disk, n, waiting)
    BY <1>2, <1>5 DEF AtStatement, Past
  <2>2. \A j \in 1..Len(waiting.probes) : waiting.probes[j] = files[Tried(disk, waiting) + j]
    <3>1. Top.probes \in Seq(Files) /\ Top.probes # <<>>
      BY <1>1, <1>2, FrameParts
    <3>2. \A j \in 1..Len(waiting.probes) :
              waiting.probes[j] = Top.probes[j + 1] /\ j + 1 \in 1..Len(Top.probes)
      BY <1>5, <3>1
    <3>3. \A j \in 1..Len(Top.probes) : Top.probes[j] = files[done + j]
      BY <1>2 DEF AtFile, done
    <3>4. ASSUME NEW j \in 1..Len(waiting.probes) PROVE done + (j + 1) = (done + 1) + j
      BY <1>2
    <3> HIDE DEF files
    <3> QED
      BY <1>9, <3>2, <3>3, <3>4
  <2>3. AtFile(disk, n, waiting, done)
    <3>1. /\ Top.todo # <<>> /\ Head(Top.todo).how # "set" /\ files # <<>> /\ done >= 0
          /\ InOrder(FileMeanings(disk, files, n), done) = Good(Top.merged)
          /\ Top.found <=> \E j \in 1..done : Exists(disk, files[j])
          /\ ~Top.found => Top.merged = <<>>
      BY <1>2 DEF AtFile
    <3>2. done + 1 >= done
      BY <1>2
    <3> HIDE DEF files
    <3> QED
      BY <1>5, <1>9, <2>2, <3>1, <3>2 DEF AtFile
  <2>4. Tried(disk, waiting) - 1 = done
    BY <1>2, <1>9
  <2> QED
    BY <2>1, <2>3, <2>4 DEF FrameMeans
<1>11. FrameMeans(text, disk, LevelsLeft(L + 1), inner, 0)
  <2>1. ItemsOf(text, disk, inner.from) = disk[c].items /\ HomeOf(inner.from) = DirOf[c]
    BY <1>6, <1>8 DEF ItemsOf, HomeOf
  <2>2. Len(disk[c].items) \in Nat
    BY <1>2 DEF Content
  <2>3. Past(text, disk, inner) = 0
    BY <1>6, <2>1, <2>2 DEF Past
  <2>4. LevelsLeft(L + 1) \in Nat
    BY <1>2, <1>3, MaxDepthAssumption DEF LevelsLeft, n
  <2>5. InOrder(Meanings(text, disk, c, LevelsLeft(L + 1)), 0) = Good(<<>>)
    BY <1>2, <2>4, MeaningsType, InOrderSteps
  <2>6. AtStatement(text, disk, LevelsLeft(L + 1), inner)
    BY <1>6, <2>1, <2>2, <2>3, <2>5 DEF AtStatement
  <2> QED
    BY <1>6, <2>6 DEF FrameMeans
<1>12. Waits(disk, waiting, inner)
  <2>1. KeyAt(waiting, c) = KeyAt(Top, c)
    BY <1>5 DEF KeyAt
  <2> HIDE DEF c, files
  <2> QED
    BY <1>1, <1>2, <1>5, <1>6, <1>7, <1>9, <2>1 DEF Waits
<1>13. ASSUME NEW i \in 1..(L + 1)
       PROVE  FrameMeans(text, disk, LevelsLeft(i), frames'[i], IF i < L + 1 THEN 1 ELSE 0)
  <2>1. CASE i = L + 1
    BY <1>3, <1>4, <1>11, <2>1
  <2>2. CASE i = L
    BY <1>3, <1>4, <1>10, <2>2 DEF n
  <2>3. CASE i \in 1..L /\ i # L
    BY <1>3, <1>4, <2>3 DEF MInv, Waiting, L
  <2> QED
    BY <1>3, <2>1, <2>2, <2>3
<1>14. ASSUME NEW i \in 1..L PROVE Waits(disk, frames'[i], frames'[i + 1])
  <2>1. CASE i = L
    BY <1>3, <1>4, <1>12, <2>1
  <2>2. CASE i \in 1..(L - 1)
    <3>1. Waits(disk, frames[i], frames[i + 1])
      BY <2>2 DEF MInv, L
    <3>2. frames'[i] = frames[i] /\ i + 1 \in 1..L
      BY <1>3, <1>4, <2>2
    <3>3. frames'[i + 1].from = frames[i + 1].from /\ frames'[i + 1].stack = frames[i + 1].stack
      BY <1>3, <1>4, <1>5, <3>2
    <3> QED
      BY <3>1, <3>2, <3>3 DEF Waits
  <2> QED
    BY <1>3, <2>1, <2>2
<1>15. frames'[1].from = Root
  BY <1>3, <1>4, <1>5 DEF MInv
<1> QED
  BY <1>3, <1>4, <1>13, <1>14, <1>15 DEF MInv, Waiting, LevelsLeft

(* The file that the last directive but one waits for, and its meaning.    *)
LEMMA WaitedFor ==
    ASSUME IInv, MInv, NEW i \in 1..(Len(frames) - 1)
    PROVE  LET f == frames[i]
               g == frames[i + 1]
               n == LevelsLeft(i)
               done == Tried(disk, f) - 1
           IN  /\ i \in 1..Len(frames) /\ i + 1 \in 1..Len(frames)
               /\ f \in Frame /\ g \in Frame /\ f.mode = "probe"
               /\ n \in Nat \ {0} /\ n \in Nat /\ LevelsLeft(i + 1) = n - 1 /\ n - 1 \in Nat
               /\ AtStatement(text, disk, n, f) /\ AtStatement(text, disk, n - 1, g)
               /\ AtFile(disk, n, f, done)
               /\ done \in Int /\ Tried(disk, f) = done + 1 /\ done < Len(FilesAt(disk, f))
               /\ f.todo # <<>> /\ Head(f.todo) \in Statement
               /\ g.from = FilesAt(disk, f)[done + 1] /\ g.from \in Files /\ Exists(disk, g.from)
               /\ disk[g.from].kind = "object"
               /\ FileMeaning(disk, g.from, Below(disk, n)) =
                      SourceMeaning(text, disk, g.from, n - 1)
<1> DEFINE f == frames[i]
           g == frames[i + 1]
           n == LevelsLeft(i)
<1>1. /\ Len(frames) \in Nat \ {0}
      /\ i \in 1..Len(frames) /\ i + 1 \in 1..Len(frames) /\ i < Len(frames)
  BY Frames
<1>2. Waits(disk, f, g)
  BY DEF MInv
<1>3. /\ f \in Frame /\ g \in Frame /\ f.mode = "probe" /\ n \in Nat \ {0}
      /\ LevelsLeft(i + 1) \in Nat /\ disk \in [Files -> Content]
  BY <1>1, <1>2, Frames DEF Waits
<1>4. LevelsLeft(i + 1) = n - 1
  BY <1>1, MaxDepthAssumption DEF LevelsLeft
<1>5. FrameMeans(text, disk, n, f, 1) /\ AtStatement(text, disk, n - 1, g)
  <2>1. FrameMeans(text, disk, LevelsLeft(i + 1), g, Waiting(i + 1))
    BY <1>1 DEF MInv
  <2>2. FrameMeans(text, disk, n, f, Waiting(i)) /\ Waiting(i) = 1
    BY <1>1 DEF MInv, Waiting
  <2> HIDE DEF f, g, n
  <2> QED
    BY <1>4, <2>1, <2>2 DEF FrameMeans
<1> HIDE DEF f, g, n
<1>6. AtStatement(text, disk, n, f) /\ AtFile(disk, n, f, Tried(disk, f) - 1)
  BY <1>3, <1>5 DEF FrameMeans
<1>7. Tried(disk, f) \in Int
  <2>1. f.todo \in Seq(Statement) /\ f.todo # <<>> /\ Head(f.todo).how # "set"
    BY <1>3, <1>6, FrameParts DEF AtFile
  <2>2. Head(f.todo) \in Statement /\ f.dir \in Dirs /\ Len(f.probes) \in Nat
    BY <1>3, <2>1, FrameParts
  <2>3. Len(FilesAt(disk, f)) \in Nat
    BY <2>1, <2>2, NamedType DEF FilesAt
  <2> QED
    BY <2>2, <2>3 DEF Tried
<1> DEFINE done == Tried(disk, f) - 1
<1>8. done \in Int /\ Tried(disk, f) = done + 1
  BY <1>7
<1> HIDE DEF done
<1>9. /\ Head(f.todo) \in Statement /\ done \in Nat /\ done < Len(FilesAt(disk, f))
      /\ FilesAt(disk, f) \in Seq(Files)
  <2>1. /\ Head(f.todo) \in Statement /\ done \in Nat
        /\ Tried(disk, f) <= Len(FilesAt(disk, f)) /\ Len(FilesAt(disk, f)) \in Nat
        /\ FilesAt(disk, f) \in Seq(Files)
    BY <1>3, <1>6, <1>8, NextFile DEF done
  <2> QED
    BY <1>8, <2>1
<1>10. g.from = FilesAt(disk, f)[done + 1] /\ disk[g.from].kind = "object"
  BY <1>2, <1>8 DEF Waits
<1>11. g.from \in Files
  BY <1>9, <1>10
<1>12. f.todo # <<>>
  BY <1>6 DEF AtFile
<1>13. FileMeaning(disk, g.from, Below(disk, n)) = SourceMeaning(text, disk, g.from, n - 1)
  <2>1. Below(disk, n) = Levels(disk)[n - 1] /\ n - 1 \in Nat
    BY <1>3, BelowType
  <2> QED
    BY <1>3, <1>10, <1>11, <2>1, FileIsDocument DEF FileMeaning, SourceMeaning
<1> QED
  BY <1>1, <1>3, <1>4, <1>5, <1>6, <1>8, <1>9, <1>10, <1>11, <1>12, <1>13 DEF f, g, n, done, Exists


(* An included file is built, and its tree is what the file means.         *)
LEMMA ReturnMeans ==
    ASSUME IInv, MInv, Return
    PROVE  MInv'
<1> DEFINE m == Len(frames) - 1
           n == LevelsLeft(m)
           f == frames[m]
           done == Tried(disk, f) - 1
           caller == [f EXCEPT !.merged = @ \o Top.obj, !.found = TRUE]
<1>1. /\ Len(frames) \in Nat /\ Len(frames) > 1 /\ Top = frames[Len(frames)]
      /\ m \in 1..(Len(frames) - 1) /\ m + 1 = Len(frames) /\ m \in Nat
  BY Frames DEF Return
<1>2. /\ Top \in Frame /\ Top.obj \in Seq(Entry) /\ Top.todo = <<>>
      /\ text \in Seq(Statement) /\ disk \in [Files -> Content]
  BY TopMeaning, Frames, FrameParts DEF Return
<1>3. /\ f \in Frame /\ f.mode = "probe"
      /\ n \in Nat \ {0} /\ LevelsLeft(m + 1) = n - 1 /\ n - 1 \in Nat
      /\ AtStatement(text, disk, n, f) /\ AtStatement(text, disk, n - 1, Top)
      /\ AtFile(disk, n, f, done)
      /\ done \in Int /\ Tried(disk, f) = done + 1 /\ done < Len(FilesAt(disk, f))
      /\ Top.from = FilesAt(disk, f)[done + 1]
      /\ Exists(disk, Top.from)
      /\ FileMeaning(disk, Top.from, Below(disk, n)) = SourceMeaning(text, disk, Top.from, n - 1)
  BY <1>1, WaitedFor
<1>4. /\ text' = text /\ disk' = disk
      /\ frames' = [i \in 1..m |-> IF i < m THEN frames[i] ELSE caller]
  BY DEF Return, Step
<1>5. FileMeaning(disk, Top.from, Below(disk, n)) = Good(Top.obj)
  BY <1>2, <1>3, SourceDone
<1>6. /\ caller.from = f.from /\ caller.dir = f.dir /\ caller.stack = f.stack
      /\ caller.mode = f.mode /\ caller.todo = f.todo /\ caller.obj = f.obj
      /\ caller.probes = f.probes /\ caller.merged = f.merged \o Top.obj /\ caller.found = TRUE
  BY <1>3 DEF Frame
<1> HIDE DEF f, n, caller, done
<1>7. AtFile(disk, n, caller, done + 1)
  <2>1. FileMeaning(disk, FilesAt(disk, f)[done + 1], Below(disk, n)) = Good(Top.obj)
    BY <1>3, <1>5
  <2>2. caller.found <=> f.found \/ Exists(disk, FilesAt(disk, f)[done + 1])
    BY <1>3, <1>6
  <2>3. /\ f \in Frame /\ n \in Nat \ {0} /\ done \in Int /\ AtFile(disk, n, f, done)
        /\ done < Len(FilesAt(disk, f))
    BY <1>3
  <2>4. \/ caller.probes = f.probes /\ Tried(disk, f) = done + 1
        \/ caller.probes = Tail(f.probes) /\ f.probes # <<>>
    BY <1>3, <1>6
  <2>5. disk \in [Files -> Content] /\ Top.obj \in Seq(Entry)
    BY <1>2
  <2> QED
    BY <1>6, <2>1, <2>2, <2>3, <2>4, <2>5, FileDone
<1>8. FrameMeans(text, disk, n, caller, 0)
  <2>1. AtStatement(text, disk, n, caller)
    BY <1>3, <1>6, ZenonT(40) DEF AtStatement, Past
  <2>2. Tried(disk, caller) = Tried(disk, f)
    BY <1>6 DEF Tried, FilesAt
  <2>3. Tried(disk, caller) - 0 = done + 1
    BY <1>3, <2>2
  <2> QED
    BY <1>7, <2>1, <2>3 DEF FrameMeans
<1> HIDE DEF m
<1>9. Len(frames') = m /\ \A i \in 1..m : frames'[i] = IF i < m THEN frames[i] ELSE caller
  BY <1>1, <1>4
<1>10. ASSUME NEW i \in 1..m
       PROVE  FrameMeans(text, disk, LevelsLeft(i), frames'[i], IF i < m THEN 1 ELSE 0)
  <2>1. CASE i = m
    BY <1>1, <1>8, <1>9, <2>1 DEF n
  <2>2. CASE i # m
    BY <1>1, <1>9, <2>2 DEF MInv, Waiting
  <2> QED
    BY <2>1, <2>2
<1>11. ASSUME NEW i \in 1..(m - 1) PROVE Waits(disk, frames'[i], frames'[i + 1])
  <2>1. Waits(disk, frames[i], frames[i + 1]) /\ i < m /\ i + 1 \in 1..m /\ i \in 1..m
    BY <1>1 DEF MInv
  <2>2. frames'[i] = frames[i]
    BY <1>9, <2>1
  <2>3. frames'[i + 1].from = frames[i + 1].from /\ frames'[i + 1].stack = frames[i + 1].stack
    <3>1. CASE i + 1 < m
      BY <1>9, <2>1, <3>1
    <3>2. CASE i + 1 = m
      BY <1>6, <1>9, <2>1, <3>2 DEF f
    <3> QED
      BY <1>1, <2>1, <3>1, <3>2
  <2> QED
    BY <2>1, <2>2, <2>3 DEF Waits
<1>12. frames'[1].from = Root
  <2>1. CASE m = 1
    BY <1>6, <1>9, <2>1 DEF MInv, f
  <2>2. CASE m # 1
    BY <1>1, <1>9, <2>2 DEF MInv
  <2> QED
    BY <2>1, <2>2
<1> QED
  BY <1>4, <1>9, <1>10, <1>11, <1>12 DEF MInv, Waiting, LevelsLeft

LEMMA NextMeans == IInv /\ MInv /\ [Next]_vars => MInv'
<1> SUFFICES ASSUME IInv, MInv, [Next]_vars PROVE MInv'
  OBVIOUS
<1>1. CASE Assign
  BY <1>1, AssignMeans
<1>2. CASE Load
  <2> DEFINE abs == Joined[IF Item.how = "file" THEN Cwd ELSE Top.dir][Item.target]
  <2>1. Applying /\ Item.how \in {"relative", "file"} /\ Enter(abs, Candidates(abs))
    BY <1>2 DEF Load
  <2>2. Candidates(abs) = Named(disk, Item, Top.dir)
    BY <2>1, CandidatesNamed
  <2> HIDE DEF abs
  <2> QED
    BY <2>1, <2>2, EnterMeans
<1>3. CASE LoadPackage
  <2>1. Applying /\ Item.how = "package"
    BY <1>3 DEF LoadPackage
  <2>2. CASE Hits = {} /\ Enter(Item.target, <<>>)
    <3>1. Named(disk, Item, Top.dir) = <<>>
      BY <2>1, <2>2, CandidatesNamed
    <3> QED
      BY <2>1, <2>2, <3>1, EnterMeans
  <2>3. ASSUME NEW i \in Hits, \A j \in Hits : i <= j,
               Enter(Item.target, <<PackageFile[Bases[i]][Item.target]>>)
        PROVE  MInv'
    <3>1. <<PackageFile[Bases[i]][Item.target]>> = Named(disk, Item, Top.dir)
      BY <2>1, <2>3, CandidatesNamed
    <3> QED
      BY <2>1, <2>3, <3>1, EnterMeans
  <2> QED
    BY <1>3, <2>2, <2>3 DEF LoadPackage
<1>4. CASE ReadCircular \/ ReadFails
  BY <1>4, FailMeans DEF ReadCircular, ReadFails
<1>5. CASE ReadMissing
  BY <1>5, MissingMeans
<1>6. CASE ReadProperties
  BY <1>6, PropertiesMeans
<1>7. CASE ReadDocument
  BY <1>7, CallMeans
<1>8. CASE Include
  BY <1>8, IncludeMeans
<1>9. CASE Return
  BY <1>9, ReturnMeans
<1>10. CASE Finish \/ UNCHANGED vars
  BY <1>10 DEF Finish, vars, MInv, Waiting, LevelsLeft
<1> QED
  BY <1>1, <1>2, <1>3, <1>4, <1>5, <1>6, <1>7, <1>8, <1>9, <1>10 DEF Next

LEMMA MeaningInvariant == Spec => [](IInv /\ MInv)
<1>1. Init => IInv /\ MInv
  BY InitInv, InitMeans
<1>2. (IInv /\ MInv) /\ [Next]_vars => (IInv /\ MInv)'
  BY NextInv, NextMeans
<1> QED
  BY <1>1, <1>2, PTL DEF Spec
-----------------------------------------------------------------------------
(* What the build at hand met when loading ended: the meaning of the       *)
(* statement it stands at, or a key that is on its include stack.          *)
MetOnStack(d, n, f) ==
    /\ f.todo # <<>> /\ Head(f.todo).how # "set"
    /\ \/ Head(f.todo).how = "package" /\ OnStack(f, Head(f.todo).target)
       \/ /\ Head(f.todo).how # "package"
          /\ \E done \in Nat :
                 /\ done < Len(FilesAt(d, f))
                 /\ OnStack(f, FilesAt(d, f)[done + 1])
                 /\ n = 0 => done = 0
                 /\ n # 0 => IsGood(InOrder(FileMeanings(d, FilesAt(d, f), n), done))

Ends ==
    /\ outcome = "loaded" => Len(frames) = 1 /\ Top.todo = <<>>
    /\ outcome = "circular" => MetOnStack(disk, LevelsLeft(Len(frames)), Top)
    /\ outcome \notin {"running", "loaded", "circular"} =>
           /\ Top.todo # <<>>
           /\ HeadMeaning(disk, LevelsLeft(Len(frames)), Top) =
                  IF outcome = "too deep" THEN Endless ELSE Wrong(outcome)

LEMMA NothingTried ==
    ASSUME NEW d \in [Files -> Content], NEW files \in Seq(Files), NEW n \in Nat, n # 0
    PROVE  InOrder(FileMeanings(d, files, n), 0) = Good(<<>>)
<1>1. n \in Nat \ {0}
  OBVIOUS
<1>2. Len(files) \in Nat /\ \A i \in 1..Len(files) : FileMeanings(d, files, n)[i] \in Result
  BY <1>1, FileMeaningsOf
<1> QED
  BY <1>2, InOrderSteps

LEMMA RunsOn == ASSUME outcome' = "running" PROVE Ends'
BY DEF Ends

LEMMA FailEnds ==
    ASSUME NEW why, Fail(why), why \notin {"running", "loaded", "circular"}, Top.todo # <<>>,
           HeadMeaning(disk, LevelsLeft(Len(frames)), Top) =
               IF why = "too deep" THEN Endless ELSE Wrong(why)
    PROVE  Ends'
BY DEF Ends, Fail, Top, LevelsLeft

LEMMA CircularEnds ==
    ASSUME Fail("circular"), MetOnStack(disk, LevelsLeft(Len(frames)), Top)
    PROVE  Ends'
BY DEF Ends, Fail, Top, LevelsLeft

LEMMA EnterEnds ==
    ASSUME IInv, MInv, Applying, Item.how # "set",
           NEW key, OnStack(Top, key) => MetOnStack(disk, LevelsLeft(Len(frames)), Top),
           Enter(key, Named(disk, Item, Top.dir))
    PROVE  Ends'
<1> DEFINE n == LevelsLeft(Len(frames))
           files == Named(disk, Item, Top.dir)
<1>1. Top.todo # <<>> /\ outcome = "running"
  BY DEF Applying
<1>2. /\ Len(frames) \in Nat /\ Len(frames) \in 1..Len(frames)
      /\ Len(Top.stack) = Len(frames) - 1 /\ n \in Nat
  BY Frames
<1>3. Item \in Statement /\ Top.dir \in Dirs
  BY CandidatesNamed, TopMeaning, FrameParts
<1>4. HeadMeaning(disk, n, Top) =
          IF n = 0 THEN Endless ELSE DirectiveMeaning(disk, Item, files, Below(disk, n))
  BY DEF HeadMeaning, Meaning, Item
<1>5. CASE OnStack(Top, key)
  BY <1>5, CircularEnds DEF Enter
<1>6. CASE ~OnStack(Top, key) /\ Len(Top.stack) >= MaxDepth
  <2>1. n = 0
    BY <1>2, <1>6, MaxDepthAssumption DEF LevelsLeft
  <2>2. HeadMeaning(disk, n, Top) = Endless
    BY <1>4, <2>1
  <2>3. Fail("too deep")
    BY <1>6 DEF Enter
  <2> QED
    BY <1>1, <2>2, <2>3, FailEnds
<1>7. CASE ~OnStack(Top, key) /\ ~(Len(Top.stack) >= MaxDepth) /\ files = <<>>
  <2>1. n # 0
    BY <1>2, <1>7, MaxDepthAssumption DEF LevelsLeft
  <2>2. Item.how = "package"
    BY <1>3, <1>7, NamedType
  <2>3. HeadMeaning(disk, n, Top) = Wrong("package not found")
    <3>1. \A i : i \notin 1..Len(files)
      BY <1>7
    <3> HIDE DEF files, n
    <3> QED
      BY <1>4, <2>1, <2>2, <3>1 DEF DirectiveMeaning
  <2>4. Fail("package not found")
    BY <1>7 DEF Enter
  <2> QED
    BY <1>1, <2>3, <2>4, FailEnds
<1>8. CASE ~OnStack(Top, key) /\ ~(Len(Top.stack) >= MaxDepth) /\ files # <<>>
  BY <1>1, <1>8, RunsOn DEF Enter, Step
<1> QED
  BY <1>5, <1>6, <1>7, <1>8

LEMMA LoadEnds ==
    ASSUME IInv, MInv, Load
    PROVE  Ends'
<1> DEFINE dir == IF Item.how = "file" THEN Cwd ELSE Top.dir
           abs == Joined[dir][Item.target]
<1>1. Applying /\ Item.how \in {"relative", "file"} /\ Enter(abs, Candidates(abs))
  BY DEF Load
<1>2. Candidates(abs) = Named(disk, Item, Top.dir) /\ Item \in Statement
  BY <1>1, CandidatesNamed
<1>3. /\ Top \in Frame /\ Top.stack \in Seq(Keys) /\ Top.dir \in Dirs
      /\ Top.todo # <<>> /\ Head(Top.todo) = Item
  BY <1>1, TopMeaning, FrameParts DEF Applying, Item
<1>4. dir \in Dirs /\ Item.target \in Paths
  BY <1>1, <1>2, <1>3, StatementParts, NamingAssumption
<1> HIDE DEF dir
<1>5. ASSUME OnStack(Top, abs)
      PROVE  MetOnStack(disk, LevelsLeft(Len(frames)), Top)
  <2>1. abs \in Keys
    BY <1>3, <1>5 DEF OnStack
  <2>2. abs \in Files
    BY <1>4, <2>1, NamingAssumption DEF Keys
  <2>3. Candidates(abs) = <<abs>>
    BY <2>2 DEF Candidates
  <2>4. FilesAt(disk, Top) = <<abs>>
    BY <1>2, <1>3, <2>3 DEF FilesAt
  <2> HIDE DEF abs
  <2>5. Len(FilesAt(disk, Top)) = 1 /\ FilesAt(disk, Top)[0 + 1] = abs
    BY <2>4
  <2> DEFINE n == LevelsLeft(Len(frames))
  <2>6. n \in Nat /\ disk \in [Files -> Content] /\ FilesAt(disk, Top) \in Seq(Files)
    BY <2>2, <2>4, TopMeaning, Frames DEF abs
  <2> HIDE DEF n
  <2>7. ASSUME n # 0
        PROVE  IsGood(InOrder(FileMeanings(disk, FilesAt(disk, Top), n), 0))
    <3>1. InOrder(FileMeanings(disk, FilesAt(disk, Top), n), 0) = Good(<<>>)
      BY <2>6, <2>7, NothingTried
    <3> QED
      BY <3>1 DEF Good, IsGood
  <2>8. /\ 0 < Len(FilesAt(disk, Top)) /\ OnStack(Top, FilesAt(disk, Top)[0 + 1])
    BY <1>5, <2>5
  <2>9. Head(Top.todo).how # "package" /\ Head(Top.todo).how # "set"
    BY <1>1, <1>3
  <2> QED
    BY <1>3, <2>7, <2>8, <2>9 DEF MetOnStack, n
<1> QED
  BY <1>1, <1>2, <1>5, EnterEnds

LEMMA LoadPackageEnds ==
    ASSUME IInv, MInv, LoadPackage
    PROVE  Ends'
<1>1. Applying /\ Item.how = "package"
  BY DEF LoadPackage
<1>2. Enter(Item.target, Named(disk, Item, Top.dir))
  <2>1. CASE Hits = {} /\ Enter(Item.target, <<>>)
    <3>1. Named(disk, Item, Top.dir) = <<>>
      BY <1>1, <2>1, CandidatesNamed
    <3> QED
      BY <2>1, <3>1
  <2>2. ASSUME NEW i \in Hits, \A j \in Hits : i <= j,
               Enter(Item.target, <<PackageFile[Bases[i]][Item.target]>>)
        PROVE  Enter(Item.target, Named(disk, Item, Top.dir))
    <3>1. <<PackageFile[Bases[i]][Item.target]>> = Named(disk, Item, Top.dir)
      BY <1>1, <2>2, CandidatesNamed
    <3> QED
      BY <2>2, <3>1
  <2> QED
    BY <2>1, <2>2 DEF LoadPackage
<1>3. OnStack(Top, Item.target) => MetOnStack(disk, LevelsLeft(Len(frames)), Top)
  BY <1>1 DEF MetOnStack, Item, Applying
<1> QED
  BY <1>1, <1>2, <1>3, EnterEnds

LEMMA ReadCircularEnds ==
    ASSUME IInv, MInv, ReadCircular
    PROVE  Ends'
<1> DEFINE n == LevelsLeft(Len(frames))
           done == Tried(disk, Top)
           files == FilesAt(disk, Top)
<1>1. Probing /\ Top.probes # <<>> /\ OnStack(Top, KeyOf(Head(Top.probes))) /\ Fail("circular")
  BY DEF ReadCircular
<1>2. /\ n \in Nat \ {0} /\ AtFile(disk, n, Top, done)
      /\ Top.todo # <<>> /\ Head(Top.todo) = Item
      /\ done \in Nat /\ done < Len(files) /\ Head(Top.probes) = files[done + 1]
      /\ Top \in Frame /\ Top.merged \in Seq(Entry)
  BY <1>1, CandidateAtHand, FrameParts
<1>3. Item.how # "set" /\ IsGood(InOrder(FileMeanings(disk, files, n), done))
  BY <1>2, GoodType DEF AtFile
<1>4. MetOnStack(disk, n, Top)
  <2>1. CASE Item.how = "package"
    BY <1>1, <1>2, <1>3, <2>1 DEF MetOnStack, KeyOf
  <2>2. CASE Item.how # "package"
    <3>1. OnStack(Top, files[done + 1])
      BY <1>1, <1>2, <2>2 DEF KeyOf
    <3> HIDE DEF n, done
    <3> QED
      BY <1>2, <1>3, <2>2, <3>1 DEF MetOnStack
  <2> QED
    BY <2>1, <2>2
<1> QED
  BY <1>1, <1>4, CircularEnds

LEMMA ReadFailsEnds ==
    ASSUME IInv, MInv, ReadFails
    PROVE  Ends'
<1> DEFINE n == LevelsLeft(Len(frames))
           done == Tried(disk, Top)
           files == FilesAt(disk, Top)
           c == Head(Top.probes)
<1>1. PICK kind \in {"unreadable", "rejected"} : Read(kind) /\ Fail(kind)
  BY DEF ReadFails
<1>2. Probing /\ Top.probes # <<>> /\ disk[c].kind = kind
  BY <1>1 DEF Read
<1>3. /\ n \in Nat \ {0} /\ AtFile(disk, n, Top, done) /\ Top.todo # <<>> /\ Top \in Frame
      /\ done \in Nat /\ done < Len(files) /\ c = files[done + 1] /\ disk \in [Files -> Content]
  BY <1>2, CandidateAtHand
<1>4. FileMeaning(disk, c, Below(disk, n)) = Wrong(kind)
  BY <1>1, <1>2 DEF FileMeaning, Exists
<1>5. ~IsGood(Wrong(kind))
  BY <1>1, WrongType DEF Whys, Outcomes
<1> HIDE DEF n, c
<1>6. HeadMeaning(disk, n, Top) = Wrong(kind)
  BY <1>3, <1>4, <1>5, FileFails
<1> QED
  BY <1>1, <1>3, <1>6, FailEnds DEF n

LEMMA IncludeEnds ==
    ASSUME IInv, MInv, Include
    PROVE  Ends'
<1> DEFINE n == LevelsLeft(Len(frames))
<1>1. Probing /\ Top.probes = <<>> /\ outcome = "running"
  BY DEF Include, Probing
<1>2. CASE Item.required /\ ~Top.found
  <2>1. /\ disk \in [Files -> Content] /\ Top \in Frame /\ n \in Nat \ {0}
        /\ AtFile(disk, n, Top, Tried(disk, Top))
        /\ Top.todo # <<>> /\ Head(Top.todo) = Item
    BY <1>1, TopMeaning, Frames DEF Probing, AtFile, Item
  <2>2. HeadMeaning(disk, n, Top) = Wrong("required not found")
    BY <1>1, <1>2, <2>1, FilesDone
  <2>3. Fail("required not found")
    BY <1>2 DEF Include
  <2> QED
    BY <2>1, <2>2, <2>3, FailEnds
<1>3. CASE ~(Item.required /\ ~Top.found)
  BY <1>1, <1>3, RunsOn DEF Include, Step
<1> QED
  BY <1>2, <1>3

LEMMA NextEnds == IInv /\ MInv /\ Ends /\ [Next]_vars => Ends'
<1> SUFFICES ASSUME IInv, MInv, Ends, [Next]_vars PROVE Ends'
  OBVIOUS
<1>1. CASE Assign \/ ReadMissing \/ ReadProperties \/ ReadDocument \/ Return
  BY <1>1, RunsOn DEF Assign, ReadMissing, ReadProperties, ReadDocument, Return, Read, Applying,
                      Probing, Step
<1>2. CASE Finish
  BY <1>2 DEF Finish, Ends, Top
<1>3. CASE UNCHANGED vars
  BY <1>3 DEF vars, Ends, Top, LevelsLeft
<1> QED
  BY <1>1, <1>2, <1>3, LoadEnds, LoadPackageEnds, ReadCircularEnds, ReadFailsEnds, IncludeEnds
     DEF Next

LEMMA EndsInvariant == Spec => [](IInv /\ MInv /\ Ends)
<1>1. Init => IInv /\ MInv /\ Ends
  BY InitInv, InitMeans DEF Init, Ends
<1>2. (IInv /\ MInv /\ Ends) /\ [Next]_vars => (IInv /\ MInv /\ Ends)'
  BY NextInv, NextMeans, NextEnds
<1> QED
  BY <1>1, <1>2, PTL DEF Spec
-----------------------------------------------------------------------------
(* An exception is the meaning of every build that waits, and of the text. *)
LEMMA Outwards ==
    ASSUME IInv, MInv, NEW r, ~IsGood(r),
           SourceMeaning(text, disk, Top.from, LevelsLeft(Len(frames))) = r
    PROVE  Unfolded(MaxDepth) = r
<1> DEFINE L == Len(frames)
           Means(i) == SourceMeaning(text, disk, frames[i].from, LevelsLeft(i)) = r
           G == {k \in Nat : k < L => Means(L - k)}
<1>1. L \in Nat \ {0} /\ Top = frames[L] /\ text \in Seq(Statement) /\ disk \in [Files -> Content]
  BY Frames
<1>2. 0 \in G
  <2>1. L - 0 = L
    BY <1>1
  <2> QED
    BY <1>1, <2>1
<1>3. ASSUME NEW k \in Nat, k \in G PROVE k + 1 \in G
  <2> SUFFICES ASSUME k + 1 < L PROVE Means(L - (k + 1))
    OBVIOUS
  <2> DEFINE i == L - (k + 1)
             f == frames[i]
             n == LevelsLeft(i)
             done == Tried(disk, f) - 1
  <2>1. i \in 1..(Len(frames) - 1) /\ i + 1 = L - k /\ k < L
    BY <1>1
  <2>2. Means(i + 1)
    BY <1>3, <2>1
  <2>3. /\ f \in Frame /\ n \in Nat \ {0} /\ n \in Nat /\ LevelsLeft(i + 1) = n - 1
        /\ AtStatement(text, disk, n, f) /\ AtFile(disk, n, f, done)
        /\ done \in Int /\ done < Len(FilesAt(disk, f)) /\ f.todo # <<>>
        /\ frames[i + 1].from = FilesAt(disk, f)[done + 1]
        /\ FileMeaning(disk, frames[i + 1].from, Below(disk, n)) =
               SourceMeaning(text, disk, frames[i + 1].from, n - 1)
    BY <2>1, WaitedFor
  <2> HIDE DEF f, i, n, done
  <2>4. FileMeaning(disk, FilesAt(disk, f)[done + 1], Below(disk, n)) = r
    BY <2>2, <2>3
  <2>5. HeadMeaning(disk, n, f) = r
    BY <1>1, <2>3, <2>4, FileFails
  <2>6. SourceMeaning(text, disk, f.from, n) = r
    BY <1>1, <2>3, <2>5, StatementFails
  <2> QED
    BY <2>6 DEF f, n, i
<1> HIDE DEF G
<1>4. \A k \in Nat : k \in G
  BY <1>2, <1>3, SetInduction
<1>5. L - 1 \in Nat /\ L - 1 < L /\ L - (L - 1) = 1
  BY <1>1
<1>6. Means(1)
  BY <1>4, <1>5 DEF G
<1>7. LevelsLeft(1) = MaxDepth /\ MaxDepth \in Nat
  BY MaxDepthAssumption DEF LevelsLeft
<1>8. frames[1].from = Root
  BY DEF MInv
<1> QED
  BY <1>6, <1>7, <1>8, TextIsDocument DEF SourceMeaning

(* What has an end has one up to every statement of it.                    *)
LEMMA NextHasEnd ==
    ASSUME NEW N \in Nat, NEW r, NEW s,
           \A i \in 1..N : r[i] \in Result /\ s[i] \in Result,
           \/ \A i \in 1..N : Sharper(r[i], s[i])
           \/ \A i \in 1..N : Sharper(s[i], r[i]),
           NEW p \in Nat, p < N, IsGood(InOrder(r, p)), InOrder(s, N) # Endless
    PROVE  s[p + 1] # Endless
<1>1. p \in 0..N /\ p + 1 \in 0..N /\ p + 1 \in 1..N /\ (p + 1) - 1 = p
  OBVIOUS
<1>2. InOrder(s, p) # Endless /\ InOrder(s, p + 1) # Endless
  <2>1. ASSUME NEW q \in 0..N, InOrder(s, q) = Endless PROVE FALSE
    <3>1. InOrder(s, N) = InOrder(s, q)
      BY <2>1, EndlessIsWrong, InOrderStops
    <3> QED
      BY <2>1, <3>1
  <2> QED
    BY <1>1, <2>1
<1>3. InOrder(s, p) = InOrder(r, p)
  <2>1. CASE \A i \in 1..N : Sharper(r[i], s[i])
    <3>1. Sharper(InOrder(r, p), InOrder(s, p))
      BY <1>1, <2>1, InOrderSharper
    <3> QED
      BY <3>1, EndlessIsWrong DEF Sharper
  <2>2. CASE \A i \in 1..N : Sharper(s[i], r[i])
    <3>1. Sharper(InOrder(s, p), InOrder(r, p))
      BY <1>1, <2>2, InOrderSharper
    <3> QED
      BY <1>2, <3>1 DEF Sharper
  <2> QED
    BY <2>1, <2>2
<1>4. InOrder(s, p + 1) = Then(InOrder(s, p), s[p + 1])
  BY <1>1, InOrderSteps
<1> QED
  BY <1>2, <1>3, <1>4, EndlessIsWrong DEF Then

LEMMA MeaningsCompare ==
    ASSUME NEW t \in Seq(Statement), NEW d \in [Files -> Content],
           NEW from \in Files \cup {Root}, NEW m \in Nat, NEW n \in Nat, m <= n
    PROVE  \A i \in 1..Len(ItemsOf(t, d, from)) :
               Sharper(Meanings(t, d, from, m)[i], Meanings(t, d, from, n)[i])
<1>1. CASE m = n
  BY <1>1 DEF Sharper
<1>2. CASE m # n
  <2>1. n \in Nat \ {0}
    BY <1>2
  <2>2. ASSUME m # 0, NEW f \in Files PROVE Sharper(Below(d, m)[f], Below(d, n)[f])
    <3>1. m - 1 \in Nat /\ n - 1 \in Nat /\ m - 1 <= n - 1
      BY <2>1, <2>2
    <3>2. Below(d, m) = Levels(d)[m - 1] /\ Below(d, n) = Levels(d)[n - 1]
      BY <2>1, <2>2, BelowType
    <3> QED
      BY <3>1, <3>2, LevelsSharper
  <2> QED
    BY <2>1, <2>2, LevelSharper
<1> QED
  BY <1>1, <1>2

LEMMA FilesCompare ==
    ASSUME NEW d \in [Files -> Content], NEW files \in Seq(Files),
           NEW m \in Nat \ {0}, NEW n \in Nat \ {0}, m <= n
    PROVE  \A i \in 1..Len(files) :
               Sharper(FileMeanings(d, files, m)[i], FileMeanings(d, files, n)[i])
<1>1. m - 1 \in Nat /\ n - 1 \in Nat /\ m - 1 <= n - 1
  OBVIOUS
<1>2. Below(d, m) = Levels(d)[m - 1] /\ Below(d, n) = Levels(d)[n - 1]
  BY BelowType
<1>3. \A f \in Files : Sharper(Below(d, m)[f], Below(d, n)[f])
  BY <1>1, <1>2, LevelsSharper
<1> SUFFICES ASSUME NEW i \in 1..Len(files)
             PROVE  Sharper(FileMeanings(d, files, m)[i], FileMeanings(d, files, n)[i])
  OBVIOUS
<1>4. files[i] \in Files
  OBVIOUS
<1>5. Sharper(FileMeaning(d, files[i], Below(d, m)), FileMeaning(d, files[i], Below(d, n)))
  BY <1>3, <1>4 DEF FileMeaning, Sharper
<1> QED
  BY <1>5, FileMeaningsOf

(* A build stands at a directive, the files before the object c gave       *)
(* something good.                                                         *)
StandsAt(t, d, n, f, done, c) ==
    /\ t \in Seq(Statement) /\ d \in [Files -> Content] /\ n \in Nat
    /\ f \in Frame /\ AtStatement(t, d, n, f) /\ f.todo # <<>> /\ Head(f.todo).how # "set"
    /\ done \in Nat /\ done < Len(FilesAt(d, f))
    /\ n = 0 => done = 0
    /\ n # 0 => IsGood(InOrder(FileMeanings(d, FilesAt(d, f), n), done))
    /\ c = FilesAt(d, f)[done + 1] /\ d[c].kind = "object"

(* A source that has an end at m levels has a file with an end at m - 1    *)
(* where a build of it stands at the directive that names that file.       *)
LEMMA Descends ==
    ASSUME NEW t, NEW d, NEW n, NEW f, NEW done, NEW c, StandsAt(t, d, n, f, done, c),
           NEW m \in Nat, SourceMeaning(t, d, f.from, m) # Endless
    PROVE  m # 0 /\ SourceMeaning(t, d, c, m - 1) # Endless
<1> SUFFICES ASSUME t \in Seq(Statement), d \in [Files -> Content], n \in Nat,
                    f \in Frame, AtStatement(t, d, n, f), f.todo # <<>>, Head(f.todo).how # "set",
                    done \in Nat, done < Len(FilesAt(d, f)),
                    n = 0 => done = 0,
                    n # 0 => IsGood(InOrder(FileMeanings(d, FilesAt(d, f), n), done)),
                    c = FilesAt(d, f)[done + 1], d[c].kind = "object"
             PROVE  m # 0 /\ SourceMeaning(t, d, c, m - 1) # Endless
  BY DEF StandsAt
<1> DEFINE items == ItemsOf(t, d, f.from)
           N == Len(items)
           r == Meanings(t, d, f.from, n)
           s == Meanings(t, d, f.from, m)
           p == Past(t, d, f)
           item == Head(f.todo)
           files == FilesAt(d, f)
<1>1. f.from \in Files \cup {Root} /\ f.dir \in Dirs /\ f.obj \in Seq(Entry) /\ f.dir = HomeOf(f.from)
  BY FrameParts DEF AtStatement
<1>2. item \in Statement /\ p \in Nat /\ p + 1 \in 1..N /\ item = items[p + 1]
  <2>1. item \in Statement /\ p \in Nat /\ p + 1 \in 1..N
    BY NextStatement
  <2>2. f.todo[1] = items[p + 1] /\ item = f.todo[1]
    <3>1. f.todo \in Seq(Statement) /\ 1 \in 1..Len(f.todo)
      BY FrameParts
    <3> QED
      BY <3>1 DEF AtStatement
  <2> QED
    BY <2>1, <2>2
<1>3. /\ N \in Nat
      /\ \A i \in 1..N : r[i] \in Result /\ s[i] \in Result
      /\ s[p + 1] = Meaning(d, item, f.from, f.dir, m, Below(d, m))
  BY <1>1, <1>2, MeaningsType
<1>4. \/ \A i \in 1..N : Sharper(r[i], s[i])
      \/ \A i \in 1..N : Sharper(s[i], r[i])
  BY <1>1, MeaningsCompare
<1>5. InOrder(r, p) = Good(f.obj) /\ IsGood(InOrder(r, p)) /\ InOrder(s, N) # Endless
  BY <1>1, GoodType DEF AtStatement, SourceMeaning
<1> HIDE DEF items, N, r, s, p, item, files
<1>6. s[p + 1] # Endless
  <2>1. p < N
    BY <1>2, <1>3
  <2> QED
    BY <1>2, <1>3, <1>4, <1>5, <2>1, NextHasEnd
<1>7. m # 0 /\ m \in Nat \ {0}
  BY <1>3, <1>6 DEF Meaning, item
<1>8. files \in Seq(Files) /\ Len(files) \in Nat
  BY <1>1, <1>2, NamedType DEF files, FilesAt, item
<1>9. c = files[done + 1] /\ done + 1 \in 1..Len(files) /\ c \in Files /\ done < Len(files)
  BY <1>8 DEF files
<1> DEFINE a == FileMeanings(d, files, n)
           b == FileMeanings(d, files, m)
           M == Len(files)
<1>10. InOrder(b, M) # Endless
  <2>1. s[p + 1] = DirectiveMeaning(d, item, files, Below(d, m))
    BY <1>3, <1>7 DEF Meaning, files, FilesAt, item
  <2>2. Exists(d, files[done + 1])
    BY <1>9 DEF Exists
  <2>3. s[p + 1] = Placed(item, Included(d, files, Below(d, m)))
    BY <1>9, <2>1, <2>2 DEF DirectiveMeaning
  <2>4. Included(d, files, Below(d, m)) # Endless
    BY <1>6, <2>3, EndlessIsWrong DEF Placed
  <2> QED
    BY <1>7, <1>8, <2>4, FileMeaningsOf
<1>11. /\ \A i \in 1..M : b[i] \in Result
       /\ b[done + 1] = FileMeaning(d, c, Below(d, m))
  BY <1>7, <1>8, <1>9, FileMeaningsOf
<1>12. b[done + 1] # Endless
  <2>1. CASE n = 0
    <3>1. InOrder(b, 0) = Good(<<>>)
      BY <1>7, <1>8, NothingTried
    <3>2. IsGood(InOrder(b, done)) /\ \A i \in 1..M : Sharper(b[i], b[i])
      BY <2>1, <3>1 DEF Good, IsGood, Sharper
    <3> HIDE DEF b, M
    <3> QED
      BY <1>8, <1>9, <1>10, <1>11, <3>2, NextHasEnd DEF M
  <2>2. CASE n # 0
    <3>1. n \in Nat \ {0}
      BY <2>2
    <3>2. \A i \in 1..M : a[i] \in Result
      BY <1>8, <3>1, FileMeaningsOf
    <3>3. \/ \A i \in 1..M : Sharper(a[i], b[i])
          \/ \A i \in 1..M : Sharper(b[i], a[i])
      BY <1>7, <1>8, <3>1, FilesCompare
    <3>4. IsGood(InOrder(a, done))
      BY <2>2 DEF files
    <3> HIDE DEF a, b, M
    <3> QED
      BY <1>8, <1>9, <1>10, <1>11, <3>2, <3>3, <3>4, NextHasEnd DEF M
  <2> QED
    BY <2>1, <2>2
<1>13. FileMeaning(d, c, Below(d, m)) = SourceMeaning(t, d, c, m - 1)
  <2>1. Below(d, m) = Levels(d)[m - 1] /\ m - 1 \in Nat
    BY <1>7, BelowType
  <2> QED
    BY <1>9, <2>1, FileIsDocument DEF FileMeaning, SourceMeaning
<1> QED
  BY <1>7, <1>11, <1>12, <1>13
-----------------------------------------------------------------------------
(* A package names the same file wherever it is included: the resolver has *)
(* bases of its own, and does not look in the directory of the including   *)
(* file.  Without this, a package on the include stack may be one that the *)
(* directive at hand does not find.                                        *)
PackagesFixed == ResolveFrom # <<>> \/ Packages = {}

(* An entry of the include stack is the key of the file whose build is one *)
(* further in.                                                             *)
LEMMA StackEntry ==
    ASSUME IInv, MInv, NEW q \in 1..Len(Top.stack)
    PROVE  q \in 1..(Len(frames) - 1) /\ Top.stack[q] = KeyAt(frames[q], frames[q + 1].from)
<1> DEFINE L == Len(frames)
<1>1. /\ L \in Nat \ {0} /\ L \in 1..L /\ Top = frames[L]
      /\ Len(Top.stack) = L - 1
  BY Frames
<1>2. q \in 1..(L - 1) /\ q \in 1..L /\ q + 1 \in 1..L /\ q \in 1..((q + 1) - 1)
  BY <1>1
<1>3. Waits(disk, frames[q], frames[q + 1])
  BY <1>2 DEF MInv
<1>4. frames[q] \in Frame /\ Len(frames[q].stack) = q - 1 /\ frames[q].stack \in Seq(Keys)
  BY <1>2, Frames, FrameParts
<1>5. frames[q + 1].stack[q] = KeyAt(frames[q], frames[q + 1].from)
  <2>1. ASSUME NEW key
        PROVE  Append(frames[q].stack, key)[q] = key
    BY <1>2, <1>4
  <2> QED
    BY <1>3, <2>1 DEF Waits
<1>6. frames[q + 1].stack[q] = Top.stack[q]
  <2>1. Len(Stacks) = L /\ \A i \in 1..L : Stacks[i] = frames[i].stack
    BY <1>1 DEF Stacks
  <2>2. \A j \in 1..L : \A k \in 1..(j - 1) : Stacks[j][k] = Stacks[L][k]
    BY <1>1, <2>1 DEF IInv, ChainsKnown, Chained
  <2> QED
    BY <1>1, <1>2, <2>1, <2>2
<1> QED
  BY <1>2, <1>5, <1>6

(* The cycle: the file that the directive at hand names is being built by  *)
(* a build that waits.                                                     *)
ClosesCycle(q, done) ==
    LET n == LevelsLeft(Len(frames))
    IN  /\ q \in 1..(Len(frames) - 1)
        /\ Top.todo # <<>> /\ Head(Top.todo).how # "set"
        /\ done \in Nat /\ done < Len(FilesAt(disk, Top))
        /\ FilesAt(disk, Top)[done + 1] = frames[q + 1].from
        /\ n = 0 => done = 0
        /\ n # 0 => IsGood(InOrder(FileMeanings(disk, FilesAt(disk, Top), n), done))

LEMMA Cycle ==
    ASSUME IInv, MInv, PackagesFixed, MetOnStack(disk, LevelsLeft(Len(frames)), Top)
    PROVE  \E q, done : ClosesCycle(q, done)
<1> DEFINE n == LevelsLeft(Len(frames))
           item == Head(Top.todo)
<1>1. /\ Top \in Frame /\ n \in Nat /\ disk \in [Files -> Content]
      /\ Top.stack \in Seq(Keys) /\ Top.dir \in Dirs /\ Top.todo \in Seq(Statement)
  BY TopMeaning, Frames, FrameParts
<1>2. Top.todo # <<>> /\ item.how # "set" /\ item \in Statement
  BY <1>1 DEF MetOnStack
<1>3. ASSUME NEW q \in 1..Len(Top.stack)
      PROVE  /\ q \in 1..(Len(frames) - 1)
             /\ Top.stack[q] = KeyAt(frames[q], frames[q + 1].from)
             /\ frames[q] \in Frame /\ frames[q].dir \in Dirs
             /\ frames[q].todo # <<>> /\ Head(frames[q].todo) \in Statement
             /\ frames[q + 1].from \in Files
             /\ Tried(disk, frames[q]) \in Int /\ Tried(disk, frames[q]) \in 1..Len(FilesAt(disk, frames[q]))
             /\ frames[q + 1].from = FilesAt(disk, frames[q])[Tried(disk, frames[q])]
  <2>1. q \in 1..(Len(frames) - 1) /\ Top.stack[q] = KeyAt(frames[q], frames[q + 1].from)
    BY StackEntry
  <2> DEFINE done == Tried(disk, frames[q]) - 1
  <2>2. /\ frames[q] \in Frame /\ frames[q].todo # <<>> /\ Head(frames[q].todo) \in Statement
        /\ frames[q + 1].from \in Files
        /\ LevelsLeft(q) \in Nat \ {0} /\ AtFile(disk, LevelsLeft(q), frames[q], done)
        /\ done \in Int /\ Tried(disk, frames[q]) = done + 1
        /\ done < Len(FilesAt(disk, frames[q]))
        /\ frames[q + 1].from = FilesAt(disk, frames[q])[done + 1]
    BY <2>1, WaitedFor
  <2> HIDE DEF done
  <2>3. done \in Nat /\ Len(FilesAt(disk, frames[q])) \in Nat
    BY <1>1, <2>2, NextFile
  <2> QED
    BY <2>1, <2>2, <2>3, FrameParts
<1>4. CASE item.how = "package"
  <2>1. PICK q \in 1..Len(Top.stack) : Top.stack[q] = item.target
    BY <1>4 DEF MetOnStack, OnStack
  <2>2. item.target \in Packages
    BY <1>2, <1>4, StatementParts
  <2> DEFINE f == frames[q]
             g == frames[q + 1]
  <2>3. /\ q \in 1..(Len(frames) - 1) /\ item.target = KeyAt(f, g.from)
        /\ f.dir \in Dirs /\ Head(f.todo) \in Statement /\ g.from \in Files
        /\ Tried(disk, f) \in 1..Len(FilesAt(disk, f))
        /\ g.from = FilesAt(disk, f)[Tried(disk, f)]
    BY <1>3, <2>1
  <2> HIDE DEF f, g, item
  <2>4. Head(f.todo).how = "package" /\ Head(f.todo).target = item.target
    BY <2>2, <2>3, NamingAssumption DEF KeyAt
  <2>5. FilesAt(disk, f) = FilesAt(disk, Top)
    <3>1. ResolveFrom # <<>>
      BY <2>2 DEF PackagesFixed
    <3>2. PackageFiles(disk, f.dir, item.target) = PackageFiles(disk, Top.dir, item.target)
      BY <3>1 DEF PackageFiles
    <3> QED
      BY <1>4, <2>4, <3>2 DEF FilesAt, Named, item
  <2>6. PICK c \in Files : FilesAt(disk, f) = <<c>>
    <3>1. FilesAt(disk, f) = PackageFiles(disk, f.dir, item.target)
      BY <2>4 DEF FilesAt, Named
    <3>2. FilesAt(disk, f) # <<>>
      BY <2>3
    <3> QED
      BY <2>2, <2>3, <3>1, <3>2, PackageFilesType
  <2>7. Len(FilesAt(disk, f)) = 1 /\ FilesAt(disk, f)[0 + 1] = c /\ g.from = c
    BY <2>3, <2>6
  <2>8. n # 0 => IsGood(InOrder(FileMeanings(disk, FilesAt(disk, Top), n), 0))
    <3> SUFFICES ASSUME n # 0
                 PROVE  IsGood(InOrder(FileMeanings(disk, FilesAt(disk, Top), n), 0))
      OBVIOUS
    <3>1. FilesAt(disk, Top) \in Seq(Files)
      BY <2>5, <2>6
    <3> HIDE DEF n
    <3>2. InOrder(FileMeanings(disk, FilesAt(disk, Top), n), 0) = Good(<<>>)
      BY <1>1, <3>1, NothingTried
    <3> QED
      BY <3>2 DEF Good, IsGood
  <2>9. ClosesCycle(q, 0)
    BY <1>2, <2>3, <2>5, <2>7, <2>8 DEF ClosesCycle, f, g, item
  <2> QED
    BY <2>9
<1>5. CASE item.how # "package"
  <2>1. PICK done \in Nat :
            /\ done < Len(FilesAt(disk, Top))
            /\ OnStack(Top, FilesAt(disk, Top)[done + 1])
            /\ n = 0 => done = 0
            /\ n # 0 => IsGood(InOrder(FileMeanings(disk, FilesAt(disk, Top), n), done))
    BY <1>5 DEF MetOnStack
  <2> DEFINE c == FilesAt(disk, Top)[done + 1]
  <2>2. c \in Files
    <3>1. FilesAt(disk, Top) \in Seq(Files)
      BY <1>1, <1>2, NamedType DEF FilesAt
    <3> QED
      BY <2>1, <3>1
  <2>3. PICK q \in 1..Len(Top.stack) : Top.stack[q] = c
    BY <2>1 DEF OnStack
  <2>4. /\ q \in 1..(Len(frames) - 1) /\ c = KeyAt(frames[q], frames[q + 1].from)
        /\ Head(frames[q].todo) \in Statement
    BY <1>3, <2>3
  <2> HIDE DEF c
  <2>5. c = frames[q + 1].from
    <3>1. Head(frames[q].todo).how = "package" => Head(frames[q].todo).target \in Packages
      BY <2>4, StatementParts
    <3> QED
      BY <2>2, <2>4, <3>1, NamingAssumption DEF KeyAt
  <2>6. ClosesCycle(q, done)
    BY <1>2, <2>1, <2>4, <2>5 DEF ClosesCycle, c
  <2> QED
    BY <2>6
<1> QED
  BY <1>4, <1>5

(* One build further in, one level less.                                   *)
LEMMA OneDeeper ==
    ASSUME IInv, MInv, NEW i \in 1..(Len(frames) - 1), NEW m \in Nat,
           SourceMeaning(text, disk, frames[i].from, m) # Endless
    PROVE  m # 0 /\ SourceMeaning(text, disk, frames[i + 1].from, m - 1) # Endless
<1> DEFINE f == frames[i]
           c == frames[i + 1].from
           n == LevelsLeft(i)
           done == Tried(disk, f) - 1
<1>1. /\ f \in Frame /\ n \in Nat \ {0} /\ n \in Nat /\ n # 0
      /\ AtStatement(text, disk, n, f) /\ AtFile(disk, n, f, done)
      /\ done \in Int /\ done < Len(FilesAt(disk, f)) /\ f.todo # <<>>
      /\ c = FilesAt(disk, f)[done + 1] /\ disk[c].kind = "object"
      /\ text \in Seq(Statement) /\ disk \in [Files -> Content]
  BY WaitedFor, Frames
<1> HIDE DEF c, n, done
<1>2. done \in Nat /\ Head(f.todo).how # "set"
  BY <1>1, NextFile DEF AtFile
<1>3. IsGood(InOrder(FileMeanings(disk, FilesAt(disk, f), n), done))
  BY <1>1, FrameParts, GoodType DEF AtFile
<1>4. SourceMeaning(text, disk, f.from, m) # Endless
  OBVIOUS
<1> HIDE DEF f
<1>5. f \in Frame /\ n \in Nat /\ AtStatement(text, disk, n, f) /\ f.todo # <<>>
  BY <1>1
<1>6. (n = 0 => done = 0) /\ (n # 0 => IsGood(InOrder(FileMeanings(disk, FilesAt(disk, f), n), done)))
  BY <1>1, <1>3
<1>7. done < Len(FilesAt(disk, f)) /\ c = FilesAt(disk, f)[done + 1] /\ disk[c].kind = "object"
  BY <1>1
<1>8. text \in Seq(Statement) /\ disk \in [Files -> Content]
  BY <1>1
<1>9. StandsAt(text, disk, n, f, done, c)
  BY <1>2, <1>5, <1>6, <1>7, <1>8 DEF StandsAt
<1>10. m # 0 /\ SourceMeaning(text, disk, c, m - 1) # Endless
  BY <1>4, <1>9, Descends
<1> QED
  BY <1>10 DEF c

(* With a cycle, no number of levels gives the file that closes it an end: *)
(* of the levels that did, the least would give it one at a smaller one.   *)
LEMMA CycleHasNoEnd ==
    ASSUME IInv, MInv, NEW q, NEW done, ClosesCycle(q, done), NEW n \in Nat
    PROVE  SourceMeaning(text, disk, frames[q + 1].from, n) = Endless
<1> DEFINE c == frames[q + 1].from
           T == {m \in Nat : SourceMeaning(text, disk, c, m) # Endless}
           L == Len(frames)
<1> SUFFICES ASSUME T # {} PROVE FALSE
  OBVIOUS
<1>1. PICK m \in T : \A k \in T : m <= k
  <2>1. T \in SUBSET Nat
    OBVIOUS
  <2> HIDE DEF T
  <2> QED
    BY <2>1, LeastNumber
<1>2. L \in Nat /\ q \in 1..(L - 1) /\ Top = frames[L] /\ m \in Nat
  BY Frames DEF ClosesCycle
<1> DEFINE HasEnd(i, k) == SourceMeaning(text, disk, frames[i].from, k) # Endless
           G == {k \in Nat : q + 1 + k <= L => k <= m /\ HasEnd(q + 1 + k, m - k)}
<1>3. 0 \in G
  <2>1. HasEnd(q + 1, m)
    BY <1>1
  <2>2. q + 1 + 0 = q + 1 /\ m - 0 = m /\ 0 <= m
    BY <1>2
  <2> HIDE DEF HasEnd
  <2> QED
    BY <2>1, <2>2
<1>4. ASSUME NEW k \in Nat, k \in G PROVE k + 1 \in G
  <2> SUFFICES ASSUME q + 1 + (k + 1) <= L
               PROVE  k + 1 <= m /\ HasEnd(q + 1 + (k + 1), m - (k + 1))
    OBVIOUS
  <2>1. q + 1 + k <= L /\ q + 1 + k \in 1..(L - 1)
    BY <1>2
  <2>2. k <= m /\ HasEnd(q + 1 + k, m - k) /\ m - k \in Nat
    BY <1>2, <1>4, <2>1
  <2>3. m - k # 0 /\ HasEnd((q + 1 + k) + 1, (m - k) - 1)
    BY <2>1, <2>2, OneDeeper
  <2>4. (q + 1 + k) + 1 = q + 1 + (k + 1) /\ (m - k) - 1 = m - (k + 1)
    BY <1>2
  <2> HIDE DEF HasEnd
  <2> QED
    BY <1>2, <2>2, <2>3, <2>4
<1> HIDE DEF G
<1>5. \A k \in Nat : k \in G
  BY <1>3, <1>4, SetInduction
<1> DEFINE k == L - (q + 1)
<1>6. k \in Nat /\ q + 1 + k = L
  BY <1>2
<1> HIDE DEF k
<1>7. k <= m /\ HasEnd(L, m - k) /\ m - k \in Nat
  BY <1>2, <1>5, <1>6, SMTT(40) DEF G
<1>8. /\ Top \in Frame /\ LevelsLeft(L) \in Nat /\ AtStatement(text, disk, LevelsLeft(L), Top)
      /\ text \in Seq(Statement) /\ disk \in [Files -> Content]
  BY TopMeaning, Frames
<1>9. disk[c].kind = "object"
  <2>1. q \in 1..(Len(frames) - 1)
    BY <1>2
  <2> QED
    BY <2>1, WaitedFor
<1>10. SourceMeaning(text, disk, Top.from, m - k) # Endless
  BY <1>2, <1>7
<1> HIDE DEF c, HasEnd, L, T
<1>11. m - k # 0 /\ SourceMeaning(text, disk, c, (m - k) - 1) # Endless
  <2>1. StandsAt(text, disk, LevelsLeft(L), Top, done, c)
    BY <1>8, <1>9 DEF StandsAt, ClosesCycle, L, c
  <2> QED
    BY <1>7, <1>10, <2>1, Descends
<1>12. (m - k) - 1 \in Nat /\ (m - k) - 1 < m
  BY <1>2, <1>6, <1>7, <1>11
<1>13. (m - k) - 1 \in T
  BY <1>11, <1>12 DEF T
<1> QED
  BY <1>1, <1>2, <1>12, <1>13

LEMMA CircularUnfolds ==
    ASSUME IInv, MInv, Ends, PackagesFixed, outcome = "circular", NEW n \in Nat
    PROVE  Unfolded(n) = Endless
<1>1. PICK q, done : ClosesCycle(q, done)
  BY Cycle DEF Ends
<1>2. q \in 1..(Len(frames) - 1) /\ Len(frames) \in Nat
  BY <1>1, Frames DEF ClosesCycle
<1> DEFINE NoEnd(i) == \A k \in Nat : SourceMeaning(text, disk, frames[i].from, k) = Endless
           G == {k \in Nat : k <= q => NoEnd(q + 1 - k)}
<1>3. 0 \in G
  <2>1. NoEnd(q + 1)
    BY <1>1, CycleHasNoEnd
  <2>2. q + 1 - 0 = q + 1
    BY <1>2
  <2> HIDE DEF NoEnd
  <2> QED
    BY <2>1, <2>2
<1>4. ASSUME NEW k \in Nat, k \in G PROVE k + 1 \in G
  <2> SUFFICES ASSUME k + 1 <= q PROVE NoEnd(q + 1 - (k + 1))
    OBVIOUS
  <2>1. k <= q /\ q - k \in 1..(Len(frames) - 1)
    BY <1>2
  <2>2. q + 1 - (k + 1) = q - k /\ q + 1 - k = (q - k) + 1
    BY <1>2
  <2>3. NoEnd((q - k) + 1)
    <3> HIDE DEF NoEnd
    <3> QED
      BY <1>4, <2>1, <2>2
  <2>4. NoEnd(q - k)
    <3> SUFFICES ASSUME NEW m \in Nat, SourceMeaning(text, disk, frames[q - k].from, m) # Endless
                 PROVE  FALSE
      OBVIOUS
    <3>1. m # 0 /\ SourceMeaning(text, disk, frames[(q - k) + 1].from, m - 1) # Endless
      BY <2>1, OneDeeper
    <3>2. m - 1 \in Nat
      BY <3>1
    <3> QED
      BY <2>3, <3>1, <3>2
  <2> HIDE DEF NoEnd
  <2> QED
    BY <2>2, <2>4
<1> HIDE DEF G
<1>5. \A k \in Nat : k \in G
  BY <1>3, <1>4, SetInduction
<1>6. q \in Nat /\ q <= q /\ q + 1 - q = 1
  BY <1>2
<1>7. NoEnd(1)
  <2>1. q <= q => NoEnd(q + 1 - q)
    BY <1>5, <1>6 DEF G
  <2> HIDE DEF NoEnd
  <2> QED
    BY <1>6, <2>1
<1>8. frames[1].from = Root
  BY DEF MInv
<1> QED
  BY <1>7, <1>8, TextIsDocument DEF SourceMeaning

(* What is rejected as circular has no end at any number of levels: no     *)
(* document that can be inlined is rejected because files it includes      *)
(* repeat.                                                                 *)
THEOREM CyclesHaveNoEnd ==
    ASSUME PackagesFixed
    PROVE  Spec => [](outcome = "circular" => \A n \in Nat : Unfolded(n) = Endless)
<1>1. IInv /\ MInv /\ Ends => (outcome = "circular" => \A n \in Nat : Unfolded(n) = Endless)
  BY CircularUnfolds
<1> QED
  BY <1>1, EndsInvariant, PTL

(* The same at the number of levels at which the runs check it.            *)
THEOREM CircularIsEndless ==
    ASSUME PackagesFixed, IsFiniteSet(Keys)
    PROVE  Spec => []CircularMeansEndless
<1>1. Cardinality(Keys) + 1 \in Nat
  BY FS_CardinalityType
<1>2. IInv /\ MInv /\ Ends => CircularMeansEndless
  BY <1>1, CircularUnfolds DEF CircularMeansEndless
<1> QED
  BY <1>2, EndsInvariant, PTL

(* Loading is inlining: whatever the files are and whatever they contain,  *)
(* it ends in the tree that inlining gives, in the first exception on the  *)
(* way, or in the rejection of a document that has no end.                 *)
THEOREM LoadingIsInlining ==
    ASSUME PackagesFixed
    PROVE  Spec => []LoadsAsInlined
<1>1. ASSUME IInv, MInv, Ends, outcome # "running"
      PROVE  \/ outcome = "loaded" /\ Unfolded(MaxDepth) = Good(frames[1].obj)
             \/ outcome \in {"circular", "too deep"} /\ Unfolded(MaxDepth) = Endless
             \/ outcome \notin {"loaded", "circular", "too deep"}
                /\ Unfolded(MaxDepth) = Wrong(outcome)
  <2> DEFINE n == LevelsLeft(Len(frames))
  <2>1. /\ Top \in Frame /\ n \in Nat /\ AtStatement(text, disk, n, Top)
        /\ text \in Seq(Statement) /\ disk \in [Files -> Content]
        /\ Top = frames[Len(frames)] /\ outcome \in Outcomes
    BY <1>1, TopMeaning, Frames DEF IInv, TypeOK
  <2>2. CASE outcome = "loaded"
    <3>1. Len(frames) = 1 /\ Top.todo = <<>> /\ Top.from = Root
      BY <1>1, <2>1, <2>2 DEF Ends, MInv
    <3>2. n = MaxDepth
      BY <3>1, MaxDepthAssumption DEF LevelsLeft
    <3>3. SourceMeaning(text, disk, Root, MaxDepth) = Good(Top.obj)
      BY <2>1, <3>1, <3>2, SourceDone
    <3>4. Unfolded(MaxDepth) = Good(Top.obj)
      BY <3>3, MaxDepthAssumption, TextIsDocument DEF SourceMeaning
    <3> QED
      BY <2>1, <2>2, <3>1, <3>4
  <2>3. CASE outcome = "circular"
    BY <1>1, <2>3, CircularUnfolds, MaxDepthAssumption
  <2>4. CASE outcome \notin {"running", "loaded", "circular"}
    <3> DEFINE r == IF outcome = "too deep" THEN Endless ELSE Wrong(outcome)
    <3>1. Top.todo # <<>> /\ HeadMeaning(disk, n, Top) = r
      BY <1>1, <2>4 DEF Ends
    <3>2. ~IsGood(r)
      BY <2>1, <2>4, WrongType, EndlessIsWrong DEF Whys
    <3> HIDE DEF r, n
    <3>3. SourceMeaning(text, disk, Top.from, n) = r
      BY <2>1, <3>1, <3>2, StatementFails
    <3>4. Unfolded(MaxDepth) = r
      BY <1>1, <3>2, <3>3, Outwards DEF n
    <3> QED
      BY <2>4, <3>4 DEF r
  <2> QED
    BY <1>1, <2>2, <2>3, <2>4
<1>2. IInv /\ MInv /\ Ends => LoadsAsInlined
  BY <1>1 DEF LoadsAsInlined
<1> QED
  BY <1>2, EndsInvariant, PTL

(* Every key on an include stack names a file that is there.               *)
LEMMA KeysAreThere ==
    ASSUME IInv, MInv, NEW q \in 1..Len(Top.stack)
    PROVE  Top.stack[q] \in KeysThere
<1>1. q \in 1..(Len(frames) - 1) /\ Top.stack[q] = KeyAt(frames[q], frames[q + 1].from)
  BY StackEntry
<1> DEFINE f == frames[q]
           c == frames[q + 1].from
           done == Tried(disk, f) - 1
<1>2. /\ f \in Frame /\ Head(f.todo) \in Statement /\ c \in Files /\ Exists(disk, c)
      /\ f.dir \in Dirs
      /\ LevelsLeft(q) \in Nat \ {0} /\ AtFile(disk, LevelsLeft(q), f, done)
      /\ done \in Int /\ done < Len(FilesAt(disk, f)) /\ c = FilesAt(disk, f)[done + 1]
      /\ disk \in [Files -> Content]
  BY <1>1, WaitedFor, FrameParts, Frames
<1> HIDE DEF f, c, done
<1>3. CASE Head(f.todo).how # "package"
  BY <1>1, <1>2, <1>3 DEF KeyAt, KeysThere, Exists, f, c
<1>4. CASE Head(f.todo).how = "package"
  <2> DEFINE p == Head(f.todo).target
  <2>1. p \in Packages /\ FilesAt(disk, f) = PackageFiles(disk, f.dir, p)
    BY <1>2, <1>4, StatementParts DEF FilesAt, Named
  <2>2. FilesAt(disk, f) # <<>>
    BY <1>2 DEF AtFile
  <2>3. PICK base \in Dirs : Exists(disk, PackageFile[base][p])
    BY <1>2, <2>1, <2>2, PackageFilesType
  <2>4. p \in KeysThere
    BY <2>1, <2>3 DEF KeysThere, Exists
  <2> QED
    BY <1>1, <1>4, <2>4 DEF KeyAt, f, c
<1> QED
  BY <1>3, <1>4

(* With more room on the include stack than there are files and packages   *)
(* that exist, the depth limit is never met.                               *)
THEOREM DepthErrorsNeedFiles ==
    ASSUME IsFiniteSet(Keys)
    PROVE  Spec => []TooDeepNeedsFiles
<1>1. ASSUME IInv, MInv, RefusedAtLimit, outcome = "too deep"
      PROVE  MaxDepth <= Cardinality(KeysThere)
  <2> DEFINE n == Len(Top.stack)
             at == [i \in 1..n |-> Top.stack[i]]
  <2>1. n \in Nat /\ n = Len(frames) - 1 /\ Len(frames) \in Nat \ {0} /\ Top = frames[Len(frames)]
    <3>0. Len(frames) \in Nat \ {0} /\ Top = frames[Len(frames)]
      BY <1>1, Frames
    <3>1. Len(frames) \in Nat \ {0} /\ Top = frames[Len(frames)] /\ Len(frames) \in 1..Len(frames)
      BY <3>0
    <3>2. Len(Top.stack) = Len(frames) - 1
      BY <1>1, <3>1, Frames
    <3> QED
      BY <3>1, <3>2
  <2>2. MaxDepth <= n
    <3>1. n >= MaxDepth
      BY <1>1 DEF RefusedAtLimit
    <3> HIDE DEF n
    <3> QED
      BY <2>1, <3>1, MaxDepthAssumption
  <2>3. \A j, k \in 1..n : Top.stack[j] = Top.stack[k] => j = k
    <3>1. Len(Stacks) = Len(frames) /\ Stacks[Len(frames)] = Top.stack
      BY <2>1 DEF Stacks
    <3>2. Len(frames) \in 1..Len(Stacks)
      BY <2>1, <3>1
    <3>3. \A j, k \in 1..(Len(frames) - 1) : Top.stack[j] = Top.stack[k] => j = k
      <4>1. Chained(Stacks)
        BY <1>1 DEF IInv, ChainsKnown
      <4> QED
        BY <3>1, <3>2, <4>1, SMTT(40) DEF Chained
    <3> QED
      BY <2>1, <3>3
  <2>4. at \in [1..n -> KeysThere]
    BY <1>1, KeysAreThere
  <2>5. IsFiniteSet(KeysThere) /\ Cardinality(KeysThere) \in Nat
    <3>1. KeysThere \subseteq Keys
      BY DEF KeysThere, Keys
    <3> QED
      BY <3>1, FS_Subset, FS_CardinalityType
  <2>6. IsFiniteSet(1..n) /\ Cardinality(1..n) = n
    <3> HIDE DEF n
    <3>1. n \in Nat
      BY <2>1
    <3> QED
      BY <3>1, FS_Interval
  <2>7. ~(Cardinality(KeysThere) < Cardinality(1..n))
    <3>1. ASSUME Cardinality(KeysThere) < Cardinality(1..n)
          PROVE  \E x, y \in 1..n : x # y /\ at[x] = at[y]
      <4> HIDE DEF at
      <4> QED
        BY <2>4, <2>5, <2>6, <3>1, FS_PigeonHole
    <3> QED
      BY <2>3, <3>1
  <2> HIDE DEF n
  <2> QED
    BY <2>1, <2>2, <2>5, <2>6, <2>7, MaxDepthAssumption
<1>2. IInv /\ MInv /\ RefusedAtLimit => TooDeepNeedsFiles
  BY <1>1 DEF TooDeepNeedsFiles
<1> QED
  BY <1>2, MeaningInvariant, RefusedAtLimitInvariant, PTL
=============================================================================
