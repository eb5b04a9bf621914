---------------------------- MODULE IncludeMeaning ----------------------------
(***************************************************************************)
(* What a document with includes means, stated without frames, an include  *)
(* stack or a cycle check: every directive is replaced by what the files   *)
(* mean that it names, down to a given number of levels.  A document whose *)
(* inlining has no end is Endless at every number of levels.               *)
(*                                                                         *)
(* A meaning is a record: entries has the assignments in the order they    *)
(* are applied, why is "loaded" or the first exception on the way.         *)
(***************************************************************************)
EXTENDS IncludeLoader

Whys == Outcomes \cup {"endless"}
Result == [entries : Seq(Entry), why : Whys]

Good(entries) == [entries |-> entries, why |-> "loaded"]
Wrong(why) == [entries |-> <<>>, why |-> why]
Endless == Wrong("endless")   \* there are directives below the given levels

IsGood(r) == r.why = "loaded"

(* First the one, then the other: an exception ends it.                    *)
Then(r, next) ==
    IF ~IsGood(r) THEN r ELSE IF IsGood(next) THEN Good(r.entries \o next.entries) ELSE next

(* The first n results, one after the other.                               *)
InOrder(results, n) ==
    LET upTo[i \in 0..n] == IF i = 0 THEN Good(<<>>) ELSE Then(upTo[i - 1], results[i])
    IN  upTo[n]
-----------------------------------------------------------------------------
(* In the operators below, d is the disk.                                  *)

Exists(d, f) == d[f].kind # "missing"

(* The files that a directive in a file of directory dir names.            *)
PackageFiles(d, dir, package) ==
    LET bases == IF ResolveFrom = <<>> THEN <<dir>> ELSE ResolveFrom
        there == {i \in 1..Len(bases) : Exists(d, PackageFile[bases[i]][package])}
        first == CHOOSE i \in there : \A j \in there : i <= j
    IN  IF there = {} THEN <<>> ELSE <<PackageFile[bases[first]][package]>>

PathFiles(dir, path) ==
    LET abs == Joined[dir][path]
    IN  IF abs \in Files
        THEN <<abs>>
        ELSE <<WithExtension[abs][".properties"], WithExtension[abs][".json"],
               WithExtension[abs][".conf"]>>

Named(d, s, dir) ==
    IF s.how = "package" THEN PackageFiles(d, dir, s.target)
                         ELSE PathFiles(IF s.how = "file" THEN Cwd ELSE dir, s.target)

(* The meaning of a file, a statement and a document, where level has the  *)
(* meanings of the files one level below and n is the number of levels.    *)
FileMeaning(d, f, level) ==
    IF d[f].kind = "object" THEN level[f]
    ELSE IF Exists(d, f) THEN Wrong(d[f].kind)
    ELSE Good(<<>>)

Included(d, files, level) ==
    InOrder([i \in 1..Len(files) |-> FileMeaning(d, files[i], level)], Len(files))

Placed(s, r) == IF IsGood(r) THEN Good(Under(s.at, r.entries)) ELSE r

DirectiveMeaning(d, s, files, level) ==
    IF \E i \in 1..Len(files) : Exists(d, files[i]) THEN Placed(s, Included(d, files, level))
    ELSE IF s.how = "package" THEN Wrong("package not found")
    ELSE IF s.required THEN Wrong("required not found")
    ELSE Good(<<>>)

Meaning(d, s, from, dir, n, level) ==
    IF s.how = "set" THEN Good(<<[path |-> Append(s.at, s.target), from |-> from]>>)
    ELSE IF n = 0 THEN Endless
    ELSE DirectiveMeaning(d, s, Named(d, s, dir), level)

DocumentMeaning(d, items, from, dir, n, level) ==
    InOrder([i \in 1..Len(items) |-> Meaning(d, items[i], from, dir, n, level)], Len(items))

(* What every file means with n levels below it.                           *)
Levels(d) ==
    LET at[n \in Nat] ==
            LET level == IF n = 0 THEN <<>> ELSE at[n - 1]
            IN  [f \in Files |-> DocumentMeaning(d, d[f].items, f, DirOf[f], n, level)]
    IN  at

Unfolded(n) ==
    DocumentMeaning(disk, text, Root, BaseDir, n, IF n = 0 THEN <<>> ELSE Levels(disk)[n - 1])
-----------------------------------------------------------------------------
(* Loading ends in the tree that inlining every file in document order     *)
(* gives, each directive resolved against the directory of its own file;   *)
(* in the first exception on that way; or, when there is no end within     *)
(* MaxDepth levels, in the rejection of the cycle or of the depth.  An     *)
(* optional file that is missing is skipped, no other failure is           *)
(* (spec-compliance.md S14d, S14e, S14f).                                  *)
LoadsAsInlined ==
    outcome # "running" =>
        \/ outcome = "loaded" /\ Unfolded(MaxDepth) = Good(frames[1].obj)
        \/ outcome \in {"circular", "too deep"} /\ Unfolded(MaxDepth) = Endless
        \/ outcome \notin {"loaded", "circular", "too deep"}
           /\ Unfolded(MaxDepth) = Wrong(outcome)

(* What is rejected as circular has no end: a file that is included twice, *)
(* by siblings or through different files, is not a cycle.  (Packages are  *)
(* looked for in fixed directories here.)                                  *)
CircularMeansEndless ==
    outcome = "circular" => Unfolded(Cardinality(Keys) + 1) = Endless

(* Loading ends, also when files include each other.                       *)
Terminates == <>(outcome # "running")
=============================================================================
