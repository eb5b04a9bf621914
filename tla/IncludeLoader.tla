---------------------------- MODULE IncludeLoader ----------------------------
(***************************************************************************)
(* Loading a document and the files it includes                            *)
(* (_internal/resolver/include_loader.py, and the include branch of        *)
(* structure_builder.py).  StructureBuilder.build and IncludeLoader.load   *)
(* call each other; the model keeps their call stack in frames, one record *)
(* for each build that is under way:                                       *)
(*   from    the file it reads (Root: the text handed to parse)            *)
(*   dir     opts.base_dir                                                 *)
(*   stack   opts.include_stack                                            *)
(*   todo    the statements that are left                                  *)
(*   obj     the tree built so far, as the sequence of assignments applied *)
(*           (merging a tree into another is applying its assignments,     *)
(*           which module ResolverProperties checks as IncludeIsInlining)  *)
(*   mode    "apply", or "probe" inside a call of load or load_package for *)
(*           the directive at the head of todo, with                       *)
(*   probes  the candidates that are left to try                           *)
(*   merged, found   the locals merged and found_any                       *)
(* The files do not change while a document is loaded.                     *)
(*                                                                         *)
(* An operator whose name has a suffix and which stands just before the    *)
(* operator of the plain name (OnStackNever, OnStack) is the same with     *)
(* a mistake in it, to see that the properties notice; nothing uses it.    *)
(***************************************************************************)
EXTENDS Integers, Sequences, FiniteSets

CONSTANTS
    Names,           \* keys of objects
    Files,           \* absolute paths that are read: they have an extension
    Bare,            \* absolute paths without one
    Paths,           \* what a path directive names
    Packages,        \* what a package directive names: (identifier, file)
    Dirs,
    Root,            \* the source that is not a file
    Joined,          \* os.path.abspath(os.path.join(dir, path))
    WithExtension,   \* abs_path + ext
    DirOf,           \* os.path.dirname
    PackageFile,     \* os.path.join(base, identifier, file)
    PropertiesFiles, \* the files that end in .properties
    Cwd,             \* the working directory
    BaseDir,         \* the caller's base_dir, Cwd if there is none
    ResolveFrom,     \* the caller's resolve_from, <<>> if there is none
    Texts,           \* the statements that the text handed to parse may have
    Disks,           \* what the files may contain
    MaxDepth         \* 50

Extensions == <<".properties", ".json", ".conf">>
Keys == Files \cup Packages    \* the members of include_stack

Assignment == [how : {"set"}, at : Seq(Names), target : Names, required : {FALSE}]
PathInclude == [how : {"relative", "file"}, at : Seq(Names), target : Paths, required : BOOLEAN]
PackageInclude == [how : {"package"}, at : Seq(Names), target : Packages, required : BOOLEAN]
Statement == Assignment \cup PathInclude \cup PackageInclude
Content == [kind : {"object", "missing", "unreadable", "rejected"}, items : Seq(Statement)]
Entry == [path : Seq(Names), from : Files \cup {Root}]

ASSUME NamingAssumption ==
    /\ Root \notin Files
    /\ Files \cap Packages = {} /\ Files \cap Bare = {} /\ Packages \cap Bare = {}
    /\ Joined \in [Dirs -> [Paths -> Files \cup Bare]]
    /\ WithExtension \in [Bare -> [{Extensions[i] : i \in 1..3} -> Files]]
    /\ DirOf \in [Files -> Dirs]
    /\ PackageFile \in [Dirs -> [Packages -> Files]]
    /\ PropertiesFiles \subseteq Files
    /\ Cwd \in Dirs /\ BaseDir \in Dirs /\ ResolveFrom \in Seq(Dirs)
ASSUME ContentAssumption ==
    /\ Texts \subseteq Seq(Statement)
    /\ Disks \subseteq [Files -> Content]
    /\ \A d \in Disks, f \in PropertiesFiles :
           \A i \in 1..Len(d[f].items) : d[f].items[i].how = "set"
ASSUME MaxDepthAssumption == MaxDepth \in Nat \ {0}

VARIABLES
    text,     \* the text handed to parse
    disk,     \* what each file contains
    frames,   \* the builds under way, the innermost last
    outcome   \* "running", "loaded" or the exception

vars == <<text, disk, frames, outcome>>

Frame == [from : Files \cup {Root}, dir : Dirs, stack : Seq(Keys),
          todo : Seq(Statement), obj : Seq(Entry), mode : {"apply", "probe"},
          probes : Seq(Files), merged : Seq(Entry), found : BOOLEAN]
Outcomes == {"running", "loaded", "circular", "too deep", "required not found",
             "package not found", "unreadable", "rejected"}
-----------------------------------------------------------------------------
Top == frames[Len(frames)]
Item == Head(Top.todo)
WithTop(f) == [frames EXCEPT ![Len(frames)] = f]

OnStackNever(frame, key) == FALSE
OnStack(frame, key) == \E i \in 1..Len(frame.stack) : frame.stack[i] = key

NewFrame(from, dir, stack, items) ==
    [from |-> from, dir |-> dir, stack |-> stack, todo |-> items, obj |-> <<>>,
     mode |-> "apply", probes |-> <<>>, merged |-> <<>>, found |-> FALSE]

(* The files that load tries for a path, in order.                         *)
CandidatesConfFirst(abs) ==
    IF abs \in Files THEN <<abs>> ELSE [i \in 1..3 |-> WithExtension[abs][Extensions[4 - i]]]
Candidates(abs) ==
    IF abs \in Files THEN <<abs>> ELSE [i \in 1..3 |-> WithExtension[abs][Extensions[i]]]

(* The assignments of a tree that is placed under a path.                  *)
Under(at, entries) == [i \in DOMAIN entries |-> [entries[i] EXCEPT !.path = at \o @]]

(* The caller waits while the file c is built in a frame of its own.       *)
CalledSharingStack(key, c) ==
    LET longer == Append(Top.stack, key)
    IN  Append(WithTop([Top EXCEPT !.probes = Tail(@), !.stack = longer]),
               NewFrame(c, DirOf[c], longer, disk[c].items))
CalledInSameDir(key, c) ==
    Append(WithTop([Top EXCEPT !.probes = Tail(@)]),
           NewFrame(c, Top.dir, Append(Top.stack, key), disk[c].items))
Called(key, c) ==
    Append(WithTop([Top EXCEPT !.probes = Tail(@)]),
           NewFrame(c, DirOf[c], Append(Top.stack, key), disk[c].items))
-----------------------------------------------------------------------------
Init ==
    /\ text \in Texts
    /\ disk \in Disks
    /\ frames = <<NewFrame(Root, BaseDir, <<>>, text)>>
    /\ outcome = "running"

Fail(why) == outcome' = why /\ UNCHANGED <<text, disk, frames>>
Step(newFrames) == frames' = newFrames /\ UNCHANGED <<text, disk, outcome>>

Applying == outcome = "running" /\ Top.mode = "apply" /\ Top.todo # <<>>
Probing  == outcome = "running" /\ Top.mode = "probe"

Assign ==
    /\ Applying /\ Item.how = "set"
    /\ Step(WithTop([Top EXCEPT
           !.todo = Tail(@),
           !.obj = Append(@, [path |-> Append(Item.at, Item.target), from |-> Top.from])]))

(* The body of load and of load_package up to the first read.              *)
Enter(key, candidates) ==
    IF OnStack(Top, key)
    THEN Fail("circular")
    ELSE IF Len(Top.stack) >= MaxDepth
    THEN Fail("too deep")
    ELSE IF candidates = <<>>
    THEN Fail("package not found")
    ELSE Step(WithTop([Top EXCEPT !.mode = "probe", !.probes = candidates,
                                  !.merged = <<>>, !.found = FALSE]))

Load ==
    /\ Applying /\ Item.how \in {"relative", "file"}
    /\ LET abs == Joined[IF Item.how = "file" THEN Cwd ELSE Top.dir][Item.target]
       IN  Enter(abs, Candidates(abs))

(* _default_package_resolver: the first base that has the file.            *)
Bases == IF ResolveFrom # <<>> THEN ResolveFrom ELSE <<Top.dir>>
Hits == {i \in 1..Len(Bases) : disk[PackageFile[Bases[i]][Item.target]].kind # "missing"}

LoadPackage ==
    /\ Applying /\ Item.how = "package"
    /\ \/ Hits = {} /\ Enter(Item.target, <<>>)
       \/ \E i \in Hits :
              /\ \A j \in Hits : i <= j
              /\ Enter(Item.target, <<PackageFile[Bases[i]][Item.target]>>)

(* The entry added to the include stack for the file c.                    *)
KeyOf(c) == IF Item.how = "package" THEN Item.target ELSE c

(* _load_single, for the next candidate.                                   *)
ReadCircular ==
    /\ Probing /\ Top.probes # <<>>
    /\ OnStack(Top, KeyOf(Head(Top.probes)))
    /\ Fail("circular")

Read(kind) ==
    /\ Probing /\ Top.probes # <<>>
    /\ ~OnStack(Top, KeyOf(Head(Top.probes)))
    /\ disk[Head(Top.probes)].kind = kind

AfterMissingRetry(f) == f
AfterMissing(f) == [f EXCEPT !.probes = Tail(@)]
ReadMissing == Read("missing") /\ Step(WithTop(AfterMissing(Top)))

ReadFails == \E kind \in {"unreadable", "rejected"} : Read(kind) /\ Fail(kind)

(* A .properties file has assignments only.                                *)
Entries(file, items) ==
    [i \in 1..Len(items) |-> [path |-> Append(items[i].at, items[i].target), from |-> file]]

ReadProperties ==
    LET c == Head(Top.probes)
    IN  /\ Read("object") /\ c \in PropertiesFiles /\ Item.how # "package"
        /\ Step(WithTop([Top EXCEPT !.probes = Tail(@), !.found = TRUE,
                             !.merged = @ \o Entries(c, disk[c].items)]))

ReadDocument ==
    LET c == Head(Top.probes)
    IN  /\ Read("object") /\ (c \notin PropertiesFiles \/ Item.how = "package")
        /\ Step(Called(KeyOf(c), c))

(* Every candidate was tried: the result is merged into the including      *)
(* object, under the path the directive stands at.                         *)
Include ==
    /\ Probing /\ Top.probes = <<>>
    /\ IF Item.required /\ ~Top.found
       THEN Fail("required not found")
       ELSE Step(WithTop([Top EXCEPT !.mode = "apply", !.todo = Tail(@),
                                     !.obj = @ \o Under(Item.at, Top.merged)]))

(* A build of an included file ends: its tree goes to the caller.          *)
Return ==
    /\ outcome = "running" /\ Len(frames) > 1 /\ Top.mode = "apply" /\ Top.todo = <<>>
    /\ LET caller == frames[Len(frames) - 1]
       IN  Step([i \in 1..(Len(frames) - 1) |->
                    IF i < Len(frames) - 1
                    THEN frames[i]
                    ELSE [caller EXCEPT !.merged = @ \o Top.obj, !.found = TRUE]])

Finish ==
    /\ outcome = "running" /\ Len(frames) = 1 /\ Top.mode = "apply" /\ Top.todo = <<>>
    /\ outcome' = "loaded"
    /\ UNCHANGED <<text, disk, frames>>

Next ==
    \/ Assign \/ Load \/ LoadPackage
    \/ ReadCircular \/ ReadMissing \/ ReadFails \/ ReadProperties \/ ReadDocument
    \/ Include \/ Return \/ Finish

Spec == Init /\ [][Next]_vars

(* The loader is a single thread that runs on until it returns or raises.  *)
FairSpec == Spec /\ WF_vars(Next)
-----------------------------------------------------------------------------
(* Every frame is a build of the code: its bookkeeping has the types its   *)
(* fields have there.                                                      *)
TypeOK ==
    /\ text \in Texts /\ disk \in Disks
    /\ frames \in Seq(Frame) \ {<<>>}
    /\ outcome \in Outcomes

Chained(stacks) ==
    \A i \in 1..Len(stacks) :
        /\ Len(stacks[i]) = i - 1 /\ i - 1 <= MaxDepth
        /\ \A j, k \in 1..(i - 1) : stacks[i][j] = stacks[i][k] => j = k
        /\ \A j \in 1..i : \A k \in 1..(j - 1) : stacks[j][k] = stacks[i][k]

Stacks == [i \in 1..Len(frames) |-> frames[i].stack]

(* Every build knows exactly the files whose builds are waiting for it, no *)
(* file twice and at most MaxDepth of them: siblings do not see each       *)
(* other's files, and a caller gets its own list back (include_loader.py   *)
(* hands [*include_stack, key] down and never changes a list).             *)
ChainsKnown == Chained(Stacks)

KeysThere ==
    {f \in Files : disk[f].kind # "missing"} \cup
    {p \in Packages : \E base \in Dirs : disk[PackageFile[base][p]].kind # "missing"}

(* The depth limit is met only where that many different files are there.  *)
(* Where there are fewer, every circle is reported as circular and never   *)
(* as depth; a longer chain or circle may meet the limit first.            *)
TooDeepNeedsFiles == outcome = "too deep" => MaxDepth <= Cardinality(KeysThere)
=============================================================================
