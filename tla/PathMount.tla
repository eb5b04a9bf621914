------------------------------ MODULE PathMount ------------------------------
(***************************************************************************)
(* Names that map to paths, mounted as a tree: environment variables and   *)
(* .env files (adapters/env.py) and .properties files                      *)
(* (_internal/properties/properties.py).  The entries are read one by one, *)
(* filtered and checked, then sorted, then inserted into nested            *)
(* dictionaries one segment at a time.                                     *)
(*                                                                         *)
(* An entry is a variable, a line or a key/value pair:                     *)
(*   own     its name starts with the prefix                               *)
(*   flaw    "line": refused before the prefix is looked at (a .env line   *)
(*           that is not NAME=value, a malformed escape in a key);         *)
(*           "entry": refused after (a name or value that is not UTF-8, a  *)
(*           value that is not a string, an ambiguous .env value, a        *)
(*           malformed escape in a value); "none"                          *)
(*   path    the segments of the name, folded to lower case                *)
(*   value                                                                 *)
(* A segment is a natural number, 0 the empty segment; their order is that *)
(* of the strings.  A tree of dictionaries is a function from paths to     *)
(* values, or Dict where there is a dictionary (see PathStore).            *)
(*                                                                         *)
(* An operator whose name has a suffix and which stands just before the    *)
(* operator of the plain name is the same with a mistake in it, to see     *)
(* that the properties notice; nothing uses it.                            *)
(***************************************************************************)
EXTENDS PathTree, FiniteSets

CONSTANTS MaxSegments,  \* MAX_PATH_SEGMENTS
          Inputs        \* pairs of an adapter and the entries it is given

Adapters == {"env", "dotenv", "properties"}
Empty == 0
Entry == [own : BOOLEAN, flaw : {"none", "line", "entry"},
          path : Paths, value : Values]

ASSUME MaxSegmentsAssumption == MaxSegments \in Nat \ {0}
ASSUME InputsAssumption ==
    \A i \in Inputs : i[1] \in Adapters /\ i[2] \in Seq(Entry)

VARIABLES
    adapter,  \* the function that was called
    input,    \* and the entries it was given
    next,     \* the index of the first entry not looked at yet
    pairs,    \* the indices of the entries that passed every check
    left,     \* those of them that are not inserted yet
    entry,    \* the one being inserted, 0 between two of them
    depth,    \* how many segments of its path have been descended
    root,     \* the tree
    phase     \* "reading", "nesting", "mounted" or "failed"
vars == <<adapter, input, next, pairs, left, entry, depth, root, phase>>

Init ==
    /\ \E i \in Inputs : adapter = i[1] /\ input = i[2]
    /\ next = 1 /\ pairs = {} /\ left = {}
    /\ entry = 0 /\ depth = 0
    /\ root = <<>>
    /\ phase = "reading"
-----------------------------------------------------------------------------
(* Reading.                                                                *)

EmptySegment(e) == \E i \in 1..Len(e.path) : e.path[i] = Empty

TooDeep(e) == Len(e.path) > MaxSegments

(* Two variables whose names differ in case only: neither wins.            *)
Collides(e) == \E i \in pairs : input[i].path = e.path

(* continue: the prefix filter, and a .properties key that is empty.       *)
SkippedLate(e) == FALSE
Skipped(e) ==
    /\ e.flaw # "line"
    /\ IF adapter = "properties" THEN e.path = <<Empty>> ELSE ~e.own

Refused(e) ==
    \/ e.flaw = "line"
    \/ /\ ~Skipped(e)
       /\ \/ e.flaw = "entry"
          \/ adapter # "properties" /\ EmptySegment(e)
          \/ TooDeep(e)
          \/ adapter = "env" /\ Collides(e)

Read(Check(_)) ==
    /\ phase = "reading" /\ next <= Len(input)
    /\ Check(input[next])
    /\ next' = next + 1
    /\ UNCHANGED <<adapter, input, entry, depth, root>>

Skip == Read(Skipped) /\ UNCHANGED <<pairs, left, phase>>

Refuse == Read(Refused) /\ phase' = "failed" /\ UNCHANGED <<pairs, left>>

Take ==
    /\ Read(LAMBDA e : ~Skipped(e) /\ ~Refused(e))
    /\ pairs' = pairs \cup {next} /\ left' = left \cup {next}
    /\ UNCHANGED phase

EndReading ==
    /\ phase = "reading" /\ next > Len(input)
    /\ phase' = "nesting"
    /\ UNCHANGED <<adapter, input, next, pairs, left, entry, depth, root>>
-----------------------------------------------------------------------------
(* Nesting: _nest and _set_nested.                                         *)

PathLess(p, q) ==
    \E n \in 0..Len(p) :
        /\ n < Len(q) /\ SubSeq(p, 1, n) = SubSeq(q, 1, n)
        /\ n < Len(p) => p[n + 1] < q[n + 1]

(* The sort is by path only and stable: entries of one path keep their     *)
(* order.  (A .properties file is sorted by the dotted text of the key,    *)
(* which orders distinct paths differently: nothing here or in the proofs  *)
(* depends on their order.)                                                *)
PrecedesBackwards(i, j) ==
    \/ PathLess(input[i].path, input[j].path)
    \/ input[i].path = input[j].path /\ j < i
Precedes(i, j) ==
    \/ PathLess(input[i].path, input[j].path)
    \/ input[i].path = input[j].path /\ i < j

Start(i) ==
    /\ phase = "nesting" /\ entry = 0 /\ i \in left
    /\ \A j \in left \ {i} : Precedes(i, j)
    /\ entry' = i
    /\ UNCHANGED <<adapter, input, next, pairs, left, depth, root, phase>>

Target == input[entry].path
IsDict(p) == p \in DOMAIN root /\ root[p] = Dict

(* A value that stands where a dictionary is needed is replaced by {}.     *)
DescendIntoAny(p) == IF p \in DOMAIN root THEN root ELSE Put(root, p, Dict)
DescendInto(p) == IF IsDict(p) THEN root ELSE Put(root, p, Dict)

Descend ==
    /\ phase = "nesting" /\ entry # 0
    /\ depth < Len(Target) - 1
    /\ root' = DescendInto(SubSeq(Target, 1, depth + 1))
    /\ depth' = depth + 1
    /\ UNCHANGED <<adapter, input, next, pairs, left, entry, phase>>

(* An object that stands at the path already is kept.                      *)
Assigned(p, v) == IF IsDict(p) THEN root ELSE Put(root, p, v)

Assign ==
    /\ phase = "nesting" /\ entry # 0
    /\ depth = Len(Target) - 1
    /\ root' = Assigned(Target, input[entry].value)
    /\ left' = left \ {entry}
    /\ entry' = 0 /\ depth' = 0
    /\ UNCHANGED <<adapter, input, next, pairs, phase>>

Finish ==
    /\ phase = "nesting" /\ entry = 0 /\ left = {}
    /\ phase' = "mounted"
    /\ UNCHANGED <<adapter, input, next, pairs, left, entry, depth, root>>

Next ==
    \/ Skip \/ Refuse \/ Take \/ EndReading
    \/ \E i \in left : Start(i)
    \/ Descend \/ Assign \/ Finish

Spec == Init /\ [][Next]_vars
-----------------------------------------------------------------------------
(* Properties.                                                             *)

TypeOK ==
    /\ adapter \in Adapters
    /\ input \in Seq(Entry) /\ next \in 1..Len(input) + 1
    /\ pairs \subseteq 1..next - 1 /\ left \subseteq pairs
    /\ entry \in {0} \cup left /\ depth \in Nat
    /\ phase \in {"reading", "nesting", "mounted", "failed"}
    /\ DOMAIN root \subseteq Seq(Nat) \ {<<>>}
    /\ \A p \in DOMAIN root : root[p] \in Values \cup {Dict}

(* The values that some of the entries es mount: the last one of each path. *)
LastAt(es, p, indices) ==
    CHOOSE i \in indices : es[i].path = p /\ \A j \in indices :
                               es[j].path = p => j <= i
LastMounted(es, indices) ==
    [p \in {es[i].path : i \in indices} |-> es[LastAt(es, p, indices)].value]

Store == INSTANCE PathStore WITH
    last <- LastMounted(input, pairs \ left),
    view <- IF entry = 0 THEN root ELSE ViewOf(LastMounted(input, pairs \ left))

(* Inserting an entry segment by segment is mounting it at once, whatever  *)
(* order the sort chose: the dictionaries that the descent makes are those *)
(* of the object, a value in its way gives way, an object is not replaced. *)
InsertsAreMounts == Store!Spec

(* Which entries the caller asked for, and which of them no mount may      *)
(* contain, read off the input.                                            *)
Asked(e) == IF adapter = "properties" THEN e.path # <<Empty>> ELSE e.own
Unusable(e) ==
    \/ e.flaw = "line"
    \/ /\ Asked(e)
       /\ \/ e.flaw = "entry"
          \/ Len(e.path) > MaxSegments
          \/ adapter # "properties" /\ \E i \in 1..Len(e.path) : e.path[i] = Empty
Ambiguous(i, j) ==
    /\ adapter = "env" /\ i # j /\ Asked(input[i]) /\ Asked(input[j])
    /\ input[i].path = input[j].path

(* A mount is complete: it holds every entry that the caller asked for,    *)
(* and nothing of the entries outside the prefix (_nest, load).            *)
MountIsComplete ==
    phase = "mounted" =>
        root = ViewOf(LastMounted(input, {i \in 1..Len(input) : Asked(input[i])}))

(* A call fails exactly when the input holds an entry that cannot be used  *)
(* or two that the environment cannot order: what lies outside the prefix  *)
(* never makes it fail, and nothing is dropped in silence (F1.6, F1.9).    *)
FailsForACause ==
    LET cause == \/ \E i \in 1..Len(input) : Unusable(input[i])
                 \/ \E i, j \in 1..Len(input) : Ambiguous(i, j)
    IN  /\ phase = "failed" => cause
        /\ phase \in {"nesting", "mounted"} => ~cause
=============================================================================
