--------------------------- MODULE HoconSemantics ---------------------------
(***************************************************************************)
(* What a document means, stated without trees, priors, caches or order of *)
(* evaluation: the promise the two phases of the resolver are checked      *)
(* against.                                                                *)
(*                                                                         *)
(* Every key has a stack of layers, one for each field that assigns it.  A *)
(* reference to the field it stands in (or to something inside it, or to   *)
(* an object around it) means the layers BELOW its own; every other        *)
(* reference means the final value of its path.  An object is merged over  *)
(* the object below it; a layer that turns out undefined shows the one     *)
(* below.  An include means the fields of the included file, in place.     *)
(***************************************************************************)
EXTENDS TreeBuilder

Undefined == [bad |-> "undefined"]   \* a required reference without a value
Mixed == [bad |-> "mixed"]           \* a concatenation of unlike kinds
Cyclic == [bad |-> "cyclic"]         \* no layer is below: no meaning
Blocked == [bad |-> "blocked"]       \* the path leads through a non-object

IsBad(v) == "bad" \in DOMAIN v

(* A value of a file included at path: its references mean paths below     *)
(* that path first.                                                        *)
RECURSIVE Lifted(_, _)
Lifted(v, path) ==
    CASE IsSubst(v) -> [v EXCEPT !.path = path \o @, !.prefix = @ + Len(path)]
      [] IsAstObject(v) ->
             AstObject([i \in DOMAIN v.ast |-> [v.ast[i] EXCEPT !.val = Lifted(@, path)]])
      [] OTHER -> MapBelow(v, LAMBDA n : Lifted(n, path))

(* The fields of a document with the included fields in place of the       *)
(* directives, also of those that stand in an object.                      *)
InlinedField(f) ==
    LET at(g, path) == [g EXCEPT !.key = path \o @, !.val = Lifted(@, path)]
        spliced(m) ==
            IF IsInclude(m)
            THEN [i \in DOMAIN m.include |-> at(m.include[i], f.key)]
            ELSE <<[m EXCEPT !.key = f.key \o @]>>
        splits == IsAstObject(f.val) /\ \E i \in DOMAIN f.val.ast : IsInclude(f.val.ast[i])
    IN  IF splits
        THEN FlattenSeq([i \in DOMAIN f.val.ast |-> spliced(f.val.ast[i])])
        ELSE <<f>>

Inlined(d) == FlattenSeq([i \in DOMAIN d |-> IF IsInclude(d[i]) THEN d[i].include
                                                                ELSE InlinedField(d[i])])

Plain(f) == IF f.append THEN DesugarAppend(f, <<>>) ELSE f

Layer(f) ==
    LET p == Plain(f)
    IN  [key |-> p.key[1],
         val |-> FoldRight(LAMBDA k, v : AstObject(<<Field(<<k>>, v)>>), Tail(p.key), p.val)]

Layers(d) == [i \in DOMAIN Inlined(d) |-> Layer(Inlined(d)[i])]

(* The last layer up to n that assigns key; 0 if there is none.            *)
LastLayer(l, key, n) ==
    LET at == {i \in 1..n : l[i].key = key}
    IN  IF at = {} THEN 0 ELSE CHOOSE i \in at : \A j \in at : j <= i

Members(v) == {v.ast[i].key[1] : i \in DOMAIN v.ast}
MemberOf(v, k) == v.ast[CHOOSE i \in DOMAIN v.ast : v.ast[i].key[1] = k].val
Parts(v) == IF IsArr(v) THEN v.items ELSE v.nodes

IsSelfReference(target, owner) == IsPrefix(target, owner) \/ IsPrefix(owner, target)

(* A bad part spoils a collection of values, a cycle first.                *)
AnyBad(values) == \E v \in values : IsBad(v)
Spoiled(values) ==
    IF Cyclic \in values THEN Cyclic ELSE CHOOSE v \in values : IsBad(v)

(* The object with x's values that are defined.                            *)
Assembled(x) ==
    IF AnyBad(Range(x))
    THEN Spoiled(Range(x))
    ELSE HObj([k \in {m \in DOMAIN x : x[m] # Nothing} |-> x[k]])

(* The concatenation of the values that are defined.                       *)
Concatenated(present) ==
    LET pair(left, right) == IF left = Nothing THEN left ELSE JoinPair(left, right)
        joined == FoldLeft(pair, Head(present), Tail(present))
    IN  CASE present = <<>> -> Nothing
          [] present # <<>> /\ joined = Nothing -> Mixed
          [] OTHER -> joined

(* The items of an array, or the operands of a concatenation, together.    *)
Together(v, x, present) ==
    CASE AnyBad(ToSet(x)) -> Spoiled(ToSet(x))
      [] ~AnyBad(ToSet(x)) /\ IsArr(v) -> Arr(present)
      [] OTHER -> Concatenated(present)

(* What a reference shows when its path has the value x: the suffix [] is  *)
(* about the environment only.                                             *)
Shown(s, x) ==
    CASE x # Nothing -> x
      [] x = Nothing /\ ~s.list /\ {s.path, Original(s)} \cap EnvPaths # {} -> Scalar(EnvText)
      [] x = Nothing /\ s.list /\ {s.path, Original(s)} \cap EnvLists # {} -> EnvItems
      [] OTHER -> IF s.opt THEN Nothing ELSE Undefined

(* A layer over the value below it.                                        *)
Over(own, below) ==
    CASE own = Nothing -> below
      [] own = Blocked -> Nothing
      [] IsHObj(own) /\ IsBad(below)  -> below
      [] IsHObj(own) /\ IsHObj(below) -> DeepMergeValues(below, own)
      [] OTHER -> own

(* What a value, known as a whole, has at path rest.                       *)
Within(whole, rest) ==
    CASE rest = <<>> \/ whole = Nothing \/ IsBad(whole) -> whole
      [] rest # <<>> /\ IsHObj(whole) -> NavigateResolved(whole, rest)
      [] OTHER -> Blocked

(* Some field assigns path, or something below it.                         *)
RECURSIVE HasMember(_, _)
HasMember(v, rest) ==
    \/ rest = <<>>
    \/ IsAstObject(v) /\ rest[1] \in Members(v) /\ HasMember(MemberOf(v, rest[1]), Tail(rest))

IsAssigned(l, path) == \E i \in DOMAIN l : l[i].key = path[1] /\ HasMember(l[i].val, Tail(path))

(* The path a reference means: what an included file wrote, unless the     *)
(* path relative to the place of the include is assigned.                  *)
Target(l, s) == IF IsRelativized(s) /\ ~IsAssigned(l, s.path) THEN Original(s) ELSE s.path

RECURSIVE Value(_, _, _, _), ValueAt(_, _, _, _), Meaning(_, _, _, _, _), Descend(_, _, _, _, _, _)

(* The value of path as the first n layers define it; as layer i and those *)
(* below it define it.                                                     *)
Value(l, path, n, seen) == ValueAt(l, path, LastLayer(l, path[1], n), seen)

ValueAt(l, path, i, seen) ==
    CASE i = 0 -> Nothing
      [] i # 0 /\ <<path, i>> \in seen -> Cyclic
      [] OTHER -> Over(Descend(l, l[i].val, <<path[1]>>, Tail(path), i, seen \cup {<<path, i>>}),
                       Value(l, path, i - 1, seen))

(* What expression v, the value of owner in layer i, has at path rest.     *)
Descend(l, v, owner, rest, i, seen) ==
    IF rest = <<>> \/ ~IsAstObject(v)
    THEN Within(Meaning(l, v, owner, i, seen), rest)
    ELSE IF rest[1] \in Members(v)
    THEN Descend(l, MemberOf(v, rest[1]), Append(owner, rest[1]), Tail(rest), i, seen)
    ELSE Nothing

Meaning(l, v, owner, i, seen) ==
    CASE IsScalar(v) -> v
      [] IsSubst(v) ->
           LET target == Target(l, v)
               below == IF IsSelfReference(target, owner) THEN i - 1 ELSE Len(l)
           IN  Shown(v, Value(l, target, below, seen))
      [] IsAstObject(v) ->
           Assembled([k \in Members(v) |->
                         Meaning(l, MemberOf(v, k), Append(owner, k), i, seen)])
      [] OTHER ->
           LET x == [j \in DOMAIN Parts(v) |-> Meaning(l, Parts(v)[j], owner, i, seen)]
           IN  Together(v, x, SelectSeq(x, LAMBDA y : y # Nothing))

(* Of every top-level key, and of the document.                            *)
KeyMeanings(l) == [k \in {l[i].key : i \in DOMAIN l} |-> Value(l, <<k>>, Len(l), {})]

DocumentMeaning(d) == Assembled(KeyMeanings(Layers(d)))
=============================================================================
