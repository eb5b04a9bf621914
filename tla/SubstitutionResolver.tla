------------------------ MODULE SubstitutionResolver ------------------------
(***************************************************************************)
(* Phase 2 of the resolver (_internal/resolver/substitution_resolver.py):  *)
(* a recursive evaluation of a ResObj tree that threads the mutable fields *)
(* of the class through every call, in the order in which the code makes   *)
(* the calls:                                                              *)
(*   cache      path -> resolved value (memoised by path)                  *)
(*   resolving  the paths being resolved, the cycle guard                  *)
(*   concats    resolving_concats.  The code holds nodes by identity; a    *)
(*              concatenation is reachable by lookup_path at one place of  *)
(*              the tree only, so the model holds that place               *)
(*   rfp        resolving_field_path                                       *)
(*   guards     resolving_prefix_priors                                    *)
(*   depth      nested calls, against the interpreter's recursion limit    *)
(*   err        the exception raised, NoError while there is none          *)
(* Every evaluation returns [v |-> value or Nothing, st |-> new state].    *)
(* at is {path} for a node reached by lookup from the root, {} otherwise.  *)
(*                                                                         *)
(* An operator whose name has a suffix and which stands just before the    *)
(* operator of the plain name (JoinFromRight, Join) is the same with       *)
(* a mistake in it, to see that the properties notice; nothing uses it.    *)
(***************************************************************************)
EXTENDS HoconTree

CONSTANTS
    EnvPaths,      \* the paths whose dotted form names an environment variable
    EnvLists,      \* those whose dotted form, with _0, _1..., names one for each item
    UseSystemEnvironment, \* resolve's option of that name
    MaxRecursion   \* sys.getrecursionlimit(), in nested evaluations

ASSUME MaxRecursionAssumption == MaxRecursion \in Nat \ {0}
ASSUME UseSystemEnvironmentAssumption == UseSystemEnvironment \in BOOLEAN

NoError == "none"
EnvText == <<"env">>
EnvItems == Arr(<<Scalar(EnvText)>>)

NewResolver == [cache |-> <<>>, resolving |-> {}, concats |-> {}, rfp |-> <<>>,
                guards |-> {}, depth |-> 0, err |-> NoError]

Return(v, st) == [v |-> v, st |-> st]
Fail(st, why) == Return(Nothing, [st EXCEPT !.err = why])
Failed(r) == r.st.err # NoError

(* r, and then Op for its value and its state; an exception ends it.       *)
AndThen(r, Op(_, _)) == IF Failed(r) THEN r ELSE Op(r.v, r.st)

(* A reference nothing provides a value for.                               *)
UnresolvableSilent(s, st, allow) ==
    IF s.opt \/ ~allow THEN Return(Nothing, st) ELSE Return(s, st)
UnresolvableKeptOptional(s, st, allow) ==
    IF allow THEN Return(s, st)
    ELSE IF s.opt THEN Return(Nothing, st) ELSE Fail(st, "could not resolve")
Unresolvable(s, st, allow) ==
    CASE s.opt             -> Return(Nothing, st)
      [] ~s.opt /\ allow   -> Return(s, st)
      [] OTHER             -> Fail(st, "could not resolve")

(* The cache entries of a value: its own and its descendants'.             *)
RECURSIVE CacheEntries(_, _)
CacheEntries(path, v) ==
    IF ~IsHObj(v)
    THEN path :> v
    ELSE FoldSet(LAMBDA k, entries : CacheEntries(Append(path, k), v.members[k]) @@ entries,
                 path :> v, DOMAIN v.members)

(* The cycle guard, and the state in which a field is evaluated.           *)
GuardedNever(st, path) == st
Guarded(st, path) == [st EXCEPT !.resolving = @ \cup {path}]
EnteringCached(st, path) == [st EXCEPT !.rfp = path]
Entering(st, path) == [st EXCEPT !.rfp = path, !.cache = Drop(@, path)]

Remember(st, path, v) == [st EXCEPT !.cache = Put(@, path, v)]

RECURSIVE NavigateResolved(_, _)
NavigateResolved(v, rest) ==
    CASE rest = <<>> -> v
      [] rest # <<>> /\ IsHObj(v) /\ rest[1] \in DOMAIN v.members ->
             NavigateResolved(v.members[rest[1]], Tail(rest))
      [] OTHER -> Nothing

(* join_pair: concatenation is between operands of one kind; an object     *)
(* with index keys counts as an array next to an array.                    *)
AsItems(v) == IF IsArr(v) THEN v ELSE NumericObjectToArray(v)

JoinPair(left, right) ==
    CASE IsHObj(left) /\ IsHObj(right)     -> DeepMergeValues(left, right)
      [] IsScalar(left) /\ IsScalar(right) -> Scalar(left.raw \o right.raw)
      [] \/ IsArr(left) /\ (IsArr(right) \/ IsHObj(right))
         \/ IsArr(right) /\ IsHObj(left) ->
             IF AsItems(left) = Nothing \/ AsItems(right) = Nothing
             THEN Nothing
             ELSE Arr(AsItems(left).items \o AsItems(right).items)
      [] OTHER -> Nothing

JoinFromRight(values, st) ==
    LET pair(left, right) == IF right = Nothing THEN right ELSE JoinPair(left, right)
        joined == FoldRight(pair, Front(values), Last(values))
    IN  IF joined = Nothing THEN Fail(st, "cannot concatenate") ELSE Return(joined, st)
Join(values, st) ==
    LET pair(left, right) == IF left = Nothing THEN left ELSE JoinPair(left, right)
        joined == FoldLeft(pair, Head(values), Tail(values))
    IN  IF joined = Nothing THEN Fail(st, "cannot concatenate") ELSE Return(joined, st)
-----------------------------------------------------------------------------
RECURSIVE ResolveVal(_, _, _, _, _), ResolveAll(_, _, _, _), ResolveConcat(_, _, _, _),
          DelayedMerge(_, _, _, _, _), ResolvePrefixSelfRef(_, _, _, _),
          ResolveCycle(_, _, _, _), ResolveFound(_, _, _, _, _), ResolveAbsent(_, _, _, _),
          ResolveSubst(_, _, _, _),
          ResolveField(_, _, _, _, _, _), ResolveResObj(_, _, _, _)

(* _resolve_val for each of values in turn: the values, and the state.     *)
ResolveAll(values, scope, st, cx) ==
    FoldLeft(LAMBDA acc, v :
                 AndThen(acc, LAMBDA vs, st1 :
                     AndThen(ResolveVal(v, scope, {}, st1, cx), LAMBDA x, st2 :
                         Return(Append(vs, x), st2))),
             Return(<<>>, st), values)

Present(values) == SelectSeq(values, LAMBDA v : v # Nothing)

(* present: the operands that resolved to something; unresolved: those of  *)
(* them that are placeholders left in place.                               *)
JoinPresentResolved(present, unresolved, st, cx) ==
    IF Len(present) = Len(unresolved)
    THEN Return(Nothing, st)
    ELSE Join(SelectSeq(present, LAMBDA v : ~IsSubst(v)), st)
JoinPresent(present, unresolved, st, cx) ==
    CASE cx.allow /\ unresolved # <<>> -> Return(unresolved[1], st)
      [] ~(cx.allow /\ unresolved # <<>>) /\ present = <<>> -> Return(Nothing, st)
      [] OTHER -> Join(present, st)

ResolveConcat(nodes, scope, st, cx) ==
    AndThen(ResolveAll(nodes, scope, st, cx), LAMBDA all, st1 :
        JoinPresent(Present(all), SelectSeq(Present(all), IsSubst), st1, cx))

(* _lookup_prior: a one-key path is looked up in the scope first.          *)
LookupPrior(path, scope, cx) ==
    LET parent == LookupResObj(cx.root, Front(path))
        inRoot == GetOr(cx.root.prior, Last(path), Nothing)
    IN  CASE Len(path) = 1   -> GetOr(scope.prior, path[1], inRoot)
          [] Len(path) > 1 /\ IsResObj(parent) -> GetOr(parent.prior, Last(path), Nothing)
          [] OTHER -> Nothing

(* v over the prior, when both turn out to be objects.                     *)
DelayedMergeDropped(v, prior, scope, st, cx) == Return(v, st)
DelayedMerge(v, prior, scope, st, cx) ==
    IF ~IsHObj(v) \/ prior = Nothing
    THEN Return(v, st)
    ELSE AndThen(ResolveVal(prior, scope, {}, st, cx), LAMBDA p, st1 :
             Return(IF IsHObj(p) THEN DeepMergeValues(p, v) ELSE v, st1))

(* foo : ${foo.a}: the target lies inside the field being resolved, so it  *)
(* is taken from the field's prior and never from the final tree.          *)
ResolvePrefixSelfRef(s, scope, st, cx) ==
    LET prior == GetOr(scope.prior, Last(st.rfp), Nothing)
        reached(below, st1) ==
            LET v == NavigateResolved(below, Suffix(s.path, Len(st.rfp)))
            IN  IF v = Nothing THEN Unresolvable(s, st1, cx.allow) ELSE Return(v, st1)
    IN  IF prior = Nothing \/ st.rfp \in st.guards
        THEN Unresolvable(s, st, cx.allow)
        ELSE AndThen(ResolveVal(prior, scope, {}, [st EXCEPT !.guards = @ \cup {st.rfp}], cx),
                     LAMBDA below, st1 : reached(below, [st1 EXCEPT !.guards = @ \ {st.rfp}]))

(* The path is being resolved already: fall back to the prior, resolved    *)
(* with a copy of the guard set.                                           *)
ResolveCycle(s, scope, st, cx) ==
    LET prior == LookupPrior(s.path, scope, cx)
        r == ResolveVal(prior, scope, {}, st, cx)
    IN  CASE prior # Nothing -> [r EXCEPT !.st.resolving = st.resolving]
          [] prior = Nothing /\ s.opt -> Return(Nothing, st)
          [] OTHER -> Fail(st, "circular")

CacheKey(s) == IF s.list THEN Append(s.path, "[]") ELSE s.path

Caching(r, s) ==
    AndThen(r, LAMBDA v, st :
        Return(v, IF v = Nothing THEN st ELSE Remember(st, CacheKey(s), v)))

(* The value found at the path: the reference sits inside it, or it does   *)
(* not.  Results other than None are cached.                               *)
ResolveFound(s, found, scope, st, cx) ==
    LET isOwner   == IsPrefix(s.path, st.rfp)
        isSelfRef == \/ IsConcat(found) /\ s.path \in st.concats
                     \/ isOwner /\ ContainsSubstByPath(found, s.path)
        prior     == LookupPrior(s.path, scope, cx)
        layers    == IF Len(s.path) - s.prefix = 1 THEN prior ELSE Nothing
        caching(r) == Caching(r, s)
    IN  CASE isSelfRef /\ prior = Nothing ->
                 IF s.opt THEN Return(Nothing, st) ELSE Fail(st, "could not resolve")
          [] isSelfRef /\ prior # Nothing -> caching(ResolveVal(prior, scope, {}, st, cx))
          [] OTHER ->
                 caching(AndThen(ResolveVal(found, scope, {s.path}, st, cx), LAMBDA v, st1 :
                             DelayedMerge(v, layers, scope, st1, cx)))

(* Nothing at the path: the path the included file wrote is looked up, and *)
(* then either path in the environment.                                    *)
Original(s) == Suffix(s.path, s.prefix)
IsRelativized(s) == s.prefix > 0 /\ Original(s) # <<>>

(* What the environment has for either path.  A list that it does not have *)
(* is an error even where placeholders may stay.                           *)
FromEnvironment(s, st, cx) ==
    LET names == {s.path, Original(s)}
    IN  CASE UseSystemEnvironment /\ s.list /\ names \cap EnvLists # {} ->
                 Caching(Return(EnvItems, st), s)
          [] UseSystemEnvironment /\ ~s.list /\ names \cap EnvPaths # {} ->
                 Caching(Return(Scalar(EnvText), st), s)
          [] UseSystemEnvironment /\ s.list /\ names \cap EnvLists = {} ->
                 Unresolvable(s, st, FALSE)
          [] OTHER -> Unresolvable(s, st, cx.allow)

ResolveAbsentNoEnv(s, scope, st, cx) == Unresolvable(s, st, cx.allow)
ResolveAbsentNotOriginal(s, scope, st, cx) == FromEnvironment(s, st, cx)
ResolveAbsent(s, scope, st, cx) ==
    LET original == Original(s)
        found == IF IsRelativized(s) THEN LookupPath(cx.root, original) ELSE Nothing
        layers == IF Len(original) = 1 THEN GetOr(cx.root.prior, original[1], Nothing)
                                       ELSE Nothing
    IN  IF found # Nothing
        THEN Caching(AndThen(ResolveVal(found, scope, {original}, st, cx), LAMBDA v, st1 :
                         DelayedMerge(v, layers, scope, st1, cx)), s)
        ELSE FromEnvironment(s, st, cx)

ResolveSubst(s, scope, st, cx) ==
    LET isPrefixSelfRef == st.rfp # <<>> /\ IsStrictPrefix(st.rfp, s.path)
        key == CacheKey(s)
        guarded == Guarded(st, key)
        found == LookupPath(cx.root, s.path)
        looked == IF found = Nothing
                  THEN ResolveAbsent(s, scope, guarded, cx)
                  ELSE ResolveFound(s, found, scope, guarded, cx)
    IN  IF s.absent THEN Unresolvable(s, st, cx.allow)
        ELSE IF isPrefixSelfRef THEN ResolvePrefixSelfRef(s, scope, st, cx)
        ELSE IF key \in DOMAIN st.cache THEN Return(st.cache[key], st)
        ELSE IF key \in st.resolving THEN ResolveCycle(s, scope, st, cx)
        ELSE [looked EXCEPT !.st.resolving = @ \ {key}]

ResolveNode(v, scope, at, st, cx) ==
    CASE IsSubst(v)  -> ResolveSubst(v, scope, st, cx)
      [] IsConcat(v) ->
             AndThen(ResolveConcat(v.nodes, scope, [st EXCEPT !.concats = @ \cup at], cx),
                     LAMBDA x, st1 : Return(x, [st1 EXCEPT !.concats = @ \ at]))
      [] IsResObj(v) -> ResolveResObj(v, at, st, cx)
      [] IsArr(v)    ->
             AndThen(ResolveAll(v.items, scope, st, cx),
                     LAMBDA xs, st1 : Return(Arr(Present(xs)), st1))
      [] OTHER       -> Return(v, st)

ResolveVal(v, scope, at, st, cx) ==
    IF st.depth >= MaxRecursion
    THEN Fail(st, "recursion")
    ELSE LET r == ResolveNode(v, scope, at, [st EXCEPT !.depth = @ + 1], cx)
         IN  [r EXCEPT !.st.depth = st.depth]

(* One turn of _resolve_res_obj's loop: the field, its prior when the      *)
(* field resolved to nothing or to an object, and the cache entries.       *)
ResolveField(obj, k, at, members, st, cx) ==
    LET path  == Append(st.rfp, k)
        prior == GetOr(obj.prior, k, Nothing)
        field == ResolveVal(obj.fields[k], obj, {Append(p, k) : p \in at},
                            Entering(st, path), cx)
        layered(v, st1) == IF v = Nothing /\ prior # Nothing
                           THEN ResolveVal(prior, obj, {}, st1, cx)
                           ELSE DelayedMerge(v, prior, obj, st1, cx)
        stored(v, st1) == IF v = Nothing
                          THEN Return(members, st1)
                          ELSE Return(Put(members, k, v),
                                      [st1 EXCEPT !.cache = CacheEntries(path, v) @@ @])
    IN  AndThen(AndThen(field, layered), LAMBDA v, st1 : stored(v, [st1 EXCEPT !.rfp = st.rfp]))

ResolveResObj(obj, at, st, cx) ==
    LET fields == FoldLeft(LAMBDA acc, k :
                               AndThen(acc, LAMBDA members, st1 :
                                   ResolveField(obj, k, at, members, st1, cx)),
                           Return(<<>>, st), obj.keys)
    IN  AndThen(fields, LAMBDA members, st1 : Return(HObj(members), st1))

(* resolve_tree: the resolved tree, or the exception.                      *)
Outcome(r) == IF Failed(r) THEN [error |-> r.st.err] ELSE [value |-> r.v]

ResolveTree(root, allow) ==
    Outcome(ResolveResObj(root, {<<>>}, NewResolver, [root |-> root, allow |-> allow]))
=============================================================================
