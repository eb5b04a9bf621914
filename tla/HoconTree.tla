----------------------------- MODULE HoconTree -----------------------------
(***************************************************************************)
(* The trees the resolver works on (_internal/resolver/types.py, value.py) *)
(* and the pure operations on them (fold_self_ref.py, utils.py).           *)
(*                                                                         *)
(* A key is a string, a path a sequence of keys.  The code compares paths  *)
(* through their dotted, quoted form (string_segments_to_key,              *)
(* segments_to_key), which is injective, so paths stand for both forms.    *)
(* The text of a scalar is a sequence of atoms: string concatenation is    *)
(* \o.  Source positions and separator white space are left out.  Every    *)
(* variant of a value has field names of its own, so that values of        *)
(* different variants are comparable.                                      *)
(*                                                                         *)
(* The operators recurse over trees: this module is for TLC only.          *)
(*                                                                         *)
(* An operator whose name has a suffix and which stands just before the    *)
(* operator of the plain name (AddKeyAgain, AddKey) is the same with       *)
(* a mistake in it, to see that the properties notice; nothing uses it.    *)
(***************************************************************************)
EXTENDS Integers, Sequences, FiniteSets, SequencesExt

CONSTANT KeyIndex  \* the keys that are canonical array indices, with the index
ASSUME KeyIndexAssumption == \A k \in DOMAIN KeyIndex : KeyIndex[k] \in Nat

Nothing == [nothing |-> TRUE]                     \* None
Unnavigable == [unnavigable |-> TRUE]             \* UNNAVIGABLE

Scalar(raw) == [raw |-> raw]
Arr(items) == [items |-> items]
HObj(members) == [members |-> members]            \* a resolved object
(* prefix: how many segments of path relativising an include has added;    *)
(* list: the path is written with the suffix [].                           *)
Subst(path, opt) ==
    [path |-> path, prefix |-> 0, list |-> FALSE, opt |-> opt, absent |-> FALSE]
Concat(nodes) == [nodes |-> nodes]
ResObj(keys, fields, prior, reset) ==             \* keys: insertion order
    [keys |-> keys, fields |-> fields, prior |-> prior, reset |-> reset]
EmptyResObj == ResObj(<<>>, <<>>, <<>>, {})

IsScalar(v) == "raw" \in DOMAIN v
IsArr(v)    == "items" \in DOMAIN v
IsHObj(v)   == "members" \in DOMAIN v
IsSubst(v)  == "path" \in DOMAIN v
IsConcat(v) == "nodes" \in DOMAIN v
IsResObj(v) == "fields" \in DOMAIN v

(* f with f[k] = v, whether or not k was in its domain; f without k.       *)
Put(f, k, v) == [x \in DOMAIN f \cup {k} |-> IF x = k THEN v ELSE f[x]]
Drop(f, k) == [x \in DOMAIN f \ {k} |-> f[x]]
GetOr(f, k, default) == IF k \in DOMAIN f THEN f[k] ELSE default
AddKeyAgain(keys, k) == Append(keys, k)
AddKey(keys, k) == IF Contains(keys, k) THEN keys ELSE Append(keys, k)
Suffix(path, n) == SubSeq(path, n + 1, Len(path))

(* The values directly below v, and v with Op applied to each of them.     *)
(* prior_values are not below: no walk of fold_self_ref.py enters them.    *)
Below(v) ==
    CASE IsConcat(v) -> ToSet(v.nodes)
      [] IsArr(v)    -> ToSet(v.items)
      [] IsResObj(v) -> {v.fields[k] : k \in DOMAIN v.fields}
      [] OTHER       -> {}

MapBelow(v, Op(_)) ==
    CASE IsConcat(v) -> [v EXCEPT !.nodes = [i \in DOMAIN @ |-> Op(@[i])]]
      [] IsArr(v)    -> [v EXCEPT !.items = [i \in DOMAIN @ |-> Op(@[i])]]
      [] IsResObj(v) -> [v EXCEPT !.fields = [k \in DOMAIN @ |-> Op(@[k])]]
      [] OTHER       -> v
-----------------------------------------------------------------------------
(* Self-references: fold_self_ref.py.  ap is the code's allow_prefix.      *)

IsPrefixSelfRefMissed(s, key) == FALSE
IsPrefixSelfRef(s, key) == IsStrictPrefix(key, s.path)

RefersTo(s, key, ap) == s.path = key \/ (ap /\ IsPrefixSelfRef(s, key))

RECURSIVE ContainsSelfRefIn(_, _, _)
ContainsSelfRefIn(v, key, ap) ==
    IF IsSubst(v)
    THEN ~v.absent /\ RefersTo(v, key, ap)
    ELSE \E n \in Below(v) : ContainsSelfRefIn(n, key, ap /\ ~IsResObj(v))

ContainsSelfRef(v, key) == ContainsSelfRefIn(v, key, TRUE)

(* Structural navigation: it cannot see through an unresolved node.        *)
RECURSIVE Navigate(_, _)
Navigate(v, rest) ==
    CASE rest = <<>>                -> v
      [] IsSubst(v) \/ IsConcat(v)  -> Unnavigable
      [] IsResObj(v) /\ rest[1] \in DOMAIN v.fields ->
             Navigate(v.fields[rest[1]], Tail(rest))
      [] OTHER                      -> Nothing

FoldPrefixSelfRef(s, replacement, rest) ==
    LET reached == Navigate(replacement, rest)
    IN  CASE reached = Unnavigable -> s
          [] reached = Nothing     -> [s EXCEPT !.absent = TRUE]
          [] OTHER                 -> reached

RECURSIVE FoldSelfRefIn(_, _, _, _)
FoldSelfRefIn(v, key, replacement, ap) ==
    CASE ~IsSubst(v) ->
             MapBelow(v, LAMBDA n :
                 FoldSelfRefIn(n, key, replacement, ap /\ ~IsResObj(v)))
      [] IsSubst(v) /\ v.path = key -> replacement
      [] IsSubst(v) /\ ap /\ IsPrefixSelfRef(v, key) ->
             FoldPrefixSelfRef(v, replacement, Suffix(v.path, Len(key)))
      [] OTHER -> v

FoldSelfRef(v, key, replacement) == FoldSelfRefIn(v, key, replacement, TRUE)

RECURSIVE FoldKnownAbsent(_, _, _)
FoldKnownAbsent(v, key, replacement) ==
    IF IsSubst(v)
    THEN IF v.absent /\ v.path = key THEN replacement ELSE v
    ELSE MapBelow(v, LAMBDA n : FoldKnownAbsent(n, key, replacement))

(* _fold_optional_self_ref_absent: nothing below the self-references, so   *)
(* optional ones become known absent; a required one makes the value void. *)
RECURSIVE HasRequiredSelfRef(_, _, _), MarkSelfRefsAbsent(_, _, _)
HasRequiredSelfRef(v, key, ap) ==
    IF IsSubst(v)
    THEN RefersTo(v, key, ap) /\ ~v.opt
    ELSE \E n \in Below(v) : HasRequiredSelfRef(n, key, ap /\ ~IsResObj(v))

MarkSelfRefsAbsent(v, key, ap) ==
    IF IsSubst(v)
    THEN [v EXCEPT !.absent = @ \/ RefersTo(v, key, ap)]
    ELSE MapBelow(v, LAMBDA n : MarkSelfRefsAbsent(n, key, ap /\ ~IsResObj(v)))

FoldOptionalSelfRefAbsentKept(v, key) ==
    IF HasRequiredSelfRef(v, key, TRUE) THEN Nothing ELSE v
FoldOptionalSelfRefAbsent(v, key) ==
    IF HasRequiredSelfRef(v, key, TRUE)
    THEN Nothing
    ELSE MarkSelfRefsAbsent(v, key, TRUE)

(* _merge_res_obj_layers: an object merge that keeps both layers' priors.  *)
RECURSIVE MergeResObjLayers(_, _)
MergeResObjLayers(base, top) ==
    LET layered(k) ==
            CASE k \notin DOMAIN top.fields  -> base.fields[k]
              [] k \notin DOMAIN base.fields -> top.fields[k]
              [] IsResObj(base.fields[k]) /\ IsResObj(top.fields[k]) ->
                     MergeResObjLayers(base.fields[k], top.fields[k])
              [] OTHER -> top.fields[k]
        keys == FoldLeft(AddKey, base.keys, top.keys)
    IN  ResObj(keys, [k \in ToSet(keys) |-> layered(k)],
               [k \in DOMAIN base.prior \cup DOMAIN top.prior |->
                    IF k \in DOMAIN top.prior THEN top.prior[k] ELSE base.prior[k]],
               base.reset \cup top.reset)

(* The decision at every place that saves a prior: the value as it is, the *)
(* value with its self-references replaced by the old prior, or (no old    *)
(* prior) with the optional ones marked absent, or no prior at all.        *)
FoldOrSkipPriorUnfolded(prior, key, old) == prior
FoldOrSkipPrior(prior, key, old) ==
    LET isLayer == IsSubst(prior) /\ IsPrefixSelfRef(prior, key)
        reached == Navigate(old, Suffix(prior.path, Len(key)))
    IN  CASE ~ContainsSelfRef(prior, key) -> prior
          [] ContainsSelfRef(prior, key) /\ old = Nothing ->
                 FoldOptionalSelfRefAbsent(prior, key)
          [] OTHER ->
                 IF isLayer /\ reached = Nothing /\ prior.opt
                 THEN old
                 ELSE IF isLayer /\ IsResObj(reached) /\ IsResObj(old)
                 THEN MergeResObjLayers(old, reached)
                 ELSE FoldSelfRef(prior, key, old)

RECURSIVE FoldNestedSelfRefs(_, _)
FoldNestedSelfRefs(v, path) ==
    IF ~IsResObj(v)
    THEN v
    ELSE LET folded(k) ==
                 LET key == Append(path, k)
                     inner == FoldNestedSelfRefs(v.fields[k], key)
                 IN  IF ContainsSelfRef(inner, key) /\ k \in DOMAIN v.prior
                     THEN FoldSelfRef(inner, key, FoldNestedSelfRefs(v.prior[k], key))
                     ELSE inner
         IN  [v EXCEPT !.fields = [k \in DOMAIN @ |-> folded(k)]]

RECURSIVE ContainsSubstByPath(_, _)
ContainsSubstByPath(v, target) ==
    IF IsSubst(v)
    THEN ~v.absent /\ v.path = target
    ELSE \E n \in Below(v) : ContainsSubstByPath(n, target)
-----------------------------------------------------------------------------
(* Lookup and merging: utils.py.                                           *)

RECURSIVE LookupPath(_, _)
LookupPath(root, path) ==
    CASE path = <<>> \/ path[1] \notin DOMAIN root.fields -> Nothing
      [] OTHER ->
           LET v == root.fields[path[1]]
           IN  CASE Len(path) = 1 -> v
                 [] IsResObj(v)   -> LookupPath(v, Tail(path))
                 [] OTHER         -> Nothing

(* The object whose prior_values hold the prior of path, if there is one.  *)
LookupResObj(root, path) ==
    IF path = <<>>
    THEN root
    ELSE LET v == LookupPath(root, path)
         IN  IF IsResObj(v) THEN v ELSE Nothing

RECURSIVE DeepMergeValues(_, _)
DeepMergeValues(base, overlay) ==
    LET merged(k) ==
            CASE k \notin DOMAIN overlay.members -> base.members[k]
              [] k \notin DOMAIN base.members    -> overlay.members[k]
              [] IsHObj(base.members[k]) /\ IsHObj(overlay.members[k]) ->
                     DeepMergeValues(base.members[k], overlay.members[k])
              [] OTHER -> overlay.members[k]
    IN  HObj([k \in DOMAIN base.members \cup DOMAIN overlay.members |-> merged(k)])

(* The prior of a key that both sides of a splice define, neither being    *)
(* merged into the other as an object: a reset in src forgets dst's past,  *)
(* otherwise dst's value goes below the prior src saved for itself.        *)
SplicedPriorOwnOnly(dst, src, k, key) == GetOr(src.prior, k, dst.fields[k])
SplicedPriorDespiteReset(dst, src, k, key) ==
    LET below == GetOr(dst.prior, k, Nothing)
    IN  FoldOrSkipPrior(dst.fields[k], key, below)
SplicedPrior(dst, src, k, key) ==
    LET old    == GetOr(dst.prior, k, Nothing)
        folded == FoldOrSkipPrior(dst.fields[k], key, old)
    IN  CASE k \in src.reset   -> Nothing
          [] k \notin src.reset /\ folded = Nothing -> old
          [] OTHER -> IF k \in DOMAIN src.prior
                      THEN FoldKnownAbsent(src.prior[k], key, folded)
                      ELSE folded

(* deep_merge_res_obj_into: each key is handled on its own, so the loop    *)
(* over src's fields is a function of the key.                             *)
RECURSIVE DeepMergeResObjInto(_, _, _)
DeepMergeResObjIntoShallow(dst, src, path) ==
    LET keys == FoldLeft(AddKey, dst.keys, src.keys)
    IN  ResObj(keys, [k \in ToSet(keys) |-> GetOr(src.fields, k, GetOr(dst.fields, k, Nothing))],
               dst.prior, dst.reset \cup src.reset)
DeepMergeResObjInto(dst, src, path) ==
    LET shared(k) == k \in DOMAIN dst.fields /\ k \in DOMAIN src.fields
        nested(k) == shared(k) /\ IsResObj(dst.fields[k]) /\ IsResObj(src.fields[k])
        old(k) == GetOr(dst.prior, k, Nothing)
        outer(k) == FoldOrSkipPrior(dst.fields[k], Append(path, k), old(k))
        value(k) ==
            CASE nested(k) -> DeepMergeResObjInto(dst.fields[k], src.fields[k],
                                                  Append(path, k))
              [] ~nested(k) /\ k \in DOMAIN src.fields -> src.fields[k]
              [] OTHER -> dst.fields[k]
        merged(k) ==
            CASE nested(k) -> IF outer(k) = Nothing THEN old(k) ELSE outer(k)
              [] shared(k) /\ ~nested(k) -> SplicedPrior(dst, src, k, Append(path, k))
              [] OTHER -> old(k)
        carried(k) == IF merged(k) = Nothing THEN GetOr(src.prior, k, Nothing)
                                             ELSE merged(k)
        keys == FoldLeft(AddKey, dst.keys, src.keys)
        priorKeys == {k \in ToSet(keys) : carried(k) # Nothing}
    IN  ResObj(keys, [k \in ToSet(keys) |-> value(k)],
               [k \in priorKeys |-> carried(k)], dst.reset \cup src.reset)

(* numeric_object_to_array: the values under canonical indices, in order;  *)
(* Nothing when there is none.                                             *)
NumericObjectToArray(obj) ==
    LET eligible == DOMAIN obj.members \cap DOMAIN KeyIndex
        order == SetToSortSeq(eligible, LAMBDA j, k : KeyIndex[j] < KeyIndex[k])
    IN  IF eligible = {}
        THEN Nothing
        ELSE Arr([i \in DOMAIN order |-> obj.members[order[i]]])
=============================================================================
