---------------------------- MODULE TreeBuilder ----------------------------
(***************************************************************************)
(* Phase 1 of the resolver (_internal/resolver/structure_builder.py): how  *)
(* StructureBuilder.build applies the fields of an object one after the    *)
(* other to a ResObj tree.                                                 *)
(*                                                                         *)
(* A field is [key, val, append]; key is the path of a dotted key.  An     *)
(* include directive is [include |-> fields]: what the loader returns is   *)
(* the tree built from the included file's fields (module IncludeLoader    *)
(* models the loading); at a path below the root, its references are       *)
(* relativised to that path.  The code does so in place, and a placeholder *)
(* that a fold has put at two places of the included tree is one object to *)
(* it, which gets the path twice; here every place has a placeholder of    *)
(* its own.                                                                *)
(***************************************************************************)
EXTENDS SubstitutionResolver

Field(key, val) == [key |-> key, val |-> val, append |-> FALSE]
AppendField(key, val) == [key |-> key, val |-> val, append |-> TRUE]
AstObject(fields) == [ast |-> fields]
Include(fields) == [include |-> fields]

IsAstObject(v) == "ast" \in DOMAIN v
IsInclude(f) == "include" \in DOMAIN f
-----------------------------------------------------------------------------
(* _relativize_res_obj: of the fields, and of the priors saved for them.   *)
RECURSIVE Relativized(_, _)
RelativizedFieldsOnly(v, path) ==
    IF IsSubst(v)
    THEN [v EXCEPT !.path = path \o @, !.prefix = @ + Len(path)]
    ELSE MapBelow(v, LAMBDA n : Relativized(n, path))
Relativized(v, path) ==
    CASE IsSubst(v)  -> [v EXCEPT !.path = path \o @, !.prefix = @ + Len(path)]
      [] IsResObj(v) -> [MapBelow(v, LAMBDA n : Relativized(n, path)) EXCEPT
                            !.prior = [k \in DOMAIN @ |-> Relativized(@[k], path)]]
      [] OTHER       -> MapBelow(v, LAMBDA n : Relativized(n, path))

RECURSIVE Build(_, _), ToResolverValue(_, _), Assign(_, _, _, _), ApplyField(_, _, _)

Build(fields, path) ==
    FoldLeft(LAMBDA obj, f : ApplyField(obj, f, path), EmptyResObj, fields)

ToResolverValue(v, path) ==
    IF IsAstObject(v)
    THEN Build(v.ast, path)
    ELSE MapBelow(v, LAMBDA n : ToResolverValue(n, path))

(* A field with a single key: note a reset, save the prior, then merge     *)
(* into the object that is there or replace the value.                     *)
Assign(obj, k, val, path) ==
    LET key == Append(path, k)
        new == ToResolverValue(val, key)
        exists == k \in DOMAIN obj.fields
        existing == obj.fields[k]
        input == IF IsResObj(existing) THEN FoldNestedSelfRefs(existing, key) ELSE existing
        saved == IF exists
                 THEN FoldOrSkipPrior(input, key, GetOr(obj.prior, k, Nothing))
                 ELSE Nothing
    IN  ResObj(AddKey(obj.keys, k),
               Put(obj.fields, k,
                   IF exists /\ IsResObj(existing) /\ IsResObj(new)
                   THEN DeepMergeResObjInto(existing, new, key)
                   ELSE new),
               IF saved = Nothing THEN obj.prior ELSE Put(obj.prior, k, saved),
               IF ContainsSelfRef(new, key) THEN obj.reset ELSE obj.reset \cup {k})

(* a += b is a = ${?a} [b], with the full path of a.                       *)
DesugarAppend(f, path) ==
    Field(f.key, Concat(<<Subst(path \o f.key, TRUE), Arr(<<f.val>>)>>))

ApplyField(obj, f, path) ==
    IF IsInclude(f)
    THEN DeepMergeResObjInto(obj, Relativized(Build(f.include, <<>>), path), path)
    ELSE IF Len(f.key) > 1
    THEN ApplyField(obj, Field(<<f.key[1]>>, AstObject(<<[f EXCEPT !.key = Tail(@)]>>)), path)
    ELSE IF f.append
    THEN ApplyField(obj, DesugarAppend(f, path), path)
    ELSE Assign(obj, f.key[1], f.val, path)
-----------------------------------------------------------------------------
(* Every object of a tree, below fields and below priors, with its path;   *)
(* whether each saved prior is free of references to its own key.          *)
RECURSIVE ObjectsOf(_, _)
ObjectsOf(v, path) ==
    IF ~IsResObj(v)
    THEN {}
    ELSE {<<v, path>>}
         \cup UNION {ObjectsOf(v.fields[k], Append(path, k)) : k \in DOMAIN v.fields}
         \cup UNION {ObjectsOf(v.prior[k], Append(path, k)) : k \in DOMAIN v.prior}

LooksBackOnly(tree) ==
    \A o \in ObjectsOf(tree, <<>>) : \A k \in DOMAIN o[1].prior :
        ~ContainsSelfRefIn(o[1].prior[k], Append(o[2], k), FALSE)
=============================================================================
