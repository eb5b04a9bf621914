----------------------------- MODULE ConfigTree -----------------------------
(***************************************************************************)
(* A Config (config.py) and the operations on it that build or read one.   *)
(* A config holds up to three trees:                                       *)
(*   root      what the getters read: resolved values only                 *)
(*   resolved  what is_resolved() answers                                  *)
(*   tree      _res_obj_root, the source tree that a later resolve() or    *)
(*             with_fallback() starts over from, or Nothing                *)
(*   pending   where the NotResolvedError checks look, or Nothing          *)
(* A path given to a getter is a sequence of segments, and the same text   *)
(* can be a key of its own: PathText says which key a path reads as.       *)
(* Coercion of what is read, base directories and origins are left out.    *)
(*                                                                         *)
(* An operator whose name has a suffix and which stands just before the    *)
(* operator of the plain name (HiddenAsIs, Hidden) is the same with a      *)
(* mistake in it, to see that the properties notice; nothing uses it.      *)
(***************************************************************************)
EXTENDS TreeBuilder

CONSTANT PathText      \* the paths that are read, with their text

NotResolved == [notResolved |-> TRUE]    \* NotResolvedError
Mistyped == [mistyped |-> TRUE]          \* ConfigError: not of the kind asked for

Config(root, resolved, tree, pending) ==
    [root |-> root, resolved |-> resolved, tree |-> tree, pending |-> pending]

ResolvedConfig(root) == Config(root, TRUE, Nothing, Nothing)

FieldsOf(obj) == IF IsResObj(obj) THEN obj.fields ELSE obj.members
IsObject(v) == IsResObj(v) \/ IsHObj(v)
-----------------------------------------------------------------------------
(* Placeholders in a tree: resolver.py.  prior_values are not looked at.   *)

RECURSIVE ValContainsPlaceholders(_), BuildPartial(_), HoconValueToResObj(_)

ValContainsPlaceholders(v) ==
    \/ IsSubst(v) \/ IsConcat(v)
    \/ \E n \in Below(v) : ValContainsPlaceholders(n)
    \/ IsHObj(v) /\ \E k \in DOMAIN v.members : ValContainsPlaceholders(v.members[k])

BuildPartial(tree) ==
    HObj([k \in {j \in DOMAIN tree.fields :
                    IsResObj(tree.fields[j]) \/ ~ValContainsPlaceholders(tree.fields[j])} |->
             IF IsResObj(tree.fields[k]) THEN BuildPartial(tree.fields[k]) ELSE tree.fields[k]])

HoconValueToResObj(value) ==
    ResObj(SetToSeq(DOMAIN value.members),
           [k \in DOMAIN value.members |->
               IF IsHObj(value.members[k]) THEN HoconValueToResObj(value.members[k])
                                           ELSE value.members[k]],
           <<>>, {})

(* The source tree of a config: its own, or that of its resolved values.   *)
SourceTree(c) == IF c.tree = Nothing THEN HoconValueToResObj(c.root) ELSE c.tree

FromTree(tree) ==
    Config(BuildPartial(tree), ~ValContainsPlaceholders(tree), tree, tree)

(* The prior that a hidden fallback value becomes.                         *)
HiddenAsIs(v, k) == v
Hidden(v, k) == FoldOrSkipPrior(v, <<k>>, Nothing)

(* merge_unresolved (types.py): the receiver over the fallback, two trees  *)
(* of placeholders.  What the receiver hides becomes its prior.            *)
RECURSIVE MergeUnresolved(_, _)
MergeUnresolvedForgetting(receiver, fallback) ==
    LET keys == FoldLeft(AddKey, fallback.keys, receiver.keys)
        value(k) == IF k \in DOMAIN receiver.fields /\ k \in DOMAIN fallback.fields
                       /\ IsResObj(receiver.fields[k]) /\ IsResObj(fallback.fields[k])
                    THEN MergeUnresolved(receiver.fields[k], fallback.fields[k])
                    ELSE GetOr(receiver.fields, k, GetOr(fallback.fields, k, Nothing))
    IN  ResObj(keys, [k \in ToSet(keys) |-> value(k)], receiver.prior @@ fallback.prior, {})
MergeUnresolved(receiver, fallback) ==
    LET collides(k) == k \in DOMAIN receiver.fields /\ k \in DOMAIN fallback.fields
        replaced(k) == k \in DOMAIN receiver.prior /\ ~IsResObj(receiver.prior[k])
        merged(k) == ~replaced(k) /\ IsResObj(receiver.fields[k]) /\ IsResObj(fallback.fields[k])
        hidden(k) == Hidden(fallback.fields[k], k)
        captured == {k \in DOMAIN receiver.fields :
                        collides(k) /\ ~replaced(k) /\ ~merged(k) /\ hidden(k) # Nothing}
        keys == FoldLeft(AddKey, fallback.keys, receiver.keys)
        value(k) ==
            CASE collides(k) /\ merged(k) -> MergeUnresolved(receiver.fields[k], fallback.fields[k])
              [] ~collides(k) /\ k \in DOMAIN fallback.fields -> fallback.fields[k]
              [] OTHER -> receiver.fields[k]
    IN  ResObj(keys, [k \in ToSet(keys) |-> value(k)],
               receiver.prior @@ [k \in captured |-> hidden(k)] @@ fallback.prior, {})
-----------------------------------------------------------------------------
(* Building configs.  Each operation gives the set of its outcomes, which  *)
(* has one member: a config, or the exception [error |-> ...].             *)

IsError(c) == "error" \in DOMAIN c

ParseDeferred(fields) == {FromTree(tree) : tree \in {Build(fields, <<>>)}}

ParseFused(fields) ==
    {IF IsError(r) THEN r ELSE ResolvedConfig(r.value) :
        r \in {ResolveTree(tree, FALSE) : tree \in {Build(fields, <<>>)}}}

WithFallback(c, fallback) ==
    {FromTree(tree) : tree \in {MergeUnresolved(top, below) :
                                   top \in {SourceTree(c)}, below \in {SourceTree(fallback)}}}

(* _strip_placeholder_fields: objects keep their resolved fields, any      *)
(* other value that holds a placeholder goes.                              *)
RECURSIVE Stripped(_), KeyShape(_), FilteredByShape(_, _)
Stripped(v) ==
    HObj([k \in {j \in DOMAIN v.members :
                    IsHObj(v.members[j]) \/ ~ValContainsPlaceholders(v.members[j])} |->
             IF IsHObj(v.members[k]) THEN Stripped(v.members[k]) ELSE v.members[k]])

(* What a resolution leaves behind: a resolved config, or one that keeps   *)
(* the tree to start over from and looks at the partly resolved value.     *)
LeftBehindForgetful(value, tree) == ResolvedConfig(Stripped(value))
LeftBehind(value, tree) ==
    IF ValContainsPlaceholders(value)
    THEN Config(Stripped(value), FALSE, tree, value)
    ELSE ResolvedConfig(value)

AfterResolution(r, tree, allow) ==
    CASE IsError(r) -> r
      [] ~IsError(r) /\ allow -> LeftBehind(r.value, tree)
      [] OTHER -> ResolvedConfig(r.value)

ResolveConfig(c, allow) ==
    IF c.resolved
    THEN {ResolvedConfig(c.root)}
    ELSE {AfterResolution(r, c.tree, allow) : r \in {ResolveTree(c.tree, allow)}}

(* _res_obj_to_key_shape and _filter_by_receiver_shape: the keys of the    *)
(* receiver.  Below a value of the receiver that is not an object literal  *)
(* the result keeps every key.                                             *)
KeyShape(tree) ==
    HObj([k \in DOMAIN tree.fields |->
             CASE IsSubst(tree.fields[k]) \/ IsConcat(tree.fields[k]) -> Scalar(<<>>)
               [] IsResObj(tree.fields[k]) -> KeyShape(tree.fields[k])
               [] OTHER -> tree.fields[k]])

FilteredByShapeOnTop(v, shape) ==
    HObj([k \in DOMAIN v.members \cap DOMAIN shape.members |-> v.members[k]])
FilteredByShape(v, shape) ==
    HObj([k \in DOMAIN v.members \cap DOMAIN shape.members |->
             IF IsHObj(v.members[k]) /\ IsHObj(shape.members[k])
             THEN FilteredByShape(v.members[k], shape.members[k])
             ELSE v.members[k]])

Restricted(r, tree) ==
    IF IsError(r) THEN r ELSE [value |-> FilteredByShape(r.value, KeyShape(tree))]

ResolveWith(c, source, allow) ==
    LET merged == {MergeUnresolved(tree, below) :
                      tree \in {SourceTree(c)}, below \in {HoconValueToResObj(source.root)}}
        resolved == {Restricted(r, SourceTree(c)) : r \in {ResolveTree(tree, allow) : tree \in merged}}
    IN  CASE ~source.resolved -> {[error |-> "not resolved"]}
          [] source.resolved /\ c.resolved -> {ResolvedConfig(c.root)}
          [] OTHER -> {AfterResolution(r, SourceTree(c), allow) : r \in resolved}
-----------------------------------------------------------------------------
(* Reading a config: a value, Nothing when it is absent, or an exception.  *)

LookupNode(c, path) == NavigateResolved(c.root, path)

LookupKeyOrPath(c, path) ==
    GetOr(c.root.members, PathText[path], LookupNode(c, path))

(* A placeholder at the path, below it, or where an object should be on    *)
(* the way to it.                                                          *)
RECURSIVE PathHasPlaceholders(_, _)
PathHasPlaceholdersBelow(v, rest) ==
    IF rest = <<>>
    THEN ValContainsPlaceholders(v)
    ELSE /\ IsObject(v) /\ rest[1] \in DOMAIN FieldsOf(v)
         /\ PathHasPlaceholders(FieldsOf(v)[rest[1]], Tail(rest))
PathHasPlaceholders(v, rest) ==
    IF rest = <<>> \/ ~IsObject(v)
    THEN ValContainsPlaceholders(v)
    ELSE rest[1] \in DOMAIN FieldsOf(v) /\ PathHasPlaceholders(FieldsOf(v)[rest[1]], Tail(rest))

SubtreeHasPlaceholders(c, path) ==
    c.pending # Nothing /\ PathHasPlaceholders(c.pending, path)

IsPendingKey(c, path) == c.pending # Nothing /\ PathText[path] \in DOMAIN FieldsOf(c.pending)

LiteralHasPlaceholdersIgnored(c, path) == SubtreeHasPlaceholders(c, path)
LiteralHasPlaceholders(c, path) ==
    IF IsPendingKey(c, path)
    THEN ValContainsPlaceholders(FieldsOf(c.pending)[PathText[path]])
    ELSE SubtreeHasPlaceholders(c, path)

IsHidden(c, path) == ~c.resolved /\ SubtreeHasPlaceholders(c, path)

(* get_value: an absent value, or one that is not a scalar, may hide a     *)
(* placeholder.                                                            *)
GetValue(c, path) ==
    LET v == LookupNode(c, path)
    IN  IF (v = Nothing \/ ~IsScalar(v)) /\ IsHidden(c, path) THEN NotResolved ELSE v

(* The typed getters tell an absent value first (a ConfigError, or         *)
(* NotResolvedError), and decode with them.                                *)
AbsentValue(c, path) == IF IsHidden(c, path) THEN NotResolved ELSE Nothing

RequireScalar(c, path) ==
    LET v == LookupNode(c, path)
    IN  CASE v = Nothing -> AbsentValue(c, path)
          [] v # Nothing /\ IsScalar(v) -> v
          [] OTHER -> Mistyped

GetConfig(c, path) ==
    LET v == LookupNode(c, path)
    IN  CASE v = Nothing -> AbsentValue(c, path)
          [] v # Nothing /\ ~IsHObj(v) -> Mistyped
          [] OTHER -> IF IsHidden(c, path) THEN NotResolved ELSE v

Decoded(c, path) ==
    LET v == LookupNode(c, path)
    IN  CASE v = Nothing -> AbsentValue(c, path)
          [] v # Nothing /\ IsHidden(c, path) -> NotResolved
          [] OTHER -> v

(* config[path] and get: a key of the text's own first, then the path.     *)
LookupResolved(c, path) ==
    LET v == LookupKeyOrPath(c, path)
        hidden == ~c.resolved /\ LiteralHasPlaceholders(c, path)
    IN  IF hidden /\ (IsPendingKey(c, path) \/ v = Nothing \/ ~IsScalar(v))
        THEN NotResolved
        ELSE v

TopLevelFields(c) ==
    IF c.resolved \/ c.pending = Nothing THEN c.root.members ELSE FieldsOf(c.pending)

RECURSIVE HasKey(_, _)
HasKey(v, rest) ==
    \/ rest = <<>>
    \/ IsObject(v) /\ rest[1] \in DOMAIN FieldsOf(v) /\ HasKey(FieldsOf(v)[rest[1]], Tail(rest))

PendingHasKey(c, path) == IsPendingKey(c, path) \/ (c.pending # Nothing /\ HasKey(c.pending, path))

Has(c, path) ==
    \/ ~c.resolved /\ PendingHasKey(c, path)
    \/ LookupKeyOrPath(c, path) # Nothing

(* path in config: the answer, or the exception.                           *)
ContainsPath(c, path) ==
    CASE \/ PathText[path] \in DOMAIN TopLevelFields(c)
         \/ LookupKeyOrPath(c, path) # Nothing -> "yes"
      [] c.resolved \/ c.pending = Nothing \/ ~LiteralHasPlaceholders(c, path) -> "no"
      [] OTHER -> IF PendingHasKey(c, path) THEN "yes" ELSE "unresolved"
=============================================================================
