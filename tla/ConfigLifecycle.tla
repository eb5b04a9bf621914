-------------------------- MODULE ConfigLifecycle --------------------------
(***************************************************************************)
(* What a program does with configs: it parses documents, resolved at once *)
(* or deferred, layers them over each other with with_fallback, resolves   *)
(* them, in part (allow_unresolved) or entirely, resolves one against      *)
(* another, and reads values at any time in between (config.py, parse.py). *)
(*                                                                         *)
(* The promise: a config stands for ONE document, the documents it was     *)
(* made of written one after the other, the last fallback first.  The      *)
(* variable document keeps it; the program has no such thing.  Meanings    *)
(* are those of module HoconSemantics.                                     *)
(***************************************************************************)
EXTENDS ConfigTree, HoconSemantics

CONSTANTS
    Stacks,       \* sets of documents: a config is layered from documents of one,
                  \* each of them used once
    Sources,      \* the documents to resolve others against
    MaxSteps      \* bound: operations applied to the config

ASSUME MaxStepsAssumption == MaxSteps \in Nat

VARIABLES
    config,       \* the Config in hand
    document,     \* the document it stands for
    other,        \* a second Config, just parsed, or Nothing
    beside,       \* the document it stands for
    context,      \* the source its values were last resolved against, <<>> if none
    final,        \* what the document, after that source, means: key by key
    left,         \* the documents of the stack that were not used yet
    raised,       \* the exception of the last operation, NoError if there was none
    steps

configVars == <<config, document, other, beside, context, final, left, raised, steps>>

(* A document of literals: what a config stands for once it is resolved.   *)
RECURSIVE Literal(_), LiteralFields(_, _)
LiteralFields(members, keys) ==
    [i \in DOMAIN keys |-> Field(<<keys[i]>>, Literal(members[keys[i]]))]
Literal(v) ==
    CASE IsHObj(v) -> AstObject(LiteralFields(v.members, SetToSeq(DOMAIN v.members)))
      [] IsArr(v)  -> Arr([i \in DOMAIN v.items |-> Literal(v.items[i])])
      [] OTHER     -> v

Restated(c, d) ==
    IF c.resolved /\ c.tree = Nothing
    THEN LiteralFields(c.root.members, SetToSeq(DOMAIN c.root.members))
    ELSE d
-----------------------------------------------------------------------------
(* An operation on the config in hand that gave c, or raised.              *)
Gives(c, d, against) ==
    /\ steps < MaxSteps
    /\ steps' = steps + 1
    /\ IF IsError(c)
       THEN raised' = c.error /\ UNCHANGED <<config, document, context, final>>
       ELSE /\ raised' = NoError
            /\ config' = c
            /\ document' = d
            /\ context' = against
            /\ final' = KeyMeanings(Layers(against \o d))

Init ==
    /\ \E stack \in Stacks : \E d \in stack :
           /\ config \in ParseDeferred(d)
           /\ document = d
           /\ final = KeyMeanings(Layers(d))
           /\ left = stack \ {d}
    /\ other = Nothing
    /\ beside = <<>>
    /\ context = <<>>
    /\ raised = NoError
    /\ steps = 0

(* A second document is parsed, its resolution deferred or not; what was   *)
(* deferred can be resolved in part.                                       *)
Reads(d) == /\ steps < MaxSteps
            /\ other = Nothing
            /\ beside' = d
            /\ left' = left \ {d}
            /\ UNCHANGED <<config, document, context, final, raised, steps>>

Parse == \E d \in left \cup Sources : Reads(d) /\ other' \in ParseDeferred(d)

ParseResolved ==
    \E d \in left \cup Sources : \E c \in ParseFused(d) :
        Reads(d) /\ ~IsError(c) /\ other' = c

ResolveOther ==
    /\ other # Nothing
    /\ ~other.resolved
    /\ other' \in ResolveConfig(other, TRUE)
    /\ UNCHANGED <<config, document, beside, context, final, left, raised, steps>>

LetGo == other' = Nothing /\ beside' = <<>> /\ UNCHANGED left

(* The config in hand over the other one, and under it.                    *)
LayOver ==
    /\ other # Nothing /\ beside \notin Sources
    /\ \E c \in WithFallback(config, other) :
           Gives(c, Restated(other, beside) \o Restated(config, document), <<>>)
    /\ LetGo

LayUnder ==
    /\ other # Nothing /\ beside \notin Sources
    /\ \E c \in WithFallback(other, config) :
           Gives(c, Restated(config, document) \o Restated(other, beside), <<>>)
    /\ LetGo

(* Resolving a resolved config gives it back.                              *)
Resolve ==
    /\ other = Nothing
    /\ \E allow \in BOOLEAN : \E c \in ResolveConfig(config, allow) :
           Gives(c, Restated(config, document), <<>>)
    /\ UNCHANGED <<other, beside, left>>

(* A resolved config ignores the source, which must be resolved itself.    *)
ResolveAgainst ==
    /\ other # Nothing /\ beside \in Sources
    /\ \E allow \in BOOLEAN : \E c \in ResolveWith(config, other, allow) :
           Gives(c, Restated(config, document), IF config.resolved THEN <<>> ELSE beside)
    /\ LetGo

Next == Parse \/ ParseResolved \/ ResolveOther \/ LayOver \/ LayUnder \/ Resolve \/ ResolveAgainst

Spec == Init /\ [][Next]_configVars
-----------------------------------------------------------------------------
Paths == DOMAIN PathText

(* What a getter may answer, short of an exception.                        *)
Answers(c, path) ==
    {GetValue(c, path), RequireScalar(c, path), GetConfig(c, path), Decoded(c, path)}
        \ {NotResolved, Mistyped}

(* What path ends up as.  A key may have a bad meaning; nothing is known   *)
(* then of the paths below it.                                             *)
FinalAt(path) ==
    LET whole == GetOr(final, path[1], Nothing)
    IN  IF Len(path) > 1 /\ IsBad(whole) THEN Blocked ELSE NavigateResolved(whole, Tail(path))

(* A resolution against a source keeps the keys of the receiver only: of   *)
(* what it gives, just the leaves can be compared.                         *)
Contradicts(answer, value) ==
    CASE value = Undefined -> context = <<>>
      [] IsBad(value) -> FALSE
      [] OTHER -> answer # value /\ (context = <<>> \/ (answer # Nothing /\ ~IsHObj(answer)))

(* A value that is read, whatever was resolved so far, is the value that   *)
(* the config ends up with, absent ones included; a key that cannot be     *)
(* resolved is never read as anything: it raises NotResolvedError and      *)
(* does not silently disappear (config.py:154-156).                        *)
ReadsAreFinal ==
    \A p \in Paths : \A v \in Answers(config, p) : ~Contradicts(v, FinalAt(p))

(* config[path] is the value under the key of that text, which wins over   *)
(* the path, also while the one is unresolved and the other is not.        *)
LiteralKeysWin ==
    \A p \in Paths : \A v \in {LookupResolved(config, p)} :
        v = NotResolved \/ ~Contradicts(v, IF GetOr(final, PathText[p], Nothing) # Nothing
                                           THEN final[PathText[p]]
                                           ELSE FinalAt(p))

(* No key and no path that has a value in the end is reported absent: it   *)
(* is there, or the question cannot be answered yet; and has() agrees      *)
(* wherever `in` knows the answer.                                         *)
NothingDisappears ==
    \A p \in Paths : context = <<>> =>
        /\ FinalAt(p) = Undefined \/ (FinalAt(p) # Nothing /\ ~IsBad(FinalAt(p)))
               => ContainsPath(config, p) # "no"
        /\ ContainsPath(config, p) = "yes" => Has(config, p)

(* A prior saved when layers merge is free of references to its own key,   *)
(* so that looking back through the layers ends (types.py:153-154).        *)
LayersLookBackOnly == config.tree = Nothing \/ LooksBackOnly(config.tree)

(* Resolving the config in hand gives what the layers mean when they are   *)
(* written as one document, whatever was resolved in part before.          *)
ResolvesToLayers ==
    \A meaning \in {Assembled(final)} :
        context # <<>> \/ IsBad(meaning) \/ ResolveConfig(config, FALSE) = {ResolvedConfig(meaning)}

(* Resolving against a source brings in none of its keys: every path of    *)
(* the result is one the receiver has, or leads through one of its         *)
(* substitutions (config.py:415-416).                                      *)
SourceStaysOutside ==
    context # <<>> => \A tree \in {Build(document, <<>>)} : \A p \in Paths :
        LookupNode(config, p) # Nothing => HasKey(tree, p) \/ PathHasPlaceholders(tree, p)
=============================================================================
