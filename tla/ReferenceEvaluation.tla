------------------------ MODULE ReferenceEvaluation ------------------------
(***************************************************************************)
(* Phase 2 of the resolver once more (substitution_resolver.py), this time *)
(* one call at a time and on flat trees only: the fields are strings, or   *)
(* concatenations of strings and references to fields.  What is left is    *)
(* the part that makes phase 2 hard, the depth-first evaluation with its   *)
(* cache, its guard against cycles and the priors it falls back to; it is  *)
(* small enough here to be proved about for every tree.  Resolution is     *)
(* strict (allow_unresolved is off).                                       *)
(*                                                                         *)
(* An operator whose name has a suffix and which stands just before the    *)
(* operator of the plain name (JoiningAny, Joining) is the same with a      *)
(* mistake in it, to see that the properties notice; nothing uses it.      *)
(***************************************************************************)
EXTENDS FlatTree

CONSTANTS
    Trees,         \* the trees to evaluate
    MaxRecursion   \* sys.getrecursionlimit(), in nested evaluations

VARIABLES
    tree,          \* the fields in their order, and their priors
    frames,        \* the evaluations that wait for each other, the inmost one last
    cache,         \* the value remembered for each key, Nothing if there is none
    resolving,     \* the keys being resolved: the guard against cycles
    concats,       \* the keys of the concatenations being joined (resolving_concats)
    result,        \* the value of each key so far
    next,          \* the field that comes next
    outcome        \* "running", "resolved" or the exception

vars == <<tree, frames, cache, resolving, concats, result, next, outcome>>

Fields == DOMAIN tree.fields
Priors == DOMAIN tree.priors

ASSUME TreesAssumption == \A t \in Trees : IsTree(t)
ASSUME MaxRecursionAssumption == MaxRecursion \in Nat \ {0}
-----------------------------------------------------------------------------
(* The evaluation of a layer of a key: part at comes next, and value is    *)
(* what the parts before it gave.                                          *)
(*   field     the field itself, in the loop over all fields               *)
(*   fallback  its prior, when the field came to nothing                   *)
(*   found     a field that a reference reached                            *)
(*   lookback  the prior, for a reference inside its own field             *)
(*   cycle     the prior, for a key that is being resolved already         *)
Kinds == {"field", "fallback", "found", "lookback", "cycle"}
Frame == [what : Kinds, key : Keys, layer : Layer, at : Nat, value : Value, saved : SUBSET Keys]
Evaluating(what, k, layer) ==
    [what |-> what, key |-> k, layer |-> layer, at |-> 1, value |-> Nothing, saved |-> resolving]

Taken(f, v) == [f EXCEPT !.at = @ + 1, !.value = Joined(@, v)]

Top == frames[Len(frames)]
Owner == frames[1].key           \* resolving_field_path
Waiting == outcome = "running" /\ frames # <<>>
AtPart == Waiting /\ Top.at <= Len(Top.layer)
AtEnd == Waiting /\ Top.at > Len(Top.layer)
Ref == Top.layer[Top.at]
AtReference == AtPart /\ IsReference(Ref)

Raise(why) == outcome' = why /\ UNCHANGED <<tree, frames, cache, resolving, concats, result, next>>

(* The part at hand gave v.                                                *)
Take(v) == frames' = [frames EXCEPT ![Len(frames)] = Taken(@, v)]

(* Nothing provides a value for the reference at hand.                     *)
UnprovidedRaising(why) == Raise(why)
Unprovided(why) ==
    IF Ref.optional
    THEN Take(Nothing) /\ UNCHANGED <<tree, cache, resolving, concats, result, next, outcome>>
    ELSE Raise(why)

(* The layer of the key of the reference at hand is evaluated.             *)
Call(what, layer, guards, joining) ==
    IF Len(frames) >= MaxRecursion
    THEN Raise("recursion")
    ELSE /\ frames' = Append(frames, Evaluating(what, Ref.key, layer))
         /\ resolving' = guards
         /\ concats' = joining
         /\ UNCHANGED <<tree, cache, result, next, outcome>>

JoiningAny(k) == concats \cup {k}
Joining(k) == IF IsConcat(tree.fields[k]) THEN concats \cup {k} ELSE concats

Remembered(k, v) == IF v.found THEN [cache EXCEPT ![k] = v] ELSE cache
-----------------------------------------------------------------------------
Init ==
    /\ tree \in Trees
    /\ frames = <<>>
    /\ cache = [k \in Keys |-> Nothing]
    /\ resolving = {} /\ concats = {}
    /\ result = [k \in Keys |-> Nothing]
    /\ next = 1
    /\ outcome = "running"

(* The loop of _resolve_res_obj.  What a reference cached for the field    *)
(* before is forgotten: the field looks back at its own prior.             *)
EnteredWarm(k) == cache
Entered(k) == [cache EXCEPT ![k] = Nothing]
EnterField ==
    /\ outcome = "running" /\ frames = <<>> /\ next <= Len(tree.order)
    /\ LET k == tree.order[next]
       IN  /\ frames' = <<Evaluating("field", k, tree.fields[k])>>
           /\ cache' = Entered(k)
           /\ concats' = Joining(k)
    /\ UNCHANGED <<tree, resolving, result, next, outcome>>

Finish ==
    /\ outcome = "running" /\ frames = <<>> /\ next > Len(tree.order)
    /\ outcome' = "resolved"
    /\ UNCHANGED <<tree, frames, cache, resolving, concats, result, next>>

TakeText ==
    /\ AtPart /\ ~IsReference(Ref)
    /\ Take(Some(Ref.text))
    /\ UNCHANGED <<tree, cache, resolving, concats, result, next, outcome>>

(* _resolve_subst, branch by branch.                                       *)
KnownAbsent == AtReference /\ Ref.absent /\ Unprovided("could not resolve")

Uncached == AtReference /\ ~Ref.absent /\ ~cache[Ref.key].found
Unguarded == Uncached /\ Ref.key \notin resolving

Cached ==
    /\ AtReference /\ ~Ref.absent /\ cache[Ref.key].found
    /\ Take(cache[Ref.key])
    /\ UNCHANGED <<tree, cache, resolving, concats, result, next, outcome>>

Cycle ==
    /\ Uncached /\ Ref.key \in resolving
    /\ IF Ref.key \in Priors
       THEN Call("cycle", tree.priors[Ref.key], resolving, concats)
       ELSE Unprovided("circular")

(* The field that is being evaluated looks at itself: the owner gate.      *)
IsSelfRefByOwner(k) == k = Owner /\ ContainsSubst(tree.fields[k], k)
IsSelfRef(k) ==
    \/ IsConcat(tree.fields[k]) /\ k \in concats
    \/ k = Owner /\ ContainsSubst(tree.fields[k], k)

LookBack ==
    /\ Unguarded /\ Ref.key \in Fields /\ IsSelfRef(Ref.key)
    /\ IF Ref.key \in Priors
       THEN Call("lookback", tree.priors[Ref.key], resolving \cup {Ref.key}, concats)
       ELSE Unprovided("could not resolve")

Follow ==
    /\ Unguarded /\ Ref.key \in Fields /\ ~IsSelfRef(Ref.key)
    /\ Call("found", tree.fields[Ref.key], resolving \cup {Ref.key}, Joining(Ref.key))

FromEnvironment ==
    /\ Unguarded /\ Ref.key \notin Fields
    /\ IF Ref.key \in DOMAIN Environment
       THEN LET v == Some(Environment[Ref.key])
            IN  /\ Take(v)
                /\ cache' = Remembered(Ref.key, v)
                /\ UNCHANGED <<tree, resolving, concats, result, next, outcome>>
       ELSE Unprovided("could not resolve")

(* A referenced layer is done: its value goes to the reference.            *)
Back(v) ==
    frames' = [i \in 1..Len(frames) - 1 |->
                  IF i = Len(frames) - 1 THEN Taken(frames[i], v) ELSE frames[i]]

Return ==
    /\ AtEnd /\ Top.what \in {"found", "lookback"}
    /\ Back(Top.value)
    /\ cache' = Remembered(Top.key, Top.value)
    /\ resolving' = resolving \ {Top.key}
    /\ concats' = IF Top.what = "found" THEN concats \ {Top.key} ELSE concats
    /\ UNCHANGED <<tree, result, next, outcome>>

ReturnFromCycle ==
    /\ AtEnd /\ Top.what = "cycle"
    /\ Back(Top.value)
    /\ resolving' = Top.saved
    /\ UNCHANGED <<tree, cache, concats, result, next, outcome>>

(* The field is done: its value, or that of its prior, is stored.          *)
Stored(k, v) ==
    /\ frames' = <<>>
    /\ cache' = Remembered(k, v)
    /\ result' = [result EXCEPT ![k] = v]
    /\ next' = next + 1
    /\ UNCHANGED <<tree, resolving, outcome>>

FallBack ==
    /\ AtEnd /\ Top.what = "field" /\ ~Top.value.found /\ Top.key \in Priors
    /\ frames' = <<Evaluating("fallback", Top.key, tree.priors[Top.key])>>
    /\ concats' = concats \ {Top.key}
    /\ UNCHANGED <<tree, cache, resolving, result, next, outcome>>

StoreField ==
    /\ AtEnd /\ Top.what = "field" /\ (Top.value.found \/ Top.key \notin Priors)
    /\ Stored(Top.key, Top.value)
    /\ concats' = concats \ {Top.key}

StoreFallback ==
    /\ AtEnd /\ Top.what = "fallback"
    /\ Stored(Top.key, Top.value)
    /\ UNCHANGED concats

Next ==
    \/ EnterField \/ Finish \/ TakeText \/ KnownAbsent \/ Cached \/ Cycle \/ LookBack \/ Follow
    \/ FromEnvironment \/ Return \/ ReturnFromCycle \/ FallBack \/ StoreField \/ StoreFallback

Spec == Init /\ [][Next]_vars
=============================================================================
