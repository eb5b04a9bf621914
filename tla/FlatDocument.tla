---------------------------- MODULE FlatDocument ----------------------------
(***************************************************************************)
(* Phase 1 on flat documents: the tree that a sequence of assignments to   *)
(* keys of one segment builds (structure_builder.py, fold_self_ref.py),    *)
(* and what the sequence means.  The values are texts, references and      *)
(* concatenations of these, as in ReferenceEvaluation.                     *)
(*                                                                         *)
(* A meaning is stated without priors and without replacing anything: the  *)
(* layers of a key lie one upon the other, and a reference of a layer to   *)
(* its own key means what lies below.                                      *)
(*                                                                         *)
(* OldPriorForgotten is OldPrior with a mistake in it, to see that the     *)
(* properties notice; nothing uses it.                                     *)
(***************************************************************************)
EXTENDS FlatMeaning

(* What the parser makes of a value: no reference is known to be absent.   *)
Written(layer) == \A i \in DOMAIN layer : IsReference(layer[i]) => ~layer[i].absent
Assignment == {a \in [key : Keys, layer : Layer] : Written(a.layer)}

KeysOf(d) == {d[i].key : i \in DOMAIN d}
-----------------------------------------------------------------------------
(* The prior that is saved when a layer of k is replaced; <<>> is none.    *)
NoPrior == <<>>
OldPriorForgotten(t, k) == NoPrior
OldPrior(t, k) == IF k \in DOMAIN t.priors THEN t.priors[k] ELSE NoPrior

(* The parts at the given places replaced by a layer.                      *)
Replaced(layer, places, other) ==
    LET upTo[i \in 0..Len(layer)] ==
            IF i = 0 THEN <<>>
            ELSE upTo[i - 1] \o (IF i \in places THEN other ELSE <<layer[i]>>)
    IN  upTo[Len(layer)]

(* Every reference to k replaced by the old prior.                         *)
FoldSelfRef(layer, k, old) == Replaced(layer, {i \in DOMAIN layer : RefersTo(layer[i], k)}, old)

(* Nothing below: optional references to k are marked absent, a required   *)
(* one makes the layer void.                                               *)
FoldOptionalSelfRefAbsent(layer, k) ==
    IF \E i \in DOMAIN layer : RefersTo(layer[i], k) /\ ~layer[i].optional
    THEN NoPrior
    ELSE [i \in DOMAIN layer |-> IF RefersTo(layer[i], k) THEN [layer[i] EXCEPT !.absent = TRUE]
                                                          ELSE layer[i]]

FoldOrSkipPrior(layer, k, old) ==
    IF ~ContainsSubst(layer, k) THEN layer
    ELSE IF old = NoPrior THEN FoldOptionalSelfRefAbsent(layer, k)
    ELSE FoldSelfRef(layer, k, old)

Put(f, k, x) == [j \in DOMAIN f \cup {k} |-> IF j = k THEN x ELSE f[j]]

(* What is saved when k is assigned anew; a key without a field has none.  *)
Saved(t, k) == IF k \in DOMAIN t.fields THEN FoldOrSkipPrior(t.fields[k], k, OldPrior(t, k)) ELSE NoPrior

(* _apply_field: the layer that is there becomes a prior, and the key      *)
(* stays where it is in the order.                                         *)
Assign(t, k, layer) ==
    [order  |-> IF k \in DOMAIN t.fields THEN t.order ELSE Append(t.order, k),
     fields |-> Put(t.fields, k, layer),
     priors |-> IF Saved(t, k) = NoPrior THEN t.priors ELSE Put(t.priors, k, Saved(t, k))]

EmptyTree == [order |-> <<>>, fields |-> [k \in {} |-> <<>>], priors |-> [k \in {} |-> <<>>]]

(* The tree after each number of assignments.                              *)
Building(d) ==
    LET at[i \in 0..Len(d)] ==
            IF i = 0 THEN EmptyTree ELSE Assign(at[i - 1], d[i].key, d[i].layer)
    IN  at
Built(d) == Building(d)[Len(d)]
-----------------------------------------------------------------------------
(* In the operators below, level has the meanings of the keys of d, one    *)
(* level of references below.  A stack of layers is what the top one       *)
(* means, and what a reference in it to its own key means.                 *)
NoLayer == Wrong("none")
NoLayers == [top |-> NoLayer, below |-> NoLayer]

OtherMeaning(d, part, level) ==
    IF ~IsReference(part) THEN Good(Some(part.text))
    ELSE IF part.key \in KeysOf(d) THEN Demanded(part, level[part.key])
    ELSE IF part.key \in DOMAIN Environment THEN Good(Some(Environment[part.key]))
    ELSE NoProvider(part)

PartOver(d, k, part, below, level) ==
    IF ~RefersTo(part, k) THEN OtherMeaning(d, part, level)
    ELSE IF below = NoLayer THEN NoProvider(part)
    ELSE Demanded(part, below)

LayerOver(d, k, layer, below, level) ==
    Together([j \in DOMAIN layer |-> PartOver(d, k, layer[j], below, level)], Len(layer))

(* A layer that comes to nothing leaves the key to the layer below, but a  *)
(* reference to the key sees that only after the field is evaluated, and a *)
(* layer above it does not see it.                                         *)
LeavesToBelow(s) == IsGood(s.top) /\ ~s.top.value.found /\ s.below # NoLayer
Seen(s) == IF LeavesToBelow(s) THEN Unclear ELSE s.top
Left(s) == IF LeavesToBelow(s) THEN s.below ELSE s.top

LaidOver(d, k, layer, s, level) ==
    [top |-> LayerOver(d, k, layer, Seen(s), level), below |-> Seen(s)]

(* The layers of k among the first assignments of d.                       *)
Stacks(d, k, level) ==
    LET at[i \in 0..Len(d)] ==
            IF i = 0 THEN NoLayers
            ELSE IF d[i].key # k THEN at[i - 1]
            ELSE LaidOver(d, k, d[i].layer, at[i - 1], level)
    IN  at
Stack(d, k, level) == Stacks(d, k, level)[Len(d)]

(* What every key of d means with n levels below it.                       *)
DocumentLevels(d) ==
    LET at[n \in Nat] ==
            [k \in KeysOf(d) |-> IF n = 0 THEN Endless ELSE Seen(Stack(d, k, at[n - 1]))]
    IN  at

DocumentMeans(d, k, n) == Left(Stack(d, k, DocumentLevels(d)[n]))
=============================================================================
