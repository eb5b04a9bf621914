------------------------------ MODULE FlatTree ------------------------------
(***************************************************************************)
(* What phase 1 leaves for phase 2, for flat objects: the fields are       *)
(* strings, or concatenations of strings and references to fields          *)
(* (types.py).                                                             *)
(*                                                                         *)
(* A field or prior is a layer, the sequence of its parts; a layer of one  *)
(* part is that part, and a longer one is a ConcatPlaceholder.             *)
(***************************************************************************)
EXTENDS Integers, Sequences, FiniteSets

CONSTANTS
    Keys,          \* paths of one segment, those that exist and others
    Strings,       \* what texts are sequences of
    Environment    \* a text for each key that names an environment variable

Text == Seq(Strings)
Part == [kind : {"text"}, text : Text]
        \cup [kind : {"reference"}, key : Keys, optional : BOOLEAN, absent : BOOLEAN]
Layer == Seq(Part) \ {<<>>}
IsConcat(layer) == Len(layer) > 1

IsReference(part) == part.kind = "reference"
RefersTo(part, k) == IsReference(part) /\ ~part.absent /\ part.key = k
ContainsSubst(layer, k) == \E i \in DOMAIN layer : RefersTo(layer[i], k)

(* A field is in the order once, only fields have priors, and no prior     *)
(* refers to its own key: it was folded when it was saved.                 *)
IsTree(t) ==
    /\ DOMAIN t = {"order", "fields", "priors"}
    /\ DOMAIN t.fields \in SUBSET Keys /\ t.fields \in [DOMAIN t.fields -> Layer]
    /\ DOMAIN t.priors \in SUBSET DOMAIN t.fields /\ t.priors \in [DOMAIN t.priors -> Layer]
    /\ t.order \in Seq(DOMAIN t.fields)
    /\ \A i, j \in DOMAIN t.order : t.order[i] = t.order[j] => i = j
    /\ \A k \in DOMAIN t.priors : ~ContainsSubst(t.priors[k], k)

ASSUME EnvironmentAssumption ==
    DOMAIN Environment \in SUBSET Keys /\ Environment \in [DOMAIN Environment -> Text]
-----------------------------------------------------------------------------
(* A value is a text, or Nothing where the code has None.                  *)
Value == [found : BOOLEAN, text : Text]
Some(text) == [found |-> TRUE, text |-> text]
Nothing == [found |-> FALSE, text |-> <<>>]
Joined(v, w) == IF ~v.found THEN w ELSE IF ~w.found THEN v ELSE Some(v.text \o w.text)
=============================================================================
