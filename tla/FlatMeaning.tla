------------------------------ MODULE FlatMeaning -----------------------------
(***************************************************************************)
(* What the keys of a flat tree mean, stated without an order, a cache or  *)
(* a guard: a reference means what the layers of its key mean, down to a   *)
(* given number of levels.  A key that depends on itself has no meaning at *)
(* any number of levels.                                                   *)
(*                                                                         *)
(* A meaning is a record: why is "value" or what is wrong, and value is    *)
(* the value if nothing is.                                                *)
(***************************************************************************)
EXTENDS FlatTree

Whys == {"value", "endless", "missing", "empty", "unclear"}
Meaning == [why : Whys, value : Value]

Good(v) == [why |-> "value", value |-> v]
Wrong(why) == [why |-> why, value |-> Nothing]
IsGood(m) == m.why = "value"
Endless == Wrong("endless")     \* there are references below the given levels
Missing == Wrong("missing")     \* a required reference that leads nowhere
Empty == Wrong("empty")         \* a required reference to a key without a value
Unclear == Wrong("unclear")     \* a reference may see the field or what it falls back to

(* Two parts of a layer: the worse of what is wrong wins.                  *)
Both(r, s) ==
    IF IsGood(r) /\ IsGood(s) THEN Good(Joined(r.value, s.value))
    ELSE IF "endless" \in {r.why, s.why} THEN Endless
    ELSE IF "missing" \in {r.why, s.why} THEN Missing
    ELSE IF "empty" \in {r.why, s.why} THEN Empty
    ELSE Unclear

(* The first n of some meanings together.                                  *)
Together(meanings, n) ==
    LET upTo[i \in 0..n] == IF i = 0 THEN Good(Nothing) ELSE Both(upTo[i - 1], meanings[i])
    IN  upTo[n]
-----------------------------------------------------------------------------
(* In the operators below, t is the tree and level has the meanings of its *)
(* keys one level below.                                                   *)

NoProvider(part) == IF part.optional THEN Good(Nothing) ELSE Missing

(* What a reference means that leads to something of meaning m: a required *)
(* one is an error if that has come to nothing (docs/spec-compliance.md,   *)
(* S13.10), though the key is there.                                       *)
Demanded(part, m) == IF m = Good(Nothing) /\ ~part.optional THEN Empty ELSE m

(* A part of a prior, or a part of a field that does not look back.        *)
PlainMeaning(t, part, level) ==
    IF ~IsReference(part) THEN Good(Some(part.text))
    ELSE IF part.absent THEN NoProvider(part)
    ELSE IF part.key \in DOMAIN t.fields THEN Demanded(part, level[part.key])
    ELSE IF part.key \in DOMAIN Environment THEN Good(Some(Environment[part.key]))
    ELSE NoProvider(part)

PriorMeanings(t, k, level) ==
    [i \in DOMAIN t.priors[k] |-> PlainMeaning(t, t.priors[k][i], level)]
PriorMeaning(t, k, level) == Together(PriorMeanings(t, k, level), Len(t.priors[k]))

(* A part of field k: a reference to k looks back.                         *)
PartMeaning(t, k, part, level) ==
    IF ~RefersTo(part, k) THEN PlainMeaning(t, part, level)
    ELSE IF k \in DOMAIN t.priors THEN Demanded(part, PriorMeaning(t, k, level))
    ELSE NoProvider(part)

LayerMeanings(t, k, level) ==
    [i \in DOMAIN t.fields[k] |-> PartMeaning(t, k, t.fields[k][i], level)]
LayerMeaning(t, k, level) == Together(LayerMeanings(t, k, level), Len(t.fields[k]))

ComesToNothing(t, k, m) == IsGood(m) /\ ~m.value.found /\ k \in DOMAIN t.priors

(* What a reference to k means, and what k is in the result.  Where a      *)
(* field comes to nothing, the result has its prior, but a reference sees  *)
(* that only after the field.                                              *)
KeyMeaning(t, k, level) ==
    LET m == LayerMeaning(t, k, level)
    IN  IF ComesToNothing(t, k, m) THEN Unclear ELSE m

FieldMeaning(t, k, level) ==
    LET m == LayerMeaning(t, k, level)
    IN  IF ComesToNothing(t, k, m) THEN PriorMeaning(t, k, level) ELSE m

(* What every key means with n levels below it.                            *)
Levels(t) ==
    LET at[n \in Nat] ==
            [k \in DOMAIN t.fields |-> IF n = 0 THEN Endless ELSE KeyMeaning(t, k, at[n - 1])]
    IN  at

(* References that do not run in circles are shorter than this.            *)
Depth == Cardinality(Keys)
=============================================================================
