------------------------------ MODULE PathTree ------------------------------
(***************************************************************************)
(* Nested dictionaries as functions from paths (non-empty sequences of     *)
(* segments) to what stands there: a value, or Dict for a dictionary.      *)
(***************************************************************************)
EXTENDS Naturals, Sequences

CONSTANTS Paths,  \* the paths that values are mounted at
          Values,
          Dict    \* stands for a dictionary
ASSUME DictAssumption == Dict \notin Values
ASSUME PathsAssumption == Paths \subseteq Seq(Nat) \ {<<>>}

ProperPrefixes(p) == {SubSeq(p, 1, n) : n \in 1..Len(p) - 1}

Put(tree, p, v) == [q \in DOMAIN tree \cup {p} |-> IF q = p THEN v ELSE tree[q]]

(* The tree of the values m mounted at the paths DOMAIN m: an object wins  *)
(* over a value, whichever was mounted first.                              *)
ViewOf(m) ==
    LET objects == UNION {ProperPrefixes(p) : p \in DOMAIN m}
    IN  [p \in DOMAIN m \cup objects |-> IF p \in objects THEN Dict ELSE m[p]]
=============================================================================
