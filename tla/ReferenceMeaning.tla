-------------------------- MODULE ReferenceMeaning --------------------------
(***************************************************************************)
(* What the evaluation of references promises: every key of a tree gets    *)
(* the meaning that it has in FlatMeaning, and every key of a document     *)
(* the meaning that it has in FlatDocument.                                *)
(***************************************************************************)
EXTENDS ReferenceEvaluation, FlatDocument

CONSTANT Documents   \* sequences of assignments

ASSUME DocumentsAssumption == \A d \in Documents : d \in Seq(Assignment)

Writings == {<<d, Built(d)>> : d \in Documents}
Meant(k, n) == FieldMeaning(tree, k, Levels(tree)[n])
-----------------------------------------------------------------------------
(* The guard has exactly the keys whose evaluation was called by a         *)
(* reference and not answered, none of them twice, and the concatenations  *)
(* marked are those being joined: sets that are filled and emptied on the  *)
(* way in and out, with one of them copied and put back                    *)
(* (substitution_resolver.py:131, 229, 240).                               *)
Guarded == {i \in DOMAIN frames : frames[i].what \in {"found", "lookback"}}
Joiners == {i \in DOMAIN frames : frames[i].what \in {"field", "found"} /\ IsConcat(frames[i].layer)}
GuardIsExact ==
    /\ resolving = {frames[i].key : i \in Guarded}
    /\ concats = {frames[i].key : i \in Joiners}
    /\ \A i, j \in Guarded : frames[i].key = frames[j].key => i = j

(* A key that has a meaning gets it, in whatever order the fields are      *)
(* evaluated, whatever was cached on the way and whatever circles there    *)
(* are among the other keys; and a required reference to something that    *)
(* neither the tree nor the environment has is never passed over           *)
(* (substitution_resolver.py:62, 221).  Nothing is promised of keys with   *)
(* the fault "empty": see RequiredHasAValue.                               *)
KeysGetTheirMeaning ==
    \A i \in DOMAIN tree.order : i < next =>
        LET k == tree.order[i]
            m == Meant(k, Depth)
        IN  m.why # "missing" /\ (IsGood(m) => result[k] = m.value)

(* A required reference to a key that comes to nothing is an error, as one *)
(* to a key that is not there (docs/spec-compliance.md:425, S13.10).       *)
RequiredHasAValue ==
    outcome = "resolved" => \A k \in Fields : Meant(k, Depth).why \notin {"missing", "empty"}

(* A tree whose keys all have a meaning is not rejected, neither as a      *)
(* circle nor for its depth.                                               *)
ErrorsHaveACause ==
    outcome \notin {"running", "resolved"} =>
        \/ \E k \in Fields : ~IsGood(Meant(k, Depth))
        \/ outcome = "recursion" /\ MaxRecursion <= 2 * Depth + 1

(* Phase 1 and phase 2 together: when a document is resolved, each of its  *)
(* keys that has a meaning has got it, through whatever chain of priors    *)
(* was saved, folded, cached and looked back at; and a document is         *)
(* rejected only if one of its keys has no meaning, or for its depth       *)
(* (structure_builder.py:108, fold_self_ref.py:282,                        *)
(* substitution_resolver.py:62, 221).  Of `a = ${?d}, b = ${a}` it asks    *)
(* neither a value of b nor that it is resolved: b is "empty".             *)
DocumentsGetTheirMeaning ==
    outcome # "running" =>
        \A w \in Writings : w[2] = tree =>
            LET Means(k) == DocumentMeans(w[1], k, Depth)
            IN  IF outcome = "resolved"
                THEN \A k \in KeysOf(w[1]) : IsGood(Means(k)) => result[k] = Means(k).value
                ELSE \/ \E k \in KeysOf(w[1]) : ~IsGood(Means(k))
                     \/ outcome = "recursion" /\ MaxRecursion <= 2 * Depth + 1
=============================================================================
