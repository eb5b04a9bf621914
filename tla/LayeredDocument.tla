--------------------------- MODULE LayeredDocument ---------------------------
(***************************************************************************)
(* Flat documents that come in pieces: files that include each other at    *)
(* their top level (include_loader.py, utils.py), and configurations that  *)
(* are parsed without being resolved and then layered with with_fallback   *)
(* (config.py, types.py).  The pieces have priors of their own by the time *)
(* they are put together.                                                  *)
(*                                                                         *)
(* What the pieces come to is compared with the document that has all      *)
(* their assignments in one sequence, as the HOCON specification has it.   *)
(* The fields doc, exact and clear of a piece are history: the program     *)
(* does not have them.                                                     *)
(*                                                                         *)
(* An operator whose name has a suffix and which stands just before the    *)
(* operator of the plain name (MergedPriorAsIs, MergedPrior) is the same   *)
(* with a mistake in it, to see that the properties notice.                *)
(***************************************************************************)
EXTENDS FlatDocument

CONSTANTS
    Assignments,      \* the fields that a text may have
    MaxAssignments,   \* bound: assignments made altogether
    MaxNesting,       \* bound: texts being built at once, one including the next
    MaxConfigs        \* bound: configurations parsed and layered

ASSUME AssignmentsAssumption == Assignments \subseteq Assignment
ASSUME BoundsAssumption == MaxAssignments \in Nat /\ MaxNesting \in Nat /\ MaxConfigs \in Nat

VARIABLES
    building,   \* the texts under way, each included by the one before it
    configs,    \* the configurations there are
    assigned     \* how many assignments were made

configVars == <<building, configs, assigned>>
-----------------------------------------------------------------------------
(* The layers of k in a document, from the first to the last.              *)
Of(d, k) == {i \in DOMAIN d : d[i].key = k}
RefersBack(d, i) == ContainsSubst(d[i].layer, d[i].key)
First(d, k) == CHOOSE i \in Of(d, k) : \A j \in Of(d, k) : i <= j
Last(d, k) == CHOOSE i \in Of(d, k) : \A j \in Of(d, k) : j <= i

Single(d, k) == First(d, k) = Last(d, k)
Settles(d, k) == \E i \in Of(d, k) : ~RefersBack(d, i)
SettlesBelow(d, k) == \E i \in Of(d, k) : ~RefersBack(d, i) /\ i # Last(d, k)

(* A reference of the first layer to its own key may stay without a value. *)
Foldable(d, k) == FoldOptionalSelfRefAbsent(d[First(d, k)].layer, k) # NoPrior
Folds(d, k) == Single(d, k) \/ Foldable(d, k)

(* When e, included in or layered over d, does to the shared key k exactly *)
(* what its assignments would do in place, and when a reference to k       *)
(* cannot tell the difference.                                             *)
IncludesExactly(e, k) == SettlesBelow(e, k) \/ (~Settles(e, k) /\ Folds(e, k))
IncludesClearly(e, k) == Settles(e, k) \/ Folds(e, k)

LayersSimply(d, e, k) == Single(e, k) /\ (Single(d, k) \/ ~RefersBack(d, Last(d, k)))
LayersExactly(d, e, k) == SettlesBelow(e, k) \/ LayersSimply(d, e, k)
LayersClearly(d, e, k) == Settles(e, k) \/ LayersSimply(d, e, k)

Shared(d, e) == KeysOf(d) \cap KeysOf(e)
-----------------------------------------------------------------------------
Over(f, g) == [k \in DOMAIN f \cup DOMAIN g |-> IF k \in DOMAIN f THEN f[k] ELSE g[k]]

(* A dict keeps a key where it was first put.                              *)
WithKey(order, k) == IF \E i \in DOMAIN order : order[i] = k THEN order ELSE Append(order, k)
WithKeys(order, more) ==
    LET upTo[i \in 0..Len(more)] == IF i = 0 THEN order ELSE WithKey(upTo[i - 1], more[i])
    IN  upTo[Len(more)]

(* The tree whose priors are those of prior that are not NoPrior.          *)
TreeWith(order, fields, prior) ==
    [order |-> order, fields |-> fields,
     priors |-> [k \in {j \in DOMAIN prior : prior[j] # NoPrior} |-> prior[k]]]

(* Every reference to k that was found to be absent replaced.              *)
FoldKnownAbsent(layer, k, other) ==
    Replaced(layer, {i \in DOMAIN layer : IsReference(layer[i]) /\ layer[i].absent /\ layer[i].key = k},
             other)

(* deep_merge_res_obj_into: the tree of src goes into that of dst.  The    *)
(* prior of a shared key is that of src on top of the layers of dst, and   *)
(* that of src alone where src has set the key anew.                       *)
SplicedPriorOnTop(dst, src, k) ==
    IF k \notin DOMAIN dst.tree.fields \cap DOMAIN src.tree.fields THEN OldPrior(dst.tree, k)
    ELSE IF k \in src.reset THEN NoPrior
    ELSE IF Saved(dst.tree, k) = NoPrior THEN OldPrior(dst.tree, k)
    ELSE IF OldPrior(src.tree, k) = NoPrior THEN Saved(dst.tree, k)
    ELSE OldPrior(src.tree, k)
SplicedPrior(dst, src, k) ==
    IF k \notin DOMAIN dst.tree.fields \cap DOMAIN src.tree.fields THEN OldPrior(dst.tree, k)
    ELSE IF k \in src.reset THEN NoPrior
    ELSE IF Saved(dst.tree, k) = NoPrior THEN OldPrior(dst.tree, k)
    ELSE IF OldPrior(src.tree, k) = NoPrior THEN Saved(dst.tree, k)
    ELSE FoldKnownAbsent(OldPrior(src.tree, k), k, Saved(dst.tree, k))

CarriedOver(dst, src, k) ==
    IF SplicedPrior(dst, src, k) = NoPrior THEN OldPrior(src.tree, k) ELSE SplicedPrior(dst, src, k)

Splice(dst, src) ==
    LET fields == Over(src.tree.fields, dst.tree.fields)
    IN  TreeWith(WithKeys(dst.tree.order, src.tree.order), fields,
                 [k \in DOMAIN fields |-> CarriedOver(dst, src, k)])

(* merge_unresolved: the receiver's tree over that of its fallback.        *)
MergedPriorAsIs(receiver, fallback, k) ==
    IF OldPrior(receiver, k) # NoPrior THEN OldPrior(receiver, k)
    ELSE IF k \in DOMAIN receiver.fields \cap DOMAIN fallback.fields THEN fallback.fields[k]
    ELSE OldPrior(fallback, k)
MergedPrior(receiver, fallback, k) ==
    LET collides == k \in DOMAIN receiver.fields \cap DOMAIN fallback.fields
        folded == FoldOrSkipPrior(fallback.fields[k], k, NoPrior)
    IN  IF OldPrior(receiver, k) # NoPrior THEN OldPrior(receiver, k)
        ELSE IF collides /\ folded # NoPrior THEN folded
        ELSE OldPrior(fallback, k)

MergeUnresolved(receiver, fallback) ==
    LET fields == Over(receiver.fields, fallback.fields)
    IN  TreeWith(WithKeys(fallback.order, receiver.order), fields,
                 [k \in DOMAIN fields |-> MergedPrior(receiver, fallback, k)])
-----------------------------------------------------------------------------
(* A text or a configuration: its tree, its keys that were set anew, and   *)
(* what it was made of.                                                    *)
EmptyPiece == [tree |-> EmptyTree, reset |-> {}, doc |-> <<>>, exact |-> TRUE, clear |-> TRUE]

(* _apply_field: a value that does not look back sets its key anew.        *)
ResetAlways(reset, a) == reset \cup {a.key}
Reset(reset, a) == IF ContainsSubst(a.layer, a.key) THEN reset ELSE reset \cup {a.key}
WithField(b, a) ==
    [b EXCEPT !.tree = Assign(@, a.key, a.layer), !.reset = Reset(@, a), !.doc = Append(@, a)]

Included(dst, src) ==
    [tree  |-> Splice(dst, src),
     reset |-> dst.reset \cup src.reset,
     doc   |-> dst.doc \o src.doc,
     exact |-> /\ dst.exact /\ src.exact
               /\ \A k \in Shared(dst.doc, src.doc) : IncludesExactly(src.doc, k),
     clear |-> /\ dst.clear /\ src.clear
               /\ \A k \in Shared(dst.doc, src.doc) : IncludesClearly(src.doc, k)]

Layered(receiver, fallback) ==
    [tree  |-> MergeUnresolved(receiver.tree, fallback.tree),
     reset |-> {},
     doc   |-> fallback.doc \o receiver.doc,
     exact |-> /\ receiver.exact /\ fallback.exact
               /\ \A k \in Shared(fallback.doc, receiver.doc) :
                      LayersExactly(fallback.doc, receiver.doc, k),
     clear |-> /\ receiver.clear /\ fallback.clear
               /\ \A k \in Shared(fallback.doc, receiver.doc) :
                      LayersClearly(fallback.doc, receiver.doc, k)]
-----------------------------------------------------------------------------
ConfigInit == building = <<EmptyPiece>> /\ configs = {} /\ assigned = 0

(* One field of the text at hand.                                          *)
SetField ==
    /\ assigned < MaxAssignments
    /\ \E a \in Assignments :
           building' = [building EXCEPT ![Len(building)] = WithField(@, a)]
    /\ assigned' = assigned + 1
    /\ UNCHANGED configs

(* An include directive: the other file is built before it is merged.      *)
BeginInclude ==
    /\ Len(building) < MaxNesting
    /\ building' = Append(building, EmptyPiece)
    /\ UNCHANGED <<configs, assigned>>

EndInclude ==
    /\ Len(building) > 1
    /\ LET n == Len(building)
       IN  building' = [i \in 1..n - 1 |-> IF i = n - 1 THEN Included(building[i], building[n])
                                                        ELSE building[i]]
    /\ UNCHANGED <<configs, assigned>>

(* parse_string with resolve_substitutions off.                            *)
Parse ==
    /\ Len(building) = 1 /\ Cardinality(configs) < MaxConfigs
    /\ configs' = configs \cup {building[1]}
    /\ building' = <<EmptyPiece>>
    /\ UNCHANGED assigned

WithFallback ==
    /\ Cardinality(configs) < MaxConfigs
    /\ \E receiver, fallback \in configs : configs' = configs \cup {Layered(receiver, fallback)}
    /\ UNCHANGED <<building, assigned>>

ConfigNext == SetField \/ BeginInclude \/ EndInclude \/ Parse \/ WithFallback

ConfigSpec == ConfigInit /\ [][ConfigNext]_configVars
-----------------------------------------------------------------------------
Pieces == {building[i] : i \in DOMAIN building} \cup configs

(* However texts are included in each other and layered, phase 2 gets a    *)
(* tree that it can evaluate: every key once, in its place and with its    *)
(* last value, and no prior that refers to its own key                     *)
(* (utils.py:81, types.py:130, resolver.py:49).                            *)
TreesAreSound ==
    \A b \in Pieces :
        /\ IsTree(b.tree)
        /\ DOMAIN b.tree.fields = KeysOf(b.doc)
        /\ \A k \in KeysOf(b.doc) : b.tree.fields[k] = b.doc[Last(b.doc, k)].layer

(* Where the condition for it holds at every seam, the pieces leave the    *)
(* same tree as one document with all their assignments, down to the last  *)
(* prior (utils.py:101, types.py:155).                                     *)
ExactPiecesAreOneDocument == \A b \in Pieces : b.exact => b.tree = Built(b.doc)

(* And where a reference cannot tell the difference, every key that has a  *)
(* meaning in the one document has got it: an included value that replaces *)
(* others, adds to them or looks back at them does so as if in place       *)
(* (utils.py:101, types.py:155).                                           *)
ClearPiecesKeepMeanings ==
    \A b \in Pieces : b.clear =>
        \A k \in KeysOf(b.doc) :
            LET meant == Seen(Stack(b.doc, k, DocumentLevels(b.doc)[Depth]))
            IN  IsGood(meant) => FieldMeaning(b.tree, k, Levels(b.tree)[Depth]) = meant

(* Whatever the seams are: included keys merge like duplicate keys        *)
(* (docs/spec-compliance.md:583), and so do those of a fallback (805).     *)
PiecesMergeInPlace ==
    \A b \in Pieces : \A k \in KeysOf(b.doc) :
        LET meant == Seen(Stack(b.doc, k, DocumentLevels(b.doc)[Depth]))
        IN  IsGood(meant) => FieldMeaning(b.tree, k, Levels(b.tree)[Depth]) = meant
=============================================================================
