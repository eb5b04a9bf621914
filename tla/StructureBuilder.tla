-------------------------- MODULE StructureBuilder --------------------------
(***************************************************************************)
(* A document applied field by field to a tree, and the tree resolved: one *)
(* action is one turn of the loop of StructureBuilder.build, then          *)
(* resolve_tree evaluates the tree (structure_builder.py and resolver.py). *)
(***************************************************************************)
EXTENDS TreeBuilder

CONSTANTS
    Vocabularies, \* sets of fields and include directives: a document draws on one
    MaxFields,    \* bound: how many of them a document has
    Allowed       \* the values of allow_unresolved the tree is resolved with

ASSUME MaxFieldsAssumption == MaxFields \in Nat
ASSUME AllowedAssumption == FALSE \in Allowed /\ Allowed \subseteq BOOLEAN

VARIABLES
    doc,      \* the fields applied so far, in document order
    root,     \* the tree built from them
    outcome   \* what resolve_tree made of the tree, for each value of allow_unresolved

vars == <<doc, root, outcome>>

Unresolved == <<>>
-----------------------------------------------------------------------------
Init ==
    /\ doc = <<>>
    /\ root = EmptyResObj
    /\ outcome = Unresolved

BuildField(f) ==
    /\ outcome = Unresolved
    /\ Len(doc) < MaxFields
    /\ doc' = Append(doc, f)
    /\ \E vocabulary \in Vocabularies : ToSet(doc') \subseteq vocabulary
    /\ root' = ApplyField(root, f, <<>>)
    /\ UNCHANGED outcome

(* resolve_tree leaves the tree as it is and starts from a resolver of its *)
(* own, so the same tree can be resolved in every mode.                    *)
Resolve ==
    /\ outcome = Unresolved
    /\ doc # <<>>
    /\ outcome' = [allow \in Allowed |-> ResolveTree(root, allow)]
    /\ UNCHANGED <<doc, root>>

Next ==
    \/ \E f \in UNION Vocabularies : BuildField(f)
    \/ Resolve

Spec == Init /\ [][Next]_vars
=============================================================================
