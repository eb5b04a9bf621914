------------------------- MODULE ResolverProperties -------------------------
(***************************************************************************)
(* What the resolver promises of a document: properties of module          *)
(* StructureBuilder, some stated with the reference semantics of module    *)
(* HoconSemantics, some comparing evaluations of the same tree.            *)
(***************************************************************************)
EXTENDS StructureBuilder, HoconSemantics

(* The document resolved strictly: to a value, or to an exception.         *)
Done == outcome # Unresolved
Resolved == Done /\ "value" \in DOMAIN outcome[FALSE]
Rejected == Done /\ "error" \in DOMAIN outcome[FALSE]

(* val_contains_placeholders, of a resolved value.                         *)
RECURSIVE HasPlaceholder(_)
HasPlaceholder(v) ==
    CASE IsHObj(v) -> \E k \in DOMAIN v.members : HasPlaceholder(v.members[k])
      [] IsArr(v)  -> \E i \in DOMAIN v.items : HasPlaceholder(v.items[i])
      [] OTHER     -> ~IsScalar(v)

IsBareReference(f) == ~IsInclude(f) /\ ~f.append /\ Len(f.key) = 1 /\ IsSubst(f.val)

(* Field i is the only one of the document that assigns its top-level key. *)
IsOnlyAssignment(i) ==
    \A j \in DOMAIN doc : ~IsInclude(doc[j]) /\ (j # i => doc[j].key[1] # doc[i].key[1])

RECURSIVE Reads(_, _)
Reads(v, k) ==
    CASE IsSubst(v)     -> v.path[1] = k
      [] IsAstObject(v) -> \E i \in DOMAIN v.ast :
                               \E f \in IF IsInclude(v.ast[i]) THEN ToSet(v.ast[i].include) ELSE {v.ast[i]} :
                                   Reads(f.val, k)
      [] OTHER          -> \E n \in Below(v) : Reads(n, k)

(* The fields k = ${p} that alone decide the value of k, where nothing     *)
(* refers to k in turn.                                                    *)
Aliases ==
    {i \in DOMAIN doc : /\ IsBareReference(doc[i])
                        /\ IsOnlyAssignment(i)
                        /\ \A j \in DOMAIN doc : ~Reads(doc[j].val, doc[i].key[1])}

ResultAt(path) == NavigateResolved(outcome[FALSE].value, path)

RECURSIVE RequiredOnly(_)
RequiredOnly(v) ==
    CASE IsSubst(v)     -> ~v.opt
      [] IsAstObject(v) -> \A i \in DOMAIN v.ast : ~IsInclude(v.ast[i]) /\ RequiredOnly(v.ast[i].val)
      [] OTHER          -> \A n \in Below(v) : RequiredOnly(n)
-----------------------------------------------------------------------------
(* Every object of the tree keeps its bookkeeping in step: the insertion   *)
(* order lists each field once, and only a field that exists has a prior   *)
(* or a reset mark (ResObj's three containers are updated at a dozen       *)
(* places of structure_builder.py and utils.py).                           *)
TypeOK ==
    /\ Len(doc) <= MaxFields /\ \E vocabulary \in Vocabularies : ToSet(doc) \subseteq vocabulary
    /\ \A o \in ObjectsOf(root, <<>>) :
           /\ IsInjective(o[1].keys)
           /\ ToSet(o[1].keys) = DOMAIN o[1].fields
           /\ DOMAIN o[1].prior \cup o[1].reset \subseteq DOMAIN o[1].fields
    /\ outcome = Unresolved \/ (DOMAIN outcome = Allowed /\ (Resolved \/ Rejected))

(* Every saved prior is free of references to its own key, so looking back *)
(* through a chain of a = ${a}... always ends (fold_self_ref.py, the       *)
(* module's docstring: "by induction").                                    *)
PriorsSelfRefFree == LooksBackOnly(root)

(* A document that means something resolves to exactly that: layers merge  *)
(* in order, references look back or forward as they should, and the order *)
(* in which the resolver happens to evaluate keys does not show.           *)
ResolvesToMeaning ==
    LET agrees(meaning) == IsBad(meaning) \/ outcome[FALSE] = [value |-> meaning]
    IN  Done => agrees(DocumentMeaning(doc))

(* A document with a required reference that nothing provides a value for  *)
(* is rejected, wherever the reference stands and whatever else the        *)
(* document makes of the same key.                                         *)
UndefinedIsRejected ==
    Done /\ DocumentMeaning(doc) = Undefined => Rejected

(* A cycle of required references, each key assigned once, is rejected: no *)
(* evaluation order unrolls it into a value, or runs into the recursion    *)
(* limit.                                                                  *)
CyclesAreRejected ==
    LET once == /\ \A i \in DOMAIN doc : ~IsInclude(doc[i])
                /\ \A i \in DOMAIN doc : IsOnlyAssignment(i)
                /\ \A i \in DOMAIN doc : RequiredOnly(doc[i].val)
    IN  Done /\ once /\ DocumentMeaning(doc) = Cyclic
            => Rejected /\ outcome[FALSE].error # "recursion"

(* b = ${a} gives b the value that a has in the same result, also when b   *)
(* is evaluated first, or a twice.                                         *)
ReferencesSeeMergedValues ==
    Resolved => \A i \in Aliases : ResultAt(doc[i].key) = ResultAt(doc[i].val.path)

(* An include directive means the fields of the included file, in place:   *)
(* splicing the tree of the included file in is not observable.            *)
IncludeIsInlining ==
    LET same(inlined) == outcome[FALSE] = inlined \/ (Rejected /\ "error" \in DOMAIN inlined)
    IN  Done /\ Inlined(doc) # doc => same(ResolveTree(Build(Inlined(doc), <<>>), FALSE))

(* Resolving with allow_unresolved changes nothing for a document that     *)
(* resolves without it.                                                    *)
PartialAgreesWithStrict ==
    Resolved /\ TRUE \in Allowed => outcome[TRUE] = outcome[FALSE]

(* Resolving with allow_unresolved keeps a placeholder for what could not  *)
(* be resolved: a document that strict resolution rejects never comes out  *)
(* looking fully resolved (Config.resolve derives is_resolved from it).    *)
PartialKeepsUnresolved ==
    Rejected /\ TRUE \in Allowed /\ "value" \in DOMAIN outcome[TRUE]
        => HasPlaceholder(outcome[TRUE].value)
=============================================================================
