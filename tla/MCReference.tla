---------------------------- MODULE MCReference ----------------------------
(***************************************************************************)
(* Trees for TLC: fields of one or two parts, with priors of either kind,  *)
(* and the trees of documents.  Key d is in no tree and key c in some; c   *)
(* is an environment variable.                                             *)
(***************************************************************************)
EXTENDS ReferenceMeaning

MCKeys == {"a", "b", "c", "d"}
MCStrings == {"1", "2", "3", "env"}
MCEnvironment == [k \in {"c"} |-> <<"env">>]

T(s) == [kind |-> "text", text |-> <<s>>]
Req(k) == [kind |-> "reference", key |-> k, optional |-> FALSE, absent |-> FALSE]
Opt(k) == [Req(k) EXCEPT !.optional = TRUE]
Absent(k) == [Opt(k) EXCEPT !.absent = TRUE]

Single == {<<T("1")>>} \cup {<<Req(k)>> : k \in MCKeys} \cup {<<Opt(k)>> : k \in MCKeys}
Double == {<<Req("a"), T("2")>>, <<Req("b"), T("2")>>, <<Opt("a"), T("2")>>, <<Opt("b"), T("2")>>,
           <<Opt("b"), Req("a")>>, <<Req("a"), Opt("d")>>}
PriorLayers == {<<T("3")>>, <<Req("a")>>, <<Req("b")>>, <<Opt("b"), T("3")>>, <<Req("d")>>,
                <<T("3"), Absent("a")>>}

RangeOf(s) == {s[i] : i \in DOMAIN s}
TreesOf(order, layers, priors) ==
    UNION {{[order |-> order, fields |-> f, priors |-> p] :
               f \in [RangeOf(order) -> layers],
               p \in {q \in [with -> priors] : \A k \in with : ~ContainsSubst(q[k], k)}} :
           with \in SUBSET (RangeOf(order) \ {"c"})}

Set(k, layer) == [key |-> k, layer |-> layer]
LayersOfA == {<<T("1")>>, <<Req("a"), T("2")>>, <<Opt("a"), T("3")>>, <<Opt("b")>>, <<Req("b"), Req("a")>>,
              <<Opt("d")>>}
LayersOfB == {<<T("1")>>, <<Req("a")>>, <<Opt("b"), T("2")>>, <<Req("c"), Opt("a")>>}
Assignments == {Set("a", layer) : layer \in LayersOfA} \cup {Set("b", layer) : layer \in LayersOfB}
Chained == {Set("a", layer) : layer \in LayersOfA \ {<<Opt("b")>>}} \cup {Set("b", <<Req("a")>>)}
MCDocuments == UNION {[1..n -> Assignments] : n \in 0..3} \cup [1..4 -> Chained]

(* Documents for the run on required references to keys without a value.   *)
NothingDocuments == [1..2 -> {Set("a", <<Opt("d")>>), Set("b", <<Req("a")>>)}]
DocumentTrees == {w[2] : w \in Writings}

MCTrees ==
    TreesOf(<<"a", "b">>, Single \cup Double, PriorLayers)
    \cup TreesOf(<<"c", "b", "a">>, Single \ {<<Opt("d")>>}, {<<T("3")>>, <<Req("b")>>})
    \cup DocumentTrees
-----------------------------------------------------------------------------
(* The recursive models of both phases, on the same tree and document.     *)
R == INSTANCE TreeBuilder
        WITH KeyIndex <- [k \in {} |-> 0], EnvPaths <- {<<k>> : k \in DOMAIN Environment},
             EnvLists <- {}, UseSystemEnvironment <- TRUE, MaxRecursion <- 40

Placeholder(part) ==
    IF IsReference(part) THEN [R!Subst(<<part.key>>, part.optional) EXCEPT !.absent = part.absent]
                         ELSE R!Scalar(part.text)
Node(layer) ==
    IF IsConcat(layer) THEN R!Concat([i \in DOMAIN layer |-> Placeholder(layer[i])])
                       ELSE Placeholder(layer[1])
Root == R!ResObj(tree.order, [k \in Fields |-> Node(tree.fields[k])],
                 [k \in Priors |-> Node(tree.priors[k])], {})

AstFields(d) == [i \in DOMAIN d |-> R!Field(<<d[i].key>>, Node(d[i].layer))]

(* Going through the calls one at a time ends as the recursive evaluation  *)
(* does, in the same values or in the same exception: that of the same     *)
(* tree, and that of what the other model of phase 1 builds from the       *)
(* document.                                                               *)
AgreesWithResolver ==
    outcome # "running" =>
        LET end == IF outcome = "resolved"
                   THEN [value |-> R!HObj([k \in {x \in Fields : result[x].found} |->
                                              R!Scalar(result[k].text)])]
                   ELSE [error |-> outcome]
        IN  /\ R!ResolveTree(Root, FALSE) = end
            /\ \A w \in Writings : w[2] = tree =>
                   R!ResolveTree(R!Build(AstFields(w[1]), <<>>), FALSE) = end
=============================================================================
