------------------------------ MODULE MCLayered ------------------------------
(***************************************************************************)
(* Assignments for TLC: to a key with every kind of look back, and to a    *)
(* second key that refers to the first.  Nothing provides x.               *)
(***************************************************************************)
EXTENDS LayeredDocument

MCKeys == {"a", "b", "x"}
MCStrings == {"1", "2", "3"}
MCEnvironment == [k \in {} |-> <<>>]

T(s) == [kind |-> "text", text |-> <<s>>]
Req(k) == [kind |-> "reference", key |-> k, optional |-> FALSE, absent |-> FALSE]
Opt(k) == [Req(k) EXCEPT !.optional = TRUE]

Set(k, layer) == [key |-> k, layer |-> layer]
MCAssignments ==
    {Set("a", <<T("1")>>), Set("a", <<Req("a"), T("2")>>), Set("a", <<Opt("a"), T("3")>>),
     Set("a", <<Opt("x")>>), Set("b", <<Req("a")>>), Set("a", <<Opt("b"), Opt("a")>>)}
=============================================================================
