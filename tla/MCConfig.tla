------------------------------ MODULE MCConfig ------------------------------
(***************************************************************************)
(* The documents of the runs of module ConfigLifecycle, each small: it is  *)
(* the layers and the operations between them that a run multiplies.       *)
(***************************************************************************)
EXTENDS ConfigLifecycle

A == <<"a">>
B == <<"b">>
C == <<"c">>
AX == <<"a", "x">>
T(x) == Scalar(<<x>>)
Req(p) == Subst(p, FALSE)
Opt(p) == Subst(p, TRUE)
Object(k, v) == AstObject(<<Field(<<k>>, v)>>)
MCKeyIndex == [k \in {"0"} |-> 0]

MCPathText == (A :> "a") @@ (B :> "b") @@ (C :> "c") @@ (AX :> "a.x") @@ (<<"a", "y">> :> "a.y")
              @@ (<<"b", "x">> :> "b.x") @@ (<<"c", "x">> :> "c.x")

(* Scalars, arrays and references over each other, one of them looking     *)
(* back at what lies below.                                                *)
ValueLayers == {
    <<Field(A, T("1"))>>,
    <<Field(A, Req(B)), Field(C, Req(A))>>,
    <<Field(A, Concat(<<Opt(A), T("t")>>))>>,
    <<Field(A, Arr(<<Req(C)>>))>>,
    <<Field(B, T("2")), Field(C, Arr(<<Opt(B)>>))>>,
    <<AppendField(B, T("4"))>>}

(* Objects merged across layers, with members still unresolved, and keys   *)
(* that look like paths.                                                   *)
ObjectLayers == {
    <<Field(A, Object("x", Req(C)))>>,
    <<Field(AX, T("3")), Field(C, T("4"))>>,
    <<Field(<<"a.x">>, Opt(B)), Field(<<"a", "y">>, T("5"))>>,
    <<Field(B, Object("x", T("6"))), Field(A, Object("y", Object("x", Req(<<"b", "x">>))))>>,
    <<Field(<<"b", "z">>, Req(AX))>>,
    <<Field(C, Req(B)), Field(A, T("1"))>>}

MCStacks == {ValueLayers, ObjectLayers}

MCSources == {<<Field(B, Object("x", T("8"))), Field(C, T("9"))>>}
=============================================================================
