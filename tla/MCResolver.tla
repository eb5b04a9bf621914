----------------------------- MODULE MCResolver -----------------------------
(***************************************************************************)
(* Vocabularies for TLC: the fields that the documents of a run are made   *)
(* of.  A run explores every document of up to MaxFields fields of one     *)
(* vocabulary, in every order and with repetitions, the way a              *)
(* configuration is written.                                               *)
(***************************************************************************)
EXTENDS ResolverProperties

MCEnvPaths == {<<"e">>}
MCEnvLists == {<<"e">>, <<"c">>}
MCKeyIndex == [k \in {"0", "1"} |-> IF k = "0" THEN 0 ELSE 1]

A == <<"a">>
B == <<"b">>
C == <<"c">>
D == <<"d">>
E == <<"e">>
F == <<"f">>
G == <<"g">>
H == <<"h">>
AX == <<"a", "x">>
BX == <<"b", "x">>
T(x) == Scalar(<<x>>)
Req(p) == Subst(p, FALSE)
Opt(p) == Subst(p, TRUE)
Items(s) == [s EXCEPT !.list = TRUE]
Object(k, v) == AstObject(<<Field(<<k>>, v)>>)

(* Chains of assignments to a, and to b.x, that look back at themselves.   *)
SelfReferences == {
    Field(A, T("1")), Field(A, Concat(<<Req(A), T("r")>>)), Field(A, Concat(<<Opt(A), T("o")>>)),
    Field(A, Arr(<<Opt(A)>>)), AppendField(A, T("3")),
    Field(A, Concat(<<Opt(A), Object("y", T("4"))>>)),
    Field(BX, T("5")), Field(BX, Concat(<<Req(BX), T("s")>>)), Field(BX, Concat(<<Opt(BX), T("t")>>)),
    Field(C, Req(A)), Field(C, Req(BX))}

(* Assignments to a that look into the a below them.                       *)
PathsIntoSelf == {
    Field(A, T("1")),
    Field(A, AstObject(<<Field(<<"x">>, T("2")), Field(<<"y">>, T("3"))>>)),
    Field(A, Object("x", Object("x", T("4")))),
    Field(A, Req(AX)),
    Field(A, Concat(<<Req(AX), T("r")>>)), Field(A, Concat(<<Opt(AX), T("o")>>))}

(* Objects whose members refer to their siblings and to the whole object.  *)
Siblings == {
    Field(A, Object("x", T("1"))), Field(A, Object("y", Req(AX))), Field(A, Object("z", Opt(<<"a", "y">>))),
    Field(AX, T("2")), Field(AX, Object("x", T("4"))), Field(A, Object("w", Req(<<"a", "x", "x">>))),
    Field(B, Req(A)), Field(B, Req(<<"a", "y">>)), Field(<<"a", "x", "z">>, T("3")),
    Field(C, Object("x", Req(A))), Field(C, Object("v", Req(<<"a", "x", "z">>)))}

(* Four keys that refer to each other, forwards and backwards, in cycles.  *)
CrossReferences == {
    Field(A, T("1")), Field(A, Req(B)), Field(A, Concat(<<Req(B), Req(C)>>)), Field(A, Object("x", Req(B))),
    Field(B, T("2")), Field(B, Req(C)), Field(B, Arr(<<Req(C), Opt(D)>>)),
    Field(C, T("4")), Field(C, Req(D)), Field(C, Req(A)), Field(C, Concat(<<Req(A), Object("z", T("6"))>>)),
    Field(D, Object("y", T("5"))), Field(D, Object("x", Req(B)))}

(* Index keys and arrays on either side of a concatenation.                *)
Joins == {
    Field(A, Object("0", T("1"))), Field(A, Object("x", T("2"))), Field(A, Arr(<<T("3")>>)),
    AppendField(A, T("4")), AppendField(B, T("5")),
    Field(B, Concat(<<Req(A), Arr(<<T("6")>>)>>)), Field(B, Concat(<<Arr(<<T("7")>>), Req(A)>>)),
    Field(B, Concat(<<Opt(C), Req(A)>>)), Field(B, Concat(<<Opt(C), T("8")>>)),
    Field(B, Concat(<<Object("0", T("9")), Req(A), Arr(<<T("9")>>)>>))}

(* Required references to keys that may not exist, directly or through     *)
(* other references.                                                       *)
MissingReferences == {
    Field(A, Req(B)), Field(A, Concat(<<Req(B), T("r")>>)), Field(A, Arr(<<Req(B)>>)),
    Field(A, Object("x", Req(B))), Field(A, T("1")),
    Field(B, Req(C)), Field(B, T("2")), Field(BX, Req(C)),
    Field(C, Req(D)), Field(C, Object("y", Req(BX))), Field(C, Concat(<<Opt(D), T("3")>>)),
    Field(C, Req(E)), Field(E, T("4")),
    Field(B, Items(Req(C))), Field(D, Concat(<<Items(Req(E)), Items(Opt(F))>>))}

(* A file included between fields of the including document.               *)
Includes == {
    Field(A, T("1")), Field(A, Object("x", T("2"))), Field(AX, T("3")),
    Field(A, Concat(<<Req(A), T("r")>>)), Field(B, Req(A)),
    Include(<<Field(A, T("4"))>>),
    Include(<<Field(A, Concat(<<Req(A), T("s")>>))>>),
    Include(<<Field(A, Concat(<<Opt(A), T("o")>>))>>),
    Include(<<Field(A, T("5")), Field(A, Concat(<<Req(A), T("t")>>))>>),
    Include(<<AppendField(A, T("6"))>>),
    Include(<<AppendField(A, T("7")), AppendField(A, T("8"))>>),
    Include(<<Field(AX, Concat(<<Req(AX), T("u")>>))>>),
    Include(<<Field(B, Req(A)), Field(A, T("9"))>>)}

(* A file included inside the object o: its references mean paths below o  *)
(* first, then paths of the whole document, then the environment.          *)
IncludeInO(fields) == Field(<<"o">>, AstObject(<<Include(fields)>>))
NestedIncludes == {
    Field(B, Object("x", T("1"))), Field(BX, T("2")), Field(<<"o", "b">>, Object("y", T("3"))),
    Field(D, T("4")), Field(<<"o", "d">>, T("5")), Field(C, Req(<<"o", "a">>)),
    IncludeInO(<<Field(B, Object("y", T("6"))), Field(A, Req(B))>>),
    IncludeInO(<<Field(F, Req(B)), Field(F, Concat(<<Req(F), Object("z", T("7"))>>))>>),
    IncludeInO(<<Field(H, Object("x", Req(BX)))>>),
    IncludeInO(<<Field(D, T("8")), Field(D, Concat(<<Req(D), T("r")>>))>>),
    IncludeInO(<<Field(G, Concat(<<Req(D), Req(E)>>))>>),
    IncludeInO(<<AppendField(G, Req(D)), AppendField(G, T("9"))>>),
    Field(<<"o", "p">>, AstObject(<<Include(<<Field(A, Req(B))>>)>>))}

References == {SelfReferences, PathsIntoSelf, Includes, NestedIncludes, CrossReferences, Siblings, Joins}
Missing == {MissingReferences}
=============================================================================
