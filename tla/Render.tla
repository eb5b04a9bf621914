------------------------------- MODULE Render -------------------------------
(***************************************************************************)
(* Writing a resolved tree as a document (render_hocon.py).  A value is    *)
(* [kind |-> "object", fields |-> pairs of key and value], [kind |->       *)
(* "array", items |-> values] or [kind |-> "scalar", raw |-> text, type].  *)
(***************************************************************************)
EXTENDS Characters

LowerCase == Chars("abcdefghijklmnopqrstuvwxyz")
UpperCase == Chars("ABCDEFGHIJKLMNOPQRSTUVWXYZ")
Letters == ToSet(LowerCase) \cup ToSet(UpperCase)
Lower(s) == [i \in DOMAIN s |-> IF Contains(UpperCase, s[i])
                                THEN LowerCase[SelectInSeq(UpperCase, LAMBDA c : c = s[i])] ELSE s[i]]
SafeChars == Letters \cup Digits \cup {"_", "-"}
Keywords == {Chars(w) : w \in {"true", "false", "null", "yes", "no", "on", "off"}}

EndsWithQuote(s) == s # <<>> /\ Last(s) = "\""
HasThreeQuotes(s) == \E i \in 1..Len(s) - 2 : \A j \in i..i + 2 : s[j] = "\""
Escaped(c) == CASE c = "\"" -> <<"\\", "\"">> [] c = "\\" -> <<"\\", "\\">>
                [] c = "\n" -> <<"\\", "n">> [] c = "\r" -> <<"\\", "r">>
                [] c = "\t" -> <<"\\", "t">> [] OTHER -> <<c>>
Between(quotes, s) == quotes \o s \o quotes

(* Text of several lines goes between three quotes when that is lossless.  *)
QuoteStringOfLines(s) ==
    IF Contains(s, "\n") /\ ~Contains(s, "\r") /\ ~EndsWithQuote(s)
    THEN Between(<<"\"", "\"", "\"">>, s)
    ELSE Between(<<"\"">>, FlattenSeq([i \in DOMAIN s |-> Escaped(s[i])]))
QuoteString(s) ==
    IF Contains(s, "\n") /\ ~Contains(s, "\r") /\ ~HasThreeQuotes(s) /\ ~EndsWithQuote(s)
    THEN Between(<<"\"", "\"", "\"">>, s)
    ELSE Between(<<"\"">>, FlattenSeq([i \in DOMAIN s |-> Escaped(s[i])]))

(* Bare, a key must not be include; text must be a word and not a keyword. *)
RenderKey(k) ==
    IF k # <<>> /\ AllIn(k, SafeChars) /\ k # Chars("include") THEN k ELSE QuoteString(k)
RenderString(s) ==
    IF s # <<>> /\ s[1] \in Letters /\ AllIn(s, SafeChars) /\ Lower(s) \notin Keywords
    THEN s ELSE QuoteString(s)
RenderScalar(v) == IF v.type = "string" THEN RenderString(v.raw) ELSE v.raw

Indent(depth) == [i \in 1..2 * depth |-> " "]
Line(depth, s) == Indent(depth) \o s \o <<"\n">>

RECURSIVE RenderValue(_, _)
RenderObjectBody(o, depth) ==
    FlattenSeq([i \in DOMAIN o.fields |->
        LET v == o.fields[i][2]
            assign == IF v.kind = "object" THEN <<" ">> ELSE Chars(" = ")
        IN  Line(depth, RenderKey(o.fields[i][1]) \o assign \o RenderValue(v, depth))])
RenderArray(a, depth) ==
    IF a.items = <<>> THEN Chars("[]")
    ELSE Chars("[\n") \o FlattenSeq([i \in DOMAIN a.items |-> Line(depth + 1, RenderValue(a.items[i], depth + 1))])
         \o Indent(depth) \o <<"]">>
RenderValue(v, depth) ==
    CASE v.kind = "object" -> IF v.fields = <<>> THEN Chars("{}")
             ELSE Chars("{\n") \o RenderObjectBody(v, depth + 1) \o Indent(depth) \o <<"}">>
      [] v.kind = "array" -> RenderArray(v, depth)
      [] OTHER -> RenderScalar(v)

RenderRoot(root) == RenderObjectBody(root, 0)
=============================================================================
