------------------------------ MODULE MCSyntax ------------------------------
(***************************************************************************)
(* The texts are families: a beginning, every row of up to so many pieces, *)
(* and an end.  Each family holds the pieces that mean something to one    *)
(* part of the lexer or parser, and those they can be mistaken for.        *)
(***************************************************************************)
EXTENDS Syntax

CONSTANT Families

RECURSIVE Rows(_, _, _)
Rows(from, pieces, n) ==
    IF n = 0 THEN {from}
    ELSE LET shorter == Rows(from, pieces, n - 1) IN shorter \cup {r \o p : r \in shorter, p \in pieces}
Family(from, pieces, n, to) ==
    LET end == Chars(to) IN {r \o end : r \in Rows(Chars(from), {Chars(p) : p \in pieces}, n)}

Keys == Family("", {"a", ".", " ", "\"q.\"", "\"\"", "-"}, 5, "=1")
Paths == Family("x=${", {"?", "a", ".", " ", "\"q.\"", "\"\"", "-", "[]"}, 4, "}")
Simple == Family("a= ", {"b", "  ", "\t", "\"q \"", "=", "// c", "true", "\n", "\"\"\"t\""}, 4, " ")
Numbers == Family("a=", {"1", "e", "e+", ".", "-", "+", "=", "x"}, 4, "")
Structure == Family("", {"{", "}", "[", "]", ",", "\n", "a=", "b ", "1"}, 4, "")
Roots == Family("", {"{a=1}", "{", "}", "b=1", "c:{", ",", "\n", "[1]"}, 4, "")
Quotes == Family("a=", {"\"", "\\", "n", "u000a", "u00", "\"\"\"", "\n", "$"}, 4, "")
Lines == Family("", {"a=", "b+=", "1e999", "#", "/", "\n", " ", "null", "${b}"}, 4, "")
Includes == Family("include", {" ", "required", "(", "file(", "package(", "\"f\"", ",", ")", "={"}, 4, "")
Arguments == Family("include required(", {"\"f\"", ",", ")", "\n", "package(", "url", "b:1"}, 4, "")
Marked == {<<Bom>> \o t : t \in Family("", {"a=", "1"}, 2, "")} \cup {<<"a", "=", Bom, "1">>}

MCTexts ==
    {CASE f = "Keys" -> Keys [] f = "Paths" -> Paths [] f = "Simple" -> Simple
             [] f = "Numbers" -> Numbers [] f = "Structure" -> Structure [] f = "Roots" -> Roots
             [] f = "Quotes" -> Quotes
             [] f = "Lines" -> Lines [] f = "Includes" -> Includes [] f = "Arguments" -> Arguments
             [] f = "Marked" -> Marked : f \in Families}

MCChr == [hex \in {Chars("000a")} |-> "\n"]
MCOverflows(raw) == Len(raw) > 3 /\ SubSeq(raw, Len(raw) - 3, Len(raw)) = Chars("e999")

(* Trees of one or two fields.                                             *)
String(s) == [kind |-> "scalar", raw |-> Chars(s), type |-> "string"]
Other(s, type) == [String(s) EXCEPT !.type = type]
Object(fields) == [kind |-> "object", fields |-> fields]
Array(items) == [kind |-> "array", items |-> items]

Few == {Other("1", "number"), String("true"), String("two words"), String("a\n\"\\b")}
Scalars1 == Few \cup {String(s) : s \in {
                "", "word", "On", "8080", "-1", "a.b", "a=b", "${x}", " x ", "//x", "x+", "\"", "\\", "\t",
                "\n", "\n\"", "\n\"\"\"\n", "\r\n", "{", "include", "1e+5"}}
            \cup {Other("null", "null"), Other("true", "boolean"), Other("-0.5e+3", "number")}
Inner == {Array(<<>>), Object(<<>>)} \cup {Array(<<a>>) : a \in Few} \cup {Array(<<a, b>>) : a, b \in Few}
         \cup {Object(<<<<Chars("include"), a>>>>) : a \in Few}
Trees(keys) ==
    LET values == Scalars1 \cup Inner \cup {Array(<<a, b>>) : a, b \in {x \in Inner : x.kind = "object"}}
                  \cup {Object(<<<<Chars("b"), a>>, <<Chars("c d"), b>>>>) : a \in Inner, b \in Few}
    IN  {Object(<<>>)} \cup {Object(<<<<Chars("a"), v>>>>) : v \in values}
        \cup {Object(<<<<Chars(k), v>>, <<Chars("z"), w>>>>) : k \in keys, v, w \in Few}

MCKeys == {"a", "include", "a.b", "", " ", "-", "1e+5", "\"", "\\", "a\rb"}
NoTrees == {}
MCValues == Trees(MCKeys)
KeysOfLines == {Object(<<<<Chars(k), v>>>>) : k \in MCKeys \cup {"a\nb"}, v \in Few}
=============================================================================
