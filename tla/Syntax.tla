------------------------------- MODULE Syntax -------------------------------
(***************************************************************************)
(* The reading of a document: parse_tokens(tokenize(text)).  The text is   *)
(* one that somebody wrote, or one that render_hocon wrote for a value.    *)
(***************************************************************************)
EXTENDS Parser, Render

CONSTANTS
    Texts,        \* what somebody may have written, a set of sets of texts
    Values        \* the trees that may have been rendered

VARIABLES
    value,        \* the tree that was rendered, Nothing if none was
    ast           \* what the text was parsed to, Nothing until it was
vars == <<lexerVars, value, ast>>

Nothing == [kind |-> "nothing"]
WithoutBom(s) == IF StartsWithChar(s, Bom) THEN Tail(s) ELSE s

Init ==
    /\ \/ value = Nothing /\ \E texts \in Texts : \E s \in texts : text = WithoutBom(s)
       \/ value \in Values /\ text = WithoutBom(RenderRoot(value))
    /\ LexInit
    /\ ast = Nothing

Tokenize == ~Ended /\ Lex /\ UNCHANGED <<value, ast>>

Parse ==
    /\ Ended /\ error = NoError /\ ast = Nothing
    /\ \E r \in {ParseDocument} :
           IF Failed(r) THEN error' = r.error /\ UNCHANGED ast
                        ELSE ast' = r.value /\ UNCHANGED error
    /\ UNCHANGED <<text, pos, hadSpace, white, tokens, value>>

Next == Tokenize \/ Parse
Spec == Init /\ [][Next]_vars
Accepted == ast # Nothing
-----------------------------------------------------------------------------
(* What a text says, read in one piece: its items from a position up to    *)
(* the first stop that is not quoted.  An item is a quoted string, or one  *)
(* character outside of quotes.                                            *)

LineStops == {End, "\n", "#", "//"}
KeyStops == LineStops \cup {":", "=", "{", "+="}
ValueStopsAt == LineStops \cup {",", "}", "]"}
PathStops == {End, "}", "["}

Quotation(s) == [quoted |-> TRUE, text |-> s]
Character(c) == [quoted |-> FALSE, text |-> <<c>>]
IsBlank(item) == ~item.quoted /\ IsWhitespace(item.text[1])
IsDot(item) == ~item.quoted /\ item.text = <<".">>
StopsAt(i, stops) == {At(i), At(i) \o At(i + 1)} \cap stops # {}

RECURSIVE Reading(_, _)
Reading(i, stops) ==
    LET three == "\n" \in stops /\ LooksAt(i, <<"\"", "\"", "\"">>)
        string == IF three THEN ReadTripleQuoted(i + 3) ELSE ReadQuotedBody(i + 1, <<>>)
    IN  CASE StopsAt(i, stops) -> <<>>
          [] ~StopsAt(i, stops) /\ At(i) = "\"" ->
                 <<Quotation(string.value)>> \o Reading(string.next, stops)
          [] OTHER -> <<Character(At(i))>> \o Reading(i + 1, stops)

Trimmed(items) ==
    LET solid == {i \in DOMAIN items : ~IsBlank(items[i])}
    IN  IF solid = {} THEN <<>>
        ELSE SubSeq(items, CHOOSE i \in solid : \A j \in solid : i <= j,
                           CHOOSE i \in solid : \A j \in solid : j <= i)
TextOf(items) == FlattenSeq([i \in DOMAIN items |-> items[i].text])
SplitAtDots(items) ==
    FoldLeft(LAMBDA parts, item : IF IsDot(item) THEN Append(parts, <<>>)
                                  ELSE [parts EXCEPT ![Len(parts)] = Append(@, item)],
             <<<<>>>>, items)

RECURSIVE Nodes(_)
Nodes(node) ==
    {node} \cup
    CASE node.kind = "object" -> UNION {Nodes(node.fields[i].value) : i \in DOMAIN node.fields}
      [] node.kind = "array" -> UNION {Nodes(node.items[i]) : i \in DOMAIN node.items}
      [] node.kind = "concat" -> UNION {Nodes(node.nodes[i]) : i \in DOMAIN node.nodes}
      [] OTHER -> {}
Fields == UNION {ToSet(n.fields) : n \in {n \in Nodes(ast) : n.kind = "object"}}
KeyFields == {f \in Fields : f.key # <<>>}
-----------------------------------------------------------------------------
(* The path of a key is the text in front of its separator, without the    *)
(* white space around it, split at the dots outside quotes.  White space   *)
(* inside stays, around dots too (S10.8, E13; parser.py:190, which puts it *)
(* together from tokens).                                                  *)
KeysAreSplitText ==
    \A f \in KeyFields :
        f.key = [i \in DOMAIN f.key |-> TextOf(SplitAtDots(Trimmed(Reading(f.at, KeyStops)))[i])]
        /\ Len(f.key) = Len(SplitAtDots(Trimmed(Reading(f.at, KeyStops))))

(* The path of a substitution is its text split the same way, but white    *)
(* space next to a dot goes, and no segment is empty unless it is quoted   *)
(* (lexer.py:414).                                                         *)
ReferencesAreSplitText ==
    \A i \in DOMAIN tokens : tokens[i].kind = "subst" =>
        LET ref == tokens[i].value
            parts == SplitAtDots(Reading(tokens[i].at + (IF ref.optional THEN 3 ELSE 2), PathStops))
        IN  /\ ref.segments = [j \in DOMAIN parts |-> TextOf(Trimmed(parts[j]))]
            /\ \A j \in DOMAIN parts : Trimmed(parts[j]) # <<>>

(* A value that is put together from simple ones is the text between its   *)
(* ends without the quotes: the white space between them stays as it is    *)
(* written (S10.5; parser.py:553, lexer.py:330).                           *)
IsSimple(n) == n.kind = "scalar" \/ (n.kind = "concat" /\ \A i \in DOMAIN n.nodes : n.nodes[i].kind = "scalar")
Scalars(n) == IF n.kind = "scalar" THEN <<n>> ELSE n.nodes
ValuesKeepSpaces ==
    \A f \in Fields : IsSimple(f.value) =>
        FlattenSeq([i \in DOMAIN Scalars(f.value) |-> Scalars(f.value)[i].raw])
            = TextOf(Trimmed(Reading(Scalars(f.value)[1].at, ValueStopsAt)))

(* A + outside quotes is rejected exactly when Lightbend rejects it: its   *)
(* tokenizer reads the longest run of number characters as one number, and *)
(* everywhere else a + is reserved, unless it is += (E8; lexer.py:92, with *)
(* three tests that look at what was read so far).                         *)
RECURSIVE PlusIsReserved(_)
PlusIsReserved(i) ==
    LET end == EndOf(i, LAMBDA j : At(j) \in NumberLexChars)
        number == SubSeq(text, i, end - 1)
        word(from) == EndOf(from, LAMBDA j : IsUnquotedStart(At(j)))
    IN  CASE At(i) = End -> FALSE
          [] At(i) = "+" -> At(i + 1) # "=" \/ PlusIsReserved(i + 2)
          [] At(i) \in Digits \cup {"-"} ->
                 (Contains(number, "+") /\ ~IsNumber(number)) \/ PlusIsReserved(word(end))
          [] OTHER -> PlusIsReserved(IF IsUnquotedStart(At(i)) THEN word(i) ELSE i + 1)
PlusAsLightbend ==
    (ast = Nothing /\ (Ended \/ error # NoError) /\ ~\E c \in ToSet(text) : c \in {"\"", "#", "/", "$"}) =>
        (error = "plus" <=> PlusIsReserved(1))

(* Nothing of a document is lost, moved or read twice: its keys and values *)
(* come in the order of their tokens, and as deep in the tree as they are  *)
(* in brackets (parser.py:38 joins the fields of several braced roots, and *)
(* parser.py:114 and 567 skip separators).                                 *)
Opening == {"lbrace", "lbracket"}
Closing == {"rbrace", "rbracket"}
DepthOf(i) == Cardinality({j \in 1..i - 1 : Kind(j) \in Opening})
              - Cardinality({j \in 1..i - 1 : Kind(j) \in Closing})
Balanced == DepthOf(Len(tokens) + 1) = 0 /\ \A i \in DOMAIN tokens : DepthOf(i) >= 0
IsKeyTail(i) ==
    \E f \in KeyFields : /\ f.at < tokens[i].at
                         /\ ~\E j \in 1..i : /\ tokens[j].at > f.at
                                             /\ tokens[j].kind \in {"equals", "colon", "plus_equals", "lbrace"}
Content == SelectSeq([i \in DOMAIN tokens |-> i],
                     LAMBDA i : tokens[i].kind \in {"unquoted", "string", "triple_string", "subst"}
                                /\ ~IsKeyTail(i))
RECURSIVE Leaves(_, _)
Leaves(node, depth) ==
    CASE node.kind = "object" ->
             FlattenSeq([i \in DOMAIN node.fields |->
                 <<<<node.fields[i].at, depth + 1>>>> \o Leaves(node.fields[i].value, depth + 1)])
      [] node.kind = "array" -> FlattenSeq([i \in DOMAIN node.items |-> Leaves(node.items[i], depth + 1)])
      [] node.kind = "concat" -> FlattenSeq([i \in DOMAIN node.nodes |-> Leaves(node.nodes[i], depth)])
      [] node.kind = "scalar" /\ node.separator -> <<>>
      [] OTHER -> <<<<node.at, depth>>>>
AstKeepsTokens ==
    Accepted /\ Balanced /\ (\A f \in Fields : f.key # <<>>) =>
        LET content == Content
            at == {tokens[i].at : i \in ToSet(content)}
            leaves == SelectSeq(Leaves(ast, -1), LAMBDA l : l[1] \in at)
        IN  /\ Len(leaves) = Len(content)
            /\ \A i \in DOMAIN leaves : leaves[i][1] = tokens[content[i]].at
            /\ Kind(Skip(1)) \notin Opening =>
                   \A i \in DOMAIN leaves : leaves[i][2] = DepthOf(content[i])

(* What render_hocon writes is read as the same tree (config.py:516).      *)
RECURSIVE Means(_, _)
Means(node, v) ==
    CASE node.kind = "object" /\ v.kind = "object" ->
             /\ Len(node.fields) = Len(v.fields)
             /\ \A i \in DOMAIN v.fields : /\ node.fields[i].key = <<v.fields[i][1]>>
                                           /\ ~node.fields[i].append
                                           /\ Means(node.fields[i].value, v.fields[i][2])
      [] node.kind = "array" /\ v.kind = "array" ->
             Len(node.items) = Len(v.items) /\ \A i \in DOMAIN v.items : Means(node.items[i], v.items[i])
      [] node.kind = "scalar" /\ v.kind = "scalar" -> node.raw = v.raw /\ node.type = v.type
      [] OTHER -> FALSE
RoundTrip == value # Nothing => error = NoError /\ (Accepted => Means(ast, value))

(* A document is only accepted if every closing brace has an opening one:  *)
(* docs/spec-compliance.md:158 says so of a root without braces.           *)
NothingIgnored == Accepted => Balanced
=============================================================================
