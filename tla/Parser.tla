------------------------------- MODULE Parser -------------------------------
(***************************************************************************)
(* The parser (_internal/parser/parser.py): one operator per method, which *)
(* reads from the token at an index and gives the tree it read and the     *)
(* index where the tokens go on, or an error.  The trees are those of      *)
(* _internal/parser/ast.py; at is where in the text a tree starts.         *)
(***************************************************************************)
EXTENDS Lexer

CONSTANT Overflows(_)     \* whether a number is beyond the doubles

(* An operator whose name has a suffix and which stands just before the    *)
(* operator of the plain name is the same with a mistake in it.            *)

AstObject(fields) == [kind |-> "object", fields |-> fields]
AstArray(items) == [kind |-> "array", items |-> items]
AstScalar(raw, type, separator, at) ==
    [kind |-> "scalar", raw |-> raw, type |-> type, separator |-> separator, at |-> at]
AstConcat(nodes) == [kind |-> "concat", nodes |-> nodes]
AstSubst(payload, at) == [kind |-> "subst", payload |-> payload, at |-> at]
AstField(key, value, append, at) == [key |-> key, value |-> value, append |-> append, at |-> at]
(* The field of an include has no key.                                     *)
AstInclude(qualifier, names, required, at) ==
    AstField(<<>>, [kind |-> "include", qualifier |-> qualifier, names |-> names,
                    required |-> required], FALSE, at)

Tok(i) == IF i \in DOMAIN tokens THEN tokens[i] ELSE [kind |-> "eof", at |-> pos]
Kind(i) == Tok(i).kind
Unquoteds(i) == IF Kind(i) = "unquoted" THEN {Tok(i).value} ELSE {}
IsWord(i, words) == \E v \in Unquoteds(i) : v \in words
StartsWithChar(s, c) == s # <<>> /\ s[1] = c

(* Past the tokens of some kinds; past newlines, a comma and newlines.     *)
SkipWhile(i, Test(_)) == CHOOSE j \in i..Len(tokens) + 1 : ~Test(j) /\ \A k \in i..j - 1 : Test(k)
Skip(i) == SkipWhile(i, LAMBDA j : Kind(j) = "newline")
Separator(i) == LET j == Skip(i) IN Skip(IF Kind(j) = "comma" THEN j + 1 ELSE j)
-----------------------------------------------------------------------------
(* A key.  k is what was read of it: its segments, whether the first was   *)
(* quoted, whether a dot was the last thing, and what goes before the next *)
(* token: joined, white space that joins it to the last segment; prefix,   *)
(* white space after a dot, which begins the next segment.                 *)

NoKey == [segments |-> <<>>, quoted |-> FALSE, dot |-> FALSE, joined |-> FALSE, prefix |-> <<>>]
Glue(segments, s) == [segments EXCEPT ![Len(segments)] = @ \o s]
Pieces(s) == FoldLeft(LAMBDA words, c : IF c = "." THEN Append(words, <<>>) ELSE Glue(words, <<c>>),
                      <<<<>>>>, s)

KeyStringTight(k, t) ==
    [k EXCEPT !.segments = IF k.joined THEN Glue(@, t.value) ELSE Append(@, k.prefix \o t.value),
              !.quoted = @ \/ k.segments = <<>>, !.dot = FALSE]
KeyString(k, t) ==
    [k EXCEPT !.segments = IF k.joined THEN Glue(@, t.white \o t.value)
                                       ELSE Append(@, k.prefix \o t.value),
              !.quoted = @ \/ k.segments = <<>>, !.dot = FALSE]

(* A dot right after a segment is not part of the word; one after white    *)
(* space ends the segment that the white space belongs to.                 *)
KeyWord(k, t) ==
    LET slice == t.value[1] = "." /\ k.segments # <<>> /\ ~t.space
        raw == IF slice THEN Tail(t.value) ELSE t.value
        lead == StartsWithChar(raw, ".")
        words == SelectSeq(Pieces(raw), LAMBDA s : s # <<>>)
        base == IF k.joined THEN Glue(k.segments, t.white) ELSE k.segments
        segments == CASE lead /\ k.prefix # <<>> -> Append(base, k.prefix) \o words
                      [] ~lead /\ k.joined -> Glue(base, Head(words)) \o Tail(words)
                      [] ~lead /\ k.prefix # <<>> -> base \o <<k.prefix \o Head(words)>> \o Tail(words)
                      [] OTHER -> base \o words
    IN  IF \/ \E i \in 1..Len(raw) - 1 : raw[i] = "." /\ raw[i + 1] = "."
           \/ lead /\ ~k.joined /\ k.prefix = <<>>
        THEN Failure("key")
        ELSE [k EXCEPT !.segments = segments, !.dot = raw # <<>> /\ Last(raw) = "."]

WhiteBefore(i) == IF Kind(i) \in {"unquoted", "string"} THEN Tok(i).white ELSE <<>>

RECURSIVE ParseKey(_, _)
AfterKeyToken(read, i) ==
    LET k == [read EXCEPT !.joined = FALSE, !.prefix = <<>>]
        tight == Kind(i) = "unquoted" /\ ~Tok(i).space
    IN  CASE k.dot -> ParseKey(i, [k EXCEPT !.prefix = WhiteBefore(i)])
          [] tight /\ Tok(i).value = <<".">> ->
                 ParseKey(i + 1, [k EXCEPT !.dot = TRUE, !.prefix = WhiteBefore(i + 1)])
          [] tight /\ Tok(i).value # <<".">> /\ Tok(i).value[1] = "." ->
                 ParseKey(i, [k EXCEPT !.dot = TRUE])
          [] Kind(i) \in {"unquoted", "string"} /\ Tok(i).space ->
                 ParseKey(i, [k EXCEPT !.joined = TRUE])
          [] OTHER -> Piece(k, i)
(* Another token cannot begin a key, and cannot follow a dot of one.       *)
ParseKey(i, k) ==
    CASE Kind(i) = "string" -> AfterKeyToken(KeyString(k, Tok(i)), i + 1)
      [] Kind(i) = "unquoted" -> Bind(KeyWord(k, Tok(i)), LAMBDA word : AfterKeyToken(word, i + 1))
      [] OTHER -> Failure("key")
-----------------------------------------------------------------------------
(* An include.  A word may carry the parentheses that follow it.           *)

Ends == {"newline", "rbrace", "eof", "comma"}
IncludeWord == Chars("include")
Called(v, name) == v = Chars(name) \/ IsPrefix(Chars(name) \o <<"(">>, v)
Unsupported(v) == Called(v, "url") \/ Called(v, "classpath")
FileWords == {Chars("file"), Chars("file(")}

QuotedPath(i, qualifier, required, at) ==
    LET path == SkipWhile(i, LAMBDA j : IsWord(j, {<<"(">>}))
        end == SkipWhile(path + 1, LAMBDA j : IsWord(j, {<<")">>, <<")", ")">>}))
    IN  IF Kind(path) = "string" /\ Kind(end) \in Ends
        THEN Piece(AstInclude(qualifier, <<Tok(path).value>>, required, at), end)
        ELSE Failure("include")

PackageArgs(i, required, at) ==
    LET id == Skip(i)
        comma == Skip(id + 1)
        file == Skip(comma + 1)
    IN  IF Kind(id) = "string" /\ Kind(comma) = "comma" /\ Kind(file) = "string"
        THEN Piece(AstInclude("package", <<Tok(id).value, Tok(file).value>>, required, at),
                   SkipWhile(file + 1, LAMBDA j : Kind(j) \notin Ends))
        ELSE Failure("include")

(* required( may carry the qualifier; otherwise it is the next word.       *)
ParseRequired(i, at) ==
    LET word == Tok(i).value
        open == Chars("required(")
        inner == IF IsPrefix(open, word) THEN SubSeq(word, Len(open) + 1, Len(word)) ELSE <<>>
        next == IF inner = <<>> THEN Unquoteds(i + 1) ELSE {}
        args == IF inner = <<>> THEN i + 2 ELSE i + 1
    IN  CASE \/ word = Chars("required") /\ ~\E v \in Unquoteds(i + 1) : v[1] = "("
             \/ \E v \in {inner} \cup next : Unsupported(v) -> Failure("include")
          [] Called(inner, "package") \/ \E v \in next : IsPrefix(Chars("package("), v) ->
                 PackageArgs(args, TRUE, at)
          [] Called(inner, "file") \/ next \cap FileWords # {} -> QuotedPath(args, "file", TRUE, at)
          [] OTHER -> IF inner = <<>> THEN QuotedPath(i + 1, "bare", TRUE, at) ELSE Failure("include")

ParseInclude(start) ==
    LET i == Skip(start)
        at == Tok(start).at
    IN  CASE Kind(i) = "string" -> Piece(AstInclude("bare", <<Tok(i).value>>, FALSE, at), i + 1)
          [] \E v \in Unquoteds(i) : Called(v, "required") -> ParseRequired(i, at)
          [] IsWord(i, FileWords) -> QuotedPath(i + 1, "file", FALSE, at)
          [] \E v \in Unquoteds(i) : IsPrefix(Chars("package("), v) -> PackageArgs(i + 1, FALSE, at)
          [] OTHER -> Failure("include")
-----------------------------------------------------------------------------
(* Values, fields and documents.                                           *)

ScalarType(raw) ==
    CASE raw \in {Chars("true"), Chars("false")} -> "boolean"
      [] raw = Chars("null") -> "null"
      [] StartsNumber(raw) /\ IsNumber(raw) -> "number"
      [] OTHER -> "string"

RECURSIVE ParseFields(_, _, _)
RECURSIVE ParseItems(_, _)
RECURSIVE ParseValue(_, _)

(* What one token of a value begins; after a part, : and = are text.       *)
ParsePart(i) ==
    LET t == Tok(i)
        scalar(type) == Piece(AstScalar(t.value, type, FALSE, t.at), i + 1)
    IN  CASE t.kind = "lbrace" -> ParseFields(i + 1, <<>>, TRUE)
          [] t.kind = "lbracket" -> ParseItems(i + 1, <<>>)
          [] t.kind = "subst" -> Piece(AstSubst(t.value, t.at), i + 1)
          [] t.kind = "unquoted" ->
                 IF ScalarType(t.value) = "number" /\ Overflows(t.value) THEN Failure("number")
                 ELSE scalar(ScalarType(t.value))
          [] OTHER -> scalar("string")

ValueStops == {"eof", "newline", "rbrace", "rbracket", "comma", "plus_equals"}
EndsValue(i, parts) == Kind(i) \in ValueStops \/ (parts = <<>> /\ Kind(i) \in {"colon", "equals"})
SeparatorBeforeOne(i, parts) ==
    IF Tok(i).space /\ parts # <<>>
    THEN <<AstScalar(<<" ">>, "string", TRUE, Tok(i).at)>> ELSE <<>>
SeparatorBefore(i, parts) ==
    IF Tok(i).space /\ parts # <<>>
    THEN <<AstScalar(IF Tok(i).white # <<>> THEN Tok(i).white ELSE <<" ">>, "string", TRUE, Tok(i).at)>>
    ELSE <<>>
ParseValue(i, parts) ==
    CASE ~EndsValue(i, parts) ->
             Bind(ParsePart(i), LAMBDA part :
                 ParseValue(part.next, parts \o SeparatorBefore(i, parts) \o <<part.value>>))
      [] EndsValue(i, parts) /\ parts = <<>> -> Failure("value")
      [] OTHER -> Piece(IF Len(parts) = 1 THEN parts[1] ELSE AstConcat(parts), i)

ParseItems(start, items) ==
    LET i == Skip(start)
    IN  CASE Kind(i) = "eof" -> Failure("bracket")
          [] Kind(i) = "rbracket" -> Piece(AstArray(items), i + 1)
          [] OTHER -> Bind(ParseValue(i, <<>>), LAMBDA item :
                          ParseItems(Separator(item.next), Append(items, item.value)))

(* A separator may be missing before a brace.                              *)
Assigning == {"equals", "colon", "plus_equals"}
ParseAssignment(key, at, sep) ==
    IF Kind(sep) \notin Assigning \cup {"lbrace", "eof"} THEN Failure("separator")
    ELSE Bind(ParseValue(Skip(IF Kind(sep) \in Assigning THEN sep + 1 ELSE sep), <<>>), LAMBDA v :
             Piece(AstField(key, v.value, Kind(sep) = "plus_equals", at), v.next))

(* include is reserved at the start of a key.                              *)
ParseKeyField(i) ==
    Bind(ParseKey(i, NoKey), LAMBDA key :
        IF key.value.segments[1] = IncludeWord /\ ~key.value.quoted THEN Failure("include")
        ELSE ParseAssignment(key.value.segments, Tok(i).at, Skip(key.next)))

ParseField(i) ==
    IF ~IsWord(i, {IncludeWord}) THEN ParseKeyField(i)
    ELSE IF Kind(i + 1) \in Assigning \cup {"lbrace"} THEN Failure("include")
    ELSE ParseInclude(i + 1)

ParseFields(start, fields, braced) ==
    LET i == Skip(start)
    IN  CASE Kind(i) \notin {"eof", "rbrace"} ->
                 Bind(ParseField(i), LAMBDA field :
                     ParseFields(Separator(field.next), Append(fields, field.value), braced))
          [] Kind(i) = "eof" /\ braced -> Failure("brace")
          [] OTHER -> Piece(AstObject(fields), IF braced THEN i + 1 ELSE i)

(* After a braced root come more braced ones, then fields without braces.  *)
RECURSIVE ParseRootObjects(_, _)
ParseRootObjectsOnce(start, fields) ==
    LET i == Skip(start)
        braced == Kind(i) = "lbrace"
    IN  IF Kind(i) = "eof" THEN Piece(AstObject(fields), i)
        ELSE Bind(ParseFields(IF braced THEN i + 1 ELSE i, <<>>, braced), LAMBDA more :
                 IF braced THEN ParseRootObjects(more.next, more.value.fields) ELSE more)
ParseRootObjects(start, fields) ==
    LET i == Skip(start)
        braced == Kind(i) = "lbrace"
    IN  IF Kind(i) = "eof" THEN Piece(AstObject(fields), i)
        ELSE Bind(ParseFields(IF braced THEN i + 1 ELSE i, fields, braced), LAMBDA more :
                 IF braced THEN ParseRootObjects(more.next, more.value.fields) ELSE more)

(* Nothing may follow a document with a braced or a bracketed root.        *)
ParseDocument ==
    LET i == Skip(1)
        atEnd(root) == IF Kind(Skip(root.next)) = "eof" THEN root ELSE Failure("rest")
    IN  CASE Kind(i) = "lbrace" -> Bind(ParseRootObjects(i, <<>>), atEnd)
          [] Kind(i) = "lbracket" -> Bind(ParseItems(i + 1, <<>>), atEnd)
          [] OTHER -> ParseFields(i, <<>>, FALSE)
=============================================================================
