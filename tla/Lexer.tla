------------------------------- MODULE Lexer -------------------------------
(***************************************************************************)
(* The tokenizer (_internal/lexer/lexer.py): one action per branch of its  *)
(* loop, each of which consumes a piece of the text and may push a token.  *)
(*                                                                         *)
(* A token is [kind, value, space, white, at]: space tells whether white   *)
(* space or a comment precedes it, white is the white space alone, and at  *)
(* is where it starts (the code keeps line and column).  The value of a    *)
(* substitution is its path, [segments, optional, list].                   *)
(***************************************************************************)
EXTENDS Characters

CONSTANT Chr       \* the character of four hexadecimal digits

VARIABLES
    text,          \* the text to read
    pos,           \* how far it is read
    hadSpace,      \* white space or a comment since the last token
    white,         \* that white space
    tokens,        \* the tokens so far
    error          \* why the text was rejected, NoError if it was not
lexerVars == <<text, pos, hadSpace, white, tokens, error>>

NoError == ""
Token(kind, value) == [kind |-> kind, value |-> value, space |-> hadSpace, white |-> white, at |-> pos]

(* The character at a position: what _peek sees.                           *)
At(i) == IF i \in DOMAIN text THEN text[i] ELSE End
LooksAt(i, s) == \A j \in DOMAIN s : At(i + j - 1) = s[j]

(* What reading a piece gives: its value and where the text goes on, or an *)
(* error.                                                                  *)
Piece(value, next) == [value |-> value, next |-> next]
Failure(e) == [error |-> e]
Failed(r) == "error" \in DOMAIN r
Bind(r, Then(_)) == IF Failed(r) THEN r ELSE Then(r)
-----------------------------------------------------------------------------
(* A quoted string, after its opening quote.                               *)

Escapes == [c \in {"n", "t", "r", "\"", "\\", "/", "b", "f"} |->
               CASE c = "n" -> "\n" [] c = "t" -> "\t" [] c = "r" -> "\r"
                 [] c = "b" -> Backspace [] c = "f" -> "\f" [] OTHER -> c]

RECURSIVE ReadQuotedBody(_, _)
ReadEscape(i, value) ==
    LET hex == [j \in 1..4 |-> At(i + j)]
    IN  CASE At(i) \in DOMAIN Escapes -> ReadQuotedBody(i + 1, Append(value, Escapes[At(i)]))
          [] At(i) = "u" /\ AllIn(hex, HexDigits) ->
                 ReadQuotedBody(i + 5, Append(value, Chr[hex]))
          [] OTHER -> Failure("string")
ReadQuotedBody(i, value) ==
    CASE At(i) \in {End, "\n"} -> Failure("string")
      [] At(i) = "\"" -> Piece(value, i + 1)
      [] At(i) = "\\" -> ReadEscape(i + 1, value)
      [] OTHER -> ReadQuotedBody(i + 1, Append(value, At(i)))

(* A triple-quoted string ends at three quotes or more; the last three     *)
(* close it.                                                               *)
ReadTripleQuoted(start) ==
    LET closing == {i \in start..Len(text) - 2 : \A j \in i..i + 2 : text[j] = "\""}
        first == CHOOSE i \in closing : \A j \in closing : i <= j
        end == CHOOSE i \in first + 3..Len(text) + 1 :
                   At(i) # "\"" /\ \A j \in first..i - 1 : text[j] = "\""
    IN  IF closing = {} THEN Failure("string")
        ELSE Piece(SubSeq(text, start, end - 4), end)
-----------------------------------------------------------------------------
(* An unquoted run.  A + in it must be the sign of a number's exponent.    *)
EndOf(start, GoesOn(_)) == CHOOSE i \in start..Len(text) + 1 :
                               ~GoesOn(i) /\ \A j \in start..i - 1 : GoesOn(j)

ReadUnquoted ==
    LET end == EndOf(pos, LAMBDA i : IsUnquotedContinue(At(i), At(i + 1)))
        run == SubSeq(text, pos, end - 1)
        stray(i) == text[i] = "+" /\ ~IsExponentSign(SubSeq(text, pos, i - 1), At(i + 1))
        endsAtPlus == At(end) = "+" /\ StartsNumber(run) /\ AllIn(run, NumberLexChars)
    IN  IF (\E i \in pos..end - 1 : stray(i)) \/ endsAtPlus \/ GreedyNumberLexRejects(run)
        THEN Failure("plus")
        ELSE Piece(run, end)
-----------------------------------------------------------------------------
(* The path of a substitution, after ${ or ${?.  b is what was read of it: *)
(* the segments that a dot ended, the one that is open, and white space    *)
(* that belongs to it if it goes on.                                       *)

NoSegment == [segments |-> <<>>, open |-> FALSE, cur |-> <<>>, pending |-> <<>>]
ContinuedTrimming(b, s) == [b EXCEPT !.open = TRUE, !.pending = <<>>, !.cur = @ \o s]
Continued(b, s) == [b EXCEPT !.open = TRUE, !.pending = <<>>,
                             !.cur = (IF b.open THEN @ \o b.pending ELSE @) \o s]
EndSegment(b) == [NoSegment EXCEPT !.segments = Append(b.segments, b.cur)]

(* The [] suffix: only spaces and tabs before it, and } after it.          *)
ReadListSuffix(i, b) ==
    IF b.open /\ AllIn(b.pending, {" ", "\t"}) /\ At(i + 1) = "]" /\ At(i + 2) = "}"
    THEN Piece([segments |-> EndSegment(b).segments, list |-> TRUE], i + 3)
    ELSE Failure("path")

RECURSIVE ReadSubstBody(_, _)
ReadSubstBody(i, b) ==
    LET c == At(i)
        end == EndOf(i, LAMBDA j : IsUnquotedSubstChar(At(j)))
    IN  CASE c = "}" ->
                 IF b.open THEN Piece([segments |-> EndSegment(b).segments, list |-> FALSE], i + 1)
                           ELSE Failure("path")
          [] c = "[" -> ReadListSuffix(i, b)
          [] c = "\"" -> Bind(ReadQuotedBody(i + 1, <<>>),
                              LAMBDA q : ReadSubstBody(q.next, Continued(b, q.value)))
          [] IsUnquotedSubstChar(c) ->
                 IF c = "-" /\ ~b.open /\ At(i + 1) \notin Digits THEN Failure("path")
                 ELSE ReadSubstBody(end, Continued(b, SubSeq(text, i, end - 1)))
          [] c = "." -> IF b.open THEN ReadSubstBody(i + 1, EndSegment(b)) ELSE Failure("path")
          [] IsWhitespace(c) /\ ~IsNewline(c) ->
                 ReadSubstBody(i + 1, [b EXCEPT !.pending = Append(@, c)])
          [] OTHER -> Failure("path")

ReadSubst ==
    LET optional == At(pos + 2) = "?"
    IN  Bind(ReadSubstBody(pos + (IF optional THEN 3 ELSE 2), NoSegment),
             LAMBDA body : Piece([segments |-> body.value.segments, optional |-> optional,
                                  list |-> body.value.list], body.next))
-----------------------------------------------------------------------------
LexInit ==
    /\ pos = 1 /\ hadSpace = FALSE /\ white = <<>>
    /\ tokens = <<>> /\ error = NoError

Push(kind, value, next) ==
    /\ tokens' = Append(tokens, Token(kind, value))
    /\ pos' = next /\ hadSpace' = FALSE /\ white' = <<>>
    /\ UNCHANGED <<text, error>>

Raise(e) == error' = e /\ UNCHANGED <<text, pos, hadSpace, white, tokens>>

(* Pushing a piece, or raising its error.                                  *)
PushPiece(kind, pieces) ==
    \E r \in pieces : IF Failed(r) THEN Raise(r.error) ELSE Push(kind, r.value, r.next)

Ended == tokens # <<>> /\ Last(tokens).kind = "eof"
AtChar(c) == error = NoError /\ c # End /\ At(pos) = c
AtWhitespace == error = NoError /\ pos \in DOMAIN text /\ IsWhitespace(At(pos))
AtComment == LooksAt(pos, <<"/", "/">>) \/ LooksAt(pos, <<"#">>)

(* A newline ends the line once.  The white space around an empty line     *)
(* goes to the next token.                                                 *)
Newline ==
    /\ AtChar("\n")
    /\ IF tokens # <<>> /\ Last(tokens).kind = "newline"
       THEN pos' = pos + 1 /\ UNCHANGED <<text, hadSpace, white, tokens, error>>
       ELSE Push("newline", <<"\n">>, pos + 1)

Whitespace ==
    /\ AtWhitespace /\ ~AtChar("\n")
    /\ pos' = pos + 1
    /\ hadSpace' = TRUE
    /\ white' = Append(white, At(pos))
    /\ UNCHANGED <<text, tokens, error>>

Comment ==
    /\ error = NoError /\ AtComment
    /\ pos' = EndOf(pos, LAMBDA i : At(i) \notin {"\n", End})
    /\ hadSpace' = TRUE
    /\ UNCHANGED <<text, white, tokens, error>>

Kinds == [c \in {"{", "}", "[", "]", ",", ":", "="} |->
             CASE c = "{" -> "lbrace" [] c = "}" -> "rbrace" [] c = "[" -> "lbracket"
               [] c = "]" -> "rbracket" [] c = "," -> "comma" [] c = ":" -> "colon"
               [] c = "=" -> "equals"]

Punctuation == \E c \in DOMAIN Kinds : AtChar(c) /\ Push(Kinds[c], <<c>>, pos + 1)

PlusEquals ==
    /\ error = NoError /\ LooksAt(pos, <<"+", "=">>)
    /\ Push("plus_equals", <<"+", "=">>, pos + 2)

Substitution == error = NoError /\ LooksAt(pos, <<"$", "{">>) /\ PushPiece("subst", {ReadSubst})

IsTriple == LooksAt(pos, <<"\"", "\"", "\"">>)
TripleQuoted ==
    error = NoError /\ IsTriple /\ PushPiece("triple_string", {ReadTripleQuoted(pos + 3)})
Quoted == AtChar("\"") /\ ~IsTriple /\ PushPiece("string", {ReadQuotedBody(pos + 1, <<>>)})

Unquoted ==
    /\ error = NoError /\ IsUnquotedStart(At(pos)) /\ ~AtComment
    /\ PushPiece("unquoted", {ReadUnquoted})

(* A + that is not +=, a $ without {, and the other reserved characters.   *)
Unexpected ==
    /\ error = NoError /\ At(pos) \in Reserved \ (DOMAIN Kinds \cup {"\"", "#"})
    /\ ~LooksAt(pos, <<"+", "=">>) /\ ~LooksAt(pos, <<"$", "{">>)
    /\ Raise(IF At(pos) = "+" THEN "plus" ELSE "character")

EndOfText == error = NoError /\ ~Ended /\ pos > Len(text) /\ Push("eof", <<>>, pos)

Lex ==
    \/ Newline \/ Whitespace \/ Comment \/ Punctuation \/ PlusEquals
    \/ Substitution \/ TripleQuoted \/ Quoted \/ Unquoted \/ Unexpected \/ EndOfText
=============================================================================
