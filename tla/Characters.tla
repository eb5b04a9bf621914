---------------------------- MODULE Characters ----------------------------
(***************************************************************************)
(* The characters of HOCON and the texts that are numbers (the predicates  *)
(* of _internal/lexer/lexer.py).  A text is a sequence of characters, a    *)
(* character a string of length one, or a name for one that TLA+ cannot    *)
(* write.  Form feed and byte order mark stand for the other white space.  *)
(*                                                                         *)
(* An operator whose name has a suffix and which stands just before the    *)
(* operator of the plain name is the same with a mistake in it, to see     *)
(* that the properties notice; nothing uses it.                            *)
(***************************************************************************)
EXTENDS Integers, Sequences, SequencesExt

Chars(s) == [i \in 1..Len(s) |-> SubSeq(s, i, i)]

End == ""                          \* what _peek gives past the end of the text
Bom == "byte order mark"
Backspace == "backspace"
Backquote == "backquote"

IsNewline(c) == c = "\n"
IsWhitespace(c) == c \in {" ", "\t", "\r", "\f", Bom, "\n"}

Digits == {"0", "1", "2", "3", "4", "5", "6", "7", "8", "9"}
HexDigits == Digits \cup {"a", "b", "c", "d", "e", "f", "A", "B", "C", "D", "E", "F"}

(* The characters that mean something outside quotes (S8.1).               *)
Reserved == {"{", "}", "[", "]", ",", ":", "=", "+", "#", "\"", "$", "?", "!",
             "@", "*", "&", "^", Backquote, "\\"}

IsUnquotedStart(c) == c # End /\ ~IsWhitespace(c) /\ c \notin Reserved

(* A + goes on: what may be done with it depends on the run so far.        *)
IsUnquotedContinue(c, next) ==
    /\ c = "+" \/ IsUnquotedStart(c)
    /\ <<c, next>> \notin {<<"+", "=">>, <<"/", "/">>}

IsUnquotedSubstChar(c) == IsUnquotedStart(c) /\ c # "."
-----------------------------------------------------------------------------
(* The number grammars, regular expressions in lexer.py.                   *)

AllIn(s, set) == \A i \in DOMAIN s : s[i] \in set
IsDigits(s) == s # <<>> /\ AllIn(s, Digits)
Unsigned(s) == IF s # <<>> /\ s[1] = "-" THEN Tail(s) ELSE s

(* Digits with a point after them or among them; digits after a point.     *)
IsDecimal(s) ==
    \/ IsDigits(s)
    \/ \E i \in DOMAIN s : /\ s[i] = "." /\ IsDigits(SubSeq(s, 1, i - 1))
                           /\ AllIn(SubSeq(s, i + 1, Len(s)), Digits)
IsFraction(s) == s # <<>> /\ s[1] = "." /\ IsDigits(Tail(s))

(* DECIMAL_NUMBER_RE                                                       *)
IsNumber(s) ==
    LET u == Unsigned(s)
        mantissa(m) == IsDecimal(m) \/ IsFraction(m)
        exponent(e) == IsDigits(e) \/ (e # <<>> /\ e[1] \in {"+", "-"} /\ IsDigits(Tail(e)))
    IN  \/ mantissa(u)
        \/ \E i \in DOMAIN u : /\ u[i] \in {"e", "E"} /\ mantissa(SubSeq(u, 1, i - 1))
                               /\ exponent(SubSeq(u, i + 1, Len(u)))

(* _EXPONENT_PREFIX_RE: a mantissa and its exponent marker.  A fraction    *)
(* without a sign is text.                                                 *)
IsExponentPrefix(run) ==
    /\ run # <<>> /\ Last(run) \in {"e", "E"}
    /\ \/ IsDecimal(Unsigned(Front(run)))
       \/ run[1] = "-" /\ IsFraction(Tail(Front(run)))

IsExponentSign(run, next) == next \in Digits /\ IsExponentPrefix(run)

NumberLexChars == Digits \cup {".", "e", "E", "+", "-"}
StartsNumber(run) == run # <<>> /\ run[1] \in Digits \cup {"-"}

(* The longest prefix of number characters must be a number if it has a +. *)
GreedyNumberLexRejectsNever(run) == FALSE
GreedyNumberLexRejects(run) ==
    LET end == CHOOSE n \in 0..Len(run) : /\ AllIn(SubSeq(run, 1, n), NumberLexChars)
                                          /\ n = Len(run) \/ run[n + 1] \notin NumberLexChars
        prefix == SubSeq(run, 1, end)
    IN  StartsNumber(run) /\ "+" \in ToSet(prefix) /\ ~IsNumber(prefix)
=============================================================================
