----------------------------- MODULE MCConsole ------------------------------
(***************************************************************************)
(* Calls of printf with up to two pieces, on words of 8 bits and a count   *)
(* of at most 7, and the text a reference rendering, with numerals by      *)
(* recursion, gives them.                                                  *)
(***************************************************************************)
EXTENDS Console

(* The digits of n in a base, most significant first; RequestsAssumption   *)
(* compares them with Numeral.                                             *)
RecursiveNumeral(n, base) ==
  LET f[m \in 0 .. 255] == IF m = 0 THEN <<>> ELSE Append(f[m \div base], m % base)
      d == IF n = 0 THEN <<0>> ELSE f[n]
  IN [k \in 1 .. Len(d) |-> DigitChars[d[k] + 1]]

Unsigned == {0, 1, 9, 10, 15, 16, 100, 255}
Signed == {-128, -127, -1, 0, 10, 127}
Strs == {<<>>, <<"NL">>, <<"a", "NL", "b">>, <<"b", "a", "b", "a">>}

(* Pieces of a format: with their arguments and what they print.           *)
Piece(f, a, t) == [format |-> f, args |-> a, text |-> t, tested |-> TRUE]
Unchecked(p) == [p EXCEPT !.tested = FALSE]
Num(x, n, t) == LET p == Piece(<<"%", x>>, <<n>>, t)
                   IN IF x = "x" \/ n \in {0, -128} THEN Unchecked(p) ELSE p
Pieces ==
  {Piece(s, <<>>, s) : s \in {<<"a">>, <<"NL">>, <<"a", "b", "NL">>}}
  \cup {Piece(<<"%", "%">>, <<>>, <<"%">>), Piece(<<"%", "%", "b">>, <<>>, <<"%", "b">>)}
  \cup {Piece(<<"%", "c">>, <<x>>, <<x>>) : x \in {"a", "NL"}}
  \cup {Piece(<<"%", "s">>, <<s>>, s) : s \in Strs}
  \cup {Num("d", n, IF n < 0 THEN <<"-">> \o RecursiveNumeral(-n, 10) ELSE RecursiveNumeral(n, 10))
           : n \in Signed}
  \cup {Num("u", n, RecursiveNumeral(n, 10)) : n \in Unsigned}
  \cup {Num("x", n, <<"0", "x">> \o RecursiveNumeral(n, 16)) : n \in Unsigned}

(* What begins with an unknown conversion or a last '%' is printed as it   *)
(* stands, so it ends a format.                                            *)
Last == Pieces \cup {Piece(f, <<>>, f) : f \in {<<>>, <<"%">>, <<"%", "a", "%", "d">>}}

(* Every text of up to 7 letters and newlines, for the terminal.           *)
Texts == {Piece(<<"%", "s">>, <<s>>, s) : s \in UNION {[1 .. k -> {"a", "NL"}] : k \in 1 .. 7}}

(* Calls of two pieces, and what is left of them after the first.          *)
MCRequests ==
  Texts \cup Last
    \cup {[format |-> p.format \o q.format, args |-> p.args \o q.args,
           text |-> p.text \o q.text, tested |-> p.tested /\ q.tested]
             : p \in Pieces, q \in Last}

MCIntMinText == <<"-", "1", "2", "8">>
MCChars == {DigitChars[k] : k \in 1 .. 16} \cup {"x", "-", "%"}
MCCharacter == MCChars \cup {"NL", "s", "u"}
MCHandlerText == <<"a", "NL">>
=============================================================================
