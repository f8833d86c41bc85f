------------------------------- MODULE Printf -------------------------------
(***************************************************************************)
(* printf (libc/stdio/printf.c): one call, from its format and arguments   *)
(* to the characters it hands to putchar and the count it returns.  format *)
(* and args are what it has not looked at yet; each turn of the while loop *)
(* renders one piece of the format into todo, digit by digit if it is a    *)
(* number, and puts that.                                                  *)
(***************************************************************************)
EXTENDS Integers, Sequences

CONSTANTS
  Character,     \* values of a char
  Requests,      \* calls: [format, args, text, tested], see below
  CountMax,      \* INT_MAX as the limit of written
  WordValues,    \* values of an unsigned argument (2^32)
  DecimalSize,   \* of num_to_print and unum_to_print (32)
  HexSize,       \* of hex_to_print (8)
  IntMinText     \* "-2147483648"

IntMin == -(WordValues \div 2)
DigitChars == <<"0", "1", "2", "3", "4", "5", "6", "7", "8", "9", "a", "b", "c", "d", "e", "f">>

Power(b, k) == b ^ k

ASSUME PrintfAssumption ==
  /\ CountMax \in Nat /\ WordValues \in Nat
  /\ DecimalSize \in Nat /\ WordValues <= Power(10, DecimalSize)
  /\ HexSize \in 0 .. 8 /\ WordValues <= Power(16, HexSize)
  /\ {DigitChars[k] : k \in 1 .. 16} \cup {"x", "-"} \subseteq Character

-----------------------------------------------------------------------------
(* What a call should print.                                               *)

(* A number in positional notation, without leading zeros.  Ten digits are *)
(* enough for a word of up to eight hexadecimal ones.                      *)
Numeral(n, base) ==
  IF n = 0 THEN <<"0">>
  ELSE LET len == CHOOSE k \in 1 .. 10 : Power(base, k - 1) <= n /\ n < Power(base, k)
       IN [k \in 1 .. len |-> DigitChars[((n \div Power(base, len - k)) % base) + 1]]

Conversions == {"c", "s", "d", "u", "x"}

(* The arguments of a conversion, and the text it makes of one.            *)
Argument(x) == CASE x = "c" -> Character
                 [] x = "s" -> Seq(Character)
                 [] x = "d" -> IntMin .. WordValues \div 2 - 1
                 [] OTHER   -> 0 .. WordValues - 1

Shown(x, a) == CASE x = "c" -> <<a>>
                 [] x = "s" -> a
                 [] x = "d" -> IF a < 0 THEN <<"-">> \o Numeral(-a, 10) ELSE Numeral(a, 10)
                 [] x = "u" -> Numeral(a, 10)
                 [] x = "x" -> <<"0", "x">> \o Numeral(a, 16)

(* printf prints and counts these without a look at maxrem: 0 and INT_MIN  *)
(* (printf.c:85,91,136,169), and the "0x" of a number (:187).              *)
Untested(x, a) == x = "x" \/ (x \in {"d", "u"} /\ a \in {0, IntMin})

(* The first n characters of the format print shown; what is left of the   *)
(* call then is a call of its own.                                         *)
Continues(r, n, args, shown, tested) ==
  \E q \in Requests :
    /\ q.format = SubSeq(r.format, n + 1, Len(r.format)) /\ q.args = args
    /\ r.text = shown \o q.text
    /\ r.tested => tested /\ q.tested

(* Text up to the next '%' prints as it stands; "%%" begins it with a '%'. *)
PlainText(r) ==
  \E first \in {1, 2} : \E last \in first .. Len(r.format) :
    /\ IF first = 1 THEN r.format[1] # "%" ELSE r.format[1] = "%" /\ r.format[2] = "%"
    /\ \A k \in first + 1 .. last : r.format[k] # "%"
    /\ last = Len(r.format) \/ r.format[last + 1] = "%"
    /\ Continues(r, last, r.args, SubSeq(r.format, first, last), TRUE)

Converted(r) ==
  /\ Len(r.format) > 1 /\ r.format[1] = "%" /\ r.format[2] \in Conversions
  /\ r.args # <<>> /\ Head(r.args) \in Argument(r.format[2])
  /\ Continues(r, 2, Tail(r.args), Shown(r.format[2], Head(r.args)),
               ~Untested(r.format[2], Head(r.args)))

(* From an unknown conversion on the format prints as it stands.           *)
AsItStands(r) ==
  /\ r.format # <<>> /\ r.format[1] = "%"
  /\ Len(r.format) > 1 => r.format[2] \notin Conversions \cup {"%"}
  /\ Continues(r, Len(r.format), r.args, r.format, TRUE)

(* text is what the call should print, tested is false if its format has a *)
(* piece that is printed without having been tested.                       *)
ASSUME RequestsAssumption ==
  /\ IntMinText = <<"-">> \o Numeral(-IntMin, 10) /\ IntMinText \in Seq(Character)
  /\ \A r \in Requests :
       /\ r.format \in Seq(Character) /\ r.text \in Seq(Character)
       /\ (r.format = <<>> /\ r.text = <<>>) \/ PlainText(r) \/ Converted(r) \/ AsItStands(r)

-----------------------------------------------------------------------------
VARIABLES
  request,      \* the call
  format, args,
  written,
  doing,        \* "scan" the format, extract "digits", "put", "returned"
  conv,         \* the conversion whose digits are extracted
  num, negative, digits,
  todo, gain,   \* characters still to put, and what they add to written
  count,        \* what printf returns
  out           \* history: the characters put

printfVars == <<request, format, args, written, doing, conv, num, negative, digits,
          todo, gain, count, out>>

PrintfInit ==
  /\ request \in Requests
  /\ format = request.format /\ args = request.args
  /\ written = 0 /\ doing = "scan" /\ conv = "d" /\ num = 0 /\ negative = FALSE
  /\ digits = <<>> /\ todo = <<>> /\ gain = 0 /\ count = 0 /\ out = <<>>

-----------------------------------------------------------------------------
(* Names that end in capitals are faulty variants of the definition that   *)
(* follows; nothing uses them.                                             *)

(* A value of type int, and of type size_t after the subtraction.          *)
Wrap(n) == ((n + CountMax + 1) % (2 * (CountMax + 1))) - (CountMax + 1)
maxrem_WHOLE == CountMax

maxrem == (CountMax - written) % (2 * (CountMax + 1))

Base_TEN == 10

Base == IF conv = "x" THEN 16 ELSE 10
Size == IF conv = "x" THEN HexSize ELSE DecimalSize

Put(text) == doing' = "put" /\ todo' = text /\ gain' = Len(text) /\ UNCHANGED count

GiveUp == doing' = "returned" /\ count' = -1 /\ UNCHANGED <<todo, gain>>

PutIfRoom(text) == IF maxrem < Len(text) THEN GiveUp ELSE Put(text)

Scanning == doing = "scan" /\ format # <<>>
Conversion(x) == Scanning /\ Len(format) > 1 /\ format[1] = "%" /\ format[2] = x

TakeFormat(n) == format' = SubSeq(format, n + 1, Len(format))

(* The conversion and its argument are read.                               *)
TakeArg == TakeFormat(2) /\ args' = Tail(args)

Between == <<request, written, conv, num, negative, digits, out>>

(* Plain text up to the next '%', which "%%" begins with a '%'.            *)
Literal_TO_END ==
  /\ Scanning /\ (format[1] # "%" \/ Conversion("%"))
  /\ PutIfRoom(SubSeq(format, IF format[1] = "%" THEN 2 ELSE 1, Len(format)))
  /\ format' = <<>>
  /\ UNCHANGED <<args, Between>>

Literal ==
  /\ Scanning /\ (format[1] # "%" \/ Conversion("%"))
  /\ LET first == IF format[1] = "%" THEN 2 ELSE 1
         last == CHOOSE k \in first .. Len(format) :
                   /\ k = Len(format) \/ format[k + 1] = "%"
                   /\ \A j \in first + 1 .. k : format[j] # "%"
     IN PutIfRoom(SubSeq(format, first, last)) /\ TakeFormat(last)
  /\ UNCHANGED <<args, Between>>

Char == Conversion("c") /\ PutIfRoom(<<Head(args)>>) /\ TakeArg /\ UNCHANGED Between

String == Conversion("s") /\ PutIfRoom(Head(args)) /\ TakeArg /\ UNCHANGED Between

(* The characters that a number which has no digits to extract prints: 0   *)
(* and INT_MIN.  They are not tested against maxrem.                       *)
Special(x, n) == IF n = 0 THEN IF x = "x" THEN <<"0", "x", "0">> ELSE <<"0">>
                 ELSE IF x = "d" /\ n = IntMin THEN IntMinText ELSE <<>>

SpecialNumber ==
  \E x \in {"d", "u", "x"} :
    /\ Conversion(x) /\ Special(x, Head(args)) # <<>>
    /\ Put(Special(x, Head(args))) /\ TakeArg
    /\ UNCHANGED Between

Number ==
  \E x \in {"d", "u", "x"} :
    /\ Conversion(x) /\ Special(x, Head(args)) = <<>>
    /\ Head(args) \in IF x = "d" THEN IntMin + 1 .. WordValues \div 2 - 1 ELSE 1 .. WordValues - 1
    /\ conv' = x /\ digits' = <<>> /\ doing' = "digits" /\ TakeArg
    /\ negative' = (Head(args) < 0) /\ num' = IF Head(args) < 0 THEN -Head(args) ELSE Head(args)
    /\ UNCHANGED <<request, written, todo, gain, count, out>>

(* The least significant digit that is left goes into the buffer.          *)
Digit ==
  /\ doing = "digits" /\ num # 0
  /\ digits' = Append(digits, DigitChars[(num % Base) + 1]) /\ num' = num \div Base
  /\ UNCHANGED <<request, format, args, written, doing, conv, negative, todo, gain, count, out>>

(* After the last digit: they are put backwards.  "0x" is put and counted  *)
(* without having been tested against maxrem.                              *)
DigitsDone ==
  /\ doing = "digits" /\ num = 0
  /\ LET len == Len(digits)
         backwards == [k \in 1 .. len |-> digits[len + 1 - k]]
     IN IF conv = "x"
        THEN IF maxrem < len THEN GiveUp ELSE Put(<<"0", "x">> \o backwards)
        ELSE PutIfRoom((IF negative THEN <<"-">> ELSE <<>>) \o backwards)
  /\ UNCHANGED <<format, args, Between>>

(* Any other conversion prints the rest of the format as it stands.        *)
Unknown ==
  /\ Scanning /\ format[1] = "%"
  /\ \A x \in {"%", "c", "s", "d", "u", "x"} : ~Conversion(x)
  /\ PutIfRoom(format) /\ format' = <<>>
  /\ UNCHANGED <<args, Between>>

Putchar ==
  /\ doing = "put" /\ todo # <<>>
  /\ out' = Append(out, Head(todo)) /\ todo' = Tail(todo)
  /\ UNCHANGED <<request, format, args, written, doing, conv, num, negative, digits, gain, count>>

PutDone ==
  /\ doing = "put" /\ todo = <<>>
  /\ written' = Wrap(written + gain) /\ doing' = "scan"
  /\ UNCHANGED <<request, format, args, conv, num, negative, digits, todo, gain, count, out>>

End ==
  /\ doing = "scan" /\ format = <<>>
  /\ doing' = "returned" /\ count' = written
  /\ UNCHANGED <<request, format, args, written, conv, num, negative, digits, todo, gain, out>>

(* Everything but the call of putchar. *)
Silent == Literal \/ Char \/ String \/ SpecialNumber \/ Number \/ Digit \/ DigitsDone
            \/ Unknown \/ PutDone \/ End

PrintfNext == Silent \/ Putchar

PrintfSpec == PrintfInit /\ [][PrintfNext]_printfVars

-----------------------------------------------------------------------------
(* Properties *)

(* A text that can be counted is put character by character, and counted.  *)
Renders ==
  doing = "returned" /\ Len(request.text) <= CountMax
    => out = request.text /\ count = Len(out)

(* In a call whose pieces are all compared with maxrem, written never      *)
(* wraps, and a text that is too long for the count makes printf fail      *)
(* before the piece that does not fit and not in the middle of it.  0, the *)
(* least number and the prefix of %x are added without that test           *)
(* (printf.c:85,136,187); of a call with one of these that is too long     *)
(* nothing is said.                                                        *)
FailsWhenTooLong ==
  request.tested =>
    /\ written \in 0 .. CountMax
    /\ doing = "returned" /\ Len(request.text) > CountMax
         => /\ count = -1
            /\ Len(out) = written
            /\ out = SubSeq(request.text, 1, written)

(* No number has more digits than its buffer has room for: hex_to_print    *)
(* has no byte to spare.                                                   *)
DigitsFit == doing = "digits" => Len(digits) <= Size
=============================================================================
