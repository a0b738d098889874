------------------------------- MODULE Formats -------------------------------
(***************************************************************************)
(* One call of printf() of tinylibc, a conversion at a time.  What it      *)
(* sends is digits (as numbers), a minus sign, or another character.  Two  *)
(* of its variables outlive a conversion: print_zero and ccount.           *)
(***************************************************************************)
EXTENDS Integers, Sequences, SequencesExt, FiniteSetsExt

CONSTANTS
  IntBytes,      \* sizeof(unsigned int): 4 in the chip
  Arguments,     \* the values of the arguments, as unsigned integers
  MaxConversions \* bound: conversions in one format

ASSUME IntBytesAssumption == IntBytes \in Nat /\ IntBytes > 2

VARIABLES
  print_zero,
  ccount,     \* bytes a %x prints
  count,      \* what printf() is to return
  sent,       \* characters sent
  conversions \* history: the conversions done, with their arguments and outputs

fmtVars == <<print_zero, ccount, count, sent, conversions>>

Minus == -1
Other == -2  \* any other character

Modulus == 256 ^ IntBytes

\* Mutant: the power of ten stops at ten of it, not below.
DecimalStrict(val) ==
  LET pow == Min({k \in 0 .. 9 : val \div (10 ^ k) <= 10})
  IN [i \in 1 .. (pow + 1) |-> (val \div (10 ^ (pow + 1 - i))) % 10]

\* PUT_INT_NUMBER: max_pow is multiplied by ten while ten of it fit in val; the first
\* digit is what val has of it.
PUT_INT_NUMBER(val) ==
  LET pow == Min({k \in 0 .. 9 : val \div (10 ^ k) < 10})
  IN [i \in 1 .. (pow + 1) |-> (val \div (10 ^ (pow + 1 - i))) % 10]

\* PUT_HEXA_VAL: from the highest half byte down; without print_zero from the first
\* that is not 0, and from the last one at any rate.
PUT_HEXA_VAL(val, bytes, zero) ==
  LET nibble(b) == (val \div (16 ^ b)) % 16
      first == IF zero THEN 2 * bytes - 1
               ELSE Max({0} \union {b \in 0 .. (2 * bytes - 1) : nibble(b) # 0})
  IN [i \in 1 .. (first + 1) |-> nibble(first + 1 - i)]

\* case 'd': i = -i, on IntBytes bytes
SignedDigits(arg) ==
  IF arg < Modulus \div 2 THEN PUT_INT_NUMBER(arg)
  ELSE <<Minus>> \o PUT_INT_NUMBER(Modulus - arg)

\* ccount = (*format - '0') / 2, for the digits 2 to 4
Sized(c) == c.digit \in 2 .. 4

FmtInit ==
  /\ print_zero = FALSE
  /\ ccount = IntBytes
  /\ count = 0
  /\ sent = << >>
  /\ conversions = << >>

\* "%", "0" if c.zero, a digit if c.digit is not 0, and the type.  A digit the code
\* does not handle is the type: it takes the argument, prints nothing, and the letter
\* that was to be the type is sent as it is.  Half of 3 is 1.
Convert(c, arg) ==
  LET zero == print_zero \/ c.zero
      bytes == IF Sized(c) THEN c.digit \div 2 ELSE ccount
      text == CASE c.digit # 0 /\ ~Sized(c) -> <<Other>>
                [] c.type = "d" -> SignedDigits(arg)
                [] c.type = "u" -> PUT_INT_NUMBER(arg)
                [] c.type = "x" -> PUT_HEXA_VAL(arg, bytes, zero)
                [] OTHER -> <<0, Other>> \o PUT_HEXA_VAL(arg, IntBytes, TRUE)
  IN /\ sent' = sent \o text
     /\ count' = count + Len(text)
     /\ ccount' = bytes
     /\ print_zero' = (zero /\ (c.type # "x" \/ (c.digit # 0 /\ ~Sized(c))))
     /\ conversions' = Append(conversions, [conv |-> c, arg |-> arg, text |-> text])

\* No digit (0), those handled, and one that stands for 1 and 5 to 9.
Conversions == [zero : BOOLEAN, digit : {0, 2, 3, 4, 8}, type : {"d", "u", "x", "p"}]

FmtNext ==
  /\ Len(conversions) < MaxConversions
  /\ \E c \in Conversions, arg \in Arguments : Convert(c, arg)

-----------------------------------------------------------------------------
Denotes(base, digits) == FoldLeft(LAMBDA v, d : base * v + d, 0, digits)
Minimal(digits) == digits # << >> /\ (digits[1] = 0 => Len(digits) = 1)

\* The digits the conversions up to i gave for the size of a %x: the last one counts.
SizeAt(i) ==
  LET given == {k \in 1 .. i : Sized(conversions[k].conv)}
  IN IF given = {} THEN IntBytes ELSE conversions[Max(given)].conv.digit \div 2

\* A digit that is no size.
Refused(c) == c.digit \notin {0, 2, 3, 4}

\* A "0" was given that no %x has used yet.
Padded(i) ==
  \E k \in 1 .. i :
    /\ conversions[k].conv.zero
    /\ \A j \in k .. (i - 1) :
         ~(conversions[j].conv.type = "x" /\ ~Refused(conversions[j].conv))

\* What printf() sends denotes its arguments, the lowest of the negative numbers
\* included: decimal numbers are whole and without leading zeros; a %x is whole unless
\* it or a conversion before it in the same format gave a size, and as wide as that
\* size when a "0" was given that no %x had used; and the count is that of the
\* characters sent (printf.c:95-185).
\*
\* The size is not what printf.h:37 promises ("%0?X can also be used, where ? is a digit
\* [1-9]"): a 2 or a 3 gives two digits and a 4 gives four, while any other digit prints
\* the letter X in the place of the argument, whatever the argument is (printf.c:107).
PrintsItsArguments ==
  /\ count = Len(sent)
  /\ \A i \in DOMAIN conversions :
       LET c == conversions[i].conv  arg == conversions[i].arg  text == conversions[i].text
           digits == IF text[1] = Minus THEN Tail(text) ELSE text
       IN CASE Refused(c) -> text = <<Other>>
              [] ~Refused(c) /\ c.type = "d" ->
                   /\ Minimal(digits)
                   /\ Denotes(10, digits) = IF text[1] = Minus THEN Modulus - arg ELSE arg
                   /\ (text[1] = Minus) = (arg >= Modulus \div 2)
              [] ~Refused(c) /\ c.type = "u" -> Minimal(text) /\ Denotes(10, text) = arg
              [] ~Refused(c) /\ c.type = "x" ->
                   /\ Denotes(16, text) = arg % (256 ^ SizeAt(i))
                   /\ IF Padded(i) THEN Len(text) = 2 * SizeAt(i) ELSE Minimal(text)
              [] OTHER -> Denotes(16, SubSeq(text, 3, Len(text))) = arg
=============================================================================
