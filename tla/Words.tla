------------------------------- MODULE Words -------------------------------
(***************************************************************************)
(* The int of the machine, for any width: what the instructions of the     *)
(* i386 build compute (additions and products wrap, the division truncates *)
(* and traps), and the conversions of libc/string.c and shell/commands.c.  *)
(***************************************************************************)
EXTENDS Integers, Sequences

CONSTANT Half        \* 2^31: an int is in -Half .. Half - 1

ASSUME WidthAssumption == Half \in Nat \ {0}

MaxInt == Half - 1
MinInt == -Half
Word == MinInt .. MaxInt

Wrap(n) == ((n + Half) % (2 * Half)) - Half
Unsigned(n) == n % (2 * Half)

\* idiv, for operands that do not trap.
Quotient(a, b) ==
  LET abs(n) == IF n < 0 THEN -n ELSE n
      q == abs(a) \div abs(b)
  IN IF (a < 0) = (b < 0) THEN q ELSE -q

Traps(a, b) == b = 0 \/ (a = MinInt /\ b = -1)

-----------------------------------------------------------------------------

\* The digits of a number, and no digit for zero.
Digits(base, n) ==
  LET digits[k \in 0 .. n] ==
        IF k = 0 THEN <<>> ELSE Append(digits[k \div base], k % base)
  IN digits[n]

\* The loops of str_to_int() and bin_to_int().
ValueOf(base, digits) ==
  LET value[k \in 0 .. Len(digits)] ==
        IF k = 0 THEN 0 ELSE Wrap(base * value[k - 1] + digits[k])
  IN value[Len(digits)]

\* A number as it is written; one of radix 2 stands after "0b".
Text == {s \in [radix : {2, 10}, neg : BOOLEAN, digits : Seq(0 .. 9)] :
           s.radix = 10 /\ ~s.neg => s.digits # <<>>}

\* The loop of int_to_str() runs while n > 0: not at all for -MinInt, which
\* is MinInt again.
IntToStr(n) ==
  LET m == IF n < 0 THEN Wrap(-n) ELSE n
  IN [radix |-> 10, neg |-> n < 0,
      digits |-> IF n = 0 THEN <<0>> ELSE IF m > 0 THEN Digits(10, m) ELSE <<>>]

StrToInt(s) ==
  LET n == ValueOf(10, s.digits)
  IN IF s.neg THEN Wrap(-n) ELSE n

\* int_to_bin() goes on with an unsigned: MinInt has its digits.
IntToBin(n) ==
  [radix |-> 2, neg |-> n < 0,
   digits |-> IF n = 0 THEN <<0>>
              ELSE Digits(2, Unsigned(IF n < 0 THEN Wrap(-n) ELSE n))]

\* Mutant: what is no digit is skipped.
BinToIntLoose(s) == ValueOf(2, s.digits)

\* bin_to_int(), which knows no sign.
BinToInt(s) ==
  IF s.neg \/ s.digits = <<>> \/ \E i \in DOMAIN s.digits : s.digits[i] > 1
  THEN -1 ELSE ValueOf(2, s.digits)

\* parse_operand(): is it a number, and which?
Readable(s) == s.radix = 2 => BinToInt(s) >= 0
Operand(s) == IF s.radix = 2 THEN BinToInt(s) ELSE StrToInt(s)
=============================================================================
