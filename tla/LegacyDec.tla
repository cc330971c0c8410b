----------------------------- MODULE LegacyDec -----------------------------
(***************************************************************************)
(* The fixed-point decimals every amount of govbox is computed with        *)
(* (cosmossdk.io/math, LegacyDec).  A Dec is the integer number of its     *)
(* smallest units: One units make 1, One being 10^18 in the library and a  *)
(* small even number in the models.  Adding, subtracting and comparing     *)
(* Decs is adding, subtracting and comparing integers; multiplying and     *)
(* dividing round, and the rounding is what this module models.  govbox    *)
(* never holds a negative Dec, so negative operands are left out.          *)
(***************************************************************************)
EXTENDS Integers

CONSTANT One    \* units in the Dec 1

ASSUME OneAssumption == One \in Nat \ {0} /\ One % 2 = 0

\* quo plus the fraction rem / One, rounded half to even.
RoundHalfEven(quo, rem) ==
  IF 2 * rem > One \/ (2 * rem = One /\ quo % 2 = 1) THEN quo + 1 ELSE quo

\* Drops the last digits of a number scaled by One twice.
ChopRound(d) == RoundHalfEven(d \div One, d % One)

Mul(a, b) == ChopRound(a * b)

\* The quotient is computed to twice the digits and truncated there, then
\* rounded.  This is ChopRound((a * One * One) \div b) by long division, which
\* keeps the numbers within the integers of TLC.
Quo(a, b) ==
  LET rest == (a % b) * One
  IN  RoundHalfEven((a \div b) * One + (rest \div b), ((rest % b) * One) \div b)

MulInt(a, i) == a * i

TruncateInt(a) == a \div One

RoundInt(a) == ChopRound(a)

FromInt(i) == i * One
=============================================================================
