----------------------------- MODULE FixedPoint -----------------------------
(***************************************************************************)
(* Decimal, Difference and Percent (lib-base/src/Decimal.ts): amounts are  *)
(* integers that count units of 1 / DIGITS, INFINITY is the largest of     *)
(* them, and every division rounds.  A Decimal is a natural number: the    *)
(* constructor throws for a negative one, so a result outside Nat stands   *)
(* for that exception.                                                     *)
(***************************************************************************)
EXTENDS Integers

CONSTANTS
    DIGITS,     \* the units of one: 10^18 in the code
    INFINITY    \* 2^256 - 1 in the code

ASSUME ScaleAssumption == DIGITS \in Nat \ {0} /\ INFINITY \in Nat

ONE  == DIGITS
HALF == DIGITS \div 2

Smaller(a, b) == IF a < b THEN a ELSE b     \* Decimal.min
Larger(a, b)  == IF a > b THEN a ELSE b     \* Decimal.max

Mul(a, b) == (a * b) \div DIGITS

Div(a, b) == IF b = 0 THEN INFINITY ELSE (a * DIGITS) \div b

\* Mutant: _divCeil() without the divider - 1, an ordinary division.
DivFloor(a, b) == IF b = 0 THEN INFINITY ELSE (a * DIGITS) \div b

DivCeil(a, b) == IF b = 0 THEN INFINITY ELSE (a * DIGITS + (b - 1)) \div b

MulDiv(a, b, c) == IF c = 0 THEN INFINITY ELSE (a * b) \div c

RoundedMul(a, b) == (a * b + HALF) \div DIGITS

\* The loop of pow(): y collects the odd powers while x is squared.
PowLoop[e \in Nat] ==
    [x \in Nat |-> [y \in Nat |->
        IF e <= 1 THEN RoundedMul(x, y)
        ELSE PowLoop[e \div 2][RoundedMul(x, x)]
                    [IF e % 2 = 1 THEN RoundedMul(x, y) ELSE y]]]

Pow(base, e) ==
    IF e = 0 THEN ONE ELSE IF e = 1 THEN base ELSE PowLoop[e][base][DIGITS]

(***************************************************************************)
(* A text is the digits before the point and those after it, of which the  *)
(* last is worth "unit": printing rounds half up to it, reading a mantissa *)
(* pads it with zeros.                                                     *)
(***************************************************************************)
\* _toStringWithPrecision()
Text(a, unit) ==
    LET value == IF unit = 1 THEN a ELSE a + unit \div 2
    IN [characteristic |-> value \div DIGITS,
        mantissa |-> (value % DIGITS) \div unit]

\* _fromString()
FromText(t, unit) == t.characteristic * DIGITS + t.mantissa * unit

(***************************************************************************)
(* Difference.between(): the sign and the size of a change, or "N/A" when  *)
(* a side is undefined (Absent) or both are infinite.                      *)
(***************************************************************************)
Absent == -1
NotAvailable == [sign |-> "N/A", absoluteValue |-> Absent]

Between(a, b) ==
    IF a = Absent \/ b = Absent \/ (a = INFINITY /\ b = INFINITY)
    THEN NotAvailable
    ELSE IF a = INFINITY THEN [sign |-> "+", absoluteValue |-> a]
    ELSE IF b = INFINITY THEN [sign |-> "-", absoluteValue |-> b]
    ELSE IF a > b THEN [sign |-> "+", absoluteValue |-> a - b]
    ELSE IF b > a THEN [sign |-> "-", absoluteValue |-> b - a]
    ELSE [sign |-> "", absoluteValue |-> 0]
=============================================================================
