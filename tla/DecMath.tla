------------------------------ MODULE DecMath ------------------------------
(***************************************************************************)
(* The fixed-point decimals (sdk.Dec) that the module computes prices,     *)
(* weights and rates with.  sdk.Dec is a library type: it is modelled here *)
(* from the calls the keeper makes.  A decimal d is represented by the     *)
(* integer d * ONE; in the code ONE is 10^18, in a model it is small.  A   *)
(* token amount (sdk.Int) is a plain natural number.                       *)
(***************************************************************************)
EXTENDS Integers

CONSTANT ONE       \* the representation of the decimal 1

ASSUME OneAssumption == ONE \in Nat \ {0}

Decimals == Nat    \* the module only ever handles non-negative decimals...
PosDecimals == Nat \ {0}    \* ...and divides by positive ones only

\* sdk.NewDecFromInt(amt).QuoTruncate(price).TruncateInt(): truncating twice is
\* truncating once.
QuoTruncateInt(amt, price) == (amt * ONE) \div price

\* sdk.NewDecFromInt(amt).Mul(price).Ceil().TruncateInt() and
\* price.MulInt(amt).Ceil().TruncateInt(): the product has no more than 18
\* decimals, so that only Ceil rounds.
MulCeilInt(amt, price) == (amt * price + ONE - 1) \div ONE

\* sdk.NewDecFromInt(amt).MulTruncate(weight).TruncateInt().
MulTruncateInt(amt, weight) == (amt * weight) \div ONE

\* chopPrecisionAndRound: divide by ONE, rounding half to even.
ChopAndRound(x) ==
  LET q == x \div ONE
      r == x % ONE
  IN  IF 2 * r < ONE \/ (2 * r = ONE /\ q % 2 = 0) THEN q ELSE q + 1

\* sdk.NewDec(a).Quo(sdk.NewDec(b)): the quotient is first truncated at twice
\* the precision, then rounded to the precision.
QuoInts(a, b) == ChopAndRound((a * ONE * ONE) \div b)
=============================================================================
