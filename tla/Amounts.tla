------------------------------- MODULE Amounts -------------------------------
(***************************************************************************)
(* Decimal amounts.  Reading and comparing a decimal is exact, dividing    *)
(* and normalizing one keeps Precision significant digits, half to even    *)
(* (the decimal context's 28).  An amount is a number of the smallest      *)
(* units here, so a scale is a power of ten and rounding does not see it.  *)
(***************************************************************************)
EXTENDS Integers

CONSTANTS
  Precision,   \* significant digits that survive an operation
  MaxDigits    \* bound on the digits of an amount

ASSUME AmountsAssumption ==
  /\ Precision \in Nat \ {0}
  /\ MaxDigits \in Nat
  /\ Precision < MaxDigits
  /\ \A e \in 0..MaxDigits : 10 ^ e \in Nat \ {0}   \* no theory of powers in a proof

(* the worth of the last digit that is kept *)
Ulp(amount) ==
  LET fits == {e \in 0..MaxDigits : amount < 10 ^ (Precision + e)}
      least == CHOOSE e \in fits : \A f \in fits : e <= f
  IN  10 ^ least

(* mutant: the digits beyond the precision are cut off *)
Truncated(amount) == Ulp(amount) * (amount \div Ulp(amount))

Rounded(amount) ==
  LET kept == amount \div Ulp(amount)
      twice == 2 * (amount % Ulp(amount))
      up == twice > Ulp(amount) \/ (twice = Ulp(amount) /\ kept % 2 = 1)
  IN  Ulp(amount) * (IF up THEN kept + 1 ELSE kept)
=============================================================================
