-------------------------------- MODULE Wide --------------------------------
(***************************************************************************)
(* round_mul_div_u128 (algebra/wide.rs of via-primitives): a product of    *)
(* two words in two words, half the divisor added, and the long division   *)
(* that brings it back to one word.  A word has 2 * Half bits; the code's  *)
(* Half is 64.                                                             *)
(***************************************************************************)
EXTENDS Integers

CONSTANTS Half   \* a natural number, at least 1

Low == 2 ^ Half          \* LOW_64 + 1

Radix == 2 ^ (2 * Half)   \* 2 ^ 128 in the code

Words == 0..(Radix - 1)

VARIABLES
  pc,                        \* "idle", "divide", "done" or "panic"
  num_abs, scale, divisor,   \* the arguments
  hi, lo,                    \* the dividend
  i,                         \* bits still to be taken
  remainder, quotient

vars == <<pc, num_abs, scale, divisor, hi, lo, i, remainder, quotient>>

\* Mutant: the carry out of the second limb is lost.
WideningMulNoCarry(a, b) ==
  LET p00 == (a % Low) * (b % Low)   p01 == (a % Low) * (b \div Low)
      p10 == (a \div Low) * (b % Low)   p11 == (a \div Low) * (b \div Low)
      mid1 == (p00 \div Low) + (p01 % Low) + (p10 % Low)
      mid2 == (p01 \div Low) + (p10 \div Low) + (p11 % Low)
      w3 == (mid2 \div Low) + (p11 \div Low)
  IN  [lo |-> (p00 % Low) + (mid1 % Low) * Low, hi |-> (mid2 % Low) + w3 * Low]

\* widening_mul_u128: four partial products, their carries limb by limb.
WideningMul(a, b) ==
  LET p00 == (a % Low) * (b % Low)   p01 == (a % Low) * (b \div Low)
      p10 == (a \div Low) * (b % Low)   p11 == (a \div Low) * (b \div Low)
      mid1 == (p00 \div Low) + (p01 % Low) + (p10 % Low)
      mid2 == (mid1 \div Low) + (p01 \div Low) + (p10 \div Low) + (p11 % Low)
      w3 == (mid2 \div Low) + (p11 \div Low)
  IN  [lo |-> (p00 % Low) + (mid1 % Low) * Low, hi |-> (mid2 % Low) + w3 * Low]

\* What the caller passes: the magnitude of a coefficient centred modulo d.
Magnitudes(d) == 0..(d \div 2)

-----------------------------------------------------------------------------
Init ==
  /\ pc = "idle" /\ num_abs = 0 /\ scale = 0 /\ divisor = 1
  /\ hi = 0 /\ lo = 0 /\ i = 0 /\ remainder = 0 /\ quotient = 0

\* round_mul_div_u128(n, k, d), and the head of div_u256_by_u128 with its fast
\* path.
RoundMulDiv(n, k, d) ==
  /\ pc = "idle"
  /\ LET product == WideningMul(n, k)
         sum == product.lo + (d \div 2)
     IN  /\ num_abs' = n /\ scale' = k /\ divisor' = d
         /\ lo' = sum % Radix
         /\ hi' = product.hi + (sum \div Radix)
         /\ CASE hi' = 0 -> pc' = "done" /\ quotient' = lo' \div d
              [] hi' # 0 /\ hi' >= d -> pc' = "panic" /\ quotient' = 0
              [] OTHER -> pc' = "divide" /\ quotient' = 0
  /\ i' = 4 * Half
  /\ remainder' = 0

\* Mutant: the bit shifted out of the remainder is forgotten.
DivideNoOverflowBit ==
  /\ pc = "divide" /\ i > 0
  /\ LET at == i - 1
         bit == IF at >= 2 * Half THEN (hi \div 2 ^ (at - 2 * Half)) % 2 ELSE (lo \div 2 ^ at) % 2
         shifted == (2 * remainder + bit) % Radix
         should_sub == shifted >= divisor
     IN  /\ remainder' = IF should_sub THEN (shifted + Radix - divisor) % Radix ELSE shifted
         /\ quotient' = IF should_sub /\ at < 2 * Half THEN quotient + 2 ^ at ELSE quotient
         /\ i' = at
  /\ UNCHANGED <<pc, num_abs, scale, divisor, hi, lo>>

\* One turn of the long division, for bit i - 1 of the dividend.
Divide ==
  /\ pc = "divide" /\ i > 0
  /\ LET at == i - 1
         bit == IF at >= 2 * Half THEN (hi \div 2 ^ (at - 2 * Half)) % 2 ELSE (lo \div 2 ^ at) % 2
         overflow_bit == (2 * remainder) \div Radix
         shifted == (2 * remainder + bit) % Radix
         should_sub == overflow_bit # 0 \/ shifted >= divisor
     IN  /\ remainder' = IF should_sub THEN (shifted + Radix - divisor) % Radix ELSE shifted
         /\ quotient' = IF should_sub /\ at < 2 * Half THEN quotient + 2 ^ at ELSE quotient
         /\ i' = at
  /\ UNCHANGED <<pc, num_abs, scale, divisor, hi, lo>>

Finish ==
  /\ pc = "divide" /\ i = 0
  /\ pc' = "done"
  /\ UNCHANGED <<num_abs, scale, divisor, hi, lo, i, remainder, quotient>>

Next ==
  \/ \E d \in Words \ {0}, k \in Words : \E n \in Magnitudes(d) : RoundMulDiv(n, k, d)
  \/ Divide \/ Finish

Spec == Init /\ [][Next]_vars

-----------------------------------------------------------------------------
(***************************************************************************)
(* Properties.                                                             *)
(***************************************************************************)

\* At the top of each turn, what was taken of the dividend is the quotient so
\* far times the divisor and a remainder below it, although the shifted
\* remainder overflows its word on the way ("the invariant remainder <
\* divisor holds at the top of each iteration").
DivisionExact ==
  pc = "divide" =>
    /\ remainder < divisor
    /\ (hi * Radix + lo) \div 2 ^ i = (quotient \div 2 ^ i) * divisor + remainder
    /\ quotient % 2 ^ i = 0

\* The division loses no bit, a centred coefficient never makes its quotient
\* overflow its word, whatever the scale ("num_abs <= divisor / 2 ... is the
\* real sufficient condition"), and the result is the scaled coefficient
\* rounded half up.
RoundedExactly ==
  /\ DivisionExact
  /\ pc # "panic" /\ quotient \in Words
  /\ pc = "done" => quotient = (num_abs * scale + (divisor \div 2)) \div divisor

=============================================================================
