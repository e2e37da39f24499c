---------------------------- MODULE GadgetScale -----------------------------
(***************************************************************************)
(* The scaling step of a gadget decomposition on a coefficient held as two *)
(* residues (gadget_scale_into in encryption/gadget.rs of via-primitives): *)
(* Rns reconstructs and centres the coefficient, Wide multiplies its       *)
(* magnitude by B^L and divides by Q, and the sign is put back.  Wide is   *)
(* also called on its own, with divisors Q does not reach.                 *)
(***************************************************************************)
EXTENDS Rns

CONSTANTS
  Half,       \* half the bits of a word, 64 in the code
  Scales,     \* powers B^L tried
  Divisors    \* divisors of the calls of Wide on its own

ASSUME GadgetScaleAssumption ==
  /\ Half \in Nat \ {0} /\ Word = 2 ^ (2 * Half)
  /\ Scales \subseteq 0..(Word - 1)
  /\ Divisors \subseteq 1..(Word - 1)

\* The exponents of the long division, for the proofs.
ASSUME PowerAssumption ==
  \A n \in 0..(4 * Half) : 2 ^ n > 0 /\ 2 ^ (n + 1) = 2 * 2 ^ n

VARIABLES wpc, num_abs, scale, divisor, hi, lo, i, remainder, quotient   \* of Wide

wideVars == <<wpc, num_abs, scale, divisor, hi, lo, i, remainder, quotient>>

W == INSTANCE Wide WITH pc <- wpc

Abs(a) == IF a < 0 THEN -a ELSE a

\* Mutant: the coefficient is reconstructed but not centred.
CoefficientUncentered == Reconstruct(pair)

\* What to_centered_i128_coeffs puts at the coefficient's place.
Coefficient == Centered(pair)

ScaleInit == Init /\ W!Init

\* A step of the residue arithmetic.
Residues == Next /\ UNCHANGED wideVars

\* The coefficient's turn in gadget_scale_into.
ScaleCoefficient ==
  /\ pc = "result"
  /\ \E k \in Scales : W!RoundMulDiv(Abs(Coefficient), k, BigQ)
  /\ UNCHANGED vars

\* A call with other divisors.
Bare ==
  /\ pc = "idle"
  /\ \E d \in Divisors, k \in Scales :
       \E n \in W!Magnitudes(d) : W!RoundMulDiv(n, k, d)
  /\ UNCHANGED vars

Divide == (W!Divide \/ W!Finish) /\ UNCHANGED vars

\* What gadget_scale_into stores.
Scaled == IF Coefficient >= 0 THEN quotient ELSE -quotient

ScaleNext == (wpc = "idle" /\ Residues) \/ ScaleCoefficient \/ Bare \/ Divide

\* Each call runs to its end on the thread that makes it.
ScaleSpec ==
  /\ ScaleInit /\ [][ScaleNext]_<<vars, wideVars>>
  /\ WF_vars(GcdStep \/ Coprime \/ EuclidStep \/ EuclidEnd)
  /\ WF_wideVars(W!Divide \/ W!Finish)

-----------------------------------------------------------------------------
(***************************************************************************)
(* Properties, those of Rns apart.                                         *)
(***************************************************************************)

\* The division loses no bit; every call returns, rounded half up, and none
\* overflows (Wide).
RoundedExactly == W!RoundedExactly

Product == call.a * (IF call.op = "mul" THEN call.b ELSE 1)
           + (CASE call.op = "add" -> call.b [] call.op = "sub" -> -call.b [] OTHER -> 0)

\* From the operands to the scaled coefficient: it is B^L / Q times the
\* representative of the result nearest to zero, rounded to the nearest
\* integer and away from zero on a tie ("round-half-away-from-zero, distinct
\* from Rust's truncating /"), whichever residues stood for it on the way.
ScaledNearest ==
  pc = "result" /\ wpc = "done" =>
    \E c \in -BigQ..BigQ :
      /\ -BigQ < 2 * c /\ 2 * c <= BigQ /\ (c - Product) % BigQ = 0
      /\ LET error == Abs(BigQ * Scaled) - Abs(c * scale)
         IN  -BigQ < 2 * error /\ 2 * error <= BigQ
      /\ Scaled * c >= 0

\* gcd, mod_inverse_u64 and the division end.
CallsReturn ==
  /\ pc \in {"gcd", "euclid"} ~> pc \in {"returned", "ready", "panic"}
  /\ wpc = "divide" ~> wpc = "done"
=============================================================================
