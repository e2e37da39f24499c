------------------------------- MODULE Gadget -------------------------------
(***************************************************************************)
(* Gadget products (encryption/gadget.rs, rlev.rs) and the two operations  *)
(* built from them: key switching (keyswitch.rs) and the external product  *)
(* of an RGSW with an RLWE ciphertext (rgsw.rs), on one coefficient.       *)
(*                                                                         *)
(* Decryption is linear in a ciphertext, so a sample of an RLev is known   *)
(* by its phase, what decrypt_raw returns for it: a gadget entry times the *)
(* message plus the error drawn when it was encrypted.  The operations run *)
(* as the code does: scale the input, then peel off its base-B digits      *)
(* least significant first, each multiplied into the accumulator.          *)
(***************************************************************************)
EXTENDS Integers

CONSTANTS
  Q,        \* the ciphertext modulus
  Base,     \* <<B, B>>: the gadget bases of the one or two products
  Depth,    \* their depths L
  Power,    \* Power[part][i] is Base[part]^i
  Keys,     \* secret coefficients, centred
  Messages, \* RGSW messages, centred
  Cts,      \* input ciphertexts, [mask, body]
  ErrMax,   \* bound of an encryption error
  Errors    \* the errors drawn

ASSUME GadgetAssumption ==
  /\ Q \in Nat /\ Q >= 2
  /\ Base \in [1..2 -> Nat] /\ Depth \in [1..2 -> Nat]
  /\ \A part \in 1..2 :
       /\ Base[part] >= 2 /\ Depth[part] >= 1
       /\ \A i \in 0..Depth[part] : Power[part][i] \in Nat \ {0}
       /\ Power[part][0] = 1
       /\ \A i \in 0..(Depth[part] - 1) : Power[part][i + 1] = Base[part] * Power[part][i]
  /\ Keys \subseteq Int /\ Messages \subseteq Int
  /\ Cts \subseteq [mask : 0..(Q - 1), body : 0..(Q - 1)]
  /\ ErrMax \in Nat /\ Errors \subseteq (-ErrMax)..ErrMax

VARIABLES
  op,      \* the operation
  s, msg,  \* the secret key, the RGSW message
  ct,      \* its input
  errs,    \* the errors in the samples of its key material
  pc,      \* "scale", "extract" or "done"
  part,    \* the gadget product being computed
  level,   \* digits extracted so far
  val,     \* scratch: what is left to decompose
  acc,     \* phase of the accumulated product
  sum      \* phase of the finished products

inputs == <<op, s, msg, ct, errs>>
vars == <<op, s, msg, ct, errs, pc, part, level, val, acc, sum>>

Parts == IF op = "external_product" THEN 2 ELSE 1

Centered(a) == IF a <= Q \div 2 THEN a ELSE -(Q - a)

-----------------------------------------------------------------------------
\* The scale B^L of a decomposition.
Scale(p) == Power[p][Depth[p]]

\* gadget_vector_values: round(q / B^(i + 1)), largest first.
G(p, i) == (Q + (Power[p][i + 1] \div 2)) \div Power[p][i + 1]

\* What each product decomposes and what its RLev encrypts.
Input(p) == IF op = "external_product" /\ p = 2 THEN ct.body ELSE ct.mask

Message(p) ==
  CASE op = "reconstruct" -> 1
    [] op = "key_switch" -> s
    [] op = "external_product" -> IF p = 1 THEN -(s * msg) ELSE msg

\* encrypt_rlev: sample i holds g_i * message and its error.
Sample(p, i) == ((G(p, i) * Message(p)) + errs[p][i]) % Q

\* round_mul_div_u128, ties away from zero.
RoundMulDiv(a, scale) == ((a * scale) + (Q \div 2)) \div Q

\* gadget_scale_into
Scaled(p) ==
  LET c == Centered(Input(p))
      magnitude == RoundMulDiv(IF c < 0 THEN -c ELSE c, Scale(p))
  IN  IF c < 0 THEN -magnitude ELSE magnitude

\* gadget_extract_lsb_into: the balanced digit, in (-B/2, B/2].
BalancedDigit(p, x) ==
  LET r == x % Base[p]
  IN  IF r > Base[p] \div 2 THEN r - Base[p] ELSE r

-----------------------------------------------------------------------------
\* reconstruct uses the gadget vector itself.
Drawn(p) == IF op = "reconstruct" \/ p > Parts THEN {0} ELSE Errors

Init ==
  /\ op \in {"reconstruct", "key_switch", "external_product"}
  /\ s \in Keys /\ msg \in Messages /\ ct \in Cts
  /\ \E e1 \in [0..(Depth[1] - 1) -> Drawn(1)], e2 \in [0..(Depth[2] - 1) -> Drawn(2)] :
       errs = <<e1, e2>>
  /\ pc = "scale" /\ part = 1 /\ level = 0
  /\ val = 0 /\ acc = 0 /\ sum = 0

ScaleInput ==
  /\ pc = "scale"
  /\ val' = Scaled(part)
  /\ level' = 0
  /\ pc' = "extract"
  /\ UNCHANGED <<inputs, part, acc, sum>>

\* Mutant: the digit is paired with the sample of its own level.
LsbFirstTerm == BalancedDigit(part, val) * Sample(part, level)

\* The digit of level k multiplies sample L - 1 - k.
Term == BalancedDigit(part, val) * Sample(part, Depth[part] - 1 - level)

\* Mutant: the seeding product does not advance the scratch.
ExtractSeedKeepsScratch ==
  /\ pc = "extract" /\ level < Depth[part]
  /\ val' = IF level = 0 THEN val ELSE (val - BalancedDigit(part, val)) \div Base[part]
  /\ acc' = (IF level = 0 THEN Term ELSE acc + Term) % Q
  /\ level' = level + 1
  /\ UNCHANGED <<inputs, pc, part, sum>>

\* One level; the first product seeds the accumulator.
Extract ==
  /\ pc = "extract" /\ level < Depth[part]
  /\ val' = (val - BalancedDigit(part, val)) \div Base[part]
  /\ acc' = (IF level = 0 THEN Term ELSE acc + Term) % Q
  /\ level' = level + 1
  /\ UNCHANGED <<inputs, pc, part, sum>>

\* The next product of an external product, or the result.
FinishProduct ==
  /\ pc = "extract" /\ level = Depth[part]
  /\ sum' = (sum + acc) % Q
  /\ IF part < Parts THEN pc' = "scale" /\ part' = part + 1
                     ELSE pc' = "done" /\ part' = part
  /\ UNCHANGED <<inputs, level, val, acc>>

Next == ScaleInput \/ Extract \/ FinishProduct

Spec == Init /\ [][Next]_vars

\* The phase of the result: key_switch returns (-A', B - B').
Phase == IF op = "key_switch" THEN (ct.body - sum) % Q ELSE sum

-----------------------------------------------------------------------------
(***************************************************************************)
(* Properties.                                                             *)
(***************************************************************************)

TypeOK ==
  /\ pc \in {"scale", "extract", "done"}
  /\ part \in 1..Parts
  /\ level \in Nat /\ (pc = "extract" => level <= Depth[part])
  /\ val \in Int
  /\ acc \in 0..(Q - 1) /\ sum \in 0..(Q - 1)

\* After the last level the scratch holds a carry of at most one: what the
\* code drops is a multiple of q (gadget.rs, gadget_decompose_into).
CarryAtMostOne == (pc = "extract" /\ level = Depth[part]) => val \in -1..1

Abs(x) == IF x < 0 THEN -x ELSE x

\* Largest reconstruction error of a decomposition: half a unit of the scale
\* step, and half a unit of each gadget entry times a digit of B/2.
Delta(p) == (Q + (Scale(p) * Depth[p] * (Base[p] \div 2))) \div (2 * Scale(p))

NoiseBound(p) ==
  (Abs(Message(p)) * Delta(p))
    + (IF op = "reconstruct" THEN 0 ELSE Depth[p] * (Base[p] \div 2) * ErrMax)

TotalNoise == NoiseBound(1) + (IF Parts = 2 THEN NoiseBound(2) ELSE 0)

\* The phase a noiseless operation would have: the input itself, the phase of
\* the ciphertext under the source key, that phase times the message.
Ideal ==
  CASE op = "reconstruct" -> ct.mask
    [] op = "key_switch" -> ct.body - (ct.mask * s)
    [] op = "external_product" -> msg * (ct.body - (ct.mask * s))

\* Key switching and external products multiply, switch and reconstruct to
\* within the noise their documentation gives (keyswitch.rs "Noise growth"),
\* for every input, key, message and draw of the errors.
Accurate ==
  pc = "done" => \E e \in (-TotalNoise)..TotalNoise : Phase = (Ideal + e) % Q

\* What gadget.rs documents of reconstruct: "bounded by round(q / B^L) / 2 --
\* the smallest gadget entry, halved".
ReconstructionWithinHalfSmallestEntry ==
  (pc = "done" /\ op = "reconstruct") =>
     LET bound == G(1, Depth[1] - 1) \div 2
     IN  \E e \in (-bound)..bound : Phase = (Ideal + e) % Q
=============================================================================
