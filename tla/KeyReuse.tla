------------------------------ MODULE KeyReuse ------------------------------
(***************************************************************************)
(* Keys that change their modulus before they are used (mod_switch_rgsw in *)
(* gates/convert.rs, mod_switch_rlev in conversion/repack.rs): a bit       *)
(* encrypted under the gadget of Q1 is rescaled to Q2 sample by sample,    *)
(* and the gates of the server's last stages apply it there with the       *)
(* gadget of Q2 (answer.rs, steps 5 and 6).  Nothing multiplies the        *)
(* samples by the new gadget: that they hold it is a matter of rounding.   *)
(* The gate's result goes the way of Response.                             *)
(***************************************************************************)
EXTENDS Response

CONSTANTS
  Q1,         \* the modulus the bit is encrypted at
  GBase,      \* gadget_base_2
  L,          \* its depth
  PowerOfG,   \* PowerOfG[i] is GBase^i
  KeyMasks,   \* masks of the samples, [1..2 -> [0..(L - 1) -> polynomial]]
  KeyErrors,  \* their centred errors, shaped alike
  KeyErrMax   \* the largest coefficient of an error

AtQ1 == INSTANCE Ring WITH P <- Q1

Halves == 1..2

ASSUME KeyReuseAssumption ==
  /\ Q1 \in Nat /\ Q2 <= Q1
  /\ GBase \in Nat /\ GBase >= 2 /\ L \in Nat \ {0}
  /\ PowerOfG \in [0..L -> Nat \ {0}] /\ PowerOfG[0] = 1
  /\ \A i \in 0..(L - 1) : PowerOfG[i + 1] = GBase * PowerOfG[i]
  /\ KeyErrMax \in Nat
  /\ KeyMasks \subseteq [Halves -> [0..(L - 1) -> AtQ1!Poly(N1)]]
  /\ KeyErrors \subseteq [Halves -> [0..(L - 1) -> [0..(N1 - 1) -> (-KeyErrMax)..KeyErrMax]]]

VARIABLES
  bit,       \* the bit
  rgsw,      \* its encryption at Q1: the halves of -S * bit and of bit
  switched,  \* the same at Q2
  inputs     \* the ciphertexts of the gate: ct0 and ct1

keyVars == <<bit, rgsw, switched, inputs>>

\* The definitions of Gadget for modulus q and the coefficient c of an input.
OneCoefficient(q, c) == INSTANCE Gadget WITH
  Q <- q, Base <- <<GBase, GBase>>, Depth <- <<L, L>>, Power <- <<PowerOfG, PowerOfG>>,
  Keys <- {}, Messages <- {}, Cts <- {}, ErrMax <- KeyErrMax, Errors <- {},
  op <- "reconstruct", s <- 0, msg <- 0, ct <- [mask |-> c, body |-> 0], errs <- <<>>,
  pc <- "scale", part <- 1, level <- 0, val <- 0, acc <- 0, sum <- 0

\* gadget_vector_values at q.
GadgetEntry(q, i) == OneCoefficient(q, 0)!G(1, i)

\* gadget_decompose_into at Q2: digit k of coefficient c, most significant first.
DigitOf(c, k) ==
  LET rest[i \in 0..(L - 1)] ==
        IF i = 0 THEN OneCoefficient(Q2, c)!Scaled(1)
        ELSE (rest[i - 1] - OneCoefficient(Q2, c)!BalancedDigit(1, rest[i - 1])) \div GBase
  IN  OneCoefficient(Q2, c)!BalancedDigit(1, rest[L - 1 - k])

\* What half h of an RGSW sample of the bit encrypts.
HalfMessage(h) ==
  IF h = 2 THEN [x \in 0..(N1 - 1) |-> IF x = 0 THEN bit ELSE 0]
  ELSE [x \in 0..(N1 - 1) |-> -(bit * s1[x])]

\* Add up a function of 0 .. L - 1 into polynomials at Q2.
SumLevels(F) ==
  LET sum[k \in 0..L] == IF k = 0 THEN AtQ2!Zero(N1) ELSE AtQ2!Add(sum[k - 1], F[k - 1])
  IN  sum[L]

\* RLevCiphertext::gadget_product.
GadgetProduct(samples, f) ==
  LET digits == [k \in 0..(L - 1) |-> [x \in DOMAIN f |-> DigitOf(f[x], k) % Q2]]
  IN  Ct(SumLevels([k \in 0..(L - 1) |-> AtQ2!Mul(digits[k], samples[k].mask, N1)]),
         SumLevels([k \in 0..(L - 1) |-> AtQ2!Mul(digits[k], samples[k].body, N1)]))

AddCt(a, b) == Ct(AtQ2!Add(a.mask, b.mask), AtQ2!Add(a.body, b.body))

SubCt(a, b) == Ct(AtQ2!Sub(a.mask, b.mask), AtQ2!Sub(a.body, b.body))

\* RGSWCiphertext::external_product.
ExternalProduct(key, ct0) ==
  AddCt(GadgetProduct(key[1], ct0.mask), GadgetProduct(key[2], ct0.body))

\* cmux
CMux(key, ct0, ct1) == AddCt(ct0, ExternalProduct(key, SubCt(ct1, ct0)))

PhaseQ2(c) == AtQ2!Sub(c.body, AtQ2!Mul(c.mask, Lift(s1, Q2), N1))

-----------------------------------------------------------------------------
NoKey == [h \in Halves |-> <<>>]

KeyInit ==
  /\ Init
  /\ bit = 0 /\ rgsw = NoKey /\ switched = NoKey /\ inputs = <<>>

\* What query_decomp leaves of a bit: a sample of RLev(-S * bit) or RLev(bit)
\* per level, the errors standing for the noise of the conversions.
EncryptBit ==
  /\ pc = "encrypt"
  /\ \E b \in 0..1, masks \in KeyMasks, errors \in KeyErrors :
       /\ bit' = b
       /\ rgsw' = [h \in Halves |-> [i \in 0..(L - 1) |->
            LET a == masks[h][i]
                m == IF h = 2 THEN [x \in 0..(N1 - 1) |-> IF x = 0 THEN b ELSE 0]
                     ELSE AtQ1!Neg(AtQ1!Scale(b, Lift(s1, Q1)))
            IN  Ct(a, AtQ1!Add(AtQ1!Add(AtQ1!Mul(a, Lift(s1, Q1), N1), Lift(errors[h][i], Q1)),
                               AtQ1!Scale(GadgetEntry(Q1, i), m)))]]
  /\ pc' = "switch_key"
  /\ UNCHANGED <<s1, s2, message, noise, fresh, ct, acc, j, switchNoise, answer, recovered,
                 switched, inputs>>

\* Mutant: the quotients are rounded down.
ModSwitchRgswDown ==
  /\ pc = "switch_key"
  /\ switched' = [h \in Halves |-> [i \in 0..(L - 1) |->
       Ct(RescaleFloor(rgsw[h][i].mask, Q1, Q2), RescaleFloor(rgsw[h][i].body, Q1, Q2))]]
  /\ pc' = "gate"
  /\ UNCHANGED <<s1, s2, message, noise, fresh, ct, acc, j, switchNoise, answer, recovered,
                 bit, rgsw, inputs>>

\* mod_switch_rgsw: mod_switch_sym on every sample of both halves.
ModSwitchRgsw ==
  /\ pc = "switch_key"
  /\ switched' = [h \in Halves |-> [i \in 0..(L - 1) |->
       Ct(Rescale(rgsw[h][i].mask, Q1, Q2), Rescale(rgsw[h][i].body, Q1, Q2))]]
  /\ pc' = "gate"
  /\ UNCHANGED <<s1, s2, message, noise, fresh, ct, acc, j, switchNoise, answer, recovered,
                 bit, rgsw, inputs>>

EncryptAt(m, a, e) ==
  Ct(a, AtQ2!Add(AtQ2!Add(AtQ2!Mul(a, Lift(s1, Q2), N1), Lift(e, Q2)), Encode(m, Q2)))

\* The gate's result; its noise is what it decrypts to beyond the plaintext.
Select(ct0, ct1, m) ==
  /\ inputs' = <<ct0, ct1>>
  /\ fresh' = CMux(switched, ct0, ct1)
  /\ message' = m
  /\ noise' = [x \in 0..(N1 - 1) |->
                Centered((PhaseQ2(fresh')[x] + Q2 - Encode(m, Q2)[x]) % Q2, Q2)]
  /\ pc' = "rescale"
  /\ UNCHANGED <<s1, s2, ct, acc, j, switchNoise, answer, recovered, bit, rgsw, switched>>

\* A gate of cmux_tree, on two encrypted columns.
CMuxGate ==
  /\ pc = "gate"
  /\ \E m0, m1 \in Messages, a0, a1 \in MasksN1, e \in Errors :
       /\ a0 # a1
       /\ Select(EncryptAt(m0, a0, e), EncryptAt(m1, a1, e), IF bit = 1 THEN m1 ELSE m0)

\* A gate of crot: ct1 is ct0 rotated by one slot.
CRotGate ==
  /\ pc = "gate"
  /\ \E m \in Messages, a \in MasksN1, e \in Errors :
       LET ct0 == EncryptAt(m, a, e)
           Rotated(f) == AtQ2!Neg(AtQ2!MulXPow(f, N1, N1 - 1))
       IN  Select(ct0, Ct(Rotated(ct0.mask), Rotated(ct0.body)),
                  IF bit = 1 THEN AtPT!Neg(AtPT!MulXPow(m, N1, N1 - 1)) ELSE m)

KeyNext == EncryptBit \/ ModSwitchRgsw \/ CMuxGate \/ CRotGate \/ (Next /\ UNCHANGED keyVars)

KeySpec == KeyInit /\ [][KeyNext]_<<vars, keyVars>>

-----------------------------------------------------------------------------
\* Twice Q1 times what a coefficient of a switched sample may be off the
\* gadget of Q2: its error scaled, half a unit for the body and for each unit
\* of S1, and half a unit for the rounding of either gadget.
SampleSlack(h) ==
  (2 * Q2 * KeyErrMax) + (Q1 * (1 + Norm1(s1))) + (NormMax(HalfMessage(h)) * (Q1 + Q2))

\* What a gate may add to a coefficient, in the same unit: a digit times that
\* for every coefficient and level, and the rest of the decomposition.
GateSlack(h) ==
  (N1 * L * (GBase \div 2) * SampleSlack(h))
    + (2 * Q1 * Norm1(HalfMessage(h)) * OneCoefficient(Q2, 0)!Delta(1))

(***************************************************************************)
(* A sample switched from Q1 to Q2 encrypts, at Q2, the message times the  *)
(* gadget entry of Q2 at its level, up to the roundings of the switch and  *)
(* of both gadgets; and a gate that applies the switched bit yields the    *)
(* input the bit selects, up to what these leave (convert.rs,              *)
(* mod_switch_rgsw; answer.rs, steps 5 and 6).                             *)
(***************************************************************************)
SwitchedKeySelects ==
  /\ pc = "gate" =>
       \A h \in Halves, i \in 0..(L - 1), x \in 0..(N1 - 1) :
         LET ideal == GadgetEntry(Q2, i) * HalfMessage(h)[x]
         IN  2 * Q1 * Abs(Centered((PhaseQ2(switched[h][i])[x] - ideal) % Q2, Q2)) <= SampleSlack(h)
  /\ (pc = "rescale" /\ inputs # <<>>) =>
       \A x \in 0..(N1 - 1) :
         LET ideal == PhaseQ2(inputs[bit + 1])[x]
         IN  2 * Q1 * Abs(Centered((PhaseQ2(fresh)[x] - ideal) % Q2, Q2)) <= GateSlack(1) + GateSlack(2)
=============================================================================
