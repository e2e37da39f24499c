------------------------------ MODULE Response ------------------------------
(***************************************************************************)
(* The way of a response from the server's last rotation to the client's   *)
(* plaintext: an RLWE ciphertext of degree N1 modulo Q2 is rescaled to Q3, *)
(* ring-switched to degree N2 mask by mask, its body rescaled to Q4        *)
(* (resp_comp.rs over switching/mod_switch.rs and ring_switch.rs), and     *)
(* decrypted at the two moduli (encryption/rlwe.rs).  Each step adds noise *)
(* or rounds; the question is how much noise the plaintext survives.       *)
(*                                                                         *)
(* A gadget product yields any mask, and an error of at most what Gadget   *)
(* bounds: both are drawn from small sets.                                 *)
(***************************************************************************)
EXTENDS Integers, Sequences, FiniteSetsExt

CONSTANTS
  Q2, Q3, Q4,      \* moduli of the input, of the answer's mask, of its body
  PT,              \* the plaintext modulus
  N1, N2,          \* degrees of the input and of the answer
  SecretsN1, SecretsN2,  \* centred secret keys tried
  Messages,        \* plaintexts tried
  MasksN1,         \* masks of fresh ciphertexts
  Errors,          \* centred errors of fresh ciphertexts
  MasksN2,         \* masks of gadget products
  SwitchErrors     \* centred errors of gadget products

AtQ2 == INSTANCE Ring WITH P <- Q2
AtQ3 == INSTANCE Ring WITH P <- Q3
AtQ4 == INSTANCE Ring WITH P <- Q4
AtPT == INSTANCE Ring WITH P <- PT

CenteredPoly(n) == [0..(n - 1) -> Int]

ASSUME ResponseAssumption ==
  /\ {Q2, Q3, Q4, PT, N1, N2} \subseteq Nat \ {0}
  /\ 2 <= PT /\ PT <= Q4 /\ Q4 <= Q3 /\ Q3 <= Q2
  /\ N1 % N2 = 0 /\ N2 >= 2
  /\ SecretsN1 \subseteq CenteredPoly(N1) /\ SecretsN2 \subseteq CenteredPoly(N2)
  /\ Errors \subseteq CenteredPoly(N1) /\ SwitchErrors \subseteq CenteredPoly(N2)
  /\ Messages \subseteq AtPT!Poly(N1)
  /\ MasksN1 \subseteq AtQ2!Poly(N1) /\ MasksN2 \subseteq AtQ3!Poly(N2)

VARIABLES
  s1, s2,      \* the secrets, centred
  pc,          \* "encrypt", "rescale", "enter", "switch", "recover" or "done"
  message,     \* the plaintext of the response
  noise,       \* its encryption error
  fresh,       \* the ciphertext at Q2
  ct,          \* the ciphertext at Q3, degree N1
  acc,         \* acc_mask and acc_body of the ring switch
  j,           \* its next key sample
  switchNoise, \* the errors of its gadget products, one per sample
  answer,      \* mask at Q3, body at Q4
  recovered    \* what the client decrypts

vars == <<s1, s2, pc, message, noise, fresh, ct, acc, j, switchNoise, answer, recovered>>

Ct(mask, body) == [mask |-> mask, body |-> body]

D == N1 \div N2

\* from_centered_i64s, and rekey_secret_key on a small secret.
Lift(f, q) == [x \in DOMAIN f |-> f[x] % q]

\* to_centered_i128: the representative in (-q/2, q/2].
Centered(c, q) == IF c <= q \div 2 THEN c ELSE c - q

\* encode: scaled by Delta = ceil(q / p).
Delta(q) == (q + PT - 1) \div PT

Encode(m, q) == [x \in DOMAIN m |-> (m[x] * Delta(q)) % q]

\* Mutant: the quotient is truncated toward zero.
DecodeTruncates(f, q) ==
  LET Truncated(a) == IF a >= 0 THEN a \div q ELSE -((-a) \div q)
  IN  [x \in DOMAIN f |-> Truncated(PT * Centered(f[x], q) + (q \div 2)) % PT]

\* decode: rounded to the nearest multiple of q / p.
Decode(f, q) == [x \in DOMAIN f |-> ((PT * Centered(f[x], q) + (q \div 2)) \div q) % PT]

\* No rounding bias, for mutants.
RescaleFloor(f, src, dst) == [x \in DOMAIN f |-> ((f[x] * dst) \div src) % dst]

\* RescaleConsts::scale, then from_u128_coeffs.
Rescale(f, src, dst) == [x \in DOMAIN f |-> ((f[x] * dst + (src \div 2)) \div src) % dst]

\* Mutant: the rotated key is not negated.
KeyHalfUnsigned(k) ==
  AtQ3!ProjectAt(AtQ3!MulXPow(Lift(s1, Q3), N1, (N1 - k) % N1), N1, N2, 0)

\* gen_rsk: what sample k encrypts, slot 0 of S1 / X^k.
KeyHalf(k) ==
  IF k = 0 THEN AtQ3!ProjectAt(Lift(s1, Q3), N1, N2, 0)
  ELSE AtQ3!ProjectAt(AtQ3!Neg(AtQ3!MulXPow(Lift(s1, Q3), N1, N1 - k)), N1, N2, 0)

\* ring_switch: slot 0 of A * X^k.
MaskHalf(k) == AtQ3!ProjectAt(AtQ3!MulXPow(ct.mask, N1, k), N1, N2, 0)

-----------------------------------------------------------------------------
NoCt == Ct(<<>>, <<>>)

Init ==
  /\ s1 \in SecretsN1 /\ s2 \in SecretsN2
  /\ pc = "encrypt"
  /\ message = <<>> /\ noise = <<>> /\ fresh = NoCt
  /\ ct = NoCt /\ acc = NoCt /\ j = 0 /\ switchNoise = <<>>
  /\ answer = NoCt /\ recovered = <<>>

\* The ciphertext the server's pipeline ends with: SecretKey::encrypt, its
\* error standing for the noise of the stages before.
Encrypt ==
  /\ pc = "encrypt"
  /\ \E m \in Messages, a \in MasksN1, e \in Errors :
       /\ message' = m /\ noise' = e
       /\ fresh' = Ct(a, AtQ2!Add(AtQ2!Add(AtQ2!Mul(a, Lift(s1, Q2), N1), Lift(e, Q2)), Encode(m, Q2)))
  /\ pc' = "rescale"
  /\ UNCHANGED <<s1, s2, ct, acc, j, switchNoise, answer, recovered>>

\* Step 1, mod_switch_sym.
ModSwitchSym ==
  /\ pc = "rescale"
  /\ ct' = Ct(Rescale(fresh.mask, Q2, Q3), Rescale(fresh.body, Q2, Q3))
  /\ pc' = "enter"
  /\ UNCHANGED <<s1, s2, message, noise, fresh, acc, j, switchNoise, answer, recovered>>

\* Step 2, ring_switch up to its loop.
EnterRingSwitch ==
  /\ pc = "enter"
  /\ acc' = Ct(AtQ3!Zero(N2), AtQ3!ProjectAt(ct.body, N1, N2, 0))
  /\ j' = 0
  /\ pc' = "switch"
  /\ UNCHANGED <<s1, s2, message, noise, fresh, ct, switchNoise, answer, recovered>>

\* One turn of its loop: a gadget product with sample j.
SwitchMask ==
  /\ pc = "switch" /\ j < D
  /\ \E a \in MasksN2, e \in SwitchErrors :
       LET product == AtQ3!Mul(MaskHalf(j), KeyHalf(j), N2)
           gp == Ct(a, AtQ3!Add(AtQ3!Add(AtQ3!Mul(a, Lift(s2, Q3), N2), Lift(e, Q3)), product))
       IN  /\ acc' = Ct(AtQ3!Sub(acc.mask, gp.mask), AtQ3!Sub(acc.body, gp.body))
           /\ switchNoise' = Append(switchNoise, e)
  /\ j' = j + 1
  /\ UNCHANGED <<s1, s2, pc, message, noise, fresh, ct, answer, recovered>>

\* Mutant: the body's quotient is rounded down.
ModSwitchAsymDown ==
  /\ pc = "switch" /\ j = D
  /\ answer' = Ct(Rescale(acc.mask, Q3, Q3), RescaleFloor(acc.body, Q3, Q4))
  /\ pc' = "recover"
  /\ UNCHANGED <<s1, s2, message, noise, fresh, ct, acc, j, switchNoise, recovered>>

\* Step 3, mod_switch_asym: the mask stays at Q3.
ModSwitchAsym ==
  /\ pc = "switch" /\ j = D
  /\ answer' = Ct(Rescale(acc.mask, Q3, Q3), Rescale(acc.body, Q3, Q4))
  /\ pc' = "recover"
  /\ UNCHANGED <<s1, s2, message, noise, fresh, ct, acc, j, switchNoise, recovered>>

\* decrypt_asymmetric up to decode.
Noisy == AtQ4!Sub(answer.body, Rescale(AtQ3!Mul(answer.mask, Lift(s2, Q3), N2), Q3, Q4))

DecryptAsymmetric ==
  /\ pc = "recover"
  /\ recovered' = Decode(Noisy, Q4)
  /\ pc' = "done"
  /\ UNCHANGED <<s1, s2, message, noise, fresh, ct, acc, j, switchNoise, answer>>

Next ==
  \/ Encrypt \/ ModSwitchSym \/ EnterRingSwitch \/ SwitchMask \/ ModSwitchAsym
  \/ DecryptAsymmetric

Spec == Init /\ [][Next]_vars

-----------------------------------------------------------------------------
(***************************************************************************)
(* Properties.                                                             *)
(***************************************************************************)

\* Throughout the ring switch, the accumulator under S2 less the terms still
\* to come, with the errors so far given back, is slot 0 of the ciphertext
\* under S1 (ring_switch.rs, "Algebraic identity").
SwitchCarries ==
  pc = "switch" =>
    LET pending[k \in 0..D] ==
          IF k = D THEN AtQ3!Zero(N2)
          ELSE AtQ3!Add(AtQ3!Mul(MaskHalf(k), KeyHalf(k), N2), pending[k + 1])
        errors[k \in 0..j] ==
          IF k = 0 THEN AtQ3!Zero(N2) ELSE AtQ3!Add(errors[k - 1], Lift(switchNoise[k], Q3))
        phase == AtQ3!Sub(acc.body, AtQ3!Mul(acc.mask, Lift(s2, Q3), N2))
    IN  AtQ3!Add(AtQ3!Sub(phase, pending[j]), errors[j])
          = AtQ3!ProjectAt(AtQ3!Sub(ct.body, AtQ3!Mul(ct.mask, Lift(s1, Q3), N1)), N1, N2, 0)

Abs(a) == IF a >= 0 THEN a ELSE -a

Norm1(f) == MapThenSumSet(LAMBDA x : Abs(f[x]), DOMAIN f)

NormMax(f) == Max({Abs(f[x]) : x \in DOMAIN f})

\* What the compression may add to a coefficient, in units of 1 / (2 Q2 Q3) of
\* one at Q4: half a unit at Q3 for the body and one per unit of S1 for the
\* mask, the errors of the switch, and half a unit at Q4 for each of the two
\* last roundings.
AddedNoise ==
  LET switched == MapThenSumSet(LAMBDA k : NormMax(switchNoise[k]), DOMAIN switchNoise)
  IN  Q2 * Q4 * (1 + Norm1(s1)) + 2 * Q2 * Q4 * switched + 2 * Q2 * Q3

\* The answer is canonical, the upper endpoint of a rescale included, and
\* what the client decodes is slot 0 of the input's phase, scaled from Q2 to
\* Q4, up to the noise the compression may add (resp_comp.rs, "Three rescales
\* + one ring-switch").
AnswerNoise ==
  pc = "recover" =>
    LET phase == AtQ2!Sub(fresh.body, AtQ2!Mul(fresh.mask, Lift(s1, Q2), N1))
        whole == 2 * Q2 * Q3 * Q4
        Deviation(x) ==
          Centered((2 * Q3 * (Q2 * Noisy[x] - Q4 * AtQ2!ProjectAt(phase, N1, N2, 0)[x])) % whole, whole)
    IN  /\ answer \in [mask : AtQ3!Poly(N2), body : AtQ4!Poly(N2)]
        /\ \A x \in 0..(N2 - 1) : Abs(Deviation(x)) <= AddedNoise

\* The total noise at Q4 stays under Q4 / 2p, the rounding of Delta included.
WithinBudget ==
  PT * AddedNoise
    + 2 * Q3 * Q4 * (PT * NormMax(noise) + (PT * Delta(Q2) - Q2) * (PT - 1)) < Q2 * Q3 * Q4

\* Whenever the noise is within the budget the documentation states, the
\* client reads slot 0 of the plaintext (resp_comp.rs "correctness needs the
\* total under q4 / (2p)").
Recovered ==
  pc = "done" /\ WithinBudget => recovered = AtPT!ProjectAt(message, N1, N2, 0)
=============================================================================
