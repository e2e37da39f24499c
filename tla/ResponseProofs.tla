--------------------------- MODULE ResponseProofs ---------------------------
(***************************************************************************)
(* What the response's way to the client does to its plaintext, for all    *)
(* moduli, degrees, secrets, masks, messages and errors: the ring switch   *)
(* carries the phase exactly, the three rescales add no more noise than    *)
(* AddedNoise, and within the budget the client reads the plaintext.       *)
(*                                                                         *)
(* The argument is a chain of approximations modulo w,                     *)
(* Close(w, m, u, v): u and v agree up to a multiple of w and an error of  *)
(* at most m.  One rescale is one link (RescalePhase), the switch another  *)
(* (CarriedPhase), the last rounding a third (RoundedPhase); the links are *)
(* scaled to the unit of AddedNoise and joined (AnswerClose).              *)
(*                                                                         *)
(* The inductive invariant says, stage by stage, how each ciphertext was   *)
(* made from the one before: RInv for the response, KeyInv for the key     *)
(* whose modulus is switched.                                              *)
(***************************************************************************)
EXTENDS KeyReuse, TLAPS

R2 == INSTANCE RingProofs WITH P <- Q2
R3 == INSTANCE RingProofs WITH P <- Q3

\* The constants, one by one.
LEMMA Constants ==
  /\ Q2 \in Nat \ {0} /\ Q3 \in Nat \ {0} /\ Q4 \in Nat \ {0} /\ PT \in Nat \ {0}
  /\ 2 <= PT /\ PT <= Q4 /\ Q4 <= Q3 /\ Q3 <= Q2
  /\ N1 \in Nat \ {0} /\ N2 \in Nat \ {0} /\ N2 >= 2
  /\ D \in Nat \ {0} /\ N1 = D * N2
  <1>1. /\ Q2 \in Nat \ {0} /\ Q3 \in Nat \ {0} /\ Q4 \in Nat \ {0} /\ PT \in Nat \ {0}
        /\ 2 <= PT /\ PT <= Q4 /\ Q4 <= Q3 /\ Q3 <= Q2
        /\ N1 \in Nat \ {0} /\ N2 \in Nat \ {0} /\ N2 >= 2 /\ N1 % N2 = 0
    BY ResponseAssumption
  <1>2. D \in Nat /\ N1 = D * N2
    <2>1. /\ N1 \div N2 \in Nat /\ N1 % N2 \in 0..(N2 - 1)
          /\ N1 = N2 * (N1 \div N2) + (N1 % N2)
      BY <1>1, R2!DivMod
    <2>2. \A u, v \in Nat : u * v + 0 = v * u
      BY Z3
    <2>3. QED BY <1>1, <2>1, <2>2 DEF D
  <1>3. D # 0
    <2>1. 0 * N2 = 0
      BY <1>1
    <2>2. QED BY <1>1, <1>2, <2>1
  <1>4. QED BY <1>1, <1>2, <1>3

\* The ring that Response instantiates at Q3 and the one the lemmas are about.
LEMMA Same3 ==
  /\ \A n : AtQ3!Poly(n) = R3!Poly(n) /\ AtQ3!Zero(n) = R3!Zero(n)
  /\ \A f : AtQ3!Neg(f) = R3!Neg(f)
  /\ \A f, g : AtQ3!Add(f, g) = R3!Add(f, g) /\ AtQ3!Sub(f, g) = R3!Sub(f, g)
  /\ \A f, g, n : AtQ3!Mul(f, g, n) = R3!Mul(f, g, n)
  /\ \A f, n, k : AtQ3!MulXPow(f, n, k) = R3!MulXPow(f, n, k)
  /\ \A f, l, n, k : AtQ3!ProjectAt(f, l, n, k) = R3!ProjectAt(f, l, n, k)
  <1>1. \A n : AtQ3!Poly(n) = R3!Poly(n) /\ AtQ3!Zero(n) = R3!Zero(n)
    BY DEF AtQ3!Poly, R3!Poly, AtQ3!Coeff, R3!Coeff, AtQ3!Zero, R3!Zero
  <1>2. \A f : AtQ3!Neg(f) = R3!Neg(f)
    BY DEF AtQ3!Neg, R3!Neg
  <1>3. \A f, g : AtQ3!Add(f, g) = R3!Add(f, g)
    BY DEF AtQ3!Add, R3!Add
  <1>4. \A f, g : AtQ3!Sub(f, g) = R3!Sub(f, g)
    BY <1>2, <1>3 DEF AtQ3!Sub, R3!Sub
  <1>5. \A f, g, n : AtQ3!Mul(f, g, n) = R3!Mul(f, g, n)
    BY Zenon DEF AtQ3!Mul, R3!Mul
  <1>6. \A f, n, k : AtQ3!MulXPow(f, n, k) = R3!MulXPow(f, n, k)
    BY Zenon DEF AtQ3!MulXPow, R3!MulXPow, AtQ3!Neg, R3!Neg
  <1>7. \A f, l, n, k : AtQ3!ProjectAt(f, l, n, k) = R3!ProjectAt(f, l, n, k)
    BY Zenon DEF AtQ3!ProjectAt, R3!ProjectAt
  <1>8. QED BY <1>1, <1>2, <1>3, <1>4, <1>5, <1>6, <1>7, Zenon

-----------------------------------------------------------------------------
\* A secret or an error lifted from its centred coefficients.
LEMMA LiftIn ==
  ASSUME NEW n, NEW f \in CenteredPoly(n), NEW q \in Nat \ {0}
  PROVE  /\ Lift(f, q) \in [0..(n - 1) -> 0..(q - 1)]
         /\ \A x \in 0..(n - 1) : Lift(f, q)[x] = f[x] % q /\ f[x] \in Int
  <1>1. DOMAIN f = 0..(n - 1) /\ \A x \in 0..(n - 1) : f[x] \in Int
    BY DEF CenteredPoly
  <1>2. \A x \in 0..(n - 1) : f[x] % q \in 0..(q - 1)
    <2>1. \A u \in Int : u % q \in 0..(q - 1)
      BY Z3
    <2>2. QED BY <1>1, <2>1
  <1>3. Lift(f, q) = [x \in 0..(n - 1) |-> f[x] % q]
    BY <1>1 DEF Lift
  <1>4. QED BY <1>1, <1>2, <1>3

\* A lifted polynomial is one of the ring at Q3.
LEMMA Lift3 ==
  ASSUME NEW n, NEW f \in CenteredPoly(n)
  PROVE  Lift(f, Q3) \in R3!Poly(n)
  BY LiftIn, Constants DEF R3!Poly, R3!Coeff

\* The products of the ring switch, and its errors so far.
Turns == [k \in 0..(D - 1) |-> R3!Mul(MaskHalf(k), KeyHalf(k), N2)]

Noises == [k \in 0..(j - 1) |-> Lift(switchNoise[k + 1], Q3)]

\* The products of all turns of the loop add up to slot 0 of mask times secret.
LEMMA TurnsAre ==
  ASSUME s1 \in CenteredPoly(N1), ct.mask \in R3!Poly(N1)
  PROVE  /\ Turns \in R3!Terms(D, N2)
         /\ R3!Sums(Turns, 0, D, N2) = R3!ProjectAt(R3!Mul(ct.mask, Lift(s1, Q3), N1), N1, N2, 0)
  <1> DEFINE a == ct.mask
             s == Lift(s1, Q3)
  <1>1. R3!Tower(N1, D, N2)
    BY Constants DEF R3!Tower
  <1>2. a \in R3!Poly(N1) /\ s \in R3!Poly(N1)
    BY Lift3
  <1>3. \A k \in 0..(D - 1) : Turns[k] = R3!Mul(MaskHalf(k), KeyHalf(k), N2)
    BY DEF Turns
  <1>4. \A k : MaskHalf(k) = R3!ProjectAt(R3!MulXPow(a, N1, k), N1, N2, 0)
    BY Same3, Zenon DEF MaskHalf
  <1>5. /\ KeyHalf(0) = R3!ProjectAt(s, N1, N2, 0)
        /\ \A k \in 1..(D - 1) : KeyHalf(k) = R3!ProjectAt(R3!Neg(R3!MulXPow(s, N1, N1 - k)), N1, N2, 0)
    <2>1. \A k \in 1..(D - 1) : k # 0
      OBVIOUS
    <2>2. QED BY <2>1, Same3, Zenon DEF KeyHalf
  <1>6. /\ Turns \in R3!Terms(D, N2)
        /\ R3!Sums(Turns, 0, D, N2) = R3!ProjectAt(R3!Mul(a, s, N1), N1, N2, 0)
    <2> HIDE DEF a, s
    <2>1. Q3 \in Nat \ {0} /\ 0 \in 0..(D - 1) /\ \A k \in 1..(D - 1) : k \in 0..(D - 1)
      BY Constants
    <2>2. Turns = [k \in 0..(D - 1) |-> Turns[k]]
      BY DEF Turns
    <2>3. /\ Turns[0] = R3!Mul(R3!ProjectAt(R3!MulXPow(a, N1, 0), N1, N2, 0), R3!ProjectAt(s, N1, N2, 0), N2)
          /\ \A k \in 1..(D - 1) :
               Turns[k] = R3!Mul(R3!ProjectAt(R3!MulXPow(a, N1, k), N1, N2, 0),
                                 R3!ProjectAt(R3!Neg(R3!MulXPow(s, N1, N1 - k)), N1, N2, 0), N2)
      BY <1>3, <1>4, <1>5, <2>1, Zenon
    <2>4. R3!SwitchTerms(Turns, a, s, N1, D, N2)
      BY <2>2, <2>3, Zenon DEF R3!SwitchTerms
    <2>5. QED BY <1>1, <1>2, <2>1, <2>4, R3!SwitchSlots
  <1>7. QED BY <1>6 DEF a, s

\* The terms still to come, as SwitchCarries adds them up.
LEMMA PendingIs ==
  ASSUME Turns \in R3!Terms(D, N2)
  PROVE  LET pending[k \in 0..D] ==
               IF k = D THEN AtQ3!Zero(N2)
               ELSE AtQ3!Add(AtQ3!Mul(MaskHalf(k), KeyHalf(k), N2), pending[k + 1])
         IN  \A k \in 0..D : pending[k] = R3!Sums(Turns, k, D, N2)
  <1> DEFINE Solves(h) == h = [k \in 0..D |->
               IF k = D THEN AtQ3!Zero(N2)
               ELSE AtQ3!Add(AtQ3!Mul(MaskHalf(k), KeyHalf(k), N2), h[k + 1])]
             h0 == [k \in 0..D |-> R3!Sums(Turns, k, D, N2)]
             pending == CHOOSE h : Solves(h)
  <1>1. Q3 \in Nat \ {0} /\ D \in Nat \ {0} /\ D \in 0..D
    BY Constants
  <1>2. \A k \in 0..D : k # D => k \in 0..(D - 1) /\ k + 1 \in 0..D /\ k \in Nat /\ k < D
    BY <1>1
  <1>3. \A k \in 0..(D - 1) : Turns[k] = AtQ3!Mul(MaskHalf(k), KeyHalf(k), N2)
    BY Same3, Zenon DEF Turns
  <1>4. R3!Sums(Turns, D, D, N2) = R3!Zero(N2)
    BY <1>1, R3!SumsEmpty
  <1>5. ASSUME NEW k \in 0..D, k # D
        PROVE  R3!Sums(Turns, k, D, N2) = R3!Add(Turns[k], R3!Sums(Turns, k + 1, D, N2))
    BY <1>1, <1>2, <1>5, R3!SumsSplit
  <1>6. Solves(h0)
    <2>1. ASSUME NEW k \in 0..D
          PROVE  R3!Sums(Turns, k, D, N2) =
                   IF k = D THEN AtQ3!Zero(N2)
                   ELSE AtQ3!Add(AtQ3!Mul(MaskHalf(k), KeyHalf(k), N2), h0[k + 1])
      <3>1. CASE k = D
        BY <1>4, <3>1, Same3, Zenon
      <3>2. CASE k # D
        <4>1. h0[k + 1] = R3!Sums(Turns, k + 1, D, N2)
          BY <1>2, <3>2, Zenon
        <4>2. Turns[k] = AtQ3!Mul(MaskHalf(k), KeyHalf(k), N2)
          BY <1>2, <1>3, <3>2, Zenon
        <4>3. R3!Sums(Turns, k, D, N2) = R3!Add(Turns[k], R3!Sums(Turns, k + 1, D, N2))
          BY <1>5, <3>2
        <4> HIDE DEF h0
        <4>4. QED BY <3>2, <4>1, <4>2, <4>3, Same3, Zenon
      <3>3. QED BY <3>1, <3>2
    <2>2. QED BY <2>1, Zenon
  <1>7. Solves(pending)
    BY <1>6, Zenon
  <1> HIDE DEF pending, h0
  <1>8. \A k \in 0..D : pending[k] = IF k = D THEN AtQ3!Zero(N2)
               ELSE AtQ3!Add(AtQ3!Mul(MaskHalf(k), KeyHalf(k), N2), pending[k + 1])
    BY <1>7, Zenon
  <1>9. pending[D] = R3!Zero(N2)
    BY <1>1, <1>8, Same3, Zenon
  <1>10. ASSUME NEW k \in 0..(D - 1) PROVE pending[k] = R3!Add(Turns[k], pending[k + 1])
    <2>1. k \in 0..D /\ k # D
      BY <1>1
    <2>2. pending[k] = AtQ3!Add(AtQ3!Mul(MaskHalf(k), KeyHalf(k), N2), pending[k + 1])
      BY <1>8, <2>1, Zenon
    <2>3. QED BY <1>3, <2>2, Same3, Zenon
  <1>11. \A k \in 0..D : pending[k] = R3!Sums(Turns, k, D, N2)
    BY <1>1, <1>9, <1>10, R3!SumsDown
  <1>12. QED BY <1>11, Zenon DEF pending

\* The errors so far, as SwitchCarries adds them up.
LEMMA ErrorsAre ==
  ASSUME j \in Nat
  PROVE  LET errors[k \in 0..j] ==
               IF k = 0 THEN AtQ3!Zero(N2) ELSE AtQ3!Add(errors[k - 1], Lift(switchNoise[k], Q3))
         IN  errors[j] = R3!Sums(Noises, 0, j, N2)
  <1> DEFINE Solves(h) == h = [k \in 0..j |->
               IF k = 0 THEN AtQ3!Zero(N2) ELSE AtQ3!Add(h[k - 1], Lift(switchNoise[k], Q3))]
             Partial(h) == h = [k \in 0..j |-> IF k = 0 THEN R3!Zero(N2) ELSE R3!Add(h[k - 1], Noises[k - 1])]
  <1>1. \A k \in 0..j : k # 0 => Noises[k - 1] = Lift(switchNoise[k], Q3)
    <2>1. \A k \in 0..j : k # 0 => k - 1 \in 0..(j - 1) /\ (k - 1) + 1 = k
      OBVIOUS
    <2>2. \A i \in 0..(j - 1) : Noises[i] = Lift(switchNoise[i + 1], Q3)
      BY Zenon DEF Noises
    <2>3. QED BY <2>1, <2>2, Zenon
  <1>2. ASSUME NEW h PROVE Solves(h) <=> Partial(h)
    <2> DEFINE F == [k \in 0..j |-> IF k = 0 THEN AtQ3!Zero(N2) ELSE AtQ3!Add(h[k - 1], Lift(switchNoise[k], Q3))]
               G == [k \in 0..j |-> IF k = 0 THEN R3!Zero(N2) ELSE R3!Add(h[k - 1], Noises[k - 1])]
    <2>1. F = G
      <3>1. ASSUME NEW k \in 0..j
            PROVE (IF k = 0 THEN AtQ3!Zero(N2) ELSE AtQ3!Add(h[k - 1], Lift(switchNoise[k], Q3)))
                    = (IF k = 0 THEN R3!Zero(N2) ELSE R3!Add(h[k - 1], Noises[k - 1]))
        BY <1>1, Same3, Zenon
      <3>2. QED BY <3>1, Zenon
    <2> HIDE DEF F, G
    <2>2. QED BY <2>1, Zenon DEF F, G
  <1>3. (CHOOSE h : Solves(h)) = (CHOOSE h : Partial(h))
    <2> HIDE DEF Solves, Partial
    <2>1. \A h : Solves(h) <=> Partial(h)
      BY <1>2
    <2>2. QED BY <2>1, Zenon
  <1>4. (CHOOSE h : Partial(h))[j] = R3!Sums(Noises, 0, j, N2)
    BY Zenon DEF R3!Sums
  <1>5. QED BY <1>3, <1>4, Zenon

-----------------------------------------------------------------------------
(***************************************************************************)
(* The inductive invariant, one part per stage of the response.            *)
(***************************************************************************)
Before == {"encrypt", "switch_key", "gate"}

Switching == {"switch", "recover", "done"}

After == {"rescale", "enter"} \cup Switching

\* The ciphertext at Q2 encrypts the message with the noise.
FreshInv ==
  /\ fresh \in [mask : R2!Poly(N1), body : R2!Poly(N1)]
  /\ message \in AtPT!Poly(N1) /\ noise \in CenteredPoly(N1)
  /\ \A x \in 0..(N1 - 1) : PhaseQ2(fresh)[x] = (Encode(message, Q2)[x] + noise[x]) % Q2

RescaledInv == ct = Ct(Rescale(fresh.mask, Q2, Q3), Rescale(fresh.body, Q2, Q3))

\* What SwitchCarries says, in the ring of the lemmas.
Carries ==
  R3!Add(R3!Sub(R3!Sub(acc.body, R3!Mul(acc.mask, Lift(s2, Q3), N2)), R3!Sums(Turns, j, D, N2)),
         R3!Sums(Noises, 0, j, N2))
    = R3!ProjectAt(R3!Sub(ct.body, R3!Mul(ct.mask, Lift(s1, Q3), N1)), N1, N2, 0)

SwitchInv ==
  /\ j \in 0..D /\ acc \in [mask : R3!Poly(N2), body : R3!Poly(N2)]
  /\ switchNoise \in Seq(CenteredPoly(N2)) /\ Len(switchNoise) = j
  /\ Carries

AnswerInv == j = D /\ answer = Ct(Rescale(acc.mask, Q3, Q3), Rescale(acc.body, Q3, Q4))

\* The stages the response has behind it, and what holds from then on.
RInv ==
  /\ s1 \in CenteredPoly(N1) /\ s2 \in CenteredPoly(N2)
  /\ pc \in Before \cup After
  /\ pc \in After => FreshInv
  /\ pc \in {"enter"} \cup Switching => RescaledInv
  /\ pc \in Switching => SwitchInv
  /\ pc \notin Switching => switchNoise = <<>>
  /\ pc \in {"recover", "done"} => AnswerInv
  /\ pc = "done" => recovered = Decode(Noisy, Q4)

\* What Rescale returns: a canonical polynomial, and each coefficient of it.
LEMMA RescaleIn ==
  ASSUME NEW n, NEW src \in Nat \ {0}, NEW dst \in Nat \ {0}, NEW f \in [0..(n - 1) -> 0..(src - 1)]
  PROVE  /\ Rescale(f, src, dst) \in [0..(n - 1) -> 0..(dst - 1)]
         /\ \A x \in 0..(n - 1) : Rescale(f, src, dst)[x] = ((f[x] * dst + (src \div 2)) \div src) % dst
  <1>1. DOMAIN f = 0..(n - 1) /\ \A x \in 0..(n - 1) : f[x] \in Nat
    OBVIOUS
  <1>2. ASSUME NEW x \in 0..(n - 1) PROVE ((f[x] * dst + (src \div 2)) \div src) % dst \in 0..(dst - 1)
    <2>1. f[x] * dst \in Nat /\ src \div 2 \in Nat
      <3>1. \A u, v \in Nat : u * v \in Nat
        BY Z3
      <3>2. \A u \in Nat : u \div 2 \in Nat
        BY Z3
      <3>3. QED BY <1>1, <3>1, <3>2
    <2>2. \A u \in Nat : u \div src \in Nat /\ u % dst \in 0..(dst - 1)
      <3>1. \A u \in Nat, d \in Nat \ {0} : u \div d \in Nat /\ u % d \in 0..(d - 1)
        BY Z3
      <3>2. QED BY <3>1
    <2> DEFINE u == f[x] * dst
               h == src \div 2
    <2>3. u + h \in Nat
      BY <2>1
    <2> HIDE DEF u, h
    <2>4. QED BY <2>2, <2>3 DEF u, h
  <1>3. Rescale(f, src, dst) = [x \in 0..(n - 1) |-> ((f[x] * dst + (src \div 2)) \div src) % dst]
    BY <1>1 DEF Rescale
  <1>4. QED BY <1>2, <1>3

\* The rescaled ciphertext is one at Q3.
LEMMA RescaledIn ==
  ASSUME FreshInv, RescaledInv
  PROVE  ct.mask \in R3!Poly(N1) /\ ct.body \in R3!Poly(N1)
  <1>1. fresh.mask \in [0..(N1 - 1) -> 0..(Q2 - 1)] /\ fresh.body \in [0..(N1 - 1) -> 0..(Q2 - 1)]
    BY DEF FreshInv, R2!Poly, R2!Coeff
  <1>2. Q2 \in Nat \ {0} /\ Q3 \in Nat \ {0}
    BY Constants
  <1>3. ct.mask = Rescale(fresh.mask, Q2, Q3) /\ ct.body = Rescale(fresh.body, Q2, Q3)
    BY DEF RescaledInv, Ct
  <1>4. QED BY <1>1, <1>2, <1>3, RescaleIn DEF R3!Poly, R3!Coeff

\* The errors of the gadget products, lifted, are terms of a sum.
LEMMA NoisesIn ==
  ASSUME j \in Nat, switchNoise \in Seq(CenteredPoly(N2)), Len(switchNoise) = j
  PROVE  Noises \in R3!Terms(j, N2)
  <1>1. \A k \in 0..(j - 1) : switchNoise[k + 1] \in CenteredPoly(N2)
    <2>1. \A k \in 0..(j - 1) : k + 1 \in 1..Len(switchNoise)
      OBVIOUS
    <2>2. QED BY <2>1
  <1>2. \A k \in 0..(j - 1) : Lift(switchNoise[k + 1], Q3) \in R3!Poly(N2)
    BY <1>1, Lift3
  <1>3. QED BY <1>2, Zenon DEF Noises, R3!Terms

\* Carries is what the property says.
LEMMA CarriesIs ==
  ASSUME Turns \in R3!Terms(D, N2), j \in 0..D, Carries
  PROVE  SwitchCarries
  <1> DEFINE Pending(h) == h = [k \in 0..D |->
               IF k = D THEN AtQ3!Zero(N2)
               ELSE AtQ3!Add(AtQ3!Mul(MaskHalf(k), KeyHalf(k), N2), h[k + 1])]
             Given(h) == h = [k \in 0..j |->
               IF k = 0 THEN AtQ3!Zero(N2) ELSE AtQ3!Add(h[k - 1], Lift(switchNoise[k], Q3))]
             pending == CHOOSE h : Pending(h)
             errors == CHOOSE h : Given(h)
  <1>1. j \in Nat
    BY Constants
  <1>2. pending[j] = R3!Sums(Turns, j, D, N2)
    BY PendingIs, Zenon
  <1>3. errors[j] = R3!Sums(Noises, 0, j, N2)
    BY <1>1, ErrorsAre, Zenon
  <1>4. SwitchCarries <=>
          (pc = "switch" =>
             AtQ3!Add(AtQ3!Sub(AtQ3!Sub(acc.body, AtQ3!Mul(acc.mask, Lift(s2, Q3), N2)), pending[j]), errors[j])
               = AtQ3!ProjectAt(AtQ3!Sub(ct.body, AtQ3!Mul(ct.mask, Lift(s1, Q3), N1)), N1, N2, 0))
    BY Zenon DEF SwitchCarries
  <1> HIDE DEF pending, errors
  <1>5. QED BY <1>2, <1>3, <1>4, Same3, Zenon DEF Carries

-----------------------------------------------------------------------------
(***************************************************************************)
(* Every step preserves the invariant.                                     *)
(***************************************************************************)
LEMMA TurnsFixed ==
  ASSUME UNCHANGED <<s1, ct>>
  PROVE  Turns' = Turns
  <1>1. \A k : MaskHalf(k)' = MaskHalf(k) /\ KeyHalf(k)' = KeyHalf(k)
    BY Zenon DEF MaskHalf, KeyHalf
  <1>2. QED BY <1>1, Zenon DEF Turns

\* Each part of RInv depends on few variables.
LEMMA Stays ==
  /\ (UNCHANGED <<s1, message, noise, fresh>> /\ FreshInv) => FreshInv'
  /\ (UNCHANGED <<fresh, ct>> /\ RescaledInv) => RescaledInv'
  /\ (UNCHANGED <<s1, s2, ct, acc, j, switchNoise>> /\ SwitchInv) => SwitchInv'
  /\ (UNCHANGED <<acc, j, answer>> /\ AnswerInv) => AnswerInv'
  <1>1. ASSUME UNCHANGED <<s1, message, noise, fresh>>, FreshInv PROVE FreshInv'
    <2>1. PhaseQ2(fresh)' = PhaseQ2(fresh)
      BY <1>1, Zenon DEF PhaseQ2
    <2>2. QED BY <1>1, <2>1 DEF FreshInv
  <1>2. ASSUME UNCHANGED <<fresh, ct>>, RescaledInv PROVE RescaledInv'
    BY <1>2, Zenon DEF RescaledInv
  <1>3. ASSUME UNCHANGED <<s1, s2, ct, acc, j, switchNoise>>, SwitchInv PROVE SwitchInv'
    <2>1. Turns' = Turns
      BY <1>3, TurnsFixed
    <2>2. Noises' = Noises
      BY <1>3, Zenon DEF Noises
    <2>3. Carries'
      BY <1>3, <2>1, <2>2, Zenon DEF SwitchInv, Carries
    <2>4. QED BY <1>3, <2>3 DEF SwitchInv
  <1>4. ASSUME UNCHANGED <<acc, j, answer>>, AnswerInv PROVE AnswerInv'
    BY <1>4, Zenon DEF AnswerInv
  <1>5. QED BY <1>1, <1>2, <1>3, <1>4

\* The start of the ring switch: nothing has been subtracted yet.
LEMMA EnterStep ==
  ASSUME RInv, EnterRingSwitch
  PROVE  RInv'
  <1>1. /\ pc = "enter" /\ pc' = "switch" /\ j' = 0
        /\ acc' = Ct(AtQ3!Zero(N2), AtQ3!ProjectAt(ct.body, N1, N2, 0))
        /\ UNCHANGED <<s1, s2, message, noise, fresh, ct, answer, recovered, switchNoise>>
    BY DEF EnterRingSwitch
  <1>2. /\ s1 \in CenteredPoly(N1) /\ s2 \in CenteredPoly(N2)
        /\ FreshInv /\ RescaledInv /\ switchNoise = <<>>
    BY <1>1 DEF RInv, After, Switching
  <1>3. FreshInv' /\ RescaledInv'
    BY <1>1, <1>2, Stays
  <1>4. ct.mask \in R3!Poly(N1) /\ ct.body \in R3!Poly(N1)
    BY <1>2, RescaledIn
  <1>5. /\ Q3 \in Nat \ {0} /\ N1 \in Nat \ {0} /\ N2 \in Nat \ {0} /\ D \in Nat \ {0}
        /\ R3!Tower(N1, D, N2) /\ 0 \in 0..(D - 1) /\ 0 \in 0..D
    BY Constants DEF R3!Tower
  <1>6. acc'.mask = R3!Zero(N2) /\ acc'.body = R3!ProjectAt(ct.body, N1, N2, 0)
        /\ acc' \in [mask : {R3!Zero(N2)}, body : {R3!ProjectAt(ct.body, N1, N2, 0)}]
    <2>1. acc' = Ct(R3!Zero(N2), R3!ProjectAt(ct.body, N1, N2, 0))
      BY <1>1, Same3, Zenon
    <2>2. QED BY <2>1 DEF Ct
  <1>7. R3!Zero(N2) \in R3!Poly(N2) /\ R3!ProjectAt(ct.body, N1, N2, 0) \in R3!Poly(N2)
    <2>1. R3!ProjectAt(ct.body, N1, N2, 0) \in R3!Poly(N2)
      BY <1>4, <1>5, R3!SlotIn
    <2>2. QED BY <1>5, <2>1, R3!PolySums
  <1>8. /\ Turns \in R3!Terms(D, N2) /\ Turns' = Turns
        /\ R3!Sums(Turns, 0, D, N2) = R3!ProjectAt(R3!Mul(ct.mask, Lift(s1, Q3), N1), N1, N2, 0)
    BY <1>1, <1>2, <1>4, TurnsAre, TurnsFixed
  <1>9. R3!Mul(ct.mask, Lift(s1, Q3), N1) \in R3!Poly(N1) /\ Lift(s2, Q3) \in R3!Poly(N2)
    BY <1>2, <1>4, <1>5, Lift3, R3!MulClosed
  <1>10. R3!Sums(Noises', 0, 0, N2) = R3!Zero(N2)
    <2>1. \A T : R3!Sums(T, 0, 0, N2) = R3!Zero(N2)
      BY <1>5, R3!SumsEmpty
    <2>2. QED BY <2>1
  <1>11. Carries'
    <2> DEFINE m == R3!Mul(ct.mask, Lift(s1, Q3), N1)
               s == Lift(s2, Q3)
    <2>1. m \in R3!Poly(N1) /\ s \in R3!Poly(N2)
      BY <1>9
    <2>2. R3!Add(R3!Sub(R3!Sub(R3!ProjectAt(ct.body, N1, N2, 0), R3!Mul(R3!Zero(N2), s, N2)),
                        R3!ProjectAt(m, N1, N2, 0)), R3!Zero(N2))
            = R3!ProjectAt(R3!Sub(ct.body, m), N1, N2, 0)
      <3> HIDE DEF m, s
      <3>1. QED BY <1>4, <1>5, <2>1, R3!SwitchEnter
    <2>3. Carries' <=>
            R3!Add(R3!Sub(R3!Sub(acc'.body, R3!Mul(acc'.mask, s, N2)), R3!Sums(Turns', 0, D, N2)),
                   R3!Sums(Noises', 0, 0, N2))
              = R3!ProjectAt(R3!Sub(ct.body, m), N1, N2, 0)
      BY <1>1, Zenon DEF Carries
    <2> HIDE DEF s
    <2>4. QED BY <1>6, <1>8, <1>10, <2>2, <2>3, Zenon DEF m
  <1>12. SwitchInv'
    <2>1. switchNoise' = <<>> /\ switchNoise' \in Seq(CenteredPoly(N2)) /\ Len(switchNoise') = 0
      BY <1>1, <1>2
    <2>2. QED BY <1>1, <1>5, <1>6, <1>7, <1>11, <2>1 DEF SwitchInv
  <1>13. QED BY <1>1, <1>2, <1>3, <1>12 DEF RInv, After, Switching

\* One turn of ring_switch moves its term from the pending ones to the accumulator.
LEMMA SwitchStep ==
  ASSUME RInv, SwitchMask
  PROVE  RInv'
  <1>1. /\ pc = "switch" /\ j < D /\ j' = j + 1
        /\ UNCHANGED <<s1, s2, pc, message, noise, fresh, ct, answer, recovered>>
    BY DEF SwitchMask
  <1>2. PICK a \in MasksN2, e \in SwitchErrors :
          LET product == AtQ3!Mul(MaskHalf(j), KeyHalf(j), N2)
              gp == Ct(a, AtQ3!Add(AtQ3!Add(AtQ3!Mul(a, Lift(s2, Q3), N2), Lift(e, Q3)), product))
          IN  /\ acc' = Ct(AtQ3!Sub(acc.mask, gp.mask), AtQ3!Sub(acc.body, gp.body))
              /\ switchNoise' = Append(switchNoise, e)
    BY DEF SwitchMask
  <1>3. /\ s1 \in CenteredPoly(N1) /\ s2 \in CenteredPoly(N2)
        /\ FreshInv /\ RescaledInv /\ SwitchInv
    BY <1>1 DEF RInv, After, Switching
  <1>4. FreshInv' /\ RescaledInv'
    BY <1>1, <1>3, Stays
  <1>5. Q3 \in Nat \ {0} /\ N2 \in Nat \ {0} /\ D \in Nat \ {0}
    BY Constants
  <1>6. /\ j \in 0..D /\ acc.mask \in R3!Poly(N2) /\ acc.body \in R3!Poly(N2)
        /\ switchNoise \in Seq(CenteredPoly(N2)) /\ Len(switchNoise) = j /\ Carries
    BY <1>3 DEF SwitchInv
  <1>7. j \in 0..(D - 1) /\ j \in Nat /\ j + 1 \in 0..D /\ j + 1 \in Nat /\ j + 1 <= D
    BY <1>1, <1>5, <1>6
  <1>8. ct.mask \in R3!Poly(N1) /\ Turns \in R3!Terms(D, N2) /\ Turns' = Turns
    BY <1>1, <1>3, RescaledIn, TurnsAre, TurnsFixed
  <1>9. a \in R3!Poly(N2) /\ e \in CenteredPoly(N2) /\ Lift(e, Q3) \in R3!Poly(N2) /\ Lift(s2, Q3) \in R3!Poly(N2)
    <2>1. a \in R3!Poly(N2) /\ e \in CenteredPoly(N2)
      BY Same3, ResponseAssumption, Zenon
    <2>2. QED BY <1>3, <2>1, Lift3
  <1> DEFINE t == Turns[j]
             le == Lift(e, Q3)
             s == Lift(s2, Q3)
             p == R3!Sums(Turns, j + 1, D, N2)
             r == R3!Sums(Noises, 0, j, N2)
             given == R3!Add(R3!Add(R3!Mul(a, s, N2), le), t)
  <1>10. acc' = Ct(R3!Sub(acc.mask, a), R3!Sub(acc.body, given))
    <2>1. t = AtQ3!Mul(MaskHalf(j), KeyHalf(j), N2)
      BY <1>7, Same3, Zenon DEF Turns
    <2> HIDE DEF t, le, s
    <2>2. acc' = Ct(AtQ3!Sub(acc.mask, a), AtQ3!Sub(acc.body, AtQ3!Add(AtQ3!Add(AtQ3!Mul(a, s, N2), le), t)))
      <3>1. Ct(a, AtQ3!Add(AtQ3!Add(AtQ3!Mul(a, Lift(s2, Q3), N2), Lift(e, Q3)), t)).mask = a
            /\ Ct(a, AtQ3!Add(AtQ3!Add(AtQ3!Mul(a, Lift(s2, Q3), N2), Lift(e, Q3)), t)).body
                 = AtQ3!Add(AtQ3!Add(AtQ3!Mul(a, Lift(s2, Q3), N2), Lift(e, Q3)), t)
        BY DEF Ct
      <3>2. QED BY <1>2, <2>1, <3>1 DEF le, s
    <2>3. QED BY <2>2, Same3, Zenon
  <1>11. t \in R3!Poly(N2) /\ p \in R3!Poly(N2) /\ R3!Sums(Turns, j, D, N2) = R3!Add(t, p)
    <2>1. R3!Sums(Turns, j, D, N2) = R3!Add(t, p) /\ t \in R3!Poly(N2)
      BY <1>1, <1>5, <1>7, <1>8, R3!SumsSplit
    <2>2. p \in R3!Poly(N2)
      BY <1>5, <1>7, <1>8, R3!SumsClosed
    <2>3. QED BY <2>1, <2>2
  <1>12. /\ switchNoise' = Append(switchNoise, e) /\ switchNoise' \in Seq(CenteredPoly(N2)) /\ Len(switchNoise') = j + 1
         /\ \A k \in 0..(j - 1) : switchNoise'[k + 1] = switchNoise[k + 1]
         /\ switchNoise'[j + 1] = e
    BY <1>2, <1>6, <1>9
  <1>13. r \in R3!Poly(N2) /\ R3!Sums(Noises', 0, j + 1, N2) = R3!Add(r, le)
    <2>1. Noises \in R3!Terms(j, N2)
      BY <1>6, <1>7, NoisesIn
    <2>2. Noises' = [k \in 0..((j + 1) - 1) |-> Lift(switchNoise'[k + 1], Q3)]
      BY <1>1, Zenon DEF Noises
    <2>3. Noises' \in R3!Terms(j + 1, N2)
      <3>1. \A k \in 0..((j + 1) - 1) : switchNoise'[k + 1] \in CenteredPoly(N2)
        <4>1. \A k \in 0..((j + 1) - 1) : k + 1 \in 1..Len(switchNoise')
          BY <1>7, <1>12
        <4>2. QED BY <1>12, <4>1
      <3>2. \A k \in 0..((j + 1) - 1) : Lift(switchNoise'[k + 1], Q3) \in R3!Poly(N2)
        BY <3>1, Lift3
      <3>3. QED BY <2>2, <3>2, Zenon DEF R3!Terms
    <2>4. \A k \in 0..(j - 1) : Noises'[k] = Noises[k]
      <3>1. \A k \in 0..(j - 1) : k \in 0..((j + 1) - 1) /\ Noises[k] = Lift(switchNoise[k + 1], Q3)
        BY <1>7 DEF Noises
      <3>2. QED BY <1>12, <2>2, <3>1, Zenon
    <2>5. Noises'[j] = le
      <3>1. j \in 0..((j + 1) - 1)
        BY <1>7
      <3>2. QED BY <1>12, <2>2, <3>1, Zenon
    <2>6. R3!Sums(Noises', 0, j + 1, N2) = R3!Add(r, Noises'[j])
      BY <1>5, <1>7, <2>1, <2>3, <2>4, R3!SumsExtend
    <2>7. r \in R3!Poly(N2)
      <3>1. 0 \in Nat /\ 0 <= j
        BY <1>7
      <3>2. QED BY <1>5, <1>7, <2>1, <3>1, R3!SumsClosed
    <2>8. QED BY <2>5, <2>6, <2>7
  <1>14. le \in R3!Poly(N2) /\ s \in R3!Poly(N2)
    BY <1>9
  <1>15. acc'.mask = R3!Sub(acc.mask, a) /\ acc'.body = R3!Sub(acc.body, given)
    BY <1>10 DEF Ct
  <1>16. Carries'
    <2>1. R3!Add(R3!Sub(R3!Sub(R3!Sub(acc.body, given), R3!Mul(R3!Sub(acc.mask, a), s, N2)), p), R3!Add(r, le))
            = R3!Add(R3!Sub(R3!Sub(acc.body, R3!Mul(acc.mask, s, N2)), R3!Add(t, p)), r)
      <3> DEFINE mk == acc.mask
                 bd == acc.body
      <3>1. mk \in R3!Poly(N2) /\ bd \in R3!Poly(N2) /\ a \in R3!Poly(N2) /\ t \in R3!Poly(N2)
            /\ p \in R3!Poly(N2) /\ r \in R3!Poly(N2)
        BY <1>6, <1>9, <1>11, <1>13
      <3> HIDE DEF t, p, r, le, s, mk, bd
      <3>2. R3!TurnKeeps(N2, mk, bd, s, a, le, t, p, r)
        BY <1>5, <1>14, <3>1, R3!SwitchTurn, Zenon
      <3>3. QED BY <3>2, Zenon DEF mk, bd, R3!TurnKeeps
    <2>2. Carries' <=>
            R3!Add(R3!Sub(R3!Sub(acc'.body, R3!Mul(acc'.mask, s, N2)), R3!Sums(Turns', j + 1, D, N2)),
                   R3!Sums(Noises', 0, j + 1, N2))
              = R3!ProjectAt(R3!Sub(ct.body, R3!Mul(ct.mask, Lift(s1, Q3), N1)), N1, N2, 0)
      BY <1>1, Zenon DEF Carries
    <2>3. Carries <=>
            R3!Add(R3!Sub(R3!Sub(acc.body, R3!Mul(acc.mask, s, N2)), R3!Sums(Turns, j, D, N2)), r)
              = R3!ProjectAt(R3!Sub(ct.body, R3!Mul(ct.mask, Lift(s1, Q3), N1)), N1, N2, 0)
      BY Zenon DEF Carries
    <2>4. R3!Sums(Turns', j + 1, D, N2) = p
      BY <1>8
    <2> HIDE DEF t, p, r, le, s, given
    <2>5. QED BY <1>6, <1>11, <1>13, <1>15, <2>1, <2>2, <2>3, <2>4, Zenon
  <1>17. acc' \in [mask : R3!Poly(N2), body : R3!Poly(N2)]
    <2>1. R3!Mul(a, s, N2) \in R3!Poly(N2)
      BY <1>5, <1>9, R3!MulClosed
    <2>2. \A f, g \in R3!Poly(N2) : R3!Add(f, g) \in R3!Poly(N2) /\ R3!Sub(f, g) \in R3!Poly(N2)
      BY <1>5, R3!AddClosed, R3!SubClosed
    <2> HIDE DEF t, s, le
    <2>3. given \in R3!Poly(N2)
      BY <1>11, <1>14, <2>1, <2>2
    <2> HIDE DEF given
    <2>4. R3!Sub(acc.mask, a) \in R3!Poly(N2) /\ R3!Sub(acc.body, given) \in R3!Poly(N2)
      BY <1>6, <1>9, <2>2, <2>3
    <2>5. QED BY <1>10, <2>4 DEF Ct
  <1>18. SwitchInv'
    BY <1>1, <1>7, <1>12, <1>16, <1>17 DEF SwitchInv
  <1>19. QED BY <1>1, <1>3, <1>4, <1>18 DEF RInv, After, Switching

-----------------------------------------------------------------------------
(***************************************************************************)
(* The norms of the noise bound.                                           *)
(***************************************************************************)
\* The absolute values that the norms are built from.
LEMMA AbsIs ==
  ASSUME NEW u \in Int
  PROVE  Abs(u) = (IF u >= 0 THEN u ELSE -u) /\ Abs(u) \in Nat /\ u <= Abs(u) /\ -u <= Abs(u)
  BY DEF Abs

\* Norm1 adds up the absolute values in order.
LEMMA Norm1Is ==
  ASSUME NEW n \in Nat, NEW f \in CenteredPoly(n), NEW h, R3!Weights(h, f, n)
  PROVE  Norm1(f) = h[n] /\ h[n] \in Nat
  <1>1. f \in [0..(n - 1) -> Int] /\ DOMAIN f = 0..(n - 1) /\ 0..(0 + n - 1) = 0..(n - 1)
    BY DEF CenteredPoly
  <1> DEFINE F == [x \in 0..(0 + n - 1) |-> Abs(f[x])]
             S == 0..(0 + n - 1)
  <1>2. /\ F \in [0..(0 + n - 1) -> Nat]
        /\ \A i \in 0..(n - 1) : F[0 + i] = IF f[i] >= 0 THEN f[i] ELSE -f[i]
    <2>1. \A x \in 0..(0 + n - 1) : Abs(f[x]) \in Nat /\ Abs(f[x]) = IF f[x] >= 0 THEN f[x] ELSE -f[x]
      BY <1>1, AbsIs
    <2>2. F \in [0..(0 + n - 1) -> Nat]
      BY <2>1, Zenon
    <2>3. \A i \in 0..(n - 1) : 0 + i = i /\ i \in 0..(0 + n - 1)
      OBVIOUS
    <2>4. \A i \in 0..(n - 1) : F[i] = IF f[i] >= 0 THEN f[i] ELSE -f[i]
      BY <2>1, <2>3
    <2> HIDE DEF F
    <2>5. QED BY <2>2, <2>3, <2>4
  <1>3. R3!FoldOf(S, F) = h[n] /\ h[n] \in Nat
    <2> HIDE DEF F
    <2>1. Q3 \in Nat \ {0} /\ 0 \in Int
      BY Constants
    <2>2. QED BY <1>1, <1>2, <2>1, R3!WeightsFold
  <1>4. Norm1(f) = R3!FoldOf(S, F)
    <2>1. DOMAIN f = S
      BY <1>1
    <2> DEFINE A(it) == it = [s \in SUBSET S |-> IF s = {} THEN 0 ELSE LET x == CHOOSE x \in s : TRUE IN Abs(f[x]) + it[s \ {x}]]
               B(it) == it = [s \in SUBSET S |-> IF s = {} THEN 0 ELSE LET x == CHOOSE x \in s : TRUE IN F[x] + it[s \ {x}]]
    <2>2. Norm1(f) = (CHOOSE it : A(it))[S]
      BY <2>1, Zenon DEF Norm1, MapThenSumSet, MapThenFoldSet
    <2>3. R3!FoldOf(S, F) = (CHOOSE it : B(it))[S]
      <3> HIDE DEF F, S
      <3>1. QED BY Zenon DEF R3!FoldOf, R3!Folds
    <2>4. ASSUME NEW it PROVE A(it) <=> B(it)
      <3>1. \A s \in SUBSET S : s # {} => F[CHOOSE x \in s : TRUE] = Abs(f[CHOOSE x \in s : TRUE])
        <4>1. \A s \in SUBSET S : s # {} => (CHOOSE x \in s : TRUE) \in S
          <5> HIDE DEF S
          <5>1. QED BY Zenon
        <4> HIDE DEF S
        <4>2. QED BY <4>1, Zenon DEF S
      <3> HIDE DEF F, S
      <3>2. [s \in SUBSET S |-> IF s = {} THEN 0 ELSE LET x == CHOOSE x \in s : TRUE IN Abs(f[x]) + it[s \ {x}]]
              = [s \in SUBSET S |-> IF s = {} THEN 0 ELSE LET x == CHOOSE x \in s : TRUE IN F[x] + it[s \ {x}]]
        <4>1. \A s \in SUBSET S :
                (IF s = {} THEN 0 ELSE LET x == CHOOSE x \in s : TRUE IN Abs(f[x]) + it[s \ {x}])
                  = (IF s = {} THEN 0 ELSE LET x == CHOOSE x \in s : TRUE IN F[x] + it[s \ {x}])
          <5>1. ASSUME NEW s \in SUBSET S
                PROVE  (IF s = {} THEN 0 ELSE LET x == CHOOSE x \in s : TRUE IN Abs(f[x]) + it[s \ {x}])
                         = (IF s = {} THEN 0 ELSE LET x == CHOOSE x \in s : TRUE IN F[x] + it[s \ {x}])
            <6> DEFINE c == CHOOSE x \in s : TRUE
            <6>1. s # {} => F[c] = Abs(f[c])
              BY <3>1, Zenon
            <6> HIDE DEF c
            <6>2. (IF s = {} THEN 0 ELSE Abs(f[c]) + it[s \ {c}]) = (IF s = {} THEN 0 ELSE F[c] + it[s \ {c}])
              BY <6>1
            <6>3. QED BY <6>2, Zenon DEF c
          <5>2. QED BY <5>1
        <4>2. QED BY <4>1, Zenon
      <3>3. QED BY <3>2, Zenon
    <2>5. (CHOOSE it : A(it)) = (CHOOSE it : B(it))
      <3> HIDE DEF A, B
      <3>1. \A it : A(it) <=> B(it)
        BY <2>4
      <3>2. QED BY <3>1, Zenon
    <2> HIDE DEF A, B, S, F
    <2>6. QED BY <2>2, <2>3, <2>5, Zenon
  <1>5. QED BY <1>3, <1>4

\* NormMax is a bound of the coefficients.
LEMMA NormMaxIs ==
  ASSUME NEW n \in Nat \ {0}, NEW f \in CenteredPoly(n)
  PROVE  NormMax(f) \in Nat /\ \A x \in 0..(n - 1) : f[x] <= NormMax(f) /\ -f[x] <= NormMax(f)
  <1>1. f \in [0..(n - 1) -> Int] /\ DOMAIN f = 0..(n - 1)
    BY DEF CenteredPoly
  <1> DEFINE F == [x \in 0..(n - 1) |-> Abs(f[x])]
             S == {Abs(f[x]) : x \in DOMAIN f}
  <1>2. \A x \in 0..(n - 1) : Abs(f[x]) \in Nat /\ f[x] <= Abs(f[x]) /\ -f[x] <= Abs(f[x])
    BY <1>1, AbsIs
  <1>3. F \in [0..(n - 1) -> Nat]
    BY <1>2, Zenon
  <1>4. PICK x \in 0..(n - 1) : \A y \in 0..(n - 1) : F[y] <= F[x]
    <2> HIDE DEF F
    <2>1. Q3 \in Nat \ {0}
      BY Constants
    <2>2. QED BY <1>3, <2>1, R3!LargestExists
  <1>5. \E m \in S : \A v \in S : m >= v
    <2>1. Abs(f[x]) \in S
      BY <1>1
    <2>2. \A v \in S : Abs(f[x]) >= v
      <3>1. \A y \in 0..(n - 1) : Abs(f[x]) >= Abs(f[y])
        BY <1>2, <1>4
      <3>2. QED BY <1>1, <3>1
    <2>3. QED BY <2>1, <2>2
  <1>6. NormMax(f) \in S /\ \A v \in S : NormMax(f) >= v
    <2>1. NormMax(f) = CHOOSE m \in S : \A v \in S : m >= v
      BY DEF NormMax, Max
    <2> HIDE DEF S
    <2>2. QED BY <1>5, <2>1
  <1>7. NormMax(f) \in Nat
    BY <1>1, <1>2, <1>6
  <1>8. ASSUME NEW y \in 0..(n - 1) PROVE f[y] <= NormMax(f) /\ -f[y] <= NormMax(f)
    <2>1. Abs(f[y]) \in S
      BY <1>1
    <2>2. NormMax(f) >= Abs(f[y]) /\ Abs(f[y]) \in Nat /\ f[y] <= Abs(f[y]) /\ -f[y] <= Abs(f[y]) /\ f[y] \in Int
      BY <1>1, <1>2, <1>6, <2>1
    <2> DEFINE a == f[y]
               b == Abs(f[y])
               m == NormMax(f)
    <2>3. m \in Nat /\ b \in Nat /\ a \in Int /\ m >= b /\ a <= b /\ -a <= b
      BY <1>7, <2>2
    <2> HIDE DEF a, b, m
    <2>4. a <= m /\ -a <= m
      BY <2>3
    <2>5. QED BY <2>4 DEF a, m
  <1>9. QED BY <1>7, <1>8

\* The errors of a ring switch, each by its largest coefficient.
SwitchedNoise == MapThenSumSet(LAMBDA k : NormMax(switchNoise[k]), DOMAIN switchNoise)

\* The largest errors of all gadget products, added up in order.
LEMMA SwitchedIs ==
  ASSUME switchNoise \in Seq(CenteredPoly(N2)), NEW n \in Nat, Len(switchNoise) = n,
         NEW m \in [0..(n - 1) -> Int], \A k \in 0..(n - 1) : m[k] = NormMax(switchNoise[k + 1]),
         NEW h, R3!Weights(h, m, n)
  PROVE  SwitchedNoise = h[n] /\ h[n] \in Nat
  <1> DEFINE S == 1..(1 + n - 1)
             F == [x \in S |-> NormMax(switchNoise[x])]
  <1>1. DOMAIN switchNoise = S
    <2>1. DOMAIN switchNoise = 1..n /\ 1 + n - 1 = n
      OBVIOUS
    <2>2. QED BY <2>1
  <1>2. F \in [S -> Nat] /\ \A i \in 0..(n - 1) : F[1 + i] = IF m[i] >= 0 THEN m[i] ELSE -m[i]
    <2>1. \A x \in S : switchNoise[x] \in CenteredPoly(N2)
      <3>1. \A x \in S : x \in 1..Len(switchNoise)
        OBVIOUS
      <3>2. QED BY <3>1
    <2>2. N2 \in Nat \ {0}
      BY Constants
    <2>3. \A x \in S : NormMax(switchNoise[x]) \in Nat
      <3> HIDE DEF S
      <3>1. QED BY <2>1, <2>2, NormMaxIs
    <2>4. F \in [S -> Nat]
      <3> HIDE DEF S
      <3>1. QED BY <2>3, Zenon
    <2>5. ASSUME NEW i \in 0..(n - 1) PROVE F[1 + i] = IF m[i] >= 0 THEN m[i] ELSE -m[i]
      <3>1. 1 + i \in S /\ 1 + i = i + 1
        OBVIOUS
      <3>2. F[1 + i] = NormMax(switchNoise[1 + i])
        BY <3>1
      <3>3. m[i] = NormMax(switchNoise[1 + i]) /\ m[i] \in Nat
        BY <2>3, <3>1
      <3> HIDE DEF F, S
      <3>4. QED BY <3>2, <3>3
    <2>6. QED BY <2>4, <2>5
  <1>3. R3!FoldOf(S, F) = h[n] /\ h[n] \in Nat
    <2>1. Q3 \in Nat \ {0} /\ 1 \in Int
      BY Constants
    <2>2. F \in [S -> Nat] /\ S = 1..(1 + n - 1)
      BY <1>2
    <2>3. R3!ValuesOf(F, m, 1, n, S)
      <3> HIDE DEF F, S
      <3>1. QED BY <1>2, <2>2, Zenon DEF R3!ValuesOf
    <2> HIDE DEF F, S
    <2>4. m \in [0..(n - 1) -> Int] /\ R3!Weights(h, m, n) /\ n \in Nat
      OBVIOUS
    <2>5. QED BY <2>1, <2>3, <2>4, R3!WeightsFolded
  <1>4. SwitchedNoise = R3!FoldOf(S, F)
    <2> DEFINE A(it) == it = [s \in SUBSET S |-> IF s = {} THEN 0
                                                 ELSE LET x == CHOOSE x \in s : TRUE IN NormMax(switchNoise[x]) + it[s \ {x}]]
               B(it) == it = [s \in SUBSET S |-> IF s = {} THEN 0
                                                 ELSE LET x == CHOOSE x \in s : TRUE IN F[x] + it[s \ {x}]]
    <2>2. SwitchedNoise = (CHOOSE it : A(it))[S]
      <3> HIDE DEF S
      <3>1. QED BY <1>1, Zenon DEF SwitchedNoise, MapThenSumSet, MapThenFoldSet
    <2>3. R3!FoldOf(S, F) = (CHOOSE it : B(it))[S]
      <3> HIDE DEF F, S
      <3>1. QED BY Zenon DEF R3!FoldOf, R3!Folds
    <2>4. ASSUME NEW it PROVE A(it) <=> B(it)
      <3>1. \A s \in SUBSET S : s # {} => F[CHOOSE x \in s : TRUE] = NormMax(switchNoise[CHOOSE x \in s : TRUE])
        <4>1. \A s \in SUBSET S : s # {} => (CHOOSE x \in s : TRUE) \in S
          <5> HIDE DEF S
          <5>1. QED BY Zenon
        <4> HIDE DEF S
        <4>2. QED BY <4>1, Zenon
      <3> HIDE DEF F, S
      <3>2. [s \in SUBSET S |-> IF s = {} THEN 0 ELSE LET x == CHOOSE x \in s : TRUE IN NormMax(switchNoise[x]) + it[s \ {x}]]
              = [s \in SUBSET S |-> IF s = {} THEN 0 ELSE LET x == CHOOSE x \in s : TRUE IN F[x] + it[s \ {x}]]
        <4>1. \A s \in SUBSET S :
                (IF s = {} THEN 0 ELSE LET x == CHOOSE x \in s : TRUE IN NormMax(switchNoise[x]) + it[s \ {x}])
                  = (IF s = {} THEN 0 ELSE LET x == CHOOSE x \in s : TRUE IN F[x] + it[s \ {x}])
          <5>1. ASSUME NEW s \in SUBSET S
                PROVE  (IF s = {} THEN 0 ELSE LET x == CHOOSE x \in s : TRUE IN NormMax(switchNoise[x]) + it[s \ {x}])
                         = (IF s = {} THEN 0 ELSE LET x == CHOOSE x \in s : TRUE IN F[x] + it[s \ {x}])
            <6> DEFINE c == CHOOSE x \in s : TRUE
            <6>1. s # {} => F[c] = NormMax(switchNoise[c])
              BY <3>1, Zenon
            <6> HIDE DEF c
            <6>2. (IF s = {} THEN 0 ELSE NormMax(switchNoise[c]) + it[s \ {c}]) = (IF s = {} THEN 0 ELSE F[c] + it[s \ {c}])
              BY <6>1
            <6>3. QED BY <6>2, Zenon DEF c
          <5>2. QED BY <5>1
        <4>2. QED BY <4>1, Zenon
      <3>3. QED BY <3>2, Zenon
    <2>5. (CHOOSE it : A(it)) = (CHOOSE it : B(it))
      <3> HIDE DEF A, B
      <3>1. \A it : A(it) <=> B(it)
        BY <2>4
      <3>2. QED BY <3>1, Zenon
    <2> HIDE DEF A, B, S, F
    <2>6. QED BY <2>2, <2>3, <2>5, Zenon
  <1>5. QED BY <1>3, <1>4

\* Same3, at Q2.
LEMMA Same2 ==
  /\ \A n : AtQ2!Poly(n) = R2!Poly(n) /\ AtQ2!Zero(n) = R2!Zero(n)
  /\ \A f : AtQ2!Neg(f) = R2!Neg(f)
  /\ \A f, g : AtQ2!Add(f, g) = R2!Add(f, g) /\ AtQ2!Sub(f, g) = R2!Sub(f, g)
  /\ \A f, g, n : AtQ2!Mul(f, g, n) = R2!Mul(f, g, n)
  /\ \A f, n, k : AtQ2!MulXPow(f, n, k) = R2!MulXPow(f, n, k)
  /\ \A f, l, n, k : AtQ2!ProjectAt(f, l, n, k) = R2!ProjectAt(f, l, n, k)
  <1>1. \A n : AtQ2!Poly(n) = R2!Poly(n) /\ AtQ2!Zero(n) = R2!Zero(n)
    BY DEF AtQ2!Poly, R2!Poly, AtQ2!Coeff, R2!Coeff, AtQ2!Zero, R2!Zero
  <1>2. \A f : AtQ2!Neg(f) = R2!Neg(f)
    BY DEF AtQ2!Neg, R2!Neg
  <1>3. \A f, g : AtQ2!Add(f, g) = R2!Add(f, g)
    BY DEF AtQ2!Add, R2!Add
  <1>4. \A f, g : AtQ2!Sub(f, g) = R2!Sub(f, g)
    BY <1>2, <1>3 DEF AtQ2!Sub, R2!Sub
  <1>5. \A f, g, n : AtQ2!Mul(f, g, n) = R2!Mul(f, g, n)
    BY Zenon DEF AtQ2!Mul, R2!Mul
  <1>6. \A f, n, k : AtQ2!MulXPow(f, n, k) = R2!MulXPow(f, n, k)
    BY Zenon DEF AtQ2!MulXPow, R2!MulXPow, AtQ2!Neg, R2!Neg
  <1>7. \A f, l, n, k : AtQ2!ProjectAt(f, l, n, k) = R2!ProjectAt(f, l, n, k)
    BY Zenon DEF AtQ2!ProjectAt, R2!ProjectAt
  <1>8. QED BY <1>1, <1>2, <1>3, <1>4, <1>5, <1>6, <1>7, Zenon

\* A lifted polynomial is one of the ring at Q2.
LEMMA Lift2 ==
  ASSUME NEW n, NEW f \in CenteredPoly(n)
  PROVE  Lift(f, Q2) \in R2!Poly(n)
  BY LiftIn, Constants DEF R2!Poly, R2!Coeff

\* The scaled plaintext is a polynomial at Q2.
LEMMA EncodeIn ==
  ASSUME NEW n, NEW m \in AtPT!Poly(n)
  PROVE  /\ Encode(m, Q2) \in R2!Poly(n) /\ Delta(Q2) \in Nat
         /\ \A x \in 0..(n - 1) : m[x] \in 0..(PT - 1) /\ Encode(m, Q2)[x] = (m[x] * Delta(Q2)) % Q2
  <1>1. DOMAIN m = 0..(n - 1) /\ \A x \in 0..(n - 1) : m[x] \in 0..(PT - 1)
    BY DEF AtPT!Poly, AtPT!Coeff
  <1>2. Delta(Q2) \in Nat
    <2>1. Q2 + PT - 1 \in Nat /\ PT \in Nat \ {0} /\ Q2 \in Nat \ {0}
      BY Constants
    <2>2. (Q2 + PT - 1) \div PT \in Nat
      BY <2>1, R2!DivMod
    <2>3. QED BY <2>2 DEF Delta
  <1>3. \A x \in 0..(n - 1) : (m[x] * Delta(Q2)) % Q2 \in 0..(Q2 - 1)
    <2>1. \A u, v \in Nat : u * v \in Nat
      BY Z3
    <2>2. \A x \in 0..(n - 1) : m[x] * Delta(Q2) \in Nat
      <3>1. \A x \in 0..(n - 1) : m[x] \in Nat
        BY <1>1, Constants
      <3>2. QED BY <1>2, <2>1, <3>1
    <2>3. Q2 \in Nat \ {0}
      BY Constants
    <2>4. \A u \in Nat : u % Q2 \in 0..(Q2 - 1)
      BY <2>3, R2!DivMod
    <2>5. QED BY <2>2, <2>4
  <1>4. Encode(m, Q2) = [x \in 0..(n - 1) |-> (m[x] * Delta(Q2)) % Q2]
    BY <1>1 DEF Encode
  <1>5. QED BY <1>1, <1>2, <1>3, <1>4 DEF R2!Poly, R2!Coeff

\* A fresh encryption, as the gates and the pipeline make it.
LEMMA EncryptAtIs ==
  ASSUME s1 \in CenteredPoly(N1), NEW m \in Messages, NEW a \in MasksN1, NEW e \in Errors
  PROVE  /\ EncryptAt(m, a, e).mask = a /\ a \in R2!Poly(N1)
         /\ EncryptAt(m, a, e) \in [mask : R2!Poly(N1), body : R2!Poly(N1)]
         /\ PhaseQ2(EncryptAt(m, a, e)) = R2!Add(Lift(e, Q2), Encode(m, Q2))
         /\ m \in AtPT!Poly(N1) /\ e \in CenteredPoly(N1)
  <1> DEFINE s == Lift(s1, Q2)
             le == Lift(e, Q2)
             em == Encode(m, Q2)
             b == R2!Add(R2!Add(R2!Mul(a, s, N1), le), em)
  <1>1. m \in AtPT!Poly(N1) /\ e \in CenteredPoly(N1) /\ a \in R2!Poly(N1)
    <2>1. m \in AtPT!Poly(N1) /\ e \in CenteredPoly(N1) /\ a \in AtQ2!Poly(N1)
      BY ResponseAssumption
    <2>2. QED BY <2>1, Same2, Zenon
  <1>2. s \in R2!Poly(N1) /\ le \in R2!Poly(N1) /\ em \in R2!Poly(N1)
    BY <1>1, Lift2, EncodeIn
  <1>3. EncryptAt(m, a, e) = Ct(a, b)
    BY Same2, Zenon DEF EncryptAt
  <1>4. b \in R2!Poly(N1) /\ R2!Sub(b, R2!Mul(a, s, N1)) = R2!Add(le, em)
    <2>1. Q2 \in Nat \ {0} /\ N1 \in Nat \ {0}
      BY Constants
    <2> HIDE DEF s, le, em
    <2>2. QED BY <1>1, <1>2, <2>1, R2!EncryptPhase
  <1>5. EncryptAt(m, a, e).mask = a /\ EncryptAt(m, a, e).body = b
        /\ EncryptAt(m, a, e) \in [mask : R2!Poly(N1), body : R2!Poly(N1)]
    <2> HIDE DEF b
    <2>1. QED BY <1>1, <1>3, <1>4 DEF Ct
  <1>6. PhaseQ2(EncryptAt(m, a, e)) = R2!Sub(b, R2!Mul(a, s, N1))
    <2> HIDE DEF b
    <2>1. QED BY <1>5, Same2, Zenon DEF PhaseQ2
  <1>7. QED BY <1>1, <1>4, <1>5, <1>6

\* Its coefficients: the scaled plaintext and the error.
LEMMA PhaseAt ==
  ASSUME NEW m \in AtPT!Poly(N1), NEW e \in CenteredPoly(N1), NEW x \in 0..(N1 - 1)
  PROVE  R2!Add(Lift(e, Q2), Encode(m, Q2))[x] = (Encode(m, Q2)[x] + e[x]) % Q2
  <1>1. /\ Lift(e, Q2) \in R2!Poly(N1) /\ Lift(e, Q2)[x] = e[x] % Q2 /\ e[x] \in Int
        /\ Encode(m, Q2) \in R2!Poly(N1) /\ Q2 \in Nat \ {0}
    BY Lift2, LiftIn, EncodeIn, Constants
  <1>2. Encode(m, Q2)[x] \in Nat /\ Encode(m, Q2)[x] % Q2 = Encode(m, Q2)[x] /\ Encode(m, Q2)[x] \in R2!Coeff
    <2>1. Encode(m, Q2)[x] \in R2!Coeff
      BY <1>1 DEF R2!Poly
    <2>2. QED BY <1>1, <2>1, R2!CoeffClosed
  <1>3. R2!Add(Lift(e, Q2), Encode(m, Q2))[x] = (Lift(e, Q2)[x] + Encode(m, Q2)[x]) % Q2
    BY <1>1, R2!SumAt DEF R2!CAdd
  <1> DEFINE u == e[x]
             v == Encode(m, Q2)[x]
  <1>4. ((u % Q2) + (v % Q2)) % Q2 = (u + v) % Q2
    <2>1. u \in Int /\ v \in Int
      BY <1>1, <1>2
    <2> HIDE DEF u, v
    <2>2. R2!CAdd(u % Q2, v % Q2) = (u + v) % Q2
      BY <1>1, <2>1, R2!IntMod
    <2>3. QED BY <2>2 DEF R2!CAdd
  <1>5. u + v = v + u
    BY <1>1, <1>2
  <1> HIDE DEF u, v
  <1>6. (v + u) % Q2 = ((u % Q2) + (v % Q2)) % Q2
    BY <1>4, <1>5
  <1>7. QED BY <1>1, <1>2, <1>3, <1>6 DEF u, v

\* The lemmas about digits, for the gadget of the gates.
Gd == INSTANCE GadgetProofs WITH
  Q <- Q2, Base <- <<GBase, GBase>>, Depth <- <<L, L>>, Power <- <<PowerOfG, PowerOfG>>,
  Keys <- {}, Messages <- {}, Cts <- {}, ErrMax <- KeyErrMax, Errors <- {},
  op <- "reconstruct", s <- 0, msg <- 0, ct <- [mask |-> 0, body |-> 0], errs <- <<>>,
  pc <- "scale", part <- 1, level <- 0, val <- 0, acc <- 0, sum <- 0

\* The rest of a decomposition after a digit.
Peeled(x) == (x - Gd!BalancedDigit(1, x)) \div GBase

\* What the assumptions say of the gadget.
LEMMA GadgetParams ==
  /\ Gd!GadgetAssumption
  /\ <<GBase, GBase>>[1] = GBase /\ <<L, L>>[1] = L /\ <<PowerOfG, PowerOfG>>[1] = PowerOfG
  /\ GBase \in Nat \ {0} /\ L \in Nat \ {0} /\ Q1 \in Nat \ {0} /\ Q2 <= Q1 /\ 1 \in 1..2
  /\ PowerOfG[0] = 1 /\ Gd!Scale(1) = PowerOfG[L] /\ Gd!Half(1) = GBase \div 2 /\ GBase \div 2 \in Nat
  /\ Gd!Scale(1) \in Nat \ {0} /\ Gd!Delta(1) = OneCoefficient(Q2, 0)!Delta(1)
  /\ \A i \in 0..L : PowerOfG[i] \in Nat \ {0}
  /\ \A i : GadgetEntry(Q2, i) = Gd!G(1, i)
  /\ KeyErrMax \in Nat
  <1>1. /\ Q1 \in Nat \ {0} /\ Q2 <= Q1 /\ Q2 \in Nat /\ Q2 >= 2
        /\ GBase \in Nat /\ GBase >= 2 /\ L \in Nat \ {0} /\ L >= 1 /\ KeyErrMax \in Nat
        /\ PowerOfG \in [0..L -> Nat \ {0}] /\ PowerOfG[0] = 1
        /\ \A i \in 0..(L - 1) : PowerOfG[i + 1] = GBase * PowerOfG[i]
    <2>1. /\ Q1 \in Nat /\ Q2 <= Q1
          /\ GBase \in Nat /\ GBase >= 2 /\ L \in Nat \ {0} /\ KeyErrMax \in Nat
          /\ PowerOfG \in [0..L -> Nat \ {0}] /\ PowerOfG[0] = 1
          /\ \A i \in 0..(L - 1) : PowerOfG[i + 1] = GBase * PowerOfG[i]
      BY KeyReuseAssumption
    <2>2. Q2 \in Nat \ {0} /\ 2 <= PT /\ PT <= Q4 /\ Q4 <= Q3 /\ Q3 <= Q2 /\ PT \in Nat /\ Q4 \in Nat /\ Q3 \in Nat
      BY Constants
    <2>3. Q2 >= 2 /\ Q1 # 0 /\ L >= 1
      BY <2>1, <2>2
    <2>4. QED BY <2>1, <2>2, <2>3
  <1>2. /\ <<GBase, GBase>> \in [1..2 -> Nat] /\ <<L, L>> \in [1..2 -> Nat]
        /\ \A p \in 1..2 : <<GBase, GBase>>[p] = GBase /\ <<L, L>>[p] = L /\ <<PowerOfG, PowerOfG>>[p] = PowerOfG
    BY <1>1
  <1>3. Gd!GadgetAssumption
    <2>1. \A p \in 1..2 :
            /\ <<GBase, GBase>>[p] >= 2 /\ <<L, L>>[p] >= 1
            /\ \A i \in 0..<<L, L>>[p] : <<PowerOfG, PowerOfG>>[p][i] \in Nat \ {0}
            /\ <<PowerOfG, PowerOfG>>[p][0] = 1
            /\ \A i \in 0..(<<L, L>>[p] - 1) :
                 <<PowerOfG, PowerOfG>>[p][i + 1] = <<GBase, GBase>>[p] * <<PowerOfG, PowerOfG>>[p][i]
      BY <1>1, <1>2
    <2>2. QED BY <1>1, <1>2, <2>1 DEF Gd!GadgetAssumption
  <1>4. Gd!Scale(1) = PowerOfG[L] /\ Gd!Half(1) = GBase \div 2 /\ 1 \in 1..2
    BY <1>2 DEF Gd!Scale, Gd!Half
  <1>5. GBase \div 2 \in Nat
    BY <1>1, R2!DivMod, Constants
  <1>6. \A i : GadgetEntry(Q2, i) = Gd!G(1, i)
    BY Zenon DEF GadgetEntry, OneCoefficient!G, Gd!G
  <1>7. Gd!Delta(1) = OneCoefficient(Q2, 0)!Delta(1)
    BY Zenon DEF Gd!Delta, OneCoefficient!Delta, Gd!Scale, OneCoefficient!Scale
  <1>8. \A i \in 0..L : PowerOfG[i] \in Nat \ {0}
    BY <1>1
  <1>9. Gd!Scale(1) \in Nat \ {0}
    BY <1>1, <1>4, <1>8
  <1>10. QED BY <1>1, <1>2, <1>3, <1>4, <1>5, <1>6, <1>7, <1>8, <1>9

\* A decomposition: the rests, and the digits times the entries added up.
Decomposed(c, rest, t) ==
  /\ rest \in [0..L -> Int] /\ t \in [0..L -> Int]
  /\ rest[0] = Gd!ScaledOf(1, c) /\ t[0] = 0
  /\ \A l \in 0..(L - 1) : /\ rest[l + 1] = Peeled(rest[l])
                           /\ DigitOf(c, L - 1 - l) = Gd!BalancedDigit(1, rest[l])
                           /\ t[l + 1] = t[l] + DigitOf(c, L - 1 - l) * GadgetEntry(Q2, L - 1 - l)

\* DigitOf runs through one.
LEMMA DigitRuns ==
  ASSUME NEW c \in 0..(Q2 - 1)
  PROVE  \E rest, t : Decomposed(c, rest, t)
  <1> DEFINE y == Gd!ScaledOf(1, c)
             Solves(h) == h = [i \in 0..(L - 1) |->
               IF i = 0 THEN OneCoefficient(Q2, c)!Scaled(1)
               ELSE (h[i - 1] - OneCoefficient(Q2, c)!BalancedDigit(1, h[i - 1])) \div GBase]
             r == CHOOSE h : Solves(h)
             B(x) == Gd!BalancedDigit(1, x)
  <1>1. /\ L \in Nat \ {0} /\ 0 \in 0..(L - 1) /\ Q2 \in Nat \ {0}
        /\ \A l \in 0..(L - 1) : l \in 0..L /\ l + 1 \in 0..L /\ L - 1 - l \in 0..(L - 1) /\ L - 1 - (L - 1 - l) = l
    BY GadgetParams, Constants
  <1>2. /\ \A x : OneCoefficient(Q2, c)!BalancedDigit(1, x) = B(x)
        /\ OneCoefficient(Q2, c)!Scaled(1) = y
    <2>1. \A x : OneCoefficient(Q2, c)!BalancedDigit(1, x) = B(x)
      BY Zenon DEF OneCoefficient!BalancedDigit, Gd!BalancedDigit
    <2>2. OneCoefficient(Q2, c)!Input(1) = c
      <3>1. [mask |-> c, body |-> 0].mask = c
        OBVIOUS
      <3>2. ~(1 = 2)
        OBVIOUS
      <3>3. QED BY <3>1, <3>2 DEF OneCoefficient!Input
    <2>3. QED BY <2>1, <2>2, Zenon DEF OneCoefficient!Scaled, OneCoefficient!Centered, OneCoefficient!RoundMulDiv,
                 OneCoefficient!Scale, Gd!ScaledOf, Gd!Centered, Gd!RoundMulDiv, Gd!Scale
  <1>3. y \in Int
    BY GadgetParams, Gd!ScaledOfBounds
  <1>4. \A x \in Int : B(x) \in Int /\ Peeled(x) \in Int
    <2>1. \A x \in Int : B(x) \in Int /\ (x - B(x)) \div <<GBase, GBase>>[1] \in Int
      BY GadgetParams, Gd!DigitBounds
    <2> HIDE DEF B
    <2>2. QED BY <2>1, GadgetParams DEF Peeled, B
  <1>5. \A x : DigitOf(c, x) = B(r[L - 1 - x])
    BY <1>2, Zenon DEF DigitOf
  <1>6. \E h : Solves(h)
    <2> DEFINE F == [i \in 1..L |-> [x \in Int |-> Peeled(x)]]
    <2>1. F \in [1..L -> [Int -> Int]]
      BY <1>4, Zenon
    <2>2. PICK f : f \in [0..L -> Int] /\ R2!Obeys(f, L, y, F)
      <3> HIDE DEF F, y
      <3>1. QED BY <1>1, <1>3, <2>1, R2!Recursion
    <2>3. f[0] = y /\ \A i \in 1..L : f[i] = F[i][f[i - 1]]
      BY <2>2, Zenon DEF R2!Obeys
    <2>4. \A i \in 1..L : f[i] = Peeled(f[i - 1])
      <3>1. \A i \in 1..L : f[i - 1] \in Int
        <4>1. \A i \in 1..L : i - 1 \in 0..L
          BY <1>1
        <4>2. QED BY <2>2, <4>1
      <3>2. \A i \in 1..L : F[i][f[i - 1]] = Peeled(f[i - 1])
        BY <3>1, Zenon
      <3>3. QED BY <2>3, <3>2, Zenon
    <2> DEFINE g == [i \in 0..(L - 1) |-> f[i]]
    <2>5. ASSUME NEW i \in 0..(L - 1)
          PROVE  f[i] = IF i = 0 THEN OneCoefficient(Q2, c)!Scaled(1)
                        ELSE (g[i - 1] - OneCoefficient(Q2, c)!BalancedDigit(1, g[i - 1])) \div GBase
      <3>1. CASE i = 0
        BY <1>2, <2>3, <3>1, Zenon
      <3>2. CASE i # 0
        <4>1. i \in 1..L /\ i - 1 \in 0..(L - 1)
          BY <1>1, <3>2
        <4>2. f[i] = Peeled(f[i - 1]) /\ g[i - 1] = f[i - 1]
          BY <2>4, <4>1
        <4> HIDE DEF g
        <4>3. QED BY <1>2, <3>2, <4>2, Zenon DEF Peeled
      <3>3. QED BY <3>1, <3>2
    <2>6. Solves(g)
      BY <2>5, Zenon
    <2>7. QED BY <2>6, Zenon
  <1>7. Solves(r)
    BY <1>6, Zenon
  <1> HIDE DEF r
  <1>8. r[0] = y /\ \A i \in 0..(L - 1) : i # 0 => r[i] = Peeled(r[i - 1])
    <2>1. \A i \in 0..(L - 1) : r[i] = IF i = 0 THEN OneCoefficient(Q2, c)!Scaled(1)
               ELSE (r[i - 1] - OneCoefficient(Q2, c)!BalancedDigit(1, r[i - 1])) \div GBase
      BY <1>7, Zenon
    <2>2. r[0] = y
      BY <1>1, <1>2, <2>1, Zenon
    <2>3. QED BY <1>2, <2>1, <2>2, Zenon DEF Peeled
  <1>9. \A i \in 0..(L - 1) : r[i] \in Int
    <2> DEFINE T == {i \in Nat : r[i] \in Int}
    <2>1. 0 \in T
      BY <1>3, <1>8
    <2>2. ASSUME NEW k \in 0..((L - 1) - 1), k \in T PROVE k + 1 \in T
      <3>1. k + 1 \in 0..(L - 1) /\ k + 1 # 0 /\ (k + 1) - 1 = k /\ k + 1 \in Nat
        BY <1>1
      <3>2. r[k + 1] = Peeled(r[k]) /\ r[k] \in Int
        BY <1>8, <2>2, <3>1
      <3>3. r[k + 1] \in Int
        BY <1>4, <3>2
      <3>4. QED BY <3>1, <3>3
    <2>3. \A k \in 0..(L - 1) : k \in T
      <3> HIDE DEF T
      <3>1. L - 1 \in Nat
        BY <1>1
      <3>2. QED BY <1>1, <2>1, <2>2, <3>1, R2!SetInduction
    <2>4. QED BY <2>3
  <1> DEFINE rest == [i \in 0..L |-> IF i = L THEN Peeled(r[L - 1]) ELSE r[i]]
             V(l) == DigitOf(c, L - 1 - l) * GadgetEntry(Q2, L - 1 - l)
             U == [l \in 1..L |-> [x \in Int |-> x + V(l - 1)]]
  <1>10. rest \in [0..L -> Int] /\ rest[0] = y /\ \A l \in 0..(L - 1) : rest[l] = r[l] /\ rest[l + 1] = Peeled(r[l])
    <2>1. L - 1 \in 0..(L - 1)
      BY <1>1
    <2>2. \A i \in 0..L : (IF i = L THEN Peeled(r[L - 1]) ELSE r[i]) \in Int
      <3>1. \A i \in 0..L : i # L => i \in 0..(L - 1)
        BY <1>1
      <3>2. QED BY <1>4, <1>9, <2>1, <3>1
    <2>3. rest \in [0..L -> Int]
      BY <2>2, Zenon
    <2>4. \A l \in 0..(L - 1) : rest[l] = r[l]
      BY <1>1
    <2>5. ASSUME NEW l \in 0..(L - 1) PROVE rest[l + 1] = Peeled(r[l])
      <3>1. CASE l = L - 1
        BY <1>1, <3>1
      <3>2. CASE l # L - 1
        <4>1. l + 1 \in 0..(L - 1) /\ l + 1 # 0 /\ (l + 1) - 1 = l
          BY <1>1, <3>2
        <4>2. r[l + 1] = Peeled(r[l])
          BY <1>8, <4>1
        <4>3. rest[l + 1] = r[l + 1]
          BY <2>4, <4>1
        <4>4. QED BY <4>2, <4>3
      <3>3. QED BY <3>1, <3>2
    <2>6. rest[0] = y
      BY <1>1, <1>8, <2>4
    <2>7. QED BY <2>3, <2>4, <2>5, <2>6
  <1>11. \A l \in 0..(L - 1) : V(l) \in Int /\ DigitOf(c, L - 1 - l) = B(r[l])
    <2>1. ASSUME NEW l \in 0..(L - 1) PROVE V(l) \in Int /\ DigitOf(c, L - 1 - l) = B(r[l])
      <3>1. DigitOf(c, L - 1 - l) = B(r[l])
        BY <1>1, <1>5
      <3>2. B(r[l]) \in Int
        BY <1>4, <1>9
      <3>3. GadgetEntry(Q2, L - 1 - l) \in Int
        <4>1. L - 1 - l \in 0..(<<L, L>>[1] - 1)
          BY <1>1, GadgetParams
        <4>2. Gd!G(1, L - 1 - l) \in Nat
          BY <4>1, GadgetParams, Gd!GadgetEntry
        <4>3. QED BY <4>2, GadgetParams
      <3> DEFINE u == DigitOf(c, L - 1 - l)
                 v == GadgetEntry(Q2, L - 1 - l)
      <3>4. u \in Int /\ v \in Int
        BY <3>1, <3>2, <3>3
      <3> HIDE DEF u, v
      <3>5. u * v \in Int
        BY <3>4
      <3>6. QED BY <3>1, <3>5 DEF u, v
    <2> HIDE DEF V
    <2>2. QED BY <2>1
  <1>12. PICK t : t \in [0..L -> Int] /\ t[0] = 0 /\ \A l \in 0..(L - 1) : t[l + 1] = t[l] + V(l)
    <2>1. U \in [1..L -> [Int -> Int]]
      <3>1. \A l \in 1..L : l - 1 \in 0..(L - 1)
        BY <1>1
      <3>2. \A l \in 1..L, x \in Int : x + V(l - 1) \in Int
        <4> HIDE DEF V
        <4>1. QED BY <1>11, <3>1
      <3> HIDE DEF V
      <3>3. QED BY <3>2, Zenon
    <2>2. PICK t : t \in [0..L -> Int] /\ R2!Obeys(t, L, 0, U)
      <3> HIDE DEF U
      <3>1. 0 \in Int
        OBVIOUS
      <3>2. QED BY <1>1, <2>1, <3>1, R2!Recursion
    <2>3. t[0] = 0 /\ \A l \in 1..L : t[l] = U[l][t[l - 1]]
      BY <2>2, Zenon DEF R2!Obeys
    <2>4. ASSUME NEW l \in 0..(L - 1) PROVE t[l + 1] = t[l] + V(l)
      <3>1. l + 1 \in 1..L /\ (l + 1) - 1 = l /\ l \in 0..L
        BY <1>1
      <3>2. t[l] \in Int /\ t[l + 1] = U[l + 1][t[l]]
        BY <2>2, <2>3, <3>1
      <3> HIDE DEF V
      <3>3. U[l + 1][t[l]] = t[l] + V((l + 1) - 1)
        BY <3>1, <3>2, Zenon
      <3>4. QED BY <3>1, <3>2, <3>3
    <2>5. QED BY <2>2, <2>3, <2>4
  <1> HIDE DEF rest
  <1>13. Decomposed(c, rest, t)
    <2>1. \A l \in 0..(L - 1) : rest[l + 1] = Peeled(rest[l]) /\ DigitOf(c, L - 1 - l) = B(rest[l])
      BY <1>10, <1>11
    <2>2. QED BY <1>10, <1>12, <2>1, Zenon DEF Decomposed
  <1>14. QED BY <1>13

\* Every digit is at most half the base, and the digits times the entries add
\* up to the coefficient, up to the rest of the decomposition.
LEMMA DigitSum ==
  ASSUME NEW c \in 0..(Q2 - 1), NEW rest, NEW t, Decomposed(c, rest, t)
  PROVE  /\ R2!Close(Q2, Gd!Delta(1), t[L], c) /\ Gd!Delta(1) \in Nat
         /\ \A k \in 0..(L - 1) : /\ DigitOf(c, k) \in Int
                                  /\ DigitOf(c, k) <= GBase \div 2 /\ -DigitOf(c, k) <= GBase \div 2
  <1>1. /\ rest \in [0..L -> Int] /\ t \in [0..L -> Int]
        /\ rest[0] = Gd!ScaledOf(1, c) /\ t[0] = 0
        /\ \A l \in 0..(L - 1) : /\ rest[l + 1] = Peeled(rest[l])
                                 /\ DigitOf(c, L - 1 - l) = Gd!BalancedDigit(1, rest[l])
                                 /\ t[l + 1] = t[l] + DigitOf(c, L - 1 - l) * GadgetEntry(Q2, L - 1 - l)
    BY Zenon DEF Decomposed
  <1> DEFINE S == Gd!Scale(1)
             y == Gd!ScaledOf(1, c)
             h == GBase \div 2
             z == Gd!Centered(c)
             Inv(k) == /\ PowerOfG[k] * PowerOfG[L - k] = S
                       /\ Gd!Bounded(2 * (S * t[k] - Q2 * (y - rest[k] * PowerOfG[k])), S * (k * h))
             T == {k \in Nat : Inv(k)}
  <1>2. /\ L \in Nat \ {0} /\ Q2 \in Nat \ {0} /\ S \in Nat \ {0} /\ h \in Nat
        /\ \A l \in 0..(L - 1) : l \in 0..L /\ l + 1 \in 0..L /\ L - 1 - l \in 0..(L - 1) /\ L - 1 - (L - 1 - l) = l
        /\ 0 \in 0..L /\ L \in 0..L
    BY GadgetParams, Constants
  <1>3. /\ y \in Int /\ z \in Int
        /\ 2 * (Q2 * y - S * z) <= Q2 /\ -(2 * (Q2 * y - S * z)) <= Q2
        /\ \E i \in Int : z = c + Q2 * i
    BY GadgetParams, Gd!ScaledOfBounds, Gd!CenteredRange
  <1>4. 0 \in T
    <2>1. PowerOfG[0] * PowerOfG[L - 0] = S
      <3>1. PowerOfG[0] = 1 /\ PowerOfG[L - 0] = S /\ S \in Nat
        BY <1>2, GadgetParams
      <3>2. \A u \in Nat : 1 * u = u
        OBVIOUS
      <3>3. QED BY <3>1, <3>2
    <2>2. 2 * (S * t[0] - Q2 * (y - rest[0] * PowerOfG[0])) = 0 /\ S * (0 * h) = 0
      <3>1. t[0] = 0 /\ rest[0] = y /\ PowerOfG[0] = 1
        BY <1>1, GadgetParams
      <3>2. \A u, v, w \in Int : 2 * (u * 0 - v * (w - w * 1)) = 0
        BY Z3
      <3>3. \A u, v \in Int : u * (0 * v) = 0
        BY Z3
      <3> HIDE DEF S, y, h
      <3>4. 2 * (S * 0 - Q2 * (y - y * 1)) = 0 /\ S * (0 * h) = 0
        BY <1>2, <1>3, <3>2, <3>3
      <3>5. QED BY <3>1, <3>4
    <2>3. Gd!Bounded(2 * (S * t[0] - Q2 * (y - rest[0] * PowerOfG[0])), S * (0 * h))
      <3>1. Gd!Bounded(0, 0)
        BY DEF Gd!Bounded
      <3>2. QED BY <2>2, <3>1
    <2> HIDE DEF S, y, h
    <2>4. QED BY <2>1, <2>3
  <1>5. ASSUME NEW k \in 0..(L - 1), k \in T PROVE k + 1 \in T
    <2>1. /\ PowerOfG[k] * PowerOfG[L - k] = S
          /\ Gd!Bounded(2 * (S * t[k] - Q2 * (y - rest[k] * PowerOfG[k])), S * (k * h))
      BY <1>5
    <2>2. rest[k] \in Int /\ t[k] \in Int /\ y \in Int /\ 1 \in 1..2
      <3>1. k \in 0..L /\ rest \in [0..L -> Int] /\ t \in [0..L -> Int]
        BY <1>1, <1>2, Zenon
      <3>2. rest[k] \in Int /\ t[k] \in Int
        BY <3>1
      <3>3. QED BY <1>3, <3>2
    <2> DEFINE d == Gd!BalancedDigit(1, rest[k])
    <2>3. /\ <<GBase, GBase>>[1] = GBase /\ <<L, L>>[1] = L /\ <<PowerOfG, PowerOfG>>[1] = PowerOfG
          /\ Gd!Half(1) = h /\ Gd!GadgetAssumption
      BY GadgetParams
    <2>4. /\ PowerOfG[k + 1] * PowerOfG[L - (k + 1)] = S
          /\ Gd!Bounded(2 * (S * (t[k] + d * Gd!G(1, L - 1 - k))
                               - Q2 * (y - ((rest[k] - d) \div GBase) * PowerOfG[k + 1])), S * ((k + 1) * h))
      <3>1. k \in 0..(<<L, L>>[1] - 1)
        BY <2>3
      <3> HIDE DEF S, y, h
      <3>2. <<PowerOfG, PowerOfG>>[1][k] * <<PowerOfG, PowerOfG>>[1][<<L, L>>[1] - k] = Gd!Scale(1)
        BY <2>1, <2>3 DEF S
      <3>3. Gd!Bounded(2 * (Gd!Scale(1) * t[k] - Q2 * (y - rest[k] * <<PowerOfG, PowerOfG>>[1][k])),
                       Gd!Scale(1) * (k * Gd!Half(1)))
        BY <2>1, <2>3 DEF S
      <3>4. LET d0 == Gd!BalancedDigit(1, rest[k])
                x2 == (rest[k] - d0) \div <<GBase, GBase>>[1]
                t2 == t[k] + d0 * Gd!G(1, <<L, L>>[1] - 1 - k)
            IN  /\ <<PowerOfG, PowerOfG>>[1][k + 1] * <<PowerOfG, PowerOfG>>[1][<<L, L>>[1] - (k + 1)] = Gd!Scale(1)
                /\ Gd!Bounded(2 * (Gd!Scale(1) * t2 - Q2 * (y - x2 * <<PowerOfG, PowerOfG>>[1][k + 1])),
                              Gd!Scale(1) * ((k + 1) * Gd!Half(1)))
        BY <2>2, <2>3, <3>1, <3>2, <3>3, Gd!TrackStep, Zenon
      <3>5. QED BY <2>3, <3>4, Zenon DEF S
    <2>5. /\ rest[k + 1] = (rest[k] - d) \div GBase
          /\ t[k + 1] = t[k] + d * Gd!G(1, L - 1 - k)
      BY <1>1, GadgetParams, Zenon DEF Peeled
    <2>6. Inv(k + 1)
      <3> HIDE DEF S, y, h, d
      <3>1. QED BY <2>4, <2>5
    <2> HIDE DEF Inv
    <2>7. QED BY <2>6
  <1>6. Inv(L)
    <2> HIDE DEF Inv
    <2>1. \A k \in 0..L : k \in T
      <3> HIDE DEF T
      <3>1. L \in Nat
        BY <1>2
      <3>2. QED BY <1>2, <1>4, <1>5, <3>1, R2!SetInduction
    <2>2. QED BY <1>2, <2>1
  <1>7. Gd!Delta(1) \in Nat /\ t[L] + Q2 * rest[L] - z \in Int /\ Gd!Bounded(t[L] + Q2 * rest[L] - z, Gd!Delta(1))
    <2>1. Gd!Bounded(2 * (S * t[L] - Q2 * (y - rest[L] * PowerOfG[L])), S * (L * h)) /\ PowerOfG[L] = S
      BY <1>6, GadgetParams
    <2>2. /\ <<L, L>>[1] = L /\ Gd!Half(1) = h /\ Gd!GadgetAssumption /\ 1 \in 1..2
          /\ t[L] \in Int /\ rest[L] \in Int /\ y \in Int /\ z \in Int
      BY <1>1, <1>2, <1>3, GadgetParams
    <2>3. Gd!Bounded(2 * (Q2 * y - S * z), Q2)
      BY <1>3 DEF Gd!Bounded
    <2> HIDE DEF y, z, h, S
    <2>4. Gd!Bounded(2 * (Gd!Scale(1) * t[L] - Q2 * (y - rest[L] * Gd!Scale(1))), Gd!Scale(1) * (<<L, L>>[1] * Gd!Half(1)))
      BY <2>1, <2>2 DEF S
    <2>5. Gd!Bounded(2 * (Q2 * y - Gd!Scale(1) * z), Q2)
      BY <2>3 DEF S
    <2>6. QED BY <2>2, <2>4, <2>5, Gd!ProductEnd, Zenon
  <1>8. R2!Close(Q2, Gd!Delta(1), t[L], c)
    <2>1. PICK i \in Int : z = c + Q2 * i
      BY <1>3
    <2> DEFINE e == t[L] + Q2 * rest[L] - z
               g == i - rest[L]
               u == t[L]
               v == rest[L]
    <2>2. e \in Int /\ e <= Gd!Delta(1) /\ -e <= Gd!Delta(1)
      BY <1>7 DEF Gd!Bounded
    <2>3. u \in Int /\ v \in Int /\ g \in Int
      BY <1>1, <1>2
    <2>4. u = c + e + Q2 * g
      <3>1. \A q, v1, i1 \in Int : q * (i1 - v1) = q * i1 - q * v1 /\ q * i1 \in Int /\ q * v1 \in Int
        BY Z3
      <3>2. Q2 * g = Q2 * i - Q2 * v /\ Q2 * i \in Int /\ Q2 * v \in Int
        BY <1>2, <2>3, <3>1
      <3> DEFINE a == Q2 * i
                 b == Q2 * v
                 m == Q2 * g
      <3>3. a \in Int /\ b \in Int /\ m = a - b /\ z = c + a /\ e = u + b - z /\ c \in Int /\ z \in Int
        BY <1>2, <1>3, <2>1, <3>2
      <3> HIDE DEF a, b, m, u, v, z, e, g
      <3>4. u = c + e + m
        BY <2>3, <3>3
      <3>5. QED BY <3>4 DEF m
    <2> HIDE DEF e, g, u
    <2>5. u = c + e + Q2 * g /\ e \in Int /\ g \in Int /\ e <= Gd!Delta(1) /\ -e <= Gd!Delta(1)
      BY <2>2, <2>3, <2>4
    <2>6. R2!Close(Q2, Gd!Delta(1), u, c)
      BY <2>5, Zenon DEF R2!Close
    <2>7. QED BY <2>6 DEF u
  <1>9. ASSUME NEW k \in 0..(L - 1)
        PROVE  DigitOf(c, k) \in Int /\ DigitOf(c, k) <= GBase \div 2 /\ -DigitOf(c, k) <= GBase \div 2
    <2>1. L - 1 - k \in 0..(L - 1) /\ L - 1 - (L - 1 - k) = k
      BY <1>2
    <2>2. DigitOf(c, k) = Gd!BalancedDigit(1, rest[L - 1 - k]) /\ rest[L - 1 - k] \in Int
      BY <1>1, <1>2, <2>1
    <2>3. QED BY <2>2, GadgetParams, Gd!DigitBounds, ZenonT(60)
  <1>10. QED BY <1>7, <1>8, <1>9

\* The sum over the levels is the sum of the lemmas.
LEMMA SumLevelsIs ==
  ASSUME NEW F
  PROVE  SumLevels(F) = R2!Sums(F, 0, L, N1)
  <1> DEFINE Solves(h) == h = [k \in 0..L |-> IF k = 0 THEN AtQ2!Zero(N1) ELSE AtQ2!Add(h[k - 1], F[k - 1])]
             Partial(h) == h = [k \in 0..L |-> IF k = 0 THEN R2!Zero(N1) ELSE R2!Add(h[k - 1], F[k - 1])]
  <1>1. ASSUME NEW h PROVE Solves(h) <=> Partial(h)
    <2> DEFINE A == [k \in 0..L |-> IF k = 0 THEN AtQ2!Zero(N1) ELSE AtQ2!Add(h[k - 1], F[k - 1])]
               B == [k \in 0..L |-> IF k = 0 THEN R2!Zero(N1) ELSE R2!Add(h[k - 1], F[k - 1])]
    <2>1. A = B
      <3>1. ASSUME NEW k \in 0..L
            PROVE (IF k = 0 THEN AtQ2!Zero(N1) ELSE AtQ2!Add(h[k - 1], F[k - 1]))
                    = (IF k = 0 THEN R2!Zero(N1) ELSE R2!Add(h[k - 1], F[k - 1]))
        BY Same2, Zenon
      <3>2. QED BY <3>1, Zenon
    <2> HIDE DEF A, B
    <2>2. QED BY <2>1, Zenon DEF A, B
  <1>2. (CHOOSE h : Solves(h)) = (CHOOSE h : Partial(h))
    <2> HIDE DEF Solves, Partial
    <2>1. \A h : Solves(h) <=> Partial(h)
      BY <1>1
    <2>2. QED BY <2>1, Zenon
  <1>3. (CHOOSE h : Partial(h))[L] = R2!Sums(F, 0, L, N1)
    BY Zenon DEF R2!Sums
  <1>4. SumLevels(F) = (CHOOSE h : Solves(h))[L]
    BY Zenon DEF SumLevels
  <1> HIDE DEF Solves, Partial
  <1>5. QED BY <1>2, <1>3, <1>4, Zenon

\* The digits of a polynomial at a level, centred.
DigitPoly(f, k) == [x \in 0..(N1 - 1) |-> DigitOf(f[x], k)]

\* A digit of every coefficient: small, and a polynomial at Q2 once lifted.
LEMMA DigitPolyIn ==
  ASSUME NEW f \in R2!Poly(N1), NEW k \in 0..(L - 1)
  PROVE  /\ DigitPoly(f, k) \in CenteredPoly(N1) /\ DigitPoly(f, k) \in [0..(N1 - 1) -> Int]
         /\ Lift(DigitPoly(f, k), Q2) \in R2!Poly(N1)
         /\ [x \in DOMAIN f |-> DigitOf(f[x], k) % Q2] = Lift(DigitPoly(f, k), Q2)
         /\ \A x \in 0..(N1 - 1) : /\ DigitPoly(f, k)[x] = DigitOf(f[x], k)
                                   /\ DigitPoly(f, k)[x] <= GBase \div 2 /\ -DigitPoly(f, k)[x] <= GBase \div 2
  <1>1. DOMAIN f = 0..(N1 - 1) /\ \A x \in 0..(N1 - 1) : f[x] \in 0..(Q2 - 1)
    BY DEF R2!Poly, R2!Coeff
  <1>2. \A x \in 0..(N1 - 1) : /\ DigitOf(f[x], k) \in Int
                               /\ DigitOf(f[x], k) <= GBase \div 2 /\ -DigitOf(f[x], k) <= GBase \div 2
    <2>1. ASSUME NEW c \in 0..(Q2 - 1)
          PROVE  DigitOf(c, k) \in Int /\ DigitOf(c, k) <= GBase \div 2 /\ -DigitOf(c, k) <= GBase \div 2
      <3>1. PICK rest, t : Decomposed(c, rest, t)
        BY DigitRuns
      <3>2. QED BY <3>1, DigitSum
    <2>2. QED BY <1>1, <2>1
  <1>3. DigitPoly(f, k) \in [0..(N1 - 1) -> Int] /\ \A x \in 0..(N1 - 1) : DigitPoly(f, k)[x] = DigitOf(f[x], k)
    BY <1>2, Zenon DEF DigitPoly
  <1>4. [x \in DOMAIN f |-> DigitOf(f[x], k) % Q2] = Lift(DigitPoly(f, k), Q2)
    <2>1. DOMAIN DigitPoly(f, k) = DOMAIN f
      BY <1>1 DEF DigitPoly
    <2>2. \A x \in DOMAIN f : DigitPoly(f, k)[x] = DigitOf(f[x], k)
      BY <1>1, <1>3
    <2>3. QED BY <2>1, <2>2, Zenon DEF Lift
  <1>5. Lift(DigitPoly(f, k), Q2) \in R2!Poly(N1)
    BY <1>3, Lift2 DEF CenteredPoly
  <1>6. \A x \in 0..(N1 - 1) : DigitPoly(f, k)[x] <= GBase \div 2 /\ -DigitPoly(f, k)[x] <= GBase \div 2
    BY <1>2, <1>3
  <1>7. QED BY <1>3, <1>4, <1>5, <1>6 DEF CenteredPoly

CtsAt2 == [mask : R2!Poly(N1), body : R2!Poly(N1)]

\* The terms of a gadget product.
MaskTerms(samples, f) == [k \in 0..(L - 1) |-> R2!Mul(Lift(DigitPoly(f, k), Q2), samples[k].mask, N1)]

BodyTerms(samples, f) == [k \in 0..(L - 1) |-> R2!Mul(Lift(DigitPoly(f, k), Q2), samples[k].body, N1)]

PhaseTerms(samples, f) == [k \in 0..(L - 1) |-> R2!Mul(Lift(DigitPoly(f, k), Q2), PhaseQ2(samples[k]), N1)]

\* The phase of a ciphertext at Q2 is a polynomial at Q2.
LEMMA PhaseIn ==
  ASSUME s1 \in CenteredPoly(N1), NEW c \in CtsAt2
  PROVE  /\ PhaseQ2(c) = R2!Sub(c.body, R2!Mul(c.mask, Lift(s1, Q2), N1))
         /\ c.body \in R2!Poly(N1) /\ c.mask \in R2!Poly(N1) /\ Lift(s1, Q2) \in R2!Poly(N1)
         /\ R2!Mul(c.mask, Lift(s1, Q2), N1) \in R2!Poly(N1)
         /\ PhaseQ2(c) \in R2!Poly(N1)
  <1>1. PhaseQ2(c) = R2!Sub(c.body, R2!Mul(c.mask, Lift(s1, Q2), N1))
    BY Same2, Zenon DEF PhaseQ2
  <1>2. c.body \in R2!Poly(N1) /\ c.mask \in R2!Poly(N1) /\ Lift(s1, Q2) \in R2!Poly(N1)
    BY Lift2 DEF CtsAt2
  <1>3. Q2 \in Nat \ {0} /\ N1 \in Nat \ {0}
    BY Constants
  <1>4. R2!Mul(c.mask, Lift(s1, Q2), N1) \in R2!Poly(N1)
    BY <1>2, <1>3, R2!MulClosed
  <1>5. QED BY <1>1, <1>2, <1>3, <1>4, R2!SubClosed

\* A gadget product is two sums over the levels.
LEMMA GadgetProductIs ==
  ASSUME NEW samples \in [0..(L - 1) -> CtsAt2], NEW f \in R2!Poly(N1)
  PROVE  /\ GadgetProduct(samples, f) = Ct(R2!Sums(MaskTerms(samples, f), 0, L, N1), R2!Sums(BodyTerms(samples, f), 0, L, N1))
         /\ MaskTerms(samples, f) \in R2!Terms(L, N1) /\ BodyTerms(samples, f) \in R2!Terms(L, N1)
         /\ GadgetProduct(samples, f) \in CtsAt2
  <1>1. Q2 \in Nat \ {0} /\ N1 \in Nat \ {0} /\ L \in Nat \ {0} /\ 0 \in Nat /\ 0 <= L
    BY Constants, GadgetParams
  <1>2. \A k \in 0..(L - 1) : samples[k].mask \in R2!Poly(N1) /\ samples[k].body \in R2!Poly(N1)
    BY DEF CtsAt2
  <1>3. \A k \in 0..(L - 1) : Lift(DigitPoly(f, k), Q2) \in R2!Poly(N1)
    BY DigitPolyIn
  <1>4. MaskTerms(samples, f) \in R2!Terms(L, N1) /\ BodyTerms(samples, f) \in R2!Terms(L, N1)
    <2>1. \A k \in 0..(L - 1) : /\ R2!Mul(Lift(DigitPoly(f, k), Q2), samples[k].mask, N1) \in R2!Poly(N1)
                                /\ R2!Mul(Lift(DigitPoly(f, k), Q2), samples[k].body, N1) \in R2!Poly(N1)
      BY <1>1, <1>2, <1>3, R2!MulClosed
    <2>2. QED BY <2>1, Zenon DEF MaskTerms, BodyTerms, R2!Terms
  <1>5. R2!Sums(MaskTerms(samples, f), 0, L, N1) \in R2!Poly(N1) /\ R2!Sums(BodyTerms(samples, f), 0, L, N1) \in R2!Poly(N1)
    BY <1>1, <1>4, R2!SumsClosed
  <1>6. GadgetProduct(samples, f) = Ct(R2!Sums(MaskTerms(samples, f), 0, L, N1), R2!Sums(BodyTerms(samples, f), 0, L, N1))
    <2> DEFINE digits == [k \in 0..(L - 1) |-> [x \in DOMAIN f |-> DigitOf(f[x], k) % Q2]]
    <2>1. \A k \in 0..(L - 1) : digits[k] = Lift(DigitPoly(f, k), Q2)
      BY DigitPolyIn
    <2>2. GadgetProduct(samples, f)
            = Ct(SumLevels([k \in 0..(L - 1) |-> AtQ2!Mul(digits[k], samples[k].mask, N1)]),
                 SumLevels([k \in 0..(L - 1) |-> AtQ2!Mul(digits[k], samples[k].body, N1)]))
      BY Zenon DEF GadgetProduct
    <2> HIDE DEF digits
    <2>3. /\ [k \in 0..(L - 1) |-> AtQ2!Mul(digits[k], samples[k].mask, N1)] = MaskTerms(samples, f)
          /\ [k \in 0..(L - 1) |-> AtQ2!Mul(digits[k], samples[k].body, N1)] = BodyTerms(samples, f)
      <3>1. \A k \in 0..(L - 1) : /\ AtQ2!Mul(digits[k], samples[k].mask, N1) = R2!Mul(Lift(DigitPoly(f, k), Q2), samples[k].mask, N1)
                                  /\ AtQ2!Mul(digits[k], samples[k].body, N1) = R2!Mul(Lift(DigitPoly(f, k), Q2), samples[k].body, N1)
        BY <2>1, Same2, Zenon
      <3>2. QED BY <3>1, Zenon DEF MaskTerms, BodyTerms
    <2>4. QED BY <2>2, <2>3, SumLevelsIs, Zenon
  <1>7. QED BY <1>4, <1>5, <1>6 DEF Ct, CtsAt2

\* The phase of a gadget product: the digits times the phases of the samples.
LEMMA GadgetPhase ==
  ASSUME s1 \in CenteredPoly(N1), NEW samples \in [0..(L - 1) -> CtsAt2], NEW f \in R2!Poly(N1)
  PROVE  /\ PhaseTerms(samples, f) \in R2!Terms(L, N1)
         /\ PhaseQ2(GadgetProduct(samples, f)) = R2!Sums(PhaseTerms(samples, f), 0, L, N1)
  <1> DEFINE A == MaskTerms(samples, f)
             B == BodyTerms(samples, f)
             V == PhaseTerms(samples, f)
             s == Lift(s1, Q2)
             M == [g \in R2!Poly(N1) |-> R2!Neg(R2!Mul(g, s, N1))]
             U == [k \in 0..(L - 1) |-> M[A[k]]]
  <1>1. Q2 \in Nat \ {0} /\ N1 \in Nat \ {0} /\ L \in Nat /\ 0 \in Nat /\ 0 <= L /\ s \in R2!Poly(N1)
    BY Constants, GadgetParams, Lift2
  <1>2. A \in R2!Terms(L, N1) /\ B \in R2!Terms(L, N1)
    BY GadgetProductIs
  <1>3. \A k \in 0..(L - 1) : A[k] \in R2!Poly(N1) /\ B[k] \in R2!Poly(N1)
    BY <1>2 DEF R2!Terms
  <1>4. \A k \in 0..(L - 1) : /\ samples[k].mask \in R2!Poly(N1) /\ samples[k].body \in R2!Poly(N1)
                              /\ Lift(DigitPoly(f, k), Q2) \in R2!Poly(N1) /\ samples[k] \in CtsAt2
    BY DigitPolyIn DEF CtsAt2
  <1>5. \A g \in R2!Poly(N1) : R2!Mul(g, s, N1) \in R2!Poly(N1) /\ R2!Neg(g) \in R2!Poly(N1)
    <2> HIDE DEF s
    <2>1. QED BY <1>1, R2!MulClosed, R2!PolySums
  <1>6. M \in [R2!Poly(N1) -> R2!Poly(N1)] /\ \A g \in R2!Poly(N1) : M[g] = R2!Neg(R2!Mul(g, s, N1))
    <2> HIDE DEF s
    <2>1. \A g \in R2!Poly(N1) : R2!Neg(R2!Mul(g, s, N1)) \in R2!Poly(N1)
      BY <1>5
    <2>2. QED BY <2>1, Zenon
  <1>7. \A f1, g1 \in R2!Poly(N1) : R2!Neg(R2!Add(f1, g1)) = R2!Add(R2!Neg(f1), R2!Neg(g1))
    <2>1. ASSUME NEW f1 \in R2!Poly(N1), NEW g1 \in R2!Poly(N1)
          PROVE  R2!Neg(R2!Add(f1, g1)) = R2!Add(R2!Neg(f1), R2!Neg(g1))
      <3> DEFINE u == R2!CNeg(R2!COne)
      <3>1. u \in R2!Coeff
        BY <1>1, R2!CoeffClosed
      <3>2. R2!Add(f1, g1) \in R2!Poly(N1)
        BY <1>1, R2!AddClosed
      <3>3. /\ R2!Neg(f1) = R2!Scale(u, f1) /\ R2!Neg(g1) = R2!Scale(u, g1)
            /\ R2!Neg(R2!Add(f1, g1)) = R2!Scale(u, R2!Add(f1, g1))
        BY <1>1, <3>2, R2!PolyCancel
      <3>4. R2!Scale(u, R2!Add(f1, g1)) = R2!Add(R2!Scale(u, f1), R2!Scale(u, g1))
        <4> HIDE DEF u
        <4>1. QED BY <1>1, <3>1, R2!PolyScales
      <3> HIDE DEF u
      <3>5. QED BY <3>3, <3>4
    <2>2. QED BY <2>1
  <1>8. R2!Neg(R2!Zero(N1)) = R2!Zero(N1) /\ R2!Zero(N1) \in R2!Poly(N1)
    <2>1. R2!Zero(N1) \in R2!Poly(N1)
      BY <1>1, <1>5, R2!SubZero
    <2>2. R2!Add(R2!Zero(N1), R2!Neg(R2!Zero(N1))) = R2!Zero(N1)
      BY <1>1, <2>1, R2!PolySums
    <2>3. R2!Add(R2!Zero(N1), R2!Neg(R2!Zero(N1))) = R2!Neg(R2!Zero(N1))
      BY <1>1, <1>5, <2>1, R2!PolySums
    <2>4. QED BY <2>1, <2>2, <2>3, Zenon
  <1>9. R2!Sums(U, 0, L, N1) = M[R2!Sums(A, 0, L, N1)]
    <2>1. M[R2!Zero(N1)] = R2!Zero(N1)
      <3> HIDE DEF s, M
      <3>1. R2!Mul(R2!Zero(N1), s, N1) = R2!Zero(N1)
        BY <1>1, R2!MulZero
      <3>2. QED BY <1>6, <1>8, <3>1
    <2>2. \A f1, g1 \in R2!Poly(N1) : M[R2!Add(f1, g1)] = R2!Add(M[f1], M[g1])
      <3> HIDE DEF s, M
      <3>1. \A f1, g1 \in R2!Poly(N1) : R2!Add(f1, g1) \in R2!Poly(N1) /\ R2!Mul(R2!Add(f1, g1), s, N1) = R2!Add(R2!Mul(f1, s, N1), R2!Mul(g1, s, N1))
        BY <1>1, R2!AddClosed, R2!MulSumLeft
      <3>2. QED BY <1>5, <1>6, <1>7, <3>1
    <2>3. \A k \in 0..(L - 1) : U[k] = M[A[k]]
      BY Zenon
    <2> HIDE DEF M, U, A
    <2>4. QED BY <1>1, <1>2, <1>6, <2>1, <2>2, <2>3, R2!SumsMapped
  <1>10. U \in R2!Terms(L, N1) /\ \A k \in 0..(L - 1) : U[k] = R2!Neg(R2!Mul(A[k], s, N1))
    <2> HIDE DEF M, A, s
    <2>1. \A k \in 0..(L - 1) : M[A[k]] \in R2!Poly(N1) /\ M[A[k]] = R2!Neg(R2!Mul(A[k], s, N1))
      BY <1>3, <1>6
    <2>2. QED BY <2>1, Zenon DEF R2!Terms
  <1>11. \A k \in 0..(L - 1) : V[k] = R2!Add(B[k], U[k]) /\ V[k] \in R2!Poly(N1)
    <2>1. ASSUME NEW k \in 0..(L - 1) PROVE V[k] = R2!Add(B[k], U[k]) /\ V[k] \in R2!Poly(N1)
      <3> DEFINE d == Lift(DigitPoly(f, k), Q2)
                 a == samples[k].mask
                 b == samples[k].body
      <3>1. d \in R2!Poly(N1) /\ a \in R2!Poly(N1) /\ b \in R2!Poly(N1) /\ R2!Mul(a, s, N1) \in R2!Poly(N1)
        BY <1>4, <1>5
      <3>2. A[k] = R2!Mul(d, a, N1) /\ B[k] = R2!Mul(d, b, N1) /\ V[k] = R2!Mul(d, PhaseQ2(samples[k]), N1)
        BY Zenon DEF MaskTerms, BodyTerms, PhaseTerms
      <3>3. PhaseQ2(samples[k]) = R2!Sub(b, R2!Mul(a, s, N1))
        BY <1>4, PhaseIn
      <3> HIDE DEF d, a, b, s, A, B, V, U
      <3>4. R2!Mul(d, R2!Sub(b, R2!Mul(a, s, N1)), N1) = R2!Sub(R2!Mul(d, b, N1), R2!Mul(d, R2!Mul(a, s, N1), N1))
        BY <1>1, <3>1, R2!MulSub
      <3>5. R2!Mul(d, R2!Mul(a, s, N1), N1) = R2!Mul(R2!Mul(d, a, N1), s, N1)
        BY <1>1, <3>1, R2!MulAssoc
      <3>6. R2!Sub(B[k], R2!Mul(A[k], s, N1)) = R2!Add(B[k], R2!Neg(R2!Mul(A[k], s, N1)))
        <4>1. R2!Mul(A[k], s, N1) \in R2!Poly(N1)
          BY <1>3, <1>5
        <4>2. QED BY <1>1, <1>3, <4>1, R2!SubIs
      <3>7. V[k] = R2!Add(B[k], U[k])
        BY <1>10, <3>2, <3>3, <3>4, <3>5, <3>6
      <3>8. U[k] \in R2!Poly(N1)
        BY <1>10 DEF R2!Terms
      <3>9. QED BY <1>1, <1>3, <3>7, <3>8, R2!AddClosed
    <2>2. QED BY <2>1
  <1>12. V \in R2!Terms(L, N1)
    <2>1. V = [k \in 0..(L - 1) |-> V[k]]
      BY DEF PhaseTerms
    <2> HIDE DEF V, A, B, U
    <2>2. QED BY <1>11, <2>1, Zenon DEF R2!Terms
  <1>13. R2!Sums(V, 0, L, N1) = R2!Add(R2!Sums(B, 0, L, N1), R2!Sums(U, 0, L, N1))
    <2> HIDE DEF V, A, B, U
    <2>1. QED BY <1>1, <1>2, <1>10, <1>11, R2!SumsAdd
  <1>14. PhaseQ2(GadgetProduct(samples, f)) = R2!Sub(R2!Sums(B, 0, L, N1), R2!Mul(R2!Sums(A, 0, L, N1), s, N1))
    <2>1. GadgetProduct(samples, f) = Ct(R2!Sums(A, 0, L, N1), R2!Sums(B, 0, L, N1)) /\ GadgetProduct(samples, f) \in CtsAt2
      BY GadgetProductIs
    <2>2. GadgetProduct(samples, f).mask = R2!Sums(A, 0, L, N1) /\ GadgetProduct(samples, f).body = R2!Sums(B, 0, L, N1)
      BY <2>1 DEF Ct
    <2> HIDE DEF A, B
    <2>3. QED BY <2>1, <2>2, PhaseIn
  <1>15. R2!Sums(A, 0, L, N1) \in R2!Poly(N1) /\ R2!Sums(B, 0, L, N1) \in R2!Poly(N1)
    BY <1>1, <1>2, R2!SumsClosed
  <1> HIDE DEF A, B, U, V, M, s
  <1>16. R2!Sub(R2!Sums(B, 0, L, N1), R2!Mul(R2!Sums(A, 0, L, N1), s, N1)) = R2!Sums(V, 0, L, N1)
    <2>1. R2!Mul(R2!Sums(A, 0, L, N1), s, N1) \in R2!Poly(N1) /\ M[R2!Sums(A, 0, L, N1)] = R2!Neg(R2!Mul(R2!Sums(A, 0, L, N1), s, N1))
      BY <1>5, <1>6, <1>15
    <2>2. R2!Sub(R2!Sums(B, 0, L, N1), R2!Mul(R2!Sums(A, 0, L, N1), s, N1))
            = R2!Add(R2!Sums(B, 0, L, N1), R2!Neg(R2!Mul(R2!Sums(A, 0, L, N1), s, N1)))
      BY <1>1, <1>15, <2>1, R2!SubIs
    <2>3. QED BY <1>9, <1>13, <2>1, <2>2
  <1>17. QED BY <1>12, <1>14, <1>16 DEF V

R1 == INSTANCE RingProofs WITH P <- Q1

\* Same3, at Q1.
LEMMA Same1 ==
  /\ \A n : AtQ1!Poly(n) = R1!Poly(n)
  /\ \A f : AtQ1!Neg(f) = R1!Neg(f)
  /\ \A a, f : AtQ1!Scale(a, f) = R1!Scale(a, f)
  /\ \A f, g : AtQ1!Add(f, g) = R1!Add(f, g)
  /\ \A f, g, n : AtQ1!Mul(f, g, n) = R1!Mul(f, g, n)
  <1>1. \A n : AtQ1!Poly(n) = R1!Poly(n)
    BY DEF AtQ1!Poly, R1!Poly, AtQ1!Coeff, R1!Coeff
  <1>2. \A f : AtQ1!Neg(f) = R1!Neg(f)
    BY DEF AtQ1!Neg, R1!Neg
  <1>3. \A a, f : AtQ1!Scale(a, f) = R1!Scale(a, f)
    BY Zenon DEF AtQ1!Scale, R1!Scale
  <1>4. \A f, g : AtQ1!Add(f, g) = R1!Add(f, g)
    BY DEF AtQ1!Add, R1!Add
  <1>5. \A f, g, n : AtQ1!Mul(f, g, n) = R1!Mul(f, g, n)
    BY Zenon DEF AtQ1!Mul, R1!Mul
  <1>6. QED BY <1>1, <1>2, <1>3, <1>4, <1>5, Zenon

\* A lifted polynomial is one of the ring at Q1.
LEMMA Lift1 ==
  ASSUME NEW n, NEW f \in CenteredPoly(n)
  PROVE  Lift(f, Q1) \in R1!Poly(n)
  BY LiftIn, GadgetParams DEF R1!Poly, R1!Coeff

\* Ciphertexts are added and subtracted as their phases are.
LEMMA AddCtIs ==
  ASSUME s1 \in CenteredPoly(N1), NEW a \in CtsAt2, NEW b \in CtsAt2
  PROVE  /\ AddCt(a, b) \in CtsAt2 /\ SubCt(a, b) \in CtsAt2
         /\ PhaseQ2(AddCt(a, b)) = R2!Add(PhaseQ2(a), PhaseQ2(b))
         /\ PhaseQ2(SubCt(a, b)) = R2!Sub(PhaseQ2(a), PhaseQ2(b))
         /\ SubCt(a, b).mask = R2!Sub(a.mask, b.mask) /\ SubCt(a, b).body = R2!Sub(a.body, b.body)
         /\ PhaseQ2(a) \in R2!Poly(N1) /\ PhaseQ2(b) \in R2!Poly(N1)
  <1> DEFINE s == Lift(s1, Q2)
  <1>1. Q2 \in Nat \ {0} /\ N1 \in Nat \ {0} /\ s \in R2!Poly(N1)
    BY Constants, Lift2
  <1>2. ASSUME NEW c \in CtsAt2, NEW d \in CtsAt2
        PROVE  /\ AddCt(c, d) \in CtsAt2
               /\ AddCt(c, d).mask = R2!Add(c.mask, d.mask) /\ AddCt(c, d).body = R2!Add(c.body, d.body)
               /\ PhaseQ2(AddCt(c, d)) = R2!Add(PhaseQ2(c), PhaseQ2(d))
    <2> DEFINE cm == c.mask
               cb == c.body
               dm == d.mask
               db == d.body
    <2>1. cm \in R2!Poly(N1) /\ cb \in R2!Poly(N1) /\ dm \in R2!Poly(N1) /\ db \in R2!Poly(N1)
      BY PhaseIn
    <2>2. AddCt(c, d) = Ct(R2!Add(cm, dm), R2!Add(cb, db))
      BY Same2, Zenon DEF AddCt
    <2>3. R2!Add(cm, dm) \in R2!Poly(N1) /\ R2!Add(cb, db) \in R2!Poly(N1)
      <3> HIDE DEF cm, cb, dm, db
      <3>1. QED BY <1>1, <2>1, R2!AddClosed
    <2>4. /\ AddCt(c, d) \in CtsAt2
          /\ AddCt(c, d).mask = R2!Add(cm, dm) /\ AddCt(c, d).body = R2!Add(cb, db)
      <3> HIDE DEF cm, cb, dm, db
      <3>1. QED BY <2>2, <2>3 DEF Ct, CtsAt2
    <2>5. PhaseQ2(AddCt(c, d)) = R2!Sub(R2!Add(cb, db), R2!Mul(R2!Add(cm, dm), s, N1))
      <3> HIDE DEF cm, cb, dm, db
      <3>1. QED BY <2>4, PhaseIn
    <2>6. PhaseQ2(c) = R2!Sub(cb, R2!Mul(cm, s, N1)) /\ PhaseQ2(d) = R2!Sub(db, R2!Mul(dm, s, N1))
      BY PhaseIn
    <2> HIDE DEF cm, cb, dm, db, s
    <2>7. R2!Sub(R2!Add(cb, db), R2!Mul(R2!Add(cm, dm), s, N1))
            = R2!Add(R2!Sub(cb, R2!Mul(cm, s, N1)), R2!Sub(db, R2!Mul(dm, s, N1)))
      <3>1. /\ R2!Mul(R2!Add(cm, dm), s, N1) = R2!Add(R2!Mul(cm, s, N1), R2!Mul(dm, s, N1))
            /\ R2!Mul(cm, s, N1) \in R2!Poly(N1) /\ R2!Mul(dm, s, N1) \in R2!Poly(N1)
        BY <1>1, <2>1, R2!MulSumLeft, R2!MulClosed
      <3>2. QED BY <1>1, <2>1, <3>1, R2!SubAdd
    <2>8. QED BY <2>4, <2>5, <2>6, <2>7 DEF cm, cb, dm, db
  <1>3. PhaseQ2(a) \in R2!Poly(N1) /\ PhaseQ2(b) \in R2!Poly(N1)
    BY PhaseIn
  <1>4. /\ a.mask \in R2!Poly(N1) /\ a.body \in R2!Poly(N1) /\ b.mask \in R2!Poly(N1) /\ b.body \in R2!Poly(N1)
    BY PhaseIn
  <1>5. /\ SubCt(a, b) \in CtsAt2
        /\ SubCt(a, b).mask = R2!Sub(a.mask, b.mask) /\ SubCt(a, b).body = R2!Sub(a.body, b.body)
    <2>1. SubCt(a, b) = Ct(R2!Sub(a.mask, b.mask), R2!Sub(a.body, b.body))
      BY Same2, Zenon DEF SubCt
    <2>2. R2!Sub(a.mask, b.mask) \in R2!Poly(N1) /\ R2!Sub(a.body, b.body) \in R2!Poly(N1)
      BY <1>1, <1>4, R2!SubClosed
    <2>3. QED BY <2>1, <2>2 DEF Ct, CtsAt2
  <1>6. PhaseQ2(SubCt(a, b)) = R2!Sub(PhaseQ2(a), PhaseQ2(b))
    <2>1. AddCt(SubCt(a, b), b) = a
      <3>1. /\ R2!Add(R2!Sub(a.mask, b.mask), b.mask) = a.mask
            /\ R2!Add(R2!Sub(a.body, b.body), b.body) = a.body
        BY <1>1, <1>4, R2!PolyCancel
      <3>2. /\ AddCt(SubCt(a, b), b).mask = a.mask /\ AddCt(SubCt(a, b), b).body = a.body
            /\ AddCt(SubCt(a, b), b) \in CtsAt2
        BY <1>2, <1>5, <3>1
      <3>3. QED BY <3>2 DEF CtsAt2
    <2>2. PhaseQ2(a) = R2!Add(PhaseQ2(SubCt(a, b)), PhaseQ2(b))
      BY <1>2, <1>5, <2>1
    <2>3. PhaseQ2(SubCt(a, b)) \in R2!Poly(N1)
      BY <1>5, PhaseIn
    <2>4. QED BY <1>1, <1>3, <2>2, <2>3, R2!SubSolves
  <1>7. AddCt(a, b) \in CtsAt2 /\ PhaseQ2(AddCt(a, b)) = R2!Add(PhaseQ2(a), PhaseQ2(b))
    BY <1>2
  <1>8. QED BY <1>3, <1>5, <1>6, <1>7

KeySamples == [Halves -> [0..(L - 1) -> CtsAt2]]

\* The gate, and the phase of what it yields.
LEMMA CMuxIs ==
  ASSUME s1 \in CenteredPoly(N1), NEW key \in KeySamples, NEW ct0 \in CtsAt2, NEW ct1 \in CtsAt2
  PROVE  LET d == SubCt(ct1, ct0)
         IN  /\ CMux(key, ct0, ct1) \in CtsAt2
             /\ PhaseQ2(CMux(key, ct0, ct1))
                  = R2!Add(PhaseQ2(ct0), R2!Add(R2!Sums(PhaseTerms(key[1], d.mask), 0, L, N1),
                                               R2!Sums(PhaseTerms(key[2], d.body), 0, L, N1)))
  <1> DEFINE d == SubCt(ct1, ct0)
             g1 == GadgetProduct(key[1], d.mask)
             g2 == GadgetProduct(key[2], d.body)
  <1>1. key[1] \in [0..(L - 1) -> CtsAt2] /\ key[2] \in [0..(L - 1) -> CtsAt2]
    BY DEF KeySamples, Halves
  <1>2. d \in CtsAt2
    BY AddCtIs
  <1>3. d.mask \in R2!Poly(N1) /\ d.body \in R2!Poly(N1)
    <2> HIDE DEF d
    <2>1. QED BY <1>2, PhaseIn
  <1> HIDE DEF d
  <1>4. g1 \in CtsAt2 /\ g2 \in CtsAt2
    BY <1>1, <1>3, GadgetProductIs
  <1>5. /\ PhaseQ2(g1) = R2!Sums(PhaseTerms(key[1], d.mask), 0, L, N1)
        /\ PhaseQ2(g2) = R2!Sums(PhaseTerms(key[2], d.body), 0, L, N1)
    BY <1>1, <1>3, GadgetPhase
  <1>6. CMux(key, ct0, ct1) = AddCt(ct0, AddCt(g1, g2))
    BY Zenon DEF CMux, ExternalProduct, d
  <1> HIDE DEF g1, g2
  <1>7. AddCt(g1, g2) \in CtsAt2 /\ PhaseQ2(AddCt(g1, g2)) = R2!Add(PhaseQ2(g1), PhaseQ2(g2))
    BY <1>4, AddCtIs
  <1>8. /\ AddCt(ct0, AddCt(g1, g2)) \in CtsAt2
        /\ PhaseQ2(AddCt(ct0, AddCt(g1, g2))) = R2!Add(PhaseQ2(ct0), PhaseQ2(AddCt(g1, g2)))
    BY <1>7, AddCtIs
  <1>9. QED BY <1>5, <1>6, <1>7, <1>8 DEF d

\* A bounded integer is close to zero, and an integer to itself.
LEMMA CloseSmall ==
  ASSUME NEW w \in Int, NEW m \in Int, NEW e \in Int, e <= m, -e <= m
  PROVE  R2!Close(w, m, e, 0)
  <1>1. w * 0 = 0
    BY Z3
  <1>2. e = 0 + e + w * 0
    BY <1>1
  <1>3. 0 \in Int
    OBVIOUS
  <1>4. QED BY <1>2, <1>3, Zenon DEF R2!Close

\* Closeness is the same in every instance.
LEMMA SameClose ==
  /\ \A w, m, u, v : R1!Close(w, m, u, v) <=> R2!Close(w, m, u, v)
  /\ \A w, m, u, v : R3!Close(w, m, u, v) <=> R2!Close(w, m, u, v)
  /\ \A p, q, f, g, n, x : R1!Steps(p, q, f, g, n, x) <=> R2!Steps(p, q, f, g, n, x)
  /\ \A p, q, f, g, n, x : R3!Steps(p, q, f, g, n, x) <=> R2!Steps(p, q, f, g, n, x)
  /\ \A h, f, n : R1!Weights(h, f, n) <=> R2!Weights(h, f, n)
  /\ \A h, f, n : R3!Weights(h, f, n) <=> R2!Weights(h, f, n)
  <1>1. \A w, m, u, v : /\ R1!Close(w, m, u, v) <=> R2!Close(w, m, u, v)
                        /\ R3!Close(w, m, u, v) <=> R2!Close(w, m, u, v)
    BY Zenon DEF R1!Close, R2!Close, R3!Close
  <1>2. \A g, n, x, i : R1!Met(g, n, x, i) = R2!Met(g, n, x, i) /\ R3!Met(g, n, x, i) = R2!Met(g, n, x, i)
    BY Zenon DEF R1!Met, R2!Met, R3!Met
  <1>3. \A p, q, f, g, n, x : R1!Steps(p, q, f, g, n, x) <=> R2!Steps(p, q, f, g, n, x)
    BY <1>1, <1>2 DEF R1!Steps, R2!Steps
  <1>4. \A p, q, f, g, n, x : R3!Steps(p, q, f, g, n, x) <=> R2!Steps(p, q, f, g, n, x)
    BY <1>1, <1>2 DEF R3!Steps, R2!Steps
  <1>5. \A h, f, n : R1!Weights(h, f, n) <=> R2!Weights(h, f, n)
    BY Zenon DEF R1!Weights, R2!Weights
  <1>6. \A h, f, n : R3!Weights(h, f, n) <=> R2!Weights(h, f, n)
    BY Zenon DEF R3!Weights, R2!Weights
  <1>7. QED BY <1>1, <1>3, <1>4, <1>5, <1>6, Zenon

\* The plaintext of a sample, lifted.
KeyMessage(b, h) ==
  IF h = 2 THEN [x \in 0..(N1 - 1) |-> IF x = 0 THEN b ELSE 0]
  ELSE R1!Neg(R1!Scale(b, Lift(s1, Q1)))

\* What EncryptBit makes of a bit.
Encrypted(b, masks, errors) ==
  [h \in Halves |-> [i \in 0..(L - 1) |->
     Ct(masks[h][i],
        R1!Add(R1!Add(R1!Mul(masks[h][i], Lift(s1, Q1), N1), Lift(errors[h][i], Q1)),
               R1!Scale(GadgetEntry(Q1, i), KeyMessage(b, h))))]]

\* EncryptBit, written with Encrypted.
LEMMA EncryptBitIs ==
  ASSUME EncryptBit
  PROVE  /\ pc = "encrypt" /\ pc' = "switch_key"
         /\ \E b \in 0..1, masks \in KeyMasks, errors \in KeyErrors : bit' = b /\ rgsw' = Encrypted(b, masks, errors)
         /\ UNCHANGED <<s1, s2, message, noise, fresh, ct, acc, j, switchNoise, answer, recovered, switched, inputs>>
  <1>1. PICK b \in 0..1, masks \in KeyMasks, errors \in KeyErrors :
          /\ bit' = b
          /\ rgsw' = [h \in Halves |-> [i \in 0..(L - 1) |->
               LET a == masks[h][i]
                   m == IF h = 2 THEN [x \in 0..(N1 - 1) |-> IF x = 0 THEN b ELSE 0]
                        ELSE AtQ1!Neg(AtQ1!Scale(b, Lift(s1, Q1)))
               IN  Ct(a, AtQ1!Add(AtQ1!Add(AtQ1!Mul(a, Lift(s1, Q1), N1), Lift(errors[h][i], Q1)),
                                  AtQ1!Scale(GadgetEntry(Q1, i), m)))]]
    BY Zenon DEF EncryptBit
  <1>2. rgsw' = Encrypted(b, masks, errors)
    <2> DEFINE S(h, i) == LET a == masks[h][i]
                              m == IF h = 2 THEN [x \in 0..(N1 - 1) |-> IF x = 0 THEN b ELSE 0]
                                   ELSE AtQ1!Neg(AtQ1!Scale(b, Lift(s1, Q1)))
                          IN  Ct(a, AtQ1!Add(AtQ1!Add(AtQ1!Mul(a, Lift(s1, Q1), N1), Lift(errors[h][i], Q1)),
                                             AtQ1!Scale(GadgetEntry(Q1, i), m)))
               R(h, i) == Ct(masks[h][i],
                             R1!Add(R1!Add(R1!Mul(masks[h][i], Lift(s1, Q1), N1), Lift(errors[h][i], Q1)),
                                    R1!Scale(GadgetEntry(Q1, i), KeyMessage(b, h))))
    <2>1. \A h, i : S(h, i) = R(h, i)
      BY Same1, Zenon DEF KeyMessage
    <2>2. rgsw' = [h \in Halves |-> [i \in 0..(L - 1) |-> S(h, i)]]
      BY <1>1
    <2>3. Encrypted(b, masks, errors) = [h \in Halves |-> [i \in 0..(L - 1) |-> R(h, i)]]
      BY Zenon DEF Encrypted
    <2> HIDE DEF S, R
    <2>4. QED BY <2>1, <2>2, <2>3, Zenon
  <1>3. QED BY <1>1, <1>2, Zenon DEF EncryptBit

\* The lifted plaintext of a sample is the centred one.
LEMMA KeyMessageIs ==
  ASSUME s1 \in CenteredPoly(N1), bit \in 0..1, NEW h \in Halves
  PROVE  /\ KeyMessage(bit, h) \in R1!Poly(N1)
         /\ HalfMessage(h) \in CenteredPoly(N1)
         /\ \A x \in 0..(N1 - 1) : R2!Close(Q1, 0, KeyMessage(bit, h)[x], HalfMessage(h)[x])
  <1>1. Q1 \in Nat \ {0} /\ N1 \in Nat \ {0} /\ 2 <= Q1 /\ Q2 \in Nat \ {0} /\ 0 \in Int
    BY Constants, GadgetParams
  <1>2. CASE h = 2
    <2> DEFINE F == [x \in 0..(N1 - 1) |-> IF x = 0 THEN bit ELSE 0]
    <2>1. KeyMessage(bit, h) = F /\ HalfMessage(h) = F
      BY <1>2, Zenon DEF KeyMessage, HalfMessage
    <2>2. F \in [0..(N1 - 1) -> 0..(Q1 - 1)] /\ F \in [0..(N1 - 1) -> Int]
      BY <1>1
    <2> HIDE DEF F
    <2>3. \A x \in 0..(N1 - 1) : R2!Close(Q1, 0, F[x], F[x])
      <3>1. \A x \in 0..(N1 - 1) : F[x] \in Int
        BY <2>2
      <3>2. \A u \in Int : R1!Close(Q1, 0, u, u)
        BY <1>1, R1!CloseMod
      <3>3. QED BY <3>1, <3>2, SameClose, Zenon
    <2>4. QED BY <2>1, <2>2, <2>3 DEF CenteredPoly, R1!Poly, R1!Coeff
  <1>3. CASE h # 2
    <2> DEFINE f == Lift(s1, Q1)
               g == R1!Scale(bit, f)
               F == R1!Neg(g)
    <2>1. KeyMessage(bit, h) = F /\ HalfMessage(h) = [x \in 0..(N1 - 1) |-> -(bit * s1[x])]
      BY <1>3, Zenon DEF KeyMessage, HalfMessage
    <2>2. bit \in R1!Coeff /\ f \in R1!Poly(N1) /\ \A x \in 0..(N1 - 1) : f[x] = s1[x] % Q1 /\ s1[x] \in Int
      BY <1>1, Lift1, LiftIn DEF R1!Coeff
    <2>3. g \in R1!Poly(N1) /\ \A x \in 0..(N1 - 1) : g[x] = R1!CMul(bit, f[x])
      <3> HIDE DEF f
      <3>1. \A x \in 0..(N1 - 1) : R1!Scale(bit, f)[x] = R1!CMul(bit, f[x])
        BY <1>1, <2>2, R1!ScaleAt
      <3>2. R1!Scale(bit, f) \in R1!Poly(N1)
        BY <1>1, <2>2, R1!PolyScales
      <3>3. QED BY <3>1, <3>2
    <2>4. F \in R1!Poly(N1) /\ \A x \in 0..(N1 - 1) : F[x] = R1!CNeg(g[x])
      <3> HIDE DEF g
      <3>1. QED BY <1>1, <2>3, R1!PolyAt
    <2>5. ASSUME NEW x \in 0..(N1 - 1)
          PROVE  F[x] = (-(bit * s1[x])) % Q1 /\ -(bit * s1[x]) \in Int
      <3> DEFINE u == s1[x]
      <3>1. u \in Int /\ bit \in Int /\ bit * u \in Int
        <4>1. u \in Int /\ bit \in Int
          BY <2>2
        <4>2. \A k \in Int, l \in Int : k * l \in Int
          OBVIOUS
        <4>3. QED BY <4>1, <4>2
      <3>2. f[x] = u % Q1 /\ bit = bit % Q1
        <4>1. bit % Q1 = bit
          BY <1>1, <2>2, R1!CoeffClosed
        <4>2. QED BY <2>2, <4>1
      <3> HIDE DEF u
      <3>3. g[x] = (bit * u) % Q1
        <4>1. R1!CMul(bit % Q1, u % Q1) = (bit * u) % Q1
          BY <1>1, <3>1, R1!IntMod
        <4>2. g[x] = R1!CMul(bit % Q1, u % Q1)
          BY <2>3, <3>2
        <4>3. QED BY <4>1, <4>2
      <3>4. R1!CNeg((bit * u) % Q1) = (-(bit * u)) % Q1
        <4> DEFINE v == bit * u
        <4>1. v \in Int
          BY <3>1
        <4> HIDE DEF v
        <4>2. R1!CNeg(v % Q1) = (-v) % Q1
          BY <1>1, <4>1, R1!IntMod
        <4>3. QED BY <4>2 DEF v
      <3>5. QED BY <2>4, <3>1, <3>3, <3>4 DEF u
    <2>6. HalfMessage(h) \in [0..(N1 - 1) -> Int] /\ \A x \in 0..(N1 - 1) : HalfMessage(h)[x] = -(bit * s1[x])
      BY <2>1, <2>5
    <2>7. \A x \in 0..(N1 - 1) : R2!Close(Q1, 0, F[x], HalfMessage(h)[x])
      <3>1. \A u \in Int : R1!Close(Q1, 0, u % Q1, u)
        BY <1>1, R1!CloseMod
      <3> HIDE DEF F
      <3>2. \A x \in 0..(N1 - 1) : F[x] = HalfMessage(h)[x] % Q1 /\ HalfMessage(h)[x] \in Int
        BY <2>5, <2>6
      <3>3. QED BY <3>1, <3>2, SameClose
    <2>8. QED BY <2>1, <2>4, <2>6, <2>7 DEF CenteredPoly
  <1>4. QED BY <1>2, <1>3

\* A gadget entry is the exact quotient up to half a unit.
LEMMA EntryIs ==
  ASSUME NEW q \in Nat, NEW i \in 0..(L - 1)
  PROVE  /\ GadgetEntry(q, i) \in Nat /\ PowerOfG[i + 1] \in Nat \ {0}
         /\ 2 * (PowerOfG[i + 1] * GadgetEntry(q, i) - q) <= PowerOfG[i + 1]
         /\ -(2 * (PowerOfG[i + 1] * GadgetEntry(q, i) - q)) <= PowerOfG[i + 1]
  <1>1. PowerOfG[i + 1] \in Nat \ {0}
    <2>1. i + 1 \in 0..L
      BY GadgetParams
    <2>2. QED BY <2>1, GadgetParams
  <1>2. GadgetEntry(q, i) = (q + (PowerOfG[i + 1] \div 2)) \div PowerOfG[i + 1]
    <2>1. <<PowerOfG, PowerOfG>>[1] = PowerOfG
      OBVIOUS
    <2>2. QED BY <2>1, Zenon DEF GadgetEntry, OneCoefficient!G
  <1>3. Gd!GadgetAssumption
    BY GadgetParams
  <1> DEFINE p == PowerOfG[i + 1]
             g == GadgetEntry(q, i)
  <1>4. p \in Nat \ {0} /\ g = (q + (p \div 2)) \div p
    BY <1>1, <1>2
  <1> HIDE DEF p, g
  <1>5. g \in Nat /\ 2 * (p * g - q) <= p /\ -(2 * (p * g - q)) <= p
    BY <1>3, <1>4, Gd!Rounded
  <1>6. QED BY <1>4, <1>5 DEF p, g

\* Before the switch a sample encrypts its message times the entry of Q1, up
\* to its error.
LEMMA SampleIs ==
  ASSUME s1 \in CenteredPoly(N1), bit \in 0..1, NEW masks \in KeyMasks, NEW errors \in KeyErrors,
         rgsw = Encrypted(bit, masks, errors), NEW h \in Halves, NEW i \in 0..(L - 1)
  PROVE  /\ rgsw[h][i].mask \in R1!Poly(N1) /\ rgsw[h][i].body \in R1!Poly(N1)
         /\ \A x \in 0..(N1 - 1) :
              LET phase == R1!Sub(rgsw[h][i].body, R1!Mul(rgsw[h][i].mask, Lift(s1, Q1), N1))
              IN  /\ phase[x] \in Int
                  /\ R2!Close(Q1, KeyErrMax, phase[x], GadgetEntry(Q1, i) * HalfMessage(h)[x])
  <1> DEFINE a == masks[h][i]
             e == errors[h][i]
             s == Lift(s1, Q1)
             le == Lift(e, Q1)
             m == KeyMessage(bit, h)
             G == GadgetEntry(Q1, i)
             sm == R1!Scale(G, m)
             b == R1!Add(R1!Add(R1!Mul(a, s, N1), le), sm)
             M == HalfMessage(h)
  <1>1. /\ Q1 \in Nat \ {0} /\ Q2 \in Nat \ {0} /\ N1 \in Nat \ {0} /\ KeyErrMax \in Nat
        /\ G \in Nat /\ Q1 \in Int /\ 0 \in Int
    <2>1. Q1 \in Nat \ {0} /\ Q2 \in Nat \ {0} /\ N1 \in Nat \ {0} /\ KeyErrMax \in Nat
      BY Constants, GadgetParams
    <2>2. QED BY <2>1, EntryIs
  <1>2. /\ a \in R1!Poly(N1)
        /\ e \in CenteredPoly(N1) /\ \A x \in 0..(N1 - 1) : e[x] \in Int /\ e[x] <= KeyErrMax /\ -e[x] <= KeyErrMax
    <2>1. a \in AtQ1!Poly(N1) /\ e \in [0..(N1 - 1) -> (-KeyErrMax)..KeyErrMax]
      <3>1. masks \in [Halves -> [0..(L - 1) -> AtQ1!Poly(N1)]]
            /\ errors \in [Halves -> [0..(L - 1) -> [0..(N1 - 1) -> (-KeyErrMax)..KeyErrMax]]]
        BY KeyReuseAssumption
      <3>2. QED BY <3>1
    <2>2. a \in R1!Poly(N1)
      BY <2>1, Same1, Zenon
    <2> HIDE DEF a, e
    <2>3. \A x \in 0..(N1 - 1) : e[x] \in (-KeyErrMax)..KeyErrMax
      BY <2>1
    <2>4. e \in [0..(N1 - 1) -> Int]
      BY <2>1, <1>1
    <2>5. QED BY <1>1, <2>2, <2>3, <2>4 DEF CenteredPoly
  <1>3. rgsw[h][i] = Ct(a, b)
    BY Zenon DEF Encrypted
  <1>4. /\ s \in R1!Poly(N1) /\ le \in R1!Poly(N1) /\ m \in R1!Poly(N1) /\ M \in CenteredPoly(N1)
        /\ \A x \in 0..(N1 - 1) : le[x] = e[x] % Q1 /\ R2!Close(Q1, 0, m[x], M[x])
    <2> HIDE DEF e
    <2>1. s \in R1!Poly(N1) /\ le \in R1!Poly(N1) /\ \A x \in 0..(N1 - 1) : le[x] = e[x] % Q1
      BY <1>1, <1>2, Lift1, LiftIn
    <2>2. QED BY <2>1, KeyMessageIs
  <1>5. sm \in R1!Poly(N1) /\ \A x \in 0..(N1 - 1) : sm[x] = (G * m[x]) % Q1 /\ m[x] \in Int /\ M[x] \in Int /\ G * m[x] \in Int
    <2> HIDE DEF m, M, G
    <2>1. DOMAIN m = 0..(N1 - 1) /\ \A x \in 0..(N1 - 1) : m[x] \in Nat
      BY <1>1, <1>4 DEF R1!Poly, R1!Coeff
    <2>2. \A x \in 0..(N1 - 1) : G * m[x] \in Nat
      <3>1. \A k, l \in Nat : k * l \in Nat
        BY Z3
      <3>2. QED BY <1>1, <2>1, <3>1
    <2>3. \A x \in 0..(N1 - 1) : (G * m[x]) % Q1 \in 0..(Q1 - 1)
      <3>1. \A k \in Nat : k % Q1 \in 0..(Q1 - 1)
        BY <1>1, R1!DivMod
      <3>2. QED BY <2>2, <3>1
    <2>4. sm = [x \in 0..(N1 - 1) |-> (G * m[x]) % Q1]
      BY <2>1 DEF R1!Scale
    <2>5. \A x \in 0..(N1 - 1) : M[x] \in Int
      BY <1>4 DEF CenteredPoly
    <2>6. QED BY <2>1, <2>2, <2>3, <2>4, <2>5 DEF R1!Poly, R1!Coeff
  <1>6. /\ b \in R1!Poly(N1)
        /\ R1!Sub(b, R1!Mul(a, s, N1)) = R1!Add(le, sm)
    <2> HIDE DEF a, s, le, sm
    <2>1. QED BY <1>1, <1>2, <1>4, <1>5, R1!EncryptPhase
  <1>7. rgsw[h][i].mask = a /\ rgsw[h][i].body = b
    <2> HIDE DEF a, b
    <2>1. QED BY <1>3 DEF Ct
  <1>8. ASSUME NEW x \in 0..(N1 - 1)
        PROVE  R1!Add(le, sm)[x] \in Int /\ R2!Close(Q1, KeyErrMax, R1!Add(le, sm)[x], G * M[x])
    <2> DEFINE u == e[x]
               v == G * m[x]
               w == G * M[x]
    <2>1. le[x] = u % Q1 /\ sm[x] = v % Q1 /\ u \in Int /\ v \in Int /\ w \in Int
      <3>1. M[x] \in Int /\ \A k, l \in Int : k * l \in Int
        BY <1>5
      <3>2. w \in Int
        <4> HIDE DEF M, G
        <4>1. QED BY <1>1, <3>1
      <3>3. QED BY <1>2, <1>4, <1>5, <3>2
    <2>2. R1!Add(le, sm)[x] = (u + v) % Q1
      <3> HIDE DEF u, v, le, sm
      <3>1. R1!Add(le, sm)[x] = R1!CAdd(u % Q1, v % Q1)
        BY <1>1, <1>4, <1>5, <2>1, R1!SumAt
      <3>2. QED BY <1>1, <2>1, <3>1, R1!IntMod
    <2>3. R2!Close(Q1, 0, v, w)
      <3> HIDE DEF m, M, G
      <3>1. m[x] \in Int /\ M[x] \in Int /\ R2!Close(Q1, 0, m[x], M[x]) /\ G \in Int /\ G <= G /\ -G <= G /\ 0 \in Nat
        BY <1>1, <1>4, <1>5
      <3>2. R2!Close(Q1, 0 * G, G * m[x], G * M[x])
        BY <1>1, <3>1, R2!CloseTimes, Zenon
      <3>3. 0 * G = 0
        BY <1>1
      <3>4. QED BY <3>2, <3>3
    <2>4. R2!Close(Q1, KeyErrMax, u, 0)
      <3>1. KeyErrMax \in Int /\ u <= KeyErrMax /\ -u <= KeyErrMax
        BY <1>1, <1>2
      <3> HIDE DEF u
      <3>2. QED BY <1>1, <2>1, <3>1, CloseSmall, Zenon
    <2>5. R2!Close(Q1, KeyErrMax, u + v, w)
      <3> HIDE DEF u, v, w
      <3>1. KeyErrMax \in Int
        BY <1>1
      <3>2. R2!Close(Q1, KeyErrMax + 0, u + v, 0 + w)
        BY <1>1, <2>1, <2>3, <2>4, <3>1, R2!CloseSum, Zenon
      <3>3. KeyErrMax + 0 = KeyErrMax /\ 0 + w = w
        BY <1>1, <2>1
      <3>4. QED BY <3>2, <3>3
    <2>6. R2!Close(Q1, 0, (u + v) % Q1, u + v) /\ (u + v) % Q1 \in Int
      <3> DEFINE z == u + v
      <3>1. z \in Int
        BY <2>1
      <3> HIDE DEF z
      <3>2. R1!Close(Q1, 0, z % Q1, z) /\ z % Q1 \in Int
        BY <1>1, <3>1, R1!CloseMod
      <3>3. QED BY <3>2, SameClose DEF z
    <2>7. R2!Close(Q1, KeyErrMax, (u + v) % Q1, w)
      <3> DEFINE z == u + v
                 y == (u + v) % Q1
      <3>1. z \in Int /\ y \in Int /\ KeyErrMax \in Int
        BY <1>1, <2>1, <2>6
      <3>2. R2!Close(Q1, 0, y, z) /\ R2!Close(Q1, KeyErrMax, z, w)
        BY <2>5, <2>6
      <3> HIDE DEF y, z, w
      <3>3. R2!Close(Q1, 0 + KeyErrMax, y, w)
        BY <1>1, <2>1, <3>1, <3>2, R2!CloseTrans, Zenon
      <3>4. 0 + KeyErrMax = KeyErrMax
        BY <1>1
      <3>5. R2!Close(Q1, KeyErrMax, y, w)
        BY <3>3, <3>4
      <3>6. QED BY <3>5 DEF y
    <2>8. QED BY <2>2, <2>6, <2>7
  <1>9. QED
    <2> HIDE DEF a, b, s, le, sm, M, G
    <2>1. \A x \in 0..(N1 - 1) : /\ R1!Sub(rgsw[h][i].body, R1!Mul(rgsw[h][i].mask, s, N1))[x] \in Int
                                 /\ R2!Close(Q1, KeyErrMax, R1!Sub(rgsw[h][i].body, R1!Mul(rgsw[h][i].mask, s, N1))[x], G * M[x])
      BY <1>6, <1>7, <1>8
    <2>2. QED BY <1>2, <1>6, <1>7, <2>1 DEF s, M, G

\* A rescaled coefficient, in units of both moduli: off by half a unit.
LEMMA RescaleClose ==
  ASSUME NEW src \in Nat \ {0}, NEW dst \in Nat \ {0}, NEW c \in Nat
  PROVE  LET r == ((c * dst + (src \div 2)) \div src) % dst
         IN  r \in Int /\ R2!Close(2 * (src * dst), src, (2 * src) * r, (2 * dst) * c)
  <1> DEFINE v == c * dst
             f == (v + (src \div 2)) \div src
             k == f \div dst
             r == f % dst
             e == 2 * (src * f - v)
  <1>1. v \in Nat
    <2>1. \A a, b \in Nat : a * b \in Nat
      BY Z3
    <2>2. QED BY <2>1
  <1>2. f \in Nat /\ e <= src /\ -e <= src
    <2>1. Gd!GadgetAssumption
      BY GadgetParams
    <2> HIDE DEF v
    <2>2. QED BY <1>1, <2>1, Gd!Rounded
  <1> HIDE DEF f
  <1>3. k \in Int /\ r \in Int /\ f = dst * k + r
    <2>1. Q2 \in Nat \ {0} /\ f \in Int
      BY <1>2, Constants
    <2>2. k \in Int /\ r \in 0..(dst - 1) /\ f = dst * k + r
      BY <2>1, R2!IntDivMod
    <2>3. \A i \in 0..(dst - 1) : i \in Int
      OBVIOUS
    <2> HIDE DEF k, r
    <2>4. QED BY <2>2, <2>3
  <1> HIDE DEF k, r
  <1>4. (2 * src) * r = (2 * dst) * c + e + (2 * (src * dst)) * (-k)
    <2>1. \A S, T, K, R, C \in Int : (2 * S) * R = (2 * T) * C + 2 * (S * (T * K + R) - C * T) + (2 * (S * T)) * (-K)
      BY Z3
    <2>2. (2 * src) * r = (2 * dst) * c + 2 * (src * (dst * k + r) - c * dst) + (2 * (src * dst)) * (-k)
      BY <1>3, <2>1
    <2>3. QED BY <1>3, <2>2
  <1>5. e \in Int /\ -k \in Int
    <2>1. \A a, b \in Int : a * b \in Int
      OBVIOUS
    <2>2. src * f \in Int
      BY <1>2, <2>1
    <2> DEFINE sf == src * f
    <2>3. sf \in Int
      BY <2>2
    <2> HIDE DEF sf, v
    <2>4. 2 * (sf - v) \in Int
      BY <1>1, <2>3
    <2>5. QED BY <1>3, <2>4 DEF sf
  <1> HIDE DEF e, v
  <1>6. R2!Close(2 * (src * dst), src, (2 * src) * r, (2 * dst) * c)
    BY <1>2, <1>4, <1>5, Zenon DEF R2!Close
  <1>7. QED BY <1>3, <1>6 DEF f, r, v

\* Of every coefficient of a rescaled polynomial.
LEMMA RescaleEach ==
  ASSUME NEW n, NEW src \in Nat \ {0}, NEW dst \in Nat \ {0}, NEW f \in [0..(n - 1) -> 0..(src - 1)]
  PROVE  \A k \in 0..(n - 1) :
            /\ f[k] \in Nat /\ Rescale(f, src, dst)[k] \in Int
            /\ R2!Close(2 * (src * dst), src, (2 * src) * Rescale(f, src, dst)[k], (2 * dst) * f[k])
  <1>1. \A x \in 0..(n - 1) : Rescale(f, src, dst)[x] = ((f[x] * dst + (src \div 2)) \div src) % dst
    BY Zenon DEF Rescale
  <1>2. ASSUME NEW c \in Nat
        PROVE  LET r == ((c * dst + (src \div 2)) \div src) % dst
               IN  r \in Int /\ R2!Close(2 * (src * dst), src, (2 * src) * r, (2 * dst) * c)
    BY RescaleClose
  <1>3. \A k \in 0..(n - 1) : f[k] \in Nat
    OBVIOUS
  <1>4. QED BY <1>1, <1>2, <1>3

\* The same of the phase: half a unit for the body, and for the mask one for
\* each unit of the key.
LEMMA RescalePhase ==
  ASSUME NEW src \in Nat \ {0}, NEW dst \in Nat \ {0}, NEW n \in Nat \ {0}, NEW f \in CenteredPoly(n),
         NEW a \in [0..(n - 1) -> 0..(src - 1)], NEW b \in [0..(n - 1) -> 0..(src - 1)], NEW x \in 0..(n - 1),
         NEW q, NEW u, R2!Steps(src, q, f, a, n, x), R2!Steps(dst, u, f, Rescale(a, src, dst), n, x),
         NEW h, R2!Weights(h, f, n), NEW y \in Int, NEW z \in Int,
         R2!Close(src, 0, y, b[x] - q[n]), R2!Close(dst, 0, z, Rescale(b, src, dst)[x] - u[n])
  PROVE  R2!Close(2 * (src * dst), src * (1 + h[n]), (2 * src) * z, (2 * dst) * y)
  <1> DEFINE w == 2 * (src * dst)
             ra == Rescale(a, src, dst)
             s2c == 2 * src
             d2c == 2 * dst
  <1>1. /\ w \in Int /\ s2c \in Nat /\ d2c \in Nat /\ src \in Nat /\ src \in Int /\ dst \in Int /\ 0 \in Int
        /\ Q2 \in Nat \ {0} /\ src * dst \in Int
    <2>1. \A k, l \in Nat : k * l \in Nat
      BY Z3
    <2>2. src * dst \in Nat
      BY <2>1
    <2>3. QED BY <2>2, Constants
  <1>2. \A g \in [0..(n - 1) -> 0..(src - 1)] : \A k \in 0..(n - 1) :
            /\ g[k] \in Nat /\ Rescale(g, src, dst)[k] \in Int
            /\ R2!Close(w, src, s2c * Rescale(g, src, dst)[k], d2c * g[k])
    BY RescaleEach
  <1>3. f \in [0..(n - 1) -> Int] /\ a \in [0..(n - 1) -> Int]
    <2>1. \A k \in 0..(src - 1) : k \in Int
      OBVIOUS
    <2>2. QED BY <2>1 DEF CenteredPoly
  <1>4. ra \in [0..(n - 1) -> Int]
    <2>1. ra \in [0..(n - 1) -> 0..(dst - 1)]
      BY RescaleIn
    <2>2. QED BY <2>1
  <1>5. h[n] \in Nat /\ u[n] \in Int /\ q[n] \in Int
    <2>1. n \in 0..n
      OBVIOUS
    <2>2. h \in [0..n -> Nat] /\ u \in [0..n -> Int] /\ q \in [0..n -> Int]
      BY Zenon DEF R2!Weights, R2!Steps
    <2>3. QED BY <2>1, <2>2
  <1>6. R2!Related(w, src, s2c, d2c, dst, src, ra, a, n)
    <2>1. s2c * dst = w * 1 /\ d2c * src = w * 1 /\ 1 \in Int
      <3>1. \A k, l \in Int : (2 * k) * l = (2 * (k * l)) * 1 /\ (2 * l) * k = (2 * (k * l)) * 1
        BY Z3
      <3>2. QED BY <1>1, <3>1
    <2>2. \A k \in 0..(n - 1) : R2!Close(w, src, s2c * ra[k], d2c * a[k])
      BY <1>2
    <2> HIDE DEF w, s2c, d2c, ra
    <2>3. QED BY <1>3, <1>4, <2>1, <2>2, Zenon DEF R2!Related
  <1>7. R2!Close(w, src * h[n], s2c * u[n], d2c * q[n])
    <2> HIDE DEF w, s2c, d2c
    <2>1. QED BY <1>1, <1>3, <1>4, <1>6, R2!StepsClose, Zenon DEF ra
  <1>8. b[x] \in Int /\ Rescale(b, src, dst)[x] \in Int /\ R2!Close(w, src, s2c * Rescale(b, src, dst)[x], d2c * b[x])
    <2>1. b[x] \in Nat /\ Rescale(b, src, dst)[x] \in Int /\ R2!Close(w, src, s2c * Rescale(b, src, dst)[x], d2c * b[x])
      BY <1>2
    <2>2. QED BY <2>1
  <1>9. QED BY <1>1, <1>5, <1>7, <1>8, R2!PhaseScales, Zenon

\* The rgsw is an encryption of the bit, and switched its rescaled form.
EncryptedInv == \E masks \in KeyMasks, errors \in KeyErrors : rgsw = Encrypted(bit, masks, errors)

SwitchedInv ==
  switched = [h \in Halves |-> [i \in 0..(L - 1) |->
                Ct(Rescale(rgsw[h][i].mask, Q1, Q2), Rescale(rgsw[h][i].body, Q1, Q2))]]

\* What KeySpec adds to RInv.
KeyInv ==
  /\ bit \in 0..1
  /\ pc = "encrypt" => inputs = <<>>
  /\ pc \in {"switch_key", "gate"} => EncryptedInv /\ inputs = <<>>
  /\ pc = "gate" => SwitchedInv
  /\ inputs # <<>> => EncryptedInv /\ SwitchedInv /\ inputs \in CtsAt2 \X CtsAt2
  /\ (pc = "rescale" /\ inputs # <<>>) => fresh = CMux(switched, inputs[1], inputs[2])

\* The switched samples are ciphertexts at Q2.
LEMMA SwitchedIn ==
  ASSUME s1 \in CenteredPoly(N1), bit \in 0..1, EncryptedInv, SwitchedInv
  PROVE  /\ switched \in KeySamples
         /\ \A h \in Halves, i \in 0..(L - 1) :
              /\ switched[h][i].mask = Rescale(rgsw[h][i].mask, Q1, Q2)
              /\ switched[h][i].body = Rescale(rgsw[h][i].body, Q1, Q2)
  <1>1. Q1 \in Nat \ {0} /\ Q2 \in Nat \ {0}
    BY Constants, GadgetParams
  <1>2. PICK masks \in KeyMasks, errors \in KeyErrors : rgsw = Encrypted(bit, masks, errors)
    BY DEF EncryptedInv
  <1>3. \A h \in Halves, i \in 0..(L - 1) : rgsw[h][i].mask \in R1!Poly(N1) /\ rgsw[h][i].body \in R1!Poly(N1)
    BY <1>2, SampleIs
  <1>4. \A f \in R1!Poly(N1) : Rescale(f, Q1, Q2) \in R2!Poly(N1)
    BY <1>1, RescaleIn DEF R1!Poly, R1!Coeff, R2!Poly, R2!Coeff
  <1>5. \A h \in Halves, i \in 0..(L - 1) :
          /\ switched[h][i] = Ct(Rescale(rgsw[h][i].mask, Q1, Q2), Rescale(rgsw[h][i].body, Q1, Q2))
          /\ switched = [k \in Halves |-> [l \in 0..(L - 1) |-> switched[k][l]]]
    BY DEF SwitchedInv
  <1>6. \A h \in Halves, i \in 0..(L - 1) :
          /\ switched[h][i].mask = Rescale(rgsw[h][i].mask, Q1, Q2)
          /\ switched[h][i].body = Rescale(rgsw[h][i].body, Q1, Q2)
          /\ switched[h][i] \in CtsAt2
    <2>1. \A a, b \in R2!Poly(N1) : Ct(a, b) \in CtsAt2 /\ Ct(a, b).mask = a /\ Ct(a, b).body = b
      BY DEF Ct, CtsAt2
    <2>2. QED BY <1>3, <1>4, <1>5, <2>1
  <1>7. switched \in KeySamples
    <2>1. switched = [k \in Halves |-> [l \in 0..(L - 1) |-> switched[k][l]]]
      BY DEF SwitchedInv
    <2>2. QED BY <1>6, <2>1, Zenon DEF KeySamples
  <1>8. QED BY <1>6, <1>7

\* A secret and no more: what Init gives.
LEMMA InitStep ==
  ASSUME KeyInit
  PROVE  RInv /\ KeyInv
  <1>1. /\ s1 \in CenteredPoly(N1) /\ s2 \in CenteredPoly(N2)
    BY ResponseAssumption DEF KeyInit, Init
  <1>2. pc = "encrypt" /\ switchNoise = <<>> /\ bit = 0 /\ inputs = <<>>
    BY DEF KeyInit, Init
  <1>3. QED BY <1>1, <1>2 DEF RInv, KeyInv, Before, After, Switching

\* Whatever leaves the variables of RInv alone preserves it.
LEMMA RInvStays ==
  ASSUME RInv, UNCHANGED vars
  PROVE  RInv'
  <1>1. UNCHANGED <<s1, s2, pc, message, noise, fresh, ct, acc, j, switchNoise, answer, recovered>>
    BY DEF vars
  <1>2. Noisy' = Noisy
    BY <1>1 DEF Noisy
  <1>3. QED BY <1>1, <1>2, Stays DEF RInv

\* Encrypting directly at Q2 establishes what FreshInv says of the phase.
LEMMA EncryptStep ==
  ASSUME RInv, Encrypt
  PROVE  RInv'
  <1>1. /\ pc = "encrypt" /\ pc' = "rescale"
        /\ UNCHANGED <<s1, s2, ct, acc, j, switchNoise, answer, recovered>>
    BY DEF Encrypt
  <1>2. PICK m \in Messages, a \in MasksN1, e \in Errors :
          message' = m /\ noise' = e /\ fresh' = EncryptAt(m, a, e)
    BY DEF Encrypt, EncryptAt
  <1>3. s1 \in CenteredPoly(N1) /\ s2 \in CenteredPoly(N2) /\ switchNoise = <<>>
    BY <1>1 DEF RInv, Switching
  <1>4. /\ EncryptAt(m, a, e) \in [mask : R2!Poly(N1), body : R2!Poly(N1)]
        /\ PhaseQ2(EncryptAt(m, a, e)) = R2!Add(Lift(e, Q2), Encode(m, Q2))
        /\ m \in AtPT!Poly(N1) /\ e \in CenteredPoly(N1)
    BY <1>3, EncryptAtIs
  <1>5. \A x \in 0..(N1 - 1) : PhaseQ2(EncryptAt(m, a, e))[x] = (Encode(m, Q2)[x] + e[x]) % Q2
    BY <1>4, PhaseAt
  <1>6. PhaseQ2(fresh)' = PhaseQ2(EncryptAt(m, a, e))
    BY <1>1, <1>2 DEF PhaseQ2
  <1>7. FreshInv'
    <2> DEFINE c == EncryptAt(m, a, e)
    <2> HIDE DEF c
    <2>1. \A x \in 0..(N1 - 1) : PhaseQ2(fresh)'[x] = (Encode(message', Q2)[x] + noise'[x]) % Q2
      BY <1>2, <1>5, <1>6
    <2>2. QED BY <1>2, <1>4, <2>1 DEF FreshInv
  <1>8. QED BY <1>1, <1>3, <1>7 DEF RInv, Before, After, Switching

\* The rescaling to Q3 leaves canonical polynomials.
LEMMA ModSwitchSymStep ==
  ASSUME RInv, ModSwitchSym
  PROVE  RInv'
  <1>1. /\ pc = "rescale" /\ pc' = "enter"
        /\ ct' = Ct(Rescale(fresh.mask, Q2, Q3), Rescale(fresh.body, Q2, Q3))
        /\ UNCHANGED <<s1, s2, message, noise, fresh, acc, j, switchNoise, answer, recovered>>
    BY DEF ModSwitchSym
  <1>2. s1 \in CenteredPoly(N1) /\ s2 \in CenteredPoly(N2) /\ switchNoise = <<>> /\ FreshInv
    BY <1>1 DEF RInv, After, Switching
  <1>3. FreshInv'
    BY <1>1, <1>2, Stays
  <1>4. RescaledInv'
    BY <1>1 DEF RescaledInv
  <1>5. QED BY <1>1, <1>2, <1>3, <1>4 DEF RInv, After, Switching

\* The rescaling of the body to Q4 is what AnswerInv records.
LEMMA ModSwitchAsymStep ==
  ASSUME RInv, ModSwitchAsym
  PROVE  RInv'
  <1>1. /\ pc = "switch" /\ j = D /\ pc' = "recover"
        /\ answer' = Ct(Rescale(acc.mask, Q3, Q3), Rescale(acc.body, Q3, Q4))
        /\ UNCHANGED <<s1, s2, message, noise, fresh, ct, acc, j, switchNoise, recovered>>
    BY DEF ModSwitchAsym
  <1>2. s1 \in CenteredPoly(N1) /\ s2 \in CenteredPoly(N2) /\ FreshInv /\ RescaledInv /\ SwitchInv
    BY <1>1 DEF RInv, After, Switching
  <1>3. FreshInv' /\ RescaledInv' /\ SwitchInv'
    BY <1>1, <1>2, Stays
  <1>4. AnswerInv'
    BY <1>1, D' = D DEF AnswerInv
  <1>5. QED BY <1>1, <1>2, <1>3, <1>4 DEF RInv, After, Switching

\* Decryption changes nothing that RInv speaks of.
LEMMA DecryptStep ==
  ASSUME RInv, DecryptAsymmetric
  PROVE  RInv'
  <1>1. /\ pc = "recover" /\ pc' = "done" /\ recovered' = Decode(Noisy, Q4)
        /\ UNCHANGED <<s1, s2, message, noise, fresh, ct, acc, j, switchNoise, answer>>
    BY DEF DecryptAsymmetric
  <1>2. s1 \in CenteredPoly(N1) /\ s2 \in CenteredPoly(N2) /\ FreshInv /\ RescaledInv /\ SwitchInv /\ AnswerInv
    BY <1>1 DEF RInv, After, Switching
  <1>3. FreshInv' /\ RescaledInv' /\ SwitchInv' /\ AnswerInv'
    BY <1>1, <1>2, Stays
  <1>4. Noisy' = Noisy
    BY <1>1 DEF Noisy
  <1>5. QED BY <1>1, <1>2, <1>3, <1>4 DEF RInv, After, Switching

\* Every step of the response preserves RInv.
LEMMA NextStep ==
  ASSUME RInv, Next
  PROVE  RInv'
  BY EncryptStep, ModSwitchSymStep, EnterStep, SwitchStep, ModSwitchAsymStep, DecryptStep, Zenon DEF Next

\* A gate's result decrypts to the selected plaintext and what noise records.
LEMMA SelectStep ==
  ASSUME RInv, KeyInv, pc = "gate", NEW ct0 \in CtsAt2, NEW ct1 \in CtsAt2, NEW m \in AtPT!Poly(N1),
         Select(ct0, ct1, m)
  PROVE  RInv' /\ KeyInv'
  <1>1. /\ inputs' = <<ct0, ct1>> /\ fresh' = CMux(switched, ct0, ct1) /\ message' = m /\ pc' = "rescale"
        /\ noise' = [x \in 0..(N1 - 1) |-> Centered((PhaseQ2(fresh')[x] + Q2 - Encode(m, Q2)[x]) % Q2, Q2)]
        /\ UNCHANGED <<s1, s2, ct, acc, j, switchNoise, answer, recovered, bit, rgsw, switched>>
    BY DEF Select
  <1>2. s1 \in CenteredPoly(N1) /\ s2 \in CenteredPoly(N2) /\ switchNoise = <<>>
    BY DEF RInv, Switching
  <1>3. bit \in 0..1 /\ EncryptedInv /\ SwitchedInv
    BY DEF KeyInv
  <1>4. switched \in KeySamples
    BY <1>2, <1>3, SwitchedIn
  <1>5. CMux(switched, ct0, ct1) \in CtsAt2
    BY <1>2, <1>4, CMuxIs
  <1>6. PhaseQ2(fresh') \in R2!Poly(N1) /\ Encode(m, Q2) \in R2!Poly(N1)
    BY <1>1, <1>2, <1>5, PhaseIn, EncodeIn
  <1>7. \A x \in 0..(N1 - 1) : /\ PhaseQ2(fresh')[x] \in 0..(Q2 - 1) /\ Encode(m, Q2)[x] \in 0..(Q2 - 1)
    BY <1>6 DEF R2!Poly, R2!Coeff
  <1>8. \A p, e \in 0..(Q2 - 1) : LET z == Centered((p + Q2 - e) % Q2, Q2) IN z \in Int /\ p = (e + z) % Q2
    <2>1. Q2 \in Nat \ {0}
      BY Constants
    <2>2. QED BY <2>1, R2!CenteredBack DEF Centered
  <1>9. \A x \in 0..(N1 - 1) : noise'[x] \in Int /\ PhaseQ2(fresh')[x] = (Encode(m, Q2)[x] + noise'[x]) % Q2
    BY <1>1, <1>7, <1>8
  <1>10. noise' \in CenteredPoly(N1)
    <2>1. noise' = [x \in 0..(N1 - 1) |-> noise'[x]]
      BY <1>1
    <2>2. QED BY <1>9, <2>1, Zenon DEF CenteredPoly
  <1>11. PhaseQ2(fresh)' = PhaseQ2(fresh')
    BY <1>1 DEF PhaseQ2
  <1>12. FreshInv'
    <2>1. \A x \in 0..(N1 - 1) : PhaseQ2(fresh)'[x] = (Encode(message', Q2)[x] + noise'[x]) % Q2
      BY <1>1, <1>9, <1>11
    <2>2. fresh' \in [mask : R2!Poly(N1), body : R2!Poly(N1)] /\ message' \in AtPT!Poly(N1)
      BY <1>1, <1>5 DEF CtsAt2
    <2>3. QED BY <1>10, <2>1, <2>2 DEF FreshInv
  <1>13. RInv'
    BY <1>1, <1>2, <1>12 DEF RInv, Before, After, Switching
  <1>14. inputs' \in CtsAt2 \X CtsAt2 /\ inputs'[1] = ct0 /\ inputs'[2] = ct1
    BY <1>1
  <1>15. EncryptedInv' /\ SwitchedInv'
    <2>1. EncryptedInv'
      <3>1. \A b, masks, errors : Encrypted(b, masks, errors)' = Encrypted(b, masks, errors)
        BY <1>1 DEF Encrypted, KeyMessage
      <3>2. PICK masks \in KeyMasks, errors \in KeyErrors : rgsw = Encrypted(bit, masks, errors)
        BY <1>3 DEF EncryptedInv
      <3>3. rgsw' = Encrypted(bit, masks, errors)'
        BY <1>1, <3>1, <3>2
      <3>4. QED BY <3>3 DEF EncryptedInv
    <2>2. SwitchedInv'
      BY <1>1, <1>3 DEF SwitchedInv
    <2>3. QED BY <2>1, <2>2
  <1>16. (fresh = CMux(switched, inputs[1], inputs[2]))'
    <2>1. \A key, a, b : CMux(key, a, b)' = CMux(key, a, b)
      BY DEF CMux
    <2>2. QED BY <1>1, <1>14
  <1>17. KeyInv'
    BY <1>1, <1>3, <1>14, <1>15, <1>16 DEF KeyInv
  <1>18. QED BY <1>13, <1>17

\* Rotating by one slot stays in the ring.
LEMMA RotatedIn ==
  /\ \A f \in R2!Poly(N1) : AtQ2!Neg(AtQ2!MulXPow(f, N1, N1 - 1)) \in R2!Poly(N1)
  /\ \A f \in AtPT!Poly(N1) : AtPT!Neg(AtPT!MulXPow(f, N1, N1 - 1)) \in AtPT!Poly(N1)
  <1>1. /\ Q2 \in Nat \ {0} /\ PT \in Nat \ {0} /\ N1 \in Nat \ {0} /\ N1 - 1 \in 0..(N1 - 1) /\ N1 \in 1..N1
    BY Constants
  <1>2. ASSUME NEW f \in R2!Poly(N1) PROVE R2!Neg(R2!MulXPow(f, N1, N1 - 1)) \in R2!Poly(N1)
    <2>1. R2!MulXPow(f, N1, N1 - 1) = R2!Rot(f, N1, N1 - 1)
      BY <1>1, R2!MulXPowRot
    <2>2. R2!Rot(f, N1, N1 - 1) \in R2!Poly(N1)
      BY <1>1, R2!TermFacts
    <2>3. QED BY <1>1, <2>1, <2>2, R2!SubClosed
  <1>3. ASSUME NEW f \in AtPT!Poly(N1) PROVE AtPT!Neg(AtPT!MulXPow(f, N1, N1 - 1)) \in AtPT!Poly(N1)
    <2> DEFINE rot == AtPT!MulXPow(f, N1, N1 - 1)
               shift == (N1 - 1) % N1
               moved == [x \in 0..(N1 - 1) |-> f[(x + N1 - shift) % N1]]
               turned == (N1 - 1) % (2 * N1) >= N1
    <2>1. \A c \in Int : (c % N1) \in 0..(N1 - 1) /\ (c % PT) \in 0..(PT - 1)
      BY <1>1, R2!IntDivMod
    <2>2. shift \in Int
      <3>1. N1 - 1 \in Int /\ \A c \in 0..(N1 - 1) : c \in Int
        BY <1>1
      <3>2. QED BY <2>1, <3>1
    <2> HIDE DEF shift
    <2>3. moved \in [0..(N1 - 1) -> 0..(PT - 1)]
      <3>1. \A x \in 0..(N1 - 1) : x + N1 - shift \in Int
        BY <1>1, <2>2
      <3>2. \A x \in 0..(N1 - 1) : f[(x + N1 - shift) % N1] \in 0..(PT - 1)
        BY <2>1, <3>1 DEF AtPT!Poly, AtPT!Coeff
      <3>3. QED BY <3>2, Zenon
    <2>4. ASSUME NEW g \in [0..(N1 - 1) -> 0..(PT - 1)] PROVE AtPT!Neg(g) \in [0..(N1 - 1) -> 0..(PT - 1)]
      <3>1. \A x \in 0..(N1 - 1) : PT - g[x] \in Int
        BY <1>1
      <3>2. \A x \in 0..(N1 - 1) : (PT - g[x]) % PT \in 0..(PT - 1)
        BY <2>1, <3>1
      <3>3. AtPT!Neg(g) = [x \in 0..(N1 - 1) |-> (PT - g[x]) % PT]
        BY DEF AtPT!Neg
      <3>4. QED BY <3>2, <3>3, Zenon
    <2>5. rot = [x \in 0..(N1 - 1) |-> IF (((x + N1 - shift) % N1) + shift >= N1) # turned THEN AtPT!Neg(moved)[x] ELSE moved[x]]
      BY Zenon DEF AtPT!MulXPow, shift
    <2> HIDE DEF moved, turned
    <2>6. AtPT!Neg(moved) \in [0..(N1 - 1) -> 0..(PT - 1)]
      BY <2>3, <2>4
    <2>7. \A x \in 0..(N1 - 1) : AtPT!Neg(moved)[x] \in 0..(PT - 1) /\ moved[x] \in 0..(PT - 1)
      BY <2>3, <2>6
    <2>8. \A x \in 0..(N1 - 1) :
            (IF (((x + N1 - shift) % N1) + shift >= N1) # turned THEN AtPT!Neg(moved)[x] ELSE moved[x]) \in 0..(PT - 1)
      BY <2>7, Zenon
    <2>9. rot \in [0..(N1 - 1) -> 0..(PT - 1)]
      BY <2>5, <2>8, Zenon
    <2> HIDE DEF rot
    <2>10. AtPT!Neg(rot) \in [0..(N1 - 1) -> 0..(PT - 1)]
      BY <2>4, <2>9
    <2>11. QED BY <2>10 DEF rot, AtPT!Poly, AtPT!Coeff
  <1>4. QED BY <1>2, <1>3, Same2

\* A gate of cmux_tree.
LEMMA CMuxStep ==
  ASSUME RInv, KeyInv, CMuxGate
  PROVE  RInv' /\ KeyInv'
  <1>1. PICK m0 \in Messages, m1 \in Messages, a0 \in MasksN1, a1 \in MasksN1, e \in Errors :
          Select(EncryptAt(m0, a0, e), EncryptAt(m1, a1, e), IF bit = 1 THEN m1 ELSE m0)
    BY DEF CMuxGate
  <1>2. pc = "gate" /\ s1 \in CenteredPoly(N1)
    BY DEF CMuxGate, RInv
  <1>3. /\ EncryptAt(m0, a0, e) \in CtsAt2 /\ m0 \in AtPT!Poly(N1)
        /\ EncryptAt(m1, a1, e) \in CtsAt2 /\ m1 \in AtPT!Poly(N1)
    BY <1>2, EncryptAtIs DEF CtsAt2
  <1> DEFINE m == IF bit = 1 THEN m1 ELSE m0
             c0 == EncryptAt(m0, a0, e)
             c1 == EncryptAt(m1, a1, e)
  <1>4. m \in AtPT!Poly(N1) /\ c0 \in CtsAt2 /\ c1 \in CtsAt2 /\ Select(c0, c1, m)
    BY <1>1, <1>3
  <1> HIDE DEF m, c0, c1
  <1>5. QED BY <1>2, <1>4, SelectStep, Zenon

\* A gate of crot.
LEMMA CRotStep ==
  ASSUME RInv, KeyInv, CRotGate
  PROVE  RInv' /\ KeyInv'
  <1> DEFINE Turned(f) == AtQ2!Neg(AtQ2!MulXPow(f, N1, N1 - 1))
             TurnedPT(f) == AtPT!Neg(AtPT!MulXPow(f, N1, N1 - 1))
  <1>1. PICK m0 \in Messages, a \in MasksN1, e \in Errors :
          Select(EncryptAt(m0, a, e), Ct(Turned(EncryptAt(m0, a, e).mask), Turned(EncryptAt(m0, a, e).body)),
                 IF bit = 1 THEN TurnedPT(m0) ELSE m0)
    BY DEF CRotGate
  <1>2. pc = "gate" /\ s1 \in CenteredPoly(N1)
    BY DEF CRotGate, RInv
  <1>3. EncryptAt(m0, a, e) \in CtsAt2 /\ m0 \in AtPT!Poly(N1)
    BY <1>2, EncryptAtIs DEF CtsAt2
  <1>4. EncryptAt(m0, a, e).mask \in R2!Poly(N1) /\ EncryptAt(m0, a, e).body \in R2!Poly(N1)
    BY <1>3 DEF CtsAt2
  <1> DEFINE m == IF bit = 1 THEN TurnedPT(m0) ELSE m0
             c0 == EncryptAt(m0, a, e)
             c1 == Ct(Turned(c0.mask), Turned(c0.body))
  <1>5. m \in AtPT!Poly(N1) /\ c0 \in CtsAt2 /\ c1 \in CtsAt2 /\ Select(c0, c1, m)
    <2>1. TurnedPT(m0) \in AtPT!Poly(N1) /\ Turned(c0.mask) \in R2!Poly(N1) /\ Turned(c0.body) \in R2!Poly(N1)
      BY <1>3, <1>4, RotatedIn
    <2>2. \A f, g \in R2!Poly(N1) : Ct(f, g) \in CtsAt2
      BY DEF Ct, CtsAt2
    <2> HIDE DEF Turned, TurnedPT
    <2>3. QED BY <1>1, <1>3, <2>1, <2>2
  <1> HIDE DEF m, c0, c1
  <1>6. QED BY <1>2, <1>5, SelectStep, Zenon

\* The encryption of a bit touches nothing of RInv but pc.
LEMMA EncryptBitStep ==
  ASSUME RInv, KeyInv, EncryptBit
  PROVE  RInv' /\ KeyInv'
  <1>1. /\ pc = "encrypt" /\ pc' = "switch_key"
        /\ \E b \in 0..1, masks \in KeyMasks, errors \in KeyErrors : bit' = b /\ rgsw' = Encrypted(b, masks, errors)
        /\ UNCHANGED <<s1, s2, message, noise, fresh, ct, acc, j, switchNoise, answer, recovered, switched, inputs>>
    BY EncryptBitIs
  <1>2. RInv'
    BY <1>1 DEF RInv, Before, After, Switching
  <1>3. PICK b \in 0..1, masks \in KeyMasks, errors \in KeyErrors : bit' = b /\ rgsw' = Encrypted(b, masks, errors)
    BY <1>1
  <1>4. EncryptedInv'
    <2>1. (rgsw = Encrypted(bit, masks, errors))'
      BY <1>1, <1>3 DEF Encrypted, KeyMessage
    <2>2. QED BY <2>1 DEF EncryptedInv
  <1>5. inputs' = <<>>
    BY <1>1 DEF KeyInv
  <1>6. QED BY <1>1, <1>2, <1>3, <1>4, <1>5 DEF KeyInv

\* Switching the key is what SwitchedInv records.
LEMMA ModSwitchRgswStep ==
  ASSUME RInv, KeyInv, ModSwitchRgsw
  PROVE  RInv' /\ KeyInv'
  <1>1. /\ pc = "switch_key" /\ pc' = "gate"
        /\ switched' = [h \in Halves |-> [i \in 0..(L - 1) |->
             Ct(Rescale(rgsw[h][i].mask, Q1, Q2), Rescale(rgsw[h][i].body, Q1, Q2))]]
        /\ UNCHANGED <<s1, s2, message, noise, fresh, ct, acc, j, switchNoise, answer, recovered, bit, rgsw, inputs>>
    BY DEF ModSwitchRgsw
  <1>2. RInv'
    BY <1>1 DEF RInv, Before, After, Switching
  <1>3. EncryptedInv /\ inputs = <<>> /\ bit \in 0..1
    BY <1>1 DEF KeyInv
  <1>4. EncryptedInv'
    <2>1. PICK masks \in KeyMasks, errors \in KeyErrors : rgsw = Encrypted(bit, masks, errors)
      BY <1>3 DEF EncryptedInv
    <2>2. (rgsw = Encrypted(bit, masks, errors))'
      BY <1>1, <2>1 DEF Encrypted, KeyMessage
    <2>3. QED BY <2>2 DEF EncryptedInv
  <1>5. SwitchedInv'
    BY <1>1 DEF SwitchedInv
  <1>6. QED BY <1>1, <1>2, <1>3, <1>4, <1>5 DEF KeyInv

\* Without a gate, the key stays as it is.
LEMMA KeyStays ==
  ASSUME KeyInv, UNCHANGED <<s1, bit, rgsw, switched, inputs>>,
         (pc' = pc /\ fresh' = fresh) \/ (pc = "encrypt" /\ pc' = "rescale") \/ pc' \in {"enter"} \cup Switching
  PROVE  KeyInv'
  <1>1. EncryptedInv => EncryptedInv'
    <2>1. SUFFICES ASSUME EncryptedInv PROVE EncryptedInv'
      OBVIOUS
    <2>2. PICK masks \in KeyMasks, errors \in KeyErrors : rgsw = Encrypted(bit, masks, errors)
      BY <2>1 DEF EncryptedInv
    <2>3. (rgsw = Encrypted(bit, masks, errors))'
      BY <2>2 DEF Encrypted, KeyMessage
    <2>4. QED BY <2>3 DEF EncryptedInv
  <1>2. SwitchedInv => SwitchedInv'
    BY DEF SwitchedInv
  <1>3. (fresh = CMux(switched, inputs[1], inputs[2]) /\ fresh' = fresh) => (fresh = CMux(switched, inputs[1], inputs[2]))'
    OBVIOUS
  <1>4. CtsAt2' = CtsAt2
    OBVIOUS
  <1>5. QED BY <1>1, <1>2, <1>3 DEF KeyInv, Switching

\* The inductive step of the whole.
LEMMA KeyStep ==
  ASSUME RInv, KeyInv, [KeyNext]_<<vars, keyVars>>
  PROVE  RInv' /\ KeyInv'
  <1>1. CASE EncryptBit
    BY <1>1, EncryptBitStep
  <1>2. CASE ModSwitchRgsw
    BY <1>2, ModSwitchRgswStep
  <1>3. CASE CMuxGate
    BY <1>3, CMuxStep
  <1>4. CASE CRotGate
    BY <1>4, CRotStep
  <1>5. CASE Next /\ UNCHANGED keyVars
    <2>1. RInv'
      BY <1>5, NextStep
    <2>2. UNCHANGED <<bit, rgsw, switched, inputs>>
      BY <1>5 DEF keyVars
    <2>3. UNCHANGED s1 /\ ((pc' = pc /\ fresh' = fresh) \/ (pc = "encrypt" /\ pc' = "rescale") \/ pc' \in {"enter"} \cup Switching)
      BY <1>5 DEF Next, Encrypt, ModSwitchSym, EnterRingSwitch, SwitchMask, ModSwitchAsym, DecryptAsymmetric, Switching
    <2>4. QED BY <2>1, <2>2, <2>3, KeyStays
  <1>6. CASE UNCHANGED <<vars, keyVars>>
    <2>1. UNCHANGED <<s1, pc, fresh, bit, rgsw, switched, inputs>>
      BY <1>6 DEF vars, keyVars
    <2>2. UNCHANGED vars
      BY <1>6
    <2>3. RInv'
      BY <2>2, RInvStays
    <2>4. KeyInv'
      BY <2>1, KeyStays
    <2>5. QED BY <2>3, <2>4
  <1>7. QED BY <1>1, <1>2, <1>3, <1>4, <1>5, <1>6 DEF KeyNext

\* Everything that is reached is as RInv and KeyInv say.
THEOREM ResponseInvariant == KeySpec => [](RInv /\ KeyInv)
  <1>1. KeyInit => RInv /\ KeyInv
    BY InitStep
  <1>2. RInv /\ KeyInv /\ [KeyNext]_<<vars, keyVars>> => (RInv /\ KeyInv)'
    BY KeyStep
  <1>3. QED BY <1>1, <1>2, PTL DEF KeySpec

\* Throughout the ring switch the accumulator, less the terms still to come,
\* is slot 0 of the ciphertext (ring_switch.rs, "Algebraic identity").
THEOREM RingSwitchCarries == KeySpec => []SwitchCarries
  <1>1. RInv => SwitchCarries
    <2>1. CASE pc = "switch"
      <3>1. SUFFICES ASSUME RInv PROVE SwitchCarries
        OBVIOUS
      <3>2. s1 \in CenteredPoly(N1) /\ FreshInv /\ RescaledInv /\ j \in 0..D /\ Carries
        BY <2>1, <3>1 DEF RInv, After, Switching, SwitchInv
      <3>3. ct.mask \in R3!Poly(N1)
        BY <3>2, RescaledIn
      <3>4. Turns \in R3!Terms(D, N2)
        BY <3>2, <3>3, TurnsAre
      <3>5. QED BY <3>2, <3>4, CarriesIs
    <2>2. CASE pc # "switch"
      BY <2>2 DEF SwitchCarries
    <2>3. QED BY <2>1, <2>2
  <1>2. QED BY <1>1, ResponseInvariant, PTL

\* What the accumulator and the rescaled ciphertext decrypt to at Q3.
PhaseAcc == R3!Sub(acc.body, R3!Mul(acc.mask, Lift(s2, Q3), N2))

PhaseCt == R3!Sub(ct.body, R3!Mul(ct.mask, Lift(s1, Q3), N1))

\* Where the way of the response is over.
LEMMA Answered ==
  ASSUME RInv, pc \in {"recover", "done"}
  PROVE  /\ s1 \in CenteredPoly(N1) /\ s2 \in CenteredPoly(N2)
         /\ FreshInv /\ RescaledInv /\ SwitchInv /\ AnswerInv
         /\ fresh.mask \in R2!Poly(N1) /\ fresh.body \in R2!Poly(N1) /\ fresh \in CtsAt2
         /\ ct.mask \in R3!Poly(N1) /\ ct.body \in R3!Poly(N1)
         /\ acc.mask \in R3!Poly(N2) /\ acc.body \in R3!Poly(N2)
         /\ R3!Mul(acc.mask, Lift(s2, Q3), N2) \in R3!Poly(N2) /\ PhaseAcc \in R3!Poly(N2)
         /\ R3!Mul(ct.mask, Lift(s1, Q3), N1) \in R3!Poly(N1) /\ PhaseCt \in R3!Poly(N1)
  <1>1. /\ s1 \in CenteredPoly(N1) /\ s2 \in CenteredPoly(N2)
        /\ FreshInv /\ RescaledInv /\ SwitchInv /\ AnswerInv
    BY DEF RInv, After, Switching
  <1>2. fresh.mask \in R2!Poly(N1) /\ fresh.body \in R2!Poly(N1) /\ fresh \in CtsAt2
    BY <1>1 DEF FreshInv, CtsAt2
  <1>3. ct.mask \in R3!Poly(N1) /\ ct.body \in R3!Poly(N1)
    BY <1>1, RescaledIn
  <1>4. acc.mask \in R3!Poly(N2) /\ acc.body \in R3!Poly(N2)
    BY <1>1 DEF SwitchInv
  <1>5. Q3 \in Nat \ {0} /\ N1 \in Nat \ {0} /\ N2 \in Nat \ {0}
    BY Constants
  <1>6. Lift(s1, Q3) \in R3!Poly(N1) /\ Lift(s2, Q3) \in R3!Poly(N2)
    BY <1>1, Lift3
  <1>7. R3!Mul(acc.mask, Lift(s2, Q3), N2) \in R3!Poly(N2) /\ R3!Mul(ct.mask, Lift(s1, Q3), N1) \in R3!Poly(N1)
    BY <1>3, <1>4, <1>5, <1>6, R3!MulClosed
  <1>8. PhaseAcc \in R3!Poly(N2) /\ PhaseCt \in R3!Poly(N1)
    BY <1>3, <1>4, <1>5, <1>7, R3!SubClosed DEF PhaseAcc, PhaseCt
  <1>9. QED BY <1>1, <1>2, <1>3, <1>4, <1>7, <1>8

\* The errors of the switch, added up.
LEMMA NoiseSum ==
  ASSUME switchNoise \in Seq(CenteredPoly(N2)), Len(switchNoise) = j, j \in Nat, NEW x \in 0..(N2 - 1)
  PROVE  /\ R3!Close(Q3, SwitchedNoise, R3!Sums(Noises, 0, j, N2)[x], 0) /\ SwitchedNoise \in Nat
         /\ R3!Sums(Noises, 0, j, N2) \in R3!Poly(N2)
  <1> DEFINE m == [k \in 0..(j - 1) |-> NormMax(switchNoise[k + 1])]
  <1>1. Q3 \in Nat \ {0} /\ N2 \in Nat \ {0} /\ Q3 \in Int /\ 0 \in Int /\ 0 \in Nat /\ 0 <= j
    BY Constants
  <1>2. \A k \in 0..(j - 1) : switchNoise[k + 1] \in CenteredPoly(N2)
    <2>1. \A k \in 0..(j - 1) : k + 1 \in 1..Len(switchNoise)
      OBVIOUS
    <2>2. QED BY <2>1
  <1>3. \A f \in CenteredPoly(N2) : NormMax(f) \in Nat /\ \A y \in 0..(N2 - 1) : f[y] <= NormMax(f) /\ -f[y] <= NormMax(f)
    BY <1>1, NormMaxIs
  <1>4. \A k \in 0..(j - 1) : m[k] = NormMax(switchNoise[k + 1]) /\ m[k] \in Nat
    BY <1>2, <1>3
  <1>5. m \in [0..(j - 1) -> Nat] /\ m \in [0..(j - 1) -> Int]
    <2>1. \A k \in 0..(j - 1) : NormMax(switchNoise[k + 1]) \in Nat /\ NormMax(switchNoise[k + 1]) \in Int
      BY <1>2, <1>3
    <2>2. QED BY <2>1, Zenon
  <1>6. Noises \in R3!Terms(j, N2)
    BY NoisesIn
  <1>7. \A k \in 0..(j - 1) : R3!Close(Q3, m[k], Noises[k][x], 0)
    <2>1. SUFFICES ASSUME NEW k \in 0..(j - 1) PROVE R3!Close(Q3, m[k], Noises[k][x], 0)
      OBVIOUS
    <2> DEFINE e == switchNoise[k + 1][x]
               l == m[k]
    <2>2. switchNoise[k + 1] \in CenteredPoly(N2)
      BY <1>2
    <2>3. Noises[k][x] = e % Q3
      BY <1>1, <2>2, LiftIn DEF Noises
    <2>4. e \in Int /\ l \in Nat /\ e <= l /\ -e <= l
      BY <1>3, <1>4, <2>2 DEF CenteredPoly
    <2> HIDE DEF e, l
    <2>5. R3!Close(Q3, 0, e % Q3, e) /\ e % Q3 \in Int
      BY <1>1, <2>4, R3!CloseMod
    <2>6. R3!Close(Q3, l, e, 0)
      BY <1>1, <2>4, CloseSmall, SameClose
    <2>7. l \in Int /\ 0 + l = l
      BY <2>4
    <2>8. R3!Close(Q3, 0 + l, e % Q3, 0)
      BY <1>1, <2>4, <2>5, <2>6, <2>7, R3!CloseTrans, Zenon
    <2>9. R3!Close(Q3, l, Noises[k][x], 0)
      BY <2>3, <2>7, <2>8
    <2>10. QED BY <2>9 DEF l
  <1> HIDE DEF m
  <1>8. PICK h : R3!Weights(h, m, j)
    BY <1>1, <1>5, R3!WeightsExist
  <1>9. R3!Close(Q3, h[j], R3!Sums(Noises, 0, j, N2)[x], 0)
    BY <1>1, <1>5, <1>6, <1>7, <1>8, R3!SumsClose, Zenon
  <1>10. SwitchedNoise = h[j] /\ h[j] \in Nat
    BY <1>4, <1>5, <1>8, SwitchedIs
  <1>11. R3!Sums(Noises, 0, j, N2) \in R3!Poly(N2)
    BY <1>1, <1>6, R3!SumsClosed
  <1>12. QED BY <1>9, <1>10, <1>11

\* The accumulator decrypts to slot 0 of the ciphertext, up to the errors.
LEMMA CarriedPhase ==
  ASSUME RInv, pc \in {"recover", "done"}, NEW x \in 0..(N2 - 1)
  PROVE  /\ R2!Close(Q3, SwitchedNoise, PhaseAcc[x], PhaseCt[D * x]) /\ SwitchedNoise \in Nat
         /\ PhaseAcc[x] \in Int /\ PhaseCt[D * x] \in Int /\ D * x \in 0..(N1 - 1)
  <1>1. /\ SwitchInv /\ j = D /\ PhaseAcc \in R3!Poly(N2) /\ PhaseCt \in R3!Poly(N1) /\ s1 \in CenteredPoly(N1)
        /\ ct.mask \in R3!Poly(N1)
    BY Answered DEF AnswerInv
  <1>2. /\ Q3 \in Nat \ {0} /\ N2 \in Nat \ {0} /\ D \in Nat \ {0} /\ D \in Nat /\ N1 = D * N2 /\ 0 \in Int
        /\ Q3 \in Int /\ R3!Tower(N1, D, N2) /\ 0 \in 0..(D - 1)
    BY Constants DEF R3!Tower
  <1>3. /\ switchNoise \in Seq(CenteredPoly(N2)) /\ Len(switchNoise) = j /\ j \in Nat /\ Carries
    BY <1>1, <1>2 DEF SwitchInv
  <1> DEFINE E == R3!Sums(Noises, 0, j, N2)
  <1>4. R3!Close(Q3, SwitchedNoise, E[x], 0) /\ SwitchedNoise \in Nat /\ E \in R3!Poly(N2)
    BY <1>3, NoiseSum
  <1>5. R3!Add(PhaseAcc, E) = R3!ProjectAt(PhaseCt, N1, N2, 0)
    <2>1. R3!Sums(Turns, D, D, N2) = R3!Zero(N2)
      BY <1>2, R3!SumsEmpty
    <2>2. R3!Add(R3!Sub(PhaseAcc, R3!Zero(N2)), E) = R3!ProjectAt(PhaseCt, N1, N2, 0)
      BY <1>1, <1>3, <2>1, Zenon DEF Carries, PhaseAcc, PhaseCt
    <2>3. R3!Sub(PhaseAcc, R3!Zero(N2)) = PhaseAcc
      BY <1>1, <1>2, R3!SubZero
    <2>4. QED BY <2>2, <2>3
  <1>6. R3!ProjectAt(PhaseCt, N1, N2, 0)[x] = PhaseCt[D * x]
    <2>1. R3!ProjectAt(PhaseCt, N1, N2, 0)[x] = PhaseCt[D * x + 0]
      BY <1>1, <1>2, R3!SlotIn
    <2>2. D * x + 0 = D * x
      <3>1. D * x \in Int
        BY <1>2
      <3>2. QED BY <3>1
    <2>3. QED BY <2>1, <2>2
  <1>7. D * x \in 0..(N1 - 1)
    <2>1. D * x + 0 \in 0..(D * N2 - 1)
      BY <1>2, R3!SlotWithin
    <2>2. D * x \in Int
      BY <1>2
    <2>3. QED BY <1>2, <2>1, <2>2
  <1> DEFINE t == PhaseAcc[x]
             e == E[x]
             y == PhaseCt[D * x]
             m == SwitchedNoise
  <1>8. t \in Int /\ e \in Int /\ y = (t + e) % Q3
    BY <1>1, <1>2, <1>4, <1>5, <1>6, R3!SubAt
  <1>9. y \in Int
    BY <1>1, <1>7 DEF R3!Poly, R3!Coeff
  <1>10. R3!Close(Q3, m, e, 0) /\ m \in Int /\ m \in Nat
    BY <1>4
  <1> HIDE DEF t, e, y, m, E
  <1>11. t + e \in Int /\ t + 0 = t /\ m + 0 = m /\ 0 + m = m
    BY <1>8, <1>10
  <1>12. R3!Close(Q3, 0, t, t) /\ R3!Close(Q3, 0, t + e, y)
    BY <1>2, <1>8, <1>11, R3!CloseMod
  <1>13. R3!Close(Q3, 0 + m, t + e, t + 0)
    BY <1>2, <1>8, <1>10, <1>12, R3!CloseSum, Zenon
  <1>14. R3!Close(Q3, m, t, t + e)
    <2>1. R3!Close(Q3, m, t + e, t)
      BY <1>11, <1>13
    <2>2. QED BY <1>2, <1>8, <1>10, <1>11, <2>1, R3!CloseSym, Zenon
  <1>15. R3!Close(Q3, m + 0, t, y)
    BY <1>2, <1>8, <1>9, <1>10, <1>11, <1>12, <1>14, R3!CloseTrans, Zenon
  <1>16. R2!Close(Q3, m, t, y)
    BY <1>11, <1>15, SameClose
  <1>17. QED BY <1>7, <1>8, <1>9, <1>10, <1>16 DEF t, y, m

\* The phase at Q2 and, rescaled, at Q3.
LEMMA SwitchedPhase ==
  ASSUME RInv, pc \in {"recover", "done"}, NEW x \in 0..(N1 - 1)
  PROVE  /\ R2!Close(2 * (Q2 * Q3), Q2 * (1 + Norm1(s1)), (2 * Q2) * PhaseCt[x], (2 * Q3) * PhaseQ2(fresh)[x])
         /\ Norm1(s1) \in Nat /\ PhaseQ2(fresh)[x] \in Int /\ PhaseCt[x] \in Int
  <1>1. /\ s1 \in CenteredPoly(N1) /\ RescaledInv
        /\ fresh.mask \in R2!Poly(N1) /\ fresh.body \in R2!Poly(N1) /\ fresh \in CtsAt2
        /\ ct.mask \in R3!Poly(N1) /\ ct.body \in R3!Poly(N1)
    BY Answered
  <1>2. /\ Q2 \in Nat \ {0} /\ Q3 \in Nat \ {0} /\ N1 \in Nat \ {0} /\ N1 \in Nat
    BY Constants
  <1>3. /\ s1 \in [0..(N1 - 1) -> Int]
        /\ Lift(s1, Q2) = [i \in 0..(N1 - 1) |-> s1[i] % Q2]
        /\ Lift(s1, Q3) = [i \in 0..(N1 - 1) |-> s1[i] % Q3]
    BY <1>1 DEF CenteredPoly, Lift
  <1>4. PICK q : /\ R2!Steps(Q2, q, s1, fresh.mask, N1, x)
                 /\ R2!Close(Q2, 0, R2!Sub(fresh.body, R2!Mul(fresh.mask, [i \in 0..(N1 - 1) |-> s1[i] % Q2], N1))[x], fresh.body[x] - q[N1])
                 /\ R2!Sub(fresh.body, R2!Mul(fresh.mask, [i \in 0..(N1 - 1) |-> s1[i] % Q2], N1))[x] \in Int
    BY <1>1, <1>2, <1>3, R2!PhaseSteps
  <1>5. PICK u : /\ R3!Steps(Q3, u, s1, ct.mask, N1, x)
                 /\ R3!Close(Q3, 0, R3!Sub(ct.body, R3!Mul(ct.mask, [i \in 0..(N1 - 1) |-> s1[i] % Q3], N1))[x], ct.body[x] - u[N1])
                 /\ R3!Sub(ct.body, R3!Mul(ct.mask, [i \in 0..(N1 - 1) |-> s1[i] % Q3], N1))[x] \in Int
    BY <1>1, <1>2, <1>3, R3!PhaseSteps
  <1>6. PhaseQ2(fresh) = R2!Sub(fresh.body, R2!Mul(fresh.mask, Lift(s1, Q2), N1))
    BY <1>1, PhaseIn
  <1>7. R2!Close(Q2, 0, PhaseQ2(fresh)[x], fresh.body[x] - q[N1]) /\ PhaseQ2(fresh)[x] \in Int
    BY <1>3, <1>4, <1>6
  <1>8. R3!Close(Q3, 0, PhaseCt[x], ct.body[x] - u[N1]) /\ PhaseCt[x] \in Int
    BY <1>3, <1>5 DEF PhaseCt
  <1>9. PICK h : R2!Weights(h, s1, N1)
    BY <1>2, <1>3, R2!WeightsExist
  <1>10. Norm1(s1) = h[N1] /\ h[N1] \in Nat
    <2>1. R3!Weights(h, s1, N1)
      BY <1>9, SameClose
    <2>2. QED BY <1>1, <1>2, <2>1, Norm1Is
  <1>11. /\ ct.mask = Rescale(fresh.mask, Q2, Q3) /\ ct.body = Rescale(fresh.body, Q2, Q3)
    BY <1>1 DEF RescaledInv, Ct
  <1>12. /\ R2!Steps(Q3, u, s1, Rescale(fresh.mask, Q2, Q3), N1, x)
         /\ R2!Close(Q3, 0, PhaseCt[x], Rescale(fresh.body, Q2, Q3)[x] - u[N1])
    BY <1>5, <1>8, <1>11, SameClose
  <1>13. /\ fresh.mask \in [0..(N1 - 1) -> 0..(Q2 - 1)] /\ fresh.body \in [0..(N1 - 1) -> 0..(Q2 - 1)]
    BY <1>1 DEF R2!Poly, R2!Coeff
  <1> DEFINE y == PhaseQ2(fresh)[x]
             z == PhaseCt[x]
             a == fresh.mask
             b == fresh.body
  <1>14. y \in Int /\ z \in Int
    BY <1>7, <1>8
  <1> HIDE DEF y, z, a, b
  <1>15. R2!Close(2 * (Q2 * Q3), Q2 * (1 + h[N1]), (2 * Q2) * z, (2 * Q3) * y)
    <2>1. /\ R2!Steps(Q2, q, s1, a, N1, x) /\ R2!Close(Q2, 0, y, b[x] - q[N1])
          /\ R2!Steps(Q3, u, s1, Rescale(a, Q2, Q3), N1, x)
          /\ R2!Close(Q3, 0, z, Rescale(b, Q2, Q3)[x] - u[N1])
          /\ a \in [0..(N1 - 1) -> 0..(Q2 - 1)] /\ b \in [0..(N1 - 1) -> 0..(Q2 - 1)]
      BY <1>4, <1>7, <1>12, <1>13 DEF y, z, a, b
    <2>2. QED BY <1>1, <1>2, <1>9, <1>14, <2>1, RescalePhase, Zenon
  <1>16. QED BY <1>7, <1>8, <1>10, <1>15 DEF y, z

\* The difference of two polynomials at Q4, coefficient by coefficient.
LEMMA Sub4 ==
  ASSUME NEW f \in AtQ4!Poly(N2), NEW g \in AtQ4!Poly(N2)
  PROVE  /\ AtQ4!Sub(f, g) \in AtQ4!Poly(N2)
         /\ \A x \in 0..(N2 - 1) : /\ f[x] \in Int /\ g[x] \in Int
                                   /\ AtQ4!Sub(f, g)[x] \in Int /\ AtQ4!Sub(f, g)[x] = (f[x] - g[x]) % Q4
  <1>1. Q2 \in Nat \ {0} /\ Q4 \in Nat \ {0}
    BY Constants
  <1>2. f \in [0..(N2 - 1) -> 0..(Q4 - 1)] /\ g \in [0..(N2 - 1) -> 0..(Q4 - 1)]
    BY DEF AtQ4!Poly, AtQ4!Coeff
  <1>3. ASSUME NEW a \in 0..(Q4 - 1), NEW b \in 0..(Q4 - 1)
        PROVE  (a + ((Q4 - b) % Q4)) % Q4 = (a - b) % Q4 /\ (a - b) % Q4 \in 0..(Q4 - 1)
    <2>1. Q4 - b \in Int /\ a - b \in Int
      BY <1>1
    <2> DEFINE r == (Q4 - b) % Q4
               k == (Q4 - b) \div Q4
               u == a + r
               v == a - b
    <2>2. k \in Int /\ r \in 0..(Q4 - 1) /\ Q4 - b = Q4 * k + r
      BY <1>1, <2>1, R2!IntDivMod
    <2> HIDE DEF r, k
    <2>3. Q4 * (1 - k) = Q4 - Q4 * k /\ 1 - k \in Int /\ Q4 * k \in Int
      BY <1>1, <2>2
    <2> DEFINE s == Q4 * k
               t == Q4 * (1 - k)
    <2>4. s \in Int /\ t = Q4 - s /\ Q4 - b = s + r
      BY <2>2, <2>3
    <2> HIDE DEF s, t
    <2>5. u = v + t /\ u \in Int /\ v \in Int
      BY <1>1, <2>2, <2>4
    <2> HIDE DEF u, v
    <2>6. u % Q4 = v % Q4 /\ u % Q4 \in 0..(Q4 - 1)
      <3>1. u = v + Q4 * (1 - k)
        BY <2>5 DEF t
      <3> DEFINE c == 1 - k
      <3>2. c \in Int /\ u = v + Q4 * c
        BY <2>3, <3>1
      <3> HIDE DEF c
      <3>3. QED BY <1>1, <2>5, <3>2, R2!SameRemainder, Zenon
    <2>7. QED BY <2>6 DEF u, v, r
  <1>4. AtQ4!Sub(f, g) = [x \in 0..(N2 - 1) |-> (f[x] + ((Q4 - g[x]) % Q4)) % Q4]
    BY <1>2 DEF AtQ4!Sub, AtQ4!Add, AtQ4!Neg
  <1>5. \A x \in 0..(N2 - 1) : f[x] \in 0..(Q4 - 1) /\ g[x] \in 0..(Q4 - 1)
    BY <1>2
  <1>6. \A x \in 0..(N2 - 1) : /\ AtQ4!Sub(f, g)[x] = (f[x] - g[x]) % Q4
                               /\ (f[x] + ((Q4 - g[x]) % Q4)) % Q4 \in 0..(Q4 - 1)
    BY <1>3, <1>4, <1>5
  <1>7. AtQ4!Sub(f, g) \in AtQ4!Poly(N2)
    BY <1>4, <1>6, Zenon DEF AtQ4!Poly, AtQ4!Coeff
  <1>8. \A c \in 0..(Q4 - 1) : c \in Int
    OBVIOUS
  <1>9. QED BY <1>4, <1>5, <1>6, <1>7, <1>8

\* Rescaling to the same modulus changes nothing.
LEMMA RescaleSame ==
  ASSUME NEW n, NEW q \in Nat \ {0}, NEW f \in [0..(n - 1) -> 0..(q - 1)]
  PROVE  Rescale(f, q, q) = f
  <1>1. ASSUME NEW c \in 0..(q - 1) PROVE ((c * q + (q \div 2)) \div q) % q = c
    <2> DEFINE h == q \div 2
               v == c * q + h
    <2>1. h \in 0..(q - 1)
      <3>1. \A k \in Nat \ {0} : k \div 2 \in 0..(k - 1)
        BY Z3
      <3>2. QED BY <3>1
    <2>2. c * q = q * c /\ q * c \in Int /\ c \in Int
      BY Z3
    <2> HIDE DEF h
    <2>3. v = q * c + h
      BY <2>1, <2>2
    <2>4. v \in Int
      BY <2>1, <2>2, <2>3
    <2> HIDE DEF v
    <2>5. Q2 \in Nat \ {0} /\ q * 0 + c = c /\ 0 \in Int
      BY <2>2, Constants
    <2>6. v \div q = c
      BY <2>1, <2>2, <2>3, <2>4, <2>5, R2!IntDivModUnique, Zenon
    <2>7. c % q = c
      OBVIOUS
    <2>8. QED BY <2>6, <2>7 DEF v, h
  <1>2. \A x \in 0..(n - 1) : f[x] \in 0..(q - 1)
    OBVIOUS
  <1>3. Rescale(f, q, q) = [x \in 0..(n - 1) |-> ((f[x] * q + (q \div 2)) \div q) % q]
    BY Zenon DEF Rescale
  <1>4. Rescale(f, q, q) = [x \in 0..(n - 1) |-> f[x]]
    BY <1>1, <1>2, <1>3
  <1>5. QED BY <1>4

\* The answer is canonical, and what is decoded the accumulator's phase,
\* rounded twice.
LEMMA RoundedPhase ==
  ASSUME RInv, pc \in {"recover", "done"}
  PROVE  /\ answer \in [mask : AtQ3!Poly(N2), body : AtQ4!Poly(N2)]
         /\ Noisy \in AtQ4!Poly(N2)
         /\ \A x \in 0..(N2 - 1) :
              /\ Noisy[x] \in Int
              /\ R2!Close(2 * (Q3 * Q4), 2 * Q3, (2 * Q3) * Noisy[x], (2 * Q4) * PhaseAcc[x])
  <1> DEFINE prod == R3!Mul(acc.mask, Lift(s2, Q3), N2)
  <1>1. /\ AnswerInv /\ acc.mask \in R3!Poly(N2) /\ acc.body \in R3!Poly(N2)
        /\ prod \in R3!Poly(N2) /\ PhaseAcc \in R3!Poly(N2) /\ PhaseAcc = R3!Sub(acc.body, prod)
    BY Answered DEF PhaseAcc
  <1>2. Q3 \in Nat \ {0} /\ Q4 \in Nat \ {0} /\ N2 \in Nat \ {0}
    BY Constants
  <1>3. \A f \in R3!Poly(N2) : f \in [0..(N2 - 1) -> 0..(Q3 - 1)]
    BY DEF R3!Poly, R3!Coeff
  <1>4. \A f \in R3!Poly(N2) : Rescale(f, Q3, Q3) = f /\ Rescale(f, Q3, Q4) \in AtQ4!Poly(N2)
    <2>1. ASSUME NEW f \in R3!Poly(N2) PROVE Rescale(f, Q3, Q3) = f
      BY <1>2, <1>3, RescaleSame
    <2>2. ASSUME NEW f \in R3!Poly(N2) PROVE Rescale(f, Q3, Q4) \in AtQ4!Poly(N2)
      <3>1. f \in [0..(N2 - 1) -> 0..(Q3 - 1)]
        BY <1>3
      <3>2. Rescale(f, Q3, Q4) \in [0..(N2 - 1) -> 0..(Q4 - 1)]
        BY <1>2, <3>1, RescaleIn
      <3>3. QED BY <3>2 DEF AtQ4!Poly, AtQ4!Coeff
    <2>3. QED BY <2>1, <2>2
  <1>5. answer = Ct(acc.mask, Rescale(acc.body, Q3, Q4)) /\ answer.mask = acc.mask /\ answer.body = Rescale(acc.body, Q3, Q4)
    <2>1. answer = Ct(Rescale(acc.mask, Q3, Q3), Rescale(acc.body, Q3, Q4))
      BY <1>1 DEF AnswerInv
    <2>2. answer = Ct(acc.mask, Rescale(acc.body, Q3, Q4))
      BY <1>1, <1>4, <2>1
    <2>3. QED BY <2>2 DEF Ct
  <1>6. answer \in [mask : AtQ3!Poly(N2), body : AtQ4!Poly(N2)]
    <2>1. AtQ3!Poly(N2) = R3!Poly(N2)
      BY DEF AtQ3!Poly, AtQ3!Coeff, R3!Poly, R3!Coeff
    <2>2. Rescale(acc.body, Q3, Q4) \in AtQ4!Poly(N2)
      BY <1>1, <1>4
    <2>3. QED BY <1>1, <1>5, <2>1, <2>2 DEF Ct
  <1>7. Noisy = AtQ4!Sub(Rescale(acc.body, Q3, Q4), Rescale(prod, Q3, Q4))
    <2>2. Noisy = AtQ4!Sub(answer.body, Rescale(R3!Mul(answer.mask, Lift(s2, Q3), N2), Q3, Q4))
      BY Same3, Zenon DEF Noisy
    <2>3. QED BY <1>5, <2>2
  <1> HIDE DEF prod
  <1>8. Noisy \in AtQ4!Poly(N2)
    <2>1. Rescale(acc.body, Q3, Q4) \in AtQ4!Poly(N2) /\ Rescale(prod, Q3, Q4) \in AtQ4!Poly(N2)
      BY <1>1, <1>4
    <2>2. QED BY <1>2, <1>7, <2>1, Sub4
  <1>9. ASSUME NEW x \in 0..(N2 - 1)
        PROVE  /\ Noisy[x] \in Int
               /\ R2!Close(2 * (Q3 * Q4), 2 * Q3, (2 * Q3) * Noisy[x], (2 * Q4) * PhaseAcc[x])
    <2> DEFINE b == acc.body[x]
               a == prod[x]
               rb == Rescale(acc.body, Q3, Q4)[x]
               ra == Rescale(prod, Q3, Q4)[x]
               t == PhaseAcc[x]
               z == Noisy[x]
    <2>1. Rescale(acc.body, Q3, Q4) \in AtQ4!Poly(N2) /\ Rescale(prod, Q3, Q4) \in AtQ4!Poly(N2)
      BY <1>1, <1>4
    <2>2. rb \in Int /\ ra \in Int /\ z \in Int /\ z = (rb - ra) % Q4
      BY <1>2, <1>7, <2>1, Sub4
    <2>3. b \in Int /\ a \in Int /\ t \in Int /\ t = (b - a) % Q3
      BY <1>1, <1>2, R3!SubAt
    <2>4. /\ R2!Close(2 * (Q3 * Q4), Q3, (2 * Q3) * rb, (2 * Q4) * b)
          /\ R2!Close(2 * (Q3 * Q4), Q3, (2 * Q3) * ra, (2 * Q4) * a)
      <3>1. acc.body \in [0..(N2 - 1) -> 0..(Q3 - 1)] /\ prod \in [0..(N2 - 1) -> 0..(Q3 - 1)]
        BY <1>1, <1>3
      <3>2. \A f \in [0..(N2 - 1) -> 0..(Q3 - 1)] : \A k \in 0..(N2 - 1) :
              R2!Close(2 * (Q3 * Q4), Q3, (2 * Q3) * Rescale(f, Q3, Q4)[k], (2 * Q4) * f[k])
        BY <1>2, RescaleEach
      <3>3. QED BY <3>1, <3>2
    <2> HIDE DEF b, a, rb, ra, t, z
    <2>5. R2!Close(2 * (Q3 * Q4), 2 * Q3, (2 * Q3) * z, (2 * Q4) * t)
      BY <1>2, <2>2, <2>3, <2>4, Constants, R2!RoundedScales, Zenon
    <2>6. QED BY <2>2, <2>5 DEF z, t
  <1>10. QED BY <1>6, <1>8, <1>9

\* AddedNoise, with the sum of the errors by its name.
LEMMA AddedNoiseIs ==
  AddedNoise = Q2 * Q4 * (1 + Norm1(s1)) + 2 * Q2 * Q4 * SwitchedNoise + 2 * Q2 * Q3
  BY Zenon DEF AddedNoise, SwitchedNoise

\* What the client decodes, and slot 0 of the input's phase.
LEMMA AnswerClose ==
  ASSUME RInv, pc \in {"recover", "done"}, NEW x \in 0..(N2 - 1)
  PROVE  /\ R2!Close(2 * Q2 * Q3 * Q4, AddedNoise, 2 * Q3 * (Q2 * Noisy[x]), 2 * Q3 * (Q4 * PhaseQ2(fresh)[D * x]))
         /\ AddedNoise \in Nat /\ Noisy[x] \in Int /\ PhaseQ2(fresh)[D * x] \in Int /\ D * x \in 0..(N1 - 1)
         /\ AtQ2!ProjectAt(AtQ2!Sub(fresh.body, AtQ2!Mul(fresh.mask, Lift(s1, Q2), N1)), N1, N2, 0)[x]
              = PhaseQ2(fresh)[D * x]
  <1> DEFINE y == D * x
             n == Noisy[x]
             t == PhaseAcc[x]
             c == PhaseCt[y]
             p == PhaseQ2(fresh)[y]
             S == SwitchedNoise
             H == Norm1(s1)
  <1>1. /\ n \in Int /\ R2!Close(2 * (Q3 * Q4), 2 * Q3, (2 * Q3) * n, (2 * Q4) * t)
    BY RoundedPhase
  <1>2. /\ R2!Close(Q3, S, t, c) /\ S \in Nat /\ t \in Int /\ c \in Int /\ y \in 0..(N1 - 1)
    BY CarriedPhase
  <1>3. /\ R2!Close(2 * (Q2 * Q3), Q2 * (1 + H), (2 * Q2) * c, (2 * Q3) * p)
        /\ H \in Nat /\ p \in Int
    <2> HIDE DEF y
    <2>1. QED BY <1>2, SwitchedPhase
  <1>4. /\ Q2 \in Nat \ {0} /\ Q3 \in Nat /\ Q4 \in Nat /\ D \in Nat \ {0} /\ N2 \in Nat \ {0} /\ N1 = D * N2
        /\ R2!Tower(N1, D, N2) /\ 0 \in 0..(D - 1)
    BY Constants DEF R2!Tower
  <1>5. AtQ2!ProjectAt(AtQ2!Sub(fresh.body, AtQ2!Mul(fresh.mask, Lift(s1, Q2), N1)), N1, N2, 0)[x] = p
    <2>1. PhaseQ2(fresh) \in R2!Poly(N1) /\ PhaseQ2(fresh) = R2!Sub(fresh.body, R2!Mul(fresh.mask, Lift(s1, Q2), N1))
      BY Answered, PhaseIn
    <2>2. R2!ProjectAt(PhaseQ2(fresh), N1, N2, 0)[x] = PhaseQ2(fresh)[D * x + 0]
      BY <1>4, <2>1, R2!SlotIn
    <2>3. D * x + 0 = y
      <3>1. D * x \in Int
        BY <1>4
      <3>2. QED BY <3>1
    <2>4. R2!ProjectAt(PhaseQ2(fresh), N1, N2, 0)[x] = p
      BY <2>2, <2>3
    <2>5. AtQ2!ProjectAt(AtQ2!Sub(fresh.body, AtQ2!Mul(fresh.mask, Lift(s1, Q2), N1)), N1, N2, 0) = R2!ProjectAt(PhaseQ2(fresh), N1, N2, 0)
      <3>1. AtQ2!Sub(fresh.body, AtQ2!Mul(fresh.mask, Lift(s1, Q2), N1)) = PhaseQ2(fresh)
        BY Zenon DEF PhaseQ2
      <3>2. QED BY <3>1, Same2, Zenon
    <2>6. QED BY <2>4, <2>5
  <1> HIDE DEF y, n, t, c, p, S, H
  <1>6. R2!Close(2 * Q2 * Q3 * Q4, Q2 * Q4 * (1 + H) + 2 * Q2 * Q4 * S + 2 * Q2 * Q3, 2 * Q3 * (Q2 * n), 2 * Q3 * (Q4 * p))
    BY <1>1, <1>2, <1>3, Constants, R2!NoiseAdds, Zenon
  <1>7. AddedNoise = Q2 * Q4 * (1 + H) + 2 * Q2 * Q4 * S + 2 * Q2 * Q3
    BY AddedNoiseIs DEF S, H
  <1>8. AddedNoise \in Nat
    <2>1. \A k, l \in Nat : k * l \in Nat
      BY Z3
    <2>2. 1 + H \in Nat /\ 2 * Q2 \in Nat /\ Q2 \in Nat
      BY <1>3, <1>4
    <2>3. Q2 * Q4 \in Nat /\ 2 * Q2 * Q4 \in Nat /\ 2 * Q2 * Q3 \in Nat
      BY <1>4, <2>1, <2>2
    <2>4. Q2 * Q4 * (1 + H) \in Nat /\ 2 * Q2 * Q4 * S \in Nat
      BY <1>2, <2>1, <2>2, <2>3
    <2> DEFINE r1 == 2 * Q2 * Q3
               r2 == 2 * Q2 * Q4 * S
               r3 == Q2 * Q4 * (1 + H)
    <2>5. r1 \in Nat /\ r2 \in Nat /\ r3 \in Nat /\ AddedNoise = r3 + r2 + r1
      BY <1>7, <2>3, <2>4
    <2> HIDE DEF r1, r2, r3
    <2>6. QED BY <2>5
  <1>9. R2!Close(2 * Q2 * Q3 * Q4, AddedNoise, 2 * Q3 * (Q2 * n), 2 * Q3 * (Q4 * p))
    BY <1>6, <1>7
  <1>10. QED BY <1>1, <1>2, <1>3, <1>5, <1>8, <1>9 DEF y, n, p

\* A centred remainder of two close values is small.
LEMMA CenteredSmall ==
  ASSUME NEW w \in Nat \ {0}, NEW m \in Nat, NEW u \in Int, NEW v \in Int, R2!Close(w, m, u, v)
  PROVE  Abs(Centered((u - v) % w, w)) <= m
  <1> DEFINE z == (u - v) % w
             a == IF z <= w \div 2 THEN z ELSE z - w
  <1>1. Q2 \in Nat \ {0}
    BY Constants
  <1>2. a \in Int /\ a <= m /\ -a <= m
    BY <1>1, R2!CloseCentered, Zenon
  <1>3. Centered(z, w) = a
    BY DEF Centered
  <1> HIDE DEF a
  <1>4. Abs(a) <= m
    BY <1>2 DEF Abs
  <1>5. QED BY <1>3, <1>4

\* The answer is canonical, and the client decodes slot 0 of the input's phase
\* up to the noise the compression may add (resp_comp.rs, "Three rescales +
\* one ring-switch").
THEOREM AnswerIsClose == KeySpec => []AnswerNoise
  <1>1. RInv => AnswerNoise
    <2>1. SUFFICES ASSUME RInv, pc = "recover" PROVE AnswerNoise
      BY DEF AnswerNoise
    <2> DEFINE phase == AtQ2!Sub(fresh.body, AtQ2!Mul(fresh.mask, Lift(s1, Q2), N1))
               whole == 2 * Q2 * Q3 * Q4
               Deviation(x) == Centered((2 * Q3 * (Q2 * Noisy[x] - Q4 * AtQ2!ProjectAt(phase, N1, N2, 0)[x])) % whole, whole)
    <2>2. answer \in [mask : AtQ3!Poly(N2), body : AtQ4!Poly(N2)]
      BY <2>1, RoundedPhase
    <2>3. ASSUME NEW x \in 0..(N2 - 1) PROVE Abs(Deviation(x)) <= AddedNoise
      <3> DEFINE n == Noisy[x]
                 p == PhaseQ2(fresh)[D * x]
                 u == 2 * Q3 * (Q2 * n)
                 v == 2 * Q3 * (Q4 * p)
      <3>1. /\ R2!Close(whole, AddedNoise, u, v) /\ AddedNoise \in Nat /\ n \in Int /\ p \in Int
            /\ AtQ2!ProjectAt(phase, N1, N2, 0)[x] = p
        BY <2>1, AnswerClose
      <3>2. Q2 \in Nat \ {0} /\ Q3 \in Nat \ {0} /\ Q4 \in Nat \ {0}
        BY Constants
      <3>3. \A k, l \in Nat \ {0} : k * l \in Nat \ {0}
        BY Z3
      <3>4. \A k, l \in Int : k * l \in Int
        OBVIOUS
      <3> HIDE DEF n, p
      <3>5. whole \in Nat \ {0} /\ u \in Int /\ v \in Int /\ Q2 * n \in Int /\ Q4 * p \in Int /\ 2 * Q3 \in Int
        <4>1. 2 * Q2 \in Nat \ {0} /\ 2 * Q3 \in Int
          BY <3>2
        <4>2. 2 * Q2 * Q3 \in Nat \ {0}
          BY <3>2, <3>3, <4>1
        <4>3. Q2 * n \in Int /\ Q4 * p \in Int
          BY <3>1, <3>2, <3>4
        <4>4. QED BY <3>2, <3>3, <3>4, <4>1, <4>2, <4>3
      <3>6. u - v = 2 * Q3 * (Q2 * n - Q4 * p)
        <4>1. \A k, l, m \in Int : k * l - k * m = k * (l - m)
          BY Z3
        <4>2. QED BY <3>5, <4>1
      <3> HIDE DEF u, v, whole
      <3>7. Abs(Centered((u - v) % whole, whole)) <= AddedNoise
        BY <3>1, <3>5, CenteredSmall
      <3>8. Deviation(x) = Centered((u - v) % whole, whole)
        BY <3>1, <3>6 DEF n
      <3>9. QED BY <3>7, <3>8
    <2>4. QED BY <2>1, <2>2, <2>3, Zenon DEF AnswerNoise
  <1>2. QED BY <1>1, ResponseInvariant, PTL

\* Delta rounds up.
LEMMA DeltaIs ==
  Delta(Q2) \in Nat /\ PT * Delta(Q2) - Q2 \in Nat
  <1> DEFINE d == (Q2 + PT - 1) \div PT
             r == (Q2 + PT - 1) % PT
  <1>1. Q2 \in Nat \ {0} /\ PT \in Nat \ {0} /\ Q2 + PT - 1 \in Nat /\ Q2 + PT - 1 \in Int
    BY Constants
  <1>2. d \in Nat /\ r \in 0..(PT - 1) /\ Q2 + PT - 1 = PT * d + r
    BY <1>1, R2!DivMod
  <1> HIDE DEF d, r
  <1>3. PT * d \in Int
    BY <1>1, <1>2
  <1> DEFINE s == PT * d
  <1>4. s \in Int /\ Q2 + PT - 1 = s + r
    BY <1>2, <1>3
  <1> HIDE DEF s
  <1>5. s - Q2 \in Nat
    BY <1>1, <1>2, <1>4
  <1>6. QED BY <1>2, <1>5 DEF Delta, d, s

\* Whenever the noise is within the budget the documentation states, the
\* client reads slot 0 of the plaintext (resp_comp.rs, "correctness needs the
\* total under q4 / (2p)").
THEOREM ResponseRecovered == KeySpec => []Recovered
  <1>1. RInv => Recovered
    <2>1. SUFFICES ASSUME RInv, pc = "done", WithinBudget PROVE recovered = AtPT!ProjectAt(message, N1, N2, 0)
      BY DEF Recovered
    <2>2. /\ recovered = Decode(Noisy, Q4) /\ Noisy \in AtQ4!Poly(N2) /\ FreshInv
      BY <2>1, RoundedPhase, Answered DEF RInv
    <2>3. /\ PT \in Nat \ {0} /\ Q2 \in Nat \ {0} /\ N1 \in Nat \ {0} /\ N2 \in Nat \ {0} /\ D \in Nat \ {0} /\ N1 = D * N2
          /\ Q3 \in Nat \ {0} /\ Q4 \in Nat \ {0}
      BY Constants
    <2>4. /\ message \in AtPT!Poly(N1) /\ noise \in CenteredPoly(N1)
          /\ \A x \in 0..(N1 - 1) : PhaseQ2(fresh)[x] = (Encode(message, Q2)[x] + noise[x]) % Q2
      BY <2>2 DEF FreshInv
    <2>5. DOMAIN Noisy = 0..(N2 - 1) /\ \A x \in 0..(N2 - 1) : Noisy[x] \in 0..(Q4 - 1)
      BY <2>2 DEF AtQ4!Poly, AtQ4!Coeff
    <2>6. recovered = [x \in 0..(N2 - 1) |-> ((PT * Centered(Noisy[x], Q4) + (Q4 \div 2)) \div Q4) % PT]
      BY <2>2, <2>5, Zenon DEF Decode
    <2>7. ASSUME NEW x \in 0..(N2 - 1)
          PROVE  ((PT * Centered(Noisy[x], Q4) + (Q4 \div 2)) \div Q4) % PT = message[D * x]
      <3> DEFINE n == Noisy[x]
                 z == D * x
                 m == message[z]
                 v == noise[z]
                 B == NormMax(noise)
                 A == AddedNoise
                 d == Delta(Q2)
                 p == PhaseQ2(fresh)[z]
      <3>1. /\ R2!Close(2 * Q2 * Q3 * Q4, A, 2 * Q3 * (Q2 * n), 2 * Q3 * (Q4 * p))
            /\ A \in Nat /\ n \in Int /\ p \in Int /\ z \in 0..(N1 - 1)
        BY <2>1, AnswerClose
      <3>2. d \in Nat /\ PT * d - Q2 \in Nat
        BY DeltaIs
      <3>3. v \in Int /\ B \in Nat /\ v <= B /\ -v <= B
        <4> HIDE DEF z
        <4>1. QED BY <2>3, <2>4, <3>1, NormMaxIs DEF CenteredPoly
      <3>4. m \in 0..(PT - 1) /\ p = (((m * d) % Q2) + v) % Q2
        <4> HIDE DEF z
        <4>1. m \in 0..(PT - 1) /\ Encode(message, Q2)[z] = (m * d) % Q2
          BY <2>4, <3>1, EncodeIn
        <4>2. p = (Encode(message, Q2)[z] + v) % Q2
          BY <2>4, <3>1
        <4>3. QED BY <4>1, <4>2
      <3>5. PT * A + 2 * Q3 * Q4 * (PT * B + (PT * d - Q2) * (PT - 1)) < Q2 * Q3 * Q4
        BY <2>1, Zenon DEF WithinBudget
      <3>6. n \in 0..(Q4 - 1)
        BY <2>5
      <3> HIDE DEF n, z, m, v, B, A, d, p
      <3>7. PICK k \in Int : /\ 2 * (PT * n - Q4 * (m + PT * k)) < Q4
                             /\ -(2 * (PT * n - Q4 * (m + PT * k))) < Q4
        BY <2>3, <3>1, <3>2, <3>3, <3>4, <3>5, R2!BudgetKeeps, Zenon
      <3>8. ((PT * Centered(n, Q4) + (Q4 \div 2)) \div Q4) % PT = m
        <4>1. ((PT * (IF n <= Q4 \div 2 THEN n ELSE n - Q4) + (Q4 \div 2)) \div Q4) % PT = m
          BY <2>3, <3>4, <3>6, <3>7, R2!DecodeRounds, Zenon
        <4>2. QED BY <4>1, Zenon DEF Centered
      <3>9. QED BY <3>8 DEF n, m, z
    <2>8. AtPT!ProjectAt(message, N1, N2, 0) = [x \in 0..(N2 - 1) |-> message[D * x]]
      <3>1. \A x \in 0..(N2 - 1) : D * x + 0 = D * x
        <4>1. \A x \in 0..(N2 - 1) : D * x \in Int
          BY <2>3
        <4>2. QED BY <4>1
      <3>2. AtPT!ProjectAt(message, N1, N2, 0) = [x \in 0..(N2 - 1) |-> message[D * x + 0]]
        BY Zenon DEF AtPT!ProjectAt, D
      <3>3. QED BY <3>1, <3>2
    <2>9. QED BY <2>6, <2>7, <2>8, Zenon
  <1>2. QED BY <1>1, ResponseInvariant, PTL

\* A sample after the switch: what SwitchedKeySelects says of it.
LEMMA SwitchedSample ==
  ASSUME s1 \in CenteredPoly(N1), bit \in 0..1, EncryptedInv, SwitchedInv,
         NEW h \in Halves, NEW i \in 0..(L - 1), NEW x \in 0..(N1 - 1)
  PROVE  /\ R2!Close(2 * Q1 * Q2, SampleSlack(h), 2 * Q1 * PhaseQ2(switched[h][i])[x], 2 * Q1 * (GadgetEntry(Q2, i) * HalfMessage(h)[x]))
         /\ SampleSlack(h) \in Nat /\ PhaseQ2(switched[h][i])[x] \in Int /\ GadgetEntry(Q2, i) * HalfMessage(h)[x] \in Int
  <1>1. PICK masks \in KeyMasks, errors \in KeyErrors : rgsw = Encrypted(bit, masks, errors)
    BY DEF EncryptedInv
  <1> DEFINE c == rgsw[h][i]
             d == switched[h][i]
             phase == R1!Sub(c.body, R1!Mul(c.mask, Lift(s1, Q1), N1))
             e == GadgetEntry(Q1, i)
             g == GadgetEntry(Q2, i)
             t == HalfMessage(h)[x]
             B == NormMax(HalfMessage(h))
  <1>2. /\ Q1 \in Nat \ {0} /\ Q2 \in Nat \ {0} /\ N1 \in Nat \ {0} /\ N1 \in Nat /\ KeyErrMax \in Nat /\ 1 \in 1..2
    BY Constants, GadgetParams
  <1>3. /\ c.mask \in R1!Poly(N1) /\ c.body \in R1!Poly(N1) /\ phase[x] \in Int
        /\ R2!Close(Q1, KeyErrMax, phase[x], e * t)
    BY <1>1, SampleIs
  <1>4. d \in CtsAt2 /\ d.mask = Rescale(c.mask, Q1, Q2) /\ d.body = Rescale(c.body, Q1, Q2)
    <2>1. switched \in KeySamples
      BY SwitchedIn
    <2>2. d \in CtsAt2
      BY <2>1 DEF KeySamples
    <2>3. d.mask = Rescale(c.mask, Q1, Q2) /\ d.body = Rescale(c.body, Q1, Q2)
      BY SwitchedIn
    <2>4. QED BY <2>2, <2>3
  <1>5. /\ PhaseQ2(d) = R2!Sub(d.body, R2!Mul(d.mask, Lift(s1, Q2), N1))
        /\ d.body \in R2!Poly(N1) /\ d.mask \in R2!Poly(N1)
    <2> HIDE DEF d
    <2>1. QED BY <1>4, PhaseIn
  <1>6. /\ s1 \in [0..(N1 - 1) -> Int]
        /\ Lift(s1, Q1) = [k \in 0..(N1 - 1) |-> s1[k] % Q1]
        /\ Lift(s1, Q2) = [k \in 0..(N1 - 1) |-> s1[k] % Q2]
    BY DEF CenteredPoly, Lift
  <1>7. /\ c.mask \in [0..(N1 - 1) -> 0..(Q1 - 1)] /\ c.body \in [0..(N1 - 1) -> 0..(Q1 - 1)]
    BY <1>3 DEF R1!Poly, R1!Coeff
  <1> DEFINE f == PhaseQ2(d)[x]
             o == phase[x]
             cm == c.mask
             cb == c.body
             dm == d.mask
             db == d.body
  <1>8. PICK q : /\ R1!Steps(Q1, q, s1, cm, N1, x) /\ R1!Close(Q1, 0, o, cb[x] - q[N1])
    <2>1. \E q : /\ R1!Steps(Q1, q, s1, cm, N1, x) /\ q[N1] \in Int
                 /\ R1!Close(Q1, 0, R1!Sub(cb, R1!Mul(cm, [k \in 0..(N1 - 1) |-> s1[k] % Q1], N1))[x], cb[x] - q[N1])
                 /\ R1!Sub(cb, R1!Mul(cm, [k \in 0..(N1 - 1) |-> s1[k] % Q1], N1))[x] \in Int
      <3>1. cm \in R1!Poly(N1) /\ cb \in R1!Poly(N1)
        BY <1>3
      <3> HIDE DEF cm, cb
      <3>2. QED BY <1>2, <1>6, <3>1, R1!PhaseSteps
    <2>2. QED BY <1>6, <2>1
  <1>9. PICK u : /\ R2!Steps(Q2, u, s1, dm, N1, x) /\ R2!Close(Q2, 0, f, db[x] - u[N1]) /\ f \in Int
    <2>1. \E u : /\ R2!Steps(Q2, u, s1, dm, N1, x) /\ u[N1] \in Int
                 /\ R2!Close(Q2, 0, R2!Sub(db, R2!Mul(dm, [k \in 0..(N1 - 1) |-> s1[k] % Q2], N1))[x], db[x] - u[N1])
                 /\ R2!Sub(db, R2!Mul(dm, [k \in 0..(N1 - 1) |-> s1[k] % Q2], N1))[x] \in Int
      <3>1. dm \in R2!Poly(N1) /\ db \in R2!Poly(N1)
        BY <1>5
      <3> HIDE DEF dm, db
      <3>2. QED BY <1>2, <1>6, <3>1, R2!PhaseSteps
    <2>2. QED BY <1>5, <1>6, <2>1
  <1>10. PICK w : R2!Weights(w, s1, N1)
    BY <1>2, <1>6, R2!WeightsExist
  <1>11. Norm1(s1) = w[N1] /\ w[N1] \in Nat
    <2>1. R3!Weights(w, s1, N1)
      BY <1>10, SameClose
    <2>2. QED BY <1>2, <2>1, Norm1Is
  <1>12. o \in Int /\ R2!Close(Q1, KeyErrMax, o, e * t)
    BY <1>3
  <1>13. /\ R2!Steps(Q1, q, s1, cm, N1, x) /\ R2!Close(Q1, 0, o, cb[x] - q[N1])
         /\ R2!Steps(Q2, u, s1, Rescale(cm, Q1, Q2), N1, x) /\ R2!Close(Q2, 0, f, Rescale(cb, Q1, Q2)[x] - u[N1])
    BY <1>4, <1>8, <1>9, SameClose
  <1>14. cm \in [0..(N1 - 1) -> 0..(Q1 - 1)] /\ cb \in [0..(N1 - 1) -> 0..(Q1 - 1)]
    BY <1>7
  <1>15. HalfMessage(h) \in CenteredPoly(N1)
    BY KeyMessageIs
  <1>16. t \in Int /\ B \in Nat /\ t <= B /\ -t <= B
    BY <1>2, <1>15, NormMaxIs DEF CenteredPoly
  <1>17. /\ e \in Nat /\ g \in Nat /\ PowerOfG[i + 1] \in Nat \ {0}
         /\ 2 * (PowerOfG[i + 1] * e - Q1) <= PowerOfG[i + 1] /\ -(2 * (PowerOfG[i + 1] * e - Q1)) <= PowerOfG[i + 1]
         /\ 2 * (PowerOfG[i + 1] * g - Q2) <= PowerOfG[i + 1] /\ -(2 * (PowerOfG[i + 1] * g - Q2)) <= PowerOfG[i + 1]
    <2>1. Q1 \in Nat /\ Q2 \in Nat
      BY <1>2
    <2>2. QED BY <2>1, EntryIs
  <1> HIDE DEF c, d, phase, e, g, t, B, f, o, cm, cb, dm, db
  <1>18. R2!Close(2 * (Q1 * Q2), Q1 * (1 + w[N1]), (2 * Q1) * f, (2 * Q2) * o)
    <2>1. f \in Int
      BY <1>9
    <2>2. QED BY <1>2, <1>10, <1>12, <1>13, <1>14, <2>1, RescalePhase, Zenon
  <1>19. 2 * (Q2 * e - Q1 * g) <= Q1 + Q2 /\ -(2 * (Q2 * e - Q1 * g)) <= Q1 + Q2
    <2> DEFINE b == PowerOfG[i + 1]
    <2> HIDE DEF b
    <2>1. b \in Nat \ {0} /\ 2 * (b * e - Q1) <= b /\ -(2 * (b * e - Q1)) <= b /\ 2 * (b * g - Q2) <= b /\ -(2 * (b * g - Q2)) <= b
      BY <1>17 DEF b
    <2>2. QED BY <1>2, <1>17, <2>1, R2!EntriesClose, Zenon
  <1> DEFINE H == w[N1]
             E == KeyErrMax
  <1>20. /\ R2!Close(2 * Q1 * Q2, (2 * Q2 * E) + (Q1 * (1 + H)) + (B * (Q1 + Q2)), 2 * Q1 * f, 2 * Q1 * (g * t))
         /\ (2 * Q2 * E) + (Q1 * (1 + H)) + (B * (Q1 + Q2)) \in Nat
    <2>1. H \in Nat /\ E \in Nat /\ f \in Int /\ R2!Close(2 * (Q1 * Q2), Q1 * (1 + H), (2 * Q1) * f, (2 * Q2) * o) /\ R2!Close(Q1, E, o, e * t)
      BY <1>2, <1>9, <1>11, <1>12, <1>18
    <2> HIDE DEF H, E
    <2>2. QED BY <1>2, <1>12, <1>16, <1>17, <1>19, <2>1, R2!SampleAdds, Zenon
  <1>21. SampleSlack(h) = (2 * Q2 * E) + (Q1 * (1 + H)) + (B * (Q1 + Q2))
    BY <1>11 DEF SampleSlack, B
  <1>22. g * t \in Int
    BY <1>16, <1>17
  <1>23. f \in Int
    BY <1>9
  <1>24. QED BY <1>20, <1>21, <1>22, <1>23 DEF f, g, t, d

\* The digits of a gadget product, and the gadget's entries.
DigitsOf(f) == [k \in 0..(L - 1) |-> DigitPoly(f, k)]
EntriesAtQ2 == [k \in 0..(L - 1) |-> GadgetEntry(Q2, k)]

\* They are integers of at most half the base, and numbers.
LEMMA DigitsAre ==
  ASSUME NEW f \in R2!Poly(N1)
  PROVE  /\ R2!Digits(DigitsOf(f), L, N1) /\ EntriesAtQ2 \in [0..(L - 1) -> Nat]
         /\ \A k \in 0..(L - 1) : /\ R2!Within(DigitsOf(f)[k], GBase \div 2, N1)
                                  /\ DigitsOf(f)[k] = DigitPoly(f, k) /\ EntriesAtQ2[k] = GadgetEntry(Q2, k)
                                  /\ Lift(DigitPoly(f, k), Q2) = R2!Reduced(DigitsOf(f)[k], N1)
  <1>1. \A k \in 0..(L - 1) : DigitsOf(f)[k] = DigitPoly(f, k) /\ EntriesAtQ2[k] = GadgetEntry(Q2, k)
    BY Zenon DEF DigitsOf, EntriesAtQ2
  <1>2. GBase \div 2 \in Nat /\ Q2 \in Nat
    BY GadgetParams, Constants
  <1>3. ASSUME NEW k \in 0..(L - 1)
        PROVE  /\ R2!Within(DigitPoly(f, k), GBase \div 2, N1) /\ DigitPoly(f, k) \in [0..(N1 - 1) -> Int]
               /\ Lift(DigitPoly(f, k), Q2) = R2!Reduced(DigitPoly(f, k), N1) /\ GadgetEntry(Q2, k) \in Nat
    <2> DEFINE d == DigitPoly(f, k)
               b == GBase \div 2
    <2>1. d \in [0..(N1 - 1) -> Int] /\ \A x \in 0..(N1 - 1) : d[x] <= b /\ -d[x] <= b
      BY DigitPolyIn
    <2>2. GadgetEntry(Q2, k) \in Nat
      BY <1>2, EntryIs
    <2> HIDE DEF d, b
    <2>3. R2!Within(d, b, N1)
      BY <1>2, <2>1 DEF R2!Within, b
    <2>4. Lift(d, Q2) = R2!Reduced(d, N1)
      BY <2>1 DEF Lift, R2!Reduced
    <2>5. QED BY <2>1, <2>2, <2>3, <2>4 DEF d, b
  <1>4. EntriesAtQ2 \in [0..(L - 1) -> Nat]
    BY <1>3 DEF EntriesAtQ2
  <1>5. R2!Digits(DigitsOf(f), L, N1)
    BY <1>1, <1>3 DEF R2!Digits
  <1>6. QED BY <1>1, <1>3, <1>4, <1>5

\* The recomposed digits of a polynomial.
Recomposed(f) == R2!Sums(R2!LevelTerms(DigitsOf(f), EntriesAtQ2, L, N1), 0, L, N1)

\* They are the polynomial up to what the decomposition leaves.
LEMMA DigitsRecompose ==
  ASSUME NEW f \in R2!Poly(N1), NEW x \in 0..(N1 - 1)
  PROVE  R2!Close(Q2, Gd!Delta(1), Recomposed(f)[x], f[x])
  <1> DEFINE d == DigitsOf(f)
             g == EntriesAtQ2
             T == R2!LevelTerms(d, g, L, N1)
             c == f[x]
             o == Gd!Delta(1)
  <1>1. Q2 \in Nat \ {0} /\ N1 \in Nat \ {0} /\ L \in Nat /\ R2!Zero(N1) \in R2!Poly(N1)
    <2>1. Q2 \in Nat \ {0} /\ N1 \in Nat \ {0} /\ L \in Nat
      BY Constants, GadgetParams
    <2>2. QED BY <2>1, R2!SubZero
  <1>2. c \in 0..(Q2 - 1)
    BY DEF R2!Poly, R2!Coeff
  <1>3. R2!Digits(d, L, N1) /\ g \in [0..(L - 1) -> Nat] /\ \A k \in 0..(L - 1) : d[k] = DigitPoly(f, k) /\ g[k] = GadgetEntry(Q2, k)
    BY DigitsAre
  <1> HIDE DEF d, g, c
  <1>4. PICK rest, t : Decomposed(c, rest, t)
    BY <1>2, DigitRuns
  <1>5. R2!Close(Q2, o, t[L], c) /\ o \in Nat
    BY <1>2, <1>4, DigitSum
  <1>6. T \in R2!Terms(L, N1)
    <2>1. R2!Carried(d, g, R2!Zero(N1), L, N1)
      BY <1>1, <1>3, R2!LevelsCarry, Zenon
    <2>2. QED BY <2>1 DEF R2!Carried
  <1>7. t \in [0..L -> Int] /\ t[0] = 0
    BY <1>4 DEF Decomposed
  <1>8. \A l \in 0..(L - 1) : R2!Close(Q2, 0, T[L - 1 - l][x], t[l + 1] - t[l])
    <2>1. ASSUME NEW l \in 0..(L - 1) PROVE R2!Close(Q2, 0, T[L - 1 - l][x], t[l + 1] - t[l])
      <3> DEFINE k == L - 1 - l
      <3>1. k \in 0..(L - 1) /\ l \in 0..L /\ l + 1 \in 0..L
        BY <1>1
      <3>2. t[l + 1] = t[l] + DigitOf(c, k) * GadgetEntry(Q2, k)
        BY <1>4, Zenon DEF Decomposed
      <3> HIDE DEF k
      <3>3. T[k] = R2!Scale(g[k] % Q2, R2!Reduced(d[k], N1))
        BY <3>1, Zenon DEF R2!LevelTerms
      <3> DEFINE u == t[l]
                 v == t[l + 1]
                 a == DigitOf(c, k)
                 b == GadgetEntry(Q2, k)
      <3>4. d[k] \in [0..(N1 - 1) -> Int] /\ g[k] \in Nat /\ g[k] = b
        BY <1>3, <3>1 DEF R2!Digits
      <3>5. d[k][x] = a
        <4>1. DigitPoly(f, k)[x] = DigitOf(f[x], k)
          BY <3>1, DigitPolyIn
        <4>2. QED BY <1>3, <3>1, <4>1 DEF c
      <3>6. u \in Int /\ v \in Int /\ a \in Int /\ b \in Int
        <4>1. a \in Int
          BY <1>2, <1>4, <3>1, DigitSum
        <4>2. QED BY <1>7, <3>1, <3>4, <4>1
      <3>7. R2!Close(Q2, 0, R2!Scale(g[k] % Q2, R2!Reduced(d[k], N1))[x], g[k] * d[k][x])
        <4>1. \A h \in Nat, y \in 0..(N1 - 1) : R2!Close(Q2, 0, R2!Scale(h % Q2, R2!Reduced(d[k], N1))[y], h * d[k][y])
          BY <1>1, <3>4, R2!ReducedIn
        <4>2. QED BY <3>4, <4>1
      <3>8. v - u = g[k] * d[k][x]
        <4>1. v - u = b * a
          <5>1. v = u + a * b
            BY <3>2
          <5>2. a * b = b * a /\ a * b \in Int
            BY <3>6
          <5> HIDE DEF u, v, a, b
          <5>3. QED BY <3>6, <5>1, <5>2
        <4>2. QED BY <3>4, <3>5, <4>1
      <3>9. QED BY <3>3, <3>7, <3>8 DEF k
    <2>2. QED BY <2>1
  <1> DEFINE W == R2!Sums(T, 0, L, N1)
  <1> HIDE DEF T
  <1>9. R2!Close(Q2, 0, W[x], t[L]) /\ W[x] \in Int
    BY <1>1, <1>6, <1>7, <1>8, R2!SumsTotal, Zenon
  <1> DEFINE y == W[x]
             z == t[L]
  <1>10. y \in Int /\ z \in Int /\ R2!Close(Q2, 0, y, z) /\ R2!Close(Q2, o, z, c) /\ c \in Int /\ Q2 \in Int /\ 0 \in Int /\ o \in Int
    <2>1. L \in 0..L /\ c \in Int
      BY <1>1, <1>2
    <2>2. QED BY <1>1, <1>5, <1>7, <1>9, <2>1
  <1> HIDE DEF y, z, o
  <1>11. R2!Close(Q2, 0 + o, y, c) /\ 0 + o = o
    <2>1. R2!Close(Q2, 0 + o, y, c)
      BY <1>1, <1>10, R2!CloseTrans, Zenon
    <2>2. QED BY <1>10, <2>1
  <1>12. R2!Close(Q2, o, y, c)
    BY <1>11
  <1>13. QED BY <1>12 DEF y, c, o, W, T, d, g, Recomposed

\* The phases of the samples of half h of the switched bit.
SamplePhases(h) == [k \in 0..(L - 1) |-> PhaseQ2(switched[h][k])]

\* The samples hold the message, and the digits are small.
LEMMA GateSamples ==
  ASSUME s1 \in CenteredPoly(N1), bit \in 0..1, EncryptedInv, SwitchedInv,
         NEW h \in Halves, NEW f \in R2!Poly(N1)
  PROVE  /\ R2!GadgetSamples(DigitsOf(f), SamplePhases(h), EntriesAtQ2, HalfMessage(h), GBase \div 2, Q1, SampleSlack(h), L, N1)
         /\ PhaseTerms(switched[h], f) = R2!DigitTerms(DigitsOf(f), SamplePhases(h), L, N1)
         /\ PhaseTerms(switched[h], f) \in R2!Terms(L, N1)
  <1> DEFINE d == DigitsOf(f)
             p == SamplePhases(h)
             g == EntriesAtQ2
             M == HalfMessage(h)
             S == SampleSlack(h)
             b == GBase \div 2
  <1>1. Q1 \in Nat \ {0} /\ Q2 \in Nat \ {0} /\ N1 \in Nat \ {0} /\ L \in Nat \ {0} /\ b \in Nat
    BY Constants, GadgetParams
  <1>2. \A k \in 0..(L - 1) : p[k] = PhaseQ2(switched[h][k]) /\ p = [i \in 0..(L - 1) |-> p[i]]
    BY Zenon DEF SamplePhases
  <1>3. switched[h] \in [0..(L - 1) -> CtsAt2] /\ \A k \in 0..(L - 1) : switched[h][k] \in CtsAt2
    <2>1. switched \in KeySamples
      BY SwitchedIn
    <2>2. QED BY <2>1 DEF KeySamples
  <1>4. M \in [0..(N1 - 1) -> Int]
    <2>1. M \in CenteredPoly(N1)
      BY KeyMessageIs
    <2>2. QED BY <2>1 DEF CenteredPoly
  <1>5. \A k \in 0..(L - 1) : /\ R2!Within(d[k], b, N1) /\ g[k] = GadgetEntry(Q2, k)
                              /\ Lift(DigitPoly(f, k), Q2) = R2!Reduced(d[k], N1)
    BY DigitsAre
  <1>6. g \in [0..(L - 1) -> Nat]
    BY DigitsAre
  <1>7. S \in Nat
    <2>1. 0 \in 0..(L - 1) /\ 0 \in 0..(N1 - 1)
      BY <1>1
    <2>2. QED BY <2>1, SwitchedSample
  <1>8. \A k \in 0..(L - 1) : p[k] \in R2!Poly(N1)
    <2>1. \A k \in 0..(L - 1) : PhaseQ2(switched[h][k]) \in R2!Poly(N1)
      BY <1>3, PhaseIn
    <2> HIDE DEF p
    <2>2. QED BY <1>2, <2>1
  <1>9. p \in R2!Terms(L, N1)
    <2>1. 0 \in 0..(L - 1)
      BY <1>1
    <2> HIDE DEF p
    <2>2. p = [i \in 0..(L - 1) |-> p[i]]
      BY <1>2, <2>1
    <2>3. QED BY <1>8, <2>2, Zenon DEF R2!Terms
  <1>10. \A k \in 0..(L - 1) : R2!Holds(Q1, S, p[k], g[k], M, N1)
    <2>1. ASSUME NEW k \in 0..(L - 1) PROVE R2!Holds(Q1, S, p[k], g[k], M, N1)
      <3>1. \A x \in 0..(N1 - 1) : R2!Close(2 * Q1 * Q2, S, 2 * Q1 * PhaseQ2(switched[h][k])[x], 2 * Q1 * (GadgetEntry(Q2, k) * M[x]))
        BY SwitchedSample
      <3> HIDE DEF p, g, M, S
      <3>2. \A x \in 0..(N1 - 1) : R2!Close(2 * Q1 * Q2, S, 2 * Q1 * p[k][x], 2 * Q1 * (g[k] * M[x]))
        BY <1>2, <1>5, <3>1
      <3>3. g[k] \in Nat /\ Q1 \in Nat
        BY <1>1, <1>6
      <3>4. QED BY <1>4, <1>7, <1>8, <3>2, <3>3, Zenon DEF R2!Holds
    <2>2. QED BY <2>1
  <1>11. R2!GadgetSamples(d, p, g, M, b, Q1, S, L, N1)
    <2>1. Q1 \in Nat /\ L \in Nat
      BY <1>1
    <2> HIDE DEF d, p, g, M, S, b
    <2>2. QED BY <1>1, <1>4, <1>5, <1>6, <1>7, <1>9, <1>10, <2>1, Zenon DEF R2!GadgetSamples
  <1>12. PhaseTerms(switched[h], f) = R2!DigitTerms(d, p, L, N1)
    <2>1. \A k \in 0..(L - 1) : R2!Mul(Lift(DigitPoly(f, k), Q2), PhaseQ2(switched[h][k]), N1) = R2!Mul(R2!Reduced(d[k], N1), p[k], N1)
      <3> HIDE DEF d, p
      <3>1. QED BY <1>2, <1>5
    <2> HIDE DEF d, p
    <2>2. QED BY <2>1 DEF PhaseTerms, R2!DigitTerms
  <1>13. PhaseTerms(switched[h], f) \in R2!Terms(L, N1)
    <2> DEFINE samples == switched[h]
    <2>1. samples \in [0..(L - 1) -> CtsAt2]
      BY <1>3
    <2> HIDE DEF samples
    <2>2. PhaseTerms(samples, f) \in R2!Terms(L, N1)
      BY <2>1, GadgetPhase
    <2>3. QED BY <2>2 DEF samples
  <1>14. QED BY <1>11, <1>12, <1>13

\* One gadget product of a gate: the input times the half's message.
LEMMA GateHalf ==
  ASSUME s1 \in CenteredPoly(N1), bit \in 0..1, EncryptedInv, SwitchedInv,
         NEW h \in Halves, NEW f \in R2!Poly(N1), NEW x \in 0..(N1 - 1)
  PROVE  LET T == R2!Sums(PhaseTerms(switched[h], f), 0, L, N1)
             I == R2!Mul(f, R2!Reduced(HalfMessage(h), N1), N1)
         IN  /\ R2!Close(2 * Q1 * Q2, GateSlack(h), 2 * Q1 * T[x], 2 * Q1 * I[x]) /\ GateSlack(h) \in Nat
             /\ T \in R2!Poly(N1) /\ I \in R2!Poly(N1)
  <1> DEFINE d == DigitsOf(f)
             p == SamplePhases(h)
             g == EntriesAtQ2
             M == HalfMessage(h)
             S == SampleSlack(h)
             b == GBase \div 2
             o == Gd!Delta(1)
             T == R2!Sums(PhaseTerms(switched[h], f), 0, L, N1)
             I == R2!Mul(f, R2!Reduced(M, N1), N1)
  <1>1. Q2 \in Nat \ {0} /\ N1 \in Nat \ {0} /\ N1 \in Nat /\ L \in Nat /\ 0 \in Nat /\ 0 <= L
    BY Constants, GadgetParams
  <1>2. R2!GadgetSamples(d, p, g, M, b, Q1, S, L, N1) /\ T = R2!Sums(R2!DigitTerms(d, p, L, N1), 0, L, N1)
    BY GateSamples
  <1>3. M \in CenteredPoly(N1) /\ M \in [0..(N1 - 1) -> Int]
    <2>1. M \in CenteredPoly(N1)
      BY KeyMessageIs
    <2>2. QED BY <2>1 DEF CenteredPoly
  <1>4. PICK w : R2!Weights(w, M, N1)
    <2> HIDE DEF M
    <2>1. QED BY <1>1, <1>3, R2!WeightsExist
  <1>5. Norm1(M) = w[N1] /\ w[N1] \in Nat
    <2> HIDE DEF M
    <2>1. R3!Weights(w, M, N1)
      BY <1>4, SameClose
    <2>2. QED BY <1>1, <1>3, <2>1, Norm1Is
  <1>6. o \in Nat /\ o = OneCoefficient(Q2, 0)!Delta(1)
    <2>1. 0 \in 0..(Q2 - 1)
      BY <1>1
    <2>2. PICK rest, t : Decomposed(0, rest, t)
      BY <2>1, DigitRuns
    <2>3. o \in Nat
      BY <2>1, <2>2, DigitSum
    <2>4. QED BY <2>3, GadgetParams
  <1>7. \A y \in 0..(N1 - 1) : R2!Close(Q2, o, R2!Sums(R2!LevelTerms(d, g, L, N1), 0, L, N1)[y], f[y])
    BY DigitsRecompose DEF Recomposed
  <1>8. T \in R2!Poly(N1)
    <2> DEFINE F == PhaseTerms(switched[h], f)
    <2>1. F \in R2!Terms(L, N1)
      BY GateSamples
    <2> HIDE DEF F
    <2>2. R2!Sums(F, 0, L, N1) \in R2!Poly(N1)
      BY <1>1, <2>1, R2!SumsClosed
    <2>3. QED BY <2>2 DEF F
  <1>9. I \in R2!Poly(N1)
    <2> HIDE DEF M
    <2>1. R2!Reduced(M, N1) \in R2!Poly(N1)
      BY <1>1, <1>3, R2!ReducedIn
    <2>2. QED BY <1>1, <2>1, R2!MulClosed
  <1>10. GateSlack(h) = (N1 * L * b * S) + (2 * Q1 * w[N1] * o)
    BY <1>5, <1>6 DEF GateSlack
  <1> HIDE DEF d, p, g, M, S, b, o
  <1>11. /\ R2!Close(2 * Q1 * Q2, (N1 * L * b * S) + (2 * Q1 * w[N1] * o),
                     2 * Q1 * R2!Sums(R2!DigitTerms(d, p, L, N1), 0, L, N1)[x], 2 * Q1 * I[x])
         /\ (N1 * L * b * S) + (2 * Q1 * w[N1] * o) \in Nat
    BY <1>1, <1>2, <1>4, <1>6, <1>7, R2!GadgetNear, Zenon
  <1> HIDE DEF T, I
  <1>12. R2!Close(2 * Q1 * Q2, GateSlack(h), 2 * Q1 * T[x], 2 * Q1 * I[x]) /\ GateSlack(h) \in Nat
    BY <1>2, <1>10, <1>11
  <1>13. QED BY <1>8, <1>9, <1>12 DEF T, I, M

\* Reduced, the messages of an unset bit are zero, those of a set bit -S1 and 1.
LEMMA HalvesReduced ==
  ASSUME s1 \in CenteredPoly(N1)
  PROVE  /\ bit = 0 => R2!Reduced(HalfMessage(1), N1) = R2!Zero(N1) /\ R2!Reduced(HalfMessage(2), N1) = R2!Zero(N1)
         /\ bit = 1 => /\ R2!Reduced(HalfMessage(1), N1) = R2!Neg(Lift(s1, Q2))
                       /\ R2!Reduced(HalfMessage(2), N1) = R2!One(N1)
  <1> DEFINE M1 == HalfMessage(1)
             M2 == HalfMessage(2)
             f == Lift(s1, Q2)
  <1>1. Q2 \in Nat \ {0} /\ N1 \in Nat \ {0} /\ 0 % Q2 = 0
    <2>1. Q2 \in Nat \ {0} /\ N1 \in Nat \ {0}
      BY Constants
    <2>2. QED BY <2>1, R2!CoeffClosed DEF R2!Coeff
  <1>2. M1 = [x \in 0..(N1 - 1) |-> -(bit * s1[x])] /\ M2 = [x \in 0..(N1 - 1) |-> IF x = 0 THEN bit ELSE 0]
    BY DEF HalfMessage
  <1>3. f \in R2!Poly(N1) /\ \A x \in 0..(N1 - 1) : f[x] = s1[x] % Q2 /\ s1[x] \in Int
    BY <1>1, LiftIn, Lift2
  <1> HIDE DEF M1, M2, f
  <1>4. CASE bit = 0
    <2>1. \A x \in 0..(N1 - 1) : M1[x] = 0 /\ M2[x] = 0
      BY <1>2, <1>3, <1>4
    <2>2. R2!Reduced(M1, N1) = R2!Zero(N1) /\ R2!Reduced(M2, N1) = R2!Zero(N1)
      BY <1>1, <2>1 DEF R2!Reduced, R2!Zero
    <2>3. QED BY <1>4, <2>2 DEF M1, M2
  <1>5. CASE bit = 1
    <2>1. \A x \in 0..(N1 - 1) : M1[x] % Q2 = R2!CNeg(f[x])
      <3>1. ASSUME NEW x \in 0..(N1 - 1) PROVE M1[x] % Q2 = R2!CNeg(f[x])
        <4> DEFINE u == s1[x]
        <4>1. u \in Int /\ f[x] = u % Q2 /\ M1[x] = -u
          BY <1>2, <1>3, <1>5
        <4> HIDE DEF u
        <4>2. R2!CNeg(u % Q2) = (-u) % Q2
          BY <1>1, <4>1, R2!IntMod
        <4>3. QED BY <4>1, <4>2
      <3>2. QED BY <3>1
    <2>2. R2!Neg(f) \in R2!Poly(N1) /\ \A x \in 0..(N1 - 1) : R2!Neg(f)[x] = R2!CNeg(f[x])
      BY <1>1, <1>3, R2!PolyAt
    <2>3. R2!Neg(f) = [x \in 0..(N1 - 1) |-> R2!Neg(f)[x]]
      BY <2>2 DEF R2!Poly
    <2>4. R2!Reduced(M1, N1) = R2!Neg(f)
      BY <2>1, <2>2, <2>3 DEF R2!Reduced
    <2>5. R2!Reduced(M2, N1) = R2!One(N1)
      <3>1. \A x \in 0..(N1 - 1) : M2[x] % Q2 = IF x = 0 THEN R2!COne ELSE 0
        BY <1>1, <1>2, <1>5 DEF R2!COne
      <3>2. QED BY <3>1 DEF R2!Reduced, R2!One
    <2>6. QED BY <1>5, <2>4, <2>5 DEF M1, M2, f
  <1>6. QED BY <1>4, <1>5 DEF M1, M2, f

\* With exact messages the gate yields the phase of the input the bit selects.
LEMMA GateIdeal ==
  ASSUME s1 \in CenteredPoly(N1), bit \in 0..1, NEW ct0 \in CtsAt2, NEW ct1 \in CtsAt2
  PROVE  LET d == SubCt(ct1, ct0)
         IN  R2!Add(PhaseQ2(ct0), R2!Add(R2!Mul(d.mask, R2!Reduced(HalfMessage(1), N1), N1),
                                         R2!Mul(d.body, R2!Reduced(HalfMessage(2), N1), N1)))
               = PhaseQ2(IF bit = 1 THEN ct1 ELSE ct0)
  <1> DEFINE d == SubCt(ct1, ct0)
             f == d.mask
             g == d.body
             a == PhaseQ2(ct0)
             c == PhaseQ2(ct1)
             S == Lift(s1, Q2)
  <1>1. Q2 \in Nat \ {0} /\ N1 \in Nat \ {0}
    BY Constants
  <1>2. d \in CtsAt2 /\ PhaseQ2(d) = R2!Sub(c, a) /\ a \in R2!Poly(N1) /\ c \in R2!Poly(N1)
    BY AddCtIs
  <1>3. PhaseQ2(d) = R2!Sub(g, R2!Mul(f, S, N1)) /\ f \in R2!Poly(N1) /\ g \in R2!Poly(N1) /\ S \in R2!Poly(N1)
    <2> HIDE DEF d
    <2>1. QED BY <1>2, PhaseIn
  <1> HIDE DEF d, f, g, a, c, S
  <1>4. /\ R2!Add(a, R2!Add(R2!Mul(f, R2!Zero(N1), N1), R2!Mul(g, R2!Zero(N1), N1))) = a
        /\ R2!Add(a, R2!Add(R2!Mul(f, R2!Neg(S), N1), R2!Mul(g, R2!One(N1), N1))) = c
    <2>1. R2!Sub(c, a) = R2!Sub(g, R2!Mul(f, S, N1))
      BY <1>2, <1>3
    <2>2. a \in R2!Poly(N1) /\ f \in R2!Poly(N1) /\ g \in R2!Poly(N1) /\ S \in R2!Poly(N1)
      BY <1>2, <1>3
    <2>3. R2!Add(a, R2!Add(R2!Mul(f, R2!Zero(N1), N1), R2!Mul(g, R2!Zero(N1), N1))) = a
      BY <1>1, <2>2, R2!BitProducts
    <2>4. \A z \in R2!Poly(N1) : R2!Sub(z, a) = R2!Sub(g, R2!Mul(f, S, N1))
             => R2!Add(a, R2!Add(R2!Mul(f, R2!Neg(S), N1), R2!Mul(g, R2!One(N1), N1))) = z
      BY <1>1, <2>2, R2!BitProducts
    <2>5. QED BY <1>2, <2>1, <2>3, <2>4, Zenon
  <1>5. /\ bit = 0 => R2!Reduced(HalfMessage(1), N1) = R2!Zero(N1) /\ R2!Reduced(HalfMessage(2), N1) = R2!Zero(N1)
        /\ bit = 1 => R2!Reduced(HalfMessage(1), N1) = R2!Neg(S) /\ R2!Reduced(HalfMessage(2), N1) = R2!One(N1)
    BY HalvesReduced DEF S
  <1>6. R2!Add(a, R2!Add(R2!Mul(f, R2!Reduced(HalfMessage(1), N1), N1), R2!Mul(g, R2!Reduced(HalfMessage(2), N1), N1)))
          = IF bit = 1 THEN c ELSE a
    <2>1. CASE bit = 1
      BY <1>4, <1>5, <2>1
    <2>2. CASE bit # 1
      BY <1>4, <1>5, <2>2
    <2>3. QED BY <2>1, <2>2
  <1>7. PhaseQ2(IF bit = 1 THEN ct1 ELSE ct0) = IF bit = 1 THEN c ELSE a
    BY DEF a, c
  <1>8. QED BY <1>6, <1>7 DEF a, d, f, g

\* A deviation measured at 2 * q1, and centred.
LEMMA CenteredMultiple ==
  ASSUME NEW q1 \in Nat \ {0}, NEW S \in Int, NEW u \in Int, NEW v \in Int,
         R2!Close(2 * q1 * Q2, S, 2 * q1 * u, 2 * q1 * v)
  PROVE  2 * q1 * Abs(Centered((u - v) % Q2, Q2)) <= S
  <1> DEFINE r == (u - v) % Q2
             z == IF r <= Q2 \div 2 THEN r ELSE r - Q2
  <1>1. Q2 \in Nat \ {0}
    BY Constants
  <1>2. z \in Int /\ 2 * q1 * z <= S /\ 2 * q1 * (-z) <= S
    BY <1>1, R2!SmallMultiple, Zenon
  <1>3. Centered(r, Q2) = z
    BY DEF Centered
  <1> HIDE DEF z
  <1>4. 2 * q1 * Abs(z) <= S
    <2>1. Abs(z) = z \/ Abs(z) = -z
      BY DEF Abs
    <2>2. QED BY <1>2, <2>1
  <1>5. QED BY <1>3, <1>4

\* A gate yields the selected input up to what the switched samples leave.
LEMMA GateSelects ==
  ASSUME RInv, KeyInv, pc = "rescale", inputs # <<>>, NEW x \in 0..(N1 - 1)
  PROVE  2 * Q1 * Abs(Centered((PhaseQ2(fresh)[x] - PhaseQ2(inputs[bit + 1])[x]) % Q2, Q2)) <= GateSlack(1) + GateSlack(2)
  <1> DEFINE ct0 == inputs[1]
             ct1 == inputs[2]
             d == SubCt(ct1, ct0)
             a == PhaseQ2(ct0)
             Tm(h, f) == R2!Sums(PhaseTerms(switched[h], f), 0, L, N1)
             Im(h, f) == R2!Mul(f, R2!Reduced(HalfMessage(h), N1), N1)
  <1>1. Q1 \in Nat \ {0} /\ Q2 \in Nat \ {0} /\ N1 \in Nat \ {0} /\ 2 * Q1 \in Nat /\ 1 \in Halves /\ 2 \in Halves
    BY Constants, GadgetParams DEF Halves
  <1>2. s1 \in CenteredPoly(N1) /\ bit \in 0..1 /\ EncryptedInv /\ SwitchedInv /\ inputs \in CtsAt2 \X CtsAt2
        /\ fresh = CMux(switched, inputs[1], inputs[2])
    BY DEF RInv, KeyInv
  <1>3. switched \in KeySamples
    BY <1>2, SwitchedIn
  <1>4. ct0 \in CtsAt2 /\ ct1 \in CtsAt2 /\ inputs[bit + 1] = IF bit = 1 THEN ct1 ELSE ct0
    <2>1. inputs[1] \in CtsAt2 /\ inputs[2] \in CtsAt2
      BY <1>2
    <2>2. CASE bit = 1
      BY <2>1, <2>2
    <2>3. CASE bit = 0
      BY <2>1, <2>3
    <2>4. QED BY <1>2, <2>2, <2>3
  <1> HIDE DEF ct0, ct1
  <1>5. d \in CtsAt2 /\ a \in R2!Poly(N1)
    BY <1>2, <1>4, AddCtIs
  <1>6. d.mask \in R2!Poly(N1) /\ d.body \in R2!Poly(N1)
    <2> HIDE DEF d
    <2>1. QED BY <1>2, <1>5, PhaseIn
  <1> DEFINE dm == d.mask
             db == d.body
             b == Tm(1, dm)
             c == Tm(2, db)
             e == Im(1, dm)
             g == Im(2, db)
             k == 2 * Q1
             l == GateSlack(1)
             m == GateSlack(2)
  <1>7. PhaseQ2(fresh) = R2!Add(a, R2!Add(b, c))
    <2>1. fresh = CMux(switched, ct0, ct1)
      BY <1>2 DEF ct0, ct1
    <2>2. QED BY <1>2, <1>3, <1>4, <2>1, CMuxIs
  <1>8. R2!Add(a, R2!Add(e, g)) = PhaseQ2(inputs[bit + 1])
    BY <1>2, <1>4, GateIdeal
  <1> HIDE DEF d
  <1>9. /\ R2!Close(2 * Q1 * Q2, l, 2 * Q1 * b[x], 2 * Q1 * e[x]) /\ l \in Nat
        /\ b \in R2!Poly(N1) /\ e \in R2!Poly(N1)
    <2> HIDE DEF dm
    <2>1. dm \in R2!Poly(N1)
      BY <1>6 DEF dm
    <2>2. QED BY <1>1, <1>2, <2>1, GateHalf
  <1>10. /\ R2!Close(2 * Q1 * Q2, m, 2 * Q1 * c[x], 2 * Q1 * g[x]) /\ m \in Nat
         /\ c \in R2!Poly(N1) /\ g \in R2!Poly(N1)
    <2> HIDE DEF db
    <2>1. db \in R2!Poly(N1)
      BY <1>6 DEF db
    <2>2. QED BY <1>1, <1>2, <2>1, GateHalf
  <1> HIDE DEF a, b, c, e, g, l, m
  <1>11. k \in Nat /\ l \in Int /\ m \in Int /\ R2!Close(k * Q2, l, k * b[x], k * e[x]) /\ R2!Close(k * Q2, m, k * c[x], k * g[x])
    BY <1>1, <1>9, <1>10
  <1> HIDE DEF k
  <1>12. /\ R2!Close(k * Q2, l + m, k * R2!Add(a, R2!Add(b, c))[x], k * R2!Add(a, R2!Add(e, g))[x])
         /\ R2!Add(a, R2!Add(b, c))[x] \in Int /\ R2!Add(a, R2!Add(e, g))[x] \in Int
    <2>1. a \in R2!Poly(N1)
      BY <1>5
    <2>2. QED BY <1>1, <1>9, <1>10, <1>11, <2>1, R2!AddsNear, Zenon
  <1> DEFINE u == PhaseQ2(fresh)[x]
             v == PhaseQ2(inputs[bit + 1])[x]
  <1>13. R2!Close(2 * Q1 * Q2, l + m, 2 * Q1 * u, 2 * Q1 * v) /\ u \in Int /\ v \in Int /\ l + m \in Int
    <2>1. R2!Close(k * Q2, l + m, k * u, k * v) /\ u \in Int /\ v \in Int
      BY <1>7, <1>8, <1>12
    <2>2. QED BY <1>11, <2>1 DEF k
  <1> HIDE DEF u, v
  <1>14. 2 * Q1 * Abs(Centered((u - v) % Q2, Q2)) <= l + m
    BY <1>1, <1>13, CenteredMultiple, Zenon
  <1>15. QED BY <1>14 DEF u, v, l, m

\* A sample switched from Q1 to Q2 holds its message at the gadget of Q2, and a
\* gate that applies the switched bit yields the input the bit selects, up to
\* what the roundings leave (mod_switch_rgsw in gates/convert.rs; answer.rs,
\* steps 5 and 6).
THEOREM SwitchedKeyIsClose == KeySpec => []SwitchedKeySelects
  <1>1. RInv /\ KeyInv => SwitchedKeySelects
    <2>1. SUFFICES ASSUME RInv, KeyInv PROVE SwitchedKeySelects
      OBVIOUS
    <2>2. ASSUME pc = "gate", NEW h \in Halves, NEW i \in 0..(L - 1), NEW x \in 0..(N1 - 1)
          PROVE  2 * Q1 * Abs(Centered((PhaseQ2(switched[h][i])[x] - GadgetEntry(Q2, i) * HalfMessage(h)[x]) % Q2, Q2))
                   <= SampleSlack(h)
      <3> DEFINE u == PhaseQ2(switched[h][i])[x]
                 v == GadgetEntry(Q2, i) * HalfMessage(h)[x]
                 S == SampleSlack(h)
      <3>1. s1 \in CenteredPoly(N1) /\ bit \in 0..1 /\ EncryptedInv /\ SwitchedInv
        BY <2>1, <2>2 DEF RInv, KeyInv
      <3>2. R2!Close(2 * Q1 * Q2, S, 2 * Q1 * u, 2 * Q1 * v) /\ S \in Nat /\ u \in Int /\ v \in Int
        BY <3>1, SwitchedSample
      <3>3. Q1 \in Nat \ {0}
        BY GadgetParams
      <3> HIDE DEF u, v, S
      <3>4. S \in Int
        BY <3>2
      <3>5. 2 * Q1 * Abs(Centered((u - v) % Q2, Q2)) <= S
        BY <3>2, <3>3, <3>4, CenteredMultiple, Zenon
      <3>6. QED BY <3>5 DEF u, v, S
    <2>3. ASSUME pc = "rescale", inputs # <<>>, NEW x \in 0..(N1 - 1)
          PROVE  2 * Q1 * Abs(Centered((PhaseQ2(fresh)[x] - PhaseQ2(inputs[bit + 1])[x]) % Q2, Q2)) <= GateSlack(1) + GateSlack(2)
      BY <2>1, <2>3, GateSelects
    <2>4. QED BY <2>2, <2>3, Zenon DEF SwitchedKeySelects
  <1>2. QED BY <1>1, ResponseInvariant, PTL
=============================================================================
