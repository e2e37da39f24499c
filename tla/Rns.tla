-------------------------------- MODULE Rns ---------------------------------
(***************************************************************************)
(* Two-prime residue arithmetic (algebra/rns of via-primitives): the loops *)
(* of gcd_u64 and mod_inverse_u64, the basis that is built from them or    *)
(* refused, and numbers held as a pair of residues: decomposition, signed  *)
(* lifting, arithmetic in each slot and Garner reconstruction.             *)
(*                                                                         *)
(* Words are numbers below Word; signed words are in two's complement.     *)
(***************************************************************************)
EXTENDS Integers

CONSTANTS
  Word,      \* 2 ^ 128 in the code
  Moduli,    \* component moduli tried
  Factors    \* right operands tried

ASSUME RnsAssumption ==
  /\ Word \in Nat \ {0} /\ Word % 2 = 0
  /\ Moduli \subseteq Nat /\ \A q \in Moduli : q >= 2 /\ 2 * q * q <= Word
  /\ Factors \subseteq Nat

VARIABLES
  pc,          \* "idle", "gcd", "euclid", "returned", "ready", "result" or "panic"
  q0, q1,      \* the moduli; in a bare call of mod_inverse_u64, x and n
  bare,        \* whether the call is bare
  x, y,        \* of gcd_u64
  old_r, r, old_s, s,   \* of mod_inverse_u64
  inv,         \* its result: q0_inv_mod_q1
  call,        \* the operation on residues: [op, a, b], as numbers
  pair         \* its result, the residues

vars == <<pc, q0, q1, bare, x, y, old_r, r, old_s, s, inv, call, pair>>

NoCall == [op |-> "none", a |-> 0, b |-> 0]

BigQ == q0 * q1

Init ==
  /\ pc = "idle" /\ q0 = 0 /\ q1 = 0 /\ bare = FALSE
  /\ x = 0 /\ y = 0
  /\ old_r = 0 /\ r = 0 /\ old_s = 1 /\ s = 0
  /\ inv = 0 /\ call = NoCall /\ pair = <<0, 0>>

-----------------------------------------------------------------------------
\* DynRnsBasis::new, or _CHECK of ConstRnsBasis, up to the gcd.
NewBasis ==
  /\ pc = "idle"
  /\ \E m0, m1 \in Moduli :
       /\ q0' = m0 /\ q1' = m1
       /\ x' = m0 /\ y' = m1
       /\ pc' = IF m0 = m1 THEN "panic" ELSE "gcd"
  /\ bare' = FALSE
  /\ UNCHANGED <<old_r, r, old_s, s, inv, call, pair>>

GcdStep ==
  /\ pc = "gcd" /\ y # 0
  /\ x' = y /\ y' = x % y
  /\ UNCHANGED <<pc, q0, q1, bare, old_r, r, old_s, s, inv, call, pair>>

\* The assertion on the gcd, then the head of mod_inverse_u64(q0 % q1, q1).
Coprime ==
  /\ pc = "gcd" /\ y = 0
  /\ pc' = IF x = 1 THEN "euclid" ELSE "panic"
  /\ old_r' = q0 % q1 /\ r' = q1
  /\ old_s' = 1 /\ s' = 0
  /\ UNCHANGED <<q0, q1, bare, x, y, inv, call, pair>>

\* A bare call, as for the 1 / N of the transform: no argument is excluded.
CallInverse ==
  /\ pc = "idle"
  /\ \E a \in 0..(Word - 1), n \in Moduli \union {0, 1} :
       /\ a < 2 * n + 2
       /\ q0' = a /\ q1' = n
       /\ old_r' = a /\ r' = n
       /\ pc' = IF n < 2 \/ a = 0 THEN "returned" ELSE "euclid"
  /\ bare' = TRUE /\ old_s' = 1 /\ s' = 0 /\ inv' = 0
  /\ UNCHANGED <<x, y, call, pair>>

\* Mutant: the remainder is not advanced.
EuclidStepStays ==
  /\ pc = "euclid" /\ r # 0
  /\ LET q == old_r \div r
     IN  /\ old_r' = old_r - q * r /\ r' = r
         /\ old_s' = s /\ s' = old_s - q * s
  /\ UNCHANGED <<pc, q0, q1, bare, x, y, inv, call, pair>>

\* One turn of mod_inverse_u64.
EuclidStep ==
  /\ pc = "euclid" /\ r # 0
  /\ LET q == old_r \div r
     IN  /\ old_r' = r /\ r' = old_r - q * r
         /\ old_s' = s /\ s' = old_s - q * s
  /\ UNCHANGED <<pc, q0, q1, bare, x, y, inv, call, pair>>

\* The remainder of a truncating division.
Rem(a, n) == IF a >= 0 THEN a % n ELSE -((-a) % n)

Lift(a, n) == IF Rem(a, n) < 0 THEN Rem(a, n) + n ELSE Rem(a, n)

\* Mutant: the gcd is not looked at.
EuclidEndUnchecked ==
  /\ pc = "euclid" /\ r = 0
  /\ inv' = Lift(old_s, q1)
  /\ pc' = IF bare THEN "returned" ELSE IF inv' = 0 THEN "panic" ELSE "ready"
  /\ UNCHANGED <<q0, q1, bare, x, y, old_r, r, old_s, s, call, pair>>

\* Its end, and the basis' assertion on the sentinel 0.
EuclidEnd ==
  /\ pc = "euclid" /\ r = 0
  /\ inv' = IF old_r # 1 THEN 0 ELSE Lift(old_s, q1)
  /\ pc' = IF bare THEN "returned" ELSE IF inv' = 0 THEN "panic" ELSE "ready"
  /\ UNCHANGED <<q0, q1, bare, x, y, old_r, r, old_s, s, call, pair>>

-----------------------------------------------------------------------------
Decompose(a) == <<a % q0, a % q1>>

\* Mutant: the difference is taken the other way.
ReconstructReversed(p) ==
  LET diff == ((p[1] % q1) + q1 - p[2]) % q1
  IN  p[1] + q0 * ((diff * inv) % q1)

\* Garner.
Reconstruct(p) ==
  LET diff == (p[2] + q1 - (p[1] % q1)) % q1
  IN  p[1] + q0 * ((diff * inv) % q1)

\* to_centered_i128.
Centered(p) == IF Reconstruct(p) <= BigQ \div 2 THEN Reconstruct(p) ELSE Reconstruct(p) - BigQ

\* Mutant: half itself counts as negative.
CenteredCtStrict(p) ==
  LET v == Reconstruct(p)
      diff == ((BigQ \div 2) + Word - v - 1) % Word
      negative == diff >= Word \div 2
  IN  IF negative THEN v - BigQ ELSE v

\* to_centered_i128_ct: the sign bit of half.wrapping_sub(v) selects.
CenteredCt(p) ==
  LET v == Reconstruct(p)
      diff == ((BigQ \div 2) + Word - v) % Word
      negative == diff >= Word \div 2
  IN  IF negative THEN v - BigQ ELSE v

Slots(op(_, _, _), p, t) == <<op(p[1], t[1], q0), op(p[2], t[2], q1)>>

AddIn(a, b, q) == (a + b) % q
SubIn(a, b, q) == (a + q - b) % q
MulIn(a, b, q) == (a * b) % q

Operate(name, a, b, result) ==
  /\ pc' = "result"
  /\ call' = [op |-> name, a |-> a, b |-> b]
  /\ pair' = result
  /\ UNCHANGED <<q0, q1, bare, x, y, old_r, r, old_s, s, inv>>

AddPairs ==
  pc = "ready" /\ \E a \in 0..(BigQ - 1), b \in Factors :
    Operate("add", a, b, Slots(AddIn, Decompose(a), Decompose(b)))

SubPairs ==
  pc = "ready" /\ \E a \in 0..(BigQ - 1), b \in Factors :
    Operate("sub", a, b, Slots(SubIn, Decompose(a), Decompose(b)))

MulPairs ==
  pc = "ready" /\ \E a \in 0..(BigQ - 1), b \in Factors :
    Operate("mul", a, b, Slots(MulIn, Decompose(a), Decompose(b)))

\* from_i128: the residues of the magnitude, negated in each slot.
FromSigned ==
  pc = "ready" /\ \E a \in -BigQ..BigQ :
    LET magnitude == Decompose(IF a < 0 THEN -a ELSE a)
        negated == <<(q0 - magnitude[1]) % q0, (q1 - magnitude[2]) % q1>>
    IN  Operate("lift", a, 0, IF a < 0 THEN negated ELSE magnitude)

Next ==
  \/ NewBasis \/ GcdStep \/ Coprime
  \/ CallInverse \/ EuclidStep \/ EuclidEnd
  \/ AddPairs \/ SubPairs \/ MulPairs \/ FromSigned

Spec == Init /\ [][Next]_vars

-----------------------------------------------------------------------------
(***************************************************************************)
(* Properties.                                                             *)
(***************************************************************************)

Divides(d, a) == a % d = 0

CoprimeNumbers(a, b) == \A d \in 2..(a + b) : ~(Divides(d, a) /\ Divides(d, b))

\* mod_inverse_u64 returns the inverse, of an argument above the modulus too,
\* or the sentinel exactly when there is none; and a basis is refused exactly
\* when its moduli have a common divisor, by the gcd or by the sentinel.
InverseOrSentinel ==
  /\ pc = "returned" =>
       IF q1 >= 2 /\ CoprimeNumbers(q0, q1) THEN inv < q1 /\ (inv * q0) % q1 = 1 ELSE inv = 0
  /\ pc = "panic" => ~CoprimeNumbers(q0, q1)
  /\ pc = "ready" => CoprimeNumbers(q0, q1) /\ inv \in 1..(q1 - 1)

\* The pair of residues stands for one number modulo Q, whichever prime is
\* larger, and stays canonical: every operation in the slots is the operation
\* modulo Q; and both centrings, the branch-free one too, name the number
\* nearest to zero, so that they undo the signed lift.
ResiduesExact ==
  pc = "result" =>
    /\ pair \in (0..(q0 - 1)) \X (0..(q1 - 1))
    /\ Reconstruct(pair) =
      CASE call.op = "add" -> (call.a + call.b) % BigQ
        [] call.op = "sub" -> (call.a - call.b) % BigQ
        [] call.op = "mul" -> (call.a * call.b) % BigQ
        [] call.op = "lift" -> call.a % BigQ
    /\ CenteredCt(pair) = Centered(pair)
    /\ call.op = "lift" /\ 2 * call.a <= BigQ /\ -(2 * call.a) < BigQ => Centered(pair) = call.a
=============================================================================
