--------------------------------- MODULE Zq ---------------------------------
(***************************************************************************)
(* One coefficient of Z_q in machine words (algebra/zq of via-primitives): *)
(* the three kinds of modulus and their word arithmetic, wrap-around       *)
(* included.  ConstModulus reduces by Barrett, PowerOfTwoModulus by a      *)
(* mask, DynModulus by either.  Word is 2^64 in the code; a product is a   *)
(* double word, kept as two words by umul128_hi.                           *)
(*                                                                         *)
(* The state is one stored coefficient and the call being made on it; the  *)
(* result of a call is what later calls start from, so every operation     *)
(* must leave a canonical value behind.  rekey moves the coefficient to    *)
(* another modulus.                                                        *)
(***************************************************************************)
EXTENDS Integers

CONSTANTS
  Word,      \* number of values of a machine word
  Pow2,      \* the powers of two below Word
  Moduli,    \* the moduli tried, [kind, q]
  Products,  \* double words reduce_u128 is called with
  Signed     \* signed words reduce_i64 is called with

HalfWord == Word \div 2

\* The _CHECK constants of ConstModulus and PowerOfTwoModulus, and the
\* assertions of DynModulus::new and barrett_mu.
ASSUME ZqAssumption ==
  /\ Word \in Nat \ {0} /\ 2 * HalfWord = Word
  /\ Pow2 \subseteq Nat \ {0}
  /\ \A p \in Pow2 : 2 * p <= Word /\ Word % p = 0
  /\ Products \subseteq 0..(Word * Word - 1)
  /\ Signed \subseteq (-HalfWord)..(HalfWord - 1)
  /\ \A m \in Moduli :
       /\ m \in [kind : {"const", "pow2", "dyn"}, q : Nat] /\ m.q >= 2
       /\ m.kind = "const" => m.q < HalfWord
       /\ m.kind = "pow2" => m.q \in Pow2
       /\ m.kind = "dyn" => m.q \in Pow2 \/ m.q < HalfWord

VARIABLES
  mod,   \* the modulus of the coefficient
  v,     \* the coefficient
  call   \* the call whose result v is; [op |-> "none"] between calls

zqVars == <<mod, v, call>>

DoubleWord == Word * Word

-----------------------------------------------------------------------------
\* floor(2^128 / q), from the largest double word.
BarrettMu(q) ==
  LET approx == (DoubleWord - 1) \div q
      r == (((DoubleWord - 1) % q) + 1) % q
  IN  IF r = 0 THEN approx + 1 ELSE approx

\* Mutant: the carry out of the middle words is lost.
UmulHiNoCarry(x, mu) ==
  LET p01 == (x % Word) * (mu \div Word)
      p10 == (x \div Word) * (mu % Word)
      p11 == (x \div Word) * (mu \div Word)
  IN  p11 + (p01 \div Word) + (p10 \div Word)

\* The high double word of x * mu, from four products of words.
UmulHi(x, mu) ==
  LET p00 == (x % Word) * (mu % Word)
      p01 == (x % Word) * (mu \div Word)
      p10 == (x \div Word) * (mu % Word)
      p11 == (x \div Word) * (mu \div Word)
      carry == ((p00 \div Word) + (p01 % Word) + (p10 % Word)) \div Word
  IN  p11 + (p01 \div Word) + (p10 \div Word) + carry

CondSub(x, q) == IF x >= q THEN x - q ELSE x

\* x - q_hat * q in wrapping double words, cut to a word, then one subtraction.
BarrettReduce(x, q) ==
  LET qHat == UmulHi(x, BarrettMu(q))
      wrapped == (x - ((qHat * q) % DoubleWord)) % DoubleWord
  IN  CondSub(wrapped % Word, q)

\* x & (q - 1)
MaskReduce(x, q) == x % q

ReduceU128(m, x) ==
  IF m.kind = "pow2" \/ (m.kind = "dyn" /\ m.q \in Pow2)
  THEN MaskReduce(x, m.q)
  ELSE BarrettReduce(x, m.q)

\* wrapping_add, then a mask or a conditional subtraction.
ModAdd(m, a, b) ==
  LET sum == (a + b) % Word
  IN  IF m.kind = "pow2" THEN MaskReduce(sum, m.q) ELSE CondSub(sum, m.q)

\* Mutant: the modulus is not added back after an underflow.
ModSubNoBorrow(m, a, b) ==
  LET diff == (a - b) % Word
  IN  IF m.kind = "pow2" THEN MaskReduce(diff, m.q) ELSE diff

\* wrapping_sub, then a mask or a conditional addition.
ModSub(m, a, b) ==
  LET diff == (a - b) % Word
  IN  IF m.kind = "pow2" THEN MaskReduce(diff, m.q)
      ELSE IF a < b THEN (diff + m.q) % Word ELSE diff

ModNeg(m, a) ==
  IF m.kind = "pow2" THEN MaskReduce((0 - a) % Word, m.q)
  ELSE IF a = 0 THEN 0 ELSE (m.q - a) % Word

ModMul(m, a, b) == ReduceU128(m, a * b)

\* unsigned_abs, reduced, negated if the sign says so.
ReduceI64(m, x) ==
  LET magnitude == ReduceU128(m, IF x < 0 THEN -x ELSE x)
  IN  IF x < 0 THEN ModNeg(m, magnitude) ELSE magnitude

\* to_centered_i64: the representative in (-q/2, q/2].
ToCentered(q, a) == IF a <= q \div 2 THEN a ELSE -(q - a)

\* A word `as i64`.
AsI64(x) == IF x < HalfWord THEN x ELSE x - Word

\* The negation of i64::MIN, which debug builds check.
NegOverflows(x) == AsI64(x) = -HalfWord

\* -(x as i64), wrapping.
NegI64(x) == IF NegOverflows(x) THEN AsI64(x) ELSE -AsI64(x)

\* to_centered_i64_ct: conditional_select between the word and its negated
\* complement; both are computed whichever is selected.
ToCenteredCt(q, a) == IF a > q \div 2 THEN NegI64(q - a) ELSE a

-----------------------------------------------------------------------------
NoCall == [op |-> "none"]

ZqInit ==
  /\ mod \in Moduli
  /\ v = 0
  /\ call = NoCall

Begin(op, arg, result) ==
  /\ call = NoCall
  /\ v' = result
  /\ call' = [op |-> op, on |-> v, arg |-> arg]
  /\ UNCHANGED mod

AddCall == \E b \in 0..(mod.q - 1) : Begin("add", b, ModAdd(mod, v, b))

SubCall == \E b \in 0..(mod.q - 1) : Begin("sub", b, ModSub(mod, v, b))

MulCall == \E b \in 0..(mod.q - 1) : Begin("mul", b, ModMul(mod, v, b))

NegCall == Begin("neg", 0, ModNeg(mod, v))

ReduceU128Call == \E x \in Products : Begin("reduce_u128", x, ReduceU128(mod, x))

ReduceI64Call == \E x \in Signed : Begin("reduce_i64", x, ReduceI64(mod, x))

\* Mutant: rekeying reduces the stored value, not its centred lift.
RekeyUncentered ==
  /\ call = NoCall
  /\ mod' \in Moduli
  /\ v' = ReduceI64(mod', v)
  /\ call' = [op |-> "rekey", on |-> v, arg |-> mod.q]

\* rekey_secret_key, one coefficient: centre at the old modulus in constant
\* time, reduce at the new one.
Rekey ==
  /\ call = NoCall
  /\ mod' \in Moduli
  /\ v' = ReduceI64(mod', ToCenteredCt(mod.q, v))
  /\ call' = [op |-> "rekey", on |-> v, arg |-> mod.q]

\* A debug build stops at the overflow, before any value is selected.
RekeyPanics ==
  /\ call = NoCall
  /\ NegOverflows(mod.q - v)
  /\ call' = [op |-> "panic", on |-> v, arg |-> mod.q]
  /\ UNCHANGED <<mod, v>>

EndCall ==
  /\ call.op \notin {"none", "panic"}
  /\ call' = NoCall
  /\ UNCHANGED <<mod, v>>

ZqNext ==
  \/ AddCall \/ SubCall \/ MulCall \/ NegCall \/ ReduceU128Call \/ ReduceI64Call
  \/ Rekey \/ RekeyPanics \/ EndCall

ZqSpec == ZqInit /\ [][ZqNext]_zqVars

-----------------------------------------------------------------------------
(***************************************************************************)
(* Properties.                                                             *)
(***************************************************************************)

\* The stored coefficient is canonical, below its modulus, after any sequence
\* of operations: what every operation asserts of its operands in debug builds
\* and relies on in release builds (modulus.rs).
Canonical == mod \in Moduli /\ v \in 0..(mod.q - 1)

\* Whatever wraps, is truncated or is off by one modulus inside, an operation
\* returns the exact result modulo q (the q_hat of barrett_reduce included,
\* which may be one too small and is a double word cut to a word).  Rekeying
\* reduces what to_centered_i64 would have returned, although a release build
\* may have wrapped the candidate it does not select.
Exact ==
  CASE call.op = "add" -> v = (call.on + call.arg) % mod.q
    [] call.op = "sub" -> v = (call.on - call.arg) % mod.q
    [] call.op = "mul" -> v = (call.on * call.arg) % mod.q
    [] call.op = "neg" -> v = (0 - call.on) % mod.q
    [] call.op \in {"reduce_u128", "reduce_i64"} -> v = call.arg % mod.q
    [] call.op = "rekey" -> v = ToCentered(call.arg, call.on) % mod.q
    [] call.op \in {"none", "panic"} -> TRUE

\* A rekeyed coefficient that is small against both moduli is the same number
\* under both ("well-defined exactly when |S| < q_dst / 2", rekey.rs).  Only a
\* zero at the modulus 2^63 can stop a debug build from rekeying.
RekeyKeepsSmall ==
  /\ call.op = "rekey" =>
       LET c == ToCentered(call.arg, call.on)
       IN  (2 * c < mod.q /\ -(2 * c) < mod.q) => ToCentered(mod.q, v) = c
  /\ call.op = "panic" => call.on = 0 /\ call.arg = HalfWord

\* What modulus.rs documents of to_centered_i64_ct: "Same output as
\* to_centered_i64; the difference is only the timing behaviour".
CtSameOutput ==
  /\ call.op # "panic"
  /\ call.op = "rekey" => ToCenteredCt(call.arg, call.on) = ToCentered(call.arg, call.on)
=============================================================================
