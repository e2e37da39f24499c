--------------------------- MODULE PolyRnsElement ---------------------------
(***************************************************************************)
(* PolyRns (via-primitives/src/algebra/ring/rns_element.rs): a ring        *)
(* element modulo Q = q0 * q1 as two rows of words, on the kernels of      *)
(* rns/ops.rs, ring/rns_ops.rs and ring/rns_reshape.rs, and its scalars,   *)
(* the RnsZq of rns/element.rs.                                            *)
(*                                                                         *)
(* An element is [m, n, form, values] as in PolyElement; its basis m is    *)
(* [kind |-> "rns", q0, q1, inv], inv being q0 inverted modulo q1, and     *)
(* values is the pair of rows.                                             *)
(***************************************************************************)
EXTENDS PolyElement, Sequences

BigQ(b) == b.q0 * b.q1

\* rns/ops.rs, by prime.
AddSlices(b, lhs, rhs) == <<AddSlice(b.q0, lhs[1], rhs[1]), AddSlice(b.q1, lhs[2], rhs[2])>>
SubSlices(b, lhs, rhs) == <<SubSlice(b.q0, lhs[1], rhs[1]), SubSlice(b.q1, lhs[2], rhs[2])>>
MulSlices(b, lhs, rhs) == <<MulSlice(b.q0, lhs[1], rhs[1]), MulSlice(b.q1, lhs[2], rhs[2])>>
NegSlices(b, src) == <<NegSlice(b.q0, src[1]), NegSlice(b.q1, src[2])>>

\* Mutant: one reduction of the scalar for both primes.
ScalarMulSlicesShared(b, src, s0, s1) ==
  <<ScalarMulSlice(b.q0, src[1], s0), ScalarMulSlice(b.q1, src[2], s0)>>

ScalarMulSlices(b, src, s0, s1) ==
  <<ScalarMulSlice(b.q0, src[1], s0), ScalarMulSlice(b.q1, src[2], s1)>>

\* RnsBasis::reconstruct, Garner: a0 + q0 * ((a1 - a0) / q0 mod q1).
Reconstruct(b, a0, a1) == a0 + b.q0 * ((((a1 + b.q1) - (a0 % b.q1)) * b.inv) % b.q1)

ReconstructSlice(b, src) == [x \in DOMAIN src[1] |-> Reconstruct(b, src[1][x], src[2][x])]

\* decompose_slice.
DecomposeSlice(b, src) ==
  <<[x \in DOMAIN src |-> src[x] % b.q0], [x \in DOMAIN src |-> src[x] % b.q1]>>

\* to_centered_i128_slice.
ToCenteredSlices(b, src) ==
  [x \in DOMAIN src[1] |->
    LET v == Reconstruct(b, src[1][x], src[2][x])
    IN  IF v <= BigQ(b) \div 2 THEN v ELSE v - BigQ(b)]

\* to_centered_i128_ct_slice.
ToCenteredCtSlices(b, src) ==
  [x \in DOMAIN src[1] |->
    LET v == Reconstruct(b, src[1][x], src[2][x])
        negative == (BigQ(b) \div 2) - v < 0
    IN  v - (IF negative THEN BigQ(b) ELSE 0)]

\* negacyclic_mul_slice and rotate_slice of ring/rns_ops.rs.
NegacyclicMulSlices(b, n, lhs, rhs) ==
  <<R(b.q0)!Mul(lhs[1], rhs[1], n), R(b.q1)!Mul(lhs[2], rhs[2], n)>>

RotateSlices(b, n, src, k) == <<R(b.q0)!MulXPow(src[1], n, k), R(b.q1)!MulXPow(src[2], n, k)>>

\* ring/rns_reshape.rs.
EmbedAtSlices(b, src, n, large, slot) ==
  <<R(b.q0)!EmbedAt(src[1], n, large, slot), R(b.q1)!EmbedAt(src[2], n, large, slot)>>

ProjectAtSlices(b, src, n, small, slot) ==
  <<R(b.q0)!ProjectAt(src[1], n, small, slot), R(b.q1)!ProjectAt(src[2], n, small, slot)>>

PackSlotsSlices(src, small, large) ==
  <<PackSlotsSlice(src[1], small, large), PackSlotsSlice(src[2], small, large)>>

UnpackSlotsSlices(src, small, large) ==
  <<UnpackSlotsSlice(src[1], small, large), UnpackSlotsSlice(src[2], small, large)>>

-----------------------------------------------------------------------------
RnsOf(b, n, form, values) == [m |-> b, n |-> n, form |-> form, values |-> values]

RnsZero(b, n) == RnsOf(b, n, "coeff", <<[x \in 0..(n - 1) |-> 0], [x \in 0..(n - 1) |-> 0]>>)

\* PolyRns::new: a row of words for each prime.
RnsNew(b, n, words0, words1) ==
  RnsOf(b, n, "coeff", <<[x \in 0..(n - 1) |-> words0[x] % b.q0],
                         [x \in 0..(n - 1) |-> words1[x] % b.q1]>>)

\* from_u128_array.
RnsFromU128(b, n, values) == RnsOf(b, n, "coeff", DecomposeSlice(b, values))

RnsOne(b, n) ==
  LET row == [x \in 0..(n - 1) |-> IF x = 0 THEN 1 ELSE 0] IN RnsOf(b, n, "coeff", <<row, row>>)

RnsMulXPow(f, k) == [f EXCEPT !.values = RotateSlices(f.m, f.n, f.values, k)]

RnsIntoEval(f) ==
  RnsOf(f.m, f.n, "eval", <<NttInplace(f.m.q0, f.n, f.values[1]), NttInplace(f.m.q1, f.n, f.values[2])>>)

RnsIntoCoeff(f) ==
  RnsOf(f.m, f.n, "coeff", <<InttInplace(f.m.q0, f.n, f.values[1]), InttInplace(f.m.q1, f.n, f.values[2])>>)

RnsEmbedAt(f, large, slot) ==
  RnsOf(f.m, large, "coeff", EmbedAtSlices(f.m, f.values, f.n, large, slot))

RnsProjectAt(f, small, slot) ==
  RnsOf(f.m, small, "coeff", ProjectAtSlices(f.m, f.values, f.n, small, slot))

\* PolyRns::pack_slots.
RnsPackSlots(slots, d) ==
  LET n == slots[0].n
      Row(p) == [x \in 0..(d * n - 1) |-> slots[x % d].values[p][x \div d]]
  IN  RnsOf(slots[0].m, d * n, "coeff", <<Row(1), Row(2)>>)

\* PolyRns::unpack_slots.
RnsUnpackSlots(f, small) ==
  LET d == f.n \div small
      Row(j, p) == [i \in 0..(small - 1) |-> f.values[p][d * i + j]]
  IN  [j \in 0..(d - 1) |-> RnsOf(f.m, small, "coeff", <<Row(j, 1), Row(j, 2)>>)]

-----------------------------------------------------------------------------
\* The operators of a PolyRns in coefficient form; y is a word for "scale",
\* reduced once for each prime.
RnsCoeffOp(op, f, y) ==
  [f EXCEPT !.values =
    CASE op = "add" -> AddSlices(f.m, f.values, y.values)
      [] op = "sub" -> SubSlices(f.m, f.values, y.values)
      [] op = "neg" -> NegSlices(f.m, f.values)
      [] op = "mul" -> NegacyclicMulSlices(f.m, f.n, f.values, y.values)
      [] op = "scale" -> ScalarMulSlices(f.m, f.values, y % f.m.q0, y % f.m.q1)]

\* In evaluation form.
RnsEvalOp(op, f, y) ==
  [f EXCEPT !.values =
    CASE op = "add" -> AddSlices(f.m, f.values, y.values)
      [] op = "sub" -> SubSlices(f.m, f.values, y.values)
      [] op = "neg" -> NegSlices(f.m, f.values)
      [] op = "mul" -> MulSlices(f.m, f.values, y.values)
      [] op = "scale" -> ScalarMulSlices(f.m, f.values, y % f.m.q0, y % f.m.q1)]

\* eq, and ct_eq, which looks at the words only.
RnsEq(f, g) == f.m = g.m /\ f.values = g.values
RnsCtEq(f, g) ==
  \A x \in 0..(f.n - 1) : f.values[1][x] = g.values[1][x] /\ f.values[2][x] = g.values[2][x]

RnsSelect(f, g, choice) ==
  [f EXCEPT !.values = [p \in 1..2 |->
    [x \in 0..(f.n - 1) |-> IF choice = 1 THEN g.values[p][x] ELSE f.values[p][x]]]]

-----------------------------------------------------------------------------
\* The operators of an RnsZq, by prime; y is a word for "scale".
RnsZqOp(op, b, v, y) ==
  LET rhs == IF op = "scale" THEN <<y % b.q0, y % b.q1>> ELSE y
  IN  CASE op = "add" -> <<(v[1] + rhs[1]) % b.q0, (v[2] + rhs[2]) % b.q1>>
        [] op = "sub" -> <<(v[1] - rhs[1]) % b.q0, (v[2] - rhs[2]) % b.q1>>
        [] op \in {"mul", "scale"} -> <<(v[1] * rhs[1]) % b.q0, (v[2] * rhs[2]) % b.q1>>
        [] op = "neg" -> <<(0 - v[1]) % b.q0, (0 - v[2]) % b.q1>>

\* from_i128: the magnitude, negated in each slot if the sign says so.
RnsZqFromI128(b, x) ==
  LET magnitude == IF x < 0 THEN -x ELSE x
      pair == <<magnitude % b.q0, magnitude % b.q1>>
  IN  IF x < 0 THEN RnsZqOp("neg", b, pair, 0) ELSE pair

\* set_coeff, of a scalar.
RnsSetCoeff(f, i, v) == [f EXCEPT !.values[1][i] = v[1], !.values[2][i] = v[2]]
=============================================================================
