---------------------------- MODULE PolyElement -----------------------------
(***************************************************************************)
(* Poly (via-primitives/src/algebra/ring/element.rs): a ring element with  *)
(* one modulus, on the slice kernels of zq/ops.rs, and its scalars, the Zq *)
(* of zq/element.rs.                                                       *)
(*                                                                         *)
(* An element is [m, n, form, values]: its modulus [kind, q], its degree,  *)
(* "coeff" or "eval", and its words, indexed from 0.  Words stay below q;  *)
(* what the machine words of one operation do is the subject of Zq, and    *)
(* what the butterflies of a transform do is the subject of Ntt.  The type *)
(* of an element fixes n, form and, for kinds other than "dyn", q.         *)
(***************************************************************************)
EXTENDS Integers, Functions

CONSTANTS
  Degrees,     \* the degrees in use
  NttModuli    \* the moduli q with 2n dividing q - 1 for every such n

R(q) == INSTANCE Ring WITH P <- q

\* zq/ops.rs.
AddSlice(q, lhs, rhs) == [x \in DOMAIN lhs |-> (lhs[x] + rhs[x]) % q]
SubSlice(q, lhs, rhs) == [x \in DOMAIN lhs |-> (lhs[x] - rhs[x]) % q]
MulSlice(q, lhs, rhs) == [x \in DOMAIN lhs |-> (lhs[x] * rhs[x]) % q]
NegSlice(q, src) == [x \in DOMAIN src |-> (0 - src[x]) % q]
ScalarMulSlice(q, src, scalar) == [x \in DOMAIN src |-> (src[x] * scalar) % q]

\* to_centered_i64_slice: the representative in (-q/2, q/2].
ToCenteredSlice(q, src) ==
  [x \in DOMAIN src |-> IF src[x] <= q \div 2 THEN src[x] ELSE src[x] - q]

\* to_centered_i64_ct_slice: the sign bit of q/2 - v selects.
ToCenteredCtSlice(q, src) ==
  [x \in DOMAIN src |->
    LET negative == (q \div 2) - src[x] < 0 IN src[x] - (IF negative THEN q ELSE 0)]

-----------------------------------------------------------------------------
Power(q, b, e) == LET p[i \in 0..e] == IF i = 0 THEN 1 % q ELSE (p[i - 1] * b) % q IN p[e]

\* k with its log2(n) low bits reversed.
Reversed(k, n) ==
  LET rev[m \in 1..n] == IF m = 1 THEN [j \in {0} |-> 0]
        ELSE IF m % 2 = 1 THEN <<>>
        ELSE [j \in 0..(m - 1) |-> 2 * rev[m \div 2][j % (m \div 2)] + (j \div (m \div 2))]
  IN  rev[n][k]

\* The powers 0 to 2n - 1 of the evaluation points, in the order of the
\* transform: point k is psi to the 2 brv(k) + 1, for a psi of order 2n.
PointPowers ==
  [q \in NttModuli |-> [n \in Degrees |->
    LET psi == CHOOSE w \in 1..(q - 1) : Power(q, w, n) = q - 1
    IN  [k \in 0..(n - 1) |-> [e \in 0..(2 * n - 1) |->
          Power(q, psi, (2 * Reversed(k, n) + 1) * e % (2 * n))]]]]

SumTo(q, term) == FoldFunction(LAMBDA t, acc : (t + acc) % q, 0, term)

\* ntt_inplace, by what it computes.
NttInplace(q, n, buf) ==
  [k \in 0..(n - 1) |->
    SumTo(q, [j \in 0..(n - 1) |-> buf[j] * PointPowers[q][n][k][j]])]

\* intt_inplace: the points to the power -j, and 1 / n.
InttInplace(q, n, buf) ==
  LET nInv == CHOOSE i \in 1..(q - 1) : (i * n) % q = 1
  IN  [j \in 0..(n - 1) |->
        (nInv * SumTo(q, [k \in 0..(n - 1) |->
                        buf[k] * PointPowers[q][n][k][(2 * n - j) % (2 * n)]])) % q]

-----------------------------------------------------------------------------
PolyOf(m, n, form, values) == [m |-> m, n |-> n, form |-> form, values |-> values]

PolyZero(m, n) == PolyOf(m, n, "coeff", [x \in 0..(n - 1) |-> 0])

\* Poly::new: any words, reduced.
PolyNew(m, n, words) == PolyOf(m, n, "coeff", [x \in 0..(n - 1) |-> words[x] % m.q])

PolyOne(m, n) == PolyOf(m, n, "coeff", [x \in 0..(n - 1) |-> IF x = 0 THEN 1 ELSE 0])

PolyMulXPow(f, k) == [f EXCEPT !.values = R(f.m.q)!MulXPow(f.values, f.n, k)]

PolyIntoEval(f) == PolyOf(f.m, f.n, "eval", NttInplace(f.m.q, f.n, f.values))

PolyIntoCoeff(f) == PolyOf(f.m, f.n, "coeff", InttInplace(f.m.q, f.n, f.values))

PolyEmbedAt(f, large, slot) ==
  PolyOf(f.m, large, "coeff", R(f.m.q)!EmbedAt(f.values, f.n, large, slot))

PolyProjectAt(f, small, slot) ==
  PolyOf(f.m, small, "coeff", R(f.m.q)!ProjectAt(f.values, f.n, small, slot))

\* Poly::pack_slots: coefficient i of slot j goes to d * i + j.
PolyPackSlots(slots, d) ==
  LET n == slots[0].n
  IN  PolyOf(slots[0].m, d * n, "coeff",
             [x \in 0..(d * n - 1) |-> slots[x % d].values[x \div d]])

\* Poly::unpack_slots.
PolyUnpackSlots(f, small) ==
  LET d == f.n \div small
  IN  [j \in 0..(d - 1) |->
        PolyOf(f.m, small, "coeff", [i \in 0..(small - 1) |-> f.values[d * i + j]])]

\* pack_slots_slice: the slots lie one after the other in src.
PackSlotsSlice(src, small, large) ==
  LET d == large \div small
  IN  [x \in 0..(large - 1) |-> src[(x % d) * small + (x \div d)]]

\* unpack_slots_slice.
UnpackSlotsSlice(src, small, large) ==
  LET d == large \div small
  IN  [x \in 0..(large - 1) |-> src[d * (x % small) + (x \div small)]]

-----------------------------------------------------------------------------
\* The operators of a Poly in coefficient form; y is a word for "scale".
PolyCoeffOp(op, f, y) ==
  LET q == f.m.q
      v == f.values
  IN  [f EXCEPT !.values =
        CASE op = "add" -> AddSlice(q, v, y.values)
          [] op = "sub" -> SubSlice(q, v, y.values)
          [] op = "neg" -> NegSlice(q, v)
          [] op = "mul" -> R(q)!Mul(v, y.values, f.n)
          [] op = "scale" -> ScalarMulSlice(q, v, y % q)]

\* The operators of a Poly in evaluation form: the product is slot by slot.
PolyEvalOp(op, f, y) ==
  LET q == f.m.q
      v == f.values
  IN  [f EXCEPT !.values =
        CASE op = "add" -> AddSlice(q, v, y.values)
          [] op = "sub" -> SubSlice(q, v, y.values)
          [] op = "neg" -> NegSlice(q, v)
          [] op = "mul" -> MulSlice(q, v, y.values)
          [] op = "scale" -> ScalarMulSlice(q, v, y % q)]

\* eq, and ct_eq, which looks at the words only.
PolyEq(f, g) == f.m = g.m /\ f.values = g.values
PolyCtEq(f, g) == \A x \in DOMAIN f.values : f.values[x] = g.values[x]

\* conditional_select, word by word.
PolySelect(f, g, choice) ==
  [f EXCEPT !.values = [x \in DOMAIN f.values |-> IF choice = 1 THEN g.values[x] ELSE f.values[x]]]

-----------------------------------------------------------------------------
\* The operators of a Zq; y is a word for "scale".
ZqOp(op, q, v, y) ==
  CASE op = "add" -> (v + y) % q
    [] op = "sub" -> (v - y) % q
    [] op = "mul" -> (v * y) % q
    [] op = "scale" -> (v * y) % q
    [] op = "neg" -> (0 - v) % q

\* set_coeff, of a scalar.
PolySetCoeff(f, i, v) == [f EXCEPT !.values[i] = v]
=============================================================================
