-------------------------------- MODULE Ring --------------------------------
(***************************************************************************)
(* The polynomial ring Z_P[X] / (X^n + 1) of via-primitives/src/algebra:   *)
(* the slice kernels of ring/ops.rs and ring/reshape.rs.  A polynomial of  *)
(* degree n is the function of its coefficients, indexed from 0.           *)
(***************************************************************************)
EXTENDS Integers

CONSTANT P   \* the modulus

ASSUME ModulusAssumption == P \in Nat \ {0}

Coeff == 0..(P - 1)

Poly(n) == [0..(n - 1) -> Coeff]

Zero(n) == [x \in 0..(n - 1) |-> 0]

\* Mutant: the sum is not reduced.
AddUnreduced(f, g) == [x \in DOMAIN f |-> f[x] + g[x]]

Add(f, g) == [x \in DOMAIN f |-> (f[x] + g[x]) % P]

Neg(f) == [x \in DOMAIN f |-> (P - f[x]) % P]

Sub(f, g) == Add(f, Neg(g))

\* The product with the constant polynomial a.
Scale(a, f) == [x \in DOMAIN f |-> (a * f[x]) % P]

\* negacyclic_mul_slice: coefficients i of f and j of g meet at i + j, or
\* negated at i + j - n.
Mul(f, g, n) ==
  LET Term(x, i) == IF i <= x THEN f[i] * g[x - i] ELSE (P - f[i]) * g[n + x - i]
      Product(x) ==
        LET sum[i \in 0..n] == IF i = 0 THEN 0 ELSE (sum[i - 1] + Term(x, i - 1)) % P
        IN  sum[n]
  IN  [x \in 0..(n - 1) |-> Product(x)]

\* rotate_slice: f * X^k.  Coefficient i moves to i + k; each time it passes
\* n it changes sign.
MulXPow(f, n, k) ==
  LET shift == k % n
      negGlobal == k % (2 * n) >= n
      Source(x) == (x + n - shift) % n
      wrapped(x) == Source(x) + shift >= n
      moved == [x \in 0..(n - 1) |-> f[Source(x)]]
  IN  [x \in 0..(n - 1) |-> IF wrapped(x) # negGlobal THEN Neg(moved)[x] ELSE moved[x]]

\* embed_at_slice: coefficient i of f goes to d * i + slot, the rest is zero.
EmbedAt(f, small, large, slot) ==
  LET d == large \div small
  IN  [x \in 0..(large - 1) |-> IF x % d = slot THEN f[x \div d] ELSE 0]

\* project_at_slice: coefficient i is taken from d * i + slot.
ProjectAt(f, large, small, slot) ==
  LET d == large \div small
  IN  [i \in 0..(small - 1) |-> f[d * i + slot]]
=============================================================================
