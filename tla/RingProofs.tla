------------------------------ MODULE RingProofs ------------------------------
(***************************************************************************)
(* Ring computes in a commutative ring: sums and products modulo P with    *)
(* X^n = -1 are associative, commutative and distribute, for every modulus *)
(* and degree.  On it rest the proofs about what is encrypted.             *)
(*                                                                         *)
(* The proof goes up from the coefficients: Z_P, polynomials, products as  *)
(* sums of rotations, inner products, linear maps, and the two ways        *)
(* between degrees: embedding, and the slots of a polynomial.  Last come   *)
(* the roots of X^n + 1, the values of a product at them, and what a       *)
(* butterfly of the number-theoretic transform makes of the residues.      *)
(***************************************************************************)
EXTENDS Ring, WellFoundedInduction, FiniteSetTheorems, TLAPS

-----------------------------------------------------------------------------
(***************************************************************************)
(* Least elements, division, recursion.                                    *)
(***************************************************************************)

\* A non-empty set of natural numbers has a least element.
LEMMA LeastElement ==
  ASSUME NEW S, S \subseteq Nat, S # {}
  PROVE  \E t \in S : \A u \in S : t <= u
  <1> DEFINE R == OpToRel(<, Nat)
  <1>1. IsWellFoundedOn(R, Nat)
    BY NatLessThanWellFounded
  <1>2. R = {ss \in Nat \X Nat : ss[1] < ss[2]}
    BY Zenon DEF OpToRel
  <1> HIDE DEF R
  <1>3. PICK t \in S : \A u \in S : <<u, t>> \notin R
    BY <1>1, WFMin
  <1>4. ASSUME NEW u \in S PROVE t <= u
    <2>1. t \in Nat /\ u \in Nat /\ <<u, t>> \notin R
      BY <1>3
    <2>2. ~(u < t)
      BY <1>2, <2>1
    <2>3. QED BY <2>1, <2>2
  <1>5. QED BY <1>3, <1>4

\* Division and remainder, as the provers need them.
LEMMA DivMod ==
  ASSUME NEW x \in Nat, NEW d \in Nat \ {0}
  PROVE  /\ x \div d \in Nat
         /\ x % d \in 0..(d - 1)
         /\ x = d * (x \div d) + (x % d)
  BY Z3

\* A quotient and a remainder that fit are the quotient and the remainder.
LEMMA DivModUnique ==
  ASSUME NEW x \in Nat, NEW d \in Nat \ {0}, NEW q \in Nat, NEW r \in 0..(d - 1),
         x = d * q + r
  PROVE  x \div d = q /\ x % d = r
  <1> DEFINE q1 == x \div d
             r1 == x % d
  <1>1. q1 \in Nat /\ r1 \in 0..(d - 1) /\ x = d * q1 + r1
    BY DivMod
  <1> HIDE DEF q1, r1
  <1>2. ASSUME q1 < q PROVE FALSE
    <2>1. d * (q1 + 1) <= d * q
      BY <1>1, <1>2, Z3
    <2>2. QED BY <1>1, <2>1, Z3
  <1>3. ASSUME q < q1 PROVE FALSE
    <2>1. d * (q + 1) <= d * q1
      BY <1>1, <1>3, Z3
    <2>2. QED BY <1>1, <2>1, Z3
  <1>4. q1 = q
    BY <1>1, <1>2, <1>3, Z3
  <1>5. QED BY <1>1, <1>4, Z3 DEF q1, r1

-----------------------------------------------------------------------------
\* Induction over 0..n, on a set.
LEMMA SetInduction ==
  ASSUME NEW n \in Nat, NEW T, 0 \in T, \A k \in 0..(n - 1) : k \in T => k + 1 \in T
  PROVE  \A k \in 0..n : k \in T
  <1> DEFINE B == (0..n) \ T
  <1> SUFFICES ASSUME B # {} PROVE FALSE
    OBVIOUS
  <1>1. PICK k \in B : \A u \in B : k <= u
    <2>1. B \subseteq Nat
      OBVIOUS
    <2> HIDE DEF B
    <2>2. QED BY <2>1, LeastElement
  <1>2. k \in 0..n /\ k \notin T
    OBVIOUS
  <1>3. k - 1 \in 0..(n - 1) /\ k - 1 \in 0..n /\ ~(k <= k - 1)
    BY <1>2
  <1>4. k - 1 \in T
    BY <1>1, <1>3
  <1>5. (k - 1) + 1 = k
    BY <1>2
  <1>6. QED BY <1>2, <1>3, <1>4, <1>5

\* Functions that start alike and go on alike are alike.
LEMMA AgreeUpTo ==
  ASSUME NEW n \in Nat, NEW f, NEW g, f[0] = g[0],
         \A l \in 1..n : f[l - 1] = g[l - 1] => f[l] = g[l]
  PROVE  \A l \in 0..n : f[l] = g[l]
  <1> DEFINE T == {l \in 0..n : f[l] = g[l]}
  <1>1. 0 \in T
    OBVIOUS
  <1>2. ASSUME NEW k \in 0..(n - 1), k \in T PROVE k + 1 \in T
    <2>1. k + 1 \in 1..n /\ (k + 1) - 1 = k /\ k + 1 \in 0..n
      OBVIOUS
    <2>2. f[k + 1] = g[k + 1]
      BY <1>2, <2>1
    <2>3. QED BY <2>1, <2>2
  <1> HIDE DEF T
  <1>3. \A l \in 0..n : l \in T
    BY <1>1, <1>2, SetInduction
  <1>4. QED BY <1>3 DEF T

\* f starts at base and goes on by the steps F.
Obeys(f, n, base, F) == f[0] = base /\ \A l \in 1..n : f[l] = F[l][f[l - 1]]

\* A recursion over 0..n has a solution.
LEMMA Recursion ==
  ASSUME NEW n \in Nat, NEW V, NEW base, base \in V, NEW F, F \in [1..n -> [V -> V]]
  PROVE  \E f : f \in [0..n -> V] /\ Obeys(f, n, base, F)
  <1> DEFINE Solves(f, m) == f[0] = base /\ \A l \in 1..m : f[l] = F[l][f[l - 1]]
             T == {m \in 0..n : \E f \in [0..m -> V] : Solves(f, m)}
  <1>1. 0 \in T
    <2> DEFINE f == [l \in 0..0 |-> base]
    <2>1. f \in [0..0 -> V] /\ Solves(f, 0)
      OBVIOUS
    <2> HIDE DEF f, Solves
    <2>2. QED BY <2>1
  <1>2. ASSUME NEW m \in 0..(n - 1), m \in T PROVE m + 1 \in T
    <2>1. PICK f \in [0..m -> V] : Solves(f, m)
      BY <1>2
    <2> DEFINE g == [l \in 0..(m + 1) |-> IF l = m + 1 THEN F[m + 1][f[m]] ELSE f[l]]
    <2>2. m + 1 \in 1..n /\ m \in 0..m /\ m + 1 \in 0..n /\ 0 # m + 1
      OBVIOUS
    <2>3. F[m + 1][f[m]] \in V
      BY <2>2
    <2>4. g \in [0..(m + 1) -> V]
      BY <2>3
    <2>5. Solves(g, m + 1)
      <3>1. g[0] = base
        BY <2>1, <2>2
      <3>2. ASSUME NEW l \in 1..(m + 1) PROVE g[l] = F[l][g[l - 1]]
        <4>1. CASE l = m + 1
          <5>1. l - 1 = m /\ l - 1 # m + 1 /\ l - 1 \in 0..(m + 1) /\ l \in 0..(m + 1)
            BY <4>1
          <5>2. QED BY <4>1, <5>1
        <4>2. CASE l # m + 1
          <5>1. l \in 1..m /\ l - 1 # m + 1 /\ l - 1 \in 0..(m + 1) /\ l \in 0..(m + 1)
            BY <4>2
          <5>2. f[l] = F[l][f[l - 1]]
            BY <2>1, <5>1
          <5>3. QED BY <4>2, <5>1, <5>2
        <4>3. QED BY <4>1, <4>2
      <3> HIDE DEF g
      <3>3. QED BY <3>1, <3>2
    <2> HIDE DEF g, Solves
    <2>6. QED BY <2>2, <2>4, <2>5
  <1> HIDE DEF T
  <1>3. \A l \in 0..n : l \in T
    BY <1>1, <1>2, SetInduction
  <1>4. n \in T
    BY <1>3
  <1>5. QED BY <1>4, Zenon DEF T, Obeys

-----------------------------------------------------------------------------
(***************************************************************************)
(* Coefficients: the integers modulo P.                                    *)
(***************************************************************************)

CAdd(a, b) == (a + b) % P
CNeg(a) == (P - a) % P
CMul(a, b) == (a * b) % P
COne == 1 % P

\* A product of natural numbers is one.
LEMMA NatProduct ==
  ASSUME NEW a \in Nat, NEW b \in Nat
  PROVE  a * b \in Nat
  BY Z3

\* Multiples of the modulus do not change a remainder.
LEMMA ModPlus ==
  ASSUME NEW x \in Nat, NEW j \in Nat
  PROVE  (x + P * j) % P = x % P
  <1> DEFINE k == x \div P
             m == x % P
  <1>1. P \in Nat \ {0}
    BY ModulusAssumption
  <1>2. k \in Nat /\ m \in 0..(P - 1) /\ x = P * k + m
    BY <1>1, DivMod
  <1> HIDE DEF k, m
  <1>3. P * (k + j) = P * k + P * j
    BY <1>1, <1>2, Z3
  <1>4. P * k \in Nat /\ P * j \in Nat
    BY <1>1, <1>2, NatProduct
  <1> DEFINE a == P * k
             b == P * j
             c == P * (k + j)
  <1>5. x + b = c + m /\ x + b \in Nat
    <2>1. a \in Nat /\ b \in Nat /\ c = a + b /\ x = a + m
      BY <1>2, <1>3, <1>4
    <2> HIDE DEF a, b, c
    <2>2. QED BY <1>2, <2>1
  <1>6. k + j \in Nat
    BY <1>2
  <1>7. (x + P * j) % P = m
    BY <1>1, <1>2, <1>5, <1>6, DivModUnique
  <1>8. QED BY <1>7 DEF m

\* Remainders may be taken early, in sums and in products.
LEMMA ModEarly ==
  ASSUME NEW a \in Nat, NEW b \in Nat
  PROVE  /\ ((a % P) + b) % P = (a + b) % P
         /\ (a + (b % P)) % P = (a + b) % P
         /\ ((a % P) * b) % P = (a * b) % P
         /\ (a * (b % P)) % P = (a * b) % P
  <1>1. P \in Nat \ {0}
    BY ModulusAssumption
  <1>2. ASSUME NEW u \in Nat, NEW v \in Nat
        PROVE  /\ ((u % P) + v) % P = (u + v) % P
               /\ ((u % P) * v) % P = (u * v) % P
    <2> DEFINE k == u \div P
               m == u % P
    <2>1. k \in Nat /\ m \in 0..(P - 1) /\ u = P * k + m
      BY <1>1, DivMod
    <2> HIDE DEF k, m
    <2>2. m \in Nat /\ P * k \in Nat
      BY <1>1, <2>1, NatProduct
    <2>3. (m + v) % P = (u + v) % P
      <3>1. ((m + v) + P * k) % P = (m + v) % P
        BY <2>1, <2>2, ModPlus
      <3>2. (m + v) + P * k = u + v
        BY <2>1, <2>2
      <3>3. QED BY <3>1, <3>2
    <2>4. (m * v) % P = (u * v) % P
      <3>1. m * v \in Nat /\ k * v \in Nat
        BY <2>1, <2>2, NatProduct
      <3>2. (m * v + P * (k * v)) % P = (m * v) % P
        BY <3>1, ModPlus
      <3>3. m * v + P * (k * v) = u * v
        BY <1>1, <2>1, <2>2, Z3
      <3>4. QED BY <3>2, <3>3
    <2>5. QED BY <2>3, <2>4 DEF m
  <1>3. a % P \in Nat /\ b % P \in Nat
    BY <1>1, DivMod
  <1>4. a + (b % P) = (b % P) + a /\ a + b = b + a
    BY <1>3
  <1>5. a * (b % P) = (b % P) * a /\ a * b = b * a
    BY <1>3, Z3
  <1>6. QED BY <1>2, <1>4, <1>5

\* They form a commutative ring.
LEMMA CoeffClosed ==
  /\ 0 \in Coeff /\ COne \in Coeff
  /\ \A a \in Coeff : a \in Nat /\ a < P /\ a % P = a /\ CNeg(a) \in Coeff
  /\ \A a, b \in Coeff : CAdd(a, b) \in Coeff /\ CMul(a, b) \in Coeff
  <1>1. P \in Nat \ {0}
    BY ModulusAssumption
  <1>2. ASSUME NEW v \in Nat PROVE v % P \in Coeff
    BY <1>1, DivMod DEF Coeff
  <1>3. ASSUME NEW a \in Coeff PROVE a \in Nat /\ a < P /\ a % P = a /\ CNeg(a) \in Coeff
    <2>1. a \in Nat /\ a < P /\ P - a \in Nat /\ a \in 0..(P - 1) /\ a = P * 0 + a
      BY <1>1 DEF Coeff
    <2>2. a % P = a
      BY <1>1, <2>1, DivModUnique
    <2>3. QED BY <1>2, <2>1, <2>2 DEF CNeg
  <1>4. ASSUME NEW a \in Coeff, NEW b \in Coeff
        PROVE  CAdd(a, b) \in Coeff /\ CMul(a, b) \in Coeff
    <2>1. a \in Nat /\ b \in Nat
      BY <1>3
    <2>2. a + b \in Nat /\ a * b \in Nat
      BY <2>1, NatProduct
    <2>3. QED BY <1>2, <2>2 DEF CAdd, CMul
  <1>5. 0 \in Coeff /\ COne \in Coeff
    BY <1>1, <1>2 DEF COne, Coeff
  <1>6. QED BY <1>3, <1>4, <1>5

\* Coefficients under addition: an abelian group.
LEMMA CoeffSums ==
  ASSUME NEW a \in Coeff, NEW b \in Coeff, NEW c \in Coeff
  PROVE  /\ CAdd(a, b) = CAdd(b, a)
         /\ CAdd(CAdd(a, b), c) = CAdd(a, CAdd(b, c))
         /\ CAdd(a, 0) = a /\ CAdd(0, a) = a
         /\ CAdd(a, CNeg(a)) = 0
  <1>1. P \in Nat \ {0} /\ a \in Nat /\ b \in Nat /\ c \in Nat /\ a < P /\ a % P = a
    BY CoeffClosed, ModulusAssumption
  <1>2. a + b = b + a /\ (a + b) + c = a + (b + c) /\ a + 0 = a /\ 0 + a = a
    BY <1>1
  <1>3. (((a + b) % P) + c) % P = ((a + b) + c) % P /\ (a + ((b + c) % P)) % P = (a + (b + c)) % P
    <2>1. a + b \in Nat /\ b + c \in Nat
      BY <1>1
    <2>2. QED BY <1>1, <2>1, ModEarly
  <1>4. (a + ((P - a) % P)) % P = 0
    <2>1. P - a \in Nat
      BY <1>1
    <2>2. (a + ((P - a) % P)) % P = (a + (P - a)) % P
      BY <1>1, <2>1, ModEarly
    <2>3. a + (P - a) = P * 1 + 0 /\ P * 1 + 0 \in Nat /\ 0 \in 0..(P - 1)
      BY <1>1
    <2>4. (P * 1 + 0) % P = 0
      BY <1>1, <2>3, DivModUnique
    <2>5. QED BY <2>2, <2>3, <2>4
  <1>5. QED BY <1>1, <1>2, <1>3, <1>4 DEF CAdd, CNeg

\* Coefficients under multiplication, over addition.
LEMMA CoeffProducts ==
  ASSUME NEW a \in Coeff, NEW b \in Coeff, NEW c \in Coeff
  PROVE  /\ CMul(a, b) = CMul(b, a)
         /\ CMul(CMul(a, b), c) = CMul(a, CMul(b, c))
         /\ CMul(CAdd(a, b), c) = CAdd(CMul(a, c), CMul(b, c))
         /\ CMul(0, a) = 0
         /\ CMul(COne, a) = a
  <1>1. P \in Nat \ {0} /\ a \in Nat /\ b \in Nat /\ c \in Nat /\ a % P = a
    BY CoeffClosed, ModulusAssumption
  <1>2. a * b = b * a /\ (a * b) * c = a * (b * c)
    <2>1. a * b = b * a
      BY <1>1, Z3
    <2>2. (a * b) * c = a * (b * c)
      BY <1>1, Z3
    <2>3. QED BY <2>1, <2>2
  <1>d. (a + b) * c = a * c + b * c
    BY <1>1, Z3
  <1>3. a * b \in Nat /\ b * c \in Nat /\ a * c \in Nat /\ a + b \in Nat
    BY <1>1, NatProduct
  <1>e. \A u, v \in Nat : /\ ((u % P) + v) % P = (u + v) % P
                         /\ (u + (v % P)) % P = (u + v) % P
                         /\ ((u % P) * v) % P = (u * v) % P
                         /\ (u * (v % P)) % P = (u * v) % P
    BY ModEarly
  <1>4. (((a * b) % P) * c) % P = ((a * b) * c) % P /\ (a * ((b * c) % P)) % P = (a * (b * c)) % P
    BY <1>1, <1>3, <1>e, Zenon
  <1>5. (((a + b) % P) * c) % P = ((a + b) * c) % P
    BY <1>1, <1>3, <1>e, Zenon
  <1>6. (((a * c) % P) + ((b * c) % P)) % P = (a * c + b * c) % P
    <2>1. (b * c) % P \in Nat
      BY <1>1, <1>3, DivMod
    <2>2. (((a * c) % P) + ((b * c) % P)) % P = (a * c + ((b * c) % P)) % P
      BY <1>3, <2>1, <1>e, Zenon
    <2>3. (a * c + ((b * c) % P)) % P = (a * c + b * c) % P
      BY <1>3, <1>e, Zenon
    <2>4. QED BY <2>2, <2>3, Zenon
  <1>7. 0 * a = 0 /\ 1 * a = a /\ 0 % P = 0
    BY <1>1, CoeffClosed
  <1>8. ((1 % P) * a) % P = (1 * a) % P
    BY <1>1, <1>e
  <1>f. CMul(a, b) = CMul(b, a) /\ CMul(CMul(a, b), c) = CMul(a, CMul(b, c))
    BY <1>2, <1>4, Zenon DEF CMul
  <1>g. CMul(CAdd(a, b), c) = CAdd(CMul(a, c), CMul(b, c))
    BY <1>d, <1>5, <1>6, Zenon DEF CMul, CAdd
  <1>h. CMul(0, a) = 0 /\ CMul(COne, a) = a
    BY <1>1, <1>7, <1>8, Zenon DEF CMul, COne
  <1>9. QED BY <1>f, <1>g, <1>h

\* The term of Mul at a place that wraps, with the sign on the other factor.
LEMMA WrappedTerm ==
  ASSUME NEW a \in Coeff, NEW b \in Coeff, NEW t \in Coeff
  PROVE  /\ (t + a * b) % P = CAdd(t, CMul(a, b))
         /\ (t + (P - a) * b) % P = CAdd(t, CMul(a, CNeg(b)))
  <1>1. P \in Nat \ {0} /\ a \in Nat /\ b \in Nat /\ t \in Nat /\ a < P /\ b < P
    BY CoeffClosed, ModulusAssumption
  <1>2. P - a \in Nat /\ P - b \in Nat
    BY <1>1
  <1>3. a * b \in Nat /\ (P - a) * b \in Nat /\ a * (P - b) \in Nat
    BY <1>1, <1>2, NatProduct
  <1>4. (t + a * b) % P = CAdd(t, CMul(a, b))
    BY <1>1, <1>3, ModEarly DEF CAdd, CMul
  <1>5. ((P - a) * b) % P = (a * (P - b)) % P
    <2>1. ((P - a) * b + P * a) % P = ((P - a) * b) % P
      BY <1>1, <1>3, ModPlus
    <2>2. (a * (P - b) + P * b) % P = (a * (P - b)) % P
      BY <1>1, <1>3, ModPlus
    <2>3. (P - a) * b + P * a = a * (P - b) + P * b
      <3>1. (P - a) * b = P * b - a * b /\ a * (P - b) = P * a - a * b
        BY <1>1, Z3
      <3>2. P * a \in Nat /\ P * b \in Nat
        BY <1>1, NatProduct
      <3> DEFINE u == P * a
                 v == P * b
                 w == a * b
      <3>3. u \in Nat /\ v \in Nat /\ w \in Nat
        BY <1>3, <3>2
      <3>4. (v - w) + u = (u - w) + v
        <4> HIDE DEF u, v, w
        <4>1. QED BY <3>3
      <3>5. QED BY <3>1, <3>4 DEF u, v, w
    <2>4. QED BY <2>1, <2>2, <2>3
  <1>6. (t + (P - a) * b) % P = CAdd(t, CMul(a, CNeg(b)))
    <2>1. (t + (P - a) * b) % P = (t + (((P - a) * b) % P)) % P
      BY <1>1, <1>3, ModEarly
    <2>2. (a * ((P - b) % P)) % P = (a * (P - b)) % P
      BY <1>1, <1>2, ModEarly
    <2>3. QED BY <1>5, <2>1, <2>2 DEF CAdd, CMul, CNeg
  <1>7. QED BY <1>4, <1>6

-----------------------------------------------------------------------------
(***************************************************************************)
(* Polynomials: a module over the coefficients.                            *)
(***************************************************************************)

\* A polynomial coefficient by coefficient.
LEMMA PolyAt ==
  ASSUME NEW n, NEW f \in Poly(n)
  PROVE  /\ \A x \in 0..(n - 1) : f[x] \in Coeff
         /\ Zero(n) \in Poly(n) /\ \A x \in 0..(n - 1) : Zero(n)[x] = 0
         /\ Neg(f) \in Poly(n) /\ \A x \in 0..(n - 1) : Neg(f)[x] = CNeg(f[x])
         /\ \A a \in Coeff : /\ Scale(a, f) \in Poly(n)
                             /\ \A x \in 0..(n - 1) : Scale(a, f)[x] = CMul(a, f[x])
         /\ \A g \in Poly(n) : /\ Add(f, g) \in Poly(n)
                               /\ \A x \in 0..(n - 1) : Add(f, g)[x] = CAdd(f[x], g[x])
  <1>1. f \in [0..(n - 1) -> Coeff] /\ DOMAIN f = 0..(n - 1)
    BY DEF Poly
  <1>2. \A x \in 0..(n - 1) : f[x] \in Coeff
    BY <1>1
  <1>3. Zero(n) \in Poly(n) /\ \A x \in 0..(n - 1) : Zero(n)[x] = 0
    BY CoeffClosed DEF Zero, Poly
  <1>4. Neg(f) \in Poly(n) /\ \A x \in 0..(n - 1) : Neg(f)[x] = CNeg(f[x])
    <2>1. Neg(f) = [x \in 0..(n - 1) |-> CNeg(f[x])]
      BY <1>1, Zenon DEF Neg, CNeg
    <2>2. \A x \in 0..(n - 1) : CNeg(f[x]) \in Coeff
      BY <1>2, CoeffClosed
    <2>3. QED BY <2>1, <2>2 DEF Poly
  <1>5. ASSUME NEW a \in Coeff
        PROVE  Scale(a, f) \in Poly(n) /\ \A x \in 0..(n - 1) : Scale(a, f)[x] = CMul(a, f[x])
    <2>1. Scale(a, f) = [x \in 0..(n - 1) |-> CMul(a, f[x])]
      BY <1>1, Zenon DEF Scale, CMul
    <2>2. \A x \in 0..(n - 1) : CMul(a, f[x]) \in Coeff
      BY <1>2, CoeffClosed
    <2>3. QED BY <2>1, <2>2 DEF Poly
  <1>6. ASSUME NEW g \in Poly(n)
        PROVE  Add(f, g) \in Poly(n) /\ \A x \in 0..(n - 1) : Add(f, g)[x] = CAdd(f[x], g[x])
    <2>1. Add(f, g) = [x \in 0..(n - 1) |-> CAdd(f[x], g[x])]
      BY <1>1, Zenon DEF Add, CAdd
    <2>2. \A x \in 0..(n - 1) : g[x] \in Coeff
      BY DEF Poly
    <2>3. \A x \in 0..(n - 1) : CAdd(f[x], g[x]) \in Coeff
      BY <1>2, <2>2, CoeffClosed
    <2>4. QED BY <2>1, <2>3 DEF Poly
  <1>7. QED BY <1>2, <1>3, <1>4, <1>5, <1>6

\* Sums, differences and negations coefficient by coefficient.
LEMMA SumAt ==
  ASSUME NEW n, NEW f \in Poly(n), NEW g \in Poly(n), NEW x \in 0..(n - 1)
  PROVE  Add(f, g)[x] = CAdd(f[x], g[x])
  <1>1. DOMAIN f = 0..(n - 1)
    BY DEF Poly
  <1>2. Add(f, g)[x] = (f[x] + g[x]) % P
    BY <1>1, Zenon DEF Add
  <1>3. QED BY <1>2, Zenon DEF CAdd

\* Scaling coefficient by coefficient.
LEMMA ScaleAt ==
  ASSUME NEW n, NEW f \in Poly(n), NEW a \in Coeff, NEW x \in 0..(n - 1)
  PROVE  Scale(a, f)[x] = CMul(a, f[x])
  <1>1. DOMAIN f = 0..(n - 1)
    BY DEF Poly
  <1>2. Scale(a, f)[x] = (a * f[x]) % P
    BY <1>1, Zenon DEF Scale
  <1>3. QED BY <1>2, Zenon DEF CMul

\* Polynomials with the same coefficients are equal.
LEMMA PolyEqual ==
  ASSUME NEW n, NEW f \in Poly(n), NEW g \in Poly(n), \A x \in 0..(n - 1) : f[x] = g[x]
  PROVE  f = g
  <1> DEFINE D == 0..(n - 1)
  <1>1. f \in [D -> Coeff] /\ g \in [D -> Coeff] /\ \A x \in D : f[x] = g[x]
    BY DEF Poly
  <1> HIDE DEF D
  <1>2. QED BY <1>1

\* Sums of polynomials form a commutative group.
LEMMA PolySums ==
  ASSUME NEW n, NEW f \in Poly(n), NEW g \in Poly(n), NEW h \in Poly(n)
  PROVE  /\ Add(f, g) \in Poly(n) /\ Neg(f) \in Poly(n) /\ Zero(n) \in Poly(n)
         /\ Add(f, g) = Add(g, f)
         /\ Add(Add(f, g), h) = Add(f, Add(g, h))
         /\ Add(f, Zero(n)) = f /\ Add(Zero(n), f) = f
         /\ Add(f, Neg(f)) = Zero(n)
  <1>1. Add(f, g) \in Poly(n) /\ Add(g, f) \in Poly(n) /\ Add(g, h) \in Poly(n)
        /\ Neg(f) \in Poly(n) /\ Zero(n) \in Poly(n)
    BY PolyAt
  <1>2. /\ Add(Add(f, g), h) \in Poly(n) /\ Add(f, Add(g, h)) \in Poly(n)
        /\ Add(f, Zero(n)) \in Poly(n) /\ Add(Zero(n), f) \in Poly(n)
        /\ Add(f, Neg(f)) \in Poly(n)
    BY <1>1, PolyAt
  <1>3. ASSUME NEW x \in 0..(n - 1)
        PROVE  /\ Add(f, g)[x] = Add(g, f)[x]
               /\ Add(Add(f, g), h)[x] = Add(f, Add(g, h))[x]
               /\ Add(f, Zero(n))[x] = f[x] /\ Add(Zero(n), f)[x] = f[x]
               /\ Add(f, Neg(f))[x] = Zero(n)[x]
    <2>1. f[x] \in Coeff /\ g[x] \in Coeff /\ h[x] \in Coeff /\ Zero(n)[x] = 0 /\ Neg(f)[x] = CNeg(f[x])
      BY PolyAt
    <2>2. /\ Add(f, g)[x] = CAdd(f[x], g[x]) /\ Add(g, f)[x] = CAdd(g[x], f[x])
          /\ Add(g, h)[x] = CAdd(g[x], h[x])
      BY SumAt
    <2>3. /\ Add(Add(f, g), h)[x] = CAdd(CAdd(f[x], g[x]), h[x])
          /\ Add(f, Add(g, h))[x] = CAdd(f[x], CAdd(g[x], h[x]))
      BY <1>1, <2>2, SumAt
    <2>4. /\ Add(f, Zero(n))[x] = CAdd(f[x], 0) /\ Add(Zero(n), f)[x] = CAdd(0, f[x])
          /\ Add(f, Neg(f))[x] = CAdd(f[x], CNeg(f[x]))
      BY <1>1, <2>1, SumAt
    <2>5. QED BY <2>1, <2>2, <2>3, <2>4, CoeffSums
  <1>4. QED BY <1>1, <1>2, <1>3, PolyEqual

\* Products with coefficients.
LEMMA PolyScales ==
  ASSUME NEW n, NEW f \in Poly(n), NEW g \in Poly(n), NEW a \in Coeff, NEW b \in Coeff
  PROVE  /\ Scale(a, f) \in Poly(n)
         /\ Scale(a, Add(f, g)) = Add(Scale(a, f), Scale(a, g))
         /\ Scale(CAdd(a, b), f) = Add(Scale(a, f), Scale(b, f))
         /\ Scale(a, Scale(b, f)) = Scale(CMul(a, b), f)
         /\ Scale(COne, f) = f
         /\ Scale(0, f) = Zero(n)
         /\ Scale(a, Zero(n)) = Zero(n)
  <1>1. /\ Add(f, g) \in Poly(n) /\ Scale(a, f) \in Poly(n) /\ Scale(b, f) \in Poly(n)
        /\ Scale(a, g) \in Poly(n) /\ Zero(n) \in Poly(n) /\ CAdd(a, b) \in Coeff /\ CMul(a, b) \in Coeff
        /\ COne \in Coeff /\ 0 \in Coeff
    BY PolyAt, CoeffClosed
  <1>2. /\ Scale(a, Add(f, g)) \in Poly(n) /\ Add(Scale(a, f), Scale(a, g)) \in Poly(n)
        /\ Scale(CAdd(a, b), f) \in Poly(n) /\ Add(Scale(a, f), Scale(b, f)) \in Poly(n)
        /\ Scale(a, Scale(b, f)) \in Poly(n) /\ Scale(CMul(a, b), f) \in Poly(n)
        /\ Scale(COne, f) \in Poly(n) /\ Scale(0, f) \in Poly(n) /\ Scale(a, Zero(n)) \in Poly(n)
    BY <1>1, PolyAt
  <1>3. ASSUME NEW x \in 0..(n - 1)
        PROVE  /\ Scale(a, Add(f, g))[x] = Add(Scale(a, f), Scale(a, g))[x]
               /\ Scale(CAdd(a, b), f)[x] = Add(Scale(a, f), Scale(b, f))[x]
               /\ Scale(a, Scale(b, f))[x] = Scale(CMul(a, b), f)[x]
               /\ Scale(COne, f)[x] = f[x] /\ Scale(0, f)[x] = Zero(n)[x]
               /\ Scale(a, Zero(n))[x] = Zero(n)[x]
    <2>1. f[x] \in Coeff /\ g[x] \in Coeff /\ Zero(n)[x] = 0
      BY PolyAt
    <2>2. /\ Add(f, g)[x] = CAdd(f[x], g[x])
          /\ Scale(a, f)[x] = CMul(a, f[x]) /\ Scale(b, f)[x] = CMul(b, f[x])
          /\ Scale(a, g)[x] = CMul(a, g[x])
      BY SumAt, ScaleAt
    <2>3. /\ Scale(a, Add(f, g))[x] = CMul(a, CAdd(f[x], g[x]))
          /\ Add(Scale(a, f), Scale(a, g))[x] = CAdd(CMul(a, f[x]), CMul(a, g[x]))
          /\ Add(Scale(a, f), Scale(b, f))[x] = CAdd(CMul(a, f[x]), CMul(b, f[x]))
          /\ Scale(a, Scale(b, f))[x] = CMul(a, CMul(b, f[x]))
      BY <1>1, <2>2, SumAt, ScaleAt
    <2>4. /\ Scale(CAdd(a, b), f)[x] = CMul(CAdd(a, b), f[x])
          /\ Scale(CMul(a, b), f)[x] = CMul(CMul(a, b), f[x])
          /\ Scale(COne, f)[x] = CMul(COne, f[x]) /\ Scale(0, f)[x] = CMul(0, f[x])
          /\ Scale(a, Zero(n))[x] = CMul(a, 0)
      BY <1>1, <2>1, ScaleAt
    <2>5. CMul(a, CAdd(f[x], g[x])) = CAdd(CMul(a, f[x]), CMul(a, g[x]))
      <3>1. CAdd(f[x], g[x]) \in Coeff
        BY <2>1, CoeffClosed
      <3>2. CMul(a, CAdd(f[x], g[x])) = CMul(CAdd(f[x], g[x]), a)
        BY <2>1, <3>1, CoeffProducts
      <3>3. CMul(f[x], a) = CMul(a, f[x]) /\ CMul(g[x], a) = CMul(a, g[x])
        BY <2>1, CoeffProducts
      <3>4. CMul(CAdd(f[x], g[x]), a) = CAdd(CMul(f[x], a), CMul(g[x], a))
        BY <2>1, CoeffProducts
      <3>5. QED BY <3>2, <3>3, <3>4
    <2>6. CMul(a, 0) = 0
      BY <1>1, CoeffProducts
    <2>7. QED BY <2>1, <2>3, <2>4, <2>5, <2>6, CoeffProducts
  <1>4. QED BY <1>1, <1>2, <1>3, PolyEqual

\* Differences cancel.
LEMMA PolyCancel ==
  ASSUME NEW n, NEW f \in Poly(n), NEW g \in Poly(n)
  PROVE  /\ Sub(f, g) \in Poly(n)
         /\ Add(Sub(f, g), g) = f /\ Sub(Add(f, g), g) = f
         /\ \A h \in Poly(n) : Add(f, g) = Add(h, g) => f = h
         /\ Neg(Neg(f)) = f
         /\ Neg(f) = Scale(CNeg(COne), f)
  <1>1. Neg(g) \in Poly(n) /\ Add(g, Neg(g)) = Zero(n) /\ Zero(n) \in Poly(n) /\ Neg(f) \in Poly(n)
    BY PolySums
  <1>2. Add(Neg(g), g) = Zero(n)
    BY <1>1, PolySums
  <1>3. Sub(f, g) \in Poly(n)
    BY <1>1, PolySums DEF Sub
  <1>4. Add(Add(f, Neg(g)), g) = Add(f, Add(Neg(g), g)) /\ Add(Add(f, g), Neg(g)) = Add(f, Add(g, Neg(g)))
    BY <1>1, PolySums
  <1>5. Add(f, Zero(n)) = f
    BY PolySums
  <1>6. ASSUME NEW h \in Poly(n), Add(f, g) = Add(h, g) PROVE f = h
    <2>1. Add(Add(h, g), Neg(g)) = Add(h, Add(g, Neg(g))) /\ Add(h, Zero(n)) = h
      BY <1>1, PolySums
    <2>2. QED BY <1>1, <1>4, <1>5, <1>6, <2>1
  <1>7. Neg(Neg(f)) = f
    <2>1. Add(f, Neg(f)) = Zero(n) /\ Add(Neg(f), Neg(Neg(f))) = Zero(n) /\ Neg(Neg(f)) \in Poly(n)
      BY <1>1, PolySums
    <2>2. Add(Add(f, Neg(f)), Neg(Neg(f))) = Add(f, Add(Neg(f), Neg(Neg(f))))
      BY <1>1, <2>1, PolySums
    <2>3. Add(Zero(n), Neg(Neg(f))) = Neg(Neg(f))
      BY <1>1, <2>1, PolySums
    <2>4. QED BY <1>5, <2>1, <2>2, <2>3
  <1>8. Neg(f) = Scale(CNeg(COne), f)
    <2>1. COne \in Coeff /\ CNeg(COne) \in Coeff /\ CAdd(COne, CNeg(COne)) = 0
      BY CoeffClosed, CoeffSums
    <2> DEFINE h == Scale(CNeg(COne), f)
    <2>2. h \in Poly(n) /\ Add(Scale(COne, f), h) = Scale(0, f) /\ Scale(COne, f) = f /\ Scale(0, f) = Zero(n)
      BY <2>1, PolyScales
    <2> HIDE DEF h
    <2>3. Add(f, h) = Zero(n)
      BY <2>2
    <2>4. Add(f, Neg(f)) = Zero(n) /\ Add(f, Neg(f)) = Add(Neg(f), f) /\ Add(f, h) = Add(h, f)
      BY <1>1, <2>2, PolySums
    <2>5. \A u, v \in Poly(n) : Add(u, f) = Add(v, f) => u = v
      <3> SUFFICES ASSUME NEW u \in Poly(n), NEW v \in Poly(n), Add(u, f) = Add(v, f) PROVE u = v
        OBVIOUS
      <3>1. /\ Add(Add(u, f), Neg(f)) = Add(u, Add(f, Neg(f))) /\ Add(u, Zero(n)) = u
            /\ Add(Add(v, f), Neg(f)) = Add(v, Add(f, Neg(f))) /\ Add(v, Zero(n)) = v
        BY <1>1, PolySums
      <3>2. QED BY <2>4, <3>1
    <2>6. Neg(f) = h
      BY <1>1, <2>2, <2>3, <2>4, <2>5
    <2>7. QED BY <2>6 DEF h
  <1>9. QED BY <1>2, <1>1, <1>3, <1>4, <1>5, <1>6, <1>7, <1>8 DEF Sub

\* f * X.
TimesX(f, n) == [x \in 0..(n - 1) |-> IF x = 0 THEN CNeg(f[n - 1]) ELSE f[x - 1]]

\* f * X^i, for i up to n.
Rot(f, n, i) == [x \in 0..(n - 1) |-> IF i <= x THEN f[x - i] ELSE CNeg(f[n + x - i])]

\* The polynomials between the terms of a product.
MulSteps(B, f, g, n) ==
  B[0] = Zero(n) /\ \A i \in 1..n : B[i] = Add(B[i - 1], Scale(f[i - 1], Rot(g, n, i - 1)))

\* Turning by one place preserves sums and multiples.
LEMMA TimesXLinear ==
  ASSUME NEW n \in Nat \ {0}, NEW f \in Poly(n)
  PROVE  /\ TimesX(f, n) \in Poly(n)
         /\ \A g \in Poly(n) : TimesX(Add(f, g), n) = Add(TimesX(f, n), TimesX(g, n))
         /\ \A a \in Coeff : TimesX(Scale(a, f), n) = Scale(a, TimesX(f, n))
         /\ TimesX(Zero(n), n) = Zero(n)
         /\ TimesX(Neg(f), n) = Neg(TimesX(f, n))
  <1>1. n - 1 \in 0..(n - 1) /\ 0 \in 0..(n - 1) /\ \A x \in 0..(n - 1) : x # 0 => x - 1 \in 0..(n - 1)
    OBVIOUS
  <1>2. ASSUME NEW h \in Poly(n) PROVE TimesX(h, n) \in Poly(n)
    <2>1. \A x \in 0..(n - 1) : h[x] \in Coeff /\ CNeg(h[x]) \in Coeff
      BY PolyAt, CoeffClosed
    <2>2. \A x \in 0..(n - 1) : (IF x = 0 THEN CNeg(h[n - 1]) ELSE h[x - 1]) \in Coeff
      BY <1>1, <2>1, Zenon
    <2>3. QED BY <2>2, Zenon DEF TimesX, Poly
  <1>3. ASSUME NEW h \in Poly(n), NEW x \in 0..(n - 1)
        PROVE  TimesX(h, n)[x] = IF x = 0 THEN CMul(CNeg(COne), h[n - 1]) ELSE h[x - 1]
    <2>1. TimesX(h, n)[x] = IF x = 0 THEN CNeg(h[n - 1]) ELSE h[x - 1]
      BY Zenon DEF TimesX
    <2>2. COne \in Coeff /\ CNeg(COne) \in Coeff
      BY CoeffClosed
    <2>3. Neg(h)[n - 1] = CNeg(h[n - 1])
      BY <1>1, PolyAt
    <2>4. Neg(h)[n - 1] = CMul(CNeg(COne), h[n - 1])
      BY <1>1, <2>2, PolyCancel, ScaleAt
    <2>5. QED BY <2>1, <2>3, <2>4
  <1>4. ASSUME NEW g \in Poly(n) PROVE TimesX(Add(f, g), n) = Add(TimesX(f, n), TimesX(g, n))
    <2>1. Add(f, g) \in Poly(n) /\ TimesX(f, n) \in Poly(n) /\ TimesX(g, n) \in Poly(n)
      BY <1>2, PolyAt
    <2>2. TimesX(Add(f, g), n) \in Poly(n) /\ Add(TimesX(f, n), TimesX(g, n)) \in Poly(n)
      BY <1>2, <2>1, PolyAt
    <2>3. ASSUME NEW x \in 0..(n - 1) PROVE TimesX(Add(f, g), n)[x] = Add(TimesX(f, n), TimesX(g, n))[x]
      <3>1. Add(TimesX(f, n), TimesX(g, n))[x] = CAdd(TimesX(f, n)[x], TimesX(g, n)[x])
        BY <2>1, SumAt
      <3>2. CASE x = 0
        <4>1. TimesX(Add(f, g), n)[x] = CMul(CNeg(COne), Add(f, g)[n - 1])
          BY <1>3, <2>1, <3>2
        <4>2. Add(f, g)[n - 1] = CAdd(f[n - 1], g[n - 1])
          BY <1>1, SumAt
        <4>3. TimesX(f, n)[x] = CMul(CNeg(COne), f[n - 1]) /\ TimesX(g, n)[x] = CMul(CNeg(COne), g[n - 1])
          BY <1>3, <3>2
        <4>4. CNeg(COne) \in Coeff
          BY CoeffClosed
        <4>5. Scale(CNeg(COne), Add(f, g)) = Add(Scale(CNeg(COne), f), Scale(CNeg(COne), g))
              /\ Scale(CNeg(COne), f) \in Poly(n) /\ Scale(CNeg(COne), g) \in Poly(n)
          BY <4>4, PolyScales
        <4>6. Scale(CNeg(COne), Add(f, g))[n - 1]
                = CAdd(CMul(CNeg(COne), f[n - 1]), CMul(CNeg(COne), g[n - 1]))
          BY <1>1, <4>4, <4>5, SumAt, ScaleAt
        <4>7. Scale(CNeg(COne), Add(f, g))[n - 1] = CMul(CNeg(COne), Add(f, g)[n - 1])
          BY <1>1, <2>1, <4>4, ScaleAt
        <4>8. QED BY <3>1, <4>1, <4>3, <4>6, <4>7
      <3>3. CASE x # 0
        <4>1. x - 1 \in 0..(n - 1)
          BY <1>1, <3>3
        <4>2. Add(f, g)[x - 1] = CAdd(f[x - 1], g[x - 1])
          BY <4>1, SumAt
        <4>3. TimesX(f, n)[x] = f[x - 1] /\ TimesX(g, n)[x] = g[x - 1] /\ TimesX(Add(f, g), n)[x] = Add(f, g)[x - 1]
          BY <1>3, <2>1, <3>3
        <4>4. QED BY <3>1, <4>2, <4>3
      <3>4. QED BY <3>2, <3>3
    <2>4. QED BY <2>2, <2>3, PolyEqual
  <1>5. ASSUME NEW a \in Coeff PROVE TimesX(Scale(a, f), n) = Scale(a, TimesX(f, n))
    <2>1. Scale(a, f) \in Poly(n) /\ TimesX(f, n) \in Poly(n)
      BY <1>2, PolyAt
    <2>2. TimesX(Scale(a, f), n) \in Poly(n) /\ Scale(a, TimesX(f, n)) \in Poly(n)
      BY <1>2, <2>1, PolyAt
    <2>3. ASSUME NEW x \in 0..(n - 1) PROVE TimesX(Scale(a, f), n)[x] = Scale(a, TimesX(f, n))[x]
      <3>1. Scale(a, TimesX(f, n))[x] = CMul(a, TimesX(f, n)[x])
        BY <2>1, ScaleAt
      <3>2. CASE x = 0
        <4>1. TimesX(Scale(a, f), n)[x] = CMul(CNeg(COne), Scale(a, f)[n - 1])
              /\ TimesX(f, n)[x] = CMul(CNeg(COne), f[n - 1])
          BY <1>3, <2>1, <3>2
        <4>2. Scale(a, f)[n - 1] = CMul(a, f[n - 1]) /\ f[n - 1] \in Coeff
          <5>1. Scale(a, f)[n - 1] = CMul(a, f[n - 1])
            BY <1>1, ScaleAt
          <5>2. f[n - 1] \in Coeff
            BY <1>1, PolyAt
          <5>3. QED BY <5>1, <5>2
        <4>3. CNeg(COne) \in Coeff
          BY CoeffClosed
        <4>4. CMul(CNeg(COne), CMul(a, f[n - 1])) = CMul(a, CMul(CNeg(COne), f[n - 1]))
          <5>1. CMul(CMul(CNeg(COne), a), f[n - 1]) = CMul(CNeg(COne), CMul(a, f[n - 1]))
            BY <4>2, <4>3, CoeffProducts
          <5>2. CMul(CMul(a, CNeg(COne)), f[n - 1]) = CMul(a, CMul(CNeg(COne), f[n - 1]))
            BY <4>2, <4>3, CoeffProducts
          <5>3. CMul(CNeg(COne), a) = CMul(a, CNeg(COne))
            BY <4>3, CoeffProducts
          <5>4. QED BY <5>1, <5>2, <5>3
        <4>5. QED BY <3>1, <4>1, <4>2, <4>4
      <3>3. CASE x # 0
        <4>1. x - 1 \in 0..(n - 1)
          BY <1>1, <3>3
        <4>2. Scale(a, f)[x - 1] = CMul(a, f[x - 1])
          BY <4>1, ScaleAt
        <4>3. TimesX(f, n)[x] = f[x - 1] /\ TimesX(Scale(a, f), n)[x] = Scale(a, f)[x - 1]
          BY <1>3, <2>1, <3>3
        <4>4. QED BY <3>1, <4>2, <4>3
      <3>4. QED BY <3>2, <3>3
    <2>4. QED BY <2>2, <2>3, PolyEqual
  <1>6. TimesX(Zero(n), n) = Zero(n)
    <2>1. Scale(0, f) = Zero(n) /\ Scale(0, TimesX(f, n)) = Zero(n)
      BY <1>2, CoeffClosed, PolyScales
    <2>2. QED BY <1>5, <2>1, CoeffClosed
  <1>7. TimesX(Neg(f), n) = Neg(TimesX(f, n))
    BY <1>2, <1>5, CoeffClosed, PolyCancel
  <1>8. QED BY <1>2, <1>4, <1>5, <1>6, <1>7

\* Turning by i + 1 places is turning by i, then by one.
LEMMA RotSteps ==
  ASSUME NEW n \in Nat \ {0}, NEW f \in Poly(n)
  PROVE  /\ \A i \in 0..n : Rot(f, n, i) \in Poly(n)
         /\ Rot(f, n, 0) = f
         /\ \A i \in 0..(n - 1) : Rot(f, n, i + 1) = TimesX(Rot(f, n, i), n)
         /\ Rot(f, n, n) = Neg(f)
  <1>1. \A x \in 0..(n - 1) : f[x] \in Coeff /\ CNeg(f[x]) \in Coeff
    BY PolyAt, CoeffClosed
  <1>2. ASSUME NEW i \in 0..n, NEW x \in 0..(n - 1)
        PROVE  Rot(f, n, i)[x] = IF i <= x THEN f[x - i] ELSE CNeg(f[n + x - i])
    BY Zenon DEF Rot
  <1>3. ASSUME NEW i \in 0..n PROVE Rot(f, n, i) \in Poly(n)
    <2>1. ASSUME NEW x \in 0..(n - 1)
          PROVE  (IF i <= x THEN f[x - i] ELSE CNeg(f[n + x - i])) \in Coeff
      <3>1. CASE i <= x
        <4>1. x - i \in 0..(n - 1)
          BY <3>1
        <4>2. QED BY <1>1, <3>1, <4>1
      <3>2. CASE ~(i <= x)
        <4>1. n + x - i \in 0..(n - 1)
          BY <3>2
        <4>2. QED BY <1>1, <3>2, <4>1
      <3>3. QED BY <3>1, <3>2
    <2>2. QED BY <2>1, Zenon DEF Rot, Poly
  <1>4. Rot(f, n, 0) = f
    <2>1. ASSUME NEW x \in 0..(n - 1) PROVE Rot(f, n, 0)[x] = f[x]
      <3>1. 0 <= x /\ x - 0 = x /\ 0 \in 0..n
        OBVIOUS
      <3>2. QED BY <1>2, <3>1
    <2>2. 0 \in 0..n
      OBVIOUS
    <2>3. QED BY <1>3, <2>1, <2>2, PolyEqual
  <1>5. ASSUME NEW i \in 0..(n - 1) PROVE Rot(f, n, i + 1) = TimesX(Rot(f, n, i), n)
    <2>1. i \in 0..n /\ i + 1 \in 0..n /\ n - 1 \in 0..(n - 1)
      OBVIOUS
    <2>2. Rot(f, n, i) \in Poly(n) /\ Rot(f, n, i + 1) \in Poly(n) /\ TimesX(Rot(f, n, i), n) \in Poly(n)
      BY <1>3, <2>1, TimesXLinear
    <2>3. ASSUME NEW x \in 0..(n - 1) PROVE Rot(f, n, i + 1)[x] = TimesX(Rot(f, n, i), n)[x]
      <3>1. TimesX(Rot(f, n, i), n)[x] = IF x = 0 THEN CNeg(Rot(f, n, i)[n - 1]) ELSE Rot(f, n, i)[x - 1]
        BY Zenon DEF TimesX
      <3>2. Rot(f, n, i + 1)[x] = IF i + 1 <= x THEN f[x - (i + 1)] ELSE CNeg(f[n + x - (i + 1)])
        BY <1>2, <2>1
      <3>3. CASE x = 0
        <4>1. Rot(f, n, i)[n - 1] = f[(n - 1) - i]
          <5>1. i <= n - 1
            OBVIOUS
          <5>2. QED BY <1>2, <2>1, <5>1
        <4>2. ~(i + 1 <= x) /\ n + x - (i + 1) = (n - 1) - i
          BY <3>3
        <4>3. QED BY <3>1, <3>2, <3>3, <4>1, <4>2
      <3>4. CASE x # 0 /\ i + 1 <= x
        <4>1. x - 1 \in 0..(n - 1) /\ i <= x - 1 /\ (x - 1) - i = x - (i + 1)
          BY <3>4
        <4>2. Rot(f, n, i)[x - 1] = f[(x - 1) - i]
          BY <1>2, <2>1, <4>1
        <4>3. QED BY <3>1, <3>2, <3>4, <4>1, <4>2
      <3>5. CASE x # 0 /\ ~(i + 1 <= x)
        <4>1. x - 1 \in 0..(n - 1) /\ ~(i <= x - 1) /\ n + (x - 1) - i = n + x - (i + 1)
          BY <3>5
        <4>2. Rot(f, n, i)[x - 1] = CNeg(f[n + (x - 1) - i])
          BY <1>2, <2>1, <4>1
        <4>3. QED BY <3>1, <3>2, <3>5, <4>1, <4>2
      <3>6. QED BY <3>3, <3>4, <3>5
    <2>4. QED BY <2>2, <2>3, PolyEqual
  <1>6. Rot(f, n, n) = Neg(f)
    <2>1. n \in 0..n /\ Neg(f) \in Poly(n)
      BY PolyAt
    <2>2. ASSUME NEW x \in 0..(n - 1) PROVE Rot(f, n, n)[x] = Neg(f)[x]
      <3>1. ~(n <= x) /\ n + x - n = x
        OBVIOUS
      <3>2. Neg(f)[x] = CNeg(f[x])
        BY PolyAt
      <3>3. QED BY <1>2, <2>1, <3>1, <3>2
    <2>3. QED BY <1>3, <2>1, <2>2, PolyEqual
  <1>7. QED BY <1>3, <1>4, <1>5, <1>6

\* One turn of the recursion inside Mul, at coefficient x.
Turn(v, f, g, n, x, i) ==
  (v + (IF i - 1 <= x THEN f[i - 1] * g[x - (i - 1)]
        ELSE (P - f[i - 1]) * g[n + x - (i - 1)])) % P

SumsTerms(q, f, g, n, x) ==
  q = [i \in 0..n |-> IF i = 0 THEN 0 ELSE Turn(q[i - 1], f, g, n, x, i)]

\* It has one solution.
LEMMA OneSum ==
  ASSUME NEW n \in Nat \ {0}, NEW f, NEW g, NEW x, NEW q, NEW h,
         SumsTerms(q, f, g, n, x), SumsTerms(h, f, g, n, x)
  PROVE  q = h
  <1>1. n \in Nat /\ 0 \in 0..n /\ \A i \in 1..n : i \in 0..n /\ i # 0
    OBVIOUS
  <1>2. ASSUME NEW r, SumsTerms(r, f, g, n, x)
        PROVE  /\ r[0] = 0 /\ \A i \in 1..n : r[i] = Turn(r[i - 1], f, g, n, x, i)
               /\ r = [i \in 0..n |-> r[i]]
    <2>1. \A i \in 0..n : r[i] = IF i = 0 THEN 0 ELSE Turn(r[i - 1], f, g, n, x, i)
      BY <1>2, Zenon DEF SumsTerms
    <2>2. r[0] = 0
      BY <1>1, <2>1, Zenon
    <2>3. \A i \in 1..n : r[i] = Turn(r[i - 1], f, g, n, x, i)
      BY <1>1, <2>1, Zenon
    <2>4. r = [i \in 0..n |-> r[i]]
      <3>1. r = [i \in 0..n |-> IF i = 0 THEN 0 ELSE Turn(r[i - 1], f, g, n, x, i)]
        BY <1>2, Zenon DEF SumsTerms
      <3>2. QED BY <2>1, <3>1, Zenon
    <2>5. QED BY <2>2, <2>3, <2>4
  <1>3. /\ q[0] = 0 /\ \A i \in 1..n : q[i] = Turn(q[i - 1], f, g, n, x, i)
        /\ q = [i \in 0..n |-> q[i]]
    BY <1>2
  <1>4. /\ h[0] = 0 /\ \A i \in 1..n : h[i] = Turn(h[i - 1], f, g, n, x, i)
        /\ h = [i \in 0..n |-> h[i]]
    BY <1>2
  <1>5. q[0] = h[0]
    BY <1>3, <1>4
  <1>6. ASSUME NEW i \in 1..n, q[i - 1] = h[i - 1] PROVE q[i] = h[i]
    BY <1>3, <1>4, <1>6, Zenon
  <1>7. \A i \in 0..n : q[i] = h[i]
    <2>1. \A u, v : (u[0] = v[0] /\ (\A i \in 1..n : u[i - 1] = v[i - 1] => u[i] = v[i]))
                      => \A i \in 0..n : u[i] = v[i]
      BY <1>1, AgreeUpTo, SMTT(30)
    <2>2. QED BY <1>5, <1>6, <2>1, Zenon
  <1>8. QED BY <1>3, <1>4, <1>7, Zenon

\* A coefficient of a product, by a solution of that recursion.
LEMMA MulAt ==
  ASSUME NEW n \in Nat \ {0}, NEW f \in Poly(n), NEW g \in Poly(n), NEW x \in 0..(n - 1),
         NEW h, SumsTerms(h, f, g, n, x)
  PROVE  Mul(f, g, n)[x] = h[n]
  <1> DEFINE Solves(r) == r = [i \in 0..n |-> IF i = 0 THEN 0
                      ELSE (r[i - 1] + (IF i - 1 <= x THEN f[i - 1] * g[x - (i - 1)]
                                        ELSE (P - f[i - 1]) * g[n + x - (i - 1)])) % P]
             q == CHOOSE r : Solves(r)
  <1>1. Mul(f, g, n)[x] = q[n]
    BY Zenon DEF Mul
  <1>2. Solves(h)
    BY Zenon DEF SumsTerms, Turn
  <1>3. Solves(q)
    <2> HIDE DEF Solves
    <2>1. QED BY <1>2, Zenon
  <1>4. SumsTerms(q, f, g, n, x)
    BY <1>3, Zenon DEF SumsTerms, Turn
  <1> HIDE DEF q, Solves
  <1>5. q = h
    BY <1>4, OneSum
  <1>6. QED BY <1>1, <1>5

\* A product is the sum of the coefficients of one factor times the rotations
\* of the other.
LEMMA MulIs ==
  ASSUME NEW n \in Nat \ {0}, NEW f \in Poly(n), NEW g \in Poly(n),
         NEW B \in [0..n -> Poly(n)], MulSteps(B, f, g, n)
  PROVE  Mul(f, g, n) = B[n]
  <1>1. n \in 0..n /\ 0 \in 0..n /\ \A i \in 1..n : i - 1 \in 0..n /\ i - 1 \in 0..(n - 1) /\ i \in 0..n
    OBVIOUS
  <1>2. ASSUME NEW x \in 0..(n - 1) PROVE Mul(f, g, n)[x] = B[n][x]
    <2> DEFINE h == [i \in 0..n |-> B[i][x]]
    <2>2. \A i \in 0..n : h[i] = B[i][x] /\ h[i] \in Coeff
      <3>1. ASSUME NEW i \in 0..n PROVE B[i][x] \in Coeff
        <4>1. B[i] \in Poly(n)
          OBVIOUS
        <4>2. QED BY <4>1, PolyAt
      <3>2. QED BY <3>1
    <2>3. h[0] = 0
      <3>1. B[0] = Zero(n)
        BY DEF MulSteps
      <3>2. Zero(n)[x] = 0
        BY DEF Zero
      <3>3. QED BY <1>1, <3>1, <3>2
    <2>4. ASSUME NEW i \in 1..n PROVE h[i] = Turn(h[i - 1], f, g, n, x, i)
      <3>1. /\ B[i] = Add(B[i - 1], Scale(f[i - 1], Rot(g, n, i - 1)))
            /\ B[i - 1] \in Poly(n) /\ f[i - 1] \in Coeff /\ Rot(g, n, i - 1) \in Poly(n)
        BY <1>1, PolyAt, RotSteps DEF MulSteps
      <3>2. Scale(f[i - 1], Rot(g, n, i - 1)) \in Poly(n)
            /\ Scale(f[i - 1], Rot(g, n, i - 1))[x] = CMul(f[i - 1], Rot(g, n, i - 1)[x])
        <4>1. Scale(f[i - 1], Rot(g, n, i - 1)) \in Poly(n)
          BY <3>1, PolyAt
        <4>2. Scale(f[i - 1], Rot(g, n, i - 1))[x] = CMul(f[i - 1], Rot(g, n, i - 1)[x])
          BY <3>1, ScaleAt
        <4>3. QED BY <4>1, <4>2
      <3>3. B[i][x] = CAdd(B[i - 1][x], CMul(f[i - 1], Rot(g, n, i - 1)[x]))
        BY <3>1, <3>2, SumAt
      <3>4. h[i - 1] = B[i - 1][x] /\ h[i] = B[i][x] /\ h[i - 1] \in Coeff
        BY <1>1, <2>2
      <3>5. Rot(g, n, i - 1)[x] = IF i - 1 <= x THEN g[x - (i - 1)] ELSE CNeg(g[n + x - (i - 1)])
        BY Zenon DEF Rot
      <3> HIDE DEF h
      <3>6. CASE i - 1 <= x
        <4>1. x - (i - 1) \in 0..(n - 1)
          BY <3>6
        <4>2. g[x - (i - 1)] \in Coeff
          BY <4>1, PolyAt
        <4>3. (h[i - 1] + f[i - 1] * g[x - (i - 1)]) % P = CAdd(h[i - 1], CMul(f[i - 1], g[x - (i - 1)]))
          BY <3>1, <3>4, <4>2, WrappedTerm
        <4>4. Turn(h[i - 1], f, g, n, x, i) = (h[i - 1] + f[i - 1] * g[x - (i - 1)]) % P
          BY <3>6, Zenon DEF Turn
        <4>5. QED BY <3>3, <3>4, <3>5, <3>6, <4>3, <4>4, Zenon
      <3>7. CASE ~(i - 1 <= x)
        <4>1. n + x - (i - 1) \in 0..(n - 1)
          BY <3>7
        <4>2. g[n + x - (i - 1)] \in Coeff
          BY <4>1, PolyAt
        <4>3. (h[i - 1] + (P - f[i - 1]) * g[n + x - (i - 1)]) % P
                = CAdd(h[i - 1], CMul(f[i - 1], CNeg(g[n + x - (i - 1)])))
          BY <3>1, <3>4, <4>2, WrappedTerm
        <4>4. Turn(h[i - 1], f, g, n, x, i) = (h[i - 1] + (P - f[i - 1]) * g[n + x - (i - 1)]) % P
          BY <3>7, Zenon DEF Turn
        <4>5. QED BY <3>3, <3>4, <3>5, <3>7, <4>3, <4>4, Zenon
      <3>8. QED BY <3>6, <3>7
    <2>5. SumsTerms(h, f, g, n, x)
      <3>1. ASSUME NEW i \in 0..n PROVE h[i] = IF i = 0 THEN 0 ELSE Turn(h[i - 1], f, g, n, x, i)
        <4>1. CASE i = 0
          BY <2>3, <4>1
        <4>2. CASE i # 0
          <5>1. i \in 1..n
            BY <4>2
          <5>2. h[i] = Turn(h[i - 1], f, g, n, x, i)
            BY <2>4, <5>1
          <5> HIDE DEF h
          <5>3. QED BY <4>2, <5>2
        <4>3. QED BY <4>1, <4>2
      <3>2. h = [i \in 0..n |-> h[i]]
        BY <2>2, Zenon
      <3> HIDE DEF h
      <3>3. QED BY <3>1, <3>2, Zenon DEF SumsTerms
    <2>6. Mul(f, g, n)[x] = h[n]
      <3> HIDE DEF h
      <3>1. QED BY <2>5, MulAt
    <2>7. QED BY <1>1, <2>2, <2>6
  <1>3. Mul(f, g, n) = [x \in 0..(n - 1) |-> Mul(f, g, n)[x]]
    <2> DEFINE Coefficient1(x) ==
                 LET Term(y, i) == IF i <= y THEN f[i] * g[y - i] ELSE (P - f[i]) * g[n + y - i]
                     sum[i \in 0..n] == IF i = 0 THEN 0 ELSE (sum[i - 1] + Term(x, i - 1)) % P
                 IN  sum[n]
    <2>1. Mul(f, g, n) = [x \in 0..(n - 1) |-> Coefficient1(x)]
      BY Zenon DEF Mul
    <2> HIDE DEF Coefficient1
    <2>2. QED BY <2>1, Zenon
  <1>4. B[n] \in Poly(n)
    BY <1>1
  <1>5. B[n] = [x \in 0..(n - 1) |-> B[n][x]]
    BY <1>4, Zenon DEF Poly
  <1>6. [x \in 0..(n - 1) |-> Mul(f, g, n)[x]] = [x \in 0..(n - 1) |-> B[n][x]]
    BY <1>2, Zenon
  <1>7. QED BY <1>3, <1>5, <1>6, Zenon

\* Those polynomials exist.
LEMMA MulUnfolds ==
  ASSUME NEW n \in Nat \ {0}, NEW f \in Poly(n), NEW g \in Poly(n)
  PROVE  \E B \in [0..n -> Poly(n)] : MulSteps(B, f, g, n) /\ Mul(f, g, n) = B[n]
  <1> DEFINE F == [i \in 1..n |-> [h \in Poly(n) |-> Add(h, Scale(f[i - 1], Rot(g, n, i - 1)))]]
  <1>1. ASSUME NEW i \in 1..n, NEW h \in Poly(n)
        PROVE  Add(h, Scale(f[i - 1], Rot(g, n, i - 1))) \in Poly(n)
    <2>1. i - 1 \in 0..n /\ i - 1 \in 0..(n - 1)
      OBVIOUS
    <2>2. f[i - 1] \in Coeff /\ Rot(g, n, i - 1) \in Poly(n)
      BY <2>1, PolyAt, RotSteps
    <2>3. QED BY <2>2, PolyAt
  <1>2. F \in [1..n -> [Poly(n) -> Poly(n)]]
    BY <1>1, Zenon
  <1>3. Zero(n) \in Poly(n)
    BY PolyAt
  <1>4. \A i \in 1..n : \A h \in Poly(n) : F[i][h] = Add(h, Scale(f[i - 1], Rot(g, n, i - 1)))
    BY Zenon
  <1> HIDE DEF F
  <1>5. PICK B : B \in [0..n -> Poly(n)] /\ Obeys(B, n, Zero(n), F)
    BY <1>2, <1>3, Recursion
  <1>6. MulSteps(B, f, g, n)
    <2>1. B[0] = Zero(n)
      BY <1>5 DEF Obeys
    <2>2. ASSUME NEW i \in 1..n PROVE B[i] = Add(B[i - 1], Scale(f[i - 1], Rot(g, n, i - 1)))
      <3>1. i - 1 \in 0..n
        OBVIOUS
      <3>2. B[i - 1] \in Poly(n)
        BY <1>5, <3>1
      <3>3. B[i] = F[i][B[i - 1]]
        BY <1>5 DEF Obeys
      <3>4. QED BY <1>4, <3>2, <3>3
    <2>3. QED BY <2>1, <2>2 DEF MulSteps
  <1>7. QED BY <1>5, <1>6, MulIs

\* The laws one at a time.
LEMMA AddClosed ==
  ASSUME NEW n, NEW f \in Poly(n), NEW g \in Poly(n)
  PROVE  Add(f, g) \in Poly(n)
  BY PolyAt

\* Addition commutes.
LEMMA AddComm ==
  ASSUME NEW n, NEW f \in Poly(n), NEW g \in Poly(n)
  PROVE  Add(f, g) = Add(g, f)
  BY PolySums

\* Addition associates.
LEMMA AddAssoc ==
  ASSUME NEW n, NEW f \in Poly(n), NEW g \in Poly(n), NEW h \in Poly(n)
  PROVE  Add(Add(f, g), h) = Add(f, Add(g, h))
  <1>1. Add(f, g) \in Poly(n) /\ Add(g, h) \in Poly(n)
    BY AddClosed
  <1>2. Add(Add(f, g), h) \in Poly(n) /\ Add(f, Add(g, h)) \in Poly(n)
    BY <1>1, AddClosed
  <1>3. ASSUME NEW x \in 0..(n - 1) PROVE Add(Add(f, g), h)[x] = Add(f, Add(g, h))[x]
    <2>1. f[x] \in Coeff /\ g[x] \in Coeff /\ h[x] \in Coeff
      BY PolyAt
    <2>2. Add(f, g)[x] = CAdd(f[x], g[x]) /\ Add(g, h)[x] = CAdd(g[x], h[x])
      BY SumAt
    <2>3. /\ Add(Add(f, g), h)[x] = CAdd(CAdd(f[x], g[x]), h[x])
          /\ Add(f, Add(g, h))[x] = CAdd(f[x], CAdd(g[x], h[x]))
      BY <1>1, <2>2, SumAt
    <2>4. QED BY <2>1, <2>3, CoeffSums
  <1>4. QED BY <1>2, <1>3, PolyEqual

\* Four summands, the middle two exchanged.
LEMMA SwapMiddle ==
  ASSUME NEW n, NEW a \in Poly(n), NEW b \in Poly(n), NEW c \in Poly(n), NEW d \in Poly(n)
  PROVE  Add(Add(a, b), Add(c, d)) = Add(Add(a, c), Add(b, d))
  <1>1. Add(c, d) \in Poly(n) /\ Add(b, d) \in Poly(n)
    BY AddClosed
  <1>2. Add(b, c) = Add(c, b)
    BY AddComm
  <1>3. Add(Add(a, b), Add(c, d)) = Add(a, Add(b, Add(c, d)))
    BY <1>1, AddAssoc
  <1>4. Add(b, Add(c, d)) = Add(Add(b, c), d)
    BY AddAssoc
  <1>5. Add(Add(c, b), d) = Add(c, Add(b, d))
    BY AddAssoc
  <1>6. Add(a, Add(c, Add(b, d))) = Add(Add(a, c), Add(b, d))
    BY <1>1, AddAssoc
  <1>7. QED BY <1>2, <1>3, <1>4, <1>5, <1>6

\* Negation, of a coefficient or of the polynomial.
LEMMA NegScales ==
  ASSUME NEW n, NEW f \in Poly(n), NEW a \in Coeff
  PROVE  Scale(CNeg(a), f) = Scale(a, Neg(f)) /\ Neg(Scale(a, f)) = Scale(a, Neg(f))
         /\ Scale(a, Neg(f)) \in Poly(n)
  <1>1. /\ Neg(f) \in Poly(n) /\ Scale(a, f) \in Poly(n) /\ CNeg(a) \in Coeff /\ COne \in Coeff
        /\ CNeg(COne) \in Coeff
    BY PolyAt, CoeffClosed
  <1>2. /\ Scale(CNeg(a), f) \in Poly(n) /\ Scale(a, Neg(f)) \in Poly(n)
        /\ Neg(f) = Scale(CNeg(COne), f) /\ Neg(Scale(a, f)) = Scale(CNeg(COne), Scale(a, f))
    BY <1>1, PolyAt, PolyCancel
  <1>3. Neg(Scale(a, f)) = Scale(a, Neg(f))
    <2>1. /\ Scale(CNeg(COne), Scale(a, f)) = Scale(CMul(CNeg(COne), a), f)
          /\ Scale(a, Scale(CNeg(COne), f)) = Scale(CMul(a, CNeg(COne)), f)
      BY <1>1, PolyScales
    <2>2. CMul(a, CNeg(COne)) = CMul(CNeg(COne), a)
      BY <1>1, CoeffProducts
    <2>3. QED BY <1>2, <2>1, <2>2
  <1>4. Scale(CNeg(a), f) = Neg(Scale(a, f))
    <2>1. CAdd(a, CNeg(a)) = 0 /\ CAdd(CNeg(a), a) = CAdd(a, CNeg(a))
      BY <1>1, CoeffSums
    <2>2. Add(Scale(CNeg(a), f), Scale(a, f)) = Zero(n)
      <3>1. Add(Scale(CNeg(a), f), Scale(a, f)) = Scale(CAdd(CNeg(a), a), f)
        BY <1>1, PolyScales
      <3>2. Scale(0, f) = Zero(n)
        BY <1>1, PolyScales
      <3>3. QED BY <2>1, <3>1, <3>2
    <2>3. Neg(Scale(a, f)) \in Poly(n)
      BY <1>1, PolyAt
    <2>4. Add(Scale(a, f), Neg(Scale(a, f))) = Zero(n)
          /\ Add(Scale(a, f), Neg(Scale(a, f))) = Add(Neg(Scale(a, f)), Scale(a, f))
      BY <1>1, <2>3, PolySums
    <2>5. QED BY <1>1, <1>2, <2>2, <2>3, <2>4, PolyCancel
  <1>5. QED BY <1>2, <1>3, <1>4

\* Rotations are linear and commute.
LEMMA RotLinear ==
  ASSUME NEW n \in Nat \ {0}, NEW f \in Poly(n), NEW g \in Poly(n), NEW a \in Coeff
  PROVE  \A i \in 0..n : /\ Rot(Add(f, g), n, i) = Add(Rot(f, n, i), Rot(g, n, i))
                         /\ Rot(Scale(a, f), n, i) = Scale(a, Rot(f, n, i))
                         /\ Rot(TimesX(f, n), n, i) = TimesX(Rot(f, n, i), n)
  <1> DEFINE T == {i \in 0..n : /\ Rot(Add(f, g), n, i) = Add(Rot(f, n, i), Rot(g, n, i))
                                /\ Rot(Scale(a, f), n, i) = Scale(a, Rot(f, n, i))
                                /\ Rot(TimesX(f, n), n, i) = TimesX(Rot(f, n, i), n)}
  <1>1. Add(f, g) \in Poly(n) /\ Scale(a, f) \in Poly(n) /\ TimesX(f, n) \in Poly(n)
    BY PolyAt, TimesXLinear
  <1>2. 0 \in T
    <2>1. 0 \in 0..n
      OBVIOUS
    <2>2. /\ Rot(Add(f, g), n, 0) = Add(f, g) /\ Rot(f, n, 0) = f /\ Rot(g, n, 0) = g
          /\ Rot(Scale(a, f), n, 0) = Scale(a, f) /\ Rot(TimesX(f, n), n, 0) = TimesX(f, n)
      BY <1>1, RotSteps
    <2>3. QED BY <2>1, <2>2
  <1>3. ASSUME NEW i \in 0..(n - 1), i \in T PROVE i + 1 \in T
    <2>1. i \in 0..n /\ i + 1 \in 0..n
      OBVIOUS
    <2>2. /\ Rot(Add(f, g), n, i) = Add(Rot(f, n, i), Rot(g, n, i))
          /\ Rot(Scale(a, f), n, i) = Scale(a, Rot(f, n, i))
          /\ Rot(TimesX(f, n), n, i) = TimesX(Rot(f, n, i), n)
      BY <1>3
    <2>3. /\ Rot(Add(f, g), n, i + 1) = TimesX(Rot(Add(f, g), n, i), n)
          /\ Rot(f, n, i + 1) = TimesX(Rot(f, n, i), n)
          /\ Rot(g, n, i + 1) = TimesX(Rot(g, n, i), n)
          /\ Rot(Scale(a, f), n, i + 1) = TimesX(Rot(Scale(a, f), n, i), n)
          /\ Rot(TimesX(f, n), n, i + 1) = TimesX(Rot(TimesX(f, n), n, i), n)
      BY <1>1, RotSteps
    <2>4. Rot(f, n, i) \in Poly(n) /\ Rot(g, n, i) \in Poly(n)
      BY <2>1, RotSteps
    <2>5. /\ TimesX(Add(Rot(f, n, i), Rot(g, n, i)), n) = Add(TimesX(Rot(f, n, i), n), TimesX(Rot(g, n, i), n))
          /\ TimesX(Scale(a, Rot(f, n, i)), n) = Scale(a, TimesX(Rot(f, n, i), n))
      BY <2>4, TimesXLinear
    <2>6. QED BY <2>1, <2>2, <2>3, <2>5
  <1> HIDE DEF T
  <1>4. n \in Nat
    OBVIOUS
  <1>5. \A i \in 0..n : i \in T
    BY <1>2, <1>3, <1>4, SetInduction
  <1>6. QED BY <1>5 DEF T

\* What a term of a product is made of.
LEMMA TermFacts ==
  ASSUME NEW n \in Nat \ {0}, NEW f \in Poly(n), NEW g \in Poly(n), NEW i \in 1..n
  PROVE  /\ i - 1 \in 0..(n - 1) /\ i - 1 \in 0..n /\ i \in 0..n
         /\ f[i - 1] \in Coeff /\ Rot(g, n, i - 1) \in Poly(n)
         /\ Scale(f[i - 1], Rot(g, n, i - 1)) \in Poly(n)
  <1>1. i - 1 \in 0..(n - 1) /\ i - 1 \in 0..n /\ i \in 0..n
    OBVIOUS
  <1>2. f[i - 1] \in Coeff /\ Rot(g, n, i - 1) \in Poly(n)
    BY <1>1, PolyAt, RotSteps
  <1>3. QED BY <1>1, <1>2, PolyAt

\* Multiplication is linear in both factors, and X may be taken out of the
\* second.
LEMMA MulLinear ==
  ASSUME NEW n \in Nat \ {0}, NEW f \in Poly(n), NEW g \in Poly(n), NEW h \in Poly(n), NEW a \in Coeff
  PROVE  /\ Mul(f, g, n) \in Poly(n)
         /\ Mul(Add(f, h), g, n) = Add(Mul(f, g, n), Mul(h, g, n))
         /\ Mul(Scale(a, f), g, n) = Scale(a, Mul(f, g, n))
         /\ Mul(f, Add(g, h), n) = Add(Mul(f, g, n), Mul(f, h, n))
         /\ Mul(f, Scale(a, g), n) = Scale(a, Mul(f, g, n))
         /\ Mul(f, TimesX(g, n), n) = TimesX(Mul(f, g, n), n)
  <1>0. n \in 0..n /\ 0 \in 0..n
    OBVIOUS
  <1>1. PICK A \in [0..n -> Poly(n)] : MulSteps(A, f, g, n) /\ Mul(f, g, n) = A[n]
    BY MulUnfolds
  <1>2. PICK B \in [0..n -> Poly(n)] : MulSteps(B, h, g, n) /\ Mul(h, g, n) = B[n]
    BY MulUnfolds
  <1>3. PICK C \in [0..n -> Poly(n)] : MulSteps(C, f, h, n) /\ Mul(f, h, n) = C[n]
    BY MulUnfolds
  <1>4. \A i \in 0..n : A[i] \in Poly(n) /\ B[i] \in Poly(n) /\ C[i] \in Poly(n)
    OBVIOUS
  <1>5. A[0] = Zero(n) /\ B[0] = Zero(n) /\ C[0] = Zero(n) /\ Zero(n) \in Poly(n)
    BY <1>1, <1>2, <1>3, PolyAt DEF MulSteps
  <1>6. Add(Zero(n), Zero(n)) = Zero(n) /\ Scale(a, Zero(n)) = Zero(n) /\ TimesX(Zero(n), n) = Zero(n)
    BY <1>5, PolySums, PolyScales, TimesXLinear
  <1>7. ASSUME NEW i \in 1..n
        PROVE  /\ i - 1 \in 0..n /\ i \in 0..n
               /\ A[i - 1] \in Poly(n) /\ B[i - 1] \in Poly(n) /\ C[i - 1] \in Poly(n)
               /\ A[i] = Add(A[i - 1], Scale(f[i - 1], Rot(g, n, i - 1)))
               /\ B[i] = Add(B[i - 1], Scale(h[i - 1], Rot(g, n, i - 1)))
               /\ C[i] = Add(C[i - 1], Scale(f[i - 1], Rot(h, n, i - 1)))
    <2>1. i - 1 \in 0..n /\ i \in 0..n
      OBVIOUS
    <2>2. QED BY <1>1, <1>2, <1>3, <1>4, <2>1, Zenon DEF MulSteps
  <1>8. Mul(f, g, n) \in Poly(n)
    BY <1>0, <1>1, <1>4
  <1>9. Mul(Add(f, h), g, n) = Add(Mul(f, g, n), Mul(h, g, n))
    <2> DEFINE D == [i \in 0..n |-> Add(A[i], B[i])]
    <2>1. D \in [0..n -> Poly(n)] /\ \A i \in 0..n : D[i] = Add(A[i], B[i])
      <3>1. \A i \in 0..n : Add(A[i], B[i]) \in Poly(n)
        BY <1>4, PolyAt
      <3>2. QED BY <3>1, Zenon
    <2> HIDE DEF D
    <2>2. D[0] = Zero(n)
      BY <1>0, <1>5, <1>6, <2>1
    <2>3. ASSUME NEW i \in 1..n
          PROVE  D[i] = Add(D[i - 1], Scale(Add(f, h)[i - 1], Rot(g, n, i - 1)))
      <3>1. /\ i - 1 \in 0..(n - 1) /\ f[i - 1] \in Coeff /\ h[i - 1] \in Coeff /\ Rot(g, n, i - 1) \in Poly(n)
            /\ Scale(f[i - 1], Rot(g, n, i - 1)) \in Poly(n) /\ Scale(h[i - 1], Rot(g, n, i - 1)) \in Poly(n)
        BY TermFacts
      <3>2. Add(f, h)[i - 1] = CAdd(f[i - 1], h[i - 1])
        BY <3>1, SumAt
      <3>3. Scale(CAdd(f[i - 1], h[i - 1]), Rot(g, n, i - 1))
              = Add(Scale(f[i - 1], Rot(g, n, i - 1)), Scale(h[i - 1], Rot(g, n, i - 1)))
        <4> DEFINE r == Rot(g, n, i - 1)
        <4>1. r \in Poly(n)
          BY <3>1
        <4> HIDE DEF r
        <4>2. Scale(CAdd(f[i - 1], h[i - 1]), r) = Add(Scale(f[i - 1], r), Scale(h[i - 1], r))
          BY <3>1, <4>1, PolyScales, SMTT(30)
        <4>3. QED BY <4>2 DEF r
      <3>4. Add(A[i], B[i]) = Add(Add(A[i - 1], B[i - 1]),
                                  Add(Scale(f[i - 1], Rot(g, n, i - 1)), Scale(h[i - 1], Rot(g, n, i - 1))))
        <4> DEFINE a1 == A[i - 1]
                   b1 == B[i - 1]
                   c1 == Scale(f[i - 1], Rot(g, n, i - 1))
                   d1 == Scale(h[i - 1], Rot(g, n, i - 1))
        <4>1. a1 \in Poly(n) /\ b1 \in Poly(n) /\ c1 \in Poly(n) /\ d1 \in Poly(n)
              /\ A[i] = Add(a1, c1) /\ B[i] = Add(b1, d1)
          BY <1>7, <3>1
        <4> HIDE DEF a1, b1, c1, d1
        <4>2. Add(Add(a1, c1), Add(b1, d1)) = Add(Add(a1, b1), Add(c1, d1))
          BY <4>1, SwapMiddle
        <4>3. QED BY <4>1, <4>2, Zenon DEF a1, b1, c1, d1
      <3>5. D[i] = Add(A[i], B[i]) /\ D[i - 1] = Add(A[i - 1], B[i - 1])
        BY <1>7, <2>1
      <3>6. QED BY <3>2, <3>3, <3>4, <3>5, Zenon
    <2>4. MulSteps(D, Add(f, h), g, n) /\ Add(f, h) \in Poly(n)
      BY <2>2, <2>3, PolyAt, Zenon DEF MulSteps
    <2>5. Mul(Add(f, h), g, n) = D[n]
      BY <2>1, <2>4, MulIs
    <2>6. QED BY <1>0, <1>1, <1>2, <2>1, <2>5
  <1>10. Mul(Scale(a, f), g, n) = Scale(a, Mul(f, g, n))
    <2> DEFINE D == [i \in 0..n |-> Scale(a, A[i])]
    <2>1. D \in [0..n -> Poly(n)] /\ \A i \in 0..n : D[i] = Scale(a, A[i])
      <3>1. \A i \in 0..n : Scale(a, A[i]) \in Poly(n)
        BY <1>4, PolyAt
      <3>2. QED BY <3>1, Zenon
    <2> HIDE DEF D
    <2>2. D[0] = Zero(n)
      BY <1>0, <1>5, <1>6, <2>1
    <2>3. ASSUME NEW i \in 1..n
          PROVE  D[i] = Add(D[i - 1], Scale(Scale(a, f)[i - 1], Rot(g, n, i - 1)))
      <3>1. /\ i - 1 \in 0..(n - 1) /\ f[i - 1] \in Coeff /\ Rot(g, n, i - 1) \in Poly(n)
            /\ Scale(f[i - 1], Rot(g, n, i - 1)) \in Poly(n)
        BY TermFacts
      <3>2. Scale(a, f)[i - 1] = CMul(a, f[i - 1])
        BY <3>1, ScaleAt
      <3>3. Scale(a, Scale(f[i - 1], Rot(g, n, i - 1))) = Scale(CMul(a, f[i - 1]), Rot(g, n, i - 1))
        BY <3>1, PolyScales
      <3>4. Scale(a, A[i]) = Add(Scale(a, A[i - 1]), Scale(a, Scale(f[i - 1], Rot(g, n, i - 1))))
        BY <1>7, <3>1, PolyScales
      <3>5. D[i] = Scale(a, A[i]) /\ D[i - 1] = Scale(a, A[i - 1])
        BY <1>7, <2>1
      <3>6. QED BY <3>2, <3>3, <3>4, <3>5, Zenon
    <2>4. MulSteps(D, Scale(a, f), g, n) /\ Scale(a, f) \in Poly(n)
      BY <2>2, <2>3, PolyAt, Zenon DEF MulSteps
    <2>5. Mul(Scale(a, f), g, n) = D[n]
      BY <2>1, <2>4, MulIs
    <2>6. QED BY <1>0, <1>1, <2>1, <2>5
  <1>11. Mul(f, Add(g, h), n) = Add(Mul(f, g, n), Mul(f, h, n))
    <2> DEFINE D == [i \in 0..n |-> Add(A[i], C[i])]
    <2>1. D \in [0..n -> Poly(n)] /\ \A i \in 0..n : D[i] = Add(A[i], C[i])
      <3>1. \A i \in 0..n : Add(A[i], C[i]) \in Poly(n)
        BY <1>4, PolyAt
      <3>2. QED BY <3>1, Zenon
    <2> HIDE DEF D
    <2>2. D[0] = Zero(n)
      BY <1>0, <1>5, <1>6, <2>1
    <2>3. ASSUME NEW i \in 1..n
          PROVE  D[i] = Add(D[i - 1], Scale(f[i - 1], Rot(Add(g, h), n, i - 1)))
      <3>1. /\ i - 1 \in 0..n /\ f[i - 1] \in Coeff /\ Rot(g, n, i - 1) \in Poly(n) /\ Rot(h, n, i - 1) \in Poly(n)
            /\ Scale(f[i - 1], Rot(g, n, i - 1)) \in Poly(n) /\ Scale(f[i - 1], Rot(h, n, i - 1)) \in Poly(n)
        BY TermFacts
      <3>2. Rot(Add(g, h), n, i - 1) = Add(Rot(g, n, i - 1), Rot(h, n, i - 1))
        BY <3>1, RotLinear
      <3>3. Scale(f[i - 1], Add(Rot(g, n, i - 1), Rot(h, n, i - 1)))
              = Add(Scale(f[i - 1], Rot(g, n, i - 1)), Scale(f[i - 1], Rot(h, n, i - 1)))
        BY <3>1, PolyScales
      <3>4. Add(A[i], C[i]) = Add(Add(A[i - 1], C[i - 1]),
                                  Add(Scale(f[i - 1], Rot(g, n, i - 1)), Scale(f[i - 1], Rot(h, n, i - 1))))
        <4> DEFINE a1 == A[i - 1]
                   b1 == C[i - 1]
                   c1 == Scale(f[i - 1], Rot(g, n, i - 1))
                   d1 == Scale(f[i - 1], Rot(h, n, i - 1))
        <4>1. a1 \in Poly(n) /\ b1 \in Poly(n) /\ c1 \in Poly(n) /\ d1 \in Poly(n)
              /\ A[i] = Add(a1, c1) /\ C[i] = Add(b1, d1)
          BY <1>7, <3>1
        <4> HIDE DEF a1, b1, c1, d1
        <4>2. Add(Add(a1, c1), Add(b1, d1)) = Add(Add(a1, b1), Add(c1, d1))
          BY <4>1, SwapMiddle
        <4>3. QED BY <4>1, <4>2, Zenon DEF a1, b1, c1, d1
      <3>5. D[i] = Add(A[i], C[i]) /\ D[i - 1] = Add(A[i - 1], C[i - 1])
        BY <1>7, <2>1
      <3>6. QED BY <3>2, <3>3, <3>4, <3>5, Zenon
    <2>4. MulSteps(D, f, Add(g, h), n) /\ Add(g, h) \in Poly(n)
      BY <2>2, <2>3, PolyAt, Zenon DEF MulSteps
    <2>5. Mul(f, Add(g, h), n) = D[n]
      BY <2>1, <2>4, MulIs
    <2>6. QED BY <1>0, <1>1, <1>3, <2>1, <2>5
  <1>12. Mul(f, Scale(a, g), n) = Scale(a, Mul(f, g, n))
    <2> DEFINE D == [i \in 0..n |-> Scale(a, A[i])]
    <2>1. D \in [0..n -> Poly(n)] /\ \A i \in 0..n : D[i] = Scale(a, A[i])
      <3>1. \A i \in 0..n : Scale(a, A[i]) \in Poly(n)
        BY <1>4, PolyAt
      <3>2. QED BY <3>1, Zenon
    <2> HIDE DEF D
    <2>2. D[0] = Zero(n)
      BY <1>0, <1>5, <1>6, <2>1
    <2>3. ASSUME NEW i \in 1..n
          PROVE  D[i] = Add(D[i - 1], Scale(f[i - 1], Rot(Scale(a, g), n, i - 1)))
      <3>1. /\ i - 1 \in 0..n /\ f[i - 1] \in Coeff /\ Rot(g, n, i - 1) \in Poly(n)
            /\ Scale(f[i - 1], Rot(g, n, i - 1)) \in Poly(n)
        BY TermFacts
      <3>2. Rot(Scale(a, g), n, i - 1) = Scale(a, Rot(g, n, i - 1))
        BY <3>1, RotLinear
      <3>3. /\ Scale(a, Scale(f[i - 1], Rot(g, n, i - 1))) = Scale(CMul(a, f[i - 1]), Rot(g, n, i - 1))
            /\ Scale(f[i - 1], Scale(a, Rot(g, n, i - 1))) = Scale(CMul(f[i - 1], a), Rot(g, n, i - 1))
            /\ CMul(a, f[i - 1]) = CMul(f[i - 1], a)
        BY <3>1, PolyScales, CoeffProducts
      <3>4. Scale(a, A[i]) = Add(Scale(a, A[i - 1]), Scale(a, Scale(f[i - 1], Rot(g, n, i - 1))))
        BY <1>7, <3>1, PolyScales
      <3>5. D[i] = Scale(a, A[i]) /\ D[i - 1] = Scale(a, A[i - 1])
        BY <1>7, <2>1
      <3>6. QED BY <3>2, <3>3, <3>4, <3>5, Zenon
    <2>4. MulSteps(D, f, Scale(a, g), n) /\ Scale(a, g) \in Poly(n)
      BY <2>2, <2>3, PolyAt, Zenon DEF MulSteps
    <2>5. Mul(f, Scale(a, g), n) = D[n]
      BY <2>1, <2>4, MulIs
    <2>6. QED BY <1>0, <1>1, <2>1, <2>5
  <1>13. Mul(f, TimesX(g, n), n) = TimesX(Mul(f, g, n), n)
    <2> DEFINE D == [i \in 0..n |-> TimesX(A[i], n)]
    <2>1. D \in [0..n -> Poly(n)] /\ \A i \in 0..n : D[i] = TimesX(A[i], n)
      <3>1. \A i \in 0..n : TimesX(A[i], n) \in Poly(n)
        BY <1>4, TimesXLinear
      <3>2. QED BY <3>1, Zenon
    <2> HIDE DEF D
    <2>2. D[0] = Zero(n)
      BY <1>0, <1>5, <1>6, <2>1
    <2>3. ASSUME NEW i \in 1..n
          PROVE  D[i] = Add(D[i - 1], Scale(f[i - 1], Rot(TimesX(g, n), n, i - 1)))
      <3>1. /\ i - 1 \in 0..n /\ f[i - 1] \in Coeff /\ Rot(g, n, i - 1) \in Poly(n)
            /\ Scale(f[i - 1], Rot(g, n, i - 1)) \in Poly(n)
        BY TermFacts
      <3>2. Rot(TimesX(g, n), n, i - 1) = TimesX(Rot(g, n, i - 1), n)
        BY <3>1, RotLinear
      <3>3. TimesX(Scale(f[i - 1], Rot(g, n, i - 1)), n) = Scale(f[i - 1], TimesX(Rot(g, n, i - 1), n))
        BY <3>1, TimesXLinear
      <3>4. TimesX(A[i], n) = Add(TimesX(A[i - 1], n), TimesX(Scale(f[i - 1], Rot(g, n, i - 1)), n))
        BY <1>7, <3>1, TimesXLinear
      <3>5. D[i] = TimesX(A[i], n) /\ D[i - 1] = TimesX(A[i - 1], n)
        BY <1>7, <2>1
      <3>6. QED BY <3>2, <3>3, <3>4, <3>5, Zenon
    <2>4. MulSteps(D, f, TimesX(g, n), n) /\ TimesX(g, n) \in Poly(n)
      BY <2>2, <2>3, TimesXLinear, Zenon DEF MulSteps
    <2>5. Mul(f, TimesX(g, n), n) = D[n]
      BY <2>1, <2>4, MulIs
    <2>6. QED BY <1>0, <1>1, <2>1, <2>5
  <1>14. QED BY <1>8, <1>9, <1>10, <1>11, <1>12, <1>13

\* The laws one at a time.
LEMMA MulClosed ==
  ASSUME NEW n \in Nat \ {0}, NEW f \in Poly(n), NEW g \in Poly(n)
  PROVE  Mul(f, g, n) \in Poly(n)
  <1>1. PICK B \in [0..n -> Poly(n)] : Mul(f, g, n) = B[n]
    BY MulUnfolds
  <1>2. n \in 0..n
    OBVIOUS
  <1>3. \A i \in 0..n : B[i] \in Poly(n)
    OBVIOUS
  <1>4. B[n] \in Poly(n)
    BY <1>2, <1>3
  <1>5. QED BY <1>1, <1>4

\* Multiplication distributes over a sum on the left,
LEMMA MulSumLeft ==
  ASSUME NEW n \in Nat \ {0}, NEW f \in Poly(n), NEW g \in Poly(n), NEW h \in Poly(n)
  PROVE  Mul(Add(f, h), g, n) = Add(Mul(f, g, n), Mul(h, g, n))
  <1>1. 0 \in Coeff
    BY CoeffClosed
  <1>2. ASSUME NEW a \in Coeff PROVE Mul(Add(f, h), g, n) = Add(Mul(f, g, n), Mul(h, g, n))
    BY MulLinear, ZenonT(60)
  <1>3. QED BY <1>1, <1>2

\* and on the right.
LEMMA MulSumRight ==
  ASSUME NEW n \in Nat \ {0}, NEW f \in Poly(n), NEW g \in Poly(n), NEW h \in Poly(n)
  PROVE  Mul(f, Add(g, h), n) = Add(Mul(f, g, n), Mul(f, h, n))
  <1>1. 0 \in Coeff
    BY CoeffClosed
  <1>2. ASSUME NEW a \in Coeff PROVE Mul(f, Add(g, h), n) = Add(Mul(f, g, n), Mul(f, h, n))
    BY MulLinear
  <1>3. QED BY <1>1, <1>2

\* X may be taken out of the first factor: its last coefficient comes round,
\* negated.
LEMMA MulTimesX ==
  ASSUME NEW n \in Nat \ {0}, NEW f \in Poly(n), NEW g \in Poly(n)
  PROVE  Mul(TimesX(f, n), g, n) = TimesX(Mul(f, g, n), n)
  <1>0. n \in 0..n /\ 0 \in 0..n /\ n - 1 \in 0..n /\ n - 1 \in 0..(n - 1) /\ n \in 1..n /\ n # 0
    OBVIOUS
  <1>1. PICK A \in [0..n -> Poly(n)] : MulSteps(A, f, g, n) /\ Mul(f, g, n) = A[n]
    BY MulUnfolds
  <1>2. \A i \in 0..n : A[i] \in Poly(n)
    OBVIOUS
  <1>3. A[0] = Zero(n) /\ Zero(n) \in Poly(n) /\ TimesX(Zero(n), n) = Zero(n)
    BY <1>1, PolyAt, TimesXLinear DEF MulSteps
  <1>4. \A i \in 1..n : A[i] = Add(A[i - 1], Scale(f[i - 1], Rot(g, n, i - 1)))
    BY <1>1 DEF MulSteps
  <1>5. ASSUME NEW i \in 1..n
        PROVE  TimesX(A[i], n) = Add(TimesX(A[i - 1], n), Scale(f[i - 1], Rot(g, n, i)))
    <2>1. /\ i - 1 \in 0..n /\ i - 1 \in 0..(n - 1) /\ f[i - 1] \in Coeff /\ Rot(g, n, i - 1) \in Poly(n)
          /\ Scale(f[i - 1], Rot(g, n, i - 1)) \in Poly(n)
      BY TermFacts
    <2>2. A[i - 1] \in Poly(n)
      BY <1>2, <2>1
    <2>3. TimesX(Add(A[i - 1], Scale(f[i - 1], Rot(g, n, i - 1))), n)
            = Add(TimesX(A[i - 1], n), TimesX(Scale(f[i - 1], Rot(g, n, i - 1)), n))
      BY <2>1, <2>2, TimesXLinear
    <2>4. TimesX(Scale(f[i - 1], Rot(g, n, i - 1)), n) = Scale(f[i - 1], TimesX(Rot(g, n, i - 1), n))
      BY <2>1, TimesXLinear
    <2>5. (i - 1) + 1 = i
      OBVIOUS
    <2>6. Rot(g, n, i) = TimesX(Rot(g, n, i - 1), n)
      BY <2>1, <2>5, RotSteps
    <2>7. QED BY <1>4, <2>3, <2>4, <2>6
  <1> DEFINE a == f[n - 1]
             first == Scale(CNeg(a), g)
             D == [i \in 0..n |-> IF i = 0 THEN Zero(n) ELSE Add(first, TimesX(A[i - 1], n))]
  <1>6. a \in Coeff /\ CNeg(a) \in Coeff /\ first \in Poly(n)
    BY <1>0, PolyAt, CoeffClosed
  <1>7. TimesX(f, n) \in Poly(n) /\ TimesX(f, n)[0] = CNeg(a)
        /\ \A x \in 0..(n - 1) : x # 0 => TimesX(f, n)[x] = f[x - 1]
    <2>1. TimesX(f, n) \in Poly(n)
      BY TimesXLinear
    <2>2. 0 \in 0..(n - 1)
      OBVIOUS
    <2>3. QED BY <2>1, <2>2 DEF TimesX
  <1>8. /\ D \in [0..n -> Poly(n)] /\ D[0] = Zero(n)
        /\ \A i \in 1..n : D[i] = Add(first, TimesX(A[i - 1], n))
    <2>1. ASSUME NEW i \in 1..n
          PROVE  Add(first, TimesX(A[i - 1], n)) \in Poly(n) /\ i \in 0..n /\ i # 0
      <3>1. i - 1 \in 0..n /\ i \in 0..n /\ i # 0
        OBVIOUS
      <3>2. TimesX(A[i - 1], n) \in Poly(n)
        BY <1>2, <3>1, TimesXLinear
      <3>3. QED BY <1>6, <3>1, <3>2, AddClosed
    <2>2. \A i \in 0..n : i = 0 \/ i \in 1..n
      OBVIOUS
    <2> HIDE DEF first
    <2>3. \A i \in 0..n : (IF i = 0 THEN Zero(n) ELSE Add(first, TimesX(A[i - 1], n))) \in Poly(n)
      BY <1>3, <2>1, <2>2, Zenon
    <2>4. D \in [0..n -> Poly(n)]
      BY <2>3, Zenon
    <2>5. QED BY <1>0, <2>1, <2>4, Zenon
  <1> HIDE DEF D, first, a
  <1>9. ASSUME NEW i \in 1..n
        PROVE  D[i] = Add(D[i - 1], Scale(TimesX(f, n)[i - 1], Rot(g, n, i - 1)))
    <2>1. i - 1 \in 0..(n - 1) /\ i - 1 \in 0..n
      OBVIOUS
    <2>2. CASE i = 1
      <3>1. i - 1 = 0 /\ 1 \in 1..n /\ 1 - 1 = 0
        BY <2>2
      <3>2. D[i] = Add(first, Zero(n)) /\ D[i - 1] = Zero(n)
        BY <1>3, <1>8, <2>2, <3>1
      <3>3. Rot(g, n, i - 1) = g
        BY <3>1, RotSteps
      <3>4. Add(first, Zero(n)) = Add(Zero(n), first)
        BY <1>3, <1>6, AddComm
      <3>5. QED BY <1>7, <3>1, <3>2, <3>3, <3>4 DEF first
    <2>3. CASE i # 1
      <3>1. i - 1 \in 1..n /\ i - 1 # 0 /\ (i - 1) - 1 \in 0..n
        BY <2>3
      <3>2. D[i] = Add(first, TimesX(A[i - 1], n)) /\ D[i - 1] = Add(first, TimesX(A[(i - 1) - 1], n))
        BY <1>8, <3>1
      <3>3. TimesX(A[i - 1], n) = Add(TimesX(A[(i - 1) - 1], n), Scale(f[(i - 1) - 1], Rot(g, n, i - 1)))
        BY <1>5, <3>1
      <3>4. TimesX(f, n)[i - 1] = f[(i - 1) - 1]
        BY <1>7, <2>1, <3>1
      <3> DEFINE u == TimesX(A[(i - 1) - 1], n)
                 w == Scale(f[(i - 1) - 1], Rot(g, n, i - 1))
      <3>5. u \in Poly(n) /\ w \in Poly(n)
        <4>1. (i - 1) - 1 \in 0..(n - 1)
          BY <3>1
        <4>2. f[(i - 1) - 1] \in Coeff
          BY <4>1, PolyAt
        <4>3. Rot(g, n, i - 1) \in Poly(n)
          BY <2>1, RotSteps
        <4>4. A[(i - 1) - 1] \in Poly(n)
          BY <1>2, <3>1
        <4>5. QED BY <4>2, <4>3, <4>4, PolyAt, TimesXLinear
      <3>6. D[i] = Add(first, Add(u, w)) /\ D[i - 1] = Add(first, u)
            /\ Scale(TimesX(f, n)[i - 1], Rot(g, n, i - 1)) = w
        BY <3>2, <3>3, <3>4
      <3> HIDE DEF u, w
      <3>7. Add(Add(first, u), w) = Add(first, Add(u, w))
        BY <1>6, <3>5, AddAssoc
      <3>8. QED BY <3>6, <3>7
    <2>4. QED BY <2>2, <2>3
  <1>10. MulSteps(D, TimesX(f, n), g, n)
    BY <1>8, <1>9, Zenon DEF MulSteps
  <1>11. Mul(TimesX(f, n), g, n) = D[n]
    BY <1>7, <1>8, <1>10, MulIs
  <1>12. D[n] = Add(first, TimesX(A[n - 1], n))
    BY <1>0, <1>8
  <1>13. TimesX(A[n], n) = Add(TimesX(A[n - 1], n), Scale(a, Rot(g, n, n)))
    BY <1>0, <1>5 DEF a
  <1>14. Scale(a, Rot(g, n, n)) = first
    <2>1. Rot(g, n, n) = Neg(g)
      BY RotSteps
    <2>2. Scale(CNeg(a), g) = Scale(a, Neg(g))
      BY <1>6, NegScales
    <2>3. QED BY <2>1, <2>2 DEF first
  <1>15. TimesX(A[n - 1], n) \in Poly(n)
    BY <1>0, <1>2, TimesXLinear
  <1>16. Add(first, TimesX(A[n - 1], n)) = Add(TimesX(A[n - 1], n), first)
    BY <1>6, <1>15, AddComm
  <1>17. QED BY <1>1, <1>11, <1>12, <1>13, <1>14, <1>16

\* So may every rotation.
LEMMA MulRot ==
  ASSUME NEW n \in Nat \ {0}, NEW f \in Poly(n), NEW g \in Poly(n)
  PROVE  \A i \in 0..n : /\ Mul(Rot(f, n, i), g, n) = Rot(Mul(f, g, n), n, i)
                         /\ Mul(f, Rot(g, n, i), n) = Rot(Mul(f, g, n), n, i)
  <1> DEFINE T == {i \in 0..n : /\ Mul(Rot(f, n, i), g, n) = Rot(Mul(f, g, n), n, i)
                                /\ Mul(f, Rot(g, n, i), n) = Rot(Mul(f, g, n), n, i)}
  <1>0. Mul(f, g, n) \in Poly(n)
    BY MulLinear, CoeffClosed
  <1>1. 0 \in T
    <2>1. 0 \in 0..n
      OBVIOUS
    <2>2. Rot(f, n, 0) = f /\ Rot(g, n, 0) = g /\ Rot(Mul(f, g, n), n, 0) = Mul(f, g, n)
      BY <1>0, RotSteps
    <2>3. QED BY <2>1, <2>2
  <1>2. ASSUME NEW i \in 0..(n - 1), i \in T PROVE i + 1 \in T
    <2>1. i \in 0..n /\ i + 1 \in 0..n
      OBVIOUS
    <2>2. Rot(f, n, i) \in Poly(n) /\ Rot(g, n, i) \in Poly(n)
      BY <2>1, RotSteps
    <2>3. /\ Rot(f, n, i + 1) = TimesX(Rot(f, n, i), n) /\ Rot(g, n, i + 1) = TimesX(Rot(g, n, i), n)
          /\ Rot(Mul(f, g, n), n, i + 1) = TimesX(Rot(Mul(f, g, n), n, i), n)
      BY <1>0, RotSteps
    <2>4. /\ Mul(TimesX(Rot(f, n, i), n), g, n) = TimesX(Mul(Rot(f, n, i), g, n), n)
      BY <2>2, MulTimesX
    <2>5. Mul(f, TimesX(Rot(g, n, i), n), n) = TimesX(Mul(f, Rot(g, n, i), n), n)
      BY <2>2, MulLinear, CoeffClosed
    <2>6. /\ Mul(Rot(f, n, i), g, n) = Rot(Mul(f, g, n), n, i)
          /\ Mul(f, Rot(g, n, i), n) = Rot(Mul(f, g, n), n, i)
      BY <1>2
    <2>7. QED BY <2>1, <2>3, <2>4, <2>5, <2>6
  <1> HIDE DEF T
  <1>3. n \in Nat
    OBVIOUS
  <1>4. \A i \in 0..n : i \in T
    BY <1>1, <1>2, <1>3, SetInduction
  <1>5. QED BY <1>4 DEF T

\* Zeros, negation and differences in a product.
LEMMA MulZero ==
  ASSUME NEW n \in Nat \ {0}, NEW f \in Poly(n)
  PROVE  Mul(Zero(n), f, n) = Zero(n) /\ Mul(f, Zero(n), n) = Zero(n)
  <1>1. 0 \in Coeff /\ Zero(n) \in Poly(n) /\ Scale(0, f) = Zero(n)
    BY CoeffClosed, PolyScales
  <1>2. Mul(Scale(0, f), f, n) = Scale(0, Mul(f, f, n)) /\ Mul(f, Scale(0, f), n) = Scale(0, Mul(f, f, n))
        /\ Mul(f, f, n) \in Poly(n)
    BY <1>1, MulLinear
  <1>3. Scale(0, Mul(f, f, n)) = Zero(n)
    BY <1>1, <1>2, PolyScales
  <1>4. QED BY <1>1, <1>2, <1>3

\* A term of a product, multiplied.
LEMMA MulTerm ==
  ASSUME NEW n \in Nat \ {0}, NEW f \in Poly(n), NEW g \in Poly(n), NEW h \in Poly(n), NEW i \in 1..n
  PROVE  /\ Mul(Scale(f[i - 1], Rot(g, n, i - 1)), h, n) = Scale(f[i - 1], Rot(Mul(g, h, n), n, i - 1))
         /\ Mul(h, Scale(f[i - 1], Rot(g, n, i - 1)), n) = Scale(f[i - 1], Rot(Mul(h, g, n), n, i - 1))
  <1>1. /\ i - 1 \in 0..n /\ f[i - 1] \in Coeff /\ Rot(g, n, i - 1) \in Poly(n)
    BY TermFacts
  <1>2. Mul(Scale(f[i - 1], Rot(g, n, i - 1)), h, n) = Scale(f[i - 1], Mul(Rot(g, n, i - 1), h, n))
    BY <1>1, MulLinear
  <1>3. Mul(h, Scale(f[i - 1], Rot(g, n, i - 1)), n) = Scale(f[i - 1], Mul(h, Rot(g, n, i - 1), n))
    BY <1>1, MulLinear, ZenonT(60)
  <1>4. Mul(Rot(g, n, i - 1), h, n) = Rot(Mul(g, h, n), n, i - 1)
    BY <1>1, MulRot
  <1>5. Mul(h, Rot(g, n, i - 1), n) = Rot(Mul(h, g, n), n, i - 1)
    BY <1>1, MulRot
  <1>6. QED BY <1>2, <1>3, <1>4, <1>5

\* Multiplication associates.
LEMMA MulAssoc ==
  ASSUME NEW n \in Nat \ {0}, NEW f \in Poly(n), NEW g \in Poly(n), NEW h \in Poly(n)
  PROVE  Mul(Mul(f, g, n), h, n) = Mul(f, Mul(g, h, n), n)
  <1>0. n \in 0..n /\ 0 \in 0..n
    OBVIOUS
  <1>1. PICK A \in [0..n -> Poly(n)] : MulSteps(A, f, g, n) /\ Mul(f, g, n) = A[n]
    BY MulUnfolds
  <1>2. \A i \in 0..n : A[i] \in Poly(n)
    OBVIOUS
  <1>3. Mul(g, h, n) \in Poly(n)
    BY MulLinear, CoeffClosed
  <1> DEFINE D == [i \in 0..n |-> Mul(A[i], h, n)]
  <1>4. D \in [0..n -> Poly(n)] /\ \A i \in 0..n : D[i] = Mul(A[i], h, n)
    <2>1. \A i \in 0..n : Mul(A[i], h, n) \in Poly(n)
      BY <1>2, MulLinear, CoeffClosed
    <2>2. QED BY <2>1, Zenon
  <1> HIDE DEF D
  <1>5. D[0] = Zero(n)
    <2>1. A[0] = Zero(n)
      BY <1>1 DEF MulSteps
    <2>2. QED BY <1>0, <1>4, <2>1, MulZero
  <1>6. ASSUME NEW i \in 1..n
        PROVE  D[i] = Add(D[i - 1], Scale(f[i - 1], Rot(Mul(g, h, n), n, i - 1)))
    <2>1. i - 1 \in 0..n /\ i \in 0..n /\ Scale(f[i - 1], Rot(g, n, i - 1)) \in Poly(n)
      BY TermFacts
    <2>2. A[i] = Add(A[i - 1], Scale(f[i - 1], Rot(g, n, i - 1))) /\ A[i - 1] \in Poly(n)
      BY <1>1, <1>2, <2>1 DEF MulSteps
    <2>3. Mul(Add(A[i - 1], Scale(f[i - 1], Rot(g, n, i - 1))), h, n)
            = Add(Mul(A[i - 1], h, n), Mul(Scale(f[i - 1], Rot(g, n, i - 1)), h, n))
      <3> DEFINE u == A[i - 1]
                 v == Scale(f[i - 1], Rot(g, n, i - 1))
      <3>1. u \in Poly(n) /\ v \in Poly(n)
        BY <2>1, <2>2
      <3> HIDE DEF u, v
      <3>2. Mul(Add(u, v), h, n) = Add(Mul(u, h, n), Mul(v, h, n))
        BY <3>1, MulSumLeft
      <3>3. QED BY <3>2 DEF u, v
    <2>4. Mul(Scale(f[i - 1], Rot(g, n, i - 1)), h, n) = Scale(f[i - 1], Rot(Mul(g, h, n), n, i - 1))
      BY MulTerm
    <2>5. D[i] = Mul(A[i], h, n) /\ D[i - 1] = Mul(A[i - 1], h, n)
      BY <1>4, <2>1
    <2>6. QED BY <2>2, <2>3, <2>4, <2>5, Zenon
  <1>7. MulSteps(D, f, Mul(g, h, n), n)
    BY <1>5, <1>6, Zenon DEF MulSteps
  <1>8. Mul(f, Mul(g, h, n), n) = D[n]
    BY <1>3, <1>4, <1>7, MulIs
  <1>9. QED BY <1>0, <1>1, <1>4, <1>8

\* The polynomial 1.
One(n) == [x \in 0..(n - 1) |-> IF x = 0 THEN COne ELSE 0]

\* Coefficient x of the i-th rotation of 1.
LEMMA RotOne ==
  ASSUME NEW n \in Nat \ {0}, NEW i \in 0..(n - 1), NEW x \in 0..(n - 1)
  PROVE  Rot(One(n), n, i)[x] = IF x = i THEN COne ELSE 0
  <1>1. Rot(One(n), n, i)[x] = IF i <= x THEN One(n)[x - i] ELSE CNeg(One(n)[n + x - i])
    BY Zenon DEF Rot
  <1>2. \A y \in 0..(n - 1) : One(n)[y] = IF y = 0 THEN COne ELSE 0
    BY Zenon DEF One
  <1>3. CNeg(0) = 0
    <2>1. 0 \in Coeff /\ CNeg(0) \in Coeff
      BY CoeffClosed
    <2>2. CAdd(0, CNeg(0)) = 0 /\ CAdd(0, CNeg(0)) = CNeg(0)
      BY <2>1, CoeffSums
    <2>3. QED BY <2>2
  <1>4. CASE i <= x
    <2>1. x - i \in 0..(n - 1) /\ (x - i = 0 <=> x = i)
      BY <1>4
    <2>2. QED BY <1>1, <1>2, <1>4, <2>1
  <1>5. CASE ~(i <= x)
    <2>1. n + x - i \in 0..(n - 1) /\ n + x - i # 0 /\ x # i
      BY <1>5
    <2>2. QED BY <1>1, <1>2, <1>3, <1>5, <2>1
  <1>6. QED BY <1>4, <1>5

\* It has a unit.
LEMMA MulOne ==
  ASSUME NEW n \in Nat \ {0}, NEW f \in Poly(n)
  PROVE  Mul(f, One(n), n) = f /\ One(n) \in Poly(n)
  <1>0. n \in 0..n /\ 0 \in 0..n
    OBVIOUS
  <1>1. One(n) \in Poly(n)
    <2>1. \A x \in 0..(n - 1) : (IF x = 0 THEN COne ELSE 0) \in Coeff
      BY CoeffClosed
    <2>2. QED BY <2>1, Zenon DEF One, Poly
  <1> DEFINE D == [i \in 0..n |-> [x \in 0..(n - 1) |-> IF x < i THEN f[x] ELSE 0]]
  <1>2. \A i \in 0..n : /\ D[i] \in Poly(n)
                        /\ \A x \in 0..(n - 1) : D[i][x] = IF x < i THEN f[x] ELSE 0
    <2>1. ASSUME NEW i \in 0..n
          PROVE  [x \in 0..(n - 1) |-> IF x < i THEN f[x] ELSE 0] \in Poly(n)
      <3>1. \A x \in 0..(n - 1) : (IF x < i THEN f[x] ELSE 0) \in Coeff
        BY PolyAt, CoeffClosed
      <3>2. QED BY <3>1, Zenon DEF Poly
    <2>2. QED BY <2>1, Zenon
  <1>3. D \in [0..n -> Poly(n)]
    BY <1>2, Zenon
  <1> HIDE DEF D
  <1>4. D[0] = Zero(n)
    <2>1. Zero(n) \in Poly(n) /\ \A x \in 0..(n - 1) : Zero(n)[x] = 0
      BY PolyAt
    <2>2. ASSUME NEW x \in 0..(n - 1) PROVE D[0][x] = Zero(n)[x]
      <3>1. ~(x < 0)
        OBVIOUS
      <3>2. QED BY <1>0, <1>2, <2>1, <3>1
    <2>3. QED BY <1>0, <1>2, <2>1, <2>2, PolyEqual
  <1>5. ASSUME NEW i \in 1..n
        PROVE  D[i] = Add(D[i - 1], Scale(f[i - 1], Rot(One(n), n, i - 1)))
    <2>1. /\ i - 1 \in 0..(n - 1) /\ i - 1 \in 0..n /\ i \in 0..n /\ f[i - 1] \in Coeff
          /\ Rot(One(n), n, i - 1) \in Poly(n) /\ Scale(f[i - 1], Rot(One(n), n, i - 1)) \in Poly(n)
      BY <1>1, TermFacts
    <2>2. D[i] \in Poly(n) /\ D[i - 1] \in Poly(n)
      BY <1>2, <2>1
    <2>3. Add(D[i - 1], Scale(f[i - 1], Rot(One(n), n, i - 1))) \in Poly(n)
      BY <2>1, <2>2, AddClosed
    <2>4. ASSUME NEW x \in 0..(n - 1)
          PROVE  D[i][x] = Add(D[i - 1], Scale(f[i - 1], Rot(One(n), n, i - 1)))[x]
      <3>1. Add(D[i - 1], Scale(f[i - 1], Rot(One(n), n, i - 1)))[x]
              = CAdd(D[i - 1][x], Scale(f[i - 1], Rot(One(n), n, i - 1))[x])
        BY <2>1, <2>2, SumAt
      <3>2. Scale(f[i - 1], Rot(One(n), n, i - 1))[x] = CMul(f[i - 1], Rot(One(n), n, i - 1)[x])
        BY <2>1, ScaleAt
      <3>3. Rot(One(n), n, i - 1)[x] = IF x = i - 1 THEN COne ELSE 0
        BY <2>1, RotOne
      <3>4. D[i][x] = (IF x < i THEN f[x] ELSE 0) /\ D[i - 1][x] = (IF x < i - 1 THEN f[x] ELSE 0)
        BY <1>2, <2>1
      <3>5. f[x] \in Coeff /\ 0 \in Coeff /\ COne \in Coeff
        BY PolyAt, CoeffClosed
      <3>6. CMul(f[i - 1], COne) = f[i - 1] /\ CMul(f[i - 1], 0) = 0
        BY <2>1, <3>5, CoeffProducts
      <3>7. CAdd(0, f[i - 1]) = f[i - 1] /\ CAdd(f[x], 0) = f[x] /\ CAdd(0, 0) = 0
        BY <2>1, <3>5, CoeffSums
      <3>8. CASE x = i - 1
        <4>1. x < i /\ ~(x < i - 1)
          BY <3>8
        <4>2. QED BY <3>1, <3>2, <3>3, <3>4, <3>6, <3>7, <3>8, <4>1
      <3>9. CASE x # i - 1
        <4>1. x < i <=> x < i - 1
          BY <3>9
        <4>2. QED BY <3>1, <3>2, <3>3, <3>4, <3>6, <3>7, <3>9, <4>1
      <3>10. QED BY <3>8, <3>9
    <2>5. QED BY <2>2, <2>3, <2>4, PolyEqual
  <1>6. MulSteps(D, f, One(n), n)
    BY <1>4, <1>5, Zenon DEF MulSteps
  <1>7. Mul(f, One(n), n) = D[n]
    BY <1>1, <1>3, <1>6, MulIs
  <1>8. D[n] = f
    <2>1. ASSUME NEW x \in 0..(n - 1) PROVE D[n][x] = f[x]
      <3>1. x < n
        OBVIOUS
      <3>2. QED BY <1>0, <1>2, <3>1
    <2>2. QED BY <1>0, <1>2, <2>1, PolyEqual
  <1>9. QED BY <1>1, <1>7, <1>8

\* It commutes.
LEMMA MulComm ==
  ASSUME NEW n \in Nat \ {0}, NEW f \in Poly(n), NEW g \in Poly(n)
  PROVE  Mul(f, g, n) = Mul(g, f, n)
  <1>0. n \in 0..n /\ 0 \in 0..n
    OBVIOUS
  <1>1. One(n) \in Poly(n) /\ Mul(f, One(n), n) = f /\ Mul(g, One(n), n) = g
    BY MulOne
  <1>2. PICK A \in [0..n -> Poly(n)] : MulSteps(A, f, One(n), n) /\ Mul(f, One(n), n) = A[n]
    BY <1>1, MulUnfolds
  <1>3. \A i \in 0..n : A[i] \in Poly(n)
    OBVIOUS
  <1> DEFINE D == [i \in 0..n |-> Mul(g, A[i], n)]
  <1>4. D \in [0..n -> Poly(n)] /\ \A i \in 0..n : D[i] = Mul(g, A[i], n)
    <2>1. \A i \in 0..n : Mul(g, A[i], n) \in Poly(n)
      BY <1>3, MulLinear, CoeffClosed
    <2>2. QED BY <2>1, Zenon
  <1> HIDE DEF D
  <1>5. D[0] = Zero(n)
    <2>1. A[0] = Zero(n)
      BY <1>2 DEF MulSteps
    <2>2. QED BY <1>0, <1>4, <2>1, MulZero
  <1>6. ASSUME NEW i \in 1..n
        PROVE  D[i] = Add(D[i - 1], Scale(f[i - 1], Rot(g, n, i - 1)))
    <2>1. i - 1 \in 0..n /\ i \in 0..n /\ Scale(f[i - 1], Rot(One(n), n, i - 1)) \in Poly(n)
      BY <1>1, TermFacts
    <2>2. A[i] = Add(A[i - 1], Scale(f[i - 1], Rot(One(n), n, i - 1))) /\ A[i - 1] \in Poly(n)
      BY <1>2, <1>3, <2>1 DEF MulSteps
    <2>3. Mul(g, Add(A[i - 1], Scale(f[i - 1], Rot(One(n), n, i - 1))), n)
            = Add(Mul(g, A[i - 1], n), Mul(g, Scale(f[i - 1], Rot(One(n), n, i - 1)), n))
      BY <2>1, <2>2, MulLinear, CoeffClosed, ZenonT(60)
    <2>4. Mul(g, Scale(f[i - 1], Rot(One(n), n, i - 1)), n) = Scale(f[i - 1], Rot(Mul(g, One(n), n), n, i - 1))
      BY <1>1, MulTerm
    <2>5. D[i] = Mul(g, A[i], n) /\ D[i - 1] = Mul(g, A[i - 1], n)
      BY <1>4, <2>1
    <2>6. QED BY <1>1, <2>2, <2>3, <2>4, <2>5, Zenon
  <1>7. MulSteps(D, f, g, n)
    BY <1>5, <1>6, Zenon DEF MulSteps
  <1>8. Mul(f, g, n) = D[n]
    BY <1>4, <1>7, MulIs
  <1>9. QED BY <1>0, <1>1, <1>2, <1>4, <1>8

-----------------------------------------------------------------------------
(***************************************************************************)
(* Sums of polynomials.                                                    *)
(***************************************************************************)

\* The partial sums of T from lo up, and the whole.
IsSums(h, T, lo, num, n) == h[lo] = Zero(n) /\ \A l \in (lo + 1)..num : h[l] = Add(h[l - 1], T[l - 1])

Sums(T, lo, num, n) ==
  LET sum[k \in lo..num] == IF k = lo THEN Zero(n) ELSE Add(sum[k - 1], T[k - 1])
  IN  sum[num]

Terms(num, n) == [0..(num - 1) -> Poly(n)]

\* Partial sums are determined by the terms.
LEMMA SumsAgree ==
  ASSUME NEW lo \in Nat, NEW num \in Nat, lo <= num, NEW T, NEW n, NEW f, NEW g,
         IsSums(f, T, lo, num, n), IsSums(g, T, lo, num, n)
  PROVE  \A k \in lo..num : f[k] = g[k]
  <1> DEFINE u == [i \in 0..(num - lo) |-> f[lo + i]]
             v == [i \in 0..(num - lo) |-> g[lo + i]]
  <1>1. num - lo \in Nat /\ 0 \in 0..(num - lo) /\ lo + 0 = lo
    OBVIOUS
  <1>2. u[0] = v[0]
    BY <1>1 DEF IsSums
  <1>3. ASSUME NEW l \in 1..(num - lo), u[l - 1] = v[l - 1] PROVE u[l] = v[l]
    <2>1. l \in 0..(num - lo) /\ l - 1 \in 0..(num - lo) /\ lo + l \in (lo + 1)..num /\ lo + (l - 1) = (lo + l) - 1
      OBVIOUS
    <2>2. u[l - 1] = f[(lo + l) - 1] /\ v[l - 1] = g[(lo + l) - 1] /\ u[l] = f[lo + l] /\ v[l] = g[lo + l]
      BY <2>1
    <2>3. f[lo + l] = Add(f[(lo + l) - 1], T[(lo + l) - 1]) /\ g[lo + l] = Add(g[(lo + l) - 1], T[(lo + l) - 1])
      BY <2>1 DEF IsSums
    <2> HIDE DEF u, v
    <2>4. QED BY <1>3, <2>2, <2>3
  <1> HIDE DEF u, v
  <1>4. \A l \in 0..(num - lo) : u[l] = v[l]
    BY <1>1, <1>2, <1>3, AgreeUpTo
  <1>5. ASSUME NEW k \in lo..num PROVE f[k] = g[k]
    <2>1. k - lo \in 0..(num - lo) /\ lo + (k - lo) = k
      OBVIOUS
    <2>2. QED BY <1>4, <2>1 DEF u, v
  <1>6. QED BY <1>5

\* A solution of the recursion in Sums is one of the partial sums.
LEMMA SumsIs ==
  ASSUME NEW lo \in Nat, NEW num \in Nat, lo <= num, NEW T, NEW n, NEW h, IsSums(h, T, lo, num, n)
  PROVE  Sums(T, lo, num, n) = h[num]
  <1> DEFINE Solves(f) == f = [k \in lo..num |-> IF k = lo THEN Zero(n) ELSE Add(f[k - 1], T[k - 1])]
             f0 == CHOOSE f : Solves(f)
             h0 == [k \in lo..num |-> h[k]]
  <1>1. lo \in lo..num /\ num \in lo..num
    OBVIOUS
  <1>2. \A k \in lo..num : k # lo => k \in (lo + 1)..num /\ k - 1 \in lo..num
    OBVIOUS
  <1>3. \A k \in (lo + 1)..num : k # lo /\ k \in lo..num /\ k - 1 \in lo..num
    OBVIOUS
  <1>4. Solves(h0)
    <2>1. ASSUME NEW k \in lo..num PROVE h[k] = IF k = lo THEN Zero(n) ELSE Add(h0[k - 1], T[k - 1])
      BY <1>2, Zenon DEF IsSums
    <2>2. QED BY <2>1, Zenon
  <1>5. Solves(f0)
    BY <1>4, Zenon
  <1>6. Sums(T, lo, num, n) = f0[num]
    BY Zenon DEF Sums
  <1> HIDE DEF f0
  <1>7. IsSums(f0, T, lo, num, n)
    <2>1. \A k \in lo..num : f0[k] = IF k = lo THEN Zero(n) ELSE Add(f0[k - 1], T[k - 1])
      BY <1>5, Zenon
    <2>2. QED BY <1>1, <1>3, <2>1, Zenon DEF IsSums
  <1>8. QED BY <1>1, <1>6, <1>7, SumsAgree

\* A sum is the last of its partial sums, all of them polynomials.
LEMMA SumsExist ==
  ASSUME NEW n, NEW lo \in Nat, NEW num \in Nat, lo <= num, NEW T \in Terms(num, n)
  PROVE  \E h \in [lo..num -> Poly(n)] : IsSums(h, T, lo, num, n) /\ Sums(T, lo, num, n) = h[num]
  <1> DEFINE d == num - lo
             F == [l \in 1..d |-> [f \in Poly(n) |-> Add(f, T[lo + (l - 1)])]]
  <1>1. d \in Nat /\ \A l \in 1..d : lo + (l - 1) \in 0..(num - 1)
    OBVIOUS
  <1>2. \A x \in 0..(num - 1) : T[x] \in Poly(n)
    BY DEF Terms
  <1>3. F \in [1..d -> [Poly(n) -> Poly(n)]]
    <2>1. \A l \in 1..d : \A f \in Poly(n) : Add(f, T[lo + (l - 1)]) \in Poly(n)
      BY <1>1, <1>2, AddClosed
    <2>2. QED BY <2>1, Zenon
  <1>4. Zero(n) \in Poly(n)
    <2>1. \A x \in 0..(n - 1) : 0 \in Coeff
      BY CoeffClosed
    <2>2. QED BY <2>1, Zenon DEF Zero, Poly
  <1>5. \A l \in 1..d : \A f \in Poly(n) : F[l][f] = Add(f, T[lo + (l - 1)])
    BY Zenon
  <1> HIDE DEF F, d
  <1>6. PICK f \in [0..d -> Poly(n)] : Obeys(f, d, Zero(n), F)
    BY <1>1, <1>3, <1>4, Recursion
  <1>7. f[0] = Zero(n) /\ \A l \in 1..d : f[l] = F[l][f[l - 1]]
    BY <1>6 DEF Obeys
  <1>8. \A i \in 0..d : f[i] \in Poly(n)
    OBVIOUS
  <1> DEFINE h == [k \in lo..num |-> f[k - lo]]
  <1>9. \A k \in lo..num : k - lo \in 0..d
    BY DEF d
  <1>10. h \in [lo..num -> Poly(n)] /\ \A k \in lo..num : h[k] = f[k - lo]
    <2>1. \A k \in lo..num : f[k - lo] \in Poly(n)
      BY <1>8, <1>9
    <2>2. QED BY <2>1, Zenon
  <1> HIDE DEF h
  <1>11. h[lo] = Zero(n)
    <2>1. lo \in lo..num /\ lo - lo = 0
      OBVIOUS
    <2>2. QED BY <1>7, <1>10, <2>1
  <1>12. ASSUME NEW l \in (lo + 1)..num PROVE h[l] = Add(h[l - 1], T[l - 1])
    <2>1. l \in lo..num /\ l - 1 \in lo..num /\ l - lo \in 1..d /\ (l - 1) - lo = (l - lo) - 1
          /\ lo + ((l - lo) - 1) = l - 1 /\ (l - lo) - 1 \in 0..d
      BY DEF d
    <2>2. f[l - lo] = F[l - lo][f[(l - lo) - 1]] /\ f[(l - lo) - 1] \in Poly(n)
      BY <1>7, <1>8, <2>1
    <2>3. f[l - lo] = Add(f[(l - lo) - 1], T[lo + ((l - lo) - 1)])
      BY <1>5, <2>1, <2>2
    <2>4. h[l] = f[l - lo] /\ h[l - 1] = f[(l - lo) - 1]
      BY <1>10, <2>1
    <2>5. QED BY <2>1, <2>3, <2>4
  <1>13. IsSums(h, T, lo, num, n)
    BY <1>11, <1>12 DEF IsSums
  <1>14. Sums(T, lo, num, n) = h[num]
    BY <1>13, SumsIs
  <1>15. QED BY <1>10, <1>13, <1>14

\* A sum of polynomials is a polynomial.
LEMMA SumsClosed ==
  ASSUME NEW n, NEW lo \in Nat, NEW num \in Nat, lo <= num, NEW T \in Terms(num, n)
  PROVE  Sums(T, lo, num, n) \in Poly(n)
  <1>1. PICK h \in [lo..num -> Poly(n)] : Sums(T, lo, num, n) = h[num]
    BY SumsExist
  <1>2. num \in lo..num
    OBVIOUS
  <1>3. h[num] \in Poly(n)
    BY <1>2
  <1>4. QED BY <1>1, <1>3

\* The empty sum, and the first term taken out of one.
LEMMA SumsEmpty ==
  ASSUME NEW n, NEW num \in Nat, NEW T
  PROVE  Sums(T, num, num, n) = Zero(n)
  <1> DEFINE h == [k \in num..num |-> Zero(n)]
  <1>1. h[num] = Zero(n)
    OBVIOUS
  <1>2. (num + 1)..num = {}
    OBVIOUS
  <1> HIDE DEF h
  <1>3. IsSums(h, T, num, num, n)
    BY <1>1, <1>2 DEF IsSums
  <1>4. QED BY <1>1, <1>3, SumsIs

\* The first term of a sum taken out.
LEMMA SumsSplit ==
  ASSUME NEW n, NEW lo \in Nat, NEW num \in Nat, lo < num, NEW T \in Terms(num, n)
  PROVE  Sums(T, lo, num, n) = Add(T[lo], Sums(T, lo + 1, num, n)) /\ T[lo] \in Poly(n)
  <1>1. \A x \in 0..(num - 1) : T[x] \in Poly(n)
    BY DEF Terms
  <1>2. lo \in 0..(num - 1) /\ lo + 1 \in Nat /\ lo + 1 <= num
    OBVIOUS
  <1>3. PICK h \in [(lo + 1)..num -> Poly(n)] :
          IsSums(h, T, lo + 1, num, n) /\ Sums(T, lo + 1, num, n) = h[num]
    BY <1>2, SumsExist
  <1>4. \A k \in (lo + 1)..num : h[k] \in Poly(n)
    OBVIOUS
  <1> DEFINE a == T[lo]
             w == [k \in lo..num |-> IF k = lo THEN Zero(n) ELSE Add(a, h[k])]
  <1>5. a \in Poly(n) /\ Zero(n) \in Poly(n)
    BY <1>1, <1>2, PolyAt
  <1>6. /\ w[lo] = Zero(n) /\ \A k \in (lo + 1)..num : w[k] = Add(a, h[k])
    <2>1. lo \in lo..num /\ \A k \in (lo + 1)..num : k \in lo..num /\ k # lo
      OBVIOUS
    <2>2. QED BY <2>1, Zenon
  <1> HIDE DEF w, a
  <1>7. ASSUME NEW l \in (lo + 1)..num PROVE w[l] = Add(w[l - 1], T[l - 1])
    <2>1. CASE l = lo + 1
      <3>1. l - 1 = lo /\ lo + 1 \in (lo + 1)..num
        BY <2>1
      <3>2. h[lo + 1] = Zero(n)
        BY <1>3 DEF IsSums
      <3>3. w[l] = Add(a, Zero(n)) /\ w[l - 1] = Zero(n)
        BY <1>6, <2>1, <3>1, <3>2
      <3>4. Add(a, Zero(n)) = Add(Zero(n), a)
        BY <1>5, AddComm
      <3>5. QED BY <3>1, <3>3, <3>4 DEF a
    <2>2. CASE l # lo + 1
      <3>1. l \in ((lo + 1) + 1)..num /\ l - 1 \in (lo + 1)..num /\ l - 1 \in 0..(num - 1)
        BY <2>2
      <3>2. h[l] = Add(h[l - 1], T[l - 1])
        BY <1>3, <3>1 DEF IsSums
      <3>3. w[l] = Add(a, h[l]) /\ w[l - 1] = Add(a, h[l - 1])
        BY <1>6, <3>1
      <3>4. h[l - 1] \in Poly(n) /\ T[l - 1] \in Poly(n)
        BY <1>1, <1>4, <3>1
      <3>5. Add(Add(a, h[l - 1]), T[l - 1]) = Add(a, Add(h[l - 1], T[l - 1]))
        BY <1>5, <3>4, AddAssoc
      <3>6. QED BY <3>2, <3>3, <3>5
    <2>3. QED BY <2>1, <2>2
  <1>8. IsSums(w, T, lo, num, n)
    BY <1>6, <1>7 DEF IsSums
  <1>9. Sums(T, lo, num, n) = w[num]
    BY <1>8, SumsIs
  <1>10. num \in (lo + 1)..num
    OBVIOUS
  <1>11. QED BY <1>3, <1>5, <1>6, <1>9, <1>10 DEF a

\* The partial sums from the first term on.
LEMMA SumsExistFrom0 ==
  ASSUME NEW n, NEW num \in Nat, NEW T \in Terms(num, n)
  PROVE  \E h \in [0..num -> Poly(n)] : IsSums(h, T, 0, num, n) /\ Sums(T, 0, num, n) = h[num]
  <1>1. 0 \in Nat /\ 0 <= num
    OBVIOUS
  <1>2. QED BY <1>1, SumsExist

\* An additive map goes through a sum.
LEMMA SumsMapped ==
  ASSUME NEW n, NEW m, NEW num \in Nat, NEW T \in Terms(num, n), NEW U, NEW L \in [Poly(n) -> Poly(m)],
         L[Zero(n)] = Zero(m), \A f, g \in Poly(n) : L[Add(f, g)] = Add(L[f], L[g]),
         \A k \in 0..(num - 1) : U[k] = L[T[k]]
  PROVE  Sums(U, 0, num, m) = L[Sums(T, 0, num, n)]
  <1>1. \A x \in 0..(num - 1) : T[x] \in Poly(n)
    BY DEF Terms
  <1>2. PICK h \in [0..num -> Poly(n)] : IsSums(h, T, 0, num, n) /\ Sums(T, 0, num, n) = h[num]
    <2>1. \E h \in [0..num -> Poly(n)] : IsSums(h, T, 0, num, n) /\ Sums(T, 0, num, n) = h[num]
      BY SumsExistFrom0
    <2>2. QED BY <2>1
  <1>3. \A k \in 0..num : h[k] \in Poly(n)
    OBVIOUS
  <1> DEFINE w == [k \in 0..num |-> L[h[k]]]
  <1>4. \A k \in 0..num : w[k] = L[h[k]]
    BY Zenon
  <1> HIDE DEF w
  <1>5. w[0] = Zero(m) /\ h[0] = Zero(n)
    <2>1. 0 \in 0..num
      OBVIOUS
    <2>2. QED BY <1>2, <1>4, <2>1 DEF IsSums
  <1>6. ASSUME NEW l \in (0 + 1)..num PROVE w[l] = Add(w[l - 1], U[l - 1])
    <2>1. l \in 0..num /\ l - 1 \in 0..num /\ l - 1 \in 0..(num - 1)
      OBVIOUS
    <2>2. h[l] = Add(h[l - 1], T[l - 1]) /\ h[l - 1] \in Poly(n) /\ T[l - 1] \in Poly(n)
      BY <1>1, <1>2, <1>3, <2>1 DEF IsSums
    <2>3. L[Add(h[l - 1], T[l - 1])] = Add(L[h[l - 1]], L[T[l - 1]])
      BY <2>2
    <2>4. QED BY <1>4, <2>1, <2>2, <2>3
  <1>7. IsSums(w, U, 0, num, m)
    BY <1>5, <1>6 DEF IsSums
  <1>8. Sums(U, 0, num, m) = w[num]
    BY <1>7, SumsIs
  <1>9. num \in 0..num
    OBVIOUS
  <1>10. QED BY <1>2, <1>4, <1>8, <1>9

\* Sums term by term.
LEMMA SumsAdd ==
  ASSUME NEW n, NEW num \in Nat, NEW T \in Terms(num, n), NEW U \in Terms(num, n), NEW V,
         \A k \in 0..(num - 1) : V[k] = Add(T[k], U[k])
  PROVE  Sums(V, 0, num, n) = Add(Sums(T, 0, num, n), Sums(U, 0, num, n))
  <1>1. \A x \in 0..(num - 1) : T[x] \in Poly(n) /\ U[x] \in Poly(n)
    BY DEF Terms
  <1>2. PICK h \in [0..num -> Poly(n)] : IsSums(h, T, 0, num, n) /\ Sums(T, 0, num, n) = h[num]
    BY SumsExistFrom0, Zenon
  <1>3. PICK g \in [0..num -> Poly(n)] : IsSums(g, U, 0, num, n) /\ Sums(U, 0, num, n) = g[num]
    BY SumsExistFrom0, Zenon
  <1>4. \A k \in 0..num : h[k] \in Poly(n) /\ g[k] \in Poly(n)
    OBVIOUS
  <1> DEFINE w == [k \in 0..num |-> Add(h[k], g[k])]
  <1>5. \A k \in 0..num : w[k] = Add(h[k], g[k])
    BY Zenon
  <1> HIDE DEF w
  <1>6. w[0] = Zero(n)
    <2>1. 0 \in 0..num
      OBVIOUS
    <2>2. h[0] = Zero(n) /\ g[0] = Zero(n)
      BY <1>2, <1>3 DEF IsSums
    <2>3. Zero(n) \in Poly(n)
      BY <1>4, <2>1, <2>2
    <2>4. Add(Zero(n), Zero(n)) = Zero(n)
      BY <2>3, PolySums
    <2>5. QED BY <1>5, <2>1, <2>2, <2>4
  <1>7. ASSUME NEW l \in (0 + 1)..num PROVE w[l] = Add(w[l - 1], V[l - 1])
    <2>1. l \in 0..num /\ l - 1 \in 0..num /\ l - 1 \in 0..(num - 1)
      OBVIOUS
    <2>2. h[l] = Add(h[l - 1], T[l - 1]) /\ g[l] = Add(g[l - 1], U[l - 1])
      BY <1>2, <1>3 DEF IsSums
    <2>3. h[l - 1] \in Poly(n) /\ T[l - 1] \in Poly(n) /\ g[l - 1] \in Poly(n) /\ U[l - 1] \in Poly(n)
      BY <1>1, <1>4, <2>1
    <2>4. Add(Add(h[l - 1], T[l - 1]), Add(g[l - 1], U[l - 1])) = Add(Add(h[l - 1], g[l - 1]), Add(T[l - 1], U[l - 1]))
      BY <2>3, SwapMiddle
    <2>5. w[l] = Add(h[l], g[l]) /\ w[l - 1] = Add(h[l - 1], g[l - 1]) /\ V[l - 1] = Add(T[l - 1], U[l - 1])
      BY <1>5, <2>1
    <2>6. QED BY <2>2, <2>4, <2>5
  <1>8. IsSums(w, V, 0, num, n)
    BY <1>6, <1>7 DEF IsSums
  <1>9. Sums(V, 0, num, n) = w[num]
    BY <1>8, SumsIs
  <1>10. num \in 0..num
    OBVIOUS
  <1>11. QED BY <1>2, <1>3, <1>5, <1>9, <1>10

\* A sum with one term that counts.
LEMMA SumsSingle ==
  ASSUME NEW n, NEW num \in Nat, NEW j \in 0..(num - 1), NEW f \in Poly(n), NEW U,
         \A k \in 0..(num - 1) : U[k] = IF k = j THEN f ELSE Zero(n)
  PROVE  Sums(U, 0, num, n) = f
  <1> DEFINE w == [k \in 0..num |-> IF k <= j THEN Zero(n) ELSE f]
  <1>1. \A k \in 0..num : w[k] = IF k <= j THEN Zero(n) ELSE f
    BY Zenon
  <1> HIDE DEF w
  <1>2. 0 \in 0..num /\ num \in 0..num /\ 0 <= j /\ ~(num <= j)
    OBVIOUS
  <1>3. Zero(n) \in Poly(n) /\ Add(Zero(n), Zero(n)) = Zero(n) /\ Add(Zero(n), f) = f /\ Add(f, Zero(n)) = f
    <2>1. Zero(n) \in Poly(n)
      BY PolyAt
    <2>2. QED BY <2>1, PolySums
  <1>4. ASSUME NEW l \in (0 + 1)..num PROVE w[l] = Add(w[l - 1], U[l - 1])
    <2>1. l \in 0..num /\ l - 1 \in 0..num /\ l - 1 \in 0..(num - 1)
      OBVIOUS
    <2>2. w[l] = (IF l <= j THEN Zero(n) ELSE f) /\ w[l - 1] = (IF l - 1 <= j THEN Zero(n) ELSE f)
          /\ U[l - 1] = (IF l - 1 = j THEN f ELSE Zero(n))
      BY <1>1, <2>1
    <2>3. CASE l <= j
      <3>1. l - 1 <= j /\ l - 1 # j
        BY <2>3
      <3>2. QED BY <1>3, <2>2, <2>3, <3>1
    <2>4. CASE l = j + 1
      <3>1. l - 1 <= j /\ l - 1 = j /\ ~(l <= j)
        BY <2>4
      <3>2. QED BY <1>3, <2>2, <3>1
    <2>5. CASE l > j + 1
      <3>1. ~(l - 1 <= j) /\ l - 1 # j /\ ~(l <= j)
        BY <2>5
      <3>2. QED BY <1>3, <2>2, <3>1
    <2>6. QED BY <2>3, <2>4, <2>5
  <1>5. IsSums(w, U, 0, num, n)
    BY <1>1, <1>2, <1>4 DEF IsSums
  <1>6. Sums(U, 0, num, n) = w[num]
    BY <1>5, SumsIs
  <1>7. QED BY <1>1, <1>2, <1>6

-----------------------------------------------------------------------------
(***************************************************************************)
(* Slots.                                                                  *)
(***************************************************************************)

\* d * x + y, within d * small.
LEMMA SlotWithin ==
  ASSUME NEW d \in Nat \ {0}, NEW small \in Nat \ {0}, NEW x \in 0..(small - 1), NEW y \in 0..(d - 1)
  PROVE  d * x + y \in 0..(d * small - 1)
  <1>1. d * x \in Nat /\ d * small \in Nat
    BY NatProduct
  <1>2. d * (x + 1) <= d * small
    BY Z3
  <1>3. d * (x + 1) = d * x + d
    BY Z3
  <1> DEFINE u == d * x
             v == d * small
  <1> HIDE DEF u, v
  <1>4. u \in Nat /\ v \in Nat /\ u + d <= v
    BY <1>1, <1>2, <1>3 DEF u, v
  <1>5. u + y \in 0..(v - 1)
    BY <1>4
  <1>6. QED BY <1>5 DEF u, v

\* Projection takes every d-th coefficient.
LEMMA ProjectIn ==
  ASSUME NEW d \in Nat \ {0}, NEW small \in Nat \ {0}, NEW large, large = d * small,
         NEW f \in Poly(large), NEW y \in 0..(d - 1)
  PROVE  /\ ProjectAt(f, large, small, y) \in Poly(small)
         /\ \A i \in 0..(small - 1) : ProjectAt(f, large, small, y)[i] = f[d * i + y]
  <1>1. large \div small = d
    <2>1. large = small * d + 0 /\ 0 \in 0..(small - 1) /\ large \in Nat
      BY NatProduct, Z3
    <2>2. QED BY <2>1, DivModUnique
  <1>2. ProjectAt(f, large, small, y) = [i \in 0..(small - 1) |-> f[d * i + y]]
    BY <1>1, Zenon DEF ProjectAt
  <1>3. \A i \in 0..(small - 1) : f[d * i + y] \in Coeff
    BY SlotWithin, PolyAt
  <1>4. QED BY <1>2, <1>3 DEF Poly

\* Embedding puts coefficients d apart.
LEMMA EmbedIn ==
  ASSUME NEW d \in Nat \ {0}, NEW small \in Nat \ {0}, NEW large, large = d * small,
         NEW f \in Poly(small), NEW y \in 0..(d - 1)
  PROVE  /\ EmbedAt(f, small, large, y) \in Poly(large)
         /\ \A x \in 0..(large - 1) :
              EmbedAt(f, small, large, y)[x] = IF x % d = y THEN f[x \div d] ELSE 0
         /\ \A x \in 0..(large - 1) : x \div d \in 0..(small - 1)
  <1>0. large \in Nat
    BY NatProduct
  <1>1. large \div small = d
    <2>1. large = small * d + 0 /\ 0 \in 0..(small - 1)
      BY Z3
    <2>2. QED BY <1>0, <2>1, DivModUnique
  <1>2. EmbedAt(f, small, large, y) = [x \in 0..(large - 1) |-> IF x % d = y THEN f[x \div d] ELSE 0]
    BY <1>1, Zenon DEF EmbedAt
  <1>3. ASSUME NEW x \in 0..(large - 1) PROVE x \div d \in 0..(small - 1)
    <2> DEFINE q == x \div d
               r == x % d
    <2>0. x \in Nat
      BY <1>0
    <2>1. x \in Nat /\ q \in Nat /\ r \in 0..(d - 1) /\ x = d * q + r
      BY <2>0, DivMod
    <2> HIDE DEF q, r
    <2>2. ASSUME small <= q PROVE FALSE
      <3>1. d * small <= d * q
        BY <2>1, <2>2, Z3
      <3>2. d * q \in Nat /\ x < d * small
        BY <1>0, <2>1, NatProduct
      <3>3. QED BY <1>0, <2>1, <3>1, <3>2
    <2>3. q \in 0..(small - 1)
      BY <2>1, <2>2
    <2>4. QED BY <2>3 DEF q
  <1>4. ASSUME NEW x \in 0..(large - 1) PROVE (IF x % d = y THEN f[x \div d] ELSE 0) \in Coeff
    BY <1>3, PolyAt, CoeffClosed
  <1>5. QED BY <1>2, <1>3, <1>4 DEF Poly

-----------------------------------------------------------------------------
(***************************************************************************)
(* Differences.                                                            *)
(***************************************************************************)

\* Differences are polynomials.
LEMMA SubClosed ==
  ASSUME NEW n, NEW f \in Poly(n), NEW g \in Poly(n)
  PROVE  Sub(f, g) \in Poly(n) /\ Neg(g) \in Poly(n)
  BY PolyCancel, PolyAt

\* A difference is a sum with the negation.
LEMMA SubIs ==
  ASSUME NEW n, NEW f \in Poly(n), NEW g \in Poly(n)
  PROVE  Sub(f, g) = Add(f, Neg(g))
  BY DEF Sub

\* A difference is what added to the second gives the first.
LEMMA SubSolves ==
  ASSUME NEW n, NEW f \in Poly(n), NEW g \in Poly(n), NEW h \in Poly(n), Add(h, g) = f
  PROVE  h = Sub(f, g)
  BY PolyCancel

\* The difference of sums.
LEMMA SubAdd ==
  ASSUME NEW n, NEW a \in Poly(n), NEW b \in Poly(n), NEW c \in Poly(n), NEW d \in Poly(n)
  PROVE  Sub(Add(a, b), Add(c, d)) = Add(Sub(a, c), Sub(b, d))
  <1> DEFINE u == Sub(a, c)
             v == Sub(b, d)
  <1>1. u \in Poly(n) /\ v \in Poly(n) /\ Add(u, c) = a /\ Add(v, d) = b
    BY PolyCancel
  <1> HIDE DEF u, v
  <1>2. Add(Add(u, v), Add(c, d)) = Add(Add(u, c), Add(v, d))
    BY <1>1, SwapMiddle
  <1>3. Add(u, v) \in Poly(n) /\ Add(a, b) \in Poly(n) /\ Add(c, d) \in Poly(n)
    BY <1>1, AddClosed
  <1>4. Add(u, v) = Sub(Add(a, b), Add(c, d))
    BY <1>1, <1>2, <1>3, SubSolves
  <1>5. QED BY <1>4 DEF u, v

\* Two differences in turn.
LEMMA SubTwice ==
  ASSUME NEW n, NEW a \in Poly(n), NEW b \in Poly(n), NEW c \in Poly(n)
  PROVE  Sub(Sub(a, b), c) = Sub(a, Add(b, c))
  <1> DEFINE u == Sub(a, b)
             v == Sub(u, c)
  <1>1. u \in Poly(n) /\ Add(u, b) = a
    BY PolyCancel
  <1> HIDE DEF u
  <1>2. v \in Poly(n) /\ Add(v, c) = u
    BY <1>1, PolyCancel
  <1> HIDE DEF v
  <1>3. Add(b, c) = Add(c, b) /\ Add(b, c) \in Poly(n)
    BY AddComm, AddClosed
  <1>4. Add(v, Add(c, b)) = Add(Add(v, c), b)
    BY <1>2, AddAssoc
  <1>5. v = Sub(a, Add(b, c))
    BY <1>1, <1>2, <1>3, <1>4, SubSolves
  <1>6. QED BY <1>5 DEF u, v

\* What is added and taken away.
LEMMA SubMiddle ==
  ASSUME NEW n, NEW m \in Poly(n), NEW f \in Poly(n)
  PROVE  Sub(Sub(m, f), m) = Neg(f)
  <1>1. Neg(f) \in Poly(n)
    BY SubClosed
  <1>2. Add(Neg(f), m) = Add(m, Neg(f))
    BY <1>1, AddComm
  <1>3. Add(Neg(f), m) = Sub(m, f) /\ Sub(m, f) \in Poly(n)
    BY <1>2, SubClosed, SubIs
  <1>4. QED BY <1>1, <1>3, SubSolves

\* Nothing subtracted.
LEMMA SubZero ==
  ASSUME NEW n, NEW f \in Poly(n)
  PROVE  Sub(f, Zero(n)) = f /\ Zero(n) \in Poly(n)
  <1>1. Zero(n) \in Poly(n)
    BY PolyAt
  <1>2. Add(f, Zero(n)) = f
    BY PolySums
  <1>3. QED BY <1>1, <1>2, SubSolves

\* The negation of a difference.
LEMMA NegSub ==
  ASSUME NEW n, NEW f \in Poly(n), NEW g \in Poly(n)
  PROVE  Neg(Sub(f, g)) = Sub(g, f)
  <1> DEFINE u == Sub(f, g)
  <1>1. u \in Poly(n) /\ Neg(u) \in Poly(n) /\ Add(u, g) = f
    BY PolyCancel, SubClosed
  <1> HIDE DEF u
  <1>2. Add(Neg(u), Add(u, g)) = Add(Add(Neg(u), u), g)
    BY <1>1, AddAssoc
  <1>3. Add(Neg(u), u) = Zero(n) /\ Add(Zero(n), g) = g
    <2>1. Add(Neg(u), u) = Add(u, Neg(u))
      BY <1>1, AddComm
    <2>2. Add(u, Neg(u)) = Zero(n)
      BY <1>1, PolySums
    <2>3. Add(Zero(n), g) = g
      BY PolySums
    <2>4. QED BY <2>1, <2>2, <2>3
  <1>4. Neg(u) = Sub(g, f)
    BY <1>1, <1>2, <1>3, SubSolves
  <1>5. QED BY <1>4 DEF u

\* Multiplication distributes over a difference.
LEMMA MulSub ==
  ASSUME NEW n \in Nat \ {0}, NEW f \in Poly(n), NEW g \in Poly(n), NEW h \in Poly(n)
  PROVE  Mul(f, Sub(g, h), n) = Sub(Mul(f, g, n), Mul(f, h, n))
  <1>1. Sub(g, h) \in Poly(n) /\ Add(Sub(g, h), h) = g
    BY PolyCancel
  <1> DEFINE u == Sub(g, h)
  <1> HIDE DEF u
  <1>2. u \in Poly(n) /\ Add(u, h) = g
    BY <1>1 DEF u
  <1>3. Mul(f, Add(u, h), n) = Add(Mul(f, u, n), Mul(f, h, n))
    BY <1>2, MulSumRight
  <1>4. Mul(f, u, n) \in Poly(n) /\ Mul(f, h, n) \in Poly(n) /\ Mul(f, g, n) \in Poly(n)
    BY <1>2, MulClosed
  <1>5. Mul(f, u, n) = Sub(Mul(f, g, n), Mul(f, h, n))
    BY <1>2, <1>3, <1>4, SubSolves
  <1>6. QED BY <1>5 DEF u

-----------------------------------------------------------------------------
\* A ciphertext of -q * m made from one of m, mask a and body b, with r fresh.
LEMMA HalvesAgree ==
  ASSUME NEW n \in Nat \ {0}, NEW a \in Poly(n), NEW b \in Poly(n), NEW r \in Poly(n), NEW q \in Poly(n)
  PROVE  Sub(Add(Mul(r, q, n), Mul(a, Mul(q, q, n), n)), Mul(Add(b, r), q, n))
           = Neg(Mul(q, Sub(b, Mul(a, q, n)), n))
  <1> DEFINE rq == Mul(r, q, n)
             aq == Mul(a, q, n)
             aqq == Mul(a, Mul(q, q, n), n)
             bq == Mul(b, q, n)
  <1>1. rq \in Poly(n) /\ aq \in Poly(n) /\ bq \in Poly(n) /\ Mul(q, q, n) \in Poly(n)
    BY MulClosed
  <1>2. aqq \in Poly(n) /\ aqq = Mul(aq, q, n)
    <2>1. aqq \in Poly(n)
      BY <1>1, MulClosed
    <2>2. QED BY <2>1, MulAssoc
  <1>3. Mul(Add(b, r), q, n) = Add(bq, rq)
    BY MulSumLeft
  <1>4. Mul(q, aq, n) = aqq /\ Mul(q, b, n) = bq
    BY <1>1, <1>2, MulComm
  <1>5. Mul(q, Sub(b, aq), n) = Sub(Mul(q, b, n), Mul(q, aq, n))
    BY <1>1, MulSub
  <1> HIDE DEF rq, aq, aqq, bq
  <1>6. Neg(Sub(bq, aqq)) = Sub(aqq, bq)
    BY <1>1, <1>2, NegSub
  <1>7. Add(rq, aqq) = Add(aqq, rq)
    BY <1>1, <1>2, AddComm
  <1>8. Sub(Add(aqq, rq), Add(bq, rq)) = Add(Sub(aqq, bq), Sub(rq, rq))
    BY <1>1, <1>2, SubAdd
  <1>9. Sub(rq, rq) = Zero(n)
    <2>1. Add(rq, Neg(rq)) = Zero(n)
      BY <1>1, PolySums
    <2>2. QED BY <1>1, <2>1, SubIs
  <1>10. Add(Sub(aqq, bq), Zero(n)) = Sub(aqq, bq)
    <2>1. Sub(aqq, bq) \in Poly(n)
      BY <1>1, <1>2, SubClosed
    <2>2. QED BY <2>1, PolySums
  <1>11. Sub(Add(rq, aqq), Add(bq, rq)) = Neg(Mul(q, Sub(b, aq), n))
    BY <1>4, <1>5, <1>6, <1>7, <1>8, <1>9, <1>10
  <1>12. QED BY <1>3, <1>11 DEF rq, aqq, aq

-----------------------------------------------------------------------------
(***************************************************************************)
(* Linear maps between polynomials.                                        *)
(***************************************************************************)

\* Two sequences of values that start and go on together are equal.
LEMMA AgreeAll ==
  ASSUME NEW n \in Nat
  PROVE  \A y, z : y[0] = z[0] /\ (\A l \in 1..n : y[l - 1] = z[l - 1] => y[l] = z[l])
                  => \A l \in 0..n : y[l] = z[l]
  BY AgreeUpTo

IsLinear(H, n) ==
  /\ \A f, g \in Poly(n) : H[Add(f, g)] = Add(H[f], H[g])
  /\ \A a \in Coeff, f \in Poly(n) : H[Scale(a, f)] = Scale(a, H[f])

\* Those that agree on the powers of X are equal.
LEMMA LinearEqual ==
  ASSUME NEW n \in Nat \ {0}, NEW m, NEW H \in [Poly(n) -> Poly(m)], NEW G \in [Poly(n) -> Poly(m)],
         IsLinear(H, n), IsLinear(G, n),
         \A i \in 0..(n - 1) : H[Rot(One(n), n, i)] = G[Rot(One(n), n, i)],
         NEW f \in Poly(n)
  PROVE  H[f] = G[f]
  <1>0. n \in 0..n /\ 0 \in 0..n /\ n \in Nat
    OBVIOUS
  <1>1. One(n) \in Poly(n) /\ Mul(f, One(n), n) = f
    BY MulOne
  <1>2. PICK B \in [0..n -> Poly(n)] : MulSteps(B, f, One(n), n) /\ Mul(f, One(n), n) = B[n]
    BY <1>1, MulUnfolds
  <1>3. \A i \in 0..n : B[i] \in Poly(n)
    OBVIOUS
  <1> DEFINE u == [i \in 0..n |-> H[B[i]]]
             v == [i \in 0..n |-> G[B[i]]]
  <1>4. \A i \in 0..n : u[i] = H[B[i]] /\ v[i] = G[B[i]]
    BY Zenon
  <1> HIDE DEF u, v
  <1>5. u[0] = v[0]
    <2>1. B[0] = Zero(n)
      BY <1>2 DEF MulSteps
    <2>2. Zero(n) = Scale(0, One(n)) /\ 0 \in Coeff
      BY <1>1, PolyScales, CoeffClosed
    <2>3. One(n) = Rot(One(n), n, 0)
      BY <1>1, RotSteps
    <2>4. H[One(n)] = G[One(n)]
      <3>1. 0 \in 0..(n - 1)
        OBVIOUS
      <3>2. QED BY <2>3, <3>1
    <2>5. H[Scale(0, One(n))] = Scale(0, H[One(n)]) /\ G[Scale(0, One(n))] = Scale(0, G[One(n)])
      BY <1>1, <2>2 DEF IsLinear
    <2>6. QED BY <1>0, <1>4, <2>1, <2>2, <2>4, <2>5
  <1>6. ASSUME NEW l \in 1..n, u[l - 1] = v[l - 1] PROVE u[l] = v[l]
    <2> DEFINE p == B[l - 1]
               r == Rot(One(n), n, l - 1)
               a == f[l - 1]
    <2>1. l - 1 \in 0..n /\ l \in 0..n /\ l - 1 \in 0..(n - 1)
      OBVIOUS
    <2>2. B[l] = Add(p, Scale(a, r))
      BY <1>2 DEF MulSteps
    <2>3. p \in Poly(n) /\ r \in Poly(n) /\ a \in Coeff /\ Scale(a, r) \in Poly(n)
      BY <1>1, <1>3, <2>1, TermFacts
    <2>4. H[r] = G[r] /\ H[p] = G[p]
      BY <1>4, <1>6, <2>1
    <2> HIDE DEF p, r, a
    <2>5. H[Add(p, Scale(a, r))] = Add(H[p], H[Scale(a, r)]) /\ G[Add(p, Scale(a, r))] = Add(G[p], G[Scale(a, r)])
      BY <2>3 DEF IsLinear
    <2>6. H[Scale(a, r)] = Scale(a, H[r]) /\ G[Scale(a, r)] = Scale(a, G[r])
      BY <2>3 DEF IsLinear
    <2>7. QED BY <1>4, <2>1, <2>2, <2>4, <2>5, <2>6
  <1>7. \A l \in 0..n : u[l] = v[l]
    <2>1. \A l \in 1..n : u[l - 1] = v[l - 1] => u[l] = v[l]
      BY <1>6
    <2>2. n \in Nat
      OBVIOUS
    <2>3. \A y, z : y[0] = z[0] /\ (\A l \in 1..n : y[l - 1] = z[l - 1] => y[l] = z[l])
                   => \A l \in 0..n : y[l] = z[l]
      BY <2>2, AgreeAll
    <2>4. QED BY <1>5, <2>1, <2>3, Zenon
  <1>8. QED BY <1>0, <1>1, <1>2, <1>4, <1>7

-----------------------------------------------------------------------------
(***************************************************************************)
(* Embedding into twice the degree: a map of rings.                        *)
(***************************************************************************)

Iota(f, n, y) == EmbedAt(f, n, 2 * n, y)

\* The embedding coefficient by coefficient.
LEMMA IotaAt ==
  ASSUME NEW n \in Nat \ {0}, NEW f \in Poly(n), NEW y \in {0, 1}
  PROVE  /\ Iota(f, n, y) \in Poly(2 * n)
         /\ \A x \in 0..(2 * n - 1) : Iota(f, n, y)[x] = IF x % 2 = y THEN f[x \div 2] ELSE 0
         /\ \A x \in 0..(2 * n - 1) : x \div 2 \in 0..(n - 1)
  <1>1. 2 \in Nat \ {0} /\ y \in 0..(2 - 1) /\ 2 * n = 2 * n
    OBVIOUS
  <1>2. QED BY <1>1, EmbedIn DEF Iota

\* It preserves sums,
LEMMA IotaAdd ==
  ASSUME NEW n \in Nat \ {0}, NEW f \in Poly(n), NEW g \in Poly(n), NEW y \in {0, 1}
  PROVE  Iota(Add(f, g), n, y) = Add(Iota(f, n, y), Iota(g, n, y))
  <1>1. Add(f, g) \in Poly(n)
    BY AddClosed
  <1>2. Iota(f, n, y) \in Poly(2 * n) /\ Iota(g, n, y) \in Poly(2 * n) /\ Iota(Add(f, g), n, y) \in Poly(2 * n)
    BY <1>1, IotaAt
  <1>3. Add(Iota(f, n, y), Iota(g, n, y)) \in Poly(2 * n)
    BY <1>2, AddClosed
  <1>4. ASSUME NEW x \in 0..(2 * n - 1)
        PROVE  Iota(Add(f, g), n, y)[x] = Add(Iota(f, n, y), Iota(g, n, y))[x]
    <2>1. x \div 2 \in 0..(n - 1)
      BY IotaAt
    <2>2. /\ Iota(f, n, y)[x] = IF x % 2 = y THEN f[x \div 2] ELSE 0
          /\ Iota(g, n, y)[x] = IF x % 2 = y THEN g[x \div 2] ELSE 0
          /\ Iota(Add(f, g), n, y)[x] = IF x % 2 = y THEN Add(f, g)[x \div 2] ELSE 0
      BY <1>1, IotaAt, SMTT(30)
    <2>3. Add(f, g)[x \div 2] = CAdd(f[x \div 2], g[x \div 2])
      BY <2>1, SumAt
    <2>4. Add(Iota(f, n, y), Iota(g, n, y))[x] = CAdd(Iota(f, n, y)[x], Iota(g, n, y)[x])
      BY <1>2, SumAt
    <2>5. CAdd(0, 0) = 0
      BY CoeffClosed, CoeffSums
    <2>6. QED BY <2>2, <2>3, <2>4, <2>5
  <1>5. QED BY <1>2, <1>3, <1>4, PolyEqual

\* multiples,
LEMMA IotaScale ==
  ASSUME NEW n \in Nat \ {0}, NEW f \in Poly(n), NEW a \in Coeff, NEW y \in {0, 1}
  PROVE  Iota(Scale(a, f), n, y) = Scale(a, Iota(f, n, y))
  <1>1. Scale(a, f) \in Poly(n)
    BY PolyAt
  <1>2. Iota(f, n, y) \in Poly(2 * n) /\ Iota(Scale(a, f), n, y) \in Poly(2 * n)
    BY <1>1, IotaAt
  <1>3. Scale(a, Iota(f, n, y)) \in Poly(2 * n)
    BY <1>2, PolyAt
  <1>4. ASSUME NEW x \in 0..(2 * n - 1)
        PROVE  Iota(Scale(a, f), n, y)[x] = Scale(a, Iota(f, n, y))[x]
    <2>1. x \div 2 \in 0..(n - 1)
      BY IotaAt
    <2>2. /\ Iota(f, n, y)[x] = IF x % 2 = y THEN f[x \div 2] ELSE 0
          /\ Iota(Scale(a, f), n, y)[x] = IF x % 2 = y THEN Scale(a, f)[x \div 2] ELSE 0
      BY <1>1, IotaAt
    <2>3. Scale(a, f)[x \div 2] = CMul(a, f[x \div 2])
      BY <2>1, ScaleAt
    <2>4. Scale(a, Iota(f, n, y))[x] = CMul(a, Iota(f, n, y)[x])
      BY <1>2, ScaleAt
    <2>5. CMul(a, 0) = 0
      <3>1. 0 \in Coeff
        BY CoeffClosed
      <3>2. CMul(a, 0) = CMul(0, a) /\ CMul(0, a) = 0
        BY <3>1, CoeffProducts
      <3>3. QED BY <3>2
    <2>6. QED BY <2>2, <2>3, <2>4, <2>5
  <1>5. QED BY <1>2, <1>3, <1>4, PolyEqual

\* zero,
LEMMA IotaZero ==
  ASSUME NEW n \in Nat \ {0}, NEW y \in {0, 1}
  PROVE  Iota(Zero(n), n, y) = Zero(2 * n)
  <1>1. One(n) \in Poly(n)
    <2>1. \A x \in 0..(n - 1) : (IF x = 0 THEN COne ELSE 0) \in Coeff
      BY CoeffClosed
    <2>2. QED BY <2>1, Zenon DEF One, Poly
  <1>2. 0 \in Coeff /\ Iota(One(n), n, y) \in Poly(2 * n)
    BY <1>1, CoeffClosed, IotaAt
  <1>3. Zero(n) = Scale(0, One(n)) /\ Zero(2 * n) = Scale(0, Iota(One(n), n, y))
    BY <1>1, <1>2, PolyScales
  <1>4. Iota(Scale(0, One(n)), n, y) = Scale(0, Iota(One(n), n, y))
    BY <1>1, <1>2, IotaScale
  <1>5. QED BY <1>3, <1>4

\* differences,
LEMMA IotaSub ==
  ASSUME NEW n \in Nat \ {0}, NEW f \in Poly(n), NEW g \in Poly(n), NEW y \in {0, 1}
  PROVE  Iota(Sub(f, g), n, y) = Sub(Iota(f, n, y), Iota(g, n, y))
  <1> DEFINE u == Sub(f, g)
  <1>1. u \in Poly(n) /\ Add(u, g) = f
    BY PolyCancel
  <1> HIDE DEF u
  <1>2. Iota(f, n, y) = Add(Iota(u, n, y), Iota(g, n, y))
    BY <1>1, IotaAdd
  <1>3. Iota(u, n, y) \in Poly(2 * n) /\ Iota(g, n, y) \in Poly(2 * n) /\ Iota(f, n, y) \in Poly(2 * n)
    BY <1>1, IotaAt
  <1>4. Iota(u, n, y) = Sub(Iota(f, n, y), Iota(g, n, y))
    BY <1>2, <1>3, SubSolves
  <1>5. QED BY <1>4 DEF u

\* The odd slots are the even ones, moved by X.
LEMMA IotaShift ==
  ASSUME NEW n \in Nat \ {0}, NEW f \in Poly(n)
  PROVE  Iota(f, n, 1) = TimesX(Iota(f, n, 0), 2 * n)
  <1> DEFINE e == Iota(f, n, 0)
  <1>1. e \in Poly(2 * n) /\ Iota(f, n, 1) \in Poly(2 * n) /\ 2 * n \in Nat \ {0}
    BY IotaAt
  <1>2. TimesX(e, 2 * n) \in Poly(2 * n)
    BY <1>1, TimesXLinear
  <1>3. ASSUME NEW x \in 0..(2 * n - 1) PROVE Iota(f, n, 1)[x] = TimesX(e, 2 * n)[x]
    <2>1. Iota(f, n, 1)[x] = IF x % 2 = 1 THEN f[x \div 2] ELSE 0
      BY IotaAt
    <2>2. TimesX(e, 2 * n)[x] = IF x = 0 THEN CNeg(e[2 * n - 1]) ELSE e[x - 1]
      BY Zenon DEF TimesX
    <2>3. CASE x = 0
      <3>1. 2 * n - 1 \in 0..(2 * n - 1) /\ (2 * n - 1) % 2 # 0
        OBVIOUS
      <3>2. e[2 * n - 1] = 0
        BY <3>1, IotaAt
      <3>3. CNeg(0) = 0
        BY ModulusAssumption DEF CNeg
      <3>4. x % 2 # 1
        BY <2>3
      <3>5. QED BY <2>1, <2>2, <2>3, <3>2, <3>3, <3>4
    <2>4. CASE x # 0
      <3>1. x - 1 \in 0..(2 * n - 1) /\ ((x - 1) % 2 = 0 <=> x % 2 = 1) /\ (x % 2 = 1 => (x - 1) \div 2 = x \div 2)
        BY <2>4
      <3>2. e[x - 1] = IF (x - 1) % 2 = 0 THEN f[(x - 1) \div 2] ELSE 0
        BY <3>1, IotaAt
      <3>3. QED BY <2>1, <2>2, <2>4, <3>1, <3>2
    <2>5. QED BY <2>3, <2>4
  <1>4. QED BY <1>1, <1>2, <1>3, PolyEqual

\* one,
LEMMA IotaOne ==
  ASSUME NEW n \in Nat \ {0}
  PROVE  Iota(One(n), n, 0) = One(2 * n) /\ One(n) \in Poly(n) /\ One(2 * n) \in Poly(2 * n)
  <1>1. One(n) \in Poly(n) /\ One(2 * n) \in Poly(2 * n)
    <2>1. \A x \in Nat : (IF x = 0 THEN COne ELSE 0) \in Coeff
      BY CoeffClosed
    <2>2. (\A x \in 0..(n - 1) : x \in Nat) /\ \A x \in 0..(2 * n - 1) : x \in Nat
      OBVIOUS
    <2>3. QED BY <2>1, <2>2, Zenon DEF One, Poly
  <1>2. Iota(One(n), n, 0) \in Poly(2 * n)
    BY <1>1, IotaAt
  <1>3. ASSUME NEW x \in 0..(2 * n - 1) PROVE Iota(One(n), n, 0)[x] = One(2 * n)[x]
    <2>1. x \div 2 \in 0..(n - 1)
      BY IotaAt
    <2>2. Iota(One(n), n, 0)[x] = IF x % 2 = 0 THEN One(n)[x \div 2] ELSE 0
      BY <1>1, IotaAt
    <2>3. One(n)[x \div 2] = (IF x \div 2 = 0 THEN COne ELSE 0) /\ One(2 * n)[x] = IF x = 0 THEN COne ELSE 0
      BY <2>1, Zenon DEF One
    <2>4. x = 0 <=> x % 2 = 0 /\ x \div 2 = 0
      OBVIOUS
    <2>5. QED BY <2>2, <2>3, <2>4
  <1>4. QED BY <1>1, <1>2, <1>3, PolyEqual

\* turns a turn by i places into one by 2 * i,
LEMMA IotaRot ==
  ASSUME NEW n \in Nat \ {0}, NEW f \in Poly(n), NEW i \in 0..n
  PROVE  Iota(Rot(f, n, i), n, 0) = Rot(Iota(f, n, 0), 2 * n, 2 * i)
  <1> DEFINE e == Iota(f, n, 0)
  <1>1. e \in Poly(2 * n) /\ 2 * n \in Nat \ {0} /\ 2 * i \in 0..(2 * n) /\ Rot(f, n, i) \in Poly(n)
    BY IotaAt, RotSteps
  <1>2. Iota(Rot(f, n, i), n, 0) \in Poly(2 * n) /\ Rot(e, 2 * n, 2 * i) \in Poly(2 * n)
    BY <1>1, IotaAt, RotSteps
  <1>3. ASSUME NEW x \in 0..(2 * n - 1) PROVE Iota(Rot(f, n, i), n, 0)[x] = Rot(e, 2 * n, 2 * i)[x]
    <2>1. x \div 2 \in 0..(n - 1)
      BY IotaAt
    <2>2. Iota(Rot(f, n, i), n, 0)[x] = IF x % 2 = 0 THEN Rot(f, n, i)[x \div 2] ELSE 0
      BY <1>1, IotaAt
    <2>3. Rot(f, n, i)[x \div 2] = IF i <= x \div 2 THEN f[x \div 2 - i] ELSE CNeg(f[n + x \div 2 - i])
      BY <2>1, Zenon DEF Rot
    <2>4. Rot(e, 2 * n, 2 * i)[x] = IF 2 * i <= x THEN e[x - 2 * i] ELSE CNeg(e[2 * n + x - 2 * i])
      BY Zenon DEF Rot
    <2>5. CNeg(0) = 0
      BY ModulusAssumption DEF CNeg
    <2>6. CASE 2 * i <= x
      <3>1. /\ x - 2 * i \in 0..(2 * n - 1) /\ ((x - 2 * i) % 2 = 0 <=> x % 2 = 0)
            /\ i <= x \div 2 /\ (x - 2 * i) \div 2 = x \div 2 - i
        BY <2>6
      <3>2. e[x - 2 * i] = IF (x - 2 * i) % 2 = 0 THEN f[(x - 2 * i) \div 2] ELSE 0
        BY <3>1, IotaAt
      <3>3. QED BY <2>2, <2>3, <2>4, <2>6, <3>1, <3>2
    <2>7. CASE ~(2 * i <= x)
      <3>1. /\ 2 * n + x - 2 * i \in 0..(2 * n - 1) /\ ((2 * n + x - 2 * i) % 2 = 0 <=> x % 2 = 0)
            /\ ~(i <= x \div 2) /\ (2 * n + x - 2 * i) \div 2 = n + x \div 2 - i
        BY <2>7
      <3>2. e[2 * n + x - 2 * i] = IF (2 * n + x - 2 * i) % 2 = 0 THEN f[(2 * n + x - 2 * i) \div 2] ELSE 0
        BY <3>1, IotaAt
      <3>3. QED BY <2>2, <2>3, <2>4, <2>5, <2>7, <3>1, <3>2
    <2>8. QED BY <2>6, <2>7
  <1>4. QED BY <1>2, <1>3, PolyEqual

\* and preserves products.
LEMMA IotaMul ==
  ASSUME NEW n \in Nat \ {0}, NEW f \in Poly(n), NEW g \in Poly(n), NEW y \in {0, 1}
  PROVE  Iota(Mul(f, g, n), n, y) = Mul(Iota(f, n, y), Iota(g, n, 0), 2 * n)
  <1> DEFINE e == Iota(g, n, 0)
             H == [h \in Poly(n) |-> Iota(Mul(h, g, n), n, 0)]
             G == [h \in Poly(n) |-> Mul(Iota(h, n, 0), e, 2 * n)]
  <1>1. e \in Poly(2 * n) /\ 2 * n \in Nat \ {0} /\ 0 \in {0, 1}
    BY IotaAt
  <1>2. \A h \in Poly(n) : Mul(h, g, n) \in Poly(n) /\ Iota(h, n, 0) \in Poly(2 * n)
    BY MulClosed, IotaAt
  <1>3. \A h \in Poly(n) : /\ Iota(Mul(h, g, n), n, 0) \in Poly(2 * n)
                           /\ Mul(Iota(h, n, 0), e, 2 * n) \in Poly(2 * n)
    BY <1>1, <1>2, MulClosed, IotaAt
  <1>4. H \in [Poly(n) -> Poly(2 * n)] /\ G \in [Poly(n) -> Poly(2 * n)]
    BY <1>3, Zenon
  <1>5. \A h \in Poly(n) : H[h] = Iota(Mul(h, g, n), n, 0) /\ G[h] = Mul(Iota(h, n, 0), e, 2 * n)
    BY Zenon
  <1> HIDE DEF H, G, e
  <1>6. IsLinear(H, n)
    <2>1. ASSUME NEW h \in Poly(n), NEW k \in Poly(n) PROVE H[Add(h, k)] = Add(H[h], H[k])
      <3>1. Mul(Add(h, k), g, n) = Add(Mul(h, g, n), Mul(k, g, n))
        BY MulSumLeft
      <3>2. Iota(Add(Mul(h, g, n), Mul(k, g, n)), n, 0) = Add(Iota(Mul(h, g, n), n, 0), Iota(Mul(k, g, n), n, 0))
        BY <1>2, IotaAdd
      <3>3. Add(h, k) \in Poly(n)
        BY AddClosed
      <3>4. QED BY <1>5, <3>1, <3>2, <3>3
    <2>2. ASSUME NEW a \in Coeff, NEW h \in Poly(n) PROVE H[Scale(a, h)] = Scale(a, H[h])
      <3>1. Mul(Scale(a, h), g, n) = Scale(a, Mul(h, g, n))
        BY MulLinear
      <3>2. Iota(Scale(a, Mul(h, g, n)), n, 0) = Scale(a, Iota(Mul(h, g, n), n, 0))
        BY <1>2, IotaScale
      <3>3. Scale(a, h) \in Poly(n)
        BY PolyAt
      <3>4. QED BY <1>5, <3>1, <3>2, <3>3
    <2>3. QED BY <2>1, <2>2 DEF IsLinear
  <1>7. IsLinear(G, n)
    <2>1. ASSUME NEW h \in Poly(n), NEW k \in Poly(n) PROVE G[Add(h, k)] = Add(G[h], G[k])
      <3>1. Iota(Add(h, k), n, 0) = Add(Iota(h, n, 0), Iota(k, n, 0))
        BY IotaAdd
      <3>2. Mul(Add(Iota(h, n, 0), Iota(k, n, 0)), e, 2 * n) = Add(Mul(Iota(h, n, 0), e, 2 * n), Mul(Iota(k, n, 0), e, 2 * n))
        BY <1>1, <1>2, MulSumLeft
      <3>3. Add(h, k) \in Poly(n)
        BY AddClosed
      <3>4. QED BY <1>5, <3>1, <3>2, <3>3
    <2>2. ASSUME NEW a \in Coeff, NEW h \in Poly(n) PROVE G[Scale(a, h)] = Scale(a, G[h])
      <3>1. Iota(Scale(a, h), n, 0) = Scale(a, Iota(h, n, 0))
        BY IotaScale
      <3>2. Mul(Scale(a, Iota(h, n, 0)), e, 2 * n) = Scale(a, Mul(Iota(h, n, 0), e, 2 * n))
        BY <1>1, <1>2, MulLinear, ZenonT(60)
      <3>3. Scale(a, h) \in Poly(n)
        BY PolyAt
      <3>4. QED BY <1>5, <3>1, <3>2, <3>3
    <2>3. QED BY <2>1, <2>2 DEF IsLinear
  <1>8. One(n) \in Poly(n) /\ One(2 * n) \in Poly(2 * n) /\ Iota(One(n), n, 0) = One(2 * n)
    BY IotaOne
  <1>9. ASSUME NEW i \in 0..(n - 1) PROVE H[Rot(One(n), n, i)] = G[Rot(One(n), n, i)]
    <2>1. i \in 0..n /\ 2 * i \in 0..(2 * n)
      OBVIOUS
    <2>2. Rot(One(n), n, i) \in Poly(n)
      BY <1>8, <2>1, RotSteps
    <2>3. Mul(Rot(One(n), n, i), g, n) = Rot(Mul(One(n), g, n), n, i)
      BY <1>8, <2>1, MulRot
    <2>4. Mul(One(n), g, n) = g
      <3>1. Mul(One(n), g, n) = Mul(g, One(n), n)
        BY <1>8, MulComm
      <3>2. QED BY <3>1, MulOne
    <2>5. Iota(Rot(g, n, i), n, 0) = Rot(e, 2 * n, 2 * i)
      BY <2>1, IotaRot DEF e
    <2>6. Iota(Rot(One(n), n, i), n, 0) = Rot(One(2 * n), 2 * n, 2 * i)
      BY <1>8, <2>1, IotaRot
    <2>7. Mul(Rot(One(2 * n), 2 * n, 2 * i), e, 2 * n) = Rot(Mul(One(2 * n), e, 2 * n), 2 * n, 2 * i)
      BY <1>1, <1>8, <2>1, MulRot
    <2>8. Mul(One(2 * n), e, 2 * n) = e
      <3>1. Mul(One(2 * n), e, 2 * n) = Mul(e, One(2 * n), 2 * n)
        BY <1>1, <1>8, MulComm
      <3>2. QED BY <1>1, <3>1, MulOne
    <2>9. QED BY <1>5, <2>2, <2>3, <2>4, <2>5, <2>6, <2>7, <2>8
  <1>10. H[f] = G[f]
    BY <1>4, <1>6, <1>7, <1>9, LinearEqual
  <1>11. Iota(Mul(f, g, n), n, 0) = Mul(Iota(f, n, 0), e, 2 * n)
    BY <1>5, <1>10
  <1>12. CASE y = 1
    <2>1. Iota(Mul(f, g, n), n, 1) = TimesX(Iota(Mul(f, g, n), n, 0), 2 * n)
      BY <1>2, IotaShift
    <2>2. Iota(f, n, 1) = TimesX(Iota(f, n, 0), 2 * n)
      BY IotaShift
    <2>3. Mul(TimesX(Iota(f, n, 0), 2 * n), e, 2 * n) = TimesX(Mul(Iota(f, n, 0), e, 2 * n), 2 * n)
      BY <1>1, <1>2, MulTimesX
    <2>4. QED BY <1>11, <1>12, <2>1, <2>2, <2>3 DEF e
  <1>13. CASE y = 0
    BY <1>11, <1>13 DEF e
  <1>14. QED BY <1>12, <1>13

\* Halving first.
LEMMA DivTwice ==
  ASSUME NEW x \in Nat, NEW sh \in Nat \ {0}
  PROVE  x \div (2 * sh) = (x \div 2) \div sh
  <1> DEFINE h == x \div 2
             q == h \div sh
             t == h % sh
  <1>1. h \in Nat /\ x % 2 \in 0..1 /\ x = 2 * h + (x % 2)
    BY DivMod
  <1>2. q \in Nat /\ t \in 0..(sh - 1) /\ h = sh * q + t
    <2> HIDE DEF h
    <2>1. QED BY <1>1, DivMod
  <1> HIDE DEF q, t, h
  <1>3. 2 * sh \in Nat \ {0} /\ 2 * t + (x % 2) \in 0..(2 * sh - 1)
    BY <1>1, <1>2
  <1>4. x = (2 * sh) * q + (2 * t + (x % 2))
    <2>1. \A c, d, f \in Nat : 2 * (c * d + f) = (2 * c) * d + 2 * f /\ (2 * c) * d \in Nat
      BY Z3
    <2>2. 2 * h = (2 * sh) * q + 2 * t /\ (2 * sh) * q \in Nat
      BY <1>2, <2>1
    <2>3. QED BY <1>1, <1>2, <2>2
  <1>5. x \div (2 * sh) = q
    BY <1>2, <1>3, <1>4, DivModUnique
  <1>6. QED BY <1>5 DEF q, h

-----------------------------------------------------------------------------
(***************************************************************************)
(* Slots of rotations and of products.                                     *)
(***************************************************************************)

\* mul_x_pow by one place.
LEMMA MulXPowOne ==
  ASSUME NEW n \in Nat \ {0}, NEW f \in Poly(n)
  PROVE  MulXPow(f, n, 1) = TimesX(f, n)
  <1> DEFINE shift == 1 % n
             e == 1 % (2 * n)
             Source(x) == (x + n - shift) % n
             moved == [x \in 0..(n - 1) |-> f[Source(x)]]
  <1>1. MulXPow(f, n, 1) = [x \in 0..(n - 1) |->
          IF (Source(x) + shift >= n) # (e >= n) THEN Neg(moved)[x] ELSE moved[x]]
    BY Zenon DEF MulXPow
  <1>2. \A x \in 0..(n - 1) : Source(x) = IF x = 0 THEN n - 1 ELSE x - 1
    <2>1. CASE n = 1
      BY <2>1
    <2>2. CASE n # 1
      <3>1. shift = 1
        <4>1. 1 \in 0..(n - 1) /\ 1 = n * 0 + 1
          BY <2>2
        <4>2. \A v \in Nat : \A r \in 0..(n - 1) : v = n * 0 + r => v % n = r
          <5>1. 0 \in Nat
            OBVIOUS
          <5>2. \A v \in Nat, u \in Nat : \A r \in 0..(n - 1) : v = n * u + r => v % n = r
            BY DivModUnique
          <5>3. QED BY <5>1, <5>2, Zenon
        <4>3. QED BY <4>1, <4>2
      <3> HIDE DEF shift
      <3>2. \A v \in Nat, u \in Nat : \A r \in 0..(n - 1) : v = n * u + r => v % n = r
        BY DivModUnique
      <3>3. ASSUME NEW x \in 0..(n - 1), x = 0 PROVE Source(x) = n - 1
        <4>1. n - 1 \in 0..(n - 1) /\ n - 1 = n * 0 + (n - 1) /\ n - 1 \in Nat /\ x + n - shift = n - 1
          BY <3>1, <3>3
        <4>2. (n - 1) % n = n - 1
          BY <3>2, <4>1
        <4>3. QED BY <4>1, <4>2
      <3>4. ASSUME NEW x \in 0..(n - 1), x # 0 PROVE Source(x) = x - 1
        <4>1. x - 1 \in 0..(n - 1) /\ x + n - shift = n * 1 + (x - 1) /\ x + n - shift \in Nat
          BY <3>1, <3>4
        <4>2. 1 \in Nat
          OBVIOUS
        <4>3. \A v \in Nat : \A r \in 0..(n - 1) : v = n * 1 + r => v % n = r
          BY <3>2, <4>2, Zenon
        <4>4. QED BY <4>1, <4>3
      <3>5. QED BY <3>3, <3>4
    <2>3. QED BY <2>1, <2>2
  <1>3. (shift = 1 /\ e = 1 /\ n # 1) \/ (shift = 0 /\ e = 1 /\ n = 1)
    <2>1. CASE n = 1
      <3>1. 1 % 1 = 0 /\ 1 % (2 * 1) = 1
        OBVIOUS
      <3>2. QED BY <2>1, <3>1
    <2>2. CASE n # 1
      <3>1. \A m \in Nat \ {0, 1} : 1 % m = 1
        <4>1. ASSUME NEW m \in Nat \ {0, 1} PROVE 1 % m = 1
          <5>1. 1 \in 0..(m - 1) /\ 1 = m * 0 + 1 /\ m \in Nat \ {0} /\ 1 \in Nat /\ 0 \in Nat
            OBVIOUS
          <5>2. \A v \in Nat, u \in Nat : \A r \in 0..(m - 1) : v = m * u + r => v % m = r
            BY <5>1, DivModUnique
          <5>3. QED BY <5>1, <5>2, Zenon
        <4>2. QED BY <4>1
      <3>2. n \in Nat \ {0, 1} /\ 2 * n \in Nat \ {0, 1} /\ 1 < n
        BY <2>2
      <3>3. 1 % n = 1 /\ 1 % (2 * n) = 1
        BY <3>1, <3>2
      <3>4. QED BY <2>2, <3>2, <3>3
    <2>3. QED BY <2>1, <2>2
  <1> HIDE DEF shift, e, Source
  <1>4. ASSUME NEW x \in 0..(n - 1)
        PROVE  (IF (Source(x) + shift >= n) # (e >= n) THEN Neg(moved)[x] ELSE moved[x])
                 = IF x = 0 THEN CNeg(f[n - 1]) ELSE f[x - 1]
    <2>1. moved[x] = f[Source(x)]
      OBVIOUS
    <2>2. Neg(moved)[x] = CNeg(f[Source(x)])
      <3>1. DOMAIN moved = 0..(n - 1)
        OBVIOUS
      <3> HIDE DEF moved
      <3>2. Neg(moved)[x] = (P - moved[x]) % P
        BY <3>1, Zenon DEF Neg
      <3>3. QED BY <2>1, <3>2, Zenon DEF CNeg
    <2>3. ((Source(x) + shift >= n) # (e >= n)) <=> x = 0
      BY <1>2, <1>3
    <2> HIDE DEF moved
    <2>4. QED BY <1>2, <2>1, <2>2, <2>3
  <1> HIDE DEF moved
  <1>5. QED BY <1>1, <1>4, Zenon DEF TimesX

\* Positions that are apart by a multiple of d.
LEMMA SameSlot ==
  ASSUME NEW d \in Nat \ {0}, NEW a \in Nat, NEW b \in Nat, NEW u \in 0..(d - 1), NEW v \in 0..(d - 1),
         d * a + u = d * b + v
  PROVE  a = b /\ u = v
  <1>1. d * a \in Nat /\ d * a + u \in Nat
    <2>1. d * a \in Nat
      BY NatProduct
    <2>2. QED BY <2>1
  <1> DEFINE x == d * a + u
  <1>2. x \in Nat /\ x = d * a + u /\ x = d * b + v
    BY <1>1
  <1> HIDE DEF x
  <1>3. x \div d = a /\ x % d = u /\ x \div d = b /\ x % d = v
    BY <1>2, DivModUnique
  <1>4. QED BY <1>3

\* Position i as d * c - z.
LEMMA SlotBelow ==
  ASSUME NEW d \in Nat \ {0}, NEW n \in Nat \ {0}, NEW i \in 0..(d * n - 1)
  PROVE  \E c \in 0..n, z \in 0..(d - 1) : i + z = d * c
  <1>1. d * n \in Nat /\ i \in Nat
    <2>1. d * n \in Nat
      BY NatProduct
    <2>2. QED BY <2>1
  <1> DEFINE q == i \div d
             y == i % d
  <1>2. q \in Nat /\ y \in 0..(d - 1) /\ i = d * q + y
    BY <1>1, DivMod
  <1> HIDE DEF q, y
  <1>3. q < n
    <2>1. ASSUME n <= q PROVE FALSE
      <3>1. d * n <= d * q
        BY <1>2, <2>1, Z3
      <3>2. d * q \in Nat
        BY <1>2, NatProduct
      <3>3. QED BY <1>1, <1>2, <3>1, <3>2
    <2>2. QED BY <1>2, <2>1
  <1>4. CASE y = 0
    <2>1. q \in 0..n /\ 0 \in 0..(d - 1) /\ i + 0 = d * q
      <3>1. d * q \in Nat
        BY <1>2, NatProduct
      <3>2. QED BY <1>2, <1>3, <1>4, <3>1
    <2>2. QED BY <2>1
  <1>5. CASE y # 0
    <2>1. q + 1 \in 0..n /\ d - y \in 0..(d - 1) /\ i + (d - y) = d * (q + 1)
      <3>1. d * q \in Nat /\ d * (q + 1) = d * q + d
        BY <1>2, NatProduct, Z3
      <3>2. QED BY <1>2, <1>3, <1>5, <3>1
    <2>2. QED BY <2>1
  <1>6. QED BY <1>4, <1>5

\* A multiple taken out of a product.
LEMMA MulScaleLeft ==
  ASSUME NEW n \in Nat \ {0}, NEW f \in Poly(n), NEW g \in Poly(n), NEW a \in Coeff
  PROVE  Mul(Scale(a, f), g, n) = Scale(a, Mul(f, g, n)) /\ Mul(f, g, n) \in Poly(n)
  BY MulLinear

\* Degree large is d times degree n.
Tower(large, d, n) == d \in Nat \ {0} /\ n \in Nat \ {0} /\ large = d * n

\* All three are positive.
LEMMA TowerIs ==
  ASSUME NEW large, NEW d, NEW n, Tower(large, d, n)
  PROVE  /\ n \in Nat \ {0} /\ d \in Nat \ {0} /\ large = d * n
         /\ large \in Nat \ {0}
  <1>1. \A x, y \in Nat \ {0} : x * y \in Nat \ {0}
    BY Z3
  <1>2. QED BY <1>1 DEF Tower

\* Slot k of a polynomial.
LEMMA SlotIn ==
  ASSUME NEW large, NEW d, NEW n, Tower(large, d, n), NEW f \in Poly(large), NEW k \in 0..(d - 1)
  PROVE  /\ ProjectAt(f, large, n, k) \in Poly(n)
         /\ \A i \in 0..(n - 1) : ProjectAt(f, large, n, k)[i] = f[d * i + k]
  <1>1. n \in Nat \ {0} /\ d \in Nat \ {0} /\ large = d * n
    BY TowerIs
  <1>2. QED BY <1>1, ProjectIn, SMTT(30)

\* The products of masks with the slots of a key, which are summed.
DotTerms(masks, q, large, d, n) == [k \in 0..(d - 1) |-> Mul(masks[k], ProjectAt(q, large, n, k), n)]

\* They are polynomials.
LEMMA DotTermsIn ==
  ASSUME NEW large, NEW d, NEW n, Tower(large, d, n), NEW q \in Poly(large), NEW masks \in Terms(d, n)
  PROVE  /\ DotTerms(masks, q, large, d, n) \in Terms(d, n)
         /\ \A k \in 0..(d - 1) : DotTerms(masks, q, large, d, n)[k] = Mul(masks[k], ProjectAt(q, large, n, k), n)
  <1>1. n \in Nat \ {0}
    BY TowerIs
  <1>2. \A k \in 0..(d - 1) : masks[k] \in Poly(n)
    BY DEF Terms
  <1>3. \A k \in 0..(d - 1) : Mul(masks[k], ProjectAt(q, large, n, k), n) \in Poly(n)
    BY <1>1, <1>2, SlotIn, MulClosed
  <1>4. QED BY <1>3, Zenon DEF DotTerms, Terms

\* Projection preserves sums, differences and multiples.
LEMMA SlotLinear ==
  ASSUME NEW large, NEW d, NEW n, Tower(large, d, n), NEW f \in Poly(large), NEW k \in 0..(d - 1)
  PROVE  /\ ProjectAt(f, large, n, k) \in Poly(n)
         /\ \A g \in Poly(large) : /\ ProjectAt(Add(f, g), large, n, k) = Add(ProjectAt(f, large, n, k), ProjectAt(g, large, n, k))
                               /\ ProjectAt(Sub(f, g), large, n, k) = Sub(ProjectAt(f, large, n, k), ProjectAt(g, large, n, k))
         /\ \A a \in Coeff : ProjectAt(Scale(a, f), large, n, k) = Scale(a, ProjectAt(f, large, n, k))
  <1> DEFINE Pr(g) == ProjectAt(g, large, n, k)
  <1>1. n \in Nat \ {0} /\ d \in Nat \ {0} /\ large = d * n
    BY TowerIs
  <1>2. \A g \in Poly(large) : Pr(g) \in Poly(n) /\ \A i \in 0..(n - 1) : Pr(g)[i] = g[d * i + k]
    <2> SUFFICES ASSUME NEW g \in Poly(large)
                 PROVE  Pr(g) \in Poly(n) /\ \A i \in 0..(n - 1) : Pr(g)[i] = g[d * i + k]
      OBVIOUS
    <2>1. ProjectAt(g, large, n, k) \in Poly(n)
      BY SlotIn
    <2>2. \A i \in 0..(n - 1) : ProjectAt(g, large, n, k)[i] = g[d * i + k]
      BY SlotIn
    <2>3. QED BY <2>1, <2>2
  <1>3. \A i \in 0..(n - 1) : d * i + k \in 0..(large - 1)
    BY <1>1, SlotWithin
  <1> HIDE DEF Pr
  <1>4. ASSUME NEW u \in Poly(large), NEW v \in Poly(large) PROVE Pr(Add(u, v)) = Add(Pr(u), Pr(v))
    <2>1. Add(u, v) \in Poly(large) /\ Pr(u) \in Poly(n) /\ Pr(v) \in Poly(n)
      BY <1>2, AddClosed
    <2>2. Pr(Add(u, v)) \in Poly(n) /\ Add(Pr(u), Pr(v)) \in Poly(n)
      BY <1>2, <2>1, AddClosed
    <2>3. ASSUME NEW i \in 0..(n - 1) PROVE Pr(Add(u, v))[i] = Add(Pr(u), Pr(v))[i]
      <3> DEFINE x == d * i + k
      <3>1. x \in 0..(large - 1)
        BY <1>3
      <3>2. Pr(Add(u, v))[i] = Add(u, v)[x] /\ Pr(u)[i] = u[x] /\ Pr(v)[i] = v[x]
        BY <1>2, <2>1
      <3>3. Add(u, v)[x] = CAdd(u[x], v[x])
        BY <3>1, SumAt
      <3>4. Add(Pr(u), Pr(v))[i] = CAdd(Pr(u)[i], Pr(v)[i])
        BY <2>1, SumAt
      <3>5. QED BY <3>2, <3>3, <3>4
    <2>4. QED BY <2>2, <2>3, PolyEqual
  <1>5. ASSUME NEW g \in Poly(large) PROVE Pr(Sub(f, g)) = Sub(Pr(f), Pr(g))
    <2> DEFINE u == Sub(f, g)
    <2>1. u \in Poly(large) /\ Add(u, g) = f
      BY PolyCancel
    <2> HIDE DEF u
    <2>2. Pr(f) = Add(Pr(u), Pr(g))
      BY <1>4, <2>1
    <2>3. Pr(u) \in Poly(n) /\ Pr(g) \in Poly(n) /\ Pr(f) \in Poly(n)
      BY <1>2, <2>1
    <2>4. Pr(u) = Sub(Pr(f), Pr(g))
      BY <2>2, <2>3, SubSolves
    <2>5. QED BY <2>4 DEF u
  <1>6. ASSUME NEW a \in Coeff PROVE Pr(Scale(a, f)) = Scale(a, Pr(f))
    <2>1. Scale(a, f) \in Poly(large) /\ Pr(f) \in Poly(n)
      BY <1>2, PolyAt
    <2>2. Pr(Scale(a, f)) \in Poly(n) /\ Scale(a, Pr(f)) \in Poly(n)
      BY <1>2, <2>1, PolyAt
    <2>3. ASSUME NEW i \in 0..(n - 1) PROVE Pr(Scale(a, f))[i] = Scale(a, Pr(f))[i]
      <3> DEFINE x == d * i + k
      <3>1. x \in 0..(large - 1)
        BY <1>3
      <3>2. Pr(Scale(a, f))[i] = Scale(a, f)[x] /\ Pr(f)[i] = f[x]
        BY <1>2, <2>1
      <3>3. Scale(a, f)[x] = CMul(a, f[x])
        BY <3>1, ScaleAt
      <3>4. Scale(a, Pr(f))[i] = CMul(a, Pr(f)[i])
        BY <2>1, ScaleAt
      <3>5. QED BY <3>2, <3>3, <3>4
    <2>4. QED BY <2>2, <2>3, PolyEqual
  <1>7. Pr(f) \in Poly(n)
    BY <1>2
  <1>8. QED BY <1>4, <1>5, <1>6, <1>7 DEF Pr

\* A power of X times f, projected.
LEMMA SlotOfRot ==
  ASSUME NEW large, NEW d, NEW n, Tower(large, d, n), NEW f \in Poly(large),
         NEW c \in 0..n, NEW z \in 0..(d - 1),
         NEW i \in 0..(large - 1), i + z = d * c
  PROVE  ProjectAt(Rot(f, large, i), large, n, 0) = Rot(ProjectAt(f, large, n, z), n, c)
  <1>1. n \in Nat \ {0} /\ d \in Nat \ {0} /\ large = d * n /\ large \in Nat \ {0}
    BY TowerIs
  <1>2. 0 \in 0..(d - 1) /\ i \in 0..large
    BY <1>1
  <1>3. Rot(f, large, i) \in Poly(large)
    BY <1>1, <1>2, RotSteps
  <1>4. ProjectAt(Rot(f, large, i), large, n, 0) \in Poly(n) /\ ProjectAt(f, large, n, z) \in Poly(n)
    BY <1>2, <1>3, SlotIn
  <1>5. Rot(ProjectAt(f, large, n, z), n, c) \in Poly(n)
    BY <1>1, <1>4, RotSteps
  <1> DEFINE R == d
             p == ProjectAt(f, large, n, z)
             h == Rot(f, large, i)
  <1>6. /\ \A x \in 0..(n - 1) : ProjectAt(h, large, n, 0)[x] = h[R * x + 0]
        /\ \A x \in 0..(n - 1) : p[x] = f[R * x + z]
    BY <1>2, <1>3, SlotIn
  <1>7. \A x \in 0..(n - 1) : R * x + 0 \in 0..(large - 1)
    BY <1>1, <1>2, SlotWithin
  <1>8. \A y \in 0..(large - 1) : h[y] = IF i <= y THEN f[y - i] ELSE CNeg(f[large + y - i])
    BY Zenon DEF Rot
  <1>9. \A x \in 0..(n - 1) : Rot(p, n, c)[x] = IF c <= x THEN p[x - c] ELSE CNeg(p[n + x - c])
    BY Zenon DEF Rot
  <1>10. R \in Nat \ {0} /\ z \in 0..(R - 1) /\ i + z = R * c /\ large = R * n /\ i \in Nat
    BY <1>1
  <1> HIDE DEF R, p, h
  <1>11. ASSUME NEW x \in 0..(n - 1) PROVE ProjectAt(h, large, n, 0)[x] = Rot(p, n, c)[x]
    <2> DEFINE y == R * x + 0
    <2>1. y \in 0..(large - 1) /\ y \in Nat /\ x \in Nat /\ y = R * x
      <3>1. R * x \in Nat
        BY <1>10, NatProduct
      <3>2. y \in 0..(large - 1)
        BY <1>7
      <3>3. QED BY <3>1, <3>2
    <2>2. ProjectAt(h, large, n, 0)[x] = h[y] /\ h[y] = IF i <= y THEN f[y - i] ELSE CNeg(f[large + y - i])
      BY <1>6, <1>8, <2>1
    <2> HIDE DEF y
    <2>3. CASE c <= x
      <3>1. R * x = R * c + R * (x - c) /\ R * c \in Nat /\ R * (x - c) \in Nat
        <4>1. \A u, v, w \in Nat : w <= v => u * v = u * w + u * (v - w)
          BY Z3
        <4>2. x - c \in Nat
          BY <2>1, <2>3
        <4>3. QED BY <1>10, <2>1, <2>3, <4>1, <4>2, NatProduct
      <3> DEFINE rc == R * c
                 rx == R * (x - c)
      <3> HIDE DEF rc, rx
      <3>2. y = rc + rx /\ rc \in Nat /\ rx \in Nat /\ i + z = rc
        BY <1>10, <2>1, <3>1 DEF rc, rx
      <3>3. i <= y /\ y - i = rx + z
        BY <1>10, <2>1, <3>2
      <3>4. h[y] = f[R * (x - c) + z]
        <4>1. h[y] = f[y - i]
          BY <2>2, <3>3
        <4>2. y - i = R * (x - c) + z
          BY <3>3 DEF rx
        <4>3. QED BY <4>1, <4>2, Zenon
      <3>5. x - c \in 0..(n - 1)
        BY <1>1, <2>3
      <3>6. QED BY <1>6, <1>9, <2>2, <2>3, <3>4, <3>5
    <2>4. CASE ~(c <= x)
      <3>1. /\ R * n + R * x = R * c + R * (n + x - c) /\ R * c \in Nat /\ R * (n + x - c) \in Nat
            /\ R * x + R <= R * c /\ R * x \in Nat
        <4>1. \A u, v, w, t \in Nat : w <= v + t => u * v + u * t = u * w + u * (v + t - w)
          BY Z3
        <4>2. n + x - c \in Nat /\ c \in Nat /\ c <= n + x /\ n \in Nat /\ x + 1 <= c
          BY <1>1, <2>1, <2>4
        <4>3. \A u, v, w \in Nat : v + 1 <= w => u * v + u <= u * w
          <5>1. \A u, v \in Nat : u * (v + 1) = u * v + u
            BY Z3
          <5>2. \A u, v, w \in Nat : v + 1 <= w => u * (v + 1) <= u * w
            BY Z3
          <5>3. QED BY <5>1, <5>2
        <4>4. QED BY <1>10, <2>1, <4>1, <4>2, <4>3, NatProduct
      <3> DEFINE rc == R * c
                 rx == R * (n + x - c)
                 rn == R * n
                 ry == R * x
      <3> HIDE DEF rc, rx, rn, ry
      <3>2. y = ry /\ large = rn /\ rn + ry = rc + rx /\ rc \in Nat /\ rx \in Nat /\ i + z = rc /\ ry + R <= rc /\ ry \in Nat
        BY <1>10, <2>1, <3>1 DEF rc, rx, rn, ry
      <3>3. ~(i <= y) /\ large + y - i = rx + z
        <4>1. large \in Nat
          BY <1>1
        <4>2. QED BY <1>10, <2>1, <3>2, <4>1
      <3>4. h[y] = CNeg(f[R * (n + x - c) + z])
        <4>1. h[y] = CNeg(f[large + y - i])
          BY <2>2, <3>3
        <4>2. large + y - i = R * (n + x - c) + z
          BY <3>3 DEF rx
        <4>3. QED BY <4>1, <4>2, Zenon
      <3>5. n + x - c \in 0..(n - 1)
        BY <1>1, <2>4
      <3>6. QED BY <1>6, <1>9, <2>2, <2>4, <3>4, <3>5
    <2>5. QED BY <2>3, <2>4
  <1>12. QED BY <1>4, <1>5, <1>11, PolyEqual DEF p, h

\* The masks that extr makes of one of degree large.
Extracted(a, large, d, n) ==
  [k \in 0..(d - 1) |-> IF k = 0 THEN ProjectAt(a, large, n, 0)
                              ELSE TimesX(ProjectAt(a, large, n, d - k), n)]

\* The masks extr makes.
LEMMA ExtractedIn ==
  ASSUME NEW large, NEW d, NEW n, Tower(large, d, n), NEW a \in Poly(large)
  PROVE  /\ Extracted(a, large, d, n) \in Terms(d, n)
         /\ \A k \in 0..(d - 1) :
              Extracted(a, large, d, n)[k] = IF k = 0 THEN ProjectAt(a, large, n, 0)
                                   ELSE TimesX(ProjectAt(a, large, n, d - k), n)
         /\ \A k \in 0..(d - 1) : Extracted(a, large, d, n)[k] \in Poly(n)
         /\ \A k \in 0..(d - 1) : k # 0 => ProjectAt(a, large, n, d - k) \in Poly(n)
  <1>1. n \in Nat \ {0} /\ d \in Nat \ {0}
    BY TowerIs
  <1>2. 0 \in 0..(d - 1) /\ \A k \in 0..(d - 1) : k # 0 => d - k \in 0..(d - 1)
    BY <1>1
  <1>3. \A k \in 0..(d - 1) : ProjectAt(a, large, n, k) \in Poly(n)
    BY SlotIn
  <1>4. \A k \in 0..(d - 1) : k # 0 => TimesX(ProjectAt(a, large, n, d - k), n) \in Poly(n)
    BY <1>1, <1>2, <1>3, TimesXLinear
  <1>5. \A k \in 0..(d - 1) :
          (IF k = 0 THEN ProjectAt(a, large, n, 0) ELSE TimesX(ProjectAt(a, large, n, d - k), n)) \in Poly(n)
    BY <1>2, <1>3, <1>4
  <1>6. QED BY <1>2, <1>3, <1>5, Zenon DEF Extracted, Terms

\* One mask of a power of X is a power of X, the others are zero.
LEMMA ExtractedPower ==
  ASSUME NEW large, NEW d, NEW n, Tower(large, d, n), NEW c \in 0..n, NEW z \in 0..(d - 1),
         NEW i \in 0..(large - 1), i + z = d * c, NEW k \in 0..(d - 1)
  PROVE  Extracted(Rot(One(large), large, i), large, d, n)[k] = IF k = z THEN Rot(One(n), n, c) ELSE Zero(n)
  <1>1. n \in Nat \ {0} /\ d \in Nat \ {0} /\ large = d * n /\ large \in Nat \ {0}
    BY TowerIs
  <1> DEFINE a == Rot(One(large), large, i)
             R == d
  <1>2. a \in Poly(large) /\ One(n) \in Poly(n) /\ Zero(n) \in Poly(n)
    <2>1. One(large) \in Poly(large) /\ One(n) \in Poly(n) /\ i \in 0..large
      BY <1>1, IotaOne
    <2>2. QED BY <1>1, <2>1, RotSteps, PolyAt
  <1>3. \A x \in 0..(large - 1) : a[x] = IF x = i THEN COne ELSE 0
    BY <1>1, RotOne
  <1>4. \A y \in 0..(R - 1) : \A x \in 0..(n - 1) : /\ R * x + y \in 0..(large - 1)
                                                    /\ ProjectAt(a, large, n, y)[x] = a[R * x + y]
    <2>1. \A y \in 0..(R - 1) : \A x \in 0..(n - 1) : R * x + y \in 0..(large - 1)
      BY <1>1, SlotWithin
    <2>2. \A y \in 0..(R - 1) : \A x \in 0..(n - 1) : ProjectAt(a, large, n, y)[x] = a[R * x + y]
      BY <1>2, SlotIn
    <2>3. QED BY <2>1, <2>2
  <1>5. Extracted(a, large, d, n)[k] = IF k = 0 THEN ProjectAt(a, large, n, 0) ELSE TimesX(ProjectAt(a, large, n, R - k), n)
    BY <1>2, ExtractedIn
  <1>6. R \in Nat \ {0} /\ z \in 0..(R - 1) /\ k \in 0..(R - 1) /\ i + z = R * c /\ i \in Nat /\ c \in Nat
        /\ R * c \in Nat
    BY <1>1, NatProduct
  <1>7. large = R * n
    BY <1>1
  <1>8. R \in Nat \ {0}
    BY <1>6
  <1>9. \A y \in 0..(R - 1) : ProjectAt(a, large, n, y) \in Poly(n)
    BY <1>2, SlotIn
  <1> HIDE DEF R, a
  <1>10. \A u, v \in Nat : \A g, h \in 0..(R - 1) : R * u + g = R * v + h => u = v /\ g = h
    BY <1>8, SameSlot
  <1>11. ASSUME k = 0 PROVE Extracted(a, large, d, n)[k] = IF k = z THEN Rot(One(n), n, c) ELSE Zero(n)
    <2>1. ProjectAt(a, large, n, 0) \in Poly(n) /\ 0 \in 0..(R - 1)
      BY <1>6, <1>9
    <2>2. CASE z = 0
      <3>1. i = R * c
        BY <1>6, <2>2
      <3>2. c \in 0..(n - 1)
        <4>1. ASSUME c = n PROVE FALSE
          <5>1. i = large
            <6>1. i = R * n
              BY <3>1, <4>1
            <6>2. QED BY <1>7, <6>1, Zenon
          <5>2. QED BY <1>1, <5>1
        <4>2. QED BY <1>1, <4>1
      <3>3. Rot(One(n), n, c) \in Poly(n)
        BY <1>1, <1>2, RotSteps
      <3>4. ASSUME NEW x \in 0..(n - 1) PROVE ProjectAt(a, large, n, 0)[x] = Rot(One(n), n, c)[x]
        <4>1. x \in Nat /\ R * x \in Nat
          <5>1. x \in Nat
            BY <1>1
          <5>2. QED BY <1>6, <5>1, NatProduct
        <4>2. R * x + 0 = i => x = c
          <5>1. ASSUME R * x + 0 = R * c + 0 PROVE x = c
            BY <1>6, <1>10, <2>1, <4>1, <5>1, Zenon
          <5>2. QED BY <1>6, <3>1, <5>1
        <4>3. x = c => R * x + 0 = i
          BY <3>1, <4>1
        <4>4. ProjectAt(a, large, n, 0)[x] = IF x = c THEN COne ELSE 0
          BY <1>3, <1>4, <2>1, <4>2, <4>3
        <4>5. Rot(One(n), n, c)[x] = IF x = c THEN COne ELSE 0
          BY <1>1, <3>2, RotOne
        <4>6. QED BY <4>4, <4>5
      <3>5. ProjectAt(a, large, n, 0) = Rot(One(n), n, c)
        BY <2>1, <3>3, <3>4, PolyEqual
      <3>6. QED BY <1>5, <1>11, <2>2, <3>5
    <2>3. CASE z # 0
      <3>1. ASSUME NEW x \in 0..(n - 1) PROVE ProjectAt(a, large, n, 0)[x] = Zero(n)[x]
        <4>1. x \in Nat /\ R * x \in Nat
          <5>1. x \in Nat
            BY <1>1
          <5>2. QED BY <1>6, <5>1, NatProduct
        <4>2. R * x + 0 # i
          <5>1. ASSUME R * x + 0 = i PROVE FALSE
            <6>1. R * x + z = R * c + 0
              BY <1>6, <4>1, <5>1
            <6>2. z = 0
              <7>1. \A y \in 0..(R - 1) : R * x + z = R * c + y => z = y
                <8>1. x \in Nat /\ c \in Nat /\ z \in 0..(R - 1)
                  BY <1>6, <4>1
                <8>2. \A g, h \in 0..(R - 1) : R * x + g = R * c + h => x = c /\ g = h
                  BY <1>10, <8>1, ZenonT(30)
                <8>3. QED BY <8>1, <8>2, Zenon
              <7>2. QED BY <2>1, <6>1, <7>1, Zenon
            <6>3. QED BY <2>3, <6>2
          <5>2. QED BY <5>1
        <4>3. QED BY <1>3, <1>4, <2>1, <4>2 DEF Zero
      <3>2. ProjectAt(a, large, n, 0) = Zero(n)
        BY <1>2, <2>1, <3>1, PolyEqual
      <3>3. QED BY <1>5, <1>11, <2>3, <3>2
    <2>4. QED BY <2>2, <2>3
  <1>12. ASSUME k # 0 PROVE Extracted(a, large, d, n)[k] = IF k = z THEN Rot(One(n), n, c) ELSE Zero(n)
    <2> DEFINE y == R - k
               b == ProjectAt(a, large, n, y)
    <2>1. y \in 0..(R - 1) /\ y # 0 /\ y + k = R
      BY <1>6, <1>12
    <2>2. b \in Poly(n)
      BY <1>9, <2>1
    <2>3. \A x \in 0..(n - 1) : b[x] = IF R * x + y = i THEN COne ELSE 0
      BY <1>3, <1>4, <2>1
    <2>4. ASSUME NEW x \in 0..(n - 1) PROVE R * x + y = i <=> x + 1 = c /\ k = z
      <3>1. x \in Nat /\ R * x \in Nat /\ R * (x + 1) = R * x + R
        <4>1. x \in Nat
          BY <1>1
        <4>2. \A u, v \in Nat : u * (v + 1) = u * v + u
          BY Z3
        <4>3. QED BY <1>6, <4>1, <4>2, NatProduct
      <3>2. ASSUME R * x + y = i PROVE x + 1 = c /\ k = z
        <4>1. R * (x + 1) + z = R * c + k
          BY <1>6, <2>1, <3>1, <3>2
        <4>2. x + 1 \in Nat
          BY <3>1
        <4>3. \A v \in Nat : \A h \in 0..(R - 1) : R * (x + 1) + z = R * v + h => x + 1 = v /\ z = h
          BY <1>6, <1>10, <4>2, Zenon
        <4>4. x + 1 = c /\ z = k
          BY <1>6, <4>1, <4>3, Zenon
        <4>5. QED BY <4>4
      <3>3. ASSUME x + 1 = c, k = z PROVE R * x + y = i
        BY <1>6, <2>1, <3>1, <3>3
      <3>4. QED BY <3>2, <3>3
    <2>8. Extracted(a, large, d, n)[k] = TimesX(b, n)
      BY <1>5, <1>12
    <2> HIDE DEF b, y
    <2>5. CASE k = z
      <3>1. c - 1 \in 0..(n - 1) /\ c = (c - 1) + 1
        <4>1. c # 0
          <5>1. ASSUME c = 0 PROVE FALSE
            <6>1. R * c = 0
              BY <1>6, <5>1
            <6>2. QED BY <1>6, <1>12, <2>5, <6>1
          <5>2. QED BY <5>1
        <4>2. QED BY <1>1, <4>1
      <3>2. b = Rot(One(n), n, c - 1)
        <4>1. c - 1 \in 0..n
          BY <1>1, <3>1
        <4>2. Rot(One(n), n, c - 1) \in Poly(n)
          BY <1>1, <1>2, <4>1, RotSteps
        <4>3. ASSUME NEW x \in 0..(n - 1) PROVE b[x] = Rot(One(n), n, c - 1)[x]
          <5>1. R * x + y = i <=> x + 1 = c
            BY <2>4, <2>5
          <5>2. x + 1 = c <=> x = c - 1
            BY <1>1
          <5>3. Rot(One(n), n, c - 1)[x] = IF x = c - 1 THEN COne ELSE 0
            BY <1>1, <3>1, RotOne
          <5>4. QED BY <2>3, <5>1, <5>2, <5>3
        <4>4. QED BY <2>2, <4>2, <4>3, PolyEqual
      <3>3. Rot(One(n), n, (c - 1) + 1) = TimesX(Rot(One(n), n, c - 1), n)
        BY <1>1, <1>2, <3>1, RotSteps
      <3>4. Rot(One(n), n, c) = TimesX(Rot(One(n), n, c - 1), n)
        BY <3>1, <3>3, Zenon
      <3>5. QED BY <2>5, <2>8, <3>2, <3>4, Zenon
    <2>6. CASE k # z
      <3>1. b = Zero(n)
        <4>1. ASSUME NEW x \in 0..(n - 1) PROVE b[x] = Zero(n)[x]
          BY <2>3, <2>4, <2>6 DEF Zero
        <4>2. QED BY <1>2, <2>2, <4>1, PolyEqual
      <3>2. TimesX(Zero(n), n) = Zero(n)
        BY <1>1, <1>2, TimesXLinear
      <3>3. QED BY <2>6, <2>8, <3>1, <3>2, Zenon
    <2>7. QED BY <2>5, <2>6
  <1>13. Extracted(a, large, d, n)[k] = IF k = z THEN Rot(One(n), n, c) ELSE Zero(n)
    BY <1>11, <1>12, Zenon
  <1>14. QED BY <1>13 DEF a

\* The extracted masks under the projected keys are the product under the
\* whole key, projected.
LEMMA SlotDot ==
  ASSUME NEW large, NEW d, NEW n, Tower(large, d, n), NEW q \in Poly(large), NEW a \in Poly(large)
  PROVE  /\ Sums(DotTerms(Extracted(a, large, d, n), q, large, d, n), 0, d, n) = ProjectAt(Mul(a, q, large), large, n, 0)
         /\ Mul(a, q, large) \in Poly(large)
  <1>1. n \in Nat \ {0} /\ d \in Nat \ {0} /\ large = d * n /\ large \in Nat \ {0}
    BY TowerIs
  <1> DEFINE R == d
             T(f) == DotTerms(Extracted(f, large, d, n), q, large, d, n)
             Pr(f) == ProjectAt(f, large, n, 0)
             Q(k) == ProjectAt(q, large, n, k)
             H == [f \in Poly(large) |-> Pr(Mul(f, q, large))]
             G == [f \in Poly(large) |-> Sums(T(f), 0, R, n)]
  <1>2. 0 \in 0..(R - 1) /\ R \in Nat /\ 0 \in Nat /\ 0 <= R
    BY <1>1
  <1>3. \A f \in Poly(large) : Mul(f, q, large) \in Poly(large)
    BY <1>1, MulClosed
  <1>4. \A f \in Poly(large) : Pr(f) \in Poly(n)
    BY <1>2, SlotIn
  <1>5. \A k \in 0..(R - 1) : Q(k) \in Poly(n)
    BY SlotIn
  <1>6. ASSUME NEW f \in Poly(large)
        PROVE  /\ T(f) \in Terms(R, n)
               /\ \A k \in 0..(R - 1) : T(f)[k] = Mul(Extracted(f, large, d, n)[k], Q(k), n)
    <2>1. Extracted(f, large, d, n) \in Terms(d, n)
      BY ExtractedIn
    <2>2. QED BY <2>1, DotTermsIn
  <1>7. ASSUME NEW f \in Poly(large) PROVE Sums(T(f), 0, R, n) \in Poly(n)
    <2>1. T(f) \in Terms(R, n)
      BY <1>6
    <2> HIDE DEF T, R
    <2>2. QED BY <1>2, <2>1, SumsClosed
  <1>8. \A f \in Poly(large) : Pr(Mul(f, q, large)) \in Poly(n)
    BY <1>3, <1>4
  <1>9. H \in [Poly(large) -> Poly(n)] /\ G \in [Poly(large) -> Poly(n)]
    <2> HIDE DEF T, Pr, R
    <2>1. QED BY <1>7, <1>8, Zenon
  <1>10. \A f \in Poly(large) : H[f] = Pr(Mul(f, q, large)) /\ G[f] = Sums(T(f), 0, R, n)
    BY Zenon
  <1>11. ASSUME NEW f \in Poly(large), NEW g \in Poly(large), NEW k \in 0..(R - 1)
         PROVE  /\ Extracted(Add(f, g), large, d, n)[k] = Add(Extracted(f, large, d, n)[k], Extracted(g, large, d, n)[k])
                /\ Extracted(f, large, d, n)[k] \in Poly(n) /\ Extracted(g, large, d, n)[k] \in Poly(n)
    <2>0. Add(f, g) \in Poly(large)
      BY AddClosed
    <2>1. /\ Extracted(f, large, d, n)[k] \in Poly(n) /\ Extracted(g, large, d, n)[k] \in Poly(n)
          /\ Extracted(f, large, d, n)[k] = IF k = 0 THEN Pr(f) ELSE TimesX(ProjectAt(f, large, n, R - k), n)
          /\ Extracted(g, large, d, n)[k] = IF k = 0 THEN Pr(g) ELSE TimesX(ProjectAt(g, large, n, R - k), n)
          /\ Extracted(Add(f, g), large, d, n)[k] = IF k = 0 THEN Pr(Add(f, g)) ELSE TimesX(ProjectAt(Add(f, g), large, n, R - k), n)
      BY <2>0, ExtractedIn
    <2>2. \A y \in 0..(R - 1) : /\ ProjectAt(Add(f, g), large, n, y) = Add(ProjectAt(f, large, n, y), ProjectAt(g, large, n, y))
                                /\ ProjectAt(f, large, n, y) \in Poly(n) /\ ProjectAt(g, large, n, y) \in Poly(n)
      BY SlotLinear, SlotIn
    <2>3. CASE k = 0
      BY <1>2, <2>1, <2>2, <2>3
    <2>4. CASE k # 0
      <3>1. R - k \in 0..(R - 1)
        BY <1>2, <2>4
      <3> DEFINE u == ProjectAt(f, large, n, R - k)
                 v == ProjectAt(g, large, n, R - k)
      <3>2. u \in Poly(n) /\ v \in Poly(n) /\ ProjectAt(Add(f, g), large, n, R - k) = Add(u, v)
        BY <2>2, <3>1
      <3> HIDE DEF u, v
      <3>3. TimesX(Add(u, v), n) = Add(TimesX(u, n), TimesX(v, n))
        BY <1>1, <3>2, TimesXLinear
      <3>4. QED BY <2>1, <2>4, <3>2, <3>3 DEF u, v
    <2>5. QED BY <2>1, <2>3, <2>4
  <1>12. ASSUME NEW f \in Poly(large), NEW c \in Coeff, NEW k \in 0..(R - 1)
         PROVE  Extracted(Scale(c, f), large, d, n)[k] = Scale(c, Extracted(f, large, d, n)[k]) /\ Extracted(f, large, d, n)[k] \in Poly(n)
    <2>0. Scale(c, f) \in Poly(large)
      BY PolyAt
    <2>1. /\ Extracted(f, large, d, n)[k] \in Poly(n)
          /\ Extracted(f, large, d, n)[k] = IF k = 0 THEN Pr(f) ELSE TimesX(ProjectAt(f, large, n, R - k), n)
          /\ Extracted(Scale(c, f), large, d, n)[k] = IF k = 0 THEN Pr(Scale(c, f)) ELSE TimesX(ProjectAt(Scale(c, f), large, n, R - k), n)
      BY <2>0, ExtractedIn
    <2>2. \A y \in 0..(R - 1) : /\ ProjectAt(Scale(c, f), large, n, y) = Scale(c, ProjectAt(f, large, n, y))
                                /\ ProjectAt(f, large, n, y) \in Poly(n)
      BY SlotLinear, SlotIn
    <2>3. CASE k = 0
      BY <1>2, <2>1, <2>2, <2>3
    <2>4. CASE k # 0
      <3>1. R - k \in 0..(R - 1)
        BY <1>2, <2>4
      <3> DEFINE u == ProjectAt(f, large, n, R - k)
      <3>2. u \in Poly(n) /\ ProjectAt(Scale(c, f), large, n, R - k) = Scale(c, u)
        BY <2>2, <3>1
      <3> HIDE DEF u
      <3>3. TimesX(Scale(c, u), n) = Scale(c, TimesX(u, n))
        BY <1>1, <3>2, TimesXLinear
      <3>4. QED BY <2>1, <2>4, <3>2, <3>3 DEF u
    <2>5. QED BY <2>1, <2>3, <2>4
  <1>13. ASSUME NEW i \in 0..(large - 1)
         PROVE  Pr(Mul(Rot(One(large), large, i), q, large)) = Sums(T(Rot(One(large), large, i)), 0, R, n) /\ Rot(One(large), large, i) \in Poly(large)
    <2> DEFINE a1 == Rot(One(large), large, i)
    <2>1. One(large) \in Poly(large) /\ One(n) \in Poly(n) /\ i \in 0..large /\ a1 \in Poly(large)
      <3>1. One(large) \in Poly(large) /\ One(n) \in Poly(n) /\ i \in 0..large
        BY <1>1, IotaOne
      <3>2. QED BY <1>1, <3>1, RotSteps
    <2>2. \E c \in 0..n, z \in 0..(R - 1) : i + z = R * c
      BY <1>1, SlotBelow
    <2>3. PICK c \in 0..n, z \in 0..(R - 1) : i + z = R * c
      BY <2>2
    <2>4. Mul(a1, q, large) = Rot(q, large, i)
      <3>1. Mul(Rot(One(large), large, i), q, large) = Rot(Mul(One(large), q, large), large, i)
        BY <1>1, <2>1, MulRot
      <3>2. Mul(One(large), q, large) = q
        <4>1. Mul(One(large), q, large) = Mul(q, One(large), large)
          BY <1>1, <2>1, MulComm
        <4>2. QED BY <1>1, <4>1, MulOne
      <3>3. QED BY <3>1, <3>2
    <2>5. Pr(Rot(q, large, i)) = Rot(Q(z), n, c)
      BY <2>3, SlotOfRot
    <2>6. \A k \in 0..(R - 1) : Extracted(a1, large, d, n)[k] = IF k = z THEN Rot(One(n), n, c) ELSE Zero(n)
      BY <2>3, ExtractedPower
    <2>7. Mul(Rot(One(n), n, c), Q(z), n) = Rot(Q(z), n, c) /\ Rot(Q(z), n, c) \in Poly(n)
      <3>0. Q(z) \in Poly(n)
        BY <1>5
      <3> HIDE DEF Q
      <3>1. Mul(Rot(One(n), n, c), Q(z), n) = Rot(Mul(One(n), Q(z), n), n, c)
        BY <1>1, <2>1, <3>0, MulRot
      <3>2. Mul(One(n), Q(z), n) = Q(z)
        <4>1. Mul(One(n), Q(z), n) = Mul(Q(z), One(n), n)
          BY <1>1, <2>1, <3>0, MulComm
        <4>2. QED BY <1>1, <3>0, <4>1, MulOne
      <3>3. Rot(Q(z), n, c) \in Poly(n)
        BY <1>1, <3>0, RotSteps
      <3>4. QED BY <3>1, <3>2, <3>3
    <2>8. \A k \in 0..(R - 1) : Mul(Zero(n), Q(k), n) = Zero(n)
      BY <1>1, <1>5, MulZero
    <2>9. T(a1) \in Terms(R, n) /\ \A k \in 0..(R - 1) : T(a1)[k] = Mul(Extracted(a1, large, d, n)[k], Q(k), n)
      BY <1>6, <2>1
    <2> HIDE DEF a1, T, Q, Pr, R
    <2>10. ASSUME NEW k \in 0..(R - 1) PROVE T(a1)[k] = IF k = z THEN Rot(Q(z), n, c) ELSE Zero(n)
      BY <2>6, <2>7, <2>8, <2>9
    <2>11. Sums(T(a1), 0, R, n) = Rot(Q(z), n, c)
      BY <1>2, <2>7, <2>10, SumsSingle
    <2>12. QED BY <2>1, <2>4, <2>5, <2>11 DEF a1
  <1>14. ASSUME NEW f \in Poly(large), NEW g \in Poly(large)
         PROVE  Sums(T(Add(f, g)), 0, R, n) = Add(Sums(T(f), 0, R, n), Sums(T(g), 0, R, n))
    <2>1. Add(f, g) \in Poly(large)
      BY AddClosed
    <2>2. /\ T(f) \in Terms(R, n) /\ \A k \in 0..(R - 1) : T(f)[k] = Mul(Extracted(f, large, d, n)[k], Q(k), n)
          /\ T(g) \in Terms(R, n) /\ \A k \in 0..(R - 1) : T(g)[k] = Mul(Extracted(g, large, d, n)[k], Q(k), n)
      BY <1>6
    <2>3. \A k \in 0..(R - 1) : T(Add(f, g))[k] = Mul(Extracted(Add(f, g), large, d, n)[k], Q(k), n)
      BY <1>6, <2>1
    <2> HIDE DEF T, Q
    <2>4. ASSUME NEW k \in 0..(R - 1) PROVE T(Add(f, g))[k] = Add(T(f)[k], T(g)[k])
      <3> DEFINE u == Extracted(f, large, d, n)[k]
                 v == Extracted(g, large, d, n)[k]
      <3>1. u \in Poly(n) /\ v \in Poly(n) /\ Extracted(Add(f, g), large, d, n)[k] = Add(u, v) /\ Q(k) \in Poly(n)
        BY <1>5, <1>11
      <3>2. T(f)[k] = Mul(u, Q(k), n) /\ T(g)[k] = Mul(v, Q(k), n)
            /\ T(Add(f, g))[k] = Mul(Extracted(Add(f, g), large, d, n)[k], Q(k), n)
        BY <2>2, <2>3
      <3> HIDE DEF u, v
      <3>3. Mul(Add(u, v), Q(k), n) = Add(Mul(u, Q(k), n), Mul(v, Q(k), n))
        BY <1>1, <3>1, MulSumLeft
      <3>4. QED BY <3>1, <3>2, <3>3
    <2> HIDE DEF R
    <2>5. QED BY <1>2, <2>2, <2>4, SumsAdd
  <1>15. ASSUME NEW f \in Poly(large), NEW c \in Coeff
         PROVE  Sums(T(Scale(c, f)), 0, R, n) = Scale(c, Sums(T(f), 0, R, n))
    <2>1. Scale(c, f) \in Poly(large)
      BY PolyAt
    <2>2. T(f) \in Terms(R, n) /\ \A k \in 0..(R - 1) : T(f)[k] = Mul(Extracted(f, large, d, n)[k], Q(k), n)
      BY <1>6
    <2>3. \A k \in 0..(R - 1) : T(Scale(c, f))[k] = Mul(Extracted(Scale(c, f), large, d, n)[k], Q(k), n)
      BY <1>6, <2>1
    <2> DEFINE L == [h \in Poly(n) |-> Scale(c, h)]
    <2>4. L \in [Poly(n) -> Poly(n)] /\ \A h \in Poly(n) : L[h] = Scale(c, h)
      <3>1. \A h \in Poly(n) : Scale(c, h) \in Poly(n)
        BY PolyAt
      <3>2. QED BY <3>1, Zenon
    <2> HIDE DEF T, Q, L
    <2>5. ASSUME NEW k \in 0..(R - 1) PROVE T(Scale(c, f))[k] = L[T(f)[k]]
      <3> DEFINE u == Extracted(f, large, d, n)[k]
      <3>1. u \in Poly(n) /\ Extracted(Scale(c, f), large, d, n)[k] = Scale(c, u) /\ Q(k) \in Poly(n)
        BY <1>5, <1>12
      <3>2. T(f)[k] = Mul(u, Q(k), n) /\ T(Scale(c, f))[k] = Mul(Extracted(Scale(c, f), large, d, n)[k], Q(k), n)
        BY <2>2, <2>3
      <3> HIDE DEF u
      <3>3. Mul(Scale(c, u), Q(k), n) = Scale(c, Mul(u, Q(k), n)) /\ Mul(u, Q(k), n) \in Poly(n)
        BY <1>1, <3>1, MulScaleLeft
      <3>4. QED BY <2>4, <3>1, <3>2, <3>3
    <2>6. L[Zero(n)] = Zero(n)
      <3>1. q \in Poly(large) /\ Zero(n) \in Poly(n)
        BY <1>1, IotaOne, PolyAt
      <3>2. Scale(c, Zero(n)) = Zero(n)
        BY <3>1, CoeffClosed, PolyScales
      <3>3. QED BY <2>4, <3>1, <3>2
    <2>7. \A u, v \in Poly(n) : L[Add(u, v)] = Add(L[u], L[v])
      <3>1. ASSUME NEW u \in Poly(n), NEW v \in Poly(n) PROVE L[Add(u, v)] = Add(L[u], L[v])
        <4>1. Add(u, v) \in Poly(n) /\ Scale(c, Add(u, v)) = Add(Scale(c, u), Scale(c, v))
          BY AddClosed, PolyScales
        <4>2. QED BY <2>4, <4>1
      <3>2. QED BY <3>1
    <2> HIDE DEF R
    <2>8. Sums(T(Scale(c, f)), 0, R, n) = L[Sums(T(f), 0, R, n)]
      BY <1>2, <2>2, <2>4, <2>5, <2>6, <2>7, SumsMapped
    <2>9. QED BY <1>7, <2>4, <2>8
  <1>16. \A f, g \in Poly(large) : Add(f, g) \in Poly(large)
    BY AddClosed
  <1>17. \A c \in Coeff : \A f \in Poly(large) : Scale(c, f) \in Poly(large)
    BY PolyAt
  <1>18. IsLinear(H, large)
    <2>1. ASSUME NEW f \in Poly(large), NEW g \in Poly(large) PROVE H[Add(f, g)] = Add(H[f], H[g])
      <3>1. Mul(Add(f, g), q, large) = Add(Mul(f, q, large), Mul(g, q, large))
        BY <1>1, MulSumLeft
      <3>2. Pr(Add(Mul(f, q, large), Mul(g, q, large))) = Add(Pr(Mul(f, q, large)), Pr(Mul(g, q, large)))
        BY <1>2, <1>3, SlotLinear
      <3> HIDE DEF H, Pr
      <3>3. QED BY <1>10, <1>16, <3>1, <3>2
    <2>2. ASSUME NEW c \in Coeff, NEW f \in Poly(large) PROVE H[Scale(c, f)] = Scale(c, H[f])
      <3>1. Mul(Scale(c, f), q, large) = Scale(c, Mul(f, q, large))
        BY <1>1, MulScaleLeft
      <3>2. Pr(Scale(c, Mul(f, q, large))) = Scale(c, Pr(Mul(f, q, large)))
        BY <1>2, <1>3, SlotLinear
      <3> HIDE DEF H, Pr
      <3>3. QED BY <1>10, <1>17, <3>1, <3>2
    <2> HIDE DEF H
    <2>3. QED BY <2>1, <2>2 DEF IsLinear
  <1> HIDE DEF H, G, T, Pr, R, Q
  <1>19. IsLinear(G, large)
    <2>1. ASSUME NEW f \in Poly(large), NEW g \in Poly(large) PROVE G[Add(f, g)] = Add(G[f], G[g])
      <3>1. Sums(T(Add(f, g)), 0, R, n) = Add(Sums(T(f), 0, R, n), Sums(T(g), 0, R, n))
        BY <1>14
      <3>2. Add(f, g) \in Poly(large)
        BY <1>16
      <3>3. QED BY <1>10, <3>1, <3>2, Zenon
    <2>2. ASSUME NEW c \in Coeff, NEW f \in Poly(large) PROVE G[Scale(c, f)] = Scale(c, G[f])
      <3>1. Sums(T(Scale(c, f)), 0, R, n) = Scale(c, Sums(T(f), 0, R, n))
        BY <1>15
      <3>2. Scale(c, f) \in Poly(large)
        BY <1>17
      <3>3. QED BY <1>10, <3>1, <3>2, Zenon
    <2>3. QED BY <2>1, <2>2 DEF IsLinear
  <1>20. \A i \in 0..(large - 1) : H[Rot(One(large), large, i)] = G[Rot(One(large), large, i)]
    BY <1>10, <1>13
  <1>21. H[a] = G[a]
    BY <1>1, <1>9, <1>18, <1>19, <1>20, LinearEqual
  <1>22. QED BY <1>3, <1>10, <1>21 DEF T, Pr, R

\* Quotient and remainder of an integer by a positive number.
LEMMA IntDivMod ==
  ASSUME NEW x \in Int, NEW d \in Nat \ {0}
  PROVE  /\ x \div d \in Int
         /\ x % d \in 0..(d - 1)
         /\ x = d * (x \div d) + (x % d)
  BY Z3

\* There is only one such pair.
LEMMA IntDivModUnique ==
  ASSUME NEW x \in Int, NEW d \in Nat \ {0}, NEW q \in Int, NEW r \in 0..(d - 1),
         x = d * q + r
  PROVE  x \div d = q /\ x % d = r
  <1> DEFINE q1 == x \div d
             r1 == x % d
  <1>1. q1 \in Int /\ r1 \in 0..(d - 1) /\ x = d * q1 + r1
    BY IntDivMod
  <1> HIDE DEF q1, r1
  <1>2. ASSUME q1 < q PROVE FALSE
    <2>1. d * (q1 + 1) <= d * q
      BY <1>1, <1>2, Z3
    <2>2. QED BY <1>1, <2>1, Z3
  <1>3. ASSUME q < q1 PROVE FALSE
    <2>1. d * (q + 1) <= d * q1
      BY <1>1, <1>3, Z3
    <2>2. QED BY <1>1, <2>1, Z3
  <1>4. q1 = q
    BY <1>1, <1>2, <1>3, Z3
  <1>5. QED BY <1>1, <1>4, Z3 DEF q1, r1

\* Numbers that differ by a multiple of the modulus have the same remainder.
LEMMA SameRemainder ==
  ASSUME NEW d \in Nat \ {0}, NEW u \in Int, NEW v \in Int, NEW k \in Int, u = v + d * k
  PROVE  u % d = v % d /\ u % d \in 0..(d - 1)
  <1> DEFINE q == v \div d
             r == v % d
  <1>1. q \in Int /\ r \in 0..(d - 1) /\ v = d * q + r
    BY IntDivMod
  <1> HIDE DEF q, r
  <1>2. q + k \in Int /\ u = d * (q + k) + r
    BY <1>1, Z3
  <1>3. u % d = r
    BY <1>1, <1>2, IntDivModUnique
  <1>4. QED BY <1>1, <1>3 DEF r

\* Coefficients of integers: sums, opposites and products may be reduced early.
LEMMA IntMod ==
  ASSUME NEW u \in Int, NEW v \in Int
  PROVE  /\ u % P \in Coeff
         /\ CAdd(u % P, v % P) = (u + v) % P
         /\ CNeg(u % P) = (-u) % P
         /\ CMul(u % P, v % P) = (u * v) % P
  <1>1. P \in Nat \ {0}
    BY ModulusAssumption
  <1> DEFINE a == u \div P
             b == v \div P
             m == u % P
             n == v % P
  <1>2. a \in Int /\ m \in 0..(P - 1) /\ u = P * a + m
    BY <1>1, IntDivMod
  <1>3. b \in Int /\ n \in 0..(P - 1) /\ v = P * b + n
    BY <1>1, IntDivMod
  <1> HIDE DEF a, b, m, n
  <1>4. (u + v) % P = (m + n) % P
    <2>1. u + v = (m + n) + P * (a + b) /\ a + b \in Int /\ u + v \in Int /\ m + n \in Int
      BY <1>1, <1>2, <1>3, Z3
    <2>2. QED BY <1>1, <2>1, SameRemainder
  <1>5. (-u) % P = (P - m) % P
    <2>1. -u = (P - m) + P * (-(a + 1)) /\ -(a + 1) \in Int /\ -u \in Int /\ P - m \in Int
      BY <1>1, <1>2, Z3
    <2>2. QED BY <1>1, <2>1, SameRemainder
  <1>6. (u * v) % P = (m * n) % P
    <2> DEFINE k == P * (a * b) + (a * n + b * m)
    <2>1. u * v = m * n + P * k /\ k \in Int /\ u * v \in Int /\ m * n \in Int
      <3>1. u * v = (P * a + m) * (P * b + n)
        BY <1>2, <1>3
      <3>2. (P * a + m) * (P * b + n) = m * n + P * (P * (a * b) + (a * n + b * m))
        BY <1>1, <1>2, <1>3, Z3
      <3>3. \A g, h \in Int : g * h \in Int /\ g + h \in Int
        BY Z3
      <3>4. P \in Int /\ m \in Int /\ n \in Int
        BY <1>1, <1>2, <1>3
      <3>5. QED BY <1>1, <1>2, <1>3, <3>1, <3>2, <3>3, <3>4, Zenon
    <2> HIDE DEF k
    <2>2. QED BY <1>1, <2>1, SameRemainder
  <1>7. u % P \in Coeff
    BY <1>2 DEF Coeff, m
  <1>8. QED BY <1>4, <1>5, <1>6, <1>7 DEF CAdd, CNeg, CMul, m, n

\* Multiplication by a power of X below n is one rotation.
LEMMA MulXPowRot ==
  ASSUME NEW n \in Nat \ {0}, NEW f \in Poly(n), NEW k \in 0..(n - 1)
  PROVE  MulXPow(f, n, k) = Rot(f, n, k)
  <1> DEFINE shift == k % n
             e == k % (2 * n)
             Source(x) == (x + n - shift) % n
             moved == [x \in 0..(n - 1) |-> f[Source(x)]]
  <1>1. MulXPow(f, n, k) = [x \in 0..(n - 1) |->
          IF (Source(x) + shift >= n) # (e >= n) THEN Neg(moved)[x] ELSE moved[x]]
    BY Zenon DEF MulXPow
  <1>2. shift = k /\ e = k
    <2>1. k \in Nat /\ 2 * n \in Nat \ {0} /\ k \in 0..(2 * n - 1) /\ 0 \in Nat
          /\ k = n * 0 + k /\ k = (2 * n) * 0 + k
      OBVIOUS
    <2>2. k % n = k
      BY <2>1, DivModUnique
    <2> DEFINE m == 2 * n
    <2>3. m \in Nat \ {0} /\ k \in 0..(m - 1) /\ k = m * 0 + k
      BY <2>1
    <2> HIDE DEF m
    <2>4. k % m = k
      BY <2>1, <2>3, DivModUnique
    <2>5. QED BY <2>2, <2>4 DEF m
  <1> HIDE DEF shift, e
  <1>3. ASSUME NEW x \in 0..(n - 1)
        PROVE  /\ Source(x) = (IF k <= x THEN x - k ELSE n + x - k)
               /\ Source(x) \in 0..(n - 1)
    <2>1. CASE k <= x
      <3>1. x + n - k = n * 1 + (x - k) /\ x - k \in 0..(n - 1) /\ x + n - k \in Nat /\ 1 \in Nat
        BY <2>1
      <3>2. (x + n - k) % n = x - k
        BY <3>1, DivModUnique
      <3>3. QED BY <1>2, <2>1, <3>1, <3>2
    <2>2. CASE ~(k <= x)
      <3>1. x + n - k = n * 0 + (n + x - k) /\ n + x - k \in 0..(n - 1) /\ x + n - k \in Nat /\ 0 \in Nat
        BY <2>2
      <3>2. (x + n - k) % n = n + x - k
        BY <3>1, DivModUnique
      <3>3. QED BY <1>2, <2>2, <3>1, <3>2
    <2>3. QED BY <2>1, <2>2
  <1>4. DOMAIN moved = 0..(n - 1) /\ \A x \in 0..(n - 1) : moved[x] = f[Source(x)]
    OBVIOUS
  <1>5. \A x \in 0..(n - 1) : Neg(moved)[x] = CNeg(f[Source(x)])
    BY <1>4 DEF Neg, CNeg
  <1>6. ASSUME NEW x \in 0..(n - 1)
        PROVE (IF (Source(x) + shift >= n) # (e >= n) THEN Neg(moved)[x] ELSE moved[x])
                = (IF k <= x THEN f[x - k] ELSE CNeg(f[n + x - k]))
    <2>0. ~(e >= n) /\ shift = k
      BY <1>2
    <2>1. CASE k <= x
      <3>1. Source(x) = x - k /\ ~(Source(x) + shift >= n)
        BY <1>3, <2>0, <2>1
      <3>2. moved[x] = f[x - k]
        BY <1>4, <3>1
      <3> HIDE DEF moved, Source
      <3>3. QED BY <2>0, <2>1, <3>1, <3>2
    <2>2. CASE ~(k <= x)
      <3>1. Source(x) = n + x - k /\ Source(x) + shift >= n
        BY <1>3, <2>0, <2>2
      <3>2. Neg(moved)[x] = CNeg(f[n + x - k])
        BY <1>5, <3>1
      <3> HIDE DEF moved, Source
      <3>3. QED BY <2>0, <2>2, <3>1, <3>2
    <2>3. QED BY <2>1, <2>2
  <1> HIDE DEF moved, Source
  <1>7. QED BY <1>1, <1>6 DEF Rot

\* Taking the product of mask a, error e and plaintext t off an accumulator
\* takes t from what is pending and adds e to the errors.
TurnKeeps(n, mask, body, s, a, e, t, p, r) ==
  LET phase == Sub(body, Mul(mask, s, n))
      turned == Sub(Sub(body, Add(Add(Mul(a, s, n), e), t)), Mul(Sub(mask, a), s, n))
  IN  Add(Sub(turned, p), Add(r, e)) = Add(Sub(phase, Add(t, p)), r)

\* One turn of a ring switch: what the product adds to the accumulator is
\* what it takes from the terms to come, and its error.
LEMMA SwitchTurn ==
  ASSUME NEW n \in Nat \ {0}, NEW mask \in Poly(n), NEW body \in Poly(n), NEW s \in Poly(n),
         NEW a \in Poly(n), NEW e \in Poly(n), NEW t \in Poly(n), NEW p \in Poly(n), NEW r \in Poly(n)
  PROVE  TurnKeeps(n, mask, body, s, a, e, t, p, r)
  <1> DEFINE M == Mul(mask, s, n)
             A == Mul(a, s, n)
  <1>1. M \in Poly(n) /\ A \in Poly(n) /\ Sub(mask, a) \in Poly(n)
    BY MulClosed, SubClosed
  <1>2. Mul(Sub(mask, a), s, n) = Sub(M, A)
    <2>1. Mul(Sub(mask, a), s, n) = Mul(s, Sub(mask, a), n)
      BY <1>1, MulComm
    <2>2. Mul(s, Sub(mask, a), n) = Sub(Mul(s, mask, n), Mul(s, a, n))
      BY MulSub
    <2>3. Mul(s, mask, n) = M /\ Mul(s, a, n) = A
      BY MulComm
    <2>4. QED BY <2>1, <2>2, <2>3
  <1> HIDE DEF M, A
  <1> DEFINE given == Add(Add(A, e), t)
             turned == Sub(Sub(body, given), Sub(M, A))
             left == Add(Sub(turned, p), Add(r, e))
             phase == Sub(body, M)
             right == Add(Sub(phase, Add(t, p)), r)
  <1>3. /\ Add(A, e) \in Poly(n) /\ given \in Poly(n) /\ Sub(body, given) \in Poly(n)
        /\ Sub(M, A) \in Poly(n) /\ turned \in Poly(n) /\ Sub(turned, p) \in Poly(n)
        /\ Add(r, e) \in Poly(n) /\ left \in Poly(n) /\ phase \in Poly(n) /\ Add(t, p) \in Poly(n)
        /\ Sub(phase, Add(t, p)) \in Poly(n) /\ right \in Poly(n)
    <2>1. \A f, g \in Poly(n) : Add(f, g) \in Poly(n) /\ Sub(f, g) \in Poly(n)
      BY AddClosed, SubClosed
    <2>2. QED BY <1>1, <2>1
  <1>4. ASSUME NEW x \in 0..(n - 1) PROVE left[x] = right[x]
    <2>1. \A f, g \in Poly(n) : Add(f, g)[x] = CAdd(f[x], g[x]) /\ Sub(f, g)[x] = CAdd(f[x], CNeg(g[x]))
      <3>1. ASSUME NEW f \in Poly(n), NEW g \in Poly(n)
            PROVE Add(f, g)[x] = CAdd(f[x], g[x]) /\ Sub(f, g)[x] = CAdd(f[x], CNeg(g[x]))
        <4>1. Add(f, g)[x] = CAdd(f[x], g[x])
          BY SumAt
        <4>2. Neg(g) \in Poly(n) /\ Neg(g)[x] = CNeg(g[x])
          BY PolyAt
        <4>3. Sub(f, g)[x] = CAdd(f[x], Neg(g)[x])
          BY <4>2, SumAt DEF Sub
        <4>4. QED BY <4>1, <4>2, <4>3
      <3>2. QED BY <3>1
    <2>2. \A f \in Poly(n) : f[x] \in Int /\ f[x] % P = f[x]
      <3>1. \A f \in Poly(n) : f[x] \in Coeff
        BY PolyAt
      <3>2. QED BY <3>1, CoeffClosed
    <2>3. \A u, v \in Int : CAdd(u % P, v % P) = (u + v) % P /\ CNeg(u % P) = (-u) % P
      BY IntMod
    <2> DEFINE cb == body[x]
               cM == M[x]
               cA == A[x]
               ce == e[x]
               ct == t[x]
               cp == p[x]
               cr == r[x]
    <2>4. /\ cb \in Int /\ cb % P = cb /\ cM \in Int /\ cM % P = cM /\ cA \in Int /\ cA % P = cA
          /\ ce \in Int /\ ce % P = ce /\ ct \in Int /\ ct % P = ct /\ cp \in Int /\ cp % P = cp
          /\ cr \in Int /\ cr % P = cr
      BY <1>1, <2>2
    <2>5. Add(A, e)[x] = CAdd(cA, ce) /\ given[x] = CAdd(Add(A, e)[x], ct)
      BY <1>1, <1>3, <2>1
    <2>6. Sub(body, given)[x] = CAdd(cb, CNeg(given[x])) /\ Sub(M, A)[x] = CAdd(cM, CNeg(cA))
      BY <1>1, <1>3, <2>1
    <2>7. turned[x] = CAdd(Sub(body, given)[x], CNeg(Sub(M, A)[x])) /\ Sub(turned, p)[x] = CAdd(turned[x], CNeg(cp))
      BY <1>1, <1>3, <2>1
    <2>8. Add(r, e)[x] = CAdd(cr, ce) /\ left[x] = CAdd(Sub(turned, p)[x], Add(r, e)[x])
      BY <1>1, <1>3, <2>1
    <2>9. phase[x] = CAdd(cb, CNeg(cM)) /\ Add(t, p)[x] = CAdd(ct, cp)
      BY <1>1, <1>3, <2>1
    <2>10. Sub(phase, Add(t, p))[x] = CAdd(phase[x], CNeg(Add(t, p)[x]))
           /\ right[x] = CAdd(Sub(phase, Add(t, p))[x], cr)
      BY <1>1, <1>3, <2>1
    <2> HIDE DEF cb, cM, cA, ce, ct, cp, cr, given, turned, left, phase, right
    <2>11. given[x] = ((cA + ce) + ct) % P
      <3>1. CAdd(cA, ce) = (cA + ce) % P
        BY <2>3, <2>4
      <3>2. cA + ce \in Int
        BY <2>4
      <3>3. QED BY <2>3, <2>4, <2>5, <3>1, <3>2
    <2>12. Sub(body, given)[x] = (cb - ((cA + ce) + ct)) % P
      <3>1. CNeg(given[x]) = (-((cA + ce) + ct)) % P /\ -((cA + ce) + ct) \in Int
        BY <2>3, <2>4, <2>11
      <3>2. CAdd(cb, CNeg(given[x])) = (cb + (-((cA + ce) + ct))) % P
        BY <2>3, <2>4, <3>1
      <3>3. cb + (-((cA + ce) + ct)) = cb - ((cA + ce) + ct)
        BY <2>4
      <3>4. QED BY <2>6, <3>2, <3>3
    <2>13. Sub(M, A)[x] = (cM - cA) % P
      <3>1. CNeg(cA) = (-cA) % P /\ -cA \in Int
        BY <2>3, <2>4
      <3>2. CAdd(cM, CNeg(cA)) = (cM + (-cA)) % P
        BY <2>3, <2>4, <3>1
      <3>3. cM + (-cA) = cM - cA
        BY <2>4
      <3>4. QED BY <2>6, <3>2, <3>3
    <2>14. turned[x] = ((cb - ((cA + ce) + ct)) + (-(cM - cA))) % P
      <3>1. cM - cA \in Int /\ -(cM - cA) \in Int /\ cb - ((cA + ce) + ct) \in Int
        BY <2>4
      <3>2. CNeg(Sub(M, A)[x]) = (-(cM - cA)) % P
        BY <2>3, <2>13, <3>1
      <3>3. QED BY <2>3, <2>7, <2>12, <3>1, <3>2
    <2> DEFINE i1 == (cb - ((cA + ce) + ct)) + (-(cM - cA))
    <2>15. i1 \in Int
      BY <2>4
    <2>16. left[x] = ((i1 + (-cp)) + (cr + ce)) % P
      <3> HIDE DEF i1
      <3>0. turned[x] = i1 % P
        BY <2>14 DEF i1
      <3>1. CNeg(cp) = (-cp) % P /\ -cp \in Int
        BY <2>3, <2>4
      <3>5. CAdd(i1 % P, (-cp) % P) = (i1 + (-cp)) % P
        BY <2>3, <2>15, <3>1, Zenon
      <3>2. Sub(turned, p)[x] = (i1 + (-cp)) % P /\ i1 + (-cp) \in Int
        BY <2>7, <2>15, <3>0, <3>1, <3>5
      <3>3. Add(r, e)[x] = (cr + ce) % P /\ cr + ce \in Int
        BY <2>3, <2>4, <2>8
      <3>4. QED BY <2>3, <2>8, <3>2, <3>3
    <2>17. phase[x] = (cb + (-cM)) % P /\ cb + (-cM) \in Int
      <3>1. CNeg(cM) = (-cM) % P /\ -cM \in Int
        BY <2>3, <2>4
      <3>2. QED BY <2>3, <2>4, <2>9, <3>1
    <2>18. Add(t, p)[x] = (ct + cp) % P /\ ct + cp \in Int
      BY <2>3, <2>4, <2>9
    <2>19. right[x] = (((cb + (-cM)) + (-(ct + cp))) + cr) % P
      <3> DEFINE i2 == cb + (-cM)
                 i3 == ct + cp
      <3>0. i2 \in Int /\ i3 \in Int /\ -i3 \in Int /\ i2 + (-i3) \in Int
            /\ phase[x] = i2 % P /\ Add(t, p)[x] = i3 % P
        BY <2>17, <2>18
      <3> HIDE DEF i2, i3
      <3>1. CNeg(i3 % P) = (-i3) % P
        BY <2>3, <3>0, Zenon
      <3>2. CAdd(i2 % P, (-i3) % P) = (i2 + (-i3)) % P
        BY <2>3, <3>0, Zenon
      <3>3. CAdd((i2 + (-i3)) % P, cr % P) = ((i2 + (-i3)) + cr) % P
        BY <2>3, <2>4, <3>0, Zenon
      <3>4. QED BY <2>4, <2>10, <3>0, <3>1, <3>2, <3>3 DEF i2, i3
    <2>20. (i1 + (-cp)) + (cr + ce) = ((cb + (-cM)) + (-(ct + cp))) + cr
      BY <2>4
    <2>21. QED BY <2>16, <2>19, <2>20
  <1>5. left = right
    BY <1>3, <1>4, PolyEqual
  <1>6. QED BY <1>2, <1>5 DEF M, A, TurnKeeps

\* The two halves of a product of a ring switch: slot 0 of a * X^k, and slot 0
\* of s / X^k, which is slot k of s.
LEMMA MaskHalfIs ==
  ASSUME NEW large, NEW d, NEW n, Tower(large, d, n), NEW a \in Poly(large), NEW k \in 0..(d - 1)
  PROVE  ProjectAt(MulXPow(a, large, k), large, n, 0) = Extracted(a, large, d, n)[k]
  <1>1. n \in Nat \ {0} /\ d \in Nat \ {0} /\ large = d * n /\ large \in Nat \ {0}
    BY TowerIs
  <1>2. k \in 0..(large - 1) /\ 0 \in 0..(d - 1)
    <2>1. \A u, v \in Nat \ {0} : u <= u * v
      BY Z3
    <2>2. d <= large
      BY <1>1, <2>1
    <2>3. QED BY <1>1, <2>2
  <1>3. MulXPow(a, large, k) = Rot(a, large, k)
    BY <1>1, <1>2, MulXPowRot
  <1>4. Extracted(a, large, d, n)[k] = IF k = 0 THEN ProjectAt(a, large, n, 0)
                                       ELSE TimesX(ProjectAt(a, large, n, d - k), n)
    BY ExtractedIn
  <1>5. CASE k = 0
    <2>1. Rot(a, large, 0) = a
      BY <1>1, RotSteps
    <2>2. QED BY <1>3, <1>4, <1>5, <2>1
  <1>6. CASE k # 0
    <2>1. d - k \in 0..(d - 1) /\ k + (d - k) = d * 1 /\ 1 \in 0..n /\ 0 \in 0..(n - 1)
      BY <1>1, <1>6
    <2>2. ProjectAt(Rot(a, large, k), large, n, 0) = Rot(ProjectAt(a, large, n, d - k), n, 1)
      BY <1>2, <2>1, SlotOfRot
    <2> DEFINE f == ProjectAt(a, large, n, d - k)
    <2>3. f \in Poly(n)
      BY <2>1, SlotIn
    <2> HIDE DEF f
    <2>4. Rot(f, n, 0) = f /\ Rot(f, n, 0 + 1) = TimesX(Rot(f, n, 0), n)
      BY <1>1, <2>1, <2>3, RotSteps
    <2>5. Rot(f, n, 1) = TimesX(f, n)
      BY <2>4
    <2>6. QED BY <1>3, <1>4, <1>6, <2>2, <2>5 DEF f
  <1>7. QED BY <1>5, <1>6

\* Slot 0 of a secret divided by X^k, coefficient by coefficient.
LEMMA KeyHalfIs ==
  ASSUME NEW large, NEW d, NEW n, Tower(large, d, n), NEW s \in Poly(large), NEW k \in 1..(d - 1)
  PROVE  ProjectAt(Neg(MulXPow(s, large, large - k)), large, n, 0) = ProjectAt(s, large, n, k)
  <1>1. n \in Nat \ {0} /\ d \in Nat \ {0} /\ large = d * n /\ large \in Nat \ {0}
    BY TowerIs
  <1>2. large - k \in 0..(large - 1) /\ k \in 0..(d - 1) /\ 0 \in 0..(d - 1) /\ n \in 0..n
        /\ (large - k) + k = d * n
    <2>1. \A u, v \in Nat \ {0} : u <= u * v
      BY Z3
    <2>2. d <= large
      BY <1>1, <2>1
    <2>3. QED BY <1>1, <2>2
  <1>3. MulXPow(s, large, large - k) = Rot(s, large, large - k)
    BY <1>1, <1>2, MulXPowRot
  <1> DEFINE h == Rot(s, large, large - k)
             f == ProjectAt(s, large, n, k)
  <1>4. h \in Poly(large)
    <2>0. large \in Nat /\ large - k \in 0..(large - 1)
      BY <1>1, <1>2
    <2>1. large - k \in 0..large
      BY <2>0
    <2>2. QED BY <1>1, <2>1, RotSteps
  <1>5. f \in Poly(n)
    BY <1>2, SlotIn
  <1>6. ProjectAt(h, large, n, 0) = Rot(f, n, n)
    BY <1>2, SlotOfRot
  <1> HIDE DEF h, f
  <1>7. Rot(f, n, n) = Neg(f) /\ Neg(Neg(f)) = f
    BY <1>1, <1>5, RotSteps, PolyCancel
  <1>8. ProjectAt(Neg(h), large, n, 0) = Neg(ProjectAt(h, large, n, 0))
    <2>1. Neg(h) \in Poly(large) /\ \A x \in 0..(large - 1) : Neg(h)[x] = CNeg(h[x])
      BY <1>4, PolyAt
    <2>2. /\ ProjectAt(Neg(h), large, n, 0) \in Poly(n)
          /\ \A i \in 0..(n - 1) : ProjectAt(Neg(h), large, n, 0)[i] = Neg(h)[d * i + 0]
      BY <1>2, <2>1, SlotIn
    <2>3. /\ ProjectAt(h, large, n, 0) \in Poly(n)
          /\ \A i \in 0..(n - 1) : ProjectAt(h, large, n, 0)[i] = h[d * i + 0]
      BY <1>2, <1>4, SlotIn
    <2>4. \A i \in 0..(n - 1) : d * i + 0 \in 0..(large - 1)
      BY <1>1, <1>2, SlotWithin
    <2> DEFINE g == ProjectAt(h, large, n, 0)
    <2>5. Neg(g) \in Poly(n) /\ \A x \in 0..(n - 1) : Neg(g)[x] = CNeg(g[x])
      BY <2>3, PolyAt
    <2>6. \A i \in 0..(n - 1) : ProjectAt(Neg(h), large, n, 0)[i] = Neg(g)[i]
      BY <2>1, <2>2, <2>3, <2>4, <2>5
    <2>7. QED BY <2>2, <2>5, <2>6, PolyEqual
  <1>9. QED BY <1>3, <1>6, <1>7, <1>8 DEF h, f

\* T are the products of a ring switch: mask a, secret s.
SwitchTerms(T, a, s, large, d, n) ==
  /\ T = [k \in 0..(d - 1) |-> T[k]]
  /\ T[0] = Mul(ProjectAt(MulXPow(a, large, 0), large, n, 0), ProjectAt(s, large, n, 0), n)
  /\ \A k \in 1..(d - 1) :
       T[k] = Mul(ProjectAt(MulXPow(a, large, k), large, n, 0),
                  ProjectAt(Neg(MulXPow(s, large, large - k)), large, n, 0), n)

\* Together, the products of a ring switch make slot 0 of a * s.
LEMMA SwitchSlots ==
  ASSUME NEW large, NEW d, NEW n, Tower(large, d, n), NEW a \in Poly(large), NEW s \in Poly(large),
         NEW T, SwitchTerms(T, a, s, large, d, n)
  PROVE  /\ T \in Terms(d, n)
         /\ Sums(T, 0, d, n) = ProjectAt(Mul(a, s, large), large, n, 0)
  <1>1. n \in Nat \ {0} /\ d \in Nat \ {0} /\ large = d * n /\ large \in Nat \ {0}
    BY TowerIs
  <1> DEFINE E == Extracted(a, large, d, n)
             U == DotTerms(E, s, large, d, n)
  <1>2. E \in Terms(d, n) /\ \A k \in 0..(d - 1) : E[k] \in Poly(n)
    BY ExtractedIn
  <1>3. U \in Terms(d, n) /\ \A k \in 0..(d - 1) : U[k] = Mul(E[k], ProjectAt(s, large, n, k), n)
    BY <1>2, DotTermsIn
  <1>a. /\ T = [k \in 0..(d - 1) |-> T[k]]
        /\ T[0] = Mul(ProjectAt(MulXPow(a, large, 0), large, n, 0), ProjectAt(s, large, n, 0), n)
        /\ \A k \in 1..(d - 1) :
             T[k] = Mul(ProjectAt(MulXPow(a, large, k), large, n, 0),
                        ProjectAt(Neg(MulXPow(s, large, large - k)), large, n, 0), n)
    BY DEF SwitchTerms
  <1>4. ASSUME NEW k \in 0..(d - 1) PROVE T[k] = Mul(E[k], ProjectAt(s, large, n, k), n)
    <2>1. ProjectAt(MulXPow(a, large, k), large, n, 0) = E[k]
      BY MaskHalfIs
    <2>2. CASE k = 0
      BY <1>a, <2>1, <2>2
    <2>3. CASE k # 0
      <3>1. k \in 1..(d - 1)
        BY <1>1, <2>3
      <3>2. ProjectAt(Neg(MulXPow(s, large, large - k)), large, n, 0) = ProjectAt(s, large, n, k)
        BY <3>1, KeyHalfIs
      <3>3. QED BY <1>a, <2>1, <3>1, <3>2
    <2>4. QED BY <2>2, <2>3
  <1>6. Sums(U, 0, d, n) = ProjectAt(Mul(a, s, large), large, n, 0)
    BY SlotDot
  <1> HIDE DEF E, U
  <1>7. T = U
    <2>1. U = [k \in 0..(d - 1) |-> U[k]]
      BY <1>3 DEF Terms
    <2>2. \A k \in 0..(d - 1) : T[k] = U[k]
      BY <1>3, <1>4
    <2>3. QED BY <1>a, <2>1, <2>2
  <1>8. QED BY <1>3, <1>6, <1>7

\* Sums taken from the last term down are the sums of what remains.
LEMMA SumsDown ==
  ASSUME NEW n, NEW num \in Nat, NEW T \in Terms(num, n), NEW h, h[num] = Zero(n),
         \A k \in 0..(num - 1) : h[k] = Add(T[k], h[k + 1])
  PROVE  \A k \in 0..num : h[k] = Sums(T, k, num, n)
  <1> DEFINE S == {i \in 0..num : h[num - i] = Sums(T, num - i, num, n)}
  <1>1. 0 \in S
    <2>1. Sums(T, num, num, n) = Zero(n)
      BY SumsEmpty
    <2>2. num - 0 = num /\ 0 \in 0..num
      OBVIOUS
    <2>3. QED BY <2>1, <2>2
  <1>2. ASSUME NEW i \in 0..(num - 1), i \in S PROVE i + 1 \in S
    <2> DEFINE k == num - (i + 1)
    <2>1. k \in 0..(num - 1) /\ k + 1 = num - i /\ i + 1 \in 0..num /\ k \in Nat /\ k < num
      OBVIOUS
    <2> HIDE DEF k
    <2>2. Sums(T, k, num, n) = Add(T[k], Sums(T, k + 1, num, n))
      BY <2>1, SumsSplit
    <2>3. h[k + 1] = Sums(T, k + 1, num, n)
      BY <1>2, <2>1
    <2>4. h[k] = Sums(T, k, num, n)
      BY <2>1, <2>2, <2>3
    <2>5. QED BY <2>1, <2>4 DEF k
  <1>3. \A i \in 0..num : i \in S
    <2> HIDE DEF S
    <2>1. QED BY <1>1, <1>2, SetInduction
  <1>4. ASSUME NEW k \in 0..num PROVE h[k] = Sums(T, k, num, n)
    <2>1. num - k \in 0..num /\ num - (num - k) = k
      OBVIOUS
    <2>2. num - k \in S
      BY <1>3, <2>1
    <2>3. h[num - (num - k)] = Sums(T, num - (num - k), num, n)
      BY <2>2
    <2>4. QED BY <2>1, <2>3
  <1>5. QED BY <1>4

\* One term more.
LEMMA SumsExtend ==
  ASSUME NEW n, NEW num \in Nat, NEW T \in Terms(num, n), NEW U \in Terms(num + 1, n),
         \A k \in 0..(num - 1) : U[k] = T[k]
  PROVE  Sums(U, 0, num + 1, n) = Add(Sums(T, 0, num, n), U[num])
  <1>1. PICK f \in [0..num -> Poly(n)] : IsSums(f, T, 0, num, n) /\ Sums(T, 0, num, n) = f[num]
    BY SumsExistFrom0
  <1>2. num + 1 \in Nat
    OBVIOUS
  <1>3. PICK g \in [0..(num + 1) -> Poly(n)] :
          IsSums(g, U, 0, num + 1, n) /\ Sums(U, 0, num + 1, n) = g[num + 1]
    BY <1>2, SumsExistFrom0
  <1>4. f[0] = g[0]
    BY <1>1, <1>3 DEF IsSums
  <1>5. ASSUME NEW l \in 1..num, f[l - 1] = g[l - 1] PROVE f[l] = g[l]
    <2>1. l \in (0 + 1)..num /\ l \in (0 + 1)..(num + 1) /\ l - 1 \in 0..(num - 1)
      OBVIOUS
    <2>2. f[l] = Add(f[l - 1], T[l - 1]) /\ g[l] = Add(g[l - 1], U[l - 1])
      BY <1>1, <1>3, <2>1, Zenon DEF IsSums
    <2>3. QED BY <1>5, <2>1, <2>2
  <1>6. \A l \in 0..num : f[l] = g[l]
    <2>1. \A l \in 1..num : f[l - 1] = g[l - 1] => f[l] = g[l]
      BY <1>5
    <2>2. \A y, z : y[0] = z[0] /\ (\A l \in 1..num : y[l - 1] = z[l - 1] => y[l] = z[l])
                    => \A l \in 0..num : y[l] = z[l]
      BY AgreeAll
    <2>3. QED BY <1>4, <2>1, <2>2, Zenon
  <1>7. g[num + 1] = Add(g[num], U[num])
    <2>1. num + 1 \in (0 + 1)..(num + 1) /\ (num + 1) - 1 = num
      OBVIOUS
    <2>2. g[num + 1] = Add(g[(num + 1) - 1], U[(num + 1) - 1])
      BY <1>3, <2>1, Zenon DEF IsSums
    <2>3. QED BY <2>1, <2>2
  <1>8. num \in 0..num
    OBVIOUS
  <1>9. QED BY <1>1, <1>3, <1>6, <1>7, <1>8

\* The accumulator a ring switch starts from.
LEMMA SwitchEnter ==
  ASSUME NEW large, NEW d, NEW n, Tower(large, d, n), NEW body \in Poly(large), NEW m \in Poly(large), NEW s \in Poly(n)
  PROVE  Add(Sub(Sub(ProjectAt(body, large, n, 0), Mul(Zero(n), s, n)), ProjectAt(m, large, n, 0)), Zero(n))
           = ProjectAt(Sub(body, m), large, n, 0)
  <1>1. n \in Nat \ {0} /\ 0 \in 0..(d - 1)
    BY TowerIs
  <1> DEFINE b == ProjectAt(body, large, n, 0)
             c == ProjectAt(m, large, n, 0)
  <1>2. b \in Poly(n) /\ c \in Poly(n) /\ ProjectAt(Sub(body, m), large, n, 0) = Sub(b, c)
    BY <1>1, SlotLinear
  <1> HIDE DEF b, c
  <1>3. Mul(Zero(n), s, n) = Zero(n)
    BY <1>1, MulZero
  <1>4. Sub(b, Zero(n)) = b
    BY <1>2, SubZero
  <1>5. Sub(b, c) \in Poly(n)
    BY <1>2, SubClosed
  <1> DEFINE g == Sub(b, c)
  <1> HIDE DEF g
  <1>6. Add(g, Zero(n)) = g
    BY <1>5, PolySums DEF g
  <1>7. QED BY <1>2, <1>3, <1>4, <1>6 DEF b, c, g

(***************************************************************************)
(* Integers equal up to a multiple of w and an error of at most m.         *)
(***************************************************************************)
Close(w, m, u, v) == \E e, c \in Int : u = v + e + w * c /\ e <= m /\ -e <= m

\* Sums and differences of close integers are close.
LEMMA CloseSum ==
  ASSUME NEW w \in Int, NEW m \in Int, NEW l \in Int,
         NEW u \in Int, NEW v \in Int, NEW y \in Int, NEW z \in Int,
         Close(w, m, u, v), Close(w, l, y, z)
  PROVE  Close(w, m + l, u + y, v + z) /\ Close(w, m + l, u - y, v - z)
  <1>1. PICK e \in Int, c \in Int : u = v + e + w * c /\ e <= m /\ -e <= m
    BY DEF Close
  <1>2. PICK f \in Int, d \in Int : y = z + f + w * d /\ f <= l /\ -f <= l
    BY DEF Close
  <1>3. w * (c + d) = w * c + w * d /\ w * (c - d) = w * c - w * d /\ w * c \in Int /\ w * d \in Int
    <2>1. \A a, b, r \in Int : a * (b + r) = a * b + a * r /\ a * (b - r) = a * b - a * r /\ a * b \in Int
      BY Z3
    <2>2. QED BY <2>1
  <1> DEFINE wc == w * c
             wd == w * d
             ws == w * (c + d)
             wt == w * (c - d)
  <1>4. ws = wc + wd /\ wt = wc - wd /\ wc \in Int /\ wd \in Int /\ u = v + e + wc /\ y = z + f + wd
    BY <1>1, <1>2, <1>3
  <1> HIDE DEF wc, wd, ws, wt
  <1>5. /\ u + y = (v + z) + (e + f) + ws /\ e + f <= m + l /\ -(e + f) <= m + l
        /\ u - y = (v - z) + (e - f) + wt /\ e - f <= m + l /\ -(e - f) <= m + l
    BY <1>1, <1>2, <1>4
  <1>6. e + f \in Int /\ e - f \in Int /\ c + d \in Int /\ c - d \in Int
    OBVIOUS
  <1>7. QED BY <1>5, <1>6, Zenon DEF Close, ws, wt

\* Close to what is close.
LEMMA CloseTrans ==
  ASSUME NEW w \in Int, NEW m \in Int, NEW l \in Int, NEW u \in Int, NEW v \in Int, NEW z \in Int,
         Close(w, m, u, v), Close(w, l, v, z)
  PROVE  Close(w, m + l, u, z)
  <1>1. PICK e \in Int, c \in Int : u = v + e + w * c /\ e <= m /\ -e <= m
    BY DEF Close
  <1>2. PICK f \in Int, d \in Int : v = z + f + w * d /\ f <= l /\ -f <= l
    BY DEF Close
  <1>3. w * (c + d) = w * c + w * d /\ w * c \in Int /\ w * d \in Int
    <2>1. \A a, b, r \in Int : a * (b + r) = a * b + a * r /\ a * b \in Int
      BY Z3
    <2>2. QED BY <2>1
  <1> DEFINE wc == w * c
             wd == w * d
             ws == w * (c + d)
  <1>4. ws = wc + wd /\ wc \in Int /\ wd \in Int /\ u = v + e + wc /\ v = z + f + wd
    BY <1>1, <1>2, <1>3
  <1> HIDE DEF wc, wd, ws
  <1>5. u = z + (e + f) + ws /\ e + f <= m + l /\ -(e + f) <= m + l /\ e + f \in Int /\ c + d \in Int
    BY <1>1, <1>2, <1>4
  <1>6. QED BY <1>5, Zenon DEF Close, ws

\* Closeness is symmetric.
LEMMA CloseSym ==
  ASSUME NEW w \in Int, NEW m \in Int, NEW u \in Int, NEW v \in Int, Close(w, m, u, v)
  PROVE  Close(w, m, v, u)
  <1>1. PICK e \in Int, c \in Int : u = v + e + w * c /\ e <= m /\ -e <= m
    BY DEF Close
  <1>2. w * (-c) = -(w * c) /\ w * c \in Int
    <2>1. \A a, b \in Int : a * (-b) = -(a * b) /\ a * b \in Int
      BY Z3
    <2>2. QED BY <2>1
  <1> DEFINE wc == w * c
             wn == w * (-c)
  <1>3. wn = -wc /\ wc \in Int /\ u = v + e + wc
    BY <1>1, <1>2
  <1> HIDE DEF wc, wn
  <1>4. v = u + (-e) + wn /\ -e \in Int /\ -c \in Int /\ -e <= m /\ -(-e) <= m
    BY <1>1, <1>3
  <1>5. QED BY <1>4, Zenon DEF Close, wn

\* Everything scaled, the modulus and the error too.
LEMMA CloseScale ==
  ASSUME NEW w \in Int, NEW m \in Int, NEW u \in Int, NEW v \in Int, NEW k \in Nat, Close(w, m, u, v)
  PROVE  Close(k * w, k * m, k * u, k * v)
  <1>1. PICK e \in Int, c \in Int : u = v + e + w * c /\ e <= m /\ -e <= m
    BY DEF Close
  <1>2. k * u = k * v + k * e + (k * w) * c
    <2>1. \A a, b, f, r, d \in Int : r * (a + b + f * d) = r * a + r * b + (r * f) * d
      BY Z3
    <2>2. QED BY <1>1, <2>1
  <1>3. k * e <= k * m /\ -(k * e) <= k * m /\ k * e \in Int
    <2>1. \A a, b \in Int, r \in Nat : (a <= b => r * a <= r * b) /\ (-a <= b => -(r * a) <= r * b) /\ r * a \in Int
      BY Z3
    <2>2. QED BY <1>1, <2>1
  <1>4. QED BY <1>2, <1>3, Zenon DEF Close

\* Both sides times an integer of at most l.
LEMMA CloseTimes ==
  ASSUME NEW w \in Int, NEW m \in Nat, NEW u \in Int, NEW v \in Int, NEW k \in Int, NEW l \in Nat,
         k <= l, -k <= l, Close(w, m, u, v)
  PROVE  Close(w, m * l, k * u, k * v)
  <1>1. PICK e \in Int, c \in Int : u = v + e + w * c /\ e <= m /\ -e <= m
    BY DEF Close
  <1>2. k * u = k * v + k * e + w * (k * c)
    <2>1. \A a, b, f, r, d \in Int : r * (a + b + f * d) = r * a + r * b + f * (r * d)
      BY Z3
    <2>2. QED BY <1>1, <2>1
  <1>3. k * e <= m * l /\ -(k * e) <= m * l /\ k * e \in Int /\ k * c \in Int
    <2>1. \A a, b \in Int : a * b \in Int
      BY Z3
    <2>2. \A a, b \in Int, r, t \in Nat : a <= r /\ -a <= r /\ b <= t /\ -b <= t => a * b <= t * r /\ -(a * b) <= t * r
      <3>1. ASSUME NEW a \in Int, NEW b \in Int, NEW r \in Nat, NEW t \in Nat, a <= r, -a <= r, b <= t, -b <= t
            PROVE a * b <= t * r /\ -(a * b) <= t * r
        <4>1. (t - b) * (r + a) >= 0 /\ (t + b) * (r - a) >= 0
          <5>1. \A x, y \in Nat : x * y >= 0
            BY Z3
          <5>2. t - b \in Nat /\ r + a \in Nat /\ t + b \in Nat /\ r - a \in Nat
            BY <3>1
          <5>3. QED BY <5>1, <5>2
        <4>2. (t - b) * (r - a) >= 0 /\ (t + b) * (r + a) >= 0
          <5>1. \A x, y \in Nat : x * y >= 0
            BY Z3
          <5>2. t - b \in Nat /\ r + a \in Nat /\ t + b \in Nat /\ r - a \in Nat
            BY <3>1
          <5>3. QED BY <5>1, <5>2
        <4>3. QED BY <4>1, <4>2, Z3
      <3>2. QED BY <3>1
    <2>3. QED BY <1>1, <2>1, <2>2
  <1>4. QED BY <1>2, <1>3, Zenon DEF Close

\* A smaller modulus, a larger error.
LEMMA CloseWeaken ==
  ASSUME NEW w \in Int, NEW m \in Int, NEW u \in Int, NEW v \in Int, Close(w, m, u, v),
         NEW y \in Int, NEW d \in Int, w = y * d, NEW l \in Int, m <= l
  PROVE  Close(y, l, u, v)
  <1>1. PICK e \in Int, c \in Int : u = v + e + w * c /\ e <= m /\ -e <= m
    BY DEF Close
  <1>2. w * c = y * (d * c) /\ d * c \in Int
    <2>1. \A a, b, r \in Int : (a * b) * r = a * (b * r) /\ b * r \in Int
      BY Z3
    <2>2. QED BY <2>1
  <1>3. e <= l /\ -e <= l /\ u = v + e + y * (d * c)
    BY <1>1, <1>2
  <1>4. QED BY <1>2, <1>3, Zenon DEF Close

\* Integers are close to themselves, and to their remainders.
LEMMA CloseMod ==
  ASSUME NEW w \in Nat \ {0}, NEW u \in Int
  PROVE  Close(w, 0, u % w, u) /\ Close(w, 0, u, u % w) /\ Close(w, 0, u, u) /\ u % w \in Int
  <1>1. u % w \in Int /\ u \div w \in Int /\ u = w * (u \div w) + (u % w)
    BY IntDivMod
  <1> DEFINE c == u \div w
             r == u % w
  <1>2. c \in Int /\ r \in Int /\ u = w * c + r
    BY <1>1
  <1> HIDE DEF c, r
  <1>3. w * (-c) = -(w * c) /\ w * c \in Int /\ w * 0 = 0
    <2>1. \A a, b \in Int : a * (-b) = -(a * b) /\ a * b \in Int /\ a * 0 = 0
      BY Z3
    <2>2. QED BY <1>2, <2>1
  <1>4. /\ r = u + 0 + w * (-c) /\ u = r + 0 + w * c /\ u = u + 0 + w * 0
        /\ 0 \in Int /\ -c \in Int /\ 0 <= 0 /\ -0 <= 0
    BY <1>2, <1>3
  <1>5. Close(w, 0, r, u) /\ Close(w, 0, u, r) /\ Close(w, 0, u, u)
    BY <1>2, <1>4, Zenon DEF Close
  <1>6. QED BY <1>2, <1>5 DEF r

\* The centred remainder of a difference is the smallest error.
LEMMA CloseCentered ==
  ASSUME NEW w \in Nat \ {0}, NEW m \in Nat, NEW u \in Int, NEW v \in Int, Close(w, m, u, v)
  PROVE  LET z == (u - v) % w
             a == IF z <= w \div 2 THEN z ELSE z - w
         IN  a \in Int /\ a <= m /\ -a <= m
  <1> DEFINE z == (u - v) % w
             a == IF z <= w \div 2 THEN z ELSE z - w
             h == w \div 2
             c == (u - v) \div w
  <1>1. z \in 0..(w - 1) /\ c \in Int /\ u - v = w * c + z /\ h \in Int /\ 2 * h <= w /\ w <= 2 * h + 1
    <2>1. z \in 0..(w - 1) /\ c \in Int /\ u - v = w * c + z
      <3>1. u - v \in Int
        OBVIOUS
      <3>2. QED BY <3>1, IntDivMod
    <2>2. \A b \in Nat \ {0} : b \div 2 \in Int /\ 2 * (b \div 2) <= b /\ b <= 2 * (b \div 2) + 1
      BY Z3
    <2>3. u - v \in Int
      OBVIOUS
    <2>4. QED BY <2>1, <2>2, <2>3
  <1>2. PICK e \in Int, d \in Int : u = v + e + w * d /\ e <= m /\ -e <= m
    BY DEF Close
  <1> HIDE DEF z, c, h
  <1>3. PICK k \in Int : z = e + w * k
    <2>1. w * (d - c) = w * d - w * c /\ w * d \in Int /\ w * c \in Int
      <3>1. \A x, y, b \in Int : b * (x - y) = b * x - b * y /\ b * x \in Int
        BY Z3
      <3>2. QED BY <1>1, <3>1
    <2>2. z = e + w * (d - c) /\ d - c \in Int
      <3> DEFINE wd == w * d
                 wc == w * c
                 ws == w * (d - c)
      <3>1. ws = wd - wc /\ wd \in Int /\ wc \in Int /\ u = v + e + wd /\ u - v = wc + z
        BY <1>1, <1>2, <2>1
      <3> HIDE DEF wd, wc, ws
      <3>2. z = e + ws
        BY <1>1, <1>2, <3>1
      <3>3. QED BY <1>1, <3>2 DEF ws
    <2>3. QED BY <2>2
  <1> DEFINE t == w * k
  <1>4. t \in Int /\ (k <= -1 => t <= -w) /\ (k = 0 => t = 0) /\ (k >= 1 => t >= w)
    <2>1. \A x \in Int, b \in Nat : b * x \in Int /\ (x <= -1 => b * x <= -b) /\ (x = 0 => b * x = 0) /\ (x >= 1 => b * x >= b)
      BY Z3
    <2>2. QED BY <2>1
  <1>5. z = e + t
    BY <1>3
  <1> HIDE DEF t
  <1>6. a \in Int /\ a <= m /\ -a <= m
    <2>1. CASE z <= h
      BY <1>1, <1>2, <1>4, <1>5, <2>1
    <2>2. CASE z > h
      BY <1>1, <1>2, <1>4, <1>5, <2>2
    <2>3. QED BY <1>1, <2>1, <2>2
  <1>7. QED BY <1>6 DEF z, h

\* What the coefficient of g that coefficient i of a factor meets is worth
\* for coefficient x of their product.
Met(g, n, x, i) == IF i <= x THEN g[x - i] ELSE -g[n + x - i]

\* q adds up, modulo p, coefficient x of the product of s and g.
Steps(p, q, s, g, n, x) ==
  /\ q \in [0..n -> Int] /\ q[0] = 0
  /\ \A i \in 1..n : Close(p, 0, q[i], q[i - 1] + s[i - 1] * Met(g, n, x, i - 1))

\* A product with integers reduced modulo P adds them up.
LEMMA ProductSteps ==
  ASSUME NEW n \in Nat \ {0}, NEW s \in [0..(n - 1) -> Int], NEW g \in Poly(n), NEW x \in 0..(n - 1)
  PROVE  \E q : Steps(P, q, s, g, n, x) /\ Mul(g, [i \in 0..(n - 1) |-> s[i] % P], n)[x] = q[n]
  <1> DEFINE f == [i \in 0..(n - 1) |-> s[i] % P]
  <1>0. P \in Nat \ {0} /\ P \in Int
    BY ModulusAssumption
  <1>a. \A y \in 0..(n - 1) : g[y] \in Int /\ g[y] \in Coeff
    <2>1. \A y \in 0..(n - 1) : g[y] \in Coeff
      BY PolyAt
    <2>2. QED BY <2>1, CoeffClosed
  <1>1. f \in Poly(n) /\ \A i \in 0..(n - 1) : f[i] = s[i] % P
    <2>1. \A i \in 0..(n - 1) : s[i] % P \in Coeff
      BY IntMod
    <2>2. QED BY <2>1 DEF Poly
  <1> HIDE DEF f
  <1>2. PICK B \in [0..n -> Poly(n)] : MulSteps(B, f, g, n) /\ Mul(f, g, n) = B[n]
    BY <1>1, MulUnfolds
  <1>3. Mul(g, f, n)[x] = B[n][x]
    BY <1>1, <1>2, MulComm
  <1> DEFINE q == [i \in 0..n |-> B[i][x]]
  <1>4. \A i \in 0..n : q[i] = B[i][x] /\ q[i] \in Coeff
    <2>1. ASSUME NEW i \in 0..n PROVE B[i][x] \in Coeff
      <3>1. B[i] \in Poly(n)
        OBVIOUS
      <3>2. QED BY <3>1, PolyAt
    <2>2. QED BY <2>1
  <1>5. q \in [0..n -> Int] /\ q[0] = 0
    <2>1. \A i \in 0..n : q[i] \in Int
      BY <1>4, CoeffClosed
    <2>2. q = [i \in 0..n |-> q[i]]
      BY Zenon, <1>4
    <2>3. q[0] = 0
      <3>1. B[0] = Zero(n) /\ 0 \in 0..n
        BY <1>2 DEF MulSteps
      <3>2. Zero(n)[x] = 0
        BY DEF Zero
      <3>3. QED BY <1>4, <3>1, <3>2
    <2> HIDE DEF q
    <2>4. QED BY <2>1, <2>2, <2>3
  <1>6. ASSUME NEW i \in 1..n
        PROVE  Close(P, 0, q[i], q[i - 1] + s[i - 1] * Met(g, n, x, i - 1))
    <2>0. i \in 0..n /\ i - 1 \in 0..n /\ i - 1 \in 0..(n - 1)
      OBVIOUS
    <2> DEFINE b == Rot(g, n, i - 1)[x]
               t == Met(g, n, x, i - 1)
               a == f[i - 1]
               c == s[i - 1]
    <2>1. B[i] = Add(B[i - 1], Scale(f[i - 1], Rot(g, n, i - 1)))
      BY <1>2 DEF MulSteps
    <2>2. B[i - 1] \in Poly(n) /\ f[i - 1] \in Coeff /\ Rot(g, n, i - 1) \in Poly(n)
      BY <1>1, <2>0, PolyAt, RotSteps
    <2>3. Scale(f[i - 1], Rot(g, n, i - 1)) \in Poly(n)
          /\ Scale(f[i - 1], Rot(g, n, i - 1))[x] = CMul(a, b)
      <3>1. Scale(f[i - 1], Rot(g, n, i - 1)) \in Poly(n)
        BY <2>2, PolyAt
      <3>2. Scale(f[i - 1], Rot(g, n, i - 1))[x] = CMul(f[i - 1], Rot(g, n, i - 1)[x])
        BY <2>2, ScaleAt
      <3>3. QED BY <3>1, <3>2
    <2>4. B[i][x] = CAdd(B[i - 1][x], CMul(a, b))
      BY <2>1, <2>2, <2>3, SumAt
    <2>5. /\ a \in Int /\ a = c % P /\ c \in Int
          /\ b \in Int
      <3>1. b \in Coeff
        BY <2>2, PolyAt
      <3>2. a \in Coeff /\ a = c % P /\ c \in Int
        BY <1>1, <2>0, <2>2
      <3> HIDE DEF a, b, c
      <3>3. QED BY <3>1, <3>2, CoeffClosed
    <2>6. Close(P, 0, b, t) /\ t \in Int
      <3>1. CASE i - 1 <= x
        <4>1. x - (i - 1) \in 0..(n - 1)
          BY <3>1
        <4>2. g[x - (i - 1)] \in Int
          BY <4>1, <1>a
        <4>3. b = g[x - (i - 1)] /\ t = g[x - (i - 1)]
          BY <3>1, Zenon DEF Rot, Met
        <4> HIDE DEF b, t
        <4>4. QED BY <1>0, <4>2, <4>3, CloseMod
      <3>2. CASE ~(i - 1 <= x)
        <4> DEFINE y == n + x - (i - 1)
                   z == g[y]
        <4>1. y \in 0..(n - 1)
          BY <3>2
        <4>2. z \in Int /\ z \in Coeff
          BY <4>1, <1>a
        <4>3. b = CNeg(z) /\ t = -z
          BY <3>2, Zenon DEF Rot, Met
        <4> HIDE DEF b, t, z
        <4>4. CNeg(z) = (-z) % P /\ -z \in Int
          <5>1. z % P = z
            BY <4>2, CoeffClosed
          <5>2. CNeg(z % P) = (-z) % P
            BY <4>2, IntMod
          <5>3. QED BY <4>2, <5>1, <5>2
        <4>5. Close(P, 0, (-z) % P, -z)
          BY <1>0, <4>4, CloseMod
        <4>6. QED BY <4>3, <4>4, <4>5
      <3>3. QED BY <3>1, <3>2
    <2> DEFINE v == q[i - 1]
    <2>7. v \in Int /\ B[i - 1][x] = v /\ q[i] = B[i][x]
      BY <1>4, <1>5, <2>0
    <2> HIDE DEF q, a, b, c, t, v
    <2>8. Close(P, 0, a * b, c * t)
      <3>1. Close(P, 0, a, c)
        BY <1>0, <2>5, CloseMod
      <3>2. \E l \in Nat : b <= l /\ -b <= l
        <4>1. CASE b >= 0
          <5>1. b \in Nat /\ b <= b /\ -b <= b
            BY <2>5, <4>1
          <5>2. QED BY <5>1
        <4>2. CASE b < 0
          <5>1. -b \in Nat /\ b <= -b /\ -b <= -b
            BY <2>5, <4>2
          <5>2. QED BY <5>1
        <4>3. QED BY <2>5, <4>1, <4>2
      <3>3. PICK l \in Nat : b <= l /\ -b <= l
        BY <3>2
      <3>4. Close(P, 0 * l, b * a, b * c)
        BY <1>0, <2>5, <3>1, <3>3, CloseTimes
      <3>5. \E l2 \in Nat : c <= l2 /\ -c <= l2
        <4>1. CASE c >= 0
          <5>1. c \in Nat /\ c <= c /\ -c <= c
            BY <2>5, <4>1
          <5>2. QED BY <5>1
        <4>2. CASE c < 0
          <5>1. -c \in Nat /\ c <= -c /\ -c <= -c
            BY <2>5, <4>2
          <5>2. QED BY <5>1
        <4>3. QED BY <2>5, <4>1, <4>2
      <3>6. PICK l2 \in Nat : c <= l2 /\ -c <= l2
        BY <3>5
      <3>7. Close(P, 0 * l2, c * b, c * t)
        BY <1>0, <2>5, <2>6, <3>6, CloseTimes
      <3>8. /\ 0 * l = 0 /\ 0 * l2 = 0 /\ 0 + 0 = 0 /\ b * a = a * b /\ b * c = c * b
            /\ a * b \in Int /\ c * b \in Int /\ c * t \in Int
        <4>1. \A y, z \in Int : y * z = z * y /\ y * z \in Int /\ 0 * y = 0
          BY Z3
        <4>2. QED BY <2>5, <2>6, <3>3, <3>6, <4>1
      <3>9. Close(P, 0, a * b, c * b) /\ Close(P, 0, c * b, c * t)
        BY <3>4, <3>7, <3>8
      <3>10. Close(P, 0 + 0, a * b, c * t)
        BY <1>0, <3>8, <3>9, CloseTrans
      <3>11. QED BY <3>8, <3>10
    <2> DEFINE ab == a * b
               ct == c * t
    <2>9. ab \in Int /\ ct \in Int
      <3>1. \A y, z \in Int : y * z \in Int
        BY Z3
      <3>2. QED BY <2>5, <2>6, <3>1
    <2>10. q[i] = (v + (ab % P)) % P
      BY <2>4, <2>7 DEF CAdd, CMul
    <2> HIDE DEF ab, ct
    <2>11. ab % P \in Int /\ Close(P, 0, ab % P, ab) /\ v + (ab % P) \in Int /\ q[i] \in Int
           /\ Close(P, 0, q[i], v + (ab % P))
      <3>1. ab % P \in Int /\ Close(P, 0, ab % P, ab)
        BY <1>0, <2>9, CloseMod
      <3>2. v + (ab % P) \in Int
        BY <2>7, <3>1
      <3>3. QED BY <1>0, <2>10, <3>1, <3>2, CloseMod
    <2>12. Close(P, 0, ab, ct)
      BY <2>8 DEF ab, ct
    <2>13. Close(P, 0, ab % P, ct) /\ Close(P, 0, v, v) /\ 0 + 0 = 0
      <3>1. Close(P, 0 + 0, ab % P, ct)
        BY <1>0, <2>9, <2>11, <2>12, CloseTrans
      <3>2. Close(P, 0, v, v)
        BY <1>0, <2>7, CloseMod
      <3>3. QED BY <3>1, <3>2
    <2>14. Close(P, 0, ab % P, ct) /\ 0 + 0 = 0
      BY <2>13
    <2>15. Close(P, 0 + 0, v + (ab % P), v + ct)
      BY <1>0, <2>7, <2>9, <2>11, <2>13, <2>14, CloseSum
    <2>16. Close(P, 0 + 0, q[i], v + ct)
      <3>1. v + ct \in Int
        BY <2>7, <2>9
      <3>2. Close(P, 0, v + (ab % P), v + ct)
        BY <2>14, <2>15
      <3>3. QED BY <1>0, <2>11, <3>1, <3>2, CloseTrans
    <2>17. QED BY <2>14, <2>16 DEF ct, v, c, t
  <1>7. Steps(P, q, s, g, n, x)
    <2> HIDE DEF q
    <2>1. QED BY <1>5, <1>6, Zenon DEF Steps
  <1>8. Mul(g, f, n)[x] = q[n]
    BY <1>3
  <1> HIDE DEF q
  <1>9. QED BY <1>7, <1>8, Zenon DEF f

\* h adds up the absolute values of s.
Weights(h, s, n) ==
  /\ h \in [0..n -> Nat] /\ h[0] = 0
  /\ \A i \in 1..n : h[i] = h[i - 1] + (IF s[i - 1] >= 0 THEN s[i - 1] ELSE -s[i - 1])

\* Coefficients close modulo w once scaled by a and b, at moduli that these
\* make multiples of w.
Related(w, m, a, b, p, r, g, f, n) ==
  /\ g \in [0..(n - 1) -> Int] /\ f \in [0..(n - 1) -> Int]
  /\ \E d \in Int : a * p = w * d
  /\ \E d \in Int : b * r = w * d
  /\ \A y \in 0..(n - 1) : Close(w, m, a * g[y], b * f[y])

\* The products of related polynomials with s are close, by the errors times
\* the absolute values of s.
LEMMA StepsClose ==
  ASSUME NEW w \in Int, NEW m \in Nat, NEW a \in Nat, NEW b \in Nat, NEW p \in Int, NEW r \in Int,
         NEW n \in Nat \ {0}, NEW g, NEW f, Related(w, m, a, b, p, r, g, f, n),
         NEW s \in [0..(n - 1) -> Int], NEW x \in 0..(n - 1),
         NEW q, NEW u, Steps(p, q, s, g, n, x), Steps(r, u, s, f, n, x), NEW h, Weights(h, s, n)
  PROVE  Close(w, m * h[n], a * q[n], b * u[n])
  <1> DEFINE S == {i \in 0..n : Close(w, m * h[i], a * q[i], b * u[i])}
  <1>1. /\ q \in [0..n -> Int] /\ q[0] = 0 /\ u \in [0..n -> Int] /\ u[0] = 0 /\ h \in [0..n -> Nat] /\ h[0] = 0
    BY DEF Steps, Weights
  <1>2. 0 \in S
    <2>1. m * h[0] = 0 /\ a * q[0] = 0 /\ b * u[0] = 0 /\ 0 \in 0..n
      BY <1>1
    <2>2. Close(w, 0, 0, 0)
      <3>1. 0 = 0 + 0 + w * 0 /\ 0 <= 0 /\ -0 <= 0
        BY Z3
      <3>2. QED BY <3>1 DEF Close
    <2>3. QED BY <2>1, <2>2
  <1>3. ASSUME NEW k \in 0..(n - 1), k \in S PROVE k + 1 \in S
    <2>0. k + 1 \in 1..n /\ k + 1 \in 0..n /\ k \in 0..n /\ (k + 1) - 1 = k
      OBVIOUS
    <2> DEFINE mg == Met(g, n, x, k)
               mf == Met(f, n, x, k)
               sk == s[k]
               l == IF sk >= 0 THEN sk ELSE -sk
               q0 == q[k]
               q1 == q[k + 1]
               u0 == u[k]
               u1 == u[k + 1]
               h0 == h[k]
               h1 == h[k + 1]
    <2>1. /\ Close(p, 0, q1, q0 + sk * mg) /\ Close(r, 0, u1, u0 + sk * mf) /\ h1 = h0 + l
      <3>1. \A i \in 1..n : Close(p, 0, q[i], q[i - 1] + s[i - 1] * Met(g, n, x, i - 1))
        BY DEF Steps
      <3>2. \A i \in 1..n : Close(r, 0, u[i], u[i - 1] + s[i - 1] * Met(f, n, x, i - 1))
        BY DEF Steps
      <3>3. \A i \in 1..n : h[i] = h[i - 1] + (IF s[i - 1] >= 0 THEN s[i - 1] ELSE -s[i - 1])
        BY DEF Weights
      <3>4. QED BY <2>0, <3>1, <3>2, <3>3, Zenon
    <2>2. q0 \in Int /\ q1 \in Int /\ u0 \in Int /\ u1 \in Int /\ h0 \in Nat /\ h1 \in Nat /\ sk \in Int
          /\ l \in Nat /\ sk <= l /\ -sk <= l
      <3>1. sk \in Int
        OBVIOUS
      <3>2. l \in Nat /\ sk <= l /\ -sk <= l
        <4> HIDE DEF sk
        <4>1. QED BY <3>1
      <3>3. QED BY <1>1, <2>0, <3>1, <3>2
    <2>3. mg \in Int /\ mf \in Int /\ Close(w, m, a * mg, b * mf)
      <3>0. /\ g \in [0..(n - 1) -> Int] /\ f \in [0..(n - 1) -> Int]
            /\ \A y \in 0..(n - 1) : Close(w, m, a * g[y], b * f[y])
        BY DEF Related
      <3>1. CASE k <= x
        <4>1. x - k \in 0..(n - 1)
          BY <3>1
        <4>2. mg = g[x - k] /\ mf = f[x - k]
          BY <3>1, Zenon DEF Met
        <4>3. QED BY <3>0, <4>1, <4>2
      <3>2. CASE ~(k <= x)
        <4> DEFINE y == n + x - k
                   gy == g[y]
                   fy == f[y]
        <4>1. y \in 0..(n - 1)
          BY <3>2
        <4>2. mg = -gy /\ mf = -fy
          BY <3>2, Zenon DEF Met
        <4>3. gy \in Int /\ fy \in Int /\ Close(w, m, a * gy, b * fy)
          BY <3>0, <4>1
        <4> HIDE DEF y, gy, fy, mg, mf
        <4>4. a * (-gy) = 0 - a * gy /\ b * (-fy) = 0 - b * fy /\ a * gy \in Int /\ b * fy \in Int
          <5>1. \A c \in Nat, z \in Int : c * (-z) = 0 - c * z /\ c * z \in Int
            BY Z3
          <5>2. QED BY <4>3, <5>1
        <4> DEFINE ag == a * gy
                   bf == b * fy
        <4>5. Close(w, 0, 0, 0)
          <5>1. 0 = 0 + 0 + w * 0 /\ 0 <= 0 /\ -0 <= 0
            BY Z3
          <5>2. QED BY <5>1 DEF Close
        <4>6. ag \in Int /\ bf \in Int /\ Close(w, m, ag, bf)
          BY <4>3, <4>4
        <4>7. a * mg = 0 - ag /\ b * mf = 0 - bf
          BY <4>2, <4>4
        <4> HIDE DEF ag, bf
        <4>8. Close(w, 0 + m, 0 - ag, 0 - bf) /\ 0 + m = m
          BY <4>5, <4>6, CloseSum
        <4>9. Close(w, m, 0 - ag, 0 - bf)
          BY <4>8
        <4>10. QED BY <4>2, <4>3, <4>7, <4>9
      <3>3. QED BY <3>1, <3>2
    <2>4. Close(w, m * h0, a * q0, b * u0)
      BY <1>3
    <2> HIDE DEF mg, mf, sk, l, q0, q1, u0, u1, h0, h1
    <2>5. /\ sk * mg \in Int /\ sk * mf \in Int /\ a * mg \in Int /\ b * mf \in Int
          /\ a * q0 \in Int /\ b * u0 \in Int /\ a * q1 \in Int /\ b * u1 \in Int /\ m * h0 \in Int /\ m * l \in Int
          /\ a * p \in Int /\ b * r \in Int
          /\ a * (sk * mg) = sk * (a * mg) /\ b * (sk * mf) = sk * (b * mf)
          /\ sk * (a * mg) \in Int /\ sk * (b * mf) \in Int
      <3>1. \A y, z \in Int : y * z \in Int
        BY Z3
      <3>2. \A c, y, z \in Int : c * (y * z) = y * (c * z)
        BY Z3
      <3>3. QED BY <2>2, <2>3, <3>1, <3>2
    <2> DEFINE G == sk * mg
               F == sk * mf
    <2>6. Close(w, m * l, a * G, b * F) /\ G \in Int /\ F \in Int /\ a * G \in Int /\ b * F \in Int
      <3>1. Close(w, m * l, sk * (a * mg), sk * (b * mf))
        BY <2>2, <2>3, <2>5, CloseTimes
      <3>2. QED BY <2>5, <3>1
    <2> HIDE DEF G, F
    <2> DEFINE qG == q0 + G
               uF == u0 + F
    <2>7. Close(p, 0, q1, qG) /\ Close(r, 0, u1, uF) /\ qG \in Int /\ uF \in Int
      <3>1. q0 + G \in Int /\ u0 + F \in Int
        BY <2>2, <2>6
      <3>2. Close(p, 0, q1, qG) /\ Close(r, 0, u1, uF)
        BY <2>1, Zenon DEF G, F
      <3>3. QED BY <3>1, <3>2
    <2>8. /\ a * qG = a * q0 + a * G /\ b * uF = b * u0 + b * F
          /\ m * h1 = m * h0 + m * l /\ a * 0 = 0 /\ b * 0 = 0
          /\ a * qG \in Int /\ b * uF \in Int
      <3>1. \A c \in Nat, y, z \in Int : c * (y + z) = c * y + c * z /\ c * 0 = 0 /\ c * y \in Int
        BY Z3
      <3>2. QED BY <2>1, <2>2, <2>6, <2>7, <3>1
    <2> HIDE DEF qG, uF
    <2>z. 0 \in Int /\ w \in Int
      OBVIOUS
    <2>9. Close(w, 0, a * q1, a * qG) /\ Close(w, 0, b * u1, b * uF)
      <3>1. Close(a * p, a * 0, a * q1, a * qG)
        BY <2>2, <2>7, <2>z, CloseScale, Zenon
      <3>2. Close(b * r, b * 0, b * u1, b * uF)
        BY <2>2, <2>7, <2>z, CloseScale, Zenon
      <3>3. PICK d \in Int : a * p = w * d
        BY DEF Related
      <3>4. PICK e \in Int : b * r = w * e
        BY DEF Related
      <3> DEFINE ap == a * p
                 br == b * r
                 aq1 == a * q1
                 aqG == a * qG
                 bu1 == b * u1
                 buF == b * uF
      <3>5. /\ ap \in Int /\ br \in Int /\ aq1 \in Int /\ aqG \in Int /\ bu1 \in Int /\ buF \in Int
            /\ ap = w * d /\ br = w * e /\ Close(ap, 0, aq1, aqG) /\ Close(br, 0, bu1, buF) /\ 0 <= 0
        BY <2>5, <2>8, <3>1, <3>2, <3>3, <3>4
      <3> HIDE DEF ap, br, aq1, aqG, bu1, buF
      <3>6. Close(w, 0, aq1, aqG)
        BY <3>3, <3>4, <3>5, <2>z, CloseWeaken, Zenon
      <3>7. Close(w, 0, bu1, buF)
        BY <3>3, <3>4, <3>5, <2>z, CloseWeaken, Zenon
      <3>8. QED BY <3>6, <3>7 DEF aq1, aqG, bu1, buF
    <2> DEFINE A0 == a * q0
               AG == a * G
               A1 == a * q1
               B0 == b * u0
               BF == b * F
               B1 == b * u1
               E0 == m * h0
               E1 == m * l
    <2>10. /\ A0 \in Int /\ AG \in Int /\ A1 \in Int /\ B0 \in Int /\ BF \in Int /\ B1 \in Int /\ E0 \in Int /\ E1 \in Int
           /\ Close(w, 0, A1, A0 + AG) /\ Close(w, 0, B1, B0 + BF) /\ Close(w, E0, A0, B0) /\ Close(w, E1, AG, BF)
           /\ m * h1 = E0 + E1
      BY <2>4, <2>5, <2>6, <2>8, <2>9
    <2> HIDE DEF A0, AG, A1, B0, BF, B1, E0, E1
    <2>11. A0 + AG \in Int /\ B0 + BF \in Int /\ E0 + E1 \in Int /\ Close(w, E0 + E1, A0 + AG, B0 + BF)
      BY <2>10, CloseSum
    <2>12. Close(w, 0, B0 + BF, B1)
      BY <2>10, <2>11, CloseSym, SMTT(30)
    <2>13. Close(w, 0 + (E0 + E1), A1, B0 + BF) /\ 0 + (E0 + E1) \in Int
      BY <2>10, <2>11, CloseTrans, SMTT(30)
    <2>14. Close(w, (0 + (E0 + E1)) + 0, A1, B1)
      BY <2>10, <2>11, <2>12, <2>13, CloseTrans
    <2>15. (0 + (E0 + E1)) + 0 = m * h1
      BY <2>10
    <2>16. Close(w, m * h1, A1, B1)
      BY <2>14, <2>15
    <2>17. QED BY <2>0, <2>16, Zenon DEF A1, B1, q1, u1, h1
  <1>4. \A i \in 0..n : i \in S
    <2> HIDE DEF S
    <2>1. QED BY <1>2, <1>3, SetInduction
  <1>5. n \in 0..n
    OBVIOUS
  <1>6. QED BY <1>4, <1>5

\* A difference of polynomials at a coefficient.
LEMMA SubAt ==
  ASSUME NEW n, NEW f \in Poly(n), NEW g \in Poly(n), NEW x \in 0..(n - 1)
  PROVE  /\ f[x] \in Int /\ g[x] \in Int
         /\ Sub(f, g)[x] \in Int /\ Sub(f, g)[x] = (f[x] - g[x]) % P /\ Add(f, g)[x] = (f[x] + g[x]) % P
  <1>1. Neg(g) \in Poly(n) /\ Neg(g)[x] = CNeg(g[x])
    BY PolyAt
  <1>2. Sub(f, g)[x] = CAdd(f[x], Neg(g)[x]) /\ Add(f, g)[x] = CAdd(f[x], g[x])
    BY <1>1, SumAt DEF Sub
  <1>3. f[x] \in Coeff /\ g[x] \in Coeff
    BY PolyAt
  <1> DEFINE a == f[x]
             b == g[x]
  <1>4. a \in Int /\ a % P = a /\ b \in Int /\ b % P = b
    BY <1>3, CoeffClosed
  <1>5. Sub(f, g)[x] = CAdd(a, CNeg(b)) /\ Add(f, g)[x] = CAdd(a, b)
    BY <1>1, <1>2
  <1> HIDE DEF a, b
  <1>6. CNeg(b) = (-b) % P /\ -b \in Int
    BY <1>4, IntMod
  <1>7. CAdd(a, CNeg(b)) = (a + (-b)) % P /\ CAdd(a, b) = (a + b) % P
    <2>1. CAdd(a % P, (-b) % P) = (a + (-b)) % P
      BY <1>4, <1>6, IntMod
    <2>2. CAdd(a % P, b % P) = (a + b) % P
      BY <1>4, IntMod
    <2>3. QED BY <1>4, <1>6, <2>1, <2>2
  <1>8. a + (-b) = a - b /\ a - b \in Int
    BY <1>4
  <1>9. (a - b) % P \in Coeff
    <2>1. \A u \in Int : u % P \in Coeff
      BY IntMod
    <2>2. QED BY <1>8, <2>1
  <1>10. (a - b) % P \in Int
    BY <1>9, CoeffClosed
  <1>11. QED BY <1>4, <1>5, <1>7, <1>8, <1>10 DEF a, b

\* What is left of a fresh ciphertext's body without the mask's part.
LEMMA EncryptPhase ==
  ASSUME NEW n \in Nat \ {0}, NEW a \in Poly(n), NEW s \in Poly(n), NEW e \in Poly(n), NEW m \in Poly(n)
  PROVE  /\ Add(Add(Mul(a, s, n), e), m) \in Poly(n)
         /\ Sub(Add(Add(Mul(a, s, n), e), m), Mul(a, s, n)) = Add(e, m)
  <1> DEFINE u == Mul(a, s, n)
  <1>1. u \in Poly(n)
    BY MulClosed
  <1> HIDE DEF u
  <1>2. Add(e, m) \in Poly(n) /\ Add(u, e) \in Poly(n) /\ Add(Add(u, e), m) \in Poly(n)
    BY <1>1, AddClosed
  <1>3. Add(Add(u, e), m) = Add(Add(e, m), u)
    <2>1. Add(Add(u, e), m) = Add(u, Add(e, m))
      BY <1>1, AddAssoc
    <2>2. Add(u, Add(e, m)) = Add(Add(e, m), u)
      BY <1>1, <1>2, AddComm
    <2>3. QED BY <2>1, <2>2
  <1> DEFINE v == Add(e, m)
  <1> HIDE DEF v
  <1>4. Sub(Add(v, u), u) = v
    BY <1>1, <1>2, PolyCancel DEF v
  <1>5. QED BY <1>2, <1>3, <1>4 DEF u, v

\* A phase, in integers.
LEMMA PhaseSteps ==
  ASSUME NEW n \in Nat \ {0}, NEW s \in [0..(n - 1) -> Int], NEW a \in Poly(n), NEW b \in Poly(n),
         NEW x \in 0..(n - 1)
  PROVE  \E q : /\ Steps(P, q, s, a, n, x) /\ q[n] \in Int
                /\ Close(P, 0, Sub(b, Mul(a, [i \in 0..(n - 1) |-> s[i] % P], n))[x], b[x] - q[n])
                /\ Sub(b, Mul(a, [i \in 0..(n - 1) |-> s[i] % P], n))[x] \in Int
  <1> DEFINE f == [i \in 0..(n - 1) |-> s[i] % P]
             m == Mul(a, f, n)
  <1>1. PICK q : Steps(P, q, s, a, n, x) /\ m[x] = q[n]
    BY ProductSteps
  <1>2. m \in Poly(n)
    <2>1. \A i \in 0..(n - 1) : s[i] % P \in Coeff
      BY IntMod
    <2>2. f \in Poly(n)
      BY <2>1 DEF Poly
    <2> HIDE DEF f
    <2>3. QED BY <2>2, MulClosed
  <1> HIDE DEF m
  <1>3. /\ b[x] \in Int /\ m[x] \in Int /\ Sub(b, m)[x] \in Int /\ Sub(b, m)[x] = (b[x] - m[x]) % P
    BY <1>2, SubAt
  <1> DEFINE u == b[x]
             v == m[x]
             y == Sub(b, m)[x]
  <1>4. u \in Int /\ v \in Int /\ y \in Int /\ y = (u - v) % P /\ v = q[n]
    BY <1>1, <1>3
  <1> HIDE DEF u, v, y
  <1>5. Close(P, 0, y, u - v)
    <2>1. u - v \in Int /\ P \in Nat \ {0}
      BY <1>4, ModulusAssumption
    <2>2. QED BY <1>4, <2>1, CloseMod
  <1>6. Steps(P, q, s, a, n, x) /\ q[n] \in Int /\ Close(P, 0, y, u - q[n]) /\ y \in Int
    BY <1>1, <1>4, <1>5
  <1>7. QED BY <1>6, Zenon DEF m, f, u, y

\* A sum of polynomials close to zero at a coefficient.
LEMMA SumsClose ==
  ASSUME NEW n, NEW num \in Nat, NEW T \in Terms(num, n), NEW x \in 0..(n - 1),
         NEW m \in [0..(num - 1) -> Nat], \A k \in 0..(num - 1) : Close(P, m[k], T[k][x], 0),
         NEW h, Weights(h, m, num)
  PROVE  Close(P, h[num], Sums(T, 0, num, n)[x], 0) /\ Sums(T, 0, num, n)[x] \in Int
  <1>1. PICK f \in [0..num -> Poly(n)] : IsSums(f, T, 0, num, n) /\ Sums(T, 0, num, n) = f[num]
    BY SumsExistFrom0
  <1> DEFINE S == {i \in 0..num : Close(P, h[i], f[i][x], 0)}
  <1>0. P \in Nat \ {0} /\ P \in Int
    BY ModulusAssumption
  <1>2. h \in [0..num -> Nat] /\ h[0] = 0
    BY DEF Weights
  <1>a. \A i \in 0..num : f[i] \in Poly(n)
    OBVIOUS
  <1>b. ASSUME NEW i \in 0..num PROVE f[i][x] \in Int /\ f[i][x] \in Coeff
    <2>1. f[i] \in Poly(n)
      BY <1>a
    <2>2. f[i][x] \in Coeff
      BY <2>1, PolyAt
    <2>3. QED BY <2>2, CoeffClosed
  <1>3. 0 \in S
    <2>1. f[0][x] = 0
      <3>1. f[0] = Zero(n)
        BY <1>1 DEF IsSums
      <3>2. Zero(n)[x] = 0
        BY DEF Zero
      <3>3. QED BY <3>1, <3>2
    <2>2. Close(P, 0, 0, 0)
      BY <1>0, CloseMod
    <2>3. 0 \in 0..num
      OBVIOUS
    <2>4. QED BY <1>2, <2>1, <2>2, <2>3
  <1>4. ASSUME NEW k \in 0..(num - 1), k \in S PROVE k + 1 \in S
    <2>0. k + 1 \in 1..num /\ k + 1 \in 0..num /\ k \in 0..num /\ (k + 1) - 1 = k /\ k + 1 \in (0 + 1)..num
      OBVIOUS
    <2> DEFINE u == f[k][x]
               t == T[k][x]
               z == f[k + 1][x]
               h0 == h[k]
               h1 == h[k + 1]
               mk == m[k]
    <2>1. f[k + 1] = Add(f[k], T[k])
      <3>1. \A l \in (0 + 1)..num : f[l] = Add(f[l - 1], T[l - 1])
        BY <1>1, Zenon DEF IsSums
      <3>2. f[k + 1] = Add(f[(k + 1) - 1], T[(k + 1) - 1])
        BY <2>0, <3>1, Zenon
      <3>3. QED BY <2>0, <3>2
    <2>2. f[k] \in Poly(n) /\ T[k] \in Poly(n)
      <3>1. T[k] \in Poly(n)
        BY DEF Terms
      <3>2. QED BY <1>a, <2>0, <3>1
    <2>3. u \in Int /\ t \in Int /\ z = (u + t) % P /\ z \in Int
      <3>1. u \in Int /\ t \in Int /\ z = (u + t) % P
        <4>1. \A F, G \in Poly(n) : F[x] \in Int /\ G[x] \in Int /\ Add(F, G)[x] = (F[x] + G[x]) % P
          BY SubAt
        <4>2. QED BY <2>1, <2>2, <4>1, Zenon
      <3>2. QED BY <1>b, <2>0, <3>1
    <2>4. h0 \in Nat /\ h1 \in Nat /\ mk \in Nat /\ h1 = h0 + mk
      <3>1. \A i \in 1..num : h[i] = h[i - 1] + (IF m[i - 1] >= 0 THEN m[i - 1] ELSE -m[i - 1])
        BY DEF Weights
      <3>2. h1 = h0 + (IF mk >= 0 THEN mk ELSE -mk)
        <4>1. h[k + 1] = h[(k + 1) - 1] + (IF m[(k + 1) - 1] >= 0 THEN m[(k + 1) - 1] ELSE -m[(k + 1) - 1])
          BY <2>0, <3>1, Zenon
        <4>2. QED BY <2>0, <4>1
      <3>3. h0 \in Nat /\ h1 \in Nat /\ mk \in Nat
        BY <1>2, <2>0
      <3> HIDE DEF h0, h1, mk
      <3>4. QED BY <3>2, <3>3
    <2>5. Close(P, h0, u, 0) /\ Close(P, mk, t, 0)
      BY <1>4
    <2> HIDE DEF u, t, z, h0, h1, mk
    <2>6. Close(P, h0 + mk, u + t, 0 + 0)
      <3>1. h0 \in Int /\ mk \in Int /\ 0 \in Int
        BY <2>4
      <3>2. QED BY <1>0, <2>3, <2>5, <3>1, CloseSum, Zenon
    <2>7. Close(P, h1, u + t, 0)
      BY <2>4, <2>6
    <2>8. Close(P, 0, z, u + t) /\ u + t \in Int
      <3>1. u + t \in Int
        BY <2>3
      <3>2. QED BY <1>0, <2>3, <3>1, CloseMod
    <2>9. Close(P, 0 + h1, z, 0) /\ 0 + h1 = h1
      <3>1. 0 + h1 = h1 /\ h1 \in Int /\ 0 \in Int
        BY <2>4
      <3>2. Close(P, 0 + h1, z, 0)
        BY <1>0, <2>3, <2>7, <2>8, <3>1, CloseTrans, Zenon
      <3>3. QED BY <3>1, <3>2
    <2>10. Close(P, h1, z, 0)
      BY <2>9
    <2>11. QED BY <2>0, <2>10, Zenon DEF h1, z
  <1>5. \A i \in 0..num : i \in S
    <2> HIDE DEF S
    <2>1. QED BY <1>3, <1>4, SetInduction
  <1>6. num \in 0..num
    OBVIOUS
  <1>7. f[num][x] \in Int
    BY <1>b, <1>6
  <1>8. QED BY <1>1, <1>5, <1>6, <1>7

\* What defines the fold of + over the images of a set (FiniteSetsExt).
Folds(iter, S, F) ==
  iter = [s \in SUBSET S |-> IF s = {} THEN 0
                             ELSE LET x == CHOOSE x \in s : TRUE IN F[x] + iter[s \ {x}]]

FoldOf(S, F) == (CHOOSE iter : Folds(iter, S, F))[S]

\* Only one function is defined that way.
LEMMA FoldOnce ==
  ASSUME NEW S, IsFiniteSet(S), NEW F, NEW f, NEW g, Folds(f, S, F), Folds(g, S, F)
  PROVE  \A T \in SUBSET S : f[T] = g[T]
  <1> DEFINE Same(k) == \A T \in SUBSET S : Cardinality(T) <= k => f[T] = g[T]
             n == Cardinality(S)
             K == {k \in 0..n : Same(k)}
  <1>1. \A T \in SUBSET S : IsFiniteSet(T) /\ Cardinality(T) \in Nat /\ Cardinality(T) <= n
    BY FS_Subset, FS_CardinalityType
  <1>2. n \in Nat
    BY FS_CardinalityType
  <1>3. /\ \A T \in SUBSET S : f[T] = IF T = {} THEN 0 ELSE LET x == CHOOSE x \in T : TRUE IN F[x] + f[T \ {x}]
        /\ \A T \in SUBSET S : g[T] = IF T = {} THEN 0 ELSE LET x == CHOOSE x \in T : TRUE IN F[x] + g[T \ {x}]
    <2>1. \A iter : Folds(iter, S, F) =>
            \A T \in SUBSET S : iter[T] = IF T = {} THEN 0 ELSE LET x == CHOOSE x \in T : TRUE IN F[x] + iter[T \ {x}]
      BY Zenon DEF Folds
    <2>2. QED BY <2>1, Zenon
  <1>4. f[{}] = g[{}]
    <2>1. {} \in SUBSET S
      OBVIOUS
    <2>2. QED BY <1>3, <2>1, Zenon
  <1>5. 0 \in K
    <2>1. \A T \in SUBSET S : Cardinality(T) <= 0 => T = {}
      BY <1>1, FS_EmptySet
    <2>2. 0 \in 0..n
      BY <1>2
    <2>3. Same(0)
      BY <1>4, <2>1
    <2>4. QED BY <2>2, <2>3
  <1>6. ASSUME NEW k \in 0..(n - 1), k \in K PROVE k + 1 \in K
    <2>1. k + 1 \in 0..n
      BY <1>2
    <2>2. ASSUME NEW T \in SUBSET S, Cardinality(T) <= k + 1 PROVE f[T] = g[T]
      <3>1. CASE T = {}
        BY <1>4, <3>1
      <3>2. CASE T # {}
        <4> DEFINE x == CHOOSE y \in T : TRUE
        <4>1. x \in T
          BY <3>2
        <4>2. f[T] = F[x] + f[T \ {x}] /\ g[T] = F[x] + g[T \ {x}]
          BY <1>3, <3>2, Zenon
        <4> HIDE DEF x
        <4>3. T \ {x} \in SUBSET S
          OBVIOUS
        <4>4. Cardinality(T \ {x}) = Cardinality(T) - 1
          BY <1>1, <4>1, FS_RemoveElement
        <4>5. Cardinality(T \ {x}) <= k
          <5>1. Cardinality(T) \in Nat
            BY <1>1
          <5>2. QED BY <2>2, <4>4, <5>1
        <4>6. f[T \ {x}] = g[T \ {x}]
          BY <1>6, <4>3, <4>5
        <4>7. QED BY <4>2, <4>6
      <3>3. QED BY <3>1, <3>2
    <2>3. Same(k + 1)
      BY <2>2
    <2>4. QED BY <2>1, <2>3
  <1>7. \A k \in 0..n : k \in K
    <2> HIDE DEF K, n
    <2>1. QED BY <1>2, <1>5, <1>6, SetInduction
  <1>8. ASSUME NEW T \in SUBSET S PROVE f[T] = g[T]
    <2>1. n \in 0..n
      BY <1>2
    <2>2. Same(n)
      BY <1>7, <2>1
    <2>3. QED BY <1>1, <2>2
  <1>9. QED BY <1>8

\* A fold of + over an interval is the sum in the order of the interval.
LEMMA FoldSum ==
  ASSUME NEW n \in Nat, NEW lo \in Int, NEW F \in [lo..(lo + n - 1) -> Nat],
         NEW h, h[0] = 0, \A i \in 1..n : h[i] = h[i - 1] + F[lo + i - 1]
  PROVE  FoldOf(lo..(lo + n - 1), F) = h[n]
  <1> DEFINE S == lo..(lo + n - 1)
             V == [SUBSET S -> Nat]
             Zeros == [T \in SUBSET S |-> 0]
             Gain(i, T) == IF lo + i - 1 \in T THEN F[lo + i - 1] ELSE 0
             Step == [i \in 1..n |-> [v \in V |-> [T \in SUBSET S |-> v[T] + Gain(i, T)]]]
  <1>1. \A i \in 1..n : lo + i - 1 \in S
    OBVIOUS
  <1>2. \A i \in 1..n, T \in SUBSET S : Gain(i, T) \in Nat
    BY <1>1
  <1>3. Zeros \in V
    OBVIOUS
  <1>4. Step \in [1..n -> [V -> V]]
    <2>1. \A i \in 1..n, v \in V, T \in SUBSET S : v[T] + Gain(i, T) \in Nat
      <3>1. ASSUME NEW i \in 1..n, NEW v \in V, NEW T \in SUBSET S PROVE v[T] + Gain(i, T) \in Nat
        <4>1. v[T] \in Nat /\ Gain(i, T) \in Nat
          BY <1>2
        <4> HIDE DEF Gain
        <4>2. QED BY <4>1
      <3>2. QED BY <3>1
    <2> HIDE DEF Gain
    <2>2. QED BY <2>1, Zenon
  <1>5. PICK H : H \in [0..n -> V] /\ Obeys(H, n, Zeros, Step)
    <2> HIDE DEF V, Zeros, Step
    <2>1. QED BY <1>3, <1>4, Recursion
  <1>6. /\ \A T \in SUBSET S : H[0][T] = 0
        /\ \A i \in 1..n, T \in SUBSET S : H[i][T] = H[i - 1][T] + Gain(i, T)
    <2>1. H[0] = Zeros /\ \A i \in 1..n : H[i] = Step[i][H[i - 1]]
      BY <1>5, Zenon DEF Obeys
    <2>2. \A i \in 1..n : H[i - 1] \in V
      <3>1. \A i \in 1..n : i - 1 \in 0..n
        OBVIOUS
      <3> HIDE DEF V
      <3>2. QED BY <1>5, <3>1
    <2>3. \A i \in 1..n : Step[i][H[i - 1]] = [T \in SUBSET S |-> H[i - 1][T] + Gain(i, T)]
      <3> HIDE DEF V, Gain
      <3>1. \A i \in 1..n : \A v \in V : Step[i][v] = [T \in SUBSET S |-> v[T] + Gain(i, T)]
        BY Zenon
      <3>2. ASSUME NEW i \in 1..n PROVE Step[i][H[i - 1]] = [T \in SUBSET S |-> H[i - 1][T] + Gain(i, T)]
        <4> DEFINE v == H[i - 1]
        <4>1. v \in V
          BY <2>2
        <4> HIDE DEF v, Step, S
        <4>2. Step[i][v] = [T \in SUBSET S |-> v[T] + Gain(i, T)]
          BY <3>1, <4>1, Zenon
        <4>3. QED BY <4>2 DEF v
      <3> HIDE DEF Step
      <3>3. QED BY <3>2
    <2> HIDE DEF Step, Gain, S
    <2>4. \A T \in SUBSET S : H[0][T] = 0
      BY <2>1, Zenon
    <2>5. ASSUME NEW i \in 1..n, NEW T \in SUBSET S PROVE H[i][T] = H[i - 1][T] + Gain(i, T)
      <3>1. H[i] = [U \in SUBSET S |-> H[i - 1][U] + Gain(i, U)]
        BY <2>1, <2>3, Zenon
      <3>2. QED BY <3>1, Zenon
    <2>6. QED BY <2>4, <2>5
  <1>7. \A i \in 0..n, T \in SUBSET S : H[i][T] \in Nat
    BY <1>5
  <1> HIDE DEF Step, Zeros, V
  <1> DEFINE Below(x, i) == IF x < lo + i THEN F[x] ELSE 0
             K == {i \in 0..n : \A T \in SUBSET S : \A x \in T : H[i][T] = H[i][T \ {x}] + Below(x, i)}
  <1>8. 0 \in K
    <2>1. ASSUME NEW T \in SUBSET S, NEW x \in T PROVE H[0][T] = H[0][T \ {x}] + Below(x, 0)
      <3>1. H[0][T] = 0 /\ H[0][T \ {x}] = 0
        BY <1>6
      <3>2. Below(x, 0) = 0
        <4>1. x \in Int /\ lo <= x
          <5>1. x \in S
            OBVIOUS
          <5>2. QED BY <5>1
        <4>2. ~(x < lo + 0)
          BY <4>1
        <4>3. QED BY <4>2
      <3>3. QED BY <3>1, <3>2
    <2>2. 0 \in 0..n
      OBVIOUS
    <2> HIDE DEF Below
    <2>3. QED BY <2>1, <2>2
  <1>9. ASSUME NEW k \in 0..(n - 1), k \in K PROVE k + 1 \in K
    <2>0. k + 1 \in 1..n /\ k + 1 \in 0..n /\ (k + 1) - 1 = k /\ k \in 0..n /\ lo + (k + 1) - 1 = lo + k
      OBVIOUS
    <2>1. ASSUME NEW T \in SUBSET S, NEW x \in T PROVE H[k + 1][T] = H[k + 1][T \ {x}] + Below(x, k + 1)
      <3> DEFINE U == T \ {x}
                 u == H[k][U]
                 t == H[k][T]
                 c == F[x]
      <3>1. U \in SUBSET S /\ x \in S /\ x \in Int
        OBVIOUS
      <3>2. H[k + 1][T] = t + Gain(k + 1, T) /\ H[k + 1][U] = u + Gain(k + 1, U)
        <4> HIDE DEF Gain
        <4>1. \A W \in SUBSET S : H[k + 1][W] = H[(k + 1) - 1][W] + Gain(k + 1, W)
          BY <1>6, <2>0
        <4>2. QED BY <2>0, <3>1, <4>1
      <3>3. t = u + Below(x, k)
        <4> HIDE DEF Below
        <4>1. QED BY <1>9
      <3>4. t \in Nat /\ u \in Nat /\ c \in Nat
        <4>1. c \in Nat
          BY <3>1
        <4>2. QED BY <1>7, <2>0, <3>1, <4>1
      <3>5. CASE x = lo + k
        <4>1. Gain(k + 1, T) = c /\ Gain(k + 1, U) = 0 /\ Below(x, k) = 0 /\ Below(x, k + 1) = c
          BY <2>0, <3>1, <3>5
        <4> HIDE DEF Gain, Below, u, t, c
        <4>2. QED BY <3>2, <3>3, <3>4, <4>1
      <3>6. CASE x # lo + k
        <4>1. Gain(k + 1, T) = Gain(k + 1, U)
          BY <2>0, <3>6
        <4>2. Below(x, k) = Below(x, k + 1)
          BY <3>1, <3>6
        <4>3. Gain(k + 1, U) \in Nat /\ Below(x, k) \in Nat
          <5>1. Gain(k + 1, U) \in Nat
            BY <1>2, <2>0, <3>1
          <5>2. QED BY <3>1, <3>4, <5>1
        <4> HIDE DEF Gain, Below, u, t, c
        <4>4. QED BY <3>2, <3>3, <3>4, <4>1, <4>2, <4>3
      <3>7. QED BY <3>5, <3>6
    <2>2. QED BY <2>0, <2>1
  <1>10. \A i \in 0..n : i \in K
    <2> HIDE DEF K
    <2>1. QED BY <1>8, <1>9, SetInduction
  <1>11. Folds(H[n], S, F)
    <2>0. n \in 0..n
      OBVIOUS
    <2> DEFINE g == H[n]
    <2>1. \A T \in SUBSET S : \A x \in T : g[T] = F[x] + g[T \ {x}]
      <3>1. ASSUME NEW T \in SUBSET S, NEW x \in T PROVE g[T] = F[x] + g[T \ {x}]
        <4>1. g[T] = g[T \ {x}] + Below(x, n)
          <5> HIDE DEF Below
          <5>1. QED BY <1>10, <2>0
        <4>2. Below(x, n) = F[x] /\ F[x] \in Nat
          <5>1. x \in S
            OBVIOUS
          <5>2. QED BY <5>1
        <4>3. g[T \ {x}] \in Nat
          BY <1>7, <2>0
        <4> HIDE DEF Below, g
        <4>4. QED BY <4>1, <4>2, <4>3
      <3>2. QED BY <3>1
    <2>2. g[{}] = 0
      <3> DEFINE E == {i \in 0..n : H[i][{}] = 0}
      <3>1. {} \in SUBSET S
        OBVIOUS
      <3>2. 0 \in E
        BY <1>6, <3>1
      <3>3. ASSUME NEW k \in 0..(n - 1), k \in E PROVE k + 1 \in E
        <4>0. k + 1 \in 1..n /\ k + 1 \in 0..n /\ (k + 1) - 1 = k
          OBVIOUS
        <4>1. H[k + 1][{}] = H[(k + 1) - 1][{}] + Gain(k + 1, {})
          BY <1>6, <3>1, <4>0
        <4>2. Gain(k + 1, {}) = 0
          OBVIOUS
        <4>3. H[k + 1][{}] = 0
          BY <3>3, <4>0, <4>1, <4>2
        <4>4. QED BY <4>0, <4>3
      <3>4. \A i \in 0..n : i \in E
        <4> HIDE DEF E
        <4>1. QED BY <3>2, <3>3, SetInduction
      <3>5. QED BY <2>0, <3>4
    <2>3. g \in [SUBSET S -> Nat]
      BY <1>5, <2>0 DEF V
    <2> HIDE DEF g, S
    <2>4. g = [T \in SUBSET S |-> g[T]]
      BY <2>3, Zenon
    <2>5. ASSUME NEW T \in SUBSET S
          PROVE g[T] = IF T = {} THEN 0 ELSE LET x == CHOOSE x \in T : TRUE IN F[x] + g[T \ {x}]
      <3>1. CASE T = {}
        BY <2>2, <3>1
      <3>2. CASE T # {}
        <4> DEFINE x == CHOOSE y \in T : TRUE
        <4>1. x \in T
          BY <3>2
        <4>2. g[T] = F[x] + g[T \ {x}]
          BY <2>1, <4>1
        <4>3. QED BY <3>2, <4>2, Zenon
      <3>3. QED BY <3>1, <3>2
    <2>6. Folds(g, S, F)
      BY <2>4, <2>5, Zenon DEF Folds
    <2>7. QED BY <2>6 DEF g
  <1>12. (CHOOSE iter : Folds(iter, S, F))[S] = H[n][S]
    <2>1. Folds((CHOOSE iter : Folds(iter, S, F)), S, F)
      BY <1>11, Zenon
    <2>2. IsFiniteSet(S) /\ S \in SUBSET S
      BY FS_Interval
    <2> DEFINE g == CHOOSE iter : Folds(iter, S, F)
    <2> HIDE DEF g, S
    <2>3. Folds(g, S, F)
      BY <2>1 DEF g
    <2>4. \A T \in SUBSET S : g[T] = H[n][T]
      BY <1>11, <2>2, <2>3, FoldOnce
    <2>5. QED BY <2>2, <2>4 DEF g
  <1>13. \A i \in 0..n : H[i][S] = h[i]
    <2> DEFINE E == {i \in 0..n : H[i][S] = h[i]}
    <2>1. S \in SUBSET S
      OBVIOUS
    <2>2. 0 \in E
      BY <1>6, <2>1
    <2>3. ASSUME NEW k \in 0..(n - 1), k \in E PROVE k + 1 \in E
      <3>0. k + 1 \in 1..n /\ k + 1 \in 0..n /\ (k + 1) - 1 = k
        OBVIOUS
      <3>1. H[k + 1][S] = H[(k + 1) - 1][S] + Gain(k + 1, S)
        <4> HIDE DEF Gain
        <4>1. QED BY <1>6, <2>1, <3>0
      <3>2. Gain(k + 1, S) = F[lo + (k + 1) - 1]
        BY <1>1, <3>0
      <3>3. h[k + 1] = h[(k + 1) - 1] + F[lo + (k + 1) - 1]
        BY <3>0
      <3> HIDE DEF Gain
      <3>4. H[k + 1][S] = h[k + 1]
        BY <2>3, <3>0, <3>1, <3>2, <3>3
      <3>5. QED BY <3>0, <3>4
    <2> HIDE DEF E
    <2>4. \A i \in 0..n : i \in E
      BY <2>2, <2>3, SetInduction
    <2>5. QED BY <2>4 DEF E
  <1>14. n \in 0..n
    OBVIOUS
  <1>15. QED BY <1>12, <1>13, <1>14, Zenon DEF FoldOf

\* Absolute values can be added up.
LEMMA WeightsExist ==
  ASSUME NEW n \in Nat, NEW s \in [0..(n - 1) -> Int]
  PROVE  \E h : Weights(h, s, n)
  <1> DEFINE A(i) == IF s[i - 1] >= 0 THEN s[i - 1] ELSE -s[i - 1]
             F == [i \in 1..n |-> [v \in Nat |-> v + A(i)]]
  <1>1. \A i \in 1..n : A(i) \in Nat
    <2>1. \A i \in 1..n : s[i - 1] \in Int
      OBVIOUS
    <2>2. QED BY <2>1
  <1> HIDE DEF A
  <1>2. \A i \in 1..n, v \in Nat : v + A(i) \in Nat
    BY <1>1
  <1>3. F \in [1..n -> [Nat -> Nat]]
    BY <1>2, Zenon
  <1>4. \A i \in 1..n : \A v \in Nat : F[i][v] = v + A(i)
    BY Zenon
  <1> HIDE DEF F
  <1>5. PICK h : h \in [0..n -> Nat] /\ Obeys(h, n, 0, F)
    BY <1>3, Recursion
  <1>6. h[0] = 0 /\ \A i \in 1..n : h[i] = F[i][h[i - 1]]
    BY <1>5 DEF Obeys
  <1>7. \A i \in 1..n : h[i] = h[i - 1] + A(i)
    <2>1. \A i \in 1..n : h[i - 1] \in Nat
      BY <1>5
    <2>2. QED BY <1>4, <1>6, <2>1, Zenon
  <1>8. QED BY <1>5, <1>6, <1>7, Zenon DEF Weights, A

\* The sum of n values of at most m.
LEMMA WeightsBound ==
  ASSUME NEW n \in Nat, NEW s \in [0..(n - 1) -> Int], NEW m \in Nat,
         \A i \in 0..(n - 1) : s[i] <= m /\ -s[i] <= m, NEW h, Weights(h, s, n)
  PROVE  h[n] \in Nat /\ h[n] <= n * m
  <1> DEFINE S == {i \in 0..n : h[i] <= i * m}
  <1>1. h \in [0..n -> Nat] /\ h[0] = 0
    BY DEF Weights
  <1>2. 0 \in S
    BY <1>1
  <1>3. ASSUME NEW k \in 0..(n - 1), k \in S PROVE k + 1 \in S
    <2>0. k + 1 \in 1..n /\ k + 1 \in 0..n /\ k \in 0..n /\ (k + 1) - 1 = k
      OBVIOUS
    <2> DEFINE sk == s[k]
               km == k * m
    <2>1. h[k + 1] = h[k] + (IF sk >= 0 THEN sk ELSE -sk)
      <3>1. \A i \in 1..n : h[i] = h[i - 1] + (IF s[i - 1] >= 0 THEN s[i - 1] ELSE -s[i - 1])
        BY DEF Weights
      <3>2. h[k + 1] = h[(k + 1) - 1] + (IF s[(k + 1) - 1] >= 0 THEN s[(k + 1) - 1] ELSE -s[(k + 1) - 1])
        BY <2>0, <3>1, Zenon
      <3>3. QED BY <2>0, <3>2
    <2>2. sk \in Int /\ sk <= m /\ -sk <= m /\ h[k] \in Nat /\ h[k] <= km
      BY <1>1, <1>3, <2>0
    <2>3. (k + 1) * m = km + m /\ km \in Int
      <3>1. \A a, b \in Int : (a + 1) * b = a * b + b /\ a * b \in Int
        BY Z3
      <3>2. QED BY <3>1
    <2> HIDE DEF km, sk
    <2>4. h[k + 1] <= (k + 1) * m
      BY <2>1, <2>2, <2>3, SMTT(30)
    <2>5. QED BY <2>0, <2>4
  <1>4. \A i \in 0..n : i \in S
    <2> HIDE DEF S
    <2>1. QED BY <1>2, <1>3, SetInduction
  <1>5. n \in 0..n
    OBVIOUS
  <1>6. QED BY <1>1, <1>4, <1>5

\* The sum of absolute values, as a fold.
LEMMA WeightsFold ==
  ASSUME NEW n \in Nat, NEW lo \in Int, NEW s \in [0..(n - 1) -> Int], NEW h, Weights(h, s, n),
         NEW F \in [lo..(lo + n - 1) -> Nat],
         \A i \in 0..(n - 1) : F[lo + i] = IF s[i] >= 0 THEN s[i] ELSE -s[i]
  PROVE  FoldOf(lo..(lo + n - 1), F) = h[n] /\ h[n] \in Nat
  <1>1. /\ h \in [0..n -> Nat] /\ h[0] = 0
        /\ \A i \in 1..n : h[i] = h[i - 1] + (IF s[i - 1] >= 0 THEN s[i - 1] ELSE -s[i - 1])
    BY DEF Weights
  <1>2. ASSUME NEW i \in 1..n PROVE h[i] = h[i - 1] + F[lo + i - 1]
    <2>1. i - 1 \in 0..(n - 1) /\ lo + (i - 1) = lo + i - 1
      OBVIOUS
    <2>2. F[lo + (i - 1)] = IF s[i - 1] >= 0 THEN s[i - 1] ELSE -s[i - 1]
      BY <2>1, Zenon
    <2>3. h[i] = h[i - 1] + (IF s[i - 1] >= 0 THEN s[i - 1] ELSE -s[i - 1])
      BY <1>1
    <2>4. h[i] = h[i - 1] + F[lo + (i - 1)]
      BY <2>2, <2>3, Zenon
    <2>5. lo + (i - 1) = lo + i - 1
      OBVIOUS
    <2>6. F[lo + (i - 1)] = F[lo + i - 1]
      BY <2>5, Zenon
    <2>7. QED BY <2>4, <2>6, Zenon
  <1>3. FoldOf(lo..(lo + n - 1), F) = h[n]
    <2>1. h[0] = 0 /\ \A i \in 1..n : h[i] = h[i - 1] + F[lo + i - 1]
      BY <1>1, <1>2
    <2>2. QED BY <2>1, FoldSum
  <1>4. QED BY <1>1, <1>3

\* A largest value.
LEMMA LargestExists ==
  ASSUME NEW n \in Nat \ {0}, NEW F \in [0..(n - 1) -> Nat]
  PROVE  \E x \in 0..(n - 1) : \A y \in 0..(n - 1) : F[y] <= F[x]
  <1> DEFINE S == {i \in 0..(n - 1) : \E x \in 0..i : \A y \in 0..i : F[y] <= F[x]}
  <1>1. 0 \in S
    BY DEF S
  <1>2. ASSUME NEW k \in 0..((n - 1) - 1), k \in S PROVE k + 1 \in S
    <2>1. PICK x \in 0..k : \A y \in 0..k : F[y] <= F[x]
      BY <1>2
    <2>2. k + 1 \in 0..(n - 1) /\ x \in 0..(k + 1) /\ k + 1 \in 0..(k + 1)
      OBVIOUS
    <2>3. F[x] \in Nat /\ F[k + 1] \in Nat /\ \A y \in 0..(k + 1) : F[y] \in Nat
      <3>1. \A y \in 0..(k + 1) : y \in 0..(n - 1)
        OBVIOUS
      <3>2. QED BY <2>2, <3>1
    <2>4. \A y \in 0..(k + 1) : y \in 0..k \/ y = k + 1
      OBVIOUS
    <2>5. CASE F[k + 1] <= F[x]
      <3>1. \A y \in 0..(k + 1) : F[y] <= F[x]
        BY <2>1, <2>4, <2>5
      <3>2. QED BY <2>2, <3>1
    <2>6. CASE F[x] < F[k + 1]
      <3>1. \A y \in 0..(k + 1) : F[y] <= F[k + 1]
        BY <2>1, <2>3, <2>4, <2>6
      <3>2. QED BY <2>2, <3>1
    <2>7. QED BY <2>3, <2>5, <2>6
  <1>3. n - 1 \in Nat
    OBVIOUS
  <1>4. \A i \in 0..(n - 1) : i \in S
    <2> HIDE DEF S
    <2> DEFINE m == n - 1
    <2>1. m \in Nat /\ \A k \in 0..(m - 1) : k \in S => k + 1 \in S
      BY <1>2, <1>3
    <2> HIDE DEF m
    <2>2. \A i \in 0..m : i \in S
      BY <1>1, <2>1, SetInduction
    <2>3. QED BY <2>2 DEF m
  <1>5. n - 1 \in 0..(n - 1)
    OBVIOUS
  <1>6. QED BY <1>4, <1>5

\* WeightsFold, for a set named apart.
ValuesOf(F, s, lo, n, T) ==
  /\ T = lo..(lo + n - 1) /\ F \in [T -> Nat]
  /\ \A i \in 0..(n - 1) : F[lo + i] = IF s[i] >= 0 THEN s[i] ELSE -s[i]

\* A sum of absolute values over a set of indices is the ordered one.
LEMMA WeightsFolded ==
  ASSUME NEW n \in Nat, NEW lo \in Int, NEW s \in [0..(n - 1) -> Int], NEW h, Weights(h, s, n),
         NEW T, NEW F, ValuesOf(F, s, lo, n, T)
  PROVE  FoldOf(T, F) = h[n] /\ h[n] \in Nat
  <1>1. /\ T = lo..(lo + n - 1) /\ F \in [lo..(lo + n - 1) -> Nat]
        /\ \A i \in 0..(n - 1) : F[lo + i] = IF s[i] >= 0 THEN s[i] ELSE -s[i]
    BY Zenon DEF ValuesOf
  <1>2. FoldOf(lo..(lo + n - 1), F) = h[n] /\ h[n] \in Nat
    BY <1>1, WeightsFold
  <1>3. QED BY <1>1, <1>2

\* The close values of a body and of the part the mask takes give those of the
\* phase, at both moduli.
LEMMA PhaseScales ==
  ASSUME NEW src \in Nat \ {0}, NEW dst \in Nat \ {0}, NEW B \in Int, NEW r \in Int, NEW K \in Int, NEW U \in Int,
         NEW H \in Nat, NEW y \in Int, NEW z \in Int,
         Close(2 * (src * dst), src, (2 * src) * r, (2 * dst) * B),
         Close(2 * (src * dst), src * H, (2 * src) * U, (2 * dst) * K),
         Close(src, 0, y, B - K), Close(dst, 0, z, r - U)
  PROVE  Close(2 * (src * dst), src * (1 + H), (2 * src) * z, (2 * dst) * y)
  <1> DEFINE w == 2 * (src * dst)
             s2c == 2 * src
             d2c == 2 * dst
  <1>1. \A k, l \in Int : k * l \in Int
    OBVIOUS
  <1>2. \A k, l \in Nat : k * l \in Nat
    BY Z3
  <1>3. src * dst \in Nat
    BY <1>2
  <1>4. /\ w \in Int /\ s2c \in Nat /\ d2c \in Nat /\ src \in Int /\ dst \in Int /\ 0 \in Int
        /\ s2c \in Int /\ d2c \in Int
    BY <1>3
  <1>5. s2c * dst = w /\ d2c * src = w /\ s2c * 0 = 0 /\ d2c * 0 = 0
    <2>1. \A k, l \in Int : (2 * k) * l = 2 * (k * l) /\ (2 * l) * k = 2 * (k * l) /\ (2 * k) * 0 = 0
      BY Z3
    <2>2. QED BY <1>4, <2>1
  <1>6. Close(w, src, s2c * r, d2c * B) /\ Close(w, src * H, s2c * U, d2c * K)
    OBVIOUS
  <1> HIDE DEF w, s2c, d2c
  <1>7. /\ src * H \in Int /\ src * (1 + H) \in Nat /\ s2c * r \in Int /\ d2c * B \in Int /\ s2c * U \in Int /\ d2c * K \in Int
        /\ B - K \in Int /\ r - U \in Int /\ s2c * (r - U) \in Int /\ d2c * (B - K) \in Int
        /\ s2c * z \in Int /\ d2c * y \in Int
    <2>1. B - K \in Int /\ r - U \in Int /\ H \in Int /\ 1 + H \in Nat
      OBVIOUS
    <2>2. QED BY <1>1, <1>2, <1>4, <2>1
  <1>8. Close(w, src + src * H, s2c * r - s2c * U, d2c * B - d2c * K)
    BY <1>4, <1>6, <1>7, CloseSum, Zenon
  <1>9. Close(w, src * (1 + H), s2c * (r - U), d2c * (B - K))
    <2>1. \A k, l, m \in Int : k * l - k * m = k * (l - m) /\ k + k * l = k * (1 + l)
      BY Z3
    <2>2. s2c * r - s2c * U = s2c * (r - U)
      BY <1>4, <2>1
    <2>3. d2c * B - d2c * K = d2c * (B - K)
      BY <1>4, <2>1
    <2>4. src + src * H = src * (1 + H)
      BY <1>4, <2>1
    <2>5. QED BY <1>8, <2>2, <2>3, <2>4
  <1>10. Close(src, 0, B - K, y)
    BY <1>4, <1>7, CloseSym, Zenon
  <1>11. Close(s2c * dst, s2c * 0, s2c * z, s2c * (r - U)) /\ Close(d2c * src, d2c * 0, d2c * (B - K), d2c * y)
    BY <1>4, <1>7, <1>10, CloseScale, Zenon
  <1>12. Close(w, 0, s2c * z, s2c * (r - U)) /\ Close(w, 0, d2c * (B - K), d2c * y)
    BY <1>5, <1>11
  <1> DEFINE m == src * (1 + H)
  <1>13. m \in Int /\ 0 + m = m /\ m + 0 = m
    BY <1>7
  <1>14. Close(w, m, s2c * (r - U), d2c * (B - K))
    BY <1>9
  <1> HIDE DEF m
  <1>15. Close(w, 0 + m, s2c * z, d2c * (B - K))
    BY <1>4, <1>7, <1>12, <1>13, <1>14, CloseTrans, Zenon
  <1>16. Close(w, m, s2c * z, d2c * (B - K))
    BY <1>13, <1>15
  <1>17. Close(w, m + 0, s2c * z, d2c * y)
    BY <1>4, <1>7, <1>12, <1>13, <1>16, CloseTrans, Zenon
  <1>18. QED BY <1>13, <1>17 DEF m, w, s2c, d2c

\* Centring the difference to a value and adding it back.
LEMMA CenteredBack ==
  ASSUME NEW md2 \in Nat \ {0},
         NEW p \in 0..(md2 - 1), NEW e \in 0..(md2 - 1)
  PROVE  LET z == (IF (p + md2 - e) % md2 <= md2 \div 2 THEN (p + md2 - e) % md2 ELSE ((p + md2 - e) % md2) - md2)
         IN  z \in Int /\ p = (e + z) % md2
  <1> DEFINE r == (p + md2 - e) % md2
             q == (p + md2 - e) \div md2
             z == IF r <= md2 \div 2 THEN r ELSE r - md2
  <1>1. md2 \in Nat \ {0}
    OBVIOUS
  <1>2. p \in Int /\ e \in Int /\ p + md2 - e \in Int
    BY <1>1
  <1>3. q \in Int /\ r \in 0..(md2 - 1) /\ p + md2 - e = md2 * q + r
    BY <1>1, <1>2, IntDivMod
  <1> HIDE DEF q, r
  <1>4. r \in Int
    BY <1>1, <1>3
  <1>5. z = r \/ z = r - md2
    OBVIOUS
  <1> HIDE DEF z
  <1>6. z \in Int
    BY <1>1, <1>4, <1>5
  <1>7. \E k \in Int : e + z = p + md2 * k
    <2>1. \A a \in Int : md2 * (1 - a) = md2 - md2 * a /\ md2 * (-a) = -(md2 * a)
      BY <1>1, Z3
    <2>2. md2 * q \in Int /\ 1 - q \in Int /\ -q \in Int
      BY <1>1, <1>3
    <2>3. e + r = p + md2 * (1 - q) /\ e + (r - md2) = p + md2 * (-q)
      <3> DEFINE s == md2 * q
      <3>1. md2 * (1 - q) = md2 - s /\ md2 * (-q) = -s /\ s \in Int /\ p + md2 - e = s + r
        BY <1>3, <2>1, <2>2
      <3> HIDE DEF s
      <3>2. QED BY <1>1, <1>2, <1>4, <3>1
    <2>4. QED BY <1>5, <2>2, <2>3
  <1>8. (e + z) % md2 = p % md2
    <2>1. PICK k \in Int : e + z = p + md2 * k
      BY <1>7
    <2>2. e + z \in Int
      BY <1>2, <1>6
    <2>3. QED BY <1>1, <1>2, <2>1, <2>2, SameRemainder, Zenon
  <1>9. p % md2 = p
    BY <1>1
  <1>10. QED BY <1>6, <1>8, <1>9 DEF z, r

\* The two last roundings, each half a unit at md4.
LEMMA RoundedScales ==
  ASSUME NEW md3 \in Nat \ {0}, NEW md4 \in Nat \ {0},
         NEW b \in Int, NEW a \in Int, NEW rb \in Int, NEW ra \in Int, NEW t \in Int, NEW z \in Int,
         t = (b - a) % md3, z = (rb - ra) % md4,
         Close(2 * (md3 * md4), md3, (2 * md3) * rb, (2 * md4) * b),
         Close(2 * (md3 * md4), md3, (2 * md3) * ra, (2 * md4) * a)
  PROVE  Close(2 * (md3 * md4), 2 * md3, (2 * md3) * z, (2 * md4) * t)
  <1> DEFINE w == 2 * (md3 * md4)
             s3 == 2 * md3
             s4 == 2 * md4
  <1>1. /\ md3 \in Nat \ {0} /\ md4 \in Nat \ {0} /\ md3 \in Int /\ md4 \in Int /\ 0 \in Int
        /\ s3 \in Nat /\ s4 \in Nat /\ s3 \in Int /\ s4 \in Int
    OBVIOUS
  <1>2. \A k, l \in Int : k * l \in Int
    OBVIOUS
  <1>3. w \in Int /\ s3 * md4 = w /\ s4 * md3 = w /\ s3 * 0 = 0 /\ s4 * 0 = 0 /\ md3 + md3 = s3
    <2>1. \A k, l \in Int : (2 * k) * l = 2 * (k * l) /\ (2 * l) * k = 2 * (k * l) /\ (2 * k) * 0 = 0 /\ k + k = 2 * k
      BY Z3
    <2>2. md3 * md4 \in Int
      BY <1>1
    <2>3. QED BY <1>1, <2>1, <2>2
  <1>4. Close(w, md3, s3 * rb, s4 * b) /\ Close(w, md3, s3 * ra, s4 * a)
    OBVIOUS
  <1> HIDE DEF w, s3, s4
  <1>5. /\ s3 * rb \in Int /\ s3 * ra \in Int /\ s4 * b \in Int /\ s4 * a \in Int
        /\ b - a \in Int /\ rb - ra \in Int /\ s3 * (rb - ra) \in Int /\ s4 * (b - a) \in Int
        /\ s3 * z \in Int /\ s4 * t \in Int
    <2>1. b - a \in Int /\ rb - ra \in Int
      OBVIOUS
    <2>2. QED BY <1>1, <1>2, <2>1
  <1>6. Close(w, md3 + md3, s3 * rb - s3 * ra, s4 * b - s4 * a)
    BY <1>1, <1>3, <1>4, <1>5, CloseSum, Zenon
  <1>7. Close(w, s3, s3 * (rb - ra), s4 * (b - a))
    <2>1. \A k, l, m \in Int : k * l - k * m = k * (l - m)
      BY Z3
    <2>2. s3 * rb - s3 * ra = s3 * (rb - ra)
      BY <1>1, <2>1
    <2>3. s4 * b - s4 * a = s4 * (b - a)
      BY <1>1, <2>1
    <2>4. QED BY <1>3, <1>6, <2>2, <2>3
  <1>8. Close(md4, 0, z, rb - ra) /\ Close(md3, 0, b - a, t)
    <2> DEFINE u == rb - ra
               v == b - a
    <2>1. u \in Int /\ v \in Int
      BY <1>5
    <2> HIDE DEF u, v
    <2>2. Close(md4, 0, u % md4, u) /\ Close(md3, 0, v, v % md3)
      BY <1>1, <2>1, CloseMod
    <2>3. QED BY <2>2 DEF u, v
  <1>9. Close(s3 * md4, s3 * 0, s3 * z, s3 * (rb - ra)) /\ Close(s4 * md3, s4 * 0, s4 * (b - a), s4 * t)
    BY <1>1, <1>5, <1>8, CloseScale, Zenon
  <1>10. Close(w, 0, s3 * z, s3 * (rb - ra)) /\ Close(w, 0, s4 * (b - a), s4 * t)
    BY <1>3, <1>9
  <1>11. Close(w, 0 + s3, s3 * z, s4 * (b - a))
    BY <1>1, <1>3, <1>5, <1>7, <1>10, CloseTrans, Zenon
  <1>12. 0 + s3 = s3 /\ s3 + 0 = s3
    BY <1>1
  <1>13. Close(w, s3, s3 * z, s4 * (b - a))
    BY <1>11, <1>12
  <1>14. Close(w, s3 + 0, s3 * z, s4 * t)
    BY <1>1, <1>3, <1>5, <1>10, <1>13, CloseTrans, Zenon
  <1>15. QED BY <1>12, <1>14 DEF w, s3, s4

\* The three parts of the added noise in one unit.
LEMMA NoiseAdds ==
  ASSUME NEW md2 \in Nat \ {0}, NEW md3 \in Nat \ {0}, NEW md4 \in Nat \ {0},
         NEW n \in Int, NEW t \in Int, NEW c \in Int, NEW p \in Int, NEW S \in Nat, NEW H \in Nat,
         Close(2 * (md3 * md4), 2 * md3, (2 * md3) * n, (2 * md4) * t),
         Close(md3, S, t, c),
         Close(2 * (md2 * md3), md2 * (1 + H), (2 * md2) * c, (2 * md3) * p)
  PROVE  Close(2 * md2 * md3 * md4, md2 * md4 * (1 + H) + 2 * md2 * md4 * S + 2 * md2 * md3,
                  2 * md3 * (md2 * n), 2 * md3 * (md4 * p))
  <1> DEFINE k2 == 2 * md2 * md4
             w3 == 2 * (md3 * md4)
             w2 == 2 * (md2 * md3)
             w == 2 * md2 * md3 * md4
             m1 == md2 * (2 * md3)
             m2 == k2 * S
             m3 == md4 * (md2 * (1 + H))
             a1 == md2 * ((2 * md3) * n)
             a2 == k2 * t
             a3 == k2 * c
             a4 == md4 * ((2 * md3) * p)
  <1>1. \A k, l \in Int : k * l \in Int
    OBVIOUS
  <1>2. \A k, l \in Nat : k * l \in Nat
    BY Z3
  <1>3. md2 \in Nat \ {0} /\ md2 \in Nat /\ md3 \in Nat /\ md4 \in Nat /\ md2 \in Int /\ md3 \in Int /\ md4 \in Int
    OBVIOUS
  <1>4. k2 \in Nat /\ k2 \in Int
    <2>1. 2 * md2 \in Nat
      BY <1>3
    <2>2. QED BY <1>2, <1>3, <2>1
  <1>5. /\ w3 \in Int /\ w2 \in Int /\ 2 * md3 \in Int /\ md2 * (1 + H) \in Int /\ (2 * md3) * n \in Int /\ (2 * md4) * t \in Int
        /\ (2 * md2) * c \in Int /\ (2 * md3) * p \in Int /\ S \in Int
    <2>1. md3 * md4 \in Int /\ md2 * md3 \in Int /\ 1 + H \in Int /\ 2 * md2 \in Int /\ 2 * md3 \in Int /\ 2 * md4 \in Int
      BY <1>1, <1>3
    <2>2. QED BY <1>1, <1>3, <2>1
  <1>6. w \in Int /\ m1 \in Int /\ m2 \in Int /\ m3 \in Int /\ a1 \in Int /\ a2 \in Int /\ a3 \in Int /\ a4 \in Int
    <2>1. 2 * md2 * md3 \in Int
      BY <1>1, <1>3
    <2>2. QED BY <1>1, <1>3, <1>4, <1>5, <2>1
  <1>7. md2 * w3 = w /\ k2 * md3 = w /\ md4 * w2 = w
    <2>1. \A x, y, z \in Int : x * (2 * (y * z)) = 2 * x * y * z
      BY Z3
    <2>2. \A x, y, z \in Int : (2 * x * z) * y = 2 * x * y * z
      BY Z3
    <2>3. \A x, y, z \in Int : z * (2 * (x * y)) = 2 * x * y * z
      BY Z3
    <2>4. QED BY <1>3, <2>1, <2>2, <2>3
  <1>8. md2 * ((2 * md4) * t) = a2 /\ md4 * ((2 * md2) * c) = a3
    <2>1. \A x, z, y \in Int : x * ((2 * z) * y) = (2 * x * z) * y /\ z * ((2 * x) * y) = (2 * x * z) * y
      BY Z3
    <2>2. QED BY <1>3, <2>1
  <1>9. Close(w, m1, a1, a2)
    <2> DEFINE u == (2 * md3) * n
               v == (2 * md4) * t
               m == 2 * md3
    <2>1. Close(w3, m, u, v)
      OBVIOUS
    <2>2. u \in Int /\ v \in Int /\ m \in Int
      BY <1>5
    <2> HIDE DEF u, v, m, w3, w
    <2>3. Close(md2 * w3, md2 * m, md2 * u, md2 * v)
      BY <1>3, <1>5, <2>1, <2>2, CloseScale, Zenon
    <2>4. md2 * v = a2
      BY <1>8 DEF v
    <2>5. Close(w, md2 * m, md2 * u, a2)
      BY <1>7, <2>3, <2>4
    <2>6. QED BY <2>5 DEF m, u
  <1>10. Close(w, m2, a2, a3)
    <2> HIDE DEF k2, w
    <2>1. Close(k2 * md3, k2 * S, k2 * t, k2 * c)
      BY <1>3, <1>4, <1>5, CloseScale, Zenon
    <2>2. QED BY <1>7, <2>1
  <1>11. Close(w, m3, a3, a4)
    <2> DEFINE u == (2 * md2) * c
               v == (2 * md3) * p
               m == md2 * (1 + H)
    <2>1. Close(w2, m, u, v)
      OBVIOUS
    <2>2. u \in Int /\ v \in Int /\ m \in Int
      BY <1>5
    <2> HIDE DEF u, v, m, w2, w
    <2>3. Close(md4 * w2, md4 * m, md4 * u, md4 * v)
      BY <1>3, <1>5, <2>1, <2>2, CloseScale, Zenon
    <2>4. md4 * u = a3
      BY <1>8 DEF u
    <2>5. Close(w, md4 * m, a3, md4 * v)
      BY <1>7, <2>3, <2>4
    <2>6. QED BY <2>5 DEF m, v
  <1>12. a1 = 2 * md3 * (md2 * n) /\ a4 = 2 * md3 * (md4 * p)
    <2>1. \A x, y, z \in Int : x * ((2 * y) * z) = 2 * y * (x * z)
      BY Z3
    <2>2. QED BY <1>3, <2>1
  <1>13. m1 + m2 + m3 = md2 * md4 * (1 + H) + 2 * md2 * md4 * S + 2 * md2 * md3
    <2>1. m1 = 2 * md2 * md3
      <3>1. \A x, y \in Int : x * (2 * y) = 2 * x * y
        BY Z3
      <3>2. QED BY <1>3, <3>1
    <2>2. m3 = md2 * md4 * (1 + H)
      <3>1. \A x, y, z \in Int : z * (x * y) = x * z * y
        BY Z3
      <3>2. QED BY <1>3, <3>1
    <2>3. m2 = 2 * md2 * md4 * S
      OBVIOUS
    <2> DEFINE r1 == 2 * md2 * md3
               r2 == 2 * md2 * md4 * S
               r3 == md2 * md4 * (1 + H)
    <2>4. r1 \in Int /\ r2 \in Int /\ r3 \in Int
      BY <1>6, <2>1, <2>2, <2>3
    <2> HIDE DEF r1, r2, r3, m1, m2, m3
    <2>5. m1 + m2 + m3 = r3 + r2 + r1
      BY <2>1, <2>2, <2>3, <2>4 DEF r1, r2, r3
    <2>6. QED BY <2>5 DEF r1, r2, r3
  <1> HIDE DEF w, m1, m2, m3, a1, a2, a3, a4
  <1>14. Close(w, m1 + m2, a1, a3) /\ m1 + m2 \in Int
    BY <1>3, <1>6, <1>9, <1>10, CloseTrans
  <1>15. Close(w, m1 + m2 + m3, a1, a4)
    BY <1>3, <1>6, <1>11, <1>14, CloseTrans
  <1>16. Close(w, md2 * md4 * (1 + H) + 2 * md2 * md4 * S + 2 * md2 * md3, 2 * md3 * (md2 * n), 2 * md3 * (md4 * p))
    BY <1>12, <1>13, <1>15
  <1>17. QED BY <1>16 DEF w

\* The rounding of a value less than half a unit off a multiple of md4.
LEMMA DecodeRounds ==
  ASSUME NEW md4 \in Nat \ {0}, NEW pt \in Nat \ {0},
         NEW n \in 0..(md4 - 1), NEW m \in 0..(pt - 1), NEW k \in Int,
         2 * (pt * n - md4 * (m + pt * k)) < md4, -(2 * (pt * n - md4 * (m + pt * k))) < md4
  PROVE  ((pt * (IF n <= md4 \div 2 THEN n ELSE n - md4) + (md4 \div 2)) \div md4) % pt = m
  <1> DEFINE d == pt * n - md4 * (m + pt * k)
             h == md4 \div 2
             r == d + h
             v == (IF n <= md4 \div 2 THEN n ELSE n - md4)
  <1>1. md4 \in Nat \ {0} /\ pt \in Nat \ {0} /\ md4 \in Int /\ pt \in Int /\ n \in Int /\ m \in Int
    OBVIOUS
  <1>2. \A a, b \in Int : a * b \in Int
    OBVIOUS
  <1>3. h \in Int /\ 2 * h <= md4 /\ md4 <= 2 * h + 1
    <2>1. \A a \in Nat : a \div 2 \in Int /\ 2 * (a \div 2) <= a /\ a <= 2 * (a \div 2) + 1
      BY Z3
    <2>2. QED BY <1>1, <2>1
  <1>4. d \in Int
    <2>1. pt * k \in Int /\ pt * n \in Int
      BY <1>1, <1>2
    <2>2. m + pt * k \in Int
      BY <1>1, <2>1
    <2>3. md4 * (m + pt * k) \in Int
      BY <1>1, <1>2, <2>2
    <2>4. QED BY <2>1, <2>3
  <1>5. 2 * d < md4 /\ -(2 * d) < md4
    OBVIOUS
  <1>6. PICK c \in Int : v = n + md4 * c
    <2>1. v = n + md4 * 0 \/ v = n + md4 * (-1)
      BY <1>1
    <2>2. 0 \in Int /\ -1 \in Int
      OBVIOUS
    <2> HIDE DEF v
    <2>3. QED BY <2>1, <2>2
  <1>7. r \in 0..(md4 - 1)
    <2> HIDE DEF d, h
    <2>1. QED BY <1>1, <1>3, <1>4, <1>5
  <1> DEFINE q == m + pt * (k + c)
  <1>8. pt * v + h = md4 * q + r /\ q \in Int /\ pt * v + h \in Int
    <2>1. \A a, b, x, y, z, w \in Int : b * (x + a * z) = a * (y + b * (w + z)) + (b * x - a * (y + b * w))
      BY Z3
    <2>2. pt * (n + md4 * c) = md4 * (m + pt * (k + c)) + (pt * n - md4 * (m + pt * k))
      BY <1>1, <2>1
    <2>3. pt * v = md4 * q + d
      BY <1>6, <2>2
    <2>4. q \in Int
      <3>1. k + c \in Int
        OBVIOUS
      <3>2. pt * (k + c) \in Int
        BY <1>1, <1>2, <3>1
      <3>3. QED BY <1>1, <3>2
    <2>5. md4 * q \in Int
      <3> HIDE DEF q
      <3>1. QED BY <1>1, <1>2, <2>4
    <2> DEFINE s == md4 * q
               u == pt * v
    <2>6. u = s + d /\ s \in Int
      BY <2>3, <2>5
    <2> HIDE DEF s, u, d, h
    <2>7. u + h = s + (d + h) /\ u + h \in Int
      BY <1>3, <1>4, <2>6
    <2>8. QED BY <2>4, <2>7 DEF s, u
  <1> HIDE DEF d, h, r, v, q
  <1>9. (pt * v + h) \div md4 = q
    <2> DEFINE u == pt * v + h
    <2>1. u \in Int /\ u = md4 * q + r
      BY <1>8
    <2> HIDE DEF u
    <2>2. u \div md4 = q
      BY <1>1, <1>7, <1>8, <2>1, IntDivModUnique, Zenon
    <2>3. QED BY <2>2 DEF u
  <1>10. q % pt = m
    <2>1. k + c \in Int
      OBVIOUS
    <2>2. q % pt = m % pt
      <3> DEFINE l == k + c
      <3>1. l \in Int /\ q = m + pt * l
        BY <2>1 DEF q
      <3> HIDE DEF l
      <3>2. QED BY <1>1, <1>8, <3>1, SameRemainder, Zenon
    <2>3. m % pt = m
      BY <1>1
    <2>4. QED BY <2>2, <2>3
  <1>11. QED BY <1>9, <1>10 DEF h, v

\* Within the budget, what is decoded is less than half a unit off the
\* plaintext's multiple of md4.
LEMMA BudgetKeeps ==
  ASSUME NEW md2 \in Nat \ {0}, NEW md3 \in Nat \ {0}, NEW md4 \in Nat \ {0}, NEW pt \in Nat \ {0},
         NEW n \in Int, NEW m \in 0..(pt - 1), NEW v \in Int, NEW B \in Nat, v <= B, -v <= B, NEW A \in Nat,
         NEW d \in Nat, pt * d - md2 \in Nat,
         NEW p \in Int, p = (((m * d) % md2) + v) % md2,
         Close(2 * md2 * md3 * md4, A, 2 * md3 * (md2 * n), 2 * md3 * (md4 * p)),
         pt * A + 2 * md3 * md4 * (pt * B + (pt * d - md2) * (pt - 1)) < md2 * md3 * md4
  PROVE  \E k \in Int : /\ 2 * (pt * n - md4 * (m + pt * k)) < md4
                        /\ -(2 * (pt * n - md4 * (m + pt * k))) < md4
  <1>1. /\ md2 \in Nat \ {0} /\ md3 \in Nat \ {0} /\ md4 \in Nat \ {0} /\ pt \in Nat \ {0}
        /\ md2 \in Int /\ md3 \in Int /\ md4 \in Int /\ pt \in Int /\ m \in Int /\ m \in Nat /\ d \in Int /\ A \in Int /\ B \in Int
    OBVIOUS
  <1>2. \A a, b \in Int : a * b \in Int
    OBVIOUS
  <1>3. \A a, b \in Nat : a * b \in Nat
    BY Z3
  <1>4. \A k \in Nat, a, b \in Int : a <= b => k * a <= k * b
    BY Z3
  <1>5. PICK l \in Int : p = m * d + v + md2 * l
    <2> DEFINE q1 == (m * d) \div md2
               r1 == (m * d) % md2
               q2 == (r1 + v) \div md2
               x == m * d
    <2>1. x \in Int
      BY <1>1, <1>2
    <2>2. q1 \in Int /\ r1 \in Int /\ x = md2 * q1 + r1
      <3>1. q1 \in Int /\ r1 \in 0..(md2 - 1) /\ x = md2 * q1 + r1
        <4> HIDE DEF x
        <4>1. x \div md2 \in Int /\ x % md2 \in 0..(md2 - 1) /\ x = md2 * (x \div md2) + (x % md2)
          BY <1>1, <2>1, IntDivMod
        <4>2. QED BY <4>1 DEF x
      <3> HIDE DEF q1, r1, x
      <3>2. QED BY <1>1, <3>1
    <2> HIDE DEF q1, r1, x
    <2>3. q2 \in Int /\ r1 + v = md2 * q2 + p
      <3> DEFINE y == r1 + v
      <3>1. y \in Int
        BY <2>2
      <3> HIDE DEF y
      <3>2. y \div md2 \in Int /\ y = md2 * (y \div md2) + (y % md2)
        BY <1>1, <3>1, IntDivMod
      <3>3. p = y % md2
        BY DEF y, r1
      <3>4. QED BY <3>2, <3>3 DEF y
    <2> HIDE DEF q2
    <2>4. md2 * (-(q1 + q2)) = -(md2 * q1) - md2 * q2 /\ -(q1 + q2) \in Int
      <3>1. \A a, b, c \in Int : a * (-(b + c)) = -(a * b) - a * c
        BY Z3
      <3>2. QED BY <1>1, <2>2, <2>3, <3>1
    <2> DEFINE s1q == md2 * q1
               s2q == md2 * q2
               t == md2 * (-(q1 + q2))
    <2>5. s1q \in Int /\ s2q \in Int /\ t = -s1q - s2q /\ x = s1q + r1 /\ r1 + v = s2q + p
      BY <1>1, <1>2, <2>2, <2>3, <2>4
    <2> HIDE DEF s1q, s2q, t
    <2>6. p = x + v + t
      BY <2>1, <2>2, <2>5
    <2>7. QED BY <2>4, <2>6 DEF x, t
  <1>6. PICK e \in Int, c \in Int : 2 * md3 * (md2 * n) = 2 * md3 * (md4 * p) + e + (2 * md2 * md3 * md4) * c /\ e <= A /\ -e <= A
    BY DEF Close
  <1> DEFINE g == 2 * (pt * n - md4 * (m + pt * (c + l)))
             y == m * (pt * d - md2) + pt * v
             f == 2 * md3 * md4 * y + pt * e
             X == pt * B + (pt * d - md2) * (pt - 1)
  <1>7. (md2 * md3) * g = f
    <2>1. \A a, b, z, t, x, w, u, k \in Int :
            (a * b) * (2 * (t * x - z * (w + t * (u + k))))
              = t * (2 * b * (a * x)) - (2 * a * b * z) * w - (2 * a * b * z) * (t * (u + k))
      BY Z3
    <2>2. \A a, b, z, t, w, u, k, o, h, i \in Int :
            t * (2 * b * (z * (w * o + h + a * k)) + i + (2 * a * b * z) * u) - (2 * a * b * z) * w - (2 * a * b * z) * (t * (u + k))
              = 2 * b * z * (w * (t * o - a) + t * h) + t * i
      BY Z3
    <2>3. (md2 * md3) * g = pt * (2 * md3 * (md2 * n)) - (2 * md2 * md3 * md4) * m - (2 * md2 * md3 * md4) * (pt * (c + l))
      BY <1>1, <2>1
    <2>4. 2 * md3 * (md2 * n) = 2 * md3 * (md4 * (m * d + v + md2 * l)) + e + (2 * md2 * md3 * md4) * c
      BY <1>5, <1>6
    <2>5. pt * (2 * md3 * (md4 * (m * d + v + md2 * l)) + e + (2 * md2 * md3 * md4) * c)
            - (2 * md2 * md3 * md4) * m - (2 * md2 * md3 * md4) * (pt * (c + l)) = f
      BY <1>1, <2>2
    <2> HIDE DEF f, g
    <2>6. QED BY <2>3, <2>4, <2>5
  <1>8. y \in Int /\ X \in Int /\ y <= X /\ -y <= X
    <2> DEFINE o == pt * d - md2
               a1 == m * o
               a2 == pt * v
               b1 == o * (pt - 1)
               b2 == pt * B
    <2>1. o \in Nat /\ o \in Int
      OBVIOUS
    <2> HIDE DEF o
    <2>2. a1 \in Nat /\ a2 \in Int /\ b1 \in Nat /\ b2 \in Nat
      <3>1. pt - 1 \in Nat /\ pt \in Nat
        BY <1>1
      <3>2. QED BY <1>1, <1>2, <1>3, <2>1, <3>1
    <2>3. a1 <= b1
      <3>1. o * m <= o * (pt - 1)
        <4>1. m <= pt - 1 /\ pt - 1 \in Int
          BY <1>1
        <4>2. QED BY <1>1, <1>4, <2>1, <4>1
      <3>2. m * o = o * m
        BY <1>1, <2>1
      <3>3. QED BY <3>1, <3>2
    <2>4. a2 <= b2 /\ -a2 <= b2
      <3>1. pt * v <= pt * B /\ pt * (-v) <= pt * B
        BY <1>1, <1>4
      <3>2. pt * (-v) = -(pt * v)
        BY <1>1
      <3>3. QED BY <3>1, <3>2
    <2>5. y = a1 + a2 /\ X = b2 + b1
      BY DEF o
    <2> HIDE DEF a1, a2, b1, b2, y, X
    <2>6. QED BY <2>2, <2>3, <2>4, <2>5
  <1>9. f \in Int /\ f < md2 * md3 * md4 /\ -f < md2 * md3 * md4 /\ md2 * md3 * md4 \in Int
    <2> DEFINE z == 2 * md3 * md4
               w == md2 * md3 * md4
               a1 == z * y
               a2 == pt * e
               b1 == z * X
               b2 == pt * A
    <2>1. z \in Nat /\ z \in Int /\ w \in Int
      <3>1. 2 * md3 \in Nat /\ md3 \in Nat /\ md2 \in Nat /\ md4 \in Nat
        BY <1>1
      <3>2. md2 * md3 \in Nat /\ 2 * md3 * md4 \in Nat
        BY <1>3, <3>1
      <3>3. QED BY <1>3, <3>1, <3>2
    <2>2. pt * A + z * X < w
      OBVIOUS
    <2> HIDE DEF z, w, y, X
    <2>3. a1 \in Int /\ a2 \in Int /\ b1 \in Int /\ b2 \in Int
      BY <1>1, <1>2, <1>8, <2>1
    <2>4. a1 <= b1 /\ -a1 <= b1
      <3>1. z * y <= z * X /\ z * (-y) <= z * X
        BY <1>4, <1>8, <2>1
      <3>2. z * (-y) = -(z * y)
        BY <1>8, <2>1
      <3>3. QED BY <3>1, <3>2
    <2>5. a2 <= b2 /\ -a2 <= b2
      <3>1. pt * e <= pt * A /\ pt * (-e) <= pt * A
        BY <1>1, <1>4, <1>6
      <3>2. pt * (-e) = -(pt * e)
        BY <1>1
      <3>3. QED BY <3>1, <3>2
    <2>6. b2 + b1 < w /\ f = a1 + a2
      BY <2>2 DEF z
    <2> HIDE DEF a1, a2, b1, b2, f
    <2>7. f \in Int /\ f < w /\ -f < w
      BY <2>1, <2>3, <2>4, <2>5, <2>6
    <2>8. QED BY <2>1, <2>7 DEF w
  <1>10. g \in Int /\ c + l \in Int
    <2>1. c + l \in Int
      OBVIOUS
    <2> DEFINE cl == c + l
    <2>2. cl \in Int
      BY <2>1
    <2> HIDE DEF cl
    <2>3. pt * cl \in Int
      BY <1>1, <1>2, <2>2
    <2>4. m + pt * cl \in Int
      BY <1>1, <2>3
    <2>5. md4 * (m + pt * cl) \in Int /\ pt * n \in Int
      BY <1>1, <1>2, <2>4
    <2>6. 2 * (pt * n - md4 * (m + pt * cl)) \in Int
      BY <2>5
    <2>7. QED BY <2>1, <2>6 DEF cl
  <1>11. g < md4 /\ -g < md4
    <2> HIDE DEF g, f
    <2> DEFINE s == md2 * md3
    <2>1. s \in Nat /\ s \in Int /\ s * g = f /\ f < s * md4 /\ -f < s * md4
      <3>1. md2 * md3 \in Nat
        BY <1>1, <1>3
      <3>2. QED BY <1>7, <1>9, <3>1
    <2> HIDE DEF s
    <2>2. s * g \in Int /\ s * md4 \in Int /\ s * (-g) = -(s * g)
      BY <1>1, <1>10, <2>1
    <2>3. ~(md4 <= g)
      <3>1. md4 <= g => s * md4 <= s * g
        BY <1>1, <1>4, <1>10, <2>1
      <3>2. ~(s * md4 <= s * g)
        BY <2>1, <2>2
      <3>3. QED BY <3>1, <3>2
    <2>4. ~(md4 <= -g)
      <3>0. -g \in Int
        BY <1>10
      <3>1. md4 <= -g => s * md4 <= s * (-g)
        BY <1>1, <1>4, <2>1, <3>0
      <3>2. ~(s * md4 <= s * (-g))
        BY <2>1, <2>2
      <3>3. QED BY <3>1, <3>2
    <2>5. QED BY <1>1, <1>10, <2>3, <2>4
  <1>12. QED BY <1>10, <1>11

\* The same gadget entry at two moduli.
LEMMA EntriesClose ==
  ASSUME NEW q1 \in Nat \ {0}, NEW q2 \in Nat \ {0}, NEW b \in Nat \ {0}, NEW g1 \in Nat, NEW g2 \in Nat,
         2 * (b * g1 - q1) <= b, -(2 * (b * g1 - q1)) <= b, 2 * (b * g2 - q2) <= b, -(2 * (b * g2 - q2)) <= b
  PROVE  2 * (q2 * g1 - q1 * g2) <= q1 + q2 /\ -(2 * (q2 * g1 - q1 * g2)) <= q1 + q2
  <1> DEFINE d1 == 2 * (b * g1 - q1)
             d2 == 2 * (b * g2 - q2)
             y == 2 * (q2 * g1 - q1 * g2)
  <1>1. \A k, l \in Int : k * l \in Int
    OBVIOUS
  <1>2. \A k \in Nat, l, m \in Int : l <= m => k * l <= k * m
    BY Z3
  <1>3. d1 \in Int /\ d2 \in Int /\ y \in Int /\ b \in Int /\ q1 \in Int /\ q2 \in Int
    <2>1. b * g1 \in Int /\ b * g2 \in Int /\ q2 * g1 \in Int /\ q1 * g2 \in Int
      BY <1>1
    <2>2. QED BY <2>1
  <1>4. b * y = q2 * d1 - q1 * d2
    <2>1. \A a, c, u, v, w \in Int : a * (2 * (w * u - c * v)) = w * (2 * (a * u - c)) - c * (2 * (a * v - w))
      BY Z3
    <2>2. QED BY <2>1
  <1>5. d1 <= b /\ -d1 <= b /\ d2 <= b /\ -d2 <= b
    OBVIOUS
  <1> HIDE DEF d1, d2, y
  <1>6. /\ q2 * d1 <= q2 * b /\ q2 * (-d1) <= q2 * b /\ q1 * d2 <= q1 * b /\ q1 * (-d2) <= q1 * b
    BY <1>2, <1>3, <1>5
  <1>7. q2 * (-d1) = -(q2 * d1) /\ q1 * (-d2) = -(q1 * d2) /\ b * (q1 + q2) = q2 * b + q1 * b /\ b * (-y) = -(b * y)
    <2>1. \A k, l, m \in Int : k * (-l) = -(k * l) /\ k * (l + m) = m * k + l * k
      BY Z3
    <2>2. QED BY <1>3, <2>1
  <1> DEFINE a1 == q2 * d1
             a2 == q1 * d2
             b1 == q2 * b
             b2 == q1 * b
             s == b * y
             t == b * (q1 + q2)
  <1>8. a1 \in Int /\ a2 \in Int /\ b1 \in Int /\ b2 \in Int /\ s = a1 - a2 /\ t = b1 + b2 /\ a1 <= b1 /\ -a1 <= b1 /\ a2 <= b2 /\ -a2 <= b2
    BY <1>1, <1>3, <1>4, <1>6, <1>7
  <1> HIDE DEF a1, a2, b1, b2, s, t
  <1>9. s <= t /\ -s <= t
    BY <1>8
  <1>10. b * y <= b * (q1 + q2) /\ b * (-y) <= b * (q1 + q2)
    BY <1>7, <1>9 DEF s, t
  <1>11. \A k \in Nat \ {0}, l, m \in Int : k * l <= k * m => l <= m
    <2>1. SUFFICES ASSUME NEW k \in Nat \ {0}, NEW l \in Int, NEW m \in Int, k * l <= k * m, m < l PROVE FALSE
      OBVIOUS
    <2>2. k * (m + 1) <= k * l
      BY <1>2, <2>1
    <2>3. k * (m + 1) = k * m + k
      BY Z3
    <2>4. k * l \in Int /\ k * m \in Int
      OBVIOUS
    <2>5. QED BY <2>1, <2>2, <2>3, <2>4
  <1>12. q1 + q2 \in Int /\ -y \in Int
    BY <1>3
  <1>13. QED BY <1>3, <1>10, <1>11, <1>12 DEF y

\* The error of a sample, its rescaling, and the rounding of both gadgets.
LEMMA SampleAdds ==
  ASSUME NEW q1 \in Nat \ {0}, NEW q2 \in Nat \ {0}, NEW p \in Int, NEW f \in Int, NEW g1 \in Nat, NEW g2 \in Nat,
         NEW t \in Int, NEW B \in Nat, t <= B, -t <= B, NEW E \in Nat, NEW H \in Nat,
         2 * (q2 * g1 - q1 * g2) <= q1 + q2, -(2 * (q2 * g1 - q1 * g2)) <= q1 + q2,
         Close(2 * (q1 * q2), q1 * (1 + H), (2 * q1) * p, (2 * q2) * f), Close(q1, E, f, g1 * t)
  PROVE  /\ Close(2 * q1 * q2, (2 * q2 * E) + (q1 * (1 + H)) + (B * (q1 + q2)), 2 * q1 * p, 2 * q1 * (g2 * t))
         /\ (2 * q2 * E) + (q1 * (1 + H)) + (B * (q1 + q2)) \in Nat
  <1> DEFINE w == 2 * q1 * q2
             k1 == 2 * q1
             k2 == 2 * q2
             y == 2 * (q2 * g1 - q1 * g2)
             m1 == k2 * E
             m2 == q1 * (1 + H)
             m3 == B * (q1 + q2)
             a1 == k1 * p
             a2 == k2 * f
             a3 == k2 * (g1 * t)
             a4 == k1 * (g2 * t)
  <1>1. \A k, l \in Int : k * l \in Int
    OBVIOUS
  <1>2. \A k, l \in Nat : k * l \in Nat
    BY Z3
  <1>3. /\ k1 \in Nat /\ k2 \in Nat /\ k1 \in Int /\ k2 \in Int /\ q1 \in Int /\ q2 \in Int /\ g1 \in Int /\ g2 \in Int
        /\ 1 + H \in Nat /\ q1 + q2 \in Nat /\ E \in Int
    OBVIOUS
  <1>4. g1 * t \in Int /\ g2 * t \in Int /\ y \in Int
    <2>1. q2 * g1 \in Int /\ q1 * g2 \in Int /\ g1 * t \in Int /\ g2 * t \in Int
      BY <1>1, <1>3
    <2>2. QED BY <2>1
  <1>5. /\ w \in Int /\ m1 \in Nat /\ m2 \in Nat /\ m3 \in Nat /\ m1 \in Int /\ m2 \in Int /\ m3 \in Int
        /\ a1 \in Int /\ a2 \in Int /\ a3 \in Int /\ a4 \in Int
    <2>1. m1 \in Nat /\ m2 \in Nat /\ m3 \in Nat
      BY <1>2, <1>3
    <2>2. w \in Int /\ a1 \in Int /\ a2 \in Int /\ a3 \in Int /\ a4 \in Int
      BY <1>1, <1>3, <1>4
    <2>3. \A k \in Nat : k \in Int
      OBVIOUS
    <2> HIDE DEF m1, m2, m3
    <2>4. QED BY <2>1, <2>2, <2>3
  <1>6. 2 * (q1 * q2) = w /\ k2 * q1 = w
    <2>1. \A k, l \in Int : 2 * (k * l) = 2 * k * l /\ (2 * l) * k = 2 * k * l
      BY Z3
    <2>2. QED BY <2>1
  <1>7. Close(w, m2, a1, a2)
    BY <1>6
  <1>8. Close(w, m1, a2, a3)
    <2> DEFINE v == g1 * t
    <2>1. Close(q1, E, f, v) /\ v \in Int
      BY <1>4
    <2> HIDE DEF v, k2, w
    <2>2. Close(k2 * q1, k2 * E, k2 * f, k2 * v)
      BY <1>3, <2>1, CloseScale, Zenon
    <2>3. QED BY <1>6, <2>2 DEF v
  <1>9. Close(w, m3, a3, a4)
    <2>1. a3 = a4 + t * y + w * 0
      <3>1. \A k, l, u, v, c \in Int : (2 * l) * (u * c) = (2 * k) * (v * c) + c * (2 * (l * u - k * v)) + (2 * k * l) * 0
        BY Z3
      <3>2. QED BY <3>1
    <2>2. t * y \in Int /\ t * y <= m3 /\ -(t * y) <= m3
      <3> DEFINE z == q1 + q2
      <3>1. z \in Nat /\ y <= z /\ -y <= z
        OBVIOUS
      <3> HIDE DEF z, y
      <3>2. \A k, l \in Int, b, c \in Nat : k <= b /\ -k <= b /\ l <= c /\ -l <= c => k * l <= b * c /\ -(k * l) <= b * c
        <4>1. SUFFICES ASSUME NEW k \in Int, NEW l \in Int, NEW b \in Nat, NEW c \in Nat, k <= b, -k <= b, l <= c, -l <= c
                       PROVE  k * l <= b * c /\ -(k * l) <= b * c
          OBVIOUS
        <4>2. \A u, v \in Nat : u <= b /\ v <= c => u * v <= b * c
          <5>1. \A r, u, v \in Nat : u <= v => r * u <= r * v
            BY Z3
          <5>2. ASSUME NEW u \in Nat, NEW v \in Nat, u <= b, v <= c PROVE u * v <= b * c
            <6>1. u * v <= u * c /\ c * u <= c * b
              BY <5>1, <5>2
            <6>2. c * u = u * c /\ c * b = b * c /\ u * v \in Int /\ u * c \in Int /\ b * c \in Int
              BY Z3
            <6>3. QED BY <6>1, <6>2
          <5>3. QED BY <5>2
        <4>3. (-k) * l = -(k * l) /\ k * (-l) = -(k * l) /\ (-k) * (-l) = k * l /\ k * l \in Int /\ b * c \in Nat
          BY Z3
        <4> DEFINE s == k * l
                   r == b * c
        <4>4. \/ (k >= 0 /\ l >= 0 /\ k * l <= r) \/ (k < 0 /\ l >= 0 /\ (-k) * l <= r)
              \/ (k >= 0 /\ l < 0 /\ k * (-l) <= r) \/ (k < 0 /\ l < 0 /\ (-k) * (-l) <= r)
          BY <4>1, <4>2
        <4>5. \/ (k >= 0 /\ l >= 0 /\ s <= r) \/ (k < 0 /\ l >= 0 /\ -s <= r)
              \/ (k >= 0 /\ l < 0 /\ -s <= r) \/ (k < 0 /\ l < 0 /\ s <= r)
          BY <4>3, <4>4
        <4>6. (k >= 0 /\ l >= 0 => s >= 0) /\ (k < 0 /\ l >= 0 => -s >= 0) /\ (k >= 0 /\ l < 0 => -s >= 0) /\ (k < 0 /\ l < 0 => s >= 0)
          <5>1. \A u, v \in Nat : u * v \in Nat
            BY Z3
          <5>2. /\ k >= 0 /\ l >= 0 => k * l \in Nat
                /\ k < 0 /\ l >= 0 => (-k) * l \in Nat
                /\ k >= 0 /\ l < 0 => k * (-l) \in Nat
                /\ k < 0 /\ l < 0 => (-k) * (-l) \in Nat
            BY <5>1
          <5>3. QED BY <4>3, <5>2
        <4> HIDE DEF s, r
        <4>7. s \in Int /\ r \in Nat
          BY <4>3 DEF s, r
        <4>8. s <= r /\ -s <= r
          BY <4>5, <4>6, <4>7
        <4>9. QED BY <4>8 DEF s, r
      <3>3. QED BY <1>1, <1>4, <3>1, <3>2 DEF z
    <2> DEFINE e == t * y
    <2>3. e \in Int /\ a3 = a4 + e + w * 0 /\ e <= m3 /\ -e <= m3 /\ 0 \in Int
      BY <2>1, <2>2
    <2> HIDE DEF e, a3, a4, w, m3
    <2>4. QED BY <2>3, Zenon DEF Close
  <1> HIDE DEF w, m1, m2, m3, a1, a2, a3, a4
  <1>10. Close(w, m2 + m1, a1, a3) /\ m2 + m1 \in Int
    BY <1>5, <1>7, <1>8, CloseTrans
  <1>11. Close(w, m2 + m1 + m3, a1, a4)
    BY <1>5, <1>9, <1>10, CloseTrans
  <1>12. m2 + m1 + m3 = m1 + m2 + m3 /\ m1 + m2 + m3 \in Nat
    BY <1>5
  <1>13. Close(w, m1 + m2 + m3, a1, a4)
    BY <1>11, <1>12
  <1>14. QED BY <1>12, <1>13 DEF w, m1, m2, m3, a1, a4

\* A distance in units of 1 / 2q1 of a coefficient.
LEMMA SmallMultiple ==
  ASSUME NEW q1 \in Nat \ {0}, NEW q2 \in Nat \ {0}, NEW S \in Int, NEW u \in Int, NEW v \in Int,
         Close(2 * q1 * q2, S, 2 * q1 * u, 2 * q1 * v)
  PROVE  LET r == (u - v) % q2
             z == IF r <= q2 \div 2 THEN r ELSE r - q2
         IN  z \in Int /\ 2 * q1 * z <= S /\ 2 * q1 * (-z) <= S
  <1> DEFINE k == 2 * q1
  <1>1. PICK e \in Int, c \in Int : k * u = k * v + e + (k * q2) * c /\ e <= S /\ -e <= S
    BY DEF Close
  <1> DEFINE d == u - v - q2 * c
             m == IF d >= 0 THEN d ELSE -d
  <1>2. q2 * c \in Int /\ k \in Nat /\ k \in Int
    OBVIOUS
  <1>3. d \in Int /\ u = v + d + q2 * c
    <2> DEFINE s == q2 * c
    <2>1. s \in Int
      BY <1>2
    <2> HIDE DEF s
    <2>2. u - v - s \in Int /\ u = v + (u - v - s) + s
      BY <2>1
    <2>3. QED BY <2>2 DEF s
  <1>4. k * d = e
    <2>1. \A a, x, y, z, w \in Int : a * (x - y - z * w) = a * x - a * y - (a * z) * w
      BY Z3
    <2>2. k * d = k * u - k * v - (k * q2) * c
      BY <1>2, <2>1
    <2>3. k * u \in Int /\ k * v \in Int /\ (k * q2) * c \in Int
      <3>1. k * q2 \in Int
        BY <1>2
      <3>2. \A a, b \in Int : a * b \in Int
        OBVIOUS
      <3> HIDE DEF k
      <3>3. QED BY <1>2, <3>1, <3>2
    <2> DEFINE x1 == k * u
               x2 == k * v
               x3 == (k * q2) * c
               x4 == k * d
    <2>4. x1 \in Int /\ x2 \in Int /\ x3 \in Int /\ x4 = x1 - x2 - x3 /\ x1 = x2 + e + x3
      BY <1>1, <2>2, <2>3
    <2> HIDE DEF x1, x2, x3, x4
    <2>5. x4 = e
      BY <2>4
    <2>6. QED BY <2>5 DEF x4
  <1> HIDE DEF k, d
  <1>5. m \in Nat /\ d <= m /\ -d <= m /\ (m = d \/ m = -d)
    BY <1>3
  <1> HIDE DEF m
  <1>6. k * m <= S
    <2>1. k * (-d) = -(k * d)
      BY <1>2, <1>3
    <2>2. QED BY <1>1, <1>4, <1>5, <2>1
  <1>7. Close(q2, m, u, v)
    BY <1>1, <1>3, <1>5 DEF Close
  <1> DEFINE r == (u - v) % q2
             z == IF r <= q2 \div 2 THEN r ELSE r - q2
  <1>8. z \in Int /\ z <= m /\ -z <= m
    BY <1>5, <1>7, CloseCentered
  <1> HIDE DEF r, z
  <1>9. k * z <= k * m /\ k * (-z) <= k * m
    <2>1. \A i \in Nat, l, n \in Int : l <= n => i * l <= i * n
      BY Z3
    <2>2. -z \in Int /\ m \in Int
      BY <1>5, <1>8
    <2>3. QED BY <1>2, <1>8, <2>1, <2>2
  <1>10. k * z \in Int /\ k * (-z) \in Int /\ k * m \in Int
    <2>1. \A a, b \in Int : a * b \in Int
      OBVIOUS
    <2>2. -z \in Int /\ m \in Int
      BY <1>5, <1>8
    <2>3. QED BY <1>2, <1>8, <2>1, <2>2
  <1> DEFINE x1 == k * z
             x2 == k * (-z)
             x3 == k * m
  <1>11. x1 \in Int /\ x2 \in Int /\ x3 \in Int /\ x1 <= x3 /\ x2 <= x3 /\ x3 <= S
    BY <1>6, <1>9, <1>10
  <1> HIDE DEF x1, x2, x3
  <1>12. x1 <= S /\ x2 <= S
    BY <1>11
  <1>13. QED BY <1>8, <1>12 DEF x1, x2, k, z, r

\* The integers s reduced to a polynomial.
Reduced(s, n) == [i \in 0..(n - 1) |-> s[i] % P]

\* Reducing integers gives a polynomial; times a constant it is the integers'
\* multiples reduced.
LEMMA ReducedIn ==
  ASSUME NEW n, NEW s \in [0..(n - 1) -> Int]
  PROVE  /\ Reduced(s, n) \in Poly(n)
         /\ \A g \in Nat, x \in 0..(n - 1) :
              /\ g % P \in Coeff /\ Scale(g % P, Reduced(s, n)) \in Poly(n)
              /\ Scale(g % P, Reduced(s, n))[x] \in Int
              /\ Close(P, 0, Scale(g % P, Reduced(s, n))[x], g * s[x])
              /\ Close(P, 0, g * s[x], Scale(g % P, Reduced(s, n))[x])
  <1>1. \A i \in 0..(n - 1) : s[i] % P \in Coeff
    BY IntMod
  <1>2. Reduced(s, n) \in Poly(n) /\ \A x \in 0..(n - 1) : Reduced(s, n)[x] = s[x] % P
    BY <1>1 DEF Reduced, Poly
  <1> DEFINE r == Reduced(s, n)
  <1> HIDE DEF r
  <1>3. ASSUME NEW g \in Nat, NEW x \in 0..(n - 1)
        PROVE  /\ g % P \in Coeff /\ Scale(g % P, r) \in Poly(n)
               /\ Scale(g % P, r)[x] \in Int
               /\ Close(P, 0, Scale(g % P, r)[x], g * s[x])
               /\ Close(P, 0, g * s[x], Scale(g % P, r)[x])
    <2> DEFINE c == g % P
               t == s[x]
    <2>1. c \in Coeff /\ g \in Int /\ t \in Int
      <3>1. g \in Int /\ t \in Int
        OBVIOUS
      <3>2. QED BY <3>1, IntMod
    <2>2. r \in Poly(n) /\ r[x] = t % P
      BY <1>2 DEF r
    <2>3. Scale(c, r) \in Poly(n) /\ Scale(c, r)[x] = CMul(c, t % P)
      <3> HIDE DEF c, t
      <3>1. Scale(c, r) \in Poly(n)
        BY <2>1, <2>2, PolyAt
      <3>2. Scale(c, r)[x] = CMul(c, r[x])
        BY <2>1, <2>2, ScaleAt
      <3>3. QED BY <2>2, <3>1, <3>2
    <2>4. CMul(c, t % P) = (g * t) % P
      <3> HIDE DEF t
      <3>1. QED BY <2>1, IntMod
    <2>5. g * t \in Int
      <3>1. \A k, l \in Int : k * l \in Int
        OBVIOUS
      <3>2. QED BY <2>1, <3>1
    <2> DEFINE z == g * t
    <2>6. P \in Nat \ {0}
      BY ModulusAssumption
    <2>7. Close(P, 0, z % P, z) /\ Close(P, 0, z, z % P) /\ z % P \in Int
      <3> HIDE DEF z
      <3>1. QED BY <2>5, <2>6, CloseMod DEF z
    <2>8. Scale(c, r)[x] = z % P
      BY <2>3, <2>4
    <2> HIDE DEF z
    <2>9. QED BY <2>1, <2>3, <2>7, <2>8 DEF z
  <1>4. QED BY <1>2, <1>3 DEF r

\* Sums whose terms, multiplied by a, are close modulo w = a * P.
LEMMA SumsNear ==
  ASSUME NEW n, NEW num \in Nat, NEW T \in Terms(num, n), NEW U \in Terms(num, n), NEW x \in 0..(n - 1),
         NEW w \in Int, NEW a \in Nat, a * P = w, NEW m \in Nat,
         \A k \in 0..(num - 1) : Close(w, m, a * T[k][x], a * U[k][x])
  PROVE  /\ Close(w, m * num, a * Sums(T, 0, num, n)[x], a * Sums(U, 0, num, n)[x])
         /\ Sums(T, 0, num, n)[x] \in Int /\ Sums(U, 0, num, n)[x] \in Int
  <1>0. P \in Nat \ {0} /\ P \in Int /\ 0 \in Int /\ a \in Int /\ m \in Int /\ \A k, l \in Int : k * l \in Int
    BY ModulusAssumption
  <1>1. PICK f \in [0..num -> Poly(n)] : IsSums(f, T, 0, num, n) /\ Sums(T, 0, num, n) = f[num]
    BY SumsExistFrom0
  <1>2. PICK g \in [0..num -> Poly(n)] : IsSums(g, U, 0, num, n) /\ Sums(U, 0, num, n) = g[num]
    BY SumsExistFrom0
  <1> DEFINE S == {i \in 0..num : Close(w, m * i, a * f[i][x], a * g[i][x])}
  <1>3. \A i \in 0..num : f[i] \in Poly(n) /\ g[i] \in Poly(n)
    OBVIOUS
  <1>4. \A F \in Poly(n) : F[x] \in Int
    <2>1. \A F \in Poly(n) : F[x] \in Coeff
      BY PolyAt
    <2>2. QED BY <2>1, CoeffClosed
  <1>5. 0 \in S
    <2>1. f[0][x] = 0 /\ g[0][x] = 0
      <3>1. f[0] = Zero(n) /\ g[0] = Zero(n)
        BY <1>1, <1>2 DEF IsSums
      <3>2. Zero(n)[x] = 0
        BY DEF Zero
      <3>3. QED BY <3>1, <3>2
    <2>2. Close(w, 0, 0, 0)
      <3>1. 0 = 0 + 0 + w * 0 /\ 0 <= 0 /\ -0 <= 0
        BY Z3
      <3>2. QED BY <3>1 DEF Close
    <2>3. 0 \in 0..num /\ m * 0 = 0 /\ a * 0 = 0
      BY <1>0
    <2>4. QED BY <2>1, <2>2, <2>3
  <1>6. ASSUME NEW k \in 0..(num - 1), k \in S PROVE k + 1 \in S
    <2>0. k + 1 \in 0..num /\ k \in 0..num /\ (k + 1) - 1 = k /\ k + 1 \in (0 + 1)..num /\ k \in Int
      OBVIOUS
    <2>1. f[k + 1] = Add(f[k], T[k]) /\ g[k + 1] = Add(g[k], U[k])
      <3>1. \A l \in (0 + 1)..num : f[l] = Add(f[l - 1], T[l - 1]) /\ g[l] = Add(g[l - 1], U[l - 1])
        BY <1>1, <1>2, Zenon DEF IsSums
      <3>2. f[k + 1] = Add(f[(k + 1) - 1], T[(k + 1) - 1]) /\ g[k + 1] = Add(g[(k + 1) - 1], U[(k + 1) - 1])
        BY <2>0, <3>1, Zenon
      <3>3. QED BY <2>0, <3>2
    <2>2. f[k] \in Poly(n) /\ T[k] \in Poly(n) /\ g[k] \in Poly(n) /\ U[k] \in Poly(n)
      <3>1. T[k] \in Poly(n) /\ U[k] \in Poly(n)
        BY DEF Terms
      <3>2. QED BY <1>3, <2>0, <3>1
    <2> DEFINE f0 == f[k][x]
               f1 == f[k + 1][x]
               g0 == g[k][x]
               g1 == g[k + 1][x]
               t == T[k][x]
               u == U[k][x]
    <2>3. /\ f0 \in Int /\ g0 \in Int /\ t \in Int /\ u \in Int /\ f1 = (f0 + t) % P /\ g1 = (g0 + u) % P
          /\ f1 \in Int /\ g1 \in Int
      <3>1. \A F, G \in Poly(n) : F[x] \in Int /\ G[x] \in Int /\ Add(F, G)[x] = (F[x] + G[x]) % P
        BY SubAt, SMTT(30)
      <3>2. /\ f0 \in Int /\ g0 \in Int /\ t \in Int /\ u \in Int
            /\ Add(f[k], T[k])[x] = (f0 + t) % P /\ Add(g[k], U[k])[x] = (g0 + u) % P
        BY <2>2, <3>1
      <3>a. f1 = (f0 + t) % P /\ g1 = (g0 + u) % P
        BY <2>1, <3>2, Zenon
      <3>3. QED BY <1>3, <1>4, <2>0, <3>2, <3>a
    <2>4. Close(w, m * k, a * f0, a * g0) /\ Close(w, m, a * t, a * u)
      <3>1. k \in S
        BY <1>6
      <3>2. Close(w, m * k, a * f0, a * g0)
        BY <3>1, Zenon
      <3>3. QED BY <3>2, Zenon
    <2> HIDE DEF f0, f1, g0, g1, t, u
    <2>5. f0 + t \in Int /\ g0 + u \in Int
      BY <2>3
    <2>6. Close(P, 0, f1, f0 + t) /\ Close(P, 0, g0 + u, g1)
      BY <1>0, <2>3, <2>5, CloseMod
    <2>7. Close(w, 0, a * f1, a * f0 + a * t) /\ Close(w, 0, a * g0 + a * u, a * g1)
      <3>1. Close(a * P, a * 0, a * f1, a * (f0 + t)) /\ Close(a * P, a * 0, a * (g0 + u), a * g1)
        BY <1>0, <2>3, <2>5, <2>6, CloseScale, Zenon
      <3>2. a * 0 = 0 /\ a * (f0 + t) = a * f0 + a * t /\ a * (g0 + u) = a * g0 + a * u
        <4>1. \A b, y, z \in Int : b * 0 = 0 /\ b * (y + z) = b * y + b * z
          BY Z3
        <4>2. QED BY <1>0, <2>3, <4>1
      <3>3. QED BY <3>1, <3>2
    <2>8. m * (k + 1) = m * k + m
      <3>1. \A b, y \in Int : b * (y + 1) = b * y + b
        BY Z3
      <3>2. QED BY <1>0, <2>0, <3>1
    <2> DEFINE A0 == a * f0
               A1 == a * f1
               AT == a * t
               B0 == a * g0
               B1 == a * g1
               BU == a * u
               M0 == m * k
    <2>9. /\ A0 \in Int /\ A1 \in Int /\ AT \in Int /\ B0 \in Int /\ B1 \in Int /\ BU \in Int /\ M0 \in Int
          /\ Close(w, M0, A0, B0) /\ Close(w, m, AT, BU) /\ Close(w, 0, A1, A0 + AT) /\ Close(w, 0, B0 + BU, B1)
      BY <1>0, <2>0, <2>3, <2>4, <2>7
    <2> HIDE DEF A0, A1, AT, B0, B1, BU, M0
    <2>10. A0 + AT \in Int /\ B0 + BU \in Int /\ M0 + m \in Int /\ Close(w, M0 + m, A0 + AT, B0 + BU)
      <3>0. \A y, z \in Int : y + z \in Int
        OBVIOUS
      <3>1. A0 + AT \in Int /\ B0 + BU \in Int /\ M0 + m \in Int
        BY <1>0, <2>9, <3>0, Zenon
      <3>2. QED BY <1>0, <2>9, <3>1, CloseSum, Zenon
    <2>11. Close(w, 0 + (M0 + m), A1, B0 + BU) /\ 0 + (M0 + m) \in Int
      <3>1. w \in Int /\ 0 \in Int /\ 0 + (M0 + m) \in Int
        BY <1>0, <2>10
      <3>2. QED BY <2>9, <2>10, <3>1, CloseTrans, Zenon
    <2>12. Close(w, (0 + (M0 + m)) + 0, A1, B1)
      <3>1. w \in Int /\ 0 \in Int
        BY <1>0
      <3>2. QED BY <2>9, <2>10, <2>11, <3>1, CloseTrans, Zenon
    <2>13. (0 + (M0 + m)) + 0 = M0 + m
      BY <1>0, <2>9
    <2>14. Close(w, m * (k + 1), a * f1, a * g1)
      BY <2>8, <2>12, <2>13 DEF A1, B1, M0
    <2>15. QED BY <2>0, <2>14, Zenon DEF f1, g1
  <1>7. \A i \in 0..num : i \in S
    <2> HIDE DEF S
    <2>1. QED BY <1>5, <1>6, SetInduction
  <1>8. num \in 0..num
    OBVIOUS
  <1>9. QED BY <1>1, <1>2, <1>3, <1>4, <1>7, <1>8

\* Integers of at most m.
Within(s, m, n) ==
  s \in [0..(n - 1) -> Int] /\ m \in Nat /\ \A i \in 0..(n - 1) : s[i] <= m /\ -s[i] <= m

\* A polynomial p which, times 2q, is close to g times the integers M.
Holds(q, S, p, g, M, n) ==
  /\ p \in Poly(n) /\ g \in Nat /\ M \in [0..(n - 1) -> Int] /\ q \in Nat /\ S \in Nat
  /\ \A y \in 0..(n - 1) : Close(2 * q * P, S, 2 * q * p[y], 2 * q * (g * M[y]))

\* The products of small integers and of two polynomials that are close.
LEMMA ProductNear ==
  ASSUME NEW n \in Nat \ {0}, NEW half, NEW s, Within(s, half, n), NEW p \in Poly(n), NEW r \in Poly(n),
         NEW w \in Int, NEW S \in Nat, NEW a \in Nat, a * P = w,
         \A y \in 0..(n - 1) : Close(w, S, a * p[y], a * r[y]), NEW x \in 0..(n - 1)
  PROVE  Close(w, S * (n * half), a * Mul(Reduced(s, n), p, n)[x], a * Mul(Reduced(s, n), r, n)[x])
  <1>1. s \in [0..(n - 1) -> Int] /\ half \in Nat /\ \A i \in 0..(n - 1) : s[i] <= half /\ -s[i] <= half
    BY DEF Within
  <1>2. Reduced(s, n) \in Poly(n) /\ Reduced(s, n) = [i \in 0..(n - 1) |-> s[i] % P]
    BY <1>1, ReducedIn DEF Reduced
  <1>3. PICK q : Steps(P, q, s, p, n, x) /\ Mul(p, [i \in 0..(n - 1) |-> s[i] % P], n)[x] = q[n]
    BY <1>1, ProductSteps
  <1>4. PICK u : Steps(P, u, s, r, n, x) /\ Mul(r, [i \in 0..(n - 1) |-> s[i] % P], n)[x] = u[n]
    BY <1>1, ProductSteps
  <1>5. PICK h : Weights(h, s, n)
    BY <1>1, WeightsExist
  <1>6. h[n] \in Nat /\ h[n] <= n * half
    BY <1>1, <1>5, WeightsBound
  <1>7. P \in Int /\ P \in Nat \ {0} /\ 1 \in Int
    BY ModulusAssumption
  <1>8. Related(w, S, a, a, P, P, p, r, n)
    <2>1. \A f \in Poly(n) : f \in [0..(n - 1) -> Int]
      <3>1. \A f \in Poly(n) : f = [i \in 0..(n - 1) |-> f[i]] /\ \A i \in 0..(n - 1) : f[i] \in Int
        BY PolyAt, CoeffClosed DEF Poly
      <3>2. QED BY <3>1
    <2>2. \E d \in Int : a * P = w * d
      <3>1. w * 1 = w
        OBVIOUS
      <3>2. QED BY <1>7, <3>1, Zenon
    <2>3. p \in [0..(n - 1) -> Int] /\ r \in [0..(n - 1) -> Int]
      BY <2>1
    <2>4. QED BY <2>2, <2>3, Zenon DEF Related
  <1>9. Close(w, S * h[n], a * q[n], a * u[n])
    BY <1>1, <1>3, <1>4, <1>5, <1>7, <1>8, StepsClose, Zenon
  <1>10. Mul(Reduced(s, n), p, n)[x] = q[n] /\ Mul(Reduced(s, n), r, n)[x] = u[n]
    <2>1. Mul(Reduced(s, n), p, n) = Mul(p, Reduced(s, n), n) /\ Mul(Reduced(s, n), r, n) = Mul(r, Reduced(s, n), n)
      BY <1>2, MulComm
    <2>2. QED BY <1>2, <1>3, <1>4, <2>1
  <1> DEFINE k == h[n]
             l == n * half
             e == S * k
             o == S * l
             y == a * q[n]
             z == a * u[n]
  <1>11. k \in Nat /\ l \in Nat /\ k <= l /\ y \in Int /\ z \in Int
    <2>1. q[n] \in Int /\ u[n] \in Int
      <3>1. n \in 0..n
        OBVIOUS
      <3>2. QED BY <1>3, <1>4, <3>1 DEF Steps
    <2>2. \A i \in Nat, b \in Int : i * b \in Int
      BY Z3
    <2>3. l \in Nat
      <3>1. \A i, b \in Nat : i * b \in Nat
        BY Z3
      <3>2. QED BY <1>1, <3>1
    <2> HIDE DEF l
    <2>4. QED BY <1>6, <2>1, <2>2, <2>3 DEF l
  <1> HIDE DEF k, l
  <1>12. e \in Int /\ o \in Int /\ e <= o
    <2>1. \A i, b, c \in Nat : b <= c => i * b <= i * c
      BY Z3
    <2>2. \A i, b \in Nat : i * b \in Int
      BY Z3
    <2>3. QED BY <1>11, <2>1, <2>2
  <1>13. Close(w, e, y, z)
    BY <1>9 DEF k
  <1> HIDE DEF e, o, y, z
  <1>14. Close(w, o, y, z)
    <2>1. w = w * 1
      OBVIOUS
    <2>2. QED BY <1>7, <1>11, <1>12, <1>13, <2>1, CloseWeaken, Zenon
  <1>15. QED BY <1>10, <1>14 DEF o, l, y, z

\* The term of one level of a gadget product, and what it stands for.
LEMMA LevelNear ==
  ASSUME NEW n \in Nat \ {0}, NEW half, NEW s, Within(s, half, n), NEW q, NEW S, NEW p, NEW g, NEW M,
         Holds(q, S, p, g, M, n), NEW x \in 0..(n - 1)
  PROVE  Close(2 * q * P, S * (n * half), 2 * q * Mul(Reduced(s, n), p, n)[x],
               2 * q * Mul(Reduced(s, n), Scale(g % P, Reduced(M, n)), n)[x])
  <1>1. /\ p \in Poly(n) /\ g \in Nat /\ M \in [0..(n - 1) -> Int] /\ q \in Nat /\ S \in Nat
        /\ \A y \in 0..(n - 1) : Close(2 * q * P, S, 2 * q * p[y], 2 * q * (g * M[y]))
    BY DEF Holds
  <1> DEFINE a == 2 * q
             w == a * P
             r == Scale(g % P, Reduced(M, n))
  <1>2. a \in Nat /\ P \in Nat \ {0} /\ P \in Int /\ w \in Int /\ 0 \in Int /\ S \in Int
    <2>1. P \in Nat \ {0} /\ a \in Nat
      BY <1>1, ModulusAssumption
    <2> HIDE DEF a
    <2>2. QED BY <1>1, <2>1
  <1>3. g % P \in Coeff /\ Reduced(M, n) \in Poly(n)
    <2>1. g \in Int
      BY <1>1
    <2>2. QED BY <1>1, <2>1, IntMod, ReducedIn
  <1>4. r \in Poly(n)
    BY <1>3, PolyScales
  <1>5. ASSUME NEW y \in 0..(n - 1) PROVE Close(w, S, a * p[y], a * r[y])
    <2> DEFINE t == g * M[y]
               u == r[y]
               v == p[y]
    <2>1. t \in Int /\ u \in Int /\ v \in Int /\ Close(P, 0, t, u)
      <3>1. u \in Int /\ Close(P, 0, t, u)
        BY <1>1, ReducedIn
      <3>2. v \in Coeff
        BY <1>1, PolyAt
      <3>3. \A k \in Nat, l \in Int : k * l \in Int
        BY Z3
      <3>4. M[y] \in Int
        BY <1>1
      <3>5. t \in Int
        BY <1>1, <3>3, <3>4
      <3>6. v \in Int
        BY <3>2, CoeffClosed
      <3>7. QED BY <3>1, <3>5, <3>6
    <2>2. Close(w, S, a * v, a * t)
      BY <1>1
    <2> HIDE DEF t, u, v, a
    <2>3. Close(w, a * 0, a * t, a * u) /\ a * 0 = 0
      <3>1. Close(w, a * 0, a * t, a * u)
        BY <1>2, <2>1, CloseScale, Zenon
      <3>2. QED BY <1>2, <3>1
    <2> DEFINE A == a * v
               B == a * t
               C == a * u
    <2>4. A \in Int /\ B \in Int /\ C \in Int
      <3>1. \A k \in Nat, l \in Int : k * l \in Int
        BY Z3
      <3>2. QED BY <1>2, <2>1, <3>1
    <2>5. Close(w, 0, B, C) /\ Close(w, S, A, B)
      BY <2>2, <2>3
    <2> HIDE DEF A, B, C, w
    <2>6. Close(w, S + 0, A, C)
      BY <1>2, <2>4, <2>5, CloseTrans, Zenon
    <2>7. S + 0 = S
      BY <1>2
    <2>8. Close(w, S, A, C)
      BY <2>6, <2>7
    <2>9. QED BY <2>8 DEF A, C, u, v
  <1> HIDE DEF a, r
  <1>6. a * P = w
    OBVIOUS
  <1> HIDE DEF w
  <1>7. Close(w, S * (n * half), a * Mul(Reduced(s, n), p, n)[x], a * Mul(Reduced(s, n), r, n)[x])
    BY <1>1, <1>2, <1>4, <1>5, <1>6, ProductNear, Zenon
  <1>8. QED BY <1>7 DEF a, r, w

\* Integers d[k] of each level.
Digits(d, num, n) == \A k \in 0..(num - 1) : d[k] \in [0..(n - 1) -> Int]

\* Digits d[k] of a level each, times the level's gadget entry.
LevelTerms(d, g, num, n) == [k \in 0..(num - 1) |-> Scale(g[k] % P, Reduced(d[k], n))]

\* Digits d[k] times m times the level's gadget entry.
EntryTerms(d, g, m, num, n) == [k \in 0..(num - 1) |-> Mul(Reduced(d[k], n), Scale(g[k] % P, m), n)]

\* Digits d[k] times polynomials p[k].
DigitTerms(d, p, num, n) == [k \in 0..(num - 1) |-> Mul(Reduced(d[k], n), p[k], n)]

\* One level's product, the gadget entry moved to the digits.
LEMMA LevelMoves ==
  ASSUME NEW n \in Nat \ {0}, NEW d \in Poly(n), NEW m \in Poly(n), NEW c \in Coeff
  PROVE  /\ Mul(d, Scale(c, m), n) = Mul(Scale(c, d), m, n)
         /\ Mul(Scale(c, d), m, n) \in Poly(n) /\ Scale(c, d) \in Poly(n)
  <1>1. Scale(c, d) \in Poly(n)
    BY PolyScales
  <1>2. Mul(Scale(c, d), m, n) = Scale(c, Mul(d, m, n))
    BY MulScaleLeft
  <1>3. Mul(d, Scale(c, m), n) = Scale(c, Mul(d, m, n))
    BY MulLinear
  <1>4. Mul(Scale(c, d), m, n) \in Poly(n)
    BY <1>1, MulClosed
  <1>5. QED BY <1>1, <1>2, <1>3, <1>4

\* An additive map H, and U what it makes of the terms E.
Additive(H, E, U, num, n) ==
  /\ H[Zero(n)] = Zero(n) /\ \A f, g \in Poly(n) : H[Add(f, g)] = Add(H[f], H[g])
  /\ \A k \in 0..(num - 1) : U[k] = H[E[k]]

\* SumsMapped within one degree.
LEMMA SumsThrough ==
  ASSUME NEW n, NEW num \in Nat, NEW E \in Terms(num, n), NEW U, NEW H \in [Poly(n) -> Poly(n)], Additive(H, E, U, num, n)
  PROVE  Sums(U, 0, num, n) = H[Sums(E, 0, num, n)]
  <1>1. /\ H[Zero(n)] = Zero(n) /\ \A f, g \in Poly(n) : H[Add(f, g)] = Add(H[f], H[g])
        /\ \A k \in 0..(num - 1) : U[k] = H[E[k]]
    BY DEF Additive
  <1>2. QED BY <1>1, SumsMapped

\* A factor common to all terms.
LEMMA SumsTimes ==
  ASSUME NEW n \in Nat \ {0}, NEW num \in Nat, NEW m \in Poly(n), NEW E \in Terms(num, n),
         NEW U, \A k \in 0..(num - 1) : U[k] = Mul(E[k], m, n)
  PROVE  Sums(U, 0, num, n) = Mul(Sums(E, 0, num, n), m, n)
  <1> DEFINE H == [f \in Poly(n) |-> Mul(f, m, n)]
  <1>1. \A k \in 0..(num - 1) : E[k] \in Poly(n)
    BY DEF Terms
  <1>6. H \in [Poly(n) -> Poly(n)] /\ \A f \in Poly(n) : H[f] = Mul(f, m, n)
    <2>1. \A f \in Poly(n) : Mul(f, m, n) \in Poly(n)
      BY MulClosed
    <2>2. QED BY <2>1, Zenon
  <1> HIDE DEF H
  <1>7. H[Zero(n)] = Zero(n)
    <2>1. Mul(Zero(n), m, n) = Zero(n) /\ Zero(n) \in Poly(n)
      BY MulZero, PolyAt
    <2>2. QED BY <1>6, <2>1
  <1>8. \A f1, g1 \in Poly(n) : H[Add(f1, g1)] = Add(H[f1], H[g1])
    <2>1. \A f1, g1 \in Poly(n) : Add(f1, g1) \in Poly(n) /\ Mul(Add(f1, g1), m, n) = Add(Mul(f1, m, n), Mul(g1, m, n))
      BY AddClosed, MulSumLeft
    <2>2. QED BY <1>6, <2>1
  <1>9. \A k \in 0..(num - 1) : U[k] = H[E[k]]
    BY <1>1, <1>6
  <1>10. Sums(U, 0, num, n) = H[Sums(E, 0, num, n)]
    <2>1. H \in [Poly(n) -> Poly(n)]
      BY <1>6
    <2>2. Additive(H, E, U, num, n)
      BY <1>7, <1>8, <1>9 DEF Additive
    <2>3. QED BY <2>1, <2>2, SumsThrough
  <1>11. Sums(E, 0, num, n) \in Poly(n)
    <2>1. 0 \in Nat /\ 0 <= num
      OBVIOUS
    <2>2. QED BY <2>1, SumsClosed
  <1>12. QED BY <1>6, <1>10, <1>11

\* The sum of the levels is the recomposed digits times m.
Carried(d, g, m, num, n) ==
  /\ EntryTerms(d, g, m, num, n) \in Terms(num, n) /\ LevelTerms(d, g, num, n) \in Terms(num, n)
  /\ Sums(LevelTerms(d, g, num, n), 0, num, n) \in Poly(n)
  /\ Sums(EntryTerms(d, g, m, num, n), 0, num, n) = Mul(Sums(LevelTerms(d, g, num, n), 0, num, n), m, n)

\* What the levels of a gadget product add up to, where every polynomial is
\* the level's entry times one: that one times the recomposed digits.
LEMMA LevelsCarry ==
  ASSUME NEW n \in Nat \ {0}, NEW num \in Nat, NEW m \in Poly(n), NEW g \in [0..(num - 1) -> Nat],
         NEW d, Digits(d, num, n)
  PROVE  Carried(d, g, m, num, n)
  <1> DEFINE E == LevelTerms(d, g, num, n)
             U == EntryTerms(d, g, m, num, n)
  <1>1. \A k \in 0..(num - 1) : Reduced(d[k], n) \in Poly(n) /\ g[k] % P \in Coeff
    <2>1. ASSUME NEW k \in 0..(num - 1) PROVE Reduced(d[k], n) \in Poly(n) /\ g[k] % P \in Coeff
      <3>1. Reduced(d[k], n) \in Poly(n)
        BY ReducedIn DEF Digits
      <3>2. g[k] \in Int
        OBVIOUS
      <3>3. QED BY <3>1, <3>2, IntMod
    <2>2. QED BY <2>1
  <1>2. \A k \in 0..(num - 1) : E[k] = Scale(g[k] % P, Reduced(d[k], n)) /\ U[k] = Mul(Reduced(d[k], n), Scale(g[k] % P, m), n)
    BY Zenon DEF LevelTerms, EntryTerms
  <1>3. \A k \in 0..(num - 1) : E[k] \in Poly(n) /\ U[k] \in Poly(n) /\ U[k] = Mul(E[k], m, n)
    <2>1. ASSUME NEW k \in 0..(num - 1) PROVE E[k] \in Poly(n) /\ U[k] \in Poly(n) /\ U[k] = Mul(E[k], m, n)
      <3> DEFINE f == Reduced(d[k], n)
                 c == g[k] % P
      <3>1. f \in Poly(n) /\ c \in Coeff /\ E[k] = Scale(c, f) /\ U[k] = Mul(f, Scale(c, m), n)
        BY <1>1, <1>2, Zenon
      <3> HIDE DEF f, c, E
      <3>2. /\ Mul(f, Scale(c, m), n) = Mul(Scale(c, f), m, n)
            /\ Mul(Scale(c, f), m, n) \in Poly(n) /\ Scale(c, f) \in Poly(n)
        BY <3>1, LevelMoves, Zenon
      <3>3. QED BY <3>1, <3>2, Zenon
    <2>2. QED BY <2>1, Zenon
  <1>4. E = [k \in 0..(num - 1) |-> E[k]] /\ U = [k \in 0..(num - 1) |-> U[k]]
    BY Zenon DEF LevelTerms, EntryTerms
  <1> HIDE DEF E, U
  <1>5. E \in Terms(num, n) /\ U \in Terms(num, n)
    BY <1>3, <1>4, Zenon DEF Terms
  <1>10. Sums(U, 0, num, n) = Mul(Sums(E, 0, num, n), m, n)
    BY <1>3, <1>5, SumsTimes
  <1>11. Sums(E, 0, num, n) \in Poly(n)
    <2>1. 0 \in Nat /\ 0 <= num
      OBVIOUS
    <2>2. QED BY <1>5, <2>1, SumsClosed
  <1>12. QED BY <1>5, <1>10, <1>11 DEF E, U, Carried

\* A sum added up from its last term on, at a coefficient.
LEMMA SumsTotal ==
  ASSUME NEW n, NEW num \in Nat, NEW T \in Terms(num, n), NEW x \in 0..(n - 1), NEW t \in [0..num -> Int], t[0] = 0,
         \A l \in 0..(num - 1) : Close(P, 0, T[num - 1 - l][x], t[l + 1] - t[l])
  PROVE  Close(P, 0, Sums(T, 0, num, n)[x], t[num]) /\ Sums(T, 0, num, n)[x] \in Int
  <1>0. P \in Nat \ {0} /\ P \in Int /\ 0 \in Int
    BY ModulusAssumption
  <1> DEFINE S == {i \in 0..num : Close(P, 0, Sums(T, num - i, num, n)[x], t[i])}
  <1>1. \A F \in Poly(n) : F[x] \in Int
    <2>1. \A F \in Poly(n) : F[x] \in Coeff
      BY PolyAt
    <2>2. QED BY <2>1, CoeffClosed
  <1>2. 0 \in S
    <2>1. num - 0 = num /\ 0 \in 0..num
      OBVIOUS
    <2>2. Sums(T, num, num, n) = Zero(n) /\ Zero(n)[x] = 0
      BY SumsEmpty DEF Zero
    <2>3. Close(P, 0, 0, 0)
      BY <1>0, CloseMod
    <2>4. QED BY <2>1, <2>2, <2>3
  <1>3. ASSUME NEW k \in 0..(num - 1), k \in S PROVE k + 1 \in S
    <2> DEFINE lo == num - 1 - k
    <2>0. /\ k + 1 \in 0..num /\ k \in 0..num /\ lo \in Nat /\ lo < num /\ lo + 1 = num - k /\ lo = num - (k + 1)
          /\ lo + 1 \in Nat /\ lo + 1 <= num
      OBVIOUS
    <2>a. Close(P, 0, T[lo][x], t[k + 1] - t[k])
      OBVIOUS
    <2> HIDE DEF lo
    <2>1. Sums(T, lo, num, n) = Add(T[lo], Sums(T, lo + 1, num, n)) /\ T[lo] \in Poly(n)
      BY <2>0, SumsSplit
    <2>2. Sums(T, lo + 1, num, n) \in Poly(n)
      BY <2>0, SumsClosed
    <2> DEFINE u == T[lo][x]
               F == Sums(T, lo + 1, num, n)
               v == F[x]
               z == Sums(T, lo, num, n)[x]
               t0 == t[k]
               t1 == t[k + 1]
    <2>3. u \in Int /\ v \in Int /\ z \in Int /\ z = (u + v) % P /\ t0 \in Int /\ t1 \in Int
      <3> HIDE DEF F
      <3>1. u \in Int /\ v \in Int /\ Add(T[lo], F)[x] = (u + v) % P
        <4>1. F \in Poly(n) /\ T[lo] \in Poly(n)
          BY <2>1, <2>2 DEF F
        <4>2. QED BY <4>1, SubAt, SMTT(60)
      <3>2. z = (u + v) % P
        BY <2>1, <3>1 DEF F
      <3>3. t0 \in Int /\ t1 \in Int
        BY <2>0
      <3>4. Add(T[lo], F) \in Poly(n)
        BY <2>1, <2>2, AddClosed DEF F
      <3>5. z \in Int
        BY <1>1, <2>1, <3>4 DEF F
      <3> HIDE DEF u, v, z, t0, t1
      <3>6. QED BY <3>1, <3>2, <3>3, <3>5
    <2>4. Close(P, 0, v, t0)
      <3>1. Close(P, 0, Sums(T, num - k, num, n)[x], t[k])
        BY <1>3, Zenon
      <3>2. QED BY <2>0, <3>1
    <2>5. Close(P, 0, u, t1 - t0)
      BY <2>a
    <2> HIDE DEF u, v, z, t0, t1, F
    <2>6. u + v \in Int /\ t1 - t0 \in Int /\ (t1 - t0) + t0 \in Int /\ (t1 - t0) + t0 = t1
      BY <2>3
    <2>7. Close(P, 0 + 0, u + v, (t1 - t0) + t0) /\ 0 + 0 = 0
      <3>1. Close(P, 0 + 0, u + v, (t1 - t0) + t0)
        BY <1>0, <2>3, <2>4, <2>5, <2>6, CloseSum, Zenon
      <3>2. QED BY <3>1
    <2>8. Close(P, 0, z, u + v)
      BY <1>0, <2>3, <2>6, CloseMod
    <2>9. Close(P, 0 + 0, z, t1)
      <3>1. Close(P, 0, u + v, t1)
        BY <2>6, <2>7
      <3>2. QED BY <1>0, <2>3, <2>6, <2>8, <3>1, CloseTrans, Zenon
    <2>10. Close(P, 0, z, t1)
      BY <2>7, <2>9
    <2>11. QED BY <2>0, <2>10, Zenon DEF z, t1
  <1>4. \A i \in 0..num : i \in S
    <2> HIDE DEF S
    <2>1. QED BY <1>2, <1>3, SetInduction
  <1>5. num \in 0..num /\ num - num = 0 /\ 0 \in Nat /\ 0 <= num
    OBVIOUS
  <1>6. Sums(T, 0, num, n) \in Poly(n)
    BY <1>5, SumsClosed
  <1>7. QED BY <1>1, <1>4, <1>5, <1>6

\* Products with integers of two polynomials that are close.
LEMMA FactorNear ==
  ASSUME NEW n \in Nat \ {0}, NEW f \in Poly(n), NEW r \in Poly(n), NEW m \in Nat,
         \A y \in 0..(n - 1) : Close(P, m, f[y], r[y]),
         NEW s \in [0..(n - 1) -> Int], NEW h, Weights(h, s, n), NEW x \in 0..(n - 1)
  PROVE  Close(P, m * h[n], Mul(f, Reduced(s, n), n)[x], Mul(r, Reduced(s, n), n)[x])
  <1>1. PICK q : Steps(P, q, s, f, n, x) /\ Mul(f, [i \in 0..(n - 1) |-> s[i] % P], n)[x] = q[n]
    BY ProductSteps
  <1>2. PICK u : Steps(P, u, s, r, n, x) /\ Mul(r, [i \in 0..(n - 1) |-> s[i] % P], n)[x] = u[n]
    BY ProductSteps
  <1>3. P \in Int /\ 1 \in Nat /\ 1 \in Int
    BY ModulusAssumption
  <1>4. \A F \in Poly(n) : F \in [0..(n - 1) -> Int]
    <2>1. \A F \in Poly(n) : F = [i \in 0..(n - 1) |-> F[i]] /\ \A i \in 0..(n - 1) : F[i] \in Int
      BY PolyAt, CoeffClosed DEF Poly
    <2>2. QED BY <2>1
  <1>5. Related(P, m, 1, 1, P, P, f, r, n)
    <2>1. \E d \in Int : 1 * P = P * d
      <3>1. 1 * P = P * 1
        BY <1>3
      <3>2. QED BY <1>3, <3>1, Zenon
    <2>2. \A y \in 0..(n - 1) : Close(P, m, 1 * f[y], 1 * r[y])
      <3>1. ASSUME NEW y \in 0..(n - 1) PROVE Close(P, m, 1 * f[y], 1 * r[y])
        <4>1. f[y] \in Int /\ r[y] \in Int
          BY <1>4
        <4>2. 1 * f[y] = f[y] /\ 1 * r[y] = r[y]
          BY <4>1
        <4>3. QED BY <4>2
      <3>2. QED BY <3>1
    <2>3. QED BY <1>4, <2>1, <2>2, Zenon DEF Related
  <1>6. Close(P, m * h[n], 1 * q[n], 1 * u[n])
    BY <1>1, <1>2, <1>3, <1>5, StepsClose, Zenon
  <1>7. 1 * q[n] = q[n] /\ 1 * u[n] = u[n]
    <2>1. q[n] \in Int /\ u[n] \in Int
      <3>1. n \in 0..n
        OBVIOUS
      <3>2. QED BY <1>1, <1>2, <3>1 DEF Steps
    <2>2. QED BY <2>1
  <1>8. QED BY <1>1, <1>2, <1>6, <1>7 DEF Reduced

\* Digits of at most half, and samples that hold the integers M times the
\* entries of a gadget.
GadgetSamples(d, p, g, M, half, q, S, num, n) ==
  /\ n \in Nat \ {0} /\ num \in Nat /\ half \in Nat /\ q \in Nat /\ S \in Nat
  /\ M \in [0..(n - 1) -> Int] /\ g \in [0..(num - 1) -> Nat] /\ p \in Terms(num, n)
  /\ \A k \in 0..(num - 1) : Within(d[k], half, n) /\ Holds(q, S, p[k], g[k], M, n)

\* A gadget product: the recomposed digits times the integers the samples
\* hold, up to a digit times the samples' slack at every level.
LEMMA GadgetTerms ==
  ASSUME NEW d, NEW p, NEW g, NEW M, NEW half, NEW q, NEW S, NEW num, NEW n,
         GadgetSamples(d, p, g, M, half, q, S, num, n), NEW x \in 0..(n - 1)
  PROVE  LET W == Sums(LevelTerms(d, g, num, n), 0, num, n)
             T == DigitTerms(d, p, num, n)
         IN  /\ W \in Poly(n) /\ T \in Terms(num, n) /\ Sums(T, 0, num, n)[x] \in Int
             /\ Mul(W, Reduced(M, n), n) \in Poly(n)
             /\ Close(2 * q * P, (S * (n * half)) * num, 2 * q * Sums(T, 0, num, n)[x], 2 * q * Mul(W, Reduced(M, n), n)[x])
  <1>1. /\ n \in Nat \ {0} /\ num \in Nat /\ half \in Nat /\ q \in Nat /\ S \in Nat
        /\ M \in [0..(n - 1) -> Int] /\ g \in [0..(num - 1) -> Nat] /\ p \in Terms(num, n)
        /\ \A k \in 0..(num - 1) : Within(d[k], half, n) /\ Holds(q, S, p[k], g[k], M, n)
    BY DEF GadgetSamples
  <1> DEFINE m == Reduced(M, n)
             W == Sums(LevelTerms(d, g, num, n), 0, num, n)
             T == DigitTerms(d, p, num, n)
             U == EntryTerms(d, g, m, num, n)
             a == 2 * q
             w == a * P
             b == S * (n * half)
  <1>2. m \in Poly(n)
    BY <1>1, ReducedIn
  <1>3. \A k \in 0..(num - 1) : d[k] \in [0..(n - 1) -> Int] /\ p[k] \in Poly(n)
    BY <1>1 DEF Within, Terms
  <1>4. /\ U \in Terms(num, n) /\ W \in Poly(n) /\ Sums(U, 0, num, n) = Mul(W, m, n)
    <2>1. Digits(d, num, n)
      BY <1>3 DEF Digits
    <2>2. n \in Nat \ {0} /\ num \in Nat /\ g \in [0..(num - 1) -> Nat]
      BY <1>1
    <2> HIDE DEF m
    <2>3. Carried(d, g, m, num, n)
      BY <1>2, <2>1, <2>2, LevelsCarry, Zenon
    <2>4. QED BY <2>3 DEF Carried
  <1>5. \A k \in 0..(num - 1) : /\ T[k] = Mul(Reduced(d[k], n), p[k], n) /\ T[k] \in Poly(n)
                                /\ U[k] = Mul(Reduced(d[k], n), Scale(g[k] % P, m), n)
    <2>1. \A k \in 0..(num - 1) : /\ T[k] = Mul(Reduced(d[k], n), p[k], n)
                                  /\ U[k] = Mul(Reduced(d[k], n), Scale(g[k] % P, m), n)
      BY Zenon DEF DigitTerms, EntryTerms
    <2>2. \A k \in 0..(num - 1) : Mul(Reduced(d[k], n), p[k], n) \in Poly(n)
      BY <1>1, <1>3, ReducedIn, MulClosed
    <2> HIDE DEF T, U, m
    <2>3. QED BY <2>1, <2>2
  <1>6. T \in Terms(num, n)
    <2>1. T = [k \in 0..(num - 1) |-> T[k]]
      BY DEF DigitTerms
    <2> HIDE DEF T
    <2>2. QED BY <1>5, <2>1, Zenon DEF Terms
  <1>7. a \in Nat /\ P \in Nat \ {0} /\ P \in Int /\ w \in Int /\ b \in Nat
    <2>1. a \in Nat /\ P \in Nat \ {0} /\ P \in Int
      BY <1>1, ModulusAssumption
    <2>2. \A k, l \in Nat : k * l \in Nat /\ k * l \in Int
      BY Z3
    <2>3. n * half \in Nat
      BY <1>1, <2>2
    <2>4. b \in Nat
      BY <1>1, <2>2, <2>3
    <2> HIDE DEF a, b
    <2>5. QED BY <2>1, <2>2, <2>4
  <1>8. \A k \in 0..(num - 1) : Close(w, b, a * T[k][x], a * U[k][x])
    <2>1. ASSUME NEW k \in 0..(num - 1) PROVE Close(w, b, a * T[k][x], a * U[k][x])
      <3>1. Within(d[k], half, n) /\ Holds(q, S, p[k], g[k], M, n)
        BY <1>1
      <3> HIDE DEF T, U
      <3>2. Close(w, b, a * Mul(Reduced(d[k], n), p[k], n)[x], a * Mul(Reduced(d[k], n), Scale(g[k] % P, m), n)[x])
        BY <1>1, <3>1, LevelNear, Zenon
      <3>3. QED BY <1>5, <3>2
    <2>2. QED BY <2>1
  <1>9. a * P = w
    OBVIOUS
  <1>10. Mul(W, m, n) \in Poly(n)
    BY <1>1, <1>2, <1>4, MulClosed
  <1> HIDE DEF T, U, a, w, b, m, W
  <1>11. Close(w, b * num, a * Sums(T, 0, num, n)[x], a * Sums(U, 0, num, n)[x]) /\ Sums(T, 0, num, n)[x] \in Int
    BY <1>1, <1>4, <1>6, <1>7, <1>8, <1>9, SumsNear
  <1>12. QED BY <1>4, <1>6, <1>10, <1>11 DEF T, a, w, b, m, W

\* A gadget product with the digits of f: f times the integers the samples
\* hold, the rest of the decomposition included.
LEMMA GadgetNear ==
  ASSUME NEW d, NEW p, NEW g, NEW M, NEW half, NEW q, NEW S, NEW num, NEW n,
         GadgetSamples(d, p, g, M, half, q, S, num, n), NEW x \in 0..(n - 1),
         NEW f \in Poly(n), NEW m \in Nat,
         \A y \in 0..(n - 1) : Close(P, m, Sums(LevelTerms(d, g, num, n), 0, num, n)[y], f[y]),
         NEW h, Weights(h, M, n)
  PROVE  /\ Close(2 * q * P, (n * num * half * S) + (2 * q * h[n] * m),
                  2 * q * Sums(DigitTerms(d, p, num, n), 0, num, n)[x], 2 * q * Mul(f, Reduced(M, n), n)[x])
         /\ (n * num * half * S) + (2 * q * h[n] * m) \in Nat
         /\ Sums(DigitTerms(d, p, num, n), 0, num, n)[x] \in Int /\ Mul(f, Reduced(M, n), n)[x] \in Int
  <1>1. /\ n \in Nat \ {0} /\ num \in Nat /\ half \in Nat /\ q \in Nat /\ S \in Nat /\ M \in [0..(n - 1) -> Int]
    BY DEF GadgetSamples
  <1> DEFINE c == Reduced(M, n)
             W == Sums(LevelTerms(d, g, num, n), 0, num, n)
             T == DigitTerms(d, p, num, n)
             a == 2 * q
             w == a * P
             u == Sums(T, 0, num, n)[x]
             v == Mul(W, c, n)[x]
             z == Mul(f, c, n)[x]
             hn == h[n]
             b1 == (S * (n * half)) * num
             b2 == a * (m * hn)
  <1>2. W \in Poly(n) /\ u \in Int /\ Mul(W, c, n) \in Poly(n) /\ Close(w, b1, a * u, a * v)
    BY GadgetTerms
  <1>3. c \in Poly(n) /\ Mul(f, c, n) \in Poly(n)
    <2>1. c \in Poly(n)
      BY <1>1, ReducedIn
    <2> HIDE DEF c
    <2>2. QED BY <1>1, <2>1, MulClosed
  <1>4. v \in Int /\ z \in Int
    <2> HIDE DEF c, W
    <2>1. v \in Coeff /\ z \in Coeff
      BY <1>2, <1>3, PolyAt
    <2>2. QED BY <2>1, CoeffClosed
  <1>5. Close(P, m * hn, v, z)
    <2>1. \A y \in 0..(n - 1) : Close(P, m, W[y], f[y])
      OBVIOUS
    <2> HIDE DEF W
    <2>2. QED BY <1>1, <1>2, <2>1, FactorNear
  <1>6. hn \in Nat
    BY <1>1 DEF Weights
  <1>7. a \in Nat /\ P \in Nat \ {0} /\ P \in Int
    BY <1>1, ModulusAssumption
  <1>8. \A k, l \in Int : k * l \in Int
    OBVIOUS
  <1>9. \A k, l \in Nat : k * l \in Nat
    BY Z3
  <1> HIDE DEF c, W, T, a, u, v, z, hn
  <1>10. m * hn \in Nat /\ m * hn \in Int /\ w \in Int /\ a * u \in Int /\ a * v \in Int /\ a * z \in Int
    <2>1. m * hn \in Nat
      BY <1>6, <1>9
    <2>2. a \in Int
      BY <1>7
    <2>3. QED BY <1>2, <1>4, <1>7, <1>8, <2>1, <2>2
  <1>11. Close(w, b2, a * v, a * z)
    BY <1>4, <1>5, <1>7, <1>10, CloseScale, Zenon
  <1>12. b1 \in Nat /\ b2 \in Nat
    <2>1. n * half \in Nat
      BY <1>1, <1>9
    <2>2. S * (n * half) \in Nat
      BY <1>1, <1>9, <2>1
    <2>3. QED BY <1>1, <1>7, <1>9, <1>10, <2>2
  <1>13. b1 = n * num * half * S /\ b2 = 2 * q * hn * m
    <2>1. \A i, k, l, o \in Int : (o * (i * l)) * k = i * k * l * o
      BY Z3
    <2>2. \A i, k, l \in Int : (2 * i) * (l * k) = 2 * i * k * l
      BY Z3
    <2>3. n \in Int /\ num \in Int /\ half \in Int /\ S \in Int /\ q \in Int /\ hn \in Int /\ m \in Int
      BY <1>1, <1>6
    <2>4. b2 = 2 * q * hn * m
      BY <2>2, <2>3 DEF a
    <2>5. QED BY <2>1, <2>3, <2>4
  <1> HIDE DEF w, b1, b2
  <1> DEFINE A == a * u
             B == a * v
             C == a * z
  <1>14. A \in Int /\ B \in Int /\ C \in Int /\ Close(w, b1, A, B) /\ Close(w, b2, B, C) /\ w \in Int /\ b1 \in Int /\ b2 \in Int /\ b1 + b2 \in Nat
    BY <1>2, <1>10, <1>11, <1>12
  <1> HIDE DEF A, B, C
  <1>15. Close(w, b1 + b2, A, C)
    BY <1>14, CloseTrans
  <1>16. QED BY <1>2, <1>4, <1>13, <1>14, <1>15 DEF A, C, T, a, c, u, w, z, hn

\* Sums of polynomials that, times k, are close.
LEMMA AddNear ==
  ASSUME NEW n, NEW b \in Poly(n), NEW c \in Poly(n), NEW d \in Poly(n), NEW e \in Poly(n), NEW x \in 0..(n - 1),
         NEW k \in Nat, NEW l \in Int, NEW m \in Int,
         Close(k * P, l, k * b[x], k * d[x]), Close(k * P, m, k * c[x], k * e[x])
  PROVE  Close(k * P, l + m, k * Add(b, c)[x], k * Add(d, e)[x]) /\ Add(b, c)[x] \in Int /\ Add(d, e)[x] \in Int
  <1> DEFINE u == b[x]
             v == c[x]
             y == d[x]
             z == e[x]
             r == Add(b, c)[x]
             s == Add(d, e)[x]
             w == k * P
  <1>1. P \in Nat \ {0} /\ P \in Int /\ 0 \in Int /\ w \in Int /\ k \in Int
    BY ModulusAssumption
  <1>2. u \in Int /\ v \in Int /\ y \in Int /\ z \in Int /\ r = (u + v) % P /\ s = (y + z) % P
    BY SubAt
  <1> HIDE DEF u, v, y, z, r, s
  <1>3. \A i, o \in Int : i + o \in Int
    OBVIOUS
  <1>4. u + v \in Int /\ y + z \in Int
    BY <1>2, <1>3
  <1>5. Close(P, 0, r, u + v) /\ Close(P, 0, y + z, s) /\ r \in Int /\ s \in Int
    BY <1>1, <1>2, <1>4, CloseMod
  <1>6. Close(w, k * 0, k * r, k * (u + v)) /\ Close(w, k * 0, k * (y + z), k * s)
    BY <1>1, <1>4, <1>5, CloseScale, Zenon
  <1>7. k * 0 = 0 /\ k * (u + v) = k * u + k * v /\ k * (y + z) = k * y + k * z
    <2>1. \A i, o, j \in Int : i * 0 = 0 /\ i * (o + j) = i * o + i * j
      BY Z3
    <2>2. QED BY <1>1, <1>2, <2>1
  <1> DEFINE U == k * u
             V == k * v
             Y == k * y
             Z == k * z
             R == k * r
             S == k * s
  <1>8. U \in Int /\ V \in Int /\ Y \in Int /\ Z \in Int /\ R \in Int /\ S \in Int
    <2>1. \A i, o \in Int : i * o \in Int
      OBVIOUS
    <2>2. QED BY <1>1, <1>2, <1>5, <2>1
  <1>9. Close(w, 0, R, U + V) /\ Close(w, 0, Y + Z, S) /\ Close(w, l, U, Y) /\ Close(w, m, V, Z)
    BY <1>6, <1>7 DEF u, v, y, z
  <1> HIDE DEF U, V, Y, Z, R, S, w
  <1>10. U + V \in Int /\ Y + Z \in Int /\ l + m \in Int /\ 0 + (l + m) \in Int
    BY <1>3, <1>8
  <1>11. Close(w, l + m, U + V, Y + Z)
    BY <1>1, <1>8, <1>9, CloseSum, Zenon
  <1>12. Close(w, 0 + (l + m), R, Y + Z)
    BY <1>1, <1>8, <1>9, <1>10, <1>11, CloseTrans, Zenon
  <1>13. Close(w, (0 + (l + m)) + 0, R, S)
    BY <1>1, <1>8, <1>9, <1>10, <1>12, CloseTrans, Zenon
  <1>14. (0 + (l + m)) + 0 = l + m
    OBVIOUS
  <1>15. QED BY <1>5, <1>13, <1>14 DEF R, S, r, s, w

\* The same with a first term that stays.
LEMMA AddsNear ==
  ASSUME NEW n, NEW a \in Poly(n), NEW b \in Poly(n), NEW c \in Poly(n), NEW d \in Poly(n), NEW e \in Poly(n),
         NEW x \in 0..(n - 1), NEW k \in Nat, NEW l \in Int, NEW m \in Int,
         Close(k * P, l, k * b[x], k * d[x]), Close(k * P, m, k * c[x], k * e[x])
  PROVE  /\ Close(k * P, l + m, k * Add(a, Add(b, c))[x], k * Add(a, Add(d, e))[x])
         /\ Add(a, Add(b, c))[x] \in Int /\ Add(a, Add(d, e))[x] \in Int
  <1> DEFINE u == Add(b, c)
             v == Add(d, e)
  <1>1. Close(k * P, l + m, k * u[x], k * v[x])
    BY AddNear, Zenon
  <1>2. u \in Poly(n) /\ v \in Poly(n)
    BY AddClosed
  <1>3. Close(k * P, 0, k * a[x], k * a[x])
    <2>1. a[x] \in Int
      <3>1. a[x] \in Coeff
        BY PolyAt
      <3>2. QED BY <3>1, CoeffClosed
    <2> DEFINE y == k * a[x]
               w == k * P
    <2>2. y \in Int
      BY <2>1
    <2>3. y = y + 0 + w * 0 /\ 0 <= 0 /\ -0 <= 0 /\ 0 \in Int
      <3>1. w \in Int
        BY ModulusAssumption
      <3> HIDE DEF y, w
      <3>2. QED BY <2>2, <3>1, Z3
    <2> HIDE DEF y, w
    <2>4. Close(w, 0, y, y)
      BY <2>3, Zenon DEF Close
    <2>5. QED BY <2>4 DEF y, w
  <1> HIDE DEF u, v
  <1>4. l + m \in Int /\ 0 \in Int /\ 0 + (l + m) = l + m
    OBVIOUS
  <1>5. Close(k * P, 0 + (l + m), k * Add(a, u)[x], k * Add(a, v)[x]) /\ Add(a, u)[x] \in Int /\ Add(a, v)[x] \in Int
    BY <1>1, <1>2, <1>3, <1>4, AddNear, Zenon
  <1>6. QED BY <1>4, <1>5 DEF u, v

\* A constant taken out of the right factor.
LEMMA MulScaleRight ==
  ASSUME NEW n \in Nat \ {0}, NEW d \in Poly(n), NEW m \in Poly(n), NEW c \in Coeff
  PROVE  Mul(d, Scale(c, m), n) = Scale(c, Mul(d, m, n))
  BY MulLinear

\* A product with what a bit leaves of a secret key and of one.
LEMMA BitProducts ==
  ASSUME NEW n \in Nat \ {0}, NEW a \in Poly(n), NEW f \in Poly(n), NEW g \in Poly(n), NEW s \in Poly(n)
  PROVE  /\ Add(a, Add(Mul(f, Zero(n), n), Mul(g, Zero(n), n))) = a
         /\ \A c \in Poly(n) : Sub(c, a) = Sub(g, Mul(f, s, n)) => Add(a, Add(Mul(f, Neg(s), n), Mul(g, One(n), n))) = c
  <1> DEFINE z == Zero(n)
             u == Mul(f, s, n)
             o == CNeg(COne)
  <1>1. u \in Poly(n) /\ z \in Poly(n) /\ Neg(u) \in Poly(n) /\ Neg(s) \in Poly(n)
    <2>1. u \in Poly(n) /\ z \in Poly(n)
      BY MulClosed, PolyAt
    <2> HIDE DEF u, z
    <2>2. QED BY <2>1, SubClosed
  <1>2. Add(a, Add(Mul(f, z, n), Mul(g, z, n))) = a
    <2>1. Mul(f, z, n) = z /\ Mul(g, z, n) = z
      BY MulZero
    <2> HIDE DEF z
    <2>2. Add(z, z) = z /\ Add(a, z) = a
      BY <1>1, PolySums DEF z
    <2>3. QED BY <2>1, <2>2
  <1>3. o \in Coeff
    BY CoeffClosed
  <1>4. Neg(s) = Scale(o, s) /\ Neg(u) = Scale(o, u)
    <2> HIDE DEF u
    <2>1. QED BY <1>1, PolyCancel
  <1>5. Mul(f, Scale(o, s), n) = Scale(o, u)
    <2> HIDE DEF o
    <2>1. QED BY <1>3, MulScaleRight, Zenon
  <1>6. Mul(f, Neg(s), n) = Neg(u)
    BY <1>4, <1>5
  <1>7. Mul(g, One(n), n) = g
    BY MulOne
  <1> HIDE DEF u, z, o
  <1>8. Add(Neg(u), g) = Sub(g, u)
    <2>1. Add(Neg(u), g) = Add(g, Neg(u))
      BY <1>1, AddComm
    <2>2. Sub(g, u) = Add(g, Neg(u))
      BY <1>1, SubIs
    <2>3. QED BY <2>1, <2>2
  <1>9. ASSUME NEW c \in Poly(n), Sub(c, a) = Sub(g, u) PROVE Add(a, Add(Neg(u), g)) = c
    <2>1. Sub(c, a) \in Poly(n) /\ Add(Sub(c, a), a) = c
      BY PolyCancel
    <2>2. Add(a, Sub(c, a)) = Add(Sub(c, a), a)
      BY <2>1, AddComm
    <2>3. QED BY <1>8, <1>9, <2>1, <2>2
  <1>10. \A c \in Poly(n) : Sub(c, a) = Sub(g, u) => Add(a, Add(Mul(f, Neg(s), n), Mul(g, One(n), n))) = c
    BY <1>6, <1>7, <1>9
  <1>11. QED BY <1>2, <1>10 DEF z, u

-----------------------------------------------------------------------------
(***************************************************************************)
(* Powers.                                                                 *)
(***************************************************************************)

\* The power b^exp modulo P.
Pow(b, exp) ==
  LET power[e \in 0..exp] == IF e = 0 THEN 1 % P ELSE (power[e - 1] * b) % P
  IN  power[exp]

\* h are the powers of b up to the n-th.
PowersOf(h, b, n) == h[0] = COne /\ \A k \in 1..n : h[k] = CMul(h[k - 1], b)

\* A sequence that multiplies by b at each turn ends at the power.
LEMMA PowIs ==
  ASSUME NEW n \in Nat, NEW b, NEW h, PowersOf(h, b, n)
  PROVE  Pow(b, n) = h[n]
  <1> DEFINE Solves(f) == f = [e \in 0..n |-> IF e = 0 THEN 1 % P ELSE (f[e - 1] * b) % P]
             f0 == CHOOSE f : Solves(f)
             h0 == [k \in 0..n |-> h[k]]
  <1>1. 0 \in 0..n /\ n \in 0..n
    OBVIOUS
  <1>2. \A k \in 0..n : k # 0 => k \in 1..n /\ k - 1 \in 0..n
    OBVIOUS
  <1>3. \A k \in 1..n : k # 0 /\ k \in 0..n /\ k - 1 \in 0..n
    OBVIOUS
  <1>4. Solves(h0)
    <2>1. ASSUME NEW k \in 0..n PROVE h[k] = IF k = 0 THEN 1 % P ELSE (h0[k - 1] * b) % P
      BY <1>2, Zenon DEF PowersOf, COne, CMul
    <2>2. QED BY <2>1, Zenon
  <1>5. Solves(f0)
    BY <1>4, Zenon
  <1>6. Pow(b, n) = f0[n]
    BY Zenon DEF Pow
  <1> HIDE DEF f0
  <1>7. f0[0] = COne /\ \A k \in 1..n : f0[k] = CMul(f0[k - 1], b)
    <2>1. \A k \in 0..n : f0[k] = IF k = 0 THEN 1 % P ELSE (f0[k - 1] * b) % P
      BY <1>5, Zenon
    <2>2. QED BY <1>1, <1>3, <2>1, Zenon DEF COne, CMul
  <1> HIDE DEF Solves, h0
  <1>8. \A l \in 0..n : f0[l] = h[l]
    <2>1. f0[0] = h[0]
      BY <1>7 DEF PowersOf
    <2>2. ASSUME NEW l \in 1..n, f0[l - 1] = h[l - 1] PROVE f0[l] = h[l]
      BY <1>7, <2>2, Zenon DEF PowersOf
    <2>3. QED BY <2>1, <2>2, AgreeUpTo
  <1>9. QED BY <1>1, <1>6, <1>8

\* Powers are coefficients, each the one before times the base.
LEMMA PowSteps ==
  ASSUME NEW b \in Nat, NEW n \in Nat
  PROVE  Pow(b, 0) = COne /\ Pow(b, n) \in Coeff /\ Pow(b, n + 1) = CMul(Pow(b, n), b)
  <1> DEFINE d == n + 1
             F == [l \in 1..d |-> [a \in Coeff |-> CMul(a, b)]]
  <1>1. d \in Nat /\ 0 \in Nat
    OBVIOUS
  <1>2. ASSUME NEW a \in Coeff PROVE CMul(a, b) \in Coeff
    <2>1. a \in Nat
      BY CoeffClosed
    <2>2. a * b \in Nat
      BY <2>1, NatProduct
    <2>3. QED BY <2>2, ModulusAssumption, DivMod DEF CMul, Coeff
  <1>3. F \in [1..d -> [Coeff -> Coeff]]
    BY <1>2, Zenon
  <1>4. COne \in Coeff
    BY CoeffClosed
  <1>5. \A l \in 1..d : \A a \in Coeff : F[l][a] = CMul(a, b)
    BY Zenon
  <1> HIDE DEF F
  <1>6. PICK h \in [0..d -> Coeff] : Obeys(h, d, COne, F)
    BY <1>1, <1>3, <1>4, Recursion
  <1>7. h[0] = COne /\ \A l \in 1..d : h[l] = F[l][h[l - 1]]
    BY <1>6 DEF Obeys
  <1>8. \A k \in 0..d : h[k] \in Coeff
    OBVIOUS
  <1>9. \A l \in 1..d : h[l] = CMul(h[l - 1], b)
    <2>1. \A l \in 1..d : l - 1 \in 0..d
      OBVIOUS
    <2>2. QED BY <1>5, <1>7, <1>8, <2>1
  <1>10. PowersOf(h, b, d) /\ PowersOf(h, b, n) /\ PowersOf(h, b, 0)
    <2>1. (\A l \in 1..n : l \in 1..d) /\ 1..0 = {}
      OBVIOUS
    <2>2. QED BY <1>7, <1>9, <2>1, Zenon DEF PowersOf
  <1>11. Pow(b, d) = h[d] /\ Pow(b, n) = h[n] /\ Pow(b, 0) = h[0]
    BY <1>1, <1>10, PowIs
  <1>12. d \in 1..d /\ d - 1 = n /\ n \in 0..d
    OBVIOUS
  <1>13. QED BY <1>7, <1>8, <1>9, <1>11, <1>12

\* Exponents add.
LEMMA PowAdd ==
  ASSUME NEW b \in Nat, NEW m \in Nat, NEW n \in Nat
  PROVE  Pow(b, m + n) = CMul(Pow(b, m), Pow(b, n))
  <1> DEFINE T == {k \in 0..n : Pow(b, m + k) = CMul(Pow(b, m), Pow(b, k))}
  <1>1. \A k \in Nat : Pow(b, k) \in Coeff /\ Pow(b, k + 1) = CMul(Pow(b, k), b)
    BY PowSteps
  <1>2. Pow(b, 0) = COne /\ COne \in Coeff
    BY PowSteps, CoeffClosed
  <1>3. 0 \in T
    <2>1. Pow(b, m) \in Coeff /\ m + 0 = m /\ 0 \in 0..n
      BY <1>1
    <2>2. CMul(Pow(b, m), COne) = Pow(b, m)
      BY <1>2, <2>1, CoeffProducts
    <2>3. QED BY <1>2, <2>1, <2>2
  <1>4. ASSUME NEW k \in 0..(n - 1), k \in T PROVE k + 1 \in T
    <2>1. k \in Nat /\ m + k \in Nat /\ m + (k + 1) = (m + k) + 1 /\ k + 1 \in 0..n
      OBVIOUS
    <2>2. Pow(b, m + (k + 1)) = CMul(Pow(b, m + k), b) /\ Pow(b, k + 1) = CMul(Pow(b, k), b)
      BY <1>1, <2>1
    <2>3. Pow(b, m + k) = CMul(Pow(b, m), Pow(b, k))
      BY <1>4
    <2>4. CMul(CMul(Pow(b, m), Pow(b, k)), b) = CMul(Pow(b, m), CMul(Pow(b, k), b))
      <3>1. Pow(b, m) \in Nat /\ Pow(b, k) \in Nat
        BY <1>1, <2>1, CoeffClosed
      <3> DEFINE x == Pow(b, m)
                 y == Pow(b, k)
      <3> HIDE DEF x, y
      <3>2. x * y \in Nat /\ y * b \in Nat /\ (x * y) * b = x * (y * b)
        BY <3>1, Z3 DEF x, y
      <3>3. x \in Nat /\ y \in Nat
        BY <3>1 DEF x, y
      <3>4. \A u, v \in Nat : ((u % P) * v) % P = (u * v) % P /\ (v * (u % P)) % P = (v * u) % P
        BY ModEarly
      <3>5. (((x * y) % P) * b) % P = ((x * y) * b) % P /\ (x * ((y * b) % P)) % P = (x * (y * b)) % P
        BY <3>2, <3>3, <3>4, Zenon
      <3>6. QED BY <3>2, <3>5, Zenon DEF CMul, x, y
    <2>5. QED BY <2>1, <2>2, <2>3, <2>4
  <1> HIDE DEF T
  <1>5. \A k \in 0..n : k \in T
    BY <1>3, <1>4, SetInduction
  <1>6. n \in T
    BY <1>5
  <1>7. QED BY <1>6 DEF T

\* Exponents multiply.
LEMMA PowPow ==
  ASSUME NEW b \in Nat, NEW m \in Nat, NEW n \in Nat
  PROVE  Pow(Pow(b, m), n) = Pow(b, m * n)
  <1> DEFINE T == {k \in 0..n : Pow(Pow(b, m), k) = Pow(b, m * k)}
  <1>1. Pow(b, m) \in Nat
    BY PowSteps, CoeffClosed
  <1>2. 0 \in T
    <2>1. Pow(Pow(b, m), 0) = COne /\ Pow(b, 0) = COne
      BY <1>1, PowSteps
    <2>2. m * 0 = 0 /\ 0 \in 0..n
      OBVIOUS
    <2>3. QED BY <2>1, <2>2
  <1>3. ASSUME NEW k \in 0..(n - 1), k \in T PROVE k + 1 \in T
    <2>1. k \in Nat /\ k + 1 \in 0..n /\ m * k \in Nat /\ m * (k + 1) = m * k + m
      BY Z3
    <2>2. Pow(Pow(b, m), k + 1) = CMul(Pow(Pow(b, m), k), Pow(b, m))
      BY <1>1, <2>1, PowSteps
    <2>3. Pow(b, m * k + m) = CMul(Pow(b, m * k), Pow(b, m))
      BY <2>1, PowAdd
    <2>4. Pow(Pow(b, m), k) = Pow(b, m * k)
      BY <1>3
    <2>5. QED BY <2>1, <2>2, <2>3, <2>4
  <1> HIDE DEF T
  <1>4. \A k \in 0..n : k \in T
    BY <1>2, <1>3, SetInduction
  <1>5. n \in T
    BY <1>4
  <1>6. QED BY <1>5 DEF T

\* The powers of numbers inverse to each other are inverse to each other.
LEMMA PowInverse ==
  ASSUME NEW a \in Coeff, NEW b \in Coeff, CMul(a, b) = COne, NEW n \in Nat
  PROVE  CMul(Pow(a, n), Pow(b, n)) = COne
  <1> DEFINE T == {k \in 0..n : CMul(Pow(a, k), Pow(b, k)) = COne}
  <1>1. a \in Nat /\ b \in Nat /\ COne \in Coeff /\ CMul(COne, COne) = COne
    BY CoeffClosed, CoeffProducts
  <1>2. 0 \in T
    <2>1. 0 \in 0..n
      OBVIOUS
    <2>2. QED BY <1>1, <2>1, PowSteps
  <1>3. ASSUME NEW k \in 0..(n - 1), k \in T PROVE k + 1 \in T
    <2>1. k \in Nat /\ k + 1 \in 0..n
      OBVIOUS
    <2>2. /\ Pow(a, k) \in Coeff /\ Pow(b, k) \in Coeff
          /\ Pow(a, k + 1) = CMul(Pow(a, k), a) /\ Pow(b, k + 1) = CMul(Pow(b, k), b)
      BY <1>1, <2>1, PowSteps
    <2>3. CMul(Pow(a, k), Pow(b, k)) = COne
      BY <1>3
    <2> DEFINE x == Pow(a, k)
               y == Pow(b, k)
    <2> HIDE DEF x, y
    <2>4. CMul(CMul(x, a), CMul(y, b)) = CMul(CMul(x, y), CMul(a, b))
      <3>1. x \in Coeff /\ y \in Coeff /\ CMul(a, y) \in Coeff /\ CMul(y, b) \in Coeff /\ CMul(a, b) \in Coeff
        BY <2>2, CoeffClosed DEF x, y
      <3>2. CMul(CMul(x, a), CMul(y, b)) = CMul(x, CMul(a, CMul(y, b)))
        BY <3>1, CoeffProducts
      <3>3. CMul(a, CMul(y, b)) = CMul(CMul(a, y), b) /\ CMul(a, y) = CMul(y, a)
            /\ CMul(CMul(y, a), b) = CMul(y, CMul(a, b))
        BY <3>1, CoeffProducts
      <3>4. CMul(x, CMul(y, CMul(a, b))) = CMul(CMul(x, y), CMul(a, b))
        BY <3>1, CoeffProducts
      <3>5. QED BY <3>2, <3>3, <3>4
    <2>5. QED BY <1>1, <2>1, <2>2, <2>3, <2>4 DEF x, y
  <1> HIDE DEF T
  <1>4. \A k \in 0..n : k \in T
    BY <1>2, <1>3, SetInduction
  <1>5. n \in T
    BY <1>4
  <1>6. QED BY <1>5 DEF T

-----------------------------------------------------------------------------
(***************************************************************************)
(* Power sums.                                                             *)
(***************************************************************************)

\* The sum of f[j], f[j + m], f[j + 2m], ... times the powers of z, n terms.
PowerSum(f, m, j, z, n) ==
  LET sum[k \in 0..n] ==
        IF k = 0 THEN 0 ELSE (sum[k - 1] + f[j + m * (k - 1)] * Pow(z, k - 1)) % P
  IN  sum[n]

\* h are its partial sums.
SumTurn(v, f, m, j, z, k) == (v + f[j + m * (k - 1)] * Pow(z, k - 1)) % P

PartialSums(h, f, m, j, z, n) == h[0] = 0 /\ \A k \in 1..n : h[k] = SumTurn(h[k - 1], f, m, j, z, k)

\* The terms are coefficients.
Strided(f, m, j, n) == \A k \in 0..(n - 1) : f[j + m * k] \in Coeff

\* A sequence that adds a term at each turn ends at the sum.
LEMMA PowerSumIs ==
  ASSUME NEW n \in Nat, NEW f, NEW m, NEW j, NEW z, NEW h, PartialSums(h, f, m, j, z, n)
  PROVE  PowerSum(f, m, j, z, n) = h[n]
  <1> DEFINE Solves(s) == s = [k \in 0..n |-> IF k = 0 THEN 0
                                ELSE (s[k - 1] + f[j + m * (k - 1)] * Pow(z, k - 1)) % P]
             f0 == CHOOSE s : Solves(s)
             h0 == [k \in 0..n |-> h[k]]
  <1>1. 0 \in 0..n /\ n \in 0..n
    OBVIOUS
  <1>2. \A k \in 0..n : k # 0 => k \in 1..n /\ k - 1 \in 0..n
    OBVIOUS
  <1>3. \A k \in 1..n : k # 0 /\ k \in 0..n /\ k - 1 \in 0..n
    OBVIOUS
  <1>4. Solves(h0)
    <2>1. ASSUME NEW k \in 0..n
          PROVE  h[k] = IF k = 0 THEN 0 ELSE (h0[k - 1] + f[j + m * (k - 1)] * Pow(z, k - 1)) % P
      BY <1>2, Zenon DEF PartialSums, SumTurn
    <2>2. QED BY <2>1, Zenon
  <1>5. Solves(f0)
    BY <1>4, Zenon
  <1>6. PowerSum(f, m, j, z, n) = f0[n]
    BY Zenon DEF PowerSum
  <1> HIDE DEF f0
  <1>7. f0[0] = 0 /\ \A k \in 1..n : f0[k] = SumTurn(f0[k - 1], f, m, j, z, k)
    <2>1. \A k \in 0..n : f0[k] = IF k = 0 THEN 0 ELSE (f0[k - 1] + f[j + m * (k - 1)] * Pow(z, k - 1)) % P
      BY <1>5, Zenon
    <2>2. QED BY <1>1, <1>3, <2>1, Zenon DEF SumTurn
  <1> HIDE DEF Solves, h0
  <1>8. \A l \in 0..n : f0[l] = h[l]
    <2>1. f0[0] = h[0]
      BY <1>7 DEF PartialSums
    <2>2. ASSUME NEW l \in 1..n, f0[l - 1] = h[l - 1] PROVE f0[l] = h[l]
      BY <1>7, <2>2, Zenon DEF PartialSums
    <2>3. QED BY <2>1, <2>2, AgreeUpTo
  <1>9. QED BY <1>1, <1>6, <1>8

\* A power sum is a coefficient; one term more is added.
LEMMA PowerSumSteps ==
  ASSUME NEW n \in Nat, NEW f, NEW m \in Nat, NEW j \in Nat, NEW z \in Coeff, Strided(f, m, j, n + 1)
  PROVE  /\ PowerSum(f, m, j, z, 0) = 0
         /\ PowerSum(f, m, j, z, n) \in Coeff
         /\ PowerSum(f, m, j, z, n + 1) = CAdd(PowerSum(f, m, j, z, n), CMul(f[j + m * n], Pow(z, n)))
         /\ PowerSum(f, m, j, z, n + 1) \in Coeff
         /\ f[j + m * n] \in Coeff /\ Pow(z, n) \in Coeff
  <1> DEFINE d == n + 1
             F == [l \in 1..d |-> [a \in Coeff |-> SumTurn(a, f, m, j, z, l)]]
  <1>1. d \in Nat /\ 0 \in Coeff /\ z \in Nat /\ 0 \in Nat
    BY CoeffClosed
  <1>2. ASSUME NEW l \in 1..d, NEW a \in Coeff
        PROVE  /\ SumTurn(a, f, m, j, z, l) = CAdd(a, CMul(f[j + m * (l - 1)], Pow(z, l - 1)))
               /\ SumTurn(a, f, m, j, z, l) \in Coeff
               /\ f[j + m * (l - 1)] \in Coeff /\ Pow(z, l - 1) \in Coeff
    <2>1. l - 1 \in 0..(d - 1) /\ l - 1 \in Nat /\ d - 1 = n /\ l - 1 \in 0..((n + 1) - 1)
      OBVIOUS
    <2>2. f[j + m * (l - 1)] \in Coeff
      BY <2>1, Zenon DEF Strided
    <2>3. Pow(z, l - 1) \in Coeff
      BY <1>1, <2>1, PowSteps
    <2> DEFINE x == f[j + m * (l - 1)]
               y == Pow(z, l - 1)
    <2> HIDE DEF x, y
    <2>4. (a + x * y) % P = CAdd(a, CMul(x, y))
      BY <2>2, <2>3, WrappedTerm DEF x, y
    <2>5. CAdd(a, CMul(x, y)) \in Coeff
      BY <2>2, <2>3, CoeffClosed DEF x, y
    <2>6. QED BY <2>2, <2>3, <2>4, <2>5 DEF SumTurn, x, y
  <1>3. F \in [1..d -> [Coeff -> Coeff]]
    BY <1>2, Zenon
  <1>4. \A l \in 1..d : \A a \in Coeff : F[l][a] = SumTurn(a, f, m, j, z, l)
    BY Zenon
  <1> HIDE DEF F
  <1>5. PICK h \in [0..d -> Coeff] : Obeys(h, d, 0, F)
    BY <1>1, <1>3, Recursion
  <1>6. h[0] = 0 /\ \A l \in 1..d : h[l] = F[l][h[l - 1]]
    BY <1>5 DEF Obeys
  <1>7. \A k \in 0..d : h[k] \in Coeff
    OBVIOUS
  <1>8. \A l \in 1..d : h[l] = SumTurn(h[l - 1], f, m, j, z, l)
    <2>1. \A l \in 1..d : l - 1 \in 0..d
      OBVIOUS
    <2>2. QED BY <1>4, <1>6, <1>7, <2>1
  <1>9. PartialSums(h, f, m, j, z, d) /\ PartialSums(h, f, m, j, z, n) /\ PartialSums(h, f, m, j, z, 0)
    <2>1. (\A l \in 1..n : l \in 1..d) /\ 1..0 = {}
      OBVIOUS
    <2>2. QED BY <1>6, <1>8, <2>1, Zenon DEF PartialSums
  <1>10. PowerSum(f, m, j, z, d) = h[d] /\ PowerSum(f, m, j, z, n) = h[n] /\ PowerSum(f, m, j, z, 0) = h[0]
    BY <1>1, <1>9, PowerSumIs
  <1>11. d \in 1..d /\ d - 1 = n /\ n \in 0..d /\ d \in 0..d
    OBVIOUS
  <1>12. h[d] = SumTurn(h[n], f, m, j, z, d) /\ h[n] \in Coeff /\ h[d] \in Coeff
    BY <1>7, <1>8, <1>11
  <1>13. /\ SumTurn(h[n], f, m, j, z, d) = CAdd(h[n], CMul(f[j + m * n], Pow(z, n)))
         /\ f[j + m * n] \in Coeff /\ Pow(z, n) \in Coeff
    BY <1>2, <1>11, <1>12
  <1>14. QED BY <1>6, <1>10, <1>12, <1>13 DEF d

\* Fewer terms than the coefficients there are.
LEMMA StridedLess ==
  ASSUME NEW f, NEW m, NEW j, NEW n \in Nat, NEW k \in 0..n, Strided(f, m, j, n)
  PROVE  Strided(f, m, j, k)
  <1>1. \A l \in 0..(k - 1) : l \in 0..(n - 1)
    OBVIOUS
  <1>2. QED BY <1>1, Zenon DEF Strided

\* What a step of a split sum comes to.
LEMMA SplitTerm ==
  ASSUME NEW e \in Coeff, NEW o \in Coeff, NEW a \in Coeff, NEW b \in Coeff, NEW y \in Coeff, NEW z \in Coeff
  PROVE  CAdd(CAdd(CAdd(e, CMul(z, o)), CMul(a, y)), CMul(b, CMul(y, z)))
           = CAdd(CAdd(e, CMul(a, y)), CMul(z, CAdd(o, CMul(b, y))))
  <1>1. \A u, v \in Coeff : CAdd(u, v) \in Coeff /\ CMul(u, v) \in Coeff
    BY CoeffClosed
  <1> DEFINE zo == CMul(z, o)
             ay == CMul(a, y)
             by == CMul(b, y)
             zb == CMul(by, z)
  <1>2. zo \in Coeff /\ ay \in Coeff /\ by \in Coeff /\ zb \in Coeff
    BY <1>1
  <1>3. CMul(b, CMul(y, z)) = zb
    BY CoeffProducts
  <1>4. CMul(z, CAdd(o, by)) = CAdd(zo, zb)
    <2>1. CMul(CAdd(o, by), z) = CAdd(CMul(o, z), CMul(by, z))
      BY <1>2, CoeffProducts
    <2>2. CMul(z, CAdd(o, by)) = CMul(CAdd(o, by), z) /\ CMul(o, z) = CMul(z, o)
      BY <1>1, <1>2, CoeffProducts
    <2>3. QED BY <2>1, <2>2
  <1> HIDE DEF zo, ay, zb
  <1>5. CAdd(CAdd(CAdd(e, zo), ay), zb) = CAdd(CAdd(e, ay), CAdd(zo, zb))
    <2>1. CAdd(CAdd(e, zo), ay) = CAdd(CAdd(e, ay), zo)
      <3>1. CAdd(CAdd(e, zo), ay) = CAdd(e, CAdd(zo, ay)) /\ CAdd(zo, ay) = CAdd(ay, zo)
        BY <1>2, CoeffSums
      <3>2. CAdd(CAdd(e, ay), zo) = CAdd(e, CAdd(ay, zo))
        BY <1>2, CoeffSums
      <3>3. QED BY <3>1, <3>2
    <2>2. CAdd(e, ay) \in Coeff
      BY <1>1, <1>2
    <2>3. CAdd(CAdd(CAdd(e, ay), zo), zb) = CAdd(CAdd(e, ay), CAdd(zo, zb))
      BY <1>2, <2>2, CoeffSums
    <2>4. QED BY <2>1, <2>3
  <1>6. QED BY <1>3, <1>4, <1>5 DEF zo, ay

\* The first powers.
LEMMA PowFirst ==
  ASSUME NEW z \in Coeff
  PROVE  Pow(z, 1) = z /\ Pow(z, 2) = CMul(z, z)
  <1>1. z \in Nat /\ 0 \in Nat /\ 1 \in Nat /\ 0 + 1 = 1 /\ 1 + 1 = 2 /\ COne \in Coeff
    BY CoeffClosed
  <1>2. Pow(z, 0 + 1) = CMul(Pow(z, 0), z) /\ Pow(z, 0) = COne /\ Pow(z, 1 + 1) = CMul(Pow(z, 1), z)
    BY <1>1, PowSteps
  <1>3. CMul(COne, z) = z
    BY <1>1, CoeffProducts
  <1>4. QED BY <1>1, <1>2, <1>3

\* A power sum is the sum of its even terms, by the squares of z, and z times
\* that of its odd terms: one butterfly.
LEMMA PowerSumSplits ==
  ASSUME NEW n \in Nat, NEW f, NEW m \in Nat, NEW j \in Nat, NEW z \in Coeff, NEW w \in Coeff, w = CMul(z, z),
         Strided(f, m, j, 2 * n)
  PROVE  /\ PowerSum(f, m, j, z, 2 * n) =
              CAdd(PowerSum(f, 2 * m, j, w, n), CMul(z, PowerSum(f, 2 * m, j + m, w, n)))
         /\ PowerSum(f, 2 * m, j, w, n) \in Coeff /\ PowerSum(f, 2 * m, j + m, w, n) \in Coeff
  <1> DEFINE E(k) == PowerSum(f, 2 * m, j, w, k)
             O(k) == PowerSum(f, 2 * m, j + m, w, k)
             S(k) == PowerSum(f, m, j, z, k)
             T == {k \in 0..n : S(2 * k) = CAdd(E(k), CMul(z, O(k))) /\ E(k) \in Coeff /\ O(k) \in Coeff}
  <1>1. z \in Nat /\ w \in Nat /\ 0 \in Coeff /\ 2 * m \in Nat /\ j + m \in Nat /\ 0 \in Nat
    BY CoeffClosed
  <1>2. ASSUME NEW k \in 0..(n - 1)
        PROVE  Strided(f, 2 * m, j, k + 1) /\ Strided(f, 2 * m, j + m, k + 1)
    <2>1. \A i \in 0..((k + 1) - 1) :
            /\ 2 * i \in 0..(2 * n - 1) /\ 2 * i + 1 \in 0..(2 * n - 1)
            /\ j + m * (2 * i) = j + (2 * m) * i /\ j + m * (2 * i + 1) = (j + m) + (2 * m) * i
      BY Z3
    <2>2. QED BY <2>1 DEF Strided
  <1>3. 0 \in T
    <2>1. PowerSum(f, 2 * m, j, w, 0) = 0 /\ PowerSum(f, 2 * m, j + m, w, 0) = 0 /\ PowerSum(f, m, j, z, 0) = 0
      <3>1. \A h : PartialSums([k \in 0..0 |-> 0], f, 2 * m, j, w, 0)
                   /\ PartialSums([k \in 0..0 |-> 0], f, 2 * m, j + m, w, 0)
                   /\ PartialSums([k \in 0..0 |-> 0], f, m, j, z, 0)
        BY DEF PartialSums
      <3>2. [k \in 0..0 |-> 0][0] = 0
        OBVIOUS
      <3>3. QED BY <1>1, <3>1, <3>2, PowerSumIs
    <2>2. CMul(z, 0) = 0
      <3>1. CMul(0, z) = 0 /\ CMul(0, z) = CMul(z, 0)
        BY <1>1, CoeffProducts
      <3>2. QED BY <3>1
    <2>3. CAdd(0, 0) = 0 /\ 2 * 0 = 0 /\ 0 \in 0..n
      BY <1>1, CoeffSums
    <2>4. QED BY <1>1, <2>1, <2>2, <2>3
  <1>4. ASSUME NEW k \in 0..(n - 1), k \in T PROVE k + 1 \in T
    <2>1. k \in Nat /\ 2 * k \in Nat /\ 2 * k + 1 \in Nat /\ 2 * (k + 1) = (2 * k + 1) + 1 /\ k + 1 \in 0..n
          /\ (2 * k) + 1 \in 0..(2 * n) /\ (2 * k + 1) + 1 \in 0..(2 * n) /\ 2 * n \in Nat
      OBVIOUS
    <2>2. Strided(f, m, j, (2 * k) + 1) /\ Strided(f, m, j, (2 * k + 1) + 1)
      BY <2>1, StridedLess
    <2>3. S(2 * k) = CAdd(E(k), CMul(z, O(k))) /\ E(k) \in Coeff /\ O(k) \in Coeff
      BY <1>4
    <2> DEFINE a == f[j + (2 * m) * k]
               b == f[(j + m) + (2 * m) * k]
               y == Pow(w, k)
    <2>4. /\ S(2 * k + 1) = CAdd(S(2 * k), CMul(f[j + m * (2 * k)], Pow(z, 2 * k)))
          /\ S((2 * k + 1) + 1) = CAdd(S(2 * k + 1), CMul(f[j + m * (2 * k + 1)], Pow(z, 2 * k + 1)))
      BY <2>1, <2>2, PowerSumSteps
    <2>5. /\ E(k + 1) = CAdd(E(k), CMul(a, y)) /\ E(k + 1) \in Coeff /\ a \in Coeff /\ y \in Coeff
          /\ O(k + 1) = CAdd(O(k), CMul(b, y)) /\ O(k + 1) \in Coeff /\ b \in Coeff
      <3>1. Strided(f, 2 * m, j, k + 1) /\ Strided(f, 2 * m, j + m, k + 1)
        BY <1>2
      <3>2. ASSUME NEW i \in Nat, Strided(f, 2 * m, i, k + 1)
            PROVE  /\ PowerSum(f, 2 * m, i, w, k + 1)
                        = CAdd(PowerSum(f, 2 * m, i, w, k), CMul(f[i + (2 * m) * k], Pow(w, k)))
                   /\ PowerSum(f, 2 * m, i, w, k + 1) \in Coeff
                   /\ f[i + (2 * m) * k] \in Coeff /\ Pow(w, k) \in Coeff
        BY <1>1, <2>1, <3>2, PowerSumSteps
      <3>3. QED BY <1>1, <3>1, <3>2
    <2>6. j + m * (2 * k) = j + (2 * m) * k /\ j + m * (2 * k + 1) = (j + m) + (2 * m) * k
      BY <2>1, Z3
    <2>7. Pow(z, 2 * k) = y /\ Pow(z, 2 * k + 1) = CMul(y, z)
      <3>1. Pow(Pow(z, 2), k) = Pow(z, 2 * k)
        BY <1>1, <2>1, PowPow
      <3>2. Pow(z, 2) = w
        BY PowFirst
      <3>3. Pow(z, 2 * k + 1) = CMul(Pow(z, 2 * k), z)
        BY <1>1, <2>1, PowSteps
      <3>4. QED BY <3>1, <3>2, <3>3
    <2>8. f[j + m * (2 * k)] = a /\ f[j + m * (2 * k + 1)] = b
      BY <2>6, Zenon
    <2> HIDE DEF E, O, S, a, b, y
    <2>9. S((2 * k + 1) + 1) = CAdd(CAdd(CAdd(E(k), CMul(z, O(k))), CMul(a, y)), CMul(b, CMul(y, z)))
      BY <2>3, <2>4, <2>7, <2>8, Zenon
    <2>10. S((2 * k + 1) + 1) = CAdd(CAdd(E(k), CMul(a, y)), CMul(z, CAdd(O(k), CMul(b, y))))
      <3>1. E(k) \in Coeff /\ O(k) \in Coeff /\ a \in Coeff /\ b \in Coeff /\ y \in Coeff
        BY <2>3, <2>5
      <3>2. CAdd(CAdd(CAdd(E(k), CMul(z, O(k))), CMul(a, y)), CMul(b, CMul(y, z)))
              = CAdd(CAdd(E(k), CMul(a, y)), CMul(z, CAdd(O(k), CMul(b, y))))
        BY <3>1, SplitTerm
      <3>3. QED BY <2>9, <3>2, Zenon
    <2>11. S(2 * (k + 1)) = CAdd(E(k + 1), CMul(z, O(k + 1)))
      BY <2>1, <2>5, <2>10
    <2>12. QED BY <2>1, <2>5, <2>11
  <1> HIDE DEF T
  <1>5. \A k \in 0..n : k \in T
    BY <1>3, <1>4, SetInduction
  <1>6. n \in T
    BY <1>5
  <1>7. QED BY <1>6 DEF T

\* Scaling twice is scaling by the product.
LEMMA ScaleTwice ==
  ASSUME NEW n, NEW f \in Poly(n), NEW a \in Coeff, NEW b \in Coeff
  PROVE  Scale(a, Scale(b, f)) = Scale(CMul(a, b), f) /\ CMul(a, b) \in Coeff
  BY PolyScales, CoeffClosed

-----------------------------------------------------------------------------
(***************************************************************************)
(* The value of a product.  At a root z of X^n + 1, multiplying the        *)
(* polynomial of the powers of z in descending order by X is scaling it    *)
(* by z; multiplying it by f is scaling it by the value of f at z.         *)
(***************************************************************************)
Descending(z, n) == [x \in 0..(n - 1) |-> Pow(z, n - 1 - x)]

IsNegacyclic(z, n) == z \in Coeff /\ n \in Nat \ {0} /\ Pow(z, n) = CNeg(COne)

\* Turned once, the descending powers of a root of X^n + 1 are scaled by it,
LEMMA DescendingTurns ==
  ASSUME NEW z, NEW n, IsNegacyclic(z, n)
  PROVE  /\ Descending(z, n) \in Poly(n) /\ Descending(z, n)[n - 1] = COne
         /\ TimesX(Descending(z, n), n) = Scale(z, Descending(z, n))
  <1> DEFINE V == Descending(z, n)
  <1>1. z \in Coeff /\ z \in Nat /\ n \in Nat \ {0} /\ Pow(z, n) = CNeg(COne)
    BY CoeffClosed DEF IsNegacyclic
  <1>2. \A x \in 0..(n - 1) : n - 1 - x \in Nat
    BY <1>1
  <1>3. V \in Poly(n)
    <2>1. \A x \in 0..(n - 1) : Pow(z, n - 1 - x) \in Coeff
      BY <1>1, <1>2, PowSteps
    <2>2. QED BY <2>1, Zenon DEF Descending, Poly
  <1>4. \A x \in 0..(n - 1) : V[x] = Pow(z, n - 1 - x)
    BY Zenon DEF Descending
  <1> HIDE DEF V
  <1>5. n - 1 \in 0..(n - 1) /\ n - 1 - (n - 1) = 0 /\ 0 \in 0..(n - 1) /\ 0 \in Nat
    BY <1>1
  <1>6. V[n - 1] = COne
    BY <1>1, <1>4, <1>5, PowSteps
  <1>7. ASSUME NEW x \in 0..(n - 1) PROVE TimesX(V, n)[x] = Scale(z, V)[x]
    <2>1. Scale(z, V)[x] = CMul(z, V[x]) /\ V[x] \in Coeff
      BY <1>1, <1>3, ScaleAt, PolyAt
    <2>2. TimesX(V, n)[x] = IF x = 0 THEN CNeg(V[n - 1]) ELSE V[x - 1]
      BY Zenon DEF TimesX
    <2>3. CMul(z, V[x]) = Pow(z, (n - 1 - x) + 1)
      <3>1. Pow(z, (n - 1 - x) + 1) = CMul(Pow(z, n - 1 - x), z)
        BY <1>1, <1>2, PowSteps
      <3>2. CMul(z, V[x]) = CMul(V[x], z)
        BY <1>1, <2>1, CoeffProducts
      <3>3. QED BY <1>4, <3>1, <3>2
    <2>4. CASE x = 0
      <3>1. (n - 1 - x) + 1 = n
        BY <1>1, <2>4
      <3>2. QED BY <1>1, <1>6, <2>1, <2>2, <2>3, <2>4, <3>1
    <2>5. CASE x # 0
      <3>1. x - 1 \in 0..(n - 1) /\ n - 1 - (x - 1) = (n - 1 - x) + 1
        BY <1>1, <2>5
      <3>2. V[x - 1] = Pow(z, (n - 1 - x) + 1)
        BY <1>4, <3>1
      <3>3. QED BY <2>1, <2>2, <2>3, <2>5, <3>2
    <2>6. QED BY <2>4, <2>5
  <1>8. TimesX(V, n) \in Poly(n) /\ Scale(z, V) \in Poly(n)
    BY <1>1, <1>3, TimesXLinear, PolyAt
  <1>9. TimesX(V, n) = Scale(z, V)
    BY <1>7, <1>8, PolyEqual
  <1>10. QED BY <1>3, <1>6, <1>9 DEF V

\* and turned i times by its i-th power.
LEMMA DescendingRotates ==
  ASSUME NEW z, NEW n, IsNegacyclic(z, n)
  PROVE  \A i \in 0..n : Rot(Descending(z, n), n, i) = Scale(Pow(z, i), Descending(z, n))
  <1> DEFINE V == Descending(z, n)
             T == {i \in 0..n : Rot(V, n, i) = Scale(Pow(z, i), V)}
  <1>1. z \in Coeff /\ z \in Nat /\ n \in Nat \ {0}
    BY CoeffClosed DEF IsNegacyclic
  <1>2. V \in Poly(n) /\ TimesX(V, n) = Scale(z, V)
    BY DescendingTurns
  <1> HIDE DEF V
  <1>3. 0 \in T
    <2>1. Rot(V, n, 0) = V /\ Scale(COne, V) = V
      BY <1>1, <1>2, RotSteps, PolyScales, CoeffClosed
    <2>2. Pow(z, 0) = COne /\ 0 \in 0..n
      BY <1>1, PowSteps
    <2>3. QED BY <2>1, <2>2
  <1>4. ASSUME NEW i \in 0..(n - 1), i \in T PROVE i + 1 \in T
    <2>1. Rot(V, n, i) = Scale(Pow(z, i), V)
      BY <1>4
    <2>2. Rot(V, n, i + 1) = TimesX(Rot(V, n, i), n)
      BY <1>1, <1>2, RotSteps
    <2>3. i \in Nat /\ i + 1 \in 0..n
      BY <1>1
    <2>4. Pow(z, i) \in Coeff /\ Pow(z, i + 1) = CMul(Pow(z, i), z)
      BY <1>1, <2>3, PowSteps
    <2>5. TimesX(Scale(Pow(z, i), V), n) = Scale(Pow(z, i), TimesX(V, n))
      BY <1>1, <1>2, <2>4, TimesXLinear
    <2>6. Scale(Pow(z, i), Scale(z, V)) = Scale(CMul(Pow(z, i), z), V)
      BY <1>1, <1>2, <2>4, ScaleTwice
    <2>7. QED BY <1>2, <2>1, <2>2, <2>3, <2>4, <2>5, <2>6
  <1> HIDE DEF T
  <1>5. \A i \in 0..n : i \in T
    BY <1>1, <1>3, <1>4, SetInduction
  <1>6. QED BY <1>5 DEF T, V

\* The value of f at z.
Value(f, z, n) == PowerSum(f, 1, 0, z, n)

\* The value of f is the sum of its terms.
LEMMA ValueSteps ==
  ASSUME NEW n \in Nat, NEW f \in Poly(n), NEW z \in Coeff, NEW i \in 0..(n - 1)
  PROVE  /\ PowerSum(f, 1, 0, z, 0) = 0
         /\ PowerSum(f, 1, 0, z, i) \in Coeff /\ PowerSum(f, 1, 0, z, i + 1) \in Coeff
         /\ PowerSum(f, 1, 0, z, i + 1) = CAdd(PowerSum(f, 1, 0, z, i), CMul(f[i], Pow(z, i)))
         /\ f[i] \in Coeff /\ Pow(z, i) \in Coeff
  <1>1. i \in Nat /\ 1 \in Nat /\ 0 \in Nat /\ 0 + 1 * i = i /\ \A k \in 0..((i + 1) - 1) : k \in 0..(n - 1) /\ 0 + 1 * k = k
    OBVIOUS
  <1>2. Strided(f, 1, 0, i + 1)
    BY <1>1, PolyAt DEF Strided
  <1>3. /\ PowerSum(f, 1, 0, z, 0) = 0
        /\ PowerSum(f, 1, 0, z, i) \in Coeff /\ PowerSum(f, 1, 0, z, i + 1) \in Coeff
        /\ PowerSum(f, 1, 0, z, i + 1) = CAdd(PowerSum(f, 1, 0, z, i), CMul(f[0 + 1 * i], Pow(z, i)))
        /\ f[0 + 1 * i] \in Coeff /\ Pow(z, i) \in Coeff
    <2>1. ASSUME NEW m \in Nat, NEW j \in Nat, Strided(f, m, j, i + 1)
          PROVE  /\ PowerSum(f, m, j, z, 0) = 0
                 /\ PowerSum(f, m, j, z, i) \in Coeff /\ PowerSum(f, m, j, z, i + 1) \in Coeff
                 /\ PowerSum(f, m, j, z, i + 1) = CAdd(PowerSum(f, m, j, z, i), CMul(f[j + m * i], Pow(z, i)))
                 /\ f[j + m * i] \in Coeff /\ Pow(z, i) \in Coeff
      BY <1>1, <2>1, PowerSumSteps
    <2>2. QED BY <1>1, <1>2, <2>1, Zenon
  <1>4. QED BY <1>1, <1>3

\* Times f, they are scaled by the value of f.
LEMMA DescendingTimes ==
  ASSUME NEW z, NEW n, IsNegacyclic(z, n), NEW f \in Poly(n)
  PROVE  /\ Value(f, z, n) \in Coeff
         /\ Mul(f, Descending(z, n), n) = Scale(Value(f, z, n), Descending(z, n))
  <1> DEFINE V == Descending(z, n)
             S(i) == PowerSum(f, 1, 0, z, i)
  <1>1. z \in Coeff /\ z \in Nat /\ n \in Nat \ {0} /\ n \in Nat
    BY CoeffClosed DEF IsNegacyclic
  <1>2. V \in Poly(n) /\ \A i \in 0..n : Rot(V, n, i) = Scale(Pow(z, i), V)
    BY DescendingTurns, DescendingRotates
  <1> HIDE DEF V
  <1>3. PICK B \in [0..n -> Poly(n)] : MulSteps(B, f, V, n) /\ Mul(f, V, n) = B[n]
    BY <1>1, <1>2, MulUnfolds
  <1> DEFINE T == {i \in 0..n : S(i) \in Coeff /\ B[i] = Scale(S(i), V)}
  <1>4. ASSUME NEW i \in 0..(n - 1)
        PROVE  /\ S(0) = 0 /\ S(i) \in Coeff /\ S(i + 1) \in Coeff
               /\ S(i + 1) = CAdd(S(i), CMul(f[i], Pow(z, i)))
               /\ f[i] \in Coeff /\ Pow(z, i) \in Coeff
    BY <1>1, ValueSteps
  <1> HIDE DEF S
  <1>5. 0 \in T
    <2>1. 0 \in 0..(n - 1) /\ 0 \in 0..n
      BY <1>1
    <2>2. S(0) = 0 /\ S(0) \in Coeff
      BY <1>4, <2>1
    <2>3. B[0] = Zero(n)
      BY <1>3 DEF MulSteps
    <2>4. Scale(0, V) = Zero(n)
      BY <1>2, <2>2, PolyScales
    <2>5. QED BY <2>1, <2>2, <2>3, <2>4
  <1>6. ASSUME NEW i \in 0..(n - 1), i \in T PROVE i + 1 \in T
    <2>1. i + 1 \in 1..n /\ (i + 1) - 1 = i /\ i + 1 \in 0..n /\ i \in 0..n
      BY <1>1
    <2>2. B[i + 1] = Add(B[(i + 1) - 1], Scale(f[(i + 1) - 1], Rot(V, n, (i + 1) - 1)))
      BY <1>3, <2>1, Zenon DEF MulSteps
    <2>3. B[i + 1] = Add(B[i], Scale(f[i], Scale(Pow(z, i), V)))
      BY <1>2, <2>1, <2>2
    <2>4. S(i) \in Coeff /\ B[i] = Scale(S(i), V)
      BY <1>6
    <2>5. S(i + 1) \in Coeff /\ S(i + 1) = CAdd(S(i), CMul(f[i], Pow(z, i))) /\ f[i] \in Coeff /\ Pow(z, i) \in Coeff
      BY <1>4
    <2>6. Scale(f[i], Scale(Pow(z, i), V)) = Scale(CMul(f[i], Pow(z, i)), V) /\ CMul(f[i], Pow(z, i)) \in Coeff
      BY <1>2, <2>5, ScaleTwice
    <2>7. Scale(CAdd(S(i), CMul(f[i], Pow(z, i))), V) = Add(Scale(S(i), V), Scale(CMul(f[i], Pow(z, i)), V))
      BY <1>2, <2>4, <2>6, PolyScales
    <2>8. QED BY <2>1, <2>3, <2>4, <2>5, <2>6, <2>7
  <1> HIDE DEF T
  <1>7. \A i \in 0..n : i \in T
    BY <1>1, <1>5, <1>6, SetInduction
  <1>8. S(n) \in Coeff /\ B[n] = Scale(S(n), V)
    <2>1. n \in 0..n
      BY <1>1
    <2>2. QED BY <1>7, <2>1 DEF T
  <1>9. QED BY <1>3, <1>8 DEF V, S, Value

\* The value of a product is the product of the values.
LEMMA ValueOfProduct ==
  ASSUME NEW z, NEW n, IsNegacyclic(z, n), NEW f \in Poly(n), NEW g \in Poly(n)
  PROVE  Value(Mul(f, g, n), z, n) = CMul(Value(f, z, n), Value(g, z, n))
  <1> DEFINE V == Descending(z, n)
             u == Value(f, z, n)
             v == Value(g, z, n)
             w == Value(Mul(f, g, n), z, n)
  <1>1. n \in Nat \ {0} /\ n - 1 \in 0..(n - 1)
    BY DEF IsNegacyclic
  <1>2. Mul(f, g, n) \in Poly(n)
    BY <1>1, MulClosed
  <1>3. V \in Poly(n) /\ V[n - 1] = COne
    BY DescendingTurns
  <1>4. /\ u \in Coeff /\ Mul(f, V, n) = Scale(u, V)
        /\ v \in Coeff /\ Mul(g, V, n) = Scale(v, V)
        /\ w \in Coeff /\ Mul(Mul(f, g, n), V, n) = Scale(w, V)
    BY <1>2, DescendingTimes
  <1> HIDE DEF V, u, v, w
  <1>5. Mul(Mul(f, g, n), V, n) = Mul(f, Mul(g, V, n), n)
    BY <1>1, <1>3, MulAssoc
  <1>6. Mul(f, Scale(v, V), n) = Scale(v, Mul(f, V, n))
    BY <1>1, <1>3, <1>4, MulLinear
  <1>7. Scale(v, Scale(u, V)) = Scale(CMul(v, u), V) /\ CMul(v, u) = CMul(u, v) /\ CMul(u, v) \in Coeff
    BY <1>3, <1>4, PolyScales, CoeffProducts, CoeffClosed
  <1>8. Scale(w, V) = Scale(CMul(u, v), V)
    BY <1>4, <1>5, <1>6, <1>7
  <1>9. ASSUME NEW a \in Coeff PROVE Scale(a, V)[n - 1] = a
    <2>1. Scale(a, V)[n - 1] = CMul(a, V[n - 1])
      BY <1>1, <1>3, ScaleAt
    <2>2. CMul(COne, a) = a /\ CMul(COne, a) = CMul(a, COne)
      BY CoeffProducts, CoeffClosed
    <2>3. QED BY <1>3, <2>1, <2>2
  <1>10. w = CMul(u, v)
    BY <1>4, <1>7, <1>8, <1>9
  <1>11. QED BY <1>10 DEF u, v, w

-----------------------------------------------------------------------------
(***************************************************************************)
(* Roots of X^n + 1 modulo a prime.                                        *)
(***************************************************************************)
PrimeModulus == \A d \in 2..(P - 1) : P % d # 0

\* A product is a multiple of a prime only if one of the factors is: the
\* least a whose product with b is a multiple of P divides P.
LEMMA NoZeroDivisors ==
  ASSUME PrimeModulus, NEW a \in 1..(P - 1), NEW b \in 1..(P - 1)
  PROVE  CMul(a, b) # 0
  <1> DEFINE S == {k \in 1..(P - 1) : (k * b) % P = 0}
  <1>0. P \in Nat \ {0}
    BY ModulusAssumption
  <1>1. SUFFICES ASSUME CMul(a, b) = 0 PROVE FALSE
    OBVIOUS
  <1>2. a \in S /\ S \subseteq Nat
    BY <1>0, <1>1 DEF CMul
  <1>3. PICK t \in S : \A u \in S : t <= u
    <2>1. S # {}
      BY <1>2
    <2> HIDE DEF S
    <2>2. QED BY <1>2, <2>1, LeastElement
  <1>4. t \in 1..(P - 1) /\ (t * b) % P = 0 /\ t \in Nat \ {0} /\ b \in Nat
    BY <1>0, <1>3
  <1> DEFINE k == P \div t
             r == P % t
  <1>5. k \in Nat /\ r \in 0..(t - 1) /\ P = t * k + r
    BY <1>0, <1>4, DivMod
  <1>6. PICK c \in Int : t * b = P * c
    <2>1. t * b \in Nat
      BY <1>4, NatProduct
    <2>2. t * b = P * ((t * b) \div P) + ((t * b) % P) /\ (t * b) \div P \in Nat
      BY <1>0, <2>1, DivMod
    <2> DEFINE c == (t * b) \div P
    <2>3. c \in Int /\ t * b = P * c + 0
      BY <1>4, <2>2
    <2> HIDE DEF c
    <2>4. t * b = P * c
      BY <1>0, <2>3
    <2>5. QED BY <2>3, <2>4
  <1> HIDE DEF r, k, S
  <1>7. (r * b) % P = 0
    <2>1. r * b = P * (b - k * c)
      <3>1. \A x, y \in Int : (x + y) * b = x * b + y * b
        BY <1>4, Z3
      <3>2. P * b = (t * k) * b + r * b
        BY <1>0, <1>4, <1>5, <3>1
      <3>3. (t * k) * b = k * (t * b)
        BY <1>4, <1>5, Z3
      <3>4. k * (P * c) = P * (k * c)
        BY <1>0, <1>5, <1>6, Z3
      <3>5. P * (b - k * c) = P * b - P * (k * c)
        BY <1>0, <1>4, <1>5, <1>6, Z3
      <3>6. (t * k) * b \in Int /\ r * b \in Int /\ P * b \in Int /\ P * (k * c) \in Int
        BY <1>0, <1>4, <1>5, <1>6, Z3
      <3>7. QED BY <1>6, <3>2, <3>3, <3>4, <3>5, <3>6
    <2>2. b - k * c \in Nat
      <3>1. r * b \in Nat
        BY <1>4, <1>5, NatProduct
      <3>2. b - k * c \in Int
        BY <1>4, <1>5, <1>6
      <3>3. \A y \in Int : P * y >= 0 => y >= 0
        BY <1>0, Z3
      <3>4. QED BY <2>1, <3>1, <3>2, <3>3
    <2>3. (0 + P * (b - k * c)) % P = 0 % P
      BY <2>2, ModPlus
    <2>4. 0 % P = 0 /\ 0 + P * (b - k * c) = r * b
      BY <1>0, <2>1, <2>2, CoeffClosed
    <2>5. QED BY <2>3, <2>4
  <1>8. r = 0
    <2>1. SUFFICES ASSUME r # 0 PROVE FALSE
      OBVIOUS
    <2>2. r \in 1..(P - 1) /\ r < t
      BY <1>0, <1>4, <1>5, <2>1
    <2>3. r \in S
      BY <1>7, <2>2 DEF S
    <2>4. QED BY <1>3, <1>4, <2>2, <2>3
  <1>9. t # 1
    <2>1. SUFFICES ASSUME t = 1 PROVE FALSE
      OBVIOUS
    <2>2. t * b = b /\ b \in Coeff
      BY <1>0, <1>4, <2>1 DEF Coeff
    <2>3. b % P = b
      BY <2>2, CoeffClosed
    <2>4. QED BY <1>4, <2>2, <2>3
  <1>10. t \in 2..(P - 1) /\ P % t = 0
    BY <1>0, <1>4, <1>8, <1>9 DEF r
  <1>11. QED BY <1>10 DEF PrimeModulus

\* One and minus one.
LEMMA MinusOne ==
  ASSUME P > 2
  PROVE  /\ COne = 1 /\ CNeg(COne) = P - 1 /\ CNeg(COne) # COne
         /\ COne \in Coeff /\ CNeg(COne) \in Coeff
         /\ CMul(CNeg(COne), CNeg(COne)) = COne
  <1>1. P \in Nat \ {0}
    BY ModulusAssumption
  <1>2. 1 \in Coeff /\ P - 1 \in Coeff
    BY <1>1 DEF Coeff
  <1>3. COne = 1
    BY <1>2, CoeffClosed DEF COne
  <1>4. CNeg(COne) = P - 1
    BY <1>2, <1>3, CoeffClosed DEF CNeg
  <1>5. (P - 1) * (P - 1) = 1 + P * (P - 2) /\ P - 2 \in Nat
    BY <1>1, Z3
  <1>6. (1 + P * (P - 2)) % P = 1 % P
    BY <1>5, ModPlus
  <1>7. CMul(P - 1, P - 1) = 1
    BY <1>3, <1>5, <1>6 DEF CMul, COne
  <1>8. QED BY <1>1, <1>2, <1>3, <1>4, <1>7

\* A square root of one is one or minus one.
LEMMA SquareRootOfOne ==
  ASSUME PrimeModulus, P > 2, NEW u \in Coeff, CMul(u, u) = COne, u # COne
  PROVE  u = CNeg(COne)
  <1>1. P \in Nat \ {0} /\ u \in 0..(P - 1) /\ COne = 1 /\ CNeg(COne) = P - 1
    BY ModulusAssumption, MinusOne DEF Coeff
  <1>2. SUFFICES ASSUME u # P - 1 PROVE FALSE
    BY <1>1
  <1>3. u # 0
    <2>1. SUFFICES ASSUME u = 0 PROVE FALSE
      OBVIOUS
    <2>2. CMul(0, 0) = 0
      BY <2>1, CoeffProducts
    <2>3. QED BY <1>1, <2>1, <2>2
  <1>4. u - 1 \in 1..(P - 1) /\ u + 1 \in 1..(P - 1)
    BY <1>1, <1>2, <1>3
  <1>5. CMul(u - 1, u + 1) # 0
    BY <1>4, NoZeroDivisors
  <1>6. u * u = P * ((u * u) \div P) + 1 /\ (u * u) \div P \in Nat
    <2>1. u * u \in Nat
      BY <1>1, NatProduct
    <2>2. (u * u) \div P \in Nat /\ u * u = P * ((u * u) \div P) + ((u * u) % P)
      BY <1>1, <2>1, DivMod
    <2>3. QED BY <1>1, <2>2 DEF CMul
  <1> DEFINE k == (u * u) \div P
  <1> HIDE DEF k
  <1>7. (u - 1) * (u + 1) = P * k
    <2>1. (u - 1) * (u + 1) = u * u - 1
      BY <1>1, Z3
    <2>2. QED BY <1>1, <1>6, <2>1 DEF k
  <1>8. (0 + P * k) % P = 0 % P /\ 0 + P * k = P * k /\ 0 % P = 0
    <2>1. k \in Nat
      BY <1>6 DEF k
    <2>2. (0 + P * k) % P = 0 % P
      BY <2>1, ModPlus
    <2>3. 0 % P = 0
      BY CoeffClosed
    <2>4. 0 + P * k = P * k
      BY <1>1, <2>1, Z3
    <2>5. QED BY <2>2, <2>3, <2>4
  <1>9. QED BY <1>5, <1>7, <1>8 DEF CMul

\* The powers of one are one.
LEMMA PowOne ==
  ASSUME NEW k \in Nat
  PROVE  Pow(COne, k) = COne
  <1> DEFINE T == {l \in 0..k : Pow(COne, l) = COne}
  <1>1. COne \in Coeff /\ COne \in Nat /\ CMul(COne, COne) = COne
    BY CoeffClosed, CoeffProducts
  <1>2. 0 \in T
    BY <1>1, PowSteps
  <1>3. ASSUME NEW l \in 0..(k - 1), l \in T PROVE l + 1 \in T
    <2>1. l \in Nat /\ l + 1 \in 0..k
      OBVIOUS
    <2>2. Pow(COne, l + 1) = CMul(Pow(COne, l), COne)
      BY <1>1, <2>1, PowSteps
    <2>3. QED BY <1>1, <1>3, <2>1, <2>2
  <1> HIDE DEF T
  <1>4. \A l \in 0..k : l \in T
    BY <1>2, <1>3, SetInduction
  <1>5. QED BY <1>4 DEF T

\* The odd powers of minus one are minus one.
LEMMA OddPower ==
  ASSUME P > 2, NEW k \in Nat
  PROVE  Pow(CNeg(COne), 2 * k + 1) = CNeg(COne)
  <1> DEFINE u == CNeg(COne)
  <1>1. u \in Coeff /\ u \in Nat /\ CMul(u, u) = COne /\ COne \in Nat
    BY MinusOne, CoeffClosed
  <1> HIDE DEF u
  <1>2. Pow(u, 2 * k) = Pow(Pow(u, 2), k) /\ Pow(u, 2) = COne
    BY <1>1, PowPow, PowFirst
  <1>3. Pow(COne, k) = COne
    BY PowOne
  <1>4. Pow(u, 2 * k + 1) = CMul(Pow(u, 2 * k), u) /\ CMul(COne, u) = u
    BY <1>1, PowSteps, CoeffProducts
  <1>5. QED BY <1>2, <1>3, <1>4 DEF u

\* D are the powers of two up to the one after n.
Doubles(D, t, n) ==
  /\ t \in Nat /\ D[0] = 1 /\ D[t] = n
  /\ \A l \in 0..(t + 1) : D[l] \in Nat \ {0}
  /\ \A l \in 0..t : D[l + 1] = 2 * D[l]

\* Each of the numbers doubled divides the last.
LEMMA DoublesDivide ==
  ASSUME NEW D, NEW t, NEW n, Doubles(D, t, n)
  PROVE  \A l \in 0..t : \E c \in Nat : n = D[l] * c
  <1> DEFINE T == {l \in 0..t : \E c \in Nat : n = D[t - l] * c}
  <1>1. t \in Nat /\ D[t] = n /\ n \in Nat
    BY DEF Doubles
  <1>2. 0 \in T
    <2>1. t - 0 = t /\ n = n * 1 /\ 0 \in 0..t /\ 1 \in Nat
      BY <1>1
    <2>2. QED BY <1>1, <2>1
  <1>3. ASSUME NEW l \in 0..(t - 1), l \in T PROVE l + 1 \in T
    <2>1. PICK c \in Nat : n = D[t - l] * c
      BY <1>3
    <2>2. t - (l + 1) \in 0..t /\ (t - (l + 1)) + 1 = t - l /\ t - (l + 1) \in 0..(t + 1) /\ l + 1 \in 0..t
      BY <1>1
    <2>3. D[t - l] = 2 * D[t - (l + 1)] /\ D[t - (l + 1)] \in Nat
      <3>1. D[(t - (l + 1)) + 1] = 2 * D[t - (l + 1)] /\ D[t - (l + 1)] \in Nat
        BY <2>2, Zenon DEF Doubles
      <3>2. QED BY <2>2, <3>1
    <2> DEFINE d == D[t - (l + 1)]
    <2> HIDE DEF d
    <2>4. n = d * (2 * c) /\ 2 * c \in Nat
      <3>1. d \in Nat /\ n = (2 * d) * c
        BY <2>1, <2>3 DEF d
      <3>2. (2 * d) * c = d * (2 * c)
        BY <3>1, Z3
      <3>3. QED BY <3>1, <3>2
    <2>5. QED BY <2>2, <2>4 DEF d
  <1> HIDE DEF T
  <1>4. \A l \in 0..t : l \in T
    BY <1>1, <1>2, <1>3, SetInduction
  <1>5. ASSUME NEW l \in 0..t PROVE \E c \in Nat : n = D[l] * c
    <2>1. t - l \in 0..t /\ t - (t - l) = l
      BY <1>1
    <2>2. t - l \in T
      BY <1>4, <2>1
    <2>3. QED BY <2>1, <2>2 DEF T
  <1>6. QED BY <1>5

\* The exponents at which the powers of a root of X^n + 1 are one are the
\* multiples of 2n: were such an exponent an odd multiple of a smaller power
\* of two, minus one would be one.
LEMMA RootOrder ==
  ASSUME P > 2, NEW r, NEW n, IsNegacyclic(r, n), NEW D, NEW t, Doubles(D, t, n),
         NEW d \in Nat, Pow(r, d) = COne
  PROVE  \E k \in Nat : d = (2 * n) * k
  <1> DEFINE T == {l \in 0..(t + 1) : \E k \in Nat : d = D[l] * k}
  <1>1. r \in Coeff /\ r \in Nat /\ n \in Nat \ {0} /\ Pow(r, n) = CNeg(COne) /\ t \in Nat /\ t + 1 \in Nat
    BY CoeffClosed DEF IsNegacyclic, Doubles
  <1>2. 0 \in T
    <2>1. D[0] = 1 /\ d = 1 * d /\ 0 \in 0..(t + 1)
      BY <1>1 DEF Doubles
    <2>2. QED BY <2>1
  <1>3. ASSUME NEW l \in 0..((t + 1) - 1), l \in T PROVE l + 1 \in T
    <2>1. l \in 0..t /\ l + 1 \in 0..(t + 1) /\ l \in 0..(t + 1)
      BY <1>1
    <2>2. PICK k \in Nat : d = D[l] * k
      BY <1>3
    <2>3. PICK c \in Nat : n = D[l] * c
      BY <2>1, DoublesDivide
    <2>4. D[l] \in Nat /\ D[l + 1] = 2 * D[l]
      BY <2>1, Zenon DEF Doubles
    <2>5. d * c = n * k
      <3> DEFINE x == D[l]
      <3> HIDE DEF x
      <3>1. x \in Nat /\ d = x * k /\ n = x * c
        BY <2>2, <2>3, <2>4 DEF x
      <3>2. (x * k) * c = (x * c) * k
        BY <3>1, Z3
      <3>3. QED BY <3>1, <3>2
    <2>6. Pow(COne, c) = Pow(CNeg(COne), k)
      <3>1. \A x, y \in Nat : Pow(Pow(r, x), y) = Pow(r, x * y)
        BY <1>1, PowPow
      <3>2. Pow(Pow(r, d), c) = Pow(r, d * c) /\ Pow(Pow(r, n), k) = Pow(r, n * k)
        BY <1>1, <3>1
      <3>3. QED BY <1>1, <2>5, <3>2
    <2>7. Pow(COne, c) = COne
      BY PowOne
    <2>8. PICK e \in Nat : k = 2 * e
      <3>1. k = 2 * (k \div 2) + (k % 2) /\ k \div 2 \in Nat /\ k % 2 \in 0..1
        BY DivMod
      <3>2. CASE k % 2 = 0
        <4>1. k = 2 * (k \div 2)
          BY <3>1, <3>2
        <4>2. QED BY <3>1, <4>1
      <3>3. CASE k % 2 # 0
        <4>1. k = 2 * (k \div 2) + 1
          BY <3>1, <3>3
        <4>2. Pow(CNeg(COne), 2 * (k \div 2) + 1) = CNeg(COne)
          BY <3>1, OddPower
        <4>3. Pow(CNeg(COne), k) = CNeg(COne)
          BY <4>1, <4>2
        <4>4. QED BY <2>6, <2>7, <4>3, MinusOne
      <3>4. QED BY <3>2, <3>3
    <2>9. d = D[l + 1] * e
      <3> DEFINE x == D[l]
      <3> HIDE DEF x
      <3>1. x \in Nat /\ d = x * k /\ D[l + 1] = 2 * x
        BY <2>2, <2>4 DEF x
      <3>2. x * (2 * e) = (2 * x) * e
        BY <3>1, Z3
      <3>3. QED BY <2>8, <3>1, <3>2
    <2>10. QED BY <2>1, <2>9
  <1> HIDE DEF T
  <1>4. \A l \in 0..(t + 1) : l \in T
    BY <1>1, <1>2, <1>3, SetInduction
  <1>5. \E k \in Nat : d = D[t + 1] * k
    <2>1. t + 1 \in 0..(t + 1)
      BY <1>1
    <2>2. QED BY <1>4, <2>1 DEF T
  <1>6. D[t + 1] = 2 * n
    <2>1. t \in 0..t
      BY <1>1
    <2>2. QED BY <2>1 DEF Doubles
  <1>7. QED BY <1>5, <1>6

\* Two different odd powers below 2n are different.
LEMMA OddPowersDiffer ==
  ASSUME P > 2, NEW r, NEW n, IsNegacyclic(r, n), NEW D, NEW t, Doubles(D, t, n),
         NEW i \in 0..(n - 1), NEW k \in 0..(n - 1), i < k
  PROVE  Pow(r, 2 * i + 1) # Pow(r, 2 * k + 1)
  <1>1. r \in Coeff /\ r \in Nat /\ n \in Nat \ {0} /\ Pow(r, n) = CNeg(COne)
    BY CoeffClosed DEF IsNegacyclic
  <1>2. SUFFICES ASSUME Pow(r, 2 * i + 1) = Pow(r, 2 * k + 1) PROVE FALSE
    OBVIOUS
  <1> DEFINE a == 2 * i + 1
             b == 2 * k + 1
             c == 2 * n - a
             d == 2 * (k - i)
  <1>3. a \in Nat /\ b \in Nat /\ c \in Nat /\ d \in Nat /\ a + c = 2 * n /\ b + c = 2 * n + d /\ 0 < d /\ d < 2 * n
        /\ 2 * n \in Nat /\ 2 * n = n * 2
    BY <1>1
  <1>4. Pow(r, a) = Pow(r, b)
    BY <1>2
  <1> HIDE DEF a, b, c, d
  <1>5. Pow(r, 2 * n) = COne
    <2>1. Pow(Pow(r, n), 2) = Pow(r, n * 2)
      BY <1>1, PowPow
    <2>2. Pow(CNeg(COne), 2) = CMul(CNeg(COne), CNeg(COne))
      BY MinusOne, PowFirst
    <2>3. QED BY <1>1, <1>3, <2>1, <2>2, MinusOne
  <1>6. Pow(r, a + c) = CMul(Pow(r, a), Pow(r, c)) /\ Pow(r, b + c) = CMul(Pow(r, b), Pow(r, c))
    BY <1>1, <1>3, PowAdd
  <1>7. Pow(r, 2 * n + d) = CMul(Pow(r, 2 * n), Pow(r, d)) /\ Pow(r, d) \in Coeff
    BY <1>1, <1>3, PowAdd, PowSteps
  <1>8. Pow(r, d) = COne
    <2>1. CMul(COne, Pow(r, d)) = Pow(r, d)
      BY <1>7, CoeffProducts
    <2>2. QED BY <1>3, <1>4, <1>5, <1>6, <1>7, <2>1
  <1>9. PICK e \in Nat : d = (2 * n) * e
    BY <1>3, <1>8, RootOrder
  <1>10. e = 0 \/ (2 * n) * e >= 2 * n
    BY <1>1, Z3
  <1>11. QED BY <1>1, <1>3, <1>9, <1>10

-----------------------------------------------------------------------------
(***************************************************************************)
(* Butterflies.                                                            *)
(***************************************************************************)

\* An odd power of a root is a root.
LEMMA OddPowerIsRoot ==
  ASSUME P > 2, NEW r, NEW n, IsNegacyclic(r, n), NEW k \in Nat
  PROVE  /\ IsNegacyclic(Pow(r, 2 * k + 1), n)
         /\ Pow(r, (2 * k + 1) * n) = CNeg(COne)
  <1>1. r \in Nat /\ n \in Nat \ {0} /\ Pow(r, n) = CNeg(COne) /\ 2 * k + 1 \in Nat
    BY CoeffClosed DEF IsNegacyclic
  <1> DEFINE e == 2 * k + 1
  <1>2. Pow(CNeg(COne), e) = CNeg(COne)
    BY OddPower
  <1>3. e \in Nat
    BY <1>1
  <1> HIDE DEF e
  <1>4. \A x, y \in Nat : Pow(Pow(r, x), y) = Pow(r, x * y)
    BY <1>1, PowPow
  <1>5. Pow(r, e) \in Coeff
    BY <1>1, <1>3, PowSteps
  <1>6. e * n = n * e
    BY <1>1, <1>3, Z3
  <1>7. Pow(Pow(r, e), n) = Pow(r, e * n) /\ Pow(Pow(r, n), e) = Pow(r, n * e)
    BY <1>1, <1>3, <1>4
  <1>8. Pow(Pow(r, e), n) = CNeg(COne) /\ Pow(r, e * n) = CNeg(COne)
    BY <1>1, <1>2, <1>6, <1>7
  <1>9. IsNegacyclic(Pow(r, e), n)
    BY <1>1, <1>5, <1>8 DEF IsNegacyclic
  <1>10. QED BY <1>8, <1>9 DEF e

\* Negation is multiplication by minus one.
LEMMA CoeffNegs ==
  ASSUME NEW a \in Coeff, NEW b \in Coeff
  PROVE  /\ CNeg(a) \in Coeff /\ CMul(a, CNeg(COne)) = CNeg(a)
         /\ CMul(CNeg(a), b) = CNeg(CMul(a, b)) /\ CMul(b, CNeg(a)) = CNeg(CMul(a, b))
         /\ CNeg(CNeg(a)) = a
  <1>1. COne \in Coeff /\ CNeg(COne) \in Coeff /\ CNeg(a) \in Coeff /\ CMul(a, b) \in Coeff /\ CNeg(CMul(a, b)) \in Coeff
        /\ 0 \in Coeff
    BY CoeffClosed
  <1>2. ASSUME NEW u \in Coeff, NEW v \in Coeff, CAdd(u, v) = 0 PROVE v = CNeg(u)
    <2>1. CNeg(u) \in Coeff /\ CAdd(u, CNeg(u)) = 0 /\ CAdd(CNeg(u), u) = CAdd(u, CNeg(u))
      BY CoeffClosed, CoeffSums
    <2>2. CAdd(CAdd(CNeg(u), u), v) = CAdd(CNeg(u), CAdd(u, v))
      BY <2>1, CoeffSums
    <2>3. CAdd(0, v) = v /\ CAdd(CNeg(u), 0) = CNeg(u)
      BY <2>1, CoeffSums
    <2>4. QED BY <1>2, <2>1, <2>2, <2>3
  <1>3. ASSUME NEW u \in Coeff, NEW v \in Coeff PROVE CMul(CNeg(u), v) = CNeg(CMul(u, v))
    <2>1. CNeg(u) \in Coeff /\ CMul(u, v) \in Coeff
      BY CoeffClosed
    <2>2. CMul(CNeg(u), v) \in Coeff
      BY <2>1, CoeffClosed
    <2>3. CMul(CAdd(u, CNeg(u)), v) = CAdd(CMul(u, v), CMul(CNeg(u), v))
      BY <2>1, CoeffProducts
    <2>4. CAdd(u, CNeg(u)) = 0 /\ CMul(0, v) = 0
      BY <2>1, CoeffSums, CoeffProducts
    <2>5. CAdd(CMul(u, v), CMul(CNeg(u), v)) = 0
      BY <2>3, <2>4
    <2>6. QED BY <1>2, <2>1, <2>2, <2>5
  <1>4. CMul(CNeg(COne), a) = CNeg(CMul(COne, a)) /\ CMul(COne, a) = a /\ CMul(a, CNeg(COne)) = CMul(CNeg(COne), a)
    BY <1>1, <1>3, CoeffProducts
  <1>5. CMul(b, CNeg(a)) = CMul(CNeg(a), b)
    BY <1>1, CoeffProducts
  <1>6. CAdd(CNeg(a), a) = CAdd(a, CNeg(a)) /\ CAdd(a, CNeg(a)) = 0
    BY <1>1, CoeffSums
  <1>7. a = CNeg(CNeg(a))
    BY <1>1, <1>2, <1>6
  <1>8. QED BY <1>1, <1>3, <1>4, <1>5, <1>7

\* The forward butterfly: a block of 2h lanes of residues modulo X^2h - v,
\* where v is the square of w, is split in two, modulo X^h - w and X^h + w.
Halves(f, r, h, t, s, j) ==
  LET w == Pow(r, h * (2 * s + 1))
      v == Pow(r, (2 * h) * (2 * s + 1))
      u == Pow(r, h * (2 * (t + s) + 1))
      even == PowerSum(f, 2 * h, j, v, t)
      odd == PowerSum(f, 2 * h, j + h, v, t)
  IN  /\ w \in Coeff /\ even \in Coeff /\ odd \in Coeff
      /\ PowerSum(f, h, j, w, 2 * t) = CAdd(even, CMul(w, odd))
      /\ PowerSum(f, h, j, u, 2 * t) = CAdd(even, CNeg(CMul(w, odd)))

\* The two residues of a level from the two halves of the level before.
LEMMA ButterflySplits ==
  ASSUME P > 2, NEW r, NEW n, IsNegacyclic(r, n), NEW f \in Poly(n),
         NEW h \in Nat \ {0}, NEW t \in Nat \ {0}, n = (2 * h) * t, NEW s \in Nat, NEW j \in 0..(h - 1)
  PROVE  Halves(f, r, h, t, s, j)
  <1> DEFINE d == h * (2 * s + 1)
             w == Pow(r, d)
             v == Pow(r, (2 * h) * (2 * s + 1))
             u == Pow(r, h * (2 * (t + s) + 1))
             even == PowerSum(f, 2 * h, j, v, t)
             odd == PowerSum(f, 2 * h, j + h, v, t)
  <1>1. r \in Nat /\ Pow(r, n) = CNeg(COne) /\ n \in Nat /\ t \in Nat /\ h \in Nat /\ j \in Nat
    BY CoeffClosed DEF IsNegacyclic
  <1>2. d \in Nat /\ (2 * h) * (2 * s + 1) = d + d /\ h * (2 * (t + s) + 1) = d + n
    BY <1>1, Z3
  <1> HIDE DEF d
  <1>3. w \in Coeff /\ v = CMul(w, w) /\ v \in Coeff
    <2>1. Pow(r, d + d) = CMul(Pow(r, d), Pow(r, d))
      BY <1>1, <1>2, PowAdd
    <2>2. Pow(r, d) \in Coeff
      BY <1>1, <1>2, PowSteps
    <2>3. CMul(Pow(r, d), Pow(r, d)) \in Coeff
      BY <2>2, CoeffClosed
    <2>4. QED BY <1>2, <2>1, <2>2, <2>3
  <1>4. u = CNeg(w) /\ u \in Coeff
    <2>1. Pow(r, d + n) = CMul(Pow(r, d), Pow(r, n))
      BY <1>1, <1>2, PowAdd
    <2>2. CMul(w, CNeg(COne)) = CNeg(w) /\ CNeg(w) \in Coeff
      BY <1>3, CoeffNegs
    <2>3. QED BY <1>1, <1>2, <2>1, <2>2
  <1> HIDE DEF w, v, u
  <1>5. CMul(u, u) = v
    <2>1. CMul(CNeg(w), CNeg(w)) = CNeg(CMul(w, CNeg(w))) /\ CMul(w, CNeg(w)) = CNeg(CMul(w, w))
          /\ CNeg(CNeg(CMul(w, w))) = CMul(w, w)
      <3>1. CNeg(w) \in Coeff /\ CMul(w, w) \in Coeff
        BY <1>3, CoeffClosed
      <3>2. QED BY <1>3, <3>1, CoeffNegs
    <2>2. QED BY <1>3, <1>4, <2>1
  <1>6. Strided(f, h, j, 2 * t)
    <2>1. ASSUME NEW k \in 0..((2 * t) - 1) PROVE j + h * k \in 0..(n - 1)
      <3>1. h * (k + 1) <= h * (2 * t)
        BY <1>1, Z3
      <3>2. h * (k + 1) = h * k + h /\ h * (2 * t) = n /\ h * k \in Nat
        BY <1>1, Z3
      <3>3. QED BY <1>1, <3>1, <3>2
    <2>2. QED BY <2>1, PolyAt DEF Strided
  <1>7. /\ PowerSum(f, h, j, w, 2 * t) = CAdd(even, CMul(w, odd)) /\ even \in Coeff /\ odd \in Coeff
    BY <1>1, <1>3, <1>6, PowerSumSplits
  <1>8. PowerSum(f, h, j, u, 2 * t) = CAdd(even, CMul(u, odd))
    BY <1>1, <1>3, <1>4, <1>5, <1>6, PowerSumSplits
  <1>9. CMul(u, odd) = CNeg(CMul(w, odd))
    BY <1>3, <1>4, <1>7, CoeffNegs
  <1>10. QED BY <1>3, <1>7, <1>8, <1>9 DEF Halves, w, v, u, d

\* The inverse butterfly: from both halves, times c, the block again, times 2c.
LEMMA ButterflyUndone ==
  ASSUME NEW c \in Nat, NEW e \in Coeff, NEW o \in Coeff, NEW w \in Coeff, NEW i \in Coeff, CMul(w, i) = COne,
         NEW x, NEW y, x = (c * CAdd(e, CMul(w, o))) % P, y = (c * CAdd(e, CNeg(CMul(w, o)))) % P
  PROVE  (x + y) % P = ((2 * c) * e) % P /\ ((x + P - y) * i) % P = ((2 * c) * o) % P
  <1> DEFINE d == c % P
             f == CMul(w, o)
             g == CNeg(f)
  <1>1. P \in Nat \ {0} /\ d \in Coeff /\ f \in Coeff /\ g \in Coeff
    <2>1. P \in Nat \ {0}
      BY ModulusAssumption
    <2>2. d \in Coeff
      BY <2>1, DivMod DEF Coeff
    <2>3. f \in Coeff
      BY CoeffClosed
    <2>4. QED BY <2>1, <2>2, <2>3, CoeffClosed
  <1>2. \A a, b \in Coeff : CAdd(a, b) \in Coeff /\ CMul(a, b) \in Coeff /\ CNeg(a) \in Coeff /\ a \in Nat /\ a < P
    BY CoeffClosed
  <1>3. \A a \in Coeff : (c * a) % P = CMul(d, a)
    <2>1. ASSUME NEW a \in Coeff PROVE (c * a) % P = CMul(d, a)
      <3>1. a \in Nat
        BY <1>2
      <3>2. ((c % P) * a) % P = (c * a) % P
        BY <3>1, ModEarly
      <3>3. QED BY <3>2 DEF CMul
    <2>2. QED BY <2>1
  <1>4. \A a \in Coeff : ((2 * c) * a) % P = CAdd(CMul(d, a), CMul(d, a))
    <2>1. ASSUME NEW a \in Coeff PROVE ((2 * c) * a) % P = CAdd(CMul(d, a), CMul(d, a))
      <3>1. a \in Nat /\ c * a \in Nat
        BY <1>2, NatProduct
      <3>2. (2 * c) * a = c * a + c * a
        BY <3>1, Z3
      <3> DEFINE p == c * a
      <3> HIDE DEF p
      <3>3. p % P \in Nat
        BY <1>1, <3>1, DivMod DEF p
      <3>4. ((p % P) + (p % P)) % P = (p + (p % P)) % P /\ (p + (p % P)) % P = (p + p) % P
        BY <3>1, <3>3, ModEarly DEF p
      <3>5. p % P = CMul(d, a)
        BY <1>3 DEF p
      <3>6. QED BY <3>2, <3>4, <3>5 DEF CAdd, p
    <2>2. QED BY <2>1
  <1>5. x = CMul(d, CAdd(e, f)) /\ y = CMul(d, CAdd(e, g)) /\ x \in Coeff /\ y \in Coeff
    <2>1. x = (c * CAdd(e, f)) % P /\ y = (c * CAdd(e, g)) % P
      OBVIOUS
    <2> HIDE DEF d, f, g
    <2>2. CAdd(e, f) \in Coeff /\ CAdd(e, g) \in Coeff
      BY <1>1, <1>2
    <2>3. CMul(d, CAdd(e, f)) \in Coeff /\ CMul(d, CAdd(e, g)) \in Coeff
      BY <1>1, <1>2, <2>2
    <2>4. QED BY <1>3, <2>1, <2>2, <2>3
  <1> HIDE DEF d
  <1>6. \A a, b \in Coeff : CMul(d, CAdd(a, b)) = CAdd(CMul(d, a), CMul(d, b))
    <2>1. ASSUME NEW a \in Coeff, NEW b \in Coeff PROVE CMul(d, CAdd(a, b)) = CAdd(CMul(d, a), CMul(d, b))
      <3>1. CMul(CAdd(a, b), d) = CAdd(CMul(a, d), CMul(b, d))
        BY <1>1, CoeffProducts
      <3>2. CMul(CAdd(a, b), d) = CMul(d, CAdd(a, b)) /\ CMul(a, d) = CMul(d, a) /\ CMul(b, d) = CMul(d, b)
        BY <1>1, <1>2, CoeffProducts
      <3>3. QED BY <3>1, <3>2
    <2>2. QED BY <2>1
  <1> DEFINE E == CMul(d, e)
             F == CMul(d, f)
  <1>7. E \in Coeff /\ F \in Coeff /\ CMul(d, g) = CNeg(F) /\ CNeg(F) \in Coeff /\ CNeg(E) \in Coeff
    <2>1. CMul(d, CNeg(f)) = CNeg(CMul(f, d)) /\ CMul(f, d) = CMul(d, f)
      BY <1>1, CoeffNegs, CoeffProducts
    <2>2. QED BY <1>1, <1>2, <2>1
  <1>8. x = CAdd(E, F) /\ y = CAdd(E, CNeg(F))
    <2> HIDE DEF f, g
    <2>1. CMul(d, CAdd(e, f)) = CAdd(E, F) /\ CMul(d, CAdd(e, g)) = CAdd(E, CMul(d, g))
      BY <1>1, <1>6
    <2>2. QED BY <1>5, <1>7, <2>1
  <1> HIDE DEF f, g
  <1>9. CAdd(x, y) = CAdd(E, E)
    <2> HIDE DEF E, F
    <2>1. CAdd(CAdd(E, F), CAdd(E, CNeg(F))) = CAdd(E, CAdd(F, CAdd(E, CNeg(F))))
      BY <1>2, <1>7, CoeffSums
    <2>2. CAdd(F, CAdd(E, CNeg(F))) = E
      <3>1. CAdd(F, CAdd(E, CNeg(F))) = CAdd(F, CAdd(CNeg(F), E))
        BY <1>7, CoeffSums
      <3>2. CAdd(CAdd(F, CNeg(F)), E) = CAdd(F, CAdd(CNeg(F), E)) /\ CAdd(F, CNeg(F)) = 0 /\ CAdd(0, E) = E
        BY <1>7, CoeffSums
      <3>3. QED BY <3>1, <3>2
    <2>3. QED BY <1>8, <2>1, <2>2
  <1>10. CAdd(x, CNeg(y)) = CAdd(F, F)
    <2> HIDE DEF E, F
    <2>1. CNeg(CAdd(E, CNeg(F))) = CAdd(CNeg(E), F)
      <3>1. CAdd(E, CNeg(F)) \in Coeff /\ CAdd(CNeg(E), F) \in Coeff
        BY <1>2, <1>7
      <3>2. CMul(CAdd(E, CNeg(F)), CNeg(COne)) = CNeg(CAdd(E, CNeg(F)))
        BY <3>1, CoeffNegs
      <3>3. CMul(CAdd(E, CNeg(F)), CNeg(COne)) = CAdd(CMul(E, CNeg(COne)), CMul(CNeg(F), CNeg(COne)))
        BY <1>2, <1>7, CoeffProducts, CoeffClosed
      <3>4. CMul(E, CNeg(COne)) = CNeg(E) /\ CMul(CNeg(F), CNeg(COne)) = CNeg(CNeg(F)) /\ CNeg(CNeg(F)) = F
        BY <1>7, CoeffNegs
      <3>5. QED BY <3>2, <3>3, <3>4
    <2>2. CAdd(CAdd(E, F), CAdd(CNeg(E), F)) = CAdd(F, F)
      <3>1. CAdd(E, F) = CAdd(F, E) /\ CAdd(CAdd(F, E), CAdd(CNeg(E), F)) = CAdd(F, CAdd(E, CAdd(CNeg(E), F)))
        BY <1>2, <1>7, CoeffSums
      <3>2. CAdd(CAdd(E, CNeg(E)), F) = CAdd(E, CAdd(CNeg(E), F)) /\ CAdd(E, CNeg(E)) = 0 /\ CAdd(0, F) = F
        BY <1>7, CoeffSums
      <3>3. QED BY <3>1, <3>2
    <2>3. QED BY <1>8, <2>1, <2>2
  <1>11. (x + P - y) % P = CAdd(x, CNeg(y)) /\ x + P - y \in Nat
    <2>1. x \in Nat /\ y \in Nat /\ y < P
      BY <1>2, <1>5
    <2>2. (x + ((P - y) % P)) % P = (x + (P - y)) % P
      BY <1>1, <2>1, ModEarly
    <2>3. x + (P - y) = x + P - y /\ x + P - y \in Nat
      BY <1>1, <2>1
    <2>4. QED BY <2>2, <2>3 DEF CAdd, CNeg
  <1>12. ((x + P - y) * i) % P = CMul(CAdd(F, F), i)
    <2>1. i \in Nat
      BY <1>2
    <2>2. (((x + P - y) % P) * i) % P = ((x + P - y) * i) % P
      BY <1>11, <2>1, ModEarly
    <2>3. QED BY <1>10, <1>11, <2>2 DEF CMul
  <1>13. CMul(F, i) = CMul(d, o)
    <2>1. CMul(CMul(d, f), i) = CMul(d, CMul(f, i))
      BY <1>1, CoeffProducts
    <2>2. CMul(f, i) = o
      <3>1. CMul(CMul(w, o), i) = CMul(w, CMul(o, i)) /\ CMul(o, i) = CMul(i, o)
            /\ CMul(CMul(w, i), o) = CMul(w, CMul(i, o)) /\ CMul(COne, o) = o
        BY CoeffProducts
      <3>2. QED BY <3>1 DEF f
    <2>3. QED BY <2>1, <2>2
  <1>14. CMul(CAdd(F, F), i) = CAdd(CMul(F, i), CMul(F, i))
    BY <1>7, CoeffProducts
  <1>15. ((2 * c) * e) % P = CAdd(E, E) /\ ((2 * c) * o) % P = CAdd(CMul(d, o), CMul(d, o))
    BY <1>4
  <1>16. (x + y) % P = CAdd(x, y)
    BY DEF CAdd
  <1>17. QED BY <1>9, <1>12, <1>13, <1>14, <1>15, <1>16
=============================================================================
