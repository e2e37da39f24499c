---------------------------- MODULE GadgetProofs ----------------------------
(***************************************************************************)
(* Gadget products, key switching and external products are accurate to    *)
(* the bound their documentation gives, for every modulus, base, depth,    *)
(* key, message, input and draw of the errors.                             *)
(*                                                                         *)
(* After k digits the accumulated phase is m * t + n, where t, scaled by   *)
(* s = B^L, is the part of the input peeled off so far up to half a unit   *)
(* per entry and digit, and n is the noise of k samples.  When all digits  *)
(* are out, what is left in the scratch is a carry that counts multiples   *)
(* of q.                                                                   *)
(***************************************************************************)
EXTENDS Gadget, TLAPS

\* Quotient and remainder of an integer by a positive number.
LEMMA IntDivMod ==
  ASSUME NEW x \in Int, NEW d \in Nat \ {0}
  PROVE  /\ x \div d \in Int
         /\ x % d \in 0..(d - 1)
         /\ x = d * (x \div d) + (x % d)
  BY Z3

\* Of a natural number, a natural number.
LEMMA NatDivMod ==
  ASSUME NEW x \in Nat, NEW d \in Nat \ {0}
  PROVE  /\ x \div d \in Nat
         /\ x % d \in 0..(d - 1)
         /\ x = d * (x \div d) + (x % d)
  BY Z3

\* A product with a larger factor is larger.
LEMMA MulMono ==
  ASSUME NEW d \in Nat, NEW a \in Int, NEW b \in Int, a <= b
  PROVE  d * a <= d * b
  BY Z3

\* A common factor cancels.
LEMMA MulCancel ==
  ASSUME NEW d \in Nat \ {0}, NEW a \in Int, NEW b \in Int, d * a < d * b
  PROVE  a < b
  <1>1. ASSUME b <= a PROVE FALSE
    <2>1. d * b <= d * a
      BY <1>1, MulMono
    <2>2. d * b \in Int /\ d * a \in Int
      OBVIOUS
    <2>3. QED BY <2>1, <2>2
  <1>2. QED BY <1>1

\* A product of two bounded numbers is bounded by the product of the bounds.
LEMMA MulBound ==
  ASSUME NEW a \in Int, NEW b \in Int, NEW p \in Nat, NEW r \in Nat,
         a <= p, -a <= p, b <= r, -b <= r
  PROVE  a * b <= p * r /\ -(a * b) <= p * r
  <1>1. CASE a >= 0
    <2>1. a * b <= a * r /\ a * (-b) <= a * r
      BY <1>1, MulMono
    <2>2. r * a <= r * p
      BY MulMono
    <2>3. a * r = r * a /\ r * p = p * r /\ a * (-b) = -(a * b)
      OBVIOUS
    <2>4. QED
      <3> DEFINE u == a * b
                 w == a * r
                 z == p * r
      <3>1. u \in Int /\ w \in Int /\ z \in Int /\ u <= w /\ -u <= w /\ w <= z
        BY <2>1, <2>2, <2>3
      <3> HIDE DEF u, w, z
      <3>2. u <= z /\ -u <= z
        BY <3>1
      <3>3. QED BY <3>2 DEF u, z
  <1>2. CASE a < 0
    <2> DEFINE c == -a
    <2>1. c \in Nat /\ c <= p
      BY <1>2
    <2>2. c * b <= c * r /\ c * (-b) <= c * r
      BY <2>1, MulMono
    <2>3. r * c <= r * p
      BY <2>1, MulMono
    <2>4. c * r = r * c /\ r * p = p * r /\ c * (-b) = a * b /\ c * b = -(a * b)
      OBVIOUS
    <2>5. QED
      <3> DEFINE u == a * b
                 w == c * r
                 z == p * r
      <3>1. u \in Int /\ w \in Int /\ z \in Int /\ u <= w /\ -u <= w /\ w <= z
        BY <2>1, <2>2, <2>3, <2>4
      <3> HIDE DEF u, w, z
      <3>2. u <= z /\ -u <= z
        BY <3>1
      <3>3. QED BY <3>2 DEF u, z
  <1>3. QED BY <1>1, <1>2

\* Multiples of the modulus do not change a remainder.
LEMMA ModCong ==
  ASSUME NEW x \in Int, NEW j \in Int
  PROVE  (x + Q * j) % Q = x % Q
  <1> DEFINE y == x + Q * j
             k == x \div Q
             r == x % Q
             l == y \div Q
             u == y % Q
  <1>1. Q \in Nat \ {0} /\ y \in Int
    BY GadgetAssumption
  <1>2. k \in Int /\ r \in 0..(Q - 1) /\ x = Q * k + r
    BY <1>1, IntDivMod
  <1>y. y = x + Q * j
    OBVIOUS
  <1> HIDE DEF k, r, y
  <1>3. l \in Int /\ u \in 0..(Q - 1) /\ y = Q * l + u
    BY <1>1, IntDivMod
  <1> HIDE DEF l, u
  <1>4. Q * (l - k - j) = Q * l - Q * k - Q * j
    BY <1>1, <1>2, <1>3
  <1>5. Q * (l - k - j) = r - u
    <2> DEFINE a == Q * l
               b == Q * k
               c == Q * j
    <2>1. a \in Int /\ b \in Int /\ c \in Int /\ x = b + r /\ y = a + u /\ y = x + c
      BY <1>1, <1>2, <1>3, <1>y
    <2> HIDE DEF a, b, c
    <2>2. a - b - c = r - u
      BY <1>1, <1>2, <1>3, <2>1
    <2>3. QED BY <1>4, <2>2 DEF a, b, c
  <1> DEFINE i == l - k - j
  <1>6. i \in Int /\ Q * i = r - u /\ -Q < Q * i /\ Q * i < Q
    BY <1>1, <1>2, <1>3, <1>5
  <1> HIDE DEF i
  <1>7. i < 1 /\ -1 < i
    <2>1. Q * i < Q * 1 /\ Q * (-1) < Q * i
      BY <1>1, <1>6
    <2>2. QED BY <1>1, <1>6, <2>1, MulCancel
  <1>8. i = 0
    BY <1>6, <1>7
  <1>9. r = u
    <2>1. Q * 0 = 0
      BY <1>1
    <2>2. QED BY <1>2, <1>3, <1>6, <1>8, <2>1
  <1>10. QED BY <1>9 DEF r, u, y

\* A remainder may be taken early.
LEMMA ModEarly ==
  ASSUME NEW a \in Int, NEW b \in Int, NEW d \in Int
  PROVE  /\ ((a % Q) + b) % Q = (a + b) % Q
         /\ (a + d * (b % Q)) % Q = (a + d * b) % Q
         /\ (b - (a % Q)) % Q = (b - a) % Q
  <1> DEFINE k == a \div Q
             r == a % Q
             l == b \div Q
             u == b % Q
  <1>1. Q \in Nat \ {0}
    BY GadgetAssumption
  <1>2. k \in Int /\ r \in Int /\ a = Q * k + r /\ l \in Int /\ u \in Int /\ b = Q * l + u
    BY <1>1, IntDivMod
  <1> HIDE DEF k, r, l, u
  <1>3. r + b = (a + b) + Q * (-k)
    BY <1>1, <1>2
  <1>4. a + d * u = (a + d * b) + Q * (-(d * l))
    <2>1. d * b = d * (Q * l) + d * u
      BY <1>1, <1>2
    <2>2. d * (Q * l) = Q * (d * l) /\ Q * (-(d * l)) = -(Q * (d * l))
      BY <1>1, <1>2
    <2>3. d * u \in Int /\ Q * (d * l) \in Int /\ d * b \in Int
      BY <1>1, <1>2
    <2> DEFINE du == d * u
               db == d * b
               qdl == Q * (d * l)
               nql == Q * (-(d * l))
    <2>4. db = qdl + du /\ nql = -qdl /\ du \in Int /\ db \in Int /\ qdl \in Int
      BY <2>1, <2>2, <2>3
    <2> HIDE DEF du, db, qdl, nql
    <2>5. a + du = (a + db) + nql
      BY <2>4
    <2>6. QED BY <2>5 DEF du, db, nql
  <1>5. b - r = (b - a) + Q * k
    BY <1>1, <1>2
  <1>6. (r + b) % Q = (a + b) % Q
    BY <1>2, <1>3, ModCong
  <1>7. (a + d * u) % Q = (a + d * b) % Q
    <2>1. a + d * b \in Int /\ -(d * l) \in Int
      BY <1>2
    <2>2. QED BY <1>4, <2>1, ModCong
  <1>8. (b - r) % Q = (b - a) % Q
    <2>1. b - a \in Int
      OBVIOUS
    <2>2. QED BY <1>2, <1>5, <2>1, ModCong
  <1>9. QED BY <1>6, <1>7, <1>8 DEF r, u

-----------------------------------------------------------------------------
\* Half of a number, rounded down.
LEMMA Halves ==
  ASSUME NEW n \in Nat
  PROVE  n \div 2 \in Nat /\ 2 * (n \div 2) <= n /\ n <= 2 * (n \div 2) + 1
  <1>1. n \div 2 \in Nat /\ n % 2 \in 0..1 /\ n = 2 * (n \div 2) + (n % 2)
    BY NatDivMod
  <1> DEFINE h == n \div 2
             o == n % 2
  <1>2. h \in Nat /\ o \in 0..1 /\ n = 2 * h + o
    BY <1>1
  <1> HIDE DEF h, o
  <1>3. h \in Nat /\ 2 * h <= n /\ n <= 2 * h + 1
    BY <1>2
  <1>4. QED BY <1>3 DEF h

\* A rounded quotient is off by at most half a unit.
LEMMA Rounded ==
  ASSUME NEW x \in Nat, NEW d \in Nat \ {0}
  PROVE  LET g == (x + (d \div 2)) \div d
         IN  g \in Nat /\ 2 * (d * g - x) <= d /\ -(2 * (d * g - x)) <= d
  <1> DEFINE h == d \div 2
             y == x + h
             g == y \div d
             r == y % d
  <1>1. h \in Nat /\ 2 * h <= d /\ d <= 2 * h + 1
    BY Halves
  <1> HIDE DEF h
  <1>2. y \in Nat /\ y = x + h
    BY <1>1
  <1> HIDE DEF y
  <1>3. g \in Nat /\ r \in 0..(d - 1) /\ y = d * g + r
    BY <1>2, NatDivMod
  <1> HIDE DEF g, r
  <1> DEFINE dg == d * g
  <1>4. dg \in Nat /\ y = dg + r
    BY <1>3
  <1> HIDE DEF dg
  <1>5. 2 * (dg - x) <= d /\ -(2 * (dg - x)) <= d
    BY <1>1, <1>2, <1>3, <1>4
  <1>6. QED BY <1>3, <1>5 DEF dg, g, y, h

\* What the assumptions say of one product.
LEMMA PartParams ==
  ASSUME NEW p \in 1..2
  PROVE  /\ Q \in Nat \ {0} /\ 2 <= Q
         /\ Base[p] \in Nat \ {0} /\ 2 <= Base[p]
         /\ Depth[p] \in Nat \ {0}
         /\ \A i \in 0..Depth[p] : Power[p][i] \in Nat \ {0}
         /\ Power[p][0] = 1 /\ Scale(p) = Power[p][Depth[p]] /\ Scale(p) \in Nat \ {0}
         /\ \A i \in 0..(Depth[p] - 1) : Power[p][i + 1] = Base[p] * Power[p][i]
  <1>1. /\ Q \in Nat /\ Q >= 2 /\ Base[p] \in Nat /\ Base[p] >= 2 /\ Depth[p] \in Nat /\ Depth[p] >= 1
        /\ \A i \in 0..Depth[p] : Power[p][i] \in Nat \ {0}
        /\ Power[p][0] = 1
        /\ \A i \in 0..(Depth[p] - 1) : Power[p][i + 1] = Base[p] * Power[p][i]
    BY GadgetAssumption
  <1>2. Depth[p] \in 0..Depth[p]
    BY <1>1
  <1>3. QED BY <1>1, <1>2 DEF Scale

\* A gadget entry is the exact quotient up to half a unit.
LEMMA GadgetEntry ==
  ASSUME NEW p \in 1..2, NEW i \in 0..(Depth[p] - 1)
  PROVE  LET d == Power[p][i + 1]
         IN  G(p, i) \in Nat /\ 2 * (d * G(p, i) - Q) <= d /\ -(2 * (d * G(p, i) - Q)) <= d
  <1>1. i + 1 \in 0..Depth[p]
    BY PartParams
  <1>2. Power[p][i + 1] \in Nat \ {0} /\ Q \in Nat
    BY <1>1, PartParams
  <1>3. QED BY <1>2, Rounded DEF G

\* A balanced digit is at most half the base, and leaves a multiple of it.
LEMMA DigitBounds ==
  ASSUME NEW p \in 1..2, NEW x \in Int
  PROVE  LET d == BalancedDigit(p, x)
             y == (x - d) \div Base[p]
         IN  /\ d \in Int /\ d <= Base[p] \div 2 /\ -d <= Base[p] \div 2
             /\ y \in Int /\ x = Base[p] * y + d
  <1> DEFINE B == Base[p]
             k == x \div B
             r == x % B
             h == B \div 2
             d == BalancedDigit(p, x)
             z == x - d
             y == z \div B
  <1>1. B \in Nat \ {0} /\ 2 <= B
    BY PartParams
  <1>2. k \in Int /\ r \in 0..(B - 1) /\ x = B * k + r
    BY <1>1, IntDivMod
  <1>3. h \in Nat /\ 2 * h <= B /\ B <= 2 * h + 1
    BY <1>1, Halves
  <1>4. d = IF r > h THEN r - B ELSE r
    BY DEF BalancedDigit
  <1> HIDE DEF B, k, r, h, d
  <1>5. d \in Int /\ d <= h /\ -d <= h
    BY <1>1, <1>2, <1>3, <1>4
  <1>6. \E j \in Int : z = B * j + 0
    <2>1. CASE r > h
      <3>1. B * (k + 1) = B * k + B
        BY <1>1, <1>2
      <3> DEFINE u == B * k
      <3>2. u \in Int /\ x = u + r
        BY <1>1, <1>2
      <3> HIDE DEF u
      <3>3. z = u + B
        BY <1>1, <1>2, <1>4, <2>1, <3>2
      <3>4. z = B * (k + 1) + 0 /\ k + 1 \in Int
        BY <1>1, <1>2, <3>1, <3>3 DEF u
      <3>5. QED BY <3>4
    <2>2. CASE ~(r > h)
      <3> DEFINE u == B * k
      <3>1. u \in Int /\ x = u + r
        BY <1>1, <1>2
      <3> HIDE DEF u
      <3>2. z = u + 0
        BY <1>1, <1>2, <1>4, <2>2, <3>1
      <3>3. QED BY <1>2, <3>2 DEF u
    <2>3. QED BY <2>1, <2>2
  <1>7. z \in Int /\ x = z + d
    BY <1>2, <1>5
  <1> HIDE DEF z
  <1>8. PICK j \in Int : z = B * j + 0
    BY <1>6
  <1>9. y \in Int /\ z % B \in 0..(B - 1) /\ z = B * y + (z % B)
    BY <1>1, <1>7, IntDivMod
  <1> HIDE DEF y
  <1> DEFINE w == z % B
  <1>10. w \in 0..(B - 1) /\ z = B * y + w
    BY <1>9
  <1> HIDE DEF w
  <1>11. B * (j - y) = w
    <2>1. B * (j - y) = B * j - B * y
      BY <1>1, <1>9
    <2> DEFINE u == B * j
               v == B * y
    <2>2. u \in Int /\ v \in Int /\ z = u + 0 /\ z = v + w /\ B * (j - y) = u - v
      BY <1>1, <1>8, <1>9, <1>10, <2>1
    <2> HIDE DEF u, v
    <2>3. u - v = w
      BY <1>10, <2>2, <1>1
    <2>4. QED BY <2>2, <2>3
  <1>12. w = 0
    <2> DEFINE i == j - y
    <2>1. i \in Int /\ B * i = w /\ -B < B * i /\ B * i < B
      BY <1>1, <1>9, <1>10, <1>11
    <2> HIDE DEF i
    <2>2. B * i < B * 1 /\ B * (-1) < B * i
      BY <1>1, <2>1
    <2>3. i < 1 /\ -1 < i
      BY <1>1, <2>1, <2>2, MulCancel
    <2>4. i = 0
      BY <2>1, <2>3
    <2>5. B * 0 = 0
      BY <1>1
    <2>6. QED BY <2>1, <2>4, <2>5
  <1>13. x = B * y + d
    <2> DEFINE v == B * y
    <2>1. v \in Int /\ z = v + w
      BY <1>1, <1>9, <1>10
    <2> HIDE DEF v
    <2>2. x = v + d
      BY <1>5, <1>7, <1>12, <2>1
    <2>3. QED BY <2>2 DEF v
  <1>14. d \in Int /\ d <= h /\ -d <= h /\ y \in Int /\ x = B * y + d
    BY <1>5, <1>9, <1>13
  <1>15. QED BY <1>14 DEF B, h, d, y, z

\* A centred coefficient: at most half the modulus, congruent to the input.
LEMMA CenteredRange ==
  ASSUME NEW a \in 0..(Q - 1)
  PROVE  /\ Centered(a) \in Int /\ 2 * Centered(a) <= Q /\ -(2 * Centered(a)) <= Q
         /\ \E j \in Int : Centered(a) = a + Q * j
  <1>1. Q \in Nat \ {0}
    BY GadgetAssumption
  <1>2. Q \div 2 \in Nat /\ 2 * (Q \div 2) <= Q /\ Q <= 2 * (Q \div 2) + 1
    BY <1>1, Halves
  <1>3. CASE a <= Q \div 2
    <2>1. Centered(a) = a
      BY <1>3 DEF Centered
    <2>2. a = a + Q * 0
      BY <1>1
    <2>3. QED BY <1>1, <1>2, <1>3, <2>1, <2>2
  <1>4. CASE ~(a <= Q \div 2)
    <2>1. Centered(a) = -(Q - a)
      BY <1>4 DEF Centered
    <2>2. -(Q - a) = a + Q * (-1)
      BY <1>1
    <2> DEFINE h == Q \div 2
    <2>3. h \in Nat /\ Q <= 2 * h + 1 /\ ~(a <= h)
      BY <1>2, <1>4
    <2> HIDE DEF h
    <2>4. -(Q - a) \in Int /\ 2 * (-(Q - a)) <= Q /\ -(2 * (-(Q - a))) <= Q
      BY <1>1, <2>3
    <2>5. QED BY <2>1, <2>2, <2>4
  <1>5. QED BY <1>3, <1>4

\* What gadget_scale_into makes of any coefficient: within half a unit, and
\* at most half the scale, rounded.
ScaledOf(p, a) ==
  LET c == Centered(a)
      magnitude == RoundMulDiv(IF c < 0 THEN -c ELSE c, Scale(p))
  IN  IF c < 0 THEN -magnitude ELSE magnitude

\* The scaled input is the exact quotient up to half a unit, and at most half the scale.
LEMMA ScaledOfBounds ==
  ASSUME NEW p \in 1..2, NEW a \in 0..(Q - 1)
  PROVE  LET c == Centered(a)
             y == ScaledOf(p, a)
         IN  /\ y \in Int
             /\ 2 * (Q * y - Scale(p) * c) <= Q /\ -(2 * (Q * y - Scale(p) * c)) <= Q
             /\ 2 * y <= Scale(p) + 1 /\ -(2 * y) <= Scale(p) + 1
  <1> DEFINE c == Centered(a)
             S == Scale(p)
             m == IF c < 0 THEN -c ELSE c
             x == m * S
             g == (x + (Q \div 2)) \div Q
             y == ScaledOf(p, a)
  <1>1. c \in Int /\ 2 * c <= Q /\ -(2 * c) <= Q
    BY CenteredRange
  <1>2. Q \in Nat \ {0} /\ S \in Nat \ {0}
    BY PartParams
  <1>3. y = IF c < 0 THEN -g ELSE g
    BY DEF ScaledOf, RoundMulDiv
  <1> HIDE DEF c, S, y
  <1>4. m \in Nat /\ 2 * m <= Q /\ (c < 0 => c = -m) /\ (~(c < 0) => c = m)
    BY <1>1
  <1> HIDE DEF m
  <1>5. x \in Nat
    BY <1>2, <1>4
  <1> HIDE DEF x
  <1>6. g \in Nat /\ 2 * (Q * g - x) <= Q /\ -(2 * (Q * g - x)) <= Q
    BY <1>2, <1>5, Rounded
  <1> HIDE DEF g
  <1>7. 2 * g <= S + 1
    <2>1. S * (2 * m) <= S * Q
      BY <1>2, <1>4, MulMono
    <2>2. S * (2 * m) = 2 * x
      BY <1>2, <1>4 DEF x
    <2>3. Q * (2 * g) = 2 * (Q * g) /\ Q * (S + 2) = S * Q + 2 * Q
      BY <1>2, <1>6
    <2> DEFINE qg == Q * g
               sq == S * Q
    <2>4. /\ qg \in Int /\ sq \in Int /\ 2 * x <= sq /\ 2 * (qg - x) <= Q
          /\ Q * (2 * g) = 2 * qg /\ Q * (S + 2) = sq + 2 * Q
      BY <1>2, <1>6, <2>1, <2>2, <2>3
    <2> HIDE DEF qg, sq
    <2>5. 2 * qg < sq + 2 * Q
      BY <1>2, <1>5, <2>4
    <2>6. Q * (2 * g) < Q * (S + 2)
      BY <2>4, <2>5
    <2>7. 2 * g < S + 2
      <3>1. 2 * g \in Int /\ S + 2 \in Int
        BY <1>2, <1>6
      <3>2. QED BY <1>2, <2>6, <3>1, MulCancel
    <2>8. QED BY <1>2, <1>6, <2>7
  <1>8. CASE c < 0
    <2>1. S * c = -x
      BY <1>2, <1>4, <1>8 DEF x
    <2>2. Q * y = -(Q * g)
      BY <1>2, <1>3, <1>6, <1>8
    <2> DEFINE qg == Q * g
               qy == Q * y
               sc == S * c
    <2>3. qg \in Int /\ qy = -qg /\ sc = -x /\ 2 * (qg - x) <= Q /\ -(2 * (qg - x)) <= Q
      BY <1>2, <1>6, <2>1, <2>2
    <2> HIDE DEF qg, qy, sc
    <2>4. 2 * (qy - sc) <= Q /\ -(2 * (qy - sc)) <= Q
      BY <1>2, <1>5, <2>3
    <2>5. y \in Int /\ 2 * y <= S + 1 /\ -(2 * y) <= S + 1
      BY <1>2, <1>3, <1>6, <1>7, <1>8
    <2>6. QED BY <2>4, <2>5 DEF c, S, y, qy, sc
  <1>9. CASE ~(c < 0)
    <2>1. S * c = x
      BY <1>2, <1>4, <1>9 DEF x
    <2>2. y = g
      BY <1>3, <1>9
    <2>3. 2 * (Q * y - S * c) <= Q /\ -(2 * (Q * y - S * c)) <= Q
      BY <1>6, <2>1, <2>2
    <2>4. y \in Int /\ 2 * y <= S + 1 /\ -(2 * y) <= S + 1
      BY <1>2, <1>6, <1>7, <2>2
    <2>5. QED BY <2>3, <2>4 DEF c, S, y
  <1>10. QED BY <1>8, <1>9

\* The same of the input.
LEMMA ScaledBounds ==
  ASSUME NEW p \in 1..2, Input(p) \in 0..(Q - 1)
  PROVE  LET c == Centered(Input(p))
             y == Scaled(p)
         IN  /\ y \in Int
             /\ 2 * (Q * y - Scale(p) * c) <= Q /\ -(2 * (Q * y - Scale(p) * c)) <= Q
             /\ 2 * y <= Scale(p) + 1 /\ -(2 * y) <= Scale(p) + 1
  <1>1. Scaled(p) = ScaledOf(p, Input(p))
    BY DEF Scaled, ScaledOf
  <1>2. QED BY <1>1, ScaledOfBounds

-----------------------------------------------------------------------------
Bounded(x, b) == x <= b /\ -x <= b

Half(p) == Base[p] \div 2

\* A sum of two bounded numbers is bounded.
LEMMA BoundedSum ==
  ASSUME NEW a \in Int, NEW b \in Int, NEW p \in Int, NEW r \in Int,
         Bounded(a, p), Bounded(b, r)
  PROVE  Bounded(a + b, p + r)
  BY DEF Bounded

\* One digit: what the accumulated factor t has peeled off the scaled input.
LEMMA TrackStep ==
  ASSUME NEW p \in 1..2, NEW k \in 0..(Depth[p] - 1),
         Power[p][k] * Power[p][Depth[p] - k] = Scale(p),
         NEW x \in Int, NEW y \in Int, NEW t \in Int,
         Bounded(2 * (Scale(p) * t - Q * (y - x * Power[p][k])), Scale(p) * (k * Half(p)))
  PROVE  LET d == BalancedDigit(p, x)
             x2 == (x - d) \div Base[p]
             t2 == t + d * G(p, Depth[p] - 1 - k)
         IN  /\ Power[p][k + 1] * Power[p][Depth[p] - (k + 1)] = Scale(p)
             /\ Bounded(2 * (Scale(p) * t2 - Q * (y - x2 * Power[p][k + 1])),
                        Scale(p) * ((k + 1) * Half(p)))
  <1> DEFINE B == Base[p]
             L == Depth[p]
             S == Scale(p)
             h == Half(p)
             A == Power[p][k]
             C == Power[p][L - k]
             D == Power[p][L - (k + 1)]
             A2 == Power[p][k + 1]
             d == BalancedDigit(p, x)
             x2 == (x - d) \div B
             g == G(p, L - 1 - k)
             t2 == t + d * g
             eps == C * g - Q
  <1>1. /\ L \in Nat \ {0} /\ k \in 0..L /\ L - k \in 0..L /\ L - (k + 1) \in 0..(L - 1)
        /\ (L - 1 - k) + 1 = L - k /\ L - 1 - k \in 0..(L - 1) /\ (L - (k + 1)) + 1 = L - k
        /\ L - (k + 1) \in 0..L /\ k + 1 \in 0..L
    BY PartParams
  <1>2. /\ B \in Nat \ {0} /\ S \in Nat \ {0} /\ A \in Nat \ {0} /\ C \in Nat \ {0} /\ D \in Nat \ {0}
        /\ Q \in Nat \ {0} /\ A2 = B * A /\ C = B * D
    <2>1. \A i \in 0..(L - 1) : Power[p][i + 1] = B * Power[p][i]
      BY PartParams
    <2>2. A2 = B * A
      BY <2>1
    <2>3. Power[p][(L - (k + 1)) + 1] = B * Power[p][L - (k + 1)]
      BY <1>1, <2>1
    <2>4. C = B * D
      BY <1>1, <2>3
    <2>5. \A i \in 0..L : Power[p][i] \in Nat \ {0}
      BY PartParams
    <2>6. QED BY <1>1, <2>2, <2>4, <2>5, PartParams
  <1>3. A * C = S
    OBVIOUS
  <1>4. h \in Nat /\ d \in Int /\ d <= h /\ -d <= h /\ x2 \in Int /\ x = B * x2 + d
    <2>1. h \in Nat
      BY <1>2, Halves DEF Half
    <2>2. QED BY <2>1, DigitBounds DEF Half
  <1>5. g \in Nat /\ 2 * eps <= C /\ -(2 * eps) <= C
    BY <1>1, GadgetEntry
  <1> HIDE DEF B, L, S, h, A, C, D, A2, d, x2, g, t2
  <1>6. A2 * D = S
    <2>1. (B * A) * D = A * (B * D)
      BY <1>2
    <2>2. QED BY <1>2, <1>3, <2>1
  <1>7. eps \in Int /\ C * g = Q + eps
    BY <1>2, <1>5
  <1> HIDE DEF eps
  <1> DEFINE old == S * t - Q * (y - x * A)
             new == S * t2 - Q * (y - x2 * A2)
             w == A * eps
             dw == d * w
  <1>8. new = old + dw
    <2>1. S * t2 = S * t + S * (d * g)
      BY <1>2, <1>4, <1>5 DEF t2
    <2>2. S * (d * g) = d * (A * (C * g))
      BY <1>2, <1>3, <1>4, <1>5
    <2>3. d * (A * (Q + eps)) = d * (A * Q) + d * (A * eps)
      BY <1>2, <1>4, <1>7
    <2>4. x2 * A2 = x * A - d * A
      <3>1. (B * x2 + d) * A = (B * x2) * A + d * A
        BY <1>2, <1>4
      <3>2. (B * x2) * A = x2 * (B * A)
        BY <1>2, <1>4
      <3> DEFINE u == (B * x2) * A
                 v == d * A
                 z == x * A
      <3>3. z = u + v /\ u = x2 * A2 /\ u \in Int /\ v \in Int
        BY <1>2, <1>4, <3>1, <3>2
      <3> HIDE DEF u, v, z
      <3>4. u = z - v
        BY <3>3
      <3>5. QED BY <3>3, <3>4 DEF v, z
    <2>5. Q * (y - (x * A - d * A)) = Q * (y - x * A) + d * (A * Q)
      BY <1>2, <1>4
    <2> DEFINE a1 == S * t
               a2 == d * (A * Q)
               a3 == Q * (y - x * A)
               a4 == Q * (y - x2 * A2)
               a5 == S * t2
    <2>6. /\ a1 \in Int /\ a2 \in Int /\ a3 \in Int /\ dw \in Int
          /\ a5 = a1 + (a2 + dw) /\ a4 = a3 + a2
      <3>1. a5 = a1 + (a2 + dw)
        BY <1>7, <2>1, <2>2, <2>3
      <3>2. a4 = a3 + a2
        BY <2>4, <2>5
      <3>3. a1 \in Int /\ a2 \in Int /\ a3 \in Int /\ dw \in Int
        BY <1>2, <1>4, <1>7
      <3>4. QED BY <3>1, <3>2, <3>3
    <2>7. old = a1 - a3 /\ new = a5 - a4
      OBVIOUS
    <2> HIDE DEF a1, a2, a3, a4, a5, old, new, dw
    <2>8. QED BY <2>6, <2>7
  <1>9. Bounded(2 * dw, S * h)
    <2>1. A * (2 * eps) <= A * C /\ A * (-(2 * eps)) <= A * C
      BY <1>2, <1>5, <1>7, MulMono
    <2>2. A * (2 * eps) = 2 * w /\ A * (-(2 * eps)) = -(2 * w) /\ w \in Int
      BY <1>2, <1>7
    <2>3. 2 * w <= S /\ -(2 * w) <= S /\ 2 * w \in Int
      BY <1>3, <2>1, <2>2
    <2>4. d * (2 * w) <= h * S /\ -(d * (2 * w)) <= h * S
      BY <1>2, <1>4, <2>3, MulBound
    <2>5. d * (2 * w) = 2 * dw /\ h * S = S * h
      BY <1>2, <1>4, <2>2
    <2>6. QED BY <2>4, <2>5 DEF Bounded
  <1>10. Bounded(2 * old, S * (k * h))
    BY DEF S, A, h
  <1>11. Bounded(2 * new, S * ((k + 1) * h))
    <2>1. S * ((k + 1) * h) = S * (k * h) + S * h
      BY <1>1, <1>2, <1>4
    <2>2. old \in Int /\ dw \in Int /\ S * (k * h) \in Int /\ S * h \in Int
      BY <1>1, <1>2, <1>4, <1>7
    <2> DEFINE u == S * (k * h)
               v == S * h
               z == S * ((k + 1) * h)
    <2>3. Bounded(2 * old, u) /\ Bounded(2 * dw, v) /\ z = u + v /\ u \in Int /\ v \in Int
      BY <1>9, <1>10, <2>1, <2>2
    <2> HIDE DEF u, v, z, old, new, dw
    <2>4. Bounded(2 * new, z)
      BY <1>8, <2>2, <2>3 DEF Bounded
    <2>5. QED BY <2>4 DEF z
  <1>12. QED BY <1>6, <1>11 DEF B, L, S, h, A, D, A2, d, x2, g, t2

\* One digit: what is left shrinks, up to one unit.
LEMMA CarryStep ==
  ASSUME NEW p \in 1..2, NEW k \in 0..(Depth[p] - 1), NEW x \in Int,
         Bounded(2 * (Power[p][k] * x), Scale(p) + 2 * Power[p][k] - 1)
  PROVE  LET x2 == (x - BalancedDigit(p, x)) \div Base[p]
         IN  Bounded(2 * (Power[p][k + 1] * x2), Scale(p) + 2 * Power[p][k + 1] - 1)
  <1> DEFINE B == Base[p]
             S == Scale(p)
             h == Half(p)
             A == Power[p][k]
             A2 == Power[p][k + 1]
             d == BalancedDigit(p, x)
             x2 == (x - d) \div B
  <1>1. B \in Nat \ {0} /\ 2 <= B /\ S \in Nat \ {0} /\ A \in Nat \ {0} /\ A2 = B * A
    <2>1. k \in 0..Depth[p]
      BY PartParams
    <2>2. QED BY <2>1, PartParams
  <1>2. h \in Nat /\ 2 * h <= B /\ d \in Int /\ d <= h /\ -d <= h /\ x2 \in Int /\ x = B * x2 + d
    <2>1. h \in Nat /\ 2 * h <= B
      BY <1>1, Halves DEF Half
    <2>2. QED BY <2>1, DigitBounds DEF Half
  <1>3. Bounded(2 * (A * x), S + 2 * A - 1)
    OBVIOUS
  <1> HIDE DEF B, S, h, A, A2, d, x2
  <1>4. A2 * x2 = A * x - A * d
    <2>1. A * (B * x2 + d) = A * (B * x2) + A * d
      BY <1>1, <1>2
    <2>2. A * (B * x2) = (B * A) * x2
      BY <1>1, <1>2
    <2> DEFINE u == A * (B * x2)
               v == A * d
               z == A * x
    <2>3. z = u + v /\ u = A2 * x2 /\ u \in Int /\ v \in Int
      BY <1>1, <1>2, <2>1, <2>2
    <2> HIDE DEF u, v, z
    <2>4. u = z - v
      BY <2>3
    <2>5. QED BY <2>3, <2>4 DEF v, z
  <1>5. 2 * (A * d) <= A2 /\ -(2 * (A * d)) <= A2
    <2>1. 2 * d <= B /\ -(2 * d) <= B
      BY <1>1, <1>2
    <2>2. A * (2 * d) <= A * B /\ A * (-(2 * d)) <= A * B
      BY <1>1, <1>2, <2>1, MulMono
    <2>3. A * (2 * d) = 2 * (A * d) /\ A * (-(2 * d)) = -(2 * (A * d)) /\ A * B = B * A
      BY <1>1, <1>2
    <2>4. QED BY <1>1, <2>2, <2>3
  <1>6. 2 * A <= A2
    <2>1. A * 2 <= A * B
      BY <1>1, MulMono
    <2>2. QED BY <1>1, <2>1
  <1>7. QED
    <2> DEFINE u == A * x
               v == A * d
               z == A2 * x2
    <2>1. u \in Int /\ v \in Int /\ z = u - v /\ A2 \in Nat
      BY <1>1, <1>2, <1>4
    <2>2. Bounded(2 * u, S + 2 * A - 1) /\ 2 * v <= A2 /\ -(2 * v) <= A2
      BY <1>3, <1>5
    <2> HIDE DEF u, v, z
    <2>3. Bounded(2 * z, S + 2 * A2 - 1)
      BY <1>1, <1>6, <2>1, <2>2 DEF Bounded
    <2>4. QED BY <2>3 DEF z, A2, x2, B, S, d

\* One digit: the accumulator.
LEMMA AccStep ==
  ASSUME NEW m \in Int, NEW t \in Int, NEW n \in Int, NEW d \in Int, NEW g \in Int, NEW e \in Int
  PROVE  (((m * t + n) % Q) + d * ((g * m + e) % Q)) % Q = (m * (t + d * g) + (n + d * e)) % Q
  <1> DEFINE a == m * t + n
             b == g * m + e
             w == d * (b % Q)
  <1>1. a \in Int /\ b \in Int
    OBVIOUS
  <1>2. a + d * b = m * (t + d * g) + (n + d * e)
    <2> DEFINE u == m * t
               v == m * (d * g)
               z == d * e
    <2>1. u \in Int /\ v \in Int /\ z \in Int /\ a = u + n /\ d * b = v + z /\ m * (t + d * g) = u + v
      OBVIOUS
    <2> HIDE DEF u, v, z, a, b
    <2>2. a + d * b = (u + v) + (n + z)
      BY <2>1
    <2>3. QED BY <2>1, <2>2 DEF z
  <1> HIDE DEF a, b
  <1>3. w \in Int
    <2>1. b % Q \in Int
      BY <1>1, IntDivMod, GadgetAssumption
    <2>2. QED BY <2>1
  <1>4. (a + d * (b % Q)) % Q = (a + d * b) % Q
    BY <1>1, ModEarly
  <1> HIDE DEF w
  <1>5. ((a % Q) + w) % Q = (a + w) % Q
    BY <1>1, <1>3, ModEarly
  <1>6. QED BY <1>2, <1>4, <1>5 DEF a, b, w

\* The end of a product: its factor is the centred input up to Delta.
LEMMA ProductEnd ==
  ASSUME NEW p \in 1..2, NEW t \in Int, NEW x \in Int, NEW y \in Int, NEW c \in Int,
         Bounded(2 * (Scale(p) * t - Q * (y - x * Scale(p))), Scale(p) * (Depth[p] * Half(p))),
         Bounded(2 * (Q * y - Scale(p) * c), Q)
  PROVE  /\ Delta(p) \in Nat /\ t + Q * x - c \in Int
         /\ Bounded(t + Q * x - c, Delta(p))
  <1> DEFINE S == Scale(p)
             R == Depth[p] * Half(p)
             e == t + Q * x - c
             N == Q + S * R
             D2 == 2 * S
             q0 == N \div D2
             r0 == N % D2
  <1>1. S \in Nat \ {0} /\ Q \in Nat \ {0} /\ Half(p) \in Nat /\ Depth[p] \in Nat /\ R \in Nat
    <2>1. S \in Nat \ {0} /\ Q \in Nat \ {0} /\ Base[p] \in Nat /\ Depth[p] \in Nat
      BY PartParams
    <2>2. Half(p) \in Nat
      BY <2>1, Halves DEF Half
    <2>3. QED BY <2>1, <2>2
  <1>2. Delta(p) = q0
    <2>1. Scale(p) * Depth[p] * (Base[p] \div 2) = S * R
      BY <1>1 DEF Half
    <2>2. QED BY <2>1 DEF Delta
  <1>3. /\ Bounded(2 * (S * t - Q * (y - x * S)), S * R)
        /\ Bounded(2 * (Q * y - S * c), Q)
    OBVIOUS
  <1> HIDE DEF S, R, q0
  <1>4. e \in Int
    BY <1>1
  <1>5. D2 * e = 2 * (S * t - Q * (y - x * S)) + 2 * (Q * y - S * c)
    BY <1>1
  <1>6. Bounded(D2 * e, N)
    <2> DEFINE u == S * t - Q * (y - x * S)
               v == Q * y - S * c
               z == S * R
    <2>1. u \in Int /\ v \in Int /\ z \in Int
      BY <1>1
    <2>2. Bounded(2 * u, z) /\ Bounded(2 * v, Q) /\ D2 * e = 2 * u + 2 * v /\ N = Q + z
      BY <1>3, <1>5
    <2> HIDE DEF u, v, z, e, D2, N
    <2>3. QED BY <1>1, <2>1, <2>2 DEF Bounded
  <1>7. D2 \in Nat \ {0} /\ N \in Nat
    BY <1>1
  <1> HIDE DEF e, D2, N
  <1>8. q0 \in Nat /\ r0 \in 0..(D2 - 1) /\ N = D2 * q0 + r0
    BY <1>7, NatDivMod DEF q0
  <1> HIDE DEF r0
  <1>9. D2 * (q0 + 1) = D2 * q0 + D2 /\ D2 * (-(q0 + 1)) = -(D2 * q0 + D2)
    BY <1>7, <1>8
  <1>10. D2 * e < D2 * (q0 + 1) /\ D2 * (-(q0 + 1)) < D2 * e
    <2> DEFINE u == D2 * e
               v == D2 * q0
    <2>1. u \in Int /\ v \in Int /\ N = v + r0 /\ Bounded(u, N)
      BY <1>4, <1>6, <1>7, <1>8
    <2>2. D2 * (q0 + 1) = v + D2 /\ D2 * (-(q0 + 1)) = -(v + D2)
      BY <1>9
    <2> HIDE DEF u, v
    <2>3. u < v + D2 /\ -(v + D2) < u
      BY <1>7, <1>8, <2>1 DEF Bounded
    <2>4. QED BY <2>2, <2>3 DEF u
  <1>11. e < q0 + 1 /\ -(q0 + 1) < e
    <2>1. q0 + 1 \in Int /\ -(q0 + 1) \in Int
      BY <1>8
    <2>2. QED BY <1>4, <1>7, <1>10, <2>1, MulCancel
  <1>12. Bounded(e, q0)
    BY <1>4, <1>8, <1>11 DEF Bounded
  <1>13. QED BY <1>2, <1>4, <1>8, <1>12 DEF e

-----------------------------------------------------------------------------
\* The error of the samples the operation uses.
ErrOf == IF op = "reconstruct" THEN 0 ELSE ErrMax

\* The inputs of an operation, which no step changes.
InputsOK ==
  /\ op \in {"reconstruct", "key_switch", "external_product"}
  /\ s \in Int /\ msg \in Int
  /\ ct.mask \in 0..(Q - 1) /\ ct.body \in 0..(Q - 1)
  /\ \A p \in 1..Parts : \A i \in 0..(Depth[p] - 1) : errs[p][i] \in Int /\ Bounded(errs[p][i], ErrOf)

\* What a product should return.
Want(p) == Message(p) * Centered(Input(p))

\* The product in progress.
Track ==
  pc = "extract" =>
    /\ Power[part][level] * Power[part][Depth[part] - level] = Scale(part)
    /\ Bounded(2 * (Power[part][level] * val), Scale(part) + 2 * Power[part][level] - 1)
    /\ \E t, n \in Int :
         /\ level > 0 => acc = (Message(part) * t + n) % Q
         /\ level = 0 => t = 0 /\ n = 0
         /\ Bounded(2 * (Scale(part) * t - Q * (Scaled(part) - val * Power[part][level])),
                    Scale(part) * (level * Half(part)))
         /\ Bounded(n, (level * Half(part)) * ErrOf)

\* The finished products.
Finished == IF pc = "done" THEN Parts ELSE part - 1

SumInv ==
  /\ Finished = 0 => sum = 0
  /\ Finished = 1 => \E e \in Int : Bounded(e, NoiseBound(1)) /\ sum = (Want(1) + e) % Q
  /\ Finished = 2 =>
       \E e \in Int : Bounded(e, NoiseBound(1) + NoiseBound(2)) /\ sum = (Want(1) + Want(2) + e) % Q

\* The inductive invariant.
IInv == TypeOK /\ InputsOK /\ Track /\ SumInv

\* What the inputs determine.
LEMMA InputFacts ==
  ASSUME InputsOK
  PROVE  /\ Parts \in 1..2 /\ ErrOf \in Nat
         /\ \A p \in 1..2 : /\ Input(p) \in 0..(Q - 1) /\ Message(p) \in Int
                            /\ Centered(Input(p)) \in Int /\ Want(p) \in Int
  <1>1. Parts \in 1..2 /\ ErrOf \in Nat
    BY GadgetAssumption DEF Parts, ErrOf
  <1>2. ASSUME NEW p \in 1..2
        PROVE  Input(p) \in 0..(Q - 1) /\ Message(p) \in Int /\ Centered(Input(p)) \in Int /\ Want(p) \in Int
    <2>1. Input(p) \in 0..(Q - 1)
      BY DEF InputsOK, Input
    <2>2. Message(p) \in Int
      BY DEF InputsOK, Message
    <2>3. Centered(Input(p)) \in Int
      BY <2>1, CenteredRange
    <2>4. Want(p) \in Int
      BY <2>2, <2>3 DEF Want
    <2>5. QED BY <2>1, <2>2, <2>3, <2>4
  <1>3. QED BY <1>1, <1>2

\* Bounds on the noise are natural numbers.
LEMMA NoiseNat ==
  ASSUME InputsOK, NEW p \in 1..2
  PROVE  /\ Half(p) \in Nat /\ Delta(p) \in Nat /\ Abs(Message(p)) \in Nat
         /\ NoiseBound(p) = Abs(Message(p)) * Delta(p) + (Depth[p] * Half(p)) * ErrOf
         /\ NoiseBound(p) \in Nat
  <1>1. Half(p) \in Nat /\ Depth[p] \in Nat /\ Q \in Nat /\ Scale(p) \in Nat \ {0}
    <2>1. Base[p] \in Nat /\ Depth[p] \in Nat /\ Q \in Nat /\ Scale(p) \in Nat \ {0}
      BY PartParams
    <2>2. QED BY <2>1, Halves DEF Half
  <1>2. Delta(p) \in Nat
    <2>1. Q + (Scale(p) * Depth[p] * Half(p)) \in Nat /\ 2 * Scale(p) \in Nat \ {0}
      BY <1>1
    <2>2. QED BY <2>1, NatDivMod DEF Delta, Half
  <1>3. Abs(Message(p)) \in Nat /\ ErrOf \in Nat
    BY InputFacts DEF Abs
  <1>4. NoiseBound(p) = Abs(Message(p)) * Delta(p) + (Depth[p] * Half(p)) * ErrOf
    <2>1. CASE op = "reconstruct"
      <3>1. NoiseBound(p) = Abs(Message(p)) * Delta(p) + 0 /\ ErrOf = 0
        BY <2>1 DEF NoiseBound, ErrOf
      <3>2. (Depth[p] * Half(p)) * 0 = 0
        BY <1>1
      <3>3. QED BY <3>1, <3>2
    <2>2. CASE op # "reconstruct"
      <3>1. NoiseBound(p) = Abs(Message(p)) * Delta(p) + Depth[p] * Half(p) * ErrMax /\ ErrOf = ErrMax
        BY <2>2 DEF NoiseBound, ErrOf, Half
      <3>2. QED BY <3>1
    <2>3. QED BY <2>1, <2>2
  <1>5. NoiseBound(p) \in Nat
    BY <1>1, <1>2, <1>3, <1>4
  <1>6. QED BY <1>1, <1>2, <1>3, <1>4, <1>5

\* The inputs stay as they are, and so does what depends on them only.
LEMMA InputsFixed ==
  ASSUME UNCHANGED inputs
  PROVE  /\ InputsOK <=> InputsOK'
         /\ Parts' = Parts /\ ErrOf' = ErrOf
         /\ \A p \in 1..2 : /\ Input(p)' = Input(p) /\ Message(p)' = Message(p)
                            /\ Scaled(p)' = Scaled(p) /\ Want(p)' = Want(p)
                            /\ NoiseBound(p)' = NoiseBound(p)
                            /\ \A i \in Int : Sample(p, i)' = Sample(p, i)
  BY DEF inputs, InputsOK, Parts, ErrOf, Input, Message, Scaled, Want, NoiseBound, Sample

\* At the start nothing has been computed.
LEMMA InitIInv == Init => IInv
  <1>1. SUFFICES ASSUME Init PROVE IInv
    OBVIOUS
  <1>2. InputsOK
    <2>1. /\ op \in {"reconstruct", "key_switch", "external_product"}
          /\ s \in Int /\ msg \in Int /\ ct.mask \in 0..(Q - 1) /\ ct.body \in 0..(Q - 1)
      BY <1>1, GadgetAssumption DEF Init
    <2>2. PICK e1 \in [0..(Depth[1] - 1) -> Drawn(1)], e2 \in [0..(Depth[2] - 1) -> Drawn(2)] : errs = <<e1, e2>>
      BY <1>1 DEF Init
    <2>3. ASSUME NEW p \in 1..2, NEW e \in Drawn(p), p <= Parts
          PROVE  e \in Int /\ Bounded(e, ErrOf)
      BY <2>3, GadgetAssumption DEF Drawn, ErrOf, Bounded, Parts
    <2>4. Parts \in 1..2
      BY DEF Parts
    <2>5. ASSUME NEW p \in 1..Parts, NEW i \in 0..(Depth[p] - 1)
          PROVE  errs[p][i] \in Int /\ Bounded(errs[p][i], ErrOf)
      <3>1. p \in 1..2 /\ p <= Parts
        BY <2>4
      <3>2. errs[p][i] \in Drawn(p)
        <4>1. CASE p = 1
          BY <2>2, <4>1
        <4>2. CASE p = 2
          BY <2>2, <4>2
        <4>3. QED BY <3>1, <4>1, <4>2
      <3>3. QED BY <2>3, <3>1, <3>2
    <2>6. QED BY <2>1, <2>5 DEF InputsOK
  <1>3. Parts \in 1..2
    BY DEF Parts
  <1>4. TypeOK
    <2>1. Depth[1] \in Nat /\ Q \in Nat /\ Q >= 2
      BY GadgetAssumption
    <2>2. QED BY <1>1, <1>3, <2>1 DEF Init, TypeOK
  <1>5. Track /\ SumInv
    BY <1>1 DEF Init, Track, SumInv, Finished
  <1>6. QED BY <1>2, <1>4, <1>5 DEF IInv

\* Scaling starts a product.
LEMMA ScaleStep ==
  ASSUME IInv, ScaleInput
  PROVE  IInv'
  <1>1. /\ pc = "scale" /\ val' = Scaled(part) /\ level' = 0 /\ pc' = "extract"
        /\ UNCHANGED inputs /\ part' = part /\ acc' = acc /\ sum' = sum
    BY DEF ScaleInput
  <1>2. InputsOK /\ InputsOK' /\ Parts' = Parts /\ Parts \in 1..2 /\ part \in 1..Parts /\ part \in 1..2
    BY <1>1, InputsFixed, InputFacts DEF IInv, TypeOK
  <1>3. Input(part) \in 0..(Q - 1)
    BY <1>2, InputFacts
  <1>4. Scaled(part) \in Int
    BY <1>2, <1>3, ScaledBounds
  <1>5. Depth[part] \in Nat \ {0} /\ Power[part][0] = 1 /\ Scale(part) = Power[part][Depth[part]] /\ Scale(part) \in Nat
    BY <1>2, PartParams
  <1>6. TypeOK'
    BY <1>1, <1>2, <1>4, <1>5 DEF IInv, TypeOK
  <1>7. Track'
    <2> DEFINE y == Scaled(part)
               S == Scale(part)
    <2>1. y \in Int /\ 2 * y <= S + 1 /\ -(2 * y) <= S + 1
      BY <1>2, <1>3, ScaledBounds
    <2>2. Half(part) \in Nat /\ ErrOf \in Nat
      BY <1>2, NoiseNat, InputFacts
    <2>3. Scaled(part)' = y /\ ErrOf' = ErrOf
      BY <1>1, <1>2, InputsFixed
    <2> HIDE DEF y, S
    <2>4. 1 * S = S /\ S \in Nat
      BY <1>5 DEF S
    <2>5. Bounded(2 * (1 * y), S + 2 * 1 - 1)
      BY <2>1, <2>4 DEF Bounded
    <2>6. S * 0 - Q * (y - y * 1) = 0 /\ S * (0 * Half(part)) = 0 /\ (0 * Half(part)) * ErrOf = 0
      <3>1. Q \in Nat
        BY GadgetAssumption
      <3>2. y - y * 1 = 0 /\ Q * 0 = 0 /\ S * 0 = 0 /\ 0 * Half(part) = 0 /\ 0 * ErrOf = 0
        BY <2>1, <2>2, <2>4, <3>1
      <3>3. QED BY <3>2
    <2>7. Bounded(2 * (S * 0 - Q * (y - y * 1)), S * (0 * Half(part)))
      BY <2>6 DEF Bounded
    <2>8. Bounded(0, (0 * Half(part)) * ErrOf)
      BY <2>6 DEF Bounded
    <2>9. Depth[part] - 0 = Depth[part]
      BY <1>5
    <2>10. val' = y
      BY <1>1 DEF y
    <2>11. Power[part][0] * Power[part][Depth[part] - 0] = S
      BY <1>5, <2>4, <2>9 DEF S
    <2>12. \E t, n \in Int :
         /\ 0 > 0 => acc' = (Message(part)' * t + n) % Q
         /\ 0 = 0 => t = 0 /\ n = 0
         /\ Bounded(2 * (S * t - Q * (y - y * Power[part][0])), S * (0 * Half(part)))
         /\ Bounded(n, (0 * Half(part)) * ErrOf)
      <3>1. 0 \in Int /\ ~(0 > 0)
        OBVIOUS
      <3>2. QED BY <1>5, <2>7, <2>8, <3>1
    <2>13. QED BY <1>1, <1>5, <2>3, <2>5, <2>10, <2>11, <2>12 DEF Track, S
  <1>8. SumInv'
    <2>1. Finished' = Finished
      BY <1>1, <1>2 DEF Finished
    <2>2. /\ NoiseBound(1)' = NoiseBound(1) /\ NoiseBound(2)' = NoiseBound(2)
          /\ Want(1)' = Want(1) /\ Want(2)' = Want(2)
      BY <1>1, InputsFixed
    <2>3. SumInv
      BY DEF IInv
    <2>4. QED BY <1>1, <2>1, <2>2, <2>3 DEF SumInv
  <1>9. QED BY <1>2, <1>6, <1>7, <1>8 DEF IInv

\* Extracting a digit.
LEMMA ExtractStep ==
  ASSUME IInv, Extract
  PROVE  IInv'
  <1> DEFINE p == part
             k == level
             d == BalancedDigit(p, val)
             g == G(p, Depth[p] - 1 - k)
             m == Message(p)
             e == errs[p][Depth[p] - 1 - k]
             S == Scale(p)
             h == Half(p)
             y == Scaled(p)
  <1>1. /\ pc = "extract" /\ k < Depth[p]
        /\ val' = (val - d) \div Base[p]
        /\ acc' = (IF k = 0 THEN Term ELSE acc + Term) % Q
        /\ level' = k + 1 /\ UNCHANGED inputs /\ pc' = pc /\ part' = p /\ sum' = sum
    BY DEF Extract
  <1>2. InputsOK /\ InputsOK' /\ Parts' = Parts /\ p \in 1..Parts /\ p \in 1..2 /\ val \in Int /\ TypeOK
    BY <1>1, InputsFixed, InputFacts DEF IInv, TypeOK
  <1>3. Depth[p] \in Nat \ {0} /\ k \in 0..(Depth[p] - 1) /\ Depth[p] - 1 - k \in 0..(Depth[p] - 1)
        /\ Depth[p] - 1 - k \in Int /\ k \in Nat
    <2>1. Depth[p] \in Nat \ {0}
      BY <1>2, PartParams
    <2>2. level \in Nat /\ level < Depth[p]
      BY <1>1, <1>2 DEF TypeOK
    <2>3. QED BY <2>1, <2>2
  <1>4. Q \in Nat \ {0} /\ h \in Nat /\ ErrOf \in Nat /\ m \in Int /\ S \in Nat
    BY <1>2, PartParams, NoiseNat, InputFacts
  <1>5. d \in Int /\ Bounded(d, h) /\ val' \in Int
    BY <1>1, <1>2, DigitBounds DEF Bounded, Half
  <1>6. g \in Int
    BY <1>2, <1>3, GadgetEntry
  <1>7. e \in Int /\ Bounded(e, ErrOf)
    BY <1>2, <1>3 DEF InputsOK
  <1>8. Term = d * ((g * m + e) % Q)
    BY DEF Term, Sample
  <1>9. Term \in Int
    <2>1. g * m + e \in Int
      BY <1>4, <1>6, <1>7
    <2>2. (g * m + e) % Q \in Int
      BY <1>4, <2>1, IntDivMod
    <2>3. QED BY <1>5, <1>8, <2>2
  <1>10. acc' \in 0..(Q - 1)
    <2>1. acc \in Int
      BY <1>2, <1>4 DEF TypeOK
    <2>2. (IF k = 0 THEN Term ELSE acc + Term) \in Int
      BY <1>9, <2>1
    <2>3. QED BY <1>1, <1>4, <2>2, IntDivMod
  <1>11. TypeOK'
    BY <1>1, <1>2, <1>3, <1>5, <1>10 DEF TypeOK
  <1>12. /\ Power[p][k] * Power[p][Depth[p] - k] = S
         /\ Bounded(2 * (Power[p][k] * val), S + 2 * Power[p][k] - 1)
    BY <1>1 DEF IInv, Track
  <1>13. PICK t \in Int, n \in Int :
           /\ k > 0 => acc = (m * t + n) % Q
           /\ k = 0 => t = 0 /\ n = 0
           /\ Bounded(2 * (S * t - Q * (y - val * Power[p][k])), S * (k * h))
           /\ Bounded(n, (k * h) * ErrOf)
    BY <1>1 DEF IInv, Track
  <1>14. y \in Int
    BY <1>2, InputFacts, ScaledBounds
  <1> DEFINE t2 == t + d * g
             n2 == n + d * e
  <1>15. /\ Power[p][k + 1] * Power[p][Depth[p] - (k + 1)] = S
         /\ Bounded(2 * (S * t2 - Q * (y - val' * Power[p][k + 1])), S * ((k + 1) * h))
    <2>1. val' = (val - BalancedDigit(p, val)) \div Base[p]
      BY <1>1
    <2>2. QED BY <1>2, <1>3, <1>12, <1>13, <1>14, <2>1, TrackStep
  <1>16. Bounded(2 * (Power[p][k + 1] * val'), S + 2 * Power[p][k + 1] - 1)
    <2>1. val' = (val - BalancedDigit(p, val)) \div Base[p]
      BY <1>1
    <2>2. QED BY <1>2, <1>3, <1>12, <2>1, CarryStep
  <1>17. acc' = (m * t2 + n2) % Q
    <2>1. acc' = (((m * t + n) % Q) + Term) % Q
      <3>1. CASE k = 0
        <4>1. m * t + n = 0
          BY <1>4, <1>13, <3>1
        <4>2. 0 % Q = 0
          <5>1. 0 = 0 + Q * 0
            BY <1>4
          <5>2. 0 % Q \in 0..(Q - 1) /\ 0 = Q * (0 \div Q) + (0 % Q) /\ 0 \div Q \in Nat
            BY <1>4, NatDivMod
          <5> DEFINE u == 0 % Q
                     v == Q * (0 \div Q)
          <5>3. u \in Nat /\ v \in Nat /\ 0 = v + u
            BY <1>4, <5>2
          <5> HIDE DEF u, v
          <5>4. u = 0
            BY <5>3
          <5>5. QED BY <5>4 DEF u
        <4>3. Term = 0 + Term
          BY <1>9
        <4>4. acc' = Term % Q
          BY <1>1, <3>1
        <4>5. QED BY <4>1, <4>2, <4>3, <4>4
      <3>2. CASE k # 0
        <4>1. k > 0
          BY <1>3, <3>2
        <4>2. QED BY <1>1, <1>13, <3>2, <4>1
      <3>3. QED BY <3>1, <3>2
    <2>2. acc' = (((m * t + n) % Q) + d * ((g * m + e) % Q)) % Q
      BY <1>8, <2>1
    <2>3. QED
      <3> HIDE DEF d, g, m, e
      <3>1. QED BY <1>4, <1>5, <1>6, <1>7, <2>2, AccStep
  <1>18. t2 \in Int /\ n2 \in Int
    BY <1>5, <1>6, <1>7
  <1>19. Bounded(n2, ((k + 1) * h) * ErrOf)
    <2>1. Bounded(d * e, h * ErrOf)
      <3> HIDE DEF d, e, h
      <3>1. QED BY <1>4, <1>5, <1>7, MulBound DEF Bounded
    <2>2. ((k + 1) * h) * ErrOf = (k * h) * ErrOf + h * ErrOf
      BY <1>3, <1>4
    <2>3. d * e \in Int /\ (k * h) * ErrOf \in Int /\ h * ErrOf \in Int
      BY <1>3, <1>4, <1>5, <1>7
    <2>4. Bounded(n + d * e, (k * h) * ErrOf + h * ErrOf)
      <3> DEFINE a == d * e
                 b == (k * h) * ErrOf
                 c == h * ErrOf
      <3>1. a \in Int /\ b \in Int /\ c \in Int /\ Bounded(n, b) /\ Bounded(a, c)
        BY <1>13, <2>1, <2>3
      <3> HIDE DEF a, b, c
      <3>2. Bounded(n + a, b + c)
        BY <3>1, BoundedSum
      <3>3. QED BY <3>2 DEF a, b, c
    <2>5. QED BY <2>2, <2>4
  <1>20. Track'
    <2>1. Scaled(p)' = y /\ Message(p)' = m /\ ErrOf' = ErrOf
      BY <1>1, <1>2, InputsFixed
    <2>2. ~(k + 1 = 0) /\ k + 1 > 0
      BY <1>3
    <2> HIDE DEF t2, n2, d, g, e, y, m, S, h
    <2>3. \E t0, n0 \in Int :
           /\ k + 1 > 0 => acc' = (m * t0 + n0) % Q
           /\ k + 1 = 0 => t0 = 0 /\ n0 = 0
           /\ Bounded(2 * (S * t0 - Q * (y - val' * Power[p][k + 1])), S * ((k + 1) * h))
           /\ Bounded(n0, ((k + 1) * h) * ErrOf)
      BY <1>15, <1>17, <1>18, <1>19, <2>2
    <2>4. QED BY <1>1, <1>15, <1>16, <2>1, <2>3 DEF Track, S, h
  <1>21. SumInv'
    <2>1. Finished' = Finished
      BY <1>1, <1>2 DEF Finished
    <2>2. /\ NoiseBound(1)' = NoiseBound(1) /\ NoiseBound(2)' = NoiseBound(2)
          /\ Want(1)' = Want(1) /\ Want(2)' = Want(2)
      BY <1>1, InputsFixed
    <2>3. SumInv
      BY DEF IInv
    <2>4. QED BY <1>1, <2>1, <2>2, <2>3 DEF SumInv
  <1>22. QED BY <1>2, <1>11, <1>20, <1>21 DEF IInv

\* When the last digit is out, the scratch holds at most one unit.
LEMMA CarryBound ==
  ASSUME IInv, pc = "extract", level = Depth[part]
  PROVE  val \in -1..1
  <1> DEFINE S == Scale(part)
  <1>1. part \in 1..2 /\ val \in Int
    BY InputFacts DEF IInv, TypeOK
  <1>2. S \in Nat \ {0} /\ S = Power[part][level]
    BY <1>1, PartParams
  <1>3. Bounded(2 * (S * val), S + 2 * S - 1)
    BY <1>2 DEF IInv, Track
  <1> HIDE DEF S
  <1>4. S * (2 * val) < S * 3 /\ S * (-3) < S * (2 * val)
    <2> DEFINE u == S * val
    <2>1. u \in Int /\ S * (2 * val) = 2 * u /\ S * 3 = S + 2 * S /\ S * (-3) = -(S + 2 * S)
      BY <1>1, <1>2
    <2>2. Bounded(2 * u, S + 2 * S - 1)
      BY <1>3
    <2> HIDE DEF u
    <2>3. QED BY <1>2, <2>1, <2>2 DEF Bounded
  <1>5. 2 * val < 3 /\ -3 < 2 * val
    BY <1>1, <1>2, <1>4, MulCancel
  <1>6. QED BY <1>1, <1>5

\* A finished product is what it should be, up to its noise.
LEMMA ProductOK ==
  ASSUME IInv, pc = "extract", level = Depth[part]
  PROVE  \E e \in Int : Bounded(e, NoiseBound(part)) /\ acc = (Want(part) + e) % Q
  <1> DEFINE p == part
             m == Message(p)
             S == Scale(p)
             L == Depth[p]
             h == Half(p)
             c == Centered(Input(p))
             y == Scaled(p)
  <1>1. InputsOK /\ p \in 1..2 /\ val \in Int
    BY InputFacts DEF IInv, TypeOK
  <1>2. /\ Q \in Nat \ {0} /\ L \in Nat \ {0} /\ S \in Nat \ {0} /\ S = Power[p][level]
        /\ h \in Nat /\ ErrOf \in Nat /\ m \in Int /\ c \in Int /\ Input(p) \in 0..(Q - 1)
    BY <1>1, PartParams, InputFacts, NoiseNat
  <1>3. y \in Int /\ Bounded(2 * (Q * y - S * c), Q)
    BY <1>1, <1>2, ScaledBounds DEF Bounded
  <1>4. PICK t \in Int, n \in Int :
           /\ acc = (m * t + n) % Q
           /\ Bounded(2 * (S * t - Q * (y - val * S)), S * (L * h))
           /\ Bounded(n, (L * h) * ErrOf)
    <2>1. level > 0
      BY <1>2
    <2>2. QED BY <1>2, <2>1 DEF IInv, Track
  <1> DEFINE e0 == t + Q * val - c
             e == m * e0 + n
             dl == Delta(p)
  <1>5. dl \in Nat /\ e0 \in Int /\ Bounded(e0, dl)
    BY <1>1, <1>2, <1>3, <1>4, ProductEnd
  <1>6. Abs(m) \in Nat /\ m <= Abs(m) /\ -m <= Abs(m)
    BY <1>2 DEF Abs
  <1> HIDE DEF m, S, L, h, c, y, dl
  <1>7. acc = (m * c + e) % Q
    <2>1. m * (Q * val) = Q * (m * val)
      BY <1>1, <1>2
    <2>2. m * t = m * c + m * e0 - m * (Q * val)
      BY <1>1, <1>2
    <2> DEFINE a1 == m * t
               a2 == m * c
               a3 == m * e0
               a4 == m * (Q * val)
               a5 == Q * (m * val)
    <2>3. a1 \in Int /\ a2 \in Int /\ a3 \in Int /\ a4 \in Int /\ a4 = a5 /\ a1 = a2 + a3 - a4
      BY <1>1, <1>2, <1>5, <2>1, <2>2
    <2>4. e = a3 + n
      OBVIOUS
    <2> HIDE DEF a1, a2, a3, a4, a5, e0, e
    <2>5. a2 + e = (a1 + n) + a5
      BY <2>3, <2>4
    <2>6. (m * t + n) + Q * (m * val) = m * c + e
      BY <2>5 DEF a1, a2, a5
    <2>7. m * t + n \in Int /\ m * val \in Int
      BY <1>1, <1>2
    <2>8. ((m * t + n) + Q * (m * val)) % Q = (m * t + n) % Q
      BY <2>7, ModCong
    <2>9. QED BY <1>4, <2>6, <2>8
  <1>8. e \in Int /\ Bounded(e, Abs(m) * dl + (L * h) * ErrOf)
    <2>1. Bounded(m * e0, Abs(m) * dl)
      <3> HIDE DEF e0
      <3>1. QED BY <1>2, <1>5, <1>6, MulBound DEF Bounded
    <2>2. m * e0 \in Int /\ Abs(m) * dl \in Int /\ (L * h) * ErrOf \in Int
      BY <1>2, <1>5, <1>6
    <2> DEFINE u == m * e0
               v == Abs(m) * dl
               w == (L * h) * ErrOf
    <2>3. u \in Int /\ v \in Int /\ w \in Int /\ Bounded(u, v) /\ Bounded(n, w) /\ e = u + n
      BY <1>4, <2>1, <2>2
    <2> HIDE DEF u, v, w, e, e0
    <2>4. e \in Int /\ Bounded(e, v + w)
      BY <2>3, BoundedSum
    <2>5. QED BY <2>4 DEF v, w
  <1>9. NoiseBound(p) = Abs(m) * dl + (L * h) * ErrOf
    BY <1>1, NoiseNat DEF m, dl, L, h
  <1>10. Want(p) = m * c
    BY DEF Want, m, c
  <1> HIDE DEF e
  <1>11. QED BY <1>7, <1>8, <1>9, <1>10

\* Sums of residues.
LEMMA ModSum ==
  ASSUME NEW a \in Int, NEW b \in Int
  PROVE  ((a % Q) + (b % Q)) % Q = (a + b) % Q
  <1> DEFINE r == a % Q
             u == b % Q
  <1>1. Q \in Nat \ {0}
    BY GadgetAssumption
  <1>2. r \in Int /\ u \in Int
    BY <1>1, IntDivMod
  <1>3. (r + u) % Q = (a + u) % Q
    BY <1>2, ModEarly
  <1>4. (u + a) % Q = (b + a) % Q
    BY ModEarly
  <1> HIDE DEF r, u
  <1>5. a + u = u + a /\ a + b = b + a
    BY <1>2
  <1>6. QED BY <1>3, <1>4, <1>5 DEF r, u

\* Values that differ by a multiple of the modulus.
LEMMA SamePhase ==
  ASSUME NEW x \in Int, NEW z \in Int, NEW j \in Int, x = z + Q * j
  PROVE  x % Q = z % Q
  BY ModCong

\* Adding a finished product.
LEMMA FinishStep ==
  ASSUME IInv, FinishProduct
  PROVE  IInv'
  <1>1. /\ pc = "extract" /\ level = Depth[part]
        /\ sum' = (sum + acc) % Q
        /\ IF part < Parts THEN pc' = "scale" /\ part' = part + 1 ELSE pc' = "done" /\ part' = part
        /\ UNCHANGED inputs /\ level' = level /\ val' = val /\ acc' = acc
    BY DEF FinishProduct
  <1>2. InputsOK /\ InputsOK' /\ Parts' = Parts /\ Parts \in 1..2 /\ part \in 1..Parts /\ part \in 1..2 /\ TypeOK
    BY <1>1, InputsFixed, InputFacts DEF IInv, TypeOK
  <1>3. Q \in Nat \ {0} /\ sum \in Int /\ acc \in Int /\ val \in Int
    BY <1>2, PartParams DEF TypeOK
  <1>4. sum' \in 0..(Q - 1)
    <2>1. sum + acc \in Int
      BY <1>3
    <2>2. QED BY <1>1, <1>3, <2>1, IntDivMod
  <1>5. ~(pc' = "extract")
    BY <1>1
  <1>6. TypeOK'
    <2>1. part' \in 1..Parts /\ pc' \in {"scale", "done"}
      BY <1>1, <1>2
    <2>2. QED BY <1>1, <1>2, <1>3, <1>4, <2>1 DEF TypeOK
  <1>7. Track'
    BY <1>5 DEF Track
  <1>8. SumInv'
    <2>1. Finished = part - 1 /\ Finished' = part
      BY <1>1, <1>2 DEF Finished
    <2>2. /\ NoiseBound(1)' = NoiseBound(1) /\ NoiseBound(2)' = NoiseBound(2)
          /\ Want(1)' = Want(1) /\ Want(2)' = Want(2)
      BY <1>1, InputsFixed
    <2>3. PICK e \in Int : Bounded(e, NoiseBound(part)) /\ acc = (Want(part) + e) % Q
      BY <1>1, ProductOK
    <2>4. Want(1) \in Int /\ Want(2) \in Int /\ NoiseBound(1) \in Nat /\ NoiseBound(2) \in Nat
      BY <1>2, InputFacts, NoiseNat
    <2>5. CASE part = 1
      <3>1. sum = 0
        BY <2>1, <2>5 DEF IInv, SumInv
      <3>2. Want(1) + e \in Int
        BY <2>4
      <3>3. acc \in 0..(Q - 1)
        BY <1>2 DEF TypeOK
      <3>4. sum' = acc % Q
        BY <1>1, <1>3, <3>1
      <3>5. acc % Q = (Want(1) + e) % Q
        <4>1. (((Want(1) + e) % Q) + 0) % Q = (Want(1) + e + 0) % Q
          BY <3>2, ModEarly
        <4>2. ((Want(1) + e) % Q) + 0 = acc /\ Want(1) + e + 0 = Want(1) + e
          BY <1>3, <2>3, <2>5, <3>2
        <4>3. QED BY <4>1, <4>2
      <3>6. sum' = (Want(1) + e) % Q /\ Bounded(e, NoiseBound(1))
        BY <2>3, <2>5, <3>4, <3>5
      <3>7. Finished' = 1
        BY <2>1, <2>5
      <3>8. QED BY <2>2, <3>6, <3>7 DEF SumInv
    <2>6. CASE part = 2
      <3>1. PICK f \in Int : Bounded(f, NoiseBound(1)) /\ sum = (Want(1) + f) % Q
        BY <2>1, <2>6 DEF IInv, SumInv
      <3> DEFINE a == Want(1) + f
                 b == Want(2) + e
      <3>2. a \in Int /\ b \in Int
        BY <2>4
      <3>3. sum = a % Q /\ acc = b % Q
        BY <2>3, <2>6, <3>1
      <3> HIDE DEF a, b
      <3>4. ((a % Q) + (b % Q)) % Q = (a + b) % Q
        BY <3>2, ModSum
      <3>6. sum' = (a + b) % Q
        BY <1>1, <3>3, <3>4
      <3> USE DEF a, b
      <3>7. a + b = Want(1) + Want(2) + (f + e)
        BY <2>4
      <3>8. Bounded(f + e, NoiseBound(1) + NoiseBound(2)) /\ f + e \in Int
        BY <2>3, <2>4, <2>6, <3>1, BoundedSum
      <3>9. Finished' = 2
        BY <2>1, <2>6
      <3>10. sum' = (Want(1) + Want(2) + (f + e)) % Q
        BY <3>6, <3>7
      <3>11. QED BY <2>2, <3>8, <3>9, <3>10 DEF SumInv
    <2>7. QED BY <1>2, <2>5, <2>6
  <1>9. QED BY <1>2, <1>6, <1>7, <1>8 DEF IInv

\* Every step preserves the invariant.
LEMMA StepIInv == IInv /\ [Next]_vars => IInv'
  <1>1. SUFFICES ASSUME IInv, [Next]_vars PROVE IInv'
    OBVIOUS
  <1>2. CASE ScaleInput
    BY <1>1, <1>2, ScaleStep
  <1>3. CASE Extract
    BY <1>1, <1>3, ExtractStep
  <1>4. CASE FinishProduct
    BY <1>1, <1>4, FinishStep
  <1>5. CASE UNCHANGED vars
    <2>1. UNCHANGED inputs
      BY <1>5 DEF vars, inputs
    <2>2. InputsOK' /\ Parts' = Parts /\ ErrOf' = ErrOf
      BY <1>1, <2>1, InputsFixed DEF IInv
    <2>3. part \in 1..2 /\ part' = part
      BY <1>1, <1>5, InputFacts DEF IInv, TypeOK, vars
    <2>4. TypeOK'
      BY <1>1, <1>5, <2>2 DEF IInv, TypeOK, vars
    <2>5. Message(part)' = Message(part) /\ Scaled(part)' = Scaled(part)
      BY <2>1, <2>3, InputsFixed
    <2>6. Track'
      BY <1>1, <1>5, <2>2, <2>3, <2>5 DEF IInv, Track, vars
    <2>7. /\ NoiseBound(1)' = NoiseBound(1) /\ NoiseBound(2)' = NoiseBound(2)
          /\ Want(1)' = Want(1) /\ Want(2)' = Want(2)
      BY <2>1, InputsFixed
    <2>8. SumInv'
      BY <1>1, <1>5, <2>2, <2>7 DEF IInv, SumInv, Finished, vars
    <2>9. QED BY <2>2, <2>4, <2>6, <2>8 DEF IInv
  <1>6. QED BY <1>1, <1>2, <1>3, <1>4, <1>5 DEF Next

\* The invariant of the specification.
LEMMA SpecIInv == Spec => []IInv
  BY InitIInv, StepIInv, PTL DEF Spec

\* The scratch and the accumulators of a gadget product stay in range
\* (gadget.rs, rlev.rs), for all parameters.
THEOREM TypeCorrect == Spec => []TypeOK
  <1>1. IInv => TypeOK
    BY DEF IInv
  <1>2. QED BY <1>1, SpecIInv, PTL

\* Decomposition drops at most a carry of one, a multiple of q (gadget.rs),
\* for all parameters.
THEOREM CarryDropped == Spec => []CarryAtMostOne
  <1>1. IInv => CarryAtMostOne
    BY CarryBound DEF CarryAtMostOne
  <1>2. QED BY <1>1, SpecIInv, PTL

\* The invariant gives the noise bound of each operation.
LEMMA AccurateFromIInv ==
  ASSUME IInv
  PROVE  Accurate
  <1>1. SUFFICES ASSUME pc = "done"
                 PROVE  \E e \in (-TotalNoise)..TotalNoise : Phase = (Ideal + e) % Q
    BY DEF Accurate
  <1>2. InputsOK /\ Finished = Parts /\ Parts \in 1..2 /\ Q \in Nat \ {0}
    BY <1>1, InputFacts, GadgetAssumption DEF IInv, Finished
  <1>3. NoiseBound(1) \in Nat /\ NoiseBound(2) \in Nat
    BY <1>2, NoiseNat
  <1> DEFINE A == ct.mask
             B == ct.body
             cA == Centered(A)
             cB == Centered(B)
  <1>4. A \in 0..(Q - 1) /\ B \in 0..(Q - 1) /\ s \in Int /\ msg \in Int
    BY <1>2 DEF InputsOK
  <1>5. PICK i \in Int : cA = A + Q * i
    BY <1>4, CenteredRange
  <1>6. PICK j \in Int : cB = B + Q * j
    BY <1>4, CenteredRange
  <1>7. cA \in Int /\ cB \in Int
    BY <1>4, CenteredRange
  <1>8. ASSUME NEW e \in Int, NEW b \in Nat, Bounded(e, b)
        PROVE  e \in (-b)..b /\ -e \in (-b)..b
    BY <1>8 DEF Bounded
  <1>9. CASE op = "reconstruct"
    <2>1. Parts = 1 /\ TotalNoise = NoiseBound(1)
      BY <1>3, <1>9 DEF TotalNoise, Parts
    <2>2. PICK e \in Int : Bounded(e, NoiseBound(1)) /\ sum = (Want(1) + e) % Q
      BY <1>2, <2>1 DEF IInv, SumInv
    <2>3. Want(1) = 1 * cA
      BY <1>9 DEF Want, Message, Input
    <2>4. Phase = sum /\ Ideal = A
      BY <1>9 DEF Phase, Ideal
    <2> HIDE DEF A, B, cA, cB
    <2>5. Want(1) + e = A + e + Q * i
      BY <1>2, <1>4, <1>5, <1>7, <2>3
    <2>6. Want(1) + e \in Int /\ A + e \in Int
      BY <1>4, <1>7, <2>3
    <2>7. (Want(1) + e) % Q = (A + e) % Q
      <3> DEFINE x == Want(1) + e
                 z == A + e
      <3>1. x \in Int /\ z \in Int /\ x = z + Q * i
        BY <2>5, <2>6
      <3> HIDE DEF x, z
      <3>2. x % Q = z % Q
        BY <3>1, SamePhase
      <3>3. QED BY <3>2 DEF x, z
    <2>8. e \in (-TotalNoise)..TotalNoise
      BY <1>3, <1>8, <2>1, <2>2
    <2>9. QED BY <2>2, <2>4, <2>7, <2>8
  <1>10. CASE op = "key_switch"
    <2>1. Parts = 1 /\ TotalNoise = NoiseBound(1)
      BY <1>3, <1>10 DEF TotalNoise, Parts
    <2>2. PICK e \in Int : Bounded(e, NoiseBound(1)) /\ sum = (Want(1) + e) % Q
      BY <1>2, <2>1 DEF IInv, SumInv
    <2>3. Want(1) = s * cA
      BY <1>10 DEF Want, Message, Input
    <2>4. Phase = (B - sum) % Q /\ Ideal = B - (A * s)
      BY <1>10 DEF Phase, Ideal
    <2> HIDE DEF A, B, cA, cB
    <2>5. Want(1) = A * s + Q * (s * i) /\ Want(1) \in Int
      <3>1. s * (A + Q * i) = A * s + Q * (s * i)
        BY <1>2, <1>4
      <3>2. QED BY <1>4, <1>5, <1>7, <2>3, <3>1
    <2>6. (B - sum) % Q = (B - (Want(1) + e)) % Q
      <3>1. B \in Int /\ Want(1) + e \in Int
        BY <1>4, <2>5
      <3>2. QED BY <2>2, <3>1, ModEarly
    <2>7. B - (Want(1) + e) = (B - A * s) + (-e) + Q * (-(s * i))
      <3> DEFINE u == A * s
                 v == Q * (s * i)
                 w == Q * (-(s * i))
      <3>1. u \in Int /\ v \in Int /\ w = -v /\ Want(1) = u + v
        BY <1>2, <1>4, <2>5
      <3> HIDE DEF u, v, w
      <3>2. B - (Want(1) + e) = (B - u) + (-e) + w
        BY <1>4, <3>1
      <3>3. QED BY <3>2 DEF u, w
    <2>8. /\ B - (Want(1) + e) \in Int /\ (B - A * s) + (-e) \in Int
          /\ -(s * i) \in Int /\ -e \in Int
      BY <1>4, <2>5
    <2>9. (B - (Want(1) + e)) % Q = ((B - A * s) + (-e)) % Q
      <3> DEFINE x == B - (Want(1) + e)
                 z == (B - A * s) + (-e)
                 l == -(s * i)
      <3>1. x \in Int /\ z \in Int /\ l \in Int /\ x = z + Q * l
        BY <2>7, <2>8
      <3> HIDE DEF x, z, l
      <3>2. x % Q = z % Q
        BY <3>1, SamePhase
      <3>3. QED BY <3>2 DEF x, z
    <2>10. -e \in (-TotalNoise)..TotalNoise
      BY <1>3, <1>8, <2>1, <2>2
    <2>11. Phase = (Ideal + (-e)) % Q
      BY <2>4, <2>6, <2>9
    <2>12. QED BY <2>10, <2>11
  <1>11. CASE op = "external_product"
    <2>1. Parts = 2 /\ TotalNoise = NoiseBound(1) + NoiseBound(2)
      BY <1>3, <1>11 DEF TotalNoise, Parts
    <2>2. PICK e \in Int : /\ Bounded(e, NoiseBound(1) + NoiseBound(2))
                           /\ sum = (Want(1) + Want(2) + e) % Q
      BY <1>2, <2>1 DEF IInv, SumInv
    <2>3. Want(1) = (-(s * msg)) * cA /\ Want(2) = msg * cB
      BY <1>11 DEF Want, Message, Input
    <2>4. Phase = sum /\ Ideal = msg * (B - (A * s))
      BY <1>11 DEF Phase, Ideal
    <2> HIDE DEF A, B, cA, cB
    <2> DEFINE l == msg * j - (s * msg) * i
    <2>5. Want(1) + Want(2) = msg * (B - (A * s)) + Q * l
      <3>1. (-(s * msg)) * (A + Q * i) = -(msg * (A * s)) - Q * ((s * msg) * i)
        BY <1>2, <1>4
      <3>2. msg * (B + Q * j) = msg * B + Q * (msg * j)
        BY <1>2, <1>4
      <3>3. msg * (B - (A * s)) = msg * B - msg * (A * s)
        BY <1>4
      <3>4. Q * l = Q * (msg * j) - Q * ((s * msg) * i)
        BY <1>2, <1>4
      <3> DEFINE a1 == msg * (A * s)
                 a2 == Q * ((s * msg) * i)
                 a3 == msg * B
                 a4 == Q * (msg * j)
                 a5 == msg * (B - (A * s))
                 a6 == Q * l
      <3>5. /\ a1 \in Int /\ a2 \in Int /\ a3 \in Int /\ a4 \in Int
            /\ Want(1) = (-a1) - a2 /\ Want(2) = a3 + a4 /\ a5 = a3 - a1 /\ a6 = a4 - a2
        BY <1>2, <1>4, <1>5, <1>6, <2>3, <3>1, <3>2, <3>3, <3>4
      <3> HIDE DEF a1, a2, a3, a4, a5, a6
      <3>6. Want(1) + Want(2) = a5 + a6
        BY <3>5
      <3>7. QED BY <3>6 DEF a5, a6
    <2>6. l \in Int /\ Ideal \in Int /\ Want(1) + Want(2) + e \in Int
      <3>1. Want(1) \in Int /\ Want(2) \in Int
        BY <1>2, InputFacts
      <3>2. QED BY <1>4, <2>4, <3>1
    <2> HIDE DEF l
    <2>7. Want(1) + Want(2) + e = Ideal + e + Q * l
      <3> DEFINE w == Want(1) + Want(2)
                 z == Q * l
      <3>1. w = Ideal + z /\ z \in Int /\ w \in Int
        BY <1>2, <2>4, <2>5, <2>6
      <3> HIDE DEF w, z
      <3>2. w + e = Ideal + e + z
        BY <2>6, <3>1
      <3>3. QED BY <3>2 DEF w, z
    <2>8. (Want(1) + Want(2) + e) % Q = (Ideal + e) % Q
      <3> DEFINE x == Want(1) + Want(2) + e
                 z == Ideal + e
      <3>1. x \in Int /\ z \in Int /\ x = z + Q * l
        BY <2>6, <2>7
      <3> HIDE DEF x, z
      <3>2. x % Q = z % Q
        BY <2>6, <3>1, SamePhase
      <3>3. QED BY <3>2 DEF x, z
    <2>9. e \in (-TotalNoise)..TotalNoise
      <3>1. NoiseBound(1) + NoiseBound(2) \in Nat
        BY <1>3
      <3>2. QED BY <1>8, <2>1, <2>2, <3>1
    <2>10. QED BY <2>2, <2>4, <2>8, <2>9
  <1>12. QED BY <1>2, <1>9, <1>10, <1>11 DEF InputsOK

\* Key switching, external products and reconstruction stay within the
\* documented noise, for every modulus, base, depth, key, message and input
\* (keyswitch.rs, rgsw.rs).
THEOREM NoiseBounded == Spec => []Accurate
  <1>1. IInv => Accurate
    BY AccurateFromIInv
  <1>2. QED BY <1>1, SpecIInv, PTL
=============================================================================
