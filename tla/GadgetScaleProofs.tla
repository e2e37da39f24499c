------------------------- MODULE GadgetScaleProofs -------------------------
(***************************************************************************)
(* The scaling of a coefficient held as two residues, for every word       *)
(* length, all moduli, scales and divisors: the inverse and the checks of  *)
(* a basis, the operations in the slots, reconstruction and centring, the  *)
(* 256-bit division, and the rounding from end to end.                     *)
(***************************************************************************)
EXTENDS GadgetScale, WellFoundedInduction, TLAPS

\* Quotient and remainder of an integer by a positive number.
LEMMA IntDivMod ==
  ASSUME NEW a \in Int, NEW d \in Nat \ {0}
  PROVE  /\ a \div d \in Int
         /\ a % d \in 0..(d - 1)
         /\ a = d * (a \div d) + (a % d)
  BY Z3

\* Of a natural number, a natural number.
LEMMA NatDivMod ==
  ASSUME NEW a \in Nat, NEW d \in Nat \ {0}
  PROVE  /\ a \div d \in Nat
         /\ a % d \in 0..(d - 1)
         /\ a = d * (a \div d) + (a % d)
  BY Z3

\* A quotient and a remainder that fit are the quotient and the remainder.
LEMMA DivModUnique ==
  ASSUME NEW a \in Int, NEW d \in Nat \ {0}, NEW k \in Int, NEW m \in 0..(d - 1),
         a = d * k + m
  PROVE  a \div d = k /\ a % d = m
  <1> DEFINE k1 == a \div d
             m1 == a % d
  <1>1. k1 \in Int /\ m1 \in 0..(d - 1) /\ a = d * k1 + m1
    BY IntDivMod
  <1> HIDE DEF k1, m1
  <1>2. ASSUME k1 < k PROVE FALSE
    <2>1. d * (k1 + 1) <= d * k
      BY <1>1, <1>2, Z3
    <2>2. d * (k1 + 1) = d * k1 + d
      BY <1>1, Z3
    <2>3. QED BY <1>1, <2>1, <2>2
  <1>3. ASSUME k < k1 PROVE FALSE
    <2>1. d * (k + 1) <= d * k1
      BY <1>1, <1>3, Z3
    <2>2. d * (k + 1) = d * k + d
      BY Z3
    <2>3. QED BY <1>1, <2>1, <2>2
  <1>4. k1 = k
    BY <1>1, <1>2, <1>3
  <1>5. QED BY <1>1, <1>4 DEF k1, m1

\* A divisor is a factor.
LEMMA DividesIff ==
  ASSUME NEW d \in Nat \ {0}, NEW a \in Int
  PROVE  Divides(d, a) <=> \E k \in Int : a = d * k
  <1>1. ASSUME Divides(d, a) PROVE \E k \in Int : a = d * k
    <2>1. a \div d \in Int /\ a = d * (a \div d) + (a % d) /\ a % d = 0
      BY <1>1, IntDivMod DEF Divides
    <2> DEFINE k == a \div d
               dk == d * k
    <2>2. dk \in Int
      BY <2>1, Z3
    <2>3. a = dk
      <3> HIDE DEF dk
      <3>1. a = dk + 0
        BY <2>1 DEF dk
      <3>2. QED BY <2>2, <3>1
    <2>4. QED BY <2>1, <2>3
  <1>2. ASSUME NEW k \in Int, a = d * k PROVE Divides(d, a)
    <2>1. d * k \in Int
      BY Z3
    <2>2. a = d * k + 0 /\ 0 \in 0..(d - 1)
      BY <1>2, <2>1
    <2>3. a % d = 0
      BY <2>2, DivModUnique
    <2>4. QED BY <2>3 DEF Divides
  <1>3. QED BY <1>1, <1>2

\* A divisor of two numbers divides what is left of one after multiples of the
\* other are taken away, and the other way round.
LEMMA DividesDifference ==
  ASSUME NEW d \in Nat \ {0}, NEW a \in Int, NEW b \in Int, NEW k \in Int
  PROVE  Divides(d, a) /\ Divides(d, b) <=> Divides(d, b) /\ Divides(d, a - k * b)
  <1>1. a - k * b \in Int
    BY Z3
  <1>2. ASSUME Divides(d, a), Divides(d, b) PROVE Divides(d, a - k * b)
    <2>1. PICK u \in Int : a = d * u
      BY <1>2, DividesIff
    <2>2. PICK v \in Int : b = d * v
      BY <1>2, DividesIff
    <2>3. a - k * b = d * (u - k * v) /\ u - k * v \in Int
      <3>1. \A x1, y1, z1 \in Int : d * x1 - y1 * (d * z1) = d * (x1 - y1 * z1) /\ x1 - y1 * z1 \in Int
        BY Z3
      <3>2. QED BY <2>1, <2>2, <3>1
    <2>4. QED BY <1>1, <2>3, DividesIff
  <1>3. ASSUME Divides(d, b), Divides(d, a - k * b) PROVE Divides(d, a)
    <2>1. PICK u \in Int : a - k * b = d * u
      BY <1>1, <1>3, DividesIff
    <2>2. PICK v \in Int : b = d * v
      BY <1>3, DividesIff
    <2>3. a = d * (u + k * v) /\ u + k * v \in Int
      <3>1. \A x1, y1, z1 \in Int : d * (x1 + y1 * z1) = d * x1 + y1 * (d * z1) /\ x1 + y1 * z1 \in Int
        BY Z3
      <3>2. a = d * u + k * b
        <4> DEFINE e == k * b
        <4>1. e \in Int /\ d * u \in Int
          BY Z3
        <4>2. a - e = d * u
          BY <2>1
        <4> HIDE DEF e
        <4>3. QED BY <4>1, <4>2 DEF e
      <3>3. d * (u + k * v) = d * u + k * (d * v) /\ u + k * v \in Int
        BY <3>1, Zenon
      <3>4. QED BY <2>2, <3>2, <3>3, Zenon
    <2>4. QED BY <2>3, DividesIff
  <1>4. QED BY <1>2, <1>3

\* The sum of a multiple of d and a number has the number's remainder.
LEMMA ModShift ==
  ASSUME NEW d \in Nat \ {0}, NEW a \in Int, NEW b \in Int, NEW k \in Int, a = b + d * k
  PROVE  a % d = b % d
  <1> DEFINE k1 == b \div d
             m1 == b % d
  <1>1. k1 \in Int /\ m1 \in 0..(d - 1) /\ b = d * k1 + m1
    BY IntDivMod
  <1> HIDE DEF k1, m1
  <1>2. a = d * (k1 + k) + m1 /\ k1 + k \in Int
    <2>1. d * (k1 + k) = d * k1 + d * k /\ d * k1 \in Int /\ d * k \in Int
      BY <1>1, Z3
    <2>2. QED BY <1>1, <2>1
  <1>3. a % d = m1
    BY <1>1, <1>2, DivModUnique
  <1>4. QED BY <1>3 DEF m1

\* Same remainder, a multiple of d apart.
LEMMA SameRemainder ==
  ASSUME NEW d \in Nat \ {0}, NEW a \in Int, NEW b \in Int, a % d = b % d
  PROVE  \E k \in Int : a = b + d * k
  <1> DEFINE u == a \div d
             v == b \div d
             m == a % d
  <1>1. u \in Int /\ v \in Int /\ m \in Int /\ a = d * u + m /\ b = d * v + m
    BY IntDivMod
  <1> HIDE DEF u, v, m
  <1>2. a = b + d * (u - v)
    <2>1. d * (u - v) = d * u - d * v /\ d * u \in Int /\ d * v \in Int
      BY <1>1, Z3
    <2>2. QED BY <1>1, <2>1
  <1>3. u - v \in Int
    BY <1>1
  <1>4. QED BY <1>2, <1>3

-----------------------------------------------------------------------------
\* Common divisors, and what the two Euclidean loops keep.

\* Two pairs have the same common divisors.
Same(a, b, c, d) ==
  \A k \in Nat \ {0} : Divides(k, a) /\ Divides(k, b) <=> Divides(k, c) /\ Divides(k, d)

\* A divisor of a positive number does not exceed it.
LEMMA DivisorSmall ==
  ASSUME NEW d \in Nat \ {0}, NEW a \in Nat \ {0}, Divides(d, a)
  PROVE  d <= a
  <1>1. SUFFICES ASSUME a < d PROVE FALSE
    OBVIOUS
  <1>2. a = d * 0 + a /\ a \in 0..(d - 1)
    BY <1>1
  <1>3. a % d = a
    BY <1>2, DivModUnique
  <1>4. QED BY <1>3 DEF Divides

\* Everything divides 0.
LEMMA DividesZero ==
  ASSUME NEW d \in Nat \ {0}
  PROVE  Divides(d, 0)
  <1>1. 0 = d * 0 + 0 /\ 0 \in 0..(d - 1)
    OBVIOUS
  <1>2. QED BY <1>1, DivModUnique DEF Divides

\* A positive number divides itself.
LEMMA DividesItself ==
  ASSUME NEW d \in Nat \ {0}
  PROVE  Divides(d, d)
  <1>1. d = d * 1 + 0 /\ 0 \in 0..(d - 1)
    OBVIOUS
  <1>2. QED BY <1>1, DivModUnique DEF Divides

\* When the loop has reached 0 the other number is 1 exactly when there is no
\* common divisor.
LEMMA GcdTells ==
  ASSUME NEW g \in Nat, NEW a \in Nat, NEW b \in Nat, b >= 2, Same(g, 0, a, b)
  PROVE  g = 1 <=> CoprimeNumbers(a, b)
  <1>1. ASSUME g = 1 PROVE CoprimeNumbers(a, b)
    <2>1. SUFFICES ASSUME NEW d \in 2..(a + b), Divides(d, a), Divides(d, b) PROVE FALSE
      BY DEF CoprimeNumbers
    <2>2. Divides(d, g)
      BY <2>1 DEF Same
    <2>3. d <= 1
      BY <1>1, <2>1, <2>2, DivisorSmall
    <2>4. QED BY <2>1, <2>3
  <1>2. ASSUME g # 1 PROVE ~CoprimeNumbers(a, b)
    <2> DEFINE d == IF g = 0 THEN 2 ELSE g
    <2>1. d \in Nat \ {0} /\ d >= 2 /\ Divides(d, g) /\ Divides(d, 0)
      BY <1>2, DividesZero, DividesItself
    <2> HIDE DEF d
    <2>2. Divides(d, a) /\ Divides(d, b)
      BY <2>1 DEF Same
    <2>3. d <= b
      BY <2>1, <2>2, DivisorSmall
    <2>4. d \in 2..(a + b)
      BY <2>1, <2>3
    <2>5. QED BY <2>2, <2>4 DEF CoprimeNumbers
  <1>3. QED BY <1>1, <1>2

\* A turn of the loop keeps the common divisors.
LEMMA TurnKeepsDivisors ==
  ASSUME NEW a \in Nat, NEW b \in Nat, NEW k \in Int, NEW c \in Int, NEW d \in Int,
         Same(a, b, c, d)
  PROVE  Same(b, a - k * b, c, d)
  <1>1. SUFFICES ASSUME NEW n \in Nat \ {0}
                 PROVE Divides(n, b) /\ Divides(n, a - k * b) <=> Divides(n, c) /\ Divides(n, d)
    BY DEF Same
  <1>2. Divides(n, a) /\ Divides(n, b) <=> Divides(n, c) /\ Divides(n, d)
    BY DEF Same
  <1>3. Divides(n, a) /\ Divides(n, b) <=> Divides(n, b) /\ Divides(n, a - k * b)
    <2>1. a \in Int /\ b \in Int
      OBVIOUS
    <2>2. QED BY <2>1, DividesDifference, Zenon
  <1>4. QED BY <1>2, <1>3

\* Lift is the remainder, a natural number.
LEMMA LiftIs ==
  ASSUME NEW n \in Nat \ {0}, NEW a \in Int
  PROVE  Lift(a, n) = a % n
  <1>1. CASE a >= 0
    <2>1. a % n \in 0..(n - 1)
      BY IntDivMod
    <2> DEFINE m == a % n
    <2> HIDE DEF m
    <2>2. m \in 0..(n - 1)
      BY <2>1 DEF m
    <2>3. Rem(a, n) = m
      BY <1>1 DEF Rem, m
    <2>4. QED BY <2>2, <2>3 DEF Lift, m
  <1>2. CASE a < 0
    <2> DEFINE k == (-a) \div n
               m == (-a) % n
    <2>1. -a \in Int
      OBVIOUS
    <2>2. k \in Int /\ m \in 0..(n - 1) /\ -a = n * k + m
      BY <2>1, IntDivMod
    <2>3. Rem(a, n) = -m
      BY <1>2 DEF Rem
    <2> HIDE DEF k, m
    <2> DEFINE l == IF m = 0 THEN 0 ELSE n - m
    <2>4. l \in 0..(n - 1)
      BY <2>2
    <2>5. Lift(a, n) = l
      BY <2>2, <2>3 DEF Lift
    <2>6. \E j \in Int : a = n * j + l
      <3>1. n * (-k) = -(n * k) /\ n * (-k - 1) = -(n * k) - n /\ n * k \in Int /\ -k \in Int /\ -k - 1 \in Int
        BY <2>2, Z3
      <3>2. CASE m = 0
        <4>1. a = n * (-k) + l
          BY <2>2, <3>1, <3>2
        <4>2. QED BY <3>1, <4>1
      <3>3. CASE m # 0
        <4>1. a = n * (-k - 1) + l
          BY <2>2, <3>1, <3>3
        <4>2. QED BY <3>1, <4>1
      <3>4. QED BY <3>2, <3>3
    <2>7. PICK j \in Int : a = n * j + l
      BY <2>6
    <2>8. a % n = l
      BY <2>4, <2>7, DivModUnique
    <2>9. QED BY <2>5, <2>8
  <1>3. QED BY <1>1, <1>2

\* Bezout's coefficient is the inverse.
LEMMA BezoutInverse ==
  ASSUME NEW a \in Nat, NEW n \in Nat, n >= 2, NEW u \in Int, NEW t \in Int,
         1 = a * u + n * t
  PROVE  Lift(u, n) \in 1..(n - 1) /\ (Lift(u, n) * a) % n = 1
  <1> DEFINE m == u % n
             k == u \div n
             ma == m * a
  <1>1. k \in Int /\ m \in 0..(n - 1) /\ u = n * k + m
    BY IntDivMod
  <1>2. Lift(u, n) = m
    BY LiftIs
  <1> HIDE DEF m, k
  <1>3. ma \in Int /\ -(k * a + t) \in Int
    BY <1>1, Z3
  <1>4. 1 = n * (k * a + t) + ma
    <2>1. \A x1, y1, z1, w1 \in Int : z1 * (x1 * y1 + w1) = y1 * (z1 * x1) + z1 * w1
      BY Z3
    <2>2. \A x1, y1, z1 \in Int : x1 * (y1 + z1) = x1 * y1 + z1 * x1 /\ x1 * y1 \in Int /\ z1 * x1 \in Int
      BY Z3
    <2>3. a * u = a * (n * k) + ma /\ a * (n * k) \in Int
      <3>1. n * k \in Int
        BY <1>1, Z3
      <3>2. QED BY <1>1, <2>2, <3>1
    <2>4. n * (k * a + t) = a * (n * k) + n * t /\ n * t \in Int
      BY <1>1, <2>1, <2>2
    <2> HIDE DEF ma
    <2> DEFINE p == a * (n * k)
               q == n * t
               w == a * u
               z == n * (k * a + t)
    <2>5. 1 = w + q /\ w = p + ma /\ z = p + q /\ p \in Int /\ q \in Int
      BY <2>3, <2>4
    <2> HIDE DEF p, q, w, z
    <2>6. 1 = z + ma
      BY <1>3, <2>5
    <2>7. QED BY <2>6 DEF z
  <1>5. ma = 1 + n * (-(k * a + t))
    <2> DEFINE e == k * a + t
    <2>1. e \in Int
      BY <1>1, Z3
    <2> HIDE DEF ma, e
    <2>2. n * (-e) = -(n * e) /\ n * e \in Int
      BY <2>1, Z3
    <2>3. 1 = n * e + ma
      BY <1>4 DEF e
    <2>4. ma = 1 + n * (-e)
      BY <1>3, <2>2, <2>3
    <2>5. QED BY <2>4 DEF e
  <1>6. ma % n = 1
    <2> HIDE DEF ma
    <2> DEFINE j == -(k * a + t)
    <2>1. ma = 1 + n * j /\ j \in Int
      BY <1>3, <1>5
    <2> HIDE DEF j
    <2>2. n * j \in Int
      BY <2>1, Z3
    <2>3. ma = n * j + 1 /\ 1 \in 0..(n - 1)
      BY <2>1, <2>2
    <2>4. QED BY <1>3, <2>1, <2>3, DivModUnique
  <1>8. m # 0
    <2>1. SUFFICES ASSUME m = 0 PROVE FALSE
      OBVIOUS
    <2>2. ma = n * 0 + 0 /\ 0 \in 0..(n - 1)
      BY <2>1
    <2>3. ma % n = 0
      <3> HIDE DEF ma
      <3>1. QED BY <1>3, <2>2, DivModUnique
    <2>4. QED BY <1>6, <2>3
  <1>9. QED BY <1>1, <1>2, <1>6, <1>8

-----------------------------------------------------------------------------
\* Congruence, Garner reconstruction and the two centrings.

\* a and b differ by a multiple of n.
Apart(a, b, n) == \E k \in Int : a = b + n * k

\* Numbers a multiple apart have the same remainder.
LEMMA ApartSame ==
  ASSUME NEW n \in Nat \ {0}, NEW a \in Int, NEW b \in Int, Apart(a, b, n)
  PROVE  a % n = b % n
  <1>1. PICK k \in Int : a = b + n * k
    BY DEF Apart
  <1>2. QED BY <1>1, ModShift

\* A remainder is a multiple apart from the number.
LEMMA RemainderApart ==
  ASSUME NEW n \in Nat \ {0}, NEW a \in Int
  PROVE  a % n \in 0..(n - 1) /\ Apart(a % n, a, n)
  <1> DEFINE k == a \div n
             m == a % n
  <1>1. k \in Int /\ m \in 0..(n - 1) /\ a = n * k + m
    BY IntDivMod
  <1> HIDE DEF k, m
  <1>2. n * (-k) = -(n * k) /\ n * k \in Int /\ -k \in Int
    BY <1>1, Z3
  <1>3. m = a + n * (-k)
    BY <1>1, <1>2
  <1>4. Apart(m, a, n)
    BY <1>2, <1>3 DEF Apart
  <1>5. QED BY <1>1, <1>4 DEF m

\* Sums, differences and products of numbers a multiple apart are.
LEMMA ApartSum ==
  ASSUME NEW n \in Nat \ {0}, NEW a \in Int, NEW b \in Int, NEW c \in Int, NEW d \in Int,
         Apart(a, b, n), Apart(c, d, n)
  PROVE  Apart(a + c, b + d, n)
  <1>1. PICK k \in Int : a = b + n * k
    BY DEF Apart
  <1>2. PICK j \in Int : c = d + n * j
    BY DEF Apart
  <1>3. n * (k + j) = n * k + n * j /\ n * k \in Int /\ n * j \in Int /\ k + j \in Int
    BY Z3
  <1>4. a + c = b + d + n * (k + j)
    BY <1>1, <1>2, <1>3
  <1>5. QED BY <1>3, <1>4 DEF Apart

\* Their differences.
LEMMA ApartDifference ==
  ASSUME NEW n \in Nat \ {0}, NEW a \in Int, NEW b \in Int, NEW c \in Int, NEW d \in Int,
         Apart(a, b, n), Apart(c, d, n)
  PROVE  Apart(a - c, b - d, n)
  <1>1. PICK k \in Int : a = b + n * k
    BY DEF Apart
  <1>2. PICK j \in Int : c = d + n * j
    BY DEF Apart
  <1>3. n * (k - j) = n * k - n * j /\ n * k \in Int /\ n * j \in Int /\ k - j \in Int
    BY Z3
  <1>4. a - c = b - d + n * (k - j)
    BY <1>1, <1>2, <1>3
  <1>5. QED BY <1>3, <1>4 DEF Apart

\* Their products.
LEMMA ApartProduct ==
  ASSUME NEW n \in Nat \ {0}, NEW a \in Int, NEW b \in Int, NEW c \in Int, NEW d \in Int,
         Apart(a, b, n), Apart(c, d, n)
  PROVE  Apart(a * c, b * d, n)
  <1>1. PICK k \in Int : a = b + n * k
    BY DEF Apart
  <1>2. PICK j \in Int : c = d + n * j
    BY DEF Apart
  <1>3. \A u, v, w, z, m \in Int : (u + m * v) * (w + m * z) = u * w + m * (u * z + v * w + m * (v * z))
    BY Z3
  <1>4. a * c = b * d + n * (b * j + k * d + n * (k * j))
    BY <1>1, <1>2, <1>3
  <1>5. b * j + k * d + n * (k * j) \in Int
    <2>1. \A u, v \in Int : u * v \in Int
      BY Z3
    <2>2. b * j \in Int /\ k * d \in Int /\ k * j \in Int
      BY <2>1
    <2>3. n * (k * j) \in Int
      BY <2>1, <2>2
    <2>4. QED BY <2>2, <2>3
  <1>6. QED BY <1>4, <1>5 DEF Apart

\* A number is apart from itself, and from itself moved by n.
LEMMA ApartItself ==
  ASSUME NEW n \in Nat \ {0}, NEW a \in Int
  PROVE  Apart(a, a, n) /\ Apart(a + n, a, n) /\ Apart(n, 0, n)
  <1>1. a = a + n * 0 /\ a + n = a + n * 1 /\ n = 0 + n * 1
    OBVIOUS
  <1>2. QED BY <1>1 DEF Apart

\* The other way round.
LEMMA ApartBack ==
  ASSUME NEW n \in Nat \ {0}, NEW a \in Int, NEW b \in Int, Apart(a, b, n)
  PROVE  Apart(b, a, n)
  <1>1. PICK k \in Int : a = b + n * k
    BY DEF Apart
  <1>2. n * (-k) = -(n * k) /\ n * k \in Int /\ -k \in Int
    BY Z3
  <1>3. b = a + n * (-k)
    BY <1>1, <1>2
  <1>4. QED BY <1>2, <1>3 DEF Apart

\* By way of a third number.
LEMMA ApartVia ==
  ASSUME NEW n \in Nat \ {0}, NEW a \in Int, NEW b \in Int, NEW c \in Int,
         Apart(a, b, n), Apart(b, c, n)
  PROVE  Apart(a, c, n)
  <1>1. PICK k \in Int : a = b + n * k
    BY DEF Apart
  <1>2. PICK j \in Int : b = c + n * j
    BY DEF Apart
  <1>3. n * (k + j) = n * k + n * j /\ n * k \in Int /\ n * j \in Int /\ k + j \in Int
    BY Z3
  <1>4. a = c + n * (k + j)
    BY <1>1, <1>2, <1>3
  <1>5. QED BY <1>3, <1>4 DEF Apart

\* A sum, a difference, a product in a slot is that of the numbers.
LEMMA SlotExact ==
  ASSUME NEW n \in Nat \ {0}, NEW a \in Int, NEW b \in Int
  PROVE  /\ AddIn(a % n, b % n, n) = (a + b) % n
         /\ SubIn(a % n, b % n, n) = (a - b) % n
         /\ MulIn(a % n, b % n, n) = (a * b) % n
         /\ (n - (a % n)) % n = (-a) % n
  <1> DEFINE u == a % n
             v == b % n
  <1>1. u \in Int /\ v \in Int /\ Apart(u, a, n) /\ Apart(v, b, n)
    <2>1. u \in 0..(n - 1) /\ v \in 0..(n - 1) /\ Apart(u, a, n) /\ Apart(v, b, n)
      BY RemainderApart, Zenon
    <2> HIDE DEF u, v
    <2>2. QED BY <2>1
  <1> HIDE DEF u, v
  <1>2. AddIn(u, v, n) = (a + b) % n
    <2>1. Apart(u + v, a + b, n) /\ u + v \in Int /\ a + b \in Int
      BY <1>1, ApartSum
    <2>2. (u + v) % n = (a + b) % n
      BY <2>1, ApartSame, Zenon
    <2>3. QED BY <2>2 DEF AddIn
  <1>3. SubIn(u, v, n) = (a - b) % n
    <2>1. u + n \in Int /\ Apart(u + n, u, n)
      BY <1>1, ApartItself
    <2>2. Apart(u + n, a, n)
      BY <1>1, <2>1, ApartVia
    <2>3. Apart(u + n - v, a - b, n) /\ u + n - v \in Int /\ a - b \in Int
      BY <1>1, <2>1, <2>2, ApartDifference
    <2>4. (u + n - v) % n = (a - b) % n
      BY <2>3, ApartSame, Zenon
    <2>5. QED BY <2>4 DEF SubIn
  <1>4. MulIn(u, v, n) = (a * b) % n
    <2>1. u * v \in Int /\ a * b \in Int
      BY <1>1, Z3
    <2>2. Apart(u * v, a * b, n)
      BY <1>1, ApartProduct
    <2>3. (u * v) % n = (a * b) % n
      BY <2>1, <2>2, ApartSame, Zenon
    <2>4. QED BY <2>3 DEF MulIn
  <1>5. (n - u) % n = (-a) % n
    <2>1. Apart(n, 0, n) /\ n \in Int /\ 0 \in Int
      BY ApartItself
    <2>2. Apart(n - u, 0 - a, n) /\ 0 - a = -a /\ n - u \in Int /\ -a \in Int
      BY <1>1, <2>1, ApartDifference
    <2>3. Apart(n - u, -a, n)
      BY <2>2
    <2>4. QED BY <2>2, <2>3, ApartSame, Zenon
  <1>6. QED BY <1>2, <1>3, <1>4, <1>5 DEF u, v

\* Garner: the residues of a number give it back, modulo the product.
LEMMA Garner ==
  ASSUME q0 \in Nat \ {0}, q1 \in Nat \ {0}, q1 >= 2, inv \in Nat, (inv * q0) % q1 = 1,
         NEW c \in Int
  PROVE  Reconstruct(<<c % q0, c % q1>>) = c % BigQ /\ BigQ \in Nat \ {0}
  <1> DEFINE k == c \div q0
             p1 == c % q0
             p2 == c % q1
             diff == (p2 + q1 - (p1 % q1)) % q1
             h == (diff * inv) % q1
  <1>1. k \in Int /\ p1 \in 0..(q0 - 1) /\ c = q0 * k + p1
    BY IntDivMod
  <1>2. p2 \in 0..(q1 - 1) /\ Apart(p2, c, q1)
    BY RemainderApart
  <1>3. Reconstruct(<<p1, p2>>) = p1 + q0 * h
    BY DEF Reconstruct
  <1>4. diff \in Int /\ Apart(diff, q0 * k, q1) /\ q0 * k \in Int
    <2> HIDE DEF k, p1, p2
    <2> DEFINE w == p1 % q1
               u == p2 + q1 - w
    <2>1. w \in 0..(q1 - 1) /\ Apart(w, p1, q1)
      BY <1>1, RemainderApart
    <2> HIDE DEF w
    <2>2. p2 + q1 \in Int /\ Apart(p2 + q1, p2, q1)
      BY <1>2, ApartItself
    <2>3. Apart(p2 + q1, c, q1)
      BY <1>2, <2>2, ApartVia
    <2>4. Apart(u, c - p1, q1) /\ u \in Int /\ c - p1 \in Int
      <3>1. w \in Int /\ p1 \in Int /\ q1 \in Nat \ {0} /\ p2 \in Int /\ c \in Int
        BY <1>1, <1>2, <2>1
      <3> DEFINE pq == p2 + q1
      <3>2. Apart(pq, c, q1) /\ Apart(w, p1, q1) /\ pq \in Int
        BY <2>1, <2>2, <2>3
      <3> HIDE DEF pq
      <3>3. Apart(pq - w, c - p1, q1)
        BY ONLY <3>1, <3>2, ApartDifference
      <3>4. QED BY <3>1, <3>2, <3>3 DEF pq
    <2>5. diff = u % q1
      BY DEF w
    <2> HIDE DEF u
    <2>6. u % q1 \in Int /\ Apart(u % q1, u, q1)
      BY <2>4, RemainderApart
    <2> DEFINE uu == u % q1
    <2> HIDE DEF diff
    <2>7. uu = diff
      BY <2>5
    <2> HIDE DEF uu
    <2>8. Apart(diff, c - p1, q1) /\ diff \in Int
      BY <2>4, <2>6, <2>7, ApartVia DEF uu
    <2>9. c - p1 = q0 * k /\ q0 * k \in Int
      <3>1. q0 * k \in Int
        BY <1>1, Z3
      <3>2. QED BY <1>1, <3>1
    <2>10. QED BY <2>8, <2>9
  <1>5. h \in 0..(q1 - 1) /\ Apart(h, k, q1)
    <2> HIDE DEF diff, k
    <2> DEFINE e == diff * inv
               f == (q0 * k) * inv
    <2>1. e \in Int /\ f \in Int
      BY <1>1, <1>4, Z3
    <2>2. Apart(e, f, q1)
      BY <1>4, ApartItself, ApartProduct
    <2>3. e % q1 \in 0..(q1 - 1) /\ Apart(e % q1, e, q1)
      BY <2>1, RemainderApart
    <2>4. Apart(f, k, q1)
      <3>1. inv * q0 \in Int
        BY Z3
      <3>2. Apart((inv * q0) % q1, inv * q0, q1)
        BY <3>1, RemainderApart
      <3>3. Apart(inv * q0, 1, q1)
        BY <3>1, <3>2, ApartBack
      <3>4. Apart((inv * q0) * k, 1 * k, q1)
        <4>1. Apart(k, k, q1) /\ 1 \in Int /\ k \in Int /\ q1 \in Nat \ {0}
          BY <1>1, ApartItself
        <4>2. QED BY <3>1, <3>3, <4>1, ApartProduct, Zenon
      <3>5. (inv * q0) * k = f /\ 1 * k = k
        BY <1>1, Z3
      <3>6. QED BY <3>4, <3>5
    <2> HIDE DEF e, f
    <2> DEFINE m == e % q1
    <2>5. m \in 0..(q1 - 1) /\ Apart(m, e, q1)
      BY <2>3
    <2> HIDE DEF m
    <2>6. Apart(m, k, q1)
      <3>1. Apart(m, f, q1)
        BY <2>1, <2>2, <2>5, ApartVia
      <3>2. QED BY <1>1, <2>1, <2>4, <2>5, <3>1, ApartVia
    <2>7. h = m
      BY DEF m, e
    <2>8. QED BY <2>5, <2>6, <2>7
  <1>6. PICK j \in Int : h = k + q1 * j
    BY <1>5 DEF Apart
  <1>7. BigQ \in Nat \ {0}
    BY Z3 DEF BigQ
  <1> HIDE DEF k, p1, p2, diff, h
  <1>8. c = BigQ * (-j) + (p1 + q0 * h)
    <2>1. \A u, v, w, z \in Int : u * (v + w * z) = u * v + (u * w) * z /\ u * v \in Int /\ (u * w) * z \in Int
      BY Z3
    <2>2. q0 * h = q0 * k + BigQ * j /\ q0 * k \in Int /\ BigQ * j \in Int
      BY <1>1, <1>6, <2>1 DEF BigQ
    <2>3. BigQ * (-j) = -(BigQ * j) /\ -j \in Int
      BY <1>7, Z3
    <2>4. QED BY <1>1, <2>2, <2>3
  <1>9. p1 + q0 * h \in 0..(BigQ - 1)
    <2>1. q0 * h <= q0 * (q1 - 1) /\ q0 * h \in Nat
      BY <1>5, Z3
    <2>2. q0 * (q1 - 1) = q0 * q1 - q0 /\ q0 * q1 \in Int
      BY Z3
    <2>3. QED BY <1>1, <2>1, <2>2 DEF BigQ
  <1>10. c % BigQ = p1 + q0 * h
    <2> DEFINE m == p1 + q0 * h
    <2>1. m \in 0..(BigQ - 1) /\ c = BigQ * (-j) + m /\ -j \in Int
      BY <1>8, <1>9
    <2> HIDE DEF m
    <2>2. c % BigQ = m
      BY <1>7, <2>1, DivModUnique, Zenon
    <2>3. QED BY <2>2 DEF m
  <1>11. QED BY <1>3, <1>7, <1>10 DEF p1, p2

\* The branch-free centring is the centring.
LEMMA Centrings ==
  ASSUME q0 \in Moduli, q1 \in Moduli, NEW p, Reconstruct(p) \in 0..(BigQ - 1)
  PROVE  CenteredCt(p) = Centered(p) /\ BigQ \in Nat /\ 2 * BigQ <= Word /\ BigQ >= 4
  <1> DEFINE v == Reconstruct(p)
             half == BigQ \div 2
             top == Word \div 2
             a == half + Word - v
             diff == a % Word
  <1>1. BigQ \in Nat /\ 2 * BigQ <= Word /\ BigQ >= 4
    <2>1. q0 \in Nat /\ q1 \in Nat /\ q0 >= 2 /\ q1 >= 2 /\ 2 * q0 * q0 <= Word /\ 2 * q1 * q1 <= Word
      BY RnsAssumption
    <2>2. Word \in Nat
      BY RnsAssumption
    <2>3. 2 * q0 * q0 = 2 * (q0 * q0) /\ 2 * q1 * q1 = 2 * (q1 * q1) /\ q0 * q0 \in Nat /\ q1 * q1 \in Nat
      BY <2>1, Z3
    <2>4. q0 * q1 \in Nat /\ (q0 * q1 <= q0 * q0 \/ q0 * q1 <= q1 * q1)
      BY <2>1, Z3
    <2>5. q0 * q1 >= 2 * 2
      BY <2>1, Z3
    <2>6. QED BY <2>1, <2>2, <2>3, <2>4, <2>5 DEF BigQ
  <1>2. Word \in Nat /\ Word = 2 * top /\ top \in Nat
    BY RnsAssumption
  <1>3. half \in Nat /\ (BigQ = 2 * half \/ BigQ = 2 * half + 1)
    BY <1>1
  <1>4. CenteredCt(p) = IF diff >= top THEN v - BigQ ELSE v
    BY DEF CenteredCt
  <1>5. Centered(p) = IF v <= half THEN v ELSE v - BigQ
    BY DEF Centered
  <1>6. v \in 0..(BigQ - 1) /\ a = half + Word - v
    OBVIOUS
  <1>7. diff = IF v <= half THEN half - v ELSE a
    <2> HIDE DEF v, half, top, a
    <2>1. Word \in Nat \ {0} /\ a \in Int
      BY <1>1, <1>2, <1>3, <1>6
    <2>2. CASE v <= half
      <3>1. a = Word * 1 + (half - v) /\ half - v \in 0..(Word - 1)
        BY <1>1, <1>2, <1>3, <1>6, <2>2
      <3>2. QED BY <2>1, <2>2, <3>1, DivModUnique
    <2>3. CASE ~(v <= half)
      <3>1. a = Word * 0 + a /\ a \in 0..(Word - 1)
        BY <1>1, <1>2, <1>3, <1>6, <2>3
      <3>2. QED BY <2>1, <2>3, <3>1, DivModUnique
    <2>4. QED BY <2>2, <2>3
  <1> HIDE DEF v, half, top, a, diff
  <1>8. diff >= top <=> ~(v <= half)
    <2>1. Word \in Nat /\ top \in Nat /\ half \in Nat /\ v \in Int /\ BigQ \in Nat
      BY <1>1, <1>2, <1>3, <1>6
    <2>2. CASE v <= half
      <3>1. diff = half - v /\ half - v < top
        BY <1>1, <1>2, <1>3, <1>6, <1>7, <2>1, <2>2
      <3>2. QED BY <2>1, <2>2, <3>1
    <2>3. CASE ~(v <= half)
      <3>1. diff = a /\ a >= top
        BY <1>1, <1>2, <1>3, <1>6, <1>7, <2>1, <2>3
      <3>2. QED BY <2>1, <2>3, <3>1
    <2>4. QED BY <2>2, <2>3
  <1>9. QED BY <1>1, <1>4, <1>5, <1>8

-----------------------------------------------------------------------------
\* The inductive invariant of the residue arithmetic (Rns).

\* a is a combination of the arguments, with u as the coefficient of the first.
Bezout(a, u) == \E t \in Int : a = q0 * u + q1 * t

\* gcd_u64 keeps the common divisors.
GcdInv ==
  pc = "gcd" =>
    /\ q0 \in Moduli /\ q1 \in Moduli /\ bare = FALSE
    /\ x \in Nat /\ y \in Nat /\ Same(x, y, q0, q1)

\* mod_inverse_u64 keeps them, and two combinations of its arguments.
EuclidInv ==
  pc = "euclid" =>
    /\ q0 \in Nat /\ q1 \in Nat /\ q1 >= 2
    /\ bare \in BOOLEAN /\ (bare \/ (q0 \in Moduli /\ q1 \in Moduli))
    /\ old_r \in Nat /\ r \in Nat /\ old_s \in Int /\ s \in Int
    /\ Same(old_r, r, q0, q1)
    /\ Bezout(old_r, old_s) /\ Bezout(r, s)

\* A basis has coprime moduli and the inverse.
ReadyInv ==
  pc \in {"ready", "result"} =>
    /\ q0 \in Moduli /\ q1 \in Moduli /\ CoprimeNumbers(q0, q1)
    /\ inv \in 1..(q1 - 1) /\ (inv * q0) % q1 = 1

\* A pair is the residues of the exact result.
ResultInv ==
  pc = "result" =>
    /\ call.op \in {"add", "sub", "mul", "lift"} /\ call.a \in Int /\ call.b \in Int
    /\ Product \in Int
    /\ pair = <<Product % q0, Product % q1>>

\* The inductive invariant of the residue arithmetic.
RnsInv == GcdInv /\ EuclidInv /\ ReadyInv /\ ResultInv /\ InverseOrSentinel

\* The moduli are natural numbers above 1.
LEMMA ModuliAre ==
  ASSUME NEW m \in Moduli
  PROVE  m \in Nat /\ m >= 2
  BY RnsAssumption

\* The invariant holds initially.
LEMMA RnsInitially == Init => RnsInv
  BY DEF Init, RnsInv, GcdInv, EuclidInv, ReadyInv, ResultInv, InverseOrSentinel

\* Equal moduli are refused for a reason; others start the gcd.
LEMMA NewBasisKeeps ==
  ASSUME RnsInv, NewBasis
  PROVE  RnsInv'
  <1>1. q0' \in Moduli /\ q1' \in Moduli /\ x' = q0' /\ y' = q1' /\ bare' = FALSE
        /\ pc' = IF q0' = q1' THEN "panic" ELSE "gcd"
    BY DEF NewBasis
  <1>2. q0' \in Nat /\ q1' \in Nat /\ q0' >= 2
    BY <1>1, ModuliAre
  <1>3. GcdInv'
    <2>1. Same(x, y, q0, q1)'
      BY <1>1 DEF Same
    <2>2. x' \in Nat /\ y' \in Nat
      BY <1>1, <1>2
    <2>3. QED BY <1>1, <2>1, <2>2 DEF GcdInv
  <1>4. InverseOrSentinel'
    <2>1. CASE q0' = q1'
      <3>1. Divides(q0', q0')
        <4>1. q0' \in Nat \ {0}
          BY <1>2
        <4>2. QED BY <4>1, DividesItself, Zenon
      <3>2. ~CoprimeNumbers(q0', q1')
        <4>1. q0' \in 2..(q0' + q1')
          <5>1. \A a, b \in Nat : a >= 2 => a \in 2..(a + b)
            OBVIOUS
          <5>2. QED BY <1>2, <5>1, Zenon
        <4>2. QED BY <2>1, <3>1, <4>1 DEF CoprimeNumbers
      <3>3. InverseOrSentinel' = ((pc' = "returned" => (IF q1 >= 2 /\ CoprimeNumbers(q0, q1) THEN inv < q1 /\ (inv * q0) % q1 = 1 ELSE inv = 0)')
                                   /\ (pc' = "panic" => ~CoprimeNumbers(q0', q1'))
                                   /\ (pc' = "ready" => (CoprimeNumbers(q0, q1) /\ inv \in 1..(q1 - 1))'))
        BY DEF InverseOrSentinel, CoprimeNumbers, Divides
      <3>4. QED BY <1>1, <2>1, <3>2, <3>3
    <2>2. CASE q0' # q1'
      BY <1>1, <2>2 DEF InverseOrSentinel
    <2>3. QED BY <2>1, <2>2
  <1>5. QED BY <1>1, <1>3, <1>4 DEF RnsInv, EuclidInv, ReadyInv, ResultInv

\* A turn of gcd_u64 keeps the common divisors.
LEMMA GcdStepKeeps ==
  ASSUME RnsInv, GcdStep
  PROVE  RnsInv'
  <1>1. pc = "gcd" /\ pc' = "gcd" /\ y # 0 /\ x' = y /\ y' = x % y
        /\ UNCHANGED <<q0, q1, bare, inv, call, pair>>
    BY DEF GcdStep
  <1>2. x \in Nat /\ y \in Nat \ {0} /\ q0 \in Nat /\ q1 \in Nat /\ Same(x, y, q0, q1)
    BY <1>1, ModuliAre DEF RnsInv, GcdInv
  <1> DEFINE k == x \div y
             m == x % y
  <1>3. k \in Int /\ m \in 0..(y - 1) /\ x = y * k + m
    <2>1. k \in Nat /\ m \in 0..(y - 1) /\ x = y * k + m
      BY <1>2, NatDivMod, Zenon
    <2> HIDE DEF k, m
    <2>2. QED BY <2>1
  <1>4. y' = m
    BY <1>1
  <1> HIDE DEF k, m
  <1>5. m = x - k * y
    <2>1. y * k = k * y /\ k * y \in Int
      BY <1>2, <1>3, Z3
    <2>2. x \in Int /\ m \in Int
      BY <1>2, <1>3
    <2>3. QED BY <1>3, <2>1, <2>2
  <1>6. Same(y, m, q0, q1)
    <2>1. y \in Nat /\ q0 \in Int /\ q1 \in Int
      BY <1>2
    <2>2. Same(y, x - k * y, q0, q1)
      BY <1>2, <1>3, <2>1, TurnKeepsDivisors, Zenon
    <2>3. QED BY <1>5, <2>2
  <1>7. GcdInv'
    BY <1>1, <1>2, <1>3, <1>4, <1>6 DEF GcdInv, RnsInv, Same
  <1>8. QED BY <1>1, <1>7 DEF RnsInv, EuclidInv, ReadyInv, ResultInv, InverseOrSentinel

\* The gcd has told whether there is a common divisor, and the inverse
\* starts from the remainder of the first modulus by the second.
LEMMA CoprimeKeeps ==
  ASSUME RnsInv, Coprime
  PROVE  RnsInv'
  <1>1. pc = "gcd" /\ y = 0 /\ pc' = (IF x = 1 THEN "euclid" ELSE "panic")
        /\ old_r' = q0 % q1 /\ r' = q1 /\ old_s' = 1 /\ s' = 0
        /\ UNCHANGED <<q0, q1, bare, inv, call, pair>>
    BY DEF Coprime
  <1>2. q0 \in Moduli /\ q1 \in Moduli /\ bare = FALSE /\ x \in Nat /\ Same(x, 0, q0, q1)
    BY <1>1 DEF RnsInv, GcdInv
  <1>3. q0 \in Nat /\ q1 \in Nat \ {0} /\ q1 >= 2
    BY <1>2, ModuliAre
  <1> DEFINE k == q0 \div q1
             m == q0 % q1
  <1>4. k \in Int /\ m \in 0..(q1 - 1) /\ q0 = q1 * k + m
    BY <1>3, IntDivMod
  <1>5. old_r' = m
    BY <1>1
  <1> HIDE DEF k, m
  <1>6. q1 * k = k * q1 /\ q1 * k \in Int /\ q1 * (-k) = -(q1 * k) /\ -k \in Int
    BY <1>3, <1>4, Z3
  <1>7. m = q0 - k * q1
    BY <1>3, <1>4, <1>6
  <1>8. Same(m, q1, q0, q1)
    <2>1. SUFFICES ASSUME NEW d \in Nat \ {0}
                   PROVE Divides(d, m) /\ Divides(d, q1) <=> Divides(d, q0) /\ Divides(d, q1)
      BY DEF Same
    <2>2. Divides(d, q0) /\ Divides(d, q1) <=> Divides(d, q1) /\ Divides(d, q0 - k * q1)
      <3>1. q0 \in Int /\ q1 \in Int
        BY <1>3
      <3>2. QED BY <1>4, <3>1, DividesDifference, Zenon
    <2>3. QED BY <1>7, <2>2
  <1>9. Bezout(m, 1)
    <2>1. m = q0 * 1 + q1 * (-k)
      BY <1>3, <1>4, <1>6
    <2>2. QED BY <1>6, <2>1 DEF Bezout
  <1>10. Bezout(q1, 0)
    <2>1. q1 = q0 * 0 + q1 * 1
      BY <1>3
    <2>2. QED BY <2>1 DEF Bezout
  <1>11. EuclidInv'
    <2>1. Same(old_r, r, q0, q1)'
      BY <1>1, <1>5, <1>8 DEF Same
    <2>2. Bezout(old_r, old_s)' /\ Bezout(r, s)'
      BY <1>1, <1>5, <1>9, <1>10 DEF Bezout
    <2>3. old_r' \in Nat /\ r' \in Nat /\ old_s' \in Int /\ s' \in Int
      BY <1>1, <1>3, <1>4, <1>5
    <2>4. QED BY <1>1, <1>2, <1>3, <2>1, <2>2, <2>3 DEF EuclidInv
  <1>12. x # 1 => ~CoprimeNumbers(q0, q1)
    BY <1>2, <1>3, GcdTells
  <1>13. InverseOrSentinel'
    BY <1>1, <1>12 DEF InverseOrSentinel
  <1>14. QED BY <1>1, <1>11, <1>13 DEF RnsInv, GcdInv, ReadyInv, ResultInv

\* A bare call starts the inverse from its arguments, or returns the
\* sentinel where there is no inverse.
LEMMA CallInverseKeeps ==
  ASSUME RnsInv, CallInverse
  PROVE  RnsInv'
  <1>1. q0' \in 0..(Word - 1) /\ q1' \in Moduli \union {0, 1}
        /\ old_r' = q0' /\ r' = q1' /\ bare' = TRUE /\ old_s' = 1 /\ s' = 0 /\ inv' = 0
        /\ pc' = (IF q1' < 2 \/ q0' = 0 THEN "returned" ELSE "euclid")
    BY DEF CallInverse
  <1>2. q0' \in Nat /\ q1' \in Nat
    BY <1>1, RnsAssumption
  <1>3. Bezout(old_r, old_s)' /\ Bezout(r, s)'
    <2>1. \A a, b \in Nat : a = a * 1 + b * 0 /\ b = a * 0 + b * 1
      OBVIOUS
    <2>2. q0' = q0' * 1 + q1' * 0 /\ q1' = q0' * 0 + q1' * 1
      BY <1>2, <2>1, Zenon
    <2>3. old_r' = q0' * old_s' + q1' * 0
      BY <1>1, <2>2
    <2>4. r' = q0' * s' + q1' * 1
      BY <1>1, <2>2
    <2>5. 0 \in Int /\ 1 \in Int
      OBVIOUS
    <2>6. QED BY <2>3, <2>4, <2>5, Zenon DEF Bezout
  <1>4. EuclidInv'
    <2>1. Same(old_r, r, q0, q1)'
      BY <1>1 DEF Same
    <2>2. old_r' \in Nat /\ r' \in Nat /\ old_s' \in Int /\ s' \in Int
      BY <1>1, <1>2
    <2>3. QED BY <1>1, <1>2, <1>3, <2>1, <2>2 DEF EuclidInv
  <1>5. InverseOrSentinel'
    <2>1. CASE q1' < 2 \/ q0' # 0
      <3>1. pc' \in {"returned", "euclid"} /\ (pc' = "returned" => ~(q1' >= 2))
        BY <1>1, <1>2, <2>1
      <3>2. QED BY <1>1, <3>1 DEF InverseOrSentinel
    <2>2. CASE q1' >= 2 /\ q0' = 0
      <3>1. Divides(q1', q0') /\ Divides(q1', q1') /\ q1' \in 2..(q0' + q1')
        <4>1. q1' \in Nat \ {0} /\ q1' \in 2..(q0' + q1')
          <5>1. \A a, b \in Nat : a >= 2 => a \in Nat \ {0} /\ a \in 2..(b + a)
            OBVIOUS
          <5>2. QED BY <1>2, <2>2, <5>1, Zenon
        <4>2. Divides(q1', 0) /\ Divides(q1', q1')
          BY <4>1, DividesItself, DividesZero, Zenon
        <4>3. QED BY <2>2, <4>1, <4>2
      <3>2. ~CoprimeNumbers(q0, q1)'
        BY <3>1 DEF CoprimeNumbers
      <3>3. QED BY <1>1, <2>2, <3>2 DEF InverseOrSentinel
    <2>3. QED BY <1>2, <2>1, <2>2
  <1>6. QED BY <1>1, <1>4, <1>5 DEF RnsInv, GcdInv, ReadyInv, ResultInv

\* A turn of mod_inverse_u64 keeps the common divisors and both
\* combinations.
LEMMA EuclidStepKeeps ==
  ASSUME RnsInv, EuclidStep
  PROVE  RnsInv'
  <1> DEFINE q == old_r \div r
             n == old_r % r
  <1>1. pc = "euclid" /\ pc' = "euclid" /\ r # 0
        /\ old_r' = r /\ r' = old_r - q * r /\ old_s' = s /\ s' = old_s - q * s
        /\ UNCHANGED <<q0, q1, bare, inv, call, pair>>
    BY DEF EuclidStep
  <1>2. /\ q0 \in Nat /\ q1 \in Nat /\ q1 >= 2
        /\ bare \in BOOLEAN /\ (bare \/ (q0 \in Moduli /\ q1 \in Moduli))
        /\ old_r \in Nat /\ r \in Nat \ {0} /\ old_s \in Int /\ s \in Int
        /\ Same(old_r, r, q0, q1) /\ Bezout(old_r, old_s) /\ Bezout(r, s)
    BY <1>1 DEF RnsInv, EuclidInv
  <1>3. q \in Int /\ n \in 0..(r - 1) /\ old_r = r * q + n
    BY <1>2, NatDivMod
  <1> HIDE DEF q, n
  <1>4. r * q = q * r /\ q * r \in Int /\ q * s \in Int
    BY <1>2, <1>3, Z3
  <1>5. r' = n /\ n = old_r - q * r
    BY <1>1, <1>2, <1>3, <1>4
  <1>6. s' \in Int
    BY <1>1, <1>2, <1>4
  <1>7. Same(r, old_r - q * r, q0, q1)
    <2>1. r \in Nat /\ q0 \in Int /\ q1 \in Int
      BY <1>2
    <2>2. QED BY <1>2, <1>3, <2>1, TurnKeepsDivisors, Zenon
  <1>8. Bezout(old_r - q * r, old_s - q * s)
    <2>1. PICK t \in Int : old_r = q0 * old_s + q1 * t
      BY <1>2 DEF Bezout
    <2>2. PICK u \in Int : r = q0 * s + q1 * u
      BY <1>2 DEF Bezout
    <2> DEFINE a == q0 * old_s
               b == q1 * t
               c == q0 * s
               d == q1 * u
               e == q0 * (old_s - q * s)
               f == q1 * (t - q * u)
               g == q * r
    <2>3. a \in Int /\ b \in Int /\ c \in Int /\ d \in Int /\ t - q * u \in Int
      BY <1>2, <1>3, Z3
    <2>4. e = a - q * c
      BY <1>2, <1>3, Z3
    <2>5. f = b - q * d
      BY <1>2, <1>3, Z3
    <2>6. old_r = a + b /\ g = q * (c + d)
      BY <2>1, <2>2
    <2> HIDE DEF a, b, c, d, e, f, g
    <2>7. q * (c + d) = q * c + q * d /\ q * c \in Int /\ q * d \in Int
      BY <1>3, <2>3, Z3
    <2>8. old_r - g = e + f
      BY <2>3, <2>4, <2>5, <2>6, <2>7
    <2>9. old_r - q * r = q0 * (old_s - q * s) + q1 * (t - q * u)
      BY <2>8 DEF e, f, g
    <2>10. QED BY <2>3, <2>9, Zenon DEF Bezout
  <1>9. EuclidInv'
    <2>1. Same(old_r, r, q0, q1)'
      BY <1>1, <1>7 DEF Same
    <2>2. Bezout(old_r, old_s)'
      BY <1>1, <1>2 DEF Bezout
    <2>3. Bezout(r, s)'
      BY <1>1, <1>8 DEF Bezout
    <2>4. QED BY <1>1, <1>2, <1>3, <1>5, <1>6, <2>1, <2>2, <2>3 DEF EuclidInv
  <1>10. QED BY <1>1, <1>9 DEF RnsInv, GcdInv, ReadyInv, ResultInv, InverseOrSentinel

\* The combination that is 1 holds the inverse.
LEMMA EuclidEndKeeps ==
  ASSUME RnsInv, EuclidEnd
  PROVE  RnsInv'
  <1>1. pc = "euclid" /\ r = 0
        /\ inv' = (IF old_r # 1 THEN 0 ELSE Lift(old_s, q1))
        /\ pc' = (IF bare THEN "returned" ELSE IF inv' = 0 THEN "panic" ELSE "ready")
        /\ UNCHANGED <<q0, q1, bare, call, pair>>
    BY DEF EuclidEnd
  <1>2. /\ q0 \in Nat /\ q1 \in Nat /\ q1 >= 2
        /\ bare \in BOOLEAN /\ (bare \/ (q0 \in Moduli /\ q1 \in Moduli))
        /\ old_r \in Nat /\ old_s \in Int
        /\ Same(old_r, 0, q0, q1) /\ Bezout(old_r, old_s)
    BY <1>1 DEF RnsInv, EuclidInv
  <1>3. old_r = 1 <=> CoprimeNumbers(q0, q1)
    BY <1>2, GcdTells
  <1>4. old_r = 1 => inv' \in 1..(q1 - 1) /\ (inv' * q0) % q1 = 1
    <2>1. SUFFICES ASSUME old_r = 1
                   PROVE Lift(old_s, q1) \in 1..(q1 - 1) /\ (Lift(old_s, q1) * q0) % q1 = 1
      BY <1>1
    <2>2. PICK t \in Int : 1 = q0 * old_s + q1 * t
      BY <1>2, <2>1 DEF Bezout
    <2>3. QED BY <1>2, <2>2, BezoutInverse
  <1>5. CASE old_r = 1
    <2>1. inv' \in 1..(q1 - 1) /\ (inv' * q0) % q1 = 1 /\ CoprimeNumbers(q0, q1)
      BY <1>3, <1>4, <1>5
    <2>2. pc' = IF bare THEN "returned" ELSE "ready"
      BY <1>1, <2>1
    <2>3. QED BY <1>1, <1>2, <2>1, <2>2 DEF RnsInv, GcdInv, EuclidInv, ReadyInv, ResultInv, InverseOrSentinel
  <1>6. CASE old_r # 1
    <2>1. inv' = 0 /\ ~CoprimeNumbers(q0, q1)
      BY <1>1, <1>3, <1>6
    <2>2. pc' = IF bare THEN "returned" ELSE "panic"
      BY <1>1, <2>1
    <2>3. QED BY <1>1, <1>2, <2>1, <2>2 DEF RnsInv, GcdInv, EuclidInv, ReadyInv, ResultInv, InverseOrSentinel
  <1>7. QED BY <1>5, <1>6

-----------------------------------------------------------------------------
\* The operations in the slots.

\* The exact result of an operation.
ProductOf(c) ==
  c.a * (IF c.op = "mul" THEN c.b ELSE 1)
  + (CASE c.op = "add" -> c.b [] c.op = "sub" -> -c.b [] OTHER -> 0)

\* The exact result of each operation.
LEMMA Products ==
  ASSUME NEW a \in Int, NEW b \in Int
  PROVE  /\ ProductOf([op |-> "add", a |-> a, b |-> b]) = a + b
         /\ ProductOf([op |-> "sub", a |-> a, b |-> b]) = a - b
         /\ ProductOf([op |-> "mul", a |-> a, b |-> b]) = a * b
         /\ ProductOf([op |-> "lift", a |-> a, b |-> b]) = a
  <1>1. a * b \in Int
    BY Z3
  <1> DEFINE e == a * b
  <1>2. ProductOf([op |-> "mul", a |-> a, b |-> b]) = e + 0
    BY DEF ProductOf
  <1> HIDE DEF e
  <1>3. e + 0 = e
    BY <1>1 DEF e
  <1>4. ProductOf([op |-> "add", a |-> a, b |-> b]) = a + b
    BY DEF ProductOf
  <1>5. ProductOf([op |-> "sub", a |-> a, b |-> b]) = a - b
    BY DEF ProductOf
  <1>6. ProductOf([op |-> "lift", a |-> a, b |-> b]) = a
    BY DEF ProductOf
  <1>7. QED BY <1>2, <1>3, <1>4, <1>5, <1>6 DEF e

\* An operation whose result is the pair of residues of the exact result.
LEMMA OperateKeeps ==
  ASSUME RnsInv, pc = "ready",
         NEW name \in {"add", "sub", "mul", "lift"}, NEW a \in Int, NEW b \in Int, NEW c \in Int,
         NEW result,
         Operate(name, a, b, result),
         c = ProductOf([op |-> name, a |-> a, b |-> b]),
         result = <<c % q0, c % q1>>
  PROVE  RnsInv'
  <1>1. pc' = "result" /\ call' = [op |-> name, a |-> a, b |-> b] /\ pair' = result
        /\ UNCHANGED <<q0, q1, bare, inv>>
    BY DEF Operate
  <1>2. ReadyInv'
    BY <1>1 DEF RnsInv, ReadyInv, CoprimeNumbers, Divides
  <1>3. Product' = ProductOf(call')
    BY DEF Product, ProductOf
  <1>4. Product' = c
    BY <1>1, <1>3
  <1>5. pair' = <<Product' % q0', Product' % q1'>>
    BY <1>1, <1>4
  <1>6. call'.op \in {"add", "sub", "mul", "lift"} /\ call'.a \in Int /\ call'.b \in Int
    BY <1>1
  <1>7. ResultInv'
    BY <1>4, <1>5, <1>6 DEF ResultInv
  <1>8. QED BY <1>1, <1>2, <1>7 DEF RnsInv, GcdInv, EuclidInv, InverseOrSentinel

\* What a basis is made of.
LEMMA ReadyNumbers ==
  ASSUME RnsInv, pc \in {"ready", "result"}
  PROVE  /\ q0 \in Nat \ {0} /\ q1 \in Nat \ {0} /\ q1 >= 2 /\ inv \in Nat /\ (inv * q0) % q1 = 1
         /\ q0 \in Moduli /\ q1 \in Moduli /\ BigQ \in Nat \ {0}
  <1>1. q0 \in Moduli /\ q1 \in Moduli /\ inv \in 1..(q1 - 1) /\ (inv * q0) % q1 = 1
    BY DEF RnsInv, ReadyInv
  <1>2. q0 \in Nat /\ q0 >= 2 /\ q1 \in Nat /\ q1 >= 2
    BY <1>1, ModuliAre
  <1>3. BigQ \in Nat \ {0}
    BY <1>2, Z3 DEF BigQ
  <1>4. inv \in Nat
    BY <1>1, <1>2
  <1>5. QED BY <1>1, <1>2, <1>3, <1>4

\* Sums, slot by slot.
LEMMA AddPairsKeeps ==
  ASSUME RnsInv, AddPairs
  PROVE  RnsInv'
  <1>1. PICK a \in 0..(BigQ - 1), b \in Factors :
          Operate("add", a, b, Slots(AddIn, Decompose(a), Decompose(b))) /\ pc = "ready"
    BY DEF AddPairs
  <1>2. a \in Int /\ b \in Int /\ q0 \in Nat \ {0} /\ q1 \in Nat \ {0} /\ a + b \in Int
    BY <1>1, RnsAssumption, ReadyNumbers
  <1>3. AddIn(a % q0, b % q0, q0) = (a + b) % q0 /\ AddIn(a % q1, b % q1, q1) = (a + b) % q1
    BY <1>2, SlotExact, Zenon
  <1>4. Slots(AddIn, Decompose(a), Decompose(b)) = <<(a + b) % q0, (a + b) % q1>>
    BY <1>3 DEF Slots, Decompose
  <1>5. ProductOf([op |-> "add", a |-> a, b |-> b]) = a + b
    BY <1>2, Products
  <1>6. QED BY <1>1, <1>2, <1>4, <1>5, OperateKeeps

\* Differences.
LEMMA SubPairsKeeps ==
  ASSUME RnsInv, SubPairs
  PROVE  RnsInv'
  <1>1. PICK a \in 0..(BigQ - 1), b \in Factors :
          Operate("sub", a, b, Slots(SubIn, Decompose(a), Decompose(b))) /\ pc = "ready"
    BY DEF SubPairs
  <1>2. a \in Int /\ b \in Int /\ q0 \in Nat \ {0} /\ q1 \in Nat \ {0} /\ a - b \in Int
    BY <1>1, RnsAssumption, ReadyNumbers
  <1>3. SubIn(a % q0, b % q0, q0) = (a - b) % q0 /\ SubIn(a % q1, b % q1, q1) = (a - b) % q1
    BY <1>2, SlotExact, Zenon
  <1>4. Slots(SubIn, Decompose(a), Decompose(b)) = <<(a - b) % q0, (a - b) % q1>>
    BY <1>3 DEF Slots, Decompose
  <1>5. ProductOf([op |-> "sub", a |-> a, b |-> b]) = a - b
    BY <1>2, Products
  <1>6. QED BY <1>1, <1>2, <1>4, <1>5, OperateKeeps

\* Products.
LEMMA MulPairsKeeps ==
  ASSUME RnsInv, MulPairs
  PROVE  RnsInv'
  <1>1. PICK a \in 0..(BigQ - 1), b \in Factors :
          Operate("mul", a, b, Slots(MulIn, Decompose(a), Decompose(b))) /\ pc = "ready"
    BY DEF MulPairs
  <1>2. a \in Int /\ b \in Int /\ q0 \in Nat \ {0} /\ q1 \in Nat \ {0}
    BY <1>1, RnsAssumption, ReadyNumbers
  <1> DEFINE c == a * b
  <1>3. c \in Int
    BY <1>2, Z3
  <1>4. MulIn(a % q0, b % q0, q0) = (a * b) % q0 /\ MulIn(a % q1, b % q1, q1) = (a * b) % q1
    BY <1>2, SlotExact, Zenon
  <1>5. Slots(MulIn, Decompose(a), Decompose(b)) = <<c % q0, c % q1>>
    BY <1>4 DEF Slots, Decompose
  <1>6. ProductOf([op |-> "mul", a |-> a, b |-> b]) = c
    BY <1>2, Products, Zenon
  <1> HIDE DEF c
  <1>7. QED BY <1>1, <1>2, <1>3, <1>5, <1>6, OperateKeeps

\* Signed numbers.
LEMMA FromSignedKeeps ==
  ASSUME RnsInv, FromSigned
  PROVE  RnsInv'
  <1> DEFINE mag(a) == IF a < 0 THEN -a ELSE a
             magnitude(a) == Decompose(mag(a))
             negated(a) == <<(q0 - magnitude(a)[1]) % q0, (q1 - magnitude(a)[2]) % q1>>
             value(a) == IF a < 0 THEN negated(a) ELSE magnitude(a)
  <1>1. PICK a \in -BigQ..BigQ : Operate("lift", a, 0, value(a)) /\ pc = "ready"
    BY DEF FromSigned
  <1>2. a \in Int /\ 0 \in Int /\ q0 \in Nat \ {0} /\ q1 \in Nat \ {0} /\ -a \in Int
    BY <1>1, ReadyNumbers
  <1>3. value(a) = <<a % q0, a % q1>>
    <2>1. CASE a < 0
      <3>1. negated(a) = <<(q0 - ((-a) % q0)) % q0, (q1 - ((-a) % q1)) % q1>>
        BY <2>1 DEF Decompose
      <3>2. (q0 - ((-a) % q0)) % q0 = (-(-a)) % q0 /\ (q1 - ((-a) % q1)) % q1 = (-(-a)) % q1
        BY <1>2, SlotExact, Zenon
      <3>3. -(-a) = a
        BY <1>2
      <3>4. negated(a) = <<a % q0, a % q1>>
        BY <3>1, <3>2, <3>3, Zenon
      <3>5. QED BY <2>1, <3>4
    <2>2. CASE ~(a < 0)
      BY <2>2 DEF Decompose
    <2>3. QED BY <2>1, <2>2
  <1>4. ProductOf([op |-> "lift", a |-> a, b |-> 0]) = a
    BY <1>2, Products
  <1> HIDE DEF value
  <1>5. QED BY <1>1, <1>2, <1>3, <1>4, OperateKeeps

\* Every step of the residue arithmetic keeps the invariant.
LEMMA RnsStep ==
  ASSUME RnsInv, [Next]_vars
  PROVE  RnsInv'
  <1>1. CASE NewBasis BY <1>1, NewBasisKeeps
  <1>2. CASE GcdStep BY <1>2, GcdStepKeeps
  <1>3. CASE Coprime BY <1>3, CoprimeKeeps
  <1>4. CASE CallInverse BY <1>4, CallInverseKeeps
  <1>5. CASE EuclidStep BY <1>5, EuclidStepKeeps
  <1>6. CASE EuclidEnd BY <1>6, EuclidEndKeeps
  <1>7. CASE AddPairs BY <1>7, AddPairsKeeps
  <1>8. CASE SubPairs BY <1>8, SubPairsKeeps
  <1>9. CASE MulPairs BY <1>9, MulPairsKeeps
  <1>10. CASE FromSigned BY <1>10, FromSignedKeeps
  <1>11. CASE UNCHANGED vars
    <2>1. UNCHANGED <<pc, q0, q1, bare, x, y, old_r, r, old_s, s, inv, call, pair>>
      BY <1>11 DEF vars
    <2>2. GcdInv'
      BY <2>1 DEF RnsInv, GcdInv, Same
    <2>3. EuclidInv'
      BY <2>1 DEF RnsInv, EuclidInv, Same, Bezout
    <2>4. ReadyInv'
      BY <2>1 DEF RnsInv, ReadyInv
    <2>5. ResultInv'
      BY <2>1 DEF RnsInv, ResultInv, Product
    <2>6. InverseOrSentinel'
      BY <2>1 DEF RnsInv, InverseOrSentinel
    <2>7. QED BY <2>2, <2>3, <2>4, <2>5, <2>6 DEF RnsInv
  <1>12. QED BY <1>1, <1>2, <1>3, <1>4, <1>5, <1>6, <1>7, <1>8, <1>9, <1>10, <1>11 DEF Next

\* What the invariant says of a result: the pair is canonical, stands for the
\* exact result modulo Q, and both centrings name the number nearest to zero.
LEMMA ResultIs ==
  ASSUME RnsInv, pc = "result"
  PROVE  /\ pair \in (0..(q0 - 1)) \X (0..(q1 - 1))
         /\ Reconstruct(pair) = Product % BigQ /\ Product \in Int
         /\ Reconstruct(pair) \in 0..(BigQ - 1)
         /\ CenteredCt(pair) = Centered(pair) /\ BigQ \in Nat /\ BigQ >= 4 /\ 2 * BigQ <= Word
  <1>1. /\ q0 \in Nat \ {0} /\ q1 \in Nat \ {0} /\ q1 >= 2 /\ inv \in Nat /\ (inv * q0) % q1 = 1
        /\ q0 \in Moduli /\ q1 \in Moduli /\ BigQ \in Nat \ {0}
    BY ReadyNumbers
  <1>2. Product \in Int /\ pair = <<Product % q0, Product % q1>>
    BY DEF RnsInv, ResultInv
  <1>3. Product % q0 \in 0..(q0 - 1) /\ Product % q1 \in 0..(q1 - 1) /\ Product % BigQ \in 0..(BigQ - 1)
    BY <1>1, <1>2, IntDivMod, Zenon
  <1>4. pair \in (0..(q0 - 1)) \X (0..(q1 - 1))
    BY <1>2, <1>3
  <1>5. Reconstruct(pair) = Product % BigQ
    BY <1>1, <1>2, Garner
  <1>6. Reconstruct(pair) \in 0..(BigQ - 1)
    BY <1>3, <1>5
  <1>7. CenteredCt(pair) = Centered(pair) /\ BigQ \in Nat /\ 2 * BigQ <= Word /\ BigQ >= 4
    BY <1>1, <1>6, Centrings
  <1>8. QED BY <1>2, <1>4, <1>5, <1>6, <1>7

\* The invariant implies the property.
LEMMA RnsInvExact == RnsInv => ResiduesExact
  <1>1. SUFFICES ASSUME RnsInv, pc = "result" PROVE ResiduesExact
    BY DEF ResiduesExact
  <1>2. /\ pair \in (0..(q0 - 1)) \X (0..(q1 - 1))
        /\ Reconstruct(pair) = Product % BigQ /\ Product \in Int
        /\ Reconstruct(pair) \in 0..(BigQ - 1)
        /\ CenteredCt(pair) = Centered(pair) /\ BigQ \in Nat /\ BigQ >= 4
    BY <1>1, ResultIs
  <1>3. call.op \in {"add", "sub", "mul", "lift"} /\ call.a \in Int /\ call.b \in Int
    BY <1>1 DEF RnsInv, ResultInv
  <1>4. Product = CASE call.op = "add" -> call.a + call.b
                    [] call.op = "sub" -> call.a - call.b
                    [] call.op = "mul" -> call.a * call.b
                    [] call.op = "lift" -> call.a
    <2> DEFINE a == call.a
               b == call.b
               e == a * b
    <2>1. a \in Int /\ b \in Int
      BY <1>3
    <2> HIDE DEF a, b
    <2>2. e \in Int
      BY <2>1, Z3
    <2>3. call.op = "mul" => Product = e + 0
      BY DEF Product, a, b
    <2>4. call.op = "add" => Product = a * 1 + b
      BY DEF Product, a, b
    <2>5. call.op = "sub" => Product = a * 1 + -b
      BY DEF Product, a, b
    <2>6. call.op = "lift" => Product = a * 1 + 0
      BY DEF Product, a, b
    <2> HIDE DEF e
    <2>7. e + 0 = e /\ a * 1 + b = a + b /\ a * 1 + -b = a - b /\ a * 1 + 0 = a
      BY <2>1, <2>2
    <2>8. QED BY <1>3, <2>3, <2>4, <2>5, <2>6, <2>7 DEF a, b, e
  <1>5. Reconstruct(pair) =
          CASE call.op = "add" -> (call.a + call.b) % BigQ
            [] call.op = "sub" -> (call.a - call.b) % BigQ
            [] call.op = "mul" -> (call.a * call.b) % BigQ
            [] call.op = "lift" -> call.a % BigQ
    <2>1. CASE call.op = "add" BY <1>2, <1>4, <2>1
    <2>2. CASE call.op = "sub" BY <1>2, <1>4, <2>2
    <2>3. CASE call.op = "mul" BY <1>2, <1>4, <2>3
    <2>4. CASE call.op = "lift" BY <1>2, <1>4, <2>4
    <2>5. QED BY <1>3, <2>1, <2>2, <2>3, <2>4
  <1>6. ASSUME call.op = "lift", 2 * call.a <= BigQ, -(2 * call.a) < BigQ
        PROVE  Centered(pair) = call.a
    <2> DEFINE a == call.a
               n == BigQ
               half == n \div 2
               v == IF a >= 0 THEN a ELSE a + n
    <2>1. a \in Int /\ n \in Nat \ {0} /\ n >= 4 /\ 2 * a <= n /\ -(2 * a) < n
      BY <1>2, <1>3, <1>6
    <2>2. Reconstruct(pair) = a % n
      BY <1>5, <1>6
    <2>3. Centered(pair) = IF Reconstruct(pair) <= half THEN Reconstruct(pair) ELSE Reconstruct(pair) - n
      BY DEF Centered
    <2> HIDE DEF a, n
    <2>4. half \in Nat /\ (n = 2 * half \/ n = 2 * half + 1)
      BY <2>1
    <2> HIDE DEF half
    <2>5. v \in 0..(n - 1)
      BY <2>1
    <2>6. a % n = v
      <3>1. CASE a >= 0
        <4>1. a = n * 0 + v /\ 0 \in Int
          BY <2>1, <3>1
        <4>2. QED BY <2>1, <2>5, <4>1, DivModUnique
      <3>2. CASE a < 0
        <4>1. a = n * (-1) + v /\ -1 \in Int
          BY <2>1, <3>2
        <4>2. QED BY <2>1, <2>5, <4>1, DivModUnique
      <3>3. QED BY <2>1, <3>1, <3>2
    <2>7. v <= half <=> a >= 0
      BY <2>1, <2>4
    <2>8. Centered(pair) = IF v <= half THEN v ELSE v - n
      BY <2>2, <2>3, <2>6
    <2>9. Centered(pair) = a
      BY <2>1, <2>7, <2>8
    <2>10. QED BY <2>9 DEF a
  <1>7. QED BY <1>2, <1>5, <1>6 DEF ResiduesExact

-----------------------------------------------------------------------------
\* The arithmetic of the widening product and of the long division.

\* Four partial products and their carries, limb by limb, are the product.
LEMMA LimbsExact ==
  ASSUME NEW base \in Nat \ {0}, NEW a \in Nat, NEW b \in Nat,
         NEW a0 \in Nat, NEW a1 \in Nat, NEW b0 \in Nat, NEW b1 \in Nat,
         a = base * a1 + a0, b = base * b1 + b0,
         NEW c0 \in Nat, NEW c1 \in Nat, NEW d0 \in Nat, NEW d1 \in Nat,
         NEW e0 \in Nat, NEW e1 \in Nat, NEW f0 \in Nat, NEW f1 \in Nat,
         a0 * b0 = base * c1 + c0, a0 * b1 = base * d1 + d0,
         a1 * b0 = base * e1 + e0, a1 * b1 = base * f1 + f0,
         NEW m0 \in Nat, NEW m1 \in Nat, c1 + d0 + e0 = base * m1 + m0,
         NEW n0 \in Nat, NEW n1 \in Nat, m1 + d1 + e1 + f0 = base * n1 + n0
  PROVE  (n0 + (n1 + f1) * base) * (base * base) + (c0 + m0 * base) = a * b
  <1> DEFINE sq == base * base
             u == a0 * b0   v == a0 * b1   w == a1 * b0   z == a1 * b1
             top == n0 + (n1 + f1) * base
             bottom == c0 + m0 * base
             t1 == m1 + d1 + e1 + f0
  <1>1. sq \in Nat /\ u \in Nat /\ v \in Nat /\ w \in Nat /\ z \in Nat
    BY Z3
  <1>2. a * b = sq * z + base * (v + w) + u
    BY Z3
  <1>3. top = t1 + base * f1
    <2>1. (n1 + f1) * base = base * n1 + base * f1 /\ base * n1 \in Nat /\ base * f1 \in Nat
      BY Z3
    <2>2. QED BY <2>1
  <1>4. t1 = m1 + (d1 + e1 + f0)
    OBVIOUS
  <1>5. z = base * f1 + f0
    OBVIOUS
  <1> DEFINE x1 == base * f1
             h == d1 + e1
  <1>6. x1 \in Nat /\ h \in Nat
    BY Z3
  <1>7. top = m1 + h + z
    BY <1>3, <1>4, <1>5, <1>6
  <1>8. sq * m1 + bottom = base * (c1 + d0 + e0) + c0
    <2>1. base * (c1 + d0 + e0) = base * (base * m1 + m0)
      OBVIOUS
    <2>2. base * (base * m1 + m0) = sq * m1 + m0 * base /\ sq * m1 \in Nat /\ m0 * base \in Nat
      BY Z3
    <2>3. QED BY <2>1, <2>2
  <1>9. base * (c1 + d0 + e0) = base * c1 + base * d0 + base * e0 /\ base * c1 \in Nat /\ base * d0 \in Nat /\ base * e0 \in Nat
    BY Z3
  <1>10. base * (v + w) = sq * h + base * d0 + base * e0 /\ sq * h \in Nat
    <2>1. v + w = (base * d1 + d0) + (base * e1 + e0)
      OBVIOUS
    <2>2. base * ((base * d1 + d0) + (base * e1 + e0)) = sq * (d1 + e1) + base * d0 + base * e0
      BY Z3
    <2>3. QED BY <1>1, <1>6, <2>1, <2>2, Z3
  <1>11. u = base * c1 + c0
    OBVIOUS
  <1> HIDE DEF sq, u, v, w, z, top, bottom, t1, x1, h
  <1>12. top * sq = sq * m1 + sq * h + sq * z /\ sq * m1 \in Nat /\ sq * z \in Nat
    <2>1. (m1 + h + z) * sq = sq * m1 + sq * h + sq * z /\ sq * m1 \in Nat /\ sq * z \in Nat
      BY <1>1, <1>6, Z3
    <2>2. QED BY <1>7, <2>1
  <1>13. bottom \in Nat
    BY Z3 DEF bottom
  <1>14. top * sq + bottom = a * b
    <2> DEFINE k1 == sq * m1   k2 == sq * h   k3 == sq * z
               k4 == base * c1   k5 == base * d0   k6 == base * e0
               k7 == base * (v + w)   k8 == base * (c1 + d0 + e0)
               k9 == top * sq   kk == a * b
    <2>1. kk = k3 + k7 + u /\ k1 + bottom = k8 + c0 /\ k8 = k4 + k5 + k6 /\ k7 = k2 + k5 + k6
          /\ u = k4 + c0 /\ k9 = k1 + k2 + k3
      BY <1>2, <1>8, <1>9, <1>10, <1>11, <1>12
    <2>2. k1 \in Nat /\ k2 \in Nat /\ k3 \in Nat /\ k4 \in Nat /\ k5 \in Nat /\ k6 \in Nat
      BY <1>9, <1>10, <1>12
    <2> HIDE DEF k1, k2, k3, k4, k5, k6, k7, k8, k9, kk
    <2>3. k9 + bottom = kk
      BY <1>13, <2>1, <2>2
    <2>4. QED BY <2>3 DEF k9, kk
  <1>15. QED BY <1>14 DEF top, sq, bottom

\* A quotient by twice p, from the quotient by p.
LEMMA HalveQuotient ==
  ASSUME NEW n \in Nat, NEW p \in Nat \ {0}
  PROVE  /\ n \div (2 * p) \in Nat /\ (n \div p) % 2 \in {0, 1}
         /\ n \div p = 2 * (n \div (2 * p)) + ((n \div p) % 2)
  <1> DEFINE m == n \div p
             r1 == n % p
             u == m \div 2
             b == m % 2
  <1>1. m \in Nat /\ r1 \in 0..(p - 1) /\ n = p * m + r1
    BY NatDivMod
  <1> HIDE DEF m, r1
  <1>2. u \in Nat /\ b \in 0..1 /\ m = 2 * u + b
    BY <1>1, Z3
  <1> HIDE DEF u, b
  <1>3. n = (2 * p) * u + (p * b + r1)
    <2>1. p * (2 * u + b) = (2 * p) * u + p * b /\ (2 * p) * u \in Nat /\ p * b \in Nat
      BY <1>2, Z3
    <2>2. QED BY <1>1, <1>2, <2>1
  <1>4. p * b + r1 \in 0..(2 * p - 1)
    BY <1>1, <1>2
  <1>5. n \div (2 * p) = u
    <2>1. 2 * p \in Nat \ {0} /\ n \in Int /\ u \in Int
      BY <1>2
    <2>2. QED BY <1>3, <1>4, <2>1, DivModUnique
  <1>6. QED BY <1>2, <1>5 DEF m, u, b

\* Equal quotients, and equal low bits of quotients.
SameQuotient(a, b, c, d) == a \div b = c \div d
SameBit(a, b, c) == (a \div c) % 2 = (b \div c) % 2

\* The high word's quotient is the number's.
LEMMA HighQuotient ==
  ASSUME NEW word \in Nat \ {0}, NEW h \in Nat, NEW l \in 0..(word - 1), NEW p \in Nat \ {0}
  PROVE  SameQuotient(h * word + l, word * p, h, p)
  <1> DEFINE u == h \div p
             v == h % p
             n == h * word + l
             wp == word * p
             m == word * v + l
  <1>1. u \in Nat /\ v \in 0..(p - 1) /\ h = p * u + v
    BY NatDivMod
  <1> HIDE DEF u, v
  <1>2. n \in Int /\ wp \in Nat \ {0} /\ m \in Nat
    BY <1>1, Z3
  <1>3. n = wp * u + m
    <2>1. (p * u + v) * word = wp * u + word * v /\ wp * u \in Nat /\ word * v \in Nat
      BY <1>1, Z3
    <2>2. QED BY <1>1, <2>1
  <1>4. m \in 0..(wp - 1)
    <2>1. word * v <= word * (p - 1) /\ word * v \in Nat
      BY <1>1, Z3
    <2>2. word * (p - 1) = wp - word
      BY Z3
    <2>3. QED BY <1>2, <2>1, <2>2
  <1> HIDE DEF n, wp, m
  <1>5. n \div wp = u
    BY <1>1, <1>2, <1>3, <1>4, DivModUnique
  <1>6. QED BY <1>5 DEF n, wp, u, SameQuotient

\* Below the high word a bit of the number is the low word's.
LEMMA LowBit ==
  ASSUME NEW word \in Nat \ {0}, NEW h \in Nat, NEW l \in Nat, NEW p \in Nat \ {0}, NEW k \in Nat,
         word = (2 * p) * k
  PROVE  SameBit(h * word + l, l, p)
  <1> DEFINE u == l \div p
             v == l % p
             n == h * word + l
             hk == h * k
             q == u + 2 * hk
             b == u % 2
             c == u \div 2
  <1>1. u \in Nat /\ v \in 0..(p - 1) /\ l = p * u + v
    BY NatDivMod
  <1> HIDE DEF u, v
  <1>2. n \in Int /\ hk \in Nat
    BY <1>1, Z3
  <1>3. n = p * q + v
    <2>1. h * ((2 * p) * k) = p * (2 * hk) /\ p * (2 * hk) \in Nat
      BY Z3
    <2>2. p * (u + 2 * hk) = p * u + p * (2 * hk) /\ p * u \in Nat
      BY <1>1, <1>2, Z3
    <2>3. QED BY <1>1, <2>1, <2>2
  <1> HIDE DEF n, hk
  <1>4. n \div p = q
    BY <1>1, <1>2, <1>3, DivModUnique
  <1>5. c \in Nat /\ b \in 0..1 /\ u = 2 * c + b
    BY <1>1, Z3
  <1> HIDE DEF b, c
  <1>6. q % 2 = b
    BY <1>1, <1>2, <1>5
  <1>7. QED BY <1>4, <1>6 DEF n, u, b, SameBit

\* What a turn of the long division does to a remainder m and a bit.
ShouldSub(m, bit, d, word) ==
  (2 * m) \div word # 0 \/ (2 * m + bit) % word >= d

NextRemainder(m, bit, d, word) ==
  IF ShouldSub(m, bit, d, word)
    THEN (((2 * m + bit) % word) + word - d) % word
    ELSE (2 * m + bit) % word

\* One turn of the long division, on numbers: the shifted remainder, taken
\* modulo the word with the bit it overflows by, is reduced as if it had not
\* overflowed.
LEMMA TurnExact ==
  ASSUME NEW half \in Nat \ {0}, NEW word \in Nat, word = 2 * half,
         NEW d \in 1..(word - 1), NEW m \in 0..(d - 1), NEW bit \in {0, 1}
  PROVE  /\ ShouldSub(m, bit, d, word) <=> 2 * m + bit >= d
         /\ NextRemainder(m, bit, d, word)
              = IF ShouldSub(m, bit, d, word) THEN 2 * m + bit - d ELSE 2 * m + bit
         /\ NextRemainder(m, bit, d, word) \in 0..(d - 1)
  <1> DEFINE t == 2 * m + bit
             over == (2 * m) \div word
             shifted == t % word
             back == shifted + word - d
  <1>1. t \in Nat /\ t < 2 * d /\ word \in Nat \ {0} /\ d \in Nat /\ d < word
    OBVIOUS
  <1>2. CASE t < word
    <2>1. over = 0
      <3>1. 2 * m = word * 0 + 2 * m /\ 2 * m \in 0..(word - 1) /\ 2 * m \in Int
        BY <1>2
      <3>2. QED BY <1>1, <3>1, DivModUnique
    <2>2. shifted = t
      <3>1. t = word * 0 + t /\ t \in 0..(word - 1) /\ t \in Int
        BY <1>1, <1>2
      <3> HIDE DEF t
      <3>2. QED BY <1>1, <3>1, DivModUnique
    <2> HIDE DEF t, over, shifted
    <2>3. t >= d => back % word = t - d
      <3>1. SUFFICES ASSUME t >= d PROVE back % word = t - d
        OBVIOUS
      <3>2. back = word * 1 + (t - d) /\ t - d \in 0..(word - 1) /\ back \in Int
        BY <1>1, <1>2, <2>2, <3>1
      <3> HIDE DEF back
      <3>3. QED BY <1>1, <3>2, DivModUnique
    <2> HIDE DEF back
    <2>4. (over # 0 \/ shifted >= d) <=> t >= d
      BY <1>1, <2>1, <2>2
    <2>5. QED BY <1>1, <2>2, <2>3, <2>4 DEF t, over, shifted, back, ShouldSub, NextRemainder
  <1>3. CASE t >= word
    <2>1. over = 1
      <3>1. 2 * m = word * 1 + (2 * m - word) /\ 2 * m - word \in 0..(word - 1) /\ 2 * m \in Int
        BY <1>3
      <3>2. QED BY <1>1, <3>1, DivModUnique
    <2>2. shifted = t - word
      <3>1. t = word * 1 + (t - word) /\ t - word \in 0..(word - 1) /\ t \in Int
        BY <1>1, <1>3
      <3> HIDE DEF t
      <3>2. QED BY <1>1, <3>1, DivModUnique
    <2> HIDE DEF t, over, shifted
    <2>3. back % word = t - d
      <3>1. back = word * 0 + (t - d) /\ t - d \in 0..(word - 1) /\ back \in Int
        BY <1>1, <1>3, <2>2
      <3> HIDE DEF back
      <3>2. QED BY <1>1, <3>1, DivModUnique
    <2> HIDE DEF back
    <2>4. (over # 0 \/ shifted >= d) /\ t >= d
      BY <1>1, <1>3, <2>1, <2>2
    <2>5. QED BY <1>1, <2>3, <2>4 DEF t, over, shifted, back, ShouldSub, NextRemainder
  <1>4. QED BY <1>1, <1>2, <1>3

-----------------------------------------------------------------------------
\* Powers of two, and the inductive invariant of the division (Wide).

\* Powers of two, never shown to the provers as powers.
Pow(n) == 2 ^ n

\* Each power is twice the one before.
LEMMA PowDoubles ==
  /\ Pow(0) = 1 /\ Half \in Nat \ {0}
  /\ \A n \in 0..(4 * Half) : Pow(n) \in Nat \ {0} /\ Pow(n + 1) = 2 * Pow(n)
  <1>1. Pow(0) = 1
    BY Z3 DEF Pow
  <1>2. \A n \in 0..(4 * Half) : Pow(n) > 0 /\ Pow(n + 1) = 2 * Pow(n)
    BY PowerAssumption, Zenon DEF Pow
  <1>3. ASSUME NEW n \in Nat PROVE Pow(n) \in Int
    BY SMT DEF Pow
  <1>4. Half \in Nat \ {0}
    BY GadgetScaleAssumption
  <1>5. ASSUME NEW n \in 0..(4 * Half) PROVE Pow(n) \in Nat \ {0} /\ Pow(n + 1) = 2 * Pow(n)
    <2>1. n \in Nat
      BY <1>4
    <2>2. Pow(n) \in Int
      BY <1>3, <2>1
    <2>3. Pow(n) > 0
      BY <1>2
    <2>4. QED BY <1>2, <2>2, <2>3
  <1>6. QED BY <1>1, <1>4, <1>5

\* A non-empty set of natural numbers has a least element.
LEMMA LeastElement ==
  ASSUME NEW S, S \subseteq Nat, S # {}
  PROVE  \E t \in S : \A u \in S : t <= u
  <1> DEFINE less == OpToRel(<, Nat)
  <1>1. IsWellFoundedOn(less, Nat)
    BY NatLessThanWellFounded
  <1>2. less = {ss \in Nat \X Nat : ss[1] < ss[2]}
    BY Zenon DEF OpToRel
  <1> HIDE DEF less
  <1>3. PICK t \in S : \A u \in S : <<u, t>> \notin less
    BY <1>1, WFMin
  <1>4. ASSUME NEW u \in S PROVE t <= u
    <2>1. t \in Nat /\ u \in Nat /\ <<u, t>> \notin less
      BY <1>3
    <2>2. ~(u < t)
      BY <1>2, <2>1
    <2>3. QED BY <2>1, <2>2
  <1>5. QED BY <1>3, <1>4

\* Induction over 0..n, on a set.
LEMMA SetInduction ==
  ASSUME NEW n \in Nat, NEW S, 0 \in S, \A k \in 0..(n - 1) : k \in S => k + 1 \in S
  PROVE  \A k \in 0..n : k \in S
  <1> DEFINE Q == (0..n) \ S
  <1> SUFFICES ASSUME Q # {} PROVE FALSE
    OBVIOUS
  <1>1. PICK k \in Q : \A u \in Q : k <= u
    <2>1. Q \subseteq Nat
      OBVIOUS
    <2> HIDE DEF Q
    <2>2. QED BY <2>1, LeastElement
  <1>2. k \in 0..n /\ k \notin S
    OBVIOUS
  <1>3. k - 1 \in 0..(n - 1) /\ k - 1 \in 0..n /\ ~(k <= k - 1)
    BY <1>2
  <1>4. k - 1 \in S
    BY <1>1, <1>3
  <1>5. QED BY <1>2, <1>3, <1>4

\* The power of a sum of exponents.
LEMMA PowSum ==
  ASSUME NEW a \in Nat, NEW b \in Nat, a + b <= 4 * Half
  PROVE  Pow(a + b) = Pow(a) * Pow(b)
  <1> DEFINE S == {k \in 0..b : Pow(a + k) = Pow(a) * Pow(k)}
  <1>1. Half \in Nat /\ a \in 0..(4 * Half) /\ Pow(a) \in Nat
    BY PowDoubles
  <1>2. 0 \in S
    <2>1. a + 0 = a /\ Pow(a) * 1 = Pow(a)
      BY <1>1
    <2>2. QED BY <2>1, PowDoubles
  <1>3. ASSUME NEW k \in 0..(b - 1), k \in S PROVE k + 1 \in S
    <2>1. k \in 0..(4 * Half) /\ a + k \in 0..(4 * Half) /\ a + (k + 1) = (a + k) + 1 /\ k + 1 \in 0..b
      BY <1>1
    <2>2. Pow(k) \in Nat /\ Pow(k + 1) = 2 * Pow(k) /\ Pow((a + k) + 1) = 2 * Pow(a + k)
      BY <2>1, PowDoubles
    <2>3. \A m, n \in Nat : 2 * (m * n) = m * (2 * n)
      BY Z3
    <2>4. Pow(a + k) = Pow(a) * Pow(k)
      BY <1>3
    <2>5. QED BY <1>1, <2>1, <2>2, <2>3, <2>4
  <1> HIDE DEF S
  <1>4. b \in S
    BY <1>2, <1>3, SetInduction
  <1>5. QED BY <1>4 DEF S


\* What the division divides.
Dividend == num_abs * scale + (divisor \div 2)

\* The arguments of a call.
WideArguments ==
  wpc # "idle" =>
    /\ num_abs \in Nat /\ scale \in Nat /\ divisor \in 1..(Word - 1)
    /\ Dividend \in Nat

\* At the top of a turn, the dividend without its last i bits is a multiple of
\* the divisor and the remainder, and the multiple is the quotient so far.
WideDivide ==
  wpc = "divide" =>
    /\ hi \in 0..(divisor - 1) /\ lo \in 0..(Word - 1) /\ hi * Word + lo = Dividend
    /\ i \in 0..(4 * Half) /\ remainder \in 0..(divisor - 1)
    /\ \E k \in Nat :
         /\ quotient = k * Pow(i)
         /\ Dividend \div Pow(i) = k * divisor + remainder
         /\ i >= 2 * Half => k = 0

\* A call that has returned.
WideDone == wpc = "done" => quotient = Dividend \div divisor

\* The inductive invariant of the division.
WideInv ==
  /\ wpc \in {"idle", "divide", "done"} /\ quotient \in 0..(Word - 1)
  /\ WideArguments /\ WideDivide /\ WideDone

\* The word and its half in powers.
LEMMA WordIs ==
  /\ Word = Pow(2 * Half) /\ Word = Pow(Half) * Pow(Half) /\ Word \in Nat \ {0}
  /\ Pow(Half) \in Nat \ {0}
  /\ \E h \in Nat \ {0} : Word = 2 * h
  /\ W!Low = Pow(Half) /\ W!Radix = Word /\ W!Words = 0..(Word - 1)
  <1>1. Half \in Nat \ {0} /\ Half + Half = 2 * Half
    BY PowDoubles
  <1>2. Word = Pow(2 * Half)
    BY GadgetScaleAssumption, Zenon DEF Pow
  <1>3. Pow(Half) \in Nat \ {0}
    BY <1>1, PowDoubles
  <1>4. Pow(2 * Half) = Pow(Half) * Pow(Half)
    <2>1. Half \in Nat /\ Half + Half <= 4 * Half
      BY <1>1
    <2>2. QED BY <1>1, <2>1, PowSum
  <1>5. \E h \in Nat \ {0} : Word = 2 * h
    <2> DEFINE n == 2 * Half - 1
    <2>1. n \in 0..(4 * Half) /\ n + 1 = 2 * Half
      BY <1>1
    <2>2. Pow(n) \in Nat \ {0} /\ Pow(n + 1) = 2 * Pow(n)
      BY <2>1, PowDoubles
    <2>3. QED BY <1>2, <2>1, <2>2
  <1>6. W!Low = Pow(Half) /\ W!Radix = Word
    BY GadgetScaleAssumption, Zenon DEF W!Low, W!Radix, Pow
  <1>7. W!Words = 0..(Word - 1)
    BY <1>6 DEF W!Words
  <1>8. Word \in Nat \ {0}
    BY RnsAssumption
  <1>9. QED BY <1>2, <1>3, <1>4, <1>5, <1>6, <1>7, <1>8

\* The two words of a product.
LEMMA WideningMulExact ==
  ASSUME NEW a \in Nat, NEW b \in Nat
  PROVE  /\ W!WideningMul(a, b).lo \in Nat /\ W!WideningMul(a, b).hi \in Nat
         /\ W!WideningMul(a, b).hi * Word + W!WideningMul(a, b).lo = a * b
  <1> DEFINE base == Pow(Half)
             a0 == a % base   a1 == a \div base   b0 == b % base   b1 == b \div base
             p00 == a0 * b0   p01 == a0 * b1   p10 == a1 * b0   p11 == a1 * b1
             c0 == p00 % base   c1 == p00 \div base   d0 == p01 % base   d1 == p01 \div base
             e0 == p10 % base   e1 == p10 \div base   f0 == p11 % base   f1 == p11 \div base
             mid1 == c1 + d0 + e0
             m0 == mid1 % base   m1 == mid1 \div base
             mid2 == m1 + d1 + e1 + f0
             n0 == mid2 % base   n1 == mid2 \div base
             l == c0 + m0 * base
             h == n0 + (n1 + f1) * base
  <1>1. base \in Nat \ {0} /\ Word = base * base
    BY WordIs
  <1>2. W!WideningMul(a, b) = [lo |-> l, hi |-> h]
    BY WordIs, Zenon DEF W!WideningMul
  <1> HIDE DEF base
  <1>3. \A n \in Nat : n \div base \in Nat /\ n % base \in Nat /\ n = base * (n \div base) + (n % base)
    <2>1. SUFFICES ASSUME NEW n \in Nat
                   PROVE n \div base \in Nat /\ n % base \in Nat /\ n = base * (n \div base) + (n % base)
      OBVIOUS
    <2>2. n \div base \in Nat /\ n % base \in 0..(base - 1) /\ n = base * (n \div base) + (n % base)
      BY <1>1, NatDivMod
    <2>3. n % base \in Nat
      BY <1>1, <2>2
    <2>4. QED BY <2>2, <2>3
  <1>4. a0 \in Nat /\ a1 \in Nat /\ b0 \in Nat /\ b1 \in Nat /\ a = base * a1 + a0 /\ b = base * b1 + b0
    BY <1>3, Zenon
  <1> HIDE DEF a0, a1, b0, b1
  <1>5. p00 \in Nat /\ p01 \in Nat /\ p10 \in Nat /\ p11 \in Nat
    BY <1>4, Z3
  <1> HIDE DEF p00, p01, p10, p11
  <1>6. /\ c0 \in Nat /\ c1 \in Nat /\ d0 \in Nat /\ d1 \in Nat
        /\ e0 \in Nat /\ e1 \in Nat /\ f0 \in Nat /\ f1 \in Nat
        /\ p00 = base * c1 + c0 /\ p01 = base * d1 + d0 /\ p10 = base * e1 + e0 /\ p11 = base * f1 + f0
    BY <1>3, <1>5, Zenon
  <1> HIDE DEF c0, c1, d0, d1, e0, e1, f0, f1
  <1>7. mid1 \in Nat
    BY <1>6
  <1> HIDE DEF mid1
  <1>8. m0 \in Nat /\ m1 \in Nat /\ mid1 = base * m1 + m0
    BY <1>3, <1>7, Zenon
  <1> HIDE DEF m0, m1
  <1>9. mid2 \in Nat
    BY <1>6, <1>8
  <1> HIDE DEF mid2
  <1>10. n0 \in Nat /\ n1 \in Nat /\ mid2 = base * n1 + n0
    BY <1>3, <1>9, Zenon
  <1> HIDE DEF n0, n1
  <1>11. l \in Nat /\ h \in Nat
    BY <1>1, <1>6, <1>8, <1>10, Z3
  <1>12. h * (base * base) + l = a * b
    <2>1. /\ a0 * b0 = base * c1 + c0 /\ a0 * b1 = base * d1 + d0
          /\ a1 * b0 = base * e1 + e0 /\ a1 * b1 = base * f1 + f0
      BY <1>6, Zenon DEF p00, p01, p10, p11
    <2>2. c1 + d0 + e0 = base * m1 + m0 /\ m1 + d1 + e1 + f0 = base * n1 + n0
      BY <1>8, <1>10, Zenon DEF mid1, mid2
    <2>3. QED BY ONLY <1>1, <1>4, <1>6, <1>8, <1>10, <2>1, <2>2, a \in Nat, b \in Nat, LimbsExact
  <1> HIDE DEF l, h
  <1>13. QED BY <1>1, <1>2, <1>11, <1>12

\* A call of round_mul_div_u128 on a magnitude of a coefficient centred modulo
\* d: its quotient fits, and the division starts below its divisor.
LEMMA RoundMulDivKeeps ==
  ASSUME NEW d \in 1..(Word - 1), NEW k \in 0..(Word - 1), NEW n \in 0..(d \div 2),
         W!RoundMulDiv(n, k, d)
  PROVE  WideInv'
  <1> DEFINE pl == W!WideningMul(n, k).lo
             ph == W!WideningMul(n, k).hi
             half == d \div 2
             sum == pl + half
             v == sum % Word
             w == sum \div Word
             h == ph + w
             nk == n * k
             total == nk + half
  <1>1. Word \in Nat \ {0} /\ d \in Nat \ {0} /\ k \in Nat /\ d < Word
    BY WordIs
  <1>2. half \in Nat /\ half < d /\ n \in Nat /\ n <= half
    BY <1>1
  <1>3. pl \in Nat /\ ph \in Nat /\ ph * Word + pl = nk
    BY <1>1, <1>2, WideningMulExact
  <1>4. nk \in Nat
    BY <1>1, <1>2, Z3
  <1> HIDE DEF pl, ph, half
  <1>5. sum \in Nat
    BY <1>2, <1>3
  <1> HIDE DEF sum
  <1>6. v \in 0..(Word - 1) /\ w \in Nat /\ sum = Word * w + v
    BY <1>1, <1>5, NatDivMod
  <1>7. /\ num_abs' = n /\ scale' = k /\ divisor' = d /\ lo' = v /\ hi' = h
        /\ (hi' = 0 => wpc' = "done" /\ quotient' = lo' \div d)
        /\ (hi' # 0 /\ hi' >= d => wpc' = "panic" /\ quotient' = 0)
        /\ (hi' # 0 /\ ~(hi' >= d) => wpc' = "divide" /\ quotient' = 0)
        /\ i' = 4 * Half /\ remainder' = 0
    <2>1. W!Radix = Word
      BY WordIs
    <2>2. \/ hi' = 0 /\ ~(hi' # 0 /\ hi' >= d) /\ wpc' = "done" /\ quotient' = lo' \div d
          \/ hi' # 0 /\ hi' >= d /\ wpc' = "panic" /\ quotient' = 0
          \/ hi' # 0 /\ ~(hi' >= d) /\ wpc' = "divide" /\ quotient' = 0
      BY DEF W!RoundMulDiv
    <2>3. /\ num_abs' = n /\ scale' = k /\ divisor' = d
          /\ lo' = (pl + (d \div 2)) % W!Radix
          /\ hi' = ph + ((pl + (d \div 2)) \div W!Radix)
          /\ i' = 4 * Half /\ remainder' = 0
      BY Zenon DEF W!RoundMulDiv, pl, ph
    <2>4. lo' = v /\ hi' = h
      BY <2>1, <2>3, Zenon DEF sum, half
    <2>5. QED BY <2>2, <2>3, <2>4
  <1> HIDE DEF v, w
  <1>8. h \in Nat
    BY <1>3, <1>6
  <1>9. h * Word + v = total
    <2>1. (ph + w) * Word = ph * Word + Word * w /\ ph * Word \in Nat /\ Word * w \in Nat
      BY <1>1, <1>3, <1>6, Z3
    <2>2. QED BY <1>2, <1>3, <1>4, <1>5, <1>6, <2>1 DEF sum
  <1>10. h <= half
    <2>1. SUFFICES ASSUME h >= half + 1 PROVE FALSE
      BY <1>2, <1>8
    <2>2. nk <= half * (Word - 1)
      BY <1>1, <1>2, Z3
    <2>3. half * (Word - 1) = half * Word - half /\ half * Word \in Nat
      BY <1>1, <1>2, Z3
    <2>4. h * Word >= (half + 1) * Word /\ h * Word \in Nat
      BY <1>1, <1>2, <1>8, <2>1, Z3
    <2>5. (half + 1) * Word = half * Word + Word
      BY <1>1, <1>2, Z3
    <2> DEFINE e == half * Word
               f == h * Word
    <2>6. nk <= e - half /\ e \in Nat /\ f >= e + Word /\ f \in Nat /\ f + v = nk + half
      BY <1>9, <2>2, <2>3, <2>4, <2>5
    <2> HIDE DEF e, f, nk
    <2>7. QED BY <1>1, <1>2, <1>4, <1>6, <2>6
  <1>11. Dividend' = total
    BY <1>7 DEF Dividend, half
  <1>12. total \in Nat
    BY <1>2, <1>4
  <1>13. WideArguments'
    BY <1>1, <1>2, <1>7, <1>11, <1>12 DEF WideArguments
  <1> HIDE DEF h, total, nk
  <1>14. CASE h = 0
    <2>1. wpc' = "done" /\ quotient' = v \div d
      BY <1>7, <1>14
    <2>2. v = total
      BY <1>1, <1>6, <1>9, <1>14
    <2>3. quotient' = Dividend' \div divisor'
      BY <1>7, <1>11, <2>1, <2>2
    <2>4. v \div d \in 0..(Word - 1)
      <3> DEFINE q == v \div d
                 m == v % d
      <3>1. v \in Nat
        BY <1>1, <1>6
      <3>2. q \in Nat /\ m \in 0..(d - 1) /\ v = d * q + m
        BY <1>1, <3>1, NatDivMod
      <3> HIDE DEF q, m
      <3>3. d * q >= q
        BY <1>1, <3>2, Z3
      <3>4. d * q \in Nat
        BY <1>1, <3>2, Z3
      <3>5. q \in 0..(Word - 1)
        BY <1>1, <1>6, <3>2, <3>3, <3>4
      <3>6. QED BY <3>5 DEF q
    <2>5. quotient' \in 0..(Word' - 1)
      BY <2>1, <2>4
    <2>6. QED BY <1>13, <2>1, <2>3, <2>5 DEF WideInv, WideDivide, WideDone
  <1>15. CASE h # 0
    <2>1. wpc' = "divide" /\ quotient' = 0
      BY <1>1, <1>2, <1>7, <1>8, <1>10, <1>15
    <2>2. hi' \in 0..(divisor' - 1) /\ lo' \in 0..(Word - 1) /\ hi' * Word + lo' = Dividend'
      BY <1>1, <1>2, <1>6, <1>7, <1>8, <1>9, <1>10, <1>11
    <2>3. i' \in 0..(4 * Half) /\ remainder' \in 0..(divisor' - 1)
      BY <1>1, <1>7, PowDoubles
    <2>4. Dividend' \div Pow(i') = 0 * divisor' + remainder' /\ quotient' = 0 * Pow(i')
      <3>1. 2 * Half \in Nat /\ 2 * Half + 2 * Half = 4 * Half /\ 2 * Half + 2 * Half <= 4 * Half
        BY PowDoubles
      <3>2. Pow(4 * Half) = Word * Word
        BY <3>1, WordIs, PowSum
      <3> DEFINE ww == Word * Word
      <3>3. ww \in Nat \ {0}
        BY <1>1, Z3
      <3>4. total \in 0..(ww - 1)
        <4>1. h * Word <= (Word - 1) * Word /\ h * Word \in Nat
          BY <1>1, <1>2, <1>8, <1>10, Z3
        <4>2. (Word - 1) * Word = ww - Word
          BY <1>1, Z3
        <4> HIDE DEF ww
        <4>3. QED BY <1>1, <1>6, <1>9, <1>12, <3>3, <4>1, <4>2
      <3> HIDE DEF ww
      <3>5. total = ww * 0 + total /\ total \in Int /\ 0 \in Int
        BY <1>12, <3>3
      <3>6. total \div ww = 0
        BY <3>3, <3>4, <3>5, DivModUnique
      <3>7. Pow(i') = ww
        BY <1>7, <3>2 DEF ww
      <3>8. Dividend' \div Pow(i') = 0
        BY <1>11, <3>6, <3>7
      <3>9. 0 * divisor' + remainder' = 0 /\ 0 * Pow(i') = 0
        BY <1>1, <1>7, <3>3, <3>7
      <3>10. QED BY <2>1, <3>8, <3>9
    <2>5. WideDivide'
      BY <2>2, <2>3, <2>4 DEF WideDivide, Dividend, Pow
    <2>6. quotient' \in 0..(Word - 1)
      BY <1>1, <2>1
    <2>7. QED BY <1>13, <2>1, <2>5, <2>6 DEF WideInv, WideDone
  <1>16. QED BY <1>14, <1>15

\* Bit `at` of the dividend, from the word that holds it.
BitAt(at) ==
  IF at >= 2 * Half THEN (hi \div Pow(at - 2 * Half)) % 2 ELSE (lo \div Pow(at)) % 2

\* It is the dividend's.
LEMMA BitExact ==
  ASSUME NEW at \in 0..(4 * Half - 1), hi \in Nat, lo \in 0..(Word - 1),
         NEW n \in Nat, n = hi * Word + lo
  PROVE  /\ BitAt(at) = (n \div Pow(at)) % 2
         /\ at >= 2 * Half => n \div Pow(at) <= hi
  <1>1. Half \in Nat \ {0} /\ at \in Nat /\ Word \in Nat \ {0} /\ Word = Pow(2 * Half)
    <2>1. Half \in Nat \ {0}
      BY PowDoubles
    <2>2. Word \in Nat \ {0} /\ Word = Pow(2 * Half)
      BY WordIs
    <2>3. QED BY <2>1, <2>2
  <1>2. CASE at >= 2 * Half
    <2> DEFINE k == at - 2 * Half
               p == Pow(k)
    <2>1. k \in 0..(4 * Half) /\ 2 * Half + k = at /\ k \in Nat /\ 2 * Half \in Nat /\ 2 * Half + k <= 4 * Half
      BY <1>1, <1>2
    <2>2. p \in Nat \ {0}
      BY <2>1, PowDoubles
    <2>3. Pow(2 * Half + k) = Pow(2 * Half) * Pow(k)
      BY <2>1, PowSum
    <2>4. Pow(at) = Word * p
      BY <1>1, <2>1, <2>3
    <2> HIDE DEF k, p
    <2>5. n \div Pow(at) = hi \div p
      <3>1. (hi * Word + lo) \div (Word * p) = hi \div p
        <4>1. SameQuotient(hi * Word + lo, Word * p, hi, p)
          BY <1>1, <2>2, HighQuotient
        <4>2. QED BY <4>1, Zenon DEF SameQuotient
      <3>2. QED BY <2>4, <3>1, Zenon
    <2>6. BitAt(at) = (hi \div p) % 2
      BY <1>2, Zenon DEF BitAt, k, p
    <2>7. hi \div p <= hi
      <3> DEFINE u == hi \div p
                 v == hi % p
      <3>1. u \in Nat /\ v \in 0..(p - 1) /\ hi = p * u + v
        BY <2>2, NatDivMod, Zenon
      <3> HIDE DEF u, v
      <3>2. p * u >= u /\ p * u \in Nat
        BY <2>2, <3>1, Z3
      <3>3. u <= hi
        BY <2>2, <3>1, <3>2
      <3>4. QED BY <3>3 DEF u
    <2>8. QED BY <2>5, <2>6, <2>7, Zenon
  <1>3. CASE ~(at >= 2 * Half)
    <2> DEFINE k == 2 * Half - at - 1
               p == Pow(at)
               kk == Pow(k)
    <2>1. k \in 0..(4 * Half) /\ k \in Nat /\ at + 1 \in Nat /\ (at + 1) + k = 2 * Half /\ (at + 1) + k <= 4 * Half
          /\ at \in 0..(4 * Half)
      BY <1>1, <1>3
    <2>2. p \in Nat \ {0} /\ kk \in Nat /\ Pow(at + 1) = 2 * p
      BY <2>1, PowDoubles
    <2>3. Pow((at + 1) + k) = Pow(at + 1) * Pow(k)
      BY <2>1, PowSum
    <2>4. Word = (2 * p) * kk
      BY <1>1, <2>1, <2>2, <2>3
    <2> HIDE DEF k, p, kk
    <2>5. lo \in Nat
      BY <1>1
    <2>6. ((hi * Word + lo) \div p) % 2 = (lo \div p) % 2
      <3>1. SameBit(hi * Word + lo, lo, p)
        BY <1>1, <2>2, <2>4, <2>5, LowBit
      <3>2. QED BY <3>1, Zenon DEF SameBit
    <2>7. BitAt(at) = (lo \div p) % 2
      BY <1>3, Zenon DEF BitAt, p
    <2>8. BitAt(at) = (n \div Pow(at)) % 2
      BY <2>6, <2>7, Zenon DEF p
    <2>9. QED BY <1>3, <2>8
  <1>4. QED BY <1>2, <1>3

\* One turn of the long division.
LEMMA DivideKeeps ==
  ASSUME WideInv, W!Divide
  PROVE  WideInv'
  <1> DEFINE at == i - 1
             p == Pow(at)
             n == Dividend
             bit == BitAt(at)
             sub == ShouldSub(remainder, bit, divisor, Word)
             next == NextRemainder(remainder, bit, divisor, Word)
  <1>1. /\ wpc = "divide" /\ i > 0 /\ i' = at
        /\ remainder' = next
        /\ quotient' = (IF sub /\ at < 2 * Half THEN quotient + p ELSE quotient)
        /\ UNCHANGED <<wpc, num_abs, scale, divisor, hi, lo>>
    <2>1. W!Radix = Word
      BY WordIs
    <2>2. QED BY <2>1, Zenon DEF W!Divide, BitAt, Pow, ShouldSub, NextRemainder
  <1>2. /\ Half \in Nat \ {0} /\ Word \in Nat \ {0} /\ i \in 0..(4 * Half)
        /\ divisor \in 1..(Word - 1) /\ remainder \in 0..(divisor - 1) /\ n \in Nat
        /\ hi \in 0..(divisor - 1) /\ lo \in 0..(Word - 1) /\ n = hi * Word + lo
    BY <1>1, PowDoubles, WordIs DEF WideInv, WideArguments, WideDivide
  <1>3. PICK k \in Nat :
          /\ quotient = k * Pow(i)
          /\ n \div Pow(i) = k * divisor + remainder
          /\ i >= 2 * Half => k = 0
    BY <1>1 DEF WideInv, WideDivide
  <1> DEFINE b == (n \div p) % 2
             m == n \div p
             t == 2 * remainder + bit
             k1 == 2 * k + (IF sub THEN 1 ELSE 0)
  <1> HIDE DEF n
  <1>4. at \in 0..(4 * Half - 1) /\ at \in 0..(4 * Half) /\ at + 1 = i /\ at \in Nat
    BY <1>1, <1>2
  <1>5. p \in Nat \ {0} /\ Pow(i) = 2 * p
    <2>1. Pow(at) \in Nat \ {0} /\ Pow(at + 1) = 2 * Pow(at)
      BY <1>4, PowDoubles
    <2>2. QED BY <1>4, <2>1
  <1>6. bit = b /\ (at >= 2 * Half => m <= hi)
    <2>1. hi \in Nat
      BY <1>2
    <2>2. QED BY <1>2, <1>4, <2>1, BitExact, Zenon
  <1>7. b \in {0, 1} /\ m = 2 * (n \div Pow(i)) + b /\ n \div Pow(i) \in Nat
    <2>1. n \div (2 * p) \in Nat /\ b \in {0, 1} /\ m = 2 * (n \div (2 * p)) + b
      BY <1>2, <1>5, HalveQuotient, Zenon
    <2>2. QED BY <1>5, <2>1
  <1> HIDE DEF bit, p
  <1>8. /\ sub <=> t >= divisor
        /\ next = IF sub THEN t - divisor ELSE t
        /\ next \in 0..(divisor - 1)
    <2>1. PICK half \in Nat \ {0} : Word = 2 * half
      BY WordIs
    <2>2. Word \in Nat /\ bit \in {0, 1}
      BY <1>2, <1>6, <1>7
    <2>3. QED BY <1>2, <2>1, <2>2, TurnExact
  <1> HIDE DEF b, m
  <1>9. bit \in {0, 1} /\ m \in Nat
    BY <1>6, <1>7
  <1> HIDE DEF sub, next
  <1>10. m = k1 * divisor + next /\ k1 \in Nat
    <2>1. m = 2 * (k * divisor + remainder) + bit
      BY <1>3, <1>6, <1>7
    <2>2. k * divisor \in Nat
      BY <1>2, <1>3, Z3
    <2>3. k1 \in Nat
      BY <1>3
    <2>4. k1 * divisor = 2 * (k * divisor) + (IF sub THEN divisor ELSE 0)
      <3>1. (2 * k + 1) * divisor = 2 * (k * divisor) + divisor /\ (2 * k + 0) * divisor = 2 * (k * divisor)
        BY <1>2, <1>3, Z3
      <3>2. CASE sub
        <4>1. k1 = 2 * k + 1
          BY <3>2
        <4>2. QED BY <3>1, <3>2, <4>1
      <3>3. CASE ~sub
        <4>1. k1 = 2 * k + 0
          BY <3>3
        <4>2. 2 * (k * divisor) + 0 = 2 * (k * divisor)
          BY <2>2
        <4>3. QED BY <3>1, <3>3, <4>1, <4>2
      <3>4. QED BY <3>2, <3>3
    <2> DEFINE kd == k * divisor
               kk == k1 * divisor
    <2>5. m = 2 * (kd + remainder) + bit /\ kd \in Nat /\ kk = 2 * kd + (IF sub THEN divisor ELSE 0)
      BY <2>1, <2>2, <2>4
    <2> HIDE DEF kd, kk
    <2>6. m = kk + next
      BY <1>2, <1>8, <1>9, <2>5
    <2>7. QED BY <2>3, <2>6 DEF kk
  <1>11. at >= 2 * Half => k1 = 0 /\ ~sub
    <2>1. SUFFICES ASSUME at >= 2 * Half PROVE k1 = 0 /\ ~sub
      OBVIOUS
    <2>2. i >= 2 * Half
      BY <1>2, <1>4, <2>1
    <2>3. k = 0
      BY <1>3, <2>2
    <2>4. m < divisor
      BY <1>2, <1>6, <1>9, <2>1 DEF m, b
    <2>5. k1 # 1
      <3>1. SUFFICES ASSUME k1 = 1 PROVE FALSE
        OBVIOUS
      <3>2. m = 1 * divisor + next
        BY <1>10, <3>1
      <3>3. QED BY <1>2, <1>8, <2>4, <3>2
    <2>6. QED BY <2>3, <2>5
  <1>12. quotient' = k1 * p
    <2>1. k * (2 * p) = (2 * k) * p /\ (2 * k + 1) * p = (2 * k) * p + p /\ (2 * k) * p \in Nat
      BY <1>3, <1>5, Z3
    <2>2. quotient = (2 * k) * p
      BY <1>3, <1>5, <2>1
    <2>3. CASE sub /\ at < 2 * Half
      <3>1. quotient' = (2 * k) * p + p
        BY <1>1, <2>2, <2>3
      <3>2. k1 = 2 * k + 1
        BY <2>3
      <3>3. QED BY <2>1, <3>1, <3>2
    <2>4. CASE ~(sub /\ at < 2 * Half)
      <3>1. ~sub
        BY <1>2, <1>4, <1>11, <2>4
      <3>2. quotient' = (2 * k) * p
        BY <1>1, <2>2, <3>1
      <3>3. k1 = 2 * k
        BY <1>3, <3>1
      <3>4. QED BY <3>2, <3>3
    <2>5. QED BY <2>3, <2>4
  <1> HIDE DEF k1
  <1>13. quotient' \in 0..(Word - 1)
    <2> DEFINE q == k1 * p
               kd == k1 * divisor
    <2>1. q \in Nat /\ kd \in Nat
      BY <1>2, <1>5, <1>10, Z3
    <2>2. p * m <= n /\ p * m \in Nat
      <3> DEFINE rest == n % p
      <3>1. rest \in 0..(p - 1) /\ n = p * m + rest
        BY <1>2, <1>5, NatDivMod, Zenon DEF m
      <3> HIDE DEF rest
      <3>2. p * m \in Nat
        BY <1>5, <1>9, Z3
      <3>3. QED BY <1>2, <1>5, <3>1, <3>2
    <2>3. q * divisor <= p * m
      <3>1. q * divisor = p * kd
        BY <1>2, <1>5, <1>10, Z3
      <3>2. kd <= m
        BY <1>2, <1>8, <1>9, <1>10, <2>1
      <3> HIDE DEF kd, q
      <3>3. p * kd <= p * m
        BY <1>5, <1>9, <2>1, <3>2, Z3
      <3>4. QED BY <3>1, <3>3
    <2>4. n < divisor * Word
      <3>1. hi * Word <= (divisor - 1) * Word /\ hi * Word \in Nat
        BY <1>2, Z3
      <3>2. (divisor - 1) * Word = divisor * Word - Word /\ divisor * Word \in Nat
        BY <1>2, Z3
      <3>3. QED BY <1>2, <3>1, <3>2
    <2> HIDE DEF q, kd
    <2>5. q < Word
      <3>1. SUFFICES ASSUME q >= Word PROVE FALSE
        BY <1>2, <2>1
      <3>2. q * divisor >= divisor * Word /\ q * divisor \in Nat /\ divisor * Word \in Nat
        BY <1>2, <2>1, <3>1, Z3
      <3>3. QED BY <1>2, <2>2, <2>3, <2>4, <3>2
    <2>6. quotient' = q
      BY <1>12 DEF q
    <2>7. QED BY <1>2, <2>1, <2>5, <2>6
  <1>14. UNCHANGED Dividend
    BY <1>1 DEF Dividend
  <1>15. WideDivide'
    <2>1. quotient' = k1 * Pow(i') /\ Dividend' \div Pow(i') = k1 * divisor' + remainder'
      BY <1>1, <1>10, <1>12, <1>14 DEF m, p, n
    <2>2. i' >= 2 * Half => k1 = 0
      BY <1>1, <1>11
    <2>3. \E j \in Nat : /\ quotient' = j * Pow(i')
                         /\ Dividend' \div Pow(i') = j * divisor' + remainder'
                         /\ i' >= 2 * Half => j = 0
      BY <1>10, <2>1, <2>2
    <2>4. hi' \in 0..(divisor' - 1) /\ lo' \in 0..(Word - 1) /\ hi' * Word + lo' = Dividend'
          /\ i' \in 0..(4 * Half) /\ remainder' \in 0..(divisor' - 1)
      BY <1>1, <1>2, <1>4, <1>8, <1>14 DEF n
    <2>5. QED BY <2>3, <2>4, Zenon DEF WideDivide, Pow
  <1>16. WideArguments'
    BY <1>1, <1>14 DEF WideInv, WideArguments
  <1>17. QED BY <1>1, <1>13, <1>15, <1>16 DEF WideInv, WideDone

\* The end of the division.
LEMMA FinishKeeps ==
  ASSUME WideInv, W!Finish
  PROVE  WideInv'
  <1>1. wpc = "divide" /\ i = 0 /\ wpc' = "done"
        /\ UNCHANGED <<num_abs, scale, divisor, hi, lo, i, remainder, quotient>>
    BY DEF W!Finish
  <1>2. UNCHANGED Dividend
    BY <1>1 DEF Dividend
  <1> DEFINE n == Dividend
  <1>3. PICK k \in Nat : quotient = k * Pow(0) /\ n \div Pow(0) = k * divisor + remainder
    BY <1>1 DEF WideInv, WideDivide
  <1>4. /\ Word \in Nat \ {0} /\ divisor \in 1..(Word - 1)
        /\ remainder \in 0..(divisor - 1) /\ n \in Nat /\ Pow(0) = 1
    BY <1>1, PowDoubles, WordIs DEF WideInv, WideArguments, WideDivide
  <1>5. n = divisor * k + remainder /\ quotient = k
    <2>1. n \div 1 = n
      BY <1>4
    <2>2. k * divisor = divisor * k /\ k * 1 = k
      BY <1>3, <1>4, Z3
    <2>3. QED BY <1>3, <1>4, <2>1, <2>2
  <1> HIDE DEF n
  <1>6. n \div divisor = k
    <2>1. n \in Int /\ k \in Int /\ divisor \in Nat \ {0}
      BY <1>3, <1>4
    <2>2. QED BY <1>4, <1>5, <2>1, DivModUnique, Zenon
  <1>7. quotient = Dividend \div divisor
    BY <1>5, <1>6 DEF n
  <1>8. WideDone'
    BY <1>1, <1>2, <1>7 DEF WideDone
  <1>9. QED BY <1>1, <1>2, <1>8 DEF WideInv, WideArguments, WideDivide

\* The division keeps its invariant while it is not called.
LEMMA WideStays ==
  ASSUME WideInv, UNCHANGED wideVars
  PROVE  WideInv'
  BY DEF wideVars, WideInv, WideArguments, WideDivide, WideDone, Dividend, Pow

-----------------------------------------------------------------------------
\* The scaling, and the theorems.

\* While a coefficient is scaled, it stays in its pair of residues.
LinkInv ==
  wpc # "idle" /\ pc = "result" => num_abs = Abs(Coefficient) /\ divisor = BigQ

\* The inductive invariant of the scaling.
ScaleInv == RnsInv /\ WideInv /\ LinkInv

\* The centred coefficient: the representative of the exact result nearest to
\* zero.
LEMMA CoefficientNearest ==
  ASSUME RnsInv, pc = "result"
  PROVE  /\ Coefficient \in Int /\ -BigQ < 2 * Coefficient /\ 2 * Coefficient <= BigQ
         /\ (Coefficient - Product) % BigQ = 0
         /\ Abs(Coefficient) \in 0..(BigQ \div 2)
         /\ BigQ \in 1..(Word - 1)
  <1> DEFINE n == BigQ
             e == Product
             v == e % n
             k == e \div n
             half == n \div 2
             c == IF v <= half THEN v ELSE v - n
  <1>1. n \in Nat /\ n >= 4 /\ 2 * n <= Word /\ e \in Int /\ Reconstruct(pair) = v
    BY ResultIs
  <1>2. Coefficient = c
    BY <1>1 DEF Coefficient, Centered
  <1> HIDE DEF n, e
  <1>3. k \in Int /\ v \in 0..(n - 1) /\ e = n * k + v
    <2>1. n \in Nat \ {0}
      BY <1>1
    <2>2. QED BY <1>1, <2>1, IntDivMod, Zenon
  <1>4. half \in Nat /\ (n = 2 * half \/ n = 2 * half + 1)
    BY <1>1
  <1>5. Word \in Nat
    BY WordIs
  <1> HIDE DEF v, k, half
  <1>6. c \in Int /\ -n < 2 * c /\ 2 * c <= n /\ Abs(c) \in 0..half /\ n \in 1..(Word - 1)
    BY <1>1, <1>3, <1>4, <1>5 DEF Abs
  <1>7. (c - e) % n = 0
    <2>1. n * (-k) = -(n * k) /\ n * (-k - 1) = -(n * k) - n /\ n * k \in Int
      BY <1>1, <1>3, Z3
    <2>2. c - e \in Int /\ n \in Nat \ {0} /\ -k \in Int /\ -k - 1 \in Int /\ 0 \in 0..(n - 1)
      BY <1>1, <1>3, <1>6
    <2>3. CASE v <= half
      <3>1. c - e = n * (-k) + 0
        BY <1>3, <2>1, <2>3
      <3> HIDE DEF c
      <3>2. QED BY <2>2, <3>1, DivModUnique
    <2>4. CASE ~(v <= half)
      <3>1. c - e = n * (-k - 1) + 0
        BY <1>1, <1>3, <2>1, <2>4
      <3> HIDE DEF c
      <3>2. QED BY <2>2, <3>1, DivModUnique
    <2>5. QED BY <2>3, <2>4
  <1> HIDE DEF c
  <1>8. QED BY <1>2, <1>6, <1>7 DEF n, half, e

\* The invariant holds initially.
LEMMA ScaleInitially == ScaleInit => ScaleInv
  <1>1. SUFFICES ASSUME ScaleInit PROVE ScaleInv
    OBVIOUS
  <1>2. RnsInv
    BY <1>1, RnsInitially DEF ScaleInit
  <1>3. wpc = "idle" /\ quotient = 0
    BY <1>1 DEF ScaleInit, W!Init
  <1>4. 0 \in 0..(Word - 1)
    BY WordIs
  <1>5. WideInv /\ LinkInv
    BY <1>3, <1>4 DEF WideInv, WideArguments, WideDivide, WideDone, LinkInv
  <1>6. QED BY <1>2, <1>5 DEF ScaleInv

\* Every step keeps it.
LEMMA ScaleStep == ScaleInv /\ [ScaleNext]_<<vars, wideVars>> => ScaleInv'
  <1>1. SUFFICES ASSUME ScaleInv, [ScaleNext]_<<vars, wideVars>> PROVE ScaleInv'
    OBVIOUS
  <1>2. RnsInv /\ WideInv /\ LinkInv
    BY <1>1 DEF ScaleInv
  <1>3. CASE wpc = "idle" /\ Residues
    <2>1. RnsInv'
      BY <1>2, <1>3, RnsStep DEF Residues
    <2>2. WideInv'
      BY <1>2, <1>3, WideStays DEF Residues
    <2>3. wpc' = "idle"
      BY <1>3 DEF Residues, wideVars
    <2>4. QED BY <2>1, <2>2, <2>3 DEF ScaleInv, LinkInv
  <1>4. CASE ScaleCoefficient
    <2>1. PICK k \in Scales : W!RoundMulDiv(Abs(Coefficient), k, BigQ)
      BY <1>4 DEF ScaleCoefficient
    <2>2. pc = "result" /\ UNCHANGED vars
      BY <1>4 DEF ScaleCoefficient
    <2>3. Abs(Coefficient) \in 0..(BigQ \div 2) /\ BigQ \in 1..(Word - 1) /\ k \in 0..(Word - 1)
      BY <1>2, <2>2, CoefficientNearest, GadgetScaleAssumption
    <2>4. WideInv'
      BY <2>1, <2>3, RoundMulDivKeeps
    <2>5. RnsInv'
      BY <1>2, <2>2, RnsStep
    <2>6. num_abs' = Abs(Coefficient) /\ divisor' = BigQ
      BY <2>1, Zenon DEF W!RoundMulDiv
    <2>7. Coefficient' = Coefficient /\ BigQ' = BigQ
      BY <2>2 DEF vars, Coefficient, Centered, Reconstruct, BigQ
    <2>8. Abs(Coefficient)' = Abs(Coefficient)
      BY <2>7 DEF Abs
    <2>9. LinkInv'
      BY <2>6, <2>7, <2>8 DEF LinkInv
    <2>10. QED BY <2>4, <2>5, <2>9 DEF ScaleInv
  <1>5. CASE Bare
    <2>1. PICK d \in Divisors, k \in Scales : \E n \in W!Magnitudes(d) : W!RoundMulDiv(n, k, d)
      BY <1>5 DEF Bare
    <2>2. PICK n \in W!Magnitudes(d) : W!RoundMulDiv(n, k, d)
      BY <2>1
    <2>3. n \in 0..(d \div 2) /\ d \in 1..(Word - 1) /\ k \in 0..(Word - 1)
      BY GadgetScaleAssumption DEF W!Magnitudes
    <2>4. WideInv'
      BY <2>2, <2>3, RoundMulDivKeeps
    <2>5. pc = "idle" /\ UNCHANGED vars
      BY <1>5 DEF Bare
    <2>6. RnsInv' /\ pc' = "idle"
      BY <1>2, <2>5, RnsStep DEF vars
    <2>7. QED BY <2>4, <2>6 DEF ScaleInv, LinkInv
  <1>6. CASE Divide
    <2>1. UNCHANGED vars /\ wpc = "divide" /\ UNCHANGED <<num_abs, divisor>>
      BY <1>6 DEF Divide, W!Divide, W!Finish
    <2>2. WideInv'
      BY <1>2, <1>6, DivideKeeps, FinishKeeps DEF Divide
    <2>3. RnsInv'
      BY <1>2, <2>1, RnsStep
    <2>4. LinkInv'
      BY <1>2, <2>1 DEF LinkInv, vars, Coefficient, Centered, Reconstruct, BigQ, Abs
    <2>5. QED BY <2>2, <2>3, <2>4 DEF ScaleInv
  <1>7. CASE UNCHANGED <<vars, wideVars>>
    <2>1. UNCHANGED vars /\ UNCHANGED wideVars
      BY <1>7
    <2>2. WideInv'
      BY <1>2, <2>1, WideStays
    <2>3. RnsInv'
      BY <1>2, <2>1, RnsStep
    <2>4. LinkInv'
      BY <1>2, <2>1 DEF LinkInv, vars, wideVars, Coefficient, Centered, Reconstruct, BigQ, Abs
    <2>5. QED BY <2>2, <2>3, <2>4 DEF ScaleInv
  <1>8. QED BY <1>1, <1>3, <1>4, <1>5, <1>6, <1>7 DEF ScaleNext

\* It always holds.
LEMMA ScaleSpecInv == ScaleSpec => []ScaleInv
  BY ScaleInitially, ScaleStep, PTL DEF ScaleSpec

\* The invariant implies the exactness of the division.
LEMMA ScaleInvRounded == ScaleInv => RoundedExactly
  <1>1. SUFFICES ASSUME ScaleInv PROVE RoundedExactly
    OBVIOUS
  <1>2. WideInv
    BY <1>1 DEF ScaleInv
  <1>3. W!Radix = Word /\ W!Words = 0..(Word - 1)
    BY WordIs
  <1>4. W!DivisionExact
    <2>1. SUFFICES ASSUME wpc = "divide"
                   PROVE /\ remainder < divisor
                         /\ (hi * Word + lo) \div Pow(i) = (quotient \div Pow(i)) * divisor + remainder
                         /\ quotient % Pow(i) = 0
      BY <1>3, Zenon DEF W!DivisionExact, Pow
    <2>2. /\ hi * Word + lo = Dividend /\ i \in 0..(4 * Half)
          /\ divisor \in 1..(Word - 1) /\ remainder \in 0..(divisor - 1)
      BY <1>2, <2>1 DEF WideInv, WideArguments, WideDivide
    <2>3. PICK k \in Nat : quotient = k * Pow(i) /\ Dividend \div Pow(i) = k * divisor + remainder
      BY <1>2, <2>1 DEF WideInv, WideDivide
    <2> DEFINE p == Pow(i)
    <2>4. p \in Nat \ {0} /\ quotient \in Int
      <3>1. Pow(i) \in Nat \ {0}
        BY <2>2, PowDoubles
      <3>2. quotient \in Int
        BY <1>2 DEF WideInv
      <3>3. QED BY <3>1, <3>2
    <2>5. quotient = k * p
      BY <2>3
    <2> HIDE DEF p
    <2>6. quotient = p * k + 0 /\ k \in Int /\ 0 \in 0..(p - 1)
      <3>1. k * p = p * k /\ p * k \in Int
        BY <2>4, Z3
      <3>2. QED BY <2>4, <2>5, <3>1
    <2>7. quotient \div p = k /\ quotient % p = 0
      BY <2>4, <2>6, DivModUnique, Zenon
    <2>8. remainder < divisor
      BY <2>2
    <2>9. QED BY <2>2, <2>3, <2>7, <2>8 DEF p
  <1>5. wpc # "panic" /\ quotient \in W!Words
    BY <1>2, <1>3 DEF WideInv
  <1>6. wpc = "done" => quotient = (num_abs * scale + (divisor \div 2)) \div divisor
    BY <1>2, Zenon DEF WideInv, WideDone, Dividend
  <1>7. QED BY <1>4, <1>5, <1>6, Zenon DEF RoundedExactly, W!RoundedExactly

\* Rounding half up.
LEMMA RoundsNearest ==
  ASSUME NEW a \in Nat, NEW n \in Nat \ {0}, NEW q \in Nat, q = (a + (n \div 2)) \div n
  PROVE  -n < 2 * (n * q - a) /\ 2 * (n * q - a) <= n /\ n * q \in Nat
  <1> DEFINE half == n \div 2
             t == a + half
             m == t % n
             nq == n * q
  <1>1. half \in Nat /\ (n = 2 * half \/ n = 2 * half + 1)
    OBVIOUS
  <1>2. t \in Nat
    BY <1>1
  <1>3. m \in 0..(n - 1) /\ t = n * (t \div n) + m
    BY <1>2, NatDivMod
  <1>4. nq \in Nat
    BY Z3
  <1>5. t = nq + m
    BY <1>3
  <1> HIDE DEF m, nq
  <1>6. a + half = nq + m
    BY <1>5
  <1> HIDE DEF half, t
  <1>7. -n < 2 * (nq - a) /\ 2 * (nq - a) <= n
    BY <1>1, <1>3, <1>4, <1>6
  <1>8. QED BY <1>4, <1>7 DEF nq

\* The invariant implies that the scaling rounds to the nearest.
LEMMA ScaleInvNearest == ScaleInv => ScaledNearest
  <1>1. SUFFICES ASSUME ScaleInv, pc = "result", wpc = "done" PROVE ScaledNearest
    BY DEF ScaledNearest
  <1> DEFINE c == Coefficient
             n == BigQ
             a == num_abs * scale
             nq == n * quotient
  <1>2. /\ c \in Int /\ -n < 2 * c /\ 2 * c <= n /\ (c - Product) % n = 0
        /\ n \in 1..(Word - 1) /\ Abs(c) \in 0..(n \div 2) /\ Word \in Nat
    BY <1>1, CoefficientNearest, WordIs DEF ScaleInv
  <1>3. num_abs = Abs(c) /\ divisor = n /\ scale \in Nat /\ quotient \in 0..(Word - 1)
        /\ num_abs \in Nat /\ quotient = Dividend \div divisor
    BY <1>1 DEF ScaleInv, LinkInv, WideInv, WideArguments, WideDone
  <1>4. a \in Nat
    BY <1>3, Z3
  <1>5. quotient = (a + (n \div 2)) \div n
    BY <1>3, Zenon DEF Dividend
  <1> HIDE DEF c, n, a
  <1>6. quotient \in Nat /\ n \in Nat \ {0}
    BY <1>2, <1>3
  <1>7. -n < 2 * (nq - a) /\ 2 * (nq - a) <= n /\ nq \in Nat
    BY <1>4, <1>5, <1>6, RoundsNearest, Zenon
  <1>8. Abs(n * Scaled) = nq /\ Scaled * c >= 0
    <2>1. CASE c >= 0
      <3>1. Scaled = quotient
        BY <2>1 DEF Scaled, c
      <3>2. quotient * c >= 0
        BY <1>2, <1>6, <2>1, Z3
      <3>3. Abs(nq) = nq
        BY <1>7 DEF Abs
      <3>4. QED BY <3>1, <3>2, <3>3
    <2>2. CASE ~(c >= 0)
      <3>1. Scaled = -quotient
        BY <2>2 DEF Scaled, c
      <3>2. (-quotient) * c >= 0
        BY <1>2, <1>6, <2>2, Z3
      <3>3. n * (-quotient) = -nq
        BY <1>6, Z3
      <3> HIDE DEF nq
      <3>4. Abs(-nq) = nq
        BY <1>7 DEF Abs
      <3>5. QED BY <3>1, <3>2, <3>3, <3>4
    <2>3. QED BY <2>1, <2>2
  <1>9. Abs(c * scale) = a
    <2>1. CASE c >= 0
      <3>1. num_abs = c
        BY <1>2, <1>3, <2>1 DEF Abs
      <3>2. c * scale = a
        BY <3>1 DEF a
      <3>3. QED BY <1>4, <3>2 DEF Abs
    <2>2. CASE ~(c >= 0)
      <3>1. num_abs = -c
        BY <1>2, <1>3, <2>2 DEF Abs
      <3>2. (-c) * scale = -(c * scale) /\ c * scale \in Int
        BY <1>2, <1>3, Z3
      <3>3. c * scale = -a
        BY <1>4, <3>1, <3>2 DEF a
      <3>4. Abs(-a) = a
        BY <1>4 DEF Abs
      <3>5. QED BY <3>3, <3>4
    <2>3. QED BY <2>1, <2>2
  <1> HIDE DEF nq
  <1>10. c \in -n..n
    BY <1>2, <1>6
  <1> DEFINE error == Abs(n * Scaled) - Abs(c * scale)
  <1>11. error = nq - a
    BY <1>8, <1>9
  <1>12. -n < 2 * error /\ 2 * error <= n
    BY <1>7, <1>11
  <1> HIDE DEF error
  <1>13. \E e \in -n..n :
           /\ -n < 2 * e /\ 2 * e <= n /\ (e - Product) % n = 0
           /\ -n < 2 * (Abs(n * Scaled) - Abs(e * scale)) /\ 2 * (Abs(n * Scaled) - Abs(e * scale)) <= n
           /\ Scaled * e >= 0
    <2>1. -n < 2 * (Abs(n * Scaled) - Abs(c * scale)) /\ 2 * (Abs(n * Scaled) - Abs(c * scale)) <= n
      BY <1>12, Zenon DEF error
    <2>2. QED BY <1>2, <1>8, <1>10, <2>1, Zenon
  <1>14. QED BY <1>1, <1>13, Zenon DEF ScaledNearest, n

\* mod_inverse_u64 and the checks of a basis: the inverse, or the sentinel
\* exactly when there is none; refused exactly when there is a common divisor;
\* for all moduli and all arguments.
THEOREM InversesExact == ScaleSpec => []InverseOrSentinel
  <1>1. ScaleInv => InverseOrSentinel
    BY DEF ScaleInv, RnsInv
  <1>2. QED BY <1>1, ScaleSpecInv, PTL

\* The operations on pairs of residues, Garner reconstruction and both
\* centrings are exact, for all moduli and operands.
THEOREM ResiduesStandForResult == ScaleSpec => []ResiduesExact
  <1>1. ScaleInv => ResiduesExact
    BY RnsInvExact DEF ScaleInv
  <1>2. QED BY <1>1, ScaleSpecInv, PTL

\* round_mul_div_u128 loses no bit, never overflows its quotient and rounds
\* half up, for every word length, scale and divisor.
THEOREM DivisionRoundsExactly == ScaleSpec => []RoundedExactly
  BY ScaleInvRounded, ScaleSpecInv, PTL

\* A coefficient held as residues is scaled to the nearest integer, away from
\* zero on a tie.
THEOREM ScalingNearest == ScaleSpec => []ScaledNearest
  BY ScaleInvNearest, ScaleSpecInv, PTL
=============================================================================
