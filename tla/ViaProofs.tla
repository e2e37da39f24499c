----------------------------- MODULE ViaProofs ------------------------------
(***************************************************************************)
(* For every ring tower, every power-of-two database shape and every       *)
(* number of records: the database the server answers from holds each      *)
(* record where the client's index decomposition will look for it, only    *)
(* messages for another handler are turned down, what a request recovers   *)
(* is the records it asked for, and every request holds what its stage     *)
(* calls for.                                                              *)
(***************************************************************************)
EXTENDS Via, SequenceTheorems, WellFoundedInduction, TLAPS

-----------------------------------------------------------------------------
(***************************************************************************)
(* The shifts and the digits of decompose.rs, for every width.             *)
(***************************************************************************)

\* A non-empty set of natural numbers has a least element.
LEMMA LeastElement ==
  ASSUME NEW S, S \subseteq Nat, S # {}
  PROVE  \E t \in S : \A u \in S : t <= u
  <1> DEFINE R == OpToRel(<, Nat)
  <1>1. IsWellFoundedOn(R, Nat)
    BY NatLessThanWellFounded
  <1>2. R = {ss \in Nat \X Nat : ss[1] < ss[2]}
    BY Zenon DEF OpToRel
  <1> HIDE DEF R
  <1>3. PICK t \in S : \A u \in S : <<u, t>> \notin R
    BY <1>1, WFMin
  <1>4. ASSUME NEW u \in S PROVE t <= u
    <2>1. t \in Nat /\ u \in Nat /\ <<u, t>> \notin R
      BY <1>3
    <2>2. ~(u < t)
      BY <1>2, <2>1
    <2>3. QED BY <2>1, <2>2
  <1>5. QED BY <1>3, <1>4

\* Division and remainder, as the provers need them.
LEMMA DivMod ==
  ASSUME NEW x \in Nat, NEW d \in Nat \ {0}
  PROVE  /\ x \div d \in Nat
         /\ x % d \in 0..(d - 1)
         /\ x = d * (x \div d) + (x % d)
  BY Z3

\* A quotient and a remainder that fit are the quotient and the remainder.
LEMMA DivModUnique ==
  ASSUME NEW x \in Nat, NEW d \in Nat \ {0}, NEW q \in Nat, NEW r \in 0..(d - 1),
         x = d * q + r
  PROVE  x \div d = q /\ x % d = r
  <1> DEFINE q1 == x \div d
             r1 == x % d
  <1>1. q1 \in Nat /\ r1 \in 0..(d - 1) /\ x = d * q1 + r1
    BY DivMod
  <1> HIDE DEF q1, r1
  <1>2. ASSUME q1 < q PROVE FALSE
    <2>1. d * (q1 + 1) <= d * q
      BY <1>1, <1>2, Z3
    <2>2. QED BY <1>1, <2>1, Z3
  <1>3. ASSUME q < q1 PROVE FALSE
    <2>1. d * (q + 1) <= d * q1
      BY <1>1, <1>3, Z3
    <2>2. QED BY <1>1, <2>1, Z3
  <1>4. q1 = q
    BY <1>1, <1>2, <1>3, Z3
  <1>5. QED BY <1>1, <1>4, Z3 DEF q1, r1

\* Every entry of the table is positive and twice the one before.
LEMMA ShlDoubles ==
  /\ \A a \in 0..MaxBits : Shl[a] \in Nat \ {0}
  /\ \A a \in 0..(MaxBits - 1) : Shl[a + 1] = 2 * Shl[a]
  <1>1. \A a \in 0..MaxBits : Shl[a] \in Nat \ {0}
    BY ShlAssumption
  <1>2. ASSUME NEW a \in 0..(MaxBits - 1) PROVE Shl[a + 1] = 2 * Shl[a]
    <2>1. a \in 0..MaxBits /\ 1 \in 0..MaxBits /\ a + 1 <= MaxBits
      BY ShlAssumption
    <2>2. Shl[a + 1] = Shl[a] * Shl[1]
      BY <2>1, ShlAssumption
    <2>3. Shl[a] * 2 = 2 * Shl[a]
      BY <1>1, <2>1
    <2>4. QED BY <2>2, <2>3, ShlAssumption
  <1>3. QED BY <1>1, <1>2

\* x >> a is twice x >> (a + 1) plus the digit that the longer shift drops.
LEMMA DigitHigh ==
  ASSUME NEW x \in Nat, NEW a \in 0..(MaxBits - 1)
  PROVE  /\ Bit(x, a) \in Bits
         /\ x \div Shl[a] = 2 * (x \div Shl[a + 1]) + Bit(x, a)
         /\ x \div Shl[a + 1] \in Nat
  <1> DEFINE d == Shl[a]
             q == x \div d
             h == q \div 2
             b == q % 2
             r == x % d
  <1>1. d \in Nat \ {0} /\ Shl[a + 1] = 2 * d
    <2>1. a \in 0..MaxBits
      BY ShlAssumption
    <2>2. QED BY <2>1, ShlDoubles
  <1>2. q \in Nat /\ r \in 0..(d - 1) /\ x = d * q + r
    BY <1>1, DivMod
  <1>3. h \in Nat /\ b \in 0..1 /\ q = 2 * h + b
    <2>1. q \in Nat
      BY <1>2
    <2> HIDE DEF q
    <2>2. QED BY <2>1
  <1>4. Bit(x, a) = b
    BY DEF Bit
  <1> HIDE DEF d, q, h, b, r
  <1>5. d * b + r \in 0..(2 * d - 1)
    <2>1. CASE b = 0 BY <1>1, <1>2, <2>1, Z3
    <2>2. CASE b = 1 BY <1>1, <1>2, <2>2, Z3
    <2>3. QED BY <1>3, <2>1, <2>2
  <1>6. d * q = 2 * d * h + d * b
    BY <1>1, <1>2, <1>3, Z3
  <1>7. x = (2 * d) * h + (d * b + r)
    BY <1>1, <1>2, <1>3, <1>6, Z3
  <1>8. x \div (2 * d) = h
    BY <1>1, <1>3, <1>5, <1>7, DivModUnique
  <1>9. QED
    BY <1>1, <1>3, <1>4, <1>8 DEF q, d, Bits

\* The a + 1 low digits of x are its a low digits and digit a.
LEMMA DigitLow ==
  ASSUME NEW x \in Nat, NEW a \in 0..(MaxBits - 1)
  PROVE  /\ x % Shl[a + 1] = (x % Shl[a]) + Bit(x, a) * Shl[a]
         /\ x % Shl[a] \in 0..(Shl[a] - 1)
  <1> DEFINE d == Shl[a]
             q == x \div d
             h == x \div Shl[a + 1]
             b == Bit(x, a)
             r == x % d
  <1>1. d \in Nat \ {0} /\ Shl[a + 1] = 2 * d
    <2>1. a \in 0..MaxBits
      BY ShlAssumption
    <2>2. QED BY <2>1, ShlDoubles
  <1>2. q \in Nat /\ r \in 0..(d - 1) /\ x = d * q + r
    BY <1>1, DivMod
  <1>3. h \in Nat /\ b \in Bits /\ q = 2 * h + b
    BY DigitHigh
  <1> HIDE DEF d, q, h, b, r
  <1>5. r + b * d \in 0..(2 * d - 1)
    <2>1. CASE b = 0 BY <1>1, <1>2, <2>1, Z3
    <2>2. CASE b = 1 BY <1>1, <1>2, <2>2, Z3
    <2>3. QED BY <1>3, <2>1, <2>2 DEF Bits
  <1>6. d * q = 2 * d * h + b * d
    BY <1>1, <1>2, <1>3, Z3 DEF Bits
  <1>7. x = (2 * d) * h + (r + b * d)
    BY <1>1, <1>2, <1>3, <1>6, Z3 DEF Bits
  <1>8. x % (2 * d) = r + b * d
    <2>1. 2 * d \in Nat \ {0}
      BY <1>1
    <2>2. QED BY <1>3, <1>5, <1>7, <2>1, DivModUnique
  <1>9. QED
    BY <1>1, <1>2, <1>8 DEF d, r, b

\* decompose_index loses nothing: a record of the database splits into a row,
\* a column and a slot in range, from which the index is rebuilt.
THEOREM DecomposeInverts ==
  ASSUME NEW height \in Nat \ {0}, NEW width \in Nat \ {0}, NEW slots \in Nat,
         NEW index \in Nat, index < slots * (height * width)
  PROVE  LET t == DecomposeIndex(index, height, width)
         IN  /\ t.alpha \in 0..(height - 1)
             /\ t.beta \in 0..(width - 1)
             /\ t.gamma \in 0..(slots - 1)
             /\ index = t.gamma * (height * width) + t.alpha * width + t.beta
  <1> DEFINE group == height * width
             t == DecomposeIndex(index, height, width)
             r == index % group
  <1>1. group \in Nat \ {0}
    BY Z3
  <1>2. /\ t.alpha = r \div width
        /\ t.beta = index % width
        /\ t.gamma = index \div group
    BY DEF DecomposeIndex
  <1> HIDE DEF t, group, r
  <1>3. t.gamma \in Nat /\ r \in 0..(group - 1) /\ index = group * t.gamma + r
    BY <1>1, <1>2, DivMod DEF r
  <1>4. t.alpha \in Nat /\ r % width \in 0..(width - 1) /\ r = width * t.alpha + (r % width)
    <2>1. r \in Nat
      BY <1>1, <1>3
    <2>2. QED BY <1>2, <2>1, DivMod
  <1>5. t.beta = r % width
    <2> DEFINE k == height * t.gamma + t.alpha
    <2>1. k \in Nat
      BY <1>3, <1>4
    <2>2. group * t.gamma + width * t.alpha = width * k
      BY <1>3, <1>4, Z3 DEF group
    <2> HIDE DEF k
    <2>3. index = width * k + (r % width)
      BY <1>1, <1>3, <1>4, <2>1, <2>2
    <2> DEFINE m == r % width
    <2>4. m \in 0..(width - 1) /\ index = width * k + m
      BY <1>4, <2>3
    <2> HIDE DEF m
    <2>5. index % width = m
      BY ONLY index \in Nat, width \in Nat \ {0}, <2>1, <2>4, DivModUnique
    <2>6. QED BY <1>2, <2>5 DEF m
  <1>6. t.alpha < height
    <2>1. ASSUME height <= t.alpha PROVE FALSE
      <3>1. width * height <= width * t.alpha
        BY <1>4, <2>1, Z3
      <3>2. width * height = group
        BY DEF group
      <3>3. QED BY <1>1, <1>3, <1>4, <3>1, <3>2, Z3
    <2>2. QED BY <1>4, <2>1
  <1>7. t.gamma < slots
    <2>1. ASSUME slots <= t.gamma PROVE FALSE
      <3>1. slots * group <= group * t.gamma
        BY <1>1, <1>3, <2>1, Z3
      <3>2. QED BY <1>1, <1>3, <3>1, Z3 DEF group
    <2>2. QED BY <1>3, <2>1
  <1>8. index = t.gamma * group + t.alpha * width + t.beta
    BY <1>1, <1>3, <1>4, <1>5, Z3
  <1>9. QED BY <1>3, <1>4, <1>5, <1>6, <1>7, <1>8 DEF t, group

-----------------------------------------------------------------------------
(***************************************************************************)
(* Powers of two: the shapes and the tower of degrees.                     *)
(***************************************************************************)

\* Shl is increasing.
LEMMA ShlGrows ==
  ASSUME NEW a \in 0..MaxBits, NEW b \in 0..MaxBits, a < b
  PROVE  Shl[a] < Shl[b]
  <1> DEFINE c == b - a
             x == Shl[a]
             y == Shl[c - 1]
  <1>1. MaxBits \in Nat /\ c \in 1..MaxBits /\ c - 1 \in 0..MaxBits /\ 1 \in 0..MaxBits /\ a + c = b
    BY ShlAssumption
  <1>2. x \in Nat \ {0} /\ y \in Nat \ {0}
    BY <1>1, ShlAssumption
  <1>3. Shl[c] = 2 * y
    <2>1. 1 + (c - 1) = c /\ c <= MaxBits
      BY <1>1
    <2>2. Shl[1 + (c - 1)] = Shl[1] * Shl[c - 1]
      BY <1>1, <2>1, ShlAssumption
    <2>3. QED BY <2>1, <2>2, ShlAssumption
  <1>4. Shl[b] = x * Shl[c]
    <2>1. a + c <= MaxBits /\ c \in 0..MaxBits
      BY <1>1
    <2>2. Shl[a + c] = Shl[a] * Shl[c]
      BY <2>1, ShlAssumption
    <2>3. QED BY <1>1, <2>2
  <1> HIDE DEF x, y, c
  <1>5. x < x * (2 * y)
    BY <1>2, Z3
  <1>6. QED BY <1>3, <1>4, <1>5 DEF x

\* ceil_log2 of a power of two.
LEMMA CeilLog2Nat ==
  ASSUME NEW n, IsPowerOfTwo(n)
  PROVE  CeilLog2(n) \in Nat
  <1>1. PICK k \in 0..MaxBits : Shl[k] = n
    BY DEF IsPowerOfTwo
  <1>2. \A j \in 0..(k - 1) : Shl[j] < n
    <2> SUFFICES ASSUME NEW j \in 0..(k - 1) PROVE Shl[j] < n
      OBVIOUS
    <2>1. j \in 0..MaxBits /\ j < k
      BY <1>1, ShlAssumption
    <2>2. QED BY <1>1, <2>1, ShlGrows
  <1>3. n <= Shl[k]
    BY <1>1, ShlAssumption
  <1>4. CeilLog2(n) \in 0..MaxBits
    BY <1>1, <1>2, <1>3 DEF CeilLog2
  <1>5. QED BY <1>4, ShlAssumption

\* trailing_zeros and ceil_log2 agree on a power of two.
LEMMA LogsAgree ==
  ASSUME NEW n, IsPowerOfTwo(n)
  PROVE  /\ Log2(n) \in 0..MaxBits /\ Shl[Log2(n)] = n
         /\ CeilLog2(n) = Log2(n)
  <1>1. Log2(n) \in 0..MaxBits /\ Shl[Log2(n)] = n
    BY DEF IsPowerOfTwo, Log2
  <1> DEFINE k == Log2(n)
  <1>0. k \in 0..MaxBits /\ Shl[k] = n
    BY <1>1
  <1> HIDE DEF k
  <1>2. /\ n <= Shl[k]
        /\ \A j \in 0..(k - 1) : Shl[j] < n
    <2>1. n <= Shl[k]
      BY <1>0, ShlAssumption
    <2>2. ASSUME NEW j \in 0..(k - 1) PROVE Shl[j] < n
      <3>1. j \in 0..MaxBits /\ j < k
        BY <1>0, ShlAssumption
      <3>2. QED BY <1>0, <3>1, ShlGrows
    <2>3. QED BY <2>1, <2>2
  <1>3. ASSUME NEW c \in 0..MaxBits, n <= Shl[c], \A j \in 0..(c - 1) : Shl[j] < n
        PROVE  c = k
    <2>1. c \in Nat /\ k \in Nat /\ n \in Nat /\ Shl[c] \in Nat
      <3>1. c \in Nat /\ k \in Nat
        BY <1>0, ShlAssumption
      <3>2. Shl[k] \in Nat /\ Shl[c] \in Nat
        BY <1>0, ShlAssumption
      <3>3. QED BY <1>0, <3>1, <3>2
    <2>2. CASE c < k
      <3>1. Shl[c] < n
        BY <1>0, <2>2, ShlGrows
      <3>2. QED BY <1>3, <2>1, <3>1
    <2>3. CASE k < c
      <3>1. k \in 0..(c - 1)
        BY <2>1, <2>3
      <3>2. QED BY <1>0, <1>3, <2>1, <3>1
    <2>4. QED BY <2>1, <2>2, <2>3
  <1>4. CeilLog2(n) \in 0..MaxBits /\ n <= Shl[CeilLog2(n)]
          /\ \A j \in 0..(CeilLog2(n) - 1) : Shl[j] < n
    BY <1>0, <1>2 DEF CeilLog2
  <1>5. CeilLog2(n) = k
    BY <1>3, <1>4
  <1>6. QED BY <1>1, <1>5 DEF k

\* A record's degree divides N1.
LEMMA DegreeSplits ==
  ASSUME NEW n \in {N2, N3}
  PROVE  /\ n \in Nat \ {0}
         /\ N1 \div n \in Nat \ {0}
         /\ N1 = (N1 \div n) * n
  <1>1. N1 \in Nat \ {0} /\ n \in Nat \ {0} /\ N1 % n = 0
    <2>1. \A m : IsPowerOfTwo(m) => m \in Nat \ {0}
      BY ShlAssumption DEF IsPowerOfTwo
    <2>2. IsPowerOfTwo(N1) /\ IsPowerOfTwo(N2) /\ IsPowerOfTwo(N3)
      BY DegreesAssumption DEF ViaBCheck, ViaCCheck
    <2>3. N1 % N2 = 0 /\ N1 % N3 = 0
      BY DegreesAssumption DEF ServerCheck
    <2>4. QED BY <2>1, <2>2, <2>3
  <1>2. N1 \div n \in Nat /\ N1 = n * (N1 \div n) + (N1 % n)
    BY <1>1, DivMod
  <1> DEFINE d == N1 \div n
  <1> HIDE DEF d
  <1>3. d \in Nat /\ N1 = n * d
    BY <1>1, <1>2 DEF d
  <1>4. d # 0 /\ N1 = d * n
    BY <1>1, <1>3, Z3
  <1>5. QED BY <1>1, <1>3, <1>4 DEF d

\* The degrees a query rotates by are powers of two.
LEMMA RatioPower ==
  ASSUME NEW n \in {N2, N3}
  PROVE  IsPowerOfTwo(N1 \div n)
  <1>1. IsPowerOfTwo(N1) /\ IsPowerOfTwo(n) /\ N1 % n = 0
    BY DegreesAssumption DEF ViaBCheck, ViaCCheck, ServerCheck
  <1>2. PICK a \in 0..MaxBits, b \in 0..MaxBits : Shl[a] = N1 /\ Shl[b] = n
    BY <1>1 DEF IsPowerOfTwo
  <1>3. N1 \in Nat \ {0} /\ n \in Nat \ {0}
    BY DegreeSplits, <1>2, ShlAssumption
  <1>4. b <= a
    <2> SUFFICES ASSUME a < b PROVE FALSE
      BY ShlAssumption
    <2>1. N1 < n
      BY <1>2, ShlGrows
    <2>2. N1 % n = N1
      <3>1. N1 = n * 0 + N1 /\ N1 \in 0..(n - 1)
        BY <1>3, <2>1
      <3>2. QED BY <1>3, <3>1, DivModUnique
    <2>3. QED BY <1>1, <1>3, <2>2
  <1> DEFINE c == a - b
  <1>5. c \in 0..MaxBits /\ b + c = a /\ a <= MaxBits
    BY <1>4, ShlAssumption
  <1>6. Shl[c] \in Nat /\ N1 = n * Shl[c] + 0
    <2>1. Shl[b + c] = Shl[b] * Shl[c]
      BY <1>5, ShlAssumption
    <2>2. Shl[c] \in Nat
      BY <1>5, ShlAssumption
    <2>3. n * Shl[c] \in Nat
      BY <1>3, <2>2, Z3
    <2>4. QED BY <1>2, <1>5, <2>1, <2>2, <2>3
  <1>7. N1 \div n = Shl[c]
    <2>1. 0 \in 0..(n - 1)
      BY <1>3
    <2>2. QED BY <1>3, <1>6, <2>1, DivModUnique
  <1>8. QED BY <1>5, <1>7 DEF IsPowerOfTwo

\* The server's slot bits for a record degree.
LEMMA SlotBits ==
  ASSUME NEW n \in {N2, N3}
  PROVE  /\ IsPowerOfTwo(N1 \div n)
         /\ (IF N1 \div n > 1 THEN Log2(N1 \div n) ELSE 0) = CeilLog2(N1 \div n)
  <1>1. IsPowerOfTwo(N1 \div n)
    BY RatioPower
  <1> DEFINE d == N1 \div n
  <1>2. d \in Nat \ {0}
    BY DegreeSplits
  <1> HIDE DEF d
  <1>3. IsPowerOfTwo(d)
    BY <1>1 DEF d
  <1>4. CeilLog2(d) = Log2(d) /\ Log2(d) \in 0..MaxBits /\ Shl[Log2(d)] = d
    BY <1>3, LogsAgree
  <1>5. CASE d > 1
    BY <1>1, <1>4, <1>5 DEF d
  <1>6. CASE ~(d > 1)
    <2>1. d = Shl[0] /\ 0 \in 0..MaxBits
      BY <1>2, <1>6, ShlAssumption
    <2>2. Log2(d) = 0
      <3>1. Log2(d) \in Nat /\ (0 < Log2(d) => Shl[0] < Shl[Log2(d)])
        BY <1>4, <2>1, ShlGrows, ShlAssumption
      <3>2. Shl[0] \in Nat
        BY <2>1, ShlAssumption
      <3>3. QED BY <1>4, <2>1, <3>1, <3>2
    <2>3. QED BY <1>1, <1>4, <1>6, <2>2 DEF d
  <1>7. QED BY <1>5, <1>6

-----------------------------------------------------------------------------
(***************************************************************************)
(* Recursive functions.  A recursion over 0..n has a solution, and two     *)
(* functions that obey the same step are equal; the rest of the module     *)
(* exhibits a closed form and uses the second fact.                        *)
(***************************************************************************)

\* Induction over 0..n, on a set.
LEMMA SetInduction ==
  ASSUME NEW n \in Nat, NEW T, 0 \in T, \A k \in 0..(n - 1) : k \in T => k + 1 \in T
  PROVE  \A k \in 0..n : k \in T
  <1> DEFINE B == (0..n) \ T
  <1> SUFFICES ASSUME B # {} PROVE FALSE
    OBVIOUS
  <1>1. PICK k \in B : \A u \in B : k <= u
    <2>1. B \subseteq Nat
      OBVIOUS
    <2> HIDE DEF B
    <2>2. QED BY <2>1, LeastElement
  <1>2. k \in 0..n /\ k \notin T
    OBVIOUS
  <1>3. k - 1 \in 0..(n - 1) /\ k - 1 \in 0..n /\ ~(k <= k - 1)
    BY <1>2
  <1>4. k - 1 \in T
    BY <1>1, <1>3
  <1>5. (k - 1) + 1 = k
    BY <1>2
  <1>6. QED BY <1>2, <1>3, <1>4, <1>5

\* Functions that start alike and go on alike are alike.
LEMMA AgreeUpTo ==
  ASSUME NEW n \in Nat, NEW f, NEW g, f[0] = g[0],
         \A l \in 1..n : f[l - 1] = g[l - 1] => f[l] = g[l]
  PROVE  \A l \in 0..n : f[l] = g[l]
  <1> DEFINE T == {l \in 0..n : f[l] = g[l]}
  <1>1. 0 \in T
    OBVIOUS
  <1>2. ASSUME NEW k \in 0..(n - 1), k \in T PROVE k + 1 \in T
    <2>1. k + 1 \in 1..n /\ (k + 1) - 1 = k /\ k + 1 \in 0..n
      OBVIOUS
    <2>2. f[k + 1] = g[k + 1]
      BY <1>2, <2>1
    <2>3. QED BY <2>1, <2>2
  <1> HIDE DEF T
  <1>3. \A l \in 0..n : l \in T
    BY <1>1, <1>2, SetInduction
  <1>4. QED BY <1>3 DEF T

\* f starts at base and goes on by the steps F.
Obeys(f, n, base, F) == f[0] = base /\ \A l \in 1..n : f[l] = F[l][f[l - 1]]

\* A recursion over 0..n has a solution.
LEMMA Recursion ==
  ASSUME NEW n \in Nat, NEW V, NEW base, base \in V, NEW F, F \in [1..n -> [V -> V]]
  PROVE  \E f : f \in [0..n -> V] /\ Obeys(f, n, base, F)
  <1> DEFINE Solves(f, m) == f[0] = base /\ \A l \in 1..m : f[l] = F[l][f[l - 1]]
             T == {m \in 0..n : \E f \in [0..m -> V] : Solves(f, m)}
  <1>1. 0 \in T
    <2> DEFINE f == [l \in 0..0 |-> base]
    <2>1. f \in [0..0 -> V] /\ Solves(f, 0)
      OBVIOUS
    <2> HIDE DEF f, Solves
    <2>2. QED BY <2>1
  <1>2. ASSUME NEW m \in 0..(n - 1), m \in T PROVE m + 1 \in T
    <2>1. PICK f \in [0..m -> V] : Solves(f, m)
      BY <1>2
    <2> DEFINE g == [l \in 0..(m + 1) |-> IF l = m + 1 THEN F[m + 1][f[m]] ELSE f[l]]
    <2>2. m + 1 \in 1..n /\ m \in 0..m /\ m + 1 \in 0..n /\ 0 # m + 1
      OBVIOUS
    <2>3. F[m + 1][f[m]] \in V
      BY <2>2
    <2>4. g \in [0..(m + 1) -> V]
      BY <2>3
    <2>5. Solves(g, m + 1)
      <3>1. g[0] = base
        BY <2>1, <2>2
      <3>2. ASSUME NEW l \in 1..(m + 1) PROVE g[l] = F[l][g[l - 1]]
        <4>1. CASE l = m + 1
          <5>1. l - 1 = m /\ l - 1 # m + 1 /\ l - 1 \in 0..(m + 1) /\ l \in 0..(m + 1)
            BY <4>1
          <5>2. QED BY <4>1, <5>1
        <4>2. CASE l # m + 1
          <5>1. l \in 1..m /\ l - 1 # m + 1 /\ l - 1 \in 0..(m + 1) /\ l \in 0..(m + 1)
            BY <4>2
          <5>2. f[l] = F[l][f[l - 1]]
            BY <2>1, <5>1
          <5>3. QED BY <4>2, <5>1, <5>2
        <4>3. QED BY <4>1, <4>2
      <3> HIDE DEF g
      <3>3. QED BY <3>1, <3>2
    <2> HIDE DEF g, Solves
    <2>6. QED BY <2>2, <2>4, <2>5
  <1> HIDE DEF T
  <1>3. \A l \in 0..n : l \in T
    BY <1>1, <1>2, SetInduction
  <1>4. n \in T
    BY <1>3
  <1>5. QED BY <1>4, Zenon DEF T, Obeys

-----------------------------------------------------------------------------
(***************************************************************************)
(* Polynomials.                                                            *)
(***************************************************************************)

LEMMA ModSmall ==
  ASSUME NEW v \in Nat, NEW p \in Nat \ {0}
  PROVE  /\ v < p => v % p = v
         /\ p <= v /\ v < 2 * p => v % p = v - p
         /\ v % p \in 0..(p - 1)
  <1>1. ASSUME v < p PROVE v % p = v
    <2>1. v \in 0..(p - 1) /\ v = p * 0 + v
      BY <1>1
    <2>2. QED BY <2>1, DivModUnique
  <1>2. ASSUME p <= v, v < 2 * p PROVE v % p = v - p
    <2>1. v - p \in 0..(p - 1) /\ v = p * 1 + (v - p)
      BY <1>2
    <2>2. QED BY <2>1, DivModUnique
  <1>3. v % p \in 0..(p - 1)
    BY DivMod
  <1>4. QED BY <1>1, <1>2, <1>3

LEMMA ModShift ==
  ASSUME NEW v \in Nat, NEW p \in Nat \ {0}, v < p
  PROVE  (v + p) % p = v
  <1>1. v \in 0..(p - 1) /\ v + p = p * 1 + v /\ v + p \in Nat
    OBVIOUS
  <1>2. QED BY <1>1, DivModUnique

\* Negation modulo P.
LEMMA NegCoeff ==
  ASSUME NEW a \in Coeff
  PROVE  /\ (P - a) % P \in Coeff
         /\ (P - ((P - a) % P)) % P = a
         /\ \A b \in Coeff : (a + ((b + ((P - a) % P)) % P)) % P = b
  <1>1. P \in Nat \ {0} /\ a \in Nat /\ a < P
    BY ModulusAssumption DEF Coeff
  <1>2. CASE a = 0
    <2>1. P % P = 0
      BY <1>1, ModSmall
    <2>2. (P - a) % P = 0 /\ (P - 0) % P = 0
      BY <1>1, <1>2, <2>1
    <2>3. ASSUME NEW b \in Coeff PROVE (a + ((b + 0) % P)) % P = b
      <3>1. b \in Nat /\ b < P
        BY <1>1 DEF Coeff
      <3>2. b % P = b
        BY <1>1, <3>1, ModSmall
      <3>3. b + 0 = b /\ a + b = b
        BY <1>2, <3>1
      <3>4. QED BY <3>2, <3>3
    <2>4. 0 \in Coeff
      BY <1>1 DEF Coeff
    <2>5. QED BY <1>2, <2>2, <2>3, <2>4
  <1>3. CASE a # 0
    <2>1. P - a \in Nat /\ P - a < P /\ P - (P - a) = a
      BY <1>1, <1>3
    <2>2. (P - a) % P = P - a /\ a % P = a
      BY <1>1, <2>1, ModSmall
    <2>3. ASSUME NEW b \in Coeff PROVE (a + ((b + (P - a)) % P)) % P = b
      <3>1. b \in Nat /\ b < P
        BY <1>1 DEF Coeff
      <3>2. CASE b < a
        <4>1. b + (P - a) \in Nat /\ b + (P - a) < P
          BY <1>1, <3>1, <3>2
        <4>2. (b + (P - a)) % P = b + (P - a)
          BY <1>1, <4>1, ModSmall
        <4>3. a + (b + (P - a)) = b + P
          BY <1>1, <3>1
        <4>4. (b + P) % P = b
          BY <1>1, <3>1, ModShift
        <4>5. QED BY <4>2, <4>3, <4>4
      <3>3. CASE a <= b
        <4>1. b - a \in Nat /\ b - a < P /\ b + (P - a) = (b - a) + P
          BY <1>1, <3>1, <3>3
        <4>2. (b + (P - a)) % P = b - a
          BY <1>1, <4>1, ModShift
        <4>3. a + (b - a) = b
          BY <1>1, <3>1
        <4>4. b % P = b
          BY <1>1, <3>1, ModSmall
        <4>5. QED BY <4>2, <4>3, <4>4
      <3>4. QED BY <1>1, <3>1, <3>2, <3>3
    <2>4. P - a \in Coeff
      BY <1>1, <2>1 DEF Coeff
    <2>5. QED BY <2>1, <2>2, <2>3, <2>4
  <1>4. QED BY <1>2, <1>3

\* Products with a plaintext bit, and sums with zero.
LEMMA BitTimes ==
  ASSUME NEW n, NEW f \in Poly(n)
  PROVE  /\ Scale(0, f) = Zero(n)
         /\ Scale(1, f) = f
         /\ Add(Zero(n), f) = f
         /\ Add(f, Zero(n)) = f
         /\ Neg(f) \in Poly(n)
         /\ Zero(n) \in Poly(n)
  <1>1. P \in Nat \ {0} /\ 0 \in Coeff /\ 0 % P = 0
    <2>1. P \in Nat \ {0} /\ 0 \in Coeff
      BY ModulusAssumption DEF Coeff
    <2>2. QED BY <2>1, ModSmall
  <1>2. f \in [0..(n - 1) -> Coeff] /\ DOMAIN f = 0..(n - 1)
    BY DEF Poly
  <1>3. ASSUME NEW x \in 0..(n - 1)
        PROVE  /\ f[x] \in Coeff /\ f[x] \in Nat
               /\ (0 * f[x]) % P = 0
               /\ (1 * f[x]) % P = f[x]
               /\ (0 + f[x]) % P = f[x] /\ (f[x] + 0) % P = f[x]
               /\ (P - f[x]) % P \in Coeff
    <2>1. f[x] \in Coeff
      BY <1>2
    <2>2. f[x] \in Nat /\ f[x] < P
      BY <1>1, <2>1 DEF Coeff
    <2>3. f[x] % P = f[x]
      BY <1>1, <2>2, ModSmall
    <2>4. 0 * f[x] = 0 /\ 1 * f[x] = f[x] /\ 0 + f[x] = f[x] /\ f[x] + 0 = f[x]
      BY <2>2
    <2>5. QED BY <1>1, <2>1, <2>2, <2>3, <2>4, NegCoeff
  <1>4. Zero(n) = [x \in 0..(n - 1) |-> 0] /\ DOMAIN Zero(n) = 0..(n - 1)
    BY DEF Zero
  <1>5. f = [x \in 0..(n - 1) |-> f[x]]
    BY <1>2
  <1>6. Scale(0, f) = Zero(n)
    BY <1>2, <1>3, <1>4 DEF Scale
  <1>7. Scale(1, f) = f
    BY <1>2, <1>3, <1>5 DEF Scale
  <1>8. Add(Zero(n), f) = f
    BY <1>2, <1>3, <1>4, <1>5 DEF Add
  <1>9. Add(f, Zero(n)) = f
    BY <1>2, <1>3, <1>4, <1>5 DEF Add
  <1>10. Neg(f) \in Poly(n)
    BY <1>2, <1>3 DEF Neg, Poly
  <1>11. Zero(n) \in Poly(n)
    BY <1>1, <1>4 DEF Poly
  <1>12. QED BY <1>6, <1>7, <1>8, <1>9, <1>10, <1>11

\* cmux on a plaintext bit chooses one of its inputs.
LEMMA CmuxChooses ==
  ASSUME NEW n, NEW f \in Poly(n), NEW g \in Poly(n), NEW b \in Bits
  PROVE  CmuxPoly(b, f, g) = IF b = 1 THEN g ELSE f
  <1>1. /\ f \in [0..(n - 1) -> Coeff] /\ DOMAIN f = 0..(n - 1)
        /\ g \in [0..(n - 1) -> Coeff] /\ DOMAIN g = 0..(n - 1)
    BY DEF Poly
  <1> DEFINE d == Sub(g, f)
  <1>2. d = [x \in 0..(n - 1) |-> (g[x] + ((P - f[x]) % P)) % P]
    BY <1>1 DEF Sub, Add, Neg
  <1>3. d \in Poly(n)
    <2>1. ASSUME NEW x \in 0..(n - 1) PROVE (g[x] + ((P - f[x]) % P)) % P \in Coeff
      <3>1. f[x] \in Coeff /\ g[x] \in Coeff
        BY <1>1
      <3>2. (P - f[x]) % P \in Coeff
        BY <3>1, NegCoeff
      <3>3. P \in Nat \ {0} /\ g[x] + ((P - f[x]) % P) \in Nat
        BY <3>1, <3>2, ModulusAssumption DEF Coeff
      <3>4. QED BY <3>3, ModSmall DEF Coeff
    <2>2. QED BY <1>2, <2>1 DEF Poly
  <1> HIDE DEF d
  <1>4. CASE b = 0
    <2>1. Scale(b, d) = Zero(n)
      BY <1>3, <1>4, BitTimes
    <2>2. QED BY <1>4, <2>1, BitTimes DEF CmuxPoly, d
  <1>5. CASE b = 1
    <2>1. Scale(b, d) = d
      BY <1>3, <1>5, BitTimes
    <2>2. Add(f, d) = [x \in 0..(n - 1) |-> g[x]]
      <3>1. ASSUME NEW x \in 0..(n - 1) PROVE (f[x] + d[x]) % P = g[x]
        <4>1. f[x] \in Coeff /\ g[x] \in Coeff
          BY <1>1
        <4>2. d[x] = (g[x] + ((P - f[x]) % P)) % P
          BY <1>2
        <4>3. QED BY <4>1, <4>2, NegCoeff
      <3>2. QED BY <1>1, <3>1 DEF Add
    <2>3. QED BY <1>1, <1>5, <2>1, <2>2 DEF CmuxPoly, d
  <1>6. QED BY <1>4, <1>5 DEF Bits

-----------------------------------------------------------------------------
(***************************************************************************)
(* Stages 2 to 5: the row, the column and the slot.                        *)
(***************************************************************************)

\* One level of the DMux tree.
DmuxLevel(bit, prev, l) ==
  [k \in 0..(Shl[l] - 1) |->
     IF k % 2 = 1 THEN bit * prev[k \div 2] ELSE prev[k \div 2] - bit * prev[k \div 2]]

DmuxLevels(g, bits, num) ==
  g = [l \in 0..num |-> IF l = 0 THEN [k \in {0} |-> 1] ELSE DmuxLevel(bits[l - 1], g[l - 1], l)]

LEMMA DmuxUnfolds ==
  ASSUME NEW bits, NEW num \in Nat, NEW g, DmuxLevels(g, bits, num)
  PROVE  DmuxTree(bits, num) = g[num]
  <1> DEFINE Solves(f) == f = [l \in 0..num |->
               IF l = 0 THEN [k \in {0} |-> 1]
               ELSE [k \in 0..(Shl[l] - 1) |->
                       IF k % 2 = 1 THEN bits[l - 1] * f[l - 1][k \div 2]
                       ELSE f[l - 1][k \div 2] - bits[l - 1] * f[l - 1][k \div 2]]]
             level == CHOOSE f : Solves(f)
  <1>1. Solves(g)
    BY Zenon DEF DmuxLevels, DmuxLevel
  <1>2. Solves(level)
    BY <1>1, Zenon
  <1>3. DmuxTree(bits, num) = level[num]
    BY Zenon DEF DmuxTree
  <1>8. DmuxLevels(level, bits, num)
    BY <1>2, Zenon DEF DmuxLevels, DmuxLevel
  <1> HIDE DEF level, Solves
  <1>4. level[0] = g[0]
    <2>1. 0 \in 0..num
      OBVIOUS
    <2>2. QED BY <1>8, <2>1 DEF DmuxLevels
  <1>5. ASSUME NEW l \in 1..num, level[l - 1] = g[l - 1] PROVE level[l] = g[l]
    <2>1. l \in 0..num /\ l # 0
      OBVIOUS
    <2>2. level[l] = DmuxLevel(bits[l - 1], level[l - 1], l)
      BY <1>8, <2>1 DEF DmuxLevels
    <2>3. g[l] = DmuxLevel(bits[l - 1], g[l - 1], l)
      BY <2>1 DEF DmuxLevels
    <2>4. QED BY <1>5, <2>2, <2>3
  <1>6. level[num] = g[num]
    <2>1. \A l \in 0..num : level[l] = g[l]
      BY <1>4, <1>5, AgreeUpTo
    <2>2. QED BY <2>1
  <1>7. QED BY <1>3, <1>6

\* dmux_tree on the bits of a row is one on that row and zero on the others.
LEMMA DmuxTreeOneHot ==
  ASSUME NEW num \in 0..MaxBits, NEW alpha \in 0..(Shl[num] - 1)
  PROVE  DmuxTree(DmuxBits(alpha, num), num)
           = [k \in 0..(Shl[num] - 1) |-> IF k = alpha THEN 1 ELSE 0]
  <1> DEFINE bits == DmuxBits(alpha, num)
             hot(l) == alpha \div Shl[num - l]
             g == [l \in 0..num |-> [k \in 0..(Shl[l] - 1) |-> IF k = hot(l) THEN 1 ELSE 0]]
  <1>1. num \in Nat /\ alpha \in Nat /\ Shl[num] \in Nat \ {0} /\ MaxBits \in Nat
    BY ShlAssumption
  <1>2. hot(num) = alpha
    <2>1. num - num = 0 /\ Shl[0] = 1
      BY <1>1, ShlAssumption
    <2>2. alpha \div 1 = alpha
      BY <1>1
    <2>3. QED BY <2>1, <2>2
  <1>3. g[0] = [k \in {0} |-> 1]
    <2>1. num - 0 = num /\ 0..(Shl[0] - 1) = {0} /\ 0 \in 0..num
      BY <1>1, ShlAssumption
    <2>2. alpha \div Shl[num] = 0
      <3>1. alpha = Shl[num] * 0 + alpha
        BY <1>1
      <3>2. QED BY <1>1, <3>1, DivModUnique
    <2>3. QED BY <2>1, <2>2
  <1>4. ASSUME NEW l \in 1..num PROVE g[l] = DmuxLevel(bits[l - 1], g[l - 1], l)
    <2>1. /\ l \in 0..num /\ l - 1 \in 0..num /\ l - 1 \in 0..(num - 1) /\ l \in 0..MaxBits
          /\ num - 1 - (l - 1) = num - l /\ num - (l - 1) = (num - l) + 1
          /\ num - l \in 0..(MaxBits - 1) /\ l - 1 \in 0..(MaxBits - 1) /\ (l - 1) + 1 = l
      BY <1>1
    <2> DEFINE h == hot(l - 1)
               b == Bit(alpha, num - l)
    <2>2. b \in Bits /\ hot(l) = 2 * h + b /\ h \in Nat
      BY <1>1, <2>1, DigitHigh
    <2>3. bits[l - 1] = b
      BY <2>1 DEF DmuxBits
    <2>4. Shl[l] = 2 * Shl[l - 1] /\ Shl[l - 1] \in Nat
      <3>1. Shl[(l - 1) + 1] = 2 * Shl[l - 1]
        BY <2>1, ShlDoubles
      <3>2. l - 1 \in 0..MaxBits
        BY <2>1, <1>1
      <3>3. QED BY <2>1, <3>1, <3>2, ShlDoubles
    <2>5. g[l - 1] = [k \in 0..(Shl[l - 1] - 1) |-> IF k = h THEN 1 ELSE 0]
      BY <2>1
    <2>6. g[l] = [k \in 0..(Shl[l] - 1) |-> IF k = 2 * h + b THEN 1 ELSE 0]
      BY <2>1, <2>2
    <2> DEFINE prev == [k \in 0..(Shl[l - 1] - 1) |-> IF k = h THEN 1 ELSE 0]
    <2> HIDE DEF h, b, g, bits
    <2>7. ASSUME NEW k \in 0..(Shl[l] - 1)
          PROVE  (IF k = 2 * h + b THEN 1 ELSE 0)
                   = IF k % 2 = 1 THEN b * prev[k \div 2] ELSE prev[k \div 2] - b * prev[k \div 2]
      <3> DEFINE m == k \div 2
                 r == k % 2
      <3>1. m \in Nat /\ r \in {0, 1} /\ k = 2 * m + r /\ m \in 0..(Shl[l - 1] - 1)
        BY <2>4
      <3>2. prev[m] = IF m = h THEN 1 ELSE 0
        BY <3>1
      <3> HIDE DEF m, r, prev
      <3>3. CASE b = 0
        BY <2>2, <3>1, <3>2, <3>3 DEF m, r
      <3>4. CASE b = 1
        BY <2>2, <3>1, <3>2, <3>4 DEF m, r
      <3>5. QED BY <2>2, <3>3, <3>4 DEF Bits
    <2>8. QED BY <2>3, <2>5, <2>6, <2>7 DEF DmuxLevel
  <1>5. DmuxLevels(g, bits, num)
    <2> DEFINE G(l) == [k \in 0..(Shl[l] - 1) |-> IF k = hot(l) THEN 1 ELSE 0]
    <2>1. \A l \in 0..num : l # 0 => l \in 1..num
      BY <1>1
    <2>2. \A l \in 0..num : G(l) = IF l = 0 THEN [k \in {0} |-> 1]
                                   ELSE DmuxLevel(bits[l - 1], g[l - 1], l)
      <3>1. \A l \in 0..num : g[l] = G(l)
        OBVIOUS
      <3> HIDE DEF g, G, bits
      <3>2. QED BY <1>3, <1>4, <2>1, <3>1
    <2> HIDE DEF bits
    <2>3. QED BY <2>2 DEF DmuxLevels
  <1> HIDE DEF g, bits
  <1>6. DmuxTree(bits, num) = g[num]
    BY <1>1, <1>5, DmuxUnfolds
  <1>7. QED BY <1>1, <1>2, <1>6 DEF g, bits

\* The sums of column j.
ColumnSums(g, sel, cells, j, height) ==
  g = [i \in 0..(height - 1) |-> IF i = 0 THEN Scale(sel[0], cells[0][j])
                               ELSE Add(g[i - 1], Scale(sel[i], cells[i][j]))]

LEMMA ColumnUnfolds ==
  ASSUME NEW sel, NEW cells, NEW height \in Nat \ {0}, NEW width, NEW j \in 0..(width - 1), NEW g,
         ColumnSums(g, sel, cells, j, height)
  PROVE  FirstDimColumns(sel, cells, height, width)[j] = g[height - 1]
  <1> DEFINE Solves(f) == f = [i \in 0..(height - 1) |->
               IF i = 0 THEN Scale(sel[0], cells[0][j])
               ELSE Add(f[i - 1], Scale(sel[i], cells[i][j]))]
             acc == CHOOSE f : Solves(f)
  <1>1. Solves(g)
    BY Zenon DEF ColumnSums
  <1>2. Solves(acc)
    BY <1>1, Zenon
  <1>3. FirstDimColumns(sel, cells, height, width)[j] = acc[height - 1]
    BY Zenon DEF FirstDimColumns
  <1>4. ColumnSums(acc, sel, cells, j, height)
    BY <1>2, Zenon DEF ColumnSums
  <1> HIDE DEF acc, Solves
  <1>5. acc[0] = g[0]
    <2>1. 0 \in 0..(height - 1)
      OBVIOUS
    <2>2. QED BY <1>4, <2>1 DEF ColumnSums
  <1>6. ASSUME NEW i \in 1..(height - 1), acc[i - 1] = g[i - 1] PROVE acc[i] = g[i]
    <2>1. i \in 0..(height - 1) /\ i # 0
      OBVIOUS
    <2>2. acc[i] = Add(acc[i - 1], Scale(sel[i], cells[i][j]))
      BY <1>4, <2>1 DEF ColumnSums
    <2>3. g[i] = Add(g[i - 1], Scale(sel[i], cells[i][j]))
      BY <2>1 DEF ColumnSums
    <2>4. QED BY <1>6, <2>2, <2>3
  <1>7. height - 1 \in Nat /\ height - 1 \in 0..(height - 1)
    OBVIOUS
  <1>8. \A i \in 0..(height - 1) : acc[i] = g[i]
    BY <1>5, <1>6, <1>7, AgreeUpTo
  <1>9. QED BY <1>3, <1>7, <1>8

\* The row bits say alpha.
RowIs(sel, height, alpha) == \A i \in 0..(height - 1) : sel[i] = IF i = alpha THEN 1 ELSE 0

Cells(i, j) == [0..(i - 1) -> [0..(j - 1) -> Poly(N1)]]

\* first_dim with a one-hot row leaves that row of the database.
LEMMA ColumnsSelected ==
  ASSUME NEW height \in Nat \ {0}, NEW width \in Nat \ {0}, NEW alpha \in 0..(height - 1),
         NEW cells \in Cells(height, width),
         NEW sel, RowIs(sel, height, alpha)
  PROVE  FirstDimColumns(sel, cells, height, width) = cells[alpha]
  <1>1. ASSUME NEW j \in 0..(width - 1)
        PROVE  FirstDimColumns(sel, cells, height, width)[j] = cells[alpha][j]
    <2> DEFINE cell(i) == cells[i][j]
               G(i) == IF i < alpha THEN Zero(N1) ELSE cell(alpha)
               g == [i \in 0..(height - 1) |-> G(i)]
    <2>1. \A i \in 0..(height - 1) : cell(i) \in Poly(N1)
      BY DEF Cells
    <2>2. ASSUME NEW i \in 0..(height - 1)
          PROVE  Scale(sel[i], cell(i)) = IF i = alpha THEN cell(i) ELSE Zero(N1)
      <3> HIDE DEF cell
      <3>1. CASE i = alpha
        BY <2>1, <3>1, BitTimes DEF RowIs
      <3>2. CASE i # alpha
        BY <2>1, <3>2, BitTimes DEF RowIs
      <3>3. QED BY <3>1, <3>2
    <2>3. Zero(N1) \in Poly(N1) /\ \A f \in Poly(N1) : Add(Zero(N1), f) = f /\ Add(f, Zero(N1)) = f
      BY <2>1, BitTimes
    <2>4. cell(alpha) \in Poly(N1)
      BY <2>1
    <2> HIDE DEF cell
    <2>5. ASSUME NEW i \in 0..(height - 1)
          PROVE  G(i) = IF i = 0 THEN Scale(sel[0], cell(0))
                        ELSE Add(G(i - 1), Scale(sel[i], cell(i)))
      <3>1. CASE i = 0
        BY <2>2, <3>1
      <3>2. CASE i # 0 /\ i < alpha
        <4>1. i - 1 < alpha /\ i # alpha
          BY <3>2
        <4>2. QED BY <2>2, <2>3, <3>2, <4>1
      <3>3. CASE i # 0 /\ i = alpha
        <4>1. i - 1 < alpha /\ ~(i < alpha)
          BY <3>3
        <4>2. QED BY <2>2, <2>3, <2>4, <3>3, <4>1
      <3>4. CASE i # 0 /\ i > alpha
        <4>1. ~(i - 1 < alpha) /\ ~(i < alpha) /\ i # alpha
          BY <3>4
        <4>2. QED BY <2>2, <2>3, <2>4, <3>4, <4>1
      <3>5. QED BY <3>1, <3>2, <3>3, <3>4
    <2>6. ColumnSums(g, sel, cells, j, height)
      <3>1. \A i \in 0..(height - 1) : i # 0 => i - 1 \in 0..(height - 1)
        OBVIOUS
      <3>2. \A i \in 0..(height - 1) : g[i] = G(i)
        OBVIOUS
      <3>3. g = [i \in 0..(height - 1) |-> G(i)]
        OBVIOUS
      <3> HIDE DEF g, G
      <3>4. g = [i \in 0..(height - 1) |-> IF i = 0 THEN Scale(sel[0], cell(0))
                                         ELSE Add(g[i - 1], Scale(sel[i], cell(i)))]
        BY <2>5, <3>1, <3>2, <3>3
      <3>5. QED BY <3>4 DEF ColumnSums, cell
    <2>7. g[height - 1] = cell(alpha)
      OBVIOUS
    <2> HIDE DEF g
    <2>8. QED BY <2>6, <2>7, ColumnUnfolds DEF cell
  <1>2. cells[alpha] = [j \in 0..(width - 1) |-> cells[alpha][j]]
    BY DEF Cells
  <1>3. \E f : FirstDimColumns(sel, cells, height, width) = [j \in 0..(width - 1) |-> f[j]]
    <2> DEFINE f == FirstDimColumns(sel, cells, height, width)
    <2>1. f = [j \in 0..(width - 1) |-> f[j]]
      BY DEF FirstDimColumns
    <2> HIDE DEF f
    <2>2. QED BY <2>1 DEF f
  <1>4. QED BY <1>1, <1>2, <1>3

\* The levels of the CMux tree.
CmuxLevel(bit, prev, size) ==
  [k \in 0..(size - 1) |-> CmuxPoly(bit, prev[2 * k], prev[2 * k + 1])]

CmuxLevels(g, bits, num, columns) ==
  g = [l \in 0..num |-> IF l = 0 THEN columns ELSE CmuxLevel(bits[l - 1], g[l - 1], Shl[num - l])]

LEMMA CmuxUnfolds ==
  ASSUME NEW bits, NEW num \in Nat, NEW columns, NEW g, CmuxLevels(g, bits, num, columns)
  PROVE  CmuxTree(bits, num, columns) = g[num][0]
  <1> DEFINE Solves(f) == f = [l \in 0..num |->
               IF l = 0 THEN columns
               ELSE [k \in 0..(Shl[num - l] - 1) |->
                       CmuxPoly(bits[l - 1], f[l - 1][2 * k], f[l - 1][2 * k + 1])]]
             level == CHOOSE f : Solves(f)
  <1>1. Solves(g)
    BY Zenon DEF CmuxLevels, CmuxLevel
  <1>2. Solves(level)
    BY <1>1, Zenon
  <1>3. CmuxTree(bits, num, columns) = level[num][0]
    BY Zenon DEF CmuxTree
  <1>4. CmuxLevels(level, bits, num, columns)
    BY <1>2, Zenon DEF CmuxLevels, CmuxLevel
  <1> HIDE DEF level, Solves
  <1>5. level[0] = g[0]
    <2>1. 0 \in 0..num
      OBVIOUS
    <2>2. QED BY <1>4, <2>1 DEF CmuxLevels
  <1>6. ASSUME NEW l \in 1..num, level[l - 1] = g[l - 1] PROVE level[l] = g[l]
    <2>1. l \in 0..num /\ l # 0
      OBVIOUS
    <2>2. level[l] = CmuxLevel(bits[l - 1], level[l - 1], Shl[num - l])
      BY <1>4, <2>1 DEF CmuxLevels
    <2>3. g[l] = CmuxLevel(bits[l - 1], g[l - 1], Shl[num - l])
      BY <2>1 DEF CmuxLevels
    <2>4. QED BY <1>6, <2>2, <2>3
  <1>7. \A l \in 0..num : level[l] = g[l]
    BY <1>5, <1>6, AgreeUpTo
  <1>8. num \in 0..num
    OBVIOUS
  <1>9. QED BY <1>3, <1>7, <1>8

\* cmux_tree on the bits of a column leaves that column.
LEMMA CmuxTreeSelects ==
  ASSUME NEW n, NEW num \in 0..MaxBits, NEW beta \in 0..(Shl[num] - 1),
         NEW columns \in [0..(Shl[num] - 1) -> Poly(n)]
  PROVE  CmuxTree(CmuxBits(beta, num), num, columns) = columns[beta]
  <1> DEFINE bits == CmuxBits(beta, num)
             place(l, k) == k * Shl[l] + (beta % Shl[l])
             G(l) == [k \in 0..(Shl[num - l] - 1) |-> columns[place(l, k)]]
             g == [l \in 0..num |-> G(l)]
  <1>1. num \in Nat /\ beta \in Nat /\ Shl[num] \in Nat \ {0} /\ MaxBits \in Nat
    BY ShlAssumption
  <1>2. G(0) = columns
    <2>1. num - 0 = num /\ Shl[0] = 1
      BY <1>1, ShlAssumption
    <2>2. beta % 1 = 0
      <3>1. beta % 1 \in 0..(1 - 1)
        BY <1>1, DivMod
      <3>2. QED BY <3>1
    <2>3. ASSUME NEW k \in 0..(Shl[num] - 1) PROVE place(0, k) = k
      <3>1. place(0, k) = k * Shl[0] + (beta % Shl[0])
        BY Zenon
      <3> HIDE DEF place
      <3>2. k * 1 + 0 = k
        BY <1>1
      <3>3. QED BY <2>1, <2>2, <3>1, <3>2
    <2> HIDE DEF place
    <2>4. QED BY <2>1, <2>3
  <1>3. ASSUME NEW l \in 1..num
        PROVE  G(l) = CmuxLevel(bits[l - 1], G(l - 1), Shl[num - l])
    <2>1. /\ l - 1 \in 0..(num - 1) /\ l - 1 \in 0..(MaxBits - 1) /\ (l - 1) + 1 = l
          /\ num - l \in 0..MaxBits /\ num - (l - 1) = (num - l) + 1 /\ num - l \in 0..(MaxBits - 1)
          /\ l \in 0..MaxBits /\ l - 1 \in 0..MaxBits /\ (num - l) + l = num /\ num <= MaxBits
      BY <1>1
    <2> DEFINE s == Shl[l - 1]
               w == Shl[num - l]
               b == Bit(beta, l - 1)
               q == beta % Shl[l - 1]
    <2>2. s \in Nat \ {0} /\ w \in Nat \ {0}
      BY <2>1, ShlAssumption
    <2>3. Shl[l] = 2 * s
      <3>1. Shl[(l - 1) + 1] = 2 * Shl[l - 1]
        BY <2>1, ShlDoubles
      <3>2. QED BY <2>1, <3>1
    <2>4. Shl[num - (l - 1)] = 2 * w
      <3>1. Shl[(num - l) + 1] = 2 * Shl[num - l]
        BY <2>1, ShlDoubles
      <3>2. QED BY <2>1, <3>1
    <2>5. b \in Bits /\ q \in 0..(s - 1) /\ beta % Shl[l] = q + b * s
      <3>1. b \in Bits
        BY <1>1, <2>1, DigitHigh
      <3>2. beta % Shl[(l - 1) + 1] = q + b * s /\ q \in 0..(s - 1)
        BY <1>1, <2>1, DigitLow
      <3>3. QED BY <2>1, <3>1, <3>2
    <2>6. bits[l - 1] = b
      BY <2>1 DEF CmuxBits
    <2>7. Shl[num] = w * (2 * s)
      <3>1. Shl[(num - l) + l] = Shl[num - l] * Shl[l]
        BY <2>1, ShlAssumption
      <3>2. QED BY <2>1, <2>3, <3>1
    <2>8. ASSUME NEW k \in 0..(w - 1)
          PROVE  /\ place(l - 1, 2 * k) \in 0..(Shl[num] - 1)
                 /\ place(l - 1, 2 * k + 1) \in 0..(Shl[num] - 1)
                 /\ 2 * k \in 0..(2 * w - 1) /\ 2 * k + 1 \in 0..(2 * w - 1)
                 /\ b = 0 => place(l, k) = place(l - 1, 2 * k)
                 /\ b = 1 => place(l, k) = place(l - 1, 2 * k + 1)
      <3> DEFINE u == k * (2 * s)
      <3>1. /\ place(l - 1, 2 * k) = (2 * k) * s + q
            /\ place(l - 1, 2 * k + 1) = (2 * k + 1) * s + q
            /\ place(l, k) = k * Shl[l] + (beta % Shl[l])
        BY Zenon
      <3> HIDE DEF place, s, w, b, q
      <3>2. k \in Nat /\ k + 1 <= w /\ q \in Nat /\ q < s /\ s \in Nat
        BY <2>2, <2>5
      <3>3. (k + 1) * (2 * s) <= w * (2 * s)
        BY <2>2, <3>2, Z3
      <3>4. (k + 1) * (2 * s) = u + 2 * s /\ (2 * k) * s = u
              /\ (2 * k + 1) * s = u + s /\ u \in Nat
        <4>1. \A x, y \in Nat : /\ (x + 1) * (2 * y) = x * (2 * y) + 2 * y
                                /\ (2 * x) * y = x * (2 * y)
                                /\ (2 * x + 1) * y = x * (2 * y) + y
                                /\ x * (2 * y) \in Nat
          BY Z3
        <4>2. QED BY <3>2, <4>1, Zenon
      <3>5. place(l, k) = u + (q + b * s)
        BY <2>3, <2>5, <3>1
      <3>6. Shl[num] \in Nat /\ u + 2 * s <= Shl[num]
        BY <1>1, <2>7, <3>3, <3>4
      <3> HIDE DEF u
      <3>7. /\ place(l - 1, 2 * k) = u + q
            /\ place(l - 1, 2 * k + 1) = u + s + q
        BY <3>1, <3>4, <3>2
      <3>8. /\ b = 0 => place(l, k) = u + q
            /\ b = 1 => place(l, k) = u + s + q
        BY <3>2, <3>4, <3>5
      <3>9. /\ place(l - 1, 2 * k) \in 0..(Shl[num] - 1)
            /\ place(l - 1, 2 * k + 1) \in 0..(Shl[num] - 1)
        <4> DEFINE X == Shl[num]
        <4>1. X \in Nat /\ u + 2 * s <= X
          BY <3>6
        <4> HIDE DEF X
        <4>2. u + q \in 0..(X - 1) /\ u + s + q \in 0..(X - 1)
          BY <3>2, <3>4, <4>1
        <4>3. QED BY <3>7, <4>2 DEF X
      <3>10. 2 * k \in 0..(2 * w - 1) /\ 2 * k + 1 \in 0..(2 * w - 1)
        BY <2>2, <3>2
      <3>11. QED BY <3>7, <3>8, <3>9, <3>10
    <2>9. ASSUME NEW k \in 0..(w - 1)
          PROVE  columns[place(l, k)] = CmuxPoly(b, G(l - 1)[2 * k], G(l - 1)[2 * k + 1])
      <3>1. G(l - 1) = [m \in 0..(2 * w - 1) |-> columns[place(l - 1, m)]]
        <4>1. G(l - 1) = [m \in 0..(Shl[num - (l - 1)] - 1) |-> columns[place(l - 1, m)]]
          OBVIOUS
        <4> HIDE DEF place, w, G
        <4>2. QED BY <2>4, <4>1
      <3> DEFINE cell(m) == columns[place(l - 1, m)]
                 prev == [m \in 0..(2 * w - 1) |-> cell(m)]
      <3> HIDE DEF place, w, b, G
      <3>2. prev[2 * k] = cell(2 * k) /\ prev[2 * k + 1] = cell(2 * k + 1)
        <4>1. 2 * k \in 0..(2 * w - 1) /\ 2 * k + 1 \in 0..(2 * w - 1)
          BY <2>8
        <4> HIDE DEF cell
        <4>2. QED BY <4>1
      <3>5. G(l - 1) = prev
        BY <3>1, Zenon
      <3> HIDE DEF prev
      <3>3. columns[place(l - 1, 2 * k)] \in Poly(n) /\ columns[place(l - 1, 2 * k + 1)] \in Poly(n)
        BY <2>8
      <3>4. CmuxPoly(b, G(l - 1)[2 * k], G(l - 1)[2 * k + 1])
              = IF b = 1 THEN columns[place(l - 1, 2 * k + 1)] ELSE columns[place(l - 1, 2 * k)]
        BY <2>5, <3>2, <3>3, <3>5, CmuxChooses
      <3>6. QED BY <2>5, <2>8, <3>4 DEF Bits
    <2>10. G(l) = [k \in 0..(w - 1) |-> columns[place(l, k)]]
      OBVIOUS
    <2> HIDE DEF G, w, b, place, bits
    <2>11. QED BY <2>6, <2>9, <2>10 DEF CmuxLevel, w
  <1>4. CmuxLevels(g, bits, num, columns)
    <2>1. \A l \in 0..num : l # 0 => l \in 1..num /\ l - 1 \in 0..num
      BY <1>1
    <2>2. \A l \in 0..num : g[l] = G(l)
      OBVIOUS
    <2>3. g = [l \in 0..num |-> G(l)]
      OBVIOUS
    <2> HIDE DEF g, G, bits
    <2> DEFINE R(l) == IF l = 0 THEN columns ELSE CmuxLevel(bits[l - 1], g[l - 1], Shl[num - l])
    <2>4. \A l \in 0..num : G(l) = R(l)
      BY <1>2, <1>3, <2>1, <2>2
    <2>5. g = [l \in 0..num |-> R(l)]
      <3> HIDE DEF R
      <3>1. QED BY <2>3, <2>4
    <2>6. QED BY <2>5, Zenon DEF CmuxLevels
  <1>5. g[num][0] = columns[beta]
    <2>1. beta % Shl[num] = beta
      <3>1. beta < Shl[num]
        BY <1>1
      <3>2. QED BY <1>1, <3>1, ModSmall
    <2>2. num - num = 0 /\ Shl[0] = 1 /\ num \in 0..num
      BY <1>1, ShlAssumption
    <2>3. place(num, 0) = beta
      BY <1>1, <2>1
    <2> HIDE DEF place
    <2>4. QED BY <2>2, <2>3
  <1> HIDE DEF g, bits
  <1>6. CmuxTree(bits, num, columns) = g[num][0]
    BY <1>1, <1>4, CmuxUnfolds
  <1>7. QED BY <1>5, <1>6 DEF bits

\* The rotation by -s that a set bit applies, as the negated X^(n - s).
RotatedBack(f, n, s) == Neg(MulXPow(f, n, n - s))

\* It shifts the coefficients s places down; s of them wrap around.
LEMMA RotatedBackShifts ==
  ASSUME NEW n \in Nat \ {0}, NEW s \in 1..(n - 1), NEW f \in Poly(n)
  PROVE  /\ RotatedBack(f, n, s) \in Poly(n)
         /\ \A x \in 0..(n - 1) : x + s < n => RotatedBack(f, n, s)[x] = f[x + s]
  <1> DEFINE k == n - s
             source(x) == (x + n - (k % n)) % n
             moved == [x \in 0..(n - 1) |-> f[source(x)]]
             g == MulXPow(f, n, k)
  <1>1. k \in 1..(n - 1) /\ k \in Nat /\ s \in Nat
    OBVIOUS
  <1>2. k % n = k /\ k % (2 * n) = k
    <2>1. k < n /\ k < 2 * n /\ 2 * n \in Nat \ {0}
      BY <1>1
    <2> HIDE DEF k
    <2>2. QED BY <1>1, <2>1, ModSmall
  <1>3. ~(k % (2 * n) >= n)
    BY <1>1, <1>2
  <1>4. g = [x \in 0..(n - 1) |->
               IF (source(x) + (k % n) >= n) # (k % (2 * n) >= n) THEN Neg(moved)[x] ELSE moved[x]]
    BY Zenon DEF MulXPow
  <1>5. ASSUME NEW x \in 0..(n - 1)
        PROVE  source(x) \in 0..(n - 1) /\ (x + s < n => source(x) = x + s)
    <2>1. x + n - (k % n) = x + s /\ x + s \in Nat
      BY <1>1, <1>2
    <2>2. source(x) = (x + s) % n
      BY <2>1
    <2> HIDE DEF source
    <2>3. QED BY <2>1, <2>2, ModSmall
  <1> HIDE DEF source
  <1>6. \A x \in 0..(n - 1) : f[source(x)] \in Coeff
    BY <1>5 DEF Poly
  <1>7. moved \in Poly(n)
    BY <1>6 DEF Poly
  <1>8. Neg(moved) \in Poly(n) /\ \A x \in 0..(n - 1) : Neg(moved)[x] = (P - moved[x]) % P
    <2>1. Neg(moved) \in Poly(n)
      BY <1>7, BitTimes
    <2>2. DOMAIN moved = 0..(n - 1)
      OBVIOUS
    <2> HIDE DEF moved
    <2>3. QED BY <2>1, <2>2 DEF Neg
  <1> HIDE DEF g, k
  <1>9. \A x \in 0..(n - 1) : x + s < n => g[x] = (P - f[x + s]) % P
    <2> SUFFICES ASSUME NEW x \in 0..(n - 1), x + s < n PROVE g[x] = (P - f[x + s]) % P
      OBVIOUS
    <2>1. source(x) = x + s /\ source(x) + (k % n) >= n
      BY <1>1, <1>2, <1>5 DEF k
    <2>2. g[x] = Neg(moved)[x]
      BY <1>3, <1>4, <2>1
    <2>3. moved[x] = f[x + s]
      BY <2>1
    <2>4. QED BY <1>8, <2>2, <2>3
  <1>10. g \in Poly(n)
    <2> HIDE DEF moved
    <2>1. \A x \in 0..(n - 1) : Neg(moved)[x] \in Coeff /\ moved[x] \in Coeff
      BY <1>7, <1>8 DEF Poly
    <2> DEFINE G(x) == IF (source(x) + (k % n) >= n) # (k % (2 * n) >= n)
                       THEN Neg(moved)[x] ELSE moved[x]
    <2>2. \A x \in 0..(n - 1) : G(x) \in Coeff
      BY <2>1
    <2>3. g = [x \in 0..(n - 1) |-> G(x)]
      BY <1>4
    <2> HIDE DEF G
    <2>4. QED BY <2>2, <2>3 DEF Poly
  <1>11. RotatedBack(f, n, s) = Neg(g)
    BY DEF RotatedBack, g, k
  <1>12. Neg(g) \in Poly(n)
    BY <1>10, BitTimes
  <1>13. ASSUME NEW x \in 0..(n - 1), x + s < n PROVE Neg(g)[x] = f[x + s]
    <2>1. DOMAIN g = 0..(n - 1)
      BY <1>10 DEF Poly
    <2>2. Neg(g)[x] = (P - g[x]) % P
      BY <2>1 DEF Neg
    <2>3. f[x + s] \in Coeff
      <3>1. x + s \in 0..(n - 1)
        BY <1>1, <1>13
      <3>2. QED BY <3>1 DEF Poly
    <2>4. QED BY <1>9, <1>13, <2>2, <2>3, NegCoeff
  <1>14. QED BY <1>11, <1>12, <1>13

\* The rotations one after the other.
CrotSteps(g, bits, num, ct) ==
  g = [i \in 0..num |-> IF i = 0 THEN ct
                        ELSE CmuxPoly(bits[i - 1], g[i - 1], RotatedBack(g[i - 1], N1, Shl[i - 1]))]

LEMMA CrotUnfolds ==
  ASSUME NEW bits, NEW num \in Nat, NEW ct, NEW g, CrotSteps(g, bits, num, ct)
  PROVE  Crot(bits, num, ct) = g[num]
  <1> DEFINE Solves(f) == f = [i \in 0..num |->
               IF i = 0 THEN ct
               ELSE CmuxPoly(bits[i - 1], f[i - 1], Neg(MulXPow(f[i - 1], N1, N1 - Shl[i - 1])))]
             result == CHOOSE f : Solves(f)
  <1>1. Solves(g)
    BY Zenon DEF CrotSteps, RotatedBack
  <1>2. Solves(result)
    BY <1>1, Zenon
  <1>3. Crot(bits, num, ct) = result[num]
    BY Zenon DEF Crot
  <1>4. CrotSteps(result, bits, num, ct)
    BY <1>2, Zenon DEF CrotSteps, RotatedBack
  <1> HIDE DEF result, Solves
  <1>5. result[0] = g[0]
    <2>1. 0 \in 0..num
      OBVIOUS
    <2>2. QED BY <1>4, <2>1 DEF CrotSteps
  <1>6. ASSUME NEW i \in 1..num, result[i - 1] = g[i - 1] PROVE result[i] = g[i]
    <2>1. i \in 0..num /\ i # 0
      OBVIOUS
    <2>2. result[i] = CmuxPoly(bits[i - 1], result[i - 1], RotatedBack(result[i - 1], N1, Shl[i - 1]))
      BY <1>4, <2>1 DEF CrotSteps
    <2>3. g[i] = CmuxPoly(bits[i - 1], g[i - 1], RotatedBack(g[i - 1], N1, Shl[i - 1]))
      BY <2>1 DEF CrotSteps
    <2>4. QED BY <1>6, <2>2, <2>3
  <1>7. \A i \in 0..num : result[i] = g[i]
    BY <1>5, <1>6, AgreeUpTo
  <1>8. num \in 0..num
    OBVIOUS
  <1>9. QED BY <1>3, <1>7, <1>8

\* crot on the bits of a slot shifts the coefficients down by the slot.
LEMMA CrotShifts ==
  ASSUME NEW num \in 0..MaxBits, Shl[num] <= N1, N1 \in Nat \ {0},
         NEW gamma \in 0..(Shl[num] - 1), NEW ct \in Poly(N1)
  PROVE  /\ Crot(CrotBits(gamma, num), num, ct) \in Poly(N1)
         /\ \A x \in 0..(N1 - 1) : x + gamma < N1 =>
              Crot(CrotBits(gamma, num), num, ct)[x] = ct[x + gamma]
  <1> DEFINE bits == CrotBits(gamma, num)
             V == Poly(N1)
             F == [i \in 1..num |-> [f \in V |-> CmuxPoly(bits[i - 1], f, RotatedBack(f, N1, Shl[i - 1]))]]
  <1>1. num \in Nat /\ gamma \in Nat /\ MaxBits \in Nat
    BY ShlAssumption
  <1>2. ASSUME NEW i \in 1..num
        PROVE  /\ i - 1 \in 0..(MaxBits - 1) /\ (i - 1) + 1 = i /\ i - 1 \in 0..(num - 1)
               /\ Shl[i - 1] \in 1..(N1 - 1)
               /\ bits[i - 1] = Bit(gamma, i - 1) /\ bits[i - 1] \in Bits
    <2>1. i - 1 \in 0..(MaxBits - 1) /\ (i - 1) + 1 = i /\ i - 1 \in 0..MaxBits /\ i - 1 < num
          /\ i - 1 \in 0..(num - 1)
      BY <1>1
    <2>2. Shl[i - 1] < Shl[num]
      BY <2>1, ShlGrows
    <2>3. Shl[i - 1] \in Nat \ {0} /\ Shl[num] \in Nat
      BY <2>1, ShlAssumption
    <2>4. bits[i - 1] = Bit(gamma, i - 1)
      BY <2>1 DEF CrotBits
    <2>5. Bit(gamma, i - 1) \in Bits
      BY <1>1, <2>1, DigitHigh
    <2> HIDE DEF bits
    <2>6. QED BY <2>1, <2>2, <2>3, <2>4, <2>5
  <1> HIDE DEF bits
  <1>3. ASSUME NEW i \in 1..num, NEW f \in V
        PROVE  /\ CmuxPoly(bits[i - 1], f, RotatedBack(f, N1, Shl[i - 1])) \in V
               /\ CmuxPoly(bits[i - 1], f, RotatedBack(f, N1, Shl[i - 1]))
                    = IF bits[i - 1] = 1 THEN RotatedBack(f, N1, Shl[i - 1]) ELSE f
    <2>1. RotatedBack(f, N1, Shl[i - 1]) \in V
      BY <1>2, RotatedBackShifts
    <2>2. QED BY <1>2, <2>1, CmuxChooses
  <1>4. F \in [1..num -> [V -> V]]
    BY <1>3
  <1>5. PICK g : g \in [0..num -> V] /\ Obeys(g, num, ct, F)
    <2> HIDE DEF F, V
    <2>1. ct \in V
      BY DEF V
    <2>2. QED BY <1>1, <1>4, <2>1, Recursion
  <1>6. ASSUME NEW i \in 1..num
        PROVE  /\ g[i - 1] \in V
               /\ g[i] = CmuxPoly(bits[i - 1], g[i - 1], RotatedBack(g[i - 1], N1, Shl[i - 1]))
    <2>1. i - 1 \in 0..num
      BY <1>1
    <2>2. g[i - 1] \in V
      BY <1>5, <2>1
    <2> HIDE DEF V
    <2>3. QED BY <1>5, <2>2 DEF Obeys
  <1>7. CrotSteps(g, bits, num, ct)
    <2> DEFINE R(i) == IF i = 0 THEN ct
                       ELSE CmuxPoly(bits[i - 1], g[i - 1], RotatedBack(g[i - 1], N1, Shl[i - 1]))
    <2>1. \A i \in 0..num : i # 0 => i \in 1..num
      BY <1>1
    <2>2. \A i \in 0..num : g[i] = R(i)
      BY <1>5, <1>6, <2>1 DEF Obeys
    <2> HIDE DEF R
    <2>3. g = [i \in 0..num |-> R(i)]
      BY <1>5, <2>2
    <2>4. QED BY <2>3, Zenon DEF CrotSteps, R
  <1>8. Crot(bits, num, ct) = g[num]
    BY <1>1, <1>7, CrotUnfolds
  <1> DEFINE low(i) == gamma % Shl[i]
             Shifted(i) == \A x \in 0..(N1 - 1) : x + low(i) < N1 => g[i][x] = ct[x + low(i)]
             T == {i \in 0..num : Shifted(i)}
  <1>9. 0 \in T
    <2>1. low(0) = 0
      <3>1. gamma % 1 \in 0..(1 - 1)
        BY <1>1, DivMod
      <3>2. QED BY <3>1, ShlAssumption
    <2> HIDE DEF low
    <2>2. Shifted(0)
      BY <1>5, <2>1 DEF Obeys
    <2>3. QED BY <1>1, <2>2
  <1>10. ASSUME NEW j \in 0..(num - 1), j \in T PROVE j + 1 \in T
    <2> DEFINE i == j + 1
               s == Shl[j]
               b == Bit(gamma, j)
    <2>1. i \in 1..num /\ i - 1 = j /\ i \in 0..num /\ j \in 0..(MaxBits - 1)
      BY <1>1
    <2>2. s \in 1..(N1 - 1) /\ bits[j] = b /\ b \in Bits /\ g[j] \in V
      BY <1>2, <1>6, <2>1
    <2>3. low(j + 1) = low(j) + b * s /\ low(j) \in Nat
      <3>1. low(j) \in 0..(s - 1) /\ low(j + 1) = low(j) + b * s
        BY <1>1, <2>1, DigitLow
      <3>2. QED BY <3>1
    <2>4. g[j + 1] = IF b = 1 THEN RotatedBack(g[j], N1, s) ELSE g[j]
      <3>1. g[i] = IF bits[i - 1] = 1 THEN RotatedBack(g[i - 1], N1, Shl[i - 1]) ELSE g[i - 1]
        BY <1>3, <1>6, <2>1
      <3>2. QED BY <2>1, <2>2, <3>1
    <2>5. Shifted(j)
      BY <1>10
    <2> HIDE DEF low, s, b
    <2>6. Shifted(j + 1)
      <3>1. CASE b = 0
        <4>1. low(j + 1) = low(j)
          BY <2>2, <2>3, <3>1
        <4>2. QED BY <2>4, <2>5, <3>1, <4>1
      <3>2. CASE b = 1
        <4>1. low(j + 1) = low(j) + s
          BY <2>2, <2>3, <3>2
        <4>2. ASSUME NEW x \in 0..(N1 - 1), x + low(j + 1) < N1
              PROVE  g[j + 1][x] = ct[x + low(j + 1)]
          <5>1. x + s \in 0..(N1 - 1) /\ x + s < N1 /\ (x + s) + low(j) = x + low(j + 1)
            BY <2>2, <2>3, <4>1, <4>2
          <5>2. g[j + 1][x] = g[j][x + s]
            <6>1. g[j + 1] = RotatedBack(g[j], N1, s)
              BY <2>4, <3>2
            <6>2. QED BY <2>2, <5>1, <6>1, RotatedBackShifts
          <5>3. g[j][x + s] = ct[(x + s) + low(j)]
            BY <2>5, <4>2, <5>1
          <5>4. QED BY <5>1, <5>2, <5>3
        <4>3. QED BY <4>2
      <3>3. QED BY <2>2, <3>1, <3>2 DEF Bits
    <2> HIDE DEF Shifted
    <2>7. QED BY <2>1, <2>6
  <1> HIDE DEF T
  <1>11. \A i \in 0..num : i \in T
    BY <1>1, <1>9, <1>10, SetInduction
  <1>12. Shifted(num)
    BY <1>1, <1>11 DEF T
  <1>13. low(num) = gamma
    <2>1. gamma < Shl[num] /\ Shl[num] \in Nat \ {0}
      BY <1>1, ShlAssumption
    <2>2. QED BY <1>1, <2>1, ModSmall
  <1>14. g[num] \in Poly(N1)
    BY <1>1, <1>5
  <1> HIDE DEF low
  <1>15. QED BY <1>8, <1>12, <1>13, <1>14 DEF bits

-----------------------------------------------------------------------------
(***************************************************************************)
(* Stage 1: the bits of a query.                                           *)
(***************************************************************************)

\* The message of LWE y, counted from 1, of a group.
GroupMessage(bits, base, y) ==
  IF bits[(y - 1) \div L_QUERY] = 0 THEN <<>> ELSE <<base, (y - 1) % L_QUERY>>

\* Group number `from` on of a query encrypts the bits under the base.
HoldsGroup(query, from, num, bits, base) ==
  \A y \in 1..(num * L_QUERY) : query[from * L_QUERY + y] = GroupMessage(bits, base, y)

IsSequence(s) == \E S : s \in Seq(S)

LEMMA LevelsNat == L_QUERY \in Nat \ {0}
  BY DegreesAssumption DEF ViaBCheck, ViaCCheck

LEMMA GroupPushed ==
  ASSUME NEW bits, NEW num \in Nat, NEW base
  PROVE  LET s == PushBitGroup(bits, num, base)
         IN  /\ IsSequence(s)
             /\ Len(s) = num * L_QUERY
             /\ \A y \in 1..(num * L_QUERY) : s[y] = GroupMessage(bits, base, y)
  <1> DEFINE n == num * L_QUERY
             s == [y \in 1..n |-> GroupMessage(bits, base, y)]
             S == {GroupMessage(bits, base, y) : y \in 1..n}
  <1>1. n \in Nat
    BY LevelsNat, Z3
  <1>2. PushBitGroup(bits, num, base) = s
    BY DEF PushBitGroup, GroupMessage
  <1>3. \A y \in 1..n : s[y] = GroupMessage(bits, base, y)
    OBVIOUS
  <1> HIDE DEF n
  <1>4. s \in Seq(S) /\ Len(s) = n
    BY <1>1
  <1> HIDE DEF s, S
  <1>5. QED BY <1>2, <1>3, <1>4 DEF n, IsSequence

\* The server reads back the bits of a group, under the base they were
\* encrypted for.
LEMMA GroupRead ==
  ASSUME NEW query, NEW from \in Nat, NEW num \in Nat, NEW bits \in [0..(num - 1) -> Bits], NEW base,
         HoldsGroup(query, from, num, bits, base)
  PROVE  QueryDecomp(query, from, num, base) = bits
  <1> DEFINE L == L_QUERY
             group(b) == SubSeq(query, (from + b) * L + 1, (from + b + 1) * L)
  <1>1. L \in Nat \ {0}
    BY LevelsNat
  <1>2. ASSUME NEW b \in 0..(num - 1) PROVE Rgsw(group(b), base) = bits[b]
    <2> DEFINE lo == (from + b) * L + 1
               hi == (from + b + 1) * L
               lwes == group(b)
    <2> HIDE DEF L
    <2>1. /\ lo \in Int /\ hi \in Int /\ hi - lo + 1 = L /\ lo <= hi
          /\ b * L \in Nat /\ b * L + L <= num * L /\ lo = from * L + b * L + 1
      <3>1. b \in Nat /\ b + 1 <= num
        OBVIOUS
      <3>2. \A x, y \in Nat : (x + y) * L = x * L + y * L /\ x * L \in Nat
        BY <1>1, Z3
      <3>3. (b + 1) * L <= num * L
        BY <1>1, <3>1, Z3
      <3>4. (from + b) * L = from * L + b * L
        BY <3>1, <3>2
      <3>5. (b + 1) * L = b * L + L
        BY <1>1, <3>1, Z3
      <3>10. (from + (b + 1)) * L = from * L + (b + 1) * L
        BY <3>1, <3>2
      <3>6. from + b + 1 = from + (b + 1)
        BY <3>1
      <3>7. from * L \in Nat /\ b * L \in Nat
        BY <3>1, <3>2
      <3>8. (from + b + 1) * L = from * L + (b * L + L)
        BY <3>5, <3>6, <3>10
      <3>9. QED BY <1>1, <3>3, <3>4, <3>5, <3>7, <3>8
    <2> DEFINE S == {query[i] : i \in lo..hi}
    <2>2. lwes = SubSeq(query, lo, hi)
      OBVIOUS
    <2> HIDE DEF lo, hi, lwes
    <2>3. /\ lwes \in Seq(S) /\ Len(lwes) = L
          /\ \A i \in 1..L : lwes[i] = query[lo + i - 1]
      <3>1. \A i \in lo..hi : query[i] \in S
        OBVIOUS
      <3> HIDE DEF S
      <3>2. lo \in Int /\ hi \in Int
        BY <2>1
      <3>3. /\ SubSeq(query, lo, hi) \in Seq(S)
            /\ Len(SubSeq(query, lo, hi)) = IF lo <= hi THEN hi - lo + 1 ELSE 0
        BY <3>1, <3>2, SubSeqProperties
      <3>4. \A i \in 1..(hi - lo + 1) : SubSeq(query, lo, hi)[i] = query[lo + i - 1]
        BY <3>1, <3>2, SubSeqProperties
      <3>5. QED BY <2>1, <2>2, <3>3, <3>4
    <2>4. DOMAIN lwes = 1..L
      BY <2>3, LenProperties
    <2>5. ASSUME NEW i \in 1..L
          PROVE  lwes[i] = IF bits[b] = 0 THEN <<>> ELSE <<base, i - 1>>
      <3> DEFINE y == b * L + i
      <3>1. y \in 1..(num * L) /\ lo + i - 1 = from * L + y
        <4>1. num * L \in Nat
          BY <1>1, Z3
        <4>2. from * L \in Nat
          BY <1>1, Z3
        <4>3. QED BY <1>1, <2>1, <4>1, <4>2
      <3>2. (y - 1) \div L = b /\ (y - 1) % L = i - 1
        <4> DEFINE v == y - 1
                   r == i - 1
        <4>1. b * L = L * b
          BY <1>1, Z3
        <4>2. v = L * b + r /\ r \in 0..(L - 1) /\ v \in Nat /\ b \in Nat
          BY <1>1, <2>1, <4>1
        <4> HIDE DEF v, r
        <4>3. v \div L = b /\ v % L = r
          BY <1>1, <4>2, DivModUnique
        <4>4. QED BY <4>3 DEF v, r
      <3> HIDE DEF y
      <3>3. lwes[i] = GroupMessage(bits, base, y)
        BY <2>3, <3>1 DEF L, HoldsGroup
      <3>4. QED BY <3>2, <3>3 DEF GroupMessage, L
    <2>6. 1 \in 1..L
      BY <1>1
    <2>7. \A i : <<>> # <<base, i>>
      OBVIOUS
    <2>8. bits[b] \in Bits
      OBVIOUS
    <2>9. CASE bits[b] = 0
      <3>1. \A i \in DOMAIN lwes : lwes[i] = <<>>
        BY <2>4, <2>5, <2>9
      <3>2. ~ \A i \in DOMAIN lwes : lwes[i] = <<base, i - 1>>
        BY <2>4, <2>6, <2>7, <3>1
      <3>3. QED BY <2>9, <3>1, <3>2 DEF Rgsw, lwes
    <2>10. CASE bits[b] = 1
      <3>1. \A i \in DOMAIN lwes : lwes[i] = <<base, i - 1>>
        BY <2>4, <2>5, <2>10
      <3>2. ~ \A i \in DOMAIN lwes : lwes[i] = <<>>
        BY <2>4, <2>6, <2>7, <3>1
      <3>3. QED BY <2>10, <3>1, <3>2 DEF Rgsw, lwes
    <2>11. QED BY <2>8, <2>9, <2>10 DEF Bits
  <1>3. QueryDecomp(query, from, num, base) = [b \in 0..(num - 1) |-> Rgsw(group(b), base)]
    BY DEF QueryDecomp
  <1> HIDE DEF group
  <1>4. QED BY <1>2, <1>3

\* u is s followed by t.
Joins(u, s, t) ==
  /\ IsSequence(u)
  /\ Len(u) = Len(s) + Len(t)
  /\ \A x \in 1..Len(s) : u[x] = s[x]
  /\ \A x \in 1..Len(t) : u[Len(s) + x] = t[x]

LEMMA ConcatAt ==
  ASSUME NEW s, NEW t, IsSequence(s), IsSequence(t)
  PROVE  Joins(s \o t, s, t)
  <1>1. PICK A, B : s \in Seq(A) /\ t \in Seq(B)
    BY DEF IsSequence
  <1>2. s \in Seq(A \cup B) /\ t \in Seq(A \cup B)
    BY <1>1
  <1>3. Len(s) \in Nat /\ Len(t) \in Nat
    BY <1>1
  <1>4. /\ s \o t \in Seq(A \cup B)
        /\ Len(s \o t) = Len(s) + Len(t)
        /\ \A x \in 1..(Len(s) + Len(t)) : (s \o t)[x] = IF x <= Len(s) THEN s[x] ELSE t[x - Len(s)]
    BY <1>2, ConcatProperties
  <1>5. \A x \in 1..Len(s) : (s \o t)[x] = s[x]
    BY <1>3, <1>4
  <1>6. \A x \in 1..Len(t) : (s \o t)[Len(s) + x] = t[x]
    <2> SUFFICES ASSUME NEW x \in 1..Len(t) PROVE (s \o t)[Len(s) + x] = t[x]
      OBVIOUS
    <2>1. Len(s) + x \in 1..(Len(s) + Len(t)) /\ ~(Len(s) + x <= Len(s)) /\ (Len(s) + x) - Len(s) = x
      BY <1>3
    <2>2. QED BY <1>4, <2>1
  <1>7. QED BY <1>3, <1>4, <1>5, <1>6 DEF IsSequence, Joins

LEMMA DigitsAreBits ==
  ASSUME NEW x \in Nat, NEW num \in 0..MaxBits
  PROVE  /\ DmuxBits(x, num) \in [0..(num - 1) -> Bits]
         /\ CmuxBits(x, num) \in [0..(num - 1) -> Bits]
         /\ CrotBits(x, num) \in [0..(num - 1) -> Bits]
  <1>1. MaxBits \in Nat
    BY ShlAssumption
  <1>2. ASSUME NEW i \in 0..(num - 1)
        PROVE  Bit(x, i) \in Bits /\ Bit(x, num - 1 - i) \in Bits
    <2>1. i \in 0..(MaxBits - 1) /\ num - 1 - i \in 0..(MaxBits - 1)
      BY <1>1
    <2>2. QED BY <2>1, DigitHigh
  <1>3. QED BY <1>2 DEF DmuxBits, CmuxBits, CrotBits

\* query_decomp gives back what build_compressed_query encrypted.
LEMMA QueryRead ==
  ASSUME NEW index, NEW i, NEW j, NEW d, NEW b1, NEW b2,
         IsPowerOfTwo(i), IsPowerOfTwo(j), IsPowerOfTwo(d),
         DecomposeIndex(index, i, j).alpha \in Nat,
         DecomposeIndex(index, i, j).beta \in Nat,
         DecomposeIndex(index, i, j).gamma \in Nat
  PROVE  LET query == BuildCompressedQuery(index, i, j, d, b1, b2)
             split == DecomposeIndex(index, i, j)
             nd == Log2(i)
             nc == Log2(j)
             nr == Log2(d)
         IN  /\ QueryDecomp(query, 0, nd, b1) = DmuxBits(split.alpha, nd)
             /\ QueryDecomp(query, nd, nc, b2) = CmuxBits(split.beta, nc)
             /\ QueryDecomp(query, nd + nc, nr, b2) = CrotBits(split.gamma, nr)
             /\ Len(query) = (nd + nc + nr) * L_QUERY
  <1> DEFINE split == DecomposeIndex(index, i, j)
             nd == Log2(i)
             nc == Log2(j)
             nr == Log2(d)
             L == L_QUERY
             B1 == DmuxBits(split.alpha, nd)
             B2 == CmuxBits(split.beta, nc)
             B3 == CrotBits(split.gamma, nr)
             s1 == PushBitGroup(B1, nd, b1)
             s2 == PushBitGroup(B2, nc, b2)
             s3 == PushBitGroup(B3, nr, b2)
             query == BuildCompressedQuery(index, i, j, d, b1, b2)
  <1>1. /\ nd = CeilLog2(i) /\ nc = CeilLog2(j) /\ nr = CeilLog2(d)
        /\ nd \in 0..MaxBits /\ nc \in 0..MaxBits /\ nr \in 0..MaxBits
    BY LogsAgree
  <1>2. query = s1 \o s2 \o s3
    <2>1. query = LET nd2 == CeilLog2(i)
                      nc2 == CeilLog2(j)
                      nr2 == CeilLog2(d)
                  IN  PushBitGroup(DmuxBits(split.alpha, nd2), nd2, b1)
                        \o PushBitGroup(CmuxBits(split.beta, nc2), nc2, b2)
                        \o PushBitGroup(CrotBits(split.gamma, nr2), nr2, b2)
      BY Zenon DEF BuildCompressedQuery
    <2> HIDE DEF query, nd, nc, nr, split
    <2>2. QED BY <1>1, <2>1, Zenon
  <1>3. B1 \in [0..(nd - 1) -> Bits] /\ B2 \in [0..(nc - 1) -> Bits] /\ B3 \in [0..(nr - 1) -> Bits]
    <2>1. split.alpha \in Nat /\ split.beta \in Nat /\ split.gamma \in Nat
      OBVIOUS
    <2> HIDE DEF split, nd, nc, nr
    <2>2. QED BY <1>1, <2>1, DigitsAreBits
  <1> HIDE DEF split, nd, nc, nr, B1, B2, B3, query
  <1>4. nd \in Nat /\ nc \in Nat /\ nr \in Nat
    BY <1>1, ShlAssumption
  <1>5. /\ IsSequence(s1)
        /\ Len(s1) = nd * L
        /\ \A y \in 1..(nd * L) : s1[y] = GroupMessage(B1, b1, y)
    BY <1>4, GroupPushed
  <1>6. /\ IsSequence(s2)
        /\ Len(s2) = nc * L
        /\ \A y \in 1..(nc * L) : s2[y] = GroupMessage(B2, b2, y)
    BY <1>4, GroupPushed
  <1>7. /\ IsSequence(s3)
        /\ Len(s3) = nr * L
        /\ \A y \in 1..(nr * L) : s3[y] = GroupMessage(B3, b2, y)
    BY <1>4, GroupPushed
  <1> HIDE DEF s1, s2, s3
  <1> DEFINE t == s1 \o s2
  <1>8. Joins(t, s1, s2)
    BY <1>5, <1>6, ConcatAt
  <1> HIDE DEF t
  <1>9. Joins(query, t, s3)
    <2>1. query = t \o s3
      BY <1>2 DEF t
    <2>2. IsSequence(t)
      BY <1>8 DEF Joins
    <2>3. QED BY <1>7, <2>1, <2>2, ConcatAt
  <1>10. /\ nd * L \in Nat /\ nc * L \in Nat /\ nr * L \in Nat
         /\ (nd + nc) * L = nd * L + nc * L
         /\ (nd + nc + nr) * L = nd * L + nc * L + nr * L
         /\ 0 * L = 0
    BY <1>4, LevelsNat, Z3
  <1> HIDE DEF L
  <1>11. HoldsGroup(query, 0, nd, B1, b1)
    <2> SUFFICES ASSUME NEW y \in 1..(nd * L) PROVE query[0 * L + y] = GroupMessage(B1, b1, y)
      BY DEF HoldsGroup, L
    <2>1. y \in 1..Len(t) /\ y \in 1..Len(s1) /\ 0 * L + y = y
      BY <1>5, <1>6, <1>8, <1>10 DEF Joins
    <2>2. QED BY <1>5, <1>8, <1>9, <2>1 DEF Joins
  <1>12. HoldsGroup(query, nd, nc, B2, b2)
    <2> SUFFICES ASSUME NEW y \in 1..(nc * L) PROVE query[nd * L + y] = GroupMessage(B2, b2, y)
      BY DEF HoldsGroup, L
    <2>1. nd * L + y \in 1..Len(t) /\ y \in 1..Len(s2)
      BY <1>5, <1>6, <1>8, <1>10 DEF Joins
    <2>2. QED BY <1>5, <1>6, <1>8, <1>9, <2>1 DEF Joins
  <1>13. HoldsGroup(query, nd + nc, nr, B3, b2)
    <2> SUFFICES ASSUME NEW y \in 1..(nr * L) PROVE query[(nd + nc) * L + y] = GroupMessage(B3, b2, y)
      BY DEF HoldsGroup, L
    <2>1. y \in 1..Len(s3)
      BY <1>7
    <2>3. (nd + nc) * L = Len(t)
      BY <1>5, <1>6, <1>8, <1>10 DEF Joins
    <2>4. query[Len(t) + y] = s3[y]
      BY <1>9, <2>1 DEF Joins
    <2>5. s3[y] = GroupMessage(B3, b2, y)
      BY <1>7
    <2>6. QED BY <2>3, <2>4, <2>5
  <1>14. QueryDecomp(query, 0, nd, b1) = B1
    BY <1>3, <1>4, <1>11, GroupRead
  <1>15. QueryDecomp(query, nd, nc, b2) = B2
    BY <1>3, <1>4, <1>12, GroupRead
  <1>16. QueryDecomp(query, nd + nc, nr, b2) = B3
    <2>1. nd + nc \in Nat
      BY <1>4
    <2>2. QED BY <1>3, <1>4, <1>13, <2>1, GroupRead
  <1>17. Len(query) = (nd + nc + nr) * L
    BY <1>5, <1>6, <1>7, <1>8, <1>9, <1>10 DEF Joins
  <1>18. QED BY <1>14, <1>15, <1>16, <1>17 DEF query, nd, nc, nr, split, B1, B2, B3, L

-----------------------------------------------------------------------------
(***************************************************************************)
(* Answers.                                                                *)
(***************************************************************************)

\* q is a query for the index, for servers that rotate by d.
Honest(q, index, i, j, d, p) ==
  q = BuildCompressedQuery(index, i, j, d, p.base_1, p.base_2)

\* ct is the cell of the index, turned down by its slot.
Turned(ct, cells, index, i, j) ==
  LET at == DecomposeIndex(index, i, j)
  IN  /\ ct \in Poly(N1)
      /\ \A x \in 0..(N1 - 1) : x + at.gamma < N1 => ct[x] = cells[at.alpha][at.beta][x + at.gamma]

PrefixServes(q, p, i, j, cells, n, index) ==
  \E ct : AnswerThroughCrot(q, p, i, j, cells, n) = Ok(ct) /\ Turned(ct, cells, index, i, j)

\* Up to the rotation, an honest query is answered by the cell its index
\* belongs to, its slots shifted down by the slot of the index.
LEMMA PrefixAnswers ==
  ASSUME NEW i, NEW j, IsPowerOfTwo(i), IsPowerOfTwo(j), NEW n \in {N2, N3},
         NEW index \in Nat, index < (N1 \div n) * (i * j), NEW p,
         NEW cells \in Cells(i, j), NEW q, Honest(q, index, i, j, N1 \div n, p)
  PROVE  /\ PrefixServes(q, p, i, j, cells, n, index)
         /\ DecomposeIndex(index, i, j).gamma \in 0..((N1 \div n) - 1)
  <1>0. q = BuildCompressedQuery(index, i, j, N1 \div n, p.base_1, p.base_2)
    BY DEF Honest
  <1>0a. cells \in [0..(i - 1) -> [0..(j - 1) -> Poly(N1)]]
    BY DEF Cells
  <1> DEFINE d == N1 \div n
             query == BuildCompressedQuery(index, i, j, N1 \div n, p.base_1, p.base_2)
             at == DecomposeIndex(index, i, j)
             nd == Log2(i)
             nc == Log2(j)
             nr == IF N1 \div n > 1 THEN Log2(N1 \div n) ELSE 0
             dmux == QueryDecomp(query, 0, nd, p.base_1)
             cmux == QueryDecomp(query, nd, nc, p.base_2)
             rot == QueryDecomp(query, nd + nc, nr, p.base_2)
             bits == {dmux[b] : b \in DOMAIN dmux} \cup {cmux[b] : b \in DOMAIN cmux}
                       \cup {rot[b] : b \in DOMAIN rot}
             columns == FirstDimColumns(DmuxTree(dmux, nd), cells, i, j)
             cell == CmuxTree(cmux, nc, columns)
             ct == Crot(rot, nr, cell)
  <1>1. /\ nd \in 0..MaxBits /\ Shl[nd] = i
        /\ nc \in 0..MaxBits /\ Shl[nc] = j
    BY LogsAgree
  <1>2. i \in Nat \ {0} /\ j \in Nat \ {0}
    BY ShlAssumption DEF IsPowerOfTwo
  <1>3. IsPowerOfTwo(d) /\ nr = Log2(d) /\ nr \in 0..MaxBits /\ Shl[nr] = d
    <2>1. IsPowerOfTwo(d) /\ nr = CeilLog2(d)
      BY SlotBits
    <2> HIDE DEF d, nr
    <2>2. QED BY <2>1, LogsAgree
  <1>4. d \in Nat \ {0} /\ N1 \in Nat \ {0} /\ d <= N1
    <2>1. n \in Nat \ {0} /\ d \in Nat \ {0} /\ N1 = d * n
      BY DegreeSplits
    <2> HIDE DEF d
    <2>2. d * n \in Nat \ {0} /\ d <= d * n
      BY <2>1, Z3
    <2>3. QED BY <2>1, <2>2
  <1>5. at.alpha \in 0..(i - 1) /\ at.beta \in 0..(j - 1) /\ at.gamma \in 0..(d - 1)
    <2>1. d \in Nat /\ index < d * (i * j)
      BY <1>4
    <2> HIDE DEF d
    <2>2. QED BY <1>2, <2>1, DecomposeInverts
  <1>6. at.alpha \in Nat /\ at.beta \in Nat /\ at.gamma \in Nat
    BY <1>2, <1>4, <1>5
  <1>7. /\ dmux = DmuxBits(at.alpha, nd)
        /\ cmux = CmuxBits(at.beta, nc)
        /\ rot = CrotBits(at.gamma, nr)
        /\ Len(query) = (nd + nc + nr) * L_QUERY
    <2>1. query = BuildCompressedQuery(index, i, j, d, p.base_1, p.base_2)
      OBVIOUS
    <2> HIDE DEF query, at, nr, d
    <2>2. QED BY <1>3, <1>6, <2>1, QueryRead DEF at
  <1>8. AnswerThroughCrot(query, p, i, j, cells, n)
          = IF ~IsPowerOfTwo(i) \/ ~IsPowerOfTwo(j) THEN Err("DimMismatch")
            ELSE IF DOMAIN cells # 0..(i - 1) THEN Err("DimMismatch")
            ELSE IF Len(query) # (nd + nc + nr) * L_QUERY THEN Err("QueryLengthMismatch")
            ELSE IF Garbage \in bits THEN Ok(Garbage)
            ELSE Ok(ct)
    BY Zenon DEF AnswerThroughCrot
  <1> HIDE DEF d, query, at, nd, nc, nr, dmux, cmux, rot
  <1>9. Garbage \notin bits
    <2>1. /\ dmux \in [0..(nd - 1) -> Bits] /\ cmux \in [0..(nc - 1) -> Bits]
          /\ rot \in [0..(nr - 1) -> Bits]
      BY <1>1, <1>3, <1>6, <1>7, DigitsAreBits
    <2>2. bits \subseteq Bits
      BY <2>1
    <2>3. QED BY <2>2, GarbageAssumption
  <1>10. AnswerThroughCrot(query, p, i, j, cells, n) = Ok(ct)
    <2> HIDE DEF bits, ct
    <2>1. DOMAIN cells = 0..(i - 1)
      BY <1>0a
    <2>2. QED BY <1>7, <1>8, <1>9, <2>1
  <1>11. columns = cells[at.alpha]
    <2> DEFINE sel == DmuxTree(dmux, nd)
    <2>1. RowIs(sel, i, at.alpha)
      <3>1. DmuxTree(dmux, nd) = [k \in 0..(Shl[nd] - 1) |-> IF k = at.alpha THEN 1 ELSE 0]
        BY <1>1, <1>5, <1>7, DmuxTreeOneHot
      <3>2. QED BY <1>1, <3>1 DEF RowIs
    <2> HIDE DEF sel
    <2>2. FirstDimColumns(sel, cells, i, j) = cells[at.alpha]
      BY <1>2, <1>5, <2>1, ColumnsSelected
    <2>3. QED BY <2>2 DEF sel
  <1>12. cell = cells[at.alpha][at.beta]
    <2>1. cells[at.alpha] \in [0..(Shl[nc] - 1) -> Poly(N1)]
      BY <1>0a, <1>1, <1>5
    <2> HIDE DEF columns
    <2>2. QED BY <1>1, <1>5, <1>7, <1>11, <2>1, CmuxTreeSelects
  <1>13. cell \in Poly(N1)
    <2> HIDE DEF cell
    <2>1. QED BY <1>0a, <1>5, <1>12
  <1> HIDE DEF cell
  <1>14. /\ ct \in Poly(N1)
         /\ \A x \in 0..(N1 - 1) : x + at.gamma < N1 => ct[x] = cell[x + at.gamma]
    <2>1. Shl[nr] <= N1
      BY <1>3, <1>4
    <2>2. at.gamma \in 0..(Shl[nr] - 1)
      BY <1>3, <1>5
    <2> DEFINE gamma == at.gamma
    <2> HIDE DEF gamma
    <2>3. /\ Crot(CrotBits(gamma, nr), nr, cell) \in Poly(N1)
          /\ \A x \in 0..(N1 - 1) : x + gamma < N1 =>
               Crot(CrotBits(gamma, nr), nr, cell)[x] = cell[x + gamma]
      BY <1>3, <1>4, <1>13, <2>1, <2>2, CrotShifts DEF gamma
    <2>4. QED BY <1>7, <2>3 DEF gamma
  <1> HIDE DEF ct
  <1>15. q = query
    BY <1>0 DEF query
  <1>16. Turned(ct, cells, index, i, j)
    BY <1>12, <1>14 DEF Turned, at
  <1>17. AnswerThroughCrot(q, p, i, j, cells, n) = Ok(ct)
    BY <1>10, <1>15
  <1>18. PrefixServes(q, p, i, j, cells, n, index)
    BY <1>16, <1>17 DEF PrefixServes
  <1>19. QED BY <1>5, <1>18 DEF at, d

-----------------------------------------------------------------------------
(***************************************************************************)
(* bit_reverse_index.                                                      *)
(***************************************************************************)

\* r is the table of the low bits of x, reversed.
Reverses(r, x, b) == r = [k \in 0..b |-> IF k = 0 THEN 0 ELSE 2 * r[k - 1] + Bit(x, k - 1)]

\* The same, one bit at a time.
TakesBits(g, x, b) == g[0] = 0 /\ \A k \in 1..b : g[k] = 2 * g[k - 1] + Bit(x, k - 1)

LEMMA ReversalUnfolds ==
  ASSUME NEW x, NEW b \in Nat, NEW g, TakesBits(g, x, b)
  PROVE  \A k \in 0..b : BitReverseIndex(x, k) = g[k]
  <1> SUFFICES ASSUME NEW n \in 0..b PROVE BitReverseIndex(x, n) = g[n]
    OBVIOUS
  <1>0. g[0] = 0 /\ \A k \in 1..b : g[k] = 2 * g[k - 1] + Bit(x, k - 1)
    BY DEF TakesBits
  <1> DEFINE h == [k \in 0..n |-> g[k]]
             Solves(f) == f = [k \in 0..n |-> IF k = 0 THEN 0 ELSE 2 * f[k - 1] + Bit(x, k - 1)]
             r == CHOOSE f : Solves(f)
  <1>1. Reverses(h, x, n)
    <2> DEFINE R(k) == IF k = 0 THEN 0 ELSE 2 * h[k - 1] + Bit(x, k - 1)
    <2>1. ASSUME NEW k \in 0..n PROVE g[k] = R(k)
      <3>1. CASE k = 0
        BY <1>0, <3>1
      <3>2. CASE k # 0
        <4>1. k \in 1..b /\ k - 1 \in 0..n
          BY <3>2
        <4>2. QED BY <1>0, <3>2, <4>1
      <3>3. QED BY <3>1, <3>2
    <2>2. h = [k \in 0..n |-> R(k)]
      <3> HIDE DEF R
      <3>1. QED BY <2>1
    <2>3. QED BY <2>2, Zenon DEF Reverses
  <1>2. Solves(r)
    <2>1. Solves(h)
      BY <1>1, Zenon DEF Reverses
    <2> HIDE DEF Solves
    <2>2. QED BY <2>1, Zenon
  <1>3. BitReverseIndex(x, n) = r[n]
    BY Zenon DEF BitReverseIndex
  <1>4. Reverses(r, x, n)
    BY <1>2, Zenon DEF Reverses
  <1> HIDE DEF r, h, Solves
  <1>5. n \in Nat /\ 0 \in 0..n /\ n \in 0..n
    OBVIOUS
  <1>6. r[0] = h[0]
    BY <1>1, <1>4, <1>5 DEF Reverses
  <1>7. ASSUME NEW k \in 1..n, r[k - 1] = h[k - 1] PROVE r[k] = h[k]
    <2>1. k \in 0..n /\ k # 0
      OBVIOUS
    <2>2. r[k] = 2 * r[k - 1] + Bit(x, k - 1)
      BY <1>4, <2>1 DEF Reverses
    <2>3. h[k] = 2 * h[k - 1] + Bit(x, k - 1)
      BY <1>1, <2>1 DEF Reverses
    <2>4. QED BY <1>7, <2>2, <2>3
  <1>8. \A k \in 0..n : r[k] = h[k]
    BY <1>5, <1>6, <1>7, AgreeUpTo
  <1>9. QED BY <1>3, <1>5, <1>8 DEF h

\* The reversal takes one more bit at a time, the lowest first.
LEMMA ReversalGrows ==
  ASSUME NEW x \in Nat
  PROVE  /\ BitReverseIndex(x, 0) = 0
         /\ \A k \in 0..MaxBits : BitReverseIndex(x, k) \in 0..(Shl[k] - 1)
         /\ \A k \in 0..(MaxBits - 1) :
              BitReverseIndex(x, k + 1) = 2 * BitReverseIndex(x, k) + Bit(x, k)
  <1> DEFINE n == MaxBits
             F == [k \in 1..n |-> [v \in Nat |-> 2 * v + Bit(x, k - 1)]]
  <1>1. n \in Nat \ {0}
    BY ShlAssumption
  <1>2. \A k \in 0..(n - 1) : Bit(x, k) \in Bits /\ Bit(x, k) \in Nat
    BY DigitHigh DEF Bits
  <1>3. F \in [1..n -> [Nat -> Nat]]
    <2>1. ASSUME NEW k \in 1..n, NEW v \in Nat PROVE 2 * v + Bit(x, k - 1) \in Nat
      <3>1. k - 1 \in 0..(n - 1)
        BY <1>1
      <3> HIDE DEF n
      <3>2. QED BY <1>2, <3>1
    <2>2. QED BY <2>1
  <1>4. PICK g : g \in [0..n -> Nat] /\ Obeys(g, n, 0, F)
    <2> HIDE DEF F, n
    <2>1. QED BY <1>1, <1>3, Recursion
  <1>5. g[0] = 0 /\ \A k \in 1..n : g[k] = 2 * g[k - 1] + Bit(x, k - 1)
    <2>1. ASSUME NEW k \in 1..n PROVE g[k] = 2 * g[k - 1] + Bit(x, k - 1)
      <3>1. k - 1 \in 0..n
        BY <1>1
      <3>2. g[k - 1] \in Nat
        BY <1>4, <3>1
      <3> HIDE DEF n
      <3>3. QED BY <1>4, <3>2 DEF Obeys
    <2> HIDE DEF F, n
    <2>2. g[0] = 0
      BY <1>4 DEF Obeys
    <2>3. QED BY <2>1, <2>2
  <1> HIDE DEF F, n
  <1>6. \A k \in 0..n : BitReverseIndex(x, k) = g[k]
    <2>1. TakesBits(g, x, n)
      BY <1>5 DEF TakesBits
    <2>2. QED BY <1>1, <2>1, ReversalUnfolds
  <1>7. \A k \in 0..(n - 1) : g[k + 1] = 2 * g[k] + Bit(x, k)
    <2> SUFFICES ASSUME NEW k \in 0..(n - 1) PROVE g[k + 1] = 2 * g[k] + Bit(x, k)
      OBVIOUS
    <2>1. k + 1 \in 1..n /\ (k + 1) - 1 = k
      BY <1>1
    <2>2. g[k + 1] = 2 * g[(k + 1) - 1] + Bit(x, (k + 1) - 1)
      BY <1>5, <2>1
    <2>3. QED BY <2>1, <2>2
  <1> DEFINE T == {k \in 0..n : g[k] \in 0..(Shl[k] - 1)}
  <1>8. 0 \in T
    <2>1. 0 \in 0..n /\ 0 \in 0..(1 - 1)
      BY <1>1
    <2>2. g[0] \in 0..(Shl[0] - 1)
      BY <1>5, <2>1, ShlAssumption
    <2>3. QED BY <2>1, <2>2
  <1>9. ASSUME NEW k \in 0..(n - 1), k \in T PROVE k + 1 \in T
    <2>1. k + 1 \in 0..n /\ k \in 0..n
      BY <1>1
    <2>2. Shl[k + 1] = 2 * Shl[k] /\ Shl[k] \in Nat
      <3>1. Shl[k + 1] = 2 * Shl[k]
        BY ShlDoubles DEF n
      <3>2. Shl[k] \in Nat
        BY <2>1, ShlDoubles DEF n
      <3>3. QED BY <3>1, <3>2
    <2>3. Bit(x, k) \in 0..1
      BY <1>2 DEF Bits
    <2>4. g[k] \in 0..(Shl[k] - 1)
      BY <1>9
    <2>5. QED BY <1>7, <2>1, <2>2, <2>3, <2>4
  <1> HIDE DEF T
  <1>10. \A k \in 0..n : k \in T
    BY <1>1, <1>8, <1>9, SetInduction
  <1>11. \A k \in 0..n : g[k] \in 0..(Shl[k] - 1)
    BY <1>10 DEF T
  <1>12. \A k \in 0..(n - 1) : k \in 0..n /\ k + 1 \in 0..n
    BY <1>1
  <1>13. 0 \in 0..n
    BY <1>1
  <1>14. QED BY <1>5, <1>6, <1>7, <1>11, <1>12, <1>13 DEF n

\* The bits of the reversal are those of x, the other way round.
LEMMA ReversedBits ==
  ASSUME NEW x \in Nat, NEW b \in 0..MaxBits
  PROVE  \A k \in 0..(b - 1) : Bit(BitReverseIndex(x, b), k) = Bit(x, b - 1 - k)
  <1> DEFINE y == BitReverseIndex(x, b)
             rev(k) == BitReverseIndex(x, k)
             T == {k \in 0..b : y \div Shl[k] = rev(b - k)}
  <1>1. MaxBits \in Nat /\ b \in Nat
    BY ShlAssumption
  <1>2. /\ \A k \in 0..MaxBits : rev(k) \in Nat
        /\ \A k \in 0..(MaxBits - 1) : rev(k + 1) = 2 * rev(k) + Bit(x, k)
    <2>1. \A k \in 0..MaxBits : rev(k) \in 0..(Shl[k] - 1)
      BY ReversalGrows
    <2>2. \A k \in 0..MaxBits : Shl[k] \in Nat
      BY ShlDoubles
    <2> HIDE DEF rev
    <2>3. \A k \in 0..MaxBits : rev(k) \in Nat
      BY <2>1, <2>2
    <2>4. QED BY <2>3, ReversalGrows DEF rev
  <1>3. y = rev(b) /\ y \in Nat
    BY <1>1, <1>2
  <1> HIDE DEF y, rev
  <1>4. 0 \in T
    <2>1. y \div 1 = y
      <3>1. y = 1 * y + 0 /\ 0 \in 0..(1 - 1) /\ 1 \in Nat \ {0}
        BY <1>3
      <3>2. QED BY <1>3, <3>1, DivModUnique
    <2>2. b - 0 = b /\ Shl[0] = 1 /\ 0 \in 0..b
      BY <1>1, ShlAssumption
    <2>3. QED BY <1>3, <2>1, <2>2
  <1>5. ASSUME NEW k \in 0..(b - 1), k \in T
        PROVE  y \div Shl[k + 1] = rev(b - (k + 1)) /\ Bit(y, k) = Bit(x, b - 1 - k)
    <2> DEFINE a == b - 1 - k
    <2>1. k \in 0..(MaxBits - 1) /\ a \in 0..(MaxBits - 1) /\ a + 1 = b - k /\ a = b - (k + 1)
          /\ a \in 0..MaxBits
      BY <1>1
    <2>2. /\ Bit(y, k) \in Bits /\ y \div Shl[k] = 2 * (y \div Shl[k + 1]) + Bit(y, k)
          /\ y \div Shl[k + 1] \in Nat
      BY <1>3, <2>1, DigitHigh
    <2>3. rev(a + 1) = 2 * rev(a) + Bit(x, a) /\ Bit(x, a) \in Bits /\ rev(a) \in Nat
      BY <1>2, <2>1, DigitHigh
    <2>4. y \div Shl[k] = rev(b - k)
      BY <1>5
    <2> DEFINE q == y \div Shl[k + 1]
               u == Bit(y, k)
               v == Bit(x, a)
               w == rev(a)
    <2>5. 2 * q + u = 2 * w + v
      BY <2>1, <2>2, <2>3, <2>4
    <2>6. q \in Nat /\ w \in Nat /\ u \in {0, 1} /\ v \in {0, 1}
      BY <2>2, <2>3 DEF Bits
    <2>7. q = w /\ u = v
      <3> HIDE DEF q, u, v, w
      <3>1. QED BY <2>5, <2>6
    <2>8. QED BY <2>1, <2>7
  <1>6. ASSUME NEW k \in 0..(b - 1), k \in T PROVE k + 1 \in T
    <2>1. k + 1 \in 0..b
      BY <1>1
    <2>2. QED BY <1>5, <1>6, <2>1
  <1> DEFINE S == T
  <1> HIDE DEF S
  <1>7. 0 \in S /\ \A k \in 0..(b - 1) : k \in S => k + 1 \in S
    BY <1>4, <1>6 DEF S
  <1>8. \A k \in 0..b : k \in S
    BY <1>1, <1>7, SetInduction
  <1>9. \A k \in 0..(b - 1) : k \in T
    <2>1. \A k \in 0..(b - 1) : k \in 0..b
      BY <1>1
    <2>2. QED BY <1>8, <2>1 DEF S
  <1>10. QED BY <1>5, <1>9 DEF y

\* Reversing b bits twice leaves the b low bits.
LEMMA ReversedTwice ==
  ASSUME NEW x \in Nat, NEW b \in 0..MaxBits
  PROVE  BitReverseIndex(BitReverseIndex(x, b), b) = x % Shl[b]
  <1> DEFINE y == BitReverseIndex(x, b)
             back(k) == BitReverseIndex(y, k)
             T == {k \in 0..b : back(k) * Shl[b - k] + (x % Shl[b - k]) = x % Shl[b]}
  <1>1. MaxBits \in Nat /\ b \in Nat
    BY ShlAssumption
  <1>2. y \in Nat
    <2>1. y \in 0..(Shl[b] - 1) /\ Shl[b] \in Nat
      BY ReversalGrows, ShlDoubles
    <2> HIDE DEF y
    <2>2. QED BY <2>1
  <1>3. \A k \in 0..(b - 1) : Bit(y, k) = Bit(x, b - 1 - k)
    BY ReversedBits
  <1> HIDE DEF y
  <1>4. /\ back(0) = 0
        /\ \A k \in 0..MaxBits : back(k) \in 0..(Shl[k] - 1)
        /\ \A k \in 0..(MaxBits - 1) : back(k + 1) = 2 * back(k) + Bit(y, k)
    BY <1>2, ReversalGrows
  <1> HIDE DEF back
  <1>5. \A k \in 0..b : x % Shl[k] \in Nat /\ Shl[k] \in Nat \ {0} /\ back(k) \in Nat
    <2> SUFFICES ASSUME NEW k \in 0..b PROVE x % Shl[k] \in Nat /\ Shl[k] \in Nat \ {0} /\ back(k) \in Nat
      OBVIOUS
    <2>1. k \in 0..MaxBits
      BY <1>1
    <2>2. Shl[k] \in Nat \ {0}
      BY <2>1, ShlDoubles
    <2>3. x % Shl[k] \in 0..(Shl[k] - 1)
      BY <2>2, DivMod
    <2>4. QED BY <1>4, <2>1, <2>2, <2>3
  <1>6. 0 \in T
    <2>1. b - 0 = b /\ 0 \in 0..b /\ 0 * Shl[b] = 0 /\ b \in 0..b
      BY <1>1, <1>5
    <2>2. 0 + (x % Shl[b]) = x % Shl[b]
      BY <1>5, <2>1
    <2>3. back(0) * Shl[b - 0] + (x % Shl[b - 0]) = x % Shl[b]
      BY <1>4, <2>1, <2>2
    <2>4. QED BY <2>1, <2>3
  <1>7. ASSUME NEW k \in 0..(b - 1), k \in T PROVE k + 1 \in T
    <2> DEFINE a == b - 1 - k
               s == Shl[a]
               v == Bit(x, a)
               q == x % Shl[a]
    <2>1. /\ k \in 0..(MaxBits - 1) /\ a \in 0..(MaxBits - 1) /\ a + 1 = b - k /\ a = b - (k + 1)
          /\ a \in 0..b /\ k + 1 \in 0..b /\ k \in 0..b
      BY <1>1
    <2>2. Shl[b - k] = 2 * s
      <3>1. Shl[a + 1] = 2 * Shl[a]
        BY <2>1, ShlDoubles
      <3>2. QED BY <2>1, <3>1
    <2>3. x % Shl[b - k] = q + v * s
      <3>1. x % Shl[a + 1] = (x % Shl[a]) + Bit(x, a) * Shl[a]
        BY <2>1, DigitLow
      <3>2. QED BY <2>1, <3>1
    <2>4. back(k + 1) = 2 * back(k) + v
      BY <1>3, <1>4, <2>1
    <2>5. s \in Nat /\ q \in Nat /\ v \in {0, 1} /\ back(k) \in Nat
      <3>1. v \in Bits
        BY <2>1, DigitHigh
      <3>2. s \in Nat /\ q \in Nat
        BY <1>5, <2>1
      <3>3. QED BY <1>5, <2>1, <3>1, <3>2 DEF Bits
    <2>6. back(k) * Shl[b - k] + (x % Shl[b - k]) = x % Shl[b]
      BY <1>7
    <2> HIDE DEF s, v, q
    <2> DEFINE w == back(k)
    <2>7. (2 * w + v) * s + q = w * (2 * s) + (q + v * s)
      <3> HIDE DEF w
      <3>1. \A c, e, f, h \in Nat : (2 * c + e) * f + h = c * (2 * f) + (h + e * f)
        BY Z3
      <3>2. QED BY <2>5, <3>1 DEF w
    <2>8. back(k + 1) * s + q = x % Shl[b]
      BY <2>2, <2>3, <2>4, <2>6, <2>7
    <2>9. back(k + 1) * Shl[b - (k + 1)] + (x % Shl[b - (k + 1)]) = x % Shl[b]
      BY <2>1, <2>8 DEF s, q
    <2>10. QED BY <2>1, <2>9
  <1> DEFINE S == T
  <1> HIDE DEF S
  <1>8. 0 \in S /\ \A k \in 0..(b - 1) : k \in S => k + 1 \in S
    BY <1>6, <1>7 DEF S
  <1>9. \A k \in 0..b : k \in S
    BY <1>1, <1>8, SetInduction
  <1>10. back(b) * Shl[b - b] + (x % Shl[b - b]) = x % Shl[b]
    <2>1. b \in T
      BY <1>1, <1>9 DEF S
    <2>2. QED BY <2>1
  <1>11. b - b = 0 /\ Shl[0] = 1 /\ x % 1 = 0 /\ back(b) \in Nat
    <2>1. x % 1 \in 0..(1 - 1)
      BY DivMod
    <2>2. b - b = 0 /\ b \in 0..b /\ x % 1 = 0
      BY <1>1, <2>1
    <2>3. back(b) \in Nat
      BY <1>5, <2>2
    <2>4. QED BY <2>2, <2>3, ShlAssumption
  <1>12. back(b) * 1 + 0 = back(b)
    BY <1>11
  <1>13. back(b) = x % Shl[b]
    BY <1>10, <1>11, <1>12
  <1>14. QED BY <1>13 DEF back, y

\* A power of two divides every larger one.
LEMMA PowersDivide ==
  ASSUME NEW a, NEW b, IsPowerOfTwo(a), IsPowerOfTwo(b), b <= a
  PROVE  /\ a \in Nat \ {0} /\ b \in Nat \ {0} /\ a \div b \in Nat \ {0}
         /\ a = (a \div b) * b
         /\ IsPowerOfTwo(a \div b)
         /\ Log2(a) \in 0..MaxBits /\ Log2(b) \in 0..MaxBits /\ Log2(a \div b) \in 0..MaxBits
         /\ Log2(a) = Log2(a \div b) + Log2(b)
  <1> DEFINE k == Log2(a)
             l == Log2(b)
             c == k - l
  <1>1. k \in 0..MaxBits /\ Shl[k] = a /\ l \in 0..MaxBits /\ Shl[l] = b
    BY LogsAgree
  <1> HIDE DEF k, l
  <1>2. a \in Nat \ {0} /\ b \in Nat \ {0} /\ MaxBits \in Nat
    BY <1>1, ShlAssumption
  <1>3. l <= k
    <2> SUFFICES ASSUME k < l PROVE FALSE
      BY <1>1, <1>2
    <2>1. a < b
      BY <1>1, ShlGrows
    <2>2. QED BY <1>2, <2>1
  <1>4. c \in 0..MaxBits /\ c + l = k /\ l + c = k
    BY <1>1, <1>2, <1>3
  <1> HIDE DEF c
  <1>5. a = b * Shl[c] /\ Shl[c] \in Nat \ {0}
    <2>1. l + c <= MaxBits
      BY <1>1, <1>4
    <2>2. Shl[l + c] = Shl[l] * Shl[c]
      BY <1>1, <1>4, <2>1, ShlAssumption
    <2>3. QED BY <1>1, <1>4, <2>2, ShlAssumption
  <1>6. a \div b = Shl[c]
    <2> DEFINE s == Shl[c]
    <2>1. s \in Nat \ {0} /\ a = b * s
      BY <1>5
    <2> HIDE DEF s
    <2>2. a = b * s + 0
      <3>1. b * s \in Nat
        BY <1>2, <2>1
      <3>2. QED BY <2>1, <3>1
    <2>3. 0 \in 0..(b - 1)
      BY <1>2
    <2>4. a \div b = s
      BY <1>2, <2>1, <2>2, <2>3, DivModUnique
    <2>5. QED BY <2>4 DEF s
  <1>7. IsPowerOfTwo(Shl[c])
    BY <1>4 DEF IsPowerOfTwo
  <1>8. Log2(Shl[c]) = c
    <2> DEFINE q == Log2(Shl[c])
    <2>1. q \in 0..MaxBits /\ Shl[q] = Shl[c]
      BY <1>7, LogsAgree
    <2> HIDE DEF q
    <2>2. Shl[q] \in Nat /\ Shl[c] \in Nat
      BY <1>4, <2>1, ShlAssumption
    <2>3. q < c => Shl[q] < Shl[c]
      BY <1>4, <2>1, ShlGrows
    <2>4. c < q => Shl[c] < Shl[q]
      BY <1>4, <2>1, ShlGrows
    <2>5. q = c
      BY <1>2, <1>4, <2>1, <2>2, <2>3, <2>4
    <2>6. QED BY <2>5 DEF q
  <1>9. a = (a \div b) * b
    <2> DEFINE s == Shl[c]
    <2>1. s \in Nat /\ a = b * s
      BY <1>5
    <2> HIDE DEF s
    <2>2. b * s = s * b
      BY <1>2, <2>1
    <2>3. QED BY <1>6, <2>1, <2>2 DEF s
  <1>10. QED BY <1>1, <1>2, <1>4, <1>5, <1>6, <1>7, <1>8, <1>9 DEF k, l

\* Halving first.
LEMMA DivTwice ==
  ASSUME NEW x \in Nat, NEW s \in Nat \ {0}
  PROVE  x \div (2 * s) = (x \div 2) \div s
  <1> DEFINE h == x \div 2
             q == h \div s
             t == h % s
  <1>1. h \in Nat /\ x % 2 \in 0..1 /\ x = 2 * h + (x % 2)
    BY DivMod
  <1>2. q \in Nat /\ t \in 0..(s - 1) /\ h = s * q + t
    <2> HIDE DEF h
    <2>1. QED BY <1>1, DivMod
  <1> HIDE DEF q, t, h
  <1>3. 2 * s \in Nat \ {0} /\ 2 * t + (x % 2) \in 0..(2 * s - 1)
    BY <1>1, <1>2
  <1>4. x = (2 * s) * q + (2 * t + (x % 2))
    <2>1. \A c, d, f \in Nat : 2 * (c * d + f) = (2 * c) * d + 2 * f /\ (2 * c) * d \in Nat
      BY Z3
    <2>2. 2 * h = (2 * s) * q + 2 * t /\ (2 * s) * q \in Nat
      BY <1>2, <2>1
    <2>3. QED BY <1>1, <1>2, <2>2
  <1>5. x \div (2 * s) = q
    BY <1>2, <1>3, <1>4, DivModUnique
  <1>6. QED BY <1>5 DEF q, h

\* The lowest bit is the highest of the reversal.
LEMMA ReversalLow ==
  ASSUME NEW x \in Nat, NEW b \in 0..(MaxBits - 1)
  PROVE  BitReverseIndex(x, b + 1) = (x % 2) * Shl[b] + BitReverseIndex(x \div 2, b)
  <1> DEFINE h == x \div 2
             R(y, k) == BitReverseIndex(y, k)
             T == {k \in 0..b : R(x, k + 1) = (x % 2) * Shl[k] + R(h, k)}
  <1>1. MaxBits \in Nat \ {0} /\ b \in Nat
    BY ShlAssumption
  <1>2. h \in Nat /\ x % 2 \in 0..1
    BY DivMod
  <1>3. /\ R(x, 0) = 0 /\ R(h, 0) = 0
        /\ \A k \in 0..(MaxBits - 1) : R(x, k + 1) = 2 * R(x, k) + Bit(x, k)
        /\ \A k \in 0..(MaxBits - 1) : R(h, k + 1) = 2 * R(h, k) + Bit(h, k)
    <2> HIDE DEF h
    <2>1. QED BY <1>2, ReversalGrows
  <1>4. \A k \in 0..MaxBits : R(x, k) \in Nat /\ R(h, k) \in Nat
    <2> HIDE DEF h, R
    <2> SUFFICES ASSUME NEW k \in 0..MaxBits PROVE R(x, k) \in Nat /\ R(h, k) \in Nat
      OBVIOUS
    <2>1. R(x, k) \in 0..(Shl[k] - 1) /\ R(h, k) \in 0..(Shl[k] - 1)
      BY <1>2, ReversalGrows DEF R
    <2>2. Shl[k] \in Nat
      BY ShlDoubles
    <2>3. QED BY <2>1, <2>2
  <1>5. \A k \in 0..(MaxBits - 1) : k + 1 <= MaxBits - 1 => Bit(x, k + 1) = Bit(h, k)
    <2> SUFFICES ASSUME NEW k \in 0..(MaxBits - 1), k + 1 <= MaxBits - 1
                 PROVE  Bit(x, k + 1) = Bit(h, k)
      OBVIOUS
    <2> DEFINE s == Shl[k]
    <2>1. s \in Nat \ {0} /\ Shl[k + 1] = 2 * s
      <3>1. k \in 0..MaxBits
        BY <1>1
      <3>2. QED BY <3>1, ShlDoubles
    <2> HIDE DEF s
    <2>2. x \div (2 * s) = h \div s
      BY <2>1, DivTwice DEF h
    <2>3. QED BY <2>1, <2>2 DEF Bit, s
  <1> HIDE DEF h
  <1>6. 0 \in T
    <2>1. 0 \in 0..(MaxBits - 1) /\ 0 \in 0..b /\ Shl[0] = 1
      BY <1>1, ShlAssumption
    <2>2. Bit(x, 0) = x % 2
      <3>1. x \div 1 = x
        <4>1. x = 1 * x + 0 /\ 0 \in 0..(1 - 1) /\ 1 \in Nat \ {0}
          OBVIOUS
        <4>2. QED BY <4>1, DivModUnique
      <3>2. QED BY <2>1, <3>1 DEF Bit
    <2> HIDE DEF R
    <2>3. R(x, 0 + 1) = 2 * R(x, 0) + Bit(x, 0)
      BY <1>3, <2>1
    <2>4. R(x, 0 + 1) = (x % 2) * Shl[0] + R(h, 0)
      BY <1>2, <1>3, <2>1, <2>2, <2>3
    <2>5. QED BY <2>1, <2>4
  <1>7. ASSUME NEW k \in 0..(b - 1), k \in T PROVE k + 1 \in T
    <2>1. /\ k \in 0..(MaxBits - 1) /\ k + 1 \in 0..(MaxBits - 1) /\ k + 1 \in 0..b
          /\ k + 1 <= MaxBits - 1 /\ k \in 0..MaxBits /\ k + 1 \in 0..MaxBits
      BY <1>1
    <2> HIDE DEF R
    <2>2. R(x, k + 1) = (x % 2) * Shl[k] + R(h, k)
      BY <1>7
    <2>3. R(x, (k + 1) + 1) = 2 * R(x, k + 1) + Bit(x, k + 1)
      BY <1>3, <2>1
    <2>4. R(h, k + 1) = 2 * R(h, k) + Bit(h, k)
      BY <1>3, <2>1
    <2>5. Bit(x, k + 1) = Bit(h, k) /\ Bit(h, k) \in Nat
      <3>1. Bit(h, k) \in Bits
        BY <1>2, <2>1, DigitHigh
      <3>2. QED BY <1>5, <2>1, <3>1 DEF Bits
    <2>6. Shl[k + 1] = 2 * Shl[k] /\ Shl[k] \in Nat /\ R(h, k) \in Nat
      BY <1>4, <2>1, ShlDoubles
    <2> DEFINE p == (x % 2) * Shl[k]
    <2>7. p \in Nat /\ (x % 2) * Shl[k + 1] = 2 * p
      <3> DEFINE s == Shl[k]
                 e == x % 2
      <3>1. s \in Nat /\ e \in Nat
        BY <1>2, <2>6
      <3> HIDE DEF s, e
      <3>2. e * s \in Nat /\ e * (2 * s) = 2 * (e * s)
        BY <3>1, Z3
      <3>3. QED BY <2>6, <3>2 DEF s, e
    <2> HIDE DEF p
    <2>8. R(x, (k + 1) + 1) = (x % 2) * Shl[k + 1] + R(h, k + 1)
      <3>1. R(x, k + 1) = p + R(h, k)
        BY <2>2 DEF p
      <3>2. QED BY <2>3, <2>4, <2>5, <2>6, <2>7, <3>1
    <2>9. QED BY <2>1, <2>8
  <1> DEFINE S == T
  <1> HIDE DEF S
  <1>8. 0 \in S /\ \A k \in 0..(b - 1) : k \in S => k + 1 \in S
    BY <1>6, <1>7 DEF S
  <1>9. \A k \in 0..b : k \in S
    BY <1>1, <1>8, SetInduction
  <1>10. b \in T
    BY <1>1, <1>9 DEF S
  <1>11. QED BY <1>10 DEF h

\* Low zeros go to the top.
LEMMA ReversalOfMultiple ==
  ASSUME NEW m \in Nat, NEW b \in Nat, NEW e \in Nat, e + b <= MaxBits
  PROVE  BitReverseIndex(Shl[e] * m, e + b) = BitReverseIndex(m, b)
  <1> DEFINE T == {k \in 0..e : BitReverseIndex(Shl[k] * m, k + b) = BitReverseIndex(m, b)}
  <1>1. MaxBits \in Nat \ {0}
    BY ShlAssumption
  <1>2. 0 \in T
    <2>1. 0 + b = b /\ Shl[0] * m = m /\ 0 \in 0..e
      BY ShlAssumption
    <2>2. QED BY <2>1
  <1>3. ASSUME NEW k \in 0..(e - 1), k \in T PROVE k + 1 \in T
    <2> DEFINE s == Shl[k]
    <2>1. /\ k \in 0..(MaxBits - 1) /\ k \in 0..MaxBits /\ k + 1 \in 0..e
          /\ k + b \in 0..(MaxBits - 1) /\ (k + 1) + b = (k + b) + 1 /\ k + b \in 0..MaxBits
      BY <1>1
    <2>2. s \in Nat \ {0} /\ Shl[k + 1] = 2 * s
      BY <2>1, ShlDoubles
    <2>3. BitReverseIndex(s * m, k + b) = BitReverseIndex(m, b)
      BY <1>3
    <2> HIDE DEF s
    <2> DEFINE y == s * m
    <2>4. y \in Nat /\ (2 * s) * m = 2 * y
      BY <2>2, Z3
    <2> HIDE DEF y
    <2>5. (2 * y) \div 2 = y /\ (2 * y) % 2 = 0
      <3>1. 2 * y \in Nat /\ 2 * y = 2 * y + 0 /\ 0 \in 0..(2 - 1)
        BY <2>4
      <3>2. QED BY <2>4, <3>1, DivModUnique
    <2>6. BitReverseIndex(2 * y, (k + b) + 1) = 0 * Shl[k + b] + BitReverseIndex(y, k + b)
      <3>1. 2 * y \in Nat
        BY <2>4
      <3>2. BitReverseIndex(2 * y, (k + b) + 1)
              = ((2 * y) % 2) * Shl[k + b] + BitReverseIndex((2 * y) \div 2, k + b)
        BY <2>1, <3>1, ReversalLow
      <3>3. QED BY <2>5, <3>2
    <2>7. Shl[k + b] \in Nat /\ BitReverseIndex(y, k + b) \in Nat
      <3>1. BitReverseIndex(y, k + b) \in 0..(Shl[k + b] - 1)
        BY <2>1, <2>4, ReversalGrows
      <3>2. Shl[k + b] \in Nat
        BY <2>1, ShlDoubles
      <3>3. QED BY <3>1, <3>2
    <2>8. BitReverseIndex(2 * y, (k + b) + 1) = BitReverseIndex(y, k + b)
      BY <2>6, <2>7
    <2>9. BitReverseIndex(Shl[k + 1] * m, (k + 1) + b) = BitReverseIndex(m, b)
      BY <2>1, <2>2, <2>3, <2>4, <2>8 DEF y
    <2>10. QED BY <2>1, <2>9
  <1> DEFINE S == T
  <1> HIDE DEF S
  <1>4. 0 \in S /\ \A k \in 0..(e - 1) : k \in S => k + 1 \in S
    BY <1>2, <1>3 DEF S
  <1>5. \A k \in 0..e : k \in S
    BY <1>4, SetInduction
  <1>6. e \in T
    BY <1>5 DEF S
  <1>7. QED BY <1>6

-----------------------------------------------------------------------------
(***************************************************************************)
(* The repacking tree.                                                     *)
(***************************************************************************)

\* The levels of the tree.
RepackLevel(prev, size, n) ==
  [k \in 0..(size - 1) |-> PairConvert(prev[2 * k], prev[2 * k + 1], n)]

RepackLevels(f, leaves, depth, g) ==
  f = [l \in 0..depth |->
        IF l = 0 THEN leaves ELSE RepackLevel(f[l - 1], Shl[depth - l], g * Shl[l - 1])]

LEMMA RepackUnfolds ==
  ASSUME NEW cts, NEW T, Log2(N1 \div (N2 \div T)) \in Nat, \A t \in DOMAIN cts : cts[t] # Garbage,
         NEW lev, RepackLevels(lev, RepackLeaves(cts, T, N2 \div T), Log2(N1 \div (N2 \div T)), N2 \div T)
  PROVE  Repack(cts, T) = lev[Log2(N1 \div (N2 \div T))][0]
  <1> DEFINE g == N2 \div T
             depth == Log2(N1 \div g)
             leaves == RepackLeaves(cts, T, g)
             Solves(f) == f = [l \in 0..depth |->
               IF l = 0 THEN leaves
               ELSE [k \in 0..(Shl[depth - l] - 1) |->
                      PairConvert(f[l - 1][2 * k], f[l - 1][2 * k + 1], g * Shl[l - 1])]]
             level == CHOOSE f : Solves(f)
  <1>1. Solves(lev)
    BY Zenon DEF RepackLevels, RepackLevel
  <1>2. Solves(level)
    BY <1>1, Zenon
  <1>3. Repack(cts, T) = level[depth][0]
    <2>1. Repack(cts, T) = IF \E t \in DOMAIN cts : cts[t] = Garbage THEN Garbage ELSE level[depth][0]
      BY Zenon DEF Repack
    <2>2. QED BY <2>1, Zenon
  <1>4. RepackLevels(level, leaves, depth, g)
    BY <1>2, Zenon DEF RepackLevels, RepackLevel
  <1>5. RepackLevels(lev, leaves, depth, g)
    OBVIOUS
  <1>6. depth \in Nat
    OBVIOUS
  <1> HIDE DEF level, Solves, depth, leaves, g
  <1>7. level[0] = lev[0]
    <2>1. 0 \in 0..depth
      BY <1>6
    <2>2. QED BY <1>4, <1>5, <2>1 DEF RepackLevels
  <1>8. ASSUME NEW l \in 1..depth, level[l - 1] = lev[l - 1] PROVE level[l] = lev[l]
    <2>1. l \in 0..depth /\ l # 0
      BY <1>6
    <2>2. level[l] = RepackLevel(level[l - 1], Shl[depth - l], g * Shl[l - 1])
      BY <1>4, <2>1 DEF RepackLevels
    <2>3. lev[l] = RepackLevel(lev[l - 1], Shl[depth - l], g * Shl[l - 1])
      BY <1>5, <2>1 DEF RepackLevels
    <2>4. QED BY <1>8, <2>2, <2>3
  <1>9. \A l \in 0..depth : level[l] = lev[l]
    BY <1>6, <1>7, <1>8, AgreeUpTo
  <1>10. depth \in 0..depth
    BY <1>6
  <1>11. level[depth] = lev[depth]
    BY <1>9, <1>10
  <1>12. QED BY <1>3, <1>11 DEF depth, g

\* Two polynomials interleaved.
LEMMA PairInterleaves ==
  ASSUME NEW n \in Nat \ {0}, NEW a \in Poly(n), NEW b \in Poly(n)
  PROVE  PairConvert(a, b, n)
           = [x \in 0..(2 * n - 1) |-> IF x % 2 = 0 THEN a[x \div 2] ELSE b[x \div 2]]
  <1> DEFINE C(x) == IF x % 2 = 0 THEN a[x \div 2] ELSE b[x \div 2]
             ea == EmbedAt(a, n, 2 * n, 0)
             eb == EmbedAt(b, n, 2 * n, 1)
  <1>1. (2 * n) \div n = 2
    <2>1. 2 * n \in Nat /\ 2 * n = n * 2 + 0 /\ 0 \in 0..(n - 1)
      OBVIOUS
    <2>2. QED BY <2>1, DivModUnique
  <1>2. /\ ea = [x \in 0..(2 * n - 1) |-> IF x % 2 = 0 THEN a[x \div 2] ELSE 0]
        /\ eb = [x \in 0..(2 * n - 1) |-> IF x % 2 = 1 THEN b[x \div 2] ELSE 0]
    BY <1>1 DEF EmbedAt
  <1>3. PairConvert(a, b, n) = [x \in 0..(2 * n - 1) |-> (ea[x] + eb[x]) % P]
    <2>1. PairConvert(a, b, n) = Add(ea, eb)
      BY DEF PairConvert
    <2>2. DOMAIN ea = 0..(2 * n - 1)
      BY <1>2
    <2> HIDE DEF ea, eb
    <2>3. QED BY <2>1, <2>2 DEF Add
  <1>4. ASSUME NEW x \in 0..(2 * n - 1)
        PROVE  (ea[x] + eb[x]) % P = C(x)
    <2>1. /\ x \in Nat /\ x % 2 \in 0..1 /\ x \div 2 \in 0..(n - 1)
      <3>1. x \in Nat /\ x < 2 * n
        OBVIOUS
      <3>2. x \div 2 \in Nat /\ x % 2 \in 0..(2 - 1) /\ x = 2 * (x \div 2) + (x % 2)
        BY <3>1, DivMod
      <3> DEFINE q == x \div 2
                 t == x % 2
      <3>3. q \in Nat /\ t \in 0..1 /\ x = 2 * q + t
        BY <3>2
      <3> HIDE DEF q, t
      <3>4. q < n
        BY <3>1, <3>3
      <3>5. QED BY <3>1, <3>3, <3>4 DEF q, t
    <2>2. a[x \div 2] \in Coeff /\ b[x \div 2] \in Coeff
      BY <2>1 DEF Poly
    <2>3. \A c \in Coeff : (c + 0) % P = c /\ (0 + c) % P = c
      <3> SUFFICES ASSUME NEW c \in Coeff PROVE (c + 0) % P = c /\ (0 + c) % P = c
        OBVIOUS
      <3>1. P \in Nat \ {0} /\ c \in Nat /\ c < P
        BY ModulusAssumption DEF Coeff
      <3>2. c % P = c
        BY <3>1, ModSmall
      <3>3. c + 0 = c /\ 0 + c = c
        BY <3>1
      <3>4. QED BY <3>2, <3>3
    <2>4. CASE x % 2 = 0
      <3>1. ea[x] = a[x \div 2] /\ eb[x] = 0
        <4>1. x % 2 # 1
          BY <2>4
        <4> HIDE DEF ea, eb
        <4>2. QED BY <1>2, <2>4, <4>1
      <3> HIDE DEF ea, eb
      <3>2. QED BY <2>2, <2>3, <2>4, <3>1
    <2>5. CASE x % 2 = 1
      <3>1. ea[x] = 0 /\ eb[x] = b[x \div 2]
        <4>1. x % 2 # 0
          BY <2>5
        <4> HIDE DEF ea, eb
        <4>2. QED BY <1>2, <2>5, <4>1
      <3> HIDE DEF ea, eb
      <3>2. QED BY <2>2, <2>3, <2>5, <3>1
    <2>6. QED BY <2>1, <2>4, <2>5
  <1> HIDE DEF C, ea, eb
  <1>5. PairConvert(a, b, n) = [x \in 0..(2 * n - 1) |-> C(x)]
    BY <1>3, <1>4
  <1>6. QED BY <1>5, Zenon DEF C

\* Coefficient x of tree k of a level: a coefficient of the leaf its low bits
\* lead to.
Leaf(k, l, x) == k * Shl[l] + BitReverseIndex(x, l)

RepackClosed(leaves, depth, g) ==
  [l \in 0..depth |->
    [k \in 0..(Shl[depth - l] - 1) |->
      [x \in 0..(g * Shl[l] - 1) |-> leaves[Leaf(k, l, x)][x \div Shl[l]]]]]

\* The leaf and its coefficient exist.
LEMMA LeafExists ==
  ASSUME NEW g \in Nat \ {0}, NEW depth \in 0..MaxBits, NEW l \in 0..depth,
         NEW k \in 0..(Shl[depth - l] - 1), NEW x \in 0..(g * Shl[l] - 1)
  PROVE  Leaf(k, l, x) \in 0..(Shl[depth] - 1) /\ x \div Shl[l] \in 0..(g - 1)
  <1> DEFINE s == Shl[l]
             w == Shl[depth - l]
             r == BitReverseIndex(x, l)
             q == x \div s
             t == x % s
  <1>1. /\ MaxBits \in Nat /\ depth \in Nat /\ l \in 0..MaxBits /\ depth - l \in 0..MaxBits
        /\ (depth - l) + l = depth /\ depth <= MaxBits
    <2>1. MaxBits \in Nat
      BY ShlAssumption
    <2>2. QED BY <2>1
  <1>2. s \in Nat \ {0} /\ w \in Nat \ {0}
    BY <1>1, ShlDoubles
  <1>3. Shl[depth] = w * s
    <2>1. Shl[(depth - l) + l] = Shl[depth - l] * Shl[l]
      BY <1>1, ShlAssumption
    <2>2. QED BY <1>1, <2>1
  <1>4. x \in Nat /\ x < g * s
    <2> HIDE DEF s
    <2>1. g * s \in Nat
      BY <1>2, Z3
    <2>2. x \in 0..(g * s - 1)
      BY DEF s
    <2>3. QED BY <2>1, <2>2
  <1>5. r \in 0..(s - 1)
    BY <1>1, <1>4, ReversalGrows
  <1>6. q \in Nat /\ t \in 0..(s - 1) /\ x = s * q + t
    <2> HIDE DEF s
    <2>1. QED BY <1>2, <1>4, DivMod
  <1>7. k \in 0..(w - 1)
    OBVIOUS
  <1> HIDE DEF s, w, r, q, t
  <1>8. k * s \in Nat /\ k * s + s <= w * s
    <2>1. k \in Nat /\ k + 1 <= w
      BY <1>2, <1>7
    <2>2. \A c, d, f \in Nat : c + 1 <= f => c * d \in Nat /\ c * d + d <= f * d /\ f * d \in Nat
      BY Z3
    <2>3. QED BY <1>2, <2>1, <2>2
  <1>9. w * s \in Nat
    BY <1>2, Z3
  <1>10. k * s + r \in 0..(w * s - 1)
    BY <1>2, <1>5, <1>8, <1>9
  <1>11. q < g
    <2> SUFFICES ASSUME g <= q PROVE FALSE
      BY <1>6
    <2>1. \A c, d, f \in Nat : c <= d => f * d \in Nat /\ c * f <= f * d
      BY Z3
    <2>2. g * s <= s * q /\ s * q \in Nat
      BY <1>2, <1>6, <2>1
    <2>3. g * s \in Nat
      BY <1>2, Z3
    <2>4. QED BY <1>2, <1>4, <1>6, <2>2, <2>3
  <1>12. q \in 0..(g - 1)
    BY <1>6, <1>11
  <1>13. QED BY <1>3, <1>10, <1>12 DEF Leaf, s, r, q

LEMMA ClosedIsPoly ==
  ASSUME NEW g \in Nat \ {0}, NEW depth \in 0..MaxBits,
         NEW leaves \in [0..(Shl[depth] - 1) -> Poly(g)],
         NEW l \in 0..depth, NEW k \in 0..(Shl[depth - l] - 1)
  PROVE  RepackClosed(leaves, depth, g)[l][k] \in Poly(g * Shl[l])
  <1> DEFINE C(x) == leaves[Leaf(k, l, x)][x \div Shl[l]]
             f == [x \in 0..(g * Shl[l] - 1) |-> C(x)]
  <1>1. RepackClosed(leaves, depth, g)[l][k] = f
    BY DEF RepackClosed
  <1>2. ASSUME NEW x \in 0..(g * Shl[l] - 1) PROVE C(x) \in Coeff
    <2>1. Leaf(k, l, x) \in 0..(Shl[depth] - 1) /\ x \div Shl[l] \in 0..(g - 1)
      BY LeafExists
    <2>2. QED BY <2>1 DEF Poly
  <1> HIDE DEF C
  <1>3. f \in [0..(g * Shl[l] - 1) -> Coeff]
    BY <1>2
  <1>4. QED BY <1>1, <1>3 DEF Poly

LEMMA ClosedLevel ==
  ASSUME NEW g \in Nat \ {0}, NEW depth \in 0..MaxBits,
         NEW leaves \in [0..(Shl[depth] - 1) -> Poly(g)], NEW l \in 1..depth
  PROVE  RepackClosed(leaves, depth, g)[l]
           = RepackLevel(RepackClosed(leaves, depth, g)[l - 1], Shl[depth - l], g * Shl[l - 1])
  <1> DEFINE lev == RepackClosed(leaves, depth, g)
             s == Shl[l - 1]
             w == Shl[depth - l]
             n == g * s
  <1>1. /\ MaxBits \in Nat /\ depth \in Nat /\ depth <= MaxBits
        /\ l \in 0..depth /\ l - 1 \in 0..depth /\ l - 1 \in 0..(MaxBits - 1) /\ (l - 1) + 1 = l
        /\ depth - l \in 0..(MaxBits - 1) /\ depth - (l - 1) = (depth - l) + 1
        /\ l - 1 \in 0..MaxBits /\ depth - l \in 0..MaxBits
    <2>1. MaxBits \in Nat
      BY ShlAssumption
    <2>2. QED BY <2>1
  <1>2. s \in Nat \ {0} /\ w \in Nat \ {0} /\ Shl[l] = 2 * s /\ Shl[depth - (l - 1)] = 2 * w
    <2>1. Shl[(l - 1) + 1] = 2 * Shl[l - 1] /\ Shl[(depth - l) + 1] = 2 * Shl[depth - l]
      BY <1>1, ShlDoubles
    <2>2. QED BY <1>1, <2>1, ShlDoubles
  <1>3. n \in Nat \ {0} /\ g * Shl[l] = 2 * n
    <2> HIDE DEF s
    <2>1. \A c, d \in Nat \ {0} : c * d \in Nat \ {0} /\ c * (2 * d) = 2 * (c * d)
      BY Z3
    <2>2. QED BY <1>2, <2>1
  <1> DEFINE A(k) == lev[l - 1][2 * k]
             B(k) == lev[l - 1][2 * k + 1]
             F(k) == lev[l][k]
  <1>4. ASSUME NEW k \in 0..(w - 1) PROVE F(k) = PairConvert(A(k), B(k), n)
    <2>1. 2 * k \in 0..(Shl[depth - (l - 1)] - 1) /\ 2 * k + 1 \in 0..(Shl[depth - (l - 1)] - 1) /\ k \in Nat
      <3> HIDE DEF w
      <3>1. QED BY <1>2
    <2>2. A(k) \in Poly(n) /\ B(k) \in Poly(n)
      BY <1>1, <2>1, ClosedIsPoly
    <2>3. /\ F(k) = [x \in 0..(g * Shl[l] - 1) |-> leaves[Leaf(k, l, x)][x \div Shl[l]]]
          /\ A(k) = [x \in 0..(n - 1) |-> leaves[Leaf(2 * k, l - 1, x)][x \div s]]
          /\ B(k) = [x \in 0..(n - 1) |-> leaves[Leaf(2 * k + 1, l - 1, x)][x \div s]]
      BY <1>1, <2>1 DEF RepackClosed
    <2> DEFINE C(x) == IF x % 2 = 0 THEN A(k)[x \div 2] ELSE B(k)[x \div 2]
               E(x) == leaves[Leaf(k, l, x)][x \div Shl[l]]
    <2>4. PairConvert(A(k), B(k), n) = [x \in 0..(2 * n - 1) |-> C(x)]
      <3> HIDE DEF A, B, n
      <3>1. QED BY <1>3, <2>2, PairInterleaves
    <2>5. ASSUME NEW x \in 0..(2 * n - 1) PROVE E(x) = C(x)
      <3> DEFINE h == x \div 2
                 t == x % 2
      <3>1. x \in Nat /\ x < 2 * n
        <4> HIDE DEF n
        <4>1. QED BY <1>3
      <3>2. h \in Nat /\ t \in 0..1 /\ x = 2 * h + t
        BY <3>1, DivMod
      <3>3. h \in 0..(n - 1)
        <4> HIDE DEF h, t, n
        <4>1. QED BY <1>3, <3>1, <3>2
      <3>4. x \div Shl[l] = h \div s
        <4> HIDE DEF s
        <4>1. QED BY <1>2, <3>1, DivTwice
      <3> DEFINE r == BitReverseIndex(h, l - 1)
      <3>5. BitReverseIndex(x, l) = t * s + r
        <4>1. BitReverseIndex(x, (l - 1) + 1) = t * s + r
          BY <1>1, <3>1, ReversalLow
        <4>2. QED BY <1>1, <4>1
      <3>6. r \in Nat
        <4>1. r \in 0..(s - 1)
          <5> HIDE DEF h
          <5>1. QED BY <1>1, <3>2, ReversalGrows
        <4> HIDE DEF r, s
        <4>2. QED BY <1>2, <4>1
      <3>7. Leaf(k, l, x) = k * (2 * s) + (t * s + r)
        BY <1>2, <3>5 DEF Leaf
      <3>8. /\ Leaf(2 * k, l - 1, h) = (2 * k) * s + r
            /\ Leaf(2 * k + 1, l - 1, h) = (2 * k + 1) * s + r
        BY DEF Leaf
      <3> HIDE DEF h, r, t, s, n
      <3>9. \A c, d, f \in Nat : /\ c * (2 * d) + (0 * d + f) = (2 * c) * d + f
                                 /\ c * (2 * d) + (1 * d + f) = (2 * c + 1) * d + f
        BY Z3
      <3>10. /\ k * (2 * s) + (0 * s + r) = (2 * k) * s + r
             /\ k * (2 * s) + (1 * s + r) = (2 * k + 1) * s + r
        BY <1>2, <2>1, <3>6, <3>9
      <3>11. CASE t = 0
        <4>1. Leaf(k, l, x) = Leaf(2 * k, l - 1, h)
          BY <3>7, <3>8, <3>10, <3>11
        <4>2. A(k)[h] = leaves[Leaf(2 * k, l - 1, h)][h \div s]
          BY <2>3, <3>3
        <4>3. C(x) = A(k)[h]
          <5> HIDE DEF A, B
          <5>1. QED BY <3>11 DEF t, h
        <4> HIDE DEF A, B, C
        <4>4. QED BY <3>4, <4>1, <4>2, <4>3
      <3>12. CASE t = 1
        <4>1. Leaf(k, l, x) = Leaf(2 * k + 1, l - 1, h)
          BY <3>7, <3>8, <3>10, <3>12
        <4>2. B(k)[h] = leaves[Leaf(2 * k + 1, l - 1, h)][h \div s]
          BY <2>3, <3>3
        <4>3. C(x) = B(k)[h]
          <5> HIDE DEF A, B
          <5>1. x % 2 # 0
            BY <3>12 DEF t
          <5>2. QED BY <5>1 DEF h
        <4> HIDE DEF A, B, C
        <4>4. QED BY <3>4, <4>1, <4>2, <4>3
      <3>13. QED BY <3>2, <3>11, <3>12
    <2>6. F(k) = [x \in 0..(2 * n - 1) |-> E(x)]
      <3> HIDE DEF F, n
      <3>1. QED BY <1>3, <2>3
    <2> HIDE DEF C, E, F, A, B, n
    <2>7. QED BY <2>4, <2>5, <2>6
  <1>5. lev[l] = [k \in 0..(w - 1) |-> F(k)]
    <2>1. lev[l] = [k \in 0..(w - 1) |-> [x \in 0..(g * Shl[l] - 1) |-> leaves[Leaf(k, l, x)][x \div Shl[l]]]]
      BY <1>1 DEF RepackClosed
    <2> HIDE DEF lev, w
    <2>2. QED BY <2>1
  <1> HIDE DEF F
  <1>6. lev[l] = [k \in 0..(w - 1) |-> PairConvert(A(k), B(k), n)]
    BY <1>4, <1>5
  <1>7. QED BY <1>6, Zenon DEF RepackLevel

\* The tree in closed form.
LEMMA RepackTree ==
  ASSUME NEW g \in Nat \ {0}, NEW depth \in 0..MaxBits,
         NEW leaves \in [0..(Shl[depth] - 1) -> Poly(g)]
  PROVE  /\ RepackLevels(RepackClosed(leaves, depth, g), leaves, depth, g)
         /\ RepackClosed(leaves, depth, g)[depth][0] \in Poly(g * Shl[depth])
         /\ \A x \in 0..(g * Shl[depth] - 1) :
              /\ RepackClosed(leaves, depth, g)[depth][0][x]
                   = leaves[BitReverseIndex(x, depth)][x \div Shl[depth]]
              /\ BitReverseIndex(x, depth) \in 0..(Shl[depth] - 1)
  <1> DEFINE lev == RepackClosed(leaves, depth, g)
  <1>1. MaxBits \in Nat /\ depth \in Nat /\ depth \in 0..depth /\ 0 \in 0..depth /\ depth - depth = 0
    <2>1. MaxBits \in Nat
      BY ShlAssumption
    <2>2. QED BY <2>1
  <1>2. Shl[0] = 1 /\ 0 \in 0..(1 - 1) /\ Shl[depth] \in Nat \ {0}
    BY ShlAssumption
  <1>3. lev[0] = leaves
    <2> DEFINE G(k) == [x \in 0..(g * Shl[0] - 1) |-> leaves[Leaf(k, 0, x)][x \div Shl[0]]]
    <2>1. lev[0] = [k \in 0..(Shl[depth - 0] - 1) |-> G(k)]
      BY <1>1 DEF RepackClosed
    <2>2. Shl[depth - 0] = Shl[depth] /\ g * Shl[0] = g
      BY <1>1, <1>2
    <2>3. ASSUME NEW k \in 0..(Shl[depth] - 1) PROVE G(k) = leaves[k]
      <3>1. ASSUME NEW x \in 0..(g - 1) PROVE Leaf(k, 0, x) = k /\ x \div Shl[0] = x
        <4>1. BitReverseIndex(x, 0) = 0
          BY ReversalGrows
        <4>2. k * 1 + 0 = k
          OBVIOUS
        <4>3. x \div 1 = x
          <5>1. x \in Nat /\ x = 1 * x + 0 /\ 1 \in Nat \ {0}
            OBVIOUS
          <5>2. QED BY <1>2, <5>1, DivModUnique
        <4>4. QED BY <1>2, <4>1, <4>2, <4>3 DEF Leaf
      <3>2. G(k) = [x \in 0..(g - 1) |-> leaves[k][x]]
        BY <2>2, <3>1
      <3>3. leaves[k] \in [0..(g - 1) -> Coeff]
        BY DEF Poly
      <3> HIDE DEF G
      <3>4. QED BY <3>2, <3>3
    <2> HIDE DEF G, lev
    <2>4. lev[0] = [k \in 0..(Shl[depth] - 1) |-> leaves[k]]
      BY <2>1, <2>2, <2>3
    <2>5. QED BY <2>4
  <1>4. \A l \in 1..depth : lev[l] = RepackLevel(lev[l - 1], Shl[depth - l], g * Shl[l - 1])
    BY ClosedLevel
  <1>5. RepackLevels(lev, leaves, depth, g)
    <2> DEFINE R(l) == IF l = 0 THEN leaves ELSE RepackLevel(lev[l - 1], Shl[depth - l], g * Shl[l - 1])
    <2>1. ASSUME NEW l \in 0..depth PROVE lev[l] = R(l)
      <3>1. CASE l = 0
        BY <1>3, <3>1
      <3>2. CASE l # 0
        <4>1. l \in 1..depth
          BY <3>2
        <4> HIDE DEF lev
        <4>2. QED BY <1>4, <3>2, <4>1
      <3>3. QED BY <3>1, <3>2
    <2>2. lev = [l \in 0..depth |-> lev[l]]
      BY DEF RepackClosed
    <2> HIDE DEF R, lev
    <2>3. lev = [l \in 0..depth |-> R(l)]
      BY <2>1, <2>2
    <2>4. QED BY <2>3, Zenon DEF RepackLevels, R
  <1>6. lev[depth][0] \in Poly(g * Shl[depth])
    <2>1. 0 \in 0..(Shl[depth - depth] - 1)
      BY <1>1, <1>2
    <2>2. QED BY <1>1, <2>1, ClosedIsPoly
  <1>7. ASSUME NEW x \in 0..(g * Shl[depth] - 1)
        PROVE  /\ lev[depth][0][x] = leaves[BitReverseIndex(x, depth)][x \div Shl[depth]]
               /\ BitReverseIndex(x, depth) \in 0..(Shl[depth] - 1)
    <2>1. 0 \in 0..(Shl[depth - depth] - 1)
      BY <1>1, <1>2
    <2>2. lev[depth][0][x] = leaves[Leaf(0, depth, x)][x \div Shl[depth]]
      BY <1>1, <2>1 DEF RepackClosed
    <2>3. x \in Nat
      <3> DEFINE n == g * Shl[depth]
      <3>1. n \in Nat
        BY <1>2, Z3
      <3> HIDE DEF n
      <3>2. QED BY <3>1 DEF n
    <2>4. BitReverseIndex(x, depth) \in 0..(Shl[depth] - 1)
      BY <2>3, ReversalGrows
    <2>5. Leaf(0, depth, x) = BitReverseIndex(x, depth)
      <3>1. BitReverseIndex(x, depth) \in Nat
        BY <1>2, <2>4
      <3>2. QED BY <1>2, <3>1 DEF Leaf
    <2>6. QED BY <2>2, <2>4, <2>5
  <1>8. QED BY <1>5, <1>6, <1>7

LEMMA DivExact ==
  ASSUME NEW d \in Nat \ {0}, NEW q \in Nat
  PROVE  (q * d) \div d = q /\ (d * q) \div d = q
  <1> DEFINE x == d * q
  <1>1. x \in Nat /\ q * d = x
    BY Z3
  <1>2. x = d * q + 0 /\ 0 \in 0..(d - 1)
    <2>1. d * q = x
      OBVIOUS
    <2> HIDE DEF x
    <2>2. QED BY <1>1, <2>1
  <1>3. x \div d = q
    <2> HIDE DEF x
    <2>1. QED BY <1>1, <1>2, DivModUnique
  <1>4. QED BY <1>1, <1>3

LEMMA DivCancel ==
  ASSUME NEW d \in Nat \ {0}, NEW c \in Nat \ {0}, NEW m \in Nat
  PROVE  (c * m) \div (c * d) = m \div d
  <1> DEFINE q == m \div d
             t == m % d
  <1>1. q \in Nat /\ t \in 0..(d - 1) /\ m = d * q + t
    BY DivMod
  <1> HIDE DEF q, t
  <1>2. c * d \in Nat \ {0} /\ c * m \in Nat /\ c * t \in Nat
    BY <1>1, Z3
  <1>3. c * t + c <= c * d
    <2>1. \A x, y, z \in Nat : y + 1 <= z => x * y + x <= x * z
      BY Z3
    <2>2. t \in Nat /\ t + 1 <= d
      BY <1>1
    <2>3. QED BY <2>1, <2>2
  <1>4. c * t \in 0..(c * d - 1)
    BY <1>2, <1>3
  <1>5. c * m = (c * d) * q + c * t
    <2>1. \A x, y, z, w \in Nat : x * (y * z + w) = (x * y) * z + x * w
      BY Z3
    <2>2. t \in Nat
      BY <1>1
    <2>3. QED BY <1>1, <2>1, <2>2
  <1>6. (c * m) \div (c * d) = q
    BY <1>1, <1>2, <1>4, <1>5, DivModUnique
  <1>7. QED BY <1>6 DEF q

\* The tower of degrees.
LEMMA Tower ==
  ASSUME NEW n \in {N2, N3}
  PROVE  /\ IsPowerOfTwo(N1) /\ IsPowerOfTwo(N2) /\ IsPowerOfTwo(n)
         /\ N1 \in Nat \ {0} /\ N2 \in Nat \ {0} /\ n \in Nat \ {0} /\ n <= N2 /\ N2 <= N1
         /\ D \in Nat \ {0} /\ N1 = D * N2 /\ IsPowerOfTwo(D)
         /\ N2 \div n \in Nat \ {0} /\ N2 = (N2 \div n) * n /\ IsPowerOfTwo(N2 \div n)
         /\ N1 \div n \in Nat \ {0} /\ N1 \div n = D * (N2 \div n) /\ N1 = (N1 \div n) * n
  <1>1. IsPowerOfTwo(N1) /\ IsPowerOfTwo(N2) /\ IsPowerOfTwo(N3) /\ N1 > N2 /\ N3 <= N2
    BY DegreesAssumption DEF ViaBCheck, ViaCCheck
  <1>2. N1 \in Nat /\ N2 \in Nat
    BY <1>1, ShlAssumption DEF IsPowerOfTwo
  <1>3. IsPowerOfTwo(n) /\ n <= N2 /\ N2 <= N1
    BY <1>1, <1>2
  <1>4. /\ N1 \in Nat \ {0} /\ N2 \in Nat \ {0}
        /\ D \in Nat \ {0} /\ N1 = D * N2 /\ IsPowerOfTwo(D)
    BY <1>1, <1>3, PowersDivide DEF D
  <1> DEFINE v == N2 \div n
  <1>5. n \in Nat \ {0} /\ v \in Nat \ {0} /\ N2 = v * n /\ IsPowerOfTwo(v)
    BY <1>1, <1>3, PowersDivide
  <1>6. N1 \div n = D * v /\ D * v \in Nat \ {0}
    <2> HIDE DEF v
    <2>1. D * v \in Nat \ {0}
      BY <1>4, <1>5, Z3
    <2>2. N1 = (D * v) * n
      <3>1. \A x, y, z \in Nat : x * (y * z) = (x * y) * z
        BY Z3
      <3>2. D * (v * n) = (D * v) * n
        BY <1>4, <1>5, <3>1
      <3>3. QED BY <1>4, <1>5, <3>2
    <2> DEFINE q == D * v
    <2>3. q \in Nat /\ N1 = q * n
      BY <2>1, <2>2
    <2> HIDE DEF q
    <2>4. N1 \div n = q
      BY <1>5, <2>3, DivExact
    <2>5. QED BY <2>1, <2>4 DEF q
  <1>7. N1 = (N1 \div n) * n
    BY DegreeSplits
  <1>8. QED BY <1>1, <1>3, <1>4, <1>5, <1>6, <1>7

\* A coefficient of a polynomial at a stride.
LEMMA StrideWithin ==
  ASSUME NEW d \in Nat \ {0}, NEW n \in Nat, NEW x \in 0..(n - 1), NEW s \in 0..(d - 1)
  PROVE  d * x + s \in 0..(d * n - 1)
  <1>1. \A a, b, c \in Nat : b + 1 <= c => a * b \in Nat /\ a * b + a <= a * c /\ a * c \in Nat
    BY Z3
  <1>2. x \in Nat /\ x + 1 <= n
    OBVIOUS
  <1>3. d * x \in Nat /\ d * x + d <= d * n /\ d * n \in Nat
    BY <1>1, <1>2
  <1> DEFINE y == d * x
             z == d * n
  <1>4. y \in Nat /\ y + d <= z /\ z \in Nat
    BY <1>3
  <1> HIDE DEF y, z
  <1>5. y + s \in 0..(z - 1)
    BY <1>4
  <1>6. QED BY <1>5 DEF y, z

\* repack and the compression after it interleave the answers of a batch:
\* coefficient m of the reply comes from query m % T.
LEMMA RepackInterleaves ==
  ASSUME NEW T, IsPowerOfTwo(T), T <= N2, NEW cts \in [1..T -> Poly(N1)]
  PROVE  /\ RespComp(Repack(cts, T)) \in Poly(N2)
         /\ \A m \in 0..(N2 - 1) :
              RespComp(Repack(cts, T))[m] = cts[(m % T) + 1][(D * T) * (m \div T)]
  <1> DEFINE g == N2 \div T
             b == Log2(T)
             e == Log2(D)
             depth == Log2(N1 \div g)
             leaves == RepackLeaves(cts, T, g)
             lev == RepackClosed(leaves, depth, g)
             final == lev[depth][0]
  <1>1. /\ IsPowerOfTwo(N1) /\ IsPowerOfTwo(N2) /\ IsPowerOfTwo(D)
        /\ N1 \in Nat \ {0} /\ N2 \in Nat \ {0} /\ D \in Nat \ {0} /\ N1 = D * N2 /\ N2 <= N1
    BY Tower
  <1>2. /\ T \in Nat \ {0} /\ g \in Nat \ {0} /\ N2 = g * T /\ IsPowerOfTwo(g)
        /\ Log2(N2) = Log2(g) + b /\ Log2(g) \in Nat
    <2>1. MaxBits \in Nat
      BY ShlAssumption
    <2>2. QED BY <1>1, <2>1, PowersDivide
  <1>3. Shl[b] = T /\ Shl[e] = D /\ b \in 0..MaxBits /\ e \in 0..MaxBits /\ MaxBits \in Nat
    <2>1. MaxBits \in Nat
      BY ShlAssumption
    <2>2. QED BY <1>1, <2>1, LogsAgree
  <1> HIDE DEF g, b, e
  <1>4. g <= N1
    <2>1. g <= g * T /\ g * T \in Nat
      BY <1>2, Z3
    <2>2. QED BY <1>1, <1>2, <2>1
  <1>5. /\ depth \in 0..MaxBits /\ N1 = (N1 \div g) * g /\ Shl[depth] = N1 \div g
        /\ Log2(N1) = depth + Log2(g) /\ N1 \div g \in Nat \ {0}
    <2>1. /\ depth \in 0..MaxBits /\ N1 = (N1 \div g) * g /\ IsPowerOfTwo(N1 \div g)
          /\ Log2(N1) = depth + Log2(g) /\ N1 \div g \in Nat \ {0}
      BY <1>1, <1>2, <1>4, PowersDivide
    <2>2. Shl[depth] = N1 \div g
      BY <2>1, LogsAgree
    <2>3. QED BY <2>1, <2>2
  <1>6. Log2(N1) = e + Log2(N2)
    BY <1>1, PowersDivide DEF D, e
  <1> HIDE DEF depth
  <1>7. depth = e + b
    BY <1>2, <1>3, <1>5, <1>6
  <1>8. N1 \div g = D * T
    <2>1. e + b <= MaxBits
      BY <1>3, <1>5, <1>7
    <2>2. Shl[e + b] = Shl[e] * Shl[b]
      BY <1>3, <2>1, ShlAssumption
    <2>3. QED BY <1>3, <1>5, <1>7, <2>2
  <1> DEFINE w == D * T
  <1>9. /\ w \in Nat \ {0} /\ N1 \div g = w /\ Shl[depth] = w /\ N1 = w * g /\ g * w = N1
        /\ T <= w
    <2>1. D * T \in Nat \ {0} /\ T <= D * T
      BY <1>1, <1>2, Z3
    <2>2. w \in Nat \ {0} /\ T <= w
      BY <2>1
    <2>3. N1 \div g = w /\ Shl[depth] = w
      BY <1>5, <1>8
    <2> HIDE DEF w
    <2>4. N1 = w * g
      BY <1>5, <2>3
    <2>5. w * g = g * w
      BY <1>2, <2>2, Z3
    <2>6. QED BY <2>2, <2>3, <2>4, <2>5
  <1> HIDE DEF w
  <1>10. leaves = [k \in 0..(w - 1) |->
                    IF k < T THEN Extr(cts[BitReverseIndex(k, b) + 1], g) ELSE Zero(g)]
    BY <1>9 DEF RepackLeaves, b
  <1>11. \A ct \in Poly(N1) : /\ Extr(ct, g) \in Poly(g)
                              /\ \A x \in 0..(g - 1) : Extr(ct, g)[x] = ct[w * x]
    <2> SUFFICES ASSUME NEW ct \in Poly(N1)
                 PROVE  /\ Extr(ct, g) \in Poly(g)
                        /\ \A x \in 0..(g - 1) : Extr(ct, g)[x] = ct[w * x]
      OBVIOUS
    <2>1. Extr(ct, g) = [x \in 0..(g - 1) |-> ct[w * x + 0]]
      BY <1>9 DEF Extr, ProjectAt
    <2>2. ASSUME NEW x \in 0..(g - 1) PROVE ct[w * x + 0] \in Coeff /\ w * x + 0 = w * x
      <3>1. 0 \in 0..(w - 1)
        BY <1>9
      <3>2. w * x + 0 \in 0..(w * g - 1)
        BY <1>2, <1>9, <3>1, StrideWithin
      <3>3. w * x + 0 \in 0..(N1 - 1)
        BY <1>9, <3>2
      <3>4. w * x + 0 = w * x
        <4>1. w * x \in Nat
          BY <1>2, <1>9, Z3
        <4>2. QED BY <4>1
      <3>5. QED BY <3>3, <3>4 DEF Poly
    <2>3. QED BY <2>1, <2>2 DEF Poly
  <1>12. \A k \in 0..(T - 1) : BitReverseIndex(k, b) + 1 \in 1..T
    <2> SUFFICES ASSUME NEW k \in 0..(T - 1) PROVE BitReverseIndex(k, b) + 1 \in 1..T
      OBVIOUS
    <2>1. k \in Nat
      BY <1>2
    <2>2. BitReverseIndex(k, b) \in 0..(T - 1)
      BY <1>3, <2>1, ReversalGrows
    <2>3. QED BY <1>2, <2>2
  <1>13. leaves \in [0..(w - 1) -> Poly(g)]
    <2>1. ASSUME NEW k \in 0..(w - 1)
          PROVE  (IF k < T THEN Extr(cts[BitReverseIndex(k, b) + 1], g) ELSE Zero(g)) \in Poly(g)
      <3>1. CASE k < T
        <4>1. k \in 0..(T - 1)
          BY <1>2, <1>9, <3>1
        <4>2. QED BY <1>11, <1>12, <3>1, <4>1
      <3>2. CASE ~(k < T)
        <4>1. Zero(g) \in Poly(g)
          BY ModulusAssumption DEF Zero, Poly, Coeff
        <4>2. QED BY <3>2, <4>1
      <3>3. QED BY <3>1, <3>2
    <2> HIDE DEF leaves
    <2>2. QED BY <1>10, <2>1
  <1> HIDE DEF leaves
  <1>14. /\ RepackLevels(lev, leaves, depth, g)
         /\ final \in Poly(N1)
         /\ \A x \in 0..(N1 - 1) : final[x] = leaves[BitReverseIndex(x, depth)][x \div w]
    <2>1. leaves \in [0..(Shl[depth] - 1) -> Poly(g)]
      BY <1>9, <1>13
    <2>2. /\ RepackLevels(lev, leaves, depth, g)
          /\ lev[depth][0] \in Poly(g * Shl[depth])
          /\ \A x \in 0..(g * Shl[depth] - 1) :
               lev[depth][0][x] = leaves[BitReverseIndex(x, depth)][x \div Shl[depth]]
      <3>1. g \in Nat \ {0} /\ depth \in 0..MaxBits
        BY <1>2, <1>5
      <3> HIDE DEF depth, g
      <3>2. /\ RepackLevels(RepackClosed(leaves, depth, g), leaves, depth, g)
            /\ RepackClosed(leaves, depth, g)[depth][0] \in Poly(g * Shl[depth])
            /\ \A x \in 0..(g * Shl[depth] - 1) :
                 /\ RepackClosed(leaves, depth, g)[depth][0][x]
                      = leaves[BitReverseIndex(x, depth)][x \div Shl[depth]]
                 /\ BitReverseIndex(x, depth) \in 0..(Shl[depth] - 1)
        BY ONLY <2>1, <3>1, RepackTree
      <3> HIDE DEF leaves
      <3>3. QED BY ONLY <3>2 DEF lev
    <2> HIDE DEF lev
    <2>3. QED BY <1>9, <2>2
  <1>15. Repack(cts, T) = final
    <2>1. \A t \in DOMAIN cts : cts[t] # Garbage
      BY GarbageAssumption
    <2>2. Log2(N1 \div (N2 \div T)) \in Nat
      BY <1>3, <1>5 DEF depth, g
    <2>3. RepackLevels(lev, RepackLeaves(cts, T, N2 \div T), Log2(N1 \div (N2 \div T)), N2 \div T)
      BY <1>14 DEF leaves, depth, g
    <2> HIDE DEF lev
    <2>4. QED BY <2>1, <2>2, <2>3, RepackUnfolds DEF depth, g
  <1> HIDE DEF final, lev
  <1> DEFINE reply == RespComp(Repack(cts, T))
  <1>16. reply = [m \in 0..(N2 - 1) |-> final[D * m + 0]]
    <2>1. final # Garbage
      BY <1>14, GarbageAssumption
    <2>2. QED BY <1>15, <2>1 DEF RespComp, ProjectAt, D
  <1>17. ASSUME NEW m \in 0..(N2 - 1)
         PROVE  /\ D * m + 0 \in 0..(N1 - 1)
                /\ final[D * m + 0] = cts[(m % T) + 1][w * (m \div T)]
    <2>1. m \in Nat
      BY <1>1
    <2>2. D * m + 0 \in 0..(N1 - 1)
      <3>1. 0 \in 0..(D - 1)
        BY <1>1
      <3>2. QED BY <1>1, <3>1, StrideWithin
    <2>3. D * m + 0 = D * m
      <3>1. D * m \in Nat
        BY <1>1, <2>1, Z3
      <3>2. QED BY <3>1
    <2>4. (D * m) \div w = m \div T
      BY <1>1, <1>2, <2>1, DivCancel DEF w
    <2>5. BitReverseIndex(D * m, depth) = BitReverseIndex(m, b)
      <3>1. e + b <= MaxBits /\ b \in Nat /\ e \in Nat
        BY <1>3, <1>5, <1>7
      <3>2. BitReverseIndex(Shl[e] * m, e + b) = BitReverseIndex(m, b)
        BY <2>1, <3>1, ReversalOfMultiple
      <3>3. QED BY <1>3, <1>7, <3>2
    <2> DEFINE k == BitReverseIndex(m, b)
    <2>6. k \in 0..(T - 1)
      BY <1>3, <2>1, ReversalGrows
    <2>7. BitReverseIndex(k, b) = m % T
      BY <1>3, <2>1, ReversedTwice
    <2> HIDE DEF k
    <2>8. leaves[k] = Extr(cts[(m % T) + 1], g)
      <3>1. k \in 0..(w - 1) /\ k < T
        BY <1>2, <1>9, <2>6
      <3>2. QED BY <1>10, <2>7, <3>1
    <2>9. m \div T \in 0..(g - 1) /\ (m % T) + 1 \in 1..T
      <3> DEFINE q == m \div T
                 t == m % T
      <3>1. q \in Nat /\ t \in 0..(T - 1) /\ m = T * q + t
        BY <1>2, <2>1, DivMod
      <3> HIDE DEF q, t
      <3>2. q < g
        <4> SUFFICES ASSUME g <= q PROVE FALSE
          BY <1>2, <3>1
        <4>1. \A x, y, z \in Nat : x <= y => x * z \in Nat /\ x * z <= z * y /\ z * y \in Nat
          BY Z3
        <4>2. g * T <= T * q /\ T * q \in Nat
          BY <1>2, <3>1, <4>1
        <4>3. QED BY <1>2, <3>1, <4>2
      <3>3. q \in 0..(g - 1) /\ t + 1 \in 1..T
        BY <1>2, <3>1, <3>2
      <3>4. QED BY <3>3 DEF q, t
    <2>10. Extr(cts[(m % T) + 1], g)[m \div T] = cts[(m % T) + 1][w * (m \div T)]
      BY <1>11, <2>9
    <2>11. final[D * m] = leaves[BitReverseIndex(D * m, depth)][(D * m) \div w]
      BY <1>14, <2>2, <2>3
    <2>12. final[D * m] = leaves[k][m \div T]
      BY <2>4, <2>5, <2>11 DEF k
    <2>13. QED BY <2>2, <2>3, <2>8, <2>10, <2>12
  <1>18. reply \in Poly(N2)
    <2>1. ASSUME NEW m \in 0..(N2 - 1) PROVE final[D * m + 0] \in Coeff
      BY <1>14, <1>17 DEF Poly
    <2> HIDE DEF reply
    <2>2. QED BY <1>16, <2>1 DEF Poly
  <1>19. \A m \in 0..(N2 - 1) : reply[m] = cts[(m % T) + 1][w * (m \div T)]
    <2> HIDE DEF reply
    <2>1. QED BY <1>16, <1>17
  <1>20. QED BY <1>18, <1>19 DEF w

\* The n coefficients of record index of the database, and of the record a
\* number of slots further on in its cell.
RecordAt(cells, index, i, j, n, further) ==
  LET at == DecomposeIndex(index, i, j)
  IN  ProjectAt(cells[at.alpha][at.beta], N1, n, at.gamma + further)

\* answer: the slots of a record's degree in the reply hold the record asked
\* for, then those every D slots further on in its cell.
LEMMA QueryAnswered ==
  ASSUME NEW i, NEW j, IsPowerOfTwo(i), IsPowerOfTwo(j), NEW n \in {N2, N3},
         NEW index \in Nat, index < D * (i * j), NEW p,
         NEW cells \in Cells(i, j), NEW q, Honest(q, index, i, j, D, p)
  PROVE  \E reply \in Poly(N2) :
           /\ AnswerOneQuery(q, p, i, j, cells) = Ok(reply)
           /\ \A s \in 1..(N2 \div n) :
                ProjectAt(reply, N2, n, s - 1) = RecordAt(cells, index, i, j, n, (s - 1) * D)
  <1> DEFINE at == DecomposeIndex(index, i, j)
             g == at.gamma
             cell == cells[at.alpha][at.beta]
             v == N2 \div n
  <1>1. /\ N1 \in Nat \ {0} /\ N2 \in Nat \ {0} /\ n \in Nat \ {0}
        /\ D \in Nat \ {0} /\ N1 = D * N2 /\ v \in Nat \ {0} /\ N2 = v * n
        /\ N1 \div n = D * v
    BY Tower
  <1>2. N1 \div N2 = D
    BY DEF D
  <1>3. PICK ct : AnswerThroughCrot(q, p, i, j, cells, N2) = Ok(ct) /\ Turned(ct, cells, index, i, j)
    BY <1>2, PrefixAnswers DEF PrefixServes
  <1>4. g \in 0..(D - 1)
    BY <1>2, PrefixAnswers DEF PrefixServes
  <1>5. ct \in Poly(N1) /\ \A x \in 0..(N1 - 1) : x + g < N1 => ct[x] = cell[x + g]
    BY <1>3 DEF Turned
  <1> DEFINE reply == [m \in 0..(N2 - 1) |-> ct[D * m + 0]]
  <1>6. AnswerOneQuery(q, p, i, j, cells) = Ok(reply)
    <2>1. Ok(ct).err = "" /\ Ok(ct).ct = ct
      BY DEF Ok
    <2>2. AnswerOneQuery(q, p, i, j, cells) = Ok(RespComp(ct))
      BY <1>3, <2>1 DEF AnswerOneQuery
    <2>3. ct # Garbage
      BY <1>5, GarbageAssumption
    <2>4. RespComp(ct) = reply
      BY <1>2, <2>3 DEF RespComp, ProjectAt
    <2>5. QED BY <2>2, <2>4, Zenon
  <1> HIDE DEF at, g, cell, v
  <1>7. ASSUME NEW m \in 0..(N2 - 1)
        PROVE  /\ D * m \in 0..(N1 - 1) /\ D * m + 0 = D * m /\ D * m \in Nat
               /\ ct[D * m] = cell[D * m + g]
    <2>1. D * m + g \in 0..(D * N2 - 1) /\ D * m + 0 \in 0..(D * N2 - 1)
      <3>1. 0 \in 0..(D - 1)
        BY <1>1
      <3>2. QED BY <1>1, <1>4, <3>1, StrideWithin
    <2>2. D * m \in Nat
      BY <1>1, Z3
    <2>3. D * m + 0 = D * m
      BY <2>2
    <2>4. D * m \in 0..(N1 - 1) /\ D * m + g < N1
      <3> DEFINE y == D * m
                 z == D * N2
      <3>1. y + g \in 0..(z - 1) /\ y \in Nat /\ y + 0 \in 0..(z - 1) /\ z = N1
        BY <1>1, <2>1, <2>2
      <3> HIDE DEF y, z
      <3>2. y \in 0..(N1 - 1) /\ y + g < N1
        BY <1>1, <1>4, <3>1
      <3>3. QED BY <3>2 DEF y
    <2>5. QED BY <1>5, <2>2, <2>3, <2>4
  <1>8. reply \in Poly(N2)
    BY <1>5, <1>7 DEF Poly
  <1>9. ASSUME NEW s \in 1..v
        PROVE  ProjectAt(reply, N2, n, s - 1) = RecordAt(cells, index, i, j, n, (s - 1) * D)
    <2>1. ProjectAt(reply, N2, n, s - 1) = [x \in 0..(n - 1) |-> reply[v * x + (s - 1)]]
      BY DEF ProjectAt, v
    <2>2. RecordAt(cells, index, i, j, n, (s - 1) * D)
            = [x \in 0..(n - 1) |-> cell[(D * v) * x + (g + (s - 1) * D)]]
      BY <1>1 DEF RecordAt, ProjectAt, cell, at, g
    <2>3. ASSUME NEW x \in 0..(n - 1)
          PROVE  reply[v * x + (s - 1)] = cell[(D * v) * x + (g + (s - 1) * D)]
      <3> DEFINE m == v * x + (s - 1)
      <3>1. s - 1 \in 0..(v - 1) /\ s - 1 \in Nat /\ x \in Nat
        BY <1>1
      <3>2. m \in 0..(N2 - 1)
        <4>1. v * x + (s - 1) \in 0..(v * n - 1)
          BY <1>1, <3>1, StrideWithin
        <4>2. QED BY <1>1, <4>1
      <3>3. D * m = (D * v) * x + (s - 1) * D
        <4>1. \A a, b, c, d \in Nat : a * (b * c + d) = (a * b) * c + d * a
          BY Z3
        <4>2. QED BY <1>1, <3>1, <4>1
      <3> HIDE DEF m
      <3>4. reply[m] = cell[D * m + g]
        BY <1>7, <3>2
      <3>5. D * m + g = (D * v) * x + (g + (s - 1) * D)
        <4> DEFINE a == (D * v) * x
                   b == (s - 1) * D
        <4>1. a \in Nat /\ b \in Nat
          <5>1. \A c, d, f \in Nat : (c * d) * f \in Nat /\ c * d \in Nat
            BY Z3
          <5>2. QED BY <1>1, <3>1, <5>1
        <4>2. D * m = a + b
          BY <3>3
        <4> HIDE DEF a, b
        <4>3. D * m + g = a + (g + b)
          BY <1>4, <4>1, <4>2
        <4>4. QED BY <4>3 DEF a, b
      <3>6. QED BY <3>4, <3>5 DEF m
    <2> HIDE DEF reply
    <2>4. QED BY <2>1, <2>2, <2>3
  <1> HIDE DEF reply
  <1>10. QED BY <1>6, <1>8, <1>9 DEF v

\* T queries for the indices idxs.
AllHonest(queries, idxs, T, i, j, d, p) ==
  \A t \in 1..T : /\ idxs[t] \in Nat /\ idxs[t] < d * (i * j)
                  /\ Honest(queries[t], idxs[t], i, j, d, p)

\* A batch answered: slot t of a record's degree in the reply holds record t.
BatchServed(queries, idxs, T, i, j, n, p, cells) ==
  \E reply \in Poly(N2) :
    /\ AnswerBatch(queries, T, p, i, j, cells, n) = Ok(reply)
    /\ \A t \in 1..T :
         ProjectAt(reply, N2, n, t - 1) = RecordAt(cells, idxs[t], i, j, n, 0)

\* answer_batch serves a batch of its size.
LEMMA BatchAnswered ==
  ASSUME NEW i, NEW j, IsPowerOfTwo(i), IsPowerOfTwo(j), NEW n \in {N2, N3},
         NEW T, IsPowerOfTwo(T), T * n <= N2, NEW p, NEW cells \in Cells(i, j),
         NEW idxs, NEW S, NEW queries \in [1..T -> S],
         AllHonest(queries, idxs, T, i, j, N1 \div n, p)
  PROVE  BatchServed(queries, idxs, T, i, j, n, p, cells)
  <1> DEFINE prefix == [t \in DOMAIN queries |-> AnswerThroughCrot(queries[t], p, i, j, cells, n)]
             failed == {t \in DOMAIN queries : prefix[t].err # ""}
             cts == [t \in DOMAIN queries |-> prefix[t].ct]
             reply == RespComp(Repack(cts, T))
             v == N2 \div n
             d == N1 \div n
             u == v \div T
             at(t) == DecomposeIndex(idxs[t], i, j)
  <1>1. /\ N1 \in Nat \ {0} /\ N2 \in Nat \ {0} /\ n \in Nat \ {0}
        /\ D \in Nat \ {0} /\ v \in Nat \ {0} /\ N2 = v * n /\ IsPowerOfTwo(v)
        /\ d = D * v /\ d \in Nat \ {0} /\ N1 = d * n
    BY Tower
  <1>2. T \in Nat \ {0} /\ DOMAIN queries = 1..T /\ Len(queries) = T
    <2>1. T \in Nat \ {0}
      BY ShlAssumption DEF IsPowerOfTwo
    <2>2. QED BY <2>1
  <1>3. T <= v /\ T <= N2
    <2> HIDE DEF v
    <2>1. \A x, y, z \in Nat : x * z <= y * z /\ z # 0 => x <= y
      BY Z3
    <2>2. T <= v
      BY <1>1, <1>2, <2>1
    <2>3. v <= v * n /\ v * n \in Nat
      BY <1>1, Z3
    <2>4. QED BY <1>1, <1>2, <2>2, <2>3
  <1>4. u \in Nat \ {0} /\ v = u * T
    <2> HIDE DEF v
    <2>1. QED BY <1>1, <1>3, PowersDivide
  <1>5. ASSUME NEW t \in 1..T
        PROVE  /\ prefix[t].err = ""
               /\ Turned(cts[t], cells, idxs[t], i, j)
               /\ at(t).gamma \in 0..(d - 1)
    <2>1. idxs[t] \in Nat /\ idxs[t] < (N1 \div n) * (i * j)
            /\ Honest(queries[t], idxs[t], i, j, N1 \div n, p)
      BY DEF AllHonest
    <2> DEFINE q == queries[t]
               index == idxs[t]
    <2>0. /\ PrefixServes(q, p, i, j, cells, n, index)
          /\ DecomposeIndex(index, i, j).gamma \in 0..((N1 \div n) - 1)
      <3>1. index \in Nat /\ index < (N1 \div n) * (i * j) /\ Honest(q, index, i, j, N1 \div n, p)
        BY <2>1
      <3> HIDE DEF q, index, d, v, u, prefix, failed, cts, reply
      <3>2. QED BY <3>1, PrefixAnswers
    <2>2. PICK ct : /\ AnswerThroughCrot(queries[t], p, i, j, cells, n) = Ok(ct)
                    /\ Turned(ct, cells, idxs[t], i, j)
      BY <2>0, Zenon DEF PrefixServes
    <2>3. prefix[t] = Ok(ct) /\ cts[t] = prefix[t].ct
      BY <1>2, <2>2
    <2>4. Ok(ct).err = "" /\ Ok(ct).ct = ct
      BY DEF Ok
    <2>5. at(t).gamma \in 0..(d - 1)
      BY <2>0
    <2> HIDE DEF prefix, cts, at
    <2>6. prefix[t].err = "" /\ cts[t] = ct
      BY <2>3, <2>4
    <2>7. QED BY <2>2, <2>5, <2>6
  <1>6. AnswerBatch(queries, T, p, i, j, cells, n) = Ok(reply)
    <2>1. AnswerBatch(queries, T, p, i, j, cells, n)
            = IF Len(queries) # T THEN Err("DimMismatch")
              ELSE IF failed # {} THEN prefix[CHOOSE t \in failed : \A x \in failed : t <= x]
              ELSE Ok(reply)
      BY Zenon DEF AnswerBatch
    <2>2. failed = {}
      <3> HIDE DEF prefix
      <3>1. QED BY <1>2, <1>5
    <2> HIDE DEF failed, reply, prefix
    <2>3. QED BY <1>2, <2>1, <2>2
  <1>7. cts \in [1..T -> Poly(N1)]
    <2>1. cts = [t \in 1..T |-> cts[t]]
      BY <1>2
    <2>2. \A t \in 1..T : cts[t] \in Poly(N1)
      BY <1>5 DEF Turned
    <2> HIDE DEF cts
    <2>3. QED BY <2>1, <2>2
  <1> HIDE DEF prefix, failed, cts
  <1>8. /\ reply \in Poly(N2)
        /\ \A m \in 0..(N2 - 1) : reply[m] = cts[(m % T) + 1][(D * T) * (m \div T)]
    BY <1>3, <1>7, RepackInterleaves
  <1> HIDE DEF reply, v, d, u
  <1>9. ASSUME NEW t \in 1..T
        PROVE  ProjectAt(reply, N2, n, t - 1) = RecordAt(cells, idxs[t], i, j, n, 0)
    <2> DEFINE cell == cells[at(t).alpha][at(t).beta]
               g == at(t).gamma
    <2>1. ProjectAt(reply, N2, n, t - 1) = [x \in 0..(n - 1) |-> reply[v * x + (t - 1)]]
      BY DEF ProjectAt, v
    <2>2. g \in 0..(d - 1) /\ g \in Nat
      <3>1. g \in 0..(d - 1)
        BY <1>5
      <3> HIDE DEF g
      <3>2. QED BY <1>1, <3>1
    <2>3. RecordAt(cells, idxs[t], i, j, n, 0) = [x \in 0..(n - 1) |-> cell[d * x + g]]
      <3>1. g + 0 = g
        BY <2>2
      <3>2. RecordAt(cells, idxs[t], i, j, n, 0) = [x \in 0..(n - 1) |-> cell[d * x + (g + 0)]]
        BY DEF RecordAt, ProjectAt, d
      <3>3. QED BY <3>1, <3>2
    <2>4. \A x \in 0..(N1 - 1) : x + g < N1 => cts[t][x] = cell[x + g]
      BY <1>5 DEF Turned
    <2> HIDE DEF at, cell, g
    <2>5. ASSUME NEW x \in 0..(n - 1) PROVE reply[v * x + (t - 1)] = cell[d * x + g]
      <3> DEFINE m == v * x + (t - 1)
      <3>1. x \in Nat /\ t - 1 \in 0..(T - 1) /\ t - 1 \in 0..(v - 1) /\ t - 1 \in Nat /\ (t - 1) + 1 = t
        BY <1>1, <1>2, <1>3
      <3>2. m \in 0..(N2 - 1) /\ m \in Nat
        <4>1. v * x + (t - 1) \in 0..(v * n - 1)
          BY <1>1, <3>1, StrideWithin
        <4>2. m \in 0..(N2 - 1)
          BY <1>1, <4>1
        <4> HIDE DEF m
        <4>3. QED BY <1>1, <4>2
      <3>3. m = T * (u * x) + (t - 1) /\ u * x \in Nat
        <4>1. \A a, b, c \in Nat : (a * b) * c = b * (a * c) /\ a * c \in Nat
          BY Z3
        <4>2. m = (u * T) * x + (t - 1)
          BY <1>4
        <4> HIDE DEF m
        <4>3. u \in Nat /\ T \in Nat /\ x \in Nat
          BY <1>2, <1>4, <3>1
        <4>4. (u * T) * x = T * (u * x) /\ u * x \in Nat
          <5>1. \A b, c, e \in Nat : (b * c) * e = c * (b * e) /\ b * e \in Nat
            BY <4>1
          <5> HIDE DEF u
          <5>2. QED BY <4>3, <5>1
        <4>5. QED BY <4>2, <4>4
      <3> HIDE DEF m
      <3>4. m \div T = u * x /\ m % T = t - 1
        <4> DEFINE y == u * x
                   z == t - 1
        <4>1. m \in Nat /\ T \in Nat \ {0} /\ y \in Nat /\ z \in 0..(T - 1) /\ m = T * y + z
          BY <1>2, <3>1, <3>2, <3>3
        <4> HIDE DEF y, z
        <4>2. QED BY <4>1, DivModUnique DEF y, z
      <3>5. (D * T) * (u * x) = d * x
        <4>1. \A a, b, c, f \in Nat : (a * b) * (c * f) = (a * (c * b)) * f
          BY Z3
        <4>2. QED BY <1>1, <1>2, <1>4, <3>1, <4>1
      <3>6. reply[m] = cts[t][d * x]
        BY <1>8, <3>1, <3>2, <3>4, <3>5
      <3>7. d * x \in 0..(N1 - 1) /\ d * x + g < N1
        <4>1. 0 \in 0..(d - 1)
          BY <1>1
        <4>2. d * x + g \in 0..(d * n - 1) /\ d * x + 0 \in 0..(d * n - 1)
          BY <1>1, <2>2, <4>1, StrideWithin
        <4> DEFINE y == d * x
        <4>3. y \in Nat /\ y + g \in 0..(N1 - 1) /\ y + 0 \in 0..(N1 - 1)
          <5>1. y \in Nat
            BY <1>1, <3>1, Z3
          <5>2. QED BY <1>1, <4>2, <5>1
        <4> HIDE DEF y
        <4>4. y \in 0..(N1 - 1) /\ y + g < N1
          BY <1>1, <2>2, <4>3
        <4>5. QED BY <4>4 DEF y
      <3>8. QED BY <2>4, <3>6, <3>7 DEF m
    <2>6. QED BY <2>1, <2>3, <2>5
  <1>10. QED BY <1>6, <1>8, <1>9 DEF BatchServed

-----------------------------------------------------------------------------

\* setup_db places record x at the cell and slot of decompose_index(x).
LEMMA SetupDbPlaces ==
  ASSUME NEW r \in Nat \ {0}, NEW c \in Nat \ {0}, NEW n \in {N2, N3},
         NEW num \in Nat, NEW x \in 0..(r * c * (N1 \div n) - 1),
         \A y \in 0..(num - 1) : Payload(y, n) \in Poly(n)
  PROVE  LET at == DecomposeIndex(x, r, c)
         IN  ProjectAt(SetupDb(Records(num, n), r, c, n)[at.alpha][at.beta], N1, n, at.gamma)
               = IF x < num THEN Payload(x, n) ELSE Zero(n)
  <1> DEFINE d == N1 \div n
             at == DecomposeIndex(x, r, c)
             records == Records(num, n)
             Rec(y) == IF y < Len(records) THEN records[y + 1] ELSE Zero(n)
             cell == SetupDb(records, r, c, n)[at.alpha][at.beta]
             rec == IF x < num THEN Payload(x, n) ELSE Zero(n)
  <1>1. n \in Nat \ {0} /\ d \in Nat \ {0} /\ N1 = d * n
    BY DegreeSplits
  <1>2. r * c \in Nat \ {0}
    BY Z3
  <1>3. x \in Nat /\ x < d * (r * c)
    <2>1. r * c * d = d * (r * c)
      BY <1>1, <1>2
    <2>2. x \in 0..(r * c * d - 1)
      OBVIOUS
    <2> HIDE DEF d
    <2>3. QED BY <1>1, <1>2, <2>1, <2>2, Z3
  <1>4. /\ at.alpha \in 0..(r - 1)
        /\ at.beta \in 0..(c - 1)
        /\ at.gamma \in 0..(d - 1)
        /\ x = at.gamma * (r * c) + at.alpha * c + at.beta
    <2> HIDE DEF d
    <2>1. QED BY <1>1, <1>3, DecomposeInverts DEF at
  <1> DEFINE cellOf(y) == Rec((y % d) * (r * c) + at.alpha * c + at.beta)[y \div d]
  <1>5. cell = [y \in 0..(N1 - 1) |-> cellOf(y)]
    <2> HIDE DEF at, records
    <2>1. QED BY <1>4 DEF SetupDb
  <1>6. Rec(x) = rec
    <2>1. Len(records) = num /\ \A y \in 1..num : records[y] = Payload(y - 1, n)
      BY DEF Records
    <2> HIDE DEF records
    <2>2. CASE x < num
      <3>1. x + 1 \in 1..num /\ (x + 1) - 1 = x
        BY <1>3, <2>2
      <3>2. QED BY <2>1, <2>2, <3>1
    <2>3. CASE ~(x < num)
      BY <2>1, <2>3
    <2>4. QED BY <2>2, <2>3
  <1>7. rec \in [0..(n - 1) -> Coeff] \/ rec = Zero(n)
    <2>1. CASE x < num
      BY <1>3, <2>1 DEF Poly
    <2>2. CASE ~(x < num)
      BY <2>2
    <2>3. QED BY <2>1, <2>2
  <1>8. rec = [i \in 0..(n - 1) |-> rec[i]]
    <2> HIDE DEF rec
    <2>1. QED BY <1>7 DEF Zero
  <1>9. ASSUME NEW i \in 0..(n - 1)
        PROVE  cell[d * i + at.gamma] = rec[i]
    <2> DEFINE y == d * i + at.gamma
               g == at.gamma
    <2>1. g \in 0..(d - 1) /\ i \in Nat
      BY <1>1, <1>4
    <2> HIDE DEF d, g, rec, cell, at, Rec
    <2>2. d * i \in Nat /\ d * i + d <= d * n
      <3>1. d * (i + 1) <= d * n
        BY <1>1, <2>1, Z3
      <3>2. QED BY <1>1, <2>1, <3>1, Z3
    <2>3. d * i + g \in 0..(N1 - 1)
      BY <1>1, <2>1, <2>2
    <2>4. (d * i + g) \div d = i /\ (d * i + g) % d = g
      <3>1. d * i + g \in Nat
        BY <2>1, <2>2
      <3>2. d * i + g = d * i + g
        OBVIOUS
      <3>3. QED BY ONLY <1>1, <2>1, <3>1, <3>2, DivModUnique
    <2>5. cell[d * i + g] = Rec(((d * i + g) % d) * (r * c) + at.alpha * c + at.beta)[(d * i + g) \div d]
      BY <1>5, <2>3
    <2>6. cell[d * i + g] = Rec(g * (r * c) + at.alpha * c + at.beta)[i]
      BY <2>4, <2>5
    <2>7. cell[d * i + g] = Rec(x)[i]
      BY <1>4, <2>6 DEF g
    <2>8. QED BY <1>6, <2>7 DEF g
  <1>10. ProjectAt(cell, N1, n, at.gamma) = [i \in 0..(n - 1) |-> cell[d * i + at.gamma]]
    BY DEF ProjectAt
  <1> HIDE DEF cell, rec, at, d
  <1>11. ProjectAt(cell, N1, n, at.gamma) = rec
    BY <1>8, <1>9, <1>10
  <1>12. QED BY <1>11 DEF cell, rec, at

-----------------------------------------------------------------------------
\* The inductive invariant: the shape is a checked one from Client::setup on,
\* and a serving server holds the encoding of a number of records that fits.
SetupInv ==
  /\ stage \in {"client", "serving", "server_refused"} =>
       rows \in Dims /\ cols \in Dims /\ IsPowerOfTwo(rows) /\ IsPowerOfTwo(cols)
  /\ stage = "serving" =>
       /\ nrec \in {N2, N3}
       /\ count \in 0..Capacity(nrec)
       /\ db = SetupDb(Records(count, nrec), rows, cols, nrec)

LEMMA SetupInvInit == Init => SetupInv
  BY DEF Init, SetupInv

\* A capacity is a natural number.
LEMMA CapacityNat ==
  ASSUME NEW i \in Dims, NEW j \in Dims, NEW n \in {N2, N3}
  PROVE  i * j * (N1 \div n) \in Nat
  <1> DEFINE d == N1 \div n
  <1>1. d \in Nat
    BY DegreeSplits
  <1> HIDE DEF d
  <1>2. i \in Nat /\ j \in Nat
    BY RequestAssumption
  <1>3. i * j \in Nat
    BY <1>2, Z3
  <1>4. i * j * d \in Nat
    BY <1>1, <1>3, Z3
  <1>5. QED BY <1>4 DEF d

LEMMA SetupInvNext == SetupInv /\ [Next]_vars => SetupInv'
  <1> SUFFICES ASSUME SetupInv, [Next]_vars PROVE SetupInv'
    OBVIOUS
  <1>1. CASE ClientSetup
    <2>1. CASE stage' = "panicked"
      BY <2>1 DEF SetupInv
    <2>2. CASE stage' # "panicked"
      BY <1>1, <2>2 DEF ClientSetup, PublicParamsPanic, SetUp, SetupInv, IsPowerOfTwo
    <2>3. QED BY <2>1, <2>2
  <1>2. CASE ClientSetupRefused
    BY <1>2 DEF ClientSetupRefused, SetupInv
  <1>3. CASE ServerSetup
    <2>1. stage = "client" /\ stage' = "serving" /\ rows' = rows /\ cols' = cols
      BY <1>3 DEF ServerSetup
    <2>2. rows \in Dims /\ cols \in Dims /\ IsPowerOfTwo(rows) /\ IsPowerOfTwo(cols)
      BY <2>1 DEF SetupInv
    <2>3. PICK n \in {N2, N3}, spare \in Spare :
            /\ 0 <= spare /\ spare <= Capacity(n)
            /\ nrec' = n
            /\ count' = Capacity(n) - spare
            /\ db' = SetupDb(Records(Capacity(n) - spare, n), rows, cols, n)
      BY <1>3 DEF ServerSetup
    <2>4. Capacity(n) \in Nat /\ spare \in Int
      BY <2>2, CapacityNat, RequestAssumption DEF Capacity
    <2>5. count' \in 0..Capacity(n)
      BY <2>3, <2>4
    <2>6. Capacity(n)' = Capacity(n)
      BY <2>1, <2>3 DEF Capacity
    <2>7. QED BY <2>1, <2>2, <2>3, <2>5, <2>6 DEF SetupInv, Capacity, IsPowerOfTwo
  <1>4. CASE ServerSetupRefused
    BY <1>4 DEF ServerSetupRefused, SetupInv
  <1>0. CASE ParamsPanic
    BY <1>0 DEF ParamsPanic, SetupInv
  <1>5. ASSUME UNCHANGED <<stage, rows, cols, nrec, db, count>> PROVE SetupInv'
    BY <1>5 DEF SetupInv, Capacity, IsPowerOfTwo
  <1>6. ASSUME NEW r \in Request,
               Query(r) \/ BatchQuery(r) \/ Answer(r) \/ Recover(r)
                 \/ RecoverBatch(r) \/ \E T \in BatchSizes : AnswerBatched(r, T)
        PROVE  UNCHANGED <<stage, rows, cols, nrec, db, count>>
    BY <1>6 DEF Query, BatchQuery, Answer, AnswerBatched, Reply, Recover, RecoverBatch
  <1>7. CASE UNCHANGED vars
    BY <1>5, <1>7 DEF vars
  <1>8. QED BY <1>0, <1>1, <1>2, <1>3, <1>4, <1>5, <1>6, <1>7 DEF Next

LEMMA SetupInvStored == SetupInv => RecordsStored
  <1> SUFFICES ASSUME SetupInv, stage = "serving"
               PROVE  /\ count <= Capacity(nrec)
                      /\ \A x \in 0..(Capacity(nrec) - 1) :
                           LET at == DecomposeIndex(x, rows, cols)
                           IN  ProjectAt(db[at.alpha][at.beta], N1, nrec, at.gamma)
                                 = IF x < count THEN Payload(x, nrec) ELSE Zero(nrec)
    BY DEF RecordsStored
  <1>1. /\ rows \in Dims /\ cols \in Dims /\ IsPowerOfTwo(rows) /\ IsPowerOfTwo(cols)
        /\ nrec \in {N2, N3}
        /\ count \in 0..Capacity(nrec)
        /\ db = SetupDb(Records(count, nrec), rows, cols, nrec)
    BY DEF SetupInv
  <1>2. rows \in Nat \ {0} /\ cols \in Nat \ {0}
    BY <1>1, ShlAssumption DEF IsPowerOfTwo
  <1>3. Capacity(nrec) \in Nat /\ count \in Nat /\ count <= Capacity(nrec)
    BY <1>1, CapacityNat DEF Capacity
  <1>4. \A y \in 0..(count - 1) : Payload(y, nrec) \in Poly(nrec)
    <2>1. \A y \in 0..(Capacity(nrec) - 1) : Payload(y, nrec) \in Poly(nrec)
      BY <1>1, RequestAssumption DEF Capacity
    <2>2. QED BY <1>3, <2>1
  <1>5. ASSUME NEW x \in 0..(Capacity(nrec) - 1)
        PROVE  LET at == DecomposeIndex(x, rows, cols)
               IN  ProjectAt(db[at.alpha][at.beta], N1, nrec, at.gamma)
                     = IF x < count THEN Payload(x, nrec) ELSE Zero(nrec)
    <2>1. x \in 0..(rows * cols * (N1 \div nrec) - 1)
      BY DEF Capacity
    <2>2. QED BY <1>1, <1>2, <1>3, <1>4, <2>1, SetupDbPlaces
  <1>6. QED BY <1>3, <1>5

\* Whatever the shape and the number of records, Server::setup loses none of
\* them: RecordsStored holds in every reachable state.
THEOREM NothingDropped == Spec => []RecordsStored
  <1>1. Spec => []SetupInv
    BY SetupInvInit, SetupInvNext, PTL DEF Spec
  <1>2. QED BY <1>1, SetupInvStored, PTL

-----------------------------------------------------------------------------
(***************************************************************************)
(* The stages.  No request moves before there is a client.                 *)
(***************************************************************************)

\* The inductive invariant.
StageInv ==
  /\ DOMAIN req = Request
  /\ stage = "start" => rows = 0
  /\ rows # 0 => stage \in {"client", "serving", "server_refused"}
  /\ rows = 0 => \A r \in Request : req[r] = Idle

LEMMA StageInvInit == Init => StageInv
  <1> SUFFICES ASSUME Init PROVE StageInv
    OBVIOUS
  <1>1. req = [r \in Request |-> Idle] /\ stage = "start" /\ rows = 0
    BY DEF Init
  <1>2. QED BY <1>1 DEF StageInv

LEMMA StageInvNext == SetupInv /\ StageInv /\ [Next]_vars => StageInv'
  <1> SUFFICES ASSUME SetupInv, StageInv, [Next]_vars PROVE StageInv'
    OBVIOUS
  <1>0. Idle' = Idle
    BY DEF Idle
  <1>1. CASE ParamsPanic \/ ClientSetup \/ ClientSetupRefused
    <2>1. stage = "start" /\ req' = req
      BY <1>1 DEF ParamsPanic, ClientSetup, ClientSetupRefused
    <2>2. \/ stage' \in {"panicked", "client_refused"} /\ rows' = rows
          \/ stage' = "client"
      BY <1>1 DEF ParamsPanic, ClientSetup, ClientSetupRefused, PublicParamsPanic, SetUp
    <2>3. QED BY <1>0, <2>1, <2>2 DEF StageInv
  <1>2. CASE ServerSetup \/ ServerSetupRefused
    <2>1. UNCHANGED <<rows, req>> /\ stage = "client" /\ stage' \in {"serving", "server_refused"}
      BY <1>2 DEF ServerSetup, ServerSetupRefused
    <2>2. QED BY <1>0, <2>1 DEF StageInv
  <1>3. ASSUME NEW r \in Request,
               \/ Query(r) \/ BatchQuery(r) \/ Answer(r) \/ Recover(r) \/ RecoverBatch(r)
               \/ \E T \in BatchSizes : AnswerBatched(r, T)
        PROVE  StageInv'
    <2>1. UNCHANGED <<stage, rows>>
      BY <1>3 DEF Query, BatchQuery, Answer, AnswerBatched, Reply, Recover, RecoverBatch
    <2>2. rows # 0
      <3>1. CASE Query(r) \/ BatchQuery(r)
        <4>1. HasClient
          BY <3>1, Zenon DEF Query, BatchQuery
        <4>2. QED BY <4>1 DEF HasClient
      <3>2. CASE ~(Query(r) \/ BatchQuery(r))
        <4>1. req[r].at # "idle"
          BY <1>3, <3>2 DEF Answer, AnswerBatched, Recover, RecoverBatch
        <4>2. Idle.at = "idle"
          BY DEF Idle
        <4>3. QED BY <4>1, <4>2 DEF StageInv
      <3>3. QED BY <3>1, <3>2
    <2>3. DOMAIN req' = DOMAIN req
      <3>1. CASE Query(r) \/ BatchQuery(r)
        <4>1. PICK q : req' = [req EXCEPT ![r] = q]
          BY <3>1, Zenon DEF Query, BatchQuery
        <4>2. QED BY <4>1
      <3>2. CASE Answer(r) \/ \E T \in BatchSizes : AnswerBatched(r, T)
        <4>1. PICK at, reply : req' = [req EXCEPT ![r].at = at, ![r].reply = reply]
          <5>1. PICK result : Reply(r, result)
            BY <3>2 DEF Answer, AnswerBatched
          <5>2. QED BY <5>1, Zenon DEF Reply
        <4>2. QED BY <4>1
      <3>3. CASE Recover(r) \/ RecoverBatch(r)
        <4>1. PICK got : req' = [req EXCEPT ![r].at = "done", ![r].got = got]
          BY <3>3, Zenon DEF Recover, RecoverBatch
        <4>2. QED BY <4>1
      <3>4. QED BY <1>3, <3>1, <3>2, <3>3
    <2>4. QED BY <2>1, <2>2, <2>3 DEF StageInv
  <1>4. CASE UNCHANGED vars
    BY <1>0, <1>4 DEF vars, StageInv
  <1>5. QED BY <1>1, <1>2, <1>3, <1>4 DEF Next

-----------------------------------------------------------------------------
(***************************************************************************)
(* Who is turned down.  Client and server compute the length of a query on *)
(* their own, and agree on powers of two.                                  *)
(***************************************************************************)

\* The length of a query that rotates by d.
SentLength(i, j, d) == (CeilLog2(i) + CeilLog2(j) + CeilLog2(d)) * L_QUERY

\* What the client builds has that length.
LEMMA QueryLength ==
  ASSUME NEW index, NEW i, NEW j, NEW d, NEW b1, NEW b2,
         IsPowerOfTwo(i), IsPowerOfTwo(j), IsPowerOfTwo(d)
  PROVE  LET s == BuildCompressedQuery(index, i, j, d, b1, b2)
         IN  IsSequence(s) /\ Len(s) = SentLength(i, j, d)
  <1> DEFINE split == DecomposeIndex(index, i, j)
             nd == CeilLog2(i)
             nc == CeilLog2(j)
             nr == CeilLog2(d)
             s1 == PushBitGroup(DmuxBits(split.alpha, nd), nd, b1)
             s2 == PushBitGroup(CmuxBits(split.beta, nc), nc, b2)
             s3 == PushBitGroup(CrotBits(split.gamma, nr), nr, b2)
  <1>1. BuildCompressedQuery(index, i, j, d, b1, b2) = s1 \o s2 \o s3
    BY DEF BuildCompressedQuery
  <1>2. nd \in Nat /\ nc \in Nat /\ nr \in Nat
    BY CeilLog2Nat
  <1> HIDE DEF nd, nc, nr
  <1>3. nd * L_QUERY + nc * L_QUERY + nr * L_QUERY = (nd + nc + nr) * L_QUERY
    BY <1>2, LevelsNat, Z3
  <1>4. /\ IsSequence(s1) /\ Len(s1) = nd * L_QUERY
        /\ IsSequence(s2) /\ Len(s2) = nc * L_QUERY
        /\ IsSequence(s3) /\ Len(s3) = nr * L_QUERY
    BY <1>2, GroupPushed
  <1> HIDE DEF s1, s2, s3
  <1>5. IsSequence(s1 \o s2) /\ Len(s1 \o s2) = Len(s1) + Len(s2)
    BY <1>4, ConcatAt DEF Joins
  <1>6. IsSequence((s1 \o s2) \o s3) /\ Len((s1 \o s2) \o s3) = Len(s1 \o s2) + Len(s3)
    BY <1>4, <1>5, ConcatAt DEF Joins
  <1>7. QED BY <1>1, <1>3, <1>4, <1>5, <1>6 DEF nd, nc, nr, SentLength

\* Queries of equal length rotate by the same degree.
LEMMA LengthTells ==
  ASSUME NEW i, NEW j, NEW d, NEW e,
         IsPowerOfTwo(i), IsPowerOfTwo(j), IsPowerOfTwo(d), IsPowerOfTwo(e),
         SentLength(i, j, d) = SentLength(i, j, e)
  PROVE  d = e
  <1>1. /\ CeilLog2(i) \in Nat /\ CeilLog2(j) \in Nat /\ CeilLog2(d) \in Nat /\ CeilLog2(e) \in Nat
    BY CeilLog2Nat
  <1>2. L_QUERY \in Nat \ {0}
    BY DegreesAssumption DEF ViaBCheck, ViaCCheck
  <1>3. \A a, b, c, f \in Nat, l \in Nat \ {0} : (a + b + c) * l = (a + b + f) * l => c = f
    BY Z3
  <1>4. CeilLog2(d) = CeilLog2(e)
    BY <1>1, <1>2, <1>3 DEF SentLength
  <1>5. Shl[CeilLog2(d)] = d /\ Shl[CeilLog2(e)] = e
    BY LogsAgree
  <1>6. QED BY <1>4, <1>5

\* answer_through_crot turns a query down by its length alone.
LEMMA PrefixFails ==
  ASSUME NEW query, NEW p, NEW i, NEW j, NEW cells, NEW n \in {N2, N3},
         IsPowerOfTwo(i), IsPowerOfTwo(j), DOMAIN cells = 0..(i - 1)
  PROVE  (AnswerThroughCrot(query, p, i, j, cells, n).err # "")
           <=> Len(query) # SentLength(i, j, N1 \div n)
  <1> DEFINE len == (Log2(i) + Log2(j) + (IF N1 \div n > 1 THEN Log2(N1 \div n) ELSE 0)) * L_QUERY
  <1>1. len = SentLength(i, j, N1 \div n)
    BY LogsAgree, SlotBits DEF SentLength
  <1>2. CASE Len(query) # len
    <2>1. AnswerThroughCrot(query, p, i, j, cells, n) = Err("QueryLengthMismatch")
      BY <1>2, Zenon DEF AnswerThroughCrot
    <2>2. QED BY <1>1, <1>2, <2>1 DEF Err
  <1>3. CASE Len(query) = len
    <2> DEFINE nd == Log2(i)
               nc == Log2(j)
               nr == IF N1 \div n > 1 THEN Log2(N1 \div n) ELSE 0
               dmux == QueryDecomp(query, 0, nd, p.base_1)
               cmux == QueryDecomp(query, nd, nc, p.base_2)
               rot  == QueryDecomp(query, nd + nc, nr, p.base_2)
               bits == {dmux[b] : b \in DOMAIN dmux} \cup {cmux[b] : b \in DOMAIN cmux}
                         \cup {rot[b] : b \in DOMAIN rot}
               columns == FirstDimColumns(DmuxTree(dmux, nd), cells, i, j)
    <2> SUFFICES \E ct : AnswerThroughCrot(query, p, i, j, cells, n) = Ok(ct)
      <3>1. \A ct : Ok(ct).err = ""
        BY DEF Ok
      <3> HIDE DEF len
      <3>2. QED BY <1>1, <1>3, <3>1
    <2>1. CASE Garbage \in bits
      <3>1. AnswerThroughCrot(query, p, i, j, cells, n) = Ok(Garbage)
        BY <1>3, <2>1, Zenon DEF AnswerThroughCrot
      <3>2. QED BY <3>1, Zenon
    <2>2. CASE Garbage \notin bits
      <3>1. AnswerThroughCrot(query, p, i, j, cells, n) = Ok(Crot(rot, nr, CmuxTree(cmux, nc, columns)))
        BY <1>3, <2>2, Zenon DEF AnswerThroughCrot
      <3>2. QED BY <3>1, Zenon
    <2>3. QED BY <2>1, <2>2
  <1>4. QED BY <1>2, <1>3

\* The inductive invariant: a message that waits for an answer holds at least
\* one query, and its queries have the length of their kind.
Whole(q) ==
  /\ DOMAIN q = DOMAIN Idle
  /\ q.at = "sent" =>
       /\ rows # 0
       /\ \E n, S : n \in Nat \ {0} /\ q.msg \in [1..n -> S]
       /\ \A t \in DOMAIN q.msg :
            Len(q.msg[t]) = SentLength(rows, cols, IF q.op = "query" THEN D ELSE D3)

SentInv == \A r \in Request : Whole(req[r])

LEMMA SentInvInit == Init => SentInv
  <1>1. Init => \A r \in Request : req[r] = Idle
    BY DEF Init
  <1>2. Whole(Idle)
    <2>1. Idle.at # "sent"
      BY DEF Idle
    <2>2. QED BY <2>1 DEF Whole
  <1>3. QED BY <1>1, <1>2 DEF SentInv

\* A step that changes request r at most.
LEMMA WholeAfter ==
  ASSUME SentInv, UNCHANGED <<rows, cols>>, NEW r \in Request,
         \A s \in Request \ {r} : req'[s] = req[s],
         DOMAIN req'[r] = DOMAIN Idle,
         req'[r].at = "sent" => Whole(req[r])'
  PROVE  SentInv'
  <1>1. ASSUME NEW s \in Request PROVE Whole(req[s])'
    <2>1. CASE s = r
      BY <2>1 DEF Whole, Idle
    <2>2. CASE s # r
      <3>1. req'[s] = req[s] /\ Whole(req[s])
        BY <2>2 DEF SentInv
      <3>2. QED BY <3>1 DEF Whole, Idle
    <2>3. QED BY <2>1, <2>2
  <1>2. QED BY <1>1 DEF SentInv

LEMMA QuerySent ==
  ASSUME SetupInv, StageInv, SentInv, NEW r \in Request, Query(r)
  PROVE  SentInv'
  <1>1. /\ rows # 0 /\ DOMAIN req = Request
        /\ IsPowerOfTwo(rows) /\ IsPowerOfTwo(cols)
        /\ UNCHANGED <<rows, cols>>
    BY DEF Query, HasClient, SetupInv, StageInv
  <1>2. PICK index, cts :
          /\ cts = BuildCompressedQuery(index, rows, cols, D, params.base_1, params.base_2)
          /\ req' = [req EXCEPT ![r] =
               IF index >= D * rows * cols THEN [Idle EXCEPT !.at = "refused", !.idxs = <<index>>]
               ELSE [Idle EXCEPT !.at = "sent", !.op = "query", !.idxs = <<index>>, !.msg = <<cts>>]]
    BY DEF Query
  <1>3. Len(cts) = SentLength(rows, cols, D)
    BY <1>1, <1>2, RatioPower, QueryLength DEF D
  <1>4. /\ \A s \in Request \ {r} : req'[s] = req[s]
        /\ DOMAIN req'[r] = DOMAIN Idle
    <2>1. PICK q : req' = [req EXCEPT ![r] = q] /\ DOMAIN q = DOMAIN Idle
      <3>1. CASE index >= D * rows * cols
        <4>1. req' = [req EXCEPT ![r] = [Idle EXCEPT !.at = "refused", !.idxs = <<index>>]]
          BY <1>2, <3>1
        <4>2. DOMAIN [Idle EXCEPT !.at = "refused", !.idxs = <<index>>] = DOMAIN Idle
          OBVIOUS
        <4>3. QED BY <4>1, <4>2
      <3>2. CASE ~(index >= D * rows * cols)
        <4>1. req' = [req EXCEPT ![r] = [Idle EXCEPT
                       !.at = "sent", !.op = "query", !.idxs = <<index>>, !.msg = <<cts>>]]
          BY <1>2, <3>2
        <4>2. DOMAIN [Idle EXCEPT !.at = "sent", !.op = "query", !.idxs = <<index>>, !.msg = <<cts>>]
                = DOMAIN Idle
          OBVIOUS
        <4>3. QED BY <4>1, <4>2
      <3>3. QED BY <3>1, <3>2
    <2>2. QED BY <1>1, <2>1
  <1>5. req'[r].at = "sent" => req'[r].op = "query" /\ req'[r].msg = <<cts>>
    BY <1>1, <1>2 DEF Idle
  <1>6. req'[r].at = "sent" => Whole(req[r])'
    <2> SUFFICES ASSUME req'[r].at = "sent" PROVE Whole(req[r])'
      OBVIOUS
    <2>1. req'[r].op = "query" /\ req'[r].msg = <<cts>>
      BY <1>5
    <2>2. <<cts>> \in [1..1 -> {cts}] /\ 1 \in Nat \ {0}
      OBVIOUS
    <2>3. \E n, S : n \in Nat \ {0} /\ req'[r].msg \in [1..n -> S]
      <3>1. 1 \in Nat \ {0} /\ req'[r].msg \in [1..1 -> {cts}]
        BY <2>1, <2>2
      <3>2. QED BY <3>1, Zenon
    <2>4. \A t \in DOMAIN <<cts>> : Len(<<cts>>[t]) = SentLength(rows, cols, D)
      BY <1>3
    <2>5. SentLength(rows, cols, D)' = SentLength(rows, cols, D)
      BY <1>1 DEF SentLength, D
    <2>6. \A t \in DOMAIN req'[r].msg : Len(req'[r].msg[t]) = SentLength(rows, cols, D)'
      BY <2>1, <2>4, <2>5
    <2>7. (DOMAIN Idle)' = DOMAIN Idle
      BY DEF Idle
    <2>8. QED BY <1>1, <1>4, <2>1, <2>3, <2>6, <2>7 DEF Whole
  <1>7. QED BY <1>1, <1>4, <1>6, WholeAfter

LEMMA BatchQuerySent ==
  ASSUME SetupInv, StageInv, SentInv, NEW r \in Request, BatchQuery(r)
  PROVE  SentInv'
  <1>1. /\ rows # 0 /\ DOMAIN req = Request
        /\ IsPowerOfTwo(rows) /\ IsPowerOfTwo(cols)
        /\ rows \in Dims /\ cols \in Dims
        /\ UNCHANGED <<rows, cols>>
    BY DEF BatchQuery, HasClient, SetupInv, StageInv
  <1>2. cols # 0
    BY <1>1, ShlAssumption DEF IsPowerOfTwo
  <1>3. PICK idxs, bad :
          /\ idxs \in Batches(r, D3 * rows * cols)
          /\ req' = [req EXCEPT ![r] =
               IF bad # {} THEN [Idle EXCEPT !.at = "refused", !.idxs = idxs]
               ELSE [Idle EXCEPT !.at = "sent", !.op = "batch", !.idxs = idxs,
                      !.msg = [t \in 1..Len(idxs) |->
                        BuildCompressedQuery(idxs[t], rows, cols, D3, params.base_1, params.base_2)]]]
    BY Zenon DEF BatchQuery
  <1> DEFINE n == Len(idxs)
             cts == [t \in 1..n |->
                      BuildCompressedQuery(idxs[t], rows, cols, D3, params.base_1, params.base_2)]
  <1>4. n \in Nat \ {0}
    <2>1. \A i, j \in Dims \ {0}, s \in Request : \A x \in Batches(s, D3 * i * j) :
            x \in Seq(Nat) /\ x # <<>>
      BY RequestAssumption
    <2>2. rows \in Dims \ {0} /\ cols \in Dims \ {0}
      BY <1>1, <1>2
    <2>3. idxs \in Batches(r, D3 * rows * cols)
      BY <1>3, Zenon
    <2>4. idxs \in Seq(Nat) /\ idxs # <<>>
      BY <2>1, <2>2, <2>3, Zenon
    <2>5. QED BY <2>4, EmptySeq
  <1>5. IsPowerOfTwo(D3)
    BY RatioPower DEF D3
  <1>6. ASSUME NEW t \in 1..n PROVE Len(cts[t]) = SentLength(rows, cols, D3)
    <2>1. cts[t] = BuildCompressedQuery(idxs[t], rows, cols, D3,
                                       params.base_1, params.base_2)
      OBVIOUS
    <2> HIDE DEF cts, n
    <2>2. QED BY <1>1, <1>5, <2>1, QueryLength
  <1>7. cts \in [1..n -> {cts[t] : t \in 1..n}]
    OBVIOUS
  <1>8. req' = [req EXCEPT ![r] =
          IF bad # {} THEN [Idle EXCEPT !.at = "refused", !.idxs = idxs]
          ELSE [Idle EXCEPT !.at = "sent", !.op = "batch", !.idxs = idxs, !.msg = cts]]
    BY <1>3, Zenon
  <1> HIDE DEF cts, n
  <1>9. /\ \A s \in Request \ {r} : req'[s] = req[s]
        /\ DOMAIN req'[r] = DOMAIN Idle
    <2>1. /\ DOMAIN [Idle EXCEPT !.at = "refused", !.idxs = idxs] = DOMAIN Idle
          /\ DOMAIN [Idle EXCEPT !.at = "sent", !.op = "batch", !.idxs = idxs, !.msg = cts]
               = DOMAIN Idle
      OBVIOUS
    <2>2. PICK q : req' = [req EXCEPT ![r] = q] /\ DOMAIN q = DOMAIN Idle
      BY <1>8, <2>1, Zenon
    <2>3. QED BY <1>1, <2>2
  <1>10. req'[r].at = "sent" => req'[r].op = "batch" /\ req'[r].msg = cts
    BY <1>1, <1>8 DEF Idle
  <1>11. req'[r].at = "sent" => Whole(req[r])'
    <2> SUFFICES ASSUME req'[r].at = "sent" PROVE Whole(req[r])'
      OBVIOUS
    <2>1. req'[r].op = "batch" /\ req'[r].msg = cts
      BY <1>10
    <2>2. \E k, S : k \in Nat \ {0} /\ req'[r].msg \in [1..k -> S]
      BY <1>4, <1>7, <2>1
    <2>3. SentLength(rows, cols, D3)' = SentLength(rows, cols, D3)
      BY <1>1 DEF SentLength, D3
    <2>4. DOMAIN cts = 1..n
      BY <1>7
    <2>5. \A t \in DOMAIN req'[r].msg : Len(req'[r].msg[t]) = SentLength(rows, cols, D3)'
      BY <1>6, <2>1, <2>3, <2>4
    <2>6. (DOMAIN Idle)' = DOMAIN Idle
      BY DEF Idle
    <2>7. QED BY <1>1, <1>9, <2>1, <2>2, <2>5, <2>6 DEF Whole
  <1>12. QED BY <1>1, <1>9, <1>11, WholeAfter

LEMMA SentInvNext == SetupInv /\ StageInv /\ SentInv /\ [Next]_vars => SentInv'
  <1> SUFFICES ASSUME SetupInv, StageInv, SentInv, [Next]_vars PROVE SentInv'
    OBVIOUS
  <1>1. CASE ParamsPanic \/ ClientSetup \/ ClientSetupRefused
    <2>1. rows = 0 /\ req' = req
      BY <1>1 DEF ParamsPanic, ClientSetup, ClientSetupRefused, StageInv
    <2>2. \A r \in Request : req'[r].at # "sent" /\ DOMAIN req'[r] = DOMAIN Idle
      BY <2>1 DEF SentInv, Whole
    <2>3. QED BY <2>2 DEF SentInv, Whole, Idle
  <1>2. ASSUME UNCHANGED <<rows, cols, req>> PROVE SentInv'
    BY <1>2 DEF SentInv, Whole, SentLength, Idle
  <1>3. CASE ServerSetup \/ ServerSetupRefused
    BY <1>2, <1>3 DEF ServerSetup, ServerSetupRefused
  <1>4. ASSUME NEW r \in Request, Query(r) PROVE SentInv'
    BY <1>4, QuerySent
  <1>5. ASSUME NEW r \in Request, BatchQuery(r) PROVE SentInv'
    BY <1>5, BatchQuerySent
  <1>6. ASSUME NEW r \in Request,
               Answer(r) \/ Recover(r) \/ RecoverBatch(r) \/ \E T \in BatchSizes : AnswerBatched(r, T)
        PROVE  SentInv'
    <2>1. UNCHANGED <<rows, cols>>
      BY <1>6 DEF Answer, AnswerBatched, Reply, Recover, RecoverBatch
    <2>2. DOMAIN req = Request
      BY DEF StageInv
    <2>0. DOMAIN req[r] = DOMAIN Idle /\ "at" \in DOMAIN Idle
      BY DEF SentInv, Whole, Idle
    <2>3. /\ \A s \in Request \ {r} : req'[s] = req[s]
          /\ DOMAIN req'[r] = DOMAIN Idle
          /\ req'[r].at # "sent"
      <3>1. CASE Answer(r) \/ \E T \in BatchSizes : AnswerBatched(r, T)
        <4>1. PICK result : Reply(r, result)
          BY <3>1 DEF Answer, AnswerBatched
        <4>2. req' = [req EXCEPT ![r].at = IF result.err = "" THEN "answered" ELSE "failed",
                                 ![r].reply = result.ct]
          BY <4>1, Zenon DEF Reply
        <4>3. PICK at, reply : /\ at = IF result.err = "" THEN "answered" ELSE "failed"
                               /\ req' = [req EXCEPT ![r].at = at, ![r].reply = reply]
          BY <4>2, Zenon
        <4>4. at # "sent"
          BY <4>3
        <4>5. QED BY <2>0, <2>2, <4>3, <4>4
      <3>2. CASE Recover(r)
        BY <2>0, <2>2, <3>2 DEF Recover
      <3>3. CASE RecoverBatch(r)
        <4>1. PICK got : req' = [req EXCEPT ![r].at = "done", ![r].got = got]
          BY <3>3 DEF RecoverBatch
        <4>2. QED BY <2>0, <2>2, <4>1
      <3>4. QED BY <1>6, <3>1, <3>2, <3>3
    <2>4. QED BY <2>1, <2>3, WholeAfter
  <1>7. CASE UNCHANGED vars
    BY <1>2, <1>7 DEF vars
  <1>8. QED BY <1>1, <1>3, <1>4, <1>5, <1>6, <1>7 DEF Next

\* What a request waiting at a serving server is made of.
LEMMA Waiting ==
  ASSUME SetupInv, StageInv, SentInv, stage = "serving",
         NEW r \in Request, req[r].at = "sent"
  PROVE  /\ IsPowerOfTwo(rows) /\ IsPowerOfTwo(cols) /\ IsPowerOfTwo(Degree(r))
         /\ DOMAIN db = 0..(rows - 1) /\ nrec \in {N2, N3}
         /\ \E n, S : n \in Nat \ {0} /\ req[r].msg \in [1..n -> S]
         /\ \A t \in DOMAIN req[r].msg :
              Len(req[r].msg[t]) = SentLength(rows, cols, Degree(r))
  <1>1. /\ IsPowerOfTwo(rows) /\ IsPowerOfTwo(cols) /\ nrec \in {N2, N3}
        /\ db = SetupDb(Records(count, nrec), rows, cols, nrec)
    BY DEF SetupInv
  <1>2. DOMAIN db = 0..(rows - 1)
    BY <1>1 DEF SetupDb
  <1>3. IsPowerOfTwo(Degree(r))
    BY RatioPower DEF Degree, D, D3
  <1>4. Whole(req[r])
    BY DEF SentInv
  <1>5. QED BY <1>1, <1>2, <1>3, <1>4 DEF Whole, Degree

\* Server::answer turns down a query of another degree, and nothing else.
LEMMA AnswerFails ==
  ASSUME SetupInv, StageInv, SentInv, NEW r \in Request, Answer(r)
  PROVE  req'[r].at = "failed" <=> Degree(r) # D
  <1>1. stage = "serving" /\ req[r].at = "sent" /\ Len(req[r].msg) = 1
    BY DEF Answer
  <1>2. 1 \in DOMAIN req[r].msg
    <2>1. PICK n, S : n \in Nat \ {0} /\ req[r].msg \in [1..n -> S]
      BY <1>1, Waiting
    <2>2. QED BY <2>1
  <1>3. /\ IsPowerOfTwo(rows) /\ IsPowerOfTwo(cols) /\ IsPowerOfTwo(Degree(r))
        /\ DOMAIN db = 0..(rows - 1)
        /\ Len(req[r].msg[1]) = SentLength(rows, cols, Degree(r))
    BY <1>1, <1>2, Waiting
  <1> DEFINE query == req[r].msg[1]
             prefix == AnswerThroughCrot(query, params, rows, cols, db, N2)
             result == AnswerOneQuery(query, params, rows, cols, db)
  <1>4. prefix.err # "" <=> Len(query) # SentLength(rows, cols, D)
    <2> HIDE DEF query
    <2>1. QED BY <1>3, PrefixFails DEF D
  <1>5. result.err # "" <=> prefix.err # ""
    <2>1. result = IF prefix.err # "" THEN prefix ELSE Ok(RespComp(prefix.ct))
      BY Zenon DEF AnswerOneQuery
    <2> HIDE DEF prefix, result
    <2>2. QED BY <2>1 DEF Ok
  <1>6. Len(query) # SentLength(rows, cols, D) <=> Degree(r) # D
    <2>1. IsPowerOfTwo(D)
      BY RatioPower DEF D
    <2>2. QED BY <1>3, <2>1, LengthTells
  <1>7. req'[r].at = IF result.err = "" THEN "answered" ELSE "failed"
    <2>1. req' = [req EXCEPT ![r].at = IF result.err = "" THEN "answered" ELSE "failed",
                             ![r].reply = result.ct]
      BY Zenon DEF Answer, Reply
    <2> HIDE DEF result
    <2>2. PICK at, reply : /\ at = IF result.err = "" THEN "answered" ELSE "failed"
                           /\ req' = [req EXCEPT ![r].at = at, ![r].reply = reply]
      BY <2>1, Zenon
    <2>3. DOMAIN req = Request
      BY DEF StageInv
    <2>4. req'[r].at = at
      <3>1. "at" \in DOMAIN req[r]
        BY DEF SentInv, Whole, Idle
      <3>2. QED BY <2>2, <2>3, <3>1
    <2>5. QED BY <2>2, <2>4, Zenon
  <1> HIDE DEF result, prefix, query
  <1>8. QED BY <1>4, <1>5, <1>6, <1>7

\* answer_batch turns down a batch of another size or degree, and nothing else.
LEMMA BatchFails ==
  ASSUME SetupInv, StageInv, SentInv, NEW r \in Request, NEW T \in BatchSizes, AnswerBatched(r, T)
  PROVE  req'[r].at = "failed" <=> Len(req[r].msg) # T \/ Degree(r) # N1 \div nrec
  <1>1. stage = "serving" /\ req[r].at = "sent"
    BY DEF AnswerBatched
  <1>2. /\ IsPowerOfTwo(rows) /\ IsPowerOfTwo(cols) /\ IsPowerOfTwo(Degree(r))
        /\ DOMAIN db = 0..(rows - 1) /\ nrec \in {N2, N3}
        /\ \A t \in DOMAIN req[r].msg : Len(req[r].msg[t]) = SentLength(rows, cols, Degree(r))
    BY <1>1, Waiting
  <1>3. PICK n, S : n \in Nat \ {0} /\ req[r].msg \in [1..n -> S]
    BY <1>1, Waiting
  <1> DEFINE queries == req[r].msg
             prefix == [t \in DOMAIN queries |->
                         AnswerThroughCrot(queries[t], params, rows, cols, db, nrec)]
             failed == {t \in DOMAIN queries : prefix[t].err # ""}
             first == CHOOSE t \in failed : \A u \in failed : t <= u
             result == AnswerBatch(queries, T, params, rows, cols, db, nrec)
  <1>4. DOMAIN queries = 1..n
    BY <1>3
  <1>5. ASSUME NEW t \in DOMAIN queries
        PROVE  t \in failed <=> Degree(r) # N1 \div nrec
    <2>1. prefix[t].err # "" <=> Len(queries[t]) # SentLength(rows, cols, N1 \div nrec)
      <3>1. prefix[t] = AnswerThroughCrot(queries[t], params, rows, cols, db, nrec)
        OBVIOUS
      <3> HIDE DEF prefix, queries
      <3>2. /\ nrec \in {N2, N3} /\ IsPowerOfTwo(rows) /\ IsPowerOfTwo(cols)
            /\ DOMAIN db = 0..(rows - 1)
        BY <1>2
      <3>3. AnswerThroughCrot(queries[t], params, rows, cols, db, nrec).err # ""
              <=> Len(queries[t]) # SentLength(rows, cols, N1 \div nrec)
        BY <3>2, PrefixFails
      <3>4. QED BY <3>1, <3>3
    <2>2. IsPowerOfTwo(N1 \div nrec)
      BY <1>2, RatioPower
    <2>3. Len(queries[t]) # SentLength(rows, cols, N1 \div nrec) <=> Degree(r) # N1 \div nrec
      BY <1>2, <2>2, LengthTells
    <2> HIDE DEF prefix, queries
    <2>4. QED BY <2>1, <2>3
  <1>6. failed # {} <=> Degree(r) # N1 \div nrec
    <2>1. 1 \in DOMAIN queries
      BY <1>3, <1>4
    <2> HIDE DEF queries, prefix
    <2>2. failed \subseteq DOMAIN queries
      OBVIOUS
    <2> HIDE DEF failed
    <2>3. QED BY <1>5, <2>1, <2>2
  <1>7. failed # {} => prefix[first].err # ""
    <2> HIDE DEF queries, prefix
    <2>1. failed \subseteq DOMAIN queries
      OBVIOUS
    <2>2. failed # {} => first \in failed
      <3> HIDE DEF failed
      <3>1. failed \subseteq Nat
        BY <1>3, <1>4, <2>1
      <3>2. failed # {} => \E t \in failed : \A u \in failed : t <= u
        BY <3>1, LeastElement
      <3>3. QED BY <3>2
    <2> HIDE DEF first
    <2>3. QED BY <2>2
  <1>8. result = IF Len(queries) # T THEN Err("DimMismatch")
                 ELSE IF failed # {} THEN prefix[first]
                 ELSE Ok(RespComp(Repack([t \in DOMAIN queries |-> prefix[t].ct], T)))
    BY Zenon DEF AnswerBatch
  <1>9. req'[r].at = IF result.err = "" THEN "answered" ELSE "failed"
    <2>1. req' = [req EXCEPT ![r].at = IF result.err = "" THEN "answered" ELSE "failed",
                             ![r].reply = result.ct]
      BY Zenon DEF AnswerBatched, Reply
    <2> HIDE DEF result
    <2>2. PICK at, reply : /\ at = IF result.err = "" THEN "answered" ELSE "failed"
                           /\ req' = [req EXCEPT ![r].at = at, ![r].reply = reply]
      BY <2>1, Zenon
    <2>3. DOMAIN req = Request
      BY DEF StageInv
    <2>4. req'[r].at = at
      <3>1. "at" \in DOMAIN req[r]
        BY DEF SentInv, Whole, Idle
      <3>2. QED BY <2>2, <2>3, <3>1
    <2>5. QED BY <2>2, <2>4, Zenon
  <1> HIDE DEF queries, prefix, failed, first, result
  <1>10. result.err # "" <=> Len(queries) # T \/ failed # {}
    BY <1>7, <1>8 DEF Err, Ok
  <1>11. QED BY <1>6, <1>9, <1>10 DEF queries

\* For every tower of degrees and shape, a server turns down exactly the
\* messages that were built for another handler: FailsOnlyOnMismatch holds of
\* every step.
THEOREM RefusedOnlyOnMismatch == Spec => FailsOnlyOnMismatch
  <1> DEFINE Inv == SetupInv /\ StageInv /\ SentInv
             Refused == \A r \in Request :
               /\ Answer(r) => (req'[r].at = "failed" <=> Degree(r) # D)
               /\ \A T \in BatchSizes : AnswerBatched(r, T) =>
                    (req'[r].at = "failed" <=> Len(req[r].msg) # T \/ Degree(r) # N1 \div nrec)
  <1>1. Init => Inv
    BY SetupInvInit, StageInvInit, SentInvInit
  <1>2. Inv /\ [Next]_vars => Inv'
    BY SetupInvNext, StageInvNext, SentInvNext
  <1>3. Inv => Refused
    BY AnswerFails, BatchFails
  <1>4. Inv => [Refused]_vars
    BY <1>3
  <1> HIDE DEF Inv
  <1>5. Spec => [][Refused]_vars
    BY <1>1, <1>2, <1>4, PTL DEF Spec
  <1>6. QED BY <1>5 DEF FailsOnlyOnMismatch

\* setup_db makes polynomials of the records.
LEMMA SetupDbTyped ==
  ASSUME NEW i \in Nat \ {0}, NEW j \in Nat \ {0}, NEW n \in {N2, N3}, NEW num \in Nat,
         \A y \in 0..(num - 1) : Payload(y, n) \in Poly(n)
  PROVE  SetupDb(Records(num, n), i, j, n) \in Cells(i, j)
  <1> DEFINE d == N1 \div n
             records == Records(num, n)
             Rec(x) == IF x < Len(records) THEN records[x + 1] ELSE Zero(n)
             place(a, b, x) == (x % d) * (i * j) + a * j + b
             Entry(a, b, x) == Rec(place(a, b, x))[x \div d]
  <1>1. n \in Nat \ {0} /\ d \in Nat \ {0} /\ N1 = d * n
    BY DegreeSplits
  <1>2. \A x \in Nat : Rec(x) \in Poly(n)
    <2> SUFFICES ASSUME NEW x \in Nat PROVE Rec(x) \in Poly(n)
      OBVIOUS
    <2>1. Len(records) = num /\ \A y \in 1..num : records[y] = Payload(y - 1, n)
      BY DEF Records
    <2> HIDE DEF records
    <2>2. CASE x < num
      <3>1. x + 1 \in 1..num /\ (x + 1) - 1 = x /\ x \in 0..(num - 1)
        BY <2>2
      <3>2. QED BY <2>1, <2>2, <3>1
    <2>3. CASE ~(x < num)
      <3>1. Zero(n) \in Poly(n)
        BY ModulusAssumption DEF Zero, Poly, Coeff
      <3>2. QED BY <2>1, <2>3, <3>1
    <2>4. QED BY <2>2, <2>3
  <1>3. ASSUME NEW a \in 0..(i - 1), NEW b \in 0..(j - 1), NEW x \in 0..(N1 - 1)
        PROVE  Entry(a, b, x) \in Coeff
    <2>1. x \in Nat /\ x < d * n
      <3>1. N1 \in Nat
        BY Tower
      <3> HIDE DEF d
      <3>2. QED BY <1>1, <3>1
    <2> DEFINE q == x \div d
               t == x % d
    <2>2. q \in Nat /\ t \in 0..(d - 1) /\ x = d * q + t
      <3> HIDE DEF d
      <3>1. QED BY <1>1, <2>1, DivMod
    <2>3. place(a, b, x) = t * (i * j) + a * j + b
      BY Zenon
    <2>4. place(a, b, x) \in Nat
      <3> HIDE DEF place, t, d
      <3>1. t \in Nat /\ a \in Nat /\ b \in Nat
        BY <1>1, <2>2
      <3>2. \A e, f, g, h, k \in Nat : e * (f * g) + h * g + k \in Nat
        BY Z3
      <3>3. QED BY <2>3, <3>1, <3>2
    <2>5. q < n
      <3> HIDE DEF q, t, d
      <3> SUFFICES ASSUME n <= q PROVE FALSE
        BY <1>1, <2>2
      <3>1. \A e, f, g \in Nat : e <= f => g * e <= g * f /\ g * f \in Nat /\ g * e \in Nat
        BY Z3
      <3>2. d * n <= d * q /\ d * q \in Nat /\ d * n \in Nat
        BY <1>1, <2>2, <3>1
      <3>3. QED BY <1>1, <2>1, <2>2, <3>2
    <2>6. q \in 0..(n - 1)
      BY <1>1, <2>2, <2>5
    <2>7. Entry(a, b, x) = Rec(place(a, b, x))[q]
      BY Zenon
    <2> HIDE DEF q, place, Rec, Entry
    <2>8. QED BY <1>2, <2>4, <2>6, <2>7 DEF Poly
  <1>4. SetupDb(records, i, j, n)
          = [a \in 0..(i - 1) |-> [b \in 0..(j - 1) |-> [x \in 0..(N1 - 1) |-> Entry(a, b, x)]]]
    BY Zenon DEF SetupDb
  <1> HIDE DEF Entry, records
  <1>5. \A a \in 0..(i - 1), b \in 0..(j - 1) : [x \in 0..(N1 - 1) |-> Entry(a, b, x)] \in Poly(N1)
    BY <1>3 DEF Poly
  <1>6. SetupDb(records, i, j, n) \in Cells(i, j)
    BY <1>4, <1>5 DEF Cells
  <1>7. QED BY <1>6 DEF records

\* k slots further on in a cell is k * I * J further on in the database.
LiesOn(index, i, j, k) ==
  LET at == DecomposeIndex(index, i, j)
      on == DecomposeIndex(index + k * (i * j), i, j)
  IN  on.alpha = at.alpha /\ on.beta = at.beta /\ on.gamma = at.gamma + k

LEMMA DecomposeFurther ==
  ASSUME NEW i \in Nat \ {0}, NEW j \in Nat \ {0}, NEW index \in Nat, NEW k \in Nat
  PROVE  LiesOn(index, i, j, k)
  <1> DEFINE g == i * j
             x == index + k * g
  <1>1. g \in Nat \ {0}
    BY Z3
  <1>2. k * g \in Nat
    <2> HIDE DEF g
    <2>1. QED BY <1>1, Z3
  <1>3. x \in Nat
    BY <1>2
  <1>4. x \div g = (index \div g) + k /\ x % g = index % g
    <2> DEFINE q == index \div g
               t == index % g
    <2>1. q \in Nat /\ t \in 0..(g - 1) /\ index = g * q + t
      <3> HIDE DEF g
      <3>1. QED BY <1>1, DivMod
    <2> HIDE DEF g, q, t
    <2>2. \A a, b, c \in Nat : a * (b + c) = a * b + c * a /\ a * b \in Nat /\ c * a \in Nat
      BY Z3
    <2>3. g * (q + k) = g * q + k * g /\ g * q \in Nat /\ k * g \in Nat
      BY <1>1, <2>1, <2>2
    <2>4. x = g * (q + k) + t
      BY <1>1, <2>1, <2>3
    <2>5. q + k \in Nat
      BY <2>1
    <2> HIDE DEF x
    <2>6. x \div g = q + k /\ x % g = t
      BY <1>1, <1>3, <2>1, <2>4, <2>5, DivModUnique
    <2>7. QED BY <2>6 DEF q, t
  <1>5. x % j = index % j
    <2> DEFINE q == index \div j
               t == index % j
               u == k * i
    <2>1. q \in Nat /\ t \in 0..(j - 1) /\ index = j * q + t
      BY DivMod
    <2>2. u \in Nat /\ k * g = u * j
      <3>1. \A a, b, c \in Nat : a * (b * c) = (a * b) * c /\ a * b \in Nat
        BY Z3
      <3>2. QED BY <3>1
    <2> HIDE DEF q, t, u, g
    <2>3. \A a, b, c \in Nat : a * (b + c) = a * b + c * a /\ a * b \in Nat /\ c * a \in Nat
      BY Z3
    <2>4. j * (q + u) = j * q + u * j /\ j * q \in Nat /\ u * j \in Nat
      BY <2>1, <2>2, <2>3
    <2>5. x = j * (q + u) + t
      BY <2>1, <2>2, <2>4
    <2>6. q + u \in Nat
      BY <2>1, <2>2
    <2> HIDE DEF x
    <2>7. x % j = t
      BY <1>3, <2>1, <2>5, <2>6, DivModUnique
    <2>8. QED BY <2>7 DEF t
  <1> HIDE DEF g, x
  <1>6. /\ DecomposeIndex(x, i, j).alpha = DecomposeIndex(index, i, j).alpha
        /\ DecomposeIndex(x, i, j).beta = DecomposeIndex(index, i, j).beta
        /\ DecomposeIndex(x, i, j).gamma = DecomposeIndex(index, i, j).gamma + k
    BY <1>4, <1>5 DEF DecomposeIndex, g
  <1>7. QED BY <1>6 DEF x, g, LiesOn

-----------------------------------------------------------------------------
\* What the server was set up with, record by record.
LEMMA CellHolds ==
  ASSUME SetupInv, stage = "serving", NEW index \in Nat, NEW k \in Nat,
         index + k * (rows * cols) \in 0..(Capacity(nrec) - 1)
  PROVE  RecordAt(db, index, rows, cols, nrec, k) = Installed[index + k * (rows * cols)]
  <1> DEFINE x == index + k * (rows * cols)
             at == DecomposeIndex(index, rows, cols)
             on == DecomposeIndex(x, rows, cols)
  <1>1. rows \in Nat \ {0} /\ cols \in Nat \ {0}
    BY ShlAssumption DEF SetupInv, IsPowerOfTwo
  <1>2. RecordsStored
    BY SetupInvStored
  <1>3. ProjectAt(db[on.alpha][on.beta], N1, nrec, on.gamma)
          = IF x < count THEN Payload(x, nrec) ELSE Zero(nrec)
    <2>1. x \in 0..(Capacity(nrec) - 1)
      OBVIOUS
    <2> HIDE DEF x
    <2>2. QED BY <1>2, <2>1 DEF RecordsStored
  <1>4. on.alpha = at.alpha /\ on.beta = at.beta /\ on.gamma = at.gamma + k
    <2>1. LiesOn(index, rows, cols, k)
      BY <1>1, DecomposeFurther
    <2>2. QED BY <2>1, Zenon DEF LiesOn
  <1>5. RecordAt(db, index, rows, cols, nrec, k) = ProjectAt(db[on.alpha][on.beta], N1, nrec, on.gamma)
    <2> HIDE DEF on
    <2>1. QED BY <1>4 DEF RecordAt
  <1>6. Installed[x] = IF x < count THEN Payload(x, nrec) ELSE Zero(nrec)
    BY DEF Installed
  <1> HIDE DEF on, x
  <1>7. RecordAt(db, index, rows, cols, nrec, k) = Installed[x]
    BY <1>3, <1>5, <1>6
  <1>8. QED BY <1>7 DEF x

-----------------------------------------------------------------------------
(***************************************************************************)
(* The records.  A message holds the queries of its indices, an answer the *)
(* records at them; the state of the server is given as arguments, since   *)
(* no request sees it change.                                              *)
(***************************************************************************)

DegreeOf(q) == IF q.op = "query" THEN D ELSE D3

\* What waits for an answer: queries for the indices asked for.
Queries(q, i, j, p) ==
  /\ q.op \in {"query", "batch"}
  /\ q.idxs \in Seq(Nat) /\ q.idxs # <<>>
  /\ q.op = "query" => Len(q.idxs) = 1
  /\ \E S : q.msg \in [1..Len(q.idxs) -> S]
  /\ \A t \in 1..Len(q.idxs) :
       /\ q.idxs[t] < DegreeOf(q) * (i * j)
       /\ Honest(q.msg[t], q.idxs[t], i, j, DegreeOf(q), p)

\* The indices an answer stands for, and the records cut out of it.
AskedBy(q, i, j, n) ==
  IF q.op = "batch" THEN q.idxs
  ELSE [s \in 1..(N2 \div n) |-> q.idxs[1] + (s - 1) * D * i * j]

HeldBy(q, n) ==
  IF q.op = "batch" THEN DeinterleaveBatch(q.reply, Len(q.idxs))
  ELSE [s \in 1..(N2 \div n) |-> ProjectAt(q.reply, N2, n, s - 1)]

\* An answer: the records of the database at the indices.
Serves(q, i, j, n, records) ==
  /\ q.op \in {"query", "batch"}
  /\ q.reply \in Poly(N2)
  /\ AskedBy(q, i, j, n) \in Seq(DOMAIN records) \ {<<>>}
  /\ HeldBy(q, n) = [t \in DOMAIN AskedBy(q, i, j, n) |-> records[AskedBy(q, i, j, n)[t]]]

\* What the caller is handed.
Handed(q) ==
  q.got = IF q.op = "batch" THEN DeinterleaveBatch(q.reply, Len(q.idxs)) ELSE <<q.reply>>

Right(q, i, j, p, n, records, serving) ==
  /\ q.at = "sent" => Queries(q, i, j, p)
  /\ q.at \in {"answered", "done"} => serving /\ Serves(q, i, j, n, records)
  /\ q.at = "done" => Handed(q)

\* The inductive invariant.
PirInv == \A r \in Request : Right(req[r], rows, cols, params, nrec, Installed, stage = "serving")

\* The slots of an answer are within the database.
LEMMA SlotIndex ==
  ASSUME SetupInv, stage = "serving", NEW index \in Nat, index < D * (rows * cols),
         NEW s \in 1..(N2 \div nrec)
  PROVE  /\ index + (s - 1) * D * rows * cols = index + ((s - 1) * D) * (rows * cols)
         /\ (s - 1) * D \in Nat
         /\ index + ((s - 1) * D) * (rows * cols) \in 0..(Capacity(nrec) - 1)
  <1> DEFINE v == N2 \div nrec
             g == rows * cols
             k == s - 1
  <1>1. rows \in Nat \ {0} /\ cols \in Nat \ {0} /\ nrec \in {N2, N3}
    BY ShlAssumption DEF SetupInv, IsPowerOfTwo
  <1>2. D \in Nat \ {0} /\ v \in Nat \ {0} /\ N1 \div nrec = D * v
    BY <1>1, Tower
  <1>3. g \in Nat \ {0}
    BY <1>1, Z3
  <1>4. k \in Nat /\ k + 1 <= v
    BY <1>2
  <1>5. (s - 1) * D * rows * cols = (k * D) * g /\ k * D \in Nat
    <2>1. \A a, b, c, d \in Nat : a * b * c * d = (a * b) * (c * d) /\ a * b \in Nat
      BY Z3
    <2>2. QED BY <1>1, <1>2, <1>4, <2>1
  <1>6. Capacity(nrec) = g * (D * v)
    BY <1>2 DEF Capacity
  <1> HIDE DEF g, k, v
  <1>7. (k * D) * g + D * g <= g * (D * v) /\ (k * D) * g \in Nat /\ D * g \in Nat /\ g * (D * v) \in Nat
    <2> DEFINE e == D * g
    <2>1. e \in Nat /\ (k * D) * g = k * e /\ g * (D * v) = v * e
      <3>1. \A a, b, c \in Nat : (a * b) * c = a * (b * c) /\ b * c \in Nat /\ c * (b * a) = a * (b * c)
        BY Z3
      <3>2. QED BY <1>2, <1>3, <1>4, <3>1
    <2> HIDE DEF e
    <2>2. k * e + e <= v * e /\ k * e \in Nat /\ v * e \in Nat
      <3>1. \A a, b, c \in Nat : a + 1 <= b => a * c + c <= b * c /\ a * c \in Nat /\ b * c \in Nat
        BY Z3
      <3>2. QED BY <1>2, <1>4, <2>1, <3>1
    <2>3. QED BY <2>1, <2>2 DEF e
  <1>8. index + (k * D) * g \in 0..(g * (D * v) - 1)
    <2> DEFINE a == (k * D) * g
               b == D * g
               c == g * (D * v)
    <2>1. a \in Nat /\ b \in Nat /\ c \in Nat /\ a + b <= c /\ index < b
      BY <1>7 DEF g
    <2> HIDE DEF a, b, c
    <2>2. index + a \in 0..(c - 1)
      BY <2>1
    <2>3. QED BY <2>2 DEF a, c
  <1>9. QED BY <1>5, <1>6, <1>8 DEF k, g

\* The server's database, as the answers need it.
LEMMA DatabaseReady ==
  ASSUME SetupInv, stage = "serving"
  PROVE  /\ IsPowerOfTwo(rows) /\ IsPowerOfTwo(cols) /\ nrec \in {N2, N3}
         /\ db \in Cells(rows, cols)
         /\ DOMAIN Installed = 0..(Capacity(nrec) - 1)
  <1>1. /\ rows \in Dims /\ cols \in Dims /\ IsPowerOfTwo(rows) /\ IsPowerOfTwo(cols)
        /\ nrec \in {N2, N3}
        /\ count \in 0..Capacity(nrec)
        /\ db = SetupDb(Records(count, nrec), rows, cols, nrec)
    BY DEF SetupInv
  <1>2. rows \in Nat \ {0} /\ cols \in Nat \ {0}
    BY <1>1, ShlAssumption DEF IsPowerOfTwo
  <1>3. Capacity(nrec) \in Nat /\ count \in Nat /\ count <= Capacity(nrec)
    BY <1>1, CapacityNat DEF Capacity
  <1>4. \A y \in 0..(count - 1) : Payload(y, nrec) \in Poly(nrec)
    <2>1. \A y \in 0..(Capacity(nrec) - 1) : Payload(y, nrec) \in Poly(nrec)
      BY <1>1, RequestAssumption DEF Capacity
    <2>2. QED BY <1>3, <2>1
  <1>5. db \in Cells(rows, cols)
    BY <1>1, <1>2, <1>3, <1>4, SetupDbTyped
  <1>6. DOMAIN Installed = 0..(Capacity(nrec) - 1)
    BY DEF Installed
  <1>7. QED BY <1>1, <1>5, <1>6

\* A handler's result changes the request it is for in two fields.
LEMMA Replied ==
  ASSUME StageInv, SentInv, NEW r \in Request, NEW result, Reply(r, result)
  PROVE  /\ req'[r].at = IF result.err = "" THEN "answered" ELSE "failed"
         /\ req'[r].reply = result.ct
         /\ req'[r].op = req[r].op /\ req'[r].idxs = req[r].idxs
         /\ \A s \in Request \ {r} : req'[s] = req[s]
         /\ DOMAIN req' = Request
         /\ UNCHANGED <<stage, params, rows, cols, nrec, db, count, Installed>>
  <1>1. DOMAIN req = Request /\ DOMAIN req[r] = DOMAIN Idle
    BY DEF StageInv, SentInv, Whole
  <1>2. "at" \in DOMAIN Idle /\ "reply" \in DOMAIN Idle
    BY DEF Idle
  <1>3. PICK at, reply :
          /\ at = IF result.err = "" THEN "answered" ELSE "failed"
          /\ reply = result.ct
          /\ req' = [req EXCEPT ![r].at = at, ![r].reply = reply]
    BY Zenon DEF Reply
  <1>4. /\ req'[r].at = at /\ req'[r].reply = reply
        /\ req'[r].op = req[r].op /\ req'[r].idxs = req[r].idxs
        /\ \A s \in Request \ {r} : req'[s] = req[s]
        /\ DOMAIN req' = Request
    <2>1. req' = [req EXCEPT ![r].at = at, ![r].reply = reply]
      BY <1>3, Zenon
    <2>2. req'[r] = [req[r] EXCEPT !.at = at, !.reply = reply]
      BY <1>1, <2>1
    <2>3. (\A s \in Request \ {r} : req'[s] = req[s]) /\ DOMAIN req' = Request
      BY <1>1, <2>1
    <2>4. req'[r].at = at /\ req'[r].reply = reply
      BY <1>1, <1>2, <2>2
    <2>5. req'[r].op = req[r].op /\ req'[r].idxs = req[r].idxs
      BY <2>2
    <2>6. QED BY <2>3, <2>4, <2>5
  <1>5. UNCHANGED <<stage, params, rows, cols, nrec, db, count>>
    BY DEF Reply
  <1>6. UNCHANGED Installed
    BY <1>5 DEF Installed, Capacity
  <1>7. QED BY <1>3, <1>4, <1>5, <1>6, Zenon

LEMMA TimesCancels == \A a, b, c \in Nat : a # 0 /\ a * b = a * c => b = c
  BY Z3

\* A sequence is one of the set its elements are in.
LEMMA SeqOfAll ==
  ASSUME NEW A, NEW B, NEW s \in Seq(A), \A t \in 1..Len(s) : s[t] \in B
  PROVE  s \in Seq(B)
  OBVIOUS

\* Server::answer serves a message of one query for D.
LEMMA AnswerServes ==
  ASSUME SetupInv, StageInv, SentInv, PirInv, NEW r \in Request, Answer(r),
         req'[r].at = "answered"
  PROVE  Serves(req'[r], rows, cols, nrec, Installed)
  <1> DEFINE q == req[r]
             index == q.idxs[1]
             query == q.msg[1]
  <1>1. stage = "serving" /\ q.at = "sent" /\ Len(q.msg) = 1
    BY DEF Answer
  <1>2. Queries(q, rows, cols, params)
    BY <1>1 DEF PirInv, Right
  <1>3. Degree(r) = D
    BY AnswerFails
  <1>4. DegreeOf(q) = D /\ (q.op = "batch" => D3 = D)
    BY <1>2, <1>3 DEF Degree, DegreeOf, Queries
  <1>5. PICK S : q.msg \in [1..Len(q.idxs) -> S]
    BY <1>2 DEF Queries
  <1>6. q.idxs \in Seq(Nat) /\ Len(q.idxs) = 1
    <2>1. q.idxs \in Seq(Nat)
      BY <1>2 DEF Queries
    <2> HIDE DEF q
    <2>2. Len(q.idxs) \in Nat
      BY <2>1
    <2>3. Len(q.msg) = Len(q.idxs)
      BY <1>5, <2>2
    <2>4. QED BY <1>1, <2>1, <2>3
  <1>7. index \in Nat /\ index < D * (rows * cols) /\ Honest(query, index, rows, cols, D, params)
    <2>1. 1 \in 1..Len(q.idxs)
      BY <1>6
    <2>2. index < DegreeOf(q) * (rows * cols) /\ Honest(query, index, rows, cols, DegreeOf(q), params)
      BY <1>2, <2>1 DEF Queries
    <2>3. index \in Nat
      BY <1>6, <2>1
    <2>4. QED BY <1>4, <2>2, <2>3
  <1>8. /\ IsPowerOfTwo(rows) /\ IsPowerOfTwo(cols) /\ nrec \in {N2, N3}
        /\ db \in Cells(rows, cols)
        /\ DOMAIN Installed = 0..(Capacity(nrec) - 1)
    BY <1>1, DatabaseReady
  <1>9. PICK reply \in Poly(N2) :
          /\ AnswerOneQuery(query, params, rows, cols, db) = Ok(reply)
          /\ \A s \in 1..(N2 \div nrec) :
               ProjectAt(reply, N2, nrec, s - 1) = RecordAt(db, index, rows, cols, nrec, (s - 1) * D)
    <2> HIDE DEF q, index, query
    <2>1. QED BY <1>7, <1>8, QueryAnswered
  <1>10. /\ req'[r].reply = reply
         /\ req'[r].op = q.op /\ req'[r].idxs = q.idxs
    <2>1. Reply(r, AnswerOneQuery(query, params, rows, cols, db))
      BY DEF Answer
    <2>2. Ok(reply).ct = reply
      BY DEF Ok
    <2> HIDE DEF query
    <2>3. Reply(r, Ok(reply))
      BY <1>9, <2>1
    <2>4. QED BY <2>2, <2>3, Replied
  <1> DEFINE v == N2 \div nrec
             x(s) == index + (s - 1) * D * rows * cols
  <1>11. v \in Nat \ {0}
    BY <1>8, Tower
  <1> HIDE DEF q, index, query, v
  <1>12. ASSUME NEW s \in 1..v
         PROVE  /\ x(s) \in DOMAIN Installed
                /\ ProjectAt(reply, N2, nrec, s - 1) = Installed[x(s)]
    <2> DEFINE y == index + ((s - 1) * D) * (rows * cols)
               k == (s - 1) * D
    <2>1. x(s) = y /\ k \in Nat /\ y \in 0..(Capacity(nrec) - 1)
      BY <1>1, <1>7, SlotIndex DEF v
    <2>2. RecordAt(db, index, rows, cols, nrec, k) = Installed[index + k * (rows * cols)]
      <3>1. index + k * (rows * cols) \in 0..(Capacity(nrec) - 1)
        BY <2>1
      <3> HIDE DEF k
      <3>2. QED BY <1>1, <1>7, <2>1, <3>1, CellHolds
    <2>3. ProjectAt(reply, N2, nrec, s - 1) = RecordAt(db, index, rows, cols, nrec, k)
      BY <1>9 DEF v
    <2> HIDE DEF x
    <2>4. QED BY <1>8, <2>1, <2>2, <2>3
  <1> DEFINE new == req'[r]
  <1>13. new.op = q.op /\ new.reply = reply /\ new.idxs = q.idxs /\ q.op \in {"query", "batch"}
    BY <1>2, <1>10 DEF Queries, q
  <1> HIDE DEF new
  <1>14. CASE q.op = "query"
    <2>1. /\ AskedBy(new, rows, cols, nrec) = [s \in 1..v |-> x(s)]
          /\ HeldBy(new, nrec) = [s \in 1..v |-> ProjectAt(reply, N2, nrec, s - 1)]
      BY <1>13, <1>14 DEF AskedBy, HeldBy, v, index
    <2> HIDE DEF x
    <2> DEFINE asked == AskedBy(new, rows, cols, nrec)
    <2>2. asked \in Seq(DOMAIN Installed) \ {<<>>}
      <3>1. [s \in 1..v |-> x(s)] \in [1..v -> DOMAIN Installed]
        BY <1>12
      <3>2. asked \in [1..v -> DOMAIN Installed]
        BY <2>1, <3>1
      <3> HIDE DEF asked
      <3>3. asked \in Seq(DOMAIN Installed) /\ Len(asked) = v
        BY <1>11, <3>2
      <3>4. asked # <<>>
        BY <1>11, <3>3
      <3>5. QED BY <3>3, <3>4
    <2>3. HeldBy(new, nrec) = [t \in DOMAIN asked |-> Installed[asked[t]]]
      BY <1>12, <2>1
    <2>4. QED BY <1>13, <2>2, <2>3 DEF Serves, new
  <1>15. CASE q.op = "batch"
    <2>1. D3 = D /\ N3 = N2 /\ nrec = N2 /\ v = 1
      <3>1. D3 = D
        BY <1>4, <1>15
      <3>2. /\ N1 = D * N2 /\ D \in Nat \ {0} /\ N2 \in Nat \ {0}
        BY Tower
      <3>3. N1 = D3 * N3 /\ N3 \in Nat \ {0}
        <4>1. N3 \in {N2, N3}
          OBVIOUS
        <4>2. N1 = (N1 \div N3) * N3 /\ N3 \in Nat \ {0}
          BY <4>1, DegreeSplits
        <4>3. D3 = N1 \div N3
          BY DEF D3
        <4>4. QED BY <4>2, <4>3
      <3>4. \A a, b, c \in Nat : a # 0 /\ a * b = a * c => b = c
        BY TimesCancels
      <3>5. D * N2 = D * N3
        BY <3>1, <3>2, <3>3
      <3>6. N3 = N2
        BY <3>2, <3>3, <3>4, <3>5
      <3>7. nrec = N2
        BY <1>8, <3>6
      <3>8. N2 \div N2 = 1
        BY <3>2, DivExact
      <3>9. QED BY <3>1, <3>6, <3>7, <3>8 DEF v
    <2>2. x(1) = index
      <3>1. rows \in Nat /\ cols \in Nat /\ D \in Nat
        <4>1. rows \in Nat /\ cols \in Nat
          BY <1>8, ShlAssumption DEF IsPowerOfTwo
        <4>2. QED BY <1>8, <4>1, Tower
      <3>2. (1 - 1) * D * rows * cols = 0
        BY <3>1
      <3>3. QED BY <1>7, <3>2
    <2> HIDE DEF x
    <2>3. /\ index \in DOMAIN Installed
          /\ ProjectAt(reply, N2, nrec, 0) = Installed[index]
      <3>1. 1 \in 1..v /\ 1 - 1 = 0
        BY <2>1
      <3>2. QED BY <1>12, <2>2, <3>1
    <2>4. AskedBy(new, rows, cols, nrec) = q.idxs
      BY <1>13, <1>15 DEF AskedBy
    <2>5. HeldBy(new, nrec) = [t \in 1..1 |-> ProjectAt(reply, N2, N3, t - 1)]
      BY <1>6, <1>13, <1>15 DEF HeldBy, DeinterleaveBatch, q
    <2>6. /\ q.idxs \in Seq(DOMAIN Installed) \ {<<>>}
          /\ HeldBy(new, nrec) = [t \in DOMAIN q.idxs |-> Installed[q.idxs[t]]]
      <3> DEFINE idxs == q.idxs
      <3>1. idxs \in Seq(Nat) /\ Len(idxs) = 1 /\ idxs[1] = index
        BY <1>6 DEF q, index
      <3> HIDE DEF idxs
      <3>2. DOMAIN idxs = 1..1 /\ \A t \in 1..1 : t = 1
        BY <3>1
      <3>3. \A t \in 1..1 : idxs[t] \in DOMAIN Installed
        BY <2>3, <3>1, <3>2
      <3>4. idxs \in Seq(DOMAIN Installed) /\ idxs # <<>>
        <4>0. 1..Len(idxs) = 1..1
          BY <3>1
        <4>1. \A t \in 1..Len(idxs) : idxs[t] \in DOMAIN Installed
          BY <3>3, <4>0, Zenon
        <4>2. idxs \in Seq(DOMAIN Installed)
          BY <3>1, <4>1, SeqOfAll, Zenon
        <4>3. idxs # <<>>
          <5>1. Len(<<>>) = 0
            OBVIOUS
          <5>2. Len(idxs) # Len(<<>>)
            BY <3>1, <5>1
          <5>3. QED BY <5>2, Zenon
        <4>4. QED BY <4>2, <4>3
      <3>5. \A t \in 1..1 : ProjectAt(reply, N2, N3, t - 1) = Installed[idxs[t]]
        <4>1. 1 - 1 = 0
          OBVIOUS
        <4>2. QED BY <2>1, <2>3, <3>1, <3>2, <4>1
      <3>6. HeldBy(new, nrec) = [t \in DOMAIN idxs |-> Installed[idxs[t]]]
        BY <2>5, <3>2, <3>5
      <3>7. QED BY <3>4, <3>6 DEF idxs
    <2>7. QED BY <1>13, <2>4, <2>6 DEF Serves, new
  <1>16. QED BY <1>13, <1>14, <1>15

\* Server::answer_batch serves a message of T queries for its degree.
LEMMA BatchServes ==
  ASSUME SetupInv, StageInv, SentInv, PirInv, NEW r \in Request, NEW T \in BatchSizes,
         AnswerBatched(r, T), req'[r].at = "answered"
  PROVE  Serves(req'[r], rows, cols, nrec, Installed)
  <1> DEFINE q == req[r]
             idxs == q.idxs
             queries == q.msg
  <1>1. stage = "serving" /\ q.at = "sent" /\ T * nrec <= N2
    BY DEF AnswerBatched
  <1>2. Queries(q, rows, cols, params)
    BY <1>1 DEF PirInv, Right
  <1>3. Degree(r) = N1 \div nrec /\ Len(q.msg) = T
    BY BatchFails
  <1>4. DegreeOf(q) = N1 \div nrec /\ (q.op = "batch" => D3 = N1 \div nrec)
          /\ (q.op = "query" => D = N1 \div nrec)
    BY <1>2, <1>3 DEF Degree, DegreeOf, Queries
  <1>5. PICK S : queries \in [1..Len(idxs) -> S]
    BY <1>2 DEF Queries
  <1>6. idxs \in Seq(Nat) /\ Len(idxs) = T /\ queries \in [1..T -> S]
    <2>1. idxs \in Seq(Nat)
      BY <1>2 DEF Queries
    <2> HIDE DEF q, idxs
    <2>2. Len(idxs) \in Nat
      BY <2>1
    <2>3. Len(q.msg) = Len(idxs)
      BY <1>5, <2>2
    <2>4. QED BY <1>3, <1>5, <2>1, <2>3
  <1>7. \A t \in 1..T : /\ idxs[t] \in Nat /\ idxs[t] < (N1 \div nrec) * (rows * cols)
                        /\ Honest(queries[t], idxs[t], rows, cols, N1 \div nrec, params)
    <2>1. \A t \in 1..T : idxs[t] \in Nat
      BY <1>6
    <2>2. \A t \in 1..T : /\ idxs[t] < DegreeOf(q) * (rows * cols)
                          /\ Honest(queries[t], idxs[t], rows, cols, DegreeOf(q), params)
      BY <1>2, <1>6 DEF Queries
    <2> HIDE DEF q, idxs, queries
    <2>3. QED BY <1>4, <2>1, <2>2
  <1>8. /\ IsPowerOfTwo(rows) /\ IsPowerOfTwo(cols) /\ nrec \in {N2, N3}
        /\ db \in Cells(rows, cols)
        /\ DOMAIN Installed = 0..(Capacity(nrec) - 1)
    BY <1>1, DatabaseReady
  <1>9. IsPowerOfTwo(T) /\ T \in Nat \ {0}
    <2>1. IsPowerOfTwo(T)
      BY RequestAssumption DEF IsPowerOfTwo
    <2>2. QED BY <2>1, ShlAssumption DEF IsPowerOfTwo
  <1>10. PICK reply \in Poly(N2) :
           /\ AnswerBatch(queries, T, params, rows, cols, db, nrec) = Ok(reply)
           /\ \A t \in 1..T :
                ProjectAt(reply, N2, nrec, t - 1) = RecordAt(db, idxs[t], rows, cols, nrec, 0)
    <2> HIDE DEF q, idxs, queries
    <2>1. AllHonest(queries, idxs, T, rows, cols, N1 \div nrec, params)
      BY <1>7, Zenon DEF AllHonest
    <2>2. BatchServed(queries, idxs, T, rows, cols, nrec, params, db)
      BY <1>1, <1>6, <1>8, <1>9, <2>1, BatchAnswered
    <2>3. QED BY <2>2, Zenon DEF BatchServed
  <1>11. /\ req'[r].reply = reply
         /\ req'[r].op = q.op /\ req'[r].idxs = q.idxs
    <2>1. Reply(r, AnswerBatch(queries, T, params, rows, cols, db, nrec))
      BY DEF AnswerBatched
    <2>2. Ok(reply).ct = reply
      BY DEF Ok
    <2> HIDE DEF queries
    <2>3. Reply(r, Ok(reply))
      BY <1>10, <2>1
    <2>4. QED BY <2>2, <2>3, Replied
  <1>12. q.op \in {"query", "batch"} /\ (q.op = "query" => Len(idxs) = 1)
    BY <1>2 DEF Queries
  <1> HIDE DEF queries
  <1>13. ASSUME NEW t \in 1..T
         PROVE  /\ idxs[t] \in DOMAIN Installed
                /\ ProjectAt(reply, N2, nrec, t - 1) = Installed[idxs[t]]
    <2> DEFINE x == idxs[t]
               g == rows * cols
               d == N1 \div nrec
    <2>1. x \in Nat /\ x < d * g
      BY <1>7
    <2>2. rows \in Nat /\ cols \in Nat
      BY <1>8, ShlAssumption DEF IsPowerOfTwo
    <2>3. g \in Nat /\ 0 * g = 0 /\ d \in Nat
      <3>1. \A a, b \in Nat : a * b \in Nat
        BY Z3
      <3>2. g \in Nat /\ d \in Nat
        BY <1>8, <2>2, <3>1, DegreeSplits
      <3> HIDE DEF g
      <3>3. QED BY <3>2
    <2>4. Capacity(nrec) = g * d
      BY DEF Capacity
    <2>5. ProjectAt(reply, N2, nrec, t - 1) = RecordAt(db, x, rows, cols, nrec, 0)
      BY <1>10
    <2> HIDE DEF x, d, g
    <2>6. d * g = g * d /\ g * d \in Nat
      BY <2>3, Z3
    <2>7. x \in 0..(Capacity(nrec) - 1)
      BY <2>1, <2>4, <2>6
    <2>8. x + 0 * g = x
      BY <2>1, <2>3
    <2>9. RecordAt(db, x, rows, cols, nrec, 0) = Installed[x]
      <3>1. x + 0 * (rows * cols) = x
        BY <2>8 DEF g
      <3>2. RecordAt(db, x, rows, cols, nrec, 0) = Installed[x + 0 * (rows * cols)]
        BY <1>1, <2>1, <2>7, <3>1, CellHolds
      <3>3. QED BY <3>1, <3>2
    <2>10. QED BY <1>8, <2>5, <2>7, <2>9 DEF x
  <1> HIDE DEF q, idxs
  <1>14. idxs \in Seq(DOMAIN Installed) \ {<<>>}
    <2>1. Len(idxs) = T /\ idxs \in Seq(Nat) /\ DOMAIN idxs = 1..T
      BY <1>6
    <2>2. idxs \in Seq(DOMAIN Installed)
      BY <1>13, <2>1
    <2>3. idxs # <<>>
      BY <1>9, <2>1
    <2>4. QED BY <2>2, <2>3
  <1> DEFINE new == req'[r]
  <1>15. new.op = q.op /\ new.reply = reply /\ new.idxs = idxs
    BY <1>11 DEF idxs
  <1> HIDE DEF new
  <1>16. DOMAIN idxs = 1..T
    BY <1>6
  <1>17. CASE q.op = "batch"
    <2>1. nrec = N3
      <3>1. N1 = (N1 \div N3) * N3 /\ N3 \in Nat \ {0}
        <4>1. N3 \in {N2, N3}
          OBVIOUS
        <4>2. QED BY <4>1, DegreeSplits
      <3>2. N1 = (N1 \div nrec) * nrec /\ N1 \div nrec \in Nat \ {0} /\ nrec \in Nat \ {0}
        BY <1>8, DegreeSplits
      <3>3. N1 \div N3 = N1 \div nrec
        BY <1>4, <1>17 DEF D3
      <3>4. \A a, b, c \in Nat : a # 0 /\ a * b = a * c => b = c
        BY TimesCancels
      <3> DEFINE d == N1 \div nrec
      <3>5. d * N3 = d * nrec /\ d \in Nat \ {0}
        BY <3>1, <3>2, <3>3
      <3> HIDE DEF d
      <3>6. QED BY <3>1, <3>2, <3>4, <3>5
    <2>2. AskedBy(new, rows, cols, nrec) = idxs
      BY <1>15, <1>17 DEF AskedBy
    <2>3. HeldBy(new, nrec) = [t \in 1..T |-> ProjectAt(reply, N2, nrec, t - 1)]
      BY <1>6, <1>15, <1>17, <2>1 DEF HeldBy, DeinterleaveBatch
    <2>4. HeldBy(new, nrec) = [t \in DOMAIN idxs |-> Installed[idxs[t]]]
      BY <1>13, <1>16, <2>3
    <2>5. QED BY <1>12, <1>14, <1>15, <2>2, <2>4 DEF Serves, new
  <1>18. CASE q.op = "query"
    <2>1. D = N1 \div nrec /\ Len(idxs) = 1 /\ T = 1
      BY <1>4, <1>6, <1>12, <1>18
    <2>2. nrec = N2 /\ N2 \div nrec = 1
      <3>1. N1 = D * N2 /\ D \in Nat \ {0} /\ N2 \in Nat \ {0}
        BY Tower
      <3>2. N1 = (N1 \div nrec) * nrec /\ nrec \in Nat \ {0}
        BY <1>8, DegreeSplits
      <3>3. \A a, b, c \in Nat : a # 0 /\ a * b = a * c => b = c
        BY TimesCancels
      <3>4. D * N2 = D * nrec
        BY <2>1, <3>1, <3>2
      <3>5. nrec = N2
        BY <3>1, <3>2, <3>3, <3>4
      <3>6. N2 \div N2 = 1
        BY <3>1, DivExact
      <3>7. QED BY <3>5, <3>6
    <2>3. idxs[1] \in Nat /\ rows \in Nat /\ cols \in Nat /\ D \in Nat
      <3>1. 1 \in 1..T
        BY <2>1
      <3>2. idxs[1] \in Nat
        BY <1>7, <3>1 DEF idxs
      <3>3. rows \in Nat /\ cols \in Nat
        BY <1>8, ShlAssumption DEF IsPowerOfTwo
      <3>4. QED BY <1>8, <3>2, <3>3, Tower
    <2>4. idxs[1] + (1 - 1) * D * rows * cols = idxs[1]
      BY <2>3
    <2>5. AskedBy(new, rows, cols, nrec) = [s \in 1..1 |-> idxs[1] + (s - 1) * D * rows * cols]
      BY <1>15, <1>18, <2>2 DEF AskedBy
    <2>6. AskedBy(new, rows, cols, nrec) = idxs
      <3>1. \A s \in 1..1 : idxs[1] + (s - 1) * D * rows * cols = idxs[s]
        BY <2>4
      <3>2. DOMAIN idxs = 1..1 /\ idxs \in Seq(Nat)
        BY <1>6, <1>16, <2>1
      <3>3. idxs = [s \in 1..1 |-> idxs[s]]
        BY <3>2
      <3>4. QED BY <2>5, <3>1, <3>3
    <2>7. HeldBy(new, nrec) = [t \in 1..T |-> ProjectAt(reply, N2, nrec, t - 1)]
      BY <1>15, <1>18, <2>1, <2>2 DEF HeldBy
    <2>8. HeldBy(new, nrec) = [t \in DOMAIN idxs |-> Installed[idxs[t]]]
      BY <1>13, <1>16, <2>7
    <2>9. QED BY <1>12, <1>14, <1>15, <2>6, <2>8 DEF Serves, new
  <1>19. QED BY <1>12, <1>17, <1>18

\* A request nothing is claimed of.
LEMMA RightIdly ==
  ASSUME NEW q, NEW i, NEW j, NEW p, NEW n, NEW records, NEW serving \in BOOLEAN,
         q.at \notin {"sent", "answered", "done"}
  PROVE  Right(q, i, j, p, n, records, serving)
  BY DEF Right

\* A step that changes request r at most.
LEMMA PirAfter ==
  ASSUME PirInv, UNCHANGED <<stage, rows, cols, params, nrec, Installed>>, NEW r \in Request,
         \A s \in Request \ {r} : req'[s] = req[s],
         Right(req'[r], rows, cols, params, nrec, Installed, stage = "serving")
  PROVE  PirInv'
  <1>1. ASSUME NEW s \in Request
        PROVE  Right(req'[s], rows, cols, params, nrec, Installed, stage = "serving")
    <2>1. CASE s = r
      BY <2>1
    <2>2. CASE s # r
      <3>1. req'[s] = req[s]
        BY <2>2
      <3>2. QED BY <3>1 DEF PirInv
    <2>3. QED BY <2>1, <2>2
  <1>2. QED BY <1>1 DEF PirInv, Right

\* A step of the set-up.
LEMMA PirSetup ==
  ASSUME PirInv, stage # "serving", req' = req,
         UNCHANGED <<rows, cols, params>> \/ \A r \in Request : req[r].at # "sent"
  PROVE  PirInv'
  <1>1. ASSUME NEW r \in Request PROVE Right(req[r], rows, cols, params, nrec, Installed, stage = "serving")'
    <2>1. Right(req[r], rows, cols, params, nrec, Installed, stage = "serving")
      BY DEF PirInv
    <2>2. req[r].at \notin {"answered", "done"} /\ (req[r].at = "sent" => Queries(req[r], rows, cols, params))
      BY <2>1 DEF Right
    <2>3. req'[r].at \notin {"answered", "done"} /\ (req'[r].at = "sent" => Queries(req'[r], rows', cols', params'))
      BY <2>2
    <2>4. QED BY <2>3 DEF Right
  <1>2. QED BY <1>1 DEF PirInv

\* Client::query sends an honest query for the index.
LEMMA QueryRight ==
  ASSUME SetupInv, StageInv, PirInv, NEW r \in Request, Query(r)
  PROVE  PirInv'
  <1>1. /\ DOMAIN req = Request
        /\ rows \in Dims \ {0} /\ cols \in Dims \ {0}
        /\ UNCHANGED <<stage, rows, cols, params, nrec, db, count>>
    <2>1. /\ DOMAIN req = Request /\ rows \in Dims /\ cols \in Dims
          /\ IsPowerOfTwo(rows) /\ IsPowerOfTwo(cols)
          /\ UNCHANGED <<stage, rows, cols, params, nrec, db, count>>
      BY DEF Query, HasClient, SetupInv, StageInv
    <2>2. rows # 0 /\ cols # 0
      BY <2>1, ShlAssumption DEF IsPowerOfTwo
    <2>3. QED BY <2>1, <2>2
  <1>2. UNCHANGED Installed
    BY <1>1 DEF Installed, Capacity
  <1>3. PICK index \in Index(r, D * rows * cols) :
          LET cts == BuildCompressedQuery(index, rows, cols, D, params.base_1, params.base_2)
          IN  req' = [req EXCEPT ![r] =
                IF index >= D * rows * cols THEN [Idle EXCEPT !.at = "refused", !.idxs = <<index>>]
                ELSE [Idle EXCEPT !.at = "sent", !.op = "query", !.idxs = <<index>>, !.msg = <<cts>>]]
    BY DEF Query
  <1> DEFINE cts == BuildCompressedQuery(index, rows, cols, D, params.base_1, params.base_2)
  <1>4. index \in Nat
    <2>1. \A i, j \in Dims \ {0}, s \in Request : Index(s, D * i * j) \subseteq Nat
      BY RequestAssumption
    <2>2. QED BY <1>1, <2>1
  <1>5. CASE index >= D * rows * cols
    <2>1. req' = [req EXCEPT ![r] = [Idle EXCEPT !.at = "refused", !.idxs = <<index>>]]
      BY <1>3, <1>5
    <2>2. req'[r].at = "refused" /\ \A s \in Request \ {r} : req'[s] = req[s]
      BY <1>1, <2>1 DEF Idle
    <2>3. Right(req'[r], rows, cols, params, nrec, Installed, stage = "serving")
      BY <2>2 DEF Right
    <2>4. QED BY <1>1, <1>2, <2>2, <2>3, PirAfter
  <1>6. CASE ~(index >= D * rows * cols)
    <2>1. req' = [req EXCEPT ![r] = [Idle EXCEPT
                    !.at = "sent", !.op = "query", !.idxs = <<index>>, !.msg = <<cts>>]]
      BY <1>3, <1>6
    <2>2. Honest(cts, index, rows, cols, D, params)
      BY Zenon DEF Honest
    <2> HIDE DEF cts
    <2>3. /\ \A s \in Request \ {r} : req'[s] = req[s]
          /\ req'[r].at = "sent" /\ req'[r].op = "query"
          /\ req'[r].idxs = <<index>> /\ req'[r].msg = <<cts>>
      BY <1>1, <2>1 DEF Idle
    <2> DEFINE q == req'[r]
    <2>4. index < D * (rows * cols)
      <3>1. rows \in Nat /\ cols \in Nat /\ D \in Nat
        BY <1>1, RequestAssumption, Tower
      <3>2. \A a, b, c \in Nat : a * b * c = a * (b * c) /\ a * b * c \in Nat
        BY Z3
      <3>3. D * rows * cols = D * (rows * cols) /\ D * rows * cols \in Nat
        BY <3>1, <3>2
      <3>4. QED BY <1>4, <1>6, <3>3
    <2>5. Queries(q, rows, cols, params)
      <3>1. q.op = "query" /\ q.idxs = <<index>> /\ q.msg = <<cts>>
        BY <2>3
      <3> HIDE DEF q
      <3>2. <<index>> \in Seq(Nat) /\ <<index>> # <<>> /\ Len(<<index>>) = 1
        BY <1>4
      <3>3. \E S : <<cts>> \in [1..1 -> S]
        <4>1. <<cts>> \in [1..1 -> {cts}]
          OBVIOUS
        <4>2. QED BY <4>1, Zenon
      <3>4. DegreeOf(q) = D
        BY <3>1 DEF DegreeOf
      <3>5. \A t \in 1..1 : /\ <<index>>[t] < D * (rows * cols)
                            /\ Honest(<<cts>>[t], <<index>>[t], rows, cols, D, params)
        BY <2>2, <2>4
      <3>6. QED BY <3>1, <3>2, <3>3, <3>4, <3>5 DEF Queries
    <2>6. Right(q, rows, cols, params, nrec, Installed, stage = "serving")
      BY <2>3, <2>5 DEF Right
    <2>7. QED BY <1>1, <1>2, <2>3, <2>6, PirAfter
  <1>7. QED BY <1>5, <1>6

\* Client::batch_query sends an honest query for each of the indices.
LEMMA BatchQueryRight ==
  ASSUME SetupInv, StageInv, PirInv, NEW r \in Request, BatchQuery(r)
  PROVE  PirInv'
  <1>1. /\ DOMAIN req = Request
        /\ rows \in Dims \ {0} /\ cols \in Dims \ {0}
        /\ UNCHANGED <<stage, rows, cols, params, nrec, db, count>>
    <2>1. /\ DOMAIN req = Request /\ rows \in Dims /\ cols \in Dims
          /\ IsPowerOfTwo(rows) /\ IsPowerOfTwo(cols)
          /\ UNCHANGED <<stage, rows, cols, params, nrec, db, count>>
      BY DEF BatchQuery, HasClient, SetupInv, StageInv
    <2>2. rows # 0 /\ cols # 0
      BY <2>1, ShlAssumption DEF IsPowerOfTwo
    <2>3. QED BY <2>1, <2>2
  <1>2. UNCHANGED Installed
    BY <1>1 DEF Installed, Capacity
  <1>3. PICK idxs \in Batches(r, D3 * rows * cols) :
          LET n == Len(idxs)
              bad == {t \in 1..n : idxs[t] >= D3 * rows * cols}
              cts == [t \in 1..n |->
                       BuildCompressedQuery(idxs[t], rows, cols, D3, params.base_1, params.base_2)]
          IN  req' = [req EXCEPT ![r] =
                IF bad # {} THEN [Idle EXCEPT !.at = "refused", !.idxs = idxs]
                ELSE [Idle EXCEPT !.at = "sent", !.op = "batch", !.idxs = idxs, !.msg = cts]]
    BY DEF BatchQuery
  <1> DEFINE n == Len(idxs)
             bad == {t \in 1..n : idxs[t] >= D3 * rows * cols}
             cts == [t \in 1..n |->
                      BuildCompressedQuery(idxs[t], rows, cols, D3, params.base_1, params.base_2)]
  <1>4. req' = [req EXCEPT ![r] =
                 IF bad # {} THEN [Idle EXCEPT !.at = "refused", !.idxs = idxs]
                 ELSE [Idle EXCEPT !.at = "sent", !.op = "batch", !.idxs = idxs, !.msg = cts]]
    BY <1>3, Zenon
  <1>5. idxs \in Seq(Nat) /\ idxs # <<>> /\ n \in Nat
    <2>1. \A i, j \in Dims \ {0}, s \in Request : \A x \in Batches(s, D3 * i * j) :
            x \in Seq(Nat) /\ x # <<>>
      BY RequestAssumption
    <2>2. idxs \in Seq(Nat) /\ idxs # <<>>
      BY <1>1, <2>1, Zenon
    <2>3. QED BY <2>2
  <1>6. CASE bad # {}
    <2> HIDE DEF bad
    <2>1. req' = [req EXCEPT ![r] = [Idle EXCEPT !.at = "refused", !.idxs = idxs]]
      BY <1>4, <1>6
    <2>2. req'[r].at = "refused" /\ \A s \in Request \ {r} : req'[s] = req[s]
      BY <1>1, <2>1 DEF Idle
    <2>3. Right(req'[r], rows, cols, params, nrec, Installed, stage = "serving")
      BY <2>2 DEF Right
    <2>4. QED BY <1>1, <1>2, <2>2, <2>3, PirAfter
  <1>7. CASE bad = {}
    <2>1. req' = [req EXCEPT ![r] =
                   [Idle EXCEPT !.at = "sent", !.op = "batch", !.idxs = idxs, !.msg = cts]]
      <3> HIDE DEF bad, cts
      <3>1. QED BY <1>4, <1>7
    <2>2. \A t \in 1..n : Honest(cts[t], idxs[t], rows, cols, D3, params)
      <3>1. \A t \in 1..n : cts[t] = BuildCompressedQuery(idxs[t], rows, cols, D3,
                                       params.base_1, params.base_2)
        OBVIOUS
      <3> HIDE DEF cts, n
      <3>2. QED BY <3>1 DEF Honest
    <2>3. \E S : cts \in [1..n -> S]
      <3> DEFINE S == {cts[t] : t \in 1..n}
      <3>1. cts = [t \in 1..n |-> cts[t]]
        OBVIOUS
      <3> HIDE DEF cts, n
      <3>2. cts \in [1..n -> S]
        BY <3>1
      <3>3. QED BY <3>2, Zenon
    <2>4. \A t \in 1..n : idxs[t] < D3 * (rows * cols)
      <3>1. \A t \in 1..n : idxs[t] \in Nat /\ ~(idxs[t] >= D3 * rows * cols)
        BY <1>5, <1>7
      <3> HIDE DEF n, bad
      <3>2. rows \in Nat /\ cols \in Nat
        BY <1>1, RequestAssumption
      <3>3. D3 \in Nat
        <4>1. N3 \in {N2, N3}
          OBVIOUS
        <4>2. N1 \div N3 \in Nat \ {0}
          BY <4>1, DegreeSplits
        <4>3. QED BY <4>2 DEF D3
      <3>4. \A a, b, c \in Nat : a * b * c = a * (b * c) /\ a * b * c \in Nat
        BY Z3
      <3>5. D3 * rows * cols = D3 * (rows * cols) /\ D3 * rows * cols \in Nat
        BY <3>2, <3>3, <3>4
      <3> DEFINE m == D3 * (rows * cols)
      <3>6. m \in Nat /\ \A t \in 1..n : idxs[t] \in Nat /\ ~(idxs[t] >= m)
        BY <3>1, <3>5
      <3> HIDE DEF m
      <3>7. \A t \in 1..n : idxs[t] < m
        BY <3>6
      <3>8. QED BY <3>7 DEF m
    <2> HIDE DEF cts, bad
    <2>5. /\ \A s \in Request \ {r} : req'[s] = req[s]
          /\ req'[r].at = "sent" /\ req'[r].op = "batch"
          /\ req'[r].idxs = idxs /\ req'[r].msg = cts
      BY <1>1, <2>1 DEF Idle
    <2> DEFINE q == req'[r]
    <2>6. Queries(q, rows, cols, params)
      <3>1. q.op = "batch" /\ q.idxs = idxs /\ q.msg = cts
        BY <2>5
      <3> HIDE DEF q
      <3>2. DegreeOf(q) = D3
        BY <3>1 DEF DegreeOf
      <3>3. QED BY <1>5, <2>2, <2>3, <2>4, <3>1, <3>2 DEF Queries
    <2>7. Right(q, rows, cols, params, nrec, Installed, stage = "serving")
      BY <2>5, <2>6 DEF Right
    <2>8. QED BY <1>1, <1>2, <2>5, <2>7, PirAfter
  <1>8. QED BY <1>6, <1>7

\* The server's handlers answer with what is asked for, or fail.
LEMMA ReplyRight ==
  ASSUME SetupInv, StageInv, SentInv, PirInv, NEW r \in Request,
         Answer(r) \/ \E T \in BatchSizes : AnswerBatched(r, T)
  PROVE  /\ PirInv'
         /\ req[r].at = "sent" /\ req'[r].at \in {"answered", "failed"}
         /\ \A s \in Request \ {r} : req'[s] = req[s]
         /\ UNCHANGED <<stage, rows, cols, nrec, Installed>>
         /\ stage = "serving"
  <1>1. PICK result : Reply(r, result)
    BY DEF Answer, AnswerBatched
  <1>2. /\ req'[r].at \in {"answered", "failed"}
        /\ \A s \in Request \ {r} : req'[s] = req[s]
        /\ UNCHANGED <<stage, params, rows, cols, nrec, Installed>>
    BY <1>1, Replied
  <1>3. stage = "serving" /\ req[r].at = "sent"
    BY DEF Answer, AnswerBatched
  <1>4. req'[r].at = "answered" => Serves(req'[r], rows, cols, nrec, Installed)
    BY AnswerServes, BatchServes
  <1>5. Right(req'[r], rows, cols, params, nrec, Installed, stage = "serving")
    BY <1>2, <1>3, <1>4 DEF Right
  <1>6. PirInv'
    BY <1>2, <1>5, PirAfter
  <1>7. QED BY <1>2, <1>3, <1>6

\* The client hands its caller what the answer holds.
LEMMA RecoverRight ==
  ASSUME StageInv, SentInv, PirInv, NEW r \in Request, Recover(r) \/ RecoverBatch(r)
  PROVE  /\ PirInv'
         /\ req[r].at = "answered" /\ req'[r].at = "done"
         /\ req'[r].op = req[r].op /\ req'[r].idxs = req[r].idxs
         /\ \A s \in Request \ {r} : req'[s] = req[s]
         /\ UNCHANGED <<stage, rows, cols, nrec, Installed>>
         /\ stage = "serving"
  <1> DEFINE q == req[r]
             handed == IF q.op = "batch" THEN DeinterleaveBatch(q.reply, Len(q.idxs)) ELSE <<q.reply>>
  <1>1. /\ q.at = "answered"
        /\ UNCHANGED <<stage, params, rows, cols, nrec, db, count>>
    BY DEF Recover, RecoverBatch
  <1>2. stage = "serving" /\ Serves(q, rows, cols, nrec, Installed)
    BY <1>1 DEF PirInv, Right
  <1>3. req' = [req EXCEPT ![r].at = "done", ![r].got = handed]
    <2>1. CASE Recover(r)
      <3>1. q.op # "batch" /\ req' = [req EXCEPT ![r].at = "done", ![r].got = <<q.reply>>]
        BY <2>1 DEF Recover
      <3>2. handed = <<q.reply>>
        BY <3>1
      <3> HIDE DEF handed
      <3>3. QED BY <3>1, <3>2
    <2>2. CASE RecoverBatch(r)
      <3>1. q.op = "batch"
        BY <2>2 DEF RecoverBatch
      <3>2. q.reply # Garbage
        BY <1>2, GarbageAssumption DEF Serves
      <3> DEFINE all == DeinterleaveBatch(q.reply, Len(q.idxs))
                 taken == IF q.reply = Garbage THEN <<Garbage>> ELSE all
      <3>3. req' = [req EXCEPT ![r].at = "done", ![r].got = taken]
        BY <2>2, Zenon DEF RecoverBatch
      <3>4. taken = all /\ handed = all
        BY <3>1, <3>2
      <3> HIDE DEF handed, taken, all
      <3>5. QED BY <3>3, <3>4
    <2>3. QED BY <2>1, <2>2
  <1> HIDE DEF handed
  <1>4. /\ req'[r].at = "done" /\ req'[r].got = handed
        /\ req'[r].op = q.op /\ req'[r].idxs = q.idxs /\ req'[r].reply = q.reply
        /\ \A s \in Request \ {r} : req'[s] = req[s]
    <2>1. DOMAIN req = Request /\ DOMAIN q = DOMAIN Idle
      BY DEF StageInv, SentInv, Whole
    <2>2. "at" \in DOMAIN Idle /\ "got" \in DOMAIN Idle
      BY DEF Idle
    <2>3. req'[r] = [q EXCEPT !.at = "done", !.got = handed]
      BY <1>3, <2>1
    <2>4. \A s \in Request \ {r} : req'[s] = req[s]
      BY <1>3, <2>1
    <2> HIDE DEF q
    <2>5. req'[r].at = "done" /\ req'[r].got = handed
      BY <2>1, <2>2, <2>3
    <2>6. req'[r].op = q.op /\ req'[r].idxs = q.idxs /\ req'[r].reply = q.reply
      BY <2>3
    <2>7. QED BY <2>4, <2>5, <2>6
  <1> DEFINE new == req'[r]
  <1>5. Serves(new, rows, cols, nrec, Installed)
    <2>1. /\ new.op = q.op /\ new.idxs = q.idxs /\ new.reply = q.reply
      BY <1>4
    <2> HIDE DEF new, q
    <2>2. /\ AskedBy(new, rows, cols, nrec) = AskedBy(q, rows, cols, nrec)
          /\ HeldBy(new, nrec) = HeldBy(q, nrec)
      BY <2>1, Zenon DEF AskedBy, HeldBy
    <2>3. QED BY <1>2, <2>1, <2>2 DEF Serves
  <1>6. Handed(new)
    BY <1>4 DEF Handed, handed
  <1>7. Right(new, rows, cols, params, nrec, Installed, stage = "serving")
    BY <1>2, <1>4, <1>5, <1>6 DEF Right
  <1>8. UNCHANGED Installed
    BY <1>1 DEF Installed, Capacity
  <1>9. PirInv'
    BY <1>1, <1>4, <1>7, <1>8, PirAfter
  <1>10. QED BY <1>1, <1>2, <1>4, <1>8, <1>9

LEMMA PirInvInit == Init => PirInv
  <1> SUFFICES ASSUME Init, NEW r \in Request
               PROVE  Right(req[r], rows, cols, params, nrec, Installed, stage = "serving")
    BY DEF PirInv
  <1>1. req[r].at = "idle"
    BY DEF Init, Idle
  <1>2. QED BY <1>1 DEF Right

\* A set-up step, as the requests see it.
LEMMA SetupStep ==
  ASSUME SentInv, StageInv, PirInv,
         ParamsPanic \/ ClientSetup \/ ClientSetupRefused \/ ServerSetup \/ ServerSetupRefused
  PROVE  PirInv' /\ req' = req /\ stage # "serving"
  <1>1. stage # "serving" /\ req' = req
    BY DEF ParamsPanic, ClientSetup, ClientSetupRefused, ServerSetup, ServerSetupRefused
  <1>2. UNCHANGED <<rows, cols, params>> \/ \A r \in Request : req[r].at # "sent"
    <2>1. CASE ClientSetup
      <3>1. rows = 0
        BY <2>1 DEF ClientSetup, StageInv
      <3>2. QED BY <3>1 DEF SentInv, Whole
    <2>2. CASE ~ClientSetup
      BY <2>2 DEF ParamsPanic, ClientSetupRefused, ServerSetup, ServerSetupRefused
    <2>3. QED BY <2>1, <2>2
  <1>3. QED BY <1>1, <1>2, PirSetup

LEMMA PirInvNext == SetupInv /\ StageInv /\ SentInv /\ PirInv /\ [Next]_vars => PirInv'
  <1> SUFFICES ASSUME SetupInv, StageInv, SentInv, PirInv, [Next]_vars PROVE PirInv'
    OBVIOUS
  <1>1. CASE ParamsPanic \/ ClientSetup \/ ClientSetupRefused \/ ServerSetup \/ ServerSetupRefused
    BY <1>1, SetupStep
  <1>2. ASSUME NEW r \in Request, Query(r) PROVE PirInv'
    BY <1>2, QueryRight
  <1>3. ASSUME NEW r \in Request, BatchQuery(r) PROVE PirInv'
    BY <1>3, BatchQueryRight
  <1>4. ASSUME NEW r \in Request, Answer(r) \/ \E T \in BatchSizes : AnswerBatched(r, T) PROVE PirInv'
    BY <1>4, ReplyRight
  <1>5. ASSUME NEW r \in Request, Recover(r) \/ RecoverBatch(r) PROVE PirInv'
    BY <1>5, RecoverRight
  <1>6. CASE UNCHANGED vars
    <2>1. UNCHANGED <<stage, rows, cols, params, nrec, db, count, req>>
      BY <1>6 DEF vars
    <2>2. UNCHANGED Installed
      BY <2>1 DEF Installed, Capacity
    <2>3. QED BY <2>1, <2>2 DEF PirInv, Right
  <1>7. QED BY <1>1, <1>2, <1>3, <1>4, <1>5, <1>6 DEF Next

-----------------------------------------------------------------------------
(***************************************************************************)
(* The refinement: what is abstracted from the requests, and each step as  *)
(* a step of Pir or none.                                                  *)
(***************************************************************************)

AllAsked == [r \in Request |-> Asked(r)]
AllGot == [r \in Request |-> Got(r)]

\* A request that has no answer yet.
LEMMA Unanswered ==
  ASSUME NEW r \in Request, req[r].at \notin {"answered", "done"}
  PROVE  Asked(r) = <<>> /\ Got(r) = <<>>
  <1>1. Asked(r) = <<>>
    BY Zenon DEF Asked
  <1>2. req[r].at # "done"
    OBVIOUS
  <1>3. Got(r) = <<>>
    BY <1>2, Zenon DEF Got
  <1>4. QED BY <1>1, <1>3

LEMMA UnansweredNext ==
  ASSUME NEW r \in Request, req'[r].at \notin {"answered", "done"}
  PROVE  Asked(r)' = <<>> /\ Got(r)' = <<>>
  <1>1. Asked(r)' = <<>>
    BY Zenon DEF Asked
  <1>2. req'[r].at # "done"
    OBVIOUS
  <1>3. Got(r)' = <<>>
    BY <1>2, Zenon DEF Got
  <1>4. QED BY <1>1, <1>3

\* A request with an answer.
LEMMA Answered ==
  ASSUME PirInv, NEW r \in Request, req[r].at \in {"answered", "done"}
  PROVE  /\ Asked(r) = AskedBy(req[r], rows, cols, nrec)
         /\ Asked(r) \in Seq(DOMAIN Installed) \ {<<>>}
         /\ Got(r) = IF req[r].at = "done"
                     THEN [t \in DOMAIN Asked(r) |-> Installed[Asked(r)[t]]] ELSE <<>>
  <1> DEFINE q == req[r]
  <1>1. Serves(q, rows, cols, nrec, Installed) /\ (q.at = "done" => Handed(q))
    BY DEF PirInv, Right
  <1>2. Asked(r) = AskedBy(q, rows, cols, nrec)
    BY Zenon DEF Asked, AskedBy
  <1>3. Asked(r) \in Seq(DOMAIN Installed) \ {<<>>}
    BY <1>1, <1>2 DEF Serves
  <1>4. HeldBy(q, nrec) = [t \in DOMAIN Asked(r) |-> Installed[Asked(r)[t]]]
    <2>1. HeldBy(q, nrec) = [t \in DOMAIN AskedBy(q, rows, cols, nrec) |->
                              Installed[AskedBy(q, rows, cols, nrec)[t]]]
      BY <1>1 DEF Serves
    <2>2. QED BY <1>2, <2>1, Zenon
  <1>5. CASE q.at = "done"
    <2>1. Got(r) = HeldBy(q, nrec)
      <3>1. CASE q.op = "batch"
        <4>1. q.got = DeinterleaveBatch(q.reply, Len(q.idxs))
          BY <1>1, <1>5, <3>1, Zenon DEF Handed
        <4>2. HeldBy(q, nrec) = DeinterleaveBatch(q.reply, Len(q.idxs))
          BY <3>1, Zenon DEF HeldBy
        <4>3. Got(r) = q.got
          BY <1>5, <3>1 DEF Got
        <4>4. QED BY <4>1, <4>2, <4>3, Zenon
      <3>2. CASE q.op # "batch"
        <4>1. q.got = <<q.reply>> /\ q.reply # Garbage
          BY <1>1, <1>5, <3>2, GarbageAssumption DEF Handed, Serves
        <4>2. q.got # <<Garbage>> /\ q.got[1] = q.reply
          BY <4>1
        <4>3. Got(r) = [s \in 1..(N2 \div nrec) |-> ProjectAt(q.got[1], N2, nrec, s - 1)]
          BY <1>5, <3>2, <4>2 DEF Got
        <4>4. HeldBy(q, nrec) = [s \in 1..(N2 \div nrec) |-> ProjectAt(q.reply, N2, nrec, s - 1)]
          BY <3>2, Zenon DEF HeldBy
        <4>5. QED BY <4>2, <4>3, <4>4, Zenon
      <3>3. QED BY <3>1, <3>2
    <2>2. QED BY <1>2, <1>3, <1>4, <1>5, <2>1, Zenon
  <1>6. CASE q.at # "done"
    BY <1>2, <1>3, <1>6, Zenon DEF Got
  <1>7. QED BY <1>2, <1>3, <1>5, <1>6

\* The requests a step leaves alone.
LEMMA Bystanders ==
  ASSUME UNCHANGED <<rows, cols, nrec>>, NEW s \in Request, req'[s] = req[s]
  PROVE  UNCHANGED <<Asked(s), Got(s)>>
  BY DEF Asked, Got

\* The database is installed once, by Server::setup.
LEMMA SetupInstalls ==
  ASSUME SetupInv, SentInv, StageInv, PirInv,
         ParamsPanic \/ ClientSetup \/ ClientSetupRefused \/ ServerSetup \/ ServerSetupRefused
  PROVE  Installed = <<>> /\ UNCHANGED <<AllAsked, AllGot>>
  <1>1. req' = req /\ stage # "serving"
    BY SetupStep
  <1>2. \A r \in Request : req[r].at \notin {"answered", "done"}
    BY <1>1 DEF PirInv, Right
  <1>3. \A r \in Request : req'[r].at \notin {"answered", "done"}
    BY <1>1, <1>2
  <1>4. \A r \in Request : Asked(r) = <<>> /\ Got(r) = <<>> /\ Asked(r)' = <<>> /\ Got(r)' = <<>>
    BY <1>2, <1>3, Unanswered, UnansweredNext
  <1>5. UNCHANGED <<AllAsked, AllGot>>
    BY <1>4 DEF AllAsked, AllGot
  <1>6. QED BY <1>1, <1>5 DEF Installed

\* A step to a request without an answer is no step of Pir.
LEMMA SilentStep ==
  ASSUME UNCHANGED <<rows, cols, nrec, Installed>>, NEW r \in Request,
         req[r].at \notin {"answered", "done"}, req'[r].at \notin {"answered", "done"},
         \A s \in Request \ {r} : req'[s] = req[s]
  PROVE  UNCHANGED <<Installed, AllAsked, AllGot>>
  <1>1. Asked(r)' = Asked(r) /\ Got(r)' = Got(r)
    BY Unanswered, UnansweredNext
  <1>2. \A s \in Request : Asked(s)' = Asked(s) /\ Got(s)' = Got(s)
    BY <1>1, Bystanders
  <1>3. QED BY <1>2 DEF AllAsked, AllGot

LEMMA QuerySilent ==
  ASSUME SetupInv, StageInv, NEW r \in Request, Query(r) \/ BatchQuery(r)
  PROVE  UNCHANGED <<Installed, AllAsked, AllGot>>
  <1>1. /\ req[r].at = "idle" /\ DOMAIN req = Request
        /\ UNCHANGED <<stage, rows, cols, nrec, count>>
    BY DEF Query, BatchQuery, StageInv
  <1>2. PICK q : req' = [req EXCEPT ![r] = q] /\ q.at \in {"refused", "sent"}
    <2>1. CASE Query(r)
      <3>1. PICK index \in Index(r, D * rows * cols) :
              LET cts == BuildCompressedQuery(index, rows, cols, D, params.base_1, params.base_2)
              IN  req' = [req EXCEPT ![r] =
                    IF index >= D * rows * cols THEN [Idle EXCEPT !.at = "refused", !.idxs = <<index>>]
                    ELSE [Idle EXCEPT !.at = "sent", !.op = "query", !.idxs = <<index>>, !.msg = <<cts>>]]
        BY <2>1 DEF Query
      <3> DEFINE cts == BuildCompressedQuery(index, rows, cols, D, params.base_1, params.base_2)
      <3>2. \/ req' = [req EXCEPT ![r] = [Idle EXCEPT !.at = "refused", !.idxs = <<index>>]]
            \/ req' = [req EXCEPT ![r] = [Idle EXCEPT
                         !.at = "sent", !.op = "query", !.idxs = <<index>>, !.msg = <<cts>>]]
        BY <3>1, Zenon
      <3> HIDE DEF cts
      <3>3. PICK q : req' = [req EXCEPT ![r] = q] /\ q.at \in {"refused", "sent"}
        <4> DEFINE refused == [Idle EXCEPT !.at = "refused", !.idxs = <<index>>]
                   sent == [Idle EXCEPT !.at = "sent", !.op = "query", !.idxs = <<index>>, !.msg = <<cts>>]
        <4>1. refused.at = "refused" /\ sent.at = "sent"
          BY DEF Idle
        <4>2. req' = [req EXCEPT ![r] = refused] \/ req' = [req EXCEPT ![r] = sent]
          BY <3>2
        <4> HIDE DEF refused, sent
        <4>3. QED BY <4>1, <4>2
      <3>4. QED BY <3>3
    <2>2. CASE BatchQuery(r)
      <3>1. PICK idxs, bad, cts : req' = [req EXCEPT ![r] =
                IF bad # {} THEN [Idle EXCEPT !.at = "refused", !.idxs = idxs]
                ELSE [Idle EXCEPT !.at = "sent", !.op = "batch", !.idxs = idxs, !.msg = cts]]
        BY <2>2, Zenon DEF BatchQuery
      <3> DEFINE q == IF bad # {} THEN [Idle EXCEPT !.at = "refused", !.idxs = idxs]
                      ELSE [Idle EXCEPT !.at = "sent", !.op = "batch", !.idxs = idxs, !.msg = cts]
      <3>2. q.at \in {"refused", "sent"}
        BY DEF Idle
      <3>3. req' = [req EXCEPT ![r] = q]
        BY <3>1
      <3> HIDE DEF q
      <3>4. QED BY <3>2, <3>3
    <2>3. QED BY <2>1, <2>2
  <1>3. req'[r].at \in {"refused", "sent"} /\ \A s \in Request \ {r} : req'[s] = req[s]
    BY <1>1, <1>2
  <1>4. UNCHANGED Installed
    BY <1>1 DEF Installed, Capacity
  <1>5. QED BY <1>1, <1>3, <1>4, SilentStep

\* An answer is an Ask, unless it is an error.
LEMMA ReplyAsks ==
  ASSUME SetupInv, StageInv, SentInv, PirInv, NEW r \in Request,
         Answer(r) \/ \E T \in BatchSizes : AnswerBatched(r, T)
  PROVE  \/ UNCHANGED <<Installed, AllAsked, AllGot>>
         \/ Abs!Ask(r)
  <1>1. /\ PirInv'
        /\ req[r].at = "sent" /\ req'[r].at \in {"answered", "failed"}
        /\ \A s \in Request \ {r} : req'[s] = req[s]
        /\ UNCHANGED <<stage, rows, cols, nrec, Installed>>
    BY ReplyRight
  <1>2. CASE req'[r].at = "failed"
    BY <1>1, <1>2, SilentStep
  <1>3. CASE req'[r].at = "answered"
    <2>1. Asked(r) = <<>> /\ Got(r) = <<>>
      BY <1>1, Unanswered
    <2>2. Asked(r)' \in Seq(DOMAIN Installed') \ {<<>>} /\ Got(r)' = <<>>
      <3>1. (req[r].at \in {"answered", "done"})' /\ PirInv'
        BY <1>1, <1>3
      <3>2. (Asked(r) \in Seq(DOMAIN Installed) \ {<<>>})'
              /\ (Got(r) = IF req[r].at = "done"
                           THEN [t \in DOMAIN Asked(r) |-> Installed[Asked(r)[t]]] ELSE <<>>)'
        BY <3>1, Answered, PTL
      <3>3. QED BY <1>3, <3>2
    <2>3. \A s \in Request \ {r} : Asked(s)' = Asked(s) /\ Got(s)' = Got(s)
      BY <1>1, Bystanders
    <2>4. Abs!Ask(r)
      <3>1. AllAsked[r] = <<>> /\ AllAsked'[r] \in Seq(DOMAIN Installed) \ {<<>>}
        BY <1>1, <2>1, <2>2 DEF AllAsked
      <3>2. AllAsked' = [AllAsked EXCEPT ![r] = AllAsked'[r]]
        BY <2>3 DEF AllAsked
      <3>3. UNCHANGED AllGot
        BY <2>1, <2>2, <2>3 DEF AllGot
      <3>4. QED BY <1>1, <3>1, <3>2, <3>3, Zenon DEF Abs!Ask, AllAsked, AllGot
    <2>5. QED BY <2>4
  <1>4. QED BY <1>1, <1>2, <1>3

\* Recovering is a Deliver: the caller gets the records asked for.
LEMMA RecoverDelivers ==
  ASSUME StageInv, SentInv, PirInv, NEW r \in Request, Recover(r) \/ RecoverBatch(r)
  PROVE  Abs!Deliver(r)
  <1>1. /\ PirInv'
        /\ req[r].at = "answered" /\ req'[r].at = "done"
        /\ req'[r].op = req[r].op /\ req'[r].idxs = req[r].idxs
        /\ \A s \in Request \ {r} : req'[s] = req[s]
        /\ UNCHANGED <<stage, rows, cols, nrec, Installed>>
    BY RecoverRight
  <1>2. /\ Asked(r) \in Seq(DOMAIN Installed) \ {<<>>} /\ Got(r) = <<>>
        /\ Asked(r) = AskedBy(req[r], rows, cols, nrec)
    BY <1>1, Answered
  <1>3. /\ Asked(r)' = AskedBy(req'[r], rows, cols, nrec)
        /\ Got(r)' = [t \in DOMAIN Asked(r)' |-> Installed[Asked(r)'[t]]]
    <2>1. (req[r].at \in {"answered", "done"})' /\ PirInv'
      BY <1>1
    <2>2. /\ (Asked(r) = AskedBy(req[r], rows, cols, nrec))'
          /\ (Got(r) = IF req[r].at = "done"
                       THEN [t \in DOMAIN Asked(r) |-> Installed[Asked(r)[t]]] ELSE <<>>)'
      BY <2>1, Answered, PTL
    <2>3. QED BY <1>1, <2>2
  <1>4. Asked(r)' = Asked(r)
    <2>1. AskedBy(req'[r], rows, cols, nrec) = AskedBy(req[r], rows, cols, nrec)
      BY <1>1, Zenon DEF AskedBy
    <2>2. QED BY <1>2, <1>3, <2>1
  <1>5. \A s \in Request \ {r} : Asked(s)' = Asked(s) /\ Got(s)' = Got(s)
    BY <1>1, Bystanders
  <1>6. UNCHANGED AllAsked
    BY <1>4, <1>5 DEF AllAsked
  <1>7. AllAsked[r] # <<>> /\ AllGot[r] = <<>>
    BY <1>2 DEF AllAsked, AllGot
  <1>8. AllGot' = [AllGot EXCEPT ![r] = [t \in DOMAIN AllAsked[r] |-> Installed[AllAsked[r][t]]]]
    <2>1. Got(r)' = [t \in DOMAIN Asked(r) |-> Installed[Asked(r)[t]]] /\ AllAsked[r] = Asked(r)
      BY <1>3, <1>4 DEF AllAsked
    <2> DEFINE records == [t \in DOMAIN Asked(r) |-> Installed[Asked(r)[t]]]
    <2> HIDE DEF records
    <2>2. AllGot' = [AllGot EXCEPT ![r] = records]
      BY <1>5, <2>1 DEF AllGot, records
    <2>3. QED BY <2>1, <2>2 DEF records
  <1>9. QED BY <1>1, <1>6, <1>7, <1>8, Zenon DEF Abs!Deliver, Abs!Lookup, AllAsked, AllGot

LEMMA InitRefines == Init => Abs!Init
  <1> SUFFICES ASSUME Init PROVE Abs!Init
    OBVIOUS
  <1>1. Installed = <<>>
    BY DEF Init, Installed
  <1>2. \A r \in Request : req[r].at = "idle"
    BY DEF Init, Idle
  <1>3. \A r \in Request : Asked(r) = <<>> /\ Got(r) = <<>>
    BY <1>2, Unanswered
  <1>4. QED BY <1>1, <1>3 DEF Abs!Init

\* Every step is one of Pir, or changes nothing that Pir sees.
LEMMA StepRefines ==
  SetupInv /\ StageInv /\ SentInv /\ PirInv /\ [Next]_vars => [Abs!Next]_(Abs!vars)
  <1> SUFFICES ASSUME SetupInv, StageInv, SentInv, PirInv, [Next]_vars
               PROVE  Abs!Next \/ UNCHANGED Abs!vars
    OBVIOUS
  <1>0. UNCHANGED <<Installed, AllAsked, AllGot>> => UNCHANGED Abs!vars
    BY DEF Abs!vars, AllAsked, AllGot
  <1>1. CASE ParamsPanic \/ ClientSetup \/ ClientSetupRefused \/ ServerSetup \/ ServerSetupRefused
    <2>1. Installed = <<>> /\ UNCHANGED <<AllAsked, AllGot>>
      BY <1>1, SetupInstalls
    <2>2. CASE Installed' = <<>>
      BY <1>0, <2>1, <2>2
    <2>3. CASE Installed' # <<>>
      BY <2>1, <2>3 DEF Abs!Next, Abs!Install, AllAsked, AllGot
    <2>4. QED BY <2>2, <2>3
  <1>2. ASSUME NEW r \in Request, Query(r) \/ BatchQuery(r) PROVE UNCHANGED Abs!vars
    BY <1>0, <1>2, QuerySilent
  <1>3. ASSUME NEW r \in Request, Answer(r) \/ \E T \in BatchSizes : AnswerBatched(r, T)
        PROVE  Abs!Next \/ UNCHANGED Abs!vars
    BY <1>0, <1>3, ReplyAsks DEF Abs!Next
  <1>4. ASSUME NEW r \in Request, Recover(r) \/ RecoverBatch(r) PROVE Abs!Next
    BY <1>4, RecoverDelivers DEF Abs!Next
  <1>5. CASE UNCHANGED vars
    <2>1. UNCHANGED <<stage, rows, cols, nrec, count, req>>
      BY <1>5 DEF vars
    <2>2. UNCHANGED Installed
      BY <2>1 DEF Installed, Capacity
    <2>3. \A r \in Request : UNCHANGED <<Asked(r), Got(r)>>
      BY <2>1, Bystanders
    <2>4. UNCHANGED <<AllAsked, AllGot>>
      BY <2>3 DEF AllAsked, AllGot
    <2>5. QED BY <1>0, <2>2, <2>4
  <1>6. QED BY <1>1, <1>2, <1>3, <1>4, <1>5 DEF Next

\* For every ring tower, shape, database and set of requests, whatever is in
\* flight: the protocol implements Pir.  A caller that recovers an answer has
\* exactly the records at the indices it queried.
THEOREM RetrievalIsRetrieval == Spec => RefinesPir
  <1> DEFINE Inv == SetupInv /\ StageInv /\ SentInv /\ PirInv
  <1>1. Init => Inv
    BY SetupInvInit, StageInvInit, SentInvInit, PirInvInit
  <1>2. Inv /\ [Next]_vars => Inv'
    BY SetupInvNext, StageInvNext, SentInvNext, PirInvNext
  <1>3. Inv /\ [Next]_vars => [Abs!Next]_(Abs!vars)
    BY StepRefines
  <1> HIDE DEF Inv
  <1>4. QED BY <1>1, <1>2, <1>3, InitRefines, PTL DEF Spec, RefinesPir, Abs!Spec

-----------------------------------------------------------------------------
(***************************************************************************)
(* What a request holds.  A reply is a polynomial because an answer        *)
(* serves: it is by PirInv that what the handlers return without an error  *)
(* decrypts.                                                               *)
(***************************************************************************)

\* What an LWE encrypts under the parameters p.
LweOf(p) == {<<>>} \cup ({p.base_1, p.base_2} \X (0..(L_QUERY - 1)))

\* The LWEs of a group of bits, under one of the two bases.
LEMMA GroupTyped ==
  ASSUME NEW p, NEW base \in {p.base_1, p.base_2}, NEW bits, NEW num \in Nat
  PROVE  PushBitGroup(bits, num, base) \in Seq(LweOf(p))
  <1> DEFINE n == num * L_QUERY
             Entry(x) == IF bits[(x - 1) \div L_QUERY] = 0 THEN <<>> ELSE <<base, (x - 1) % L_QUERY>>
             s == [x \in 1..n |-> Entry(x)]
  <1>1. n \in Nat
    BY LevelsNat, Z3
  <1>2. PushBitGroup(bits, num, base) = s
    BY DEF PushBitGroup
  <1>3. ASSUME NEW x \in 1..n PROVE Entry(x) \in LweOf(p)
    <2>1. x - 1 \in Nat
      BY <1>1
    <2> DEFINE level == (x - 1) % L_QUERY
    <2>2. level \in 0..(L_QUERY - 1)
      BY <2>1, LevelsNat, DivMod
    <2> HIDE DEF level
    <2>3. <<base, level>> \in {p.base_1, p.base_2} \X (0..(L_QUERY - 1))
      BY <2>2
    <2>4. QED BY <2>3 DEF LweOf, level
  <1> HIDE DEF n, Entry
  <1>4. s \in Seq(LweOf(p))
    BY <1>1, <1>3
  <1>5. QED BY <1>2, <1>4 DEF n

\* What build_compressed_query returns.
LEMMA QueryTyped ==
  ASSUME NEW p, NEW index, NEW i, NEW j, NEW d,
         IsPowerOfTwo(i), IsPowerOfTwo(j), IsPowerOfTwo(d)
  PROVE  BuildCompressedQuery(index, i, j, d, p.base_1, p.base_2) \in Seq(LweOf(p))
  <1> DEFINE split == DecomposeIndex(index, i, j)
             nd == CeilLog2(i)
             nc == CeilLog2(j)
             nr == CeilLog2(d)
             s1 == PushBitGroup(DmuxBits(split.alpha, nd), nd, p.base_1)
             s2 == PushBitGroup(CmuxBits(split.beta, nc), nc, p.base_2)
             s3 == PushBitGroup(CrotBits(split.gamma, nr), nr, p.base_2)
  <1>1. BuildCompressedQuery(index, i, j, d, p.base_1, p.base_2) = s1 \o s2 \o s3
    BY DEF BuildCompressedQuery
  <1>2. nd \in Nat /\ nc \in Nat /\ nr \in Nat
    BY CeilLog2Nat
  <1> HIDE DEF nd, nc, nr
  <1>3. s1 \in Seq(LweOf(p)) /\ s2 \in Seq(LweOf(p)) /\ s3 \in Seq(LweOf(p))
    BY <1>2, GroupTyped
  <1> HIDE DEF s1, s2, s3
  <1>4. QED BY <1>1, <1>3

\* What recover_batch cuts out of an answer for t records is a record.
LEMMA RecordTyped ==
  ASSUME NEW reply \in Poly(N2), NEW num \in Nat, num * N3 <= N2, NEW t \in 1..num
  PROVE  ProjectAt(reply, N2, N3, t - 1) \in Poly(N3)
  <1> DEFINE v == N2 \div N3
  <1>1. N3 \in Nat \ {0} /\ v \in Nat \ {0} /\ N2 = v * N3
    BY Tower
  <1> HIDE DEF v
  <1>2. t <= v
    <2>1. \A a, b, c \in Nat : a * c <= b * c /\ c # 0 => a <= b
      BY Z3
    <2>2. num <= v
      BY <1>1, <2>1
    <2>3. QED BY <1>1, <2>2
  <1>3. ASSUME NEW x \in 0..(N3 - 1) PROVE v * x + (t - 1) \in 0..(N2 - 1)
    <2>1. x \in Nat /\ x + 1 <= N3
      BY <1>1
    <2>2. \A a, b, c \in Nat : b + 1 <= c => a * b + a <= a * c /\ a * b \in Nat /\ a * c \in Nat
      BY Z3
    <2>3. v * x + v <= v * N3 /\ v * x \in Nat /\ v * N3 \in Nat
      BY <1>1, <2>1, <2>2
    <2>4. QED BY <1>1, <1>2, <2>3
  <1>4. ProjectAt(reply, N2, N3, t - 1) = [x \in 0..(N3 - 1) |-> reply[v * x + (t - 1)]]
    BY DEF ProjectAt, v
  <1>5. \A y \in 0..(N2 - 1) : reply[y] \in Coeff
    BY DEF Poly
  <1>6. QED BY <1>3, <1>4, <1>5 DEF Poly

-----------------------------------------------------------------------------
\* RequestOK, as the stage, the parameters and the client's being there have
\* it, and that a batch is one an answer can hold.
ReqTyped(q, p, client, serving) ==
  /\ q.at \in {"idle", "refused", "sent", "failed", "answered", "done"}
  /\ q.idxs \in Seq(Nat)
  /\ q.at \in {"idle", "refused"} => q.op = "" /\ q.msg = <<>>
  /\ q.at \in {"sent", "failed", "answered", "done"} =>
       /\ q.op \in {"query", "batch"} /\ (q.op = "query" => Len(q.idxs) = 1)
       /\ client /\ q.msg \in Seq(Seq(LweOf(p))) /\ Len(q.msg) = Len(q.idxs)
  /\ q.at \in {"failed", "answered", "done"} => serving
  /\ IF q.at \in {"answered", "done"} THEN q.reply \in Poly(N2) ELSE q.reply = Garbage
  /\ IF q.at # "done" THEN q.got = <<>>
     ELSE IF q.op = "query" THEN q.got = <<q.reply>>
     ELSE q.got \in [1..Len(q.idxs) -> Poly(N3)]
  /\ q.op = "batch" => Len(q.idxs) * N3 <= N2

\* The inductive invariant.
TypeInv ==
  /\ stage \in {"start", "client", "serving", "client_refused", "server_refused", "panicked"}
  /\ rows \in Nat /\ cols \in Nat /\ count \in Nat
  /\ stage # "serving" => nrec = 0 /\ db = <<>>
  /\ \A r \in Request : ReqTyped(req[r], params, rows # 0, stage = "serving")

LEMMA IdleTyped == ASSUME NEW p, NEW client, NEW serving PROVE ReqTyped(Idle, p, client, serving)
  <1>1. <<>> \in Seq(Nat)
    OBVIOUS
  <1>2. QED BY <1>1 DEF ReqTyped, Idle

LEMMA TypeInvInit == Init => TypeInv
  <1> SUFFICES ASSUME Init PROVE TypeInv
    OBVIOUS
  <1>1. req = [r \in Request |-> Idle]
    BY DEF Init
  <1>2. \A r \in Request : ReqTyped(req[r], params, rows # 0, stage = "serving")
    BY <1>1, IdleTyped
  <1>3. QED BY <1>2 DEF Init, TypeInv

\* The type invariant, with what SetupInv and StageInv add.
LEMMA TypesKept == SetupInv /\ StageInv /\ TypeInv => TypeOK
  <1> SUFFICES ASSUME SetupInv, StageInv, TypeInv PROVE TypeOK
    OBVIOUS
  <1>1. LweOf(params) = Lwe
    BY Zenon DEF LweOf, Lwe
  <1>2. rows # 0 <=> HasClient
    BY DEF HasClient, TypeInv
  <1>3. ASSUME NEW r \in Request PROVE RequestOK(req[r])
    <2> DEFINE q == req[r]
    <2>1. ReqTyped(q, params, rows # 0, stage = "serving")
      BY DEF TypeInv
    <2> HIDE DEF q
    <2>2. RequestOK(q)
      BY <1>1, <1>2, <2>1 DEF ReqTyped, RequestOK
    <2>3. QED BY <2>2 DEF q
  <1>4. /\ nrec \in {0, N2, N3}
        /\ db \in IF nrec = 0 THEN {<<>>} ELSE [0..(rows - 1) -> [0..(cols - 1) -> Poly(N1)]]
    <2>1. CASE stage = "serving"
      <3>1. nrec \in {N2, N3} /\ db \in Cells(rows, cols)
        BY <2>1, DatabaseReady
      <3>2. nrec # 0
        BY <3>1, Tower
      <3>3. QED BY <3>1, <3>2 DEF Cells
    <2>2. CASE stage # "serving"
      BY <2>2 DEF TypeInv
    <2>3. QED BY <2>1, <2>2
  <1>5. QED BY <1>3, <1>4 DEF TypeOK, TypeInv, StageInv

\* A step that changes request r at most.
LEMMA TypedAfter ==
  ASSUME TypeInv, UNCHANGED <<stage, params, rows, cols, nrec, db, count>>, NEW r \in Request,
         \A s \in Request \ {r} : req'[s] = req[s],
         ReqTyped(req'[r], params, rows # 0, stage = "serving")
  PROVE  TypeInv'
  <1>1. ASSUME NEW s \in Request PROVE ReqTyped(req'[s], params, rows # 0, stage = "serving")
    <2>1. CASE s = r
      BY <2>1
    <2>2. CASE s # r
      <3>1. req'[s] = req[s] /\ ReqTyped(req[s], params, rows # 0, stage = "serving")
        BY <2>2 DEF TypeInv
      <3>2. QED BY <3>1
    <2>3. QED BY <2>1, <2>2
  <1>2. \A s \in Request : ReqTyped(req[s], params, rows # 0, stage = "serving")'
    BY <1>1 DEF ReqTyped, LweOf
  <1>3. QED BY <1>2 DEF TypeInv

\* A step of the set-up.
LEMMA SetupTyped ==
  ASSUME SetupInv, StageInv, TypeInv,
         ParamsPanic \/ ClientSetup \/ ClientSetupRefused \/ ServerSetup \/ ServerSetupRefused
  PROVE  TypeInv'
  <1>1. CASE ClientSetup
    <2>1. stage = "start" /\ rows = 0 /\ \A r \in Request : req[r] = Idle
      BY <1>1 DEF ClientSetup, StageInv
    <2>2. PICK i, j, c, f : /\ i \in Dims /\ j \in Dims
                            /\ PublicParamsPanic(i, j, c, f) \/ SetUp(i, j, c, f)
      BY <1>1, Zenon DEF ClientSetup
    <2>3. UNCHANGED <<nrec, db, count, req>>
      BY <1>1 DEF ClientSetup
    <2>4. stage' \in {"panicked", "client"} /\ rows' \in Nat /\ cols' \in Nat
      BY <2>2, RequestAssumption DEF PublicParamsPanic, SetUp, TypeInv
    <2>5. ASSUME NEW r \in Request PROVE ReqTyped(req[r], params, rows # 0, stage = "serving")'
      <3>1. req'[r] = Idle
        BY <2>1, <2>3
      <3>2. ReqTyped(req'[r], params', rows' # 0, stage' = "serving")
        BY <3>1, IdleTyped
      <3>3. QED BY <3>2 DEF ReqTyped, LweOf
    <2>6. QED BY <2>1, <2>3, <2>4, <2>5 DEF TypeInv
  <1>2. ASSUME stage # "serving", UNCHANGED <<params, rows, req>>
        PROVE  \A r \in Request : ReqTyped(req[r], params, rows # 0, stage = "serving")'
    <2> SUFFICES ASSUME NEW r \in Request
                 PROVE  ReqTyped(req[r], params, rows # 0, stage = "serving")'
      OBVIOUS
    <2>1. ReqTyped(req[r], params, rows # 0, stage = "serving")
      BY DEF TypeInv
    <2> DEFINE q == req[r]
    <2>2. ReqTyped(q, params, rows # 0, stage' = "serving")
      <3>1. ReqTyped(q, params, rows # 0, stage = "serving")
        BY <2>1
      <3> HIDE DEF q
      <3>2. QED BY <1>2, <3>1 DEF ReqTyped
    <2>3. req'[r] = q
      BY <1>2
    <2> HIDE DEF q
    <2>4. ReqTyped(req'[r], params', rows' # 0, stage' = "serving")
      BY <1>2, <2>2, <2>3
    <2>5. QED BY <2>4 DEF ReqTyped, LweOf
  <1>3. CASE ServerSetup
    <2>1. PICK n \in {N2, N3}, spare \in Spare :
            0 <= spare /\ spare <= Capacity(n) /\ count' = Capacity(n) - spare
      BY <1>3 DEF ServerSetup
    <2>2. Capacity(n) \in Nat
      <3>1. rows \in Dims /\ cols \in Dims
        BY <1>3 DEF ServerSetup, SetupInv
      <3>2. QED BY <3>1, CapacityNat DEF Capacity
    <2>3. count' \in Nat
      BY <2>1, <2>2, RequestAssumption
    <2>4. stage = "client" /\ stage' = "serving" /\ UNCHANGED <<params, rows, cols, req>>
      BY <1>3 DEF ServerSetup
    <2>5. \A r \in Request : ReqTyped(req[r], params, rows # 0, stage = "serving")'
      BY <1>2, <2>4
    <2>6. QED BY <2>3, <2>4, <2>5 DEF TypeInv
  <1>4. CASE ParamsPanic \/ ClientSetupRefused \/ ServerSetupRefused
    <2>1. /\ stage' \in {"panicked", "client_refused", "server_refused"} /\ stage # "serving"
          /\ UNCHANGED <<params, rows, cols, nrec, db, count, req>>
      BY <1>4 DEF ParamsPanic, ClientSetupRefused, ServerSetupRefused
    <2>2. \A r \in Request : ReqTyped(req[r], params, rows # 0, stage = "serving")'
      BY <1>2, <2>1
    <2>3. QED BY <2>1, <2>2 DEF TypeInv
  <1>5. QED BY <1>1, <1>3, <1>4

\* A request that is set to q.
LEMMA Asks ==
  ASSUME StageInv, NEW r \in Request, NEW q, req' = [req EXCEPT ![r] = q]
  PROVE  req'[r] = q /\ \A s \in Request \ {r} : req'[s] = req[s]
  BY DEF StageInv

\* The client's requests.
LEMMA ClientTyped ==
  ASSUME SetupInv, StageInv, TypeInv, NEW r \in Request, Query(r) \/ BatchQuery(r)
  PROVE  TypeInv'
  <1>1. /\ rows \in Dims \ {0} /\ cols \in Dims \ {0}
        /\ IsPowerOfTwo(rows) /\ IsPowerOfTwo(cols)
        /\ UNCHANGED <<stage, params, rows, cols, nrec, db, count>>
    <2>1. /\ rows \in Dims /\ cols \in Dims /\ rows # 0
          /\ IsPowerOfTwo(rows) /\ IsPowerOfTwo(cols)
          /\ UNCHANGED <<stage, params, rows, cols, nrec, db, count>>
      <3>1. HasClient /\ UNCHANGED <<stage, params, rows, cols, nrec, db, count>>
        BY Zenon DEF Query, BatchQuery
      <3>2. rows # 0
        BY <3>1 DEF HasClient
      <3>3. QED BY <3>1, <3>2 DEF SetupInv, StageInv
    <2>2. cols # 0
      BY <2>1, ShlAssumption DEF IsPowerOfTwo
    <2>3. QED BY <2>1, <2>2
  <1>2. IsPowerOfTwo(D) /\ IsPowerOfTwo(D3)
    BY RatioPower DEF D, D3
  <1> DEFINE Refused(idxs) == [Idle EXCEPT !.at = "refused", !.idxs = idxs]
             Sends(op, idxs, cts) == [Idle EXCEPT !.at = "sent", !.op = op, !.idxs = idxs, !.msg = cts]
  <1>3. ASSUME NEW idxs \in Seq(Nat)
        PROVE  ReqTyped(Refused(idxs), params, rows # 0, stage = "serving")
    BY DEF ReqTyped, Idle
  <1>4. ASSUME NEW op \in {"query", "batch"}, NEW idxs \in Seq(Nat), NEW cts \in Seq(Seq(LweOf(params))),
               Len(cts) = Len(idxs),
               op = "query" => Len(idxs) = 1, op = "batch" => Len(idxs) * N3 <= N2
        PROVE  ReqTyped(Sends(op, idxs, cts), params, rows # 0, stage = "serving")
    BY <1>1, <1>4 DEF ReqTyped, Idle
  <1> HIDE DEF Refused, Sends
  <1>5. CASE Query(r)
    <2>1. PICK index \in Index(r, D * rows * cols) :
            LET cts == BuildCompressedQuery(index, rows, cols, D, params.base_1, params.base_2)
            IN  req' = [req EXCEPT ![r] =
                  IF index >= D * rows * cols THEN [Idle EXCEPT !.at = "refused", !.idxs = <<index>>]
                  ELSE [Idle EXCEPT !.at = "sent", !.op = "query", !.idxs = <<index>>, !.msg = <<cts>>]]
      BY <1>5 DEF Query
    <2> DEFINE cts == BuildCompressedQuery(index, rows, cols, D, params.base_1, params.base_2)
    <2>2. req' = [req EXCEPT ![r] = Refused(<<index>>)]
            \/ req' = [req EXCEPT ![r] = Sends("query", <<index>>, <<cts>>)]
      BY <2>1, Zenon DEF Refused, Sends
    <2>3. <<index>> \in Seq(Nat) /\ Len(<<index>>) = 1
      <3>1. \A i, j \in Dims \ {0}, s \in Request : Index(s, D * i * j) \subseteq Nat
        BY RequestAssumption
      <3>2. index \in Nat
        BY <1>1, <3>1
      <3>3. QED BY <3>2
    <2>4. cts \in Seq(LweOf(params))
      BY <1>1, <1>2, QueryTyped
    <2> HIDE DEF cts
    <2>5. <<cts>> \in Seq(Seq(LweOf(params))) /\ Len(<<cts>>) = 1
      BY <2>4
    <2>6. /\ ReqTyped(Refused(<<index>>), params, rows # 0, stage = "serving")
          /\ ReqTyped(Sends("query", <<index>>, <<cts>>), params, rows # 0, stage = "serving")
      BY <1>3, <1>4, <2>3, <2>5
    <2>7. PICK q : /\ ReqTyped(q, params, rows # 0, stage = "serving")
                   /\ req' = [req EXCEPT ![r] = q]
      BY <2>2, <2>6, Zenon
    <2>8. req'[r] = q /\ \A s \in Request \ {r} : req'[s] = req[s]
      BY <2>7, Asks
    <2>9. ReqTyped(req'[r], params, rows # 0, stage = "serving")
      BY <2>7, <2>8
    <2>10. QED BY <1>1, <2>8, <2>9, TypedAfter
  <1>6. CASE BatchQuery(r)
    <2>1. PICK idxs \in Batches(r, D3 * rows * cols) :
            LET n == Len(idxs)
                bad == {t \in 1..n : idxs[t] >= D3 * rows * cols}
                cts == [t \in 1..n |->
                         BuildCompressedQuery(idxs[t], rows, cols, D3, params.base_1, params.base_2)]
            IN  req' = [req EXCEPT ![r] =
                  IF bad # {} THEN [Idle EXCEPT !.at = "refused", !.idxs = idxs]
                  ELSE [Idle EXCEPT !.at = "sent", !.op = "batch", !.idxs = idxs, !.msg = cts]]
      BY <1>6 DEF BatchQuery
    <2> DEFINE n == Len(idxs)
               bad == {t \in 1..n : idxs[t] >= D3 * rows * cols}
               sent(t) == BuildCompressedQuery(idxs[t], rows, cols, D3, params.base_1, params.base_2)
               cts == [t \in 1..n |-> sent(t)]
    <2>2. req' = [req EXCEPT ![r] = IF bad # {} THEN Refused(idxs) ELSE Sends("batch", idxs, cts)]
      BY <2>1, Zenon DEF Refused, Sends
    <2>3. idxs \in Seq(Nat) /\ n \in Nat /\ n * N3 <= N2
      <3>1. \A i, j \in Dims \ {0}, s \in Request : \A x \in Batches(s, D3 * i * j) :
              x \in Seq(Nat) /\ Len(x) * N3 <= N2
        BY RequestAssumption
      <3>2. idxs \in Seq(Nat) /\ Len(idxs) * N3 <= N2
        BY <1>1, <3>1, Zenon
      <3>3. QED BY <3>2
    <2>4. ASSUME NEW t \in 1..n PROVE sent(t) \in Seq(LweOf(params))
      BY <1>1, <1>2, QueryTyped
    <2> HIDE DEF sent, bad, n
    <2>5. cts \in Seq(Seq(LweOf(params))) /\ Len(cts) = n
      BY <2>3, <2>4
    <2> HIDE DEF cts
    <2>6. /\ ReqTyped(Refused(idxs), params, rows # 0, stage = "serving")
          /\ ReqTyped(Sends("batch", idxs, cts), params, rows # 0, stage = "serving")
      BY <1>3, <1>4, <2>3, <2>5 DEF n
    <2>7. PICK q : /\ ReqTyped(q, params, rows # 0, stage = "serving")
                   /\ req' = [req EXCEPT ![r] = q]
      <3>1. ReqTyped(IF bad # {} THEN Refused(idxs) ELSE Sends("batch", idxs, cts),
                     params, rows # 0, stage = "serving")
        BY <2>6
      <3>2. QED BY <2>2, <3>1, Zenon
    <2>8. req'[r] = q /\ \A s \in Request \ {r} : req'[s] = req[s]
      BY <2>7, Asks
    <2>9. ReqTyped(req'[r], params, rows # 0, stage = "serving")
      BY <2>7, <2>8
    <2>10. QED BY <1>1, <2>8, <2>9, TypedAfter
  <1>7. QED BY <1>5, <1>6

\* A handler that fails hands nothing over.
LEMMA FailsEmpty ==
  ASSUME NEW q, NEW p, NEW i, NEW j, NEW cells, NEW n
  PROVE  LET answer == AnswerThroughCrot(q, p, i, j, cells, n)
         IN  answer.err = "" \/ answer.ct = Garbage
  <1>1. \A ct : Ok(ct).err = ""
    BY DEF Ok
  <1>2. \A e : Err(e).ct = Garbage
    BY DEF Err
  <1>3. \/ \E ct : AnswerThroughCrot(q, p, i, j, cells, n) = Ok(ct)
        \/ \E e : AnswerThroughCrot(q, p, i, j, cells, n) = Err(e)
    BY Zenon DEF AnswerThroughCrot
  <1>4. QED BY <1>1, <1>2, <1>3, Zenon

\* The server's handlers: what answers a request is a polynomial, by
\* AnswerServes and BatchServes, and a failure is empty.
LEMMA ReplyTyped ==
  ASSUME SetupInv, StageInv, SentInv, PirInv, TypeInv, NEW r \in Request,
         Answer(r) \/ \E T \in BatchSizes : AnswerBatched(r, T)
  PROVE  TypeInv'
  <1>1. PICK result :
          /\ Reply(r, result)
          /\ result.err = "" \/ result.ct = Garbage
    <2>1. CASE Answer(r)
      <3> DEFINE prefix == AnswerThroughCrot(req[r].msg[1], params, rows, cols, db, N2)
                 result == AnswerOneQuery(req[r].msg[1], params, rows, cols, db)
      <3>1. Reply(r, result)
        BY <2>1 DEF Answer
      <3>2. result = IF prefix.err # "" THEN prefix ELSE Ok(RespComp(prefix.ct))
        BY Zenon DEF AnswerOneQuery
      <3>3. prefix.err = "" \/ prefix.ct = Garbage
        BY FailsEmpty
      <3> HIDE DEF prefix, result
      <3>4. result.err = "" \/ result.ct = Garbage
        BY <3>2, <3>3 DEF Ok
      <3>5. QED BY <3>1, <3>4
    <2>2. ASSUME NEW T \in BatchSizes, AnswerBatched(r, T)
          PROVE  \E result : Reply(r, result) /\ (result.err = "" \/ result.ct = Garbage)
      <3> DEFINE queries == req[r].msg
                 prefix == [t \in DOMAIN queries |->
                             AnswerThroughCrot(queries[t], params, rows, cols, db, nrec)]
                 failed == {t \in DOMAIN queries : prefix[t].err # ""}
                 first == CHOOSE t \in failed : \A u \in failed : t <= u
                 result == AnswerBatch(queries, T, params, rows, cols, db, nrec)
      <3>1. Reply(r, result)
        BY <2>2 DEF AnswerBatched
      <3>2. result = IF Len(queries) # T THEN Err("DimMismatch")
                     ELSE IF failed # {} THEN prefix[first]
                     ELSE Ok(RespComp(Repack([t \in DOMAIN queries |-> prefix[t].ct], T)))
        BY Zenon DEF AnswerBatch
      <3>3. failed # {} => first \in DOMAIN queries
        <4>1. stage = "serving" /\ req[r].at = "sent"
          BY <2>2 DEF AnswerBatched
        <4>2. PICK n, S : n \in Nat \ {0} /\ queries \in [1..n -> S]
          BY <4>1, Waiting
        <4>3. DOMAIN queries \subseteq Nat
          BY <4>2
        <4> HIDE DEF queries, prefix
        <4>4. failed \subseteq DOMAIN queries
          OBVIOUS
        <4> HIDE DEF failed
        <4>5. failed # {} => \E t \in failed : \A u \in failed : t <= u
          BY <4>3, <4>4, LeastElement
        <4>6. QED BY <4>4, <4>5
      <3>4. ASSUME NEW t \in DOMAIN queries PROVE prefix[t].err = "" \/ prefix[t].ct = Garbage
        <4>1. prefix[t] = AnswerThroughCrot(queries[t], params, rows, cols, db, nrec)
          OBVIOUS
        <4> DEFINE answer == AnswerThroughCrot(queries[t], params, rows, cols, db, nrec)
        <4>2. answer.err = "" \/ answer.ct = Garbage
          BY FailsEmpty
        <4> HIDE DEF prefix, queries, answer
        <4>3. prefix[t] = answer
          BY <4>1 DEF answer
        <4>4. QED BY <4>2, <4>3
      <3> HIDE DEF queries, prefix, failed, first, result
      <3>5. result.err = "" \/ result.ct = Garbage
        BY <3>2, <3>3, <3>4 DEF Err, Ok
      <3>6. QED BY <3>1, <3>5
    <2>3. QED BY <2>1, <2>2
  <1> DEFINE q == req[r]
             at == IF result.err = "" THEN "answered" ELSE "failed"
             reply == result.ct
  <1>2. /\ req'[r].at = at /\ req'[r].reply = reply
        /\ \A s \in Request \ {r} : req'[s] = req[s]
    BY <1>1, Replied
  <1>3. req'[r] = [q EXCEPT !.at = at, !.reply = reply]
    <2>1. req' = [req EXCEPT ![r].at = at, ![r].reply = reply]
      BY <1>1, Zenon DEF Reply
    <2> HIDE DEF at, reply
    <2>2. QED BY <2>1 DEF StageInv
  <1>4. /\ UNCHANGED <<stage, params, rows, cols, nrec, db, count>>
        /\ q.at = "sent" /\ stage = "serving"
    BY <1>1 DEF Reply, Answer, AnswerBatched
  <1>5. \/ at = "answered" /\ reply \in Poly(N2)
        \/ at = "failed" /\ reply = Garbage
    <2>1. CASE result.err = ""
      <3>1. req'[r].at = "answered"
        BY <1>2, <2>1
      <3>2. Serves(req'[r], rows, cols, nrec, Installed)
        BY <3>1, AnswerServes, BatchServes
      <3>3. QED BY <1>2, <2>1, <3>2 DEF Serves
    <2>2. CASE result.err # ""
      BY <1>1, <2>2
    <2>3. QED BY <2>1, <2>2
  <1>6. ReqTyped(q, params, rows # 0, stage = "serving")
    BY DEF TypeInv
  <1>7. DOMAIN q = DOMAIN Idle
    BY DEF SentInv, Whole
  <1> HIDE DEF q, at, reply
  <1>8. /\ req'[r].op = q.op /\ req'[r].idxs = q.idxs /\ req'[r].msg = q.msg /\ req'[r].got = q.got
    BY <1>3
  <1>9. ReqTyped(req'[r], params, rows # 0, stage = "serving")
    <2> DEFINE new == req'[r]
    <2>1. /\ new.op = q.op /\ new.idxs = q.idxs /\ new.msg = q.msg /\ new.got = q.got
          /\ new.at = at /\ new.reply = reply
      BY <1>2, <1>8
    <2> HIDE DEF new
    <2>2. ReqTyped(new, params, rows # 0, stage = "serving")
      BY <1>4, <1>5, <1>6, <2>1 DEF ReqTyped
    <2>3. QED BY <2>2 DEF new
  <1>10. QED BY <1>2, <1>4, <1>9, TypedAfter

\* The client's recoveries: one answer is handed over as it is, an answer to a
\* batch is cut into records.
LEMMA RecoverTyped ==
  ASSUME StageInv, SentInv, TypeInv, NEW r \in Request, Recover(r) \/ RecoverBatch(r)
  PROVE  TypeInv'
  <1> DEFINE q == req[r]
  <1>1. UNCHANGED <<stage, params, rows, cols, nrec, db, count>> /\ q.at = "answered"
    BY DEF Recover, RecoverBatch
  <1>2. ReqTyped(q, params, rows # 0, stage = "serving")
    BY DEF TypeInv
  <1>3. q.reply \in Poly(N2) /\ q.reply # Garbage /\ q.idxs \in Seq(Nat)
    <2>1. q.reply \in Poly(N2) /\ q.idxs \in Seq(Nat)
      BY <1>1, <1>2 DEF ReqTyped
    <2>2. QED BY <2>1, GarbageAssumption
  <1>4. PICK got : /\ req' = [req EXCEPT ![r].at = "done", ![r].got = got]
                   /\ \/ q.op = "query" /\ got = <<q.reply>>
                      \/ q.op = "batch" /\ got \in [1..Len(q.idxs) -> Poly(N3)]
    <2>1. CASE Recover(r)
      <3>1. q.op = "query" /\ req' = [req EXCEPT ![r].at = "done", ![r].got = <<q.reply>>]
        BY <2>1 DEF Recover
      <3>2. QED BY <3>1
    <2>2. CASE RecoverBatch(r)
      <3> DEFINE all == DeinterleaveBatch(q.reply, Len(q.idxs))
                 cut == IF q.reply = Garbage THEN <<Garbage>> ELSE all
      <3>1. q.op = "batch" /\ req' = [req EXCEPT ![r].at = "done", ![r].got = cut]
        BY <2>2, Zenon DEF RecoverBatch
      <3>2. cut = all
        BY <1>3
      <3>3. all \in [1..Len(q.idxs) -> Poly(N3)]
        <4>1. Len(q.idxs) * N3 <= N2
          BY <1>2, <3>1 DEF ReqTyped
        <4>2. Len(q.idxs) \in Nat
          BY <1>3
        <4>3. \A t \in 1..Len(q.idxs) : ProjectAt(q.reply, N2, N3, t - 1) \in Poly(N3)
          BY <1>3, <4>1, <4>2, RecordTyped
        <4>4. QED BY <4>3 DEF DeinterleaveBatch
      <3> HIDE DEF cut, all
      <3>4. QED BY <3>1, <3>2, <3>3
    <2>3. QED BY <2>1, <2>2
  <1>5. /\ req'[r] = [q EXCEPT !.at = "done", !.got = got]
        /\ \A s \in Request \ {r} : req'[s] = req[s]
    BY <1>4 DEF StageInv
  <1>6. DOMAIN q = DOMAIN Idle /\ "at" \in DOMAIN Idle /\ "got" \in DOMAIN Idle
    BY DEF SentInv, Whole, Idle
  <1> HIDE DEF q
  <1>7. ReqTyped(req'[r], params, rows # 0, stage = "serving")
    <2> DEFINE new == req'[r]
    <2>1. new.at = "done" /\ new.got = got
      BY <1>5, <1>6
    <2>2. new.op = q.op /\ new.idxs = q.idxs /\ new.msg = q.msg /\ new.reply = q.reply
      BY <1>5
    <2> HIDE DEF new
    <2>3. ReqTyped(new, params, rows # 0, stage = "serving")
      BY <1>1, <1>2, <1>4, <2>1, <2>2 DEF ReqTyped
    <2>4. QED BY <2>3 DEF new
  <1>8. QED BY <1>1, <1>5, <1>7, TypedAfter

LEMMA TypeInvNext == SetupInv /\ StageInv /\ SentInv /\ PirInv /\ TypeInv /\ [Next]_vars => TypeInv'
  <1> SUFFICES ASSUME SetupInv, StageInv, SentInv, PirInv, TypeInv, [Next]_vars PROVE TypeInv'
    OBVIOUS
  <1>1. CASE ParamsPanic \/ ClientSetup \/ ClientSetupRefused \/ ServerSetup \/ ServerSetupRefused
    BY <1>1, SetupTyped
  <1>2. ASSUME NEW r \in Request, Query(r) \/ BatchQuery(r) PROVE TypeInv'
    BY <1>2, ClientTyped
  <1>3. ASSUME NEW r \in Request, Answer(r) \/ \E T \in BatchSizes : AnswerBatched(r, T) PROVE TypeInv'
    BY <1>3, ReplyTyped
  <1>4. ASSUME NEW r \in Request, Recover(r) \/ RecoverBatch(r) PROVE TypeInv'
    BY <1>4, RecoverTyped
  <1>5. CASE UNCHANGED vars
    <2>1. UNCHANGED <<stage, params, rows, cols, nrec, db, count, req>>
      BY <1>5 DEF vars
    <2>2. \A r \in Request : ReqTyped(req[r], params, rows # 0, stage = "serving")
      BY DEF TypeInv
    <2>3. \A r \in Request : ReqTyped(req[r], params, rows # 0, stage = "serving")'
      BY <2>1, <2>2 DEF ReqTyped, LweOf
    <2>4. QED BY <2>1, <2>3 DEF TypeInv
  <1>6. QED BY <1>1, <1>2, <1>3, <1>4, <1>5 DEF Next

\* For every ring tower, shape and set of requests: nothing is sent without a
\* client, answered or turned down without a server, a request that is turned
\* down carries nothing back, and one that is answered a polynomial of the
\* answer ring, never garbage, out of which the caller gets a record per index:
\* TypeOK holds in every reachable state.  That the handlers' ciphertexts
\* decrypt is part of answering right: the invariant rests on PirInv.
THEOREM TypesHold == Spec => []TypeOK
  <1> DEFINE Inv == SetupInv /\ StageInv /\ SentInv /\ PirInv /\ TypeInv
  <1>1. Init => Inv
    BY SetupInvInit, StageInvInit, SentInvInit, PirInvInit, TypeInvInit
  <1>2. Inv /\ [Next]_vars => Inv'
    BY SetupInvNext, StageInvNext, SentInvNext, PirInvNext, TypeInvNext
  <1>3. Inv => TypeOK
    BY TypesKept
  <1> HIDE DEF Inv
  <1>4. QED BY <1>1, <1>2, <1>3, PTL DEF Spec
=============================================================================
