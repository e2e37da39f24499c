-------------------------- MODULE ConversionProofs --------------------------
(***************************************************************************)
(* What the conversions compute, for every degree N of the ring, secret,   *)
(* mask, message and repacking: the key material is built in its order and *)
(* read whole, and what a cascade, a repacking or the step to RGSW makes   *)
(* decrypts to what it was made from.                                      *)
(*                                                                         *)
(* The ring is that of RingProofs.  The proof goes on with the tower of    *)
(* degrees, the keys (KeyInv), what a ciphertext is decrypted by, one      *)
(* conversion, the bit-reversed order of a tree, extraction, and the       *)
(* levels (CtInv).                                                         *)
(***************************************************************************)
EXTENDS Conversion, RingProofs, SequenceTheorems

-----------------------------------------------------------------------------
(***************************************************************************)
(* The tower of degrees: the powers of two up to N.                        *)
(***************************************************************************)

\* Every entry of the table is positive and twice the one before.
LEMMA ShlDoubles ==
  /\ \A a \in 0..MaxBits : Shl[a] \in Nat \ {0}
  /\ \A a \in 0..(MaxBits - 1) : Shl[a + 1] = 2 * Shl[a]
  <1>1. \A a \in 0..MaxBits : Shl[a] \in Nat \ {0}
    BY ShlAssumption
  <1>2. ASSUME NEW a \in 0..(MaxBits - 1) PROVE Shl[a + 1] = 2 * Shl[a]
    <2>1. a \in 0..MaxBits /\ 1 \in 0..MaxBits /\ a + 1 <= MaxBits
      BY ShlAssumption
    <2>2. Shl[a + 1] = Shl[a] * Shl[1]
      BY <2>1, ShlAssumption
    <2>3. Shl[a] * 2 = 2 * Shl[a]
      BY <1>1, <2>1
    <2>4. QED BY <2>2, <2>3, ShlAssumption
  <1>3. QED BY <1>1, <1>2

\* Shl is increasing.
LEMMA ShlGrows ==
  ASSUME NEW a \in 0..MaxBits, NEW b \in 0..MaxBits, a < b
  PROVE  Shl[a] < Shl[b]
  <1> DEFINE c == b - a
             x == Shl[a]
             y == Shl[c - 1]
  <1>1. MaxBits \in Nat /\ c \in 1..MaxBits /\ c - 1 \in 0..MaxBits /\ 1 \in 0..MaxBits /\ a + c = b
    BY ShlAssumption
  <1>2. x \in Nat \ {0} /\ y \in Nat \ {0}
    BY <1>1, ShlAssumption
  <1>3. Shl[c] = 2 * y
    <2>1. 1 + (c - 1) = c /\ c <= MaxBits
      BY <1>1
    <2>2. Shl[1 + (c - 1)] = Shl[1] * Shl[c - 1]
      BY <1>1, <2>1, ShlAssumption
    <2>3. QED BY <2>1, <2>2, ShlAssumption
  <1>4. Shl[b] = x * Shl[c]
    <2>1. a + c <= MaxBits /\ c \in 0..MaxBits
      BY <1>1
    <2>2. Shl[a + c] = Shl[a] * Shl[c]
      BY <2>1, ShlAssumption
    <2>3. QED BY <1>1, <2>2
  <1> HIDE DEF x, y, c
  <1>5. x < x * (2 * y)
    BY <1>2, Z3
  <1>6. QED BY <1>3, <1>4, <1>5 DEF x

Degrees == {n \in {Shl[k] : k \in 0..MaxBits} : n <= N}

\* They are the first powers of two, N the last.
LEMMA DegreePowers ==
  \E K \in 1..MaxBits : N = Shl[K] /\ \A j \in 0..MaxBits : Shl[j] <= N <=> j <= K
  <1>1. PICK K \in 1..MaxBits : N = Shl[K]
    BY StepKeysAssumption
  <1>2. ASSUME NEW j \in 0..MaxBits PROVE Shl[j] <= N <=> j <= K
    <2>0. MaxBits \in Nat
      BY ShlAssumption
    <2>1. K \in 0..MaxBits /\ Shl[j] \in Nat /\ Shl[K] \in Nat /\ MaxBits \in Nat
      BY <2>0, ShlDoubles
    <2>2. CASE j < K
      <3>1. Shl[j] < Shl[K]
        BY <2>1, <2>2, ShlGrows
      <3>2. QED BY <1>1, <2>1, <2>2, <3>1
    <2>3. CASE j = K
      BY <1>1, <2>1, <2>3
    <2>4. CASE K < j
      <3>1. Shl[K] < Shl[j]
        BY <2>1, <2>4, ShlGrows
      <3>2. QED BY <1>1, <2>1, <2>4, <3>1
    <2>5. QED BY <2>1, <2>2, <2>3, <2>4
  <1>3. QED BY <1>1, <1>2

\* A power of two up to N divides N.
LEMMA RankPower ==
  ASSUME NEW K \in 1..MaxBits, N = Shl[K], NEW j \in 0..K
  PROVE  /\ Rank(Shl[j]) = Shl[K - j] /\ Shl[j] \in Nat \ {0} /\ Shl[K - j] \in Nat \ {0}
         /\ N = Shl[K - j] * Shl[j]
  <1>1. MaxBits \in Nat /\ j \in 0..MaxBits /\ K - j \in 0..MaxBits /\ (K - j) + j = K /\ K <= MaxBits
    BY ShlAssumption
  <1>2. Shl[(K - j) + j] = Shl[K - j] * Shl[j]
    BY <1>1, ShlAssumption
  <1>3. Shl[j] \in Nat \ {0} /\ Shl[K - j] \in Nat \ {0}
    BY <1>1, ShlDoubles
  <1> DEFINE a == Shl[j]
             b == Shl[K - j]
  <1> HIDE DEF a, b
  <1>4. a \in Nat \ {0} /\ b \in Nat \ {0} /\ N = b * a
    BY <1>1, <1>2, <1>3 DEF a, b
  <1>5. N = a * b + 0 /\ 0 \in 0..(a - 1) /\ N \in Nat
    BY <1>4, Z3
  <1>6. N \div a = b
    BY <1>4, <1>5, DivModUnique
  <1>7. QED BY <1>3, <1>4, <1>6 DEF a, b, Rank

\* A degree, the number of masks that goes with it, and its neighbours.
LEMMA Degree ==
  ASSUME NEW n \in Degrees
  PROVE  /\ n \in Nat \ {0} /\ Rank(n) \in Nat \ {0} /\ N = Rank(n) * n /\ n <= N /\ N \in Nat \ {0}
         /\ n # N => 2 * n \in Degrees /\ Rank(n) = 2 * Rank(2 * n) /\ (2 * n) \div 2 = n
         /\ n # 1 => n \div 2 \in Degrees /\ n = 2 * (n \div 2)
         /\ n = N => Rank(n) = 1
  <1>1. PICK K \in 1..MaxBits : N = Shl[K] /\ \A j \in 0..MaxBits : Shl[j] <= N <=> j <= K
    BY DegreePowers
  <1>2. PICK j \in 0..MaxBits : n = Shl[j] /\ n <= N
    BY DEF Degrees
  <1>3. j \in 0..K /\ MaxBits \in Nat /\ K \in 0..MaxBits
    BY <1>1, <1>2, ShlAssumption
  <1>4. /\ Rank(n) = Shl[K - j] /\ n \in Nat \ {0} /\ Shl[K - j] \in Nat \ {0}
        /\ N = Shl[K - j] * n
    BY <1>1, <1>2, <1>3, RankPower
  <1>5. N \in Nat \ {0}
    BY <1>1, <1>3, ShlDoubles
  <1>6. ASSUME n # N PROVE 2 * n \in Degrees /\ Rank(n) = 2 * Rank(2 * n) /\ (2 * n) \div 2 = n
    <2>1. j # K
      BY <1>1, <1>2, <1>6
    <2>2. j \in 0..(MaxBits - 1) /\ j + 1 \in 0..K /\ j + 1 \in 0..MaxBits /\ j + 1 <= K
      BY <1>3, <2>1
    <2>3. Shl[j + 1] = 2 * n
      BY <1>2, <2>2, ShlDoubles
    <2>4. Rank(2 * n) = Shl[K - (j + 1)]
      BY <1>1, <2>2, <2>3, RankPower
    <2>5. 2 * n \in Degrees
      BY <1>1, <2>2, <2>3 DEF Degrees
    <2>6. K - (j + 1) \in 0..(MaxBits - 1) /\ (K - (j + 1)) + 1 = K - j
      BY <1>3, <2>2
    <2>7. Shl[K - j] = 2 * Shl[K - (j + 1)]
      BY <2>6, ShlDoubles
    <2>8. (2 * n) \div 2 = n
      BY <1>4
    <2>9. QED BY <1>4, <2>4, <2>5, <2>7, <2>8
  <1>7. ASSUME n # 1 PROVE n \div 2 \in Degrees /\ n = 2 * (n \div 2)
    <2>1. j # 0
      BY <1>2, <1>7, ShlAssumption
    <2>2. j - 1 \in 0..(MaxBits - 1) /\ (j - 1) + 1 = j /\ j - 1 \in 0..MaxBits /\ j - 1 <= K
      BY <1>3, <2>1
    <2>3. n = 2 * Shl[j - 1] /\ Shl[j - 1] \in Nat
      BY <1>2, <2>2, ShlDoubles
    <2>4. n \div 2 = Shl[j - 1]
      BY <2>3
    <2>5. QED BY <1>1, <2>2, <2>3, <2>4 DEF Degrees
  <1>8. ASSUME n = N PROVE Rank(n) = 1
    <2>1. N \div N = 1
      BY <1>5
    <2>2. QED BY <1>8, <2>1 DEF Rank
  <1>9. QED BY <1>2, <1>4, <1>5, <1>6, <1>7, <1>8

\* The degrees at both ends of the tower.
LEMMA DegreeEnds == 1 \in Degrees /\ N \in Degrees /\ 1 # N /\ 2 \in Degrees /\ N \in Nat \ {0}
  <1>1. PICK K \in 1..MaxBits : N = Shl[K] /\ \A j \in 0..MaxBits : Shl[j] <= N <=> j <= K
    BY DegreePowers
  <1>2. MaxBits \in Nat /\ 0 \in 0..MaxBits /\ 1 \in 0..MaxBits /\ K \in 0..MaxBits /\ 0 <= K /\ 1 <= K
    BY ShlAssumption
  <1>3. Shl[0] = 1 /\ Shl[1] = 2 /\ Shl[0] < Shl[K] /\ N \in Nat
    BY <1>1, <1>2, ShlGrows, ShlAssumption, ShlDoubles
  <1>4. 1 \in Degrees /\ 2 \in Degrees /\ N \in Degrees
    BY <1>1, <1>2, <1>3 DEF Degrees
  <1>5. QED BY <1>1, <1>3, <1>4

\* Degrees apart are apart by a factor of two.
LEMMA DegreesApart ==
  ASSUME NEW m \in Degrees, NEW n \in Degrees, m < n
  PROVE  2 * m <= n
  <1>1. PICK i \in 0..MaxBits : m = Shl[i]
    BY DEF Degrees
  <1>2. PICK j \in 0..MaxBits : n = Shl[j]
    BY DEF Degrees
  <1>3. MaxBits \in Nat /\ Shl[i] \in Nat /\ Shl[j] \in Nat
    BY ShlAssumption, ShlDoubles
  <1>4. i < j
    <2>1. CASE j < i
      <3>1. Shl[j] < Shl[i]
        BY <2>1, ShlGrows
      <3>2. QED BY <1>1, <1>2, <1>3, <3>1
    <2>2. CASE i = j
      BY <1>1, <1>2, <1>3, <2>2
    <2>3. QED BY <1>3, <2>1, <2>2
  <1>5. i \in 0..(MaxBits - 1) /\ i + 1 \in 0..MaxBits
    BY <1>3, <1>4
  <1>6. Shl[i + 1] = 2 * m
    BY <1>1, <1>5, ShlDoubles
  <1>7. CASE i + 1 = j
    BY <1>2, <1>3, <1>6, <1>7
  <1>8. CASE i + 1 < j
    <2>1. Shl[i + 1] < Shl[j]
      BY <1>5, <1>8, ShlGrows
    <2>2. QED BY <1>1, <1>2, <1>3, <1>6, <2>1
  <1>9. QED BY <1>3, <1>4, <1>7, <1>8

\* Fields(g), by degrees.
LEMMA FieldsAre ==
  ASSUME NEW g \in Degrees
  PROVE  /\ Fields(g) \subseteq Degrees
         /\ \A n \in Degrees : n \in Fields(g) <=> g < n
         /\ \A n \in Fields(g) : /\ n \div 2 \in Degrees /\ n = 2 * (n \div 2) /\ g <= n \div 2
                                 /\ n \div 2 = g \/ n \div 2 \in Fields(g)
  <1>1. Fields(g) \subseteq Degrees
    BY DEF Fields, Degrees
  <1>2. g \in Nat \ {0}
    BY Degree
  <1>3. ASSUME NEW n \in Degrees PROVE n \in Fields(g) <=> g < n
    <2>1. n \in Nat \ {0}
      BY Degree
    <2>2. n \in Fields(g) <=> 2 * g <= n
      BY DEF Fields, Degrees
    <2>3. g < n => 2 * g <= n
      BY DegreesApart
    <2>4. QED BY <1>2, <2>1, <2>2, <2>3
  <1>4. ASSUME NEW n \in Fields(g)
        PROVE  /\ n \div 2 \in Degrees /\ n = 2 * (n \div 2) /\ g <= n \div 2
               /\ n \div 2 = g \/ n \div 2 \in Fields(g)
    <2>1. n \in Degrees /\ g < n /\ n \in Nat
      BY <1>1, <1>3, Degree
    <2>2. n # 1
      BY <1>2, <2>1
    <2>3. n \div 2 \in Degrees /\ n = 2 * (n \div 2) /\ n \div 2 \in Nat
      BY <2>1, <2>2, Degree
    <2>4. 2 * g <= n
      BY <2>1, DegreesApart
    <2>5. g <= n \div 2
      BY <1>2, <2>3, <2>4
    <2>6. n \div 2 = g \/ g < n \div 2
      BY <1>2, <2>3, <2>5
    <2>7. QED BY <1>3, <2>3, <2>5, <2>6
  <1>5. QED BY <1>1, <1>3, <1>4

-----------------------------------------------------------------------------
(***************************************************************************)
(* The keys: what the builders write, and where it draws from.             *)
(***************************************************************************)

\* Preceding, solved: the masks of the degrees passed, each field with half
\* the step keys of the one before.
Draws(g, n) == 2 * (Rank(g) - Rank(n \div 2))

\* Step keys before the field of degree n, in closed form.
LEMMA PrecedingIs ==
  ASSUME NEW g \in Degrees, NEW n \in Fields(g)
  PROVE  Preceding(g, n) = Draws(g, n) /\ Draws(g, n) \in Nat
  <1> DEFINE D == {g} \cup Fields(g)
             Solves(f) == f = [m \in D |-> IF m = g THEN 0 ELSE f[m \div 2] + Rank(m \div 2)]
             h == [m \in D |-> 2 * (Rank(g) - Rank(m))]
             f0 == CHOOSE f : Solves(f)
  <1>1. /\ D \subseteq Degrees /\ g \in D /\ n \div 2 \in D
        /\ \A m \in D : m \in Nat /\ Rank(m) \in Nat /\ Rank(m) <= Rank(g) /\ m # 0
    <2>1. D \subseteq Degrees /\ g \in D /\ n \div 2 \in D
      BY FieldsAre
    <2>2. ASSUME NEW m \in D PROVE m \in Nat /\ Rank(m) \in Nat /\ Rank(m) <= Rank(g) /\ m # 0
      <3>1. m \in Degrees /\ (m = g \/ g < m)
        BY <2>1, FieldsAre
      <3>2. m \in Nat \ {0} /\ Rank(m) \in Nat /\ N = Rank(m) * m /\ g \in Nat \ {0} /\ Rank(g) \in Nat
            /\ N = Rank(g) * g /\ N \in Nat \ {0}
        BY <3>1, Degree
      <3> DEFINE a == Rank(m)
                 b == Rank(g)
      <3> HIDE DEF a, b
      <3>3. m \in Nat \ {0} /\ a \in Nat /\ N = a * m /\ g \in Nat \ {0} /\ b \in Nat /\ N = b * g
            /\ g <= m /\ N \in Nat \ {0}
        BY <3>1, <3>2 DEF a, b
      <3>4. ASSUME b < a PROVE FALSE
        <4>1. (b + 1) * g <= a * g
          BY <3>3, <3>4, Z3
        <4>2. a * g <= a * m
          BY <3>3, Z3
        <4>3. (b + 1) * g = b * g + g
          BY <3>3, Z3
        <4>4. b * g \in Nat /\ a * g \in Nat
          BY <3>3, NatProduct
        <4>5. QED BY <3>3, <4>1, <4>2, <4>3, <4>4
      <3>5. QED BY <3>2, <3>3, <3>4 DEF a, b
    <2>3. QED BY <2>1, <2>2
  <1>2. ASSUME NEW m \in D, m # g
        PROVE  m \div 2 \in D /\ m \div 2 < m /\ Rank(m \div 2) = 2 * Rank(m)
    <2>1. m \in Fields(g)
      BY <1>2
    <2>2. m \div 2 \in D /\ m = 2 * (m \div 2) /\ m \div 2 \in Degrees
      BY <2>1, FieldsAre
    <2>3. m \in Nat \ {0} /\ m \div 2 \in Nat /\ m <= N
      BY <1>1, <2>2, Degree
    <2>4. m \div 2 < m /\ m \div 2 # N
      <3> DEFINE v == m \div 2
      <3> HIDE DEF v
      <3>1. m = 2 * v /\ v \in Nat /\ m \in Nat \ {0} /\ m <= N /\ N \in Nat
        BY <2>2, <2>3, DegreeEnds DEF v
      <3>2. v < m /\ v # N
        BY <3>1
      <3>3. QED BY <3>2 DEF v
    <2>5. Rank(m \div 2) = 2 * Rank(2 * (m \div 2))
      BY <2>2, <2>4, Degree
    <2>6. QED BY <2>2, <2>4, <2>5
  <1>3. Solves(h)
    <2>1. ASSUME NEW m \in D
          PROVE  2 * (Rank(g) - Rank(m)) = IF m = g THEN 0 ELSE h[m \div 2] + Rank(m \div 2)
      <3>1. CASE m = g
        BY <1>1, <3>1
      <3>2. CASE m # g
        <4>1. m \div 2 \in D /\ Rank(m \div 2) = 2 * Rank(m)
          BY <1>2, <3>2
        <4>2. h[m \div 2] = 2 * (Rank(g) - 2 * Rank(m))
          BY <4>1
        <4>3. Rank(g) \in Nat /\ Rank(m) \in Nat
          BY <1>1
        <4>4. QED BY <3>2, <4>1, <4>2, <4>3
      <3>3. QED BY <3>1, <3>2
    <2>2. QED BY <2>1, Zenon
  <1>4. Solves(f0)
    BY <1>3, Zenon
  <1> HIDE DEF f0
  <1>5. \A m \in D : f0[m] = IF m = g THEN 0 ELSE f0[m \div 2] + Rank(m \div 2)
    BY <1>4, Zenon
  <1>6. \A m \in D : h[m] = 2 * (Rank(g) - Rank(m))
    BY Zenon
  <1>7. \A m \in D : h[m] = IF m = g THEN 0 ELSE h[m \div 2] + Rank(m \div 2)
    BY <1>3, Zenon
  <1> DEFINE Differ == {m \in D : f0[m] # h[m]}
  <1>8. Differ = {}
    <2>1. SUFFICES ASSUME Differ # {} PROVE FALSE
      OBVIOUS
    <2>2. Differ \subseteq Nat
      BY <1>1
    <2> HIDE DEF D, h
    <2>3. PICK t \in Differ : \A u \in Differ : t <= u
      BY <2>1, <2>2, LeastElement
    <2>4. t \in D /\ t # g
      BY <1>5, <1>7, <2>3
    <2>5. t \div 2 \in D /\ t \div 2 < t /\ t \in Nat /\ t \div 2 \in Nat
      BY <1>1, <1>2, <2>4
    <2>6. t \div 2 \notin Differ
      BY <2>3, <2>5
    <2>7. f0[t \div 2] = h[t \div 2]
      BY <2>5, <2>6
    <2>8. f0[t] = h[t]
      BY <1>5, <1>7, <2>4, <2>7
    <2>9. QED BY <2>3, <2>8
  <1>9. f0[n \div 2] = 2 * (Rank(g) - Rank(n \div 2))
    BY <1>1, <1>6, <1>8
  <1>10. Preceding(g, n) = f0[n \div 2]
    BY Zenon DEF Preceding, f0
  <1>11. 2 * (Rank(g) - Rank(n \div 2)) \in Nat
    BY <1>1
  <1>12. QED BY <1>9, <1>10, <1>11 DEF Draws

\* A step key of the secret k, with the position its index stands for.
Made(k, n, i, at) ==
  [source |-> EmbedAt(ProjectAt(k, N, n \div 2, i), n \div 2, n, 0),
   target |-> ProjectAt(k, N, n, i % Rank(n)), at |-> at]

\* gen_conv_step_key_element in closed form.
LEMMA StepKeyIs ==
  ASSUME NEW n \in Degrees, NEW i \in Nat, NEW at
  PROVE  StepKey(n, i, at) = Made(s, n, i, at)
  <1>1. Rank(n) \in Nat \ {0}
    BY Degree
  <1> DEFINE m == Rank(n)
  <1> HIDE DEF m
  <1>2. m \in Nat \ {0}
    BY <1>1 DEF m
  <1>3. m * (i \div m) + (i % m) = i
    BY <1>2, DivMod
  <1>4. QED BY <1>3 DEF StepKey, Made, Key, m

\* The step key of slot i of the field of degree n, of a key whose fields
\* start after degree g, generated from draw p on.
Entry(k, g, p, n, i) == Made(k, n, i, p + Draws(g, n) + i)

Full(k, g, p) ==
  [n \in Fields(1) |-> [i \in Slots(n) |-> IF n \in Fields(g) THEN Entry(k, g, p, n, i) ELSE Unwritten]]

\* The same key, up to slot t of the field of degree f.
Part(k, g, p, f, t) ==
  [n \in Fields(1) |-> [i \in Slots(n) |->
     IF n \in Fields(g) /\ (n < f \/ (n = f /\ i < t)) THEN Entry(k, g, p, n, i) ELSE Unwritten]]

\* What the builders rely on at a field of a key that starts after degree g.
LEMMA FieldFacts ==
  ASSUME NEW g \in Degrees, NEW f \in Fields(g)
  PROVE  /\ f \in Fields(1) /\ f \in Degrees /\ f \in Nat \ {0} /\ f <= N /\ 0 \in Slots(f)
         /\ Rank(f \div 2) \in Nat \ {0} /\ Rank(f) \in Nat \ {0} /\ Rank(f \div 2) = 2 * Rank(f)
         /\ \A t \in Slots(f) : t \in Nat /\ (t + 1 \in Slots(f) \/ t + 1 = Rank(f \div 2))
         /\ 2 * f \in Fields(g) \/ 2 * f = 2 * N
         /\ (2 * f) \div 2 = f /\ N \in Nat
  <1>1. f \in Degrees /\ g < f /\ g \in Nat \ {0} /\ f \div 2 \in Degrees /\ f = 2 * (f \div 2)
    BY FieldsAre, Degree
  <1>2. f \in Nat \ {0} /\ f <= N /\ Rank(f) \in Nat \ {0} /\ Rank(f \div 2) \in Nat \ {0} /\ N \in Nat
        /\ f \div 2 \in Nat \ {0}
    BY <1>1, Degree
  <1>3. 1 \in Degrees /\ 1 < f
    BY <1>1, <1>2, DegreeEnds
  <1>4. f \in Fields(1)
    BY <1>1, <1>3, FieldsAre
  <1>5. Rank(f \div 2) = 2 * Rank(f)
    <2> DEFINE v == f \div 2
    <2> HIDE DEF v
    <2>1. f = 2 * v /\ v \in Nat \ {0} /\ f <= N /\ N \in Nat /\ v \in Degrees
      BY <1>1, <1>2 DEF v
    <2>2. v # N
      BY <2>1
    <2>3. Rank(v) = 2 * Rank(2 * v)
      BY <2>1, <2>2, Degree
    <2>4. QED BY <2>1, <2>3 DEF v
  <1>6. \A t \in Slots(f) : t \in Nat /\ (t + 1 \in Slots(f) \/ t + 1 = Rank(f \div 2))
    BY <1>2 DEF Slots
  <1>7. 0 \in Slots(f)
    BY <1>2 DEF Slots
  <1>8. ASSUME f # N PROVE 2 * f \in Fields(g)
    <2>1. 2 * f \in Degrees
      BY <1>1, <1>8, Degree
    <2>2. g < 2 * f
      BY <1>1, <1>2
    <2>3. QED BY <2>1, <2>2, FieldsAre
  <1>9. (2 * f) \div 2 = f
    BY <1>2
  <1>10. QED BY <1>1, <1>2, <1>4, <1>5, <1>6, <1>7, <1>8, <1>9

\* Nothing is written at the first slot of the first field;
LEMMA PartStart ==
  ASSUME NEW k, NEW g \in Degrees, NEW p
  PROVE  Part(k, g, p, 2 * g, 0) = NoKey
  <1>1. ASSUME NEW n \in Fields(1), NEW i \in Slots(n), n \in Fields(g), n < 2 * g \/ (n = 2 * g /\ i < 0)
        PROVE  FALSE
    <2>1. 2 * g <= n
      BY <1>1 DEF Fields
    <2>2. n \in Nat /\ g \in Nat /\ i \in Nat
      BY <1>1, FieldFacts, Degree
    <2>3. QED BY <1>1, <2>1, <2>2
  <1>2. QED BY <1>1, Zenon DEF Part, NoKey

\* one more slot is written;
LEMMA PartSlot ==
  ASSUME NEW k, NEW g \in Degrees, NEW p, NEW f \in Fields(g), NEW t \in Slots(f)
  PROVE  [Part(k, g, p, f, t) EXCEPT ![f][t] = Entry(k, g, p, f, t)] = Part(k, g, p, f, t + 1)
  <1> DEFINE A == Part(k, g, p, f, t)
             B == [A EXCEPT ![f][t] = Entry(k, g, p, f, t)]
             C == Part(k, g, p, f, t + 1)
             Is(n, i) == IF n \in Fields(g) /\ (n < f \/ (n = f /\ i < t)) THEN Entry(k, g, p, n, i) ELSE Unwritten
             Will(n, i) == IF n \in Fields(g) /\ (n < f \/ (n = f /\ i < t + 1)) THEN Entry(k, g, p, n, i) ELSE Unwritten
  <1>1. f \in Fields(1) /\ f \in Nat /\ t \in Nat
    BY FieldFacts
  <1>2. A = [n \in Fields(1) |-> [i \in Slots(n) |-> Is(n, i)]]
        /\ C = [n \in Fields(1) |-> [i \in Slots(n) |-> Will(n, i)]]
    BY Zenon DEF Part
  <1>3. B = [n \in Fields(1) |-> IF n = f THEN [A[f] EXCEPT ![t] = Entry(k, g, p, f, t)] ELSE A[n]]
    BY <1>1, <1>2, Zenon
  <1>4. ASSUME NEW n \in Fields(1), n # f PROVE A[n] = [i \in Slots(n) |-> Will(n, i)]
    <2>1. A[n] = [i \in Slots(n) |-> Is(n, i)]
      BY <1>2, Zenon
    <2>2. \A i \in Slots(n) : Is(n, i) = Will(n, i)
      BY <1>4, Zenon
    <2> HIDE DEF Is, Will, A
    <2>3. QED BY <2>1, <2>2, Zenon
  <1>5. [A[f] EXCEPT ![t] = Entry(k, g, p, f, t)] = [i \in Slots(f) |-> Will(f, i)]
    <2>1. A[f] = [i \in Slots(f) |-> Is(f, i)]
      BY <1>1, <1>2, Zenon
    <2>2. [A[f] EXCEPT ![t] = Entry(k, g, p, f, t)]
            = [i \in Slots(f) |-> IF i = t THEN Entry(k, g, p, f, t) ELSE Is(f, i)]
      BY <2>1, Zenon
    <2>3. ASSUME NEW i \in Slots(f) PROVE (IF i = t THEN Entry(k, g, p, f, t) ELSE Is(f, i)) = Will(f, i)
      <3>1. i \in Nat /\ (i < t + 1 <=> i < t \/ i = t)
        BY <1>1, FieldFacts
      <3>2. ~(f < f)
        BY <1>1
      <3>3. QED BY <3>1, <3>2
    <2>4. QED BY <2>2, <2>3, Zenon
  <1> HIDE DEF A, Will
  <1>6. ASSUME NEW n \in Fields(1)
        PROVE  (IF n = f THEN [A[f] EXCEPT ![t] = Entry(k, g, p, f, t)] ELSE A[n]) = [i \in Slots(n) |-> Will(n, i)]
    BY <1>4, <1>5
  <1>7. B = [n \in Fields(1) |-> [i \in Slots(n) |-> Will(n, i)]]
    BY <1>3, <1>6, Zenon
  <1>8. QED BY <1>2, <1>7 DEF A

\* A field written whole.
LEMMA PartField ==
  ASSUME NEW k, NEW g \in Degrees, NEW p, NEW f \in Fields(g)
  PROVE  [Part(k, g, p, f, 0) EXCEPT ![f] = [i \in Slots(f) |-> Entry(k, g, p, f, i)]]
           = Part(k, g, p, 2 * f, 0)
  <1> DEFINE A == Part(k, g, p, f, 0)
             Is(n, i) == IF n \in Fields(g) /\ (n < f \/ (n = f /\ i < 0)) THEN Entry(k, g, p, n, i) ELSE Unwritten
             Will(n, i) == IF n \in Fields(g) /\ (n < 2 * f \/ (n = 2 * f /\ i < 0)) THEN Entry(k, g, p, n, i) ELSE Unwritten
  <1>1. f \in Fields(1) /\ f \in Nat \ {0} /\ f \in Degrees
    BY FieldFacts
  <1>2. A = [n \in Fields(1) |-> [i \in Slots(n) |-> Is(n, i)]]
        /\ Part(k, g, p, 2 * f, 0) = [n \in Fields(1) |-> [i \in Slots(n) |-> Will(n, i)]]
    BY Zenon DEF Part
  <1>3. [A EXCEPT ![f] = [i \in Slots(f) |-> Entry(k, g, p, f, i)]]
          = [n \in Fields(1) |-> IF n = f THEN [i \in Slots(f) |-> Entry(k, g, p, f, i)] ELSE A[n]]
    BY <1>1, <1>2, Zenon
  <1>4. ASSUME NEW n \in Fields(1), NEW i \in Slots(n), n # f PROVE Is(n, i) = Will(n, i)
    <2>1. n \in Nat /\ i \in Nat /\ n \in Degrees
      BY DegreeEnds, FieldFacts
    <2>2. f < n => 2 * f <= n
      BY <1>1, <2>1, DegreesApart
    <2>3. n < 2 * f <=> n < f
      BY <1>1, <1>4, <2>1, <2>2
    <2>4. ~(i < 0)
      BY <2>1
    <2>5. QED BY <2>3, <2>4
  <1>5. ASSUME NEW i \in Slots(f) PROVE Entry(k, g, p, f, i) = Will(f, i)
    <2>1. f < 2 * f
      BY <1>1
    <2>2. QED BY <2>1
  <1> HIDE DEF Is, Will
  <1>6. ASSUME NEW n \in Fields(1), n # f PROVE A[n] = [i \in Slots(n) |-> Will(n, i)]
    <2>1. A[n] = [i \in Slots(n) |-> Is(n, i)]
      BY <1>2, Zenon
    <2> HIDE DEF A
    <2>2. QED BY <1>4, <1>6, <2>1, Zenon
  <1>7. [i \in Slots(f) |-> Entry(k, g, p, f, i)] = [i \in Slots(f) |-> Will(f, i)]
    BY <1>5, Zenon
  <1> HIDE DEF A
  <1>8. ASSUME NEW n \in Fields(1)
        PROVE  (IF n = f THEN [i \in Slots(f) |-> Entry(k, g, p, f, i)] ELSE A[n]) = [i \in Slots(n) |-> Will(n, i)]
    BY <1>6, <1>7, Zenon
  <1>9. [A EXCEPT ![f] = [i \in Slots(f) |-> Entry(k, g, p, f, i)]]
          = [n \in Fields(1) |-> [i \in Slots(n) |-> Will(n, i)]]
    BY <1>3, <1>8, Zenon
  <1>10. QED BY <1>2, <1>9 DEF A

\* After the last slot comes the next field.
LEMMA PartNext ==
  ASSUME NEW k, NEW g \in Degrees, NEW p, NEW f \in Fields(g)
  PROVE  Part(k, g, p, f, Rank(f \div 2)) = Part(k, g, p, 2 * f, 0)
  <1> DEFINE R == Rank(f \div 2)
             Is(n, i) == n \in Fields(g) /\ (n < f \/ (n = f /\ i < R))
             Will(n, i) == n \in Fields(g) /\ (n < 2 * f \/ (n = 2 * f /\ i < 0))
  <1>1. f \in Fields(1) /\ f \in Nat \ {0} /\ f \in Degrees /\ R \in Nat
    BY FieldFacts
  <1>2. ASSUME NEW n \in Fields(1), NEW i \in Slots(n) PROVE Is(n, i) = Will(n, i)
    <2>1. n \in Nat /\ i \in Nat /\ n \in Degrees
      BY DegreeEnds, FieldFacts
    <2>2. f < n => 2 * f <= n
      BY <1>1, <2>1, DegreesApart
    <2>3. n = f => i < R
      BY <1>1 DEF Slots
    <2> HIDE DEF R
    <2>4. (n < 2 * f \/ (n = 2 * f /\ i < 0)) <=> (n < f \/ (n = f /\ i < R))
      BY <1>1, <2>1, <2>2, <2>3
    <2>5. QED BY <2>4
  <1> HIDE DEF R, Is, Will
  <1>3. QED BY <1>2, Zenon DEF Part, Is, Will, R

\* past the last field the whole key is.
LEMMA PartWhole ==
  ASSUME NEW k, NEW g \in Degrees, NEW p
  PROVE  Part(k, g, p, 2 * N, 0) = Full(k, g, p)
  <1>1. ASSUME NEW n \in Fields(g) PROVE n < 2 * N
    BY DegreeEnds, FieldFacts
  <1>2. QED BY <1>1, Zenon DEF Part, Full

\* A suffix of a cascade key is a key that starts later.
LEMMA EntrySuffix ==
  ASSUME NEW k, NEW g \in Degrees, NEW n \in Fields(g), NEW i \in Slots(n)
  PROVE  /\ Full(k, 1, 0)[n][i] = Entry(k, g, 2 * (Rank(1) - Rank(g)), n, i)
         /\ Full(k, 1, 0)[n] = [j \in Slots(n) |-> Entry(k, g, 2 * (Rank(1) - Rank(g)), n, j)]
  <1> DEFINE p == 2 * (Rank(1) - Rank(g))
  <1>1. n \in Fields(1) /\ 1 \in Degrees /\ n \div 2 \in Degrees
    BY FieldFacts, DegreeEnds, FieldsAre
  <1>2. Rank(1) \in Nat /\ Rank(g) \in Nat /\ Rank(n \div 2) \in Nat
    BY <1>1, Degree
  <1>3. ASSUME NEW j \in Slots(n) PROVE Entry(k, 1, 0, n, j) = Entry(k, g, p, n, j)
    <2>1. j \in Int
      BY DEF Slots
    <2>2. 0 + Draws(1, n) + j = p + Draws(g, n) + j
      BY <1>2, <2>1 DEF Draws
    <2>3. QED BY <2>2, Zenon DEF Entry
  <1> HIDE DEF p
  <1>4. Full(k, 1, 0)[n] = [j \in Slots(n) |-> Entry(k, g, p, n, j)]
    <2>1. Full(k, 1, 0)[n] = [j \in Slots(n) |-> Entry(k, 1, 0, n, j)]
      BY <1>1, Zenon DEF Full
    <2>2. QED BY <1>3, <2>1, Zenon
  <1>5. QED BY <1>4, Zenon DEF p

-----------------------------------------------------------------------------
(***************************************************************************)
(* The inductive invariant of the keys.                                    *)
(***************************************************************************)

Generators == {"gen", "gen_boxed", "gen_oracle"}
Readers == {"switch", "switch_boxed", "to_eval"}

\* The builder has come to (field, slot) of a key that starts after degree g;
\* a generated one draws from p on, one read from the cascade key inherits
\* the draws of its suffix.
Building(g, p) ==
  /\ g \in Degrees /\ g # N /\ p \in Nat
  /\ dst = Part(s, g, p, field, slot)
  /\ \/ field \in Fields(g) /\ slot \in Slots(field)
     \/ field = 2 * N /\ slot = 0
  /\ builder \in {"gen", "gen_oracle", "switch"} => slot = 0
  /\ builder \in Generators => prg = p + Draws(g, field) + slot
  /\ builder \in Readers => p = 2 * (Rank(1) - Rank(g))

KeysReady == keys = Full(s, 1, 0) /\ convKey.message = Mul(s, s, N) /\ convKey.at \in Nat

\* Setup of the client, of the server, of a repacking, and no builder at work.
Generating ==
  /\ builder \in {"gen", "gen_boxed"} /\ pc = "idle"
  /\ convKey = Unwritten /\ keys = NoKey /\ prepared = NoKey /\ sched = NoKey
  /\ Building(1, 0)

Transforming ==
  /\ builder = "to_eval" /\ pc = "idle"
  /\ KeysReady /\ prepared = NoKey /\ sched = NoKey
  /\ Building(1, 0)

Deriving ==
  /\ builder \in {"switch", "switch_boxed", "gen_oracle"} /\ pc = "next" /\ job.op = "repack"
  /\ KeysReady /\ prepared = keys /\ sched = NoKey
  /\ \E p \in Nat : Building(job.g, p)

Resting ==
  /\ builder = "none"
  /\ KeysReady /\ prepared = keys
  /\ IF pc # "idle" /\ job.op = "repack" THEN \E p \in Nat : sched = Full(s, job.g, p)
                                         ELSE sched = NoKey

JobKnown ==
  \/ pc = "idle" /\ job = [op |-> "none"]
  \/ pc \in {"next", "switch", "done", "rgsw"} /\ Cascading /\ job.g = 1
  \/ pc \in {"next", "switch", "done"} /\ job.op = "repack" /\ job.g \in Degrees /\ job.g # N

KeyInv ==
  /\ s \in Poly(N) /\ prg \in Nat
  /\ JobKnown
  /\ Generating \/ Transforming \/ Deriving \/ Resting

\* One slot written, and on to the next slot or field.
LEMMA SlotWritten ==
  ASSUME NEW g, NEW p, Building(g, p), NEW f, f = field, f \in Fields(g), s' = s, Advance,
         dst' = [dst EXCEPT ![f][slot] = Entry(s, g, p, f, slot)]
  PROVE  /\ dst' = Part(s, g, p, field', slot')
         /\ \/ field' \in Fields(g) /\ slot' \in Slots(field')
            \/ field' = 2 * N /\ slot' = 0
         /\ Draws(g, field') + slot' = Draws(g, field) + slot + 1
  <1> DEFINE t == slot
  <1>1. g \in Degrees /\ t \in Slots(f) /\ dst = Part(s, g, p, f, t)
    <2>1. f <= N /\ N \in Nat \ {0}
      BY FieldFacts, DegreeEnds DEF Building
    <2>2. f # 2 * N
      BY <2>1
    <2>3. QED BY <2>2 DEF Building
  <1>2. /\ f \in Nat \ {0} /\ t \in Nat /\ Rank(f) \in Nat /\ Rank(f \div 2) \in Nat /\ Rank(g) \in Nat
        /\ Rank(f \div 2) = 2 * Rank(f) /\ (2 * f) \div 2 = f /\ N \in Nat
        /\ t + 1 \in Slots(f) \/ t + 1 = Rank(f \div 2)
        /\ 2 * f \in Fields(g) \/ 2 * f = 2 * N
    <2>1. g \in Degrees /\ t \in Slots(f)
      BY <1>1
    <2>2. Rank(g) \in Nat
      BY <2>1, Degree
    <2> HIDE DEF t
    <2>3. QED BY <2>1, <2>2, FieldFacts
  <1>3. dst' = Part(s, g, p, f, t + 1)
    <2>1. dst' = [Part(s, g, p, f, t) EXCEPT ![f][t] = Entry(s, g, p, f, t)]
      BY <1>1
    <2>2. t \in Slots(f) /\ g \in Degrees
      BY <1>1
    <2> HIDE DEF t
    <2>3. [Part(s, g, p, f, t) EXCEPT ![f][t] = Entry(s, g, p, f, t)] = Part(s, g, p, f, t + 1)
      BY <2>2, PartSlot
    <2>4. QED BY <2>1, <2>3
  <1> HIDE DEF t
  <1>4. CASE t + 1 \in Slots(f)
    <2>1. field' = f /\ slot' = t + 1
      BY <1>4 DEF Advance, t
    <2>2. Draws(g, f) \in Int
      BY <1>2 DEF Draws
    <2>3. Draws(g, f) + (t + 1) = Draws(g, f) + t + 1
      BY <1>2, <2>2
    <2>4. QED BY <1>3, <1>4, <2>1, <2>3 DEF t
  <1>5. CASE t + 1 \notin Slots(f)
    <2>1. field' = 2 * f /\ slot' = 0
      BY <1>5 DEF Advance, t
    <2>2. t + 1 = Rank(f \div 2)
      BY <1>2, <1>5
    <2>3. dst' = Part(s, g, p, 2 * f, 0)
      <3>1. Part(s, g, p, f, Rank(f \div 2)) = Part(s, g, p, 2 * f, 0)
        BY <1>1, PartNext
      <3>2. QED BY <1>3, <2>2, <3>1
    <2>4. 2 * f \in Fields(g) => 0 \in Slots(2 * f)
      BY <1>1, FieldFacts
    <2>5. Draws(g, 2 * f) + 0 = Draws(g, f) + t + 1
      BY <1>2, <2>2 DEF Draws
    <2>6. 2 * f \in Fields(g) \/ 2 * f = 2 * N
      BY <1>2
    <2>7. QED BY <2>1, <2>3, <2>4, <2>5, <2>6 DEF t
  <1>6. QED BY <1>4, <1>5

\* One field written.
LEMMA FieldWritten ==
  ASSUME NEW g, NEW p, Building(g, p), NEW f, f = field, f \in Fields(g), slot = 0,
         field' = 2 * field, slot' = slot,
         dst' = [dst EXCEPT ![f] = [i \in Slots(f) |-> Entry(s, g, p, f, i)]]
  PROVE  /\ dst' = Part(s, g, p, field', slot')
         /\ \/ field' \in Fields(g) /\ slot' \in Slots(field')
            \/ field' = 2 * N /\ slot' = 0
         /\ Draws(g, field') + slot' = Draws(g, field) + Rank(field \div 2)
  <1>1. g \in Degrees /\ dst = Part(s, g, p, f, 0)
    BY DEF Building
  <1>2. /\ f \in Nat \ {0} /\ Rank(f) \in Nat /\ Rank(f \div 2) \in Nat /\ Rank(g) \in Nat
        /\ Rank(f \div 2) = 2 * Rank(f) /\ (2 * f) \div 2 = f /\ N \in Nat
        /\ 2 * f \in Fields(g) \/ 2 * f = 2 * N
    BY <1>1, FieldFacts, Degree
  <1>3. dst' = Part(s, g, p, 2 * f, 0)
    BY <1>1, PartField
  <1>4. 2 * f \in Fields(g) => 0 \in Slots(2 * f)
    BY <1>1, FieldFacts
  <1>5. Draws(g, 2 * f) + 0 = Draws(g, f) + Rank(f \div 2)
    BY <1>2 DEF Draws
  <1>6. 2 * f \in Fields(g) \/ 2 * f = 2 * N
    BY <1>2
  <1>7. QED BY <1>3, <1>4, <1>5, <1>6

\* A step of a builder before it returns.
Write == GenField \/ GenSlot \/ SwitchField \/ SwitchSlot \/ ToEvalSlot

\* Every step of a builder keeps it at its place.
LEMMA BuildingGoesOn ==
  ASSUME NEW g, NEW p, Building(g, p), prg \in Nat, Write,
         builder \in Readers => keys = Full(s, 1, 0)
  PROVE  /\ Building(g, p)' /\ prg' \in Nat
         /\ UNCHANGED <<s, built, sched, builder>>
  <1>1. UNCHANGED <<s, built, sched, builder>> /\ field <= N
    BY Zenon DEF Write, GenField, GenSlot, SwitchField, SwitchSlot, ToEvalSlot
  <1>2. g \in Degrees /\ g # N /\ p \in Nat /\ N \in Nat \ {0}
    BY DegreeEnds DEF Building
  <1>3. field \in Fields(g) /\ slot \in Slots(field)
    BY <1>1, <1>2 DEF Building
  <1>4. PICK f : f = field
    OBVIOUS
  <1>5. f \in Fields(g) /\ f \in Degrees /\ f \in Nat /\ Draws(g, f) \in Int /\ slot \in Nat /\ Rank(f \div 2) \in Nat
    <2>1. f \in Fields(g) /\ f \in Degrees /\ f \in Nat /\ slot \in Nat /\ Rank(f \div 2) \in Nat
      BY <1>2, <1>3, <1>4, FieldFacts
    <2>2. Rank(g) \in Nat
      BY <1>2, Degree
    <2>3. QED BY <2>1, <2>2 DEF Draws
  <1>6. \A i \in Slots(f) : i \in Nat
    BY <1>2, <1>5, FieldFacts
  <1>7. builder \in Readers =>
          /\ p = 2 * (Rank(1) - Rank(g))
          /\ keys[f] = [i \in Slots(f) |-> Entry(s, g, p, f, i)]
          /\ keys[f][slot] = Entry(s, g, p, f, slot)
    <2>1. SUFFICES ASSUME builder \in Readers
                   PROVE  /\ p = 2 * (Rank(1) - Rank(g))
                          /\ keys[f] = [i \in Slots(f) |-> Entry(s, g, p, f, i)]
                          /\ keys[f][slot] = Entry(s, g, p, f, slot)
      OBVIOUS
    <2>2. p = 2 * (Rank(1) - Rank(g))
      BY <2>1 DEF Building
    <2>3. keys = Full(s, 1, 0)
      BY <2>1
    <2>4. slot \in Slots(f)
      BY <1>3, <1>4
    <2>5. QED BY <1>2, <1>5, <2>2, <2>3, <2>4, EntrySuffix
  <1>8. CASE GenField
    <2>1. builder \in {"gen", "gen_oracle"} /\ slot = 0 /\ slot' = slot /\ field' = 2 * field
          /\ prg' = prg + Rank(f \div 2) /\ builder \in Generators /\ builder \notin Readers
      BY <1>4, <1>8 DEF GenField, Building, Generators, Readers
    <2>2. prg = p + Draws(g, f) + 0
      BY <1>4, <2>1 DEF Building
    <2>3. ASSUME NEW i \in Slots(f) PROVE StepKey(f, i, prg + i) = Entry(s, g, p, f, i)
      <3>1. StepKey(f, i, prg + i) = Made(s, f, i, prg + i)
        BY <1>5, <1>6, StepKeyIs
      <3>2. prg + i = p + Draws(g, f) + i
        BY <1>2, <1>5, <1>6, <2>2
      <3>3. QED BY <3>1, <3>2 DEF Entry
    <2>4. dst' = [dst EXCEPT ![f] = [i \in Slots(f) |-> StepKey(f, i, prg + i)]]
      BY <1>4, <1>8 DEF GenField
    <2>5. [i \in Slots(f) |-> StepKey(f, i, prg + i)] = [i \in Slots(f) |-> Entry(s, g, p, f, i)]
      BY <2>3, Zenon
    <2>6. dst' = [dst EXCEPT ![f] = [i \in Slots(f) |-> Entry(s, g, p, f, i)]]
      BY <2>4, <2>5
    <2>7. /\ dst' = Part(s, g, p, field', slot')
          /\ \/ field' \in Fields(g) /\ slot' \in Slots(field')
             \/ field' = 2 * N /\ slot' = 0
          /\ Draws(g, field') + slot' = Draws(g, f) + Rank(f \div 2)
      <3>1. f \in Fields(g) /\ slot = 0 /\ field' = 2 * field /\ slot' = slot
        BY <1>5, <2>1
      <3>2. /\ dst' = Part(s, g, p, field', slot')
            /\ \/ field' \in Fields(g) /\ slot' \in Slots(field')
               \/ field' = 2 * N /\ slot' = 0
            /\ Draws(g, field') + slot' = Draws(g, field) + Rank(field \div 2)
        BY <1>4, <2>6, <3>1, FieldWritten, ZenonT(60)
      <3>3. QED BY <1>4, <3>2
    <2>8. prg' = p + Draws(g, field') + slot'
      <3>1. slot' = 0
        BY <2>1
      <3>2. Rank(field' \div 2) \in Nat /\ Rank(g) \in Nat
        <4>1. field' \div 2 = f
          BY <1>4, <1>5, <2>1
        <4>2. QED BY <1>2, <1>5, <4>1, Degree
      <3>3. Draws(g, field') \in Int
        BY <3>2 DEF Draws
      <3>4. QED BY <1>2, <1>5, <2>1, <2>2, <2>7, <3>1, <3>3
    <2>9. prg' \in Nat
      BY <1>5, <2>1
    <2>10. QED BY <1>1, <1>2, <2>1, <2>7, <2>8, <2>9 DEF Building
  <1>9. CASE GenSlot
    <2>1. builder = "gen_boxed" /\ Advance /\ prg' = prg + 1
          /\ builder \in Generators /\ builder \notin Readers /\ builder \notin {"gen", "gen_oracle", "switch"}
      BY <1>9 DEF GenSlot, Generators, Readers
    <2>2. prg = p + Draws(g, f) + slot
      BY <1>4, <2>1 DEF Building
    <2>3. StepKey(f, slot, prg) = Entry(s, g, p, f, slot)
      BY <1>5, <2>2, StepKeyIs DEF Entry
    <2>4. dst' = [dst EXCEPT ![f][slot] = StepKey(f, slot, prg)]
      BY <1>4, <1>9, Zenon DEF GenSlot
    <2>5. dst' = [dst EXCEPT ![f][slot] = Entry(s, g, p, f, slot)]
      BY <2>3, <2>4
    <2>6. /\ dst' = Part(s, g, p, field', slot')
          /\ \/ field' \in Fields(g) /\ slot' \in Slots(field')
             \/ field' = 2 * N /\ slot' = 0
          /\ Draws(g, field') + slot' = Draws(g, f) + slot + 1
      BY <1>1, <1>4, <1>5, <2>1, <2>5, SlotWritten
    <2>7. prg' = p + Draws(g, field') + slot'
      <3>1. slot' \in Nat /\ Draws(g, field') \in Int
        <4>1. slot' \in Nat
          BY <1>2, <2>6, FieldFacts
        <4>2. Rank(field' \div 2) \in Int
          <5>1. field' = f \/ field' = 2 * f
            BY <1>4, <2>1 DEF Advance
          <5>2. (2 * f) \div 2 = f
            BY <1>5
          <5>3. QED BY <1>5, <5>1, <5>2, Degree
        <4>3. QED BY <1>2, <4>1, <4>2, Degree DEF Draws
      <3>2. QED BY <1>2, <1>5, <2>1, <2>2, <2>6, <3>1
    <2>8. prg' \in Nat
      BY <2>1
    <2>9. QED BY <1>1, <1>2, <2>1, <2>6, <2>7, <2>8 DEF Building
  <1>10. CASE SwitchField
    <2>1. builder = "switch" /\ slot = 0 /\ slot' = slot /\ field' = 2 * field /\ prg' = prg
          /\ builder \in Readers /\ builder \notin Generators
      BY <1>10 DEF SwitchField, Building, Generators, Readers
    <2>2. dst' = [dst EXCEPT ![f] = keys[f]]
      BY <1>4, <1>10 DEF SwitchField
    <2>3. dst' = [dst EXCEPT ![f] = [i \in Slots(f) |-> Entry(s, g, p, f, i)]]
      BY <1>7, <2>1, <2>2
    <2>4. /\ dst' = Part(s, g, p, field', slot')
          /\ \/ field' \in Fields(g) /\ slot' \in Slots(field')
             \/ field' = 2 * N /\ slot' = 0
      BY <1>4, <1>5, <2>1, <2>3, FieldWritten, ZenonT(60)
    <2>5. QED BY <1>1, <1>2, <1>7, <2>1, <2>4 DEF Building
  <1>11. CASE SwitchSlot \/ ToEvalSlot
    <2>1. builder \in {"switch_boxed", "to_eval"} /\ Advance /\ prg' = prg
          /\ dst' = [dst EXCEPT ![f][slot] = keys[f][slot]]
      BY <1>4, <1>11, Zenon DEF SwitchSlot, ToEvalSlot
    <2>2. builder \in Readers /\ builder \notin Generators /\ builder \notin {"gen", "gen_oracle", "switch"}
      BY <2>1 DEF Generators, Readers
    <2>3. dst' = [dst EXCEPT ![f][slot] = Entry(s, g, p, f, slot)]
      BY <1>7, <2>1, <2>2
    <2>4. /\ dst' = Part(s, g, p, field', slot')
          /\ \/ field' \in Fields(g) /\ slot' \in Slots(field')
             \/ field' = 2 * N /\ slot' = 0
      BY <1>1, <1>4, <1>5, <2>1, <2>3, SlotWritten
    <2>5. QED BY <1>1, <1>2, <1>7, <2>1, <2>2, <2>4 DEF Building
  <1>12. QED BY <1>8, <1>9, <1>10, <1>11 DEF Write

\* A builder starts at its place.
LEMMA BuildStarts ==
  ASSUME NEW g \in Degrees, g # N, NEW p \in Nat, NEW kind \in Generators \cup Readers,
         Build(kind, g), s' = s,
         kind \in Generators => prg' = p,
         kind \in Readers => p = 2 * (Rank(1) - Rank(g))
  PROVE  Building(g, p)'
  <1>1. builder' = kind /\ dst' = NoKey /\ field' = 2 * g /\ slot' = 0
    BY DEF Build
  <1>2. 2 * g \in Degrees /\ g \in Nat \ {0} /\ (2 * g) \div 2 = g /\ g < 2 * g /\ Rank(g) \in Nat
    BY Degree
  <1>3. 2 * g \in Fields(g)
    BY <1>2, FieldsAre
  <1>4. 0 \in Slots(2 * g)
    BY <1>3, FieldFacts
  <1>5. dst' = Part(s', g, p, field', slot')
    BY <1>1, PartStart
  <1>6. Draws(g, 2 * g) = 0
    BY <1>2 DEF Draws
  <1>7. builder' \in Generators => prg' = p + Draws(g, field') + slot'
    BY <1>1, <1>6
  <1>8. QED BY <1>1, <1>3, <1>4, <1>5, <1>7 DEF Building

\* A builder that returns has built the whole key.
LEMMA BuildingEnds ==
  ASSUME NEW g, NEW p, Building(g, p), field > N
  PROVE  dst = Full(s, g, p)
  <1>1. field \notin Fields(g)
    <2>1. SUFFICES ASSUME field \in Fields(g) PROVE FALSE
      OBVIOUS
    <2>2. g \in Degrees
      BY DEF Building
    <2>3. field <= N /\ field \in Nat /\ N \in Nat
      BY <2>1, <2>2, FieldFacts
    <2>4. QED BY <2>3
  <1>2. field = 2 * N /\ slot = 0 /\ g \in Degrees /\ dst = Part(s, g, p, field, slot)
    BY <1>1 DEF Building
  <1>3. Part(s, g, p, 2 * N, 0) = Full(s, g, p)
    BY <1>2, PartWhole
  <1>4. QED BY <1>2, <1>3

\* The suffix that starts after degree g, read in place.
LEMMA SuffixRead ==
  ASSUME NEW g \in Degrees, g # N
  PROVE  /\ 2 * (Rank(1) - Rank(g)) \in Nat
         /\ [n \in Fields(1) |-> IF n \in Fields(g) THEN Full(s, 1, 0)[n] ELSE NoKey[n]]
              = Full(s, g, 2 * (Rank(1) - Rank(g)))
  <1> DEFINE p == 2 * (Rank(1) - Rank(g))
  <1>1. p \in Nat
    <2>1. 2 * g \in Degrees /\ g \in Nat \ {0} /\ (2 * g) \div 2 = g
      BY Degree
    <2>2. 2 * g \in Fields(1) /\ 1 \in Degrees
      BY <2>1, DegreeEnds, FieldsAre
    <2>3. Draws(1, 2 * g) \in Nat
      BY <2>2, PrecedingIs
    <2>4. QED BY <2>1, <2>3 DEF Draws
  <1> HIDE DEF p
  <1>2. ASSUME NEW n \in Fields(1)
        PROVE  (IF n \in Fields(g) THEN Full(s, 1, 0)[n] ELSE NoKey[n])
                 = [i \in Slots(n) |-> IF n \in Fields(g) THEN Entry(s, g, p, n, i) ELSE Unwritten]
    <2>1. CASE n \in Fields(g)
      <3>1. Full(s, 1, 0)[n] = [j \in Slots(n) |-> Entry(s, g, p, n, j)]
        <4>1. 0 \in Slots(n)
          BY <2>1, FieldFacts
        <4>2. QED BY <2>1, <4>1, EntrySuffix DEF p
      <3>2. QED BY <2>1, <3>1, Zenon
    <2>2. CASE n \notin Fields(g)
      BY <2>2, Zenon DEF NoKey
    <2>3. QED BY <2>1, <2>2
  <1>3. [n \in Fields(1) |-> IF n \in Fields(g) THEN Full(s, 1, 0)[n] ELSE NoKey[n]] = Full(s, g, p)
    BY <1>2, Zenon DEF Full
  <1>4. QED BY <1>1, <1>3 DEF p

\* Repackings start from a degree of the tower below N.
LEMMA BatchDegree ==
  ASSUME NEW b \in Batches
  PROVE  b.g \in Degrees /\ b.g # N
  <1>1. PICK i, j \in 0..MaxBits : b = [t |-> Shl[i], g |-> Shl[j]] /\ b.g < N
    BY ConversionAssumption
  <1>2. b.g = Shl[j] /\ b.g \in Nat /\ N \in Nat
    BY <1>1, ShlDoubles, DegreeEnds
  <1>3. QED BY <1>1, <1>2 DEF Degrees

\* A setup starts with the invariant of the keys,
LEMMA KeyInvStarts == Init => KeyInv
  <1> SUFFICES ASSUME Init PROVE KeyInv
    OBVIOUS
  <1>1. /\ s \in Poly(N) /\ prg = 0 /\ keys = NoKey /\ convKey = Unwritten /\ prepared = NoKey /\ sched = NoKey
        /\ builder \in {"gen", "gen_boxed"} /\ dst = NoKey /\ field = 2 /\ slot = 0
        /\ pc = "idle" /\ job = [op |-> "none"]
    BY StepKeysAssumption DEF Init, KeysInit
  <1>2. 1 \in Degrees /\ 2 \in Degrees /\ 1 # N
    BY DegreeEnds
  <1>3. 2 \in Fields(1) /\ 0 \in Slots(2)
    <2>1. 2 \in Fields(1)
      BY <1>2, FieldsAre
    <2>2. QED BY <1>2, <2>1, FieldFacts
  <1>4. dst = Part(s, 1, 0, 2 * 1, 0)
    BY <1>1, <1>2, PartStart
  <1>5. Rank(1) \in Nat
    BY <1>2, Degree
  <1>6. 2 \div 2 = 1
    OBVIOUS
  <1>7. Draws(1, 2) = 0
    BY <1>5, <1>6 DEF Draws
  <1>8. Building(1, 0)
    BY <1>1, <1>2, <1>3, <1>4, <1>5, <1>7 DEF Building
  <1>9. QED BY <1>1, <1>8 DEF KeyInv, JobKnown, Generating

\* the builders keep it,
LEMMA KeyInvBuilds == KeyInv /\ BuildKeys /\ UNCHANGED jobVars => KeyInv'
  <1> SUFFICES ASSUME KeyInv, BuildKeys, UNCHANGED jobVars PROVE KeyInv'
    OBVIOUS
  <1>1. pc' = pc /\ job' = job
    BY Zenon DEF jobVars
  <1>2. JobKnown'
    BY <1>1 DEF KeyInv, JobKnown, Cascading
  <1>3. s \in Poly(N) /\ prg \in Nat
    BY DEF KeyInv
  <1>4. CASE Write
    <2>0. builder \in {"gen", "gen_oracle", "gen_boxed", "switch", "switch_boxed", "to_eval"}
      BY <1>4, Zenon DEF Write, GenField, GenSlot, SwitchField, SwitchSlot, ToEvalSlot
    <2>1. CASE Generating
      <3>1. builder \notin Readers /\ Building(1, 0)
        BY <2>1 DEF Generating, Readers
      <3>2. Building(1, 0)' /\ prg' \in Nat /\ UNCHANGED <<s, built, sched, builder>>
        BY <1>3, <1>4, <3>1, BuildingGoesOn
      <3>3. Generating'
        BY <1>1, <2>1, <3>2 DEF Generating, built
      <3>4. QED BY <1>2, <1>3, <3>2, <3>3 DEF KeyInv
    <2>2. CASE Transforming
      <3>1. keys = Full(s, 1, 0) /\ Building(1, 0)
        BY <2>2 DEF Transforming, KeysReady
      <3>2. Building(1, 0)' /\ prg' \in Nat /\ UNCHANGED <<s, built, sched, builder>>
        BY <1>3, <1>4, <3>1, BuildingGoesOn
      <3>3. Transforming'
        BY <1>1, <2>2, <3>2 DEF Transforming, KeysReady, built
      <3>4. QED BY <1>2, <1>3, <3>2, <3>3 DEF KeyInv
    <2>3. CASE Deriving
      <3>1. PICK p \in Nat : Building(job.g, p)
        BY <2>3 DEF Deriving
      <3>2. keys = Full(s, 1, 0)
        BY <2>3 DEF Deriving, KeysReady
      <3>3. PICK g : g = job.g
        OBVIOUS
      <3>4. Building(g, p)
        BY <3>1, <3>3
      <3>5. Building(g, p)' /\ prg' \in Nat /\ UNCHANGED <<s, built, sched, builder>>
        BY <1>3, <1>4, <3>2, <3>4, BuildingGoesOn
      <3>6. Building(job.g, p)'
        BY <1>1, <3>3, <3>5 DEF Building
      <3>7. Deriving'
        BY <1>1, <2>3, <3>5, <3>6 DEF Deriving, KeysReady, built
      <3>8. QED BY <1>2, <1>3, <3>5, <3>7 DEF KeyInv
    <2>4. CASE Resting
      BY <2>0, <2>4 DEF Resting
    <2>5. QED BY <2>1, <2>2, <2>3, <2>4 DEF KeyInv
  <1>5. CASE FinishKey
    <2>1. builder # "none" /\ field > N /\ s' = s
      BY <1>5, Zenon DEF FinishKey, Idle
    <2>2. 1 \in Degrees /\ 1 # N /\ Rank(1) \in Nat
      BY DegreeEnds, Degree
    <2>3. CASE Generating
      <3>1. dst = Full(s, 1, 0) /\ builder \in {"gen", "gen_boxed"} /\ builder # "to_eval"
        BY <2>1, <2>3, BuildingEnds DEF Generating
      <3>2. /\ keys' = dst /\ convKey' = [message |-> Mul(s, s, N), at |-> prg] /\ prg' = prg + 1
            /\ Build("to_eval", 1) /\ prepared' = prepared /\ sched' = sched
        BY <1>5, <3>1, Zenon DEF FinishKey
      <3>3. 0 = 2 * (Rank(1) - Rank(1)) /\ "to_eval" \in Readers /\ "to_eval" \notin Generators
        BY <2>2 DEF Readers, Generators
      <3>4. Building(1, 0)'
        BY <2>1, <2>2, <3>2, <3>3, BuildStarts
      <3>5. KeysReady'
        BY <1>3, <2>1, <3>1, <3>2 DEF KeysReady
      <3>6. builder' = "to_eval"
        BY <3>2 DEF Build
      <3>7. Transforming'
        BY <1>1, <2>3, <3>2, <3>4, <3>5, <3>6 DEF Transforming, Generating
      <3>8. prg' \in Nat
        BY <1>3, <3>2
      <3>9. QED BY <1>2, <1>3, <2>1, <3>7, <3>8 DEF KeyInv
    <2>4. CASE Transforming
      <3>1. dst = Full(s, 1, 0) /\ builder = "to_eval" /\ builder \notin {"gen", "gen_boxed"}
        BY <2>1, <2>4, BuildingEnds DEF Transforming
      <3>2. /\ prepared' = dst /\ Build("none", 1)
            /\ prg' = prg /\ keys' = keys /\ convKey' = convKey /\ sched' = sched
        BY <1>5, <3>1, Zenon DEF FinishKey
      <3>3. Resting'
        BY <1>1, <2>1, <2>4, <3>1, <3>2 DEF Transforming, Resting, KeysReady, Build
      <3>4. QED BY <1>2, <1>3, <2>1, <3>2, <3>3 DEF KeyInv
    <2>5. CASE Deriving
      <3>1. PICK p \in Nat : Building(job.g, p)
        BY <2>5 DEF Deriving
      <3>2. dst = Full(s, job.g, p) /\ builder \notin {"gen", "gen_boxed"} /\ builder # "to_eval"
        BY <2>1, <2>5, <3>1, BuildingEnds DEF Deriving
      <3>3. sched' = dst /\ Build("none", 1) /\ prg' = prg /\ UNCHANGED built
        BY <1>5, <3>2, Zenon DEF FinishKey
      <3>4. sched' = Full(s', job'.g, p) /\ pc' # "idle" /\ job'.op = "repack"
        BY <1>1, <2>1, <2>5, <3>2, <3>3 DEF Deriving
      <3>5. Resting'
        BY <2>1, <2>5, <3>3, <3>4 DEF Deriving, Resting, KeysReady, Build, built
      <3>6. QED BY <1>2, <1>3, <2>1, <3>3, <3>5 DEF KeyInv
    <2>6. CASE Resting
      BY <2>1, <2>6 DEF Resting
    <2>7. QED BY <2>3, <2>4, <2>5, <2>6 DEF KeyInv
  <1>6. QED BY <1>4, <1>5 DEF BuildKeys, Write

\* What holds when no builder is at work.
LEMMA WhenIdle ==
  ASSUME KeyInv, Idle
  PROVE  Resting
  BY Zenon DEF KeyInv, Idle, Generating, Transforming, Deriving

\* and so does every step.
LEMMA KeyInvKept == KeyInv /\ [Next]_vars => KeyInv'
  <1> SUFFICES ASSUME KeyInv, [Next]_vars PROVE KeyInv'
    OBVIOUS
  <1>1. CASE KeyStep
    BY <1>1, KeyInvBuilds DEF KeyStep
  <1>2. CASE StartCascade
    <2>1. /\ pc = "idle" /\ Idle /\ UNCHANGED keyVars /\ pc' = "next"
          /\ \E op \in {"cascade", "cascade_eval"} : \E m : job' = [op |-> op, g |-> 1, messages |-> <<m>>]
      BY <1>2, Zenon DEF StartCascade
    <2>2. Resting /\ keyVars' = keyVars
      BY <2>1, WhenIdle
    <2>3. job'.op \in {"cascade", "cascade_eval"} /\ job'.g = 1
      BY <2>1
    <2>4. UNCHANGED <<s, prg, keys, convKey, prepared, sched, builder>>
      BY <2>1, Zenon DEF keyVars, built, building
    <2>5. Resting'
      BY <2>1, <2>2, <2>3, <2>4 DEF Resting, KeysReady
    <2>6. JobKnown'
      BY <2>1, <2>3 DEF JobKnown, Cascading
    <2>7. QED BY <2>4, <2>5, <2>6 DEF KeyInv
  <1>3. CASE StartRepack
    <2>1. PICK b \in Batches : /\ ReadSuffix(b.g)
                               /\ \E ms : job' = [op |-> "repack", g |-> b.g, messages |-> ms]
      BY <1>3, Zenon DEF StartRepack
    <2>2. pc = "idle" /\ Idle /\ pc' = "next"
      BY <1>3, Zenon DEF StartRepack
    <2>3. Resting
      BY <2>2, WhenIdle
    <2>4. PICK g : g = b.g
      OBVIOUS
    <2>5. g \in Degrees /\ g # N
      BY <2>4, BatchDegree
    <2>6. job'.op = "repack" /\ job'.g = g
      BY <2>1, <2>4
    <2>7. JobKnown'
      BY <2>2, <2>5, <2>6 DEF JobKnown
    <2>8. ReadSuffix(g) /\ UNCHANGED <<s, prg, keys, convKey, prepared>>
      BY <2>1, <2>4, Zenon DEF ReadSuffix, built
    <2>9. keys = Full(s, 1, 0) /\ 2 * (Rank(1) - Rank(g)) \in Nat
      BY <2>3, <2>5, SuffixRead DEF Resting, KeysReady
    <2>10. CASE UNCHANGED building
      <3>1. sched' = [n \in Fields(1) |-> IF n \in Fields(g) THEN keys[n] ELSE NoKey[n]]
        <4>1. builder = "none"
          BY <2>2 DEF Idle
        <4>2. builder' = "none"
          BY <2>10, <4>1 DEF building
        <4>3. \A kind \in {"switch", "switch_boxed", "gen_oracle"} : ~Build(kind, g)
          BY <4>2 DEF Build
        <4>4. QED BY <2>8, <4>3, Zenon DEF ReadSuffix
      <3>2. sched' = Full(s, g, 2 * (Rank(1) - Rank(g)))
        BY <2>5, <2>9, <3>1, SuffixRead
      <3>3. builder' = "none"
        BY <2>2, <2>10 DEF Idle, building
      <3>4. sched' = Full(s', job'.g, 2 * (Rank(1) - Rank(g))) /\ pc' # "idle"
        BY <2>2, <2>6, <2>8, <3>2
      <3>5. Resting'
        BY <2>3, <2>6, <2>8, <2>9, <3>3, <3>4 DEF Resting, KeysReady
      <3>6. QED BY <2>7, <2>8, <3>5 DEF KeyInv
    <2>11. CASE \E kind \in {"switch", "switch_boxed", "gen_oracle"} : Build(kind, g) /\ sched' = sched
      <3>1. PICK kind \in {"switch", "switch_boxed", "gen_oracle"} : Build(kind, g) /\ sched' = sched
        BY <2>11
      <3>2. PICK p \in Nat : /\ kind \in Generators => p = prg'
                             /\ kind \in Readers => p = 2 * (Rank(1) - Rank(g))
        <4>1. CASE kind = "gen_oracle"
          <5>1. prg' \in Nat /\ kind \notin Readers
            BY <2>8, <4>1 DEF KeyInv, Readers
          <5>2. QED BY <5>1
        <4>2. CASE kind # "gen_oracle"
          <5>1. kind \notin Generators
            BY <3>1, <4>2 DEF Generators
          <5>2. QED BY <2>9, <5>1
        <4>3. QED BY <4>1, <4>2
      <3>3. kind \in Generators \cup Readers
        BY DEF Generators, Readers
      <3>4. Building(g, p)'
        BY <2>5, <2>8, <3>1, <3>2, <3>3, BuildStarts
      <3>5. Building(job.g, p)'
        BY <2>6, <3>4 DEF Building
      <3>6. builder' = kind
        BY <3>1 DEF Build
      <3>7. sched' = NoKey
        BY <2>2, <2>3, <3>1 DEF Resting
      <3>8. Deriving'
        BY <2>2, <2>3, <2>6, <2>8, <2>9, <3>5, <3>6, <3>7 DEF Deriving, Resting, KeysReady
      <3>9. QED BY <2>7, <2>8, <3>8 DEF KeyInv
    <2>12. QED BY <2>8, <2>10, <2>11, Zenon DEF ReadSuffix
  <1>4. ASSUME StartConversion \/ ConvStep \/ ConvStepEval \/ MlwesToMlwe \/ FinishConversion \/ ToRgsw
        PROVE  KeyInv'
    <2>1. UNCHANGED <<keyVars, job>>
      BY <1>4, Zenon DEF StartConversion, ConvStep, ConvStepEval, MlwesToMlwe, KeySwitch, FinishConversion, ToRgsw
    <2>2. \/ pc = "next" /\ Idle /\ pc' = "switch"
          \/ pc = "switch" /\ pc' \in {"next", "switch", "done"}
          \/ pc = "done" /\ Cascading /\ pc' = "rgsw"
      <3>1. CASE StartConversion
        BY <3>1, Zenon DEF StartConversion
      <3>2. CASE ConvStep \/ ConvStepEval \/ MlwesToMlwe
        BY <3>2, Zenon DEF ConvStep, ConvStepEval, MlwesToMlwe, KeySwitch, Switching
      <3>3. CASE FinishConversion
        BY <3>3 DEF FinishConversion
      <3>4. CASE ToRgsw
        BY <3>4, Zenon DEF ToRgsw
      <3>5. QED BY <1>4, <3>1, <3>2, <3>3, <3>4
    <2>3. UNCHANGED <<s, prg, keys, convKey, prepared, sched, builder>> /\ job' = job
      BY <2>1, Zenon DEF keyVars, built, building
    <2>4. Resting
      <3>1. CASE Idle
        BY <3>1, WhenIdle
      <3>2. CASE pc # "idle" /\ pc # "next"
        BY <3>2 DEF KeyInv, Generating, Transforming, Deriving
      <3>3. QED BY <2>2, <3>1, <3>2
    <2>5. Resting'
      BY <2>2, <2>3, <2>4 DEF Resting, KeysReady
    <2>6. JobKnown'
      <3>1. pc # "idle" /\ JobKnown
        BY <2>2 DEF KeyInv
      <3>2. QED BY <2>2, <2>3, <3>1 DEF JobKnown, Cascading
    <2>7. QED BY <2>3, <2>5, <2>6 DEF KeyInv
  <1>5. CASE UNCHANGED vars
    <2>1. UNCHANGED <<s, prg, keys, convKey, prepared, sched, builder, dst, field, slot, pc, job>>
      BY <1>5, Zenon DEF vars, keyVars, built, building, jobVars
    <2>2. Resting => Resting'
      BY <2>1 DEF Resting, KeysReady
    <2>3. Generating => Generating'
      BY <2>1 DEF Generating, Building
    <2>4. Transforming => Transforming'
      BY <2>1 DEF Transforming, Building, KeysReady
    <2>5. Deriving => Deriving'
      BY <2>1 DEF Deriving, Building, KeysReady
    <2>6. JobKnown'
      BY <2>1 DEF KeyInv, JobKnown, Cascading
    <2>7. QED BY <2>1, <2>2, <2>3, <2>4, <2>5, <2>6 DEF KeyInv
  <1>6. QED BY <1>1, <1>2, <1>3, <1>4, <1>5, Zenon DEF Next

\* In every state the builder of a key has written exactly the slots before its
\* place, each from its own draw, and no key is read before it is whole
\* (Client::setup, PreparedKeys, the three sources of a repacking's keys).
THEOREM KeyInvariant == Spec => []KeyInv
  <1>1. QED BY KeyInvStarts, KeyInvKept, PTL DEF Spec

\* A step key is its encryption with the place it draws from.
LEMMA EntryAt ==
  ASSUME NEW g \in Degrees, NEW p \in Nat, NEW n \in Fields(g), NEW i \in Slots(n)
  PROVE  /\ Entry(s, g, p, n, i).at = p + Draws(g, n) + i
         /\ p + Draws(g, n) + i \in Nat
         /\ Entry(s, g, p, n, i) # Unwritten
         /\ \A q \in Nat : \A e \in Int : p + Draws(g, n) + i = q + Draws(1, n) + i + e =>
              Entry(s, g, p, n, i) = [Entry(s, 1, q, n, i) EXCEPT !.at = @ + e]
  <1>1. Entry(s, g, p, n, i).at = p + Draws(g, n) + i
    BY DEF Entry, Made
  <1>2. p + Draws(g, n) + i \in Nat
    <2>1. Draws(g, n) \in Nat
      BY PrecedingIs
    <2>2. i \in Nat
      BY FieldFacts
    <2>3. QED BY <2>1, <2>2
  <1>3. Entry(s, g, p, n, i) # Unwritten
    <2>1. Unwritten.at = -1
      BY DEF Unwritten
    <2>2. QED BY <1>1, <1>2, <2>1
  <1>4. ASSUME NEW q \in Nat, NEW e \in Int, p + Draws(g, n) + i = q + Draws(1, n) + i + e
        PROVE  Entry(s, g, p, n, i) = [Entry(s, 1, q, n, i) EXCEPT !.at = @ + e]
    <2> DEFINE x == q + Draws(1, n) + i
               y == p + Draws(g, n) + i
    <2>1. y = x + e
      BY <1>4
    <2> HIDE DEF x, y
    <2>2. Made(s, n, i, y) = [Made(s, n, i, x) EXCEPT !.at = @ + e]
      BY <2>1 DEF Made
    <2>3. QED BY <2>2 DEF Entry, x, y
  <1>5. QED BY <1>1, <1>2, <1>3, <1>4

\* What a reader of the fields of a derived key finds.
LEMMA FullAligned ==
  ASSUME NEW g \in Degrees, g # N, NEW p \in Nat, sched = Full(s, g, p), keys = Full(s, 1, 0)
  PROVE  LET read == {n \in Fields(1) : sched[n] # NoKey[n]}
             first == CHOOSE n \in read : \A m \in read : n <= m
             shift == sched[first][0].at - keys[first][0].at
         IN  /\ N \in read /\ Fields(first \div 2) = read
             /\ \A n \in read : \A i \in Slots(n) :
                  sched[n][i] = [keys[n][i] EXCEPT !.at = @ + shift]
  <1> DEFINE read == {n \in Fields(1) : sched[n] # NoKey[n]}
             first == CHOOSE n \in read : \A m \in read : n <= m
             shift == sched[first][0].at - keys[first][0].at
  <1>0. 1 \in Degrees /\ N \in Degrees /\ N \in Nat /\ g \in Nat \ {0} /\ g <= N
    BY DegreeEnds, Degree
  <1>1. /\ \A n \in Fields(g) : n \in Fields(1) /\ n \in Nat /\ 0 \in Slots(n)
        /\ \A n \in Fields(1) : n \in Nat /\ 0 \in Slots(n)
    BY <1>0, FieldFacts
  <1>2. \A n \in Fields(1) : \A i \in Slots(n) :
          /\ n \in Fields(g) => sched[n][i] = Entry(s, g, p, n, i)
          /\ NoKey[n][i] = Unwritten
    BY Zenon DEF Full, NoKey
  <1>3. \A n \in Fields(1) : \A i \in Slots(n) : keys[n][i] = Entry(s, 1, 0, n, i)
    BY Zenon DEF Full
  <1>4. \A n \in Fields(1) : n \notin Fields(g) => sched[n] = NoKey[n]
    BY Zenon DEF Full, NoKey
  <1>5. read = Fields(g)
    <2>1. ASSUME NEW n \in Fields(g) PROVE sched[n] # NoKey[n]
      <3>1. sched[n][0] = Entry(s, g, p, n, 0) /\ NoKey[n][0] = Unwritten
        BY <1>1, <1>2
      <3>2. Entry(s, g, p, n, 0) # Unwritten
        BY <1>1, EntryAt
      <3>3. QED BY <3>1, <3>2
    <2>2. QED BY <1>1, <1>4, <2>1
  <1>6. first = 2 * g /\ 2 * g \in Fields(g) /\ (2 * g) \div 2 = g
    <2>1. 2 * g \in Degrees /\ g < 2 * g /\ (2 * g) \div 2 = g
      BY <1>0, Degree
    <2>2. 2 * g \in Fields(g)
      BY <2>1, FieldsAre
    <2>3. \A m \in Fields(g) : 2 * g <= m
      BY DEF Fields
    <2> DEFINE Least(n) == n \in Fields(g) /\ \A m \in Fields(g) : n <= m
    <2>4. \A n : Least(n) => n = 2 * g
      <3>1. SUFFICES ASSUME NEW n, Least(n) PROVE n = 2 * g
        OBVIOUS
      <3>2. n <= 2 * g /\ 2 * g <= n /\ n \in Nat
        BY <1>1, <2>2, <2>3, <3>1
      <3>3. QED BY <1>0, <3>2
    <2>5. first = CHOOSE n \in Fields(g) : \A m \in Fields(g) : n <= m
      BY <1>5
    <2>6. Least(first)
      BY <2>2, <2>3, <2>5
    <2> HIDE DEF first
    <2>7. QED BY <2>1, <2>2, <2>4, <2>6, Zenon
  <1> HIDE DEF first
  <1>7. shift = p - Draws(1, 2 * g) /\ shift \in Int
    <2>1. /\ sched[2 * g][0] = Entry(s, g, p, 2 * g, 0)
          /\ keys[2 * g][0] = Entry(s, 1, 0, 2 * g, 0) /\ 0 \in Slots(2 * g) /\ 2 * g \in Fields(1)
      BY <1>1, <1>2, <1>3, <1>6
    <2>2. Entry(s, g, p, 2 * g, 0).at = p + Draws(g, 2 * g) + 0
      BY <1>6, <2>1, EntryAt
    <2>3. Entry(s, 1, 0, 2 * g, 0).at = 0 + Draws(1, 2 * g) + 0
      BY <1>0, <2>1, EntryAt
    <2>4. Draws(g, 2 * g) = 0
      <3>1. Rank(g) \in Nat
        BY Degree
      <3>2. QED BY <1>6, <3>1 DEF Draws
    <2>5. Draws(1, 2 * g) \in Nat
      BY <1>0, <2>1, PrecedingIs
    <2>6. QED BY <1>6, <2>1, <2>2, <2>3, <2>4, <2>5
  <1>8. ASSUME NEW n \in Fields(g), NEW i \in Slots(n)
        PROVE  sched[n][i] = [keys[n][i] EXCEPT !.at = @ + shift]
    <2>1. n \in Fields(1) /\ sched[n][i] = Entry(s, g, p, n, i) /\ keys[n][i] = Entry(s, 1, 0, n, i)
      BY <1>1, <1>2, <1>3
    <2>2. p + Draws(g, n) + i = 0 + Draws(1, n) + i + shift
      <3>1. Rank(g) \in Nat /\ Rank(1) \in Nat /\ Rank(n \div 2) \in Nat /\ i \in Nat
        BY <1>0, <2>1, Degree, FieldFacts
      <3>2. Draws(1, 2 * g) = 2 * (Rank(1) - Rank(g))
        BY <1>6 DEF Draws
      <3> HIDE DEF shift
      <3>3. QED BY <1>7, <3>1, <3>2 DEF Draws
    <2> HIDE DEF shift
    <2>3. \A q \in Nat : \A e \in Int : p + Draws(g, n) + i = q + Draws(1, n) + i + e =>
            Entry(s, g, p, n, i) = [Entry(s, 1, q, n, i) EXCEPT !.at = @ + e]
      BY EntryAt
    <2>4. 0 \in Nat /\ shift \in Int
      BY <1>7
    <2>5. Entry(s, g, p, n, i) = [Entry(s, 1, 0, n, i) EXCEPT !.at = @ + shift]
      BY <2>2, <2>3, <2>4, Zenon
    <2>6. QED BY <2>1, <2>5, Zenon
  <1>9. N \in Fields(g)
    <2>1. g < N
      BY <1>0
    <2>2. QED BY <1>0, <2>1, FieldsAre
  <1>10. QED BY <1>5, <1>6, <1>8, <1>9 DEF first

\* The invariant of the keys aligns the fields of a repacking with the cascade key.
LEMMA AlignedByInvariant == KeyInv => KeysAlign
  <1> SUFFICES ASSUME KeyInv PROVE KeysAlign
    OBVIOUS
  <1>1. 1 \in Degrees
    BY DegreeEnds
  <1>2. convKey # Unwritten => KeysReady
    BY DEF KeyInv, Generating, Transforming, Deriving, Resting
  <1>3. ASSUME KeysReady, NEW n \in Fields(1), NEW i \in Slots(n)
        PROVE  keys[n][i].at = Preceding(1, n) + i
    <2>1. keys = Full(s, 1, 0)
      BY <1>3 DEF KeysReady
    <2>2. keys[n][i] = Entry(s, 1, 0, n, i)
      BY <2>1, Zenon DEF Full
    <2>3. Entry(s, 1, 0, n, i).at = 0 + Draws(1, n) + i
      BY <1>1, EntryAt
    <2>4. Preceding(1, n) = Draws(1, n) /\ Draws(1, n) \in Nat
      BY <1>1, PrecedingIs
    <2>5. QED BY <2>2, <2>3, <2>4
  <1>4. prepared \in {NoKey, keys}
    BY DEF KeyInv, Generating, Transforming, Deriving, Resting
  <1>5. ASSUME sched # NoKey
        PROVE  LET read == {n \in Fields(1) : sched[n] # NoKey[n]}
                   first == CHOOSE n \in read : \A m \in read : n <= m
                   shift == sched[first][0].at - keys[first][0].at
               IN  /\ N \in read /\ Fields(first \div 2) = read
                   /\ \A n \in read : \A i \in Slots(n) :
                        sched[n][i] = [keys[n][i] EXCEPT !.at = @ + shift]
    <2>1. Resting /\ pc # "idle" /\ job.op = "repack"
      BY <1>5 DEF KeyInv, Generating, Transforming, Deriving, Resting
    <2>2. PICK p \in Nat : sched = Full(s, job.g, p)
      BY <2>1 DEF Resting
    <2>3. keys = Full(s, 1, 0)
      BY <2>1 DEF Resting, KeysReady
    <2>4. job.g \in Degrees /\ job.g # N
      BY <2>1 DEF KeyInv, JobKnown, Cascading
    <2>5. QED BY <2>2, <2>3, <2>4, FullAligned
  <1>6. QED BY <1>2, <1>3, <1>4, <1>5, Zenon DEF KeysAlign

\* For every degree of the ring and every repacking: the fields a repacking
\* reads, whether borrowed, copied or generated on their own, switch between the
\* same keys as the fields of the cascade key, in the same order of draws, and no
\* slot of them is unwritten (gen_conv_step_key_element, from_cascade_modswitched,
\* gen_repack_key).
THEOREM KeysAligned == Spec => []KeysAlign
  <1>1. QED BY KeyInvariant, AlignedByInvariant, PTL

-----------------------------------------------------------------------------
(***************************************************************************)
(* Ciphertexts and what they decrypt to.                                   *)
(***************************************************************************)

Masks(n) == [0..(Rank(n) - 1) -> Poly(n)]

Cts(n) == [masks : Masks(n), body : Poly(n)]

\* The keys of degree n are polynomials of degree n.
LEMMA KeyIn ==
  ASSUME NEW n \in Degrees, NEW q \in Poly(N), NEW k \in 0..(Rank(n) - 1)
  PROVE  ProjectAt(q, N, n, k) \in Poly(n)
  <1>1. n \in Nat \ {0} /\ Rank(n) \in Nat \ {0} /\ N = Rank(n) * n
    BY Degree
  <1>2. QED BY <1>1, ProjectIn

\* The products of masks with their keys.
KeyTerms(q, masks, n) == [k \in 0..(Rank(n) - 1) |-> Mul(masks[k], ProjectAt(q, N, n, k), n)]

\* The terms of the inner product with the key are polynomials.
LEMMA KeyTermsIn ==
  ASSUME NEW n \in Degrees, NEW q \in Poly(N), NEW masks \in Masks(n)
  PROVE  /\ KeyTerms(q, masks, n) \in Terms(Rank(n), n)
         /\ \A k \in 0..(Rank(n) - 1) : KeyTerms(q, masks, n)[k] = Mul(masks[k], ProjectAt(q, N, n, k), n)
  <1>1. n \in Nat \ {0}
    BY Degree
  <1>2. \A k \in 0..(Rank(n) - 1) : masks[k] \in Poly(n)
    BY DEF Masks
  <1>3. \A k \in 0..(Rank(n) - 1) : Mul(masks[k], ProjectAt(q, N, n, k), n) \in Poly(n)
    BY <1>1, <1>2, KeyIn, MulClosed
  <1>4. QED BY <1>3, Zenon DEF KeyTerms, Terms

\* The sum of a ciphertext's masks times their keys.
KeyDot(masks, n) ==
  LET Keyed(k) == Key(n, k) IN Dot(masks, 0, Rank(n), n, Keyed)

\* The inner product of masks and keys as a sum.
LEMMA KeyDotIs ==
  ASSUME s \in Poly(N), NEW n \in Degrees, NEW masks \in Masks(n)
  PROVE  /\ KeyDot(masks, n) = Sums(KeyTerms(s, masks, n), 0, Rank(n), n)
         /\ KeyDot(masks, n) \in Poly(n)
  <1>1. Rank(n) \in Nat \ {0} /\ n \in Nat \ {0}
    BY Degree
  <1> DEFINE R == Rank(n)
             T == KeyTerms(s, masks, n)
             Solves(f) == f = [k \in 0..R |-> IF k = 0 THEN Zero(n)
                                              ELSE Add(f[k - 1], Mul(masks[k - 1], Key(n, k - 1), n))]
             f0 == CHOOSE f : Solves(f)
  <1>3. T \in Terms(R, n) /\ \A k \in 0..(R - 1) : T[k] = Mul(masks[k], Key(n, k), n)
    BY KeyTermsIn DEF Key
  <1>4. KeyDot(masks, n) = f0[R]
    BY Zenon DEF KeyDot, Dot
  <1> HIDE DEF R, T
  <1>5. R \in Nat
    BY <1>1 DEF R
  <1>6. PICK h \in [0..R -> Poly(n)] : IsSums(h, T, 0, R, n) /\ Sums(T, 0, R, n) = h[R]
    BY <1>3, <1>5, SumsExistFrom0
  <1>7. \A k \in 0..R : k # 0 => k \in (0 + 1)..R /\ k - 1 \in 0..(R - 1)
    BY <1>5
  <1>8. \A k \in (0 + 1)..R : k # 0 /\ k \in 0..R /\ k - 1 \in 0..(R - 1)
    BY <1>5
  <1>9. 0 \in 0..R /\ R \in 0..R
    BY <1>5
  <1>10. Solves(h)
    <2>1. ASSUME NEW k \in 0..R
          PROVE  h[k] = IF k = 0 THEN Zero(n) ELSE Add(h[k - 1], Mul(masks[k - 1], Key(n, k - 1), n))
      <3>1. CASE k = 0
        BY <1>6, <3>1 DEF IsSums
      <3>2. CASE k # 0
        <4>1. h[k] = Add(h[k - 1], T[k - 1])
          BY <1>6, <1>7, <3>2 DEF IsSums
        <4>2. T[k - 1] = Mul(masks[k - 1], Key(n, k - 1), n)
          BY <1>3, <1>7, <3>2
        <4>3. QED BY <3>2, <4>1, <4>2
      <3>3. QED BY <3>1, <3>2
    <2>2. h = [k \in 0..R |-> h[k]]
      OBVIOUS
    <2>3. QED BY <2>1, <2>2, Zenon
  <1>11. Solves(f0)
    BY <1>10, Zenon
  <1> HIDE DEF f0
  <1>12. IsSums(f0, T, 0, R, n)
    <2>1. f0[0] = Zero(n)
      BY <1>9, <1>11, Zenon
    <2>2. ASSUME NEW l \in (0 + 1)..R PROVE f0[l] = Add(f0[l - 1], T[l - 1])
      <3>1. f0[l] = Add(f0[l - 1], Mul(masks[l - 1], Key(n, l - 1), n))
        BY <1>8, <1>11, Zenon
      <3>2. T[l - 1] = Mul(masks[l - 1], Key(n, l - 1), n)
        BY <1>3, <1>8
      <3>3. QED BY <3>1, <3>2
    <2>3. QED BY <2>1, <2>2 DEF IsSums
  <1>13. Sums(T, 0, R, n) = f0[R]
    <2>1. 0 \in Nat /\ 0 <= R
      BY <1>5
    <2>2. QED BY <1>5, <1>12, <2>1, SumsIs
  <1>14. Sums(T, 0, R, n) \in Poly(n)
    <2>1. 0 \in Nat /\ 0 <= R
      BY <1>5
    <2>2. QED BY <1>3, <1>5, <2>1, SumsClosed
  <1>15. QED BY <1>4, <1>13, <1>14 DEF R, T

\* What a ciphertext decrypts to, with the secret as a parameter.
PhaseOf(q, ct, n) == Sub(ct.body, Sums(KeyTerms(q, ct.masks, n), 0, Rank(n), n))

\* What a ciphertext decrypts to, as a function of the secret.
LEMMA PhaseIs ==
  ASSUME s \in Poly(N), NEW n \in Degrees, NEW ct \in Cts(n)
  PROVE  /\ Phase(ct, n) = Sub(ct.body, Sums(KeyTerms(s, ct.masks, n), 0, Rank(n), n))
         /\ Phase(ct, n) = PhaseOf(s, ct, n)
         /\ Phase(ct, n) \in Poly(n)
  <1>1. ct.masks \in Masks(n) /\ ct.body \in Poly(n)
    BY DEF Cts
  <1>2. Phase(ct, n) = Sub(ct.body, KeyDot(ct.masks, n))
    BY Zenon DEF Phase, KeyDot
  <1>3. /\ KeyDot(ct.masks, n) = Sums(KeyTerms(s, ct.masks, n), 0, Rank(n), n)
        /\ KeyDot(ct.masks, n) \in Poly(n)
    BY <1>1, KeyDotIs
  <1>4. Sub(ct.body, KeyDot(ct.masks, n)) \in Poly(n)
    BY <1>1, <1>3, PolyCancel
  <1>5. QED BY <1>2, <1>3, <1>4 DEF PhaseOf

\* Decryption inverts encryption.
LEMMA EncryptIs ==
  ASSUME s \in Poly(N), NEW n \in Degrees, NEW masks \in Masks(n), NEW m \in Poly(n)
  PROVE  /\ Encrypt(m, masks, n) \in Cts(n)
         /\ Encrypt(m, masks, n).masks = masks
         /\ Phase(Encrypt(m, masks, n), n) = m
  <1> DEFINE d == KeyDot(masks, n)
             ct == Encrypt(m, masks, n)
  <1>1. d \in Poly(n)
    BY KeyDotIs
  <1>2. ct = Ct(masks, Add(d, m))
    BY Zenon DEF Encrypt, KeyDot
  <1> HIDE DEF ct
  <1>3. ct.masks = masks /\ ct.body = Add(d, m) /\ ct = [masks |-> masks, body |-> Add(d, m)]
    BY <1>2 DEF Ct
  <1>4. Phase(ct, n) = Sub(ct.body, KeyDot(ct.masks, n))
    BY Zenon DEF Phase, KeyDot
  <1> HIDE DEF d
  <1>5. Add(d, m) \in Poly(n) /\ Add(d, m) = Add(m, d) /\ Sub(Add(m, d), d) = m
    BY <1>1, PolySums, PolyCancel
  <1>6. ct \in Cts(n)
    BY <1>3, <1>5 DEF Cts
  <1>7. KeyDot(ct.masks, n) = d
    BY <1>3 DEF d
  <1>8. QED BY <1>3, <1>4, <1>5, <1>6, <1>7 DEF ct

\* A ciphertext of degree N has one mask, keyed by the secret.
LEMMA PhaseOfOne ==
  ASSUME s \in Poly(N), NEW ct \in Cts(N)
  PROVE  Phase(ct, N) = Sub(ct.body, Mul(ct.masks[0], s, N))
         /\ ct.masks[0] \in Poly(N) /\ ct.body \in Poly(N)
  <1>1. N \in Degrees /\ N \in Nat \ {0} /\ Rank(N) = 1
    <2>1. N \in Degrees
      BY DegreeEnds
    <2>2. QED BY <2>1, Degree
  <1>2. ProjectAt(s, N, N, 0) = s
    <2>1. N = 1 * N /\ 1 \in Nat \ {0} /\ 0 \in 0..(1 - 1)
      BY <1>1
    <2>2. /\ ProjectAt(s, N, N, 0) \in Poly(N)
          /\ \A i \in 0..(N - 1) : ProjectAt(s, N, N, 0)[i] = s[1 * i + 0]
      BY <1>1, <2>1, ProjectIn
    <2>3. \A i \in 0..(N - 1) : 1 * i + 0 = i
      BY <1>1
    <2>4. \A i \in 0..(N - 1) : ProjectAt(s, N, N, 0)[i] = s[i]
      BY <2>2, <2>3
    <2>5. QED BY <2>2, <2>4, PolyEqual
  <1>3. ct.masks \in Masks(N) /\ ct.body \in Poly(N)
    BY DEF Cts
  <1>4. 0 \in 0..(Rank(N) - 1)
    BY <1>1
  <1>5. ct.masks[0] \in Poly(N)
    BY <1>3, <1>4 DEF Masks
  <1> DEFINE T == KeyTerms(s, ct.masks, N)
  <1>6. T \in Terms(1, N) /\ T[0] = Mul(ct.masks[0], s, N)
    BY <1>1, <1>2, <1>3, <1>4, KeyTermsIn
  <1> HIDE DEF T
  <1>7. Sums(T, 0, 1, N) = Add(T[0], Sums(T, 0 + 1, 1, N)) /\ T[0] \in Poly(N)
    BY <1>6, SumsSplit
  <1>8. Sums(T, 1, 1, N) = Zero(N)
    BY SumsEmpty
  <1>9. Add(T[0], Zero(N)) = T[0]
    BY <1>7, PolySums
  <1>10. Sums(T, 0, 1, N) = T[0]
    <2>1. 0 + 1 = 1
      OBVIOUS
    <2>2. QED BY <1>7, <1>8, <1>9, <2>1
  <1>11. Phase(ct, N) = Sub(ct.body, Sums(T, 0, 1, N))
    BY <1>1, PhaseIs DEF T
  <1>12. QED BY <1>3, <1>5, <1>6, <1>10, <1>11

-----------------------------------------------------------------------------
(***************************************************************************)
(* One conversion.                                                         *)
(***************************************************************************)

\* The masks that are to be switched, and what they contribute.
Embedded(n) == [0..(Rank(n) - 1) -> Poly(2 * n)]

FromTerms(q, masks, n) ==
  [k \in 0..(Rank(n) - 1) |-> Mul(masks[k], Iota(ProjectAt(q, N, n, k), n, 0), 2 * n)]

\* The terms of masks still under their old keys are polynomials.
LEMMA FromTermsIn ==
  ASSUME NEW n \in Degrees, NEW q \in Poly(N), NEW masks \in Embedded(n)
  PROVE  /\ FromTerms(q, masks, n) \in Terms(Rank(n), 2 * n)
         /\ \A k \in 0..(Rank(n) - 1) :
              FromTerms(q, masks, n)[k] = Mul(masks[k], Iota(ProjectAt(q, N, n, k), n, 0), 2 * n)
  <1>1. n \in Nat \ {0} /\ 2 * n \in Nat \ {0} /\ 0 \in {0, 1}
    BY Degree
  <1>2. \A k \in 0..(Rank(n) - 1) : masks[k] \in Poly(2 * n) /\ Iota(ProjectAt(q, N, n, k), n, 0) \in Poly(2 * n)
    BY <1>1, KeyIn, IotaAt DEF Embedded
  <1>3. \A k \in 0..(Rank(n) - 1) : Mul(masks[k], Iota(ProjectAt(q, N, n, k), n, 0), 2 * n) \in Poly(2 * n)
    BY <1>1, <1>2, MulClosed
  <1>4. QED BY <1>3, Zenon DEF FromTerms, Terms

\* The sum in PhaseCarried.
Remaining(masks, lo, n) ==
  LET Old(k) == EmbedAt(Key(n, k), n, 2 * n, 0) IN Dot(masks, lo, Rank(n), 2 * n, Old)

\* The masks from lo on under their old keys, as a sum.
LEMMA RemainingIs ==
  ASSUME s \in Poly(N), NEW n \in Degrees, NEW masks \in Embedded(n), NEW lo \in 0..Rank(n)
  PROVE  Remaining(masks, lo, n) = Sums(FromTerms(s, masks, n), lo, Rank(n), 2 * n)
  <1>1. Rank(n) \in Nat \ {0}
    BY Degree
  <1> DEFINE R == Rank(n)
             T == FromTerms(s, masks, n)
             Solves(f) == f = [k \in lo..R |-> IF k = lo THEN Zero(2 * n)
                                 ELSE Add(f[k - 1], Mul(masks[k - 1], EmbedAt(Key(n, k - 1), n, 2 * n, 0), 2 * n))]
             f0 == CHOOSE f : Solves(f)
  <1>3. T \in Terms(R, 2 * n)
        /\ \A k \in 0..(R - 1) : T[k] = Mul(masks[k], EmbedAt(Key(n, k), n, 2 * n, 0), 2 * n)
    BY FromTermsIn DEF Key, Iota
  <1>4. Remaining(masks, lo, n) = f0[R]
    BY Zenon DEF Remaining, Dot
  <1> HIDE DEF R, T
  <1>5. R \in Nat /\ lo \in Nat /\ lo <= R
    BY <1>1 DEF R
  <1>6. PICK h \in [lo..R -> Poly(2 * n)] : IsSums(h, T, lo, R, 2 * n) /\ Sums(T, lo, R, 2 * n) = h[R]
    BY <1>3, <1>5, SumsExist
  <1>7. \A k \in lo..R : k # lo => k \in (lo + 1)..R /\ k - 1 \in 0..(R - 1)
    BY <1>5
  <1>8. \A k \in (lo + 1)..R : k # lo /\ k \in lo..R /\ k - 1 \in 0..(R - 1)
    BY <1>5
  <1>9. lo \in lo..R
    BY <1>5
  <1>10. Solves(h)
    <2>1. ASSUME NEW k \in lo..R
          PROVE  h[k] = IF k = lo THEN Zero(2 * n)
                        ELSE Add(h[k - 1], Mul(masks[k - 1], EmbedAt(Key(n, k - 1), n, 2 * n, 0), 2 * n))
      <3>1. CASE k = lo
        BY <1>6, <3>1 DEF IsSums
      <3>2. CASE k # lo
        <4>1. h[k] = Add(h[k - 1], T[k - 1])
          BY <1>6, <1>7, <3>2 DEF IsSums
        <4>2. T[k - 1] = Mul(masks[k - 1], EmbedAt(Key(n, k - 1), n, 2 * n, 0), 2 * n)
          BY <1>3, <1>7, <3>2
        <4>3. QED BY <3>2, <4>1, <4>2
      <3>3. QED BY <3>1, <3>2
    <2>2. h = [k \in lo..R |-> h[k]]
      OBVIOUS
    <2>3. QED BY <2>1, <2>2, Zenon
  <1>11. Solves(f0)
    BY <1>10, Zenon
  <1> HIDE DEF f0
  <1>12. IsSums(f0, T, lo, R, 2 * n)
    <2>1. f0[lo] = Zero(2 * n)
      BY <1>9, <1>11, Zenon
    <2>2. ASSUME NEW l \in (lo + 1)..R PROVE f0[l] = Add(f0[l - 1], T[l - 1])
      <3>1. f0[l] = Add(f0[l - 1], Mul(masks[l - 1], EmbedAt(Key(n, l - 1), n, 2 * n, 0), 2 * n))
        BY <1>8, <1>11, Zenon
      <3>2. T[l - 1] = Mul(masks[l - 1], EmbedAt(Key(n, l - 1), n, 2 * n, 0), 2 * n)
        BY <1>3, <1>8
      <3>3. QED BY <3>1, <3>2
    <2>3. QED BY <2>1, <2>2 DEF IsSums
  <1>13. Sums(T, lo, R, 2 * n) = f0[R]
    BY <1>5, <1>12, SumsIs
  <1>14. QED BY <1>4, <1>13 DEF R, T

\* What a ciphertext contributes to the slots y of the next degree.
EmbeddedMasks(ct, n, y) == [k \in 0..(Rank(n) - 1) |-> Iota(ct.masks[k], n, y)]

\* The embedded inner product is the inner product of what is embedded.
LEMMA EmbeddedPhase ==
  ASSUME NEW q \in Poly(N), NEW n \in Degrees, NEW ct \in Cts(n), NEW y \in {0, 1}
  PROVE  /\ EmbeddedMasks(ct, n, y) \in Embedded(n)
         /\ Iota(Sums(KeyTerms(q, ct.masks, n), 0, Rank(n), n), n, y)
              = Sums(FromTerms(q, EmbeddedMasks(ct, n, y), n), 0, Rank(n), 2 * n)
  <1>1. n \in Nat \ {0} /\ Rank(n) \in Nat /\ ct.masks \in Masks(n)
    BY Degree DEF Cts
  <1>2. \A k \in 0..(Rank(n) - 1) : ct.masks[k] \in Poly(n) /\ ProjectAt(q, N, n, k) \in Poly(n)
    BY <1>1, KeyIn DEF Masks
  <1>3. \A k \in 0..(Rank(n) - 1) : Iota(ct.masks[k], n, y) \in Poly(2 * n)
    BY <1>1, <1>2, IotaAt
  <1>4. EmbeddedMasks(ct, n, y) \in Embedded(n)
        /\ \A k \in 0..(Rank(n) - 1) : EmbeddedMasks(ct, n, y)[k] = Iota(ct.masks[k], n, y)
    BY <1>3, Zenon DEF EmbeddedMasks, Embedded
  <1> DEFINE L == [f \in Poly(n) |-> Iota(f, n, y)]
             T == KeyTerms(q, ct.masks, n)
             U == FromTerms(q, EmbeddedMasks(ct, n, y), n)
             R == Rank(n)
  <1>5. L \in [Poly(n) -> Poly(2 * n)] /\ \A f \in Poly(n) : L[f] = Iota(f, n, y)
    <2>1. \A f \in Poly(n) : Iota(f, n, y) \in Poly(2 * n)
      BY <1>1, IotaAt
    <2>2. QED BY <2>1, Zenon
  <1>6. T \in Terms(R, n) /\ \A k \in 0..(R - 1) : T[k] = Mul(ct.masks[k], ProjectAt(q, N, n, k), n)
    BY <1>1, KeyTermsIn
  <1>7. \A k \in 0..(R - 1) : U[k] = Mul(Iota(ct.masks[k], n, y), Iota(ProjectAt(q, N, n, k), n, 0), 2 * n)
    BY <1>4, FromTermsIn
  <1> HIDE DEF L
  <1>8. ASSUME NEW k \in 0..(R - 1) PROVE U[k] = L[T[k]]
    <2>1. ct.masks[k] \in Poly(n) /\ ProjectAt(q, N, n, k) \in Poly(n)
      BY <1>2
    <2>2. Mul(ct.masks[k], ProjectAt(q, N, n, k), n) \in Poly(n)
      BY <1>1, <2>1, MulClosed
    <2>3. Iota(Mul(ct.masks[k], ProjectAt(q, N, n, k), n), n, y)
            = Mul(Iota(ct.masks[k], n, y), Iota(ProjectAt(q, N, n, k), n, 0), 2 * n)
      BY <1>1, <2>1, IotaMul
    <2>4. QED BY <1>5, <1>6, <1>7, <2>2, <2>3
  <1> HIDE DEF T, U, R
  <1>9. R \in Nat
    BY <1>1 DEF R
  <1>10. L[Zero(n)] = Zero(2 * n)
    <2>1. Zero(n) \in Poly(n)
      BY <1>2, PolyAt, <1>1, IotaOne
    <2>2. QED BY <1>1, <1>5, <2>1, IotaZero
  <1>11. \A f, g \in Poly(n) : L[Add(f, g)] = Add(L[f], L[g])
    <2>1. ASSUME NEW f \in Poly(n), NEW g \in Poly(n) PROVE L[Add(f, g)] = Add(L[f], L[g])
      <3>1. Add(f, g) \in Poly(n)
        BY AddClosed
      <3>2. Iota(Add(f, g), n, y) = Add(Iota(f, n, y), Iota(g, n, y))
        BY <1>1, IotaAdd
      <3>3. QED BY <1>5, <3>1, <3>2
    <2>2. QED BY <2>1
  <1>12. Sums(U, 0, R, 2 * n) = L[Sums(T, 0, R, n)]
    BY <1>5, <1>6, <1>8, <1>9, <1>10, <1>11, SumsMapped
  <1>13. Sums(T, 0, R, n) \in Poly(n)
    <2>1. 0 \in Nat /\ 0 <= R
      BY <1>9
    <2>2. QED BY <1>6, <1>9, <2>1, SumsClosed
  <1>14. L[Sums(T, 0, R, n)] = Iota(Sums(T, 0, R, n), n, y)
    BY <1>5, <1>13
  <1>15. QED BY <1>4, <1>12, <1>14 DEF T, U, R

\* A sequence over the positions of another has its length.
LEMMA LenOver ==
  ASSUME NEW S, NEW q \in Seq(S), NEW T, NEW f \in [DOMAIN q -> T]
  PROVE  Len(f) = Len(q)
  <1>1. Len(q) \in Nat /\ DOMAIN q = 1..Len(q)
    BY LenProperties
  <1>2. f \in [1..Len(q) -> T]
    BY <1>1
  <1>3. f \in Seq(T)
    BY <1>1, <1>2, SeqDef
  <1>4. Len(f) \in Nat /\ DOMAIN f = 1..Len(f)
    BY <1>3, LenProperties
  <1>5. 1..Len(f) = 1..Len(q)
    BY <1>1, <1>2, <1>4
  <1>6. QED BY <1>1, <1>4, <1>5

\* embed_d on one and on two inputs.
LEMMA EmbedIs ==
  ASSUME NEW n \in Degrees, NEW inputs \in Seq(Cts(n)), Len(inputs) \in {1, 2}
  PROVE  /\ Len(inputs) = 1 =>
              Embed(inputs, n) = Ct(EmbeddedMasks(inputs[1], n, 0), Iota(inputs[1].body, n, 0))
         /\ Len(inputs) = 2 =>
              Embed(inputs, n) = Ct([k \in 0..(Rank(n) - 1) |-> Add(EmbeddedMasks(inputs[1], n, 0)[k],
                                                                    EmbeddedMasks(inputs[2], n, 1)[k])],
                                    Add(Iota(inputs[1].body, n, 0), Iota(inputs[2].body, n, 1)))
         /\ \A i \in 1..Len(inputs) : inputs[i] \in Cts(n)
  <1> DEFINE Join(fs) == IF Len(fs) = 1 THEN EmbedAt(fs[1], n, 2 * n, 0)
                         ELSE Add(EmbedAt(fs[1], n, 2 * n, 0), EmbedAt(fs[2], n, 2 * n, 1))
             M(k) == [i \in DOMAIN inputs |-> inputs[i].masks[k]]
             B == [i \in DOMAIN inputs |-> inputs[i].body]
  <1>1. Embed(inputs, n) = Ct([k \in 0..(Rank(n) - 1) |-> Join(M(k))], Join(B))
    BY Zenon DEF Embed
  <1>2. DOMAIN inputs = 1..Len(inputs) /\ \A i \in 1..Len(inputs) : inputs[i] \in Cts(n)
    BY LenProperties
  <1>3. \A i \in 1..Len(inputs) : /\ inputs[i].body \in Poly(n)
                                  /\ \A k \in 0..(Rank(n) - 1) : inputs[i].masks[k] \in Poly(n)
    BY <1>2 DEF Cts, Masks
  <1>4. Len(B) = Len(inputs) /\ \A k \in 0..(Rank(n) - 1) : Len(M(k)) = Len(inputs)
    <2>1. B \in [DOMAIN inputs -> Poly(n)]
      BY <1>2, <1>3
    <2>2. \A k \in 0..(Rank(n) - 1) : M(k) \in [DOMAIN inputs -> Poly(n)]
      BY <1>2, <1>3
    <2> HIDE DEF M, B
    <2>3. Len(B) = Len(inputs)
      BY <2>1, LenOver
    <2>4. ASSUME NEW k \in 0..(Rank(n) - 1) PROVE Len(M(k)) = Len(inputs)
      <3>1. M(k) \in [DOMAIN inputs -> Poly(n)]
        BY <2>2
      <3>2. QED BY <3>1, LenOver
    <2>5. QED BY <2>3, <2>4
  <1>5. \A i \in 1..Len(inputs) : /\ B[i] = inputs[i].body
                                  /\ \A k \in 0..(Rank(n) - 1) : M(k)[i] = inputs[i].masks[k]
    BY <1>2
  <1> HIDE DEF M, B
  <1>6. \A i \in 1..2, y \in {0, 1} : \A k \in 0..(Rank(n) - 1) :
          EmbeddedMasks(inputs[i], n, y)[k] = Iota(inputs[i].masks[k], n, y)
    BY Zenon DEF EmbeddedMasks
  <1>7. ASSUME Len(inputs) = 1
        PROVE  Embed(inputs, n) = Ct(EmbeddedMasks(inputs[1], n, 0), Iota(inputs[1].body, n, 0))
    <2>1. 1 \in 1..Len(inputs)
      BY <1>7
    <2>2. Join(B) = Iota(inputs[1].body, n, 0)
      BY <1>4, <1>5, <1>7, <2>1 DEF Iota
    <2>3. \A k \in 0..(Rank(n) - 1) : Join(M(k)) = Iota(inputs[1].masks[k], n, 0)
      BY <1>4, <1>5, <1>7, <2>1 DEF Iota
    <2> HIDE DEF Join
    <2>4. [k \in 0..(Rank(n) - 1) |-> Join(M(k))] = EmbeddedMasks(inputs[1], n, 0)
      BY <2>3, Zenon DEF EmbeddedMasks
    <2>5. QED BY <1>1, <2>2, <2>4
  <1>8. ASSUME Len(inputs) = 2
        PROVE  Embed(inputs, n) = Ct([k \in 0..(Rank(n) - 1) |-> Add(EmbeddedMasks(inputs[1], n, 0)[k],
                                                                     EmbeddedMasks(inputs[2], n, 1)[k])],
                                     Add(Iota(inputs[1].body, n, 0), Iota(inputs[2].body, n, 1)))
    <2>1. 1 \in 1..Len(inputs) /\ 2 \in 1..Len(inputs) /\ Len(inputs) # 1
      BY <1>8
    <2>2. Join(B) = Add(Iota(inputs[1].body, n, 0), Iota(inputs[2].body, n, 1))
      BY <1>4, <1>5, <1>8, <2>1 DEF Iota
    <2>3. \A k \in 0..(Rank(n) - 1) : Join(M(k)) = Add(Iota(inputs[1].masks[k], n, 0), Iota(inputs[2].masks[k], n, 1))
      BY <1>4, <1>5, <1>8, <2>1 DEF Iota
    <2> HIDE DEF Join
    <2>4. \A k \in 0..(Rank(n) - 1) :
            Join(M(k)) = Add(EmbeddedMasks(inputs[1], n, 0)[k], EmbeddedMasks(inputs[2], n, 1)[k])
      <3>1. 1 \in 1..2 /\ 2 \in 1..2
        OBVIOUS
      <3>2. QED BY <1>6, <2>3, <3>1
    <2>5. [k \in 0..(Rank(n) - 1) |-> Join(M(k))]
            = [k \in 0..(Rank(n) - 1) |-> Add(EmbeddedMasks(inputs[1], n, 0)[k], EmbeddedMasks(inputs[2], n, 1)[k])]
      BY <2>4, Zenon
    <2>6. QED BY <1>1, <2>2, <2>5
  <1>9. QED BY <1>2, <1>7, <1>8

\* What the embedded body and masks decrypt to under the embedded keys.
LEMMA CarriedByOne ==
  ASSUME s \in Poly(N), NEW n \in Degrees, NEW ct \in Cts(n), NEW y \in {0, 1}
  PROVE  /\ Sub(Iota(ct.body, n, y), Sums(FromTerms(s, EmbeddedMasks(ct, n, y), n), 0, Rank(n), 2 * n))
              = Iota(Phase(ct, n), n, y)
         /\ Sums(FromTerms(s, EmbeddedMasks(ct, n, y), n), 0, Rank(n), 2 * n) \in Poly(2 * n)
         /\ Iota(ct.body, n, y) \in Poly(2 * n)
  <1> DEFINE A == Sums(KeyTerms(s, ct.masks, n), 0, Rank(n), n)
  <1>1. n \in Nat \ {0} /\ Rank(n) \in Nat /\ ct.masks \in Masks(n) /\ ct.body \in Poly(n)
    BY Degree DEF Cts
  <1>2. A \in Poly(n)
    <2>1. KeyTerms(s, ct.masks, n) \in Terms(Rank(n), n)
      BY <1>1, KeyTermsIn
    <2>2. 0 \in Nat /\ 0 <= Rank(n)
      BY <1>1
    <2>3. QED BY <1>1, <2>1, <2>2, SumsClosed
  <1>3. Iota(A, n, y) = Sums(FromTerms(s, EmbeddedMasks(ct, n, y), n), 0, Rank(n), 2 * n)
    BY EmbeddedPhase
  <1>4. Phase(ct, n) = Sub(ct.body, A)
    BY PhaseIs
  <1> HIDE DEF A
  <1>5. Iota(Sub(ct.body, A), n, y) = Sub(Iota(ct.body, n, y), Iota(A, n, y))
    BY <1>1, <1>2, IotaSub
  <1>6. Iota(A, n, y) \in Poly(2 * n) /\ Iota(ct.body, n, y) \in Poly(2 * n)
    BY <1>1, <1>2, IotaAt
  <1>7. QED BY <1>3, <1>4, <1>5, <1>6

\* A pair embedded, masks and body, under the embedded keys decrypts to the pair interleaved.
LEMMA CarriedByTwo ==
  ASSUME s \in Poly(N), NEW n \in Degrees, NEW c1 \in Cts(n), NEW c2 \in Cts(n), NEW masks,
         masks = [k \in 0..(Rank(n) - 1) |-> Add(EmbeddedMasks(c1, n, 0)[k], EmbeddedMasks(c2, n, 1)[k])]
  PROVE  /\ masks \in Embedded(n)
         /\ Add(Iota(c1.body, n, 0), Iota(c2.body, n, 1)) \in Poly(2 * n)
         /\ Sub(Add(Iota(c1.body, n, 0), Iota(c2.body, n, 1)),
                Sums(FromTerms(s, masks, n), 0, Rank(n), 2 * n))
              = Add(Iota(Phase(c1, n), n, 0), Iota(Phase(c2, n), n, 1))
  <1> DEFINE M1 == EmbeddedMasks(c1, n, 0)
             M2 == EmbeddedMasks(c2, n, 1)
             A1 == Sums(FromTerms(s, M1, n), 0, Rank(n), 2 * n)
             A2 == Sums(FromTerms(s, M2, n), 0, Rank(n), 2 * n)
  <1>1. n \in Nat \ {0} /\ 2 * n \in Nat \ {0} /\ Rank(n) \in Nat
    BY Degree
  <1>2. /\ Sub(Iota(c1.body, n, 0), A1) = Iota(Phase(c1, n), n, 0)
        /\ A1 \in Poly(2 * n) /\ Iota(c1.body, n, 0) \in Poly(2 * n) /\ M1 \in Embedded(n)
    <2>1. 0 \in {0, 1}
      OBVIOUS
    <2>2. QED BY <2>1, CarriedByOne, EmbeddedPhase
  <1>3. /\ Sub(Iota(c2.body, n, 1), A2) = Iota(Phase(c2, n), n, 1)
        /\ A2 \in Poly(2 * n) /\ Iota(c2.body, n, 1) \in Poly(2 * n) /\ M2 \in Embedded(n)
    <2>1. 1 \in {0, 1}
      OBVIOUS
    <2>2. QED BY <2>1, CarriedByOne, EmbeddedPhase
  <1> HIDE DEF M1, M2
  <1>4. \A k \in 0..(Rank(n) - 1) : M1[k] \in Poly(2 * n) /\ M2[k] \in Poly(2 * n) /\ masks[k] = Add(M1[k], M2[k])
    <2>1. \A k \in 0..(Rank(n) - 1) : M1[k] \in Poly(2 * n) /\ M2[k] \in Poly(2 * n)
      BY <1>2, <1>3 DEF Embedded
    <2>2. \A k \in 0..(Rank(n) - 1) : masks[k] = Add(M1[k], M2[k])
      BY Zenon DEF M1, M2
    <2>3. QED BY <2>1, <2>2
  <1>5. masks \in Embedded(n)
    <2>1. \A k \in 0..(Rank(n) - 1) : Add(M1[k], M2[k]) \in Poly(2 * n)
      BY <1>4, AddClosed
    <2>2. QED BY <2>1, Zenon DEF Embedded, M1, M2
  <1> DEFINE T1 == FromTerms(s, M1, n)
             T2 == FromTerms(s, M2, n)
             T == FromTerms(s, masks, n)
             R == Rank(n)
             K(k) == Iota(ProjectAt(s, N, n, k), n, 0)
  <1>6. /\ T1 \in Terms(R, 2 * n) /\ T2 \in Terms(R, 2 * n)
        /\ \A k \in 0..(R - 1) : /\ T1[k] = Mul(M1[k], K(k), 2 * n) /\ T2[k] = Mul(M2[k], K(k), 2 * n)
                                 /\ T[k] = Mul(masks[k], K(k), 2 * n) /\ K(k) \in Poly(2 * n)
    <2>1. T1 \in Terms(R, 2 * n) /\ \A k \in 0..(R - 1) : T1[k] = Mul(M1[k], K(k), 2 * n)
      BY <1>2, FromTermsIn
    <2>2. T2 \in Terms(R, 2 * n) /\ \A k \in 0..(R - 1) : T2[k] = Mul(M2[k], K(k), 2 * n)
      BY <1>3, FromTermsIn
    <2>3. \A k \in 0..(R - 1) : T[k] = Mul(masks[k], K(k), 2 * n)
      BY <1>5, FromTermsIn
    <2>4. \A k \in 0..(R - 1) : K(k) \in Poly(2 * n)
      BY <1>1, KeyIn, IotaAt
    <2>5. QED BY <2>1, <2>2, <2>3, <2>4
  <1> HIDE DEF T1, T2, T, K
  <1>7. \A k \in 0..(R - 1) : T[k] = Add(T1[k], T2[k])
    BY <1>1, <1>4, <1>6, MulSumLeft
  <1>8. Sums(T, 0, R, 2 * n) = Add(Sums(T1, 0, R, 2 * n), Sums(T2, 0, R, 2 * n))
    BY <1>1, <1>6, <1>7, SumsAdd
  <1>9. Sums(T, 0, R, 2 * n) = Add(A1, A2)
    BY <1>8 DEF T1, T2
  <1> DEFINE b1 == Iota(c1.body, n, 0)
             b2 == Iota(c2.body, n, 1)
  <1> HIDE DEF A1, A2, b1, b2
  <1>10. b1 \in Poly(2 * n) /\ b2 \in Poly(2 * n)
    BY <1>2, <1>3 DEF b1, b2
  <1>11. Sub(Add(b1, b2), Add(A1, A2)) = Add(Sub(b1, A1), Sub(b2, A2))
    BY <1>2, <1>3, <1>10, SubAdd
  <1>12. Add(b1, b2) \in Poly(2 * n)
    BY <1>10, AddClosed
  <1>13. Sub(b1, A1) = Iota(Phase(c1, n), n, 0) /\ Sub(b2, A2) = Iota(Phase(c2, n), n, 1)
    BY <1>2, <1>3 DEF b1, b2
  <1>14. Sub(Add(b1, b2), Sums(T, 0, R, 2 * n)) = Add(Iota(Phase(c1, n), n, 0), Iota(Phase(c2, n), n, 1))
    BY <1>9, <1>11, <1>13
  <1>15. QED BY <1>5, <1>12, <1>14 DEF b1, b2, T

\* An empty accumulator.
LEMMA AccumulatorStarts ==
  ASSUME s \in Poly(N), NEW m \in Degrees, NEW b \in Poly(m), NEW ct,
         ct = Ct([j \in 0..(Rank(m) - 1) |-> Zero(m)], b)
  PROVE  ct \in Cts(m) /\ Phase(ct, m) = b
  <1>1. m \in Nat \ {0} /\ Rank(m) \in Nat /\ Zero(m) \in Poly(m)
    BY Degree, SubZero
  <1>2. ct.body = b /\ ct.masks = [j \in 0..(Rank(m) - 1) |-> Zero(m)] /\ ct = [masks |-> ct.masks, body |-> b]
    BY DEF Ct
  <1>3. ct.masks \in Masks(m) /\ \A j \in 0..(Rank(m) - 1) : ct.masks[j] = Zero(m)
    BY <1>1, <1>2 DEF Masks
  <1>4. ct \in Cts(m)
    BY <1>2, <1>3 DEF Cts
  <1> DEFINE T == KeyTerms(s, ct.masks, m)
             R == Rank(m)
  <1>5. ASSUME NEW k \in 0..(R - 1) PROVE T[k] = Zero(m)
    <2>1. T[k] = Mul(ct.masks[k], ProjectAt(s, N, m, k), m)
      BY <1>3, KeyTermsIn
    <2>2. ProjectAt(s, N, m, k) \in Poly(m)
      BY KeyIn
    <2>3. Mul(Zero(m), ProjectAt(s, N, m, k), m) = Zero(m)
      BY <1>1, <2>2, MulZero
    <2>4. QED BY <1>3, <2>1, <2>3
  <1> HIDE DEF T
  <1>6. R \in Nat \ {0} /\ 0 \in 0..(R - 1)
    BY Degree
  <1> HIDE DEF R
  <1>7. Sums(T, 0, R, m) = Zero(m)
    <2>1. \A k \in 0..(R - 1) : T[k] = IF k = 0 THEN Zero(m) ELSE Zero(m)
      BY <1>5
    <2>2. QED BY <1>1, <1>6, <2>1, SumsSingle
  <1>8. Phase(ct, m) = Sub(b, Sums(T, 0, R, m))
    BY <1>2, <1>4, PhaseIs DEF T, R
  <1>9. QED BY <1>4, <1>7, <1>8, SubZero

\* A key switch moves f from the body to the masks that are left.
LEMMA AccumulatorSwitches ==
  ASSUME s \in Poly(N), NEW m \in Degrees, NEW ct \in Cts(m), NEW mask \in Poly(m), NEW f \in Poly(m),
         NEW j \in 0..(Rank(m) - 1), NEW next,
         next = Ct([ct.masks EXCEPT ![j] = Add(@, mask)],
                   Add(ct.body, Sub(Mul(mask, ProjectAt(s, N, m, j), m), f)))
  PROVE  next \in Cts(m) /\ Phase(next, m) = Sub(Phase(ct, m), f)
  <1> DEFINE key == ProjectAt(s, N, m, j)
             p == Mul(mask, key, m)
             R == Rank(m)
  <1>1. m \in Nat \ {0} /\ R \in Nat /\ ct.masks \in Masks(m) /\ ct.body \in Poly(m)
    BY Degree DEF Cts
  <1>2. key \in Poly(m) /\ p \in Poly(m) /\ Sub(p, f) \in Poly(m) /\ Add(ct.body, Sub(p, f)) \in Poly(m)
    <2>1. key \in Poly(m)
      BY KeyIn
    <2>2. p \in Poly(m)
      BY <1>1, <2>1, MulClosed
    <2> HIDE DEF p
    <2>3. Sub(p, f) \in Poly(m)
      BY <2>2, SubClosed
    <2>4. QED BY <1>1, <2>1, <2>2, <2>3, AddClosed
  <1>3. \A k \in 0..(R - 1) : ct.masks[k] \in Poly(m) /\ Add(ct.masks[k], mask) \in Poly(m)
    BY <1>1, AddClosed DEF Masks
  <1>4. /\ next.masks = [ct.masks EXCEPT ![j] = Add(@, mask)] /\ next.body = Add(ct.body, Sub(p, f))
        /\ next = [masks |-> next.masks, body |-> next.body]
    BY DEF Ct
  <1>5. /\ next.masks \in Masks(m)
        /\ \A k \in 0..(R - 1) : next.masks[k] = IF k = j THEN Add(ct.masks[k], mask) ELSE ct.masks[k]
    BY <1>1, <1>3, <1>4 DEF Masks
  <1>6. next \in Cts(m)
    BY <1>2, <1>4, <1>5 DEF Cts
  <1> DEFINE T == KeyTerms(s, ct.masks, m)
             V == KeyTerms(s, next.masks, m)
             U == [k \in 0..(R - 1) |-> IF k = j THEN p ELSE Zero(m)]
  <1> HIDE DEF p
  <1>7. U \in Terms(R, m) /\ \A k \in 0..(R - 1) : U[k] = IF k = j THEN p ELSE Zero(m)
    <2>1. Zero(m) \in Poly(m)
      BY <1>2, SubZero
    <2>2. QED BY <1>2, <2>1 DEF Terms
  <1>8. T \in Terms(R, m) /\ \A k \in 0..(R - 1) : T[k] = Mul(ct.masks[k], ProjectAt(s, N, m, k), m)
    BY <1>1, KeyTermsIn
  <1>9. \A k \in 0..(R - 1) : V[k] = Mul(next.masks[k], ProjectAt(s, N, m, k), m)
    BY <1>5, KeyTermsIn
  <1> HIDE DEF T, U, V
  <1>10. ASSUME NEW k \in 0..(R - 1) PROVE V[k] = Add(T[k], U[k])
    <2>1. ProjectAt(s, N, m, k) \in Poly(m) /\ ct.masks[k] \in Poly(m)
      BY <1>3, KeyIn
    <2>2. CASE k = j
      <3>1. Mul(Add(ct.masks[k], mask), key, m) = Add(Mul(ct.masks[k], key, m), p)
        BY <1>1, <1>2, <2>1, MulSumLeft DEF p
      <3>2. QED BY <1>5, <1>7, <1>8, <1>9, <2>2, <3>1
    <2>3. CASE k # j
      <3>1. T[k] \in Poly(m)
        BY <1>8 DEF Terms
      <3>2. Add(T[k], Zero(m)) = T[k]
        BY <3>1, PolySums
      <3>3. QED BY <1>5, <1>7, <1>8, <1>9, <2>3, <3>2
    <2>4. QED BY <2>2, <2>3
  <1> DEFINE S == Sums(T, 0, R, m)
  <1>11. Sums(V, 0, R, m) = Add(S, Sums(U, 0, R, m))
    BY <1>1, <1>7, <1>8, <1>10, SumsAdd
  <1>12. Sums(U, 0, R, m) = p
    BY <1>1, <1>2, <1>7, SumsSingle
  <1>13. S \in Poly(m)
    <2>1. 0 \in Nat /\ 0 <= R
      BY <1>1
    <2>2. QED BY <1>1, <1>8, <2>1, SumsClosed
  <1>14. Phase(ct, m) = Sub(ct.body, S) /\ Phase(next, m) = Sub(next.body, Sums(V, 0, R, m))
    BY <1>6, PhaseIs DEF T, V
  <1> HIDE DEF S
  <1> DEFINE d == Sub(p, f)
             u == Sub(ct.body, S)
  <1>15. d \in Poly(m) /\ u \in Poly(m)
    BY <1>1, <1>2, <1>13, SubClosed
  <1>16. Sub(d, p) = Neg(f)
    BY <1>2, SubMiddle
  <1> HIDE DEF d
  <1>17. Sub(Add(ct.body, d), Add(S, p)) = Add(u, Sub(d, p))
    BY <1>1, <1>2, <1>13, <1>15, SubAdd
  <1>18. Add(u, Neg(f)) = Sub(u, f)
    BY <1>15, SubIs
  <1>19. Phase(next, m) = Sub(Add(ct.body, d), Add(S, p))
    BY <1>4, <1>11, <1>12, <1>14 DEF d
  <1>20. Phase(next, m) = Sub(u, f)
    BY <1>16, <1>17, <1>18, <1>19
  <1>21. QED BY <1>6, <1>14, <1>20

-----------------------------------------------------------------------------
(***************************************************************************)
(* bit_reverse_index.                                                      *)
(***************************************************************************)

\* x >> a is twice x >> (a + 1) plus the digit that the longer shift drops.
LEMMA DigitHigh ==
  ASSUME NEW x \in Nat, NEW a \in 0..(MaxBits - 1)
  PROVE  /\ Bit(x, a) \in Bits
         /\ x \div Shl[a] = 2 * (x \div Shl[a + 1]) + Bit(x, a)
         /\ x \div Shl[a + 1] \in Nat
  <1> DEFINE d == Shl[a]
             q == x \div d
             h == q \div 2
             b == q % 2
             r == x % d
  <1>1. d \in Nat \ {0} /\ Shl[a + 1] = 2 * d
    <2>1. a \in 0..MaxBits
      BY ShlAssumption
    <2>2. QED BY <2>1, ShlDoubles
  <1>2. q \in Nat /\ r \in 0..(d - 1) /\ x = d * q + r
    BY <1>1, DivMod
  <1>3. h \in Nat /\ b \in 0..1 /\ q = 2 * h + b
    <2>1. q \in Nat
      BY <1>2
    <2> HIDE DEF q
    <2>2. QED BY <2>1
  <1>4. Bit(x, a) = b
    BY DEF Bit
  <1> HIDE DEF d, q, h, b, r
  <1>5. d * b + r \in 0..(2 * d - 1)
    <2>1. CASE b = 0 BY <1>1, <1>2, <2>1, Z3
    <2>2. CASE b = 1 BY <1>1, <1>2, <2>2, Z3
    <2>3. QED BY <1>3, <2>1, <2>2
  <1>6. d * q = 2 * d * h + d * b
    BY <1>1, <1>2, <1>3, Z3
  <1>7. x = (2 * d) * h + (d * b + r)
    BY <1>1, <1>2, <1>3, <1>6, Z3
  <1>8. x \div (2 * d) = h
    BY <1>1, <1>3, <1>5, <1>7, DivModUnique
  <1>9. QED
    BY <1>1, <1>3, <1>4, <1>8 DEF q, d, Bits

\* The a + 1 low digits of x are its a low digits and digit a.
LEMMA DigitLow ==
  ASSUME NEW x \in Nat, NEW a \in 0..(MaxBits - 1)
  PROVE  /\ x % Shl[a + 1] = (x % Shl[a]) + Bit(x, a) * Shl[a]
         /\ x % Shl[a] \in 0..(Shl[a] - 1)
  <1> DEFINE d == Shl[a]
             q == x \div d
             h == x \div Shl[a + 1]
             b == Bit(x, a)
             r == x % d
  <1>1. d \in Nat \ {0} /\ Shl[a + 1] = 2 * d
    <2>1. a \in 0..MaxBits
      BY ShlAssumption
    <2>2. QED BY <2>1, ShlDoubles
  <1>2. q \in Nat /\ r \in 0..(d - 1) /\ x = d * q + r
    BY <1>1, DivMod
  <1>3. h \in Nat /\ b \in Bits /\ q = 2 * h + b
    BY DigitHigh
  <1> HIDE DEF d, q, h, b, r
  <1>5. r + b * d \in 0..(2 * d - 1)
    <2>1. CASE b = 0 BY <1>1, <1>2, <2>1, Z3
    <2>2. CASE b = 1 BY <1>1, <1>2, <2>2, Z3
    <2>3. QED BY <1>3, <2>1, <2>2 DEF Bits
  <1>6. d * q = 2 * d * h + b * d
    BY <1>1, <1>2, <1>3, Z3 DEF Bits
  <1>7. x = (2 * d) * h + (r + b * d)
    BY <1>1, <1>2, <1>3, <1>6, Z3 DEF Bits
  <1>8. x % (2 * d) = r + b * d
    <2>1. 2 * d \in Nat \ {0}
      BY <1>1
    <2>2. QED BY <1>3, <1>5, <1>7, <2>1, DivModUnique
  <1>9. QED
    BY <1>1, <1>2, <1>8 DEF d, r, b

\* r is the table of the low bits of x, reversed.
Reverses(r, x, b) == r = [k \in 0..b |-> IF k = 0 THEN 0 ELSE 2 * r[k - 1] + Bit(x, k - 1)]

\* The same, one bit at a time.
TakesBits(g, x, b) == g[0] = 0 /\ \A k \in 1..b : g[k] = 2 * g[k - 1] + Bit(x, k - 1)

\* bit_reverse_index is what its recursion computes.
LEMMA ReversalUnfolds ==
  ASSUME NEW x, NEW b \in Nat, NEW g, TakesBits(g, x, b)
  PROVE  \A k \in 0..b : BitReverseIndex(x, k) = g[k]
  <1> SUFFICES ASSUME NEW n \in 0..b PROVE BitReverseIndex(x, n) = g[n]
    OBVIOUS
  <1>0. g[0] = 0 /\ \A k \in 1..b : g[k] = 2 * g[k - 1] + Bit(x, k - 1)
    BY DEF TakesBits
  <1> DEFINE h == [k \in 0..n |-> g[k]]
             Solves(f) == f = [k \in 0..n |-> IF k = 0 THEN 0 ELSE 2 * f[k - 1] + Bit(x, k - 1)]
             r == CHOOSE f : Solves(f)
  <1>1. Reverses(h, x, n)
    <2> DEFINE R(k) == IF k = 0 THEN 0 ELSE 2 * h[k - 1] + Bit(x, k - 1)
    <2>1. ASSUME NEW k \in 0..n PROVE g[k] = R(k)
      <3>1. CASE k = 0
        BY <1>0, <3>1
      <3>2. CASE k # 0
        <4>1. k \in 1..b /\ k - 1 \in 0..n
          BY <3>2
        <4>2. QED BY <1>0, <3>2, <4>1
      <3>3. QED BY <3>1, <3>2
    <2>2. h = [k \in 0..n |-> R(k)]
      <3> HIDE DEF R
      <3>1. QED BY <2>1
    <2>3. QED BY <2>2, Zenon DEF Reverses
  <1>2. Solves(r)
    <2>1. Solves(h)
      BY <1>1, Zenon DEF Reverses
    <2> HIDE DEF Solves
    <2>2. QED BY <2>1, Zenon
  <1>3. BitReverseIndex(x, n) = r[n]
    BY Zenon DEF BitReverseIndex
  <1>4. Reverses(r, x, n)
    BY <1>2, Zenon DEF Reverses
  <1> HIDE DEF r, h, Solves
  <1>5. n \in Nat /\ 0 \in 0..n /\ n \in 0..n
    OBVIOUS
  <1>6. r[0] = h[0]
    BY <1>1, <1>4, <1>5 DEF Reverses
  <1>7. ASSUME NEW k \in 1..n, r[k - 1] = h[k - 1] PROVE r[k] = h[k]
    <2>1. k \in 0..n /\ k # 0
      OBVIOUS
    <2>2. r[k] = 2 * r[k - 1] + Bit(x, k - 1)
      BY <1>4, <2>1 DEF Reverses
    <2>3. h[k] = 2 * h[k - 1] + Bit(x, k - 1)
      BY <1>1, <2>1 DEF Reverses
    <2>4. QED BY <1>7, <2>2, <2>3
  <1>8. \A k \in 0..n : r[k] = h[k]
    BY <1>5, <1>6, <1>7, AgreeUpTo
  <1>9. QED BY <1>3, <1>5, <1>8 DEF h

\* The reversal takes one more bit at a time, the lowest first.
LEMMA ReversalGrows ==
  ASSUME NEW x \in Nat
  PROVE  /\ BitReverseIndex(x, 0) = 0
         /\ \A k \in 0..MaxBits : BitReverseIndex(x, k) \in 0..(Shl[k] - 1)
         /\ \A k \in 0..(MaxBits - 1) :
              BitReverseIndex(x, k + 1) = 2 * BitReverseIndex(x, k) + Bit(x, k)
  <1> DEFINE n == MaxBits
             F == [k \in 1..n |-> [v \in Nat |-> 2 * v + Bit(x, k - 1)]]
  <1>1. n \in Nat \ {0}
    BY ShlAssumption
  <1>2. \A k \in 0..(n - 1) : Bit(x, k) \in Bits /\ Bit(x, k) \in Nat
    BY DigitHigh DEF Bits
  <1>3. F \in [1..n -> [Nat -> Nat]]
    <2>1. ASSUME NEW k \in 1..n, NEW v \in Nat PROVE 2 * v + Bit(x, k - 1) \in Nat
      <3>1. k - 1 \in 0..(n - 1)
        BY <1>1
      <3> HIDE DEF n
      <3>2. QED BY <1>2, <3>1
    <2>2. QED BY <2>1
  <1>4. PICK g : g \in [0..n -> Nat] /\ Obeys(g, n, 0, F)
    <2> HIDE DEF F, n
    <2>1. QED BY <1>1, <1>3, Recursion
  <1>5. g[0] = 0 /\ \A k \in 1..n : g[k] = 2 * g[k - 1] + Bit(x, k - 1)
    <2>1. ASSUME NEW k \in 1..n PROVE g[k] = 2 * g[k - 1] + Bit(x, k - 1)
      <3>1. k - 1 \in 0..n
        BY <1>1
      <3>2. g[k - 1] \in Nat
        BY <1>4, <3>1
      <3> HIDE DEF n
      <3>3. QED BY <1>4, <3>2 DEF Obeys
    <2> HIDE DEF F, n
    <2>2. g[0] = 0
      BY <1>4 DEF Obeys
    <2>3. QED BY <2>1, <2>2
  <1> HIDE DEF F, n
  <1>6. \A k \in 0..n : BitReverseIndex(x, k) = g[k]
    <2>1. TakesBits(g, x, n)
      BY <1>5 DEF TakesBits
    <2>2. QED BY <1>1, <2>1, ReversalUnfolds
  <1>7. \A k \in 0..(n - 1) : g[k + 1] = 2 * g[k] + Bit(x, k)
    <2> SUFFICES ASSUME NEW k \in 0..(n - 1) PROVE g[k + 1] = 2 * g[k] + Bit(x, k)
      OBVIOUS
    <2>1. k + 1 \in 1..n /\ (k + 1) - 1 = k
      BY <1>1
    <2>2. g[k + 1] = 2 * g[(k + 1) - 1] + Bit(x, (k + 1) - 1)
      BY <1>5, <2>1
    <2>3. QED BY <2>1, <2>2
  <1> DEFINE T == {k \in 0..n : g[k] \in 0..(Shl[k] - 1)}
  <1>8. 0 \in T
    <2>1. 0 \in 0..n /\ 0 \in 0..(1 - 1)
      BY <1>1
    <2>2. g[0] \in 0..(Shl[0] - 1)
      BY <1>5, <2>1, ShlAssumption
    <2>3. QED BY <2>1, <2>2
  <1>9. ASSUME NEW k \in 0..(n - 1), k \in T PROVE k + 1 \in T
    <2>1. k + 1 \in 0..n /\ k \in 0..n
      BY <1>1
    <2>2. Shl[k + 1] = 2 * Shl[k] /\ Shl[k] \in Nat
      <3>1. Shl[k + 1] = 2 * Shl[k]
        BY ShlDoubles DEF n
      <3>2. Shl[k] \in Nat
        BY <2>1, ShlDoubles DEF n
      <3>3. QED BY <3>1, <3>2
    <2>3. Bit(x, k) \in 0..1
      BY <1>2 DEF Bits
    <2>4. g[k] \in 0..(Shl[k] - 1)
      BY <1>9
    <2>5. QED BY <1>7, <2>1, <2>2, <2>3, <2>4
  <1> HIDE DEF T
  <1>10. \A k \in 0..n : k \in T
    BY <1>1, <1>8, <1>9, SetInduction
  <1>11. \A k \in 0..n : g[k] \in 0..(Shl[k] - 1)
    BY <1>10 DEF T
  <1>12. \A k \in 0..(n - 1) : k \in 0..n /\ k + 1 \in 0..n
    BY <1>1
  <1>13. 0 \in 0..n
    BY <1>1
  <1>14. QED BY <1>5, <1>6, <1>7, <1>11, <1>12, <1>13 DEF n

\* The bits of the reversal are those of x, the other way round.
LEMMA ReversedBits ==
  ASSUME NEW x \in Nat, NEW b \in 0..MaxBits
  PROVE  \A k \in 0..(b - 1) : Bit(BitReverseIndex(x, b), k) = Bit(x, b - 1 - k)
  <1> DEFINE y == BitReverseIndex(x, b)
             rev(k) == BitReverseIndex(x, k)
             T == {k \in 0..b : y \div Shl[k] = rev(b - k)}
  <1>1. MaxBits \in Nat /\ b \in Nat
    BY ShlAssumption
  <1>2. /\ \A k \in 0..MaxBits : rev(k) \in Nat
        /\ \A k \in 0..(MaxBits - 1) : rev(k + 1) = 2 * rev(k) + Bit(x, k)
    <2>1. \A k \in 0..MaxBits : rev(k) \in 0..(Shl[k] - 1)
      BY ReversalGrows
    <2>2. \A k \in 0..MaxBits : Shl[k] \in Nat
      BY ShlDoubles
    <2> HIDE DEF rev
    <2>3. \A k \in 0..MaxBits : rev(k) \in Nat
      BY <2>1, <2>2
    <2>4. QED BY <2>3, ReversalGrows DEF rev
  <1>3. y = rev(b) /\ y \in Nat
    BY <1>1, <1>2
  <1> HIDE DEF y, rev
  <1>4. 0 \in T
    <2>1. y \div 1 = y
      <3>1. y = 1 * y + 0 /\ 0 \in 0..(1 - 1) /\ 1 \in Nat \ {0}
        BY <1>3
      <3>2. QED BY <1>3, <3>1, DivModUnique
    <2>2. b - 0 = b /\ Shl[0] = 1 /\ 0 \in 0..b
      BY <1>1, ShlAssumption
    <2>3. QED BY <1>3, <2>1, <2>2
  <1>5. ASSUME NEW k \in 0..(b - 1), k \in T
        PROVE  y \div Shl[k + 1] = rev(b - (k + 1)) /\ Bit(y, k) = Bit(x, b - 1 - k)
    <2> DEFINE a == b - 1 - k
    <2>1. k \in 0..(MaxBits - 1) /\ a \in 0..(MaxBits - 1) /\ a + 1 = b - k /\ a = b - (k + 1)
          /\ a \in 0..MaxBits
      BY <1>1
    <2>2. /\ Bit(y, k) \in Bits /\ y \div Shl[k] = 2 * (y \div Shl[k + 1]) + Bit(y, k)
          /\ y \div Shl[k + 1] \in Nat
      BY <1>3, <2>1, DigitHigh
    <2>3. rev(a + 1) = 2 * rev(a) + Bit(x, a) /\ Bit(x, a) \in Bits /\ rev(a) \in Nat
      BY <1>2, <2>1, DigitHigh
    <2>4. y \div Shl[k] = rev(b - k)
      BY <1>5
    <2> DEFINE q == y \div Shl[k + 1]
               u == Bit(y, k)
               v == Bit(x, a)
               w == rev(a)
    <2>5. 2 * q + u = 2 * w + v
      BY <2>1, <2>2, <2>3, <2>4
    <2>6. q \in Nat /\ w \in Nat /\ u \in {0, 1} /\ v \in {0, 1}
      BY <2>2, <2>3 DEF Bits
    <2>7. q = w /\ u = v
      <3> HIDE DEF q, u, v, w
      <3>1. QED BY <2>5, <2>6
    <2>8. QED BY <2>1, <2>7
  <1>6. ASSUME NEW k \in 0..(b - 1), k \in T PROVE k + 1 \in T
    <2>1. k + 1 \in 0..b
      BY <1>1
    <2>2. QED BY <1>5, <1>6, <2>1
  <1> DEFINE S == T
  <1> HIDE DEF S
  <1>7. 0 \in S /\ \A k \in 0..(b - 1) : k \in S => k + 1 \in S
    BY <1>4, <1>6 DEF S
  <1>8. \A k \in 0..b : k \in S
    BY <1>1, <1>7, SetInduction
  <1>9. \A k \in 0..(b - 1) : k \in T
    <2>1. \A k \in 0..(b - 1) : k \in 0..b
      BY <1>1
    <2>2. QED BY <1>8, <2>1 DEF S
  <1>10. QED BY <1>5, <1>9 DEF y

\* Reversing b bits twice leaves the b low bits.
LEMMA ReversedTwice ==
  ASSUME NEW x \in Nat, NEW b \in 0..MaxBits
  PROVE  BitReverseIndex(BitReverseIndex(x, b), b) = x % Shl[b]
  <1> DEFINE y == BitReverseIndex(x, b)
             back(k) == BitReverseIndex(y, k)
             T == {k \in 0..b : back(k) * Shl[b - k] + (x % Shl[b - k]) = x % Shl[b]}
  <1>1. MaxBits \in Nat /\ b \in Nat
    BY ShlAssumption
  <1>2. y \in Nat
    <2>1. y \in 0..(Shl[b] - 1) /\ Shl[b] \in Nat
      BY ReversalGrows, ShlDoubles
    <2> HIDE DEF y
    <2>2. QED BY <2>1
  <1>3. \A k \in 0..(b - 1) : Bit(y, k) = Bit(x, b - 1 - k)
    BY ReversedBits
  <1> HIDE DEF y
  <1>4. /\ back(0) = 0
        /\ \A k \in 0..MaxBits : back(k) \in 0..(Shl[k] - 1)
        /\ \A k \in 0..(MaxBits - 1) : back(k + 1) = 2 * back(k) + Bit(y, k)
    BY <1>2, ReversalGrows
  <1> HIDE DEF back
  <1>5. \A k \in 0..b : x % Shl[k] \in Nat /\ Shl[k] \in Nat \ {0} /\ back(k) \in Nat
    <2> SUFFICES ASSUME NEW k \in 0..b PROVE x % Shl[k] \in Nat /\ Shl[k] \in Nat \ {0} /\ back(k) \in Nat
      OBVIOUS
    <2>1. k \in 0..MaxBits
      BY <1>1
    <2>2. Shl[k] \in Nat \ {0}
      BY <2>1, ShlDoubles
    <2>3. x % Shl[k] \in 0..(Shl[k] - 1)
      BY <2>2, DivMod
    <2>4. QED BY <1>4, <2>1, <2>2, <2>3
  <1>6. 0 \in T
    <2>1. b - 0 = b /\ 0 \in 0..b /\ 0 * Shl[b] = 0 /\ b \in 0..b
      BY <1>1, <1>5
    <2>2. 0 + (x % Shl[b]) = x % Shl[b]
      BY <1>5, <2>1
    <2>3. back(0) * Shl[b - 0] + (x % Shl[b - 0]) = x % Shl[b]
      BY <1>4, <2>1, <2>2
    <2>4. QED BY <2>1, <2>3
  <1>7. ASSUME NEW k \in 0..(b - 1), k \in T PROVE k + 1 \in T
    <2> DEFINE a == b - 1 - k
               sh == Shl[a]
               v == Bit(x, a)
               q == x % Shl[a]
    <2>1. /\ k \in 0..(MaxBits - 1) /\ a \in 0..(MaxBits - 1) /\ a + 1 = b - k /\ a = b - (k + 1)
          /\ a \in 0..b /\ k + 1 \in 0..b /\ k \in 0..b
      BY <1>1
    <2>2. Shl[b - k] = 2 * sh
      <3>1. Shl[a + 1] = 2 * Shl[a]
        BY <2>1, ShlDoubles
      <3>2. QED BY <2>1, <3>1
    <2>3. x % Shl[b - k] = q + v * sh
      <3>1. x % Shl[a + 1] = (x % Shl[a]) + Bit(x, a) * Shl[a]
        BY <2>1, DigitLow
      <3>2. QED BY <2>1, <3>1
    <2>4. back(k + 1) = 2 * back(k) + v
      BY <1>3, <1>4, <2>1
    <2>5. sh \in Nat /\ q \in Nat /\ v \in {0, 1} /\ back(k) \in Nat
      <3>1. v \in Bits
        BY <2>1, DigitHigh
      <3>2. sh \in Nat /\ q \in Nat
        BY <1>5, <2>1
      <3>3. QED BY <1>5, <2>1, <3>1, <3>2 DEF Bits
    <2>6. back(k) * Shl[b - k] + (x % Shl[b - k]) = x % Shl[b]
      BY <1>7
    <2> HIDE DEF sh, v, q
    <2> DEFINE w == back(k)
    <2>7. (2 * w + v) * sh + q = w * (2 * sh) + (q + v * sh)
      <3> HIDE DEF w
      <3>1. \A c, e, f, h \in Nat : (2 * c + e) * f + h = c * (2 * f) + (h + e * f)
        BY Z3
      <3>2. QED BY <2>5, <3>1 DEF w
    <2>8. back(k + 1) * sh + q = x % Shl[b]
      BY <2>2, <2>3, <2>4, <2>6, <2>7
    <2>9. back(k + 1) * Shl[b - (k + 1)] + (x % Shl[b - (k + 1)]) = x % Shl[b]
      BY <2>1, <2>8 DEF sh, q
    <2>10. QED BY <2>1, <2>9
  <1> DEFINE S == T
  <1> HIDE DEF S
  <1>8. 0 \in S /\ \A k \in 0..(b - 1) : k \in S => k + 1 \in S
    BY <1>6, <1>7 DEF S
  <1>9. \A k \in 0..b : k \in S
    BY <1>1, <1>8, SetInduction
  <1>10. back(b) * Shl[b - b] + (x % Shl[b - b]) = x % Shl[b]
    <2>1. b \in T
      BY <1>1, <1>9 DEF S
    <2>2. QED BY <2>1
  <1>11. b - b = 0 /\ Shl[0] = 1 /\ x % 1 = 0 /\ back(b) \in Nat
    <2>1. x % 1 \in 0..(1 - 1)
      BY DivMod
    <2>2. b - b = 0 /\ b \in 0..b /\ x % 1 = 0
      BY <1>1, <2>1
    <2>3. back(b) \in Nat
      BY <1>5, <2>2
    <2>4. QED BY <2>2, <2>3, ShlAssumption
  <1>12. back(b) * 1 + 0 = back(b)
    BY <1>11
  <1>13. back(b) = x % Shl[b]
    BY <1>10, <1>11, <1>12
  <1>14. QED BY <1>13 DEF back, y

\* The lowest bit is the highest of the reversal.
LEMMA ReversalLow ==
  ASSUME NEW x \in Nat, NEW b \in 0..(MaxBits - 1)
  PROVE  BitReverseIndex(x, b + 1) = (x % 2) * Shl[b] + BitReverseIndex(x \div 2, b)
  <1> DEFINE h == x \div 2
             R(y, k) == BitReverseIndex(y, k)
             T == {k \in 0..b : R(x, k + 1) = (x % 2) * Shl[k] + R(h, k)}
  <1>1. MaxBits \in Nat \ {0} /\ b \in Nat
    BY ShlAssumption
  <1>2. h \in Nat /\ x % 2 \in 0..1
    BY DivMod
  <1>3. /\ R(x, 0) = 0 /\ R(h, 0) = 0
        /\ \A k \in 0..(MaxBits - 1) : R(x, k + 1) = 2 * R(x, k) + Bit(x, k)
        /\ \A k \in 0..(MaxBits - 1) : R(h, k + 1) = 2 * R(h, k) + Bit(h, k)
    <2> HIDE DEF h
    <2>1. QED BY <1>2, ReversalGrows
  <1>4. \A k \in 0..MaxBits : R(x, k) \in Nat /\ R(h, k) \in Nat
    <2> HIDE DEF h, R
    <2> SUFFICES ASSUME NEW k \in 0..MaxBits PROVE R(x, k) \in Nat /\ R(h, k) \in Nat
      OBVIOUS
    <2>1. R(x, k) \in 0..(Shl[k] - 1) /\ R(h, k) \in 0..(Shl[k] - 1)
      BY <1>2, ReversalGrows DEF R
    <2>2. Shl[k] \in Nat
      BY ShlDoubles
    <2>3. QED BY <2>1, <2>2
  <1>5. \A k \in 0..(MaxBits - 1) : k + 1 <= MaxBits - 1 => Bit(x, k + 1) = Bit(h, k)
    <2> SUFFICES ASSUME NEW k \in 0..(MaxBits - 1), k + 1 <= MaxBits - 1
                 PROVE  Bit(x, k + 1) = Bit(h, k)
      OBVIOUS
    <2> DEFINE sh == Shl[k]
    <2>1. sh \in Nat \ {0} /\ Shl[k + 1] = 2 * sh
      <3>1. k \in 0..MaxBits
        BY <1>1
      <3>2. QED BY <3>1, ShlDoubles
    <2> HIDE DEF sh
    <2>2. x \div (2 * sh) = h \div sh
      BY <2>1, DivTwice DEF h
    <2>3. QED BY <2>1, <2>2 DEF Bit, sh
  <1> HIDE DEF h
  <1>6. 0 \in T
    <2>1. 0 \in 0..(MaxBits - 1) /\ 0 \in 0..b /\ Shl[0] = 1
      BY <1>1, ShlAssumption
    <2>2. Bit(x, 0) = x % 2
      <3>1. x \div 1 = x
        <4>1. x = 1 * x + 0 /\ 0 \in 0..(1 - 1) /\ 1 \in Nat \ {0}
          OBVIOUS
        <4>2. QED BY <4>1, DivModUnique
      <3>2. QED BY <2>1, <3>1 DEF Bit
    <2> HIDE DEF R
    <2>3. R(x, 0 + 1) = 2 * R(x, 0) + Bit(x, 0)
      BY <1>3, <2>1
    <2>4. R(x, 0 + 1) = (x % 2) * Shl[0] + R(h, 0)
      BY <1>2, <1>3, <2>1, <2>2, <2>3
    <2>5. QED BY <2>1, <2>4
  <1>7. ASSUME NEW k \in 0..(b - 1), k \in T PROVE k + 1 \in T
    <2>1. /\ k \in 0..(MaxBits - 1) /\ k + 1 \in 0..(MaxBits - 1) /\ k + 1 \in 0..b
          /\ k + 1 <= MaxBits - 1 /\ k \in 0..MaxBits /\ k + 1 \in 0..MaxBits
      BY <1>1
    <2> HIDE DEF R
    <2>2. R(x, k + 1) = (x % 2) * Shl[k] + R(h, k)
      BY <1>7
    <2>3. R(x, (k + 1) + 1) = 2 * R(x, k + 1) + Bit(x, k + 1)
      BY <1>3, <2>1
    <2>4. R(h, k + 1) = 2 * R(h, k) + Bit(h, k)
      BY <1>3, <2>1
    <2>5. Bit(x, k + 1) = Bit(h, k) /\ Bit(h, k) \in Nat
      <3>1. Bit(h, k) \in Bits
        BY <1>2, <2>1, DigitHigh
      <3>2. QED BY <1>5, <2>1, <3>1 DEF Bits
    <2>6. Shl[k + 1] = 2 * Shl[k] /\ Shl[k] \in Nat /\ R(h, k) \in Nat
      BY <1>4, <2>1, ShlDoubles
    <2> DEFINE p == (x % 2) * Shl[k]
    <2>7. p \in Nat /\ (x % 2) * Shl[k + 1] = 2 * p
      <3> DEFINE sh == Shl[k]
                 e == x % 2
      <3>1. sh \in Nat /\ e \in Nat
        BY <1>2, <2>6
      <3> HIDE DEF sh, e
      <3>2. e * sh \in Nat /\ e * (2 * sh) = 2 * (e * sh)
        BY <3>1, Z3
      <3>3. QED BY <2>6, <3>2 DEF sh, e
    <2> HIDE DEF p
    <2>8. R(x, (k + 1) + 1) = (x % 2) * Shl[k + 1] + R(h, k + 1)
      <3>1. R(x, k + 1) = p + R(h, k)
        BY <2>2 DEF p
      <3>2. QED BY <2>3, <2>4, <2>5, <2>6, <2>7, <3>1
    <2>9. QED BY <2>1, <2>8
  <1> DEFINE S == T
  <1> HIDE DEF S
  <1>8. 0 \in S /\ \A k \in 0..(b - 1) : k \in S => k + 1 \in S
    BY <1>6, <1>7 DEF S
  <1>9. \A k \in 0..b : k \in S
    BY <1>1, <1>8, SetInduction
  <1>10. b \in T
    BY <1>1, <1>9 DEF S
  <1>11. QED BY <1>10 DEF h

\* Low zeros go to the top.
LEMMA ReversalOfMultiple ==
  ASSUME NEW m \in Nat, NEW b \in Nat, NEW e \in Nat, e + b <= MaxBits
  PROVE  BitReverseIndex(Shl[e] * m, e + b) = BitReverseIndex(m, b)
  <1> DEFINE T == {k \in 0..e : BitReverseIndex(Shl[k] * m, k + b) = BitReverseIndex(m, b)}
  <1>1. MaxBits \in Nat \ {0}
    BY ShlAssumption
  <1>2. 0 \in T
    <2>1. 0 + b = b /\ Shl[0] * m = m /\ 0 \in 0..e
      BY ShlAssumption
    <2>2. QED BY <2>1
  <1>3. ASSUME NEW k \in 0..(e - 1), k \in T PROVE k + 1 \in T
    <2> DEFINE sh == Shl[k]
    <2>1. /\ k \in 0..(MaxBits - 1) /\ k \in 0..MaxBits /\ k + 1 \in 0..e
          /\ k + b \in 0..(MaxBits - 1) /\ (k + 1) + b = (k + b) + 1 /\ k + b \in 0..MaxBits
      BY <1>1
    <2>2. sh \in Nat \ {0} /\ Shl[k + 1] = 2 * sh
      BY <2>1, ShlDoubles
    <2>3. BitReverseIndex(sh * m, k + b) = BitReverseIndex(m, b)
      BY <1>3
    <2> HIDE DEF sh
    <2> DEFINE y == sh * m
    <2>4. y \in Nat /\ (2 * sh) * m = 2 * y
      BY <2>2, Z3
    <2> HIDE DEF y
    <2>5. (2 * y) \div 2 = y /\ (2 * y) % 2 = 0
      <3>1. 2 * y \in Nat /\ 2 * y = 2 * y + 0 /\ 0 \in 0..(2 - 1)
        BY <2>4
      <3>2. QED BY <2>4, <3>1, DivModUnique
    <2>6. BitReverseIndex(2 * y, (k + b) + 1) = 0 * Shl[k + b] + BitReverseIndex(y, k + b)
      <3>1. 2 * y \in Nat
        BY <2>4
      <3>2. BitReverseIndex(2 * y, (k + b) + 1)
              = ((2 * y) % 2) * Shl[k + b] + BitReverseIndex((2 * y) \div 2, k + b)
        BY <2>1, <3>1, ReversalLow
      <3>3. QED BY <2>5, <3>2
    <2>7. Shl[k + b] \in Nat /\ BitReverseIndex(y, k + b) \in Nat
      <3>1. BitReverseIndex(y, k + b) \in 0..(Shl[k + b] - 1)
        BY <2>1, <2>4, ReversalGrows
      <3>2. Shl[k + b] \in Nat
        BY <2>1, ShlDoubles
      <3>3. QED BY <3>1, <3>2
    <2>8. BitReverseIndex(2 * y, (k + b) + 1) = BitReverseIndex(y, k + b)
      BY <2>6, <2>7
    <2>9. BitReverseIndex(Shl[k + 1] * m, (k + 1) + b) = BitReverseIndex(m, b)
      BY <2>1, <2>2, <2>3, <2>4, <2>8 DEF y
    <2>10. QED BY <2>1, <2>9
  <1> DEFINE S == T
  <1> HIDE DEF S
  <1>4. 0 \in S /\ \A k \in 0..(e - 1) : k \in S => k + 1 \in S
    BY <1>2, <1>3 DEF S
  <1>5. \A k \in 0..e : k \in S
    BY <1>4, SetInduction
  <1>6. e \in T
    BY <1>5 DEF S
  <1>7. QED BY <1>6

-----------------------------------------------------------------------------
(***************************************************************************)
(* The plaintexts of a cascade and of a repacking tree, level by level.    *)
(***************************************************************************)

\* Input i of job j, and its leaf v.
LeafPlain(j, v) ==
  IF v < Len(j.messages)
  THEN ProjectAt(j.messages[BitReverseIndex(v, Log2(Len(j.messages))) + 1], N, j.g, 0)
  ELSE Zero(j.g)

\* The leaf that tree k of a level with 2^l leaves in each tree takes
\* coefficient x from.
TreeLeaf(k, l, x) == k * Shl[l] + BitReverseIndex(x, l)

\* The plaintext of ciphertext k of degree n.
Plain(j, n, k) ==
  IF j.op = "repack"
  THEN LET l == Log2(n \div j.g)
       IN  [x \in 0..(n - 1) |-> LeafPlain(j, TreeLeaf(k, l, x))[x \div Shl[l]]]
  ELSE [x \in 0..(n - 1) |-> IF x = 0 THEN j.messages[1][0] ELSE 0]

\* What the jobs start from.
JobTyped(j) ==
  IF j.op = "repack"
  THEN /\ j.g \in Degrees /\ j.g # N
       /\ \E i \in 0..MaxBits : Len(j.messages) = Shl[i]
       /\ Len(j.messages) * j.g <= N
       /\ j.messages \in [1..Len(j.messages) -> Poly(N)]
  ELSE /\ j.op \in {"cascade", "cascade_eval"} /\ j.g = 1
       /\ Len(j.messages) = 1 /\ j.messages[1] \in Poly(1)

\* log2 inverts the shift.
LEMMA LogIs ==
  ASSUME NEW k \in 0..MaxBits
  PROVE  Log2(Shl[k]) = k
  <1> DEFINE c == Log2(Shl[k])
  <1>1. c \in 0..MaxBits /\ Shl[c] = Shl[k]
    BY DEF Log2
  <1>2. MaxBits \in Nat
    BY ShlAssumption
  <1> HIDE DEF c
  <1>3. Shl[c] \in Nat /\ Shl[k] \in Nat
    BY <1>1, ShlDoubles
  <1>4. c < k => Shl[c] < Shl[k]
    BY <1>1, ShlGrows
  <1>5. k < c => Shl[k] < Shl[c]
    BY <1>1, ShlGrows
  <1>6. c = k
    BY <1>1, <1>2, <1>3, <1>4, <1>5
  <1>7. QED BY <1>6 DEF c

\* A degree over a smaller one.
LEMMA DegreeOver ==
  ASSUME NEW g \in Degrees, NEW n \in Degrees, g <= n
  PROVE  \E l \in 0..MaxBits : /\ n \div g = Shl[l] /\ Log2(n \div g) = l /\ n = g * Shl[l]
                               /\ Shl[l] \in Nat \ {0} /\ n \in Nat \ {0} /\ g \in Nat \ {0}
                               /\ n # N => l \in 0..(MaxBits - 1) /\ Log2((2 * n) \div g) = l + 1
  <1>1. PICK a \in 0..MaxBits, b \in 0..MaxBits : g = Shl[a] /\ n = Shl[b] /\ n <= N
    BY DEF Degrees
  <1>2. MaxBits \in Nat /\ g \in Nat \ {0} /\ n \in Nat \ {0}
    <2>1. MaxBits \in Nat
      BY ShlAssumption
    <2>2. QED BY <1>1, <2>1, ShlDoubles
  <1>3. a <= b
    <2>1. b < a => Shl[b] < Shl[a]
      BY <1>1, ShlGrows
    <2>2. QED BY <1>1, <1>2, <2>1
  <1> DEFINE l == b - a
  <1>4. l \in 0..MaxBits /\ a + l = b /\ a + l <= MaxBits
    BY <1>1, <1>2, <1>3
  <1> HIDE DEF l
  <1>5. n = g * Shl[l] /\ Shl[l] \in Nat \ {0}
    <2>1. Shl[a + l] = Shl[a] * Shl[l]
      BY <1>1, <1>4, ShlAssumption
    <2>2. QED BY <1>1, <1>4, <2>1, ShlDoubles
  <1>6. ASSUME NEW d \in Nat \ {0}, NEW w \in Nat, w = g * d PROVE w \div g = d
    <2>1. w = g * d + 0 /\ 0 \in 0..(g - 1)
      BY <1>2, <1>6
    <2>2. QED BY <1>2, <2>1, DivModUnique
  <1>7. n \div g = Shl[l]
    BY <1>2, <1>5, <1>6
  <1>8. ASSUME n # N PROVE l \in 0..(MaxBits - 1) /\ Log2((2 * n) \div g) = l + 1
    <2>1. 2 * n \in Degrees /\ 2 * n \in Nat
      BY <1>2, <1>8, Degree
    <2>2. PICK c \in 0..MaxBits : 2 * n = Shl[c]
      BY <2>1 DEF Degrees
    <2>3. b < c
      <3>1. c < b => Shl[c] < Shl[b]
        BY <1>1, <2>2, ShlGrows
      <3>2. c # b
        BY <1>1, <1>2, <2>2
      <3>3. QED BY <1>1, <1>2, <2>1, <2>2, <3>1, <3>2
    <2>4. l \in 0..(MaxBits - 1) /\ l + 1 \in 0..MaxBits
      BY <1>1, <1>2, <1>4, <2>3
    <2>5. Shl[l + 1] = 2 * Shl[l]
      BY <2>4, ShlDoubles
    <2> DEFINE p == Shl[l]
    <2>6. g * (2 * p) = 2 * (g * p) /\ 2 * p \in Nat \ {0}
      <3>1. p \in Nat \ {0}
        BY <1>5
      <3> HIDE DEF p
      <3>2. QED BY <1>2, <3>1, Z3
    <2>7. 2 * n = g * Shl[l + 1] /\ Shl[l + 1] \in Nat \ {0}
      BY <1>5, <2>5, <2>6
    <2>8. (2 * n) \div g = Shl[l + 1]
      BY <1>6, <2>1, <2>7
    <2>9. QED BY <2>4, <2>8, LogIs
  <1>9. QED BY <1>2, <1>4, <1>5, <1>7, <1>8, LogIs

\* The plaintext of a leaf is a polynomial.
LEMMA LeafPlainIn ==
  ASSUME NEW j, JobTyped(j), j.op = "repack", NEW v \in Nat
  PROVE  LeafPlain(j, v) \in Poly(j.g)
  <1>1. j.g \in Degrees /\ j.messages \in [1..Len(j.messages) -> Poly(N)]
    BY DEF JobTyped
  <1>2. PICK i \in 0..MaxBits : Len(j.messages) = Shl[i]
    BY DEF JobTyped
  <1>3. CASE v < Len(j.messages)
    <2>1. BitReverseIndex(v, i) \in 0..(Shl[i] - 1) /\ Shl[i] \in Nat \ {0}
      BY ReversalGrows, ShlDoubles
    <2>2. Log2(Len(j.messages)) = i
      BY <1>2, LogIs
    <2> DEFINE r == BitReverseIndex(v, i)
    <2> HIDE DEF r
    <2>3. r + 1 \in 1..Len(j.messages)
      BY <1>2, <2>1 DEF r
    <2>4. j.messages[r + 1] \in Poly(N)
      BY <1>1, <2>3
    <2>5. 0 \in 0..(Rank(j.g) - 1)
      BY <1>1, Degree
    <2>6. ProjectAt(j.messages[r + 1], N, j.g, 0) \in Poly(j.g)
      BY <1>1, <2>4, <2>5, KeyIn
    <2>7. QED BY <1>3, <2>2, <2>6 DEF LeafPlain, r
  <1>4. CASE ~(v < Len(j.messages))
    <2>1. Zero(j.g) \in Poly(j.g)
      <3>1. 0 \in Coeff
        BY CoeffClosed
      <3>2. QED BY <3>1 DEF Zero, Poly
    <2>2. QED BY <1>4, <2>1 DEF LeafPlain
  <1>5. QED BY <1>3, <1>4

\* Plain, read at a coefficient.
LEMMA PlainAt ==
  ASSUME NEW j, JobTyped(j), j.op = "repack", NEW n \in Degrees, j.g <= n, NEW k \in Nat,
         NEW l \in 0..MaxBits, Log2(n \div j.g) = l, n = j.g * Shl[l]
  PROVE  /\ Plain(j, n, k) \in Poly(n)
         /\ \A x \in 0..(n - 1) : /\ TreeLeaf(k, l, x) \in Nat
                                  /\ x \div Shl[l] \in 0..(j.g - 1)
                                  /\ Plain(j, n, k)[x] = LeafPlain(j, TreeLeaf(k, l, x))[x \div Shl[l]]
  <1>1. j.g \in Degrees /\ j.g \in Nat \ {0} /\ n \in Nat \ {0} /\ Shl[l] \in Nat \ {0}
    BY Degree, ShlDoubles DEF JobTyped
  <1>2. ASSUME NEW x \in 0..(n - 1) PROVE TreeLeaf(k, l, x) \in Nat
    <2>1. x \in Nat
      BY <1>1
    <2>2. BitReverseIndex(x, l) \in 0..(Shl[l] - 1)
      BY <2>1, ReversalGrows
    <2>3. k * Shl[l] \in Nat
      BY <1>1, NatProduct
    <2>4. QED BY <1>1, <2>2, <2>3 DEF TreeLeaf
  <1>3. ASSUME NEW x \in 0..(n - 1) PROVE x \div Shl[l] \in 0..(j.g - 1)
    <2> DEFINE d == Shl[l]
               u == x \div d
               g == j.g
    <2>1. x \in Nat /\ d \in Nat \ {0} /\ g \in Nat \ {0} /\ n = g * d /\ x < n
      BY <1>1
    <2>2. u \in Nat /\ x % d \in 0..(d - 1) /\ x = d * u + (x % d)
      <3> HIDE DEF d
      <3>1. QED BY <2>1, DivMod
    <2> HIDE DEF d, u, g
    <2>3. ASSUME g <= u PROVE FALSE
      <3>1. g * d <= d * u /\ d * u \in Nat
        BY <2>1, <2>2, <2>3, Z3
      <3>2. g * d \in Nat
        BY <2>1, NatProduct
      <3>3. QED BY <2>1, <2>2, <3>1, <3>2
    <2>4. u \in 0..(g - 1)
      BY <2>1, <2>2, <2>3
    <2>5. QED BY <2>4 DEF u, d, g
  <1>4. Plain(j, n, k) = [x \in 0..(n - 1) |-> LeafPlain(j, TreeLeaf(k, l, x))[x \div Shl[l]]]
    BY DEF Plain
  <1>5. ASSUME NEW x \in 0..(n - 1) PROVE LeafPlain(j, TreeLeaf(k, l, x))[x \div Shl[l]] \in Coeff
    <2>1. LeafPlain(j, TreeLeaf(k, l, x)) \in Poly(j.g)
      BY <1>2, LeafPlainIn
    <2>2. QED BY <1>3, <2>1, PolyAt
  <1>6. Plain(j, n, k) \in Poly(n)
    <2>1. [x \in 0..(n - 1) |-> LeafPlain(j, TreeLeaf(k, l, x))[x \div Shl[l]]] \in [0..(n - 1) -> Coeff]
      BY <1>5
    <2>2. QED BY <1>4, <2>1 DEF Poly
  <1>7. \A x \in 0..(n - 1) : Plain(j, n, k)[x] = LeafPlain(j, TreeLeaf(k, l, x))[x \div Shl[l]]
    BY <1>4, Zenon
  <1>8. QED BY <1>2, <1>3, <1>6, <1>7

\* The leaves.
LEMMA PlainLeaf ==
  ASSUME NEW j, JobTyped(j), j.op = "repack", NEW k \in Nat
  PROVE  Plain(j, j.g, k) = LeafPlain(j, k)
  <1>1. j.g \in Degrees /\ j.g \in Nat \ {0} /\ j.g <= j.g
    <2>1. j.g \in Degrees
      BY DEF JobTyped
    <2>2. j.g \in Nat \ {0}
      BY <2>1, Degree
    <2>3. QED BY <2>1, <2>2
  <1>2. PICK l \in 0..MaxBits : /\ j.g \div j.g = Shl[l] /\ Log2(j.g \div j.g) = l /\ j.g = j.g * Shl[l]
                                /\ Shl[l] \in Nat \ {0}
    BY <1>1, DegreeOver
  <1>3. l = 0 /\ Shl[0] = 1
    <2>1. j.g \div j.g = 1
      BY <1>1
    <2>2. Shl[0] = 1 /\ MaxBits \in Nat
      BY ShlAssumption
    <2>3. 0 \in 0..MaxBits
      BY <2>2
    <2>4. Log2(Shl[0]) = 0
      BY <2>3, LogIs
    <2>5. QED BY <1>2, <2>1, <2>2, <2>4
  <1>4. /\ Plain(j, j.g, k) \in Poly(j.g)
        /\ \A x \in 0..(j.g - 1) : Plain(j, j.g, k)[x] = LeafPlain(j, TreeLeaf(k, l, x))[x \div Shl[l]]
    <2>1. \A n \in Degrees : j.g <= n /\ Log2(n \div j.g) = l /\ n = j.g * Shl[l] =>
            /\ Plain(j, n, k) \in Poly(n)
            /\ \A x \in 0..(n - 1) : Plain(j, n, k)[x] = LeafPlain(j, TreeLeaf(k, l, x))[x \div Shl[l]]
      BY PlainAt
    <2>2. QED BY <1>1, <1>2, <2>1, Zenon
  <1>5. ASSUME NEW x \in 0..(j.g - 1) PROVE Plain(j, j.g, k)[x] = LeafPlain(j, k)[x]
    <2>1. x \in Nat
      BY <1>1
    <2>2. BitReverseIndex(x, 0) = 0
      BY <2>1, ReversalGrows
    <2>3. TreeLeaf(k, 0, x) = k
      BY <1>3, <2>2 DEF TreeLeaf
    <2>4. x \div 1 = x
      BY <2>1
    <2>5. QED BY <1>3, <1>4, <2>3, <2>4
  <1>6. LeafPlain(j, k) \in Poly(j.g)
    BY LeafPlainIn
  <1>7. QED BY <1>4, <1>5, <1>6, PolyEqual

\* The next level interleaves pairs of this one.
LEMMA PlainJoins ==
  ASSUME NEW j, JobTyped(j), j.op = "repack", NEW n \in Degrees, n # N, j.g <= n, NEW k \in Nat
  PROVE  /\ Plain(j, 2 * n, k) = Add(Iota(Plain(j, n, 2 * k), n, 0), Iota(Plain(j, n, 2 * k + 1), n, 1))
         /\ Plain(j, 2 * n, k) \in Poly(2 * n)
         /\ Plain(j, n, 2 * k) \in Poly(n) /\ Plain(j, n, 2 * k + 1) \in Poly(n)
  <1> DEFINE A == Plain(j, n, 2 * k)
             B == Plain(j, n, 2 * k + 1)
             C == Plain(j, 2 * n, k)
  <1>1. j.g \in Degrees /\ j.g \in Nat \ {0} /\ n \in Nat \ {0} /\ 2 * n \in Degrees /\ 2 * n \in Nat \ {0}
        /\ j.g <= 2 * n
    <2>1. j.g \in Degrees
      BY DEF JobTyped
    <2>2. j.g \in Nat \ {0} /\ n \in Nat \ {0} /\ 2 * n \in Degrees
      BY <2>1, Degree
    <2>3. QED BY <2>1, <2>2
  <1>2. PICK l \in 0..MaxBits : /\ Log2(n \div j.g) = l /\ n = j.g * Shl[l] /\ Shl[l] \in Nat \ {0}
                                /\ l \in 0..(MaxBits - 1) /\ Log2((2 * n) \div j.g) = l + 1
    BY <1>1, DegreeOver
  <1>3. l + 1 \in 0..MaxBits /\ Shl[l + 1] = 2 * Shl[l]
    <2>1. MaxBits \in Nat
      BY ShlAssumption
    <2>2. QED BY <1>2, <2>1, ShlDoubles
  <1>4. 2 * n = j.g * Shl[l + 1]
    <2>1. \A b, c \in Nat : 2 * (b * c) = b * (2 * c)
      BY Z3
    <2>2. QED BY <1>1, <1>2, <1>3, <2>1
  <1>5. /\ A \in Poly(n) /\ B \in Poly(n) /\ C \in Poly(2 * n)
        /\ \A x \in 0..(n - 1) : A[x] = LeafPlain(j, TreeLeaf(2 * k, l, x))[x \div Shl[l]]
        /\ \A x \in 0..(n - 1) : B[x] = LeafPlain(j, TreeLeaf(2 * k + 1, l, x))[x \div Shl[l]]
        /\ \A x \in 0..(2 * n - 1) : C[x] = LeafPlain(j, TreeLeaf(k, l + 1, x))[x \div Shl[l + 1]]
    <2>1. 2 * k \in Nat /\ 2 * k + 1 \in Nat
      OBVIOUS
    <2>2. A \in Poly(n) /\ \A x \in 0..(n - 1) : A[x] = LeafPlain(j, TreeLeaf(2 * k, l, x))[x \div Shl[l]]
      BY <1>2, <2>1, PlainAt
    <2>3. B \in Poly(n) /\ \A x \in 0..(n - 1) : B[x] = LeafPlain(j, TreeLeaf(2 * k + 1, l, x))[x \div Shl[l]]
      BY <1>2, <2>1, PlainAt
    <2>4. C \in Poly(2 * n) /\ \A x \in 0..(2 * n - 1) : C[x] = LeafPlain(j, TreeLeaf(k, l + 1, x))[x \div Shl[l + 1]]
      <3>1. \A m \in Degrees : \A d \in 0..MaxBits : j.g <= m /\ Log2(m \div j.g) = d /\ m = j.g * Shl[d] =>
              /\ Plain(j, m, k) \in Poly(m)
              /\ \A x \in 0..(m - 1) : Plain(j, m, k)[x] = LeafPlain(j, TreeLeaf(k, d, x))[x \div Shl[d]]
        BY PlainAt
      <3>2. QED BY <1>1, <1>2, <1>3, <1>4, <3>1, Zenon DEF C
    <2>5. QED BY <2>2, <2>3, <2>4
  <1> HIDE DEF A, B, C
  <1>6. /\ Iota(A, n, 0) \in Poly(2 * n) /\ Iota(B, n, 1) \in Poly(2 * n)
        /\ \A x \in 0..(2 * n - 1) : /\ Iota(A, n, 0)[x] = IF x % 2 = 0 THEN A[x \div 2] ELSE 0
                                     /\ Iota(B, n, 1)[x] = IF x % 2 = 1 THEN B[x \div 2] ELSE 0
                                     /\ x \div 2 \in 0..(n - 1)
    <2>1. 0 \in {0, 1} /\ 1 \in {0, 1}
      OBVIOUS
    <2>2. QED BY <1>1, <1>5, <2>1, IotaAt
  <1>7. ASSUME NEW x \in 0..(2 * n - 1) PROVE C[x] = Add(Iota(A, n, 0), Iota(B, n, 1))[x]
    <2> DEFINE h == x \div 2
               r == BitReverseIndex(h, l)
               sh == Shl[l]
    <2>1. x \in Nat /\ h \in 0..(n - 1) /\ h \in Nat /\ x % 2 \in {0, 1}
      <3>1. x \in Nat /\ h \in 0..(n - 1)
        BY <1>1, <1>6
      <3>2. QED BY <3>1
    <2>2. BitReverseIndex(x, l + 1) = (x % 2) * sh + r
      BY <1>2, <2>1, ReversalLow
    <2>3. x \div Shl[l + 1] = h \div sh
      BY <1>2, <1>3, <2>1, DivTwice
    <2>4. r \in Nat /\ sh \in Nat \ {0}
      <3>1. r \in 0..(sh - 1)
        <4> HIDE DEF h
        <4>1. QED BY <2>1, ReversalGrows
      <3>2. sh \in Nat
        BY <1>2
      <3> HIDE DEF r, sh
      <3>3. QED BY <3>1, <3>2
    <2>5. Add(Iota(A, n, 0), Iota(B, n, 1))[x] = CAdd(Iota(A, n, 0)[x], Iota(B, n, 1)[x])
      BY <1>6, SumAt
    <2>6. A[h] \in Coeff /\ B[h] \in Coeff
      BY <1>5, <2>1, PolyAt
    <2> HIDE DEF h, r, sh
    <2>7. C[x] = LeafPlain(j, k * (2 * sh) + ((x % 2) * sh + r))[h \div sh]
      <3>1. TreeLeaf(k, l + 1, x) = k * (2 * sh) + ((x % 2) * sh + r)
        BY <1>3, <2>2 DEF TreeLeaf, sh
      <3>2. QED BY <1>5, <2>3, <3>1
    <2>8. CASE x % 2 = 0
      <3>1. C[x] = A[h]
        <4>1. k * (2 * sh) + (0 * sh + r) = (2 * k) * sh + r
          <5>1. \A b, c, d \in Nat : b * (2 * c) + (0 * c + d) = (2 * b) * c + d
            BY Z3
          <5>2. QED BY <2>4, <5>1
        <4>2. TreeLeaf(2 * k, l, h) = (2 * k) * sh + r
          BY DEF TreeLeaf, sh, r
        <4>3. A[h] = LeafPlain(j, (2 * k) * sh + r)[h \div sh]
          BY <1>5, <2>1, <4>2 DEF sh
        <4>4. QED BY <2>7, <2>8, <4>1, <4>3
      <3>2. Iota(A, n, 0)[x] = A[h] /\ Iota(B, n, 1)[x] = 0
        BY <1>6, <2>8 DEF h
      <3>3. CAdd(A[h], 0) = A[h]
        BY <2>6, CoeffSums
      <3>4. QED BY <2>5, <3>1, <3>2, <3>3
    <2>9. CASE x % 2 = 1
      <3>1. C[x] = B[h]
        <4>1. k * (2 * sh) + (1 * sh + r) = (2 * k + 1) * sh + r
          <5>1. \A b, c, d \in Nat : b * (2 * c) + (1 * c + d) = (2 * b + 1) * c + d
            BY Z3
          <5>2. QED BY <2>4, <5>1
        <4>2. TreeLeaf(2 * k + 1, l, h) = (2 * k + 1) * sh + r
          BY DEF TreeLeaf, sh, r
        <4>3. B[h] = LeafPlain(j, (2 * k + 1) * sh + r)[h \div sh]
          BY <1>5, <2>1, <4>2 DEF sh
        <4>4. QED BY <2>7, <2>9, <4>1, <4>3
      <3>2. Iota(A, n, 0)[x] = 0 /\ Iota(B, n, 1)[x] = B[h]
        BY <1>6, <2>9 DEF h
      <3>3. CAdd(0, B[h]) = B[h]
        BY <2>6, CoeffSums
      <3>4. QED BY <2>5, <3>1, <3>2, <3>3
    <2>10. QED BY <2>1, <2>8, <2>9
  <1>8. Add(Iota(A, n, 0), Iota(B, n, 1)) \in Poly(2 * n)
    BY <1>6, AddClosed
  <1>9. C = Add(Iota(A, n, 0), Iota(B, n, 1))
    BY <1>5, <1>7, <1>8, PolyEqual
  <1>10. QED BY <1>5, <1>9 DEF A, B, C

\* A cascade keeps its scalar in coefficient 0.
LEMMA PlainCascades ==
  ASSUME NEW j, JobTyped(j), j.op # "repack", NEW n \in Degrees
  PROVE  /\ Plain(j, 1, 0) = j.messages[1]
         /\ Plain(j, n, 0) \in Poly(n)
         /\ \A k \in Nat : Plain(j, n, k) = Plain(j, n, 0)
         /\ Plain(j, 2 * n, 0) = Iota(Plain(j, n, 0), n, 0)
  <1> DEFINE c == j.messages[1][0]
             C(m) == [x \in 0..(m - 1) |-> IF x = 0 THEN c ELSE 0]
  <1>1. j.messages[1] \in Poly(1) /\ 0 \in 0..(1 - 1) /\ n \in Nat \ {0}
    BY Degree DEF JobTyped
  <1>2. c \in Coeff /\ 0 \in Coeff
    BY <1>1, PolyAt, CoeffClosed
  <1>3. \A m, k : Plain(j, m, k) = C(m)
    BY Zenon DEF Plain
  <1> HIDE DEF c
  <1>4. \A m : C(m) \in Poly(m) /\ \A x \in 0..(m - 1) : C(m)[x] = IF x = 0 THEN c ELSE 0
    BY <1>2 DEF Poly
  <1> HIDE DEF C
  <1>5. C(1) = j.messages[1]
    <2>1. \A x \in 0..(1 - 1) : C(1)[x] = j.messages[1][x]
      BY <1>4 DEF c
    <2>2. QED BY <1>1, <1>4, <2>1, PolyEqual
  <1>6. C(2 * n) = Iota(C(n), n, 0)
    <2>1. 0 \in {0, 1}
      OBVIOUS
    <2>2. C(n) \in Poly(n)
      BY <1>4
    <2>3. /\ Iota(C(n), n, 0) \in Poly(2 * n)
          /\ \A x \in 0..(2 * n - 1) : Iota(C(n), n, 0)[x] = IF x % 2 = 0 THEN C(n)[x \div 2] ELSE 0
          /\ \A x \in 0..(2 * n - 1) : x \div 2 \in 0..(n - 1)
      BY <1>1, <2>1, <2>2, IotaAt
    <2>4. ASSUME NEW x \in 0..(2 * n - 1) PROVE C(2 * n)[x] = Iota(C(n), n, 0)[x]
      <3>1. x \in Nat /\ (x = 0 <=> x % 2 = 0 /\ x \div 2 = 0)
        BY <1>1
      <3>2. C(n)[x \div 2] = IF x \div 2 = 0 THEN c ELSE 0
        BY <1>4, <2>3
      <3>3. C(2 * n)[x] = IF x = 0 THEN c ELSE 0
        BY <1>4
      <3>4. QED BY <2>3, <3>1, <3>2, <3>3
    <2>5. QED BY <1>4, <2>3, <2>4, PolyEqual
  <1>7. QED BY <1>3, <1>4, <1>5, <1>6

\* The coefficients of Packed.
Spread(j, x) ==
  LET slots == N \div j.g
      stride == slots \div Len(j.messages)
  IN  IF (x % slots) % stride # 0 THEN 0
      ELSE j.messages[((x % slots) \div stride) + 1][(x \div slots) * slots]

\* Bits above the highest of v leave zeros below its reversal.
LEMMA ReversalOfSmall ==
  ASSUME NEW b \in Nat, NEW e \in Nat, e + b <= MaxBits, NEW v \in 0..(Shl[b] - 1)
  PROVE  BitReverseIndex(v, e + b) = Shl[e] * BitReverseIndex(v, b)
  <1> DEFINE r == BitReverseIndex(v, b)
             T == {k \in 0..e : BitReverseIndex(v, k + b) = Shl[k] * r}
  <1>1. MaxBits \in Nat \ {0} /\ b \in 0..MaxBits /\ e \in 0..MaxBits
    <2>1. MaxBits \in Nat \ {0}
      BY ShlAssumption
    <2>2. QED BY <2>1
  <1>2. Shl[b] \in Nat \ {0} /\ v \in Nat
    <2>1. Shl[b] \in Nat \ {0}
      BY <1>1, ShlDoubles
    <2>2. QED BY <2>1
  <1>3. r \in Nat
    <2>1. r \in 0..(Shl[b] - 1)
      BY <1>1, <1>2, ReversalGrows
    <2> HIDE DEF r
    <2>2. QED BY <1>2, <2>1
  <1> HIDE DEF r
  <1>4. 0 \in T
    <2>1. 0 + b = b /\ 0 \in 0..e /\ Shl[0] * r = r
      BY <1>3, ShlAssumption
    <2>2. QED BY <2>1 DEF r
  <1>5. ASSUME NEW k \in 0..(e - 1), k \in T PROVE k + 1 \in T
    <2>1. k \in 0..(MaxBits - 1) /\ k + 1 \in 0..e /\ k + b \in 0..(MaxBits - 1) /\ (k + 1) + b = (k + b) + 1
          /\ k + b \in 0..MaxBits /\ k \in 0..MaxBits /\ b + k = k + b /\ b + k <= MaxBits
      BY <1>1
    <2>2. BitReverseIndex(v, (k + b) + 1) = 2 * BitReverseIndex(v, k + b) + Bit(v, k + b)
      BY <1>2, <2>1, ReversalGrows
    <2>3. Bit(v, k + b) = 0
      <3> DEFINE d == Shl[k + b]
      <3>1. d \in Nat \ {0} /\ v < d
        <4>1. Shl[b + k] = Shl[b] * Shl[k] /\ Shl[k] \in Nat \ {0}
          BY <1>1, <2>1, ShlAssumption, ShlDoubles
        <4>2. \A x, y \in Nat \ {0} : x <= x * y /\ x * y \in Nat
          BY Z3
        <4>3. Shl[b] <= Shl[b] * Shl[k] /\ Shl[b] * Shl[k] \in Nat
          BY <1>2, <4>1, <4>2
        <4> HIDE DEF d
        <4>4. d = Shl[b] * Shl[k]
          BY <2>1, <4>1 DEF d
        <4>5. QED BY <1>2, <4>3, <4>4
      <3> HIDE DEF d
      <3>2. v = d * 0 + v /\ v \in 0..(d - 1)
        BY <1>2, <3>1
      <3>3. v \div d = 0
        <4>1. \A x \in Nat : \A z \in Nat \ {0} : \A q \in Nat : \A y \in 0..(z - 1) :
                x = z * q + y => x \div z = q
          BY DivModUnique
        <4>2. 0 \in Nat /\ v \in Nat /\ d \in Nat \ {0}
          BY <1>2, <3>1
        <4>3. \A z \in Nat \ {0} : \A q \in Nat : \A y \in 0..(z - 1) : v = z * q + y => v \div z = q
          BY <4>1, <4>2, Zenon
        <4>4. \A q \in Nat : \A y \in 0..(d - 1) : v = d * q + y => v \div d = q
          BY <4>2, <4>3, Zenon
        <4>5. QED BY <3>2, <4>2, <4>4, Zenon
      <3>4. QED BY <3>3 DEF Bit, d
    <2>4. BitReverseIndex(v, k + b) = Shl[k] * r
      BY <1>5
    <2>5. Shl[k + 1] = 2 * Shl[k] /\ Shl[k] \in Nat
      BY <2>1, ShlDoubles
    <2>6. 2 * (Shl[k] * r) + 0 = (2 * Shl[k]) * r
      <3>1. \A x, y \in Nat : 2 * (x * y) + 0 = (2 * x) * y
        BY Z3
      <3>2. QED BY <1>3, <2>5, <3>1
    <2>7. QED BY <2>1, <2>2, <2>3, <2>4, <2>5, <2>6
  <1> DEFINE S == T
  <1> HIDE DEF S
  <1>6. 0 \in S /\ \A k \in 0..(e - 1) : k \in S => k + 1 \in S
    BY <1>4, <1>5 DEF S
  <1>7. \A k \in 0..e : k \in S
    BY <1>6, SetInduction
  <1>8. e \in T
    BY <1>7 DEF S
  <1>9. QED BY <1>8 DEF r

\* The last level of a repacking.
LEMMA PlainSpreads ==
  ASSUME NEW j, JobTyped(j), j.op = "repack"
  PROVE  Plain(j, N, 0) = [x \in 0..(N - 1) |-> Spread(j, x)]
  <1> DEFINE t == Len(j.messages)
             g == j.g
             w == N \div g
  <1>1. g \in Degrees /\ g \in Nat \ {0} /\ N \in Degrees /\ N \in Nat \ {0} /\ g <= N /\ t * g <= N
        /\ j.messages \in [1..t -> Poly(N)]
    <2>1. g \in Degrees /\ N \in Degrees
      BY DegreeEnds DEF JobTyped
    <2>2. QED BY <2>1, Degree DEF JobTyped
  <1>2. PICK b \in 0..MaxBits : t = Shl[b]
    BY DEF JobTyped
  <1>3. PICK l \in 0..MaxBits : /\ w = Shl[l] /\ Log2(w) = l /\ N = g * Shl[l] /\ Shl[l] \in Nat \ {0}
    BY <1>1, DegreeOver
  <1>4. t \in Nat \ {0} /\ w \in Nat \ {0} /\ N = g * w /\ MaxBits \in Nat
    <2>1. MaxBits \in Nat
      BY ShlAssumption
    <2>2. QED BY <1>2, <1>3, <2>1, ShlDoubles
  <1>5. \A x \in 0..(N - 1) : /\ TreeLeaf(0, l, x) \in Nat /\ x \div Shl[l] \in 0..(g - 1)
                              /\ Plain(j, N, 0)[x] = LeafPlain(j, TreeLeaf(0, l, x))[x \div Shl[l]]
    BY <1>1, <1>3, PlainAt
  <1>6. Plain(j, N, 0) \in Poly(N)
    BY <1>1, <1>3, PlainAt
  <1>7. /\ Log2(t) = b /\ w = N \div j.g
        /\ \A v : LeafPlain(j, v) = IF v < t THEN ProjectAt(j.messages[BitReverseIndex(v, Log2(t)) + 1], N, g, 0)
                                    ELSE Zero(g)
    BY <1>2, LogIs, Zenon DEF LeafPlain
  <1> HIDE DEF t, g, w
  <1>8. b <= l
    <2>1. t <= w
      <3>1. ASSUME w < t PROVE FALSE
        <4>1. g * w < t * g /\ g * w \in Nat /\ t * g \in Nat
          BY <1>1, <1>4, <3>1, Z3
        <4>2. QED BY <1>1, <1>4, <4>1
      <3>2. QED BY <1>4, <3>1
    <2>2. l < b => Shl[l] < Shl[b]
      BY ShlGrows
    <2>3. QED BY <1>2, <1>3, <1>4, <2>1, <2>2
  <1> DEFINE e == l - b
             stride == Shl[e]
  <1>9. e \in Nat /\ e + b = l /\ e + b <= MaxBits /\ e \in 0..MaxBits /\ b \in Nat
    BY <1>4, <1>8
  <1> HIDE DEF e
  <1>10. stride \in Nat \ {0} /\ w = stride * t /\ w = t * stride /\ w \div t = stride
    <2>1. Shl[e + b] = Shl[e] * Shl[b]
      BY <1>9, ShlAssumption
    <2>2. stride \in Nat \ {0} /\ w = stride * t
      BY <1>2, <1>3, <1>9, <2>1, ShlDoubles
    <2> HIDE DEF stride
    <2>3. w = t * stride
      <3>1. \A x, y \in Nat : x * y = y * x
        BY Z3
      <3>2. QED BY <1>4, <2>2, <3>1
    <2>4. w = t * stride + 0 /\ 0 \in 0..(t - 1)
      BY <1>4, <2>3
    <2>5. w \div t = stride
      BY <1>4, <2>2, <2>4, DivModUnique
    <2>6. QED BY <2>2, <2>3, <2>5
  <1>11. \A x : Spread(j, x) = IF (x % w) % stride # 0 THEN 0
                               ELSE j.messages[((x % w) \div stride) + 1][(x \div w) * w]
    <2> HIDE DEF stride
    <2>1. QED BY <1>7, <1>10, Zenon DEF Spread, t
  <1>12. ASSUME NEW x \in 0..(N - 1) PROVE Plain(j, N, 0)[x] = Spread(j, x)
    <2> DEFINE v == BitReverseIndex(x, l)
               u == x % w
               c == x \div w
    <2>1. x \in Nat /\ u \in 0..(w - 1) /\ c \in Nat
      <3>1. x \in Nat
        BY <1>1
      <3>2. QED BY <1>4, <3>1, DivMod
    <2>2. v \in 0..(w - 1) /\ BitReverseIndex(v, l) = u
      BY <1>3, <2>1, ReversalGrows, ReversedTwice
    <2>3. c \in 0..(g - 1) /\ Plain(j, N, 0)[x] = LeafPlain(j, v)[c]
      <3>1. TreeLeaf(0, l, x) = v
        <4>1. 0 * Shl[l] + v = v
          <5> HIDE DEF v
          <5>1. v \in Nat
            BY <1>4, <2>2
          <5>2. QED BY <1>3, <5>1
        <4>2. QED BY <4>1 DEF TreeLeaf
      <3>2. QED BY <1>3, <1>5, <3>1
    <2> HIDE DEF v, u, c, stride
    <2>4. CASE v < t
      <3> DEFINE r == BitReverseIndex(v, b)
      <3>1. v \in 0..(Shl[b] - 1) /\ v \in Nat
        BY <1>2, <1>4, <2>2, <2>4
      <3>2. r \in 0..(t - 1) /\ u = stride * r
        <4>1. r \in 0..(Shl[b] - 1)
          BY <3>1, ReversalGrows
        <4>2. BitReverseIndex(v, e + b) = Shl[e] * r
          BY <1>9, <3>1, ReversalOfSmall
        <4>3. QED BY <1>2, <1>9, <2>2, <4>1, <4>2 DEF stride
      <3> HIDE DEF r
      <3>3. u % stride = 0 /\ u \div stride = r
        <4>1. r \in Nat /\ u \in Nat /\ 0 \in 0..(stride - 1)
          BY <1>4, <1>10, <2>1, <3>2
        <4>2. u = stride * r + 0
          BY <3>2, <4>1
        <4>3. QED BY <1>10, <4>1, <4>2, DivModUnique
      <3>4. Spread(j, x) = j.messages[r + 1][c * w]
        <4>1. Spread(j, x) = IF u % stride # 0 THEN 0 ELSE j.messages[(u \div stride) + 1][c * w]
          BY <1>11, Zenon DEF u, c
        <4>2. QED BY <3>3, <4>1
      <3>5. LeafPlain(j, v) = ProjectAt(j.messages[r + 1], N, g, 0)
        BY <1>7, <2>4 DEF r
      <3>6. r + 1 \in 1..t /\ j.messages[r + 1] \in Poly(N)
        <4>1. r + 1 \in 1..t
          BY <1>4, <3>2
        <4>2. QED BY <1>1, <4>1
      <3>7. ProjectAt(j.messages[r + 1], N, g, 0)[c] = j.messages[r + 1][w * c + 0]
        <4>1. N = w * g
          <5>1. \A y, z \in Nat : y * z = z * y
            BY Z3
          <5>2. QED BY <1>1, <1>4, <5>1
        <4>2. 0 \in 0..(w - 1)
          BY <1>4
        <4>3. \A f \in Poly(N) : \A i \in 0..(g - 1) : ProjectAt(f, N, g, 0)[i] = f[w * i + 0]
          <5>1. w \in Nat \ {0} /\ g \in Nat \ {0}
            BY <1>1, <1>4
          <5>2. \A large : large = w * g => \A f \in Poly(large) :
                  \A i \in 0..(g - 1) : ProjectAt(f, large, g, 0)[i] = f[w * i + 0]
            <6> SUFFICES ASSUME NEW large, large = w * g, NEW f \in Poly(large), NEW i \in 0..(g - 1)
                         PROVE  ProjectAt(f, large, g, 0)[i] = f[w * i + 0]
              OBVIOUS
            <6>1. QED BY <4>2, <5>1, ProjectIn
          <5>3. QED BY <4>1, <5>2, Zenon
        <4>4. QED BY <2>3, <3>6, <4>3, Zenon
      <3>8. w * c + 0 = c * w
        <4>1. \A y, z \in Nat : y * z + 0 = z * y
          BY Z3
        <4>2. QED BY <1>4, <2>1, <4>1
      <3>9. QED BY <2>3, <3>4, <3>5, <3>7, <3>8
    <2>5. CASE ~(v < t)
      <3>1. u % stride # 0
        <4>1. SUFFICES ASSUME u % stride = 0 PROVE FALSE
          OBVIOUS
        <4> DEFINE m == u \div stride
        <4>2. m \in Nat /\ u = stride * m + 0 /\ u \in Nat
          <5>1. u \in Nat
            BY <1>4, <2>1
          <5>2. m \in Nat /\ u = stride * m + (u % stride)
            BY <1>10, <5>1, DivMod
          <5> HIDE DEF m
          <5>3. QED BY <4>1, <5>1, <5>2
        <4> HIDE DEF m
        <4>3. u = stride * m
          BY <1>10, <4>2, NatProduct
        <4>4. m < t
          <5>1. ASSUME t <= m PROVE FALSE
            <6>1. stride * t <= stride * m
              BY <1>4, <1>10, <4>2, <5>1, Z3
            <6>2. QED BY <1>4, <1>10, <2>1, <4>2, <4>3, <6>1
          <5>2. QED BY <1>4, <4>2, <5>1
        <4>5. BitReverseIndex(stride * m, e + b) = BitReverseIndex(m, b)
          BY <1>9, <4>2, ReversalOfMultiple DEF stride
        <4>6. BitReverseIndex(m, b) \in 0..(t - 1)
          BY <1>2, <4>2, ReversalGrows
        <4>7. BitReverseIndex(BitReverseIndex(v, l), l) = v % Shl[l]
          <5>1. v \in Nat
            BY <1>4, <2>2
          <5>2. QED BY <5>1, ReversedTwice
        <4>8. v % w = v
          <5>1. v \in Nat /\ v = w * 0 + v
            BY <1>4, <2>2
          <5>2. QED BY <1>4, <2>2, <5>1, DivModUnique
        <4>9. v = BitReverseIndex(m, b)
          BY <1>3, <1>9, <2>2, <4>3, <4>5, <4>7, <4>8
        <4>10. QED BY <1>4, <2>5, <4>6, <4>9
      <3>2. Spread(j, x) = 0
        <4>1. Spread(j, x) = IF u % stride # 0 THEN 0 ELSE j.messages[(u \div stride) + 1][c * w]
          BY <1>11, Zenon DEF u, c
        <4>2. QED BY <3>1, <4>1
      <3>3. LeafPlain(j, v)[c] = 0
        <4>1. LeafPlain(j, v) = Zero(g)
          BY <1>7, <2>5
        <4>2. QED BY <2>3, <4>1 DEF Zero
      <3>4. QED BY <2>3, <3>2, <3>3
    <2>6. QED BY <2>4, <2>5
  <1>13. Plain(j, N, 0) = [x \in 0..(N - 1) |-> Plain(j, N, 0)[x]]
    BY <1>6 DEF Poly
  <1>14. QED BY <1>12, <1>13, Zenon

\* The end of a cascade.
LEMMA PlainCascaded ==
  ASSUME NEW j, JobTyped(j), j.op # "repack"
  PROVE  Plain(j, N, 0) = [x \in 0..(N - 1) |-> Spread(j, x)]
  <1>1. N \in Nat \ {0} /\ j.g = 1 /\ Len(j.messages) = 1
    BY DegreeEnds DEF JobTyped
  <1>2. N \div j.g = N /\ (N \div j.g) \div Len(j.messages) = N
    BY <1>1
  <1>3. ASSUME NEW x \in 0..(N - 1) PROVE Spread(j, x) = IF x = 0 THEN j.messages[1][0] ELSE 0
    <2>1. x \in Nat /\ x = N * 0 + x
      BY <1>1
    <2>2. x \div N = 0 /\ x % N = x
      BY <1>1, <2>1, DivModUnique
    <2>3. Spread(j, x) = IF x # 0 THEN 0 ELSE j.messages[0 + 1][0 * N]
      <3>1. Spread(j, x) = IF (x % N) % N # 0 THEN 0 ELSE j.messages[((x % N) \div N) + 1][(x \div N) * N]
        BY <1>2, Zenon DEF Spread
      <3>2. QED BY <2>2, <3>1
    <2>4. 0 + 1 = 1 /\ 0 * N = 0
      BY <1>1
    <2>5. QED BY <2>3, <2>4
  <1>4. Plain(j, N, 0) = [x \in 0..(N - 1) |-> IF x = 0 THEN j.messages[1][0] ELSE 0]
    BY Zenon DEF Plain
  <1>5. QED BY <1>3, <1>4, Zenon

-----------------------------------------------------------------------------
(***************************************************************************)
(* Extraction.                                                             *)
(***************************************************************************)

\* Every degree divides N.
LEMMA DegreeTower ==
  ASSUME NEW n \in Degrees
  PROVE  Tower(N, Rank(n), n)
  BY Degree DEF Tower

\* Projection preserves differences.
LEMMA ProjectLinear ==
  ASSUME NEW n \in Degrees, NEW f \in Poly(N), NEW g \in Poly(N), NEW k \in 0..(Rank(n) - 1)
  PROVE  ProjectAt(Sub(f, g), N, n, k) = Sub(ProjectAt(f, N, n, k), ProjectAt(g, N, n, k))
  BY DegreeTower, SlotLinear

\* The masks that extr makes of one of degree N.
ExtrMasks(a, n) == Extracted(a, N, Rank(n), n)

\* They are masks.
LEMMA ExtrMasksIn ==
  ASSUME NEW n \in Degrees, NEW a \in Poly(N)
  PROVE  /\ ExtrMasks(a, n) \in Masks(n)
         /\ \A k \in 0..(Rank(n) - 1) : k # 0 => ProjectAt(a, N, n, Rank(n) - k) \in Poly(n)
  BY DegreeTower, ExtractedIn DEF ExtrMasks, Masks, Terms

\* The extracted masks under the projected keys are the product under the
\* whole key, projected.
LEMMA ExtractedDot ==
  ASSUME NEW n \in Degrees, NEW q \in Poly(N), NEW a \in Poly(N)
  PROVE  /\ Sums(KeyTerms(q, ExtrMasks(a, n), n), 0, Rank(n), n) = ProjectAt(Mul(a, q, N), N, n, 0)
         /\ Mul(a, q, N) \in Poly(N)
  <1>1. KeyTerms(q, ExtrMasks(a, n), n) = DotTerms(ExtrMasks(a, n), q, N, Rank(n), n)
    BY Zenon DEF KeyTerms, DotTerms
  <1>2. /\ Sums(DotTerms(Extracted(a, N, Rank(n), n), q, N, Rank(n), n), 0, Rank(n), n)
             = ProjectAt(Mul(a, q, N), N, n, 0)
        /\ Mul(a, q, N) \in Poly(N)
    BY DegreeTower, SlotDot
  <1>3. QED BY <1>1, <1>2 DEF ExtrMasks

\* For every degree, ciphertext and secret: what extr makes decrypts, under the
\* projections of the secret, to the projection of the plaintext (extract.rs extr).
THEOREM ExtractionProjects ==
  ASSUME s \in Poly(N), NEW n \in Degrees, NEW ct \in Cts(N)
  PROVE  /\ Extr(ct, n) \in Cts(n)
         /\ Phase(Extr(ct, n), n) = ProjectAt(Phase(ct, N), N, n, 0)
  <1>1. n \in Nat \ {0} /\ Rank(n) \in Nat \ {0} /\ 0 \in 0..(Rank(n) - 1)
    BY Degree
  <1>2. Phase(ct, N) = Sub(ct.body, Mul(ct.masks[0], s, N)) /\ ct.masks[0] \in Poly(N) /\ ct.body \in Poly(N)
    BY PhaseOfOne
  <1> DEFINE a == ct.masks[0]
             b == ct.body
             M == ExtrMasks(a, n)
             e == Extr(ct, n)
  <1>3. M \in Masks(n) /\ \A k \in 0..(Rank(n) - 1) : k # 0 => ProjectAt(a, N, n, Rank(n) - k) \in Poly(n)
    BY <1>2, ExtrMasksIn
  <1>4. e = Ct(M, ProjectAt(b, N, n, 0))
    <2>1. ASSUME NEW k \in 0..(Rank(n) - 1)
          PROVE  (IF k = 0 THEN ProjectAt(a, N, n, 0) ELSE MulXPow(ProjectAt(a, N, n, Rank(n) - k), n, 1))
                   = (IF k = 0 THEN ProjectAt(a, N, n, 0) ELSE TimesX(ProjectAt(a, N, n, Rank(n) - k), n))
      <3> HIDE DEF a
      <3>1. CASE k = 0
        BY <3>1, Zenon
      <3>2. CASE k # 0
        <4>1. MulXPow(ProjectAt(a, N, n, Rank(n) - k), n, 1) = TimesX(ProjectAt(a, N, n, Rank(n) - k), n)
          BY <1>1, <1>3, <3>2, MulXPowOne
        <4>2. QED BY <3>2, <4>1, Zenon
      <3>3. QED BY <3>1, <3>2, Zenon
    <2>2. QED BY <2>1, Zenon DEF Extr, ExtrMasks, Extracted
  <1>5. ProjectAt(b, N, n, 0) \in Poly(n)
    BY <1>1, <1>2, KeyIn
  <1> HIDE DEF M, e, a, b
  <1>6. e \in Cts(n) /\ e.masks = M /\ e.body = ProjectAt(b, N, n, 0)
    BY <1>3, <1>4, <1>5 DEF Ct, Cts
  <1>7. Phase(e, n) = Sub(e.body, Sums(KeyTerms(s, e.masks, n), 0, Rank(n), n))
    BY <1>6, PhaseIs
  <1>8. Sums(KeyTerms(s, M, n), 0, Rank(n), n) = ProjectAt(Mul(a, s, N), N, n, 0) /\ Mul(a, s, N) \in Poly(N)
    BY <1>2, ExtractedDot DEF M, a
  <1>9. ProjectAt(Sub(b, Mul(a, s, N)), N, n, 0) = Sub(ProjectAt(b, N, n, 0), ProjectAt(Mul(a, s, N), N, n, 0))
    BY <1>1, <1>2, <1>8, ProjectLinear DEF b
  <1>10. QED BY <1>2, <1>6, <1>7, <1>8, <1>9 DEF e, a, b

-----------------------------------------------------------------------------
(***************************************************************************)
(* The inductive invariant of the conversions.                             *)
(***************************************************************************)

\* cs holds ciphertexts of degree n of the plaintexts first, first + 1, ...
Holding(q, j, n, cs, first) ==
  /\ cs \in Seq(Cts(n))
  /\ \A i \in 1..Len(cs) : PhaseOf(q, cs[i], n) = Plain(j, n, first + (i - 1))

\* In the middle of a level: cs is to be converted, os is.
Level(q, j, n, cs, os) ==
  /\ n \in Degrees /\ n # N /\ j.g <= n
  /\ Holding(q, j, n, cs, 2 * Len(os)) /\ Holding(q, j, 2 * n, os, 0)
  /\ IF j.op = "repack" THEN Len(cs) # 0 /\ Len(cs) + 2 * Len(os) = Rank(n)
                        ELSE Len(cs) = 1 /\ os = <<>>

\* What a conversion makes of the first of cs.
Converted(q, j, n, cs) ==
  IF j.op = "repack" THEN Add(Iota(PhaseOf(q, cs[1], n), n, 0), Iota(PhaseOf(q, cs[2], n), n, 1))
                     ELSE Iota(PhaseOf(q, cs[1], n), n, 0)

\* In the middle of a conversion: masks below x of fr are switched into a.
Carrying(q, j, n, cs, fr, a, x) ==
  /\ fr \in Embedded(n) /\ a \in Cts(2 * n) /\ x \in 0..Rank(n)
  /\ Sub(PhaseOf(q, a, 2 * n), Sums(FromTerms(q, fr, n), x, Rank(n), 2 * n)) = Converted(q, j, n, cs)

Finished(q, j, cs) == Len(cs) = 1 /\ Holding(q, j, N, cs, 0)

CtInv ==
  /\ pc = "idle" => out = <<>>
  /\ pc # "idle" => JobTyped(job)
  /\ pc \in {"next", "switch"} => Level(s, job, deg, cts, out)
  /\ pc = "switch" => Carrying(s, job, deg, cts, from, acc, idx)
  /\ pc \in {"done", "rgsw"} => Finished(s, job, cts)
  /\ pc = "rgsw" => negSM \in Cts(N) /\ PhaseOf(s, negSM, N) = Neg(Mul(s, PhaseOf(s, cts[1], N), N))

\* The masks tried are polynomials.
LEMMA UniformIn ==
  ASSUME NEW n \in Degrees
  PROVE  Uniform(n) \subseteq Poly(n)
  <1>1. PICK k \in 0..MaxBits : n = Shl[k] /\ n <= N
    BY DEF Degrees
  <1>2. Shl[k] <= N => Uniform(Shl[k]) \subseteq Poly(Shl[k])
    BY ConversionAssumption
  <1>3. QED BY <1>1, <1>2, Zenon

\* A function on 1..t is a sequence of length t.
LEMMA SequenceOf ==
  ASSUME NEW t \in Nat, NEW S, NEW f \in [1..t -> S]
  PROVE  f \in Seq(S) /\ Len(f) = t
  <1>1. f \in Seq(S)
    BY SeqDef
  <1>2. Len(f) \in Nat /\ DOMAIN f = 1..Len(f)
    BY <1>1, LenProperties
  <1>3. 1..Len(f) = 1..t
    BY <1>2
  <1>4. QED BY <1>1, <1>2, <1>3

\* One ciphertext of plaintext k.
LEMMA HoldingOne ==
  ASSUME NEW q, NEW j, NEW n, NEW c \in Cts(n), NEW k \in Nat, PhaseOf(q, c, n) = Plain(j, n, k)
  PROVE  Len(<<c>>) = 1 /\ Holding(q, j, n, <<c>>, k)
  <1>1. <<c>> \in Seq(Cts(n)) /\ Len(<<c>>) = 1
    OBVIOUS
  <1>2. ASSUME NEW i \in 1..Len(<<c>>) PROVE PhaseOf(q, <<c>>[i], n) = Plain(j, n, k + (i - 1))
    <2>1. i = 1 /\ k + (i - 1) = k
      BY <1>1, <1>2
    <2>2. <<c>>[i] = c
      BY <2>1
    <2>3. QED BY <2>1, <2>2, Zenon
  <1>3. QED BY <1>1, <1>2 DEF Holding

\* No ciphertext.
LEMMA HoldingNone ==
  ASSUME NEW q, NEW j, NEW n, NEW k
  PROVE  Holding(q, j, n, <<>>, k) /\ Len(<<>>) = 0
  <1>1. <<>> \in Seq(Cts(n)) /\ Len(<<>>) = 0
    OBVIOUS
  <1>2. QED BY <1>1 DEF Holding

\* A cascade starts with its level.
LEMMA CascadeStarts ==
  ASSUME s \in Poly(N), NEW m \in Poly(1), NEW masks \in [0..(N - 1) -> Poly(1)],
         NEW op \in {"cascade", "cascade_eval"}, NEW j, j = [op |-> op, g |-> 1, messages |-> <<m>>]
  PROVE  JobTyped(j) /\ Level(s, j, 1, <<Encrypt(m, masks, 1)>>, <<>>)
  <1>1. 1 \in Degrees /\ 1 # N /\ N \in Nat \ {0}
    BY DegreeEnds
  <1>2. j.op = op /\ j.op # "repack" /\ j.g = 1 /\ j.messages = <<m>> /\ Len(j.messages) = 1 /\ j.messages[1] = m
    OBVIOUS
  <1>3. JobTyped(j)
    BY <1>2 DEF JobTyped
  <1>4. Rank(1) = N
    BY <1>1 DEF Rank
  <1>5. masks \in Masks(1)
    BY <1>4 DEF Masks
  <1>6. Encrypt(m, masks, 1) \in Cts(1) /\ Phase(Encrypt(m, masks, 1), 1) = m
    BY <1>1, <1>5, EncryptIs
  <1> DEFINE c == Encrypt(m, masks, 1)
  <1> HIDE DEF c
  <1>7. c \in Cts(1) /\ Phase(c, 1) = m
    BY <1>6 DEF c
  <1>8. PhaseOf(s, c, 1) = Plain(j, 1, 0)
    <2>1. Phase(c, 1) = PhaseOf(s, c, 1)
      BY <1>1, <1>7, PhaseIs
    <2>2. Plain(j, 1, 0) = m
      BY <1>1, <1>2, <1>3, PlainCascades
    <2>3. QED BY <1>7, <2>1, <2>2
  <1>9. Len(<<c>>) = 1 /\ Holding(s, j, 1, <<c>>, 0)
    BY <1>7, <1>8, HoldingOne
  <1>10. Holding(s, j, 2 * 1, <<>>, 0) /\ Len(<<>>) = 0 /\ 2 * Len(<<>>) = 0
    BY HoldingNone
  <1>11. Level(s, j, 1, <<c>>, <<>>)
    BY <1>1, <1>2, <1>9, <1>10 DEF Level
  <1>12. QED BY <1>3, <1>11 DEF c

\* A ciphertext of zeros.
LEMMA ZeroLeaf ==
  ASSUME s \in Poly(N), NEW g \in Degrees, NEW c, c = Ct([k \in 0..(Rank(g) - 1) |-> Zero(g)], Zero(g))
  PROVE  c \in Cts(g) /\ PhaseOf(s, c, g) = Zero(g)
  <1>1. Zero(g) \in Poly(g)
    <2>1. 0 \in Coeff
      BY CoeffClosed
    <2>2. QED BY <2>1 DEF Zero, Poly
  <1>2. c \in Cts(g) /\ Phase(c, g) = Zero(g)
    BY <1>1, AccumulatorStarts
  <1>3. Phase(c, g) = PhaseOf(s, c, g)
    BY <1>2, PhaseIs
  <1>4. QED BY <1>2, <1>3

\* The leaves of repack decrypt to the projections of the inputs, in bit-reversed order, and to zeros.
LEMMA LeavesAre ==
  ASSUME s \in Poly(N), NEW j, JobTyped(j), j.op = "repack", NEW inputs,
         inputs \in Seq(Cts(N)), Len(inputs) = Len(j.messages),
         \A i \in 1..Len(inputs) : Phase(inputs[i], N) = j.messages[i]
  PROVE  /\ Leaves(inputs, j.g) \in Seq(Cts(j.g)) /\ Len(Leaves(inputs, j.g)) = Rank(j.g)
         /\ Holding(s, j, j.g, Leaves(inputs, j.g), 0)
  <1> DEFINE t == Len(inputs)
             g == j.g
             zero == Ct([k \in 0..(Rank(g) - 1) |-> Zero(g)], Zero(g))
             leaf(x) == IF x <= t THEN Extr(inputs[BitReverseIndex(x - 1, Log2(t)) + 1], g) ELSE zero
             L == [x \in 1..Rank(g) |-> leaf(x)]
  <1>1. Leaves(inputs, g) = L
    BY Zenon DEF Leaves, Rank
  <1>2. g \in Degrees /\ Rank(g) \in Nat \ {0} /\ 0 \in 0..(Rank(g) - 1) /\ N \in Degrees
    <2>1. g \in Degrees
      BY DEF JobTyped
    <2> HIDE DEF g
    <2>2. Rank(g) \in Nat \ {0} /\ N \in Degrees
      BY <2>1, Degree, DegreeEnds
    <2> DEFINE r == Rank(g)
    <2>3. r \in Nat \ {0}
      BY <2>2
    <2> HIDE DEF r
    <2>4. 0 \in 0..(r - 1)
      BY <2>3
    <2>5. QED BY <2>1, <2>2, <2>4 DEF r
  <1>3. PICK b \in 0..MaxBits : t = Shl[b]
    BY DEF JobTyped
  <1>4. Log2(t) = b /\ t \in Nat \ {0} /\ MaxBits \in Nat
    <2>1. MaxBits \in Nat
      BY ShlAssumption
    <2>2. QED BY <1>3, <2>1, LogIs, ShlDoubles
  <1>5. j.messages \in [1..t -> Poly(N)] /\ t = Len(j.messages)
    BY DEF JobTyped
  <1>6. \A i \in 1..t : inputs[i] \in Cts(N) /\ Phase(inputs[i], N) = j.messages[i]
    BY LenProperties
  <1>7. \A v : LeafPlain(j, v) = IF v < t THEN ProjectAt(j.messages[BitReverseIndex(v, Log2(t)) + 1], N, g, 0)
                                 ELSE Zero(g)
    BY <1>5, Zenon DEF LeafPlain
  <1>8. zero \in Cts(g) /\ PhaseOf(s, zero, g) = Zero(g)
    <2> HIDE DEF g
    <2>1. QED BY <1>2, ZeroLeaf
  <1> HIDE DEF t, zero, g
  <1>9. ASSUME NEW x \in 1..Rank(g)
        PROVE  leaf(x) \in Cts(g) /\ PhaseOf(s, leaf(x), g) = LeafPlain(j, x - 1)
    <2> DEFINE v == x - 1
    <2>1. v \in Nat /\ (x <= t <=> v < t)
      BY <1>2, <1>4
    <2>2. CASE x <= t
      <3> DEFINE r == BitReverseIndex(v, b)
      <3>1. v \in 0..(t - 1)
        BY <1>4, <2>1, <2>2
      <3>2. r \in 0..(t - 1)
        BY <1>3, <2>1, ReversalGrows
      <3> HIDE DEF r, v
      <3>3. r + 1 \in 1..t
        BY <1>4, <3>2
      <3> DEFINE ct == inputs[r + 1]
      <3>4. ct \in Cts(N) /\ Phase(ct, N) = j.messages[r + 1]
        BY <1>6, <3>3
      <3> HIDE DEF ct
      <3>5. Extr(ct, g) \in Cts(g) /\ Phase(Extr(ct, g), g) = ProjectAt(Phase(ct, N), N, g, 0)
        BY <1>2, <3>4, ExtractionProjects
      <3>6. Phase(Extr(ct, g), g) = PhaseOf(s, Extr(ct, g), g)
        BY <1>2, <3>5, PhaseIs
      <3>7. leaf(x) = Extr(ct, g)
        BY <1>4, <2>2, Zenon DEF ct, r, v
      <3>8. LeafPlain(j, v) = ProjectAt(j.messages[r + 1], N, g, 0)
        BY <1>4, <1>7, <2>1, <2>2, Zenon DEF r
      <3>9. QED BY <3>4, <3>5, <3>6, <3>7, <3>8, Zenon DEF v
    <2>3. CASE ~(x <= t)
      <3>1. leaf(x) = zero
        BY <2>3, Zenon
      <3>2. LeafPlain(j, v) = Zero(g)
        BY <1>7, <2>1, <2>3, Zenon
      <3>3. QED BY <1>8, <3>1, <3>2, Zenon
    <2>4. QED BY <2>2, <2>3, Zenon
  <1> HIDE DEF leaf
  <1>10. L \in [1..Rank(g) -> Cts(g)] /\ \A x \in 1..Rank(g) : L[x] = leaf(x)
    BY <1>9, Zenon
  <1> HIDE DEF L
  <1>11. L \in Seq(Cts(g)) /\ Len(L) = Rank(g)
    BY <1>2, <1>10, SequenceOf
  <1>12. ASSUME NEW i \in 1..Len(L) PROVE PhaseOf(s, L[i], g) = Plain(j, g, 0 + (i - 1))
    <2>1. i \in 1..Rank(g) /\ 0 + (i - 1) = i - 1 /\ i - 1 \in Nat
      BY <1>2, <1>11
    <2>2. Plain(j, g, i - 1) = LeafPlain(j, i - 1)
      BY <2>1, PlainLeaf DEF g
    <2>3. PhaseOf(s, L[i], g) = LeafPlain(j, i - 1)
      BY <1>9, <1>10, <2>1, Zenon
    <2>4. QED BY <2>1, <2>2, <2>3, Zenon
  <1>13. Holding(s, j, g, L, 0)
    BY <1>11, <1>12 DEF Holding
  <1>14. QED BY <1>1, <1>11, <1>13 DEF g

\* The shape of a repacking.
LEMMA BatchIs ==
  ASSUME NEW b \in Batches
  PROVE  /\ \E i \in 0..MaxBits : b.t = Shl[i]
         /\ b.t \in Nat \ {0} /\ b.t * b.g <= N
  <1>1. PICK i \in 0..MaxBits, k \in 0..MaxBits : b = [t |-> Shl[i], g |-> Shl[k]] /\ b.t * b.g <= N
    BY ConversionAssumption, Zenon
  <1>2. b.t = Shl[i]
    BY <1>1
  <1>3. Shl[i] \in Nat \ {0}
    BY ShlDoubles
  <1>4. QED BY <1>1, <1>2, <1>3

\* A repacking starts with its level.
LEMMA RepackStarts ==
  ASSUME s \in Poly(N), NEW b \in Batches, NEW ms \in [1..b.t -> Messages],
         NEW masks \in [1..b.t -> Uniform(N)], NEW j, j = [op |-> "repack", g |-> b.g, messages |-> ms]
  PROVE  /\ JobTyped(j)
         /\ Level(s, j, b.g, Leaves([i \in 1..b.t |-> Encrypt(ms[i], [k \in {0} |-> masks[i]], N)], b.g), <<>>)
  <1> DEFINE t == b.t
             g == b.g
             mask(i) == [k \in {0} |-> masks[i]]
             inputs == [i \in 1..t |-> Encrypt(ms[i], mask(i), N)]
  <1>1. g \in Degrees /\ g # N /\ (\E i \in 0..MaxBits : t = Shl[i]) /\ t \in Nat \ {0} /\ t * g <= N
    BY BatchDegree, BatchIs
  <1>2. \A i \in 1..t : ms[i] \in Poly(N) /\ masks[i] \in Poly(N)
    <2>1. Messages \subseteq Poly(N) /\ Uniform(N) \subseteq Poly(N)
      BY ConversionAssumption, UniformIn, DegreeEnds
    <2>2. QED BY <2>1
  <1> HIDE DEF t, g
  <1>3. ms \in [1..t -> Poly(N)]
    BY <1>2, Zenon DEF t
  <1>4. ms \in Seq(Poly(N)) /\ Len(ms) = t
    BY <1>1, <1>3, SequenceOf
  <1>5. j.op = "repack" /\ j.g = g /\ j.messages = ms
    BY DEF g
  <1>6. JobTyped(j)
    BY <1>1, <1>3, <1>4, <1>5 DEF JobTyped
  <1>7. N \in Degrees /\ Rank(N) = 1
    BY DegreeEnds, Degree
  <1>8. ASSUME NEW i \in 1..t
        PROVE  Encrypt(ms[i], mask(i), N) \in Cts(N) /\ Phase(Encrypt(ms[i], mask(i), N), N) = ms[i]
    <2>1. 0..(Rank(N) - 1) = {0}
      BY <1>7
    <2>2. mask(i) \in Masks(N)
      BY <1>2, <2>1 DEF Masks
    <2> HIDE DEF mask
    <2>3. QED BY <1>2, <1>7, <2>2, EncryptIs
  <1>9. inputs \in [1..t -> Cts(N)] /\ \A i \in 1..t : Phase(inputs[i], N) = ms[i]
    <2> HIDE DEF mask
    <2>1. QED BY <1>8, Zenon
  <1> HIDE DEF inputs
  <1>10. inputs \in Seq(Cts(N)) /\ Len(inputs) = t
    BY <1>1, <1>9, SequenceOf
  <1>11. /\ Leaves(inputs, g) \in Seq(Cts(g)) /\ Len(Leaves(inputs, g)) = Rank(g)
         /\ Holding(s, j, g, Leaves(inputs, g), 0)
    <2>1. \A i \in 1..Len(inputs) : Phase(inputs[i], N) = j.messages[i]
      BY <1>5, <1>9, <1>10
    <2>2. Len(inputs) = Len(j.messages)
      BY <1>4, <1>5, <1>10
    <2>3. /\ Leaves(inputs, j.g) \in Seq(Cts(j.g)) /\ Len(Leaves(inputs, j.g)) = Rank(j.g)
          /\ Holding(s, j, j.g, Leaves(inputs, j.g), 0)
      BY <1>5, <1>6, <1>10, <2>1, <2>2, LeavesAre
    <2>4. QED BY <1>5, <2>3
  <1>12. Level(s, j, g, Leaves(inputs, g), <<>>)
    <2> DEFINE L == Leaves(inputs, g)
    <2> HIDE DEF L
    <2>1. Len(L) = Rank(g) /\ Holding(s, j, g, L, 0)
      BY <1>11 DEF L
    <2>2. Len(<<>>) = 0 /\ Holding(s, j, 2 * g, <<>>, 0) /\ 2 * Len(<<>>) = 0
      BY HoldingNone
    <2>3. Rank(g) \in Nat \ {0} /\ g \in Nat
      BY <1>1, Degree
    <2>4. Holding(s, j, g, L, 2 * Len(<<>>))
      BY <2>1, <2>2
    <2>5. Len(L) # 0 /\ Len(L) + 2 * Len(<<>>) = Rank(g)
      BY <2>1, <2>2, <2>3
    <2>6. g <= g
      BY <2>3
    <2>7. Level(s, j, g, L, <<>>)
      BY <1>1, <1>5, <2>2, <2>4, <2>5, <2>6, Zenon DEF Level
    <2>8. QED BY <2>7 DEF L
  <1>13. QED BY <1>6, <1>12 DEF inputs, g, t, mask

\* What a level is about to convert.
Taken(j) == IF j.op = "repack" THEN 2 ELSE 1

\* The ciphertexts the next conversion takes are there: a repacking level holds a pair.
LEMMA LevelTakes ==
  ASSUME s \in Poly(N), NEW j, NEW n, NEW cs, NEW os, Level(s, j, n, cs, os)
  PROVE  /\ n \in Degrees /\ n # N /\ cs \in Seq(Cts(n)) /\ os \in Seq(Cts(2 * n))
         /\ Len(cs) \in Nat /\ Len(os) \in Nat /\ Taken(j) \in {1, 2} /\ Taken(j) <= Len(cs)
         /\ SubSeq(cs, 1, Taken(j)) \in Seq(Cts(n)) /\ Len(SubSeq(cs, 1, Taken(j))) = Taken(j)
         /\ \A i \in 1..Taken(j) : SubSeq(cs, 1, Taken(j))[i] = cs[i] /\ cs[i] \in Cts(n)
  <1> DEFINE a == Taken(j)
  <1>1. /\ n \in Degrees /\ n # N /\ cs \in Seq(Cts(n)) /\ os \in Seq(Cts(2 * n))
        /\ IF j.op = "repack" THEN Len(cs) # 0 /\ Len(cs) + 2 * Len(os) = Rank(n)
                              ELSE Len(cs) = 1 /\ os = <<>>
    BY DEF Level, Holding
  <1>2. Len(cs) \in Nat /\ Len(os) \in Nat
    BY <1>1
  <1>3. a \in {1, 2} /\ a <= Len(cs)
    <2>1. CASE j.op = "repack"
      <3>1. Rank(n) = 2 * Rank(2 * n) /\ 2 * n \in Degrees
        BY <1>1, Degree
      <3>2. Rank(2 * n) \in Nat
        BY <3>1, Degree
      <3>3. \A l, o, r \in Nat : l # 0 /\ l + 2 * o = 2 * r => 2 <= l
        OBVIOUS
      <3>4. Len(cs) # 0 /\ Len(cs) + 2 * Len(os) = 2 * Rank(2 * n)
        BY <1>1, <2>1, <3>1
      <3>5. 2 <= Len(cs)
        BY <1>2, <3>2, <3>3, <3>4, Zenon
      <3>6. QED BY <2>1, <3>5 DEF Taken
    <2>2. CASE j.op # "repack"
      BY <1>1, <2>2 DEF Taken
    <2>3. QED BY <2>1, <2>2
  <1> HIDE DEF a
  <1>4. \A i \in 1..Len(cs) : cs[i] \in Cts(n)
    BY <1>1
  <1>5. SubSeq(cs, 1, a) = [i \in 1..a |-> cs[i]]
    BY <1>1, <1>2, <1>3
  <1>6. SubSeq(cs, 1, a) \in [1..a -> Cts(n)] /\ \A i \in 1..a : SubSeq(cs, 1, a)[i] = cs[i] /\ cs[i] \in Cts(n)
    <2>1. \A i \in 1..a : i \in 1..Len(cs)
      BY <1>2, <1>3
    <2>2. QED BY <1>4, <1>5, <2>1
  <1>7. SubSeq(cs, 1, a) \in Seq(Cts(n)) /\ Len(SubSeq(cs, 1, a)) = a
    <2>1. a \in Nat
      BY <1>3
    <2> DEFINE q == SubSeq(cs, 1, a)
    <2>2. q \in [1..a -> Cts(n)]
      BY <1>6
    <2> HIDE DEF q
    <2>3. q \in Seq(Cts(n)) /\ Len(q) = a
      BY <2>1, <2>2, SequenceOf
    <2>4. QED BY <2>3 DEF q
  <1>8. QED BY <1>1, <1>2, <1>3, <1>6, <1>7 DEF a

\* With nothing switched, what is embedded decrypts under the old keys to what is converted.
LEMMA ConversionStarts ==
  ASSUME s \in Poly(N), NEW j, NEW n, NEW cs, NEW os, Level(s, j, n, cs, os),
         NEW embedded, embedded = Embed(SubSeq(cs, 1, Taken(j)), n),
         NEW a, a = Ct([k \in 0..(Rank(2 * n) - 1) |-> Zero(2 * n)], embedded.body)
  PROVE  Carrying(s, j, n, cs, embedded.masks, a, 0)
  <1>1. n \in Degrees /\ n # N /\ Taken(j) \in {1, 2}
    BY LevelTakes
  <1> DEFINE q == SubSeq(cs, 1, Taken(j))
  <1>2. /\ q \in Seq(Cts(n)) /\ Len(q) = Taken(j)
        /\ \A i \in 1..Taken(j) : q[i] = cs[i] /\ cs[i] \in Cts(n)
    BY LevelTakes
  <1>3. embedded = Embed(q, n)
    OBVIOUS
  <1> HIDE DEF q
  <1>4. Len(q) \in {1, 2}
    BY <1>1, <1>2
  <1>5. 2 * n \in Degrees /\ Rank(n) \in Nat /\ 0 \in 0..Rank(n)
    BY <1>1, Degree
  <1> DEFINE rest == Sums(FromTerms(s, embedded.masks, n), 0, Rank(n), 2 * n)
  <1>6. /\ embedded.masks \in Embedded(n) /\ embedded.body \in Poly(2 * n)
        /\ Sub(embedded.body, rest) = Converted(s, j, n, cs)
    <2>1. CASE Taken(j) = 1
      <3>1. cs[1] \in Cts(n) /\ q[1] = cs[1] /\ j.op # "repack" /\ Len(q) = 1
        BY <1>2, <2>1 DEF Taken
      <3>2. embedded = Ct(EmbeddedMasks(cs[1], n, 0), Iota(cs[1].body, n, 0))
        BY <1>1, <1>2, <1>3, <1>4, <3>1, EmbedIs
      <3>3. embedded.masks = EmbeddedMasks(cs[1], n, 0) /\ embedded.body = Iota(cs[1].body, n, 0)
        BY <3>2 DEF Ct
      <3>4. EmbeddedMasks(cs[1], n, 0) \in Embedded(n)
        BY <1>1, <3>1, EmbeddedPhase
      <3>5. /\ Sub(Iota(cs[1].body, n, 0), Sums(FromTerms(s, EmbeddedMasks(cs[1], n, 0), n), 0, Rank(n), 2 * n))
                 = Iota(Phase(cs[1], n), n, 0)
            /\ Iota(cs[1].body, n, 0) \in Poly(2 * n)
        BY <1>1, <3>1, CarriedByOne
      <3>6. Phase(cs[1], n) = PhaseOf(s, cs[1], n)
        BY <1>1, <3>1, PhaseIs
      <3>7. Converted(s, j, n, cs) = Iota(PhaseOf(s, cs[1], n), n, 0)
        BY <3>1 DEF Converted
      <3>8. QED BY <3>3, <3>4, <3>5, <3>6, <3>7, Zenon
    <2>2. CASE Taken(j) = 2
      <3>1. cs[1] \in Cts(n) /\ q[1] = cs[1] /\ cs[2] \in Cts(n) /\ q[2] = cs[2] /\ j.op = "repack" /\ Len(q) = 2
        BY <1>2, <2>2 DEF Taken
      <3> DEFINE masks == [k \in 0..(Rank(n) - 1) |-> Add(EmbeddedMasks(cs[1], n, 0)[k],
                                                          EmbeddedMasks(cs[2], n, 1)[k])]
                 body == Add(Iota(cs[1].body, n, 0), Iota(cs[2].body, n, 1))
      <3>2. embedded = Ct(masks, body)
        BY <1>1, <1>2, <1>3, <1>4, <3>1, EmbedIs
      <3>3. embedded.masks = masks /\ embedded.body = body
        <4> HIDE DEF masks, body
        <4>1. QED BY <3>2 DEF Ct
      <3>4. /\ masks \in Embedded(n) /\ body \in Poly(2 * n)
            /\ Sub(body, Sums(FromTerms(s, masks, n), 0, Rank(n), 2 * n))
                 = Add(Iota(Phase(cs[1], n), n, 0), Iota(Phase(cs[2], n), n, 1))
        BY <1>1, <3>1, CarriedByTwo
      <3> HIDE DEF masks, body
      <3>5. Phase(cs[1], n) = PhaseOf(s, cs[1], n) /\ Phase(cs[2], n) = PhaseOf(s, cs[2], n)
        BY <1>1, <3>1, PhaseIs
      <3>6. Converted(s, j, n, cs) = Add(Iota(PhaseOf(s, cs[1], n), n, 0), Iota(PhaseOf(s, cs[2], n), n, 1))
        BY <3>1 DEF Converted
      <3>7. QED BY <3>3, <3>4, <3>5, <3>6, Zenon
    <2>3. QED BY <1>1, <2>1, <2>2
  <1> HIDE DEF rest
  <1>7. a \in Cts(2 * n) /\ Phase(a, 2 * n) = embedded.body
    BY <1>5, <1>6, AccumulatorStarts
  <1>8. Phase(a, 2 * n) = PhaseOf(s, a, 2 * n)
    BY <1>5, <1>7, PhaseIs
  <1>9. QED BY <1>5, <1>6, <1>7, <1>8 DEF Carrying, rest

\* AccumulatorSwitches, quantified.
LEMMA AccumulatorAfter ==
  ASSUME s \in Poly(N)
  PROVE  \A m \in Degrees : \A ct \in Cts(m) : \A mask, f \in Poly(m) : \A r \in 0..(Rank(m) - 1) : \A next :
           next = Ct([ct.masks EXCEPT ![r] = Add(@, mask)],
                     Add(ct.body, Sub(Mul(mask, ProjectAt(s, N, m, r), m), f)))
             => next \in Cts(m) /\ Phase(next, m) = Sub(Phase(ct, m), f)
  BY AccumulatorSwitches

\* A mask switched from its old key to a new one takes its term with it.
LEMMA SwitchingCarries ==
  ASSUME s \in Poly(N), NEW j, NEW n \in Degrees, n # N, NEW cs, NEW fr, NEW a, NEW x \in 0..(Rank(n) - 1),
         Carrying(s, j, n, cs, fr, a, x), NEW mask \in Uniform(2 * n), NEW key,
         key.source = Iota(ProjectAt(s, N, n, x), n, 0),
         key.target = ProjectAt(s, N, 2 * n, x % Rank(2 * n)), NEW next,
         next = Ct([a.masks EXCEPT ![x % Rank(2 * n)] = Add(@, mask)],
                   Add(a.body, Sub(Mul(mask, key.target, 2 * n), Mul(fr[x], key.source, 2 * n))))
  PROVE  Carrying(s, j, n, cs, fr, next, x + 1)
  <1> DEFINE m == 2 * n
             T == FromTerms(s, fr, n)
             r == x % Rank(m)
  <1>1. m \in Degrees /\ Rank(n) \in Nat \ {0} /\ Rank(m) \in Nat \ {0}
    <2>1. m \in Degrees /\ Rank(n) \in Nat \ {0}
      BY Degree
    <2>2. QED BY <2>1, Degree
  <1>2. fr \in Embedded(n) /\ a \in Cts(m)
    BY DEF Carrying
  <1>3. Sub(PhaseOf(s, a, m), Sums(T, x, Rank(n), m)) = Converted(s, j, n, cs)
    BY DEF Carrying
  <1>4. T \in Terms(Rank(n), m) /\ T[x] = Mul(fr[x], key.source, m)
    BY <1>2, FromTermsIn
  <1>5. mask \in Poly(m)
    BY <1>1, UniformIn
  <1>6. next = Ct([a.masks EXCEPT ![r] = Add(@, mask)],
                  Add(a.body, Sub(Mul(mask, ProjectAt(s, N, m, r), m), T[x])))
    BY <1>4
  <1>7. r \in 0..(Rank(m) - 1)
    <2> DEFINE R == Rank(m)
    <2>1. R \in Nat \ {0} /\ x \in Nat
      BY <1>1
    <2> HIDE DEF R
    <2>2. x % R \in 0..(R - 1)
      BY <2>1
    <2>3. QED BY <2>2 DEF R
  <1> HIDE DEF m, T, r
  <1>8. x \in Nat /\ x < Rank(n) /\ x + 1 \in 0..Rank(n) /\ Rank(n) \in Nat
    BY <1>1
  <1>9. /\ T[x] \in Poly(m) /\ Sums(T, x, Rank(n), m) = Add(T[x], Sums(T, x + 1, Rank(n), m))
        /\ Sums(T, x + 1, Rank(n), m) \in Poly(m)
    <2>1. T[x] \in Poly(m) /\ Sums(T, x, Rank(n), m) = Add(T[x], Sums(T, x + 1, Rank(n), m))
      BY <1>4, <1>8, SumsSplit
    <2>2. \A lo \in Nat : lo <= Rank(n) => Sums(T, lo, Rank(n), m) \in Poly(m)
      BY <1>4, <1>8, SumsClosed
    <2>3. x + 1 \in Nat /\ x + 1 <= Rank(n)
      BY <1>8
    <2>4. QED BY <2>1, <2>2, <2>3, Zenon
  <1>10. next \in Cts(m) /\ Phase(next, m) = Sub(Phase(a, m), T[x])
    <2> DEFINE f == T[x]
    <2>1. f \in Poly(m) /\ next = Ct([a.masks EXCEPT ![r] = Add(@, mask)],
                                    Add(a.body, Sub(Mul(mask, ProjectAt(s, N, m, r), m), f)))
      BY <1>6, <1>9
    <2> HIDE DEF f
    <2>2. next \in Cts(m) /\ Phase(next, m) = Sub(Phase(a, m), f)
      <3>1. \A g0, h0 \in Poly(m) : \A z \in 0..(Rank(m) - 1) : \A y :
              y = Ct([a.masks EXCEPT ![z] = Add(@, g0)], Add(a.body, Sub(Mul(g0, ProjectAt(s, N, m, z), m), h0)))
                => y \in Cts(m) /\ Phase(y, m) = Sub(Phase(a, m), h0)
        BY <1>1, <1>2, AccumulatorAfter, Zenon
      <3>2. \A y :
              y = Ct([a.masks EXCEPT ![r] = Add(@, mask)], Add(a.body, Sub(Mul(mask, ProjectAt(s, N, m, r), m), f)))
                => y \in Cts(m) /\ Phase(y, m) = Sub(Phase(a, m), f)
        BY <1>5, <1>7, <2>1, <3>1, Zenon
      <3>3. QED BY <2>1, <3>2, Zenon
    <2>3. QED BY <2>2 DEF f
  <1>11. /\ Phase(next, m) = PhaseOf(s, next, m) /\ Phase(a, m) = PhaseOf(s, a, m)
         /\ Phase(a, m) \in Poly(m)
    BY <1>1, <1>2, <1>10, PhaseIs
  <1>12. Sub(PhaseOf(s, next, m), Sums(T, x + 1, Rank(n), m)) = Converted(s, j, n, cs)
    <2>1. Sub(Sub(Phase(a, m), T[x]), Sums(T, x + 1, Rank(n), m))
            = Sub(Phase(a, m), Add(T[x], Sums(T, x + 1, Rank(n), m)))
      BY <1>9, <1>11, SubTwice
    <2>2. QED BY <1>3, <1>9, <1>10, <1>11, <2>1, Zenon
  <1>13. QED BY <1>2, <1>8, <1>10, <1>12 DEF Carrying, m, T

\* With every mask switched, the accumulator is the next ciphertext of the level above.
LEMMA ConversionEnds ==
  ASSUME s \in Poly(N), NEW j, JobTyped(j), NEW n, NEW cs, NEW os, Level(s, j, n, cs, os),
         NEW fr, NEW a, Carrying(s, j, n, cs, fr, a, Rank(n))
  PROVE  a \in Cts(2 * n) /\ PhaseOf(s, a, 2 * n) = Plain(j, 2 * n, Len(os))
  <1>1. /\ n \in Degrees /\ n # N /\ Len(cs) \in Nat /\ Len(os) \in Nat
        /\ Taken(j) \in {1, 2} /\ Taken(j) <= Len(cs)
    BY LevelTakes
  <1>2. a \in Cts(2 * n)
    BY DEF Carrying
  <1>3. PhaseOf(s, a, 2 * n) = Converted(s, j, n, cs)
    <2>1. Sub(PhaseOf(s, a, 2 * n), Sums(FromTerms(s, fr, n), Rank(n), Rank(n), 2 * n)) = Converted(s, j, n, cs)
      BY DEF Carrying
    <2>2. Rank(n) \in Nat /\ 2 * n \in Degrees
      BY <1>1, Degree
    <2>3. Sums(FromTerms(s, fr, n), Rank(n), Rank(n), 2 * n) = Zero(2 * n)
      BY <2>2, SumsEmpty
    <2>4. PhaseOf(s, a, 2 * n) \in Poly(2 * n)
      <3>1. Phase(a, 2 * n) = PhaseOf(s, a, 2 * n) /\ Phase(a, 2 * n) \in Poly(2 * n)
        BY <1>2, <2>2, PhaseIs
      <3>2. QED BY <3>1
    <2>5. QED BY <2>1, <2>3, <2>4, SubZero
  <1>4. \A i \in 1..Taken(j) : PhaseOf(s, cs[i], n) = Plain(j, n, 2 * Len(os) + (i - 1))
    <2>1. \A i \in 1..Len(cs) : PhaseOf(s, cs[i], n) = Plain(j, n, 2 * Len(os) + (i - 1))
      BY DEF Level, Holding
    <2>2. \A i \in 1..Taken(j) : i \in 1..Len(cs)
      BY <1>1
    <2>3. QED BY <2>1, <2>2, Zenon
  <1>5. CASE j.op = "repack"
    <2> DEFINE k == Len(os)
    <2>1. k \in Nat /\ j.g <= n
      BY <1>1 DEF Level
    <2> HIDE DEF k
    <2>2. 1 \in 1..Taken(j) /\ 2 \in 1..Taken(j) /\ 2 * k + (1 - 1) = 2 * k /\ 2 * k + (2 - 1) = 2 * k + 1
      BY <1>5, <2>1 DEF Taken
    <2>3. \A i \in 1..Taken(j) : PhaseOf(s, cs[i], n) = Plain(j, n, 2 * k + (i - 1))
      BY <1>4, Zenon DEF k
    <2>4. PhaseOf(s, cs[1], n) = Plain(j, n, 2 * k) /\ PhaseOf(s, cs[2], n) = Plain(j, n, 2 * k + 1)
      <3>1. PhaseOf(s, cs[1], n) = Plain(j, n, 2 * k + (1 - 1))
        BY <2>2, <2>3, Zenon
      <3>2. PhaseOf(s, cs[2], n) = Plain(j, n, 2 * k + (2 - 1))
        BY <2>2, <2>3, Zenon
      <3>3. QED BY <2>2, <3>1, <3>2, Zenon
    <2>5. Plain(j, 2 * n, k) = Add(Iota(Plain(j, n, 2 * k), n, 0), Iota(Plain(j, n, 2 * k + 1), n, 1))
      BY <1>1, <1>5, <2>1, PlainJoins
    <2>6. Converted(s, j, n, cs) = Add(Iota(PhaseOf(s, cs[1], n), n, 0), Iota(PhaseOf(s, cs[2], n), n, 1))
      BY <1>5 DEF Converted
    <2>7. QED BY <1>2, <1>3, <2>4, <2>5, <2>6, Zenon DEF k
  <1>6. CASE j.op # "repack"
    <2>1. os = <<>> /\ Len(os) = 0
      <3>1. os = <<>>
        BY <1>6 DEF Level
      <3>2. QED BY <3>1
    <2>2. 1 \in 1..Taken(j) /\ 2 * Len(os) + (1 - 1) = 0
      BY <1>1, <2>1
    <2>3. PhaseOf(s, cs[1], n) = Plain(j, n, 0)
      <3>1. PhaseOf(s, cs[1], n) = Plain(j, n, 2 * Len(os) + (1 - 1))
        BY <1>4, <2>2, Zenon
      <3>2. QED BY <2>2, <3>1, Zenon
    <2>4. Plain(j, 2 * n, 0) = Iota(Plain(j, n, 0), n, 0)
      BY <1>1, <1>6, PlainCascades
    <2>5. Converted(s, j, n, cs) = Iota(PhaseOf(s, cs[1], n), n, 0)
      BY <1>6 DEF Converted
    <2>6. QED BY <1>2, <1>3, <2>1, <2>3, <2>4, <2>5, Zenon
  <1>7. QED BY <1>5, <1>6

\* What has been converted, with one more.
LEMMA HoldingAppend ==
  ASSUME NEW q, NEW j, NEW n, NEW os, Holding(q, j, n, os, 0), NEW a \in Cts(n),
         PhaseOf(q, a, n) = Plain(j, n, Len(os))
  PROVE  Holding(q, j, n, Append(os, a), 0) /\ Len(Append(os, a)) = Len(os) + 1
  <1> DEFINE k == Len(os)
             next == Append(os, a)
  <1>1. os \in Seq(Cts(n)) /\ \A i \in 1..Len(os) : PhaseOf(q, os[i], n) = Plain(j, n, 0 + (i - 1))
    BY DEF Holding
  <1>2. k \in Nat /\ next \in Seq(Cts(n)) /\ Len(next) = k + 1
    BY <1>1
  <1>3. \A i \in 1..(k + 1) : next[i] = IF i <= k THEN os[i] ELSE a
    BY <1>1
  <1> HIDE DEF k, next
  <1>4. ASSUME NEW i \in 1..Len(next) PROVE PhaseOf(q, next[i], n) = Plain(j, n, 0 + (i - 1))
    <2>1. i \in 1..(k + 1)
      BY <1>2
    <2>2. CASE i <= k
      <3>1. i \in 1..Len(os)
        BY <1>2, <2>1, <2>2 DEF k
      <3>2. next[i] = os[i]
        BY <1>3, <2>1, <2>2, Zenon
      <3>3. QED BY <1>1, <3>1, <3>2, Zenon
    <2>3. CASE ~(i <= k)
      <3>1. 0 + (i - 1) = k
        BY <1>2, <2>1, <2>3
      <3>2. next[i] = a
        BY <1>3, <2>1, <2>3, Zenon
      <3>3. QED BY <3>1, <3>2, Zenon DEF k
    <2>4. QED BY <2>2, <2>3
  <1>5. QED BY <1>2, <1>4 DEF Holding, k, next

\* A conversion that is not the last of its level keeps the level;
LEMMA LevelGoesOn ==
  ASSUME s \in Poly(N), NEW j, NEW n, NEW cs, NEW os, Level(s, j, n, cs, os),
         NEW a \in Cts(2 * n), PhaseOf(s, a, 2 * n) = Plain(j, 2 * n, Len(os)),
         NEW rest, rest = SubSeq(cs, Taken(j) + 1, Len(cs)), rest # <<>>
  PROVE  Level(s, j, n, rest, Append(os, a))
  <1> DEFINE c == Len(cs)
             k == Len(os)
  <1>1. /\ n \in Degrees /\ n # N /\ cs \in Seq(Cts(n)) /\ c \in Nat /\ k \in Nat
        /\ Taken(j) \in {1, 2} /\ Taken(j) <= c
    BY LevelTakes
  <1>2. j.op = "repack" /\ Taken(j) = 2
    <2>1. SUFFICES ASSUME j.op # "repack" PROVE FALSE
      BY DEF Taken
    <2>2. c = 1 /\ Taken(j) = 1
      BY <2>1 DEF Level, Taken
    <2>3. rest = SubSeq(cs, 2, 1)
      BY <2>2
    <2>4. SubSeq(cs, 2, 1) = <<>>
      OBVIOUS
    <2>5. QED BY <2>3, <2>4
  <1>3. c + 2 * k = Rank(n) /\ j.g <= n /\ Holding(s, j, 2 * n, os, 0)
    BY <1>2 DEF Level
  <1>4. \A i \in 1..c : PhaseOf(s, cs[i], n) = Plain(j, n, 2 * k + (i - 1))
    BY DEF Level, Holding
  <1>5. Holding(s, j, 2 * n, Append(os, a), 0) /\ Len(Append(os, a)) = k + 1
    BY <1>3, HoldingAppend
  <1>6. rest = SubSeq(cs, 3, c) /\ 2 <= c
    BY <1>1, <1>2
  <1> HIDE DEF k
  <1>7. /\ rest \in Seq(Cts(n)) /\ Len(rest) = c - 2
        /\ \A i \in 1..(c - 2) : rest[i] = cs[i + 2]
    <2>1. rest = [i \in 1..(c - 2) |-> cs[i + 2]]
      BY <1>1, <1>6
    <2>2. \A i \in 1..(c - 2) : i + 2 \in 1..c
      BY <1>1
    <2>3. \A i \in 1..c : cs[i] \in Cts(n)
      BY <1>1
    <2>4. rest \in [1..(c - 2) -> Cts(n)]
      BY <2>1, <2>2, <2>3, Zenon
    <2>5. c - 2 \in Nat
      BY <1>1, <1>6
    <2> DEFINE d == c - 2
    <2>6. d \in Nat /\ rest \in [1..d -> Cts(n)]
      BY <2>4, <2>5
    <2> HIDE DEF d
    <2>7. rest \in Seq(Cts(n)) /\ Len(rest) = d
      BY <2>6, SequenceOf
    <2>8. \A i \in 1..(c - 2) : rest[i] = cs[i + 2]
      BY <2>1, Zenon
    <2>9. QED BY <2>7, <2>8, Zenon DEF d
  <1> HIDE DEF c
  <1>8. Holding(s, j, n, rest, 2 * (k + 1))
    <2>1. ASSUME NEW i \in 1..Len(rest)
          PROVE  PhaseOf(s, rest[i], n) = Plain(j, n, 2 * (k + 1) + (i - 1))
      <3>1. i \in 1..(c - 2)
        BY <1>7
      <3>2. i + 2 \in 1..c /\ 2 * k + ((i + 2) - 1) = 2 * (k + 1) + (i - 1)
        BY <1>1, <3>1
      <3>3. PhaseOf(s, cs[i + 2], n) = Plain(j, n, 2 * k + ((i + 2) - 1))
        BY <1>4, <3>2, Zenon
      <3>4. rest[i] = cs[i + 2]
        BY <1>7, <3>1, Zenon
      <3>5. QED BY <3>2, <3>3, <3>4, Zenon
    <2>2. QED BY <1>7, <2>1, Zenon DEF Holding
  <1>9. Len(rest) # 0 /\ Len(rest) + 2 * (k + 1) = Rank(n)
    <2>1. Len(rest) # 0
      BY <1>7
    <2>2. (c - 2) + 2 * (k + 1) = c + 2 * k
      BY <1>1
    <2>3. QED BY <1>3, <1>7, <2>1, <2>2, Zenon
  <1>10. Len(Append(os, a)) = k + 1
    BY <1>5
  <1>11. /\ Holding(s, j, n, rest, 2 * Len(Append(os, a)))
         /\ Len(rest) # 0 /\ Len(rest) + 2 * Len(Append(os, a)) = Rank(n)
    BY <1>8, <1>9, <1>10, Zenon
  <1>12. QED BY <1>1, <1>2, <1>3, <1>5, <1>11, Zenon DEF Level

\* the last one starts the next level, or ends the job.
LEMMA LevelEnds ==
  ASSUME s \in Poly(N), NEW j, JobTyped(j), NEW n, NEW cs, NEW os, Level(s, j, n, cs, os),
         NEW a \in Cts(2 * n), PhaseOf(s, a, 2 * n) = Plain(j, 2 * n, Len(os)),
         SubSeq(cs, Taken(j) + 1, Len(cs)) = <<>>
  PROVE  IF 2 * n = N THEN Finished(s, j, Append(os, a)) ELSE Level(s, j, 2 * n, Append(os, a), <<>>)
  <1> DEFINE c == Len(cs)
             k == Len(os)
             m == 2 * n
             next == Append(os, a)
  <1>1. /\ n \in Degrees /\ n # N /\ cs \in Seq(Cts(n)) /\ c \in Nat /\ k \in Nat
        /\ Taken(j) \in {1, 2} /\ Taken(j) <= c
    BY LevelTakes
  <1>2. j.g <= n /\ Holding(s, j, m, os, 0)
    BY DEF Level
  <1>3. Holding(s, j, m, next, 0) /\ Len(next) = k + 1
    BY <1>2, HoldingAppend
  <1>4. c = Taken(j)
    <2>1. SUFFICES ASSUME Taken(j) < c PROVE FALSE
      BY <1>1
    <2> DEFINE a1 == Taken(j) + 1
    <2>2. a1 \in 1..c /\ c \in 1..c /\ a1 <= c
      BY <1>1, <2>1
    <2> HIDE DEF a1
    <2>3. Len(SubSeq(cs, a1, c)) = (c - a1) + 1
      BY <1>1, <2>2
    <2>4. SubSeq(cs, a1, c) = <<>>
      BY Zenon DEF a1
    <2>5. Len(<<>>) = 0 /\ (c - a1) + 1 # 0
      BY <1>1, <2>2
    <2>6. QED BY <2>3, <2>4, <2>5, Zenon
  <1>5. m \in Degrees /\ Rank(n) = 2 * Rank(m) /\ Rank(m) \in Nat /\ n <= m
    <2>1. m \in Degrees /\ Rank(n) = 2 * Rank(m) /\ n \in Nat
      BY <1>1, Degree
    <2>2. Rank(m) \in Nat
      BY <2>1, Degree
    <2>3. QED BY <2>1, <2>2
  <1>6. j.op = "repack" => k + 1 = Rank(m)
    <2>1. SUFFICES ASSUME j.op = "repack" PROVE k + 1 = Rank(m)
      OBVIOUS
    <2>2. c = 2 /\ c + 2 * k = Rank(n)
      BY <1>4, <2>1 DEF Level, Taken
    <2>3. \A r \in Nat : 2 + 2 * k = 2 * r => k + 1 = r
      BY <1>1
    <2>4. QED BY <1>5, <2>2, <2>3
  <1>7. j.op # "repack" => k = 0
    <2>1. j.op # "repack" => os = <<>>
      BY DEF Level
    <2>2. QED BY <2>1
  <1>8. CASE m = N
    <2>1. Rank(m) = 1
      BY <1>5, <1>8, Degree
    <2>2. Len(next) = 1
      BY <1>3, <1>6, <1>7, <2>1
    <2>3. QED BY <1>3, <1>8, <2>2 DEF Finished
  <1>9. CASE m # N
    <2>1. Len(<<>>) = 0 /\ Holding(s, j, 2 * m, <<>>, 0) /\ 2 * Len(<<>>) = 0
      BY HoldingNone
    <2>2. IF j.op = "repack" THEN Len(next) # 0 /\ Len(next) + 2 * Len(<<>>) = Rank(m)
                             ELSE Len(next) = 1 /\ <<>> = <<>>
      BY <1>1, <1>3, <1>5, <1>6, <1>7, <2>1
    <2>3. j.g <= m
      <3>1. j.g \in Degrees
        BY DegreeEnds DEF JobTyped
      <3>2. j.g \in Nat /\ m \in Nat /\ n \in Nat
        BY <1>1, <1>5, <3>1, Degree
      <3>3. QED BY <1>2, <1>5, <3>2
    <2>4. Holding(s, j, m, next, 2 * Len(<<>>))
      BY <1>3, <2>1, Zenon
    <2> HIDE DEF m, next, k, c
    <2>5. Level(s, j, m, next, <<>>)
      BY <1>5, <1>9, <2>1, <2>2, <2>3, <2>4, Zenon DEF Level
    <2>6. QED BY <1>9, <2>5, Zenon DEF m, next
  <1>10. QED BY <1>8, <1>9

\* What a conversion takes is settled by its job.
LEMMA ArityTakes ==
  ASSUME JobTyped(job)
  PROVE  /\ Arity = Taken(job)
         /\ Cascading <=> job.op # "repack"
  BY DEF JobTyped, Arity, Taken, Cascading

\* Steps that leave the job alone keep the invariant,
LEMMA CtInvUnchanged == CtInv /\ UNCHANGED <<s, jobVars>> => CtInv'
  <1> SUFFICES ASSUME CtInv, UNCHANGED <<s, jobVars>> PROVE CtInv'
    OBVIOUS
  <1>1. UNCHANGED <<s, pc, job, deg, cts, out, from, acc, idx, negSM>>
    BY Zenon DEF jobVars
  <1>2. QED BY <1>1 DEF CtInv

\* The step key at index x of the field of output degree 2 * n.
LEMMA StepKeyAt ==
  ASSUME Resting, s \in Poly(N), NEW n \in Degrees, n # N, NEW x \in 0..(Rank(n) - 1),
         NEW g \in Degrees, g <= n, NEW p, NEW key, key = Full(s, g, p)[2 * n][x]
  PROVE  /\ key.source = Iota(ProjectAt(s, N, n, x), n, 0)
         /\ key.target = ProjectAt(s, N, 2 * n, x % Rank(2 * n))
  <1> DEFINE m == 2 * n
  <1>1. m \in Degrees /\ m \div 2 = n /\ n \in Nat \ {0} /\ g \in Nat \ {0}
    BY Degree
  <1>2. m \in Fields(g)
    <2>1. g < m
      BY <1>1
    <2>2. QED BY <1>1, <2>1, FieldsAre
  <1>3. m \in Fields(1) /\ x \in Slots(m)
    <2>1. m \in Fields(1)
      BY <1>2, FieldFacts
    <2>2. QED BY <1>1, <2>1 DEF Slots
  <1> HIDE DEF m
  <1>4. Full(s, g, p)[m][x] = Entry(s, g, p, m, x)
    BY <1>2, <1>3, Zenon DEF Full
  <1>5. key = Made(s, m, x, p + Draws(g, m) + x)
    BY <1>4, Zenon DEF Entry, m
  <1>6. /\ key.source = EmbedAt(ProjectAt(s, N, m \div 2, x), m \div 2, m, 0)
        /\ key.target = ProjectAt(s, N, m, x % Rank(m))
    BY <1>5 DEF Made
  <1>7. QED BY <1>1, <1>6, Zenon DEF Iota, m

\* encrypt_lwe_raw and the start of a cascade do,
LEMMA CascadeStarted == KeyInv /\ CtInv /\ StartCascade => CtInv'
  <1> SUFFICES ASSUME KeyInv, CtInv, StartCascade PROVE CtInv'
    OBVIOUS
  <1>1. PICK op \in {"cascade", "cascade_eval"}, m \in Uniform(1), masks \in [0..(N - 1) -> Uniform(1)] :
          job' = [op |-> op, g |-> 1, messages |-> <<m>>] /\ cts' = <<Encrypt(m, masks, 1)>>
    BY Zenon DEF StartCascade
  <1>2. pc = "idle" /\ deg' = 1 /\ pc' = "next" /\ out' = out /\ s' = s
    BY Zenon DEF StartCascade, keyVars
  <1>3. s \in Poly(N) /\ out = <<>>
    BY <1>2 DEF KeyInv, CtInv
  <1>4. m \in Poly(1) /\ masks \in [0..(N - 1) -> Poly(1)]
    <2>1. Uniform(1) \subseteq Poly(1)
      BY UniformIn, DegreeEnds
    <2>2. QED BY <2>1, <1>1
  <1>5. JobTyped(job') /\ Level(s, job', 1, <<Encrypt(m, masks, 1)>>, <<>>)
    BY <1>1, <1>3, <1>4, CascadeStarts
  <1>6. JobTyped(job') /\ Level(s', job', deg', cts', out')
    BY <1>1, <1>2, <1>3, <1>5, Zenon
  <1>7. QED BY <1>2, <1>6 DEF CtInv

\* the start of a repacking,
LEMMA RepackStarted == KeyInv /\ CtInv /\ StartRepack => CtInv'
  <1> SUFFICES ASSUME KeyInv, CtInv, StartRepack PROVE CtInv'
    OBVIOUS
  <1>1. PICK b \in Batches :
          /\ ReadSuffix(b.g)
          /\ \E ms \in [1..b.t -> Messages], masks \in [1..b.t -> Uniform(N)] :
               /\ job' = [op |-> "repack", g |-> b.g, messages |-> ms]
               /\ cts' = Leaves([i \in 1..b.t |-> Encrypt(ms[i], [k \in {0} |-> masks[i]], N)], b.g)
               /\ deg' = b.g
    BY Zenon DEF StartRepack
  <1>2. PICK ms \in [1..b.t -> Messages], masks \in [1..b.t -> Uniform(N)] :
               /\ job' = [op |-> "repack", g |-> b.g, messages |-> ms]
               /\ cts' = Leaves([i \in 1..b.t |-> Encrypt(ms[i], [k \in {0} |-> masks[i]], N)], b.g)
               /\ deg' = b.g
    BY <1>1, Zenon
  <1>3. pc = "idle" /\ pc' = "next" /\ out' = out
    BY Zenon DEF StartRepack
  <1>4. s' = s
    BY <1>1, Zenon DEF ReadSuffix
  <1>5. s \in Poly(N) /\ out = <<>>
    BY <1>3 DEF KeyInv, CtInv
  <1>6. JobTyped(job') /\ Level(s, job', b.g, cts', <<>>)
    BY <1>2, <1>5, RepackStarts
  <1>7. JobTyped(job') /\ Level(s', job', deg', cts', out')
    BY <1>2, <1>3, <1>4, <1>5, <1>6, Zenon
  <1>8. QED BY <1>3, <1>7 DEF CtInv

\* the head of a conversion,
LEMMA ConversionStarted == KeyInv /\ CtInv /\ StartConversion => CtInv'
  <1> SUFFICES ASSUME KeyInv, CtInv, StartConversion PROVE CtInv'
    OBVIOUS
  <1>1. /\ pc = "next" /\ pc' = "switch" /\ idx' = 0 /\ UNCHANGED <<s, job, deg, cts, out>>
        /\ from' = Embed(Inputs, deg).masks
        /\ acc' = Ct([j \in 0..(Rank(2 * deg) - 1) |-> Zero(2 * deg)], Embed(Inputs, deg).body)
    BY Zenon DEF StartConversion, keyVars
  <1>2. s \in Poly(N) /\ JobTyped(job) /\ Level(s, job, deg, cts, out)
    BY <1>1 DEF KeyInv, CtInv
  <1>3. Inputs = SubSeq(cts, 1, Taken(job))
    BY <1>2, ArityTakes DEF Inputs
  <1>4. Carrying(s, job, deg, cts, from', acc', 0)
    <2> DEFINE e == Embed(Inputs, deg)
    <2>1. /\ e = Embed(SubSeq(cts, 1, Taken(job)), deg) /\ from' = e.masks
          /\ acc' = Ct([k \in 0..(Rank(2 * deg) - 1) |-> Zero(2 * deg)], e.body)
      BY <1>1, <1>3
    <2> HIDE DEF e
    <2>2. Carrying(s, job, deg, cts, e.masks, acc', 0)
      BY <1>2, <2>1, ConversionStarts
    <2>3. QED BY <2>1, <2>2
  <1>5. Level(s', job', deg', cts', out') /\ Carrying(s', job', deg', cts', from', acc', idx') /\ JobTyped(job')
    BY <1>1, <1>2, <1>4, Zenon
  <1>6. QED BY <1>1, <1>5 DEF CtInv

\* one key switch, whichever form of the key it reads,
LEMMA MaskSwitched ==
  ASSUME KeyInv, CtInv, Switching, NEW key, KeySwitch(key), NEW g \in Degrees, g <= deg, NEW p,
         key = Full(s, g, p)[2 * deg][idx], Resting
  PROVE  CtInv'
  <1>1. /\ pc = "switch" /\ idx < Rank(deg)
        /\ s \in Poly(N) /\ JobTyped(job) /\ Level(s, job, deg, cts, out)
        /\ Carrying(s, job, deg, cts, from, acc, idx)
    BY DEF Switching, KeyInv, CtInv
  <1>2. PICK mask \in Uniform(2 * deg) :
          acc' = Ct([acc.masks EXCEPT ![idx % Rank(2 * deg)] = Add(@, mask)],
                    Add(acc.body, Sub(Mul(mask, key.target, 2 * deg), Mul(from[idx], key.source, 2 * deg))))
    BY Zenon DEF KeySwitch
  <1>3. idx' = idx + 1 /\ UNCHANGED <<s, pc, job, deg, cts, out, from>>
    BY Zenon DEF KeySwitch, keyVars
  <1>4. deg \in Degrees /\ deg # N
    BY <1>1, LevelTakes
  <1>5. idx \in 0..(Rank(deg) - 1)
    <2>1. idx \in 0..Rank(deg)
      BY <1>1 DEF Carrying
    <2>2. Rank(deg) \in Nat
      BY <1>4, Degree
    <2>3. QED BY <1>1, <2>1, <2>2
  <1>6. /\ key.source = Iota(ProjectAt(s, N, deg, idx), deg, 0)
        /\ key.target = ProjectAt(s, N, 2 * deg, idx % Rank(2 * deg))
    BY <1>1, <1>4, <1>5, StepKeyAt
  <1>7. Carrying(s, job, deg, cts, from, acc', idx + 1)
    BY <1>1, <1>2, <1>4, <1>5, <1>6, SwitchingCarries
  <1>8. /\ Level(s', job', deg', cts', out') /\ Carrying(s', job', deg', cts', from', acc', idx')
        /\ JobTyped(job') /\ pc' = "switch"
    BY <1>1, <1>3, <1>7, Zenon
  <1>9. QED BY <1>8 DEF CtInv

\* the turns of the three loops,
LEMMA MasksSwitched == KeyInv /\ CtInv /\ (ConvStep \/ ConvStepEval \/ MlwesToMlwe) => CtInv'
  <1> SUFFICES ASSUME KeyInv, CtInv, ConvStep \/ ConvStepEval \/ MlwesToMlwe PROVE CtInv'
    OBVIOUS
  <1>1. Switching /\ pc = "switch"
    BY Zenon DEF ConvStep, ConvStepEval, MlwesToMlwe, Switching
  <1>2. Resting /\ keys = Full(s, 1, 0) /\ prepared = keys
    <2>1. Resting
      BY <1>1 DEF KeyInv, Generating, Transforming, Deriving
    <2>2. QED BY <2>1 DEF Resting, KeysReady
  <1>3. JobTyped(job) /\ job.g <= deg /\ deg \in Degrees
    BY <1>1 DEF CtInv, Level
  <1>4. CASE ConvStep \/ ConvStepEval
    <2>1. 1 \in Degrees /\ 1 <= deg
      <3>1. deg \in Nat \ {0}
        BY <1>3, Degree
      <3>2. QED BY <3>1, DegreeEnds
    <2>2. KeySwitch(Full(s, 1, 0)[2 * deg][idx])
      BY <1>2, <1>4, Zenon DEF ConvStep, ConvStepEval
    <2>3. QED BY <1>1, <1>2, <2>1, <2>2, MaskSwitched
  <1>5. CASE MlwesToMlwe
    <2>1. job.op = "repack" /\ KeySwitch(sched[2 * deg][idx])
      BY <1>5, Zenon DEF MlwesToMlwe
    <2>2. job.g \in Degrees
      BY <1>3, <2>1 DEF JobTyped
    <2>3. PICK p \in Nat : sched = Full(s, job.g, p)
      BY <1>1, <1>2, <2>1 DEF Resting
    <2>4. KeySwitch(Full(s, job.g, p)[2 * deg][idx])
      BY <2>1, <2>3, Zenon
    <2>5. QED BY <1>1, <1>2, <1>3, <2>2, <2>4, MaskSwitched
  <1>6. QED BY <1>4, <1>5

\* the end of a conversion,
LEMMA ConversionFinished == KeyInv /\ CtInv /\ FinishConversion => CtInv'
  <1> SUFFICES ASSUME KeyInv, CtInv, FinishConversion PROVE CtInv'
    OBVIOUS
  <1> DEFINE rest == SubSeq(cts, Arity + 1, Len(cts))
             converted == Append(out, acc)
  <1>1. /\ pc = "switch" /\ idx = Rank(deg) /\ s' = s /\ job' = job
        /\ rest # <<>> => cts' = rest /\ out' = converted /\ deg' = deg /\ pc' = "next"
        /\ rest = <<>> => /\ cts' = converted /\ out' = <<>> /\ deg' = 2 * deg
                          /\ pc' = IF 2 * deg = N THEN "done" ELSE "next"
    BY Zenon DEF FinishConversion, keyVars
  <1>2. /\ s \in Poly(N) /\ JobTyped(job) /\ Level(s, job, deg, cts, out)
        /\ Carrying(s, job, deg, cts, from, acc, Rank(deg))
    BY <1>1 DEF KeyInv, CtInv
  <1>3. acc \in Cts(2 * deg) /\ PhaseOf(s, acc, 2 * deg) = Plain(job, 2 * deg, Len(out))
    BY <1>2, ConversionEnds
  <1>4. rest = SubSeq(cts, Taken(job) + 1, Len(cts))
    BY <1>2, ArityTakes
  <1> HIDE DEF rest, converted
  <1>5. JobTyped(job')
    BY <1>1, <1>2
  <1>6. CASE rest # <<>>
    <2>1. Level(s, job, deg, rest, converted)
      BY <1>2, <1>3, <1>4, <1>6, LevelGoesOn DEF converted
    <2>2. Level(s', job', deg', cts', out') /\ pc' = "next"
      BY <1>1, <1>6, <2>1
    <2>3. QED BY <1>5, <2>2 DEF CtInv
  <1>7. CASE rest = <<>>
    <2>1. IF 2 * deg = N THEN Finished(s, job, converted) ELSE Level(s, job, 2 * deg, converted, <<>>)
      BY <1>2, <1>3, <1>4, <1>7, LevelEnds DEF converted
    <2>2. CASE 2 * deg = N
      <3>1. Finished(s', job', cts') /\ pc' = "done"
        BY <1>1, <1>7, <2>1, <2>2
      <3>2. QED BY <1>5, <3>1 DEF CtInv
    <2>3. CASE 2 * deg # N
      <3>1. Level(s', job', deg', cts', out') /\ pc' = "next"
        BY <1>1, <1>7, <2>1, <2>3
      <3>2. QED BY <1>5, <3>1 DEF CtInv
    <2>4. QED BY <2>2, <2>3
  <1>8. QED BY <1>6, <1>7

\* rlwe_to_rgsw,
LEMMA RgswMade == KeyInv /\ CtInv /\ ToRgsw => CtInv'
  <1> SUFFICES ASSUME KeyInv, CtInv, ToRgsw PROVE CtInv'
    OBVIOUS
  <1>1. PICK mask \in Uniform(N) :
          negSM' = Ct([k \in {0} |-> Add(cts[1].body, mask)],
                      Add(Mul(mask, s, N), Mul(cts[1].masks[0], convKey.message, N)))
    BY Zenon DEF ToRgsw
  <1>2. pc = "done" /\ pc' = "rgsw" /\ UNCHANGED <<s, job, deg, cts, out, from, acc, idx>>
    BY Zenon DEF ToRgsw, keyVars
  <1>3. s \in Poly(N) /\ JobTyped(job) /\ Finished(s, job, cts)
    BY <1>2 DEF KeyInv, CtInv
  <1>4. convKey.message = Mul(s, s, N)
    BY <1>2 DEF KeyInv, Generating, Transforming, Deriving, Resting, KeysReady
  <1> DEFINE ct == cts[1]
             a == ct.masks[0]
             b == ct.body
             made == Ct([k \in {0} |-> Add(b, mask)], Add(Mul(mask, s, N), Mul(a, Mul(s, s, N), N)))
  <1>5. ct \in Cts(N)
    <2>1. cts \in Seq(Cts(N)) /\ Len(cts) = 1
      BY <1>3 DEF Finished, Holding
    <2>2. QED BY <2>1
  <1>6. N \in Degrees /\ N \in Nat \ {0} /\ Rank(N) = 1 /\ mask \in Poly(N)
    <2>1. N \in Degrees /\ N \in Nat \ {0} /\ Rank(N) = 1
      BY DegreeEnds, Degree
    <2>2. QED BY <2>1, <1>1, UniformIn
  <1>7. negSM' = made
    BY <1>1, <1>4
  <1> HIDE DEF ct
  <1>8. Phase(ct, N) = Sub(b, Mul(a, s, N)) /\ a \in Poly(N) /\ b \in Poly(N)
    BY <1>3, <1>5, PhaseOfOne
  <1>9. Phase(ct, N) = PhaseOf(s, ct, N)
    BY <1>3, <1>5, <1>6, PhaseIs
  <1> HIDE DEF a, b
  <1>10. made \in Cts(N)
    <2> DEFINE body == Add(Mul(mask, s, N), Mul(a, Mul(s, s, N), N))
               top == Add(b, mask)
    <2>1. top \in Poly(N)
      BY <1>6, <1>8, AddClosed
    <2>2. body \in Poly(N)
      <3>1. Mul(s, s, N) \in Poly(N)
        BY <1>3, <1>6, MulClosed
      <3>2. Mul(mask, s, N) \in Poly(N) /\ Mul(a, Mul(s, s, N), N) \in Poly(N)
        BY <1>3, <1>6, <1>8, <3>1, MulClosed
      <3>3. QED BY <3>2, AddClosed
    <2> HIDE DEF top, body
    <2>3. [k \in {0} |-> top] \in Masks(N)
      <3>1. 0..(Rank(N) - 1) = {0}
        BY <1>6
      <3>2. QED BY <2>1, <3>1 DEF Masks
    <2>4. Ct([k \in {0} |-> top], body) \in Cts(N)
      BY <2>2, <2>3 DEF Ct, Cts
    <2>5. QED BY <2>4 DEF top, body
  <1>11. Phase(made, N) = Neg(Mul(s, Phase(ct, N), N))
    <2>1. Phase(made, N) = Sub(made.body, Mul(made.masks[0], s, N))
      <3> HIDE DEF made
      <3>1. QED BY <1>3, <1>10, PhaseOfOne
    <2>2. made.masks[0] = Add(b, mask) /\ made.body = Add(Mul(mask, s, N), Mul(a, Mul(s, s, N), N))
      BY Zenon DEF Ct
    <2>3. Sub(Add(Mul(mask, s, N), Mul(a, Mul(s, s, N), N)), Mul(Add(b, mask), s, N))
            = Neg(Mul(s, Sub(b, Mul(a, s, N)), N))
      BY <1>3, <1>6, <1>8, HalvesAgree
    <2> HIDE DEF made
    <2>4. QED BY <1>8, <2>1, <2>2, <2>3, Zenon
  <1>12. Phase(made, N) = PhaseOf(s, made, N)
    <2> HIDE DEF made
    <2>1. QED BY <1>3, <1>6, <1>10, PhaseIs
  <1> HIDE DEF made
  <1>13. negSM' \in Cts(N) /\ PhaseOf(s', negSM', N) = Neg(Mul(s', PhaseOf(s', cts'[1], N), N))
    BY <1>2, <1>7, <1>9, <1>10, <1>11, <1>12, Zenon DEF ct
  <1>14. JobTyped(job') /\ Finished(s', job', cts') /\ pc' = "rgsw"
    BY <1>2, <1>3, Zenon
  <1>15. QED BY <1>13, <1>14 DEF CtInv

\* and so every step.
LEMMA CtInvKept == KeyInv /\ CtInv /\ [Next]_vars => CtInv'
  <1> SUFFICES ASSUME KeyInv, CtInv, [Next]_vars PROVE CtInv'
    OBVIOUS
  <1>1. CASE KeyStep
    <2>1. UNCHANGED <<s, jobVars>>
      BY <1>1, Zenon DEF KeyStep, BuildKeys, GenField, GenSlot, SwitchField, SwitchSlot, ToEvalSlot, FinishKey
    <2>2. QED BY <2>1, CtInvUnchanged
  <1>2. CASE UNCHANGED vars
    <2>1. UNCHANGED <<s, jobVars>>
      BY <1>2, Zenon DEF vars, keyVars
    <2>2. QED BY <2>1, CtInvUnchanged
  <1>3. QED BY <1>1, <1>2, CascadeStarted, RepackStarted, ConversionStarted, MasksSwitched,
               ConversionFinished, RgswMade, Zenon DEF Next

\* It holds at the start.
LEMMA CtInvStarts == Init => CtInv
  BY DEF Init, CtInv

\* In every state the ciphertexts of a level decrypt to the plaintexts of their
\* places in the tree, and a conversion in progress to what it converts (cascade,
\* repack, conv_step, conv_step_eval, mlwes_to_mlwe).
THEOREM CtInvariant == Spec => [](KeyInv /\ CtInv)
  <1>1. Init => KeyInv /\ CtInv
    BY KeyInvStarts, CtInvStarts
  <1>2. (KeyInv /\ CtInv) /\ [Next]_vars => (KeyInv /\ CtInv)'
    BY KeyInvKept, CtInvKept
  <1>3. QED BY <1>1, <1>2, PTL DEF Spec

\* The invariant carries what is converted through its conversion,
LEMMA CarriedByInvariant == KeyInv /\ CtInv => PhaseCarried
  <1> SUFFICES ASSUME KeyInv, CtInv, pc = "switch"
               PROVE  LET Old(k) == EmbedAt(Key(deg, k), deg, 2 * deg, 0)
                          plain == [i \in 1..Arity |-> Phase(Inputs[i], deg)]
                      IN  Sub(Phase(acc, 2 * deg), Dot(from, idx, Rank(deg), 2 * deg, Old))
                            = IF Arity = 1 THEN EmbedAt(plain[1], deg, 2 * deg, 0)
                              ELSE Add(EmbedAt(plain[1], deg, 2 * deg, 0), EmbedAt(plain[2], deg, 2 * deg, 1))
    BY Zenon DEF PhaseCarried
  <1> DEFINE plain == [i \in 1..Arity |-> Phase(Inputs[i], deg)]
             left == Sub(Phase(acc, 2 * deg), Remaining(from, idx, deg))
             right == IF Arity = 1 THEN Iota(plain[1], deg, 0)
                      ELSE Add(Iota(plain[1], deg, 0), Iota(plain[2], deg, 1))
  <1>1. /\ s \in Poly(N) /\ JobTyped(job) /\ Level(s, job, deg, cts, out)
        /\ Carrying(s, job, deg, cts, from, acc, idx)
    BY DEF KeyInv, CtInv
  <1>2. Arity = Taken(job) /\ Inputs = SubSeq(cts, 1, Taken(job))
    BY <1>1, ArityTakes DEF Inputs
  <1>3. /\ deg \in Degrees /\ deg # N /\ Taken(job) \in {1, 2}
        /\ \A i \in 1..Taken(job) : SubSeq(cts, 1, Taken(job))[i] = cts[i] /\ cts[i] \in Cts(deg)
    BY <1>1, LevelTakes
  <1>4. \A i \in 1..Taken(job) : plain[i] = PhaseOf(s, cts[i], deg)
    <2>1. \A i \in 1..Taken(job) : plain[i] = Phase(cts[i], deg)
      BY <1>2, <1>3, Zenon
    <2>2. \A i \in 1..Taken(job) : Phase(cts[i], deg) = PhaseOf(s, cts[i], deg)
      BY <1>1, <1>3, PhaseIs
    <2>3. QED BY <2>1, <2>2, Zenon
  <1> HIDE DEF plain
  <1>5. right = Converted(s, job, deg, cts)
    <2>1. 1 \in 1..Taken(job)
      BY <1>3
    <2>2. CASE Taken(job) = 1
      <3>1. job.op # "repack"
        BY <2>2 DEF Taken
      <3>2. QED BY <1>2, <1>4, <2>1, <2>2, <3>1, Zenon DEF Converted
    <2>3. CASE Taken(job) = 2
      <3>1. job.op = "repack" /\ Arity # 1 /\ 2 \in 1..Taken(job)
        BY <1>2, <2>3 DEF Taken
      <3>2. QED BY <1>4, <2>1, <3>1, Zenon DEF Converted
    <2>4. QED BY <1>3, <2>2, <2>3
  <1>6. left = Sub(PhaseOf(s, acc, 2 * deg), Sums(FromTerms(s, from, deg), idx, Rank(deg), 2 * deg))
    <2>1. from \in Embedded(deg) /\ acc \in Cts(2 * deg) /\ idx \in 0..Rank(deg)
      BY <1>1 DEF Carrying
    <2>2. 2 * deg \in Degrees
      BY <1>3, Degree
    <2>3. Phase(acc, 2 * deg) = PhaseOf(s, acc, 2 * deg)
      BY <1>1, <2>1, <2>2, PhaseIs
    <2>4. Remaining(from, idx, deg) = Sums(FromTerms(s, from, deg), idx, Rank(deg), 2 * deg)
      BY <1>1, <1>3, <2>1, RemainingIs
    <2>5. QED BY <2>3, <2>4, Zenon
  <1>7. left = right
    BY <1>1, <1>5, <1>6, Zenon DEF Carrying
  <1>8. QED BY <1>7, Zenon DEF plain, Iota, Remaining

\* leaves every message in its slots,
LEMMA PackedByInvariant == KeyInv /\ CtInv => Packed
  <1> SUFFICES ASSUME KeyInv, CtInv, pc \in {"done", "rgsw"}
               PROVE  Phase(cts[1], N) = [x \in 0..(N - 1) |-> Spread(job, x)]
    BY Zenon DEF Packed, Spread
  <1>1. s \in Poly(N) /\ JobTyped(job) /\ Finished(s, job, cts)
    BY DEF KeyInv, CtInv
  <1>2. cts \in Seq(Cts(N)) /\ Len(cts) = 1 /\ \A i \in 1..Len(cts) : PhaseOf(s, cts[i], N) = Plain(job, N, 0 + (i - 1))
    BY <1>1 DEF Finished, Holding
  <1>3. cts[1] \in Cts(N) /\ PhaseOf(s, cts[1], N) = Plain(job, N, 0)
    <2>1. 1 \in 1..Len(cts) /\ 0 + (1 - 1) = 0
      BY <1>2
    <2>2. PhaseOf(s, cts[1], N) = Plain(job, N, 0 + (1 - 1))
      BY <1>2, <2>1, Zenon
    <2>3. cts[1] \in Cts(N)
      BY <1>2
    <2>4. QED BY <2>1, <2>2, <2>3, Zenon
  <1>4. Phase(cts[1], N) = PhaseOf(s, cts[1], N)
    BY <1>1, <1>3, DegreeEnds, PhaseIs
  <1>5. Plain(job, N, 0) = [x \in 0..(N - 1) |-> Spread(job, x)]
    BY <1>1, PlainSpreads, PlainCascaded
  <1>6. QED BY <1>3, <1>4, <1>5, Zenon

\* and makes the halves of an RGSW agree.
LEMMA HalvesByInvariant == KeyInv /\ CtInv => RgswHalvesAgree
  <1> SUFFICES ASSUME KeyInv, CtInv, pc = "rgsw" PROVE Phase(negSM, N) = Neg(Mul(s, Phase(cts[1], N), N))
    BY Zenon DEF RgswHalvesAgree
  <1>1. /\ s \in Poly(N) /\ Finished(s, job, cts)
        /\ negSM \in Cts(N) /\ PhaseOf(s, negSM, N) = Neg(Mul(s, PhaseOf(s, cts[1], N), N))
    BY DEF KeyInv, CtInv
  <1>2. cts[1] \in Cts(N) /\ N \in Degrees
    <2>1. cts \in Seq(Cts(N)) /\ Len(cts) = 1
      BY <1>1 DEF Finished, Holding
    <2>2. cts[1] \in Cts(N)
      BY <2>1
    <2>3. QED BY <2>2, DegreeEnds
  <1>3. Phase(cts[1], N) = PhaseOf(s, cts[1], N) /\ Phase(negSM, N) = PhaseOf(s, negSM, N)
    BY <1>1, <1>2, PhaseIs
  <1>4. QED BY <1>1, <1>3, Zenon

\* For every degree, secret and mask: in the middle of a conversion the
\* accumulator under the new keys and the masks not yet switched under the old
\* ones together decrypt to the inputs, interleaved (conv_step, conv_step_eval,
\* mlwes_to_mlwe).
THEOREM PhaseIsCarried == Spec => []PhaseCarried
  <1>1. QED BY CtInvariant, CarriedByInvariant, PTL

\* For every degree, batch and message: a cascade brings its scalar to
\* coefficient 0, and a repacking spreads the extracted coefficients of its
\* inputs evenly, in their natural order, with zeros between (cascade, repack).
THEOREM PackedInPlace == Spec => []Packed
  <1>1. QED BY CtInvariant, PackedByInvariant, PTL

\* For every degree, secret and mask: the half of an RGSW computed from a
\* ciphertext of M and the conversion key decrypts to -s * M (rlwe_to_rgsw).
THEOREM HalvesOfRgswAgree == Spec => []RgswHalvesAgree
  <1>1. QED BY CtInvariant, HalvesByInvariant, PTL
=============================================================================
