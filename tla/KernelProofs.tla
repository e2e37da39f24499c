---------------------------- MODULE KernelProofs ----------------------------
(***************************************************************************)
(* The kernels of the server's answer, each correct for every size.        *)
(*                                                                         *)
(* Selection: dmux_tree is correct for every number of control bits, every *)
(* row and every payload, and so is the path from a row and a column to a  *)
(* cell through the first dimension and cmux_tree.  The inductive          *)
(* invariant of the tree is NodesPlaced: in the middle of a level the      *)
(* unread parents and the children already written hold what they should.  *)
(*                                                                         *)
(* FirstDim: the parallel product computes the serial answer for every J,  *)
(* every number of CPUs and every schedule of the workers.                 *)
(*                                                                         *)
(* Zq: the word arithmetic under both is exact for every word size and     *)
(* modulus.                                                                *)
(***************************************************************************)
EXTENDS Selection, FirstDim, Zq, WellFoundedInduction, SequenceTheorems, TLAPS

-----------------------------------------------------------------------------
(***************************************************************************)
(* Digits and shifts.                                                      *)
(***************************************************************************)

\* A non-empty set of natural numbers has a least element.
LEMMA LeastElement ==
  ASSUME NEW S, S \subseteq Nat, S # {}
  PROVE  \E t \in S : \A u \in S : t <= u
  <1> DEFINE R == OpToRel(<, Nat)
  <1>1. IsWellFoundedOn(R, Nat)
    BY NatLessThanWellFounded
  <1>2. R = {ss \in Nat \X Nat : ss[1] < ss[2]}
    BY Zenon DEF OpToRel
  <1> HIDE DEF R
  <1>3. PICK t \in S : \A u \in S : <<u, t>> \notin R
    BY <1>1, WFMin
  <1>4. ASSUME NEW u \in S PROVE t <= u
    <2>1. t \in Nat /\ u \in Nat /\ <<u, t>> \notin R
      BY <1>3
    <2>2. ~(u < t)
      BY <1>2, <2>1
    <2>3. QED BY <2>1, <2>2
  <1>5. QED BY <1>3, <1>4

\* Division and remainder, as the provers need them.
LEMMA DivMod ==
  ASSUME NEW x \in Nat, NEW d \in Nat \ {0}
  PROVE  /\ x \div d \in Nat
         /\ x % d \in 0..(d - 1)
         /\ x = d * (x \div d) + (x % d)
  BY Z3

\* A quotient and a remainder that fit are the quotient and the remainder.
LEMMA DivModUnique ==
  ASSUME NEW x \in Nat, NEW d \in Nat \ {0}, NEW q \in Nat, NEW r \in 0..(d - 1),
         x = d * q + r
  PROVE  x \div d = q /\ x % d = r
  <1> DEFINE q1 == x \div d
             r1 == x % d
  <1>1. q1 \in Nat /\ r1 \in 0..(d - 1) /\ x = d * q1 + r1
    BY DivMod
  <1> HIDE DEF q1, r1
  <1>2. ASSUME q1 < q PROVE FALSE
    <2>1. d * (q1 + 1) <= d * q
      BY <1>1, <1>2, Z3
    <2>2. QED BY <1>1, <2>1, Z3
  <1>3. ASSUME q < q1 PROVE FALSE
    <2>1. d * (q + 1) <= d * q1
      BY <1>1, <1>3, Z3
    <2>2. QED BY <1>1, <2>1, Z3
  <1>4. q1 = q
    BY <1>1, <1>2, <1>3, Z3
  <1>5. QED BY <1>1, <1>4, Z3 DEF q1, r1

\* Every entry of the table is positive and twice the one before.
LEMMA ShlDoubles ==
  /\ \A a \in 0..MaxBits : Shl[a] \in Nat \ {0}
  /\ \A a \in 0..(MaxBits - 1) : Shl[a + 1] = 2 * Shl[a]
  <1>1. \A a \in 0..MaxBits : Shl[a] \in Nat \ {0}
    BY ShlAssumption
  <1>2. ASSUME NEW a \in 0..(MaxBits - 1) PROVE Shl[a + 1] = 2 * Shl[a]
    <2>1. a \in 0..MaxBits /\ 1 \in 0..MaxBits /\ a + 1 <= MaxBits
      BY ShlAssumption
    <2>2. Shl[a + 1] = Shl[a] * Shl[1]
      BY <2>1, ShlAssumption
    <2>3. Shl[a] * 2 = 2 * Shl[a]
      BY <1>1, <2>1
    <2>4. QED BY <2>2, <2>3, ShlAssumption
  <1>3. QED BY <1>1, <1>2

\* x >> a is twice x >> (a + 1) plus the digit that the longer shift drops.
LEMMA DigitHigh ==
  ASSUME NEW x \in Nat, NEW a \in 0..(MaxBits - 1)
  PROVE  /\ Bit(x, a) \in Bits
         /\ x \div Shl[a] = 2 * (x \div Shl[a + 1]) + Bit(x, a)
         /\ x \div Shl[a + 1] \in Nat
  <1> DEFINE d == Shl[a]
             q == x \div d
             h == q \div 2
             b == q % 2
             r == x % d
  <1>1. d \in Nat \ {0} /\ Shl[a + 1] = 2 * d
    <2>1. a \in 0..MaxBits
      BY ShlAssumption
    <2>2. QED BY <2>1, ShlDoubles
  <1>2. q \in Nat /\ r \in 0..(d - 1) /\ x = d * q + r
    BY <1>1, DivMod
  <1>3. h \in Nat /\ b \in 0..1 /\ q = 2 * h + b
    <2>1. q \in Nat
      BY <1>2
    <2> HIDE DEF q
    <2>2. QED BY <2>1
  <1>4. Bit(x, a) = b
    BY DEF Bit
  <1> HIDE DEF d, q, h, b, r
  <1>5. d * b + r \in 0..(2 * d - 1)
    <2>1. CASE b = 0 BY <1>1, <1>2, <2>1, Z3
    <2>2. CASE b = 1 BY <1>1, <1>2, <2>2, Z3
    <2>3. QED BY <1>3, <2>1, <2>2
  <1>6. d * q = 2 * d * h + d * b
    BY <1>1, <1>2, <1>3, Z3
  <1>7. x = (2 * d) * h + (d * b + r)
    BY <1>1, <1>2, <1>3, <1>6, Z3
  <1>8. x \div (2 * d) = h
    BY <1>1, <1>3, <1>5, <1>7, DivModUnique
  <1>9. QED
    BY <1>1, <1>3, <1>4, <1>8 DEF q, d, Bits

\* The a + 1 low digits of x are its a low digits and digit a.
LEMMA DigitLow ==
  ASSUME NEW x \in Nat, NEW a \in 0..(MaxBits - 1)
  PROVE  /\ x % Shl[a + 1] = (x % Shl[a]) + Bit(x, a) * Shl[a]
         /\ x % Shl[a] \in 0..(Shl[a] - 1)
  <1> DEFINE d == Shl[a]
             q == x \div d
             h == x \div Shl[a + 1]
             b == Bit(x, a)
             r == x % d
  <1>1. d \in Nat \ {0} /\ Shl[a + 1] = 2 * d
    <2>1. a \in 0..MaxBits
      BY ShlAssumption
    <2>2. QED BY <2>1, ShlDoubles
  <1>2. q \in Nat /\ r \in 0..(d - 1) /\ x = d * q + r
    BY <1>1, DivMod
  <1>3. h \in Nat /\ b \in Bits /\ q = 2 * h + b
    BY DigitHigh
  <1> HIDE DEF d, q, h, b, r
  <1>5. r + b * d \in 0..(2 * d - 1)
    <2>1. CASE b = 0 BY <1>1, <1>2, <2>1, Z3
    <2>2. CASE b = 1 BY <1>1, <1>2, <2>2, Z3
    <2>3. QED BY <1>3, <2>1, <2>2 DEF Bits
  <1>6. d * q = 2 * d * h + b * d
    BY <1>1, <1>2, <1>3, Z3 DEF Bits
  <1>7. x = (2 * d) * h + (r + b * d)
    BY <1>1, <1>2, <1>3, <1>6, Z3 DEF Bits
  <1>8. x % (2 * d) = r + b * d
    <2>1. 2 * d \in Nat \ {0}
      BY <1>1
    <2>2. QED BY <1>3, <1>5, <1>7, <2>1, DivModUnique
  <1>9. QED
    BY <1>1, <1>2, <1>8 DEF d, r, b

-----------------------------------------------------------------------------
(***************************************************************************)
(* The first tree.                                                         *)
(***************************************************************************)

\* Everything the code relies on between two iterations.
Inv == TypeOK /\ NodesPlaced /\ OneHot

\* Shl is monotone.
LEMMA ShlMonotone ==
  ASSUME NEW m \in 0..MaxBits, NEW l \in 0..m
  PROVE  Shl[l] \in Nat \ {0} /\ Shl[m] \in Nat /\ Shl[l] <= Shl[m]
  <1>1. MaxBits \in Nat
    BY ShlAssumption
  <1>2. l \in 0..MaxBits /\ m - l \in 0..MaxBits /\ l + (m - l) = m
    BY <1>1
  <1>3. Shl[m] = Shl[l] * Shl[m - l]
    BY <1>1, <1>2, ShlAssumption
  <1>4. Shl[l] \in Nat \ {0} /\ Shl[m - l] \in Nat \ {0}
    BY <1>2, ShlDoubles
  <1> DEFINE a == Shl[l]
             b == Shl[m - l]
  <1> HIDE DEF a, b
  <1>5. a \in Nat /\ b \in Nat \ {0} => a <= a * b /\ a * b \in Nat
    BY Z3
  <1>6. QED BY <1>3, <1>4, <1>5 DEF a, b

\* The nodes of a level fit in the slice, and its children too.
LEMMA LevelFits ==
  ASSUME TypeOK
  PROVE  /\ Shl[num] \in Nat \ {0}
         /\ Shl[i] \in Nat \ {0}
         /\ Shl[i] <= Shl[num]
         /\ i < num => Shl[i + 1] = 2 * Shl[i] /\ Shl[i + 1] <= Shl[num]
  <1>1. MaxBits \in Nat /\ num \in 0..MaxBits /\ i \in 0..num
    BY ShlAssumption DEF TypeOK
  <1>2. ASSUME NEW l \in 0..num PROVE Shl[l] <= Shl[num]
    BY <1>1, ShlMonotone
  <1>3. Shl[num] \in Nat \ {0} /\ Shl[i] \in Nat \ {0}
    BY <1>1, ShlDoubles
  <1>4. i < num => Shl[i + 1] = 2 * Shl[i]
    BY <1>1, ShlDoubles
  <1>5. QED BY <1>1, <1>2, <1>3, <1>4

\* The path to alpha goes to the child that the control bit names.
LEMMA PathStep ==
  ASSUME TypeOK, i < num
  PROVE  /\ Control[i] \in Bits
         /\ PathNode(i) \in Nat
         /\ PathNode(i + 1) = 2 * PathNode(i) + Control[i]
  <1> DEFINE a == num - 1 - i
  <1>1. /\ MaxBits \in Nat /\ num \in 0..MaxBits /\ i \in 0..(num - 1)
        /\ a \in 0..(MaxBits - 1) /\ a + 1 = num - i /\ a = num - (i + 1)
    BY ShlAssumption DEF TypeOK
  <1>2. alpha \in Nat
    BY <1>1, ShlDoubles DEF TypeOK, Slots
  <1>3. Control[i] = Bit(alpha, a)
    BY <1>1 DEF Control, DmuxBits
  <1> HIDE DEF a
  <1>4. QED BY <1>1, <1>2, <1>3, DigitHigh DEF PathNode

\* The path ends in alpha, and starts at the root.
LEMMA PathEnds ==
  ASSUME TypeOK
  PROVE  PathNode(num) = alpha /\ PathNode(0) = 0
  <1>1. num \in 0..MaxBits /\ Shl[num] \in Nat \ {0} /\ alpha \in 0..(Shl[num] - 1)
    BY LevelFits DEF TypeOK, Slots
  <1>2. num - num = 0 /\ num - 0 = num
    BY <1>1, ShlAssumption
  <1>3. alpha \div 1 = alpha
    BY <1>1
  <1>4. alpha \div Shl[num] = 0
    BY <1>1, DivModUnique, alpha = Shl[num] * 0 + alpha
  <1>5. QED BY <1>2, <1>3, <1>4, ShlAssumption DEF PathNode

\* One iteration places the two children and disturbs nothing else.
LEMMA ExpandPlaces ==
  ASSUME TypeOK, NodesPlaced, pc = "expand", Expand
  PROVE  /\ Node \in 0..(Shl[i] - 1)
         /\ out' \in [Slots -> Int]
         /\ \A k \in {2 * Node, 2 * Node + 1} :
              out'[k] = IF k = PathNode(i + 1) THEN input ELSE 0
         /\ \A k \in Slots \ {2 * Node, 2 * Node + 1} : out'[k] = out[k]
  <1> DEFINE n == Node
             c == Control[i]
             r == Dmux(c, out[n])
  <1>1. /\ n \in 0..(Shl[i] - 1)
        /\ {2 * n, 2 * n + 1} \subseteq Slots
        /\ n \in Slots
    <2>1. /\ Shl[i] \in Nat \ {0} /\ Shl[num] \in Nat /\ 2 * Shl[i] <= Shl[num]
          /\ step \in 0..(Shl[i] - 1)
      BY LevelFits DEF TypeOK
    <2>2. n \in 0..(Shl[i] - 1)
      BY <2>1 DEF Node
    <2> HIDE DEF n
    <2>3. QED BY <2>1, <2>2 DEF Slots
  <1>2. c \in Bits /\ PathNode(i) \in Nat /\ PathNode(i + 1) = 2 * PathNode(i) + c
    BY PathStep DEF TypeOK
  <1>3. out[n] = IF n = PathNode(i) THEN input ELSE 0
    BY <1>1 DEF NodesPlaced, Holds
  <1>4. input \in Int /\ out \in [Slots -> Int]
    BY PayloadAssumption DEF TypeOK
  <1>5. out' = [out EXCEPT ![2 * n + 1] = r[2], ![2 * n] = r[1]]
    BY DEF Expand
  <1>6. /\ r[1] = IF 2 * n = PathNode(i + 1) THEN input ELSE 0
        /\ r[2] = IF 2 * n + 1 = PathNode(i + 1) THEN input ELSE 0
    <2> HIDE DEF n, c
    <2>1. out[n] \in Int
      BY <1>3, <1>4
    <2>2. CASE c = 0
      <3>1. r[1] = out[n] /\ r[2] = 0
        BY <2>1, <2>2 DEF Dmux
      <3>2. QED BY <1>1, <1>2, <1>3, <2>2, <3>1
    <2>3. CASE c = 1
      <3>1. r[1] = 0 /\ r[2] = out[n]
        BY <2>1, <2>3 DEF Dmux
      <3>2. QED BY <1>1, <1>2, <1>3, <2>3, <3>1
    <2>4. QED BY <1>2, <2>2, <2>3 DEF Bits
  <1> HIDE DEF r
  <1>7. r[1] \in Int /\ r[2] \in Int
    BY <1>4, <1>6
  <1>8. 2 * n # 2 * n + 1
    BY <1>1
  <1>9. out'[2 * n] = r[1] /\ out'[2 * n + 1] = r[2]
    BY <1>1, <1>4, <1>5, <1>8
  <1>10. out' \in [Slots -> Int]
    BY <1>1, <1>4, <1>5, <1>7
  <1>11. \A k \in Slots \ {2 * n, 2 * n + 1} : out'[k] = out[k]
    BY <1>4, <1>5
  <1>12. QED BY <1>1, <1>6, <1>9, <1>10, <1>11

\* Before the first call of dmux_tree.
THEOREM InitInv == Init => Inv
  <1> SUFFICES ASSUME Init PROVE Inv
    OBVIOUS
  <1>1. Shl[0] = 1 /\ Shl[num] \in Nat \ {0}
    BY ShlDoubles, ShlAssumption DEF Init
  <1>2. TypeOK
    BY <1>1, ShlAssumption DEF Init, TypeOK, Slots
  <1>3. QED BY <1>2 DEF Init, Inv, NodesPlaced, OneHot

\* A call starts with the root in place.
THEOREM CallInv == Inv /\ Call => Inv'
  <1> SUFFICES ASSUME Inv, Call PROVE Inv'
    OBVIOUS
  <1>1. TypeOK /\ i = 0 /\ step = 0
    <2>1. TypeOK /\ i = 0
      BY DEF Inv, TypeOK, Call
    <2>2. Shl[0] = 1
      BY ShlAssumption
    <2>3. QED BY <2>1, <2>2 DEF TypeOK
  <1>2. /\ Shl[0] = 1 /\ num \in 0..MaxBits /\ 0 \in Slots
        /\ input \in Int /\ out \in [Slots -> Int]
    <2>1. num \in 0..MaxBits /\ input \in Int /\ out \in [Slots -> Int]
      BY <1>1, PayloadAssumption DEF TypeOK
    <2>2. Shl[0] = 1 /\ Shl[num] \in Nat \ {0}
      BY <1>1, LevelFits, ShlAssumption
    <2>3. QED BY <2>1, <2>2 DEF Slots
  <1>3. UNCHANGED <<num, alpha, input, i, step>> /\ out' = [out EXCEPT ![0] = input]
    BY DEF Call
  <1>4. out' \in [Slots -> Int] /\ out'[0] = input
    BY <1>2, <1>3
  <1>5. TypeOK'
    BY <1>1, <1>3, <1>4 DEF Call, TypeOK, Slots
  <1>6. NodesPlaced'
    <2> SUFFICES ASSUME pc' = "expand" PROVE NodesPlaced'
      BY DEF NodesPlaced
    <2>1. Node' = 0 /\ 2 * Shl[i'] - 1 = 1
      BY <1>1, <1>2, <1>3 DEF Node
    <2>2. PathNode(0)' = 0
      BY <1>1, <1>3, PathEnds DEF PathNode
    <2>3. out'[0] = input'
      BY <1>3, <1>4
    <2>4. i' = 0
      BY <1>1, <1>3
    <2>5. \A k \in 0..Node' : k = 0
      BY <2>1
    <2>6. \A k \in (2 * Node' + 2)..(2 * Shl[i'] - 1) : FALSE
      BY <2>1
    <2>7. (\A k \in 0..Node : Holds(k, i))'
      BY <2>2, <2>3, <2>4, <2>5 DEF Holds, PathNode
    <2>8. QED BY <2>6, <2>7 DEF NodesPlaced
  <1>7. OneHot'
    <2> SUFFICES ASSUME num = 0 PROVE OneHot'
      BY DEF OneHot, Call
    <2>1. Slots = {0} /\ alpha = 0
      BY <1>1, <1>2 DEF Slots, TypeOK
    <2>2. QED BY <1>3, <1>4, <2>1 DEF OneHot, Slots
  <1>8. QED BY <1>5, <1>6, <1>7 DEF Inv

\* Splitting a node overwrites no parent still to be read.
THEOREM ExpandNodeInv == Inv /\ ExpandNode => Inv'
  <1> SUFFICES ASSUME Inv, ExpandNode PROVE Inv'
    OBVIOUS
  <1> DEFINE n == Node
  <1>1. TypeOK /\ NodesPlaced /\ pc = "expand" /\ Expand /\ i < num
    BY DEF Inv, TypeOK, ExpandNode
  <1>2. /\ n \in 0..(Shl[i] - 1)
        /\ out' \in [Slots -> Int]
        /\ \A k \in {2 * n, 2 * n + 1} : out'[k] = IF k = PathNode(i + 1) THEN input ELSE 0
        /\ \A k \in Slots \ {2 * n, 2 * n + 1} : out'[k] = out[k]
    BY <1>1, ExpandPlaces
  <1>3. UNCHANGED <<num, alpha, input, i, pc>> /\ step' = step + 1 /\ step + 1 < Shl[i]
    BY DEF ExpandNode
  <1>4. /\ Shl[i] \in Nat /\ step \in Nat /\ i \in Nat
        /\ 2 * Shl[i] <= Shl[num] /\ Shl[num] \in Nat
    <2>1. num \in Nat /\ i \in Nat
      BY <1>1, ShlAssumption DEF TypeOK
    <2>2. /\ Shl[i] \in Nat \ {0} /\ Shl[num] \in Nat
          /\ Shl[i + 1] = 2 * Shl[i] /\ Shl[i + 1] <= Shl[num]
      BY <1>1, LevelFits
    <2>3. step \in Nat
      BY <1>1, <2>2 DEF TypeOK
    <2>4. QED BY <2>1, <2>2, <2>3
  <1>5. TypeOK'
    BY <1>1, <1>2, <1>3, <1>4 DEF TypeOK, Slots
  <1>6. n > 0 /\ Node' = n - 1
    BY <1>2, <1>3, <1>4 DEF Node
  <1>7. \A l : PathNode(l)' = PathNode(l)
    BY <1>3 DEF PathNode
  <1> HIDE DEF n
  <1>8. ASSUME NEW k \in 0..(n - 1) PROVE Holds(k, i)'
    <2>1. k \in 0..n /\ k \in Slots \ {2 * n, 2 * n + 1}
      BY <1>2, <1>4, <1>6 DEF Slots
    <2>2. Holds(k, i)
      BY <1>1, <2>1 DEF NodesPlaced, n
    <2>3. QED BY <1>2, <1>3, <1>7, <2>1, <2>2 DEF Holds
  <1>9. ASSUME NEW k \in (2 * n)..(2 * Shl[i] - 1) PROVE Holds(k, i + 1)'
    <2>1. CASE k \in {2 * n, 2 * n + 1}
      BY <1>2, <1>3, <1>7, <2>1 DEF Holds
    <2>2. CASE k \in (2 * n + 2)..(2 * Shl[i] - 1)
      <3>1. k \in Slots \ {2 * n, 2 * n + 1}
        BY <1>2, <1>4, <2>2 DEF Slots
      <3>2. Holds(k, i + 1)
        BY <1>1, <2>2 DEF NodesPlaced, n
      <3>3. QED BY <1>2, <1>3, <1>7, <3>1, <3>2 DEF Holds
    <2>3. QED BY <1>2, <1>4, <2>1, <2>2
  <1>10. NodesPlaced'
    <2>1. i' = i /\ Node' = n - 1 /\ 2 * Node' + 2 = 2 * n
      BY <1>2, <1>3, <1>6
    <2>2. QED BY <1>8, <1>9, <2>1 DEF NodesPlaced, Holds
  <1>11. OneHot'
    BY <1>1, <1>3 DEF OneHot
  <1>12. QED BY <1>5, <1>10, <1>11 DEF Inv

\* The last node of a level: the next level begins with all parents placed.
THEOREM ExpandLastInv == Inv /\ ExpandLast => Inv'
  <1> SUFFICES ASSUME Inv, ExpandLast PROVE Inv'
    OBVIOUS
  <1>1. TypeOK /\ NodesPlaced /\ pc = "expand" /\ Expand /\ i < num
    BY DEF Inv, TypeOK, ExpandLast
  <1>2. /\ UNCHANGED <<num, alpha, input>> /\ step' = 0 /\ i' = i + 1
        /\ step + 1 = Shl[i] /\ pc' = IF i + 1 = num THEN "done" ELSE pc
    BY DEF ExpandLast
  <1>3. /\ Shl[i] \in Nat \ {0} /\ step \in Nat /\ i \in Nat /\ num \in Nat
        /\ Shl[i + 1] = 2 * Shl[i] /\ Shl[i + 1] <= Shl[num] /\ Shl[num] \in Nat
    <2>1. num \in Nat /\ i \in Nat
      BY <1>1, ShlAssumption DEF TypeOK
    <2>2. /\ Shl[i] \in Nat \ {0} /\ Shl[num] \in Nat
          /\ Shl[i + 1] = 2 * Shl[i] /\ Shl[i + 1] <= Shl[num]
      BY <1>1, LevelFits
    <2>3. step \in Nat
      BY <1>1, <2>2 DEF TypeOK
    <2>4. QED BY <2>1, <2>2, <2>3
  <1>4. Node = 0
    BY <1>2, <1>3 DEF Node
  <1>5. /\ out' \in [Slots -> Int]
        /\ \A k \in {0, 1} : out'[k] = IF k = PathNode(i + 1) THEN input ELSE 0
        /\ \A k \in Slots \ {0, 1} : out'[k] = out[k]
    <2>1. 2 * Node = 0 /\ 2 * Node + 1 = 1
      BY <1>4
    <2>2. QED BY <1>1, <2>1, ExpandPlaces
  <1>6. TypeOK'
    BY <1>1, <1>2, <1>3, <1>5 DEF TypeOK, Slots
  <1>7. \A l : PathNode(l)' = PathNode(l)
    BY <1>2 DEF PathNode
  <1>8. ASSUME NEW k \in 0..(Shl[i + 1] - 1)
        PROVE  out'[k] = IF k = PathNode(i + 1) THEN input ELSE 0
    <2>1. CASE k \in {0, 1}
      BY <1>5, <2>1
    <2>2. CASE k \in 2..(2 * Shl[i] - 1)
      <3>1. k \in Slots \ {0, 1}
        BY <1>3, <2>2 DEF Slots
      <3>2. 2 * Node + 2 = 2
        BY <1>4
      <3>3. Holds(k, i + 1)
        BY <1>1, <2>2, <3>2 DEF NodesPlaced
      <3>4. QED BY <1>5, <3>1, <3>3 DEF Holds
    <2>3. QED BY <1>3, <2>1, <2>2
  <1>9. NodesPlaced'
    <2>1. Node' = Shl[i + 1] - 1
      BY <1>2, <1>3 DEF Node
    <2>2. \A k \in (2 * Node' + 2)..(2 * Shl[i + 1] - 1) : FALSE
      BY <1>3, <2>1
    <2>3. ASSUME NEW k \in 0..Node' PROVE Holds(k, i)'
      BY <1>2, <1>7, <1>8, <2>1 DEF Holds
    <2>4. QED BY <1>2, <2>2, <2>3 DEF NodesPlaced, Holds
  <1>10. OneHot'
    <2> SUFFICES ASSUME i + 1 = num PROVE OneHot'
      BY <1>1, <1>2 DEF OneHot
    <2>1. PathNode(num) = alpha
      BY <1>1, PathEnds
    <2>2. \A k \in Slots : out'[k] = IF k = alpha THEN input ELSE 0
      BY <1>8, <2>1 DEF Slots
    <2>3. QED BY <1>2, <1>5, <2>2 DEF OneHot, Slots
  <1>11. QED BY <1>6, <1>9, <1>10 DEF Inv

\* At every point of the expansion the tree is well formed.
THEOREM Invariance == Spec => []Inv
  <1>1. Inv /\ [Next]_vars => Inv'
    <2>1. Inv /\ UNCHANGED vars => Inv'
      BY DEF Inv, vars, TypeOK, NodesPlaced, OneHot, Slots, Node, Holds, PathNode
    <2>2. QED BY <2>1, CallInv, ExpandNodeInv, ExpandLastInv DEF Next
  <1>2. QED BY <1>1, InitInv, PTL DEF Spec

\* The types hold for every number of bits (mux.rs dmux_tree).
THEOREM TypeCorrect == Spec => []TypeOK
  <1>1. Inv => TypeOK
    BY DEF Inv
  <1>2. QED BY <1>1, Invariance, PTL

\* In-place safety of dmux_tree: no unread parent is ever overwritten.
THEOREM InPlaceSafety == Spec => []NodesPlaced
  <1>1. Inv => NodesPlaced
    BY DEF Inv
  <1>2. QED BY <1>1, Invariance, PTL

\* dmux_tree returns the one-hot vector of alpha, whatever alpha, the number of
\* control bits and the payload are.
THEOREM DMuxCorrect == Spec => []OneHot
  <1>1. Inv => OneHot
    BY DEF Inv
  <1>2. QED BY <1>1, Invariance, PTL

-----------------------------------------------------------------------------
(***************************************************************************)
(* The second tree, cmux_tree, on any column and any vector of inputs.     *)
(* The inductive invariant is PairsIntact: in the middle of a level the    *)
(* pairs still to be read are untouched and the slots already written hold *)
(* the survivors of the next level.                                        *)
(***************************************************************************)

\* Everything the code relies on between two iterations.
CmuxInv == C!TypeOK /\ C!PairsIntact

\* The lengths of the active prefix and of its half.
LEMMA CmuxLengths ==
  ASSUME C!TypeOK
  PROVE  /\ colBits \in Nat /\ level \in Nat /\ colBits <= MaxBits /\ MaxBits \in Nat
         /\ active \in Nat \ {0}
         /\ active <= Shl[colBits] /\ Shl[colBits] \in Nat
         /\ level < colBits => /\ C!half \in Nat \ {0}
                       /\ active = 2 * C!half
                       /\ C!half = Shl[colBits - (level + 1)]
  <1>1. MaxBits \in Nat /\ colBits \in 0..MaxBits /\ level \in 0..colBits /\ active = Shl[colBits - level]
    BY ShlAssumption DEF C!TypeOK
  <1> DEFINE a == colBits - level
  <1>2. a \in 0..MaxBits /\ level \in 0..MaxBits /\ colBits \in 0..MaxBits /\ level + a = colBits
    BY <1>1
  <1>3. active \in Nat \ {0} /\ Shl[level] \in Nat \ {0} /\ Shl[colBits] \in Nat
    BY <1>1, <1>2, ShlDoubles
  <1>4. active <= Shl[colBits]
    <2>1. Shl[colBits] = Shl[level] * active
      BY <1>1, <1>2, ShlAssumption
    <2> DEFINE s == Shl[level]
    <2>2. s \in Nat \ {0}
      BY <1>3
    <2> HIDE DEF s
    <2>3. active <= s * active
      BY <1>3, <2>2, Z3
    <2>4. QED BY <2>1, <2>3 DEF s
  <1>5. ASSUME level < colBits
        PROVE  C!half \in Nat \ {0} /\ active = 2 * C!half /\ C!half = Shl[colBits - (level + 1)]
    <2> DEFINE b == colBits - (level + 1)
    <2>1. b \in 0..(MaxBits - 1) /\ b \in 0..MaxBits /\ b + 1 = colBits - level
      BY <1>1, <1>5
    <2>2. active = 2 * Shl[b] /\ Shl[b] \in Nat \ {0}
      BY <1>1, <2>1, ShlDoubles
    <2>3. QED BY <2>2 DEF C!half
  <1>6. QED BY <1>1, <1>3, <1>4, <1>5

\* The pair 2k, 2k + 1 of a level holds, at the select bit, the survivor k of
\* the next level.
LEMMA PairSurvivor ==
  ASSUME C!TypeOK, level < colBits, NEW k \in Nat
  PROVE  /\ C!Select[level] \in Bits
         /\ C!Survivor(2 * k + C!Select[level], level) = C!Survivor(k, level + 1)
  <1> DEFINE c == Bit(beta, level)
             d == Shl[level]
             r == beta % d
  <1>1. /\ MaxBits \in Nat /\ colBits \in 0..MaxBits /\ level \in 0..(colBits - 1)
        /\ level \in 0..(MaxBits - 1) /\ level \in 0..MaxBits
    BY CmuxLengths DEF C!TypeOK
  <1>2. beta \in Nat
    BY <1>1, ShlDoubles DEF C!TypeOK, C!Slots
  <1>3. C!Select[level] = c
    BY <1>1 DEF C!Select, C!CmuxBits, C!Bit, Bit
  <1>4. c \in Bits
    BY <1>1, <1>2, DigitHigh
  <1>5. d \in Nat \ {0} /\ Shl[level + 1] = 2 * d
    BY <1>1, ShlDoubles
  <1>6. beta % Shl[level + 1] = r + c * d /\ r \in 0..(d - 1)
    BY <1>1, <1>2, DigitLow
  <1> HIDE DEF c, d, r
  <1>7. (2 * k + c) * d + r = k * (2 * d) + (r + c * d)
    <2>1. CASE c = 0 BY <1>5, <1>6, <2>1, Z3
    <2>2. CASE c = 1 BY <1>5, <1>6, <2>2, Z3
    <2>3. QED BY <1>4, <2>1, <2>2 DEF Bits
  <1>8. QED BY <1>3, <1>4, <1>5, <1>6, <1>7 DEF C!Survivor, d, r

\* One iteration writes slot j, with the survivor of the pair it reads.
LEMMA ReducePlaces ==
  ASSUME C!TypeOK, C!PairsIntact, cpc = "reduce", C!Reduce
  PROVE  /\ inputs' \in [C!Slots -> Int]
         /\ inputs'[j] = column[C!Survivor(j, level + 1)]
         /\ \A k \in C!Slots \ {j} : inputs'[k] = inputs[k]
  <1> DEFINE c == C!Select[level]
             vv == C!Cmux(c, inputs[2 * j], inputs[2 * j + 1])
  <1>1. level < colBits /\ j \in Nat /\ j < C!half /\ inputs \in [C!Slots -> Int]
    <2>1. level < colBits /\ j < C!half /\ inputs \in [C!Slots -> Int] /\ j \in 0..(active - 1)
      BY DEF C!TypeOK
    <2>2. QED BY <2>1, CmuxLengths
  <1>2. active = 2 * C!half /\ C!half \in Nat /\ active <= Shl[colBits] /\ Shl[colBits] \in Nat
    BY <1>1, CmuxLengths
  <1>3. j \in C!Slots /\ 2 * j \in C!Slots /\ 2 * j + 1 \in C!Slots
    BY <1>1, <1>2 DEF C!Slots
  <1>4. c \in Bits /\ C!Survivor(2 * j + c, level) = C!Survivor(j, level + 1)
    BY <1>1, PairSurvivor
  <1>5. vv = inputs[2 * j + c] /\ vv \in Int
    <2> HIDE DEF c
    <2> DEFINE x == inputs[2 * j]
               y == inputs[2 * j + 1]
    <2>1. x \in Int /\ y \in Int
      BY <1>1, <1>3
    <2>2. CASE c = 0
      <3>1. C!Cmux(c, x, y) = x
        BY <2>1, <2>2 DEF C!Cmux
      <3>2. 2 * j + c = 2 * j
        BY <1>1, <2>2
      <3>3. QED BY <2>1, <3>1, <3>2
    <2>3. CASE c = 1
      <3>1. C!Cmux(c, x, y) = y
        <4> HIDE DEF x, y
        <4>1. QED BY <2>1, <2>3 DEF C!Cmux
      <3>2. QED BY <2>1, <2>3, <3>1
    <2>4. QED BY <1>4, <2>2, <2>3 DEF Bits
  <1>6. inputs[2 * j + c] = column[C!Survivor(j, level + 1)]
    <2> HIDE DEF c
    <2>1. 2 * j + c \in (2 * j)..(active - 1)
      BY <1>1, <1>2, <1>4 DEF Bits
    <2>2. QED BY <1>4, <2>1 DEF C!PairsIntact
  <1>7. inputs' = [inputs EXCEPT ![j] = vv]
    BY DEF C!Reduce
  <1> HIDE DEF vv
  <1>8. QED BY <1>1, <1>3, <1>5, <1>6, <1>7

\* Before the first call of cmux_tree.
THEOREM CmuxInitInv == C!Init => CmuxInv
  <1> SUFFICES ASSUME C!Init PROVE CmuxInv
    OBVIOUS
  <1>1. /\ MaxBits \in Nat /\ colBits = 0 /\ 0 \in 0..MaxBits /\ colBits - 0 = 0
        /\ Shl[0] = 1 /\ C!Slots = 0..0
    BY ShlAssumption DEF C!Init, C!Slots
  <1>2. C!TypeOK
    BY <1>1 DEF C!Init, C!TypeOK, C!Slots
  <1>3. C!Survivor(0, 0) = 0
    BY <1>1 DEF C!Init, C!Survivor
  <1>4. C!PairsIntact
    BY <1>1, <1>3 DEF C!Init, C!PairsIntact
  <1>5. QED BY <1>2, <1>4 DEF CmuxInv

\* A call starts with every cell in its place.
THEOREM CmuxCallInv ==
  ASSUME NEW n \in 0..MaxBits, NEW b \in 0..(Shl[n] - 1),
         NEW cells \in [0..(Shl[n] - 1) -> Int], C!Call(n, b, cells)
  PROVE  CmuxInv'
  <1>1. /\ colBits' = n /\ beta' = b /\ column' = cells /\ inputs' = cells
        /\ active' = Shl[n] /\ level' = 0 /\ j' = 0
        /\ cpc' = IF n = 0 THEN "done" ELSE "reduce"
    BY DEF C!Call
  <1>2. /\ MaxBits \in Nat /\ n \in Nat /\ 0 \in 0..MaxBits /\ n - 0 = n
        /\ Shl[0] = 1 /\ Shl[n] \in Nat \ {0}
    BY ShlDoubles, ShlAssumption
  <1>3. C!TypeOK'
    <2>1. ASSUME n > 0 PROVE C!half' > 0
      <3>1. n - 1 \in 0..(MaxBits - 1) /\ n - 1 \in 0..MaxBits /\ (n - 1) + 1 = n
        BY <1>2, <2>1
      <3>2. Shl[n] = 2 * Shl[n - 1] /\ Shl[n - 1] \in Nat \ {0}
        BY <3>1, ShlDoubles
      <3>3. QED BY <1>1, <3>2 DEF C!half
    <2>2. C!Slots' = 0..(Shl[n] - 1)
      BY <1>1 DEF C!Slots
    <2>3. colBits' \in 0..MaxBits /\ beta' \in C!Slots' /\ column' \in [C!Slots' -> Int]
          /\ inputs' \in [C!Slots' -> Int] /\ level' \in 0..colBits' /\ active' = Shl[colBits' - level']
          /\ j' \in 0..(active' - 1)
      BY <1>1, <1>2, <2>2
    <2>4. /\ cpc' \in {"idle", "reduce", "done"}
          /\ cpc' = "reduce" => level' < colBits' /\ j' < C!half'
          /\ cpc' = "done" => level' = colBits'
      BY <1>1, <1>2, <2>1
    <2>5. QED BY <2>3, <2>4 DEF C!TypeOK
  <1>4. C!PairsIntact'
    <2>1. \A k \in 0..(Shl[n] - 1) : C!Survivor(k, 0)' = k
      BY <1>1, <1>2 DEF C!Survivor
    <2>2. \A k \in 0..(Shl[n] - 1) : inputs'[k] = column'[C!Survivor(k, 0)']
      BY <1>1, <2>1
    <2>3. QED BY <1>1, <1>2, <2>2 DEF C!PairsIntact, C!Survivor
  <1>5. QED BY <1>3, <1>4 DEF CmuxInv

\* Reducing a pair overwrites no pair still to be read.
THEOREM CmuxPairInv == CmuxInv /\ C!ReducePair => CmuxInv'
  <1> SUFFICES ASSUME CmuxInv, C!ReducePair PROVE CmuxInv'
    OBVIOUS
  <1>1. C!TypeOK /\ C!PairsIntact /\ cpc = "reduce" /\ C!Reduce /\ level < colBits
    BY DEF CmuxInv, C!TypeOK, C!ReducePair
  <1>2. /\ inputs' \in [C!Slots -> Int]
        /\ inputs'[j] = column[C!Survivor(j, level + 1)]
        /\ \A k \in C!Slots \ {j} : inputs'[k] = inputs[k]
    BY <1>1, ReducePlaces
  <1>3. UNCHANGED <<colBits, beta, column, active, level, cpc>> /\ j' = j + 1 /\ j + 1 < C!half
    BY DEF C!ReducePair
  <1>4. /\ active = 2 * C!half /\ C!half \in Nat /\ active <= Shl[colBits] /\ Shl[colBits] \in Nat
        /\ j \in Nat
    <2>1. active = 2 * C!half /\ C!half \in Nat /\ active <= Shl[colBits] /\ Shl[colBits] \in Nat
      BY <1>1, CmuxLengths
    <2>2. QED BY <1>1, <2>1 DEF C!TypeOK
  <1>5. C!half' = C!half
    BY <1>3 DEF C!half
  <1>6. C!TypeOK'
    BY <1>1, <1>2, <1>3, <1>4, <1>5 DEF C!TypeOK, C!Slots
  <1>7. \A k, l : C!Survivor(k, l)' = C!Survivor(k, l)
    BY <1>3 DEF C!Survivor
  <1>8. ASSUME NEW k \in 0..j PROVE inputs'[k] = column[C!Survivor(k, level + 1)]
    <2>1. CASE k = j
      BY <1>2, <2>1
    <2>2. CASE k \in 0..(j - 1)
      <3>1. k \in C!Slots \ {j}
        BY <1>3, <1>4, <2>2 DEF C!Slots
      <3>2. QED BY <1>1, <1>2, <2>2, <3>1 DEF C!PairsIntact
    <2>3. QED BY <1>4, <2>1, <2>2
  <1>9. ASSUME NEW k \in (2 * j + 2)..(active - 1) PROVE inputs'[k] = column[C!Survivor(k, level)]
    <2>1. k \in C!Slots \ {j} /\ k \in (2 * j)..(active - 1)
      BY <1>3, <1>4 DEF C!Slots
    <2>2. QED BY <1>1, <1>2, <2>1 DEF C!PairsIntact
  <1>10. C!PairsIntact'
    <2>1. j' - 1 = j /\ 2 * j' = 2 * j + 2
      BY <1>3, <1>4
    <2>2. QED BY <1>3, <1>8, <1>9, <2>1 DEF C!PairsIntact, C!Survivor
  <1>11. QED BY <1>6, <1>10 DEF CmuxInv

\* The last pair of a level: the prefix halves.
THEOREM CmuxLastInv == CmuxInv /\ C!ReduceLast => CmuxInv'
  <1> SUFFICES ASSUME CmuxInv, C!ReduceLast PROVE CmuxInv'
    OBVIOUS
  <1>1. C!TypeOK /\ C!PairsIntact /\ cpc = "reduce" /\ C!Reduce /\ level < colBits
    BY DEF CmuxInv, C!TypeOK, C!ReduceLast
  <1>2. /\ inputs' \in [C!Slots -> Int]
        /\ inputs'[j] = column[C!Survivor(j, level + 1)]
        /\ \A k \in C!Slots \ {j} : inputs'[k] = inputs[k]
    BY <1>1, ReducePlaces
  <1>3. /\ UNCHANGED <<colBits, beta, column>> /\ j' = 0 /\ level' = level + 1 /\ active' = C!half
        /\ j + 1 = C!half /\ cpc' = IF level + 1 = colBits THEN "done" ELSE cpc
    BY DEF C!ReduceLast
  <1>4. /\ active = 2 * C!half /\ C!half \in Nat \ {0} /\ active <= Shl[colBits] /\ Shl[colBits] \in Nat
        /\ C!half = Shl[colBits - (level + 1)]
        /\ j \in Nat /\ colBits \in 0..MaxBits /\ level \in 0..colBits /\ MaxBits \in Nat
    <2>1. /\ active = 2 * C!half /\ C!half \in Nat \ {0} /\ active <= Shl[colBits]
          /\ Shl[colBits] \in Nat /\ MaxBits \in Nat /\ C!half = Shl[colBits - (level + 1)]
      BY <1>1, CmuxLengths
    <2>2. QED BY <1>1, <2>1 DEF C!TypeOK
  <1>5. level + 1 < colBits => C!half' \in Nat \ {0}
    <2> SUFFICES ASSUME level + 1 < colBits PROVE C!half' \in Nat \ {0}
      OBVIOUS
    <2> DEFINE b == colBits - (level + 2)
    <2>1. b \in 0..(MaxBits - 1) /\ b \in 0..MaxBits /\ b + 1 = colBits - (level + 1)
      BY <1>4
    <2>2. active' = 2 * Shl[b] /\ Shl[b] \in Nat \ {0}
      BY <1>3, <1>4, <2>1, ShlDoubles
    <2>3. QED BY <2>2 DEF C!half
  <1>6. C!TypeOK'
    <2>1. /\ colBits' \in 0..MaxBits /\ (beta \in C!Slots)' /\ (column \in [C!Slots -> Int])'
          /\ (inputs \in [C!Slots -> Int])'
      BY <1>1, <1>2, <1>3 DEF C!TypeOK, C!Slots
    <2>2. level' \in 0..colBits' /\ level' <= colBits'
      BY <1>1, <1>3, <1>4
    <2>3. active' = Shl[colBits' - level']
      BY <1>3, <1>4
    <2>4. j' \in 0..(active' - 1)
      BY <1>3, <1>4
    <2>5. /\ cpc' \in {"idle", "reduce", "done"}
          /\ cpc' = "reduce" => level' < colBits' /\ j' < C!half'
          /\ cpc' = "done" => level' = colBits'
      BY <1>1, <1>3, <1>4, <1>5
    <2>6. QED BY <2>1, <2>2, <2>3, <2>4, <2>5 DEF C!TypeOK
  <1>7. ASSUME NEW k \in 0..(C!half - 1) PROVE inputs'[k] = column[C!Survivor(k, level + 1)]
    <2>1. CASE k = j
      BY <1>2, <2>1
    <2>2. CASE k \in 0..(j - 1)
      <3>1. k \in C!Slots \ {j}
        BY <1>3, <1>4, <2>2 DEF C!Slots
      <3>2. QED BY <1>1, <1>2, <2>2, <3>1 DEF C!PairsIntact
    <2>3. QED BY <1>3, <1>4, <2>1, <2>2
  <1>8. C!PairsIntact'
    BY <1>3, <1>4, <1>7 DEF C!PairsIntact, C!Survivor
  <1>9. QED BY <1>6, <1>8 DEF CmuxInv

\* When the tree returns only the column beta has survived.
LEMMA SurvivorIsBeta == CmuxInv => C!Selected
  <1> SUFFICES ASSUME CmuxInv, cpc = "done" PROVE inputs[0] = column[beta]
    BY DEF C!Selected
  <1>1. level = colBits /\ active = Shl[colBits - colBits] /\ j \in 0..(active - 1) /\ beta \in C!Slots
    BY DEF CmuxInv, C!TypeOK
  <1>2. colBits \in 0..MaxBits /\ colBits - colBits = 0 /\ Shl[colBits] \in Nat \ {0}
    <2>1. colBits \in 0..MaxBits /\ colBits - colBits = 0
      BY ShlAssumption DEF CmuxInv, C!TypeOK
    <2>2. QED BY <2>1, ShlDoubles
  <1>3. active = 1 /\ j = 0
    BY <1>1, <1>2, ShlAssumption
  <1>4. C!Survivor(0, colBits) = beta
    BY <1>1, <1>2 DEF C!Survivor, C!Slots
  <1>5. QED BY <1>1, <1>3, <1>4 DEF CmuxInv, C!PairsIntact

\* At every point of the reduction the slice is well formed.
THEOREM CmuxInvariance == C!Spec => []CmuxInv
  <1>1. CmuxInv /\ [C!Next]_(C!vars) => CmuxInv'
    <2>1. CmuxInv /\ UNCHANGED C!vars => CmuxInv'
      BY DEF CmuxInv, C!vars, C!TypeOK, C!PairsIntact, C!Slots, C!Survivor, C!half
    <2>2. QED BY <2>1, CmuxCallInv, CmuxPairInv, CmuxLastInv DEF C!Next
  <1>2. QED BY <1>1, CmuxInitInv, PTL DEF C!Spec

\* The types hold for every number of bits (mux.rs cmux_tree).
THEOREM CmuxTypeCorrect == C!Spec => []C!TypeOK
  <1>1. CmuxInv => C!TypeOK
    BY DEF CmuxInv
  <1>2. QED BY <1>1, CmuxInvariance, PTL

\* In-place safety of cmux_tree: no pair is overwritten before it is read.
THEOREM CmuxInPlaceSafety == C!Spec => []C!PairsIntact
  <1>1. CmuxInv => C!PairsIntact
    BY DEF CmuxInv
  <1>2. QED BY <1>1, CmuxInvariance, PTL

\* cmux_tree returns the input beta, whatever beta, the number of select bits
\* and the inputs are.
THEOREM CMuxCorrect == C!Spec => []C!Selected
  <1>1. QED BY SurvivorIsBeta, CmuxInvariance, PTL

-----------------------------------------------------------------------------
(***************************************************************************)
(* The first dimension and the second tree.                                *)
(***************************************************************************)

\* f[r] is the sum of the first r products, as ColumnOf builds it.
PartialSums(f, S, rows, d) ==
  f = [r \in 0..S |-> IF r = 0 THEN 0 ELSE f[r - 1] + rows[r - 1] * d[r - 1]]

\* rows is one-hot: x in slot a of S; d is a column of the database.
HotAt(S, a, x, rows, d) ==
  /\ S \in Nat \ {0} /\ a \in 0..(S - 1) /\ x \in Int
  /\ rows \in [0..(S - 1) -> Int] /\ d \in [0..(S - 1) -> Int]
  /\ \A r \in 0..(S - 1) : rows[r] = IF r = a THEN x ELSE 0

\* On the one-hot vector the sum over the rows is 0 up to row a and the cell of
\* that row from there on; the recursion has no other solution.
LEMMA OneHotSum ==
  ASSUME NEW S, NEW a, NEW x, NEW rows, NEW d, HotAt(S, a, x, rows, d)
  PROVE  /\ \E f : PartialSums(f, S, rows, d)
         /\ \A f : PartialSums(f, S, rows, d) => f[S] = x * d[a]
  <1> DEFINE g == [r \in 0..S |-> IF r <= a THEN 0 ELSE x * d[a]]
  <1>0. /\ S \in Nat \ {0} /\ a \in 0..(S - 1) /\ x \in Int
        /\ rows \in [0..(S - 1) -> Int] /\ d \in [0..(S - 1) -> Int]
        /\ \A r \in 0..(S - 1) : rows[r] = IF r = a THEN x ELSE 0
    BY DEF HotAt
  <1>1. x * d[a] \in Int
    BY <1>0
  <1>2. ASSUME NEW r \in 1..S
        PROVE  g[r] = g[r - 1] + rows[r - 1] * d[r - 1]
    <2>1. r - 1 \in 0..(S - 1) /\ r - 1 \in 0..S /\ r \in 0..S
      BY <1>0
    <2>2. CASE r - 1 = a
      <3>1. g[r] = x * d[a] /\ g[r - 1] = 0 /\ rows[r - 1] = x
        BY <1>0, <2>1, <2>2
      <3>2. QED BY <1>0, <1>1, <2>2, <3>1
    <2>3. CASE r - 1 # a
      <3>1. d[r - 1] \in Int /\ rows[r - 1] = 0
        BY <1>0, <2>1, <2>3
      <3>2. rows[r - 1] * d[r - 1] = 0
        BY <1>0, <3>1
      <3>3. g[r] = g[r - 1] /\ g[r] \in Int
        BY <1>0, <1>1, <2>1, <2>3
      <3>4. QED BY <1>0, <3>2, <3>3
    <2>4. QED BY <1>0, <2>2, <2>3
  <1>3. g = [r \in 0..S |-> IF r = 0 THEN 0 ELSE g[r - 1] + rows[r - 1] * d[r - 1]]
    <2>1. g[0] = 0
      BY <1>0
    <2>2. ASSUME NEW r \in 0..S
          PROVE  g[r] = IF r = 0 THEN 0 ELSE g[r - 1] + rows[r - 1] * d[r - 1]
      <3>1. CASE r = 0
        BY <1>0, <2>1, <3>1
      <3>2. CASE r # 0
        <4>1. r \in 1..S
          BY <1>0, <3>2
        <4>2. QED BY <1>0, <1>2, <3>2, <4>1
      <3>3. QED BY <1>0, <3>1, <3>2
    <2>3. g = [r \in 0..S |-> g[r]]
      BY <1>0
    <2> HIDE DEF g
    <2>4. QED BY <1>0, <2>2, <2>3
  <1> HIDE DEF g
  <1>4. ASSUME NEW sum,
               sum = [r \in 0..S |-> IF r = 0 THEN 0 ELSE sum[r - 1] + rows[r - 1] * d[r - 1]]
        PROVE  sum[S] = g[S]
    <2> DEFINE T == {r \in 0..S : sum[r] # g[r]}
    <2> SUFFICES ASSUME T # {} PROVE FALSE
      <3>1. S \in 0..S
        BY <1>0
      <3>2. QED BY <1>0, <3>1
    <2>1. PICK t \in T : \A u \in T : t <= u
      <3>1. T \subseteq Nat
        BY <1>0
      <3> HIDE DEF T
      <3>2. QED BY <1>0, <3>1, LeastElement
    <2>2. t \in 0..S /\ sum[t] # g[t]
      BY <1>0
    <2>3. sum[0] = 0 /\ g[0] = 0
      <3>1. 0 \in 0..S
        BY <1>0
      <3>2. QED BY <1>0, <1>3, <1>4, <3>1
    <2>4. t # 0 /\ t - 1 \in 0..S
      BY <1>0, <2>2, <2>3
    <2>5. t - 1 \notin T
      <3>1. ~(t <= t - 1)
        BY <1>0, <2>2
      <3>2. QED BY <1>0, <2>1, <3>1
    <2>6. sum[t - 1] = g[t - 1]
      BY <1>0, <2>4, <2>5
    <2> HIDE DEF T
    <2>7. /\ sum[t] = sum[t - 1] + rows[t - 1] * d[t - 1]
          /\ g[t] = g[t - 1] + rows[t - 1] * d[t - 1]
      BY <1>0, <1>3, <1>4, <2>2, <2>4
    <2>8. QED BY <1>0, <2>2, <2>6, <2>7
  <1>5. S \in 0..S /\ ~(S <= a)
    BY <1>0
  <1>6. g[S] = x * d[a]
    BY <1>0, <1>5 DEF g
  <1>7. QED BY <1>3, <1>4, <1>6 DEF PartialSums

\* Once the first tree is done, the first dimension yields the cells of row alpha,
\* each times the payload.
LEMMA ColumnCells ==
  ASSUME Inv, pc = "done", NEW n \in 0..MaxBits, NEW k \in 0..(Shl[n] - 1)
  PROVE  ColumnOf(out, k) = input * Db[alpha][k] /\ ColumnOf(out, k) \in Int
  <1> DEFINE S == Shl[num]
             d == [r \in 0..(S - 1) |-> Db[r][k]]
             sum == CHOOSE f : f = [r \in 0..S |->
                      IF r = 0 THEN 0 ELSE f[r - 1] + out[r - 1] * Db[r - 1][k]]
             same == CHOOSE f : f = [r \in 0..S |->
                       IF r = 0 THEN 0 ELSE f[r - 1] + out[r - 1] * d[r - 1]]
  <1>1. /\ TypeOK /\ num \in 0..MaxBits /\ alpha \in 0..(S - 1) /\ input \in Int
        /\ out \in [0..(S - 1) -> Int]
        /\ out = [r \in 0..(S - 1) |-> IF r = alpha THEN input ELSE 0]
    BY PayloadAssumption DEF Inv, TypeOK, OneHot, Slots
  <1>2. ASSUME NEW m \in 0..MaxBits
        PROVE  Shl[m] \in Nat \ {0} /\ Shl[m] <= Shl[MaxBits] /\ Shl[MaxBits] \in Nat
    <2>1. MaxBits \in Nat /\ MaxBits \in 0..MaxBits
      BY ShlAssumption
    <2>2. QED BY <2>1, ShlMonotone
  <1>3. S \in Nat \ {0} /\ S <= Shl[MaxBits] /\ k \in 0..(Shl[MaxBits] - 1)
        /\ Shl[MaxBits] \in Nat
    BY <1>1, <1>2
  <1> HIDE DEF S
  <1>4. ASSUME NEW r \in 0..(S - 1) PROVE Db[r][k] \in Int /\ d[r] = Db[r][k]
    <2>1. r \in 0..(Shl[MaxBits] - 1)
      BY <1>3
    <2>2. QED BY <1>3, <2>1, DbAssumption
  <1>5. d \in [0..(S - 1) -> Int]
    BY <1>4
  <1>6. sum = same
    <2>1. ASSUME NEW r \in 0..S, r # 0 PROVE Db[r - 1][k] = d[r - 1]
      <3>1. r - 1 \in 0..(S - 1)
        BY <1>3, <2>1
      <3>2. QED BY <1>4, <3>1
    <2> HIDE DEF d
    <2>2. ASSUME NEW f
          PROVE  [r \in 0..S |-> IF r = 0 THEN 0 ELSE f[r - 1] + out[r - 1] * Db[r - 1][k]]
                   = [r \in 0..S |-> IF r = 0 THEN 0 ELSE f[r - 1] + out[r - 1] * d[r - 1]]
      BY <2>1
    <2>3. QED BY <2>2, Zenon
  <1>7. same[S] = input * d[alpha]
    <2> HIDE DEF d
    <2>1. \A r \in 0..(S - 1) : out[r] = IF r = alpha THEN input ELSE 0
      BY <1>1
    <2>2. (\E f : PartialSums(f, S, out, d)) /\ (\A f : PartialSums(f, S, out, d) => f[S] = input * d[alpha])
      <3>1. HotAt(S, alpha, input, out, d)
        BY <1>1, <1>3, <1>5, <2>1 DEF HotAt
      <3>2. QED BY <3>1, OneHotSum
    <2>3. same = CHOOSE f : PartialSums(f, S, out, d)
      BY Zenon DEF PartialSums
    <2> HIDE DEF same
    <2>4. PartialSums(same, S, out, d)
      BY <2>2, <2>3, Zenon
    <2>5. QED BY <2>2, <2>4
  <1>8. ColumnOf(out, k) = sum[S]
    BY Zenon DEF ColumnOf, S
  <1> HIDE DEF sum, same, d
  <1>9. ColumnOf(out, k) = input * Db[alpha][k] /\ Db[alpha][k] \in Int
    BY <1>1, <1>4, <1>6, <1>7, <1>8
  <1>10. \A x, y \in Int : x * y \in Int
    OBVIOUS
  <1>11. QED BY <1>1, <1>9, <1>10

\* The second tree has not been called, or it works on the cells of row alpha.
RowSelected ==
  cpc # "idle" =>
    /\ pc = "done"
    /\ column = [k \in 0..(Shl[colBits] - 1) |-> input * Db[alpha][k]]

\* Both trees are in order, and the second works on what the first one chose.
SelectionInv == Inv /\ CmuxInv /\ RowSelected

\* A step of the first tree leaves the second in order.
LEMMA CMuxStutter ==
  ASSUME CmuxInv, UNCHANGED cmuxVars
  PROVE  CmuxInv'
  BY DEF cmuxVars, CmuxInv, C!TypeOK, C!PairsIntact, C!Slots, C!Survivor, C!half

\* The column handed to the second tree is made of the cells of row alpha.
LEMMA MultiplyInv == SelectionInv /\ Multiply => SelectionInv'
  <1> SUFFICES ASSUME SelectionInv, Multiply PROVE SelectionInv'
    OBVIOUS
  <1>1. PICK n \in 0..MaxBits : \E b \in 0..(Shl[n] - 1) :
          C!Call(n, b, [k \in 0..(Shl[n] - 1) |-> ColumnOf(out, k)])
    BY Zenon DEF Multiply
  <1>2. PICK b \in 0..(Shl[n] - 1) : C!Call(n, b, [k \in 0..(Shl[n] - 1) |-> ColumnOf(out, k)])
    BY <1>1
  <1> DEFINE cells == [k \in 0..(Shl[n] - 1) |-> ColumnOf(out, k)]
  <1>3. cells \in [0..(Shl[n] - 1) -> Int] /\ cells = [k \in 0..(Shl[n] - 1) |-> input * Db[alpha][k]]
    BY ColumnCells DEF SelectionInv, Multiply
  <1> HIDE DEF cells
  <1>4. C!Call(n, b, cells)
    BY <1>2 DEF cells
  <1>5. CmuxInv'
    BY <1>3, <1>4, CmuxCallInv
  <1>6. Inv'
    BY DEF Multiply, SelectionInv, Inv, vars, TypeOK, NodesPlaced, OneHot, Slots, Node, Holds, PathNode
  <1>7. RowSelected'
    <2>1. pc' = "done" /\ input' = input /\ alpha' = alpha
      BY DEF Multiply, vars
    <2>2. colBits' = n /\ column' = cells
      BY <1>4 DEF C!Call
    <2>3. QED BY <1>3, <2>1, <2>2 DEF RowSelected
  <1>8. QED BY <1>5, <1>6, <1>7 DEF SelectionInv

\* The second tree leaves the first, and the column it was given, alone.
LEMMA ReduceInv == SelectionInv /\ Reduce => SelectionInv'
  <1> SUFFICES ASSUME SelectionInv, Reduce PROVE SelectionInv'
    OBVIOUS
  <1>1. (C!ReducePair \/ C!ReduceLast) /\ UNCHANGED vars
    BY DEF Reduce
  <1>2. CmuxInv'
    BY <1>1, CmuxPairInv, CmuxLastInv DEF SelectionInv
  <1>3. Inv'
    BY <1>1 DEF SelectionInv, Inv, vars, TypeOK, NodesPlaced, OneHot, Slots, Node, Holds, PathNode
  <1>4. RowSelected'
    <2>1. cpc # "idle" /\ colBits' = colBits /\ column' = column
      BY <1>1 DEF C!ReducePair, C!ReduceLast
    <2>2. pc' = pc /\ input' = input /\ alpha' = alpha
      BY <1>1 DEF vars
    <2>3. QED BY <2>1, <2>2 DEF RowSelected, SelectionInv
  <1>5. QED BY <1>2, <1>3, <1>4 DEF SelectionInv

\* The first tree runs before the second is called.
LEMMA DistributeInv == SelectionInv /\ Distribute => SelectionInv'
  <1> SUFFICES ASSUME SelectionInv, Distribute PROVE SelectionInv'
    OBVIOUS
  <1>1. Next /\ UNCHANGED cmuxVars
    BY DEF Distribute
  <1>2. Inv'
    BY <1>1, CallInv, ExpandNodeInv, ExpandLastInv DEF SelectionInv, Next
  <1>3. cpc = "idle" /\ cpc' = "idle"
    <2>1. pc # "done"
      BY <1>1 DEF Next, Call, ExpandNode, ExpandLast
    <2>2. QED BY <1>1, <2>1 DEF SelectionInv, RowSelected, cmuxVars
  <1>4. CmuxInv'
    BY <1>1, CMuxStutter DEF SelectionInv
  <1>5. QED BY <1>2, <1>3, <1>4 DEF SelectionInv, RowSelected

\* Between the trees, and in them, everything is in its place.
THEOREM SelectionInvariance == SelectionSpec => []SelectionInv
  <1>1. SelectionInit => SelectionInv
    <2> SUFFICES ASSUME SelectionInit PROVE SelectionInv
      OBVIOUS
    <2>1. Init /\ C!Init
      BY DEF SelectionInit
    <2>2. cpc = "idle"
      BY <2>1 DEF C!Init
    <2>3. CmuxInv
      BY <2>1, CmuxInitInv
    <2>4. QED BY <2>1, <2>2, <2>3, InitInv DEF SelectionInv, RowSelected
  <1>2. SelectionInv /\ [SelectionNext]_<<vars, cmuxVars>> => SelectionInv'
    <2>1. SelectionInv /\ UNCHANGED <<vars, cmuxVars>> => SelectionInv'
      <3> SUFFICES ASSUME SelectionInv, UNCHANGED <<vars, cmuxVars>> PROVE SelectionInv'
        OBVIOUS
      <3>1. UNCHANGED vars /\ UNCHANGED cmuxVars
        OBVIOUS
      <3>2. Inv'
        BY <3>1 DEF SelectionInv, Inv, vars, TypeOK, NodesPlaced, OneHot, Slots, Node, Holds, PathNode
      <3>3. CmuxInv'
        BY <3>1, CMuxStutter DEF SelectionInv
      <3>4. RowSelected'
        BY <3>1 DEF SelectionInv, RowSelected, vars, cmuxVars
      <3>5. QED BY <3>2, <3>3, <3>4 DEF SelectionInv
    <2>2. QED BY <2>1, DistributeInv, MultiplyInv, ReduceInv DEF SelectionNext
  <1>3. QED BY <1>1, <1>2, PTL DEF SelectionSpec

\* The stages 2 to 5 of answer_through_crot select the cell in row alpha and column
\* beta, for every shape of the database, every payload and every content.
THEOREM CellCorrect == SelectionSpec => []CellSelected
  <1>1. SelectionInv => CellSelected
    <2> SUFFICES ASSUME SelectionInv, cpc = "done" PROVE inputs[0] = input * Db[alpha][beta]
      BY DEF CellSelected
    <2>1. inputs[0] = column[beta] /\ beta \in 0..(Shl[colBits] - 1)
      <3>1. C!Selected
        BY SurvivorIsBeta DEF SelectionInv
      <3>2. QED BY <3>1 DEF SelectionInv, CmuxInv, C!Selected, C!TypeOK, C!Slots
    <2>2. column = [k \in 0..(Shl[colBits] - 1) |-> input * Db[alpha][k]]
      BY DEF SelectionInv, RowSelected
    <2>3. QED BY <2>1, <2>2
  <1>2. QED BY <1>1, SelectionInvariance, PTL

-----------------------------------------------------------------------------
(***************************************************************************)
(* The first dimension.                                                    *)
(***************************************************************************)

\* Where the spawn iterator, the handles and the output vector stand.
Bookkeeping ==
  /\ lo = Len(handles) * chunk
  /\ caller = "serial" => Len(results) < cols
  /\ IF goParallel
     THEN /\ caller # "serial"
          /\ caller \in {"join", "returned"} => lo >= cols
          /\ caller = "returned" => joined = Len(handles)
          /\ Len(results) = IF joined = 0 THEN 0 ELSE handles[joined].hi
          /\ \A t \in 1..joined : handles[t].state = "finished"
     ELSE handles = <<>> /\ joined = 0 /\ caller \in {"serial", "returned"}

FirstDimInv ==
  /\ FirstDimTypeOK
  /\ Bookkeeping
  /\ RangesTile
  /\ WorkerProgress
  /\ ResultsSerial
  /\ WorkersBounded

\* Rounding up covers every column, with no empty chunk.
LEMMA ChunkCovers ==
  ASSUME cols \in 1..MaxCols, cpus \in 0..MaxCpus
  PROVE  workers \in Nat \ {0} /\ chunk \in Nat \ {0} /\ cols <= chunk * workers
  <1>1. workers \in Nat \ {0} /\ cols \in Nat \ {0}
    BY FirstDimAssumption DEF workers, SetMin
  <1> DEFINE w == workers
             n == cols + w - 1
             q == n \div w
  <1>2. chunk = q
    BY DEF chunk, DivCeil
  <1> HIDE DEF w
  <1>3. w \in Nat \ {0} /\ n \in Nat
    BY <1>1 DEF w
  <1> HIDE DEF n
  <1>4. q \in Nat /\ n % w \in 0..(w - 1) /\ n = w * q + (n % w)
    BY <1>3, Z3
  <1> HIDE DEF q
  <1>5. w * q = q * w /\ q * w \in Int
    BY <1>3, <1>4
  <1>6. cols <= q * w
    BY <1>1, <1>3, <1>4, <1>5 DEF n
  <1>7. q # 0
    BY <1>1, <1>3, <1>6
  <1>8. QED BY <1>1, <1>2, <1>4, <1>6, <1>7 DEF w

\* Before the first worker is spawned.
THEOREM FirstDimInitInv == FirstDimInit => FirstDimInv
  <1> SUFFICES ASSUME FirstDimInit PROVE FirstDimInv
    OBVIOUS
  <1>1. cols \in 1..MaxCols /\ cpus \in 0..MaxCpus
    BY DEF FirstDimInit
  <1>2. chunk \in Nat /\ workers \in Nat
    BY <1>1, ChunkCovers
  <1>3. FirstDimTypeOK
    BY DEF FirstDimInit, FirstDimTypeOK
  <1>4. Bookkeeping
    BY <1>1, <1>2, FirstDimAssumption DEF FirstDimInit, Bookkeeping
  <1>5. RangesTile /\ WorkerProgress /\ ResultsSerial /\ WorkersBounded
    BY <1>1, <1>2, FirstDimAssumption
       DEF FirstDimInit, RangesTile, WorkerProgress, ResultsSerial, WorkersBounded, SetMin
  <1>6. QED BY <1>3, <1>4, <1>5 DEF FirstDimInv

\* A new worker takes the next range.
THEOREM SpawnInv == FirstDimInv /\ Spawn => FirstDimInv'
  <1> SUFFICES ASSUME FirstDimInv, Spawn PROVE FirstDimInv'
    OBVIOUS
  <1> DEFINE n == Len(handles)
             h == [lo |-> lo, hi |-> hi, out |-> <<>>, state |-> "running"]
             Handle == [lo : Nat, hi : 1..cols, out : Seq(Columns),
                        state : {"running", "finished", "panicked"}]
  <1>1. /\ FirstDimTypeOK /\ Bookkeeping /\ RangesTile /\ WorkerProgress /\ ResultsSerial
        /\ WorkersBounded
    BY DEF FirstDimInv
  <1>2. /\ caller = "spawn" /\ lo < cols /\ lo' = lo + chunk
        /\ UNCHANGED <<cols, cpus, caller, joined, results>>
        /\ handles' = Append(handles, h)
    BY DEF Spawn
  <1>3. goParallel /\ goParallel' /\ chunk' = chunk /\ workers' = workers
    BY <1>1, <1>2 DEF Bookkeeping, goParallel, chunk, workers, work
  <1>4. /\ chunk \in Nat \ {0} /\ workers \in Nat \ {0} /\ cols \in Nat \ {0} /\ lo \in Nat
        /\ cols <= chunk * workers
    BY <1>1, ChunkCovers DEF FirstDimTypeOK
  <1>5. /\ hi \in 1..cols /\ lo < hi /\ hi = SetMin(lo', cols)
    BY <1>2, <1>4 DEF hi, SetMin
  <1>6. handles \in Seq(Handle) /\ n \in Nat /\ joined \in 0..n
    BY <1>1 DEF FirstDimTypeOK
  <1>7. h \in Handle /\ h.lo = lo /\ h.hi = hi /\ h.out = <<>> /\ h.state = "running"
    BY <1>4, <1>5
  <1> HIDE DEF h
  <1>8. /\ handles' \in Seq(Handle) /\ Len(handles') = n + 1
        /\ handles'[n + 1] = h
        /\ \A t \in 1..n : handles'[t] = handles[t]
    BY <1>2, <1>6, <1>7, AppendProperties
  <1>9. FirstDimTypeOK'
    BY <1>1, <1>2, <1>4, <1>6, <1>8 DEF FirstDimTypeOK, Columns
  <1>10. Bookkeeping'
    <2>1. lo' = (n + 1) * chunk
      <3>1. lo = n * chunk
        BY <1>1 DEF Bookkeeping
      <3>2. QED BY <1>2, <1>4, <1>6, <3>1
    <2>2. Len(results)' = IF joined' = 0 THEN 0 ELSE handles'[joined'].hi
      BY <1>1, <1>2, <1>3, <1>6, <1>8 DEF Bookkeeping
    <2>3. \A t \in 1..joined' : handles'[t].state = "finished"
      BY <1>1, <1>2, <1>3, <1>6, <1>8 DEF Bookkeeping
    <2>4. QED BY <1>2, <1>3, <1>8, <2>1, <2>2, <2>3 DEF Bookkeeping
  <1>a. n \in Nat /\ DOMAIN handles = 1..n /\ DOMAIN handles' = 1..(n + 1)
    BY <1>6, <1>8
  <1> HIDE DEF n
  <1>11. RangesTile'
    <2>1. ASSUME NEW t \in 1..(n + 1)
          PROVE  /\ handles'[t].lo < handles'[t].hi
                 /\ handles'[t].lo = IF t = 1 THEN 0 ELSE handles'[t - 1].hi
      <3>1. CASE t \in 1..n
        <4>1. handles'[t] = handles[t] /\ (t # 1 => handles'[t - 1] = handles[t - 1])
          BY <1>8, <1>a, <3>1
        <4>2. QED BY <1>1, <1>a, <3>1, <4>1 DEF RangesTile
      <3>2. CASE t = n + 1
        <4>1. lo = IF n = 0 THEN 0 ELSE handles[n].hi
          <5>1. SetMin(lo, cols) = lo
            BY <1>2, <1>4 DEF SetMin
          <5>2. handles = <<>> <=> n = 0
            BY <1>6, EmptySeq DEF n
          <5>3. QED BY <1>1, <5>1, <5>2 DEF RangesTile, n
        <4>2. t # 1 => handles'[t - 1] = handles[n]
          BY <1>8, <1>a, <3>2
        <4>3. CASE n = 0
          BY <1>5, <1>7, <1>8, <3>2, <4>1, <4>3
        <4>4. CASE n # 0
          BY <1>5, <1>7, <1>8, <1>a, <3>2, <4>1, <4>2, <4>4
        <4>5. QED BY <4>3, <4>4
      <3>3. QED BY <1>a, <3>1, <3>2
    <2>2. handles' # <<>> /\ SetMin(lo', cols') = handles'[Len(handles')].hi
      <3>1. Len(handles') = n + 1 /\ handles'[n + 1].hi = hi
        BY <1>7, <1>8
      <3>2. handles' # <<>>
        BY <1>8, <1>a, EmptySeq
      <3>3. QED BY <1>2, <1>5, <3>1, <3>2
    <2>3. QED BY <1>a, <2>1, <2>2 DEF RangesTile
  <1>12. WorkerProgress'
    <2>1. ASSUME NEW t \in 1..(n + 1)
          PROVE  /\ \A k \in DOMAIN handles'[t].out :
                      handles'[t].out[k] = Column(handles'[t].lo + k - 1)
                 /\ handles'[t].state = "running"
                      => handles'[t].lo + Len(handles'[t].out) < handles'[t].hi
                 /\ handles'[t].state = "finished"
                      => handles'[t].lo + Len(handles'[t].out) = handles'[t].hi
      <3>1. CASE t \in 1..n
        <4>1. handles'[t] = handles[t] /\ t \in DOMAIN handles
          BY <1>8, <1>a, <3>1
        <4>2. QED BY <1>1, <4>1 DEF WorkerProgress
      <3>2. CASE t = n + 1
        BY <1>4, <1>5, <1>7, <1>8, <3>2
      <3>3. QED BY <1>a, <3>1, <3>2
    <2>2. QED BY <1>a, <2>1 DEF WorkerProgress
  <1>13. ResultsSerial'
    BY <1>1, <1>2 DEF ResultsSerial
  <1>14. WorkersBounded'
    <2>1. ASSUME n >= workers PROVE FALSE
      <3>1. lo = n * chunk
        BY <1>1 DEF Bookkeeping, n
      <3> DEFINE w == workers
                 d == chunk
      <3>2. w \in Nat /\ d \in Nat /\ n \in Nat /\ n >= w /\ cols <= d * w
            /\ n * d < cols /\ cols \in Nat
        BY <1>2, <1>4, <1>a, <2>1, <3>1
      <3> HIDE DEF w, d
      <3>3. d * w <= n * d
        BY <3>2, Z3
      <3>4. QED BY <3>2, <3>3
    <2>2. QED BY <1>3, <1>4, <1>a, <1>8, <2>1 DEF WorkersBounded
  <1>15. QED BY <1>9, <1>10, <1>11, <1>12, <1>13, <1>14 DEF FirstDimInv

\* The steps of the caller that touch no worker: the end of the spawn loop and
\* the two ways into and out of the unwinding.
THEOREM CallerMovesInv ==
  FirstDimInv /\ (SpawnFails \/ StartJoin \/ JoinPanicked \/ Unwind \/ Return) => FirstDimInv'
  <1> SUFFICES ASSUME FirstDimInv, SpawnFails \/ StartJoin \/ JoinPanicked \/ Unwind \/ Return
               PROVE  FirstDimInv'
    OBVIOUS
  <1>1. UNCHANGED <<cols, cpus, lo, handles, joined, results>>
    BY DEF SpawnFails, StartJoin, JoinPanicked, Unwind, Return
  <1>2. chunk' = chunk /\ workers' = workers /\ (goParallel <=> goParallel')
    BY <1>1 DEF chunk, workers, work, goParallel
  <1>3. goParallel
    BY DEF FirstDimInv, Bookkeeping, SpawnFails, StartJoin, JoinPanicked, Unwind, Return
  <1>4. FirstDimTypeOK'
    BY <1>1 DEF FirstDimInv, FirstDimTypeOK, Columns, SpawnFails, StartJoin, JoinPanicked, Unwind, Return
  <1>5. Bookkeeping'
    BY <1>1, <1>2, <1>3
       DEF FirstDimInv, Bookkeeping, SpawnFails, StartJoin, JoinPanicked, Unwind, Return
  <1>6. RangesTile' /\ WorkerProgress' /\ WorkersBounded'
    BY <1>1, <1>2 DEF FirstDimInv, RangesTile, WorkerProgress, WorkersBounded
  <1>7. ResultsSerial'
    <2>1. CASE Return
      <3>1. /\ joined = Len(handles) /\ lo >= cols /\ cols \in 1..MaxCols
            /\ handles \in Seq([lo : Nat, hi : 1..cols, out : Seq(Columns),
                                state : {"running", "finished", "panicked"}])
            /\ lo \in Nat
        BY <1>3, <2>1 DEF FirstDimInv, FirstDimTypeOK, Bookkeeping, Return
      <3>2. SetMin(lo, cols) = cols
        BY <3>1 DEF SetMin
      <3>3. handles # <<>> /\ handles[Len(handles)].hi = cols
        BY <3>1, <3>2 DEF FirstDimInv, RangesTile
      <3>4. Len(results) = cols
        BY <1>3, <3>1, <3>3, EmptySeq DEF FirstDimInv, Bookkeeping
      <3>5. QED BY <1>1, <3>4 DEF FirstDimInv, ResultsSerial
    <2>2. CASE SpawnFails \/ StartJoin \/ JoinPanicked \/ Unwind
      BY <1>1, <2>2 DEF FirstDimInv, ResultsSerial, SpawnFails, StartJoin, JoinPanicked, Unwind
    <2>3. QED BY <2>1, <2>2
  <1>8. QED BY <1>4, <1>5, <1>6, <1>7 DEF FirstDimInv

\* A worker changes only its own record, and keeps its range.
LEMMA WorkerRecord ==
  ASSUME FirstDimInv, NEW t \in DOMAIN handles, NEW o \in Seq(Columns),
         NEW s \in {"running", "finished", "panicked"},
         Running(t),
         handles' = [handles EXCEPT ![t].out = o, ![t].state = s],
         UNCHANGED <<cols, cpus, caller, lo, joined, results>>,
         \A k \in DOMAIN o : o[k] = Column(handles[t].lo + k - 1),
         s = "running" => handles[t].lo + Len(o) < handles[t].hi,
         s = "finished" => handles[t].lo + Len(o) = handles[t].hi
  PROVE  FirstDimInv'
  <1> DEFINE n == Len(handles)
             Handle == [lo : Nat, hi : 1..cols, out : Seq(Columns),
                        state : {"running", "finished", "panicked"}]
  <1>1. /\ FirstDimTypeOK /\ Bookkeeping /\ RangesTile /\ WorkerProgress /\ ResultsSerial
        /\ WorkersBounded
    BY DEF FirstDimInv
  <1>2. chunk' = chunk /\ workers' = workers /\ (goParallel <=> goParallel')
    BY DEF chunk, workers, work, goParallel
  <1>3. handles \in Seq(Handle) /\ n \in Nat /\ DOMAIN handles = 1..n /\ t \in 1..n
    <2>1. handles \in Seq(Handle)
      BY <1>1 DEF FirstDimTypeOK
    <2> HIDE DEF Handle
    <2>2. n \in Nat /\ DOMAIN handles = 1..n
      BY <2>1
    <2>3. QED BY <2>1, <2>2
  <1> DEFINE e == [handles[t] EXCEPT !.out = o, !.state = s]
  <1>4. e.lo = handles[t].lo /\ e.hi = handles[t].hi /\ e.out = o /\ e.state = s /\ e \in Handle
    <2>1. handles[t] \in Handle
      BY <1>3, ElementOfSeq
    <2>2. QED BY <2>1
  <1>5. handles' = [handles EXCEPT ![t] = e]
    BY <1>3
  <1> HIDE DEF e, Handle
  <1>6. /\ handles' \in Seq(Handle) /\ Len(handles') = n /\ DOMAIN handles' = 1..n
        /\ handles'[t] = e
        /\ \A u \in 1..n : u # t => handles'[u] = handles[u]
    <2>1. t \in 1..Len(handles)
      BY <1>3
    <2>2. /\ handles' \in Seq(Handle) /\ Len(handles') = Len(handles)
          /\ \A u \in 1..Len(handles) : handles'[u] = IF u = t THEN e ELSE handles[u]
      <3>1. handles \in Seq(Handle) /\ e \in Handle
        BY <1>3, <1>4
      <3>2. /\ [handles EXCEPT ![t] = e] \in Seq(Handle)
            /\ Len([handles EXCEPT ![t] = e]) = Len(handles)
            /\ \A u \in 1..Len(handles) :
                 [handles EXCEPT ![t] = e][u] = IF u = t THEN e ELSE handles[u]
        BY <2>1, <3>1, ExceptSeq
      <3>3. QED BY <1>5, <3>2, Zenon
    <2>3. QED BY <1>3, <2>1, <2>2
  <1>7. \A u \in 1..n : handles'[u].lo = handles[u].lo /\ handles'[u].hi = handles[u].hi
    BY <1>3, <1>4, <1>6
  <1> HIDE DEF n
  <1>8. FirstDimTypeOK'
    BY <1>1, <1>6 DEF FirstDimTypeOK, Columns, Handle, n
  <1>9. Bookkeeping'
    <2>1. \A u \in 1..joined : goParallel => handles[u].state = "finished"
      BY <1>1 DEF Bookkeeping
    <2>2. \A u \in 1..joined : goParallel => u # t
      BY <2>1 DEF Running
    <2>3. joined \in 0..n
      BY <1>1 DEF FirstDimTypeOK, n
    <2>4. goParallel
      BY <1>1, <1>3 DEF Bookkeeping
    <2>5. \A u \in 1..joined : handles'[u].state = "finished"
      BY <1>3, <1>6, <2>1, <2>2, <2>3, <2>4
    <2>6. joined # 0 => handles'[joined].hi = handles[joined].hi
      <3>1. joined # 0 => joined \in 1..n
        BY <1>3, <2>3
      <3>2. QED BY <1>7, <3>1
    <2>7. QED BY <1>1, <1>2, <1>6, <2>4, <2>5, <2>6 DEF Bookkeeping, n
  <1>10. RangesTile'
    <2>1. \A u \in 1..n : /\ handles'[u].lo < handles'[u].hi
                          /\ handles'[u].lo = IF u = 1 THEN 0 ELSE handles'[u - 1].hi
      BY <1>1, <1>3, <1>7 DEF RangesTile
    <2>2. handles' # <<>> /\ handles # <<>> /\ n # 0
      BY <1>3, <1>6, EmptySeq
    <2>3. handles'[Len(handles')].hi = handles[Len(handles)].hi
      <3>1. n \in 1..n
        BY <1>3, <2>2
      <3>2. Len(handles') = n /\ Len(handles) = n
        BY <1>6 DEF n
      <3>3. QED BY <1>7, <3>1, <3>2
    <2>4. QED BY <1>1, <1>6, <2>1, <2>2, <2>3 DEF RangesTile
  <1>11. WorkerProgress'
    <2>1. ASSUME NEW u \in 1..n
          PROVE  /\ \A k \in DOMAIN handles'[u].out :
                      handles'[u].out[k] = Column(handles'[u].lo + k - 1)
                 /\ handles'[u].state = "running"
                      => handles'[u].lo + Len(handles'[u].out) < handles'[u].hi
                 /\ handles'[u].state = "finished"
                      => handles'[u].lo + Len(handles'[u].out) = handles'[u].hi
      <3>1. CASE u = t
        BY <1>4, <1>6, <3>1
      <3>2. CASE u # t
        BY <1>1, <1>3, <1>6, <3>2 DEF WorkerProgress
      <3>3. QED BY <3>1, <3>2
    <2>2. QED BY <1>6, <2>1 DEF WorkerProgress
  <1>12. ResultsSerial' /\ WorkersBounded'
    BY <1>1, <1>2, <1>6 DEF ResultsSerial, WorkersBounded, n
  <1>13. QED BY <1>8, <1>9, <1>10, <1>11, <1>12 DEF FirstDimInv

\* A step of a worker, whether it computes or panics.
THEOREM WorkerInv == ASSUME NEW t \in DOMAIN handles PROVE FirstDimInv /\ Worker(t) => FirstDimInv'
  <1> SUFFICES ASSUME FirstDimInv, Worker(t) PROVE FirstDimInv'
    OBVIOUS
  <1> DEFINE h == handles[t]
  <1>1. /\ FirstDimTypeOK /\ WorkerProgress /\ RangesTile
        /\ handles \in Seq([lo : Nat, hi : 1..cols, out : Seq(Columns),
                            state : {"running", "finished", "panicked"}])
    BY DEF FirstDimInv, FirstDimTypeOK
  <1>2. t \in 1..Len(handles)
    BY <1>1
  <1>3. h \in [lo : Nat, hi : 1..cols, out : Seq(Columns),
               state : {"running", "finished", "panicked"}]
    BY <1>1, <1>2, ElementOfSeq
  <1>4. /\ h.lo \in Nat /\ h.hi \in 1..cols /\ h.out \in Seq(Columns) /\ cols \in Nat
        /\ Running(t)
        /\ UNCHANGED <<cols, cpus, caller, lo, joined, results>>
        /\ \A k \in DOMAIN h.out : h.out[k] = Column(h.lo + k - 1)
        /\ h.lo + Len(h.out) < h.hi
    <2>1. /\ Running(t) /\ h.state = "running"
          /\ UNCHANGED <<cols, cpus, caller, lo, joined, results>>
      BY DEF Worker, Work, WorkerPanics, Running
    <2>2. /\ \A k \in DOMAIN h.out : h.out[k] = Column(h.lo + k - 1)
          /\ h.lo + Len(h.out) < h.hi
      BY <1>1, <2>1 DEF WorkerProgress
    <2>3. cols \in Nat
      BY <1>1, FirstDimAssumption DEF FirstDimTypeOK
    <2>4. QED BY <1>3, <2>1, <2>2, <2>3
  <1>5. CASE Work(t)
    <2> DEFINE c == h.lo + Len(h.out)
               o == Append(h.out, Column(c))
               s == IF c + 1 = h.hi THEN "finished" ELSE "running"
    <2>1. handles' = [handles EXCEPT ![t].out = o, ![t].state = s]
      BY <1>5 DEF Work
    <2>2. c \in 0..(cols - 1) /\ c < h.hi /\ Len(h.out) \in Nat
      BY <1>4
    <2>3. Column(c) \in Columns
      BY <2>2 DEF Columns
    <2> DEFINE vv == Column(c)
    <2> HIDE DEF vv, h
    <2>4. /\ o \in Seq(Columns) /\ Len(o) = Len(h.out) + 1
          /\ \A k \in 1..Len(h.out) : o[k] = h.out[k]
          /\ o[Len(h.out) + 1] = vv
      BY <1>4, <2>3, AppendProperties DEF vv
    <2>5. \A k \in DOMAIN o : o[k] = Column(h.lo + k - 1)
      <3>1. ASSUME NEW k \in 1..(Len(h.out) + 1) PROVE o[k] = Column(h.lo + k - 1)
        <4>1. CASE k \in 1..Len(h.out)
          BY <1>4, <2>4, <4>1
        <4>2. CASE k = Len(h.out) + 1
          <5>1. h.lo + k - 1 = c
            BY <1>4, <2>2, <4>2
          <5>2. QED BY <2>4, <4>2, <5>1 DEF vv
        <4>3. QED BY <2>2, <4>1, <4>2
      <3>2. DOMAIN o = 1..(Len(h.out) + 1)
        BY <2>4
      <3>3. QED BY <3>1, <3>2
    <2> HIDE DEF o
    <2>6. /\ s = "running" => h.lo + Len(o) < h.hi
          /\ s = "finished" => h.lo + Len(o) = h.hi
      <3>1. h.lo + Len(o) = c + 1 /\ c + 1 <= h.hi
        <4>1. h.lo \in Nat /\ h.hi \in Nat /\ Len(h.out) \in Nat /\ c < h.hi
          BY <1>4, <2>2
        <4>2. Len(o) = Len(h.out) + 1
          BY <2>4
        <4> HIDE DEF s
        <4>3. QED BY ONLY <4>1, <4>2
      <3>2. s = IF c + 1 = h.hi THEN "finished" ELSE "running"
        OBVIOUS
      <3>3. c + 1 \in Nat /\ h.hi \in Nat
        BY <1>4, <2>2
      <3> HIDE DEF c, s
      <3>4. QED BY <3>1, <3>2, <3>3
    <2> HIDE DEF s, c
    <2>7. s \in {"running", "finished", "panicked"}
      BY DEF s
    <2>8. QED BY <1>4, <2>1, <2>4, <2>5, <2>6, <2>7, WorkerRecord DEF h
  <1>6. CASE WorkerPanics(t)
    <2> DEFINE o == h.out
               s == "panicked"
    <2>1. handles' = [handles EXCEPT ![t].state = s]
      BY <1>6 DEF WorkerPanics
    <2>2. handles' = [handles EXCEPT ![t].out = o, ![t].state = s]
      BY <1>1, <1>2, <1>3, <2>1
    <2>3. s # "running" /\ s # "finished" /\ s \in {"running", "finished", "panicked"}
      OBVIOUS
    <2> HIDE DEF s
    <2>4. QED BY <1>4, <2>2, <2>3, WorkerRecord
  <1>7. QED BY <1>5, <1>6 DEF Worker

\* Extending the output vector keeps everything that is not about it.
LEMMA ResultsOnly ==
  ASSUME FirstDimInv, UNCHANGED <<cols, cpus, lo, handles>>,
         joined' \in 0..Len(handles), results' \in Seq(Columns),
         caller' \in {"join", "returned", "serial"}
  PROVE  FirstDimTypeOK' /\ RangesTile' /\ WorkerProgress' /\ WorkersBounded'
  <1>1. workers' = workers
    BY DEF workers, work
  <1>2. FirstDimTypeOK'
    BY DEF FirstDimInv, FirstDimTypeOK, Columns
  <1>3. QED BY <1>1, <1>2 DEF FirstDimInv, RangesTile, WorkerProgress, WorkersBounded

\* Joining a handle appends exactly the next range of columns.
THEOREM JoinInv == FirstDimInv /\ Join => FirstDimInv'
  <1> SUFFICES ASSUME FirstDimInv, Join PROVE FirstDimInv'
    OBVIOUS
  <1> DEFINE n == joined + 1
             h == handles[n]
  <1>1. /\ caller = "join" /\ joined < Len(handles) /\ h.state = "finished"
        /\ results' = results \o h.out /\ joined' = n
        /\ UNCHANGED <<cols, cpus, caller, lo, handles>>
    BY DEF Join
  <1>2. /\ handles \in Seq([lo : Nat, hi : 1..cols, out : Seq(Columns),
                            state : {"running", "finished", "panicked"}])
        /\ joined \in Nat /\ results \in Seq(Columns) /\ n \in 1..Len(handles)
        /\ n \in DOMAIN handles
    BY <1>1 DEF FirstDimInv, FirstDimTypeOK
  <1>3. h \in [lo : Nat, hi : 1..cols, out : Seq(Columns),
               state : {"running", "finished", "panicked"}]
    BY <1>2, ElementOfSeq
  <1>4. goParallel /\ Bookkeeping /\ ResultsSerial
    BY <1>1 DEF FirstDimInv, Bookkeeping
  <1>5. Len(results) = h.lo
    <2>1. h.lo = IF n = 1 THEN 0 ELSE handles[n - 1].hi
      BY <1>2 DEF FirstDimInv, RangesTile
    <2>2. n - 1 = joined /\ (n = 1 <=> joined = 0)
      BY <1>2
    <2>3. QED BY <1>4, <2>1, <2>2 DEF Bookkeeping
  <1>6. /\ \A k \in DOMAIN h.out : h.out[k] = Column(h.lo + k - 1)
        /\ h.lo + Len(h.out) = h.hi
    BY <1>1, <1>2 DEF FirstDimInv, WorkerProgress
  <1>7. h.out \in Seq(Columns) /\ h.hi \in Nat /\ h.lo \in Nat /\ Len(h.out) \in Nat
    BY <1>3
  <1> DEFINE o == h.out
             len == Len(results)
  <1> HIDE DEF h, n
  <1>8. /\ results' \in Seq(Columns) /\ Len(results') = len + Len(o)
        /\ \A k \in 1..(len + Len(o)) :
             results'[k] = IF k <= len THEN results[k] ELSE o[k - len]
    BY <1>1, <1>2, <1>7, ConcatProperties
  <1>9. ResultsSerial'
    <2>1. ASSUME NEW k \in 1..(len + Len(o)) PROVE results'[k] = Column(k - 1)
      <3>1. CASE k <= len
        <4>1. k \in DOMAIN results
          BY <1>2, <3>1
        <4>2. QED BY <1>4, <1>8, <3>1, <4>1 DEF ResultsSerial
      <3>2. CASE k > len
        <4>1. k - len \in 1..Len(o) /\ h.lo + (k - len) - 1 = k - 1
          BY <1>5, <1>7, <3>2
        <4>2. o[k - len] = Column(h.lo + (k - len) - 1)
          BY <1>6, <1>7, <4>1
        <4>3. QED BY <1>5, <1>7, <1>8, <3>2, <4>1, <4>2
      <3>3. QED BY <1>5, <1>7, <3>1, <3>2
    <2>2. DOMAIN results' = 1..(len + Len(o))
      BY <1>8
    <2>3. QED BY <1>1, <2>1, <2>2 DEF ResultsSerial
  <1>10. Bookkeeping'
    <2>1. Len(results') = h.hi /\ joined' # 0 /\ handles'[joined'] = h
      BY <1>1, <1>2, <1>5, <1>6, <1>8 DEF h, n
    <2>2. \A u \in 1..joined' : handles'[u].state = "finished"
      <3>1. ASSUME NEW u \in 1..joined' PROVE handles[u].state = "finished"
        <4>1. CASE u \in 1..joined
          BY <1>4, <4>1 DEF Bookkeeping
        <4>2. CASE u = joined + 1
          BY <1>1, <4>2 DEF h, n
        <4>3. QED BY <1>1, <1>2, <4>1, <4>2 DEF n
      <3>2. QED BY <1>1, <3>1
    <2>3. chunk' = chunk /\ goParallel'
      BY <1>1, <1>4 DEF chunk, workers, work, goParallel
    <2>4. QED BY <1>1, <1>4, <2>1, <2>2, <2>3 DEF Bookkeeping
  <1>11. FirstDimTypeOK' /\ RangesTile' /\ WorkerProgress' /\ WorkersBounded'
    BY <1>1, <1>2, <1>8, ResultsOnly
  <1>12. QED BY <1>9, <1>10, <1>11 DEF FirstDimInv

\* The serial loop appends the next column.
THEOREM SerialInv == FirstDimInv /\ SerialColumn => FirstDimInv'
  <1> SUFFICES ASSUME FirstDimInv, SerialColumn PROVE FirstDimInv'
    OBVIOUS
  <1> DEFINE n == Len(results)
             vv == Column(n)
  <1>1. /\ caller = "serial" /\ results' = Append(results, vv)
        /\ caller' = IF n + 1 = cols THEN "returned" ELSE caller
        /\ UNCHANGED <<cols, cpus, lo, handles, joined>>
    BY DEF SerialColumn
  <1>2. /\ ~goParallel /\ Bookkeeping /\ ResultsSerial /\ handles = <<>> /\ joined = 0
        /\ n < cols /\ results \in Seq(Columns) /\ cols \in Nat /\ n \in Nat
    BY <1>1 DEF FirstDimInv, Bookkeeping, FirstDimTypeOK
  <1>3. vv \in Columns
    BY <1>2 DEF Columns
  <1> HIDE DEF vv
  <1>4. /\ results' \in Seq(Columns) /\ Len(results') = n + 1
        /\ \A k \in 1..n : results'[k] = results[k]
        /\ results'[n + 1] = vv
    BY <1>1, <1>2, <1>3, AppendProperties
  <1>5. ResultsSerial'
    <2>1. DOMAIN results' = 1..(n + 1) /\ DOMAIN results = 1..n
      BY <1>2, <1>4
    <2> HIDE DEF n
    <2>2. ASSUME NEW k \in 1..(n + 1) PROVE results'[k] = Column(k - 1)
      <3>1. CASE k \in 1..n
        BY <1>2, <1>4, <2>1, <3>1 DEF ResultsSerial
      <3>2. CASE k = n + 1
        <4>1. k - 1 = n
          BY <1>2, <3>2
        <4>2. QED BY <1>4, <3>2, <4>1 DEF vv
      <3>3. QED BY <1>2, <3>1, <3>2
    <2>3. caller' = "returned" => Len(results') = cols'
      BY <1>1, <1>4
    <2>4. QED BY <2>1, <2>2, <2>3 DEF ResultsSerial
  <1>6. Bookkeeping'
    <2>1. chunk' = chunk /\ ~goParallel'
      BY <1>1, <1>2 DEF chunk, workers, work, goParallel
    <2>2. QED BY <1>1, <1>2, <1>4, <2>1 DEF Bookkeeping
  <1>7. FirstDimTypeOK' /\ RangesTile' /\ WorkerProgress' /\ WorkersBounded'
    BY <1>1, <1>2, <1>4, EmptySeq, ResultsOnly
  <1>8. QED BY <1>5, <1>6, <1>7 DEF FirstDimInv

\* The caller and the workers stay in step.
THEOREM FirstDimInvariance == FirstDimSpec => []FirstDimInv
  <1>1. FirstDimInv /\ [FirstDimNext]_firstDimVars => FirstDimInv'
    <2>1. FirstDimInv /\ UNCHANGED firstDimVars => FirstDimInv'
      BY DEF firstDimVars, FirstDimInv, FirstDimTypeOK, Bookkeeping, RangesTile, WorkerProgress, ResultsSerial,
             WorkersBounded, Columns, chunk, workers, work, goParallel
    <2>2. QED BY <2>1, SpawnInv, CallerMovesInv, WorkerInv, JoinInv, SerialInv DEF FirstDimNext, Caller
  <1>2. QED BY <1>1, FirstDimInitInv, PTL DEF FirstDimSpec

\* The types hold for every J and every number of CPUs (first_dim.rs).
THEOREM FirstDimTypeCorrect == FirstDimSpec => []FirstDimTypeOK
  <1>1. FirstDimInv => FirstDimTypeOK
    BY DEF FirstDimInv
  <1>2. QED BY <1>1, FirstDimInvariance, PTL

\* The chunks tile the columns: none is computed twice, none is skipped.
THEOREM ChunksTile == FirstDimSpec => []RangesTile
  <1>1. FirstDimInv => RangesTile
    BY DEF FirstDimInv
  <1>2. QED BY <1>1, FirstDimInvariance, PTL

\* A worker's vector is always a prefix of the serial answer to its range.
THEOREM WorkersCorrect == FirstDimSpec => []WorkerProgress
  <1>1. FirstDimInv => WorkerProgress
    BY DEF FirstDimInv
  <1>2. QED BY <1>1, FirstDimInvariance, PTL

\* first_dim returns the serial answer under every schedule of its workers.
THEOREM ParallelIsSerial == FirstDimSpec => []ResultsSerial
  <1>1. FirstDimInv => ResultsSerial
    BY DEF FirstDimInv
  <1>2. QED BY <1>1, FirstDimInvariance, PTL

\* The rounded chunk never spawns more workers than planned.
THEOREM NoOversubscription == FirstDimSpec => []WorkersBounded
  <1>1. FirstDimInv => WorkersBounded
    BY DEF FirstDimInv
  <1>2. QED BY <1>1, FirstDimInvariance, PTL

-----------------------------------------------------------------------------
(***************************************************************************)
(* The word arithmetic of one coefficient.                                 *)
(***************************************************************************)

\* Quotient and remainder of an integer by a positive number.
LEMMA IntDivMod ==
  ASSUME NEW x \in Int, NEW d \in Nat \ {0}
  PROVE  /\ x \div d \in Int
         /\ x % d \in 0..(d - 1)
         /\ x = d * (x \div d) + (x % d)
  BY Z3

\* Of a natural number, a natural number.
LEMMA NatDivMod ==
  ASSUME NEW x \in Nat, NEW d \in Nat \ {0}
  PROVE  /\ x \div d \in Nat
         /\ x % d \in 0..(d - 1)
         /\ x = d * (x \div d) + (x % d)
  BY Z3

\* A product with a larger factor is larger.
LEMMA MulMono ==
  ASSUME NEW d \in Nat, NEW a \in Int, NEW b \in Int, a <= b
  PROVE  d * a <= d * b
  BY Z3

\* A quotient and a remainder that fit are the quotient and the remainder.
LEMMA IntDivModUnique ==
  ASSUME NEW x \in Int, NEW d \in Nat \ {0}, NEW k \in Int, NEW r \in 0..(d - 1),
         x = d * k + r
  PROVE  x \div d = k /\ x % d = r
  <1> DEFINE k1 == x \div d
             r1 == x % d
  <1>1. k1 \in Int /\ r1 \in 0..(d - 1) /\ x = d * k1 + r1
    BY IntDivMod
  <1> HIDE DEF k1, r1
  <1>2. ASSUME k1 < k PROVE FALSE
    <2>1. d * (k1 + 1) <= d * k
      BY <1>1, <1>2, MulMono
    <2>2. d * (k1 + 1) = d * k1 + d
      BY <1>1
    <2>3. QED BY <1>1, <2>1, <2>2
  <1>3. ASSUME k < k1 PROVE FALSE
    <2>1. d * (k + 1) <= d * k1
      BY <1>1, <1>3, MulMono
    <2>2. d * (k + 1) = d * k + d
      OBVIOUS
    <2>3. QED BY <1>1, <2>1, <2>2
  <1>4. k1 = k
    BY <1>1, <1>2, <1>3
  <1>5. QED BY <1>1, <1>4 DEF k1, r1

\* A number below the divisor is its own remainder.
LEMMA Small ==
  ASSUME NEW d \in Nat \ {0}, NEW x \in 0..(d - 1)
  PROVE  x % d = x
  <1>1. x = d * 0 + x
    OBVIOUS
  <1>2. QED BY <1>1, IntDivModUnique

\* The double word and its half-words are what the assumptions say.
LEMMA Words ==
  /\ Word \in Nat \ {0}
  /\ HalfWord \in Nat /\ Word = 2 * HalfWord
  /\ DoubleWord \in Nat \ {0} /\ DoubleWord = Word * Word
  <1>1. Word \in Nat \ {0} /\ 2 * HalfWord = Word
    BY ZqAssumption
  <1>2. HalfWord \in Nat
    BY <1>1, NatDivMod DEF HalfWord
  <1>3. Word * Word \in Nat \ {0}
    BY <1>1
  <1>4. QED BY <1>1, <1>2, <1>3 DEF DoubleWord

-----------------------------------------------------------------------------
\* umul128_hi is the high double word of the product, for all operands.
LEMMA UmulHiExact ==
  ASSUME NEW x \in Nat, NEW mu \in Nat
  PROVE  UmulHi(x, mu) = (x * mu) \div DoubleWord
  <1> DEFINE W == Word
             x0 == x % W
             x1 == x \div W
             m0 == mu % W
             m1 == mu \div W
             p00 == x0 * m0
             p01 == x0 * m1
             p10 == x1 * m0
             p11 == x1 * m1
             mid == (p00 \div W) + (p01 % W) + (p10 % W)
             top == p11 + (p01 \div W) + (p10 \div W) + (mid \div W)
             low == W * (mid % W) + (p00 % W)
  <1>1. W \in Nat \ {0} /\ DoubleWord = W * W /\ DoubleWord \in Nat \ {0}
    BY Words
  <1>2. /\ x0 \in Nat /\ x1 \in Nat /\ x = W * x1 + x0
        /\ m0 \in Nat /\ m1 \in Nat /\ mu = W * m1 + m0
    BY <1>1, NatDivMod
  <1>3. UmulHi(x, mu) = top
    BY DEF UmulHi
  <1> HIDE DEF W, x0, x1, m0, m1
  <1>4. p00 \in Nat /\ p01 \in Nat /\ p10 \in Nat /\ p11 \in Nat
    BY <1>2
  <1>5. x * mu = W * (W * p11) + W * p01 + W * p10 + p00
    <2>1. x * mu = (W * x1 + x0) * (W * m1 + m0)
      BY <1>2
    <2>2. (W * x1 + x0) * (W * m1 + m0) = W * (W * (x1 * m1)) + W * (x0 * m1) + W * (x1 * m0) + x0 * m0
      BY <1>1, <1>2
    <2>3. QED BY <2>1, <2>2
  <1> HIDE DEF p00, p01, p10, p11
  <1>6. /\ p00 \div W \in Nat /\ p00 % W \in 0..(W - 1) /\ p00 = W * (p00 \div W) + (p00 % W)
        /\ p01 \div W \in Nat /\ p01 % W \in 0..(W - 1) /\ p01 = W * (p01 \div W) + (p01 % W)
        /\ p10 \div W \in Nat /\ p10 % W \in 0..(W - 1) /\ p10 = W * (p10 \div W) + (p10 % W)
    <2>1. ASSUME NEW p \in Nat
          PROVE  p \div W \in Nat /\ p % W \in 0..(W - 1) /\ p = W * (p \div W) + (p % W)
      BY <1>1, NatDivMod
    <2>2. QED BY <1>4, <2>1
  <1>7. mid \in Nat
    BY <1>1, <1>6
  <1>8. mid \div W \in Nat /\ mid % W \in 0..(W - 1) /\ mid = W * (mid \div W) + (mid % W)
    <2>1. ASSUME NEW p \in Nat
          PROVE  p \div W \in Nat /\ p % W \in 0..(W - 1) /\ p = W * (p \div W) + (p % W)
      BY <1>1, NatDivMod
    <2> HIDE DEF mid
    <2>2. QED BY <1>7, <2>1
  <1>9. x * mu = (W * W) * top + low
    <2> DEFINE a == p00 \div W
               a0 == p00 % W
               b == p01 \div W
               b0 == p01 % W
               c == p10 \div W
               c0 == p10 % W
               k == mid \div W
               k0 == mid % W
    <2>1. /\ a \in Nat /\ a0 \in Nat /\ b \in Nat /\ b0 \in Nat /\ c \in Nat /\ c0 \in Nat
          /\ k \in Nat /\ k0 \in Nat /\ p11 \in Nat /\ W \in Nat
      BY <1>1, <1>4, <1>6, <1>8
    <2>2. a + b0 + c0 = W * k + k0
      BY <1>8
    <2>3. x * mu = W * (W * p11) + W * (W * b + b0) + W * (W * c + c0) + (W * a + a0)
      BY <1>5, <1>6
    <2>4. top = p11 + b + c + k /\ low = W * k0 + a0
      OBVIOUS
    <2> HIDE DEF a, a0, b, b0, c, c0, k, k0, top, low
    <2>5. W * (W * p11) + W * (W * b + b0) + W * (W * c + c0) + (W * a + a0)
            = W * (W * (p11 + b + c)) + W * (a + b0 + c0) + a0
      BY ONLY <2>1
    <2>6. W * (W * (p11 + b + c)) + W * (W * k + k0) + a0 = (W * W) * (p11 + b + c + k) + (W * k0 + a0)
      BY ONLY <2>1
    <2>7. W * (a + b0 + c0) = W * (W * k + k0)
      BY <2>2
    <2>8. QED BY <2>3, <2>4, <2>5, <2>6, <2>7
  <1>10. low \in 0..(W * W - 1)
    <2>1. W * (mid % W) <= W * (W - 1)
      <3>1. mid % W \in Int /\ W - 1 \in Int /\ mid % W <= W - 1
        BY <1>1, <1>8
      <3>2. QED BY <1>1, <3>1, MulMono
    <2>2. W * (W - 1) = W * W - W
      BY <1>1
    <2>3. p00 % W \in 0..(W - 1)
      BY <1>6
    <2>4. W * (mid % W) \in Nat /\ W * W \in Nat
      BY <1>1, <1>8
    <2> DEFINE lhs == W * (mid % W)
               rem == p00 % W
               sq == W * W
               lin == W * (W - 1)
    <2>5. lhs <= lin /\ lin = sq - W /\ rem \in 0..(W - 1) /\ lhs \in Nat /\ sq \in Nat /\ low = lhs + rem
      BY <2>1, <2>2, <2>3, <2>4
    <2> HIDE DEF lhs, rem, sq, lin, low
    <2>6. low \in 0..(sq - 1)
      BY <1>1, <2>5
    <2>7. QED BY <2>6 DEF sq
  <1>11. top \in Nat
    BY <1>4, <1>6, <1>8
  <1>12. x * mu \in Nat
    OBVIOUS
  <1> HIDE DEF top, low
  <1>13. (x * mu) \div (W * W) = top
    BY <1>1, <1>9, <1>10, <1>11, <1>12, IntDivModUnique
  <1>14. QED BY <1>1, <1>3, <1>13

\* barrett_mu is the floor of 2^128 / q, also where q divides 2^128.
LEMMA BarrettMuExact ==
  ASSUME NEW q \in Nat, 2 <= q
  PROVE  /\ BarrettMu(q) \in Nat
         /\ q * BarrettMu(q) <= DoubleWord
         /\ DoubleWord < q * BarrettMu(q) + q
  <1> DEFINE R == DoubleWord
             approx == (R - 1) \div q
             s == (R - 1) % q
  <1>1. R \in Nat \ {0} /\ R - 1 \in Nat /\ q \in Nat \ {0}
    BY Words
  <1> HIDE DEF R
  <1>2. approx \in Nat /\ s \in 0..(q - 1) /\ R - 1 = q * approx + s
    BY <1>1, NatDivMod
  <1>3. BarrettMu(q) = IF (s + 1) % q = 0 THEN approx + 1 ELSE approx
    BY DEF BarrettMu, R
  <1> HIDE DEF approx, s
  <1>4. CASE s + 1 = q
    <2>1. s + 1 = q * 1 + 0 /\ s + 1 \in Int /\ 0 \in 0..(q - 1)
      BY <1>2, <1>4
    <2>2. (s + 1) % q = 0
      BY <2>1, IntDivModUnique
    <2>3. q * (approx + 1) = q * approx + q
      BY <1>2
    <2>4. R = q * (approx + 1)
      BY <1>1, <1>2, <1>4, <2>3
    <2>5. q * (approx + 1) \in Nat
      BY <1>2
    <2>6. QED BY <1>2, <1>3, <2>2, <2>4, <2>5 DEF R
  <1>5. CASE s + 1 # q
    <2>1. s + 1 = q * 0 + (s + 1) /\ s + 1 \in 0..(q - 1)
      BY <1>2, <1>5
    <2>2. (s + 1) % q = s + 1
      BY <2>1, IntDivModUnique
    <2>3. (s + 1) % q # 0
      BY <1>2, <2>2
    <2>4. BarrettMu(q) = approx
      BY <1>3, <2>3
    <2>5. q * approx \in Nat
      BY <1>2
    <2>6. QED BY <1>1, <1>2, <2>1, <2>4, <2>5 DEF R
  <1>6. QED BY <1>4, <1>5

\* The estimate q_hat is the quotient or one less.
LEMMA QHatBounds ==
  ASSUME NEW q \in Nat, 2 <= q, NEW x \in 0..(DoubleWord - 1)
  PROVE  /\ UmulHi(x, BarrettMu(q)) \in Nat
         /\ q * UmulHi(x, BarrettMu(q)) <= x
         /\ x < q * UmulHi(x, BarrettMu(q)) + 2 * q
  <1> DEFINE R == DoubleWord
             mu == BarrettMu(q)
             h == UmulHi(x, mu)
             t == (x * mu) % R
  <1>1. R \in Nat \ {0} /\ x \in Nat /\ x < R
    BY Words
  <1>2. mu \in Nat /\ q * mu <= R /\ R < q * mu + q
    BY BarrettMuExact
  <1> HIDE DEF mu, R
  <1>3. h = (x * mu) \div R
    BY <1>1, <1>2, UmulHiExact DEF R
  <1>4. x * mu \in Nat
    BY <1>1, <1>2
  <1>5. h \in Nat /\ t \in 0..(R - 1) /\ x * mu = R * h + t
    BY <1>1, <1>3, <1>4, NatDivMod
  <1> HIDE DEF h, t
  <1>6. q * h <= x
    <2>1. SUFFICES ASSUME x < q * h PROVE FALSE
      BY <1>1, <1>5
    <2>2. R * (x + 1) <= R * (q * h)
      BY <1>1, <1>5, <2>1, MulMono
    <2>3. R * (q * h) = q * (R * h)
      BY <1>1, <1>5
    <2>4. q * (R * h) <= q * (x * mu)
      BY <1>1, <1>4, <1>5, MulMono
    <2>5. q * (x * mu) = x * (q * mu)
      BY <1>1, <1>2
    <2>6. x * (q * mu) <= x * R
      BY <1>1, <1>2, MulMono
    <2>7. R * (x + 1) = x * R + R
      BY <1>1
    <2>8. QED
      <3> DEFINE a1 == R * (x + 1)
                 a2 == R * (q * h)
                 a3 == q * (R * h)
                 a4 == q * (x * mu)
                 a5 == x * (q * mu)
                 a6 == x * R
      <3>1. a1 \in Int /\ a2 \in Int /\ a3 \in Int /\ a4 \in Int /\ a5 \in Int /\ a6 \in Int
        BY <1>1, <1>2, <1>5
      <3>2. a1 <= a2 /\ a2 = a3 /\ a3 <= a4 /\ a4 = a5 /\ a5 <= a6 /\ a1 = a6 + R
        BY <2>2, <2>3, <2>4, <2>5, <2>6, <2>7
      <3> HIDE DEF a1, a2, a3, a4, a5, a6
      <3>3. QED BY <1>1, <3>1, <3>2
  <1>7. x < q * h + 2 * q
    <2>1. SUFFICES ASSUME q * h + 2 * q <= x PROVE FALSE
      BY <1>1, <1>5
    <2>2. R * (q * h + 2 * q) <= R * x
      BY <1>1, <1>5, <2>1, MulMono
    <2>3. R * (q * h + 2 * q) = q * (R * h + R) + q * R
      BY <1>1, <1>5
    <2>4. q * (x * mu + 1) <= q * (R * h + R)
      BY <1>1, <1>4, <1>5, MulMono
    <2>5. q * (x * mu + 1) = x * (q * mu) + q
      BY <1>1, <1>2
    <2>6. x * R <= x * (q * mu + q)
      BY <1>1, <1>2, MulMono
    <2>7. x * (q * mu + q) = x * (q * mu) + q * x
      BY <1>1, <1>2
    <2>8. q * x <= q * R
      BY <1>1, MulMono
    <2>9. R * x = x * R
      BY <1>1
    <2>10. QED
      <3> DEFINE a1 == R * (q * h + 2 * q)
                 a2 == x * R
                 a3 == q * (R * h + R)
                 a4 == q * (x * mu + 1)
                 a5 == x * (q * mu)
                 a6 == q * x
                 a7 == q * R
                 a8 == x * (q * mu + q)
      <3>1. /\ a1 \in Int /\ a2 \in Int /\ a3 \in Int /\ a4 \in Int /\ a5 \in Int
            /\ a6 \in Int /\ a7 \in Int /\ a8 \in Int
        BY <1>1, <1>2, <1>5
      <3>2. /\ a1 <= a2 /\ a1 = a3 + a7 /\ a4 <= a3 /\ a4 = a5 + q /\ a2 <= a8 /\ a8 = a5 + a6 /\ a6 <= a7
        BY <2>2, <2>3, <2>4, <2>5, <2>6, <2>7, <2>8, <2>9
      <3> HIDE DEF a1, a2, a3, a4, a5, a6, a7, a8
      <3>3. QED BY <3>1, <3>2
  <1>8. QED BY <1>5, <1>6, <1>7 DEF h, mu

\* Barrett reduction is exact for every double word.
LEMMA BarrettExact ==
  ASSUME NEW q \in Nat, 2 <= q, q < HalfWord, NEW x \in 0..(DoubleWord - 1)
  PROVE  BarrettReduce(x, q) = x % q
  <1> DEFINE R == DoubleWord
             h == UmulHi(x, BarrettMu(q))
             p == h * q
             r == x - p
  <1>1. h \in Nat /\ q * h <= x /\ x < q * h + 2 * q
    BY QHatBounds
  <1>2. BarrettReduce(x, q) = CondSub(((x - (p % R)) % R) % Word, q)
    BY DEF BarrettReduce
  <1> HIDE DEF h
  <1>3. p \in Nat /\ p = q * h /\ p <= x /\ x < p + 2 * q
    BY <1>1
  <1>4. R \in Nat \ {0} /\ x \in Nat /\ x < R /\ Word \in Nat \ {0} /\ 2 * q < Word /\ Word <= R
    <2>1. Word <= Word * Word
      BY Words, MulMono
    <2>2. QED BY Words, <2>1
  <1> HIDE DEF p, R
  <1>5. p % R = p
    BY <1>3, <1>4, Small
  <1>6. r \in 0..(2 * q - 1) /\ r \in 0..(R - 1) /\ r \in 0..(Word - 1)
    BY <1>3, <1>4
  <1>7. ((x - (p % R)) % R) % Word = r
    BY <1>4, <1>5, <1>6, Small
  <1>8. CondSub(r, q) = x % q
    <2> HIDE DEF r
    <2>1. x = q * h + r
      BY <1>3, <1>6 DEF r
    <2>2. CASE r < q
      <3>1. x % q = r
        BY <1>1, <1>6, <2>1, <2>2, IntDivModUnique
      <3>2. QED BY <1>6, <2>2, <3>1 DEF CondSub
    <2>3. CASE r >= q
      <3>1. q * (h + 1) = q * h + q
        BY <1>1
      <3>2. x = q * (h + 1) + (r - q) /\ r - q \in 0..(q - 1)
        BY <1>1, <1>6, <2>1, <2>3, <3>1
      <3>3. x % q = r - q
        <4>1. x \in Int /\ q \in Nat \ {0} /\ h + 1 \in Int
          BY <1>1, <1>4
        <4>2. QED BY ONLY <3>2, <4>1, IntDivModUnique
      <3>4. QED BY <1>6, <2>3, <3>3 DEF CondSub
    <2>4. QED BY <1>6, <2>2, <2>3
  <1>9. QED BY <1>2, <1>7, <1>8

-----------------------------------------------------------------------------
\* What the constructors of a modulus guarantee.
LEMMA ModulusFits ==
  ASSUME NEW m \in Moduli
  PROVE  /\ m.q \in Nat \ {0} /\ 2 <= m.q /\ 2 * m.q <= Word
         /\ m.kind \in {"const", "pow2", "dyn"}
         /\ m.kind = "pow2" => m.q \in Pow2
         /\ m.kind = "dyn" => m.q \in Pow2 \/ m.q < HalfWord
         /\ m.kind = "const" => m.q < HalfWord
         /\ m.q \in Pow2 => Word % m.q = 0
  <1>1. /\ m.q \in Nat /\ 2 <= m.q /\ m.kind \in {"const", "pow2", "dyn"}
        /\ m.kind = "pow2" => m.q \in Pow2
        /\ m.kind = "dyn" => m.q \in Pow2 \/ m.q < HalfWord
        /\ m.kind = "const" => m.q < HalfWord
        /\ m.q \in Pow2 => 2 * m.q <= Word /\ Word % m.q = 0
    BY ZqAssumption
  <1>2. m.q < HalfWord => 2 * m.q <= Word
    BY <1>1, Words
  <1>3. QED BY <1>1, <1>2

\* One conditional subtraction reduces a number below twice the modulus.
LEMMA CondSubExact ==
  ASSUME NEW q \in Nat \ {0}, NEW x \in 0..(2 * q - 1)
  PROVE  CondSub(x, q) = x % q
  <1>1. CASE x < q
    BY <1>1, Small DEF CondSub
  <1>2. CASE x >= q
    <2>1. x = q * 1 + (x - q) /\ x - q \in 0..(q - 1) /\ x \in Int
      BY <1>2
    <2>2. x % q = x - q
      BY <2>1, IntDivModUnique
    <2>3. QED BY <1>2, <2>2 DEF CondSub
  <1>3. QED BY <1>1, <1>2

\* Wrapping at a multiple of the modulus does not change the remainder.
LEMMA WrapKeepsMod ==
  ASSUME NEW x \in Int, NEW w \in Nat \ {0}, NEW q \in Nat \ {0}, w % q = 0
  PROVE  (x % w) % q = x % q
  <1> DEFINE k == x \div w
             y == x % w
             l == w \div q
             jj == y \div q
             r == y % q
  <1>1. k \in Int /\ y \in Int /\ x = w * k + y
    BY IntDivMod
  <1>2. l \in Int /\ w = q * l
    BY IntDivMod
  <1> HIDE DEF k, y, l
  <1>3. jj \in Int /\ r \in 0..(q - 1) /\ y = q * jj + r
    BY <1>1, IntDivMod
  <1> HIDE DEF jj, r
  <1>4. x = q * (l * k + jj) + r
    <2>1. w * k = q * (l * k)
      BY <1>1, <1>2
    <2>2. q * (l * k + jj) = q * (l * k) + q * jj
      BY <1>1, <1>2, <1>3
    <2> DEFINE a == w * k
               b == q * (l * k)
               c == q * (l * k + jj)
               d == q * jj
    <2>3. a = b /\ c = b + d /\ x = a + y /\ y = d + r /\ a \in Int /\ b \in Int /\ c \in Int /\ d \in Int
      BY <1>1, <1>2, <1>3, <2>1, <2>2
    <2> HIDE DEF a, b, c, d
    <2>4. x = c + r
      BY <1>3, <2>3
    <2>5. QED BY <2>4 DEF c
  <1>5. l * k + jj \in Int
    BY <1>1, <1>2, <1>3
  <1>6. x % q = r
    BY <1>3, <1>4, <1>5, IntDivModUnique
  <1>7. QED BY <1>6 DEF r, y

\* Negating a remainder and negating the number give the same remainder.
LEMMA NegKeepsMod ==
  ASSUME NEW y \in Int, NEW q \in Nat \ {0}
  PROVE  (0 - (y % q)) % q = (0 - y) % q
  <1> DEFINE k == y \div q
             r == y % q
             n == 0 - r
             z == 0 - y
             jj == n \div q
             s == n % q
  <1>1. k \in Int /\ r \in Int /\ y = q * k + r
    BY IntDivMod
  <1> HIDE DEF k, r
  <1>2. n \in Int /\ n = 0 - r /\ z \in Int /\ z = 0 - y
    BY <1>1
  <1> HIDE DEF n, z
  <1>3. jj \in Int /\ s \in 0..(q - 1) /\ n = q * jj + s
    BY <1>2, IntDivMod
  <1> HIDE DEF jj, s
  <1>4. q * (jj - k) = q * jj - q * k /\ jj - k \in Int
    BY <1>1, <1>3
  <1>5. z = q * (jj - k) + s
    <2> DEFINE a == q * (jj - k)
               b == q * jj
               c == q * k
    <2>1. a = b - c /\ n = b + s /\ y = c + r /\ a \in Int /\ b \in Int /\ c \in Int
      BY <1>1, <1>3, <1>4
    <2> HIDE DEF a, b, c
    <2>2. z = a + s
      BY <1>1, <1>2, <1>3, <2>1
    <2>3. QED BY <2>2 DEF a
  <1>6. z % q = s
    BY <1>2, <1>3, <1>4, <1>5, IntDivModUnique
  <1>7. QED BY <1>6 DEF s, r, n, z

\* Every kind of modulus reduces every double word exactly.
LEMMA ReduceU128Exact ==
  ASSUME NEW m \in Moduli, NEW x \in 0..(DoubleWord - 1)
  PROVE  ReduceU128(m, x) = x % m.q
  <1>1. CASE m.kind = "pow2" \/ (m.kind = "dyn" /\ m.q \in Pow2)
    BY <1>1 DEF ReduceU128, MaskReduce
  <1>2. CASE ~(m.kind = "pow2" \/ (m.kind = "dyn" /\ m.q \in Pow2))
    <2>1. m.q \in Nat /\ 2 <= m.q /\ m.q < HalfWord
      BY <1>2, ModulusFits
    <2>2. BarrettReduce(x, m.q) = x % m.q
      BY <2>1, BarrettExact
    <2>3. QED BY <1>2, <2>2 DEF ReduceU128
  <1>3. QED BY <1>1, <1>2

\* Addition: the sum never wraps, one subtraction is enough.
LEMMA ModAddExact ==
  ASSUME NEW m \in Moduli, NEW a \in 0..(m.q - 1), NEW b \in 0..(m.q - 1)
  PROVE  ModAdd(m, a, b) = (a + b) % m.q
  <1> DEFINE q == m.q
  <1>1. q \in Nat \ {0} /\ 2 * q <= Word /\ Word \in Nat \ {0}
    BY ModulusFits, Words
  <1>2. a + b \in 0..(2 * q - 1) /\ a + b \in 0..(Word - 1)
    BY <1>1
  <1>3. (a + b) % Word = a + b
    BY <1>1, <1>2, Small
  <1>4. CondSub(a + b, q) = (a + b) % q
    BY <1>1, <1>2, CondSubExact
  <1>5. QED BY <1>3, <1>4 DEF ModAdd, MaskReduce

\* Subtraction: an underflow is undone by adding the modulus once.
LEMMA ModSubExact ==
  ASSUME NEW m \in Moduli, NEW a \in 0..(m.q - 1), NEW b \in 0..(m.q - 1)
  PROVE  ModSub(m, a, b) = (a - b) % m.q
  <1> DEFINE q == m.q
             d == a - b
  <1>1. q \in Nat \ {0} /\ 2 * q <= Word /\ Word \in Nat \ {0} /\ (q \in Pow2 => Word % q = 0)
    BY ModulusFits, Words
  <1>2. d \in Int /\ d < q /\ -q < d
    BY <1>1
  <1>3. CASE m.kind = "pow2"
    <2>1. Word % q = 0
      BY <1>1, <1>3, ModulusFits
    <2> HIDE DEF q, d
    <2>2. (d % Word) % q = d % q
      BY <1>1, <1>2, <2>1, WrapKeepsMod
    <2>3. QED BY <1>3, <2>2 DEF ModSub, MaskReduce, d, q
  <1>4. CASE m.kind # "pow2" /\ a < b
    <2> DEFINE u == d + Word
               w == d + q
    <2>1. d = Word * (-1) + u /\ u \in 0..(Word - 1) /\ d = q * (-1) + w /\ w \in 0..(q - 1)
      BY <1>1, <1>4
    <2>2. u + q = Word * 1 + w /\ w \in 0..(Word - 1) /\ u + q \in Int
      BY <1>1, <1>4
    <2> HIDE DEF u, w
    <2>3. d % Word = u /\ d % q = w
      BY <1>1, <1>2, <2>1, IntDivModUnique
    <2>4. (u + q) % Word = w
      BY <1>1, <2>2, IntDivModUnique
    <2>5. QED BY <1>4, <2>3, <2>4 DEF ModSub
  <1>5. CASE m.kind # "pow2" /\ ~(a < b)
    <2>1. d \in 0..(q - 1) /\ d \in 0..(Word - 1)
      BY <1>1, <1>5
    <2>2. d % Word = d /\ d % q = d
      BY <1>1, <2>1, Small
    <2>3. QED BY <1>5, <2>2 DEF ModSub
  <1>6. QED BY <1>3, <1>4, <1>5

\* Negation, of zero too.
LEMMA ModNegExact ==
  ASSUME NEW m \in Moduli, NEW a \in 0..(m.q - 1)
  PROVE  ModNeg(m, a) = (0 - a) % m.q
  <1> DEFINE q == m.q
             d == 0 - a
  <1>1. q \in Nat \ {0} /\ 2 * q <= Word /\ Word \in Nat \ {0}
    BY ModulusFits, Words
  <1>2. d \in Int
    BY <1>1
  <1>3. CASE m.kind = "pow2"
    <2>1. Word % q = 0
      BY <1>3, ModulusFits
    <2> HIDE DEF q, d
    <2>2. (d % Word) % q = d % q
      BY <1>1, <1>2, <2>1, WrapKeepsMod
    <2>3. QED BY <1>3, <2>2 DEF ModNeg, MaskReduce, d, q
  <1>4. CASE m.kind # "pow2" /\ a = 0
    <2>1. d = 0 /\ d \in 0..(q - 1)
      BY <1>1, <1>4
    <2>2. d % q = 0
      BY <1>1, <2>1, Small
    <2>3. QED BY <1>4, <2>2 DEF ModNeg
  <1>5. CASE m.kind # "pow2" /\ a # 0
    <2> DEFINE w == q - a
    <2>1. w \in 0..(q - 1) /\ w \in 0..(Word - 1) /\ d = q * (-1) + w
      BY <1>1, <1>5
    <2> HIDE DEF w
    <2>2. d % q = w /\ w % Word = w
      BY <1>1, <1>2, <2>1, IntDivModUnique, Small
    <2>3. QED BY <1>5, <2>2 DEF ModNeg, w
  <1>6. QED BY <1>3, <1>4, <1>5

\* Multiplication: the double word holds the product.
LEMMA ModMulExact ==
  ASSUME NEW m \in Moduli, NEW a \in 0..(m.q - 1), NEW b \in 0..(m.q - 1)
  PROVE  ModMul(m, a, b) = (a * b) % m.q
  <1>1. m.q \in Nat /\ a \in Nat /\ b \in Nat /\ a < Word /\ b < Word /\ Word \in Nat \ {0}
    BY ModulusFits, Words
  <1>2. a * b <= a * Word /\ Word * a <= Word * (Word - 1) /\ a * Word = Word * a
    BY <1>1, MulMono
  <1>3. Word * (Word - 1) = Word * Word - Word
    BY <1>1
  <1>4. a * b \in Nat /\ a * Word \in Nat
    BY <1>1
  <1>5. a * b \in 0..(DoubleWord - 1)
    <2> DEFINE p == a * b
               s == Word * Word
               t == a * Word
               u == Word * (Word - 1)
    <2>1. p <= t /\ t <= u /\ u = s - Word /\ p \in Nat /\ t \in Nat /\ s \in Nat /\ DoubleWord = s
      BY <1>1, <1>2, <1>3, <1>4 DEF DoubleWord
    <2> HIDE DEF p, s, t, u
    <2>2. p \in 0..(s - 1)
      BY <1>1, <2>1
    <2>3. QED BY <2>1, <2>2 DEF p
  <1>6. QED BY <1>5, ReduceU128Exact DEF ModMul

\* Signed reduction of anything whose absolute value is a word.
LEMMA ReduceI64Exact ==
  ASSUME NEW m \in Moduli, NEW x \in Int, x < Word, -x < Word
  PROVE  ReduceI64(m, x) = x % m.q
  <1> DEFINE q == m.q
  <1>1. q \in Nat \ {0} /\ Word \in Nat \ {0}
    BY ModulusFits, Words
  <1>2. Word <= DoubleWord
    BY Words, MulMono
  <1>3. CASE x < 0
    <2>1. -x \in 0..(DoubleWord - 1) /\ -x \in Int
      BY <1>1, <1>2, <1>3, Words
    <2>2. ReduceU128(m, -x) = (-x) % q
      BY <2>1, ReduceU128Exact
    <2> DEFINE y == -x
               r == y % q
    <2>3. y \in Int /\ 0 - y = x
      BY <2>1
    <2>4. ReduceU128(m, -x) = r
      BY <2>2
    <2> HIDE DEF y
    <2>5. r \in 0..(q - 1)
      BY <1>1, <2>3, IntDivMod
    <2>6. (0 - r) % q = x % q
      BY <1>1, <2>3, NegKeepsMod
    <2> HIDE DEF r
    <2>7. ModNeg(m, r) = (0 - r) % q
      BY <2>5, ModNegExact
    <2>8. ReduceI64(m, x) = ModNeg(m, r)
      BY <1>3, <2>4 DEF ReduceI64
    <2>9. QED BY <2>6, <2>7, <2>8
  <1>4. CASE ~(x < 0)
    <2>1. x \in 0..(DoubleWord - 1)
      BY <1>1, <1>2, <1>4, Words
    <2>2. QED BY <1>4, <2>1, ReduceU128Exact DEF ReduceI64
  <1>5. QED BY <1>3, <1>4

\* A centred representative is no larger than half the modulus.
LEMMA CenteredRange ==
  ASSUME NEW q \in Nat \ {0}, NEW a \in 0..(q - 1)
  PROVE  /\ ToCentered(q, a) \in Int
         /\ 2 * ToCentered(q, a) <= q /\ -q < 2 * ToCentered(q, a)
  <1>1. q \div 2 \in Nat /\ q % 2 \in 0..1 /\ q = 2 * (q \div 2) + (q % 2)
    BY NatDivMod
  <1> DEFINE h == q \div 2
             o == q % 2
  <1> HIDE DEF h, o
  <1>2. h \in Nat /\ o \in 0..1 /\ q = 2 * h + o
    BY <1>1 DEF h, o
  <1>3. ToCentered(q, a) = IF a <= h THEN a ELSE -(q - a)
    BY DEF ToCentered, h
  <1>4. QED BY <1>2, <1>3

\* A centred representative that is small against the new modulus too is its
\* own centred representative there.
LEMMA RekeySmallExact ==
  ASSUME NEW q \in Nat \ {0}, NEW c \in Int, 2 * c < q, -(2 * c) < q
  PROVE  ToCentered(q, c % q) = c
  <1>1. q \div 2 \in Nat /\ q % 2 \in 0..1 /\ q = 2 * (q \div 2) + (q % 2)
    BY NatDivMod
  <1> DEFINE h == q \div 2
             o == q % 2
  <1>2. \A a : ToCentered(q, a) = IF a <= h THEN a ELSE -(q - a)
    BY DEF ToCentered
  <1> HIDE DEF h, o
  <1>3. h \in Nat /\ o \in 0..1 /\ q = 2 * h + o
    BY <1>1 DEF h, o
  <1>4. CASE c >= 0
    <2>1. c \in 0..(q - 1) /\ c <= h
      BY <1>3, <1>4
    <2>2. c % q = c
      BY <2>1, Small
    <2>3. QED BY <1>2, <2>1, <2>2
  <1>5. CASE c < 0
    <2> DEFINE w == c + q
    <2>1. w \in 0..(q - 1) /\ c = q * (-1) + w /\ ~(w <= h) /\ -(q - w) = c
      BY <1>3, <1>5
    <2> HIDE DEF w
    <2>2. c % q = w
      BY <2>1, IntDivModUnique
    <2>3. QED BY <1>2, <2>1, <2>2
  <1>6. QED BY <1>4, <1>5

\* Centring in constant time selects the same value, and the candidate that it
\* computes in vain overflows for a zero at the largest modulus only.
LEMMA CtExact ==
  ASSUME NEW q \in Nat \ {0}, 2 * q <= Word, NEW a \in 0..(q - 1)
  PROVE  /\ ToCenteredCt(q, a) = ToCentered(q, a)
         /\ NegOverflows(q - a) => a = 0 /\ q = HalfWord
  <1>1. HalfWord \in Nat /\ Word = 2 * HalfWord
    BY Words, ZqAssumption
  <1>2. q \div 2 \in Nat /\ q % 2 \in 0..1 /\ q = 2 * (q \div 2) + (q % 2)
    BY NatDivMod
  <1> DEFINE h == q \div 2
             o == q % 2
             n == q - a
  <1>3. /\ ToCentered(q, a) = IF a <= h THEN a ELSE -n
        /\ ToCenteredCt(q, a) = IF a > h THEN NegI64(n) ELSE a
    BY DEF ToCentered, ToCenteredCt
  <1> HIDE DEF h, o
  <1>4. h \in Nat /\ o \in 0..1 /\ q = 2 * h + o
    BY <1>2 DEF h, o
  <1>5. n \in Nat /\ n <= HalfWord /\ (n = HalfWord => a = 0 /\ q = HalfWord)
    BY <1>1
  <1>6. NegOverflows(n) => n = HalfWord
    BY <1>1, <1>5 DEF NegOverflows, AsI64
  <1>7. n # HalfWord => NegI64(n) = -n
    BY <1>1, <1>5, <1>6 DEF NegI64, AsI64
  <1>8. a > h => n # HalfWord
    BY <1>4, <1>5
  <1>9. QED BY <1>3, <1>4, <1>5, <1>6, <1>7, <1>8

-----------------------------------------------------------------------------
\* What one call returns: canonical, exact, and small values kept.
LEMMA CallExact ==
  ASSUME Canonical
  PROVE  /\ \A b \in 0..(mod.q - 1) :
              /\ ModAdd(mod, v, b) = (v + b) % mod.q
              /\ ModSub(mod, v, b) = (v - b) % mod.q
              /\ ModMul(mod, v, b) = (v * b) % mod.q
         /\ ModNeg(mod, v) = (0 - v) % mod.q
         /\ \A x \in Products : x \in Int /\ ReduceU128(mod, x) = x % mod.q
         /\ \A x \in Signed : x \in Int /\ ReduceI64(mod, x) = x % mod.q
  <1>1. mod \in Moduli /\ v \in 0..(mod.q - 1)
    BY DEF Canonical
  <1>2. \A x \in Products : x \in 0..(DoubleWord - 1)
    BY ZqAssumption DEF DoubleWord
  <1>3. \A x \in Signed : x \in Int /\ x < Word /\ -x < Word
    <2>1. Signed \subseteq (-HalfWord)..(HalfWord - 1)
      BY ZqAssumption
    <2>2. HalfWord < Word
      BY Words
    <2>3. QED BY <2>1, <2>2, Words
  <1>4. \A b \in 0..(mod.q - 1) : ModAdd(mod, v, b) = (v + b) % mod.q
    BY <1>1, ModAddExact
  <1>5. \A b \in 0..(mod.q - 1) : ModSub(mod, v, b) = (v - b) % mod.q
    BY <1>1, ModSubExact
  <1>6. \A b \in 0..(mod.q - 1) : ModMul(mod, v, b) = (v * b) % mod.q
    BY <1>1, ModMulExact
  <1>7. ModNeg(mod, v) = (0 - v) % mod.q
    BY <1>1, ModNegExact
  <1>8. \A x \in Products : x \in Int /\ ReduceU128(mod, x) = x % mod.q
    BY <1>1, <1>2, ReduceU128Exact, Words
  <1>9. \A x \in Signed : x \in Int /\ ReduceI64(mod, x) = x % mod.q
    BY <1>1, <1>3, ReduceI64Exact
  <1>10. QED BY <1>4, <1>5, <1>6, <1>7, <1>8, <1>9

\* What rekeying one coefficient returns.
LEMMA RekeyExact ==
  ASSUME Canonical, NEW n \in Moduli
  PROVE  LET c == ToCentered(mod.q, v)
         IN  c \in Int /\ ReduceI64(n, ToCenteredCt(mod.q, v)) = c % n.q
  <1> DEFINE c == ToCentered(mod.q, v)
  <1>1. mod.q \in Nat \ {0} /\ 2 * mod.q <= Word /\ v \in 0..(mod.q - 1) /\ Word \in Nat
    BY ModulusFits, Words DEF Canonical
  <1>2. c \in Int /\ 2 * c <= mod.q /\ -mod.q < 2 * c
    BY <1>1, CenteredRange
  <1>3. ToCenteredCt(mod.q, v) = c
    BY <1>1, CtExact
  <1> HIDE DEF c
  <1>4. c < Word /\ -c < Word
    BY <1>1, <1>2
  <1>5. ReduceI64(n, c) = c % n.q
    BY <1>2, <1>4, ReduceI64Exact
  <1>6. QED BY <1>2, <1>3, <1>5 DEF c

\* Remainders are canonical.
LEMMA RemainderCanonical ==
  ASSUME NEW m \in Moduli, NEW x \in Int
  PROVE  x % m.q \in 0..(m.q - 1)
  BY ModulusFits, IntDivMod

\* A step keeps the coefficient canonical and returns what it should.
LEMMA ZqStep ==
  ASSUME Canonical, ZqNext
  PROVE  Canonical' /\ Exact' /\ RekeyKeepsSmall'
  <1>1. mod \in Moduli /\ v \in 0..(mod.q - 1) /\ v \in Int /\ mod.q \in Nat
    BY ModulusFits DEF Canonical
  <1>2. ASSUME NEW b \in 0..(mod.q - 1), Begin("add", b, ModAdd(mod, v, b))
        PROVE  Canonical' /\ Exact' /\ RekeyKeepsSmall'
    <2>1. v' = (v + b) % mod.q /\ v + b \in Int
      BY <1>1, <1>2, CallExact DEF Begin
    <2>2. v' \in 0..(mod.q - 1)
      BY <1>1, <2>1, RemainderCanonical
    <2>3. QED BY <1>1, <1>2, <2>1, <2>2 DEF Begin, Canonical, Exact, RekeyKeepsSmall
  <1>3. ASSUME NEW b \in 0..(mod.q - 1), Begin("sub", b, ModSub(mod, v, b))
        PROVE  Canonical' /\ Exact' /\ RekeyKeepsSmall'
    <2>1. v' = (v - b) % mod.q /\ v - b \in Int
      BY <1>1, <1>3, CallExact DEF Begin
    <2>2. v' \in 0..(mod.q - 1)
      BY <1>1, <2>1, RemainderCanonical
    <2>3. QED BY <1>1, <1>3, <2>1, <2>2 DEF Begin, Canonical, Exact, RekeyKeepsSmall
  <1>4. ASSUME NEW b \in 0..(mod.q - 1), Begin("mul", b, ModMul(mod, v, b))
        PROVE  Canonical' /\ Exact' /\ RekeyKeepsSmall'
    <2>1. v' = (v * b) % mod.q /\ v * b \in Int
      BY <1>1, <1>4, CallExact DEF Begin
    <2>2. v' \in 0..(mod.q - 1)
      BY <1>1, <2>1, RemainderCanonical
    <2>3. QED BY <1>1, <1>4, <2>1, <2>2 DEF Begin, Canonical, Exact, RekeyKeepsSmall
  <1>5. CASE NegCall
    <2>1. v' = (0 - v) % mod.q /\ 0 - v \in Int
      BY <1>1, <1>5, CallExact DEF NegCall, Begin
    <2>2. v' \in 0..(mod.q - 1)
      BY <1>1, <2>1, RemainderCanonical
    <2>3. QED BY <1>1, <1>5, <2>1, <2>2 DEF NegCall, Begin, Canonical, Exact, RekeyKeepsSmall
  <1>6. ASSUME NEW x \in Products, Begin("reduce_u128", x, ReduceU128(mod, x))
        PROVE  Canonical' /\ Exact' /\ RekeyKeepsSmall'
    <2>1. v' = x % mod.q /\ x \in Int
      BY <1>6, CallExact DEF Begin
    <2>2. v' \in 0..(mod.q - 1)
      BY <1>1, <2>1, RemainderCanonical
    <2>3. QED BY <1>1, <1>6, <2>1, <2>2 DEF Begin, Canonical, Exact, RekeyKeepsSmall
  <1>7. ASSUME NEW x \in Signed, Begin("reduce_i64", x, ReduceI64(mod, x))
        PROVE  Canonical' /\ Exact' /\ RekeyKeepsSmall'
    <2>1. v' = x % mod.q /\ x \in Int
      BY <1>7, CallExact DEF Begin
    <2>2. v' \in 0..(mod.q - 1)
      BY <1>1, <2>1, RemainderCanonical
    <2>3. QED BY <1>1, <1>7, <2>1, <2>2 DEF Begin, Canonical, Exact, RekeyKeepsSmall
  <1>8. CASE Rekey
    <2> DEFINE c == ToCentered(mod.q, v)
    <2>1. /\ mod' \in Moduli /\ v' = ReduceI64(mod', ToCenteredCt(mod.q, v))
          /\ call' = [op |-> "rekey", on |-> v, arg |-> mod.q]
      BY <1>8 DEF Rekey
    <2>2. c \in Int /\ v' = c % mod'.q
      BY <2>1, RekeyExact
    <2>3. v' \in 0..(mod'.q - 1)
      BY <2>1, <2>2, RemainderCanonical
    <2>4. Canonical'
      BY <2>1, <2>3 DEF Canonical
    <2>5. Exact'
      BY <2>1, <2>2 DEF Exact
    <2>6. RekeyKeepsSmall'
      <3>1. (2 * c < mod'.q /\ -(2 * c) < mod'.q) => ToCentered(mod'.q, v') = c
        <4> HIDE DEF c
        <4>1. mod'.q \in Nat \ {0}
          BY <2>1, ModulusFits
        <4>2. QED BY <2>2, <4>1, RekeySmallExact
      <3>2. c = ToCentered(call'.arg, call'.on)
        BY <2>1
      <3>3. call'.op = "rekey"
        BY <2>1
      <3>4. QED BY <3>1, <3>2, <3>3 DEF RekeyKeepsSmall
    <2>7. QED BY <2>4, <2>5, <2>6
  <1>9. CASE RekeyPanics
    <2>1. /\ call' = [op |-> "panic", on |-> v, arg |-> mod.q]
          /\ mod' = mod /\ v' = v /\ NegOverflows(mod.q - v)
      BY <1>9 DEF RekeyPanics
    <2>2. call'.op = "panic" /\ call'.on = v /\ call'.arg = mod.q
      BY <2>1
    <2>3. v = 0 /\ mod.q = HalfWord
      BY <1>1, <2>1, ModulusFits, CtExact
    <2>4. QED BY <1>1, <2>1, <2>2, <2>3 DEF Canonical, Exact, RekeyKeepsSmall
  <1>10. CASE EndCall
    BY <1>10 DEF EndCall, NoCall, Canonical, Exact, RekeyKeepsSmall
  <1>11. QED BY <1>2, <1>3, <1>4, <1>5, <1>6, <1>7, <1>8, <1>9, <1>10
       DEF ZqNext, AddCall, SubCall, MulCall, ReduceU128Call, ReduceI64Call

\* The invariant: exactness of the last result is preserved because every step
\* that changes the coefficient also starts a call.
ZqInv == Canonical /\ Exact /\ RekeyKeepsSmall

\* It holds at the start, where no call has been made.
LEMMA ZqInitInv == ZqInit => ZqInv
  <1>1. SUFFICES ASSUME ZqInit PROVE ZqInv
    OBVIOUS
  <1>2. mod \in Moduli /\ 0 \in 0..(mod.q - 1)
    BY <1>1, ModulusFits DEF ZqInit
  <1>3. QED BY <1>1, <1>2 DEF ZqInit, ZqInv, Canonical, Exact, RekeyKeepsSmall, NoCall

\* Every call preserves all three properties.
LEMMA ZqStepInv == ZqInv /\ [ZqNext]_zqVars => ZqInv'
  <1>1. ASSUME ZqInv, ZqNext PROVE ZqInv'
    BY <1>1, ZqStep DEF ZqInv
  <1>2. ASSUME ZqInv, UNCHANGED zqVars PROVE ZqInv'
    BY <1>2 DEF ZqInv, zqVars, Canonical, Exact, RekeyKeepsSmall
  <1>3. QED BY <1>1, <1>2

\* So they hold of every reachable coefficient.
LEMMA ZqSpecInv == ZqSpec => []ZqInv
  BY ZqInitInv, ZqStepInv, PTL DEF ZqSpec

\* For every word size and every admissible modulus, a stored coefficient is
\* canonical after any sequence of operations (modulus.rs).
THEOREM AlwaysCanonical == ZqSpec => []Canonical
  <1>1. ZqInv => Canonical
    BY DEF ZqInv
  <1>2. QED BY <1>1, ZqSpecInv, PTL

\* Every operation of every kind of modulus is exact: wrap-around, truncation
\* and the estimated Barrett quotient never show (modulus.rs, reduce.rs).
THEOREM AlwaysExact == ZqSpec => []Exact
  <1>1. ZqInv => Exact
    BY DEF ZqInv
  <1>2. QED BY <1>1, ZqSpecInv, PTL

\* Rekeying keeps the value of every coefficient small against both moduli, and
\* returns unless a debug build centres a zero at the modulus 2^63 (rekey.rs,
\* modulus.rs).
THEOREM RekeyPreserves == ZqSpec => []RekeyKeepsSmall
  <1>1. ZqInv => RekeyKeepsSmall
    BY DEF ZqInv
  <1>2. QED BY <1>1, ZqSpecInv, PTL
=============================================================================
