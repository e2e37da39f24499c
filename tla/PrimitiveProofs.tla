--------------------------- MODULE PrimitiveProofs ---------------------------
(***************************************************************************)
(* The primitives of via-primitives that run on their own.                 *)
(*                                                                         *)
(* Prg, Sampling, Wire: Shake256Prg implements ByteStream, for every block *)
(* length, every block function and every sequence of calls; its rejection *)
(* sampling is unbiased, for every width of words and bytes and every      *)
(* bound; the samplers read their samples one by one from the stream, and  *)
(* the codec returns the vector that was encoded, for every packet.        *)
(*                                                                         *)
(* Ntt: for every degree and every prime modulus the search finds a root   *)
(* whose odd powers are the roots of X^N + 1, every lane holds its residue *)
(* between any two butterflies, and the product is the negacyclic one.     *)
(***************************************************************************)
EXTENDS Wire, Ntt, SequenceTheorems, FiniteSetTheorems, TLAPS

\* What is handed out was squeezed: the abstract offset is never negative.
Squeezed == Len(out) <= Consumed

Inv == TypeOK /\ BufferCurrent /\ Squeezed /\ OutContinues

\* A quotient and a remainder that fit are the quotient and the remainder.
LEMMA DivModUnique ==
  ASSUME NEW x \in Nat, NEW d \in Nat \ {0}, NEW q \in Nat, NEW r \in 0..(d - 1),
         x = q * d + r
  PROVE  x \div d = q /\ x % d = r
  <1> DEFINE q1 == x \div d
             r1 == x % d
  <1>1. q1 \in Nat /\ r1 \in 0..(d - 1) /\ x = d * q1 + r1
    BY Z3
  <1> HIDE DEF q1, r1
  <1>2. ASSUME q1 < q PROVE FALSE
    <2>1. d * (q1 + 1) <= d * q
      BY <1>1, <1>2, Z3
    <2>2. QED BY <1>1, <2>1, Z3
  <1>3. ASSUME q < q1 PROVE FALSE
    <2>1. d * (q + 1) <= d * q1
      BY <1>1, <1>3, Z3
    <2>2. QED BY <1>1, <2>1, Z3
  <1>4. q1 = q
    BY <1>1, <1>2, <1>3, Z3
  <1>5. QED BY <1>1, <1>4, Z3 DEF q1, r1

\* Byte r of block q is byte q * BLOCK_LEN + r of the stream.
LEMMA StreamAt ==
  ASSUME NEW q \in Nat, NEW r \in 0..(BLOCK_LEN - 1)
  PROVE  /\ q * BLOCK_LEN + r \in Nat
         /\ Stream[q * BLOCK_LEN + r] = Block[q][r]
  <1> DEFINE x == q * BLOCK_LEN + r
  <1>1. BLOCK_LEN \in Nat \ {0}
    BY PrgAssumption
  <1>2. x \in Nat
    BY <1>1, Z3
  <1>3. x \div BLOCK_LEN = q /\ x % BLOCK_LEN = r
    BY <1>1, <1>2, DivModUnique
  <1> HIDE DEF x
  <1>4. Stream[x] = Block[x \div BLOCK_LEN][x % BLOCK_LEN]
    BY <1>2 DEF Stream
  <1>5. QED BY <1>2, <1>3, <1>4 DEF x

\* How many bytes the blocks before the cursor hold.
LEMMA ConsumedType ==
  ASSUME TypeOK, BufferCurrent
  PROVE  /\ Consumed \in Nat
         /\ counter = 0 => Consumed = 0
  <1>1. BLOCK_LEN \in Nat \ {0} /\ pos \in 0..BLOCK_LEN /\ counter \in Nat
    BY PrgAssumption DEF TypeOK
  <1>2. CASE counter = 0
    BY <1>1, <1>2 DEF BufferCurrent, Consumed
  <1>3. CASE counter # 0
    <2>1. counter - 1 \in Nat
      BY <1>1, <1>3
    <2> DEFINE c == counter - 1
               b == BLOCK_LEN
    <2>2. c \in Nat /\ b \in Nat
      BY <1>1, <2>1
    <2> HIDE DEF c, b
    <2>3. c * b \in Nat
      BY <2>2, Z3
    <2>4. QED BY <1>1, <1>3, <2>3 DEF Consumed, c, b
  <1>4. QED BY <1>2, <1>3

\* Copying from byte `from` of block q continues the stream, when the call's
\* bytes so far end just before it.
LEMMA ReadContinues ==
  ASSUME NEW q \in 0..(MaxBlocks - 1), NEW from \in 0..(BLOCK_LEN - 1),
         TypeOK, BufferCurrent, Squeezed, OutContinues,
         Len(out) < want,
         Consumed = q * BLOCK_LEN + from,
         Read(Block[q], from),
         want' = want
  PROVE  /\ pos' \in 0..BLOCK_LEN
         /\ out' \in Seq(Byte)
         /\ Len(out') <= want /\ Len(out') \in Nat
         /\ Len(out') <= q * BLOCK_LEN + pos'
         /\ q * BLOCK_LEN + pos' - Len(out') = Consumed - Len(out)
         /\ \A k \in 1..Len(out') : out'[k] = Stream[Consumed - Len(out) + k - 1]
  <1> DEFINE n == Len(out)
             take == Least(want - n, BLOCK_LEN - from)
             add == [k \in 1..take |-> Block[q][from + k - 1]]
             origin == q * BLOCK_LEN
  <1>1. /\ BLOCK_LEN \in Nat \ {0} /\ MaxBlocks \in Nat /\ q \in Nat /\ from \in Nat
        /\ Block[q] \in [0..(BLOCK_LEN - 1) -> Byte]
    BY PrgAssumption
  <1>2. out \in Seq(Byte) /\ n \in Nat /\ want \in Nat /\ n < want
    BY DEF TypeOK
  <1>3. origin \in Nat
    BY <1>1, Z3
  <1>4. take \in Nat /\ take <= want - n /\ take <= BLOCK_LEN - from
    BY <1>1, <1>2 DEF Least
  <1>5. out' = out \o add /\ pos' = from + take
    BY DEF Read
  <1> HIDE DEF take, origin
  <1>6. add \in Seq(Byte) /\ Len(add) = take
    <2>1. \A k \in 1..take : from + k - 1 \in 0..(BLOCK_LEN - 1)
      BY <1>1, <1>4
    <2>2. \A k \in 1..take : Block[q][from + k - 1] \in Byte
      BY <1>1, <2>1
    <2>3. QED BY <1>4, <2>2
  <1> HIDE DEF add
  <1>7. /\ out' \in Seq(Byte) /\ Len(out') = n + take
        /\ \A k \in 1..(n + take) : out'[k] = IF k <= n THEN out[k] ELSE add[k - n]
    <2>1. out \in Seq(Byte) /\ Len(out) = n
      BY <1>2
    <2>2. /\ out \o add \in Seq(Byte) /\ Len(out \o add) = n + take
          /\ \A k \in 1..(n + take) : (out \o add)[k] = IF k <= n THEN out[k] ELSE add[k - n]
      BY <1>6, <2>1, ConcatProperties
    <2>3. QED BY <1>5, <2>2
  <1>8. Consumed = origin + from
    BY DEF origin
  <1>9. ASSUME NEW k \in 1..(n + take)
        PROVE  out'[k] = Stream[Consumed - n + k - 1]
    <2>1. CASE k <= n
      <3>1. k \in 1..n
        BY <1>2, <1>4, <2>1
      <3>2. QED BY <1>7, <2>1, <3>1 DEF OutContinues
    <2>2. CASE k > n
      <3> DEFINE r == from + (k - n) - 1
      <3>1. k - n \in 1..take /\ r \in 0..(BLOCK_LEN - 1)
        BY <1>1, <1>2, <1>4, <2>2
      <3>2. out'[k] = Block[q][r]
        <4>1. out'[k] = add[k - n]
          BY <1>2, <1>7, <2>2
        <4>2. add[k - n] = Block[q][r]
          BY <3>1 DEF add
        <4>3. QED BY <4>1, <4>2
      <3>3. origin + r = Consumed - n + k - 1
        BY <1>1, <1>2, <1>3, <1>4, <1>8, <2>2
      <3> HIDE DEF r
      <3>4. Stream[origin + r] = Block[q][r]
        BY <1>1, <3>1, StreamAt DEF origin
      <3>5. QED BY <3>2, <3>3, <3>4
    <2>3. QED BY <1>2, <1>4, <2>1, <2>2
  <1>10. Len(out') <= origin + pos' /\ origin + pos' - Len(out') = Consumed - n
    <2>1. n <= Consumed
      BY DEF Squeezed
    <2>2. n \in Nat /\ take \in Nat /\ from \in Nat
      BY <1>1, <1>2, <1>4
    <2>3. Len(out') = n + take /\ pos' = from + take
      BY <1>5, <1>7
    <2> HIDE DEF n
    <2>4. QED BY ONLY <1>3, <1>8, <2>1, <2>2, <2>3
  <1>11. QED BY <1>1, <1>2, <1>4, <1>5, <1>7, <1>9, <1>10 DEF origin

THEOREM InitInv == Init => Inv
  <1> SUFFICES ASSUME Init PROVE Inv
    OBVIOUS
  <1>1. BLOCK_LEN \in Nat \ {0} /\ MaxBlocks \in Nat /\ 0 \in Byte
    BY PrgAssumption, SamplingAssumption DEF Byte
  <1>2. TypeOK
    <2>1. buffer \in [0..(BLOCK_LEN - 1) -> Byte] /\ pos \in 0..BLOCK_LEN
      BY <1>1 DEF Init
    <2>2. out \in Seq(Byte) /\ Len(out) = 0 /\ result \in Seq(Nat)
      BY EmptySeq DEF Init
    <2>3. /\ counter \in 0..MaxBlocks /\ want \in Nat /\ bound \in {0} \cup Bounds
      BY <1>1 DEF Init
    <2>6. busy \in BOOLEAN
      BY DEF Init
    <2>4. Len(out) <= want /\ (~busy => out = <<>>)
      BY <2>2 DEF Init
    <2>5. QED BY <2>1, <2>2, <2>3, <2>4, <2>6 DEF TypeOK
  <1>3. BufferCurrent /\ Squeezed /\ OutContinues
    BY <1>1 DEF Init, BufferCurrent, Squeezed, OutContinues, Consumed
  <1>4. QED BY <1>2, <1>3 DEF Inv

\* What one turn of the copying loop does to the invariant and to the abstract
\* stream: it does not move it.
LEMMA LoopTurn ==
  ASSUME Inv, RefillAndCopy \/ Copy
  PROVE  /\ Inv'
         /\ UNCHANGED <<Consumed - Len(out), want, bound, busy, result>>
  <1> DEFINE q == IF pos >= BLOCK_LEN THEN counter ELSE counter - 1
             from == IF pos >= BLOCK_LEN THEN 0 ELSE pos
  <1>1. /\ BLOCK_LEN \in Nat \ {0} /\ MaxBlocks \in Nat
        /\ pos \in 0..BLOCK_LEN /\ counter \in 0..MaxBlocks
        /\ out \in Seq(Byte) /\ Len(out) \in Nat /\ want \in Nat /\ Len(out) < want
        /\ busy \in BOOLEAN /\ busy
    BY PrgAssumption DEF Inv, TypeOK, RefillAndCopy, Copy
  <1>2. TypeOK /\ BufferCurrent /\ Squeezed /\ OutContinues
    BY DEF Inv
  <1>3. /\ q \in 0..(MaxBlocks - 1) /\ from \in 0..(BLOCK_LEN - 1)
        /\ counter' = q + 1 /\ buffer' = Block[q]
        /\ Read(Block[q], from)
        /\ UNCHANGED <<want, bound, busy, result>>
    <2>1. CASE RefillAndCopy
      BY <1>1, <2>1 DEF RefillAndCopy
    <2>2. CASE Copy
      <3>1. pos < BLOCK_LEN /\ Read(buffer, pos)
            /\ UNCHANGED <<counter, buffer, want, bound, busy, result>>
        BY <2>2 DEF Copy
      <3>2. counter # 0 /\ buffer = Block[counter - 1]
        BY <1>1, <1>2, <3>1 DEF BufferCurrent
      <3>3. QED BY <1>1, <3>1, <3>2
    <2>3. QED BY <2>1, <2>2
  <1>4. Consumed = q * BLOCK_LEN + from
    <2>1. CASE pos >= BLOCK_LEN
      <3> DEFINE b == BLOCK_LEN
      <3>1. b \in Nat /\ counter \in Nat /\ pos = b
        BY <1>1, <2>1
      <3> HIDE DEF b
      <3>2. (counter - 1) * b + b = counter * b + 0
        BY <3>1, Z3
      <3>3. QED BY <2>1, <3>1, <3>2 DEF Consumed, b
    <2>2. CASE pos < BLOCK_LEN
      BY <1>1, <2>2 DEF Consumed
    <2>3. QED BY <1>1, <2>1, <2>2
  <1> HIDE DEF q, from
  <1>5. /\ pos' \in 0..BLOCK_LEN
        /\ out' \in Seq(Byte)
        /\ Len(out') <= want /\ Len(out') \in Nat
        /\ Len(out') <= q * BLOCK_LEN + pos'
        /\ q * BLOCK_LEN + pos' - Len(out') = Consumed - Len(out)
        /\ \A k \in 1..Len(out') : out'[k] = Stream[Consumed - Len(out) + k - 1]
    <2>1. want' = want
      BY <1>3
    <2>2. QED BY <1>1, <1>2, <1>3, <1>4, <2>1, ReadContinues
  <1>6. Consumed' = q * BLOCK_LEN + pos'
    <2>1. counter' - 1 = q
      BY <1>1, <1>3
    <2>2. QED BY <2>1 DEF Consumed
  <1>7. (Consumed - Len(out))' = Consumed - Len(out)
    <2> DEFINE origin == q * BLOCK_LEN
    <2>1. origin \in Nat
      BY <1>1, <1>3
    <2> HIDE DEF origin
    <2>2. origin + pos' - Len(out') = Consumed - Len(out) /\ Consumed' = origin + pos'
      BY <1>5, <1>6 DEF origin
    <2>3. QED BY <1>1, <1>5, <2>1, <2>2
  <1>8. TypeOK'
    <2>1. buffer' \in [0..(BLOCK_LEN - 1) -> Byte]
      BY <1>3, PrgAssumption
    <2>2. counter' \in 0..MaxBlocks
      BY <1>1, <1>3
    <2>3. QED BY <1>1, <1>2, <1>3, <1>5, <2>1, <2>2 DEF TypeOK
  <1>9. BufferCurrent'
    BY <1>1, <1>3 DEF BufferCurrent
  <1>10. Squeezed'
    BY <1>5, <1>6 DEF Squeezed
  <1>11. OutContinues'
    <2>1. \A k \in 1..Len(out') : out'[k] = Stream[Consumed' - Len(out') + k - 1]
      BY <1>5, <1>7
    <2>2. QED BY <2>1 DEF OutContinues, Stream
  <1>12. QED BY <1>3, <1>7, <1>8, <1>9, <1>10, <1>11 DEF Inv

\* The steps that begin or end a call leave the generator alone.
LEMMA CallBoundary ==
  ASSUME Inv,
         UNCHANGED <<counter, buffer, pos>>,
         want' \in Nat, bound' \in {0} \cup Bounds, busy' \in BOOLEAN,
         out' = <<>>, result' \in Seq(Nat)
  PROVE  Inv' /\ (Consumed - Len(out))' = Consumed
  <1>1. TypeOK /\ BufferCurrent
    BY DEF Inv
  <1>2. Len(<<>>) = 0 /\ out' \in Seq(Byte)
    BY EmptySeq
  <1>3. Consumed' = Consumed /\ Consumed \in Nat
    BY <1>1, ConsumedType DEF Consumed
  <1>4. TypeOK'
    BY <1>1, <1>2 DEF TypeOK
  <1>5. BufferCurrent'
    BY <1>1 DEF BufferCurrent
  <1>6. Squeezed' /\ OutContinues'
    BY <1>2, <1>3 DEF Squeezed, OutContinues
  <1>7. QED BY <1>2, <1>3, <1>4, <1>5, <1>6 DEF Inv

\* Each step keeps the invariant, and is a step of the abstract stream or
\* leaves it alone.
THEOREM StepSimulation == Inv /\ [Next]_vars => Inv' /\ [Abs!Next]_(Abs!vars)
  <1> SUFFICES ASSUME Inv, [Next]_vars PROVE Inv' /\ [Abs!Next]_(Abs!vars)
    OBVIOUS
  <1>1. TypeOK /\ BufferCurrent /\ Squeezed /\ OutContinues /\ Consumed \in Nat
    BY ConsumedType DEF Inv
  <1>2. ~busy => out = <<>> /\ Consumed - Len(out) = Consumed
    <2>1. Len(<<>>) = 0
      BY EmptySeq
    <2>2. QED BY <1>1, <2>1 DEF TypeOK
  <1>3. Filled => Abs!Taken(want) = out /\ Consumed - Len(out) + want = Consumed
    <2> SUFFICES ASSUME Filled
                 PROVE  Abs!Taken(want) = out /\ Consumed - Len(out) + want = Consumed
      OBVIOUS
    <2>1. Len(out) = want /\ want \in Nat /\ out \in Seq(Byte)
      BY <1>1 DEF Filled, TypeOK
    <2>2. out = [k \in 1..want |-> Stream[Consumed - Len(out) + k - 1]]
      <3>1. \A k \in 1..want : out[k] = Stream[Consumed - Len(out) + k - 1]
        BY <1>1, <2>1 DEF OutContinues
      <3>2. out = [k \in 1..want |-> out[k]]
        BY <2>1
      <3>3. QED BY <3>1, <3>2
    <2>3. QED BY <1>1, <2>1, <2>2 DEF Abs!Taken
  <1>4. ASSUME NEW n \in Nat, NEW b \in {0} \cup Bounds, Call(n, b)
        PROVE  Inv' /\ Abs!Call(n, b)
    <2>1. /\ ~busy /\ busy' = TRUE /\ want' = n /\ bound' = b /\ out' = <<>>
          /\ UNCHANGED <<counter, buffer, pos, result>>
      BY <1>4 DEF Call
    <2>2. Inv' /\ (Consumed - Len(out))' = Consumed
      BY <1>1, <2>1, CallBoundary DEF TypeOK
    <2>3. QED BY <1>2, <2>1, <2>2 DEF Abs!Call
  <1>5. CASE FillBytes
    <2>1. PICK n \in Lengths : Call(n, 0)
      BY <1>5 DEF FillBytes
    <2>2. QED BY <1>4, <2>1, PrgAssumption DEF Abs!Next, Abs!FillBytes
  <1>6. CASE UniformBelow
    <2>1. PICK b \in Bounds \ {1} : Call(NBytes(b), b)
      BY <1>6 DEF UniformBelow
    <2>2. Inv' /\ Abs!Call(NBytes(b), b)
      BY <1>4, <2>1, PrgAssumption
    <2>3. QED BY <2>1, <2>2 DEF Abs!Next, Abs!UniformBelow
  <1>7. CASE UniformBelowOne
    <2>1. /\ ~busy /\ 1 \in Bounds /\ result' = <<0>>
          /\ UNCHANGED <<counter, buffer, pos, want, bound, busy, out>>
      BY <1>7 DEF UniformBelowOne
    <2>2. result' \in Seq(Nat)
      BY <2>1
    <2>3. Inv' /\ (Consumed - Len(out))' = Consumed
      BY <1>1, <1>2, <2>1, <2>2, CallBoundary DEF TypeOK
    <2>4. QED BY <1>2, <2>1, <2>3 DEF Abs!Next, Abs!UniformBelowOne
  <1>8. CASE RefillAndCopy \/ Copy
    BY <1>8, LoopTurn DEF Abs!vars
  <1>9. CASE ReturnBytes
    <2>1. /\ Filled /\ busy /\ bound = 0 /\ result' = out /\ out' = <<>> /\ busy' = FALSE
          /\ UNCHANGED <<counter, buffer, pos, want, bound>>
      BY <1>9 DEF ReturnBytes, Filled
    <2>2. result' \in Seq(Nat)
      <3>1. out \in Seq(Byte) /\ Byte \subseteq Nat
        BY <1>1 DEF TypeOK, Byte
      <3>2. QED BY <2>1, <3>1, SeqMonotonic
    <2>3. Inv' /\ (Consumed - Len(out))' = Consumed
      BY <1>1, <2>1, <2>2, CallBoundary DEF TypeOK
    <2>4. QED BY <1>3, <2>1, <2>3 DEF Abs!Next, Abs!ReturnBytes
  <1>10. CASE ReturnValue
    <2>1. /\ Filled /\ busy /\ bound # 0 /\ Draw(out, bound) \in 0..(bound - 1)
          /\ result' = <<Draw(out, bound)>> /\ out' = <<>> /\ busy' = FALSE
          /\ UNCHANGED <<counter, buffer, pos, want, bound>>
      BY <1>10 DEF ReturnValue, Filled
    <2>2. result' \in Seq(Nat)
      BY <2>1
    <2>3. Inv' /\ (Consumed - Len(out))' = Consumed
      BY <1>1, <2>1, <2>2, CallBoundary DEF TypeOK
    <2>4. QED BY <1>3, <2>1, <2>3 DEF Abs!Next, Abs!ReturnValue
  <1>11. CASE Reject
    <2>1. /\ Filled /\ busy /\ bound # 0 /\ Draw(out, bound) \notin 0..(bound - 1)
          /\ out' = <<>>
          /\ UNCHANGED <<counter, buffer, pos, want, bound, busy, result>>
      BY <1>11 DEF Reject, Filled
    <2>2. Inv' /\ (Consumed - Len(out))' = Consumed
      BY <1>1, <2>1, CallBoundary DEF TypeOK
    <2>3. QED BY <1>3, <2>1, <2>2 DEF Abs!Next, Abs!Reject
  <1>12. CASE UNCHANGED vars
    <2>1. Consumed' = Consumed
      BY <1>12 DEF vars, Consumed
    <2>2. QED
      BY <1>12, <2>1
         DEF vars, Abs!vars, Inv, TypeOK, BufferCurrent, Squeezed, OutContinues
  <1>13. QED
    BY <1>5, <1>6, <1>7, <1>8, <1>9, <1>10, <1>11, <1>12 DEF Next

\* The generator's bookkeeping is right at every point of every call.
THEOREM Invariance == Spec => []Inv
  <1>1. QED BY InitInv, StepSimulation, PTL DEF Spec

\* The types hold, the cursor never leaves the block (prg.rs).
THEOREM TypeCorrect == Spec => []TypeOK
  <1>1. Inv => TypeOK
    BY DEF Inv
  <1>2. QED BY <1>1, Invariance, PTL

\* A call's bytes continue the stream where the last call left it.
THEOREM StreamContinues == Spec => []OutContinues
  <1>1. Inv => OutContinues
    BY DEF Inv
  <1>2. QED BY <1>1, Invariance, PTL

\* Shake256Prg implements the abstract byte stream.
THEOREM Refinement == Spec => RefinesByteStream
  <1>1. Init => Abs!Init
    <2> SUFFICES ASSUME Init PROVE Abs!Init
      OBVIOUS
    <2>1. TypeOK /\ BufferCurrent /\ counter = 0 /\ out = <<>>
      BY InitInv DEF Inv, Init
    <2>2. Consumed - Len(out) = 0
      BY <2>1, ConsumedType, EmptySeq
    <2>3. QED BY <2>2 DEF Init, Abs!Init
  <1>2. QED
    BY <1>1, Invariance, StepSimulation, PTL DEF Spec, Abs!Spec, RefinesByteStream

-----------------------------------------------------------------------------
(***************************************************************************)
(* Rejection sampling.  The byte strings of an attempt are the numbers     *)
(* below a multiple of the mask's range, so that adding v to a word takes  *)
(* the strings on which 0 is drawn to those on which v is.                 *)
(***************************************************************************)

\* A power of two, as an operator the provers leave alone.
Pow(n) == 2 ^ n

\* The largest exponent the assumption speaks of.
MaxPow == Width + ByteBits

\* Each power is twice the one before.
LEMMA PowDoubles ==
  /\ Pow(0) = 1
  /\ \A n \in 0..MaxPow : Pow(n) \in Nat \ {0} /\ Pow(n + 1) = 2 * Pow(n)
  <1>1. Pow(0) = 1
    BY Z3 DEF Pow
  <1>2. \A n \in 0..MaxPow : Pow(n) > 0 /\ Pow(n + 1) = 2 * Pow(n)
    BY PowerAssumption, Zenon DEF MaxPow, Pow
  <1>3. ASSUME NEW n \in Nat PROVE Pow(n) \in Int
    BY SMT DEF Pow
  <1>4. MaxPow \in Nat
    BY SamplingAssumption DEF MaxPow
  <1> QED BY <1>1, <1>2, <1>3, <1>4

\* A non-empty set of natural numbers has a least element.
LEMMA LeastElement ==
  ASSUME NEW S, S \subseteq Nat, S # {}
  PROVE  \E t \in S : \A u \in S : t <= u
  <1> DEFINE Less == OpToRel(<, Nat)
  <1>1. IsWellFoundedOn(Less, Nat)
    BY NatLessThanWellFounded
  <1>2. Less = {ss \in Nat \X Nat : ss[1] < ss[2]}
    BY Zenon DEF OpToRel
  <1> HIDE DEF Less
  <1>3. PICK t \in S : \A u \in S : <<u, t>> \notin Less
    BY <1>1, WFMin
  <1>4. ASSUME NEW u \in S PROVE t <= u
    <2>1. t \in Nat /\ u \in Nat /\ <<u, t>> \notin Less
      BY <1>3
    <2>2. ~(u < t)
      BY <1>2, <2>1
    <2>3. QED BY <2>1, <2>2
  <1>5. QED BY <1>3, <1>4

\* Induction over 0..n, on a set.
LEMMA SetInduction ==
  ASSUME NEW n \in Nat, NEW S, 0 \in S, \A k \in 0..(n - 1) : k \in S => k + 1 \in S
  PROVE  \A k \in 0..n : k \in S
  <1> DEFINE Rest == (0..n) \ S
  <1> SUFFICES ASSUME Rest # {} PROVE FALSE
    OBVIOUS
  <1>1. PICK k \in Rest : \A u \in Rest : k <= u
    <2>1. Rest \subseteq Nat
      OBVIOUS
    <2> HIDE DEF Rest
    <2>2. QED BY <2>1, LeastElement
  <1>2. k \in 0..n /\ k \notin S
    OBVIOUS
  <1>3. k - 1 \in 0..(n - 1) /\ k - 1 \in 0..n /\ ~(k <= k - 1)
    BY <1>2
  <1>4. k - 1 \in S
    BY <1>1, <1>3
  <1>5. QED BY <1>2, <1>3, <1>4

\* The power of a sum of exponents.
LEMMA PowSum ==
  ASSUME NEW a \in Nat, NEW b \in Nat, a + b <= MaxPow
  PROVE  Pow(a + b) = Pow(a) * Pow(b)
  <1> DEFINE S == {k \in 0..b : Pow(a + k) = Pow(a) * Pow(k)}
  <1>1. MaxPow \in Nat /\ Pow(a) \in Nat
    BY PowDoubles, SamplingAssumption DEF MaxPow
  <1>2. 0 \in S
    <2>1. a + 0 = a /\ Pow(a) * 1 = Pow(a)
      BY <1>1
    <2>2. QED BY <2>1, PowDoubles
  <1>3. ASSUME NEW k \in 0..(b - 1), k \in S PROVE k + 1 \in S
    <2>1. k \in 0..MaxPow /\ a + k \in 0..MaxPow /\ a + (k + 1) = (a + k) + 1 /\ k + 1 \in 0..b
      BY <1>1
    <2>2. Pow(k) \in Nat /\ Pow(k + 1) = 2 * Pow(k) /\ Pow((a + k) + 1) = 2 * Pow(a + k)
      BY <2>1, PowDoubles
    <2>3. \A x, y \in Nat : 2 * (x * y) = x * (2 * y)
      BY Z3
    <2>4. Pow(a + k) = Pow(a) * Pow(k)
      BY <1>3
    <2>5. QED BY <1>1, <2>1, <2>2, <2>3, <2>4
  <1> HIDE DEF S
  <1>4. b \in S
    BY <1>2, <1>3, SetInduction
  <1>5. QED BY <1>4 DEF S

-----------------------------------------------------------------------------
\* Division and remainder, as the provers need them.
LEMMA DivMod ==
  ASSUME NEW x \in Nat, NEW d \in Nat \ {0}
  PROVE  /\ x \div d \in Nat
         /\ x % d \in 0..(d - 1)
         /\ x = d * (x \div d) + (x % d)
  BY Z3

\* The remainder modulo a product, digit by digit.
LEMMA ModProduct ==
  ASSUME NEW x \in Nat, NEW p \in Nat \ {0}, NEW b \in Nat \ {0}
  PROVE  /\ p * b \in Nat \ {0}
         /\ x % (p * b) = (x % p) + ((x \div p) % b) * p
  <1> DEFINE q == x \div p
             r == x % p
             h == q \div b
             d == q % b
  <1>1. q \in Nat /\ r \in 0..(p - 1) /\ x = p * q + r
    BY DivMod
  <1> HIDE DEF q, r
  <1>2. h \in Nat /\ d \in 0..(b - 1) /\ q = b * h + d
    BY <1>1, DivMod
  <1> HIDE DEF h, d
  <1>3. p * b \in Nat \ {0}
    BY Z3
  <1>4. r + d * p \in 0..(p * b - 1)
    <2>1. d * p \in Nat /\ (d + 1) * p = d * p + p
      BY <1>2, Z3
    <2>2. (d + 1) * p <= p * b
      BY <1>2, Z3
    <2>3. QED BY <1>1, <1>3, <2>1, <2>2
  <1>5. x = h * (p * b) + (r + d * p)
    <2>1. \A u, v, w, y, z \in Nat : u * (w * y + z) + v = y * (u * w) + (v + z * u)
      BY Z3
    <2>2. QED BY <1>1, <1>2, <2>1
  <1>6. x % (p * b) = r + d * p
    BY <1>2, <1>3, <1>4, <1>5, DivModUnique
  <1>7. QED BY <1>3, <1>6 DEF q, r, d

\* A multiple of a higher place leaves the digit at a place alone.
Unmoved(number, place, radix, added) ==
  ((number + added) \div place) % radix = (number \div place) % radix

LEMMA DigitUnmoved ==
  ASSUME NEW number \in Nat, NEW place \in Nat \ {0}, NEW radix \in Nat \ {0}, NEW shift \in Nat
  PROVE  Unmoved(number, place, radix, shift * (place * radix))
  <1> DEFINE q == number \div place
             r == number % place
             h == q \div radix
             d == q % radix
  <1>1. q \in Nat /\ r \in 0..(place - 1) /\ number = place * q + r
    BY DivMod
  <1> HIDE DEF q, r
  <1>2. h \in Nat /\ d \in 0..(radix - 1) /\ q = radix * h + d
    BY <1>1, DivMod
  <1> HIDE DEF h, d
  <1>3. number + shift * (place * radix) \in Nat /\ q + shift * radix \in Nat /\ h + shift \in Nat
    <2>1. \A u, v, w \in Nat : u * (v * w) \in Nat /\ u * v \in Nat
      BY Z3
    <2>2. QED BY <1>1, <1>2, <2>1
  <1>4. number + shift * (place * radix) = (q + shift * radix) * place + r
    <2>1. \A u, v, w, y, z \in Nat : (u * v + w) + y * (u * z) = (v + y * z) * u + w
      BY Z3
    <2>2. QED BY <1>1, <2>1
  <1>5. (number + shift * (place * radix)) \div place = q + shift * radix
    BY <1>1, <1>3, <1>4, DivModUnique
  <1>6. q + shift * radix = (h + shift) * radix + d
    <2>1. \A u, v, w, y \in Nat : (u * v + w) + y * u = (v + y) * u + w
      BY Z3
    <2>2. QED BY <1>2, <2>1
  <1>7. (q + shift * radix) % radix = d
    BY <1>2, <1>3, <1>6, DivModUnique
  <1>8. QED BY <1>5, <1>7 DEF d, q, Unmoved

\* A byte of a higher place changes none below it.
LEMMA HigherByte ==
  ASSUME NEW number \in Nat, NEW place \in Nat \ {0}, NEW radix \in Nat \ {0},
         NEW byte \in Nat, NEW gap \in Nat
  PROVE  Unmoved(number, place, radix, byte * ((place * radix) * gap))
  <1>1. byte * gap \in Nat
    BY Z3
  <1>2. byte * ((place * radix) * gap) = (byte * gap) * (place * radix)
    BY Z3
  <1>3. Unmoved(number, place, radix, (byte * gap) * (place * radix))
    BY <1>1, DigitUnmoved
  <1>4. QED BY <1>2, <1>3, Zenon

-----------------------------------------------------------------------------
\* The weight of byte k of a little-endian word, counted from 0.
Place(k) == Pow(ByteBits * k)

\* Byte strings of n bytes whose weights the assumption covers.
Short(n) == n \in Nat /\ ByteBits * n <= MaxPow

\* A place is the one before times the base, and divides those above it.
LEMMA PlaceSteps ==
  ASSUME NEW n, Short(n)
  PROVE  /\ Place(0) = 1
         /\ Byte = 0..(Pow(ByteBits) - 1)
         /\ Pow(ByteBits) \in Nat \ {0}
         /\ \A k \in 0..n : Place(k) \in Nat \ {0}
         /\ \A k \in 0..(n - 1) : Place(k + 1) = Place(k) * Pow(ByteBits)
         /\ \A k \in 0..n, j \in 0..n : k <= j => \E c \in Nat \ {0} : Place(j) = Place(k) * c
  <1>1. ByteBits \in Nat \ {0} /\ MaxPow \in Nat /\ n \in Nat /\ ByteBits <= MaxPow /\ ByteBits \in 0..MaxPow
    BY SamplingAssumption DEF MaxPow, Short
  <1>2. ASSUME NEW k \in 0..n PROVE ByteBits * k \in 0..MaxPow
    <2>1. \A b, u, v \in Nat : u <= v => b * u <= b * v /\ b * u \in Nat
      BY Z3
    <2>2. ByteBits * k <= ByteBits * n /\ ByteBits * k \in Nat
      BY <1>1, <2>1
    <2>3. ByteBits * n \in Nat
      BY <1>1, Z3
    <2>4. QED BY <1>1, <2>2, <2>3 DEF Short
  <1>3. Place(0) = 1
    <2>1. ByteBits * 0 = 0
      BY <1>1
    <2>2. QED BY <2>1, PowDoubles DEF Place
  <1>4. Byte = 0..(Pow(ByteBits) - 1)
    BY Zenon DEF Byte, Pow
  <1>5. ASSUME NEW k \in 0..(n - 1) PROVE Place(k + 1) = Place(k) * Pow(ByteBits)
    <2>1. k + 1 \in 0..n /\ k \in 0..n
      BY <1>1
    <2>2. ByteBits * (k + 1) = ByteBits * k + ByteBits /\ ByteBits * k \in Nat
      BY <1>1, Z3
    <2>3. ByteBits * k + ByteBits <= MaxPow
      BY <1>2, <2>1, <2>2
    <2>4. Pow(ByteBits * k + ByteBits) = Pow(ByteBits * k) * Pow(ByteBits)
      BY <1>1, <2>2, <2>3, PowSum
    <2>5. QED BY <2>2, <2>4 DEF Place
  <1>6. ASSUME NEW k \in 0..n, NEW j \in 0..n, k <= j
        PROVE  \E c \in Nat \ {0} : Place(j) = Place(k) * c
    <2> DEFINE a == ByteBits * k
               b == ByteBits * (j - k)
    <2>1. j - k \in 0..n
      BY <1>1, <1>6
    <2>2. a \in Nat /\ b \in 0..MaxPow /\ a + b = ByteBits * j
      <3>1. a \in Nat /\ b \in 0..MaxPow
        BY <1>2, <2>1
      <3>2. a + b = ByteBits * j
        BY <1>1, Z3
      <3>3. QED BY <3>1, <3>2
    <2>3. ByteBits * j <= MaxPow
      BY <1>2
    <2> HIDE DEF a, b
    <2>4. Pow(a + b) = Pow(a) * Pow(b)
      BY <2>2, <2>3, PowSum
    <2>5. Pow(b) \in Nat \ {0}
      BY <2>2, PowDoubles
    <2>6. QED BY <2>2, <2>4, <2>5 DEF Place, a
  <1>7. ASSUME NEW k \in 0..n PROVE Place(k) \in Nat \ {0}
    BY <1>2, PowDoubles DEF Place
  <1>8. QED BY <1>1, <1>3, <1>4, <1>5, <1>6, <1>7, PowDoubles

\* The little-endian bytes of a number.
Digits(x, n) == [k \in 1..n |-> (x \div Place(k - 1)) % Pow(ByteBits)]

\* The recursion of Word.
Values(f, bytes, n) ==
  f = [k \in 0..n |-> IF k = 0 THEN 0 ELSE f[k - 1] + bytes[k] * Place(k - 1)]

\* Whatever satisfies the recursion is what Word computes.
LEMMA WordUnfolds ==
  ASSUME NEW n \in Nat, NEW bytes, Len(bytes) = n, NEW f, Values(f, bytes, n)
  PROVE  Word(bytes) = f[n]
  <1> DEFINE Solves(g) == g = [k \in 0..Len(bytes) |->
               IF k = 0 THEN 0 ELSE g[k - 1] + bytes[k] * 2 ^ (ByteBits * (k - 1))]
             value == CHOOSE g : Solves(g)
  <1>1. Solves(f)
    BY Zenon DEF Values, Place, Pow
  <1>2. Solves(value)
    BY <1>1, Zenon
  <1>3. Word(bytes) = value[n]
    BY DEF Word
  <1>4. Values(value, bytes, n)
    BY <1>2, Zenon DEF Values, Place, Pow
  <1> HIDE DEF value
  <1> DEFINE S == {k \in 0..n : value[k] = f[k]}
  <1>5. 0 \in S
    BY <1>4 DEF Values
  <1>6. ASSUME NEW k \in 0..(n - 1), k \in S PROVE k + 1 \in S
    <2>1. k + 1 \in 0..n /\ k + 1 # 0 /\ (k + 1) - 1 = k
      OBVIOUS
    <2>2. value[k + 1] = value[(k + 1) - 1] + bytes[k + 1] * Place((k + 1) - 1)
      BY <1>4, <2>1 DEF Values
    <2>3. f[k + 1] = f[(k + 1) - 1] + bytes[k + 1] * Place((k + 1) - 1)
      BY <2>1 DEF Values
    <2>4. QED BY <1>6, <2>1, <2>2, <2>3
  <1> HIDE DEF S
  <1>7. \A k \in 0..n : k \in S
    BY ONLY n \in Nat, <1>5, <1>6, SetInduction
  <1>8. n \in S
    BY <1>7
  <1>9. QED BY <1>3, <1>8 DEF S

\* Reading the bytes of a number gives the number.
LEMMA WordOfDigits ==
  ASSUME NEW n, Short(n), NEW x \in 0..(Place(n) - 1)
  PROVE  /\ Digits(x, n) \in [1..n -> Byte]
         /\ Word(Digits(x, n)) = x
  <1> DEFINE s == Digits(x, n)
             f == [k \in 0..n |-> x % Place(k)]
             unit == Pow(ByteBits)
  <1>1. /\ n \in Nat /\ Place(0) = 1 /\ Byte = 0..(unit - 1) /\ unit \in Nat \ {0}
        /\ \A k \in 0..n : Place(k) \in Nat \ {0}
        /\ \A k \in 0..(n - 1) : Place(k + 1) = Place(k) * unit
    BY PlaceSteps DEF Short
  <1>2. x \in Nat
    BY <1>1
  <1>3. s \in [1..n -> Byte]
    <2>1. ASSUME NEW k \in 1..n PROVE (x \div Place(k - 1)) % unit \in Byte
      <3>1. k - 1 \in 0..n
        BY <1>1
      <3>2. x \div Place(k - 1) \in Nat
        BY <1>1, <1>2, <3>1, DivMod
      <3>3. QED BY <1>1, <3>2, DivMod
    <2>2. QED BY <2>1 DEF Digits
  <1>4. Values(f, s, n)
    <2>1. f[0] = 0
      <3>1. x % 1 = 0
        BY <1>2
      <3>2. QED BY <1>1, <3>1
    <2>2. ASSUME NEW k \in 0..n, k # 0 PROVE f[k] = f[k - 1] + s[k] * Place(k - 1)
      <3>1. k - 1 \in 0..(n - 1) /\ k - 1 \in 0..n /\ (k - 1) + 1 = k /\ k \in 1..n
        BY <1>1, <2>2
      <3>2. Place(k) = Place(k - 1) * unit
        BY <1>1, <3>1
      <3> DEFINE p == Place(k - 1)
      <3>3. x % (p * unit) = (x % p) + ((x \div p) % unit) * p
        BY <1>1, <1>2, <3>1, ModProduct
      <3>4. s[k] = (x \div p) % unit
        BY <3>1 DEF Digits
      <3>5. QED BY <3>1, <3>2, <3>3, <3>4
    <2>3. f = [k \in 0..n |-> IF k = 0 THEN 0 ELSE f[k - 1] + s[k] * Place(k - 1)]
      <3> HIDE DEF s
      <3>1. \A k \in 0..n : f[k] = IF k = 0 THEN 0 ELSE f[k - 1] + s[k] * Place(k - 1)
        BY <2>1, <2>2
      <3>2. f = [k \in 0..n |-> f[k]]
        OBVIOUS
      <3> HIDE DEF f
      <3>3. QED BY <3>1, <3>2
    <2>4. QED BY <2>3 DEF Values
  <1>5. Len(s) = n
    BY <1>1 DEF Digits
  <1>6. Word(s) = f[n]
    <2> HIDE DEF s, f
    <2>1. QED BY <1>1, <1>4, <1>5, WordUnfolds
  <1>7. x % Place(n) = x
    <2>1. Place(n) \in Nat \ {0} /\ x = 0 * Place(n) + x
      BY <1>1, <1>2
    <2>2. QED BY <1>2, <2>1, DivModUnique
  <1>8. QED BY <1>1, <1>3, <1>6, <1>7

\* Every byte string is the bytes of a number.
LEMMA DigitsOnto ==
  ASSUME NEW n, Short(n), NEW s \in [1..n -> Byte]
  PROVE  \E x \in 0..(Place(n) - 1) : s = Digits(x, n)
  <1> DEFINE unit == Pow(ByteBits)
             Agree(x, m) == \A k \in 1..m : s[k] = (x \div Place(k - 1)) % unit
             S == {m \in 0..n : \E x \in 0..(Place(m) - 1) : Agree(x, m)}
  <1>1. /\ n \in Nat /\ Place(0) = 1 /\ Byte = 0..(unit - 1) /\ unit \in Nat \ {0}
        /\ \A k \in 0..n : Place(k) \in Nat \ {0}
        /\ \A k \in 0..(n - 1) : Place(k + 1) = Place(k) * unit
        /\ \A k \in 0..n, j \in 0..n : k <= j => \E c \in Nat \ {0} : Place(j) = Place(k) * c
    BY PlaceSteps DEF Short
  <1> HIDE DEF unit
  <1>2. 0 \in S
    <2>1. 0 \in 0..(Place(0) - 1) /\ Agree(0, 0)
      BY <1>1
    <2>2. QED BY <1>1, <2>1
  <1>3. ASSUME NEW m \in 0..(n - 1), m \in S PROVE m + 1 \in S
    <2>1. PICK x \in 0..(Place(m) - 1) : Agree(x, m)
      BY <1>3
    <2> DEFINE d == s[m + 1]
               p == Place(m)
               y == x + d * p
    <2>2. m \in 0..n /\ m + 1 \in 0..n /\ m + 1 \in 1..n /\ p \in Nat \ {0} /\ Place(m + 1) = p * unit
      BY <1>1
    <2>3. /\ d \in 0..(unit - 1) /\ x \in 0..(p - 1)
          /\ d \in Nat /\ x \in Nat /\ d + 1 <= unit /\ x <= p - 1 /\ unit \in Nat /\ p \in Nat
      <3>1. d \in Byte
        BY <2>2
      <3>2. x \in 0..(p - 1)
        OBVIOUS
      <3> HIDE DEF d, p
      <3>3. QED BY <1>1, <2>2, <3>1, <3>2
    <2> HIDE DEF d, p
    <2>4. y \in 0..(p * unit - 1)
      <3>1. d * p \in Nat /\ (d + 1) * p = d * p + p
        BY ONLY <2>3, Z3
      <3>2. (d + 1) * p <= p * unit /\ p * unit \in Nat
        BY ONLY <2>3, Z3
      <3> DEFINE w == p * unit
                 v == d * p
      <3>3. w \in Nat /\ v \in Nat /\ v + p <= w
        BY <3>1, <3>2
      <3> HIDE DEF w, v
      <3>4. x + v \in 0..(w - 1)
        BY <2>3, <3>3
      <3>5. QED BY <3>4 DEF w, v
    <2>5. ASSUME NEW k \in 1..(m + 1) PROVE s[k] = (y \div Place(k - 1)) % unit
      <3>1. CASE k = m + 1
        <4>1. k - 1 = m
          BY <1>1, <3>1
        <4>2. y \div p = d
          <5>1. y \in Nat
            BY ONLY <2>3, Z3
          <5>2. y = d * p + x
            <6>1. d * p \in Nat
              BY ONLY <2>3, Z3
            <6>2. QED BY <2>3, <6>1
          <5> HIDE DEF y
          <5>3. QED BY ONLY <2>2, <2>3, <5>1, <5>2, DivModUnique
        <4>3. d % unit = d
          <5>1. d = 0 * unit + d
            BY <2>3
          <5>2. unit \in Nat \ {0}
            BY <1>1
          <5>3. QED BY ONLY <2>3, <5>1, <5>2, DivModUnique
        <4>4. s[k] = d
          BY <3>1 DEF d
        <4> HIDE DEF y
        <4>5. QED BY <4>1, <4>2, <4>3, <4>4 DEF p
      <3>2. CASE k # m + 1
        <4>1. k \in 1..m /\ k - 1 \in 0..(n - 1) /\ k \in 0..n /\ k <= m /\ (k - 1) + 1 = k
              /\ k - 1 \in 0..n
          BY <1>1, <3>2
        <4>2. PICK c \in Nat \ {0} : Place(m) = Place(k) * c
          BY <1>1, <2>2, <4>1
        <4> DEFINE u == Place(k - 1)
        <4>3. Place(k) = u * unit /\ u \in Nat \ {0}
          BY <1>1, <4>1
        <4> HIDE DEF u
        <4>4. x \in Nat /\ d \in Nat /\ unit \in Nat \ {0}
          BY <1>1, <2>3
        <4>5. Unmoved(x, u, unit, d * ((u * unit) * c))
          BY <4>2, <4>3, <4>4, HigherByte
        <4>6. s[k] = (x \div u) % unit
          BY <2>1, <4>1 DEF u
        <4>7. y = x + d * ((u * unit) * c)
          BY <4>2, <4>3 DEF p
        <4> HIDE DEF y
        <4>8. (y \div u) % unit = (x \div u) % unit
          BY <4>5, <4>7, Zenon DEF Unmoved
        <4>9. QED BY <4>6, <4>8 DEF u
      <3>3. QED BY <3>1, <3>2
    <2>6. Agree(y, m + 1)
      BY <2>5
    <2> HIDE DEF y, Agree
    <2>7. QED BY <2>2, <2>4, <2>6
  <1>4. n \in S
    <2> HIDE DEF S
    <2>1. n \in Nat
      BY <1>1
    <2>2. \A k \in 0..n : k \in S
      BY ONLY <1>2, <1>3, <2>1, SetInduction
    <2>3. QED BY <2>1, <2>2
  <1>5. PICK x \in 0..(Place(n) - 1) : Agree(x, n)
    BY <1>4
  <1>6. s = Digits(x, n)
    <2>1. s = [k \in 1..n |-> s[k]]
      OBVIOUS
    <2>2. QED BY <1>5, <2>1 DEF Digits, unit
  <1>7. QED BY <1>6

\* Words and byte strings of n bytes correspond one to one.
LEMMA WordBijective ==
  ASSUME NEW n, Short(n), NEW s \in [1..n -> Byte]
  PROVE  Word(s) \in 0..(Place(n) - 1) /\ Digits(Word(s), n) = s
  <1>1. PICK x \in 0..(Place(n) - 1) : s = Digits(x, n)
    BY DigitsOnto
  <1>2. Word(Digits(x, n)) = x
    BY WordOfDigits
  <1>3. QED BY <1>1, <1>2

-----------------------------------------------------------------------------
\* A bound fits in its bits, and the bytes of an attempt hold them.
LEMMA BoundFits ==
  ASSUME NEW b \in Bounds
  PROVE  /\ BitLength(b) \in Nat /\ BitLength(b) <= MaxPow
         /\ b < Pow(BitLength(b))
         /\ Short(NBytes(b))
         /\ BitLength(b) <= ByteBits * NBytes(b)
  <1> DEFINE S == {n \in 0..Width : b < 2 ^ n}
             bits == BitLength(b)
  <1>1. ByteBits \in Nat \ {0} /\ Width \in Nat \ {0} /\ b \in 1..(2 ^ Width - 1)
    BY SamplingAssumption, PrgAssumption
  <1>2. S \subseteq Nat /\ Width \in S
    <2>1. 2 ^ Width \in Int
      BY <1>1, SMT
    <2>2. b < 2 ^ Width
      <3> DEFINE w == 2 ^ Width
      <3>1. w \in Int /\ b \in 1..(w - 1)
        BY <1>1, <2>1
      <3> HIDE DEF w
      <3>2. b < w
        BY <3>1
      <3>3. QED BY <3>2 DEF w
    <2>3. Width \in 0..Width
      BY <1>1
    <2>4. 0..Width \subseteq Nat
      BY <1>1
    <2>5. S \subseteq 0..Width
      OBVIOUS
    <2>6. QED BY ONLY <2>2, <2>3, <2>4, <2>5, Zenon DEF S
  <1>3. bits \in S
    <2> HIDE DEF S
    <2>1. \E t \in S : \A u \in S : t <= u
      BY <1>2, LeastElement
    <2>2. Min(S) \in S
      BY <2>1, Zenon DEF Min
    <2>3. QED BY <2>2 DEF BitLength, S
  <1>4. bits \in 0..Width /\ b < Pow(bits)
    BY <1>3, Zenon DEF Pow
  <1> HIDE DEF S, bits
  <1>5. NBytes(b) = (bits + ByteBits - 1) \div ByteBits
    BY DEF NBytes, bits
  <1> DEFINE q == NBytes(b)
             r == (bits + ByteBits - 1) % ByteBits
  <1>6. q \in Nat /\ r \in 0..(ByteBits - 1) /\ bits + ByteBits - 1 = ByteBits * q + r
    <2>1. bits + ByteBits - 1 \in Nat
      BY <1>1, <1>4
    <2>2. QED BY <1>1, <1>5, <2>1, DivMod
  <1> HIDE DEF q, r
  <1>7. ByteBits * q \in Nat
    BY <1>1, <1>6, Z3
  <1>8. bits <= ByteBits * q /\ ByteBits * q <= Width + ByteBits
    BY <1>1, <1>4, <1>6, <1>7
  <1>9. QED BY <1>1, <1>4, <1>6, <1>7, <1>8 DEF bits, q, Short, MaxPow

\* The words of an attempt are a whole number of times the values of its mask.
LEMMA MaskDivides ==
  ASSUME NEW b \in Bounds
  PROVE  /\ Pow(BitLength(b)) \in Nat \ {0}
         /\ \E c \in Nat \ {0} : Place(NBytes(b)) = c * Pow(BitLength(b))
  <1> DEFINE bits == BitLength(b)
             n == NBytes(b)
             rest == ByteBits * n - bits
  <1>1. bits \in Nat /\ bits \in 0..MaxPow /\ Short(n) /\ bits <= ByteBits * n
    BY BoundFits, SamplingAssumption DEF MaxPow
  <1> HIDE DEF bits, n
  <1>2. ByteBits * n \in Nat /\ ByteBits * n <= MaxPow /\ MaxPow \in Nat
    <2>1. n \in Nat /\ ByteBits \in Nat /\ MaxPow \in Nat
      BY <1>1, SamplingAssumption DEF Short, MaxPow
    <2>2. ByteBits * n \in Nat
      BY <2>1, Z3
    <2>3. QED BY <1>1, <2>1, <2>2 DEF Short
  <1>3. rest \in Nat /\ rest + bits = ByteBits * n /\ rest \in 0..MaxPow
    BY <1>1, <1>2
  <1> HIDE DEF rest
  <1>4. Pow(rest + bits) = Pow(rest) * Pow(bits)
    BY <1>1, <1>2, <1>3, PowSum
  <1>5. Pow(rest) \in Nat \ {0} /\ Pow(bits) \in Nat \ {0}
    BY <1>1, <1>3, PowDoubles
  <1>6. QED BY <1>3, <1>4, <1>5 DEF Place, bits, n

\* A remainder shifted within its period.
Shifts(w, v, m, limit) ==
  /\ w % m = 0 => w + v \in 0..(limit - 1) /\ (w + v) % m = v
  /\ w % m = v => w - v \in 0..(limit - 1) /\ (w - v) % m = 0

LEMMA ShiftRemainder ==
  ASSUME NEW m \in Nat \ {0}, NEW c \in Nat \ {0}, NEW v \in 0..(m - 1), NEW w \in 0..(c * m - 1)
  PROVE  Shifts(w, v, m, c * m)
  <1> DEFINE q == w \div m
             r == w % m
             top == c * m
  <1>1. top \in Nat \ {0} /\ w \in Nat /\ w <= top - 1
    <2>1. top \in Nat \ {0}
      BY Z3
    <2> HIDE DEF top
    <2>2. QED BY <2>1 DEF top
  <1>2. q \in Nat /\ r \in 0..(m - 1) /\ w = m * q + r
    BY <1>1, DivMod
  <1> HIDE DEF q, r, top
  <1>3. m * q \in Nat /\ q * m = m * q
    BY <1>2, Z3
  <1>4. m * q + m <= top
    <2>1. q < c
      <3>1. SUFFICES ASSUME q >= c PROVE FALSE
        BY <1>2
      <3>2. c * m <= q * m
        BY <1>2, <3>1, Z3
      <3>3. QED BY <1>1, <1>2, <1>3, <3>2 DEF top
    <2>2. (q + 1) * m <= c * m
      BY <1>2, <2>1, Z3
    <2>3. (q + 1) * m = m * q + m
      BY <1>2, Z3
    <2>4. QED BY <2>2, <2>3 DEF top
  <1>5. r = 0 => w + v \in 0..(top - 1) /\ (w + v) % m = v
    <2> SUFFICES ASSUME r = 0 PROVE w + v \in 0..(top - 1) /\ (w + v) % m = v
      OBVIOUS
    <2>1. w + v \in Nat /\ w + v = q * m + v /\ w + v <= top - 1
      BY <1>1, <1>2, <1>3, <1>4
    <2>2. (w + v) % m = v
      BY ONLY <1>2, <2>1, m \in Nat \ {0}, v \in 0..(m - 1), DivModUnique
    <2>3. QED BY <1>1, <2>1, <2>2
  <1>6. r = v => w - v \in 0..(top - 1) /\ (w - v) % m = 0
    <2> SUFFICES ASSUME r = v PROVE w - v \in 0..(top - 1) /\ (w - v) % m = 0
      OBVIOUS
    <2>1. w - v \in Nat /\ w - v = q * m + 0 /\ 0 \in 0..(m - 1)
      BY <1>1, <1>2, <1>3
    <2>2. (w - v) % m = 0
      <3> DEFINE x == w - v
      <3>1. x \in Nat /\ x = q * m + 0
        BY <2>1
      <3> HIDE DEF x
      <3>2. x % m = 0
        BY ONLY <1>2, <2>1, <3>1, m \in Nat \ {0}, DivModUnique
      <3>3. QED BY <3>2 DEF x
    <2>3. QED BY <1>1, <2>1, <2>2
  <1>7. QED BY <1>5, <1>6 DEF Shifts, top, r

\* Each value is drawn on as many byte strings as zero, and on at least one.
LEMMA WaysEqual ==
  ASSUME NEW b \in Bounds, NEW v \in 0..(b - 1)
  PROVE  Ways(v, b) = Ways(0, b) /\ Ways(v, b) > 0
  <1> DEFINE n == NBytes(b)
             m == Pow(BitLength(b))
             top == Place(n)
             Strings == [1..n -> Byte]
             Zeros == {s \in Strings : Draw(s, b) = 0}
             Hits == {s \in Strings : Draw(s, b) = v}
  <1>1. PICK c \in Nat \ {0} : top = c * m
    BY MaskDivides
  <1>2. m \in Nat \ {0} /\ Short(n) /\ b < m /\ b \in Nat \ {0}
    <2>1. b \in Nat \ {0}
      <3> DEFINE w == 2 ^ Width
      <3>1. w \in Int
        BY SamplingAssumption, SMT
      <3>2. b \in 1..(w - 1)
        BY PrgAssumption
      <3> HIDE DEF w
      <3>3. QED BY <3>1, <3>2
    <2>2. QED BY <2>1, MaskDivides, BoundFits
  <1>3. v \in 0..(m - 1) /\ v \in Nat
    BY <1>2
  <1>4. top \in Nat \ {0}
    BY <1>1, <1>2, Z3
  <1>5. \A s \in Strings : /\ Word(s) \in 0..(top - 1)
                           /\ Digits(Word(s), n) = s
                           /\ Draw(s, b) = Word(s) % m
    BY <1>2, WordBijective, Zenon DEF Draw, Pow
  <1>6. \A x \in 0..(top - 1) : Digits(x, n) \in Strings /\ Word(Digits(x, n)) = x
    BY <1>2, WordOfDigits
  <1> HIDE DEF m, top, n
  <1>7. \A w \in 0..(top - 1) :
          /\ w % m = 0 => w + v \in 0..(top - 1) /\ (w + v) % m = v
          /\ w % m = v => w - v \in 0..(top - 1) /\ (w - v) % m = 0
    <2> SUFFICES ASSUME NEW w \in 0..(top - 1) PROVE Shifts(w, v, m, top)
      BY DEF Shifts
    <2>1. w \in 0..(c * m - 1)
      BY <1>1
    <2>2. Shifts(w, v, m, c * m)
      BY <1>2, <1>3, <2>1, ShiftRemainder
    <2>3. QED BY <1>1, <2>2
  <1> DEFINE F == [s \in Zeros |-> Digits(Word(s) + v, n)]
  <1>8. F \in Bijection(Zeros, Hits)
    <2>1. \A s \in Zeros : F[s] \in Hits /\ Word(F[s]) = Word(s) + v
      <3> TAKE s \in Zeros
      <3>1. Word(s) \in 0..(top - 1) /\ Word(s) % m = 0
        BY <1>5
      <3>2. Word(s) + v \in 0..(top - 1) /\ (Word(s) + v) % m = v
        BY <1>7, <3>1
      <3> DEFINE t == Digits(Word(s) + v, n)
      <3>3. t \in Strings /\ Word(t) = Word(s) + v
        BY <1>6, <3>2
      <3>4. Draw(t, b) = v
        BY <1>5, <3>2, <3>3
      <3>5. QED BY <3>3, <3>4
    <2>2. F \in [Zeros -> Hits]
      BY <2>1
    <2>3. \A s, t \in Zeros : F[s] = F[t] => s = t
      <3> TAKE s, t \in Zeros
      <3> HAVE F[s] = F[t]
      <3>1. Word(s) + v = Word(t) + v
        BY <2>1
      <3>2. Word(s) \in Int /\ Word(t) \in Int /\ v \in Int
        BY <1>3, <1>4, <1>5
      <3>3. Word(s) = Word(t)
        BY <3>1, <3>2
      <3>4. QED BY <1>5, <3>3
    <2>4. \A t \in Hits : \E s \in Zeros : F[s] = t
      <3> TAKE t \in Hits
      <3>1. t \in Strings /\ Word(t) \in 0..(top - 1) /\ Word(t) % m = v /\ Digits(Word(t), n) = t
        BY <1>5
      <3>2. Word(t) - v \in 0..(top - 1) /\ (Word(t) - v) % m = 0
        BY <1>7, <3>1
      <3> DEFINE s == Digits(Word(t) - v, n)
      <3>3. s \in Strings /\ Word(s) = Word(t) - v
        BY <1>6, <3>2
      <3>4. s \in Zeros
        BY <1>5, <3>2, <3>3
      <3>5. Word(s) + v = Word(t)
        BY <1>3, <1>4, <3>1, <3>3
      <3>6. QED BY <3>1, <3>4, <3>5
    <2> HIDE DEF F, Zeros, Hits
    <2>5. F \in Injection(Zeros, Hits)
      BY <2>2, <2>3, Zenon DEF Injection, IsInjective
    <2>6. F \in Surjection(Zeros, Hits)
      BY <2>2, <2>4, Zenon DEF Surjection
    <2>7. QED BY <2>5, <2>6 DEF Bijection
  <1>9. IsFiniteSet(Zeros)
    <2> DEFINE G == [s \in Zeros |-> Word(s)]
    <2>1. G \in [Zeros -> 0..(top - 1)]
      BY <1>5
    <2>2. \A s, t \in Zeros : G[s] = G[t] => s = t
      <3> TAKE s, t \in Zeros
      <3> HAVE G[s] = G[t]
      <3>1. QED BY <1>5
    <2>3. IsFiniteSet(0..(top - 1))
      BY <1>4, FS_Interval
    <2> HIDE DEF G, Zeros
    <2>4. G \in Injection(Zeros, 0..(top - 1))
      BY <2>1, <2>2, Zenon DEF Injection, IsInjective
    <2>5. QED BY <2>3, <2>4, FS_Injection
  <1>10. IsFiniteSet(Hits) /\ Cardinality(Hits) = Cardinality(Zeros)
    <2> HIDE DEF Hits, Zeros, F
    <2>1. ExistsBijection(Zeros, Hits)
      BY <1>8, Zenon DEF ExistsBijection
    <2>2. QED BY <1>9, <2>1, FS_Bijection
  <1>11. Hits # {}
    <2>1. 0 \in 0..(top - 1) /\ 0 % m = 0 /\ 0 + v = v
      BY <1>2, <1>3, <1>4
    <2>2. v \in 0..(top - 1) /\ v % m = v
      BY <1>7, <2>1
    <2>3. Digits(v, n) \in Hits
      BY <1>5, <1>6, <2>2
    <2>4. QED BY <2>3
  <1>12. Cardinality(Hits) \in Nat /\ Cardinality(Hits) # 0
    <2> HIDE DEF Hits
    <2>1. QED BY <1>10, <1>11, FS_CardinalityType, FS_EmptySet
  <1>13. Ways(v, b) = Cardinality(Hits) /\ Ways(0, b) = Cardinality(Zeros)
    BY DEF Ways, n
  <1>14. QED BY <1>10, <1>12, <1>13

\* Rejection sampling returns every value below the bound on equally many byte
\* strings, and excludes none (uniform_below).
THEOREM SamplingUnbiased == Spec => []Unbiased
  <1>1. TypeOK => Unbiased
    <2> SUFFICES ASSUME TypeOK, bound # 0, NEW v \in 0..(bound - 1)
                 PROVE  Ways(v, bound) = Ways(0, bound) /\ Ways(v, bound) > 0
      BY DEF Unbiased
    <2>1. bound \in Bounds
      BY DEF TypeOK
    <2>2. QED BY <2>1, WaysEqual
  <1>2. QED BY <1>1, TypeCorrect, PTL

-----------------------------------------------------------------------------
(***************************************************************************)
(* The samplers.  A call in progress has drawn some of its values, each    *)
(* the first candidate of the stream below its bound, and the offsets      *)
(* between them follow one another; the generator stands at the last of    *)
(* them or is trying from there.                                           *)
(***************************************************************************)

\* The number attempt k of a draw below b makes of the stream, when the draw
\* starts at offset at.
Candidate(b, at, k) ==
  Draw([j \in 1..NBytes(b) |-> Stream[(at + k * NBytes(b)) + j - 1]], b)

\* The first k attempts were thrown away.
Rejected(b, at, k) ==
  \A j \in 0..(k - 1) : Candidate(b, at, j) \in Nat /\ b <= Candidate(b, at, j)

\* A draw below b gave v and left the stream at offset to.
Drew(b, at, v, to) == One(b, at) = [value |-> v, after |-> to]

\* An attempt reads at least one byte.
LEMMA AttemptReads ==
  ASSUME NEW b \in Bounds
  PROVE  b \in Nat \ {0} /\ NBytes(b) \in Nat \ {0}
  <1>1. b \in Nat \ {0}
    <2> DEFINE w == 2 ^ Width
    <2>1. w \in Int
      BY SamplingAssumption, SMT
    <2>2. b \in 1..(w - 1)
      BY PrgAssumption
    <2> HIDE DEF w
    <2>3. QED BY <2>1, <2>2
  <1>2. BitLength(b) \in Nat /\ b < Pow(BitLength(b)) /\ Short(NBytes(b))
        /\ BitLength(b) <= ByteBits * NBytes(b)
    BY BoundFits
  <1>3. BitLength(b) # 0
    <2> SUFFICES ASSUME BitLength(b) = 0 PROVE FALSE
      OBVIOUS
    <2>1. b < 1
      BY <1>2, PowDoubles
    <2>2. QED BY <1>1, <2>1
  <1>4. NBytes(b) # 0
    <2> SUFFICES ASSUME NBytes(b) = 0 PROVE FALSE
      OBVIOUS
    <2>1. ByteBits * 0 = 0
      BY SamplingAssumption
    <2>2. QED BY <1>2, <1>3, <2>1
  <1>5. QED BY <1>1, <1>2, <1>4 DEF Short

\* What uniform_below makes of the bytes of an attempt is a number.
LEMMA DrawType ==
  ASSUME NEW b \in Bounds, NEW s \in Seq(Byte), Len(s) = NBytes(b)
  PROVE  Draw(s, b) \in Nat
  <1>1. s \in [1..NBytes(b) -> Byte] /\ Short(NBytes(b))
    BY BoundFits
  <1>2. Word(s) \in 0..(Place(NBytes(b)) - 1)
    BY <1>1, WordBijective
  <1>3. NBytes(b) \in 0..NBytes(b)
    BY <1>1 DEF Short
  <1>4. Place(NBytes(b)) \in Nat \ {0}
    BY <1>1, <1>3, PlaceSteps
  <1> DEFINE w == Word(s)
             m == Pow(BitLength(b))
  <1>5. w \in Nat /\ m \in Nat \ {0}
    BY <1>2, <1>4, MaskDivides
  <1> HIDE DEF w, m
  <1>6. w % m \in Nat
    <2>1. w % m \in 0..(m - 1)
      BY <1>5, DivMod
    <2>2. QED BY <1>5, <2>1
  <1>7. QED BY <1>6, Zenon DEF Draw, Pow, w, m

\* No call has read past the last block.
LEMMA ConsumedBound ==
  ASSUME TypeOK, BufferCurrent
  PROVE  Consumed <= BLOCK_LEN * MaxBlocks /\ BLOCK_LEN * MaxBlocks \in Nat
  <1> DEFINE l == BLOCK_LEN
             c == counter
             m == MaxBlocks
             p == pos
  <1>1. l \in Nat \ {0} /\ m \in Nat /\ c \in 0..m /\ p \in 0..l
    BY PrgAssumption DEF TypeOK
  <1>2. Consumed = (c - 1) * l + p
    BY DEF Consumed
  <1> HIDE DEF l, c, m, p
  <1>3. (c - 1) * l + l = c * l
    BY <1>1, Z3
  <1>4. c * l <= l * m /\ l * m \in Nat /\ (c - 1) * l \in Int
    BY <1>1, Z3
  <1>5. (c - 1) * l + p <= l * m
    <2> DEFINE x == (c - 1) * l
               y == c * l
               z == l * m
    <2>1. x \in Int /\ x + l = y /\ y <= z /\ z \in Nat
      BY <1>3, <1>4
    <2> HIDE DEF x, y, z
    <2>2. x + p <= z
      BY <1>1, <2>1
    <2>3. QED BY <2>2 DEF x, z
  <1>6. QED BY <1>2, <1>4, <1>5 DEF l, m

\* The first candidate below the bound is the one that is drawn.
LEMMA FirstBelow ==
  ASSUME NEW b \in Bounds \ {1}, NEW at \in Nat, NEW k \in 0..(BLOCK_LEN * MaxBlocks),
         Rejected(b, at, k), Candidate(b, at, k) \in 0..(b - 1)
  PROVE  Drew(b, at, Candidate(b, at, k), at + (k + 1) * NBytes(b))
  <1> DEFINE first(x) == /\ Candidate(b, at, x) < b
                         /\ \A j \in 0..(x - 1) : Candidate(b, at, j) >= b
             K == 0..(BLOCK_LEN * MaxBlocks)
             c == CHOOSE x \in K : first(x)
  <1>1. b \in Nat \ {0} /\ b # 1 /\ BLOCK_LEN * MaxBlocks \in Nat
    <2>1. BLOCK_LEN \in Nat /\ MaxBlocks \in Nat
      BY PrgAssumption
    <2>2. BLOCK_LEN * MaxBlocks \in Nat
      BY <2>1, Z3
    <2>3. QED BY <2>2, AttemptReads
  <1>2. first(k)
    BY <1>1 DEF Rejected
  <1> HIDE DEF K
  <1>3. k \in K
    BY DEF K
  <1>4. c \in K /\ first(c)
    BY <1>2, <1>3, Zenon
  <1>5. c = k
    <2> HIDE DEF c
    <2>1. c \in Nat /\ k \in Nat
      BY <1>1, <1>4 DEF K
    <2>2. ASSUME c < k PROVE FALSE
      <3>1. c \in 0..(k - 1)
        BY <2>1, <2>2
      <3>2. Candidate(b, at, c) \in Nat /\ b <= Candidate(b, at, c)
        BY <3>1 DEF Rejected
      <3>3. QED BY <1>1, <1>4, <3>2
    <2>3. ASSUME k < c PROVE FALSE
      <3>1. k \in 0..(c - 1)
        BY <2>1, <2>3
      <3>2. Candidate(b, at, k) >= b
        BY <1>4, <3>1
      <3>3. QED BY <1>1, <3>2
    <2>4. QED BY <2>1, <2>2, <2>3
  <1>6. Attempts(b, at) = c
    BY Zenon DEF Attempts, Candidate, K
  <1>7. One(b, at) = [value |-> Candidate(b, at, Attempts(b, at)),
                      after |-> at + (Attempts(b, at) + 1) * NBytes(b)]
    BY <1>1, Zenon DEF One, Candidate
  <1>8. QED BY <1>5, <1>6, <1>7, Zenon DEF Drew

\* uniform_below of a bound of one reads nothing.
LEMMA DrewNothing ==
  ASSUME NEW at
  PROVE  Drew(1, at, 0, at)
  BY DEF Drew, One

-----------------------------------------------------------------------------
\* The draws of the call in progress so far: f[i] is the offset after draw i.
Drawn(f) ==
  /\ f \in [0..Len(draws) -> Nat]
  /\ f[0] = begun
  /\ \A i \in 1..Len(draws) : Drew(DrawBound(call, i), f[i - 1], draws[i], f[i])

\* A draw below b that began at offset at has rejected some attempts and is in
\* the middle of the next.
Trying(b, at) ==
  /\ bound = b /\ want = NBytes(b)
  /\ \E k \in Nat : Consumed - Len(out) = at + k * NBytes(b) /\ Rejected(b, at, k)

NextBound == DrawBound(call, Len(draws) + 1)

\* The generator stands at offset at, or is drawing from there.
Reading(at) ==
  IF busy THEN Len(draws) < NumDraws(call) /\ NextBound # 1 /\ Trying(NextBound, at)
  ELSE Consumed = at

CallInv ==
  /\ call \in Calls
  /\ draws \in Seq(Nat)
  /\ Len(draws) <= NumDraws(call)
  /\ \A i \in 1..Len(draws) : draws[i] < DrawBound(call, i)
  /\ \E f : Drawn(f) /\ Reading(f[Len(draws)])

LEMMA AppendOne ==
  ASSUME NEW S, NEW seq \in Seq(S), NEW v \in S
  PROVE  /\ seq \o <<v>> \in Seq(S)
         /\ Len(seq \o <<v>>) = Len(seq) + 1
         /\ \A i \in 1..Len(seq) : (seq \o <<v>>)[i] = seq[i]
         /\ (seq \o <<v>>)[Len(seq) + 1] = v
  OBVIOUS

\* One more draw.
LEMMA DrawnOne ==
  ASSUME CallInv, Len(draws) < NumDraws(call),
         NEW f, Drawn(f), NEW v \in Nat, NEW to \in Nat,
         Drew(NextBound, f[Len(draws)], v, to), v < NextBound,
         draws' = draws \o <<v>>, UNCHANGED <<call, begun>>,
         ~busy', Consumed' = to
  PROVE  CallInv'
  <1> DEFINE n == Len(draws)
  <1> PICK g : g = [i \in 0..(n + 1) |-> IF i = n + 1 THEN to ELSE f[i]]
    OBVIOUS
  <1>1. draws \in Seq(Nat) /\ n \in Nat /\ call \in Calls
    BY DEF CallInv
  <1>2. /\ draws' \in Seq(Nat) /\ Len(draws') = n + 1
        /\ \A i \in 1..n : draws'[i] = draws[i]
        /\ draws'[n + 1] = v
    BY <1>1, AppendOne
  <1>3. /\ f \in [0..n -> Nat] /\ f[0] = begun
        /\ \A i \in 1..n : Drew(DrawBound(call, i), f[i - 1], draws[i], f[i])
    BY DEF Drawn
  <1>4. NumDraws(call)' = NumDraws(call) /\ (\A i : DrawBound(call, i)' = DrawBound(call, i))
    OBVIOUS
  <1>5. \A i \in 1..Len(draws)' : draws'[i] < DrawBound(call', i)
    <2> SUFFICES ASSUME NEW i \in 1..(n + 1) PROVE draws'[i] < DrawBound(call, i)
      BY <1>2
    <2>1. CASE i = n + 1
      BY <1>2, <2>1 DEF NextBound
    <2>2. CASE i # n + 1
      <3>1. i \in 1..n
        BY <1>1, <2>2
      <3>2. QED BY <1>2, <3>1 DEF CallInv
    <2>3. QED BY <2>1, <2>2
  <1>6. Drawn(g)'
    <2>1. g \in [0..(n + 1) -> Nat] /\ g[0] = begun
      BY <1>1, <1>3
    <2>2. ASSUME NEW i \in 1..(n + 1)
          PROVE  Drew(DrawBound(call, i), g[i - 1], draws'[i], g[i])
      <3>1. CASE i = n + 1
        <4>1. i - 1 = n /\ n \in 0..(n + 1) /\ n # n + 1 /\ n + 1 \in 0..(n + 1)
          BY <1>1, <3>1
        <4>2. g[i - 1] = f[n] /\ g[i] = to /\ draws'[i] = v
          BY <1>2, <3>1, <4>1
        <4>3. QED BY <3>1, <4>2 DEF NextBound
      <3>2. CASE i # n + 1
        <4>1. i \in 1..n /\ i - 1 \in 0..(n + 1) /\ i - 1 # n + 1 /\ i \in 0..(n + 1)
          BY <1>1, <3>2
        <4>2. g[i - 1] = f[i - 1] /\ g[i] = f[i] /\ draws'[i] = draws[i]
          BY <1>2, <3>2, <4>1
        <4>3. QED BY <1>3, <4>1, <4>2
      <3>3. QED BY <3>1, <3>2
    <2>3. QED BY <1>2, <2>1, <2>2 DEF Drawn
  <1>7. Reading(g[Len(draws)])'
    <2>1. g[n + 1] = to
      BY <1>1
    <2>2. QED BY <1>2, <2>1 DEF Reading
  <1>8. n + 1 <= NumDraws(call)
    <2>1. NumDraws(call) \in Int
      <3>1. DrawsPerSample(call) \in Nat /\ call.n \in Nat
        BY <1>1, CallsAssumption DEF DrawsPerSample
      <3>2. QED BY <3>1, Z3 DEF NumDraws
    <2>2. QED BY <1>1, <2>1
  <1>9. QED BY <1>1, <1>2, <1>5, <1>6, <1>7, <1>8 DEF CallInv

\* The number of draws of a call is a number, and their bounds are bounds.
LEMMA DrawsTyped ==
  ASSUME NEW c \in Calls
  PROVE  /\ NumDraws(c) \in Nat
         /\ \A i \in 1..NumDraws(c) : DrawBound(c, i) \in Bounds
  <1>1. DrawsPerSample(c) \in Nat /\ c.n \in Nat
    BY CallsAssumption DEF DrawsPerSample
  <1>2. NumDraws(c) \in Nat
    BY <1>1, Z3 DEF NumDraws
  <1>3. QED BY <1>2, CallsAssumption

LEMMA NextBoundTyped ==
  ASSUME CallInv, Len(draws) < NumDraws(call)
  PROVE  NextBound \in Bounds
  <1>1. call \in Calls /\ Len(draws) \in Nat
    BY DEF CallInv
  <1>2. Len(draws) + 1 \in 1..NumDraws(call)
    BY <1>1, DrawsTyped
  <1>3. QED BY <1>1, <1>2, DrawsTyped DEF NextBound

\* A call begins with no draws, where the generator stands.
LEMMA CallStarts ==
  ASSUME Inv, NEW c \in Calls, SamplerCall(c)
  PROVE  CallInv'
  <1>1. /\ ~busy /\ call' = c /\ draws' = <<>> /\ begun' = Consumed
        /\ UNCHANGED <<counter, buffer, pos, want, bound, busy, out, result>>
    BY DEF SamplerCall, vars
  <1>2. Consumed \in Nat /\ Consumed' = Consumed
    BY <1>1, ConsumedType DEF Inv, Consumed
  <1> PICK f : f = [i \in 0..0 |-> Consumed]
    OBVIOUS
  <1>3. f \in [0..0 -> Nat] /\ f[0] = Consumed
    BY <1>2
  <1>4. Len(draws') = 0 /\ draws' \in Seq(Nat)
    BY <1>1
  <1>5. Drawn(f)' /\ Reading(f[Len(draws)])'
    BY <1>1, <1>2, <1>3, <1>4 DEF Drawn, Reading
  <1>6. 0 <= NumDraws(c)
    BY DrawsTyped
  <1>7. QED BY <1>1, <1>4, <1>5, <1>6 DEF CallInv

\* The loop of the sampler asks for a draw.
LEMMA DrawStarts ==
  ASSUME Inv, CallInv, NextDraw
  PROVE  CallInv'
  <1>1. /\ ~busy /\ Len(draws) < NumDraws(call)
        /\ UNCHANGED <<call, begun>>
        /\ IF NextBound = 1 THEN UniformBelowOne /\ draws' = draws \o result'
           ELSE Call(NBytes(NextBound), NextBound) /\ UNCHANGED draws
    BY Zenon DEF NextDraw, NextBound
  <1>2. PICK f : Drawn(f) /\ Reading(f[Len(draws)])
    BY DEF CallInv
  <1>3. Len(draws) \in Nat /\ Len(draws) \in 0..Len(draws)
    BY DEF CallInv
  <1>4. f[Len(draws)] = Consumed /\ Consumed \in Nat
    BY <1>1, <1>2, ConsumedType DEF Reading, Inv
  <1>5. CASE NextBound = 1
    <2>1. /\ UNCHANGED <<counter, buffer, pos, busy>> /\ result' = <<0>>
          /\ draws' = draws \o result'
      BY <1>1, <1>5 DEF UniformBelowOne
    <2>2. draws' = draws \o <<0>> /\ ~busy' /\ Consumed' = Consumed
      BY <1>1, <2>1 DEF Consumed
    <2>3. Drew(NextBound, f[Len(draws)], 0, Consumed)
      BY <1>4, <1>5, DrewNothing
    <2>4. 0 \in Nat /\ 0 < NextBound
      BY <1>5
    <2>5. QED BY <1>1, <1>2, <1>4, <2>2, <2>3, <2>4, DrawnOne
  <1>6. CASE NextBound # 1
    <2>1. /\ busy' = TRUE /\ want' = NBytes(NextBound) /\ bound' = NextBound /\ out' = <<>>
          /\ UNCHANGED <<counter, buffer, pos>> /\ draws' = draws
      BY <1>1, <1>6 DEF Call
    <2>2. Consumed' = Consumed /\ NextBound' = NextBound
      BY <1>1, <2>1 DEF Consumed, NextBound
    <2>3. NextBound \in Bounds
      BY <1>1, NextBoundTyped
    <2>4. Trying(NextBound, f[Len(draws)])'
      <3>1. Consumed' - Len(out') = f[Len(draws)] + 0 * NBytes(NextBound)
        BY <1>4, <2>1, <2>2, <2>3, AttemptReads
      <3>2. Rejected(NextBound, f[Len(draws)], 0)'
        BY DEF Rejected
      <3>3. QED BY <2>1, <2>2, <3>1, <3>2 DEF Trying
    <2>5. Reading(f[Len(draws)])'
      BY <1>1, <1>6, <2>1, <2>2, <2>4 DEF Reading
    <2>6. Drawn(f)'
      BY <1>1, <1>2, <2>1 DEF Drawn
    <2>7. QED BY <1>1, <2>1, <2>5, <2>6 DEF CallInv
  <1>7. QED BY <1>5, <1>6

\* While a draw is in progress: the bytes of an attempt are read, and it is
\* thrown away or ends the draw.
LEMMA DrawContinues ==
  ASSUME Inv, CallInv, busy, status = "calling", Generate
  PROVE  CallInv'
  <1>1. PICK f : Drawn(f) /\ Reading(f[Len(draws)])
    BY DEF CallInv
  <1> DEFINE b == NextBound
             at == f[Len(draws)]
             n == NBytes(NextBound)
  <1>2. Len(draws) < NumDraws(call) /\ b # 1 /\ Trying(b, at)
    BY <1>1 DEF Reading
  <1>3. b \in Bounds /\ b \in Nat \ {0} /\ n \in Nat \ {0} /\ bound = b /\ want = n
    BY <1>2, NextBoundTyped, AttemptReads DEF Trying
  <1>4. Len(draws) \in Nat /\ at \in Nat
    <2>1. Len(draws) \in Nat /\ Len(draws) \in 0..Len(draws)
      BY DEF CallInv
    <2>2. QED BY <1>1, <2>1 DEF Drawn
  <1>5. PICK k \in Nat : Consumed - Len(out) = at + k * n /\ Rejected(b, at, k)
    BY <1>2 DEF Trying
  <1>6. TypeOK /\ BufferCurrent /\ Squeezed /\ OutContinues /\ Consumed \in Nat
    BY ConsumedType DEF Inv
  <1>7. CASE (RefillAndCopy \/ Copy) /\ UNCHANGED samplingVars
    <2>1. UNCHANGED <<Consumed - Len(out), want, bound, busy>>
      BY <1>7, LoopTurn
    <2>2. UNCHANGED <<call, draws, begun>>
      BY <1>7 DEF samplingVars
    <2>3. Reading(at)'
      <3>1. Trying(b, at)'
        BY <1>2, <2>1, <2>2 DEF Trying, Rejected, NextBound
      <3>2. QED BY <1>2, <2>1, <2>2, <3>1 DEF Reading, NextBound
    <2>4. Drawn(f)'
      BY <1>1, <2>2 DEF Drawn
    <2>5. QED BY <2>2, <2>3, <2>4 DEF CallInv
  <1>8. Filled =>
          /\ Draw(out, b) = Candidate(b, at, k)
          /\ Candidate(b, at, k) \in Nat
          /\ Consumed = at + (k + 1) * n
          /\ k \in 0..(BLOCK_LEN * MaxBlocks)
    <2> SUFFICES ASSUME Filled
                 PROVE  /\ Draw(out, b) = Candidate(b, at, k)
                        /\ Candidate(b, at, k) \in Nat
                        /\ Consumed = at + (k + 1) * n
                        /\ k \in 0..(BLOCK_LEN * MaxBlocks)
      OBVIOUS
    <2>1. Len(out) = n /\ out \in Seq(Byte)
      BY <1>3, <1>6 DEF Filled, TypeOK
    <2>2. out = [j \in 1..n |-> Stream[(at + k * n) + j - 1]]
      <3>1. \A j \in 1..n : out[j] = Stream[(at + k * n) + j - 1]
        BY <1>5, <1>6, <2>1 DEF OutContinues
      <3>2. out = [j \in 1..n |-> out[j]]
        BY <2>1
      <3>3. QED BY <3>1, <3>2, Zenon
    <2>3. Draw(out, b) = Candidate(b, at, k)
      BY <2>2, Zenon DEF Candidate
    <2>4. Draw(out, b) \in Nat
      BY <1>3, <2>1, DrawType
    <2> HIDE DEF n, at, b
    <2>5. (k + 1) * n = k * n + n /\ k * n \in Nat /\ k <= k * n
      BY <1>3, Z3
    <2>6. Consumed = at + (k + 1) * n
      BY <1>3, <1>4, <1>5, <1>6, <2>1, <2>5
    <2>7. k <= Consumed
      BY <1>3, <1>4, <2>5, <2>6
    <2>8. k \in 0..(BLOCK_LEN * MaxBlocks)
      BY <1>6, <2>7, ConsumedBound
    <2>9. QED BY <2>3, <2>4, <2>6, <2>8
  <1>9. CASE Reject /\ UNCHANGED samplingVars
    <2>1. /\ Filled /\ Draw(out, b) \notin 0..(b - 1) /\ out' = <<>>
          /\ UNCHANGED <<counter, buffer, pos, want, bound, busy>>
      BY <1>3, <1>9 DEF Reject
    <2>2. UNCHANGED <<call, draws, begun>>
      BY <1>9 DEF samplingVars
    <2>3. Candidate(b, at, k) \in Nat /\ b <= Candidate(b, at, k)
      <3>1. Candidate(b, at, k) \in Nat /\ Candidate(b, at, k) \notin 0..(b - 1)
        BY <1>8, <2>1
      <3>2. QED BY <1>3, <3>1
    <2>4. Rejected(b, at, k + 1)
      <3>1. \A j \in 0..((k + 1) - 1) : j \in 0..(k - 1) \/ j = k
        OBVIOUS
      <3>2. QED BY <1>5, <2>3, <3>1 DEF Rejected
    <2>5. Consumed' - Len(out') = at + (k + 1) * n
      <3>1. Consumed' = Consumed /\ Len(out') = 0
        BY <2>1 DEF Consumed
      <3>2. QED BY <1>6, <1>8, <2>1, <3>1
    <2>6. Trying(b, at)'
      <3>1. bound' = b' /\ want' = n' /\ n' = n /\ at' = at /\ b' = b
        BY <1>3, <2>1, <2>2 DEF NextBound
      <3>2. k + 1 \in Nat /\ Rejected(b, at, k + 1)'
        BY <2>2, <2>4, <3>1 DEF Rejected
      <3>3. QED BY <2>5, <3>1, <3>2 DEF Trying
    <2>7. Reading(at)'
      BY <1>2, <2>1, <2>2, <2>6 DEF Reading, NextBound
    <2>8. Drawn(f)'
      BY <1>1, <2>2 DEF Drawn
    <2>9. QED BY <2>2, <2>7, <2>8 DEF CallInv
  <1>10. CASE ReturnValue /\ draws' = draws \o result' /\ UNCHANGED <<call, status, samples, begun>>
    <2>1. /\ Filled /\ Draw(out, b) \in 0..(b - 1) /\ result' = <<Draw(out, b)>> /\ ~busy'
          /\ UNCHANGED <<counter, buffer, pos>>
      BY <1>3, <1>10 DEF ReturnValue
    <2> DEFINE v == Candidate(b, at, k)
               to == at + (k + 1) * n
    <2>2. v \in Nat /\ v \in 0..(b - 1) /\ draws' = draws \o <<v>>
      BY <1>8, <1>10, <2>1
    <2>3. Consumed' = to /\ to \in Nat
      <3>1. Consumed' = Consumed
        BY <2>1 DEF Consumed
      <3>2. QED BY <1>6, <1>8, <2>1, <3>1
    <2>4. Drew(b, at, v, to)
      BY <1>2, <1>3, <1>4, <1>5, <1>8, <2>1, <2>2, FirstBelow
    <2>5. v < b
      BY <1>3, <2>2
    <2>6. ~busy' /\ UNCHANGED <<call, begun>>
      BY <1>10, <2>1
    <2> HIDE DEF v, to
    <2>7. QED BY <1>1, <1>2, <2>2, <2>3, <2>4, <2>5, <2>6, DrawnOne
  <1>11. ~ReturnBytes
    BY <1>3 DEF ReturnBytes
  <1>12. QED
    BY <1>7, <1>9, <1>10, <1>11, Zenon DEF Generate

\* In two's complement of I32Bits bits, a number in range is itself.
LEMMA AsI32Exact ==
  ASSUME NEW v \in Int, - 2 ^ (I32Bits - 1) <= v, v < 2 ^ (I32Bits - 1)
  PROVE  AsI32(v) = v
  <1> DEFINE h == 2 ^ (I32Bits - 1)
             m == 2 ^ I32Bits
  <1>1. h \in Nat \ {0} /\ m = 2 * h
    BY SamplingCallsAssumption
  <1>2. -h <= v /\ v < h
    OBVIOUS
  <1>3. AsI32(v) = ((v + h) % m) - h
    BY Zenon DEF AsI32
  <1> HIDE DEF h, m
  <1>4. (v + h) % m = v + h
    <2>1. v + h \in Nat /\ v + h \in 0..(m - 1) /\ v + h = 0 * m + (v + h) /\ m \in Nat \ {0}
      BY <1>1, <1>2
    <2>2. QED BY ONLY <2>1, DivModUnique
  <1>5. QED BY <1>1, <1>3, <1>4

\* The i32 arithmetic of bounded_uniform is exact as long as its bound is an i32.
LEMMA ShiftExact ==
  ASSUME NEW half \in Nat, NEW v \in 0..(2 * half), half < 2 ^ (I32Bits - 1)
  PROVE  WrappingSub(AsI32(v), AsI32(half)) = v - half
  <1> DEFINE h == 2 ^ (I32Bits - 1)
             m == 2 ^ I32Bits
  <1>1. h \in Nat \ {0} /\ m = 2 * h /\ half < h
    BY SamplingCallsAssumption
  <1>2. AsI32(half) = half /\ AsI32(v - half) = v - half
    <2>1. -h <= half /\ half < h /\ -h <= v - half /\ v - half < h /\ v - half \in Int
      <3> HIDE DEF h
      <3>1. QED BY <1>1
    <2>2. QED BY <2>1, AsI32Exact
  <1>3. AsI32(v) = v \/ AsI32(v) = v - m
    <2>1. AsI32(v) = ((v + h) % m) - h
      BY Zenon DEF AsI32
    <2> HIDE DEF h, m
    <2>2. CASE v + h < m
      <3>1. v + h \in Nat /\ v + h \in 0..(m - 1) /\ v + h = 0 * m + (v + h) /\ m \in Nat \ {0}
        BY <1>1, <2>2
      <3>2. (v + h) % m = v + h
        BY ONLY <3>1, DivModUnique
      <3>3. QED BY <1>1, <2>1, <3>2
    <2>3. CASE v + h >= m
      <3>1. /\ v + h \in Nat /\ m \in Nat \ {0} /\ (v + h) - m \in 0..(m - 1)
            /\ v + h = 1 * m + ((v + h) - m)
        BY <1>1, <2>3
      <3>2. (v + h) % m = (v + h) - m
        BY ONLY <3>1, DivModUnique
      <3>3. QED BY <1>1, <2>1, <3>2
    <2>4. QED BY <1>1, <2>2, <2>3
  <1>4. AsI32(v - m - half) = v - half
    <2>1. AsI32(v - m - half) = (((v - m - half) + h) % m) - h
      BY Zenon DEF AsI32
    <2> HIDE DEF h, m
    <2> DEFINE x == (v - m - half) + h
    <2>2. /\ x = (-1) * m + ((v - half) + h) /\ (v - half) + h \in 0..(m - 1)
          /\ m \in Nat \ {0} /\ x \in Int
      BY <1>1
    <2>3. x % m = (v - half) + h
      <3> DEFINE r == (v - half) + h
      <3>1. x + m = r /\ r \in 0..(m - 1) /\ m \in Nat \ {0} /\ x \in Int
        BY <1>1, <2>2
      <3> HIDE DEF x, r
      <3>2. x % m = r
        BY ONLY <3>1, Z3
      <3>3. QED BY <3>2 DEF r
    <2> HIDE DEF x
    <2>4. QED BY <1>1, <2>1, <2>3 DEF x
  <1>5. AsI32(v) - AsI32(half) = v - half \/ AsI32(v) - AsI32(half) = v - m - half
    <2> HIDE DEF h, m
    <2>1. QED BY <1>1, <1>2, <1>3
  <1> HIDE DEF h, m
  <1>6. QED BY <1>2, <1>4, <1>5, Zenon DEF WrappingSub

-----------------------------------------------------------------------------
\* The offsets between the samples of a call that starts at offset start.
Offsets(c, start, g) ==
  g = [i \in 0..c.n |-> IF i = 0 THEN start ELSE Sample(c, g[i - 1]).after]

\* Offsets are determined: the property holds of a call that returns if it
\* holds of any that solve the equation.
LEMMA FollowStreamBy ==
  ASSUME call'.n \in Nat, NEW g, Offsets(call', begun', g), Consumed' = g[call'.n],
         \A i \in 1..call'.n :
           \/ samples'[i] = Sample(call', g[i - 1]).value
           \/ /\ call'.sampler = "bounded_uniform"
              /\ call'.dist.bound >= 2 ^ (I32Bits - 1)
  PROVE  SamplesFollowStream'
  <1> DEFINE n == call'.n
             Solves(x) == x = [i \in 0..n |-> IF i = 0 THEN begun' ELSE Sample(call', x[i - 1]).after]
             at == CHOOSE x : Solves(x)
             Follows(i, x) ==
               \/ samples'[i] = Sample(call', x).value
               \/ /\ call'.sampler = "bounded_uniform"
                  /\ call'.dist.bound >= 2 ^ (I32Bits - 1)
  <1>1. Solves(g)
    BY DEF Offsets
  <1>2. Solves(at)
    BY <1>1, Zenon
  <1>3. Offsets(call', begun', at)
    BY <1>2, Zenon DEF Offsets
  <1>4. ASSUME status' = "returned", Consumed' = at[n], \A i \in 1..n : Follows(i, at[i - 1])
        PROVE  SamplesFollowStream'
    BY <1>4, Zenon DEF SamplesFollowStream
  <1> HIDE DEF at
  <1> DEFINE S == {i \in 0..n : at[i] = g[i]}
  <1>5. 0 \in S
    BY <1>3 DEF Offsets
  <1>6. ASSUME NEW i \in 0..(n - 1), i \in S PROVE i + 1 \in S
    <2>1. i + 1 \in 0..n /\ i + 1 # 0 /\ (i + 1) - 1 = i
      OBVIOUS
    <2>2. at[i + 1] = Sample(call', at[(i + 1) - 1]).after
      BY <1>3, <2>1 DEF Offsets
    <2>3. g[i + 1] = Sample(call', g[(i + 1) - 1]).after
      BY <2>1 DEF Offsets
    <2>4. QED BY <1>6, <2>1, <2>2, <2>3
  <1> HIDE DEF S
  <1>7. \A i \in 0..n : i \in S
    BY ONLY n \in Nat, <1>5, <1>6, SetInduction
  <1>8. \A i \in 0..n : at[i] = g[i]
    BY <1>7 DEF S
  <1>9. n \in 0..n /\ \A i \in 1..n : i - 1 \in 0..n
    OBVIOUS
  <1>10. CASE status' = "returned"
    <2>1. Consumed' = at[n] /\ \A i \in 1..n : Follows(i, at[i - 1])
      BY <1>8, <1>9
    <2>2. QED BY <1>4, <1>10, <2>1
  <1>11. CASE status' # "returned"
    BY <1>11 DEF SamplesFollowStream
  <1>12. QED BY <1>10, <1>11

-----------------------------------------------------------------------------
\* Sample i of the call starts at offset at and ends at offset to.
Sampled(i, at, to) ==
  /\ Sample(call, at).after = to
  /\ \/ Output(call)[i] = Sample(call, at).value
     \/ /\ call.sampler = "bounded_uniform"
        /\ call.dist.bound >= 2 ^ (I32Bits - 1)

LEMMA TernarySampled ==
  ASSUME call \in Calls, Kind(call) = "ternary", NEW i \in 1..call.n, NEW at, NEW to,
         draws[i] \in Nat, draws[i] < 3, Drew(3, at, draws[i], to)
  PROVE  Sampled(i, at, to)
  <1>1. call.sampler # "rns_random" /\ Kind(call) # "bounded" /\ Kind(call) # "gaussian"
    BY CallsAssumption
  <1>2. One(3, at) = [value |-> draws[i], after |-> to]
    BY DEF Drew
  <1>3. Sample(call, at) = [value |-> LiftCentered(call.q, IF draws[i] = 2 THEN -1 ELSE draws[i]), after |-> to]
    <2>1. Sample(call, at) =
            [value |-> LiftCentered(call.q, IF One(3, at).value = 2 THEN -1 ELSE One(3, at).value),
             after |-> One(3, at).after]
      BY <1>1, Zenon DEF Sample
    <2>2. One(3, at).value = draws[i] /\ One(3, at).after = to
      BY <1>2
    <2>3. QED BY <2>1, <2>2, Zenon
  <1>4. Output(call)[i] = LiftCentered(call.q, Coefficient(call, draws[i]))
    BY <1>1 DEF Output
  <1>5. Coefficient(call, draws[i]) = IF draws[i] = 2 THEN -1 ELSE draws[i]
    <2>1. draws[i] = 0 \/ draws[i] = 1 \/ draws[i] = 2
      OBVIOUS
    <2>2. QED BY <2>1 DEF Coefficient
  <1>6. QED BY <1>3, <1>4, <1>5 DEF Sampled

LEMMA BoundedSampled ==
  ASSUME call \in Calls, Kind(call) = "bounded", NEW i \in 1..call.n, NEW at, NEW to,
         draws[i] \in Nat, draws[i] < 2 * call.dist.bound + 1,
         Drew(2 * call.dist.bound + 1, at, draws[i], to)
  PROVE  Sampled(i, at, to)
  <1> DEFINE half == call.dist.bound
  <1>1. /\ call.sampler # "rns_random" /\ half \in Nat
        /\ Kind(call) # "ternary" /\ Kind(call) # "gaussian"
    BY CallsAssumption
  <1>2. One(2 * half + 1, at) = [value |-> draws[i], after |-> to]
    BY DEF Drew
  <1>3. Sample(call, at) = [value |-> LiftCentered(call.q, draws[i] - half), after |-> to]
    <2> DEFINE first == One(2 * half + 1, at)
    <2>1. Sample(call, at) =
            [[value |-> first.value - half, after |-> first.after]
               EXCEPT !.value = LiftCentered(call.q, @)]
      BY <1>1, Zenon DEF Sample
    <2>2. first.value = draws[i] /\ first.after = to
      BY <1>2
    <2> HIDE DEF first
    <2>3. QED BY <2>1, <2>2
  <1>4. Output(call)[i] = LiftCentered(call.q, Coefficient(call, draws[i]))
    BY <1>1 DEF Output
  <1>5. CASE call.sampler = "bounded_uniform" /\ half >= 2 ^ (I32Bits - 1)
    BY <1>3, <1>5 DEF Sampled
  <1>6. CASE call.sampler = "bounded_uniform" /\ ~(half >= 2 ^ (I32Bits - 1))
    <2>1. WrappingSub(AsI32(draws[i]), AsI32(half)) = draws[i] - half
      <3>1. half < 2 ^ (I32Bits - 1) /\ draws[i] \in 0..(2 * half)
        <4> DEFINE h == 2 ^ (I32Bits - 1)
        <4>1. h \in Nat /\ ~(half >= h)
          BY <1>6, SamplingCallsAssumption
        <4> HIDE DEF h
        <4>2. half < h /\ draws[i] \in 0..(2 * half)
          BY <1>1, <4>1
        <4>3. QED BY <4>2 DEF h
      <3>2. QED BY <1>1, <3>1, ShiftExact
    <2>2. Coefficient(call, draws[i]) = draws[i] - half
      BY <1>6, <2>1 DEF Coefficient
    <2>3. QED BY <1>3, <1>4, <2>2 DEF Sampled
  <1>7. CASE call.sampler # "bounded_uniform"
    <2>1. Coefficient(call, draws[i]) = draws[i] - half
      BY <1>7 DEF Coefficient
    <2>2. QED BY <1>3, <1>4, <2>1 DEF Sampled
  <1>8. QED BY <1>5, <1>6, <1>7

LEMMA UniformSampled ==
  ASSUME call \in Calls, Kind(call) = "uniform", call.sampler # "rns_random",
         NEW i \in 1..call.n, NEW at, NEW to, Drew(call.q, at, draws[i], to)
  PROVE  Sampled(i, at, to)
  <1>1. One(call.q, at) = [value |-> draws[i], after |-> to]
    BY DEF Drew
  <1>2. Sample(call, at) = [value |-> draws[i], after |-> to]
    BY <1>1 DEF Sample
  <1>3. Output(call)[i] = draws[i]
    BY DEF Output
  <1>4. QED BY <1>2, <1>3 DEF Sampled

LEMMA GaussianSampled ==
  ASSUME call \in Calls, Kind(call) = "gaussian", NEW i \in 1..call.n, NEW at, NEW mid, NEW to,
         Drew(GaussBound, at, draws[2 * i - 1], mid), Drew(GaussBound, mid, draws[2 * i], to)
  PROVE  Sampled(i, at, to)
  <1>1. /\ One(GaussBound, at) = [value |-> draws[2 * i - 1], after |-> mid]
        /\ One(GaussBound, mid) = [value |-> draws[2 * i], after |-> to]
    BY DEF Drew
  <1> DEFINE v == draws[2 * i - 1]
             w == draws[2 * i]
  <1> HIDE DEF v, w
  <1>2. /\ One(GaussBound, at) = [value |-> v, after |-> mid]
        /\ One(GaussBound, mid) = [value |-> w, after |-> to]
    BY <1>1 DEF v, w
  <1>3. Sample(call, at) = [value |-> LiftCentered(call.q, Gaussian[v][w]), after |-> to]
    <2> DEFINE x == One(GaussBound, at)
               y == One(GaussBound, x.after)
    <2>1. Sample(call, at) =
            LET two == [value |-> <<x.value, y.value>>, after |-> y.after]
            IN  [value |-> LiftCentered(call.q, Gaussian[two.value[1]][two.value[2]]),
                 after |-> two.after]
      <3>1. Kind(call) # "ternary" /\ Kind(call) # "bounded" /\ call.sampler # "rns_random"
        BY CallsAssumption
      <3>2. QED BY <3>1, Zenon DEF Sample
    <2>2. Sample(call, at) = [value |-> LiftCentered(call.q, Gaussian[x.value][y.value]), after |-> y.after]
      <3> DEFINE two == [value |-> <<x.value, y.value>>, after |-> y.after]
      <3>1. two.value[1] = x.value /\ two.value[2] = y.value /\ two.after = y.after
        OBVIOUS
      <3>2. QED BY <2>1, <3>1, Zenon
    <2>3. x.value = v /\ x.after = mid
      BY <1>2
    <2>4. y.value = w /\ y.after = to
      BY <1>2, <2>3
    <2>5. QED BY <2>2, <2>3, <2>4, Zenon
  <1>4. Output(call)[i] = LiftCentered(call.q, Gaussian[v][w])
    <2>1. call.sampler # "rns_random" /\ Kind(call) # "uniform"
      BY CallsAssumption
    <2>2. QED BY <2>1, Zenon DEF Output, v, w
  <1>5. QED BY <1>3, <1>4 DEF Sampled

\* Two adjacent elements of a sequence.
SubSeqPair(seq, m) ==
  LET s == SubSeq(seq, m, m + 1)
  IN  s \in Seq(Nat) /\ Len(s) = 2 /\ s[1] = seq[m] /\ s[2] = seq[m + 1]

LEMMA PairOfSeq ==
  ASSUME NEW seq \in Seq(Nat), NEW m \in Nat, m \in 1..Len(seq), m + 1 \in 1..Len(seq)
  PROVE  SubSeqPair(seq, m)
  <1>1. (m + 1) - m + 1 = 2 /\ m + 1 - 1 = m /\ m + 2 - 1 = m + 1 /\ Len(seq) \in Nat
    OBVIOUS
  <1>2. QED BY <1>1 DEF SubSeqPair

LEMMA PairSampled ==
  ASSUME call \in Calls, call.sampler = "rns_random", draws \in Seq(Nat),
         NEW i \in 1..call.n, NEW at, NEW mid, NEW to, 2 * i <= Len(draws),
         Drew(call.q[1], at, draws[2 * i - 1], mid), Drew(call.q[2], mid, draws[2 * i], to)
  PROVE  Sampled(i, at, to)
  <1>1. Kind(call) # "gaussian" /\ Kind(call) = "uniform" /\ call.n \in Nat
    BY CallsAssumption
  <1> DEFINE v == draws[2 * i - 1]
             w == draws[2 * i]
  <1>2. /\ One(call.q[1], at) = [value |-> v, after |-> mid]
        /\ One(call.q[2], mid) = [value |-> w, after |-> to]
    BY DEF Drew
  <1>3. SubSeq(draws, 2 * i - 1, 2 * i) = <<v, w>>
    <2>1. i \in Nat /\ 2 * i - 1 \in 1..Len(draws) /\ 2 * i \in 1..Len(draws) /\ Len(draws) \in Nat
      BY <1>1
    <2> DEFINE s == SubSeq(draws, 2 * i - 1, 2 * i)
    <2>2. s \in Seq(Nat) /\ Len(s) = 2 /\ s[1] = draws[2 * i - 1] /\ s[2] = draws[2 * i]
      <3> PICK m : m = 2 * i - 1
        OBVIOUS
      <3>1. m \in 1..Len(draws) /\ m + 1 \in 1..Len(draws) /\ 2 * i = m + 1 /\ m \in Nat
        BY <2>1
      <3>2. SubSeqPair(draws, m)
        BY ONLY draws \in Seq(Nat), <3>1, PairOfSeq
      <3>3. QED BY <3>1, <3>2, Zenon DEF SubSeqPair
    <2> HIDE DEF s, v, w
    <2>3. s = <<s[1], s[2]>>
      BY <2>2
    <2>4. QED BY <2>2, <2>3 DEF s, v, w
  <1> HIDE DEF v, w
  <1>4. Sample(call, at) = [value |-> <<v, w>>, after |-> to]
    <2> DEFINE x == One(call.q[1], at)
               y == One(call.q[2], x.after)
    <2>1. Kind(call) # "ternary" /\ Kind(call) # "bounded" /\ Kind(call) # "gaussian"
      BY <1>1
    <2>2. Sample(call, at) = [value |-> <<x.value, y.value>>, after |-> y.after]
      BY <2>1, Zenon DEF Sample
    <2>3. x.value = v /\ x.after = mid
      BY <1>2
    <2>4. y.value = w /\ y.after = to
      BY <1>2, <2>3
    <2>5. QED BY <2>2, <2>3, <2>4, Zenon
  <1>5. Output(call)[i] = SubSeq(draws, 2 * i - 1, 2 * i)
    BY <1>1, Zenon DEF Output
  <1>6. QED BY <1>3, <1>4, <1>5 DEF Sampled

\* What a u64 holds.
Words == 0..(USize - 1)

\* What a sampler returned: what its draws make of the stream, words if the
\* draws are the samples.
ReturnInv ==
  /\ ~busy /\ call \in Calls
  /\ SamplesFollowStream
  /\ Kind(call) = "uniform" /\ call.sampler # "rns_random" => samples \in Seq(Words)

\* Each sample of the call that returns takes as many draws as its kind says.
LEMMA AllSampled ==
  ASSUME CallInv, Len(draws) = NumDraws(call), NEW f, Drawn(f),
         NEW i \in 1..call.n
  PROVE  LET d == DrawsPerSample(call)
         IN  Sampled(i, f[(i - 1) * d], f[i * d])
  <1>1. /\ call \in Calls /\ draws \in Seq(Nat) /\ call.n \in Nat /\ i \in Nat /\ i <= call.n
        /\ \A j \in 1..Len(draws) : draws[j] < DrawBound(call, j)
        /\ \A j \in 1..Len(draws) : Drew(DrawBound(call, j), f[j - 1], draws[j], f[j])
    BY CallsAssumption DEF CallInv, Drawn
  <1>2. /\ Kind(call) \in {"ternary", "bounded", "gaussian", "uniform"}
        /\ call.sampler = "rns_random" => Kind(call) = "uniform" /\ call.q \in [1..2 -> Nat]
    BY <1>1, CallsAssumption
  <1>3. CASE Kind(call) # "gaussian" /\ call.sampler # "rns_random"
    <2>1. DrawsPerSample(call) = 1
      BY <1>3 DEF DrawsPerSample
    <2>2. (i - 1) * 1 = i - 1 /\ i * 1 = i /\ Len(draws) = call.n
      BY <1>1, <2>1 DEF NumDraws
    <2>3. /\ draws[i] \in Nat /\ draws[i] < DrawBound(call, i)
          /\ Drew(DrawBound(call, i), f[i - 1], draws[i], f[i])
      BY <1>1, <2>2
    <2>4. Sampled(i, f[i - 1], f[i])
      <3>1. CASE Kind(call) = "ternary"
        <4>1. DrawBound(call, i) = 3
          BY <1>3, <3>1 DEF DrawBound
        <4>2. QED BY <1>1, <2>3, <3>1, <4>1, TernarySampled
      <3>2. CASE Kind(call) = "bounded"
        <4>1. DrawBound(call, i) = 2 * call.dist.bound + 1
          BY <1>3, <3>2 DEF DrawBound
        <4>2. QED BY <1>1, <2>3, <3>2, <4>1, BoundedSampled
      <3>3. CASE Kind(call) = "uniform"
        <4>1. DrawBound(call, i) = call.q
          BY <1>3, <3>3 DEF DrawBound
        <4>2. QED BY <1>1, <1>3, <2>3, <3>3, <4>1, UniformSampled
      <3>4. QED BY <1>2, <1>3, <3>1, <3>2, <3>3
    <2>5. QED BY <2>1, <2>2, <2>4
  <1>4. CASE Kind(call) = "gaussian" \/ call.sampler = "rns_random"
    <2>1. DrawsPerSample(call) = 2
      BY <1>2, <1>4 DEF DrawsPerSample
    <2>2. /\ (i - 1) * 2 = 2 * i - 2 /\ i * 2 = 2 * i /\ Len(draws) = call.n * 2
          /\ (2 * i - 1) - 1 = 2 * i - 2
      BY <1>1, <2>1 DEF NumDraws
    <2>3. 2 * i - 1 \in 1..Len(draws) /\ 2 * i \in 1..Len(draws)
      BY <1>1, <2>2
    <2>4. /\ Drew(DrawBound(call, 2 * i - 1), f[2 * i - 2], draws[2 * i - 1], f[2 * i - 1])
          /\ Drew(DrawBound(call, 2 * i), f[2 * i - 1], draws[2 * i], f[2 * i])
      BY <1>1, <2>2, <2>3
    <2>5. Sampled(i, f[2 * i - 2], f[2 * i])
      <3>1. CASE Kind(call) = "gaussian"
        <4>1. call.sampler # "rns_random"
          BY <1>2, <3>1
        <4>2. DrawBound(call, 2 * i - 1) = GaussBound /\ DrawBound(call, 2 * i) = GaussBound
          BY <3>1, <4>1 DEF DrawBound
        <4>3. QED BY <1>1, <2>4, <3>1, <4>2, GaussianSampled
      <3>2. CASE call.sampler = "rns_random"
        <4>1. Len(call.q) = 2 /\ Kind(call) = "uniform"
          BY <1>2, <3>2
        <4>2. ((2 * i - 1) - 1) % 2 = 0 /\ (2 * i - 1) % 2 = 1
          <5>1. /\ (2 * i - 1) - 1 = (i - 1) * 2 + 0 /\ 2 * i - 1 = (i - 1) * 2 + 1
                /\ i - 1 \in Nat /\ (2 * i - 1) - 1 \in Nat /\ 2 * i - 1 \in Nat
                /\ 2 \in Nat \ {0} /\ 0 \in 0..(2 - 1) /\ 1 \in 0..(2 - 1)
            BY <1>1
          <5>2. QED BY ONLY <5>1, DivModUnique
        <4>3. DrawBound(call, 2 * i - 1) = call.q[1] /\ DrawBound(call, 2 * i) = call.q[2]
          <5>1. Kind(call) # "ternary" /\ Kind(call) # "bounded" /\ Kind(call) # "gaussian"
            BY <4>1
          <5>2. \A j : DrawBound(call, j) = call.q[((j - 1) % Len(call.q)) + 1]
            BY <3>2, <5>1, Zenon DEF DrawBound
          <5>3. /\ DrawBound(call, 2 * i - 1) = call.q[(((2 * i - 1) - 1) % 2) + 1]
                /\ DrawBound(call, 2 * i) = call.q[((2 * i - 1) % 2) + 1]
            BY <4>1, <5>2, Zenon
          <5>4. 0 + 1 = 1 /\ 1 + 1 = 2
            OBVIOUS
          <5>5. QED BY <4>2, <5>3, <5>4, Zenon
        <4>4. 2 * i <= Len(draws)
          BY <2>3
        <4>5. QED BY <1>1, <2>4, <3>2, <4>3, <4>4, PairSampled
      <3>3. QED BY <1>4, <3>1, <3>2
    <2>6. QED BY <2>1, <2>2, <2>5
  <1>5. QED BY <1>3, <1>4

\* A sampler that returns leaves its samples.
LEMMA ReturnFollows ==
  ASSUME Inv, CallInv, SamplerReturn
  PROVE  ReturnInv'
  <1>1. /\ ~busy /\ Len(draws) = NumDraws(call)
        /\ samples' = Output(call) /\ status' = "returned"
        /\ UNCHANGED <<counter, buffer, pos, busy, call, begun>>
    BY DEF SamplerReturn, vars
  <1>2. PICK f : Drawn(f) /\ Reading(f[Len(draws)])
    BY DEF CallInv
  <1>3. call \in Calls /\ draws \in Seq(Nat) /\ call.n \in Nat
    BY CallsAssumption DEF CallInv
  <1> PICK d : d = DrawsPerSample(call)
    OBVIOUS
  <1> PICK g : g = [i \in 0..call.n |-> f[i * d]]
    OBVIOUS
  <1>4. \A i \in 1..call.n : Sampled(i, g[i - 1], g[i])
    <2> TAKE i \in 1..call.n
    <2>1. i \in 0..call.n /\ i - 1 \in 0..call.n
      BY <1>3
    <2>2. g[i] = f[i * d] /\ g[i - 1] = f[(i - 1) * d]
      BY <2>1
    <2>3. QED BY <1>1, <1>2, <2>2, AllSampled
  <1>5. Offsets(call, begun, g)
    <2>1. g[0] = begun
      <3>1. 0 \in 0..call.n /\ 0 * d = 0
        <4>1. d \in Nat
          BY <1>3, CallsAssumption DEF DrawsPerSample
        <4>2. QED BY <1>3, <4>1
      <3>2. QED BY <1>2, <3>1 DEF Drawn
    <2>2. \A i \in 0..call.n : g[i] = IF i = 0 THEN begun ELSE Sample(call, g[i - 1]).after
      <3> TAKE i \in 0..call.n
      <3>1. CASE i = 0
        BY <2>1, <3>1
      <3>2. CASE i # 0
        <4>1. i \in 1..call.n
          BY <3>2
        <4>2. QED BY <1>4, <3>2, <4>1 DEF Sampled
      <3>3. QED BY <3>1, <3>2
    <2>3. g = [i \in 0..call.n |-> g[i]]
      OBVIOUS
    <2>4. QED BY <2>2, <2>3, Zenon DEF Offsets
  <1>6. Consumed' = g[call.n]
    <2>1. Consumed' = Consumed
      BY <1>1 DEF Consumed
    <2>2. Consumed = f[Len(draws)]
      BY <1>1, <1>2 DEF Reading
    <2>3. g[call.n] = f[Len(draws)]
      BY <1>1, <1>3 DEF NumDraws
    <2>4. QED BY <2>1, <2>2, <2>3
  <1>7. \A i \in 1..call.n :
          \/ samples'[i] = Sample(call, g[i - 1]).value
          \/ /\ call.sampler = "bounded_uniform"
             /\ call.dist.bound >= 2 ^ (I32Bits - 1)
    BY <1>1, <1>4, Zenon DEF Sampled
  <1>8. SamplesFollowStream'
    <2>1. call' = call /\ begun' = begun
      BY <1>1
    <2>2. QED BY <1>3, <1>5, <1>6, <1>7, <2>1, FollowStreamBy
  <1>9. Kind(call) = "uniform" /\ call.sampler # "rns_random" => samples' \in Seq(Words)
    <2> SUFFICES ASSUME Kind(call) = "uniform", call.sampler # "rns_random"
                 PROVE  samples' \in Seq(Words)
      OBVIOUS
    <2>1. DrawsPerSample(call) = 1
      BY DEF DrawsPerSample
    <2>2. Len(draws) = call.n
      BY <1>1, <1>3, <2>1 DEF NumDraws
    <2>3. ASSUME NEW i \in 1..call.n PROVE draws[i] \in Words
      <3>1. i \in 1..Len(draws) /\ i \in 1..NumDraws(call)
        BY <1>1, <2>2
      <3>2. draws[i] \in Nat /\ draws[i] < DrawBound(call, i) /\ DrawBound(call, i) \in Bounds
        BY <1>3, <3>1, DrawsTyped DEF CallInv
      <3> DEFINE b == DrawBound(call, i)
                 w == 2 ^ Width
      <3>3. b \in 1..(w - 1) /\ w \in Int
        <4>1. w \in Int
          BY SamplingAssumption, SMT
        <4>2. b \in 1..(w - 1)
          BY <3>2, PrgAssumption
        <4>3. QED BY <4>1, <4>2
      <3>4. draws[i] \in Nat /\ draws[i] < b
        BY <3>2
      <3> HIDE DEF b, w
      <3>5. draws[i] \in 0..(w - 1)
        BY <3>3, <3>4
      <3>6. QED BY <3>5, Zenon DEF w, USize, Words
    <2>4. samples' = [i \in 1..call.n |-> draws[i]]
      <3>1. Kind(call) # "gaussian"
        OBVIOUS
      <3>2. QED BY <1>1, <3>1, Zenon DEF Output
    <2> DEFINE n == call.n
    <2>6. n \in Nat /\ \A i \in 1..n : draws[i] \in Words
      BY <1>3, <2>3
    <2>7. samples' = [i \in 1..n |-> draws[i]]
      BY <2>4
    <2> HIDE DEF n
    <2>8. [i \in 1..n |-> draws[i]] \in Seq(Words)
      BY <2>6
    <2>9. QED BY <2>7, <2>8
  <1>10. QED BY <1>1, <1>3, <1>8, <1>9 DEF ReturnInv

\* No samplers are called while a direct call of the generator runs.
SampleInv ==
  /\ status \in {"none", "calling", "returned"}
  /\ status = "calling" => CallInv
  /\ status = "returned" => ReturnInv

\* The samplers use the generator by its calls only.
LEMMA SamplersCallPrg ==
  ASSUME SampleInv, SamplingNext
  PROVE  [Next]_vars
  <1>1. CASE \E c \in Calls : SamplerCall(c)
    BY <1>1, Zenon DEF SamplerCall
  <1>2. CASE NextDraw
    <2>1. /\ status = "calling" /\ Len(draws) < NumDraws(call)
          /\ IF NextBound = 1 THEN UniformBelowOne
             ELSE Call(NBytes(NextBound), NextBound)
      BY <1>2, Zenon DEF NextDraw, NextBound
    <2>2. NextBound \in Bounds
      BY <2>1, NextBoundTyped DEF SampleInv
    <2>3. CASE NextBound = 1
      BY <2>1, <2>3 DEF Next
    <2>4. CASE NextBound # 1
      <3>1. UniformBelow
        BY <2>1, <2>2, <2>4 DEF UniformBelow
      <3>2. QED BY <3>1 DEF Next
    <2>5. QED BY <2>3, <2>4
  <1>3. CASE SamplerReturn
    BY <1>3, Zenon DEF SamplerReturn
  <1>4. CASE DirectCall
    BY <1>4, Zenon DEF DirectCall, Next
  <1>5. CASE Generate
    BY <1>5, Zenon DEF Generate, Next
  <1>6. QED BY <1>1, <1>2, <1>3, <1>4, <1>5, Zenon DEF SamplingNext

LEMMA SampleInvStep ==
  ASSUME Inv, SampleInv, SamplingNext
  PROVE  SampleInv'
  <1>1. CASE \E c \in Calls : SamplerCall(c)
    <2>1. PICK c \in Calls : SamplerCall(c)
      BY <1>1
    <2>2. status' = "calling"
      BY <2>1, Zenon DEF SamplerCall
    <2>3. CallInv'
      BY <2>1, CallStarts
    <2>4. QED BY <2>2, <2>3 DEF SampleInv
  <1>2. CASE NextDraw
    <2>1. status = "calling" /\ status' = "calling"
      BY <1>2, Zenon DEF NextDraw
    <2>2. CallInv'
      BY <1>2, <2>1, DrawStarts DEF SampleInv
    <2>3. QED BY <2>1, <2>2 DEF SampleInv
  <1>3. CASE SamplerReturn
    <2>1. status = "calling" /\ status' = "returned"
      BY <1>3, Zenon DEF SamplerReturn
    <2>2. ReturnInv'
      BY <1>3, <2>1, ReturnFollows DEF SampleInv
    <2>3. QED BY <2>1, <2>2 DEF SampleInv
  <1>4. CASE DirectCall
    <2>1. status' = "none"
      BY <1>4, Zenon DEF DirectCall
    <2>2. QED BY <2>1 DEF SampleInv
  <1>5. CASE Generate
    <2>1. busy /\ status' = status
      <3>1. (RefillAndCopy \/ Copy \/ ReturnBytes \/ Reject) => busy
        BY Zenon DEF RefillAndCopy, Copy, ReturnBytes, Reject, Filled
      <3>2. ReturnValue => busy
        BY Zenon DEF ReturnValue, Filled
      <3>3. QED BY <1>5, <3>1, <3>2, Zenon DEF Generate, samplingVars
    <2>2. CASE status = "calling"
      <3>1. CallInv'
        BY <1>5, <2>1, <2>2, DrawContinues DEF SampleInv
      <3>2. QED BY <2>1, <2>2, <3>1 DEF SampleInv
    <2>3. CASE status # "calling"
      <3>1. status # "returned"
        BY <2>1 DEF SampleInv, ReturnInv
      <3>2. QED BY <2>1, <2>3, <3>1 DEF SampleInv
    <2>4. QED BY <2>2, <2>3
  <1>6. QED BY <1>1, <1>2, <1>3, <1>4, <1>5, Zenon DEF SamplingNext

\* SamplesFollowStream of any values of the variables.
Following(c, start, end, got, st) ==
  st = "returned" =>
    LET at[i \in 0..c.n] == IF i = 0 THEN start ELSE Sample(c, at[i - 1]).after
    IN  /\ end = at[c.n]
        /\ \A i \in 1..c.n :
             \/ got[i] = Sample(c, at[i - 1]).value
             \/ /\ c.sampler = "bounded_uniform"
                /\ c.dist.bound >= 2 ^ (I32Bits - 1)

LEMMA SampleInvStutter ==
  ASSUME SampleInv, UNCHANGED <<vars, samplingVars>>
  PROVE  SampleInv'
  <1>1. /\ UNCHANGED <<counter, buffer, pos, want, bound, busy, out, result>>
        /\ UNCHANGED <<call, status, draws, samples, begun>>
    BY DEF vars, samplingVars
  <1>2. Consumed' = Consumed
    BY <1>1 DEF Consumed
  <1>3. CallInv => CallInv'
    BY <1>1, <1>2 DEF CallInv, Drawn, Reading, Trying, NextBound
  <1>4. SamplesFollowStream => SamplesFollowStream'
    <2>1. /\ SamplesFollowStream => Following(call, begun, Consumed, samples, status)
          /\ Following(call', begun', Consumed', samples', status') => SamplesFollowStream'
      BY Zenon DEF SamplesFollowStream, Following
    <2>2. QED BY <1>1, <1>2, <2>1
  <1>5. ReturnInv => ReturnInv'
    BY <1>1, <1>4 DEF ReturnInv
  <1>6. QED BY <1>1, <1>3, <1>5 DEF SampleInv

-----------------------------------------------------------------------------
(***************************************************************************)
(* The codec.                                                              *)
(***************************************************************************)

\* A usize is as long as a word on the wire.
LEMMA WireNumbers ==
  /\ WordLen \in Nat \ {0} /\ SeedLen \in Nat
  /\ Short(WordLen) /\ USize = Place(WordLen)
  /\ USize \in Nat \ {0} /\ IsizeMax \in Nat /\ USize = 2 * (IsizeMax + 1)
  /\ \A format \in Formats :
       /\ HeaderLen(format) \in Nat /\ WordLen < HeaderLen(format)
       /\ HeaderLen(format) <= IsizeMax
       /\ Tag(format) \in {0, 1}
  <1>1. /\ WordLen \in Nat \ {0} /\ SeedLen \in Nat /\ ByteBits \in Nat \ {0} /\ Width \in Nat \ {0}
        /\ WordLen * ByteBits = Width /\ (1 + SeedLen) + WordLen <= IsizeMax
    BY WireAssumption, SamplingAssumption
  <1>2. ByteBits * WordLen = Width
    BY <1>1, Z3
  <1>3. MaxPow \in Nat /\ Width <= MaxPow /\ Width - 1 \in 0..MaxPow /\ Width \in 0..MaxPow
    BY <1>1 DEF MaxPow
  <1>4. Short(WordLen)
    BY <1>1, <1>2, <1>3 DEF Short
  <1>5. USize = Pow(Width) /\ IsizeMax = Pow(Width - 1) - 1
    BY Zenon DEF USize, IsizeMax, Pow
  <1>6. /\ Pow(Width - 1) \in Nat \ {0} /\ Pow(Width) \in Nat \ {0}
        /\ Pow((Width - 1) + 1) = 2 * Pow(Width - 1)
    BY <1>3, PowDoubles
  <1>7. (Width - 1) + 1 = Width
    BY <1>1
  <1>8. USize = Place(WordLen)
    BY <1>2, <1>5, Zenon DEF Place
  <1>9. USize \in Nat \ {0} /\ IsizeMax \in Nat /\ USize = 2 * (IsizeMax + 1)
    BY <1>5, <1>6, <1>7
  <1>10. ASSUME NEW format \in Formats
         PROVE  /\ HeaderLen(format) \in Nat /\ WordLen < HeaderLen(format)
                /\ HeaderLen(format) <= IsizeMax
                /\ Tag(format) \in {0, 1}
    BY <1>1, <1>9 DEF HeaderLen, Tag, Formats
  <1>11. QED BY <1>1, <1>4, <1>8, <1>9, <1>10

\* Wrapping the product before the sum changes nothing.
SumWraps(a, x, m) == (a + (x % m)) % m = (a + x) % m

LEMMA WrapSum ==
  ASSUME NEW a \in Nat, NEW x \in Nat, NEW m \in Nat \ {0}
  PROVE  SumWraps(a, x, m)
  <1> DEFINE q == x \div m
             r == x % m
             p == (a + r) \div m
             s == (a + r) % m
  <1>1. q \in Nat /\ r \in 0..(m - 1) /\ x = m * q + r
    BY DivMod
  <1> HIDE DEF q, r
  <1>2. a + r \in Nat
    BY <1>1
  <1>3. p \in Nat /\ s \in 0..(m - 1) /\ a + r = m * p + s
    BY <1>2, DivMod
  <1> HIDE DEF p, s
  <1>4. a + x = (q + p) * m + s
    <2>1. (q + p) * m = m * q + m * p /\ m * q \in Nat /\ m * p \in Nat
      BY <1>1, <1>3, Z3
    <2>2. QED BY <1>1, <1>3, <2>1
  <1>5. (a + x) % m = s
    <2>1. a + x \in Nat /\ q + p \in Nat
      BY <1>1, <1>3
    <2>2. QED BY ONLY <1>3, <1>4, <2>1, m \in Nat \ {0}, DivModUnique
  <1>6. QED BY <1>5, Zenon DEF SumWraps, s, r

\* A field of the packet is a word.
LEMMA FieldTyped ==
  ASSUME packet \in Seq(Byte), NEW from \in Nat, from + WordLen <= Len(packet)
  PROVE  Field(from, WordLen) \in Words
  <1>1. WordLen \in Nat \ {0} /\ Short(WordLen) /\ USize = Place(WordLen)
    BY WireNumbers
  <1> DEFINE s == SubSeq(packet, from + 1, from + WordLen)
  <1>2. s \in Seq(Byte) /\ Len(s) = WordLen
    BY <1>1
  <1> HIDE DEF s
  <1>3. s \in [1..WordLen -> Byte]
    BY <1>1, <1>2
  <1>4. Word(s) \in 0..(Place(WordLen) - 1)
    BY <1>1, <1>3, WordBijective
  <1>5. QED BY <1>1, <1>4 DEF Field, s, Words

\* A refusal is justified by the bytes that are lacking.
LEMMA LackingJustified ==
  ASSUME NEW format \in Formats, NEW r, r.kind \in {"BufferTooShort", "panic"},
         Len(packet) < Needed(format),
         packet # <<>> => packet[1] = Tag(format),
         Needed(format) < USize =>
           r = TooShort(IF packet = <<>> THEN 1 ELSE Needed(format), Len(packet))
  PROVE  Justified(format, r)
  <1>1. r.kind # "ok" /\ r.kind # "UnknownFormatTag"
    OBVIOUS
  <1>2. QED BY <1>1, Zenon DEF Justified

\* Whatever the bytes, the answer of deserialize is justified by them.
LEMMA AnswersJustified ==
  ASSUME packet \in Seq(Byte), Len(packet) <= IsizeMax,
         NEW format \in Formats, NEW checked \in BOOLEAN, NEW r,
         r = Deserialize(format, packet, checked)
  PROVE  Justified(format, r)
  <1> DEFINE W == WordLen
             H == HeaderLen(format)
             U == USize
             M == IsizeMax
             n == Len(packet)
             count == Field(H - W, W)
             x == count * W
             end == (H + x) % U
  <1>1. /\ W \in Nat \ {0} /\ H \in Nat /\ W < H /\ H <= M /\ M \in Nat /\ U = 2 * (M + 1)
        /\ U \in Nat \ {0} /\ n \in Nat /\ n <= M /\ Tag(format) \in {0, 1}
    BY WireNumbers
  <1>2. packet # <<>> => n # 0
    BY <1>1
  <1>3. CASE packet = <<>>
    <2>1. r = TooShort(1, 0)
      BY <1>3, Zenon DEF Deserialize
    <2>2. r = [kind |-> "BufferTooShort", needed |-> 1, got |-> 0] /\ n = 0
      BY <1>3, <2>1 DEF TooShort
    <2> HIDE DEF H, n, count
    <2>3. r.kind = "BufferTooShort" /\ r = TooShort(1, Len(packet))
      BY <2>1, <2>2 DEF n
    <2>4. Len(packet) < Needed(format)
      <3>1. Len(packet) < HeaderLen(format)
        BY <1>1, <2>2 DEF H, n
      <3>2. Needed(format) = HeaderLen(format)
        BY <3>1, Zenon DEF Needed
      <3>3. QED BY <3>1, <3>2
    <2>5. QED BY <1>3, <2>3, <2>4, LackingJustified
  <1>4. CASE packet # <<>> /\ packet[1] # Tag(format)
    <2>1. r = UnknownTag(packet[1])
      BY <1>4, Zenon DEF Deserialize
    <2>2. r = [kind |-> "UnknownFormatTag", tag |-> packet[1]]
      BY <2>1, Zenon DEF UnknownTag
    <2>3. r.kind = "UnknownFormatTag" /\ r.tag = packet[1]
      BY <2>2
    <2>4. r.kind # "ok" /\ r.kind # "BufferTooShort" /\ r.kind # "panic"
      BY <2>3
    <2>5. QED BY <1>4, <2>3, <2>4, Zenon DEF Justified
  <1>5. CASE packet # <<>> /\ packet[1] = Tag(format) /\ n < H
    <2>1. r = TooShort(H, n)
      BY <1>5, Zenon DEF Deserialize
    <2>2. r = [kind |-> "BufferTooShort", needed |-> H, got |-> n]
      BY <2>1, Zenon DEF TooShort
    <2>3. r.kind = "BufferTooShort"
      BY <2>2
    <2>4. Needed(format) = H
      BY <1>5, Zenon DEF Needed
    <2>5. QED BY <1>5, <2>1, <2>3, <2>4, LackingJustified
  <1>6. CASE packet # <<>> /\ packet[1] = Tag(format) /\ ~(n < H)
    <2>1. count \in Nat /\ x \in Nat
      <3>1. H - W \in Nat /\ (H - W) + W <= n
        BY <1>1, <1>6
      <3>2. count \in 0..(USize - 1)
        BY <3>1, FieldTyped DEF Words
      <3>3. count \in Nat
        BY <1>1, <3>2
      <3> HIDE DEF count
      <3>4. QED BY <1>1, <3>3, Z3
    <2>2. count = Word(SubSeq(packet, H - W + 1, H))
      <3>1. (H - W) + W = H
        BY <1>1
      <3>2. QED BY <3>1 DEF Field
    <2>3. r = DecodeCoeffs(packet, H, count, checked)
      <3>1. ~(Len(packet) < HeaderLen(format))
        BY <1>6
      <3>2. r = DecodeCoeffs(packet, H, Word(SubSeq(packet, H - W + 1, H)), checked)
        BY <1>6, <3>1, Zenon DEF Deserialize
      <3>3. QED BY <2>2, <3>2, Zenon
    <2>4. (H + (x % U)) % U = end
      <3> HIDE DEF H, U, x
      <3>1. SumWraps(H, x, U)
        BY <1>1, <2>1, WrapSum
      <3>2. QED BY <3>1, Zenon DEF SumWraps
    <2>5. r = IF checked /\ H + x >= U THEN Panic
              ELSE IF n < end THEN TooShort(end, n)
              ELSE IF x > M THEN Panic
              ELSE Ok(DecodeFrom(packet, H, count))
      <3> HIDE DEF H, count
      <3>1. r = IF checked /\ H + x >= U THEN Panic
                ELSE IF n < (H + (x % U)) % U THEN TooShort((H + (x % U)) % U, n)
                ELSE IF x > M THEN Panic
                ELSE Ok(DecodeFrom(packet, H, count))
        BY <2>3, Zenon DEF DecodeCoeffs
      <3>2. QED BY <2>4, <3>1, Zenon
    <2> HIDE DEF H, U, M, n, count, x
    <2>6. end \in Nat /\ (H + x < U => end = H + x)
      <3>1. H + x \in Nat
        BY <1>1, <2>1
      <3>2. end \in 0..(U - 1)
        BY <1>1, <3>1, DivMod
      <3>3. ASSUME H + x < U PROVE (H + x) % U = H + x
        <4>1. H + x = 0 * U + (H + x) /\ H + x \in 0..(U - 1)
          BY <1>1, <3>1, <3>3
        <4>2. QED BY ONLY <1>1, <3>1, <4>1, DivModUnique
      <3>4. QED BY <1>1, <3>2, <3>3
    <2>7. Needed(format) = H + x
      BY <1>6, Zenon DEF Needed, x, count, H, n
    <2> HIDE DEF end
    <2>8. CASE r = Panic /\ H + x >= U
      <3>1. r.kind = "panic"
        BY <2>8 DEF Panic
      <3>2. ~(Needed(format) < USize) /\ Len(packet) < Needed(format)
        BY <1>1, <2>1, <2>7, <2>8 DEF U, n
      <3>3. QED BY <1>6, <3>1, <3>2, LackingJustified
    <2>9. CASE r = TooShort(end, n) /\ n < end
      <3>1. r.kind = "BufferTooShort"
        BY <2>9 DEF TooShort
      <3>2. Needed(format) < USize => r = TooShort(Needed(format), Len(packet))
        BY <2>6, <2>7, <2>9 DEF U, n
      <3>3. Len(packet) < Needed(format)
        BY <1>1, <2>1, <2>6, <2>7, <2>9 DEF n
      <3>4. QED BY <1>6, <3>1, <3>2, <3>3, LackingJustified
    <2>10. CASE r = Ok(DecodeFrom(packet, H, count)) /\ H + x <= n
      <3>1. r.kind = "ok" /\ r.values = DecodeFrom(packet, H, count)
        BY <2>10 DEF Ok
      <3>2. r.kind # "BufferTooShort" /\ r.kind # "UnknownFormatTag" /\ r.kind # "panic"
        BY <3>1
      <3>3. r.values = [i \in 1..count |-> Word(SubSeq(packet, (H + (i - 1) * W) + 1, H + i * W))]
        BY <3>1, Zenon DEF DecodeFrom
      <3>4. Len(r.values) = count
        BY <2>1, <3>3
      <3>5. \A i \in 1..count : Field(H + (i - 1) * W, W) = r.values[i]
        <4> TAKE i \in 1..count
        <4>1. i \in Nat
          BY <2>1
        <4>2. (H + (i - 1) * W) + W = H + i * W
          <5>1. (i - 1) * W + W = i * W /\ (i - 1) * W \in Int
            BY <1>1, <4>1, Z3
          <5>2. QED BY <1>1, <5>1
        <4>3. r.values[i] = Word(SubSeq(packet, (H + (i - 1) * W) + 1, (H + (i - 1) * W) + W))
          BY <3>3, <4>2, Zenon
        <4>4. QED BY <4>3, Zenon DEF Field
      <3>6. Field(0, 1) = Tag(format)
        <4>1. SubSeq(packet, 0 + 1, 0 + 1) = <<packet[1]>>
          <5> DEFINE s == SubSeq(packet, 1, 1)
          <5>1. s \in Seq(Byte) /\ Len(s) = 1 /\ s[1] = packet[1]
            BY <1>1, <1>6 DEF n
          <5> HIDE DEF s
          <5>2. s = <<s[1]>>
            BY <5>1
          <5>3. QED BY <5>1, <5>2 DEF s
        <4>2. Word(<<packet[1]>>) = packet[1]
          <5> PICK b : b = packet[1]
            OBVIOUS
          <5> PICK s : s = <<b>>
            OBVIOUS
          <5> PICK f : f = [k \in 0..1 |-> IF k = 0 THEN 0 ELSE b]
            OBVIOUS
          <5>1. b \in Nat
            BY <1>1, <1>6
          <5>2. Len(s) = 1 /\ s[1] = b
            OBVIOUS
          <5>3. Place(0) = 1
            BY WireNumbers, PlaceSteps
          <5>4. Values(f, s, 1)
            <6>1. f[0] = 0 /\ f[1] = f[0] + s[1] * Place(0)
              BY <5>1, <5>2, <5>3
            <6>2. \A k \in 0..1 : k = 0 \/ k = 1
              OBVIOUS
            <6>3. \A k \in 0..1 : f[k] = IF k = 0 THEN 0 ELSE f[k - 1] + s[k] * Place(k - 1)
              BY <6>1, <6>2
            <6>4. f = [k \in 0..1 |-> f[k]]
              OBVIOUS
            <6>5. QED BY <6>3, <6>4, Zenon DEF Values
          <5>5. Word(s) = f[1]
            BY <5>2, <5>4, WordUnfolds
          <5>6. QED BY <5>5
        <4>3. QED BY <1>6, <4>1, <4>2, Zenon DEF Field
      <3>7. Encodes(format, r.values)
        BY <2>10, <3>4, <3>5, <3>6, Zenon DEF Encodes, H, W, n, x, count
      <3>8. QED BY <3>1, <3>2, <3>7, Zenon DEF Justified
    <2>11. QED
      <3>1. CASE checked /\ H + x >= U
        BY <2>5, <2>8, <3>1
      <3>2. CASE ~(checked /\ H + x >= U) /\ n < end
        BY <2>5, <2>9, <3>2
      <3>3. CASE ~(checked /\ H + x >= U) /\ ~(n < end) /\ x > M
        <4>1. H + x >= U
          BY <1>1, <2>1, <2>6, <3>3
        <4>2. QED BY <2>5, <2>8, <3>3, <4>1
      <3>4. CASE ~(checked /\ H + x >= U) /\ ~(n < end) /\ ~(x > M)
        <4>1. H + x < U
          BY <1>1, <2>1, <3>4
        <4>2. H + x <= n
          BY <1>1, <2>1, <2>6, <3>4, <4>1
        <4>3. QED BY <2>5, <2>10, <3>4, <4>2
      <3>5. QED BY <3>1, <3>2, <3>3, <3>4
  <1> HIDE DEF H, n
  <1>7. QED BY <1>3, <1>4, <1>5, <1>6

\* The bytes of a word, and the word again.
LEMMA LeBytesWord ==
  ASSUME NEW w \in Words
  PROVE  /\ LeBytes(w) \in Seq(Byte) /\ Len(LeBytes(w)) = WordLen
         /\ Word(LeBytes(w)) = w
  <1>1. WordLen \in Nat /\ Short(WordLen) /\ USize = Place(WordLen)
    BY WireNumbers
  <1>2. LeBytes(w) = Digits(w, WordLen)
    BY Zenon DEF LeBytes, Digits, Place, Pow
  <1>3. Digits(w, WordLen) \in [1..WordLen -> Byte] /\ Word(Digits(w, WordLen)) = w
    <2>1. w \in 0..(Place(WordLen) - 1)
      BY <1>1 DEF Words
    <2>2. QED BY <1>1, <2>1, WordOfDigits
  <1> HIDE DEF Byte
  <1> DEFINE s == Digits(w, WordLen)
  <1> HIDE DEF s
  <1>4. s \in [1..WordLen -> Byte] => s \in Seq(Byte) /\ Len(s) = WordLen
    BY <1>1
  <1>5. QED BY <1>2, <1>3, <1>4 DEF s

\* The coefficients lie one after the other, a word each.
Laid(bytes, s, n) ==
  /\ bytes \in Seq(Byte) /\ Len(bytes) = n * WordLen
  /\ \A i \in 1..n : \A k \in 1..WordLen : bytes[(i - 1) * WordLen + k] = LeBytes(s[i])[k]

\* The first n coefficients.
Prefix(s, n) ==
  [k \in 1..(n * WordLen) |-> LeBytes(s[((k - 1) \div WordLen) + 1])[((k - 1) % WordLen) + 1]]

LEMMA PrefixLaid ==
  ASSUME NEW s \in Seq(Words), NEW n \in 0..Len(s)
  PROVE  Laid(Prefix(s, n), s, n)
  <1> DEFINE W == WordLen
             p == Prefix(s, n)
  <1>1. W \in Nat \ {0} /\ Len(s) \in Nat /\ n \in Nat
    BY WireNumbers
  <1> HIDE DEF W
  <1>2. n * W \in Nat
    BY <1>1, Z3
  <1>3. \A i \in 1..n : \A k \in 1..W :
          /\ (i - 1) * W + k \in 1..(n * W)
          /\ ((((i - 1) * W + k) - 1) \div W) + 1 = i
          /\ ((((i - 1) * W + k) - 1) % W) + 1 = k
    <2> TAKE i \in 1..n
    <2> TAKE k \in 1..W
    <2>1. i - 1 \in Nat /\ k - 1 \in 0..(W - 1) /\ i \in Nat /\ k \in Nat /\ i <= n /\ k <= W /\ k >= 1
      BY <1>1
    <2>2. (i - 1) * W \in Nat /\ (i - 1) * W + W = i * W /\ i * W <= n * W
      BY <1>1, <2>1, Z3
    <2> DEFINE x == (i - 1) * W
    <2>3. x \in Nat /\ x + W <= n * W
      BY <2>2
    <2>4. x + k \in 1..(n * W)
      <3> DEFINE y == n * W
      <3>1. y \in Nat /\ x + W <= y /\ x \in Nat
        BY <1>2, <2>3
      <3> HIDE DEF x, y
      <3>2. x + k \in 1..y
        BY <1>1, <2>1, <3>1
      <3>3. QED BY <3>2 DEF y
    <2>5. ((x + k) - 1) \div W = i - 1 /\ ((x + k) - 1) % W = k - 1
      <3>1. (x + k) - 1 = (i - 1) * W + (k - 1) /\ (x + k) - 1 \in Nat
        BY <2>1, <2>3
      <3> HIDE DEF x
      <3>2. QED BY ONLY <1>1, <2>1, <3>1, DivModUnique
    <2> HIDE DEF x
    <2>6. (((x + k) - 1) \div W) + 1 = i /\ (((x + k) - 1) % W) + 1 = k
      BY <2>1, <2>5
    <2>7. QED BY <2>4, <2>6 DEF x
  <1>4. \A k \in 1..(n * W) : ((k - 1) \div W) + 1 \in 1..n /\ ((k - 1) % W) + 1 \in 1..W
    <2> TAKE k \in 1..(n * W)
    <2> DEFINE q == (k - 1) \div W
               r == (k - 1) % W
               y == n * W
    <2>1. k - 1 \in Nat /\ k <= y /\ k \in Nat
      BY <1>2
    <2>2. q \in Nat /\ r \in 0..(W - 1) /\ k - 1 = W * q + r
      BY <1>1, <2>1, DivMod
    <2> HIDE DEF q, r
    <2>3. q < n
      <3> SUFFICES ASSUME n <= q PROVE FALSE
        BY <1>1, <2>2
      <3>1. n * W <= W * q /\ W * q \in Nat
        BY <1>1, <2>2, Z3
      <3> DEFINE z == W * q
      <3>2. y <= z /\ z \in Nat /\ k - 1 = z + r
        BY <2>2, <3>1
      <3>3. y \in Nat
        BY <1>2
      <3> HIDE DEF z, y
      <3>4. QED BY <1>1, <2>1, <2>2, <3>2, <3>3
    <2>4. QED BY <1>1, <2>2, <2>3 DEF q, r
  <1>5. \A i \in 1..n : LeBytes(s[i]) \in Seq(Byte) /\ Len(LeBytes(s[i])) = W
    <2> TAKE i \in 1..n
    <2>1. s[i] \in Words
      BY <1>1
    <2>2. QED BY <2>1, LeBytesWord DEF W
  <1>6. \A k \in 1..(n * W) : LeBytes(s[((k - 1) \div W) + 1])[((k - 1) % W) + 1] \in Byte
    <2> TAKE k \in 1..(n * W)
    <2> DEFINE i == ((k - 1) \div W) + 1
               j == ((k - 1) % W) + 1
    <2>1. i \in 1..n /\ j \in 1..W
      BY <1>4
    <2> HIDE DEF i, j
    <2>2. LeBytes(s[i]) \in Seq(Byte) /\ Len(LeBytes(s[i])) = W
      BY <1>5, <2>1
    <2>3. LeBytes(s[i])[j] \in Byte
      <3> DEFINE b == LeBytes(s[i])
      <3> HIDE DEF b
      <3>1. b \in Seq(Byte) /\ Len(b) = W
        BY <2>2 DEF b
      <3>2. b[j] \in Byte
        BY <2>1, <3>1
      <3>3. QED BY <3>2 DEF b
    <2>4. QED BY <2>3 DEF i, j
  <1>7. p = [k \in 1..(n * W) |-> LeBytes(s[((k - 1) \div W) + 1])[((k - 1) % W) + 1]]
    BY DEF Prefix, W
  <1> HIDE DEF p
  <1>8. p \in Seq(Byte) /\ Len(p) = n * W
    <2> DEFINE e(k) == LeBytes(s[((k - 1) \div W) + 1])[((k - 1) % W) + 1]
               m == n * W
    <2>1. m \in Nat /\ \A k \in 1..m : e(k) \in Byte
      BY <1>2, <1>6
    <2>2. p = [k \in 1..m |-> e(k)]
      BY <1>7
    <2> HIDE DEF e, m
    <2>3. p \in Seq(Byte) /\ Len(p) = m
      BY <2>1, <2>2
    <2>4. QED BY <2>3 DEF m
  <1>9. \A i \in 1..n : \A k \in 1..W : p[(i - 1) * W + k] = LeBytes(s[i])[k]
    <2> TAKE i \in 1..n
    <2> TAKE k \in 1..W
    <2> DEFINE x == (i - 1) * W + k
    <2>1. x \in 1..(n * W) /\ ((x - 1) \div W) + 1 = i /\ ((x - 1) % W) + 1 = k
      BY <1>3
    <2> HIDE DEF x
    <2>2. p[x] = LeBytes(s[((x - 1) \div W) + 1])[((x - 1) % W) + 1]
      BY <1>7, <2>1, Zenon
    <2>3. p[x] = LeBytes(s[i])[k]
      BY <2>1, <2>2, Zenon
    <2>4. QED BY <2>3 DEF x
  <1>10. QED BY <1>8, <1>9 DEF Laid, p, W

\* One more coefficient.
LEMMA PrefixGrows ==
  ASSUME NEW s \in Seq(Words), NEW n \in 1..Len(s)
  PROVE  Prefix(s, n) = Prefix(s, n - 1) \o LeBytes(s[n])
  <1> DEFINE W == WordLen
             a == Prefix(s, n - 1)
             b == LeBytes(s[n])
             c == Prefix(s, n)
  <1>1. W \in Nat \ {0} /\ n \in Nat /\ n - 1 \in 0..Len(s) /\ n \in 0..Len(s)
        /\ s[n] \in Words
    BY WireNumbers
  <1>2. b \in Seq(Byte) /\ Len(b) = W
    BY <1>1, LeBytesWord
  <1>3. Laid(a, s, n - 1) /\ Laid(c, s, n)
    BY <1>1, PrefixLaid
  <1> DEFINE m == (n - 1) * W
             l == n * W
  <1>4. m \in Nat /\ l = m + W
    BY <1>1, Z3
  <1>5. a \in Seq(Byte) /\ Len(a) = m /\ c \in Seq(Byte) /\ Len(c) = l
    BY <1>3 DEF Laid
  <1>6. \A k \in 1..l : c[k] = LeBytes(s[((k - 1) \div W) + 1])[((k - 1) % W) + 1]
    BY DEF Prefix
  <1>7. \A k \in 1..m : a[k] = LeBytes(s[((k - 1) \div W) + 1])[((k - 1) % W) + 1]
    BY DEF Prefix
  <1>8. \A k \in 1..W : c[m + k] = b[k]
    <2>1. n \in 1..n
      BY <1>1
    <2>2. QED BY <1>3, <2>1, Zenon DEF Laid
  <1> HIDE DEF a, b, c, m, l, W
  <1>9. \A k \in 1..m : c[k] = a[k]
    <2>1. \A k \in 1..m : k \in 1..l
      BY <1>1, <1>4
    <2>2. QED BY <1>6, <1>7, <2>1, Zenon
  <1>10. /\ a \o b \in Seq(Byte) /\ Len(a \o b) = m + W
         /\ \A k \in 1..(m + W) : (a \o b)[k] = IF k <= m THEN a[k] ELSE b[k - m]
    BY <1>1, <1>2, <1>5, ConcatProperties
  <1>11. \A k \in 1..l : c[k] = (a \o b)[k]
    <2> TAKE k \in 1..l
    <2>1. CASE k <= m
      BY <1>4, <1>9, <1>10, <2>1
    <2>2. CASE ~(k <= m)
      <3>1. k - m \in 1..W /\ m + (k - m) = k
        BY <1>1, <1>4, <2>2
      <3>2. c[m + (k - m)] = b[k - m]
        BY <1>8, <3>1
      <3>3. (a \o b)[k] = b[k - m]
        BY <1>4, <1>10, <2>2
      <3>4. QED BY <3>1, <3>2, <3>3
    <2>3. QED BY <2>1, <2>2
  <1>12. c = a \o b
    <2> DEFINE d == a \o b
    <2>1. d \in Seq(Byte) /\ Len(d) = l
      BY <1>4, <1>10
    <2>2. \A k \in 1..l : c[k] = d[k]
      BY <1>11
    <2> HIDE DEF d
    <2>3. c = d
      BY <1>5, <2>1, <2>2, SeqEqual
    <2>4. QED BY <2>3 DEF d
  <1>13. QED BY <1>12 DEF a, b, c

\* Encoding lays the coefficients one after the other.
LEMMA EncodedLaid ==
  ASSUME NEW s \in Seq(Words)
  PROVE  Laid(EncodeCoeffs(s), s, Len(s))
  <1> DEFINE n == Len(s)
             seqs == [i \in 1..n |-> LeBytes(s[i])]
  <1>1. n \in Nat /\ n \in 0..Len(s)
    OBVIOUS
  <1>2. Len(seqs) = n
    BY <1>1
  <1>3. EncodeCoeffs(s) = FlattenSeq(seqs)
    BY Zenon DEF EncodeCoeffs
  <1>4. CASE n = 0
    <2>1. seqs = <<>> /\ s = <<>>
      BY <1>1, <1>4
    <2>2. EncodeCoeffs(s) = <<>>
      BY <1>2, <1>3, <1>4, <2>1 DEF FlattenSeq
    <2>3. 0 * WordLen = 0
      BY WireNumbers
    <2>4. QED BY <1>4, <2>2, <2>3 DEF Laid
  <1>5. CASE n # 0
    <2> DEFINE Solves(f) == f = [i \in 1..Len(seqs) |-> IF i = 1 THEN seqs[i] ELSE f[i - 1] \o seqs[i]]
               flatten == CHOOSE f : Solves(f)
    <2> PICK g : g = [i \in 1..n |-> Prefix(s, i)]
      OBVIOUS
    <2>1. Prefix(s, 0) = <<>>
      <3>1. 0 * WordLen = 0
        BY WireNumbers
      <3>2. Laid(Prefix(s, 0), s, 0)
        BY <1>1, PrefixLaid
      <3>3. Prefix(s, 0) \in Seq(Byte) /\ Len(Prefix(s, 0)) = 0
        BY <3>1, <3>2 DEF Laid
      <3>4. QED BY <3>3
    <2>2. \A i \in 1..n : g[i] = IF i = 1 THEN seqs[i] ELSE g[i - 1] \o seqs[i]
      <3> TAKE i \in 1..n
      <3>1. Prefix(s, i) = Prefix(s, i - 1) \o LeBytes(s[i])
        BY PrefixGrows
      <3>2. g[i] = Prefix(s, i) /\ seqs[i] = LeBytes(s[i])
        OBVIOUS
      <3>3. CASE i = 1
        <4>1. s[1] \in Words
          BY <1>1, <3>3
        <4>2. LeBytes(s[1]) \in Seq(Byte)
          BY <4>1, LeBytesWord
        <4>3. <<>> \o LeBytes(s[1]) = LeBytes(s[1])
          BY <4>2
        <4>4. i - 1 = 0
          BY <3>3
        <4>5. QED BY <2>1, <3>1, <3>2, <3>3, <4>3, <4>4
      <3>4. CASE i # 1
        <4>1. i - 1 \in 1..n
          BY <1>1, <3>4
        <4>2. g[i - 1] = Prefix(s, i - 1)
          BY <4>1
        <4>3. QED BY <3>1, <3>2, <3>4, <4>2
      <3>5. QED BY <3>3, <3>4
    <2>3. Solves(g)
      <3>1. g = [i \in 1..n |-> g[i]]
        OBVIOUS
      <3> HIDE DEF seqs, n
      <3>2. g = [i \in 1..n |-> IF i = 1 THEN seqs[i] ELSE g[i - 1] \o seqs[i]]
        BY <2>2, <3>1, Zenon
      <3>3. QED BY <1>2, <3>2, Zenon
    <2>4. Solves(flatten)
      BY <2>3, Zenon
    <2>5. EncodeCoeffs(s) = flatten[n]
      BY <1>2, <1>3, <1>5, Zenon DEF FlattenSeq
    <2> HIDE DEF flatten, seqs
    <2> DEFINE S == {i \in 0..n : i = 0 \/ flatten[i] = g[i]}
    <2>6. 0 \in S
      BY <1>1
    <2>7. ASSUME NEW i \in 0..(n - 1), i \in S PROVE i + 1 \in S
      <3>1. i + 1 \in 1..Len(seqs) /\ i + 1 \in 1..n /\ i + 1 \in 0..n /\ (i + 1) - 1 = i
        BY <1>1, <1>2
      <3>2. flatten[i + 1] = IF i + 1 = 1 THEN seqs[i + 1] ELSE flatten[i] \o seqs[i + 1]
        BY <2>4, <3>1
      <3>3. g[i + 1] = IF i + 1 = 1 THEN seqs[i + 1] ELSE g[i] \o seqs[i + 1]
        BY <2>2, <3>1
      <3>4. CASE i = 0
        BY <3>1, <3>2, <3>3, <3>4
      <3>5. CASE i # 0
        BY <2>7, <3>1, <3>2, <3>3, <3>5
      <3>6. QED BY <3>4, <3>5
    <2> HIDE DEF S
    <2>8. \A i \in 0..n : i \in S
      BY ONLY <1>1, <2>6, <2>7, SetInduction
    <2>9. flatten[n] = g[n]
      BY <1>1, <1>5, <2>8 DEF S
    <2>10. g[n] = Prefix(s, n)
      <3>1. n \in 1..n
        BY <1>1, <1>5
      <3> HIDE DEF n
      <3>2. QED BY <3>1
    <2>11. QED BY <1>1, <2>5, <2>9, <2>10, PrefixLaid
  <1>6. QED BY <1>4, <1>5

\* What a sender puts on the wire: the tag, the count and the coefficients.
LEMMA PacketLaid ==
  ASSUME NEW s \in Seq(Words), Len(s) \in Words,
         NEW bytes, bytes = Serialize("uncompressed", s).values
  PROVE  LET header == HeaderLen("uncompressed")
         IN  /\ bytes \in Seq(Byte)
             /\ Len(bytes) = header + Len(s) * WordLen
             /\ bytes[1] = 0
             /\ SubSeq(bytes, header - WordLen + 1, header) = LeBytes(Len(s))
             /\ \A i \in 1..Len(s) :
                  SubSeq(bytes, (header + (i - 1) * WordLen) + 1, header + i * WordLen) = LeBytes(s[i])
  <1> DEFINE W == WordLen
             H == HeaderLen("uncompressed")
             n == Len(s)
             size == LeBytes(n)
             body == EncodeCoeffs(s)
             l == n * W
  <1>1. W \in Nat \ {0} /\ H = 1 + W /\ n \in Nat
    BY WireNumbers DEF HeaderLen
  <1>2. size \in Seq(Byte) /\ Len(size) = W
    BY LeBytesWord
  <1>3. body \in Seq(Byte) /\ Len(body) = l
    BY EncodedLaid DEF Laid
  <1>4. l \in Nat
    BY <1>1, Z3
  <1>5. bytes = <<0>> \o size \o body
    <2>1. Serialize("uncompressed", s) = Ok(<<0>> \o size \o body)
      <3>1. "uncompressed" # "compressed" /\ Tag("uncompressed") = 0
        BY DEF Tag
      <3>2. QED BY <3>1, Zenon DEF Serialize
    <2>2. QED BY <2>1 DEF Ok
  <1>6. 0 \in Byte
    BY SamplingAssumption DEF Byte
  <1> DEFINE head == <<0>> \o size
  <1>7. /\ head \in Seq(Byte) /\ Len(head) = H /\ head[1] = 0
        /\ \A k \in 1..W : head[1 + k] = size[k]
    <2> PICK z : z = <<0>>
      OBVIOUS
    <2>1. z \in Seq(Byte) /\ Len(z) = 1 /\ z[1] = 0
      BY <1>6
    <2> HIDE DEF size, W, H
    <2>2. /\ z \o size \in Seq(Byte) /\ Len(z \o size) = 1 + W
          /\ \A k \in 1..(1 + W) : (z \o size)[k] = IF k <= 1 THEN z[k] ELSE size[k - 1]
      BY <1>1, <1>2, <2>1, ConcatProperties
    <2>3. 1 \in 1..(1 + W) /\ \A k \in 1..W : 1 + k \in 1..(1 + W) /\ ~(1 + k <= 1) /\ (1 + k) - 1 = k
      BY <1>1
    <2>4. (z \o size)[1] = 0
      BY <2>1, <2>2, <2>3
    <2>5. \A k \in 1..W : (z \o size)[1 + k] = size[k]
      BY <2>2, <2>3
    <2>6. QED BY <1>1, <2>2, <2>4, <2>5
  <1> HIDE DEF head, body, size, l, W, H, n
  <1>8. /\ bytes \in Seq(Byte) /\ Len(bytes) = H + l
        /\ \A k \in 1..(H + l) : bytes[k] = IF k <= H THEN head[k] ELSE body[k - H]
    <2>1. bytes = head \o body
      BY <1>5 DEF head
    <2>2. head \in Seq(Byte) /\ Len(head) = H /\ H \in Nat
      BY <1>1, <1>7
    <2>3. /\ head \o body \in Seq(Byte) /\ Len(head \o body) = H + l
          /\ \A k \in 1..(H + l) : (head \o body)[k] = IF k <= H THEN head[k] ELSE body[k - H]
      BY ONLY <1>3, <1>4, <2>2, ConcatProperties
    <2>4. QED BY <2>1, <2>3
  <1>9. bytes[1] = 0
    <2>1. 1 \in 1..(H + l) /\ 1 <= H
      BY <1>1, <1>4
    <2>2. QED BY <1>7, <1>8, <2>1
  <1>10. SubSeq(bytes, H - W + 1, H) = size
    <2> DEFINE t == SubSeq(bytes, H - W + 1, H)
    <2>1. H - W + 1 = 2 /\ H \in Nat /\ H <= Len(bytes) /\ Len(bytes) \in Nat
      BY <1>1, <1>4, <1>8
    <2>2. t \in Seq(Byte) /\ Len(t) = W /\ \A k \in 1..W : t[k] = bytes[1 + k]
      BY <1>1, <1>8, <2>1
    <2> HIDE DEF t
    <2>3. \A k \in 1..W : t[k] = size[k]
      <3> TAKE k \in 1..W
      <3>1. 1 + k \in 1..(H + l) /\ 1 + k <= H
        BY <1>1, <1>4
      <3>2. QED BY <1>7, <1>8, <2>2, <3>1
    <2>4. t = size
      BY <1>2, <2>2, <2>3, SeqEqual
    <2>5. QED BY <2>4 DEF t
  <1>11. ASSUME NEW i \in 1..n
         PROVE  SubSeq(bytes, (H + (i - 1) * W) + 1, H + i * W) = LeBytes(s[i])
    <2> DEFINE x == (i - 1) * W
               y == i * W
               t == SubSeq(bytes, (H + x) + 1, H + y)
               b == LeBytes(s[i])
    <2>1. x \in Nat /\ y = x + W /\ y <= l /\ y \in Nat
      <3>1. i - 1 \in Nat /\ i <= n /\ i \in Nat
        BY <1>1
      <3>2. QED BY <1>1, <3>1, Z3 DEF l
    <2>2. s[i] \in Words
      BY <1>1 DEF n
    <2>3. b \in Seq(Byte) /\ Len(b) = W
      BY <2>2, LeBytesWord DEF W
    <2>4. \A k \in 1..W : body[x + k] = b[k]
      BY EncodedLaid, Zenon DEF Laid, body, W, n
    <2> HIDE DEF x, y, b
    <2>5. t \in Seq(Byte) /\ Len(t) = W /\ \A k \in 1..W : t[k] = bytes[(H + x) + k]
      BY <1>1, <1>4, <1>8, <2>1
    <2> HIDE DEF t
    <2>6. \A k \in 1..W : t[k] = b[k]
      <3> TAKE k \in 1..W
      <3>1. (H + x) + k \in 1..(H + l) /\ ~((H + x) + k <= H) /\ ((H + x) + k) - H = x + k
        BY <1>1, <1>4, <2>1
      <3>2. t[k] = body[x + k]
        BY <1>8, <2>5, <3>1
      <3>3. QED BY <2>4, <3>2
    <2>7. t = b
      BY <2>3, <2>5, <2>6, SeqEqual
    <2>8. QED BY <2>7 DEF t, b, x, y
  <1>12. QED BY <1>8, <1>9, <1>10, <1>11 DEF l, H, W, n, size

\* What a sender encoded comes back, or is turned down for its tag.
LEMMA SentComesBack ==
  ASSUME NEW s \in Seq(Words), Len(s) * WordLen + HeaderLen("uncompressed") <= IsizeMax,
         NEW bytes, bytes = Serialize("uncompressed", s).values, NEW checked \in BOOLEAN
  PROVE  /\ bytes \in Seq(Byte) /\ bytes # <<>> /\ Len(bytes) <= IsizeMax
         /\ Deserialize("uncompressed", bytes, checked) = Ok(s)
         /\ Deserialize("compressed", bytes, checked) = UnknownTag(0)
  <1> DEFINE W == WordLen
             H == HeaderLen("uncompressed")
             U == USize
             M == IsizeMax
             n == Len(s)
             x == n * W
  <1>1. /\ W \in Nat \ {0} /\ H \in Nat /\ M \in Nat /\ U = 2 * (M + 1) /\ U \in Nat \ {0}
        /\ n \in Nat
    BY WireNumbers DEF Formats
  <1>2. x \in Nat /\ n <= x /\ x + H <= M
    BY <1>1, Z3
  <1>3. n \in Words
    <2> HIDE DEF n, x, H, M, U
    <2>1. n \in 0..(U - 1)
      BY <1>1, <1>2
    <2>2. QED BY <2>1 DEF Words, U
  <1>4. /\ bytes \in Seq(Byte)
        /\ Len(bytes) = H + x
        /\ bytes[1] = 0
        /\ SubSeq(bytes, H - W + 1, H) = LeBytes(n)
        /\ \A i \in 1..n : SubSeq(bytes, (H + (i - 1) * W) + 1, H + i * W) = LeBytes(s[i])
    BY <1>3, PacketLaid
  <1>5. W < H
    BY WireNumbers DEF Formats
  <1>6. bytes # <<>>
    BY <1>1, <1>2, <1>4, <1>5
  <1>7. Tag("uncompressed") = 0 /\ Tag("compressed") = 1
    BY DEF Tag
  <1>8. Deserialize("compressed", bytes, checked) = UnknownTag(0)
    <2>1. bytes[1] # Tag("compressed")
      BY <1>4, <1>7
    <2>2. Deserialize("compressed", bytes, checked) = UnknownTag(bytes[1])
      BY <1>6, <2>1, Zenon DEF Deserialize
    <2>3. QED BY <1>4, <2>2, Zenon
  <1>9. Word(LeBytes(n)) = n
    BY <1>3, LeBytesWord
  <1>10. Deserialize("uncompressed", bytes, checked) = DecodeCoeffs(bytes, H, n, checked)
    <2>1. ~(Len(bytes) < H)
      BY <1>1, <1>2, <1>4
    <2>2. Word(SubSeq(bytes, H - W + 1, H)) = n
      BY <1>4, <1>9
    <2>3. Deserialize("uncompressed", bytes, checked) =
            DecodeCoeffs(bytes, H, Word(SubSeq(bytes, H - W + 1, H)), checked)
      BY <1>4, <1>6, <1>7, <2>1, Zenon DEF Deserialize
    <2>4. QED BY <2>2, <2>3, Zenon
  <1>11. DecodeFrom(bytes, H, n) = s
    <2>1. \A i \in 1..n : Word(SubSeq(bytes, (H + (i - 1) * W) + 1, H + i * W)) = s[i]
      <3> TAKE i \in 1..n
      <3>1. s[i] \in Words
        BY <1>1
      <3>2. SubSeq(bytes, (H + (i - 1) * W) + 1, H + i * W) = LeBytes(s[i])
        BY <1>4
      <3>3. Word(LeBytes(s[i])) = s[i]
        BY <3>1, LeBytesWord
      <3>4. QED BY <3>2, <3>3, Zenon
    <2>2. DecodeFrom(bytes, H, n) = [i \in 1..n |-> Word(SubSeq(bytes, (H + (i - 1) * W) + 1, H + i * W))]
      BY Zenon DEF DecodeFrom
    <2>3. DecodeFrom(bytes, H, n) = [i \in 1..n |-> s[i]]
      BY <2>1, <2>2, Zenon
    <2>4. s = [i \in 1..n |-> s[i]]
      OBVIOUS
    <2>5. QED BY <2>3, <2>4, Zenon
  <1>12. DecodeCoeffs(bytes, H, n, checked) = Ok(s)
    <2> HIDE DEF n, x, H, M, U, W
    <2>1. (H + (x % U)) % U = H + x
      <3>1. SumWraps(H, x, U)
        BY <1>1, <1>2, WrapSum
      <3>2. (H + (x % U)) % U = (H + x) % U
        BY <3>1, Zenon DEF SumWraps
      <3>3. (H + x) % U = H + x
        <4>1. H + x = 0 * U + (H + x) /\ H + x \in 0..(U - 1) /\ H + x \in Nat
          BY <1>1, <1>2
        <4>2. QED BY ONLY <1>1, <4>1, DivModUnique
      <3>4. QED BY <3>2, <3>3, Zenon
    <2>2. ~(H + x >= U) /\ ~(Len(bytes) < H + x) /\ ~(x > M)
      BY <1>1, <1>2, <1>4
    <2>3. DecodeCoeffs(bytes, H, n, checked) =
            IF checked /\ H + x >= U THEN Panic
            ELSE IF Len(bytes) < (H + (x % U)) % U THEN TooShort((H + (x % U)) % U, Len(bytes))
            ELSE IF x > M THEN Panic
            ELSE Ok(DecodeFrom(bytes, H, n))
      BY Zenon DEF DecodeCoeffs, x, U, M, W
    <2>4. DecodeCoeffs(bytes, H, n, checked) = Ok(DecodeFrom(bytes, H, n))
      BY <2>1, <2>2, <2>3, Zenon
    <2>5. QED BY <1>11, <2>4, Zenon
  <1>13. Len(bytes) <= M
    BY <1>1, <1>2, <1>4
  <1>14. QED BY <1>4, <1>6, <1>8, <1>10, <1>12, <1>13

-----------------------------------------------------------------------------
\* The packet is bytes that fit in memory, and a sender's packet is what it
\* encoded.
WireInv ==
  /\ packet \in Seq(Byte) /\ Len(packet) <= IsizeMax
  /\ packet = <<>> => sent = <<>>
  /\ sent # <<>> =>
       \E s \in Seq(Words) :
         /\ sent = <<s>>
         /\ Len(s) * WordLen + HeaderLen("uncompressed") <= IsizeMax
         /\ packet = Serialize("uncompressed", s).values
  /\ DecodesOnlyEncodings

\* Without an answer there is nothing to justify.
LEMMA Unanswered ==
  ASSUME reply'.kind \in {"", "todo"}
  PROVE  DecodesOnlyEncodings'
  BY DEF DecodesOnlyEncodings

LEMMA PendingKinds == Pending.kind = "" /\ Todo.kind = "todo"
  BY DEF Pending, Todo

\* Encoding turns down the compressed format only.
LEMMA SendEncodes ==
  ASSUME WireInv, SampleInv, NEW format \in Formats, packet = <<>>, reply = Pending, Send(format)
  PROVE  WireInv'
  <1>1. /\ status = "returned" /\ Kind(call) = "uniform" /\ call.sampler # "rns_random"
        /\ Len(samples) * WordLen + HeaderLen(format) <= IsizeMax
        /\ IF Serialize(format, samples) = Todo THEN reply' = Todo /\ UNCHANGED <<packet, sent>>
           ELSE packet' = Serialize(format, samples).values /\ sent' = <<samples>> /\ reply' = Pending
    BY Zenon DEF Send
  <1>2. samples \in Seq(Words)
    BY <1>1 DEF SampleInv, ReturnInv
  <1>3. CASE format = "compressed"
    <2>1. Serialize(format, samples) = Todo
      BY <1>3, Zenon DEF Serialize
    <2>2. reply' = Todo /\ UNCHANGED <<packet, sent>>
      BY <1>1, <2>1
    <2>3. DecodesOnlyEncodings'
      BY <2>2, PendingKinds, Unanswered
    <2>4. QED BY <2>2, <2>3 DEF WireInv
  <1>4. CASE format = "uncompressed"
    <2>1. Serialize(format, samples).kind = "ok"
      <3>1. format # "compressed"
        BY <1>4
      <3>2. Serialize(format, samples) = Ok(<<Tag(format)>> \o LeBytes(Len(samples)) \o EncodeCoeffs(samples))
        BY <3>1, Zenon DEF Serialize
      <3>3. QED BY <3>2 DEF Ok
    <2>2. Serialize(format, samples) # Todo
      BY <2>1, PendingKinds
    <2>3. /\ packet' = Serialize("uncompressed", samples).values
          /\ sent' = <<samples>> /\ reply' = Pending
      BY <1>1, <1>4, <2>2
    <2>4. packet' \in Seq(Byte) /\ packet' # <<>> /\ Len(packet') <= IsizeMax
      BY <1>1, <1>2, <1>4, <2>3, SentComesBack
    <2>5. DecodesOnlyEncodings'
      BY <2>3, PendingKinds, Unanswered
    <2>6. \E s \in Seq(Words) :
            /\ sent' = <<s>>
            /\ Len(s) * WordLen + HeaderLen("uncompressed") <= IsizeMax
            /\ packet' = Serialize("uncompressed", s).values
      BY <1>1, <1>2, <1>4, <2>3
    <2>7. QED BY <2>4, <2>5, <2>6, Zenon DEF WireInv
  <1>5. QED BY <1>3, <1>4 DEF Formats

\* Any bytes may arrive, as long as they fit in memory.
LEMMA ArriveFits ==
  ASSUME WireInv, packet = <<>>, reply = Pending, Arrive
  PROVE  WireInv'
  <1>1. packet' \in Packets /\ sent' = sent /\ reply' = reply
    BY DEF Arrive
  <1>2. packet' \in Seq(Byte) /\ Len(packet') <= IsizeMax
    BY <1>1, WireAssumption
  <1>3. sent' = <<>>
    BY <1>1 DEF WireInv
  <1>4. DecodesOnlyEncodings'
    BY <1>1, PendingKinds, Unanswered
  <1>5. QED BY <1>2, <1>3, <1>4, Zenon DEF WireInv

\* The receiver's answer is justified by the bytes, and is the sender's vector
\* or no vector.
LEMMA ReceiveJustified ==
  ASSUME WireInv, NEW format \in Formats, Receive(format)
  PROVE  WireInv'
  <1>1. PICK checked \in BOOLEAN : reply' = Deserialize(format, packet, checked)
    BY Zenon DEF Receive
  <1>2. packet' = packet /\ sent' = sent
    BY Zenon DEF Receive
  <1>3. packet \in Seq(Byte) /\ Len(packet) <= IsizeMax
    BY DEF WireInv
  <1>4. Justified(format, reply')
    BY <1>1, <1>3, AnswersJustified
  <1>5. Justified(format, reply)'
    BY <1>2, <1>4 DEF Justified, Encodes, Field, Needed
  <1>6. ASSUME sent # <<>> PROVE reply' = Ok(sent[1]) \/ reply' = UnknownTag(0)
    <2>1. PICK s \in Seq(Words) :
            /\ sent = <<s>>
            /\ Len(s) * WordLen + HeaderLen("uncompressed") <= IsizeMax
            /\ packet = Serialize("uncompressed", s).values
      BY <1>6, Zenon DEF WireInv
    <2>2. /\ Deserialize("uncompressed", packet, checked) = Ok(s)
          /\ Deserialize("compressed", packet, checked) = UnknownTag(0)
      BY <2>1, SentComesBack
    <2>3. sent[1] = s
      BY <2>1
    <2>4. format = "uncompressed" \/ format = "compressed"
      BY DEF Formats
    <2>5. QED BY <1>1, <2>2, <2>3, <2>4, Zenon
  <1>7. DecodesOnlyEncodings'
    BY <1>2, <1>5, <1>6, Zenon DEF DecodesOnlyEncodings
  <1>8. QED BY <1>2, <1>7, Zenon DEF WireInv

-----------------------------------------------------------------------------
\* Generator, samplers and codec together.
WholeInv == Inv /\ SampleInv /\ WireInv

LEMMA WholeInit == WireInit => WholeInv
  <1> SUFFICES ASSUME WireInit PROVE WholeInv
    OBVIOUS
  <1>1. Init /\ status = "none" /\ packet = <<>> /\ sent = <<>> /\ reply = Pending
    BY DEF WireInit, SamplingInit
  <1>2. Inv
    BY <1>1, InitInv
  <1>3. SampleInv
    BY <1>1 DEF SampleInv
  <1>4. DecodesOnlyEncodings
    BY <1>1, PendingKinds DEF DecodesOnlyEncodings
  <1>5. packet \in Seq(Byte) /\ Len(packet) <= IsizeMax
    BY <1>1, WireNumbers
  <1>6. QED BY <1>1, <1>2, <1>3, <1>4, <1>5 DEF WholeInv, WireInv

\* Every step of the whole is a step of the generator or leaves it alone.
LEMMA WholeStep ==
  WholeInv /\ [WireNext]_<<vars, samplingVars, wireVars>> => WholeInv' /\ [Next]_vars
  <1> SUFFICES ASSUME WholeInv, [WireNext]_<<vars, samplingVars, wireVars>>
               PROVE  WholeInv' /\ [Next]_vars
    OBVIOUS
  <1>1. Inv /\ SampleInv /\ WireInv
    BY DEF WholeInv
  <1>2. [Next]_vars => Inv'
    BY <1>1, StepSimulation
  <1>3. CASE UNCHANGED <<vars, samplingVars>> /\ WireInv'
    <2>1. SampleInv'
      BY <1>1, <1>3, SampleInvStutter
    <2>2. QED BY <1>2, <1>3, <2>1 DEF WholeInv
  <1>4. CASE SamplingNext /\ UNCHANGED wireVars
    <2>1. [Next]_vars /\ SampleInv'
      BY <1>1, <1>4, SamplersCallPrg, SampleInvStep
    <2>2. UNCHANGED <<packet, sent, reply>>
      BY <1>4 DEF wireVars
    <2>3. DecodesOnlyEncodings'
      BY <1>1, <2>2 DEF WireInv, DecodesOnlyEncodings, Justified, Encodes, Field, Needed
    <2>4. WireInv'
      BY <1>1, <2>2, <2>3 DEF WireInv
    <2>5. QED BY <1>2, <2>1, <2>4 DEF WholeInv
  <1>5. CASE packet = <<>> /\ reply = Pending /\ Arrive
    <2>1. WireInv' /\ UNCHANGED <<vars, samplingVars>>
      BY <1>1, <1>5, ArriveFits DEF Arrive
    <2>2. QED BY <1>3, <2>1
  <1>6. ASSUME NEW format \in Formats, packet = <<>>, reply = Pending, Send(format)
        PROVE  WholeInv' /\ [Next]_vars
    <2>1. WireInv' /\ UNCHANGED <<vars, samplingVars>>
      BY <1>1, <1>6, SendEncodes, Zenon DEF Send
    <2>2. QED BY <1>3, <2>1
  <1>7. ASSUME NEW format \in Formats, Receive(format)
        PROVE  WholeInv' /\ [Next]_vars
    <2>1. WireInv' /\ UNCHANGED <<vars, samplingVars>>
      BY <1>1, <1>7, ReceiveJustified, Zenon DEF Receive
    <2>2. QED BY <1>3, <2>1
  <1>8. CASE UNCHANGED <<vars, samplingVars, wireVars>>
    <2>1. UNCHANGED <<vars, samplingVars>> /\ UNCHANGED <<packet, sent, reply>>
      BY <1>8 DEF wireVars
    <2>2. DecodesOnlyEncodings'
      BY <1>1, <2>1 DEF WireInv, DecodesOnlyEncodings, Justified, Encodes, Field, Needed
    <2>3. WireInv'
      BY <1>1, <2>1, <2>2 DEF WireInv
    <2>4. QED BY <1>3, <2>1, <2>3
  <1>9. QED BY <1>4, <1>5, <1>6, <1>7, <1>8, Zenon DEF WireNext

\* The invariant of the generator, its samplers and the codec.
THEOREM WholeInvariance == WireSpec => []WholeInv
  <1>1. QED BY WholeInit, WholeStep, PTL DEF WireSpec

\* Samplers and codec use the generator as its specification allows: all that
\* is proved of Spec holds here.
THEOREM WholeCallsPrg == WireSpec => Spec
  <1>1. WireInit => Init
    BY DEF WireInit, SamplingInit
  <1>2. QED BY <1>1, WholeInvariance, WholeStep, PTL DEF WireSpec, Spec

\* Each sampler returns its samples one by one from the stream.
THEOREM SamplersFollowStream == WireSpec => []SamplesFollowStream
  <1>1. WholeInv => SamplesFollowStream
    BY Zenon DEF WholeInv, SampleInv, ReturnInv, SamplesFollowStream
  <1>2. QED BY <1>1, WholeInvariance, PTL

\* A receiver gets what was encoded, or learns why not.
THEOREM CodecInverts == WireSpec => []DecodesOnlyEncodings
  <1>1. WholeInv => DecodesOnlyEncodings
    BY DEF WholeInv, WireInv
  <1>2. QED BY <1>1, WholeInvariance, PTL

RQ == INSTANCE RingProofs WITH P <- Q
RC == INSTANCE RingProofs WITH P <- 1

-----------------------------------------------------------------------------
(***************************************************************************)
(* Bit reversal.                                                           *)
(***************************************************************************)
Two(k) == 2 ^ k

\* What the provers know of powers of two,
LEMMA TwoSteps ==
  /\ Two(0) = 1 /\ LogN \in Nat \ {0} /\ N = Two(LogN)
  /\ \A k \in 0..LogN : Two(k) \in Nat \ {0} /\ Two(k + 1) = 2 * Two(k)
  BY TwosAssumption, NttAssumption DEF Two

\* and that exponents add.
LEMMA TwoSum ==
  ASSUME NEW k \in Nat, NEW l \in Nat, k + l <= LogN
  PROVE  Two(k + l) = Two(k) * Two(l)
  <1> DEFINE T == {m \in 0..l : Two(k + m) = Two(k) * Two(m)}
  <1>1. LogN \in Nat /\ k \in 0..LogN /\ Two(k) \in Nat /\ Two(0) = 1
    BY TwoSteps
  <1>2. 0 \in T
    <2>1. k + 0 = k /\ 0 \in 0..l /\ Two(k) * 1 = Two(k)
      BY <1>1
    <2>2. QED BY <1>1, <2>1
  <1>3. ASSUME NEW m \in 0..(l - 1), m \in T PROVE m + 1 \in T
    <2>1. m \in 0..LogN /\ k + m \in 0..LogN /\ (k + m) + 1 = k + (m + 1) /\ m + 1 \in 0..l
      BY <1>1
    <2>2. Two(m) \in Nat /\ Two(m + 1) = 2 * Two(m) /\ Two((k + m) + 1) = 2 * Two(k + m)
      BY <2>1, TwoSteps
    <2>3. Two(k + m) = Two(k) * Two(m)
      BY <1>3
    <2>4. \A x, y \in Nat : 2 * (x * y) = x * (2 * y)
      BY Z3
    <2>5. QED BY <1>1, <2>1, <2>2, <2>3, <2>4
  <1> HIDE DEF T
  <1>4. \A m \in 0..l : m \in T
    BY <1>2, <1>3, SetInduction
  <1>5. QED BY <1>4 DEF T

\* h are the partial sums of a reversal.
Bit(x, k) == (x \div Two(k)) % 2

Reverses(h, x, bits) == h[0] = 0 /\ \A k \in 1..bits : h[k] = h[k - 1] + Bit(x, k - 1) * Two(bits - k)

\* A sequence of partial sums ends at the reversal,
LEMMA BitReverseIs ==
  ASSUME NEW bits \in Nat, NEW x, NEW h, Reverses(h, x, bits)
  PROVE  BitReverse(x, bits) = h[bits]
  <1> DEFINE Solves(f) == f = [k \in 0..bits |-> IF k = 0 THEN 0
                                ELSE f[k - 1] + ((x \div 2 ^ (k - 1)) % 2) * 2 ^ (bits - k)]
             f0 == CHOOSE f : Solves(f)
             h0 == [k \in 0..bits |-> h[k]]
  <1>1. 0 \in 0..bits /\ bits \in 0..bits
    OBVIOUS
  <1>2. \A k \in 0..bits : k # 0 => k \in 1..bits /\ k - 1 \in 0..bits
    OBVIOUS
  <1>3. \A k \in 1..bits : k # 0 /\ k \in 0..bits /\ k - 1 \in 0..bits
    OBVIOUS
  <1>4. Solves(h0)
    <2>1. ASSUME NEW k \in 0..bits
          PROVE  h[k] = IF k = 0 THEN 0 ELSE h0[k - 1] + ((x \div 2 ^ (k - 1)) % 2) * 2 ^ (bits - k)
      BY <1>2, Zenon DEF Reverses, Bit, Two
    <2>2. QED BY <2>1, Zenon
  <1>5. Solves(f0)
    BY <1>4, Zenon
  <1>6. BitReverse(x, bits) = f0[bits]
    BY Zenon DEF BitReverse
  <1> HIDE DEF f0
  <1>7. f0[0] = 0 /\ \A k \in 1..bits : f0[k] = f0[k - 1] + Bit(x, k - 1) * Two(bits - k)
    <2>1. \A k \in 0..bits : f0[k] = IF k = 0 THEN 0 ELSE f0[k - 1] + ((x \div 2 ^ (k - 1)) % 2) * 2 ^ (bits - k)
      BY <1>5, Zenon
    <2>2. QED BY <1>1, <1>3, <2>1, Zenon DEF Bit, Two
  <1> HIDE DEF Solves, h0
  <1>8. \A k \in 0..bits : f0[k] = h[k]
    <2>1. f0[0] = h[0]
      BY <1>7 DEF Reverses
    <2>2. ASSUME NEW k \in 1..bits, f0[k - 1] = h[k - 1] PROVE f0[k] = h[k]
      BY <1>7, <2>2, Zenon DEF Reverses
    <2>3. 1 \in Nat \ {0}
      OBVIOUS
    <2>4. QED BY <2>1, <2>2, <2>3, RC!AgreeUpTo
  <1>9. QED BY <1>1, <1>6, <1>8

\* and there is one.
LEMMA BitReverseUnfolds ==
  ASSUME NEW bits \in 0..LogN, NEW x \in Nat
  PROVE  \E h \in [0..bits -> Nat] : Reverses(h, x, bits) /\ BitReverse(x, bits) = h[bits]
  <1> DEFINE F == [k \in 1..bits |-> [a \in Nat |-> a + Bit(x, k - 1) * Two(bits - k)]]
  <1>1. bits \in Nat /\ 0 \in Nat /\ 1 \in Nat \ {0}
    BY TwoSteps
  <1>2. ASSUME NEW k \in 1..bits, NEW a \in Nat PROVE a + Bit(x, k - 1) * Two(bits - k) \in Nat
    <2>1. k - 1 \in 0..LogN /\ bits - k \in 0..LogN
      BY TwoSteps
    <2>2. Two(k - 1) \in Nat \ {0} /\ Two(bits - k) \in Nat
      BY <2>1, TwoSteps
    <2>3. Bit(x, k - 1) \in Nat
      <3>1. x \div Two(k - 1) \in Nat
        BY <2>2, DivMod
      <3>2. QED BY <3>1, DivMod DEF Bit
    <2>4. \A u, v \in Nat : a + u * v \in Nat
      BY Z3
    <2>5. QED BY <2>2, <2>3, <2>4
  <1>3. F \in [1..bits -> [Nat -> Nat]]
    BY <1>2, Zenon
  <1>4. \A k \in 1..bits : \A a \in Nat : F[k][a] = a + Bit(x, k - 1) * Two(bits - k)
    BY Zenon
  <1> HIDE DEF F
  <1>5. PICK h \in [0..bits -> Nat] : RC!Obeys(h, bits, 0, F)
    BY <1>1, <1>3, RC!Recursion
  <1>6. h[0] = 0 /\ \A k \in 1..bits : h[k] = F[k][h[k - 1]]
    BY <1>5 DEF RC!Obeys
  <1>7. \A k \in 1..bits : k - 1 \in 0..bits
    OBVIOUS
  <1>8. Reverses(h, x, bits)
    BY <1>4, <1>6, <1>7 DEF Reverses
  <1>9. QED BY <1>1, <1>8, BitReverseIs

\* Halving a number shifts its bits by one.
LEMMA BitHalf ==
  ASSUME NEW b \in Nat, NEW c \in 0..1, NEW k \in 0..LogN
  PROVE  Bit(2 * b + c, 0) = c /\ Bit(2 * b + c, k + 1) = Bit(b, k)
  <1>1. Two(0) = 1 /\ Two(k) \in Nat \ {0} /\ Two(k + 1) = 2 * Two(k) /\ 2 * b + c \in Nat
    BY TwoSteps
  <1>2. Bit(2 * b + c, 0) = c
    BY <1>1 DEF Bit
  <1> DEFINE d == Two(k)
             u == b \div d
             v == b % d
  <1>3. u \in Nat /\ v \in 0..(d - 1) /\ b = d * u + v /\ d \in Nat \ {0}
    BY <1>1, DivMod
  <1> HIDE DEF d, u, v
  <1>4. 2 * b + c = u * (2 * d) + (2 * v + c)
    <2>1. 2 * (d * u + v) = u * (2 * d) + 2 * v
      BY <1>3, Z3
    <2>2. u * (2 * d) \in Nat
      BY <1>3, Z3
    <2>3. QED BY <1>3, <2>1, <2>2
  <1>5. 2 * v + c \in 0..(2 * d - 1) /\ 2 * d \in Nat \ {0}
    BY <1>3
  <1>6. (2 * b + c) \div (2 * d) = u
    BY <1>1, <1>3, <1>4, <1>5, DivModUnique
  <1>7. QED BY <1>1, <1>2, <1>6 DEF Bit, d, u

\* Its bits reversed are those of the half, and its parity on top.
LEMMA ReverseHalf ==
  ASSUME NEW b \in Nat, NEW c \in 0..1, NEW l \in 0..(LogN - 1)
  PROVE  /\ BitReverse(2 * b + c, l + 1) = c * Two(l) + BitReverse(b, l)
         /\ BitReverse(b, l) \in Nat
  <1>1. l \in Nat /\ l \in 0..LogN /\ l + 1 \in Nat /\ LogN \in Nat /\ Two(l) \in Nat
    BY TwoSteps
  <1>2. PICK h \in [0..l -> Nat] : Reverses(h, b, l) /\ BitReverse(b, l) = h[l]
    BY <1>1, BitReverseUnfolds
  <1>3. \A k \in 0..l : h[k] \in Nat
    OBVIOUS
  <1>4. h[0] = 0 /\ \A k \in 1..l : h[k] = h[k - 1] + Bit(b, k - 1) * Two(l - k)
    BY <1>2 DEF Reverses
  <1> DEFINE g == [k \in 0..(l + 1) |-> IF k = 0 THEN 0 ELSE c * Two(l) + h[k - 1]]
  <1>5. g[0] = 0
    BY <1>1
  <1>6. ASSUME NEW k \in 1..(l + 1) PROVE g[k] = g[k - 1] + Bit(2 * b + c, k - 1) * Two((l + 1) - k)
    <2>1. k \in 0..(l + 1) /\ k # 0 /\ k - 1 \in 0..(l + 1) /\ k - 1 \in 0..l
      BY <1>1
    <2>2. g[k] = c * Two(l) + h[k - 1]
      BY <2>1
    <2>3. CASE k = 1
      <3>1. k - 1 = 0 /\ (l + 1) - k = l /\ g[k - 1] = 0
        BY <1>1, <2>3
      <3>2. Bit(2 * b + c, 0) = c
        <4>1. 0 \in 0..LogN
          BY <1>1
        <4>2. QED BY <4>1, BitHalf
      <3>3. QED BY <1>1, <1>4, <2>2, <3>1, <3>2
    <2>4. CASE k # 1
      <3>1. k - 1 \in 1..l /\ k - 1 # 0 /\ (l + 1) - k = l - (k - 1) /\ k - 2 \in 0..LogN /\ (k - 2) + 1 = k - 1
            /\ (k - 1) - 1 = k - 2 /\ k - 2 \in 0..l /\ l - (k - 1) \in 0..LogN
        BY <1>1, <2>4
      <3>2. g[k - 1] = c * Two(l) + h[k - 2]
        BY <2>1, <3>1
      <3>3. h[k - 1] = h[k - 2] + Bit(b, k - 2) * Two(l - (k - 1))
        BY <1>4, <3>1
      <3>4. Bit(2 * b + c, k - 1) = Bit(b, k - 2)
        <4>1. Bit(2 * b + c, (k - 2) + 1) = Bit(b, k - 2)
          BY <3>1, BitHalf
        <4>2. QED BY <3>1, <4>1
      <3> DEFINE p == Bit(b, k - 2) * Two(l - (k - 1))
      <3>5. h[k - 2] \in Nat /\ h[k - 1] = h[k - 2] + p /\ p \in Int /\ c * Two(l) \in Int
        <4>1. h[k - 2] \in Nat /\ h[k - 1] \in Nat
          BY <1>3, <3>1
        <4>2. Two(k - 2) \in Nat \ {0} /\ Two(l - (k - 1)) \in Nat
          BY <3>1, TwoSteps
        <4>3. b \div Two(k - 2) \in Nat
          BY <4>2, DivMod
        <4>4. Bit(b, k - 2) \in Nat
          BY <4>3, DivMod DEF Bit
        <4>5. \A u, v \in Nat : u * v \in Int
          BY Z3
        <4>6. QED BY <1>1, <3>3, <4>1, <4>2, <4>4, <4>5
      <3>6. Bit(2 * b + c, k - 1) * Two((l + 1) - k) = p
        BY <3>1, <3>4
      <3> HIDE DEF g, p
      <3>7. \A y \in Int : y + (h[k - 2] + p) = (y + h[k - 2]) + p
        BY <3>5
      <3>8. QED BY <2>2, <3>2, <3>5, <3>6, <3>7
    <2>5. QED BY <2>3, <2>4
  <1>7. g[l + 1] = c * Two(l) + h[l]
    BY <1>1
  <1> HIDE DEF g
  <1>8. Reverses(g, 2 * b + c, l + 1)
    BY <1>5, <1>6, Zenon DEF Reverses
  <1>9. BitReverse(2 * b + c, l + 1) = g[l + 1]
    BY <1>1, <1>8, BitReverseIs
  <1>10. h[l] \in Nat
    BY <1>1, <1>3
  <1>11. QED BY <1>2, <1>7, <1>9, <1>10

\* No bit, no number.
LEMMA ReverseNone ==
  ASSUME NEW x
  PROVE  BitReverse(x, 0) = 0
  <1> DEFINE h == [k \in 0..0 |-> 0]
  <1>1. h[0] = 0 /\ 1..0 = {} /\ 0 \in Nat
    OBVIOUS
  <1> HIDE DEF h
  <1>2. Reverses(h, x, 0)
    BY <1>1 DEF Reverses
  <1>3. QED BY <1>1, <1>2, BitReverseIs

\* Zero is its own reversal.
LEMMA ReverseZero ==
  ASSUME NEW l \in 0..LogN
  PROVE  BitReverse(0, l) = 0
  <1> DEFINE T == {k \in 0..l : BitReverse(0, k) = 0}
  <1>1. l \in Nat /\ LogN \in Nat
    BY TwoSteps
  <1>2. 0 \in T
    BY <1>1, ReverseNone
  <1>3. ASSUME NEW k \in 0..(l - 1), k \in T PROVE k + 1 \in T
    <2>1. k \in 0..(LogN - 1) /\ k + 1 \in 0..l /\ 2 * 0 + 0 = 0 /\ 0 \in 0..1 /\ k \in 0..LogN
      BY <1>1
    <2>2. BitReverse(2 * 0 + 0, k + 1) = 0 * Two(k) + BitReverse(0, k)
      BY <2>1, ReverseHalf
    <2>3. Two(k) \in Nat /\ BitReverse(0, k) = 0
      BY <1>3, <2>1, TwoSteps
    <2>4. QED BY <2>1, <2>2, <2>3
  <1> HIDE DEF T
  <1>4. \A k \in 0..l : k \in T
    BY <1>1, <1>2, <1>3, SetInduction
  <1>5. QED BY <1>1, <1>4 DEF T

\* The place of a twiddle: block b of round r finds its root at 2^r + b.
LEMMA ReverseTwiddle ==
  ASSUME NEW r \in 0..(LogN - 1)
  PROVE  \A l \in (r + 1)..LogN : \A b \in 0..(Two(r) - 1) :
           BitReverse(Two(r) + b, l) = Two(l - r - 1) * (2 * BitReverse(b, r) + 1)
  <1> DEFINE Claim(k) == \A l \in (k + 1)..LogN : \A b \in 0..(Two(k) - 1) :
                           BitReverse(Two(k) + b, l) = Two(l - k - 1) * (2 * BitReverse(b, k) + 1)
             T == {k \in 0..r : Claim(k)}
  <1>1. LogN \in Nat \ {0} /\ r \in Nat /\ Two(0) = 1
    BY TwoSteps
  <1>2. 0 \in T
    <2>1. ASSUME NEW l \in 1..LogN, NEW b \in 0..(1 - 1)
          PROVE  BitReverse(1 + b, l) = Two(l - 0 - 1) * (2 * BitReverse(b, 0) + 1)
      <3>1. b = 0 /\ l - 1 \in 0..(LogN - 1) /\ (l - 1) + 1 = l /\ 2 * 0 + 1 = 1 /\ 1 \in 0..1 /\ l - 0 - 1 = l - 1
            /\ l - 1 \in 0..LogN /\ 1 + b = 1
        BY <1>1
      <3>2. BitReverse(2 * 0 + 1, (l - 1) + 1) = 1 * Two(l - 1) + BitReverse(0, l - 1)
        BY <3>1, ReverseHalf
      <3>3. BitReverse(0, l - 1) = 0 /\ BitReverse(b, 0) = 0 /\ Two(l - 1) \in Nat
        BY <3>1, ReverseZero, ReverseNone, TwoSteps
      <3> HIDE DEF T
      <3>4. BitReverse(1, l) = Two(l - 1)
        BY <3>1, <3>2, <3>3
      <3>5. QED BY <3>1, <3>3, <3>4
    <2>2. Claim(0)
      BY <1>1, <2>1
    <2>3. QED BY <1>1, <2>2
  <1>3. ASSUME NEW k \in 0..(r - 1), k \in T PROVE k + 1 \in T
    <2>1. ASSUME NEW l \in (k + 2)..LogN, NEW b \in 0..(Two(k + 1) - 1)
          PROVE  BitReverse(Two(k + 1) + b, l) = Two(l - (k + 1) - 1) * (2 * BitReverse(b, k + 1) + 1)
      <3> DEFINE a == b \div 2
                 c == b % 2
                 s == BitReverse(a, k)
                 d == Two(l - k - 2)
      <3>1. /\ k \in 0..(LogN - 1) /\ l - 1 \in 0..(LogN - 1) /\ l - 1 \in (k + 1)..LogN /\ (l - 1) + 1 = l
            /\ (l - 1) - k - 1 = l - k - 2 /\ l - (k + 1) - 1 = l - k - 2 /\ l - k - 2 \in 0..LogN /\ k \in 0..LogN
            /\ l - 1 \in 0..LogN /\ k + 1 \in 0..LogN /\ (l - k - 2) + (k + 1) = l - 1 /\ k + 1 \in Nat /\ l - k - 2 \in Nat
            /\ l - 1 <= LogN
        BY <1>1
      <3>2. Two(k) \in Nat \ {0} /\ Two(k + 1) = 2 * Two(k) /\ Two(k + 1) \in Nat /\ b \in Nat
        BY <3>1, TwoSteps
      <3>3. a \in Nat /\ c \in 0..1 /\ b = 2 * a + c
        BY <3>2, DivMod
      <3> HIDE DEF a, c
      <3>4. a \in 0..(Two(k) - 1) /\ Two(k) + a \in Nat /\ Two(k + 1) + b = 2 * (Two(k) + a) + c
        BY <3>2, <3>3
      <3>5. BitReverse(2 * (Two(k) + a) + c, (l - 1) + 1) = c * Two(l - 1) + BitReverse(Two(k) + a, l - 1)
        BY <3>1, <3>3, <3>4, ReverseHalf
      <3>6. BitReverse(Two(k) + a, l - 1) = d * (2 * s + 1)
        <4>1. Claim(k)
          BY <1>3
        <4>2. BitReverse(Two(k) + a, l - 1) = Two((l - 1) - k - 1) * (2 * BitReverse(a, k) + 1)
          BY <3>1, <3>4, <4>1
        <4>3. QED BY <3>1, <4>2
      <3>7. BitReverse(2 * a + c, k + 1) = c * Two(k) + s /\ s \in Nat
        BY <3>1, <3>3, ReverseHalf
      <3>8. Two(l - 1) = d * Two(k + 1) /\ d \in Nat
        <4>1. Two((l - k - 2) + (k + 1)) = Two(l - k - 2) * Two(k + 1)
          <5> DEFINE x == l - k - 2
                     y == k + 1
          <5>1. x \in Nat /\ y \in Nat /\ x + y <= LogN
            BY <3>1
          <5> HIDE DEF x, y
          <5>2. Two(x + y) = Two(x) * Two(y)
            BY <5>1, TwoSum
          <5>3. QED BY <5>2 DEF x, y
        <4>2. Two(l - k - 2) \in Nat
          BY <3>1, TwoSteps
        <4>3. QED BY <3>1, <4>1, <4>2
      <3> HIDE DEF s, d, T
      <3>9. \A x \in Nat : c * (d * (2 * x)) + d * (2 * s + 1) = d * (2 * (c * x + s) + 1)
        BY <3>3, <3>7, <3>8, Z3
      <3>10. BitReverse(Two(k + 1) + b, l) = c * (d * (2 * Two(k))) + d * (2 * s + 1)
        BY <3>1, <3>2, <3>4, <3>5, <3>6, <3>8
      <3>11. BitReverse(b, k + 1) = c * Two(k) + s
        BY <3>3, <3>7
      <3>12. QED BY <3>1, <3>2, <3>9, <3>10, <3>11 DEF d
    <2>2. Claim(k + 1)
      <3>1. (k + 1) + 1 = k + 2
        OBVIOUS
      <3>2. QED BY <2>1, <3>1
    <2> HIDE DEF Claim
    <2>3. QED BY <2>2
  <1> HIDE DEF T
  <1>4. \A k \in 0..r : k \in T
    BY <1>1, <1>2, <1>3, SetInduction
  <1>5. r \in T
    BY <1>1, <1>4
  <1>6. QED BY <1>5 DEF T

-----------------------------------------------------------------------------
(***************************************************************************)
(* What a state says, with the modulus and the root as parameters, so that *)
(* it can be carried from a state to the next.                             *)
(***************************************************************************)
Rg(q) == INSTANCE Ring WITH P <- q

PowerOf(q, b, exp) ==
  LET power[e \in 0..exp] == IF e = 0 THEN 1 % q ELSE (power[e - 1] * b) % q
  IN  power[exp]

SumOf(q, f, m, j, z, n) ==
  LET sum[k \in 0..n] ==
        IF k = 0 THEN 0 ELSE (sum[k - 1] + f[j + m * (k - 1)] * PowerOf(q, z, k - 1)) % q
  IN  sum[n]

ResidueOf(q, r, f, l, x) ==
  LET m == N \div 2 ^ l
  IN  SumOf(q, f, m, x % m, PowerOf(q, r, m * (2 * BitReverse(x \div m, l) + 1)), 2 ^ l)

\* The parametrised forms are those of the model and of the ring.
LEMMA SamePower ==
  ASSUME NEW b, NEW e
  PROVE  ModPow(b, e) = RQ!Pow(b, e) /\ PowerOf(Q, b, e) = RQ!Pow(b, e)
  BY Zenon DEF ModPow, PowerOf, RQ!Pow

\* Likewise for a sum of powers,
LEMMA SameSum ==
  ASSUME NEW f, NEW m, NEW j, NEW z, NEW n
  PROVE  SumOf(Q, f, m, j, z, n) = RQ!PowerSum(f, m, j, z, n)
  BY Zenon DEF SumOf, PowerOf, RQ!PowerSum, RQ!Pow

\* a residue,
LEMMA SameResidue ==
  ASSUME NEW f, NEW l, NEW x
  PROVE  Residue(f, l, x) = ResidueOf(Q, psi, f, l, x)
  BY Zenon DEF Residue, ResidueOf, SumOf, ModPow, PowerOf

\* and a product.
LEMMA SameProduct ==
  ASSUME NEW f, NEW g
  PROVE  /\ R!Mul(f, g, N) = RQ!Mul(f, g, N) /\ Rg(Q)!Mul(f, g, N) = RQ!Mul(f, g, N)
         /\ Rg(Q)!Poly(N) = RQ!Poly(N) /\ Rg(Q)!Coeff = RQ!Coeff
  BY Zenon DEF R!Mul, RQ!Mul, Rg!Mul, RQ!Poly, Rg!Poly, RQ!Coeff, Rg!Coeff

-----------------------------------------------------------------------------
(***************************************************************************)
(* The lanes of a butterfly.                                               *)
(***************************************************************************)
Low(p, h) == (p \div h) * 2 * h + (p % h)

PairOf(x, h) == (x \div (2 * h)) * h + (x % h)

\* A quotient and a remainder, by the equation they satisfy.
LEMMA Exact ==
  ASSUME NEW x \in Nat, NEW d \in Nat \ {0}, NEW k \in Nat, NEW y \in 0..(d - 1), x = k * d + y
  PROVE  x \div d = k /\ x % d = y
  BY DivModUnique

\* Lane x is lane j of the lower half of block b, and its partner is x + h.
InBlock(x, h, b, j) ==
  /\ x \div (2 * h) = b /\ x % (2 * h) = j
  /\ x \div h = 2 * b /\ x % h = j
  /\ (x + h) \div (2 * h) = b /\ (x + h) % (2 * h) = j + h
  /\ (x + h) \div h = 2 * b + 1 /\ (x + h) % h = j

\* The two lanes of a butterfly share their block.
LEMMA LaneSplits ==
  ASSUME NEW h \in Nat \ {0}, NEW b \in Nat, NEW j \in 0..(h - 1), NEW x, x = b * 2 * h + j
  PROVE  InBlock(x, h, b, j) /\ x \in Nat
  <1> DEFINE k == b * 2 * h
  <1>1. k \in Nat /\ k = b * (2 * h) /\ k = (2 * b) * h /\ k + h = (2 * b + 1) * h
    BY Z3
  <1> HIDE DEF k
  <1>2. /\ k + j \in Nat /\ (k + j) + h \in Nat /\ 2 * h \in Nat \ {0} /\ h \in Nat \ {0} /\ 2 * b \in Nat /\ 2 * b + 1 \in Nat
        /\ j \in 0..((2 * h) - 1) /\ j + h \in 0..((2 * h) - 1) /\ j \in 0..(h - 1)
        /\ (k + j) + h = k + (j + h) /\ (k + j) + h = (k + h) + j
    BY <1>1
  <1>3. (k + j) \div (2 * h) = b /\ (k + j) % (2 * h) = j
    BY <1>1, <1>2, Exact
  <1>4. (k + j) \div h = 2 * b /\ (k + j) % h = j
    BY <1>1, <1>2, Exact
  <1>5. ((k + j) + h) \div (2 * h) = b /\ ((k + j) + h) % (2 * h) = j + h
    BY <1>1, <1>2, Exact
  <1>6. ((k + j) + h) \div h = 2 * b + 1 /\ ((k + j) + h) % h = j
    BY <1>1, <1>2, Exact
  <1>7. x = k + j
    BY DEF k
  <1>8. QED BY <1>2, <1>3, <1>4, <1>5, <1>6, <1>7 DEF InBlock

\* Butterfly p of a round works on a pair of lanes of its own.
LEMMA Pairs ==
  ASSUME NEW h \in Nat \ {0}, NEW t \in Nat \ {0}, N = (2 * h) * t, NEW p \in 0..(N \div 2 - 1)
  PROVE  /\ N \div 2 = h * t /\ p \in Nat
         /\ p \div h \in 0..(t - 1) /\ p % h \in 0..(h - 1)
         /\ Low(p, h) \in 0..(N - 1) /\ Low(p, h) + h \in 0..(N - 1) /\ Low(p, h) # Low(p, h) + h
         /\ PairOf(Low(p, h), h) = p /\ PairOf(Low(p, h) + h, h) = p
         /\ \A x \in 0..(N - 1) : PairOf(x, h) = p => x \in {Low(p, h), Low(p, h) + h}
  <1> DEFINE b == p \div h
             j == p % h
  <1>1. N \div 2 = h * t /\ h * t \in Nat /\ N = 2 * (h * t)
    <2> DEFINE k == h * t
    <2>1. k \in Nat /\ N = 2 * k
      BY Z3
    <2> HIDE DEF k
    <2>2. N \div 2 = k
      BY <2>1
    <2>3. QED BY <2>1, <2>2 DEF k
  <1>2. p \in Nat /\ b \in Nat /\ j \in 0..(h - 1) /\ p = h * b + j
    <2>1. p \in Nat
      BY <1>1
    <2>2. QED BY <2>1, DivMod
  <1> HIDE DEF b, j
  <1>3. b \in 0..(t - 1)
    <2>1. SUFFICES ASSUME b >= t PROVE FALSE
      BY <1>2
    <2>2. h * b >= h * t
      BY <1>2, <2>1, Z3
    <2>3. h * b \in Nat
      BY <1>2, Z3
    <2>4. QED BY <1>1, <1>2, <2>2, <2>3
  <1> DEFINE k == b * 2 * h
  <1>4. k \in Nat /\ k + 2 * h <= N
    <2>1. k \in Nat /\ (b + 1) * (2 * h) = k + 2 * h
      BY <1>2, Z3
    <2>2. (b + 1) * (2 * h) <= t * (2 * h)
      BY <1>2, <1>3, Z3
    <2>3. t * (2 * h) = N
      BY Z3
    <2>4. QED BY <2>1, <2>2, <2>3
  <1>5. Low(p, h) = k + j
    BY DEF Low, b, j
  <1>6. /\ (k + j) \div (2 * h) = b /\ (k + j) % h = j
        /\ ((k + j) + h) \div (2 * h) = b /\ ((k + j) + h) % h = j
    <2>1. InBlock(k + j, h, b, j)
      BY <1>2, LaneSplits
    <2>2. QED BY <2>1 DEF InBlock
  <1>7. b * h + j = p
    <2>1. b * h = h * b
      BY <1>2, Z3
    <2>2. QED BY <1>2, <2>1
  <1> HIDE DEF k
  <1>8. PairOf(k + j, h) = p /\ PairOf((k + j) + h, h) = p
    BY <1>6, <1>7 DEF PairOf
  <1>9. ASSUME NEW x \in 0..(N - 1), PairOf(x, h) = p PROVE x \in {k + j, (k + j) + h}
    <2> DEFINE c == x \div (2 * h)
               y == x % (2 * h)
    <2>1. N \in Nat /\ x \in Nat /\ 2 * h \in Nat \ {0}
      BY <1>1
    <2>2. c \in Nat /\ y \in 0..((2 * h) - 1) /\ x = (2 * h) * c + y
      BY <2>1, DivMod
    <2> HIDE DEF c, y
    <2>3. PICK z \in 0..(h - 1) : y = z \/ y = z + h
      <3>1. CASE y < h
        <4>1. y \in 0..(h - 1)
          BY <2>2, <3>1
        <4>2. QED BY <4>1
      <3>2. CASE ~(y < h)
        <4>1. y - h \in 0..(h - 1) /\ y = (y - h) + h
          BY <2>2, <3>2
        <4>2. QED BY <4>1
      <3>3. QED BY <3>1, <3>2
    <2>4. (2 * h) * c = c * 2 * h
      BY <2>2, Z3
    <2>5. x = c * 2 * h + z \/ x = (c * 2 * h + z) + h
      <3>1. c * 2 * h \in Nat
        BY <2>2, Z3
      <3>2. QED BY <2>2, <2>3, <2>4, <3>1
    <2>6. x % h = z
      <3> DEFINE a == c * 2 * h + z
      <3>1. InBlock(a, h, c, z)
        BY <2>2, <2>3, LaneSplits
      <3> HIDE DEF a
      <3>2. x = a \/ x = a + h
        BY <2>5 DEF a
      <3>3. QED BY <3>1, <3>2 DEF InBlock
    <2>7. c * h + z = p
      BY <1>9, <2>6 DEF PairOf, c
    <2>8. p \div h = c /\ p % h = z
      BY <1>2, <2>2, <2>7, Exact
    <2>9. c = b /\ z = j
      BY <2>8 DEF b, j
    <2>10. QED BY <2>5, <2>9 DEF k
  <1>10. k + j \in 0..(N - 1) /\ (k + j) + h \in 0..(N - 1) /\ k + j # (k + j) + h
    BY <1>1, <1>2, <1>4
  <1>11. QED BY <1>1, <1>2, <1>3, <1>5, <1>8, <1>9, <1>10 DEF b, j

\* Every lane belongs to a butterfly of the round.
LEMMA PairExists ==
  ASSUME NEW h \in Nat \ {0}, NEW t \in Nat \ {0}, N = (2 * h) * t, NEW x \in 0..(N - 1)
  PROVE  PairOf(x, h) \in 0..(N \div 2 - 1)
  <1> DEFINE c == x \div (2 * h)
             y == x % (2 * h)
             z == x % h
  <1>1. N \div 2 = h * t /\ h * t \in Nat /\ N = 2 * (h * t)
    <2> DEFINE k == h * t
    <2>1. k \in Nat /\ N = 2 * k
      BY Z3
    <2> HIDE DEF k
    <2>2. N \div 2 = k
      BY <2>1
    <2>3. QED BY <2>1, <2>2 DEF k
  <1>2. x \in Nat /\ c \in Nat /\ y \in 0..((2 * h) - 1) /\ x = (2 * h) * c + y /\ z \in 0..(h - 1)
    <2>1. x \in Nat /\ 2 * h \in Nat \ {0}
      BY <1>1
    <2>2. QED BY <2>1, DivMod
  <1> HIDE DEF c, y, z
  <1>3. c < t
    <2>1. SUFFICES ASSUME c >= t PROVE FALSE
      BY <1>2
    <2>2. (2 * h) * c >= (2 * h) * t
      BY <1>2, <2>1, Z3
    <2>3. (2 * h) * c \in Nat
      BY <1>2, Z3
    <2>4. QED BY <1>1, <1>2, <2>2, <2>3
  <1>4. (c + 1) * h <= t * h
    BY <1>2, <1>3, Z3
  <1>5. (c + 1) * h = c * h + h /\ c * h \in Nat /\ t * h = h * t
    BY <1>2, Z3
  <1>6. c * h + z \in 0..((h * t) - 1)
    BY <1>1, <1>2, <1>4, <1>5
  <1>7. QED BY <1>1, <1>6 DEF PairOf, c, z

-----------------------------------------------------------------------------
(***************************************************************************)
(* Residues, split and joined.                                             *)
(***************************************************************************)
\* The modulus is above the degree, and 2N divides Q - 1.
LEMMA ModulusFacts ==
  ASSUME Q \in Moduli
  PROVE  Q \in Nat \ {0} /\ Q > 2 /\ N \in Nat \ {0} /\ N < Q /\ LogN \in Nat \ {0}
         /\ \E u \in Nat \ {0} : Q - 1 = (2 * N) * u
  <1>1. Q \in Nat /\ Q >= 2 /\ (Q - 1) % (2 * N) = 0
    BY NttAssumption
  <1>2. N \in Nat \ {0} /\ LogN \in Nat \ {0} /\ 2 * N \in Nat \ {0} /\ Q - 1 \in Nat
    <2>1. LogN \in 0..LogN
      BY TwoSteps
    <2>2. QED BY <1>1, <2>1, TwoSteps
  <1> DEFINE u == (Q - 1) \div (2 * N)
  <1>3. u \in Nat /\ Q - 1 = (2 * N) * u
    <2>1. u \in Nat /\ Q - 1 = (2 * N) * u + ((Q - 1) % (2 * N))
      BY <1>2, DivMod
    <2> HIDE DEF u
    <2>2. (2 * N) * u \in Nat
      BY <1>2, <2>1, Z3
    <2>3. QED BY <1>1, <2>1, <2>2
  <1> HIDE DEF u
  <1>4. u # 0
    <2>1. (2 * N) * 0 = 0
      BY <1>2
    <2>2. QED BY <1>1, <1>3, <2>1
  <1>5. (2 * N) * u >= 2 * N
    BY <1>2, <1>3, <1>4, Z3
  <1>6. QED BY <1>1, <1>2, <1>3, <1>4, <1>5

\* Block sizes.
LEMMA Halvings ==
  ASSUME NEW l \in 0..LogN
  PROVE  /\ N \div 2 ^ l = Two(LogN - l) /\ N = Two(l) * Two(LogN - l)
         /\ Two(l) \in Nat \ {0} /\ Two(LogN - l) \in Nat \ {0} /\ N \in Nat \ {0}
  <1>1. LogN \in Nat /\ LogN - l \in 0..LogN /\ LogN - l \in Nat /\ l \in Nat /\ l + (LogN - l) = LogN /\ LogN \in 0..LogN
    BY TwoSteps
  <1>2. Two(l) \in Nat \ {0} /\ Two(LogN - l) \in Nat \ {0} /\ N \in Nat \ {0}
    BY <1>1, TwoSteps
  <1>3. N = Two(l) * Two(LogN - l)
    <2>1. ASSUME NEW k \in Nat, l + k <= LogN PROVE Two(l + k) = Two(l) * Two(k)
      BY <1>1, <2>1, TwoSum
    <2>2. Two(l + (LogN - l)) = Two(l) * Two(LogN - l)
      BY <1>1, <2>1
    <2>3. QED BY <1>1, <2>2, TwoSteps
  <1>4. N \div Two(l) = Two(LogN - l)
    <2> DEFINE x == Two(l)
               y == Two(LogN - l)
    <2> HIDE DEF x, y
    <2>1. N = y * x + 0 /\ 0 \in 0..(x - 1) /\ x \in Nat \ {0} /\ y \in Nat
      <3>1. x \in Nat \ {0} /\ y \in Nat /\ N = x * y
        BY <1>2, <1>3 DEF x, y
      <3>2. x * y = y * x /\ y * x \in Nat
        BY <3>1, Z3
      <3>3. QED BY <3>1, <3>2
    <2>2. N \div x = y
      BY <1>2, <2>1, Exact
    <2>3. QED BY <2>2 DEF x, y
  <1>5. QED BY <1>2, <1>3, <1>4 DEF Two

\* The half of a block, and the number of blocks.
LEMMA RoundShape ==
  ASSUME NEW l \in 0..(LogN - 1), NEW h, h = Two(LogN - 1 - l)
  PROVE  /\ h \in Nat \ {0} /\ Two(l) \in Nat \ {0} /\ N = (2 * h) * Two(l) /\ N \div 2 ^ (1 + l) = h
         /\ N \div 2 ^ (l + 1) = h /\ N \div 2 ^ l = 2 * h /\ 2 ^ (l + 1) = 2 * Two(l) /\ 2 ^ l = Two(l)
  <1>1. LogN \in Nat /\ l \in 0..LogN /\ l + 1 \in 0..LogN /\ LogN - (l + 1) = LogN - 1 - l /\ 1 + l = l + 1
        /\ LogN - 1 - l \in 0..LogN /\ (LogN - 1 - l) + 1 = LogN - l
    BY TwoSteps
  <1>2. Two(LogN - l) = 2 * h /\ Two(l + 1) = 2 * Two(l) /\ h \in Nat \ {0} /\ Two(l) \in Nat \ {0}
    <2>1. Two((LogN - 1 - l) + 1) = 2 * Two(LogN - 1 - l)
      BY <1>1, TwoSteps
    <2>2. QED BY <1>1, <2>1, TwoSteps
  <1>3. N \div 2 ^ l = 2 * h /\ N = Two(l) * (2 * h)
    BY <1>1, <1>2, Halvings
  <1>4. N \div 2 ^ (l + 1) = Two(LogN - (l + 1))
    BY <1>1, Halvings
  <1>5. Two(l) * (2 * h) = (2 * h) * Two(l)
    BY <1>2, Z3
  <1>6. QED BY <1>1, <1>2, <1>3, <1>4, <1>5 DEF Two

\* A residue, its block and its place in the block named.
LEMMA ResidueIs ==
  ASSUME NEW r, NEW f, NEW l, NEW x, NEW m, NEW b, NEW y, NEW s, NEW n,
         N \div 2 ^ l = m, 2 ^ l = n, x \div m = b, x % m = y, BitReverse(b, l) = s
  PROVE  ResidueOf(Q, r, f, l, x) = RQ!PowerSum(f, m, y, RQ!Pow(r, m * (2 * s + 1)), n)
  <1>1. ResidueOf(Q, r, f, l, x) = SumOf(Q, f, m, y, PowerOf(Q, r, m * (2 * s + 1)), n)
    BY Zenon DEF ResidueOf
  <1>2. PowerOf(Q, r, m * (2 * s + 1)) = RQ!Pow(r, m * (2 * s + 1))
    BY SamePower, Zenon
  <1> DEFINE z == RQ!Pow(r, m * (2 * s + 1))
  <1>3. ResidueOf(Q, r, f, l, x) = SumOf(Q, f, m, y, z, n)
    BY <1>1, <1>2
  <1> HIDE DEF z
  <1>4. SumOf(Q, f, m, y, z, n) = RQ!PowerSum(f, m, y, z, n)
    BY SameSum, Zenon
  <1>5. QED BY <1>3, <1>4 DEF z

\* What butterfly p of level l makes of its two lanes.
Splits(f, l, p, h) ==
  LET w == Twiddles(psi)[2 ^ l + (p \div h)]
      even == ResidueOf(Q, psi, f, l, Low(p, h))
      odd == ResidueOf(Q, psi, f, l, Low(p, h) + h)
  IN  /\ w \in RQ!Coeff /\ even \in RQ!Coeff /\ odd \in RQ!Coeff
      /\ ResidueOf(Q, psi, f, l + 1, Low(p, h)) = RQ!CAdd(even, RQ!CMul(w, odd))
      /\ ResidueOf(Q, psi, f, l + 1, Low(p, h) + h) = RQ!CAdd(even, RQ!CNeg(RQ!CMul(w, odd)))

\* At every level a butterfly makes of two residues the two of the next.
LEMMA ResidueSplits ==
  ASSUME Q \in Moduli, RQ!IsNegacyclic(psi, N), NEW f \in RQ!Poly(N),
         NEW l \in 0..(LogN - 1), NEW h, h = Two(LogN - 1 - l), NEW p \in 0..(N \div 2 - 1)
  PROVE  Splits(f, l, p, h)
  <1> DEFINE b == p \div h
             j == p % h
             t == Two(l)
             s == BitReverse(b, l)
             at == b * 2 * h + j
  <1>1. /\ h \in Nat \ {0} /\ t \in Nat \ {0} /\ N = (2 * h) * t /\ N \div 2 ^ (l + 1) = h
        /\ N \div 2 ^ l = 2 * h /\ 2 ^ (l + 1) = 2 * t /\ 2 ^ l = t
    BY RoundShape
  <1> HIDE DEF t
  <1>2. b \in 0..(t - 1) /\ j \in 0..(h - 1) /\ b \in Nat /\ Low(p, h) = at
    <2>1. b \in 0..(t - 1) /\ j \in 0..(h - 1)
      BY <1>1, Pairs
    <2>2. Low(p, h) = at
      BY DEF Low
    <2>3. QED BY <1>1, <2>1, <2>2
  <1> HIDE DEF b, j, s, at
  <1>3. /\ at \div (2 * h) = b /\ at % (2 * h) = j
        /\ at \div h = 2 * b /\ at % h = j
        /\ (at + h) \div (2 * h) = b /\ (at + h) % (2 * h) = j + h
        /\ (at + h) \div h = 2 * b + 1 /\ (at + h) % h = j
    <2>1. InBlock(at, h, b, j)
      BY <1>1, <1>2, LaneSplits DEF at
    <2>2. QED BY <2>1 DEF InBlock
  <1>4. s \in Nat /\ BitReverse(2 * b, l + 1) = s /\ BitReverse(2 * b + 1, l + 1) = t + s
    <2>1. 0 \in 0..1 /\ 1 \in 0..1 /\ 2 * b + 0 = 2 * b
      BY <1>2
    <2>2. BitReverse(2 * b + 0, l + 1) = 0 * Two(l) + BitReverse(b, l) /\ BitReverse(b, l) \in Nat
          /\ BitReverse(2 * b + 1, l + 1) = 1 * Two(l) + BitReverse(b, l)
      BY <1>2, <2>1, ReverseHalf
    <2>3. QED BY <1>1, <2>1, <2>2 DEF t, s
  <1> DEFINE v == RQ!Pow(psi, (2 * h) * (2 * s + 1))
             w == RQ!Pow(psi, h * (2 * s + 1))
             u == RQ!Pow(psi, h * (2 * (t + s) + 1))
  <1>5. Twiddles(psi)[2 ^ l + b] = w
    <2>1. t + b \in 0..(N - 1)
      <3>1. N = t * (2 * h) /\ t * (2 * h) >= t * 2
        BY <1>1, Z3
      <3>2. QED BY <1>1, <1>2, <3>1
    <2>2. Twiddles(psi)[t + b] = ModPow(psi, BitReverse(t + b, LogN))
      BY <2>1 DEF Twiddles
    <2>3. BitReverse(t + b, LogN) = h * (2 * s + 1)
      <3>1. LogN \in (l + 1)..LogN /\ LogN - l - 1 = LogN - 1 - l
        BY TwoSteps
      <3>2. BitReverse(Two(l) + b, LogN) = Two(LogN - l - 1) * (2 * BitReverse(b, l) + 1)
        BY <1>2, <3>1, ReverseTwiddle DEF t
      <3>3. QED BY <3>1, <3>2 DEF t, s
    <2>4. QED BY <1>1, <2>2, <2>3, SamePower
  <1> HIDE DEF s
  <1>6. ResidueOf(Q, psi, f, l, at) = RQ!PowerSum(f, 2 * h, j, v, t)
    BY <1>1, <1>3, ResidueIs DEF s
  <1>7. ResidueOf(Q, psi, f, l, at + h) = RQ!PowerSum(f, 2 * h, j + h, v, t)
    BY <1>1, <1>3, ResidueIs DEF s
  <1>8. ResidueOf(Q, psi, f, l + 1, at) = RQ!PowerSum(f, h, j, w, 2 * t)
    BY <1>1, <1>3, <1>4, ResidueIs
  <1>9. ResidueOf(Q, psi, f, l + 1, at + h) = RQ!PowerSum(f, h, j, u, 2 * t)
    <2> DEFINE y == at + h
               c == 2 * b + 1
               s2 == t + s
               n2 == 2 * t
    <2>1. N \div 2 ^ (l + 1) = h /\ 2 ^ (l + 1) = n2 /\ y \div h = c /\ y % h = j /\ BitReverse(c, l + 1) = s2
      BY <1>1, <1>3, <1>4
    <2> HIDE DEF y, c, s2, n2
    <2>2. ResidueOf(Q, psi, f, l + 1, y) = RQ!PowerSum(f, h, j, RQ!Pow(psi, h * (2 * s2 + 1)), n2)
      BY <2>1, ResidueIs
    <2>3. QED BY <2>2 DEF y, s2, n2
  <1>10. RQ!Halves(f, psi, h, t, s, j)
    BY <1>1, <1>2, <1>4, ModulusFacts, RQ!ButterflySplits
  <1>11. QED BY <1>1, <1>2, <1>5, <1>6, <1>7, <1>8, <1>9, <1>10, Zenon DEF RQ!Halves, Splits, b

-----------------------------------------------------------------------------
(***************************************************************************)
(* The rounds.                                                             *)
(***************************************************************************)
Level(x, h, r, p) == IF PairOf(x, h) < p THEN r + 1 ELSE r

ForwardAt(q, z, f, buf, r, p) ==
  \A x \in 0..(N - 1) : buf[x] = ResidueOf(q, z, f, Level(x, N \div 2 ^ (1 + r), r, p), x)

InverseAt(q, z, f, buf, r, p) ==
  \A x \in 0..(N - 1) :
    buf[x] = (2 ^ Level(x, 2 ^ r, r, p) * ResidueOf(q, z, f, LogN - Level(x, 2 ^ r, r, p), x)) % q

\* A butterfly writes the two lanes of its pair.
Writes(buf, new, p, h, a, b) ==
  /\ new[Low(p, h)] = a /\ new[Low(p, h) + h] = b
  /\ \A x \in 0..(N - 1) : x \notin {Low(p, h), Low(p, h) + h} => new[x] = buf[x]

\* From one butterfly to the next only its pair goes up a level.
LevelStep(h, r, p) ==
  /\ Low(p, h) \in 0..(N - 1) /\ Low(p, h) + h \in 0..(N - 1)
  /\ Level(Low(p, h), h, r, p) = r /\ Level(Low(p, h) + h, h, r, p) = r
  /\ Level(Low(p, h), h, r, p + 1) = r + 1 /\ Level(Low(p, h) + h, h, r, p + 1) = r + 1
  /\ \A x \in 0..(N - 1) : x \notin {Low(p, h), Low(p, h) + h} => Level(x, h, r, p + 1) = Level(x, h, r, p)

\* The butterfly done, the levels are those of the next one.
LEMMA LevelMoves ==
  ASSUME NEW h \in Nat \ {0}, NEW t \in Nat \ {0}, N = (2 * h) * t, NEW p \in 0..(N \div 2 - 1), NEW r
  PROVE  LevelStep(h, r, p)
  <1>1. /\ p \in Nat /\ Low(p, h) \in 0..(N - 1) /\ Low(p, h) + h \in 0..(N - 1)
        /\ PairOf(Low(p, h), h) = p /\ PairOf(Low(p, h) + h, h) = p
        /\ \A x \in 0..(N - 1) : PairOf(x, h) = p => x \in {Low(p, h), Low(p, h) + h}
    BY Pairs
  <1>2. p < p + 1 /\ ~(p < p)
    BY <1>1
  <1>3. ASSUME NEW x \in 0..(N - 1), x \notin {Low(p, h), Low(p, h) + h}
        PROVE  Level(x, h, r, p + 1) = Level(x, h, r, p)
    <2>1. PairOf(x, h) # p
      BY <1>1, <1>3
    <2>2. PairOf(x, h) \in Int
      <3>1. PairOf(x, h) \in 0..(N \div 2 - 1)
        BY PairExists
      <3>2. QED BY <3>1
    <2> DEFINE y == PairOf(x, h)
    <2> HIDE DEF y
    <2>3. y < p + 1 <=> y < p
      BY <1>1, <2>1, <2>2 DEF y
    <2>4. QED BY <2>3 DEF Level, y
  <1>4. QED BY <1>1, <1>2, <1>3 DEF Level, LevelStep

\* In round r no lane is visited before butterfly 0, and all are after the last.
LEMMA LevelEnds ==
  ASSUME NEW h \in Nat \ {0}, NEW t \in Nat \ {0}, N = (2 * h) * t, NEW x \in 0..(N - 1), NEW r
  PROVE  Level(x, h, r, 0) = r /\ Level(x, h, r, N \div 2) = r + 1
  <1> DEFINE y == PairOf(x, h)
  <1>1. y \in 0..(N \div 2 - 1)
    BY PairExists
  <1> HIDE DEF y
  <1>2. N \div 2 \in Int
    <2>1. N \in Nat
      <3>1. LogN \in 0..LogN
        BY TwoSteps
      <3>2. QED BY <3>1, TwoSteps
    <2>2. QED BY <2>1
  <1>3. ~(y < 0) /\ y < N \div 2
    BY <1>1, <1>2
  <1>4. QED BY <1>3 DEF Level, y

\* A difference is a sum with the opposite.
LEMMA CoeffDifference ==
  ASSUME Q \in Moduli, NEW a \in RQ!Coeff, NEW b \in RQ!Coeff
  PROVE  (a + Q - b) % Q = RQ!CAdd(a, RQ!CNeg(b))
  <1>1. Q \in Nat \ {0}
    BY ModulusFacts
  <1>2. a \in Nat /\ b \in Nat /\ b < Q
    BY <1>1 DEF RQ!Coeff
  <1>3. Q - b \in Nat /\ a + Q - b = a + (Q - b)
    BY <1>1, <1>2
  <1>4. (a + ((Q - b) % Q)) % Q = (a + (Q - b)) % Q
    BY <1>1, <1>2, <1>3, RQ!ModEarly
  <1>5. QED BY <1>3, <1>4 DEF RQ!CAdd, RQ!CNeg

\* A forward butterfly, on the residues.
LEMMA ForwardLane ==
  ASSUME Q \in Moduli, RQ!IsNegacyclic(psi, N), NEW f \in RQ!Poly(N),
         NEW r \in 0..(LogN - 1), NEW h, h = Two(LogN - 1 - r), NEW p \in 0..(N \div 2 - 1),
         NEW buf, NEW new, ForwardAt(Q, psi, f, buf, r, p),
         NEW y, y = (buf[Low(p, h) + h] * Twiddles(psi)[2 ^ r + (p \div h)]) % Q,
         Writes(buf, new, p, h, (buf[Low(p, h)] + y) % Q, (buf[Low(p, h)] + Q - y) % Q)
  PROVE  ForwardAt(Q, psi, f, new, r, p + 1)
  <1> DEFINE at == Low(p, h)
             w == Twiddles(psi)[2 ^ r + (p \div h)]
             even == ResidueOf(Q, psi, f, r, at)
             odd == ResidueOf(Q, psi, f, r, at + h)
             t == Two(r)
  <1>1. h \in Nat \ {0} /\ t \in Nat \ {0} /\ N = (2 * h) * t /\ N \div 2 ^ (1 + r) = h /\ Q \in Nat \ {0}
    BY RoundShape, ModulusFacts
  <1>2. /\ w \in RQ!Coeff /\ even \in RQ!Coeff /\ odd \in RQ!Coeff
        /\ ResidueOf(Q, psi, f, r + 1, at) = RQ!CAdd(even, RQ!CMul(w, odd))
        /\ ResidueOf(Q, psi, f, r + 1, at + h) = RQ!CAdd(even, RQ!CNeg(RQ!CMul(w, odd)))
    BY ResidueSplits, Zenon DEF Splits
  <1>3. /\ at \in 0..(N - 1) /\ at + h \in 0..(N - 1)
        /\ Level(at, h, r, p) = r /\ Level(at + h, h, r, p) = r
        /\ Level(at, h, r, p + 1) = r + 1 /\ Level(at + h, h, r, p + 1) = r + 1
        /\ \A x \in 0..(N - 1) : x \notin {at, at + h} => Level(x, h, r, p + 1) = Level(x, h, r, p)
    <2>1. LevelStep(h, r, p)
      BY <1>1, LevelMoves
    <2>2. QED BY <2>1 DEF LevelStep
  <1>4. buf[at] = even /\ buf[at + h] = odd
    BY <1>1, <1>3 DEF ForwardAt
  <1>5. y = RQ!CMul(w, odd) /\ y \in RQ!Coeff
    <2>1. y = (odd * w) % Q
      BY <1>4
    <2>2. RQ!CMul(odd, w) = RQ!CMul(w, odd) /\ RQ!CMul(w, odd) \in RQ!Coeff
      <3>1. RQ!CMul(odd, w) = RQ!CMul(w, odd)
        BY <1>1, <1>2, RQ!CoeffProducts
      <3>2. RQ!CMul(w, odd) \in RQ!Coeff
        BY <1>1, <1>2, RQ!CoeffClosed
      <3>3. QED BY <3>1, <3>2
    <2>3. QED BY <2>1, <2>2 DEF RQ!CMul
  <1>6. new[at] = ResidueOf(Q, psi, f, r + 1, at) /\ new[at + h] = ResidueOf(Q, psi, f, r + 1, at + h)
    <2>1. new[at] = (even + y) % Q /\ new[at + h] = (even + Q - y) % Q
      BY <1>4 DEF Writes
    <2>2. (even + Q - y) % Q = RQ!CAdd(even, RQ!CNeg(y))
      BY <1>2, <1>5, CoeffDifference
    <2>3. QED BY <1>2, <1>5, <2>1, <2>2 DEF RQ!CAdd
  <1> HIDE DEF at, w, even, odd, t
  <1>7. ASSUME NEW x \in 0..(N - 1) PROVE new[x] = ResidueOf(Q, psi, f, Level(x, h, r, p + 1), x)
    <2>1. CASE x = at
      BY <1>3, <1>6, <2>1
    <2>2. CASE x = at + h
      BY <1>3, <1>6, <2>2
    <2>3. CASE x \notin {at, at + h}
      <3>1. new[x] = buf[x]
        BY <2>3 DEF Writes, at
      <3>2. buf[x] = ResidueOf(Q, psi, f, Level(x, h, r, p), x)
        BY <1>1 DEF ForwardAt
      <3>3. QED BY <1>3, <2>3, <3>1, <3>2
    <2>4. QED BY <2>1, <2>2, <2>3
  <1>8. QED BY <1>1, <1>7 DEF ForwardAt

\* Level 0: the polynomial itself.
LEMMA ResidueAtZero ==
  ASSUME Q \in Moduli, NEW r \in Nat, NEW f \in RQ!Poly(N), NEW x \in 0..(N - 1)
  PROVE  ResidueOf(Q, r, f, 0, x) = f[x] /\ f[x] \in RQ!Coeff
  <1>1. Q \in Nat \ {0} /\ N \in Nat \ {0} /\ 0 \in 0..LogN /\ LogN - 0 = LogN /\ Two(0) = 1 /\ Two(LogN) = N
    BY ModulusFacts, TwoSteps
  <1>2. N \div 2 ^ 0 = N /\ 2 ^ 0 = 1
    BY <1>1, Halvings DEF Two
  <1>3. x \div N = 0 /\ x % N = x
    <2>1. x = 0 * N + x /\ x \in Nat /\ 0 \in Nat
      BY <1>1
    <2>2. QED BY <1>1, <2>1, Exact
  <1> DEFINE z == RQ!Pow(r, N * (2 * 0 + 1))
  <1>4. ResidueOf(Q, r, f, 0, x) = RQ!PowerSum(f, N, x, z, 1)
    <2>1. BitReverse(0, 0) = 0
      BY ReverseNone
    <2> DEFINE l == 0
               s == 0
               n == 1
    <2>2. N \div 2 ^ l = N /\ 2 ^ l = n /\ x \div N = s /\ x % N = x /\ BitReverse(s, l) = s
      BY <1>2, <1>3, <2>1
    <2> HIDE DEF l, s, n
    <2>3. ResidueOf(Q, r, f, l, x) = RQ!PowerSum(f, N, x, RQ!Pow(r, N * (2 * s + 1)), n)
      BY <2>2, ResidueIs
    <2>4. QED BY <2>3 DEF l, s, n
  <1>5. z \in RQ!Coeff
    <2>1. N * (2 * 0 + 1) = N
      BY <1>1
    <2>2. RQ!Pow(r, N) \in RQ!Coeff
      BY <1>1, RQ!PowSteps
    <2>3. QED BY <2>1, <2>2
  <1> HIDE DEF z
  <1>6. f[x] \in RQ!Coeff
    BY DEF RQ!Poly
  <1>7. N * 0 = 0 /\ x + N * 0 = x /\ x \in Nat /\ 0 + 1 = 1 /\ 0 \in Nat
    BY <1>1
  <1>8. RQ!Strided(f, N, x, 0 + 1)
    <2>1. \A k \in 0..((0 + 1) - 1) : k = 0
      OBVIOUS
    <2>2. QED BY <1>6, <1>7, <2>1 DEF RQ!Strided
  <1>9. /\ RQ!PowerSum(f, N, x, z, 0) = 0
        /\ RQ!PowerSum(f, N, x, z, 0 + 1) = RQ!CAdd(RQ!PowerSum(f, N, x, z, 0), RQ!CMul(f[x + N * 0], RQ!Pow(z, 0)))
    BY <1>1, <1>5, <1>7, <1>8, RQ!PowerSumSteps
  <1>10. RQ!Pow(z, 0) = RQ!COne /\ RQ!COne \in RQ!Coeff /\ 0 \in RQ!Coeff
    <2>1. z \in Nat
      BY <1>1, <1>5, RQ!CoeffClosed
    <2>2. QED BY <1>1, <1>7, <2>1, RQ!PowSteps, RQ!CoeffClosed
  <1>11. RQ!CMul(f[x], RQ!COne) = f[x] /\ RQ!CAdd(0, f[x]) = f[x]
    <2>1. RQ!CMul(f[x], RQ!COne) = RQ!CMul(RQ!COne, f[x]) /\ RQ!CMul(RQ!COne, f[x]) = f[x]
      <3>1. RQ!CMul(f[x], RQ!COne) = RQ!CMul(RQ!COne, f[x])
        BY <1>1, <1>6, <1>10, RQ!CoeffProducts
      <3>2. RQ!CMul(RQ!COne, f[x]) = f[x]
        BY <1>1, <1>6, <1>10, RQ!CoeffProducts
      <3>3. QED BY <3>1, <3>2
    <2>2. RQ!CAdd(0, f[x]) = f[x]
      BY <1>1, <1>6, <1>10, RQ!CoeffSums
    <2>3. QED BY <2>1, <2>2
  <1>12. QED BY <1>4, <1>6, <1>7, <1>9, <1>10, <1>11

\* The last level: the value at an odd power of the root.
LEMMA ResidueAtTop ==
  ASSUME Q \in Moduli, NEW f, NEW x \in 0..(N - 1)
  PROVE  /\ BitReverse(x, LogN) \in Nat
         /\ ResidueOf(Q, psi, f, LogN, x) = RQ!Value(f, RQ!Pow(psi, 2 * BitReverse(x, LogN) + 1), N)
  <1>1. LogN \in 0..LogN /\ LogN \in Nat /\ LogN - LogN = 0 /\ Two(0) = 1 /\ N = Two(LogN) /\ x \in Nat
    BY TwoSteps
  <1>2. N \div 2 ^ LogN = 1 /\ 2 ^ LogN = N
    <2>1. N \div 2 ^ LogN = Two(LogN - LogN)
      BY <1>1, Halvings
    <2>2. QED BY <1>1, <2>1 DEF Two
  <1>3. x \div 1 = x /\ x % 1 = 0
    BY <1>1
  <1> DEFINE s == BitReverse(x, LogN)
  <1>4. s \in Nat
    <2>1. PICK h \in [0..LogN -> Nat] : Reverses(h, x, LogN) /\ BitReverse(x, LogN) = h[LogN]
      BY <1>1, BitReverseUnfolds
    <2>2. QED BY <1>1, <2>1
  <1>5. ResidueOf(Q, psi, f, LogN, x) = RQ!PowerSum(f, 1, 0, RQ!Pow(psi, 1 * (2 * s + 1)), N)
    BY <1>2, <1>3, ResidueIs
  <1> HIDE DEF s
  <1>6. 1 * (2 * s + 1) = 2 * s + 1
    BY <1>4
  <1>7. QED BY <1>4, <1>5, <1>6 DEF RQ!Value, s

\* A forward transform starts at level 0,
LEMMA ForwardStarts ==
  ASSUME Q \in Moduli, NEW r \in Nat, NEW f \in RQ!Poly(N)
  PROVE  ForwardAt(Q, r, f, f, 0, 0)
  <1>1. 0 \in 0..(LogN - 1) /\ LogN - 1 - 0 \in 0..LogN
    BY TwoSteps
  <1> DEFINE h == Two(LogN - 1 - 0)
             t == Two(0)
  <1>2. h \in Nat \ {0} /\ t \in Nat \ {0} /\ N = (2 * h) * t /\ N \div 2 ^ (1 + 0) = h
    BY <1>1, RoundShape
  <1> HIDE DEF h, t
  <1>3. ASSUME NEW x \in 0..(N - 1) PROVE f[x] = ResidueOf(Q, r, f, Level(x, h, 0, 0), x)
    <2>1. Level(x, h, 0, 0) = 0
      BY <1>2, LevelEnds
    <2>2. QED BY <2>1, ResidueAtZero
  <1>4. QED BY <1>2, <1>3 DEF ForwardAt

\* a round that ends is the next one begun,
LEMMA ForwardRolls ==
  ASSUME NEW q, NEW z, NEW f, NEW buf, NEW r \in 0..(LogN - 2), ForwardAt(q, z, f, buf, r, N \div 2)
  PROVE  ForwardAt(q, z, f, buf, r + 1, 0)
  <1>1. r \in 0..(LogN - 1) /\ r + 1 \in 0..(LogN - 1)
    BY TwoSteps
  <1> DEFINE h == Two(LogN - 1 - r)
             t == Two(r)
             h1 == Two(LogN - 1 - (r + 1))
             t1 == Two(r + 1)
  <1>2. h \in Nat \ {0} /\ t \in Nat \ {0} /\ N = (2 * h) * t /\ N \div 2 ^ (1 + r) = h
    BY <1>1, RoundShape
  <1>3. h1 \in Nat \ {0} /\ t1 \in Nat \ {0} /\ N = (2 * h1) * t1 /\ N \div 2 ^ (1 + (r + 1)) = h1
    BY <1>1, RoundShape
  <1> HIDE DEF h, t, h1, t1
  <1>4. ASSUME NEW x \in 0..(N - 1) PROVE buf[x] = ResidueOf(q, z, f, Level(x, h1, r + 1, 0), x)
    <2>1. Level(x, h, r, N \div 2) = r + 1
      BY <1>2, LevelEnds
    <2>2. \A k : Level(x, h1, k, 0) = k
      BY <1>3, LevelEnds
    <2>3. buf[x] = ResidueOf(q, z, f, Level(x, h, r, N \div 2), x)
      BY <1>2 DEF ForwardAt
    <2>4. QED BY <2>1, <2>2, <2>3
  <1>5. QED BY <1>3, <1>4 DEF ForwardAt

\* Transformed: lane x holds the value at the odd power bit reversal puts there.
Transformed(q, z, f, buf) == \A x \in 0..(N - 1) : buf[x] = ResidueOf(q, z, f, LogN, x)

\* and the last round leaves the values at the odd powers.
LEMMA ForwardEnds ==
  ASSUME NEW q, NEW z, NEW f, NEW buf, ForwardAt(q, z, f, buf, LogN - 1, N \div 2)
  PROVE  Transformed(q, z, f, buf)
  <1>1. LogN - 1 \in 0..(LogN - 1) /\ (LogN - 1) + 1 = LogN
    BY TwoSteps
  <1> DEFINE r == LogN - 1
             h == Two(LogN - 1 - r)
             t == Two(r)
  <1>2. h \in Nat \ {0} /\ t \in Nat \ {0} /\ N = (2 * h) * t /\ N \div 2 ^ (1 + r) = h
    BY <1>1, RoundShape
  <1>3. r + 1 = LogN /\ ForwardAt(q, z, f, buf, r, N \div 2)
    BY <1>1
  <1> HIDE DEF h, t, r
  <1>4. ASSUME NEW x \in 0..(N - 1) PROVE buf[x] = ResidueOf(q, z, f, LogN, x)
    <2>1. Level(x, h, r, N \div 2) = r + 1
      BY <1>2, LevelEnds
    <2>2. buf[x] = ResidueOf(q, z, f, Level(x, h, r, N \div 2), x)
      BY <1>2, <1>3 DEF ForwardAt
    <2>3. QED BY <1>3, <2>1, <2>2
  <1>5. QED BY <1>4 DEF Transformed

\* The product of the values is the value of the product.
LEMMA TransformedProduct ==
  ASSUME Q \in Moduli, RQ!IsNegacyclic(psi, N), NEW f \in RQ!Poly(N), NEW g \in RQ!Poly(N),
         NEW a, NEW b, Transformed(Q, psi, f, a), Transformed(Q, psi, g, b)
  PROVE  \A x \in 0..(N - 1) : (a[x] * b[x]) % Q = ResidueOf(Q, psi, RQ!Mul(f, g, N), LogN, x)
  <1>1. Q \in Nat \ {0} /\ Q > 2
    BY ModulusFacts
  <1>2. ASSUME NEW x \in 0..(N - 1)
        PROVE  (a[x] * b[x]) % Q = ResidueOf(Q, psi, RQ!Mul(f, g, N), LogN, x)
    <2> DEFINE s == BitReverse(x, LogN)
               z == RQ!Pow(psi, 2 * s + 1)
               fg == RQ!Mul(f, g, N)
    <2>1. s \in Nat
      BY ResidueAtTop
    <2>2. ResidueOf(Q, psi, f, LogN, x) = RQ!Value(f, z, N)
      BY ResidueAtTop
    <2>3. ResidueOf(Q, psi, g, LogN, x) = RQ!Value(g, z, N)
      BY ResidueAtTop
    <2>4. ResidueOf(Q, psi, fg, LogN, x) = RQ!Value(fg, z, N)
      BY ResidueAtTop
    <2> HIDE DEF s
    <2>5. RQ!IsNegacyclic(z, N)
      BY <1>1, <2>1, RQ!OddPowerIsRoot
    <2> HIDE DEF z
    <2>6. RQ!Value(fg, z, N) = RQ!CMul(RQ!Value(f, z, N), RQ!Value(g, z, N))
      BY <1>1, <2>5, RQ!ValueOfProduct
    <2>7. a[x] = RQ!Value(f, z, N) /\ b[x] = RQ!Value(g, z, N)
      BY <2>2, <2>3 DEF Transformed
    <2>8. QED BY <2>4, <2>6, <2>7 DEF RQ!CMul
  <1>3. QED BY <1>2

-----------------------------------------------------------------------------
(***************************************************************************)
(* And back.                                                               *)
(***************************************************************************)
\* A reversal is a natural number.
LEMMA ReversalNat ==
  ASSUME NEW x \in Nat
  PROVE  BitReverse(x, LogN) \in Nat
  <1>1. LogN \in 0..LogN /\ LogN \in Nat
    BY TwoSteps
  <1>2. PICK h \in [0..LogN -> Nat] : Reverses(h, x, LogN) /\ BitReverse(x, LogN) = h[LogN]
    BY <1>1, BitReverseUnfolds
  <1>3. QED BY <1>1, <1>2

\* The two tables are inverse, entry by entry.
LEMMA TwiddleInverse ==
  ASSUME Q \in Moduli, NEW a \in RQ!Coeff, NEW b \in RQ!Coeff, RQ!CMul(a, b) = RQ!COne, NEW k \in 0..(N - 1)
  PROVE  /\ Twiddles(a)[k] \in RQ!Coeff /\ Twiddles(b)[k] \in RQ!Coeff
         /\ RQ!CMul(Twiddles(a)[k], Twiddles(b)[k]) = RQ!COne
  <1> DEFINE s == BitReverse(k, LogN)
  <1>1. Q \in Nat \ {0}
    BY ModulusFacts
  <1>2. s \in Nat
    BY ReversalNat
  <1>3. Twiddles(a)[k] = RQ!Pow(a, s) /\ Twiddles(b)[k] = RQ!Pow(b, s)
    BY SamePower, Zenon DEF Twiddles
  <1> HIDE DEF s
  <1>4. a \in Nat /\ b \in Nat
    BY <1>1, RQ!CoeffClosed
  <1>5. RQ!Pow(a, s) \in RQ!Coeff
    BY <1>1, <1>2, <1>4, RQ!PowSteps
  <1>6. RQ!Pow(b, s) \in RQ!Coeff
    BY <1>1, <1>2, <1>4, RQ!PowSteps
  <1>7. RQ!CMul(RQ!Pow(a, s), RQ!Pow(b, s)) = RQ!COne
    BY <1>1, <1>2, RQ!PowInverse
  <1>8. QED BY <1>3, <1>5, <1>6, <1>7

\* The twiddle of butterfly p at level l has a place in the table.
LEMMA TwiddlePlace ==
  ASSUME NEW l \in 0..(LogN - 1), NEW h, h = Two(LogN - 1 - l), NEW p \in 0..(N \div 2 - 1)
  PROVE  2 ^ l + (p \div h) \in 0..(N - 1)
  <1> DEFINE t == Two(l)
             b == p \div h
  <1>1. h \in Nat \ {0} /\ t \in Nat \ {0} /\ N = (2 * h) * t /\ 2 ^ l = t
    BY RoundShape
  <1> HIDE DEF t
  <1>2. b \in 0..(t - 1)
    BY <1>1, Pairs
  <1> HIDE DEF b
  <1>3. N = t * (2 * h) /\ t * (2 * h) >= t * 2
    BY <1>1, Z3
  <1>4. t + b \in 0..(N - 1)
    BY <1>1, <1>2, <1>3
  <1>5. QED BY <1>1, <1>4 DEF b

\* An inverse butterfly, on the doubled residues.
LEMMA InverseLane ==
  ASSUME Q \in Moduli, RQ!IsNegacyclic(psi, N), NEW inv \in RQ!Coeff, RQ!CMul(psi, inv) = RQ!COne,
         NEW f \in RQ!Poly(N), NEW r \in 0..(LogN - 1), NEW h, h = Two(r), NEW p \in 0..(N \div 2 - 1),
         NEW buf, NEW new, InverseAt(Q, psi, f, buf, r, p), NEW k, k = (N \div 2 ^ (1 + r)) + (p \div h),
         Writes(buf, new, p, h, (buf[Low(p, h)] + buf[Low(p, h) + h]) % Q,
                ((buf[Low(p, h)] + Q - buf[Low(p, h) + h]) * Twiddles(inv)[k]) % Q)
  PROVE  InverseAt(Q, psi, f, new, r, p + 1)
  <1> DEFINE l == LogN - 1 - r
             at == Low(p, h)
             w == Twiddles(psi)[2 ^ l + (p \div h)]
             i == Twiddles(inv)[2 ^ l + (p \div h)]
             even == ResidueOf(Q, psi, f, l, at)
             odd == ResidueOf(Q, psi, f, l, at + h)
             t == Two(l)
             c == 2 ^ r
  <1>1. /\ l \in 0..(LogN - 1) /\ h = Two(LogN - 1 - l) /\ r \in 0..LogN /\ LogN - r = l + 1 /\ LogN - (r + 1) = l
        /\ r + 1 \in 0..LogN /\ l \in 0..LogN
    <2>1. LogN \in Nat
      BY TwoSteps
    <2>2. l \in 0..(LogN - 1) /\ LogN - 1 - l = r
      BY <2>1
    <2>3. QED BY <2>1, <2>2
  <1>2. h \in Nat \ {0} /\ t \in Nat \ {0} /\ N = (2 * h) * t /\ c = h /\ Q \in Nat \ {0}
        /\ 2 ^ (r + 1) = 2 * c /\ c \in Nat
    <2>1. h \in Nat \ {0} /\ t \in Nat \ {0} /\ N = (2 * h) * t
      BY <1>1, RoundShape
    <2>2. 2 ^ (r + 1) = 2 * 2 ^ r
      BY <1>1, TwosAssumption
    <2>3. QED BY <2>1, <2>2, ModulusFacts DEF Two
  <1>3. k = 2 ^ l + (p \div h) /\ k \in 0..(N - 1)
    <2>1. N \div 2 ^ (r + 1) = Two(LogN - (r + 1))
      BY <1>1, Halvings
    <2>2. 1 + r = r + 1
      OBVIOUS
    <2>3. k = 2 ^ l + (p \div h)
      BY <1>1, <2>1, <2>2 DEF Two
    <2>4. 2 ^ l + (p \div h) \in 0..(N - 1)
      BY <1>1, TwiddlePlace
    <2>5. QED BY <2>3, <2>4
  <1>4. psi \in RQ!Coeff
    BY DEF RQ!IsNegacyclic
  <1>5. i \in RQ!Coeff /\ RQ!CMul(w, i) = RQ!COne
    <2>1. Twiddles(inv)[k] \in RQ!Coeff /\ RQ!CMul(Twiddles(psi)[k], Twiddles(inv)[k]) = RQ!COne
      BY <1>3, <1>4, TwiddleInverse
    <2>2. QED BY <1>3, <2>1
  <1>6. Splits(f, l, p, h)
    BY <1>1, ResidueSplits
  <1>7. /\ w \in RQ!Coeff /\ even \in RQ!Coeff /\ odd \in RQ!Coeff
        /\ ResidueOf(Q, psi, f, l + 1, at) = RQ!CAdd(even, RQ!CMul(w, odd))
        /\ ResidueOf(Q, psi, f, l + 1, at + h) = RQ!CAdd(even, RQ!CNeg(RQ!CMul(w, odd)))
    BY <1>6, Zenon DEF Splits
  <1>8. /\ at \in 0..(N - 1) /\ at + h \in 0..(N - 1)
        /\ Level(at, h, r, p) = r /\ Level(at + h, h, r, p) = r
        /\ Level(at, h, r, p + 1) = r + 1 /\ Level(at + h, h, r, p + 1) = r + 1
        /\ \A x \in 0..(N - 1) : x \notin {at, at + h} => Level(x, h, r, p + 1) = Level(x, h, r, p)
    <2>1. LevelStep(h, r, p)
      BY <1>2, LevelMoves
    <2>2. QED BY <2>1 DEF LevelStep
  <1> HIDE DEF l, at, w, even, odd, t, c, i
  <1>9. \A x \in 0..(N - 1) : buf[x] = (2 ^ Level(x, h, r, p) * ResidueOf(Q, psi, f, LogN - Level(x, h, r, p), x)) % Q
    BY <1>2, Zenon DEF InverseAt, c
  <1>10. /\ buf[at] = (c * RQ!CAdd(even, RQ!CMul(w, odd))) % Q
         /\ buf[at + h] = (c * RQ!CAdd(even, RQ!CNeg(RQ!CMul(w, odd)))) % Q
    BY <1>1, <1>7, <1>8, <1>9, Zenon DEF c
  <1>11. /\ (buf[at] + buf[at + h]) % Q = ((2 * c) * even) % Q
         /\ ((buf[at] + Q - buf[at + h]) * i) % Q = ((2 * c) * odd) % Q
    <2> DEFINE x == buf[at]
               y == buf[at + h]
    <2>1. x = (c * RQ!CAdd(even, RQ!CMul(w, odd))) % Q /\ y = (c * RQ!CAdd(even, RQ!CNeg(RQ!CMul(w, odd)))) % Q
      BY <1>10
    <2> HIDE DEF x, y
    <2>2. (x + y) % Q = ((2 * c) * even) % Q /\ ((x + Q - y) * i) % Q = ((2 * c) * odd) % Q
      BY <1>2, <1>5, <1>7, <2>1, RQ!ButterflyUndone
    <2>3. QED BY <2>2 DEF x, y
  <1>12. new[at] = (2 ^ (r + 1) * even) % Q /\ new[at + h] = (2 ^ (r + 1) * odd) % Q
    <2>1. /\ new[at] = (buf[at] + buf[at + h]) % Q
          /\ new[at + h] = ((buf[at] + Q - buf[at + h]) * i) % Q
      BY <1>3, Zenon DEF Writes, at, i
    <2>2. QED BY <1>2, <1>11, <2>1
  <1>13. ASSUME NEW x \in 0..(N - 1)
         PROVE  new[x] = (2 ^ Level(x, h, r, p + 1) * ResidueOf(Q, psi, f, LogN - Level(x, h, r, p + 1), x)) % Q
    <2>1. CASE x = at
      BY <1>1, <1>8, <1>12, <2>1, Zenon DEF even
    <2>2. CASE x = at + h
      BY <1>1, <1>8, <1>12, <2>2, Zenon DEF odd
    <2>3. CASE x \notin {at, at + h}
      <3>1. new[x] = buf[x]
        BY <2>3 DEF Writes, at
      <3>2. Level(x, h, r, p + 1) = Level(x, h, r, p)
        BY <1>8, <2>3
      <3>3. QED BY <1>9, <3>1, <3>2
    <2>4. QED BY <2>1, <2>2, <2>3
  <1>14. QED BY <1>2, <1>13, Zenon DEF InverseAt, c

\* The inverse starts from the values of the product,
LEMMA InverseStarts ==
  ASSUME Q \in Moduli, NEW f, NEW buf, \A x \in 0..(N - 1) : buf[x] \in RQ!Coeff,
         Transformed(Q, psi, f, buf)
  PROVE  InverseAt(Q, psi, f, buf, 0, 0)
  <1>1. 0 \in 0..(LogN - 1) /\ 2 ^ 0 = 1 /\ LogN - 0 = LogN /\ LogN - 1 \in 0..(LogN - 1) /\ LogN - 1 - (LogN - 1) = 0
    BY TwoSteps, TwosAssumption
  <1>2. Q \in Nat \ {0}
    BY ModulusFacts
  <1> DEFINE h == Two(0)
             t == Two(LogN - 1)
  <1>3. h \in Nat \ {0} /\ t \in Nat \ {0} /\ N = (2 * h) * t /\ 2 ^ 0 = h
    <2>1. h = Two(LogN - 1 - (LogN - 1))
      BY <1>1
    <2>2. h \in Nat \ {0} /\ t \in Nat \ {0} /\ N = (2 * h) * t
      BY <1>1, <2>1, RoundShape
    <2>3. QED BY <2>2 DEF Two
  <1> HIDE DEF h, t
  <1>4. ASSUME NEW x \in 0..(N - 1)
        PROVE  buf[x] = (2 ^ Level(x, h, 0, 0) * ResidueOf(Q, psi, f, LogN - Level(x, h, 0, 0), x)) % Q
    <2>1. Level(x, h, 0, 0) = 0
      BY <1>3, LevelEnds
    <2> DEFINE e == ResidueOf(Q, psi, f, LogN, x)
    <2>2. buf[x] = e /\ e \in RQ!Coeff
      BY DEF Transformed
    <2> HIDE DEF e
    <2>3. e \in Nat /\ e % Q = e
      BY <1>2, <2>2, RQ!CoeffClosed
    <2>4. 1 * e = e
      BY <2>3
    <2>5. QED BY <1>1, <2>1, <2>2, <2>3, <2>4 DEF e
  <1>5. QED BY <1>3, <1>4 DEF InverseAt

\* goes from round to round,
LEMMA InverseRolls ==
  ASSUME NEW q, NEW z, NEW f, NEW buf, NEW r \in 0..(LogN - 2), InverseAt(q, z, f, buf, r, N \div 2)
  PROVE  InverseAt(q, z, f, buf, r + 1, 0)
  <1>1. r \in 0..(LogN - 1) /\ r + 1 \in 0..(LogN - 1)
    BY TwoSteps
  <1> DEFINE h == 2 ^ r
             h1 == 2 ^ (r + 1)
  <1>2. ASSUME NEW k \in 0..(LogN - 1), NEW x \in 0..(N - 1), NEW e
        PROVE  Level(x, 2 ^ k, e, 0) = e /\ Level(x, 2 ^ k, e, N \div 2) = e + 1
    <2> DEFINE d == Two(k)
               t == Two(LogN - 1 - k)
    <2>1. d \in Nat \ {0} /\ t \in Nat \ {0} /\ N = (2 * d) * t /\ 2 ^ k = d
      <3>1. LogN - 1 - k \in 0..(LogN - 1) /\ LogN - 1 - (LogN - 1 - k) = k
        BY TwoSteps
      <3>2. d = Two(LogN - 1 - (LogN - 1 - k))
        BY <3>1
      <3>3. d \in Nat \ {0} /\ t \in Nat \ {0} /\ N = (2 * d) * t
        BY <3>1, <3>2, RoundShape
      <3>4. QED BY <3>3 DEF Two
    <2> HIDE DEF d, t
    <2>2. Level(x, d, e, 0) = e /\ Level(x, d, e, N \div 2) = e + 1
      BY <2>1, LevelEnds
    <2>3. QED BY <2>1, <2>2
  <1>3. \A x \in 0..(N - 1) : Level(x, h, r, N \div 2) = r + 1 /\ Level(x, h1, r + 1, 0) = r + 1
    BY <1>1, <1>2
  <1>4. QED BY <1>3, Zenon DEF InverseAt

\* and ends with N times the polynomial.
LEMMA InverseEnds ==
  ASSUME Q \in Moduli, psi \in Nat, NEW f \in RQ!Poly(N), NEW buf, InverseAt(Q, psi, f, buf, LogN - 1, N \div 2)
  PROVE  \A x \in 0..(N - 1) : buf[x] = (N * f[x]) % Q
  <1> DEFINE r == LogN - 1
             h == Two(r)
             t == Two(0)
  <1>1. /\ r + 1 = LogN /\ LogN - LogN = 0 /\ 0 \in 0..(LogN - 1) /\ LogN - 1 - 0 = r /\ N = Two(LogN)
    BY TwoSteps
  <1>2. h \in Nat \ {0} /\ t \in Nat \ {0} /\ N = (2 * h) * t /\ 2 ^ r = h
    <2>1. h = Two(LogN - 1 - 0)
      BY <1>1
    <2>2. h \in Nat \ {0} /\ t \in Nat \ {0} /\ N = (2 * h) * t
      BY <1>1, <2>1, RoundShape
    <2>3. QED BY <2>2 DEF Two
  <1>3. InverseAt(Q, psi, f, buf, r, N \div 2)
    OBVIOUS
  <1> HIDE DEF h, t, r
  <1>4. ASSUME NEW x \in 0..(N - 1) PROVE buf[x] = (N * f[x]) % Q
    <2>1. Level(x, h, r, N \div 2) = r + 1
      BY <1>2, LevelEnds
    <2>2. buf[x] = (2 ^ (r + 1) * ResidueOf(Q, psi, f, LogN - (r + 1), x)) % Q
      BY <1>2, <1>3, <2>1 DEF InverseAt
    <2>3. ResidueOf(Q, psi, f, 0, x) = f[x]
      BY ResidueAtZero
    <2>4. QED BY <1>1, <2>2, <2>3 DEF Two
  <1>5. QED BY <1>4

-----------------------------------------------------------------------------
(***************************************************************************)
(* The root and the two inverses.                                          *)
(***************************************************************************)
Prime(q) == \A d \in 2..(q - 1) : q % d # 0

\* If there is an inverse, ModInverse returns one.
LEMMA InverseIs ==
  ASSUME NEW a, NEW b \in 0..(Q - 1), (a * b) % Q = 1
  PROVE  ModInverse(a) \in 0..(Q - 1) /\ (a * ModInverse(a)) % Q = 1
  BY Zenon DEF ModInverse

\* The square of the N-th power is the 2N-th.
LEMMA PowTwice ==
  ASSUME Q \in Moduli, NEW c \in Nat
  PROVE  /\ RQ!Pow(c, N) \in RQ!Coeff
         /\ RQ!Pow(c, 2 * N) = RQ!CMul(RQ!Pow(c, N), RQ!Pow(c, N))
  <1>1. Q \in Nat \ {0} /\ N \in Nat \ {0} /\ 2 * N = N + N
    BY ModulusFacts
  <1>2. RQ!Pow(c, N) \in RQ!Coeff
    BY <1>1, RQ!PowSteps
  <1>3. RQ!Pow(c, N + N) = RQ!CMul(RQ!Pow(c, N), RQ!Pow(c, N))
    BY <1>1, RQ!PowAdd
  <1>4. QED BY <1>1, <1>2, <1>3

\* What the search accepts is a root of X^N + 1, the modulus being prime.
LEMMA RootFound ==
  ASSUME Q \in Moduli, Prime(Q), NEW c \in RQ!Coeff, HasOrder2N(c)
  PROVE  RQ!IsNegacyclic(c, N)
  <1>1. Q \in Nat \ {0} /\ Q > 2 /\ N \in Nat \ {0} /\ c \in Nat
    BY ModulusFacts, RQ!CoeffClosed
  <1>2. ModPow(c, 2 ^ LogN) # 1 /\ ModPow(c, 2 * N) = 1
    <2>1. LogN \in 0..LogN
      BY TwoSteps
    <2>2. QED BY <2>1 DEF HasOrder2N
  <1> DEFINE u == RQ!Pow(c, N)
  <1>3. u \in RQ!Coeff /\ RQ!CMul(u, u) = RQ!Pow(c, 2 * N)
    BY <1>1, PowTwice
  <1>4. RQ!COne = 1
    BY <1>1, RQ!MinusOne
  <1>5. u # RQ!COne
    <2>1. N = 2 ^ LogN
      BY NttAssumption
    <2>2. ModPow(c, N) = u
      BY SamePower, Zenon
    <2>3. QED BY <1>2, <1>4, <2>1, <2>2
  <1>6. RQ!CMul(u, u) = RQ!COne
    <2>1. ModPow(c, 2 * N) = RQ!Pow(c, 2 * N)
      BY SamePower, Zenon
    <2>2. QED BY <1>2, <1>3, <1>4, <2>1
  <1>7. RQ!PrimeModulus
    BY DEF Prime, RQ!PrimeModulus
  <1> HIDE DEF u
  <1>8. u = RQ!CNeg(RQ!COne)
    BY <1>1, <1>3, <1>5, <1>6, <1>7, RQ!SquareRootOfOne
  <1>9. QED BY <1>1, <1>8 DEF RQ!IsNegacyclic, u

\* The root has an inverse.
LEMMA RootInverse ==
  ASSUME Q \in Moduli, RQ!IsNegacyclic(psi, N)
  PROVE  ModInverse(psi) \in RQ!Coeff /\ RQ!CMul(psi, ModInverse(psi)) = RQ!COne
  <1>1. Q \in Nat \ {0} /\ Q > 2 /\ N \in Nat \ {0} /\ psi \in RQ!Coeff /\ psi \in Nat
        /\ RQ!Pow(psi, N) = RQ!CNeg(RQ!COne)
    <2>1. Q \in Nat \ {0} /\ Q > 2 /\ N \in Nat \ {0} /\ psi \in RQ!Coeff /\ RQ!Pow(psi, N) = RQ!CNeg(RQ!COne)
      BY ModulusFacts DEF RQ!IsNegacyclic
    <2>2. QED BY <2>1, RQ!CoeffClosed
  <1>2. RQ!COne = 1 /\ RQ!CMul(RQ!CNeg(RQ!COne), RQ!CNeg(RQ!COne)) = RQ!COne
    BY <1>1, RQ!MinusOne
  <1>3. RQ!Pow(psi, 2 * N) = RQ!COne
    BY <1>1, <1>2, PowTwice
  <1> DEFINE n == 2 * N - 1
             b == RQ!Pow(psi, n)
  <1>4. n \in Nat /\ n + 1 = 2 * N
    BY <1>1
  <1> HIDE DEF n
  <1>5. b \in RQ!Coeff /\ RQ!Pow(psi, n + 1) = RQ!CMul(b, psi)
    BY <1>1, <1>4, RQ!PowSteps
  <1> HIDE DEF b
  <1>6. RQ!CMul(psi, b) = RQ!CMul(b, psi)
    BY <1>1, <1>5, RQ!CoeffProducts
  <1>7. (psi * b) % Q = 1 /\ b \in 0..(Q - 1)
    BY <1>2, <1>3, <1>4, <1>5, <1>6 DEF RQ!CMul, RQ!Coeff
  <1>8. ModInverse(psi) \in 0..(Q - 1) /\ (psi * ModInverse(psi)) % Q = 1
    BY <1>7, InverseIs
  <1>9. QED BY <1>2, <1>8 DEF RQ!CMul, RQ!Coeff

\* The degree has an inverse: 2N divides Q - 1.
LEMMA DegreeInverse ==
  ASSUME Q \in Moduli
  PROVE  ModInverse(N % Q) \in RQ!Coeff /\ (N * ModInverse(N % Q)) % Q = 1
  <1>1. Q \in Nat \ {0} /\ Q > 2 /\ N \in Nat \ {0} /\ N < Q
    BY ModulusFacts
  <1>2. PICK u \in Nat \ {0} : Q - 1 = (2 * N) * u
    BY ModulusFacts
  <1>3. N % Q = N
    BY <1>1
  <1> DEFINE b == Q - 2 * u
             v == N * u
  <1>4. v \in Nat /\ v >= u /\ Q - 1 = 2 * v
    <2>1. (2 * N) * u = 2 * v /\ v \in Nat /\ v >= u
      BY <1>1, Z3
    <2>2. QED BY <1>2, <2>1
  <1>5. b \in 0..(Q - 1) /\ b \in Nat
    <2> HIDE DEF v
    <2>1. QED BY <1>1, <1>4
  <1>6. N * b = (N - 1) * Q + 1
    <2>1. N * (Q - 2 * u) = N * Q - 2 * v
      BY <1>1, Z3
    <2>2. (N - 1) * Q = N * Q - Q
      BY <1>1, Z3
    <2>3. N * Q \in Nat
      BY <1>1, Z3
    <2> HIDE DEF v
    <2>4. QED BY <1>1, <1>4, <2>1, <2>2, <2>3
  <1> HIDE DEF b, v
  <1>7. (N * b) % Q = 1
    <2>1. N - 1 \in Nat /\ 1 \in 0..(Q - 1) /\ N * b \in Nat
      BY <1>1, <1>5, Z3
    <2> DEFINE y == N * b
    <2>2. y = (N - 1) * Q + 1 /\ y \in Nat
      BY <1>6, <2>1
    <2> HIDE DEF y
    <2>3. y % Q = 1
      BY <1>1, <2>1, <2>2, Exact
    <2>4. QED BY <2>3 DEF y
  <1>8. ModInverse(N) \in 0..(Q - 1) /\ (N * ModInverse(N)) % Q = 1
    BY <1>5, <1>7, InverseIs
  <1>9. QED BY <1>3, <1>8 DEF RQ!Coeff

\* The final pass.
LEMMA Scaled ==
  ASSUME Q \in Moduli, NEW a \in RQ!Coeff, NEW b, b = (N * a) % Q
  PROVE  (b * ModInverse(N % Q)) % Q = a
  <1> DEFINE i == ModInverse(N % Q)
  <1>1. Q \in Nat \ {0} /\ Q > 2 /\ N \in Nat \ {0}
    BY ModulusFacts
  <1>2. i \in RQ!Coeff /\ (N * i) % Q = 1
    BY DegreeInverse
  <1> HIDE DEF i
  <1>3. a \in Nat /\ i \in Nat /\ a % Q = a
    BY <1>1, <1>2, RQ!CoeffClosed
  <1>4. N * a \in Nat /\ N * i \in Nat /\ (N * a) * i = a * (N * i)
    <2>1. N * a \in Nat
      BY <1>1, <1>3, Z3
    <2>2. N * i \in Nat
      BY <1>1, <1>3, Z3
    <2>3. (N * a) * i = a * (N * i)
      BY <1>1, <1>3, Z3
    <2>4. QED BY <2>1, <2>2, <2>3
  <1> DEFINE y == N * a
             v == N * i
  <1>5. y \in Nat /\ v \in Nat /\ y * i = a * v /\ b = y % Q /\ v % Q = 1
    BY <1>2, <1>4
  <1> HIDE DEF y, v
  <1>6. ((y % Q) * i) % Q = (y * i) % Q
    BY <1>1, <1>3, <1>5, RQ!ModEarly
  <1>7. (a * (v % Q)) % Q = (a * v) % Q
    BY <1>1, <1>3, <1>5, RQ!ModEarly
  <1>8. a * 1 = a
    BY <1>3
  <1>9. QED BY <1>3, <1>5, <1>6, <1>7, <1>8 DEF i

\* The odd powers of a root are N roots.
LEMMA OddPowers ==
  ASSUME Q \in Moduli, RQ!IsNegacyclic(psi, N)
  PROVE  /\ \A i \in 0..(N - 1) : ModPow(psi, (2 * i + 1) * N) = Q - 1
         /\ Cardinality({ModPow(psi, 2 * i + 1) : i \in 0..(N - 1)}) = N
  <1>1. Q \in Nat \ {0} /\ Q > 2 /\ N \in Nat \ {0}
    BY ModulusFacts
  <1>2. RQ!CNeg(RQ!COne) = Q - 1
    BY <1>1, RQ!MinusOne
  <1>3. \A e : ModPow(psi, e) = RQ!Pow(psi, e)
    BY SamePower, Zenon
  <1>4. ASSUME NEW i \in 0..(N - 1) PROVE RQ!Pow(psi, (2 * i + 1) * N) = Q - 1
    <2>1. i \in Nat
      BY <1>1
    <2>2. RQ!Pow(psi, (2 * i + 1) * N) = RQ!CNeg(RQ!COne)
      BY <1>1, <2>1, RQ!OddPowerIsRoot
    <2>3. QED BY <1>2, <2>2
  <1> DEFINE D == [l \in 0..(LogN + 1) |-> Two(l)]
  <1>5. RQ!Doubles(D, LogN, N)
    <2>1. LogN \in Nat /\ N = Two(LogN) /\ Two(0) = 1
      BY TwoSteps
    <2>2. \A l \in 0..(LogN + 1) : D[l] = Two(l)
      OBVIOUS
    <2>3. 0 \in 0..(LogN + 1) /\ LogN \in 0..(LogN + 1) /\ \A l \in 0..LogN : l \in 0..(LogN + 1) /\ l + 1 \in 0..(LogN + 1)
      BY <2>1
    <2>4. \A l \in 0..LogN : Two(l) \in Nat \ {0} /\ Two(l + 1) = 2 * Two(l)
      BY TwoSteps
    <2>5. ASSUME NEW l \in 0..(LogN + 1) PROVE Two(l) \in Nat \ {0}
      <3>1. CASE l = LogN + 1
        <4>1. LogN \in 0..LogN
          BY <2>1
        <4>2. Two(LogN + 1) = 2 * Two(LogN) /\ Two(LogN) \in Nat \ {0}
          BY <2>4, <4>1
        <4>3. QED BY <3>1, <4>2
      <3>2. CASE l # LogN + 1
        <4>1. l \in 0..LogN
          BY <2>1, <3>2
        <4>2. QED BY <2>4, <4>1
      <3>3. QED BY <3>1, <3>2
    <2> HIDE DEF D
    <2>6. QED BY <2>1, <2>2, <2>3, <2>4, <2>5 DEF RQ!Doubles
  <1> HIDE DEF D
  <1> DEFINE S == 0..(N - 1)
             U == {RQ!Pow(psi, 2 * i + 1) : i \in S}
             f == [i \in S |-> RQ!Pow(psi, 2 * i + 1)]
  <1>6. IsFiniteSet(S) /\ Cardinality(S) = N
    <2>1. 0 \in Int /\ N - 1 \in Int
      BY <1>1
    <2>2. IsFiniteSet(S) /\ Cardinality(S) = IF 0 > N - 1 THEN 0 ELSE (N - 1) - 0 + 1
      BY <2>1, FS_Interval
    <2>3. QED BY <1>1, <2>2
  <1>7. f \in [S -> U] /\ \A y \in U : \E x \in S : f[x] = y
    <2> HIDE DEF S
    <2>1. QED BY Zenon
  <1>8. f \in Surjection(S, U)
    <2> HIDE DEF S, U, f
    <2>1. QED BY <1>7, Zenon DEF Surjection
  <1>9. \A x, y \in S : f[x] = f[y] => x = y
    <2>1. ASSUME NEW x \in S, NEW y \in S, f[x] = f[y], x # y PROVE FALSE
      <3>1. x < y \/ y < x
        BY <1>1, <2>1
      <3>2. RQ!Pow(psi, 2 * x + 1) = RQ!Pow(psi, 2 * y + 1)
        BY <2>1
      <3>3. \A i, k \in 0..(N - 1) : i < k => RQ!Pow(psi, 2 * i + 1) # RQ!Pow(psi, 2 * k + 1)
        BY <1>1, <1>5, RQ!OddPowersDiffer
      <3>4. QED BY <3>1, <3>2, <3>3
    <2>2. QED BY <2>1
  <1>10. f \in Injection(S, U)
    <2> HIDE DEF S, U, f
    <2>1. QED BY <1>7, <1>9 DEF Injection, IsInjective
  <1>11. Cardinality(U) = N
    <2> HIDE DEF S, U, f
    <2>1. Cardinality(U) = Cardinality(S)
      BY <1>6, <1>8, <1>10, FS_Surjection
    <2>2. QED BY <1>6, <2>1
  <1>12. {ModPow(psi, 2 * i + 1) : i \in 0..(N - 1)} = U
    BY <1>3, Zenon
  <1>13. QED BY <1>3, <1>4, <1>11, <1>12

-----------------------------------------------------------------------------
(***************************************************************************)
(* The invariant.                                                          *)
(***************************************************************************)
PairsOf(q) == [1..2 -> [0..(N - 1) -> 0..(q - 1)]]

RootOf(q, z) == z \in 0..(q - 1) /\ PowerOf(q, z, N) = q - 1

ProductOf(q, f, g) == Rg(q)!Mul(f, g, N)

NttShape ==
  /\ Q \in Moduli /\ Prime(Q) /\ given \in PairsOf(Q) /\ bufs \in PairsOf(Q)
  /\ base \in Nat /\ psi \in Nat /\ operand \in 1..2
  /\ round \in 0..(LogN - 1) /\ lane \in 0..(N \div 2 - 1)
  /\ pc \in {"search", "forward", "pointwise", "inverse", "scale", "done", "panic"}

Searching == pc = "search" => bufs = given /\ operand = 1 /\ round = 0 /\ lane = 0

Rooted == pc \notin {"search", "panic"} => RootOf(Q, psi)

\* The second operand waits for the first, and the first is transformed when
\* the second is.
Forwarding ==
  pc = "forward" =>
    /\ ForwardAt(Q, psi, given[operand], bufs[operand], round, lane)
    /\ operand = 1 => bufs[2] = given[2]
    /\ operand = 2 => Transformed(Q, psi, given[1], bufs[1])

Evaluated ==
  pc = "pointwise" =>
    /\ Transformed(Q, psi, given[1], bufs[1]) /\ Transformed(Q, psi, given[2], bufs[2])
    /\ round = 0 /\ lane = 0

Inverting ==
  pc = "inverse" => InverseAt(Q, psi, ProductOf(Q, given[1], given[2]), bufs[1], round, lane)

Unscaled ==
  pc = "scale" => \A x \in 0..(N - 1) : bufs[1][x] = (N * ProductOf(Q, given[1], given[2])[x]) % Q

Finished == pc = "done" => bufs[1] = ProductOf(Q, given[1], given[2])

NttInv == NttShape /\ Searching /\ Rooted /\ Forwarding /\ Evaluated /\ Inverting /\ Unscaled /\ Finished

-----------------------------------------------------------------------------
\* A root and the product, in the words of the ring.
LEMMA RootOfIs ==
  ASSUME Q \in Moduli, NEW z
  PROVE  RootOf(Q, z) <=> RQ!IsNegacyclic(z, N)
  <1>1. Q \in Nat \ {0} /\ Q > 2 /\ N \in Nat \ {0}
    BY ModulusFacts
  <1>2. RQ!CNeg(RQ!COne) = Q - 1
    BY <1>1, RQ!MinusOne
  <1>3. PowerOf(Q, z, N) = RQ!Pow(z, N)
    BY SamePower, Zenon
  <1>4. QED BY <1>1, <1>2, <1>3 DEF RootOf, RQ!IsNegacyclic, RQ!Coeff

\* The operands, the buffers and the product are polynomials of the ring.
LEMMA ProductIs ==
  ASSUME NttShape
  PROVE  /\ given[1] \in RQ!Poly(N) /\ given[2] \in RQ!Poly(N)
         /\ ProductOf(Q, given[1], given[2]) = RQ!Mul(given[1], given[2], N)
         /\ ProductOf(Q, given[1], given[2]) \in RQ!Poly(N)
         /\ bufs[1] \in RQ!Poly(N) /\ bufs[2] \in RQ!Poly(N) /\ given[operand] \in RQ!Poly(N)
  <1>1. Q \in Nat \ {0} /\ N \in Nat \ {0}
    BY ModulusFacts DEF NttShape
  <1>2. 1 \in 1..2 /\ 2 \in 1..2 /\ operand \in 1..2
    BY DEF NttShape
  <1>3. \A k \in 1..2 : given[k] \in RQ!Poly(N) /\ bufs[k] \in RQ!Poly(N)
    BY DEF NttShape, PairsOf, RQ!Poly, RQ!Coeff
  <1>4. ProductOf(Q, given[1], given[2]) = RQ!Mul(given[1], given[2], N)
    BY SameProduct, Zenon DEF ProductOf
  <1>5. RQ!Mul(given[1], given[2], N) \in RQ!Poly(N)
    BY <1>1, <1>2, <1>3, RQ!MulClosed
  <1>6. QED BY <1>2, <1>3, <1>4, <1>5

\* What a butterfly does to the buffers: two assignments to one of them.
Assigns(old, new, o, at, to, a, b) == new = [old EXCEPT ![o][at] = a, ![o][to] = b]

WritesIn(q, old, new, o, p, h, a, b) ==
  new \in PairsOf(q) /\ Writes(old[o], new[o], p, h, a, b) /\ \A k \in 1..2 : k # o => new[k] = old[k]

\* They write a pair of lanes of it and leave the rest.
LEMMA BufferWrites ==
  ASSUME NEW q, NEW old \in PairsOf(q), NEW o \in 1..2, NEW p, NEW h,
         NEW at \in 0..(N - 1), NEW to \in 0..(N - 1), at = Low(p, h), to = Low(p, h) + h, at # to,
         NEW a \in 0..(q - 1), NEW b \in 0..(q - 1), NEW new, Assigns(old, new, o, at, to, a, b)
  PROVE  WritesIn(q, old, new, o, p, h, a, b)
  <1> DEFINE T == [0..(N - 1) -> 0..(q - 1)]
  <1>1. old[o] \in T
    BY DEF PairsOf
  <1> DEFINE f == [[old[o] EXCEPT ![at] = a] EXCEPT ![to] = b]
  <1>2. f \in T /\ f[at] = a /\ f[to] = b /\ \A x \in 0..(N - 1) : x \notin {at, to} => f[x] = old[o][x]
    BY <1>1
  <1>3. new = [old EXCEPT ![o] = f]
    BY DEF PairsOf, Assigns
  <1> HIDE DEF f
  <1> HIDE DEF T
  <1>4. new \in PairsOf(q) /\ new[o] = f /\ \A k \in 1..2 : k # o => new[k] = old[k]
    <2>1. old \in [1..2 -> T]
      BY DEF PairsOf, T
    <2>2. new \in [1..2 -> T] /\ new[o] = f /\ \A k \in 1..2 : k # o => new[k] = old[k]
      BY <1>2, <1>3, <2>1
    <2>3. QED BY <2>2 DEF PairsOf, T
  <1>5. Writes(old[o], f, p, h, a, b)
    BY <1>2 DEF Writes
  <1>6. QED BY <1>4, <1>5 DEF WritesIn

\* A remainder is below the modulus.
LEMMA Reduced ==
  ASSUME Q \in Moduli, NEW a \in Nat
  PROVE  a % Q \in 0..(Q - 1)
  BY ModulusFacts, DivMod

\* The invariant holds before the search,
LEMMA InitHolds ==
  ASSUME NttInit, Prime(Q)
  PROVE  NttInv
  <1>1. /\ Q \in Moduli /\ pc = "search" /\ base = 2 /\ psi = 0 /\ bufs = given
        /\ operand = 1 /\ round = 0 /\ lane = 0
    BY DEF NttInit
  <1> DEFINE T == [0..(N - 1) -> 0..(Q - 1)]
  <1>2. given \in T \X T
    BY OperandsAssumption DEF NttInit
  <1>3. given \in PairsOf(Q)
    <2> HIDE DEF T
    <2>1. PICK f \in T, g \in T : given = <<f, g>>
      BY <1>2
    <2>2. <<f, g>> \in [1..2 -> T]
      OBVIOUS
    <2>3. QED BY <2>1, <2>2 DEF PairsOf, T
  <1>4. N \div 2 - 1 \in Nat
    <2>1. 0 \in 0..(LogN - 1) /\ LogN - 1 \in 0..LogN /\ (LogN - 1) + 1 = LogN
      BY TwoSteps
    <2>2. Two(LogN - 1) \in Nat \ {0} /\ N = 2 * Two(LogN - 1)
      BY <2>1, TwoSteps
    <2>3. QED BY <2>2
  <1>5. LogN - 1 \in Nat
    BY TwoSteps
  <1>6. NttShape
    BY <1>1, <1>3, <1>4, <1>5 DEF NttShape
  <1>7. QED BY <1>1, <1>6 DEF NttInv, Searching, Rooted, Forwarding, Evaluated, Inverting, Unscaled, Finished

\* is kept by each turn of it: the root accepted is one of X^N + 1,
LEMMA TryBaseKeeps ==
  ASSUME NttInv, TryBase
  PROVE  NttInv'
  <1> DEFINE candidate == ModPow(base, (Q - 1) \div (2 * N))
  <1>1. NttShape /\ Searching /\ pc = "search" /\ UNCHANGED <<Q, given, bufs, operand, round, lane>>
    BY DEF NttInv, TryBase
  <1>2. bufs = given /\ operand = 1 /\ round = 0 /\ lane = 0 /\ Q \in Moduli /\ Prime(Q) /\ base \in Nat
    BY <1>1 DEF Searching, NttShape
  <1>3. \/ HasOrder2N(candidate) /\ psi' = candidate /\ pc' = "forward" /\ base' = base
        \/ base' = base + 1 /\ psi' = psi /\ pc' = pc
    BY DEF TryBase
  <1>4. candidate \in RQ!Coeff
    <2>1. Q \in Nat \ {0} /\ N \in Nat \ {0} /\ (Q - 1) \div (2 * N) \in Nat
      <3>1. Q \in Nat \ {0} /\ N \in Nat \ {0}
        BY <1>2, ModulusFacts
      <3>2. Q - 1 \in Nat /\ 2 * N \in Nat \ {0}
        BY <3>1
      <3>3. QED BY <3>1, <3>2, DivMod
    <2> DEFINE e == (Q - 1) \div (2 * N)
    <2>2. ModPow(base, e) = RQ!Pow(base, e)
      BY SamePower, Zenon
    <2>3. e \in Nat
      BY <2>1
    <2> HIDE DEF e
    <2>4. RQ!Pow(base, e) \in RQ!Coeff
      BY <1>2, <2>1, <2>3, RQ!PowSteps
    <2>5. QED BY <2>2, <2>4 DEF e
  <1> HIDE DEF candidate
  <1>5. CASE HasOrder2N(candidate) /\ psi' = candidate /\ pc' = "forward" /\ base' = base
    <2>1. RootOf(Q, candidate)
      BY <1>2, <1>4, <1>5, RootFound, RootOfIs
    <2>2. given[1] \in RQ!Poly(N) /\ candidate \in Nat /\ Q \in Nat \ {0}
      <3>1. Q \in Nat \ {0}
        BY <1>2, ModulusFacts
      <3>2. candidate \in Nat
        BY <1>4, <3>1, RQ!CoeffClosed
      <3>3. QED BY <1>1, <3>1, <3>2, ProductIs
    <2>3. ForwardAt(Q, candidate, given[1], given[1], 0, 0)
      BY <1>2, <2>2, ForwardStarts
    <2>4. NttShape'
      BY <1>1, <1>2, <1>5, <2>2 DEF NttShape
    <2>5. QED BY <1>1, <1>2, <1>5, <2>1, <2>3, <2>4
            DEF NttInv, Searching, Rooted, Forwarding, Evaluated, Inverting, Unscaled, Finished
  <1>6. CASE base' = base + 1 /\ psi' = psi /\ pc' = pc
    <2>1. NttShape'
      BY <1>1, <1>2, <1>6 DEF NttShape
    <2>2. QED BY <1>1, <1>2, <1>6, <2>1 DEF NttInv, Searching, Rooted, Forwarding, Evaluated, Inverting, Unscaled, Finished
  <1>7. QED BY <1>3, <1>5, <1>6

\* How the counters move.
LEMMA NextLane ==
  ASSUME NttShape, NextButterfly
  PROVE  \/ LastButterfly /\ round' = 0 /\ lane' = 0 /\ round = LogN - 1 /\ lane + 1 = N \div 2
         \/ /\ ~LastButterfly /\ lane + 1 = N \div 2 /\ round \in 0..(LogN - 2)
            /\ round' = round + 1 /\ lane' = 0 /\ round' \in 0..(LogN - 1)
         \/ ~LastButterfly /\ lane' = lane + 1 /\ round' = round /\ lane' \in 0..(N \div 2 - 1)
  <1>1. round \in 0..(LogN - 1) /\ lane \in 0..(N \div 2 - 1) /\ LogN \in Nat
    BY TwoSteps DEF NttShape
  <1> DEFINE m == N \div 2
  <1>2. m \in Int
    <2>1. N \in Nat
      <3>1. LogN \in 0..LogN
        BY <1>1
      <3>2. QED BY <3>1, TwoSteps
    <2>2. QED BY <2>1
  <1>3. lane \in 0..(m - 1)
    BY <1>1
  <1> HIDE DEF m
  <1>4. CASE lane = m - 1
    <2>1. lane + 1 = m
      BY <1>2, <1>4
    <2>2. CASE round = LogN - 1
      BY <1>4, <2>1, <2>2 DEF LastButterfly, NextButterfly, m
    <2>3. CASE round # LogN - 1
      <3>1. round \in 0..(LogN - 2) /\ round + 1 \in 0..(LogN - 1)
        BY <1>1, <2>3
      <3>2. QED BY <1>4, <2>1, <2>3, <3>1 DEF LastButterfly, NextButterfly, m
    <2>4. QED BY <2>2, <2>3
  <1>5. CASE lane # m - 1
    <2>1. lane + 1 \in 0..(m - 1)
      BY <1>2, <1>3, <1>5
    <2>2. QED BY <1>5, <2>1 DEF LastButterfly, NextButterfly, m
  <1>6. QED BY <1>4, <1>5

\* The counters stay in range.
LEMMA CountersStay ==
  ASSUME NttShape, NextButterfly
  PROVE  round' \in 0..(LogN - 1) /\ lane' \in 0..(N \div 2 - 1)
  <1>1. 0 \in 0..(LogN - 1) /\ 0 \in 0..(N \div 2 - 1)
    <2>1. 0 \in 0..(LogN - 1) /\ LogN - 1 \in 0..LogN /\ (LogN - 1) + 1 = LogN
      BY TwoSteps
    <2>2. Two(LogN - 1) \in Nat \ {0} /\ N = 2 * Two(LogN - 1)
      BY <2>1, TwoSteps
    <2>3. QED BY <2>1, <2>2
  <1>2. round \in 0..(LogN - 1) /\ lane \in 0..(N \div 2 - 1)
    BY DEF NttShape
  <1>3. QED BY <1>1, <1>2, NextLane

\* Coefficients read from a buffer.
LEMMA BufferCoeff ==
  ASSUME NttShape, NEW k \in 1..2, NEW x \in 0..(N - 1)
  PROVE  bufs[k][x] \in 0..(Q - 1) /\ bufs[k][x] \in Nat /\ bufs[k][x] < Q
  <1>1. Q \in Nat
    BY ModulusFacts DEF NttShape
  <1>2. bufs[k][x] \in 0..(Q - 1)
    BY DEF NttShape, PairsOf
  <1>3. QED BY <1>1, <1>2

\* A forward butterfly writes its pair and nothing else.
LEMMA ForwardWrites ==
  ASSUME NttShape, Rooted, Forward, NEW h, h = Two(LogN - 1 - round)
  PROVE  LET y == (bufs[operand][Low(lane, h) + h] * Twiddles(psi)[2 ^ round + (lane \div h)]) % Q
         IN  /\ bufs' \in PairsOf(Q)
             /\ Writes(bufs[operand], bufs'[operand], lane, h,
                       (bufs[operand][Low(lane, h)] + y) % Q, (bufs[operand][Low(lane, h)] + Q - y) % Q)
             /\ \A k \in 1..2 : k # operand => bufs'[k] = bufs[k]
  <1> DEFINE w == Twiddles(psi)[2 ^ round + (lane \div h)]
             at == Low(lane, h)
             to == Low(lane, h) + h
             x == bufs[operand][at]
             y == (bufs[operand][to] * w) % Q
             a == (x + y) % Q
             b == (x + Q - y) % Q
             t == Two(round)
  <1>1. /\ Q \in Moduli /\ operand \in 1..2 /\ round \in 0..(LogN - 1) /\ lane \in 0..(N \div 2 - 1)
        /\ bufs \in PairsOf(Q) /\ pc = "forward"
    BY DEF NttShape, Forward
  <1>2. h \in Nat \ {0} /\ t \in Nat \ {0} /\ N = (2 * h) * t /\ N \div 2 ^ (1 + round) = h /\ Q \in Nat \ {0}
    BY <1>1, RoundShape, ModulusFacts
  <1>3. at \in 0..(N - 1) /\ to \in 0..(N - 1) /\ at # to
    BY <1>1, <1>2, Pairs
  <1>4. bufs' = [bufs EXCEPT ![operand][at] = a, ![operand][to] = b]
    <2>1. (lane \div h) * 2 * h + (lane % h) = at
      BY DEF Low
    <2>2. QED BY <1>2, <2>1, Zenon DEF Forward
  <1>5. w \in Nat
    <2>1. RQ!IsNegacyclic(psi, N)
      BY <1>1, RootOfIs DEF Rooted
    <2>2. given[1] \in RQ!Poly(N)
      BY ProductIs
    <2>3. Splits(given[1], round, lane, h)
      BY <1>1, <2>1, <2>2, ResidueSplits
    <2>4. w \in RQ!Coeff
      BY <2>3, Zenon DEF Splits
    <2>5. QED BY <1>2, <2>4, RQ!CoeffClosed
  <1>6. x \in Nat /\ bufs[operand][to] \in Nat
    BY <1>1, <1>3, BufferCoeff
  <1> DEFINE v == bufs[operand][to] * w
  <1>7. v \in Nat
    BY <1>5, <1>6, Z3
  <1>8. y \in 0..(Q - 1)
    <2>1. v % Q \in 0..(Q - 1)
      BY <1>1, <1>7, Reduced
    <2>2. QED BY <2>1
  <1> HIDE DEF y, v, x
  <1>9. x + y \in Nat /\ x + Q - y \in Nat
    BY <1>2, <1>6, <1>8 DEF v
  <1>10. a \in 0..(Q - 1) /\ b \in 0..(Q - 1)
    BY <1>1, <1>9, Reduced
  <1> HIDE DEF a, b, at, to
  <1>11. at = Low(lane, h) /\ to = Low(lane, h) + h
    BY DEF at, to
  <1>12. /\ bufs' \in PairsOf(Q)
         /\ Writes(bufs[operand], bufs'[operand], lane, h, a, b)
         /\ \A k \in 1..2 : k # operand => bufs'[k] = bufs[k]
    <2>1. Assigns(bufs, bufs', operand, at, to, a, b)
      BY <1>4 DEF Assigns
    <2>2. WritesIn(Q, bufs, bufs', operand, lane, h, a, b)
      BY <1>1, <1>3, <1>10, <1>11, <2>1, BufferWrites
    <2>3. QED BY <2>2 DEF WritesIn
  <1>13. QED BY <1>12, Zenon DEF a, b, x, y, at, to, w

\* Every forward butterfly keeps the invariant: its pair goes up a level, and
\* the last one of all hands over to the other operand or to the product.
LEMMA ForwardKeeps ==
  ASSUME NttInv, Forward
  PROVE  NttInv'
  <1> DEFINE h == Two(LogN - 1 - round)
             f == given[operand]
             new == bufs'[operand]
             y == (bufs[operand][Low(lane, h) + h] * Twiddles(psi)[2 ^ round + (lane \div h)]) % Q
  <1>1. /\ NttShape /\ Rooted /\ Forwarding /\ pc = "forward" /\ NextButterfly
        /\ Q' = Q /\ base' = base /\ psi' = psi /\ given' = given
        /\ operand' = IF LastButterfly THEN 2 ELSE operand
        /\ IF LastButterfly /\ operand = 2 THEN pc' = "pointwise" ELSE pc' = pc
    BY DEF NttInv, Forward
  <1>2. /\ Q \in Moduli /\ operand \in 1..2 /\ round \in 0..(LogN - 1) /\ lane \in 0..(N \div 2 - 1) /\ RootOf(Q, psi)
        /\ RQ!IsNegacyclic(psi, N) /\ f \in RQ!Poly(N) /\ psi \in Nat
    <2>1. Q \in Moduli /\ operand \in 1..2 /\ round \in 0..(LogN - 1) /\ lane \in 0..(N \div 2 - 1) /\ psi \in Nat
      BY <1>1 DEF NttShape
    <2>2. RootOf(Q, psi)
      BY <1>1 DEF Rooted
    <2>3. f \in RQ!Poly(N)
      BY <1>1, ProductIs
    <2>4. QED BY <2>1, <2>2, <2>3, RootOfIs
  <1>3. /\ ForwardAt(Q, psi, f, bufs[operand], round, lane)
        /\ operand = 1 => bufs[2] = given[2]
        /\ operand = 2 => Transformed(Q, psi, given[1], bufs[1])
    BY <1>1 DEF Forwarding
  <1>4. /\ bufs' \in PairsOf(Q)
        /\ Writes(bufs[operand], new, lane, h, (bufs[operand][Low(lane, h)] + y) % Q, (bufs[operand][Low(lane, h)] + Q - y) % Q)
        /\ \A k \in 1..2 : k # operand => bufs'[k] = bufs[k]
    <2> HIDE DEF h
    <2>1. h = Two(LogN - 1 - round)
      BY DEF h
    <2>2. QED BY <1>1, <2>1, ForwardWrites, Zenon
  <1>5. ForwardAt(Q, psi, f, new, round, lane + 1)
    <2> DEFINE buf == bufs[operand]
    <2>1. h = Two(LogN - 1 - round) /\ y = (buf[Low(lane, h) + h] * Twiddles(psi)[2 ^ round + (lane \div h)]) % Q
          /\ Writes(buf, new, lane, h, (buf[Low(lane, h)] + y) % Q, (buf[Low(lane, h)] + Q - y) % Q)
          /\ ForwardAt(Q, psi, f, buf, round, lane)
      BY <1>3, <1>4
    <2> HIDE DEF h, f, new, y, buf
    <2>2. QED BY <1>2, <2>1, ForwardLane
  <1> HIDE DEF h, f, new, y
  <1>6. round' \in 0..(LogN - 1) /\ lane' \in 0..(N \div 2 - 1)
    BY <1>1, CountersStay
  <1>7. operand' \in 1..2 /\ pc' \in {"forward", "pointwise"}
    BY <1>1, <1>2
  <1>8. NttShape'
    BY <1>1, <1>4, <1>6, <1>7 DEF NttShape
  <1>9. Rooted'
    BY <1>1, <1>2 DEF Rooted
  <1>10. /\ Searching' /\ Inverting' /\ Unscaled' /\ Finished'
    BY <1>7 DEF Searching, Inverting, Unscaled, Finished
  <1>11. CASE LastButterfly
    <2>1. round' = 0 /\ lane' = 0 /\ round = LogN - 1 /\ lane + 1 = N \div 2
      BY <1>1, <1>11, NextLane
    <2>2. Transformed(Q, psi, f, new)
      BY <1>5, <2>1, ForwardEnds
    <2>3. CASE operand = 1
      <3>1. operand' = 2 /\ pc' = "forward" /\ bufs'[2] = bufs[2] /\ bufs[2] = given[2]
        BY <1>1, <1>3, <1>4, <1>11, <2>3
      <3>2. given[2] \in RQ!Poly(N)
        BY <1>1, ProductIs
      <3>3. ForwardAt(Q, psi, given[2], given[2], 0, 0)
        BY <1>2, <3>2, ForwardStarts
      <3>4. Transformed(Q, psi, given[1], bufs'[1])
        BY <2>2, <2>3 DEF f, new
      <3>5. Forwarding' /\ Evaluated'
        BY <1>1, <2>1, <3>1, <3>3, <3>4 DEF Forwarding, Evaluated
      <3>6. QED BY <1>8, <1>9, <1>10, <3>5 DEF NttInv
    <2>4. CASE operand = 2
      <3>1. pc' = "pointwise" /\ bufs'[1] = bufs[1]
        BY <1>1, <1>4, <1>11, <2>4
      <3>2. Transformed(Q, psi, given[1], bufs'[1]) /\ Transformed(Q, psi, given[2], bufs'[2])
        BY <1>3, <2>2, <2>4, <3>1 DEF f, new
      <3>3. Forwarding' /\ Evaluated'
        BY <1>1, <2>1, <3>1, <3>2 DEF Forwarding, Evaluated
      <3>4. QED BY <1>8, <1>9, <1>10, <3>3 DEF NttInv
    <2>5. QED BY <1>2, <2>3, <2>4
  <1>12. CASE ~LastButterfly
    <2>1. operand' = operand /\ pc' = "forward"
      BY <1>1, <1>12
    <2>2. ForwardAt(Q, psi, f, new, round', lane')
      <3>1. CASE round \in 0..(LogN - 2) /\ lane + 1 = N \div 2 /\ round' = round + 1 /\ lane' = 0
        <4>1. ForwardAt(Q, psi, f, new, round, N \div 2)
          BY <1>5, <3>1
        <4>2. ForwardAt(Q, psi, f, new, round + 1, 0)
          BY <3>1, <4>1, ForwardRolls
        <4>3. QED BY <3>1, <4>2
      <3>2. CASE lane' = lane + 1 /\ round' = round
        BY <1>5, <3>2
      <3>3. QED BY <1>1, <1>12, <3>1, <3>2, NextLane
    <2>3. /\ operand = 1 => bufs'[2] = given[2]
          /\ operand = 2 => Transformed(Q, psi, given[1], bufs'[1])
      BY <1>3, <1>4
    <2>4. Forwarding' /\ Evaluated'
      BY <1>1, <2>1, <2>2, <2>3 DEF Forwarding, Evaluated, f, new
    <2>5. QED BY <1>8, <1>9, <1>10, <2>4 DEF NttInv
  <1>13. QED BY <1>11, <1>12

\* The half of an inverse round, and its blocks.
LEMMA InverseShape ==
  ASSUME NEW r \in 0..(LogN - 1), NEW h, h = Two(r)
  PROVE  /\ h \in Nat \ {0} /\ 2 ^ r = h /\ Two(LogN - 1 - r) \in Nat \ {0} /\ N = (2 * h) * Two(LogN - 1 - r)
         /\ \A p \in 0..(N \div 2 - 1) : (N \div 2 ^ (1 + r)) + (p \div h) \in 0..(N - 1)
  <1> DEFINE l == LogN - 1 - r
             t == Two(l)
  <1>1. l \in 0..(LogN - 1) /\ h = Two(LogN - 1 - l) /\ r + 1 \in 0..LogN /\ LogN - (r + 1) = l /\ 1 + r = r + 1
    <2>1. LogN \in Nat
      BY TwoSteps
    <2>2. l \in 0..(LogN - 1) /\ LogN - 1 - l = r
      BY <2>1
    <2>3. QED BY <2>1, <2>2
  <1> HIDE DEF l
  <1>2. h \in Nat \ {0} /\ t \in Nat \ {0} /\ N = (2 * h) * t
    BY <1>1, RoundShape
  <1>3. N \div 2 ^ (1 + r) = 2 ^ l
    <2>1. N \div 2 ^ (r + 1) = Two(LogN - (r + 1))
      BY <1>1, Halvings
    <2>2. QED BY <1>1, <2>1 DEF Two
  <1>4. ASSUME NEW p \in 0..(N \div 2 - 1) PROVE (N \div 2 ^ (1 + r)) + (p \div h) \in 0..(N - 1)
    <2>1. 2 ^ l + (p \div h) \in 0..(N - 1)
      BY <1>1, TwiddlePlace
    <2>2. QED BY <1>3, <2>1
  <1>5. QED BY <1>2, <1>4 DEF Two, l

\* An inverse butterfly writes its pair and nothing else.
LEMMA BackwardWrites ==
  ASSUME NttShape, Rooted, Backward, NEW h, h = Two(round),
         NEW k, k = (N \div 2 ^ (1 + round)) + (lane \div h)
  PROVE  WritesIn(Q, bufs, bufs', 1, lane, h, (bufs[1][Low(lane, h)] + bufs[1][Low(lane, h) + h]) % Q,
                  ((bufs[1][Low(lane, h)] + Q - bufs[1][Low(lane, h) + h]) * Twiddles(ModInverse(psi))[k]) % Q)
  <1> DEFINE w == Twiddles(ModInverse(psi))[k]
             at == Low(lane, h)
             to == Low(lane, h) + h
             x == bufs[1][at]
             y == bufs[1][to]
             a == (x + y) % Q
             b == ((x + Q - y) * w) % Q
             t == Two(LogN - 1 - round)
  <1>1. /\ Q \in Moduli /\ round \in 0..(LogN - 1) /\ lane \in 0..(N \div 2 - 1)
        /\ bufs \in PairsOf(Q) /\ pc = "inverse" /\ 1 \in 1..2
    BY DEF NttShape, Backward
  <1>2. h \in Nat \ {0} /\ t \in Nat \ {0} /\ N = (2 * h) * t /\ 2 ^ round = h /\ Q \in Nat \ {0} /\ k \in 0..(N - 1)
    BY <1>1, InverseShape, ModulusFacts
  <1>3. at \in 0..(N - 1) /\ to \in 0..(N - 1) /\ at # to
    BY <1>1, <1>2, Pairs
  <1>4. bufs' = [bufs EXCEPT ![1][at] = a, ![1][to] = b]
    <2>1. (lane \div h) * 2 * h + (lane % h) = at
      BY DEF Low
    <2>2. QED BY <1>2, <2>1, Zenon DEF Backward
  <1>5. w \in Nat
    <2>1. RQ!IsNegacyclic(psi, N)
      BY <1>1, RootOfIs DEF Rooted
    <2>2. ModInverse(psi) \in RQ!Coeff /\ RQ!CMul(psi, ModInverse(psi)) = RQ!COne /\ psi \in RQ!Coeff
      BY <1>1, <2>1, RootInverse DEF RQ!IsNegacyclic
    <2>3. w \in RQ!Coeff
      BY <1>1, <1>2, <2>2, TwiddleInverse
    <2>4. QED BY <1>2, <2>3, RQ!CoeffClosed
  <1>6. x \in Nat /\ y \in Nat /\ y < Q
    BY <1>1, <1>3, BufferCoeff
  <1> HIDE DEF x, y, w
  <1>7. x + y \in Nat /\ x + Q - y \in Nat
    BY <1>2, <1>6
  <1> DEFINE d == x + Q - y
             v == d * w
  <1>8. v \in Nat
    <2>1. d \in Nat
      BY <1>7
    <2> HIDE DEF d
    <2>2. QED BY <1>5, <2>1, Z3
  <1>9. a \in 0..(Q - 1) /\ b \in 0..(Q - 1)
    <2>1. v % Q \in 0..(Q - 1)
      BY <1>1, <1>8, Reduced
    <2>2. b = v % Q
      OBVIOUS
    <2>3. a \in 0..(Q - 1)
      BY <1>1, <1>7, Reduced
    <2> HIDE DEF v, b
    <2>4. QED BY <2>1, <2>2, <2>3
  <1> HIDE DEF a, b, at, to
  <1>10. at = Low(lane, h) /\ to = Low(lane, h) + h
    BY DEF at, to
  <1>11. Assigns(bufs, bufs', 1, at, to, a, b)
    BY <1>4 DEF Assigns
  <1>12. WritesIn(Q, bufs, bufs', 1, lane, h, a, b)
    BY <1>1, <1>3, <1>9, <1>10, <1>11, BufferWrites
  <1>13. QED BY <1>12, Zenon DEF a, b, x, y, at, to, w

\* Every inverse butterfly keeps the invariant,
LEMMA BackwardKeeps ==
  ASSUME NttInv, Backward
  PROVE  NttInv'
  <1> DEFINE h == Two(round)
             f == ProductOf(Q, given[1], given[2])
             new == bufs'[1]
             k == (N \div 2 ^ (1 + round)) + (lane \div h)
             inv == ModInverse(psi)
  <1>1. /\ NttShape /\ Rooted /\ Inverting /\ pc = "inverse" /\ NextButterfly
        /\ Q' = Q /\ base' = base /\ psi' = psi /\ given' = given /\ operand' = operand
        /\ pc' = IF LastButterfly THEN "scale" ELSE pc
    BY DEF NttInv, Backward
  <1>2. /\ Q \in Moduli /\ operand \in 1..2 /\ round \in 0..(LogN - 1) /\ lane \in 0..(N \div 2 - 1) /\ RootOf(Q, psi)
        /\ RQ!IsNegacyclic(psi, N) /\ f \in RQ!Poly(N) /\ psi \in Nat
    <2>1. Q \in Moduli /\ operand \in 1..2 /\ round \in 0..(LogN - 1) /\ lane \in 0..(N \div 2 - 1) /\ psi \in Nat
      BY <1>1 DEF NttShape
    <2>2. RootOf(Q, psi)
      BY <1>1 DEF Rooted
    <2>3. f \in RQ!Poly(N)
      BY <1>1, ProductIs
    <2>4. QED BY <2>1, <2>2, <2>3, RootOfIs
  <1>3. inv \in RQ!Coeff /\ RQ!CMul(psi, inv) = RQ!COne
    BY <1>2, RootInverse
  <1>4. InverseAt(Q, psi, f, bufs[1], round, lane)
    BY <1>1 DEF Inverting
  <1>5. /\ bufs' \in PairsOf(Q)
        /\ Writes(bufs[1], new, lane, h, (bufs[1][Low(lane, h)] + bufs[1][Low(lane, h) + h]) % Q,
                  ((bufs[1][Low(lane, h)] + Q - bufs[1][Low(lane, h) + h]) * Twiddles(inv)[k]) % Q)
    <2> HIDE DEF h, k
    <2>1. h = Two(round) /\ k = (N \div 2 ^ (1 + round)) + (lane \div h)
      BY DEF h, k
    <2>2. WritesIn(Q, bufs, bufs', 1, lane, h, (bufs[1][Low(lane, h)] + bufs[1][Low(lane, h) + h]) % Q,
                   ((bufs[1][Low(lane, h)] + Q - bufs[1][Low(lane, h) + h]) * Twiddles(inv)[k]) % Q)
      BY <1>1, <2>1, BackwardWrites, Zenon
    <2>3. QED BY <2>2, Zenon DEF WritesIn
  <1>6. InverseAt(Q, psi, f, new, round, lane + 1)
    <2> DEFINE buf == bufs[1]
    <2>1. /\ h = Two(round) /\ k = (N \div 2 ^ (1 + round)) + (lane \div h) /\ InverseAt(Q, psi, f, buf, round, lane)
          /\ Writes(buf, new, lane, h, (buf[Low(lane, h)] + buf[Low(lane, h) + h]) % Q,
                    ((buf[Low(lane, h)] + Q - buf[Low(lane, h) + h]) * Twiddles(inv)[k]) % Q)
      BY <1>4, <1>5
    <2> HIDE DEF h, f, new, k, inv, buf
    <2>2. QED BY <1>2, <1>3, <2>1, InverseLane
  <1> HIDE DEF h, f, new, k, inv
  <1>7. round' \in 0..(LogN - 1) /\ lane' \in 0..(N \div 2 - 1)
    BY <1>1, CountersStay
  <1>8. pc' \in {"inverse", "scale"}
    BY <1>1
  <1>9. NttShape'
    BY <1>1, <1>5, <1>7, <1>8 DEF NttShape
  <1>10. Rooted'
    BY <1>1, <1>2 DEF Rooted
  <1>11. Searching' /\ Forwarding' /\ Evaluated' /\ Finished'
    BY <1>8 DEF Searching, Forwarding, Evaluated, Finished
  <1>12. CASE LastButterfly
    <2>1. round' = 0 /\ lane' = 0 /\ round = LogN - 1 /\ lane + 1 = N \div 2 /\ pc' = "scale"
      BY <1>1, <1>12, NextLane
    <2>2. \A x \in 0..(N - 1) : new[x] = (N * f[x]) % Q
      BY <1>2, <1>6, <2>1, InverseEnds
    <2>3. Inverting' /\ Unscaled'
      BY <1>1, <2>1, <2>2 DEF Inverting, Unscaled, f, new
    <2>4. QED BY <1>9, <1>10, <1>11, <2>3 DEF NttInv
  <1>13. CASE ~LastButterfly
    <2>1. pc' = "inverse"
      BY <1>1, <1>13
    <2>2. InverseAt(Q, psi, f, new, round', lane')
      <3>1. CASE round \in 0..(LogN - 2) /\ lane + 1 = N \div 2 /\ round' = round + 1 /\ lane' = 0
        <4>1. InverseAt(Q, psi, f, new, round, N \div 2)
          BY <1>6, <3>1
        <4>2. InverseAt(Q, psi, f, new, round + 1, 0)
          BY <3>1, <4>1, InverseRolls
        <4>3. QED BY <3>1, <4>2
      <3>2. CASE lane' = lane + 1 /\ round' = round
        BY <1>6, <3>2
      <3>3. QED BY <1>1, <1>13, <3>1, <3>2, NextLane
    <2>3. Inverting' /\ Unscaled'
      BY <1>1, <2>1, <2>2 DEF Inverting, Unscaled, f, new
    <2>4. QED BY <1>9, <1>10, <1>11, <2>3 DEF NttInv
  <1>14. QED BY <1>12, <1>13

\* as does the product in evaluation form,
LEMMA PointwiseKeeps ==
  ASSUME NttInv, PointwiseProduct
  PROVE  NttInv'
  <1> DEFINE f == ProductOf(Q, given[1], given[2])
             new == [x \in 0..(N - 1) |-> (bufs[1][x] * bufs[2][x]) % Q]
             T == [0..(N - 1) -> 0..(Q - 1)]
  <1>1. /\ NttShape /\ Rooted /\ Evaluated /\ pc = "pointwise" /\ pc' = "inverse"
        /\ Q' = Q /\ base' = base /\ psi' = psi /\ given' = given /\ operand' = operand
        /\ round' = round /\ lane' = lane /\ bufs' = [bufs EXCEPT ![1] = new]
    BY DEF NttInv, PointwiseProduct
  <1>2. Q \in Moduli /\ RootOf(Q, psi) /\ bufs \in PairsOf(Q) /\ 1 \in 1..2 /\ 2 \in 1..2
    BY <1>1 DEF NttShape, Rooted
  <1>3. round = 0 /\ lane = 0 /\ Transformed(Q, psi, given[1], bufs[1]) /\ Transformed(Q, psi, given[2], bufs[2])
    BY <1>1 DEF Evaluated
  <1>4. \A x \in 0..(N - 1) : (bufs[1][x] * bufs[2][x]) % Q = ResidueOf(Q, psi, f, LogN, x)
    <2>1. RQ!IsNegacyclic(psi, N)
      BY <1>2, RootOfIs
    <2>2. given[1] \in RQ!Poly(N) /\ given[2] \in RQ!Poly(N) /\ f = RQ!Mul(given[1], given[2], N)
      BY <1>1, ProductIs
    <2> HIDE DEF f
    <2>3. QED BY <1>2, <1>3, <2>1, <2>2, TransformedProduct
  <1>5. ASSUME NEW x \in 0..(N - 1) PROVE (bufs[1][x] * bufs[2][x]) % Q \in 0..(Q - 1)
    <2>1. bufs[1][x] \in Nat /\ bufs[2][x] \in Nat
      BY <1>1, <1>2, BufferCoeff
    <2> DEFINE v == bufs[1][x] * bufs[2][x]
    <2>2. v \in Nat
      BY <2>1, Z3
    <2> HIDE DEF v
    <2>3. v % Q \in 0..(Q - 1)
      BY <1>2, <2>2, Reduced
    <2>4. QED BY <2>3 DEF v
  <1>6. new \in T
    BY <1>5, Zenon
  <1>7. \A x \in 0..(N - 1) : new[x] = ResidueOf(Q, psi, f, LogN, x)
    BY <1>4, Zenon
  <1>8. \A x \in 0..(N - 1) : new[x] \in RQ!Coeff
    BY <1>6 DEF RQ!Coeff
  <1> HIDE DEF new, f
  <1>9. bufs' \in PairsOf(Q) /\ bufs'[1] = new
    <2>1. bufs \in [1..2 -> T]
      BY <1>2 DEF PairsOf
    <2> HIDE DEF T
    <2>2. bufs' \in [1..2 -> T] /\ bufs'[1] = new
      BY <1>1, <1>6, <2>1
    <2>3. QED BY <2>2 DEF PairsOf, T
  <1>10. Transformed(Q, psi, f, new)
    BY <1>7 DEF Transformed
  <1>11. InverseAt(Q, psi, f, new, 0, 0)
    BY <1>2, <1>8, <1>10, InverseStarts
  <1>12. NttShape'
    BY <1>1, <1>9 DEF NttShape
  <1>13. QED BY <1>1, <1>2, <1>3, <1>9, <1>11, <1>12
           DEF NttInv, Searching, Rooted, Forwarding, Evaluated, Inverting, Unscaled, Finished, f

\* and the final pass, which divides by N.
LEMMA ScaleKeeps ==
  ASSUME NttInv, ScaleByInverse
  PROVE  NttInv'
  <1> DEFINE f == ProductOf(Q, given[1], given[2])
             new == [x \in 0..(N - 1) |-> (bufs[1][x] * ModInverse(N % Q)) % Q]
             T == [0..(N - 1) -> 0..(Q - 1)]
  <1>1. /\ NttShape /\ Rooted /\ Unscaled /\ pc = "scale" /\ pc' = "done"
        /\ Q' = Q /\ base' = base /\ psi' = psi /\ given' = given /\ operand' = operand
        /\ round' = round /\ lane' = lane /\ bufs' = [bufs EXCEPT ![1] = new]
    BY DEF NttInv, ScaleByInverse
  <1>2. Q \in Moduli /\ RootOf(Q, psi) /\ bufs \in PairsOf(Q) /\ 1 \in 1..2
    BY <1>1 DEF NttShape, Rooted
  <1>3. f \in RQ!Poly(N) /\ f \in T
    <2>1. f \in RQ!Poly(N)
      BY <1>1, ProductIs
    <2>2. QED BY <2>1 DEF RQ!Poly, RQ!Coeff
  <1>4. \A x \in 0..(N - 1) : bufs[1][x] = (N * f[x]) % Q
    BY <1>1 DEF Unscaled
  <1> HIDE DEF f
  <1>5. ASSUME NEW x \in 0..(N - 1) PROVE (bufs[1][x] * ModInverse(N % Q)) % Q = f[x]
    <2>1. f[x] \in RQ!Coeff
      BY <1>3 DEF RQ!Poly
    <2>2. QED BY <1>2, <1>4, <2>1, Scaled
  <1>6. new = f
    <2>1. \A x \in 0..(N - 1) : new[x] = f[x]
      BY <1>5, Zenon
    <2>2. DOMAIN new = 0..(N - 1) /\ new = [x \in 0..(N - 1) |-> new[x]]
      OBVIOUS
    <2>3. f = [x \in 0..(N - 1) |-> f[x]]
      BY <1>3
    <2> HIDE DEF new
    <2>4. QED BY <2>1, <2>2, <2>3
  <1> HIDE DEF new
  <1>7. bufs' \in PairsOf(Q) /\ bufs'[1] = f
    <2>1. bufs \in [1..2 -> T]
      BY <1>2 DEF PairsOf
    <2> HIDE DEF T
    <2>2. bufs' \in [1..2 -> T] /\ bufs'[1] = f
      BY <1>1, <1>3, <1>6, <2>1
    <2>3. QED BY <2>2 DEF PairsOf, T
  <1>8. NttShape'
    BY <1>1, <1>7 DEF NttShape
  <1>9. QED BY <1>1, <1>2, <1>7, <1>8
          DEF NttInv, Searching, Rooted, Forwarding, Evaluated, Inverting, Unscaled, Finished, f

\* The invariant, for every prime modulus.
LEMMA NttInvariant ==
  NttSpec /\ Prime(Q) => []NttInv
  <1>1. NttInit /\ Prime(Q) => NttInv
    BY InitHolds
  <1>2. NttInv /\ [NttNext]_nttVars => NttInv'
    <2>1. CASE CapExhausted
      <3>1. ASSUME NttInv PROVE NttInv'
        <4>1. NttShape /\ pc' = "panic" /\ UNCHANGED <<Q, base, psi, given, bufs, operand, round, lane>>
          BY <2>1, <3>1 DEF NttInv, CapExhausted
        <4>2. NttShape'
          BY <4>1 DEF NttShape
        <4>3. QED BY <4>1, <4>2 DEF NttInv, Searching, Rooted, Forwarding, Evaluated, Inverting, Unscaled, Finished
      <3>2. QED BY <3>1
    <2>2. CASE UNCHANGED nttVars
      <3>1. ASSUME NttInv PROVE NttInv'
        <4>1. /\ Q' = Q /\ pc' = pc /\ base' = base /\ psi' = psi /\ given' = given /\ bufs' = bufs
              /\ operand' = operand /\ round' = round /\ lane' = lane
          BY <2>2 DEF nttVars
        <4>2. NttShape'
          BY <3>1, <4>1 DEF NttInv, NttShape
        <4>3. QED BY <3>1, <4>1, <4>2 DEF NttInv, Searching, Rooted, Forwarding, Evaluated, Inverting, Unscaled, Finished
      <3>2. QED BY <3>1
    <2>3. QED BY <2>1, <2>2, TryBaseKeeps, ForwardKeeps, PointwiseKeeps, BackwardKeeps, ScaleKeeps DEF NttNext
  <1>3. QED BY <1>1, <1>2, PTL DEF NttSpec

\* For every prime modulus: the odd powers of the root found are N different
\* roots of X^N + 1.
THEOREM RootsAreFound ==
  NttSpec /\ Prime(Q) => []OddPowersAreRoots
  <1>1. NttInv => OddPowersAreRoots
    <2>1. ASSUME NttInv, pc \notin {"search", "panic"}
          PROVE  /\ \A i \in 0..(N - 1) : ModPow(psi, (2 * i + 1) * N) = Q - 1
                 /\ Cardinality({ModPow(psi, 2 * i + 1) : i \in 0..(N - 1)}) = N
      <3>1. Q \in Moduli /\ RootOf(Q, psi)
        BY <2>1 DEF NttInv, NttShape, Rooted
      <3>2. RQ!IsNegacyclic(psi, N)
        BY <3>1, RootOfIs
      <3>3. QED BY <3>1, <3>2, OddPowers
    <2>2. QED BY <2>1, Zenon DEF OddPowersAreRoots
  <1>2. QED BY <1>1, NttInvariant, PTL

\* Between any two butterflies every lane holds the residue it should.
THEOREM LanesAreResidues ==
  NttSpec /\ Prime(Q) => []LanesHoldResidues
  <1>1. NttInv => LanesHoldResidues
    <2>1. ASSUME NttInv, pc = "forward" PROVE ForwardResidues
      <3>1. ForwardAt(Q, psi, given[operand], bufs[operand], round, lane)
        BY <2>1 DEF NttInv, Forwarding
      <3>2. QED BY <3>1, SameResidue, Zenon DEF ForwardAt, ForwardResidues, Level, PairOf
    <2>2. ASSUME NttInv, pc = "inverse" PROVE InverseResidues
      <3>1. InverseAt(Q, psi, ProductOf(Q, given[1], given[2]), bufs[1], round, lane)
        BY <2>2 DEF NttInv, Inverting
      <3>2. R!Mul(given[1], given[2], N) = ProductOf(Q, given[1], given[2])
        BY SameProduct, Zenon DEF ProductOf
      <3>3. QED BY <3>1, <3>2, SameResidue, Zenon DEF InverseAt, InverseResidues, Level, PairOf
    <2>3. QED BY <2>1, <2>2, Zenon DEF LanesHoldResidues
  <1>2. QED BY <1>1, NttInvariant, PTL

\* The product through the transform is the negacyclic product.
THEOREM TransformIsExact ==
  NttSpec /\ Prime(Q) => []ProductExact
  <1>1. NttInv => ProductExact
    <2>1. R!Mul(given[1], given[2], N) = ProductOf(Q, given[1], given[2])
      BY SameProduct, Zenon DEF ProductOf
    <2>2. QED BY <2>1, Zenon DEF NttInv, Finished, ProductExact
  <1>2. QED BY <1>1, NttInvariant, PTL
=============================================================================
