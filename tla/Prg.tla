-------------------------------- MODULE Prg --------------------------------
(***************************************************************************)
(* Shake256Prg (via-primitives/src/sampling/prg.rs): a counter-mode byte   *)
(* generator with one block of buffer.  Every sampler of the library       *)
(* (uniform, ternary, Gaussian, bounded) draws from it, and client and     *)
(* tests rely on the byte stream not depending on how the draws are cut.   *)
(*                                                                         *)
(* SHAKE-256(seed || counter) is the table Block; one turn of the loop of  *)
(* fill_bytes is one step.  The u64 block counter is bounded by MaxBlocks, *)
(* far below the wrap-around that its comment excludes.                    *)
(***************************************************************************)
EXTENDS Integers, Sequences, FiniteSetsExt, SequencesExt

CONSTANTS
  ByteBits,   \* bits in a byte
  Width,      \* bits in the widest bound (64)
  BLOCK_LEN,  \* bytes per squeeze block (136)
  MaxBlocks,  \* bound on the number of blocks squeezed
  Block,      \* Block[c][k]: byte k of SHAKE-256(seed || c)
  Lengths,    \* lengths fill_bytes is called with
  Bounds      \* bounds uniform_below is called with

ASSUME SamplingAssumption ==
  /\ ByteBits \in Nat \ {0}
  /\ Width \in Nat \ {0}
  /\ 2 ^ ByteBits > 0

\* The exponents of one attempt, for the proofs.
ASSUME PowerAssumption ==
  \A n \in 0..(Width + ByteBits) : 2 ^ n > 0 /\ 2 ^ (n + 1) = 2 * 2 ^ n

Byte == 0..(2 ^ ByteBits - 1)

\* 64 - bound.leading_zeros()
BitLength(bound) == Min({n \in 0..Width : bound < 2 ^ n})

\* bits.div_ceil(8): the bytes one attempt reads.
NBytes(bound) == (BitLength(bound) + ByteBits - 1) \div ByteBits

\* The little-endian number in a byte string.
Word(bytes) ==
  LET value[k \in 0..Len(bytes)] ==
        IF k = 0 THEN 0 ELSE value[k - 1] + bytes[k] * 2 ^ (ByteBits * (k - 1))
  IN  value[Len(bytes)]

\* Mutant: the word is reduced modulo the bound.
ModuloDraw(bytes, bound) == Word(bytes) % bound

\* Word & mask, for a mask of BitLength(bound) ones.
Draw(bytes, bound) == Word(bytes) % 2 ^ BitLength(bound)

\* The number of byte strings of one attempt on which uniform_below would
\* return v.
Ways(v, bound) ==
  Cardinality({s \in [1..NBytes(bound) -> Byte] : Draw(s, bound) = v})

-----------------------------------------------------------------------------
ASSUME PrgAssumption ==
  /\ BLOCK_LEN \in Nat \ {0}
  /\ MaxBlocks \in Nat
  /\ Block \in [0..(MaxBlocks - 1) -> [0..(BLOCK_LEN - 1) -> Byte]]
  /\ Lengths \subseteq Nat
  /\ Bounds \subseteq 1..(2 ^ Width - 1)
  /\ \A b \in Bounds : NBytes(b) \in Nat

VARIABLES
  counter,  \* next block index to absorb
  buffer,   \* the last block squeezed
  pos,      \* read cursor; BLOCK_LEN means empty
  want,     \* out.len() of the fill_bytes call in progress
  bound,    \* bound of the uniform_below call in progress, 0 if none
  busy,     \* whether a call is in progress
  out,      \* bytes written so far by the call
  result    \* what the last call returned

vars == <<counter, buffer, pos, want, bound, busy, out, result>>

\* Shake256Prg::new: the first read refills because pos is BLOCK_LEN.
Init ==
  /\ counter = 0
  /\ buffer = [k \in 0..(BLOCK_LEN - 1) |-> 0]
  /\ pos = BLOCK_LEN
  /\ want = 0
  /\ bound = 0
  /\ busy = FALSE
  /\ out = <<>>
  /\ result = <<>>

Call(n, b) ==
  /\ ~busy
  /\ busy' = TRUE
  /\ want' = n
  /\ bound' = b
  /\ out' = <<>>
  /\ UNCHANGED <<counter, buffer, pos, result>>

\* fill_bytes is called directly (RngCore delegates to it).
FillBytes == \E n \in Lengths : Call(n, 0)

\* uniform_below starts its first attempt.
UniformBelow == \E b \in Bounds \ {1} : Call(NBytes(b), b)

\* bound = 1 returns 0 without reading.
UniformBelowOne ==
  /\ ~busy
  /\ 1 \in Bounds
  /\ result' = <<0>>
  /\ UNCHANGED <<counter, buffer, pos, want, bound, busy, out>>

Least(a, b) == IF a <= b THEN a ELSE b

\* Mutant: the cursor is set to the bytes taken, not advanced by them.
ReadSetsCursor(block, from) ==
  LET take == Least(want - Len(out), BLOCK_LEN - from)
  IN  /\ out' = out \o [k \in 1..take |-> block[from + k - 1]]
      /\ pos' = take

\* Copy what the call still wants, or what the block still has.
Read(block, from) ==
  LET take == Least(want - Len(out), BLOCK_LEN - from)
  IN  /\ out' = out \o [k \in 1..take |-> block[from + k - 1]]
      /\ pos' = from + take

\* One turn of the loop, when the buffer is exhausted: squeeze and copy.
RefillAndCopy ==
  /\ busy
  /\ Len(out) < want
  /\ pos >= BLOCK_LEN
  /\ counter < MaxBlocks
  /\ buffer' = Block[counter]
  /\ counter' = counter + 1
  /\ Read(Block[counter], 0)
  /\ UNCHANGED <<want, bound, busy, result>>

\* One turn of the loop, when the buffer still has bytes.
Copy ==
  /\ busy
  /\ Len(out) < want
  /\ pos < BLOCK_LEN
  /\ Read(buffer, pos)
  /\ UNCHANGED <<counter, buffer, want, bound, busy, result>>

Filled == busy /\ Len(out) = want

ReturnBytes ==
  /\ Filled
  /\ bound = 0
  /\ result' = out
  /\ out' = <<>>
  /\ busy' = FALSE
  /\ UNCHANGED <<counter, buffer, pos, want, bound>>

ReturnValue ==
  /\ Filled
  /\ bound # 0
  /\ Draw(out, bound) \in 0..(bound - 1)
  /\ result' = <<Draw(out, bound)>>
  /\ out' = <<>>
  /\ busy' = FALSE
  /\ UNCHANGED <<counter, buffer, pos, want, bound>>

\* Mutant: a rejected draw is reduced instead of redrawn.
RejectReduces ==
  /\ Filled
  /\ bound # 0
  /\ Draw(out, bound) \notin 0..(bound - 1)
  /\ result' = <<Draw(out, bound) - bound>>
  /\ out' = <<>>
  /\ busy' = FALSE
  /\ UNCHANGED <<counter, buffer, pos, want, bound>>

\* Rejection: the loop of uniform_below draws again.
Reject ==
  /\ Filled
  /\ bound # 0
  /\ Draw(out, bound) \notin 0..(bound - 1)
  /\ out' = <<>>
  /\ UNCHANGED <<counter, buffer, pos, want, bound, busy, result>>

Next ==
  \/ FillBytes \/ UniformBelow \/ UniformBelowOne
  \/ RefillAndCopy \/ Copy
  \/ ReturnBytes \/ ReturnValue \/ Reject

Spec == Init /\ [][Next]_vars

-----------------------------------------------------------------------------
(***************************************************************************)
(* Properties.                                                             *)
(***************************************************************************)

\* The types of the variables; the cursor never leaves the block (prg.rs).
TypeOK ==
  /\ counter \in 0..MaxBlocks
  /\ buffer \in [0..(BLOCK_LEN - 1) -> Byte]
  /\ pos \in 0..BLOCK_LEN
  /\ want \in Nat
  /\ bound \in {0} \cup Bounds
  /\ busy \in BOOLEAN
  /\ out \in Seq(Byte)
  /\ Len(out) <= want
  /\ ~busy => out = <<>>
  /\ result \in Seq(Nat)

\* The cursor is empty before the first block; afterwards the buffer is the
\* last block squeezed, so a block is never skipped or read twice.
BufferCurrent ==
  IF counter = 0 THEN pos = BLOCK_LEN ELSE buffer = Block[counter - 1]

\* The bytes the code has handed out or is about to: (counter - 1) whole
\* blocks and pos bytes of the current one.
Consumed == (counter - 1) * BLOCK_LEN + pos

\* The stream that the blocks make up.
Stream == [k \in Nat |-> Block[k \div BLOCK_LEN][k % BLOCK_LEN]]

\* The bytes of a call in progress continue the stream where the last call
\* left it, across block boundaries and rejected draws ("Bytes are drawn
\* sequentially", fill_bytes).
OutContinues ==
  \A k \in 1..Len(out) : out[k] = Stream[Consumed - Len(out) + k - 1]

\* What the callers see is the abstract stream: a call takes effect when it
\* returns (or throws an attempt away).
Abs == INSTANCE ByteStream WITH offset <- Consumed - Len(out)

RefinesByteStream == Abs!Spec

\* Rejection sampling is unbiased: every value below the bound is returned on
\* equally many byte strings, and none is impossible (uniform_below).
Unbiased ==
  bound # 0 => \A v \in 0..(bound - 1) : Ways(v, bound) = Ways(0, bound) /\ Ways(v, bound) > 0
=============================================================================
