----------------------------- MODULE ByteStream -----------------------------
(***************************************************************************)
(* What Shake256Prg promises its callers: one endless byte stream, fixed   *)
(* by the seed, of which each call takes the next bytes, however the calls *)
(* are cut.  uniform_below(bound) takes whole attempts until one is below  *)
(* the bound, and takes nothing for bound 1.                               *)
(***************************************************************************)
EXTENDS Naturals, Sequences

CONSTANTS
  Stream,   \* Stream[k] is the k-th byte
  Lengths,  \* lengths fill_bytes is called with
  Bounds,   \* bounds uniform_below is called with
  NBytes(_),   \* bytes of one attempt for a bound
  Draw(_, _)   \* the number an attempt makes of its bytes

VARIABLES
  offset,  \* bytes taken so far
  want,    \* bytes of the attempt in progress
  bound,   \* its bound, 0 for fill_bytes
  busy,    \* whether a call is in progress
  result   \* what the last call returned

vars == <<offset, want, bound, busy, result>>

Taken(n) == [k \in 1..n |-> Stream[offset + k - 1]]

Init ==
  /\ offset = 0
  /\ want = 0
  /\ bound = 0
  /\ busy = FALSE
  /\ result = <<>>

Call(n, b) ==
  /\ ~busy
  /\ busy' = TRUE
  /\ want' = n
  /\ bound' = b
  /\ UNCHANGED <<offset, result>>

FillBytes == \E n \in Lengths : Call(n, 0)

UniformBelow == \E b \in Bounds \ {1} : Call(NBytes(b), b)

\* The special case: nothing is read.
UniformBelowOne ==
  /\ ~busy
  /\ 1 \in Bounds
  /\ result' = <<0>>
  /\ UNCHANGED <<offset, want, bound, busy>>

ReturnBytes ==
  /\ busy
  /\ bound = 0
  /\ offset' = offset + want
  /\ result' = Taken(want)
  /\ busy' = FALSE
  /\ UNCHANGED <<want, bound>>

ReturnValue ==
  /\ busy
  /\ bound # 0
  /\ offset' = offset + want
  /\ Draw(Taken(want), bound) \in 0..(bound - 1)
  /\ result' = <<Draw(Taken(want), bound)>>
  /\ busy' = FALSE
  /\ UNCHANGED <<want, bound>>

\* A draw outside the range is thrown away, with its bytes.
Reject ==
  /\ busy
  /\ bound # 0
  /\ offset' = offset + want
  /\ Draw(Taken(want), bound) \notin 0..(bound - 1)
  /\ UNCHANGED <<want, bound, busy, result>>

Next == FillBytes \/ UniformBelow \/ UniformBelowOne \/ ReturnBytes \/ ReturnValue \/ Reject

Spec == Init /\ [][Next]_vars
=============================================================================
