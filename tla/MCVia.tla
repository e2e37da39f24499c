------------------------------- MODULE MCVia --------------------------------
(***************************************************************************)
(* A ring tower 8 > 4 > 1, so that a batch of four fills an answer and a   *)
(* batch of two does not; records whose coefficients are all different; up *)
(* to two rows and two columns.                                            *)
(***************************************************************************)
EXTENDS Via

CONSTANTS r1, r2

MCShl == [k \in 0..MaxBits |-> 2 ^ k]

MCPayload(x, n) == [c \in 0..(n - 1) |-> (x * n + c + 1) % P]

\* One record too many, a full database, and one with three records missing.
MCSpare == {-1, 0, 3}

\* The first request: every index, and the first one out of range.  The second
\* only overlaps it on a layout of two rows and two columns.
MCIndex(r, n) ==
  CASE r = r1 -> 0..n
    [] r = r2 /\ n = D * 4 -> {n - 1}
    [] OTHER -> {}

\* The ends of the range, an index with all its digits set but one, and the
\* first one out of range.
FewIndices(n) == {0, (2 * n) \div 3, n - 1, n}

\* The first request: batches of one, two and four.  The second: a batch that
\* is refused at its second index, and one that is not.
MCBatches(r, n) ==
  CASE r = r1 -> [1..1 -> 0..n] \union [1..2 -> FewIndices(n)] \union [1..4 -> {n \div 3, n - 1, n}]
    [] r = r2 /\ n = D3 * 4 -> {<<0, n>>, <<n - 1, n \div 2>>}
    [] OTHER -> {}

\* The arguments of a constructor that agree with the constants.
Agreeing ==
  [n1 |-> N1, n2 |-> N2, n3 |-> N3, t |-> 4, moduli |-> <<769, 577, 389, 193, 97>>,
   base_1 |-> 7, depth_1 |-> L_QUERY, base_2 |-> 5, depth_2 |-> 1, depth_rsk |-> L_RSK,
   gaussian |-> {1}, sigmas |-> {1}]

\* Parameters that are accepted: those of VIA-C, and in a release build some
\* that are neither valid nor agree with the constants.  Then, in a debug
\* build, some that either check turns down.
MCCalls ==
  LET Call(debug, variant, args) == [debug |-> debug, variant |-> variant, args |-> args]
  IN  {Call(TRUE, "c", Agreeing),
       Call(FALSE, "b", [Agreeing EXCEPT !.n2 = 2, !.t = 8, !.base_1 = 5, !.depth_2 = 3]),
       Call(TRUE, "b", [Agreeing EXCEPT !.t = 8]),
       Call(TRUE, "c", [Agreeing EXCEPT !.sigmas = {2}]),
       Call(TRUE, "c", [Agreeing EXCEPT !.n2 = 2]),
       Call(TRUE, "b", [Agreeing EXCEPT !.depth_rsk = 2])}
=============================================================================
