-------------------------------- MODULE Ntt ---------------------------------
(***************************************************************************)
(* The negacyclic number-theoretic transform (ring/ntt.rs of               *)
(* via-primitives): the search of a primitive 2N-th root of unity, the two *)
(* bit-reversed twiddle tables, and the product of two polynomials through *)
(* the in-place butterflies: forward on each operand, lane by lane, and    *)
(* back.                                                                   *)
(*                                                                         *)
(* One action is one butterfly.  Round r of a transform runs its N / 2     *)
(* butterflies block by block; lane counts them.                           *)
(***************************************************************************)
EXTENDS Integers, FiniteSets

CONSTANTS
  Moduli,      \* the moduli tried
  N, LogN,     \* the degree, 2 ^ LogN
  MaxBaseTries,
  Operands(_)  \* Operands(q): pairs of polynomials multiplied modulo q

VARIABLES
  Q,        \* the modulus
  pc,       \* "search", "forward", "pointwise", "inverse", "scale", "done" or "panic"
  base,     \* the next base tried
  psi,      \* the root found
  given,    \* the operands
  bufs,     \* their buffers, transformed in place
  operand,  \* the buffer being transformed forward
  round,    \* the round of the transform
  lane      \* the next butterfly of the round

nttVars == <<Q, pc, base, psi, given, bufs, operand, round, lane>>

R == INSTANCE Ring WITH P <- Q

\* check_ntt.
ASSUME NttAssumption ==
  /\ LogN \in Nat \ {0} /\ N = 2 ^ LogN
  /\ \A q \in Moduli : q \in Nat /\ q >= 2 /\ (q - 1) % (2 * N) = 0
  /\ MaxBaseTries \in Nat

\* The operands are polynomials with coefficients below the modulus.
ASSUME OperandsAssumption ==
  \A q \in Moduli : Operands(q) \subseteq [0..(N - 1) -> 0..(q - 1)] \X [0..(N - 1) -> 0..(q - 1)]

\* A power of two is twice the one before.
ASSUME TwosAssumption ==
  2 ^ 0 = 1 /\ \A k \in 0..LogN : 2 ^ k \in Nat \ {0} /\ 2 ^ (k + 1) = 2 * 2 ^ k

\* mod_pow.
ModPow(b, exp) ==
  LET power[e \in 0..exp] == IF e = 0 THEN 1 % Q ELSE (power[e - 1] * b) % Q
  IN  power[exp]

\* mod_inverse_u64, by what it returns.
ModInverse(a) == CHOOSE b \in 0..(Q - 1) : (a * b) % Q = 1

\* bit_reverse.
BitReverse(x, bits) ==
  LET r[i \in 0..bits] ==
        IF i = 0 THEN 0 ELSE r[i - 1] + ((x \div 2 ^ (i - 1)) % 2) * 2 ^ (bits - i)
  IN  r[bits]

\* Mutant: the table is in natural order.
TwiddlesInOrder(root) == [k \in 0..(N - 1) |-> ModPow(root, k)]

\* build_twiddle_table_bit_reversed; bit reversal is its own inverse.
Twiddles(root) == [k \in 0..(N - 1) |-> ModPow(root, BitReverse(k, LogN))]

\* Mutant: only the last power is looked at.
HasOrderDividing(candidate) == ModPow(candidate, 2 * N) = 1

\* The order of candidate is exactly 2N: no square before the last is 1.
HasOrder2N(candidate) ==
  /\ \A i \in 0..LogN : ModPow(candidate, 2 ^ i) # 1
  /\ ModPow(candidate, 2 * N) = 1

Cap == IF Q < MaxBaseTries + 2 THEN Q ELSE MaxBaseTries + 2

-----------------------------------------------------------------------------
NttInit ==
  /\ pc = "search" /\ base = 2 /\ psi = 0
  /\ Q \in Moduli /\ given \in Operands(Q) /\ bufs = given
  /\ operand = 1 /\ round = 0 /\ lane = 0

\* Mutant: a rejected base is tried again.
TryBaseAgain ==
  /\ pc = "search" /\ base < Cap
  /\ LET candidate == ModPow(base, (Q - 1) \div (2 * N))
     IN  IF HasOrder2N(candidate)
         THEN psi' = candidate /\ pc' = "forward" /\ base' = base
         ELSE UNCHANGED <<base, psi, pc>>
  /\ UNCHANGED <<Q, given, bufs, operand, round, lane>>

\* One turn of find_primitive_2n_th_root.
TryBase ==
  /\ pc = "search" /\ base < Cap
  /\ LET candidate == ModPow(base, (Q - 1) \div (2 * N))
     IN  IF HasOrder2N(candidate)
         THEN psi' = candidate /\ pc' = "forward" /\ base' = base
         ELSE base' = base + 1 /\ UNCHANGED <<psi, pc>>
  /\ UNCHANGED <<Q, given, bufs, operand, round, lane>>

CapExhausted ==
  /\ pc = "search" /\ base >= Cap
  /\ pc' = "panic"
  /\ UNCHANGED <<Q, base, psi, given, bufs, operand, round, lane>>

\* The last butterfly of the last round.
LastButterfly == lane = N \div 2 - 1 /\ round = LogN - 1

NextButterfly ==
  IF LastButterfly THEN round' = 0 /\ lane' = 0
  ELSE IF lane = N \div 2 - 1 THEN round' = round + 1 /\ lane' = 0
  ELSE lane' = lane + 1 /\ round' = round

\* cooley_tukey_dit_forward, one butterfly.
Forward ==
  /\ pc = "forward"
  /\ LET half == N \div 2 ^ (1 + round)
         block == lane \div half
         w == Twiddles(psi)[2 ^ round + block]
         at == block * 2 * half + (lane % half)
         x == bufs[operand][at]
         y == (bufs[operand][at + half] * w) % Q
     IN  bufs' = [bufs EXCEPT ![operand][at] = (x + y) % Q,
                              ![operand][at + half] = (x + Q - y) % Q]
  /\ NextButterfly
  /\ IF LastButterfly /\ operand = 2 THEN pc' = "pointwise" ELSE pc' = pc
  /\ operand' = IF LastButterfly THEN 2 ELSE operand
  /\ UNCHANGED <<Q, base, psi, given>>

\* The product in evaluation form.
PointwiseProduct ==
  /\ pc = "pointwise"
  /\ bufs' = [bufs EXCEPT ![1] = [x \in 0..(N - 1) |-> (bufs[1][x] * bufs[2][x]) % Q]]
  /\ pc' = "inverse"
  /\ UNCHANGED <<Q, base, psi, given, operand, round, lane>>

\* Mutant: the table of the forward transform.
BackwardWithForwardTable ==
  /\ pc = "inverse"
  /\ LET half == 2 ^ round
         block == lane \div half
         w == Twiddles(psi)[(N \div 2 ^ (1 + round)) + block]
         at == block * 2 * half + (lane % half)
         x == bufs[1][at]
         y == bufs[1][at + half]
     IN  bufs' = [bufs EXCEPT ![1][at] = (x + y) % Q, ![1][at + half] = ((x + Q - y) * w) % Q]
  /\ NextButterfly
  /\ pc' = IF LastButterfly THEN "scale" ELSE pc
  /\ UNCHANGED <<Q, base, psi, given, operand>>

\* cooley_tukey_dif_inverse, one butterfly.
Backward ==
  /\ pc = "inverse"
  /\ LET half == 2 ^ round
         block == lane \div half
         w == Twiddles(ModInverse(psi))[(N \div 2 ^ (1 + round)) + block]
         at == block * 2 * half + (lane % half)
         x == bufs[1][at]
         y == bufs[1][at + half]
     IN  bufs' = [bufs EXCEPT ![1][at] = (x + y) % Q, ![1][at + half] = ((x + Q - y) * w) % Q]
  /\ NextButterfly
  /\ pc' = IF LastButterfly THEN "scale" ELSE pc
  /\ UNCHANGED <<Q, base, psi, given, operand>>

\* Its final scaling pass.
ScaleByInverse ==
  /\ pc = "scale"
  /\ bufs' = [bufs EXCEPT ![1] = [x \in 0..(N - 1) |-> (bufs[1][x] * ModInverse(N % Q)) % Q]]
  /\ pc' = "done"
  /\ UNCHANGED <<Q, base, psi, given, operand, round, lane>>

NttNext ==
  TryBase \/ CapExhausted \/ Forward \/ PointwiseProduct \/ Backward \/ ScaleByInverse

NttSpec == NttInit /\ [][NttNext]_nttVars

\* The program is one thread that runs to its end.
NttFairSpec == NttSpec /\ WF_nttVars(NttNext)

-----------------------------------------------------------------------------
(***************************************************************************)
(* Properties.                                                             *)
(***************************************************************************)

\* The odd powers of the root found are N roots of X^N + 1 ("the odd powers
\* are the negacyclic evaluation points").
OddPowersAreRoots ==
  pc \notin {"search", "panic"} =>
    /\ \A i \in 0..(N - 1) : ModPow(psi, (2 * i + 1) * N) = Q - 1
    /\ Cardinality({ModPow(psi, 2 * i + 1) : i \in 0..(N - 1)}) = N

\* Lane x of f at level l: block b of 2^l holds f modulo X^m - zeta_b, where
\* m = N / 2^l and zeta_b is the m-th power of the root that bit reversal
\* puts there.
Residue(f, l, x) ==
  LET m == N \div 2 ^ l
      zeta == ModPow(psi, m * (2 * BitReverse(x \div m, l) + 1))
      sum[k \in 0..(2 ^ l)] ==
        IF k = 0 THEN 0 ELSE (sum[k - 1] + f[(x % m) + m * (k - 1)] * ModPow(zeta, k - 1)) % Q
  IN  sum[2 ^ l]

\* The lanes already visited in a forward round are one level further than
\* the others.
ForwardResidues ==
  LET half == N \div 2 ^ (1 + round)
      Pair(x) == (x \div (2 * half)) * half + (x % half)
      Level(x) == IF Pair(x) < lane THEN round + 1 ELSE round
  IN  \A x \in 0..(N - 1) : bufs[operand][x] = Residue(given[operand], Level(x), x)

\* In the inverse the lanes hold the residues of the product, one level down
\* and doubled if visited in this round.
InverseResidues ==
  LET half == 2 ^ round
      product == R!Mul(given[1], given[2], N)
      Pair(x) == (x \div (2 * half)) * half + (x % half)
      Undone(x) == IF Pair(x) < lane THEN round + 1 ELSE round
  IN  \A x \in 0..(N - 1) :
        bufs[1][x] = (2 ^ Undone(x) * Residue(product, LogN - Undone(x), x)) % Q

\* In the middle of a transform, between any two butterflies, every lane holds
\* the residue of the polynomial its block stands for ("the inverse consumes
\* the bit-reversed order" the forward transform left).
LanesHoldResidues ==
  /\ pc = "forward" => ForwardResidues
  /\ pc = "inverse" => InverseResidues

\* The product through the transform is the schoolbook one (ntt.rs:
\* "pointwise multiplication in evaluation form then equals multiplication").
ProductExact ==
  pc = "done" => bufs[1] = R!Mul(given[1], given[2], N)

\* The search ends whatever the modulus: with a root and then the product, or
\* at the cap ("if the cap is exhausted, the function panics").
Ends == <>(pc \in {"done", "panic"})
=============================================================================
