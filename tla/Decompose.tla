----------------------------- MODULE Decompose -----------------------------
(***************************************************************************)
(* The client's index decomposition (via-client/src/decompose.rs).         *)
(*                                                                         *)
(* A flat record index is split into a row alpha (driven by the DMux       *)
(* tree), a column beta (the CMux tree) and a rotation slot gamma (the     *)
(* controlled rotation), and each of them into its binary digits.  The     *)
(* bit ORDERS differ: the DMux bits go most significant first, the CMux    *)
(* and CRot bits least significant first.  The server's trees must read    *)
(* them in the same orders, which is what the modules DMuxTree, CMuxTree   *)
(* and Via are about.                                                      *)
(*                                                                         *)
(* The bit order of the repacking tree (conversion/repack.rs) is here too. *)
(*                                                                         *)
(* Rust's 1 << i is the table Shl: a constant, so that a proof can use     *)
(* what is assumed of it for every number of bits.                         *)
(***************************************************************************)
EXTENDS Naturals

CONSTANTS MaxBits,  \* the longest shift used
          Shl       \* Shl[i] is 1 << i

ASSUME ShlAssumption ==
  /\ MaxBits \in Nat \ {0}
  /\ Shl \in [0..MaxBits -> Nat \ {0}]
  /\ Shl[0] = 1
  /\ Shl[1] = 2
  /\ \A a, b \in 0..MaxBits : a + b <= MaxBits => Shl[a + b] = Shl[a] * Shl[b]

Bits == {0, 1}

\* (x >> i) & 1
Bit(x, i) == (x \div Shl[i]) % 2

\* decompose_index: inverts index = gamma * (I * J) + alpha * J + beta.
DecomposeIndex(index, rows, cols) ==
  LET group == rows * cols
  IN  [alpha |-> (index % group) \div cols,
       beta  |-> index % cols,
       gamma |-> index \div group]

\* dmux_bits: most significant first.
DmuxBits(alpha, num) == [i \in 0..(num - 1) |-> Bit(alpha, num - 1 - i)]

\* cmux_bits: least significant first.
CmuxBits(beta, num) == [i \in 0..(num - 1) |-> Bit(beta, i)]

\* crot_bits: least significant first.
CrotBits(gamma, num) == [i \in 0..(num - 1) |-> Bit(gamma, i)]

\* The power of two n as 2^k: n.trailing_zeros().
Log2(n) == CHOOSE k \in 0..MaxBits : Shl[k] = n

\* Mutant: the bits are not reversed.
KeepIndex(i, bits) == i

\* bit_reverse_index: the low `bits` bits of i, reversed.
BitReverseIndex(i, bits) ==
  LET r[k \in 0..bits] == IF k = 0 THEN 0 ELSE 2 * r[k - 1] + Bit(i, k - 1)
  IN  r[bits]
=============================================================================
