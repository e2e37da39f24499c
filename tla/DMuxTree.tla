------------------------------ MODULE DMuxTree ------------------------------
(***************************************************************************)
(* The in-place 1-to-2^m distribution tree of the server's first stage     *)
(* (dmux_tree in via-primitives/src/gates/mux.rs), driven by the control   *)
(* bits the client derives from a row index alpha.                         *)
(*                                                                         *)
(* A ciphertext is its plaintext: one integer stands for the payload, and  *)
(* an external product with an encrypted bit multiplies by that bit.  The  *)
(* tree expands inside ONE slice: node j of a level becomes the nodes 2j   *)
(* and 2j + 1 of the next, so a level is correct only because j runs       *)
(* DOWNWARDS and no parent is overwritten before it is read.  One          *)
(* iteration of the inner loop is one step.                                *)
(***************************************************************************)
EXTENDS Decompose, Integers

CONSTANT Payload    \* plaintexts of the ciphertext that is distributed

ASSUME PayloadAssumption == Payload \subseteq Int

VARIABLES
  num,    \* number of control bits, num_dmux
  alpha,  \* the row the client asked for
  input,  \* the ciphertext to distribute
  out,    \* the slice, 0-based
  i,      \* the level: index of the control bit in use
  step,   \* iterations of the inner loop done at this level
  pc

vars == <<num, alpha, input, out, i, step, pc>>

Slots == 0..(Shl[num] - 1)

\* bit * ct, then ct - product: <<r0, r1>>.
Dmux(bit, ct) == LET product == bit * ct IN <<ct - product, product>>

\* The caller passes a slice of zero ciphertexts of the asserted length.
Init ==
  /\ num \in 0..MaxBits
  /\ alpha \in Slots
  /\ input \in Payload
  /\ out = [k \in Slots |-> 0]
  /\ i = 0
  /\ step = 0
  /\ pc = "call"

\* out[0] = input, and the loop over the control bits starts.
Call ==
  /\ pc = "call"
  /\ out' = [out EXCEPT ![0] = input]
  /\ pc' = IF num = 0 THEN "done" ELSE "expand"
  /\ UNCHANGED <<num, alpha, input, i, step>>

\* Mutant: the level is expanded upwards.
UpwardNode == step

\* The inner loop variable: (0..1 << i).rev().
Node == Shl[i] - 1 - step

\* Mutant: the bits are read least significant first, as cmux_tree reads them.
LsbFirstControl == CmuxBits(alpha, num)

\* The control bits, as the client encrypted them.
Control == DmuxBits(alpha, num)

\* One iteration of the inner loop: read out[j], write out[2j + 1], out[2j].
Expand ==
  LET r == Dmux(Control[i], out[Node])
  IN  out' = [out EXCEPT ![2 * Node + 1] = r[2], ![2 * Node] = r[1]]

ExpandNode ==
  /\ pc = "expand"
  /\ Expand
  /\ step + 1 < Shl[i]
  /\ step' = step + 1
  /\ UNCHANGED <<num, alpha, input, i, pc>>

\* The last iteration of a level moves on to the next control bit.
ExpandLast ==
  /\ pc = "expand"
  /\ Expand
  /\ step + 1 = Shl[i]
  /\ step' = 0
  /\ i' = i + 1
  /\ pc' = IF i + 1 = num THEN "done" ELSE pc
  /\ UNCHANGED <<num, alpha, input>>

Next == Call \/ ExpandNode \/ ExpandLast

Spec == Init /\ [][Next]_vars

-----------------------------------------------------------------------------
(***************************************************************************)
(* Properties.                                                             *)
(***************************************************************************)

\* The types of the variables; the loop variables stay within their loops
\* (mux.rs dmux_tree).
TypeOK ==
  /\ num \in 0..MaxBits
  /\ alpha \in Slots
  /\ input \in Payload
  /\ out \in [Slots -> Int]
  /\ i \in 0..num
  /\ step \in 0..(Shl[i] - 1)
  /\ pc \in {"call", "expand", "done"}
  /\ pc = "call" => i = 0
  /\ pc = "expand" => i < num
  /\ pc = "done" => i = num /\ step = 0

\* The payload travels along the path of alpha: at level l the node holding it
\* is the number formed by alpha's l leading bits.
PathNode(l) == alpha \div Shl[num - l]

Holds(k, l) == out[k] = IF k = PathNode(l) THEN input ELSE 0

\* In the middle of a level every parent not yet expanded still holds its
\* level-i value, and every child already written holds its level-(i + 1)
\* value.  This is what "In-place expansion safety" of dmux_tree rests on.
NodesPlaced ==
  pc = "expand" =>
    /\ \A k \in 0..Node : Holds(k, i)
    /\ \A k \in (2 * Node + 2)..(2 * Shl[i] - 1) : Holds(k, i + 1)

\* When the tree returns, slot alpha carries the payload and every other slot
\* decrypts to zero ("all other slots decrypt to 0", dmux_tree).
OneHot ==
  pc = "done" => out = [k \in Slots |-> IF k = alpha THEN input ELSE 0]
=============================================================================
