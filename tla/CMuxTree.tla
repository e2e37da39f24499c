------------------------------ MODULE CMuxTree ------------------------------
(***************************************************************************)
(* The in-place 2^m-to-1 selection tree of the server's column stage       *)
(* (cmux_tree in via-primitives/src/gates/mux.rs), driven by the select    *)
(* bits the client derives from a column index beta.                       *)
(*                                                                         *)
(* A ciphertext is its plaintext (one integer).  A level halves the active *)
(* prefix of the slice: the pair 2j, 2j + 1 is reduced into slot j, so a   *)
(* result overwrites a slot that a smaller j has already consumed; the     *)
(* tail of the slice keeps stale values.  One iteration of the inner loop  *)
(* is one step.                                                            *)
(***************************************************************************)
EXTENDS Decompose, Integers

VARIABLES
  num,     \* number of select bits, num_cmux
  beta,    \* the column the client asked for
  column,  \* what the slice held when the tree was called
  inputs,  \* the slice, 0-based
  active,  \* length of the prefix still in play
  i,       \* the level: index of the select bit in use
  j,       \* the inner loop variable
  pc

vars == <<num, beta, column, inputs, active, i, j, pc>>

Slots == 0..(Shl[num] - 1)

half == active \div 2

\* ct0 + bit * (ct1 - ct0)
Cmux(bit, ct0, ct1) == ct0 + bit * (ct1 - ct0)

Init ==
  /\ num = 0 /\ beta = 0
  /\ column = [k \in 0..0 |-> 0] /\ inputs = column
  /\ active = 1 /\ i = 0 /\ j = 0
  /\ pc = "idle"

\* cmux_tree is called on n bits and a slice of 2^n ciphertexts.
Call(n, b, cells) ==
  /\ pc = "idle"
  /\ num' = n /\ beta' = b
  /\ column' = cells /\ inputs' = cells
  /\ active' = Shl[n] /\ i' = 0 /\ j' = 0
  /\ pc' = IF n = 0 THEN "done" ELSE "reduce"

\* The select bits, as the client encrypted them.
Select == CmuxBits(beta, num)

\* One iteration of the inner loop: copy the pair out, write slot j.
Reduce == inputs' = [inputs EXCEPT ![j] = Cmux(Select[i], inputs[2 * j], inputs[2 * j + 1])]

ReducePair ==
  /\ pc = "reduce"
  /\ Reduce
  /\ j + 1 < half
  /\ j' = j + 1
  /\ UNCHANGED <<num, beta, column, active, i, pc>>

\* The last iteration of a level halves the prefix and takes the next bit.
ReduceLast ==
  /\ pc = "reduce"
  /\ Reduce
  /\ j + 1 = half
  /\ j' = 0
  /\ i' = i + 1
  /\ active' = half
  /\ pc' = IF i + 1 = num THEN "done" ELSE pc
  /\ UNCHANGED <<num, beta, column>>

Next ==
  \/ \E n \in 0..MaxBits :
       \E b \in 0..(Shl[n] - 1), cells \in [0..(Shl[n] - 1) -> Int] : Call(n, b, cells)
  \/ ReducePair \/ ReduceLast

Spec == Init /\ [][Next]_vars

-----------------------------------------------------------------------------
(***************************************************************************)
(* Properties.                                                             *)
(***************************************************************************)

\* The types of the variables; the loop variables stay within their loops and
\* the prefix is 2^(num - i) long (mux.rs cmux_tree).
TypeOK ==
  /\ num \in 0..MaxBits
  /\ beta \in Slots
  /\ column \in [Slots -> Int] /\ inputs \in [Slots -> Int]
  /\ i \in 0..num
  /\ active = Shl[num - i]
  /\ j \in 0..(active - 1)
  /\ pc \in {"idle", "reduce", "done"}
  /\ pc = "reduce" => i < num /\ j < half
  /\ pc = "done" => i = num

\* At level l the k-th survivor is the column whose l low bits are those of
\* beta and whose high bits are k.
Survivor(k, l) == k * Shl[l] + (beta % Shl[l])

\* In the middle of a level no pair still to be read has been overwritten, and
\* every slot already written holds its survivor of the next level.  This is
\* what "In-place safety" of cmux_tree rests on.
PairsIntact ==
  /\ \A k \in 0..(j - 1) : inputs[k] = column[Survivor(k, i + 1)]
  /\ \A k \in (2 * j)..(active - 1) : inputs[k] = column[Survivor(k, i)]

\* The returned ciphertext is the column beta ("Returns the input at index
\* sum b_i 2^i", cmux_tree).
Selected == pc = "done" => inputs[0] = column[beta]
=============================================================================
