----------------------------- MODULE MCKernels ------------------------------
(***************************************************************************)
(* The three kernels that call none of the others: the selection of a cell *)
(* (Selection), the first dimension (FirstDim) and the arithmetic of a     *)
(* coefficient (Zq).  They share no state; a behaviour explores one of     *)
(* them, the other two are at their smallest instance: no row bits, one    *)
(* column, one modulus.                                                    *)
(*                                                                         *)
(* Selection: up to MaxBits row bits and column bits, every row and        *)
(* column, all cells different.  FirstDim: every J up to MaxCols and every *)
(* CPU count, serial and parallel runs.  Zq: words of four bits, every     *)
(* modulus of every kind, every double word.                               *)
(***************************************************************************)
EXTENDS Selection, FirstDim, Zq

VARIABLE kernel   \* the kernel explored

MCShl == [k \in 0..MaxBits |-> 2 ^ k]

MCDb == [r \in 0..(2 ^ MaxBits - 1) |-> [k \in 0..(2 ^ MaxBits - 1) |-> 100 * r + k + 1]]

MCSel == [r \in 0..(Rows - 1) |-> 2 * r + 1]

MCCell == [r \in 0..(Rows - 1) |-> [c \in 0..(MaxCols - 1) |-> 10 * r + c]]

MCPow2 == {1, 2, 4, 8}

MCModuli ==
  [kind : {"const"}, q : 2..7] \cup [kind : {"pow2"}, q : {2, 4, 8}] \cup [kind : {"dyn"}, q : 2..8]

MCProducts == 0..255

MCSigned == -8..7

selectionVars == <<vars, cmuxVars>>

KernelsInit ==
  /\ kernel \in {"selection", "first_dim", "zq"}
  /\ SelectionInit /\ FirstDimInit /\ ZqInit
  /\ kernel # "selection" => num = 0
  /\ kernel # "first_dim" => cols = 1 /\ cpus = 0
  /\ kernel # "zq" => mod = [kind |-> "const", q |-> 2]

KernelsNext ==
  /\ \/ kernel = "selection" /\ SelectionNext /\ UNCHANGED <<firstDimVars, zqVars>>
     \/ kernel = "zq" /\ ZqNext /\ UNCHANGED <<selectionVars, firstDimVars>>
     \/ FirstDimNext /\ UNCHANGED <<selectionVars, zqVars>>
  /\ UNCHANGED kernel

KernelsSpec ==
  KernelsInit /\ [][KernelsNext]_<<kernel, selectionVars, firstDimVars, zqVars>> /\ Fairness
=============================================================================
