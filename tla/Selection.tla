----------------------------- MODULE Selection ------------------------------
(***************************************************************************)
(* From a row and a column to one cell of the database: the stages 2 to 5  *)
(* of answer_through_crot (via-server/src/answer.rs).  dmux_tree spreads   *)
(* the trivial ciphertext over the rows, the first dimension multiplies    *)
(* the result with the database, and cmux_tree selects a column of the     *)
(* product.  The modulus switches in between leave plaintexts alone; the   *)
(* first dimension is one step here (its threads are FirstDim's subject).  *)
(***************************************************************************)
EXTENDS DMuxTree

CONSTANT Db   \* Db[r][k] is the cell at row r and column k

ASSUME DbAssumption ==
  Db \in [0..(Shl[MaxBits] - 1) -> [0..(Shl[MaxBits] - 1) -> Int]]

VARIABLES colBits, beta, column, inputs, active, level, j, cpc   \* of cmux_tree

cmuxVars == <<colBits, beta, column, inputs, active, level, j, cpc>>

C == INSTANCE CMuxTree WITH num <- colBits, i <- level, pc <- cpc

\* Mutant: the database is read transposed.
ColumnByRow(rows, k) ==
  LET sum[r \in 0..Shl[num]] == IF r = 0 THEN 0 ELSE sum[r - 1] + rows[r - 1] * Db[k][r - 1]
  IN  sum[Shl[num]]

\* first_dim, column k: the sum over the rows.
ColumnOf(rows, k) ==
  LET sum[r \in 0..Shl[num]] == IF r = 0 THEN 0 ELSE sum[r - 1] + rows[r - 1] * Db[r - 1][k]
  IN  sum[Shl[num]]

SelectionInit == Init /\ C!Init

Distribute == Next /\ UNCHANGED cmuxVars

\* The first dimension, and the call of cmux_tree on its results.
Multiply ==
  /\ pc = "done"
  /\ \E n \in 0..MaxBits : \E b \in 0..(Shl[n] - 1) :
       C!Call(n, b, [k \in 0..(Shl[n] - 1) |-> ColumnOf(out, k)])
  /\ UNCHANGED vars

Reduce == (C!ReducePair \/ C!ReduceLast) /\ UNCHANGED vars

SelectionNext == Distribute \/ Multiply \/ Reduce

SelectionSpec == SelectionInit /\ [][SelectionNext]_<<vars, cmuxVars>>

-----------------------------------------------------------------------------
(***************************************************************************)
(* Properties, those of DMuxTree apart.                                    *)
(***************************************************************************)

\* What is left at the end is the payload times the one cell in row alpha and
\* column beta: the two trees read bits in opposite orders, and only together
\* with the orientation of the database do they name a cell (answer.rs, "select
\* 1 column").
CellSelected == cpc = "done" => inputs[0] = input * Db[alpha][beta]
=============================================================================
