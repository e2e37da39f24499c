---------------------------- MODULE MCConversion ----------------------------
(***************************************************************************)
(* Degree 4: a cascade of two steps, repackings of one and of two levels.  *)
(***************************************************************************)
EXTENDS Conversion

MCShl == [k \in 0..MaxBits |-> 2 ^ k]

MCSecrets == {[x \in 0..3 |-> <<1, 4, 0, 1>>[x + 1]], [x \in 0..3 |-> <<4, 1, 1, 0>>[x + 1]]}

\* Masks without symmetry.
MCUniform(n) ==
  IF n = 1 THEN {[x \in 0..0 |-> c] : c \in {1, 3}}
  ELSE {[x \in 0..(n - 1) |-> (x + 1) % 5], [x \in 0..(n - 1) |-> (2 * x * x + 3) % 5]}

MCMessages == {[x \in 0..3 |-> x + 1], [x \in 0..3 |-> (3 * x) % 5]}

MCBatches == {[t |-> 2, g |-> 2], [t |-> 2, g |-> 1], [t |-> 4, g |-> 1]}
=============================================================================
