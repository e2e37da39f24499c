------------------------------- MODULE MCNtt --------------------------------
(***************************************************************************)
(* Degree 8 modulo 17, where base 2 has too small an order, and modulo 33, *)
(* which passes the check and has no root of order 16.                     *)
(***************************************************************************)
EXTENDS Ntt

Monomial(c, k) == [x \in 0..(N - 1) |-> IF x = k THEN c ELSE 0]

Dense(q) == {[x \in 0..(N - 1) |-> (3 * x * x + 5 * x + k) % q] : k \in {1, 7}}

MCOperands(q) ==
  LET monomials == {Monomial(q - 1, k) : k \in 0..(N - 1)}
  IN  (monomials \X Dense(q)) \union (Dense(q) \X (monomials \union Dense(q)))
=============================================================================
