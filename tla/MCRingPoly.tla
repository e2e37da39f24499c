----------------------------- MODULE MCRingPoly -----------------------------
(***************************************************************************)
(* Degrees 2 and 4 over 15 and 17 as run-time moduli, 16 (a power of two), *)
(* 17 with its transform, and the pair 17, 41 in both orders.              *)
(***************************************************************************)
EXTENDS RingPoly

Dyn(q) == [kind |-> "dyn", q |-> q]
Basis(q0, q1) ==
  [kind |-> "rns", q0 |-> q0, q1 |-> q1, inv |-> CHOOSE i \in 1..(q1 - 1) : (q0 * i) % q1 = 1]

Moduli == {Dyn(15), [kind |-> "pow2", q |-> 16], [kind |-> "const", q |-> 17], Basis(17, 41), Basis(41, 17)}

Alike(m, n) == <<[m |-> m, n |-> n], [m |-> m, n |-> n]>>

MCPairings ==
  {Alike(m, n) : m \in Moduli, n \in {2, 4}}
    \union {<<[m |-> Dyn(15), n |-> n], [m |-> Dyn(17), n |-> n]>> : n \in {2, 4}}

MCData == [n \in {2, 4} |-> [x \in 0..(n - 1) |-> <<348, 200, -9, -8>>[x + 1]]]

MCOtherData == [n \in {2, 4} |-> [x \in 0..(n - 1) |-> <<16, -356, 680, 44>>[x + 1]]]
=============================================================================
