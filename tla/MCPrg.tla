------------------------------- MODULE MCPrg -------------------------------
(***************************************************************************)
(* Blocks of three two-bit bytes; words of two bytes, i32 of two bits; raw *)
(* calls of every length around a block, and samplers of up to three       *)
(* samples between them.                                                   *)
(***************************************************************************)
EXTENDS Wire

MCBlock == [c \in 0..(MaxBlocks - 1) |-> [k \in 0..(BLOCK_LEN - 1) |-> (3 * c + k + (c * k) \div 2) % 4]]

MCGaussian == [a \in 0..7 |-> [b \in 0..7 |-> ((3 * a + 5 * b) % 7) - 3]]

Ternary == [kind |-> "ternary"]
Bounded(b) == [kind |-> "bounded", bound |-> b]
Gauss == [kind |-> "gaussian"]
Uniform == [kind |-> "uniform"]

CallOf(sampler, dist, n, q) == [sampler |-> sampler, dist |-> dist, n |-> n, q |-> q]

MCCalls ==
  {CallOf("ternary", Ternary, 3, 5), CallOf("discrete_gaussian", Gauss, 1, 5),
   CallOf("poly_random", Uniform, 2, 7), CallOf("regenerate_masks", Uniform, 2, 7),
   CallOf("rns_random", Uniform, 2, <<3, 7>>)}
  \cup {CallOf("uniform_zq", Uniform, n, 7) : n \in {0, 2}}
  \cup {CallOf("bounded_uniform", Bounded(b), 2, 0) : b \in {0, 1, 2}}
  \cup {CallOf("sample_into", d, 2, 7) : d \in {Ternary, Bounded(0), Bounded(2), Gauss}}

\* Every byte string that a slice can hold.
MCPackets == UNION {[1..n -> Byte] : n \in 1..7}
=============================================================================
