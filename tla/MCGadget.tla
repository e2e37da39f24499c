------------------------------ MODULE MCGadget ------------------------------
(* A prime modulus, an even and an odd base, two and three levels: the     *)
(* noise of an external product stays below q / 2.                         *)
EXTENDS Gadget

MCBase == <<4, 3>>

MCDepth == <<2, 3>>

MCPower == <<[i \in 0..2 |-> 4^i], [i \in 0..3 |-> 3^i]>>

MCKeys == -1..1

MCMessages == 0..1

MCCts ==
  {c \in [mask : 0..(Q - 1), body : 0..(Q - 1)] : c.mask \in {1, 20} \/ c.body \in {0, 27}}

MCErrors == {-1, 1}
=============================================================================
