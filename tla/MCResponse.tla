----------------------------- MODULE MCResponse -----------------------------
(***************************************************************************)
(* Degrees 4 and 2; moduli 32749, 8191, 41 and 16; plaintexts modulo 3; a  *)
(* gadget of four levels of base 8.  Ciphertexts straight from encryption, *)
(* with errors on both sides of the budget, and out of a gate.             *)
(***************************************************************************)
EXTENDS KeyReuse

Of(c) == [x \in 0..(Len(c) - 1) |-> c[x + 1]]

MCSecretsN1 == {Of(<<-1, 0, 0, 0>>), Of(<<1, -1, 0, 0>>), Of(<<0, 1, -1, 1>>)}

MCSecretsN2 == {Of(<<1, -1>>), Of(<<0, 1>>)}

MCMessages == {Of(<<0, 1, 2, 1>>), Of(<<2, 2, 1, 0>>)}

\* The ends and the middle of the range among them.
MCMasksN1 == {Of(<<8190, 8189, 4095, 4096>>), Of(<<937, 6173, 3391, 7600>>)}

MCErrors == {Of(<<0, 0, 0, 0>>), Of(<<-2, 2, 2, -2>>), Of(<<1260, -1260, -1260, 1260>>)}

MCMasksN2 == {Of(<<7, 29>>), Of(<<40, 18>>)}

MCSwitchErrors == {Of(<<0, 0>>), Of(<<-1, 1>>)}

MCPowerOfG == [i \in 0..L |-> GBase ^ i]

\* Masks spread over the range, and all near its upper end.
MCKeyMasks ==
  {[h \in 1..2 |-> [i \in 0..(L - 1) |-> [x \in 0..(N1 - 1) |-> (h * 7919 + i * 6007 + x * 10313) % Q1]]],
   [h \in 1..2 |-> [i \in 0..(L - 1) |-> [x \in 0..(N1 - 1) |-> Q1 - 1 - (h + 2 * i + 3 * x)]]]}

MCKeyErrors ==
  {[h \in 1..2 |-> [i \in 0..(L - 1) |-> [x \in 0..(N1 - 1) |-> 0]]],
   [h \in 1..2 |-> [i \in 0..(L - 1) |-> [x \in 0..(N1 - 1) |-> IF (h + i + x) % 2 = 0 THEN 1 ELSE -1]]]}
=============================================================================
