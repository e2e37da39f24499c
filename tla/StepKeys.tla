------------------------------ MODULE StepKeys ------------------------------
(***************************************************************************)
(* The key material of the conversions (conversion/conv.rs, cascade.rs,    *)
(* repack.rs, gates/convert.rs of via-primitives).  A cascade key has one  *)
(* field per doubling of the degree, an array of step keys each; a step    *)
(* key is what it switches from and to, and the place in the generator its *)
(* encryption drew from.                                                   *)
(*                                                                         *)
(* A key is built field by field: by value, a whole array at a time, or in *)
(* an uninitialised box, one slot at a time.  A repacking reads a suffix   *)
(* of the fields: borrowed from the cascade key, copied out of it (the     *)
(* switch of the samples to another modulus is the subject of KeyReuse),   *)
(* or generated on its own.                                                *)
(***************************************************************************)
EXTENDS Decompose, Ring

CONSTANTS
  N,       \* the degree of the ring, a power of two
  Secrets  \* the secret keys tried

ASSUME StepKeysAssumption ==
  /\ N \in {Shl[k] : k \in 1..MaxBits}
  /\ Secrets \subseteq Poly(N)

VARIABLES
  s,        \* the secret
  prg,      \* draws taken from the generator, one per encrypt_rlev
  keys,     \* the cascade key: keys[n] is the field of output degree n
  convKey,  \* the RLWE to RGSW key
  prepared, \* the evaluation form of the cascade key
  sched,    \* the fields the repacking in progress reads
  builder,  \* what builds a key, "none" if nothing does
  dst,      \* the key it builds
  field,    \* the field it is at
  slot      \* the slot of the field it is at

built == <<keys, convKey, prepared>>
building == <<builder, dst, field, slot>>
keyVars == <<s, prg, built, sched, building>>

\* The number of masks of a ciphertext of degree n.
Rank(n) == N \div n

\* The k-th key of degree n.
Key(n, k) == ProjectAt(s, N, n, k)

\* Mutant: group and position exchange their roles.
StepKeySwapped(n, key_idx, at) ==
  LET m == Rank(n)
      group == key_idx \div m
      j == key_idx % m
  IN  [source |-> EmbedAt(Key(n \div 2, 2 * j + group), n \div 2, n, 0), target |-> Key(n, j), at |-> at]

\* gen_conv_step_key_element: key_idx switches from the key of its own mask
\* to the j-th key of twice the degree.
StepKey(n, key_idx, at) ==
  LET m == Rank(n)
      group == key_idx \div m
      j == key_idx % m
  IN  [source |-> EmbedAt(Key(n \div 2, m * group + j), n \div 2, n, 0), target |-> Key(n, j), at |-> at]

\* The output degrees of the steps from degree g on, ascending.
Fields(g) == {n \in {Shl[k] : k \in 0..MaxBits} : 2 * g <= n /\ n <= N}

\* The step keys of the field of degree n: RANK_IN.
Slots(n) == 0..(Rank(n \div 2) - 1)

Unwritten == [at |-> -1]

NoKey == [n \in Fields(1) |-> [i \in Slots(n) |-> Unwritten]]

KeysInit ==
  /\ s \in Secrets
  /\ prg = 0
  /\ keys = NoKey /\ convKey = Unwritten /\ prepared = NoKey /\ sched = NoKey
  /\ builder \in {"gen", "gen_boxed"} /\ dst = NoKey /\ field = 2 /\ slot = 0

-----------------------------------------------------------------------------
\* Start a builder at the fields that follow degree g.
Build(kind, g) ==
  /\ builder' = kind
  /\ dst' = NoKey /\ field' = 2 * g /\ slot' = 0

Idle == builder = "none"

\* One field by value: gen_conv_step_key, in the order of the key indices.
GenField ==
  /\ builder \in {"gen", "gen_oracle"} /\ field <= N
  /\ dst' = [dst EXCEPT ![field] = [i \in Slots(field) |-> StepKey(field, i, prg + i)]]
  /\ prg' = prg + Rank(field \div 2)
  /\ field' = 2 * field
  /\ UNCHANGED <<s, built, sched, builder, slot>>

\* On to the next slot, or the next field.
Advance ==
  IF slot + 1 \in Slots(field) THEN slot' = slot + 1 /\ field' = field
                               ELSE slot' = 0 /\ field' = 2 * field

\* Mutant: a field is written from its last slot down.
GenSlotDescending ==
  /\ builder = "gen_boxed" /\ field <= N
  /\ LET i == Rank(field \div 2) - 1 - slot
     IN  dst' = [dst EXCEPT ![field][i] = StepKey(field, i, prg)]
  /\ prg' = prg + 1
  /\ Advance
  /\ UNCHANGED <<s, built, sched, builder>>

\* One slot in place: gen_conv_step_key_element_into.
GenSlot ==
  /\ builder = "gen_boxed" /\ field <= N
  /\ dst' = [dst EXCEPT ![field][slot] = StepKey(field, slot, prg)]
  /\ prg' = prg + 1
  /\ Advance
  /\ UNCHANGED <<s, built, sched, builder>>

\* One field of a repacking key by value: from_cascade_modswitched.
SwitchField ==
  /\ builder = "switch" /\ field <= N
  /\ dst' = [dst EXCEPT ![field] = keys[field]]
  /\ field' = 2 * field
  /\ UNCHANGED <<s, prg, built, sched, builder, slot>>

\* One slot of a repacking key in place: switch_field.
SwitchSlot ==
  /\ builder = "switch_boxed" /\ field <= N
  /\ dst' = [dst EXCEPT ![field][slot] = keys[field][slot]]
  /\ Advance
  /\ UNCHANGED <<s, prg, built, sched, builder>>

\* One slot of the evaluation form: to_eval_boxed, its samples in turn.
ToEvalSlot ==
  /\ builder = "to_eval" /\ field <= N
  /\ dst' = [dst EXCEPT ![field][slot] = keys[field][slot]]
  /\ Advance
  /\ UNCHANGED <<s, prg, built, sched, builder>>

\* A builder returns.  The cascade key is followed by the RLWE to RGSW key
\* (Client::setup) and by the evaluation form (PreparedKeys).
FinishKey ==
  /\ ~Idle /\ field > N
  /\ CASE builder \in {"gen", "gen_boxed"} ->
            /\ keys' = dst
            /\ convKey' = [message |-> Mul(s, s, N), at |-> prg]
            /\ prg' = prg + 1
            /\ Build("to_eval", 1)
            /\ UNCHANGED <<prepared, sched>>
       [] builder = "to_eval" ->
            /\ prepared' = dst
            /\ Build("none", 1)
            /\ UNCHANGED <<prg, keys, convKey, sched>>
       [] OTHER ->
            /\ sched' = dst
            /\ Build("none", 1)
            /\ UNCHANGED <<prg, built>>
  /\ UNCHANGED s

BuildKeys == GenField \/ GenSlot \/ SwitchField \/ SwitchSlot \/ ToEvalSlot \/ FinishKey

-----------------------------------------------------------------------------
\* The keys of a repacking of ciphertexts extracted to degree g.
ReadSuffix(g) ==
  /\ UNCHANGED <<s, prg, built>>
  /\ \/ /\ sched' = [n \in Fields(1) |-> IF n \in Fields(g) THEN keys[n] ELSE NoKey[n]]
        /\ UNCHANGED building
     \/ /\ \E kind \in {"switch", "switch_boxed", "gen_oracle"} : Build(kind, g)
        /\ sched' = sched

\* Step keys of the fields between degrees g and n.
Preceding(g, n) ==
  LET sum[m \in {g} \cup Fields(g)] == IF m = g THEN 0 ELSE sum[m \div 2] + Rank(m \div 2)
  IN  sum[n \div 2]

(***************************************************************************)
(* Both builders of a cascade key draw the step key of every field and     *)
(* slot from the same place of the generator, and leave no slot unwritten  *)
(* (cascade.rs, "Draws PRG bytes in the same order ... so the two produce  *)
(* identical keys").  A conversion reads complete fields that are the      *)
(* cascade's own: borrowed, switched or transformed they are the very      *)
(* encryptions, and generated on their own they encrypt the same step keys *)
(* in the same order, all shifted by the draws taken before (repack.rs,    *)
(* "no new offline payload").                                              *)
(***************************************************************************)
KeysAlign ==
  /\ convKey # Unwritten =>
       \A n \in Fields(1) : \A i \in Slots(n) : keys[n][i].at = Preceding(1, n) + i
  /\ prepared \in {NoKey, keys}
  /\ sched # NoKey =>
       LET read == {n \in Fields(1) : sched[n] # NoKey[n]}
           first == CHOOSE n \in read : \A m \in read : n <= m
           shift == sched[first][0].at - keys[first][0].at
       IN  /\ N \in read /\ Fields(first \div 2) = read
           /\ \A n \in read : \A i \in Slots(n) :
                sched[n][i] = [keys[n][i] EXCEPT !.at = @ + shift]
=============================================================================
