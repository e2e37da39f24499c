----------------------------- MODULE Conversion -----------------------------
(***************************************************************************)
(* Changing the shape of ciphertexts with key material (conversion/ of     *)
(* via-primitives): the cascade that turns an LWE ciphertext into an RLWE  *)
(* ciphertext one doubling of the degree at a time (cascade.rs, conv.rs),  *)
(* its use on a batch of extracted ciphertexts (repack.rs, extract.rs),    *)
(* and the step from RLWE to RGSW (gates/convert.rs).                      *)
(*                                                                         *)
(* A ciphertext of degree n holds N / n masks, the k-th keyed by the k-th  *)
(* projection of the secret to degree n.  A conversion to degree 2n        *)
(* switches each mask from its own key to one of the N / 2n new keys and   *)
(* accumulates.  Key switching is exact here: it replaces a mask by any    *)
(* other and moves the difference to the body; its noise is the subject of *)
(* Gadget.                                                                 *)
(***************************************************************************)
EXTENDS StepKeys, Sequences

CONSTANTS
  Uniform(_),  \* Uniform(n): masks of degree n tried
  Messages,    \* RLWE plaintexts tried
  Batches      \* repackings tried, [t: inputs, g: degree they are extracted to]

ASSUME ConversionAssumption ==
  /\ Messages \subseteq Poly(N)
  /\ \A k \in 0..MaxBits : Shl[k] <= N => Uniform(Shl[k]) \subseteq Poly(Shl[k])
  /\ \A b \in Batches : \E i, j \in 0..MaxBits :
       b = [t |-> Shl[i], g |-> Shl[j]] /\ b.t * b.g <= N /\ b.g < N

VARIABLES
  pc,      \* "idle", "next", "switch", "done" or "rgsw"
  job,     \* what is converted: [op, g, messages], g the degree it starts from
  deg,     \* degree of the ciphertexts in cts
  cts,     \* ciphertexts still to be converted at this level
  out,     \* ciphertexts converted at this level, of degree 2 * deg
  from,    \* the embedded masks of the conversion in progress
  acc,     \* its accumulator: result_masks, result_body
  idx,     \* the next mask to switch, RANK_OUT * group + j
  negSM    \* the first half of the RGSW sample

jobVars == <<pc, job, deg, cts, out, from, acc, idx, negSM>>
vars == <<keyVars, jobVars>>

Ct(masks, body) == [masks |-> masks, body |-> body]

NoCt == Ct(<<>>, <<>>)

\* Sum over k of masks[k] * key(k), k from lo up.
Dot(masks, lo, num, n, Keyed(_)) ==
  LET sum[k \in lo..num] ==
        IF k = lo THEN Zero(n) ELSE Add(sum[k - 1], Mul(masks[k - 1], Keyed(k - 1), n))
  IN  sum[num]

\* What a ciphertext of degree n decrypts to.
Phase(ct, n) ==
  LET Keyed(k) == Key(n, k) IN Sub(ct.body, Dot(ct.masks, 0, Rank(n), n, Keyed))

-----------------------------------------------------------------------------
\* embed_d (embed_mlwe for one input): input i at slot i.
Embed(inputs, n) ==
  LET At(f, place) == EmbedAt(f, n, 2 * n, place)
      Join(fs) == IF Len(fs) = 1 THEN At(fs[1], 0) ELSE Add(At(fs[1], 0), At(fs[2], 1))
  IN  Ct([k \in 0..(Rank(n) - 1) |-> Join([i \in DOMAIN inputs |-> inputs[i].masks[k]])],
         Join([i \in DOMAIN inputs |-> inputs[i].body]))

\* Mutant: the masks are taken in their own order.
ExtrForward(ct, n) ==
  Ct([k \in 0..(Rank(n) - 1) |->
       IF k = 0 THEN ProjectAt(ct.masks[0], N, n, 0)
       ELSE MulXPow(ProjectAt(ct.masks[0], N, n, k), n, 1)],
     ProjectAt(ct.body, N, n, 0))

\* extr, of an RLWE ciphertext.
Extr(ct, n) ==
  Ct([k \in 0..(Rank(n) - 1) |->
       IF k = 0 THEN ProjectAt(ct.masks[0], N, n, 0)
       ELSE MulXPow(ProjectAt(ct.masks[0], N, n, Rank(n) - k), n, 1)],
     ProjectAt(ct.body, N, n, 0))

\* The leaves of repack: the inputs in bit-reversed order, then zeros.
Leaves(inputs, g) ==
  LET t == Len(inputs)
      zero == Ct([k \in 0..(Rank(g) - 1) |-> Zero(g)], Zero(g))
  IN  [x \in 1..(N \div g) |->
        IF x <= t THEN Extr(inputs[BitReverseIndex(x - 1, Log2(t)) + 1], g) ELSE zero]

\* A ciphertext of plaintext m, of degree n (dot_residues for n = 1).
Encrypt(m, masks, n) ==
  LET Keyed(k) == Key(n, k) IN Ct(masks, Add(Dot(masks, 0, Rank(n), n, Keyed), m))

-----------------------------------------------------------------------------
Init ==
  /\ KeysInit
  /\ pc = "idle" /\ job = [op |-> "none"]
  /\ deg = 1 /\ cts = <<>> /\ out = <<>>
  /\ from = <<>> /\ acc = NoCt /\ idx = 0 /\ negSM = NoCt

\* encrypt_lwe_raw, then the cascade on its result, with the key or with its
\* evaluation form.
StartCascade ==
  /\ pc = "idle" /\ Idle
  /\ \E op \in {"cascade", "cascade_eval"}, m \in Uniform(1), masks \in [0..(N - 1) -> Uniform(1)] :
       /\ job' = [op |-> op, g |-> 1, messages |-> <<m>>]
       /\ cts' = <<Encrypt(m, masks, 1)>>
  /\ deg' = 1
  /\ pc' = "next"
  /\ UNCHANGED <<keyVars, out, from, acc, idx, negSM>>

\* repack, on t RLWE ciphertexts.
StartRepack ==
  /\ pc = "idle" /\ Idle
  /\ \E b \in Batches :
       /\ ReadSuffix(b.g)
       /\ \E ms \in [1..b.t -> Messages], masks \in [1..b.t -> Uniform(N)] :
            /\ job' = [op |-> "repack", g |-> b.g, messages |-> ms]
            /\ cts' = Leaves([i \in 1..b.t |-> Encrypt(ms[i], [k \in {0} |-> masks[i]], N)], b.g)
            /\ deg' = b.g
  /\ pc' = "next"
  /\ UNCHANGED <<out, from, acc, idx, negSM>>

Cascading == job.op \in {"cascade", "cascade_eval"}

\* The ciphertexts the next conversion takes: one in a cascade, a pair in a
\* repacking tree.
Arity == IF Cascading THEN 1 ELSE 2

Inputs == SubSeq(cts, 1, Arity)

\* The head of conv_step and mlwes_to_mlwe.
StartConversion ==
  /\ pc = "next" /\ Idle
  /\ LET embedded == Embed(Inputs, deg)
     IN  /\ from' = embedded.masks
         /\ acc' = Ct([j \in 0..(Rank(2 * deg) - 1) |-> Zero(2 * deg)], embedded.body)
  /\ idx' = 0
  /\ pc' = "switch"
  /\ UNCHANGED <<keyVars, job, deg, cts, out, negSM>>

\* key_switch of mask idx, accumulated into output slot j.
KeySwitch(key) ==
  /\ \E mask \in Uniform(2 * deg) :
       LET body == Sub(Mul(mask, key.target, 2 * deg), Mul(from[idx], key.source, 2 * deg))
       IN  acc' = Ct([acc.masks EXCEPT ![idx % Rank(2 * deg)] = Add(@, mask)], Add(acc.body, body))
  /\ idx' = idx + 1
  /\ UNCHANGED <<keyVars, pc, job, deg, cts, out, from, negSM>>

Switching == pc = "switch" /\ idx < Rank(deg)

\* One turn of the loop of conv_step.
ConvStep == Switching /\ job.op = "cascade" /\ KeySwitch(keys[2 * deg][idx])

\* Of conv_step_eval.
ConvStepEval == Switching /\ job.op = "cascade_eval" /\ KeySwitch(prepared[2 * deg][idx])

\* Of mlwes_to_mlwe.
MlwesToMlwe == Switching /\ job.op = "repack" /\ KeySwitch(sched[2 * deg][idx])

\* The conversion returns; after the last one of a level the level doubles.
FinishConversion ==
  /\ pc = "switch" /\ idx = Rank(deg)
  /\ LET rest == SubSeq(cts, Arity + 1, Len(cts))
         converted == Append(out, acc)
     IN  IF rest # <<>>
         THEN /\ cts' = rest /\ out' = converted
              /\ deg' = deg /\ pc' = "next"
         ELSE /\ cts' = converted /\ out' = <<>>
              /\ deg' = 2 * deg
              /\ pc' = IF 2 * deg = N THEN "done" ELSE "next"
  /\ from' = <<>> /\ acc' = NoCt /\ idx' = 0
  /\ UNCHANGED <<keyVars, job, negSM>>

\* Mutant: the product is not added to the body that becomes the mask.
RgswKeepsBody ==
  /\ pc = "done" /\ Cascading
  /\ \E mask \in Uniform(N) :
       negSM' = Ct([k \in {0} |-> cts[1].body],
                   Add(Mul(mask, s, N), Mul(cts[1].masks[0], convKey.message, N)))
  /\ pc' = "rgsw"
  /\ UNCHANGED <<keyVars, job, deg, cts, out, from, acc, idx>>

\* rlwe_to_rgsw on one gadget level: the product of the mask with an RLev of
\* s^2, whose mask is added to the body.
ToRgsw ==
  /\ pc = "done" /\ Cascading
  /\ \E mask \in Uniform(N) :
       negSM' = Ct([k \in {0} |-> Add(cts[1].body, mask)],
                   Add(Mul(mask, s, N), Mul(cts[1].masks[0], convKey.message, N)))
  /\ pc' = "rgsw"
  /\ UNCHANGED <<keyVars, job, deg, cts, out, from, acc, idx>>

\* A step of key generation or derivation.
KeyStep == BuildKeys /\ UNCHANGED jobVars

Next ==
  \/ KeyStep \/ StartCascade \/ StartRepack \/ StartConversion \/ ConvStep \/ ConvStepEval
  \/ MlwesToMlwe \/ FinishConversion \/ ToRgsw

Spec == Init /\ [][Next]_vars

-----------------------------------------------------------------------------
(***************************************************************************)
(* Properties.                                                             *)
(***************************************************************************)

\* In the middle of a conversion, the accumulator under the new keys and the
\* masks not yet switched under the old ones together still decrypt to the
\* inputs, interleaved (conv_step, mlwes_to_mlwe: "encrypting iota(M), under
\* the key matching step_keys").
PhaseCarried ==
  pc = "switch" =>
    LET Old(k) == EmbedAt(Key(deg, k), deg, 2 * deg, 0)
        plain == [i \in 1..Arity |-> Phase(Inputs[i], deg)]
    IN  Sub(Phase(acc, 2 * deg), Dot(from, idx, Rank(deg), 2 * deg, Old))
          = IF Arity = 1 THEN EmbedAt(plain[1], deg, 2 * deg, 0)
            ELSE Add(EmbedAt(plain[1], deg, 2 * deg, 0), EmbedAt(plain[2], deg, 2 * deg, 1))

\* What was converted decrypts, under the one key of degree N, to every
\* (N / g)-th coefficient of input i in slot i * (N / g) / t, and to zero in
\* the other slots: a scalar comes to coefficient 0, a batch is spread evenly
\* in its natural order (cascade.rs; repack_engine "natural slot order").
Packed ==
  LET slots == N \div job.g
      stride == slots \div Len(job.messages)
      Plain(x) == IF (x % slots) % stride # 0 THEN 0
                  ELSE job.messages[((x % slots) \div stride) + 1][(x \div slots) * slots]
  IN  pc \in {"done", "rgsw"} => Phase(cts[1], N) = [x \in 0..(N - 1) |-> Plain(x)]

\* The two halves of an RGSW agree: the one computed from a ciphertext of M
\* and the conversion key decrypts to -s * M (convert.rs rlwe_to_rgsw).
RgswHalvesAgree ==
  pc = "rgsw" => Phase(negSM, N) = Neg(Mul(s, Phase(cts[1], N), N))
=============================================================================
