----------------------------- MODULE ViaClient -----------------------------
(***************************************************************************)
(* The parameters a client is set up with (params.rs, presets.rs and       *)
(* wire/keys.rs of via-protocol), the compressed query of an index         *)
(* (via-client/src/query.rs) and the records the client cuts out of a      *)
(* decrypted answer (via-client/src/batch.rs).                             *)
(*                                                                         *)
(* A dimension is given twice: as a const generic of the code (a CONSTANT  *)
(* here) and as a field of the run-time PIRParams, a record.  Only the     *)
(* gadget bases are read from the latter once it has been checked.  The    *)
(* moduli and the base of the ring-switch key are those in use, as the     *)
(* callbacks of Client::setup must see to.                                 *)
(*                                                                         *)
(* An LWE ciphertext is the message it encrypts.  The message of bit b at  *)
(* gadget level i of base B is b * g_B[i]: <<>> stands for 0 and <<B, i>>  *)
(* for g_B[i], so the levels and the base of a ZERO bit leave no trace.    *)
(***************************************************************************)
EXTENDS Decompose, Ring, Sequences

CONSTANTS
  N1,       \* degree of the query and database ring
  N2,       \* degree of the answer ring
  N3,       \* degree of a VIA-B record
  L_QUERY,  \* gadget levels per query bit
  L_RSK     \* gadget levels of the ring-switch key

IsPowerOfTwo(n) == \E k \in 0..MaxBits : Shl[k] = n

\* _CHECK of ViaCPublicParams, and of ViaBPublicParams but for its T, which
\* is a parameter of the calls.
ViaCCheck ==
  /\ N2 >= 2 /\ IsPowerOfTwo(N2) /\ IsPowerOfTwo(N1) /\ N1 > N2
  /\ L_QUERY \in Nat \ {0} /\ L_RSK \in Nat \ {0}

ViaBCheck == ViaCCheck /\ IsPowerOfTwo(N3) /\ N3 <= N2

\* _CHECK of Server.
ServerCheck(n) == n >= 1 /\ N1 % n = 0 /\ n <= N2

\* What compiles.
ASSUME DegreesAssumption == ViaBCheck /\ ServerCheck(N2) /\ ServerCheck(N3)

D == N1 \div N2

D3 == N1 \div N3

-----------------------------------------------------------------------------
\* The debug_asserts of new_inner.  gaussian: the keys, 1 and 2, whose
\* distribution is Gaussian; sigmas: those given a standard deviation.
Valid(f) ==
  /\ \A n \in {f.n1, f.n2, f.n3, f.t} : IsPowerOfTwo(n)
  /\ f.n1 > f.n2
  /\ \A k \in 1..4 : f.moduli[k] > f.moduli[k + 1]
  /\ f.depth_2 > 0 /\ f.depth_2 <= f.depth_1 /\ f.depth_rsk > 0
  /\ f.gaussian \subseteq f.sigmas
  /\ f.n3 <= f.n2 /\ f.t * f.n3 <= f.n2

\* PIRParams::new (VIA-C) and new_b (VIA-B) fill in the record degree and the
\* batch size; <<>> if new_inner panics, as it does in a debug build only.
NewParams(debug, variant, args) ==
  LET f == IF variant = "b" THEN args ELSE [args EXCEPT !.n3 = args.n2, !.t = 1]
  IN  IF debug /\ ~Valid(f) THEN <<>> ELSE f

\* pir_params_matches_preset: n3 and t are not compared.
MatchesPreset(f) ==
  /\ f.n1 = N1 /\ f.n2 = N2 /\ f.n1 \div f.n2 = D
  /\ f.depth_1 = L_QUERY /\ f.depth_2 <= L_QUERY
  /\ f.depth_rsk = L_RSK

\* PublicParams::new does not panic.
PublicParamsAccepted(debug, f, rows, cols) ==
  /\ debug => MatchesPreset(f)
  /\ rows > 0 /\ cols > 0

-----------------------------------------------------------------------------
\* Mutant: the bit length of n, not of n - 1.
BitLengthOf(n) == CHOOSE k \in 0..MaxBits : n < Shl[k] /\ \A j \in 0..(k - 1) : Shl[j] <= n

\* The least k with n <= 2^k.
CeilLog2(n) == CHOOSE k \in 0..MaxBits : n <= Shl[k] /\ \A j \in 0..(k - 1) : Shl[j] < n

\* push_bit_group: for each bit, for each level, one LWE.
PushBitGroup(bits, num, base) ==
  [x \in 1..(num * L_QUERY) |->
    IF bits[(x - 1) \div L_QUERY] = 0 THEN <<>> ELSE <<base, (x - 1) % L_QUERY>>]

\* Mutant: the CRot bits are encrypted under the DMux gadget.
QueryWithDmuxBase(index, rows, cols, d, dmux_base, cmux_base) ==
  LET split == DecomposeIndex(index, rows, cols)
      nd == CeilLog2(rows)
      nc == CeilLog2(cols)
      nr == CeilLog2(d)
  IN  PushBitGroup(DmuxBits(split.alpha, nd), nd, dmux_base)
        \o PushBitGroup(CmuxBits(split.beta, nc), nc, cmux_base)
        \o PushBitGroup(CrotBits(split.gamma, nr), nr, dmux_base)

\* build_compressed_query: [DMux @ dmux_base | CMux @ cmux_base | CRot @ cmux_base].
BuildCompressedQuery(index, rows, cols, d, dmux_base, cmux_base) ==
  LET split == DecomposeIndex(index, rows, cols)
      nd == CeilLog2(rows)
      nc == CeilLog2(cols)
      nr == CeilLog2(d)
  IN  PushBitGroup(DmuxBits(split.alpha, nd), nd, dmux_base)
        \o PushBitGroup(CmuxBits(split.beta, nc), nc, cmux_base)
        \o PushBitGroup(CrotBits(split.gamma, nr), nr, cmux_base)

\* deinterleave_batch: record t of a batch of T is projection slot t.
DeinterleaveBatch(recovered, T) == [t \in 1..T |-> ProjectAt(recovered, N2, N3, t - 1)]
=============================================================================
