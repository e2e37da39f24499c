----------------------------- MODULE ViaServer -----------------------------
(***************************************************************************)
(* What the server computes: the database encoding (setup_db.rs), the six  *)
(* stages up to the rotation (answer.rs, query_decomp.rs and the gates of  *)
(* via-primitives), the repacking of a batch (conversion/repack.rs) and    *)
(* the response compression (resp_comp.rs), on PLAINTEXTS: a ciphertext is *)
(* the polynomial it decrypts to without noise, so the modulus switches    *)
(* and the re-encryptions leave it alone.                                  *)
(*                                                                         *)
(* An RGSW bit is usable only if its LWEs are the gadget levels, in order, *)
(* of the base the external product applies to it; a product with any      *)
(* other tuple of LWEs decrypts to Garbage.  The in-place loops of the     *)
(* trees are the subject of DMuxTree and CMuxTree; here a level is a map.  *)
(***************************************************************************)
EXTENDS ViaClient

CONSTANT Garbage   \* what an undecryptable ciphertext decrypts to

ASSUME GarbageAssumption == Garbage \notin Bits /\ Garbage \notin Poly(N1) \cup Poly(N2)

\* Mutant: the flat index is laid out column by column.
ColumnMajorSetupDb(records, rows, cols, nrec) ==
  LET d == N1 \div nrec
      Rec(x) == IF x < Len(records) THEN records[x + 1] ELSE Zero(nrec)
  IN  [i \in 0..(rows - 1) |-> [j \in 0..(cols - 1) |-> [x \in 0..(N1 - 1) |->
        Rec((x % d) * rows * cols + j * rows + i)[x \div d]]]]

\* setup_db: cell (i, j) is the sum over k of embed_at(record k * I * J +
\* i * J + j, slot k), whose slots are disjoint; a missing record is zero.
SetupDb(records, rows, cols, nrec) ==
  LET d == N1 \div nrec
      Rec(x) == IF x < Len(records) THEN records[x + 1] ELSE Zero(nrec)
  IN  [i \in 0..(rows - 1) |-> [j \in 0..(cols - 1) |-> [x \in 0..(N1 - 1) |->
        Rec((x % d) * (rows * cols) + i * cols + j)[x \div d]]]]

\* The bit an external product at this base sees in one bit's LWEs.
Rgsw(lwes, base) ==
  CASE \A i \in DOMAIN lwes : lwes[i] = <<>> -> 0
    [] \A i \in DOMAIN lwes : lwes[i] = <<base, i - 1>> -> 1
    [] OTHER -> Garbage

\* query_decomp: bit b of a group owns L_QUERY consecutive LWEs.
QueryDecomp(query, from, num, base) ==
  [b \in 0..(num - 1) |->
    Rgsw(SubSeq(query, (from + b) * L_QUERY + 1, (from + b + 1) * L_QUERY), base)]

\* dmux_tree on the trivial ciphertext of 1; child 2k + 1 takes the product.
DmuxTree(bits, num) ==
  LET level[l \in 0..num] ==
        IF l = 0 THEN [k \in {0} |-> 1]
        ELSE [k \in 0..(Shl[l] - 1) |->
               LET ct == level[l - 1][k \div 2]
                   product == bits[l - 1] * ct
               IN  IF k % 2 = 1 THEN product ELSE ct - product]
  IN  level[num]

\* first_dim: column j is the sum over the rows of c_i * db[i][j].
FirstDimColumns(sel, db, rows, cols) ==
  [j \in 0..(cols - 1) |->
    LET acc[i \in 0..(rows - 1)] ==
          IF i = 0 THEN Scale(sel[0], db[0][j])
          ELSE Add(acc[i - 1], Scale(sel[i], db[i][j]))
    IN  acc[rows - 1]]

\* cmux: ct0 + bit * (ct1 - ct0).
CmuxPoly(bit, ct0, ct1) == Add(ct0, Scale(bit, Sub(ct1, ct0)))

\* cmux_tree: pairs of neighbours, least significant bit first.
CmuxTree(bits, num, columns) ==
  LET level[l \in 0..num] ==
        IF l = 0 THEN columns
        ELSE [k \in 0..(Shl[num - l] - 1) |->
               CmuxPoly(bits[l - 1], level[l - 1][2 * k], level[l - 1][2 * k + 1])]
  IN  level[num][0]

\* crot, SlotExtract: bit i rotates by -2^i, as the negated X^(N1 - 2^i).
Crot(bits, num, ct) ==
  LET result[i \in 0..num] ==
        IF i = 0 THEN ct
        ELSE CmuxPoly(bits[i - 1], result[i - 1],
                      Neg(MulXPow(result[i - 1], N1, N1 - Shl[i - 1])))
  IN  result[num]

-----------------------------------------------------------------------------
Ok(ct) == [err |-> "", ct |-> ct]

Err(e) == [err |-> e, ct |-> Garbage]

\* answer_through_crot: the guards, then stages 1 to 6.
AnswerThroughCrot(query, params, rows, cols, db, nrec) ==
  LET nd == Log2(rows)
      nc == Log2(cols)
      nr == IF N1 \div nrec > 1 THEN Log2(N1 \div nrec) ELSE 0
      dmux == QueryDecomp(query, 0, nd, params.base_1)
      cmux == QueryDecomp(query, nd, nc, params.base_2)
      rot  == QueryDecomp(query, nd + nc, nr, params.base_2)
      bits == {dmux[b] : b \in DOMAIN dmux} \cup {cmux[b] : b \in DOMAIN cmux}
                \cup {rot[b] : b \in DOMAIN rot}
      columns == FirstDimColumns(DmuxTree(dmux, nd), db, rows, cols)
  IN  IF ~IsPowerOfTwo(rows) \/ ~IsPowerOfTwo(cols) THEN Err("DimMismatch")
      ELSE IF DOMAIN db # 0..(rows - 1) THEN Err("DimMismatch")
      ELSE IF Len(query) # (nd + nc + nr) * L_QUERY THEN Err("QueryLengthMismatch")
      ELSE IF Garbage \in bits THEN Ok(Garbage)
      ELSE Ok(Crot(rot, nr, CmuxTree(cmux, nc, columns)))

\* resp_comp: the ring switch keeps projection slot 0.
RespComp(ct) == IF ct = Garbage THEN Garbage ELSE ProjectAt(ct, N1, N2, 0)

\* answer_one_query: the prefix at N_REC = N2, whatever the records' degree.
AnswerOneQuery(query, params, rows, cols, db) ==
  LET prefix == AnswerThroughCrot(query, params, rows, cols, db, N2)
  IN  IF prefix.err # "" THEN prefix ELSE Ok(RespComp(prefix.ct))

-----------------------------------------------------------------------------
\* extr to degree g, on the plaintext: projection slot 0.
Extr(ct, g) == ProjectAt(ct, N1, g, 0)

\* The leaves of the repacking tree: the T inputs in bit-reversed order (the
\* loop swaps i with its reversal once, where i is the smaller), then zeros.
RepackLeaves(cts, T, g) ==
  [k \in 0..((N1 \div g) - 1) |->
    IF k < T THEN Extr(cts[BitReverseIndex(k, Log2(T)) + 1], g) ELSE Zero(g)]

\* mlwes_to_mlwe on the plaintext: the pair interleaved at slots 0 and 1.
PairConvert(a, b, n) == Add(EmbedAt(a, n, 2 * n, 0), EmbedAt(b, n, 2 * n, 1))

\* The repack engine: a pair_convert per level, down to one of degree N1.
Repack(cts, T) ==
  LET g == N2 \div T
      depth == Log2(N1 \div g)
      level[l \in 0..depth] ==
        IF l = 0 THEN RepackLeaves(cts, T, g)
        ELSE [k \in 0..(Shl[depth - l] - 1) |->
               PairConvert(level[l - 1][2 * k], level[l - 1][2 * k + 1], g * Shl[l - 1])]
  IN  IF \E t \in DOMAIN cts : cts[t] = Garbage THEN Garbage ELSE level[depth][0]

\* answer_batch::<T>: the prefix at N_REC per query, first error out; one repack.
AnswerBatch(queries, T, params, rows, cols, db, nrec) ==
  LET prefix == [t \in DOMAIN queries |-> AnswerThroughCrot(queries[t], params, rows, cols, db, nrec)]
      failed == {t \in DOMAIN queries : prefix[t].err # ""}
  IN  IF Len(queries) # T THEN Err("DimMismatch")
      ELSE IF failed # {} THEN prefix[CHOOSE t \in failed : \A u \in failed : t <= u]
      ELSE Ok(RespComp(Repack([t \in DOMAIN queries |-> prefix[t].ct], T)))
=============================================================================
