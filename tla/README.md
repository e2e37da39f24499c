# via-rs in TLA+

via-rs is a Rust implementation of VIA, a lattice-based single-server private
information retrieval protocol, in its variants VIA-C (one record per query) and
VIA-B (a batch of small records per answer). This directory holds TLA+ modules
translated from the crates, TLC configurations that check them on small
instances, and theorems that TLAPS proves for every value of the constants.

Paths below leave out `src/crates/`. `PROJECT.json` maps every definition to
the lines it translates, lists the runs with their properties, the hazards each
property is aimed at and the theorems.

    tlc -workers 2 -config MCVia.cfg MCVia      # model-check one configuration
    tlapm KernelProofs.tla                      # check the proofs of one module

## 1. The system

### Components

| component | state | operations | correct when |
|---|---|---|---|
| client (`via-client`: client, query, decompose, batch) | secret keys, dimensions of the database; the caller's generator | `setup`, `query`, `batch_query`, `recover`, `recover_batch` | the record recovered is the record asked for |
| server (`via-server`: answer, setup_db, query_decomp, batch, resp_comp) | encoded database, public parameters; immutable after `setup` | `setup`, `answer`, `answer_batch` | nothing given to `setup` is dropped; only messages built for another handler are refused |
| first dimension (`via-server/src/first_dim.rs`) | scoped worker threads and their handles, per call | spawn, compute a column, join, unwind | parallel result = serial result, and the call ends on every path |
| selection trees (`via-primitives/src/gates/mux.rs`) | a slice updated in place | `dmux_tree`, `cmux_tree` | one-hot expansion; selection of one leaf |
| rotation (`gates/rotate.rs`) | none | `crot` | the slot asked for comes to place 0 with the right sign |
| gadget products (`encryption/gadget.rs, rlev.rs, keyswitch.rs, rgsw.rs`) | scratch and accumulators, per call | decompose, reconstruct, key switch, external product | the noise added stays within its bound |
| generator (`sampling/prg.rs`) | seed, block counter, buffered block, cursor | `fill_bytes`, `next_u64`, `uniform_below` | one stream, nothing skipped or reused; unbiased |
| modular arithmetic (`algebra/zq`) | one canonical word per coefficient | add, sub, neg, mul, reductions, centring; `switching/rekey.rs` | results exact and canonical |
| ring elements (`algebra/ring`: ops, reshape, element, rns_element, abstraction, ntt) | coefficient or evaluation vectors, of one modulus or of two | the methods of two traits, NTT | both types, in both forms, are elements of Z_q[X]/(X^n + 1); a panic only on operands that do not belong together |
| residues (`algebra/rns`) | pairs of words | reconstruction, inverse, centring | same number as its residues |
| samplers (`sampling`, `Zq::random`, ring `random`) | none; draw from the generator they are handed | uniform, ternary, bounded, Gaussian, lift | each sample is that of its distribution, the bytes of one after those of another |
| conversions (`conversion`, `gates/convert.rs`) | step keys, built by value or slot by slot in uninitialised memory | LWE to RLWE cascade, extraction, repacking, RLWE to RGSW | every mask meets the key of its own projection of the secret; the phase is carried over |
| switching (`switching`, `mod_switch_rgsw`, `mod_switch_rlev`) | ring-switch key | modulus switch of ciphertexts and of keys, ring switch, rekey | the plaintext is carried over; a switched key still selects |
| wire format (`via-protocol/src/wire`) | none | serialise and parse coefficient vectors, draw masks again from a seed | round trip, refusal of malformed input |
| parameters, presets, errors (`via-protocol`) | const generics, and a run-time record of the same numbers | two constructors, three sets of checks | what passes the checks is served |
| estimator (`via-estimator`), tests, benches, fuzz targets | none | | not part of the protocol |

### Interactions

The caller owns all communication; the crates contain no I/O. A client's
`setup` yields keys and public parameters, a server's `setup` takes the public
parameters and the records. A query is one flat vector of LWE ciphertexts
`[DMux | CMux | CRot]`; client and server compute its length and its cuts on
their own. The server converts each group of L LWEs to an RGSW bit, expands the
row bits (`dmux_tree`), multiplies with the database (`first_dim`), selects the
column (`cmux_tree`), rotates the slot to place 0 (`crot`), for a batch repacks T
answers, and compresses the result. Between calls neither side keeps
per-request state; the one mutable object all calls of a client share is the
generator it is handed, an exclusive borrow threaded from call to call.

### What is hard

* Orders fixed in two crates: row bits go most significant first, column and
  slot bits least significant first; digits come least significant first while
  samples are stored most significant first; repacking leaves are bit-reversed.
* In-place trees that read and write one slice.
* Threads in `first_dim`: rounded chunks, failing spawns, panicking workers.
* Retries and cursors in the generator: block ends, empty reads, rejected draws.
* Requests that overlap in every order, single and batched, for a server of
  either variant.
* Word arithmetic that wraps on purpose (Barrett reduction, subtraction).
* Noise that is bounded only if carries and rounding are handled exactly.
* Key material that is built one way and read another: arrays of step keys,
  borrowed, copied, switched to another modulus or generated anew.
* Dimensions that are given twice, as const generics and in a run-time record,
  of which only debug builds compare the two.

There is no persistence, no network and no timeout in the code, so there is no
crash recovery or lost-message behaviour to model: a message that is lost is a
request whose caller never makes the next call, which is a behaviour of `Via`.

## 2. The modules

| module | code | state and actions |
|---|---|---|
| `Decompose` | `decompose.rs` | operators only: index to row, column, slot and their bits |
| `DMuxTree` | `mux.rs dmux_tree` | the loop variables and the slice; `Call`, then one step per parent (`ExpandNode`, and `ExpandLast` at the end of a level) |
| `CMuxTree` | `mux.rs cmux_tree` | the same for the shrinking prefix (`Call`, `ReducePair`, `ReduceLast`) |
| `Selection` | `answer.rs`, stages 2 to 5 | composes both trees around the product with the database: `Distribute`, `Multiply`, `Reduce` |
| `FirstDim` | `first_dim.rs` | caller program counter, spawn iterator, handles; one action per spawn, join, column, failure, panic |
| `ByteStream` | none (abstract) | what a generator promises: calls return consecutive bytes of one stream |
| `Prg` | `prg.rs` | block counter, buffer, cursor and the call in progress; one action per turn of the copy loop and per attempt |
| `Sampling` | `sampling/*.rs`, `Zq::random`, ring `random` | composes the samplers with `Prg`: the call in progress and its draws; one action per call, draw and return |
| `Wire` | `wire/format.rs` | composes the codecs with `Sampling`: the bytes on the wire; one action per encoding, decoding of a sent or of any packet, regeneration of masks |
| `Ring` | `ring/ops.rs, reshape.rs` | operators on coefficient functions |
| `ViaClient` | `params.rs, presets.rs, wire/keys.rs, query.rs, batch.rs` | operators: the checks on parameters, query construction, de-interleaving |
| `ViaServer` | `setup_db.rs, answer.rs, query_decomp.rs, mux.rs, rotate.rs, repack.rs, resp_comp.rs, batch.rs` | operators: every stage on plaintexts |
| `Pir` | none (abstract) | what the protocol promises: an answered request gets the records it named |
| `Via` | `client.rs, answer.rs` | set-up stage, run-time parameters, dimensions, database, requests; one action per public method, refusals and panics included |
| `Zq` | `zq/reduce.rs, modulus.rs, rekey.rs` | one coefficient and its modulus; one action per operation |
| `Gadget` | `gadget.rs, rlev.rs, keyswitch.rs, rgsw.rs` | scratch, level and accumulator; `ScaleInput`, `Extract` (one level), `FinishProduct` |
| `StepKeys` | `conv.rs, cascade.rs, repack.rs, gates/convert.rs`, the key builders | the fields of the cascade key, the key being built, the field and slot its builder is at; one action per array or slot built, key finished, transformed, borrowed, switched or generated |
| `Conversion` | `conv.rs, cascade.rs, mlwe_ops.rs, extract.rs, repack.rs, gates/convert.rs` | extends `StepKeys`: ciphertexts with masks and bodies; one action per conversion started, group of masks key-switched and conversion finished, and the RGSW step |
| `Response` | `mod_switch.rs, ring_switch.rs, resp_comp.rs, rlwe.rs` | one ciphertext on its way out; one action per rescale, per mask half switched, and the decryption |
| `KeyReuse` | `mod_switch_rgsw, mod_switch_rlev, rlev.rs, rgsw.rs, mux.rs, rotate.rs` | extends `Response`: an RGSW bit, the same at the next modulus, and the gate that applies it; its result goes on as the ciphertext of `Response` |
| `PolyElement`, `PolyRnsElement` | `zq/ops.rs, zq/element.rs, ring/element.rs`; `rns/ops.rs, ring/rns_*.rs, rns/element.rs` | operators: every method of the two ring types, in both forms |
| `RingPoly` | `ring/abstraction.rs, ntt_abstraction.rs` | two registers of ring elements and the last call; one action per kind of call |
| `QuotientRing` | none (abstract) | what the ring types promise: one modulus, no residues, no transforms |
| `Ntt` | `ring/ntt.rs` | root search, operands and their buffers; one action per base tried and per butterfly |
| `Rns` | `rns/basis.rs, reduce.rs, element.rs` | the loops of gcd and extended Euclid turn by turn, then one action per operation on residue pairs |
| `Wide` | `wide.rs` | dividend, remainder, quotient; one action per bit of the long division |
| `GadgetScale` | `gadget.rs gadget_scale_into` | composes `Rns` and `Wide`: a residue pair is centred, scaled by B^L / Q and given its sign back |

`*Proofs` modules hold theorems about the module they are named after, `KernelProofs`
about `DMuxTree`, `CMuxTree`, `Selection`, `FirstDim` and `Zq`, `ResponseProofs` about
`Response` and `KeyReuse`, `PrimitiveProofs` about `Prg`, `Sampling`, `Wire` and `Ntt`; `MC*` modules give constants their values. `Via` is the whole protocol: it extends
`ViaServer`, which extends `ViaClient`, `Decompose` and `Ring`. Inside it a tree
level is a map and a column is a sum: that the in-place loops and the threads
compute exactly those is what `DMuxTree`, `CMuxTree`, their composition
`Selection` and `FirstDim` show.
`Via` takes the conversions and the compression of the response by the plaintext
they carry over; that they carry it over is what `Conversion` and `Response` show,
and they in turn multiply polynomials with the operators of `Ring`, which is what
`Ntt` shows the transform to compute. `Gadget` takes the scaling of an input by
the quotient it rounds to; that two residues and 256-bit arithmetic come to that
quotient is what `GadgetScale` shows.

Three refinements are stated: `Prg` implements `ByteStream`
(`RefinesByteStream`), `Via` implements `Pir` (`RefinesPir`) and `RingPoly`
implements `QuotientRing` (`RefinesQuotientRing`), each by an
`INSTANCE ... WITH` that computes the abstract state from the concrete one. For
the ring that state is the element a register stands for: residues put together,
transforms undone, coefficients reduced. For
`Pir` the mapping says what a single query to a VIA-B server stands for: `answer`
rotates for the VIA-C degree, so its answer holds the record asked for and those
whole databases of slots further on.

### Abstractions

* In `Via` a ciphertext is the plaintext it decrypts to without noise. A product
  with the wrong gadget decrypts to `Garbage`. Modulus switching then leaves the
  plaintext alone, and keys and randomness are not represented: a call draws from
  a generator nobody else can touch meanwhile, and that draws follow one another
  without gap or repetition is the subject of `Prg` and `Sampling`.
* The dimensions of `ViaClient` are constants where the code has const generics and
  a record where it has `PIRParams`. Only the gadget bases are read from the record
  once it has passed. The moduli of the record and the base of the ring-switch key
  are taken to be the ones the closures of `Client::setup` use: nothing in the
  code compares them.
* In `Gadget` a ciphertext is its phase, and errors are any values up to
  `ErrMax`: bounds hold for every draw, distributions are not modelled. One
  coefficient stands for a polynomial; sums over coefficients enlarge the bound
  by the degree and are left out.
* `Conversion` works on full polynomials with masks, bodies and secrets. Its key
  switch is exact: it replaces a mask by any other and moves the difference to the
  body. The digits and errors of such a product are the subject of `Gadget`; which
  key meets which mask, with which sign and in which slot, of `Conversion`. A
  step key is what it switches from and to and the draw it was encrypted with.
* `KeyReuse` does multiply by the balanced digits of a gadget, on polynomials: what
  a switched key loses is lost in that product.
* `RingPoly` makes only the calls Rust's types allow. Words inside one operation
  are the subject of `Zq` and `Rns`, butterflies that of `Ntt`: here a transform
  is the evaluation at its points.
* `Response` takes the outcome of a gadget product as any mask with an error from
  a small set, for the same reason. The errors of the input cross the budget.
* The output of SHAKE is a table of blocks: what matters is which block and
  which bytes of it are used.
* Powers of two are a constant function (`Shl`, `Power`, `Pow2`) with
  assumptions that define them, so that proofs need no induction over exponents.
* Formatting, error messages and the boxed copies of the arithmetic are left out.

## 3. What is model-checked

| run | shows | bounds |
|---|---|---|
| `via` | parameters accepted and turned down, set-up, query, batch, answer, recovery, with every refusal and panic, of two overlapping requests; refinement of `Pir` | ring tower 8, 4, 1; six constructor calls, of debug and release builds; batches of 1, 2 and 4; databases of up to 2 x 2 cells and a dimension of 3 that is refused; full, short and overfull databases; every index and the first bad one |
| `kernels` | the in-place trees and the product between them: one cell, at the row and column asked for; every interleaving of workers, failing spawns and panics of the parallel product gives the serial answer or a panic, and ends; all operations of the three kinds of modulus on all values, rekeying | trees: 0 to 4 levels each, every row and column, all cells different; product: 2 rows, 1 to 6 columns, 0 to 4 CPUs, a work threshold between the cases; arithmetic: words of 4 bits, all moduli of the three kinds |
| `prg` | reads of all lengths and samplers of every kind continue one stream; attempts are unbiased, samples are those of the distribution; what was sampled is encoded, and every short byte string decoded, in both formats | 2-bit bytes, blocks of 3, 5 blocks, reads of 0 to 7 bytes, 8 bounds up to the largest word, samplers of up to 3 samples; words of two bytes, packets of 1 to 7 bytes |
| `gadget` | reconstruction, key switching, external products within the noise bound | q = 41, bases 4 and 3, depths 2 and 3, every input, key and error up to 1 |
| `gadget_scale` | gcd, extended Euclid, refusal of a basis, arithmetic and centring of residue pairs; widening product, long division; the scaled coefficient is the nearest integer | words of 8 bits; all pairs of moduli 2 to 7 in either order, all residues, scales up to the largest word, divisors on both sides of half a word |
| `ring` | both ring types, in both forms, under sequences of calls: refinement of `QuotientRing`, panics included | degrees 2 and 4; moduli 15, 16, 17 of the three kinds and the pair 17, 41 in both orders; up to 3 calls |
| `conversion` | step keys of every builder; the cascade in both its forms, the repacking tree and the RGSW step decrypt to their inputs | degree 4 modulo 5: a cascade of two steps, repackings of 2 and 4 leaves, over one and two levels |
| `response` | a bit switched to another modulus selects or rotates; rescale, ring switch, rescale, decrypt: the noise stays within the sum of what the steps add, and the plaintext survives it | degrees 4 and 2, moduli 32749, 8191, 41, 16, plaintext modulus 3, a gadget of four levels of base 8, errors inside and outside the budget |
| `ntt` | root search, residues in mid-transform in both directions, the product; the search ends | degree 8 modulo 17 and modulo 33 (no root: the search reaches its cap), monomials and dense operands |
| `gadget_doc`, `codec_doc`, `zq_doc` | findings, see section 6 | as `gadget`, `prg`, `kernels` |

`kernels` explores three kernels that call none of the others and share no
state, one per behaviour, with the other two at their smallest instance: their
questions are independent, and the run is the sum of three.

Why these bounds are enough. The trees repeat the same step per level, and
three levels already have a middle one; the theorems lift the depth. Six columns
on up to four CPUs include divisible and non-divisible cases, fewer chunks than
workers (6 columns, 4 CPUs), and the serial path on both sides of the threshold.
Reads of 0 to 7 bytes on blocks of 3 end before, at and after a block end and
span three blocks. `via` has records in several slots of one cell (N1/N2 = 2,
N1/N3 = 8), one-row and one-column databases and a dimension that is no power of
two; its batches of 1 and 2 leave padding leaves in the repacking tree, and a
batch of 4 has an order of leaves to get wrong. Its constructor calls pass both
checks, are turned down by one or by the other, or pass in a release build with
numbers that are wrong everywhere but in the gadget bases. Words of 4 bits hold
every pair of a modulus and a double word, so every quotient estimate occurs;
moduli up to half a word include the ones with one bit of head room, and half a
word itself, where the negation in the constant-time centring overflows. In `gadget`
an odd and an even base give both kinds of digit tie. Degree 8 has three rounds,
so a first, a middle and a last one, and modulo 17 the first bases tried have too
small an order. No Q of two moduli makes the shifted remainder of the long
division overflow, so `gadget_scale` also calls the division with the divisors
above half a word its documentation allows; the fast path and the carry into the
upper word occur as well. Packets of 7 bytes hold a header, a seed and a body of
two words; words of two bytes make the sum of offset and length wrap, in both builds. Three calls
suffice in `ring` for a result to be transformed and used again. The cascade of two
steps of `conversion` has a first and a last field to build, and a suffix to borrow.
In `response` the moduli are small enough for every rounding to show and large
enough for a switched key to select.
Pairs of moduli in both orders include q0 > q1, the case in which Garner has to
reduce, and pairs with a common divisor. In `response` the budget is crossed by
some errors and not by others, so the condition of `Recovered` is not vacuous.

Runs whose system stops (a tree that has finished, a request that is done) say
`CHECK_DEADLOCK FALSE`. Every property has a mutant in `PROJECT.json`: a
plausible bug in one definition under which TLC finds the property violated.
The mutated operators stand next to the definition they change and are marked
`Mutant`; nothing else uses them.

### Fairness

Three modules claim that something must happen. `Ntt` and `GadgetScale` are
sequential loops: weak fairness of the next turn says that the thread that runs
them is not stopped. `Ends` of `Ntt` says that the search reaches a root or its
cap, `CallsReturn` that both Euclids and the division end. In `FirstDim`, `FairSpec` assumes weak
fairness of the caller and of each worker, which is what a thread scheduler
gives a runnable thread. A worker is required to step, where a step may be a
panic; success of a spawn is not assumed. `Ends` holds because joins wait for
workers, workers wait for nothing, and a scope unwinds once its workers have
ended. The other modules make no liveness claim: a caller may stop at any time.

## 4. What is proved

All constants are arbitrary within the named assumptions, which repeat the
`assert!`s and const checks of the code.

The type invariants of `DMuxTree`, `CMuxTree`, `FirstDim`, `Prg` and `Gadget` are
proved (`TypeCorrect`), as are in-place safety (`InPlaceSafety`) and the selected
leaf of `CMuxTree` and `WorkerProgress` of `FirstDim`; no run repeats them.

* **`KernelProofs`**, the trees (`DMuxTree`, `CMuxTree`, whose theorems have names in
  `Cmux`, and `Selection`) - type correctness, in-place safety and correctness for every depth. Correctness alone is not inductive: it speaks
  about the end. The strengthening says of every slot, in the middle of a level,
  whether it still holds a node of the level before (and which) or already one of
  this level. It holds because `dmux_tree` visits parents downwards and writes to
  2k and 2k + 1, which are never below an unread parent, and `cmux_tree` visits
  pairs upwards and writes to k, never above a pair that is read. `CellCorrect`
  (`CellSelected`) puts the two together: on a one-hot vector the recursive sum of
  the first dimension has one solution, 0 up to row alpha and that row's cell from
  there on (a least row where two solutions differ cannot exist), so the second
  tree, instantiated with its invariant, starts on the cells of row alpha.
* **`KernelProofs`**, the first dimension (`FirstDim`) - `RangesTile` is inductive together with the value of the
  spawn iterator (a multiple of the chunk, the end of the last range); from it
  follow the bound on workers (a product of chunk and count against J) and, with
  `WorkerProgress`, that concatenation in spawn order is the serial answer.
* **`PrimitiveProofs`**, the generator (`Prg`, `Sampling` and `Wire`) - the invariant relates the cursor and the block counter to a
  position in the stream: buffered bytes are a window of it, and a call in
  progress has copied the bytes from its start to that position. `Refinement`
  maps every step to a step or stutter of `ByteStream`. `SamplingUnbiased`
  (`Unbiased`) needs no state: the byte strings of an attempt are the numbers below
  a multiple of the mask's range, little-endian, and adding v to such a number takes
  the strings on which 0 is drawn one to one to those on which v is.
  `SamplersFollowStream` (`SamplesFollowStream`): the invariant gives, as a witness, the
  offset in the stream at which each draw began, says that consecutive draws touch,
  and that a draw in progress has rejected a whole number of attempts since its own;
  the property's recursion over a tape has one solution, and those offsets are it.
  It rests on `WholeCallsPrg`: sampling and encoding steps are steps of the generator
  or leave it alone, so the invariants of `Prg` hold of the composition.
  `CodecInverts` (`DecodesOnlyEncodings`): little-endian bytes and the numbers below
  a power of 256 correspond one to one, the flattened encoding of a vector is known
  through its prefixes, and the length checks of the decoders, in wrapping `usize`
  arithmetic, accept no length that is not that of an encoding, refuse none that is,
  and name the right length as long as a `usize` can hold it.
* **`PrimitiveProofs`**, the transform (`Ntt`) - for every degree, every operands and every
  prime modulus. `RootsAreFound` (`OddPowersAreRoots`): the N-th power of the root that the search
  accepts squares to 1 and is not 1, so it is -1, a prime having no divisors of zero; its
  odd powers below 2N then differ, by the order the search has checked. `LanesAreResidues`
  (`LanesHoldResidues`): a residue modulo X^2m - z^2 is an even part plus z times an odd
  part modulo X^m - z, and minus modulo X^m + z (`ButterflySplits`), so a butterfly takes two
  residues one level on and an inverse butterfly takes them back, doubled; that the table
  gives it the right z is that the reversal of 2b or 2b + 1 is the reversal of b, with a bit
  in front. The invariant is the property with the twiddle index spelt out, stage by stage.
  `TransformIsExact` (`ProductExact`): at the last level a residue is the value at a root of X^N + 1, and
  the value of a product is the product of the values, because the powers of a root in
  descending order are an eigenvector of multiplication by X (`ValueOfProduct`, in
  `RingProofs`). N has an inverse because 2N divides Q - 1. That Q is a prime is a
  hypothesis about the initial state: `check_ntt` does not ask for it (section 6).
* **`GadgetScaleProofs`** (`GadgetScale` with `Rns` and `Wide`) - four theorems about the
  scaling of a coefficient, for every word length, all moduli, scales and divisors.
  `InversesExact` (`InverseOrSentinel`): both Euclidean loops keep the common divisors
  of their arguments, and `mod_inverse_u64` keeps two combinations of them; when the
  remainder is 0, the other number is 1 exactly when there is no common divisor, and
  then its combination is the inverse. `ResiduesStandForResult` (`ResiduesExact`): a pair
  holds the residues of the exact result, and Garner gives back any number modulo Q
  from its residues, by the inverse the basis was built with.
  `DivisionRoundsExactly` (`RoundedExactly`): at the top of a turn the quotient so far
  is k times the power of two that is left and the dividend without its last bits
  is k times the divisor plus the remainder; what `DivisionExact` leaves out is that
  k is 0 as long as the high word lasts, because the high word is below the divisor,
  which is where the bound on the magnitude is used. `ScalingNearest` (`ScaledNearest`)
  puts the two together over the pair that stays in place while its coefficient is
  divided.
* **`ViaProofs`** (`Via`, `ViaServer` and `ViaClient`) - the first half is about the stages
  of the server on any ciphertexts of the right types: what a column bit of a converted
  query is, that `DmuxTree` is one-hot, `FirstDimColumns` a row, `CmuxTree` a leaf, a fold
  of `Crot` a rotation by the number its bits spell, and the repacking tree the
  interleaving of its bit-reversed leaves. The lemmas end in `QueryAnswered` (an honest
  query's answer holds the polynomial asked for, rotated) and `BatchAnswered` (a batch's
  reply holds, T apart, the coefficients of its T records). Before them, the digits of an
  index: `DecomposeInverts`, an index is determined by its row, column and slot, from
  division with remainder.

  The second half are four theorems about the whole protocol, for every tower of
  degrees, shape of the database and number of requests. `NothingDropped`
  (`RecordsStored`): the database is written only by `ServerSetup`, under its
  capacity guard, and slot extraction undoes `SetupDb` by `DecomposeInverts`.
  `RefusedOnlyOnMismatch` (`FailsOnlyOnMismatch`): `ceil_log2` and
  `trailing_zeros` agree on powers of two and tell them apart, so a length tells
  the degree; the invariant says of every waiting message that it holds at least
  one query and that its queries have the length of their kind.
  `RetrievalIsRetrieval` (`RefinesPir`): every step is one of `Pir` under the mapping,
  or a stutter. The invariant `PirInv` adds to the above that a waiting message is the
  query its client built for the index on record, that the server holds the database
  `SetupDb` makes of its records, and that an answered request holds the reply of
  `QueryAnswered` or `BatchAnswered`; `Recover` then reads the records out of it. A
  refusal needs the other direction: what is turned down was never answered, so the
  abstract request is still open. `TypesHold` (`TypeOK`): what a
  request holds at each stage of its life. `StageInv` says that nothing is sent before
  the client is set up and nothing answered before the server is; `TypeInv` adds the
  types. That an answer without an error is a polynomial of the answer ring, never the
  garbage of an undefined product, is part of what serving right means, so `TypeInv` is
  kept only together with `PirInv`; that a recovered batch is one record per index then
  follows from how `DeinterleaveBatch` cuts it.
* **`ConversionProofs`** (`Conversion` and `StepKeys`) - for every degree N, secret, mask,
  message and repacking. Two invariants. `KeyInv` says of the key material that a builder
  has written exactly the slots before its place, each from its own draw, that nothing
  reads a key before it is whole, and that the fields of a repacking are those of the
  cascade key up to a shift of the draws; `KeysAligned` (`KeysAlign`) follows. `CtInv` says
  of the ciphertexts that the i-th of a level decrypts to the plaintext of its place in the
  tree, in closed form (`Plain`: the leaf whose number is the place of the slot,
  bit-reversed), and of a conversion in progress that accumulator and masks still under
  their old keys together decrypt to what is converted. It is the level that makes
  `PhaseIsCarried` (`PhaseCarried`) inductive, because the keys of a mask are found by
  its degree, and it ends in `PackedInPlace` (`Packed`) and, by way of the conversion
  key, in `HalvesOfRgswAgree` (`RgswHalvesAgree`).
* **`RingProofs`** (`Ring`) - what the code takes for granted, and the two modules around
  it rest on: that Z_P[X]/(X^n + 1) as `Ring` computes it is a commutative ring (`MulAssoc`,
  `MulComm`, `MulOne`, distributivity), that embedding into twice the degree is a map of
  rings (`IotaMul`), that linear maps that agree on the powers of X agree (`LinearEqual`).
  `ExtractionProjects` (in `ConversionProofs`) follows: the projections of the mask, in
  reverse order and turned by one place, times those of the secret add up to the
  projection of the product. Its second half is about noise: `Close(w, m, u, v)` says that
  u and v agree up to a multiple of w and an error of at most m; closeness is added,
  scaled, chained and carried through a product of polynomials (`StepsClose`: the
  coefficients of one factor, added up without sign, times the error of the other) and
  through a gadget product (`GadgetNear`: every digit times the error of its sample, and
  what the digits leave of the input times the message).
* **`ResponseProofs`** (`Response` and `KeyReuse`) - for all moduli, degrees, secrets,
  masks, messages and errors, whatever their size. The inductive invariant
  (`ResponseInvariant`, of `RInv` and `KeyInv`) says of each stage how its ciphertext was
  made from that of the stage before, and of the ring switch that the accumulator, the
  terms to come and the errors so far together decrypt to slot 0 of the ciphertext;
  without the middle of the loop nothing is known at its end. `RingSwitchCarries`
  (`SwitchCarries`): slot 0 of a product is the sum of the products of the slots, where
  the projections of the mask multiplied by X^k meet those of the secret divided by X^k.
  `AnswerIsClose` (`AnswerNoise`): a chain of approximations, one link per rescale and
  one for the switch, each in units of the moduli it joins, scaled to the common unit
  2 Q2 Q3 Q4. Half a unit of rounding at a mask weighs as much as the secret's
  coefficients added up. `ResponseRecovered` (`Recovered`): decoding rounds to the
  nearest multiple of Q4 / p, and the budget keeps the phase within half of that,
  the rounding of Delta included. `SwitchedKeyIsClose` (`SwitchedKeySelects`): the
  entries of the gadget at Q1 and at Q2 are rounded from the same power of the base, so
  that a switched sample holds the entry at Q2 up to half a unit of each
  (`SwitchedSample`); the digits of a coefficient, times the entries, add up to it
  (`DigitSum`, along the decomposition); the phase of a gadget product is the sum of the
  digits times the phases of the samples (`GadgetPhase`). With exact messages, -S1 and 1
  or 0 and 0, the gate would yield the phase of the selected input (`GateIdeal`), and the
  slack adds up the rest.
* **`KernelProofs`**, the word arithmetic (`Zq`) - every operation is exact and canonical for every word size.
  The core lemma: the Barrett quotient estimate is the quotient or one less, so
  the wrapped difference is below 2q and survives the cut to a word; `UmulHi` is
  the exact high half. `RekeyPreserves` (`RekeyKeepsSmall`) is about the centring rekeying
  uses, which negates the complement whether or not it selects it: the negation is
  exact except at half a word, where it is not selected, and there a debug build stops.
* **`GadgetProofs`** - `NoiseBounded`. The invariant of a product in progress: the
  accumulator is, modulo q, the message times the part of the input peeled off so
  far, plus an error bounded by digits times sample errors and gadget rounding;
  the remaining scratch is the quotient of the scaled input, bounded so that the
  last carry is at most one.

The recursive operators of `ViaServer` (levels of a tree, folds over bits, the
repacking schedule) are recursive functions, which the prover knows as the unique
solution of their equation. The lemmas therefore guess a closed form, show that it
solves the equation, and conclude that it is the function; where a value is needed by
induction over levels or bits, it is done on the set of levels at which the claim holds,
by a least level at which it does not. That takes the place of the library's induction
theorems, which need an operator as a parameter.

Some assumptions serve the proofs alone. `GarbageAssumption`: the outcome of an undefined
product is no bit and no polynomial. `RequestAssumption`: the indexes a
caller names are natural numbers (`usize` in the code). `PowerAssumption` of `Prg` and
`GadgetScale`: a power of two is twice the one before, up to the largest exponent used;
the provers do not know exponentiation, and TLC evaluates the assumption on every run.
`CallsAssumption` (a sampler call asks for draws below bounds the generator has) and `WireAssumption`
(a header and a packet fit `isize`, which Rust guarantees of every allocation) bound
the inputs of `Sampling` and `Wire`. `TwosAssumption` of `Ntt` is about powers of two like
`PowerAssumption`; `OperandsAssumption` says that operands are polynomials with
coefficients below the modulus, which the element types keep.

A sum over a set (`Norm1`, a fold of the community modules) is a recursive function
there too; `FoldSum` shows that it is the sum in order.

Only model-checked: `RefinesQuotientRing` of `RingPoly`, which is long rather than out of
reach. Out of the prover's reach and left to TLC: `Ends` and `CallsReturn`
(liveness under fairness).

## 5. Not modelled, and why

* Noise distributions and the estimator (`via-estimator`): floating point. The
  formula of the Gaussian sampler is a table.
* SHAKE itself; the `todo!()` serialiser of PRG-compressed keys, which is a panic.
* The server's scheme traits and the newtypes around prepared keys
  (`via-server/src/scheme.rs`, `prepared_keys.rs`): dispatch at compile time, no
  operation of their own. Zeroing of secrets on drop: nothing reads them after.
* The numbers of the presets: the checks on them are modelled, the values are data.
* The forward direction of `crot`, and evaluation-form copies of gadget products:
  the first has no caller, the others compute what the modelled ones do.
* The stack-size knob of `first_dim` and products of dimensions near 2^64: no
  reachable state of a running server depends on them.
* Tests, benchmarks and fuzz targets. More than four fifths of the lines of the
  repository are these, comments and type declarations; the bodies of its
  functions come to about 6200 lines, most of which a definition here stands for.

## 6. Findings

Each is a run that checks the documented statement and ends in a counterexample.

* `codec_doc`: `format.rs` documents `BufferTooShort` whenever fewer than
  `count * 8` bytes remain (lines 53 and 71). The count comes from the buffer, and
  `offset + count * 8` (line 73) is unchecked: when it wraps, a debug build panics,
  and a release build panics in `Vec::with_capacity` or reports the wrapped sum as
  the length needed. `DecodesOnlyEncodings` says what holds nevertheless: no values
  are ever made up, and below the wrap the length reported is the right one.
* `zq_doc`: `modulus.rs` documents `to_centered_i64_ct` as having the same output as
  `to_centered_i64` (lines 179-180). It negates the complement unconditionally (line
  207): for a zero modulo 2^63, a power of two both `PowerOfTwoModulus` and
  `DynModulus` accept, that is the negation of `i64::MIN`, at which a debug build
  panics. `rekey_secret_key` centres with it. A release build wraps and selects the
  right value, and no preset uses that modulus.
* `gadget_doc`: `reconstruct` documents an error bound of half the smallest gadget
  entry. The entries are themselves rounded, which adds up to half a digit per
  level; `keyswitch.rs` and a fuzz target budget for it, `gadget.rs` does not.

Remarks from reading, without a run:

* `uniform_below` documents a mask "down to the next power of two above (or equal
  to)" the bound; for a bound that is a power of two the code masks with one bit
  more and rejects half of all attempts. The result is unbiased all the same
  (`Unbiased`).
* `ntt.rs` asks of a modulus only that q = 1 (mod 2n). For a composite one this
  does not make the root found a root of X^n + 1 (85 and n = 2: the root is 4, with
  square 16). The moduli of the parameter sets are prime; `Ntt` is checked for
  a prime and for a modulus that has no such root, and proved for every prime.
* `gadget_depth_2` is documented as the number of rows the CMux and CRot trees use
  (`presets.rs:14`, `wire/query.rs:83`, `params.rs:90`); the server uses all
  `L_QUERY` rows for every group, and nothing reads the field after its checks.
* A debug build compares the run-time parameters with the preset, but not the
  record degree, the batch size, the moduli or the base of the ring-switch key; a
  release build compares nothing (`MatchesPreset`).
* `repack.rs:305` calls the keys of a repacking a byte-identical suffix of the
  cascade key. They are when they are borrowed from it; a generated schedule is
  only when the generator stands where it did for the suffix.
* `bounded.rs` says debug builds catch a bound that is too large by its cast; an
  `as` cast is not checked in any build.

## 7. What is left

1. Models: gadget digits in the ring switch of `Response`, in place of an outcome
   drawn from a set; ciphertexts with masks and noise in `Via`.
2. Proofs: the refinement of `QuotientRing` by `RingPoly`.
