------------------------------ MODULE Sampling ------------------------------
(***************************************************************************)
(* The samplers of via-primitives (sampling/*.rs and the random functions  *)
(* of the algebra) as their callers run them: each call draws its samples  *)
(* one uniform_below after the other from the caller's generator (Prg),    *)
(* and maps the draws to coefficients.  Zq::random has a rejection loop of *)
(* its own on fill_bytes, the same as uniform_below's for q >= 2.          *)
(*                                                                         *)
(* The floating-point formula of the Gaussian is the table Gaussian; i32   *)
(* has I32Bits bits.  A call is [sampler, dist, n, q]: dist is the bound   *)
(* of a bounded_uniform call or the distribution sample_into is called on, *)
(* q the modulus of a uniform call or of the lift that follows, a pair of  *)
(* moduli for the residue number system, 0 for none.                       *)
(***************************************************************************)
EXTENDS Prg

CONSTANTS
  Calls,       \* the sampler calls made
  I32Bits,     \* bits of an i32 (32)
  GaussBound,  \* TWO_POW_32
  Gaussian     \* Gaussian[rb1][rb2]: the rounded sample of two draws

ASSUME SamplingCallsAssumption ==
  /\ GaussBound \in Nat \ {0}
  /\ Gaussian \in [0..(GaussBound - 1) -> [0..(GaussBound - 1) -> Int]]
  /\ I32Bits \in Nat \ {0}
  /\ 2 ^ (I32Bits - 1) \in Nat \ {0} /\ 2 ^ I32Bits = 2 * 2 ^ (I32Bits - 1)

VARIABLES
  call,     \* the sampler call in progress, or the last one
  status,   \* "none", "calling" or "returned"
  draws,    \* what uniform_below has returned to it
  samples,  \* what the last sampler call returned
  begun     \* the bytes the generator had handed out when it began

samplingVars == <<call, status, draws, samples, begun>>

NoCall == [sampler |-> "", dist |-> [kind |-> ""], n |-> 0, q |-> 0]

SamplingInit ==
  /\ Init
  /\ call = NoCall
  /\ status = "none"
  /\ draws = <<>> /\ samples = <<>> /\ begun = 0

-----------------------------------------------------------------------------
\* The distribution a call samples: each sampler is that of one, sample_into
\* that of its argument.
Kind(c) == c.dist.kind

\* The draws of one sample: two for the Gaussian, one per prime for RnsZq.
DrawsPerSample(c) ==
  IF Kind(c) = "gaussian" THEN 2 ELSE IF c.sampler = "rns_random" THEN Len(c.q) ELSE 1

\* Mutant: PolyRns::random fills one row after the other.
RowByRowBound(c, i) ==
  CASE Kind(c) = "ternary" -> 3
    [] Kind(c) = "bounded" -> 2 * c.dist.bound + 1
    [] Kind(c) = "gaussian" -> GaussBound
    [] c.sampler = "rns_random" -> c.q[((i - 1) \div c.n) + 1]
    [] OTHER -> c.q

\* The bound of draw i: the samplers' calls of uniform_below.  PolyRns::random
\* draws limb 0 and limb 1 of a coefficient before the next coefficient.
DrawBound(c, i) ==
  CASE Kind(c) = "ternary" -> 3
    [] Kind(c) = "bounded" -> 2 * c.dist.bound + 1
    [] Kind(c) = "gaussian" -> GaussBound
    [] c.sampler = "rns_random" -> c.q[((i - 1) % Len(c.q)) + 1]
    [] OTHER -> c.q

\* v as i32, and the wrapping subtraction.
AsI32(v) == ((v + 2 ^ (I32Bits - 1)) % 2 ^ I32Bits) - 2 ^ (I32Bits - 1)
WrappingSub(a, b) == AsI32(a - b)

\* The coefficient made of a draw: ternary's match, the shift of
\* bounded_uniform in i32 and that of sample_into in i64.
Coefficient(c, draw) ==
  CASE Kind(c) = "ternary" -> (CASE draw = 0 -> 0 [] draw = 1 -> 1 [] draw = 2 -> -1)
    [] Kind(c) = "bounded" ->
         IF c.sampler = "bounded_uniform"
         THEN WrappingSub(AsI32(draw), AsI32(c.dist.bound))
         ELSE draw - c.dist.bound
    [] OTHER -> draw

\* lift_centered_i8 / i32 / i64_into_zq: reduce_i64 of each.
LiftCentered(q, v) == IF q = 0 THEN v ELSE v % q

Output(c) ==
  [i \in 1..c.n |->
    CASE Kind(c) = "gaussian" -> LiftCentered(c.q, Gaussian[draws[2 * i - 1]][draws[2 * i]])
      [] c.sampler = "rns_random" -> SubSeq(draws, 2 * i - 1, 2 * i)
      [] Kind(c) = "uniform" /\ c.sampler # "rns_random" -> draws[i]
      [] OTHER -> LiftCentered(c.q, Coefficient(c, draws[i]))]

NumDraws(c) == c.n * DrawsPerSample(c)

\* The residue number system has two moduli (RnsBasis); uniform_below is
\* called with bounds of a u64, none of them zero.
ASSUME CallsAssumption ==
  \A c \in Calls :
    /\ c.n \in Nat
    /\ Kind(c) \in {"ternary", "bounded", "gaussian", "uniform"}
    /\ Kind(c) = "bounded" => c.dist.bound \in Nat
    /\ c.sampler = "rns_random" => Kind(c) = "uniform" /\ c.q \in [1..2 -> Nat]
    /\ \A i \in 1..NumDraws(c) : DrawBound(c, i) \in Bounds

-----------------------------------------------------------------------------
\* A sampler is called on the generator as it stands; regenerate_masks makes
\* one of its own.
SamplerCall(c) ==
  /\ ~busy /\ status # "calling"
  /\ c.sampler = "regenerate_masks" => counter = 0
  /\ call' = c
  /\ status' = "calling"
  /\ draws' = <<>>
  /\ begun' = Consumed
  /\ UNCHANGED <<vars, samples>>

\* The loop of the sampler asks for its next draw.
NextDraw ==
  /\ status = "calling" /\ ~busy
  /\ Len(draws) < NumDraws(call)
  /\ LET b == DrawBound(call, Len(draws) + 1)
     IN  IF b = 1 THEN UniformBelowOne /\ draws' = draws \o result'
         ELSE Call(NBytes(b), b) /\ UNCHANGED draws
  /\ UNCHANGED <<call, status, samples, begun>>

SamplerReturn ==
  /\ status = "calling" /\ ~busy
  /\ Len(draws) = NumDraws(call)
  /\ samples' = Output(call)
  /\ status' = "returned"
  /\ draws' = <<>>
  /\ UNCHANGED <<vars, call, begun>>

\* A direct call, between two samplers; it forgets the last one's samples.
DirectCall ==
  /\ status # "calling"
  /\ FillBytes \/ UniformBelow \/ UniformBelowOne
  /\ samples' = <<>> /\ begun' = 0
  /\ call' = NoCall
  /\ status' = "none"
  /\ UNCHANGED draws

Generate ==
  \/ (RefillAndCopy \/ Copy \/ ReturnBytes \/ Reject) /\ UNCHANGED samplingVars
  \/ /\ ReturnValue
     /\ draws' = IF status = "calling" THEN draws \o result' ELSE draws
     /\ UNCHANGED <<call, status, samples, begun>>

SamplingNext ==
  \/ \E c \in Calls : SamplerCall(c)
  \/ NextDraw \/ SamplerReturn
  \/ DirectCall \/ Generate

-----------------------------------------------------------------------------
(***************************************************************************)
(* Property.                                                               *)
(***************************************************************************)

\* The number of attempts uniform_below(b) makes from offset at: the first
\* candidate below b ends it.
Attempts(b, at) ==
  LET candidate(k) == Draw([j \in 1..NBytes(b) |-> Stream[(at + k * NBytes(b)) + j - 1]], b)
  IN  CHOOSE k \in 0..(BLOCK_LEN * MaxBlocks) :
        candidate(k) < b /\ \A j \in 0..(k - 1) : candidate(j) >= b

\* One value below b read from offset at, and the offset after it.
One(b, at) ==
  IF b = 1 THEN [value |-> 0, after |-> at]
  ELSE LET k == Attempts(b, at)
       IN  [value |-> Draw([j \in 1..NBytes(b) |-> Stream[(at + k * NBytes(b)) + j - 1]], b),
            after |-> at + (k + 1) * NBytes(b)]

\* One sample of the distribution of c read from offset at: a residue modulo 3
\* or 2B + 1 nearest to zero, the pair of a Gaussian, one value per modulus.
Sample(c, at) ==
  LET Shifted(half) ==
        LET first == One(2 * half + 1, at)
        IN  [value |-> first.value - half, after |-> first.after]
      Pair(b, d) == LET x == One(b, at) y == One(d, x.after)
                    IN  [value |-> <<x.value, y.value>>, after |-> y.after]
  IN  CASE Kind(c) = "ternary" ->
             LET first == One(3, at)
             IN  [value |-> LiftCentered(c.q, IF first.value = 2 THEN -1 ELSE first.value),
                  after |-> first.after]
        [] Kind(c) = "bounded" ->
             [Shifted(c.dist.bound) EXCEPT !.value = LiftCentered(c.q, @)]
        [] Kind(c) = "gaussian" ->
             LET two == Pair(GaussBound, GaussBound)
             IN  [value |-> LiftCentered(c.q, Gaussian[two.value[1]][two.value[2]]), after |-> two.after]
        [] c.sampler = "rns_random" -> Pair(c.q[1], c.q[2])
        [] OTHER -> One(c.q, at)

\* A sampler call is its samples one by one: sample i continues the stream
\* where sample i - 1 left it, whatever was drawn before and however the draws
\* fall on blocks and rejections; nothing else is read, nothing for an empty
\* output or a bound of one.  So sample_into agrees with the sampler it stands
\* for ("matches the underlying sampler byte-for-byte", distribution.rs), and
\* regenerate_masks with the draws of the sender.  bounded_uniform is excepted
\* where its bound does not fit an i32.
SamplesFollowStream ==
  status = "returned" =>
    LET at[i \in 0..call.n] == IF i = 0 THEN begun ELSE Sample(call, at[i - 1]).after
    IN  /\ Consumed = at[call.n]
        /\ \A i \in 1..call.n :
             \/ samples[i] = Sample(call, at[i - 1]).value
             \/ /\ call.sampler = "bounded_uniform"
                /\ call.dist.bound >= 2 ^ (I32Bits - 1)
=============================================================================
