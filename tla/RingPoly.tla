------------------------------ MODULE RingPoly ------------------------------
(***************************************************************************)
(* The ring types behind their two traits (ring/abstraction.rs and         *)
(* ring/ntt_abstraction.rs of via-primitives), as the rest of the crate    *)
(* calls them: two registers hold elements of Poly or PolyRns, in          *)
(* coefficient or in evaluation form, and each call reads them and writes  *)
(* one.  Calls that Rust's types rule out (two degrees, a form without the *)
(* operation, two moduli fixed by the type) are not made.                  *)
(***************************************************************************)
EXTENDS PolyRnsElement

CONSTANTS
  Pairings,   \* what the two registers start with: pairs of [m, n]
  Data,       \* Data[n]: coefficients the first register is built from
  OtherData,  \* OtherData[n]: those of the second
  Scalars,    \* words tried as scalars
  Shifts,     \* exponents tried by mul_x_pow
  MaxCalls    \* bound on the calls after the construction

ASSUME RingPolyAssumption ==
  \A pair \in Pairings, r \in {1, 2} :
    LET m == pair[r].m
    IN  /\ pair[r].n \in Degrees
        /\ m.kind = "const" => m.q \in NttModuli
        /\ m.kind = "rns" => {m.q0, m.q1} \subseteq NttModuli /\ (m.q0 * m.inv) % m.q1 = 1

VARIABLES
  reg,    \* the registers
  call,   \* the last call, [op, r, arg, panic, out]
  calls   \* calls made

vars == <<reg, call, calls>>

Reg == {1, 2}

Other(r) == 3 - r

IsRns(f) == f.m.kind = "rns"

-----------------------------------------------------------------------------
\* RingPoly for Poly.
PolyFromCenteredI64s(m, n, samples) == PolyOf(m, n, "coeff", [x \in 0..(n - 1) |-> samples[x] % m.q])

\* The samples fit an i64, which the debug assertion asks for.
PolyFromCenteredI128s(m, n, samples) == PolyOf(m, n, "coeff", [x \in 0..(n - 1) |-> samples[x] % m.q])

PolyFromU128Coeffs(m, n, values) == PolyOf(m, n, "coeff", [x \in 0..(n - 1) |-> values[x] % m.q])

\* RingPoly for PolyRns.
RnsFromCenteredI64s(b, n, samples) ==
  RnsOf(b, n, "coeff", <<[x \in 0..(n - 1) |-> samples[x] % b.q0], [x \in 0..(n - 1) |-> samples[x] % b.q1]>>)

RnsFromCenteredI128s(b, n, samples) ==
  LET row(p) == [x \in 0..(n - 1) |-> RnsZqFromI128(b, samples[x])[p]]
  IN  RnsOf(b, n, "coeff", <<row(1), row(2)>>)

PolyToCentered(f, ct) ==
  IF ct THEN ToCenteredCtSlice(f.m.q, f.values) ELSE ToCenteredSlice(f.m.q, f.values)

RnsToCentered(f, ct) ==
  IF ct THEN ToCenteredCtSlices(f.m, f.values) ELSE ToCenteredSlices(f.m, f.values)

\* RingPolyEval: an element whose modulus has no transform is its own
\* evaluation form, and multiplies as a coefficient form.
ToEval(f) ==
  CASE f.m.kind = "rns" -> RnsIntoEval(f)
    [] f.m.kind = "const" -> PolyIntoEval(f)
    [] OTHER -> f

FromEval(f) ==
  CASE f.m.kind = "rns" -> RnsIntoCoeff(f)
    [] f.m.kind = "const" -> PolyIntoCoeff(f)
    [] OTHER -> f

-----------------------------------------------------------------------------
Operate(op, f, y) ==
  IF IsRns(f)
  THEN IF f.form = "coeff" THEN RnsCoeffOp(op, f, y) ELSE RnsEvalOp(op, f, y)
  ELSE IF f.form = "coeff" THEN PolyCoeffOp(op, f, y) ELSE PolyEvalOp(op, f, y)

ZeroOf(start) == IF start.m.kind = "rns" THEN RnsZero(start.m, start.n) ELSE PolyZero(start.m, start.n)

Called(op, r, arg) == [op |-> op, r |-> r, arg |-> arg, panic |-> FALSE, out |-> <<>>]

Init ==
  /\ \E pair \in Pairings : reg = [r \in Reg |-> ZeroOf(pair[r])]
  /\ call = Called("zero", 1, 0)
  /\ calls = 0

\* The first two calls build the operands.
Built == calls >= 2

MayCall == Built /\ calls < 2 + MaxCalls /\ ~call.panic

Done(op, r, arg) == call' = Called(op, r, arg) /\ calls' = calls + 1

Panics(op, r, arg) ==
  /\ call' = [Called(op, r, arg) EXCEPT !.panic = TRUE]
  /\ calls' = calls + 1
  /\ UNCHANGED reg

Write(r, f) == reg' = [reg EXCEPT ![r] = f]

Read(op, r, out) ==
  /\ call' = [Called(op, r, 0) EXCEPT !.out = out]
  /\ calls' = calls + 1
  /\ UNCHANGED reg

\* The constructors; the unsigned ones get the magnitudes.
Construct ==
  /\ ~Built
  /\ LET r == calls + 1
         m == reg[r].m
         n == reg[r].n
         data == IF r = 1 THEN Data[n] ELSE OtherData[n]
         magnitude == [x \in DOMAIN data |-> IF data[x] < 0 THEN -data[x] ELSE data[x]]
         unit == [x \in DOMAIN data |-> IF x = 0 THEN 1 ELSE 0]
         made == IF IsRns(reg[r])
                 THEN {<<RnsNew(m, n, magnitude, magnitude), magnitude>>,
                       <<RnsFromU128(m, n, magnitude), magnitude>>,
                       <<RnsFromCenteredI64s(m, n, data), data>>,
                       <<RnsFromCenteredI128s(m, n, data), data>>,
                       <<RnsOne(m, n), unit>>}
                 ELSE {<<PolyNew(m, n, magnitude), magnitude>>,
                       <<PolyFromU128Coeffs(m, n, magnitude), magnitude>>,
                       <<PolyFromCenteredI64s(m, n, data), data>>,
                       <<PolyFromCenteredI128s(m, n, data), data>>,
                       <<PolyOne(m, n), unit>>}
     IN  \E built \in made : Write(r, built[1]) /\ Done("load", r, built[2])

\* The two registers have one type.
SameType ==
  /\ reg[1].n = reg[2].n /\ reg[1].form = reg[2].form
  /\ {reg[1].m.kind, reg[2].m.kind} = {"dyn"} \/ reg[1].m = reg[2].m

SameModulus == reg[1].m = reg[2].m

Binary(op) ==
  /\ MayCall /\ SameType
  /\ IF SameModulus
     THEN Write(1, Operate(op, reg[1], reg[2])) /\ Done(op, 1, 0)
     ELSE Panics(op, 1, 0)

Negate == MayCall /\ Write(1, Operate("neg", reg[1], 0)) /\ Done("neg", 1, 0)

ScaleBy(k) == MayCall /\ Write(1, Operate("scale", reg[1], k)) /\ Done("scale", 1, k)

Rotate(k) ==
  /\ MayCall /\ reg[1].form = "coeff"
  /\ Write(1, IF IsRns(reg[1]) THEN RnsMulXPow(reg[1], k) ELSE PolyMulXPow(reg[1], k))
  /\ Done("rotate", 1, k)

Convert(r) ==
  /\ MayCall
  /\ Write(r, IF reg[r].form = "coeff" THEN ToEval(reg[r]) ELSE FromEval(reg[r]))
  /\ Done("convert", r, 0)

Embed(slot) ==
  /\ MayCall /\ reg[1].form = "coeff" /\ 2 * reg[1].n \in Degrees
  /\ LET n == 2 * reg[1].n
         arg == [n |-> n, slot |-> slot]
     IN  IF slot >= 2 THEN Panics("embed", 1, arg)
         ELSE /\ Write(1, IF IsRns(reg[1]) THEN RnsEmbedAt(reg[1], n, slot) ELSE PolyEmbedAt(reg[1], n, slot))
              /\ Done("embed", 1, arg)

Project(slot) ==
  /\ MayCall /\ reg[1].form = "coeff" /\ reg[1].n \div 2 \in Degrees
  /\ LET n == reg[1].n \div 2
         arg == [n |-> n, slot |-> slot]
     IN  IF slot >= 2 THEN Panics("project", 1, arg)
         ELSE /\ Write(1, IF IsRns(reg[1]) THEN RnsProjectAt(reg[1], n, slot) ELSE PolyProjectAt(reg[1], n, slot))
              /\ Done("project", 1, arg)

\* pack_slots of the two registers, and the flat form on their words in a row.
Pack ==
  /\ MayCall /\ SameType /\ reg[1].form = "coeff" /\ 2 * reg[1].n \in Degrees
  /\ IF ~SameModulus THEN Panics("pack", 1, 0)
     ELSE LET slots == [j \in 0..1 |-> reg[j + 1]]
          IN  /\ Write(1, IF IsRns(reg[1]) THEN RnsPackSlots(slots, 2) ELSE PolyPackSlots(slots, 2))
              /\ Done("pack", 1, 0)

PackSlice ==
  /\ MayCall /\ SameType /\ SameModulus /\ reg[1].form = "coeff" /\ 2 * reg[1].n \in Degrees
  /\ LET n == reg[1].n
         InRow(f, g) == [x \in 0..(2 * n - 1) |-> IF x < n THEN f[x] ELSE g[x - n]]
         v == reg[1].values
         w == reg[2].values
         packed == IF IsRns(reg[1])
                   THEN PackSlotsSlices(<<InRow(v[1], w[1]), InRow(v[2], w[2])>>, n, 2 * n)
                   ELSE PackSlotsSlice(InRow(v, w), n, 2 * n)
     IN  Write(1, [m |-> reg[1].m, n |-> 2 * n, form |-> "coeff", values |-> packed])
  /\ Done("pack", 1, 0)

\* unpack_slots into both registers, and the flat form.
Unpack ==
  /\ MayCall /\ SameType /\ reg[1].form = "coeff" /\ reg[1].n \div 2 \in Degrees
  /\ IF ~SameModulus THEN Panics("unpack", 1, 0)
     ELSE LET n == reg[1].n \div 2
              slots == IF IsRns(reg[1]) THEN RnsUnpackSlots(reg[1], n) ELSE PolyUnpackSlots(reg[1], n)
          IN  reg' = [r \in Reg |-> slots[r - 1]] /\ Done("unpack", 1, 0)

UnpackSlice ==
  /\ MayCall /\ SameType /\ SameModulus /\ reg[1].form = "coeff" /\ reg[1].n \div 2 \in Degrees
  /\ LET n == reg[1].n \div 2
         v == reg[1].values
         Cut(row, r) == [x \in 0..(n - 1) |-> row[(r - 1) * n + x]]
         flat == IF IsRns(reg[1]) THEN UnpackSlotsSlices(v, n, 2 * n) ELSE UnpackSlotsSlice(v, n, 2 * n)
     IN  reg' = [r \in Reg |-> [m |-> reg[1].m, n |-> n, form |-> "coeff",
           values |-> IF IsRns(reg[1]) THEN <<Cut(flat[1], r), Cut(flat[2], r)>> ELSE Cut(flat, r)]]
  /\ Done("unpack", 1, 0)

\* coeff of both, an operator of the scalars, set_coeff.
SetCoeff(op, i, j) ==
  /\ MayCall /\ SameType /\ reg[1].form = "coeff" /\ i < reg[1].n
  /\ op = "scale" \/ j < reg[2].n
  /\ LET f == reg[1]
         g == reg[2]
         arg == [op |-> op, i |-> i, j |-> j]
         v == IF IsRns(f)
              THEN RnsZqOp(op, f.m, <<f.values[1][i], f.values[2][i]>>,
                           IF op = "scale" THEN j ELSE <<g.values[1][j], g.values[2][j]>>)
              ELSE ZqOp(op, f.m.q, f.values[i], IF op = "scale" THEN j ELSE g.values[j])
     IN  IF ~SameModulus /\ op \in {"add", "sub", "mul"} THEN Panics("set", 1, arg)
         ELSE /\ Write(1, IF IsRns(f) THEN RnsSetCoeff(f, i, v) ELSE PolySetCoeff(f, i, v))
              /\ Done("set", 1, arg)

Select(choice) ==
  /\ MayCall /\ SameType
  /\ IF ~SameModulus THEN Panics("select", 1, choice)
     ELSE /\ Write(1, IF IsRns(reg[1]) THEN RnsSelect(reg[1], reg[2], choice)
                      ELSE PolySelect(reg[1], reg[2], choice))
          /\ Done("select", 1, choice)

ReadCentred(ct) ==
  /\ MayCall /\ reg[1].form = "coeff"
  /\ Read("centred", 1, IF IsRns(reg[1]) THEN RnsToCentered(reg[1], ct) ELSE PolyToCentered(reg[1], ct))

ReadU128 ==
  /\ MayCall /\ reg[1].form = "coeff"
  /\ Read("values", 1, IF IsRns(reg[1]) THEN ReconstructSlice(reg[1].m, reg[1].values) ELSE reg[1].values)

Compare(ct) ==
  /\ MayCall /\ SameType
  /\ Read(IF ct THEN "ct_eq" ELSE "eq", 1,
          << IF IsRns(reg[1])
             THEN IF ct THEN RnsCtEq(reg[1], reg[2]) ELSE RnsEq(reg[1], reg[2])
             ELSE IF ct THEN PolyCtEq(reg[1], reg[2]) ELSE PolyEq(reg[1], reg[2]) >>)

Next ==
  \/ Construct
  \/ \E op \in {"add", "sub", "mul"} : Binary(op)
  \/ Negate \/ \E k \in Scalars : ScaleBy(k)
  \/ \E k \in Shifts : Rotate(k)
  \/ \E r \in Reg : Convert(r)
  \/ \E slot \in 0..2 : Embed(slot) \/ Project(slot)
  \/ Pack \/ PackSlice \/ Unpack \/ UnpackSlice
  \/ \E op \in {"add", "sub", "mul", "neg"} : SetCoeff(op, 1, 0)
  \/ \E k \in Scalars : SetCoeff("scale", 0, k)
  \/ \E choice \in {0, 1} : Select(choice)
  \/ \E ct \in BOOLEAN : ReadCentred(ct) \/ Compare(ct)
  \/ ReadU128

Spec == Init /\ [][Next]_vars

-----------------------------------------------------------------------------
(***************************************************************************)
(* Properties.                                                             *)
(***************************************************************************)

RnsBases == {b \in {pair[r].m : pair \in Pairings, r \in Reg} : b.kind = "rns"}

\* The number below Q with the given residues.
WithResidues ==
  [b \in RnsBases |-> [a0 \in 0..(b.q0 - 1) |-> [a1 \in 0..(b.q1 - 1) |->
    CHOOSE c \in 0..(BigQ(b) - 1) : c % b.q0 = a0 /\ c % b.q1 = a1]]]

\* The ring element a register stands for: an evaluation form stands for the
\* polynomial that has these values.
Element(f) ==
  LET g == IF f.form = "eval" THEN FromEval(f) ELSE f
  IN  IF IsRns(f)
      THEN [q |-> BigQ(f.m), n |-> f.n,
            c |-> [x \in 0..(f.n - 1) |-> WithResidues[f.m][g.values[1][x]][g.values[2][x]]]]
      ELSE [q |-> f.m.q, n |-> f.n, c |-> g.values]

Abs == INSTANCE QuotientRing WITH elem <- [r \in Reg |-> Element(reg[r])]

\* Poly and PolyRns are one ring Z_q[X] / (X^n + 1): whatever the residues,
\* the form an element happens to be in and the kernel a call goes through
\* (schoolbook, slot by slot, strided or flat), a sequence of calls computes
\* and returns what the ring says, and panics on operands of two rings or a
\* slot out of range and on nothing else ("generic over the ring
\* representation", abstraction.rs; "multiplication in evaluation form").
RefinesQuotientRing == Abs!Spec
=============================================================================
