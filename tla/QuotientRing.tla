---------------------------- MODULE QuotientRing ----------------------------
(***************************************************************************)
(* What the ring types promise: every register holds an element of         *)
(* Z_q[X] / (X^n + 1), and every call is the operation it is named after.  *)
(* There is one modulus q, no residues, no transform and no word here.     *)
(***************************************************************************)
EXTENDS Integers, FiniteSetsExt

CONSTANT Reg

VARIABLES
  elem,  \* elem[r]: the element in register r, [q, n, c]
  call   \* the last call and what it returned

vars == <<elem, call>>

Other(r) == CHOOSE s \in Reg : s # r

Sum(n, term(_)) == MapThenSumSet(term, 0..(n - 1))

\* The coefficient of X^x in a product: X^n is -1.
Product(f, g, n, q) ==
  [x \in 0..(n - 1) |->
    Sum(n, LAMBDA i : IF i <= x THEN f[i] * g[x - i] ELSE -(f[i] * g[(n + x) - i])) % q]

\* The product with X^k.
Shifted(f, n, q, k) ==
  [x \in 0..(n - 1) |->
    LET i == (x - k) % n
    IN  (IF ((i + k) \div n) % 2 = 0 THEN f[i] ELSE -f[i]) % q]

\* f(X^d) * X^slot.
Substituted(f, n, large, slot) ==
  LET d == large \div n
  IN  [x \in 0..(large - 1) |-> IF x % d = slot THEN f[x \div d] ELSE 0]

Slot(f, n, small, slot) == [i \in 0..(small - 1) |-> f[(n \div small) * i + slot]]

Centred(c, q) == IF 2 * c > q THEN c - q ELSE c

Scalar(op, a, b, q) ==
  CASE op = "add" -> (a + b) % q
    [] op = "sub" -> (a - b) % q
    [] op \in {"mul", "scale"} -> (a * b) % q
    [] op = "neg" -> (0 - a) % q

Init == \A r \in Reg : \A x \in DOMAIN elem[r].c : elem[r].c[x] = 0

\* Register r takes the coefficients c of degree n; the ring stays.
Becomes(r, n, c) == elem' = [elem EXCEPT ![r] = [q |-> elem[r].q, n |-> n, c |-> c]]

Coefficientwise(r, value(_)) == Becomes(r, elem[r].n, [x \in 0..(elem[r].n - 1) |-> value(x)])

Compute(r, op, arg) ==
  LET f == elem[r].c
      q == elem[r].q
      n == elem[r].n
      g == elem[Other(r)].c
  IN  CASE op = "load" -> Coefficientwise(r, LAMBDA x : arg[x] % q)
        [] op = "add" -> Coefficientwise(r, LAMBDA x : (f[x] + g[x]) % q)
        [] op = "sub" -> Coefficientwise(r, LAMBDA x : (f[x] - g[x]) % q)
        [] op = "neg" -> Coefficientwise(r, LAMBDA x : (0 - f[x]) % q)
        [] op = "scale" -> Coefficientwise(r, LAMBDA x : (arg * f[x]) % q)
        [] op = "mul" -> Becomes(r, n, Product(f, g, n, q))
        [] op = "rotate" -> Becomes(r, n, Shifted(f, n, q, arg))
        [] op = "convert" -> UNCHANGED elem
        [] op = "select" -> IF arg = 1 THEN Becomes(r, n, g) ELSE UNCHANGED elem
        [] op = "set" -> Coefficientwise(r, LAMBDA x :
             IF x # arg.i THEN f[x]
             ELSE Scalar(arg.op, f[x], IF arg.op = "scale" THEN arg.j ELSE g[arg.j], q))
        [] op = "embed" -> Becomes(r, arg.n, Substituted(f, n, arg.n, arg.slot))
        [] op = "project" -> Becomes(r, arg.n, Slot(f, n, arg.n, arg.slot))
        [] op = "pack" -> Becomes(r, 2 * n, [x \in 0..(2 * n - 1) |->
             (IF x % 2 = 0 THEN f ELSE g)[x \div 2]])
        [] op = "unpack" -> elem' = [s \in Reg |->
             [q |-> elem[s].q, n |-> n \div 2, c |-> Slot(f, n, n \div 2, IF s = r THEN 0 ELSE 1)]]

\* What a read returns; ct_eq says something of one ring only.
Returns(r, op, out) ==
  LET f == elem[r]
      g == elem[Other(r)]
  IN  CASE op = "values" -> out = f.c
        [] op = "centred" -> out = [x \in DOMAIN f.c |-> Centred(f.c[x], f.q)]
        [] op = "eq" -> out = <<f = g>>
        [] op = "ct_eq" -> f.q = g.q => out = <<f.c = g.c>>

Reads == {"values", "centred", "eq", "ct_eq"}

\* A call that panics leaves nothing behind: the operands are of two rings, or
\* a slot does not exist.
Rejects(r, op, arg) ==
  CASE op \in {"add", "sub", "mul", "select", "pack", "unpack"} -> elem[r].q # elem[Other(r)].q
    [] op = "set" -> arg.op # "scale" /\ arg.op # "neg" /\ elem[r].q # elem[Other(r)].q
    [] op = "embed" -> arg.slot >= arg.n \div elem[r].n
    [] op = "project" -> arg.slot >= elem[r].n \div arg.n
    [] OTHER -> FALSE

Next ==
  LET c == call'
  IN  /\ c.panic = Rejects(c.r, c.op, c.arg)
      /\ IF c.panic THEN UNCHANGED elem
         ELSE IF c.op \in Reads THEN Returns(c.r, c.op, c.out) /\ UNCHANGED elem
         ELSE Compute(c.r, c.op, c.arg)

Spec == Init /\ [][Next]_vars
=============================================================================
