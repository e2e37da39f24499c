------------------------------ MODULE FirstDim ------------------------------
(***************************************************************************)
(* The first-dimension product of the server (first_dim in                 *)
(* via-server/src/first_dim.rs): J independent columns, each a             *)
(* multiply-accumulate of the I selection ciphertexts with one column of   *)
(* the database.  Above a work threshold the columns are fanned over       *)
(* scoped worker threads: the caller spawns one worker per chunk of        *)
(* columns, joins the handles in spawn order and concatenates what they    *)
(* return; below it the loop is serial.                                    *)
(*                                                                         *)
(* One column is one step of its worker, so every order in which workers   *)
(* make progress is a behaviour.  Spawning may fail and a worker may       *)
(* panic; either unwinds through the scope, which first waits for every    *)
(* worker that is still running.                                           *)
(***************************************************************************)
EXTENDS Integers, Sequences

CONSTANTS
  Rows,          \* I, the number of selection ciphertexts
  MaxCols,       \* bound on J
  Degree,        \* N1, the ring degree, a factor of the work estimate
  PAR_MIN_WORK,  \* the work threshold
  MaxCpus,       \* bound on available_parallelism()
  Sel,           \* Sel[i]: plaintext of the i-th selection ciphertext
  Cell           \* Cell[i][j]: the database cell, one integer

ASSUME FirstDimAssumption ==
  /\ Rows \in Nat \ {0}
  /\ MaxCols \in Nat \ {0}
  /\ Degree \in Nat \ {0}
  /\ PAR_MIN_WORK \in Nat
  /\ MaxCpus \in Nat \ {0}

VARIABLES
  cols,     \* J
  cpus,     \* available_parallelism(), 0 when the probe fails
  caller,   \* where the caller is
  lo,       \* next value of the spawn iterator (0..J).step_by(chunk)
  handles,  \* the workers, in spawn order
  joined,   \* how many handles the caller has joined
  results   \* the output vector

firstDimVars == <<cols, cpus, caller, lo, handles, joined, results>>

SetMin(a, b) == IF a <= b THEN a ELSE b

DivCeil(a, b) == (a + b - 1) \div b

\* The closure `column`: seeded from row 0, rows 1.. accumulated onto it.
Column(c) ==
  LET acc[i \in 0..(Rows - 1)] ==
        IF i = 0 THEN Cell[0][c] * Sel[0] ELSE acc[i - 1] + Cell[i][c] * Sel[i]
  IN  acc[Rows - 1]

work == Rows * cols * Degree

workers ==
  IF work >= PAR_MIN_WORK THEN SetMin(IF cpus = 0 THEN 1 ELSE cpus, cols) ELSE 1

goParallel == workers > 1

\* Mutant: the chunk is rounded down, so more workers than CPUs are spawned.
FloorChunk == cols \div workers

chunk == DivCeil(cols, workers)

\* The caller asserts that J > 0 (and that the row counts agree).
FirstDimInit ==
  /\ cols \in 1..MaxCols
  /\ cpus \in 0..MaxCpus
  /\ caller = IF goParallel THEN "spawn" ELSE "serial"
  /\ lo = 0
  /\ handles = <<>>
  /\ joined = 0
  /\ results = <<>>

\* Mutant: the last range is not clamped to J.
UnclampedHi == lo + chunk

\* The end of the range of the worker being spawned.
hi == SetMin(lo + chunk, cols)

\* One turn of the spawn iterator: the worker owns the columns lo..hi-1.
Spawn ==
  /\ caller = "spawn"
  /\ lo < cols
  /\ handles' = Append(handles, [lo |-> lo, hi |-> hi, out |-> <<>>, state |-> "running"])
  /\ lo' = lo + chunk
  /\ UNCHANGED <<cols, cpus, caller, joined, results>>

\* spawn_scoped fails: "spawn first_dim worker".
SpawnFails ==
  /\ caller = "spawn"
  /\ lo < cols
  /\ caller' = "unwind"
  /\ UNCHANGED <<cols, cpus, lo, handles, joined, results>>

\* The iterator is exhausted.
StartJoin ==
  /\ caller = "spawn"
  /\ lo >= cols
  /\ caller' = "join"
  /\ UNCHANGED <<cols, cpus, lo, handles, joined, results>>

Running(t) == handles[t].state = "running"

\* A worker computes its next column and returns its vector after the last.
Work(t) ==
  LET c == handles[t].lo + Len(handles[t].out)
  IN  /\ Running(t)
      /\ handles' = [handles EXCEPT
           ![t].out = Append(@, Column(c)),
           ![t].state = IF c + 1 = handles[t].hi THEN "finished" ELSE "running"]
      /\ UNCHANGED <<cols, cpus, caller, lo, joined, results>>

WorkerPanics(t) ==
  /\ Running(t)
  /\ handles' = [handles EXCEPT ![t].state = "panicked"]
  /\ UNCHANGED <<cols, cpus, caller, lo, joined, results>>

\* Mutant: a handle's vector is taken without waiting for its worker.
JoinEarly ==
  /\ caller = "join"
  /\ joined < Len(handles)
  /\ results' = results \o handles[joined + 1].out
  /\ joined' = joined + 1
  /\ UNCHANGED <<cols, cpus, caller, lo, handles>>

\* The handles are joined in spawn order, whatever order the workers end in.
Join ==
  /\ caller = "join"
  /\ joined < Len(handles)
  /\ handles[joined + 1].state = "finished"
  /\ results' = results \o handles[joined + 1].out
  /\ joined' = joined + 1
  /\ UNCHANGED <<cols, cpus, caller, lo, handles>>

\* "first_dim worker thread panicked"
JoinPanicked ==
  /\ caller = "join"
  /\ joined < Len(handles)
  /\ handles[joined + 1].state = "panicked"
  /\ caller' = "unwind"
  /\ UNCHANGED <<cols, cpus, lo, handles, joined, results>>

\* Mutant: the unwinding caller also waits for workers that never started.
UnwindWaitsForAll ==
  /\ caller = "unwind"
  /\ Len(handles) = DivCeil(cols, chunk)
  /\ \A t \in DOMAIN handles : ~Running(t)
  /\ caller' = "panicked"
  /\ UNCHANGED <<cols, cpus, lo, handles, joined, results>>

\* thread::scope lets a panic out only when no worker is left.
Unwind ==
  /\ caller = "unwind"
  /\ \A t \in DOMAIN handles : ~Running(t)
  /\ caller' = "panicked"
  /\ UNCHANGED <<cols, cpus, lo, handles, joined, results>>

Return ==
  /\ caller = "join"
  /\ joined = Len(handles)
  /\ caller' = "returned"
  /\ UNCHANGED <<cols, cpus, lo, handles, joined, results>>

\* The serial path: (0..J).map(column).collect().
SerialColumn ==
  /\ caller = "serial"
  /\ results' = Append(results, Column(Len(results)))
  /\ caller' = IF Len(results) + 1 = cols THEN "returned" ELSE caller
  /\ UNCHANGED <<cols, cpus, lo, handles, joined>>

Caller ==
  Spawn \/ SpawnFails \/ StartJoin \/ Join \/ JoinPanicked \/ Unwind \/ Return \/ SerialColumn

Worker(t) == Work(t) \/ WorkerPanics(t)

FirstDimNext == Caller \/ \E t \in DOMAIN handles : Worker(t)

FirstDimSpec == FirstDimInit /\ [][FirstDimNext]_firstDimVars

\* The scheduler runs every thread that can run.  Fairness asks a worker to
\* take a step, not to succeed.
Fairness ==
  /\ WF_firstDimVars(Caller)
  /\ \A t \in 1..MaxCols : WF_firstDimVars(t \in DOMAIN handles /\ Worker(t))

FairSpec == FirstDimSpec /\ Fairness

-----------------------------------------------------------------------------
(***************************************************************************)
(* Properties.                                                             *)
(***************************************************************************)

Columns == {Column(c) : c \in 0..(cols - 1)}

\* The types of the variables (first_dim.rs first_dim).
FirstDimTypeOK ==
  /\ cols \in 1..MaxCols
  /\ cpus \in 0..MaxCpus
  /\ caller \in {"spawn", "join", "unwind", "panicked", "returned", "serial"}
  /\ lo \in Nat
  /\ handles \in Seq([lo : Nat, hi : 1..cols, out : Seq(Columns),
                      state : {"running", "finished", "panicked"}])
  /\ joined \in 0..Len(handles)
  /\ results \in Seq(Columns)

\* The ranges handed to workers are non-empty, start at column 0, and follow
\* each other without gap or overlap up to the spawn iterator: no column is
\* computed twice and none is skipped (the chunked spawn of first_dim).
RangesTile ==
  /\ \A t \in DOMAIN handles :
       /\ handles[t].lo < handles[t].hi
       /\ handles[t].lo = IF t = 1 THEN 0 ELSE handles[t - 1].hi
  /\ SetMin(lo, cols) = IF handles = <<>> THEN 0 ELSE handles[Len(handles)].hi

\* What a worker has produced so far is a prefix of the serial answer to its
\* range, whole if it finished (the worker closure of first_dim).
WorkerProgress ==
  \A t \in DOMAIN handles :
    LET h == handles[t]
    IN  /\ \A k \in DOMAIN h.out : h.out[k] = Column(h.lo + k - 1)
        /\ h.state = "running" => h.lo + Len(h.out) < h.hi
        /\ h.state = "finished" => h.lo + Len(h.out) = h.hi

\* At every moment the output vector is a prefix of the serial answer, and it
\* is the whole of it when first_dim returns, by either path ("exact", module
\* docs of first_dim.rs).
ResultsSerial ==
  /\ \A k \in DOMAIN results : results[k] = Column(k - 1)
  /\ caller = "returned" => Len(results) = cols

\* Never more workers than the CPUs reported, although the chunk is rounded.
WorkersBounded == Len(handles) <= workers

\* first_dim always gives the caller an answer or a panic: no join waits
\* forever, on the error paths either.
Ends == <>(caller \in {"returned", "panicked"})
=============================================================================
