-------------------------------- MODULE Via ---------------------------------
(***************************************************************************)
(* The protocol as its callers run it: one client (via-client/src/         *)
(* client.rs), one server set up from the client's public parameters       *)
(* (via-server/src/answer.rs, batch.rs) and any number of requests in      *)
(* flight.  Client and server keep no per-request state, so a request is   *)
(* driven by its caller: query, carry the message over, answer, carry the  *)
(* answer back, recover.  Requests overlap in every order.  The one piece  *)
(* of mutable state they share is the client's generator, an exclusive     *)
(* borrow threaded through the calls (see Sampling); keys and randomness   *)
(* are abstracted: client and server belong together.                      *)
(***************************************************************************)
EXTENDS ViaServer

CONSTANTS
  Request,       \* the requests
  Dims,          \* values tried for num_rows and num_cols
  Spare,         \* values tried for: capacity minus number of records
  Payload(_, _), \* Payload(x, n): record x of degree n
  Index(_, _),   \* Index(r, n): the indices request r tries when n records are addressable
  Batches(_, _), \* Batches(r, n): the batches of indices it tries
  BatchSizes,    \* values of the const generic T that answer_batch is called with
  Calls          \* constructor calls of PIRParams: debug build, variant, arguments

ASSUME RequestAssumption ==
  /\ Dims \subseteq Nat
  /\ Spare \subseteq Int
  /\ \A n \in {N2, N3}, i, j \in Dims :
       \A x \in 0..(i * j * (N1 \div n) - 1) : Payload(x, n) \in Poly(n)
  /\ \A i, j \in Dims \ {0}, r \in Request : Index(r, D * i * j) \subseteq Nat
  /\ \A i, j \in Dims \ {0}, r \in Request : \A idxs \in Batches(r, D3 * i * j) :
       idxs \in Seq(Nat) /\ idxs # <<>> /\ Len(idxs) * N3 <= N2
  /\ \A size \in BatchSizes : size \in {Shl[k] : k \in 0..MaxBits} /\ size * N3 <= N2

VARIABLES
  stage,  \* how far the set-up has come
  params, \* the run-time parameters, <<>> before Client::setup
  rows,   \* num_rows, 0 before Client::setup
  cols,   \* num_cols, 0 before Client::setup
  nrec,   \* N_REC of the server, 0 before Server::setup
  db,     \* the encoded database, <<>> before Server::setup
  count,  \* number of records handed to Server::setup
  req     \* the requests

vars == <<stage, params, rows, cols, nrec, db, count, req>>

Idle == [at |-> "idle", op |-> "", idxs |-> <<>>, msg |-> <<>>, reply |-> Garbage, got |-> <<>>]

Init ==
  /\ stage = "start"
  /\ params = <<>>
  /\ rows = 0 /\ cols = 0
  /\ nrec = 0 /\ db = <<>> /\ count = 0
  /\ req = [r \in Request |-> Idle]

-----------------------------------------------------------------------------
\* PIRParams::new or new_b panics.
ParamsPanic ==
  /\ stage = "start"
  /\ \E c \in Calls : NewParams(c.debug, c.variant, c.args) = <<>>
  /\ stage' = "panicked"
  /\ UNCHANGED <<params, rows, cols, nrec, db, count, req>>

\* PublicParams::new turns the parameters down.
PublicParamsPanic(i, j, c, f) ==
  /\ ~PublicParamsAccepted(c.debug, f, i, j)
  /\ stage' = "panicked"
  /\ UNCHANGED <<params, rows, cols>>

SetUp(i, j, c, f) ==
  /\ PublicParamsAccepted(c.debug, f, i, j)
  /\ params' = f /\ rows' = i /\ cols' = j
  /\ stage' = "client"

\* Client::setup: the dimensions are checked before anything is drawn.
ClientSetup ==
  /\ stage = "start"
  /\ \E i, j \in Dims, c \in Calls :
       LET f == NewParams(c.debug, c.variant, c.args)
       IN  /\ f # <<>>
           /\ IsPowerOfTwo(i) /\ IsPowerOfTwo(j)
           /\ PublicParamsPanic(i, j, c, f) \/ SetUp(i, j, c, f)
  /\ UNCHANGED <<nrec, db, count, req>>

\* Client::setup returns DimMismatch.
ClientSetupRefused ==
  /\ stage = "start"
  /\ \E i, j \in Dims : ~IsPowerOfTwo(i) \/ ~IsPowerOfTwo(j)
  /\ stage' = "client_refused"
  /\ UNCHANGED <<params, rows, cols, nrec, db, count, req>>

Capacity(n) == rows * cols * (N1 \div n)

Records(num, n) == [x \in 1..num |-> Payload(x - 1, n)]

\* Server::setup, as a VIA-C (N_REC = N2) or a VIA-B (N_REC = N3) server.
ServerSetup ==
  /\ stage = "client"
  /\ \E n \in {N2, N3}, spare \in Spare :
       /\ 0 <= spare /\ spare <= Capacity(n)
       /\ nrec' = n
       /\ count' = Capacity(n) - spare
       /\ db' = SetupDb(Records(Capacity(n) - spare, n), rows, cols, n)
  /\ stage' = "serving"
  /\ UNCHANGED <<params, rows, cols, req>>

\* Server::setup returns DimMismatch: more records than capacity.
ServerSetupRefused ==
  /\ stage = "client"
  /\ \E spare \in Spare : spare < 0
  /\ stage' = "server_refused"
  /\ UNCHANGED <<params, rows, cols, nrec, db, count, req>>

-----------------------------------------------------------------------------
HasClient == rows > 0

\* Client::query.
Query(r) ==
  /\ HasClient
  /\ req[r].at = "idle"
  /\ \E index \in Index(r, D * rows * cols) :
       LET cts == BuildCompressedQuery(index, rows, cols, D, params.base_1, params.base_2)
       IN  req' = [req EXCEPT ![r] =
             IF index >= D * rows * cols THEN [Idle EXCEPT !.at = "refused", !.idxs = <<index>>]
             ELSE [Idle EXCEPT !.at = "sent", !.op = "query", !.idxs = <<index>>, !.msg = <<cts>>]]
  /\ UNCHANGED <<stage, params, rows, cols, nrec, db, count>>

\* Client::batch_query: one bad index refuses the batch.
BatchQuery(r) ==
  /\ HasClient
  /\ req[r].at = "idle"
  /\ \E idxs \in Batches(r, D3 * rows * cols) :
       LET n == Len(idxs)
           bad == {t \in 1..n : idxs[t] >= D3 * rows * cols}
           cts == [t \in 1..n |->
                    BuildCompressedQuery(idxs[t], rows, cols, D3, params.base_1, params.base_2)]
       IN  req' = [req EXCEPT ![r] =
             IF bad # {} THEN [Idle EXCEPT !.at = "refused", !.idxs = idxs]
             ELSE [Idle EXCEPT !.at = "sent", !.op = "batch", !.idxs = idxs, !.msg = cts]]
  /\ UNCHANGED <<stage, params, rows, cols, nrec, db, count>>

\* A handler's result goes back to the caller of r.
Reply(r, result) ==
  /\ req' = [req EXCEPT ![r].at = IF result.err = "" THEN "answered" ELSE "failed",
                        ![r].reply = result.ct]
  /\ UNCHANGED <<stage, params, rows, cols, nrec, db, count>>

\* Server::answer takes one compressed query, also one out of a batch of one.
Answer(r) ==
  /\ stage = "serving"
  /\ req[r].at = "sent"
  /\ Len(req[r].msg) = 1
  /\ Reply(r, AnswerOneQuery(req[r].msg[1], params, rows, cols, db))

\* Server::answer_batch::<T>, only if T records of the server fit an answer.
AnswerBatched(r, T) ==
  /\ stage = "serving"
  /\ T * nrec <= N2
  /\ req[r].at = "sent"
  /\ Reply(r, AnswerBatch(req[r].msg, T, params, rows, cols, db, nrec))

\* Client::recover: an asymmetric decryption; Garbage is whatever it yields.
Recover(r) ==
  /\ req[r].at = "answered" /\ req[r].op = "query"
  /\ req' = [req EXCEPT ![r].at = "done", ![r].got = <<req[r].reply>>]
  /\ UNCHANGED <<stage, params, rows, cols, nrec, db, count>>

\* Client::recover_batch.
RecoverBatch(r) ==
  /\ req[r].at = "answered" /\ req[r].op = "batch"
  /\ req' = [req EXCEPT ![r].at = "done",
       ![r].got = IF req[r].reply = Garbage THEN <<Garbage>>
                  ELSE DeinterleaveBatch(req[r].reply, Len(req[r].idxs))]
  /\ UNCHANGED <<stage, params, rows, cols, nrec, db, count>>

Next ==
  \/ ParamsPanic \/ ClientSetup \/ ClientSetupRefused \/ ServerSetup \/ ServerSetupRefused
  \/ \E r \in Request :
       \/ Query(r) \/ BatchQuery(r) \/ Answer(r) \/ Recover(r) \/ RecoverBatch(r)
       \/ \E T \in BatchSizes : AnswerBatched(r, T)

Spec == Init /\ [][Next]_vars

-----------------------------------------------------------------------------
(***************************************************************************)
(* Properties.                                                             *)
(***************************************************************************)

\* The messages of the LWE ciphertexts of a query.
Lwe == {<<>>} \cup ({params.base_1, params.base_2} \X (0..(L_QUERY - 1)))

\* What a request may hold at each point of its life.
RequestOK(q) ==
  /\ q.at \in {"idle", "refused", "sent", "failed", "answered", "done"}
  /\ q.idxs \in Seq(Nat)
  /\ q.at \in {"idle", "refused"} => q.op = "" /\ q.msg = <<>>
  /\ q.at \in {"sent", "failed", "answered", "done"} =>
       /\ q.op \in {"query", "batch"} /\ (q.op = "query" => Len(q.idxs) = 1)
       /\ HasClient /\ q.msg \in Seq(Seq(Lwe)) /\ Len(q.msg) = Len(q.idxs)
  /\ q.at \in {"failed", "answered", "done"} => stage = "serving"
  /\ IF q.at \in {"answered", "done"} THEN q.reply \in Poly(N2) ELSE q.reply = Garbage
  /\ IF q.at # "done" THEN q.got = <<>>
     ELSE IF q.op = "query" THEN q.got = <<q.reply>>
     ELSE q.got \in [1..Len(q.idxs) -> Poly(N3)]

\* The types of the variables.  Nothing is sent without a client, answered or
\* turned down without a server, and what a server answers always decrypts:
\* to a polynomial of the answer ring, out of which the client cuts one record
\* per index (client.rs query to recover_batch, answer.rs, batch.rs).
TypeOK ==
  /\ stage \in {"start", "client", "serving", "client_refused", "server_refused", "panicked"}
  /\ rows \in Nat /\ cols \in Nat /\ count \in Nat
  /\ nrec \in {0, N2, N3}
  /\ db \in IF nrec = 0 THEN {<<>>} ELSE [0..(rows - 1) -> [0..(cols - 1) -> Poly(N1)]]
  /\ DOMAIN req = Request /\ \A r \in Request : RequestOK(req[r])

\* Every record given to Server::setup can be found again at the cell and slot
\* decompose_index sends its index to, and the rest of the capacity is zero:
\* nothing is dropped, overwritten or stored twice (setup_db, and the guard of
\* Server::setup, "would silently drop").
RecordsStored ==
  stage = "serving" =>
    /\ count <= Capacity(nrec)
    /\ \A x \in 0..(Capacity(nrec) - 1) :
         LET at == DecomposeIndex(x, rows, cols)
         IN  ProjectAt(db[at.alpha][at.beta], N1, nrec, at.gamma)
               = IF x < count THEN Payload(x, nrec) ELSE Zero(nrec)

\* The degree a query of request r rotates by: query builds for D, batch_query
\* for the degree of a VIA-B record.
Degree(r) == IF req[r].op = "query" THEN D ELSE D3

\* A server turns down a message if and only if it was built for another
\* handler: another batch size or another record degree.  The lengths client
\* and server compute on their own, one from ceil_log2, the other from
\* trailing_zeros, agree on everything else, dimensions of 1 included.
FailsOnlyOnMismatch ==
  [][\A r \in Request :
       /\ Answer(r) => (req'[r].at = "failed" <=> Degree(r) # D)
       /\ \A T \in BatchSizes : AnswerBatched(r, T) =>
            (req'[r].at = "failed" <=> Len(req[r].msg) # T \/ Degree(r) # N1 \div nrec)]_vars

\* The records installed, by flat index.
Installed ==
  IF stage # "serving" THEN <<>>
  ELSE [x \in 0..(Capacity(nrec) - 1) |->
         IF x < count THEN Payload(x, nrec) ELSE Zero(nrec)]

\* What an answered request stands for.  An answer to a single query holds one
\* record per slot of a record's degree: the record asked for on a VIA-C
\* server, and on a VIA-B server also those D * I * J, 2 * D * I * J, ...
\* further on, since answer rotates for the VIA-C degree.
Asked(r) ==
  IF req[r].at \notin {"answered", "done"} THEN <<>>
  ELSE IF req[r].op = "batch" THEN req[r].idxs
  ELSE [s \in 1..(N2 \div nrec) |-> req[r].idxs[1] + (s - 1) * D * rows * cols]

Got(r) ==
  IF req[r].at # "done" THEN <<>>
  ELSE IF req[r].got = <<Garbage>> \/ req[r].op = "batch" THEN req[r].got
  ELSE [s \in 1..(N2 \div nrec) |-> ProjectAt(req[r].got[1], N2, nrec, s - 1)]

Abs == INSTANCE Pir WITH
  db <- Installed,
  asked <- [r \in Request |-> Asked(r)],
  got <- [r \in Request |-> Got(r)]

\* Private retrieval is retrieval: through bit orders, gadget bases, in-place
\* trees, negacyclic rotation, repacking and projection, a caller that gets an
\* answer gets exactly the records at the indices it queried, whatever else is
\* in flight (recover "returning the recovered plaintext record polynomial",
\* recover_batch "record t occupies the strided slot set", client.rs).
RefinesPir == Abs!Spec
=============================================================================
