-------------------------------- MODULE Pir ---------------------------------
(***************************************************************************)
(* What the protocol promises its caller, with no cryptography in it: a    *)
(* database is installed once, a request names indices into it, and a      *)
(* request that gets an answer gets exactly the records it named.          *)
(***************************************************************************)
EXTENDS Sequences

CONSTANT Request

VARIABLES
  db,     \* the records, a function of their index; <<>> before installation
  asked,  \* asked[r]: the indices named by request r; <<>> before that
  got     \* got[r]: the records handed to the caller of r; <<>> before that

vars == <<db, asked, got>>

Init ==
  /\ db = <<>>
  /\ asked = [r \in Request |-> <<>>]
  /\ got = [r \in Request |-> <<>>]

Install ==
  /\ db = <<>>
  /\ db' # <<>>
  /\ UNCHANGED <<asked, got>>

\* A request may name any indices of the installed database.
Ask(r) ==
  /\ asked[r] = <<>>
  /\ asked'[r] \in Seq(DOMAIN db) \ {<<>>}
  /\ asked' = [asked EXCEPT ![r] = asked'[r]]
  /\ UNCHANGED <<db, got>>

Lookup(indices) == [t \in DOMAIN indices |-> db[indices[t]]]

Deliver(r) ==
  /\ asked[r] # <<>>
  /\ got[r] = <<>>
  /\ got' = [got EXCEPT ![r] = Lookup(asked[r])]
  /\ UNCHANGED <<db, asked>>

Next == Install \/ \E r \in Request : Ask(r) \/ Deliver(r)

Spec == Init /\ [][Next]_vars
=============================================================================
