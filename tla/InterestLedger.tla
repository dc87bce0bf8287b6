--------------------------- MODULE InterestLedger ---------------------------
(***************************************************************************)
(* What POST /api/boards/recommendations/profile promises: the account's   *)
(* document changes as if the requests of all its devices were carried out *)
(* one after the other, each in one step.  A request that is answered with *)
(* 200 was carried out, one that is answered with 409 was not, and after   *)
(* another failure its client does not know.                               *)
(***************************************************************************)
CONSTANTS
  Requests,          \* requests of all the account's devices, retries included
  Batch,             \* Batch[r]: the mutations of r
  Moments,           \* moments at which requests may be carried out
  NewDocument,       \* what an account without a row has
  Absorb(_, _, _),   \* a document after a batch at a moment
  Cleaned(_, _)      \* a document without what has expired at a moment

VARIABLES
  document,          \* the account's document
  result             \* result[r]: the answer to r

vars == <<document, result>>

Init ==
  /\ document = NewDocument
  /\ result = [r \in Requests |-> "none"]

Answer(r, answers) ==
  /\ result[r] = "none"
  /\ \E answer \in answers : result' = [result EXCEPT ![r] = answer]

Carry(r) ==
  /\ \E now \in Moments : document' = Absorb(document, Batch[r], now)
  /\ Answer(r, {"saved", "error"})

Refuse(r) ==
  /\ UNCHANGED document
  /\ Answer(r, {"conflict", "error"})

Forget ==
  /\ \E now \in Moments : document' = Cleaned(document, now)
  /\ UNCHANGED result

Next == Forget \/ \E r \in Requests : Carry(r) \/ Refuse(r)

Spec == Init /\ [][Next]_vars
=============================================================================
