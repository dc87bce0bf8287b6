----------------------- MODULE RecommendationProfiles -----------------------
(***************************************************************************)
(* The stored interest profile of one account: update_profile, which reads *)
(* the row, computes and writes it back by compare-and-swap on its         *)
(* revision, and the hourly cleanup of expired events, which does the same.*)
(*                                                                         *)
(* Each attempt is a transaction of two steps, because other transactions  *)
(* may commit between its read and its write.  Accounts share no rows.     *)
(***************************************************************************)
EXTENDS InterestProfile, SequencesExt

CONSTANTS
  Ids,           \* mutation ids
  Requests,      \* requests of all the account's devices, retries included
  Batch,         \* Batch[r]: the mutations of r, in order
  Cleaners,      \* cleanup tasks, one for each process of the service
  ReceiptLimit,  \* 1000
  ImportLimit,   \* 100
  MaxAttempts,   \* 8
  MaxTime,       \* bound on time
  MaxFaults      \* bound on failed transactions and lost answers

VARIABLES
  row,           \* the row of the account in board_recommendation_profiles
  now,           \* the clock
  req,           \* req[r]: update_profile for request r
  sweep,         \* sweep[c]: cleanup_expired of cleaner c
  applied,       \* history: applied[i] counts the commits that applied mutation i
  faults

vars == <<row, now, req, sweep, applied, faults>>

-----------------------------------------------------------------------------
(* Types *)

Mutation == [id: Ids, kind: Kinds, at: Nat, tag: Tags, events: FiniteSubsets(Event),
             profile: Profile]

Document == [profile: Profile, receipts: Seq(Ids), imports: Seq(Ids)]

Row == [document: Document, revision: Nat, cleanupAt: Nat \cup {Never}]

Moments == 0..MaxTime

\* at: `now' of update_profile; tries: attempts that failed; seen: the row that the
\* attempt read.
Request == [pc: {"new", "reading", "deciding", "done"}, at: Moments,
            tries: 0..(MaxAttempts - 1), seen: Row,
            result: {"none", "saved", "conflict", "error"}]

Sweep == [on: BOOLEAN, at: Moments, seen: Row]

ASSUME StoreAssumption ==
  /\ Batch \in [Requests -> Seq(Mutation)]
  /\ ReceiptLimit \in Nat \ {0}
  /\ ImportLimit \in Nat \ {0}
  /\ MaxAttempts \in Nat \ {0}
  /\ MaxTime \in Nat
  /\ MaxFaults \in Nat
  /\ \A r \in Requests : Len(Batch[r]) \in 1..ReceiptLimit

\* Clients draw ids at random and send a mutation again under its own: an id does not
\* stand for an import here and for another kind there.
ASSUME IdsAssumption ==
  \A r, q \in Requests : \A j \in DOMAIN Batch[r], k \in DOMAIN Batch[q] :
    Batch[r][j].id = Batch[q][k].id =>
      (Batch[r][j].kind = "merge") = (Batch[q][k].kind = "merge")

\* The row, every request and every cleanup has its type.
TypeOK ==
  /\ row \in Row
  /\ now \in Moments
  /\ req \in [Requests -> Request]
  /\ sweep \in [Cleaners -> Sweep]
  /\ applied \in [Ids -> Nat]
  /\ faults \in 0..MaxFaults

NewDocument == [profile |-> NewProfile, receipts |-> <<>>, imports |-> <<>>]

\* Rows are numbered from 1: a row of revision 0 is no row.
NoRow == [document |-> NewDocument, revision |-> 0, cleanupAt |-> Never]

NewRequest ==
  [pc |-> "new", at |-> 0, tries |-> 0, seen |-> NoRow, result |-> "none"]

NoSweep == [on |-> FALSE, at |-> 0, seen |-> NoRow]

Init ==
  /\ row = NoRow
  /\ now = 0
  /\ req = [r \in Requests |-> NewRequest]
  /\ sweep = [c \in Cleaners |-> NoSweep]
  /\ applied = [i \in Ids |-> 0]
  /\ faults = 0

-----------------------------------------------------------------------------
(* The document of an account *)

KeepLast(s, n) == IF Len(s) <= n THEN s ELSE SubSeq(s, Len(s) - n + 1, Len(s))

\* Faulty variants, here and below, are the mistakes that the properties at the
\* end of this module rule out; no action uses them.
\* Faulty: imports are remembered among the receipts only.
KnownByReceipt(d, m) == Contains(d.receipts, m.id)

Known(d, m) ==
  \/ Contains(d.receipts, m.id)
  \/ m.kind = "merge" /\ Contains(d.imports, m.id)

Receive(d, m, at) ==
  IF Known(d, m) THEN d
  ELSE [profile |-> ApplyMutation(d.profile, m, at),
        receipts |-> KeepLast(Append(d.receipts, m.id), ReceiptLimit),
        imports |-> IF m.kind = "merge"
                    THEN KeepLast(Append(d.imports, m.id), ImportLimit)
                    ELSE d.imports]

\* The document after the first n mutations of a batch, for each n.
After(d, batch, at) ==
  LET doc[n \in 0..Len(batch)] ==
        IF n = 0 THEN d ELSE Receive(doc[n - 1], batch[n], at)
  IN  doc

Absorb(d, batch, at) == After(d, batch, at)[Len(batch)]

\* {**row.data, **profile}: the receipts stay.
Cleaned(d, at) == [d EXCEPT !.profile = CleanProfile(@, at)]

\* Insert or update: the document, its next revision and when it is to be cleaned.
Stored(d, seen) ==
  [document |-> d, revision |-> seen.revision + 1, cleanupAt |-> NextCleanup(d.profile)]

-----------------------------------------------------------------------------
(* update_profile *)

Arrive(r) ==
  /\ req[r].pc = "new"
  /\ req' = [req EXCEPT ![r] = [@ EXCEPT !.pc = "reading", !.at = now]]
  /\ UNCHANGED <<row, now, sweep, applied, faults>>

Read(r) ==
  /\ req[r].pc = "reading"
  /\ req' = [req EXCEPT ![r] = [@ EXCEPT !.pc = "deciding", !.seen = row]]
  /\ UNCHANGED <<row, now, sweep, applied, faults>>

\* Faulty: the UPDATE has no condition on the revision.
MatchesAny(seen) == (seen.revision = 0) = (row.revision = 0)

\* INSERT meets no row, or UPDATE ... WHERE revision = :revision meets one.
Matches(seen) == row.revision = seen.revision

\* The mutations that the batch applies, each seen after those before it.
Fresh(d, batch, at) ==
  {batch[k].id : k \in {j \in DOMAIN batch :
                          ~Known(After(d, batch, at)[j - 1], batch[j])}}

Count(cond) == IF cond THEN 1 ELSE 0

Save(r) ==
  LET old == req[r].seen.document
      fresh == Fresh(old, Batch[r], req[r].at)
  IN  /\ req[r].pc = "deciding"
      /\ Matches(req[r].seen)
      /\ row' = Stored(Absorb(old, Batch[r], req[r].at), req[r].seen)
      /\ applied' = [i \in Ids |-> applied[i] + Count(i \in fresh)]
      /\ UNCHANGED <<now, sweep>>

Answer(r, result) ==
  req' = [req EXCEPT ![r] = [@ EXCEPT !.pc = "done", !.seen = NoRow, !.result = result]]

Saved(r) == Save(r) /\ Answer(r, "saved") /\ UNCHANGED faults

Fault == faults < MaxFaults /\ faults' = faults + 1

\* The answer does not reach the client, which will send its mutations again.
SavedUnheard(r) == Save(r) /\ Answer(r, "error") /\ Fault

\* Faulty: the next attempt has the row that the first one read.
ConflictStale(r) ==
  /\ req[r].pc = "deciding"
  /\ ~Matches(req[r].seen)
  /\ IF req[r].tries + 1 < MaxAttempts
     THEN req' = [req EXCEPT ![r] = [@ EXCEPT !.tries = req[r].tries + 1]]
     ELSE Answer(r, "conflict")
  /\ UNCHANGED <<row, now, sweep, applied, faults>>

\* Another transaction came first: the next attempt, or 409.
Conflict(r) ==
  /\ req[r].pc = "deciding"
  /\ ~Matches(req[r].seen)
  /\ IF req[r].tries + 1 < MaxAttempts
     THEN req' = [req EXCEPT ![r] =
            [@ EXCEPT !.pc = "reading", !.tries = req[r].tries + 1, !.seen = NoRow]]
     ELSE Answer(r, "conflict")
  /\ UNCHANGED <<row, now, sweep, applied, faults>>

\* A statement fails or the process dies.
Fail(r) ==
  /\ req[r].pc \in {"reading", "deciding"}
  /\ Answer(r, "error")
  /\ Fault
  /\ UNCHANGED <<row, now, sweep, applied>>

-----------------------------------------------------------------------------
(* cleanup_expired and time *)

Due == row.cleanupAt # Never /\ row.cleanupAt <= now

CleanupRead(c) ==
  /\ ~sweep[c].on
  /\ Due
  /\ sweep' = [sweep EXCEPT ![c] = [on |-> TRUE, at |-> now, seen |-> row]]
  /\ UNCHANGED <<row, now, req, applied, faults>>

\* A row that changed meanwhile is left for the next time.
CleanupWrite(c) ==
  LET seen == sweep[c].seen
  IN  /\ sweep[c].on
      /\ row' = IF Matches(seen) THEN Stored(Cleaned(seen.document, sweep[c].at), seen)
                ELSE row
      /\ sweep' = [sweep EXCEPT ![c] = NoSweep]
      /\ UNCHANGED <<now, req, applied, faults>>

CleanupFail(c) ==
  /\ sweep[c].on
  /\ sweep' = [sweep EXCEPT ![c] = NoSweep]
  /\ Fault
  /\ UNCHANGED <<row, now, req, applied>>

Tick ==
  /\ now < MaxTime
  /\ now' = now + 1
  /\ UNCHANGED <<row, req, sweep, applied, faults>>

-----------------------------------------------------------------------------
UpdateProfile(r) == Read(r) \/ Saved(r) \/ SavedUnheard(r) \/ Conflict(r) \/ Fail(r)

CleanupExpired(c) == CleanupRead(c) \/ CleanupWrite(c) \/ CleanupFail(c)

Next ==
  \/ \E r \in Requests : Arrive(r) \/ UpdateProfile(r)
  \/ \E c \in Cleaners : CleanupExpired(c)
  \/ Tick

Spec == Init /\ [][Next]_vars

-----------------------------------------------------------------------------
(* Properties *)

Ledger ==
  INSTANCE InterestLedger WITH
    document <- row.document,
    result <- [r \in Requests |-> req[r].result]

\* Devices that save at once, their retries and the cleanup lose none of each
\* other's changes: the row is what some order of whole requests makes of it, and
\* a request is in that order if it was answered with 200, not if with 409.
Serialised == Ledger!Spec

MergeIds ==
  {m.id : m \in {n \in UNION {ToSet(Batch[r]) : r \in Requests} : n.kind = "merge"}}

\* A mutation that is sent again after a lost answer is not applied again, unless
\* ReceiptLimit others have come since; for the import of an anonymous profile,
\* unless ImportLimit other imports have.
AppliedOnce ==
  \A i \in Ids : applied[i] > 1 =>
    IF i \in MergeIds
    THEN Cardinality({j \in MergeIds : applied[j] > 0}) > ImportLimit
    ELSE Cardinality({j \in Ids : applied[j] > 0}) > ReceiptLimit

Stands == row.document.profile

\* Nothing from before a reset comes back with a late request, an import or the
\* events that another device had kept.
ErasedStaysErased == \A e \in Stands.events : e.at > Stands.resetAt

\* The moment before which everything was erased moves back only through a reset
\* whose client's clock was ahead of the service's when it arrived: it counts as
\* of its arrival, even if a later reset was saved before it.
ResetStands ==
  [][Stands'.resetAt < Stands.resetAt =>
       \E r \in Requests : /\ req[r].result = "none" /\ req'[r].result # "none"
                          /\ \E m \in ToSet(Batch[r]) :
                               m.kind = "reset" /\ m.at > req[r].at]_vars

\* The cleanup finds every row with an event that has expired, also where nobody asks
\* for the profile any more.
ExpiredIsDue == \A e \in Stands.events : e.at + Retention < now => Due

\* A client is told 409 only after its request lost to MaxAttempts others: each
\* attempt works on a row that it has read itself.
RefusedForOthers ==
  \A r \in Requests : req[r].result = "conflict" => row.revision >= MaxAttempts
=============================================================================
