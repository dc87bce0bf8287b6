------------------------ MODULE AnalysisQueueProofs ------------------------
(***************************************************************************)
(* Proofs about AnalysisQueue for every set of boards and workers, every   *)
(* retry limit and every set of initial rows: type correctness, then the   *)
(* inductive invariant QueueInv, the properties that follow from it, and   *)
(* that the queue implements LeasedQueue.                                  *)
(* The last sections are about AnalysisJobs, for any jobs besides: the     *)
(* index of active jobs, and that a completed job has stored its result.   *)
(***************************************************************************)
EXTENDS AnalysisJobs, TLAPS

(* Lemmas about the operators of the queue. *)

\* The flush of typed objects over a typed row is a typed row.
LEMMA FlushType ==
  ASSUME NEW stored \in Row, NEW old \in Row, NEW new \in Row
  PROVE  Flush(stored, old, new) \in Row
BY DEF Flush, Dirty, Row, Statuses, Errors

\* Counting a failure and backing off change these columns and no other.
LEMMA CountedRow ==
  ASSUME NEW r \in Row, NEW e \in Exceptions
  PROVE  /\ Counted(r, e) \in Row
         /\ Counted(r, e).retries = r.retries + 1
         /\ Counted(r, e).analysed = r.analysed
<1>1. r.retries + 1 \in Nat /\ ErrorOf(e) \in Errors
  BY DEF Row, ErrorOf, Errors
<1>2. QED
  BY <1>1 DEF Counted, Row

LEMMA BackedOffRow ==
  ASSUME NEW r \in Row
  PROVE  /\ BackedOff(r) \in Row
         /\ BackedOff(r).status = "pending"
         /\ BackedOff(r).retries = r.retries
         /\ BackedOff(r).analysed = r.analysed
<1>1. Ahead(r.priority) \in Nat
  BY DEF Row, Ahead
<1>2. QED
  BY <1>1 DEF BackedOff, Row, Statuses

\* A failure leaves a row failed, or pending with a retry left.
LEMMA FailedRow ==
  ASSUME NEW r \in Row, NEW e \in Exceptions
  PROVE  /\ Failed(r, e) \in Row
         /\ Failed(r, e).status \in {"pending", "failed"}
         /\ Failed(r, e).status = "pending" => Failed(r, e).retries < MaxRetries
         /\ Failed(r, e).analysed = r.analysed
<1>. DEFINE counted == Counted(r, e)
            again == BackedOff(counted)
<1>1. r.retries \in Nat /\ MaxRetries \in Nat \ {0}
  BY ConstantsAssumption DEF Row
<1>2. counted \in Row /\ counted.retries = r.retries + 1 /\ counted.analysed = r.analysed
  BY CountedRow
<1>3. /\ again \in Row
      /\ again.status = "pending"
      /\ again.retries = r.retries + 1
      /\ again.analysed = r.analysed
  <2> HIDE DEF counted
  <2>1. QED
    BY <1>2, BackedOffRow
<1>4. Failed(r, e) = CASE e = "retryable" ->
                            [again EXCEPT !.retries = Least(@, MaxRetries - 1)]
                       [] GivesUp(r, e) -> [counted EXCEPT !.status = "failed"]
                       [] OTHER -> again
  BY DEF Failed
<1> HIDE DEF counted, again
<1>5. CASE e = "retryable"
  <2>1. Failed(r, e) = [again EXCEPT !.retries = Least(again.retries, MaxRetries - 1)]
    BY <1>4, <1>5 DEF GivesUp
  <2>2. /\ Least(again.retries, MaxRetries - 1) \in Nat
        /\ Least(again.retries, MaxRetries - 1) < MaxRetries
    BY <1>1, <1>3 DEF Least
  <2>3. QED
    BY <1>3, <2>1, <2>2 DEF Row
<1>6. CASE e # "retryable" /\ GivesUp(r, e)
  <2>1. Failed(r, e) = [counted EXCEPT !.status = "failed"]
    BY <1>4, <1>6
  <2>2. QED
    BY <1>2, <2>1 DEF Row, Statuses
<1>7. CASE e # "retryable" /\ ~GivesUp(r, e)
  <2>1. Failed(r, e) = again
    BY <1>4, <1>7
  <2>2. r.retries + 1 < MaxRetries
    BY <1>1, <1>7 DEF GivesUp
  <2>3. QED
    BY <1>3, <2>1, <2>2
<1>8. QED
  BY <1>5, <1>6, <1>7

\* Recovering and finishing an object keeps it a row.
LEMMA ObjectTypes ==
  ASSUME NEW r \in Row
  PROVE  /\ Recovered(r) \in Row
         /\ Analysed(r) \in Row
         /\ MarkDone(r) \in Row
BY DEF Recovered, Analysed, MarkDone, Row, Statuses, Errors

\* Moving a board keeps the order a relation on boards.
LEMMA MoveType ==
  ASSUME before \in SUBSET (Boards \X Boards), NEW b \in Boards, NEW S \in SUBSET Boards
  PROVE  MoveBehind(b, S) \in SUBSET (Boards \X Boards)
BY DEF MoveBehind

\* A worker that goes back to its loop has a typed, empty state.
LEMMA ReleaseType ==
  ASSUME TypeOK, NEW w \in Workers, Release(w)
  PROVE  /\ pc' \in [Workers -> Phases]
         /\ claim' \in [Workers -> Boards \cup {NoBoard}]
         /\ session' \in [Workers -> [Boards -> Row \cup {Unloaded}]]
         /\ raised' \in [Workers -> Exceptions \cup {"none"}]
BY DEF TypeOK, Release, EmptySession, Phases

\* The flush of the recovered objects keeps the table typed.
LEMMA RecoverType ==
  ASSUME TypeOK, NEW w \in Workers, NEW S
  PROVE  RecoverStale(w, S) \in [Boards -> Row]
<1> SUFFICES ASSUME NEW b \in Boards
             PROVE  (IF session[w][b] = Unloaded \/ b \in S THEN row[b]
                     ELSE Flush(row[b], session[w][b], Recovered(session[w][b]))) \in Row
  BY DEF RecoverStale
<1>1. row[b] \in Row /\ session[w][b] \in Row \cup {Unloaded}
  BY DEF TypeOK
<1>2. CASE session[w][b] = Unloaded \/ b \in S
  BY <1>1, <1>2
<1>3. CASE ~(session[w][b] = Unloaded \/ b \in S)
  <2>1. session[w][b] \in Row
    BY <1>1, <1>3
  <2>2. Flush(row[b], session[w][b], Recovered(session[w][b])) \in Row
    BY <1>1, <2>1, ObjectTypes, FlushType
  <2>3. QED
    BY <1>3, <2>2
<1>4. QED
  BY <1>2, <1>3

-----------------------------------------------------------------------------
(* Type correctness.  A commit flushes the object of the claimed board, so it *)
(* keeps the table typed only if there is such an object: PhaseInv and        *)
(* SessionInv say so.                                                         *)

\* The part of SessionInv that a commit needs: there is an object to flush.
HoldsRow ==
  \A w \in Workers : pc[w] \in {"analysing", "recording"} => session[w][claim[w]] # Unloaded

LEMMA SessionHoldsRow == SessionInv => HoldsRow
BY DEF SessionInv, HoldsRow

\* A worker that is about to write holds a board and has its row in session.
LEMMA LoadedType ==
  ASSUME TypeOK, PhaseInv, HoldsRow, NEW w \in Workers,
         pc[w] \in {"analysing", "recording"}
  PROVE  claim[w] \in Boards /\ session[w][claim[w]] \in Row
<1>1. claim[w] \in Boards
  BY DEF TypeOK, PhaseInv
<1>2. session[w][claim[w]] # Unloaded
  BY DEF HoldsRow
<1>3. QED
  BY <1>1, <1>2 DEF TypeOK

\* The first half of the claim: the stale rows are in the session.
LEMMA ScanType ==
  ASSUME TypeOK, NEW w \in Workers, ScanStale(w)
  PROVE  TypeOK'
<1>. DEFINE scan == [b \in Boards |-> IF b \in StaleBoards THEN row[b] ELSE Unloaded]
<1>1. scan \in [Boards -> Row \cup {Unloaded}]
  BY DEF TypeOK
<1>2. session' = [session EXCEPT ![w] = scan]
  BY DEF ScanStale
<1> HIDE DEF scan
<1>3. session' \in [Workers -> [Boards -> Row \cup {Unloaded}]]
  BY <1>1, <1>2 DEF TypeOK
<1>4. pc' \in [Workers -> Phases]
  BY DEF ScanStale, TypeOK, Phases
<1>5. QED
  BY <1>3, <1>4 DEF ScanStale, TypeOK, rowVars

\* The object that a claim flushes is a row, and so is the flushed row.
LEMMA ClaimType ==
  ASSUME TypeOK, NEW w \in Workers, NEW b \in Boards, ClaimBoard(w, b)
  PROVE  TypeOK'
<1>. DEFINE old == IF session[w][b] = Unloaded THEN row[b] ELSE session[w][b]
            object == IF session[w][b] = Unloaded THEN old ELSE Recovered(old)
            new == IF object.analysed
                   THEN [object EXCEPT !.status = "done", !.error = "none"]
                   ELSE [object EXCEPT !.status = "processing", !.started = "fresh"]
            base == RecoverStale(w, {b})
<1>1. row[b] \in Row /\ old \in Row
  BY DEF TypeOK
<1>2. object \in Row
  BY <1>1, ObjectTypes
<1>3. new \in Row
  <2> HIDE DEF object
  <2>1. QED
    BY <1>2 DEF Row, Statuses, Errors
<1>4. base \in [Boards -> Row]
  BY RecoverType
<1>5. row' = [base EXCEPT ![b] = Flush(base[b], old, new)]
  BY DEF ClaimBoard
<1> HIDE DEF base, old, new
<1>6. Flush(base[b], old, new) \in Row
  BY <1>1, <1>3, <1>4, FlushType
<1>7. row' \in [Boards -> Row]
  BY <1>4, <1>5, <1>6
<1>8. pc' \in [Workers -> Phases] /\ claim' \in [Workers -> Boards \cup {NoBoard}]
  BY DEF ClaimBoard, TypeOK, Phases
<1>9. session' \in [Workers -> [Boards -> Row \cup {Unloaded}]]
  BY DEF ClaimBoard, TypeOK, EmptySession
<1>10. QED
  BY <1>7, <1>8, <1>9 DEF ClaimBoard, TypeOK

\* Loading the claimed row, to analyse it or to record a failure.
LEMMA LoadType ==
  ASSUME TypeOK, PhaseInv, NEW w \in Workers, AnalyzeLoad(w) \/ RecordLoad(w)
  PROVE  TypeOK'
<1>1. claim[w] \in Boards
  BY DEF TypeOK, PhaseInv, AnalyzeLoad, RecordLoad
<1>2. session' = [session EXCEPT ![w] = [session[w] EXCEPT ![claim[w]] = row[claim[w]]]]
  BY DEF AnalyzeLoad, RecordLoad
<1>3. [session[w] EXCEPT ![claim[w]] = row[claim[w]]] \in [Boards -> Row \cup {Unloaded}]
  BY <1>1 DEF TypeOK
<1>4. session' \in [Workers -> [Boards -> Row \cup {Unloaded}]]
  BY <1>2, <1>3 DEF TypeOK
<1>5. pc' \in [Workers -> Phases]
  BY DEF AnalyzeLoad, RecordLoad, TypeOK, Phases
<1>6. QED
  BY <1>4, <1>5 DEF AnalyzeLoad, RecordLoad, TypeOK, rowVars

\* The flush of an analysis.
LEMMA CommitType ==
  ASSUME TypeOK, PhaseInv, HoldsRow, NEW w \in Workers, AnalyzeCommit(w)
  PROVE  TypeOK'
<1>1. claim[w] \in Boards /\ session[w][claim[w]] \in Row
  BY LoadedType DEF AnalyzeCommit
<1>. DEFINE flushed == Flush(row[claim[w]], session[w][claim[w]],
                             Analysed(session[w][claim[w]]))
<1>2. flushed \in Row
  BY <1>1, ObjectTypes, FlushType DEF TypeOK
<1>3. row' = [row EXCEPT ![claim[w]] = flushed]
  BY DEF AnalyzeCommit
<1> HIDE DEF flushed
<1>4. row' \in [Boards -> Row]
  BY <1>2, <1>3 DEF TypeOK
<1>5. QED
  BY <1>4, ReleaseType DEF AnalyzeCommit, TypeOK

\* The flush of a failure.
LEMMA FailureType ==
  ASSUME TypeOK, PhaseInv, HoldsRow, NEW w \in Workers, RecordCommit(w)
  PROVE  TypeOK'
<1>1. claim[w] \in Boards /\ session[w][claim[w]] \in Row
  BY LoadedType DEF RecordCommit
<1>0. raised[w] \in Exceptions
  BY DEF TypeOK, PhaseInv, RecordCommit
<1>. DEFINE old == session[w][claim[w]]
            retried == ~GivesUp(old, raised[w])
            flushed == Flush(row[claim[w]], old, Failed(old, raised[w]))
            stored == [flushed EXCEPT !.requested = IF retried THEN "later" ELSE @]
<1>2. flushed \in Row
  BY <1>0, <1>1, FailedRow, FlushType DEF TypeOK
<1>3. row' = [row EXCEPT ![claim[w]] = stored]
  BY DEF RecordCommit
<1>4. before' = IF retried THEN MoveBehind(claim[w], Boards \ {claim[w]}) ELSE before
  BY DEF RecordCommit
<1> HIDE DEF flushed, retried
<1>5. stored \in Row
  BY <1>2 DEF Row
<1> HIDE DEF stored
<1>6. row' \in [Boards -> Row]
  BY <1>3, <1>5 DEF TypeOK
<1>7. before' \in SUBSET (Boards \X Boards)
  BY <1>1, <1>4, MoveType DEF TypeOK
<1>8. QED
  BY <1>6, <1>7, ReleaseType DEF RecordCommit, TypeOK

\* The requests and the clock.
LEMMA RequestType ==
  ASSUME TypeOK, NEW b \in Boards,
         RetryFailedAnalysis(b) \/ GetAnalysis(b) \/ TimePasses(b)
  PROVE  TypeOK'
<1>1. row[b] \in Row
  BY DEF TypeOK
<1>2. CASE RetryFailedAnalysis(b)
  <2>1. Greatest(row[b].priority, UserPriority) \in Nat
    BY <1>1, ConstantsAssumption DEF Row, Greatest
  <2>2. Retried(row[b]) \in Row
    BY <1>1, <2>1 DEF Retried, Row, Statuses, Errors
  <2>3. before' \in SUBSET (Boards \X Boards)
    BY <1>2, MoveType DEF RetryFailedAnalysis, TypeOK
  <2>4. QED
    BY <1>2, <2>2, <2>3 DEF RetryFailedAnalysis, TypeOK, workerVars
<1>3. CASE GetAnalysis(b)
  BY <1>1, <1>3, ObjectTypes DEF GetAnalysis, TypeOK, workerVars
<1>4. CASE BackoffElapses(b)
  BY <1>1, <1>4 DEF BackoffElapses, TypeOK, workerVars, Row
<1>5. CASE ClaimExpires(b)
  BY <1>1, <1>5 DEF ClaimExpires, TypeOK, workerVars, Row
<1>6. QED
  BY <1>2, <1>3, <1>4, <1>5 DEF TimePasses

-----------------------------------------------------------------------------
(* The inductive invariant, one lemma for each kind of step. *)

\* What the holder of an undisturbed claim flushes is what the row becomes.
LEMMA FlushSame ==
  ASSUME NEW r \in Row, NEW new \in Row
  PROVE  Flush(r, r, new) = new
BY DEF Flush, Dirty, Row

\* Stale recovery writes only boards whose claim has overrun.
LEMMA RecoverLeaves ==
  ASSUME SessionInv, NEW w \in Workers, pc[w] = "scanned", NEW S,
         NEW b \in Boards, ~overran[b]
  PROVE  RecoverStale(w, S)[b] = row[b]
<1>1. session[w][b] = Unloaded
  BY DEF SessionInv
<1>2. QED
  BY <1>1 DEF RecoverStale

\* A board that the claim query selects is nobody's.
LEMMA ClaimableIsFree ==
  ASSUME HolderInv, NEW w \in Workers, NEW b \in Boards, ~overran[b],
         row[b].status \in {"pending", "failed"}, NoBoard \notin Boards
  PROVE  claim[w] # b
BY DEF HolderInv

\* The scan loads only boards whose claim has overrun.
LEMMA ScanStep ==
  ASSUME QueueInv, NEW w \in Workers, ScanStale(w)
  PROVE  QueueInv'
<1>1. TypeOK'
  BY ScanType DEF QueueInv
<1>2. PhaseInv'
  BY DEF QueueInv, TypeOK, PhaseInv, ScanStale
<1>3. \A b \in Boards : b \in StaleBoards => overran[b]
  BY DEF QueueInv, RowInv, StaleBoards
<1>. DEFINE scan == [b \in Boards |-> IF b \in StaleBoards THEN row[b] ELSE Unloaded]
<1>4. session' = [session EXCEPT ![w] = scan]
  BY DEF ScanStale
<1>5. \A b \in Boards : scan[b] # Unloaded => overran[b]
  BY <1>3
<1> HIDE DEF scan
<1>6. SessionInv'
  BY <1>4, <1>5 DEF QueueInv, TypeOK, SessionInv, ScanStale, rowVars
<1>7. RowInv' /\ ClaimExclusive'
  BY DEF QueueInv, RowInv, ClaimExclusive, Working, ScanStale, rowVars
<1>8. HolderInv'
  BY <1>4 DEF QueueInv, TypeOK, PhaseInv, HolderInv, ScanStale, rowVars
<1>9. QED
  BY <1>1, <1>2, <1>6, <1>7, <1>8 DEF QueueInv

\* A claim takes a free board and leaves it processing, or done.
LEMMA ClaimStep ==
  ASSUME QueueInv, NEW w \in Workers, NEW b \in Boards, ClaimBoard(w, b)
  PROVE  QueueInv'
<1>. USE DEF QueueInv
<1>1. TypeOK'
  BY ClaimType
<1>2. pc[w] = "scanned" /\ claim[w] = NoBoard /\ NoBoard \notin Boards
  BY ConstantsAssumption DEF ClaimBoard, PhaseInv
<1>3. PhaseInv'
  BY <1>2 DEF ClaimBoard, PhaseInv, TypeOK
<1>4. SessionInv'
  BY <1>2 DEF ClaimBoard, SessionInv, TypeOK, EmptySession
<1>. DEFINE base == RecoverStale(w, {b})
<1>5. \A c \in Boards : c # b => row'[c] = base[c]
  <2>1. base \in [Boards -> Row]
    BY RecoverType
  <2>2. \E r : row' = [base EXCEPT ![b] = r]
    BY DEF ClaimBoard
  <2> HIDE DEF base
  <2>3. QED
    BY <2>1, <2>2
<1>6. \A c \in Boards : c # b /\ ~overran[c] => row'[c] = row[c]
  BY <1>2, <1>5, RecoverLeaves
<1>7. ASSUME ~overran[b]
      PROVE  /\ row'[b].status = "processing"
                  => /\ ~row'[b].analysed
                     /\ row'[b].started = "fresh"
                     /\ row'[b].requested = "due"
             /\ row'[b].status \in {"processing", "done"}
             /\ row'[b].status = "done" => row'[b].analysed
             /\ row'[b].retries = row[b].retries
             /\ row[b].retries < MaxRetries
  <2>1. session[w][b] = Unloaded
    BY <1>2, <1>7 DEF SessionInv
  <2>. DEFINE new == IF row[b].analysed
                     THEN [row[b] EXCEPT !.status = "done", !.error = "none"]
                     ELSE [row[b] EXCEPT !.status = "processing", !.started = "fresh"]
  <2>2. row[b] \in Row
    BY DEF TypeOK
  <2>3. new \in Row
    BY <2>2 DEF Row, Statuses, Errors
  <2>4. base[b] = row[b] /\ base \in [Boards -> Row]
    BY <1>2, <1>7, RecoverLeaves, RecoverType
  <2>5. row'[b] = Flush(row[b], row[b], new)
    <3> HIDE DEF base
    <3>1. row' = [base EXCEPT ![b] = Flush(base[b], row[b], new)]
      BY <2>1 DEF ClaimBoard, base
    <3>2. QED
      BY <2>4, <3>1
  <2>6. row'[b] = new
    <3> HIDE DEF new
    <3>1. QED
      BY <2>2, <2>3, <2>5, FlushSame
  <2>7. Claimable(row[b])
    BY DEF ClaimBoard
  <2>8. QED
    BY <2>2, <2>6, <2>7 DEF Claimable, Row
<1>8. overran' = overran
  BY DEF ClaimBoard
<1>9. RowInv'
  BY <1>6, <1>7, <1>8 DEF RowInv
<1>10. \A v \in Workers : ~overran[b] => claim[v] # b
  BY <1>2, ClaimableIsFree DEF ClaimBoard, Claimable
<1>11. claim' = [claim EXCEPT ![w] = b] /\ pc' = [pc EXCEPT ![w] = "claimed"]
  BY DEF ClaimBoard
<1>12. \A v \in Workers : v # w => session'[v] = session[v]
  BY DEF ClaimBoard, TypeOK
<1>13. ClaimExclusive'
  BY <1>8, <1>10, <1>11 DEF ClaimExclusive, Working, TypeOK
<1>14. HolderInv'
  <2> SUFFICES ASSUME NEW v \in Workers, claim'[v] # NoBoard, ~overran[claim'[v]]
               PROVE  /\ \/ row'[claim'[v]].status = "processing" /\ ~row'[claim'[v]].analysed
                         \/ /\ pc'[v] = "claimed"
                            /\ row'[claim'[v]].status = "done" /\ row'[claim'[v]].analysed
                      /\ pc'[v] \in {"analysing", "recording"} =>
                           session'[v][claim'[v]] = row'[claim'[v]]
    BY <1>8 DEF HolderInv
  <2>1. CASE v = w
    BY <1>7, <1>11, <2>1 DEF TypeOK
  <2>2. CASE v # w
    <3>1. claim'[v] = claim[v] /\ pc'[v] = pc[v] /\ claim[v] \in Boards
      BY <1>11, <2>2 DEF TypeOK
    <3>2. claim[v] # b
      BY <1>10, <3>1
    <3>3. row'[claim[v]] = row[claim[v]]
      BY <1>6, <3>1, <3>2
    <3>4. QED
      BY <1>12, <2>2, <3>1, <3>3 DEF HolderInv
  <2>3. QED
    BY <2>1, <2>2
<1>15. QED
  BY <1>1, <1>3, <1>4, <1>9, <1>13, <1>14

\* A worker that goes back to its loop without a board, or gives its board up.
LEMMA ReleaseStep ==
  ASSUME QueueInv, TypeOK', NEW w \in Workers, Release(w), overran' = overran,
         \A b \in Boards : ~overran[b] /\ b # claim[w] => row'[b] = row[b],
         \A b \in Boards : ~overran[b] /\ b = claim[w] =>
           /\ row'[b].status \in {"pending", "processing"} =>
                row'[b].retries < MaxRetries
           /\ row'[b].status = "processing" =>
                row'[b].started = "fresh" /\ row'[b].requested = "due"
  PROVE  QueueInv'
<1>. USE DEF QueueInv
<1>1. /\ pc' = [pc EXCEPT ![w] = "idle"]
      /\ claim' = [claim EXCEPT ![w] = NoBoard]
      /\ session' = [session EXCEPT ![w] = EmptySession]
      /\ raised' = [raised EXCEPT ![w] = "none"]
      /\ NoBoard \notin Boards
  BY ConstantsAssumption DEF Release
<1>2. PhaseInv'
  BY <1>1 DEF PhaseInv, TypeOK
<1>3. SessionInv'
  BY <1>1 DEF SessionInv, TypeOK, EmptySession
<1>4. RowInv'
  BY DEF RowInv
<1>5. ClaimExclusive'
  BY <1>1 DEF ClaimExclusive, Working, TypeOK
<1>6. HolderInv'
  <2> SUFFICES ASSUME NEW v \in Workers, claim'[v] # NoBoard, ~overran[claim'[v]]
               PROVE  /\ \/ row'[claim'[v]].status = "processing" /\ ~row'[claim'[v]].analysed
                         \/ /\ pc'[v] = "claimed"
                            /\ row'[claim'[v]].status = "done" /\ row'[claim'[v]].analysed
                      /\ pc'[v] \in {"analysing", "recording"} =>
                           session'[v][claim'[v]] = row'[claim'[v]]
    BY DEF HolderInv
  <2>1. v # w
    BY <1>1 DEF TypeOK
  <2>2. /\ claim'[v] = claim[v] /\ pc'[v] = pc[v] /\ session'[v] = session[v]
        /\ claim[v] \in Boards
    BY <1>1, <2>1 DEF TypeOK
  <2>3. claim[v] # claim[w]
    BY <2>1, <2>2 DEF ClaimExclusive, Working
  <2>4. row'[claim[v]] = row[claim[v]]
    BY <2>2, <2>3
  <2>5. QED
    BY <2>2, <2>4 DEF HolderInv
<1>7. QED
  BY <1>2, <1>3, <1>4, <1>5, <1>6

\* Nothing to claim: stale recovery is all that is written.
LEMMA ClaimNothingStep ==
  ASSUME QueueInv, NEW w \in Workers, ClaimNothing(w)
  PROVE  QueueInv'
<1>. USE DEF QueueInv
<1>1. row' \in [Boards -> Row]
  BY RecoverType DEF ClaimNothing
<1>2. TypeOK'
  BY <1>1, ReleaseType DEF ClaimNothing, TypeOK
<1>3. \A b \in Boards : ~overran[b] => row'[b] = row[b]
  BY RecoverLeaves DEF ClaimNothing
<1>4. \A b \in Boards : b # claim[w]
  BY ConstantsAssumption DEF ClaimNothing, PhaseInv
<1>5. QED
  BY <1>2, <1>3, <1>4, ReleaseStep DEF ClaimNothing

\* The outcome of a claim is written to the claimed board alone.
LEMMA AnalyzeAnalysedStep ==
  ASSUME QueueInv, NEW w \in Workers, AnalyzeAnalysed(w)
  PROVE  QueueInv'
<1>. USE DEF QueueInv
<1>1. claim[w] \in Boards
  BY DEF AnalyzeAnalysed, PhaseInv, TypeOK
<1>. DEFINE r == MarkDone(row[claim[w]])
<1>2. r \in Row /\ r.status = "done"
  <2>1. row[claim[w]] \in Row /\ row[claim[w]].analysed
    BY <1>1 DEF TypeOK, AnalyzeAnalysed
  <2>2. QED
    BY <2>1, ObjectTypes DEF MarkDone, Row
<1>3. row' = [row EXCEPT ![claim[w]] = r]
  BY DEF AnalyzeAnalysed
<1> HIDE DEF r
<1>4. TypeOK'
  BY <1>2, <1>3, ReleaseType DEF AnalyzeAnalysed, TypeOK
<1>5. /\ \A b \in Boards : b # claim[w] => row'[b] = row[b]
      /\ row'[claim[w]] = r
  BY <1>1, <1>3 DEF TypeOK
<1>6. QED
  BY <1>2, <1>4, <1>5, ReleaseStep DEF AnalyzeAnalysed

LEMMA AnalyzeCommitStep ==
  ASSUME QueueInv, NEW w \in Workers, AnalyzeCommit(w)
  PROVE  QueueInv'
<1>. USE DEF QueueInv
<1>. DEFINE b == claim[w]
            old == session[w][b]
            flushed == Flush(row[b], old, Analysed(old))
<1>1. b \in Boards /\ old \in Row /\ row[b] \in Row
  BY SessionHoldsRow, LoadedType DEF AnalyzeCommit, TypeOK
<1>2. ASSUME ~overran[b]
      PROVE  flushed.status = "done"
  <2>1. old = row[b]
    BY <1>1, <1>2, ConstantsAssumption DEF HolderInv, AnalyzeCommit
  <2>2. flushed = Analysed(row[b])
    BY <1>1, <2>1, ObjectTypes, FlushSame
  <2>3. Analysed(row[b]).status = "done"
    BY <1>1 DEF Analysed, Row
  <2>4. QED
    BY <2>2, <2>3
<1>3. row' = [row EXCEPT ![b] = flushed]
  BY DEF AnalyzeCommit
<1> HIDE DEF flushed
<1>4. /\ \A c \in Boards : c # claim[w] => row'[c] = row[c]
      /\ row'[b] = flushed
  BY <1>1, <1>3 DEF TypeOK
<1>5. TypeOK'
  BY SessionHoldsRow, CommitType
<1>6. QED
  BY <1>2, <1>4, <1>5, ReleaseStep DEF AnalyzeCommit

LEMMA RecordCommitStep ==
  ASSUME QueueInv, NEW w \in Workers, RecordCommit(w)
  PROVE  QueueInv'
<1>. USE DEF QueueInv
<1>. DEFINE b == claim[w]
            old == session[w][b]
            flushed == Flush(row[b], old, Failed(old, raised[w]))
            stored == [flushed EXCEPT !.requested =
                         IF ~GivesUp(old, raised[w]) THEN "later" ELSE @]
<1>1. b \in Boards /\ old \in Row /\ row[b] \in Row /\ raised[w] \in Exceptions
  BY SessionHoldsRow, LoadedType DEF RecordCommit, TypeOK, PhaseInv
<1>2. flushed \in Row
  BY <1>1, FailedRow, FlushType
<1>3. ASSUME ~overran[b]
      PROVE  /\ flushed.status \in {"pending", "failed"}
             /\ flushed.status = "pending" => flushed.retries < MaxRetries
  <2>1. old = row[b]
    BY <1>1, <1>3, ConstantsAssumption DEF HolderInv, RecordCommit
  <2>2. flushed = Failed(row[b], raised[w])
    BY <1>1, <2>1, FailedRow, FlushSame
  <2>3. QED
    BY <1>1, <2>2, FailedRow
<1>4. row' = [row EXCEPT ![b] = stored]
  BY DEF RecordCommit
<1>5. stored.status = flushed.status /\ stored.retries = flushed.retries
  <2> HIDE DEF flushed
  <2>1. QED
    BY <1>2 DEF Row
<1> HIDE DEF stored
<1>6. /\ \A c \in Boards : c # claim[w] => row'[c] = row[c]
      /\ row'[b] = stored
  BY <1>1, <1>4 DEF TypeOK
<1>7. TypeOK'
  BY SessionHoldsRow, FailureType
<1>8. QED
  BY <1>3, <1>5, <1>6, <1>7, ReleaseStep DEF RecordCommit

\* Loading a row, and an exception, leave the table alone.
LEMMA LoadStep ==
  ASSUME QueueInv, NEW w \in Workers, AnalyzeLoad(w) \/ RecordLoad(w)
  PROVE  QueueInv'
<1>. USE DEF QueueInv
<1>1. TypeOK'
  BY LoadType
<1>2. /\ claim[w] \in Boards
      /\ session' = [session EXCEPT ![w] = [session[w] EXCEPT ![claim[w]] = row[claim[w]]]]
      /\ row' = row /\ overran' = overran /\ claim' = claim /\ raised' = raised
      /\ row[claim[w]] # Unloaded
  BY ConstantsAssumption DEF AnalyzeLoad, RecordLoad, PhaseInv, TypeOK, rowVars
<1>3. pc[w] \in {"claimed", "raised"}
  BY DEF AnalyzeLoad, RecordLoad
<1>4. \A c \in Boards : session[w][c] = Unloaded
  BY <1>3 DEF SessionInv
<1>5. /\ pc' = [pc EXCEPT ![w] = pc'[w]]
      /\ pc'[w] \in {"analysing", "recording"}
      /\ pc'[w] = "recording" <=> pc[w] = "raised"
  BY DEF AnalyzeLoad, RecordLoad, TypeOK
<1>6. PhaseInv'
  BY <1>2, <1>3, <1>5 DEF PhaseInv, TypeOK
<1>7. SessionInv'
  <2> SUFFICES ASSUME NEW v \in Workers
               PROVE  /\ \A b \in Boards : session'[v][b] # Unloaded =>
                           \/ pc'[v] = "scanned" /\ overran[b]
                           \/ pc'[v] \in {"analysing", "recording"} /\ claim[v] = b
                      /\ pc'[v] \in {"analysing", "recording"} =>
                           session'[v][claim[v]] # Unloaded
    BY <1>2 DEF SessionInv
  <2>1. CASE v = w
    <3>1. session'[w] = [session[w] EXCEPT ![claim[w]] = row[claim[w]]]
      BY <1>2 DEF TypeOK
    <3>2. session[w] \in [Boards -> Row \cup {Unloaded}]
      BY DEF TypeOK
    <3>3. QED
      BY <1>2, <1>4, <1>5, <2>1, <3>1, <3>2
  <2>2. CASE v # w
    <3>1. session'[v] = session[v] /\ pc'[v] = pc[v]
      BY <1>2, <1>5, <2>2 DEF TypeOK
    <3>2. QED
      BY <3>1 DEF SessionInv
  <2>3. QED
    BY <2>1, <2>2
<1>8. RowInv' /\ ClaimExclusive'
  BY <1>2 DEF RowInv, ClaimExclusive, Working
<1>9. HolderInv'
  <2> SUFFICES ASSUME NEW v \in Workers, claim[v] # NoBoard, ~overran[claim[v]]
               PROVE  /\ \/ row[claim[v]].status = "processing" /\ ~row[claim[v]].analysed
                         \/ /\ pc'[v] = "claimed"
                            /\ row[claim[v]].status = "done" /\ row[claim[v]].analysed
                      /\ pc'[v] \in {"analysing", "recording"} =>
                           session'[v][claim[v]] = row[claim[v]]
    BY <1>2 DEF HolderInv
  <2>1. CASE v = w
    <3>1. session'[w][claim[w]] = row[claim[w]]
      BY <1>2 DEF TypeOK
    <3>2. row[claim[w]].status = "processing" /\ ~row[claim[w]].analysed
      BY <2>1 DEF HolderInv, AnalyzeLoad, RecordLoad
    <3>3. QED
      BY <2>1, <3>1, <3>2
  <2>2. CASE v # w
    <3>1. session'[v] = session[v] /\ pc'[v] = pc[v]
      BY <1>2, <1>5, <2>2 DEF TypeOK
    <3>2. QED
      BY <3>1 DEF HolderInv
  <2>3. QED
    BY <2>1, <2>2
<1>10. QED
  BY <1>1, <1>6, <1>7, <1>8, <1>9

LEMMA AnalyzeRaiseStep ==
  ASSUME QueueInv, NEW w \in Workers, NEW e \in Exceptions, AnalyzeRaise(w, e)
  PROVE  QueueInv'
<1>. USE DEF QueueInv
<1>1. /\ pc[w] = "analysing"
      /\ pc' = [pc EXCEPT ![w] = "raised"]
      /\ session' = [session EXCEPT ![w] = EmptySession]
      /\ raised' = [raised EXCEPT ![w] = e]
      /\ e # "none"
      /\ row' = row /\ overran' = overran /\ claim' = claim
      /\ before' = before /\ faults' = faults
  BY DEF AnalyzeRaise, rowVars, Exceptions
<1>2. TypeOK'
  BY <1>1 DEF TypeOK, Phases, EmptySession
<1>3. PhaseInv'
  BY <1>1 DEF PhaseInv, TypeOK
<1>4. SessionInv'
  BY <1>1 DEF SessionInv, TypeOK, EmptySession
<1>5. RowInv' /\ ClaimExclusive'
  BY <1>1 DEF RowInv, ClaimExclusive, Working
<1>6. HolderInv'
  BY <1>1 DEF HolderInv, TypeOK
<1>7. QED
  BY <1>2, <1>3, <1>4, <1>5, <1>6

\* A crash or a failed transaction.
LEMMA AbandonStep ==
  ASSUME QueueInv, NEW w \in Workers, Abandon(w)
  PROVE  QueueInv'
<1>. USE DEF QueueInv
<1>1. row' = row /\ before' = before /\ overran' = overran /\ Release(w)
  BY DEF Abandon, rowVars
<1>2. faults' \in 0..MaxFaults
  BY ConstantsAssumption DEF Abandon, TypeOK
<1>3. TypeOK'
  BY <1>1, <1>2, ReleaseType DEF TypeOK
<1>4. \A b \in Boards : ~overran[b] =>
        /\ row[b].status \in {"pending", "processing"} => row[b].retries < MaxRetries
        /\ row[b].status = "processing" =>
             row[b].started = "fresh" /\ row[b].requested = "due"
  BY DEF RowInv
<1>5. QED
  BY <1>1, <1>3, <1>4, ReleaseStep

\* Requests touch no board that a worker holds, and the clock marks the claims
\* that it ends as overrun.
LEMMA RequestStep ==
  ASSUME QueueInv, NEW b \in Boards,
         RetryFailedAnalysis(b) \/ GetAnalysis(b) \/ TimePasses(b)
  PROVE  QueueInv'
<1>. USE DEF QueueInv
<1>1. TypeOK'
  BY RequestType
<1>2. /\ pc' = pc /\ claim' = claim /\ session' = session /\ raised' = raised
      /\ \A c \in Boards : overran[c] => overran'[c]
      /\ \A c \in Boards : c # b => row'[c] = row[c] /\ overran'[c] = overran[c]
  BY DEF RetryFailedAnalysis, GetAnalysis, TimePasses, BackoffElapses, ClaimExpires,
         workerVars, TypeOK
<1>3. PhaseInv' /\ SessionInv' /\ ClaimExclusive'
  BY <1>2 DEF PhaseInv, SessionInv, ClaimExclusive, Working
<1>4. ASSUME ~overran'[b]
      PROVE  /\ ~overran[b]
             /\ row'[b].status \in {"pending", "processing"} => row'[b].retries < MaxRetries
             /\ row'[b].status = "processing" =>
                  row'[b].started = "fresh" /\ row'[b].requested = "due"
             /\ \A w \in Workers : claim[w] = b =>
                  /\ pc[w] = "claimed"
                  /\ row'[b].status = "done" /\ row'[b].analysed
  <2>1. row[b] \in Row /\ ~overran[b] /\ b # NoBoard
    BY <1>2, <1>4, ConstantsAssumption DEF TypeOK
  <2>2. CASE RetryFailedAnalysis(b)
    <3>1. row'[b] = Retried(row[b])
      BY <2>2 DEF RetryFailedAnalysis, TypeOK
    <3>2. row'[b].status = "pending" /\ row'[b].retries = 0
      BY <2>1, <3>1 DEF Retried, Row
    <3>3. 0 < MaxRetries
      BY ConstantsAssumption
    <3>4. \A w \in Workers : claim[w] # b
      BY <2>1, <2>2 DEF RetryFailedAnalysis, HolderInv
    <3>5. QED
      BY <2>1, <3>2, <3>3, <3>4
  <2>3. CASE GetAnalysis(b)
    <3>1. row'[b] = MarkDone(row[b])
      BY <2>3 DEF GetAnalysis, TypeOK
    <3>2. row'[b].status = "done"
      <4>1. row'[b] = [row[b] EXCEPT !.status = "done", !.error = "none"]
        BY <2>3, <3>1 DEF GetAnalysis, MarkDone
      <4>2. QED
        BY <2>1, <4>1 DEF Row
    <3>3. \A w \in Workers : claim[w] # b
      BY <2>1, <2>3 DEF GetAnalysis, HolderInv
    <3>4. QED
      BY <2>1, <3>2, <3>3
  <2>4. CASE BackoffElapses(b)
    <3>1. row' = [row EXCEPT ![b] = [row[b] EXCEPT !.requested = "due"]]
      BY <2>4 DEF BackoffElapses
    <3>2. /\ row'[b].status = row[b].status /\ row'[b].retries = row[b].retries
          /\ row'[b].analysed = row[b].analysed
      BY <2>1, <3>1 DEF Row, TypeOK
    <3>3. row[b].status # "processing" /\ row[b].requested = "later"
      BY <2>1, <2>4 DEF BackoffElapses, RowInv
    <3>4. \A w \in Workers : claim[w] = b =>
            pc[w] = "claimed" /\ row[b].status = "done" /\ row[b].analysed
      BY <2>1, <3>3 DEF HolderInv
    <3>5. QED
      BY <2>1, <3>2, <3>3, <3>4 DEF RowInv
  <2>5. CASE ClaimExpires(b)
    BY <1>4, <2>5 DEF ClaimExpires, TypeOK
  <2>6. QED
    BY <2>2, <2>3, <2>4, <2>5 DEF TimePasses
<1>5. RowInv'
  BY <1>2, <1>4 DEF RowInv
<1>6. HolderInv'
  BY <1>2, <1>4 DEF HolderInv, TypeOK
<1>7. QED
  BY <1>1, <1>3, <1>5, <1>6

-----------------------------------------------------------------------------
(* The theorems. *)

\* No worker holds a claim at the start; a row found processing counts as overrun.
LEMMA QueueInit == Init => QueueInv
<1> SUFFICES ASSUME Init PROVE QueueInv
  OBVIOUS
<1>1. \A b \in Boards : row[b] \in InitialRows
  BY DEF Init
<1>2. TypeOK
  BY ConstantsAssumption DEF Init, TypeOK, StrictOrders, EmptySession, Phases
<1>3. PhaseInv /\ SessionInv /\ HolderInv /\ ClaimExclusive
  BY ConstantsAssumption
     DEF Init, PhaseInv, SessionInv, HolderInv, ClaimExclusive, Working, EmptySession
<1>4. RowInv
  BY <1>1, ConstantsAssumption DEF Init, RowInv
<1>5. QED
  BY <1>2, <1>3, <1>4 DEF QueueInv

LEMMA QueueNext == QueueInv /\ [Next]_vars => QueueInv'
<1> SUFFICES ASSUME QueueInv, [Next]_vars PROVE QueueInv'
  OBVIOUS
<1>1. ASSUME NEW w \in Workers, ProcessNextAnalysisJob(w)
      PROVE  QueueInv'
  BY <1>1, ScanStep, ClaimStep, ClaimNothingStep, AnalyzeAnalysedStep, LoadStep,
     AnalyzeCommitStep, AnalyzeRaiseStep, RecordCommitStep
     DEF ProcessNextAnalysisJob, Analyze
<1>2. ASSUME NEW w \in Workers, Abandon(w)
      PROVE  QueueInv'
  BY <1>2, AbandonStep
<1>3. ASSUME NEW b \in Boards,
             RetryFailedAnalysis(b) \/ GetAnalysis(b) \/ TimePasses(b)
      PROVE  QueueInv'
  BY <1>3, RequestStep
<1>4. CASE UNCHANGED vars
  BY <1>4 DEF QueueInv, TypeOK, PhaseInv, SessionInv, RowInv, HolderInv,
              ClaimExclusive, Working, vars
<1>5. QED
  BY <1>1, <1>2, <1>3, <1>4 DEF Next

\* The queue's inductive invariant, for every number of boards and workers, every
\* retry limit and every number of crashes and failed transactions.
THEOREM QueueInvariant == Spec => []QueueInv
BY QueueInit, QueueNext, PTL DEF Spec

\* Type correctness: in particular no commit flushes a row it never loaded.
THEOREM TypeCorrect == Spec => []TypeOK
<1>1. QueueInv => TypeOK
  BY DEF QueueInv
<1>2. QED
  BY <1>1, QueueInvariant, PTL

\* Mutual exclusion: no two workers analyse one board, claims that outlived
\* PROCESSING_STALE_AFTER excepted.
THEOREM Exclusion == Spec => []ClaimExclusive
<1>1. QueueInv => ClaimExclusive
  BY DEF QueueInv
<1>2. QED
  BY <1>1, QueueInvariant, PTL

\* No unfinished board is out of reach of both queries of the claim.
THEOREM NothingStuck == Spec => []NoStuckBoard
<1>1. QueueInv => NoStuckBoard
  BY DEF QueueInv, RowInv, NoStuckBoard
<1>2. QED
  BY <1>1, QueueInvariant, PTL

\* No model call is made for a board that has its analysis.
THEOREM NothingWasted == Spec => []NoWastedAnalysis
<1>1. QueueInv => NoWastedAnalysis
  <2> SUFFICES ASSUME QueueInv, NEW w \in Workers, pc[w] = "analysing",
                      row[claim[w]].analysed, ~overran[claim[w]]
               PROVE  FALSE
    BY DEF NoWastedAnalysis
  <2>1. claim[w] # NoBoard
    BY DEF QueueInv, PhaseInv
  <2>2. QED
    BY <2>1 DEF QueueInv, HolderInv
<1>2. QED
  BY <1>1, QueueInvariant, PTL

-----------------------------------------------------------------------------
(* Action properties.  That analyses are kept needs no more than QueueTyped,  *)
(* which also holds where re-analyses overwrite claimed rows.                 *)

QueueTyped == TypeOK /\ PhaseInv /\ HoldsRow

LEMMA QueueInvTyped == QueueInv => QueueTyped
BY SessionHoldsRow DEF QueueInv, QueueTyped

\* A flush stores what the object changed and keeps what it did not.
LEMMA FlushKeeps ==
  ASSUME NEW stored \in Row, NEW old \in Row, NEW new \in Row,
         stored.analysed, old.analysed => new.analysed
  PROVE  Flush(stored, old, new).analysed
BY DEF Flush, Dirty, Row

\* Stale recovery keeps the analyses that others stored.
LEMMA RecoverKeeps ==
  ASSUME TypeOK, NEW w \in Workers, NEW S, NEW b \in Boards, row[b].analysed
  PROVE  RecoverStale(w, S)[b].analysed
<1>1. row[b] \in Row /\ session[w][b] \in Row \cup {Unloaded}
  BY DEF TypeOK
<1>2. CASE session[w][b] = Unloaded \/ b \in S
  BY <1>2 DEF RecoverStale
<1>3. CASE ~(session[w][b] = Unloaded \/ b \in S)
  <2>1. session[w][b] \in Row
    BY <1>1, <1>3
  <2>2. Recovered(session[w][b]) \in Row
    BY <2>1, ObjectTypes
  <2>3. Recovered(session[w][b]).analysed = session[w][b].analysed
    BY <2>1 DEF Recovered, Row
  <2>4. Flush(row[b], session[w][b], Recovered(session[w][b])).analysed
    BY <1>1, <2>1, <2>2, <2>3, FlushKeeps
  <2>5. QED
    BY <1>3, <2>4 DEF RecoverStale
<1>4. QED
  BY <1>2, <1>3

\* What a step does not undo.
Spared(b) == /\ row[b].analysed => row'[b].analysed
             /\ QueueInv /\ row[b].status = "done" /\ ~overran[b] => row'[b].status = "done"

LEMMA ClaimSpares ==
  ASSUME QueueTyped, NEW w \in Workers, NEW c \in Boards, ClaimBoard(w, c),
         NEW b \in Boards
  PROVE  Spared(b)
<1>. USE DEF QueueTyped
<1>. DEFINE base == RecoverStale(w, {c})
            old == IF session[w][c] = Unloaded THEN row[c] ELSE session[w][c]
            object == IF session[w][c] = Unloaded THEN old ELSE Recovered(old)
            new == IF object.analysed
                   THEN [object EXCEPT !.status = "done", !.error = "none"]
                   ELSE [object EXCEPT !.status = "processing", !.started = "fresh"]
<1>1. base \in [Boards -> Row] /\ base[c] = row[c]
  BY RecoverType DEF RecoverStale
<1>2. row' = [base EXCEPT ![c] = Flush(base[c], old, new)]
  BY DEF ClaimBoard
<1>3. CASE b # c
  <2>1. row'[b] = base[b]
    <3> HIDE DEF base, old, new
    <3>1. QED
      BY <1>1, <1>2, <1>3
  <2>2. row[b].analysed => row'[b].analysed
    BY <2>1, RecoverKeeps
  <2>3. QueueInv /\ ~overran[b] => row'[b] = row[b]
    BY <2>1, RecoverLeaves DEF ClaimBoard, QueueInv
  <2>4. QED
    BY <2>2, <2>3 DEF Spared
<1>4. CASE b = c
  <2>1. row[c] \in Row /\ old \in Row
    BY DEF TypeOK
  <2>2. object \in Row /\ object.analysed = old.analysed
    BY <2>1, ObjectTypes DEF Recovered, Row
  <2>3. new \in Row /\ (old.analysed => new.analysed)
    <3> HIDE DEF object
    <3>1. QED
      BY <2>2 DEF Row, Statuses, Errors
  <2>4. row'[c] = Flush(row[c], old, new)
    <3> HIDE DEF base, old, new
    <3>1. QED
      BY <1>1, <1>2
  <2>5. row[c].analysed => row'[c].analysed
    <3> HIDE DEF old, new
    <3>1. QED
      BY <2>1, <2>3, <2>4, FlushKeeps
  <2>6. row[c].status # "done"
    BY DEF ClaimBoard, Claimable
  <2>7. QED
    BY <1>4, <2>5, <2>6 DEF Spared
<1>5. QED
  BY <1>3, <1>4

\* The outcome of a claim: an undisturbed holder never meets a board that is done.
LEMMA OutcomeSpares ==
  ASSUME QueueTyped, NEW w \in Workers, NEW new \in Row, NEW stored \in Row,
         NEW b \in Boards,
         pc[w] \in {"analysing", "recording"},
         session[w][claim[w]].analysed => new.analysed,
         stored.analysed = Flush(row[claim[w]], session[w][claim[w]], new).analysed,
         row' = [row EXCEPT ![claim[w]] = stored]
  PROVE  Spared(b)
<1>. USE DEF QueueTyped
<1>1. claim[w] \in Boards /\ session[w][claim[w]] \in Row
  BY LoadedType
<1>2. CASE b # claim[w]
  BY <1>1, <1>2 DEF Spared, TypeOK
<1>3. CASE b = claim[w]
  <2>1. row'[b] = stored /\ row[b] \in Row
    BY <1>1, <1>3 DEF TypeOK
  <2>2. row[b].analysed => row'[b].analysed
    BY <1>1, <1>3, <2>1, FlushKeeps
  <2>3. QueueInv => overran[b] \/ row[b].status # "done"
    BY <1>1, <1>3, ConstantsAssumption DEF HolderInv, QueueInv
  <2>4. QED
    BY <2>2, <2>3 DEF Spared
<1>4. QED
  BY <1>2, <1>3

LEMMA WorkerSpares ==
  ASSUME QueueTyped, NEW w \in Workers, ProcessNextAnalysisJob(w) \/ Abandon(w),
         NEW b \in Boards
  PROVE  Spared(b)
<1>. USE DEF QueueTyped
<1>0. row[b] \in Row
  BY DEF TypeOK
<1>1. CASE row' = row
  BY <1>1 DEF Spared
<1>2. CASE ClaimNothing(w)
  <2>1. row'[b] = RecoverStale(w, {})[b] /\ pc[w] = "scanned"
    BY <1>2 DEF ClaimNothing
  <2>2. row[b].analysed => row'[b].analysed
    BY <2>1, RecoverKeeps
  <2>3. QueueInv /\ ~overran[b] => row'[b] = row[b]
    BY <2>1, RecoverLeaves DEF QueueInv
  <2>4. QED
    BY <2>2, <2>3 DEF Spared
<1>3. CASE AnalyzeAnalysed(w)
  <2>1. row' = [row EXCEPT ![claim[w]] = MarkDone(row[claim[w]])]
    BY <1>3 DEF AnalyzeAnalysed
  <2>2. CASE b = claim[w]
    <3>1. row'[b] = MarkDone(row[b])
      BY <2>1, <2>2 DEF TypeOK
    <3>2. MarkDone(row[b]).analysed = row[b].analysed
      BY <1>0 DEF MarkDone, Row
    <3>3. row[b].status = "done" => MarkDone(row[b]) = row[b]
      BY DEF MarkDone
    <3>4. QED
      BY <3>1, <3>2, <3>3 DEF Spared
  <2>3. CASE b # claim[w]
    BY <2>1, <2>3 DEF Spared, TypeOK
  <2>4. QED
    BY <2>2, <2>3
<1>4. CASE AnalyzeCommit(w)
  <2>. DEFINE old == session[w][claim[w]]
              stored == Flush(row[claim[w]], old, Analysed(old))
  <2>1. pc[w] = "analysing" /\ row' = [row EXCEPT ![claim[w]] = stored]
    BY <1>4 DEF AnalyzeCommit
  <2>2. claim[w] \in Boards /\ old \in Row
    BY <2>1, LoadedType
  <2>3. Analysed(old) \in Row /\ Analysed(old).analysed
    BY <2>2, ObjectTypes DEF Analysed, Row
  <2>4. stored \in Row
    BY <2>2, <2>3, FlushType DEF TypeOK
  <2>5. QED
    BY <2>1, <2>3, <2>4, OutcomeSpares
<1>5. CASE RecordCommit(w)
  <2>. DEFINE old == session[w][claim[w]]
              new == Failed(old, raised[w])
              flushed == Flush(row[claim[w]], old, new)
              stored == [flushed EXCEPT !.requested =
                           IF ~GivesUp(old, raised[w]) THEN "later" ELSE @]
  <2>1. pc[w] = "recording" /\ row' = [row EXCEPT ![claim[w]] = stored]
    BY <1>5 DEF RecordCommit
  <2>2. claim[w] \in Boards /\ old \in Row /\ raised[w] \in Exceptions
    BY <2>1, LoadedType DEF PhaseInv, TypeOK
  <2>3. new \in Row /\ new.analysed = old.analysed
    BY <2>2, FailedRow
  <2>4. flushed \in Row
    <3> HIDE DEF new
    <3>1. QED
      BY <2>2, <2>3, FlushType DEF TypeOK
  <2>5. stored \in Row /\ stored.analysed = flushed.analysed
    <3> HIDE DEF flushed
    <3>1. QED
      BY <2>4 DEF Row
  <2> HIDE DEF new, stored
  <2>6. QED
    BY <2>1, <2>3, <2>5, OutcomeSpares
<1>6. QED
  BY <1>1, <1>2, <1>3, <1>4, <1>5, ClaimSpares
     DEF ProcessNextAnalysisJob, Analyze, ScanStale, AnalyzeLoad, AnalyzeRaise,
         RecordLoad, Abandon, rowVars

LEMMA RequestSpares ==
  ASSUME QueueTyped, NEW c \in Boards, NEW b \in Boards,
         RetryFailedAnalysis(c) \/ GetAnalysis(c) \/ TimePasses(c)
  PROVE  Spared(b)
<1>1. row[b] \in Row /\ row[c] \in Row
  BY DEF QueueTyped, TypeOK
<1>2. CASE b # c
  BY <1>2 DEF Spared, QueueTyped, TypeOK, RetryFailedAnalysis, GetAnalysis, TimePasses,
              BackoffElapses, ClaimExpires
<1>3. CASE b = c /\ RetryFailedAnalysis(c)
  <2>1. row'[b] = Retried(row[b]) /\ row[b].status = "failed"
    BY <1>3 DEF RetryFailedAnalysis, QueueTyped, TypeOK
  <2>2. Retried(row[b]).analysed = row[b].analysed
    BY <1>1 DEF Retried, Row
  <2>3. QED
    BY <2>1, <2>2 DEF Spared
<1>4. CASE b = c /\ GetAnalysis(c)
  <2>1. row'[b] = MarkDone(row[b]) /\ row[b].status # "done"
    BY <1>4 DEF GetAnalysis, QueueTyped, TypeOK
  <2>2. MarkDone(row[b]).analysed = row[b].analysed
    BY <1>1 DEF MarkDone, Row
  <2>3. QED
    BY <2>1, <2>2 DEF Spared
<1>5. CASE b = c /\ BackoffElapses(c)
  <2>1. row'[b] = [row[b] EXCEPT !.requested = "due"]
    BY <1>5 DEF BackoffElapses, QueueTyped, TypeOK
  <2>2. QED
    BY <1>1, <2>1 DEF Spared, Row
<1>6. CASE b = c /\ ClaimExpires(c)
  <2>1. row'[b] = [row[b] EXCEPT !.started = "old"]
    BY <1>6 DEF ClaimExpires, QueueTyped, TypeOK
  <2>2. QED
    BY <1>1, <2>1 DEF Spared, Row
<1>7. QED
  BY <1>2, <1>3, <1>4, <1>5, <1>6 DEF TimePasses

LEMMA NextSpares ==
  ASSUME QueueTyped, [Next]_vars, NEW b \in Boards
  PROVE  Spared(b)
<1>1. CASE UNCHANGED vars
  BY <1>1 DEF vars, Spared
<1>2. QED
  BY <1>1, WorkerSpares, RequestSpares DEF Next

\* Whatever commits in between, no flush loses a stored analysis: this holds for
\* overrun claims too, because a flush writes only the columns it changed.
THEOREM AnalysisIsKept == Spec => AnalysisKept
<1>1. QueueInv /\ [Next]_vars =>
        [\A b \in Boards : row[b].analysed => row'[b].analysed]_vars
  BY NextSpares, QueueInvTyped DEF Spared
<1>2. QED
  BY <1>1, QueueInvariant, PTL DEF Spec, AnalysisKept

\* A board that is done stays done as long as none of its claims has overrun.
THEOREM DoneStaysDone == Spec => DoneIsFinal
<1>1. QueueInv /\ [Next]_vars =>
        [\A b \in Boards : row[b].status = "done" /\ ~overran[b] =>
           row'[b].status = "done"]_vars
  BY NextSpares, QueueInvTyped DEF Spared
<1>2. QED
  BY <1>1, QueueInvariant, PTL DEF Spec, DoneIsFinal

-----------------------------------------------------------------------------
(* The lease.  A step changes what LeasedQueue sees of one board at most.      *)

\* LeasedQueue sees no change of b.
Unseen(b) ==
  /\ overran'[b] = overran[b] /\ row'[b].analysed = row[b].analysed
  /\ ~overran[b] => /\ row'[b].status = row[b].status /\ row'[b].retries = row[b].retries
                    /\ \A w \in Workers : claim'[w] = b <=> claim[w] = b

\* Board by board.
LEMMA SeenOf ==
  ASSUME NEW b \in Boards
  PROVE  /\ LeaseStatus[b] = IF overran[b] THEN "lapsed" ELSE row[b].status
         /\ LeaseHolders[b] = IF overran[b] THEN {} ELSE {w \in Workers : claim[w] = b}
         /\ LeaseTries[b] = IF overran[b] THEN 0 ELSE row[b].retries
         /\ LeaseResult[b] = row[b].analysed
         /\ LeaseStatus'[b] = IF overran'[b] THEN "lapsed" ELSE row'[b].status
         /\ LeaseHolders'[b] = IF overran'[b] THEN {} ELSE {w \in Workers : claim'[w] = b}
         /\ LeaseTries'[b] = IF overran'[b] THEN 0 ELSE row'[b].retries
         /\ LeaseResult'[b] = row'[b].analysed
BY DEF LeaseStatus, LeaseHolders, LeaseTries, LeaseResult, Working

\* Two boards that nobody has touched.
LEMMA UnseenSame ==
  ASSUME NEW c \in Boards, Unseen(c)
  PROVE  /\ LeaseStatus'[c] = LeaseStatus[c] /\ LeaseHolders'[c] = LeaseHolders[c]
         /\ LeaseTries'[c] = LeaseTries[c] /\ LeaseResult'[c] = LeaseResult[c]
<1>1. CASE overran[c]
  BY <1>1, SeenOf DEF Unseen
<1>2. CASE ~overran[c]
  <2>1. {w \in Workers : claim'[w] = c} = {w \in Workers : claim[w] = c}
    BY <1>2 DEF Unseen
  <2> QED
    BY <1>2, <2>1, SeenOf DEF Unseen
<1> QED
  BY <1>1, <1>2

\* The functions of the lease are determined board by board.
LEMMA SeenFunctions ==
  /\ LeaseStatus = [b \in Boards |-> LeaseStatus[b]]
  /\ LeaseHolders = [b \in Boards |-> LeaseHolders[b]]
  /\ LeaseTries = [b \in Boards |-> LeaseTries[b]]
  /\ LeaseResult = [b \in Boards |-> LeaseResult[b]]
  /\ LeaseStatus' = [b \in Boards |-> LeaseStatus'[b]]
  /\ LeaseHolders' = [b \in Boards |-> LeaseHolders'[b]]
  /\ LeaseTries' = [b \in Boards |-> LeaseTries'[b]]
  /\ LeaseResult' = [b \in Boards |-> LeaseResult'[b]]
BY DEF LeaseStatus, LeaseHolders, LeaseTries, LeaseResult

\* Steps that change none of the boards, or one.
LEMMA NothingSeen ==
  ASSUME \A b \in Boards : Unseen(b)
  PROVE  UNCHANGED Lease!vars
<1>1. /\ LeaseStatus' = LeaseStatus /\ LeaseHolders' = LeaseHolders
      /\ LeaseTries' = LeaseTries /\ LeaseResult' = LeaseResult
  BY UnseenSame, SeenFunctions
<1> QED
  BY <1>1 DEF Lease!vars

LEMMA OneSeen ==
  ASSUME NEW b \in Boards, \A c \in Boards : c # b => Unseen(c)
  PROVE  /\ LeaseStatus' = [LeaseStatus EXCEPT ![b] = LeaseStatus'[b]]
         /\ LeaseHolders' = [LeaseHolders EXCEPT ![b] = LeaseHolders'[b]]
         /\ LeaseTries' = [LeaseTries EXCEPT ![b] = LeaseTries'[b]]
         /\ LeaseResult' = [LeaseResult EXCEPT ![b] = LeaseResult'[b]]
<1>1. \A c \in Boards : c # b =>
        /\ LeaseStatus'[c] = LeaseStatus[c] /\ LeaseHolders'[c] = LeaseHolders[c]
        /\ LeaseTries'[c] = LeaseTries[c] /\ LeaseResult'[c] = LeaseResult[c]
  BY UnseenSame
<1> QED
  BY <1>1, SeenFunctions

\* What the step leaves of that board, it leaves altogether.
LEMMA ExceptSame ==
  ASSUME NEW S, NEW f, f = [x \in S |-> f[x]], NEW g, NEW b \in S, g[b] = f[b],
         g = [f EXCEPT ![b] = g[b]]
  PROVE  g = f
OBVIOUS

LEMMA SeenKept ==
  ASSUME NEW b \in Boards
  PROVE  /\ LeaseStatus' = [LeaseStatus EXCEPT ![b] = LeaseStatus'[b]] =>
              (LeaseStatus'[b] = LeaseStatus[b] => LeaseStatus' = LeaseStatus)
         /\ LeaseHolders' = [LeaseHolders EXCEPT ![b] = LeaseHolders'[b]] =>
              (LeaseHolders'[b] = LeaseHolders[b] => LeaseHolders' = LeaseHolders)
         /\ LeaseTries' = [LeaseTries EXCEPT ![b] = LeaseTries'[b]] =>
              (LeaseTries'[b] = LeaseTries[b] => LeaseTries' = LeaseTries)
         /\ LeaseResult' = [LeaseResult EXCEPT ![b] = LeaseResult'[b]] =>
              (LeaseResult'[b] = LeaseResult[b] => LeaseResult' = LeaseResult)
<1>1. LeaseStatus' = [LeaseStatus EXCEPT ![b] = LeaseStatus'[b]] =>
        (LeaseStatus'[b] = LeaseStatus[b] => LeaseStatus' = LeaseStatus)
  BY SeenFunctions, ExceptSame
<1>2. LeaseHolders' = [LeaseHolders EXCEPT ![b] = LeaseHolders'[b]] =>
        (LeaseHolders'[b] = LeaseHolders[b] => LeaseHolders' = LeaseHolders)
  BY SeenFunctions, ExceptSame
<1>3. LeaseTries' = [LeaseTries EXCEPT ![b] = LeaseTries'[b]] =>
        (LeaseTries'[b] = LeaseTries[b] => LeaseTries' = LeaseTries)
  BY SeenFunctions, ExceptSame
<1>4. LeaseResult' = [LeaseResult EXCEPT ![b] = LeaseResult'[b]] =>
        (LeaseResult'[b] = LeaseResult[b] => LeaseResult' = LeaseResult)
  BY SeenFunctions, ExceptSame
<1> QED
  BY <1>1, <1>2, <1>3, <1>4

\* A flush of an object whose analysis is as it was loaded.
LEMMA FlushAnalysed ==
  ASSUME NEW stored \in Row, NEW old \in Row, NEW new \in Row, new.analysed = old.analysed
  PROVE  Flush(stored, old, new).analysed = stored.analysed
BY DEF Flush, Dirty, Row

\* Stale recovery changes no analysis.
LEMMA RecoverAnalysed ==
  ASSUME TypeOK, NEW w \in Workers, NEW S, NEW b \in Boards
  PROVE  RecoverStale(w, S)[b].analysed = row[b].analysed
<1>1. row[b] \in Row /\ session[w][b] \in Row \cup {Unloaded}
  BY DEF TypeOK
<1>2. CASE session[w][b] = Unloaded \/ b \in S
  BY <1>2 DEF RecoverStale
<1>3. CASE ~(session[w][b] = Unloaded \/ b \in S)
  <2>1. session[w][b] \in Row
    BY <1>1, <1>3
  <2>2. Recovered(session[w][b]) \in Row
    BY <2>1, ObjectTypes
  <2>3. Recovered(session[w][b]).analysed = session[w][b].analysed
    BY <2>1 DEF Recovered, Row
  <2>4. Flush(row[b], session[w][b], Recovered(session[w][b])).analysed = row[b].analysed
    BY <1>1, <2>1, <2>2, <2>3, FlushAnalysed
  <2> QED
    BY <1>3, <2>4 DEF RecoverStale
<1> QED
  BY <1>2, <1>3

\* How a failure counts for a row that has tries left.
LEMMA FailedTries ==
  ASSUME NEW r \in Row, NEW e \in Exceptions, r.retries < MaxRetries
  PROVE  /\ Failed(r, e).retries \in {r.retries, r.retries + 1}
         /\ Failed(r, e).status = "failed" => Failed(r, e).retries = MaxRetries
<1>. DEFINE counted == Counted(r, e)
            again == BackedOff(counted)
<1>1. r.retries \in Nat /\ MaxRetries \in Nat \ {0}
  BY ConstantsAssumption DEF Row
<1>2. counted \in Row /\ counted.retries = r.retries + 1
  BY CountedRow
<1>3. again \in Row /\ again.status = "pending" /\ again.retries = r.retries + 1
  <2> HIDE DEF counted
  <2>1. QED
    BY <1>2, BackedOffRow
<1>4. Failed(r, e) = CASE e = "retryable" ->
                            [again EXCEPT !.retries = Least(@, MaxRetries - 1)]
                       [] GivesUp(r, e) -> [counted EXCEPT !.status = "failed"]
                       [] OTHER -> again
  BY DEF Failed
<1> HIDE DEF counted, again
<1>5. CASE e = "retryable"
  <2>1. Failed(r, e) = [again EXCEPT !.retries = Least(again.retries, MaxRetries - 1)]
    BY <1>4, <1>5 DEF GivesUp
  <2>2. Least(again.retries, MaxRetries - 1) \in {r.retries, r.retries + 1}
    BY <1>1, <1>3 DEF Least
  <2>3. QED
    BY <1>3, <2>1, <2>2 DEF Row
<1>6. CASE e # "retryable" /\ GivesUp(r, e)
  <2>1. Failed(r, e) = [counted EXCEPT !.status = "failed"]
    BY <1>4, <1>6
  <2>2. r.retries + 1 = MaxRetries
    BY <1>1, <1>6 DEF GivesUp
  <2>3. QED
    BY <1>2, <2>1, <2>2 DEF Row
<1>7. CASE e # "retryable" /\ ~GivesUp(r, e)
  <2>1. Failed(r, e) = again
    BY <1>4, <1>7
  <2>3. QED
    BY <1>3, <2>1
<1>8. QED
  BY <1>5, <1>6, <1>7

\* A worker that has no board to lose, or one that has lapsed.
LEMMA ReleaseUnseen ==
  ASSUME QueueInv, NEW w \in Workers, Release(w), overran' = overran,
         claim[w] = NoBoard \/ overran[claim[w]],
         \A c \in Boards : ~overran[c] => row'[c] = row[c],
         \A c \in Boards : row'[c].analysed = row[c].analysed
  PROVE  \A c \in Boards : Unseen(c)
<1>1. claim' = [claim EXCEPT ![w] = NoBoard] /\ claim \in [Workers -> Boards \cup {NoBoard}]
  BY DEF Release, QueueInv, TypeOK
<1>2. NoBoard \notin Boards
  BY ConstantsAssumption
<1>3. ASSUME NEW c \in Boards, ~overran[c], NEW v \in Workers PROVE claim'[v] = c <=> claim[v] = c
  <2>1. CASE v = w
    BY <1>1, <1>2, <1>3, <2>1
  <2>2. CASE v # w
    BY <1>1, <2>2
  <2> QED
    BY <2>1, <2>2
<1> QED
  BY <1>3 DEF Unseen

\* A worker that gives back the board it holds.
LEMMA GivenBack ==
  ASSUME QueueInv, NEW w \in Workers, Release(w), overran' = overran,
         NEW b \in Boards, b = claim[w], ~overran[b],
         \A c \in Boards : c # b => row'[c] = row[c]
  PROVE  /\ Lease!GiveBack(w, b)
         /\ \A c \in Boards : c # b => Unseen(c)
<1>1. claim' = [claim EXCEPT ![w] = NoBoard] /\ claim \in [Workers -> Boards \cup {NoBoard}]
  BY DEF Release, QueueInv, TypeOK
<1>2. NoBoard \notin Boards
  BY ConstantsAssumption
<1>3. ASSUME NEW c \in Boards, c # b, NEW v \in Workers PROVE claim'[v] = c <=> claim[v] = c
  <2>1. CASE v = w
    BY <1>1, <1>2, <1>3, <2>1
  <2>2. CASE v # w
    BY <1>1, <2>2
  <2> QED
    BY <2>1, <2>2
<1>4. \A c \in Boards : c # b => Unseen(c)
  BY <1>3 DEF Unseen
<1>5. {v \in Workers : claim[v] = b} = {w}
  BY DEF QueueInv, ClaimExclusive, Working
<1>6. {v \in Workers : claim'[v] = b} = {}
  <2>1. ASSUME NEW v \in Workers PROVE claim'[v] # b
    <3>1. CASE v = w
      BY <1>1, <1>2, <3>1
    <3>2. CASE v # w
      BY <1>1, <1>5, <3>2
    <3> QED
      BY <3>1, <3>2
  <2> QED
    BY <2>1
<1>7. LeaseHolders[b] = {w} /\ LeaseHolders'[b] = {}
  BY <1>5, <1>6, SeenOf
<1> QED
  BY <1>4, <1>7, OneSeen DEF Lease!GiveBack

\* A claim takes the board, or settles it if it has an analysis.  The boards that the
\* same transaction recovers have lapsed.
LEMMA LeaseOfClaim ==
  ASSUME QueueInv, NEW w \in Workers, NEW b \in Boards, ClaimBoard(w, b)
  PROVE  [Lease!Next]_(Lease!vars)
<1>. DEFINE base == RecoverStale(w, {b})
            old == IF session[w][b] = Unloaded THEN row[b] ELSE session[w][b]
            object == IF session[w][b] = Unloaded THEN old ELSE Recovered(old)
            new == IF object.analysed
                   THEN [object EXCEPT !.status = "done", !.error = "none"]
                   ELSE [object EXCEPT !.status = "processing", !.started = "fresh"]
<1>1. /\ pc[w] = "scanned" /\ claim[w] = NoBoard /\ NoBoard \notin Boards
      /\ claim' = [claim EXCEPT ![w] = b] /\ claim \in [Workers -> Boards \cup {NoBoard}]
      /\ overran' = overran
      /\ Claimable(row[b])
      /\ row \in [Boards -> Row]
  BY ConstantsAssumption DEF ClaimBoard, QueueInv, PhaseInv, TypeOK
<1>2. base \in [Boards -> Row]
  BY RecoverType DEF QueueInv
<1>3. row' = [base EXCEPT ![b] = Flush(base[b], old, new)]
  BY DEF ClaimBoard
<1>4. old \in Row /\ session[w][b] \in Row \cup {Unloaded}
  BY <1>1 DEF QueueInv, TypeOK
<1>5. object \in Row /\ object.analysed = old.analysed
  <2>1. Recovered(old) \in Row /\ Recovered(old).analysed = old.analysed
    BY <1>4, ObjectTypes DEF Recovered, Row
  <2> HIDE DEF old
  <2> QED
    BY <1>4, <2>1
<1>6. /\ new \in Row /\ new.analysed = old.analysed /\ new.retries = object.retries
      /\ new.status = IF object.analysed THEN "done" ELSE "processing"
  <2> HIDE DEF object
  <2> QED
    BY <1>5 DEF Row, Statuses, Errors
<1> HIDE DEF base, new
<1>7. \A c \in Boards : c # b => row'[c] = base[c]
  BY <1>2, <1>3
<1>8. row'[b] = Flush(base[b], old, new)
  BY <1>2, <1>3
<1>9. \A c \in Boards : ~overran[c] => base[c] = row[c]
  BY <1>1, RecoverLeaves DEF QueueInv, base
<1>10. \A c \in Boards : base[c].analysed = row[c].analysed
  BY RecoverAnalysed DEF QueueInv, base
<1>11. row'[b].analysed = row[b].analysed
  <2>1. base[b] \in Row
    BY <1>2
  <2>2. Flush(base[b], old, new).analysed = base[b].analysed
    BY <1>4, <1>6, <2>1, FlushAnalysed
  <2> QED
    BY <1>8, <1>10, <2>2
<1>12. ASSUME NEW c \in Boards, c # b PROVE Unseen(c)
  <2>1. row'[c].analysed = row[c].analysed /\ (~overran[c] => row'[c] = row[c])
    BY <1>7, <1>9, <1>10, <1>12
  <2>2. ASSUME NEW v \in Workers PROVE claim'[v] = c <=> claim[v] = c
    <3>1. CASE v = w
      BY <1>1, <1>12, <3>1
    <3>2. CASE v # w
      BY <1>1, <3>2
    <3> QED
      BY <3>1, <3>2
  <2> QED
    BY <1>1, <2>1, <2>2 DEF Unseen
<1>13. CASE overran[b]
  <2>1. Unseen(b)
    BY <1>1, <1>11, <1>13 DEF Unseen
  <2> QED
    BY <1>12, <2>1, NothingSeen
<1>14. CASE ~overran[b]
  <2>1. session[w][b] = Unloaded
    BY <1>1, <1>14 DEF QueueInv, SessionInv
  <2>2. old = row[b] /\ object = row[b]
    BY <2>1
  <2>3. row'[b] = new
    <3>1. base[b] = row[b] /\ row[b] \in Row
      BY <1>1, <1>9, <1>14
    <3> QED
      BY <1>6, <1>8, <2>2, <3>1, FlushSame
  <2>4. /\ row'[b].status = IF row[b].analysed THEN "done" ELSE "processing"
        /\ row'[b].retries = row[b].retries
    <3> HIDE DEF object, old
    <3> QED
      BY <1>6, <2>2, <2>3
  <2>5. row[b].status \in {"pending", "failed"} /\ row[b].retries < MaxRetries
    BY <1>1 DEF Claimable
  <2>6. \A v \in Workers : claim[v] # b
    BY <1>1, <1>14, <2>5, ClaimableIsFree DEF QueueInv
  <2>7. LeaseHolders[b] = {} /\ LeaseHolders'[b] = {w}
    <3>1. {v \in Workers : claim[v] = b} = {}
      BY <2>6
    <3>2. {v \in Workers : claim'[v] = b} = {w}
      BY <1>1, <2>6
    <3> QED
      BY <1>1, <1>14, <3>1, <3>2, SeenOf
  <2>8. \A c \in Boards : w \notin LeaseHolders[c]
    BY <1>1, SeenOf
  <2>9. /\ LeaseStatus[b] \in {"pending", "failed"} /\ LeaseTries[b] < MaxRetries
        /\ LeaseStatus'[b] = IF LeaseResult[b] THEN "done" ELSE "processing"
        /\ LeaseTries'[b] = LeaseTries[b] /\ LeaseResult'[b] = LeaseResult[b]
    BY <1>1, <1>11, <1>14, <2>4, <2>5, SeenOf
  <2>10. /\ LeaseStatus' = [LeaseStatus EXCEPT ![b] = LeaseStatus'[b]]
         /\ LeaseHolders' = [LeaseHolders EXCEPT ![b] = LeaseHolders'[b]]
         /\ LeaseTries' = [LeaseTries EXCEPT ![b] = LeaseTries'[b]]
         /\ LeaseResult' = [LeaseResult EXCEPT ![b] = LeaseResult'[b]]
    BY <1>12, OneSeen
  <2>11. LeaseTries' = LeaseTries /\ LeaseResult' = LeaseResult
    BY <2>9, <2>10, SeenKept
  <2>12. Lease!Take(w, b)
    BY <2>5, <2>7, <2>8, <2>9, <2>10, <2>11 DEF Lease!Take
  <2> QED
    BY <2>12 DEF Lease!Next
<1> QED
  BY <1>13, <1>14

\* The outcome of a claim is given back, unless the claim has lapsed.
LEMMA LeaseOfAnswer ==
  ASSUME QueueInv, NEW w \in Workers, AnalyzeCommit(w)
  PROVE  [Lease!Next]_(Lease!vars)
<1>. DEFINE b == claim[w]
            old == session[w][b]
            flushed == Flush(row[b], old, Analysed(old))
<1>1. b \in Boards /\ old \in Row /\ row[b] \in Row /\ row \in [Boards -> Row]
  BY SessionHoldsRow, LoadedType DEF AnalyzeCommit, QueueInv, TypeOK
<1>2. Release(w) /\ overran' = overran /\ pc[w] = "analysing" /\ NoBoard \notin Boards
  BY ConstantsAssumption DEF AnalyzeCommit
<1>3. Analysed(old) \in Row /\ Analysed(old).analysed = TRUE
      /\ Analysed(old).status = "done" /\ Analysed(old).retries = old.retries
  BY <1>1, ObjectTypes DEF Analysed, Row
<1>4. row' = [row EXCEPT ![b] = flushed]
  BY DEF AnalyzeCommit
<1>5. flushed.analysed \in {TRUE, row[b].analysed}
  BY <1>3 DEF Flush, Dirty
<1> HIDE DEF flushed, old
<1>6. row'[b] = flushed /\ \A c \in Boards : c # b => row'[c] = row[c]
  BY <1>1, <1>4
<1>7. CASE overran[b]
  <2>1. \A c \in Boards : ~overran[c] => row'[c] = row[c]
    BY <1>6, <1>7
  <2>2. CASE flushed.analysed = row[b].analysed
    <3>1. \A c \in Boards : row'[c].analysed = row[c].analysed
      BY <1>6, <2>2
    <3> QED
      BY <1>2, <1>7, <2>1, <3>1, ReleaseUnseen, NothingSeen
  <2>3. CASE flushed.analysed = TRUE
    <3>1. \A c \in Boards : c # b => Unseen(c)
      <4>1. claim' = [claim EXCEPT ![w] = NoBoard] /\ claim \in [Workers -> Boards \cup {NoBoard}]
        BY <1>2 DEF Release, QueueInv, TypeOK
      <4>2. ASSUME NEW c \in Boards, c # b, NEW v \in Workers PROVE claim'[v] = c <=> claim[v] = c
        <5>1. CASE v = w
          BY <1>2, <4>1, <4>2, <5>1
        <5>2. CASE v # w
          BY <4>1, <5>2
        <5> QED
          BY <5>1, <5>2
      <4> QED
        BY <1>2, <1>6, <4>2 DEF Unseen
    <3>2. /\ LeaseStatus[b] = "lapsed" /\ LeaseStatus'[b] = LeaseStatus[b]
          /\ LeaseHolders'[b] = LeaseHolders[b]
          /\ LeaseTries'[b] = LeaseTries[b] /\ LeaseResult'[b] = TRUE
      BY <1>1, <1>2, <1>6, <1>7, <2>3, SeenOf, ZenonT(40)
    <3> HIDE DEF b
    <3>3. /\ LeaseStatus' = [LeaseStatus EXCEPT ![b] = LeaseStatus'[b]]
          /\ LeaseHolders' = [LeaseHolders EXCEPT ![b] = LeaseHolders'[b]]
          /\ LeaseTries' = [LeaseTries EXCEPT ![b] = LeaseTries'[b]]
          /\ LeaseResult' = [LeaseResult EXCEPT ![b] = LeaseResult'[b]]
      BY <1>1, <3>1, OneSeen
    <3>4. LeaseStatus' = LeaseStatus /\ LeaseHolders' = LeaseHolders /\ LeaseTries' = LeaseTries
      <4>1. LeaseStatus' = LeaseStatus
        BY <1>1, <3>2, <3>3, SeenKept
      <4>2. LeaseHolders' = LeaseHolders
        BY <1>1, <3>2, <3>3, SeenKept
      <4>3. LeaseTries' = LeaseTries
        BY <1>1, <3>2, <3>3, SeenKept
      <4> QED
        BY <4>1, <4>2, <4>3
    <3>5. Lease!AnswerLate(b)
      BY <3>2, <3>3, <3>4 DEF Lease!AnswerLate
    <3> QED
      BY <1>1, <3>5 DEF Lease!Next
  <2> QED
    BY <1>5, <2>2, <2>3
<1>8. CASE ~overran[b]
  <2>1. old = row[b] /\ row[b].status = "processing" /\ ~row[b].analysed
    BY <1>1, <1>2, <1>8 DEF QueueInv, HolderInv, old
  <2>2. flushed = Analysed(old)
    BY <1>1, <1>3, <2>1, FlushSame DEF flushed
  <2>3. Lease!GiveBack(w, b) /\ \A c \in Boards : c # b => Unseen(c)
    BY <1>1, <1>2, <1>6, <1>8, GivenBack
  <2>4. /\ LeaseStatus[b] = "processing" /\ ~LeaseResult[b]
        /\ LeaseStatus'[b] = "done" /\ LeaseResult'[b] = TRUE
        /\ LeaseTries'[b] = LeaseTries[b]
    <3>1. row'[b].status = "done" /\ row'[b].analysed = TRUE /\ row'[b].retries = row[b].retries
      BY <1>3, <1>6, <2>1, <2>2
    <3> HIDE DEF b
    <3> QED
      BY <1>1, <1>2, <1>8, <2>1, <3>1, SeenOf
  <2> HIDE DEF b
  <2>5. /\ LeaseStatus' = [LeaseStatus EXCEPT ![b] = LeaseStatus'[b]]
        /\ LeaseTries' = [LeaseTries EXCEPT ![b] = LeaseTries'[b]]
        /\ LeaseResult' = [LeaseResult EXCEPT ![b] = LeaseResult'[b]]
    BY <1>1, <2>3, OneSeen
  <2>6. LeaseTries' = LeaseTries
    BY <1>1, <2>4, <2>5, SeenKept
  <2>7. Lease!Answer(w, b)
    BY <2>3, <2>4, <2>5, <2>6 DEF Lease!Answer
  <2> QED
    BY <1>1, <2>7 DEF Lease!Next
<1> QED
  BY <1>7, <1>8

\* A failure is given back with the tries that remain.
LEMMA LeaseOfFailure ==
  ASSUME QueueInv, NEW w \in Workers, RecordCommit(w)
  PROVE  [Lease!Next]_(Lease!vars)
<1>. DEFINE b == claim[w]
            old == session[w][b]
            failed == Failed(old, raised[w])
            flushed == Flush(row[b], old, failed)
            stored == [flushed EXCEPT !.requested =
                         IF ~GivesUp(old, raised[w]) THEN "later" ELSE @]
<1>1. /\ b \in Boards /\ old \in Row /\ row[b] \in Row /\ row \in [Boards -> Row]
      /\ raised[w] \in Exceptions
  BY SessionHoldsRow, LoadedType DEF RecordCommit, QueueInv, TypeOK, PhaseInv
<1>2. Release(w) /\ overran' = overran /\ pc[w] = "recording" /\ NoBoard \notin Boards
  BY ConstantsAssumption DEF RecordCommit
<1>3. failed \in Row /\ failed.analysed = old.analysed /\ failed.status \in {"pending", "failed"}
      /\ (failed.status = "pending" => failed.retries < MaxRetries)
  BY <1>1, FailedRow
<1>4. flushed \in Row /\ flushed.analysed = row[b].analysed
  <2> HIDE DEF failed, old
  <2> QED
    BY <1>1, <1>3, FlushType, FlushAnalysed
<1>5. row' = [row EXCEPT ![b] = stored]
  BY DEF RecordCommit
<1>6. /\ stored.status = flushed.status /\ stored.retries = flushed.retries
      /\ stored.analysed = flushed.analysed
  <2> HIDE DEF flushed
  <2>1. QED
    BY <1>4 DEF Row
<1> HIDE DEF stored
<1>7. row'[b] = stored /\ \A c \in Boards : c # b => row'[c] = row[c]
  BY <1>1, <1>5
<1>8. CASE overran[b]
  <2>1. \A c \in Boards : ~overran[c] => row'[c] = row[c]
    BY <1>7, <1>8
  <2>2. \A c \in Boards : row'[c].analysed = row[c].analysed
    BY <1>4, <1>6, <1>7
  <2> QED
    BY <1>2, <1>8, <2>1, <2>2, ReleaseUnseen, NothingSeen
<1>9. CASE ~overran[b]
  <2>1. old = row[b] /\ row[b].status = "processing"
    BY <1>1, <1>2, <1>9 DEF QueueInv, HolderInv
  <2>2. row[b].retries < MaxRetries
    BY <1>1, <1>9, <2>1 DEF QueueInv, RowInv
  <2>3. flushed = failed
    <3> HIDE DEF failed, old
    <3> QED
      BY <1>1, <1>3, <2>1, FlushSame
  <2>4. /\ failed.retries \in {row[b].retries, row[b].retries + 1}
        /\ failed.status = "failed" => failed.retries = MaxRetries
    BY <1>1, <2>1, <2>2, FailedTries
  <2>5. Lease!GiveBack(w, b) /\ \A c \in Boards : c # b => Unseen(c)
    BY <1>1, <1>2, <1>7, <1>9, GivenBack
  <2> HIDE DEF failed, flushed, old
  <2>6. /\ LeaseStatus[b] = "processing" /\ LeaseTries[b] = row[b].retries
        /\ LeaseStatus'[b] = failed.status /\ LeaseTries'[b] = failed.retries
        /\ LeaseResult'[b] = LeaseResult[b]
    BY <1>1, <1>2, <1>4, <1>6, <1>7, <1>9, <2>1, <2>3, SeenOf
  <2> HIDE DEF b
  <2>7. /\ LeaseStatus' = [LeaseStatus EXCEPT ![b] = failed.status]
        /\ LeaseTries' = [LeaseTries EXCEPT ![b] = failed.retries]
        /\ LeaseResult' = [LeaseResult EXCEPT ![b] = LeaseResult'[b]]
    BY <1>1, <2>5, <2>6, OneSeen
  <2>8. LeaseResult' = LeaseResult
    BY <1>1, <2>6, <2>7, SeenKept
  <2>9. \/ failed.retries < MaxRetries /\ failed.status = "pending"
        \/ failed.retries = MaxRetries /\ failed.status = "failed"
    BY <1>3, <2>4
  <2>10. failed.retries \in {LeaseTries[b], LeaseTries[b] + 1}
    BY <2>4, <2>6
  <2>11. Lease!Fail(w, b)
    BY <2>5, <2>6, <2>7, <2>8, <2>9, <2>10 DEF Lease!Fail
  <2> QED
    BY <1>1, <2>11 DEF Lease!Next
<1> QED
  BY <1>8, <1>9

\* A board that is given back as it is.
LEMMA LeaseOfLeave ==
  ASSUME QueueInv, NEW w \in Workers, Release(w), overran' = overran,
         claim[w] \in Boards, ~overran[claim[w]], row' = row
  PROVE  [Lease!Next]_(Lease!vars)
<1>1. PICK b \in Boards : b = claim[w]
  OBVIOUS
<1>2. Lease!GiveBack(w, b) /\ \A c \in Boards : c # b => Unseen(c)
  BY <1>1, GivenBack
<1>3. /\ LeaseStatus'[b] = LeaseStatus[b] /\ LeaseTries'[b] = LeaseTries[b]
      /\ LeaseResult'[b] = LeaseResult[b]
  BY <1>1, SeenOf
<1>4. /\ LeaseStatus' = [LeaseStatus EXCEPT ![b] = LeaseStatus'[b]]
      /\ LeaseTries' = [LeaseTries EXCEPT ![b] = LeaseTries'[b]]
      /\ LeaseResult' = [LeaseResult EXCEPT ![b] = LeaseResult'[b]]
  BY <1>2, OneSeen
<1>5. LeaseStatus' = LeaseStatus
  BY <1>3, <1>4, SeenKept
<1>6. LeaseTries' = LeaseTries
  BY <1>3, <1>4, SeenKept
<1>7. LeaseResult' = LeaseResult
  BY <1>3, <1>4, SeenKept
<1>8. Lease!Leave(w, b)
  BY <1>2, <1>5, <1>6, <1>7 DEF Lease!Leave
<1> QED
  BY <1>8 DEF Lease!Next

\* The other steps of a worker.
LEMMA LeaseOfWorker ==
  ASSUME QueueInv, NEW w \in Workers, ProcessNextAnalysisJob(w) \/ Abandon(w)
  PROVE  [Lease!Next]_(Lease!vars)
<1>0. /\ row \in [Boards -> Row] /\ claim[w] \in Boards \cup {NoBoard} /\ NoBoard \notin Boards
  BY ConstantsAssumption DEF QueueInv, TypeOK
<1>1. ASSUME row' = row, overran' = overran, claim' = claim PROVE UNCHANGED Lease!vars
  <2>1. \A b \in Boards : Unseen(b)
    BY <1>1 DEF Unseen
  <2> QED
    BY <2>1, NothingSeen
<1>2. CASE ScanStale(w) \/ AnalyzeLoad(w) \/ RecordLoad(w) \/ \E e \in Exceptions : AnalyzeRaise(w, e)
  <2>1. row' = row /\ overran' = overran /\ claim' = claim
    BY <1>2 DEF ScanStale, AnalyzeLoad, RecordLoad, AnalyzeRaise, rowVars
  <2> QED
    BY <1>1, <2>1
<1>3. CASE ClaimNothing(w)
  <2>1. /\ Release(w) /\ overran' = overran /\ pc[w] = "scanned"
        /\ claim[w] = NoBoard /\ row' = RecoverStale(w, {})
    BY <1>3 DEF ClaimNothing, QueueInv, PhaseInv
  <2>2. \A c \in Boards : ~overran[c] => row'[c] = row[c]
    BY <2>1, RecoverLeaves DEF QueueInv
  <2>3. \A c \in Boards : row'[c].analysed = row[c].analysed
    BY <2>1, RecoverAnalysed DEF QueueInv
  <2> QED
    BY <2>1, <2>2, <2>3, ReleaseUnseen, NothingSeen
<1>4. CASE AnalyzeAnalysed(w)
  <2>1. /\ Release(w) /\ overran' = overran /\ pc[w] = "claimed" /\ claim[w] \in Boards
        /\ row[claim[w]].analysed
        /\ row' = [row EXCEPT ![claim[w]] = MarkDone(row[claim[w]])]
    BY <1>0, <1>4 DEF AnalyzeAnalysed, QueueInv, PhaseInv
  <2>2. MarkDone(row[claim[w]]).analysed = row[claim[w]].analysed
    BY <1>0, <2>1 DEF MarkDone, Row
  <2>3. CASE overran[claim[w]]
    <3>1. \A c \in Boards : ~overran[c] => row'[c] = row[c]
      BY <1>0, <2>1, <2>3
    <3>2. \A c \in Boards : row'[c].analysed = row[c].analysed
      BY <1>0, <2>1, <2>2
    <3> QED
      BY <2>1, <2>3, <3>1, <3>2, ReleaseUnseen, NothingSeen
  <2>4. CASE ~overran[claim[w]]
    <3>1. row[claim[w]].status = "done"
      BY <1>0, <2>1, <2>4 DEF QueueInv, HolderInv
    <3>2. MarkDone(row[claim[w]]) = row[claim[w]]
      BY <3>1 DEF MarkDone
    <3>3. row' = row
      BY <1>0, <2>1, <3>2
    <3> QED
      BY <2>1, <2>4, <3>3, LeaseOfLeave
  <2> QED
    BY <2>3, <2>4
<1>5. CASE Abandon(w)
  <2>1. Release(w) /\ overran' = overran /\ row' = row
    BY <1>5 DEF Abandon, rowVars
  <2>2. CASE claim[w] = NoBoard \/ overran[claim[w]]
    BY <2>1, <2>2, ReleaseUnseen, NothingSeen
  <2>3. CASE claim[w] \in Boards /\ ~overran[claim[w]]
    BY <2>1, <2>3, LeaseOfLeave
  <2> QED
    BY <1>0, <2>2, <2>3
<1>6. CASE AnalyzeCommit(w)
  BY <1>6, LeaseOfAnswer
<1>7. CASE RecordCommit(w)
  BY <1>7, LeaseOfFailure
<1>8. CASE \E b \in Boards : ClaimBoard(w, b)
  BY <1>8, LeaseOfClaim
<1> QED
  BY <1>2, <1>3, <1>4, <1>5, <1>6, <1>7, <1>8 DEF ProcessNextAnalysisJob, Analyze

\* A board that waits for its result has none: what LeasedQueue itself keeps true.
OpenInv == \A b \in Boards : LeaseStatus[b] = "processing" => ~LeaseResult[b]

\* A request or the clock changes one row and no claim.
LEMMA RequestSeen ==
  ASSUME QueueInv, NEW b \in Boards, NEW r \in Row, row' = [row EXCEPT ![b] = r],
         r.analysed = row[b].analysed, claim' = claim, overran' = overran
  PROVE  IF overran[b]
         THEN UNCHANGED Lease!vars
         ELSE /\ LeaseStatus[b] = row[b].status
              /\ LeaseStatus' = [LeaseStatus EXCEPT ![b] = r.status]
              /\ LeaseTries' = [LeaseTries EXCEPT ![b] = r.retries]
              /\ LeaseTries[b] = row[b].retries
              /\ LeaseHolders' = LeaseHolders /\ LeaseResult' = LeaseResult
              /\ row[b].status \in {"pending", "failed"} => LeaseHolders[b] = {}
<1>1. row'[b] = r /\ \A c \in Boards : c # b => row'[c] = row[c]
  BY DEF QueueInv, TypeOK
<1>2. \A c \in Boards : c # b => Unseen(c)
  BY <1>1 DEF Unseen
<1>3. CASE overran[b]
  <2>1. Unseen(b)
    BY <1>1, <1>3 DEF Unseen
  <2> QED
    BY <1>2, <1>3, <2>1, NothingSeen
<1>4. CASE ~overran[b]
  <2>1. /\ LeaseStatus' = [LeaseStatus EXCEPT ![b] = LeaseStatus'[b]]
        /\ LeaseHolders' = [LeaseHolders EXCEPT ![b] = LeaseHolders'[b]]
        /\ LeaseTries' = [LeaseTries EXCEPT ![b] = LeaseTries'[b]]
        /\ LeaseResult' = [LeaseResult EXCEPT ![b] = LeaseResult'[b]]
    BY <1>2, OneSeen
  <2>2. /\ LeaseStatus[b] = row[b].status /\ LeaseTries[b] = row[b].retries
        /\ LeaseHolders[b] = {w \in Workers : claim[w] = b}
        /\ LeaseStatus'[b] = r.status /\ LeaseTries'[b] = r.retries
        /\ LeaseHolders'[b] = LeaseHolders[b] /\ LeaseResult'[b] = LeaseResult[b]
    BY <1>1, <1>4, SeenOf
  <2>3. LeaseResult' = LeaseResult
    BY <2>1, <2>2, SeenKept
  <2>4. LeaseHolders' = LeaseHolders
    BY <2>1, <2>2, SeenKept
  <2>5. ASSUME row[b].status \in {"pending", "failed"} PROVE LeaseHolders[b] = {}
    <3>1. \A w \in Workers : claim[w] # b
      BY <1>4, <2>5, ClaimableIsFree, ConstantsAssumption DEF QueueInv
    <3> QED
      BY <2>2, <3>1
  <2> QED
    BY <1>4, <2>1, <2>2, <2>3, <2>4, <2>5
<1> QED
  BY <1>3, <1>4

\* A retry of the administrator, and a reader who sees an analysed board.
LEMMA LeaseOfRequest ==
  ASSUME QueueInv, OpenInv, NEW b \in Boards, RetryFailedAnalysis(b) \/ GetAnalysis(b)
  PROVE  [Lease!Next]_(Lease!vars)
<1>1. /\ claim' = claim /\ overran' = overran /\ row \in [Boards -> Row] /\ row[b] \in Row
  BY DEF RetryFailedAnalysis, GetAnalysis, workerVars, QueueInv, TypeOK
<1>2. CASE RetryFailedAnalysis(b)
  <2>1. Greatest(row[b].priority, UserPriority) \in Nat
    BY <1>1, ConstantsAssumption DEF Greatest, Row
  <2>2. PICK r : r = Retried(row[b])
    OBVIOUS
  <2>3. /\ r \in Row /\ r.analysed = row[b].analysed
        /\ r.status = "pending" /\ r.retries = 0
    BY <1>1, <2>1, <2>2 DEF Retried, Row, Statuses, Errors
  <2>4. row' = [row EXCEPT ![b] = r] /\ row[b].status = "failed"
    BY <1>2, <2>2 DEF RetryFailedAnalysis
  <2>5. CASE overran[b]
    BY <1>1, <2>3, <2>4, <2>5, RequestSeen
  <2>6. CASE ~overran[b]
    <3>1. /\ LeaseStatus[b] = "failed" /\ LeaseHolders[b] = {}
          /\ LeaseStatus' = [LeaseStatus EXCEPT ![b] = "pending"]
          /\ LeaseTries' = [LeaseTries EXCEPT ![b] = 0]
          /\ LeaseHolders' = LeaseHolders /\ LeaseResult' = LeaseResult
      BY <1>1, <2>3, <2>4, <2>6, RequestSeen
    <3>2. Lease!Reopen(b)
      BY <3>1 DEF Lease!Reopen
    <3> QED
      BY <3>2 DEF Lease!Next
  <2> QED
    BY <2>5, <2>6
<1>3. CASE GetAnalysis(b)
  <2>2. PICK r : r = MarkDone(row[b])
    OBVIOUS
  <2>3. /\ r \in Row /\ r.analysed = row[b].analysed
        /\ r.status = "done" /\ r.retries = row[b].retries
    BY <1>1, <1>3, <2>2 DEF GetAnalysis, MarkDone, Row, Statuses, Errors
  <2>4. row' = [row EXCEPT ![b] = r] /\ row[b].analysed /\ row[b].status # "done"
    BY <1>3, <2>2 DEF GetAnalysis
  <2>5. CASE overran[b]
    BY <1>1, <2>3, <2>4, <2>5, RequestSeen
  <2>6. CASE ~overran[b]
    <3>1. /\ LeaseStatus[b] = row[b].status
          /\ LeaseStatus' = [LeaseStatus EXCEPT ![b] = "done"]
          /\ LeaseTries' = [LeaseTries EXCEPT ![b] = row[b].retries]
          /\ LeaseTries[b] = row[b].retries
          /\ LeaseHolders' = LeaseHolders /\ LeaseResult' = LeaseResult
          /\ row[b].status \in {"pending", "failed"} => LeaseHolders[b] = {}
      <4>1. /\ LeaseStatus[b] = row[b].status
            /\ LeaseStatus' = [LeaseStatus EXCEPT ![b] = r.status]
            /\ LeaseTries' = [LeaseTries EXCEPT ![b] = r.retries]
            /\ LeaseTries[b] = row[b].retries
            /\ LeaseHolders' = LeaseHolders /\ LeaseResult' = LeaseResult
            /\ row[b].status \in {"pending", "failed"} => LeaseHolders[b] = {}
        BY <1>1, <2>3, <2>4, <2>6, RequestSeen
      <4> QED
        BY <2>3, <4>1
    <3>2. LeaseTries' = LeaseTries
      <4>1. DOMAIN LeaseTries = Boards
        BY DEF LeaseTries
      <4>2. LeaseTries'[b] = row[b].retries
        BY <3>1, <4>1
      <4> QED
        BY <3>1, <4>2, SeenKept
    <3>3. LeaseResult[b] /\ row[b].status # "processing"
      BY <2>4, <3>1, SeenOf DEF OpenInv
    <3>4. LeaseStatus[b] \in {"pending", "failed"} /\ LeaseHolders[b] = {}
      BY <1>1, <2>4, <3>1, <3>3 DEF Row, Statuses
    <3>5. Lease!Notice(b)
      BY <3>1, <3>2, <3>3, <3>4 DEF Lease!Notice
    <3> QED
      BY <3>5 DEF Lease!Next
  <2> QED
    BY <2>5, <2>6
<1> QED
  BY <1>2, <1>3

\* The clock lets a backoff elapse, which LeasedQueue does not see, or a claim lapse.
LEMMA LeaseOfTime ==
  ASSUME QueueInv, NEW b \in Boards, TimePasses(b)
  PROVE  [Lease!Next]_(Lease!vars)
<1>1. claim' = claim /\ row \in [Boards -> Row] /\ row[b] \in Row /\ overran \in [Boards -> BOOLEAN]
  BY DEF TimePasses, BackoffElapses, ClaimExpires, workerVars, QueueInv, TypeOK
<1>2. PICK r \in Row : /\ row' = [row EXCEPT ![b] = r]
                       /\ r.analysed = row[b].analysed
                       /\ r.status = row[b].status /\ r.retries = row[b].retries
  <2>1. CASE BackoffElapses(b)
    <3>1. PICK r : r = [row[b] EXCEPT !.requested = "due"]
      OBVIOUS
    <3>2. /\ r \in Row /\ r.analysed = row[b].analysed
          /\ r.status = row[b].status /\ r.retries = row[b].retries
      BY <1>1, <3>1 DEF Row
    <3>3. row' = [row EXCEPT ![b] = r]
      BY <1>1, <2>1, <3>1 DEF BackoffElapses
    <3> QED
      BY <3>2, <3>3
  <2>2. CASE ClaimExpires(b)
    <3>1. PICK r : r = [row[b] EXCEPT !.started = "old"]
      OBVIOUS
    <3>2. /\ r \in Row /\ r.analysed = row[b].analysed
          /\ r.status = row[b].status /\ r.retries = row[b].retries
      BY <1>1, <3>1 DEF Row
    <3>3. row' = [row EXCEPT ![b] = r]
      BY <1>1, <2>2, <3>1 DEF ClaimExpires
    <3> QED
      BY <3>2, <3>3
  <2> QED
    BY <2>1, <2>2 DEF TimePasses
<1>3. row'[b] = r /\ \A c \in Boards : c # b => row'[c] = row[c]
  BY <1>1, <1>2
<1>4. CASE overran' = overran \/ overran[b]
  <2>1. overran' = overran
    BY <1>1, <1>4 DEF TimePasses, BackoffElapses, ClaimExpires
  <2>2. \A c \in Boards : Unseen(c)
    BY <1>1, <1>2, <1>3, <2>1 DEF Unseen
  <2> QED
    BY <2>2, NothingSeen
<1>5. CASE ~overran[b] /\ overran' # overran
  <2>1. row[b].status = "processing" /\ overran' = [overran EXCEPT ![b] = TRUE]
    BY <1>5 DEF TimePasses, BackoffElapses, ClaimExpires
  <2>2. \A c \in Boards : c # b => Unseen(c)
    BY <1>1, <1>3, <2>1 DEF Unseen
  <2>3. /\ LeaseStatus[b] = "processing" /\ LeaseStatus'[b] = "lapsed"
        /\ LeaseHolders'[b] = {} /\ LeaseTries'[b] = 0 /\ LeaseResult'[b] = LeaseResult[b]
    BY <1>1, <1>2, <1>3, <1>5, <2>1, SeenOf
  <2>4. /\ LeaseStatus' = [LeaseStatus EXCEPT ![b] = LeaseStatus'[b]]
        /\ LeaseHolders' = [LeaseHolders EXCEPT ![b] = LeaseHolders'[b]]
        /\ LeaseTries' = [LeaseTries EXCEPT ![b] = LeaseTries'[b]]
        /\ LeaseResult' = [LeaseResult EXCEPT ![b] = LeaseResult'[b]]
    BY <2>2, OneSeen
  <2>5. LeaseResult' = LeaseResult
    BY <2>3, <2>4, SeenKept
  <2>6. Lease!Lapse(b)
    BY <2>3, <2>4, <2>5 DEF Lease!Lapse
  <2> QED
    BY <2>6 DEF Lease!Next
<1> QED
  BY <1>4, <1>5

\* Every step of the queue is a step of LeasedQueue, or none.
LEMMA LeaseNext ==
  ASSUME QueueInv, OpenInv, [Next]_vars
  PROVE  [Lease!Next]_(Lease!vars)
<1>1. CASE Next
  BY <1>1, LeaseOfWorker, LeaseOfRequest, LeaseOfTime DEF Next
<1>2. CASE UNCHANGED vars
  <2>1. row' = row /\ overran' = overran /\ claim' = claim
    BY <1>2 DEF vars
  <2>2. \A b \in Boards : Unseen(b)
    BY <2>1 DEF Unseen
  <2> QED
    BY <2>2, NothingSeen
<1> QED
  BY <1>1, <1>2

\* No board is held at the start, and those left processing have lapsed.
LEMMA LeaseInit == Init => Lease!Init /\ OpenInv
<1> SUFFICES ASSUME Init PROVE Lease!Init /\ OpenInv
  OBVIOUS
<1>1. /\ row \in [Boards -> Row] /\ overran = [b \in Boards |-> row[b].status = "processing"]
      /\ \A b \in Boards : row[b].status = "pending" => row[b].retries < MaxRetries
      /\ \A w \in Workers : claim[w] = NoBoard
      /\ NoBoard \notin Boards
  BY ConstantsAssumption DEF Init
<1>2. \A b \in Boards :
        /\ LeaseStatus[b] \in {"pending", "done", "failed", "lapsed"}
        /\ LeaseHolders[b] = {} /\ LeaseTries[b] \in Nat /\ LeaseResult[b] \in BOOLEAN
        /\ LeaseStatus[b] = "pending" => LeaseTries[b] < MaxRetries
  <2> TAKE b \in Boards
  <2>1. row[b] \in Row /\ overran[b] = (row[b].status = "processing")
    BY <1>1
  <2>2. {w \in Workers : claim[w] = b} = {}
    BY <1>1
  <2>3. /\ LeaseStatus[b] = IF overran[b] THEN "lapsed" ELSE row[b].status
        /\ LeaseHolders[b] = {}
        /\ LeaseTries[b] = IF overran[b] THEN 0 ELSE row[b].retries
        /\ LeaseResult[b] = row[b].analysed
    BY <2>2, SeenOf
  <2>4. /\ row[b].status \in {"pending", "processing", "done", "failed"}
        /\ row[b].retries \in Nat /\ row[b].analysed \in BOOLEAN
    BY <2>1 DEF Row, Statuses
  <2>5. CASE overran[b]
    BY <2>3, <2>4, <2>5
  <2>6. CASE ~overran[b]
    <3>1. row[b].status # "processing" /\ (row[b].status = "pending" => row[b].retries < MaxRetries)
      BY <1>1, <2>1, <2>6
    <3> QED
      BY <2>3, <2>4, <2>6, <3>1
  <2> QED
    BY <2>5, <2>6
<1>3. LeaseStatus \in [Boards -> {"pending", "done", "failed", "lapsed"}]
  BY <1>2, SeenFunctions
<1>4. LeaseHolders = [b \in Boards |-> {}]
  BY <1>2, SeenFunctions
<1>5. LeaseTries \in [Boards -> Nat]
  BY <1>2, SeenFunctions
<1>6. LeaseResult \in [Boards -> BOOLEAN]
  BY <1>2, SeenFunctions
<1> QED
  BY <1>2, <1>3, <1>4, <1>5, <1>6 DEF Lease!Init, Lease!Open, OpenInv

\* LeasedQueue keeps OpenInv: a board is taken without a result and settled with one.
LEMMA OpenNext ==
  ASSUME OpenInv, [Lease!Next]_(Lease!vars)
  PROVE  OpenInv'
<1>1. CASE UNCHANGED Lease!vars
  BY <1>1 DEF Lease!vars, OpenInv
<1>2. ASSUME NEW b \in Boards, NEW c \in Boards, LeaseStatus'[c] = "processing",
             \/ \E w \in Workers : \/ Lease!Take(w, b) \/ Lease!Answer(w, b)
                                   \/ Lease!Fail(w, b) \/ Lease!Leave(w, b)
             \/ Lease!Reopen(b) \/ Lease!Notice(b) \/ Lease!Lapse(b) \/ Lease!AnswerLate(b)
      PROVE  ~LeaseResult'[c]
  <2>1. CASE c = b
    <3>1. CASE \E w \in Workers : Lease!Take(w, b)
      BY <1>2, <2>1, <3>1, SeenFunctions DEF Lease!Take
    <3>2. CASE \E w \in Workers : Lease!Answer(w, b) \/ Lease!Fail(w, b) \/ Lease!Leave(w, b)
      BY <1>2, <2>1, <3>2, SeenFunctions DEF Lease!Answer, Lease!Fail, Lease!Leave, OpenInv
    <3>3. CASE Lease!Reopen(b) \/ Lease!Notice(b) \/ Lease!Lapse(b) \/ Lease!AnswerLate(b)
      BY <1>2, <2>1, <3>3, SeenFunctions
         DEF Lease!Reopen, Lease!Notice, Lease!Lapse, Lease!AnswerLate
    <3> QED
      BY <1>2, <3>1, <3>2, <3>3
  <2>2. CASE c # b
    <3>1. LeaseStatus'[c] = LeaseStatus[c] /\ LeaseResult'[c] = LeaseResult[c]
      BY <1>2, <2>2, SeenFunctions
         DEF Lease!Take, Lease!Answer, Lease!Fail, Lease!Leave, Lease!Reopen, Lease!Notice,
             Lease!Lapse, Lease!AnswerLate
    <3> QED
      BY <1>2, <3>1 DEF OpenInv
  <2> QED
    BY <2>1, <2>2
<1>3. CASE Lease!Next
  BY <1>2, <1>3 DEF Lease!Next, OpenInv
<1> QED
  BY <1>1, <1>3

\* The queue implements LeasedQueue, for any boards, workers and faults.
THEOREM QueueIsLeased == Spec => Leased
<1>1. QueueInv /\ OpenInv /\ [Next]_vars => [Lease!Next]_(Lease!vars) /\ OpenInv'
  BY LeaseNext, OpenNext
<1> QED
  BY <1>1, LeaseInit, QueueInvariant, PTL DEF Spec, Leased, Lease!Spec

USE ConstantsAssumption, JobsAssumption

-----------------------------------------------------------------------------
(* The queue beneath the jobs.  A re-analysis overwrites rows that workers    *)
(* hold, so QueueInv does not survive it; the types of rows and sessions do.  *)

LEMMA QueueTypedInit == Init => QueueTyped
BY QueueInit, QueueInvTyped

LEMMA WorkerTyped ==
  ASSUME QueueTyped, NEW w \in Workers, ProcessNextAnalysisJob(w) \/ Abandon(w)
  PROVE  QueueTyped'
<1>. USE DEF QueueTyped
<1>1. CASE ScanStale(w)
  BY <1>1, ScanType DEF ScanStale, TypeOK, PhaseInv, HoldsRow, rowVars
<1>2. CASE \E b \in Boards : ClaimBoard(w, b)
  <2>1. PICK b \in Boards : ClaimBoard(w, b)
    BY <1>2
  <2>2. PhaseInv' /\ HoldsRow'
    BY <2>1 DEF ClaimBoard, TypeOK, PhaseInv, HoldsRow
  <2> QED
    BY <2>1, <2>2, ClaimType
<1>3. CASE Release(w) /\ TypeOK'
  BY <1>3 DEF Release, TypeOK, PhaseInv, HoldsRow
<1>4. CASE ClaimNothing(w)
  <2>1. row' \in [Boards -> Row]
    <3>1. row' = RecoverStale(w, {})
      BY <1>4 DEF ClaimNothing
    <3> QED
      BY <3>1, RecoverType
  <2> QED
    BY <1>3, <1>4, <2>1, ReleaseType DEF ClaimNothing, TypeOK
<1>5. CASE AnalyzeAnalysed(w)
  <2>1. claim[w] \in Boards /\ row[claim[w]] \in Row
    BY <1>5 DEF AnalyzeAnalysed, TypeOK, PhaseInv
  <2>2. row' \in [Boards -> Row]
    BY <1>5, <2>1, ObjectTypes DEF AnalyzeAnalysed, TypeOK
  <2> QED
    BY <1>3, <1>5, <2>2, ReleaseType DEF AnalyzeAnalysed, TypeOK
<1>6. CASE AnalyzeLoad(w) \/ RecordLoad(w)
  <2>1. claim[w] \in Boards /\ row[claim[w]] \in Row
    BY <1>6 DEF AnalyzeLoad, RecordLoad, TypeOK, PhaseInv
  <2>2. HoldsRow'
    BY <1>6, <2>1 DEF AnalyzeLoad, RecordLoad, TypeOK, HoldsRow
  <2>3. PhaseInv'
    BY <1>6 DEF AnalyzeLoad, RecordLoad, TypeOK, PhaseInv
  <2> QED
    BY <1>6, <2>2, <2>3, LoadType
<1>7. CASE AnalyzeCommit(w)
  BY <1>3, <1>7, CommitType DEF AnalyzeCommit
<1>8. CASE \E e \in Exceptions : AnalyzeRaise(w, e)
  <2>1. PICK e \in Exceptions : AnalyzeRaise(w, e)
    BY <1>8
  <2>2. e # "none"
    BY DEF Exceptions
  <2>3. TypeOK'
    BY <2>1 DEF AnalyzeRaise, TypeOK, EmptySession, Phases, rowVars
  <2>4. PhaseInv' /\ HoldsRow'
    BY <2>1, <2>2 DEF AnalyzeRaise, TypeOK, PhaseInv, HoldsRow
  <2> QED
    BY <2>3, <2>4
<1>9. CASE RecordCommit(w)
  BY <1>3, <1>9, FailureType DEF RecordCommit
<1>10. CASE Abandon(w)
  <2>1. faults' \in 0..MaxFaults
    BY <1>10 DEF Abandon, TypeOK
  <2> QED
    BY <1>3, <1>10, <2>1, ReleaseType DEF Abandon, TypeOK, rowVars
<1> QED
  BY <1>1, <1>2, <1>4, <1>5, <1>6, <1>7, <1>8, <1>9, <1>10
     DEF ProcessNextAnalysisJob, Analyze

LEMMA QueueTypedNext ==
  ASSUME QueueTyped, [Next]_vars
  PROVE  QueueTyped'
<1>1. ASSUME NEW b \in Boards, RetryFailedAnalysis(b) \/ GetAnalysis(b) \/ TimePasses(b)
      PROVE  QueueTyped'
  <2>1. TypeOK'
    BY <1>1, RequestType DEF QueueTyped
  <2>2. UNCHANGED workerVars
    BY <1>1 DEF RetryFailedAnalysis, GetAnalysis, TimePasses, BackoffElapses, ClaimExpires
  <2> QED
    BY <2>1, <2>2 DEF QueueTyped, PhaseInv, HoldsRow, workerVars
<1>2. CASE UNCHANGED vars
  BY <1>2 DEF vars, QueueTyped, TypeOK, PhaseInv, HoldsRow
<1> QED
  BY <1>1, <1>2, WorkerTyped DEF Next

-----------------------------------------------------------------------------
(* The job store *)

Busy(j) == task[j] \in {"scheduled", "started", "loaded", "stored", "erred"}

\* A job and its background task agree, and the task has its board's row once it
\* has loaded it.
JobFacts(j) ==
  /\ Unfinished(j) <=> Busy(j)
  /\ Unfinished(j) => jobBoard[j] \in Boards /\ active[jobBoard[j]] = j
  /\ jobStatus[j] = "completed" => jobBoard[j] \in Boards
  /\ task[j] = "loaded" => taskRow[j] \in Row

ActiveFacts(b) ==
  active[b] # NoJob => Unfinished(active[b]) /\ jobBoard[active[b]] = b

StoreInv ==
  /\ JobsTypeOK
  /\ \A j \in Jobs : JobFacts(j)
  /\ \A b \in Boards : ActiveFacts(b)

\* What a job has seen or done of an analysis is still there.
ResultFacts(j) ==
  /\ task[j] = "loaded" /\ taskRow[j].analysed => row[jobBoard[j]].analysed
  /\ task[j] = "stored" \/ jobStatus[j] = "completed" => row[jobBoard[j]].analysed

JobsInv ==
  /\ QueueTyped
  /\ StoreInv
  /\ \A j \in Jobs : ResultFacts(j)

LEMMA StartJobStep ==
  ASSUME StoreInv, NEW j \in Jobs, NEW b \in Boards, StartJob(j, b)
  PROVE  StoreInv'
<1>. USE DEF StoreInv, JobsTypeOK
<1>1. /\ jobStatus' = [jobStatus EXCEPT ![j] = "queued"]
      /\ jobBoard' = [jobBoard EXCEPT ![j] = b]
      /\ active' = [active EXCEPT ![b] = j]
      /\ task' = [task EXCEPT ![j] = "scheduled"]
      /\ taskRow' = taskRow
      /\ jobStatus[j] = "unborn"
  BY DEF StartJob
<1>2. JobsTypeOK'
  BY <1>1 DEF JobStatuses, TaskSteps
<1>3. \A i \in Jobs : Unfinished(i) => jobBoard[i] # b
  BY DEF StartJob, HasActiveJob, JobFacts, ActiveFacts
<1>4. ASSUME NEW i \in Jobs PROVE JobFacts(i)'
  BY <1>1, <1>3 DEF JobFacts, Unfinished, Busy
<1>5. ASSUME NEW c \in Boards PROVE ActiveFacts(c)'
  BY <1>1 DEF ActiveFacts, Unfinished
<1> QED
  BY <1>2, <1>4, <1>5

\* A task goes on with the job unfinished.
LEMMA TaskStep ==
  ASSUME StoreInv, NEW j \in Jobs, Busy(j),
         NEW step \in {"started", "loaded", "stored", "erred"},
         NEW status \in {"queued", "running"},
         NEW loaded \in Row \cup {Unloaded}, step = "loaded" => loaded \in Row,
         task' = [task EXCEPT ![j] = step],
         jobStatus' = [jobStatus EXCEPT ![j] = status],
         taskRow' = [taskRow EXCEPT ![j] = loaded],
         UNCHANGED <<jobBoard, active>>
  PROVE  StoreInv'
<1>. USE DEF StoreInv, JobsTypeOK
<1>1. JobsTypeOK'
  BY DEF JobStatuses, TaskSteps
<1>2. ASSUME NEW i \in Jobs PROVE JobFacts(i)'
  BY DEF JobFacts, Unfinished, Busy
<1>3. ASSUME NEW c \in Boards PROVE ActiveFacts(c)'
  BY DEF ActiveFacts, JobFacts, Unfinished, Busy
<1> QED
  BY <1>1, <1>2, <1>3

LEMMA FinishStep ==
  ASSUME StoreInv, NEW j \in Jobs, NEW step \in {"stored", "erred"},
         NEW status \in {"completed", "failed"}, Finish(j, step, status)
  PROVE  StoreInv'
<1>. USE DEF StoreInv, JobsTypeOK
<1>1. /\ task[j] = step
      /\ jobStatus' = [jobStatus EXCEPT ![j] = status]
      /\ active' = [active EXCEPT ![jobBoard[j]] = NoJob]
      /\ task' = [task EXCEPT ![j] = "over"]
      /\ jobBoard' = jobBoard /\ taskRow' = taskRow
  BY DEF Finish
<1>2. Unfinished(j) /\ jobBoard[j] \in Boards /\ active[jobBoard[j]] = j
  BY <1>1 DEF JobFacts, Busy
<1>3. JobsTypeOK'
  BY <1>1, <1>2 DEF JobStatuses, TaskSteps
<1>4. ASSUME NEW i \in Jobs PROVE JobFacts(i)'
  BY <1>1, <1>2 DEF JobFacts, Unfinished, Busy
<1>5. ASSUME NEW c \in Boards PROVE ActiveFacts(c)'
  BY <1>1, <1>2 DEF ActiveFacts, Unfinished
<1> QED
  BY <1>3, <1>4, <1>5

LEMMA RestartStep ==
  ASSUME StoreInv, Restart
  PROVE  StoreInv'
<1>1. JobsTypeOK'
  BY DEF Restart, StoreInv, JobsTypeOK, JobStatuses, TaskSteps
<1>2. ASSUME NEW i \in Jobs PROVE JobFacts(i)'
  BY DEF Restart, JobFacts, Unfinished, Busy
<1>3. ASSUME NEW c \in Boards PROVE ActiveFacts(c)'
  BY DEF Restart, ActiveFacts
<1> QED
  BY <1>1, <1>2, <1>3 DEF StoreInv

LEMMA StoreNext ==
  ASSUME QueueTyped, StoreInv, [JobsNext]_allVars
  PROVE  StoreInv'
<1>1. CASE UNCHANGED jobVars
  BY <1>1 DEF jobVars, StoreInv, JobsTypeOK, JobFacts, ActiveFacts, Unfinished, Busy
<1>2. ASSUME NEW j \in Jobs, RunAnalysisJob(j) PROVE StoreInv'
  <2>. USE DEF StoreInv, JobsTypeOK
  <2>1. CASE MarkRunning(j)
    <3>1. taskRow' = [taskRow EXCEPT ![j] = taskRow[j]] /\ taskRow[j] \in Row \cup {Unloaded}
      BY <2>1 DEF MarkRunning
    <3> QED
      BY <2>1, <3>1, TaskStep DEF MarkRunning, Busy
  <2>2. ASSUME Busy(j), NEW step \in {"loaded", "stored", "erred"},
               NEW loaded \in Row \cup {Unloaded}, step = "loaded" => loaded \in Row,
               task' = [task EXCEPT ![j] = step],
               taskRow' = [taskRow EXCEPT ![j] = loaded],
               UNCHANGED <<jobStatus, jobBoard, active>>
        PROVE  StoreInv'
    <3>1. jobStatus[j] \in {"queued", "running"}
      BY <2>2 DEF JobFacts, Unfinished
    <3>2. jobStatus' = [jobStatus EXCEPT ![j] = jobStatus[j]]
      BY <2>2
    <3> QED
      BY <2>2, <3>1, <3>2, TaskStep
  <2>3. CASE ForceLoad(j)
    <3>1. Busy(j) /\ row[jobBoard[j]] \in Row
      BY <2>3 DEF ForceLoad, Busy, JobFacts, QueueTyped, TypeOK
    <3> QED
      BY <2>2, <2>3, <3>1 DEF ForceLoad
  <2>4. CASE ForceCommit(j)
    BY <2>2, <2>4 DEF ForceCommit, Busy
  <2>5. CASE ForceRaise(j)
    BY <2>2, <2>5 DEF ForceRaise, Busy
  <2>6. CASE MarkCompleted(j) \/ MarkFailed(j)
    BY <2>6, FinishStep DEF MarkCompleted, MarkFailed
  <2> QED
    BY <1>2, <2>1, <2>3, <2>4, <2>5, <2>6 DEF RunAnalysisJob
<1> QED
  BY <1>1, <1>2, StartJobStep, RestartStep DEF JobsNext, allVars

-----------------------------------------------------------------------------
(* The jobs' results *)

\* The flush of a re-analysis keeps the row typed and analysed.
LEMMA ForceCommitRow ==
  ASSUME JobsInv, NEW j \in Jobs, ForceCommit(j)
  PROVE  /\ jobBoard[j] \in Boards
         /\ row' \in [Boards -> Row]
         /\ row'[jobBoard[j]].analysed
         /\ \A b \in Boards : b # jobBoard[j] => row'[b] = row[b]
<1>0. PICK b, old, new, flushed :
        /\ b = jobBoard[j] /\ old = taskRow[j] /\ new = Analysed(old)
        /\ flushed = Flush(row[b], old, new)
  OBVIOUS
<1>1. JobFacts(j) /\ ResultFacts(j) /\ row \in [Boards -> Row]
  BY DEF JobsInv, StoreInv, QueueTyped, TypeOK
<1>2. task[j] = "loaded" /\ row' = [row EXCEPT ![b] = flushed]
  BY <1>0 DEF ForceCommit
<1>3. b \in Boards /\ old \in Row /\ row[b] \in Row
  BY <1>0, <1>1, <1>2 DEF JobFacts, Busy
<1>4. new \in Row /\ new.analysed
  BY <1>0, <1>3, ObjectTypes DEF Analysed, Row
<1>5. flushed \in Row
  BY <1>0, <1>3, <1>4, FlushType
<1>6. flushed.analysed
  <2>1. CASE old.analysed
    BY <1>0, <1>1, <1>2, <1>3, <1>4, <2>1, FlushKeeps DEF ResultFacts
  <2>2. CASE ~old.analysed
    BY <1>0, <1>3, <1>4, <2>2 DEF Flush, Dirty, Row
  <2> QED
    BY <2>1, <2>2
<1> QED
  BY <1>0, <1>1, <1>2, <1>3, <1>5, <1>6

\* No step undoes an analysis.
LEMMA JobsKeep ==
  ASSUME JobsInv, [JobsNext]_allVars, NEW b \in Boards, row[b].analysed
  PROVE  row'[b].analysed
<1>1. CASE [Next]_vars
  BY <1>1, NextSpares DEF JobsInv, Spared
<1>2. ASSUME NEW j \in Jobs, RunAnalysisJob(j) PROVE row'[b].analysed
  <2>1. CASE ForceCommit(j)
    BY <2>1, ForceCommitRow
  <2>2. CASE row' = row
    BY <2>2
  <2> QED
    BY <1>2, <2>1, <2>2
       DEF RunAnalysisJob, MarkRunning, ForceLoad, ForceRaise, MarkCompleted, MarkFailed,
           Finish, vars
<1>3. CASE Restart
  BY <1>3 DEF Restart, rowVars
<1> QED
  BY <1>1, <1>2, <1>3 DEF JobsNext, StartJob, allVars

LEMMA JobsQueueTyped ==
  ASSUME JobsInv, [JobsNext]_allVars
  PROVE  QueueTyped'
<1>1. CASE [Next]_vars
  BY <1>1, QueueTypedNext DEF JobsInv
<1>2. ASSUME NEW j \in Jobs, ForceCommit(j) PROVE QueueTyped'
  <2>1. row' \in [Boards -> Row]
    BY <1>2, ForceCommitRow
  <2>2. UNCHANGED <<before, overran, pc, claim, session, raised, faults>>
    BY <1>2 DEF ForceCommit, workerVars
  <2> QED
    BY <2>1, <2>2 DEF JobsInv, QueueTyped, TypeOK, PhaseInv, HoldsRow
<1>3. CASE Restart
  BY <1>3 DEF Restart, JobsInv, QueueTyped, TypeOK, PhaseInv, HoldsRow, EmptySession,
              Phases, rowVars
<1> QED
  BY <1>1, <1>2, <1>3
     DEF JobsNext, RunAnalysisJob, StartJob, MarkRunning, ForceLoad, ForceRaise,
         MarkCompleted, MarkFailed, Finish, allVars

LEMMA ResultsStep ==
  ASSUME JobsInv, [JobsNext]_allVars, NEW i \in Jobs
  PROVE  ResultFacts(i)'
<1>. DEFINE b == jobBoard[i]
<1>0. JobFacts(i) /\ ResultFacts(i) /\ StoreInv
  BY DEF JobsInv, StoreInv
<1>1. task[i] \in {"loaded", "stored"} \/ jobStatus[i] = "completed" => b \in Boards
  BY <1>0 DEF JobFacts, Busy
<1>2. ASSUME UNCHANGED <<jobBoard, jobStatus, task, taskRow>>
      PROVE  ResultFacts(i)'
  BY <1>0, <1>1, <1>2, JobsKeep DEF ResultFacts
<1>3. CASE UNCHANGED jobVars
  BY <1>2, <1>3 DEF jobVars
<1>4. ASSUME NEW j \in Jobs, NEW c \in Boards, StartJob(j, c) PROVE ResultFacts(i)'
  <2>1. row' = row /\ taskRow' = taskRow
    BY <1>4 DEF StartJob, vars
  <2>2. CASE i = j
    BY <1>0, <1>4, <2>2 DEF StartJob, StoreInv, JobsTypeOK, ResultFacts
  <2>3. CASE i # j
    BY <1>0, <1>4, <2>1, <2>3 DEF StartJob, StoreInv, JobsTypeOK, ResultFacts
  <2> QED
    BY <2>2, <2>3
<1>5. ASSUME NEW j \in Jobs, RunAnalysisJob(j) PROVE ResultFacts(i)'
  <2>1. jobBoard' = jobBoard
    BY <1>5 DEF RunAnalysisJob, MarkRunning, ForceLoad, ForceCommit, ForceRaise,
                MarkCompleted, MarkFailed, Finish
  <2>2. b \in Boards /\ row[b].analysed => row'[b].analysed
    BY JobsKeep
  <2>3. CASE i # j
    <3>1. task'[i] = task[i] /\ jobStatus'[i] = jobStatus[i] /\ taskRow'[i] = taskRow[i]
      BY <1>0, <1>5, <2>3
         DEF RunAnalysisJob, MarkRunning, ForceLoad, ForceCommit, ForceRaise,
             MarkCompleted, MarkFailed, Finish, StoreInv, JobsTypeOK
    <3> QED
      BY <1>0, <1>1, <2>1, <2>2, <3>1 DEF ResultFacts
  <2>4. CASE i = j /\ ForceLoad(j)
    <3>1. task'[i] = "loaded" /\ taskRow'[i] = row[b] /\ row' = row
          /\ jobStatus'[i] = jobStatus[i] /\ jobStatus[i] # "completed"
      BY <1>0, <2>4 DEF ForceLoad, StoreInv, JobsTypeOK, JobFacts, Busy, Unfinished, vars
    <3> QED
      BY <2>1, <3>1 DEF ResultFacts
  <2>5. CASE i = j /\ ForceCommit(j)
    BY <2>1, <2>5, ForceCommitRow DEF ResultFacts
  <2>6. CASE i = j /\ MarkCompleted(j)
    <3>1. task[i] = "stored" /\ task'[i] = "over"
      BY <1>0, <2>6 DEF MarkCompleted, Finish, StoreInv, JobsTypeOK
    <3> QED
      BY <1>0, <1>1, <2>1, <2>2, <3>1 DEF ResultFacts
  <2>7. CASE i = j /\ (MarkRunning(j) \/ ForceRaise(j) \/ MarkFailed(j))
    <3>1. task'[i] \notin {"loaded", "stored"} /\ jobStatus'[i] # "completed"
      BY <1>0, <2>7 DEF MarkRunning, ForceRaise, MarkFailed, Finish, StoreInv, JobsTypeOK,
                        JobFacts, Busy, Unfinished
    <3> QED
      BY <3>1 DEF ResultFacts
  <2> QED
    BY <1>5, <2>3, <2>4, <2>5, <2>6, <2>7 DEF RunAnalysisJob
<1>6. CASE Restart
  BY <1>6 DEF Restart, ResultFacts
<1> QED
  BY <1>3, <1>4, <1>5, <1>6 DEF JobsNext, allVars

LEMMA JobsInvInit == JobsInit => JobsInv
<1> SUFFICES ASSUME JobsInit PROVE JobsInv
  OBVIOUS
<1>1. QueueTyped
  BY QueueTypedInit DEF JobsInit
<1>2. StoreInv
  BY DEF JobsInit, StoreInv, JobsTypeOK, JobStatuses, TaskSteps, JobFacts, ActiveFacts,
         Unfinished, Busy
<1>3. \A j \in Jobs : ResultFacts(j)
  BY DEF JobsInit, ResultFacts
<1> QED
  BY <1>1, <1>2, <1>3 DEF JobsInv

LEMMA JobsInvNext == JobsInv /\ [JobsNext]_allVars => JobsInv'
<1> SUFFICES ASSUME JobsInv, [JobsNext]_allVars PROVE JobsInv'
  OBVIOUS
<1>1. QueueTyped' /\ \A j \in Jobs : ResultFacts(j)'
  BY JobsQueueTyped, ResultsStep
<1>2. StoreInv'
  BY StoreNext DEF JobsInv
<1> QED
  BY <1>1, <1>2 DEF JobsInv

\* However clicks, tasks and restarts interleave, the index of active jobs and
\* the jobs agree, and a board has at most one unfinished job.
THEOREM OneActiveJob == JobsSpec => []OneJobPerBoard
<1>1. JobsInv => OneJobPerBoard
  BY DEF JobsInv, StoreInv, JobFacts, ActiveFacts, OneJobPerBoard
<1> QED
  BY <1>1, JobsInvInit, JobsInvNext, PTL DEF JobsSpec

\* A job that reports completed has its board's result in the database, although
\* workers flush the rows that they loaded before the job committed.
THEOREM CompletedMeansStored == JobsSpec => []CompletedIsStored
<1>1. JobsInv => CompletedIsStored
  BY DEF JobsInv, ResultFacts, CompletedIsStored
<1> QED
  BY <1>1, JobsInvInit, JobsInvNext, PTL DEF JobsSpec
=============================================================================
