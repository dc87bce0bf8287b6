--------------------------- MODULE AnalysisQueue ---------------------------
(***************************************************************************)
(* The board-service analysis queue: the analysis columns of the boards    *)
(* table, the workers that claim, analyse and release boards, and the two  *)
(* requests that touch the same columns (administrator retry, public read).*)
(*                                                                         *)
(* A database transaction that reads, computes and then writes is split    *)
(* into the step that loads rows into the ORM session and the step that    *)
(* flushes and commits.  The session does not autoflush and the engine     *)
(* runs at READ COMMITTED, so every other transaction may commit between   *)
(* the two; a flush emits the columns that differ from the values loaded   *)
(* and nothing else (Flush).                                               *)
(***************************************************************************)
EXTENDS Integers

CONSTANTS
  Boards,        \* boards stored by the crawler
  Workers,       \* worker loops, over all processes of the service
  MaxRetries,    \* ANALYSIS_MAX_RETRY_COUNT
  UserPriority,  \* USER_REQUEST_PRIORITY
  Recent,        \* boards created inside RECENT_CRAWL_WINDOW
  InitialRows,   \* rows a board may have when the workers start
  MaxFaults,     \* bound on process crashes and failed transactions
  NoBoard,       \* the claim of a worker that has none
  Unloaded       \* a row that is not in an ORM session

VARIABLES
  row,           \* row[b]: the analysis columns of board b
  before,        \* <<b, c>>: b is ahead of c by coalesce(requested_at, created_at)
  pc,            \* pc[w]: where worker w stands in process_next_analysis_job
  claim,         \* claim[w]: the board id that _claim_next_analysis_job returned
  session,       \* session[w][b]: row b as loaded into w's current session
  raised,        \* raised[w]: the exception that analyze_board raised
  overran,       \* history: some claim of b has outlived PROCESSING_STALE_AFTER
  faults         \* number of crashes and failed transactions so far

rowVars == <<row, before, overran>>
workerVars == <<pc, claim, session, raised>>
vars == <<row, before, pc, claim, session, raised, overran, faults>>

-----------------------------------------------------------------------------
(* Types *)

Statuses == {"pending", "processing", "done", "failed"}

\* "terminal" stands for the members of TERMINAL_ANALYSIS_ERRORS.
Errors == {"none", "stale", "terminal", "other"}

\* analysis_started_at: null, or within / beyond PROCESSING_STALE_AFTER of now.
\* analysis_requested_at: null or past ("due"), or still ahead of now ("later").
Row == [status: Statuses, priority: Nat, retries: Nat, error: Errors,
        started: {"never", "fresh", "old"}, requested: {"due", "later"},
        analysed: BOOLEAN]

Phases == {"idle", "scanned", "claimed", "analysing", "raised", "recording"}

\* RetryableAnalysisError or LLMError(retryable=True); an LLMError carrying a
\* terminal message; any other LLMError.
Exceptions == {"retryable", "terminal", "permanent"}

ASSUME ConstantsAssumption ==
  /\ MaxRetries \in Nat \ {0}
  /\ UserPriority \in Nat
  /\ MaxFaults \in Nat
  /\ InitialRows \subseteq Row
  /\ NoBoard \notin Boards
  /\ Unloaded \notin Row
  /\ \A r \in InitialRows : r.status = "pending" => r.retries < MaxRetries

\* Every column and every worker is in one of the states above.
TypeOK ==
  /\ row \in [Boards -> Row]
  /\ before \in SUBSET (Boards \X Boards)
  /\ pc \in [Workers -> Phases]
  /\ claim \in [Workers -> Boards \cup {NoBoard}]
  /\ session \in [Workers -> [Boards -> Row \cup {Unloaded}]]
  /\ raised \in [Workers -> Exceptions \cup {"none"}]
  /\ overran \in [Boards -> BOOLEAN]
  /\ faults \in 0..MaxFaults

EmptySession == [b \in Boards |-> Unloaded]

StrictOrders ==
  {R \in SUBSET (Boards \X Boards) :
     /\ \A b \in Boards : <<b, b>> \notin R
     /\ \A b, c \in Boards : b # c => (<<b, c>> \in R <=> <<c, b>> \notin R)
     /\ \A b, c, d \in Boards : <<b, c>> \in R /\ <<c, d>> \in R => <<b, d>> \in R}

\* Worker loops start with the process.  A row that is already processing was
\* claimed by a process that died, so its claim will overrun.
Init ==
  /\ row \in [Boards -> InitialRows]
  /\ before \in StrictOrders
  /\ pc = [w \in Workers |-> "idle"]
  /\ claim = [w \in Workers |-> NoBoard]
  /\ session = [w \in Workers |-> EmptySession]
  /\ raised = [w \in Workers |-> "none"]
  /\ overran = [b \in Boards |-> row[b].status = "processing"]
  /\ faults = 0

-----------------------------------------------------------------------------
(* The ORM's unit of work *)

\* Faulty variants, here and below, are the mistakes that the properties at the
\* end of this module rule out; no action uses them.
\* Faulty: every column of the object is written back, changed or not.
DirtyAlways(stored, loaded, value) == value

Dirty(stored, loaded, value) == IF value # loaded THEN value ELSE stored

\* The row after the flush of an object loaded as `old' and now holding `new':
\* UPDATE ... WHERE id = :id sets the changed columns, with no version check.
Flush(stored, old, new) ==
  [status    |-> Dirty(stored.status, old.status, new.status),
   priority  |-> Dirty(stored.priority, old.priority, new.priority),
   retries   |-> Dirty(stored.retries, old.retries, new.retries),
   error     |-> Dirty(stored.error, old.error, new.error),
   started   |-> Dirty(stored.started, old.started, new.started),
   requested |-> Dirty(stored.requested, old.requested, new.requested),
   analysed  |-> Dirty(stored.analysed, old.analysed, new.analysed)]

\* Faulty: the priority never goes down.
AheadNever(n) == n

Ahead(n) == IF n > 0 THEN n - 1 ELSE 0
Least(m, n) == IF m < n THEN m ELSE n
Greatest(m, n) == IF m < n THEN n ELSE m

\* requested_at moves past every other board's, or past those that are due.
MoveBehind(b, others) ==
  {p \in before : b \notin {p[1], p[2]}}
    \cup {<<c, b>> : c \in others}
    \cup {<<b, c>> : c \in Boards \ (others \cup {b})}

Release(w) ==
  /\ pc' = [pc EXCEPT ![w] = "idle"]
  /\ claim' = [claim EXCEPT ![w] = NoBoard]
  /\ session' = [session EXCEPT ![w] = EmptySession]
  /\ raised' = [raised EXCEPT ![w] = "none"]

-----------------------------------------------------------------------------
(* _claim_next_analysis_job *)

\* Faulty: stale recovery takes claims of any age, or none at all.
StaleBoardsAnyAge == {b \in Boards : row[b].status = "processing"}
StaleBoardsNone == {}

StaleBoards ==
  {b \in Boards : row[b].status = "processing" /\ row[b].started = "old"}

\* SELECT the stale rows into the session; their objects become pending in
\* memory only, because the session does not autoflush.
ScanStale(w) ==
  /\ pc[w] = "idle"
  /\ pc' = [pc EXCEPT ![w] = "scanned"]
  /\ session' = [session EXCEPT ![w] =
       [b \in Boards |-> IF b \in StaleBoards THEN row[b] ELSE Unloaded]]
  /\ UNCHANGED <<rowVars, claim, raised, faults>>

Recovered(r) == [r EXCEPT !.status = "pending", !.error = "stale"]

Claimable(r) ==
  /\ \/ r.status = "pending"
     \/ r.status = "failed" /\ r.error # "terminal"
  /\ r.retries < MaxRetries
  /\ r.requested = "due"

Precedes(b, c) ==
  \/ row[b].priority > row[c].priority
  \/ /\ row[b].priority = row[c].priority
     /\ \/ b \in Recent /\ c \notin Recent
        \/ (b \in Recent <=> c \in Recent) /\ <<b, c>> \in before

\* The flush of every recovered object but `claimed', which has its own.
RecoverStale(w, claimed) ==
  [b \in Boards |->
     IF session[w][b] = Unloaded \/ b \in claimed THEN row[b]
     ELSE Flush(row[b], session[w][b], Recovered(session[w][b]))]

\* SELECT ... FOR UPDATE SKIP LOCKED LIMIT 1 reads the committed rows, but a
\* board that is in the session already keeps its in-memory values.
ClaimBoard(w, b) ==
  LET old == IF session[w][b] = Unloaded THEN row[b] ELSE session[w][b]
      object == IF session[w][b] = Unloaded THEN old ELSE Recovered(old)
      new == IF object.analysed
             THEN [object EXCEPT !.status = "done", !.error = "none"]
             ELSE [object EXCEPT !.status = "processing", !.started = "fresh"]
  IN  /\ pc[w] = "scanned"
      /\ Claimable(row[b])
      /\ \A c \in Boards : Claimable(row[c]) => ~Precedes(c, b)
      /\ row' = [RecoverStale(w, {b}) EXCEPT ![b] = Flush(@, old, new)]
      /\ pc' = [pc EXCEPT ![w] = "claimed"]
      /\ claim' = [claim EXCEPT ![w] = b]
      /\ session' = [session EXCEPT ![w] = EmptySession]
      /\ UNCHANGED <<before, overran, raised, faults>>

ClaimNothing(w) ==
  /\ pc[w] = "scanned"
  /\ \A b \in Boards : ~Claimable(row[b])
  /\ row' = RecoverStale(w, {})
  /\ Release(w)
  /\ UNCHANGED <<before, overran, faults>>

-----------------------------------------------------------------------------
(* analyze_board, as the worker calls it (force=False) *)

\* An analysed board is marked done without a call to the model.
MarkDone(r) ==
  IF r.analysed /\ r.status # "done"
  THEN [r EXCEPT !.status = "done", !.error = "none"]
  ELSE r

AnalyzeAnalysed(w) ==
  /\ pc[w] = "claimed"
  /\ row[claim[w]].analysed
  /\ row' = [row EXCEPT ![claim[w]] = MarkDone(@)]
  /\ Release(w)
  /\ UNCHANGED <<before, overran, faults>>

AnalyzeLoad(w) ==
  /\ pc[w] = "claimed"
  /\ ~row[claim[w]].analysed
  /\ pc' = [pc EXCEPT ![w] = "analysing"]
  /\ session' = [session EXCEPT ![w][claim[w]] = row[claim[w]]]
  /\ UNCHANGED <<rowVars, claim, raised, faults>>

Analysed(r) == [r EXCEPT !.status = "done", !.error = "none", !.analysed = TRUE]

\* The model answered: the results are flushed over whatever the row is now.
AnalyzeCommit(w) ==
  LET old == session[w][claim[w]]
  IN  /\ pc[w] = "analysing"
      /\ row' = [row EXCEPT ![claim[w]] = Flush(@, old, Analysed(old))]
      /\ Release(w)
      /\ UNCHANGED <<before, overran, faults>>

AnalyzeRaise(w, e) ==
  /\ pc[w] = "analysing"
  /\ pc' = [pc EXCEPT ![w] = "raised"]
  /\ session' = [session EXCEPT ![w] = EmptySession]
  /\ raised' = [raised EXCEPT ![w] = e]
  /\ UNCHANGED <<rowVars, claim, faults>>

-----------------------------------------------------------------------------
(* _record_analysis_failure *)

RecordLoad(w) ==
  /\ pc[w] = "raised"
  /\ pc' = [pc EXCEPT ![w] = "recording"]
  /\ session' = [session EXCEPT ![w][claim[w]] = row[claim[w]]]
  /\ UNCHANGED <<rowVars, claim, raised, faults>>

\* Faulty: the failure that uses up the last retry is compared before it counts.
GivesUpLate(r, e) == e # "retryable" /\ r.retries >= MaxRetries

GivesUp(r, e) == e # "retryable" /\ r.retries + 1 >= MaxRetries

ErrorOf(e) == IF e = "terminal" THEN "terminal" ELSE "other"

\* Faulty: the failure is stored but not counted.
CountedNot(r, e) == [r EXCEPT !.error = ErrorOf(e), !.started = "never"]

Counted(r, e) ==
  [r EXCEPT !.retries = @ + 1, !.error = ErrorOf(e), !.started = "never"]

BackedOff(r) ==
  [r EXCEPT !.status = "pending", !.requested = "later", !.priority = Ahead(@)]

Failed(r, e) ==
  CASE e = "retryable" ->
         [BackedOff(Counted(r, e)) EXCEPT !.retries = Least(@, MaxRetries - 1)]
    [] GivesUp(r, e) -> [Counted(r, e) EXCEPT !.status = "failed"]
    [] OTHER -> BackedOff(Counted(r, e))

\* now + backoff is a new timestamp whenever it is assigned, so requested_at is
\* emitted even where the loaded row was already backing off.
RecordCommit(w) ==
  LET b == claim[w]
      old == session[w][b]
      new == Failed(old, raised[w])
      flushed == Flush(row[b], old, new)
      retried == ~GivesUp(old, raised[w])
  IN  /\ pc[w] = "recording"
      /\ row' = [row EXCEPT ![b] =
           [flushed EXCEPT !.requested = IF retried THEN "later" ELSE @]]
      /\ before' = IF retried THEN MoveBehind(b, Boards \ {b}) ELSE before
      /\ Release(w)
      /\ UNCHANGED <<overran, faults>>

-----------------------------------------------------------------------------
(* Requests, time and faults *)

Retried(r) ==
  [r EXCEPT !.status = "pending", !.retries = 0, !.error = "none",
            !.started = "never", !.requested = "due",
            !.priority = Greatest(@, UserPriority)]

\* Faulty: the UPDATE has no condition on the status.
RetryAnyAnalysis(b) ==
  /\ row' = [row EXCEPT ![b] = Retried(@)]
  /\ before' = MoveBehind(b, {c \in Boards \ {b} : row[c].requested = "due"})
  /\ UNCHANGED <<workerVars, overran, faults>>

\* retry_failed_analysis: one conditional UPDATE.
RetryFailedAnalysis(b) ==
  /\ row[b].status = "failed"
  /\ row' = [row EXCEPT ![b] = Retried(@)]
  /\ before' = MoveBehind(b, {c \in Boards \ {b} : row[c].requested = "due"})
  /\ UNCHANGED <<workerVars, overran, faults>>

\* get_analysis: GET /api/boards/{id}/ai repairs the status of an analysed board.
GetAnalysis(b) ==
  /\ row[b].analysed /\ row[b].status # "done"
  /\ row' = [row EXCEPT ![b] = MarkDone(@)]
  /\ UNCHANGED <<before, workerVars, overran, faults>>

\* now passes requested_at, in the order in which boards were requested.
BackoffElapses(b) ==
  /\ row[b].requested = "later"
  /\ \A c \in Boards : row[c].requested = "later" => <<c, b>> \notin before
  /\ row' = [row EXCEPT ![b].requested = "due"]
  /\ UNCHANGED <<before, workerVars, overran, faults>>

\* now passes started_at + PROCESSING_STALE_AFTER while the row is processing;
\* started_at is not read in any other status.
ClaimExpires(b) ==
  /\ row[b].status = "processing"
  /\ row[b].started = "fresh"
  /\ row' = [row EXCEPT ![b].started = "old"]
  /\ overran' = [overran EXCEPT ![b] = TRUE]
  /\ UNCHANGED <<before, workerVars, faults>>

\* The process dies, or a statement fails and the session rolls back: either
\* way the iteration ends without a write and the loop starts over.
Abandon(w) ==
  /\ pc[w] # "idle"
  /\ faults < MaxFaults
  /\ faults' = faults + 1
  /\ Release(w)
  /\ UNCHANGED rowVars

-----------------------------------------------------------------------------
Analyze(w) ==
  \/ AnalyzeAnalysed(w)
  \/ AnalyzeLoad(w)
  \/ AnalyzeCommit(w)
  \/ \E e \in Exceptions : AnalyzeRaise(w, e)

ProcessNextAnalysisJob(w) ==
  \/ ScanStale(w)
  \/ ClaimNothing(w)
  \/ \E b \in Boards : ClaimBoard(w, b)
  \/ Analyze(w)
  \/ RecordLoad(w)
  \/ RecordCommit(w)

TimePasses(b) == BackoffElapses(b) \/ ClaimExpires(b)

Next ==
  \/ \E w \in Workers : ProcessNextAnalysisJob(w) \/ Abandon(w)
  \/ \E b \in Boards : RetryFailedAnalysis(b) \/ GetAnalysis(b) \/ TimePasses(b)

Spec == Init /\ [][Next]_vars

\* Worker loops poll for ever and every model call ends in an answer or an
\* exception (the HTTP client has a timeout); the clock advances.  Nothing makes
\* an administrator retry, a visitor read a board, or a process crash.
Fairness ==
  /\ \A w \in Workers : WF_vars(ProcessNextAnalysisJob(w))
  /\ \A b \in Boards : WF_vars(TimePasses(b))

FairSpec == Spec /\ Fairness

-----------------------------------------------------------------------------
(* Properties *)

Working(w, b) == claim[w] = b

\* Two workers never work on one board, from _claim_next_analysis_job to the
\* commit of its outcome, unless a claim of that board has outlived
\* PROCESSING_STALE_AFTER.
ClaimExclusive ==
  \A b \in Boards : ~overran[b] =>
    \A v, w \in Workers : Working(v, b) /\ Working(w, b) => v = w

\* An unfinished board stays within reach of the next claim or of the stale scan:
\* a pending row has retries left and a processing row has a started_at (both
\* queries of _claim_next_analysis_job skip it otherwise).
NoStuckBoard ==
  \A b \in Boards : ~overran[b] =>
    /\ row[b].status = "pending" => row[b].retries < MaxRetries
    /\ row[b].status = "processing" => row[b].started # "never"

\* No worker pays for a model call whose result another worker already stored,
\* unless a claim of that board has overrun.
NoWastedAnalysis ==
  \A w \in Workers : pc[w] = "analysing" /\ row[claim[w]].analysed =>
    overran[claim[w]]

\* A stored analysis survives every later flush: a worker that loaded the row
\* before it was analysed writes back only the columns it changed.
\* LeasedQueue implies it: none of its steps takes a result away.
AnalysisKept == [][\A b \in Boards : row[b].analysed => row'[b].analysed]_vars

\* A finished board is not taken back to the queue by a late failure or a late
\* stale scan, unless a claim of that board has overrun.
DoneIsFinal ==
  [][\A b \in Boards : row[b].status = "done" /\ ~overran[b] =>
       row'[b].status = "done"]_vars

\* What LeasedQueue sees of the queue.
LeaseStatus == [b \in Boards |-> IF overran[b] THEN "lapsed" ELSE row[b].status]
LeaseHolders ==
  [b \in Boards |-> IF overran[b] THEN {} ELSE {w \in Workers : Working(w, b)}]
LeaseTries == [b \in Boards |-> IF overran[b] THEN 0 ELSE row[b].retries]
LeaseResult == [b \in Boards |-> row[b].analysed]

Lease ==
  INSTANCE LeasedQueue WITH
    MaxTries <- MaxRetries,
    status <- LeaseStatus, holders <- LeaseHolders, tries <- LeaseTries, result <- LeaseResult

\* Scans, half-done claims, flushes of old copies and requests between them come to
\* what LeasedQueue promises of each board: a board is taken by one worker, changes
\* hands only when it is given back or lapses, is done only with a result, fails only
\* with its last try, and is reopened only by an administrator.
Leased == Lease!Spec

\* Administrators retry boards other than b for ever.  Each retry raises its board to
\* USER_REQUEST_PRIORITY, further than its retry budget lets it fall again.
OthersRetriedForever(b) ==
  \E c \in Boards \ {b} : []<><<RetryFailedAnalysis(c)>>_vars

\* A pending board does not wait for ever behind boards that keep failing, with the
\* retryable errors too: a board loses a step of priority with each failure.  The
\* one thing that may hold it back are administrators who never stop retrying others.
PendingIsClaimed ==
  \A b \in Boards : []<>(row[b].status # "pending") \/ OthersRetriedForever(b)

\* Every claim ends: with an outcome, or by stale recovery after a crash.
ProcessingIsReleased ==
  \A b \in Boards : row[b].status = "processing" ~> row[b].status # "processing"

Settled(b) == row[b].status \in {"done", "failed"}
RaisesRetryable(b) == \E w \in Workers : claim[w] = b /\ raised[w] = "retryable"

\* A board stays unfinished for ever only if it keeps failing with retryable errors,
\* as all other failures use up the retry budget, or is never its turn because of
\* administrators who never stop retrying others.
SettlesUnlessRetryable ==
  \A b \in Boards :
    []<>Settled(b) \/ []<>RaisesRetryable(b) \/ OthersRetriedForever(b)

\* The parts of the inductive invariant behind the three invariants above.
\* A worker holds a claim from the commit of its claim to the commit of its
\* outcome, and an exception until it is recorded.
PhaseInv ==
  \A w \in Workers :
    /\ claim[w] = NoBoard <=> pc[w] \in {"idle", "scanned"}
    /\ raised[w] = "none" <=> pc[w] \notin {"raised", "recording"}

\* A session holds stale rows after the scan, the claimed row while it is
\* analysed or its failure is recorded, and nothing otherwise.
SessionInv ==
  \A w \in Workers :
    /\ \A b \in Boards : session[w][b] # Unloaded =>
         \/ pc[w] = "scanned" /\ overran[b]
         \/ pc[w] \in {"analysing", "recording"} /\ claim[w] = b
    /\ pc[w] \in {"analysing", "recording"} => session[w][claim[w]] # Unloaded

\* A row is claimable or claimed, and if claimed, then not yet stale.
RowInv ==
  \A b \in Boards : ~overran[b] =>
    /\ row[b].status \in {"pending", "processing"} => row[b].retries < MaxRetries
    /\ row[b].status = "processing" =>
         row[b].started = "fresh" /\ row[b].requested = "due"

\* Nobody but its holder changes a claimed row: what the holder has loaded is
\* still what is stored.
HolderInv ==
  \A w \in Workers : claim[w] # NoBoard /\ ~overran[claim[w]] =>
    /\ \/ row[claim[w]].status = "processing" /\ ~row[claim[w]].analysed
       \/ pc[w] = "claimed" /\ row[claim[w]].status = "done" /\ row[claim[w]].analysed
    /\ pc[w] \in {"analysing", "recording"} =>
         session[w][claim[w]] = row[claim[w]]

\* The inductive invariant of the queue.
QueueInv ==
  TypeOK /\ PhaseInv /\ SessionInv /\ RowInv /\ HolderInv /\ ClaimExclusive
=============================================================================
