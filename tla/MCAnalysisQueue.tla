------------------------- MODULE MCAnalysisQueue -------------------------
(* Instances of AnalysisQueue for TLC: the rows that boards start with. *)
EXTENDS AnalysisQueue, TLC

NewRow ==
  [status |-> "pending", priority |-> 0, retries |-> 0, error |-> "none",
   started |-> "never", requested |-> "due", analysed |-> FALSE]

\* What the crawler inserts: automatic analysis or none.
CrawledRows == {NewRow, [NewRow EXCEPT !.priority = 1]}

\* Rows left by earlier processes: a crash in mid-claim, a failure recorded under
\* a larger ANALYSIS_MAX_RETRY_COUNT, a legacy analysis never marked done.
LeftRows ==
  { [NewRow EXCEPT !.status = "processing", !.started = "fresh"],
    [NewRow EXCEPT !.status = "failed", !.retries = 1, !.error = "other"],
    [NewRow EXCEPT !.status = "failed", !.retries = 1, !.error = "terminal"],
    [NewRow EXCEPT !.analysed = TRUE] }

FreshRows == {NewRow}

AnyRows == CrawledRows \cup LeftRows

WorkerSymmetry == Permutations(Workers)
=============================================================================
