-------------------------- MODULE MCAnalysisJobs --------------------------
(* Instance of AnalysisJobs for TLC. *)
EXTENDS AnalysisJobs

NewRow ==
  [status |-> "pending", priority |-> 0, retries |-> 0, error |-> "none",
   started |-> "never", requested |-> "due", analysed |-> FALSE]

\* A new board, and one that is done: the two an administrator re-analyses.
JobRows == {NewRow, [NewRow EXCEPT !.status = "done", !.analysed = TRUE]}
=============================================================================
