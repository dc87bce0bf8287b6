---------------------------- MODULE AnalysisJobs ----------------------------
(***************************************************************************)
(* Forced re-analysis: the in-memory job store of one board-service        *)
(* process (BoardAnalysisJobStore), the background task of each job        *)
(* (_run_analysis_job), and their interplay with the analysis queue, whose *)
(* rows a job overwrites without claiming them.                            *)
(***************************************************************************)
EXTENDS AnalysisQueue

CONSTANTS
  Jobs,        \* job ids (uuid4, never reused)
  NoJob        \* no active job

VARIABLES
  jobStatus,   \* jobStatus[j]: AnalysisJob.status, or whether _jobs holds j at all
  jobBoard,    \* jobBoard[j]: AnalysisJob.board_id
  active,      \* active[b]: _active_by_board
  task,        \* task[j]: where the background task of j stands
  taskRow      \* taskRow[j]: the row loaded by analyze_board(force=True)

jobVars == <<jobStatus, jobBoard, active, task, taskRow>>
allVars == <<vars, jobVars>>

ASSUME JobsAssumption == NoJob \notin Jobs

JobStatuses == {"unborn", "queued", "running", "completed", "failed", "lost"}
TaskSteps == {"none", "scheduled", "started", "loaded", "stored", "erred", "over"}

\* The job store and the background tasks hold values of their types.
JobsTypeOK ==
  /\ jobStatus \in [Jobs -> JobStatuses]
  /\ jobBoard \in [Jobs -> Boards \cup {NoBoard}]
  /\ active \in [Boards -> Jobs \cup {NoJob}]
  /\ task \in [Jobs -> TaskSteps]
  /\ taskRow \in [Jobs -> Row \cup {Unloaded}]

JobsInit ==
  /\ Init
  /\ jobStatus = [j \in Jobs |-> "unborn"]
  /\ jobBoard = [j \in Jobs |-> NoBoard]
  /\ active = [b \in Boards |-> NoJob]
  /\ task = [j \in Jobs |-> "none"]
  /\ taskRow = [j \in Jobs |-> Unloaded]

Unfinished(j) == jobStatus[j] \in {"queued", "running"}

\* Faulty variants, here and below, are the mistakes that the properties at the
\* end of this module rule out; no action uses them.
\* Faulty: a finished or running job is never found.
HasNoActiveJob(b) == FALSE

HasActiveJob(b) == active[b] # NoJob /\ Unfinished(active[b])

\* POST /api/boards/{id}/ai of an administrator: start() under the store's lock
\* and add_task.  A board with an unfinished job gets that job and nothing changes.
StartJob(j, b) ==
  /\ jobStatus[j] = "unborn"
  /\ ~HasActiveJob(b)
  /\ jobStatus' = [jobStatus EXCEPT ![j] = "queued"]
  /\ jobBoard' = [jobBoard EXCEPT ![j] = b]
  /\ active' = [active EXCEPT ![b] = j]
  /\ task' = [task EXCEPT ![j] = "scheduled"]
  /\ UNCHANGED <<taskRow, vars>>

MarkRunning(j) ==
  /\ task[j] = "scheduled"
  /\ jobStatus' = [jobStatus EXCEPT ![j] = "running"]
  /\ task' = [task EXCEPT ![j] = "started"]
  /\ UNCHANGED <<jobBoard, active, taskRow, vars>>

\* analyze_board(force=True) loads the row whatever its status.
ForceLoad(j) ==
  /\ task[j] = "started"
  /\ task' = [task EXCEPT ![j] = "loaded"]
  /\ taskRow' = [taskRow EXCEPT ![j] = row[jobBoard[j]]]
  /\ UNCHANGED <<jobStatus, jobBoard, active, vars>>

ForceCommit(j) ==
  /\ task[j] = "loaded"
  /\ row' = [row EXCEPT ![jobBoard[j]] = Flush(@, taskRow[j], Analysed(taskRow[j]))]
  /\ task' = [task EXCEPT ![j] = "stored"]
  /\ taskRow' = [taskRow EXCEPT ![j] = Unloaded]
  /\ UNCHANGED <<jobStatus, jobBoard, active, before, overran, workerVars, faults>>

\* Faulty: an exception that _run_analysis_job does not catch.
ForceRaiseUncaught(j) ==
  /\ task[j] \in {"started", "loaded"}
  /\ task' = [task EXCEPT ![j] = "over"]
  /\ taskRow' = [taskRow EXCEPT ![j] = Unloaded]
  /\ UNCHANGED <<jobStatus, jobBoard, active, vars>>

\* An LLMError or a failed statement: nothing is recorded on the board.
ForceRaise(j) ==
  /\ task[j] \in {"started", "loaded"}
  /\ task' = [task EXCEPT ![j] = "erred"]
  /\ taskRow' = [taskRow EXCEPT ![j] = Unloaded]
  /\ UNCHANGED <<jobStatus, jobBoard, active, vars>>

\* mark_completed and mark_failed drop the board's active entry.
Finish(j, step, status) ==
  /\ task[j] = step
  /\ jobStatus' = [jobStatus EXCEPT ![j] = status]
  /\ active' = [active EXCEPT ![jobBoard[j]] = NoJob]
  /\ task' = [task EXCEPT ![j] = "over"]
  /\ UNCHANGED <<jobBoard, taskRow, vars>>

\* Faulty: completed before the commit.
MarkCompletedEarly(j) == Finish(j, "started", "completed")

MarkCompleted(j) == Finish(j, "stored", "completed")
MarkFailed(j) == Finish(j, "erred", "failed")

\* The process restarts: the store and every background task are gone, and the
\* transactions of its workers are rolled back.
Restart ==
  /\ faults < MaxFaults
  /\ faults' = faults + 1
  /\ jobStatus' = [j \in Jobs |-> IF jobStatus[j] = "unborn" THEN "unborn" ELSE "lost"]
  /\ jobBoard' = [j \in Jobs |-> NoBoard]
  /\ active' = [b \in Boards |-> NoJob]
  /\ task' = [j \in Jobs |-> "none"]
  /\ taskRow' = [j \in Jobs |-> Unloaded]
  /\ pc' = [w \in Workers |-> "idle"]
  /\ claim' = [w \in Workers |-> NoBoard]
  /\ session' = [w \in Workers |-> EmptySession]
  /\ raised' = [w \in Workers |-> "none"]
  /\ UNCHANGED rowVars

RunAnalysisJob(j) ==
  \/ MarkRunning(j)
  \/ ForceLoad(j)
  \/ ForceCommit(j)
  \/ ForceRaise(j)
  \/ MarkCompleted(j)
  \/ MarkFailed(j)

JobsNext ==
  \/ Next /\ UNCHANGED jobVars
  \/ \E j \in Jobs : RunAnalysisJob(j) \/ \E b \in Boards : StartJob(j, b)
  \/ Restart

JobsSpec == JobsInit /\ [][JobsNext]_allVars

\* BackgroundTasks runs every task it was given unless the process dies.
JobsFairSpec == JobsSpec /\ \A j \in Jobs : WF_allVars(RunAnalysisJob(j))

-----------------------------------------------------------------------------
(* Properties *)

\* The index of active jobs and the jobs agree, and a board never has two
\* unfinished jobs: an administrator's repeated clicks start one re-analysis.
OneJobPerBoard ==
  /\ \A b \in Boards : active[b] # NoJob =>
       Unfinished(active[b]) /\ jobBoard[active[b]] = b
  /\ \A j \in Jobs : Unfinished(j) => active[jobBoard[j]] = j

\* A job reported as completed has its result in the database, whatever workers,
\* other jobs and restarts did since.
CompletedIsStored ==
  \A j \in Jobs : jobStatus[j] = "completed" => row[jobBoard[j]].analysed

\* A job that was accepted ends, or is lost with the process.
JobsEnd ==
  \A j \in Jobs : jobStatus[j] = "queued" ~>
    jobStatus[j] \in {"completed", "failed", "lost"}
=============================================================================
