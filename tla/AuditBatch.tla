----------------------------- MODULE AuditBatch -----------------------------
(***************************************************************************)
(* An audit batch: its report artifacts, the attempts recorded for them,   *)
(* and the two gates in front of its synthesis (packages/data with its     *)
(* callers in the coordinator, the implementer, the task events and the    *)
(* operator-verified completion).                                          *)
(*                                                                         *)
(* A report's row and its latest attempt are what the gates read.  Which   *)
(* of the open states (expected, external_blocked, a valid report without  *)
(* trusted evidence) or broken states (invalid, missing) a row is in makes *)
(* no difference to them and is left out, as are the artifact of the       *)
(* synthesis itself and the batch's counters.  A rework boundary is an id; *)
(* a writer passes the current one, an older one, none, or makes a new     *)
(* one.  Each call of the data layer is one step; the evaluation of a      *)
(* report runs git between reading the artifact and writing it, so it is   *)
(* two.                                                                    *)
(***************************************************************************)
EXTENDS Naturals

CONSTANTS
  LastReport,   \* the reports in the order of createdTaskIds: 1 .. LastReport
  Attended      \* bound: the reports people act on

Reports == 1 .. LastReport

ASSUME AuditAssumption ==
  LastReport \in Nat \ {0} /\ Attended \subseteq Reports

VARIABLES
  row,       \* roadmapBatchArtifacts: state, and whether a boundary is set
  attempt,   \* the latest attempt; current: its number is the row's
  rStatus,   \* tasks.status of a report
  rRun,      \* the run of a report, "named" or "unnamed" once it evaluates
  ready,     \* roadmapBatches.synthesisReady
  sStatus,   \* tasks.status of the synthesis
  sRun,      \* a run of the synthesis is under way
  sReason,   \* its blockedReason: "none", "not_ready" or "other"
  sPaused    \* its paused flag

reportVars == <<row, attempt, rStatus, rRun>>
synthesisVars == <<sStatus, sRun, sReason, sPaused>>
auditVars == <<reportVars, ready, synthesisVars>>

RowStates == {"open", "broken", "trusted", "inconclusive", "exception"}
ReworkStatuses == {"none", "rework_requested", "manual_review_required",
                   "accepted", "terminal_inconclusive", "manual_exception"}
(* blocked_external is "cancelled" with the reason operator_cancelled,     *)
(* "refused" when approve_done wrote it, else "manual" with                *)
(* manualReviewRequired and "blocked" without; qa is part of "review", the *)
(* stages before the implementation are part of that.                      *)
AuditStatuses == {"backlog", "implementing", "review", "done", "verified",
                  "blocked", "manual", "refused", "cancelled"}
InWork == {"implementing", "review"}
Stopped == {"blocked", "manual", "refused", "cancelled"}

AuditTypeOK ==
  /\ row \in [Reports -> [state : RowStates, boundary : BOOLEAN]]
  /\ attempt \in [Reports -> [rework : ReworkStatuses, current : BOOLEAN]]
  /\ rStatus \in [Reports -> AuditStatuses]
  /\ rRun \in [Reports -> {"none", "running", "named", "unnamed"}]
  /\ ready \in BOOLEAN
  /\ sStatus \in AuditStatuses
  /\ sReason \in {"none", "not_ready", "other"}
  /\ sRun \in BOOLEAN /\ sPaused \in BOOLEAN

(* createRoadmapBatchContract: every artifact is expected, so the refresh  *)
(* at its end holds the synthesis.                                         *)
AuditInit ==
  /\ row = [r \in Reports |-> [state |-> "open", boundary |-> FALSE]]
  /\ attempt = [r \in Reports |-> [rework |-> "none", current |-> FALSE]]
  /\ rStatus = [r \in Reports |-> "backlog"]
  /\ rRun = [r \in Reports |-> "none"]
  /\ ready = FALSE
  /\ sStatus = "backlog" /\ sRun = FALSE
  /\ sReason = "not_ready" /\ sPaused = TRUE
-----------------------------------------------------------------------------
(* The two gates                                                           *)

(* roadmapSourceArtifactReadyForSynthesis: the row counts as valid, or its *)
(* state is terminal and so is the latest attempt, whichever row it is of. *)
ReadyForSynthesis(r) ==
  \/ row[r].state = "trusted"
  \/ row[r].state = "exception" /\ attempt[r].rework = "manual_exception"
  \/ /\ row[r].state \in {"broken", "inconclusive"}
     /\ attempt[r].rework = "terminal_inconclusive"

(* roadmapReportArtifactReleaseReady: the latest attempt has to be the     *)
(* row's own.                                                              *)
ReleaseReady(r) ==
  /\ attempt[r].current
  /\ <<row[r].state, attempt[r].rework>> \in
       {<<"trusted", "accepted">>, <<"inconclusive", "terminal_inconclusive">>,
        <<"exception", "manual_exception">>}

(* auditRoadmapTaskDependenciesReleaseReady of a report, of the synthesis  *)
DependenciesReady(r) == \A q \in 1 .. r - 1 : ReleaseReady(q)
SynthesisAdmitted == \A r \in Reports : ReleaseReady(r)
-----------------------------------------------------------------------------
(* refreshRoadmapBatchSummary: readiness from the rows as they are now;    *)
(* it holds or releases the synthesis unless that is blocked for a reason  *)
(* of its own.                                                             *)
Refreshed ==
  LET free == sReason \in {"none", "not_ready"}
  IN  /\ ready' = \A r \in Reports : ReadyForSynthesis(r)'
      /\ sReason' = CASE ~free -> sReason
                      [] free /\ ready' -> "none"
                      [] free /\ ~ready' -> "not_ready"
      /\ sPaused' = (~ready' \/ (sPaused /\ ~free))

(* updateRoadmapBatchArtifactState of a report: an attempt is always       *)
(* recorded; the row is left alone when it has a boundary and the caller   *)
(* does not name that.                                                     *)
UpdateArtifact(r, state, rework, via) ==
  LET stale == via = "unnamed" /\ row[r].boundary
  IN  /\ attempt' = [attempt EXCEPT ![r] = [rework |-> rework,
                                             current |-> ~stale]]
      /\ row' = IF stale THEN row
                ELSE [row EXCEPT ![r].state = state,
                                 ![r].boundary = @ \/ via = "new"]
      /\ Refreshed /\ UNCHANGED <<sStatus, sRun>>

Move(r, status) == rStatus' = [rStatus EXCEPT ![r] = status]

(* updateTaskStatus leaves a cancelled task alone.                         *)
CoordinatorMove(r, status) ==
  Move(r, IF rStatus[r] = "cancelled" THEN "cancelled" ELSE status)

RunEnds(r) == rRun' = [rRun EXCEPT ![r] = "none"]

(* A new boundary makes the one an evaluation has read an old one.         *)
BoundaryMade(r) ==
  rRun' = [rRun EXCEPT ![r] = IF @ = "named" THEN "unnamed" ELSE @]

ArtifactsKept == UNCHANGED <<row, attempt, ready, synthesisVars>>
-----------------------------------------------------------------------------
(* The agent on a report                                                   *)

(* claimBacklogTaskForAdvance, start_ai                                    *)
StartReport(r) ==
  /\ rStatus[r] = "backlog" /\ DependenciesReady(r)
  /\ Move(r, "implementing")
  /\ UNCHANGED rRun /\ ArtifactsKept

ClaimReport(r) ==
  /\ rStatus[r] \in InWork /\ rRun[r] = "none"
  /\ rRun' = [rRun EXCEPT ![r] = "running"]
  /\ UNCHANGED rStatus /\ ArtifactsKept

(* An audit task is handed to the review without evidence.                 *)
HandToReview(r) ==
  /\ rRun[r] = "running" /\ RunEnds(r)
  /\ CoordinatorMove(r, "review")
  /\ ArtifactsKept

(* blockTaskForCompletionEvidenceIfNeeded, after the review or instead of  *)
(* it, reads the artifact and evaluates the report ...                     *)
Evaluate(r) ==
  /\ rRun[r] = "running"
  /\ rRun' = [rRun EXCEPT ![r] = "named"]
  /\ UNCHANGED rStatus /\ ArtifactsKept

Evaluated(r) == rRun[r] \in {"named", "unnamed"} /\ RunEnds(r)

(* ... accepts it, with or without trusted evidence ...                    *)
Accept(r) ==
  /\ Evaluated(r)
  /\ \E state \in {"trusted", "open"} :
       UpdateArtifact(r, state, "accepted", rRun[r])
  /\ CoordinatorMove(r, "done")

(* ... returns it to rework (returnAuditTaskToRework) ...                  *)
ReturnToRework(r) ==
  /\ Evaluated(r)
  /\ UpdateArtifact(r, "broken", "rework_requested", "new")
  /\ CoordinatorMove(r, "implementing")

(* The rework status of a report that is blocked, by its state: a source   *)
(* that is inconclusive waits for a person, inconclusive evidence of the   *)
(* batch is terminal (artifactStateForFailureFamily).                      *)
MutBlockVerdicts ==
  {"open", "broken", "inconclusive"} \X
    {"manual_review_required", "terminal_inconclusive"}

BlockVerdicts ==
  {<<"open", "manual_review_required">>, <<"broken", "manual_review_required">>,
   <<"inconclusive", "manual_review_required">>,
   <<"inconclusive", "terminal_inconclusive">>}

(* ... or blocks it.                                                       *)
BlockReport(r) ==
  /\ Evaluated(r)
  /\ \E v \in BlockVerdicts : UpdateArtifact(r, v[1], v[2], rRun[r])
  /\ \E status \in {"blocked", "manual"} : CoordinatorMove(r, status)

(* terminalizeRoadmapSourceReportAsInconclusive names no boundary.         *)
TerminalizeRoadmapReport(r) ==
  /\ rRun[r] = "running" /\ RunEnds(r)
  /\ UpdateArtifact(r, "inconclusive", "terminal_inconclusive", "unnamed")
  /\ CoordinatorMove(r, "manual")

(* The implementer's terminalizeSourceInconclusiveAuditReport and accepted *)
(* repair name the current one.  An audit without a readable scope waits   *)
(* for input instead of a review.                                          *)
TerminalizeSource(r) ==
  /\ rRun[r] = "running" /\ RunEnds(r)
  /\ UpdateArtifact(r, "inconclusive", "terminal_inconclusive", "named")
  /\ \E status \in {"blocked", "manual"} : Move(r, status)

RepairReport(r) ==
  /\ rRun[r] = "running"
  /\ UpdateArtifact(r, "trusted", "accepted", "named")
  /\ UNCHANGED <<rRun, rStatus>>

(* The run fails or the agent dies: the task stays where it was, or comes  *)
(* back there once its block is released.                                  *)
RunLost(r) ==
  /\ rRun[r] # "none" /\ RunEnds(r)
  /\ UNCHANGED rStatus /\ ArtifactsKept
-----------------------------------------------------------------------------
(* People on a report                                                      *)

RequestChanges(r) ==
  /\ rStatus[r] = "done"
  /\ UpdateArtifact(r, "open", "rework_requested", "new")
  /\ BoundaryMade(r) /\ Move(r, "implementing")

ManualException(r) ==
  /\ rStatus[r] \in Stopped
  /\ UpdateArtifact(r, "exception", "manual_exception", "new")
  /\ BoundaryMade(r) /\ Move(r, "manual")

(* approve_done evaluates the report once more.                            *)
ApproveDone(r) ==
  /\ rStatus[r] = "done"
  /\ \E state \in {"trusted", "open"} :
       UpdateArtifact(r, state, "accepted", "named")
  /\ Move(r, "verified") /\ UNCHANGED rRun

ApproveRefused(r) ==
  /\ rStatus[r] = "done"
  /\ \/ /\ UpdateArtifact(r, "broken", "rework_requested", "new")
        /\ BoundaryMade(r) /\ Move(r, "implementing")
     \/ /\ \E v \in BlockVerdicts : UpdateArtifact(r, v[1], v[2], "named")
        /\ Move(r, "refused") /\ UNCHANGED rRun

(* handleOperatorVerifiedCompletion names no boundary.                     *)
OperatorVerifies(r) ==
  /\ rStatus[r] \in InWork \cup {"blocked", "refused"}
  /\ \E state \in {"trusted", "open"} :
       UpdateArtifact(r, state, "accepted", "unnamed")
  /\ \E status \in {"review", "done"} : Move(r, status)
  /\ UNCHANGED rRun

(* cancel_task and retry_from_blocked do not write the artifact.           *)
CancelReport(r) ==
  /\ rStatus[r] \notin {"done", "verified"}
  /\ Move(r, "cancelled")
  /\ UNCHANGED rRun /\ ArtifactsKept

RetryReport(r) ==
  /\ DependenciesReady(r)
  /\ \/ /\ rStatus[r] \in {"blocked", "manual"}
        /\ \E status \in InWork : Move(r, status)
     \/ rStatus[r] = "refused" /\ Move(r, "done")
  /\ UNCHANGED rRun /\ ArtifactsKept
-----------------------------------------------------------------------------
(* The synthesis                                                           *)

ReportsKept == UNCHANGED <<reportVars, ready>>
SynthesisCleared == sReason' = "none" /\ sPaused' = FALSE

(* claimBacklogTaskForAdvance if it is not paused, start_ai in any case    *)
StartSynthesis ==
  /\ sStatus = "backlog" /\ SynthesisAdmitted
  /\ sStatus' = "implementing" /\ SynthesisCleared
  /\ UNCHANGED sRun /\ ReportsKept

(* processOneTask: holdSynthesisIfNotReady comes before the implementer.   *)
ClaimSynthesis ==
  /\ sStatus \in InWork /\ ~sPaused /\ ~sRun
  /\ IF sStatus = "implementing" /\ ~ \A r \in Reports : ReadyForSynthesis(r)
     THEN sPaused' = TRUE /\ sReason' = "not_ready" /\ UNCHANGED sRun
     ELSE sRun' = TRUE /\ UNCHANGED <<sReason, sPaused>>
  /\ UNCHANGED sStatus /\ ReportsKept

(* Its run ends: handed to the review or accepted, ...                     *)
SynthesisAccepted ==
  /\ sRun /\ sRun' = FALSE
  /\ IF sStatus = "cancelled" THEN UNCHANGED <<sStatus, sReason, sPaused>>
     ELSE sStatus' \in {"review", "done"} /\ SynthesisCleared
  /\ ReportsKept

(* ... sent back or blocked after its artifact was written, ...            *)
SynthesisRefused ==
  /\ sRun /\ sRun' = FALSE
  /\ IF sStatus = "cancelled" THEN UNCHANGED <<sStatus, sReason, sPaused>>
     ELSE /\ sStatus' \in {"implementing", "blocked", "manual"}
          /\ sReason' = "other"
          /\ sPaused' = (~ready \/ (sPaused /\ sReason = "other"))
  /\ ReportsKept

(* ... or held because a source is not there (isSynthesisNotReadyError).   *)
SynthesisHeld ==
  /\ sRun /\ sRun' = FALSE
  /\ sPaused' = TRUE /\ sReason' = "not_ready"
  /\ UNCHANGED sStatus /\ ReportsKept

(* request_changes, approve_done, cancel_task, retry_from_blocked and the  *)
(* paused flag edited through PUT /tasks                                   *)
PersonOnSynthesis ==
  /\ \/ /\ sStatus = "done"
        /\ sStatus' \in {"implementing", "verified"} /\ SynthesisCleared
     \/ /\ sStatus \in {"blocked", "manual"} /\ SynthesisAdmitted
        /\ sStatus' \in InWork /\ SynthesisCleared
     \/ /\ sStatus \notin {"done", "verified"}
        /\ sStatus' = "cancelled" /\ sReason' = "other" /\ sPaused' = TRUE
     \/ sPaused' \in BOOLEAN /\ UNCHANGED <<sStatus, sReason>>
  /\ UNCHANGED sRun /\ ReportsKept
-----------------------------------------------------------------------------
AuditNext ==
  \/ \E r \in Reports :
       \/ StartReport(r) \/ ClaimReport(r) \/ HandToReview(r) \/ Evaluate(r)
       \/ Accept(r) \/ ReturnToRework(r) \/ BlockReport(r) \/ RunLost(r)
       \/ TerminalizeRoadmapReport(r) \/ TerminalizeSource(r) \/ RepairReport(r)
  \/ \E r \in Attended :
       \/ RequestChanges(r) \/ ManualException(r) \/ OperatorVerifies(r)
       \/ ApproveDone(r) \/ ApproveRefused(r)
       \/ CancelReport(r) \/ RetryReport(r)
  \/ StartSynthesis \/ ClaimSynthesis \/ SynthesisAccepted \/ SynthesisRefused
  \/ SynthesisHeld \/ PersonOnSynthesis

AuditSpec == AuditInit /\ [][AuditNext]_auditVars

(* A batch announced as ready for its synthesis can be synthesised: the    *)
(* start gate (auditRoadmapTaskDependenciesReleaseReady) admits every      *)
(* report the summary counted, except a report whose last write did not    *)
(* name the rework boundary and left the row behind the attempts.          *)
ReadyIsReleasable ==
  ready => \A r \in Reports : ReleaseReady(r) \/ ~attempt[r].current
=============================================================================
