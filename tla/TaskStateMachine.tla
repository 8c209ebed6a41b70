-------------------------- MODULE TaskStateMachine --------------------------
(***************************************************************************)
(* The task row and the human transitions over it.                         *)
(*                                                                         *)
(* packages/shared/src/stateMachine.ts is a pure function from a row, an   *)
(* event and two options to a patch; packages/data normalises every patch  *)
(* it writes.  Both are constant-level operators here.  A blocked reason   *)
(* is a free text in the code, and every decision tests a prefix or a      *)
(* substring of it: it is modelled by the class that those tests tell      *)
(* apart.  A deadline (retryAfter) is modelled by whether it is set.       *)
(***************************************************************************)
EXTENDS Naturals

CONSTANT RetryCap   \* retry counters saturate here, above every limit

ASSUME RetryCapAssumption == RetryCap \in Nat \ {0}

Statuses ==
  {"backlog", "requirements_analysis", "needs_input", "research", "design",
   "planning", "plan_ready", "implementing", "review", "qa",
   "blocked_external", "done", "verified"}

(* The statuses of listStaleInProgressTasks and releaseStaleTaskClaims.    *)
InProgressStatuses ==
  {"requirements_analysis", "research", "design", "planning",
   "implementing", "review", "qa"}

(* Classes of blockedReason.  "other" is every reason no code tests.       *)
BlockedReasons ==
  {"none", "operator_cancelled", "operator_input", "planner_terminal",
   "plan_quality", "manifest_invalid", "malformed_review", "no_delta",
   "stalled_rework", "qa_schema", "sequential_branch", "manual_review",
   "questions_triage", "other"}

RetryCounts == 0 .. RetryCap

(* retryCount + 1.  No limit of the code lies at or above RetryCap, so     *)
(* larger counters behave as RetryCap does.                                *)
Bump(n) == IF n < RetryCap THEN n + 1 ELSE RetryCap

TaskRows ==
  [status : Statuses, autoMode : BOOLEAN, blockedReason : BlockedReasons,
   blockedFromStatus : Statuses \cup {"none"}, retryAfter : BOOLEAN,
   retryCount : RetryCounts, reworkRequested : BOOLEAN,
   manualReviewRequired : BOOLEAN, paused : BOOLEAN]

-----------------------------------------------------------------------------
(* Writes                                                                  *)

MutNoHoldNormalization(r) == r

(* setTaskFields / updateTask: the row the store holds after a patch was   *)
(* merged into it.  An operator-input hold is forced to be paused, to have *)
(* no deadline and not to be a manual review.                              *)
SetTaskFields(r) ==
  IF r.status = "blocked_external" /\ r.blockedReason = "operator_input"
  THEN [r EXCEPT !.paused = TRUE, !.retryAfter = FALSE,
                 !.manualReviewRequired = FALSE]
  ELSE r

MutKeepRework(r) ==
  [r EXCEPT !.blockedReason = "none", !.blockedFromStatus = "none",
            !.retryAfter = FALSE, !.retryCount = 0,
            !.manualReviewRequired = FALSE, !.paused = FALSE]

(* CLEAN_STATE_RESET spread over a row.                                    *)
CleanStateReset(r) ==
  [r EXCEPT !.blockedReason = "none", !.blockedFromStatus = "none",
            !.retryAfter = FALSE, !.retryCount = 0,
            !.reworkRequested = FALSE, !.manualReviewRequired = FALSE,
            !.paused = FALSE]

(* CLEAN_STATE_RESET plus a status.                                        *)
CleanTo(r, status) == [CleanStateReset(r) EXCEPT !.status = status]

(* The fields every write of a block sets; most set more of them.          *)
Block(r, reason, from, retries) ==
  [r EXCEPT !.status = "blocked_external", !.blockedReason = reason,
            !.blockedFromStatus = from, !.retryAfter = FALSE,
            !.retryCount = retries]

(* A block that a human has to look at.                                    *)
ManualBlock(r, reason, from, retries) ==
  [Block(r, reason, from, retries)
     EXCEPT !.reworkRequested = FALSE, !.manualReviewRequired = TRUE]

-----------------------------------------------------------------------------
(* Predicates over rows                                                    *)

IsOperatorCancelled(r) ==
  r.status = "blocked_external" /\ r.blockedReason = "operator_cancelled"

(* isOperatorInputHold of the API covers both classes.                     *)
IsOperatorInputHold(r) ==
  /\ r.status = "blocked_external"
  /\ r.blockedReason \in {"operator_input", "operator_cancelled"}

IsPlannerTerminal(r) ==
  r.status = "blocked_external" /\ r.blockedReason = "planner_terminal"

(* Reasons whose text says "manual review required" in some spelling.      *)
IsManualReviewBlocked(r) ==
  \/ r.manualReviewRequired
  \/ r.blockedReason \in {"manual_review", "malformed_review", "no_delta",
                          "stalled_rework"}

(* The manual blocks that a human may retry all the same.                  *)
IsRetryableManualBlock(r) ==
  \/ r.blockedReason = "plan_quality" /\ r.blockedFromStatus = "planning"
  \/ r.blockedReason \in {"malformed_review", "stalled_rework"}
       /\ r.blockedFromStatus = "review"
  \/ r.blockedReason = "no_delta" /\ r.blockedFromStatus = "implementing"
  \/ r.blockedReason = "qa_schema" /\ r.blockedFromStatus = "qa"
  \/ r.blockedReason = "sequential_branch"

-----------------------------------------------------------------------------
(* applyHumanTaskEvent                                                     *)

HumanEvents ==
  {"start_ai", "request_requirements_reanalysis", "approve_requirements",
   "accept_existing_plan", "start_implementation", "request_replanning",
   "fast_fix", "approve_done", "request_changes", "cancel_task",
   "retry_from_blocked"}

RuntimeStartingEvents ==
  {"start_ai", "accept_existing_plan", "start_implementation",
   "request_replanning", "fast_fix", "retry_from_blocked"}

MutCancelUnlessDone == {"done"}

(* cancel_task is refused on a finished task.                              *)
CancelRefused == {"done", "verified"}

MutRetryWithoutOrigin(r, inputRetry) ==
  /\ r.status = "blocked_external"
  /\ \/ ~IsManualReviewBlocked(r)
     \/ IsRetryableManualBlock(r)
     \/ inputRetry /\ IsOperatorInputHold(r)

(* retry_from_blocked: the row knows where it came from, and either no     *)
(* human has to look at it first or that kind of block may be retried.     *)
RetryAllowed(r, inputRetry) ==
  /\ r.status = "blocked_external" /\ r.blockedFromStatus # "none"
  /\ \/ ~IsManualReviewBlocked(r)
     \/ IsRetryableManualBlock(r)
     \/ inputRetry /\ IsOperatorInputHold(r)

(* Whether the event is accepted (ok: true).                               *)
EventAllowed(r, e, intake, inputRetry) ==
  \/ e = "start_ai" /\ r.status = "backlog"
  \/ e = "request_requirements_reanalysis" /\ intake
       /\ r.status \in {"backlog", "planning", "plan_ready", "done"}
  \/ e = "approve_requirements" /\ r.status = "requirements_analysis"
  \/ e = "accept_existing_plan" /\ r.status = "backlog"
  \/ e = "start_implementation" /\ r.status = "plan_ready" /\ ~r.autoMode
  \/ e \in {"request_replanning", "fast_fix"} /\ r.status = "plan_ready"
  \/ e \in {"approve_done", "request_changes"} /\ r.status = "done"
  \/ e = "cancel_task" /\ r.status \notin CancelRefused
  \/ e = "retry_from_blocked" /\ RetryAllowed(r, inputRetry)

(* The row after an accepted event.                                        *)
EventRow(r, e, intake) ==
  CASE e = "start_ai" ->
         CleanTo(r, IF intake THEN "requirements_analysis" ELSE "planning")
    [] e = "request_requirements_reanalysis" ->
         CleanTo(r, "requirements_analysis")
    [] e \in {"approve_requirements", "request_replanning"} ->
         CleanTo(r, "planning")
    [] e \in {"accept_existing_plan", "fast_fix"} -> CleanTo(r, "plan_ready")
    [] e = "start_implementation" -> CleanTo(r, "implementing")
    [] e = "approve_done" -> CleanTo(r, "verified")
    [] e = "request_changes" ->
         [CleanTo(r, "implementing") EXCEPT !.reworkRequested = TRUE]
    [] e = "cancel_task" ->
         [CleanTo(r, "blocked_external")
            EXCEPT !.blockedReason = "operator_cancelled",
                   !.blockedFromStatus = r.status,
                   !.manualReviewRequired = TRUE, !.paused = TRUE]
    [] OTHER ->  \* retry_from_blocked
         [CleanTo(r, r.blockedFromStatus)
            EXCEPT !.reworkRequested = r.reworkRequested]
=============================================================================
