--------------------------- MODULE TaskLifecycle ---------------------------
(***************************************************************************)
(* One task row and everyone who writes it: the agent process (the poll    *)
(* cycle, its watchdog, the stage runs it spawns), the API process (human  *)
(* events, field edits, questions and answers), the MCP server (status     *)
(* sync).  All share one SQLite row and no process waits for another.      *)
(*                                                                         *)
(* The agent is one JavaScript thread: a section between two awaits is not *)
(* interleaved with the agent's other work, but the API and MCP processes  *)
(* write between any two of its statements.  js is the section in          *)
(* progress between a SELECT and the write that uses what it read; runs    *)
(* holds the stage runs that are awaiting their runner or the review gate. *)
(* One call of the data layer is one step here, also where it reads the    *)
(* row and then updates it in two statements (setTaskFields, and the       *)
(* coordinator's updateTaskStatus around it), and so is a handler of the   *)
(* API or the MCP server that does not await.                              *)
(* Tasks with an audit or roadmap artifact and container tasks are not     *)
(* modelled.                                                               *)
(***************************************************************************)
EXTENDS TaskStateMachine

CONSTANTS
  Slots,                     \* stage runs of this task alive at once
  IntakeEnabled,             \* AIF_REQUIREMENTS_INTAKE_ENABLED
  ResearchDesign,            \* AIF_REQUIREMENTS_RESEARCH_DESIGN_ENABLED
  QaRequired,                \* AIF_REQUIREMENTS_QA_ENABLED
  SkipReview,                \* the task's skipReview flag
  ConfigBlockers,            \* work-blocking config issues may come up
  STALE_MAX_RETRY,           \* AGENT_STAGE_STALE_MAX_RETRY
  PLAN_QUALITY_MAX_RETRIES,  \* AGENT_PLAN_QUALITY_MAX_RETRIES
  EVIDENCE_MAX_REWORK,       \* min(review iterations, evidence rework limit)
  MaxRestarts,               \* bound on crashes and shutdowns of the agent
  MaxQuestions               \* bound on questions raised through the API

ASSUME LifecycleAssumption ==
  /\ {IntakeEnabled, ResearchDesign, QaRequired, SkipReview, ConfigBlockers}
       \subseteq BOOLEAN
  /\ STALE_MAX_RETRY \in 1 .. RetryCap - 1
  /\ PLAN_QUALITY_MAX_RETRIES \in 0 .. RetryCap - 1
  /\ EVIDENCE_MAX_REWORK \in 0 .. RetryCap - 1
  /\ MaxRestarts \in Nat /\ MaxQuestions \in Nat

VARIABLES
  row,       \* the row of the tasks table
  lock,      \* lockedBy/lockedUntil: "free", "mine" (this agent process),
             \*   "dead" (an agent process that is gone)
  js,        \* the agent's synchronous section in progress
  runs,      \* the stage runs in flight
  answered,  \* the newest human comment is newer than the row's updatedAt
  batch,     \* an open blocking question batch is attached to the row
  fastFix,   \* a fast_fix request is awaiting its query
  restarts,  \* crashes and shutdowns so far
  asked,     \* questions raised through the API so far
  verdict    \* history: how far the current implementation was approved

vars == <<row, lock, js, runs, answered, batch, fastFix, restarts, asked,
          verdict>>

ResearchDesignEnabled == IntakeEnabled /\ ResearchDesign
QaEnabled == IntakeEnabled /\ QaRequired

-----------------------------------------------------------------------------
(* The pipeline                                                            *)

Stages == {"requirements-analyst", "researcher", "designer", "planner",
           "plan-checker", "implementer", "reviewer", "qa"}

ActivePipeline ==
  {s \in Stages : /\ s \in {"researcher", "designer"} => ResearchDesignEnabled
                  /\ s = "qa" => QaEnabled}

InProgress(s) ==
  CASE s = "requirements-analyst" -> "requirements_analysis"
    [] s = "researcher" -> "research"
    [] s = "designer" -> "design"
    [] s = "planner" -> "planning"
    [] s = "plan-checker" -> "plan_ready"
    [] s = "implementer" -> "implementing"
    [] s = "reviewer" -> "review"
    [] OTHER -> "qa"

(* onSuccess of the active pipeline.  The implementer's exit to qa or done *)
(* without review and the reviewer's exits are AfterReview below.          *)
OnSuccess(s) ==
  CASE s = "requirements-analyst" ->
         IF ResearchDesignEnabled THEN "research" ELSE "planning"
    [] s = "researcher" -> "design"
    [] s = "designer" -> "planning"
    [] s \in {"planner", "plan-checker"} -> "plan_ready"
    [] s = "implementer" -> "review"
    [] OTHER -> "done"

MutAfterReviewSkipsQa == "done"

(* After an accepted review, or a skipped one.                             *)
AfterReview == IF QaEnabled THEN "qa" ELSE "done"

(* findCoordinatorTaskCandidates: the row is listed for the stage.         *)
IsCandidate(s) ==
  /\ ~row.paused
  /\ lock = "free"
  /\ \/ row.status = InProgress(s) /\ (s = "plan-checker" => row.autoMode)
     \/ s = "implementer" /\ row.status = "plan_ready" /\ row.autoMode

-----------------------------------------------------------------------------
(* Agent bookkeeping                                                       *)

JsIdle == [at |-> "idle", stage |-> "planner", status |-> "backlog",
           from |-> "none", retryCount |-> 0, rework |-> FALSE]

(* What the section remembers of the row it read, and uses later.          *)
JsSection(at, s) ==
  [at |-> at, stage |-> s, status |-> row.status,
   from |-> IF at = "due" THEN row.blockedFromStatus ELSE "none",
   retryCount |-> row.retryCount,
   rework |-> s = "implementer" /\ row.reworkRequested]

NoRun == [at |-> "none", stage |-> "planner", from |-> "planning",
          seen |-> 0, retryCount |-> 0, rework |-> FALSE]

(* A run spawned for the selected row.  retryCount and rework are of the   *)
(* row the coordinator selected, from and seen of r, the row that the      *)
(* runner reads when it starts (kept for the runners that use them).       *)
NewRun(r) ==
  [at |-> "running", stage |-> js.stage,
   from |-> IF js.stage # "planner" THEN "planning"
            ELSE IF r.blockedFromStatus # "none" THEN r.blockedFromStatus
            ELSE r.status,
   seen |-> IF js.stage \in {"requirements-analyst", "implementer"}
            THEN r.retryCount ELSE 0,
   retryCount |-> js.retryCount, rework |-> js.rework]

(* The runner has returned: the handoff reads the row again; the catch of  *)
(* the review gate still uses the selected retryCount.                     *)
Returned(run) ==
  [run EXCEPT !.at = "returned", !.from = "planning", !.seen = 0,
              !.retryCount = IF run.stage = "reviewer" THEN @ ELSE 0]

(* The row is written; only the finally block is left.                     *)
Finished == [NoRun EXCEPT !.at = "finally"]

Live(i) == runs[i].at # "none"

(* The poll timer can fire.  What follows a settled runner, up to the      *)
(* release of the claim, are promise reactions: they all run before the    *)
(* next timer does.                                                        *)
EventLoopFree ==
  js = JsIdle /\ \A i \in Slots : runs[i].at \notin {"returned", "finally"}

MutWriteThroughCancel(new) == SetTaskFields(new)

(* The coordinator's own updateTaskStatus: skipped on a cancelled row.     *)
CoordinatorWrite(new) ==
  IF IsOperatorCancelled(row) THEN row ELSE SetTaskFields(new)

(* Every write of the row moves updatedAt past the newest comment.         *)
WriteRow(new) == row' = new /\ answered' = FALSE

Init ==
  /\ row \in {CleanTo([status |-> "backlog", autoMode |-> a,
                       blockedReason |-> "none", blockedFromStatus |-> "none",
                       retryAfter |-> FALSE, retryCount |-> 0,
                       reworkRequested |-> FALSE,
                       manualReviewRequired |-> FALSE, paused |-> FALSE],
                      "backlog") : a \in BOOLEAN}
  /\ lock = "free"
  /\ js = JsIdle
  /\ runs = [i \in Slots |-> NoRun]
  /\ answered = FALSE
  /\ batch = FALSE
  /\ fastFix = FALSE
  /\ restarts = 0
  /\ asked = 0
  /\ verdict = "none"

-----------------------------------------------------------------------------
(* The poll cycle: lock cleanup, watchdog, backlog advance, selection      *)

MutReleaseOnlyInProgress ==
  /\ EventLoopFree
  /\ lock = "dead" /\ row.status \in InProgressStatuses
  /\ lock' = "free"
  /\ answered' = FALSE
  /\ UNCHANGED <<row, js, runs, batch, fastFix, restarts, asked,
                 verdict>>

MutReleaseLiveClaims ==
  /\ EventLoopFree
  /\ lock # "free"
  /\ lock' = "free"
  /\ answered' = FALSE
  /\ UNCHANGED <<row, js, runs, batch, fastFix, restarts, asked,
                 verdict>>

(* releaseStaleTaskClaims: a claim of a process that is gone, once its     *)
(* deadline or its heartbeat is old enough.  A live run renews its claim   *)
(* every 30 s while a query of it is running and does only short local     *)
(* work between queries; the thresholds are five minutes without a         *)
(* heartbeat and the stage timeout plus five minutes.  So a claim of this  *)
(* process is never stale here.                                            *)
ReleaseStaleClaims ==
  /\ EventLoopFree
  /\ lock = "dead"
  /\ lock' = "free"
  /\ answered' = FALSE
  /\ UNCHANGED <<row, js, runs, batch, fastFix, restarts, asked,
                 verdict>>

(* listDueBlockedExternalTasks lists the row, once its deadline passed.    *)
IsDueBlocked ==
  /\ row.status = "blocked_external" /\ row.retryAfter
  /\ ~row.paused /\ row.blockedFromStatus # "none"

MutListDueUnlessRework ==
  /\ EventLoopFree
  /\ IsDueBlocked /\ ~row.reworkRequested
  /\ js' = JsSection("due", "planner")
  /\ UNCHANGED <<row, lock, runs, answered, batch, fastFix, restarts,
                 asked, verdict>>

(* releaseDueBlockedTasks, first half: the row is listed as due.           *)
ListDueBlocked ==
  /\ EventLoopFree
  /\ IsDueBlocked
  /\ js' = JsSection("due", "planner")
  /\ UNCHANGED <<row, lock, runs, answered, batch, fastFix, restarts,
                 asked, verdict>>

MutReleaseKeepsDeadline(r, from, retries) ==
  [r EXCEPT !.status = from, !.blockedReason = "none",
            !.blockedFromStatus = "none", !.retryCount = retries,
            !.paused = FALSE, !.manualReviewRequired = FALSE]

(* The patch of releaseDueBlockedTasks.                                    *)
ReleasedRow(r, from, retries) ==
  [r EXCEPT !.status = from, !.blockedReason = "none",
            !.blockedFromStatus = "none", !.retryAfter = FALSE,
            !.retryCount = retries, !.paused = FALSE,
            !.manualReviewRequired = FALSE]

(* Second half: written from the listed row, whatever the row is by now.   *)
ReleaseDueBlocked ==
  /\ js.at = "due"
  /\ WriteRow(SetTaskFields(ReleasedRow(row, js.from, js.retryCount)))
  /\ js' = JsIdle
  /\ UNCHANGED <<lock, runs, batch, fastFix, restarts, asked,
                 verdict>>

(* recoverStaleInProgressTasks, first half.                                *)
ListStale ==
  /\ EventLoopFree
  /\ row.status \in InProgressStatuses /\ ~row.paused /\ lock = "free"
  /\ js' = JsSection("stale", "planner")
  /\ UNCHANGED <<row, lock, runs, answered, batch, fastFix, restarts,
                 asked, verdict>>

(* The resume status is the stale status itself.                           *)
StaleRow(r, status, retries) ==
  IF retries >= STALE_MAX_RETRY
  THEN [r EXCEPT !.status = "blocked_external", !.blockedReason = "other",
                 !.blockedFromStatus = status, !.retryAfter = FALSE]
  ELSE [Block(r, "other", status, Bump(retries)) EXCEPT !.retryAfter = TRUE]

(* Second half: quarantine or a scheduled recovery.                        *)
RecoverStale ==
  /\ js.at = "stale"
  /\ WriteRow(SetTaskFields(StaleRow(row, js.status, js.retryCount)))
  /\ js' = JsIdle
  /\ UNCHANGED <<lock, runs, batch, fastFix, restarts, asked,
                 verdict>>

(* claimBacklogTaskForAdvance, by the scheduler or by the auto-queue: a    *)
(* conditional update, so one step.                                        *)
AdvanceBacklog ==
  /\ EventLoopFree
  /\ row.status = "backlog" /\ ~row.paused
  /\ WriteRow(CleanTo(row, IF IntakeEnabled THEN "requirements_analysis"
                           ELSE "planning"))
  /\ UNCHANGED <<lock, js, runs, batch, fastFix, restarts, asked,
                 verdict>>

(* pollAndProcess: the row is among a stage's candidates and the project   *)
(* and the semaphores have room for it.                                    *)
Select(s) ==
  /\ EventLoopFree
  /\ s \in ActivePipeline
  /\ IsCandidate(s)
  /\ js' = JsSection("selected", s)
  /\ UNCHANGED <<row, lock, runs, answered, batch, fastFix, restarts,
                 asked, verdict>>

(* A full project, semaphore or budget: the candidate is skipped.          *)
SkipCandidate ==
  /\ js.at = "selected"
  /\ js' = JsIdle
  /\ UNCHANGED <<row, lock, runs, answered, batch, fastFix, restarts,
                 asked, verdict>>

(* blockTaskForRuntimeGateIfEligible: compare-and-set on what was selected.*)
RuntimeGateBlock ==
  /\ js.at = "selected"
  /\ row.status = js.status /\ ~row.paused /\ lock = "free"
  /\ js.status = "plan_ready" => row.autoMode
  /\ WriteRow([Block(row, "other", js.status, Bump(js.retryCount))
                 EXCEPT !.retryAfter = TRUE])
  /\ js' = JsIdle
  /\ UNCHANGED <<lock, runs, batch, fastFix, restarts, asked,
                 verdict>>

(* No implementation-capable runtime is configured.                        *)
NoCapableRuntimeBlock ==
  /\ js.at = "selected" /\ js.stage = "implementer"
  /\ WriteRow(CoordinatorWrite(
       [Block(row, "other", js.status, js.retryCount)
          EXCEPT !.manualReviewRequired = FALSE]))
  /\ js' = JsIdle
  /\ UNCHANGED <<lock, runs, batch, fastFix, restarts, asked,
                 verdict>>

(* claimTask: a compare-and-set on the lock alone; the row's status and    *)
(* paused flag are not looked at again.                                    *)
Claim ==
  /\ js.at = "selected"
  /\ lock = "free"
  /\ lock' = "mine"
  /\ answered' = FALSE
  /\ js' = [js EXCEPT !.at = "claimed"]
  /\ UNCHANGED <<row, runs, batch, fastFix, restarts, asked,
                 verdict>>

(* The claim is given back: a semaphore is full after all, the project is  *)
(* missing or its scaffold cannot be made.                                 *)
AbandonClaim ==
  /\ js.at = "claimed"
  /\ lock' = IF lock = "mine" THEN "free" ELSE lock
  /\ answered' = FALSE
  /\ js' = JsIdle
  /\ UNCHANGED <<row, runs, batch, fastFix, restarts, asked,
                 verdict>>

(* The guards of processOneTask that send the row elsewhere before a stage *)
(* starts; the claim is released when it returns.                          *)
PreStartRows ==
  {[row EXCEPT !.status = t, !.blockedReason = "none",
               !.blockedFromStatus = "none", !.retryAfter = FALSE,
               !.retryCount = js.retryCount,
               !.manualReviewRequired = FALSE] :
     t \in IF js.stage # "planner" THEN {}
           ELSE (IF IntakeEnabled THEN {"requirements_analysis"} ELSE {})
                  \cup (IF ResearchDesignEnabled THEN {"research", "design"}
                        ELSE {})}
  \cup
  (IF js.stage # "implementer" THEN {}
   ELSE {[Block(row, "other", js.status, js.retryCount)
            EXCEPT !.manualReviewRequired = FALSE]})

PreStartGuard ==
  /\ js.at = "claimed"
  /\ \E new \in PreStartRows : WriteRow(CoordinatorWrite(new))
  /\ lock' = IF lock = "mine" THEN "free" ELSE lock
  /\ js' = JsIdle
  /\ UNCHANGED <<runs, batch, fastFix, restarts, asked,
                 verdict>>

(* The start write and the spawn.  The runner starts even when the write   *)
(* was skipped because the row was cancelled in between.                   *)
StartStage(i) ==
  /\ js.at = "claimed"
  /\ ~Live(i)
  /\ WriteRow(CoordinatorWrite([row EXCEPT !.status = InProgress(js.stage)]))
  /\ runs' = [runs EXCEPT ![i] = NewRun(row')]
  /\ js' = JsIdle
  /\ verdict' = IF js.stage = "implementer" THEN "none" ELSE verdict
  /\ UNCHANGED <<lock, batch, fastFix, restarts, asked>>

-----------------------------------------------------------------------------
(* Stage runners.  Their writes are plain setTaskFields calls: unlike the  *)
(* coordinator's they do not look whether the row was cancelled meanwhile. *)

(* What a runner may ask the product owner.                                *)
AskingStages == Stages \ {"plan-checker"}

NeedsInput(r) == [r EXCEPT !.status = "needs_input"]

(* createTaskRequirementQuestionBatch from a run, or an open batch found.  *)
RaiseQuestions(i) ==
  /\ runs[i].at = "running" /\ runs[i].stage \in AskingStages
  /\ IntakeEnabled
  /\ WriteRow(SetTaskFields(NeedsInput(row)))
  /\ batch' = TRUE
  /\ runs' = [runs EXCEPT ![i] = Returned(runs[i])]
  /\ UNCHANGED <<lock, js, fastFix, restarts, asked, verdict>>

(* handleRaiseQuestionsOutput without intake, or with no new question.     *)
TriageQuestions(i) ==
  /\ runs[i].at = "running"
  /\ runs[i].stage \in AskingStages \ {"requirements-analyst"}
  /\ WriteRow(SetTaskFields(
       [Block(row, "questions_triage", row.status, row.retryCount)
          EXCEPT !.manualReviewRequired = TRUE]))
  /\ runs' = [runs EXCEPT ![i] = Returned(runs[i])]
  /\ UNCHANGED <<lock, js, batch, fastFix, restarts, asked, verdict>>

(* blockTaskForImplementationManifestFailure.                              *)
ManifestFailureRow(r, seen) ==
  IF seen + 1 <= EVIDENCE_MAX_REWORK
  THEN [r EXCEPT !.status = "implementing",
                 !.blockedReason = "manifest_invalid",
                 !.blockedFromStatus = "implementing", !.retryAfter = FALSE,
                 !.retryCount = seen + 1, !.manualReviewRequired = FALSE,
                 !.reworkRequested = TRUE]
  ELSE ManualBlock(r, "other", "implementing", seen)

(* The other writes a runner may end with.                                 *)
RunnerRows(run) ==
  CASE run.stage = "requirements-analyst" ->
         {Block(row, "other", "requirements_analysis", run.seen)}
    [] run.stage \in {"researcher", "designer"} ->
         {[Block(row, "other", InProgress(run.stage), row.retryCount)
             EXCEPT !.manualReviewRequired = TRUE]}
    [] run.stage = "planner" ->
         {[Block(row, "planner_terminal", run.from, row.retryCount)
             EXCEPT !.status = t,
                    !.blockedReason = IF t = "needs_input" THEN "other"
                                      ELSE "planner_terminal"] :
            t \in {"blocked_external", "needs_input"}}
    [] run.stage = "implementer" ->
         {[row EXCEPT !.reworkRequested = FALSE],
          [Block(row, "other", "implementing", row.retryCount)
             EXCEPT !.manualReviewRequired = FALSE,
                    !.reworkRequested = TRUE],
          ManifestFailureRow(row, run.seen)}
    [] run.stage = "qa" ->
         {[Block(row, reason, "qa", row.retryCount)
             EXCEPT !.manualReviewRequired = TRUE] :
            reason \in {"qa_schema", "other"}}
    [] OTHER -> {}

RunnerWrite(i) ==
  /\ runs[i].at = "running"
  /\ \E new \in RunnerRows(runs[i]) : WriteRow(SetTaskFields(new))
  /\ runs' = [runs EXCEPT ![i] = Returned(runs[i])]
  /\ UNCHANGED <<lock, js, batch, fastFix, restarts, asked, verdict>>

(* startHeartbeat and renewTaskClaim: only timestamps.                     *)
Heartbeat(i) ==
  /\ runs[i].at \in {"running", "gate"}
  /\ answered
  /\ answered' = FALSE
  /\ UNCHANGED <<row, lock, js, runs, batch, fastFix, restarts, asked,
                 verdict>>

-----------------------------------------------------------------------------
(* processOneTask after the runner                                         *)

MutEvidenceBlockRecordsTarget(r, from) ==
  {[Block(r, IF m THEN "manual_review" ELSE "other", "done", r.retryCount)
      EXCEPT !.manualReviewRequired = m] : m \in BOOLEAN}

(* blockTaskForCompletionEvidenceIfNeeded, the terminal block.             *)
EvidenceBlocks(r, from) ==
  {[Block(r, IF m THEN "manual_review" ELSE "other", from, r.retryCount)
      EXCEPT !.manualReviewRequired = m] : m \in BOOLEAN}

(* returnImplementationEvidenceToReworkIfPossible.                         *)
EvidenceRework(r) ==
  IF r.retryCount + 1 > EVIDENCE_MAX_REWORK THEN {}
  ELSE {[r EXCEPT !.status = "implementing", !.blockedReason = "other",
                  !.blockedFromStatus = "none", !.retryAfter = FALSE,
                  !.retryCount = r.retryCount + 1,
                  !.reworkRequested = TRUE, !.manualReviewRequired = FALSE],
        ManualBlock(r, "manual_review", "implementing", r.retryCount)}

(* The runner itself moved the row, or a human cancelled it: no handoff.   *)
RunnerTerminalized(run) ==
  \/ IsOperatorCancelled(row)
  \/ row.status = "needs_input"
  \/ run.stage = "planner" /\ IsPlannerTerminal(row)
  \/ run.stage \in {"requirements-analyst", "researcher", "designer", "qa"}
       /\ row.status # InProgress(run.stage)
  \/ run.stage = "implementer"
       /\ \/ row.status = "blocked_external"
          \/ /\ row.status = "implementing" /\ row.reworkRequested
             /\ ~row.manualReviewRequired
             /\ row.blockedReason = "manifest_invalid"

(* The successReset of the planner keeps a pending plan-quality retry.     *)
SuccessRow(r, s) ==
  IF s = "planner" /\ r.blockedFromStatus = "plan_ready"
       /\ r.blockedReason = "plan_quality"
  THEN [CleanTo(r, OnSuccess(s))
          EXCEPT !.retryCount = r.retryCount, !.blockedReason = "plan_quality",
                 !.blockedFromStatus = "plan_ready"]
  ELSE CleanTo(r, OnSuccess(s))

(* Handoffs that end before the success write.                             *)
RefusedHandoffs(run) ==
  CASE run.stage = "implementer" /\ SkipReview ->
         EvidenceBlocks(row, "implementing")
    [] run.stage = "implementer" ->
         (IF run.rework
          THEN {ManualBlock(row, "no_delta", "implementing", row.retryCount)}
          ELSE {})
         \cup EvidenceRework(row) \cup EvidenceBlocks(row, "implementing")
    [] run.stage = "qa" ->
         {ManualBlock(row, "other", "qa", row.retryCount)}
         \cup EvidenceBlocks(row, "qa")
    [] OTHER -> {}

FinishRun(i, new) ==
  /\ WriteRow(CoordinatorWrite(new))
  /\ runs' = [runs EXCEPT ![i] = Finished]
  /\ UNCHANGED <<lock, js, batch, fastFix, restarts, asked>>

(* The early returns after the runner.                                     *)
KeepRunnerOutcome(i) ==
  /\ runs[i].at \in {"running", "returned"}
  /\ RunnerTerminalized(runs[i])
  /\ runs' = [runs EXCEPT ![i] = Finished]
  /\ UNCHANGED <<row, lock, js, answered, batch, fastFix, restarts,
                 asked, verdict>>

RefuseHandoff(i) ==
  /\ runs[i].at \in {"running", "returned"}
  /\ ~RunnerTerminalized(runs[i])
  /\ \E new \in RefusedHandoffs(runs[i]) : FinishRun(i, new)
  /\ UNCHANGED verdict

MutReviewNeedsNoGate(i) ==
  /\ runs[i].at \in {"running", "returned"}
  /\ ~RunnerTerminalized(runs[i])
  /\ IF runs[i].stage = "implementer" /\ SkipReview
     THEN FinishRun(i, CleanTo(row, AfterReview)) /\ verdict' = "reviewed"
     ELSE FinishRun(i, SuccessRow(row, runs[i].stage))
          /\ verdict' = IF runs[i].stage = "qa" THEN "qa_accepted" ELSE verdict

(* The success write.  It does not look at the row's status: whatever the  *)
(* row became during the run of a planner or a plan checker is replaced.   *)
Succeed(i) ==
  /\ runs[i].at \in {"running", "returned"}
  /\ ~RunnerTerminalized(runs[i])
  /\ runs[i].stage # "reviewer"
  /\ IF runs[i].stage = "implementer" /\ SkipReview
     THEN FinishRun(i, CleanTo(row, AfterReview)) /\ verdict' = "reviewed"
     ELSE FinishRun(i, SuccessRow(row, runs[i].stage))
          /\ verdict' = IF runs[i].stage = "qa" THEN "qa_accepted" ELSE verdict

(* The reviewer's output goes through handleAutoReviewGate, awaited.       *)
EnterReviewGate(i) ==
  /\ runs[i].at \in {"running", "returned"}
  /\ ~RunnerTerminalized(runs[i])
  /\ runs[i].stage = "reviewer"
  /\ runs' = [runs EXCEPT ![i].at = "gate"]
  /\ UNCHANGED <<row, lock, js, answered, batch, fastFix, restarts,
                 asked, verdict>>

(* The patch of rework_requested and review_retry_requested.               *)
ReviewLoopRow(r, status) ==
  [r EXCEPT !.status = status, !.blockedReason = "none",
            !.blockedFromStatus = "none", !.retryAfter = FALSE,
            !.retryCount = 0, !.manualReviewRequired = FALSE,
            !.reworkRequested = (status = "implementing")]

(* manual_review_required, operator_input_required, rework_requested,      *)
(* review_retry_requested (or the same finding again) and an accepted      *)
(* review whose completion evidence is missing.                            *)
GateRefusals(run) ==
  {ManualBlock(row, reason, "review", n) :
     reason \in {"malformed_review", "manual_review"},
     n \in {0, row.retryCount}}
  \cup {ManualBlock(row, "stalled_rework", "review", row.retryCount),
        ManualBlock(row, "manual_review", "review", run.retryCount),
        [Block(row, "operator_input", "review", 0)
           EXCEPT !.reworkRequested = FALSE, !.manualReviewRequired = FALSE],
        ReviewLoopRow(row, "implementing"), ReviewLoopRow(row, "review")}
  \cup EvidenceBlocks(row, "review")

MutGateRefuseFallsThrough(i) ==
  /\ runs[i].at = "gate"
  /\ \E new \in GateRefusals(runs[i]) : WriteRow(CoordinatorWrite(new))
  /\ UNCHANGED <<lock, js, runs, batch, fastFix, restarts, asked, verdict>>

GateRefuse(i) ==
  /\ runs[i].at = "gate"
  /\ \E new \in GateRefusals(runs[i]) : FinishRun(i, new)
  /\ UNCHANGED verdict

GateAccept(i) ==
  /\ runs[i].at = "gate"
  /\ FinishRun(i, CleanTo(row, AfterReview))
  /\ verdict' = IF IsOperatorCancelled(row) THEN verdict ELSE "reviewed"

-----------------------------------------------------------------------------
(* The catch block of processOneTask                                       *)

(* handlePlanQualityFailure.                                               *)
PlanQualityRow(r, s) ==
  IF r.retryCount + 1 <= PLAN_QUALITY_MAX_RETRIES
  THEN [r EXCEPT !.status = "planning", !.blockedReason = "plan_quality",
                 !.blockedFromStatus = InProgress(s), !.retryAfter = FALSE,
                 !.retryCount = r.retryCount + 1]
  ELSE [Block(r, "plan_quality", InProgress(s), Bump(r.retryCount))
          EXCEPT !.manualReviewRequired = TRUE]

(* The recovery handlers tried before classifyStageError: implementation   *)
(* runtime exhaustion, context length, inspection budget, runtime fallback.*)
RecoveryRows(run) ==
  LET at == InProgress(run.stage) IN
  (IF run.stage = "implementer"
   THEN {Block(row, "other", at, row.retryCount)} ELSE {})
  \cup
  {[Block(row, "operator_input", at, row.retryCount)
      EXCEPT !.reworkRequested = FALSE, !.manualReviewRequired = FALSE],
   ManualBlock(row, "other", at, row.retryCount),
   [row EXCEPT !.status = at, !.blockedReason = "other",
               !.blockedFromStatus = "none", !.retryAfter = FALSE,
               !.retryCount = Bump(row.retryCount), !.paused = FALSE,
               !.reworkRequested = FALSE, !.manualReviewRequired = FALSE]}

(* classifyStageError: a block for good, a fast retry, a retry later.      *)
ClassifiedRows(run) ==
  LET at == InProgress(run.stage) IN
  {Block(row, reason, at, run.retryCount) :
     reason \in {"other", "operator_input"}}
  \cup {[row EXCEPT !.status = at, !.blockedReason = "none",
                    !.blockedFromStatus = "none", !.retryAfter = FALSE],
        Block(row, "other", at, Bump(run.retryCount)),
        [Block(row, "other", at, Bump(run.retryCount))
           EXCEPT !.retryAfter = TRUE]}

StageError(i) ==
  /\ runs[i].at \in {"running", "gate"}
  /\ \/ /\ runs[i].stage \in {"planner", "plan-checker"}
        /\ FinishRun(i, PlanQualityRow(row, runs[i].stage))
     \/ \E new \in RecoveryRows(runs[i]) \cup ClassifiedRows(runs[i]) :
          FinishRun(i, new)
  /\ UNCHANGED verdict

(* The finally block of the poll loop: releaseTaskClaim, which matches on  *)
(* the process, not on the run.                                            *)
Release(i) ==
  /\ runs[i].at = "finally"
  /\ runs' = [runs EXCEPT ![i] = NoRun]
  /\ lock' = IF lock = "mine" THEN "free" ELSE lock
  /\ answered' = FALSE
  /\ UNCHANGED <<row, js, batch, fastFix, restarts, asked, verdict>>

(* The agent process dies; a shutdown gives its claims back first.         *)
Restart(graceful) ==
  /\ restarts < MaxRestarts
  /\ restarts' = restarts + 1
  /\ runs' = [i \in Slots |-> NoRun]
  /\ js' = JsIdle
  /\ lock' = IF lock # "mine" THEN lock
             ELSE IF graceful THEN "free" ELSE "dead"
  /\ UNCHANGED <<row, answered, batch, fastFix, asked, verdict>>

-----------------------------------------------------------------------------
(* The API and MCP processes                                               *)

(* A write by a process other than the agent.                              *)
ApiWrite(new) ==
  /\ WriteRow(SetTaskFields(new))
  /\ UNCHANGED <<lock, js, runs, batch, fastFix, restarts, asked,
                 verdict>>

SequentialBranchBlock(r) ==
  [ManualBlock(r, "sequential_branch", r.status, r.retryCount)
     EXCEPT !.paused = TRUE]

(* handleRegularTransition adjusts the patch of retry_from_blocked.        *)
RetryRows(r) ==
  LET base == EventRow(r, "retry_from_blocked", IntakeEnabled)
      noRework == [base EXCEPT !.reworkRequested = FALSE]
  IN  IF \/ r.blockedReason = "no_delta"
              /\ r.blockedFromStatus = "implementing"
         \/ r.blockedReason = "stalled_rework"
              /\ r.blockedFromStatus = "review"
      THEN {noRework}
      ELSE {base}
           \cup (IF r.blockedFromStatus = "implementing" THEN {noRework}
                 ELSE {})
           \cup (IF r.blockedReason = "malformed_review"
                      /\ r.blockedFromStatus = "review"
                 THEN {[base EXCEPT !.status = "implementing",
                                    !.reworkRequested = TRUE]}
                 ELSE {})

(* Every row an accepted event may lead to.                                *)
EventRows(r, e) ==
  (IF e = "retry_from_blocked" THEN RetryRows(r)
   ELSE {EventRow(r, e, IntakeEnabled)})
  \cup (IF e \in RuntimeStartingEvents THEN {SequentialBranchBlock(r)}
        ELSE {})
  \cup (IF e = "start_implementation" THEN EvidenceBlocks(r, r.status)
        ELSE {})
  \cup (IF e = "approve_done" THEN EvidenceBlocks(r, "done") ELSE {})

(* handleRegularTransition.                                                *)
RegularTransition(e) ==
  LET inputRetry == e = "retry_from_blocked" /\ IsOperatorInputHold(row) IN
  /\ e \in HumanEvents \ {"fast_fix", "accept_existing_plan"}
  /\ IsOperatorCancelled(row) => e = "cancel_task" \/ inputRetry
  /\ inputRetry => answered
  /\ EventAllowed(row, e, IntakeEnabled, inputRetry)
  /\ \E new \in EventRows(row, e) : ApiWrite(new)

(* handleAcceptExistingPlan; paused is the one field it does not reset.    *)
AcceptExistingPlan ==
  /\ row.status = "backlog"
  /\ \E new \in {SequentialBranchBlock(row),
                 ManualBlock(row, "plan_quality", "backlog", row.retryCount),
                 [CleanTo(row, "plan_ready") EXCEPT !.paused = row.paused]} :
       ApiWrite(new)

NextStatusForOperatorCloseout ==
  IF SkipReview THEN AfterReview ELSE "review"

(* handleOperatorVerifiedCompletion: an operator hands in committed and    *)
(* verified work, also while a run is working on the task.  Unresolved     *)
(* blockers may be overridden, a manual review may not.  With review       *)
(* skipped the operator's evidence is the approval.                        *)
OperatorVerifiedCompletion ==
  /\ row.status \in {"blocked_external", "implementing", "review"}
  /\ ~row.manualReviewRequired
  /\ WriteRow(SetTaskFields(CleanTo(row, NextStatusForOperatorCloseout)))
  /\ verdict' = IF SkipReview THEN "reviewed" ELSE verdict
  /\ UNCHANGED <<lock, js, runs, batch, fastFix, restarts, asked>>

(* checkConfigGovernanceBlocker: before any look at the row's status.      *)
ConfigGovernanceBlock ==
  /\ ConfigBlockers
  /\ ApiWrite(Block(row, "other", row.status, row.retryCount))

(* handleFastFix up to its query, and after it.                            *)
BeginFastFix ==
  /\ ~fastFix
  /\ row.status = "plan_ready" /\ ~row.autoMode
  /\ fastFix' = TRUE
  /\ UNCHANGED <<row, lock, js, runs, answered, batch, restarts, asked,
                 verdict>>

EndFastFix ==
  /\ fastFix
  /\ fastFix' = FALSE
  /\ \/ WriteRow(SetTaskFields([row EXCEPT !.reworkRequested = FALSE]))
     \/ UNCHANGED <<row, answered>>  \* the query failed
  /\ UNCHANGED <<lock, js, runs, batch, restarts, asked, verdict>>

(* POST comments.  A comment matters only to a retry of a hold, and every  *)
(* write that makes a hold is newer than the comments before it.           *)
Comment ==
  /\ IsOperatorInputHold(row) /\ ~answered
  /\ answered' = TRUE
  /\ UNCHANGED <<row, lock, js, runs, batch, fastFix, restarts, asked,
                 verdict>>

(* PUT of the two flags that the automation reads.                         *)
EditTask ==
  \/ ApiWrite([row EXCEPT !.paused = ~row.paused])
  \/ ApiWrite([row EXCEPT !.autoMode = ~row.autoMode])

(* POST questions, with a blocking question, whatever the row's status.    *)
CreateQuestion ==
  /\ IntakeEnabled
  /\ asked < MaxQuestions
  /\ asked' = asked + 1
  /\ WriteRow(SetTaskFields(NeedsInput(row)))
  /\ batch' = TRUE
  /\ UNCHANGED <<lock, js, runs, fastFix, restarts, verdict>>

ResumeStatuses == InProgressStatuses

(* answerTaskRequirementQuestionBatch with the last answer.  The resume    *)
(* gives the claim away, whoever holds it.                                 *)
AnswerBatch ==
  /\ batch
  /\ batch' = FALSE
  /\ IF row.status = "needs_input"
     THEN /\ \E t \in ResumeStatuses :
               WriteRow(SetTaskFields([row EXCEPT !.status = t]))
          /\ lock' = "free"
     ELSE /\ answered' = FALSE
          /\ UNCHANGED <<row, lock>>
  /\ UNCHANGED <<js, runs, fastFix, restarts, asked, verdict>>

(* resolveSyncEvent: the events the MCP server may apply to the row.       *)
SyncEvents(r) ==
  CASE r.status = "backlog" -> {"start_ai", "accept_existing_plan"}
    [] r.status = "plan_ready" -> {"start_implementation",
                                   "request_replanning"}
    [] r.status = "blocked_external"
         /\ r.blockedFromStatus \notin {"none", "done", "verified",
                                        "blocked_external"} ->
         {"retry_from_blocked"}
    [] OTHER -> {}

(* handoff_sync_status: without the API's guards and without its options,  *)
(* and without touching updatedAt.                                         *)
SyncStatus ==
  /\ \E e \in SyncEvents(row), p \in BOOLEAN :
       /\ EventAllowed(row, e, FALSE, FALSE)
       /\ row' = SetTaskFields([EventRow(row, e, FALSE) EXCEPT !.paused = p])
  /\ UNCHANGED <<lock, js, runs, answered, batch, fastFix, restarts,
                 asked, verdict>>

-----------------------------------------------------------------------------
(* Specification                                                           *)

Agent ==
  \/ ReleaseStaleClaims \/ ListDueBlocked \/ ReleaseDueBlocked
  \/ ListStale \/ RecoverStale \/ AdvanceBacklog
  \/ \E s \in Stages : Select(s)
  \/ SkipCandidate \/ RuntimeGateBlock \/ NoCapableRuntimeBlock
  \/ Claim \/ AbandonClaim \/ PreStartGuard
  \/ \E i \in Slots : StartStage(i)

(* A run continues on the agent's thread, between two sections of it.      *)
RunProgress(i) ==
  /\ js = JsIdle
  /\ \/ RaiseQuestions(i) \/ TriageQuestions(i) \/ RunnerWrite(i)
     \/ KeepRunnerOutcome(i) \/ RefuseHandoff(i) \/ Succeed(i)
     \/ EnterReviewGate(i) \/ GateRefuse(i) \/ GateAccept(i)
     \/ StageError(i) \/ Release(i)

Run(i) == RunProgress(i) \/ (js = JsIdle /\ Heartbeat(i))

Human ==
  \/ \E e \in HumanEvents : RegularTransition(e)
  \/ AcceptExistingPlan \/ OperatorVerifiedCompletion
  \/ ConfigGovernanceBlock
  \/ BeginFastFix \/ EndFastFix \/ Comment \/ EditTask
  \/ CreateQuestion \/ AnswerBatch \/ SyncStatus

Next ==
  \/ Agent
  \/ \E i \in Slots : Run(i)
  \/ \E graceful \in BOOLEAN : Restart(graceful)
  \/ Human

Spec == Init /\ [][Next]_vars

(* What the agent's scheduling guarantees, whatever people do: a section   *)
(* of the thread ends, every poll cycle cleans up claims and lists due     *)
(* blocks, an awaited runner or gate settles (runStageWithTimeout), and    *)
(* the finally block is reached on every path.                             *)
Fairness ==
  /\ WF_vars(Agent)
  /\ WF_vars(ReleaseStaleClaims)
  /\ WF_vars(ListDueBlocked)
  /\ \A i \in Slots : WF_vars(RunProgress(i))

FairSpec == Spec /\ Fairness

-----------------------------------------------------------------------------
(* Properties                                                              *)

Run0 == [at : {"none", "running", "returned", "gate", "finally"},
         stage : Stages, from : Statuses, seen : RetryCounts,
         retryCount : RetryCounts, rework : BOOLEAN]

JsSections ==
  [at : {"idle", "due", "stale", "selected", "claimed"}, stage : Stages,
   status : Statuses, from : Statuses \cup {"none"},
   retryCount : RetryCounts, rework : BOOLEAN]

(* Every variable keeps its type: no write of any process leaves a field   *)
(* of the row, a saved snapshot or a claim outside its domain.             *)
TypeOK ==
  /\ row \in TaskRows
  /\ lock \in {"free", "mine", "dead"}
  /\ js \in JsSections
  /\ runs \in [Slots -> Run0]
  /\ answered \in BOOLEAN /\ batch \in BOOLEAN /\ fastFix \in BOOLEAN
  /\ restarts \in 0 .. MaxRestarts /\ asked \in 0 .. MaxQuestions
  /\ verdict \in {"none", "reviewed", "qa_accepted"}

(* An operator-input hold is always paused, never due and never a manual   *)
(* review, whoever wrote it and whatever was edited since: no poll cycle   *)
(* can pick it up.                                                         *)
OperatorInputHold ==
  row.status = "blocked_external" /\ row.blockedReason = "operator_input"
    => row.paused /\ ~row.retryAfter /\ ~row.manualReviewRequired

(* Claims keep stage runs apart: at most one run of the task is alive, and *)
(* while it is alive this agent holds the claim.                           *)
ExclusiveRun ==
  /\ \A i, j \in Slots : Live(i) /\ Live(j) => i = j
  /\ \A i \in Slots : Live(i) => lock = "mine"

(* A finished task carries the approvals its configuration asks for: it is *)
(* done, or blocked on its way from done, only after the review gate (or   *)
(* QA, where QA is required) accepted the newest implementation, or its    *)
(* evidence did where review is skipped.                                   *)
DoneEarned ==
  \/ row.status \in {"done", "verified"}
  \/ row.status = "blocked_external"
       /\ row.blockedFromStatus \in {"done", "verified"}
  => verdict = IF QaEnabled THEN "qa_accepted" ELSE "reviewed"

(* No stage works on a task that is done: nothing can still change what    *)
(* was approved.  (With review skipped an operator may close the task out  *)
(* under a running implementer.)                                           *)
NoWorkAfterDone ==
  row.status \in {"done", "verified"}
    => \A i \in Slots : runs[i].at \in {"none", "finally"}

(* A retry deadline is set only on a blocked row that knows which pipeline *)
(* status to go back to, so the watchdog can always release it.            *)
RetryWindow ==
  row.retryAfter => /\ row.status = "blocked_external"
                    /\ row.blockedFromStatus \in
                         InProgressStatuses \cup {"plan_ready"}

(* A rework request lives only while the task is with the implementer, or  *)
(* blocked there: it never reaches the planner, a reviewer or done.        *)
ReworkScope ==
  row.reworkRequested =>
    "implementing" \in {row.status, IF row.status = "blocked_external"
                                    THEN row.blockedFromStatus ELSE "none"}

AgentStep == js' # js \/ runs' # runs

(* The agent takes a row out of a cancellation only through the two doors  *)
(* that do not look: the final write of a runner that was already running, *)
(* and a watchdog section that listed the row before it was cancelled.     *)
CancelLeaksOnlyThroughStaleWrites ==
  [][IsOperatorCancelled(row) /\ ~IsOperatorCancelled(row') /\ AgentStep
       => \/ js.at \in {"due", "stale"}
          \/ \E i \in Slots : /\ runs[i].at = "running"
                              /\ runs'[i].at = "returned"]_vars

(* The agent never moves a row that waits for an operator's input.         *)
HoldLeftToHuman ==
  [][row.status = "blocked_external" /\ row.blockedReason = "operator_input"
       /\ AgentStep => row' = row]_vars

(* Nothing leaves verified.                                                *)
VerifiedTerminal ==
  [][row.status = "verified" => row'.status = "verified"]_vars

(* A block with a retry window is released by the watchdog, or a human     *)
(* changed it first.                                                       *)
DueBlockReleased == IsDueBlocked ~> ~IsDueBlocked

(* No claim is held for ever: a run lets go of it however its runner ends, *)
(* and a dead process's claim is cleaned up.                               *)
ClaimReleased == lock # "free" ~> lock = "free"
=============================================================================
