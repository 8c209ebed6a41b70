----------------------- MODULE TaskLifecycle_proofs -----------------------
(***************************************************************************)
(* Theorems about TaskLifecycle, for every value of its constants.         *)
(*                                                                         *)
(* The first part types the rows that each kind of write can produce.  A   *)
(* row has nine fields and a patch sets up to eight of them: long patches  *)
(* are typed in two halves.  The second part shows that every step keeps   *)
(* the row or stores one through setTaskFields (RowStored), from which     *)
(* type correctness and the hold normalisation follow.  The third part     *)
(* strengthens ExclusiveRun, RetryWindow and the cancellation property to  *)
(* inductive invariants.  The fourth sums up what each kind of step does   *)
(* to the fields that say where a task stands (Step), and shows from these *)
(* summaries alone that done is earned, that nobody works on a closed      *)
(* task, that holds are left to people and that rework stays with the      *)
(* implementer.                                                            *)
(***************************************************************************)
EXTENDS TaskLifecycle, TLAPS

-----------------------------------------------------------------------------
(* Rows                                                                    *)

(* A saturating counter stays a counter.                                   *)
LEMMA BumpType ==
  ASSUME NEW n \in RetryCounts
  PROVE  Bump(n) \in RetryCounts
  BY RetryCapAssumption DEF Bump, RetryCounts

(* The normalisation of setTaskFields yields a row.                        *)
LEMMA SetTaskFieldsType ==
  ASSUME NEW r \in TaskRows
  PROVE  SetTaskFields(r) \in TaskRows
  BY DEF SetTaskFields, TaskRows

(* CLEAN_STATE_RESET yields a row.                                         *)
LEMMA CleanToType ==
  ASSUME NEW r \in TaskRows, NEW t \in Statuses
  PROVE  /\ CleanStateReset(r) \in TaskRows
         /\ CleanTo(r, t) \in TaskRows
<1>1. 0 \in RetryCounts /\ "none" \in BlockedReasons
  BY RetryCapAssumption DEF RetryCounts, BlockedReasons
<1> DEFINE a == [r EXCEPT !.blockedReason = "none",
                          !.blockedFromStatus = "none",
                          !.retryAfter = FALSE, !.retryCount = 0]
           b == [a EXCEPT !.reworkRequested = FALSE,
                          !.manualReviewRequired = FALSE, !.paused = FALSE]
<1>2. a \in TaskRows
  BY <1>1 DEF TaskRows
<1>3. b \in TaskRows
  BY <1>2 DEF TaskRows
<1>4. CleanStateReset(r) = b
  BY DEF CleanStateReset, TaskRows
<1>5. CleanStateReset(r) \in TaskRows
  BY <1>3, <1>4
<1>6. CleanTo(r, t) \in TaskRows
  BY <1>5 DEF CleanTo, TaskRows
<1> QED  BY <1>5, <1>6

(* A block yields a row.                                                   *)
LEMMA BlockType ==
  ASSUME NEW r \in TaskRows, NEW reason \in BlockedReasons,
         NEW from \in Statuses \cup {"none"}, NEW n \in RetryCounts
  PROVE  /\ Block(r, reason, from, n) \in TaskRows
         /\ ManualBlock(r, reason, from, n) \in TaskRows
  BY DEF Block, ManualBlock, TaskRows, Statuses

(* An accepted human event yields a row: a retry only with an origin.      *)
LEMMA EventRowType ==
  ASSUME NEW r \in TaskRows, NEW e \in HumanEvents, NEW intake \in BOOLEAN,
         NEW inputRetry \in BOOLEAN, EventAllowed(r, e, intake, inputRetry)
  PROVE  EventRow(r, e, intake) \in TaskRows
<1>1. CASE e = "retry_from_blocked"
  <2>1. r.blockedFromStatus \in Statuses
    BY <1>1 DEF EventAllowed, RetryAllowed, TaskRows
  <2>2. CleanTo(r, r.blockedFromStatus) \in TaskRows
    BY <2>1, CleanToType
  <2> QED  BY <1>1, <2>2 DEF EventRow, TaskRows
<1>2. CASE e = "cancel_task"
  <2>1. CleanTo(r, "blocked_external") \in TaskRows
    BY CleanToType DEF Statuses
  <2> QED
    BY <1>2, <2>1 DEF EventRow, TaskRows, BlockedReasons
<1>3. CASE e = "request_changes"
  <2>1. CleanTo(r, "implementing") \in TaskRows
    BY CleanToType DEF Statuses
  <2> QED  BY <1>3, <2>1 DEF EventRow, TaskRows
<1>4. CASE e \notin {"retry_from_blocked", "cancel_task", "request_changes"}
  <2>1. \A t \in Statuses : CleanTo(r, t) \in TaskRows
    BY CleanToType
  <2> QED  BY <1>4, <2>1 DEF EventRow, HumanEvents, Statuses
<1> QED  BY <1>1, <1>2, <1>3, <1>4

(* The stages map to statuses, and their work statuses can be resumed.     *)
LEMMA StageStatus ==
  ASSUME NEW s \in Stages
  PROVE  /\ InProgress(s) \in InProgressStatuses \cup {"plan_ready"}
         /\ InProgress(s) \in Statuses
         /\ OnSuccess(s) \in Statuses
         /\ AfterReview \in Statuses
  BY DEF InProgress, OnSuccess, AfterReview, Stages, InProgressStatuses,
         Statuses

(* An operator's completion leads to a status.                             *)
LEMMA CloseoutStatus == NextStatusForOperatorCloseout \in Statuses
  BY DEF NextStatusForOperatorCloseout, AfterReview, Statuses

(* The watchdog releases a block into a row.                               *)
LEMMA ReleasedRowType ==
  ASSUME NEW r \in TaskRows, NEW from \in Statuses, NEW n \in RetryCounts
  PROVE  ReleasedRow(r, from, n) \in TaskRows
<1> DEFINE a == [r EXCEPT !.status = from, !.blockedReason = "none",
                          !.blockedFromStatus = "none",
                          !.retryAfter = FALSE]
           b == [a EXCEPT !.retryCount = n, !.paused = FALSE,
                          !.manualReviewRequired = FALSE]
<1>1. a \in TaskRows
  BY DEF TaskRows, BlockedReasons
<1>2. b \in TaskRows
  BY <1>1 DEF TaskRows
<1>3. ReleasedRow(r, from, n) = b
  BY DEF ReleasedRow, TaskRows
<1> QED  BY <1>2, <1>3

(* The watchdog quarantines or schedules a stale row into a row.           *)
LEMMA StaleRowType ==
  ASSUME NEW r \in TaskRows, NEW status \in Statuses, NEW n \in RetryCounts
  PROVE  StaleRow(r, status, n) \in TaskRows
<1>1. Block(r, "other", status, Bump(n)) \in TaskRows
  BY BumpType, BlockType DEF BlockedReasons
<1>2. [r EXCEPT !.status = "blocked_external", !.blockedReason = "other",
                !.blockedFromStatus = status, !.retryAfter = FALSE]
        \in TaskRows
  BY DEF TaskRows, BlockedReasons, Statuses
<1>3. [Block(r, "other", status, Bump(n)) EXCEPT !.retryAfter = TRUE]
        \in TaskRows
  BY <1>1 DEF TaskRows
<1> QED  BY <1>2, <1>3 DEF StaleRow

(* The success write yields a row.                                         *)
LEMMA SuccessRowType ==
  ASSUME NEW r \in TaskRows, NEW s \in Stages
  PROVE  SuccessRow(r, s) \in TaskRows
<1>1. CleanTo(r, OnSuccess(s)) \in TaskRows
  BY StageStatus, CleanToType
<1>2. [CleanTo(r, OnSuccess(s))
          EXCEPT !.retryCount = r.retryCount, !.blockedReason = "plan_quality",
                 !.blockedFromStatus = "plan_ready"] \in TaskRows
  BY <1>1 DEF TaskRows, BlockedReasons, Statuses
<1> QED  BY <1>1, <1>2 DEF SuccessRow

(* Blocks for missing completion evidence are rows.                        *)
LEMMA EvidenceBlocksType ==
  ASSUME NEW r \in TaskRows, NEW from \in Statuses
  PROVE  EvidenceBlocks(r, from) \subseteq TaskRows
<1>1. \A m \in BOOLEAN :
        Block(r, IF m THEN "manual_review" ELSE "other", from, r.retryCount)
          \in TaskRows
  BY BlockType DEF TaskRows, BlockedReasons
<1>2. \A m \in BOOLEAN :
        [Block(r, IF m THEN "manual_review" ELSE "other", from, r.retryCount)
           EXCEPT !.manualReviewRequired = m] \in TaskRows
  BY <1>1 DEF TaskRows
<1> QED  BY <1>2 DEF EvidenceBlocks

(* The evidence rework, within its limit, yields rows.                     *)
LEMMA EvidenceReworkType ==
  ASSUME NEW r \in TaskRows
  PROVE  EvidenceRework(r) \subseteq TaskRows
<1> SUFFICES ASSUME r.retryCount + 1 <= EVIDENCE_MAX_REWORK
             PROVE  EvidenceRework(r) \subseteq TaskRows
  BY LifecycleAssumption, RetryCapAssumption
     DEF EvidenceRework, TaskRows, RetryCounts
<1>1. r.retryCount + 1 \in RetryCounts
  BY LifecycleAssumption, RetryCapAssumption DEF TaskRows, RetryCounts
<1> DEFINE a == [r EXCEPT !.status = "implementing", !.blockedReason = "other",
                          !.blockedFromStatus = "none", !.retryAfter = FALSE]
           b == [a EXCEPT !.retryCount = r.retryCount + 1,
                          !.reworkRequested = TRUE,
                          !.manualReviewRequired = FALSE]
<1>2. a \in TaskRows
  BY DEF TaskRows, BlockedReasons, Statuses
<1>3. b \in TaskRows
  BY <1>1, <1>2 DEF TaskRows
<1>4. ManualBlock(r, "manual_review", "implementing", r.retryCount)
        \in TaskRows
  <2>1. /\ r.retryCount \in RetryCounts
        /\ "manual_review" \in BlockedReasons /\ "implementing" \in Statuses
    BY DEF TaskRows, BlockedReasons, Statuses
  <2> QED  BY <2>1, BlockType
<1> QED  BY <1>3, <1>4 DEF EvidenceRework

(* A manifest failure, within its limit or not, yields a row.              *)
LEMMA ManifestFailureRowType ==
  ASSUME NEW r \in TaskRows, NEW seen \in RetryCounts
  PROVE  ManifestFailureRow(r, seen) \in TaskRows
<1> DEFINE a == [r EXCEPT !.status = "implementing",
                          !.blockedReason = "manifest_invalid",
                          !.blockedFromStatus = "implementing",
                          !.retryAfter = FALSE]
           b == [a EXCEPT !.retryCount = seen + 1,
                          !.manualReviewRequired = FALSE,
                          !.reworkRequested = TRUE]
<1>1. a \in TaskRows
  BY DEF TaskRows, BlockedReasons, Statuses
<1>2. ASSUME seen + 1 <= EVIDENCE_MAX_REWORK PROVE b \in TaskRows
  <2>1. seen + 1 \in RetryCounts
    BY <1>2, LifecycleAssumption, RetryCapAssumption DEF RetryCounts
  <2> QED  BY <1>1, <2>1 DEF TaskRows
<1>3. ManualBlock(r, "other", "implementing", seen) \in TaskRows
  BY BlockType DEF BlockedReasons, Statuses
<1> QED  BY <1>2, <1>3 DEF ManifestFailureRow

(* A review loop yields a row.                                             *)
LEMMA ReviewLoopRowType ==
  ASSUME NEW r \in TaskRows, NEW status \in Statuses
  PROVE  ReviewLoopRow(r, status) \in TaskRows
<1> DEFINE a == [r EXCEPT !.status = status, !.blockedReason = "none",
                          !.blockedFromStatus = "none", !.retryAfter = FALSE]
           b == [a EXCEPT !.retryCount = 0, !.manualReviewRequired = FALSE,
                          !.reworkRequested = (status = "implementing")]
<1>1. a \in TaskRows
  BY DEF TaskRows, BlockedReasons
<1>2. 0 \in RetryCounts /\ (status = "implementing") \in BOOLEAN
  BY RetryCapAssumption DEF RetryCounts
<1>3. b \in TaskRows
  BY <1>1, <1>2 DEF TaskRows
<1> QED  BY <1>3 DEF ReviewLoopRow

(* A plan-quality failure, within its limit or not, yields a row.          *)
LEMMA PlanQualityRowType ==
  ASSUME NEW r \in TaskRows, NEW s \in Stages
  PROVE  PlanQualityRow(r, s) \in TaskRows
<1>1. ASSUME r.retryCount + 1 <= PLAN_QUALITY_MAX_RETRIES
      PROVE  r.retryCount + 1 \in RetryCounts
  BY <1>1, LifecycleAssumption, RetryCapAssumption DEF TaskRows, RetryCounts
<1>2. ASSUME r.retryCount + 1 \in RetryCounts
      PROVE  [r EXCEPT !.status = "planning", !.blockedReason = "plan_quality",
                       !.blockedFromStatus = InProgress(s),
                       !.retryAfter = FALSE,
                       !.retryCount = r.retryCount + 1] \in TaskRows
  BY <1>2, StageStatus DEF TaskRows, BlockedReasons, Statuses
<1>3. Block(r, "plan_quality", InProgress(s), Bump(r.retryCount)) \in TaskRows
  BY StageStatus, BumpType, BlockType DEF TaskRows, BlockedReasons
<1>4. [Block(r, "plan_quality", InProgress(s), Bump(r.retryCount))
          EXCEPT !.manualReviewRequired = TRUE] \in TaskRows
  BY <1>3 DEF TaskRows
<1> QED  BY <1>1, <1>2, <1>4 DEF PlanQualityRow

(* The rows the agent's runs may write.                                    *)
LEMMA RunRowsType ==
  ASSUME row \in TaskRows, NEW run \in Run0
  PROVE  /\ RunnerRows(run) \subseteq TaskRows
         /\ RefusedHandoffs(run) \subseteq TaskRows
         /\ GateRefusals(run) \subseteq TaskRows
         /\ RecoveryRows(run) \subseteq TaskRows
         /\ ClassifiedRows(run) \subseteq TaskRows
<1>1. /\ run.stage \in Stages /\ run.from \in Statuses
      /\ run.seen \in RetryCounts /\ run.retryCount \in RetryCounts
      /\ row.retryCount \in RetryCounts /\ 0 \in RetryCounts
      /\ InProgress(run.stage) \in Statuses
      /\ Bump(row.retryCount) \in RetryCounts
      /\ Bump(run.retryCount) \in RetryCounts
  <2>1. /\ run.stage \in Stages /\ run.from \in Statuses
        /\ run.seen \in RetryCounts /\ run.retryCount \in RetryCounts
        /\ row.retryCount \in RetryCounts
    BY DEF Run0, TaskRows
  <2>2. 0 \in RetryCounts
    BY RetryCapAssumption DEF RetryCounts
  <2> QED  BY <2>1, <2>2, StageStatus, BumpType
<1>2. \A reason \in BlockedReasons, from \in Statuses, n \in RetryCounts :
        /\ Block(row, reason, from, n) \in TaskRows
        /\ ManualBlock(row, reason, from, n) \in TaskRows
  BY BlockType
<1>3. \A q \in {"other", "operator_input", "planner_terminal", "qa_schema",
                "no_delta", "manual_review", "malformed_review",
                "stalled_rework"} : q \in BlockedReasons
  BY DEF BlockedReasons
<1>4. RunnerRows(run) \subseteq TaskRows
  <2>1. CASE run.stage = "requirements-analyst"
    BY <1>1, <1>2, <1>3, <2>1 DEF RunnerRows, Statuses
  <2>2. CASE run.stage \in {"researcher", "designer"}
    <3>1. Block(row, "other", InProgress(run.stage), row.retryCount)
            \in TaskRows
      BY <1>1, <1>2, <1>3
    <3>2. [Block(row, "other", InProgress(run.stage), row.retryCount)
             EXCEPT !.manualReviewRequired = TRUE] \in TaskRows
      BY <3>1 DEF TaskRows
    <3> QED  BY <2>2, <3>2 DEF RunnerRows
  <2>3. CASE run.stage = "planner"
    <3>1. Block(row, "planner_terminal", run.from, row.retryCount) \in TaskRows
      BY <1>1, <1>2, <1>3
    <3>2. \A t \in {"blocked_external", "needs_input"} :
            [Block(row, "planner_terminal", run.from, row.retryCount)
               EXCEPT !.status = t,
                      !.blockedReason = IF t = "needs_input" THEN "other"
                                        ELSE "planner_terminal"] \in TaskRows
      BY <3>1, <1>3 DEF TaskRows, Statuses
    <3> QED  BY <2>3, <3>2 DEF RunnerRows
  <2>4. CASE run.stage = "implementer"
    <3>1. [row EXCEPT !.reworkRequested = FALSE] \in TaskRows
      BY DEF TaskRows
    <3>2. ManifestFailureRow(row, run.seen) \in TaskRows
      BY <1>1, ManifestFailureRowType
    <3>3. Block(row, "other", "implementing", row.retryCount) \in TaskRows
      BY <1>1, <1>2, <1>3 DEF Statuses
    <3>4. [Block(row, "other", "implementing", row.retryCount)
             EXCEPT !.manualReviewRequired = FALSE,
                    !.reworkRequested = TRUE] \in TaskRows
      BY <3>3 DEF TaskRows
    <3> QED  BY <2>4, <3>1, <3>2, <3>4 DEF RunnerRows
  <2>5. CASE run.stage = "qa"
    <3>1. \A q \in {"qa_schema", "other"} :
            Block(row, q, "qa", row.retryCount) \in TaskRows
      BY <1>1, <1>2, <1>3 DEF Statuses
    <3>2. \A q \in {"qa_schema", "other"} :
            [Block(row, q, "qa", row.retryCount)
               EXCEPT !.manualReviewRequired = TRUE] \in TaskRows
      BY <3>1 DEF TaskRows
    <3> QED  BY <2>5, <3>2 DEF RunnerRows
  <2>6. CASE run.stage \in {"plan-checker", "reviewer"}
    BY <2>6 DEF RunnerRows
  <2> QED  BY <1>1, <2>1, <2>2, <2>3, <2>4, <2>5, <2>6 DEF Stages
<1>5. RefusedHandoffs(run) \subseteq TaskRows
  <2>1. \A from \in Statuses : EvidenceBlocks(row, from) \subseteq TaskRows
    BY EvidenceBlocksType
  <2>2. EvidenceRework(row) \subseteq TaskRows
    BY EvidenceReworkType
  <2> QED
    BY <1>1, <1>2, <1>3, <2>1, <2>2 DEF RefusedHandoffs, Statuses
<1>6. GateRefusals(run) \subseteq TaskRows
  <2>1. /\ "review" \in Statuses /\ "implementing" \in Statuses
    BY DEF Statuses
  <2>2. /\ ReviewLoopRow(row, "implementing") \in TaskRows
        /\ ReviewLoopRow(row, "review") \in TaskRows
        /\ EvidenceBlocks(row, "review") \subseteq TaskRows
    BY <2>1, ReviewLoopRowType, EvidenceBlocksType
  <2>3. \A q \in {"malformed_review", "manual_review", "stalled_rework"},
           n \in {0, row.retryCount, run.retryCount} :
          ManualBlock(row, q, "review", n) \in TaskRows
    BY <1>1, <1>2, <1>3, <2>1
  <2>4. Block(row, "operator_input", "review", 0) \in TaskRows
    BY <1>1, <1>2, <1>3, <2>1
  <2>5. [Block(row, "operator_input", "review", 0)
           EXCEPT !.reworkRequested = FALSE, !.manualReviewRequired = FALSE]
          \in TaskRows
    BY <2>4 DEF TaskRows
  <2> QED
    BY <2>2, <2>3, <2>5 DEF GateRefusals
<1>7. RecoveryRows(run) \subseteq TaskRows
  <2> DEFINE at == InProgress(run.stage)
             a == [row EXCEPT !.status = at, !.blockedReason = "other",
                              !.blockedFromStatus = "none",
                              !.retryAfter = FALSE]
             b == [a EXCEPT !.retryCount = Bump(row.retryCount),
                            !.paused = FALSE, !.reworkRequested = FALSE,
                            !.manualReviewRequired = FALSE]
  <2>1. a \in TaskRows
    BY <1>1 DEF TaskRows, BlockedReasons
  <2>2. b \in TaskRows
    BY <1>1, <2>1 DEF TaskRows
  <2>3. /\ Block(row, "other", at, row.retryCount) \in TaskRows
        /\ Block(row, "operator_input", at, row.retryCount) \in TaskRows
        /\ ManualBlock(row, "other", at, row.retryCount) \in TaskRows
    BY <1>1, <1>2, <1>3
  <2>4. [Block(row, "operator_input", at, row.retryCount)
           EXCEPT !.reworkRequested = FALSE, !.manualReviewRequired = FALSE]
          \in TaskRows
    BY <2>3 DEF TaskRows
  <2> QED
    BY <2>2, <2>3, <2>4 DEF RecoveryRows
<1>8. ClassifiedRows(run) \subseteq TaskRows
  <2>1. [row EXCEPT !.status = InProgress(run.stage), !.blockedReason = "none",
                    !.blockedFromStatus = "none", !.retryAfter = FALSE]
          \in TaskRows
    BY <1>1 DEF TaskRows, BlockedReasons
  <2>2. /\ \A q \in {"other", "operator_input"} :
             Block(row, q, InProgress(run.stage), run.retryCount) \in TaskRows
        /\ Block(row, "other", InProgress(run.stage), Bump(run.retryCount))
             \in TaskRows
    BY <1>1, <1>2, <1>3
  <2>3. [Block(row, "other", InProgress(run.stage), Bump(run.retryCount))
           EXCEPT !.retryAfter = TRUE] \in TaskRows
    BY <2>2 DEF TaskRows
  <2> QED
    BY <2>1, <2>2, <2>3 DEF ClassifiedRows
<1> QED  BY <1>4, <1>5, <1>6, <1>7, <1>8

(* The rows the API may write.                                             *)
LEMMA ApiRowsType ==
  ASSUME NEW r \in TaskRows, NEW e \in HumanEvents, NEW inputRetry \in BOOLEAN,
         EventAllowed(r, e, IntakeEnabled, inputRetry)
  PROVE  EventRows(r, e) \subseteq TaskRows
<1>1. EventRow(r, e, IntakeEnabled) \in TaskRows
  BY LifecycleAssumption, EventRowType
<1>2. ASSUME e = "retry_from_blocked"
      PROVE  RetryRows(r) \subseteq TaskRows
  <2> DEFINE base == EventRow(r, "retry_from_blocked", IntakeEnabled)
  <2>1. base \in TaskRows
    BY <1>1, <1>2
  <2>2. /\ [base EXCEPT !.reworkRequested = FALSE] \in TaskRows
        /\ [base EXCEPT !.status = "implementing",
                        !.reworkRequested = TRUE] \in TaskRows
    BY <2>1 DEF TaskRows, Statuses
  <2> QED  BY <2>1, <2>2 DEF RetryRows
<1>3. SequentialBranchBlock(r) \in TaskRows
  <2>1. ManualBlock(r, "sequential_branch", r.status, r.retryCount) \in TaskRows
    <3>1. /\ r.retryCount \in RetryCounts /\ r.status \in Statuses
          /\ "sequential_branch" \in BlockedReasons
      BY DEF TaskRows, BlockedReasons
    <3> QED  BY <3>1, BlockType
  <2> QED  BY <2>1 DEF SequentialBranchBlock, TaskRows
<1>4. \A from \in Statuses : EvidenceBlocks(r, from) \subseteq TaskRows
  BY EvidenceBlocksType
<1>5. r.status \in Statuses /\ "done" \in Statuses
  BY DEF TaskRows, Statuses
<1> QED  BY <1>1, <1>2, <1>3, <1>4, <1>5 DEF EventRows

(* What a section of the agent remembers is well typed.                    *)
LEMMA SectionType ==
  ASSUME row \in TaskRows, NEW s \in Stages,
         NEW at \in {"due", "stale", "selected"}
  PROVE  JsSection(at, s) \in JsSections
  BY DEF JsSection, JsSections, TaskRows, Stages

(* Every form of a run is well typed.                                      *)
LEMMA RunType ==
  /\ JsIdle \in JsSections /\ NoRun \in Run0 /\ Finished \in Run0
  /\ \A run \in Run0 : Returned(run) \in Run0
  /\ js \in JsSections => \A r \in TaskRows : NewRun(r) \in Run0
<1>1. 0 \in RetryCounts /\ "planning" \in Statuses /\ "backlog" \in Statuses
        /\ "planner" \in Stages
  BY RetryCapAssumption DEF RetryCounts, Statuses, Stages
<1>2. JsIdle \in JsSections /\ NoRun \in Run0 /\ Finished \in Run0
  BY <1>1 DEF JsIdle, JsSections, NoRun, Finished, Run0
<1>3. ASSUME NEW run \in Run0 PROVE Returned(run) \in Run0
  BY <1>1 DEF Returned, Run0
<1>4. ASSUME js \in JsSections, NEW r \in TaskRows PROVE NewRun(r) \in Run0
  <2>1. /\ js.stage \in Stages /\ js.retryCount \in RetryCounts
        /\ js.rework \in BOOLEAN
    BY <1>4 DEF JsSections
  <2>2. /\ r.status \in Statuses /\ r.retryCount \in RetryCounts
        /\ r.blockedFromStatus \in Statuses \cup {"none"}
    BY DEF TaskRows
  <2> QED  BY <1>1, <2>1, <2>2 DEF NewRun, Run0
<1> QED  BY <1>2, <1>3, <1>4

-----------------------------------------------------------------------------
(* Type correctness.  ReleaseDueBlocked writes the remembered origin into  *)
(* the status: it has to be a status.                                      *)
TypeInv == TypeOK /\ (js.at = "due" => js.from # "none")

(* The first state is well typed.                                          *)
LEMMA TypeInit == Init => TypeInv
<1> SUFFICES ASSUME Init PROVE TypeInv
  OBVIOUS
<1>1. 0 \in RetryCounts
  BY RetryCapAssumption DEF RetryCounts
<1>2. \A a \in BOOLEAN :
        [status |-> "backlog", autoMode |-> a,
         blockedReason |-> "none", blockedFromStatus |-> "none",
         retryAfter |-> FALSE, retryCount |-> 0,
         reworkRequested |-> FALSE,
         manualReviewRequired |-> FALSE, paused |-> FALSE] \in TaskRows
  BY <1>1 DEF TaskRows, Statuses, BlockedReasons
<1>3. row \in TaskRows
  BY <1>2, CleanToType DEF Init, Statuses
<1>4. js \in JsSections /\ js.at # "due"
  BY RunType DEF Init, JsIdle
<1>5. runs \in [Slots -> Run0]
  BY RunType DEF Init
<1>6. restarts \in 0 .. MaxRestarts /\ asked \in 0 .. MaxQuestions
  BY LifecycleAssumption DEF Init
<1> QED
  BY <1>3, <1>4, <1>5, <1>6 DEF Init, TypeInv, TypeOK

(* A step keeps the row or stores a row through setTaskFields.             *)
RowStored == row' = row \/ \E new \in TaskRows : row' = SetTaskFields(new)

(* The guarded write of the coordinator stores a row or keeps it.          *)
LEMMA StoredByCoordinator ==
  ASSUME NEW new \in TaskRows, row' = CoordinatorWrite(new)
  PROVE  RowStored
  BY DEF RowStored, CoordinatorWrite

(* The poll cycle.                                                         *)
LEMMA AgentRowStored ==
  ASSUME TypeInv, Agent
  PROVE  RowStored
<1> USE DEF TypeInv, TypeOK
<1>1. CASE \/ ReleaseStaleClaims \/ ListDueBlocked \/ ListStale
           \/ \E s \in Stages : Select(s)
           \/ SkipCandidate \/ Claim \/ AbandonClaim
  BY <1>1 DEF RowStored, ReleaseStaleClaims, ListDueBlocked, ListStale, Select,
              SkipCandidate, Claim, AbandonClaim
<1>2. CASE ReleaseDueBlocked
  <2>1. js.from \in Statuses /\ js.retryCount \in RetryCounts
    BY <1>2 DEF ReleaseDueBlocked, JsSections
  <2>2. ReleasedRow(row, js.from, js.retryCount) \in TaskRows
    BY <2>1, ReleasedRowType
  <2> QED  BY <1>2, <2>2 DEF ReleaseDueBlocked, WriteRow, RowStored
<1>3. CASE RecoverStale
  <2>1. js.status \in Statuses /\ js.retryCount \in RetryCounts
    BY DEF JsSections
  <2>2. StaleRow(row, js.status, js.retryCount) \in TaskRows
    BY <2>1, StaleRowType
  <2> QED  BY <1>3, <2>2 DEF RecoverStale, WriteRow, RowStored
<1>4. CASE AdvanceBacklog
  <2> DEFINE new == CleanTo(row, IF IntakeEnabled THEN "requirements_analysis"
                                 ELSE "planning")
  <2>1. new \in TaskRows /\ row' = new
    BY <1>4, CleanToType DEF AdvanceBacklog, WriteRow, Statuses
  <2>2. new.status # "blocked_external"
    <3>1. CleanStateReset(row) \in TaskRows
      BY CleanToType DEF Statuses
    <3> QED  BY <3>1 DEF CleanTo, TaskRows
  <2>3. row' = SetTaskFields(new)
    BY <2>1, <2>2 DEF SetTaskFields
  <2> QED  BY <2>1, <2>3 DEF RowStored
<1>5. CASE RuntimeGateBlock
  <2> DEFINE b == Block(row, "other", js.status, Bump(js.retryCount))
             new == [b EXCEPT !.retryAfter = TRUE]
  <2>1. js.status \in Statuses /\ Bump(js.retryCount) \in RetryCounts
          /\ "other" \in BlockedReasons
    BY BumpType DEF JsSections, BlockedReasons
  <2>2. b \in TaskRows
    BY <2>1, BlockType
  <2>3. new \in TaskRows /\ new.blockedReason = b.blockedReason
    BY <2>2 DEF TaskRows
  <2>4. b.blockedReason = "other"
    BY DEF Block, TaskRows
  <2>5. row' = SetTaskFields(new)
    BY <1>5, <2>3, <2>4 DEF RuntimeGateBlock, WriteRow, SetTaskFields
  <2> QED  BY <2>3, <2>5 DEF RowStored
<1>6. CASE NoCapableRuntimeBlock
  <2>1. js.status \in Statuses /\ js.retryCount \in RetryCounts
          /\ "other" \in BlockedReasons
    BY DEF JsSections, BlockedReasons
  <2>2. Block(row, "other", js.status, js.retryCount) \in TaskRows
    BY <2>1, BlockType
  <2>3. [Block(row, "other", js.status, js.retryCount)
           EXCEPT !.manualReviewRequired = FALSE] \in TaskRows
    BY <2>2 DEF TaskRows
  <2> QED
    BY <1>6, <2>3, StoredByCoordinator DEF NoCapableRuntimeBlock, WriteRow
<1>7. CASE PreStartGuard
  <2>1. PreStartRows \subseteq TaskRows
    <3>1. js.status \in Statuses /\ js.retryCount \in RetryCounts
            /\ "other" \in BlockedReasons /\ "none" \in BlockedReasons
      BY DEF JsSections, BlockedReasons
    <3>2. Block(row, "other", js.status, js.retryCount) \in TaskRows
      BY <3>1, BlockType
    <3>3. [Block(row, "other", js.status, js.retryCount)
             EXCEPT !.manualReviewRequired = FALSE] \in TaskRows
      BY <3>2 DEF TaskRows
    <3>4. \A t \in {"requirements_analysis", "research", "design"} :
            [row EXCEPT !.status = t, !.blockedReason = "none",
                        !.blockedFromStatus = "none", !.retryAfter = FALSE,
                        !.retryCount = js.retryCount,
                        !.manualReviewRequired = FALSE] \in TaskRows
      <4> TAKE t \in {"requirements_analysis", "research", "design"}
      <4> DEFINE a == [row EXCEPT !.status = t, !.blockedReason = "none",
                                  !.blockedFromStatus = "none",
                                  !.retryAfter = FALSE]
                 b == [a EXCEPT !.retryCount = js.retryCount,
                                !.manualReviewRequired = FALSE]
      <4>1. a \in TaskRows
        BY <3>1 DEF TaskRows, Statuses
      <4>2. b \in TaskRows
        BY <3>1, <4>1 DEF TaskRows
      <4> QED  BY <4>2
    <3> QED  BY <3>3, <3>4 DEF PreStartRows
  <2> QED  BY <1>7, <2>1, StoredByCoordinator DEF PreStartGuard, WriteRow
<1>8. ASSUME NEW i \in Slots, StartStage(i) PROVE RowStored
  <2>1. InProgress(js.stage) \in Statuses
    BY StageStatus DEF JsSections
  <2>2. [row EXCEPT !.status = InProgress(js.stage)] \in TaskRows
    BY <2>1 DEF TaskRows
  <2> QED  BY <1>8, <2>2, StoredByCoordinator DEF StartStage, WriteRow
<1> QED
  BY <1>1, <1>2, <1>3, <1>4, <1>5, <1>6, <1>7, <1>8 DEF Agent

(* The stage runs.                                                         *)
LEMMA RunRowStored ==
  ASSUME TypeInv, NEW i \in Slots, Run(i)
  PROVE  RowStored
<1> USE DEF TypeInv, TypeOK
<1>1. runs[i] \in Run0 /\ runs[i].stage \in Stages
  BY DEF Run0
<1>2. ASSUME NEW new \in TaskRows, FinishRun(i, new) PROVE RowStored
  BY <1>2, StoredByCoordinator DEF FinishRun, WriteRow
<1>3. CASE \/ KeepRunnerOutcome(i) \/ EnterReviewGate(i) \/ Release(i)
           \/ Heartbeat(i)
  BY <1>3 DEF RowStored, KeepRunnerOutcome, EnterReviewGate, Release, Heartbeat
<1>4. CASE RaiseQuestions(i)
  <2>1. NeedsInput(row) \in TaskRows
    BY DEF NeedsInput, TaskRows, Statuses
  <2> QED  BY <1>4, <2>1 DEF RaiseQuestions, WriteRow, RowStored
<1>5. CASE TriageQuestions(i)
  <2>1. /\ "questions_triage" \in BlockedReasons /\ row.status \in Statuses
        /\ row.retryCount \in RetryCounts
    BY DEF BlockedReasons, TaskRows
  <2>2. Block(row, "questions_triage", row.status, row.retryCount) \in TaskRows
    BY <2>1, BlockType
  <2>3. [Block(row, "questions_triage", row.status, row.retryCount)
           EXCEPT !.manualReviewRequired = TRUE] \in TaskRows
    BY <2>2 DEF TaskRows
  <2> QED  BY <1>5, <2>3 DEF TriageQuestions, WriteRow, RowStored
<1>6. CASE RunnerWrite(i)
  BY <1>1, <1>6, RunRowsType DEF RunnerWrite, WriteRow, RowStored
<1>7. CASE RefuseHandoff(i)
  BY <1>1, <1>2, <1>7, RunRowsType DEF RefuseHandoff
<1>8. CASE Succeed(i)
  BY <1>1, <1>2, <1>8, SuccessRowType, CleanToType, StageStatus DEF Succeed
<1>9. CASE GateRefuse(i)
  BY <1>1, <1>2, <1>9, RunRowsType DEF GateRefuse
<1>10. CASE GateAccept(i)
  BY <1>1, <1>2, <1>10, CleanToType, StageStatus DEF GateAccept
<1>11. CASE StageError(i)
  BY <1>1, <1>2, <1>11, RunRowsType, PlanQualityRowType DEF StageError
<1> QED
  BY <1>3, <1>4, <1>5, <1>6, <1>7, <1>8, <1>9, <1>10, <1>11
     DEF Run, RunProgress

(* The API and MCP processes.                                              *)
LEMMA HumanRowStored ==
  ASSUME TypeInv, Human
  PROVE  RowStored
<1> USE DEF TypeInv, TypeOK
<1>1. ASSUME NEW new \in TaskRows, ApiWrite(new) PROVE RowStored
  BY <1>1 DEF ApiWrite, WriteRow, RowStored
<1>2. ASSUME NEW e \in HumanEvents, RegularTransition(e) PROVE RowStored
  BY <1>1, <1>2, ApiRowsType DEF RegularTransition
<1>3. /\ row.status \in Statuses /\ row.retryCount \in RetryCounts
      /\ \A q \in {"other", "plan_quality", "sequential_branch"} :
           q \in BlockedReasons
      /\ "backlog" \in Statuses /\ "plan_ready" \in Statuses
  BY DEF TaskRows, BlockedReasons, Statuses
<1>4. CASE AcceptExistingPlan
  <2>1. ManualBlock(row, "plan_quality", "backlog", row.retryCount) \in TaskRows
    BY <1>3, BlockType
  <2>2. SequentialBranchBlock(row) \in TaskRows
    <3>1. ManualBlock(row, "sequential_branch", row.status, row.retryCount)
            \in TaskRows
      BY <1>3, BlockType
    <3> QED  BY <3>1 DEF SequentialBranchBlock, TaskRows
  <2>3. [CleanTo(row, "plan_ready") EXCEPT !.paused = row.paused] \in TaskRows
    <3>1. CleanTo(row, "plan_ready") \in TaskRows
      BY <1>3, CleanToType
    <3> QED  BY <3>1 DEF TaskRows
  <2> QED  BY <1>1, <1>4, <2>1, <2>2, <2>3 DEF AcceptExistingPlan
<1>5. CASE ConfigGovernanceBlock
  <2>1. Block(row, "other", row.status, row.retryCount) \in TaskRows
    BY <1>3, BlockType
  <2> QED  BY <1>1, <1>5, <2>1 DEF ConfigGovernanceBlock
<1>6. CASE BeginFastFix \/ Comment
  BY <1>6 DEF BeginFastFix, Comment, RowStored
<1>7. CASE EndFastFix
  <2>1. [row EXCEPT !.reworkRequested = FALSE] \in TaskRows
    BY DEF TaskRows
  <2> QED  BY <1>7, <2>1 DEF EndFastFix, WriteRow, RowStored
<1>8. CASE EditTask
  <2>1. /\ [row EXCEPT !.paused = ~row.paused] \in TaskRows
        /\ [row EXCEPT !.autoMode = ~row.autoMode] \in TaskRows
    BY DEF TaskRows
  <2> QED  BY <1>1, <1>8, <2>1 DEF EditTask
<1>9. CASE CreateQuestion
  <2>1. NeedsInput(row) \in TaskRows
    BY DEF NeedsInput, TaskRows, Statuses
  <2> QED  BY <1>9, <2>1 DEF CreateQuestion, WriteRow, RowStored
<1>10. CASE AnswerBatch
  <2>1. \A t \in ResumeStatuses : [row EXCEPT !.status = t] \in TaskRows
    BY DEF ResumeStatuses, InProgressStatuses, TaskRows, Statuses
  <2> QED  BY <1>10, <2>1 DEF AnswerBatch, WriteRow, RowStored
<1>11. CASE SyncStatus
  <2>1. PICK e \in SyncEvents(row), p \in BOOLEAN :
          /\ EventAllowed(row, e, FALSE, FALSE)
          /\ row' = SetTaskFields([EventRow(row, e, FALSE) EXCEPT !.paused = p])
    BY <1>11 DEF SyncStatus
  <2>2. e \in HumanEvents
    BY DEF SyncEvents, HumanEvents
  <2>3. EventRow(row, e, FALSE) \in TaskRows
    BY <2>1, <2>2, EventRowType
  <2>4. [EventRow(row, e, FALSE) EXCEPT !.paused = p] \in TaskRows
    BY <2>3 DEF TaskRows
  <2> QED  BY <2>1, <2>4 DEF RowStored
<1>12. CASE OperatorVerifiedCompletion
  <2>1. CleanTo(row, NextStatusForOperatorCloseout) \in TaskRows
    BY CleanToType, CloseoutStatus
  <2> QED  BY <1>12, <2>1 DEF OperatorVerifiedCompletion, WriteRow, RowStored
<1> QED
  BY <1>2, <1>4, <1>5, <1>6, <1>7, <1>8, <1>9, <1>10, <1>11, <1>12 DEF Human

(* Every step stores a row or keeps it.                                    *)
LEMMA RowStep ==
  ASSUME TypeInv, [Next]_vars
  PROVE  RowStored /\ row' \in TaskRows
<1>1. RowStored
  BY AgentRowStored, RunRowStored, HumanRowStored
     DEF Next, Restart, vars, RowStored
<1> QED
  BY <1>1, SetTaskFieldsType DEF RowStored, TypeInv, TypeOK

(* A step of the agent's thread changes its section and its runs only in   *)
(* these ways.                                                             *)
LEMMA AgentTypeStep ==
  ASSUME TypeInv, Agent
  PROVE  TypeInv'
<1> USE DEF TypeInv, TypeOK
<1>1. row' \in TaskRows
  BY RowStep DEF Next
<1>2. JsIdle \in JsSections /\ JsIdle.at # "due"
  BY RunType DEF JsIdle
<1>3. CASE ReleaseStaleClaims
  BY <1>3, <1>1 DEF ReleaseStaleClaims
<1>4. CASE ListDueBlocked
  <2>1. JsSection("due", "planner") \in JsSections
    BY SectionType DEF Stages
  <2>2. JsSection("due", "planner").from # "none"
    BY <1>4 DEF ListDueBlocked, IsDueBlocked, JsSection
  <2> QED  BY <1>1, <1>4, <2>1, <2>2 DEF ListDueBlocked
<1>5. CASE ListStale
  <2>1. JsSection("stale", "planner") \in JsSections
    BY SectionType DEF Stages
  <2> QED  BY <1>1, <1>5, <2>1 DEF ListStale, JsSection
<1>6. ASSUME NEW s \in Stages, Select(s) PROVE TypeInv'
  <2>1. JsSection("selected", s) \in JsSections
    BY SectionType
  <2> QED  BY <1>1, <1>6, <2>1 DEF Select, JsSection
<1>7. CASE AdvanceBacklog
  BY <1>1, <1>7 DEF AdvanceBacklog, WriteRow
<1>8. CASE Claim
  BY <1>1, <1>8 DEF Claim, JsSections
<1>9. CASE \/ ReleaseDueBlocked \/ RecoverStale \/ SkipCandidate
           \/ RuntimeGateBlock \/ NoCapableRuntimeBlock \/ AbandonClaim
           \/ PreStartGuard
  BY <1>1, <1>2, <1>9
     DEF ReleaseDueBlocked, RecoverStale, SkipCandidate, RuntimeGateBlock,
         NoCapableRuntimeBlock, AbandonClaim, PreStartGuard, WriteRow
<1>10. ASSUME NEW i \in Slots, StartStage(i) PROVE TypeInv'
  <2>1. NewRun(row') \in Run0
    BY <1>1, RunType
  <2>2. runs' \in [Slots -> Run0]
    BY <1>10, <2>1 DEF StartStage
  <2> QED  BY <1>1, <1>2, <1>10, <2>2 DEF StartStage, WriteRow
<1> QED
  BY <1>3, <1>4, <1>5, <1>6, <1>7, <1>8, <1>9, <1>10 DEF Agent

(* A step of a run keeps the types.                                        *)
LEMMA RunTypeStep ==
  ASSUME TypeInv, NEW i \in Slots, Run(i)
  PROVE  TypeInv'
<1> USE DEF TypeInv, TypeOK
<1>1. row' \in TaskRows
  BY RowStep DEF Next
<1>2. /\ Finished \in Run0 /\ NoRun \in Run0 /\ Returned(runs[i]) \in Run0
      /\ [runs[i] EXCEPT !.at = "gate"] \in Run0
  <2>1. runs[i] \in Run0
    OBVIOUS
  <2> QED  BY <2>1, RunType DEF Run0
<1>3. CASE RaiseQuestions(i) \/ TriageQuestions(i) \/ RunnerWrite(i)
  BY <1>1, <1>2, <1>3 DEF RaiseQuestions, TriageQuestions, RunnerWrite, WriteRow
<1>4. CASE KeepRunnerOutcome(i) \/ EnterReviewGate(i) \/ Release(i)
             \/ Heartbeat(i)
  BY <1>1, <1>2, <1>4
     DEF KeepRunnerOutcome, EnterReviewGate, Release, Heartbeat
<1>5. CASE RefuseHandoff(i) \/ GateRefuse(i) \/ StageError(i)
  BY <1>1, <1>2, <1>5
     DEF RefuseHandoff, GateRefuse, StageError, FinishRun, WriteRow
<1>6. CASE Succeed(i) \/ GateAccept(i)
  BY <1>1, <1>2, <1>6 DEF Succeed, GateAccept, FinishRun, WriteRow
<1> QED
  BY <1>3, <1>4, <1>5, <1>6, <1>1 DEF Run, RunProgress

(* A step of the API or the MCP server keeps the types.                    *)
LEMMA HumanTypeStep ==
  ASSUME TypeInv, Human
  PROVE  TypeInv'
<1> USE DEF TypeInv, TypeOK
<1>1. row' \in TaskRows
  BY RowStep DEF Next
<1>2. ASSUME NEW new, ApiWrite(new) PROVE TypeInv'
  BY <1>1, <1>2 DEF ApiWrite, WriteRow
<1>3. CASE \/ \E e \in HumanEvents : RegularTransition(e)
           \/ AcceptExistingPlan \/ ConfigGovernanceBlock \/ EditTask
  BY <1>2, <1>3 DEF RegularTransition, AcceptExistingPlan,
                    ConfigGovernanceBlock, EditTask
<1>4. CASE BeginFastFix \/ EndFastFix \/ Comment
  BY <1>1, <1>4 DEF BeginFastFix, EndFastFix, Comment, WriteRow
<1>5. CASE CreateQuestion
  <2>1. asked' \in 0 .. MaxQuestions
    BY <1>5, LifecycleAssumption DEF CreateQuestion
  <2> QED  BY <1>1, <1>5, <2>1 DEF CreateQuestion, WriteRow
<1>6. CASE AnswerBatch \/ SyncStatus \/ OperatorVerifiedCompletion
  BY <1>1, <1>6 DEF AnswerBatch, SyncStatus, OperatorVerifiedCompletion, WriteRow
<1> QED
  BY <1>3, <1>4, <1>5, <1>6 DEF Human

(* Every step keeps the types.                                             *)
LEMMA TypeStep ==
  ASSUME TypeInv, [Next]_vars
  PROVE  TypeInv'
<1>1. ASSUME NEW graceful \in BOOLEAN, Restart(graceful) PROVE TypeInv'
  <2> USE DEF TypeInv, TypeOK
  <2>1. restarts' \in 0 .. MaxRestarts
    BY <1>1, LifecycleAssumption DEF Restart
  <2>2. JsIdle.at # "due"
    BY DEF JsIdle
  <2> QED  BY <1>1, <2>1, <2>2, RunType DEF Restart
<1>2. CASE UNCHANGED vars
  BY <1>2 DEF vars, TypeInv, TypeOK
<1> QED
  BY <1>1, <1>2, AgentTypeStep, RunTypeStep, HumanTypeStep DEF Next

(* Every write of the row, by any process and in any order, keeps every    *)
(* field, every remembered snapshot and the claim inside its domain.       *)
THEOREM TypeCorrect == Spec => []TypeOK
<1>1. Init => TypeInv
  BY TypeInit
<1>2. TypeInv /\ [Next]_vars => TypeInv'
  BY TypeStep
<1>3. TypeInv => TypeOK
  BY DEF TypeInv
<1> QED  BY <1>1, <1>2, <1>3, PTL DEF Spec

(* An operator-input hold stays paused, without deadline and without a     *)
(* manual-review flag under every interleaving of the writers: the         *)
(* normalisation in setTaskFields is enough, because every write that can  *)
(* make or touch such a row goes through it.                               *)
THEOREM HoldNormalised == Spec => []OperatorInputHold
<1>1. Init => TypeInv /\ OperatorInputHold
  <2>1. Init => row.status = "backlog"
    BY CleanToType DEF Init, CleanTo, CleanStateReset
  <2> QED  BY <2>1, TypeInit DEF OperatorInputHold
<1>2. TypeInv /\ OperatorInputHold /\ [Next]_vars
        => (TypeInv /\ OperatorInputHold)'
  <2> SUFFICES ASSUME TypeInv, OperatorInputHold, [Next]_vars
               PROVE  TypeInv' /\ OperatorInputHold'
    OBVIOUS
  <2>1. TypeInv' /\ RowStored
    BY TypeStep, RowStep
  <2>2. CASE row' = row
    BY <2>1, <2>2 DEF OperatorInputHold
  <2>3. ASSUME NEW new \in TaskRows, row' = SetTaskFields(new)
        PROVE  OperatorInputHold'
    BY <2>3 DEF OperatorInputHold, SetTaskFields, TaskRows
  <2> QED  BY <2>1, <2>2, <2>3 DEF RowStored
<1> QED  BY <1>1, <1>2, PTL DEF Spec

-----------------------------------------------------------------------------
(* Claims.  Without requirements intake there is no question batch, so no  *)
(* answer takes a claim away.                                              *)
NoLiveRun == \A i \in Slots : ~Live(i)

ClaimInv ==
  /\ ~batch
  /\ ExclusiveRun
  /\ js.at \in {"stale", "selected", "claimed"} => NoLiveRun
  /\ js.at = "claimed" => lock = "mine"

(* A section of the agent keeps runs apart.                                *)
LEMMA ClaimAgentStep ==
  ASSUME TypeInv, ClaimInv, Agent
  PROVE  ClaimInv'
<1> USE DEF ClaimInv, ExclusiveRun, NoLiveRun, Live
<1>1. JsIdle.at = "idle"
  BY DEF JsIdle
<1>2. CASE ReleaseStaleClaims
  BY <1>2 DEF ReleaseStaleClaims
<1>3. CASE ListDueBlocked
  <2>1. js'.at = "due"
    BY <1>3 DEF ListDueBlocked, JsSection
  <2> QED  BY <1>3, <2>1 DEF ListDueBlocked
<1>4. CASE ListStale
  <2>1. js'.at = "stale"
    BY <1>4 DEF ListStale, JsSection
  <2> QED  BY <1>4, <2>1 DEF ListStale
<1>5. ASSUME NEW s \in Stages, Select(s) PROVE ClaimInv'
  <2>1. js'.at = "selected"
    BY <1>5 DEF Select, JsSection
  <2> QED  BY <1>5, <2>1 DEF Select, IsCandidate
<1>6. CASE AdvanceBacklog
  BY <1>6 DEF AdvanceBacklog
<1>7. CASE ReleaseDueBlocked \/ RecoverStale \/ SkipCandidate
             \/ RuntimeGateBlock \/ NoCapableRuntimeBlock
  BY <1>1, <1>7
     DEF ReleaseDueBlocked, RecoverStale, SkipCandidate, RuntimeGateBlock,
         NoCapableRuntimeBlock
<1>8. CASE Claim
  BY <1>8 DEF Claim, TypeInv, TypeOK, JsSections
<1>9. CASE AbandonClaim \/ PreStartGuard
  BY <1>1, <1>9 DEF AbandonClaim, PreStartGuard
<1>10. ASSUME NEW i \in Slots, StartStage(i) PROVE ClaimInv'
  <2>1. \A j \in Slots \ {i} : runs'[j] = runs[j]
    BY <1>10 DEF StartStage, TypeInv, TypeOK
  <2> QED  BY <1>1, <1>10, <2>1 DEF StartStage
<1> QED
  BY <1>2, <1>3, <1>4, <1>5, <1>6, <1>7, <1>8, <1>9, <1>10 DEF Agent

(* A run keeps runs apart; its release frees only its own claim.           *)
LEMMA ClaimRunStep ==
  ASSUME ~IntakeEnabled, TypeInv, ClaimInv, NEW i \in Slots, Run(i)
  PROVE  ClaimInv'
<1> USE DEF ClaimInv, ExclusiveRun, NoLiveRun, Live
<1>1. js = JsIdle /\ JsIdle.at = "idle"
  BY DEF Run, RunProgress, JsIdle
<1>2. CASE Heartbeat(i)
  BY <1>2 DEF Heartbeat
<1>3. CASE Release(i)
  <2>1. /\ \A j \in Slots \ {i} : runs'[j] = runs[j]
        /\ runs'[i].at = "none"
    BY <1>3 DEF Release, NoRun, TypeInv, TypeOK
  <2> QED  BY <1>1, <1>3, <2>1 DEF Release
<1>4. CASE \/ TriageQuestions(i) \/ RunnerWrite(i) \/ KeepRunnerOutcome(i)
           \/ RefuseHandoff(i) \/ Succeed(i) \/ EnterReviewGate(i)
           \/ GateRefuse(i) \/ GateAccept(i) \/ StageError(i)
  <2>1. /\ Live(i)
        /\ UNCHANGED <<lock, js, batch>>
        /\ \A j \in Slots \ {i} : runs'[j] = runs[j]
    BY <1>4 DEF TriageQuestions, RunnerWrite, KeepRunnerOutcome, RefuseHandoff,
                Succeed, EnterReviewGate, GateRefuse, GateAccept, StageError,
                FinishRun, TypeInv, TypeOK
  <2> QED  BY <1>1, <2>1
<1> QED
  BY <1>2, <1>3, <1>4 DEF Run, RunProgress, RaiseQuestions

(* Without a question batch nobody else touches a claim.                   *)
LEMMA ClaimHumanStep ==
  ASSUME ~IntakeEnabled, ClaimInv, Human
  PROVE  ClaimInv'
<1>1. UNCHANGED <<lock, js, runs, batch>>
  BY DEF Human, RegularTransition, AcceptExistingPlan, ConfigGovernanceBlock,
         OperatorVerifiedCompletion, BeginFastFix, EndFastFix, Comment,
         EditTask, CreateQuestion, AnswerBatch, SyncStatus, ApiWrite, ClaimInv
<1> QED  BY <1>1 DEF ClaimInv, ExclusiveRun, NoLiveRun, Live

(* Every step keeps runs apart.                                            *)
LEMMA ClaimStep ==
  ASSUME ~IntakeEnabled, TypeInv, ClaimInv, [Next]_vars
  PROVE  ClaimInv'
<1>1. ASSUME NEW graceful \in BOOLEAN, Restart(graceful) PROVE ClaimInv'
  BY <1>1 DEF Restart, ClaimInv, ExclusiveRun, NoLiveRun, Live, NoRun, JsIdle
<1>2. CASE UNCHANGED vars
  BY <1>2 DEF vars, ClaimInv, ExclusiveRun, NoLiveRun, Live
<1> QED
  BY <1>1, <1>2, ClaimAgentStep, ClaimRunStep, ClaimHumanStep DEF Next

(* At first there is no run.                                               *)
LEMMA ClaimInit == Init => ClaimInv
  BY DEF Init, ClaimInv, ExclusiveRun, NoLiveRun, Live, NoRun, JsIdle

(* Without requirements intake, claims keep stage runs apart, for any      *)
(* number of run slots: at most one run of a task is alive, and it is      *)
(* alive only while the agent holds the task's claim.                      *)
THEOREM RunsExclusive ==
  ASSUME ~IntakeEnabled
  PROVE  Spec => []ExclusiveRun
<1>1. Init => TypeInv /\ ClaimInv
  BY TypeInit, ClaimInit
<1>2. TypeInv /\ ClaimInv /\ [Next]_vars => (TypeInv /\ ClaimInv)'
  BY TypeStep, ClaimStep
<1>3. ClaimInv => ExclusiveRun
  BY DEF ClaimInv
<1> QED  BY <1>1, <1>2, <1>3, PTL DEF Spec

-----------------------------------------------------------------------------
(* Deadlines.  Only the agent sets one, only when it ends its own work on  *)
(* the row, and everyone else who moves the row clears it.                 *)
Resumable == InProgressStatuses \cup {"plan_ready"}

InWindow(r) ==
  r.retryAfter => /\ r.status = "blocked_external"
                  /\ r.blockedFromStatus \in Resumable

(* CLEAN_STATE_RESET clears the deadline.                                  *)
LEMMA NoDeadline ==
  ASSUME NEW r \in TaskRows, NEW t \in Statuses
  PROVE  CleanTo(r, t).retryAfter = FALSE
<1>1. CleanStateReset(r).retryAfter = FALSE
  BY DEF CleanStateReset, TaskRows
<1>2. CleanStateReset(r) \in TaskRows
  BY CleanToType
<1> QED  BY <1>1, <1>2 DEF CleanTo, TaskRows

(* Storing a row adds no deadline and keeps the window.                    *)
LEMMA StoredWindow ==
  ASSUME NEW new \in TaskRows
  PROVE  /\ SetTaskFields(new).retryAfter => new.retryAfter
         /\ InWindow(new) => InWindow(SetTaskFields(new))
         /\ InWindow(row) /\ InWindow(new) => InWindow(CoordinatorWrite(new))
  BY DEF SetTaskFields, CoordinatorWrite, InWindow, TaskRows

(* Neither evidence outcome has a deadline.                                *)
LEMMA EvidenceNoDeadline ==
  ASSUME NEW r \in TaskRows, NEW from \in Statuses
  PROVE  /\ \A new \in EvidenceBlocks(r, from) : new.retryAfter = FALSE
         /\ \A new \in EvidenceRework(r) : new.retryAfter = FALSE
  BY DEF EvidenceBlocks, EvidenceRework, Block, ManualBlock, TaskRows

(* A finished run leaves a deadline only together with a place to go back  *)
(* to; a runner leaves none.                                               *)
LEMMA RunRowsWindow ==
  ASSUME row \in TaskRows, NEW run \in Run0
  PROVE  /\ row.retryAfter = FALSE =>
              \A new \in RunnerRows(run) : new.retryAfter = FALSE
         /\ \A new \in RefusedHandoffs(run) \cup GateRefusals(run)
                       \cup RecoveryRows(run) \cup ClassifiedRows(run) :
              InWindow(new)
         /\ InWindow(PlanQualityRow(row, run.stage))
         /\ InWindow(SuccessRow(row, run.stage))
<1>1. run.stage \in Stages
  BY DEF Run0
<1>3. \A from \in Statuses : \A new \in EvidenceBlocks(row, from) :
        new.retryAfter = FALSE
  BY EvidenceNoDeadline
<1>4. \A new \in EvidenceRework(row) : new.retryAfter = FALSE
  BY EvidenceNoDeadline DEF Statuses
<1>5. ASSUME row.retryAfter = FALSE
      PROVE  \A new \in RunnerRows(run) : new.retryAfter = FALSE
  <2>1. ManifestFailureRow(row, run.seen).retryAfter = FALSE
    BY DEF ManifestFailureRow, ManualBlock, Block, TaskRows
  <2>2. CASE run.stage \in {"requirements-analyst", "researcher", "designer",
                            "qa"}
    BY <2>2 DEF RunnerRows, Block, TaskRows
  <2>3. CASE run.stage = "planner"
    BY <2>3 DEF RunnerRows, Block, TaskRows
  <2>4. CASE run.stage = "implementer"
    BY <1>5, <2>1, <2>4 DEF RunnerRows, Block, TaskRows
  <2>5. CASE run.stage \in {"plan-checker", "reviewer"}
    BY <2>5 DEF RunnerRows
  <2> QED  BY <1>1, <2>2, <2>3, <2>4, <2>5 DEF Stages
<1>6. \A new \in RefusedHandoffs(run) : new.retryAfter = FALSE
  BY <1>3, <1>4 DEF RefusedHandoffs, Statuses, ManualBlock, Block, TaskRows
<1>7. \A new \in GateRefusals(run) : new.retryAfter = FALSE
  <2>1. \A q, n : ManualBlock(row, q, "review", n).retryAfter = FALSE
    BY DEF ManualBlock, Block, TaskRows
  <2>2. [Block(row, "operator_input", "review", 0)
           EXCEPT !.reworkRequested = FALSE,
                  !.manualReviewRequired = FALSE].retryAfter = FALSE
    BY DEF Block, TaskRows
  <2>3. \A t : ReviewLoopRow(row, t).retryAfter = FALSE
    BY DEF ReviewLoopRow, TaskRows
  <2>4. \A new \in EvidenceBlocks(row, "review") : new.retryAfter = FALSE
    BY <1>3 DEF Statuses
  <2> TAKE new \in GateRefusals(run)
  <2>5. \/ \E q, n : new = ManualBlock(row, q, "review", n)
        \/ new = [Block(row, "operator_input", "review", 0)
                    EXCEPT !.reworkRequested = FALSE,
                           !.manualReviewRequired = FALSE]
        \/ \E t : new = ReviewLoopRow(row, t)
        \/ new \in EvidenceBlocks(row, "review")
    BY DEF GateRefusals
  <2> QED  BY <2>1, <2>2, <2>3, <2>4, <2>5
<1>8. \A new \in RecoveryRows(run) : new.retryAfter = FALSE
  BY DEF RecoveryRows, ManualBlock, Block, TaskRows
<1>9. \A new \in ClassifiedRows(run) : InWindow(new)
  <2> DEFINE at == InProgress(run.stage)
             b == [Block(row, "other", at, Bump(run.retryCount))
                     EXCEPT !.retryAfter = TRUE]
  <2>1. \A new \in ClassifiedRows(run) : new.retryAfter = FALSE \/ new = b
    BY DEF ClassifiedRows, Block, TaskRows
  <2>2. b.status = "blocked_external" /\ b.blockedFromStatus = at
    BY DEF Block, TaskRows
  <2> QED
    BY <1>1, <2>1, <2>2, StageStatus DEF InWindow, Resumable
<1>10. PlanQualityRow(row, run.stage).retryAfter = FALSE
  BY DEF PlanQualityRow, Block, TaskRows
<1>11. SuccessRow(row, run.stage).retryAfter = FALSE
  <2>1. /\ CleanTo(row, OnSuccess(run.stage)).retryAfter = FALSE
        /\ CleanTo(row, OnSuccess(run.stage)) \in TaskRows
    BY <1>1, NoDeadline, CleanToType, StageStatus
  <2> QED  BY <2>1 DEF SuccessRow, TaskRows
<1> QED
  BY <1>5, <1>6, <1>7, <1>8, <1>9, <1>10, <1>11 DEF InWindow

(* What the API and the MCP server write never carries a deadline that was *)
(* not there before; a question may carry one into needs_input.            *)
LEMMA HumanWindow ==
  ASSUME ~CreateQuestion, TypeInv, InWindow(row), Human
  PROVE  InWindow(row') /\ (row'.retryAfter => row.retryAfter)
<1> USE DEF TypeInv, TypeOK
<1>1. ASSUME NEW new \in TaskRows, new.retryAfter = FALSE,
             row' = SetTaskFields(new)
      PROVE  InWindow(row') /\ (row'.retryAfter => row.retryAfter)
  BY <1>1, StoredWindow DEF InWindow
<1>2. ASSUME NEW new \in TaskRows, row' = SetTaskFields(new),
             /\ new.retryAfter = row.retryAfter /\ new.status = row.status
             /\ new.blockedFromStatus = row.blockedFromStatus
      PROVE  InWindow(row') /\ (row'.retryAfter => row.retryAfter)
  BY <1>2, StoredWindow DEF InWindow
<1>3. \A e \in HumanEvents, intake, inputRetry \in BOOLEAN :
        EventAllowed(row, e, intake, inputRetry)
          => /\ EventRow(row, e, intake) \in TaskRows
             /\ EventRow(row, e, intake).retryAfter = FALSE
  <2> TAKE e \in HumanEvents, intake, inputRetry \in BOOLEAN
  <2> HAVE EventAllowed(row, e, intake, inputRetry)
  <2>1. EventRow(row, e, intake) \in TaskRows
    BY EventRowType
  <2>2. \A t \in Statuses : /\ CleanTo(row, t).retryAfter = FALSE
                            /\ CleanTo(row, t) \in TaskRows
    BY NoDeadline, CleanToType
  <2>3. e = "retry_from_blocked" => row.blockedFromStatus \in Statuses
    BY DEF EventAllowed, RetryAllowed, TaskRows
  <2>4. EventRow(row, e, intake).retryAfter = FALSE
    <3>1. CASE e = "retry_from_blocked"
      BY <3>1, <2>2, <2>3 DEF EventRow, TaskRows
    <3>2. CASE e \in {"cancel_task", "request_changes"}
      BY <3>2, <2>2 DEF EventRow, TaskRows, Statuses
    <3>3. CASE e \notin {"retry_from_blocked", "cancel_task",
                         "request_changes"}
      BY <3>3, <2>2 DEF EventRow, HumanEvents, Statuses
    <3> QED  BY <3>1, <3>2, <3>3
  <2> QED  BY <2>1, <2>4
<1>4. SequentialBranchBlock(row).retryAfter = FALSE
  BY DEF SequentialBranchBlock, ManualBlock, Block, TaskRows
<1>5. ASSUME NEW e \in HumanEvents, RegularTransition(e)
      PROVE  InWindow(row') /\ (row'.retryAfter => row.retryAfter)
  <2> DEFINE inputRetry == e = "retry_from_blocked" /\ IsOperatorInputHold(row)
  <2>1. /\ EventAllowed(row, e, IntakeEnabled, inputRetry)
        /\ \E new \in EventRows(row, e) : row' = SetTaskFields(new)
    BY <1>5 DEF RegularTransition, ApiWrite, WriteRow
  <2>2. inputRetry \in BOOLEAN /\ IntakeEnabled \in BOOLEAN
    BY LifecycleAssumption
  <2>3. EventRows(row, e) \subseteq TaskRows
    BY <2>1, <2>2, ApiRowsType
  <2>4. /\ EventRow(row, e, IntakeEnabled) \in TaskRows
        /\ EventRow(row, e, IntakeEnabled).retryAfter = FALSE
    BY <1>3, <2>1, <2>2
  <2>5. ASSUME e = "retry_from_blocked"
        PROVE  \A new \in RetryRows(row) : new.retryAfter = FALSE
    <3> DEFINE base == EventRow(row, "retry_from_blocked", IntakeEnabled)
    <3>1. base \in TaskRows /\ base.retryAfter = FALSE
      BY <2>4, <2>5
    <3>2. /\ [base EXCEPT !.reworkRequested = FALSE].retryAfter = FALSE
          /\ [base EXCEPT !.status = "implementing",
                          !.reworkRequested = TRUE].retryAfter = FALSE
      BY <3>1 DEF TaskRows
    <3> QED  BY <3>1, <3>2 DEF RetryRows
  <2>6. /\ \A new \in EvidenceBlocks(row, row.status) : new.retryAfter = FALSE
        /\ \A new \in EvidenceBlocks(row, "done") : new.retryAfter = FALSE
    BY EvidenceNoDeadline DEF TaskRows, Statuses
  <2>7. \A new \in EventRows(row, e) : new.retryAfter = FALSE
    BY <1>4, <2>4, <2>5, <2>6 DEF EventRows
  <2> QED  BY <1>1, <2>1, <2>3, <2>7
<1>6. CASE AcceptExistingPlan
  <2>1. PICK new \in {SequentialBranchBlock(row),
                 ManualBlock(row, "plan_quality", "backlog", row.retryCount),
                 [CleanTo(row, "plan_ready") EXCEPT !.paused = row.paused]} :
          row' = SetTaskFields(new)
    BY <1>6 DEF AcceptExistingPlan, ApiWrite, WriteRow
  <2>2. CleanTo(row, "plan_ready") \in TaskRows
          /\ CleanTo(row, "plan_ready").retryAfter = FALSE
    BY NoDeadline, CleanToType DEF Statuses
  <2>3. [CleanTo(row, "plan_ready") EXCEPT !.paused = row.paused]
          \in TaskRows
        /\ [CleanTo(row, "plan_ready")
              EXCEPT !.paused = row.paused].retryAfter = FALSE
    BY <2>2 DEF TaskRows
  <2>4. /\ row.status \in Statuses /\ row.retryCount \in RetryCounts
        /\ "plan_quality" \in BlockedReasons /\ "backlog" \in Statuses
        /\ "sequential_branch" \in BlockedReasons
    BY DEF TaskRows, BlockedReasons, Statuses
  <2>5. /\ ManualBlock(row, "plan_quality", "backlog", row.retryCount)
             \in TaskRows
        /\ ManualBlock(row, "sequential_branch", row.status, row.retryCount)
             \in TaskRows
    BY <2>4, BlockType
  <2>6. SequentialBranchBlock(row) \in TaskRows
    BY <2>5 DEF SequentialBranchBlock, TaskRows
  <2>7. ManualBlock(row, "plan_quality", "backlog", row.retryCount).retryAfter
          = FALSE
    BY DEF ManualBlock, Block, TaskRows
  <2>8. new \in TaskRows /\ new.retryAfter = FALSE
    BY <1>4, <2>3, <2>5, <2>6, <2>7
  <2> QED  BY <1>1, <2>1, <2>8
<1>7. CASE ConfigGovernanceBlock
  <2> DEFINE new == Block(row, "other", row.status, row.retryCount)
  <2>1. row' = SetTaskFields(new)
    BY <1>7 DEF ConfigGovernanceBlock, ApiWrite, WriteRow
  <2>2. new \in TaskRows
    <3>1. row.status \in Statuses /\ row.retryCount \in RetryCounts
            /\ "other" \in BlockedReasons
      BY DEF TaskRows, BlockedReasons
    <3> QED  BY <3>1, BlockType
  <2>3. new.retryAfter = FALSE
    BY DEF Block, TaskRows
  <2> QED  BY <1>1, <2>1, <2>2, <2>3
<1>8. CASE row' = row
  BY <1>8
<1>9. CASE EndFastFix
  <2>1. row' = row \/ row' = SetTaskFields([row EXCEPT !.reworkRequested = FALSE])
    BY <1>9 DEF EndFastFix, WriteRow
  <2> QED  BY <1>2, <1>8, <2>1 DEF TaskRows
<1>10. CASE EditTask
  BY <1>2, <1>10 DEF EditTask, ApiWrite, WriteRow, TaskRows
<1>11. CASE SyncStatus
  <2>1. PICK e \in SyncEvents(row), p \in BOOLEAN :
          /\ EventAllowed(row, e, FALSE, FALSE)
          /\ row' = SetTaskFields([EventRow(row, e, FALSE) EXCEPT !.paused = p])
    BY <1>11 DEF SyncStatus
  <2>2. e \in HumanEvents
    BY DEF SyncEvents, HumanEvents
  <2>3. /\ EventRow(row, e, FALSE) \in TaskRows
        /\ EventRow(row, e, FALSE).retryAfter = FALSE
    BY <1>3, <2>1, <2>2
  <2>4. /\ [EventRow(row, e, FALSE) EXCEPT !.paused = p] \in TaskRows
        /\ [EventRow(row, e, FALSE) EXCEPT !.paused = p].retryAfter = FALSE
    BY <2>3 DEF TaskRows
  <2> QED  BY <1>1, <2>1, <2>4
<1>12. CASE OperatorVerifiedCompletion
  <2> DEFINE new == CleanTo(row, NextStatusForOperatorCloseout)
  <2>1. new \in TaskRows /\ new.retryAfter = FALSE
    BY CloseoutStatus, NoDeadline, CleanToType
  <2>2. row' = SetTaskFields(new)
    BY <1>12 DEF OperatorVerifiedCompletion, WriteRow
  <2> QED  BY <1>1, <2>1, <2>2
<1>13. CASE AnswerBatch
  <2>1. CASE row.status = "needs_input"
    <3>1. PICK t \in ResumeStatuses :
            row' = SetTaskFields([row EXCEPT !.status = t])
      BY <1>13, <2>1 DEF AnswerBatch, WriteRow
    <3>2. /\ [row EXCEPT !.status = t] \in TaskRows
          /\ [row EXCEPT !.status = t].retryAfter = FALSE
      BY <2>1 DEF InWindow, ResumeStatuses, InProgressStatuses, TaskRows, Statuses
    <3> QED  BY <1>1, <3>1, <3>2
  <2>2. CASE row.status # "needs_input"
    BY <1>8, <1>13, <2>2 DEF AnswerBatch
  <2> QED  BY <2>1, <2>2
<1> QED
  BY <1>5, <1>6, <1>7, <1>8, <1>9, <1>10, <1>11, <1>12, <1>13
     DEF Human, BeginFastFix, Comment

(* A deadline and work in progress exclude each other.                     *)
DeadlineInv ==
  /\ InWindow(row)
  /\ js.at \in {"selected", "claimed"} => ~row.retryAfter
  /\ js.at \in {"stale", "selected"} => js.status \in Resumable
  /\ \A i \in Slots : runs[i].at \in {"running", "returned", "gate"}
                        => ~row.retryAfter

(* A step that leaves the agent idle and the row within its window.        *)
LEMMA IdleDeadline ==
  ASSUME InWindow(row'), js'.at = "idle", UNCHANGED runs, NoLiveRun
  PROVE  DeadlineInv'
  BY DEF DeadlineInv, NoLiveRun, Live

(* A section of the agent keeps deadlines releasable.                      *)
LEMMA DeadlineAgentStep ==
  ASSUME TypeInv, ClaimInv, DeadlineInv, Agent
  PROVE  DeadlineInv'
<1> USE DEF TypeInv, TypeOK
<1>1. JsIdle.at = "idle"
  BY DEF JsIdle
<1>2. CASE ReleaseStaleClaims
  BY <1>2 DEF ReleaseStaleClaims, DeadlineInv
<1>3. CASE ListDueBlocked
  <2>1. js'.at = "due"
    BY <1>3 DEF ListDueBlocked, JsSection
  <2> QED  BY <1>3, <2>1 DEF ListDueBlocked, DeadlineInv
<1>4. CASE ListStale
  <2>1. js'.at = "stale" /\ js'.status = row.status
    BY <1>4 DEF ListStale, JsSection
  <2> QED  BY <1>4, <2>1 DEF ListStale, DeadlineInv, Resumable
<1>5. ASSUME NEW s \in Stages, Select(s) PROVE DeadlineInv'
  <2>1. js'.at = "selected" /\ js'.status = row.status
    BY <1>5 DEF Select, JsSection
  <2>2. row.status \in Resumable
    BY <1>5, StageStatus DEF Select, IsCandidate, Resumable
  <2>3. ~row.retryAfter
    BY <2>2 DEF DeadlineInv, InWindow, Resumable, InProgressStatuses
  <2> QED  BY <1>5, <2>1, <2>2, <2>3 DEF Select, DeadlineInv
<1>6. CASE AdvanceBacklog
  <2>1. row'.retryAfter = FALSE
    BY <1>6, NoDeadline DEF AdvanceBacklog, WriteRow, Statuses
  <2> QED  BY <1>6, <2>1 DEF AdvanceBacklog, DeadlineInv, InWindow
<1>7. CASE SkipCandidate \/ AbandonClaim
  BY <1>1, <1>7 DEF SkipCandidate, AbandonClaim, DeadlineInv
<1>8. CASE Claim
  <2>1. js'.at = "claimed"
    BY <1>8 DEF Claim, JsSections
  <2> QED  BY <1>8, <2>1 DEF Claim, DeadlineInv
<1>9. CASE ReleaseDueBlocked
  <2> DEFINE new == ReleasedRow(row, js.from, js.retryCount)
  <2>1. js.from \in Statuses /\ js.retryCount \in RetryCounts
    BY <1>9 DEF ReleaseDueBlocked, JsSections
  <2>2. new \in TaskRows
    BY <2>1, ReleasedRowType
  <2>3. new.retryAfter = FALSE
    BY DEF ReleasedRow, TaskRows
  <2>4. ~row'.retryAfter
    BY <1>9, <2>2, <2>3, StoredWindow DEF ReleaseDueBlocked, WriteRow
  <2> QED
    BY <1>1, <1>9, <2>4 DEF ReleaseDueBlocked, DeadlineInv, InWindow
<1>10. CASE RecoverStale
  <2> DEFINE new == StaleRow(row, js.status, js.retryCount)
  <2>1. js.status \in Statuses /\ js.retryCount \in RetryCounts
          /\ js.status \in Resumable
    BY <1>10 DEF RecoverStale, JsSections, DeadlineInv
  <2>2. new \in TaskRows
    BY <2>1, StaleRowType
  <2>3. new.status = "blocked_external" /\ new.blockedFromStatus = js.status
    BY DEF StaleRow, Block, TaskRows
  <2>4. InWindow(row')
    BY <1>10, <2>1, <2>2, <2>3, StoredWindow DEF RecoverStale, WriteRow, InWindow
  <2> QED
    BY <1>1, <1>10, <2>4, IdleDeadline DEF RecoverStale, ClaimInv
<1>11. CASE RuntimeGateBlock
  <2> DEFINE b == Block(row, "other", js.status, Bump(js.retryCount))
  <2>1. row' = [b EXCEPT !.retryAfter = TRUE]
    BY <1>11 DEF RuntimeGateBlock, WriteRow
  <2>2. row'.status = "blocked_external" /\ row'.blockedFromStatus = js.status
    BY <2>1 DEF Block, TaskRows
  <2>3. InWindow(row')
    BY <1>11, <2>2 DEF RuntimeGateBlock, DeadlineInv, InWindow
  <2> QED
    BY <1>1, <1>11, <2>3, IdleDeadline DEF RuntimeGateBlock, ClaimInv
<1>12. CASE NoCapableRuntimeBlock
  <2> DEFINE b == Block(row, "other", js.status, js.retryCount)
             new == [b EXCEPT !.manualReviewRequired = FALSE]
  <2>1. js.status \in Statuses /\ js.retryCount \in RetryCounts
          /\ "other" \in BlockedReasons
    BY DEF JsSections, BlockedReasons
  <2>2. b \in TaskRows /\ b.retryAfter = FALSE
    BY <2>1, BlockType DEF Block, TaskRows
  <2>3. new \in TaskRows /\ new.retryAfter = FALSE
    BY <2>2 DEF TaskRows
  <2>4. InWindow(row')
    BY <1>12, <2>3, StoredWindow
       DEF NoCapableRuntimeBlock, WriteRow, InWindow, DeadlineInv
  <2> QED
    BY <1>1, <1>12, <2>4, IdleDeadline DEF NoCapableRuntimeBlock, ClaimInv
<1>13. CASE PreStartGuard
  <2>1. row' \in TaskRows /\ ~row.retryAfter
    BY <1>13, RowStep DEF PreStartGuard, DeadlineInv, Next, Agent
  <2>2. PICK new \in PreStartRows : row' = CoordinatorWrite(new)
    BY <1>13 DEF PreStartGuard, WriteRow
  <2>3. new.retryAfter = FALSE
    BY <2>2 DEF PreStartRows, Block, TaskRows
  <2>4. SetTaskFields(new).retryAfter = FALSE
    BY <2>2, <2>3 DEF SetTaskFields, PreStartRows, Block, TaskRows
  <2>5. InWindow(row')
    BY <2>1, <2>2, <2>4 DEF CoordinatorWrite, InWindow
  <2> QED
    BY <1>1, <1>13, <2>5, IdleDeadline DEF PreStartGuard, ClaimInv
<1>14. ASSUME NEW i \in Slots, StartStage(i) PROVE DeadlineInv'
  <2> DEFINE new == [row EXCEPT !.status = InProgress(js.stage)]
  <2>1. js.stage \in Stages /\ ~row.retryAfter
    BY <1>14 DEF StartStage, DeadlineInv, JsSections
  <2>2. new \in TaskRows /\ new.retryAfter = row.retryAfter
    BY <2>1, StageStatus DEF TaskRows
  <2>3. row' = row \/ row' = SetTaskFields(new)
    BY <1>14 DEF StartStage, WriteRow, CoordinatorWrite
  <2>4. ~row'.retryAfter
    BY <2>1, <2>2, <2>3, StoredWindow
  <2> QED  BY <1>1, <1>14, <2>4 DEF StartStage, DeadlineInv, InWindow
<1> QED
  BY <1>2, <1>3, <1>4, <1>5, <1>6, <1>7, <1>8, <1>9, <1>10, <1>11, <1>12,
     <1>13, <1>14 DEF Agent

(* A run keeps deadlines releasable.                                       *)
LEMMA DeadlineRunStep ==
  ASSUME ~IntakeEnabled, TypeInv, ClaimInv, DeadlineInv, NEW i \in Slots, Run(i)
  PROVE  DeadlineInv'
<1> USE DEF TypeInv, TypeOK
<1>1. js.at = "idle"
  BY DEF Run, RunProgress, JsIdle
<1>2. runs[i] \in Run0 /\ runs[i].stage \in Stages
  BY DEF Run0
<1>3. CASE Heartbeat(i)
  BY <1>3 DEF Heartbeat, DeadlineInv
<1>4. CASE Release(i)
  <2>1. /\ \A j \in Slots \ {i} : runs'[j] = runs[j]
        /\ runs'[i].at = "none"
    BY <1>4 DEF Release, NoRun
  <2> QED  BY <1>4, <2>1 DEF Release, DeadlineInv
<1>5. CASE EnterReviewGate(i)
  <2>1. \A j \in Slots :
          \/ runs'[j].at = runs[j].at
          \/ runs[j].at \in {"running", "returned"}
    BY <1>5 DEF EnterReviewGate
  <2> QED  BY <1>5, <2>1 DEF EnterReviewGate, DeadlineInv
<1>6. CASE KeepRunnerOutcome(i)
  <2>1. /\ \A j \in Slots \ {i} : runs'[j] = runs[j]
        /\ runs'[i].at = "finally"
    BY <1>6 DEF KeepRunnerOutcome, Finished, NoRun
  <2> QED  BY <1>6, <2>1 DEF KeepRunnerOutcome, DeadlineInv
<1>7. ASSUME NEW new \in TaskRows, InWindow(new), FinishRun(i, new), Live(i)
      PROVE  DeadlineInv'
  <2>1. \A j \in Slots : runs'[j].at \in {"none", "finally"}
    BY <1>7 DEF FinishRun, Finished, NoRun, ClaimInv, ExclusiveRun, Live
  <2>2. InWindow(row')
    BY <1>7, StoredWindow DEF FinishRun, WriteRow, DeadlineInv
  <2> QED  BY <1>1, <1>7, <2>1, <2>2 DEF FinishRun, DeadlineInv
<1>8. CASE TriageQuestions(i) \/ RunnerWrite(i)
  <2>1. runs[i].at = "running" /\ row.retryAfter = FALSE
    BY <1>8 DEF TriageQuestions, RunnerWrite, DeadlineInv, TaskRows
  <2>2. PICK new \in TaskRows :
          row' = SetTaskFields(new) /\ new.retryAfter = FALSE
    <3>1. CASE RunnerWrite(i)
      BY <1>2, <2>1, <3>1, RunRowsType, RunRowsWindow
         DEF RunnerWrite, WriteRow
    <3>2. CASE TriageQuestions(i)
      <4> DEFINE b == Block(row, "questions_triage", row.status,
                            row.retryCount)
      <4>1. /\ "questions_triage" \in BlockedReasons
            /\ row.status \in Statuses /\ row.retryCount \in RetryCounts
        BY DEF BlockedReasons, TaskRows
      <4>2. b \in TaskRows
        BY <4>1, BlockType
      <4>3. b.retryAfter = FALSE
        BY DEF Block, TaskRows
      <4>4. /\ [b EXCEPT !.manualReviewRequired = TRUE] \in TaskRows
            /\ [b EXCEPT !.manualReviewRequired = TRUE].retryAfter = FALSE
        BY <4>2, <4>3 DEF TaskRows
      <4> QED  BY <3>2, <4>4 DEF TriageQuestions, WriteRow
    <3> QED  BY <1>8, <3>1, <3>2
  <2>3. ~row'.retryAfter
    BY <2>2, StoredWindow
  <2> QED
    BY <1>1, <1>8, <2>3
       DEF TriageQuestions, RunnerWrite, DeadlineInv, InWindow
<1>9. ASSUME runs[i].at \in {"running", "returned", "gate"}
      PROVE  row.retryAfter = FALSE /\ Live(i)
  BY <1>9 DEF DeadlineInv, TaskRows, Live
<1>10. CASE RefuseHandoff(i)
  BY <1>2, <1>7, <1>9, <1>10, RunRowsType, RunRowsWindow DEF RefuseHandoff
<1>11. CASE GateRefuse(i)
  BY <1>2, <1>7, <1>9, <1>11, RunRowsType, RunRowsWindow DEF GateRefuse
<1>12. CASE StageError(i)
  BY <1>2, <1>7, <1>9, <1>12, RunRowsType, RunRowsWindow, PlanQualityRowType
     DEF StageError
<1>13. CASE Succeed(i) \/ GateAccept(i)
  <2>1. InWindow(CleanTo(row, AfterReview))
          /\ CleanTo(row, AfterReview) \in TaskRows
    BY <1>2, StageStatus, NoDeadline, CleanToType DEF InWindow
  <2>2. CASE GateAccept(i)
    BY <1>7, <1>9, <2>1, <2>2 DEF GateAccept
  <2>3. CASE Succeed(i)
    BY <1>2, <1>7, <1>9, <2>1, <2>3, RunRowsWindow, SuccessRowType DEF Succeed
  <2> QED  BY <1>13, <2>2, <2>3
<1> QED
  BY <1>3, <1>4, <1>5, <1>6, <1>8, <1>10, <1>11, <1>12, <1>13
     DEF Run, RunProgress, RaiseQuestions

(* Every step keeps deadlines releasable.                                  *)
LEMMA DeadlineStep ==
  ASSUME ~IntakeEnabled, TypeInv, ClaimInv, DeadlineInv, [Next]_vars
  PROVE  DeadlineInv'
<1>1. ASSUME NEW graceful \in BOOLEAN, Restart(graceful) PROVE DeadlineInv'
  BY <1>1 DEF Restart, DeadlineInv, NoRun, JsIdle
<1>2. CASE UNCHANGED vars
  BY <1>2 DEF vars, DeadlineInv
<1>3. CASE Human
  <2>1. UNCHANGED <<js, runs>>
    BY <1>3 DEF Human, RegularTransition, AcceptExistingPlan,
                OperatorVerifiedCompletion, ConfigGovernanceBlock, BeginFastFix, EndFastFix, Comment,
                EditTask, CreateQuestion, AnswerBatch, SyncStatus, ApiWrite
  <2>2. InWindow(row') /\ (row'.retryAfter => row.retryAfter)
    BY <1>3, HumanWindow DEF DeadlineInv, CreateQuestion
  <2> QED  BY <2>1, <2>2 DEF DeadlineInv
<1> QED
  BY <1>1, <1>2, <1>3, DeadlineAgentStep, DeadlineRunStep DEF Next

(* At first there is no deadline.                                          *)
LEMMA DeadlineInit == Init => DeadlineInv
<1> SUFFICES ASSUME Init PROVE DeadlineInv
  OBVIOUS
<1>1. row.retryAfter = FALSE
  <2>1. \A a \in BOOLEAN :
        [status |-> "backlog", autoMode |-> a,
         blockedReason |-> "none", blockedFromStatus |-> "none",
         retryAfter |-> FALSE, retryCount |-> 0,
         reworkRequested |-> FALSE,
         manualReviewRequired |-> FALSE, paused |-> FALSE] \in TaskRows
    BY RetryCapAssumption DEF TaskRows, Statuses, BlockedReasons, RetryCounts
  <2> QED  BY <2>1, NoDeadline DEF Init, Statuses
<1> QED  BY <1>1 DEF Init, DeadlineInv, InWindow, NoRun, JsIdle

(* Without requirements intake, a row with a retry deadline is blocked and *)
(* knows a pipeline status to go back to, so that the watchdog can always  *)
(* release it, whatever the agent, the API and the MCP server wrote.       *)
THEOREM DeadlinesReleasable ==
  ASSUME ~IntakeEnabled
  PROVE  Spec => []RetryWindow
<1>1. Init => TypeInv /\ ClaimInv /\ DeadlineInv
  BY TypeInit, ClaimInit, DeadlineInit
<1>2. TypeInv /\ ClaimInv /\ DeadlineInv /\ [Next]_vars
        => (TypeInv /\ ClaimInv /\ DeadlineInv)'
  BY TypeStep, ClaimStep, DeadlineStep
<1>3. DeadlineInv => RetryWindow
  BY DEF DeadlineInv, InWindow, RetryWindow, Resumable
<1> QED  BY <1>1, <1>2, <1>3, PTL DEF Spec

-----------------------------------------------------------------------------
(* Cancellation.  A selected row was not blocked when it was selected.     *)
SelectionInv == js.at = "selected" => js.status # "blocked_external"

(* Every step keeps the selection unblocked.                               *)
LEMMA SelectionStep ==
  ASSUME TypeInv, SelectionInv, [Next]_vars
  PROVE  SelectionInv'
<1> USE DEF SelectionInv
<1>1. CASE Agent
  <2>1. JsIdle.at = "idle"
    BY DEF JsIdle
  <2>2. ASSUME NEW s \in Stages, Select(s) PROVE SelectionInv'
    <3>1. js'.status = row.status
      BY <2>2 DEF Select, JsSection
    <3>2. row.status \in InProgressStatuses \cup {"plan_ready"}
      BY <2>2, StageStatus DEF Select, IsCandidate
    <3> QED  BY <3>1, <3>2 DEF InProgressStatuses
  <2>3. CASE ListDueBlocked \/ ListStale
    <3>1. js'.at \in {"due", "stale"}
      BY <2>3 DEF ListDueBlocked, ListStale, JsSection
    <3> QED  BY <3>1
  <2>4. CASE Claim
    BY <2>4 DEF Claim, TypeInv, TypeOK, JsSections
  <2>5. CASE ReleaseStaleClaims \/ AdvanceBacklog
    BY <2>5 DEF ReleaseStaleClaims, AdvanceBacklog
  <2>6. CASE \/ ReleaseDueBlocked \/ RecoverStale \/ SkipCandidate
             \/ RuntimeGateBlock \/ NoCapableRuntimeBlock \/ AbandonClaim
             \/ PreStartGuard \/ \E i \in Slots : StartStage(i)
    BY <2>1, <2>6
       DEF ReleaseDueBlocked, RecoverStale, SkipCandidate, RuntimeGateBlock,
           NoCapableRuntimeBlock, AbandonClaim, PreStartGuard, StartStage
  <2> QED
    BY <1>1, <2>2, <2>3, <2>4, <2>5, <2>6 DEF Agent
<1>2. ASSUME NEW i \in Slots, Run(i) PROVE SelectionInv'
  <2>1. UNCHANGED js
    BY <1>2 DEF Run, RunProgress, RaiseQuestions, TriageQuestions, RunnerWrite,
                KeepRunnerOutcome, RefuseHandoff, Succeed, EnterReviewGate,
                GateRefuse, GateAccept, StageError, Release, FinishRun,
                Heartbeat
  <2> QED  BY <2>1
<1>3. ASSUME NEW graceful \in BOOLEAN, Restart(graceful) PROVE SelectionInv'
  BY <1>3 DEF Restart, JsIdle
<1>4. CASE Human
  <2>1. UNCHANGED js
    BY <1>4 DEF Human, RegularTransition, AcceptExistingPlan,
                OperatorVerifiedCompletion, ConfigGovernanceBlock, BeginFastFix, EndFastFix, Comment,
                EditTask, CreateQuestion, AnswerBatch, SyncStatus, ApiWrite
  <2> QED  BY <2>1
<1>5. CASE UNCHANGED vars
  BY <1>5 DEF vars
<1> QED  BY <1>1, <1>2, <1>3, <1>4, <1>5 DEF Next

(* A step of the agent undoes a cancellation only in these two ways.       *)
StaleWrite ==
  \/ js.at \in {"due", "stale"}
  \/ \E i \in Slots : runs[i].at = "running" /\ runs'[i].at = "returned"

(* A step of the agent that undoes a cancellation is a stale write.        *)
LEMMA CancelStep ==
  ASSUME TypeInv, SelectionInv, Next, IsOperatorCancelled(row),
         ~IsOperatorCancelled(row'), AgentStep
  PROVE  StaleWrite
<1> USE DEF TypeInv, TypeOK
<1>1. \A new : CoordinatorWrite(new) = row
  BY DEF CoordinatorWrite
<1>2. row' # row /\ row.status = "blocked_external"
  BY DEF IsOperatorCancelled
<1>3. CASE Agent
  <2>1. CASE ReleaseDueBlocked \/ RecoverStale
    BY <2>1 DEF ReleaseDueBlocked, RecoverStale, StaleWrite
  <2>2. ~AdvanceBacklog /\ ~RuntimeGateBlock
    BY <1>2 DEF AdvanceBacklog, RuntimeGateBlock, SelectionInv
  <2>3. CASE \/ ReleaseStaleClaims \/ ListDueBlocked \/ ListStale
             \/ \E s \in Stages : Select(s)
             \/ SkipCandidate \/ Claim \/ AbandonClaim
    BY <1>2, <2>3
       DEF ReleaseStaleClaims, ListDueBlocked, ListStale, Select,
           SkipCandidate, Claim, AbandonClaim
  <2>4. CASE NoCapableRuntimeBlock \/ PreStartGuard
               \/ \E i \in Slots : StartStage(i)
    BY <1>1, <1>2, <2>4
       DEF NoCapableRuntimeBlock, PreStartGuard, StartStage, WriteRow
  <2> QED  BY <1>3, <2>1, <2>2, <2>3, <2>4 DEF Agent
<1>4. ASSUME NEW i \in Slots, Run(i) PROVE StaleWrite
  <2>1. CASE \/ KeepRunnerOutcome(i) \/ EnterReviewGate(i) \/ Release(i)
             \/ Heartbeat(i)
    BY <1>2, <2>1 DEF KeepRunnerOutcome, EnterReviewGate, Release, Heartbeat
  <2>2. CASE \/ RefuseHandoff(i) \/ Succeed(i) \/ GateRefuse(i)
             \/ GateAccept(i) \/ StageError(i)
    BY <1>1, <1>2, <2>2
       DEF RefuseHandoff, Succeed, GateRefuse, GateAccept, StageError,
           FinishRun, WriteRow
  <2>3. CASE RaiseQuestions(i) \/ TriageQuestions(i) \/ RunnerWrite(i)
    <3>1. runs'[i] = Returned(runs[i]) /\ runs[i].at = "running"
      BY <2>3 DEF RaiseQuestions, TriageQuestions, RunnerWrite
    <3>2. Returned(runs[i]).at = "returned"
      BY DEF Returned, Run0
    <3> QED  BY <3>1, <3>2 DEF StaleWrite
  <2> QED  BY <1>4, <2>1, <2>2, <2>3 DEF Run, RunProgress
<1>5. ASSUME NEW graceful \in BOOLEAN, Restart(graceful) PROVE FALSE
  BY <1>2, <1>5 DEF Restart
<1>6. CASE Human
  <2>1. UNCHANGED <<js, runs>>
    BY <1>6 DEF Human, RegularTransition, AcceptExistingPlan,
                OperatorVerifiedCompletion, ConfigGovernanceBlock, BeginFastFix, EndFastFix, Comment,
                EditTask, CreateQuestion, AnswerBatch, SyncStatus, ApiWrite
  <2> QED  BY <2>1 DEF AgentStep
<1> QED  BY <1>3, <1>4, <1>5, <1>6 DEF Next

(* In every configuration, the guard of the coordinator's updateTaskStatus *)
(* is enough to keep the agent's own writes off a cancelled task: what is  *)
(* left are the runners' unguarded writes and the watchdog's stale ones.   *)
THEOREM CancelLeaks == Spec => CancelLeaksOnlyThroughStaleWrites
<1>1. Init => TypeInv /\ SelectionInv
  BY TypeInit DEF Init, SelectionInv, JsIdle
<1>2. TypeInv /\ SelectionInv /\ [Next]_vars => (TypeInv /\ SelectionInv)'
  BY TypeStep, SelectionStep
<1>3. TypeInv /\ SelectionInv /\ [Next]_vars
        => [IsOperatorCancelled(row) /\ ~IsOperatorCancelled(row') /\ AgentStep
              => \/ js.at \in {"due", "stale"}
                 \/ \E i \in Slots : /\ runs[i].at = "running"
                                     /\ runs'[i].at = "returned"]_vars
  BY CancelStep DEF StaleWrite
<1> QED
  BY <1>1, <1>2, <1>3, PTL DEF Spec, CancelLeaksOnlyThroughStaleWrites

-----------------------------------------------------------------------------
(* What the writers do to the four fields that say where a task stands:    *)
(* its status, the status it was blocked from, the reason and the rework   *)
(* request.  Each kind of step is summed up once, without requirements     *)
(* intake; the invariants below are shown from the summaries.              *)

Closed == {"done", "verified"}

Fields(n, status, from, reason, rework) ==
  /\ n.status = status /\ n.blockedFromStatus = from
  /\ n.blockedReason = reason /\ n.reworkRequested = rework

(* The fields survive the normalisation of setTaskFields.                  *)
LEMMA StoredFields ==
  ASSUME NEW new \in TaskRows
  PROVE  Fields(SetTaskFields(new), new.status, new.blockedFromStatus,
                new.blockedReason, new.reworkRequested)
  BY DEF SetTaskFields, TaskRows, Fields

(* CLEAN_STATE_RESET leaves no origin, no reason and no rework request.    *)
LEMMA CleanFields ==
  ASSUME NEW r \in TaskRows, NEW t \in Statuses
  PROVE  Fields(CleanTo(r, t), t, "none", "none", FALSE)
<1>1. Fields(CleanStateReset(r), r.status, "none", "none", FALSE)
  BY DEF CleanStateReset, TaskRows, Fields
<1>2. CleanStateReset(r) \in TaskRows
  BY CleanToType
<1> QED BY <1>1, <1>2 DEF CleanTo, TaskRows, Fields

(* A block keeps the rework request; a manual one drops it.                *)
LEMMA BlockFields ==
  ASSUME NEW r \in TaskRows, NEW q, NEW from, NEW n
  PROVE  /\ Fields(Block(r, q, from, n), "blocked_external", from, q,
                   r.reworkRequested)
         /\ Fields(ManualBlock(r, q, from, n), "blocked_external", from, q, FALSE)
         /\ ManualBlock(r, q, from, n).retryAfter = FALSE
  BY DEF Block, ManualBlock, TaskRows, Fields

(* A block for missing evidence keeps the rework request.                  *)
LEMMA EvidenceFields ==
  ASSUME NEW r \in TaskRows, NEW from, NEW new \in EvidenceBlocks(r, from)
  PROVE  /\ Fields(new, "blocked_external", from, new.blockedReason,
                   r.reworkRequested)
         /\ new.blockedReason \in {"manual_review", "other"}
  BY DEF EvidenceBlocks, Block, TaskRows, Fields

(* The steps of the API and the MCP server.                                *)
HumanKeeps ==
  /\ Fields(row', row.status, row.blockedFromStatus, row.blockedReason,
            row'.reworkRequested)
  /\ row'.reworkRequested \in {row.reworkRequested, FALSE}
  /\ row'.retryAfter => row.retryAfter

HumanBlocks ==
  /\ Fields(row', "blocked_external", row.status, row'.blockedReason,
            row'.reworkRequested)
  /\ row'.blockedReason \in {"operator_cancelled", "sequential_branch",
                             "plan_quality", "manual_review", "other"}
  /\ row'.blockedReason = "operator_cancelled" =>
       row.status \notin Closed /\ row'.reworkRequested = FALSE
  /\ row.status = "verified" => ConfigBlockers = TRUE
  /\ row'.reworkRequested = TRUE =>
       /\ row.reworkRequested = TRUE
       /\ ConfigBlockers = TRUE \/ row.status \in {"plan_ready", "done"}

HumanMoves(status) ==
  \/ /\ row.status \in {"backlog", "requirements_analysis", "plan_ready"}
     /\ status \in {"planning", "plan_ready", "implementing"}
     /\ row'.reworkRequested = FALSE
  \/ row.status = "done" /\ status = "verified" /\ row'.reworkRequested = FALSE
  \/ row.status = "done" /\ status = "implementing"
  \/ /\ row.status = "blocked_external" /\ row.blockedFromStatus # "none"
     /\ status = row.blockedFromStatus
     /\ row'.reworkRequested \in {row.reworkRequested, FALSE}
  \/ /\ row.status = "blocked_external"
     /\ row.blockedReason = "malformed_review" /\ status = "implementing"

HumanCloses ==
  /\ row.status \in {"blocked_external", "implementing", "review"}
  /\ Fields(row', NextStatusForOperatorCloseout, "none", "none", FALSE)
  /\ verdict' = IF SkipReview THEN "reviewed" ELSE verdict

HumanStep ==
  /\ UNCHANGED <<js, runs, lock, batch>>
  /\ \/ HumanKeeps /\ verdict' = verdict
     \/ HumanBlocks /\ verdict' = verdict
     \/ /\ HumanMoves(row'.status) /\ verdict' = verdict
        /\ Fields(row', row'.status, "none", "none", row'.reworkRequested)
     \/ HumanCloses

(* An accepted event, without intake.                                      *)
LEMMA EventFields ==
  ASSUME TypeInv, NEW e \in HumanEvents, NEW inputRetry \in BOOLEAN,
         EventAllowed(row, e, FALSE, inputRetry),
         NEW new, new = EventRow(row, e, FALSE),
         row' \in TaskRows,
         Fields(row', new.status, new.blockedFromStatus, new.blockedReason,
                new.reworkRequested)
  PROVE  \/ HumanBlocks
         \/ /\ HumanMoves(row'.status)
            /\ Fields(row', row'.status, "none", "none", row'.reworkRequested)
<1> USE DEF TypeInv, TypeOK
<1>1. \A t \in Statuses : /\ Fields(CleanTo(row, t), t, "none", "none", FALSE)
                          /\ CleanTo(row, t) \in TaskRows
  BY CleanFields, CleanToType
<1>2. CASE e = "retry_from_blocked"
  <2>1. row.status = "blocked_external" /\ row.blockedFromStatus # "none"
        /\ row.blockedFromStatus \in Statuses
    BY <1>2 DEF EventAllowed, RetryAllowed, TaskRows
  <2>2. new = [CleanTo(row, row.blockedFromStatus)
                 EXCEPT !.reworkRequested = row.reworkRequested]
    BY <1>2 DEF EventRow
  <2>3. PICK c \in TaskRows : /\ c = CleanTo(row, row.blockedFromStatus)
                             /\ Fields(c, row.blockedFromStatus, "none", "none", FALSE)
    BY <1>1, <2>1
  <2>4. new = [c EXCEPT !.reworkRequested = row.reworkRequested]
    BY <2>2, <2>3
  <2>5. Fields(new, row.blockedFromStatus, "none", "none", row.reworkRequested)
    BY <2>3, <2>4 DEF Fields, TaskRows
  <2> QED BY <2>1, <2>5 DEF HumanMoves, Fields
<1>3. CASE e = "cancel_task"
  <2>1. row.status \notin Closed
    BY <1>3 DEF EventAllowed, CancelRefused, Closed
  <2>2. new = [CleanTo(row, "blocked_external")
            EXCEPT !.blockedReason = "operator_cancelled",
                   !.blockedFromStatus = row.status,
                   !.manualReviewRequired = TRUE, !.paused = TRUE]
    BY <1>3 DEF EventRow
  <2>3. CleanTo(row, "blocked_external") \in TaskRows
        /\ Fields(CleanTo(row, "blocked_external"), "blocked_external", "none", "none", FALSE)
    BY <1>1 DEF Statuses
  <2>4. Fields(new, "blocked_external", row.status, "operator_cancelled", FALSE)
    BY <2>2, <2>3 DEF Fields, TaskRows
  <2> QED BY <2>1, <2>4 DEF HumanBlocks, Fields, Closed
<1>4. CASE e = "request_changes"
  <2>1. row.status = "done"
    BY <1>4 DEF EventAllowed
  <2>2. new = [CleanTo(row, "implementing") EXCEPT !.reworkRequested = TRUE]
    BY <1>4 DEF EventRow
  <2>3. PICK c \in TaskRows : /\ c = CleanTo(row, "implementing")
                             /\ Fields(c, "implementing", "none", "none", FALSE)
    BY <1>1 DEF Statuses
  <2>4. new = [c EXCEPT !.reworkRequested = TRUE]
    BY <2>2, <2>3
  <2>5. Fields(new, "implementing", "none", "none", TRUE)
    BY <2>3, <2>4 DEF Fields, TaskRows
  <2> QED BY <2>1, <2>5 DEF HumanMoves, Fields
<1>5. CASE e = "approve_done"
  <2>1. row.status = "done" /\ new = CleanTo(row, "verified")
    BY <1>5 DEF EventAllowed, EventRow
  <2>2. Fields(new, "verified", "none", "none", FALSE)
    BY <1>1, <2>1 DEF Statuses
  <2> QED BY <2>1, <2>2 DEF HumanMoves, Fields
<1>6. CASE e \in {"start_ai", "approve_requirements", "accept_existing_plan",
                  "start_implementation", "request_replanning", "fast_fix"}
  <2>1. row.status \in {"backlog", "requirements_analysis", "plan_ready"}
    BY <1>6 DEF EventAllowed
  <2>2. PICK t \in {"planning", "plan_ready", "implementing"} : new = CleanTo(row, t)
    BY <1>6 DEF EventRow
  <2>3. Fields(new, t, "none", "none", FALSE)
    BY <1>1, <2>2 DEF Statuses
  <2> QED BY <2>1, <2>3 DEF HumanMoves, Fields
<1>7. e # "request_requirements_reanalysis"
  BY DEF EventAllowed
<1> QED BY <1>2, <1>3, <1>4, <1>5, <1>6, <1>7 DEF HumanEvents

(* handleRegularTransition, without intake.                                *)
LEMMA TransitionFields ==
  ASSUME ~IntakeEnabled, TypeInv, NEW e \in HumanEvents, RegularTransition(e)
  PROVE  \/ HumanBlocks
         \/ /\ HumanMoves(row'.status)
            /\ Fields(row', row'.status, "none", "none", row'.reworkRequested)
<1> USE DEF TypeInv, TypeOK
<1> DEFINE inputRetry == e = "retry_from_blocked" /\ IsOperatorInputHold(row)
           base == EventRow(row, e, FALSE)
<1>1. IntakeEnabled = FALSE /\ inputRetry \in BOOLEAN
  BY LifecycleAssumption
<1>2. EventAllowed(row, e, FALSE, inputRetry)
  BY <1>1 DEF RegularTransition
<1>3. PICK new \in EventRows(row, e) : row' = SetTaskFields(new)
  BY DEF RegularTransition, ApiWrite, WriteRow
<1>4. new \in TaskRows /\ row' \in TaskRows
  BY <1>1, <1>2, <1>3, ApiRowsType, SetTaskFieldsType
<1>5. Fields(row', new.status, new.blockedFromStatus, new.blockedReason,
             new.reworkRequested)
  BY <1>3, <1>4, StoredFields
<1>6. base \in TaskRows
  BY <1>1, <1>2, EventRowType
<1>7. CASE new = base
  BY <1>1, <1>2, <1>4, <1>5, <1>7, EventFields
<1>8. CASE e = "retry_from_blocked" /\ new \in RetryRows(row)
  <2>1. row.status = "blocked_external" /\ row.blockedFromStatus # "none"
        /\ row.blockedFromStatus \in Statuses
    BY <1>2, <1>8 DEF EventAllowed, RetryAllowed, TaskRows
  <2>2. base = [CleanTo(row, row.blockedFromStatus)
                 EXCEPT !.reworkRequested = row.reworkRequested]
    BY <1>8 DEF EventRow
  <2>3. Fields(base, row.blockedFromStatus, "none", "none", row.reworkRequested)
    <3>1. PICK c \in TaskRows : /\ c = CleanTo(row, row.blockedFromStatus)
                               /\ Fields(c, row.blockedFromStatus, "none", "none", FALSE)
      BY <2>1, CleanFields, CleanToType
    <3>2. base = [c EXCEPT !.reworkRequested = row.reworkRequested]
      BY <2>2, <3>1
    <3> HIDE DEF base
    <3> QED BY <3>1, <3>2 DEF Fields, TaskRows
  <2>4. base = EventRow(row, "retry_from_blocked", IntakeEnabled)
    BY <1>1, <1>8
  <2> HIDE DEF base
  <2>5. \/ new = base \/ new = [base EXCEPT !.reworkRequested = FALSE]
        \/ /\ row.blockedReason = "malformed_review"
           /\ new = [base EXCEPT !.status = "implementing", !.reworkRequested = TRUE]
    BY <1>8, <2>4 DEF RetryRows
  <2>6. CASE new = [base EXCEPT !.reworkRequested = FALSE]
    <3>1. Fields(new, row.blockedFromStatus, "none", "none", FALSE)
      BY <1>6, <2>3, <2>6 DEF Fields, TaskRows
    <3> QED BY <1>5, <2>1, <3>1 DEF HumanMoves, Fields
  <2>7. CASE /\ row.blockedReason = "malformed_review"
             /\ new = [base EXCEPT !.status = "implementing", !.reworkRequested = TRUE]
    <3>1. Fields(new, "implementing", "none", "none", TRUE)
      BY <1>6, <2>3, <2>7 DEF Fields, TaskRows
    <3> QED BY <1>5, <2>1, <2>7, <3>1 DEF HumanMoves, Fields
  <2> QED BY <1>7, <2>5, <2>6, <2>7
<1>9. CASE e \in RuntimeStartingEvents /\ new = SequentialBranchBlock(row)
  <2>1. row.status # "verified"
    BY <1>2, <1>9 DEF EventAllowed, RetryAllowed, RuntimeStartingEvents
  <2>2. Fields(new, "blocked_external", row.status, "sequential_branch", FALSE)
    BY <1>9 DEF SequentialBranchBlock, ManualBlock, Block, TaskRows, Fields
  <2> QED BY <1>5, <2>1, <2>2 DEF HumanBlocks, Fields
<1>10. CASE e = "start_implementation" /\ new \in EvidenceBlocks(row, row.status)
  <2>1. row.status = "plan_ready"
    BY <1>2, <1>10 DEF EventAllowed
  <2> QED BY <1>5, <1>10, <2>1, EvidenceFields DEF HumanBlocks, Fields
<1>11. CASE e = "approve_done" /\ new \in EvidenceBlocks(row, "done")
  <2>1. row.status = "done"
    BY <1>2, <1>11 DEF EventAllowed
  <2> QED BY <1>5, <1>11, <2>1, EvidenceFields DEF HumanBlocks, Fields
<1>12. \/ new = base
       \/ e = "retry_from_blocked" /\ new \in RetryRows(row)
       \/ e \in RuntimeStartingEvents /\ new = SequentialBranchBlock(row)
       \/ e = "start_implementation" /\ new \in EvidenceBlocks(row, row.status)
       \/ e = "approve_done" /\ new \in EvidenceBlocks(row, "done")
  BY <1>1, <1>3 DEF EventRows
<1> QED BY <1>7, <1>8, <1>9, <1>10, <1>11, <1>12

(* Without intake the API and the MCP server take no other steps.          *)
LEMMA HumanSteps ==
  ASSUME ~IntakeEnabled, ~batch, TypeInv, Human
  PROVE  HumanStep
<1> USE DEF TypeInv, TypeOK
<1>0. ASSUME NEW new \in TaskRows, row' = SetTaskFields(new)
      PROVE  Fields(row', new.status, new.blockedFromStatus,
                    new.blockedReason, new.reworkRequested)
  BY <1>0, StoredFields
<1>1. ASSUME NEW e \in HumanEvents, RegularTransition(e) PROVE HumanStep
  <2>1. UNCHANGED <<js, runs, lock, batch, verdict>>
    BY <1>1 DEF RegularTransition, ApiWrite
  <2> QED BY <1>1, <2>1, TransitionFields DEF HumanStep
<1>2. CASE AcceptExistingPlan
  <2>1. PICK new \in {SequentialBranchBlock(row),
                 ManualBlock(row, "plan_quality", "backlog", row.retryCount),
                 [CleanTo(row, "plan_ready") EXCEPT !.paused = row.paused]} :
          ApiWrite(new)
    BY <1>2 DEF AcceptExistingPlan
  <2>2. UNCHANGED <<js, runs, lock, batch, verdict>> /\ row' = SetTaskFields(new)
        /\ row.status = "backlog"
    BY <1>2, <2>1 DEF ApiWrite, WriteRow, AcceptExistingPlan
  <2>3. CASE new = SequentialBranchBlock(row)
    <3>1. Fields(new, "blocked_external", row.status, "sequential_branch", FALSE)
      BY <2>3 DEF SequentialBranchBlock, ManualBlock, Block, TaskRows, Fields
    <3>2. Fields(row', "blocked_external", row.status, "sequential_branch", FALSE)
      BY <2>2, <2>3, <3>1 DEF SetTaskFields, Fields
    <3> QED BY <2>2, <3>2 DEF HumanStep, HumanBlocks, Fields
  <2>4. CASE new = ManualBlock(row, "plan_quality", "backlog", row.retryCount)
    <3>1. Fields(new, "blocked_external", row.status, "plan_quality", FALSE)
      BY <2>2, <2>4, BlockFields
    <3>2. Fields(row', "blocked_external", row.status, "plan_quality", FALSE)
      BY <2>2, <2>4, <3>1 DEF SetTaskFields, Fields
    <3> QED BY <2>2, <3>2 DEF HumanStep, HumanBlocks, Fields
  <2>5. CASE new = [CleanTo(row, "plan_ready") EXCEPT !.paused = row.paused]
    <3>1. /\ CleanTo(row, "plan_ready") \in TaskRows
          /\ Fields(CleanTo(row, "plan_ready"), "plan_ready", "none", "none", FALSE)
      BY CleanFields, CleanToType DEF Statuses
    <3>2. Fields(new, "plan_ready", "none", "none", FALSE)
      BY <2>5, <3>1 DEF Fields, TaskRows
    <3>3. Fields(row', "plan_ready", "none", "none", FALSE)
      BY <2>2, <3>2 DEF SetTaskFields, Fields
    <3> QED BY <2>2, <3>3 DEF HumanStep, HumanMoves, Fields
  <2> QED BY <2>1, <2>3, <2>4, <2>5
<1>3. CASE ConfigGovernanceBlock
  <2> DEFINE new == Block(row, "other", row.status, row.retryCount)
  <2>1. UNCHANGED <<js, runs, lock, batch, verdict>> /\ row' = SetTaskFields(new)
        /\ ConfigBlockers = TRUE
    BY <1>3, LifecycleAssumption DEF ApiWrite, WriteRow, ConfigGovernanceBlock
  <2>2. Fields(new, "blocked_external", row.status, "other", row.reworkRequested)
    BY BlockFields
  <2>3. Fields(row', "blocked_external", row.status, "other", row.reworkRequested)
    <3> HIDE DEF new
    <3> QED BY <2>1, <2>2 DEF SetTaskFields, Fields
  <2> QED BY <2>1, <2>3 DEF HumanStep, HumanBlocks, Fields
<1>4. CASE BeginFastFix \/ Comment
  <2>1. UNCHANGED <<js, runs, lock, batch, verdict, row>>
    BY <1>4 DEF BeginFastFix, Comment
  <2> QED BY <2>1 DEF HumanStep, HumanKeeps, Fields
<1>5. CASE EndFastFix
  <2>1. /\ UNCHANGED <<js, runs, lock, batch, verdict>>
        /\ row' = row \/ row' = SetTaskFields([row EXCEPT !.reworkRequested = FALSE])
    BY <1>5 DEF EndFastFix, WriteRow
  <2>2. HumanKeeps
    BY <2>1 DEF HumanKeeps, Fields, SetTaskFields, TaskRows
  <2> QED BY <2>1, <2>2 DEF HumanStep
<1>6. CASE EditTask
  <2>1. /\ UNCHANGED <<js, runs, lock, batch, verdict>>
        /\ \/ row' = SetTaskFields([row EXCEPT !.paused = ~row.paused])
           \/ row' = SetTaskFields([row EXCEPT !.autoMode = ~row.autoMode])
    BY <1>6 DEF EditTask, ApiWrite, WriteRow
  <2>2. HumanKeeps
    BY <2>1 DEF HumanKeeps, Fields, SetTaskFields, TaskRows
  <2> QED BY <2>1, <2>2 DEF HumanStep
<1>7. CASE SyncStatus
  <2>1. PICK e \in SyncEvents(row), p \in BOOLEAN :
          /\ EventAllowed(row, e, FALSE, FALSE)
          /\ row' = SetTaskFields([EventRow(row, e, FALSE) EXCEPT !.paused = p])
    BY <1>7 DEF SyncStatus
  <2>2. e \in HumanEvents
    BY DEF SyncEvents, HumanEvents
  <2>3. PICK base : base = EventRow(row, e, FALSE)
    OBVIOUS
  <2>4. base \in TaskRows
    BY <2>1, <2>2, <2>3, EventRowType
  <2>5. [base EXCEPT !.paused = p] \in TaskRows
    BY <2>4 DEF TaskRows
  <2>6. row' \in TaskRows
        /\ Fields(row', base.status, base.blockedFromStatus, base.blockedReason,
               base.reworkRequested)
    BY <2>1, <2>3, <2>4, <2>5, SetTaskFieldsType, StoredFields DEF Fields, TaskRows
  <2>7. UNCHANGED <<js, runs, lock, batch, verdict>>
    BY <1>7 DEF SyncStatus
  <2>8. \/ HumanBlocks
        \/ /\ HumanMoves(row'.status)
           /\ Fields(row', row'.status, "none", "none", row'.reworkRequested)
    BY <2>1, <2>2, <2>3, <2>6, EventFields
  <2> QED BY <2>7, <2>8 DEF HumanStep
<1>8. CASE OperatorVerifiedCompletion
  <2> DEFINE new == CleanTo(row, NextStatusForOperatorCloseout)
  <2>1. Fields(new, NextStatusForOperatorCloseout, "none", "none", FALSE)
        /\ new \in TaskRows
    BY CloseoutStatus, CleanFields, CleanToType
  <2>2. row' = SetTaskFields(new)
    BY <1>8 DEF OperatorVerifiedCompletion, WriteRow
  <2>3. Fields(row', NextStatusForOperatorCloseout, "none", "none", FALSE)
    <3> HIDE DEF new
    <3> QED BY <1>0, <2>1, <2>2 DEF Fields
  <2> QED BY <1>8, <2>3 DEF HumanStep, HumanCloses, OperatorVerifiedCompletion
<1>9. ~CreateQuestion /\ ~AnswerBatch
  BY DEF CreateQuestion, AnswerBatch
<1> QED BY <1>1, <1>2, <1>3, <1>4, <1>5, <1>6, <1>7, <1>8, <1>9 DEF Human

(* The steps of the agent's own sections: a look at the row, a write from  *)
(* what was read before, the start of a run.                               *)
SectionLooks ==
  /\ UNCHANGED <<row, runs, verdict>>
  /\ \/ js'.at = "idle"
     \/ /\ js'.at = "due" /\ js'.from = row.blockedFromStatus
        /\ IsDueBlocked
     \/ /\ js'.at = "stale" /\ js'.status = row.status
        /\ row.status \in InProgressStatuses
     \/ /\ js'.at = "selected" /\ js'.status = row.status
        /\ js'.stage \in ActivePipeline
        /\ \/ row.status = InProgress(js'.stage)
           \/ js'.stage = "implementer" /\ row.status = "plan_ready"
     \/ /\ js'.at = "claimed" /\ js.at = "selected"
        /\ js'.stage = js.stage /\ js'.status = js.status

SectionWrites ==
  /\ UNCHANGED <<runs, verdict>> /\ js'.at = "idle"
  /\ \/ row' = row
     \/ /\ js.at = "due"
        /\ Fields(row', js.from, "none", "none", row.reworkRequested)
     \/ /\ js.at \in {"stale", "selected", "claimed"}
        /\ Fields(row', "blocked_external", js.status, "other",
                  row.reworkRequested)
     \/ /\ js.at = "idle" /\ row.status = "backlog"
        /\ Fields(row', "planning", "none", "none", FALSE)

SectionStarts(i) ==
  /\ js.at = "claimed" /\ js'.at = "idle"
  /\ \A j \in Slots \ {i} : runs'[j] = runs[j]
  /\ runs'[i].at = "running" /\ runs'[i].stage = js.stage
  /\ runs'[i].from = IF js.stage # "planner" THEN "planning"
                     ELSE IF row'.blockedFromStatus # "none"
                     THEN row'.blockedFromStatus ELSE row'.status
  /\ verdict' = IF js.stage = "implementer" THEN "none" ELSE verdict
  /\ \/ IsOperatorCancelled(row) /\ row' = row
     \/ Fields(row', InProgress(js.stage), row.blockedFromStatus,
               row.blockedReason, row.reworkRequested)

(* Without intake the sections of the agent take no other steps.           *)
LEMMA SectionSteps ==
  ASSUME ~IntakeEnabled, TypeInv, Agent
  PROVE  \/ SectionLooks \/ SectionWrites
         \/ \E i \in Slots : SectionStarts(i)
<1> USE DEF TypeInv, TypeOK
<1>0. JsIdle.at = "idle"
  BY DEF JsIdle
<1>1. CASE ReleaseStaleClaims
  BY <1>0, <1>1 DEF ReleaseStaleClaims, EventLoopFree, SectionLooks
<1>2. CASE ListDueBlocked
  <2>1. js'.at = "due" /\ js'.from = row.blockedFromStatus
    BY <1>2 DEF ListDueBlocked, JsSection
  <2> QED  BY <1>2, <2>1 DEF ListDueBlocked, SectionLooks
<1>3. CASE ReleaseDueBlocked
  <2>1. PICK new : new = ReleasedRow(row, js.from, js.retryCount)
    OBVIOUS
  <2>2. Fields(new, js.from, "none", "none", row.reworkRequested)
    BY <2>1 DEF ReleasedRow, TaskRows, Fields
  <2>3. row' = SetTaskFields(new)
    BY <1>3, <2>1 DEF ReleaseDueBlocked, WriteRow
  <2>4. row' = new
    BY <2>2, <2>3 DEF SetTaskFields, Fields
  <2> QED  BY <1>0, <1>3, <2>2, <2>4 DEF ReleaseDueBlocked, SectionWrites
<1>4. CASE ListStale
  <2>1. js'.at = "stale" /\ js'.status = row.status
    BY <1>4 DEF ListStale, JsSection
  <2> QED  BY <1>4, <2>1 DEF ListStale, SectionLooks
<1>5. CASE RecoverStale
  <2>1. PICK new : new = StaleRow(row, js.status, js.retryCount)
    OBVIOUS
  <2>2. Fields(new, "blocked_external", js.status, "other", row.reworkRequested)
    BY <2>1 DEF StaleRow, Block, TaskRows, Fields
  <2>3. row' = SetTaskFields(new)
    BY <1>5, <2>1 DEF RecoverStale, WriteRow
  <2>4. row' = new
    BY <2>2, <2>3 DEF SetTaskFields, Fields
  <2> QED  BY <1>0, <1>5, <2>2, <2>4 DEF RecoverStale, SectionWrites
<1>6. CASE AdvanceBacklog
  <2>1. row' = CleanTo(row, "planning")
    BY <1>6 DEF AdvanceBacklog, WriteRow
  <2>2. Fields(row', "planning", "none", "none", FALSE)
    BY <2>1, CleanFields DEF Statuses
  <2> QED
    BY <1>0, <1>6, <2>2 DEF AdvanceBacklog, EventLoopFree, SectionWrites
<1>7. ASSUME NEW s \in Stages, Select(s) PROVE SectionLooks
  <2>1. js'.at = "selected" /\ js'.status = row.status /\ js'.stage = s
    BY <1>7 DEF Select, JsSection
  <2> QED  BY <1>7, <2>1 DEF Select, IsCandidate, SectionLooks
<1>8. CASE SkipCandidate \/ AbandonClaim
  BY <1>0, <1>8 DEF SkipCandidate, AbandonClaim, SectionLooks
<1>9. CASE RuntimeGateBlock
  <2>1. PICK b : b = Block(row, "other", js.status, Bump(js.retryCount))
    OBVIOUS
  <2>2. row' = [b EXCEPT !.retryAfter = TRUE]
    BY <1>9, <2>1 DEF RuntimeGateBlock, WriteRow
  <2>3. Fields(row', "blocked_external", js.status, "other", row.reworkRequested)
    BY <2>1, <2>2 DEF Block, TaskRows, Fields
  <2> QED  BY <1>0, <1>9, <2>3 DEF RuntimeGateBlock, SectionWrites
<1>10. ASSUME NEW new, row' = CoordinatorWrite(new),
              new = [Block(row, "other", js.status, js.retryCount)
                       EXCEPT !.manualReviewRequired = FALSE]
       PROVE  \/ row' = row
              \/ Fields(row', "blocked_external", js.status, "other",
                        row.reworkRequested)
  <2>1. Fields(new, "blocked_external", js.status, "other", row.reworkRequested)
    BY <1>10 DEF Block, TaskRows, Fields
  <2> QED  BY <1>10, <2>1 DEF CoordinatorWrite, SetTaskFields, Fields
<1>11. CASE NoCapableRuntimeBlock
  <2>1. PICK new : /\ new = [Block(row, "other", js.status, js.retryCount)
                               EXCEPT !.manualReviewRequired = FALSE]
                   /\ row' = CoordinatorWrite(new)
    BY <1>11 DEF NoCapableRuntimeBlock, WriteRow
  <2> QED  BY <1>0, <1>10, <1>11, <2>1 DEF NoCapableRuntimeBlock, SectionWrites
<1>12. CASE Claim
  BY <1>12 DEF Claim, JsSections, SectionLooks
<1>13. CASE PreStartGuard
  <2>1. PICK new \in PreStartRows : row' = CoordinatorWrite(new)
    BY <1>13 DEF PreStartGuard, WriteRow
  <2>2. new = [Block(row, "other", js.status, js.retryCount)
                 EXCEPT !.manualReviewRequired = FALSE]
    BY <2>1 DEF PreStartRows, ResearchDesignEnabled
  <2> QED  BY <1>0, <1>10, <1>13, <2>1, <2>2 DEF PreStartGuard, SectionWrites
<1>14. ASSUME NEW i \in Slots, StartStage(i) PROVE SectionStarts(i)
  <2>1. PICK new : new = [row EXCEPT !.status = InProgress(js.stage)]
    OBVIOUS
  <2>2. /\ Fields(new, InProgress(js.stage), row.blockedFromStatus,
                  row.blockedReason, row.reworkRequested)
        /\ new \in TaskRows
    BY <2>1, StageStatus DEF TaskRows, JsSections, Fields
  <2>3. \/ IsOperatorCancelled(row) /\ row' = row
        \/ row' = SetTaskFields(new)
    BY <1>14, <2>1 DEF StartStage, WriteRow, CoordinatorWrite
  <2>4. \/ IsOperatorCancelled(row) /\ row' = row
        \/ Fields(row', InProgress(js.stage), row.blockedFromStatus,
                  row.blockedReason, row.reworkRequested)
    BY <2>2, <2>3, StoredFields DEF Fields
  <2>5. /\ runs'[i] = NewRun(row')
        /\ \A j \in Slots \ {i} : runs'[j] = runs[j]
    BY <1>14 DEF StartStage
  <2>6. /\ runs'[i].at = "running" /\ runs'[i].stage = js.stage
        /\ runs'[i].from = IF js.stage # "planner" THEN "planning"
                     ELSE IF row'.blockedFromStatus # "none"
                     THEN row'.blockedFromStatus ELSE row'.status
    BY <2>5 DEF NewRun
  <2> QED  BY <1>0, <1>14, <2>4, <2>5, <2>6 DEF StartStage, SectionStarts
<1> QED
  BY <1>1, <1>2, <1>3, <1>4, <1>5, <1>6, <1>7, <1>8, <1>9, <1>11, <1>12,
     <1>13, <1>14 DEF Agent

(* The steps of a run: one that leaves the row, the runner's last write,   *)
(* and the handoff, the gate or the catch block that ends it.              *)
Working(i) == runs[i].at \in {"running", "returned", "gate"}

(* Without intake no run is a QA run, and only a reviewer is at the gate.  *)
ShapeInv ==
  /\ js.at = "due" => js.from \in Resumable
  /\ js.at \in {"stale", "selected", "claimed"} => js.status \in Resumable
  /\ js.at \in {"selected", "claimed"} =>
       /\ js.stage # "qa"
       /\ js.stage = "implementer" \/ js.status = InProgress(js.stage)
  /\ \A i \in Slots : Working(i) => runs[i].stage # "qa"
  /\ \A i \in Slots : runs[i].at = "gate" => runs[i].stage = "reviewer"

RunLooks(i) ==
  /\ UNCHANGED <<row, verdict>>
  /\ \/ runs'[i] = runs[i]
     \/ runs'[i].at \in {"none", "finally"}
     \/ /\ Working(i) /\ runs'[i].at = "gate" /\ runs[i].stage = "reviewer"
        /\ runs'[i].stage = "reviewer" /\ runs'[i].from = runs[i].from

(* Where a runner's write leaves the row.                                  *)
RunnerLeaves(run) ==
  \/ /\ Fields(row', "blocked_external", row.status, "questions_triage",
               row.reworkRequested)
  \/ /\ run.stage = "planner"
     /\ row'.status \in {"blocked_external", "needs_input"}
     /\ row'.blockedReason \in {"planner_terminal", "other"}
     /\ row'.blockedFromStatus = run.from
     /\ row'.reworkRequested = row.reworkRequested
  \/ /\ run.stage = "implementer"
     /\ Fields(row', row.status, row.blockedFromStatus, row.blockedReason, FALSE)
  \/ /\ run.stage = "implementer"
     /\ \/ Fields(row', "blocked_external", "implementing", "other",
                  row'.reworkRequested)
        \/ Fields(row', "implementing", "implementing", "manifest_invalid", TRUE)
  \/ /\ run.stage \notin {"implementer", "planner"}
     /\ Fields(row', "blocked_external", InProgress(run.stage), "other",
               row.reworkRequested)

RunWrites(i) ==
  /\ UNCHANGED verdict
  /\ runs[i].at = "running" /\ runs'[i].at = "returned"
  /\ runs'[i].stage = runs[i].stage /\ runs'[i].from = "planning"
  /\ RunnerLeaves(runs[i])

(* Where the end of a run leaves the row: blocked at the stage, at the     *)
(* stage again, back with the implementer, back with the planner.          *)
EndBlocks(run) ==
  /\ Fields(row', "blocked_external", InProgress(run.stage),
            row'.blockedReason, row'.reworkRequested)
  /\ row'.blockedReason # "operator_cancelled"
  /\ row'.reworkRequested \in {row.reworkRequested, FALSE}
  /\ row'.blockedReason = "malformed_review" => row'.retryAfter = FALSE

EndRepeats(run) ==
  /\ Fields(row', InProgress(run.stage), "none", row'.blockedReason,
            row'.reworkRequested)
  /\ row'.blockedReason \in {"none", "other"}
  /\ row'.reworkRequested \in {row.reworkRequested, FALSE}

EndReworks(run) ==
  /\ run.stage \in {"implementer", "reviewer"}
  /\ Fields(row', "implementing", "none", row'.blockedReason, TRUE)
  /\ row'.blockedReason \in {"none", "other"}

EndReplans(run) ==
  /\ run.stage \in {"planner", "plan-checker"}
  /\ Fields(row', "planning", InProgress(run.stage), "plan_quality",
            row.reworkRequested)

(* The handoff to the next stage.                                          *)
EndAdvances ==
  /\ row'.status \in {"planning", "design", "plan_ready", "review"}
  /\ row'.blockedFromStatus \in {"none", "plan_ready"}
  /\ row'.blockedReason \in {"none", "plan_quality"}
  /\ row'.reworkRequested = FALSE

RunEnds(i) ==
  /\ Working(i) /\ runs'[i].at = "finally"
  /\ \/ IsOperatorCancelled(row) /\ row' = row /\ verdict' = verdict
     \/ /\ verdict' = verdict
        /\ \/ EndBlocks(runs[i]) \/ EndRepeats(runs[i]) \/ EndReworks(runs[i])
           \/ EndReplans(runs[i]) \/ EndAdvances
     \/ /\ verdict' = "reviewed"
        /\ Fields(row', "done", "none", "none", FALSE)
        /\ SkipReview = TRUE \/ runs[i].stage = "reviewer"

RunStep(i) ==
  /\ UNCHANGED js /\ js.at = "idle"
  /\ \A j \in Slots \ {i} : runs'[j] = runs[j]
  /\ RunLooks(i) \/ RunWrites(i) \/ RunEnds(i)

(* The rows of a runner, and of the end of a run, before they are stored.  *)
LEMMA RunnerRowFields ==
  ASSUME TypeInv, NEW run \in Run0, run.stage # "qa",
         NEW new \in RunnerRows(run), new \in TaskRows, row' = SetTaskFields(new)
  PROVE  RunnerLeaves(run)
<1> USE DEF TypeInv, TypeOK
<1>0. Fields(row', new.status, new.blockedFromStatus, new.blockedReason,
             new.reworkRequested)
  BY StoredFields
<1>1. CASE run.stage \in {"requirements-analyst", "researcher", "designer"}
  <2>1. Fields(new, "blocked_external", InProgress(run.stage), "other",
               row.reworkRequested)
    BY <1>1 DEF RunnerRows, InProgress, Block, TaskRows, Fields
  <2> QED  BY <1>0, <1>1, <2>1 DEF RunnerLeaves, Fields
<1>2. CASE run.stage = "planner"
  <2>1. PICK t \in {"blocked_external", "needs_input"} :
          new = [Block(row, "planner_terminal", run.from, row.retryCount)
             EXCEPT !.status = t,
                    !.blockedReason = IF t = "needs_input" THEN "other"
                                      ELSE "planner_terminal"]
    BY <1>2 DEF RunnerRows
  <2>2. /\ new.status = t /\ new.blockedFromStatus = run.from
        /\ new.blockedReason \in {"planner_terminal", "other"}
        /\ new.reworkRequested = row.reworkRequested
    BY <2>1 DEF Block, TaskRows
  <2> QED  BY <1>0, <1>2, <2>1, <2>2 DEF RunnerLeaves, Fields
<1>3. CASE run.stage = "implementer"
  <2>1. CASE new = [row EXCEPT !.reworkRequested = FALSE]
    <3>1. Fields(new, row.status, row.blockedFromStatus, row.blockedReason, FALSE)
      BY <2>1 DEF TaskRows, Fields
    <3> QED  BY <1>0, <1>3, <3>1, <2>1 DEF RunnerLeaves, Fields
  <2>2. CASE new = [Block(row, "other", "implementing", row.retryCount)
                      EXCEPT !.manualReviewRequired = FALSE,
                             !.reworkRequested = TRUE]
    <3>1. Fields(new, "blocked_external", "implementing", "other", TRUE)
      BY <2>2 DEF Block, TaskRows, Fields
    <3> QED  BY <1>0, <1>3, <3>1 DEF RunnerLeaves, Fields
  <2>3. CASE new = ManifestFailureRow(row, run.seen)
    <3>1. \/ Fields(new, "implementing", "implementing", "manifest_invalid", TRUE)
          \/ new = ManualBlock(row, "other", "implementing", run.seen)
      BY <2>3 DEF ManifestFailureRow, TaskRows, Fields
    <3>2. Fields(ManualBlock(row, "other", "implementing", run.seen),
                 "blocked_external", "implementing", "other", FALSE)
      BY BlockFields
    <3> QED  BY <1>0, <1>3, <3>1, <3>2 DEF RunnerLeaves, Fields
  <2> QED  BY <1>3, <2>1, <2>2, <2>3 DEF RunnerRows
<1>4. run.stage \notin {"plan-checker", "reviewer"}
  BY DEF RunnerRows
<1> QED  BY <1>1, <1>2, <1>3, <1>4 DEF Run0, Stages

(* What ends a run short of success.                                       *)
LEMMA EndRowFields ==
  ASSUME TypeInv, NEW run \in Run0, run.stage # "qa",
         NEW new \in TaskRows,
         \/ new \in RefusedHandoffs(run)
         \/ run.stage = "reviewer" /\ new \in GateRefusals(run)
         \/ /\ run.stage \in {"planner", "plan-checker"}
            /\ new = PlanQualityRow(row, run.stage)
         \/ new \in RecoveryRows(run) \cup ClassifiedRows(run),
         row' = SetTaskFields(new)
  PROVE  \/ EndBlocks(run) \/ EndRepeats(run) \/ EndReworks(run)
         \/ EndReplans(run)
<1> USE DEF TypeInv, TypeOK
<1> DEFINE Goal == \/ EndBlocks(run) \/ EndRepeats(run) \/ EndReworks(run)
                   \/ EndReplans(run)
           at == InProgress(run.stage)
<1>0. /\ Fields(row', new.status, new.blockedFromStatus, new.blockedReason,
                new.reworkRequested)
      /\ row'.retryAfter => new.retryAfter
      /\ row'.retryAfter \in BOOLEAN /\ row.reworkRequested \in BOOLEAN
  BY StoredFields, StoredWindow, SetTaskFieldsType DEF TaskRows
<1>1. ASSUME NEW q, q \notin {"operator_cancelled", "malformed_review"},
             NEW b \in {row.reworkRequested, FALSE},
             Fields(new, "blocked_external", at, q, b)
      PROVE  EndBlocks(run)
  BY <1>0, <1>1 DEF EndBlocks, Fields
<1>2. ASSUME NEW q, NEW n, q # "operator_cancelled", new = ManualBlock(row, q, at, n)
      PROVE  EndBlocks(run)
  <2>1. Fields(new, "blocked_external", at, q, FALSE) /\ new.retryAfter = FALSE
    BY <1>2, BlockFields
  <2> QED  BY <1>0, <1>2, <2>1 DEF EndBlocks, Fields
<1>3. ASSUME new \in EvidenceBlocks(row, at) PROVE EndBlocks(run)
  BY <1>1, <1>3, EvidenceFields
<1>4. CASE new \in RefusedHandoffs(run)
  <2>1. run.stage = "implementer" /\ at = "implementing"
    BY <1>4 DEF RefusedHandoffs, InProgress
  <2>2. CASE new = ManualBlock(row, "no_delta", "implementing", row.retryCount)
    BY <1>2, <2>1, <2>2
  <2>3. CASE new \in EvidenceRework(row)
    <3>1. CASE new = ManualBlock(row, "manual_review", "implementing", row.retryCount)
      BY <1>2, <2>1, <3>1
    <3>2. CASE new # ManualBlock(row, "manual_review", "implementing", row.retryCount)
      <4>1. Fields(new, "implementing", "none", "other", TRUE)
        BY <2>3, <3>2 DEF EvidenceRework, TaskRows, Fields
      <4> QED  BY <1>0, <2>1, <4>1 DEF EndReworks, Fields
    <3> QED  BY <3>1, <3>2
  <2> QED  BY <1>3, <1>4, <2>1, <2>2, <2>3 DEF RefusedHandoffs
<1>5. CASE run.stage = "reviewer" /\ new \in GateRefusals(run)
  <2>1. at = "review"
    BY <1>5 DEF InProgress
  <2>2. ASSUME NEW q, q # "operator_cancelled", NEW n,
               new = ManualBlock(row, q, "review", n)
        PROVE  EndBlocks(run)
    BY <1>2, <2>1, <2>2
  <2>3. CASE new = [Block(row, "operator_input", "review", 0)
                      EXCEPT !.reworkRequested = FALSE,
                             !.manualReviewRequired = FALSE]
    <3>1. Fields(new, "blocked_external", "review", "operator_input", FALSE)
      BY <2>3 DEF Block, TaskRows, Fields
    <3> QED  BY <1>1, <2>1, <3>1
  <2>4. CASE new = ReviewLoopRow(row, "implementing")
    <3>1. Fields(new, "implementing", "none", "none", TRUE)
      BY <2>4 DEF ReviewLoopRow, TaskRows, Fields
    <3> QED  BY <1>0, <1>5, <3>1 DEF EndReworks, Fields
  <2>5. CASE new = ReviewLoopRow(row, "review")
    <3>1. Fields(new, "review", "none", "none", FALSE)
      BY <2>5 DEF ReviewLoopRow, TaskRows, Fields
    <3> QED  BY <1>0, <2>1, <3>1 DEF EndRepeats, Fields
  <2>6. CASE \E q \in {"malformed_review", "manual_review"},
                n \in {0, row.retryCount} : new = ManualBlock(row, q, "review", n)
    BY <2>2, <2>6
  <2>7. CASE \/ new = ManualBlock(row, "stalled_rework", "review", row.retryCount)
             \/ new = ManualBlock(row, "manual_review", "review", run.retryCount)
    BY <2>2, <2>7
  <2>8. CASE new \in EvidenceBlocks(row, "review")
    BY <1>3, <2>1, <2>8
  <2>9. \/ \E q \in {"malformed_review", "manual_review"},
              n \in {0, row.retryCount} : new = ManualBlock(row, q, "review", n)
        \/ new = ManualBlock(row, "stalled_rework", "review", row.retryCount)
        \/ new = ManualBlock(row, "manual_review", "review", run.retryCount)
        \/ new = [Block(row, "operator_input", "review", 0)
                    EXCEPT !.reworkRequested = FALSE,
                           !.manualReviewRequired = FALSE]
        \/ new = ReviewLoopRow(row, "implementing")
        \/ new = ReviewLoopRow(row, "review")
        \/ new \in EvidenceBlocks(row, "review")
    BY <1>5 DEF GateRefusals
  <2> QED  BY <2>3, <2>4, <2>5, <2>6, <2>7, <2>8, <2>9
<1>6. CASE /\ run.stage \in {"planner", "plan-checker"}
           /\ new = PlanQualityRow(row, run.stage)
  <2>1. CASE row.retryCount + 1 <= PLAN_QUALITY_MAX_RETRIES
    <3>1. Fields(new, "planning", at, "plan_quality", row.reworkRequested)
      BY <1>6, <2>1 DEF PlanQualityRow, TaskRows, Fields
    <3> QED  BY <1>0, <1>6, <3>1 DEF EndReplans, Fields
  <2>2. CASE ~(row.retryCount + 1 <= PLAN_QUALITY_MAX_RETRIES)
    <3>1. PICK b : b = Block(row, "plan_quality", at, Bump(row.retryCount))
      OBVIOUS
    <3>2. new = [b EXCEPT !.manualReviewRequired = TRUE]
      BY <1>6, <2>2, <3>1 DEF PlanQualityRow
    <3>3. Fields(new, "blocked_external", at, "plan_quality", row.reworkRequested)
      BY <3>1, <3>2 DEF Block, TaskRows, Fields
    <3> QED  BY <1>1, <3>3
  <2> QED  BY <2>1, <2>2
<1>7. CASE new \in RecoveryRows(run)
  <2>1. CASE new = Block(row, "other", at, row.retryCount)
    BY <1>1, <2>1, BlockFields
  <2>2. CASE new = [Block(row, "operator_input", at, row.retryCount)
                      EXCEPT !.reworkRequested = FALSE,
                             !.manualReviewRequired = FALSE]
    <3>1. Fields(new, "blocked_external", at, "operator_input", FALSE)
      BY <2>2 DEF Block, TaskRows, Fields
    <3> QED  BY <1>1, <3>1
  <2>3. CASE new = ManualBlock(row, "other", at, row.retryCount)
    BY <1>2, <2>3
  <2>4. CASE new = [row EXCEPT !.status = at, !.blockedReason = "other",
               !.blockedFromStatus = "none", !.retryAfter = FALSE,
               !.retryCount = Bump(row.retryCount), !.paused = FALSE,
               !.reworkRequested = FALSE, !.manualReviewRequired = FALSE]
    <3>1. Fields(new, at, "none", "other", FALSE)
      BY <2>4 DEF TaskRows, Fields
    <3> QED  BY <1>0, <3>1 DEF EndRepeats, Fields
  <2> QED  BY <1>7, <2>1, <2>2, <2>3, <2>4 DEF RecoveryRows
<1>8. CASE new \in ClassifiedRows(run)
  <2>1. CASE \E q \in {"other", "operator_input"} :
               new = Block(row, q, at, run.retryCount)
    BY <1>1, <2>1, BlockFields
  <2>2. CASE new = [row EXCEPT !.status = at, !.blockedReason = "none",
                    !.blockedFromStatus = "none", !.retryAfter = FALSE]
    <3>1. Fields(new, at, "none", "none", row.reworkRequested)
      BY <2>2 DEF TaskRows, Fields
    <3> QED  BY <1>0, <3>1 DEF EndRepeats, Fields
  <2>3. CASE \/ new = Block(row, "other", at, Bump(run.retryCount))
             \/ new = [Block(row, "other", at, Bump(run.retryCount))
                         EXCEPT !.retryAfter = TRUE]
    <3>1. Fields(new, "blocked_external", at, "other", row.reworkRequested)
      BY <2>3 DEF Block, TaskRows, Fields
    <3> QED  BY <1>1, <3>1
  <2> QED  BY <1>8, <2>1, <2>2, <2>3 DEF ClassifiedRows
<1> QED  BY <1>4, <1>5, <1>6, <1>7, <1>8

(* A success that is not the end of a review.                              *)
LEMMA SuccessFields ==
  ASSUME ~IntakeEnabled, TypeInv, NEW s \in Stages, s \notin {"reviewer", "qa"},
         row' = SetTaskFields(SuccessRow(row, s))
  PROVE  EndAdvances
<1> USE DEF TypeInv, TypeOK
<1>1. OnSuccess(s) \in {"planning", "design", "plan_ready", "review"}
  BY DEF OnSuccess, ResearchDesignEnabled, Stages
<1>2. PICK c \in TaskRows : /\ c = CleanTo(row, OnSuccess(s))
                            /\ Fields(c, OnSuccess(s), "none", "none", FALSE)
  BY StageStatus, CleanFields, CleanToType
<1>3. PICK new \in TaskRows : new = SuccessRow(row, s)
  BY SuccessRowType
<1>4. \/ new = c
      \/ new = [c EXCEPT !.retryCount = row.retryCount,
                         !.blockedReason = "plan_quality",
                         !.blockedFromStatus = "plan_ready"]
  BY <1>2, <1>3 DEF SuccessRow
<1>5. \/ Fields(new, OnSuccess(s), "none", "none", FALSE)
      \/ Fields(new, OnSuccess(s), "plan_ready", "plan_quality", FALSE)
  BY <1>2, <1>4 DEF Fields, TaskRows
<1>6. Fields(row', new.status, new.blockedFromStatus, new.blockedReason,
             new.reworkRequested)
  BY <1>3, StoredFields
<1> QED  BY <1>1, <1>5, <1>6 DEF EndAdvances, Fields

(* Without intake a run takes no other steps.                              *)
LEMMA RunSteps ==
  ASSUME ~IntakeEnabled, TypeInv, ShapeInv, NEW i \in Slots, Run(i)
  PROVE  RunStep(i)
<1> USE DEF TypeInv, TypeOK
<1>1. js.at = "idle" /\ UNCHANGED js
  BY DEF Run, RunProgress, JsIdle, RaiseQuestions, TriageQuestions, RunnerWrite,
         KeepRunnerOutcome, RefuseHandoff, Succeed, EnterReviewGate, GateRefuse,
         GateAccept, StageError, Release, FinishRun, Heartbeat
<1>2. runs[i] \in Run0 /\ runs[i].stage \in Stages
  BY DEF Run0
<1>3. Finished.at = "finally" /\ NoRun.at = "none"
  BY DEF Finished, NoRun
<1>4. Working(i) => runs[i].stage # "qa"
  BY DEF ShapeInv
<1>5. CASE Heartbeat(i)
  BY <1>1, <1>5 DEF Heartbeat, RunStep, RunLooks
<1>6. CASE Release(i) \/ KeepRunnerOutcome(i)
  <2>1. /\ runs'[i].at \in {"none", "finally"} /\ UNCHANGED <<row, verdict>>
        /\ \A j \in Slots \ {i} : runs'[j] = runs[j]
    BY <1>3, <1>6 DEF Release, KeepRunnerOutcome
  <2> QED  BY <1>1, <2>1 DEF RunStep, RunLooks
<1>7. CASE EnterReviewGate(i)
  <2>1. /\ runs'[i] = [runs[i] EXCEPT !.at = "gate"]
        /\ \A j \in Slots \ {i} : runs'[j] = runs[j]
        /\ runs[i].stage = "reviewer" /\ UNCHANGED <<row, verdict>>
        /\ Working(i)
    BY <1>7 DEF EnterReviewGate, Working
  <2>2. /\ runs'[i].at = "gate" /\ runs'[i].stage = "reviewer"
        /\ runs'[i].from = runs[i].from
    BY <1>2, <2>1 DEF Run0
  <2> QED  BY <1>1, <2>1, <2>2 DEF RunStep, RunLooks
<1>8. CASE TriageQuestions(i) \/ RunnerWrite(i)
  <2>1. /\ runs'[i] = Returned(runs[i]) /\ UNCHANGED verdict
        /\ \A j \in Slots \ {i} : runs'[j] = runs[j]
        /\ runs[i].at = "running"
    BY <1>8 DEF TriageQuestions, RunnerWrite
  <2>2. /\ runs'[i].at = "returned" /\ runs'[i].stage = runs[i].stage
        /\ runs'[i].from = "planning"
    BY <1>2, <2>1 DEF Returned, Run0
  <2>3. RunnerLeaves(runs[i])
    <3>1. CASE RunnerWrite(i)
      <4>1. PICK new \in RunnerRows(runs[i]) : row' = SetTaskFields(new)
        BY <3>1 DEF RunnerWrite, WriteRow
      <4>2. new \in TaskRows /\ runs[i].stage # "qa"
        BY <1>2, <1>4, <2>1, <4>1, RunRowsType DEF Working
      <4> QED  BY <1>2, <4>1, <4>2, RunnerRowFields
    <3>2. CASE TriageQuestions(i)
      <4>1. PICK b : b = Block(row, "questions_triage", row.status, row.retryCount)
        OBVIOUS
      <4>2. row' = SetTaskFields([b EXCEPT !.manualReviewRequired = TRUE])
        BY <3>2, <4>1 DEF TriageQuestions, WriteRow
      <4>3. Fields(row', "blocked_external", row.status, "questions_triage",
                   row.reworkRequested)
        BY <4>1, <4>2 DEF Block, SetTaskFields, TaskRows, Fields
      <4> QED  BY <4>3 DEF RunnerLeaves
    <3> QED  BY <1>8, <3>1, <3>2
  <2> QED  BY <1>1, <2>1, <2>2, <2>3 DEF RunStep, RunWrites
<1>9. ASSUME NEW new, FinishRun(i, new)
      PROVE  /\ \A j \in Slots \ {i} : runs'[j] = runs[j]
             /\ runs'[i].at = "finally"
             /\ \/ IsOperatorCancelled(row) /\ row' = row
                \/ ~IsOperatorCancelled(row) /\ row' = SetTaskFields(new)
  BY <1>3, <1>9 DEF FinishRun, WriteRow, CoordinatorWrite
<1>10. ASSUME NEW new \in TaskRows, FinishRun(i, new), UNCHANGED verdict,
              Working(i),
              \/ new \in RefusedHandoffs(runs[i])
              \/ runs[i].stage = "reviewer" /\ new \in GateRefusals(runs[i])
              \/ /\ runs[i].stage \in {"planner", "plan-checker"}
                 /\ new = PlanQualityRow(row, runs[i].stage)
              \/ new \in RecoveryRows(runs[i]) \cup ClassifiedRows(runs[i])
       PROVE  RunStep(i)
  <2>1. row' = SetTaskFields(new) =>
          \/ EndBlocks(runs[i]) \/ EndRepeats(runs[i]) \/ EndReworks(runs[i])
          \/ EndReplans(runs[i])
    BY <1>2, <1>4, <1>10, EndRowFields
  <2> QED  BY <1>1, <1>9, <1>10, <2>1 DEF RunStep, RunEnds
<1>11. CASE RefuseHandoff(i)
  <2>1. PICK new \in RefusedHandoffs(runs[i]) : FinishRun(i, new)
    BY <1>11 DEF RefuseHandoff
  <2>2. new \in TaskRows
    BY <1>2, <2>1, RunRowsType
  <2> QED  BY <1>10, <1>11, <2>1, <2>2 DEF RefuseHandoff, Working
<1>12. CASE GateRefuse(i)
  <2>1. PICK new \in GateRefusals(runs[i]) : FinishRun(i, new)
    BY <1>12 DEF GateRefuse
  <2>2. new \in TaskRows
    BY <1>2, <2>1, RunRowsType
  <2> QED  BY <1>10, <1>12, <2>1, <2>2 DEF GateRefuse, Working, ShapeInv
<1>13. CASE StageError(i)
  <2>1. CASE /\ runs[i].stage \in {"planner", "plan-checker"}
             /\ FinishRun(i, PlanQualityRow(row, runs[i].stage))
    BY <1>2, <1>10, <1>13, <2>1, PlanQualityRowType DEF StageError, Working
  <2>2. CASE \E new \in RecoveryRows(runs[i]) \cup ClassifiedRows(runs[i]) :
               FinishRun(i, new)
    BY <1>2, <1>10, <1>13, <2>2, RunRowsType DEF StageError, Working
  <2> QED  BY <1>13, <2>1, <2>2 DEF StageError
<1>14. ASSUME FinishRun(i, CleanTo(row, AfterReview)), Working(i),
              ~IsOperatorCancelled(row) => verdict' = "reviewed",
              IsOperatorCancelled(row) => verdict' = verdict,
              SkipReview = TRUE \/ runs[i].stage = "reviewer"
       PROVE  RunStep(i)
  <2>1. AfterReview = "done" /\ "done" \in Statuses
    BY DEF AfterReview, QaEnabled, Statuses
  <2>2. PICK new \in TaskRows : /\ new = CleanTo(row, AfterReview)
                                /\ Fields(new, "done", "none", "none", FALSE)
    BY <2>1, CleanFields, CleanToType
  <2>3. row' = SetTaskFields(new) => Fields(row', "done", "none", "none", FALSE)
    BY <2>2, StoredFields DEF Fields
  <2> QED  BY <1>1, <1>9, <1>14, <2>2, <2>3 DEF RunStep, RunEnds
<1>15. CASE GateAccept(i)
  BY <1>14, <1>15 DEF GateAccept, Working, ShapeInv
<1>16. CASE Succeed(i)
  <2>1. Working(i) /\ ~IsOperatorCancelled(row) /\ runs[i].stage # "reviewer"
    BY <1>16 DEF Succeed, RunnerTerminalized, Working
  <2>2. CASE runs[i].stage = "implementer" /\ SkipReview
    BY <1>14, <1>16, <2>1, <2>2, LifecycleAssumption DEF Succeed
  <2>3. CASE ~(runs[i].stage = "implementer" /\ SkipReview)
    <3>1. FinishRun(i, SuccessRow(row, runs[i].stage)) /\ verdict' = verdict
      BY <1>4, <1>16, <2>1, <2>3 DEF Succeed
    <3>2. EndAdvances
      BY <1>2, <1>4, <1>9, <2>1, <3>1, SuccessFields
    <3> QED  BY <1>1, <1>9, <2>1, <3>1, <3>2 DEF RunStep, RunEnds
  <2> QED  BY <2>2, <2>3
<1> QED
  BY <1>5, <1>6, <1>7, <1>8, <1>11, <1>12, <1>13, <1>15, <1>16
     DEF Run, RunProgress, RaiseQuestions

(* A crash or a shutdown ends every section and every run.                 *)
Stops ==
  /\ UNCHANGED <<row, verdict>> /\ js'.at = "idle"
  /\ \A i \in Slots : runs'[i].at = "none"

Pauses == UNCHANGED <<row, js, runs, verdict>>

Step ==
  \/ SectionLooks \/ SectionWrites \/ \E i \in Slots : SectionStarts(i)
  \/ \E i \in Slots : RunStep(i)
  \/ HumanStep \/ Stops \/ Pauses

(* Every step of the specification is one of these.                        *)
LEMMA Steps ==
  ASSUME ~IntakeEnabled, TypeInv, ClaimInv, ShapeInv, [Next]_vars
  PROVE  Step
<1>1. CASE Agent
  BY <1>1, SectionSteps DEF Step
<1>2. ASSUME NEW i \in Slots, Run(i) PROVE Step
  BY <1>2, RunSteps DEF Step
<1>3. CASE Human
  BY <1>3, HumanSteps DEF Step, ClaimInv
<1>4. ASSUME NEW graceful \in BOOLEAN, Restart(graceful) PROVE Step
  BY <1>4 DEF Restart, Step, Stops, NoRun, JsIdle
<1>5. CASE UNCHANGED vars
  BY <1>5 DEF vars, Step, Pauses
<1> QED  BY <1>1, <1>2, <1>3, <1>4, <1>5 DEF Next

(* What a section or a run remembers stays within the pipeline.            *)
LEMMA ShapeStep ==
  ASSUME ~IntakeEnabled, TypeInv, DeadlineInv, ShapeInv, Step
  PROVE  ShapeInv'
<1> USE DEF TypeInv, TypeOK
<1>1. CASE SectionLooks
  <2>2. /\ IsDueBlocked => row.blockedFromStatus \in Resumable
        /\ row.status \in InProgressStatuses => row.status \in Resumable
        /\ \A s \in ActivePipeline : s # "qa" /\ InProgress(s) \in Resumable
    BY StageStatus DEF IsDueBlocked, DeadlineInv, InWindow, Resumable,
       ActivePipeline, QaEnabled
  <2>3. "plan_ready" \in Resumable
    BY DEF Resumable
  <2> QED  BY <1>1, <2>2, <2>3 DEF SectionLooks, ShapeInv, Working
<1>2. CASE SectionWrites
  BY <1>2 DEF SectionWrites, ShapeInv, Working
<1>3. ASSUME NEW i \in Slots, SectionStarts(i) PROVE ShapeInv'
  BY <1>3 DEF SectionStarts, ShapeInv, Working
<1>4. ASSUME NEW i \in Slots, RunStep(i) PROVE ShapeInv'
  <2>1. /\ runs'[i].at \in {"running", "returned", "gate"} =>
             runs'[i].stage # "qa"
        /\ runs'[i].at = "gate" => runs'[i].stage = "reviewer"
    BY <1>4 DEF RunStep, RunLooks, RunWrites, RunEnds, ShapeInv, Working
  <2>2. UNCHANGED js /\ \A j \in Slots \ {i} : runs'[j] = runs[j]
    BY <1>4 DEF RunStep
  <2> QED  BY <2>1, <2>2 DEF ShapeInv, Working
<1>5. CASE HumanStep
  BY <1>5 DEF HumanStep, ShapeInv, Working
<1>6. CASE Stops \/ Pauses
  BY <1>6 DEF Stops, Pauses, ShapeInv, Working
<1> QED  BY <1>1, <1>2, <1>3, <1>4, <1>5, <1>6 DEF Step

-----------------------------------------------------------------------------
(* Done is earned.  A closed status also survives as the status a row was  *)
(* blocked from and as the status a planner's run keeps for its terminal   *)
(* block, and a row may carry it into implementing, where the start of the *)
(* implementer takes the verdict back.                                     *)
EarnedInv ==
  /\ \/ row.status \in Closed
     \/ row.blockedFromStatus \in Closed /\ row.status # "implementing"
     => verdict = "reviewed"
  /\ row.blockedReason = "operator_cancelled" =>
       row.blockedFromStatus \notin Closed
  /\ js.at \in {"selected", "claimed"} /\ js.stage # "implementer" =>
       ~(row.status = "implementing" /\ row.blockedFromStatus \in Closed)
  /\ \A i \in Slots : Working(i) /\ runs[i].from \in Closed =>
       verdict = "reviewed"

(* Every step keeps done earned.                                           *)
LEMMA EarnedStep ==
  ASSUME ~IntakeEnabled, TypeInv, ClaimInv, DeadlineInv, ShapeInv, EarnedInv,
         Step
  PROVE  EarnedInv'
<1> USE DEF TypeInv, TypeOK
<1>0. Resumable \cap Closed = {} /\ "blocked_external" \notin Closed
      /\ \A s \in Stages : InProgress(s) \notin Closed
                           /\ (InProgress(s) = "implementing" => s = "implementer")
  BY DEF Resumable, InProgressStatuses, Closed, InProgress, Stages
<1>1. CASE SectionLooks
  <2>1. js'.at \in {"selected", "claimed"} /\ js'.stage # "implementer" =>
          ~(row.status = "implementing" /\ row.blockedFromStatus \in Closed)
    BY <1>0, <1>1 DEF SectionLooks, EarnedInv, ActivePipeline
  <2> QED  BY <1>1, <2>1 DEF SectionLooks, EarnedInv, Working
<1>2. CASE SectionWrites
  <2>1. /\ \/ row'.status \in Closed
           \/ row'.blockedFromStatus \in Closed /\ row'.status # "implementing"
           => verdict' = "reviewed"
        /\ row'.blockedReason = "operator_cancelled" =>
             row'.blockedFromStatus \notin Closed
    BY <1>0, <1>2 DEF SectionWrites, Fields, EarnedInv, ShapeInv, Closed
  <2> QED  BY <1>2, <2>1 DEF SectionWrites, EarnedInv, Working
<1>3. ASSUME NEW i \in Slots, SectionStarts(i) PROVE EarnedInv'
  <2>1. \A j \in Slots \ {i} : runs'[j].at = "none"
    BY <1>3 DEF SectionStarts, ClaimInv, NoLiveRun, Live
  <2>2. js.stage \in Stages
    BY DEF JsSections
  <2>3. CASE IsOperatorCancelled(row) /\ row' = row
    <3>1. row.blockedFromStatus \notin Closed /\ row.status \notin Closed
      BY <2>3 DEF IsOperatorCancelled, EarnedInv, Closed
    <3>2. runs'[i].from \notin Closed
      BY <1>3, <2>3, <3>1 DEF SectionStarts, Closed
    <3> QED  BY <1>3, <2>1, <2>3, <3>1, <3>2 DEF SectionStarts, EarnedInv, Working
  <2>4. CASE Fields(row', InProgress(js.stage), row.blockedFromStatus,
                    row.blockedReason, row.reworkRequested)
    <3>1. \/ row'.status \in Closed
          \/ row'.blockedFromStatus \in Closed /\ row'.status # "implementing"
          => verdict' = "reviewed"
      <4>1. CASE js.stage = "implementer"
        BY <2>4, <4>1 DEF Fields, Closed, InProgress
      <4>2. CASE js.stage # "implementer"
        BY <1>0, <1>3, <2>2, <2>4, <4>2 DEF SectionStarts, Fields, EarnedInv
      <4> QED  BY <4>1, <4>2
    <3>2. runs'[i].from \in Closed => verdict' = "reviewed"
      <4>1. CASE js.stage = "planner"
        BY <1>3, <2>4, <3>1, <4>1 DEF SectionStarts, Fields, InProgress
      <4>2. CASE js.stage # "planner"
        BY <1>3, <4>2 DEF SectionStarts, Closed
      <4> QED  BY <4>1, <4>2
    <3> QED
      BY <1>3, <2>1, <2>4, <3>1, <3>2 DEF SectionStarts, Fields, EarnedInv, Working
  <2> QED  BY <1>3, <2>3, <2>4 DEF SectionStarts
<1>4. ASSUME NEW i \in Slots, RunStep(i) PROVE EarnedInv'
  <2>1. runs[i].stage \in Stages /\ js'.at = "idle"
        /\ \A j \in Slots \ {i} : runs'[j] = runs[j]
    BY <1>4 DEF RunStep, Run0
  <2>2. CASE RunLooks(i)
    BY <2>1, <2>2 DEF RunLooks, EarnedInv, Working
  <2>3. CASE RunWrites(i)
    <3>1. runs[i].from \in Closed => verdict = "reviewed"
      BY <2>3 DEF RunWrites, EarnedInv, Working
    <3>2. /\ \/ row'.status \in Closed
             \/ row'.blockedFromStatus \in Closed /\ row'.status # "implementing"
             => verdict = "reviewed"
          /\ row'.blockedReason = "operator_cancelled" =>
               row'.blockedFromStatus \notin Closed
      BY <1>0, <2>1, <2>3, <3>1
         DEF RunWrites, RunnerLeaves, Fields, EarnedInv, Closed
    <3> QED  BY <2>1, <2>3, <3>2 DEF RunWrites, EarnedInv, Working, Closed
  <2>4. CASE RunEnds(i)
    <3>1. verdict = "reviewed" => verdict' = "reviewed"
      BY <2>4 DEF RunEnds
    <3>2. /\ \/ row'.status \in Closed
             \/ row'.blockedFromStatus \in Closed /\ row'.status # "implementing"
             => verdict' = "reviewed"
          /\ row'.blockedReason = "operator_cancelled" =>
               row'.blockedFromStatus \notin Closed
      BY <1>0, <2>1, <2>4
         DEF RunEnds, EndBlocks, EndRepeats, EndReworks, EndReplans, EndAdvances,
             Fields, EarnedInv, Closed
    <3> QED  BY <2>1, <2>4, <3>1, <3>2 DEF RunEnds, EarnedInv, Working
  <2> QED  BY <1>4, <2>2, <2>3, <2>4 DEF RunStep
<1>5. CASE HumanStep
  <2>1. verdict = "reviewed" => verdict' = "reviewed"
    BY <1>5 DEF HumanStep, HumanCloses
  <2>2. /\ \/ row'.status \in Closed
           \/ row'.blockedFromStatus \in Closed /\ row'.status # "implementing"
           => verdict' = "reviewed"
        /\ row'.blockedReason = "operator_cancelled" =>
             row'.blockedFromStatus \notin Closed
    BY <1>5 DEF HumanStep, HumanKeeps, HumanBlocks, HumanMoves, HumanCloses,
                NextStatusForOperatorCloseout, Fields, EarnedInv, Closed
  <2>3. ~(row.status = "implementing" /\ row.blockedFromStatus \in Closed) =>
        ~(row'.status = "implementing" /\ row'.blockedFromStatus \in Closed)
    BY <1>5 DEF HumanStep, HumanKeeps, HumanBlocks, HumanMoves, HumanCloses,
                Fields, Closed
  <2> QED  BY <1>5, <2>1, <2>2, <2>3 DEF HumanStep, EarnedInv, Working
<1>6. CASE Stops \/ Pauses
  BY <1>6 DEF Stops, Pauses, EarnedInv, Working
<1> QED  BY <1>1, <1>2, <1>3, <1>4, <1>5, <1>6 DEF Step

(* At first the task is in the backlog, and nobody works on it.            *)
LEMMA InitFields ==
  ASSUME Init
  PROVE  /\ Fields(row, "backlog", "none", "none", FALSE)
         /\ js.at = "idle" /\ \A i \in Slots : runs[i].at = "none"
<1>1. \A a \in BOOLEAN :
        [status |-> "backlog", autoMode |-> a,
         blockedReason |-> "none", blockedFromStatus |-> "none",
         retryAfter |-> FALSE, retryCount |-> 0,
         reworkRequested |-> FALSE,
         manualReviewRequired |-> FALSE, paused |-> FALSE] \in TaskRows
  BY RetryCapAssumption DEF TaskRows, Statuses, BlockedReasons, RetryCounts
<1>2. Fields(row, "backlog", "none", "none", FALSE)
  BY <1>1, CleanFields DEF Init, Statuses
<1> QED  BY <1>2 DEF Init, NoRun, JsIdle

(* The invariants that all of the following rest on.                       *)
BaseInv == TypeInv /\ ClaimInv /\ DeadlineInv /\ ShapeInv

(* They hold at first,                                                     *)
LEMMA BaseInit == Init => BaseInv
  BY TypeInit, ClaimInit, DeadlineInit, InitFields DEF BaseInv, ShapeInv, Working

(* and every step keeps them.                                              *)
LEMMA BaseStep ==
  ASSUME ~IntakeEnabled, BaseInv, [Next]_vars
  PROVE  BaseInv' /\ Step
<1>1. TypeInv /\ ClaimInv /\ DeadlineInv /\ ShapeInv
  BY DEF BaseInv
<1>2. Step
  BY <1>1, Steps
<1>3. TypeInv' /\ ClaimInv' /\ DeadlineInv' /\ ShapeInv'
  BY <1>1, <1>2, TypeStep, ClaimStep, DeadlineStep, ShapeStep
<1> QED  BY <1>2, <1>3 DEF BaseInv

(* Without requirements intake, a task is done or verified, or blocked on  *)
(* its way from there, only after the review gate accepted the newest      *)
(* implementation (or its evidence did, where review is skipped), whatever *)
(* people, the watchdog and late runs wrote meanwhile.                     *)
THEOREM DoneIsEarned ==
  ASSUME ~IntakeEnabled
  PROVE  Spec => []DoneEarned
<1>1. Init => BaseInv /\ EarnedInv
  BY BaseInit, InitFields DEF EarnedInv, Fields, Closed, Working
<1>2. BaseInv /\ EarnedInv /\ [Next]_vars => (BaseInv /\ EarnedInv)'
  BY BaseStep, EarnedStep DEF BaseInv
<1>3. EarnedInv => DoneEarned
  BY DEF EarnedInv, DoneEarned, Closed, QaEnabled
<1> QED  BY <1>1, <1>2, <1>3, PTL DEF Spec

-----------------------------------------------------------------------------
(* Work and closed tasks.  While a section or a run is under way the row   *)
(* is not closed, nor can anything remembered bring it back to closed.     *)
Busy == js.at # "idle" \/ \E i \in Slots : Working(i)

WorkInv ==
  /\ row.blockedFromStatus \in Closed => row.status = "blocked_external"
  /\ Busy => row.status \notin Closed /\ row.blockedFromStatus \notin Closed
  /\ \A i \in Slots : Working(i) => runs[i].from \notin Closed

(* The end of a run leaves nobody at work.                                 *)
LEMMA EndIsIdle ==
  ASSUME ClaimInv, NEW i \in Slots, RunStep(i), RunEnds(i)
  PROVE  ~Busy' /\ \A j \in Slots : ~Working(j)'
<1>1. \A j \in Slots \ {i} : runs[j].at = "none"
  BY DEF RunEnds, Working, ClaimInv, ExclusiveRun, Live
<1> QED  BY <1>1 DEF RunStep, RunEnds, Busy, Working

(* A run that goes on keeps the agent busy, and was at work before.        *)
LEMMA RunIsBusy ==
  ASSUME NEW i \in Slots, RunStep(i), RunLooks(i) \/ RunWrites(i)
  PROVE  /\ \A j \in Slots : Working(j)' => Working(j)
         /\ Busy' => Busy
  BY DEF RunStep, RunLooks, RunWrites, Busy, Working

(* Every step keeps work and closed tasks apart.                           *)
LEMMA WorkStep ==
  ASSUME ~IntakeEnabled, ~SkipReview, TypeInv, ClaimInv, DeadlineInv, ShapeInv,
         WorkInv, Step
  PROVE  WorkInv'
<1> USE DEF TypeInv, TypeOK
<1>0. Resumable \cap Closed = {} /\ {"blocked_external", "none"} \cap Closed = {}
      /\ "blocked_external" \notin Resumable
      /\ \A s \in Stages : InProgress(s) \in Resumable
  BY StageStatus DEF Resumable, InProgressStatuses, Closed
<1>1. CASE SectionLooks
  <2>1. \A i \in Slots : Working(i)' <=> Working(i)
    BY <1>1 DEF SectionLooks, Working
  <2>2. /\ IsDueBlocked => row.blockedFromStatus \in Resumable
        /\ IsDueBlocked => row.status = "blocked_external"
        /\ InProgressStatuses \subseteq Resumable /\ "plan_ready" \in Resumable
        /\ ActivePipeline \subseteq Stages
    BY DEF IsDueBlocked, DeadlineInv, InWindow, Resumable, ActivePipeline
  <2>3. Busy' => row.status \notin Closed /\ row.blockedFromStatus \notin Closed
    BY <1>0, <1>1, <2>1, <2>2 DEF SectionLooks, WorkInv, Busy
  <2> QED  BY <1>1, <2>1, <2>3 DEF SectionLooks, WorkInv
<1>2. CASE SectionWrites
  <2>1. \A i \in Slots : Working(i)' <=> Working(i)
    BY <1>2 DEF SectionWrites, Working
  <2>2. \/ row' = row
        \/ row'.status \notin Closed /\ row'.blockedFromStatus \notin Closed
    BY <1>0, <1>2 DEF SectionWrites, Fields, ShapeInv, Closed
  <2> QED  BY <1>2, <2>1, <2>2 DEF SectionWrites, WorkInv, Busy
<1>3. ASSUME NEW i \in Slots, SectionStarts(i) PROVE WorkInv'
  <2>1. \A j \in Slots \ {i} : ~Working(j)'
    BY <1>3 DEF SectionStarts, ClaimInv, NoLiveRun, Live, Working
  <2>2. row.status \notin Closed /\ row.blockedFromStatus \notin Closed
        /\ js.stage \in Stages
    BY <1>3 DEF SectionStarts, WorkInv, Busy, JsSections
  <2>3. row'.status \notin Closed /\ row'.blockedFromStatus \notin Closed
    BY <1>0, <1>3, <2>2 DEF SectionStarts, Fields
  <2>4. runs'[i].from \notin Closed
    BY <1>3, <2>3 DEF SectionStarts, Closed
  <2> QED  BY <2>1, <2>3, <2>4 DEF WorkInv, Working
<1>4. ASSUME NEW i \in Slots, RunStep(i) PROVE WorkInv'
  <2>1. runs[i].stage \in Stages
        /\ \A j \in Slots \ {i} : runs'[j] = runs[j]
    BY <1>4 DEF RunStep, Run0
  <2>2. CASE RunLooks(i)
    BY <1>4, <2>1, <2>2, RunIsBusy DEF RunLooks, WorkInv, Working
  <2>3. CASE RunWrites(i)
    <3>1. row.status \notin Closed /\ row.blockedFromStatus \notin Closed
          /\ runs[i].from \notin Closed
      BY <2>3 DEF RunWrites, WorkInv, Busy, Working
    <3>2. row'.status \notin Closed /\ row'.blockedFromStatus \notin Closed
      BY <1>0, <2>1, <2>3, <3>1 DEF RunWrites, RunnerLeaves, Fields, Closed
    <3>3. runs'[i].from \notin Closed
      BY <2>3 DEF RunWrites, Closed
    <3> QED  BY <2>1, <3>2, <3>3 DEF WorkInv, Working
  <2>4. CASE RunEnds(i)
    <3>1. row'.blockedFromStatus \in Closed => row'.status = "blocked_external"
      BY <1>0, <2>1, <2>4
         DEF RunEnds, EndBlocks, EndRepeats, EndReworks, EndReplans, EndAdvances,
             Fields, WorkInv, Closed
    <3> QED  BY <1>4, <2>4, <3>1, EndIsIdle DEF WorkInv
  <2> QED  BY <1>4, <2>2, <2>3, <2>4 DEF RunStep
<1>5. CASE HumanStep
  <2>1. UNCHANGED <<js, runs>>
    BY <1>5 DEF HumanStep
  <2>2. row'.blockedFromStatus \in Closed => row'.status = "blocked_external"
    BY <1>5 DEF HumanStep, HumanKeeps, HumanBlocks, HumanCloses, Fields, WorkInv,
                Closed
  <2>3. row.status \notin Closed /\ row.blockedFromStatus \notin Closed =>
        row'.status \notin Closed /\ row'.blockedFromStatus \notin Closed
    BY <1>5 DEF HumanStep, HumanKeeps, HumanBlocks, HumanMoves, HumanCloses,
                NextStatusForOperatorCloseout, Fields, Closed
  <2> QED  BY <2>1, <2>2, <2>3 DEF WorkInv, Busy, Working
<1>6. CASE Stops \/ Pauses
  BY <1>6 DEF Stops, Pauses, WorkInv, Busy, Working
<1> QED  BY <1>1, <1>2, <1>3, <1>4, <1>5, <1>6 DEF Step

(* At first nobody works and nothing is closed.                            *)
LEMMA WorkInit == Init => WorkInv
  BY InitFields DEF WorkInv, Fields, Closed, Busy, Working

(* With a review of every implementation and without requirements intake,  *)
(* no stage works on a task that is done, for any number of run slots:     *)
(* nothing can still change what was approved.                             *)
THEOREM NothingWorksAfterDone ==
  ASSUME ~IntakeEnabled, ~SkipReview
  PROVE  Spec => []NoWorkAfterDone
<1>1. Init => BaseInv /\ WorkInv
  BY BaseInit, WorkInit
<1>2. BaseInv /\ WorkInv /\ [Next]_vars => (BaseInv /\ WorkInv)'
  BY BaseStep, WorkStep DEF BaseInv
<1>3. BaseInv /\ WorkInv => NoWorkAfterDone
  BY DEF BaseInv, TypeInv, TypeOK, Run0, WorkInv, NoWorkAfterDone, Closed, Busy,
         Working
<1> QED  BY <1>1, <1>2, <1>3, PTL DEF Spec

(* Only a work-blocking configuration takes a task out of verified: without*)
(* one, and with a review of every implementation, neither a stale section *)
(* of the agent, nor a late run, nor a human event does.                   *)
THEOREM VerifiedIsTerminal ==
  ASSUME ~IntakeEnabled, ~SkipReview, ~ConfigBlockers
  PROVE  Spec => VerifiedTerminal
<1>1. Init => BaseInv /\ WorkInv
  BY BaseInit, WorkInit
<1>2. BaseInv /\ WorkInv /\ [Next]_vars => (BaseInv /\ WorkInv)'
  BY BaseStep, WorkStep DEF BaseInv
<1>3. BaseInv /\ WorkInv /\ [Next]_vars
        => [row.status = "verified" => row'.status = "verified"]_vars
  <2> SUFFICES ASSUME BaseInv, WorkInv, [Next]_vars, row.status = "verified"
               PROVE  row'.status = "verified"
    OBVIOUS
  <2>1. Step
    BY BaseStep
  <2>2. js.at = "idle" /\ \A i \in Slots : ~Working(i)
    BY DEF WorkInv, Busy, Closed
  <2>3. ConfigBlockers # TRUE
    BY LifecycleAssumption
  <2>4. CASE SectionLooks \/ SectionWrites \/ \E i \in Slots : SectionStarts(i)
    BY <2>2, <2>4 DEF SectionLooks, SectionWrites, SectionStarts
  <2>5. CASE \E i \in Slots : RunStep(i)
    BY <2>2, <2>5 DEF RunStep, RunLooks, RunWrites, RunEnds, Working
  <2>6. CASE HumanStep
    BY <2>3, <2>6 DEF HumanStep, HumanKeeps, HumanBlocks, HumanMoves, HumanCloses,
                      Fields
  <2>7. CASE Stops \/ Pauses
    BY <2>7 DEF Stops, Pauses
  <2> QED  BY <2>1, <2>4, <2>5, <2>6, <2>7 DEF Step
<1> QED  BY <1>1, <1>2, <1>3, PTL DEF Spec, VerifiedTerminal

-----------------------------------------------------------------------------
(* Holds.  Nobody is at work on a task that waits for an operator's input: *)
(* the end of the run that made the hold was its last step, and a paused   *)
(* row is not listed.                                                      *)
HoldInv ==
  row.status = "blocked_external" /\ row.blockedReason = "operator_input"
    => ~Busy

(* Every step keeps holds without work.                                    *)
LEMMA HoldStep ==
  ASSUME ~IntakeEnabled, TypeInv, ClaimInv, OperatorInputHold, HoldInv, Step
  PROVE  HoldInv'
<1> USE DEF TypeInv, TypeOK
<1>0. \A s \in Stages : InProgress(s) # "blocked_external"
  BY DEF InProgress, Stages
<1>1. CASE SectionLooks
  <2>1. \A i \in Slots : Working(i)' <=> Working(i)
    BY <1>1 DEF SectionLooks, Working
  <2>2. js'.at = "due" => ~row.paused = TRUE
    BY <1>1 DEF SectionLooks, IsDueBlocked
  <2>3. js'.at \in {"stale", "selected"} => row.status # "blocked_external"
    BY <1>0, <1>1 DEF SectionLooks, ActivePipeline, InProgressStatuses
  <2>4. js'.at \in {"idle", "due", "stale", "selected", "claimed"}
    BY <1>1 DEF SectionLooks
  <2> QED  BY <1>1, <2>1, <2>2, <2>3, <2>4
              DEF SectionLooks, HoldInv, Busy, OperatorInputHold
<1>2. CASE SectionWrites
  BY <1>2 DEF SectionWrites, Fields, HoldInv, Busy, Working
<1>3. ASSUME NEW i \in Slots, SectionStarts(i) PROVE HoldInv'
  <2>1. js.stage \in Stages
    BY DEF JsSections
  <2> QED  BY <1>0, <1>3, <2>1 DEF SectionStarts, Fields, IsOperatorCancelled, HoldInv
<1>4. ASSUME NEW i \in Slots, RunStep(i) PROVE HoldInv'
  <2>1. CASE RunLooks(i)
    BY <1>4, <2>1, RunIsBusy DEF RunLooks, HoldInv
  <2>2. CASE RunWrites(i)
    BY <2>2 DEF RunWrites, RunnerLeaves, Fields, HoldInv, Busy, Working
  <2>3. CASE RunEnds(i)
    BY <1>4, <2>3, EndIsIdle DEF HoldInv
  <2> QED  BY <1>4, <2>1, <2>2, <2>3 DEF RunStep
<1>5. CASE HumanStep
  BY <1>5 DEF HumanStep, HumanKeeps, HumanBlocks, HumanMoves, HumanCloses,
              Fields, HoldInv, Busy, Working
<1>6. CASE Stops \/ Pauses
  BY <1>6 DEF Stops, Pauses, HoldInv, Busy, Working
<1> QED  BY <1>1, <1>2, <1>3, <1>4, <1>5, <1>6 DEF Step

(* Without requirements intake, no section and no run of the agent moves a *)
(* row that waits for an operator's input, however late it comes: the hold *)
(* is left to people.                                                      *)
THEOREM HoldsAreLeft ==
  ASSUME ~IntakeEnabled
  PROVE  Spec => HoldLeftToHuman
<1>1. Init => BaseInv /\ HoldInv
  BY BaseInit, InitFields DEF HoldInv, Fields
<1>2. OperatorInputHold /\ BaseInv /\ HoldInv /\ [Next]_vars
        => (BaseInv /\ HoldInv)'
  BY BaseStep, HoldStep DEF BaseInv
<1>3. BaseInv /\ HoldInv /\ [Next]_vars
        => [row.status = "blocked_external" /\ row.blockedReason = "operator_input"
              /\ AgentStep => row' = row]_vars
  <2> SUFFICES ASSUME BaseInv, HoldInv, [Next]_vars,
                      row.status = "blocked_external",
                      row.blockedReason = "operator_input", AgentStep
               PROVE  row' = row
    OBVIOUS
  <2>1. Step
    BY BaseStep
  <2>2. js.at = "idle" /\ \A i \in Slots : ~Working(i)
    BY DEF HoldInv, Busy
  <2>3. CASE SectionLooks \/ SectionWrites \/ \E i \in Slots : SectionStarts(i)
    BY <2>2, <2>3 DEF SectionLooks, SectionWrites, SectionStarts
  <2>4. CASE \E i \in Slots : RunStep(i)
    BY <2>2, <2>4 DEF RunStep, RunLooks, RunWrites, RunEnds, Working
  <2>5. CASE HumanStep
    BY <2>5 DEF HumanStep, AgentStep
  <2>6. CASE Stops \/ Pauses
    BY <2>6 DEF Stops, Pauses
  <2> QED  BY <2>1, <2>3, <2>4, <2>5, <2>6 DEF Step
<1> QED  BY <1>1, <1>2, <1>3, HoldNormalised, PTL DEF Spec, HoldLeftToHuman

-----------------------------------------------------------------------------
(* Rework.  A rework request is with the implementer, in what sections and *)
(* runs remember as well: whoever would move the row elsewhere listed or   *)
(* started it when there was no request, and a new one is made only by the *)
(* implementer's own run, by the end of a review, or by a human while      *)
(* nobody works on the task.                                               *)
ReworkInv ==
  /\ ReworkScope
  /\ \/ js.at \in {"stale", "selected", "claimed"} /\ js.status # "implementing"
     \/ js.at = "due" /\ js.from # "implementing"
     \/ \E i \in Slots : Working(i) /\ runs[i].stage # "implementer"
     => ~row.reworkRequested
  /\ \A i \in Slots : runs[i].at = "running" /\ row.reworkRequested
                        => row.status = "implementing"
  /\ Busy => row.blockedReason # "malformed_review"
  /\ row.blockedReason = "malformed_review" =>
       row.status = "blocked_external" /\ ~row.retryAfter
  /\ row.blockedReason = "operator_cancelled" => ~row.reworkRequested

(* Every step keeps rework with the implementer.                           *)
LEMMA ReworkStep ==
  ASSUME ~IntakeEnabled, ~SkipReview, ~ConfigBlockers, TypeInv, TypeInv',
         ClaimInv, DeadlineInv, ShapeInv, WorkInv, ReworkInv, Step
  PROVE  ReworkInv'
<1> USE DEF TypeInv, TypeOK
<1>0. /\ \A s \in Stages : /\ InProgress(s) # "blocked_external"
                           /\ InProgress(s) = "implementing" <=> s = "implementer"
      /\ row.reworkRequested \in BOOLEAN /\ row'.reworkRequested \in BOOLEAN
      /\ row.retryAfter \in BOOLEAN /\ row'.retryAfter \in BOOLEAN
      /\ js.stage \in Stages /\ \A i \in Slots : runs[i].stage \in Stages
  BY DEF InProgress, Stages, TaskRows, JsSections, Run0
<1>1. CASE SectionLooks
  <2>1. \A i \in Slots : Working(i)' <=> Working(i)
    BY <1>1 DEF SectionLooks, Working
  <2>2. js'.at \in {"stale", "selected"} =>
          js'.status = row.status /\ row.status # "blocked_external"
    BY <1>0, <1>1 DEF SectionLooks, ActivePipeline, InProgressStatuses
  <2>3. js'.at = "due" => /\ js'.from = row.blockedFromStatus
                          /\ row.status = "blocked_external"
                          /\ row.retryAfter = TRUE
    BY <1>0, <1>1 DEF SectionLooks, IsDueBlocked
  <2>4. js'.at = "claimed" => js.at = "selected" /\ js'.status = js.status
    BY <1>1 DEF SectionLooks
  <2>5. js'.at \in {"idle", "due", "stale", "selected", "claimed"}
    BY <1>1 DEF SectionLooks
  <2>6. /\ js'.at \in {"stale", "selected", "claimed"} /\ js'.status # "implementing"
             => ~row.reworkRequested
        /\ js'.at = "due" /\ js'.from # "implementing" => ~row.reworkRequested
    BY <2>2, <2>3, <2>4 DEF ReworkInv, ReworkScope
  <2>7. Busy' => row.blockedReason # "malformed_review"
    BY <2>1, <2>2, <2>3, <2>4, <2>5 DEF ReworkInv, Busy
  <2> QED  BY <1>1, <2>1, <2>6, <2>7 DEF SectionLooks, ReworkInv, ReworkScope
<1>2. CASE SectionWrites
  <2>1. \A i \in Slots : Working(i)' <=> Working(i)
    BY <1>2 DEF SectionWrites, Working
  <2>2. runs' = runs /\ js'.at = "idle"
    BY <1>2 DEF SectionWrites
  <2>3. CASE row' = row
    BY <2>1, <2>2, <2>3 DEF ReworkInv, ReworkScope, Busy
  <2>4. CASE /\ js.at = "due"
             /\ Fields(row', js.from, "none", "none", row.reworkRequested)
    <3>1. row'.reworkRequested => row'.status = "implementing"
      BY <2>4 DEF Fields, ReworkInv
    <3> QED  BY <2>1, <2>2, <2>4, <3>1 DEF Fields, ReworkInv, ReworkScope, Busy
  <2>5. CASE /\ js.at \in {"stale", "selected", "claimed"}
             /\ Fields(row', "blocked_external", js.status, "other",
                       row.reworkRequested)
    <3>1. row'.reworkRequested => row'.blockedFromStatus = "implementing"
      BY <2>5 DEF Fields, ReworkInv
    <3>2. \A i \in Slots : runs[i].at = "none"
      BY <2>5 DEF ClaimInv, NoLiveRun, Live
    <3> QED  BY <2>2, <2>5, <3>1, <3>2 DEF Fields, ReworkInv, ReworkScope, Working
  <2>6. CASE js.at = "idle" /\ Fields(row', "planning", "none", "none", FALSE)
    BY <2>2, <2>6 DEF Fields, ReworkInv, ReworkScope
  <2> QED  BY <1>2, <2>3, <2>4, <2>5, <2>6 DEF SectionWrites
<1>3. ASSUME NEW i \in Slots, SectionStarts(i) PROVE ReworkInv'
  <2>1. \A j \in Slots \ {i} : runs'[j].at = "none"
    BY <1>3 DEF SectionStarts, ClaimInv, NoLiveRun, Live
  <2>2. /\ js'.at = "idle" /\ js.at = "claimed"
        /\ runs'[i].at = "running" /\ runs'[i].stage = js.stage
    BY <1>3 DEF SectionStarts
  <2>3. row.reworkRequested => js.stage = "implementer"
    BY <1>0, <2>2 DEF ReworkInv, ShapeInv
  <2>4. row.blockedReason # "malformed_review"
    BY <2>2 DEF ReworkInv, Busy
  <2>5. CASE IsOperatorCancelled(row) /\ row' = row
    <3>1. row.reworkRequested = FALSE
      BY <1>0, <2>5 DEF IsOperatorCancelled, ReworkInv
    <3> QED  BY <2>2, <2>4, <2>5, <3>1 DEF ReworkInv, ReworkScope
  <2>6. CASE Fields(row', InProgress(js.stage), row.blockedFromStatus,
                    row.blockedReason, row.reworkRequested)
    <3>1. row'.reworkRequested => row'.status = "implementing"
      BY <1>0, <2>3, <2>6 DEF Fields
    <3>2. row'.blockedReason = "operator_cancelled" => ~row'.reworkRequested
      BY <2>6 DEF Fields, ReworkInv
    <3> QED  BY <2>1, <2>2, <2>3, <2>4, <2>6, <3>1, <3>2
                DEF Fields, ReworkInv, ReworkScope, Working
  <2> QED  BY <1>3, <2>5, <2>6 DEF SectionStarts
<1>4. ASSUME NEW i \in Slots, RunStep(i) PROVE ReworkInv'
  <2>1. /\ js'.at = "idle" /\ \A j \in Slots \ {i} : runs'[j] = runs[j]
    BY <1>4 DEF RunStep
  <2>2. CASE RunLooks(i)
    <3>1. \A j \in Slots : /\ Working(j)' => Working(j) /\ runs'[j].stage = runs[j].stage
                           /\ runs'[j].at = "running" => runs[j].at = "running"
      BY <2>1, <2>2 DEF RunLooks, Working
    <3> QED  BY <1>4, <2>1, <2>2, <3>1, RunIsBusy
                DEF RunLooks, ReworkInv, ReworkScope
  <2>3. CASE RunWrites(i)
    <3>1. \A j \in Slots \ {i} : runs'[j].at = "none"
      BY <2>1, <2>3 DEF RunWrites, ClaimInv, ExclusiveRun, Live
    <3>2. /\ runs[i].at = "running" /\ Working(i) /\ Busy
          /\ runs'[i].at = "returned" /\ runs'[i].stage = runs[i].stage
      BY <2>3 DEF RunWrites, Working, Busy
    <3>3. /\ row.reworkRequested =>
               runs[i].stage = "implementer" /\ row.status = "implementing"
          /\ row.blockedReason # "malformed_review"
          /\ row.blockedReason = "operator_cancelled" => ~row.reworkRequested
      BY <3>2 DEF ReworkInv
    <3>4. RunnerLeaves(runs[i])
      BY <2>3 DEF RunWrites
    <3>5. /\ row'.blockedReason # "malformed_review"
          /\ row'.blockedReason = "operator_cancelled" => ~row'.reworkRequested
          /\ ReworkScope'
          /\ runs[i].stage # "implementer" => ~row'.reworkRequested
      BY <3>3, <3>4 DEF RunnerLeaves, Fields, ReworkScope
    <3> QED  BY <2>1, <3>1, <3>2, <3>5 DEF ReworkInv, Working
  <2>4. CASE RunEnds(i)
    <3>1. ~Busy' /\ \A j \in Slots : ~Working(j)'
      BY <1>4, <2>4, EndIsIdle
    <3>2. \A j \in Slots : runs'[j].at # "running"
      BY <3>1 DEF Working
    <3>3. runs[i].stage # "implementer" => ~row.reworkRequested
      BY <2>4 DEF RunEnds, ReworkInv
    <3>4. /\ ReworkScope'
          /\ row'.blockedReason = "malformed_review" =>
               row'.status = "blocked_external" /\ ~row'.retryAfter
          /\ row'.blockedReason = "operator_cancelled" => ~row'.reworkRequested
      <4>1. CASE row' = row
        BY <4>1 DEF ReworkInv, ReworkScope
      <4>2. CASE EndBlocks(runs[i])
        BY <1>0, <3>3, <4>2 DEF EndBlocks, Fields, ReworkScope
      <4>3. CASE EndRepeats(runs[i])
        BY <1>0, <3>3, <4>3 DEF EndRepeats, Fields, ReworkScope
      <4>4. CASE EndReworks(runs[i])
        BY <4>4 DEF EndReworks, Fields, ReworkScope
      <4>5. CASE EndReplans(runs[i])
        BY <3>3, <4>5 DEF EndReplans, Fields, ReworkScope
      <4>6. CASE EndAdvances \/ Fields(row', "done", "none", "none", FALSE)
        BY <4>6 DEF EndAdvances, Fields, ReworkScope
      <4> QED  BY <2>4, <4>1, <4>2, <4>3, <4>4, <4>5, <4>6 DEF RunEnds
    <3> QED  BY <2>1, <3>1, <3>2, <3>4 DEF ReworkInv
  <2> QED  BY <1>4, <2>2, <2>3, <2>4 DEF RunStep
<1>5. CASE HumanStep
  <2>1. UNCHANGED <<js, runs>>
    BY <1>5 DEF HumanStep
  <2>2. ConfigBlockers # TRUE
    BY LifecycleAssumption
  <2>3. (Busy' <=> Busy) /\ \A j \in Slots : Working(j)' <=> Working(j)
    BY <2>1 DEF Busy, Working
  <2>4. CASE HumanKeeps
    BY <1>0, <2>1, <2>3, <2>4 DEF HumanKeeps, Fields, ReworkInv, ReworkScope
  <2>5. CASE HumanBlocks
    <3>1. row'.reworkRequested = FALSE
      BY <1>0, <2>2, <2>5 DEF HumanBlocks, ReworkInv, ReworkScope
    <3> QED  BY <2>5, <3>1 DEF HumanBlocks, Fields, ReworkInv, ReworkScope
  <2>6. CASE /\ HumanMoves(row'.status)
             /\ Fields(row', row'.status, "none", "none", row'.reworkRequested)
    <3>1. CASE row'.reworkRequested = FALSE
      BY <2>6, <3>1 DEF Fields, ReworkInv, ReworkScope
    <3>2. CASE ~Busy /\ row'.status = "implementing"
      BY <2>1, <2>3, <2>6, <3>2 DEF Fields, ReworkInv, ReworkScope, Busy
    <3>3. CASE row'.reworkRequested = row.reworkRequested
               /\ row.status = "blocked_external"
               /\ row'.status = row.blockedFromStatus
      <4>1. row'.reworkRequested => row'.status = "implementing"
        BY <3>3 DEF ReworkInv, ReworkScope
      <4> QED  BY <2>1, <2>3, <2>6, <3>3, <4>1 DEF Fields, ReworkInv, ReworkScope
    <3>4. row.status = "done" => ~Busy
      BY DEF WorkInv, Closed
    <3>5. row.blockedReason = "malformed_review" => ~Busy
      BY DEF ReworkInv
    <3> QED  BY <1>0, <2>6, <3>1, <3>2, <3>3, <3>4, <3>5 DEF HumanMoves
  <2>7. CASE HumanCloses
    BY <2>7 DEF HumanCloses, Fields, ReworkInv, ReworkScope
  <2> QED  BY <1>5, <2>4, <2>5, <2>6, <2>7 DEF HumanStep
<1>6. CASE Stops
  BY <1>6 DEF Stops, ReworkInv, ReworkScope, Busy, Working
<1>7. CASE Pauses
  BY <1>7 DEF Pauses, ReworkInv, ReworkScope, Busy, Working
<1> QED  BY <1>1, <1>2, <1>3, <1>4, <1>5, <1>6, <1>7 DEF Step

(* With a review of every implementation, without requirements intake and  *)
(* without work-blocking configuration issues, a rework request lives only *)
(* while the task is with the implementer or blocked there: no stale write *)
(* and no late run carries it to a planner, to a reviewer or to done.      *)
THEOREM ReworkStaysInScope ==
  ASSUME ~IntakeEnabled, ~SkipReview, ~ConfigBlockers
  PROVE  Spec => []ReworkScope
<1>1. Init => BaseInv /\ WorkInv /\ ReworkInv
  <2>1. Init => ReworkInv
    BY InitFields DEF ReworkInv, ReworkScope, Fields, Busy, Working
  <2> QED  BY <2>1, BaseInit, WorkInit
<1>2. BaseInv /\ WorkInv /\ ReworkInv /\ [Next]_vars
        => (BaseInv /\ WorkInv /\ ReworkInv)'
  <2> SUFFICES ASSUME BaseInv, WorkInv, ReworkInv, [Next]_vars
               PROVE  BaseInv' /\ WorkInv' /\ ReworkInv'
    OBVIOUS
  <2>1. BaseInv' /\ Step
    BY BaseStep
  <2> QED  BY <2>1, WorkStep, ReworkStep DEF BaseInv
<1>3. ReworkInv => ReworkScope
  BY DEF ReworkInv
<1> QED  BY <1>1, <1>2, <1>3, PTL DEF Spec

-----------------------------------------------------------------------------
(* Closed tasks with requirements intake.  Questions keep the origin of a  *)
(* row and an answer resumes it anywhere, so more is remembered: an open   *)
(* row carries no closed status at all, and nobody is at work on any other *)
(* row.  Where no question comes through the API and one run of the task   *)
(* is alive at a time (a global cap of one), that is inductive.            *)
OpenRow(r) == r.status \notin Closed /\ r.blockedFromStatus \notin Closed

SettledRow(r) ==
  r.blockedFromStatus \in Closed =>
    r.status = "blocked_external" /\ r.retryAfter = FALSE

Approval == IF QaEnabled THEN "qa_accepted" ELSE "reviewed"

OpenInv ==
  /\ SettledRow(row)
  /\ ~OpenRow(row) => verdict = Approval
  /\ Busy => OpenRow(row)
  /\ js.at # "idle" => js.from \notin Closed /\ js.status \notin Closed
  /\ js.at \in {"selected", "claimed"} => js.stage \in ActivePipeline
  /\ \A i \in Slots : Working(i) =>
       runs[i].from \notin Closed /\ runs[i].stage \in ActivePipeline

(* An open row is settled, and storing a row changes neither.              *)
LEMMA StoredOpen ==
  ASSUME NEW new \in TaskRows
  PROVE  /\ OpenRow(new) => SettledRow(new)
         /\ OpenRow(SetTaskFields(new)) <=> OpenRow(new)
         /\ SettledRow(new) => SettledRow(SetTaskFields(new))
  BY DEF SetTaskFields, OpenRow, SettledRow, TaskRows, Closed

(* A clean row, a block or an evidence block is as open as the status it   *)
(* names.                                                                  *)
LEMMA WrittenOpen ==
  ASSUME NEW r \in TaskRows, NEW t \in Statuses, t \notin Closed
  PROVE  /\ OpenRow(CleanTo(r, t))
         /\ \A q, n : /\ OpenRow(Block(r, q, t, n))
                      /\ OpenRow(ManualBlock(r, q, t, n))
         /\ \A new \in EvidenceBlocks(r, t) : OpenRow(new)
<1>1. OpenRow(CleanTo(r, t))
  BY CleanFields DEF Fields, OpenRow, Closed
<1>2. ASSUME NEW q, NEW n
      PROVE  OpenRow(Block(r, q, t, n)) /\ OpenRow(ManualBlock(r, q, t, n))
  BY DEF Block, ManualBlock, OpenRow, TaskRows, Closed
<1>3. \A new \in EvidenceBlocks(r, t) : OpenRow(new)
  BY EvidenceFields DEF Fields, OpenRow, Closed
<1> QED  BY <1>1, <1>2, <1>3

(* The stages and their hand-over lead to no closed status, but the end of *)
(* a review and of QA.                                                     *)
LEMMA StageOpen ==
  ASSUME NEW s \in Stages
  PROVE  /\ InProgress(s) \notin Closed
         /\ s \notin {"reviewer", "qa"} => OnSuccess(s) \notin Closed
  BY DEF InProgress, OnSuccess, Stages, Closed

(* What a run writes short of an approval leaves an open row open.         *)
LEMMA RunOpen ==
  ASSUME row \in TaskRows, OpenRow(row), NEW run \in Run0, run.from \notin Closed
  PROVE  /\ \A new \in RunnerRows(run) \cup RefusedHandoffs(run)
                       \cup GateRefusals(run) \cup RecoveryRows(run)
                       \cup ClassifiedRows(run) : OpenRow(new)
         /\ OpenRow(PlanQualityRow(row, run.stage))
         /\ run.stage \notin {"reviewer", "qa"} =>
              OpenRow(SuccessRow(row, run.stage))
<1> DEFINE at == InProgress(run.stage)
<1>1. /\ run.stage \in Stages /\ run.from \in Statuses
      /\ at \in Statuses /\ at \notin Closed
  BY StageStatus, StageOpen DEF Run0
<1>2. \A q, n : /\ OpenRow(Block(row, q, at, n))
                /\ OpenRow(ManualBlock(row, q, at, n))
  BY <1>1, WrittenOpen
<1>3. {"implementing", "review", "qa"} \subseteq Statuses \ Closed
  BY DEF Statuses, Closed
<1>4. \A t \in {"implementing", "review", "qa"} :
        /\ \A q, n : OpenRow(ManualBlock(row, q, t, n))
        /\ \A new \in EvidenceBlocks(row, t) : OpenRow(new)
  BY <1>3, WrittenOpen
<1>5. ASSUME NEW new \in RunnerRows(run) PROVE OpenRow(new)
  <2>1. CASE run.stage \in {"requirements-analyst", "researcher", "designer", "qa"}
    <3>1. PICK q, n, m : new \in {Block(row, q, at, n),
                       [Block(row, q, at, n) EXCEPT !.manualReviewRequired = m]}
      BY <1>5, <2>1 DEF RunnerRows, InProgress
    <3>2. OpenRow([Block(row, q, at, n) EXCEPT !.manualReviewRequired = m])
      BY <1>1 DEF Block, OpenRow, TaskRows, Closed
    <3> QED  BY <1>2, <3>1, <3>2
  <2>2. CASE run.stage = "planner"
    BY <1>1, <2>2 DEF RunnerRows, Block, OpenRow, TaskRows, Closed
  <2>3. CASE run.stage = "implementer"
    <3>1. OpenRow(ManifestFailureRow(row, run.seen))
      BY <1>4 DEF ManifestFailureRow, OpenRow, TaskRows, Closed
    <3>2. OpenRow([row EXCEPT !.reworkRequested = FALSE])
      BY DEF OpenRow, TaskRows
    <3>3. OpenRow([Block(row, "other", "implementing", row.retryCount)
                     EXCEPT !.manualReviewRequired = FALSE,
                            !.reworkRequested = TRUE])
      BY DEF Block, OpenRow, TaskRows, Closed
    <3> QED  BY <2>3, <3>1, <3>2, <3>3 DEF RunnerRows
  <2>4. CASE run.stage \in {"plan-checker", "reviewer"}
    BY <2>4 DEF RunnerRows
  <2> QED  BY <1>1, <2>1, <2>2, <2>3, <2>4 DEF Stages
<1>6. ASSUME NEW new \in RefusedHandoffs(run) PROVE OpenRow(new)
  <2>1. \A r \in EvidenceRework(row) : OpenRow(r)
    <3> TAKE r \in EvidenceRework(row)
    <3>1. \/ r = ManualBlock(row, "manual_review", "implementing", row.retryCount)
          \/ r.status = "implementing" /\ r.blockedFromStatus = "none"
      BY DEF EvidenceRework, TaskRows
    <3> QED  BY <1>4, <3>1 DEF OpenRow, Closed
  <2> QED  BY <1>4, <1>6, <2>1 DEF RefusedHandoffs
<1>7. ASSUME NEW new \in GateRefusals(run) PROVE OpenRow(new)
  <2>1. OpenRow([Block(row, "operator_input", "review", 0)
                   EXCEPT !.reworkRequested = FALSE,
                          !.manualReviewRequired = FALSE])
    BY DEF Block, OpenRow, TaskRows, Closed
  <2>2. /\ OpenRow(ReviewLoopRow(row, "implementing"))
        /\ OpenRow(ReviewLoopRow(row, "review"))
    BY DEF ReviewLoopRow, OpenRow, TaskRows, Closed
  <2>3. \/ \E q, n : new = ManualBlock(row, q, "review", n)
        \/ new = [Block(row, "operator_input", "review", 0)
                    EXCEPT !.reworkRequested = FALSE,
                           !.manualReviewRequired = FALSE]
        \/ new \in {ReviewLoopRow(row, "implementing"), ReviewLoopRow(row, "review")}
        \/ new \in EvidenceBlocks(row, "review")
    BY <1>7 DEF GateRefusals
  <2> QED  BY <1>4, <2>1, <2>2, <2>3
<1>8. ASSUME NEW new \in RecoveryRows(run) PROVE OpenRow(new)
  <2>1. OpenRow([Block(row, "operator_input", at, row.retryCount)
                   EXCEPT !.reworkRequested = FALSE,
                          !.manualReviewRequired = FALSE])
    BY <1>1 DEF Block, OpenRow, TaskRows, Closed
  <2>2. OpenRow([row EXCEPT !.status = at, !.blockedReason = "other",
               !.blockedFromStatus = "none", !.retryAfter = FALSE,
               !.retryCount = Bump(row.retryCount), !.paused = FALSE,
               !.reworkRequested = FALSE, !.manualReviewRequired = FALSE])
    BY <1>1 DEF OpenRow, TaskRows, Closed
  <2> QED  BY <1>2, <1>8, <2>1, <2>2 DEF RecoveryRows
<1>9. ASSUME NEW new \in ClassifiedRows(run) PROVE OpenRow(new)
  <2>1. OpenRow([row EXCEPT !.status = at, !.blockedReason = "none",
                    !.blockedFromStatus = "none", !.retryAfter = FALSE])
    BY <1>1 DEF OpenRow, TaskRows, Closed
  <2>2. OpenRow([Block(row, "other", at, Bump(run.retryCount))
                   EXCEPT !.retryAfter = TRUE])
    BY <1>1 DEF Block, OpenRow, TaskRows, Closed
  <2>3. \/ \E q, n : new = Block(row, q, at, n)
        \/ new = [row EXCEPT !.status = at, !.blockedReason = "none",
                    !.blockedFromStatus = "none", !.retryAfter = FALSE]
        \/ new = [Block(row, "other", at, Bump(run.retryCount))
                   EXCEPT !.retryAfter = TRUE]
    BY <1>9 DEF ClassifiedRows
  <2> QED  BY <1>2, <2>1, <2>2, <2>3
<1>10. OpenRow(PlanQualityRow(row, run.stage))
  <2>1. OpenRow([Block(row, "plan_quality", at, Bump(row.retryCount))
                   EXCEPT !.manualReviewRequired = TRUE])
    BY <1>1 DEF Block, OpenRow, TaskRows, Closed
  <2>2. OpenRow([row EXCEPT !.status = "planning", !.blockedReason = "plan_quality",
                 !.blockedFromStatus = at, !.retryAfter = FALSE,
                 !.retryCount = row.retryCount + 1])
    BY <1>1 DEF OpenRow, TaskRows, Closed
  <2> QED  BY <2>1, <2>2 DEF PlanQualityRow
<1>11. ASSUME run.stage \notin {"reviewer", "qa"}
       PROVE  OpenRow(SuccessRow(row, run.stage))
  <2>1. PICK c \in TaskRows : c = CleanTo(row, OnSuccess(run.stage)) /\ OpenRow(c)
    BY <1>1, <1>11, StageStatus, StageOpen, WrittenOpen, CleanToType
  <2>2. OpenRow([c EXCEPT !.retryCount = row.retryCount,
                          !.blockedReason = "plan_quality",
                          !.blockedFromStatus = "plan_ready"])
    BY <2>1 DEF OpenRow, TaskRows, Closed
  <2> QED  BY <2>1, <2>2 DEF SuccessRow
<1> QED  BY <1>5, <1>6, <1>7, <1>8, <1>9, <1>10, <1>11

(* What the writes of people have in common: a settled row, and an open    *)
(* one wherever the row was open.                                          *)
Reopens(new) ==
  /\ new \in TaskRows /\ SettledRow(new)
  /\ OpenRow(row) => OpenRow(new)

(* An accepted event opens or closes a row only where the code means it.   *)
LEMMA EventOpen ==
  ASSUME row \in TaskRows, NEW e \in HumanEvents, NEW intake \in BOOLEAN,
         NEW inputRetry \in BOOLEAN, EventAllowed(row, e, intake, inputRetry)
  PROVE  Reopens(EventRow(row, e, intake)) /\ row.status # "verified"
<1> DEFINE new == EventRow(row, e, intake)
<1>0. new \in TaskRows
  BY EventRowType
<1>1. \A t \in Statuses : /\ Fields(CleanTo(row, t), t, "none", "none", FALSE)
                          /\ CleanTo(row, t) \in TaskRows
  BY CleanFields, CleanToType
<1>2. ASSUME new.blockedFromStatus = "none",
             OpenRow(row) => new.status \notin Closed
      PROVE  Reopens(new)
  BY <1>0, <1>2 DEF Reopens, SettledRow, OpenRow, Closed
<1>3. row.status # "verified"
  BY DEF EventAllowed, RetryAllowed, CancelRefused
<1>4. CASE e = "retry_from_blocked"
  <2>1. row.blockedFromStatus \in Statuses
    BY <1>4 DEF EventAllowed, RetryAllowed, TaskRows
  <2>2. PICK c \in TaskRows : /\ c = CleanTo(row, row.blockedFromStatus)
                             /\ Fields(c, row.blockedFromStatus, "none", "none", FALSE)
    BY <1>1, <2>1
  <2>3. new = [c EXCEPT !.reworkRequested = row.reworkRequested]
    BY <1>4, <2>2 DEF EventRow
  <2>4. new.blockedFromStatus = "none" /\ new.status = row.blockedFromStatus
    <3> HIDE DEF new
    <3> QED BY <2>2, <2>3 DEF Fields, TaskRows
  <2> QED  BY <1>2, <1>3, <2>4 DEF OpenRow
<1>5. CASE e = "cancel_task"
  <2>1. row.status \notin Closed
    BY <1>5 DEF EventAllowed, CancelRefused, Closed
  <2>2. PICK c \in TaskRows : c = CleanTo(row, "blocked_external")
                             /\ c.status = "blocked_external"
    BY <1>1 DEF Statuses, Fields
  <2>3. new = [c EXCEPT !.blockedReason = "operator_cancelled",
                   !.blockedFromStatus = row.status,
                   !.manualReviewRequired = TRUE, !.paused = TRUE]
    BY <1>5, <2>2 DEF EventRow
  <2>4. new.blockedFromStatus = row.status /\ new.status = "blocked_external"
    <3> HIDE DEF new
    <3> QED BY <2>2, <2>3 DEF TaskRows
  <2>5. OpenRow(new)
    BY <2>1, <2>4 DEF OpenRow, Closed
  <2> QED  BY <1>0, <1>3, <2>5, StoredOpen DEF Reopens
<1>6. CASE e = "request_changes"
  <2>2. PICK c \in TaskRows : c = CleanTo(row, "implementing")
                 /\ c.status = "implementing" /\ c.blockedFromStatus = "none"
    BY <1>1 DEF Statuses, Fields
  <2>3. new = [c EXCEPT !.reworkRequested = TRUE]
    BY <1>6, <2>2 DEF EventRow
  <2>4. new.blockedFromStatus = "none" /\ new.status = "implementing"
    <3> HIDE DEF new
    <3> QED BY <2>2, <2>3 DEF TaskRows
  <2> QED  BY <1>2, <1>3, <2>4 DEF Closed
<1>7. CASE e = "approve_done"
  <2>1. row.status = "done" /\ new = CleanTo(row, "verified")
    BY <1>7 DEF EventAllowed, EventRow
  <2>2. new.blockedFromStatus = "none"
    BY <1>1, <2>1 DEF Statuses, Fields
  <2> QED  BY <1>2, <1>3, <2>1, <2>2 DEF OpenRow, Closed
<1>8. CASE e \in HumanEvents \ {"retry_from_blocked", "cancel_task",
                                "request_changes", "approve_done"}
  <2>1. PICK t \in {"requirements_analysis", "planning", "plan_ready",
                    "implementing"} : new = CleanTo(row, t)
    BY <1>8 DEF EventRow, HumanEvents
  <2>2. new.blockedFromStatus = "none" /\ new.status = t
    BY <1>1, <2>1 DEF Statuses, Fields
  <2> QED  BY <1>2, <1>3, <2>1, <2>2 DEF Closed
<1> QED  BY <1>4, <1>5, <1>6, <1>7, <1>8

(* The other rows of an accepted event.                                    *)
LEMMA TransitionOpen ==
  ASSUME row \in TaskRows, NEW e \in HumanEvents, NEW inputRetry \in BOOLEAN,
         EventAllowed(row, e, IntakeEnabled, inputRetry),
         NEW new \in EventRows(row, e)
  PROVE  Reopens(new) /\ row.status # "verified"
<1>0. new \in TaskRows /\ IntakeEnabled \in BOOLEAN
  BY ApiRowsType, LifecycleAssumption
<1>1. PICK base \in TaskRows : base = EventRow(row, e, IntakeEnabled)
  BY <1>0, EventRowType
<1>2. Reopens(base) /\ row.status # "verified"
  BY <1>0, <1>1, EventOpen
<1>3. CASE new = base
  BY <1>2, <1>3
<1>4. CASE e = "retry_from_blocked" /\ new \in RetryRows(row)
  <2>1. \/ new = base \/ new = [base EXCEPT !.reworkRequested = FALSE]
        \/ new = [base EXCEPT !.status = "implementing", !.reworkRequested = TRUE]
    BY <1>1, <1>4 DEF RetryRows
  <2>2. base.blockedFromStatus = "none"
    <3>1. row.blockedFromStatus \in Statuses
      BY <1>4 DEF EventAllowed, RetryAllowed, TaskRows
    <3>2. PICK c \in TaskRows : /\ c = CleanTo(row, row.blockedFromStatus)
                               /\ c.blockedFromStatus = "none"
      BY <3>1, CleanFields, CleanToType DEF Fields
    <3>3. base = [c EXCEPT !.reworkRequested = row.reworkRequested]
      BY <1>1, <1>4, <3>2 DEF EventRow
    <3> QED  BY <3>2, <3>3 DEF TaskRows
  <2>3. new.blockedFromStatus = "none" /\ new.status \in {base.status, "implementing"}
    BY <2>1, <2>2 DEF TaskRows
  <2> QED
    BY <1>0, <1>2, <2>3 DEF Reopens, SettledRow, OpenRow, Closed
<1>5. ASSUME new.status = "blocked_external", new.retryAfter = FALSE,
             new.blockedFromStatus = row.status
      PROVE  Reopens(new)
  BY <1>0, <1>5 DEF Reopens, SettledRow, OpenRow, Closed
<1>6. CASE new = SequentialBranchBlock(row)
  <2>1. /\ new.status = "blocked_external" /\ new.retryAfter = FALSE
        /\ new.blockedFromStatus = row.status
    BY <1>6 DEF SequentialBranchBlock, ManualBlock, Block, TaskRows
  <2> QED  BY <1>2, <1>5, <2>1
<1>7. CASE new \in EvidenceBlocks(row, row.status)
  <2>1. /\ new.status = "blocked_external" /\ new.retryAfter = FALSE
        /\ new.blockedFromStatus = row.status
    BY <1>7 DEF EvidenceBlocks, Block, TaskRows
  <2> QED  BY <1>2, <1>5, <2>1
<1>8. e = "approve_done" => row.status = "done"
  BY DEF EventAllowed
<1>9. \/ new = base
      \/ e = "retry_from_blocked" /\ new \in RetryRows(row)
      \/ new = SequentialBranchBlock(row)
      \/ e = "start_implementation" /\ new \in EvidenceBlocks(row, row.status)
      \/ e = "approve_done" /\ new \in EvidenceBlocks(row, "done")
  BY <1>1 DEF EventRows
<1>10. e = "approve_done" /\ new \in EvidenceBlocks(row, "done") =>
         new \in EvidenceBlocks(row, row.status)
  BY <1>8
<1> QED  BY <1>3, <1>4, <1>6, <1>7, <1>9, <1>10

(* What people and the MCP server do: an open row stays open, and only the *)
(* agent gives an approval that closes one.                                *)
PeopleStep ==
  /\ UNCHANGED <<js, runs>>
  /\ SettledRow(row')
  /\ OpenRow(row) => OpenRow(row')
  /\ OpenRow(row') \/ verdict' = verdict
  /\ row.status = "verified" => row'.status = "verified" \/ ConfigBlockers = TRUE

(* Without questions through the API they do nothing else, unless they may *)
(* close a task out with neither review nor QA.                            *)
LEMMA PeopleSteps ==
  ASSUME QaEnabled \/ ~SkipReview, MaxQuestions = 0, TypeInv, SettledRow(row),
         Human
  PROVE  PeopleStep
<1> USE DEF TypeInv, TypeOK
<1>1. ASSUME NEW new, Reopens(new), row' = SetTaskFields(new),
             UNCHANGED <<js, runs, verdict>>,
             row.status = "verified" => new.status = "verified" \/ ConfigBlockers = TRUE
      PROVE  PeopleStep
  <2>1. new \in TaskRows
    BY <1>1 DEF Reopens
  <2>2. row'.status = new.status
    BY <1>1, <2>1, StoredFields DEF Fields
  <2> QED  BY <1>1, <2>1, <2>2, StoredOpen DEF PeopleStep, Reopens
<1>2. ASSUME NEW e \in HumanEvents, RegularTransition(e) PROVE PeopleStep
  <2> DEFINE inputRetry == e = "retry_from_blocked" /\ IsOperatorInputHold(row)
  <2>1. EventAllowed(row, e, IntakeEnabled, inputRetry) /\ inputRetry \in BOOLEAN
    BY <1>2 DEF RegularTransition
  <2>2. PICK new \in EventRows(row, e) : ApiWrite(new)
    BY <1>2 DEF RegularTransition
  <2> QED  BY <1>1, <2>1, <2>2, TransitionOpen DEF ApiWrite, WriteRow
<1>3. CASE AcceptExistingPlan
  <2>1. PICK new \in {SequentialBranchBlock(row),
                 ManualBlock(row, "plan_quality", "backlog", row.retryCount),
                 [CleanTo(row, "plan_ready") EXCEPT !.paused = row.paused]} :
          ApiWrite(new)
    BY <1>3 DEF AcceptExistingPlan
  <2>2. row.status = "backlog"
    BY <1>3 DEF AcceptExistingPlan
  <2>3. PICK c \in TaskRows : /\ c = CleanTo(row, "plan_ready")
                             /\ c.status = "plan_ready" /\ c.blockedFromStatus = "none"
    <3>1. "plan_ready" \in Statuses
      BY DEF Statuses
    <3>2. /\ CleanTo(row, "plan_ready") \in TaskRows
          /\ Fields(CleanTo(row, "plan_ready"), "plan_ready", "none", "none", FALSE)
      BY <3>1, CleanFields, CleanToType
    <3> QED  BY <3>2 DEF Fields
  <2>4. /\ [c EXCEPT !.paused = row.paused] \in TaskRows
        /\ OpenRow([c EXCEPT !.paused = row.paused])
    BY <2>3 DEF TaskRows, OpenRow, Closed
  <2>5. /\ "backlog" \in Statuses /\ row.retryCount \in RetryCounts
        /\ {"plan_quality", "sequential_branch"} \subseteq BlockedReasons
    BY DEF TaskRows, BlockedReasons, Statuses
  <2>6. \A q \in {"plan_quality", "sequential_branch"} :
          /\ ManualBlock(row, q, "backlog", row.retryCount) \in TaskRows
          /\ OpenRow(ManualBlock(row, q, "backlog", row.retryCount))
    BY <2>5, BlockType, WrittenOpen DEF Closed
  <2>7. PICK b \in TaskRows : /\ b = ManualBlock(row, "sequential_branch", "backlog",
                                                row.retryCount)
                             /\ OpenRow(b)
    BY <2>6
  <2>8. SequentialBranchBlock(row) = [b EXCEPT !.paused = TRUE]
    BY <2>2, <2>7 DEF SequentialBranchBlock
  <2>9. [b EXCEPT !.paused = TRUE] \in TaskRows /\ OpenRow([b EXCEPT !.paused = TRUE])
    BY <2>7 DEF TaskRows, OpenRow
  <2>10. new \in TaskRows /\ OpenRow(new)
    BY <2>1, <2>3, <2>4, <2>6, <2>8, <2>9
  <2> QED
    BY <1>1, <2>1, <2>2, <2>10, StoredOpen DEF ApiWrite, WriteRow, Reopens
<1>4. CASE ConfigGovernanceBlock
  <2>1. PICK new : new = Block(row, "other", row.status, row.retryCount)
    OBVIOUS
  <2>2. new \in TaskRows
    <3>1. row.status \in Statuses /\ row.retryCount \in RetryCounts
            /\ "other" \in BlockedReasons
      BY DEF TaskRows, BlockedReasons
    <3> QED  BY <2>1, <3>1, BlockType
  <2>3. /\ new.status = "blocked_external" /\ new.retryAfter = FALSE
        /\ new.blockedFromStatus = row.status
    BY <2>1 DEF Block, TaskRows
  <2>4. Reopens(new)
    BY <2>2, <2>3 DEF Reopens, SettledRow, OpenRow, Closed
  <2> QED
    BY <1>1, <1>4, <2>1, <2>4, LifecycleAssumption
       DEF ConfigGovernanceBlock, ApiWrite, WriteRow
<1>5. ASSUME NEW new \in TaskRows, new.status = row.status,
             new.blockedFromStatus = row.blockedFromStatus,
             new.retryAfter = row.retryAfter
      PROVE  Reopens(new)
  BY <1>5 DEF Reopens, SettledRow, OpenRow
<1>6. CASE BeginFastFix \/ Comment
  BY <1>6 DEF BeginFastFix, Comment, PeopleStep
<1>7. CASE EndFastFix
  <2>1. UNCHANGED <<js, runs, verdict>>
        /\ (row' = row \/ row' = SetTaskFields([row EXCEPT !.reworkRequested = FALSE]))
    BY <1>7 DEF EndFastFix, WriteRow
  <2>2. PICK new \in TaskRows : new = [row EXCEPT !.reworkRequested = FALSE]
    BY DEF TaskRows
  <2>3. Reopens(new) /\ new.status = row.status
    BY <1>5, <2>2 DEF TaskRows
  <2> QED  BY <1>1, <2>1, <2>2, <2>3 DEF PeopleStep
<1>8. CASE EditTask
  <2>1. PICK new : /\ new \in {[row EXCEPT !.paused = ~row.paused],
                              [row EXCEPT !.autoMode = ~row.autoMode]}
                   /\ ApiWrite(new)
    BY <1>8 DEF EditTask
  <2>2. new \in TaskRows /\ Reopens(new) /\ new.status = row.status
    BY <1>5, <2>1 DEF TaskRows
  <2> QED  BY <1>1, <2>1, <2>2 DEF ApiWrite, WriteRow
<1>9. CASE SyncStatus
  <2>1. PICK e \in SyncEvents(row), p \in BOOLEAN :
          /\ EventAllowed(row, e, FALSE, FALSE)
          /\ row' = SetTaskFields([EventRow(row, e, FALSE) EXCEPT !.paused = p])
    BY <1>9 DEF SyncStatus
  <2>2. e \in HumanEvents
    BY DEF SyncEvents, HumanEvents
  <2>3. PICK base : base = EventRow(row, e, FALSE)
    OBVIOUS
  <2>4. Reopens(base) /\ row.status # "verified"
    BY <2>1, <2>2, <2>3, EventOpen
  <2>5. Reopens([base EXCEPT !.paused = p])
    BY <2>4 DEF Reopens, TaskRows, SettledRow, OpenRow
  <2> QED  BY <1>1, <1>9, <2>1, <2>3, <2>4, <2>5 DEF SyncStatus
<1>10. CASE OperatorVerifiedCompletion
  <2>1. /\ NextStatusForOperatorCloseout \in Statuses \ Closed
        /\ row.status # "verified"
    BY <1>10, LifecycleAssumption
       DEF OperatorVerifiedCompletion, NextStatusForOperatorCloseout, AfterReview,
           QaEnabled, Statuses, Closed
  <2>2. PICK new \in TaskRows : /\ new = CleanTo(row, NextStatusForOperatorCloseout)
                               /\ OpenRow(new)
    BY <2>1, WrittenOpen, CleanToType
  <2>3. OpenRow(row') /\ SettledRow(row') /\ UNCHANGED <<js, runs>>
    BY <1>10, <2>2, StoredOpen DEF OperatorVerifiedCompletion, WriteRow
  <2> QED  BY <2>1, <2>3 DEF PeopleStep
<1>11. CASE AnswerBatch
  <2>1. CASE row.status = "needs_input"
    <3>1. PICK t \in InProgressStatuses :
            row' = SetTaskFields([row EXCEPT !.status = t])
      BY <1>11, <2>1 DEF AnswerBatch, WriteRow, ResumeStatuses
    <3>2. PICK new \in TaskRows : new = [row EXCEPT !.status = t]
      BY <3>1 DEF TaskRows, InProgressStatuses, Statuses
    <3>3. OpenRow(row)
      BY <2>1 DEF SettledRow, OpenRow, Closed
    <3>4. OpenRow(new)
      BY <3>1, <3>2, <3>3 DEF OpenRow, TaskRows, InProgressStatuses, Closed
    <3> QED
      BY <1>1, <1>11, <2>1, <3>1, <3>2, <3>4, StoredOpen DEF Reopens, AnswerBatch
  <2>2. CASE row.status # "needs_input"
    BY <1>11, <2>2 DEF AnswerBatch, PeopleStep
  <2> QED  BY <2>1, <2>2
<1>12. ~CreateQuestion
  BY DEF CreateQuestion
<1> QED
  BY <1>2, <1>3, <1>4, <1>6, <1>7, <1>8, <1>9, <1>10, <1>11, <1>12 DEF Human

(* The sections of the agent: they list open rows only, and write what     *)
(* they remember of them.                                                  *)
LEMMA OpenAgentStep ==
  ASSUME TypeInv, OpenInv, Agent
  PROVE  OpenInv'
<1> USE DEF TypeInv, TypeOK
<1>0. JsIdle.at = "idle"
  BY DEF JsIdle
<1>1. ASSUME js' = JsIdle, UNCHANGED runs, OpenRow(row') PROVE OpenInv'
  BY <1>0, <1>1 DEF OpenInv, OpenRow, SettledRow, Busy, Working
<1>2. ASSUME js' = JsIdle, UNCHANGED <<row, runs, verdict>> PROVE OpenInv'
  BY <1>0, <1>2 DEF OpenInv, Busy, Working, Approval
<1>3. ASSUME UNCHANGED <<row, runs, verdict>>, OpenRow(row),
             js'.from \notin Closed, js'.status \notin Closed,
             js'.at \in {"selected", "claimed"} => js'.stage \in ActivePipeline
      PROVE  OpenInv'
  BY <1>3 DEF OpenInv, Busy, Working
<1>4. ASSUME NEW new \in TaskRows, OpenRow(new), row' = SetTaskFields(new)
      PROVE  OpenRow(row')
  BY <1>4, StoredOpen
<1>5. ASSUME js.at # "idle"
      PROVE  /\ OpenRow(row) /\ js.from \notin Closed /\ js.status \notin Closed
             /\ js.status \in Statuses /\ js.retryCount \in RetryCounts
             /\ Bump(js.retryCount) \in RetryCounts /\ "other" \in BlockedReasons
  BY <1>5, BumpType DEF OpenInv, Busy, JsSections, BlockedReasons
<1>6. ASSUME js.at # "idle", NEW n \in RetryCounts,
             NEW b, b = Block(row, "other", js.status, n)
      PROVE  /\ b \in TaskRows /\ OpenRow(b)
             /\ [b EXCEPT !.retryAfter = TRUE] \in TaskRows
             /\ OpenRow([b EXCEPT !.retryAfter = TRUE])
             /\ [b EXCEPT !.manualReviewRequired = FALSE] \in TaskRows
             /\ OpenRow([b EXCEPT !.manualReviewRequired = FALSE])
  <2>1. b \in TaskRows /\ OpenRow(b)
    BY <1>5, <1>6, BlockType, WrittenOpen
  <2> QED  BY <2>1 DEF TaskRows, OpenRow
<1>7. ASSUME NEW new \in TaskRows, OpenRow(new), OpenRow(row),
             row' = CoordinatorWrite(new)
      PROVE  OpenRow(row')
  BY <1>7, StoredOpen DEF CoordinatorWrite
<1>8. CASE ReleaseStaleClaims
  BY <1>2, <1>8 DEF ReleaseStaleClaims, EventLoopFree
<1>9. CASE ListDueBlocked
  <2>1. OpenRow(row)
    BY <1>9 DEF ListDueBlocked, IsDueBlocked, OpenInv, SettledRow, OpenRow, Closed,
                TaskRows
  <2>2. /\ js'.at = "due" /\ js'.from = row.blockedFromStatus
        /\ js'.status = row.status
    BY <1>9 DEF ListDueBlocked, JsSection
  <2> QED  BY <1>3, <1>9, <2>1, <2>2 DEF ListDueBlocked, OpenRow
<1>10. CASE ReleaseDueBlocked
  <2>1. PICK new : new = ReleasedRow(row, js.from, js.retryCount)
    OBVIOUS
  <2>2. js.at # "idle" /\ js.from \in Statuses
    BY <1>10 DEF ReleaseDueBlocked, JsSections
  <2>3. new \in TaskRows
    BY <1>5, <2>1, <2>2, ReleasedRowType
  <2>4. new.status = js.from /\ new.blockedFromStatus = "none"
    BY <2>1 DEF ReleasedRow, TaskRows
  <2>5. OpenRow(new)
    BY <1>5, <2>2, <2>4 DEF OpenRow, Closed
  <2> QED  BY <1>1, <1>4, <1>10, <2>1, <2>3, <2>5 DEF ReleaseDueBlocked, WriteRow
<1>11. CASE ListStale
  <2>1. OpenRow(row)
    BY <1>11 DEF ListStale, InProgressStatuses, OpenInv, SettledRow, OpenRow, Closed
  <2>2. js'.at = "stale" /\ js'.from = "none" /\ js'.status = row.status
    BY <1>11 DEF ListStale, JsSection
  <2> QED  BY <1>3, <1>11, <2>1, <2>2 DEF ListStale, OpenRow, Closed
<1>12. CASE RecoverStale
  <2>1. PICK new : new = StaleRow(row, js.status, js.retryCount)
    OBVIOUS
  <2>2. js.at # "idle"
    BY <1>12 DEF RecoverStale
  <2>3. new \in TaskRows
    BY <1>5, <2>1, <2>2, StaleRowType
  <2>4. new.status = "blocked_external" /\ new.blockedFromStatus = js.status
    BY <2>1 DEF StaleRow, Block, TaskRows
  <2>5. OpenRow(new)
    BY <1>5, <2>2, <2>4 DEF OpenRow, Closed
  <2> QED  BY <1>1, <1>4, <1>12, <2>1, <2>3, <2>5 DEF RecoverStale, WriteRow
<1>13. CASE AdvanceBacklog
  <2>1. PICK t \in {"requirements_analysis", "planning"} : row' = CleanTo(row, t)
    BY <1>13 DEF AdvanceBacklog, WriteRow
  <2>2. t \in Statuses /\ t \notin Closed
    BY DEF Statuses, Closed
  <2>3. OpenRow(row')
    BY <2>1, <2>2, WrittenOpen
  <2> QED  BY <1>1, <1>13, <2>3 DEF AdvanceBacklog, EventLoopFree
<1>14. ASSUME NEW s \in Stages, Select(s) PROVE OpenInv'
  <2>1. row.status \in Resumable
    BY <1>14, StageStatus DEF Select, IsCandidate, Resumable
  <2>2. OpenRow(row)
    BY <2>1 DEF Resumable, InProgressStatuses, OpenInv, SettledRow, OpenRow, Closed
  <2>3. js'.from = "none" /\ js'.status = row.status /\ js'.stage = s
    BY <1>14 DEF Select, JsSection
  <2> QED  BY <1>3, <1>14, <2>2, <2>3 DEF Select, OpenRow, Closed
<1>15. CASE SkipCandidate \/ AbandonClaim
  BY <1>2, <1>15 DEF SkipCandidate, AbandonClaim
<1>16. CASE RuntimeGateBlock
  <2>1. PICK b : b = Block(row, "other", js.status, Bump(js.retryCount))
    OBVIOUS
  <2>2. js.at # "idle" /\ row' = [b EXCEPT !.retryAfter = TRUE]
    BY <1>16, <2>1 DEF RuntimeGateBlock, WriteRow
  <2>3. OpenRow(row')
    BY <1>5, <1>6, <2>1, <2>2
  <2> QED  BY <1>1, <1>16, <2>3 DEF RuntimeGateBlock
<1>17. CASE NoCapableRuntimeBlock
  <2>1. PICK b : b = Block(row, "other", js.status, js.retryCount)
    OBVIOUS
  <2>2. /\ js.at # "idle"
        /\ row' = CoordinatorWrite([b EXCEPT !.manualReviewRequired = FALSE])
    BY <1>17, <2>1 DEF NoCapableRuntimeBlock, WriteRow
  <2>3. OpenRow(row')
    BY <1>5, <1>6, <1>7, <2>1, <2>2
  <2> QED  BY <1>1, <1>17, <2>3 DEF NoCapableRuntimeBlock
<1>18. CASE Claim
  <2>1. /\ js.at = "selected" /\ js'.from = js.from /\ js'.status = js.status
        /\ js'.stage = js.stage
    BY <1>18 DEF Claim, JsSections
  <2> QED  BY <1>3, <1>5, <1>18, <2>1 DEF Claim, OpenInv
<1>19. CASE PreStartGuard
  <2>1. PICK new \in PreStartRows : row' = CoordinatorWrite(new)
    BY <1>19 DEF PreStartGuard, WriteRow
  <2>2. js.at # "idle"
    BY <1>19 DEF PreStartGuard
  <2>3. PICK b : b = Block(row, "other", js.status, js.retryCount)
    OBVIOUS
  <2>4. \/ new = [b EXCEPT !.manualReviewRequired = FALSE]
        \/ \E t \in {"requirements_analysis", "research", "design"} :
             new = [row EXCEPT !.status = t, !.blockedReason = "none",
                               !.blockedFromStatus = "none", !.retryAfter = FALSE,
                               !.retryCount = js.retryCount,
                               !.manualReviewRequired = FALSE]
    BY <2>1, <2>3 DEF PreStartRows
  <2>5. new \in TaskRows /\ OpenRow(new)
    <3>1. CASE new = [b EXCEPT !.manualReviewRequired = FALSE]
      BY <1>5, <1>6, <2>2, <2>3, <3>1
    <3>2. ASSUME NEW t \in {"requirements_analysis", "research", "design"},
             new = [row EXCEPT !.status = t, !.blockedReason = "none",
                               !.blockedFromStatus = "none", !.retryAfter = FALSE,
                               !.retryCount = js.retryCount,
                               !.manualReviewRequired = FALSE]
          PROVE  new \in TaskRows /\ OpenRow(new)
      <4>1. t \in Statuses /\ t \notin Closed /\ "none" \in BlockedReasons
            /\ js.retryCount \in RetryCounts
        BY <1>5, <2>2 DEF Statuses, Closed, BlockedReasons
      <4> QED  BY <3>2, <4>1 DEF TaskRows, OpenRow, Closed
    <3> QED  BY <2>4, <3>1, <3>2
  <2>6. OpenRow(row')
    BY <1>5, <1>7, <2>1, <2>2, <2>5
  <2> QED  BY <1>1, <1>19, <2>6 DEF PreStartGuard
<1>20. ASSUME NEW i \in Slots, StartStage(i) PROVE OpenInv'
  <2>1. js.at = "claimed" /\ js.stage \in Stages /\ js.stage \in ActivePipeline
        /\ OpenRow(row)
    BY <1>5, <1>20 DEF StartStage, JsSections, OpenInv
  <2>2. PICK new : new = [row EXCEPT !.status = InProgress(js.stage)]
    OBVIOUS
  <2>3. new \in TaskRows /\ OpenRow(new)
    BY <2>1, <2>2, StageStatus, StageOpen DEF TaskRows, OpenRow
  <2>4. row' = CoordinatorWrite(new)
    BY <1>20, <2>2 DEF StartStage, WriteRow
  <2>5. OpenRow(row')
    BY <1>7, <2>1, <2>3, <2>4
  <2>6. runs'[i] = NewRun(row') /\ \A j \in Slots \ {i} : runs'[j] = runs[j]
    BY <1>20 DEF StartStage
  <2>7. runs'[i].from \notin Closed /\ runs'[i].stage = js.stage
    BY <2>5, <2>6 DEF NewRun, OpenRow, Closed
  <2>8. js'.at = "idle"
    BY <1>0, <1>20 DEF StartStage
  <2> QED
    BY <2>1, <2>5, <2>6, <2>7, <2>8 DEF OpenInv, SettledRow, OpenRow, Working
<1> QED
  BY <1>8, <1>9, <1>10, <1>11, <1>12, <1>13, <1>14, <1>15, <1>16, <1>17, <1>18,
     <1>19, <1>20 DEF Agent

(* A run writes open rows while it works, and with its last write it may   *)
(* close the row with the approval that its setting asks for.              *)
LEMMA OpenRunStep ==
  ASSUME QaEnabled \/ ~SkipReview, \A j, k \in Slots : j = k,
         TypeInv, OpenInv, NEW i \in Slots, Run(i)
  PROVE  OpenInv'
<1> USE DEF TypeInv, TypeOK
<1>1. js.at = "idle" /\ UNCHANGED js
  BY DEF Run, RunProgress, JsIdle, RaiseQuestions, TriageQuestions, RunnerWrite,
         KeepRunnerOutcome, RefuseHandoff, Succeed, EnterReviewGate, GateRefuse,
         GateAccept, StageError, Release, FinishRun, Heartbeat
<1>2. runs[i] \in Run0 /\ runs[i].stage \in Stages
  BY DEF Run0
<1>3. Finished.at = "finally" /\ NoRun.at = "none"
  BY DEF Finished, NoRun
<1>4. ASSUME Working(i)
      PROVE  /\ OpenRow(row) /\ runs[i].from \notin Closed
             /\ runs[i].stage \in ActivePipeline
  BY <1>4 DEF OpenInv, Busy
<1>5. ASSUME NEW new \in TaskRows, OpenRow(new), OpenRow(row),
             row' \in {SetTaskFields(new), CoordinatorWrite(new)}
      PROVE  OpenRow(row')
  BY <1>5, StoredOpen DEF CoordinatorWrite
<1>6. ASSUME OpenRow(row'), Working(i)' =>
               runs'[i].from \notin Closed /\ runs'[i].stage \in ActivePipeline
      PROVE  OpenInv'
  BY <1>1, <1>6 DEF OpenInv, OpenRow, SettledRow
<1>7. ASSUME UNCHANGED <<row, verdict>>, Working(i)' => Working(i),
             Working(i)' =>
               runs'[i].from \notin Closed /\ runs'[i].stage \in ActivePipeline
      PROVE  OpenInv'
  BY <1>1, <1>7 DEF OpenInv, Busy, Approval
<1>8. CASE Heartbeat(i)
  <2>1. UNCHANGED <<row, runs, verdict>>
    BY <1>8 DEF Heartbeat
  <2> QED  BY <1>4, <1>7, <2>1 DEF Working
<1>9. CASE Release(i) \/ KeepRunnerOutcome(i)
  <2>1. runs'[i].at \in {"none", "finally"} /\ UNCHANGED <<row, verdict>>
    BY <1>3, <1>9 DEF Release, KeepRunnerOutcome
  <2> QED  BY <1>7, <2>1 DEF Working
<1>10. CASE EnterReviewGate(i)
  <2>1. /\ runs'[i] = [runs[i] EXCEPT !.at = "gate"]
        /\ UNCHANGED <<row, verdict>> /\ Working(i)
    BY <1>10 DEF EnterReviewGate, Working
  <2>2. runs'[i].from = runs[i].from /\ runs'[i].stage = runs[i].stage
    BY <1>2, <2>1 DEF Run0
  <2> QED  BY <1>4, <1>7, <2>1, <2>2
<1>11. ASSUME runs[i].at = "running", runs'[i] = Returned(runs[i]), OpenRow(row')
       PROVE  OpenInv'
  <2>1. /\ runs'[i].from = "planning" /\ runs'[i].stage = runs[i].stage
        /\ runs[i].stage \in ActivePipeline
    BY <1>2, <1>4, <1>11 DEF Returned, Run0, Working
  <2> QED  BY <1>6, <1>11, <2>1 DEF Closed
<1>12. CASE RaiseQuestions(i)
  <2>1. /\ runs[i].at = "running" /\ runs'[i] = Returned(runs[i])
        /\ row' = SetTaskFields(NeedsInput(row))
    BY <1>12 DEF RaiseQuestions, WriteRow
  <2>2. OpenRow(row) /\ NeedsInput(row) \in TaskRows /\ OpenRow(NeedsInput(row))
    BY <1>4, <2>1 DEF Working, NeedsInput, TaskRows, Statuses, OpenRow, Closed
  <2> QED  BY <1>5, <1>11, <2>1, <2>2
<1>13. CASE TriageQuestions(i)
  <2>1. PICK b : b = Block(row, "questions_triage", row.status, row.retryCount)
    OBVIOUS
  <2>2. /\ runs[i].at = "running" /\ runs'[i] = Returned(runs[i])
        /\ row' = SetTaskFields([b EXCEPT !.manualReviewRequired = TRUE])
    BY <1>13, <2>1 DEF TriageQuestions, WriteRow
  <2>3. OpenRow(row) /\ row.status \in Statuses /\ row.retryCount \in RetryCounts
        /\ "questions_triage" \in BlockedReasons
    BY <1>4, <2>2 DEF Working, TaskRows, BlockedReasons
  <2>4. b \in TaskRows /\ OpenRow(b)
    BY <2>1, <2>3, BlockType, WrittenOpen DEF OpenRow
  <2>5. /\ [b EXCEPT !.manualReviewRequired = TRUE] \in TaskRows
        /\ OpenRow([b EXCEPT !.manualReviewRequired = TRUE])
    BY <2>4 DEF TaskRows, OpenRow
  <2> QED  BY <1>5, <1>11, <2>2, <2>3, <2>5
<1>14. CASE RunnerWrite(i)
  <2>1. PICK new \in RunnerRows(runs[i]) : row' = SetTaskFields(new)
    BY <1>14 DEF RunnerWrite, WriteRow
  <2>2. runs[i].at = "running" /\ runs'[i] = Returned(runs[i]) /\ Working(i)
    BY <1>14 DEF RunnerWrite, Working
  <2>3. new \in TaskRows /\ OpenRow(new)
    BY <1>2, <1>4, <2>1, <2>2, RunRowsType, RunOpen
  <2> QED  BY <1>4, <1>5, <1>11, <2>1, <2>2, <2>3
<1>15. ASSUME NEW new \in TaskRows, OpenRow(new), Working(i), FinishRun(i, new)
       PROVE  OpenInv'
  <2>1. row' = CoordinatorWrite(new) /\ runs'[i].at = "finally"
    BY <1>3, <1>15 DEF FinishRun, WriteRow
  <2> QED  BY <1>4, <1>5, <1>6, <1>15, <2>1 DEF Working
<1>16. ASSUME Working(i), NEW new, FinishRun(i, new),
              \/ new \in RefusedHandoffs(runs[i]) \cup GateRefusals(runs[i])
                         \cup RecoveryRows(runs[i]) \cup ClassifiedRows(runs[i])
              \/ new = PlanQualityRow(row, runs[i].stage)
       PROVE  OpenInv'
  <2>1. new \in TaskRows
    BY <1>2, <1>16, RunRowsType, PlanQualityRowType
  <2>2. OpenRow(new)
    BY <1>2, <1>4, <1>16, RunOpen
  <2> QED  BY <1>15, <1>16, <2>1, <2>2
<1>17. CASE RefuseHandoff(i)
  BY <1>16, <1>17 DEF RefuseHandoff, Working
<1>18. CASE GateRefuse(i)
  BY <1>16, <1>18 DEF GateRefuse, Working
<1>19. CASE StageError(i)
  BY <1>16, <1>19 DEF StageError, Working
<1>20. ASSUME Working(i), FinishRun(i, CleanTo(row, "done")), verdict' = Approval,
              ~IsOperatorCancelled(row)
       PROVE  OpenInv'
  <2>1. PICK new \in TaskRows : /\ new = CleanTo(row, "done")
                               /\ Fields(new, "done", "none", "none", FALSE)
    BY CleanFields, CleanToType DEF Statuses
  <2>2. row' = SetTaskFields(new) /\ runs'[i].at = "finally"
    BY <1>3, <1>20, <2>1 DEF FinishRun, WriteRow, CoordinatorWrite
  <2>3. SettledRow(row')
    BY <2>1, <2>2, StoredFields DEF Fields, SettledRow, Closed
  <2>4. \A j \in Slots : ~Working(j)'
    BY <2>2 DEF Working
  <2>5. ~Busy'
    BY <1>1, <2>4 DEF Busy
  <2> QED  BY <1>1, <1>20, <2>3, <2>4, <2>5 DEF OpenInv, Approval
<1>21. ASSUME Working(i), FinishRun(i, CleanTo(row, AfterReview)),
              ~IsOperatorCancelled(row), verdict' = "reviewed"
       PROVE  OpenInv'
  <2>1. CASE QaEnabled
    <3>1. AfterReview = "qa" /\ "qa" \in Statuses /\ "qa" \notin Closed
      BY <2>1 DEF AfterReview, Statuses, Closed
    <3> QED  BY <1>15, <1>21, <3>1, CleanToType, WrittenOpen
  <2>2. CASE ~QaEnabled
    BY <1>20, <1>21, <2>2 DEF AfterReview, Approval
  <2> QED  BY <2>1, <2>2
<1>22. CASE GateAccept(i)
  <2>1. Working(i) /\ FinishRun(i, CleanTo(row, AfterReview))
    BY <1>22 DEF GateAccept, Working
  <2>2. CASE IsOperatorCancelled(row)
    <3>1. UNCHANGED <<row, verdict>> /\ runs'[i].at = "finally"
      BY <1>3, <1>22, <2>1, <2>2 DEF GateAccept, FinishRun, WriteRow, CoordinatorWrite
    <3> QED  BY <1>7, <3>1 DEF Working
  <2>3. CASE ~IsOperatorCancelled(row)
    BY <1>21, <1>22, <2>1, <2>3 DEF GateAccept
  <2> QED  BY <2>2, <2>3
<1>23. CASE Succeed(i)
  <2>1. Working(i) /\ ~IsOperatorCancelled(row) /\ runs[i].stage # "reviewer"
    BY <1>23 DEF Succeed, RunnerTerminalized, Working
  <2>2. CASE runs[i].stage = "implementer" /\ SkipReview
    BY <1>21, <1>23, <2>1, <2>2 DEF Succeed
  <2>3. CASE runs[i].stage = "qa"
    <3>1. QaEnabled
      BY <1>4, <2>1, <2>3 DEF ActivePipeline
    <3>2. SuccessRow(row, "qa") = CleanTo(row, "done")
      BY DEF SuccessRow, OnSuccess
    <3>3. FinishRun(i, CleanTo(row, "done")) /\ verdict' = "qa_accepted"
      BY <1>23, <2>3, <3>2 DEF Succeed
    <3> QED  BY <1>20, <2>1, <3>1, <3>3 DEF Approval
  <2>4. CASE runs[i].stage # "qa" /\ ~(runs[i].stage = "implementer" /\ SkipReview)
    <3>1. FinishRun(i, SuccessRow(row, runs[i].stage))
      BY <1>23, <2>4 DEF Succeed
    <3>2. /\ SuccessRow(row, runs[i].stage) \in TaskRows
          /\ OpenRow(SuccessRow(row, runs[i].stage))
      BY <1>2, <1>4, <2>1, <2>4, SuccessRowType, RunOpen
    <3> QED  BY <1>15, <2>1, <3>1, <3>2
  <2> QED  BY <2>2, <2>3, <2>4
<1> QED
  BY <1>8, <1>9, <1>10, <1>12, <1>13, <1>14, <1>17, <1>18, <1>19, <1>22, <1>23
     DEF Run, RunProgress

(* Every step keeps work and closed tasks apart, with intake too.          *)
LEMMA OpenStep ==
  ASSUME QaEnabled \/ ~SkipReview, MaxQuestions = 0, \A j, k \in Slots : j = k,
         TypeInv, OpenInv, [Next]_vars
  PROVE  OpenInv'
<1>1. CASE Agent
  BY <1>1, OpenAgentStep
<1>2. ASSUME NEW i \in Slots, Run(i) PROVE OpenInv'
  BY <1>2, OpenRunStep
<1>3. CASE Human
  <2>1. PeopleStep
    BY <1>3, PeopleSteps DEF OpenInv
  <2> QED  BY <2>1 DEF PeopleStep, OpenInv, Busy, Working, Approval
<1>4. ASSUME NEW graceful \in BOOLEAN, Restart(graceful) PROVE OpenInv'
  <2>1. /\ UNCHANGED <<row, verdict>> /\ js'.at = "idle"
        /\ \A i \in Slots : runs'[i].at = "none"
    BY <1>4 DEF Restart, NoRun, JsIdle
  <2> QED  BY <2>1 DEF OpenInv, Busy, Working, Approval
<1>5. CASE UNCHANGED vars
  BY <1>5 DEF vars, OpenInv, Busy, Working, Approval
<1> QED  BY <1>1, <1>2, <1>3, <1>4, <1>5 DEF Next

(* At first the row is open, and nobody is at work.                        *)
LEMMA OpenInit == Init => OpenInv
  BY InitFields DEF OpenInv, OpenRow, SettledRow, Fields, Closed, Busy, Working

(* With requirements intake too, whatever the runners ask and people       *)
(* answer, a finished task has the approval its configuration asks for (QA *)
(* where QA is required) and nobody is at work on it.  It takes a review   *)
(* or QA, one run of the task at a time, and no question through the API:  *)
(* without any of these TLC finds a task that is done and unapproved.      *)
THEOREM DoneIsEarnedWithIntake ==
  ASSUME QaEnabled \/ ~SkipReview, MaxQuestions = 0, \A i, j \in Slots : i = j
  PROVE  Spec => [](DoneEarned /\ NoWorkAfterDone)
<1>1. Init => TypeInv /\ OpenInv
  BY TypeInit, OpenInit
<1>2. TypeInv /\ OpenInv /\ [Next]_vars => (TypeInv /\ OpenInv)'
  BY TypeStep, OpenStep
<1>3. TypeInv /\ OpenInv => DoneEarned /\ NoWorkAfterDone
  <2> SUFFICES ASSUME TypeInv, OpenInv PROVE DoneEarned /\ NoWorkAfterDone
    OBVIOUS
  <2>1. DoneEarned
    BY DEF OpenInv, OpenRow, DoneEarned, Closed, Approval
  <2>2. ASSUME row.status \in {"done", "verified"}, NEW i \in Slots
        PROVE  runs[i].at \in {"none", "finally"}
    <3>1. ~Working(i)
      BY <2>2 DEF OpenInv, OpenRow, Closed, Busy
    <3>2. runs[i] \in Run0
      BY DEF TypeInv, TypeOK
    <3> QED  BY <3>1, <3>2 DEF Run0, Working
  <2> QED  BY <2>1, <2>2 DEF NoWorkAfterDone
<1> QED  BY <1>1, <1>2, <1>3, PTL DEF Spec

(* In that setting verified is final as well, with intake and questions:   *)
(* only a work-blocking configuration takes a task out of it.              *)
THEOREM VerifiedIsTerminalWithIntake ==
  ASSUME QaEnabled \/ ~SkipReview, MaxQuestions = 0, \A i, j \in Slots : i = j,
         ~ConfigBlockers
  PROVE  Spec => VerifiedTerminal
<1>1. Init => TypeInv /\ OpenInv
  BY TypeInit, OpenInit
<1>2. TypeInv /\ OpenInv /\ [Next]_vars => (TypeInv /\ OpenInv)'
  BY TypeStep, OpenStep
<1>3. TypeInv /\ OpenInv /\ [Next]_vars
        => [row.status = "verified" => row'.status = "verified"]_vars
  <2> SUFFICES ASSUME TypeInv, OpenInv, [Next]_vars, row.status = "verified"
               PROVE  row'.status = "verified"
    OBVIOUS
  <2>1. js.at = "idle" /\ \A i \in Slots : ~Working(i)
    BY DEF OpenInv, OpenRow, Closed, Busy
  <2>2. CASE Agent
    BY <2>1, <2>2
       DEF Agent, ReleaseStaleClaims, ListDueBlocked, ReleaseDueBlocked, ListStale,
           RecoverStale, AdvanceBacklog, Select, SkipCandidate, RuntimeGateBlock,
           NoCapableRuntimeBlock, Claim, AbandonClaim, PreStartGuard, StartStage
  <2>3. ASSUME NEW i \in Slots, Run(i) PROVE row' = row
    BY <2>1, <2>3
       DEF Run, RunProgress, RaiseQuestions, TriageQuestions, RunnerWrite,
           KeepRunnerOutcome, RefuseHandoff, Succeed, EnterReviewGate, GateRefuse,
           GateAccept, StageError, Release, Heartbeat, Working
  <2>4. CASE Human
    BY <2>4, PeopleSteps, LifecycleAssumption DEF OpenInv, PeopleStep
  <2>5. ASSUME NEW graceful \in BOOLEAN, Restart(graceful) PROVE row' = row
    BY <2>5 DEF Restart
  <2>6. CASE UNCHANGED vars
    BY <2>6 DEF vars
  <2> QED  BY <2>2, <2>3, <2>4, <2>5, <2>6 DEF Next
<1> QED  BY <1>1, <1>2, <1>3, PTL DEF Spec, VerifiedTerminal

-----------------------------------------------------------------------------
(* Holds with requirements intake.  A question or an answer may leave the  *)
(* reason of a hold on a row that is no longer blocked, so each write is   *)
(* asked whether it makes a hold, not whether it keeps the reason.         *)
Held(r) == r.status = "blocked_external" /\ r.blockedReason = "operator_input"

(* Storing a row makes no hold of it.                                      *)
LEMMA StoredHeld ==
  ASSUME NEW new \in TaskRows
  PROVE  Held(SetTaskFields(new)) <=> Held(new)
  BY DEF SetTaskFields, Held, TaskRows

(* Clean rows, blocks for another reason and evidence blocks are no holds. *)
LEMMA WrittenHeld ==
  ASSUME NEW r \in TaskRows
  PROVE  /\ \A t \in Statuses : ~Held(CleanTo(r, t))
         /\ \A q, from, n : q # "operator_input" =>
              ~Held(Block(r, q, from, n)) /\ ~Held(ManualBlock(r, q, from, n))
         /\ \A from : \A new \in EvidenceBlocks(r, from) : ~Held(new)
<1>1. \A t \in Statuses : ~Held(CleanTo(r, t))
  BY CleanFields DEF Fields, Held
<1>2. ASSUME NEW q, NEW from, NEW n, q # "operator_input"
      PROVE  ~Held(Block(r, q, from, n)) /\ ~Held(ManualBlock(r, q, from, n))
  BY <1>2 DEF Block, ManualBlock, Held, TaskRows
<1>3. ASSUME NEW from, NEW new \in EvidenceBlocks(r, from) PROVE ~Held(new)
  BY <1>3, EvidenceFields DEF Fields, Held
<1> QED  BY <1>1, <1>2, <1>3

(* A section makes no hold, and lists no held row.                         *)
LEMMA HeldAgentStep ==
  ASSUME TypeInv, OperatorInputHold, HoldInv, Agent
  PROVE  HoldInv'
<1> USE DEF TypeInv, TypeOK
<1>0. JsIdle.at = "idle"
  BY DEF JsIdle
<1>1. \A s \in Stages : InProgress(s) # "blocked_external"
  BY DEF InProgress, Stages
<1>2. js.at # "idle" => ~Held(row)
  BY DEF HoldInv, Busy, Held
<1>3. ASSUME ~Held(row') PROVE HoldInv'
  BY <1>3 DEF HoldInv, Held
<1>4. ASSUME NEW new \in TaskRows, ~Held(new), row' = SetTaskFields(new)
      PROVE  HoldInv'
  BY <1>3, <1>4, StoredHeld
<1>5. ASSUME NEW new \in TaskRows, ~Held(new), js.at # "idle",
             row' = CoordinatorWrite(new)
      PROVE  HoldInv'
  BY <1>2, <1>3, <1>4, <1>5 DEF CoordinatorWrite
<1>6. ASSUME UNCHANGED <<row, runs>>, js'.at # "idle" => ~Held(row)
      PROVE  HoldInv'
  BY <1>6 DEF HoldInv, Held, Busy, Working
<1>7. /\ row.status \in Statuses /\ row.retryCount \in RetryCounts
      /\ js.stage \in Stages /\ js.status \in Statuses
      /\ js.retryCount \in RetryCounts /\ "other" \in BlockedReasons
  BY DEF TaskRows, JsSections, BlockedReasons
<1>8. CASE \/ ReleaseStaleClaims \/ SkipCandidate \/ Claim \/ AbandonClaim
  <2>1. UNCHANGED <<row, runs>> /\ (js'.at # "idle" => js.at # "idle")
    BY <1>0, <1>8 DEF ReleaseStaleClaims, SkipCandidate, Claim, AbandonClaim
  <2> QED  BY <1>2, <1>6, <2>1
<1>9. CASE ListDueBlocked
  BY <1>6, <1>9 DEF ListDueBlocked, IsDueBlocked, OperatorInputHold, Held
<1>10. CASE ListStale
  BY <1>6, <1>10 DEF ListStale, InProgressStatuses, Held
<1>11. ASSUME NEW s \in Stages, Select(s) PROVE HoldInv'
  <2>1. row.status # "blocked_external" /\ UNCHANGED <<row, runs>>
    BY <1>1, <1>11 DEF Select, IsCandidate
  <2> QED  BY <1>6, <2>1 DEF Held
<1>12. CASE ReleaseDueBlocked
  <2>1. ReleasedRow(row, js.from, js.retryCount) \in TaskRows
    BY <1>7, <1>12, ReleasedRowType DEF ReleaseDueBlocked, JsSections
  <2>2. ~Held(ReleasedRow(row, js.from, js.retryCount))
    BY DEF ReleasedRow, Held, TaskRows
  <2> QED  BY <1>4, <1>12, <2>1, <2>2 DEF ReleaseDueBlocked, WriteRow
<1>13. CASE RecoverStale
  <2>1. StaleRow(row, js.status, js.retryCount) \in TaskRows
    BY <1>7, StaleRowType
  <2>2. ~Held(StaleRow(row, js.status, js.retryCount))
    BY DEF StaleRow, Block, Held, TaskRows
  <2> QED  BY <1>4, <1>13, <2>1, <2>2 DEF RecoverStale, WriteRow
<1>14. CASE AdvanceBacklog
  <2>1. PICK t \in {"requirements_analysis", "planning"} : row' = CleanTo(row, t)
    BY <1>14 DEF AdvanceBacklog, WriteRow
  <2> QED  BY <1>3, <2>1, WrittenHeld DEF Statuses
<1>15. CASE RuntimeGateBlock
  <2>1. row' = [Block(row, "other", js.status, Bump(js.retryCount))
                  EXCEPT !.retryAfter = TRUE]
    BY <1>15 DEF RuntimeGateBlock, WriteRow
  <2>2. ~Held(row')
    BY <2>1 DEF Block, Held, TaskRows
  <2> QED  BY <1>3, <2>2
<1>16. PICK b : /\ b = [Block(row, "other", js.status, js.retryCount)
                          EXCEPT !.manualReviewRequired = FALSE]
                /\ b \in TaskRows /\ ~Held(b)
  <2>1. PICK c \in TaskRows : /\ c = Block(row, "other", js.status, js.retryCount)
                             /\ ~Held(c)
    BY <1>7, BlockType, WrittenHeld
  <2>2. [c EXCEPT !.manualReviewRequired = FALSE] \in TaskRows
        /\ ~Held([c EXCEPT !.manualReviewRequired = FALSE])
    BY <2>1 DEF TaskRows, Held
  <2> QED  BY <2>1, <2>2
<1>17. CASE NoCapableRuntimeBlock
  BY <1>5, <1>16, <1>17 DEF NoCapableRuntimeBlock, WriteRow
<1>18. CASE PreStartGuard
  <2>1. PICK new \in PreStartRows : row' = CoordinatorWrite(new) /\ js.at = "claimed"
    BY <1>18 DEF PreStartGuard, WriteRow
  <2>2. new \in TaskRows /\ ~Held(new)
    <3>1. \/ new = b
          \/ \E t \in {"requirements_analysis", "research", "design"} :
               new = [row EXCEPT !.status = t, !.blockedReason = "none",
               !.blockedFromStatus = "none", !.retryAfter = FALSE,
               !.retryCount = js.retryCount,
               !.manualReviewRequired = FALSE]
      BY <1>16 DEF PreStartRows
    <3>2. ASSUME NEW t \in {"requirements_analysis", "research", "design"},
                 new = [row EXCEPT !.status = t, !.blockedReason = "none",
               !.blockedFromStatus = "none", !.retryAfter = FALSE,
               !.retryCount = js.retryCount,
               !.manualReviewRequired = FALSE]
          PROVE  new \in TaskRows /\ ~Held(new)
      BY <1>7, <3>2 DEF TaskRows, Held, Statuses, BlockedReasons
    <3> QED  BY <1>16, <3>1, <3>2
  <2> QED  BY <1>5, <2>1, <2>2
<1>19. ASSUME NEW i \in Slots, StartStage(i) PROVE HoldInv'
  <2>1. PICK new : new = [row EXCEPT !.status = InProgress(js.stage)]
    OBVIOUS
  <2>2. new \in TaskRows /\ ~Held(new)
    BY <1>1, <1>7, <2>1, StageStatus DEF TaskRows, Held
  <2> QED  BY <1>5, <1>19, <2>1, <2>2 DEF StartStage, WriteRow
<1> QED
  BY <1>8, <1>9, <1>10, <1>11, <1>12, <1>13, <1>14, <1>15, <1>17, <1>18, <1>19
     DEF Agent

(* A runner makes no hold; the end of a run may, and it was the last work. *)
LEMMA HeldRunStep ==
  ASSUME \A j, k \in Slots : j = k, TypeInv, HoldInv, NEW i \in Slots, Run(i)
  PROVE  HoldInv'
<1> USE DEF TypeInv, TypeOK
<1>1. js.at = "idle" /\ UNCHANGED js
  BY DEF Run, RunProgress, JsIdle, RaiseQuestions, TriageQuestions, RunnerWrite,
         KeepRunnerOutcome, RefuseHandoff, Succeed, EnterReviewGate, GateRefuse,
         GateAccept, StageError, Release, FinishRun, Heartbeat
<1>2. runs[i] \in Run0 /\ runs[i].stage \in Stages
  BY DEF Run0
<1>3. Working(i) => ~Held(row)
  BY DEF HoldInv, Busy, Held
<1>4. ASSUME ~Held(row') PROVE HoldInv'
  BY <1>4 DEF HoldInv, Held
<1>5. ASSUME runs'[i].at \in {"none", "finally"} PROVE HoldInv'
  BY <1>1, <1>5 DEF HoldInv, Busy, Working
<1>6. CASE Heartbeat(i) \/ EnterReviewGate(i)
  BY <1>3, <1>4, <1>6 DEF Heartbeat, EnterReviewGate, Working, Held
<1>7. CASE \/ Release(i) \/ KeepRunnerOutcome(i) \/ RefuseHandoff(i) \/ Succeed(i)
           \/ GateRefuse(i) \/ GateAccept(i) \/ StageError(i)
  <2>1. runs'[i] \in {Finished, NoRun}
    BY <1>7 DEF Release, KeepRunnerOutcome, RefuseHandoff, Succeed, GateRefuse,
                GateAccept, StageError, FinishRun
  <2> QED  BY <1>5, <2>1 DEF Finished, NoRun
<1>8. CASE RaiseQuestions(i)
  <2>1. row' = SetTaskFields(NeedsInput(row))
    BY <1>8 DEF RaiseQuestions, WriteRow
  <2>2. NeedsInput(row) \in TaskRows /\ ~Held(NeedsInput(row))
    BY DEF NeedsInput, TaskRows, Statuses, Held
  <2> QED  BY <1>4, <2>1, <2>2, StoredHeld
<1>9. CASE TriageQuestions(i)
  <2>1. PICK b : b = Block(row, "questions_triage", row.status, row.retryCount)
    OBVIOUS
  <2>2. row.status \in Statuses /\ row.retryCount \in RetryCounts
        /\ "questions_triage" \in BlockedReasons
    BY DEF TaskRows, BlockedReasons
  <2>3. b \in TaskRows /\ ~Held(b)
    BY <2>1, <2>2, BlockType, WrittenHeld
  <2>4. [b EXCEPT !.manualReviewRequired = TRUE] \in TaskRows
        /\ ~Held([b EXCEPT !.manualReviewRequired = TRUE])
    BY <2>3 DEF TaskRows, Held
  <2>5. row' = SetTaskFields([b EXCEPT !.manualReviewRequired = TRUE])
    BY <1>9, <2>1 DEF TriageQuestions, WriteRow
  <2> QED  BY <1>4, <2>4, <2>5, StoredHeld
<1>10. CASE RunnerWrite(i)
  <2>1. PICK new \in RunnerRows(runs[i]) : row' = SetTaskFields(new)
    BY <1>10 DEF RunnerWrite, WriteRow
  <2>2. new \in TaskRows
    BY <1>2, <2>1, RunRowsType
  <2>3. ~Held(row)
    BY <1>3, <1>10 DEF RunnerWrite, Working
  <2>4. ~Held(new)
    <3>1. CASE runs[i].stage \in {"requirements-analyst", "researcher", "designer"}
      BY <3>1 DEF RunnerRows, Block, Held, TaskRows
    <3>2. CASE runs[i].stage = "qa"
      BY <3>2 DEF RunnerRows, Block, Held, TaskRows
    <3>3. CASE runs[i].stage = "planner"
      BY <3>3 DEF RunnerRows, Block, Held, TaskRows
    <3>4. CASE runs[i].stage = "implementer"
      <4>1. ~Held([row EXCEPT !.reworkRequested = FALSE])
        BY <2>3 DEF Held, TaskRows
      <4>2. ~Held([Block(row, "other", "implementing", row.retryCount)
                     EXCEPT !.manualReviewRequired = FALSE,
                            !.reworkRequested = TRUE])
        BY DEF Block, Held, TaskRows
      <4>3. ~Held(ManifestFailureRow(row, runs[i].seen))
        BY WrittenHeld DEF ManifestFailureRow, Held, TaskRows
      <4> QED  BY <3>4, <4>1, <4>2, <4>3 DEF RunnerRows
    <3>5. CASE runs[i].stage \in {"plan-checker", "reviewer"}
      BY <3>5 DEF RunnerRows
    <3> QED  BY <1>2, <3>1, <3>2, <3>3, <3>4, <3>5 DEF Stages
  <2> QED  BY <1>4, <2>1, <2>2, <2>4, StoredHeld
<1> QED
  BY <1>6, <1>7, <1>8, <1>9, <1>10 DEF Run, RunProgress

(* People keep a hold or end it; none of their writes makes one.           *)
LEMMA HeldHumanStep ==
  ASSUME TypeInv, Human
  PROVE  UNCHANGED <<js, runs>> /\ (Held(row') => Held(row))
<1> USE DEF TypeInv, TypeOK
<1> DEFINE Goal == UNCHANGED <<js, runs>> /\ (Held(row') => Held(row))
<1>1. ASSUME NEW new \in TaskRows, Held(new) => Held(row),
             row' = SetTaskFields(new)
      PROVE  Held(row') => Held(row)
  BY <1>1, StoredHeld
<1>2. ASSUME NEW new \in TaskRows, Held(new) => Held(row), ApiWrite(new)
      PROVE  Goal
  BY <1>1, <1>2 DEF ApiWrite, WriteRow
<1>3. /\ row.status \in Statuses /\ row.retryCount \in RetryCounts
      /\ IntakeEnabled \in BOOLEAN
  BY LifecycleAssumption DEF TaskRows
<1>4. ASSUME NEW e \in HumanEvents, NEW intake \in BOOLEAN,
             NEW inputRetry \in BOOLEAN,
             EventAllowed(row, e, intake, inputRetry)
      PROVE  EventRow(row, e, intake) \in TaskRows /\ ~Held(EventRow(row, e, intake))
  <2>1. EventRow(row, e, intake) \in TaskRows
    BY <1>4, EventRowType
  <2>2. ASSUME NEW t \in Statuses
        PROVE  /\ CleanTo(row, t) \in TaskRows /\ ~Held(CleanTo(row, t))
               /\ CleanTo(row, t).blockedReason = "none"
    BY <2>2, CleanToType, CleanFields, WrittenHeld DEF Fields
  <2>3. CASE e = "retry_from_blocked"
    <3>1. row.blockedFromStatus \in Statuses
      BY <1>4, <2>3 DEF EventAllowed, RetryAllowed, TaskRows
    <3>2. PICK c \in TaskRows : c = CleanTo(row, row.blockedFromStatus) /\ ~Held(c)
      BY <2>2, <3>1
    <3>3. EventRow(row, e, intake)
            = [c EXCEPT !.reworkRequested = row.reworkRequested]
      BY <2>3, <3>2 DEF EventRow
    <3>4. ~Held([c EXCEPT !.reworkRequested = row.reworkRequested])
      BY <3>2 DEF Held, TaskRows
    <3> QED  BY <2>1, <3>3, <3>4
  <2>4. CASE e = "cancel_task"
    <3>1. PICK c \in TaskRows : c = CleanTo(row, "blocked_external")
      BY <2>2 DEF Statuses
    <3>2. EventRow(row, e, intake)
            = [c EXCEPT !.blockedReason = "operator_cancelled",
                   !.blockedFromStatus = row.status,
                   !.manualReviewRequired = TRUE, !.paused = TRUE]
      BY <2>4, <3>1 DEF EventRow
    <3>3. ~Held([c EXCEPT !.blockedReason = "operator_cancelled",
                   !.blockedFromStatus = row.status,
                   !.manualReviewRequired = TRUE, !.paused = TRUE])
      BY DEF Held, TaskRows
    <3> QED  BY <2>1, <3>2, <3>3
  <2>5. CASE e = "request_changes"
    <3>1. PICK c \in TaskRows : c = CleanTo(row, "implementing") /\ ~Held(c)
      BY <2>2 DEF Statuses
    <3>2. EventRow(row, e, intake) = [c EXCEPT !.reworkRequested = TRUE]
      BY <2>5, <3>1 DEF EventRow
    <3>3. ~Held([c EXCEPT !.reworkRequested = TRUE])
      BY <3>1 DEF Held, TaskRows
    <3> QED  BY <2>1, <3>2, <3>3
  <2>6. CASE e \in HumanEvents \ {"retry_from_blocked", "cancel_task",
                                  "request_changes"}
    <3>1. PICK t \in {"requirements_analysis", "planning", "plan_ready",
                      "implementing", "verified"} :
            EventRow(row, e, intake) = CleanTo(row, t)
      BY <2>6 DEF EventRow, HumanEvents
    <3> QED  BY <2>1, <2>2, <3>1 DEF Statuses
  <2> QED  BY <2>3, <2>4, <2>5, <2>6
<1>5. SequentialBranchBlock(row) \in TaskRows /\ ~Held(SequentialBranchBlock(row))
  <2>1. PICK b : b = ManualBlock(row, "sequential_branch", row.status, row.retryCount)
    OBVIOUS
  <2>2. b \in TaskRows /\ ~Held(b)
    BY <1>3, <2>1, BlockType, WrittenHeld DEF BlockedReasons
  <2> QED  BY <2>1, <2>2 DEF SequentialBranchBlock, TaskRows, Held
<1>6. ASSUME NEW e \in HumanEvents, RegularTransition(e) PROVE Goal
  <2>1. PICK new \in EventRows(row, e) : ApiWrite(new)
    BY <1>6 DEF RegularTransition
  <2>2. PICK inputRetry \in BOOLEAN : EventAllowed(row, e, IntakeEnabled, inputRetry)
    BY <1>6 DEF RegularTransition
  <2>3. PICK base \in TaskRows : base = EventRow(row, e, IntakeEnabled) /\ ~Held(base)
    BY <1>3, <1>4, <2>2
  <2>4. new \in TaskRows
    BY <1>6, <2>1, <2>2, ApiRowsType
  <2>5. CASE e = "retry_from_blocked" /\ new \in RetryRows(row)
    <3>1. \/ new = base \/ new = [base EXCEPT !.reworkRequested = FALSE]
          \/ new = [base EXCEPT !.status = "implementing", !.reworkRequested = TRUE]
      BY <2>3, <2>5 DEF RetryRows
    <3>2. ~Held(new)
      BY <2>3, <3>1 DEF Held, TaskRows
    <3> QED  BY <1>2, <2>1, <2>4, <3>2
  <2>6. CASE \E from : new \in EvidenceBlocks(row, from)
    BY <1>2, <2>1, <2>4, <2>6, WrittenHeld
  <2>7. CASE new = SequentialBranchBlock(row) \/ new = base
    BY <1>2, <1>5, <2>1, <2>3, <2>7
  <2>8. \/ e = "retry_from_blocked" /\ new \in RetryRows(row)
        \/ \E from : new \in EvidenceBlocks(row, from)
        \/ new = SequentialBranchBlock(row) \/ new = base
    BY <2>1, <2>3 DEF EventRows
  <2> QED  BY <2>5, <2>6, <2>7, <2>8
<1>7. CASE AcceptExistingPlan
  <2>1. ManualBlock(row, "plan_quality", "backlog", row.retryCount) \in TaskRows
        /\ ~Held(ManualBlock(row, "plan_quality", "backlog", row.retryCount))
    BY <1>3, BlockType, WrittenHeld DEF BlockedReasons, Statuses
  <2>2. PICK c \in TaskRows : c = CleanTo(row, "plan_ready") /\ ~Held(c)
    BY CleanToType, WrittenHeld DEF Statuses
  <2>3. [c EXCEPT !.paused = row.paused] \in TaskRows
        /\ ~Held([c EXCEPT !.paused = row.paused])
    BY <2>2 DEF TaskRows, Held
  <2>4. \/ ApiWrite(SequentialBranchBlock(row))
        \/ ApiWrite(ManualBlock(row, "plan_quality", "backlog", row.retryCount))
        \/ ApiWrite([c EXCEPT !.paused = row.paused])
    BY <1>7, <2>2 DEF AcceptExistingPlan
  <2> QED  BY <1>2, <1>5, <2>1, <2>3, <2>4
<1>8. CASE OperatorVerifiedCompletion
  <2>1. CleanTo(row, NextStatusForOperatorCloseout) \in TaskRows
        /\ ~Held(CleanTo(row, NextStatusForOperatorCloseout))
    BY CleanToType, CloseoutStatus, WrittenHeld
  <2> QED  BY <1>1, <1>8, <2>1 DEF OperatorVerifiedCompletion, WriteRow
<1>9. CASE ConfigGovernanceBlock
  <2>1. Block(row, "other", row.status, row.retryCount) \in TaskRows
        /\ ~Held(Block(row, "other", row.status, row.retryCount))
    BY <1>3, BlockType, WrittenHeld DEF BlockedReasons
  <2> QED  BY <1>2, <1>9, <2>1 DEF ConfigGovernanceBlock
<1>10. CASE BeginFastFix \/ Comment
  BY <1>10 DEF BeginFastFix, Comment
<1>11. CASE EndFastFix
  <2>1. PICK new : new = [row EXCEPT !.reworkRequested = FALSE]
    OBVIOUS
  <2>2. new \in TaskRows /\ (Held(new) => Held(row))
    BY <2>1 DEF TaskRows, Held
  <2> QED  BY <1>1, <1>11, <2>1, <2>2 DEF EndFastFix, WriteRow
<1>12. CASE EditTask
  <2>1. PICK p, a : /\ p = [row EXCEPT !.paused = ~row.paused]
                    /\ a = [row EXCEPT !.autoMode = ~row.autoMode]
    OBVIOUS
  <2>2. /\ p \in TaskRows /\ (Held(p) => Held(row))
        /\ a \in TaskRows /\ (Held(a) => Held(row))
    BY <2>1 DEF TaskRows, Held
  <2> QED  BY <1>2, <1>12, <2>1, <2>2 DEF EditTask
<1>13. CASE CreateQuestion
  <2>1. NeedsInput(row) \in TaskRows /\ ~Held(NeedsInput(row))
    BY DEF NeedsInput, TaskRows, Statuses, Held
  <2> QED  BY <1>1, <1>13, <2>1 DEF CreateQuestion, WriteRow
<1>14. CASE AnswerBatch
  <2>1. UNCHANGED <<js, runs>>
    BY <1>14 DEF AnswerBatch
  <2>2. CASE row' = row
    BY <2>1, <2>2
  <2>3. CASE row' # row
    <3>1. PICK t \in ResumeStatuses : row' = SetTaskFields([row EXCEPT !.status = t])
      BY <1>14, <2>3 DEF AnswerBatch, WriteRow
    <3>2. [row EXCEPT !.status = t] \in TaskRows /\ ~Held([row EXCEPT !.status = t])
      BY DEF ResumeStatuses, InProgressStatuses, TaskRows, Statuses, Held
    <3> QED  BY <1>1, <2>1, <3>1, <3>2
  <2> QED  BY <2>2, <2>3
<1>15. CASE SyncStatus
  <2>1. PICK e \in SyncEvents(row), p \in BOOLEAN :
          /\ EventAllowed(row, e, FALSE, FALSE)
          /\ row' = SetTaskFields([EventRow(row, e, FALSE) EXCEPT !.paused = p])
    BY <1>15 DEF SyncStatus
  <2>2. e \in HumanEvents
    BY DEF SyncEvents, HumanEvents
  <2>3. PICK n \in TaskRows : n = EventRow(row, e, FALSE) /\ ~Held(n)
    BY <1>4, <2>1, <2>2
  <2>4. [n EXCEPT !.paused = p] \in TaskRows /\ ~Held([n EXCEPT !.paused = p])
    BY <2>3 DEF TaskRows, Held
  <2>5. row' = SetTaskFields([n EXCEPT !.paused = p])
    BY <2>1, <2>3
  <2>6. UNCHANGED <<js, runs>>
    BY <1>15 DEF SyncStatus
  <2> QED  BY <1>1, <2>4, <2>5, <2>6
<1> QED
  BY <1>6, <1>7, <1>8, <1>9, <1>10, <1>11, <1>12, <1>13, <1>14, <1>15 DEF Human

(* Also with requirements intake, and with questions through the API at    *)
(* any moment, no section and no run of the agent moves a row that waits   *)
(* for an operator's input, as long as one run of the task is alive at a   *)
(* time: a second one could still write when the first made the hold.      *)
THEOREM HoldsAreLeftWithIntake ==
  ASSUME \A i, j \in Slots : i = j
  PROVE  Spec => HoldLeftToHuman
<1>1. Init => TypeInv /\ HoldInv
  BY TypeInit, InitFields DEF HoldInv, Fields
<1>2. OperatorInputHold /\ TypeInv /\ HoldInv /\ [Next]_vars
        => (TypeInv /\ HoldInv)'
  <2> SUFFICES ASSUME OperatorInputHold, TypeInv, HoldInv, [Next]_vars
               PROVE  TypeInv' /\ HoldInv'
    OBVIOUS
  <2>1. TypeInv'
    BY TypeStep
  <2>2. CASE Human
    BY <2>1, <2>2, HeldHumanStep DEF HoldInv, Held, Busy, Working
  <2>3. ASSUME NEW graceful \in BOOLEAN, Restart(graceful) PROVE HoldInv'
    BY <2>3 DEF Restart, JsIdle, NoRun, HoldInv, Busy, Working
  <2>4. CASE UNCHANGED vars
    BY <2>1, <2>4 DEF vars, HoldInv, Busy, Working
  <2> QED  BY <2>1, <2>2, <2>3, <2>4, HeldAgentStep, HeldRunStep DEF Next
<1>3. HoldInv /\ [Next]_vars
        => [row.status = "blocked_external" /\ row.blockedReason = "operator_input"
              /\ AgentStep => row' = row]_vars
  <2> SUFFICES ASSUME HoldInv, [Next]_vars, row.status = "blocked_external",
                      row.blockedReason = "operator_input", AgentStep
               PROVE  row' = row
    OBVIOUS
  <2>1. js.at = "idle" /\ \A i \in Slots : ~Working(i)
    BY DEF HoldInv, Busy
  <2>2. CASE Agent
    BY <2>1, <2>2
       DEF Agent, ReleaseStaleClaims, ListDueBlocked, ReleaseDueBlocked, ListStale,
           RecoverStale, AdvanceBacklog, Select, SkipCandidate, RuntimeGateBlock,
           NoCapableRuntimeBlock, Claim, AbandonClaim, PreStartGuard, StartStage
  <2>3. ASSUME NEW i \in Slots, Run(i) PROVE row' = row
    BY <2>1, <2>3
       DEF Run, RunProgress, RaiseQuestions, TriageQuestions, RunnerWrite,
           KeepRunnerOutcome, RefuseHandoff, Succeed, EnterReviewGate, GateRefuse,
           GateAccept, StageError, Release, Heartbeat, Working
  <2>4. CASE Human
    <3>1. UNCHANGED <<js, runs>>
      BY <2>4 DEF Human, RegularTransition, AcceptExistingPlan, ApiWrite,
           OperatorVerifiedCompletion, ConfigGovernanceBlock, BeginFastFix,
           EndFastFix, Comment, EditTask, CreateQuestion, AnswerBatch, SyncStatus
    <3> QED  BY <3>1 DEF AgentStep
  <2>5. ASSUME NEW graceful \in BOOLEAN, Restart(graceful) PROVE row' = row
    BY <2>5 DEF Restart
  <2>6. CASE UNCHANGED vars
    BY <2>6 DEF vars
  <2> QED  BY <2>2, <2>3, <2>4, <2>5, <2>6 DEF Next
<1> QED  BY <1>1, <1>2, <1>3, HoldNormalised, PTL DEF Spec, HoldLeftToHuman

-----------------------------------------------------------------------------
(* Deadlines with requirements intake.  An answer gives the claim away,    *)
(* but only of a row in needs_input, and no runner works on such a row nor *)
(* on one that a retry would bring back there.  So a runner keeps its      *)
(* claim, nobody lists its row, and no deadline meets its questions.       *)
Quiet(r) == r.status # "needs_input" /\ r.blockedFromStatus # "needs_input"

AskedRow(r) ==
  r.blockedFromStatus = "needs_input" => r.status = "blocked_external"

Running(i) == runs[i].at = "running"

(* While a runner works, this process holds the task's claim.              *)
RunnersClaimed == \A i \in Slots : Running(i) => lock = "mine"

AnswerInv ==
  /\ InWindow(row) /\ AskedRow(row)
  /\ js.at # "idle" => js.from # "needs_input"
  /\ js.at \in {"stale", "selected", "claimed"} =>
       js.status \in Resumable /\ \A i \in Slots : ~Running(i)
  /\ js.at \in {"selected", "claimed"} => row.retryAfter = FALSE /\ Quiet(row)
  /\ js.at = "claimed" => lock = "mine"
  /\ RunnersClaimed
  /\ \A i \in Slots : Running(i) =>
       row.retryAfter = FALSE /\ Quiet(row) /\ runs[i].from # "needs_input"

(* Storing a row makes it no less quiet.                                   *)
LEMMA StoredQuiet ==
  ASSUME NEW new \in TaskRows
  PROVE  /\ Quiet(SetTaskFields(new)) <=> Quiet(new)
         /\ AskedRow(SetTaskFields(new)) <=> AskedRow(new)
         /\ Quiet(new) => AskedRow(new)
  BY DEF SetTaskFields, Quiet, AskedRow, TaskRows

(* No statuses of the pipeline wait for an answer.                         *)
LEMMA ResumableQuiet ==
  /\ "needs_input" \notin Resumable /\ "blocked_external" \notin Resumable
  /\ Resumable \subseteq Statuses
  /\ \A s \in Stages : InProgress(s) \in Resumable
  BY StageStatus DEF Resumable, InProgressStatuses, InProgress, Stages, Statuses

(* What a run leaves names needs_input as the place to go back to nowhere, *)
(* unless it found it in the row.                                          *)
LEMMA RunQuiet ==
  ASSUME row \in TaskRows, NEW run \in Run0
  PROVE  /\ Quiet(row) /\ run.from # "needs_input" =>
              \A new \in RunnerRows(run) : AskedRow(new)
         /\ \A new \in RefusedHandoffs(run) \cup GateRefusals(run)
                       \cup RecoveryRows(run) \cup ClassifiedRows(run) :
              AskedRow(new)
         /\ AskedRow(PlanQualityRow(row, run.stage))
         /\ AskedRow(SuccessRow(row, run.stage))
<1> DEFINE at == InProgress(run.stage)
<1>1. run.stage \in Stages /\ at # "needs_input"
  BY ResumableQuiet DEF Run0
<1>2. \A q, from, n : /\ AskedRow(Block(row, q, from, n))
                     /\ AskedRow(ManualBlock(row, q, from, n))
  BY DEF Block, ManualBlock, AskedRow, TaskRows
<1>3. \A from : \A new \in EvidenceBlocks(row, from) : AskedRow(new)
  BY EvidenceFields DEF Fields, AskedRow
<1>4. ASSUME Quiet(row), run.from # "needs_input", NEW new \in RunnerRows(run)
      PROVE  AskedRow(new)
  <2>1. CASE run.stage \in {"requirements-analyst", "researcher", "designer", "qa"}
    BY <1>4, <2>1 DEF RunnerRows, Block, AskedRow, TaskRows
  <2>2. CASE run.stage = "planner"
    BY <1>4, <2>2 DEF RunnerRows, Block, AskedRow, TaskRows
  <2>3. CASE run.stage = "implementer"
    <3>1. AskedRow([row EXCEPT !.reworkRequested = FALSE])
      BY <1>4 DEF Quiet, AskedRow, TaskRows
    <3>2. AskedRow([Block(row, "other", "implementing", row.retryCount)
                      EXCEPT !.manualReviewRequired = FALSE,
                             !.reworkRequested = TRUE])
      BY DEF Block, AskedRow, TaskRows
    <3>3. AskedRow(ManifestFailureRow(row, run.seen))
      BY <1>2 DEF ManifestFailureRow, AskedRow, TaskRows
    <3> QED  BY <1>4, <2>3, <3>1, <3>2, <3>3 DEF RunnerRows
  <2>4. CASE run.stage \in {"plan-checker", "reviewer"}
    BY <1>4, <2>4 DEF RunnerRows
  <2> QED  BY <1>1, <2>1, <2>2, <2>3, <2>4 DEF Stages
<1>5. ASSUME NEW new \in RefusedHandoffs(run) PROVE AskedRow(new)
  <2>1. \A r \in EvidenceRework(row) : AskedRow(r)
    <3> TAKE r \in EvidenceRework(row)
    <3>1. \/ r = ManualBlock(row, "manual_review", "implementing", row.retryCount)
          \/ r.blockedFromStatus = "none"
      BY DEF EvidenceRework, TaskRows
    <3> QED  BY <1>2, <3>1 DEF AskedRow
  <2> QED  BY <1>2, <1>3, <1>5, <2>1 DEF RefusedHandoffs
<1>6. ASSUME NEW new \in GateRefusals(run) PROVE AskedRow(new)
  <2>1. AskedRow([Block(row, "operator_input", "review", 0)
                    EXCEPT !.reworkRequested = FALSE,
                           !.manualReviewRequired = FALSE])
    BY DEF Block, AskedRow, TaskRows
  <2>2. \A t : AskedRow(ReviewLoopRow(row, t))
    BY DEF ReviewLoopRow, AskedRow, TaskRows
  <2>3. \/ \E q, n : new = ManualBlock(row, q, "review", n)
        \/ new = [Block(row, "operator_input", "review", 0)
                    EXCEPT !.reworkRequested = FALSE,
                           !.manualReviewRequired = FALSE]
        \/ \E t : new = ReviewLoopRow(row, t)
        \/ new \in EvidenceBlocks(row, "review")
    BY <1>6 DEF GateRefusals
  <2> QED  BY <1>2, <1>3, <2>1, <2>2, <2>3
<1>7. ASSUME NEW new \in RecoveryRows(run) PROVE AskedRow(new)
  <2>1. AskedRow([Block(row, "operator_input", at, row.retryCount)
                    EXCEPT !.reworkRequested = FALSE,
                           !.manualReviewRequired = FALSE])
    BY DEF Block, AskedRow, TaskRows
  <2>2. AskedRow([row EXCEPT !.status = at, !.blockedReason = "other",
               !.blockedFromStatus = "none", !.retryAfter = FALSE,
               !.retryCount = Bump(row.retryCount), !.paused = FALSE,
               !.reworkRequested = FALSE, !.manualReviewRequired = FALSE])
    BY DEF AskedRow, TaskRows
  <2> QED  BY <1>2, <1>7, <2>1, <2>2 DEF RecoveryRows
<1>8. ASSUME NEW new \in ClassifiedRows(run) PROVE AskedRow(new)
  <2>1. AskedRow([row EXCEPT !.status = at, !.blockedReason = "none",
                    !.blockedFromStatus = "none", !.retryAfter = FALSE])
    BY DEF AskedRow, TaskRows
  <2>2. AskedRow([Block(row, "other", at, Bump(run.retryCount))
                    EXCEPT !.retryAfter = TRUE])
    BY DEF Block, AskedRow, TaskRows
  <2>3. \/ \E q, n : new = Block(row, q, at, n)
        \/ new = [row EXCEPT !.status = at, !.blockedReason = "none",
                    !.blockedFromStatus = "none", !.retryAfter = FALSE]
        \/ new = [Block(row, "other", at, Bump(run.retryCount))
                   EXCEPT !.retryAfter = TRUE]
    BY <1>8 DEF ClassifiedRows
  <2>4. CASE \E q, n : new = Block(row, q, at, n)
    <3>1. PICK q, n : new = Block(row, q, at, n)
      BY <2>4
    <3> QED  BY <1>2, <3>1
  <2> QED  BY <2>1, <2>2, <2>3, <2>4
<1>9. AskedRow(PlanQualityRow(row, run.stage))
  <2>1. AskedRow([Block(row, "plan_quality", at, Bump(row.retryCount))
                    EXCEPT !.manualReviewRequired = TRUE])
    BY DEF Block, AskedRow, TaskRows
  <2>2. AskedRow([row EXCEPT !.status = "planning", !.blockedReason = "plan_quality",
                 !.blockedFromStatus = at, !.retryAfter = FALSE,
                 !.retryCount = row.retryCount + 1])
    BY <1>1 DEF AskedRow, TaskRows
  <2> QED  BY <2>1, <2>2 DEF PlanQualityRow
<1>10. AskedRow(SuccessRow(row, run.stage))
  <2>1. PICK c \in TaskRows : /\ c = CleanTo(row, OnSuccess(run.stage))
                             /\ c.blockedFromStatus = "none"
    BY <1>1, StageStatus, CleanFields, CleanToType DEF Fields
  <2>2. AskedRow([c EXCEPT !.retryCount = row.retryCount,
                           !.blockedReason = "plan_quality",
                           !.blockedFromStatus = "plan_ready"])
    BY <2>1 DEF AskedRow, TaskRows
  <2> QED  BY <2>1, <2>2 DEF SuccessRow, AskedRow
<1> QED  BY <1>4, <1>5, <1>6, <1>7, <1>8, <1>9, <1>10

(* What the writes of people have in common.                               *)
KeepsQuiet(new) ==
  /\ new \in TaskRows /\ AskedRow(new)
  /\ Quiet(row) => Quiet(new)

(* They keep a row quiet where it was quiet, and leave its claim alone     *)
(* then: an answer gives a claim away only in needs_input.                 *)
LEMMA HumanQuiet ==
  ASSUME ~CreateQuestion, TypeInv, AskedRow(row), Human
  PROVE  /\ UNCHANGED <<js, runs>>
         /\ AskedRow(row')
         /\ Quiet(row) => Quiet(row') /\ lock' = lock
<1> USE DEF TypeInv, TypeOK
<1> DEFINE Goal == /\ UNCHANGED <<js, runs>>
                   /\ AskedRow(row')
                   /\ Quiet(row) => Quiet(row') /\ lock' = lock
<1>1. ASSUME NEW new, KeepsQuiet(new), row' = SetTaskFields(new)
      PROVE  AskedRow(row') /\ (Quiet(row) => Quiet(row'))
  BY <1>1, StoredQuiet DEF KeepsQuiet
<1>2. ASSUME NEW new, KeepsQuiet(new), ApiWrite(new) PROVE Goal
  BY <1>1, <1>2 DEF ApiWrite, WriteRow
<1>3. /\ row.status \in Statuses /\ row.retryCount \in RetryCounts
      /\ IntakeEnabled \in BOOLEAN
  BY LifecycleAssumption DEF TaskRows
<1>4. ASSUME NEW new \in TaskRows, new.status = "blocked_external",
             new.blockedFromStatus = row.status
      PROVE  KeepsQuiet(new)
  BY <1>4 DEF KeepsQuiet, AskedRow, Quiet
<1>5. ASSUME NEW new \in TaskRows, new.blockedFromStatus = "none",
             new.status = "needs_input" => row.blockedFromStatus = "needs_input"
      PROVE  KeepsQuiet(new)
  BY <1>5 DEF KeepsQuiet, AskedRow, Quiet
<1>6. ASSUME NEW new \in TaskRows, new.status = row.status,
             new.blockedFromStatus = row.blockedFromStatus
      PROVE  KeepsQuiet(new)
  BY <1>6 DEF KeepsQuiet, AskedRow, Quiet
<1>7. ASSUME NEW e \in HumanEvents, NEW intake \in BOOLEAN,
             NEW inputRetry \in BOOLEAN, EventAllowed(row, e, intake, inputRetry),
             NEW new, new = EventRow(row, e, intake)
      PROVE  /\ KeepsQuiet(new)
             /\ e = "retry_from_blocked" => new.blockedFromStatus = "none"
  <2>1. new \in TaskRows
    BY <1>7, EventRowType
  <2>2. ASSUME NEW t \in Statuses
        PROVE  /\ CleanTo(row, t) \in TaskRows
               /\ Fields(CleanTo(row, t), t, "none", "none", FALSE)
    BY <2>2, CleanToType, CleanFields
  <2>3. CASE e = "retry_from_blocked"
    <3>1. row.blockedFromStatus \in Statuses
      BY <1>7, <2>3 DEF EventAllowed, RetryAllowed, TaskRows
    <3>2. PICK c \in TaskRows : /\ c = CleanTo(row, row.blockedFromStatus)
                               /\ Fields(c, row.blockedFromStatus, "none", "none", FALSE)
      BY <2>2, <3>1
    <3>3. new = [c EXCEPT !.reworkRequested = row.reworkRequested]
      BY <1>7, <2>3, <3>2 DEF EventRow
    <3>4. new.blockedFromStatus = "none" /\ new.status = row.blockedFromStatus
      BY <3>2, <3>3 DEF Fields, TaskRows
    <3> QED  BY <1>5, <2>1, <3>4
  <2>4. CASE e = "cancel_task"
    <3>1. PICK c \in TaskRows : c = CleanTo(row, "blocked_external")
                               /\ c.status = "blocked_external"
      BY <2>2 DEF Statuses, Fields
    <3>2. new = [c EXCEPT !.blockedReason = "operator_cancelled",
                   !.blockedFromStatus = row.status,
                   !.manualReviewRequired = TRUE, !.paused = TRUE]
      BY <1>7, <2>4, <3>1 DEF EventRow
    <3>3. new.status = "blocked_external" /\ new.blockedFromStatus = row.status
      BY <3>1, <3>2 DEF TaskRows
    <3> QED  BY <1>4, <2>1, <2>4, <3>3
  <2>5. CASE e = "request_changes"
    <3>1. PICK c \in TaskRows : c = CleanTo(row, "implementing")
                  /\ c.status = "implementing" /\ c.blockedFromStatus = "none"
      BY <2>2 DEF Statuses, Fields
    <3>2. new = [c EXCEPT !.reworkRequested = TRUE]
      BY <1>7, <2>5, <3>1 DEF EventRow
    <3>3. new.status = "implementing" /\ new.blockedFromStatus = "none"
      BY <3>1, <3>2 DEF TaskRows
    <3> QED  BY <1>5, <2>1, <3>3
  <2>6. CASE e \in HumanEvents \ {"retry_from_blocked", "cancel_task",
                                  "request_changes"}
    <3>1. PICK t \in {"requirements_analysis", "planning", "plan_ready",
                      "implementing", "verified"} : new = CleanTo(row, t)
      BY <1>7, <2>6 DEF EventRow, HumanEvents
    <3>2. new.status = t /\ new.blockedFromStatus = "none"
      BY <2>2, <3>1 DEF Statuses, Fields
    <3> QED  BY <1>5, <2>1, <3>1, <3>2
  <2> QED  BY <2>3, <2>4, <2>5, <2>6
<1>8. KeepsQuiet(SequentialBranchBlock(row))
  <2>1. PICK b : b = ManualBlock(row, "sequential_branch", row.status, row.retryCount)
    OBVIOUS
  <2>2. b \in TaskRows /\ b.status = "blocked_external"
        /\ b.blockedFromStatus = row.status
    <3>1. b \in TaskRows
      BY <1>3, <2>1, BlockType DEF BlockedReasons
    <3> QED  BY <2>1, <3>1 DEF Block, ManualBlock, TaskRows
  <2>3. PICK n : n = SequentialBranchBlock(row)
    OBVIOUS
  <2>4. n = [b EXCEPT !.paused = TRUE]
    BY <2>1, <2>3 DEF SequentialBranchBlock
  <2>5. n \in TaskRows /\ n.status = "blocked_external"
        /\ n.blockedFromStatus = row.status
    BY <2>2, <2>4 DEF TaskRows
  <2> QED  BY <1>4, <2>3, <2>5
<1>9. ASSUME NEW e \in HumanEvents, RegularTransition(e) PROVE Goal
  <2>1. PICK new \in EventRows(row, e) : ApiWrite(new)
    BY <1>9 DEF RegularTransition
  <2>2. PICK inputRetry \in BOOLEAN : EventAllowed(row, e, IntakeEnabled, inputRetry)
    BY <1>9 DEF RegularTransition
  <2>3. PICK base : base = EventRow(row, e, IntakeEnabled)
    OBVIOUS
  <2>4. /\ KeepsQuiet(base)
        /\ e = "retry_from_blocked" => base.blockedFromStatus = "none"
    BY <1>3, <1>7, <2>2, <2>3
  <2>5. new \in TaskRows /\ base \in TaskRows
    BY <1>9, <2>1, <2>2, <2>4, ApiRowsType DEF KeepsQuiet
  <2>6. CASE e = "retry_from_blocked" /\ new \in RetryRows(row)
    <3>1. \/ new = base \/ new = [base EXCEPT !.reworkRequested = FALSE]
          \/ new = [base EXCEPT !.status = "implementing", !.reworkRequested = TRUE]
      BY <2>3, <2>6 DEF RetryRows
    <3>2. /\ new.blockedFromStatus = "none"
          /\ new.status \in {base.status, "implementing"}
      BY <2>4, <2>5, <2>6, <3>1 DEF TaskRows
    <3>3. KeepsQuiet(new)
      BY <2>4, <2>5, <3>2 DEF KeepsQuiet, AskedRow, Quiet
    <3> QED  BY <1>2, <2>1, <3>3
  <2>7. CASE new \in EvidenceBlocks(row, row.status)
    <3>1. new.status = "blocked_external" /\ new.blockedFromStatus = row.status
      BY <2>7, EvidenceFields DEF Fields
    <3> QED  BY <1>2, <1>4, <2>1, <2>5, <3>1
  <2>8. CASE new \in EvidenceBlocks(row, "done")
    <3>1. new.status = "blocked_external" /\ new.blockedFromStatus = "done"
      BY <2>8, EvidenceFields DEF Fields
    <3>2. KeepsQuiet(new)
      BY <2>5, <3>1 DEF KeepsQuiet, AskedRow, Quiet
    <3> QED  BY <1>2, <2>1, <3>2
  <2>9. CASE new = SequentialBranchBlock(row) \/ new = base
    BY <1>2, <1>8, <2>1, <2>4, <2>9
  <2>10. \/ e = "retry_from_blocked" /\ new \in RetryRows(row)
         \/ new \in EvidenceBlocks(row, row.status)
         \/ new \in EvidenceBlocks(row, "done")
         \/ new = SequentialBranchBlock(row) \/ new = base
    BY <2>1, <2>3 DEF EventRows
  <2> QED  BY <2>6, <2>7, <2>8, <2>9, <2>10
<1>10. CASE AcceptExistingPlan
  <2>1. PICK m : m = ManualBlock(row, "plan_quality", "backlog", row.retryCount)
    OBVIOUS
  <2>2. m \in TaskRows /\ m.status = "blocked_external"
        /\ m.blockedFromStatus = "backlog"
    <3>1. m \in TaskRows
      BY <1>3, <2>1, BlockType DEF BlockedReasons, Statuses
    <3> QED  BY <2>1, <3>1 DEF Block, ManualBlock, TaskRows
  <2>3. KeepsQuiet(m)
    BY <2>2 DEF KeepsQuiet, AskedRow, Quiet
  <2>4. PICK c \in TaskRows : c = CleanTo(row, "plan_ready")
                 /\ c.status = "plan_ready" /\ c.blockedFromStatus = "none"
    <3>1. "plan_ready" \in Statuses
      BY DEF Statuses
    <3> QED  BY <3>1, CleanToType, CleanFields DEF Fields
  <2>5. PICK p : p = [c EXCEPT !.paused = row.paused]
    OBVIOUS
  <2>6. p \in TaskRows /\ p.status = "plan_ready" /\ p.blockedFromStatus = "none"
    BY <2>4, <2>5 DEF TaskRows
  <2>7. KeepsQuiet(p)
    BY <1>5, <2>6
  <2>8. ApiWrite(SequentialBranchBlock(row)) \/ ApiWrite(m) \/ ApiWrite(p)
    BY <1>10, <2>1, <2>4, <2>5 DEF AcceptExistingPlan
  <2> QED  BY <1>2, <1>8, <2>3, <2>7, <2>8
<1>11. CASE OperatorVerifiedCompletion
  <2>1. NextStatusForOperatorCloseout # "needs_input"
    BY DEF NextStatusForOperatorCloseout, AfterReview
  <2>2. PICK c \in TaskRows : /\ c = CleanTo(row, NextStatusForOperatorCloseout)
                             /\ c.status # "needs_input"
                             /\ c.blockedFromStatus = "none"
    <3>1. PICK t \in Statuses : t = NextStatusForOperatorCloseout
      BY CloseoutStatus
    <3>2. CleanTo(row, t) \in TaskRows /\ Fields(CleanTo(row, t), t, "none", "none", FALSE)
      BY CleanToType, CleanFields
    <3> QED  BY <2>1, <3>1, <3>2 DEF Fields
  <2>3. KeepsQuiet(c)
    BY <1>5, <2>2
  <2> QED  BY <1>1, <1>11, <2>2, <2>3 DEF OperatorVerifiedCompletion, WriteRow
<1>12. CASE ConfigGovernanceBlock
  <2>1. PICK b : b = Block(row, "other", row.status, row.retryCount)
    OBVIOUS
  <2>2. b \in TaskRows /\ b.status = "blocked_external"
        /\ b.blockedFromStatus = row.status
    <3>1. b \in TaskRows
      BY <1>3, <2>1, BlockType DEF BlockedReasons
    <3> QED  BY <2>1, <3>1 DEF Block, ManualBlock, TaskRows
  <2> QED  BY <1>2, <1>4, <1>12, <2>1, <2>2 DEF ConfigGovernanceBlock
<1>13. CASE BeginFastFix \/ Comment
  BY <1>13 DEF BeginFastFix, Comment
<1>14. CASE EndFastFix
  <2>1. PICK new : new = [row EXCEPT !.reworkRequested = FALSE]
    OBVIOUS
  <2>2. KeepsQuiet(new)
    BY <1>6, <2>1 DEF TaskRows
  <2> QED  BY <1>1, <1>14, <2>1, <2>2 DEF EndFastFix, WriteRow
<1>15. CASE EditTask
  <2>1. PICK p, a : /\ p = [row EXCEPT !.paused = ~row.paused]
                    /\ a = [row EXCEPT !.autoMode = ~row.autoMode]
    OBVIOUS
  <2>2. KeepsQuiet(p) /\ KeepsQuiet(a)
    BY <1>6, <2>1 DEF TaskRows
  <2> QED  BY <1>2, <1>15, <2>1, <2>2 DEF EditTask
<1>16. CASE AnswerBatch
  <2>1. CASE row.status = "needs_input"
    <3>1. PICK t \in ResumeStatuses : row' = SetTaskFields([row EXCEPT !.status = t])
      BY <1>16, <2>1 DEF AnswerBatch, WriteRow
    <3>2. PICK new : new = [row EXCEPT !.status = t]
      OBVIOUS
    <3>3. new \in TaskRows /\ new.blockedFromStatus = row.blockedFromStatus
      BY <3>2 DEF ResumeStatuses, InProgressStatuses, TaskRows, Statuses
    <3>4. KeepsQuiet(new)
      BY <2>1, <3>3 DEF KeepsQuiet, AskedRow, Quiet
    <3>5. UNCHANGED <<js, runs>> /\ ~Quiet(row)
      BY <1>16, <2>1 DEF AnswerBatch, Quiet
    <3> QED  BY <1>1, <3>1, <3>2, <3>4, <3>5
  <2>2. CASE row.status # "needs_input"
    BY <1>16, <2>2 DEF AnswerBatch
  <2> QED  BY <2>1, <2>2
<1>17. CASE SyncStatus
  <2>1. PICK e \in SyncEvents(row), p \in BOOLEAN :
          /\ EventAllowed(row, e, FALSE, FALSE)
          /\ row' = SetTaskFields([EventRow(row, e, FALSE) EXCEPT !.paused = p])
    BY <1>17 DEF SyncStatus
  <2>2. e \in HumanEvents
    BY DEF SyncEvents, HumanEvents
  <2>3. PICK n : n = EventRow(row, e, FALSE)
    OBVIOUS
  <2>4. KeepsQuiet(n)
    BY <1>7, <2>1, <2>2, <2>3
  <2>5. PICK m : m = [n EXCEPT !.paused = p]
    OBVIOUS
  <2>6. KeepsQuiet(m)
    BY <2>4, <2>5 DEF KeepsQuiet, TaskRows, AskedRow, Quiet
  <2>7. row' = SetTaskFields(m) /\ UNCHANGED <<js, runs, lock>>
    BY <1>17, <2>1, <2>3, <2>5 DEF SyncStatus
  <2> QED  BY <1>1, <2>6, <2>7
<1> QED
  BY <1>9, <1>10, <1>11, <1>12, <1>13, <1>14, <1>15, <1>16, <1>17 DEF Human

(* The sections of the agent.                                              *)
LEMMA AnswerAgentStep ==
  ASSUME TypeInv, AnswerInv, Agent
  PROVE  AnswerInv'
<1> USE DEF TypeInv, TypeOK
<1>0. JsIdle.at = "idle"
  BY DEF JsIdle
<1>1. EventLoopFree => js.at = "idle"
  BY <1>0 DEF EventLoopFree
<1>2. /\ js.stage \in Stages /\ js.status \in Statuses
      /\ js.retryCount \in RetryCounts /\ "other" \in BlockedReasons
      /\ row.retryAfter \in BOOLEAN
  BY DEF JsSections, BlockedReasons, TaskRows
<1>3. ASSUME UNCHANGED <<row, lock, runs>>, js'.at = "idle" PROVE AnswerInv'
  BY <1>3 DEF AnswerInv, RunnersClaimed, Running
<1>4. ASSUME UNCHANGED runs, js'.at = "idle", InWindow(row'), AskedRow(row'),
             \A i \in Slots : ~Running(i)
      PROVE  AnswerInv'
  BY <1>4 DEF AnswerInv, RunnersClaimed, Running
<1>5. ASSUME NEW new \in TaskRows, InWindow(new), AskedRow(new),
             row' \in {SetTaskFields(new), CoordinatorWrite(new)}
      PROVE  InWindow(row') /\ AskedRow(row')
  <2>1. InWindow(row) /\ AskedRow(row)
    BY DEF AnswerInv
  <2> QED  BY <1>5, <2>1, StoredWindow, StoredQuiet DEF CoordinatorWrite
<1>6. CASE ReleaseStaleClaims
  <2>1. UNCHANGED <<row, js, runs>> /\ lock = "dead" /\ js.at = "idle"
    BY <1>1, <1>6 DEF ReleaseStaleClaims
  <2> QED  BY <2>1 DEF AnswerInv, RunnersClaimed, Running
<1>7. CASE ListDueBlocked
  <2>1. /\ UNCHANGED <<row, lock, runs>> /\ js'.at = "due"
        /\ js'.from = row.blockedFromStatus /\ row.retryAfter
    BY <1>7 DEF ListDueBlocked, IsDueBlocked, JsSection
  <2>2. js'.from # "needs_input"
    BY <2>1, ResumableQuiet DEF AnswerInv, InWindow
  <2> QED  BY <2>1, <2>2 DEF AnswerInv, RunnersClaimed, Running
<1>8. CASE ListStale
  <2>1. /\ UNCHANGED <<row, lock, runs>> /\ js'.at = "stale" /\ js'.from = "none"
        /\ js'.status \in Resumable /\ lock = "free"
    BY <1>8 DEF ListStale, JsSection, Resumable
  <2>2. \A i \in Slots : ~Running(i)
    BY <2>1 DEF AnswerInv, RunnersClaimed
  <2> QED  BY <2>1, <2>2 DEF AnswerInv, RunnersClaimed, Running
<1>9. ASSUME NEW s \in Stages, Select(s) PROVE AnswerInv'
  <2>1. /\ UNCHANGED <<row, lock, runs>> /\ js'.at = "selected"
        /\ js'.from = "none" /\ js'.status = row.status /\ lock = "free"
    BY <1>9 DEF Select, JsSection, IsCandidate
  <2>2. row.status \in Resumable
    BY <1>9, ResumableQuiet DEF Select, IsCandidate, Resumable
  <2>3. \A i \in Slots : ~Running(i)
    BY <2>1 DEF AnswerInv, RunnersClaimed
  <2>4. row.retryAfter = FALSE /\ Quiet(row)
    BY <1>2, <2>2, ResumableQuiet DEF AnswerInv, InWindow, AskedRow, Quiet
  <2> QED  BY <2>1, <2>2, <2>3, <2>4 DEF AnswerInv, RunnersClaimed, Running
<1>10. CASE AdvanceBacklog
  <2>1. PICK t \in {"requirements_analysis", "planning"} : row' = CleanTo(row, t)
    BY <1>10 DEF AdvanceBacklog, WriteRow
  <2>2. t \in Statuses
    BY DEF Statuses
  <2>3. /\ row'.status = t /\ row'.blockedFromStatus = "none"
        /\ row'.retryAfter = FALSE
    BY <2>1, <2>2, CleanFields, NoDeadline DEF Fields
  <2>4. UNCHANGED <<js, lock, runs>> /\ js.at = "idle"
    BY <1>1, <1>10 DEF AdvanceBacklog
  <2> QED  BY <2>3, <2>4
           DEF AnswerInv, RunnersClaimed, Running, InWindow, AskedRow, Quiet
<1>11. CASE SkipCandidate
  BY <1>0, <1>3, <1>11 DEF SkipCandidate
<1>12. CASE Claim
  <2>1. /\ UNCHANGED <<row, runs>> /\ js'.at = "claimed" /\ lock' = "mine"
        /\ js'.from = js.from /\ js'.status = js.status /\ js.at = "selected"
    BY <1>12 DEF Claim, JsSections
  <2> QED  BY <2>1 DEF AnswerInv, RunnersClaimed, Running
<1>13. CASE AbandonClaim
  <2>1. UNCHANGED <<row, runs>> /\ js.at = "claimed" /\ js'.at = "idle"
    BY <1>0, <1>13 DEF AbandonClaim
  <2> QED  BY <1>4, <2>1 DEF AnswerInv
<1>14. CASE ReleaseDueBlocked
  <2>1. PICK new : new = ReleasedRow(row, js.from, js.retryCount)
    OBVIOUS
  <2>2. new \in TaskRows
    BY <1>2, <1>14, <2>1, ReleasedRowType DEF ReleaseDueBlocked, JsSections
  <2>3. /\ new.status = js.from /\ new.blockedFromStatus = "none"
        /\ new.retryAfter = FALSE /\ js.from # "needs_input"
    BY <1>14, <2>1 DEF ReleasedRow, TaskRows, ReleaseDueBlocked, AnswerInv
  <2>4. row' = SetTaskFields(new) /\ UNCHANGED <<lock, runs>> /\ js'.at = "idle"
    BY <1>0, <1>14, <2>1 DEF ReleaseDueBlocked, WriteRow
  <2>5. row'.retryAfter \in BOOLEAN
    BY <2>2, <2>4, SetTaskFieldsType DEF TaskRows
  <2>6. row'.retryAfter = FALSE
    BY <2>2, <2>3, <2>4, <2>5, StoredWindow
  <2>7. row'.status = js.from /\ row'.blockedFromStatus = "none"
    BY <2>2, <2>3, <2>4, StoredFields DEF Fields
  <2>8. InWindow(row') /\ AskedRow(row') /\ Quiet(row')
    BY <2>3, <2>6, <2>7 DEF InWindow, AskedRow, Quiet
  <2> QED  BY <2>4, <2>6, <2>8 DEF AnswerInv, RunnersClaimed, Running
<1>15. ASSUME NEW new \in TaskRows, new.status = "blocked_external",
              new.blockedFromStatus = js.status, js.at \in {"stale", "selected", "claimed"}
       PROVE  InWindow(new) /\ AskedRow(new)
  BY <1>15 DEF AnswerInv, InWindow, AskedRow
<1>16. CASE RecoverStale
  <2>1. PICK new : new = StaleRow(row, js.status, js.retryCount)
    OBVIOUS
  <2>2. new \in TaskRows
    BY <1>2, <2>1, StaleRowType
  <2>3. new.status = "blocked_external" /\ new.blockedFromStatus = js.status
    BY <2>1 DEF StaleRow, Block, TaskRows
  <2>4. /\ row' = SetTaskFields(new) /\ UNCHANGED <<lock, runs>>
        /\ js'.at = "idle" /\ js.at = "stale"
    BY <1>0, <1>16, <2>1 DEF RecoverStale, WriteRow
  <2>5. InWindow(row') /\ AskedRow(row')
    BY <1>5, <1>15, <2>2, <2>3, <2>4
  <2> QED  BY <1>4, <2>4, <2>5 DEF AnswerInv
<1>17. PICK b : b = Block(row, "other", js.status, js.retryCount)
  OBVIOUS
<1>18. /\ b \in TaskRows /\ b.status = "blocked_external"
       /\ b.blockedFromStatus = js.status
  <2>1. b \in TaskRows
    BY <1>2, <1>17, BlockType
  <2> QED  BY <1>17, <2>1 DEF Block, TaskRows
<1>19. PICK m : m = [b EXCEPT !.manualReviewRequired = FALSE]
  OBVIOUS
<1>20. /\ m \in TaskRows /\ m.status = "blocked_external"
       /\ m.blockedFromStatus = js.status
  BY <1>18, <1>19 DEF TaskRows
<1>21. CASE RuntimeGateBlock
  <2>1. row' = [Block(row, "other", js.status, Bump(js.retryCount))
                  EXCEPT !.retryAfter = TRUE]
    BY <1>21 DEF RuntimeGateBlock, WriteRow
  <2>2. row'.status = "blocked_external" /\ row'.blockedFromStatus = js.status
    BY <2>1 DEF Block, TaskRows
  <2>3. js.at = "selected" /\ js'.at = "idle" /\ UNCHANGED runs
    BY <1>0, <1>21 DEF RuntimeGateBlock
  <2>4. InWindow(row') /\ AskedRow(row')
    BY <2>2, <2>3 DEF AnswerInv, InWindow, AskedRow
  <2> QED  BY <1>4, <2>3, <2>4 DEF AnswerInv
<1>22. CASE NoCapableRuntimeBlock
  <2>1. /\ row' = CoordinatorWrite(m) /\ UNCHANGED runs
        /\ js'.at = "idle" /\ js.at = "selected"
    BY <1>0, <1>17, <1>19, <1>22 DEF NoCapableRuntimeBlock, WriteRow
  <2>2. InWindow(row') /\ AskedRow(row')
    BY <1>5, <1>15, <1>20, <2>1
  <2> QED  BY <1>4, <2>1, <2>2 DEF AnswerInv
<1>23. CASE PreStartGuard
  <2>1. PICK new \in PreStartRows : row' = CoordinatorWrite(new)
    BY <1>23 DEF PreStartGuard, WriteRow
  <2>2. UNCHANGED runs /\ js'.at = "idle" /\ js.at = "claimed"
    BY <1>0, <1>23 DEF PreStartGuard
  <2>3. CASE new = m
    <3>1. InWindow(row') /\ AskedRow(row')
      BY <1>5, <1>15, <1>20, <2>1, <2>2, <2>3
    <3> QED  BY <1>4, <2>2, <3>1 DEF AnswerInv
  <2>4. ASSUME NEW t \in {"requirements_analysis", "research", "design"},
               new = [row EXCEPT !.status = t, !.blockedReason = "none",
               !.blockedFromStatus = "none", !.retryAfter = FALSE,
               !.retryCount = js.retryCount,
               !.manualReviewRequired = FALSE]
        PROVE  AnswerInv'
    <3>1. new \in TaskRows /\ new.blockedFromStatus = "none" /\ new.retryAfter = FALSE
      BY <1>2, <2>4 DEF TaskRows, Statuses, BlockedReasons
    <3>2. InWindow(new) /\ AskedRow(new)
      BY <3>1 DEF InWindow, AskedRow
    <3>3. InWindow(row') /\ AskedRow(row')
      BY <1>5, <2>1, <3>1, <3>2
    <3> QED  BY <1>4, <2>2, <3>3 DEF AnswerInv
  <2>5. \/ new = m
        \/ \E t \in {"requirements_analysis", "research", "design"} :
             new = [row EXCEPT !.status = t, !.blockedReason = "none",
               !.blockedFromStatus = "none", !.retryAfter = FALSE,
               !.retryCount = js.retryCount,
               !.manualReviewRequired = FALSE]
    BY <1>17, <1>19 DEF PreStartRows
  <2> QED  BY <2>3, <2>4, <2>5
<1>24. ASSUME NEW i \in Slots, StartStage(i) PROVE AnswerInv'
  <2>1. PICK new : new = [row EXCEPT !.status = InProgress(js.stage)]
    OBVIOUS
  <2>2. /\ js.at = "claimed" /\ row.retryAfter = FALSE /\ Quiet(row)
        /\ lock = "mine" /\ \A j \in Slots : ~Running(j)
    BY <1>24 DEF StartStage, AnswerInv
  <2>3. new \in TaskRows /\ new.retryAfter = FALSE /\ Quiet(new)
    BY <1>2, <2>1, <2>2, ResumableQuiet DEF TaskRows, Quiet
  <2>4. row' = CoordinatorWrite(new) /\ js'.at = "idle" /\ lock' = lock
    BY <1>0, <1>24, <2>1 DEF StartStage, WriteRow
  <2>5. row' = row \/ row' = SetTaskFields(new)
    BY <2>4 DEF CoordinatorWrite
  <2>6. row'.retryAfter = FALSE /\ Quiet(row')
    <3>1. SetTaskFields(new).retryAfter \in BOOLEAN
      BY <2>3, SetTaskFieldsType DEF TaskRows
    <3> QED  BY <2>2, <2>3, <2>5, <3>1, StoredWindow, StoredQuiet
  <2>7. InWindow(row') /\ AskedRow(row')
    BY <2>6 DEF InWindow, AskedRow, Quiet
  <2>8. runs'[i] = NewRun(row') /\ \A j \in Slots \ {i} : runs'[j] = runs[j]
    BY <1>24 DEF StartStage
  <2>9. runs'[i].from # "needs_input"
    BY <2>6, <2>8 DEF NewRun, Quiet
  <2> QED  BY <2>2, <2>4, <2>6, <2>7, <2>8, <2>9
           DEF AnswerInv, RunnersClaimed, Running
<1> QED
  BY <1>6, <1>7, <1>8, <1>9, <1>10, <1>11, <1>12, <1>13, <1>14, <1>16, <1>21,
     <1>22, <1>23, <1>24 DEF Agent

(* The steps of a run: it leaves a deadline only when it is over.          *)
LEMMA AnswerRunStep ==
  ASSUME \A j, k \in Slots : j = k, TypeInv, AnswerInv, NEW i \in Slots, Run(i)
  PROVE  AnswerInv'
<1> USE DEF TypeInv, TypeOK
<1>1. js.at = "idle" /\ UNCHANGED js
  BY DEF Run, RunProgress, JsIdle, RaiseQuestions, TriageQuestions, RunnerWrite,
         KeepRunnerOutcome, RefuseHandoff, Succeed, EnterReviewGate, GateRefuse,
         GateAccept, StageError, Release, FinishRun, Heartbeat
<1>2. runs[i] \in Run0 /\ runs[i].stage \in Stages
  BY DEF Run0
<1>3. ASSUME runs'[i].at # "running", InWindow(row'), AskedRow(row')
      PROVE  AnswerInv'
  BY <1>1, <1>3 DEF AnswerInv, RunnersClaimed, Running
<1>4. ASSUME Running(i)
      PROVE  /\ row.retryAfter = FALSE /\ Quiet(row) /\ runs[i].from # "needs_input"
  BY <1>4 DEF AnswerInv
<1>5. InWindow(row) /\ AskedRow(row)
  BY DEF AnswerInv
<1>6. /\ Returned(runs[i]).at = "returned" /\ Finished.at = "finally"
      /\ NoRun.at = "none"
  BY <1>2 DEF Returned, Finished, NoRun, Run0
<1>7. CASE Heartbeat(i)
  BY <1>1, <1>7 DEF Heartbeat, AnswerInv, RunnersClaimed, Running
<1>8. CASE Release(i) \/ KeepRunnerOutcome(i) \/ EnterReviewGate(i)
  <2>1. row' = row /\ runs'[i].at # "running"
    BY <1>2, <1>6, <1>8 DEF Release, KeepRunnerOutcome, EnterReviewGate, Run0
  <2> QED  BY <1>3, <1>5, <2>1
<1>9. ASSUME NEW new \in TaskRows, new.retryAfter = FALSE, AskedRow(new),
             row' = SetTaskFields(new), runs'[i] = Returned(runs[i])
      PROVE  AnswerInv'
  <2>1. InWindow(new)
    BY <1>9 DEF InWindow
  <2>2. InWindow(row') /\ AskedRow(row')
    BY <1>9, <2>1, StoredWindow, StoredQuiet
  <2> QED  BY <1>3, <1>6, <1>9, <2>2
<1>10. CASE RaiseQuestions(i)
  <2>1. /\ Running(i) /\ runs'[i] = Returned(runs[i])
        /\ row' = SetTaskFields(NeedsInput(row))
    BY <1>10 DEF RaiseQuestions, WriteRow, Running
  <2>2. /\ NeedsInput(row) \in TaskRows /\ NeedsInput(row).retryAfter = FALSE
        /\ AskedRow(NeedsInput(row))
    BY <1>4, <2>1 DEF NeedsInput, TaskRows, Statuses, AskedRow, Quiet
  <2> QED  BY <1>9, <2>1, <2>2
<1>11. CASE TriageQuestions(i)
  <2>1. PICK b : b = Block(row, "questions_triage", row.status, row.retryCount)
    OBVIOUS
  <2>2. PICK new : new = [b EXCEPT !.manualReviewRequired = TRUE]
    OBVIOUS
  <2>3. runs'[i] = Returned(runs[i]) /\ row' = SetTaskFields(new)
    BY <1>11, <2>1, <2>2 DEF TriageQuestions, WriteRow
  <2>4. row.status \in Statuses /\ row.retryCount \in RetryCounts
        /\ "questions_triage" \in BlockedReasons
    BY DEF TaskRows, BlockedReasons
  <2>5. b \in TaskRows
    BY <2>1, <2>4, BlockType
  <2>6. b.status = "blocked_external" /\ b.retryAfter = FALSE
    BY <2>1 DEF Block, TaskRows
  <2>7. new \in TaskRows /\ new.status = "blocked_external" /\ new.retryAfter = FALSE
    BY <2>2, <2>5, <2>6 DEF TaskRows
  <2> QED  BY <1>9, <2>3, <2>7 DEF AskedRow
<1>12. CASE RunnerWrite(i)
  <2>1. PICK new \in RunnerRows(runs[i]) : row' = SetTaskFields(new)
    BY <1>12 DEF RunnerWrite, WriteRow
  <2>2. Running(i) /\ runs'[i] = Returned(runs[i])
    BY <1>12 DEF RunnerWrite, Running
  <2>3. new \in TaskRows
    BY <1>2, <2>1, RunRowsType
  <2>4. new.retryAfter = FALSE
    BY <1>2, <1>4, <2>1, <2>2, RunRowsWindow
  <2>5. AskedRow(new)
    BY <1>2, <1>4, <2>1, <2>2, RunQuiet
  <2> QED  BY <1>9, <2>1, <2>2, <2>3, <2>4, <2>5
<1>13. ASSUME NEW new \in TaskRows, InWindow(new), AskedRow(new), FinishRun(i, new)
       PROVE  AnswerInv'
  <2>1. row' = CoordinatorWrite(new) /\ runs'[i] = Finished
    BY <1>13 DEF FinishRun, WriteRow
  <2>2. InWindow(row') /\ AskedRow(row')
    BY <1>5, <1>13, <2>1, StoredWindow, StoredQuiet DEF CoordinatorWrite
  <2> QED  BY <1>3, <1>6, <2>1, <2>2
<1>14. ASSUME NEW new, FinishRun(i, new),
              \/ new \in RefusedHandoffs(runs[i]) \cup GateRefusals(runs[i])
                         \cup RecoveryRows(runs[i]) \cup ClassifiedRows(runs[i])
              \/ new = PlanQualityRow(row, runs[i].stage)
              \/ new = SuccessRow(row, runs[i].stage)
       PROVE  AnswerInv'
  <2>1. new \in TaskRows
    BY <1>2, <1>14, RunRowsType, PlanQualityRowType, SuccessRowType
  <2>2. InWindow(new)
    BY <1>2, <1>14, RunRowsWindow
  <2>3. AskedRow(new)
    BY <1>2, <1>14, RunQuiet
  <2> QED  BY <1>13, <1>14, <2>1, <2>2, <2>3
<1>15. ASSUME FinishRun(i, CleanTo(row, AfterReview)) PROVE AnswerInv'
  <2>1. PICK t \in Statuses : t = AfterReview
    BY <1>2, StageStatus
  <2>2. PICK c \in TaskRows : c = CleanTo(row, t)
    BY CleanToType
  <2>3. c.blockedFromStatus = "none" /\ c.retryAfter = FALSE
    BY <2>2, CleanFields, NoDeadline DEF Fields
  <2>4. InWindow(c) /\ AskedRow(c)
    BY <2>3 DEF InWindow, AskedRow
  <2> QED  BY <1>13, <1>15, <2>1, <2>2, <2>4
<1>16. CASE RefuseHandoff(i)
  BY <1>14, <1>16 DEF RefuseHandoff
<1>17. CASE GateRefuse(i)
  BY <1>14, <1>17 DEF GateRefuse
<1>18. CASE StageError(i)
  BY <1>14, <1>18 DEF StageError
<1>19. CASE Succeed(i)
  BY <1>14, <1>15, <1>19 DEF Succeed
<1>20. CASE GateAccept(i)
  BY <1>15, <1>20 DEF GateAccept
<1> QED
  BY <1>7, <1>8, <1>10, <1>11, <1>12, <1>16, <1>17, <1>18, <1>19, <1>20
     DEF Run, RunProgress

(* With requirements intake too, whatever the runners ask and people       *)
(* answer, a row with a retry deadline is blocked and knows a pipeline     *)
(* status to go back to, and no answer takes the claim of a runner that is *)
(* still working.  It takes one run of the task at a time, and no question *)
(* through the API: such a question carries a deadline into needs_input.   *)
THEOREM DeadlinesReleasableWithIntake ==
  ASSUME MaxQuestions = 0, \A i, j \in Slots : i = j
  PROVE  Spec => [](RetryWindow /\ RunnersClaimed)
<1>1. Init => TypeInv /\ AnswerInv
  <2> SUFFICES ASSUME Init PROVE TypeInv /\ AnswerInv
    OBVIOUS
  <2>1. TypeInv
    BY TypeInit
  <2>2. DeadlineInv
    BY DeadlineInit
  <2>3. AskedRow(row) /\ js.at = "idle" /\ \A i \in Slots : runs[i].at = "none"
    BY InitFields DEF AskedRow, Fields, Init, JsIdle, NoRun
  <2> QED  BY <2>1, <2>2, <2>3 DEF AnswerInv, DeadlineInv, RunnersClaimed, Running
<1>2. TypeInv /\ AnswerInv /\ [Next]_vars => (TypeInv /\ AnswerInv)'
  <2> SUFFICES ASSUME TypeInv, AnswerInv, [Next]_vars PROVE TypeInv' /\ AnswerInv'
    OBVIOUS
  <2>1. TypeInv'
    BY TypeStep
  <2>2. CASE Human
    <3>1. ~CreateQuestion
      BY DEF CreateQuestion, TypeInv, TypeOK
    <3>2. InWindow(row) /\ AskedRow(row)
      BY DEF AnswerInv
    <3>3. /\ UNCHANGED <<js, runs>> /\ AskedRow(row')
          /\ Quiet(row) => Quiet(row') /\ lock' = lock
      BY <2>2, <3>1, <3>2, HumanQuiet
    <3>4. InWindow(row') /\ (row'.retryAfter => row.retryAfter)
      BY <2>2, <3>1, <3>2, HumanWindow
    <3>5. row'.retryAfter \in BOOLEAN
      BY <2>1 DEF TypeInv, TypeOK, TaskRows
    <3>6. row.retryAfter = FALSE => row'.retryAfter = FALSE
      BY <3>4, <3>5
    <3>7. AnswerInv'
      BY <3>3, <3>4, <3>6 DEF AnswerInv, RunnersClaimed, Running
    <3> QED  BY <2>1, <3>7
  <2>3. ASSUME NEW graceful \in BOOLEAN, Restart(graceful) PROVE AnswerInv'
    BY <2>3 DEF Restart, JsIdle, NoRun, AnswerInv, RunnersClaimed, Running
  <2>4. CASE UNCHANGED vars
    BY <2>1, <2>4 DEF vars, AnswerInv, RunnersClaimed, Running
  <2> QED  BY <2>1, <2>2, <2>3, <2>4, AnswerAgentStep, AnswerRunStep DEF Next
<1>3. AnswerInv => RetryWindow /\ RunnersClaimed
  BY DEF AnswerInv, InWindow, RetryWindow, Resumable
<1> QED  BY <1>1, <1>2, <1>3, PTL DEF Spec
=============================================================================
