--------------------------- MODULE QuestionBatches ---------------------------
(***************************************************************************)
(* The requirement questions of one task: batches raised by the analyst,   *)
(* by a stage's run and through the API, and the answers to them           *)
(* (packages/data, requirementsAnalyst.ts, raiseQuestions.ts, the task     *)
(* routes).                                                                *)
(*                                                                         *)
(* A question is its batch and its idempotency key; the text of questions  *)
(* and answers is left out.  The planner stands for the stages after the   *)
(* analysis, "idle" for the statuses between and after stages, and         *)
(* "cancelled" for blocked_external with the reason operator_cancelled.    *)
(* Each call is one step: better-sqlite3 is synchronous and none of them   *)
(* awaits.                                                                 *)
(***************************************************************************)
EXTENDS Naturals, FiniteSets

CONSTANTS
  Keys,            \* idempotency keys of questions
  Unkeyed,         \* the ones that stand for questions without a key
  Templates,       \* keys of the analyst's own questions
  MAX_CYCLES,      \* AIF_REQUIREMENTS_MAX_CYCLES
  MaxBatches,      \* bound on the batches of the task
  AutoResume,      \* values of autoResume: a request's or the environment's
  MaxReturns       \* bound on retries and reanalyses

ASSUME QuestionAssumption ==
  /\ Unkeyed \subseteq Keys /\ Templates \subseteq Keys \ Unkeyed
  /\ MAX_CYCLES \in Nat /\ MaxBatches \in Nat /\ MaxReturns \in Nat
  /\ AutoResume \subseteq BOOLEAN

VARIABLES
  qStatus,    \* tasks.status
  qFrom,      \* blockedFromStatus
  qRun,       \* the stage whose run is under way, or "none"
  audit,      \* taskIntent = "audit"
  cycles,     \* requirementsCycleCount: the number of the latest batch
  question,   \* state of the question with a key in a batch
  blocking,   \* keys of the blocking questions of a batch
  target,     \* targetResumeStage of a batch
  active,     \* needsInputBatchId, 0 for null
  returns     \* how often the task was sent back

questionVars == <<qStatus, qFrom, qRun, audit, cycles, question, blocking,
                  target, active, returns>>

Batches == 1 .. MaxBatches
ResumeStages == {"requirements_analysis", "planning"}
Held == {"needs_input", "cancelled"}

QuestionsInit ==
  /\ qStatus = "requirements_analysis" /\ qFrom = "none" /\ qRun = "none"
  /\ audit \in BOOLEAN
  /\ cycles = 0
  /\ question = [b \in Batches |-> [k \in Keys |-> "none"]]
  /\ blocking = [b \in Batches |-> {}]
  /\ target = [b \in Batches |-> "requirements_analysis"]
  /\ active = 0 /\ returns = 0

-----------------------------------------------------------------------------
(* Queries                                                                 *)

OpenIn(b) == {k \in Keys : question[b][k] = "open"}
OpenBlocking == {b \in Batches : OpenIn(b) \cap blocking[b] # {}}
OpenBatches == {b \in Batches : OpenIn(b) # {}}

(* hasActiveRequirementQuestionKey, hasAnsweredRequirementQuestionKey      *)
HasKey(k, states) ==
  k \notin Unkeyed /\ \E b \in Batches : question[b][k] \in states

(* The first of the batches listed: the one of the latest cycle.           *)
Latest(bs) == CHOOSE b \in bs : \A c \in bs : c <= b

-----------------------------------------------------------------------------
(* createTaskRequirementQuestionBatch                                      *)

Fresh(ks) == {k \in ks : ~HasKey(k, {"open", "answered", "resolved"})}

CreateBatch(ks, hard, resume) ==
  LET b == cycles + 1
      new == Fresh(ks)
  IN  /\ new # {}
      /\ b \in Batches
      /\ cycles' = b
      /\ question' = [question EXCEPT
           ![b] = [k \in Keys |-> IF k \in new THEN "open" ELSE "none"]]
      /\ blocking' = [blocking EXCEPT ![b] = new \cap hard]
      /\ target' = [target EXCEPT ![b] = resume]
      /\ IF new \cap hard # {}
         THEN qStatus' = "needs_input" /\ active' = b
         ELSE UNCHANGED <<qStatus, active>>

NothingNew(ks) ==
  Fresh(ks) = {} /\ UNCHANGED <<cycles, question, blocking, target>>

MoveTo(status) ==
  qStatus' = status
    /\ UNCHANGED <<cycles, question, blocking, target, active>>

-----------------------------------------------------------------------------
(* Runs                                                                    *)

StartStage ==
  /\ qRun = "none" /\ qStatus \in ResumeStages
  /\ qRun' = qStatus
  /\ UNCHANGED <<qStatus, qFrom, audit, cycles, question, blocking, target,
                 active, returns>>

(* runRequirementsAnalyst of an audit                                      *)
AnalystSkips ==
  /\ audit
  /\ question' = [b \in Batches |-> [k \in Keys |->
       IF question[b][k] = "open" THEN "resolved" ELSE question[b][k]]]
  /\ qStatus' = "requirements_analysis" /\ active' = 0
  /\ UNCHANGED <<qFrom, cycles, blocking, target>>

AnalystFindsOpen ==
  /\ ~audit /\ OpenBlocking # {}
  /\ qStatus' = "needs_input"
  /\ active' = IF active # 0 THEN active
               ELSE Latest({b \in Batches : b <= cycles})
  /\ UNCHANGED <<qFrom, cycles, question, blocking, target>>

AnalystGivesUp ==
  /\ ~audit /\ OpenBlocking = {} /\ cycles >= MAX_CYCLES
  /\ MoveTo("blocked_external") /\ qFrom' = "requirements_analysis"

(* It asks the templates that the task does not answer, or has enough.     *)
AnalystAsks ==
  /\ ~audit /\ OpenBlocking = {} /\ cycles < MAX_CYCLES
  /\ \E ks \in SUBSET {k \in Templates : ~HasKey(k, {"answered", "resolved"})} :
       \/ CreateBatch(ks, ks, "requirements_analysis")
       \/ NothingNew(ks) /\ UNCHANGED <<qStatus, active>>
  /\ UNCHANGED qFrom

(* The analyst is a single step: it awaits nothing.  The coordinator reads *)
(* the row after it (EndStage).                                            *)
Analyst ==
  /\ qRun = "requirements_analysis" /\ qRun' = "analysed"
  /\ AnalystSkips \/ AnalystFindsOpen \/ AnalystGivesUp \/ AnalystAsks
  /\ UNCHANGED <<audit, returns>>

(* handleRaiseQuestionsOutput at the end of the planner's run              *)
RaiseQuestions ==
  /\ qRun = "planning"
  /\ \E ks \in (SUBSET Keys) \ {{}}, hard \in SUBSET Keys, to \in ResumeStages :
       \/ CreateBatch(ks, hard, to) /\ UNCHANGED qFrom
       \/ NothingNew(ks)
            /\ IF OpenBlocking # {}
               THEN /\ qStatus' = "needs_input" /\ active' = Latest(OpenBatches)
                    /\ UNCHANGED qFrom
               ELSE /\ qStatus' = "blocked_external" /\ qFrom' = qStatus
                    /\ UNCHANGED active
  /\ qRun' = "planned"
  /\ UNCHANGED <<audit, returns>>

(* The planner's needs_input decision: no batch goes with it.              *)
PlannerNeedsInput ==
  /\ qRun = "planning"
  /\ MoveTo("needs_input") /\ qRun' = "planned"
  /\ qFrom' = IF qFrom = "none" THEN "planning" ELSE qFrom
  /\ UNCHANGED <<audit, returns>>

(* The planner's run ends with a plan.                                     *)
PlannerPlans ==
  /\ qRun = "planning" /\ qRun' = "planned"
  /\ MoveTo(qStatus)
  /\ UNCHANGED <<qFrom, audit, returns>>

(* processOneTask after the runner: a cancelled row and one that waits for *)
(* answers stay as they are.  The analyst's run leaves alone every row     *)
(* that is not in its stage; the planner's overwrites any other.           *)
EndStage ==
  /\ qRun \in {"analysed", "planned"} /\ qRun' = "none"
  /\ CASE qRun = "analysed" /\ qStatus = "requirements_analysis" ->
           MoveTo("planning")
       [] qRun = "planned" /\ qStatus \notin Held -> MoveTo("idle")
       [] OTHER -> MoveTo(qStatus)
  /\ UNCHANGED <<qFrom, audit, returns>>

(* The failure of a run blocks the row whatever its status has become,     *)
(* unless it was cancelled.                                                *)
FailStage ==
  /\ qRun = "planning" /\ qRun' = "none"
  /\ IF qStatus = "cancelled" THEN MoveTo(qStatus) /\ UNCHANGED qFrom
     ELSE MoveTo("blocked_external") /\ qFrom' = "planning"
  /\ UNCHANGED <<audit, returns>>

-----------------------------------------------------------------------------
(* Requests                                                                *)

(* POST questions: one question, whatever the status of the task.          *)
AskQuestion ==
  /\ \E k \in Keys, hard \in SUBSET Keys, to \in ResumeStages :
       \/ CreateBatch({k}, hard, to)
       \/ NothingNew({k}) /\ UNCHANGED <<qStatus, active>>
  /\ UNCHANGED <<qFrom, qRun, audit, returns>>

(* POST questions/:id/answer: the row of the task keeps its status.        *)
AnswerQuestion ==
  /\ \E b \in Batches, k \in Keys :
       /\ question[b][k] = "open"
       /\ question' = [question EXCEPT ![b][k] = "answered"]
  /\ UNCHANGED <<qStatus, qFrom, qRun, audit, cycles, blocking, target,
                 active, returns>>

(* POST question-batches/:id/answers                                       *)
MutResumesOnBatch(b) ==
  active = b /\ b \notin OpenBlocking' /\ qStatus = "needs_input"

ResumesTask(b) ==
  active = b /\ OpenBlocking' = {} /\ qStatus = "needs_input"

AnswerBatch ==
  /\ \E b \in Batches, auto \in AutoResume :
       /\ \E ks \in (SUBSET OpenIn(b)) \ {{}} :
            question' = [question EXCEPT ![b] = [k \in Keys |->
              IF k \in ks THEN "answered" ELSE question[b][k]]]
       /\ blocking' = blocking
       /\ IF auto /\ ResumesTask(b)
          THEN qStatus' = target[b] /\ active' = 0
          ELSE UNCHANGED <<qStatus, active>>
  /\ UNCHANGED <<qFrom, qRun, audit, cycles, target, returns>>

(* POST requirements/reanalyze                                             *)
Reanalyze ==
  /\ qStatus \in {"planning", "idle"} /\ returns < MaxReturns
  /\ qStatus' = "requirements_analysis" /\ active' = 0 /\ qFrom' = "none"
  /\ returns' = returns + 1
  /\ UNCHANGED <<qRun, audit, cycles, question, blocking, target>>

(* approve_requirements: a person ends the analysis.                       *)
ApproveRequirements ==
  /\ qStatus = "requirements_analysis"
  /\ MoveTo("planning") /\ qFrom' = "none"
  /\ UNCHANGED <<qRun, audit, returns>>

(* retry_from_blocked, or the release of a block that is due               *)
ReturnFromBlocked ==
  /\ qStatus \in {"blocked_external", "cancelled"} /\ qFrom # "none" /\ returns < MaxReturns
  /\ MoveTo(qFrom) /\ qFrom' = "none"
  /\ returns' = returns + 1
  /\ UNCHANGED <<qRun, audit>>

(* cancel_task                                                             *)
CancelTask ==
  /\ qStatus \notin {"blocked_external", "cancelled", "idle"}
  /\ MoveTo("cancelled") /\ qFrom' = qStatus
  /\ UNCHANGED <<qRun, audit, returns>>

QuestionsNext ==
  \/ StartStage \/ Analyst \/ RaiseQuestions \/ PlannerNeedsInput \/ PlannerPlans
  \/ EndStage \/ FailStage
  \/ AskQuestion \/ AnswerQuestion \/ AnswerBatch
  \/ Reanalyze \/ ApproveRequirements \/ ReturnFromBlocked \/ CancelTask

QuestionsSpec == QuestionsInit /\ [][QuestionsNext]_questionVars

-----------------------------------------------------------------------------
(* Properties                                                              *)

(* The analysis hands the task to planning, and answers resume it there,   *)
(* only when no blocking question of the task is open: neither in the      *)
(* batch just answered nor in an earlier one, nor a question asked while   *)
(* the analyst's run was ending (answerTaskRequirementQuestionBatch counts *)
(* both, processOneTask reads the row again).                              *)
PlanningAnswered ==
  [][(/\ qStatus' = "planning"
      /\ \/ qStatus = "needs_input"
         \/ qStatus = "requirements_analysis" /\ qRun # qRun')
     => OpenBlocking' = {} ]_questionVars

(* The documentation's promise: a task that waits on a batch resumes when  *)
(* its blocking questions are answered, so it never waits on a batch with  *)
(* nothing left to answer (docs/api.md).                                   *)
AnswersResume ==
  qStatus = "needs_input" /\ active # 0 => OpenBlocking # {}
=============================================================================
