----------------------- MODULE QuestionBatches_proofs -----------------------
(***************************************************************************)
(* Proofs about the requirement questions of a task, for any keys, any     *)
(* bounds on batches and cycles, and both settings of autoResume.          *)
(***************************************************************************)
EXTENDS QuestionBatches, TLAPS

QuestionTypes ==
  /\ cycles \in Nat
  /\ question \in [Batches -> [Keys -> {"none", "open", "answered", "resolved"}]]
  /\ blocking \in [Batches -> SUBSET Keys]

(* Between the analyst's end and the coordinator's reading of the row a    *)
(* blocking question can only be open if the row waits for its answer, or  *)
(* was cancelled while it did.                                             *)
AnalysedInv ==
  qRun = "analysed" =>
    \/ OpenBlocking = {}
    \/ qStatus = "needs_input"
    \/ qStatus \in {"cancelled", "blocked_external"} /\ qFrom = "needs_input"

QuestionsInv == QuestionTypes /\ AnalysedInv

-----------------------------------------------------------------------------
(* What the calls do to the open blocking questions.                       *)

(* A new batch adds none, or holds the task.                               *)
LEMMA CreateBatchOpens ==
  ASSUME QuestionTypes, NEW ks \in SUBSET Keys, NEW hard, NEW resume,
         CreateBatch(ks, hard, resume)
  PROVE  /\ QuestionTypes'
         /\ qStatus' = "needs_input"
              \/ (qStatus' = qStatus /\ OpenBlocking' = OpenBlocking \ {cycles + 1})
<1> DEFINE b == cycles + 1
           new == Fresh(ks)
<1>1. /\ b \in Batches /\ cycles' = b
      /\ question' = [question EXCEPT
           ![b] = [k \in Keys |-> IF k \in new THEN "open" ELSE "none"]]
      /\ blocking' = [blocking EXCEPT ![b] = new \cap hard]
      /\ IF new \cap hard # {} THEN qStatus' = "needs_input"
         ELSE qStatus' = qStatus
  BY DEF CreateBatch
<1>2. new \subseteq Keys
  BY DEF Fresh
<1>3. b \in Nat
  BY DEF QuestionTypes
<1> HIDE DEF b, new
<1>4. QuestionTypes'
  BY <1>1, <1>2, <1>3 DEF QuestionTypes
<1>5. ASSUME new \cap hard = {}
      PROVE  OpenBlocking' = OpenBlocking \ {b}
  <2>1. /\ blocking'[b] = {}
        /\ \A c \in Batches : c # b => /\ blocking'[c] = blocking[c]
                                       /\ question'[c] = question[c]
    BY <1>1, <1>5 DEF QuestionTypes
  <2>2. \A c \in Batches : c # b => OpenIn(c)' = OpenIn(c)
    BY <2>1 DEF OpenIn
  <2>3. \A c \in Batches : c \in OpenBlocking' <=> c \in OpenBlocking /\ c # b
    BY <2>1, <2>2 DEF OpenBlocking
  <2> QED BY <2>3 DEF OpenBlocking
<1>6. CASE new \cap hard = {}
  BY <1>1, <1>4, <1>5, <1>6 DEF b
<1>7. CASE new \cap hard # {}
  BY <1>1, <1>4, <1>7
<1> QED BY <1>6, <1>7

(* An answer opens nothing.                                                *)
LEMMA AnswerCloses ==
  ASSUME QuestionTypes, blocking' = blocking,
         question' \in [Batches -> [Keys -> {"none", "open", "answered", "resolved"}]],
         \A b \in Batches, k \in Keys :
           question'[b][k] = "open" => question[b][k] = "open"
  PROVE  OpenBlocking' \subseteq OpenBlocking
BY DEF OpenBlocking, OpenIn, QuestionTypes

LEMMA SameQuestions ==
  ASSUME UNCHANGED <<cycles, question, blocking>>
  PROVE  OpenBlocking' = OpenBlocking /\ (QuestionTypes => QuestionTypes')
BY DEF OpenBlocking, OpenIn, QuestionTypes

-----------------------------------------------------------------------------
(* The inductive step.  Every step keeps the types, and either leaves no   *)
(* more blocking questions open than there were, or holds the task.        *)

LEMMA AnalystInv ==
  ASSUME QuestionTypes, Analyst
  PROVE  QuestionsInv'
<1>0. qRun' = "analysed" /\ (AnalystSkips \/ AnalystFindsOpen \/ AnalystGivesUp \/ AnalystAsks)
  BY DEF Analyst
<1>1. CASE AnalystSkips
  <2>1. /\ question' = [b \in Batches |-> [k \in Keys |->
             IF question[b][k] = "open" THEN "resolved" ELSE question[b][k]]]
        /\ UNCHANGED <<cycles, blocking>>
    BY <1>1 DEF AnalystSkips
  <2>2. QuestionTypes'
    BY <2>1 DEF QuestionTypes
  <2>3. \A b \in Batches, k \in Keys : question'[b][k] # "open"
    BY <2>1
  <2>4. OpenBlocking' = {}
    BY <2>3 DEF OpenBlocking, OpenIn
  <2> QED BY <2>2, <2>4 DEF QuestionsInv, AnalysedInv
<1>2. CASE AnalystFindsOpen
  BY <1>2, SameQuestions DEF AnalystFindsOpen, QuestionsInv, AnalysedInv
<1>3. CASE AnalystGivesUp
  BY <1>3, SameQuestions DEF AnalystGivesUp, MoveTo, QuestionsInv, AnalysedInv
<1>4. CASE AnalystAsks
  <2>0. OpenBlocking = {}
    BY <1>4 DEF AnalystAsks
  <2>1. PICK ks \in SUBSET {k \in Templates : ~HasKey(k, {"answered", "resolved"})} :
          \/ CreateBatch(ks, ks, "requirements_analysis")
          \/ NothingNew(ks) /\ UNCHANGED <<qStatus, active>>
    BY <1>4 DEF AnalystAsks
  <2>2. CASE CreateBatch(ks, ks, "requirements_analysis")
    <3>1. ks \in SUBSET Keys
      BY QuestionAssumption
    <3> QED BY <2>0, <2>2, <3>1, CreateBatchOpens DEF QuestionsInv, AnalysedInv
  <2>3. CASE NothingNew(ks)
    BY <2>0, <2>3, SameQuestions DEF NothingNew, QuestionsInv, AnalysedInv
  <2> QED BY <2>1, <2>2, <2>3
<1> QED BY <1>0, <1>1, <1>2, <1>3, <1>4

LEMMA RaiseInv ==
  ASSUME QuestionTypes, RaiseQuestions
  PROVE  QuestionsInv'
<1>0. qRun' = "planned"
  BY DEF RaiseQuestions
<1>1. PICK ks \in (SUBSET Keys) \ {{}}, hard \in SUBSET Keys, to \in ResumeStages :
        CreateBatch(ks, hard, to) \/ NothingNew(ks)
  BY DEF RaiseQuestions
<1>2. QuestionTypes'
  BY <1>1, CreateBatchOpens, SameQuestions DEF NothingNew
<1> QED BY <1>0, <1>2 DEF QuestionsInv, AnalysedInv

LEMMA AskInv ==
  ASSUME QuestionsInv, AskQuestion
  PROVE  QuestionsInv'
<1> USE DEF QuestionsInv
<1>0. UNCHANGED <<qFrom, qRun>>
  BY DEF AskQuestion
<1>1. PICK k \in Keys, hard \in SUBSET Keys, to \in ResumeStages :
        \/ CreateBatch({k}, hard, to)
        \/ NothingNew({k}) /\ UNCHANGED <<qStatus, active>>
  BY DEF AskQuestion
<1>2. CASE CreateBatch({k}, hard, to)
  <2>1. {k} \in SUBSET Keys
    OBVIOUS
  <2> QED BY <1>0, <1>2, <2>1, CreateBatchOpens DEF AnalysedInv
<1>3. CASE NothingNew({k}) /\ UNCHANGED <<qStatus, active>>
  BY <1>0, <1>3, SameQuestions DEF NothingNew, AnalysedInv
<1> QED BY <1>1, <1>2, <1>3

LEMMA AnswerInv ==
  ASSUME QuestionsInv, AnswerQuestion
  PROVE  QuestionsInv'
<1> USE DEF QuestionsInv
<1>1. PICK b \in Batches, k \in Keys :
        /\ question[b][k] = "open"
        /\ question' = [question EXCEPT ![b][k] = "answered"]
  BY DEF AnswerQuestion
<1>2. UNCHANGED <<qStatus, qFrom, qRun, cycles, blocking>>
  BY DEF AnswerQuestion
<1>3. QuestionTypes'
  BY <1>1, <1>2 DEF QuestionTypes
<1>4. \A c \in Batches, j \in Keys :
        question'[c][j] = "open" => question[c][j] = "open"
  BY <1>1 DEF QuestionTypes
<1>5. OpenBlocking' \subseteq OpenBlocking
  BY <1>2, <1>3, <1>4, AnswerCloses DEF QuestionTypes
<1> QED BY <1>2, <1>3, <1>5 DEF AnalysedInv

LEMMA AnswerBatchInv ==
  ASSUME QuestionsInv, AnswerBatch
  PROVE  /\ QuestionsInv'
         /\ qStatus' # qStatus => OpenBlocking' = {}
<1> USE DEF QuestionsInv
<1>1. PICK b \in Batches, auto \in AutoResume :
       /\ \E ks \in (SUBSET OpenIn(b)) \ {{}} :
            question' = [question EXCEPT ![b] = [k \in Keys |->
              IF k \in ks THEN "answered" ELSE question[b][k]]]
       /\ blocking' = blocking
       /\ IF auto /\ ResumesTask(b)
          THEN qStatus' = target[b] /\ active' = 0
          ELSE UNCHANGED <<qStatus, active>>
  BY DEF AnswerBatch
<1>2. UNCHANGED <<qFrom, qRun, cycles, blocking>>
  BY DEF AnswerBatch
<1>3. PICK ks \in (SUBSET OpenIn(b)) \ {{}} :
        question' = [question EXCEPT ![b] = [k \in Keys |->
          IF k \in ks THEN "answered" ELSE question[b][k]]]
  BY <1>1
<1>4. QuestionTypes'
  BY <1>2, <1>3 DEF QuestionTypes
<1>5. \A c \in Batches, j \in Keys :
        question'[c][j] = "open" => question[c][j] = "open"
  BY <1>3 DEF QuestionTypes
<1>6. OpenBlocking' \subseteq OpenBlocking
  BY <1>2, <1>4, <1>5, AnswerCloses DEF QuestionTypes
<1>7. qStatus' # qStatus => OpenBlocking' = {}
  BY <1>1 DEF ResumesTask
<1> QED BY <1>2, <1>4, <1>6, <1>7 DEF AnalysedInv

(* The steps that leave the questions alone.                               *)
LEMMA QuietInv ==
  ASSUME QuestionsInv,
         StartStage \/ PlannerNeedsInput \/ PlannerPlans \/ EndStage \/ FailStage
           \/ Reanalyze \/ ApproveRequirements \/ ReturnFromBlocked \/ CancelTask
  PROVE  QuestionsInv'
<1> USE DEF QuestionsInv
<1>0. QuestionTypes' /\ OpenBlocking' = OpenBlocking
  <2>1. UNCHANGED <<cycles, question, blocking>>
    BY DEF StartStage, PlannerNeedsInput, PlannerPlans, EndStage, FailStage,
           Reanalyze, ApproveRequirements, ReturnFromBlocked, CancelTask, MoveTo
  <2> QED BY <2>1, SameQuestions
<1>1. CASE StartStage \/ PlannerNeedsInput \/ PlannerPlans \/ EndStage \/ FailStage
  BY <1>0, <1>1 DEF StartStage, PlannerNeedsInput, PlannerPlans, EndStage,
                    FailStage, ResumeStages, AnalysedInv
<1>2. CASE Reanalyze
  BY <1>0, <1>2 DEF Reanalyze, AnalysedInv
<1>3. CASE ApproveRequirements
  BY <1>0, <1>3 DEF ApproveRequirements, MoveTo, AnalysedInv
<1>4. CASE ReturnFromBlocked
  BY <1>0, <1>4 DEF ReturnFromBlocked, MoveTo, AnalysedInv
<1>5. CASE CancelTask
  BY <1>0, <1>5 DEF CancelTask, MoveTo, AnalysedInv
<1> QED BY <1>1, <1>2, <1>3, <1>4, <1>5

LEMMA QuestionsStep ==
  ASSUME QuestionsInv, [QuestionsNext]_questionVars
  PROVE  QuestionsInv'
<1>1. CASE UNCHANGED questionVars
  BY <1>1, SameQuestions DEF questionVars, QuestionsInv, AnalysedInv
<1>2. CASE QuestionsNext
  BY <1>2, AnalystInv, RaiseInv, AskInv, AnswerInv, AnswerBatchInv, QuietInv
     DEF QuestionsNext, QuestionsInv
<1> QED BY <1>1, <1>2

(* The steps that take a task to planning, from waiting for answers or at  *)
(* the end of the analyst's run, and leave no blocking question open.      *)
LEMMA PlanningStep ==
  ASSUME QuestionsInv, QuestionsNext, qStatus' = "planning",
         qStatus = "needs_input" \/ (qStatus = "requirements_analysis" /\ qRun # qRun')
  PROVE  OpenBlocking' = {}
<1>1. CASE AnswerBatch
  BY <1>1, AnswerBatchInv
<1>2. CASE EndStage
  <2>1. qRun = "analysed" /\ qStatus = "requirements_analysis"
        /\ UNCHANGED <<cycles, question, blocking>>
    BY <1>2 DEF EndStage, MoveTo, Held
  <2>2. OpenBlocking = {}
    BY <2>1 DEF QuestionsInv, AnalysedInv
  <2> QED BY <2>1, <2>2, SameQuestions
<1>3. CASE Analyst
  <2>1. CASE AnalystSkips \/ AnalystFindsOpen \/ AnalystGivesUp
    BY <2>1 DEF AnalystSkips, AnalystFindsOpen, AnalystGivesUp, MoveTo
  <2>2. CASE AnalystAsks
    BY <2>2 DEF AnalystAsks, CreateBatch, NothingNew
  <2> QED BY <1>3, <2>1, <2>2 DEF Analyst
<1>4. CASE RaiseQuestions
  BY <1>4 DEF RaiseQuestions, CreateBatch, NothingNew
<1>5. CASE AskQuestion
  BY <1>5 DEF AskQuestion, CreateBatch, NothingNew
<1>6. CASE StartStage \/ AnswerQuestion \/ PlannerNeedsInput \/ PlannerPlans
  BY <1>6 DEF StartStage, AnswerQuestion, PlannerNeedsInput, PlannerPlans, MoveTo
<1>7. CASE FailStage \/ Reanalyze
  BY <1>7 DEF FailStage, Reanalyze, MoveTo
<1>8. CASE ApproveRequirements \/ ReturnFromBlocked \/ CancelTask
  BY <1>8 DEF ApproveRequirements, ReturnFromBlocked, CancelTask, MoveTo
<1> QED BY <1>1, <1>2, <1>3, <1>4, <1>5, <1>6, <1>7, <1>8 DEF QuestionsNext

(* The analysis hands the task to planning, and answers resume it there,   *)
(* only when no blocking question of any batch is open, for any            *)
(* interleaving of the runs with questions, answers, cancellation, retries *)
(* and reanalysis.                                                         *)
THEOREM PlanningIsAnswered == QuestionsSpec => PlanningAnswered
<1>1. QuestionsInit => QuestionsInv
  <2>1. QuestionsInit => QuestionTypes
    BY DEF QuestionsInit, QuestionTypes
  <2> QED BY <2>1 DEF QuestionsInit, QuestionsInv, AnalysedInv
<1>2. QuestionsInv /\ [QuestionsNext]_questionVars => QuestionsInv'
  BY QuestionsStep
<1>3. QuestionsInv /\ [QuestionsNext]_questionVars =>
        [(/\ qStatus' = "planning"
          /\ \/ qStatus = "needs_input"
             \/ qStatus = "requirements_analysis" /\ qRun # qRun')
         => OpenBlocking' = {} ]_questionVars
  BY PlanningStep
<1> QED BY <1>1, <1>2, <1>3, PTL DEF QuestionsSpec, PlanningAnswered
=============================================================================
