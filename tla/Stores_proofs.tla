---------------------------- MODULE Stores_proofs ---------------------------
(***************************************************************************)
(* Proofs about two components that live in the row store: the recovery of *)
(* a failed runtime, for any profiles, capacities and errors, and an audit *)
(* batch of any number of reports.                                         *)
(***************************************************************************)
EXTENDS RuntimeRecovery, AuditBatch, TLAPS

-----------------------------------------------------------------------------
(* Runtime recovery.                                                       *)

(* The fallback in the row is the current stage's, so clearing it clears   *)
(* the row.                                                                *)
LEMMA ClearedClears ==
  ASSUME FallbackOfStage
  PROVE  Cleared = NoFallback
BY DEF FallbackOfStage, Cleared

ContextGuard == Signature("context_fallback", "context_length", NoArtifact)

(* A first context overflow has stopped the task or left its mark in the   *)
(* guard; the mark stays, so the second one stops it.                      *)
OverflowInv ==
  ~report =>
    /\ overflows >= 1 => run = "blocked" \/ ContextGuard \in guards
    /\ overflows >= 2 => run = "blocked"

RecoveryInv == RecoveryTypeOK /\ FallbackOfStage /\ OverflowInv

(* What a handler of the catch leaves: types, the row's fallback, and      *)
(* guards that only grow.                                                  *)
Handled ==
  /\ run' \in {"ready", "backoff", "blocked"}
  /\ durable' \in {NoFallback, durable} \cup [stage : {stage}, profile : Profiles]
  /\ failed' \in [Stages -> SUBSET Profiles]
  /\ retryCount' \in 0 .. AUDIT_REPORT_TIMEOUT_RECOVERY_MAX_RETRIES + 1
  /\ guards \subseteq guards'

LEMMA BumpTyped ==
  ASSUME RecoveryTypeOK
  PROVE  Bump(retryCount) \in 0 .. AUDIT_REPORT_TIMEOUT_RECOVERY_MAX_RETRIES + 1
BY RecoveryAssumption DEF RecoveryTypeOK, Bump

LEMMA UsingTyped ==
  ASSUME RecoveryTypeOK
  PROVE  using \in Profiles
BY DEF RecoveryTypeOK, using

(* A new fallback, then an immediate retry.                                *)
LEMMA FallbackHandled ==
  ASSUME RecoveryTypeOK, NEW p \in Profiles, SetFallback(p, using), RetryNow,
         guards \subseteq guards'
  PROVE  Handled
<1>1. using \in Profiles /\ stage \in Stages
  BY UsingTyped DEF RecoveryTypeOK
<1>2. failed' \in [Stages -> SUBSET Profiles]
  BY <1>1 DEF SetFallback, RecoveryTypeOK
<1>3. durable' \in [stage : {stage}, profile : Profiles]
  BY DEF SetFallback
<1> QED BY <1>2, <1>3, BumpTyped DEF Handled, RetryNow

LEMMA FailClosedHandled ==
  ASSUME RecoveryTypeOK, FailClosed(NoFallback) \/ FailClosed(durable), UNCHANGED guards
  PROVE  Handled
BY DEF FailClosed, Handled, RecoveryTypeOK

LEMMA FallbacksTyped == FallbacksNow \subseteq Profiles
BY DEF FallbacksNow, Candidates

(* handleContextLengthRecovery stops the task, or marks the guard that was *)
(* not there.                                                              *)
LEMMA ContextHandled ==
  ASSUME RecoveryTypeOK, FallbackOfStage, ContextRecovery
  PROVE  /\ Handled
         /\ run' = "blocked" \/ (ContextGuard \notin guards /\ ContextGuard \in guards')
<1>0. Cleared = NoFallback
  BY ClearedClears
<1>1. CASE ~auto /\ run' = "blocked" /\ durable' = Cleared
           /\ UNCHANGED <<failed, guards, retryCount>>
  BY <1>0, <1>1 DEF Handled, RecoveryTypeOK
<1>2. CASE FailClosed(Cleared) /\ UNCHANGED guards
  BY <1>0, <1>2, FailClosedHandled DEF FailClosed
<1>3. CASE /\ ~Repeated(ContextGuard)
           /\ \E p \in FallbacksNow : SetFallback(p, using)
           /\ guards' = guards \cup {ContextGuard}
           /\ RetryNow
  BY <1>3, FallbackHandled, FallbacksTyped DEF Repeated
<1>4. CASE /\ run' = "blocked" /\ durable' = Cleared
           /\ failed' = [failed EXCEPT ![stage] = @ \cup {using}]
           /\ UNCHANGED <<guards, retryCount>>
  BY <1>0, <1>4, UsingTyped DEF Handled, RecoveryTypeOK
<1> QED BY <1>1, <1>2, <1>3, <1>4 DEF ContextRecovery, ContextGuard

LEMMA AuditHandled ==
  ASSUME RecoveryTypeOK, FallbackOfStage, NEW kind, NEW family,
         AuditRecovery(kind, family)
  PROVE  Handled
<1> DEFINE sig == Signature(kind, family, artifact)
<1>1. CASE FailClosed(Cleared) /\ UNCHANGED guards
  BY <1>1, ClearedClears, FailClosedHandled
<1>2. CASE /\ \E p \in RecoveryProfiles :
                IF p # base THEN SetFallback(p, using)
                ELSE UNCHANGED <<durable, failed>>
           /\ guards' = guards \cup {sig}
           /\ RetryNow
  <2>1. RecoveryProfiles \subseteq Profiles
    BY RecoveryAssumption
       DEF RecoveryProfiles, Active, Candidates, RecoveryTypeOK, Fallbacks, NoFallback
  <2>2. PICK p \in RecoveryProfiles : IF p # base THEN SetFallback(p, using)
                                      ELSE UNCHANGED <<durable, failed>>
    BY <1>2
  <2>3. CASE SetFallback(p, using)
    BY <1>2, <2>1, <2>2, <2>3, FallbackHandled
  <2>4. CASE UNCHANGED <<durable, failed>>
    BY <1>2, <2>4, BumpTyped DEF Handled, RetryNow, RecoveryTypeOK
  <2> QED BY <2>2, <2>3, <2>4
<1> QED BY <1>1, <1>2 DEF AuditRecovery

LEMMA TransientHandled ==
  ASSUME RecoveryTypeOK, FallbackOfStage, NEW family, TransientRecovery(family)
  PROVE  Handled
<1> DEFINE sig == Signature("transient_runtime_fallback", family, NoArtifact)
<1>1. CASE FailClosed(Cleared) /\ UNCHANGED guards
  BY <1>1, ClearedClears, FailClosedHandled
<1>2. CASE /\ \E p \in FallbacksNow : SetFallback(p, using)
           /\ guards' = guards \cup {sig}
           /\ RetryNow
  BY <1>2, FallbackHandled, FallbacksTyped
<1> QED BY <1>1, <1>2 DEF TransientRecovery

LEMMA HandleHandled ==
  ASSUME RecoveryTypeOK, FallbackOfStage, NEW category, NEW hinted, NEW family,
         Handle(category, hinted, family)
  PROVE  /\ Handled
         /\ category = "context_length" =>
              run' = "blocked" \/ (ContextGuard \notin guards /\ ContextGuard \in guards')
<1>0. Cleared = NoFallback
  BY ClearedClears
<1>1. CASE run' = "blocked" /\ durable' = Cleared /\ UNCHANGED <<failed, guards, retryCount>>
  BY <1>0, <1>1 DEF Handled, RecoveryTypeOK
<1>2. CASE InspectionRecovery
  BY <1>0, <1>2 DEF InspectionRecovery, Handled, RecoveryTypeOK
<1>3. CASE ContextRecovery
  BY <1>3, ContextHandled
<1>4. CASE category # "context_length" /\ AuditRecovery("audit_report_timeout", "audit_report_timeout")
  BY <1>4, AuditHandled
<1>5. CASE category # "context_length" /\ TransientRecovery(family)
  BY <1>5, TransientHandled
<1>6. CASE category # "context_length" /\ AuditRecovery("audit_report_transient", family)
  BY <1>6, AuditHandled
<1>7. CASE category # "context_length" /\ GenericRecovery
  BY <1>0, <1>7, BumpTyped DEF GenericRecovery, Handled, RecoveryTypeOK
<1> QED BY <1>1, <1>2, <1>3, <1>4, <1>5, <1>6, <1>7 DEF Handle

LEMMA FailsKeeps ==
  ASSUME RecoveryInv, Fails
  PROVE  RecoveryInv'
<1>0. RecoveryTypeOK /\ FallbackOfStage /\ OverflowInv
  BY DEF RecoveryInv
<1>1. PICK category \in Categories, hinted \in BOOLEAN, family \in Families :
       /\ \/ PostWrite(category, hinted) /\ PostWriteRecovery
          \/ Handle(category, hinted, family)
       /\ overflows' = IF category = "context_length" /\ ~report /\ overflows < 2
                        THEN overflows + 1 ELSE overflows
  BY DEF Fails
<1>2. /\ run = "running" /\ memory' = NoProfile
      /\ UNCHANGED <<auto, report, stage, base, artifact, operator>>
  BY DEF Fails
<1>3. Handled
  <2>1. CASE Handle(category, hinted, family)
    BY <1>0, <2>1, HandleHandled
  <2>2. CASE PostWriteRecovery
    <3> DEFINE sig == Signature("post_write_audit_artifact_failure", "post_write", artifact)
    <3>1. CASE FailClosed(durable) /\ UNCHANGED guards
      BY <1>0, <3>1, FailClosedHandled
    <3>2. CASE /\ run' \in {"ready", "blocked"} /\ guards' = guards \cup {sig}
               /\ UNCHANGED <<durable, failed, retryCount>>
      BY <1>0, <3>2 DEF Handled, RecoveryTypeOK
    <3> QED BY <2>2, <3>1, <3>2 DEF PostWriteRecovery
  <2> QED BY <1>1, <2>1, <2>2
<1>4. durable' \in Fallbacks /\ FallbackOfStage'
  <2>1. stage \in Stages /\ durable \in Fallbacks /\ NoFallback \in Fallbacks
    BY <1>0 DEF RecoveryTypeOK, Fallbacks
  <2>2. CASE durable' = NoFallback
    BY <2>1, <2>2 DEF FallbackOfStage
  <2>3. CASE durable' = durable
    BY <1>0, <1>2, <2>1, <2>3 DEF FallbackOfStage
  <2>4. CASE durable' \in [stage : {stage}, profile : Profiles]
    BY <1>2, <2>1, <2>4 DEF FallbackOfStage, Fallbacks
  <2> QED BY <1>3, <2>2, <2>3, <2>4 DEF Handled
<1>5. overflows' \in 0 .. 2
  BY <1>0, <1>1 DEF RecoveryTypeOK
<1>6. RecoveryTypeOK'
  BY <1>0, <1>2, <1>3, <1>4, <1>5 DEF RecoveryTypeOK, Handled
<1>7. OverflowInv'
  <2> SUFFICES ASSUME ~report
               PROVE  /\ overflows' >= 1 => run' = "blocked" \/ ContextGuard \in guards'
                      /\ overflows' >= 2 => run' = "blocked"
    BY <1>2 DEF OverflowInv, ContextGuard, Signature
  <2>1. overflows \in 0 .. 2 /\ overflows < 2
        /\ (overflows >= 1 => ContextGuard \in guards)
    BY <1>0, <1>2 DEF RecoveryTypeOK, OverflowInv
  <2>2. CASE category = "context_length"
    <3>1. Handle(category, hinted, family)
      BY <1>1 DEF PostWrite
    <3>2. run' = "blocked" \/ (ContextGuard \notin guards /\ ContextGuard \in guards')
      BY <1>0, <2>2, <3>1, HandleHandled
    <3>3. overflows' = overflows + 1
      BY <1>1, <2>1, <2>2
    <3> QED BY <2>1, <3>2, <3>3
  <2>3. CASE category # "context_length"
    <3>1. overflows' = overflows /\ guards \subseteq guards'
      BY <1>1, <1>3, <2>3 DEF Handled
    <3> QED BY <2>1, <3>1
  <2> QED BY <2>2, <2>3
<1> QED BY <1>4, <1>6, <1>7 DEF RecoveryInv

LEMMA RecoveryStep ==
  ASSUME RecoveryInv, [RecoveryNext]_recoveryVars
  PROVE  RecoveryInv'
<1> USE DEF RecoveryInv, FallbackOfStage, OverflowInv, ContextGuard, Signature
<1>0. Cleared = NoFallback /\ NoFallback \in Fallbacks
  BY ClearedClears DEF Fallbacks
<1>1. CASE Start
  <2>1. /\ run = "ready" /\ run' = "running" /\ durable' \in {durable, NoFallback}
        /\ UNCHANGED <<auto, report, stage, base, failed, guards, retryCount,
                       artifact, operator, overflows>>
    BY <1>0, <1>1 DEF Start
  <2>2. memory' \in Profiles \cup {NoProfile}
    <3>1. Active \in Profiles \cup {NoProfile} /\ base \in Profiles
      BY DEF RecoveryTypeOK, Active, Fallbacks, NoFallback
    <3>2. (IF Valid THEN Active ELSE base) \in Profiles
      BY <3>1 DEF Valid
    <3>3. Routed(IF Valid THEN Active ELSE base) \in Profiles
      BY <3>2, RecoveryAssumption DEF Routed
    <3> QED BY <1>1, <3>3 DEF Start
  <2>3. RecoveryTypeOK'
    BY <1>0, <2>1, <2>2 DEF RecoveryTypeOK
  <2> QED BY <2>1, <2>3
<1>2. CASE NextQuery
  <2>1. artifact' \in Artifacts \cup {NoArtifact}
    BY <1>2 DEF NextQuery, RecoveryTypeOK
  <2>2. RecoveryTypeOK'
    BY <1>2, <2>1 DEF NextQuery, RecoveryTypeOK
  <2> QED BY <1>2, <2>2 DEF NextQuery
<1>3. CASE StageSucceeds
  <2>1. RecoveryTypeOK'
    BY <1>0, <1>3, RecoveryAssumption DEF StageSucceeds, RecoveryTypeOK, Stages
  <2> QED BY <1>0, <1>3, <2>1 DEF StageSucceeds
<1>4. CASE Fails
  BY <1>4, FailsKeeps
<1>5. CASE Release
  <2>1. RecoveryTypeOK'
    BY <1>5 DEF Release, RecoveryTypeOK
  <2> QED BY <1>5, <2>1 DEF Release
<1>6. CASE OperatorRetries
  <2>1. operator' \in 0 .. MaxOperator
    BY <1>6, RecoveryAssumption DEF OperatorRetries, RecoveryTypeOK
  <2>2. RecoveryTypeOK'
    BY <1>6, <2>1, RecoveryAssumption DEF OperatorRetries, RecoveryTypeOK
  <2> QED BY <1>6, <2>2 DEF OperatorRetries
<1>7. CASE UNCHANGED recoveryVars
  BY <1>7 DEF recoveryVars, RecoveryTypeOK
<1> QED BY <1>1, <1>2, <1>3, <1>4, <1>5, <1>6, <1>7 DEF RecoveryNext

(* Types, the owner of the row's fallback and the mark of the first        *)
(* overflow hold together in every reachable state of the recovery.        *)
THEOREM RecoveryInvariant == RecoverySpec => []RecoveryInv
<1>1. RecoveryInit => RecoveryInv
  BY RecoveryAssumption
     DEF RecoveryInit, RecoveryInv, RecoveryTypeOK, FallbackOfStage, OverflowInv,
         Fallbacks, Stages
<1>2. RecoveryInv /\ [RecoveryNext]_recoveryVars => RecoveryInv'
  BY RecoveryStep
<1> QED BY <1>1, <1>2, PTL DEF RecoverySpec

(* The second context overflow of a task that is no audit report stops it, *)
(* across stages and fallbacks (handleContextLengthRecovery and the delta  *)
(* guard).                                                                 *)
THEOREM SecondOverflow == RecoverySpec => []SecondOverflowStops
<1>1. RecoveryInv => SecondOverflowStops
  BY DEF RecoveryInv, OverflowInv, SecondOverflowStops
<1> QED BY <1>1, RecoveryInvariant, PTL

(* A stage never meets the fallback profile of another stage               *)
(* (clearContextFallbackRuntimeOption on every way out of a stage).        *)
THEOREM FallbackOwned == RecoverySpec => []FallbackOfStage
<1>1. RecoveryInv => FallbackOfStage
  BY DEF RecoveryInv
<1> QED BY <1>1, RecoveryInvariant, PTL

-----------------------------------------------------------------------------
(* The audit batch.                                                        *)

(* What the callers of updateRoadmapBatchArtifactState write: a state of   *)
(* the row with the rework status of the attempt.                          *)
Written ==
  {<<"trusted", "accepted">>, <<"open", "accepted">>,
   <<"broken", "rework_requested">>, <<"open", "rework_requested">>,
   <<"exception", "manual_exception">>} \cup BlockVerdicts

(* The summary is never behind the rows, and a row whose latest attempt is *)
(* its own was written together with that attempt.                         *)
SummaryInv == ready = \A r \in Reports : ReadyForSynthesis(r)

PairInv ==
  \A r \in Reports : attempt[r].current =>
    <<row[r].state, attempt[r].rework>> \in Written

AuditInv == AuditTypeOK /\ SummaryInv /\ PairInv

LEMMA WrittenTyped ==
  ASSUME NEW state, NEW rework, <<state, rework>> \in Written
  PROVE  state \in RowStates /\ rework \in ReworkStatuses
BY DEF Written, BlockVerdicts, RowStates, ReworkStatuses

(* The synthesis's own columns are typed, and so is the place of a report. *)
Plain ==
  /\ rStatus' \in [Reports -> AuditStatuses]
  /\ rRun' \in [Reports -> {"none", "running", "named", "unnamed"}]

LEMMA UpdateKeeps ==
  ASSUME AuditInv, NEW r \in Reports, NEW state, NEW rework, NEW via,
         <<state, rework>> \in Written, UpdateArtifact(r, state, rework, via), Plain
  PROVE  AuditInv'
<1> DEFINE stale == via = "unnamed" /\ row[r].boundary
<1>1. /\ attempt' = [attempt EXCEPT ![r] = [rework |-> rework, current |-> ~stale]]
      /\ row' = IF stale THEN row
                ELSE [row EXCEPT ![r].state = state,
                                 ![r].boundary = @ \/ via = "new"]
      /\ Refreshed /\ UNCHANGED <<sStatus, sRun>>
  BY DEF UpdateArtifact
<1>2. state \in RowStates /\ rework \in ReworkStatuses
  BY WrittenTyped
<1>3. /\ row \in [Reports -> [state : RowStates, boundary : BOOLEAN]]
      /\ attempt \in [Reports -> [rework : ReworkStatuses, current : BOOLEAN]]
  BY DEF AuditInv, AuditTypeOK
<1>4. stale \in BOOLEAN
  OBVIOUS
<1> HIDE DEF stale
<1>5. attempt' \in [Reports -> [rework : ReworkStatuses, current : BOOLEAN]]
  BY <1>1, <1>2, <1>3, <1>4
<1>6. row' \in [Reports -> [state : RowStates, boundary : BOOLEAN]]
  <2>1. CASE stale
    BY <1>1, <1>3, <2>1
  <2>2. CASE ~stale
    <3> DEFINE b == row[r].boundary \/ via = "new"
               mid == [row EXCEPT ![r].state = state]
    <3>1. b \in BOOLEAN
      OBVIOUS
    <3>2. /\ mid \in [Reports -> [state : RowStates, boundary : BOOLEAN]]
          /\ mid[r].boundary = row[r].boundary
      BY <1>2, <1>3
    <3>3. row' = [mid EXCEPT ![r].boundary = mid[r].boundary \/ via = "new"]
      BY <1>1, <2>2
    <3>4. row' = [mid EXCEPT ![r].boundary = b]
      BY <3>2, <3>3
    <3> HIDE DEF b, mid
    <3> QED BY <3>1, <3>2, <3>4
  <2> QED BY <1>4, <2>1, <2>2
<1>7. ready' \in BOOLEAN /\ SummaryInv'
  BY <1>1 DEF Refreshed, SummaryInv
<1>8. sReason' \in {"none", "not_ready", "other"} /\ sPaused' \in BOOLEAN
  <2>1. sReason \in {"none", "not_ready", "other"}
    BY DEF AuditInv, AuditTypeOK
  <2>2. sPaused' \in BOOLEAN
    BY <1>1 DEF Refreshed
  <2>3. sReason' \in {"none", "not_ready", "other"}
    BY <1>1, <1>7, <2>1 DEF Refreshed
  <2> QED BY <2>2, <2>3
<1>9. AuditTypeOK'
  BY <1>1, <1>5, <1>6, <1>7, <1>8 DEF AuditInv, AuditTypeOK, Plain
<1>10. PairInv'
  <2> SUFFICES ASSUME NEW q \in Reports, attempt'[q].current
               PROVE  <<row'[q].state, attempt'[q].rework>> \in Written
    BY DEF PairInv
  <2>1. CASE q = r
    <3>1. ~stale /\ attempt'[q].rework = rework
      BY <1>1, <1>3, <1>4, <2>1
    <3>2. row'[q].state = state
      BY <1>1, <1>3, <2>1, <3>1
    <3> QED BY <3>1, <3>2
  <2>2. CASE q # r
    <3>1. attempt'[q] = attempt[q] /\ row'[q] = row[q]
      BY <1>1, <1>3, <1>4, <2>2
    <3> QED BY <3>1 DEF AuditInv, PairInv
  <2> QED BY <2>1, <2>2
<1> QED BY <1>7, <1>9, <1>10 DEF AuditInv

LEMMA KeptKeeps ==
  ASSUME AuditInv, UNCHANGED <<row, attempt, ready>>, Plain,
         sStatus' \in AuditStatuses, sReason' \in {"none", "not_ready", "other"},
         sRun' \in BOOLEAN, sPaused' \in BOOLEAN
  PROVE  AuditInv'
<1>1. AuditTypeOK'
  BY DEF AuditInv, AuditTypeOK, Plain
<1>2. SummaryInv' /\ PairInv'
  BY DEF AuditInv, SummaryInv, PairInv, ReadyForSynthesis
<1> QED BY <1>1, <1>2 DEF AuditInv

LEMMA ArtifactsKeptKeeps ==
  ASSUME AuditInv, ArtifactsKept, Plain
  PROVE  AuditInv'
BY KeptKeeps DEF ArtifactsKept, synthesisVars, AuditInv, AuditTypeOK

LEMMA SynthesisKeeps ==
  ASSUME AuditInv, ReportsKept,
         sStatus' \in AuditStatuses, sReason' \in {"none", "not_ready", "other"},
         sRun' \in BOOLEAN, sPaused' \in BOOLEAN
  PROVE  AuditInv'
BY KeptKeeps DEF ReportsKept, reportVars, Plain, AuditInv, AuditTypeOK

LEMMA MovesTyped ==
  ASSUME AuditInv, NEW r \in Reports
  PROVE  /\ \A status \in AuditStatuses :
              (Move(r, status) => rStatus' \in [Reports -> AuditStatuses])
         /\ \A status \in AuditStatuses :
              (CoordinatorMove(r, status) => rStatus' \in [Reports -> AuditStatuses])
         /\ RunEnds(r) => rRun' \in [Reports -> {"none", "running", "named", "unnamed"}]
         /\ BoundaryMade(r) => rRun' \in [Reports -> {"none", "running", "named", "unnamed"}]
         /\ UNCHANGED rRun => rRun' \in [Reports -> {"none", "running", "named", "unnamed"}]
         /\ UNCHANGED rStatus => rStatus' \in [Reports -> AuditStatuses]
<1>1. /\ rStatus \in [Reports -> AuditStatuses]
      /\ rRun \in [Reports -> {"none", "running", "named", "unnamed"}]
  BY DEF AuditInv, AuditTypeOK
<1>2. "cancelled" \in AuditStatuses
  BY DEF AuditStatuses
<1>3. \A status \in AuditStatuses : Move(r, status) => rStatus' \in [Reports -> AuditStatuses]
  BY <1>1 DEF Move
<1>4. \A status \in AuditStatuses :
        CoordinatorMove(r, status) => rStatus' \in [Reports -> AuditStatuses]
  BY <1>2, <1>3 DEF CoordinatorMove
<1>5. BoundaryMade(r) => rRun' \in [Reports -> {"none", "running", "named", "unnamed"}]
  BY <1>1 DEF BoundaryMade
<1> QED BY <1>1, <1>3, <1>4, <1>5 DEF RunEnds

(* The agent on a report.                                                  *)
LEMMA AgentKeeps ==
  ASSUME AuditInv, NEW r \in Reports,
         \/ StartReport(r) \/ ClaimReport(r) \/ HandToReview(r) \/ Evaluate(r)
         \/ Accept(r) \/ ReturnToRework(r) \/ BlockReport(r) \/ RunLost(r)
         \/ TerminalizeRoadmapReport(r) \/ TerminalizeSource(r) \/ RepairReport(r)
  PROVE  AuditInv'
<1> USE DEF AuditStatuses
<1>1. CASE StartReport(r)
  BY <1>1, MovesTyped, ArtifactsKeptKeeps DEF StartReport, Plain
<1>2. CASE ClaimReport(r) \/ Evaluate(r)
  <2>1. rRun' \in [Reports -> {"none", "running", "named", "unnamed"}]
    BY <1>2 DEF ClaimReport, Evaluate, AuditInv, AuditTypeOK
  <2> QED BY <1>2, <2>1, MovesTyped, ArtifactsKeptKeeps DEF ClaimReport, Evaluate, Plain
<1>3. CASE HandToReview(r)
  BY <1>3, MovesTyped, ArtifactsKeptKeeps DEF HandToReview, Plain
<1>4. CASE Accept(r)
  <2>1. Plain
    BY <1>4, MovesTyped DEF Accept, Evaluated, Plain
  <2>2. PICK state \in {"trusted", "open"} : UpdateArtifact(r, state, "accepted", rRun[r])
    BY <1>4 DEF Accept
  <2>3. <<state, "accepted">> \in Written
    BY <2>2 DEF Written
  <2> QED BY <2>1, <2>2, <2>3, UpdateKeeps
<1>5. CASE ReturnToRework(r)
  <2>1. Plain
    BY <1>5, MovesTyped DEF ReturnToRework, Evaluated, Plain
  <2>2. <<"broken", "rework_requested">> \in Written
    BY DEF Written
  <2> QED BY <1>5, <2>1, <2>2, UpdateKeeps DEF ReturnToRework
<1>6. CASE BlockReport(r)
  <2>1. Plain
    BY <1>6, MovesTyped DEF BlockReport, Evaluated, Plain
  <2>2. PICK v \in BlockVerdicts : UpdateArtifact(r, v[1], v[2], rRun[r])
    BY <1>6 DEF BlockReport
  <2>3. <<v[1], v[2]>> \in Written
    BY <2>2 DEF Written, BlockVerdicts
  <2> QED BY <2>1, <2>2, <2>3, UpdateKeeps
<1>7. CASE RunLost(r)
  BY <1>7, MovesTyped, ArtifactsKeptKeeps DEF RunLost, Plain
<1>8. CASE TerminalizeRoadmapReport(r)
  <2>1. Plain
    BY <1>8, MovesTyped DEF TerminalizeRoadmapReport, Plain
  <2>2. <<"inconclusive", "terminal_inconclusive">> \in Written
    BY DEF Written, BlockVerdicts
  <2> QED BY <1>8, <2>1, <2>2, UpdateKeeps DEF TerminalizeRoadmapReport
<1>9. CASE TerminalizeSource(r)
  <2>1. Plain
    BY <1>9, MovesTyped DEF TerminalizeSource, Plain
  <2>2. <<"inconclusive", "terminal_inconclusive">> \in Written
    BY DEF Written, BlockVerdicts
  <2> QED BY <1>9, <2>1, <2>2, UpdateKeeps DEF TerminalizeSource
<1>10. CASE RepairReport(r)
  <2>1. Plain
    BY <1>10, MovesTyped DEF RepairReport, Plain
  <2>2. <<"trusted", "accepted">> \in Written
    BY DEF Written
  <2> QED BY <1>10, <2>1, <2>2, UpdateKeeps DEF RepairReport
<1> QED BY <1>1, <1>2, <1>3, <1>4, <1>5, <1>6, <1>7, <1>8, <1>9, <1>10

(* People on a report.                                                     *)
LEMMA PeopleKeep ==
  ASSUME AuditInv, NEW r \in Reports,
         \/ RequestChanges(r) \/ ManualException(r) \/ OperatorVerifies(r)
         \/ ApproveDone(r) \/ ApproveRefused(r)
         \/ CancelReport(r) \/ RetryReport(r)
  PROVE  AuditInv'
<1> USE DEF AuditStatuses
<1>1. CASE RequestChanges(r)
  <2>1. Plain
    BY <1>1, MovesTyped DEF RequestChanges, Plain
  <2>2. <<"open", "rework_requested">> \in Written
    BY DEF Written
  <2> QED BY <1>1, <2>1, <2>2, UpdateKeeps DEF RequestChanges
<1>2. CASE ManualException(r)
  <2>1. Plain
    BY <1>2, MovesTyped DEF ManualException, Plain
  <2>2. <<"exception", "manual_exception">> \in Written
    BY DEF Written
  <2> QED BY <1>2, <2>1, <2>2, UpdateKeeps DEF ManualException
<1>3. CASE OperatorVerifies(r) \/ ApproveDone(r)
  <2>1. Plain
    BY <1>3, MovesTyped DEF OperatorVerifies, ApproveDone, Plain
  <2>2. PICK state \in {"trusted", "open"} : \E via : UpdateArtifact(r, state, "accepted", via)
    BY <1>3 DEF OperatorVerifies, ApproveDone
  <2>3. <<state, "accepted">> \in Written
    BY <2>2 DEF Written
  <2> QED BY <2>1, <2>2, <2>3, UpdateKeeps
<1>4. CASE ApproveRefused(r)
  <2>1. Plain
    BY <1>4, MovesTyped DEF ApproveRefused, Plain
  <2>2. CASE UpdateArtifact(r, "broken", "rework_requested", "new")
    <3>1. <<"broken", "rework_requested">> \in Written
      BY DEF Written
    <3> QED BY <2>1, <2>2, <3>1, UpdateKeeps
  <2>3. CASE \E v \in BlockVerdicts : UpdateArtifact(r, v[1], v[2], "named")
    <3>1. PICK v \in BlockVerdicts : UpdateArtifact(r, v[1], v[2], "named")
      BY <2>3
    <3>2. <<v[1], v[2]>> \in Written
      BY <3>1 DEF Written, BlockVerdicts
    <3> QED BY <2>1, <3>1, <3>2, UpdateKeeps
  <2> QED BY <1>4, <2>2, <2>3 DEF ApproveRefused
<1>5. CASE CancelReport(r)
  BY <1>5, MovesTyped, ArtifactsKeptKeeps DEF CancelReport, Plain
<1>6. CASE RetryReport(r)
  <2>1. Plain
    BY <1>6, MovesTyped DEF RetryReport, Plain, InWork
  <2> QED BY <1>6, <2>1, ArtifactsKeptKeeps DEF RetryReport
<1> QED BY <1>1, <1>2, <1>3, <1>4, <1>5, <1>6

LEMMA AuditStep ==
  ASSUME AuditInv, [AuditNext]_auditVars
  PROVE  AuditInv'
<1>0. /\ sStatus \in AuditStatuses /\ sReason \in {"none", "not_ready", "other"}
      /\ sRun \in BOOLEAN /\ sPaused \in BOOLEAN
  BY DEF AuditInv, AuditTypeOK
<1>1. CASE \/ StartSynthesis \/ ClaimSynthesis \/ SynthesisAccepted \/ SynthesisRefused
           \/ SynthesisHeld \/ PersonOnSynthesis
  <2>1. ReportsKept
    BY <1>1 DEF StartSynthesis, ClaimSynthesis, SynthesisAccepted, SynthesisRefused,
                SynthesisHeld, PersonOnSynthesis
  <2>2. sStatus' \in AuditStatuses
    BY <1>0, <1>1 DEF StartSynthesis, ClaimSynthesis, SynthesisAccepted, SynthesisRefused,
                SynthesisHeld, PersonOnSynthesis, AuditStatuses, InWork
  <2>3. sReason' \in {"none", "not_ready", "other"}
    BY <1>0, <1>1 DEF StartSynthesis, ClaimSynthesis, SynthesisAccepted, SynthesisRefused,
                SynthesisHeld, PersonOnSynthesis, SynthesisCleared
  <2>4. sRun' \in BOOLEAN /\ sPaused' \in BOOLEAN
    BY <1>0, <1>1 DEF StartSynthesis, ClaimSynthesis, SynthesisAccepted, SynthesisRefused,
                SynthesisHeld, PersonOnSynthesis, SynthesisCleared
  <2> QED BY <2>1, <2>2, <2>3, <2>4, SynthesisKeeps
<1>2. CASE UNCHANGED auditVars
  <2>1. ReportsKept /\ UNCHANGED synthesisVars
    BY <1>2 DEF auditVars, ReportsKept
  <2> QED BY <1>0, <2>1, SynthesisKeeps DEF synthesisVars
<1> QED BY <1>1, <1>2, AgentKeeps, PeopleKeep, AuditAssumption DEF AuditNext

(* Types, the summary's currency and the pairs that are written together   *)
(* hold in every reachable state of an audit batch.                        *)
THEOREM AuditInvariant == AuditSpec => []AuditInv
<1>1. AuditInit => AuditInv
  <2> SUFFICES ASSUME AuditInit PROVE AuditInv
    OBVIOUS
  <2>1. AuditTypeOK
    BY DEF AuditInit, AuditTypeOK, RowStates, ReworkStatuses, AuditStatuses
  <2>2. SummaryInv
    <3>1. 1 \in Reports
      BY AuditAssumption DEF Reports
    <3>2. ~ReadyForSynthesis(1)
      BY <3>1 DEF AuditInit, ReadyForSynthesis
    <3>3. ready = FALSE
      BY DEF AuditInit
    <3> QED BY <3>1, <3>2, <3>3 DEF SummaryInv
  <2>3. PairInv
    BY DEF AuditInit, PairInv
  <2> QED BY <2>1, <2>2, <2>3 DEF AuditInv
<1>2. AuditInv /\ [AuditNext]_auditVars => AuditInv'
  BY AuditStep
<1> QED BY <1>1, <1>2, PTL DEF AuditSpec

(* A batch announced as ready passes the start gate of its synthesis,      *)
(* except for a report whose last write did not name its rework boundary   *)
(* (refreshRoadmapBatchSummary against roadmapReportArtifactReleaseReady). *)
THEOREM ReadyReleasable == AuditSpec => []ReadyIsReleasable
<1>1. AuditInv => ReadyIsReleasable
  <2> SUFFICES ASSUME AuditInv, ready, NEW r \in Reports, attempt[r].current
               PROVE  ReleaseReady(r)
    BY DEF ReadyIsReleasable
  <2>1. ReadyForSynthesis(r)
    BY DEF AuditInv, SummaryInv
  <2>2. <<row[r].state, attempt[r].rework>> \in Written
    BY DEF AuditInv, PairInv
  <2> QED BY <2>1, <2>2 DEF ReadyForSynthesis, ReleaseReady, Written, BlockVerdicts
<1> QED BY <1>1, AuditInvariant, PTL
=============================================================================
