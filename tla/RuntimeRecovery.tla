--------------------------- MODULE RuntimeRecovery ---------------------------
(***************************************************************************)
(* What the coordinator does when the runtime under a stage fails: the     *)
(* fallback profile it keeps in the task row, the profiles it remembers as *)
(* failed, and the guard that stops a recovery which changed nothing       *)
(* (packages/agent/src/coordinator.ts, runtimeRecoveryOptions.ts and the   *)
(* stage fallback map of subagentQuery.ts).                                *)
(*                                                                         *)
(* One task goes through its stages.  Profiles are the enabled profiles of *)
(* one runtime, provider and transport: the others are never candidates.   *)
(* The requirements snapshot of the task stays the same: a new one makes   *)
(* every attempt a new one.                                                *)
(***************************************************************************)
EXTENDS Integers, FiniteSets

CONSTANTS
  Profiles,
  NoProfile,
  Capacity,     \* readProfileContextCapacity; 0 when the profile has none
  Preferred,    \* getPreferredContextFallbackProfileIds
  Reroute,      \* the 8005 profile an audit run on an 8003 profile goes to
  Artifacts,    \* contents the report artifact may get
  NoArtifact,
  Families,     \* provider status of an error, or its category
  AUDIT_REPORT_TIMEOUT_RECOVERY_MAX_RETRIES,   \* 3 in the code
  MaxOperator   \* bound on operator retries

ASSUME RecoveryAssumption ==
  /\ NoProfile \notin Profiles
  /\ Capacity \in [Profiles -> Nat]
  /\ Preferred \subseteq Profiles
  /\ Reroute \in [Profiles -> Profiles]
  /\ NoArtifact \notin Artifacts
  /\ AUDIT_REPORT_TIMEOUT_RECOVERY_MAX_RETRIES \in Nat
  /\ MaxOperator \in Nat

(* The implementer's stage, and one after it that stands for the others.   *)
Stages == {"implementer", "reviewer"}
Categories == {"context_length", "transport", "timeout", "inspection_budget",
               "exhausted", "other"}

VARIABLES
  auto,          \* AIF_RUNTIME_AUTO_FALLBACK_ENABLED
  report,        \* the task writes a roadmap audit report
  stage,         \* the stage it is in
  run,           \* "ready", "running", "backoff", "blocked" or "done"
  base,          \* the profile the settings select for the task
  durable,       \* runtimeOptionsJson: the fallback, with its stage
  failed,        \* runtimeOptionsJson: failedContextProfileIds of each stage
  memory,        \* runtimeStageFallbackProfiles of the running stage
  guards,        \* recorded delta_guard attempts
  retryCount,    \* one more than the audit maximum stands for all above it
  artifact,      \* content sha of the report artifact
  operator,      \* how often an operator retried the task
  overflows      \* history: context overflows of a task that is no audit report
                 \* since a person last stepped in; 2 stands for all above

recoveryVars == <<auto, report, stage, run, base, durable, failed, memory,
                  guards, retryCount, artifact, operator, overflows>>

NoFallback == [stage |-> "none", profile |-> NoProfile]
Fallbacks == [stage : Stages, profile : Profiles] \cup {NoFallback}

RecoveryTypeOK ==
  /\ auto \in BOOLEAN /\ report \in BOOLEAN
  /\ stage \in Stages
  /\ run \in {"ready", "running", "backoff", "blocked", "done"}
  /\ base \in Profiles
  /\ durable \in Fallbacks
  /\ failed \in [Stages -> SUBSET Profiles]
  /\ memory \in Profiles \cup {NoProfile}
  /\ retryCount \in 0 .. AUDIT_REPORT_TIMEOUT_RECOVERY_MAX_RETRIES + 1
  /\ artifact \in Artifacts \cup {NoArtifact}
  /\ operator \in 0 .. MaxOperator
  /\ overflows \in 0 .. 2

RecoveryInit ==
  /\ auto \in BOOLEAN /\ report \in BOOLEAN
  /\ stage = "implementer" /\ run = "ready"
  /\ base \in Profiles
  /\ durable = NoFallback
  /\ failed = [s \in Stages |-> {}]
  /\ memory = NoProfile
  /\ guards = {} /\ retryCount = 0
  /\ artifact = NoArtifact
  /\ operator = 0 /\ overflows = 0

-----------------------------------------------------------------------------
(* Which profile a stage runs on.                                          *)

(* isRuntimeProfileCompatibleForContextFallback                            *)
Compatible(current, candidate, excluded) ==
  /\ candidate \notin excluded
  /\ candidate # current
  /\ \/ Capacity[current] > 0 /\ Capacity[candidate] > Capacity[current]
     \/ Capacity[current] = 0 /\ Capacity[candidate] > 0
     \/ /\ Capacity[current] = 0 /\ Capacity[candidate] = 0
        /\ candidate \in Preferred

(* selectContextFallbackProfile: the first in the order of the settings.   *)
Candidates(current, excluded) ==
  {p \in Profiles : Compatible(current, p, excluded)}

(* readContextFallbackRuntimeOption and clearContextFallbackRuntimeOption  *)
Active == IF durable.stage = stage THEN durable.profile ELSE NoProfile
Cleared == IF durable.stage = stage THEN NoFallback ELSE durable

(* The profile of the runner's current query.                              *)
using == IF memory = NoProfile THEN base ELSE memory

(* applyDurableRuntimeFallbackSelection                                    *)
Valid == Active # NoProfile /\ Compatible(base, Active, failed[stage])

(* applyProtectedAuditEndpointRouting                                      *)
Routed(p) == IF stage = "implementer" /\ report THEN Reroute[p] ELSE p

(* The candidate loop: the fallback, the audit route, and another profile  *)
(* when that one's usage limit is reached and the stage need not wait.     *)
Start ==
  /\ run = "ready"
  /\ run' = "running"
  /\ durable' = IF Valid THEN durable ELSE Cleared
  /\ LET chosen == Routed(IF Valid THEN Active ELSE base)
     IN  \/ memory' = IF chosen = base THEN NoProfile ELSE chosen
         \/ memory' \in Profiles \ {chosen}
  /\ UNCHANGED <<auto, report, stage, base, failed, guards, retryCount,
                 artifact, operator, overflows>>

(* The runner's next query; an entry of the map is dropped after five      *)
(* minutes, and the query then runs on what the settings select.           *)
NextQuery ==
  /\ run = "running"
  /\ memory' \in {memory, NoProfile}
  /\ artifact' \in (IF report /\ stage = "implementer"
                      THEN Artifacts \cup {artifact} ELSE {artifact})
  /\ UNCHANGED <<auto, report, stage, run, base, durable, failed, guards,
                 retryCount, operator, overflows>>

MutKeepFallback ==
  /\ run = "running"
  /\ stage' = "reviewer"
  /\ run' = IF stage = "reviewer" THEN "done" ELSE "ready"
  /\ memory' = NoProfile
  /\ retryCount' = 0
  /\ UNCHANGED <<auto, report, base, durable, failed, guards, artifact,
                 operator, overflows>>

StageSucceeds ==
  /\ run = "running"
  /\ durable' = Cleared
  /\ stage' = "reviewer"
  /\ run' = IF stage = "reviewer" THEN "done" ELSE "ready"
  /\ memory' = NoProfile
  /\ retryCount' = 0
  /\ UNCHANGED <<auto, report, base, failed, guards, artifact, operator,
                 overflows>>

-----------------------------------------------------------------------------
(* The delta guard: an attempt with the same fields was made before.  The  *)
(* stage and the failed profile are recorded and not compared.             *)

Signature(kind, family, content) ==
  [kind |-> kind, family |-> family, content |-> content]

MutRepeatedOnProfile(sig) == sig \in guards /\ using \in failed[stage]

Repeated(sig) == sig \in guards

Bump(n) == IF n > AUDIT_REPORT_TIMEOUT_RECOVERY_MAX_RETRIES THEN n ELSE n + 1

(* setContextFallbackRuntimeOption                                         *)
SetFallback(profile, failedProfile) ==
  /\ durable' = [stage |-> stage, profile |-> profile]
  /\ failed' = [failed EXCEPT ![stage] = @ \cup ({failedProfile} \ {NoProfile})]

(* failClosedRuntimeRecoveryNoDelta                                        *)
FailClosed(options) ==
  /\ run' = "blocked"
  /\ durable' = options
  /\ UNCHANGED <<failed, retryCount>>

(* An immediate retry of the stage.                                        *)
RetryNow ==
  /\ run' = "ready"
  /\ retryCount' = Bump(retryCount)

(* Excluded from a fallback: what failed before and what failed now.       *)
FallbacksNow == Candidates(using, failed[stage] \cup {using})

(* handleContextLengthRecovery                                             *)
ContextRecovery ==
  LET sig == Signature("context_fallback", "context_length", NoArtifact)
  IN  \/ /\ ~auto
         /\ run' = "blocked" /\ durable' = Cleared
         /\ UNCHANGED <<failed, guards, retryCount>>
      \/ /\ auto /\ FallbacksNow # {} /\ Repeated(sig)
         /\ FailClosed(Cleared)
         /\ UNCHANGED guards
      \/ /\ auto /\ ~Repeated(sig)
         /\ \E p \in FallbacksNow : SetFallback(p, using)
         /\ guards' = guards \cup {sig}
         /\ RetryNow
      \/ /\ auto /\ FallbacksNow = {}
         /\ run' = "blocked" /\ durable' = Cleared
         /\ failed' = [failed EXCEPT ![stage] = @ \cup {using}]
         /\ UNCHANGED <<guards, retryCount>>

(* handleTransientRuntimeFallbackRecovery                                  *)
Transient(category, hinted) ==
  category \in {"transport", "timeout"} /\ ~hinted /\ auto /\ FallbacksNow # {}

TransientRecovery(family) ==
  LET sig == Signature("transient_runtime_fallback", family, NoArtifact)
  IN  IF Repeated(sig)
        THEN FailClosed(Cleared) /\ UNCHANGED guards
        ELSE /\ \E p \in FallbacksNow : SetFallback(p, using)
             /\ guards' = guards \cup {sig}
             /\ RetryNow

(* handleAuditReportTimeoutRecovery, handleAuditReportTransientRecovery    *)
AuditReport(category, hinted) ==
  /\ report /\ auto /\ ~hinted
  /\ category \in {"transport", "timeout"}
  /\ retryCount < AUDIT_REPORT_TIMEOUT_RECOVERY_MAX_RETRIES

(* selectAuditReportTimeoutRecoveryProfile                                 *)
RecoveryProfiles ==
  IF Active # NoProfile THEN {Active}
  ELSE IF Candidates(base, failed[stage]) # {} THEN Candidates(base, failed[stage])
  ELSE {base}

AuditRecovery(kind, family) ==
  LET sig == Signature(kind, family, artifact)
  IN  IF Repeated(sig)
        THEN FailClosed(Cleared) /\ UNCHANGED guards
        ELSE /\ \E p \in RecoveryProfiles :
                  IF p # base THEN SetFallback(p, using)
                  ELSE UNCHANGED <<durable, failed>>
             /\ guards' = guards \cup {sig}
             /\ RetryNow

(* recoverWrittenAuditArtifactAfterRuntimeFailure, of a report that does   *)
(* not validate: it is rewritten once for each content, then blocked.      *)
PostWrite(category, hinted) ==
  /\ stage = "implementer" /\ report /\ artifact # NoArtifact /\ ~hinted
  /\ category \in {"context_length", "transport"}

PostWriteRecovery ==
  LET sig == Signature("post_write_audit_artifact_failure", "post_write", artifact)
  IN  IF Repeated(sig)
        THEN FailClosed(durable) /\ UNCHANGED guards
        ELSE /\ run' \in {"ready", "blocked"}
             /\ guards' = guards \cup {sig}
             /\ UNCHANGED <<durable, failed, retryCount>>

(* handleRepositoryInspectionBudgetExhaustion                              *)
InspectionRecovery ==
  /\ run' = "blocked"
  /\ guards' = guards \cup
       {Signature("inspection_budget", "inspection_budget", NoArtifact)}
  /\ durable' \in {Cleared, durable}   \* an inconclusive report keeps it
  /\ UNCHANGED <<failed, retryCount>>

(* classifyStageError, after the other recoveries declined.                *)
GenericRecovery ==
  /\ run' \in {"ready", "backoff", "blocked"}
  /\ durable' = Cleared
  /\ retryCount' \in {retryCount, Bump(retryCount)}
  /\ UNCHANGED <<failed, guards>>

(* The catch of processOneTask: the first handler that takes the error.    *)
Handle(category, hinted, family) ==
  IF stage = "implementer" /\ category \in {"timeout", "exhausted"}
    THEN run' = "blocked" /\ durable' = Cleared
         /\ UNCHANGED <<failed, guards, retryCount>>
  ELSE IF category = "inspection_budget" THEN InspectionRecovery
  ELSE IF category = "context_length" THEN ContextRecovery
  ELSE IF category = "timeout" /\ AuditReport(category, hinted)
    THEN AuditRecovery("audit_report_timeout", "audit_report_timeout")
  ELSE IF Transient(category, hinted) THEN TransientRecovery(family)
  ELSE IF AuditReport(category, hinted)
    THEN AuditRecovery("audit_report_transient", family)
  ELSE GenericRecovery

Fails ==
  /\ run = "running"
  /\ \E category \in Categories, hinted \in BOOLEAN, family \in Families :
       /\ \/ PostWrite(category, hinted) /\ PostWriteRecovery
          \/ Handle(category, hinted, family)   \* or the report is valid
       /\ overflows' = IF category = "context_length" /\ ~report /\ overflows < 2
                        THEN overflows + 1 ELSE overflows
  /\ memory' = NoProfile
  /\ UNCHANGED <<auto, report, stage, base, artifact, operator>>

-----------------------------------------------------------------------------
(* The timer of a hold, and people.                                        *)

Release ==
  /\ run = "backoff"
  /\ run' = "ready"
  /\ UNCHANGED <<auto, report, stage, base, durable, failed, memory, guards,
                 retryCount, artifact, operator, overflows>>

(* retry_from_blocked, perhaps after choosing another profile.             *)
OperatorRetries ==
  /\ run = "blocked" /\ operator < MaxOperator
  /\ run' = "ready" /\ operator' = operator + 1
  /\ base' \in Profiles
  /\ retryCount' = 0
  /\ overflows' = 0
  /\ UNCHANGED <<auto, report, stage, durable, failed, memory, guards,
                 artifact>>

RecoveryNext ==
  \/ Start \/ NextQuery \/ StageSucceeds \/ Fails \/ Release
  \/ OperatorRetries

RecoverySpec == RecoveryInit /\ [][RecoveryNext]_recoveryVars

-----------------------------------------------------------------------------
(* The one-shot promise of the context fallback, across stages, expired    *)
(* entries, limit gates and transient fallbacks: within one requirements   *)
(* snapshot and without a person, the second context overflow of a task    *)
(* that is not an audit report stops it.                                   *)
SecondOverflowStops ==
  overflows >= 2 /\ ~report => run = "blocked"

(* The row has one slot for a fallback; a stage never meets another        *)
(* stage's.                                                                *)
FallbackOfStage == durable # NoFallback => durable.stage = stage
=============================================================================
