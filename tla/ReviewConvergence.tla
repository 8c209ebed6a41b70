-------------------------- MODULE ReviewConvergence --------------------------
(***************************************************************************)
(* The auto-review loop of one task: reviewer, gate, rework, review again  *)
(* (packages/agent/src/reviewGate.ts, autoReviewHandler.ts and the         *)
(* coordinator's handling of the outcome).                                 *)
(*                                                                         *)
(* A finding is its id.  What a review says of it is a choice of the       *)
(* reviewer model; the work tree is its digest.  The fingerprint of a      *)
(* request is the set of its findings: a request with a recorded           *)
(* fingerprint may still differ in wording, which is a choice as well.     *)
(***************************************************************************)
EXTENDS Integers, FiniteSets

CONSTANTS
  Findings,         \* ids of findings about the task's work
  ParseErrors,      \* the gate's findings for reviews it cannot parse
  Contract,         \* the gate's finding for a missing structured contract
  Trees,            \* digests of the work tree
  NoTree,
  MAX_ITERATIONS,   \* maxReviewIterations
  STALL_THRESHOLD,  \* AGENT_AUTO_REVIEW_STALL_THRESHOLD
  EVIDENCE_MAX,     \* AGENT_IMPLEMENTATION_EVIDENCE_MAX_REWORK
  MaxResumes,       \* bound on human resumes
  Strategies        \* AUTO_REVIEW_STRATEGIES the instance is checked for

ASSUME ReviewAssumption ==
  /\ ParseErrors \cap Findings = {}
  /\ Contract \notin Findings \cup ParseErrors
  /\ NoTree \notin Trees
  /\ MAX_ITERATIONS \in 1 .. 10
  /\ STALL_THRESHOLD \in Nat \ {0}
  /\ EVIDENCE_MAX \in Nat /\ MaxResumes \in Nat
  /\ Strategies \subseteq {"closure_first", "full_re_review"}

GateFindings == ParseErrors \cup {Contract}   \* isReviewStageRetryFinding
Ids == Findings \cup GateFindings

VARIABLES
  strategy,    \* AGENT_AUTO_REVIEW_STRATEGY
  kind,        \* development, a report, or a synthesis reviewed by rule
  place,       \* where the task is
  iterations,  \* reviewIterationCount
  streak,      \* autoReviewState.findings: streak of a finding, 0 if absent
  snapshot,    \* autoReviewState.reworkSnapshot
  rework,      \* reworkRequested
  retries,     \* retryCount
  tree,        \* digest of the changed files now
  prints,      \* failure fingerprints recorded for the task
  resumes,     \* how often a person resumed the task
  unresolved,  \* history: findings reported and not closed since
  unmentioned, \* history: the ones a legacy review left out
  forgotten    \* history: the ones dropped with a lost rework request, or by
               \* an audit return that keeps only the manual-review findings

reviewVars == <<strategy, kind, place, iterations, streak, snapshot, rework,
                retries, tree, prints, resumes, unresolved, unmentioned,
                forgotten>>

Looping == {"implementing", "review"}
Settled ==
  {"done", "manual", "operator", "malformed", "stalled", "noDelta", "held"}
Kinds == {"development", "report", "synthesis"}

ReviewTypeOK ==
  /\ strategy \in Strategies /\ kind \in Kinds
  /\ place \in Looping \cup Settled
  /\ iterations \in 0 .. MAX_ITERATIONS
  /\ streak \in [Ids -> 0 .. MAX_ITERATIONS]
  /\ snapshot \in Trees \cup {NoTree}
  /\ rework \in BOOLEAN
  /\ retries \in 0 .. EVIDENCE_MAX
  /\ tree \in Trees
  /\ prints \subseteq BOOLEAN \X SUBSET Ids
  /\ resumes \in 0 .. MaxResumes
  /\ unresolved \subseteq Findings
  /\ unmentioned \subseteq Findings /\ forgotten \subseteq Findings

NoFindings == [f \in Ids |-> 0]

ReviewInit ==
  /\ strategy \in Strategies /\ kind \in Kinds
  /\ place = "implementing"
  /\ iterations = 0
  /\ streak = NoFindings
  /\ snapshot = NoTree
  /\ rework = FALSE /\ retries = 0
  /\ tree \in Trees
  /\ prints = {} /\ resumes = 0
  /\ unresolved = {} /\ unmentioned = {} /\ forgotten = {}

-----------------------------------------------------------------------------
(* The gate's verdict on a review: a status and the findings it leaves.    *)

previous == {f \in Ids : streak[f] > 0}

Verdict(status, found) == [status |-> status, found |-> found]

(* With nothing left to fix the review passes, but a risky task without    *)
(* evidence of its own goes to a person.                                   *)
Passed == {Verdict("success", {}), Verdict("manual", {})}

(* Findings left: some may ask for a manual review, all may ask the        *)
(* operator; new blockers only, after a rework, end closure_first.         *)
Judged(found, onlyNew) ==
  {Verdict("malformed", part) : part \in (SUBSET found) \ {{}}}
    \cup {Verdict("operator", found)}
    \cup {Verdict(IF strategy = "closure_first" /\ onlyNew
                    THEN "manual" ELSE "request_changes", found)}

(* buildStructuredDecision: every previous finding is closed with          *)
(* evidence, refuted against the repository or still blocking.             *)
StructuredVerdicts(prior, closed, refuted, new) ==
  LET found == (prior \ (closed \cup refuted)) \cup new
      still == (prior \ closed) \cup (prior \cap new)
  IN  IF found = {} THEN Passed ELSE Judged(found, prior # {} /\ still = {})

(* A review whose metadata or closures do not match what was asked.        *)
MismatchVerdicts(prior, new) == {Verdict("malformed", prior \cup new)}

(* buildStructuredParseErrorDecision: the same parse error again goes to a *)
(* person.                                                                 *)
ParseErrorVerdicts(error, new) ==
  {Verdict(IF error \in previous THEN "malformed" ELSE "request_changes",
           previous \cup new \cup {error})}

(* buildMalformedStructuredReviewContractHandoff                           *)
ContractVerdicts(new) ==
  LET found == previous \cup new \cup {Contract}
  IN  {Verdict("request_changes", found)}
        \cup IF found # {Contract} THEN {Verdict("malformed", found)} ELSE {}
        \cup IF previous = {} /\ new = {} THEN {Verdict("success", {})} ELSE {}

MutLegacyPasses(found) ==
  IF found = {} THEN Passed
  ELSE Judged(found, previous # {} /\ found \cap previous = {})

(* buildLegacyBlockingSectionDecision: what the section does not mention   *)
(* is dropped as soon as it mentions anything.                             *)
LegacyVerdicts(found) ==
  IF found # {} THEN Judged(found, previous # {} /\ found \cap previous = {})
  ELSE IF previous # {} THEN MismatchVerdicts(previous, {}) ELSE Passed

(* buildFallbackDecision: free text never closes a previous finding.       *)
FallbackVerdicts(new) ==
  IF previous # {} THEN MismatchVerdicts(previous, new)
  ELSE IF new = {} THEN Passed ELSE Judged(new, FALSE)

-----------------------------------------------------------------------------
(* enrichBlockingFindings and the thresholds of handleAutoReviewGate.      *)

Enriched(found) ==
  [f \in Ids |-> IF f \in found THEN streak[f] + 1 ELSE 0]

Stalled(found) ==
  kind # "synthesis" /\ \E f \in found : Enriched(found)[f] >= STALL_THRESHOLD

(* returnAuditTaskToRework: an audit task whose artifact fails validation  *)
(* goes back to work, unless the same failure was seen before.             *)
AuditReturn(found) ==
  /\ kind # "development"
  /\ iterations + 1 < MAX_ITERATIONS
  /\ place' = "implementing"
  /\ streak' = Enriched(found)
  /\ rework' = TRUE
  /\ snapshot' = NoTree
  /\ UNCHANGED prints

(* The task waits for a person.                                            *)
Handoff(target, found) ==
  /\ place' = target
  /\ streak' = Enriched(found)
  /\ rework' = FALSE
  /\ snapshot' = NoTree
  /\ UNCHANGED prints

(* A request is recorded by its fingerprint; the same one again is         *)
(* blocked.  The snapshot is missing when git cannot be read.              *)
Request(found) ==
  LET retry == found \subseteq GateFindings   \* shouldRetryReviewStage
      print == <<retry, found>>
  IN  /\ streak' = Enriched(found)
      /\ snapshot' \in {tree, NoTree}
      /\ prints' = prints \cup {print}
      /\ \/ /\ place' = IF retry THEN "review" ELSE "implementing"
            /\ rework' = ~retry
         \/ /\ print \in prints
            /\ place' = "manual"
            /\ rework' = FALSE

(* Completion evidence may still block an accepted review.                 *)
Accept ==
  /\ place' \in {"done", "manual"}
  /\ streak' = NoFindings
  /\ rework' = FALSE
  /\ snapshot' = NoTree
  /\ UNCHANGED prints

(* handleAutoReviewGate and the coordinator's writes for its outcome.      *)
Outcome(v) ==
  /\ iterations' = iterations + 1
  /\ CASE v.status = "success" -> Accept \/ AuditReturn({})
       [] v.status \in {"operator", "manual"} -> Handoff(v.status, v.found)
       [] v.status = "malformed" ->
            Handoff("malformed", v.found) \/ AuditReturn(v.found)
       [] v.status = "request_changes" /\ Stalled(v.found) ->
            Handoff("stalled", v.found)
       [] OTHER ->
            IF iterations + 1 >= MAX_ITERATIONS THEN Handoff("manual", v.found)
            ELSE Request(v.found)

Gate(verdicts, reported, closed, skipped) ==
  /\ place = "review"
  /\ unresolved' = (unresolved \ closed) \cup reported
  /\ unmentioned' = ((unmentioned \cup skipped) \ closed) \ reported
  /\ \E v \in verdicts :
       /\ Outcome(v)
       /\ forgotten' = ((forgotten \ closed) \ reported)
            \cup IF v.status = "malformed" /\ place' = "implementing"
                 THEN unresolved' \ v.found ELSE {}
  /\ retries' = 0
  /\ UNCHANGED <<strategy, kind, tree, resumes>>

(* Earlier parse errors are not asked about.                               *)
StructuredReview ==
  LET prior == previous \ ParseErrors
  IN  \E new \in SUBSET Findings, closed, refuted \in SUBSET prior :
        Gate(StructuredVerdicts(prior, closed, refuted, new), new,
             (closed \cup refuted) \ new, {})

MismatchedReview ==
  \E new \in SUBSET Findings :
    Gate(MismatchVerdicts(previous \ ParseErrors, new), new, {}, {})

UnparsableReview ==
  \E error \in ParseErrors, new \in SUBSET Findings :
    Gate(ParseErrorVerdicts(error, new), new, {}, {})

ContractFailure ==
  \E new \in SUBSET Findings : Gate(ContractVerdicts(new), new, {}, {})

LegacyReview ==
  \E found \in SUBSET Findings :
    Gate(LegacyVerdicts(found), found, {},
         IF found = {} THEN {} ELSE (previous \cap Findings) \ found)

FreeTextReview ==
  \E new \in SUBSET Findings : Gate(FallbackVerdicts(new), new, {}, {})

-----------------------------------------------------------------------------
MutReworkNeedsSnapshot ==
  /\ place = "implementing"
  /\ rework => snapshot # NoTree
  /\ tree' \in Trees
  /\ rework' = FALSE /\ retries' = 0
  /\ IF rework /\ tree' = snapshot
       THEN place' = "noDelta" /\ UNCHANGED <<streak, snapshot>>
       ELSE /\ place' = "review"
            /\ streak' = IF rework THEN streak ELSE NoFindings
            /\ snapshot' = IF rework THEN snapshot ELSE NoTree
  /\ UNCHANGED <<strategy, kind, iterations, prints, resumes, unresolved,
                 unmentioned, forgotten>>

(* The implementer's handoff: a rework that left the work tree as it was   *)
(* is blocked, and only a rework keeps the findings.                       *)
Implement ==
  /\ place = "implementing"
  /\ tree' \in Trees
  /\ rework' = FALSE /\ retries' = 0
  /\ IF rework /\ tree' = snapshot
       THEN place' = "noDelta" /\ UNCHANGED <<streak, snapshot>>
       ELSE /\ place' = "review"
            /\ streak' = IF rework THEN streak ELSE NoFindings
            /\ snapshot' = IF rework THEN snapshot ELSE NoTree
  /\ UNCHANGED <<strategy, kind, iterations, prints, resumes, unresolved,
                 unmentioned, forgotten>>

(* A failed run.  The recoveries that go on with another profile write     *)
(* reworkRequested back to false, and an implementer that dies, or throws, *)
(* after it saved its log has cleared it: the next run is no rework.       *)
RunRecovered ==
  /\ place = "implementing" /\ rework
  /\ rework' = FALSE
  /\ retries' \in retries .. EVIDENCE_MAX
  /\ forgotten' = forgotten \cup unresolved
  /\ UNCHANGED <<strategy, kind, place, iterations, streak, snapshot, tree,
                 prints, resumes, unresolved, unmentioned>>

(* A run whose manifest or evidence is refused starts over as a rework:    *)
(* blockTaskForImplementationManifestFailure and                           *)
(* returnImplementationEvidenceToReworkIfPossible.                         *)
EvidenceRework ==
  /\ place = "implementing"
  /\ retries < EVIDENCE_MAX
  /\ retries' = retries + 1
  /\ rework' = TRUE
  /\ tree' \in Trees
  /\ UNCHANGED <<strategy, kind, place, iterations, streak, snapshot, prints,
                 resumes, unresolved, unmentioned, forgotten>>

(* A run that ends in a block without a deadline.                          *)
RunHeld ==
  /\ place \in Looping
  /\ \/ place = "implementing" /\ place' = "held" /\ rework' \in BOOLEAN
     \/ place = "review" /\ place' = "operator" /\ rework' = FALSE
     \/ place' = "manual" /\ rework' = FALSE
  /\ UNCHANGED <<strategy, kind, iterations, streak, snapshot, retries, tree,
                 prints, resumes, unresolved, unmentioned, forgotten>>

MutResumeKeepsFindings ==
  /\ resumes < MaxResumes
  /\ resumes' = resumes + 1
  /\ \/ /\ place \in {"done", "malformed"}
        /\ place' = "implementing" /\ rework' = TRUE
     \/ /\ place = "noDelta"
        /\ place' = "implementing" /\ rework' = FALSE
     \/ /\ place \in {"operator", "malformed", "stalled"}
        /\ place' = "review" /\ rework' = FALSE
     \/ /\ place = "held"
        /\ place' = "implementing" /\ UNCHANGED rework
     \/ /\ place \in Looping   \* blocked with a deadline
        /\ UNCHANGED <<place, rework>>
  /\ iterations' = 0 /\ retries' = 0
  /\ unresolved' = {} /\ unmentioned' = {} /\ forgotten' = {}
  /\ UNCHANGED <<strategy, kind, streak, snapshot, tree, prints>>

(* request_changes of a done task, or retry_from_blocked of the holds that *)
(* allow it: the counters start over, the recorded fingerprints stay.      *)
HumanResumes ==
  /\ resumes < MaxResumes
  /\ resumes' = resumes + 1
  /\ \/ /\ place \in {"done", "malformed"}
        /\ place' = "implementing" /\ rework' = TRUE
     \/ /\ place = "noDelta"
        /\ place' = "implementing" /\ rework' = FALSE
     \/ /\ place \in {"operator", "malformed", "stalled"}
        /\ place' = "review" /\ rework' = FALSE
     \/ /\ place = "held"
        /\ place' = "implementing" /\ UNCHANGED rework
     \/ /\ place \in Looping   \* blocked with a deadline
        /\ UNCHANGED <<place, rework>>
  /\ iterations' = 0 /\ retries' = 0
  /\ streak' = NoFindings
  /\ snapshot' = NoTree
  /\ unresolved' = {} /\ unmentioned' = {} /\ forgotten' = {}
  /\ UNCHANGED <<strategy, kind, tree, prints>>

ReviewStep ==
  \/ StructuredReview \/ MismatchedReview \/ UnparsableReview
  \/ ContractFailure \/ LegacyReview \/ FreeTextReview \/ Implement

ReviewNext ==
  ReviewStep \/ RunRecovered \/ EvidenceRework \/ RunHeld \/ HumanResumes

ReviewSpec == ReviewInit /\ [][ReviewNext]_reviewVars

-----------------------------------------------------------------------------
(* The loop's two brakes agree with each other: no finding has blocked     *)
(* more reviews than there were, and while the task still goes round on    *)
(* its own no brake has been reached, whatever runs failed in between.     *)
(* Only an audit task may go on past the stall threshold, as a malformed   *)
(* review sends it back to work.                                           *)
BrakesHold ==
  /\ \A f \in Ids : streak[f] <= iterations
  /\ place \in Looping =>
       /\ iterations < MAX_ITERATIONS
       /\ kind = "development" =>
            \A f \in Ids : streak[f] < STALL_THRESHOLD

(* A task is accepted only when every finding that a review reported since *)
(* the last act of a person was closed with evidence.  The code has three  *)
(* doors past it and no fourth: a legacy review that leaves a finding      *)
(* unmentioned (buildLegacyBlockingSectionDecision); a rework run that     *)
(* fails and is recovered without its rework request, after which the      *)
(* success write drops the findings (handleContextLengthRecovery); an      *)
(* audit task sent back by a review whose manual-review findings alone     *)
(* were kept (returnAuditTaskToRework).                                    *)
NoBlockerLost == place = "done" => unresolved \subseteq unmentioned \cup forgotten

(* Every review loop ends: accepted, or with a person.                     *)
ReviewSettles == (place \in Looping) ~> (place \in Settled)
=============================================================================
