---------------------------- MODULE Loops_proofs ----------------------------
(***************************************************************************)
(* Proofs about the two loops: the auto-review loop of a task, for any set *)
(* of findings and any thresholds, and one run of the app-server adapter.  *)
(***************************************************************************)
EXTENDS ReviewConvergence, AppServerRun, TLAPS

-----------------------------------------------------------------------------
(* The app-server run.                                                     *)

Phases == Requesting \cup Closing
            \cup {"completion", "check", "failed", "ended", "finished"}

(* While the start timer is armed the process has printed nothing, so the  *)
(* coroutine still waits for the first answer, or for the timer.  A start  *)
(* timeout has killed the process before it could take a turn.             *)
StartInv ==
  /\ watch = "armed" => phase \in {"init", "failed"} /\ ~thread /\ ~accepted
  /\ watch = "armed" /\ phase = "init" => main # "ok"
  /\ watch = "yes" => proc # "running" /\ ~accepted
  /\ outcome = "startTimeout" => watch = "yes"

(* The wait ends well only after a turn/completed, and what follows runs   *)
(* through: nothing arrives between the end of the wait and the result.    *)
WaitInv ==
  /\ completion = "resolved" => turnEnded
  /\ phase = "check" => turnEnded /\ ~failure
  /\ outcome # "none" => phase \in Closing \cup {"ended", "finished"} /\ closed
  /\ SuccessEarned

AppInv ==
  /\ phase \in Phases
  /\ proc \in {"running", "killed", "exited"}
  /\ main \in {"none", "pending", "lost", "ok", "err"}
  /\ watch \in {"armed", "no", "yes"}
  /\ completion \in {"open", "resolved", "rejected"}
  /\ outcome \in {"none", "success", "startTimeout", "runTimeout", "error"}
  /\ closed \in BOOLEAN /\ thread \in BOOLEAN /\ accepted \in BOOLEAN
  /\ failure \in BOOLEAN /\ overrun \in BOOLEAN /\ turnEnded \in BOOLEAN
  /\ prompts = IF accepted THEN 1 ELSE 0
  /\ StartInv
  /\ WaitInv

LEMMA AppInitially == AppInit => AppInv
BY DEF AppInit, AppInv, StartInv, WaitInv, SuccessEarned, Phases, Requesting, Closing

(* The coroutine resumes.                                                  *)
LEMMA ContinueKeeps ==
  ASSUME AppInv, Continue
  PROVE  AppInv'
<1> USE DEF AppInv, StartInv, WaitInv, SuccessEarned, Phases, Requesting, Closing,
            config, server, child, turnState, Resumable
<1>0. Resumable /\ UNCHANGED <<config, attempt, server, overrun, aborted>>
  BY DEF Continue
<1>1. CASE ContinueRequest
  <2>1. /\ phase \in {"init", "thread", "turn"} /\ main \in {"ok", "err"}
        /\ UNCHANGED <<proc, closed, watch, outcome>>
    BY <1>0, <1>1 DEF ContinueRequest
  <2>2. CASE main = "err"
    BY <1>0, <1>1, <2>1, <2>2 DEF ContinueRequest
  <2>3. CASE main = "ok" /\ phase = "init"
    BY <1>0, <1>1, <2>1, <2>3 DEF ContinueRequest, Send
  <2>4. CASE main = "ok" /\ phase = "thread"
    BY <1>0, <1>1, <2>1, <2>4 DEF ContinueRequest, Send
  <2>5. CASE main = "ok" /\ phase = "turn"
    BY <1>0, <1>1, <2>1, <2>5 DEF ContinueRequest
  <2> QED BY <2>1, <2>2, <2>3, <2>4, <2>5
<1>2. CASE ContinueCompletion
  BY <1>0, <1>2 DEF ContinueCompletion
<1>3. CASE ContinueCheck
  BY <1>0, <1>3 DEF ContinueCheck, Finally
<1>4. CASE ContinueFailed
  BY <1>0, <1>4 DEF ContinueFailed, Finally, Send
<1>5. CASE ContinueEnrich
  BY <1>0, <1>5 DEF ContinueEnrich, Finally
<1> QED BY <1>1, <1>2, <1>3, <1>4, <1>5 DEF Continue

(* The process, its lines, the timers and the abort signal.                *)
LEMMA EventsKeep ==
  ASSUME AppInv,
         \/ Retry \/ RunReturns \/ Prints \/ Respond \/ AcceptTurn \/ Notify
         \/ Malformed \/ ChildError \/ Exit \/ RequestTimesOut
         \/ StartTimesOut \/ RunTimesOut \/ TerminateTimesOut \/ Abort
  PROVE  AppInv'
<1> USE DEF AppInv, StartInv, WaitInv, SuccessEarned, Phases, Requesting, Closing,
            config, server, child, turnState
<1>1. CASE Retry
  BY <1>1 DEF Retry, Retries
<1>2. CASE RunReturns
  BY <1>2 DEF RunReturns
<1>3. CASE Prints
  BY <1>3 DEF Prints, Output
<1>4. CASE Respond
  BY <1>4 DEF Respond, Output
<1>5. CASE AcceptTurn
  BY <1>5 DEF AcceptTurn
<1>6. CASE Notify
  <2>1. Line /\ UNCHANGED <<phase, proc, closed, main, thread, accepted, overrun, outcome, prompts>>
    BY <1>6 DEF Notify
  <2>2. watch' = IF watch = "armed" THEN "no" ELSE watch
    BY <1>6 DEF Notify, Output
  <2>3. phase # "check" /\ outcome = "none"
    BY <2>1 DEF Line, Alive
  <2>4. /\ completion' \in {"open", "resolved", "rejected"}
        /\ failure' \in BOOLEAN /\ turnEnded' \in BOOLEAN
        /\ completion' = "resolved" => turnEnded'
    <3>1. CASE UNCHANGED <<completion, failure, turnEnded>>
      BY <3>1
    <3>2. CASE Settle("resolved") /\ turnEnded' = TRUE /\ UNCHANGED failure
      BY <3>2 DEF Settle
    <3>3. CASE Settle("rejected") /\ failure' = TRUE /\ UNCHANGED turnEnded
      BY <3>3 DEF Settle
    <3> QED BY <1>6, <3>1, <3>2, <3>3 DEF Notify
  <2> QED BY <2>1, <2>2, <2>3, <2>4
<1>7. CASE Malformed
  BY <1>7 DEF Malformed, Line, Alive, Output, FailPending, Settle
<1>8. CASE ChildError
  BY <1>8 DEF ChildError, FailPending
<1>9. CASE Exit
  BY <1>9 DEF Exit, Alive, FailPending, Settle
<1>10. CASE RequestTimesOut
  BY <1>10 DEF RequestTimesOut
<1>11. CASE StartTimesOut
  BY <1>11 DEF StartTimesOut, Kill
<1>12. CASE RunTimesOut
  BY <1>12 DEF RunTimesOut, Kill
<1>13. CASE TerminateTimesOut
  BY <1>13 DEF TerminateTimesOut
<1>14. CASE Abort
  BY <1>14 DEF Abort
<1> QED BY <1>1, <1>2, <1>3, <1>4, <1>5, <1>6, <1>7, <1>8, <1>9, <1>10, <1>11,
           <1>12, <1>13, <1>14

(* The start timer, the wait and the prompts of an app-server run keep     *)
(* step in every reachable state (runCodexAppServerAttempt).               *)
THEOREM AppInvariant == AppSpec => []AppInv
<1>1. AppInv /\ [AppNext]_appVars => AppInv'
  <2> SUFFICES ASSUME AppInv, [AppNext]_appVars PROVE AppInv'
    OBVIOUS
  <2>1. CASE UNCHANGED appVars
    BY <2>1 DEF appVars, AppInv, StartInv, WaitInv, SuccessEarned
  <2>2. CASE Continue
    BY <2>2, ContinueKeeps
  <2>3. CASE AppNext /\ ~Continue
    BY <2>3, EventsKeep DEF AppNext
  <2> QED BY <2>1, <2>2, <2>3
<1> QED BY <1>1, AppInitially, PTL DEF AppSpec

(* A prompt reaches a server at most once, although a start timeout is     *)
(* retried with a second process (runCodexAppServer).                      *)
THEOREM PromptOnce == AppSpec => []PromptSentOnce
<1>1. AppInv => PromptSentOnce
  BY DEF AppInv, PromptSentOnce
<1> QED BY <1>1, AppInvariant, PTL

(* An attempt returns success only for a turn that ended well, with no     *)
(* failure and no timeout beside it.                                       *)
THEOREM SuccessIsEarned == AppSpec => []SuccessEarned
<1>1. AppInv => SuccessEarned
  BY DEF AppInv, WaitInv
<1> QED BY <1>1, AppInvariant, PTL

-----------------------------------------------------------------------------
(* The review loop.  While the task goes round, what is unresolved is      *)
(* among the findings the gate remembers or went through one of the doors  *)
(* of NoBlockerLost; an implementation that is no rework, which will drop  *)
(* what is remembered, has nothing unresolved but the latter.              *)

BlockerInv ==
  /\ place = "review" \/ (place = "implementing" /\ rework) =>
       unresolved \subseteq unmentioned \cup forgotten \cup previous
  /\ place = "implementing" /\ ~rework => unresolved \subseteq unmentioned \cup forgotten
  /\ NoBlockerLost

ReviewInv == ReviewTypeOK /\ BrakesHold /\ BlockerInv

Statuses == {"success", "manual", "malformed", "operator", "request_changes"}

(* What a verdict owes the history: success means nothing was left, and a  *)
(* request names all that is left.                                         *)
Owes(v, left, omitted) ==
  /\ v.status \in Statuses /\ v.found \subseteq Ids
  /\ v.status = "success" => left \subseteq omitted
  /\ v.status = "request_changes" => left \subseteq omitted \cup v.found

LEMMA PassedShape ==
  ASSUME NEW v \in Passed
  PROVE  v.status \in {"success", "manual"} /\ v.found = {}
BY DEF Passed, Verdict

LEMMA JudgedShape ==
  ASSUME NEW found, NEW b, NEW v \in Judged(found, b)
  PROVE  /\ v.status \in Statuses \ {"success"} /\ v.found \subseteq found
         /\ v.status = "request_changes" => v.found = found
<1>1. CASE v \in {Verdict("malformed", part) : part \in (SUBSET found) \ {{}}}
  <2>1. PICK part \in (SUBSET found) \ {{}} : v = Verdict("malformed", part)
    BY <1>1
  <2> QED BY <2>1 DEF Verdict, Statuses
<1>2. CASE v = Verdict("operator", found)
  BY <1>2 DEF Verdict, Statuses
<1>3. CASE v = Verdict(IF strategy = "closure_first" /\ b
                         THEN "manual" ELSE "request_changes", found)
  BY <1>3 DEF Verdict, Statuses
<1> QED BY <1>1, <1>2, <1>3 DEF Judged

(* A verdict that passes when nothing is found, and else judges what is.   *)
LEMMA VerdictOwes ==
  ASSUME NEW found \in SUBSET Ids, NEW b, NEW left, NEW omitted,
         left \subseteq omitted \cup found,
         NEW v, v \in Judged(found, b) \/ (found = {} /\ v \in Passed)
  PROVE  Owes(v, left, omitted)
<1>1. CASE v \in Judged(found, b)
  BY <1>1, JudgedShape DEF Owes
<1>2. CASE found = {} /\ v \in Passed
  BY <1>2, PassedShape DEF Owes, Statuses
<1> QED BY <1>1, <1>2

(* handleAutoReviewGate: a verdict moves the task, within the brakes.      *)
LEMMA OutcomeKeeps ==
  ASSUME ReviewTypeOK, BrakesHold, place = "review",
         NEW v, v.status \in Statuses, v.found \subseteq Ids, Outcome(v)
  PROVE  /\ iterations' \in 0 .. MAX_ITERATIONS
         /\ streak' \in [Ids -> 0 .. MAX_ITERATIONS]
         /\ snapshot' \in Trees \cup {NoTree} /\ rework' \in BOOLEAN
         /\ prints' \subseteq BOOLEAN \X SUBSET Ids
         /\ place' \in Looping \cup Settled
         /\ \A f \in Ids : streak'[f] <= iterations'
         /\ place' = "done" => v.status = "success"
         /\ place' \in Looping =>
              /\ v.status \in {"success", "malformed", "request_changes"}
              /\ v.status = "malformed" => place' = "implementing"
              /\ place' = "implementing" => rework'
              /\ iterations' < MAX_ITERATIONS
              /\ v.status # "success" => \A f \in v.found : streak'[f] > 0
              /\ kind = "development" =>
                   \A f \in Ids : streak'[f] < STALL_THRESHOLD
<1> DEFINE E == Enriched(v.found)
<1>0. /\ iterations \in Nat /\ MAX_ITERATIONS \in Nat /\ iterations < MAX_ITERATIONS
      /\ iterations' = iterations + 1 /\ STALL_THRESHOLD \in Nat \ {0}
      /\ \A f \in Ids : streak[f] \in Nat /\ streak[f] <= iterations
  BY ReviewAssumption DEF ReviewTypeOK, BrakesHold, Looping, Outcome
<1>1. iterations' \in 0 .. MAX_ITERATIONS
  BY <1>0
<1>2. \A f \in Ids : E[f] = IF f \in v.found THEN streak[f] + 1 ELSE 0
  BY DEF Enriched
<1>3. /\ E \in [Ids -> 0 .. MAX_ITERATIONS]
      /\ \A f \in Ids : E[f] <= iterations'
      /\ \A f \in v.found : E[f] > 0
  <2>1. ASSUME NEW f \in Ids
        PROVE  E[f] \in 0 .. MAX_ITERATIONS /\ E[f] <= iterations'
    BY <1>0, <1>2
  <2>2. E = [f \in Ids |-> E[f]]
    BY DEF Enriched
  <2> HIDE DEF E
  <2>3. ASSUME NEW f \in v.found PROVE E[f] > 0
    <3>1. f \in Ids /\ streak[f] \in Nat
      BY <1>0
    <3> QED BY <1>2, <3>1
  <2> QED BY <2>1, <2>2, <2>3
<1>4. ASSUME NEW target \in Settled \ {"done"}, Handoff(target, v.found)
      PROVE  /\ streak' = E /\ snapshot' = NoTree /\ rework' = FALSE
             /\ UNCHANGED prints /\ place' = target
  BY <1>4 DEF Handoff
<1>5. CASE Accept
  <2>1. /\ place' \in {"done", "manual"} /\ streak' = NoFindings /\ rework' = FALSE
        /\ snapshot' = NoTree /\ UNCHANGED prints
    BY <1>5 DEF Accept
  <2>2. /\ streak' \in [Ids -> 0 .. MAX_ITERATIONS]
        /\ \A f \in Ids : streak'[f] <= iterations'
    BY <1>0, <2>1 DEF NoFindings
  <2>3. place' = "done" => v.status = "success"
    <3>1. CASE v.status = "success"
      BY <3>1
    <3>2. CASE v.status # "success"
      BY <2>1, <3>2 DEF Outcome, Handoff, Request, AuditReturn, Statuses
    <3> QED BY <3>1, <3>2
  <2> QED BY <1>1, <2>1, <2>2, <2>3 DEF Looping, Settled, ReviewTypeOK
<1>6. CASE \E target \in Settled \ {"done"} : Handoff(target, v.found)
  <2>1. /\ streak' = E /\ snapshot' = NoTree /\ rework' = FALSE
        /\ UNCHANGED prints /\ place' \in Settled \ {"done"}
    BY <1>4, <1>6
  <2> HIDE DEF E
  <2> QED BY <1>1, <1>3, <2>1 DEF Looping, Settled, ReviewTypeOK
<1>7. CASE /\ v.status = "request_changes" /\ ~Stalled(v.found)
           /\ iterations + 1 < MAX_ITERATIONS /\ Request(v.found)
  <2> DEFINE retry == v.found \subseteq GateFindings
  <2>1. /\ streak' = E /\ snapshot' \in {tree, NoTree}
        /\ prints' = prints \cup {<<retry, v.found>>}
        /\ \/ place' = (IF retry THEN "review" ELSE "implementing") /\ rework' = ~retry
           \/ place' = "manual" /\ rework' = FALSE
    BY <1>7 DEF Request
  <2>2. retry \in BOOLEAN /\ prints' \subseteq BOOLEAN \X SUBSET Ids
    <3>1. retry \in BOOLEAN /\ v.found \in SUBSET Ids
      OBVIOUS
    <3> HIDE DEF retry
    <3>2. <<retry, v.found>> \in BOOLEAN \X SUBSET Ids
      BY <3>1
    <3>3. prints \subseteq BOOLEAN \X SUBSET Ids
      BY DEF ReviewTypeOK
    <3> QED BY <2>1, <3>1, <3>2, <3>3
  <2>3. ASSUME kind = "development", NEW f \in Ids
        PROVE  E[f] < STALL_THRESHOLD
    <3>1. CASE f \in v.found
      <4>1. ~(E[f] >= STALL_THRESHOLD)
        BY <1>7, <2>3, <3>1 DEF Stalled
      <4> QED BY <1>0, <1>2, <4>1
    <3>2. CASE f \notin v.found
      BY <1>0, <1>2, <3>2
    <3> QED BY <3>1, <3>2
  <2> HIDE DEF E, retry
  <2>4. snapshot' \in Trees \cup {NoTree} /\ rework' \in BOOLEAN
        /\ place' \in {"review", "implementing", "manual"}
        /\ (place' = "implementing" => rework')
    BY <2>1, <2>2 DEF ReviewTypeOK
  <2> QED BY <1>0, <1>1, <1>3, <1>7, <2>1, <2>2, <2>3, <2>4 DEF Looping, Settled
<1>8. CASE /\ v.status \in {"success", "malformed"}
           /\ \E found \in {{}, v.found} :
                /\ v.status = "malformed" => found = v.found
                /\ AuditReturn(found)
  <2>1. PICK found \in SUBSET v.found :
          /\ v.status = "malformed" => found = v.found
          /\ AuditReturn(found)
    BY <1>8
  <2>2. /\ kind # "development" /\ iterations + 1 < MAX_ITERATIONS
        /\ place' = "implementing" /\ rework' = TRUE /\ snapshot' = NoTree
        /\ UNCHANGED prints /\ streak' = Enriched(found)
    BY <2>1 DEF AuditReturn
  <2>3. streak' = [f \in Ids |-> IF f \in found THEN streak[f] + 1 ELSE 0]
    BY <2>2 DEF Enriched
  <2>4. /\ streak' \in [Ids -> 0 .. MAX_ITERATIONS]
        /\ \A f \in Ids : streak'[f] <= iterations'
    BY <1>0, <2>3
  <2>5. ASSUME v.status # "success", NEW f \in v.found PROVE streak'[f] > 0
    <3>1. f \in Ids /\ f \in found /\ streak[f] \in Nat
      BY <1>0, <1>8, <2>1, <2>5
    <3> QED BY <2>3, <3>1
  <2> HIDE DEF E
  <2> QED BY <1>0, <1>1, <1>8, <2>2, <2>4, <2>5 DEF Looping, Settled, ReviewTypeOK
<1> QED
  <2>1. CASE v.status = "success"
    BY <1>5, <1>8, <2>1 DEF Outcome
  <2>2. CASE v.status \in {"operator", "manual"}
    <3>1. Handoff(v.status, v.found) /\ v.status \in Settled \ {"done"}
      BY <2>2 DEF Outcome, Settled
    <3> QED BY <1>6, <3>1
  <2>5. CASE v.status = "malformed"
    <3>1. Handoff("malformed", v.found) \/ AuditReturn(v.found)
      BY <2>5 DEF Outcome
    <3>2. "malformed" \in Settled \ {"done"}
      BY DEF Settled
    <3> QED BY <1>6, <1>8, <2>5, <3>1, <3>2
  <2>3. CASE v.status = "request_changes" /\ Stalled(v.found)
    <3>1. Handoff("stalled", v.found) /\ "stalled" \in Settled \ {"done"}
      BY <2>3 DEF Outcome, Settled
    <3> QED BY <1>6, <3>1
  <2>4. CASE v.status = "request_changes" /\ ~Stalled(v.found)
    <3>1. IF iterations + 1 >= MAX_ITERATIONS THEN Handoff("manual", v.found)
          ELSE Request(v.found)
      BY <2>4 DEF Outcome
    <3>2. CASE iterations + 1 >= MAX_ITERATIONS
      <4>1. Handoff("manual", v.found) /\ "manual" \in Settled \ {"done"}
        BY <3>1, <3>2 DEF Settled
      <4> QED BY <1>6, <4>1
    <3>3. CASE ~(iterations + 1 >= MAX_ITERATIONS)
      BY <1>0, <1>7, <2>4, <3>1, <3>3
    <3> QED BY <3>2, <3>3
  <2> QED BY <2>1, <2>2, <2>3, <2>4, <2>5 DEF Statuses

(* The gate, whatever the review said: a verdict that keeps what it owes   *)
(* keeps the invariant.                                                    *)
LEMMA GateKeeps ==
  ASSUME ReviewInv, NEW verdicts, NEW reported \in SUBSET Findings, NEW fixed,
         NEW skipped \in SUBSET Findings, Gate(verdicts, reported, fixed, skipped),
         \A v \in verdicts :
           Owes(v, (unresolved \ fixed) \cup reported,
                (((unmentioned \cup skipped) \ fixed) \ reported)
                  \cup ((forgotten \ fixed) \ reported))
  PROVE  ReviewInv'
<1> DEFINE kept == (forgotten \ fixed) \ reported
<1>1. /\ place = "review" /\ UNCHANGED <<strategy, kind, tree, resumes>>
      /\ unresolved' = (unresolved \ fixed) \cup reported
      /\ unmentioned' = ((unmentioned \cup skipped) \ fixed) \ reported
      /\ retries' = 0
  BY DEF Gate
<1>2. PICK v \in verdicts :
        /\ Outcome(v)
        /\ forgotten' = kept \cup IF v.status = "malformed" /\ place' = "implementing"
                                   THEN unresolved' \ v.found ELSE {}
  BY DEF Gate
<1>3. Owes(v, unresolved', unmentioned' \cup kept) /\ kept \subseteq forgotten'
  BY <1>1, <1>2
<1> HIDE DEF kept
<1>4. v.status \in Statuses /\ v.found \subseteq Ids
  BY <1>3 DEF Owes
<1>5. ReviewTypeOK /\ BrakesHold
  BY DEF ReviewInv
<1>6. /\ iterations' \in 0 .. MAX_ITERATIONS
      /\ streak' \in [Ids -> 0 .. MAX_ITERATIONS]
      /\ snapshot' \in Trees \cup {NoTree} /\ rework' \in BOOLEAN
      /\ prints' \subseteq BOOLEAN \X SUBSET Ids
      /\ place' \in Looping \cup Settled
      /\ \A f \in Ids : streak'[f] <= iterations'
      /\ place' = "done" => v.status = "success"
      /\ place' \in Looping =>
           /\ v.status \in {"success", "malformed", "request_changes"}
           /\ v.status = "malformed" => place' = "implementing"
           /\ place' = "implementing" => rework'
           /\ iterations' < MAX_ITERATIONS
           /\ v.status # "success" => \A f \in v.found : streak'[f] > 0
           /\ kind = "development" =>
                \A f \in Ids : streak'[f] < STALL_THRESHOLD
  BY <1>1, <1>2, <1>4, <1>5, OutcomeKeeps
<1>7. /\ unresolved' \subseteq Findings /\ unmentioned' \subseteq Findings
      /\ forgotten' \subseteq Findings /\ retries' \in 0 .. EVIDENCE_MAX
  BY <1>1, <1>2, <1>5, ReviewAssumption DEF ReviewTypeOK, kept
<1>8. ReviewTypeOK'
  BY <1>1, <1>5, <1>6, <1>7 DEF ReviewTypeOK
<1>9. BrakesHold'
  BY <1>1, <1>6 DEF BrakesHold
<1>10. BlockerInv'
  <2>1. place' \in Looping =>
          unresolved' \subseteq unmentioned' \cup forgotten' \cup previous'
    <3>1. CASE v.status = "success"
      BY <1>3, <3>1 DEF Owes
    <3>2. CASE v.status = "malformed" /\ place' \in Looping
      BY <1>2, <1>4, <1>6, <3>2 DEF previous
    <3>3. CASE v.status = "request_changes" /\ place' \in Looping
      BY <1>3, <1>4, <1>6, <3>3 DEF Owes, previous
    <3> QED BY <1>6, <3>1, <3>2, <3>3
  <2>2. place' = "done" => unresolved' \subseteq unmentioned' \cup forgotten'
    BY <1>3, <1>6 DEF Owes
  <2>3. place' = "implementing" => rework'
    BY <1>6 DEF Looping
  <2> QED BY <2>1, <2>2, <2>3 DEF BlockerInv, NoBlockerLost, Looping
<1> QED BY <1>8, <1>9, <1>10 DEF ReviewInv

LEMMA ReviewsKeep ==
  ASSUME ReviewInv,
         \/ StructuredReview \/ MismatchedReview \/ UnparsableReview
         \/ ContractFailure \/ LegacyReview \/ FreeTextReview
  PROVE  ReviewInv'
<1>0. /\ place = "review"
      /\ unresolved \subseteq unmentioned \cup forgotten \cup previous
      /\ unresolved \subseteq Findings /\ unmentioned \subseteq Findings
      /\ forgotten \subseteq Findings
      /\ previous \subseteq Ids /\ Findings \subseteq Ids
      /\ ParseErrors \subseteq Ids \ Findings /\ Contract \in Ids \ Findings
  <2>1. place = "review"
    BY DEF StructuredReview, MismatchedReview, UnparsableReview, ContractFailure,
           LegacyReview, FreeTextReview, Gate
  <2>2. ParseErrors \subseteq Ids \ Findings /\ Contract \in Ids \ Findings
    BY ReviewAssumption DEF Ids, GateFindings
  <2> QED BY <2>1, <2>2 DEF ReviewInv, BlockerInv, ReviewTypeOK, previous, Ids
<1>1. CASE StructuredReview
  <2> DEFINE prior == previous \ ParseErrors
  <2>1. PICK new \in SUBSET Findings, fixed \in SUBSET prior, refuted \in SUBSET prior :
          Gate(StructuredVerdicts(prior, fixed, refuted, new), new,
               (fixed \cup refuted) \ new, {})
    BY <1>1 DEF StructuredReview
  <2> DEFINE found == (prior \ (fixed \cup refuted)) \cup new
             shut == (fixed \cup refuted) \ new
             left == (unresolved \ shut) \cup new
             omitted == (((unmentioned \cup {}) \ shut) \ new)
                          \cup ((forgotten \ shut) \ new)
  <2>2. left \subseteq omitted \cup found /\ found \in SUBSET Ids
    BY <1>0
  <2>3. ASSUME NEW v \in StructuredVerdicts(prior, fixed, refuted, new)
        PROVE  Owes(v, left, omitted)
    <3>1. v \in Judged(found, prior # {} /\ (prior \ fixed) \cup (prior \cap new) = {})
          \/ (found = {} /\ v \in Passed)
      BY <2>3 DEF StructuredVerdicts
    <3> HIDE DEF prior, found, left, omitted
    <3> QED BY <2>2, <3>1, VerdictOwes
  <2> DEFINE verdicts == StructuredVerdicts(prior, fixed, refuted, new)
  <2>4. Gate(verdicts, new, shut, {}) /\ {} \in SUBSET Findings
    BY <2>1
  <2>5. \A v \in verdicts : Owes(v, (unresolved \ shut) \cup new,
                                 (((unmentioned \cup {}) \ shut) \ new)
                                   \cup ((forgotten \ shut) \ new))
    BY <2>3
  <2> HIDE DEF verdicts, shut
  <2> QED BY <2>4, <2>5, GateKeeps
<1>2. CASE MismatchedReview
  <2>1. PICK new \in SUBSET Findings :
          Gate(MismatchVerdicts(previous \ ParseErrors, new), new, {}, {})
    BY <1>2 DEF MismatchedReview
  <2>2. ASSUME NEW v \in MismatchVerdicts(previous \ ParseErrors, new)
        PROVE  Owes(v, (unresolved \ {}) \cup new,
                    (((unmentioned \cup {}) \ {}) \ new) \cup ((forgotten \ {}) \ new))
    BY <1>0, <2>2 DEF MismatchVerdicts, Verdict, Owes, Statuses
  <2> DEFINE verdicts == MismatchVerdicts(previous \ ParseErrors, new)
  <2>3. Gate(verdicts, new, {}, {}) /\ {} \in SUBSET Findings
    BY <2>1
  <2>4. \A v \in verdicts : Owes(v, (unresolved \ {}) \cup new,
                                 (((unmentioned \cup {}) \ {}) \ new)
                                   \cup ((forgotten \ {}) \ new))
    BY <2>2
  <2> HIDE DEF verdicts
  <2> QED BY <2>3, <2>4, GateKeeps
<1>3. CASE UnparsableReview
  <2>1. PICK error \in ParseErrors, new \in SUBSET Findings :
          Gate(ParseErrorVerdicts(error, new), new, {}, {})
    BY <1>3 DEF UnparsableReview
  <2>2. ASSUME NEW v \in ParseErrorVerdicts(error, new)
        PROVE  Owes(v, (unresolved \ {}) \cup new,
                    (((unmentioned \cup {}) \ {}) \ new) \cup ((forgotten \ {}) \ new))
    <3>1. v.status \in {"malformed", "request_changes"}
          /\ v.found = previous \cup new \cup {error}
      BY <2>2 DEF ParseErrorVerdicts, Verdict
    <3> QED BY <1>0, <3>1 DEF Owes, Statuses
  <2> DEFINE verdicts == ParseErrorVerdicts(error, new)
  <2>3. Gate(verdicts, new, {}, {}) /\ {} \in SUBSET Findings
    BY <2>1
  <2>4. \A v \in verdicts : Owes(v, (unresolved \ {}) \cup new,
                                 (((unmentioned \cup {}) \ {}) \ new)
                                   \cup ((forgotten \ {}) \ new))
    BY <2>2
  <2> HIDE DEF verdicts
  <2> QED BY <2>3, <2>4, GateKeeps
<1>4. CASE ContractFailure
  <2>1. PICK new \in SUBSET Findings : Gate(ContractVerdicts(new), new, {}, {})
    BY <1>4 DEF ContractFailure
  <2>2. ASSUME NEW v \in ContractVerdicts(new)
        PROVE  Owes(v, (unresolved \ {}) \cup new,
                    (((unmentioned \cup {}) \ {}) \ new) \cup ((forgotten \ {}) \ new))
    <3>1. \/ /\ v.status \in {"malformed", "request_changes"}
             /\ v.found = previous \cup new \cup {Contract}
          \/ /\ v.status = "success" /\ v.found = {}
             /\ previous = {} /\ new = {}
      BY <2>2 DEF ContractVerdicts, Verdict
    <3> QED BY <1>0, <3>1 DEF Owes, Statuses
  <2> QED BY <2>1, <2>2, GateKeeps
<1>5. CASE LegacyReview
  <2>1. PICK found \in SUBSET Findings :
          Gate(LegacyVerdicts(found), found, {},
               IF found = {} THEN {} ELSE (previous \cap Findings) \ found)
    BY <1>5 DEF LegacyReview
  <2> DEFINE skipped == IF found = {} THEN {} ELSE (previous \cap Findings) \ found
             left == (unresolved \ {}) \cup found
             omitted == (((unmentioned \cup skipped) \ {}) \ found)
                          \cup ((forgotten \ {}) \ found)
  <2>2. found # {} => left \subseteq omitted \cup found
    BY <1>0
  <2>3. found = {} /\ previous = {} => left \subseteq omitted
    BY <1>0
  <2>4. ASSUME NEW v \in LegacyVerdicts(found)
        PROVE  Owes(v, left, omitted)
    <3> HIDE DEF left, omitted
    <3>1. CASE found # {}
      BY <1>0, <2>2, <2>4, <3>1, VerdictOwes DEF LegacyVerdicts
    <3>2. CASE found = {} /\ previous # {}
      BY <1>0, <2>4, <3>2 DEF LegacyVerdicts, MismatchVerdicts, Verdict, Owes, Statuses
    <3>3. CASE found = {} /\ previous = {}
      BY <1>0, <2>3, <2>4, <3>3, PassedShape DEF LegacyVerdicts, Owes, Statuses
    <3> QED BY <3>1, <3>2, <3>3
  <2>5. skipped \in SUBSET Findings
    OBVIOUS
  <2> QED BY <2>1, <2>4, <2>5, GateKeeps
<1>6. CASE FreeTextReview
  <2>1. PICK new \in SUBSET Findings : Gate(FallbackVerdicts(new), new, {}, {})
    BY <1>6 DEF FreeTextReview
  <2> DEFINE left == (unresolved \ {}) \cup new
             omitted == (((unmentioned \cup {}) \ {}) \ new)
                          \cup ((forgotten \ {}) \ new)
  <2>2. previous = {} => left \subseteq omitted \cup new
    BY <1>0
  <2>3. ASSUME NEW v \in FallbackVerdicts(new)
        PROVE  Owes(v, left, omitted)
    <3> HIDE DEF left, omitted
    <3>1. CASE previous # {}
      BY <1>0, <2>3, <3>1 DEF FallbackVerdicts, MismatchVerdicts, Verdict, Owes, Statuses
    <3>2. CASE previous = {}
      <4>1. v \in Judged(new, FALSE) \/ (new = {} /\ v \in Passed)
        BY <2>3, <3>2 DEF FallbackVerdicts
      <4> QED BY <1>0, <2>2, <3>2, <4>1, VerdictOwes
    <3> QED BY <3>1, <3>2
  <2> QED BY <2>1, <2>3, GateKeeps
<1> QED BY <1>1, <1>2, <1>3, <1>4, <1>5, <1>6

LEMMA ImplementKeeps ==
  ASSUME ReviewInv, Implement
  PROVE  ReviewInv'
<1>1. /\ place = "implementing" /\ tree' \in Trees /\ rework' = FALSE
      /\ retries' \in 0 .. EVIDENCE_MAX
      /\ UNCHANGED <<strategy, kind, iterations, prints, resumes, unresolved,
                     unmentioned, forgotten>>
  BY ReviewAssumption DEF Implement
<1>2. /\ iterations \in Nat /\ MAX_ITERATIONS \in Nat /\ STALL_THRESHOLD \in Nat \ {0}
      /\ NoFindings \in [Ids -> 0 .. MAX_ITERATIONS] /\ rework \in BOOLEAN
      /\ \A f \in Ids : NoFindings[f] = 0
  BY ReviewAssumption DEF ReviewInv, ReviewTypeOK, NoFindings
<1>3. CASE place' = "noDelta" /\ UNCHANGED <<streak, snapshot>>
  BY <1>1, <1>3 DEF ReviewInv, ReviewTypeOK, BrakesHold, BlockerInv, NoBlockerLost,
                    Looping, Settled, previous
<1>4. CASE rework /\ place' = "review" /\ UNCHANGED <<streak, snapshot>>
  BY <1>1, <1>4 DEF ReviewInv, ReviewTypeOK, BrakesHold, BlockerInv, NoBlockerLost,
                    Looping, Settled, previous
<1>5. CASE ~rework /\ place' = "review" /\ streak' = NoFindings /\ snapshot' = NoTree
  <2>1. ReviewTypeOK'
    BY <1>1, <1>2, <1>5 DEF ReviewInv, ReviewTypeOK, Looping
  <2>2. BrakesHold'
    BY <1>1, <1>2, <1>5 DEF ReviewInv, BrakesHold, Looping
  <2>3. BlockerInv'
    BY <1>1, <1>5 DEF ReviewInv, BlockerInv, NoBlockerLost
  <2> QED BY <2>1, <2>2, <2>3 DEF ReviewInv
<1> QED BY <1>2, <1>3, <1>4, <1>5 DEF Implement

(* A failed run: a lost rework request leaves nothing unresolved that is   *)
(* not recorded as forgotten, and a regained one only remembers more.      *)
LEMMA FailuresKeep ==
  ASSUME ReviewInv, RunRecovered \/ EvidenceRework \/ RunHeld
  PROVE  ReviewInv'
<1> USE DEF ReviewInv, ReviewTypeOK, BrakesHold, BlockerInv, NoBlockerLost, Looping,
            Settled, previous
<1>1. CASE RunRecovered
  <2>1. retries' \in 0 .. EVIDENCE_MAX
    BY <1>1, ReviewAssumption DEF RunRecovered
  <2> QED BY <1>1, <2>1 DEF RunRecovered
<1>2. CASE EvidenceRework
  <2>1. retries' \in 0 .. EVIDENCE_MAX
    BY <1>2, ReviewAssumption DEF EvidenceRework
  <2> QED BY <1>2, <2>1 DEF EvidenceRework
<1>3. CASE RunHeld
  BY <1>3 DEF RunHeld
<1> QED BY <1>1, <1>2, <1>3

LEMMA ResumesKeep ==
  ASSUME ReviewInv, HumanResumes
  PROVE  ReviewInv'
<1>1. /\ iterations' = 0 /\ streak' = NoFindings /\ snapshot' = NoTree
      /\ unresolved' = {} /\ unmentioned' = {} /\ forgotten' = {} /\ retries' = 0
      /\ resumes < MaxResumes /\ resumes' = resumes + 1
      /\ place' \in Looping /\ rework' \in BOOLEAN
      /\ UNCHANGED <<strategy, kind, tree, prints>>
  BY DEF HumanResumes, Looping, ReviewInv, ReviewTypeOK
<1>2. /\ NoFindings \in [Ids -> 0 .. MAX_ITERATIONS] /\ resumes' \in 0 .. MaxResumes
      /\ retries' \in 0 .. EVIDENCE_MAX
      /\ MAX_ITERATIONS \in Nat \ {0} /\ STALL_THRESHOLD \in Nat \ {0}
      /\ \A f \in Ids : NoFindings[f] = 0
  BY <1>1, ReviewAssumption DEF ReviewInv, ReviewTypeOK, NoFindings
<1>3. ReviewTypeOK'
  BY <1>1, <1>2 DEF ReviewInv, ReviewTypeOK
<1>4. BrakesHold'
  BY <1>1, <1>2 DEF BrakesHold
<1>5. BlockerInv'
  BY <1>1 DEF BlockerInv, NoBlockerLost
<1> QED BY <1>3, <1>4, <1>5 DEF ReviewInv

(* The types, the brakes and what the gate remembers hold together in      *)
(* every reachable state of the review loop.                               *)
THEOREM ReviewInvariant == ReviewSpec => []ReviewInv
<1>1. ReviewInit => ReviewInv
  <2> SUFFICES ASSUME ReviewInit PROVE ReviewInv
    OBVIOUS
  <2>1. ReviewTypeOK
    <3>1. NoFindings \in [Ids -> 0 .. MAX_ITERATIONS] /\ 0 \in 0 .. MAX_ITERATIONS
          /\ 0 \in 0 .. MaxResumes /\ 0 \in 0 .. EVIDENCE_MAX
      BY ReviewAssumption DEF NoFindings
    <3>2. prints = {} /\ prints \subseteq BOOLEAN \X SUBSET Ids
      BY DEF ReviewInit
    <3> QED BY <3>1, <3>2 DEF ReviewInit, ReviewTypeOK, Looping
  <2>2. BrakesHold /\ BlockerInv
    BY ReviewAssumption DEF ReviewInit, BrakesHold, BlockerInv, NoBlockerLost, NoFindings
  <2> QED BY <2>1, <2>2 DEF ReviewInv
<1>2. ReviewInv /\ [ReviewNext]_reviewVars => ReviewInv'
  <2> SUFFICES ASSUME ReviewInv, [ReviewNext]_reviewVars PROVE ReviewInv'
    OBVIOUS
  <2>1. CASE UNCHANGED reviewVars
    BY <2>1 DEF reviewVars, ReviewInv, ReviewTypeOK, BrakesHold, BlockerInv,
                NoBlockerLost, previous
  <2> QED BY <2>1, ReviewsKeep, ImplementKeeps, FailuresKeep, ResumesKeep
          DEF ReviewNext, ReviewStep
<1> QED BY <1>1, <1>2, PTL DEF ReviewSpec

(* No finding has blocked more reviews than there were, and while the task *)
(* goes round on its own no brake has been reached (handleAutoReviewGate). *)
THEOREM BrakesAreHeld == ReviewSpec => []BrakesHold
<1>1. ReviewInv => BrakesHold
  BY DEF ReviewInv
<1> QED BY <1>1, ReviewInvariant, PTL

(* A task is accepted only with every reported finding closed, except what *)
(* went through one of the three doors: left unmentioned by a legacy       *)
(* review, dropped with the rework request of a run that was recovered, or *)
(* dropped by an audit return (reviewGate.ts, coordinator.ts).             *)
THEOREM BlockersKept == ReviewSpec => []NoBlockerLost
<1>1. ReviewInv => NoBlockerLost
  BY DEF ReviewInv, BlockerInv
<1> QED BY <1>1, ReviewInvariant, PTL
=============================================================================
