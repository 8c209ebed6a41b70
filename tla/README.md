# TLA+ specifications of AIF Handoff

AIF Handoff moves a *task* through a pipeline of AI stages (analysis, planning,
implementation, review, QA) while people, a REST API, an MCP server and a
background agent all write the same SQLite row. This directory models the
control of that system, model-checks it with TLC and proves its safety
properties with TLAPS.

## 1. Inventory of the system

| Part | State it keeps | Operations | Hard behaviour | Module |
| --- | --- | --- | --- | --- |
| State machine (`shared/src/stateMachine.ts`) | none: row, event → patch | 11 human events | which blocks may be retried; resets | `TaskStateMachine` |
| Row store (`data/src/index.ts`, `shared/src/schema.ts`) | the `tasks` row: status, blocked fields, retry deadline and counter, flags, claim | field writes with normalisation, claim, release, candidate and watchdog queries | two-statement writes, compare-and-set writes | `TaskLifecycle` and others |
| Coordinator, one task (`agent/src/coordinator.ts`, `processOneTask`) | the stage run | claim, start, hand off, catch, release | awaits between read and write; crash; error recovery | `TaskLifecycle` |
| Coordinator, the pool (`pollAndProcess`) | semaphores, per-cycle caches | cron and wake cycles, caps, auto-queue, schedule | overlapping cycles, runners that outlive their timeout | `CoordinatorPool` |
| Recovery of runtime failures (`coordinator.ts`, `runtimeRecoveryOptions.ts`) | fallback profile in the row, failed profiles, recorded attempts | context, transient, audit and post-write recoveries | recoveries that repeat themselves; a fallback left for another stage | `RuntimeRecovery` |
| Watchdog (`agent/src/taskWatchdog.ts`) | none | release due blocks, recover stale rows | list-then-write | `TaskLifecycle` |
| Stage runners (`agent/src/subagents/*`) | the model session | final writes of the row, questions | writes that do not look at the row again | `TaskLifecycle` |
| Review gate (`agent/src/autoReviewHandler.ts`, `reviewGate.ts`) | findings across iterations | accept, rework, retry, hand to a human | convergence; blockers lost between reviews | `ReviewConvergence` |
| API (`api/src/services/taskEvents.ts`, `operatorVerifiedCompletion.ts`, `routes/tasks.ts`) | none of its own | human events, edits, questions, answers, comments, operator completion | races with a live run | `TaskLifecycle` |
| MCP server (`mcp/src/tools/syncStatus.ts`) | none | status sync | same events without the API's guards | `TaskLifecycle` |
| Question batches (`data/src/index.ts`) | questions, answers, resume stage | raise, answer, resume, resolve | several batches, answered in any order and by two routes | `QuestionBatches` |
| Task hierarchy (`data/src/index.ts`) | parent, root, depth, role, closeout policy | create, move, role, delete, roll-up | a write that has to reach all ancestors | `TaskTree` |
| Audit batches (`data/src/index.ts` and callers) | report artifacts, attempts, rework boundary, readiness, held synthesis | evaluate, rework, terminalize, approve, start | late evaluations, two readings of "ready" | `AuditBatch` |
| Poll scheduler, wake channel (`agent/src/pollScheduler.ts`, `wakeChannel.ts`) | timers, a socket | tick, wake, probe, reconnect | lost announcements, reconnect loops | `WakeChannel` |
| Endpoint requests (`runtime/src/adapters/qwenLocalAgent/api.ts`, lease store in `data/src/index.ts`) | per process: semaphore with queue, circuit breaker; shared: lease and cooldown of an endpoint | queue, wait for the cooldown, acquire, renew, send, release, retry | fencing of late holders, aborts during handoffs, crashes with a lease | `EndpointRequests`, `EndpointSlot` |
| Codex app server (`runtime/src/adapters/codex/appServer`, `timeouts.ts`) | child process, RPC requests, timers | handshake, turn, interrupt, retry | a timeout against a late answer; a prompt run twice | `AppServerRun` |
| Chat (`web/src/hooks/useChat.ts`, `api/src/routes/chat.ts`, `ws.ts`) | streams of sessions, active runs | send, stop, stream, answer | an answer over two channels in any order | `ChatStreams` |
| Warmup sessions, memory candidates, split proposals, roadmap generation, git worktrees, login broker, validators, the other adapters, the rest of the web UI | their tables | — | mostly sequential, or text | not modelled |

The processes share only the database. The agent is one JavaScript thread, so a
stretch of code between two `await`s is not interleaved with the agent's other
work, but the API and the MCP server are other processes and may write the row
between any two of its statements. The row's `lockedBy`/`lockedUntil` claim is
what keeps stage runs apart; nothing keeps the API away from a claimed row.

What makes the parts correct: claims keep runs apart and are always given back;
caps hold whatever cycles overlap; a cancelled or held task is left alone until
a human acts; a finished task carries the approvals its configuration asks for
and no blocker was lost on the way; a block with a deadline is always released;
loops (review, recovery, retries, reconnects) end; a single-slot endpoint
serves one request at a time and every waiting request ends; derived state
(roll-ups, readiness) agrees with what it is derived from. `PROJECT.json` lists
the hazards one by one, each at its line.

## 2. Modules

| Module | Models | Extends |
| --- | --- | --- |
| `TaskStateMachine` | the row, `CLEAN_STATE_RESET`, the write normalisation, `applyHumanTaskEvent` | |
| `TaskLifecycle` | one row with the agent, its stage runs, the API and the MCP server | `TaskStateMachine` |
| `TaskLifecycle_proofs` | theorems and proofs | `TaskLifecycle`, TLAPS |
| `EndpointRequests` | requests of several processes to one protected endpoint: semaphore, cooldown, lease, circuit | instantiates `EndpointSlot` |
| `EndpointSlot` | abstract promise: one user at a time | |
| `EndpointRequests_proofs` | theorems and proofs, the refinement included | `EndpointRequests`, TLAPS |
| `CoordinatorPool` | poll cycles over several tasks: semaphores, caps, auto-queue, schedule | |
| `CoordinatorPool_proofs` | theorems and proofs | `CoordinatorPool`, TLAPS |
| `ReviewConvergence` | the review loop of a task over its iterations | |
| `RuntimeRecovery` | the recoveries after a runtime failure, over the stages of a task | |
| `AppServerRun` | one run of the Codex app-server adapter, with its retry | |
| `Loops_proofs` | theorems and proofs of the two loops | `ReviewConvergence`, `AppServerRun`, TLAPS |
| `QuestionBatches` | all question batches of a task | |
| `QuestionBatches_proofs` | theorem and proof | `QuestionBatches`, TLAPS |
| `TaskTree` | hierarchy and roll-ups of several tasks | |
| `TaskTree_proofs` | theorems and proofs | `TaskTree`, TLAPS |
| `AuditBatch` | the reports of a batch and its synthesis | |
| `Stores_proofs` | theorems and proofs | `RuntimeRecovery`, `AuditBatch`, TLAPS |
| `ChatStreams` | chat turns between browser, route and socket | |
| `ChatStreams_proofs` | theorem and proof | `ChatStreams`, TLAPS |
| `WakeChannel` | scheduler and wake socket of the agent | |
| `MCTaskLifecycle`, `MCEndpointRequests`, `MCCoordinatorPool` | TLC instances of one module | that module |
| `MCLoops` | TLC instance of the two loops that must end | `ReviewConvergence`, `AppServerRun` |
| `MCStores` | TLC instance of four families of rows | `RuntimeRecovery`, `QuestionBatches`, `TaskTree`, `AuditBatch` |
| `MCWaiting` | TLC instance of the two receivers of the socket | `ChatStreams`, `WakeChannel` |

The last three put components that share no state into one run: a variable
`part` says which component a behaviour is about and the others stay in one
initial state. It is a disjoint union and says nothing about their interaction.
The components meet as follows. A task of `CoordinatorPool` goes through the
steps of `TaskLifecycle`; a stage run there awaits a model query that is a run
of `AppServerRun` or a request of `EndpointRequests`; the review gate of
`TaskLifecycle` (accept, rework, refuse: any of them) is `ReviewConvergence`;
its stage error is `RuntimeRecovery`; its single question batch is one of
`QuestionBatches`; `TaskTree` and `AuditBatch` look at the statuses that
result. `WakeChannel` starts the cycles of `CoordinatorPool`.

### Task lifecycle: state

`row` is the task row, cut down to the nine fields the automation decides on.
A blocked reason is free text in the code and every decision tests a prefix or
a substring of it, so it is modelled by the class that those tests tell apart
(`BlockedReasons`). A deadline is modelled by whether it is set; that it passes
is left to the step that reads it. Retry counters saturate at `RetryCap`, which
lies above every limit.

`lock` is the claim: free, held by this agent process, or held by one that is
gone. `js` is the synchronous section the agent is in between a query and the
write that uses its result (a due row, a stale row, a selected or claimed
candidate): the watchdog and the poll loop write from what they *listed*, so
the model keeps what they listed. `runs` holds the stage runs that await their
runner or the review gate, with the values of the selected row that they use
later. `answered`, `batch` and `fastFix` are the human side: a comment newer
than the row, an open blocking question batch, a `fast_fix` request in its
await. `verdict` is a history variable: how far the newest implementation was
approved.

### Task lifecycle: steps

One action per operation. The agent's thread: `ReleaseStaleClaims`,
`ListDueBlocked`/`ReleaseDueBlocked`, `ListStale`/`RecoverStale`,
`AdvanceBacklog`, `Select` and what may follow it (`SkipCandidate`,
`RuntimeGateBlock`, `NoCapableRuntimeBlock`, `Claim`), then `AbandonClaim`,
`PreStartGuard` or `StartStage`. A run: the runner's own final writes
(`RaiseQuestions`, `TriageQuestions`, `RunnerWrite`), then the handoff of
`processOneTask` (`KeepRunnerOutcome`, `RefuseHandoff`, `Succeed`,
`EnterReviewGate`, `GateRefuse`, `GateAccept`), its catch (`StageError`) and its
finally (`Release`). The agent may crash or shut down (`Restart`). People and
other processes: `RegularTransition`, `AcceptExistingPlan`,
`OperatorVerifiedCompletion`, `ConfigGovernanceBlock`,
`BeginFastFix`/`EndFastFix`, `Comment`, `EditTask`, `CreateQuestion`,
`AnswerBatch`, `SyncStatus`.

Which of several outcomes happens often depends on texts (model output, error
messages, manifests, evidence): the model then takes any of the rows the code
may write.

### Task lifecycle: granularity and what is left out

* One call of the data layer is one step, also where it reads the row and
  updates it in two statements (`setTaskFields`, the coordinator's
  `updateTaskStatus`); a handler of the API or the MCP server that does not
  await is one step. Results that depend on this are marked below.
* After a runner settles, everything up to the release of the claim are promise
  reactions; they run before the next timer (`EventLoopFree`). A runner or the
  review gate may settle at any time.
* A live claim does not go stale: it is renewed every 30 s while a query runs.
* A run that is abandoned by the stage timeout ends there; the runner that goes
  on is in `CoordinatorPool` (`zombies`), that it may still write the row is
  not modelled.
* Free edits of the blocked fields and of `skipReview` through PUT, tasks with
  audit or roadmap artifacts and container tasks are not in this module.
  Auto-resume on answer is on, as by default.

### Endpoint requests

A request (a call of `postChatCompletions` for an endpoint with a budget policy
and a lease store) passes, in this order: the FIFO semaphore of its process
(`active`, `queue`), the shared cooldown, the loop that takes the lease row, the
circuit breaker of its process with its health check, the fetch. `pc` says
where it is; what it took is given back in the reverse order by the two
`finally` blocks (`ReleaseLease`, `LeaveSemaphore`), and an HTTP 5xx makes it
enter again (`retry`, `attempt`).

* Instants (`leaseExpiresAt`, `cooldownUntil`) are modelled by the time left;
  `Tick` lets time pass. Delays and timers may fire at any time, late included,
  so heartbeats may come after the expiry. The clocks of the processes agree.
* `held` is the time left of the lease as its holder last heard of it; a
  request trusts its lease while `held` is not zero. It is what the refinement
  mapping uses.
* A store call is one SQLite statement and one step, and may throw: a failed
  cooldown read counts as none, a failed heartbeat ends the request, a failed
  release leaves the row to expire. The lease token is the request.
* Which failures open the circuit depends on error texts and on the abort's
  reason; where that is so, both happen (`RecordAbort`, `RecordUnclassified`).
* A crash (`Crash`) wipes a process's memory and leaves the row.
* `cancel` of the lease store and `releaseStaleRuntimeEndpointLeases` have no
  caller outside tests and are left out. An unlimited queue wait
  (`endpointQueueTimeoutMs` below zero) is not an instance of the fairness.

### Coordinator pool

A task is its place in the pipeline, its claim, whether it is paused, scheduled
or bound to a branch of the shared work tree. A cycle keeps the thread from its
first statement to the await of its stage's runs; the API may write between any
two of its steps (`ApiStep`). `cache`, `spawned` and `failed` are the values a
cycle keeps across awaits, `runs` the promises that have not settled, `zombies`
the runners that outlived `runStageWithTimeout`. The auto-queue counts, picks and
advances in three steps. Which claims are stale, which deadlines have passed
and which schedules are due is a choice of the clock. `totalActive` is a sum
over the stages; it is written as the number of slots taken (`TakenSlots`), so
that the proofs can count.

### Review convergence

A finding is its id; what a review says of it is the reviewer model's choice.
The actions are the readings of a review that the gate has (structured,
mismatched, unparsable, without the contract, legacy, free text) and the
implementer's runs; `streak`, `iterations`, `snapshot` and `prints` are the four
things the brakes look at. `kind` tells a development task from the audit tasks,
which failed validation sends back to work (`AuditReturn`).

A run of the implementer hands its work off (`Implement`), is sent back with a
refused manifest or evidence (`EvidenceRework`, counted by `retries`), ends in a
block that waits for a person (`RunHeld`), or fails and is recovered
(`RunRecovered`). The last step is a failed *rework* run that goes on without its
rework request: the fallback to another profile writes `reworkRequested` back to
false (`coordinator.ts:1601`, `1782`), and so has an implementer that dies or
throws after it saved its log (`implementer.ts:6669`). A failed run that leaves
these fields as they are is a stutter; a block with a deadline keeps the task in
its place, as the watchdog puts it back. `reworkCompletionEvidenceAlreadySatisfied`
(`coordinator.ts:4474`) needs an artifact of a role no artifact has and is left
out.

Three history variables say what became of the blockers: `unresolved`, what any
review reported and none closed with evidence; `unmentioned`, the part of it a
legacy review left out; `forgotten`, the part dropped when a rework request was
lost or an audit return kept only the manual-review findings.

### Runtime recovery

`Fails` is the catch of `processOneTask`: the first recovery that takes the
error category, in the code's order. The stages are the implementer and the
reviewer; the ways back to the planner (plan quality, an answer) are left out, as
a fallback left behind there is not read (`runtimeRecoveryOptions.ts:117`
compares the stage). `durable` is the fallback in the row,
`memory` the map in the process whose entries expire after five minutes,
`guards` the recorded attempts. Capacities and preferences of profiles are
constants. The requirements snapshot stays the same, as a new one makes every
attempt a new one.

### App-server run

The coroutine, the RPC client, the process and the timers step separately; the
server answers, is silent or dies in any order. `Continue` resumes the
coroutine before any timer fires but after the other lines of the same chunk.
A second attempt follows a start timeout.

### Questions, tree, audit batch

`QuestionBatches`: a question is its batch and its idempotency key; the analyst,
a stage's run and the API raise them; the single-answer route and the batch
route answer them; retry, reanalysis, approval and cancellation move the task.
`TaskTree`: statuses are the classes the roll-up tells apart; a run under way
when its task becomes a container may still hand off. `AuditBatch`: a report is
its artifact row and its latest attempt, as the gates read only these; an
evaluation is two steps since git runs between its read and its write; a writer
names the current rework boundary, an older one or none. Validators, evidence
ledgers, the artifact of the synthesis itself and the counters are left out. The
hold of the synthesis (`holdSynthesisIfNotReady`) is one step although it is
three data calls.

### Chat and wake channel

`ChatStreams`: a turn is one POST whose answer arrives over the socket and as
the HTTP response, in any order of the two. The client's maps are the fields of
`ui` (`activeStreamsRef` is `key` with the insertion order `before`); the
server's request is `srv`. `WakeChannel`: work is one flag, set by a
write and cleared when a cycle begins; announcements may be lost or debounced,
the API may go and come back, the agent may restart.

## 3. Runs

Passing runs:

| Run | Instance | Checks |
| --- | --- | --- |
| `legacy` | intake off, two run slots, one crash, limits of 2; 76 k states | type, holds, claims, approvals, windows, scope: nine properties |
| `skip_review` | review skipped, config blockers, two slots, one crash, fairness; 142 k | `DoneEarned`, `DueBlockReleased`, `ClaimReleased` |
| `intake` | all eight stages, QA required, questions from runners, config blockers, one crash; 1.4 M | `DoneEarned` |
| `questions` | intake on, questions through the API at any moment | `CancelLeaksOnlyThroughStaleWrites` |
| `endpoint` | an agent process with two requests, an API process with one; TTL 2, one request of each process retries once, queue limit 1; 890 k | `TypeOK`, `SemaphoreExclusive`, `LeaseFenced`, `SlotSpec` |
| `endpoint_liveness` | three requests of one process, one of which retries once, queue limit 2, fairness; 21 k | `EveryRequestEnds` |
| `pool` | two tasks, two cycles, two stages, a profile with one slot in the first stage and two in the second, three settings; 1.8 M | `PoolTypeOK`, `SemaphoreAccounting`, `ClaimsBacked`, `SerialProject`, `QueueDepth` |
| `loops` | two findings, a parse error, two trees, two iterations, one evidence rework, one resume, all three kinds of task; both time limits on and off; fairness; 227 k | `BrakesHold`, `NoBlockerLost`, `ReviewLoopSettles`; `PromptSentOnce`, `SuccessEarned`, `AppRunSettles` |
| `stores` | three profiles; two batches of two questions; three tasks; one report; 462 k | `SecondOverflowStops`, `FallbackOfStage`; `PlanningAnswered`; `TreeSound`, `RollupCurrent`; `ReadyIsReleasable` |
| `waiting` | two messages, two sessions; two probes, two wakes, one restart; fairness; 190 k | `StopReachesTurn`, `StreamEnds`; `WorkPolled`, `WakeChannelReturns` |

Task lifecycle:

* `OperatorInputHold`: a hold is paused and never due, whoever wrote it.
* `ExclusiveRun`: one run at a time, and it holds the claim. It holds without
  intake; with intake an answer gives a live claim away (see below).
* `DoneEarned`: done only with the approvals the configuration asks for.
* `NoWorkAfterDone`: no stage works on a finished task. It holds with review; with
  review skipped an operator may close a task out under a running implementer,
  so `skip_review` does not check it.
* `RetryWindow`, `DueBlockReleased`: deadlines sit where the watchdog can
  release them, and it does.
* `ReworkScope`: a rework request never travels to another stage.
* `CancelLeaksOnlyThroughStaleWrites`: the agent's only two ways out of a
  cancellation, by name.
* `HoldLeftToHuman`, `VerifiedTerminal`: action properties; the latter holds
  when the project has no config blocker, without intake or where `DoneEarned`
  is claimed with it.
* `ClaimReleased`: no claim is held for ever, whatever status the row is in.

Endpoint requests:

* `SemaphoreExclusive`: one request inside the semaphore of a process, the slot
  taken exactly then, the queue exactly the waiters, each once.
* `LeaseFenced`: a lease its holder still trusts is the row's, with the same
  time left; nobody else's heartbeat, release or takeover touches it.
* `SlotSpec`: the requests that send under a trusted lease implement
  `EndpointSlot`. A request that outlives its lease without a heartbeat (a
  blocked event loop) may overlap with the next one until it learns of the
  loss; the mapping leaves it out, as the code can promise no more.
* `EveryRequestEnds`: no lost wake-up, no circular wait.

Pool:

* `SemaphoreAccounting`: both semaphores count the runs alive, however they
  were started and ended, so the caps are caps on runs. A profile may have a cap
  for each stage (`stageConcurrency`) while its runs share one count, so the
  largest of its caps bounds it.
* `ClaimsBacked`: no early exit of the candidate loop leaves a claim behind.
* `SerialProject`: a project that is not parallel has one run, also with
  overlapping cycles; not claimed where an answer may clear a live claim.
* `QueueDepth`: the auto-queue overfills a pool by no more than what the API
  started since it counted.

Loops and recoveries:

* `BrakesHold`, `ReviewLoopSettles`: no review loop goes past a brake or goes on
  for ever, whatever runs fail in between. Only an audit task may go past the
  stall threshold (below).
* `NoBlockerLost`: nothing is accepted with a blocker that was never closed,
  except through three named doors, which are disagreements listed below: a legacy
  review left it unmentioned; a failed rework run lost its request; an audit
  return dropped it. Every other reading, retry, resume and refusal keeps it.
* `SecondOverflowStops`: across stages, expired map entries and transient
  fallbacks, the second context overflow of a task stops it.
* `FallbackOfStage`: a stage never meets another stage's fallback.
* `PromptSentOnce`, `SuccessEarned`, `AppRunSettles`: the retry never runs a
  prompt twice, no success is reported beside a failure or a timeout, and a run
  with a time limit returns.

Stores:

* `PlanningAnswered`: a task goes on to planning only when no blocking question
  of any of its batches is open.
* `TreeSound`, `RollupCurrent`: depths and parents stay a tree; a container that
  nobody wrote since its last roll-up shows the roll-up of its children now.
* `ReadyIsReleasable`: what the summary announces as ready the start gate
  admits, except a report whose last write did not name the rework boundary.

Waiting:

* `StopReachesTurn`, `StreamEnds`: the Stop button stops the turn on screen and
  no turn is shown as running for ever, except after the disturbances recorded
  in `known`, which are disagreements listed below.
* `WorkPolled`, `WakeChannelReturns`: work is looked at whatever announcement is
  lost; the channel comes back when the API does.

### Bounds

One row is enough for the lifecycle: runs of different tasks meet only in the
caps. Two slots let a second run start where nothing prevents it; the intake
runs use one slot because a second run *is* possible there, which would only
multiply states. Limits of 1 or 2 with a counter cap one above reach "below",
"at" and "above" each limit. One crash is enough to leave a dead claim behind
in every status; one question through the API may come at any point of any run.

For the endpoint, three requests in two processes give one waiter behind the
semaphore and one behind the lease at the same time, a late holder and a
taker-over. A TTL of two ticks separates "renewed", "about to expire" and
"expired". A multiplier bound of 2 (4 in the code) and a wait maximum of one
tick reach cooldowns that are waited for and cooldowns that end the request.
A queue limit of one fills up. The liveness instance needs no second process:
another process's lease looks like the expired or unexpired lease of a crashed
request; three requests of one process queue up two deep.

For the pool, two tasks and two cycles are what a race for one slot needs; the
three settings make the profile cap, the project cap and the global cap bind in
turn. Each disturbance is in the setting it says most about: a scheduled start
in the parallel project, a pause in the serial one, lost claims in the crowded
one.

For the loops, a stall threshold and an iteration limit of 2 make each of the
two brakes bind in some behaviour: the same finding twice stalls, another one
meets the limit. One evidence rework is below and at its limit; a second one and
a second parse error were checked apart and show the same. A run of the app
server has no bound: its state is finite.

For the stores: a profile of unknown capacity, a small one and a larger one give
every answer of the compatibility test; one operator retry, and one automatic
retry of a report (3 in the code) to be below, at and above the limit; two
batches of two questions, one with an idempotency key and one without, overlap
in every order; three tasks reach the depth limit and a move of a subtree (tasks
that are no synthesis are symmetric). One closeout policy and one report are in
the instance: the roll-up of a second policy differs in which children it
counts, and no write of a report reads another report, only its start does. The
theorems `TreeIsSound`, `RollupsAreCurrent` and `ReadyReleasable`
are about every policy and any number of reports.

For waiting: two turns overlap in one session, in two, and in a new chat.

### Violation runs

Each states a sentence of the repository, and TLC finds a behaviour of the code
that it rules out; `findings` in `PROJECT.json` quotes the sentences.

| Run | What the code does |
| --- | --- |
| `shared_tree` | a cycle keeps a project's concurrency across its awaits; a plan accepted meanwhile binds a task to the shared checkout and a second task starts beside it |
| `answers_stuck` | the last question answered by the single-answer route, or the newer batch before the older, leaves the task waiting with nothing to answer |

### Other disagreements

Met while translating; the model follows the code and no run is spent on them.

Task lifecycle:

* The success write of a stage (`coordinator.ts:5121`) erases a pause set during
  it; `docs/architecture.md:225`: "The pause takes effect on the **next**
  coordinator cycle".
* A runner's final write (`implementer.ts:6470`) replaces a cancellation, one of
  the two doors of `CancelLeaksOnlyThroughStaleWrites`;
  `coordinator.test.ts:654`: "preserves operator_cancelled when cancel_task
  lands while a mocked subagent is active".
* An answer (`data/src/index.ts:4035`) gives away the claim of a live run, and a
  second run starts; `docs/architecture.md:124`: "Tasks are atomically claimed".
* The MCP status sync (`syncStatus.ts:60`) resumes a hold that nobody answered;
  `taskEvents.ts:1017`: "operator_input_required tasks need a newer human answer
  comment before retry_from_blocked can resume".
* `cancel_task` on a blocked row records `blockedFromStatus =
  blocked_external` (`stateMachine.ts:217`); retrying it after an answer leads
  to `blocked_external` with every blocked field reset, which only
  `cancel_task` leaves.
* `getResumeStatusForStaleTask` (`taskWatchdog.ts:28`) resumes a stale
  `implementing` task in `implementing`; `docs/architecture.md:170` says
  `plan_ready`.
* A plan that the plan checker rejects for good is blocked with the message
  "then retry from blocked" (`coordinator.ts:4314`), which
  `stateMachine.ts:52` allows only for a block from `planning`; a plan refused
  by `accept_existing_plan` is blocked with "retry accept_existing_plan"
  (`taskEvents.ts:1357`), which is refused outside the backlog.
* `checkConfigGovernanceBlocker` (`taskEvents.ts:185`) writes before the row's
  status is looked at, so it takes a `verified` task out of its terminal state.
* With intake `blockedFromStatus` survives a question and its answer, which
  resumes the task at any stage, and a planner that blocks afterwards records
  that stale origin. TLC finds three ways to a `done` origin without approval, so
  `DoneEarned` is claimed with intake only where they are closed: a question
  through the API on a task blocked from `done`; with review skipped and no QA, an
  operator who closes out a task that an implementer has claimed, an
  `approve_done` that blocks it for missing evidence, and that implementer's
  question; with two runs and no QA, a reviewer in its gate beside a second run.
* `appendRuntimeBudgetActivity` returns false when its compare-and-set finds the
  row changed, and a task whose budget is exhausted falls through to the claim
  (`coordinator.ts:2258`).

Questions:

* `handleRaiseQuestionsOutput` (`raiseQuestions.ts:75`) blocks "for manual
  triage" and the planner returns normally; the coordinator's success write
  then replaces the block by `plan_ready`. A failing run likewise overwrites
  `needs_input` with `blocked_external`.
* The planner's `needs_input` decision (`planner.ts:687`) stores no question
  batch, so there is nothing to answer (`docs/api.md:762`).

Review and recovery:

* `buildLegacyBlockingSectionDecision` (`reviewGate.ts:1151`) drops previous
  blockers that a legacy review does not mention; `reviewGate.ts:1054`:
  "Structured output is the only path that can prove a previous blocker was
  actually resolved." (`unmentioned`)
* A rework run that overflows its context or meets a transient failure goes on
  with another profile and `reworkRequested: false` (`coordinator.ts:1592`,
  `1773`, `2058`), and one that dies after `implementer.ts:6669` has cleared it.
  The next run is then no rework: its no-delta check is skipped
  (`coordinator.ts:5011`) and its success write (`5101`) clears
  `autoReviewState`. The open blockers are forgotten without a person and a later
  review may accept; the same sentence speaks against it. (`forgotten`)
* A review that is malformed and names findings for a manual review keeps only
  these (`reviewGate.ts:399`); an audit task that `returnAuditTaskToRework`
  (`coordinator.ts:2861`) then sends back to work has lost the others
  (`forgotten`), and it goes on although a finding has reached the stall
  threshold.
* A fallback profile that fails once with a transient error and has no larger
  profile above it is cleared: the task returns to the profile known to overflow
  and then fails closed. The guard compares neither stage nor failed profile.
  The audit-report timeout recovery (`coordinator.ts:1832`) cannot be reached
  from the implementer's stage, whose timeouts are caught before; with an active
  fallback the audit recovery selects that profile again while marking it
  failed.

Endpoint and app server:

* A run timeout during a queue wait sets the shared cooldown
  (`qwenLocalAgent/api.ts:2334`);
  `work-20260525-distributed-runtime-endpoint-leases/design.md:68`: "Queue
  timeout before distributed acquisition or before `fetch()` is classified as
  AIF backpressure, not a provider service failure."
* `docs/providers.md` calls the endpoint's concurrency guard process-local; the
  code takes the shared lease.
* A child process that exits silently before the start window is reported, and
  retried, as a start timeout; `timeouts.ts`: "Resolves to `true` if the process
  was killed due to a start timeout". A failed `turn/interrupt` is not sent
  again; an `error` event of the child during the turn detaches the client, and
  only the run timeout ends the run.

Tree:

* `applyDescendantHierarchyShift` (`data/src/index.ts:696`) returns when the
  depth stays the same, so a subtree moved to a parent of the same depth keeps
  the old `rootTaskId` below its top;
  `work-20260513-design-hierarchical-task-model/design.md:14`: "`rootTaskId`:
  nullable task id. For hierarchy members, this is the root container id". It
  needs four tasks, and `TreeSound` says nothing of roots.
* A change of role or policy does not refresh the container's own roll-up; a
  verified parent is never rolled up again; a late handoff writes `done` on a
  task that became a container; `cancel_task` on a container is undone by the
  next write of a child.

Audit batch:

* After one rework, `terminalizeRoadmapSourceReportAsInconclusive`
  (`coordinator.ts:3476`) and the operator-verified completion
  (`operatorVerifiedCompletion.ts:610`) write without the boundary: an attempt
  is added and the artifact row stays invalid. The summary counts the attempt,
  makes the batch ready and unpauses the synthesis; the start gate reads the row
  and refuses the synthesis and every later report, until a manual exception or
  a new request for changes. `work-20260512-audit-artifact-lifecycle/design.md:110`:
  "A stale update that references an older boundary must record no trusted
  current-state transition and must not make synthesis ready."
  `ReadyIsReleasable` excepts exactly this; without its exception TLC shows it.
* A report reopened after the synthesis was accepted makes the batch complete
  again with the old synthesis.

Chat (the members of `known`):

* `readded`: the socket's `chat:done` of a new chat comes before its HTTP
  response, which then adds the finished stream again (`useChat.ts:417`); a
  later Stop goes to a conversation that is over, contrary to
  `useChat.test.ts:484`.
* `promoted`: selecting another session while a new chat is pending takes the
  pending stream into it (`useChat.ts:161`).
* `late`: a late 409 or 500 of one turn removes the stream of the next one in
  the session and hides its Stop button.
* `broken`: a reconnect after the first token leaves the turn shown as running.

### Fairness

Task lifecycle (`FairSpec`, in `skip_review`): the agent's thread always finishes
a section and polls again; every poll cycle begins with the clean-up of claims
and the list of due blocks, unconditionally and before anything else
(`pollAndProcess`), so each is weakly fair on its own; an awaited runner settles
because `runStageWithTimeout` bounds it, and the finally block follows. Nothing
is assumed of people, of the MCP server or of restarts.

Endpoint requests (`FairSpec`, in `endpoint_liveness`): time passes; a request's
next synchronous stretch runs; a retry enters the semaphore again at once;
health checks and fetches settle because `readEndpointHealthTimeoutMs` and the
run's timeout bound them. The lease loop measures its own waiting time and gives
up on the first refused turn after `endpointQueueTimeoutMs`, so a request that is
refused again and again times out (strong fairness of `LeaseWaitTimeout`); a
circuit that keeps reopening is found too long on some turn (strong fairness of
`CircuitTooLong`). No heartbeat, abort, queue timeout, crash or new request is
assumed to come.

`loops`: the coordinator keeps picking up a task in a stage and the run gets
through (`ReviewStep`, reviews and `Implement` only: no failure, recovery or
block is assumed to come);
coroutine, timers and the exit of a killed process come (`AppProgress`). The app
server owes no answer. People need not resume anything.

`waiting`: the chat server answers because a run has a timeout, sockets and
timers deliver (`ChatProgress`); the cron ticks and its cycles end (`Polling`);
probes, reconnect timers and failing connections come to an end (`Connecting`);
a connection that is tried again and again while the API accepts them opens
(strong fairness of `Opens`). No wake is assumed to arrive.

Deadlock is checked in every run but `loops`, `stores`, `waiting` and
`answers_stuck`: a settled loop, a finished run, and rows whose bounds are used
up may stop.

## 4. Proofs

`TaskLifecycle_proofs` proves, for every value of the constants that satisfies
the named assumptions (`RetryCapAssumption`, `LifecycleAssumption`):

| Theorem | States | Needs |
| --- | --- | --- |
| `TypeCorrect` | `Spec => []TypeOK` | `TypeInv`: `TypeOK` and that a due section remembers an origin, or the release would write a row without status |
| `HoldNormalised` | `Spec => []OperatorInputHold` | `RowStored`: every step stores a normalised row or keeps it; at the granularity of data-layer calls |
| `RunsExclusive` | without intake, `Spec => []ExclusiveRun` | `ClaimInv`: a claim in hand (a claimed section or a live run) is this process's, and the two never coexist |
| `DeadlinesReleasable` | without intake, `Spec => []RetryWindow` | `DeadlineInv`: a deadline and work in progress exclude each other, and a section remembers only resumable statuses |
| `CancelLeaks` | `Spec => CancelLeaksOnlyThroughStaleWrites` | `SelectionInv`: a section's candidate was not cancelled when it was listed; at the granularity of data-layer calls |
| `DoneIsEarned` | without intake, `Spec => []DoneEarned` | `EarnedInv`: a closed status also survives as the status a row was blocked from and as what a planner's run keeps for its terminal block; a row may carry it into `implementing`, where the implementer's start takes the verdict back |
| `NothingWorksAfterDone` | with a review, without intake, `Spec => []NoWorkAfterDone` | `WorkInv`: while a section or a run is under way the row is not closed, nor can anything they remember bring it back there |
| `VerifiedIsTerminal` | with a review, without intake and configuration blockers, `Spec => VerifiedTerminal` | `WorkInv` |
| `HoldsAreLeft` | without intake, `Spec => HoldLeftToHuman` | `HoldInv`: nobody is at work on a task that waits for an operator's input; with `HoldNormalised` |
| `ReworkStaysInScope` | with a review, without intake and configuration blockers, `Spec => []ReworkScope` | `ReworkInv`: whoever would move the row elsewhere listed or started it when there was no rework request; with `WorkInv` |
| `DoneIsEarnedWithIntake` | with a review or QA, no question through the API and one run of the task at a time, `Spec => [](DoneEarned /\ NoWorkAfterDone)` | `OpenInv`: an open row carries no closed status in any field, nobody works on any other row, and sections and runs remember only open statuses and active stages |
| `VerifiedIsTerminalWithIntake` | the same, without configuration blockers, `Spec => VerifiedTerminal` | `OpenInv` |
| `HoldsAreLeftWithIntake` | one run of the task at a time, `Spec => HoldLeftToHuman` | `HoldInv`, shown action by action: a question or an answer may leave the reason of a hold on a row that is no longer blocked |
| `DeadlinesReleasableWithIntake` | no question through the API and one run of the task at a time, `Spec => [](RetryWindow /\ RunnersClaimed)` | `AnswerInv`: no runner works on a row in `needs_input` or on one that a retry brings back there, so an answer never takes a runner's claim, nobody lists its row, and no deadline meets its questions |

Each follows the same outline: the initial states satisfy the invariant, each
part of `Next` (agent section, run, human, restart, stutter) preserves it, one
lemma per part and one step per action, and a last temporal step. Lemmas on
the operators (`CleanTo`, `Block`, `EventRow`, …) come first. `DoneIsEarned` to
`ReworkStaysInScope` rest on a summary of the steps (`Step`: a human's step, a
section that looks, writes or starts a run, a run, a stop, a pause), which lemma
`Steps` derives from `Next` once, and on `BaseInv`, the invariants of the
theorems above them with the shape of sections and runs (`ShapeInv`). The
hypotheses "without intake" and "with a
review" are settings of the code (`AIF_REQUIREMENTS_INTAKE_ENABLED`,
`skipReview`); the run `legacy` is an instance of all of them and `skip_review`
of those that ask for no review. A work-blocking configuration issue may block a
task in any status, a verified one included; hence the third hypothesis.

The four theorems with intake hold with and without it, and cover the run
`intake`. "One run of the task at a time" (`\A i, j \in Slots : i = j`) is what a
global cap of one gives; claims do not give it, because an answer frees the claim
of a reviewer that asked and then goes on to the gate. `ExclusiveRun` and
`ReworkScope` are false with intake (TLC), so they have no such theorem. The
hypotheses are needed, too: TLC refutes `HoldLeftToHuman` with two runs (that
reviewer writes a hold or a verdict beside a second run), `RetryWindow` with a
question through the API (it carries a deadline into `needs_input`), and
`DoneEarned` as section 3 says.

`EndpointRequests_proofs` proves, for any number of requests and processes and
every limit that satisfies `EndpointAssumption`:

| Theorem | States | Needs |
| --- | --- | --- |
| `TypeCorrect` | `Spec => []TypeOK` | `TypeInv`: a request that will retry is below the retry limit, or leaving the semaphore would count past it |
| `SemaphoreIsExclusive` | `Spec => []SemaphoreExclusive` | the five conjuncts are inductive only together: a handoff keeps the slot active because the head of the queue is a waiter of the same process that nobody else can be |
| `LeaseIsFenced` | `Spec => []LeaseFenced` | with `TypeOK` it is inductive: a takeover needs an expired row, which no trusted lease is, and heartbeat and release compare the token |
| `SlotImplemented` | `Spec => SlotSpec` | two trusted leases would be the same row, so at most one; a step never moves it from one request to another, because a takeover needs an expired row |

`CoordinatorPool_proofs` proves, for any finite set of tasks, any projects,
cycles, stages, profiles and caps (`PoolAssumption`):

| Theorem | States | Needs |
| --- | --- | --- |
| `PoolInvariant` | `PoolSpec => []PoolInv` | `TypeInv`, the cursor of the auto-queue (`QueueInv`), that a run belongs to a cycle inside a stage and its task is no candidate of that cycle any more (`RunInv`: a started run is a new one), and the counts (`CountInv`) |
| `AccountingHolds`, `PoolTypes` | `[]SemaphoreAccounting`, `[]PoolTypeOK` | `PoolInv`: a semaphore's value is the cardinality of the runs it admitted |
| `ClaimsAreBacked` | `[]ClaimsBacked` | every step keeps the claims or is one of three (`ClaimKinds`) |
| `SerialProjects` | `[]SerialProject` | `HeldInv`: a run holds its task's claim, alone; `CacheInv`: the cached concurrency of a serial project is never parallel, so a new run has seen no claim of the project |
| `QueueDepthHolds` | `PoolSpec => QueueDepth` | `DepthInv`: between counting and writing the pool grows only by what the API started |

`Loops_proofs`, for any findings and thresholds, and any order of the app
server's events:

| Theorem | States | Needs |
| --- | --- | --- |
| `BrakesAreHeld`, `BlockersKept` | `ReviewSpec => []BrakesHold`, `[]NoBlockerLost` | `BlockerInv`: while the task goes round, what is unresolved is among the findings the gate remembers, was left out by a legacy review, or was dropped at one of the two other named places; an implementer's run that is no rework comes only after the loss was recorded |
| `PromptOnce`, `SuccessIsEarned` | `AppSpec => []PromptSentOnce`, `[]SuccessEarned` | `StartInv`: while the start timer is armed the process has printed nothing, and a start timeout has killed it; `WaitInv`: the wait ends well only after the end of the turn |

`Stores_proofs`, for any profiles, capacities and errors, and any number of
reports:

| Theorem | States | Needs |
| --- | --- | --- |
| `SecondOverflow`, `FallbackOwned` | `RecoverySpec => []SecondOverflowStops`, `[]FallbackOfStage` | `OverflowInv`: a first overflow stopped the task or left its mark in the guards, and guards only grow |
| `ReadyReleasable` | `AuditSpec => []ReadyIsReleasable` | `SummaryInv`: the summary is never behind the rows; `PairInv`: a row whose latest attempt is its own was written together with it |

`TaskTree_proofs`, for any set of tasks and policies, `QuestionBatches_proofs`,
for any keys and bounds, and `ChatStreams_proofs`, for any number of messages
and sessions:

| Theorem | States | Needs |
| --- | --- | --- |
| `TreeIsSound` | `TreeSpec => []TreeSound` | inductive with the types; `Below` of a task is closed under children, so a move shifts exactly a subtree |
| `RollupsAreCurrent` | `TreeSpec => []RollupCurrent` | `TreeSound`; a refresh of a container leaves at most its parent behind, and three refreshes reach the top |
| `PlanningIsAnswered` | `QuestionsSpec => PlanningAnswered` | `AnalysedInv`: between the analyst's end and the coordinator's reading an open blocking question has the row in `needs_input`, or cancelled from there |
| `StopIsReached` | `ChatSpec => []StopReachesTurn` | `Calm`: until a disturbance every stream is alone under its key, has its state and is shown as running when on screen; a stream without session is the pending chat on screen; a session created for a new chat is nobody else's until the user has seen it |

The inductive invariants of the lifecycle and the chat, the largest ones, were
checked by TLC on small instances before they were proved. The definitions
without fairness that the theorems are about (`AppSpec`, `TreeSpec`,
`QuestionsSpec`, `ChatSpec`, …) are the ones the runs check, with fairness added
where a run checks liveness.

Every invariant and every action property of the passing runs is stated by a
theorem. Only model-checked are the liveness properties `DueBlockReleased`,
`ClaimReleased`, `EveryRequestEnds`, `ReviewLoopSettles`, `AppRunSettles`,
`StreamEnds`, `WorkPolled` and `WakeChannelReturns` (fairness is outside the
prover's reach), so `WakeChannel` has no proofs. Several runs of one task with
intake and QA required are neither checked nor proved.

## 5. Not modelled

* Warmup sessions, memory candidates, split proposals, the login broker: rows or
  processes that one caller writes and nothing waits for. A warmup row returned by
  `markReady` counts as ready even if it was cleared meanwhile.
* Roadmap generation and import: prompts, parsing and validation of cards; its
  result is the initial state of `AuditBatch`.
* Git branches and worktrees: calls of git whose results only choose a branch of
  the models.
* Within modelled components: `forceNewSession` of the chat's `sendMessage`, which
  starts a turn outside the session on screen (`ChatStreams` has the new-session
  button); a report whose readiness changes through its artifact alone while it is
  cancelled, and deletion with `allowAttachedChild` (`TaskTree`); late writes of a
  runner after its stage timeout (`TaskLifecycle`).
* Validators (`planQuality.ts`, `auditReportValidator.ts`, completion evidence):
  pure functions of long texts. Every model takes either verdict.
* The other runtime adapters, Qwen's tool loop among them: a run settles with a
  result or an error. The rest of the web UI renders state.

These, with prompts and rendering, are most of the repository's lines; the
models stand for the control that remains.

## 6. Plan

1. done — `TaskStateMachine`, `TaskLifecycle`, `EndpointRequests` with its
   refinement, and the theorems of section 4.
2. done — `CoordinatorPool`, `ReviewConvergence`, `RuntimeRecovery`,
   `AppServerRun`, `QuestionBatches`, `TaskTree`, `AuditBatch`, `ChatStreams`,
   `WakeChannel`.
3. done — every safety property of the runs proved for every value of the
   constants (section 4).
4. Two-statement writes of the store as two steps, to show what survives of
   `OperatorInputHold` and the cancel checks across processes; the late writes
   of an abandoned runner.
5. Warmup sessions.
