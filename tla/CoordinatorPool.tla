--------------------------- MODULE CoordinatorPool ---------------------------
(***************************************************************************)
(* The coordinator over several tasks (packages/agent/src/coordinator.ts,  *)
(* pollAndProcess): overlapping poll cycles, the stage and profile         *)
(* semaphores, the per-project caps and the auto-queue.  TaskLifecycle     *)
(* models what happens inside one task; here a task is its place in the    *)
(* pipeline, its claim and whether it is bound to a branch of the shared   *)
(* work tree.                                                              *)
(*                                                                         *)
(* The agent is one JavaScript thread: a cycle keeps it (thread) until it  *)
(* awaits the runs of a stage or ends.  The API is another process and may *)
(* write between any two statements.  The cron scheduler never overlaps    *)
(* itself, a wake starts a cycle beside the ones that are waiting: Cycles  *)
(* is the set of cycles that may be alive together.                        *)
(***************************************************************************)
EXTENDS Integers, FiniteSets, Functions

CONSTANTS
  Tasks, Position,     \* the tasks and their order (tasks.position)
  Projects,            \* the projects
  Settings,            \* the settings the instance is checked for
  Profiles,            \* keys of the runtime profile semaphore
  ProfileMax,          \* readRuntimeProfileConcurrency, by profile and stage
  Cycles,              \* poll cycles that may be alive together
  LastStage,           \* length of activePipeline()
  WINDOW,              \* candidates read per free slot (5 in the code)
  None

ASSUME PoolAssumption ==
  /\ IsFiniteSet(Tasks)
  /\ Position \in [Tasks -> Nat] /\ IsInjective(Position)
  /\ Settings \subseteq
       [globalMax : Nat \ {0},          \* COORDINATOR_MAX_CONCURRENT_TASKS
        parallel  : SUBSET Projects,    \* projects with parallelEnabled
        autoQueue : SUBSET Projects,    \* projects with autoQueueMode
        shared    : SUBSET Projects,    \* configured for one shared work tree
        projectOf : [Tasks -> Projects],
        scheduled : SUBSET Tasks,       \* tasks created with a scheduledAt
        pausable  : SUBSET Tasks,       \* tasks an operator pauses (a bound)
        losesClaims : BOOLEAN]          \* an answer may clear a live claim
  /\ ProfileMax \in [Profiles -> [1 .. LastStage -> Nat \ {0}]]
  /\ LastStage \in Nat \ {0}
  /\ WINDOW \in Nat \ {0}
  /\ None \notin Tasks \cup Projects \cup Profiles \cup Cycles

Backlog == 0
Stages  == 1 .. LastStage       \* a task of status s is a candidate of stage s
Done    == LastStage + 1

(* blocked_external, with blockedFromStatus                                *)
BlockedFrom(s) == -(s + 1)
Origin(b)      == -b - 1
IsBlocked(b)   == b < 0

VARIABLES
  setting,    \* of the environment and the projects; fixed for a behaviour
  status,     \* tasks.status
  claim,      \* tasks.lockedBy: free, held by this process or a dead one's
  paused,     \* tasks.paused
  scheduled,  \* tasks with a scheduledAt
  bound,      \* tasks with a branchName and without a worktreePath
  thread,     \* the cycle that runs synchronously, or None
  at,         \* where a cycle is
  stage,      \* the stage a cycle is in
  cands,      \* the candidates a cycle has not looked at yet
  cache,      \* projectConcurrencyCache of a cycle
  spawned,    \* projectSpawnCount of a cycle's stage
  failed,     \* failedInCycle
  runs,       \* processOneTask promises that have not settled
  zombies,    \* runners that outlived their stage timeout
  stageSem,   \* stageSemaphore
  profileSem, \* runtimeProfileSemaphore
  queue       \* the auto-queue pass of the cycle that has the thread

rows    == <<status, claim, paused, scheduled, bound>>
cycle   == <<at, stage, cands, cache, spawned, failed>>
sems    == <<stageSem, profileSem>>
poolVars == <<setting, rows, thread, cycle, runs, zombies, sems, queue>>

QueueOff == [phase |-> "off", todo |-> {}, project |-> None, active |-> 0,
             limit |-> 0, next |-> None, foreign |-> 0]

QueueRecords ==
  [phase : {"off", "count", "pick", "advance"}, todo : SUBSET Projects,
   project : Projects \cup {None}, active : Nat, limit : Nat,
   next : Tasks \cup {None}, foreign : Nat]

RunRecords ==
  [cycle : Cycles, task : Tasks, stage : Stages,
   profile : Profiles \cup {None}]

(* One type invariant for the rows, the cycles and the semaphores.         *)
PoolTypeOK ==
  /\ setting \in Settings
  /\ status \in [Tasks -> BlockedFrom(LastStage) .. Done]
  /\ claim \in [Tasks -> {"free", "held", "orphan"}]
  /\ paused \subseteq Tasks
  /\ scheduled \subseteq Tasks
  /\ bound \subseteq Tasks
  /\ thread \in Cycles \cup {None}
  /\ at \in [Cycles -> {"idle", "queue", "enter", "loop", "await"}]
  /\ stage \in [Cycles -> Stages]
  /\ cands \in [Cycles -> SUBSET Tasks]
  /\ cache \in [Cycles -> [Projects -> {"unknown", "serial", "parallel"}]]
  /\ spawned \in [Cycles -> [Projects -> Nat]]
  /\ failed \in [Cycles -> SUBSET Tasks]
  /\ runs \subseteq RunRecords
  /\ zombies \subseteq Tasks
  /\ stageSem \in [Stages -> 0 .. setting.globalMax]
  /\ profileSem \in [Profiles -> Nat]
  /\ queue \in QueueRecords

PoolInit ==
  /\ setting \in Settings
  /\ status = [t \in Tasks |-> Backlog]
  /\ claim = [t \in Tasks |-> "free"]
  /\ paused = {}
  /\ scheduled = setting.scheduled
  /\ bound = {}
  /\ thread = None
  /\ at = [c \in Cycles |-> "idle"]
  /\ stage = [c \in Cycles |-> 1]
  /\ cands = [c \in Cycles |-> {}]
  /\ cache = [c \in Cycles |-> [p \in Projects |-> "unknown"]]
  /\ spawned = [c \in Cycles |-> [p \in Projects |-> 0]]
  /\ failed = [c \in Cycles |-> {}]
  /\ runs = {}
  /\ zombies = {}
  /\ stageSem = [s \in Stages |-> 0]
  /\ profileSem = [k \in Profiles |-> 0]
  /\ queue = QueueOff

(* The planner of these projects works in the shared work tree.            *)
SharedTree == setting.shared \cup (Projects \ setting.parallel)

ProjectOf(t) == setting.projectOf[t]

TasksOf(p) == {t \in Tasks : ProjectOf(t) = p}

First(S) == CHOOSE t \in S : \A u \in S : Position[t] <= Position[u]

-----------------------------------------------------------------------------
(* Reads.                                                                  *)

(* hasActiveBranchBoundTasksForProject                                     *)
HasBranchBound(p) == \E t \in TasksOf(p) \cap bound : status[t] # Done

(* resolveProjectConcurrency without its cache: the configuration or the   *)
(* state of a task forces one run at a time.                               *)
ProjectIsParallel(p) ==
  p \in setting.parallel /\ p \notin setting.shared /\ ~HasBranchBound(p)

HasActiveLock(p) == \E t \in TasksOf(p) : claim[t] # "free"

(* countActivePipelineTasksForProject                                      *)
PoolCount(p) ==
  Cardinality({t \in TasksOf(p) :
                 status[t] \in Stages \/ IsBlocked(status[t])})

(* StageSemaphore: the sum of its counts, as the slots they stand for.     *)
TakenSlots == UNION {{s} \X (1 .. stageSem[s]) : s \in Stages}

TotalActive == Cardinality(TakenSlots)

MutSlotFreeOffByOne == TotalActive <= setting.globalMax

SlotFree == TotalActive < setting.globalMax

Release(sem, k) == [sem EXCEPT ![k] = IF @ > 0 THEN @ - 1 ELSE 0]

(* findCoordinatorTaskCandidates: by position, as many as the window.      *)
Candidates(s, n) ==
  LET ready == {t \in Tasks \ paused : status[t] = s /\ claim[t] = "free"}
      Ahead(t) == {u \in ready : Position[u] < Position[t]}
  IN  {t \in ready : Cardinality(Ahead(t)) < n}

-----------------------------------------------------------------------------
(* The synchronous prefix of a cycle.                                      *)

(* releaseStaleTaskClaims, releaseDueBlockedTasks,                         *)
(* recoverStaleInProgressTasks and processDueScheduledTasks.  Which claims *)
(* are stale, which deadlines have passed and which heartbeats are old is  *)
(* the clock's choice.                                                     *)
StartCycle(c) ==
  /\ thread = None /\ at[c] = "idle"
  /\ thread' = c
  /\ \E stale \in SUBSET {t \in Tasks : claim[t] = "orphan"} :
     \E due \in SUBSET {t \in Tasks \ paused : /\ IsBlocked(status[t])
                                              /\ Origin(status[t]) \in Stages} :
     \E dead \in SUBSET {t \in stale \ paused : status[t] \in Stages} :
     \E fired \in SUBSET {t \in scheduled \ paused : status[t] = Backlog} :
       /\ claim' = [t \in Tasks |-> IF t \in stale THEN "free" ELSE claim[t]]
       /\ status' = [t \in Tasks |-> CASE t \in due   -> Origin(status[t])
                                      [] t \in dead  -> BlockedFrom(status[t])
                                      [] t \in fired -> 1
                                      [] OTHER       -> status[t]]
       /\ scheduled' = scheduled \ fired
  /\ at' = [at EXCEPT ![c] = "queue"]
  /\ queue' = [QueueOff EXCEPT !.phase = "count", !.todo = setting.autoQueue]
  /\ UNCHANGED <<setting, paused, bound, stage, cands, cache, spawned,
                 failed, runs, zombies, sems>>

PoolLimit(p) == IF ProjectIsParallel(p) THEN setting.globalMax ELSE 1

(* processAutoQueueAdvance: one project after the other.  A pool that is   *)
(* full, or a work tree that is dirty, ends the project's turn.            *)
QueueCount(c) ==
  /\ thread = c /\ queue.phase = "count"
  /\ \E p \in queue.todo :
       \/ queue' = [queue EXCEPT !.todo = @ \ {p}]
       \/ /\ PoolCount(p) < PoolLimit(p)
          /\ queue' = [queue EXCEPT !.phase = "pick", !.project = p,
                          !.active = PoolCount(p), !.limit = PoolLimit(p),
                          !.foreign = 0]
  /\ UNCHANGED <<setting, rows, thread, cycle, runs, zombies, sems>>

QueueTurnEnds ==
  queue' = [QueueOff EXCEPT !.phase = "count",
                            !.todo = queue.todo \ {queue.project}]

(* nextBacklogTaskByPosition: a task whose schedule lies in the future is  *)
(* left out.                                                               *)
QueuePick(c) ==
  /\ thread = c /\ queue.phase = "pick"
  /\ \E future \in {{}, scheduled} :
       LET ready == {t \in TasksOf(queue.project) \ (paused \cup future) :
                       status[t] = Backlog}
       IN  IF queue.active < queue.limit /\ ready # {}
             THEN queue' = [queue EXCEPT !.phase = "advance",
                                         !.next = First(ready)]
             ELSE QueueTurnEnds
  /\ UNCHANGED <<setting, rows, thread, cycle, runs, zombies, sems>>

MutAdvanceForgetsCount(c) ==
  /\ thread = c /\ queue.phase = "advance"
  /\ LET t == queue.next
     IN  IF status[t] = Backlog /\ t \notin paused
           THEN /\ status' = [status EXCEPT ![t] = 1]
                /\ scheduled' = scheduled \ {t}
                /\ queue' = [queue EXCEPT !.phase = "pick"]
           ELSE /\ queue' = [queue EXCEPT !.phase = "pick", !.foreign = 0,
                                !.active = PoolCount(queue.project)]
                /\ UNCHANGED <<status, scheduled>>
  /\ UNCHANGED <<setting, claim, paused, bound, thread, cycle, runs, zombies,
                 sems>>

(* claimBacklogTaskForAdvance is a compare-and-set on backlog and not      *)
(* paused; when it fails the pool is counted again.                        *)
QueueAdvance(c) ==
  /\ thread = c /\ queue.phase = "advance"
  /\ LET t == queue.next
     IN  IF status[t] = Backlog /\ t \notin paused
           THEN /\ status' = [status EXCEPT ![t] = 1]
                /\ scheduled' = scheduled \ {t}
                /\ queue' = [queue EXCEPT !.phase = "pick", !.active = @ + 1]
           ELSE /\ queue' = [queue EXCEPT !.phase = "pick", !.foreign = 0,
                                !.active = PoolCount(queue.project)]
                /\ UNCHANGED <<status, scheduled>>
  /\ UNCHANGED <<setting, claim, paused, bound, thread, cycle, runs, zombies,
                 sems>>

(* blockBacklogTaskForSequentialBranchDependency writes whatever the row   *)
(* became since it was read, and ends the project's turn.                  *)
QueueBlocks(c) ==
  /\ thread = c /\ queue.phase = "advance"
  /\ queue.project \in SharedTree
  /\ status' = [status EXCEPT ![queue.next] = BlockedFrom(Backlog)]
  /\ paused' = paused \cup {queue.next}
  /\ QueueTurnEnds
  /\ UNCHANGED <<setting, claim, scheduled, bound, thread, cycle, runs,
                 zombies, sems>>

QueueDone(c) ==
  /\ thread = c /\ queue.phase = "count" /\ queue.todo = {}
  /\ queue' = QueueOff
  /\ at' = [at EXCEPT ![c] = "enter"]
  /\ UNCHANGED <<setting, rows, thread, stage, cands, cache, spawned, failed,
                 runs, zombies, sems>>

-----------------------------------------------------------------------------
(* The stages of a cycle.                                                  *)

(* The cycle goes on with the next stage, or ends, forgets what it cached  *)
(* and gives the thread up.                                                *)
LeaveStage(c) ==
  /\ spawned' = [spawned EXCEPT ![c] = [p \in Projects |-> 0]]
  /\ IF stage[c] = LastStage
       THEN /\ at' = [at EXCEPT ![c] = "idle"]
            /\ stage' = [stage EXCEPT ![c] = 1]
            /\ cache' = [cache EXCEPT ![c] = [p \in Projects |-> "unknown"]]
            /\ failed' = [failed EXCEPT ![c] = {}]
            /\ thread' = None
       ELSE /\ at' = [at EXCEPT ![c] = "enter"]
            /\ stage' = [stage EXCEPT ![c] = @ + 1]
            /\ thread' = c
            /\ UNCHANGED <<cache, failed>>

(* The head of the stage loop: the global cap, the free slots and the      *)
(* candidates are read once.                                               *)
EnterStage(c) ==
  LET available == setting.globalMax - TotalActive
      selected  == Candidates(stage[c], WINDOW * available) \ failed[c]
  IN  /\ thread = c /\ at[c] = "enter"
      /\ IF available <= 0 \/ selected = {}
           THEN LeaveStage(c) /\ UNCHANGED cands
           ELSE /\ cands' = [cands EXCEPT ![c] = selected]
                /\ at' = [at EXCEPT ![c] = "loop"]
                /\ UNCHANGED <<thread, stage, cache, spawned, failed>>
      /\ UNCHANGED <<setting, rows, runs, zombies, sems, queue>>

(* resolveProjectConcurrency, cached for the rest of the cycle.            *)
Concurrency(c, p) ==
  IF cache[c][p] # "unknown" THEN cache[c][p]
  ELSE IF ProjectIsParallel(p) THEN "parallel" ELSE "serial"

ProjectMax(mode) == IF mode = "parallel" THEN setting.globalMax ELSE 1

NextCandidate(c) == First(cands[c])

(* A candidate is looked at: its project's concurrency is now cached.      *)
TakeCandidate(c) ==
  /\ thread = c /\ at[c] = "loop" /\ cands[c] # {}
  /\ cands' = [cands EXCEPT ![c] = @ \ {NextCandidate(c)}]
  /\ LET p == ProjectOf(NextCandidate(c))
     IN  cache' = [cache EXCEPT ![c][p] = Concurrency(c, p)]

MutNoCrossCycleGuard(c) ==
  LET p == ProjectOf(NextCandidate(c))
  IN  spawned[c][p] < ProjectMax(Concurrency(c, p))

(* Not at capacity, and for a serial project no claim of another cycle.    *)
ProjectAdmits(c) ==
  LET p    == ProjectOf(NextCandidate(c))
      mode == Concurrency(c, p)
  IN  /\ spawned[c][p] < ProjectMax(mode)
      /\ mode = "serial" => ~HasActiveLock(p)

(* The candidate is passed over: the project is full, the profile is full, *)
(* or somebody holds the claim.                                            *)
SkipCandidate(c) ==
  /\ TakeCandidate(c)
  /\ \/ ~ProjectAdmits(c)
     \/ \E k \in Profiles : profileSem[k] >= ProfileMax[k][stage[c]]
     \/ claim[NextCandidate(c)] # "free"
  /\ UNCHANGED <<setting, rows, thread, at, stage, spawned, failed, runs,
                 zombies, sems, queue>>

(* The runtime budget, the missing runtime and the runtime limit block the *)
(* candidate before it is claimed (blockTaskForRuntimeGateIfEligible).  A  *)
(* budget block that finds the row changed falls through to the claim.     *)
GateCandidate(c) ==
  LET t == NextCandidate(c)
  IN  /\ TakeCandidate(c)
      /\ ProjectAdmits(c)
      /\ status' =
           IF status[t] = stage[c] /\ t \notin paused /\ claim[t] = "free"
             THEN [status EXCEPT ![t] = BlockedFrom(@)]
             ELSE status
      /\ UNCHANGED <<setting, claim, paused, scheduled, bound, thread, at,
                     stage, spawned, failed, runs, zombies, sems, queue>>

(* claimTask compares the claim only; the caps are looked at again before  *)
(* the run is spawned.                                                     *)
StartRun(c) ==
  LET t == NextCandidate(c)
      s == stage[c]
  IN  /\ TakeCandidate(c)
      /\ ProjectAdmits(c)
      /\ claim[t] = "free"
      /\ SlotFree
      /\ \E k \in Profiles \cup {None} :
           /\ k # None => profileSem[k] < ProfileMax[k][s]
           /\ runs' = runs \cup
                {[cycle |-> c, task |-> t, stage |-> s, profile |-> k]}
           /\ profileSem' = [j \in Profiles |->
                               profileSem[j] + (IF j = k THEN 1 ELSE 0)]
      /\ claim' = [claim EXCEPT ![t] = "held"]
      /\ stageSem' = [stageSem EXCEPT ![s] = @ + 1]
      /\ spawned' = [spawned EXCEPT ![c][ProjectOf(t)] = @ + 1]
      /\ UNCHANGED <<setting, status, paused, scheduled, bound, thread, at,
                     stage, failed, zombies, queue>>

MutFullKeepsClaim(c) ==
  LET t == NextCandidate(c)
      p == ProjectOf(t)
  IN  /\ thread = c /\ at[c] = "loop" /\ cands[c] # {}
      /\ ProjectAdmits(c)
      /\ claim[t] = "free"
      /\ ~SlotFree
      /\ claim' = [claim EXCEPT ![t] = "held"]
      /\ cands' = [cands EXCEPT ![c] = {}]
      /\ cache' = [cache EXCEPT ![c][p] = Concurrency(c, p)]
      /\ UNCHANGED <<setting, status, paused, scheduled, bound, thread, at,
                     stage, spawned, failed, runs, zombies, sems, queue>>

(* The semaphore is full after the claim: the claim is given back and the  *)
(* other candidates are dropped.                                           *)
SemaphoreFull(c) ==
  LET t == NextCandidate(c)
      p == ProjectOf(t)
  IN  /\ thread = c /\ at[c] = "loop" /\ cands[c] # {}
      /\ ProjectAdmits(c)
      /\ claim[t] = "free"
      /\ ~SlotFree
      /\ claim' = [claim EXCEPT ![t] = "free"]
      /\ cands' = [cands EXCEPT ![c] = {}]
      /\ cache' = [cache EXCEPT ![c][p] = Concurrency(c, p)]
      /\ UNCHANGED <<setting, status, paused, scheduled, bound, thread, at,
                     stage, spawned, failed, runs, zombies, sems, queue>>

RunsOf(c) == {r \in runs : r.cycle = c}

(* Promise.allSettled: with nothing spawned the loop goes straight on.     *)
EndOfLoop(c) ==
  /\ thread = c /\ at[c] = "loop" /\ cands[c] = {}
  /\ IF RunsOf(c) = {}
       THEN LeaveStage(c)
       ELSE /\ at' = [at EXCEPT ![c] = "await"]
            /\ thread' = None
            /\ UNCHANGED <<stage, cache, spawned, failed>>
  /\ UNCHANGED <<setting, rows, cands, runs, zombies, sems, queue>>

AllSettled(c) ==
  /\ thread = None /\ at[c] = "await" /\ RunsOf(c) = {}
  /\ LeaveStage(c)
  /\ UNCHANGED <<setting, rows, cands, runs, zombies, sems, queue>>

-----------------------------------------------------------------------------
(* The runs.                                                               *)

(* processOneTask settles: the row goes on, back to an earlier stage, is   *)
(* kept or blocked.  The finally gives back both semaphores and the claim, *)
(* whoever took it in this process.                                        *)
Settle(r, ok) ==
  /\ thread = None
  /\ runs' = runs \ {r}
  /\ \E next \in IF ok THEN 1 .. r.stage + 1
                 ELSE {status[r.task], BlockedFrom(r.stage)} :
       status' = [status EXCEPT ![r.task] = next]
  /\ failed' = IF ok THEN failed
               ELSE [failed EXCEPT ![r.cycle] = @ \cup {r.task}]
  /\ stageSem' = Release(stageSem, r.stage)
  /\ profileSem' = IF r.profile = None THEN profileSem
                   ELSE Release(profileSem, r.profile)
  /\ claim' = [claim EXCEPT ![r.task] = IF @ = "held" THEN "free" ELSE @]
  /\ UNCHANGED <<setting, paused, scheduled, bound, thread, at, stage, cands,
                 cache, spawned, queue>>

RunSettles(r) == (\E ok \in BOOLEAN : Settle(r, ok)) /\ UNCHANGED zombies

(* runStageWithTimeout gives up on the runner, which goes on.              *)
StageTimeout(r) == Settle(r, FALSE) /\ zombies' = zombies \cup {r.task}

MutZombieReleasesSlot(t) ==
  /\ thread = None /\ t \in zombies
  /\ stageSem' = Release(stageSem, 1)
  /\ zombies' = zombies \ {t}
  /\ \E next \in Stages \cup {status[t]} :
       status' = [status EXCEPT ![t] = next]
  /\ UNCHANGED <<setting, claim, paused, scheduled, bound, thread, cycle,
                 runs, profileSem, queue>>

(* The abandoned runner ends; its last write may put the row in a stage.   *)
ZombieEnds(t) ==
  /\ thread = None /\ t \in zombies
  /\ zombies' = zombies \ {t}
  /\ \E next \in Stages \cup {status[t]} :
       status' = [status EXCEPT ![t] = next]
  /\ UNCHANGED <<setting, claim, paused, scheduled, bound, thread, cycle,
                 runs, sems, queue>>

(* The planner of a project without task worktrees binds the task to a     *)
(* branch of the shared work tree.                                         *)
BindBranch(r) ==
  /\ thread = None /\ r.stage = 1
  /\ ProjectOf(r.task) \in SharedTree
  /\ r.task \notin bound
  /\ bound' = bound \cup {r.task}
  /\ UNCHANGED <<setting, status, claim, paused, scheduled, thread, cycle,
                 runs, zombies, sems, queue>>

-----------------------------------------------------------------------------
(* The API process.  A task that enters the pipeline while the auto-queue  *)
(* works on its project is one the pass did not count.                     *)

Enters(t, s) ==
  /\ status' = [status EXCEPT ![t] = s]
  /\ queue' = IF queue.project = ProjectOf(t)
                THEN [queue EXCEPT !.foreign = @ + 1] ELSE queue

(* start_ai                                                                *)
HumanStart(t) ==
  /\ status[t] = Backlog
  /\ Enters(t, 1)
  /\ UNCHANGED <<setting, claim, paused, scheduled, bound, thread, cycle,
                 runs, zombies, sems>>

(* handleAcceptExistingPlan: ensureFeatureBranch may create a branch in    *)
(* the shared work tree, also in a project whose planner uses worktrees.   *)
AcceptExistingPlan(t) ==
  /\ status[t] = Backlog
  /\ \E s \in Stages : s = (IF LastStage > 1 THEN 2 ELSE 1) /\ Enters(t, s)
  /\ bound' \in {bound, bound \cup {t}}
  /\ UNCHANGED <<setting, claim, paused, scheduled, thread, cycle, runs,
                 zombies, sems>>

(* retry_from_blocked                                                      *)
HumanRetry(t) ==
  /\ IsBlocked(status[t])
  /\ status' = [status EXCEPT ![t] = Origin(@)]
  /\ paused' = paused \ {t}
  /\ UNCHANGED <<setting, claim, scheduled, bound, thread, cycle, runs,
                 zombies, sems, queue>>

(* request_changes                                                         *)
RequestChanges(t) ==
  /\ status[t] = Done
  /\ Enters(t, LastStage)
  /\ UNCHANGED <<setting, claim, paused, scheduled, bound, thread, cycle,
                 runs, zombies, sems>>

(* The paused flag of PUT /tasks/:id.                                      *)
TogglePause(t) ==
  /\ t \in setting.pausable
  /\ paused' = (paused \cup {t}) \ (paused \cap {t})
  /\ UNCHANGED <<setting, status, claim, scheduled, bound, thread, cycle,
                 runs, zombies, sems, queue>>

(* answerTaskRequirementQuestionBatch clears the claim of a running task.  *)
LoseClaim(t) ==
  /\ setting.losesClaims /\ claim[t] = "held"
  /\ claim' = [claim EXCEPT ![t] = "free"]
  /\ UNCHANGED <<setting, status, paused, scheduled, bound, thread, cycle,
                 runs, zombies, sems, queue>>

-----------------------------------------------------------------------------
(* The process goes away: its claims become orphans, or are released by    *)
(* the signal handler (abortAllActiveStages).                              *)
ProcessEnds ==
  /\ runs # {} \/ thread # None
  /\ \E left \in {"free", "orphan"} :
       claim' = [t \in Tasks |-> IF claim[t] = "held" THEN left ELSE claim[t]]
  /\ thread' = None
  /\ at' = [c \in Cycles |-> "idle"]
  /\ stage' = [c \in Cycles |-> 1]
  /\ cands' = [c \in Cycles |-> {}]
  /\ cache' = [c \in Cycles |-> [p \in Projects |-> "unknown"]]
  /\ spawned' = [c \in Cycles |-> [p \in Projects |-> 0]]
  /\ failed' = [c \in Cycles |-> {}]
  /\ runs' = {}
  /\ zombies' = {}
  /\ stageSem' = [s \in Stages |-> 0]
  /\ profileSem' = [k \in Profiles |-> 0]
  /\ queue' = QueueOff
  /\ UNCHANGED <<setting, status, paused, scheduled, bound>>

CycleStep(c) ==
  \/ QueueCount(c) \/ QueuePick(c) \/ QueueAdvance(c) \/ QueueBlocks(c)
  \/ QueueDone(c) \/ EnterStage(c) \/ SkipCandidate(c) \/ GateCandidate(c)
  \/ StartRun(c) \/ SemaphoreFull(c) \/ EndOfLoop(c) \/ AllSettled(c)

ApiStep(t) ==
  \/ HumanStart(t) \/ AcceptExistingPlan(t) \/ HumanRetry(t)
  \/ RequestChanges(t) \/ TogglePause(t) \/ LoseClaim(t)

PoolNext ==
  \/ \E c \in Cycles : StartCycle(c) \/ CycleStep(c)
  \/ \E r \in runs : RunSettles(r) \/ StageTimeout(r) \/ BindBranch(r)
  \/ \E t \in Tasks : ZombieEnds(t) \/ ApiStep(t)
  \/ ProcessEnds

PoolSpec == PoolInit /\ [][PoolNext]_poolVars

-----------------------------------------------------------------------------
(* Both semaphores count the runs that are alive, whatever cycle started   *)
(* them and however they ended, so the coordinator's caps are caps on      *)
(* runs: of one profile (the largest of its stages' caps, as the stages    *)
(* share one count), and of the process.                                   *)
SemaphoreAccounting ==
  /\ \A s \in Stages :
       stageSem[s] = Cardinality({r \in runs : r.stage = s})
  /\ \A k \in Profiles :
       /\ profileSem[k] = Cardinality({r \in runs : r.profile = k})
       /\ \E s \in Stages : profileSem[k] <= ProfileMax[k][s]
  /\ Cardinality(runs) <= setting.globalMax

(* A claim of this process is backed by a run: no early exit of the        *)
(* candidate loop, timeout or shutdown leaves one behind.                  *)
ClaimsBacked ==
  \A t \in Tasks : claim[t] = "held" => \E r \in runs : r.task = t

(* A project that is not parallel has one run at a time, also when cron    *)
(* and wake cycles overlap.                                                *)
SerialProject ==
  ~setting.losesClaims =>
    \A p \in Projects \ setting.parallel :
      Cardinality({r \in runs : ProjectOf(r.task) = p}) <= 1

(* The auto-queue fills the pool to its depth and no further: what it puts *)
(* on top is at most what the API started since the pass counted.          *)
QueueDepth ==
  [][\A c \in Cycles : QueueAdvance(c) /\ status' # status =>
       PoolCount(queue.project)' <= queue.limit + queue.foreign]_poolVars
=============================================================================
