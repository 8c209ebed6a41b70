----------------------- MODULE CoordinatorPool_proofs ------------------------
(***************************************************************************)
(* Proofs about CoordinatorPool, for any number of tasks, projects, poll   *)
(* cycles, stages and profiles, and any caps.                              *)
(***************************************************************************)
EXTENDS CoordinatorPool, FiniteSetTheorems, TLAPS

(* A set of naturals has a least element.                                  *)
LEMMA NatLeast ==
  ASSUME NEW S \in SUBSET Nat, S # {}
  PROVE  \E n \in S : \A m \in S : n <= m
<1>1. IsWellFoundedOn(OpToRel(<, Nat), Nat)
  BY NatLessThanWellFounded, Zenon
<1>2. PICK n \in S : \A m \in S : ~(<<m, n>> \in OpToRel(<, Nat))
  BY <1>1, WFMin, Zenon
<1>3. ASSUME NEW m \in S PROVE n <= m
  <2>1. ~ (m < n)
    BY <1>2 DEF OpToRel
  <2> QED BY <2>1
<1> QED BY <1>3

(* First picks an element of a set of tasks that is not empty.             *)
LEMMA FirstIn ==
  ASSUME NEW S \in SUBSET Tasks, S # {}
  PROVE  First(S) \in S
<1>1. Position \in [Tasks -> Nat]
  BY PoolAssumption
<1> DEFINE P == {Position[t] : t \in S}
<1>2. P \in SUBSET Nat /\ P # {}
  BY <1>1
<1>3. PICK n \in P : \A m \in P : n <= m
  BY <1>2, NatLeast
<1>4. PICK t \in S : n = Position[t]
  BY <1>3
<1>5. \E u \in S : \A v \in S : Position[u] <= Position[v]
  BY <1>3, <1>4
<1> QED BY <1>5 DEF First

-----------------------------------------------------------------------------
(* Types.  The cap on a stage's count follows from the accounting; the     *)
(* queue's project and task are there while they are used, and the cycle   *)
(* that has the thread is the one that works on the queue.                 *)

TypeInv ==
  /\ setting \in Settings
  /\ status \in [Tasks -> BlockedFrom(LastStage) .. Done]
  /\ claim \in [Tasks -> {"free", "held", "orphan"}]
  /\ paused \subseteq Tasks
  /\ scheduled \subseteq Tasks
  /\ bound \subseteq Tasks
  /\ thread \in Cycles \cup {None}
  /\ at \in [Cycles -> {"idle", "queue", "enter", "loop", "await"}]
  /\ stage \in [Cycles -> Stages]
  /\ cands \in [Cycles -> SUBSET Tasks]
  /\ cache \in [Cycles -> [Projects -> {"unknown", "serial", "parallel"}]]
  /\ spawned \in [Cycles -> [Projects -> Nat]]
  /\ failed \in [Cycles -> SUBSET Tasks]
  /\ runs \subseteq RunRecords
  /\ zombies \subseteq Tasks
  /\ stageSem \in [Stages -> Nat]
  /\ profileSem \in [Profiles -> Nat]
  /\ queue \in QueueRecords

QueueInv ==
  /\ queue.phase \in {"pick", "advance"} => queue.project \in Projects
  /\ queue.phase = "advance" => queue.next \in Tasks
  /\ queue.phase # "off" => thread \in Cycles /\ at[thread] = "queue"

(* The types of a setting.                                                 *)
LEMMA SettingTyped ==
  ASSUME setting \in Settings
  PROVE  /\ setting.globalMax \in Nat \ {0}
         /\ setting.parallel \subseteq Projects
         /\ setting.autoQueue \subseteq Projects
         /\ setting.shared \subseteq Projects
         /\ setting.projectOf \in [Tasks -> Projects]
         /\ setting.scheduled \subseteq Tasks
         /\ setting.losesClaims \in BOOLEAN
BY PoolAssumption

LEMMA ProjectTyped ==
  ASSUME setting \in Settings, NEW t \in Tasks
  PROVE  ProjectOf(t) \in Projects
BY SettingTyped DEF ProjectOf

(* The candidate that a cycle looks at.                                    *)
LEMMA CandidateTyped ==
  ASSUME TypeInv, NEW c \in Cycles, cands[c] # {}
  PROVE  /\ NextCandidate(c) \in cands[c]
         /\ NextCandidate(c) \in Tasks
         /\ ProjectOf(NextCandidate(c)) \in Projects
<1>1. cands[c] \in SUBSET Tasks
  BY DEF TypeInv
<1>2. NextCandidate(c) \in cands[c]
  BY <1>1, FirstIn DEF NextCandidate
<1> QED BY <1>1, <1>2, ProjectTyped DEF TypeInv

LEMMA PoolCountTyped ==
  ASSUME NEW p
  PROVE  PoolCount(p) \in Nat
<1> DEFINE S == {t \in TasksOf(p) : status[t] \in Stages \/ IsBlocked(status[t])}
<1>1. S \subseteq Tasks
  BY DEF TasksOf
<1>2. IsFiniteSet(S)
  BY <1>1, FS_Subset, PoolAssumption
<1> QED BY <1>2, FS_CardinalityType DEF PoolCount

LEMMA TypeInit == PoolInit => TypeInv /\ QueueInv
<1> SUFFICES ASSUME PoolInit PROVE TypeInv /\ QueueInv
  OBVIOUS
<1>1. setting.scheduled \subseteq Tasks
  BY SettingTyped DEF PoolInit
<1>2. queue \in QueueRecords /\ queue.phase = "off"
  BY DEF PoolInit, QueueOff, QueueRecords
<1> QED BY <1>1, <1>2, PoolAssumption
        DEF PoolInit, TypeInv, QueueInv, Stages, Backlog, Done, BlockedFrom

(* Statuses and what a step may make of one.                               *)
StatusRange == BlockedFrom(LastStage) .. Done

LEMMA StatusFacts ==
  /\ Backlog \in StatusRange /\ 1 \in StatusRange /\ BlockedFrom(Backlog) \in StatusRange
  /\ Stages \subseteq StatusRange
  /\ \A s \in Stages : BlockedFrom(s) \in StatusRange /\ s + 1 \in StatusRange
  /\ 1 \in Stages /\ LastStage \in Stages
BY PoolAssumption DEF StatusRange, BlockedFrom, Done, Stages, Backlog

LEMMA StatusWritten ==
  ASSUME TypeInv, NEW t \in Tasks, NEW s \in StatusRange,
         status' = [status EXCEPT ![t] = s]
  PROVE  status' \in [Tasks -> BlockedFrom(LastStage) .. Done]
BY DEF TypeInv, StatusRange

LEMMA LeaveStageTyped ==
  ASSUME TypeInv, NEW c \in Cycles, LeaveStage(c)
  PROVE  /\ thread' \in Cycles \cup {None}
         /\ at' \in [Cycles -> {"idle", "queue", "enter", "loop", "await"}]
         /\ stage' \in [Cycles -> Stages]
         /\ cache' \in [Cycles -> [Projects -> {"unknown", "serial", "parallel"}]]
         /\ spawned' \in [Cycles -> [Projects -> Nat]]
         /\ failed' \in [Cycles -> SUBSET Tasks]
<1>1. stage[c] \in Stages /\ LastStage \in Nat \ {0}
  BY PoolAssumption DEF TypeInv
<1>2. spawned' \in [Cycles -> [Projects -> Nat]]
  BY DEF LeaveStage, TypeInv
<1>3. CASE stage[c] = LastStage
  <2>1. 1 \in Stages
    BY <1>1 DEF Stages
  <2>2. cache' \in [Cycles -> [Projects -> {"unknown", "serial", "parallel"}]]
    BY <1>3 DEF LeaveStage, TypeInv
  <2> QED BY <1>2, <1>3, <2>1, <2>2 DEF LeaveStage, TypeInv
<1>4. CASE stage[c] # LastStage
  <2>1. stage[c] + 1 \in Stages
    BY <1>1, <1>4 DEF Stages
  <2>2. stage' = [stage EXCEPT ![c] = stage[c] + 1] /\ thread' = c
        /\ at' = [at EXCEPT ![c] = "enter"] /\ UNCHANGED <<cache, failed>>
    BY <1>4 DEF LeaveStage
  <2> QED BY <1>2, <2>1, <2>2 DEF TypeInv
<1> QED BY <1>3, <1>4

LEMMA TakeCandidateTyped ==
  ASSUME TypeInv, NEW c \in Cycles, TakeCandidate(c)
  PROVE  /\ cands' \in [Cycles -> SUBSET Tasks]
         /\ cache' \in [Cycles -> [Projects -> {"unknown", "serial", "parallel"}]]
<1>1. ProjectOf(NextCandidate(c)) \in Projects
  BY CandidateTyped DEF TakeCandidate
<1>2. Concurrency(c, ProjectOf(NextCandidate(c))) \in {"unknown", "serial", "parallel"}
  BY <1>1 DEF Concurrency, TypeInv
<1> QED BY <1>1, <1>2 DEF TakeCandidate, TypeInv

(* The synchronous prefix of a cycle.                                      *)
LEMMA QueueTyped ==
  ASSUME TypeInv, QueueInv, NEW c \in Cycles,
         \/ StartCycle(c) \/ QueueCount(c) \/ QueuePick(c)
         \/ QueueAdvance(c) \/ QueueBlocks(c) \/ QueueDone(c)
  PROVE  TypeInv' /\ QueueInv'
<1> USE DEF rows, cycle, sems
<1>1. CASE StartCycle(c)
  <2>1. PICK stale \in SUBSET {t \in Tasks : claim[t] = "orphan"} :
        \E due \in SUBSET {t \in Tasks \ paused : /\ IsBlocked(status[t])
                                                /\ Origin(status[t]) \in Stages} :
        \E dead \in SUBSET {t \in stale \ paused : status[t] \in Stages} :
        \E fired \in SUBSET {t \in scheduled \ paused : status[t] = Backlog} :
          /\ claim' = [t \in Tasks |-> IF t \in stale THEN "free" ELSE claim[t]]
          /\ status' = [t \in Tasks |-> CASE t \in due   -> Origin(status[t])
                                         [] t \in dead  -> BlockedFrom(status[t])
                                         [] t \in fired -> 1
                                         [] OTHER       -> status[t]]
          /\ scheduled' = scheduled \ fired
    BY <1>1 DEF StartCycle
  <2>2. claim' \in [Tasks -> {"free", "held", "orphan"}]
    BY <2>1 DEF TypeInv
  <2>3. ASSUME NEW t \in Tasks
        PROVE  status'[t] \in StatusRange
    BY <2>1, StatusFacts DEF TypeInv, StatusRange
  <2>4. status' \in [Tasks -> BlockedFrom(LastStage) .. Done]
    BY <2>1, <2>3 DEF StatusRange
  <2>5. queue' \in QueueRecords /\ queue'.phase = "count"
    BY <1>1, SettingTyped DEF StartCycle, TypeInv, QueueOff, QueueRecords
  <2>6. thread' = c /\ at' = [at EXCEPT ![c] = "queue"] /\ scheduled' \subseteq Tasks
    BY <1>1, <2>1 DEF StartCycle, TypeInv
  <2>7. UNCHANGED <<setting, paused, bound, stage, cands, cache, spawned,
                    failed, runs, zombies, sems>>
    BY <1>1 DEF StartCycle
  <2> QED BY <2>2, <2>4, <2>5, <2>6, <2>7 DEF TypeInv, QueueInv
<1>2. CASE QueueCount(c)
  <2>1. PICK p \in queue.todo :
          \/ queue' = [queue EXCEPT !.todo = @ \ {p}]
          \/ /\ PoolCount(p) < PoolLimit(p)
             /\ queue' = [queue EXCEPT !.phase = "pick", !.project = p,
                             !.active = PoolCount(p), !.limit = PoolLimit(p),
                             !.foreign = 0]
    BY <1>2 DEF QueueCount
  <2>2. p \in Projects /\ PoolCount(p) \in Nat /\ PoolLimit(p) \in Nat
    BY <2>1, SettingTyped, PoolCountTyped DEF TypeInv, QueueRecords, PoolLimit
  <2>3. queue' \in QueueRecords
    <3>1. CASE queue' = [queue EXCEPT !.todo = @ \ {p}]
      BY <3>1 DEF TypeInv, QueueRecords
    <3>2. CASE queue' = [queue EXCEPT !.phase = "pick", !.project = p,
                             !.active = PoolCount(p), !.limit = PoolLimit(p),
                             !.foreign = 0]
      BY <2>2, <3>2 DEF TypeInv, QueueRecords
    <3> QED BY <2>1, <3>1, <3>2
  <2>4. queue'.phase \in {"count", "pick"}
        /\ (queue'.phase = "pick" => queue'.project \in Projects)
    BY <1>2, <2>1, <2>2 DEF QueueCount, TypeInv, QueueRecords
  <2>5. UNCHANGED <<setting, rows, thread, cycle, runs, zombies, sems>>
    BY <1>2 DEF QueueCount
  <2> QED BY <1>2, <2>3, <2>4, <2>5 DEF TypeInv, QueueInv, QueueCount
<1>3. CASE QueuePick(c)
  <2>1. PICK future \in {{}, scheduled} :
          LET ready == {t \in TasksOf(queue.project) \ (paused \cup future) :
                          status[t] = Backlog}
          IN  IF queue.active < queue.limit /\ ready # {}
                THEN queue' = [queue EXCEPT !.phase = "advance",
                                            !.next = First(ready)]
                ELSE QueueTurnEnds
    BY <1>3 DEF QueuePick
  <2> DEFINE ready == {t \in TasksOf(queue.project) \ (paused \cup future) :
                          status[t] = Backlog}
  <2>2. ready \in SUBSET Tasks
    BY DEF TasksOf
  <2>3. UNCHANGED <<setting, rows, thread, cycle, runs, zombies, sems>>
    BY <1>3 DEF QueuePick
  <2>4. CASE ready # {} /\ queue' = [queue EXCEPT !.phase = "advance",
                                                  !.next = First(ready)]
    <3>1. First(ready) \in Tasks
      BY <2>2, <2>4, FirstIn
    <3>2. queue' \in QueueRecords /\ queue'.next \in Tasks
          /\ queue'.project = queue.project /\ queue'.phase = "advance"
      BY <2>4, <3>1 DEF TypeInv, QueueRecords
    <3> QED BY <1>3, <2>3, <3>2 DEF TypeInv, QueueInv, QueuePick
  <2>5. CASE QueueTurnEnds
    <3>1. queue' \in QueueRecords /\ queue'.phase = "count"
      BY <2>5 DEF QueueTurnEnds, TypeInv, QueueRecords, QueueOff
    <3> QED BY <1>3, <2>3, <3>1 DEF TypeInv, QueueInv, QueuePick
  <2> QED BY <2>1, <2>4, <2>5
<1>4. CASE QueueAdvance(c)
  <2>1. queue.next \in Tasks
    BY <1>4 DEF QueueAdvance, QueueInv
  <2>2. /\ UNCHANGED <<setting, claim, paused, bound, thread, cycle, runs,
                       zombies, sems>>
        /\ thread = c /\ queue.phase = "advance"
    BY <1>4 DEF QueueAdvance
  <2>3. CASE /\ status' = [status EXCEPT ![queue.next] = 1]
             /\ scheduled' = scheduled \ {queue.next}
             /\ queue' = [queue EXCEPT !.phase = "pick", !.active = @ + 1]
    <3>0. queue.active + 1 \in Nat
      BY DEF TypeInv, QueueRecords
    <3>1. queue' \in QueueRecords /\ queue'.phase = "pick"
          /\ queue'.project = queue.project
      BY <2>3, <3>0 DEF TypeInv, QueueRecords
    <3>2. status' \in [Tasks -> BlockedFrom(LastStage) .. Done]
      BY <2>1, <2>3, StatusFacts, StatusWritten
    <3> QED BY <2>2, <2>3, <3>1, <3>2 DEF TypeInv, QueueInv
  <2>4. CASE /\ queue' = [queue EXCEPT !.phase = "pick", !.foreign = 0,
                             !.active = PoolCount(queue.project)]
             /\ UNCHANGED <<status, scheduled>>
    <3>1. queue' \in QueueRecords /\ queue'.phase = "pick"
          /\ queue'.project = queue.project
      BY <2>4, PoolCountTyped DEF TypeInv, QueueRecords
    <3> QED BY <2>2, <2>4, <3>1 DEF TypeInv, QueueInv
  <2> QED BY <1>4, <2>3, <2>4 DEF QueueAdvance
<1>5. CASE QueueBlocks(c)
  <2>1. queue.next \in Tasks
    BY <1>5 DEF QueueBlocks, QueueInv
  <2>2. queue' \in QueueRecords /\ queue'.phase = "count"
    BY <1>5 DEF QueueBlocks, QueueTurnEnds, TypeInv, QueueRecords, QueueOff
  <2>3. status' \in [Tasks -> BlockedFrom(LastStage) .. Done]
    BY <1>5, <2>1, StatusFacts, StatusWritten DEF QueueBlocks
  <2> QED BY <1>5, <2>1, <2>2, <2>3 DEF QueueBlocks, TypeInv, QueueInv
<1>6. CASE QueueDone(c)
  <2>1. queue' \in QueueRecords /\ queue'.phase = "off"
    BY <1>6 DEF QueueDone, QueueRecords, QueueOff
  <2> QED BY <1>6, <2>1 DEF QueueDone, TypeInv, QueueInv
<1> QED BY <1>1, <1>2, <1>3, <1>4, <1>5, <1>6

(* The stages of a cycle.                                                  *)
LEMMA StagesTyped ==
  ASSUME TypeInv, QueueInv, NEW c \in Cycles,
         \/ EnterStage(c) \/ SkipCandidate(c) \/ GateCandidate(c) \/ StartRun(c)
         \/ SemaphoreFull(c) \/ EndOfLoop(c) \/ AllSettled(c)
  PROVE  TypeInv' /\ QueueInv'
<1> USE DEF rows, cycle, sems
<1>0. queue.phase = "off"
  <2>1. (thread = c /\ at[c] \in {"enter", "loop"}) \/ thread = None
    BY DEF EnterStage, SkipCandidate, GateCandidate, StartRun, SemaphoreFull,
           EndOfLoop, AllSettled, TakeCandidate
  <2> QED BY <2>1, PoolAssumption DEF QueueInv
<1>1. CASE EnterStage(c)
  <2>1. UNCHANGED <<setting, rows, runs, zombies, sems, queue>>
    BY <1>1 DEF EnterStage
  <2>2. CASE LeaveStage(c) /\ UNCHANGED cands
    BY <1>0, <2>1, <2>2, LeaveStageTyped DEF TypeInv, QueueInv
  <2> DEFINE selected == Candidates(stage[c], WINDOW * (setting.globalMax - TotalActive)) \ failed[c]
  <2>3. CASE /\ cands' = [cands EXCEPT ![c] = selected]
             /\ at' = [at EXCEPT ![c] = "loop"]
             /\ UNCHANGED <<thread, stage, cache, spawned, failed>>
    <3>1. selected \subseteq Tasks
      BY DEF Candidates
    <3> HIDE DEF selected
    <3> QED BY <1>0, <2>1, <2>3, <3>1 DEF TypeInv, QueueInv
  <2> QED BY <1>1, <2>2, <2>3 DEF EnterStage
<1>2. CASE SkipCandidate(c)
  BY <1>0, <1>2, TakeCandidateTyped DEF SkipCandidate, TypeInv, QueueInv
<1>3. CASE GateCandidate(c)
  <2>1. NextCandidate(c) \in Tasks
    BY <1>3, CandidateTyped DEF GateCandidate, TakeCandidate
  <2>2. status' \in [Tasks -> BlockedFrom(LastStage) .. Done]
    <3>1. stage[c] \in Stages
      BY DEF TypeInv
    <3> QED BY <1>3, <2>1, <3>1, PoolAssumption
            DEF GateCandidate, TypeInv, BlockedFrom, Done, Stages
  <2> QED BY <1>0, <1>3, <2>2, TakeCandidateTyped
          DEF GateCandidate, TypeInv, QueueInv
<1>4. CASE StartRun(c)
  <2> DEFINE t == NextCandidate(c)
  <2>1. t \in Tasks /\ ProjectOf(t) \in Projects
    BY <1>4, CandidateTyped DEF StartRun, TakeCandidate
  <2>2. PICK k \in Profiles \cup {None} :
          /\ runs' = runs \cup
               {[cycle |-> c, task |-> t, stage |-> stage[c], profile |-> k]}
          /\ profileSem' = [j \in Profiles |->
                              profileSem[j] + (IF j = k THEN 1 ELSE 0)]
    BY <1>4 DEF StartRun
  <2>3. runs' \subseteq RunRecords
    BY <2>1, <2>2 DEF TypeInv, RunRecords
  <2>4. profileSem' \in [Profiles -> Nat]
    BY <2>2 DEF TypeInv
  <2>9. stage[c] \in Stages /\ stageSem[stage[c]] + 1 \in Nat
    BY DEF TypeInv
  <2>5. stageSem' \in [Stages -> Nat] /\ claim' \in [Tasks -> {"free", "held", "orphan"}]
    BY <1>4, <2>9 DEF StartRun, TypeInv
  <2>6. spawned' \in [Cycles -> [Projects -> Nat]]
    BY <1>4, <2>1 DEF StartRun, TypeInv
  <2>7. UNCHANGED <<setting, status, paused, scheduled, bound, thread, at,
                    stage, failed, zombies, queue>>
    BY <1>4 DEF StartRun
  <2>8. TakeCandidate(c)
    BY <1>4 DEF StartRun
  <2> QED BY <1>0, <2>3, <2>4, <2>5, <2>6, <2>7, <2>8, TakeCandidateTyped
          DEF TypeInv, QueueInv
<1>5. CASE SemaphoreFull(c)
  <2> DEFINE p == ProjectOf(NextCandidate(c))
  <2>1. p \in Projects
    BY <1>5, CandidateTyped DEF SemaphoreFull
  <2>2. Concurrency(c, p) \in {"unknown", "serial", "parallel"}
    BY <2>1 DEF Concurrency, TypeInv
  <2>3. cache' \in [Cycles -> [Projects -> {"unknown", "serial", "parallel"}]]
    BY <1>5, <2>1, <2>2 DEF SemaphoreFull, TypeInv
  <2> QED BY <1>0, <1>5, <2>3 DEF SemaphoreFull, TypeInv, QueueInv
<1>6. CASE EndOfLoop(c)
  <2>1. UNCHANGED <<setting, rows, cands, runs, zombies, sems, queue>>
    BY <1>6 DEF EndOfLoop
  <2>2. CASE LeaveStage(c)
    BY <1>0, <2>1, <2>2, LeaveStageTyped DEF TypeInv, QueueInv
  <2>3. CASE ~LeaveStage(c)
    BY <1>0, <1>6, <2>3 DEF EndOfLoop, TypeInv, QueueInv
  <2> QED BY <2>2, <2>3
<1>7. CASE AllSettled(c)
  BY <1>0, <1>7, LeaveStageTyped DEF AllSettled, TypeInv, QueueInv
<1> QED BY <1>1, <1>2, <1>3, <1>4, <1>5, <1>6, <1>7

(* The runs, the API and the end of the process.                           *)
LEMMA ReleaseTyped ==
  ASSUME NEW K, NEW sem \in [K -> Nat], NEW k \in K
  PROVE  Release(sem, k) \in [K -> Nat]
BY DEF Release

LEMMA RunTyped ==
  ASSUME TypeInv, NEW r \in runs
  PROVE  /\ r.cycle \in Cycles /\ r.task \in Tasks /\ r.stage \in Stages
         /\ r.profile \in Profiles \cup {None}
BY DEF TypeInv, RunRecords

LEMMA SettleTyped ==
  ASSUME TypeInv, QueueInv, NEW r \in runs, NEW ok \in BOOLEAN, Settle(r, ok),
         zombies' \subseteq Tasks
  PROVE  TypeInv' /\ QueueInv'
<1> USE DEF sems
<1>1. /\ r.cycle \in Cycles /\ r.task \in Tasks /\ r.stage \in Stages
      /\ r.profile \in Profiles \cup {None}
  BY RunTyped
<1>2. status' \in [Tasks -> BlockedFrom(LastStage) .. Done]
  <2>1. PICK next \in IF ok THEN 1 .. r.stage + 1
                      ELSE {status[r.task], BlockedFrom(r.stage)} :
          status' = [status EXCEPT ![r.task] = next]
    BY DEF Settle
  <2>2. next \in StatusRange
    <3>1. CASE ok
      BY <1>1, <2>1, <3>1, PoolAssumption
         DEF StatusRange, Stages, Done, BlockedFrom
    <3>2. CASE ~ok
      <4>1. status[r.task] \in StatusRange
        BY <1>1 DEF TypeInv, StatusRange
      <4> QED BY <1>1, <2>1, <3>2, <4>1, StatusFacts
    <3> QED BY <3>1, <3>2
  <2> QED BY <1>1, <2>1, <2>2, StatusWritten
<1>3. failed' \in [Cycles -> SUBSET Tasks]
  BY <1>1 DEF Settle, TypeInv
<1>4. stageSem' \in [Stages -> Nat]
  BY <1>1, ReleaseTyped DEF Settle, TypeInv
<1>5. profileSem' \in [Profiles -> Nat]
  BY <1>1, ReleaseTyped DEF Settle, TypeInv
<1>6. claim' \in [Tasks -> {"free", "held", "orphan"}]
  BY <1>1 DEF Settle, TypeInv
<1>7. runs' \subseteq RunRecords
  BY DEF Settle, TypeInv
<1>8. UNCHANGED <<setting, paused, scheduled, bound, thread, at, stage, cands,
                  cache, spawned, queue>>
  BY DEF Settle
<1> QED BY <1>2, <1>3, <1>4, <1>5, <1>6, <1>7, <1>8 DEF TypeInv, QueueInv

LEMMA RunsTyped ==
  ASSUME TypeInv, QueueInv, NEW r \in runs,
         RunSettles(r) \/ StageTimeout(r) \/ BindBranch(r)
  PROVE  TypeInv' /\ QueueInv'
<1> USE DEF sems, cycle
<1>0. r.task \in Tasks
  BY RunTyped
<1>1. CASE RunSettles(r)
  BY <1>1, SettleTyped DEF RunSettles, TypeInv
<1>2. CASE StageTimeout(r)
  BY <1>0, <1>2, SettleTyped DEF StageTimeout, TypeInv
<1>3. CASE BindBranch(r)
  BY <1>0, <1>3 DEF BindBranch, TypeInv, QueueInv
<1> QED BY <1>1, <1>2, <1>3

LEMMA EntersTyped ==
  ASSUME TypeInv, QueueInv, NEW t \in Tasks, NEW s \in Stages, Enters(t, s)
  PROVE  /\ status' \in [Tasks -> BlockedFrom(LastStage) .. Done]
         /\ queue' \in QueueRecords
         /\ queue'.phase = queue.phase /\ queue'.project = queue.project
         /\ queue'.next = queue.next
<1>1. status' \in [Tasks -> BlockedFrom(LastStage) .. Done]
  BY StatusFacts, StatusWritten DEF Enters
<1>2. queue.foreign + 1 \in Nat
  BY DEF TypeInv, QueueRecords
<1> QED BY <1>1, <1>2 DEF Enters, TypeInv, QueueRecords

LEMMA OthersTyped ==
  ASSUME TypeInv, QueueInv, NEW t \in Tasks, ZombieEnds(t) \/ ApiStep(t)
  PROVE  TypeInv' /\ QueueInv'
<1> USE DEF sems, cycle
<1>1. CASE ZombieEnds(t)
  <2>1. PICK next \in Stages \cup {status[t]} : status' = [status EXCEPT ![t] = next]
    BY <1>1 DEF ZombieEnds
  <2>2. next \in StatusRange
    BY <2>1, StatusFacts DEF TypeInv, StatusRange
  <2>3. status' \in [Tasks -> BlockedFrom(LastStage) .. Done]
    BY <2>1, <2>2, StatusWritten
  <2> QED BY <1>1, <2>3 DEF ZombieEnds, TypeInv, QueueInv
<1>2. CASE HumanStart(t)
  BY <1>2, EntersTyped, StatusFacts DEF HumanStart, TypeInv, QueueInv
<1>3. CASE AcceptExistingPlan(t)
  BY <1>3, EntersTyped DEF AcceptExistingPlan, TypeInv, QueueInv
<1>4. CASE HumanRetry(t)
  <2>1. status[t] \in StatusRange /\ IsBlocked(status[t])
    BY <1>4 DEF HumanRetry, TypeInv, StatusRange
  <2>2. Origin(status[t]) \in StatusRange
    BY <2>1, PoolAssumption DEF StatusRange, Origin, IsBlocked, BlockedFrom, Done
  <2>3. status' \in [Tasks -> BlockedFrom(LastStage) .. Done]
    BY <1>4, <2>2, StatusWritten DEF HumanRetry
  <2> QED BY <1>4, <2>3 DEF HumanRetry, TypeInv, QueueInv
<1>5. CASE RequestChanges(t)
  BY <1>5, EntersTyped, StatusFacts DEF RequestChanges, TypeInv, QueueInv
<1>6. CASE TogglePause(t)
  BY <1>6 DEF TogglePause, TypeInv, QueueInv
<1>7. CASE LoseClaim(t)
  BY <1>7 DEF LoseClaim, TypeInv, QueueInv
<1> QED BY <1>1, <1>2, <1>3, <1>4, <1>5, <1>6, <1>7 DEF ApiStep

LEMMA ProcessEndsTyped ==
  ASSUME TypeInv, ProcessEnds
  PROVE  TypeInv' /\ QueueInv'
<1>1. queue' \in QueueRecords /\ queue'.phase = "off"
  BY DEF ProcessEnds, QueueOff, QueueRecords
<1>2. claim' \in [Tasks -> {"free", "held", "orphan"}]
  BY DEF ProcessEnds, TypeInv
<1>3. cache' \in [Cycles -> [Projects -> {"unknown", "serial", "parallel"}]]
      /\ spawned' \in [Cycles -> [Projects -> Nat]]
  BY DEF ProcessEnds
<1>4. runs' = {} /\ runs' \subseteq RunRecords
  BY DEF ProcessEnds
<1> QED BY <1>1, <1>2, <1>3, <1>4, StatusFacts DEF ProcessEnds, TypeInv, QueueInv

LEMMA TypeStep ==
  ASSUME TypeInv, QueueInv, [PoolNext]_poolVars
  PROVE  TypeInv' /\ QueueInv'
<1>1. CASE \E c \in Cycles : StartCycle(c) \/ CycleStep(c)
  BY <1>1, QueueTyped, StagesTyped DEF CycleStep
<1>2. CASE \E r \in runs : RunSettles(r) \/ StageTimeout(r) \/ BindBranch(r)
  BY <1>2, RunsTyped
<1>3. CASE \E t \in Tasks : ZombieEnds(t) \/ ApiStep(t)
  BY <1>3, OthersTyped
<1>4. CASE ProcessEnds
  BY <1>4, ProcessEndsTyped
<1>5. CASE UNCHANGED poolVars
  BY <1>5 DEF poolVars, rows, cycle, sems, TypeInv, QueueInv
<1> QED BY <1>1, <1>2, <1>3, <1>4, <1>5 DEF PoolNext

-----------------------------------------------------------------------------
(* The runs.  A run belongs to a cycle that is inside a stage, and its     *)
(* task is no longer one of the cycle's candidates: a run that is started  *)
(* is a new one.                                                           *)

RunInv ==
  \A r \in runs : /\ at[r.cycle] \in {"loop", "await"}
                  /\ r.task \notin cands[r.cycle]

LEMMA LeaveStageRuns ==
  ASSUME TypeInv, RunInv, NEW c \in Cycles, LeaveStage(c),
         \A r \in runs : r.cycle # c,
         UNCHANGED <<cands, runs>>
  PROVE  RunInv'
<1>1. \A d \in Cycles : d # c => at'[d] = at[d]
  BY DEF LeaveStage, TypeInv
<1> QED BY <1>1, RunTyped DEF RunInv

LEMMA TakeCandidateRuns ==
  ASSUME TypeInv, NEW c \in Cycles, TakeCandidate(c)
  PROVE  /\ \A d \in Cycles : cands'[d] \subseteq cands[d]
         /\ NextCandidate(c) \notin cands'[c]
BY DEF TakeCandidate, TypeInv

LEMMA RunStep ==
  ASSUME TypeInv, QueueInv, RunInv, [PoolNext]_poolVars
  PROVE  RunInv'
<1> USE DEF rows, cycle, sems
<1>0. \A r \in runs : r.cycle \in Cycles /\ r.task \in Tasks
  BY RunTyped
<1>1. ASSUME NEW c \in Cycles, StartCycle(c) \/ CycleStep(c)
      PROVE  RunInv'
  <2>1. CASE StartCycle(c)
    <3>1. at[c] = "idle" /\ at' = [at EXCEPT ![c] = "queue"] /\ UNCHANGED <<cands, runs>>
      BY <2>1 DEF StartCycle
    <3> QED BY <1>0, <3>1 DEF RunInv, TypeInv
  <2>2. CASE QueueCount(c) \/ QueuePick(c) \/ QueueAdvance(c) \/ QueueBlocks(c)
    <3>1. UNCHANGED <<at, cands, runs>>
      BY <2>2 DEF QueueCount, QueuePick, QueueAdvance, QueueBlocks
    <3> QED BY <3>1 DEF RunInv
  <2>3. CASE QueueDone(c)
    <3>1. at[c] = "queue" /\ at' = [at EXCEPT ![c] = "enter"] /\ UNCHANGED <<cands, runs>>
      BY <2>3 DEF QueueDone, QueueInv
    <3> QED BY <1>0, <3>1 DEF RunInv, TypeInv
  <2>4. CASE EnterStage(c)
    <3>1. at[c] = "enter" /\ UNCHANGED runs
      BY <2>4 DEF EnterStage
    <3>2. \A r \in runs : r.cycle # c
      BY <3>1 DEF RunInv
    <3>3. CASE LeaveStage(c) /\ UNCHANGED cands
      BY <3>1, <3>2, <3>3, LeaveStageRuns
    <3>4. CASE ~(LeaveStage(c) /\ UNCHANGED cands)
      <4>1. \A d \in Cycles : d # c => at'[d] = at[d] /\ cands'[d] = cands[d]
        BY <2>4, <3>4 DEF EnterStage, TypeInv
      <4> QED BY <1>0, <3>1, <3>2, <4>1 DEF RunInv
    <3> QED BY <3>3, <3>4
  <2>5. CASE SkipCandidate(c) \/ GateCandidate(c)
    <3>1. TakeCandidate(c) /\ UNCHANGED <<at, runs>>
      BY <2>5 DEF SkipCandidate, GateCandidate
    <3> QED BY <1>0, <3>1, TakeCandidateRuns DEF RunInv
  <2>6. CASE StartRun(c)
    <3>1. TakeCandidate(c) /\ UNCHANGED at /\ at[c] = "loop"
      BY <2>6 DEF StartRun, TakeCandidate
    <3>2. ASSUME NEW r \in runs'
          PROVE  r \in runs \/ (r.cycle = c /\ r.task = NextCandidate(c))
      BY <2>6 DEF StartRun
    <3> QED BY <1>0, <3>1, <3>2, TakeCandidateRuns DEF RunInv
  <2>7. CASE SemaphoreFull(c)
    <3>1. UNCHANGED <<at, runs>> /\ \A d \in Cycles : cands'[d] \subseteq cands[d]
      BY <2>7 DEF SemaphoreFull, TypeInv
    <3> QED BY <1>0, <3>1 DEF RunInv
  <2>8. CASE EndOfLoop(c)
    <3>1. UNCHANGED <<cands, runs>> /\ at[c] = "loop"
      BY <2>8 DEF EndOfLoop
    <3>2. CASE RunsOf(c) = {}
      BY <2>8, <3>1, <3>2, LeaveStageRuns DEF EndOfLoop, RunsOf
    <3>3. CASE RunsOf(c) # {}
      <4>1. at' = [at EXCEPT ![c] = "await"]
        BY <2>8, <3>3 DEF EndOfLoop
      <4> QED BY <1>0, <3>1, <4>1 DEF RunInv, TypeInv
    <3> QED BY <3>2, <3>3
  <2>9. CASE AllSettled(c)
    BY <2>9, LeaveStageRuns DEF AllSettled, RunsOf
  <2> QED BY <1>1, <2>1, <2>2, <2>3, <2>4, <2>5, <2>6, <2>7, <2>8, <2>9 DEF CycleStep
<1>2. ASSUME NEW r \in runs, RunSettles(r) \/ StageTimeout(r) \/ BindBranch(r)
      PROVE  RunInv'
  <2>1. runs' \subseteq runs /\ UNCHANGED <<at, cands>>
    BY <1>2 DEF RunSettles, StageTimeout, BindBranch, Settle
  <2> QED BY <2>1 DEF RunInv
<1>3. ASSUME NEW t \in Tasks, ZombieEnds(t) \/ ApiStep(t)
      PROVE  RunInv'
  <2>1. UNCHANGED <<at, cands, runs>>
    BY <1>3 DEF ZombieEnds, ApiStep, HumanStart, AcceptExistingPlan, HumanRetry,
                RequestChanges, TogglePause, LoseClaim
  <2> QED BY <2>1 DEF RunInv
<1>4. CASE ProcessEnds
  BY <1>4 DEF ProcessEnds, RunInv
<1>5. CASE UNCHANGED poolVars
  BY <1>5 DEF poolVars, RunInv
<1> QED BY <1>1, <1>2, <1>3, <1>4, <1>5 DEF PoolNext

(* The steps that touch the runs and the semaphores.                       *)
LEMMA StepKinds ==
  ASSUME [PoolNext]_poolVars
  PROVE  \/ UNCHANGED <<setting, runs, stageSem, profileSem>>
         \/ \E c \in Cycles : StartRun(c)
         \/ \E r \in runs : \E ok \in BOOLEAN : Settle(r, ok)
         \/ ProcessEnds
<1> USE DEF rows, cycle, sems
<1>1. ASSUME NEW c \in Cycles, StartCycle(c) \/ CycleStep(c), ~StartRun(c)
      PROVE  UNCHANGED <<setting, runs, stageSem, profileSem>>
  <2>1. CASE StartCycle(c)
    BY <2>1 DEF StartCycle
  <2>2. CASE QueueCount(c) \/ QueuePick(c) \/ QueueAdvance(c) \/ QueueBlocks(c) \/ QueueDone(c)
    BY <2>2 DEF QueueCount, QueuePick, QueueAdvance, QueueBlocks, QueueDone
  <2>3. CASE EnterStage(c) \/ SkipCandidate(c) \/ GateCandidate(c)
    BY <2>3 DEF EnterStage, SkipCandidate, GateCandidate
  <2>4. CASE SemaphoreFull(c) \/ EndOfLoop(c) \/ AllSettled(c)
    BY <2>4 DEF SemaphoreFull, EndOfLoop, AllSettled
  <2> QED BY <1>1, <2>1, <2>2, <2>3, <2>4 DEF CycleStep
<1>2. ASSUME NEW r \in runs, RunSettles(r) \/ StageTimeout(r) \/ BindBranch(r),
             ~\E ok \in BOOLEAN : Settle(r, ok)
      PROVE  UNCHANGED <<setting, runs, stageSem, profileSem>>
  BY <1>2 DEF RunSettles, StageTimeout, BindBranch
<1>3. ASSUME NEW t \in Tasks, ZombieEnds(t) \/ ApiStep(t)
      PROVE  UNCHANGED <<setting, runs, stageSem, profileSem>>
  BY <1>3 DEF ZombieEnds, ApiStep, HumanStart, AcceptExistingPlan, HumanRetry,
              RequestChanges, TogglePause, LoseClaim
<1>4. CASE UNCHANGED poolVars
  BY <1>4 DEF poolVars
<1> QED BY <1>1, <1>2, <1>3, <1>4 DEF PoolNext

-----------------------------------------------------------------------------
(* The accounting.  What the coordinator compares with its cap is the sum  *)
(* of the stage counts; the invariant says that this sum is the number of  *)
(* runs as well.                                                           *)

StageRuns(s)   == {r \in runs : r.stage = s}
ProfileRuns(k) == {r \in runs : r.profile = k}
ProfileBound(k) == \E s \in Stages : profileSem[k] <= ProfileMax[k][s]

CountInv ==
  /\ IsFiniteSet(runs)
  /\ IsFiniteSet(TakenSlots)
  /\ TotalActive = Cardinality(runs)
  /\ \A s \in Stages : stageSem[s] = Cardinality(StageRuns(s))
  /\ \A k \in Profiles : /\ profileSem[k] = Cardinality(ProfileRuns(k))
                         /\ ProfileBound(k)
  /\ Cardinality(runs) <= setting.globalMax

LEMMA SlotMember ==
  ASSUME NEW s, NEW n
  PROVE  <<s, n>> \in TakenSlots <=> s \in Stages /\ n \in 1 .. stageSem[s]
BY DEF TakenSlots

LEMMA SlotPair ==
  ASSUME NEW x \in TakenSlots
  PROVE  \E s \in Stages : \E n \in 1 .. stageSem[s] : x = <<s, n>>
BY DEF TakenSlots

(* One more, or one less, run of a stage is one more, or one less, slot.   *)
LEMMA SlotTaken ==
  ASSUME TypeInv, NEW s \in Stages, stageSem' = [stageSem EXCEPT ![s] = @ + 1]
  PROVE  /\ TakenSlots' = TakenSlots \cup {<<s, stageSem[s] + 1>>}
         /\ <<s, stageSem[s] + 1>> \notin TakenSlots
<1> DEFINE new == <<s, stageSem[s] + 1>>
<1>1. /\ \A u \in Stages : stageSem[u] \in Nat
      /\ \A u \in Stages : stageSem'[u] = IF u = s THEN stageSem[u] + 1 ELSE stageSem[u]
  BY DEF TypeInv
<1>2. \A u \in Stages : \A n : n \in 1 .. stageSem'[u] <=>
         n \in 1 .. stageSem[u] \/ (u = s /\ n = stageSem[s] + 1)
  BY <1>1
<1>3. ASSUME NEW x \in TakenSlots' PROVE x \in TakenSlots \cup {new}
  <2>1. PICK u \in Stages : \E n \in 1 .. stageSem'[u] : x = <<u, n>>
    BY DEF TakenSlots
  <2>2. PICK n \in 1 .. stageSem'[u] : x = <<u, n>>
    BY <2>1
  <2> QED BY <1>2, <2>2, SlotMember
<1>4. ASSUME NEW x \in TakenSlots PROVE x \in TakenSlots'
  <2>1. PICK u \in Stages : \E n \in 1 .. stageSem[u] : x = <<u, n>>
    BY SlotPair
  <2>2. PICK n \in 1 .. stageSem[u] : x = <<u, n>>
    BY <2>1
  <2>3. n \in 1 .. stageSem'[u]
    BY <1>2, <2>2
  <2> QED BY <2>2, <2>3 DEF TakenSlots
<1>5. new \in TakenSlots'
  <2>1. stageSem[s] + 1 \in 1 .. stageSem'[s]
    BY <1>1
  <2> QED BY <2>1 DEF TakenSlots
<1>6. new \notin TakenSlots
  BY <1>1, SlotMember
<1>7. TakenSlots' = TakenSlots \cup {new}
  BY <1>3, <1>4, <1>5
<1> QED BY <1>6, <1>7

LEMMA SlotReleased ==
  ASSUME TypeInv, NEW s \in Stages, stageSem[s] > 0,
         stageSem' = Release(stageSem, s)
  PROVE  /\ TakenSlots' = TakenSlots \ {<<s, stageSem[s]>>}
         /\ <<s, stageSem[s]>> \in TakenSlots
<1> DEFINE old == <<s, stageSem[s]>>
<1>1. /\ \A u \in Stages : stageSem[u] \in Nat
      /\ \A u \in Stages : stageSem'[u] = IF u = s THEN stageSem[u] - 1 ELSE stageSem[u]
  BY DEF TypeInv, Release
<1>2. \A u \in Stages : \A n : n \in 1 .. stageSem'[u] <=>
         n \in 1 .. stageSem[u] /\ ~(u = s /\ n = stageSem[s])
  BY <1>1
<1>3. ASSUME NEW x \in TakenSlots' PROVE x \in TakenSlots \ {old}
  <2>1. PICK u \in Stages : \E n \in 1 .. stageSem'[u] : x = <<u, n>>
    BY DEF TakenSlots
  <2>2. PICK n \in 1 .. stageSem'[u] : x = <<u, n>>
    BY <2>1
  <2>3. n \in 1 .. stageSem[u] /\ ~(u = s /\ n = stageSem[s])
    BY <1>2, <2>2
  <2> QED BY <2>2, <2>3, SlotMember
<1>4. ASSUME NEW x \in TakenSlots, x # old PROVE x \in TakenSlots'
  <2>1. PICK u \in Stages : \E n \in 1 .. stageSem[u] : x = <<u, n>>
    BY SlotPair
  <2>2. PICK n \in 1 .. stageSem[u] : x = <<u, n>>
    BY <2>1
  <2>3. n \in 1 .. stageSem'[u]
    BY <1>2, <1>4, <2>2
  <2> QED BY <2>2, <2>3 DEF TakenSlots
<1>5. old \in TakenSlots
  BY <1>1, SlotMember
<1>6. TakenSlots' = TakenSlots \ {old}
  BY <1>3, <1>4
<1> QED BY <1>5, <1>6

LEMMA CapTyped == \A k \in Profiles : \A s \in Stages : ProfileMax[k][s] \in Nat
BY PoolAssumption DEF Stages

LEMMA CountInit == PoolInit => CountInv
<1> SUFFICES ASSUME PoolInit PROVE CountInv
  OBVIOUS
<1>1. runs = {} /\ stageSem = [s \in Stages |-> 0] /\ profileSem = [k \in Profiles |-> 0]
      /\ setting \in Settings
  BY DEF PoolInit
<1>2. TakenSlots = {}
  BY <1>1, SlotPair
<1>3. \A s \in Stages : StageRuns(s) = {}
  BY <1>1 DEF StageRuns
<1>4. \A k \in Profiles : ProfileRuns(k) = {} /\ ProfileBound(k)
  <2>1. 1 \in Stages
    BY PoolAssumption DEF Stages
  <2>2. \A k \in Profiles : profileSem[k] = 0 /\ ProfileMax[k][1] \in Nat
    BY <1>1, <2>1, CapTyped
  <2>3. \A k \in Profiles : ProfileRuns(k) = {}
    BY <1>1 DEF ProfileRuns
  <2> QED BY <2>1, <2>2, <2>3 DEF ProfileBound
<1>5. setting.globalMax \in Nat
  BY <1>1, SettingTyped
<1> QED BY <1>1, <1>2, <1>3, <1>4, <1>5, FS_EmptySet DEF CountInv, TotalActive

LEMMA CountFacts ==
  ASSUME TypeInv, CountInv
  PROVE  /\ Cardinality(runs) \in Nat
         /\ \A s : IsFiniteSet(StageRuns(s)) /\ StageRuns(s) \subseteq runs
         /\ \A k : IsFiniteSet(ProfileRuns(k)) /\ ProfileRuns(k) \subseteq runs
<1>1. \A s : StageRuns(s) \in SUBSET runs
  BY DEF StageRuns
<1>2. \A k : ProfileRuns(k) \in SUBSET runs
  BY DEF ProfileRuns
<1> QED BY <1>1, <1>2, FS_Subset, FS_CardinalityType DEF CountInv

LEMMA StartRunCounts ==
  ASSUME TypeInv, RunInv, CountInv, NEW c \in Cycles, StartRun(c)
  PROVE  CountInv'
<1> DEFINE t == NextCandidate(c)
           s == stage[c]
<1>1. PICK k \in Profiles \cup {None} :
        /\ k # None => profileSem[k] < ProfileMax[k][s]
        /\ runs' = runs \cup
             {[cycle |-> c, task |-> t, stage |-> s, profile |-> k]}
        /\ profileSem' = [j \in Profiles |->
                            profileSem[j] + (IF j = k THEN 1 ELSE 0)]
  BY DEF StartRun
<1> DEFINE new == [cycle |-> c, task |-> t, stage |-> s, profile |-> k]
<1>2. /\ stageSem' = [stageSem EXCEPT ![s] = @ + 1]
      /\ SlotFree /\ UNCHANGED setting /\ s \in Stages
  BY DEF StartRun, TypeInv
<1>3. new \notin runs
  <2>1. t \in cands[c]
    BY CandidateTyped DEF StartRun, TakeCandidate
  <2> QED BY <2>1 DEF RunInv
<1>4. new.stage = s /\ new.profile = k
  OBVIOUS
<1> HIDE DEF new
<1>5. runs' = runs \cup {new}
  BY <1>1 DEF new
<1>6. IsFiniteSet(runs') /\ Cardinality(runs') = Cardinality(runs) + 1
  BY <1>3, <1>5, FS_AddElement DEF CountInv
<1>7. IsFiniteSet(TakenSlots)' /\ TotalActive' = TotalActive + 1
  <2>1. /\ TakenSlots' = TakenSlots \cup {<<s, stageSem[s] + 1>>}
        /\ <<s, stageSem[s] + 1>> \notin TakenSlots
    BY <1>2, SlotTaken
  <2>2. /\ IsFiniteSet(TakenSlots \cup {<<s, stageSem[s] + 1>>})
        /\ Cardinality(TakenSlots \cup {<<s, stageSem[s] + 1>>}) = Cardinality(TakenSlots) + 1
    BY <2>1, FS_AddElement DEF CountInv
  <2> QED BY <2>1, <2>2 DEF TotalActive
<1>8. ASSUME NEW u \in Stages
      PROVE  stageSem'[u] = Cardinality(StageRuns(u)')
  <2>1. CASE u = s
    <3>1. StageRuns(u)' = StageRuns(u) \cup {new} /\ new \notin StageRuns(u)
      BY <1>3, <1>4, <1>5, <2>1 DEF StageRuns
    <3>2. Cardinality(StageRuns(u) \cup {new}) = Cardinality(StageRuns(u)) + 1
      BY <3>1, CountFacts, FS_AddElement
    <3>3. stageSem'[u] = stageSem[u] + 1
      BY <1>2, <2>1 DEF TypeInv
    <3> QED BY <3>1, <3>2, <3>3 DEF CountInv
  <2>2. CASE u # s
    <3>1. StageRuns(u)' = StageRuns(u)
      BY <1>4, <1>5, <2>2 DEF StageRuns
    <3> QED BY <1>2, <2>2, <3>1 DEF CountInv, TypeInv
  <2> QED BY <2>1, <2>2
<1>9. ASSUME NEW j \in Profiles
      PROVE  /\ profileSem'[j] = Cardinality(ProfileRuns(j)')
             /\ ProfileBound(j)'
  <2>0. profileSem[j] \in Nat /\ ProfileMax[j][s] \in Nat /\ j # None
    BY <1>2, CapTyped, PoolAssumption DEF TypeInv
  <2>1. CASE j = k
    <3>1. ProfileRuns(j)' = ProfileRuns(j) \cup {new} /\ new \notin ProfileRuns(j)
      BY <1>3, <1>4, <1>5, <2>1 DEF ProfileRuns
    <3>2. Cardinality(ProfileRuns(j) \cup {new}) = Cardinality(ProfileRuns(j)) + 1
      BY <3>1, CountFacts, FS_AddElement
    <3>3. profileSem'[j] = profileSem[j] + 1 /\ profileSem[j] < ProfileMax[j][s]
      BY <1>1, <2>0, <2>1
    <3>4. ProfileBound(j)'
      BY <1>2, <2>0, <3>3 DEF ProfileBound
    <3> QED BY <3>1, <3>2, <3>3, <3>4 DEF CountInv
  <2>2. CASE j # k
    <3>1. ProfileRuns(j)' = ProfileRuns(j)
      BY <1>4, <1>5, <2>2 DEF ProfileRuns
    <3>2. profileSem'[j] = profileSem[j]
      BY <1>1, <2>0, <2>2
    <3> QED BY <3>1, <3>2 DEF CountInv, ProfileBound
  <2> QED BY <2>1, <2>2
<1>10. Cardinality(runs') <= setting'.globalMax
  <2>1. setting.globalMax \in Nat
    BY SettingTyped DEF TypeInv
  <2> QED BY <1>2, <1>6, <2>1, CountFacts DEF SlotFree, CountInv
<1> QED BY <1>6, <1>7, <1>8, <1>9, <1>10 DEF CountInv

LEMMA SettleCounts ==
  ASSUME TypeInv, CountInv, NEW r \in runs, NEW ok \in BOOLEAN, Settle(r, ok)
  PROVE  CountInv'
<1>1. /\ runs' = runs \ {r} /\ UNCHANGED setting
      /\ stageSem' = Release(stageSem, r.stage)
      /\ profileSem' = IF r.profile = None THEN profileSem
                       ELSE Release(profileSem, r.profile)
  BY DEF Settle
<1>2. r.stage \in Stages /\ r.profile \in Profiles \cup {None}
  BY RunTyped
<1>3. IsFiniteSet(runs') /\ Cardinality(runs') = Cardinality(runs) - 1
  BY <1>1, FS_RemoveElement DEF CountInv
<1>4. ASSUME NEW u \in Stages
      PROVE  /\ u = r.stage => stageSem[u] > 0
             /\ stageSem'[u] = Cardinality(StageRuns(u)')
  <2>1. CASE u = r.stage
    <3>1. StageRuns(u)' = StageRuns(u) \ {r} /\ r \in StageRuns(u)
      BY <1>1, <2>1 DEF StageRuns
    <3>2. Cardinality(StageRuns(u) \ {r}) = Cardinality(StageRuns(u)) - 1
      BY <3>1, CountFacts, FS_RemoveElement
    <3>3. Cardinality(StageRuns(u)) # 0 /\ Cardinality(StageRuns(u)) \in Nat
      BY <3>1, CountFacts, FS_EmptySet, FS_CardinalityType
    <3>4. stageSem[u] = Cardinality(StageRuns(u))
      BY DEF CountInv
    <3>5. stageSem'[u] = stageSem[u] - 1
      BY <1>1, <1>2, <2>1, <3>3, <3>4 DEF TypeInv, Release
    <3> QED BY <3>1, <3>2, <3>3, <3>4, <3>5
  <2>2. CASE u # r.stage
    <3>1. StageRuns(u)' = StageRuns(u)
      BY <1>1, <2>2 DEF StageRuns
    <3> QED BY <1>1, <1>2, <2>2, <3>1 DEF CountInv, TypeInv, Release
  <2> QED BY <2>1, <2>2
<1>5. IsFiniteSet(TakenSlots)' /\ TotalActive' = TotalActive - 1
  <2>0. stageSem[r.stage] > 0
    BY <1>2, <1>4
  <2>1. /\ TakenSlots' = TakenSlots \ {<<r.stage, stageSem[r.stage]>>}
        /\ <<r.stage, stageSem[r.stage]>> \in TakenSlots
    BY <1>1, <1>2, <2>0, SlotReleased
  <2>2. /\ IsFiniteSet(TakenSlots \ {<<r.stage, stageSem[r.stage]>>})
        /\ Cardinality(TakenSlots \ {<<r.stage, stageSem[r.stage]>>}) = Cardinality(TakenSlots) - 1
    BY <2>1, FS_RemoveElement DEF CountInv
  <2> QED BY <2>1, <2>2 DEF TotalActive
<1>6. ASSUME NEW j \in Profiles
      PROVE  /\ profileSem'[j] = Cardinality(ProfileRuns(j)')
             /\ ProfileBound(j)'
  <2>0. profileSem[j] \in Nat /\ j # None /\ profileSem[j] = Cardinality(ProfileRuns(j))
    BY PoolAssumption DEF TypeInv, CountInv
  <2>b. PICK s \in Stages : profileSem[j] <= ProfileMax[j][s]
    BY DEF CountInv, ProfileBound
  <2>c. ProfileMax[j][s] \in Nat
    BY CapTyped
  <2>1. CASE j = r.profile
    <3>1. ProfileRuns(j)' = ProfileRuns(j) \ {r} /\ r \in ProfileRuns(j)
      BY <1>1, <2>1 DEF ProfileRuns
    <3>2. Cardinality(ProfileRuns(j) \ {r}) = Cardinality(ProfileRuns(j)) - 1
      BY <3>1, CountFacts, FS_RemoveElement
    <3>3. profileSem[j] # 0
      BY <2>0, <3>1, CountFacts, FS_EmptySet
    <3>4. profileSem' = Release(profileSem, j)
      BY <1>1, <2>0, <2>1
    <3>5. profileSem'[j] = profileSem[j] - 1
      BY <2>0, <3>3, <3>4 DEF TypeInv, Release
    <3>6. ProfileBound(j)'
      BY <2>0, <2>b, <2>c, <3>5 DEF ProfileBound
    <3> QED BY <2>0, <3>1, <3>2, <3>5, <3>6
  <2>2. CASE j # r.profile
    <3>1. ProfileRuns(j)' = ProfileRuns(j)
      BY <1>1, <2>2 DEF ProfileRuns
    <3>2. profileSem'[j] = profileSem[j]
      BY <1>1, <1>2, <2>2 DEF TypeInv, Release
    <3> QED BY <2>0, <2>b, <3>1, <3>2 DEF ProfileBound
  <2> QED BY <2>1, <2>2
<1>7. Cardinality(runs') <= setting'.globalMax
  <2>1. setting.globalMax \in Nat
    BY SettingTyped DEF TypeInv
  <2> QED BY <1>1, <1>3, <2>1, CountFacts DEF CountInv
<1> QED BY <1>3, <1>4, <1>5, <1>6, <1>7 DEF CountInv

LEMMA ProcessEndsCounts ==
  ASSUME TypeInv, ProcessEnds
  PROVE  CountInv'
<1>1. runs' = {} /\ stageSem' = [s \in Stages |-> 0] /\ profileSem' = [k \in Profiles |-> 0]
      /\ setting' \in Settings
  BY DEF ProcessEnds, TypeInv
<1>2. TakenSlots' = {}
  BY <1>1 DEF TakenSlots
<1>3. \A s \in Stages : StageRuns(s)' = {}
  BY <1>1 DEF StageRuns
<1>4. \A k \in Profiles : ProfileRuns(k)' = {} /\ ProfileBound(k)'
  <2>1. 1 \in Stages
    BY PoolAssumption DEF Stages
  <2>2. \A k \in Profiles : profileSem'[k] = 0 /\ ProfileMax[k][1] \in Nat
    BY <1>1, <2>1, CapTyped
  <2>3. \A k \in Profiles : ProfileRuns(k)' = {}
    BY <1>1 DEF ProfileRuns
  <2> QED BY <2>1, <2>2, <2>3 DEF ProfileBound
<1>5. setting'.globalMax \in Nat
  BY <1>1, PoolAssumption
<1> QED BY <1>1, <1>2, <1>3, <1>4, <1>5, FS_EmptySet DEF CountInv, TotalActive

LEMMA CountStep ==
  ASSUME TypeInv, QueueInv, RunInv, CountInv, [PoolNext]_poolVars
  PROVE  CountInv'
<1>1. CASE UNCHANGED <<setting, runs, stageSem, profileSem>>
  BY <1>1 DEF CountInv, TotalActive, TakenSlots, StageRuns, ProfileRuns, ProfileBound
<1>2. CASE \E c \in Cycles : StartRun(c)
  BY <1>2, StartRunCounts
<1>3. CASE \E r \in runs : \E ok \in BOOLEAN : Settle(r, ok)
  BY <1>3, SettleCounts
<1>4. CASE ProcessEnds
  BY <1>4, ProcessEndsCounts
<1> QED BY <1>1, <1>2, <1>3, <1>4, StepKinds

PoolInv == TypeInv /\ QueueInv /\ RunInv /\ CountInv

(* Types, the queue's cursor, the freshness of runs and the counts hold    *)
(* together in every reachable state of the coordinator.                   *)
THEOREM PoolInvariant == PoolSpec => []PoolInv
<1>1. PoolInit => PoolInv
  BY TypeInit, CountInit DEF PoolInv, PoolInit, RunInv
<1>2. PoolInv /\ [PoolNext]_poolVars => PoolInv'
  BY TypeStep, RunStep, CountStep DEF PoolInv
<1> QED BY <1>1, <1>2, PTL DEF PoolSpec

(* Both semaphores count the live runs, and the caps on them are caps on   *)
(* runs (StageSemaphore, the runtime profile semaphore).                   *)
THEOREM AccountingHolds == PoolSpec => []SemaphoreAccounting
<1>1. PoolInv => SemaphoreAccounting
  BY DEF PoolInv, CountInv, SemaphoreAccounting, StageRuns, ProfileRuns,
         ProfileBound
<1> QED BY <1>1, PoolInvariant, PTL

(* The types of the rows, the cycles and the semaphores.  That a stage's   *)
(* count stays within the cap comes from the accounting.                   *)
THEOREM PoolTypes == PoolSpec => []PoolTypeOK
<1>1. PoolInv => PoolTypeOK
  <2> SUFFICES ASSUME PoolInv PROVE PoolTypeOK
    OBVIOUS
  <2>1. ASSUME NEW s \in Stages PROVE stageSem[s] \in 0 .. setting.globalMax
    <3>1. StageRuns(s) \in SUBSET runs /\ IsFiniteSet(runs)
      BY DEF StageRuns, PoolInv, CountInv
    <3>2. Cardinality(StageRuns(s)) <= Cardinality(runs)
      BY <3>1, FS_Subset
    <3>3. setting.globalMax \in Nat /\ Cardinality(runs) \in Nat /\ stageSem[s] \in Nat
      BY SettingTyped, CountFacts DEF PoolInv, TypeInv
    <3> QED BY <3>2, <3>3 DEF PoolInv, CountInv
  <2>2. stageSem \in [Stages -> 0 .. setting.globalMax]
    BY <2>1 DEF PoolInv, TypeInv
  <2> QED BY <2>2 DEF PoolInv, TypeInv, PoolTypeOK
<1> QED BY <1>1, PoolInvariant, PTL

-----------------------------------------------------------------------------
(* Claims and serial projects.                                             *)

(* A step that leaves the runs alone clears at most the claim of a dead    *)
(* process, or one that an answer clears.                                  *)
ClaimsKept ==
  /\ UNCHANGED <<setting, runs>>
  /\ \A t \in Tasks : claim'[t] # claim[t] =>
       /\ claim'[t] = "free"
       /\ claim[t] = "orphan" \/ setting.losesClaims = TRUE

LEMMA ClaimKinds ==
  ASSUME TypeInv, [PoolNext]_poolVars
  PROVE  \/ ClaimsKept
         \/ \E c \in Cycles : StartRun(c)
         \/ \E r \in runs : \E ok \in BOOLEAN : Settle(r, ok)
         \/ ProcessEnds
<1> USE DEF rows, cycle, sems
<1>0. setting.losesClaims \in BOOLEAN
  BY SettingTyped DEF TypeInv
<1>1. ASSUME NEW c \in Cycles, StartCycle(c)
      PROVE  ClaimsKept
  <2>1. PICK stale \in SUBSET {t \in Tasks : claim[t] = "orphan"} :
          claim' = [t \in Tasks |-> IF t \in stale THEN "free" ELSE claim[t]]
    BY <1>1 DEF StartCycle
  <2>2. UNCHANGED <<setting, runs>>
    BY <1>1 DEF StartCycle
  <2> QED BY <2>1, <2>2 DEF ClaimsKept
<1>2. ASSUME NEW c \in Cycles, CycleStep(c), ~StartRun(c)
      PROVE  ClaimsKept
  <2>1. CASE QueueCount(c) \/ QueuePick(c) \/ QueueAdvance(c) \/ QueueBlocks(c) \/ QueueDone(c)
    BY <2>1 DEF QueueCount, QueuePick, QueueAdvance, QueueBlocks, QueueDone, ClaimsKept
  <2>2. CASE EnterStage(c) \/ SkipCandidate(c) \/ GateCandidate(c)
    BY <2>2 DEF EnterStage, SkipCandidate, GateCandidate, ClaimsKept
  <2>3. CASE EndOfLoop(c) \/ AllSettled(c)
    BY <2>3 DEF EndOfLoop, AllSettled, ClaimsKept
  <2>4. CASE SemaphoreFull(c)
    BY <2>4 DEF SemaphoreFull, TypeInv, ClaimsKept
  <2> QED BY <1>2, <2>1, <2>2, <2>3, <2>4 DEF CycleStep
<1>3. ASSUME NEW r \in runs, RunSettles(r) \/ StageTimeout(r) \/ BindBranch(r),
             ~\E ok \in BOOLEAN : Settle(r, ok)
      PROVE  ClaimsKept
  BY <1>3 DEF RunSettles, StageTimeout, BindBranch, ClaimsKept
<1>4. ASSUME NEW u \in Tasks, ZombieEnds(u) \/ ApiStep(u)
      PROVE  ClaimsKept
  <2>1. CASE LoseClaim(u)
    <3>1. UNCHANGED <<setting, runs>> /\ setting.losesClaims = TRUE
          /\ claim' = [claim EXCEPT ![u] = "free"]
      BY <1>0, <2>1 DEF LoseClaim
    <3> QED BY <3>1 DEF TypeInv, ClaimsKept
  <2>2. CASE ~LoseClaim(u)
    BY <1>4, <2>2 DEF ZombieEnds, ApiStep, HumanStart, AcceptExistingPlan, HumanRetry,
                      RequestChanges, TogglePause, ClaimsKept
  <2> QED BY <2>1, <2>2
<1>5. CASE UNCHANGED poolVars
  BY <1>5 DEF poolVars, ClaimsKept
<1> QED BY <1>1, <1>2, <1>3, <1>4, <1>5 DEF PoolNext

LEMMA StartRunShape ==
  ASSUME TypeInv, NEW c \in Cycles, StartRun(c)
  PROVE  \E new : /\ runs' = runs \cup {new}
                  /\ new.task = NextCandidate(c)
                  /\ NextCandidate(c) \in Tasks
                  /\ claim[NextCandidate(c)] = "free"
                  /\ claim' = [claim EXCEPT ![NextCandidate(c)] = "held"]
                  /\ UNCHANGED setting
<1>1. PICK k \in Profiles \cup {None} : runs' = runs \cup
        {[cycle |-> c, task |-> NextCandidate(c), stage |-> stage[c], profile |-> k]}
  BY DEF StartRun
<1>2. NextCandidate(c) \in Tasks
  BY CandidateTyped DEF StartRun, TakeCandidate
<1> WITNESS [cycle |-> c, task |-> NextCandidate(c), stage |-> stage[c], profile |-> k]
<1> QED BY <1>1, <1>2 DEF StartRun

LEMMA BackedStep ==
  ASSUME TypeInv, ClaimsBacked, [PoolNext]_poolVars
  PROVE  ClaimsBacked'
<1> SUFFICES ASSUME NEW t \in Tasks, claim'[t] = "held"
             PROVE  \E r \in runs' : r.task = t
  BY DEF ClaimsBacked
<1>1. CASE ClaimsKept
  BY <1>1 DEF ClaimsBacked, ClaimsKept
<1>2. ASSUME NEW c \in Cycles, StartRun(c)
      PROVE  \E r \in runs' : r.task = t
  <2>1. PICK new : /\ runs' = runs \cup {new}
                   /\ new.task = NextCandidate(c)
                   /\ NextCandidate(c) \in Tasks
                   /\ claim[NextCandidate(c)] = "free"
                   /\ claim' = [claim EXCEPT ![NextCandidate(c)] = "held"]
                   /\ UNCHANGED setting
    BY <1>2, StartRunShape
  <2>2. CASE t = NextCandidate(c)
    BY <2>1, <2>2
  <2>3. CASE t # NextCandidate(c)
    BY <2>1, <2>3 DEF ClaimsBacked, TypeInv
  <2> QED BY <2>2, <2>3
<1>3. ASSUME NEW r \in runs, NEW ok \in BOOLEAN, Settle(r, ok)
      PROVE  \E q \in runs' : q.task = t
  <2>1. /\ runs' = runs \ {r} /\ r.task \in Tasks
        /\ claim' = [claim EXCEPT ![r.task] = IF @ = "held" THEN "free" ELSE @]
    BY <1>3, RunTyped DEF Settle
  <2>2. t # r.task /\ claim[t] = "held"
    BY <2>1 DEF TypeInv
  <2> QED BY <2>1, <2>2 DEF ClaimsBacked
<1>4. CASE ProcessEnds
  BY <1>4 DEF ProcessEnds
<1> QED BY <1>1, <1>2, <1>3, <1>4, ClaimKinds

(* A claim of this process is backed by a run (claimTask and the finally   *)
(* of processOneTask).                                                     *)
THEOREM ClaimsAreBacked == PoolSpec => []ClaimsBacked
<1>1. PoolInit => ClaimsBacked
  BY DEF PoolInit, ClaimsBacked
<1>2. PoolInv /\ ClaimsBacked /\ [PoolNext]_poolVars => ClaimsBacked'
  BY BackedStep DEF PoolInv
<1> QED BY <1>1, <1>2, PoolInvariant, PTL DEF PoolSpec

(* While no answer clears a live claim, a run holds the claim of its task, *)
(* alone, and a project that is not parallel has one run.  The cached      *)
(* concurrency of such a project is never parallel, so a new run has seen  *)
(* no claim of the project.                                                *)
HeldInv ==
  ~setting.losesClaims =>
    /\ \A r \in runs : claim[r.task] = "held"
    /\ \A r, q \in runs : r.task = q.task => r = q

CacheInv ==
  \A c \in Cycles : \A p \in Projects \ setting.parallel :
    cache[c][p] # "parallel"

SerialInv ==
  ~setting.losesClaims =>
    \A r, q \in runs : /\ ProjectOf(r.task) = ProjectOf(q.task)
                       /\ ProjectOf(r.task) \notin setting.parallel
                       => r = q

LEMMA SerialMode ==
  ASSUME TypeInv, CacheInv, NEW c \in Cycles, NEW p \in Projects \ setting.parallel
  PROVE  Concurrency(c, p) = "serial"
BY DEF TypeInv, CacheInv, Concurrency, ProjectIsParallel

LEMMA HeldStep ==
  ASSUME TypeInv, HeldInv, [PoolNext]_poolVars
  PROVE  HeldInv'
<1>0. UNCHANGED setting
  BY StepKinds DEF StartRun, Settle, ProcessEnds
<1> SUFFICES ASSUME ~setting.losesClaims
             PROVE  /\ \A r \in runs' : claim'[r.task] = "held"
                    /\ \A r, q \in runs' : r.task = q.task => r = q
  BY <1>0 DEF HeldInv
<1>1. CASE ClaimsKept
  BY <1>1, RunTyped DEF HeldInv, ClaimsKept
<1>2. ASSUME NEW c \in Cycles, StartRun(c)
      PROVE  /\ \A r \in runs' : claim'[r.task] = "held"
             /\ \A r, q \in runs' : r.task = q.task => r = q
  <2>1. PICK new : /\ runs' = runs \cup {new}
                   /\ new.task = NextCandidate(c)
                   /\ NextCandidate(c) \in Tasks
                   /\ claim[NextCandidate(c)] = "free"
                   /\ claim' = [claim EXCEPT ![NextCandidate(c)] = "held"]
                   /\ UNCHANGED setting
    BY <1>2, StartRunShape
  <2>2. \A r \in runs : r.task # new.task /\ r.task \in Tasks
    BY <2>1, RunTyped DEF HeldInv
  <2> QED BY <2>1, <2>2 DEF HeldInv, TypeInv
<1>3. ASSUME NEW r \in runs, NEW ok \in BOOLEAN, Settle(r, ok)
      PROVE  /\ \A q \in runs' : claim'[q.task] = "held"
             /\ \A q, s \in runs' : q.task = s.task => q = s
  <2>1. /\ runs' = runs \ {r} /\ r.task \in Tasks
        /\ claim' = [claim EXCEPT ![r.task] = IF @ = "held" THEN "free" ELSE @]
    BY <1>3, RunTyped DEF Settle
  <2>2. \A q \in runs' : q.task # r.task /\ q.task \in Tasks
    BY <2>1, RunTyped DEF HeldInv
  <2> QED BY <2>1, <2>2 DEF HeldInv, TypeInv
<1>4. CASE ProcessEnds
  BY <1>4 DEF ProcessEnds
<1> QED BY <1>1, <1>2, <1>3, <1>4, ClaimKinds

LEMMA SerialStep ==
  ASSUME TypeInv, HeldInv, CacheInv, SerialInv, [PoolNext]_poolVars
  PROVE  SerialInv'
<1>0. UNCHANGED setting
  BY StepKinds DEF StartRun, Settle, ProcessEnds
<1>1. CASE runs' \subseteq runs
  BY <1>0, <1>1 DEF SerialInv, ProjectOf
<1>2. ASSUME NEW c \in Cycles, StartRun(c)
      PROVE  SerialInv'
  <2>1. PICK new : /\ runs' = runs \cup {new}
                   /\ new.task = NextCandidate(c)
                   /\ NextCandidate(c) \in Tasks
                   /\ claim[NextCandidate(c)] = "free"
                   /\ claim' = [claim EXCEPT ![NextCandidate(c)] = "held"]
                   /\ UNCHANGED setting
    BY <1>2, StartRunShape
  <2> DEFINE p == ProjectOf(NextCandidate(c))
  <2>2. CASE p \in setting.parallel
    BY <1>0, <2>1, <2>2 DEF SerialInv, ProjectOf
  <2>3. CASE p \notin setting.parallel /\ ~setting.losesClaims
    <3>1. p \in Projects
      BY <2>1, ProjectTyped DEF TypeInv
    <3>2. Concurrency(c, p) = "serial"
      BY <2>3, <3>1, SerialMode
    <3>3. ~HasActiveLock(p)
      BY <1>2, <3>2 DEF StartRun, ProjectAdmits
    <3>4. \A r \in runs : ProjectOf(r.task) # p
      BY <2>3, <3>3, RunTyped DEF HasActiveLock, TasksOf, HeldInv
    <3> QED BY <1>0, <2>1, <2>3, <3>4 DEF SerialInv, ProjectOf
  <2>4. CASE setting.losesClaims
    BY <1>0, <2>4 DEF SerialInv
  <2> QED BY <2>2, <2>3, <2>4
<1>3. ASSUME NEW r \in runs, NEW ok \in BOOLEAN, Settle(r, ok)
      PROVE  runs' \subseteq runs
  BY <1>3 DEF Settle
<1>4. CASE ProcessEnds
  BY <1>4 DEF ProcessEnds, SerialInv
<1> QED BY <1>1, <1>2, <1>3, <1>4, ClaimKinds DEF ClaimsKept

LEMMA CacheStep ==
  ASSUME TypeInv, CacheInv, [PoolNext]_poolVars
  PROVE  CacheInv'
<1> USE DEF rows, cycle, sems
<1>0. UNCHANGED setting
  BY StepKinds DEF StartRun, Settle, ProcessEnds
<1>1. CASE UNCHANGED cache
  BY <1>0, <1>1 DEF CacheInv
<1>2. ASSUME NEW c \in Cycles, StartCycle(c) \/ CycleStep(c), cache' # cache
      PROVE  CacheInv'
  <2>1. CASE LeaveStage(c)
    <3>1. cache' = [cache EXCEPT ![c] = [p \in Projects |-> "unknown"]]
      BY <1>2, <2>1 DEF LeaveStage
    <3> QED BY <1>0, <3>1 DEF CacheInv, TypeInv
  <2>2. CASE TakeCandidate(c) \/ SemaphoreFull(c)
    <3> DEFINE p == ProjectOf(NextCandidate(c))
    <3>1. cands[c] # {} /\ cache' = [cache EXCEPT ![c][p] = Concurrency(c, p)]
      BY <2>2 DEF TakeCandidate, SemaphoreFull
    <3>2. p \in Projects
      BY <3>1, CandidateTyped
    <3>3. p \notin setting.parallel => Concurrency(c, p) = "serial"
      BY <3>2, SerialMode
    <3> HIDE DEF p
    <3> QED BY <1>0, <3>1, <3>2, <3>3 DEF CacheInv, TypeInv
  <2>3. LeaveStage(c) \/ TakeCandidate(c) \/ SemaphoreFull(c)
    <3>1. ~(QueueCount(c) \/ QueuePick(c) \/ QueueAdvance(c) \/ QueueBlocks(c)
            \/ QueueDone(c) \/ StartCycle(c))
      BY <1>2 DEF QueueCount, QueuePick, QueueAdvance, QueueBlocks, QueueDone, StartCycle
    <3>2. ~EnterStage(c) \/ LeaveStage(c)
      BY <1>2 DEF EnterStage
    <3>3. ~EndOfLoop(c) \/ LeaveStage(c)
      BY <1>2 DEF EndOfLoop
    <3> QED BY <1>2, <3>1, <3>2, <3>3
            DEF CycleStep, SkipCandidate, GateCandidate, StartRun, AllSettled
  <2> QED BY <2>1, <2>2, <2>3
<1>3. ASSUME NEW r \in runs, RunSettles(r) \/ StageTimeout(r) \/ BindBranch(r)
      PROVE  UNCHANGED cache
  BY <1>3 DEF RunSettles, StageTimeout, BindBranch, Settle
<1>4. ASSUME NEW t \in Tasks, ZombieEnds(t) \/ ApiStep(t)
      PROVE  UNCHANGED cache
  BY <1>4 DEF ZombieEnds, ApiStep, HumanStart, AcceptExistingPlan, HumanRetry,
              RequestChanges, TogglePause, LoseClaim
<1>5. CASE ProcessEnds
  <2>1. cache' = [c \in Cycles |-> [p \in Projects |-> "unknown"]]
    BY <1>5 DEF ProcessEnds
  <2> QED BY <1>0, <2>1 DEF CacheInv
<1>6. CASE UNCHANGED poolVars
  BY <1>1, <1>6 DEF poolVars
<1> QED BY <1>1, <1>2, <1>3, <1>4, <1>5, <1>6 DEF PoolNext

(* A project that is not parallel has at most one run, also while cron and *)
(* wake cycles overlap (the guard on other cycles' claims).                *)
THEOREM SerialProjects == PoolSpec => []SerialProject
<1>1. PoolInit => HeldInv /\ CacheInv /\ SerialInv
  BY DEF PoolInit, HeldInv, CacheInv, SerialInv
<1>2. /\ PoolInv /\ HeldInv /\ CacheInv /\ SerialInv /\ [PoolNext]_poolVars
      => HeldInv' /\ CacheInv' /\ SerialInv'
  BY HeldStep, CacheStep, SerialStep DEF PoolInv
<1>3. PoolInv /\ SerialInv => SerialProject
  <2> SUFFICES ASSUME PoolInv, SerialInv, ~setting.losesClaims,
                      NEW p \in Projects \ setting.parallel
               PROVE  Cardinality({r \in runs : ProjectOf(r.task) = p}) <= 1
    BY DEF SerialProject
  <2> DEFINE S == {r \in runs : ProjectOf(r.task) = p}
  <2>1. \A r, q \in S : r = q
    BY DEF SerialInv
  <2>2. CASE S = {}
    BY <2>2, FS_EmptySet
  <2>3. CASE S # {}
    <3>1. PICK r \in S : TRUE
      BY <2>3
    <3>2. S = {r}
      BY <2>1, <3>1
    <3> HIDE DEF S
    <3>3. Cardinality(S) = 1
      BY <3>2, FS_Singleton
    <3> QED BY <3>3 DEF S
  <2> QED BY <2>2, <2>3
<1> QED BY <1>1, <1>2, <1>3, PoolInvariant, PTL DEF PoolSpec

-----------------------------------------------------------------------------
(* The auto-queue.  While a pass works on a project, the pool holds at     *)
(* most what the pass counted and put there and what the API started       *)
(* since; a task is advanced only below the limit.                         *)

DepthInv ==
  /\ queue.phase \in {"pick", "advance"} =>
       PoolCount(queue.project) <= queue.active + queue.foreign
  /\ queue.phase = "advance" => queue.active < queue.limit

Pooled(p) == {t \in TasksOf(p) : status[t] \in Stages \/ IsBlocked(status[t])}

LEMMA PooledFinite ==
  ASSUME NEW p
  PROVE  /\ IsFiniteSet(Pooled(p)) /\ IsFiniteSet(Pooled(p))'
         /\ PoolCount(p) = Cardinality(Pooled(p))
         /\ PoolCount(p)' = Cardinality(Pooled(p)')
         /\ PoolCount(p) \in Nat /\ PoolCount(p)' \in Nat
<1>1. Pooled(p) \in SUBSET Tasks /\ Pooled(p)' \in SUBSET Tasks
  BY DEF Pooled, TasksOf
<1>2. IsFiniteSet(Pooled(p)) /\ IsFiniteSet(Pooled(p)')
  BY <1>1, FS_Subset, PoolAssumption
<1>3. PoolCount(p) = Cardinality(Pooled(p)) /\ PoolCount(p)' = Cardinality(Pooled(p)')
  BY DEF PoolCount, Pooled
<1> QED BY <1>2, <1>3, FS_CardinalityType

(* Writing one row adds at most that task to the pool of its project.      *)
LEMMA PoolGrowth ==
  ASSUME TypeInv, NEW p, NEW t \in Tasks, NEW s,
         status' = [status EXCEPT ![t] = s], UNCHANGED setting
  PROVE  /\ PoolCount(p)' <= PoolCount(p) + 1
         /\ ProjectOf(t) # p => PoolCount(p)' <= PoolCount(p)
         /\ IsBlocked(status[t]) => PoolCount(p)' <= PoolCount(p)
<1>1. \A u \in Tasks : u # t => status'[u] = status[u]
  BY DEF TypeInv
<1>2. Pooled(p)' \subseteq Pooled(p) \cup {t}
  BY <1>1 DEF Pooled, TasksOf, ProjectOf
<1>3. ProjectOf(t) # p \/ IsBlocked(status[t]) => Pooled(p)' \subseteq Pooled(p)
  BY <1>1 DEF Pooled, TasksOf, ProjectOf
<1>4. /\ IsFiniteSet(Pooled(p) \cup {t})
      /\ Cardinality(Pooled(p) \cup {t}) <= PoolCount(p) + 1
  <2>1. IsFiniteSet(Pooled(p)) /\ PoolCount(p) = Cardinality(Pooled(p)) /\ PoolCount(p) \in Nat
    BY PooledFinite
  <2>2. /\ IsFiniteSet(Pooled(p) \cup {t})
        /\ Cardinality(Pooled(p) \cup {t}) =
             IF t \in Pooled(p) THEN Cardinality(Pooled(p)) ELSE Cardinality(Pooled(p)) + 1
    BY <2>1, FS_AddElement
  <2> QED BY <2>1, <2>2
<1>5. PoolCount(p)' <= Cardinality(Pooled(p) \cup {t})
  BY <1>2, <1>4, PooledFinite, FS_Subset
<1>6. Cardinality(Pooled(p) \cup {t}) \in Nat
  BY <1>4, FS_CardinalityType
<1>7. ProjectOf(t) # p \/ IsBlocked(status[t]) => PoolCount(p)' <= PoolCount(p)
  BY <1>3, PooledFinite, FS_Subset
<1> QED BY <1>4, <1>5, <1>6, <1>7, PooledFinite

LEMMA PoolKept ==
  ASSUME NEW p, UNCHANGED <<setting, status>>
  PROVE  PoolCount(p)' = PoolCount(p)
BY DEF PoolCount, TasksOf, ProjectOf

(* The pool as the next state's queue sees it.                             *)
LEMMA PoolPrimed ==
  ASSUME NEW p, queue'.project = p
  PROVE  PoolCount(queue.project)' = PoolCount(p)'
BY DEF PoolCount, TasksOf, ProjectOf

LEMMA EntersDepth ==
  ASSUME TypeInv, DepthInv, NEW t \in Tasks, NEW s \in Stages, Enters(t, s),
         UNCHANGED setting
  PROVE  DepthInv'
<1>0. PICK p : p = queue.project
  OBVIOUS
<1>1. /\ queue.active \in Nat /\ queue.foreign \in Nat /\ queue.limit \in Nat
      /\ PoolCount(p) \in Nat /\ PoolCount(p)' \in Nat
  BY PooledFinite DEF TypeInv, QueueRecords
<1>2. /\ queue'.phase = queue.phase /\ queue'.project = p
      /\ queue'.active = queue.active /\ queue'.limit = queue.limit
      /\ queue'.foreign = IF p = ProjectOf(t) THEN queue.foreign + 1 ELSE queue.foreign
  BY <1>0 DEF Enters, TypeInv, QueueRecords
<1>3. /\ PoolCount(p)' <= PoolCount(p) + 1
      /\ ProjectOf(t) # p => PoolCount(p)' <= PoolCount(p)
  BY PoolGrowth DEF Enters
<1>4. PoolCount(queue.project)' = PoolCount(p)'
  BY <1>2, PoolPrimed
<1>5. queue.phase \in {"pick", "advance"} => PoolCount(p) <= queue.active + queue.foreign
  BY <1>0 DEF DepthInv
<1>6. queue.phase \in {"pick", "advance"} => PoolCount(p)' <= queue'.active + queue'.foreign
  BY <1>1, <1>2, <1>3, <1>5
<1> QED BY <1>2, <1>4, <1>6 DEF DepthInv

(* An advance puts one task on top of what was counted.                    *)
LEMMA AdvanceDepth ==
  ASSUME TypeInv, QueueInv, DepthInv, NEW c \in Cycles, QueueAdvance(c)
  PROVE  /\ DepthInv'
         /\ status' # status =>
              PoolCount(queue.project)' <= queue.limit + queue.foreign
<1>0. PICK p : p = queue.project
  OBVIOUS
<1>1. /\ queue.active \in Nat /\ queue.foreign \in Nat /\ queue.limit \in Nat
      /\ PoolCount(p) \in Nat /\ PoolCount(p)' \in Nat
  BY PooledFinite DEF TypeInv, QueueRecords
<1>2. /\ queue.phase = "advance" /\ queue.next \in Tasks /\ UNCHANGED setting
      /\ PoolCount(p) <= queue.active + queue.foreign /\ queue.active < queue.limit
  BY <1>0 DEF QueueAdvance, QueueInv, DepthInv
<1>3. CASE /\ status' = [status EXCEPT ![queue.next] = 1]
           /\ queue' = [queue EXCEPT !.phase = "pick", !.active = @ + 1]
  <2>1. /\ queue'.phase = "pick" /\ queue'.project = p
        /\ queue'.active = queue.active + 1 /\ queue'.foreign = queue.foreign
    BY <1>0, <1>3 DEF TypeInv, QueueRecords
  <2>2. PoolCount(p)' <= PoolCount(p) + 1
    BY <1>2, <1>3, PoolGrowth
  <2>3. PoolCount(queue.project)' = PoolCount(p)'
    BY <2>1, PoolPrimed
  <2> QED BY <1>1, <1>2, <2>1, <2>2, <2>3 DEF DepthInv
<1>4. CASE /\ queue' = [queue EXCEPT !.phase = "pick", !.foreign = 0, !.active = PoolCount(p)]
           /\ UNCHANGED status
  <2>1. /\ queue'.phase = "pick" /\ queue'.project = p
        /\ queue'.active = PoolCount(p) /\ queue'.foreign = 0
    BY <1>0, <1>4 DEF TypeInv, QueueRecords
  <2>2. PoolCount(p)' = PoolCount(p)
    BY <1>2, <1>4, PoolKept
  <2>3. PoolCount(queue.project)' = PoolCount(p)'
    BY <2>1, PoolPrimed
  <2> QED BY <1>1, <1>4, <2>1, <2>2, <2>3 DEF DepthInv
<1> QED BY <1>0, <1>3, <1>4 DEF QueueAdvance

LEMMA QueueIdleDepth ==
  ASSUME queue'.phase \notin {"pick", "advance"}
  PROVE  DepthInv'
BY DEF DepthInv

LEMMA DepthStep ==
  ASSUME TypeInv, QueueInv, DepthInv, [PoolNext]_poolVars
  PROVE  DepthInv'
<1> USE DEF rows, cycle, sems
<1>1. ASSUME NEW c \in Cycles, StartCycle(c) \/ CycleStep(c)
      PROVE  DepthInv'
  <2>1. CASE StartCycle(c) \/ QueueDone(c) \/ QueueBlocks(c)
    <3>1. queue'.phase \notin {"pick", "advance"}
      <4>1. CASE StartCycle(c)
        BY <4>1 DEF StartCycle, QueueOff
      <4>2. CASE QueueDone(c)
        BY <4>2 DEF QueueDone, QueueOff
      <4>3. CASE QueueBlocks(c)
        BY <4>3 DEF QueueBlocks, QueueTurnEnds, QueueOff
      <4> QED BY <2>1, <4>1, <4>2, <4>3
    <3> QED BY <3>1, QueueIdleDepth
  <2>2. CASE QueueCount(c)
    <3>1. PICK p \in queue.todo :
            \/ queue' = [queue EXCEPT !.todo = @ \ {p}]
            \/ /\ PoolCount(p) < PoolLimit(p)
               /\ queue' = [queue EXCEPT !.phase = "pick", !.project = p,
                               !.active = PoolCount(p), !.limit = PoolLimit(p),
                               !.foreign = 0]
      BY <2>2 DEF QueueCount
    <3>2. CASE queue' = [queue EXCEPT !.todo = @ \ {p}]
      <4>1. queue'.phase = "count"
        BY <2>2, <3>2 DEF QueueCount, TypeInv, QueueRecords
      <4> QED BY <4>1, QueueIdleDepth
    <3>3. CASE queue' = [queue EXCEPT !.phase = "pick", !.project = p,
                            !.active = PoolCount(p), !.limit = PoolLimit(p),
                            !.foreign = 0]
      <4>1. /\ queue'.phase = "pick" /\ queue'.project = p
            /\ queue'.active = PoolCount(p) /\ queue'.foreign = 0
        BY <3>3 DEF TypeInv, QueueRecords
      <4>2. PoolCount(p)' = PoolCount(p) /\ PoolCount(p) \in Nat
        BY <2>2, PoolKept, PooledFinite DEF QueueCount
      <4>3. PoolCount(queue.project)' = PoolCount(p)'
        BY <4>1, PoolPrimed
      <4> QED BY <4>1, <4>2, <4>3 DEF DepthInv
    <3> QED BY <3>1, <3>2, <3>3
  <2>3. CASE QueuePick(c)
    <3>1. CASE QueueTurnEnds
      BY <3>1, QueueIdleDepth DEF QueueTurnEnds, QueueOff
    <3>2. CASE ~QueueTurnEnds
      <4>1. PICK next : queue' = [queue EXCEPT !.phase = "advance", !.next = next]
        BY <2>3, <3>2 DEF QueuePick
      <4>2. queue.active < queue.limit /\ queue.phase = "pick" /\ UNCHANGED <<setting, status>>
        BY <2>3, <3>2 DEF QueuePick
      <4>3. /\ queue'.project = queue.project /\ queue'.limit = queue.limit
            /\ queue'.active = queue.active /\ queue'.foreign = queue.foreign
        BY <4>1 DEF TypeInv, QueueRecords
      <4>4. PoolCount(queue.project)' = PoolCount(queue.project)
        BY <4>2, <4>3 DEF PoolCount, TasksOf, ProjectOf
      <4> QED BY <4>2, <4>3, <4>4 DEF DepthInv
    <3> QED BY <3>1, <3>2
  <2>4. CASE QueueAdvance(c)
    BY <2>4, AdvanceDepth
  <2>5. CASE \/ EnterStage(c) \/ SkipCandidate(c) \/ GateCandidate(c) \/ StartRun(c)
             \/ SemaphoreFull(c) \/ EndOfLoop(c) \/ AllSettled(c)
    <3>1. (thread = c /\ at[c] \in {"enter", "loop"}) \/ thread = None
      BY <2>5 DEF EnterStage, SkipCandidate, GateCandidate, StartRun, SemaphoreFull,
             EndOfLoop, AllSettled, TakeCandidate
    <3>2. UNCHANGED queue
      BY <2>5 DEF EnterStage, SkipCandidate, GateCandidate, StartRun, SemaphoreFull,
             EndOfLoop, AllSettled
    <3>3. queue'.phase = "off"
      BY <3>1, <3>2, PoolAssumption DEF QueueInv
    <3> QED BY <3>3, QueueIdleDepth
  <2> QED BY <1>1, <2>1, <2>2, <2>3, <2>4, <2>5 DEF CycleStep
<1>2. ASSUME NEW r \in runs, RunSettles(r) \/ StageTimeout(r) \/ BindBranch(r)
      PROVE  DepthInv'
  <2>1. thread = None /\ UNCHANGED queue
    BY <1>2 DEF RunSettles, StageTimeout, BindBranch, Settle
  <2>2. queue'.phase = "off"
    BY <2>1, PoolAssumption DEF QueueInv
  <2> QED BY <2>2, QueueIdleDepth
<1>3. ASSUME NEW t \in Tasks, ZombieEnds(t) \/ ApiStep(t)
      PROVE  DepthInv'
  <2>1. CASE ZombieEnds(t)
    <3>1. queue'.phase = "off"
      BY <2>1, PoolAssumption DEF ZombieEnds, QueueInv
    <3> QED BY <3>1, QueueIdleDepth
  <2>2. CASE HumanStart(t) \/ RequestChanges(t)
    BY <2>2, EntersDepth, StatusFacts DEF HumanStart, RequestChanges
  <2>3. CASE AcceptExistingPlan(t)
    BY <2>3, EntersDepth DEF AcceptExistingPlan
  <2>4. CASE HumanRetry(t)
    <3>0. PICK p : p = queue.project
      OBVIOUS
    <3>1. UNCHANGED <<setting, queue>> /\ IsBlocked(status[t])
          /\ status' = [status EXCEPT ![t] = Origin(status[t])]
      BY <2>4 DEF HumanRetry
    <3>2. PoolCount(p)' <= PoolCount(p)
      BY <3>1, PoolGrowth
    <3>3. PoolCount(p) \in Nat /\ PoolCount(p)' \in Nat
          /\ queue.active \in Nat /\ queue.foreign \in Nat
      BY PooledFinite DEF TypeInv, QueueRecords
    <3>4. PoolCount(queue.project)' = PoolCount(p)'
      BY <3>0, <3>1, PoolPrimed
    <3> QED BY <3>0, <3>1, <3>2, <3>3, <3>4 DEF DepthInv
  <2>5. CASE TogglePause(t) \/ LoseClaim(t)
    <3>1. UNCHANGED <<setting, status, queue>>
      BY <2>5 DEF TogglePause, LoseClaim
    <3>2. PoolCount(queue.project)' = PoolCount(queue.project)
      BY <3>1 DEF PoolCount, TasksOf, ProjectOf
    <3> QED BY <3>1, <3>2 DEF DepthInv
  <2> QED BY <1>3, <2>1, <2>2, <2>3, <2>4, <2>5 DEF ApiStep
<1>4. CASE ProcessEnds
  BY <1>4, QueueIdleDepth DEF ProcessEnds, QueueOff
<1>5. CASE UNCHANGED poolVars
  <2>1. UNCHANGED <<setting, status, queue>>
    BY <1>5 DEF poolVars
  <2>2. PoolCount(queue.project)' = PoolCount(queue.project)
    BY <2>1 DEF PoolCount, TasksOf, ProjectOf
  <2> QED BY <2>1, <2>2 DEF DepthInv
<1> QED BY <1>1, <1>2, <1>3, <1>4, <1>5 DEF PoolNext

(* The auto-queue fills a project's pool to its depth and no further, up   *)
(* to what the API starts while the pass runs (processAutoQueueAdvance).   *)
THEOREM QueueDepthHolds == PoolSpec => QueueDepth
<1>1. PoolInit => DepthInv
  BY DEF PoolInit, QueueOff, DepthInv
<1>2. PoolInv /\ DepthInv /\ [PoolNext]_poolVars => DepthInv'
  BY DepthStep DEF PoolInv
<1>3. PoolInv /\ DepthInv => [\A c \in Cycles : QueueAdvance(c) /\ status' # status =>
        PoolCount(queue.project)' <= queue.limit + queue.foreign]_poolVars
  BY AdvanceDepth DEF PoolInv
<1> QED BY <1>1, <1>2, <1>3, PoolInvariant, PTL DEF PoolSpec, QueueDepth
=============================================================================
