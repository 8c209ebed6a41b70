-------------------------- MODULE MCCoordinatorPool --------------------------
(***************************************************************************)
(* TLC instances of CoordinatorPool: two tasks, a cron and a wake cycle,   *)
(* two stages, and settings that make each cap bind.                       *)
(***************************************************************************)
EXTENDS CoordinatorPool, TLC

CONSTANTS t1, t2, p1, p2, k1

InOrder     == (t1 :> 1) @@ (t2 :> 2)
Together    == (t1 :> p1) @@ (t2 :> p1)
Apart       == (t1 :> p1) @@ (t2 :> p2)
StageCaps   == (k1 :> <<1, 2>>)   \* a cap for each of the two stages

Parallel(due) ==
  [globalMax |-> 2, projectOf |-> Together, parallel |-> {p1},
   autoQueue |-> {p1}, shared |-> {}, losesClaims |-> FALSE,
   scheduled |-> due, pausable |-> {}]
Serial ==
  [Parallel({}) EXCEPT !.parallel = {}, !.shared = {p1}, !.pausable = {t1}]
Crowded ==
  [Parallel({}) EXCEPT !.globalMax = 1, !.projectOf = Apart,
                       !.losesClaims = TRUE]

(* The profile's cap, one run per project, and the global cap.             *)
AllSettings == {Parallel({t1}), Serial, Crowded}
ParallelSetting == {Parallel({})}

(* pollAndProcess: legacy branch-bound tasks without worktreePath mutate   *)
(* one shared projectRoot, so those projects stay serial until the legacy  *)
(* task drains.  So no run starts beside another one of such a project.    *)
StaysSerial ==
  [][\A c \in Cycles : StartRun(c) =>
       LET p == ProjectOf(NextCandidate(c))
       IN  HasBranchBound(p) => ~HasActiveLock(p)]_poolVars
=============================================================================
