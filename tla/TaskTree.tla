------------------------------ MODULE TaskTree ------------------------------
(***************************************************************************)
(* The task hierarchy: parents, roots and depths as the row store keeps    *)
(* them, containers, and the roll-up of the children's statuses into the   *)
(* status of their container (packages/data, the hierarchy part).          *)
(*                                                                         *)
(* A status is the class that the roll-up tells apart; "released" is a     *)
(* blocked audit whose report artifact is ready for release.  All tasks    *)
(* are of one project.  Each call of the store is one step.                *)
(***************************************************************************)
EXTENDS Naturals, FiniteSets

CONSTANTS
  Tasks,                     \* ids
  NoTask,
  SynthesisTasks,            \* tasks that are the synthesis of a roadmap batch
  Policies,                  \* closeout policies the instance has
  MAX_TASK_HIERARCHY_DEPTH

ASSUME TreeAssumption ==
  /\ NoTask \notin Tasks /\ SynthesisTasks \subseteq Tasks
  /\ Policies \subseteq {"all_children_done", "all_children_verified",
                         "synthesis_child_verified"}
  /\ "all_children_verified" \in Policies
  /\ MAX_TASK_HIERARCHY_DEPTH = 2

VARIABLES
  live,       \* tasks that exist
  parent,     \* parentTaskId
  root,       \* rootTaskId
  depth,      \* hierarchyDepth
  container,  \* tasks with hierarchyRole = container
  policy,     \* parentCloseoutPolicy of a container
  tStatus,    \* status, as a class
  late,       \* tasks whose run was under way when they became containers
  direct      \* history: containers whose status or policy was last written
              \* by something other than a roll-up

treeVars == <<live, parent, root, depth, container, policy, tStatus, late,
              direct>>

TreeInit ==
  /\ live = {} /\ container = {} /\ late = {} /\ direct = {}
  /\ parent = [t \in Tasks |-> NoTask]
  /\ root = [t \in Tasks |-> NoTask]
  /\ depth = [t \in Tasks |-> 0]
  /\ policy = [t \in Tasks |-> "all_children_verified"]
  /\ tStatus = [t \in Tasks |-> "backlog"]

-----------------------------------------------------------------------------
(* The tree that a parent function gives.  No task is deeper than 2.       *)

ChildrenIn(par, t) == {c \in live' : par[c] = t}

Up(par, t) == IF t = NoTask THEN NoTask ELSE par[t]

(* collectDescendantRows, isTaskDescendant                                 *)
Below(t) ==
  {d \in live : parent[d] = t \/ Up(parent, parent[d]) = t}

RootOr(t) == IF root[t] = NoTask THEN t ELSE root[t]

-----------------------------------------------------------------------------
(* computeParentRollupStatus and refreshParentRollup, over the new rows    *)

SynthesisDone(children, st) ==
  \E s \in SynthesisTasks :
    children \cap SynthesisTasks = {s} /\ st[s] = "verified"

Rollup(t, children, st, pol) ==
  CASE children = {} -> IF st[t] = "verified" THEN "verified" ELSE "backlog"
    [] \E c \in children : st[c] = "blocked" -> "blocked"
    [] (\A c \in children : st[c] # "blocked")
         /\ (\E c \in children : st[c] = "active") -> "active"
    [] OTHER ->
         IF \/ /\ pol = "all_children_done"
               /\ \A c \in children : st[c] \in {"done", "verified"}
            \/ /\ pol = "all_children_verified"
               /\ \A c \in children : st[c] = "verified"
            \/ pol = "synthesis_child_verified" /\ SynthesisDone(children, st)
         THEN "done" ELSE "backlog"

Refreshes(t, st) == t \in container' /\ st[t] # "verified"

Refresh(t, par, st) ==
  IF t # NoTask /\ Refreshes(t, st)
  THEN [st EXCEPT ![t] = Rollup(t, ChildrenIn(par, t), st, policy'[t])]
  ELSE st

(* refreshAncestorRollups of a child of t: t and what is above it.         *)
RefreshFrom(t, par, st) ==
  Refresh(Up(par, Up(par, t)), par, Refresh(Up(par, t), par, Refresh(t, par, st)))

RefreshedFrom(ts, par, st) ==
  {u \in Tasks : /\ Refreshes(u, st)
                 /\ \E t \in ts : u \in {t, Up(par, t), Up(par, Up(par, t))}}

-----------------------------------------------------------------------------
(* promoteParentToContainer                                                *)
Promoted(p) == IF p = NoTask THEN container ELSE container \cup {p}

Interrupted(p) ==
  IF p # NoTask /\ p \notin container /\ tStatus[p] = "active"
  THEN late \cup {p} ELSE late

(* createTask: the row, then the parent's promotion and its roll-up        *)
CreateTask(t, p) ==
  /\ t \notin live /\ p \in live \cup {NoTask}
  /\ p # NoTask => depth[p] < MAX_TASK_HIERARCHY_DEPTH
  /\ live' = live \cup {t}
  /\ parent' = [parent EXCEPT ![t] = p]
  /\ root' = [root EXCEPT ![t] = IF p = NoTask THEN NoTask ELSE RootOr(p)]
  /\ depth' = [depth EXCEPT ![t] = IF p = NoTask THEN 0 ELSE depth[p] + 1]
  /\ \/ container' = Promoted(p)
          /\ policy' = [policy EXCEPT ![t] = "all_children_verified"]
     \/ /\ container' = Promoted(p) \cup {t}
        /\ \E pol \in Policies : policy' = [policy EXCEPT ![t] = pol]
  /\ late' = Interrupted(p)
  /\ LET st == [tStatus EXCEPT ![t] = "backlog"]
     IN  /\ tStatus' = RefreshFrom(p, parent', st)
         /\ direct' = direct \ RefreshedFrom({p}, parent', st)

(* resolveUpdateHierarchy, then updateTask: the row, the new parent's      *)
(* promotion, the descendants' root and depth, both parents' roll-ups.     *)
MutNoShift(t, delta) == {}

Shifted(t, delta) == IF delta = 0 THEN {} ELSE Below(t)

MoveAllowed(t, p) ==
  /\ p \notin Below(t) \cup {t}
  /\ LET new == IF p = NoTask THEN 0 ELSE depth[p] + 1
     IN  \A d \in Below(t) \cup {t} :
           depth[d] + new <= MAX_TASK_HIERARCHY_DEPTH + depth[t]

MutRefreshNewOnly(t, p, st) == RefreshFrom(p, parent', st)

RefreshBoth(t, p, st) ==
  RefreshFrom(p, parent', RefreshFrom(parent[t], parent', st))

MoveTask(t, p) ==
  /\ t \in live /\ p \in live \cup {NoTask}
  /\ MoveAllowed(t, p)
  /\ LET new == IF p = NoTask THEN 0 ELSE depth[p] + 1
         top == IF p = NoTask THEN t ELSE RootOr(p)
         shifted == Shifted(t, IF new = depth[t] THEN 0 ELSE 1)
     IN  /\ parent' = [parent EXCEPT ![t] = p]
         /\ root' = [d \in Tasks |->
              CASE d = t -> IF p = NoTask THEN NoTask ELSE top
                [] d \in shifted -> top
                [] OTHER -> root[d]]
         /\ depth' = [d \in Tasks |->
              CASE d = t -> new
                [] d \in shifted -> depth[d] + new - depth[t]
                [] OTHER -> depth[d]]
  /\ container' = Promoted(p) /\ late' = Interrupted(p)
  /\ UNCHANGED <<live, policy>>
  /\ tStatus' = RefreshBoth(t, p, tStatus)
  /\ direct' = (direct \cup (container' \ container))
                 \ RefreshedFrom({parent[t], p}, parent', tStatus)

(* updateTask of the role and the policy.  The row's own roll-up is not    *)
(* refreshed, its ancestors' are.                                          *)
SetRole(t) ==
  /\ t \in live
  /\ UNCHANGED <<live, parent, root, depth>>
  /\ \/ /\ t \in container /\ {c \in live : parent[c] = t} = {}
        /\ container' = container \ {t}
        /\ policy' = [policy EXCEPT ![t] = "all_children_verified"]
        /\ direct' = direct \ {t} /\ late' = late \ {t}
     \/ /\ container' = container \cup {t}
        /\ \E pol \in Policies : policy' = [policy EXCEPT ![t] = pol]
        /\ direct' = direct \cup {t} /\ late' = Interrupted(t)
  /\ tStatus' = RefreshFrom(parent[t], parent, tStatus)

(* deleteTask of a leaf that no open parent needs                          *)
DeleteTask(t) ==
  /\ t \in live /\ {c \in live : parent[c] = t} = {}
  /\ parent[t] \in live => tStatus[parent[t]] \in {"done", "verified"}
  /\ live' = live \ {t}
  /\ container' = container \ {t} /\ late' = late \ {t}
  /\ parent' = [parent EXCEPT ![t] = NoTask]
  /\ root' = [root EXCEPT ![t] = NoTask]
  /\ depth' = [depth EXCEPT ![t] = 0]
  /\ policy' = [policy EXCEPT ![t] = "all_children_verified"]
  /\ LET st == [tStatus EXCEPT ![t] = "backlog"]
     IN  /\ tStatus' = RefreshFrom(parent[t], parent', st)
         /\ direct' = direct \ (RefreshedFrom({parent[t]}, parent', st) \cup {t})

(* setTaskFields of a task: its own status, then its ancestors' roll-ups.  *)
AncestorsRefreshed(t, st) == RefreshFrom(parent[t], parent, st)

Lifecycle(from) ==
  CASE from = "backlog" -> {"active"}
    [] from = "active" -> {"blocked", "released", "done"}
    [] from \in {"blocked", "released"} -> {"active"}
    [] from = "done" -> {"active", "verified"}
    [] OTHER -> {}

WriteStatus(t, st) ==
  /\ UNCHANGED <<live, parent, root, depth, container, policy>>
  /\ tStatus' = AncestorsRefreshed(t, [tStatus EXCEPT ![t] = st])
  /\ direct' = (IF t \in container THEN direct \cup {t} ELSE direct)
                 \ RefreshedFrom({parent[t]}, parent, tStatus)

ExecutableMoves(t) ==
  /\ t \in live \ container /\ UNCHANGED late
  /\ \E st \in Lifecycle(tStatus[t]) : WriteStatus(t, st)

(* The events a container takes: approve_done, request_changes and         *)
(* cancel_task; the ones that start a runtime are refused.  approve_done   *)
(* of an unsatisfied container needs evidence of its own, a choice here.   *)
ContainerEvent(t) ==
  /\ t \in live \cap container /\ UNCHANGED late
  /\ \/ tStatus[t] = "done"
          /\ (WriteStatus(t, "verified") \/ WriteStatus(t, "active"))
     \/ tStatus[t] \notin {"done", "verified"} /\ WriteStatus(t, "blocked")

(* A run that was under way when its task became a container: its handoff  *)
(* does not look at the role.                                              *)
LateHandoff(t) ==
  /\ t \in late /\ late' = late \ {t}
  /\ \E st \in Lifecycle("active") : WriteStatus(t, st)

TreeNext ==
  \E t \in Tasks :
    \/ \E p \in Tasks \cup {NoTask} : CreateTask(t, p) \/ MoveTask(t, p)
    \/ SetRole(t) \/ DeleteTask(t)
    \/ ExecutableMoves(t) \/ ContainerEvent(t) \/ LateHandoff(t)

TreeSpec == TreeInit /\ [][TreeNext]_treeVars

-----------------------------------------------------------------------------
(* Properties                                                              *)

(* Parents are containers that exist, a task is one level below its parent *)
(* and none is deeper than the limit, so no chain of parents is a cycle:   *)
(* what create, move with a whole subtree, role change and delete keep.    *)
TreeSound ==
  \A t \in live :
    /\ depth[t] \in 0 .. MAX_TASK_HIERARCHY_DEPTH
    /\ IF parent[t] = NoTask THEN depth[t] = 0
       ELSE /\ parent[t] \in live \cap container
            /\ depth[t] = depth[parent[t]] + 1

(* A container that nobody wrote since its last roll-up shows the roll-up  *)
(* of its children as they are now: every write of a child, move, creation *)
(* and deletion reaches all the ancestors it concerns, grandparents and    *)
(* the former parent included.                                             *)
RollupCurrent ==
  \A t \in container \ direct :
    tStatus[t] # "verified" =>
      tStatus[t] = Rollup(t, {c \in live : parent[c] = t}, tStatus, policy[t])
=============================================================================
