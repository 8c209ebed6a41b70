-------------------------- MODULE TaskTree_proofs ---------------------------
(***************************************************************************)
(* Proofs about the task hierarchy, for any set of tasks and any closeout  *)
(* policies.                                                               *)
(***************************************************************************)
EXTENDS TaskTree, TLAPS

TStates == {"backlog", "active", "blocked", "released", "done", "verified"}

TreeTypes ==
  /\ live \subseteq Tasks /\ container \subseteq live /\ late \subseteq live
  /\ parent \in [Tasks -> Tasks \cup {NoTask}]
  /\ depth \in [Tasks -> Nat]
  /\ policy \in [Tasks -> Policies]
  /\ tStatus \in [Tasks -> TStates]

-----------------------------------------------------------------------------
(* The shape of the tree.                                                  *)

(* A child's facts, in a tree that is sound.                               *)
LEMMA ChildFacts ==
  ASSUME TreeTypes, TreeSound, NEW d \in live
  PROVE  /\ depth[d] \in 0 .. 2
         /\ parent[d] = NoTask => depth[d] = 0
         /\ parent[d] # NoTask =>
              /\ parent[d] \in live /\ parent[d] \in container
              /\ parent[d] \in Tasks /\ depth[d] = depth[parent[d]] + 1
BY TreeAssumption DEF TreeSound, TreeTypes

(* What is below a task is closed: it holds the tasks whose parent it      *)
(* holds, and they are deeper.                                             *)
LEMMA BelowClosed ==
  ASSUME TreeTypes, TreeSound, NEW t \in live
  PROVE  /\ \A d \in Below(t) : /\ d \in live /\ depth[d] > depth[t]
                                /\ parent[d] \in Below(t) \cup {t}
         /\ \A d \in live : parent[d] \in Below(t) \cup {t} => d \in Below(t)
         /\ t \notin Below(t)
<1>0. t \in Tasks /\ t # NoTask /\ depth[t] \in 0 .. 2
  BY TreeAssumption, ChildFacts DEF TreeTypes
<1>1. ASSUME NEW d \in Below(t)
      PROVE  /\ d \in live /\ depth[d] > depth[t]
             /\ parent[d] \in Below(t) \cup {t}
  <2>1. d \in live /\ (parent[d] = t \/ Up(parent, parent[d]) = t)
    BY DEF Below
  <2>2. CASE parent[d] = t
    BY <1>0, <2>1, <2>2, ChildFacts
  <2>3. CASE parent[d] # t
    <3>1. parent[d] # NoTask /\ parent[parent[d]] = t
      BY <1>0, <2>1, <2>3 DEF Up
    <3>2. parent[d] \in live /\ depth[d] = depth[parent[d]] + 1
      BY <2>1, <3>1, ChildFacts
    <3>3. depth[parent[d]] = depth[t] + 1 /\ depth[parent[d]] \in 0 .. 2
      BY <1>0, <3>1, <3>2, ChildFacts
    <3>4. parent[d] \in Below(t)
      BY <3>1, <3>2 DEF Below
    <3> QED BY <1>0, <2>1, <3>2, <3>3, <3>4
  <2> QED BY <2>2, <2>3
<1>2. ASSUME NEW d \in live, parent[d] \in Below(t) \cup {t}
      PROVE  d \in Below(t)
  <2>1. CASE parent[d] = t
    BY <2>1 DEF Below
  <2>2. CASE parent[d] \in Below(t) /\ parent[parent[d]] = t
    <3>1. parent[d] # NoTask
      BY <2>2, TreeAssumption DEF Below, TreeTypes
    <3> QED BY <2>2, <3>1 DEF Below, Up
  <2>3. CASE parent[d] \in Below(t) /\ parent[parent[d]] # t
    <3> DEFINE e == parent[d]
               f == parent[e]
    <3>1. e \in live /\ Up(parent, f) = t
      BY <2>3 DEF Below
    <3>2. f # NoTask /\ parent[f] = t
      BY <1>0, <3>1 DEF Up
    <3>3. f \in live /\ depth[e] = depth[f] + 1
      BY <3>1, <3>2, ChildFacts
    <3>4. depth[f] = depth[t] + 1 /\ depth[f] \in 0 .. 2
      BY <1>0, <3>2, <3>3, ChildFacts
    <3>5. e # NoTask
      BY <3>1, TreeAssumption DEF TreeTypes
    <3>6. depth[d] = depth[e] + 1 /\ depth[d] \in 0 .. 2
      BY <3>5, ChildFacts
    <3> HIDE DEF e, f
    <3> QED BY <1>0, <3>3, <3>4, <3>6
  <2> QED BY <1>2, <2>1, <2>2, <2>3
<1>3. t \notin Below(t)
  BY <1>0, <1>1
<1> QED BY <1>1, <1>2, <1>3

LEMMA CreateSound ==
  ASSUME TreeTypes, TreeSound, NEW t \in Tasks, NEW p \in Tasks \cup {NoTask},
         CreateTask(t, p)
  PROVE  TreeSound'
<1>0. /\ t \notin live /\ p \in live \cup {NoTask} /\ live' = live \cup {t}
      /\ (p # NoTask => depth[p] < 2)
      /\ parent' = [parent EXCEPT ![t] = p]
      /\ depth' = [depth EXCEPT ![t] = IF p = NoTask THEN 0 ELSE depth[p] + 1]
      /\ Promoted(p) \subseteq container'
  BY TreeAssumption DEF CreateTask
<1>1. ASSUME NEW d \in live', d = t
      PROVE  /\ depth'[d] \in 0 .. 2
             /\ IF parent'[d] = NoTask THEN depth'[d] = 0
                ELSE /\ parent'[d] \in live' \cap container'
                     /\ depth'[d] = depth'[parent'[d]] + 1
  <2>1. parent'[t] = p /\ depth'[t] = IF p = NoTask THEN 0 ELSE depth[p] + 1
    BY <1>0 DEF TreeTypes
  <2>2. CASE p = NoTask
    BY <1>1, <2>1, <2>2
  <2>3. CASE p # NoTask
    <3>1. p \in live /\ p # t /\ depth'[p] = depth[p] /\ depth[p] \in 0 .. 2
      BY <1>0, <2>3, ChildFacts DEF TreeTypes
    <3>2. p \in container'
      BY <1>0, <2>3 DEF Promoted
    <3> QED BY <1>0, <1>1, <2>1, <2>3, <3>1, <3>2
  <2> QED BY <2>2, <2>3
<1>2. ASSUME NEW d \in live', d # t
      PROVE  /\ depth'[d] \in 0 .. 2
             /\ IF parent'[d] = NoTask THEN depth'[d] = 0
                ELSE /\ parent'[d] \in live' \cap container'
                     /\ depth'[d] = depth'[parent'[d]] + 1
  <2>1. d \in live /\ parent'[d] = parent[d] /\ depth'[d] = depth[d]
    BY <1>0, <1>2 DEF TreeTypes
  <2>2. parent[d] # NoTask => parent[d] # t /\ depth'[parent[d]] = depth[parent[d]]
    BY <1>0, <2>1, ChildFacts DEF TreeTypes
  <2>3. container \subseteq container'
    BY <1>0 DEF Promoted
  <2> QED BY <1>0, <2>1, <2>2, <2>3, ChildFacts
<1> QED BY <1>1, <1>2, TreeAssumption DEF TreeSound

LEMMA MoveSound ==
  ASSUME TreeTypes, TreeSound, NEW t \in Tasks, NEW p \in Tasks \cup {NoTask},
         MoveTask(t, p)
  PROVE  TreeSound' /\ depth' \in [Tasks -> Nat]
<1> DEFINE new == IF p = NoTask THEN 0 ELSE depth[p] + 1
           moved == Below(t) \cup {t}
<1>0. /\ t \in live /\ p \in live \cup {NoTask} /\ UNCHANGED live
      /\ p \notin moved
      /\ \A d \in moved : depth[d] + new <= 2 + depth[t]
      /\ parent' = [parent EXCEPT ![t] = p]
      /\ container' = Promoted(p)
  BY TreeAssumption DEF MoveTask, MoveAllowed
<1>1. new \in Nat /\ t # NoTask /\ depth[t] \in 0 .. 2
  BY <1>0, TreeAssumption, ChildFacts DEF TreeTypes
<1>2. \A d \in Tasks : depth'[d] = IF d \in moved THEN depth[d] + new - depth[t] ELSE depth[d]
  <2> DEFINE shifted == Shifted(t, IF new = depth[t] THEN 0 ELSE 1)
  <2>1. depth' = [d \in Tasks |->
              CASE d = t -> new
                [] d \in shifted -> depth[d] + new - depth[t]
                [] OTHER -> depth[d]]
    BY DEF MoveTask
  <2>2. shifted = IF new = depth[t] THEN {} ELSE Below(t)
    BY DEF Shifted
  <2>3. t \notin Below(t) /\ \A d \in Tasks : depth[d] \in Nat
    BY <1>0, BelowClosed DEF TreeTypes
  <2> HIDE DEF new, shifted
  <2>4. ASSUME NEW d \in Tasks
        PROVE  depth'[d] = IF d \in moved THEN depth[d] + new - depth[t] ELSE depth[d]
    <3>1. CASE d = t
      BY <1>1, <2>1, <2>3, <3>1
    <3>2. CASE d # t /\ d \in Below(t)
      BY <1>1, <2>1, <2>2, <2>3, <3>2
    <3>3. CASE d # t /\ d \notin Below(t)
      BY <2>1, <2>2, <3>3
    <3> QED BY <3>1, <3>2, <3>3
  <2> QED BY <2>4
<1>3. \A d \in moved : d \in live /\ depth[d] \in 0 .. 2 /\ depth[d] >= depth[t]
  BY <1>0, <1>1, BelowClosed, ChildFacts
<1>4. \A d \in moved : depth[d] + new - depth[t] \in 0 .. 2
  <2> HIDE DEF new, moved
  <2> QED BY <1>0, <1>1, <1>3
<1>5. depth' \in [Tasks -> Nat]
  <2>1. \A d \in Tasks : depth'[d] \in Nat
    <3> HIDE DEF new, moved
    <3> QED BY <1>2, <1>4 DEF TreeTypes
  <2>2. DOMAIN depth' = Tasks /\ depth' = [d \in Tasks |-> depth'[d]]
    BY DEF MoveTask
  <2> QED BY <2>1, <2>2
<1>6. ASSUME NEW d \in live
      PROVE  /\ depth'[d] \in 0 .. 2
             /\ IF parent'[d] = NoTask THEN depth'[d] = 0
                ELSE /\ parent'[d] \in live \cap container'
                     /\ depth'[d] = depth'[parent'[d]] + 1
  <2>0. d \in Tasks /\ parent'[d] = (IF d = t THEN p ELSE parent[d])
    BY <1>0 DEF TreeTypes
  <2>1. CASE d = t
    <3>1. depth'[d] = new /\ new \in 0 .. 2
      <4> HIDE DEF new
      <4> QED BY <1>1, <1>2, <1>4, <2>1
    <3>2. CASE p = NoTask
      BY <2>0, <2>1, <3>1, <3>2
    <3>3. CASE p # NoTask
      <4>1. p \in live /\ p \in Tasks /\ p \in container' /\ depth'[p] = depth[p]
        BY <1>0, <1>2, <3>3 DEF Promoted, TreeTypes
      <4> QED BY <2>0, <2>1, <3>1, <3>3, <4>1
    <3> QED BY <3>2, <3>3
  <2>2. CASE d # t /\ d \in Below(t)
    <3>1. depth'[d] \in 0 .. 2 /\ depth'[d] = depth[d] + new - depth[t]
      <4> HIDE DEF new
      <4> QED BY <1>2, <1>4, <2>0, <2>2
    <3>2. parent[d] \in moved /\ parent'[d] = parent[d]
      BY <1>0, <2>0, <2>2, BelowClosed
    <3>3. parent[d] # NoTask /\ parent[d] \in live /\ parent[d] \in Tasks
          /\ parent[d] \in container' /\ depth[d] = depth[parent[d]] + 1
      <4>1. parent[d] \in live /\ parent[d] # NoTask
        BY <1>3, <3>2, TreeAssumption DEF TreeTypes
      <4> QED BY <1>0, <4>1, ChildFacts DEF Promoted
    <3>4. depth'[parent[d]] = depth[parent[d]] + new - depth[t]
      BY <1>2, <3>2, <3>3
    <3>5. depth[parent[d]] \in Nat /\ depth[d] \in Nat
      BY <3>3, <2>0 DEF TreeTypes
    <3> HIDE DEF new
    <3>6. depth'[d] = depth'[parent[d]] + 1
      BY <1>1, <3>1, <3>3, <3>4, <3>5
    <3> QED BY <3>1, <3>2, <3>3, <3>6
  <2>3. CASE d # t /\ d \notin Below(t)
    <3>1. depth'[d] = depth[d] /\ parent'[d] = parent[d]
      BY <1>2, <2>0, <2>3
    <3>2. parent[d] \notin moved
      BY <1>0, <2>3, BelowClosed
    <3>3. parent[d] # NoTask => depth'[parent[d]] = depth[parent[d]]
      BY <1>2, <3>2, ChildFacts
    <3> QED BY <1>0, <3>1, <3>3, ChildFacts DEF Promoted
  <2> QED BY <2>1, <2>2, <2>3
<1> QED BY <1>0, <1>5, <1>6, TreeAssumption DEF TreeSound

LEMMA DeleteSound ==
  ASSUME TreeTypes, TreeSound, NEW t \in Tasks, DeleteTask(t)
  PROVE  TreeSound'
<1>0. /\ t \in live /\ {c \in live : parent[c] = t} = {}
      /\ live' = live \ {t} /\ container' = container \ {t}
      /\ parent' = [parent EXCEPT ![t] = NoTask]
      /\ depth' = [depth EXCEPT ![t] = 0]
  BY DEF DeleteTask
<1>1. ASSUME NEW d \in live'
      PROVE  /\ depth'[d] \in 0 .. 2
             /\ IF parent'[d] = NoTask THEN depth'[d] = 0
                ELSE /\ parent'[d] \in live' \cap container'
                     /\ depth'[d] = depth'[parent'[d]] + 1
  <2>1. d \in live /\ d # t /\ parent'[d] = parent[d] /\ depth'[d] = depth[d]
    BY <1>0 DEF TreeTypes
  <2>2. parent[d] # t
    BY <1>0, <2>1
  <2>3. parent[d] # NoTask => depth'[parent[d]] = depth[parent[d]]
    BY <1>0, <2>1, <2>2, ChildFacts DEF TreeTypes
  <2> QED BY <1>0, <2>1, <2>2, <2>3, ChildFacts
<1> QED BY <1>1, TreeAssumption DEF TreeSound

LEMMA RoleSound ==
  ASSUME TreeTypes, TreeSound, NEW t \in Tasks, SetRole(t)
  PROVE  TreeSound'
<1>0. /\ UNCHANGED <<live, parent, depth>>
      /\ \/ container \subseteq container'
         \/ container' = container \ {t} /\ {c \in live : parent[c] = t} = {}
  BY DEF SetRole
<1>1. \A d \in live : parent[d] \in container => parent[d] \in container'
  BY <1>0
<1> QED BY <1>0, <1>1 DEF TreeSound

-----------------------------------------------------------------------------
(* What a roll-up writes, and what it depends on.                          *)

LEMMA RollupRange ==
  ASSUME NEW x, NEW ch, NEW st, NEW pol, st[x] # "verified"
  PROVE  Rollup(x, ch, st, pol) \in {"backlog", "active", "blocked", "done"}
<1>1. CASE ch = {}
  BY <1>1 DEF Rollup
<1>2. CASE ch # {} /\ \E c \in ch : st[c] = "blocked"
  BY <1>2 DEF Rollup
<1>3. CASE /\ ch # {} /\ \A c \in ch : st[c] # "blocked"
           /\ \E c \in ch : st[c] = "active"
  BY <1>3 DEF Rollup
<1>4. CASE /\ ch # {} /\ \A c \in ch : st[c] # "blocked"
           /\ \A c \in ch : st[c] # "active"
  BY <1>4 DEF Rollup
<1> QED BY <1>1, <1>2, <1>3, <1>4

(* The roll-up of a task that is not verified reads the children's         *)
(* statuses and nothing else.                                              *)
LEMMA RollupLocal ==
  ASSUME NEW x, NEW ch, NEW s1, NEW s2, NEW pol,
         s1[x] # "verified", s2[x] # "verified",
         \A c \in ch : s1[c] = s2[c]
  PROVE  Rollup(x, ch, s1, pol) = Rollup(x, ch, s2, pol)
<1>1. CASE ch = {}
  BY <1>1 DEF Rollup
<1>2. CASE ch # {} /\ \E c \in ch : s1[c] = "blocked"
  BY <1>2 DEF Rollup
<1>3. CASE /\ ch # {} /\ \A c \in ch : s1[c] # "blocked"
           /\ \E c \in ch : s1[c] = "active"
  BY <1>3 DEF Rollup
<1>4. CASE /\ ch # {} /\ \A c \in ch : s1[c] # "blocked"
           /\ \A c \in ch : s1[c] # "active"
  <2>1. SynthesisDone(ch, s1) <=> SynthesisDone(ch, s2)
    BY DEF SynthesisDone
  <2>2. /\ (\A c \in ch : s1[c] \in {"done", "verified"})
             <=> (\A c \in ch : s2[c] \in {"done", "verified"})
        /\ (\A c \in ch : s1[c] = "verified") <=> (\A c \in ch : s2[c] = "verified")
    OBVIOUS
  <2> QED BY <1>4, <2>1, <2>2 DEF Rollup
<1> QED BY <1>1, <1>2, <1>3, <1>4

LEMMA RefreshTypes ==
  ASSUME NEW par, NEW x \in Tasks \cup {NoTask}, NEW st \in [Tasks -> TStates]
  PROVE  Refresh(x, par, st) \in [Tasks -> TStates]
<1>1. CASE x # NoTask /\ Refreshes(x, st)
  <2>1. Rollup(x, ChildrenIn(par, x), st, policy'[x]) \in TStates
    BY <1>1, RollupRange DEF Refreshes, TStates
  <2> QED BY <1>1, <2>1 DEF Refresh
<1>2. CASE ~ (x # NoTask /\ Refreshes(x, st))
  BY <1>2 DEF Refresh
<1> QED BY <1>1, <1>2

LEMMA UpTypes ==
  ASSUME NEW par \in [Tasks -> Tasks \cup {NoTask}], NEW x \in Tasks \cup {NoTask}
  PROVE  Up(par, x) \in Tasks \cup {NoTask}
BY DEF Up

LEMMA ChainTypes ==
  ASSUME NEW par \in [Tasks -> Tasks \cup {NoTask}],
         NEW x \in Tasks \cup {NoTask}, NEW st \in [Tasks -> TStates]
  PROVE  RefreshFrom(x, par, st) \in [Tasks -> TStates]
<1>1. Refresh(x, par, st) \in [Tasks -> TStates]
  BY RefreshTypes
<1>2. Up(par, x) \in Tasks \cup {NoTask}
  BY UpTypes
<1>3. Refresh(Up(par, x), par, Refresh(x, par, st)) \in [Tasks -> TStates]
  BY <1>1, <1>2, RefreshTypes
<1>4. Up(par, Up(par, x)) \in Tasks \cup {NoTask}
  BY <1>2, UpTypes
<1> QED BY <1>3, <1>4, RefreshTypes DEF RefreshFrom

-----------------------------------------------------------------------------
(* A container is current, in the statuses st, when it is verified or      *)
(* shows the roll-up of its children.  AllCurrent(D, ...) says it of all   *)
(* but D: the containers that a call still has to refresh, and the ones    *)
(* that were written directly.                                             *)

Current(u, par, st) ==
  u \in container' /\ st[u] # "verified" =>
    st[u] = Rollup(u, ChildrenIn(par, u), st, policy'[u])

AllCurrent(D, par, st) == \A u \in Tasks \ D : Current(u, par, st)

Chain(par, x) == {x, Up(par, x), Up(par, Up(par, x))}

(* Refreshing x makes x current and may leave only its parent behind.      *)
LEMMA RefreshKeeps ==
  ASSUME NEW par \in [Tasks -> Tasks \cup {NoTask}],
         NEW x \in Tasks \cup {NoTask}, NEW st \in [Tasks -> TStates],
         x # NoTask => par[x] # x, NEW D, AllCurrent(D, par, st)
  PROVE  AllCurrent((D \ {x}) \cup {Up(par, x)}, par, Refresh(x, par, st))
<1>1. CASE ~ (x # NoTask /\ Refreshes(x, st))
  <2>1. Refresh(x, par, st) = st
    BY <1>1 DEF Refresh
  <2>2. x # NoTask => Current(x, par, st)
    BY <1>1 DEF Refreshes, Current
  <2>3. ASSUME NEW u \in Tasks \ ((D \ {x}) \cup {Up(par, x)})
        PROVE  Current(u, par, st)
    <3>1. CASE u = x
      BY <2>2, <3>1, TreeAssumption
    <3>2. CASE u # x
      BY <2>3, <3>2 DEF AllCurrent
    <3> QED BY <3>1, <3>2
  <2> QED BY <2>1, <2>3 DEF AllCurrent
<1>2. CASE x # NoTask /\ Refreshes(x, st)
  <2> DEFINE r == Rollup(x, ChildrenIn(par, x), st, policy'[x])
             s2 == [st EXCEPT ![x] = r]
  <2>1. Refresh(x, par, st) = s2
    BY <1>2 DEF Refresh
  <2>2. x \in Tasks /\ st[x] # "verified"
    BY <1>2 DEF Refreshes
  <2>3. r # "verified"
    BY <2>2, RollupRange
  <2>4. s2[x] = r /\ \A v \in Tasks : v # x => s2[v] = st[v]
    BY <2>2
  <2>5. \A u \in Tasks : par[x] # u =>
          \A c \in ChildrenIn(par, u) : s2[c] = st[c]
    <3> HIDE DEF r
    <3> QED BY DEF ChildrenIn
  <2> HIDE DEF s2
  <2>6. Current(x, par, s2)
    <3>1. s2[x] # "verified" /\ \A c \in ChildrenIn(par, x) : s2[c] = st[c]
      BY <1>2, <2>2, <2>3, <2>4, <2>5
    <3>2. Rollup(x, ChildrenIn(par, x), s2, policy'[x]) = r
      BY <2>2, <3>1, RollupLocal
    <3> QED BY <2>4, <3>2 DEF Current
  <2>7. ASSUME NEW u \in Tasks \ ((D \ {x}) \cup {Up(par, x)}), u # x
        PROVE  Current(u, par, s2)
    <3>1. Current(u, par, st) /\ par[x] # u
      BY <1>2, <2>7 DEF AllCurrent, Up
    <3>2. s2[u] = st[u] /\ \A c \in ChildrenIn(par, u) : s2[c] = st[c]
      BY <2>4, <2>5, <2>7, <3>1
    <3>3. SUFFICES ASSUME u \in container', s2[u] # "verified"
                   PROVE  s2[u] = Rollup(u, ChildrenIn(par, u), s2, policy'[u])
      BY DEF Current
    <3>4. st[u] = Rollup(u, ChildrenIn(par, u), st, policy'[u])
      BY <3>1, <3>2, <3>3 DEF Current
    <3>5. Rollup(u, ChildrenIn(par, u), s2, policy'[u])
            = Rollup(u, ChildrenIn(par, u), st, policy'[u])
      BY <3>2, <3>3, RollupLocal
    <3> QED BY <3>2, <3>4, <3>5
  <2> QED BY <2>1, <2>6, <2>7 DEF AllCurrent
<1> QED BY <1>1, <1>2

(* Refreshing a task and what is above it leaves none of them behind, in a *)
(* tree where nothing is above the third.                                  *)
LEMMA ChainKeeps ==
  ASSUME NEW par \in [Tasks -> Tasks \cup {NoTask}],
         NEW x \in Tasks \cup {NoTask}, NEW st \in [Tasks -> TStates],
         Up(par, Up(par, Up(par, x))) = NoTask,
         NEW D, AllCurrent(D, par, st)
  PROVE  AllCurrent(D \ Chain(par, x), par, RefreshFrom(x, par, st))
<1> DEFINE y == Up(par, x)
           z == Up(par, y)
           s1 == Refresh(x, par, st)
           s2 == Refresh(y, par, s1)
           D1 == (D \ {x}) \cup {y}
           D2 == (D1 \ {y}) \cup {z}
           D3 == (D2 \ {z}) \cup {NoTask}
<1>1. y \in Tasks \cup {NoTask} /\ z \in Tasks \cup {NoTask}
  BY UpTypes
<1>2. s1 \in [Tasks -> TStates] /\ s2 \in [Tasks -> TStates]
  BY <1>1, RefreshTypes
<1>3. /\ x # NoTask => y = par[x]
      /\ y # NoTask => z = par[y]
      /\ z # NoTask => par[z] = NoTask
      /\ x = NoTask => y = NoTask
      /\ y = NoTask => z = NoTask
  BY DEF Up
<1>4. /\ x # NoTask => par[x] # x
      /\ y # NoTask => par[y] # y
      /\ z # NoTask => par[z] # z
  <2> HIDE DEF y, z
  <2> QED BY <1>3
<1>5. Up(par, z) = NoTask
  BY DEF Up
<1>6. AllCurrent(D1, par, s1)
  BY <1>4, RefreshKeeps
<1>7. AllCurrent(D2, par, s2)
  <2> HIDE DEF D1, s1
  <2>1. Up(par, y) = z
    OBVIOUS
  <2> HIDE DEF y, z
  <2>2. AllCurrent((D1 \ {y}) \cup {Up(par, y)}, par, Refresh(y, par, s1))
    BY <1>1, <1>2, <1>4, <1>6, RefreshKeeps
  <2> QED BY <2>1, <2>2
<1>8. AllCurrent(D3, par, Refresh(z, par, s2))
  <2> HIDE DEF D2, s2, z
  <2>1. AllCurrent((D2 \ {z}) \cup {Up(par, z)}, par, Refresh(z, par, s2))
    BY <1>1, <1>2, <1>4, <1>7, RefreshKeeps
  <2> QED BY <1>5, <2>1
<1>9. RefreshFrom(x, par, st) = Refresh(z, par, s2)
  BY DEF RefreshFrom
<1>10. \A u \in Tasks : u \notin D \ Chain(par, x) => u \notin D3
  <2>1. Chain(par, x) = {x, y, z}
    BY DEF Chain
  <2> HIDE DEF y, z
  <2> QED BY <1>3, <2>1, TreeAssumption
<1> HIDE DEF D3, s2, z
<1> QED BY <1>8, <1>9, <1>10 DEF AllCurrent

(* Nothing is above the third in a tree that is sound.                     *)
LEMMA Height ==
  ASSUME NEW L, L \subseteq Tasks, NEW par, NEW dep,
         \A d \in L : /\ dep[d] \in 0 .. 2
                      /\ par[d] # NoTask =>
                           par[d] \in L /\ dep[d] = dep[par[d]] + 1,
         NEW x \in L \cup {NoTask}
  PROVE  Up(par, Up(par, Up(par, x))) = NoTask
<1>1. CASE x = NoTask
  BY <1>1 DEF Up
<1>2. CASE x \in L
  <2> DEFINE y == Up(par, x)
             z == Up(par, y)
  <2>1. x # NoTask /\ y = par[x]
    BY <1>2, TreeAssumption DEF Up
  <2>2. CASE y = NoTask
    BY <2>2 DEF Up
  <2>3. CASE y # NoTask
    <3>1. y \in L /\ dep[x] = dep[y] + 1 /\ z = par[y]
      BY <1>2, <2>1, <2>3 DEF Up
    <3>2. CASE z = NoTask
      BY <3>2 DEF Up
    <3>3. CASE z # NoTask
      <4>1. z \in L /\ dep[y] = dep[z] + 1 /\ Up(par, z) = par[z]
        BY <3>1, <3>3 DEF Up
      <4>2. dep[x] \in 0 .. 2 /\ dep[y] \in 0 .. 2 /\ dep[z] \in 0 .. 2
        BY <1>2, <3>1, <4>1
      <4>3. ASSUME par[z] # NoTask PROVE FALSE
        <5>1. par[z] \in L /\ dep[z] = dep[par[z]] + 1 /\ dep[par[z]] \in 0 .. 2
          BY <4>1, <4>3
        <5> HIDE DEF y, z
        <5> QED BY <3>1, <4>1, <4>2, <5>1
      <4> QED BY <4>1, <4>3
    <3> QED BY <3>2, <3>3
  <2> QED BY <2>2, <2>3
<1> QED BY <1>1, <1>2

-----------------------------------------------------------------------------
(* Types, and the tree, through every step.                                *)

LEMMA InterruptedLive ==
  ASSUME TreeTypes, NEW p \in live \cup {NoTask}
  PROVE  Interrupted(p) \subseteq live
BY DEF Interrupted, TreeTypes

LEMMA CreateTypes ==
  ASSUME TreeTypes, NEW t \in Tasks, NEW p \in Tasks \cup {NoTask},
         CreateTask(t, p)
  PROVE  TreeTypes'
<1>0. /\ t \notin live /\ p \in live \cup {NoTask} /\ live' = live \cup {t}
      /\ late' = Interrupted(p)
      /\ parent' = [parent EXCEPT ![t] = p]
      /\ depth' = [depth EXCEPT ![t] = IF p = NoTask THEN 0 ELSE depth[p] + 1]
      /\ tStatus' = RefreshFrom(p, parent', [tStatus EXCEPT ![t] = "backlog"])
  BY DEF CreateTask
<1>1. live' \subseteq Tasks /\ parent' \in [Tasks -> Tasks \cup {NoTask}]
  BY <1>0 DEF TreeTypes
<1>2. depth' \in [Tasks -> Nat]
  BY <1>0 DEF TreeTypes
<1>3. container' \subseteq live'
  BY <1>0 DEF CreateTask, Promoted, TreeTypes
<1>4. policy' \in [Tasks -> Policies]
  BY TreeAssumption DEF CreateTask, TreeTypes
<1>5. late' \subseteq live'
  BY <1>0, InterruptedLive
<1>6. [tStatus EXCEPT ![t] = "backlog"] \in [Tasks -> TStates]
  BY DEF TreeTypes, TStates
<1>7. tStatus' \in [Tasks -> TStates]
  BY <1>0, <1>1, <1>6, ChainTypes
<1> QED BY <1>1, <1>2, <1>3, <1>4, <1>5, <1>7 DEF TreeTypes

LEMMA MoveTypes ==
  ASSUME TreeTypes, TreeSound, NEW t \in Tasks, NEW p \in Tasks \cup {NoTask},
         MoveTask(t, p)
  PROVE  TreeTypes'
<1>0. /\ t \in live /\ p \in live \cup {NoTask}
      /\ UNCHANGED <<live, policy>>
      /\ late' = Interrupted(p) /\ container' = Promoted(p)
      /\ parent' = [parent EXCEPT ![t] = p]
      /\ tStatus' = RefreshFrom(p, parent', RefreshFrom(parent[t], parent', tStatus))
  BY DEF MoveTask, RefreshBoth
<1>1. parent' \in [Tasks -> Tasks \cup {NoTask}]
      /\ parent[t] \in Tasks \cup {NoTask}
  BY <1>0 DEF TreeTypes
<1>2. depth' \in [Tasks -> Nat]
  BY MoveSound
<1>3. container' \subseteq live' /\ late' \subseteq live'
  BY <1>0, InterruptedLive DEF Promoted, TreeTypes
<1>4. RefreshFrom(parent[t], parent', tStatus) \in [Tasks -> TStates]
  BY <1>1, ChainTypes DEF TreeTypes
<1>5. tStatus' \in [Tasks -> TStates]
  BY <1>0, <1>1, <1>4, ChainTypes
<1> QED BY <1>0, <1>1, <1>2, <1>3, <1>5 DEF TreeTypes

LEMMA DeleteTypes ==
  ASSUME TreeTypes, NEW t \in Tasks, DeleteTask(t)
  PROVE  TreeTypes'
<1>0. /\ t \in live /\ live' = live \ {t}
      /\ container' = container \ {t} /\ late' = late \ {t}
      /\ parent' = [parent EXCEPT ![t] = NoTask]
      /\ depth' = [depth EXCEPT ![t] = 0]
      /\ policy' = [policy EXCEPT ![t] = "all_children_verified"]
      /\ tStatus' = RefreshFrom(parent[t], parent', [tStatus EXCEPT ![t] = "backlog"])
  BY DEF DeleteTask
<1>1. /\ parent' \in [Tasks -> Tasks \cup {NoTask}]
      /\ parent[t] \in Tasks \cup {NoTask}
  BY <1>0 DEF TreeTypes
<1>2. [tStatus EXCEPT ![t] = "backlog"] \in [Tasks -> TStates]
  BY DEF TreeTypes, TStates
<1>3. tStatus' \in [Tasks -> TStates]
  BY <1>0, <1>1, <1>2, ChainTypes
<1>4. depth' \in [Tasks -> Nat] /\ policy' \in [Tasks -> Policies]
  BY <1>0, TreeAssumption DEF TreeTypes
<1> QED BY <1>0, <1>1, <1>3, <1>4 DEF TreeTypes

LEMMA RoleTypes ==
  ASSUME TreeTypes, NEW t \in Tasks, SetRole(t)
  PROVE  TreeTypes'
<1>0. /\ t \in live /\ UNCHANGED <<live, parent, depth>>
      /\ tStatus' = RefreshFrom(parent[t], parent, tStatus)
  BY DEF SetRole
<1>1. tStatus' \in [Tasks -> TStates]
  <2>1. parent[t] \in Tasks \cup {NoTask}
    BY DEF TreeTypes
  <2> QED BY <1>0, <2>1, ChainTypes DEF TreeTypes
<1>2. policy' \in [Tasks -> Policies]
  BY TreeAssumption DEF SetRole, TreeTypes
<1>3. container' \subseteq live' /\ late' \subseteq live'
  BY <1>0, InterruptedLive DEF SetRole, TreeTypes
<1> QED BY <1>0, <1>1, <1>2, <1>3 DEF TreeTypes

(* The three actions that write a status write a legal one, of a task that *)
(* exists, and change nothing else.                                        *)
WriteStep(t) ==
  /\ t \in live /\ late' \in {late, late \ {t}}
  /\ \E st \in TStates : WriteStatus(t, st)

LEMMA WriteSteps ==
  ASSUME TreeTypes, NEW t \in Tasks,
         ExecutableMoves(t) \/ ContainerEvent(t) \/ LateHandoff(t)
  PROVE  WriteStep(t)
<1>1. \A from : Lifecycle(from) \subseteq TStates
  BY DEF Lifecycle, TStates
<1>2. CASE ExecutableMoves(t)
  BY <1>1, <1>2 DEF ExecutableMoves, WriteStep
<1>3. CASE ContainerEvent(t)
  <2>1. {"verified", "active", "blocked"} \subseteq TStates
    BY DEF TStates
  <2>2. \E st \in {"verified", "active", "blocked"} : WriteStatus(t, st)
    BY <1>3 DEF ContainerEvent
  <2> QED BY <1>3, <2>1, <2>2 DEF ContainerEvent, WriteStep
<1>4. CASE LateHandoff(t)
  BY <1>1, <1>4 DEF LateHandoff, WriteStep, TreeTypes
<1> QED BY <1>2, <1>3, <1>4

LEMMA WriteTypes ==
  ASSUME TreeTypes, TreeSound, NEW t \in Tasks, WriteStep(t)
  PROVE  TreeTypes' /\ TreeSound'
<1>1. PICK st \in TStates : WriteStatus(t, st)
  BY DEF WriteStep
<1>2. [tStatus EXCEPT ![t] = st] \in [Tasks -> TStates]
      /\ parent[t] \in Tasks \cup {NoTask}
  BY DEF TreeTypes
<1>3. /\ UNCHANGED <<live, parent, depth, container, policy>>
      /\ tStatus' = RefreshFrom(parent[t], parent, [tStatus EXCEPT ![t] = st])
  BY <1>1 DEF WriteStatus, AncestorsRefreshed
<1>4. tStatus' \in [Tasks -> TStates]
  BY <1>2, <1>3, ChainTypes DEF TreeTypes
<1>5. late' \subseteq live'
  BY <1>3 DEF WriteStep, TreeTypes
<1> QED BY <1>3, <1>4, <1>5 DEF TreeTypes, TreeSound

(* Inductive invariant of the tree: its types and its shape.               *)
TreeShape == TreeTypes /\ TreeSound

LEMMA ShapeInit == TreeInit => TreeShape
BY TreeAssumption DEF TreeInit, TreeShape, TreeTypes, TreeSound, TStates

LEMMA ShapeStep ==
  ASSUME TreeShape, [TreeNext]_treeVars
  PROVE  TreeShape'
<1> USE DEF TreeShape
<1>1. CASE UNCHANGED treeVars
  BY <1>1 DEF treeVars, TreeTypes, TreeSound
<1>2. ASSUME NEW t \in Tasks, NEW p \in Tasks \cup {NoTask}, CreateTask(t, p)
      PROVE  TreeShape'
  BY <1>2, CreateTypes, CreateSound
<1>3. ASSUME NEW t \in Tasks, NEW p \in Tasks \cup {NoTask}, MoveTask(t, p)
      PROVE  TreeShape'
  BY <1>3, MoveTypes, MoveSound
<1>4. ASSUME NEW t \in Tasks, SetRole(t)
      PROVE  TreeShape'
  BY <1>4, RoleTypes, RoleSound
<1>5. ASSUME NEW t \in Tasks, DeleteTask(t)
      PROVE  TreeShape'
  BY <1>5, DeleteTypes, DeleteSound
<1>6. ASSUME NEW t \in Tasks, ExecutableMoves(t) \/ ContainerEvent(t) \/ LateHandoff(t)
      PROVE  TreeShape'
  BY <1>6, WriteSteps, WriteTypes
<1> QED BY <1>1, <1>2, <1>3, <1>4, <1>5, <1>6 DEF TreeNext

(* The tree of tasks stays sound through creation, moves of whole          *)
(* subtrees, role changes and deletion: every parent exists and is a       *)
(* container, and depth follows the parents up to the limit.               *)
THEOREM TreeIsSound == TreeSpec => []TreeSound
<1>1. TreeShape /\ [TreeNext]_treeVars => TreeShape'
  BY ShapeStep
<1>2. TreeShape => TreeSound
  BY DEF TreeShape
<1> QED BY ShapeInit, <1>1, <1>2, PTL DEF TreeSpec

-----------------------------------------------------------------------------
(* Roll-ups are current.                                                   *)

(* A container that the call does not concern is as current as it was: the *)
(* same children, with the same statuses, under the same policy.           *)
LEMMA Carried ==
  ASSUME RollupCurrent, NEW par, NEW st, NEW u \in container \ direct,
         policy'[u] = policy[u], st[u] = tStatus[u],
         ChildrenIn(par, u) = {c \in live : parent[c] = u},
         \A c \in ChildrenIn(par, u) : st[c] = tStatus[c]
  PROVE  Current(u, par, st)
<1>1. SUFFICES ASSUME st[u] # "verified"
               PROVE  st[u] = Rollup(u, ChildrenIn(par, u), st, policy'[u])
  BY DEF Current
<1>2. tStatus[u] = Rollup(u, ChildrenIn(par, u), tStatus, policy[u])
  BY <1>1 DEF RollupCurrent
<1>3. Rollup(u, ChildrenIn(par, u), st, policy[u])
        = Rollup(u, ChildrenIn(par, u), tStatus, policy[u])
  BY <1>1, RollupLocal
<1> QED BY <1>2, <1>3

LEMMA TallEnough ==
  ASSUME TreeShape', NEW x \in live' \cup {NoTask}
  PROVE  Up(parent', Up(parent', Up(parent', x))) = NoTask
<1>1. live' \subseteq Tasks
  BY DEF TreeShape, TreeTypes
<1>2. \A d \in live' : /\ depth'[d] \in 0 .. 2
                       /\ parent'[d] # NoTask =>
                            parent'[d] \in live' /\ depth'[d] = depth'[parent'[d]] + 1
  BY TreeAssumption DEF TreeShape, TreeSound
<1> QED BY <1>1, <1>2, Height

(* What is left to show of a step: everything outside a set D is current   *)
(* in the new rows, and D holds nothing but what the step leaves marked.   *)
LEMMA CurrentNow ==
  ASSUME TreeShape', NEW D, AllCurrent(D, parent', tStatus'),
         \A u \in D : u \in container' => u \in direct'
  PROVE  RollupCurrent'
<1>1. SUFFICES ASSUME NEW u \in container' \ direct', tStatus'[u] # "verified"
               PROVE  tStatus'[u] = Rollup(u, {c \in live' : parent'[c] = u},
                                           tStatus', policy'[u])
  BY DEF RollupCurrent
<1>2. u \in Tasks \ D
  BY DEF TreeShape, TreeTypes
<1>3. Current(u, parent', tStatus')
  BY <1>2 DEF AllCurrent
<1> QED BY <1>1, <1>3 DEF Current, ChildrenIn

LEMMA CreateCurrent ==
  ASSUME TreeShape, RollupCurrent, TreeShape',
         NEW t \in Tasks, NEW p \in Tasks \cup {NoTask}, CreateTask(t, p)
  PROVE  RollupCurrent'
<1> USE DEF TreeShape
<1> DEFINE st == [tStatus EXCEPT ![t] = "backlog"]
           D == direct \cup {p}
<1>0. /\ t \notin live /\ p \in live \cup {NoTask} /\ live' = live \cup {t}
      /\ parent' = [parent EXCEPT ![t] = p]
      /\ tStatus' = RefreshFrom(p, parent', st)
      /\ direct' = direct \ RefreshedFrom({p}, parent', st)
      /\ container' \subseteq Promoted(p) \cup {t}
      /\ \A u \in Tasks : u # t => policy'[u] = policy[u]
  BY DEF CreateTask, TreeTypes
<1>1. st \in [Tasks -> TStates] /\ parent' \in [Tasks -> Tasks \cup {NoTask}]
  BY DEF TreeTypes, TStates
<1>2. \A d \in live : parent[d] # t
  BY <1>0, TreeAssumption DEF TreeSound, TreeTypes
<1>3. ASSUME NEW u \in Tasks \ D PROVE Current(u, parent', st)
  <2>1. CASE u = t
    <3>1. ChildrenIn(parent', u) = {}
      BY <1>0, <1>2, <1>3, <2>1 DEF ChildrenIn, TreeTypes
    <3>2. st[u] = "backlog"
      BY <2>1 DEF TreeTypes
    <3>3. Rollup(u, {}, st, policy'[u]) = "backlog"
      BY <3>2 DEF Rollup
    <3> QED BY <3>1, <3>2, <3>3 DEF Current
  <2>2. CASE u # t /\ u \notin container'
    BY <2>2 DEF Current
  <2>3. CASE u # t /\ u \in container'
    <3>1. u \in container \ direct /\ u # p
      BY <1>0, <1>3, <2>3 DEF Promoted
    <3>2. policy'[u] = policy[u] /\ st[u] = tStatus[u]
      BY <1>0, <1>3, <2>3 DEF TreeTypes
    <3>3. ChildrenIn(parent', u) = {c \in live : parent[c] = u}
      BY <1>0, <3>1 DEF ChildrenIn, TreeTypes
    <3>4. \A c \in ChildrenIn(parent', u) : st[c] = tStatus[c]
      BY <1>0, <3>3 DEF TreeTypes
    <3> HIDE DEF st
    <3> QED BY <3>1, <3>2, <3>3, <3>4, Carried
  <2> QED BY <2>1, <2>2, <2>3
<1>4. AllCurrent(D, parent', st)
  BY <1>3 DEF AllCurrent
<1>5. Up(parent', Up(parent', Up(parent', p))) = NoTask
  BY <1>0, TallEnough
<1>6. AllCurrent(D \ Chain(parent', p), parent', tStatus')
  <2> HIDE DEF st, D
  <2> QED BY <1>0, <1>1, <1>4, <1>5, ChainKeeps
<1>7. \A u \in D \ Chain(parent', p) : u \in container' => u \in direct'
  BY <1>0 DEF Chain, RefreshedFrom
<1> HIDE DEF D
<1> QED BY <1>6, <1>7, CurrentNow

LEMMA MoveCurrent ==
  ASSUME TreeShape, RollupCurrent, TreeShape',
         NEW t \in Tasks, NEW p \in Tasks \cup {NoTask}, MoveTask(t, p)
  PROVE  RollupCurrent'
<1> USE DEF TreeShape
<1>a. PICK q : q = parent[t]
  OBVIOUS
<1>b. PICK D : D = direct \cup (container' \ container) \cup {q, p}
  OBVIOUS
<1>0. /\ t \in live /\ p \in live \cup {NoTask} /\ UNCHANGED <<live, policy>>
      /\ parent' = [parent EXCEPT ![t] = p]
      /\ tStatus' = RefreshFrom(p, parent', RefreshFrom(q, parent', tStatus))
      /\ direct' = (direct \cup (container' \ container))
                     \ RefreshedFrom({q, p}, parent', tStatus)
  BY <1>a DEF MoveTask, RefreshBoth
<1>1. /\ tStatus \in [Tasks -> TStates]
      /\ parent' \in [Tasks -> Tasks \cup {NoTask}]
      /\ q \in live \cup {NoTask} /\ q \in Tasks \cup {NoTask}
  BY <1>0, <1>a DEF TreeTypes, TreeSound
<1>3. ASSUME NEW u \in Tasks \ D PROVE Current(u, parent', tStatus)
  <2>2. CASE u \notin container'
    BY <2>2 DEF Current
  <2>3. CASE u \in container'
    <3>1. u \in container \ direct /\ u # p /\ u # q
      BY <1>b, <1>3, <2>3
    <3>3. ChildrenIn(parent', u) = {c \in live : parent[c] = u}
      BY <1>0, <1>a, <3>1 DEF ChildrenIn, TreeTypes
    <3> QED BY <1>0, <3>1, <3>3, Carried
  <2> QED BY <2>2, <2>3
<1>4. AllCurrent(D, parent', tStatus)
  BY <1>3 DEF AllCurrent
<1>5. /\ Up(parent', Up(parent', Up(parent', p))) = NoTask
      /\ Up(parent', Up(parent', Up(parent', q))) = NoTask
  BY <1>0, <1>1, TallEnough
<1>6. AllCurrent(D \ Chain(parent', q), parent', RefreshFrom(q, parent', tStatus))
  BY <1>1, <1>4, <1>5, ChainKeeps
<1>7. AllCurrent((D \ Chain(parent', q)) \ Chain(parent', p), parent', tStatus')
  <2>1. RefreshFrom(q, parent', tStatus) \in [Tasks -> TStates]
    BY <1>1, ChainTypes
  <2> QED BY <1>0, <1>1, <1>5, <1>6, <2>1, ChainKeeps
<1>8. \A u \in (D \ Chain(parent', q)) \ Chain(parent', p) :
        u \in container' => u \in direct'
  BY <1>0, <1>b DEF Chain, RefreshedFrom
<1> QED BY <1>7, <1>8, CurrentNow

LEMMA DeleteCurrent ==
  ASSUME TreeShape, RollupCurrent, TreeShape', NEW t \in Tasks, DeleteTask(t)
  PROVE  RollupCurrent'
<1> USE DEF TreeShape
<1>a. PICK q : q = parent[t]
  OBVIOUS
<1>b. PICK D : D = direct \cup {q, t}
  OBVIOUS
<1>c. PICK st : st = [tStatus EXCEPT ![t] = "backlog"]
  OBVIOUS
<1>0. /\ t \in live /\ live' = live \ {t} /\ container' = container \ {t}
      /\ {c \in live : parent[c] = t} = {}
      /\ parent' = [parent EXCEPT ![t] = NoTask]
      /\ policy' = [policy EXCEPT ![t] = "all_children_verified"]
      /\ tStatus' = RefreshFrom(q, parent', st)
      /\ direct' = direct \ (RefreshedFrom({q}, parent', st) \cup {t})
  BY <1>a, <1>c DEF DeleteTask
<1>1. /\ st \in [Tasks -> TStates]
      /\ parent' \in [Tasks -> Tasks \cup {NoTask}]
      /\ q \in live' \cup {NoTask} /\ q \in Tasks \cup {NoTask}
  BY <1>0, <1>a, <1>c DEF TreeTypes, TreeSound, TStates
<1>3. ASSUME NEW u \in Tasks \ D PROVE Current(u, parent', st)
  <2>2. CASE u \notin container'
    BY <2>2 DEF Current
  <2>3. CASE u \in container'
    <3>1. u \in container \ direct /\ u # t /\ u # q
      BY <1>0, <1>b, <1>3, <2>3
    <3>2. policy'[u] = policy[u] /\ st[u] = tStatus[u]
      BY <1>0, <1>c, <3>1 DEF TreeTypes
    <3>3. ChildrenIn(parent', u) = {c \in live : parent[c] = u}
      BY <1>0, <1>a, <3>1 DEF ChildrenIn, TreeTypes
    <3>4. \A c \in ChildrenIn(parent', u) : st[c] = tStatus[c]
      BY <1>0, <1>c DEF ChildrenIn, TreeTypes
    <3> QED BY <3>1, <3>2, <3>3, <3>4, Carried
  <2> QED BY <2>2, <2>3
<1>4. AllCurrent(D, parent', st)
  BY <1>3 DEF AllCurrent
<1>5. Up(parent', Up(parent', Up(parent', q))) = NoTask
  BY <1>1, TallEnough
<1>6. AllCurrent(D \ Chain(parent', q), parent', tStatus')
  BY <1>0, <1>1, <1>4, <1>5, ChainKeeps
<1>7. \A u \in D \ Chain(parent', q) : u \in container' => u \in direct'
  BY <1>0, <1>b DEF Chain, RefreshedFrom
<1> QED BY <1>6, <1>7, CurrentNow

LEMMA RoleCurrent ==
  ASSUME TreeShape, RollupCurrent, TreeShape', NEW t \in Tasks, SetRole(t)
  PROVE  RollupCurrent'
<1> USE DEF TreeShape
<1>a. PICK q : q = parent[t]
  OBVIOUS
<1>b. PICK D : D = direct \cup {t}
  OBVIOUS
<1>0. /\ t \in live /\ UNCHANGED <<live, parent>>
      /\ tStatus' = RefreshFrom(q, parent', tStatus)
      /\ \/ container' = container \ {t} /\ direct' = direct \ {t}
         \/ container' = container \cup {t} /\ direct' = direct \cup {t}
      /\ \A u \in Tasks : u # t => policy'[u] = policy[u]
  BY <1>a DEF SetRole, TreeTypes
<1>1. /\ tStatus \in [Tasks -> TStates]
      /\ parent' \in [Tasks -> Tasks \cup {NoTask}]
      /\ q \in live' \cup {NoTask} /\ q \in Tasks \cup {NoTask}
  BY <1>0, <1>a DEF TreeTypes, TreeSound
<1>3. ASSUME NEW u \in Tasks \ D PROVE Current(u, parent', tStatus)
  <2>2. CASE u \notin container'
    BY <2>2 DEF Current
  <2>3. CASE u \in container'
    <3>1. u \in container \ direct /\ u # t
      BY <1>0, <1>b, <1>3, <2>3
    <3>3. ChildrenIn(parent', u) = {c \in live : parent[c] = u}
      BY <1>0 DEF ChildrenIn
    <3> QED BY <1>0, <3>1, <3>3, Carried
  <2> QED BY <2>2, <2>3
<1>4. AllCurrent(D, parent', tStatus)
  BY <1>3 DEF AllCurrent
<1>5. Up(parent', Up(parent', Up(parent', q))) = NoTask
  BY <1>1, TallEnough
<1>6. AllCurrent(D \ Chain(parent', q), parent', tStatus')
  BY <1>0, <1>1, <1>4, <1>5, ChainKeeps
<1>7. \A u \in D \ Chain(parent', q) : u \in container' => u \in direct'
  BY <1>0, <1>b
<1> QED BY <1>6, <1>7, CurrentNow

LEMMA WriteCurrent ==
  ASSUME TreeShape, RollupCurrent, TreeShape', NEW t \in Tasks, WriteStep(t)
  PROVE  RollupCurrent'
<1> USE DEF TreeShape
<1>d. PICK w \in TStates : WriteStatus(t, w)
  BY DEF WriteStep
<1>a. PICK q : q = parent[t]
  OBVIOUS
<1>b. PICK base : base = IF t \in container THEN direct \cup {t} ELSE direct
  OBVIOUS
<1>e. PICK D : D = base \cup {q}
  OBVIOUS
<1>c. PICK st : st = [tStatus EXCEPT ![t] = w]
  OBVIOUS
<1>0. /\ t \in live /\ UNCHANGED <<live, parent, container, policy>>
      /\ tStatus' = RefreshFrom(q, parent', st)
      /\ direct' = base \ RefreshedFrom({q}, parent', tStatus)
  BY <1>a, <1>b, <1>c, <1>d DEF WriteStep, WriteStatus, AncestorsRefreshed
<1>1. /\ st \in [Tasks -> TStates]
      /\ parent' \in [Tasks -> Tasks \cup {NoTask}]
      /\ q \in live' \cup {NoTask} /\ q \in Tasks \cup {NoTask}
  BY <1>0, <1>a, <1>c DEF TreeTypes, TreeSound
<1>3. ASSUME NEW u \in Tasks \ D PROVE Current(u, parent', st)
  <2>2. CASE u \notin container'
    BY <2>2 DEF Current
  <2>3. CASE u \in container'
    <3>1. u \in container \ direct /\ u # t /\ u # q
      BY <1>0, <1>b, <1>e, <1>3, <2>3
    <3>2. policy'[u] = policy[u] /\ st[u] = tStatus[u]
      BY <1>0, <1>c, <3>1 DEF TreeTypes
    <3>3. ChildrenIn(parent', u) = {c \in live : parent[c] = u}
      BY <1>0 DEF ChildrenIn
    <3>4. \A c \in ChildrenIn(parent', u) : st[c] = tStatus[c]
      BY <1>0, <1>a, <1>c, <3>1 DEF ChildrenIn, TreeTypes
    <3> QED BY <3>1, <3>2, <3>3, <3>4, Carried
  <2> QED BY <2>2, <2>3
<1>4. AllCurrent(D, parent', st)
  BY <1>3 DEF AllCurrent
<1>5. Up(parent', Up(parent', Up(parent', q))) = NoTask
  BY <1>1, TallEnough
<1>6. AllCurrent(D \ Chain(parent', q), parent', tStatus')
  BY <1>0, <1>1, <1>4, <1>5, ChainKeeps
<1>7. \A u \in D \ Chain(parent', q) : u \in container' => u \in direct'
  BY <1>0, <1>e DEF Chain, RefreshedFrom
<1> QED BY <1>6, <1>7, CurrentNow

LEMMA CurrentStep ==
  ASSUME TreeShape, RollupCurrent, TreeShape', [TreeNext]_treeVars
  PROVE  RollupCurrent'
<1>1. CASE UNCHANGED treeVars
  BY <1>1 DEF treeVars, RollupCurrent
<1>2. ASSUME NEW t \in Tasks, NEW p \in Tasks \cup {NoTask}, CreateTask(t, p)
      PROVE  RollupCurrent'
  BY <1>2, CreateCurrent
<1>3. ASSUME NEW t \in Tasks, NEW p \in Tasks \cup {NoTask}, MoveTask(t, p)
      PROVE  RollupCurrent'
  BY <1>3, MoveCurrent
<1>4. ASSUME NEW t \in Tasks, SetRole(t)
      PROVE  RollupCurrent'
  BY <1>4, RoleCurrent
<1>5. ASSUME NEW t \in Tasks, DeleteTask(t)
      PROVE  RollupCurrent'
  BY <1>5, DeleteCurrent
<1>6. ASSUME NEW t \in Tasks, ExecutableMoves(t) \/ ContainerEvent(t) \/ LateHandoff(t)
      PROVE  RollupCurrent'
  BY <1>6, WriteSteps, WriteCurrent DEF TreeShape
<1> QED BY <1>1, <1>2, <1>3, <1>4, <1>5, <1>6 DEF TreeNext

(* A container that nobody wrote since its last roll-up shows the roll-up  *)
(* of its children as they are: refreshing a task and its two ancestors    *)
(* reaches everything a write, a creation, a move or a deletion concerns.  *)
THEOREM RollupsAreCurrent == TreeSpec => []RollupCurrent
<1>1. TreeInit => RollupCurrent
  BY DEF TreeInit, RollupCurrent
<1>2. TreeShape /\ [TreeNext]_treeVars => TreeShape'
  BY ShapeStep
<1>3. TreeShape /\ RollupCurrent /\ TreeShape' /\ [TreeNext]_treeVars => RollupCurrent'
  BY CurrentStep
<1> QED BY ShapeInit, <1>1, <1>2, <1>3, PTL DEF TreeSpec
=============================================================================
