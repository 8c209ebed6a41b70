----------------------- MODULE EndpointRequests_proofs -----------------------
(***************************************************************************)
(* Proofs about EndpointRequests, for any number of processes and requests *)
(* and any lease time, cooldown and limits.                                *)
(***************************************************************************)
EXTENDS EndpointRequests, SequenceTheorems, TLAPS

(* The cooldown grows with the failures and stays below its bound.         *)
LEMMA CooldownBound ==
  ASSUME NEW n \in 1 .. MULTIPLIER_MAX
  PROVE  /\ n * COOLDOWN \in 0 .. MULTIPLIER_MAX * COOLDOWN
         /\ COOLDOWN \in 0 .. MULTIPLIER_MAX * COOLDOWN
<1>1. /\ MULTIPLIER_MAX \in Nat /\ COOLDOWN \in Nat /\ n \in Nat
      /\ 1 <= n /\ n <= MULTIPLIER_MAX
  BY EndpointAssumption
<1>2. 1 * COOLDOWN <= n * COOLDOWN /\ n * COOLDOWN <= MULTIPLIER_MAX * COOLDOWN
  BY <1>1
<1>3. /\ n * COOLDOWN \in Nat /\ MULTIPLIER_MAX * COOLDOWN \in Nat
      /\ 1 * COOLDOWN = COOLDOWN
  BY <1>1
<1> QED BY <1>1, <1>2, <1>3

LEMMA OneMoreBound ==
  ASSUME NEW f \in 0 .. MULTIPLIER_MAX
  PROVE  OneMore(f) \in 1 .. MULTIPLIER_MAX
BY EndpointAssumption DEF OneMore

(* Recording a failure keeps the circuits and the cooldown in their types. *)
LEMMA RecordTyped ==
  ASSUME TypeOK, NEW r \in Requests, NEW f \in 0 .. MULTIPLIER_MAX,
         RecordFailureAfter(r, f)
  PROVE  /\ cooldown' \in 0 .. MULTIPLIER_MAX * COOLDOWN
         /\ circuit' \in [Processes -> [failures : 0 .. MULTIPLIER_MAX,
                                        left : 0 .. MULTIPLIER_MAX * COOLDOWN]]
<1>1. OneMore(f) \in 1 .. MULTIPLIER_MAX
  BY OneMoreBound
<1>2. OneMore(f) * COOLDOWN \in 0 .. MULTIPLIER_MAX * COOLDOWN
  BY <1>1, CooldownBound
<1>3. OneMore(f) \in 0 .. MULTIPLIER_MAX
  BY <1>1, EndpointAssumption
<1> QED BY <1>2, <1>3 DEF TypeOK, RecordFailureAfter

LEMMA FailureTyped ==
  ASSUME TypeOK, NEW r \in Requests,
         RecordFailure(r) \/ UNCHANGED <<circuit, cooldown>>
  PROVE  /\ cooldown' \in 0 .. MULTIPLIER_MAX * COOLDOWN
         /\ circuit' \in [Processes -> [failures : 0 .. MULTIPLIER_MAX,
                                        left : 0 .. MULTIPLIER_MAX * COOLDOWN]]
<1>1. CASE RecordFailure(r)
  <2>1. CircuitOf(r).failures \in 0 .. MULTIPLIER_MAX
    BY EndpointAssumption DEF TypeOK, CircuitOf
  <2> QED BY <1>1, <2>1, RecordTyped DEF RecordFailure
<1>2. CASE UNCHANGED <<circuit, cooldown>>
  BY <1>2 DEF TypeOK
<1> QED BY <1>1, <1>2

(* A released semaphore and the places of the requests keep their types.   *)
LEMMA ReleaseTyped ==
  ASSUME TypeOK, NEW r \in Requests, NEW next \in Places,
         ReleaseSemaphore(r, next)
  PROVE  /\ active' \in [Processes -> BOOLEAN]
         /\ queue' \in [Processes -> Seq(Requests)]
         /\ pc' \in [Requests -> Places]
<1> DEFINE p == ProcOf[r]
           q == queue[p]
<1>1. p \in Processes /\ q \in Seq(Requests)
  BY EndpointAssumption DEF TypeOK
<1>2. CASE q # <<>> /\ queue' = [queue EXCEPT ![p] = Tail(q)] /\ UNCHANGED active
           /\ pc' = [pc EXCEPT ![r] = next, ![Head(q)] = "handed"]
  <2>1. Tail(q) \in Seq(Requests) /\ Head(q) \in Requests
    BY <1>1, <1>2
  <2> QED BY <1>1, <1>2, <2>1 DEF TypeOK, Places, Admitted
<1>3. CASE q = <<>> /\ active' = [active EXCEPT ![p] = FALSE] /\ Goto(r, next)
           /\ UNCHANGED queue
  BY <1>1, <1>3 DEF TypeOK, Goto
<1> QED BY <1>2, <1>3 DEF ReleaseSemaphore

-----------------------------------------------------------------------------
(* A retry is decided only below the limit, so counting it stays in type.  *)
RetryBelowLimit ==
  \A r \in Requests : retry[r] => attempt[r] < HTTP_RETRY_LIMIT[r]

AttemptsBounded ==
  /\ attempt \in [Requests -> Nat]
  /\ \A r \in Requests : attempt[r] <= HTTP_RETRY_LIMIT[r]

TypeInv == TypeOK /\ RetryBelowLimit

LEMMA LimitTyped == \A r \in Requests : HTTP_RETRY_LIMIT[r] \in Nat
BY EndpointAssumption

LEMMA TypeInit == Init => TypeInv
<1> SUFFICES ASSUME Init PROVE TypeInv
  OBVIOUS
<1>1. 0 \in 0 .. LEASE_TTL /\ 0 \in 0 .. MULTIPLIER_MAX
      /\ \A r \in Requests : 0 <= HTTP_RETRY_LIMIT[r]
  BY EndpointAssumption, LimitTyped
<1>2. 0 \in 0 .. MULTIPLIER_MAX * COOLDOWN
  <2>1. 1 \in 1 .. MULTIPLIER_MAX
    BY EndpointAssumption
  <2>2. COOLDOWN \in 0 .. MULTIPLIER_MAX * COOLDOWN
    BY <2>1, CooldownBound
  <2> QED BY <2>2, EndpointAssumption
<1>3. TypeOK
  BY <1>1, <1>2 DEF Init, TypeOK, FreeLease, NoFailures, Places, Admitted
<1>4. RetryBelowLimit
  BY DEF Init, RetryBelowLimit
<1> QED BY <1>3, <1>4 DEF TypeInv

LEMMA RequestType ==
  ASSUME TypeInv, NEW r \in Requests,
         EnterSemaphore(r) \/ Heartbeat(r) \/ Progress(r) \/ Interruption(r)
  PROVE  TypeInv'
<1> DEFINE p == ProcOf[r]
<1> USE DEF TypeInv
<1>0. /\ p \in Processes /\ LEASE_TTL \in Nat /\ LEASE_TTL \in 0 .. LEASE_TTL
      /\ 0 \in 0 .. LEASE_TTL
      /\ \A q \in Requests : HTTP_RETRY_LIMIT[q] \in Nat
  BY EndpointAssumption, LimitTyped
<1>p. {"idle", "retry", "queued", "handed", "inside", "lease", "acquire",
       "closing", "leaving", "leased", "health", "fetching"} \subseteq Places
  BY DEF Places, Admitted, Holding
<1>f. [failures |-> 0, left |-> 0] \in
        [failures : 0 .. MULTIPLIER_MAX, left : 0 .. MULTIPLIER_MAX * COOLDOWN]
  <2>1. 1 \in 1 .. MULTIPLIER_MAX
    BY EndpointAssumption
  <2>2. COOLDOWN \in 0 .. MULTIPLIER_MAX * COOLDOWN
    BY <2>1, CooldownBound
  <2> QED BY <2>2, EndpointAssumption
<1>e. ASSUME NEW place \in Places, Goto(r, place)
      PROVE  pc' \in [Requests -> Places]
  BY <1>e DEF TypeOK, Goto
<1>n. ASSUME End(r)
      PROVE  /\ pc' \in [Requests -> Places]
             /\ AttemptsBounded'
             /\ UNCHANGED retry => RetryBelowLimit'
  BY <1>n, <1>0, <1>p DEF TypeOK, End, Goto, RetryBelowLimit, AttemptsBounded
<1>1. CASE EnterSemaphore(r)
  <2>1. CASE ~active[p] /\ active' = [active EXCEPT ![p] = TRUE]
             /\ Goto(r, "inside") /\ UNCHANGED <<queue, attempt>>
    BY <1>1, <2>1, <1>p, <1>e DEF EnterSemaphore, TypeOK, RetryBelowLimit
  <2>2. CASE queue' = [queue EXCEPT ![p] = Append(@, r)]
             /\ Goto(r, "queued") /\ UNCHANGED <<active, attempt>>
    <3>1. queue[p] \in Seq(Requests)
      BY <1>0 DEF TypeOK
    <3>2. Append(queue[p], r) \in Seq(Requests)
      BY <3>1
    <3>3. queue' \in [Processes -> Seq(Requests)]
      BY <2>2, <3>2 DEF TypeOK
    <3> QED BY <1>1, <2>2, <3>3, <1>p, <1>e DEF EnterSemaphore, TypeOK, RetryBelowLimit
  <2>3. CASE End(r) /\ UNCHANGED sem
    BY <1>1, <2>3, <1>n DEF EnterSemaphore, TypeOK, AttemptsBounded, sem
  <2> QED BY <1>1, <2>1, <2>2, <2>3 DEF EnterSemaphore
<1>2. CASE Heartbeat(r)
  BY <1>2, <1>0 DEF Heartbeat, TypeOK, RetryBelowLimit, sem
<1>3. CASE AbortOnEntry(r)
  BY <1>3, <1>n, FailureTyped
  DEF AbortOnEntry, RecordAbort, TypeOK, AttemptsBounded, sem
<1>q. ASSUME LeaveQueue(r)
      PROVE  queue' \in [Processes -> Seq(Requests)]
  <2>1. PICK i \in 1 .. Len(queue[p]) : queue' = [queue EXCEPT ![p] = RemoveAt(@, i)]
    BY <1>q DEF LeaveQueue
  <2>2. queue[p] \in Seq(Requests)
    BY <1>0 DEF TypeOK
  <2>3. RemoveAt(queue[p], i) \in Seq(Requests)
    BY <2>1, <2>2 DEF RemoveAt
  <2> QED BY <2>1, <2>3 DEF TypeOK
<1>4. CASE QueueTimeout(r)
  BY <1>4, <1>q, <1>n DEF QueueTimeout, LeaveQueue, TypeOK, AttemptsBounded
<1>5. CASE QueueAbort(r)
  BY <1>5, <1>q, <1>n, FailureTyped
  DEF QueueAbort, LeaveQueue, RecordAbort, TypeOK, AttemptsBounded
<1>6. CASE AbortHandoff(r)
  <2>1. ReleaseSemaphore(r, "idle") /\ "idle" \in Places
    BY <1>6, <1>p DEF AbortHandoff
  <2>2. /\ active' \in [Processes -> BOOLEAN]
        /\ queue' \in [Processes -> Seq(Requests)]
        /\ pc' \in [Requests -> Places]
    BY <2>1, ReleaseTyped
  <2>3. /\ AttemptsBounded'
        /\ RetryBelowLimit'
    BY <1>6, <1>0 DEF AbortHandoff, TypeOK, RetryBelowLimit, AttemptsBounded
  <2>4. RecordFailure(r) \/ UNCHANGED <<circuit, cooldown>>
    BY <1>6 DEF AbortHandoff, RecordAbort
  <2> QED BY <1>6, <2>2, <2>3, <2>4, FailureTyped
          DEF AbortHandoff, TypeOK, AttemptsBounded
<1>7. CASE Dequeue(r)
  BY <1>7, <1>p, <1>e DEF Dequeue, TypeOK, RetryBelowLimit
<1>8. CASE CheckSharedCooldown(r)
  BY <1>8, <1>p, <1>e DEF CheckSharedCooldown, TypeOK, RetryBelowLimit, sem
<1>9. CASE AbortWait(r)
  BY <1>9, <1>p, <1>e, FailureTyped
  DEF AbortWait, RecordAbort, TypeOK, RetryBelowLimit, sem
<1>10. CASE AcquireLease(r)
  BY <1>10, <1>0, <1>p, <1>e DEF AcquireLease, TypeOK, RetryBelowLimit, sem
<1>11. CASE LeaseRefused(r) \/ LeaseWaitTimeout(r)
  BY <1>11, <1>p, <1>e
  DEF LeaseRefused, LeaseWaitTimeout, TypeOK, RetryBelowLimit, sem
<1>12. CASE AcquireError(r)
  BY <1>12, <1>p, <1>e, FailureTyped
  DEF AcquireError, RecordUnclassified, TypeOK, RetryBelowLimit, sem
<1>13. CASE HeartbeatError(r)
  BY <1>13 DEF HeartbeatError, TypeOK, RetryBelowLimit, sem
<1>14. CASE StartFetch(r) \/ StartHealthCheck(r) \/ FetchRefused(r)
  BY <1>14, <1>p, <1>e
  DEF StartFetch, StartHealthCheck, FetchRefused, TypeOK, RetryBelowLimit, sem
<1>15. CASE CircuitTooLong(r) \/ AbortCircuitWait(r)
  <2>1. RecordFailure(r) \/ UNCHANGED <<circuit, cooldown>>
    BY <1>15 DEF CircuitTooLong, AbortCircuitWait, Caught, RecordAbort
  <2> QED BY <1>15, <2>1, <1>p, <1>e, FailureTyped
          DEF CircuitTooLong, AbortCircuitWait, TypeOK, RetryBelowLimit, sem
<1>16. CASE HealthOk(r) \/ FetchOk(r)
  <2>1. /\ pc' \in [Requests -> Places]
        /\ UNCHANGED <<lease, cooldown, sem, held, lost, attempt, retry>>
    BY <1>16, <1>p, <1>e DEF HealthOk, FetchOk
  <2>2. circuit' \in [Processes -> [failures : 0 .. MULTIPLIER_MAX,
                                   left : 0 .. MULTIPLIER_MAX * COOLDOWN]]
    BY <1>16, <1>0, <1>f DEF HealthOk, FetchOk, NoFailures, TypeOK
  <2> QED BY <2>1, <2>2 DEF TypeOK, RetryBelowLimit, sem
<1>17. CASE HealthFailed(r)
  <2> DEFINE n == OneMore(CircuitOf(r).failures)
  <2>0. CircuitOf(r).failures \in 0 .. MULTIPLIER_MAX
    BY <1>0 DEF TypeOK, CircuitOf
  <2>1. n \in 1 .. MULTIPLIER_MAX /\ n \in 0 .. MULTIPLIER_MAX
    <3>1. n \in 1 .. MULTIPLIER_MAX
      BY <2>0, OneMoreBound
    <3> QED BY <3>1, EndpointAssumption
  <2>2. COOLDOWN \in 0 .. MULTIPLIER_MAX * COOLDOWN
    BY <2>1, CooldownBound
  <2>3. /\ cooldown' \in 0 .. MULTIPLIER_MAX * COOLDOWN
        /\ circuit' \in [Processes -> [failures : 0 .. MULTIPLIER_MAX,
                                       left : 0 .. MULTIPLIER_MAX * COOLDOWN]]
    <3>1. CASE lost[r]
      BY <1>17, <2>1, <3>1, RecordTyped DEF HealthFailed
    <3>2. CASE ~lost[r]
      <4>1. /\ circuit' = [circuit EXCEPT ![p] = [failures |-> n, left |-> COOLDOWN]]
            /\ UNCHANGED cooldown
        BY <1>17, <3>2 DEF HealthFailed
      <4> HIDE DEF n
      <4> QED BY <4>1, <2>1, <2>2 DEF TypeOK
    <3> QED BY <3>1, <3>2
  <2> QED BY <1>17, <2>3, <1>p, <1>e DEF HealthFailed, TypeOK, RetryBelowLimit, sem
<1>18. CASE FetchFailed(r)
  <2>1. PICK again \in BOOLEAN :
          /\ again => attempt[r] < HTTP_RETRY_LIMIT[r]
          /\ retry' = [retry EXCEPT ![r] = again]
    BY <1>18 DEF FetchFailed
  <2>2. RetryBelowLimit'
    BY <1>18, <2>1 DEF FetchFailed, RetryBelowLimit, TypeOK
  <2> QED BY <1>18, <2>1, <2>2, <1>p, <1>e, FailureTyped DEF FetchFailed, TypeOK, sem
<1>19. CASE ReleaseLease(r)
  BY <1>19, <1>0, <1>p, <1>e DEF ReleaseLease, FreeLease, TypeOK, RetryBelowLimit, sem
<1>20. CASE LeaveSemaphore(r)
  <2>1. (IF retry[r] THEN "retry" ELSE "idle") \in Places
    BY <1>p
  <2>2. /\ active' \in [Processes -> BOOLEAN]
        /\ queue' \in [Processes -> Seq(Requests)]
        /\ pc' \in [Requests -> Places]
    BY <1>20, <2>1, ReleaseTyped DEF LeaveSemaphore
  <2>3. AttemptsBounded'
    BY <1>20, <1>0 DEF LeaveSemaphore, TypeOK, RetryBelowLimit, AttemptsBounded
  <2>4. RetryBelowLimit'
    BY <1>20 DEF LeaveSemaphore, TypeOK, RetryBelowLimit
  <2> QED BY <1>20, <2>2, <2>3, <2>4 DEF LeaveSemaphore, TypeOK, AttemptsBounded
<1> QED BY <1>1, <1>2, <1>3, <1>4, <1>5, <1>6, <1>7, <1>8, <1>9, <1>10, <1>11,
           <1>12, <1>13, <1>14, <1>15, <1>16, <1>17, <1>18, <1>19, <1>20
        DEF Progress, Interruption

LEMMA TypeStep == TypeInv /\ [Next]_vars => TypeInv'
<1> SUFFICES ASSUME TypeInv, [Next]_vars PROVE TypeInv'
  OBVIOUS
<1>1. CASE \E r \in Requests : EnterSemaphore(r) \/ Heartbeat(r)
                                 \/ Progress(r) \/ Interruption(r)
  BY <1>1, RequestType
<1>2. CASE \E p \in Processes : Crash(p)
  <2>1. PICK p \in Processes : Crash(p)
    BY <1>2
  <2>2. 0 \in 0 .. LEASE_TTL /\ "idle" \in Places
        /\ \A r \in Requests : HTTP_RETRY_LIMIT[r] \in Nat
    BY EndpointAssumption, LimitTyped DEF Places
  <2>3. NoFailures \in [failures : 0 .. MULTIPLIER_MAX,
                        left : 0 .. MULTIPLIER_MAX * COOLDOWN]
    <3>1. 1 \in 1 .. MULTIPLIER_MAX
      BY EndpointAssumption
    <3>2. COOLDOWN \in 0 .. MULTIPLIER_MAX * COOLDOWN
      BY <3>1, CooldownBound
    <3> QED BY <3>2, EndpointAssumption DEF NoFailures
  <2>4. TypeOK'
    <3>1. pc' \in [Requests -> Places]
      BY <2>1, <2>2 DEF Crash, TypeInv, TypeOK
    <3>2. held' \in [Requests -> 0 .. LEASE_TTL]
      BY <2>1, <2>2 DEF Crash, TypeInv, TypeOK
    <3>3. AttemptsBounded'
      BY <2>1, <2>2 DEF Crash, TypeInv, TypeOK, AttemptsBounded
    <3>4. lost' \in [Requests -> BOOLEAN] /\ retry' \in [Requests -> BOOLEAN]
      BY <2>1 DEF Crash, TypeInv, TypeOK
    <3>5. circuit' \in [Processes -> [failures : 0 .. MULTIPLIER_MAX,
                                      left : 0 .. MULTIPLIER_MAX * COOLDOWN]]
      BY <2>1, <2>3 DEF Crash, TypeInv, TypeOK
    <3>6. active' \in [Processes -> BOOLEAN] /\ queue' \in [Processes -> Seq(Requests)]
      BY <2>1 DEF Crash, TypeInv, TypeOK
    <3> QED BY <2>1, <3>1, <3>2, <3>3, <3>4, <3>5, <3>6
            DEF Crash, TypeInv, TypeOK, AttemptsBounded
  <2>5. RetryBelowLimit'
    BY <2>1 DEF Crash, TypeInv, TypeOK, RetryBelowLimit
  <2> QED BY <2>4, <2>5 DEF TypeInv
<1>3. CASE Tick
  <2>1. ASSUME NEW m \in Nat, NEW t \in 0 .. m PROVE Less(t) \in 0 .. m
    BY DEF Less
  <2>2. /\ LEASE_TTL \in Nat
        /\ MULTIPLIER_MAX * COOLDOWN \in Nat
    BY EndpointAssumption
  <2>3. lease' \in [token : Requests \cup {NoRequest}, left : 0 .. LEASE_TTL]
    BY <1>3, <2>1, <2>2 DEF Tick, TypeInv, TypeOK
  <2>4. cooldown' \in 0 .. MULTIPLIER_MAX * COOLDOWN
    BY <1>3, <2>1, <2>2 DEF Tick, TypeInv, TypeOK
  <2>5. circuit' \in [Processes -> [failures : 0 .. MULTIPLIER_MAX,
                                    left : 0 .. MULTIPLIER_MAX * COOLDOWN]]
    BY <1>3, <2>1, <2>2 DEF Tick, TypeInv, TypeOK
  <2>6. held' \in [Requests -> 0 .. LEASE_TTL]
    BY <1>3, <2>1, <2>2 DEF Tick, TypeInv, TypeOK
  <2> QED BY <1>3, <2>3, <2>4, <2>5, <2>6
          DEF Tick, TypeInv, TypeOK, RetryBelowLimit, sem
<1>4. CASE UNCHANGED vars
  BY <1>4 DEF vars, TypeInv, TypeOK, RetryBelowLimit
<1> QED BY <1>1, <1>2, <1>3, <1>4 DEF Next

(* Every reachable state of the lease row, the semaphores, the circuits    *)
(* and the requests is well typed: no counter of postChatCompletions       *)
(* leaves its bound.                                                       *)
THEOREM TypeCorrect == Spec => []TypeOK
<1>1. TypeInv => TypeOK
  BY DEF TypeInv
<1> QED BY TypeInit, TypeStep, <1>1, PTL DEF Spec
-----------------------------------------------------------------------------
(* The steps that leave the lease and what requests know of it alone.      *)
LEMMA LeaseUntouched ==
  ASSUME NEW r \in Requests,
         EnterSemaphore(r) \/ Heartbeat(r) \/ Progress(r) \/ Interruption(r)
  PROVE  \/ AcquireLease(r) \/ Heartbeat(r) \/ ReleaseLease(r)
         \/ UNCHANGED <<lease, held>>
<1>1. CASE EnterSemaphore(r)
  BY <1>1 DEF EnterSemaphore
<1>2. CASE Progress(r)
  BY <1>2 DEF Progress, Dequeue, CheckSharedCooldown, LeaseRefused, StartFetch,
     StartHealthCheck, CircuitTooLong, HealthOk, HealthFailed, FetchOk,
     FetchFailed, FetchRefused, LeaveSemaphore
<1>3. CASE Interruption(r)
  BY <1>3 DEF Interruption, AbortOnEntry, QueueTimeout, QueueAbort, AbortHandoff,
     AbortWait, LeaseWaitTimeout, AcquireError, HeartbeatError, AbortCircuitWait
<1> QED BY <1>1, <1>2, <1>3

LEMMA FencedStep == TypeOK /\ LeaseFenced /\ [Next]_vars => LeaseFenced'
<1> SUFFICES ASSUME TypeOK, LeaseFenced, [Next]_vars PROVE LeaseFenced'
  OBVIOUS
<1> USE DEF LeaseFenced
<1>0. /\ LEASE_TTL \in Nat \ {0}
      /\ NoRequest \notin Requests
      /\ held \in [Requests -> 0 .. LEASE_TTL]
      /\ lease \in [token : Requests \cup {NoRequest}, left : 0 .. LEASE_TTL]
  BY EndpointAssumption DEF TypeOK
<1>1. ASSUME NEW r \in Requests,
             EnterSemaphore(r) \/ Heartbeat(r) \/ Progress(r) \/ Interruption(r)
      PROVE  LeaseFenced'
  <2>1. CASE AcquireLease(r)
    <3>1. \A s \in Requests : held[s] = 0
      BY <2>1, <1>0 DEF AcquireLease, LeaseAvailable
    <3> QED BY <2>1, <3>1, <1>0 DEF AcquireLease
  <2>2. CASE Heartbeat(r)
    <3>1. CASE /\ lease.token = r
               /\ lease' = [lease EXCEPT !.left = LEASE_TTL]
               /\ held' = [held EXCEPT ![r] = LEASE_TTL]
      <4>1. \A s \in Requests \ {r} : held[s] = 0
        BY <3>1, <1>0
      <4> QED BY <3>1, <4>1, <1>0
    <3>2. CASE UNCHANGED <<lease, held>>
      BY <3>2
    <3> QED BY <2>2, <3>1, <3>2 DEF Heartbeat
  <2>3. CASE ReleaseLease(r)
    <3>1. CASE lease.token = r
      <4>1. \A s \in Requests \ {r} : held[s] = 0
        BY <3>1, <1>0
      <4> QED BY <2>3, <4>1, <1>0 DEF ReleaseLease
    <3>2. CASE UNCHANGED lease
      BY <2>3, <3>2, <1>0 DEF ReleaseLease
    <3> QED BY <2>3, <3>1, <3>2 DEF ReleaseLease
  <2>4. CASE UNCHANGED <<lease, held>>
    BY <2>4
  <2> QED BY <1>1, <2>1, <2>2, <2>3, <2>4, LeaseUntouched
<1>2. ASSUME NEW p \in Processes, Crash(p) PROVE LeaseFenced'
  BY <1>2, <1>0 DEF Crash
<1>3. CASE Tick
  BY <1>3, <1>0 DEF Tick, Less
<1>4. CASE UNCHANGED vars
  BY <1>4 DEF vars
<1> QED BY <1>1, <1>2, <1>3, <1>4 DEF Next

(* A lease that its request still counts on is the row's: heartbeat and    *)
(* release match the token, acquire takes only a free or expired row, so   *)
(* no late call of a former holder touches it, whatever crashes and store  *)
(* errors happen.                                                          *)
THEOREM LeaseIsFenced == Spec => []LeaseFenced
<1>1. Init => TypeInv /\ LeaseFenced
  BY TypeInit DEF Init, LeaseFenced
<1>2. (TypeInv /\ LeaseFenced) /\ [Next]_vars => (TypeInv /\ LeaseFenced)'
  BY TypeStep, FencedStep DEF TypeInv
<1> QED BY <1>1, <1>2, PTL DEF Spec

(* A row gets a new token only from the request that acquires it, which    *)
(* has not begun to send.                                                  *)
LEMMA NewTokenNotSending ==
  ASSUME TypeOK, [Next]_vars, NEW s \in Requests,
         lease'.token = s, lease.token # s
  PROVE  pc'[s] # "fetching"
<1>0. /\ lease \in [token : Requests \cup {NoRequest}, left : 0 .. LEASE_TTL]
      /\ NoRequest \notin Requests /\ pc \in [Requests -> Places]
  BY EndpointAssumption DEF TypeOK
<1>1. ASSUME NEW r \in Requests,
             EnterSemaphore(r) \/ Heartbeat(r) \/ Progress(r) \/ Interruption(r)
      PROVE  pc'[s] # "fetching"
  <2>1. CASE AcquireLease(r)
    BY <2>1, <1>0 DEF AcquireLease, Goto
  <2>2. CASE Heartbeat(r) \/ ReleaseLease(r) \/ UNCHANGED <<lease, held>>
    BY <2>2, <1>0 DEF Heartbeat, ReleaseLease, FreeLease
  <2> QED BY <1>1, <2>1, <2>2, LeaseUntouched
<1>2. ASSUME NEW p \in Processes, Crash(p) PROVE FALSE
  BY <1>2 DEF Crash
<1>3. CASE Tick
  BY <1>3, <1>0 DEF Tick
<1>4. CASE UNCHANGED vars
  BY <1>4 DEF vars
<1> QED BY <1>1, <1>2, <1>3, <1>4 DEF Next

Users == {r \in Requests : pc[r] = "fetching" /\ held[r] > 0}

LEMMA SlotStep ==
  ASSUME TypeOK, LeaseFenced, LeaseFenced', [Next]_vars
  PROVE  [Slot!Next]_Users
<1>1. CASE Users' = {}
  BY <1>1 DEF Slot!Next, Slot!End, Users
<1>2. CASE Users' # {}
  <2>1. PICK s \in Users' : TRUE
    BY <1>2
  <2>2. s \in Requests /\ pc'[s] = "fetching" /\ held'[s] > 0
    BY <2>1 DEF Users
  <2>3. lease'.token = s
    BY <2>2 DEF LeaseFenced
  <2>4. Users' = {s}
    BY <2>1, <2>3 DEF Users, LeaseFenced
  <2>5. lease.token = s
    BY <2>2, <2>3, NewTokenNotSending
  <2>6. Users \subseteq {s}
    BY <2>5 DEF Users, LeaseFenced
  <2>7. CASE Users = {}
    BY <2>2, <2>4, <2>7 DEF Slot!Next, Slot!Begin, Users
  <2>8. CASE Users # {}
    BY <2>4, <2>6, <2>8
  <2> QED BY <2>7, <2>8
<1> QED BY <1>1, <1>2

(* The detailed protocol implements the single-slot endpoint: requests     *)
(* that send under an unexpired lease use the endpoint one at a time, and  *)
(* the slot is empty between two users.                                    *)
THEOREM SlotImplemented == Spec => SlotSpec
<1>1. Init => TypeInv /\ LeaseFenced /\ Slot!Init
  <2>1. Init => Users = {}
    BY DEF Init, Users
  <2> QED BY <2>1, TypeInit DEF Init, LeaseFenced, Slot!Init, Users
<1>2. (TypeInv /\ LeaseFenced) /\ [Next]_vars
        => (TypeInv /\ LeaseFenced)' /\ [Slot!Next]_Users
  BY TypeStep, FencedStep, SlotStep DEF TypeInv
<1> QED BY <1>1, <1>2, PTL DEF Spec, SlotSpec, Slot!Spec, Users
-----------------------------------------------------------------------------
(* The semaphore.  One lemma per way a step may touch it.                  *)
LEMMA SemMove ==
  ASSUME TypeOK, SemaphoreExclusive, NEW r \in Requests, NEW place \in Admitted,
         pc[r] \in Admitted, Goto(r, place), UNCHANGED queue,
         active' = active \/ active' = [active EXCEPT ![ProcOf[r]] = TRUE]
  PROVE  SemaphoreExclusive'
<1>1. ProcOf[r] \in Processes /\ pc \in [Requests -> Places]
      /\ active \in [Processes -> BOOLEAN] /\ ProcOf \in [Requests -> Processes]
  BY EndpointAssumption DEF TypeOK
<1>2. active[ProcOf[r]]
  BY <1>1 DEF SemaphoreExclusive, ActiveWhileAdmitted
<1>3. \A p \in Processes : active'[p] <=> active[p]
  <2>1. CASE active' = active
    BY <2>1
  <2>2. CASE active' = [active EXCEPT ![ProcOf[r]] = TRUE]
    BY <1>1, <1>2, <2>2
  <2> QED BY <2>1, <2>2
<1>4. \A s \in Requests : pc'[s] \in Admitted <=> pc[s] \in Admitted
  BY <1>1 DEF Goto
<1>5. \A s \in Requests : pc'[s] = "queued" <=> pc[s] = "queued"
  BY <1>1 DEF Goto, Admitted, Holding
<1>6. OneAdmitted'
  BY <1>4 DEF SemaphoreExclusive, OneAdmitted
<1>7. ActiveWhileAdmitted'
  BY <1>3, <1>4 DEF SemaphoreExclusive, ActiveWhileAdmitted
<1>8. WaitBehindActive' /\ QueuedOnce'
  BY <1>3 DEF SemaphoreExclusive, WaitBehindActive, QueuedOnce
<1>9. QueueOfWaiters'
  BY <1>5 DEF SemaphoreExclusive, QueueOfWaiters
<1> QED BY <1>6, <1>7, <1>8, <1>9 DEF SemaphoreExclusive

LEMMA SemOutside ==
  ASSUME TypeOK, SemaphoreExclusive, NEW r \in Requests,
         pc[r] \in {"idle", "retry"}, Goto(r, "idle"), UNCHANGED <<active, queue>>
  PROVE  SemaphoreExclusive'
<1>1. pc \in [Requests -> Places]
  BY DEF TypeOK
<1>2. \A s \in Requests : /\ pc'[s] \in Admitted <=> pc[s] \in Admitted
                          /\ pc'[s] = "queued" <=> pc[s] = "queued"
  BY <1>1 DEF Goto, Admitted, Holding
<1> QED BY <1>2 DEF SemaphoreExclusive, OneAdmitted, ActiveWhileAdmitted,
                    WaitBehindActive, QueuedOnce, QueueOfWaiters

LEMMA SemEnter ==
  ASSUME TypeOK, SemaphoreExclusive, NEW r \in Requests,
         pc[r] \in {"idle", "retry"}, ~active[ProcOf[r]], Goto(r, "inside"),
         active' = [active EXCEPT ![ProcOf[r]] = TRUE], UNCHANGED queue
  PROVE  SemaphoreExclusive'
<1>1. ProcOf[r] \in Processes /\ pc \in [Requests -> Places]
      /\ active \in [Processes -> BOOLEAN] /\ ProcOf \in [Requests -> Processes]
  BY EndpointAssumption DEF TypeOK
<1>2. \A s \in Requests : ProcOf[s] = ProcOf[r] => pc[s] \notin Admitted
  BY <1>1 DEF SemaphoreExclusive, ActiveWhileAdmitted
<1>3. /\ \A s \in Requests \ {r} : pc'[s] = pc[s]
      /\ pc'[r] = "inside" /\ pc'[r] \in Admitted
  BY <1>1 DEF Goto, Admitted
<1>4. OneAdmitted'
  BY <1>2, <1>3 DEF SemaphoreExclusive, OneAdmitted
<1>5. ActiveWhileAdmitted'
  <2> SUFFICES ASSUME NEW p \in Processes
               PROVE  active'[p] <=> \E s \in Requests : ProcOf[s] = p /\ pc'[s] \in Admitted
    BY DEF ActiveWhileAdmitted
  <2>1. CASE p = ProcOf[r]
    BY <1>1, <1>3, <2>1
  <2>2. CASE p # ProcOf[r]
    BY <1>1, <1>3, <2>2 DEF SemaphoreExclusive, ActiveWhileAdmitted
  <2> QED BY <2>1, <2>2
<1>6. WaitBehindActive' /\ QueuedOnce'
  BY <1>1 DEF SemaphoreExclusive, WaitBehindActive, QueuedOnce
<1>7. QueueOfWaiters'
  BY <1>3 DEF SemaphoreExclusive, QueueOfWaiters
<1> QED BY <1>4, <1>5, <1>6, <1>7 DEF SemaphoreExclusive

LEMMA SemEnqueue ==
  ASSUME TypeOK, SemaphoreExclusive, NEW r \in Requests,
         pc[r] \in {"idle", "retry"}, active[ProcOf[r]], Goto(r, "queued"),
         queue' = [queue EXCEPT ![ProcOf[r]] = Append(@, r)], UNCHANGED active
  PROVE  SemaphoreExclusive'
<1> DEFINE o == ProcOf[r]
<1>1. o \in Processes /\ pc \in [Requests -> Places]
      /\ queue \in [Processes -> Seq(Requests)] /\ queue[o] \in Seq(Requests)
  BY EndpointAssumption DEF TypeOK
<1>2. /\ \A s \in Requests \ {r} : pc'[s] = pc[s]
      /\ pc'[r] = "queued" /\ pc'[r] \notin Admitted /\ pc[r] \notin Admitted
      /\ pc[r] # "queued"
  BY <1>1 DEF Goto, Admitted, Holding
<1>3. OneAdmitted' /\ ActiveWhileAdmitted'
  BY <1>2 DEF SemaphoreExclusive, OneAdmitted, ActiveWhileAdmitted
<1>4. /\ queue'[o] = Append(queue[o], r)
      /\ \A p \in Processes \ {o} : queue'[p] = queue[p]
      /\ Len(queue'[o]) = Len(queue[o]) + 1 /\ Len(queue[o]) \in Nat
      /\ \A i \in 1 .. Len(queue[o]) : queue'[o][i] = queue[o][i]
      /\ queue'[o][Len(queue[o]) + 1] = r
  BY <1>1
<1>5. WaitBehindActive'
  BY <1>4 DEF SemaphoreExclusive, WaitBehindActive
<1>6. \A i \in 1 .. Len(queue[o]) : queue[o][i] # r
  BY <1>1, <1>2 DEF SemaphoreExclusive, QueueOfWaiters
<1>7. QueuedOnce'
  <2> SUFFICES ASSUME NEW p \in Processes, NEW i \in 1 .. Len(queue'[p]),
                      NEW j \in 1 .. Len(queue'[p]), queue'[p][i] = queue'[p][j]
               PROVE  i = j
    BY DEF QueuedOnce
  <2>1. CASE p = o
    BY <1>4, <1>6, <2>1 DEF SemaphoreExclusive, QueuedOnce
  <2>2. CASE p # o
    BY <1>4, <2>2 DEF SemaphoreExclusive, QueuedOnce
  <2> QED BY <2>1, <2>2
<1>8. QueueOfWaiters'
  <2> SUFFICES ASSUME NEW p \in Processes, NEW s \in Requests
               PROVE  (\E i \in 1 .. Len(queue'[p]) : queue'[p][i] = s)
                        <=> pc'[s] = "queued" /\ ProcOf[s] = p
    BY DEF QueueOfWaiters
  <2>0. (\E i \in 1 .. Len(queue[p]) : queue[p][i] = s)
          <=> pc[s] = "queued" /\ ProcOf[s] = p
    BY DEF SemaphoreExclusive, QueueOfWaiters
  <2>1. CASE p # o
    BY <1>2, <1>4, <2>0, <2>1
  <2>2. CASE p = o /\ s = r
    <3>1. Len(queue[o]) + 1 \in 1 .. Len(queue'[o])
      BY <1>4
    <3> QED BY <1>2, <1>4, <2>2, <3>1
  <2>3. CASE p = o /\ s # r
    <3>1. (\E i \in 1 .. Len(queue'[o]) : queue'[o][i] = s)
            <=> \E i \in 1 .. Len(queue[o]) : queue[o][i] = s
      BY <1>4, <2>3
    <3> QED BY <1>2, <2>0, <2>3, <3>1
  <2> QED BY <2>1, <2>2, <2>3
<1> QED BY <1>3, <1>5, <1>7, <1>8 DEF SemaphoreExclusive

(* What taking the i-th waiter out of a queue leaves behind.               *)
LEMMA RemoveAtFacts ==
  ASSUME NEW q \in Seq(Requests), NEW i \in 1 .. Len(q)
  PROVE  /\ Len(q) \in Nat /\ Len(RemoveAt(q, i)) = Len(q) - 1
         /\ \A k \in 1 .. (Len(q) - 1) :
              RemoveAt(q, i)[k] = IF k < i THEN q[k] ELSE q[k + 1]
<1> DEFINE front == SubSeq(q, 1, i - 1)
           back  == SubSeq(q, i + 1, Len(q))
<1>0. Len(q) \in Nat /\ i \in Nat /\ 1 <= i /\ i <= Len(q)
  OBVIOUS
<1>1. /\ front \in Seq(Requests) /\ Len(front) = i - 1
      /\ \A k \in 1 .. (i - 1) : front[k] = q[k]
  BY <1>0
<1>2. /\ back \in Seq(Requests) /\ Len(back) = Len(q) - i
      /\ \A k \in 1 .. (Len(q) - i) : back[k] = q[k + i]
  BY <1>0
<1>3. RemoveAt(q, i) = front \o back
  BY DEF RemoveAt
<1> HIDE DEF front, back
<1>4. /\ Len(front \o back) = Len(front) + Len(back)
      /\ \A k \in 1 .. (Len(front) + Len(back)) :
           (front \o back)[k] =
             IF k <= Len(front) THEN front[k] ELSE back[k - Len(front)]
  BY <1>1, <1>2, ConcatProperties
<1>5. ASSUME NEW k \in 1 .. (Len(q) - 1)
      PROVE  (front \o back)[k] = IF k < i THEN q[k] ELSE q[k + 1]
  <2>0. /\ k \in 1 .. (Len(front) + Len(back))
        /\ k < i <=> k <= Len(front)
        /\ k - Len(front) = k - (i - 1)
    BY <1>0, <1>1, <1>2
  <2>1. CASE k < i
    BY <1>0, <1>1, <1>4, <2>0, <2>1
  <2>2. CASE ~(k < i)
    <3>1. k - (i - 1) \in 1 .. (Len(q) - i) /\ (k - (i - 1)) + i = k + 1
      BY <1>0, <2>2
    <3>2. back[k - (i - 1)] = q[k + 1]
      BY <1>2, <3>1
    <3>3. (front \o back)[k] = back[k - (i - 1)]
      BY <1>4, <2>0, <2>2
    <3> QED BY <2>2, <3>2, <3>3
  <2> QED BY <2>1, <2>2
<1>6. Len(front \o back) = Len(q) - 1
  BY <1>0, <1>1, <1>2, <1>4
<1> QED BY <1>0, <1>3, <1>5, <1>6

LEMMA SemLeaveQueue ==
  ASSUME TypeOK, SemaphoreExclusive, NEW r \in Requests, LeaveQueue(r)
  PROVE  SemaphoreExclusive'
<1> DEFINE o == ProcOf[r]
           q == queue[o]
<1>1. o \in Processes /\ pc \in [Requests -> Places]
      /\ queue \in [Processes -> Seq(Requests)] /\ q \in Seq(Requests)
  BY EndpointAssumption DEF TypeOK
<1>2. PICK i \in 1 .. Len(q) : q[i] = r /\ queue' = [queue EXCEPT ![o] = RemoveAt(@, i)]
  BY DEF LeaveQueue
<1>3. /\ pc[r] = "queued" /\ pc'[r] = "idle" /\ UNCHANGED active
      /\ \A s \in Requests \ {r} : pc'[s] = pc[s]
  BY <1>1 DEF LeaveQueue, End, Goto
<1>4. \A s \in Requests : pc'[s] \in Admitted <=> pc[s] \in Admitted
  BY <1>3 DEF Admitted, Holding
<1>5. OneAdmitted' /\ ActiveWhileAdmitted'
  BY <1>3, <1>4 DEF SemaphoreExclusive, OneAdmitted, ActiveWhileAdmitted
<1>6. /\ queue'[o] = RemoveAt(q, i)
      /\ \A p \in Processes \ {o} : queue'[p] = queue[p]
  BY <1>1, <1>2
<1>7. /\ Len(q) \in Nat /\ Len(RemoveAt(q, i)) = Len(q) - 1
      /\ \A k \in 1 .. (Len(q) - 1) :
           RemoveAt(q, i)[k] = IF k < i THEN q[k] ELSE q[k + 1]
  BY <1>1, <1>2, RemoveAtFacts
<1> HIDE DEF q
<1>8. WaitBehindActive'
  <2>1. active[o]
    <3>1. q # <<>>
      BY <1>2, <1>7
    <3> QED BY <1>1, <3>1 DEF q, SemaphoreExclusive, WaitBehindActive
  <2> QED BY <1>3, <1>6, <2>1 DEF SemaphoreExclusive, WaitBehindActive
<1>d. \A a, b \in 1 .. Len(q) : q[a] = q[b] => a = b
  BY <1>1 DEF q, SemaphoreExclusive, QueuedOnce
<1>9. QueuedOnce'
  <2> SUFFICES ASSUME NEW p \in Processes, NEW a \in 1 .. Len(queue'[p]),
                      NEW b \in 1 .. Len(queue'[p]), queue'[p][a] = queue'[p][b]
               PROVE  a = b
    BY DEF QueuedOnce
  <2>1. CASE p = o
    <3>1. a \in 1 .. (Len(q) - 1) /\ b \in 1 .. (Len(q) - 1)
      BY <1>6, <1>7, <2>1
    <3>2. RemoveAt(q, i)[a] = RemoveAt(q, i)[b]
      BY <1>6, <2>1
    <3>3. CASE a < i /\ b < i
      BY <1>7, <1>d, <3>1, <3>2, <3>3
    <3>4. CASE a < i /\ ~(b < i)
      BY <1>7, <1>d, <3>1, <3>2, <3>4
    <3>5. CASE ~(a < i) /\ b < i
      BY <1>7, <1>d, <3>1, <3>2, <3>5
    <3>6. CASE ~(a < i) /\ ~(b < i)
      BY <1>7, <1>d, <3>1, <3>2, <3>6
    <3> QED BY <3>3, <3>4, <3>5, <3>6
  <2>2. CASE p # o
    BY <1>6, <2>2 DEF SemaphoreExclusive, QueuedOnce
  <2> QED BY <2>1, <2>2
<1>10. QueueOfWaiters'
  <2> SUFFICES ASSUME NEW p \in Processes, NEW s \in Requests
               PROVE  (\E k \in 1 .. Len(queue'[p]) : queue'[p][k] = s)
                        <=> pc'[s] = "queued" /\ ProcOf[s] = p
    BY DEF QueueOfWaiters
  <2>0. (\E k \in 1 .. Len(queue[p]) : queue[p][k] = s)
          <=> pc[s] = "queued" /\ ProcOf[s] = p
    BY DEF SemaphoreExclusive, QueueOfWaiters
  <2>1. CASE p # o
    BY <1>3, <1>6, <2>0, <2>1
  <2>2. CASE p = o /\ s = r
    <3>1. ASSUME NEW k \in 1 .. (Len(q) - 1), RemoveAt(q, i)[k] = r PROVE FALSE
      <4>1. CASE k < i
        BY <1>2, <1>7, <1>d, <3>1, <4>1
      <4>2. CASE ~(k < i)
        BY <1>2, <1>7, <1>d, <3>1, <4>2
      <4> QED BY <4>1, <4>2
    <3> QED BY <1>3, <1>6, <1>7, <2>2, <3>1
  <2>3. CASE p = o /\ s # r
    <3>1. ASSUME NEW k \in 1 .. (Len(q) - 1), RemoveAt(q, i)[k] = s
          PROVE  \E m \in 1 .. Len(q) : q[m] = s
      <4>1. CASE k < i
        <5>1. k \in 1 .. Len(q) /\ q[k] = s
          BY <1>7, <3>1, <4>1
        <5> QED BY <5>1
      <4>2. CASE ~(k < i)
        <5>1. k + 1 \in 1 .. Len(q) /\ q[k + 1] = s
          BY <1>7, <3>1, <4>2
        <5> QED BY <5>1
      <4> QED BY <4>1, <4>2
    <3>2. ASSUME NEW m \in 1 .. Len(q), q[m] = s
          PROVE  \E k \in 1 .. (Len(q) - 1) : RemoveAt(q, i)[k] = s
      <4>0. m # i
        BY <1>2, <2>3, <3>2
      <4>1. CASE m < i
        <5>1. m \in 1 .. (Len(q) - 1) /\ RemoveAt(q, i)[m] = s
          BY <1>2, <1>7, <3>2, <4>1
        <5> QED BY <5>1
      <4>2. CASE m > i
        <5>1. /\ m - 1 \in 1 .. (Len(q) - 1) /\ ~(m - 1 < i) /\ (m - 1) + 1 = m
          BY <1>2, <1>7, <4>2
        <5>2. RemoveAt(q, i)[m - 1] = s
          BY <1>7, <3>2, <5>1
        <5> QED BY <5>1, <5>2
      <4> QED BY <4>0, <4>1, <4>2
    <3> QED BY <1>3, <1>6, <1>7, <2>0, <2>3, <3>1, <3>2 DEF q
  <2> QED BY <2>1, <2>2, <2>3
<1> QED BY <1>5, <1>8, <1>9, <1>10 DEF SemaphoreExclusive

LEMMA SemRelease ==
  ASSUME TypeOK, SemaphoreExclusive, NEW r \in Requests, pc[r] \in Admitted,
         NEW next \in {"idle", "retry"}, ReleaseSemaphore(r, next)
  PROVE  SemaphoreExclusive'
<1> DEFINE o == ProcOf[r]
           q == queue[o]
<1>1. o \in Processes /\ pc \in [Requests -> Places]
      /\ queue \in [Processes -> Seq(Requests)] /\ q \in Seq(Requests)
      /\ active \in [Processes -> BOOLEAN] /\ ProcOf \in [Requests -> Processes]
  BY EndpointAssumption DEF TypeOK
<1>2. next \notin Admitted /\ next # "queued" /\ "handed" \in Admitted
      /\ pc[r] # "queued" /\ "handed" # "queued" /\ "queued" \notin Admitted
  BY DEF Admitted, Holding
<1>3. \A s \in Requests : ProcOf[s] = o /\ pc[s] \in Admitted => s = r
  BY DEF SemaphoreExclusive, OneAdmitted
<1>4. CASE /\ q # <<>> /\ queue' = [queue EXCEPT ![o] = Tail(q)] /\ UNCHANGED active
           /\ pc' = [pc EXCEPT ![r] = next, ![Head(q)] = "handed"]
  <2> DEFINE h == q[1]
  <2>1. /\ Len(q) \in Nat \ {0} /\ Head(q) = h /\ h \in Requests
        /\ Tail(q) \in Seq(Requests) /\ Len(Tail(q)) = Len(q) - 1
        /\ \A k \in 1 .. (Len(q) - 1) : Tail(q)[k] = q[k + 1]
    BY <1>1, <1>4
  <2>2. pc[h] = "queued" /\ ProcOf[h] = o
    <3>1. 1 \in 1 .. Len(q)
      BY <2>1
    <3> QED BY <1>1, <2>1, <3>1 DEF SemaphoreExclusive, QueueOfWaiters
  <2>3. h # r
    BY <1>2, <2>2
  <2> HIDE DEF h
  <2>4. /\ pc'[r] = next /\ pc'[h] = "handed"
        /\ \A s \in Requests \ {r, h} : pc'[s] = pc[s]
    BY <1>1, <1>4, <2>1, <2>3
  <2>5. /\ queue'[o] = Tail(q)
        /\ \A p \in Processes \ {o} : queue'[p] = queue[p]
    BY <1>1, <1>4
  <2>6. active[o]
    BY <1>1 DEF SemaphoreExclusive, ActiveWhileAdmitted
  <2>7. OneAdmitted'
    <3> SUFFICES ASSUME NEW s \in Requests, NEW t \in Requests,
                        pc'[s] \in Admitted, pc'[t] \in Admitted, ProcOf[s] = ProcOf[t]
                 PROVE  s = t
      BY DEF OneAdmitted
    <3>1. s # r /\ t # r
      BY <1>2, <2>4
    <3>2. CASE s = h /\ t # h
      BY <1>3, <2>2, <2>4, <3>1, <3>2
    <3>3. CASE s # h /\ t = h
      BY <1>3, <2>2, <2>4, <3>1, <3>3
    <3>4. CASE s # h /\ t # h
      BY <2>4, <3>1, <3>4 DEF SemaphoreExclusive, OneAdmitted
    <3> QED BY <3>2, <3>3, <3>4
  <2>8. ActiveWhileAdmitted'
    <3> SUFFICES ASSUME NEW p \in Processes
                 PROVE  active'[p] <=> \E s \in Requests : ProcOf[s] = p /\ pc'[s] \in Admitted
      BY DEF ActiveWhileAdmitted
    <3>1. CASE p = o
      BY <1>2, <1>4, <2>1, <2>2, <2>4, <2>6, <3>1
    <3>2. CASE p # o
      BY <1>4, <2>2, <2>4, <3>2 DEF SemaphoreExclusive, ActiveWhileAdmitted
    <3> QED BY <3>1, <3>2
  <2>9. WaitBehindActive'
    BY <1>4, <2>5, <2>6 DEF SemaphoreExclusive, WaitBehindActive
  <2>d. \A a, b \in 1 .. Len(q) : q[a] = q[b] => a = b
    BY <1>1 DEF SemaphoreExclusive, QueuedOnce
  <2>10. QueuedOnce'
    <3> SUFFICES ASSUME NEW p \in Processes, NEW a \in 1 .. Len(queue'[p]),
                        NEW b \in 1 .. Len(queue'[p]), queue'[p][a] = queue'[p][b]
                 PROVE  a = b
      BY DEF QueuedOnce
    <3>1. CASE p = o
      <4>1. /\ a + 1 \in 1 .. Len(q) /\ b + 1 \in 1 .. Len(q)
            /\ q[a + 1] = q[b + 1]
        <5>1. a \in 1 .. (Len(q) - 1) /\ b \in 1 .. (Len(q) - 1)
          BY <2>1, <2>5, <3>1
        <5>2. Tail(q)[a] = Tail(q)[b]
          BY <2>5, <3>1
        <5> HIDE DEF q
        <5>3. q[a + 1] = q[b + 1]
          BY <2>1, <5>1, <5>2
        <5> QED BY <2>1, <5>1, <5>3
      <4>2. a + 1 = b + 1 /\ a \in Int /\ b \in Int
        BY <2>d, <4>1
      <4> QED BY <4>2
    <3>2. CASE p # o
      BY <2>5, <3>2 DEF SemaphoreExclusive, QueuedOnce
    <3> QED BY <3>1, <3>2
  <2>11. QueueOfWaiters'
    <3> SUFFICES ASSUME NEW p \in Processes, NEW s \in Requests
                 PROVE  (\E k \in 1 .. Len(queue'[p]) : queue'[p][k] = s)
                          <=> pc'[s] = "queued" /\ ProcOf[s] = p
      BY DEF QueueOfWaiters
    <3>0. (\E k \in 1 .. Len(queue[p]) : queue[p][k] = s)
            <=> pc[s] = "queued" /\ ProcOf[s] = p
      BY DEF SemaphoreExclusive, QueueOfWaiters
    <3>1. CASE p # o
      BY <1>2, <2>2, <2>4, <2>5, <3>0, <3>1
    <3>2. CASE p = o /\ s = h
      <4>1. ASSUME NEW k \in 1 .. (Len(q) - 1), Tail(q)[k] = h PROVE FALSE
        <5>1. k + 1 \in 1 .. Len(q) /\ 1 \in 1 .. Len(q) /\ q[k + 1] = q[1]
          BY <2>1, <4>1 DEF h
        <5> QED BY <2>d, <4>1, <5>1
      <4> QED BY <1>2, <2>1, <2>4, <2>5, <3>2, <4>1
    <3>3. CASE p = o /\ s # h
      <4>1. ASSUME NEW k \in 1 .. (Len(q) - 1), Tail(q)[k] = s
            PROVE  \E m \in 1 .. Len(q) : q[m] = s
        <5>1. k + 1 \in 1 .. Len(q) /\ q[k + 1] = s
          BY <2>1, <4>1
        <5> QED BY <5>1
      <4>2. ASSUME NEW m \in 1 .. Len(q), q[m] = s
            PROVE  \E k \in 1 .. (Len(q) - 1) : Tail(q)[k] = s
        <5>1. m # 1
          BY <3>3, <4>2 DEF h
        <5>2. m - 1 \in 1 .. (Len(q) - 1) /\ (m - 1) + 1 = m
          BY <2>1, <5>1
        <5>3. Tail(q)[m - 1] = s
          BY <2>1, <4>2, <5>2
        <5> QED BY <5>2, <5>3
      <4>3. (\E k \in 1 .. Len(queue'[o]) : queue'[o][k] = s)
              <=> \E m \in 1 .. Len(q) : q[m] = s
        BY <2>1, <2>5, <4>1, <4>2
      <4>4. pc'[s] = "queued" <=> pc[s] = "queued"
        BY <1>2, <2>4, <3>3
      <4> QED BY <3>0, <3>3, <4>3, <4>4
    <3> QED BY <3>1, <3>2, <3>3
  <2> QED BY <2>7, <2>8, <2>9, <2>10, <2>11 DEF SemaphoreExclusive
<1>5. CASE q = <<>> /\ active' = [active EXCEPT ![o] = FALSE] /\ Goto(r, next)
           /\ UNCHANGED queue
  <2>1. pc'[r] = next /\ \A s \in Requests \ {r} : pc'[s] = pc[s]
    BY <1>1, <1>5 DEF Goto
  <2>2. ~active'[o] /\ \A p \in Processes \ {o} : active'[p] = active[p]
    BY <1>1, <1>5
  <2>3. OneAdmitted'
    BY <1>2, <2>1 DEF SemaphoreExclusive, OneAdmitted
  <2>4. ActiveWhileAdmitted'
    <3> SUFFICES ASSUME NEW p \in Processes
                 PROVE  active'[p] <=> \E s \in Requests : ProcOf[s] = p /\ pc'[s] \in Admitted
      BY DEF ActiveWhileAdmitted
    <3>1. CASE p = o
      BY <1>2, <1>3, <2>1, <2>2, <3>1
    <3>2. CASE p # o
      BY <2>1, <2>2, <3>2 DEF SemaphoreExclusive, ActiveWhileAdmitted
    <3> QED BY <3>1, <3>2
  <2>5. WaitBehindActive'
    BY <1>5, <2>2 DEF SemaphoreExclusive, WaitBehindActive
  <2>6. QueuedOnce'
    BY <1>5 DEF SemaphoreExclusive, QueuedOnce
  <2>7. QueueOfWaiters'
    BY <1>2, <1>5, <2>1 DEF SemaphoreExclusive, QueueOfWaiters
  <2> QED BY <2>3, <2>4, <2>5, <2>6, <2>7 DEF SemaphoreExclusive
<1> QED BY <1>4, <1>5 DEF ReleaseSemaphore

LEMMA SemCrash ==
  ASSUME TypeOK, SemaphoreExclusive, NEW o \in Processes, Crash(o)
  PROVE  SemaphoreExclusive'
<1>1. /\ ~active'[o] /\ queue'[o] = <<>>
      /\ \A p \in Processes \ {o} : active'[p] = active[p] /\ queue'[p] = queue[p]
  BY DEF Crash, TypeOK
<1>2. \A r \in Requests : pc'[r] = IF ProcOf[r] = o THEN "idle" ELSE pc[r]
  BY DEF Crash
<1>3. "idle" \notin Admitted /\ "idle" # "queued"
  BY DEF Admitted, Holding
<1>4. OneAdmitted'
  BY <1>2, <1>3 DEF SemaphoreExclusive, OneAdmitted
<1>5. ActiveWhileAdmitted'
  BY <1>1, <1>2, <1>3 DEF SemaphoreExclusive, ActiveWhileAdmitted
<1>6. WaitBehindActive' /\ QueuedOnce'
  <2>1. Len(queue'[o]) = 0
    BY <1>1
  <2> QED BY <1>1, <2>1 DEF SemaphoreExclusive, WaitBehindActive, QueuedOnce
<1>7. QueueOfWaiters'
  <2> SUFFICES ASSUME NEW p \in Processes, NEW s \in Requests
               PROVE  (\E i \in 1 .. Len(queue'[p]) : queue'[p][i] = s)
                        <=> pc'[s] = "queued" /\ ProcOf[s] = p
    BY DEF QueueOfWaiters
  <2>1. CASE p = o
    <3>1. Len(queue'[p]) = 0
      BY <1>1, <2>1
    <3> QED BY <1>2, <1>3, <2>1, <3>1
  <2>2. CASE p # o
    BY <1>1, <1>2, <2>2 DEF SemaphoreExclusive, QueueOfWaiters
  <2> QED BY <2>1, <2>2
<1> QED BY <1>4, <1>5, <1>6, <1>7 DEF SemaphoreExclusive

LEMMA SemStep == TypeOK /\ SemaphoreExclusive /\ [Next]_vars => SemaphoreExclusive'
<1> SUFFICES ASSUME TypeOK, SemaphoreExclusive, [Next]_vars PROVE SemaphoreExclusive'
  OBVIOUS
<1>0. ASSUME UNCHANGED <<active, queue, pc>> PROVE SemaphoreExclusive'
  BY <1>0 DEF SemaphoreExclusive, OneAdmitted, ActiveWhileAdmitted,
              WaitBehindActive, QueuedOnce, QueueOfWaiters
<1>1. ASSUME NEW r \in Requests, EnterSemaphore(r) PROVE SemaphoreExclusive'
  BY <1>1, SemEnter, SemEnqueue, SemOutside DEF EnterSemaphore, End, sem
<1>2. ASSUME NEW r \in Requests, Heartbeat(r) \/ HeartbeatError(r)
      PROVE  SemaphoreExclusive'
  BY <1>0, <1>2 DEF Heartbeat, HeartbeatError, sem
<1>3. ASSUME NEW r \in Requests, AbortOnEntry(r) PROVE SemaphoreExclusive'
  BY <1>3, SemOutside DEF AbortOnEntry, End, sem
<1>4. ASSUME NEW r \in Requests, QueueTimeout(r) \/ QueueAbort(r)
      PROVE  SemaphoreExclusive'
  BY <1>4, SemLeaveQueue DEF QueueTimeout, QueueAbort
<1>5. ASSUME NEW r \in Requests, AbortHandoff(r) PROVE SemaphoreExclusive'
  <2>1. pc[r] \in Admitted
    BY <1>5 DEF AbortHandoff, Admitted
  <2> QED BY <1>5, <2>1, SemRelease DEF AbortHandoff
<1>6. ASSUME NEW r \in Requests, LeaveSemaphore(r) PROVE SemaphoreExclusive'
  <2>1. pc[r] \in Admitted
    BY <1>6 DEF LeaveSemaphore, Admitted
  <2>2. (IF retry[r] THEN "retry" ELSE "idle") \in {"idle", "retry"}
    OBVIOUS
  <2> QED BY <1>6, <2>1, <2>2, SemRelease DEF LeaveSemaphore
<1>7. ASSUME NEW r \in Requests, Dequeue(r) PROVE SemaphoreExclusive'
  BY <1>7, SemMove DEF Dequeue, Admitted
<1>8. ASSUME NEW r \in Requests, NEW place \in Admitted, pc[r] \in Admitted,
             Goto(r, place), UNCHANGED sem
      PROVE  SemaphoreExclusive'
  BY <1>8, SemMove DEF sem
<1>9. ASSUME NEW r \in Requests,
             \/ CheckSharedCooldown(r) \/ AcquireLease(r) \/ LeaseRefused(r)
             \/ StartFetch(r) \/ StartHealthCheck(r) \/ CircuitTooLong(r)
             \/ HealthOk(r) \/ HealthFailed(r)
             \/ FetchOk(r) \/ FetchFailed(r) \/ FetchRefused(r)
             \/ ReleaseLease(r) \/ AbortWait(r) \/ LeaseWaitTimeout(r)
             \/ AcquireError(r) \/ AbortCircuitWait(r)
      PROVE  SemaphoreExclusive'
  <2>1. /\ pc[r] \in Admitted /\ UNCHANGED sem
        /\ \E place \in Admitted : Goto(r, place)
    <3>1. CASE \/ CheckSharedCooldown(r) \/ AcquireLease(r) \/ LeaseRefused(r)
               \/ LeaseWaitTimeout(r) \/ AbortWait(r) \/ AcquireError(r)
      BY <3>1 DEF CheckSharedCooldown, AcquireLease, LeaseRefused,
                  LeaseWaitTimeout, AbortWait, AcquireError, Admitted, Holding
    <3>2. CASE \/ StartFetch(r) \/ StartHealthCheck(r) \/ CircuitTooLong(r)
               \/ HealthOk(r) \/ HealthFailed(r) \/ AbortCircuitWait(r)
      BY <3>2 DEF StartFetch, StartHealthCheck, CircuitTooLong, HealthOk,
                  HealthFailed, AbortCircuitWait, Admitted, Holding
    <3>3. CASE FetchOk(r) \/ FetchFailed(r) \/ FetchRefused(r) \/ ReleaseLease(r)
      BY <3>3 DEF FetchOk, FetchFailed, FetchRefused, ReleaseLease,
                  Admitted, Holding
    <3> QED BY <1>9, <3>1, <3>2, <3>3
  <2> QED BY <1>8, <2>1
<1>10. ASSUME NEW p \in Processes, Crash(p) PROVE SemaphoreExclusive'
  BY <1>10, SemCrash
<1>11. CASE Tick
  BY <1>0, <1>11 DEF Tick, sem
<1>12. CASE UNCHANGED vars
  BY <1>0, <1>12 DEF vars
<1> QED BY <1>1, <1>2, <1>3, <1>4, <1>5, <1>6, <1>7, <1>9, <1>10, <1>11, <1>12
        DEF Next, Progress, Interruption

(* The process-local semaphore neither admits two requests nor loses the   *)
(* slot or a waiter, for any number of requests, whatever handoffs,        *)
(* timeouts, aborts and crashes interleave.                                *)
THEOREM SemaphoreIsExclusive == Spec => []SemaphoreExclusive
<1>1. Init => SemaphoreExclusive
  <2> SUFFICES ASSUME Init PROVE SemaphoreExclusive
    OBVIOUS
  <2>1. \A r \in Requests : pc[r] \notin Admitted /\ pc[r] # "queued"
    BY DEF Init, Admitted, Holding
  <2>2. \A p \in Processes : ~active[p] /\ queue[p] = <<>> /\ Len(queue[p]) = 0
    BY DEF Init
  <2>3. OneAdmitted /\ ActiveWhileAdmitted /\ WaitBehindActive
    BY <2>1, <2>2 DEF OneAdmitted, ActiveWhileAdmitted, WaitBehindActive
  <2>4. QueuedOnce /\ QueueOfWaiters
    BY <2>1, <2>2 DEF QueuedOnce, QueueOfWaiters
  <2> QED BY <2>3, <2>4 DEF SemaphoreExclusive
<1>2. (TypeInv /\ SemaphoreExclusive) /\ [Next]_vars
        => (TypeInv /\ SemaphoreExclusive)'
  BY TypeStep, SemStep DEF TypeInv
<1> QED BY TypeInit, <1>1, <1>2, PTL DEF Spec
=============================================================================
