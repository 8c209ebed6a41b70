-------------------------- MODULE EndpointRequests --------------------------
(***************************************************************************)
(* Requests of the qwen-local-agent adapter to one protected, single-slot  *)
(* model endpoint (packages/runtime/.../qwenLocalAgent/api.ts), together   *)
(* with the lease row that the processes share through SQLite              *)
(* (packages/data, createDbRuntimeEndpointLeaseStore).                     *)
(*                                                                         *)
(* A request passes a FIFO semaphore of its own process, waits for the     *)
(* shared cooldown, takes the shared lease, passes the circuit breaker of  *)
(* its process and then sends.  While it holds the lease a timer renews    *)
(* it.  Failures open the circuit and set the shared cooldown.             *)
(*                                                                         *)
(* A point in time (leaseExpiresAt, cooldownUntil) is modelled by the time *)
(* left until it; Tick lets time pass for all of them.  A delay is a step  *)
(* that may come at any time: whatever was waited for is looked at again   *)
(* by the step that needs it.  A call of the lease store is one SQLite     *)
(* statement and one step.  The lease token is fresh for each acquisition  *)
(* and a request has at most one lease, so the request itself stands for   *)
(* its token and for its process's holderId.                               *)
(***************************************************************************)
EXTENDS Integers, Sequences

CONSTANTS
  Requests,          \* callers of postChatCompletions
  Processes,         \* agent and API processes: one semaphore and circuit each
  ProcOf,            \* the process of a request
  NoRequest,         \* the lease row without holder and token
  LEASE_TTL,         \* endpointLeaseTtlMs, in ticks
  COOLDOWN,          \* endpointCooldownMs, in ticks
  COOLDOWN_WAIT_MAX, \* endpointCooldownWaitMaxMs, in ticks
  MULTIPLIER_MAX,    \* bound of the cooldown multiplier (4 in the code)
  QUEUE_LIMIT,       \* endpointQueueLimit
  HTTP_RETRY_LIMIT   \* endpointHttpRetryLimit of a request's profile

ASSUME EndpointAssumption ==
  /\ ProcOf \in [Requests -> Processes]
  /\ NoRequest \notin Requests
  /\ LEASE_TTL \in Nat \ {0}
  /\ COOLDOWN \in Nat \ {0}
  /\ COOLDOWN_WAIT_MAX \in Nat
  /\ MULTIPLIER_MAX \in Nat \ {0}
  /\ QUEUE_LIMIT \in Nat
  /\ HTTP_RETRY_LIMIT \in [Requests -> Nat]

VARIABLES
  lease,     \* the row's lease: its token and the time left
  cooldown,  \* the row's cooldownUntil: time left
  active,    \* endpointSemaphores, per process: the slot is taken
  queue,     \* endpointSemaphores, per process: the waiting requests
  circuit,   \* endpointCircuitBreakers, per process (failures = 0: no entry)
  pc,        \* where a request is
  held,      \* time left of the lease as its request last heard of it
  lost,      \* leaseLostError is set and the fetch is aborted
  attempt,   \* HTTP retries of a request so far
  retry      \* the request will try again after it left the semaphore

vars ==
  <<lease, cooldown, active, queue, circuit, pc, held, lost, attempt, retry>>

sem == <<active, queue>>   \* endpointSemaphores

Holding  == {"leased", "health", "fetching"}
Admitted == {"handed", "inside", "lease", "acquire", "closing", "leaving"}
              \cup Holding
Places   == {"idle", "retry", "queued"} \cup Admitted

FreeLease  == [token |-> NoRequest, left |-> 0]
NoFailures == [failures |-> 0, left |-> 0]

(* One type invariant for the row, the process state and the requests.     *)
TypeOK ==
  /\ lease \in [token : Requests \cup {NoRequest}, left : 0 .. LEASE_TTL]
  /\ cooldown \in 0 .. MULTIPLIER_MAX * COOLDOWN
  /\ active \in [Processes -> BOOLEAN]
  /\ queue \in [Processes -> Seq(Requests)]
  /\ circuit \in [Processes -> [failures : 0 .. MULTIPLIER_MAX,
                                left : 0 .. MULTIPLIER_MAX * COOLDOWN]]
  /\ pc \in [Requests -> Places]
  /\ held \in [Requests -> 0 .. LEASE_TTL]
  /\ lost \in [Requests -> BOOLEAN]
  /\ attempt \in [Requests -> Nat]
  /\ \A r \in Requests : attempt[r] <= HTTP_RETRY_LIMIT[r]
  /\ retry \in [Requests -> BOOLEAN]
-----------------------------------------------------------------------------
Init ==
  /\ lease = FreeLease
  /\ cooldown = 0
  /\ active = [p \in Processes |-> FALSE]
  /\ queue = [p \in Processes |-> <<>>]
  /\ circuit = [p \in Processes |-> NoFailures]
  /\ pc = [r \in Requests |-> "idle"]
  /\ held = [r \in Requests |-> 0]
  /\ lost = [r \in Requests |-> FALSE]
  /\ attempt = [r \in Requests |-> 0]
  /\ retry = [r \in Requests |-> FALSE]

Goto(r, place) == pc' = [pc EXCEPT ![r] = place]

(* postChatCompletions returns or throws.                                  *)
End(r) == Goto(r, "idle") /\ attempt' = [attempt EXCEPT ![r] = 0]

CircuitOf(r) == circuit[ProcOf[r]]

(* Mutant: the multiplier without its bound.                               *)
MutUnbounded(failures) == failures + 1

(* One more failure; the count matters only up to the multiplier's bound.  *)
OneMore(failures) ==
  IF failures < MULTIPLIER_MAX THEN failures + 1 ELSE MULTIPLIER_MAX

(* recordEndpointFailure for an error that trips the circuit, after earlier *)
(* failures: open the local circuit and set the shared cooldown, longer or  *)
(* shorter than the one it replaces.  An error of the store is only logged. *)
RecordFailureAfter(r, earlier) ==
  LET n == OneMore(earlier)
  IN /\ circuit' = [circuit EXCEPT ![ProcOf[r]] =
                      [failures |-> n, left |-> n * COOLDOWN]]
     /\ cooldown' \in {n * COOLDOWN, cooldown}

RecordFailure(r) == RecordFailureAfter(r, CircuitOf(r).failures)

(* An abort is classified by the signal's reason: a run timeout trips the  *)
(* circuit, a cancellation does not.  Where the request waited when the    *)
(* signal fired makes no difference: classifyRequestAbort replaces the     *)
(* local-wait error before recordEndpointFailure can recognise it.         *)
RecordAbort(r) == RecordFailure(r) \/ UNCHANGED <<circuit, cooldown>>

(* An error whose text decides whether it counts as an endpoint failure.   *)
RecordUnclassified(r) == RecordFailure(r) \/ UNCHANGED <<circuit, cooldown>>
-----------------------------------------------------------------------------
(* acquireEndpointSemaphore: the fast path, the queue, the full queue.     *)
EnterSemaphore(r) ==
  LET p == ProcOf[r]
  IN /\ pc[r] \in {"idle", "retry"}
     /\ \/ /\ ~active[p]
           /\ active' = [active EXCEPT ![p] = TRUE]
           /\ Goto(r, "inside")
           /\ UNCHANGED <<queue, attempt>>
        \/ /\ active[p] /\ Len(queue[p]) < QUEUE_LIMIT
           /\ queue' = [queue EXCEPT ![p] = Append(@, r)]
           /\ Goto(r, "queued")
           /\ UNCHANGED <<active, attempt>>
        \/ /\ active[p] /\ Len(queue[p]) >= QUEUE_LIMIT
           /\ End(r)
           /\ UNCHANGED sem
     /\ UNCHANGED <<lease, cooldown, circuit, held, lost, retry>>

(* The signal is found aborted on entry.                                   *)
AbortOnEntry(r) ==
  /\ pc[r] \in {"idle", "retry"}
  /\ End(r)
  /\ RecordAbort(r)
  /\ UNCHANGED <<lease, sem, held, lost, retry>>

RemoveAt(q, i) == SubSeq(q, 1, i - 1) \o SubSeq(q, i + 1, Len(q))

LeaveQueue(r) ==
  /\ pc[r] = "queued"
  /\ \E i \in 1 .. Len(queue[ProcOf[r]]) :
       /\ queue[ProcOf[r]][i] = r
       /\ queue' = [queue EXCEPT ![ProcOf[r]] = RemoveAt(@, i)]
  /\ End(r)
  /\ UNCHANGED active

(* onTimeout of a queue entry: a local outcome, no failure.                *)
QueueTimeout(r) ==
  /\ LeaveQueue(r)
  /\ UNCHANGED <<lease, cooldown, circuit, held, lost, retry>>

(* onAbort of a queue entry.                                               *)
QueueAbort(r) ==
  /\ LeaveQueue(r)
  /\ RecordAbort(r)
  /\ UNCHANGED <<lease, held, lost, retry>>

(* Mutant: the slot is marked free although it is handed to a waiter.      *)
MutReleaseClearsActive(r, next) ==
  LET p == ProcOf[r]
      q == queue[p]
  IN \/ /\ q # <<>>
        /\ active' = [active EXCEPT ![p] = FALSE]
        /\ queue' = [queue EXCEPT ![p] = Tail(q)]
        /\ pc' = [pc EXCEPT ![r] = next, ![Head(q)] = "handed"]
     \/ /\ q = <<>>
        /\ active' = [active EXCEPT ![p] = FALSE]
        /\ Goto(r, next)
        /\ UNCHANGED queue

(* releaseEndpointSemaphoreState: hand the slot to the first waiter, or    *)
(* give it back.  The slot stays active while it is handed over.           *)
ReleaseSemaphore(r, next) ==
  LET p == ProcOf[r]
      q == queue[p]
  IN \/ /\ q # <<>>
        /\ queue' = [queue EXCEPT ![p] = Tail(q)]
        /\ pc' = [pc EXCEPT ![r] = next, ![Head(q)] = "handed"]
        /\ UNCHANGED active
     \/ /\ q = <<>>
        /\ active' = [active EXCEPT ![p] = FALSE]
        /\ Goto(r, next)
        /\ UNCHANGED queue

(* A dequeued waiter goes on with the slot it was handed ...               *)
Dequeue(r) ==
  /\ pc[r] = "handed"
  /\ active' = [active EXCEPT ![ProcOf[r]] = TRUE]
  /\ Goto(r, "inside")
  /\ UNCHANGED <<lease, queue, cooldown, circuit, held, lost, attempt, retry>>

(* Mutant: the aborted waiter keeps the slot it was handed.                *)
MutAbortKeepsSlot(r) ==
  /\ pc[r] = "handed"
  /\ End(r)
  /\ RecordAbort(r)
  /\ UNCHANGED <<lease, sem, held, lost, retry>>

(* ... or was aborted during the handoff and passes the slot on.           *)
AbortHandoff(r) ==
  /\ pc[r] = "handed"
  /\ ReleaseSemaphore(r, "idle")
  /\ attempt' = [attempt EXCEPT ![r] = 0]
  /\ RecordAbort(r)
  /\ UNCHANGED <<lease, held, lost, retry>>
-----------------------------------------------------------------------------
(* assertSharedEndpointCooldownAllowsRequest, before the lease loop and on *)
(* each turn of it: a short cooldown is waited for, a long one ends the    *)
(* request without counting as a failure.  A failed read of the row counts *)
(* as no cooldown, so going on is possible whatever the row says.          *)
CheckSharedCooldown(r) ==
  /\ \/ pc[r] = "inside" /\ Goto(r, "lease")
     \/ pc[r] = "lease" /\ Goto(r, "acquire")
     \/ /\ pc[r] \in {"inside", "lease"}
        /\ cooldown > COOLDOWN_WAIT_MAX
        /\ Goto(r, "leaving")
  /\ UNCHANGED <<lease, cooldown, sem, circuit, held, lost, attempt, retry>>

(* The signal fires while the cooldown or the lease is waited for.         *)
AbortWait(r) ==
  /\ pc[r] \in {"inside", "lease"}
  /\ RecordAbort(r)
  /\ Goto(r, "leaving")
  /\ UNCHANGED <<lease, sem, held, lost, attempt, retry>>

LeaseAvailable == cooldown = 0 /\ (lease.token = NoRequest \/ lease.left = 0)

(* store.acquire: one conditional upsert of the row.                       *)
AcquireLease(r) ==
  /\ pc[r] = "acquire"
  /\ LeaseAvailable
  /\ lease' = [token |-> r, left |-> LEASE_TTL]
  /\ held' = [held EXCEPT ![r] = LEASE_TTL]
  /\ Goto(r, "leased")
  /\ UNCHANGED <<cooldown, sem, circuit, lost, attempt, retry>>

(* Held or cooling down: another turn of the loop after a delay.           *)
LeaseRefused(r) ==
  /\ pc[r] = "acquire"
  /\ ~LeaseAvailable
  /\ Goto(r, "lease")
  /\ UNCHANGED <<lease, cooldown, sem, circuit, held, lost, attempt, retry>>

(* endpointLeaseWaitError: a local outcome, no failure.                    *)
LeaseWaitTimeout(r) ==
  /\ pc[r] = "acquire"
  /\ ~LeaseAvailable
  /\ Goto(r, "leaving")
  /\ UNCHANGED <<lease, cooldown, sem, circuit, held, lost, attempt, retry>>

(* The store throws.                                                       *)
AcquireError(r) ==
  /\ pc[r] = "acquire"
  /\ RecordUnclassified(r)
  /\ Goto(r, "leaving")
  /\ UNCHANGED <<lease, sem, held, lost, attempt, retry>>
-----------------------------------------------------------------------------
(* Mutant: the heartbeat matches the endpoint only.                        *)
MutHeartbeatWithoutToken(r) ==
  /\ pc[r] \in Holding /\ ~lost[r]
  /\ lease' = [lease EXCEPT !.left = LEASE_TTL]
  /\ held' = [held EXCEPT ![r] = LEASE_TTL]
  /\ UNCHANGED <<cooldown, sem, circuit, pc, lost, attempt, retry>>

(* The timer of the lease: renew the row if it still carries the token,    *)
(* expired or not, or learn that the lease is lost.                        *)
Heartbeat(r) ==
  /\ pc[r] \in Holding /\ ~lost[r]
  /\ \/ /\ lease.token = r
        /\ lease' = [lease EXCEPT !.left = LEASE_TTL]
        /\ held' = [held EXCEPT ![r] = LEASE_TTL]
        /\ UNCHANGED lost
     \/ /\ lease.token # r
        /\ lost' = [lost EXCEPT ![r] = TRUE]
        /\ UNCHANGED <<lease, held>>
  /\ UNCHANGED <<cooldown, sem, circuit, pc, attempt, retry>>

(* The store throws on a heartbeat: the request fails closed.              *)
HeartbeatError(r) ==
  /\ pc[r] \in Holding /\ ~lost[r]
  /\ lost' = [lost EXCEPT ![r] = TRUE]
  /\ UNCHANGED <<lease, cooldown, sem, circuit, pc, held, attempt, retry>>

(* The catch block of postChatCompletions for an error thrown under the    *)
(* lease: a lost lease replaces any other error and counts as a failure.   *)
Caught(r, otherwise) ==
  IF lost[r] THEN RecordFailure(r) ELSE otherwise

(* assertEndpointCircuitAllowsRequest: no entry, a check, a wait that is   *)
(* too long.  A short wait is no step: the circuit is looked at again.     *)
StartFetch(r) ==
  /\ pc[r] = "leased"
  /\ CircuitOf(r).failures = 0
  /\ Goto(r, "fetching")
  /\ UNCHANGED <<lease, cooldown, sem, circuit, held, lost, attempt, retry>>

StartHealthCheck(r) ==
  /\ pc[r] = "leased"
  /\ CircuitOf(r).failures > 0 /\ CircuitOf(r).left = 0
  /\ Goto(r, "health")
  /\ UNCHANGED <<lease, cooldown, sem, circuit, held, lost, attempt, retry>>

CircuitTooLong(r) ==
  /\ pc[r] = "leased"
  /\ CircuitOf(r).left > COOLDOWN_WAIT_MAX
  /\ Caught(r, UNCHANGED <<circuit, cooldown>>)
  /\ Goto(r, "closing")
  /\ UNCHANGED <<lease, sem, held, lost, attempt, retry>>

(* The signal fires during a short circuit wait.                           *)
AbortCircuitWait(r) ==
  /\ pc[r] = "leased"
  /\ CircuitOf(r).left > 0 /\ CircuitOf(r).left <= COOLDOWN_WAIT_MAX
  /\ Caught(r, RecordAbort(r))
  /\ Goto(r, "closing")
  /\ UNCHANGED <<lease, sem, held, lost, attempt, retry>>

HealthOk(r) ==
  /\ pc[r] = "health"
  /\ circuit' = [circuit EXCEPT ![ProcOf[r]] = NoFailures]
  /\ Goto(r, "fetching")
  /\ UNCHANGED <<lease, cooldown, sem, held, lost, attempt, retry>>

(* The failed check reopens the circuit of the process only; under a lost  *)
(* lease the catch block records a second failure on top.                  *)
HealthFailed(r) ==
  LET n == OneMore(CircuitOf(r).failures)
  IN /\ pc[r] = "health"
     /\ IF lost[r]
        THEN RecordFailureAfter(r, n)
        ELSE /\ circuit' = [circuit EXCEPT ![ProcOf[r]] =
                              [failures |-> n, left |-> COOLDOWN]]
             /\ UNCHANGED cooldown
     /\ Goto(r, "closing")
     /\ UNCHANGED <<lease, sem, held, lost, attempt, retry>>

(* The response was read to its end and is good.                           *)
FetchOk(r) ==
  /\ pc[r] = "fetching" /\ ~lost[r]
  /\ circuit' = [circuit EXCEPT ![ProcOf[r]] = NoFailures]
  /\ Goto(r, "closing")
  /\ UNCHANGED <<lease, cooldown, sem, held, lost, attempt, retry>>

(* A failure that trips the circuit: an HTTP 5xx, which is retried below   *)
(* the limit, or a transport error, a run timeout, a lost lease.           *)
FetchFailed(r) ==
  /\ pc[r] = "fetching"
  /\ RecordFailure(r)
  /\ \E again \in BOOLEAN :
       /\ again => ~lost[r] /\ attempt[r] < HTTP_RETRY_LIMIT[r]
       /\ retry' = [retry EXCEPT ![r] = again]
  /\ Goto(r, "closing")
  /\ UNCHANGED <<lease, sem, held, lost, attempt>>

(* An error of the caller's making, or a cancellation.                     *)
FetchRefused(r) ==
  /\ pc[r] = "fetching" /\ ~lost[r]
  /\ Goto(r, "closing")
  /\ UNCHANGED <<lease, cooldown, sem, circuit, held, lost, attempt, retry>>
-----------------------------------------------------------------------------
(* Mutant: the release matches the endpoint only.                          *)
MutReleaseWithoutToken(r) ==
  /\ pc[r] = "closing"
  /\ lease' = FreeLease
  /\ held' = [held EXCEPT ![r] = 0]
  /\ lost' = [lost EXCEPT ![r] = FALSE]
  /\ Goto(r, "leaving")
  /\ UNCHANGED <<cooldown, sem, circuit, attempt, retry>>

(* store.release in the finally block: the row is freed if it still        *)
(* carries the token; an error of the store leaves it to expire.           *)
ReleaseLease(r) ==
  /\ pc[r] = "closing"
  /\ \/ lease.token = r /\ lease' = FreeLease
     \/ UNCHANGED lease
  /\ held' = [held EXCEPT ![r] = 0]
  /\ lost' = [lost EXCEPT ![r] = FALSE]
  /\ Goto(r, "leaving")
  /\ UNCHANGED <<cooldown, sem, circuit, attempt, retry>>

(* The finally block of withEndpointSemaphore, then the retry or the end.  *)
LeaveSemaphore(r) ==
  /\ pc[r] = "leaving"
  /\ ReleaseSemaphore(r, IF retry[r] THEN "retry" ELSE "idle")
  /\ attempt' = [attempt EXCEPT ![r] = IF retry[r] THEN @ + 1 ELSE 0]
  /\ retry' = [retry EXCEPT ![r] = FALSE]
  /\ UNCHANGED <<lease, cooldown, circuit, held, lost>>

(* A process dies: its memory is gone, the row stays.                      *)
Crash(p) ==
  LET Of(f, v) == [r \in Requests |-> IF ProcOf[r] = p THEN v ELSE f[r]]
  IN /\ active' = [active EXCEPT ![p] = FALSE]
     /\ queue' = [queue EXCEPT ![p] = <<>>]
     /\ circuit' = [circuit EXCEPT ![p] = NoFailures]
     /\ pc' = Of(pc, "idle")
     /\ held' = Of(held, 0)
     /\ lost' = Of(lost, FALSE)
     /\ attempt' = Of(attempt, 0)
     /\ retry' = Of(retry, FALSE)
     /\ UNCHANGED <<lease, cooldown>>

Less(t) == IF t > 0 THEN t - 1 ELSE 0

Tick ==
  /\ lease' = [lease EXCEPT !.left = Less(@)]
  /\ cooldown' = Less(cooldown)
  /\ circuit' = [p \in Processes |-> [circuit[p] EXCEPT !.left = Less(@)]]
  /\ held' = [r \in Requests |-> Less(held[r])]
  /\ UNCHANGED <<sem, pc, lost, attempt, retry>>
-----------------------------------------------------------------------------
(* Steps a request is sure to take, and the ones that may never come.      *)
Progress(r) ==
  \/ Dequeue(r) \/ CheckSharedCooldown(r) \/ AcquireLease(r) \/ LeaseRefused(r)
  \/ StartFetch(r) \/ StartHealthCheck(r) \/ CircuitTooLong(r)
  \/ HealthOk(r) \/ HealthFailed(r)
  \/ FetchOk(r) \/ FetchFailed(r) \/ FetchRefused(r)
  \/ ReleaseLease(r) \/ LeaveSemaphore(r)

Interruption(r) ==
  \/ AbortOnEntry(r) \/ QueueTimeout(r) \/ QueueAbort(r) \/ AbortHandoff(r)
  \/ AbortWait(r) \/ LeaseWaitTimeout(r) \/ AcquireError(r)
  \/ HeartbeatError(r) \/ AbortCircuitWait(r)

Next ==
  \/ \E r \in Requests : EnterSemaphore(r) \/ Heartbeat(r)
                           \/ Progress(r) \/ Interruption(r)
  \/ \E p \in Processes : Crash(p)
  \/ Tick

Spec == Init /\ [][Next]_vars

(* A request that was started goes on: a retry enters again, an awaited    *)
(* answer comes or the run's signal ends the wait, the lease loop ends by  *)
(* its own timeout, a circuit wait that became too long is noticed.        *)
FairSpec ==
  /\ Spec
  /\ WF_vars(Tick)
  /\ \A r \in Requests :
       /\ WF_vars(pc[r] = "retry" /\ EnterSemaphore(r))
       /\ WF_vars(Progress(r))
       /\ SF_vars(LeaseWaitTimeout(r))
       /\ SF_vars(CircuitTooLong(r))
-----------------------------------------------------------------------------
OneAdmitted ==
  \A r, s \in Requests :
    pc[r] \in Admitted /\ pc[s] \in Admitted /\ ProcOf[r] = ProcOf[s] => r = s

ActiveWhileAdmitted ==
  \A p \in Processes :
    active[p] <=> \E r \in Requests : ProcOf[r] = p /\ pc[r] \in Admitted

WaitBehindActive == \A p \in Processes : queue[p] # <<>> => active[p]

QueuedOnce ==
  \A p \in Processes : \A i, j \in 1 .. Len(queue[p]) :
    queue[p][i] = queue[p][j] => i = j

QueueOfWaiters ==
  \A p \in Processes : \A r \in Requests :
    (\E i \in 1 .. Len(queue[p]) : queue[p][i] = r)
      <=> pc[r] = "queued" /\ ProcOf[r] = p

(* The semaphore of a process admits one request at a time, is active      *)
(* exactly while one is admitted, and its queue holds exactly the waiting  *)
(* requests, each once: no handoff, timeout, abort or crash loses the slot *)
(* or a waiter.                                                            *)
SemaphoreExclusive ==
  /\ OneAdmitted
  /\ ActiveWhileAdmitted
  /\ WaitBehindActive
  /\ QueuedOnce
  /\ QueueOfWaiters

(* A lease that a request still counts on is the row's lease: no late      *)
(* heartbeat, release or takeover touches it before it runs out.           *)
LeaseFenced ==
  \A r \in Requests :
    held[r] > 0 => lease.token = r /\ lease.left = held[r]

(* No request waits for ever: no wake-up of the semaphore is lost and no   *)
(* two requests wait for each other across lease and semaphore.            *)
EveryRequestEnds == \A r \in Requests : pc[r] # "idle" ~> pc[r] = "idle"

(* docs/ops: single-slot endpoints are not overrun by parallel requests.   *)
(* The requests that send under a lease that has not run out use the       *)
(* endpoint one at a time.  Two requests overlap only after one of them    *)
(* outlived its lease without a heartbeat.                                 *)
Slot == INSTANCE EndpointSlot WITH
          users <- {r \in Requests : pc[r] = "fetching" /\ held[r] > 0}
SlotSpec == Slot!Spec
=============================================================================
