---------------------------- MODULE WakeChannel -----------------------------
(***************************************************************************)
(* How the agent notices work: the poll scheduler, and the web socket to   *)
(* the API that starts a poll cycle at once                                *)
(* (packages/agent/src/pollScheduler.ts, wakeChannel.ts and index.ts).     *)
(*                                                                         *)
(* Work is a change of a task row that a poll cycle has to look at; the    *)
(* API announces it to whoever is connected.  A cycle sees what was there  *)
(* when it began.  AGENT_WAKE_ENABLED is on: off is the same without the   *)
(* socket.                                                                 *)
(***************************************************************************)
EXTENDS Naturals

CONSTANTS
  READINESS_MAX_RETRIES,  \* probes of the API before connecting anyway
  MaxWakeCycles,          \* bound on wake cycles that run side by side
  MaxAgentRestarts        \* bound on restarts of the agent

ASSUME WakeAssumption ==
  READINESS_MAX_RETRIES \in Nat \ {0} /\ MaxWakeCycles \in Nat
    /\ MaxAgentRestarts \in Nat

VARIABLES
  apiUp,      \* the API process accepts connections
  unseen,     \* work no cycle has begun after
  probes,     \* readiness probes made; beyond the last one the probing is over
  socket,     \* _ws: "none", "connecting" or "open"
  timer,      \* _reconnectTimer is not null
  due,        \* a reconnect timeout is pending
  message,    \* an announcement is on its way
  debounced,  \* less than DEBOUNCE_MS since _lastWakeTime
  cron,       \* isRunning of the poll scheduler
  wakes,      \* wake-triggered cycles that are running
  restarts    \* how often the agent was restarted

wakeVars == <<apiUp, unseen, probes, socket, timer, due, message, debounced, cron,
              wakes, restarts>>

Probing == probes < READINESS_MAX_RETRIES

WakeTypeOK ==
  /\ apiUp \in BOOLEAN /\ unseen \in BOOLEAN
  /\ probes \in 0 .. READINESS_MAX_RETRIES
  /\ socket \in {"none", "connecting", "open"}
  /\ timer \in BOOLEAN /\ due \in BOOLEAN
  /\ message \in BOOLEAN /\ debounced \in BOOLEAN
  /\ cron \in BOOLEAN /\ wakes \in 0 .. MaxWakeCycles
  /\ restarts \in 0 .. MaxAgentRestarts

WakeInit ==
  /\ apiUp \in BOOLEAN /\ unseen = FALSE
  /\ probes = 0 /\ socket = "none" /\ timer = FALSE /\ due = FALSE
  /\ message = FALSE /\ debounced = FALSE /\ cron = FALSE /\ wakes = 0
  /\ restarts = 0

-----------------------------------------------------------------------------
(* A task row changes: through the API, which announces it to the sockets  *)
(* that are open, or through a writer that announces nothing.              *)
PostWork ==
  /\ unseen' = TRUE
  /\ message' = (message \/ (apiUp /\ socket = "open"))
  /\ UNCHANGED <<apiUp, probes, socket, timer, debounced, cron, wakes, due,
                 restarts>>

(* handleMessage: an announcement too soon after the last wake is dropped; *)
(* the bound delays one that finds its cycles running.                     *)
HandleMessage ==
  /\ message /\ message' = FALSE
  /\ IF debounced THEN UNCHANGED <<unseen, debounced, wakes>>
     ELSE /\ wakes < MaxWakeCycles
          /\ debounced' = TRUE /\ wakes' = wakes + 1 /\ unseen' = FALSE
  /\ UNCHANGED <<apiUp, probes, socket, timer, cron, due, restarts>>

DebounceEnds ==
  /\ debounced /\ debounced' = FALSE
  /\ UNCHANGED <<apiUp, unseen, probes, socket, timer, message, cron, wakes,
                 due, restarts>>

WakeCycleEnds ==
  /\ wakes > 0 /\ wakes' = wakes - 1
  /\ UNCHANGED <<apiUp, unseen, probes, socket, timer, message, debounced,
                 cron, due, restarts>>

(* runTick: a tick during a cycle of the scheduler is skipped.             *)
CronTick ==
  /\ ~cron /\ cron' = TRUE /\ unseen' = FALSE
  /\ UNCHANGED <<apiUp, probes, socket, timer, message, debounced, wakes,
                 due, restarts>>

MutKeepRunning ==
  /\ cron
  /\ UNCHANGED wakeVars

(* The cycle ends, whatever it threw: finally resets isRunning.            *)
CronCycleEnds ==
  /\ cron /\ cron' = FALSE
  /\ UNCHANGED <<apiUp, unseen, probes, socket, timer, message, debounced,
                 wakes, due, restarts>>

-----------------------------------------------------------------------------
(* The connection.                                                         *)

(* waitForApiReady: an answer, or the last failed probe, ends the probing. *)
Probe ==
  /\ Probing
  /\ probes' = IF apiUp THEN READINESS_MAX_RETRIES ELSE probes + 1
  /\ socket' = IF probes' = READINESS_MAX_RETRIES THEN "connecting" ELSE "none"
  /\ UNCHANGED <<apiUp, unseen, timer, message, debounced, cron, wakes, due,
                 restarts>>

Opens ==
  /\ socket = "connecting" /\ apiUp /\ socket' = "open"
  /\ UNCHANGED <<apiUp, unseen, probes, timer, message, debounced, cron,
                 wakes, due, restarts>>

(* scheduleReconnect: with a timer set there is nothing to do.             *)
ScheduleReconnect == timer' = TRUE /\ due' = (due \/ ~timer)

(* A socket that could not be opened, or broke, closes.                    *)
Closes ==
  /\ socket # "none" /\ socket' = "none"
  /\ message' = FALSE
  /\ ScheduleReconnect
  /\ UNCHANGED <<apiUp, unseen, probes, debounced, cron, wakes, restarts>>

MutTimerKept ==
  /\ due /\ due' = FALSE /\ socket' = "connecting"
  /\ UNCHANGED <<apiUp, unseen, probes, timer, message, debounced, cron,
                 wakes, restarts>>

(* The timer fires: it is forgotten, then a new socket is made.  When that *)
(* throws the next attempt is scheduled: the state stays as it is.         *)
Reconnect ==
  /\ due /\ due' = FALSE /\ timer' = FALSE /\ socket' = "connecting"
  /\ UNCHANGED <<apiUp, unseen, probes, message, debounced, cron, wakes,
                 restarts>>

(* The API stops and starts.  A connection may stay half open: nothing     *)
(* probes it.                                                              *)
ApiSwitches ==
  /\ apiUp' = ~apiUp
  /\ UNCHANGED <<unseen, probes, socket, timer, message, debounced, cron,
                 wakes, due, restarts>>

(* The agent dies, or is stopped, and is started again.                    *)
AgentRestarts ==
  /\ restarts < MaxAgentRestarts /\ restarts' = restarts + 1
  /\ probes' = 0 /\ socket' = "none" /\ timer' = FALSE /\ due' = FALSE
  /\ message' = FALSE /\ debounced' = FALSE /\ cron' = FALSE /\ wakes' = 0
  /\ UNCHANGED <<apiUp, unseen>>

-----------------------------------------------------------------------------
WakeNext ==
  \/ PostWork \/ HandleMessage \/ DebounceEnds \/ WakeCycleEnds
  \/ CronTick \/ CronCycleEnds
  \/ Probe \/ Opens \/ Closes \/ Reconnect \/ ApiSwitches \/ AgentRestarts

(* Timers fire and cycles end (every stage run has a timeout).  A socket   *)
(* that is being opened opens or closes, and opens in the end if the API   *)
(* keeps accepting connections.                                            *)
Polling == CronTick \/ CronCycleEnds
Connecting == Probe \/ Reconnect \/ (socket = "connecting" /\ Closes)

WakeSpec == /\ WakeInit /\ [][WakeNext]_wakeVars
              /\ WF_wakeVars(Polling) /\ WF_wakeVars(Connecting)
              /\ SF_wakeVars(Opens)

-----------------------------------------------------------------------------
(* Work is looked at, whether or not its announcement arrived: a dropped   *)
(* or debounced wake only delays it to the next poll (pollScheduler.ts).   *)
WorkPolled == unseen ~> ~unseen

(* Once the API stays up the wake channel is open again and again, however *)
(* many attempts have failed before (scheduleReconnect).                   *)
ChannelReturns == <>[]apiUp => []<>(socket = "open")
=============================================================================
