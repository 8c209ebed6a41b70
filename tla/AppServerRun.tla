---------------------------- MODULE AppServerRun ----------------------------
(***************************************************************************)
(* One run of the Codex app-server adapter: the child process, its JSONL   *)
(* RPC client, the timers and the coroutine that starts a thread and a     *)
(* turn and waits for the turn to end (packages/runtime, codex/appServer   *)
(* and timeouts.ts).                                                       *)
(*                                                                         *)
(* The server behind the process is external: it answers or not, sends     *)
(* notifications in any order, dies.  The coroutine resumes in a step of   *)
(* its own (Continue): lines of the same chunk are handled before it, but  *)
(* no timer and no exit is.  Request ids are never reused, so a late       *)
(* answer to a request that timed out is an output and nothing else.       *)
(***************************************************************************)
EXTENDS Naturals

VARIABLES
  startLimit,  \* startTimeoutMs is set
  runLimit,    \* runTimeoutMs is set
  attempt,     \* attempts started, at most two
  phase,       \* where the coroutine is
  proc,        \* the process: running, killed (signal sent) or exited
  closed,      \* the RPC client is detached
  main,        \* the request the coroutine awaits
  interrupt,   \* the turn/interrupt request
  thread,      \* threadId is known
  turn,        \* turnId is known
  accepted,    \* the server has a turn for this attempt
  completion,  \* the deferred completion
  failure,     \* completionFailure
  watch,       \* startTimedOut: armed, no or yes
  overrun,     \* runTimedOut
  aborted,     \* the abort signal has fired
  wanted,      \* interruptRequested
  outcome,     \* what the attempt returns or throws
  prompts,     \* history: turns the server has accepted in all attempts
  turnEnded    \* history: a turn/completed that was not a failure arrived

appVars == <<startLimit, runLimit, attempt, phase, proc, closed, main,
             interrupt, thread, turn, accepted, completion, failure, watch,
             overrun, aborted, wanted, outcome, prompts, turnEnded>>

config == <<startLimit, runLimit>>
child == <<proc, watch, overrun>>
server == <<accepted, prompts, turnEnded>>
turnState == <<thread, turn, completion, failure, interrupt, wanted>>

Requesting == {"init", "thread", "turn", "enrich"}
Closing == {"term", "kill"}

(* A fresh attempt: the process is spawned, initialize is sent.            *)
AppInit ==
  /\ startLimit \in BOOLEAN /\ runLimit \in BOOLEAN
  /\ attempt = 1 /\ phase = "init" /\ proc = "running" /\ closed = FALSE
  /\ main = "pending" /\ interrupt = "none"
  /\ thread = FALSE /\ turn = FALSE /\ accepted = FALSE
  /\ completion = "open" /\ failure = FALSE
  /\ watch = IF startLimit THEN "armed" ELSE "no"
  /\ overrun = FALSE /\ aborted = FALSE /\ wanted = FALSE
  /\ outcome = "none" /\ prompts = 0 /\ turnEnded = FALSE

-----------------------------------------------------------------------------
(* The coroutine                                                           *)

(* A request of a client that is closed is rejected at once; one that is   *)
(* written to a killed process is lost.                                    *)
Send == main' = CASE closed -> "err"
                  [] ~closed /\ proc = "running" -> "pending"
                  [] OTHER -> "lost"

(* Something the coroutine awaits has settled.                             *)
Resumable ==
  \/ phase \in Requesting /\ main \in {"ok", "err"}
  \/ phase = "completion" /\ completion # "open"
  \/ phase \in {"check", "failed"} /\ watch # "armed"

(* sendInterruptIfReady                                                    *)
Interrupts(isWanted, knowsThread, knowsTurn) ==
  /\ isWanted /\ knowsThread /\ knowsTurn
  /\ interrupt # "pending" /\ completion = "open"

Interrupted(isWanted, knowsThread, knowsTurn) ==
  interrupt' = IF Interrupts(isWanted, knowsThread, knowsTurn)
               THEN (IF closed THEN "failed" ELSE "pending") ELSE interrupt

(* close: pending requests fail, the client detaches.  Then the process is *)
(* terminated unless it has exited.                                        *)
Finally(result) ==
  /\ outcome' = result /\ closed' = TRUE
  /\ main' = "none" /\ interrupt' = "none"
  /\ watch' = IF watch = "armed" THEN "no" ELSE watch
  /\ phase' = IF proc = "exited" THEN "ended" ELSE "term"
  /\ proc' = IF proc = "running" THEN "killed" ELSE proc

ContinueRequest ==
  /\ phase \in {"init", "thread", "turn"}
  /\ IF main = "err"
     THEN phase' = "failed" /\ main' = "none" /\ UNCHANGED turnState
     ELSE CASE phase = "init" ->
                 phase' = "thread" /\ Send /\ UNCHANGED turnState
            [] phase = "thread" ->
                 /\ phase' = "turn" /\ Send
                 /\ thread' = TRUE /\ wanted' = aborted
                 /\ Interrupted(aborted, TRUE, turn)
                 /\ UNCHANGED <<turn, completion, failure>>
            [] phase = "turn" ->
                 /\ phase' = "completion" /\ main' = "none"
                 /\ turn' = TRUE
                 /\ Interrupted(wanted, thread, TRUE)
                 /\ UNCHANGED <<thread, wanted, completion, failure>>
  /\ UNCHANGED <<proc, closed, watch, outcome>>

MutIgnoresFailure ==
  /\ phase = "completion"
  /\ phase' = IF completion = "rejected" THEN "failed" ELSE "check"
  /\ UNCHANGED <<main, turnState, proc, closed, watch, outcome>>

ContinueCompletion ==
  /\ phase = "completion"
  /\ phase' = IF completion = "rejected" \/ failure THEN "failed" ELSE "check"
  /\ UNCHANGED <<main, turnState, proc, closed, watch, outcome>>

ContinueCheck ==
  /\ phase = "check"
  /\ IF watch = "yes" \/ overrun
     THEN phase' = "failed"
            /\ UNCHANGED <<main, interrupt, proc, closed, watch, outcome>>
     ELSE Finally("success")
  /\ UNCHANGED <<thread, turn, completion, failure, wanted>>

ContinueFailed ==
  /\ phase = "failed"
  /\ CASE watch = "yes" -> Finally("startTimeout")
       [] watch # "yes" /\ overrun -> Finally("runTimeout")
       [] watch # "yes" /\ ~overrun /\ thread ->
            phase' = "enrich" /\ Send
              /\ UNCHANGED <<interrupt, proc, closed, watch, outcome>>
       [] OTHER -> Finally("error")
  /\ UNCHANGED <<thread, turn, completion, failure, wanted>>

ContinueEnrich ==
  /\ phase = "enrich"
  /\ Finally("error")
  /\ UNCHANGED <<thread, turn, completion, failure, wanted>>

Continue ==
  /\ Resumable
  /\ \/ ContinueRequest \/ ContinueCompletion \/ ContinueCheck
     \/ ContinueFailed \/ ContinueEnrich
  /\ UNCHANGED <<config, attempt, server, overrun, aborted>>

(* runCodexAppServer: a start timeout is retried once.                     *)
Retries == outcome = "startTimeout" /\ attempt = 1

Retry ==
  /\ phase = "ended" /\ Retries
  /\ attempt' = 2 /\ phase' = "init" /\ proc' = "running" /\ closed' = FALSE
  /\ main' = "pending" /\ interrupt' = "none"
  /\ thread' = FALSE /\ turn' = FALSE /\ accepted' = FALSE
  /\ completion' = "open" /\ failure' = FALSE
  /\ watch' = IF startLimit THEN "armed" ELSE "no"
  /\ overrun' = FALSE /\ wanted' = FALSE /\ outcome' = "none"
  /\ turnEnded' = FALSE
  /\ UNCHANGED <<config, aborted, prompts>>

RunReturns ==
  /\ phase = "ended" /\ ~Retries
  /\ phase' = "finished"
  /\ UNCHANGED <<config, attempt, child, closed, main, turnState, server,
                 aborted, outcome>>

-----------------------------------------------------------------------------
(* The process and the RPC client                                          *)

Alive == proc # "exited" /\ phase \notin {"ended", "finished"}

(* A line reaches the client.  What follows the end of the wait runs       *)
(* through in microtasks, before the next chunk is read.                   *)
Line ==
  /\ Alive /\ ~closed
  /\ phase \in {"check", "failed"} => watch = "armed"

(* The first output stops the start timer.                                 *)
MutOutputIgnored == watch' = watch

Output == watch' = IF watch = "armed" THEN "no" ELSE watch

(* Output that is no line of the protocol, on stderr for one               *)
Prints ==
  /\ Alive /\ watch = "armed" /\ ~Resumable
  /\ Output
  /\ UNCHANGED <<config, attempt, phase, proc, closed, main, turnState, server,
                 overrun, aborted, outcome>>

(* A response to the awaited request or to turn/interrupt                  *)
Respond ==
  /\ Line
  /\ \/ main = "pending" /\ phase # "turn"
          /\ main' \in {"ok", "err"} /\ UNCHANGED interrupt
     \/ main = "pending" /\ phase = "turn"
          /\ main' \in (IF accepted THEN {"ok"} ELSE {"err"})
          /\ UNCHANGED interrupt
     \/ interrupt = "pending" /\ interrupt' \in {"done", "failed"}
          /\ UNCHANGED main
  /\ Output
  /\ UNCHANGED <<config, attempt, phase, proc, closed, thread, turn, server,
                 completion, failure, overrun, aborted, wanted, outcome>>

(* The server starts the turn that turn/start asks for.                    *)
AcceptTurn ==
  /\ proc = "running" /\ phase = "turn" /\ main = "pending" /\ ~accepted
  /\ accepted' = TRUE /\ prompts' = prompts + 1
  /\ UNCHANGED <<config, attempt, phase, child, closed, main, turnState,
                 aborted, outcome, turnEnded>>

Settle(how) ==
  completion' = IF completion = "open" THEN how ELSE completion

(* turn/started, turn/completed and the failures, as the mapper takes them *)
Notify ==
  /\ Line /\ phase \notin {"init"} /\ Output
  /\ \/ /\ accepted /\ turn' = TRUE
        /\ UNCHANGED <<completion, failure, turnEnded>>
     \/ /\ accepted /\ turn' = TRUE
        /\ Settle("resolved") /\ turnEnded' = TRUE /\ UNCHANGED failure
     \/ /\ Settle("rejected") /\ failure' = TRUE
        /\ UNCHANGED <<turn, turnEnded>>
  /\ UNCHANGED <<config, attempt, phase, proc, closed, main, interrupt, thread,
                 accepted, overrun, aborted, wanted, outcome, prompts>>

FailPending ==
  /\ main' = IF main \in {"pending", "lost"} THEN "err" ELSE main
  /\ interrupt' = IF interrupt = "pending" THEN "failed" ELSE interrupt

(* A line that is not JSON                                                 *)
Malformed ==
  /\ Line /\ Output
  /\ FailPending /\ closed' = TRUE
  /\ Settle("rejected") /\ failure' = TRUE
  /\ UNCHANGED <<config, attempt, phase, proc, thread, turn, server, overrun,
                 aborted, wanted, outcome>>

(* An error event of the process: it could not be spawned or signalled.    *)
ChildError ==
  /\ Alive /\ ~closed /\ ~Resumable
  /\ FailPending /\ closed' = TRUE
  /\ UNCHANGED <<config, attempt, phase, child, thread, turn, server,
                 completion, failure, aborted, wanted, outcome>>

MutExitUnheard ==
  /\ Alive /\ ~Resumable
  /\ proc' = "exited"
  /\ IF closed THEN UNCHANGED <<main, interrupt>> ELSE FailPending
  /\ closed' = TRUE
  /\ phase' = IF phase \in Closing THEN "ended" ELSE phase
  /\ UNCHANGED <<config, attempt, thread, turn, server, completion, failure,
                 watch, overrun, aborted, wanted, outcome>>

(* handleChildExit unless detached, then processExitHandler, which is off  *)
(* once the attempt closes.                                                *)
Exit ==
  /\ Alive /\ ~Resumable
  /\ proc' = "exited"
  /\ IF closed THEN UNCHANGED <<main, interrupt>> ELSE FailPending
  /\ closed' = TRUE
  /\ IF phase \in Closing THEN UNCHANGED completion ELSE Settle("rejected")
  /\ phase' = IF phase \in Closing THEN "ended" ELSE phase
  /\ UNCHANGED <<config, attempt, thread, turn, server, failure, watch,
                 overrun, aborted, wanted, outcome>>

-----------------------------------------------------------------------------
(* Timers and the abort signal                                             *)

RequestTimesOut ==
  /\ ~Resumable /\ phase \notin Closing
  /\ \/ main \in {"pending", "lost"} /\ main' = "err" /\ UNCHANGED interrupt
     \/ interrupt = "pending" /\ interrupt' = "failed" /\ UNCHANGED main
  /\ UNCHANGED <<config, attempt, phase, child, closed, thread, turn, server,
                 completion, failure, aborted, wanted, outcome>>

Kill == proc' = IF proc = "running" THEN "killed" ELSE proc

StartTimesOut ==
  /\ watch = "armed" /\ ~Resumable
  /\ watch' = "yes" /\ Kill
  /\ UNCHANGED <<config, attempt, phase, closed, main, turnState, server,
                 overrun, aborted, outcome>>

RunTimesOut ==
  /\ runLimit /\ ~overrun /\ ~Resumable
  /\ phase \notin Closing \cup {"ended", "finished"}
  /\ overrun' = TRUE /\ Kill
  /\ UNCHANGED <<config, attempt, phase, closed, main, turnState, server,
                 watch, aborted, outcome>>

(* terminateCodexAppServerProcess: SIGTERM, then SIGKILL, then it gives up *)
TerminateTimesOut ==
  /\ phase \in Closing
  /\ phase' = IF phase = "term" THEN "kill" ELSE "ended"
  /\ UNCHANGED <<config, attempt, child, closed, main, turnState, server,
                 aborted, outcome>>

(* The handler is registered once the thread is known.                     *)
Abort ==
  /\ ~aborted /\ ~Resumable /\ phase \notin {"ended", "finished"}
  /\ aborted' = TRUE
  /\ IF phase \in {"turn", "completion", "failed", "enrich"} /\ thread
     THEN wanted' = TRUE /\ Interrupted(TRUE, thread, turn)
     ELSE UNCHANGED <<wanted, interrupt>>
  /\ UNCHANGED <<config, attempt, phase, child, closed, main, thread, turn,
                 server, completion, failure, outcome>>

AppNext ==
  \/ Continue \/ Retry \/ RunReturns
  \/ Prints \/ Respond \/ AcceptTurn \/ Notify \/ Malformed
  \/ ChildError \/ Exit
  \/ RequestTimesOut \/ StartTimesOut \/ RunTimesOut \/ TerminateTimesOut
  \/ Abort

AppSpec == AppInit /\ [][AppNext]_appVars

(* Steps the event loop and the timers take, and the exit of a process     *)
(* that was killed.  The server owes nothing.                              *)
AppProgress ==
  \/ Continue \/ Retry \/ RunReturns \/ RequestTimesOut \/ StartTimesOut
  \/ RunTimesOut \/ TerminateTimesOut
  \/ proc = "killed" /\ Exit

-----------------------------------------------------------------------------
(* Properties                                                              *)

(* The retry never runs the prompt twice: a start timeout means that the   *)
(* first process never printed anything, so it never took the turn.        *)
PromptSentOnce == prompts <= 1

(* A run succeeds only when its turn ended well and no failure came with   *)
(* it: not after a timeout that killed the process, not with an error that *)
(* followed the end of the turn before the coroutine resumed.              *)
SuccessEarned ==
  outcome = "success" => turnEnded /\ ~failure /\ ~overrun /\ watch = "no"

(* With a run timeout every run returns, whatever the server does: answers *)
(* that never come, an interrupt that fails, a client that detached while  *)
(* the turn was running.                                                   *)
RunSettles == runLimit ~> phase = "finished"
=============================================================================
