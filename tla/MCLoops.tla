------------------------------- MODULE MCLoops ------------------------------
(***************************************************************************)
(* Two loops that must end, each on its own: the review loop of a task and *)
(* one run of the app-server adapter.  They share no state; part says      *)
(* which of them a behaviour is about.                                     *)
(***************************************************************************)
EXTENDS ReviewConvergence, AppServerRun

VARIABLE part

loopVars == <<reviewVars, appVars, part>>

LoopsInit ==
  /\ ReviewInit /\ AppInit
  /\ part \in {"review", "appServer"}
  /\ part = "review" => startLimit /\ runLimit
  /\ part = "appServer" =>
       kind = "development" /\ strategy = CHOOSE s \in Strategies : TRUE

ReviewPart(Step) == part = "review" /\ Step /\ UNCHANGED <<appVars, part>>
AppPart(Step) == part = "appServer" /\ Step /\ UNCHANGED <<reviewVars, part>>

LoopsNext == ReviewPart(ReviewNext) \/ AppPart(AppNext)

LoopsSpec ==
  /\ LoopsInit /\ [][LoopsNext]_loopVars
  /\ WF_loopVars(ReviewPart(ReviewStep))
  /\ WF_loopVars(AppPart(AppProgress))

(* The review loop ends: ReviewSettles, in the behaviours about it (the    *)
(* brakes of reviewGate.ts and autoReviewHandler.ts).                      *)
ReviewLoopSettles == part = "review" => ReviewSettles

(* Every app-server run with a run timeout returns: RunSettles, in the     *)
(* behaviours about it (run.ts, timeouts.ts).                              *)
AppRunSettles == part = "appServer" => RunSettles
=============================================================================
