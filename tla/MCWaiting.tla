----------------------------- MODULE MCWaiting ------------------------------
(***************************************************************************)
(* The two receivers of the API's web socket, each on its own: the chat    *)
(* client, and the agent with its poll scheduler.  They share no state;    *)
(* part says which of them a behaviour is about.                           *)
(***************************************************************************)
EXTENDS ChatStreams, WakeChannel

VARIABLE part

waitingVars == <<chatVars, wakeVars, part>>

WaitingInit ==
  /\ ChatInit /\ WakeInit
  /\ part \in {"chat", "wake"}
  /\ part = "chat" => apiUp

ChatPart(Step) == part = "chat" /\ Step /\ UNCHANGED <<wakeVars, part>>
WakePart(Step) == part = "wake" /\ Step /\ UNCHANGED <<chatVars, part>>

WaitingNext == ChatPart(ChatNext) \/ WakePart(WakeNext)

(* The fairness of FairChatSpec and WakeSpec                               *)
WaitingSpec ==
  /\ WaitingInit /\ [][WaitingNext]_waitingVars
  /\ WF_waitingVars(ChatPart(ChatProgress))
  /\ WF_waitingVars(WakePart(Polling)) /\ WF_waitingVars(WakePart(Connecting))
  /\ SF_waitingVars(WakePart(Opens))

(* The wake channel comes back: ChannelReturns, in the behaviours about    *)
(* the agent (wakeChannel.ts).                                             *)
WakeChannelReturns == part = "wake" => ChannelReturns
=============================================================================
