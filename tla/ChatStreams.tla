---------------------------- MODULE ChatStreams -----------------------------
(***************************************************************************)
(* Chat turns between the web client (packages/web/src/hooks/useChat.ts),  *)
(* the chat route (packages/api/src/routes/chat.ts) and the web socket     *)
(* that carries the streamed answer (packages/api/src/ws.ts).              *)
(*                                                                         *)
(* A turn is a conversation: one POST /chat with a fresh id.  Its answer   *)
(* arrives twice, over the socket and as the HTTP response, in any order   *)
(* of the two.  The client keys what it shows by session, and a new chat   *)
(* has no session until the server has created one.  Transcripts are left  *)
(* out: the state is which stream belongs to which session, whether the    *)
(* Stop button is shown, and which run it stops.  The wait for a client id *)
(* before a message is sent is part of Send.                               *)
(***************************************************************************)
EXTENDS Naturals, Sequences, FiniteSets, Functions

CONSTANTS
  Convs,     \* conversation ids, one per message sent
  Sessions,  \* ids of chat sessions
  Existing,  \* the sessions of the project before the first message
  NoKey

ASSUME ChatAssumption ==
  /\ Existing \subseteq Sessions
  /\ Convs \cap Sessions = {} /\ NoKey \notin Convs \cup Sessions

Keys == Convs \cup Sessions
NoStream == [conv |-> NoKey, text |-> FALSE]

VARIABLES
  ui,          \* the state of useChat
  ask,         \* the session a message was sent in: effectiveSessionId
  call,        \* the client's POST /chat: "none", "open" or "closed"
  srv,         \* the request on the server
  sess,        \* chatSessionId of the request
  spoke,       \* requests that streamed assistant text
  registered,  \* activeChatRuns
  signalled,   \* runs whose abort controller was fired
  listening,   \* conversations whose clientId is the live connection
  wire,        \* messages on the socket, in order
  known        \* history: which of the known disturbances happened

chatVars == <<ui, ask, call, srv, sess, spoke, registered, signalled, listening,
              wire, known>>

Answers == {"ok", "okText", "aborted", "failed"}
Disturbances == {"promoted", "late", "readded", "broken"}

ChatTypeOK ==
  /\ ui.view \in Sessions \cup {NoKey} /\ ui.pending \in Convs \cup {NoKey}
  /\ ui.streaming \in BOOLEAN
  /\ ui.before \subseteq Convs \X Convs
  /\ ui.key \in [Convs -> Keys \cup {NoKey}]
  /\ ui.strm \in [Keys -> [conv : Convs \cup {NoKey}, text : BOOLEAN]]
  /\ ui.fallback \subseteq Convs /\ ui.forced \subseteq Convs
  /\ ask \in [Convs -> Sessions \cup {NoKey}]
  /\ call \in [Convs -> {"none", "open", "closed"}]
  /\ srv \in [Convs -> {"none", "resolving", "running", "gone"} \cup Answers]
  /\ sess \in [Convs -> Sessions \cup {NoKey}]
  /\ registered \subseteq Convs /\ signalled \subseteq Convs
  /\ spoke \subseteq Convs /\ listening \subseteq Convs
  /\ known \subseteq Disturbances

ChatInit ==
  /\ ui = [view |-> NoKey,       \* currentSessionIdRef and the sessionId prop
           pending |-> NoKey,    \* conversationIdForNoSession
           streaming |-> FALSE,  \* isStreaming: the Stop button is shown
           key |-> [c \in Convs |-> NoKey],     \* activeStreamsRef
           before |-> {},        \* and the order its entries were made in
           strm |-> [k \in Keys |-> NoStream],  \* sessionStreamsRef
           fallback |-> {},      \* fallbackTimersRef
           forced |-> {}]        \* forcedStopTimersRef
  /\ ask = [c \in Convs |-> NoKey]
  /\ call = [c \in Convs |-> "none"]
  /\ srv = [c \in Convs |-> "none"]
  /\ sess = [c \in Convs |-> NoKey]
  /\ spoke = {} /\ registered = {} /\ signalled = {} /\ listening = {}
  /\ wire = <<>> /\ known = {}

-----------------------------------------------------------------------------
(* The client's maps.                                                      *)

Active(u) == {c \in Convs : u.key[c] # NoKey}

(* An entry that is there keeps its place.                                 *)
Put(u, c, k) ==
  [u EXCEPT !.key[c] = k,
            !.before = IF c \in Active(u) THEN @ ELSE @ \cup (Active(u) \X {c})]

Drop(u, c) ==
  [u EXCEPT !.key[c] = NoKey, !.before = {p \in @ : c \notin {p[1], p[2]}}]

NoTimers(u, c) == [u EXCEPT !.fallback = @ \ {c}, !.forced = @ \ {c}]

(* isCurrentStream: the stream is the one the user is looking at.          *)
Current(u, k) == u.view = k \/ (u.view = NoKey /\ k = u.pending)

Quiet(u, k) == IF Current(u, k) THEN [u EXCEPT !.streaming = FALSE] ELSE u

(* A stream ends: its timers, its entries, and the Stop button if shown.   *)
Finish(u, c, k) ==
  Quiet([Drop(NoTimers(u, c), c) EXCEPT !.strm[k] = NoStream], k)

Unpend(u, c) == IF u.pending = c THEN [u EXCEPT !.pending = NoKey] ELSE u

StreamKey(c) == IF ask[c] = NoKey THEN c ELSE ask[c]

(* The stream of a new chat moves to the session the server named, and the *)
(* view follows it when the user is still there.                           *)
Rebind(u, c, s) ==
  LET k == StreamKey(c)
      moved == IF u.strm[k] = NoStream THEN u
               ELSE [u EXCEPT !.strm[s] = u.strm[k], !.strm[k] = NoStream]
      bound == IF k = s THEN u ELSE Put(moved, c, s)
  IN  IF Current(bound, k) THEN [bound EXCEPT !.view = s] ELSE bound

OnToken(u, c) ==
  LET k == u.key[c]
      n == NoTimers(u, c)
  IN  IF k = NoKey THEN u
      ELSE IF n.strm[k] = NoStream THEN n ELSE [n EXCEPT !.strm[k].text = TRUE]

(* handleDone and handleError                                              *)
OnEnd(u, c) == IF u.key[c] = NoKey THEN u ELSE Finish(u, c, u.key[c])

OnOk(u, c, text) ==
  LET bound == Unpend(Rebind(u, c, sess[c]), c)
  IN  [bound EXCEPT !.forced = @ \cup {c},
                    !.fallback = IF text THEN @ \cup {c} ELSE @]

(* The catch of sendMessage: a 409 with a session rebinds first.           *)
OnFailed(u, c, aborted) ==
  LET n == NoTimers(u, c)
      bound == IF aborted /\ sess[c] # NoKey THEN Rebind(n, c, sess[c]) ELSE n
      k == IF bound.key[c] = NoKey THEN StreamKey(c) ELSE bound.key[c]
  IN  Unpend(Finish(bound, c, k), c)

OnFallback(u, c) ==
  LET k == u.key[c]
  IN  IF k = NoKey \/ u.strm[k] = NoStream \/ u.strm[k].text
      THEN NoTimers(u, c) ELSE Unpend(Finish(u, c, k), c)

MutForcedNeedsState(u, c) ==
  LET k == u.key[c]
  IN  IF k = NoKey \/ u.strm[k] # NoStream
      THEN NoTimers(u, c) ELSE Unpend(Finish(u, c, k), c)

OnForced(u, c) ==
  LET k == u.key[c]
  IN  IF k = NoKey \/ u.strm[k].text
      THEN NoTimers(u, c) ELSE Unpend(Finish(u, c, k), c)

-----------------------------------------------------------------------------
(* The user.                                                               *)

Send(c) ==
  /\ call[c] = "none" /\ ~ui.streaming
  /\ c = CHOOSE d \in Convs : call[d] = "none"
  /\ LET k == IF ui.view = NoKey THEN c ELSE ui.view
     IN  ui' = [Put(ui, c, k) EXCEPT
                  !.pending = IF ui.view = NoKey THEN c ELSE @,
                  !.strm[k] = [conv |-> c, text |-> FALSE],
                  !.streaming = TRUE]
  /\ ask' = [ask EXCEPT ![c] = ui.view]
  /\ call' = [call EXCEPT ![c] = "open"]
  /\ listening' \in {listening, listening \cup {c}}
  /\ UNCHANGED <<srv, sess, spoke, registered, signalled, wire, known>>

Created == Existing \cup (Range(sess) \ {NoKey})

(* Selecting a session: a new chat that is still pending is taken along.   *)
SelectSession(s) ==
  LET p == ui.pending
      k == IF p = NoKey THEN NoKey ELSE ui.key[p]
      promotes == k # NoKey /\ ui.strm[k] # NoStream
  IN  /\ s \in Created \ {ui.view}
      /\ IF promotes
           THEN ui' = [ui EXCEPT !.strm = [@ EXCEPT ![k] = NoStream,
                                                    ![s] = ui.strm[k]],
                                 !.key[p] = s, !.pending = NoKey, !.view = s,
                                 !.streaming = TRUE]
           ELSE ui' = [ui EXCEPT !.view = s,
                                 !.streaming = ui.strm[s] # NoStream]
      /\ known' = IF promotes /\ sess[p] # s
                    THEN known \cup {"promoted"} ELSE known
      /\ UNCHANGED <<ask, call, srv, sess, spoke, registered, signalled,
                     listening, wire>>

NewChat ==
  /\ ui.view # NoKey
  /\ ui' = [ui EXCEPT !.view = NoKey, !.streaming = FALSE]
  /\ UNCHANGED <<ask, call, srv, sess, spoke, registered, signalled, listening,
                 wire, known>>

MutStopNewest(u) ==
  IF Active(u) = {} THEN NoKey
  ELSE CHOOSE c \in Active(u) : \A d \in Active(u) : <<c, d>> \notin u.before

(* abortStream: the first stream keyed by what the user is looking at.     *)
StopTarget(u) ==
  LET target == IF u.view # NoKey THEN u.view ELSE u.pending
      hits == {c \in Active(u) : u.key[c] = target}
  IN  IF hits = {} THEN NoKey
      ELSE CHOOSE c \in hits : \A d \in hits : <<d, c>> \notin u.before

Stop ==
  /\ ui.streaming
  /\ StopTarget(ui) \in registered
  /\ signalled' = signalled \cup {StopTarget(ui)}
  /\ registered' = registered \ {StopTarget(ui)}
  /\ UNCHANGED <<ui, ask, call, srv, sess, spoke, listening, wire, known>>

-----------------------------------------------------------------------------
(* The chat route.                                                         *)

Tell(c, kinds) ==
  IF c \in listening THEN wire \o [i \in 1 .. Len(kinds) |-> <<kinds[i], c>>]
  ELSE wire

(* The abort controller is registered before anything slow is done.        *)
Receive(c) ==
  /\ call[c] # "none" /\ srv[c] = "none"
  /\ srv' = [srv EXCEPT ![c] = "resolving"]
  /\ sess' = [sess EXCEPT ![c] = ask[c]]
  /\ registered' = registered \cup {c}
  /\ UNCHANGED <<ui, ask, call, spoke, signalled, listening, wire, known>>

(* The runtime is resolved and a new chat gets its session.                *)
Resolve(c) ==
  /\ srv[c] = "resolving"
  /\ srv' = [srv EXCEPT ![c] = "running"]
  /\ \E s \in IF sess[c] # NoKey THEN {sess[c]} ELSE Sessions \ Created :
       sess' = [sess EXCEPT ![c] = s]
  /\ UNCHANGED <<ui, ask, call, spoke, registered, signalled, listening, wire,
                 known>>

(* An answer nobody waits for any more is gone.                            *)
Settle(c, answer, kinds) ==
  /\ srv' = [srv EXCEPT ![c] = IF call[c] = "open" THEN answer ELSE "gone"]
  /\ wire' = Tell(c, kinds)
  /\ registered' = registered \ {c}
  /\ spoke' = spoke \ {c} /\ signalled' = signalled \ {c}
  /\ listening' = listening \ {c}
  /\ UNCHANGED <<ui, ask, call, sess, known>>

(* An unknown project or session, or a bad attachment: no event is sent.   *)
Refuse(c) == srv[c] \in {"resolving", "running"} /\ c \notin spoke
               /\ Settle(c, "failed", <<>>)

StreamText(c) ==
  /\ srv[c] = "running" /\ c \notin spoke
  /\ spoke' = spoke \cup {c}
  /\ wire' = Tell(c, <<"token">>)
  /\ UNCHANGED <<ui, ask, call, srv, sess, registered, signalled, listening,
                 known>>

(* The run ends well: text that was not streamed is sent now.  A run that  *)
(* ignores its abort signal may still end well.                            *)
RunSucceeds(c) ==
  /\ srv[c] = "running"
  /\ \/ c \in spoke /\ Settle(c, "okText", <<"done">>)
     \/ c \notin spoke /\ Settle(c, "okText", <<"token", "done">>)
     \/ c \notin spoke /\ Settle(c, "ok", <<"done">>)

(* The catch: an abort is answered with a 409, any other error with 5xx.   *)
RunFails(c) ==
  /\ srv[c] \in {"resolving", "running"}
  /\ \/ Settle(c, "aborted", <<"error", "done">>)
     \/ c \notin signalled /\ Settle(c, "failed", <<"error", "done">>)

-----------------------------------------------------------------------------
(* What reaches the client.                                                *)

(* A turn the client still waits for, and whether it is the one on screen. *)
Live(c) == call[c] = "open" /\ srv[c] \in {"none", "resolving", "running"}

Viewing(c) ==
  IF ask[c] # NoKey THEN ui.view = ask[c]
  ELSE \/ ui.view = NoKey /\ ui.pending = c
       \/ ui.view # NoKey /\ ui.view = sess[c]

ChangeUi(u) ==
  /\ ui' = u
  /\ UNCHANGED <<ask, sess, spoke, registered, signalled, listening>>

Deliver ==
  /\ wire # <<>>
  /\ LET c == Head(wire)[2]
     IN  ChangeUi(IF Head(wire)[1] = "token" THEN OnToken(ui, c)
                  ELSE OnEnd(ui, c))
  /\ wire' = Tail(wire)
  /\ UNCHANGED <<call, srv, known>>

(* The answer of an earlier turn of the session, handled while a later one *)
(* is streaming; the answer of a new chat whose stream has already ended.  *)
Later(c) == {d \in Convs \ {c} : ui.key[d] # NoKey
                                  /\ ask[d] \in {ask[c], sess[c]} \ {NoKey}}

Disturbs(c, ok) ==
  {"late" : d \in Later(c)}
    \cup {"readded" : d \in {c} \cap {d \in Convs : ok /\ ask[d] = NoKey
                                                   /\ ui.key[d] = NoKey}}

Close(c, ok) ==
  /\ call' = [call EXCEPT ![c] = "closed"]
  /\ srv' = [srv EXCEPT ![c] = IF @ \in Answers THEN "gone" ELSE @]
  /\ known' = known \cup Disturbs(c, ok)
  /\ UNCHANGED wire

Respond(c) ==
  /\ call[c] = "open" /\ srv[c] \in Answers
  /\ ChangeUi(IF srv[c] \in {"ok", "okText"}
                THEN OnOk(ui, c, srv[c] = "okText")
                ELSE OnFailed(ui, c, srv[c] = "aborted"))
  /\ Close(c, srv[c] \in {"ok", "okText"})

(* The request fails on the network: the server knows nothing of it.       *)
LoseResponse(c) ==
  call[c] = "open" /\ ChangeUi(OnFailed(ui, c, FALSE)) /\ Close(c, FALSE)

FallbackFires(c) ==
  c \in ui.fallback /\ ChangeUi(OnFallback(ui, c))
    /\ UNCHANGED <<call, srv, wire, known>>

(* The forced stop is armed with the fallback and fires 400 ms after it.   *)
ForcedFires(c) ==
  c \in ui.forced \ ui.fallback /\ ChangeUi(OnForced(ui, c))
    /\ UNCHANGED <<call, srv, wire, known>>

(* The socket closes; the next connection has another client id.           *)
Disconnect ==
  /\ listening # {} \/ wire # <<>>
  /\ wire' = <<>> /\ listening' = {}
  /\ known' = known \cup {"broken"}
  /\ UNCHANGED <<ui, ask, call, srv, sess, spoke, registered, signalled>>

-----------------------------------------------------------------------------
ServerStep(c) == Receive(c) \/ Resolve(c) \/ Refuse(c) \/ StreamText(c)
                   \/ RunSucceeds(c) \/ RunFails(c)

ClientStep(c) == Respond(c) \/ FallbackFires(c) \/ ForcedFires(c)

ChatNext ==
  \/ \E c \in Convs : Send(c) \/ ServerStep(c) \/ ClientStep(c) \/ LoseResponse(c)
  \/ \E s \in Sessions : SelectSession(s)
  \/ NewChat \/ Stop \/ Deliver \/ Disconnect

(* What is sure to happen: the server answers (a run has a timeout), the   *)
(* sockets and the timers deliver.  There are finitely many of these steps *)
(* per message, so that fairness to their disjunction is fairness to each. *)
ChatProgress == Deliver \/ \E c \in Convs : ServerStep(c) \/ ClientStep(c)

ChatSpec == ChatInit /\ [][ChatNext]_chatVars

FairChatSpec == ChatSpec /\ WF_chatVars(ChatProgress)

-----------------------------------------------------------------------------
(* While the turn on screen is running the Stop button is shown and stops  *)
(* that turn, wherever the user has been meanwhile (isCurrentStream and    *)
(* abortStream of useChat.ts), unless one of four things happened: another *)
(* session was selected while a new chat was pending, the answer of an     *)
(* earlier turn of the session came late, the answer of a new chat came    *)
(* after its stream had ended, or the socket broke.                        *)
StopReachesTurn ==
  known = {} => \A c \in Convs : Live(c) /\ Viewing(c) =>
                  ui.streaming /\ StopTarget(ui) = c

(* The client does not show a turn as running for ever: the socket, the    *)
(* HTTP answer or a timer ends it, unless a pending new chat was taken     *)
(* into another session or the socket broke.                               *)
StreamEnds ==
  ui.streaming ~> (~ui.streaming \/ known \cap {"promoted", "broken"} # {})
=============================================================================
