------------------------- MODULE ChatStreams_proofs -------------------------
(***************************************************************************)
(* StopReachesTurn of ChatStreams, for any number of conversations and     *)
(* sessions.                                                               *)
(*                                                                         *)
(* As long as none of the known disturbances happened, every stream in     *)
(* activeStreamsRef is the only one under its key, has its state, and is   *)
(* shown as running when it is on screen (Bound).  A stream without a      *)
(* session is keyed by its own conversation, and then the user is still in *)
(* the pending new chat (Alone).  That a late answer meets no stream of    *)
(* another turn rests on what sessions are (SessInv): a session created    *)
(* for a new chat is nobody else's until the user sees it.                 *)
(***************************************************************************)
EXTENDS ChatStreams, TLAPS

Streams == [conv : Convs \cup {NoKey}, text : BOOLEAN]

Uis ==
  [view : Sessions \cup {NoKey}, pending : Convs \cup {NoKey},
   streaming : BOOLEAN, key : [Convs -> Keys \cup {NoKey}],
   before : SUBSET (Convs \X Convs), strm : [Keys -> Streams],
   fallback : SUBSET Convs, forced : SUBSET Convs]

Kinds == {"token", "done", "error"}

Messages == Kinds \X Convs

Types ==
  /\ ask \in [Convs -> Sessions \cup {NoKey}]
  /\ call \in [Convs -> {"none", "open", "closed"}]
  /\ srv \in [Convs -> {"none", "resolving", "running", "gone"} \cup Answers]
  /\ sess \in [Convs -> Sessions \cup {NoKey}]
  /\ wire \in Seq(Messages)

-----------------------------------------------------------------------------
(* The client's maps                                                       *)

Irreflexive(u) == \A d \in Convs : <<d, d>> \notin u.before

(* Keys and absent streams are apart.                                      *)
LEMMA KeyFacts ==
  /\ NoKey \notin Keys /\ NoStream \in Streams
  /\ \A c \in Convs : c \in Keys /\ c \notin Sessions /\ c # NoKey
  /\ \A s \in Sessions : s \in Keys /\ s \notin Convs /\ s # NoKey
  BY ChatAssumption DEF Keys, NoStream, Streams

(* An entry is made or rebound.                                            *)
IsPut(u, c, k, v) ==
  /\ v \in Uis
  /\ v.view = u.view /\ v.pending = u.pending
  /\ v.streaming = u.streaming /\ v.strm = u.strm
  /\ v.fallback = u.fallback /\ v.forced = u.forced
  /\ \A d \in Convs : v.key[d] = IF d = c THEN k ELSE u.key[d]
  /\ Irreflexive(u) => Irreflexive(v)

LEMMA PutFields ==
  ASSUME NEW u \in Uis, NEW c \in Convs, NEW k \in Keys
  PROVE  IsPut(u, c, k, Put(u, c, k))
<1>0. PICK v : v = Put(u, c, k)
  OBVIOUS
<1>1. PICK key : key = [u.key EXCEPT ![c] = k]
  OBVIOUS
<1>2. key \in [Convs -> Keys \cup {NoKey}]
      /\ \A d \in Convs : key[d] = IF d = c THEN k ELSE u.key[d]
  BY <1>1 DEF Uis
<1>3. PICK b : b = IF c \in Active(u) THEN u.before
                   ELSE u.before \cup (Active(u) \X {c})
  OBVIOUS
<1>4. b \in SUBSET (Convs \X Convs)
  BY <1>3 DEF Active, Uis
<1>5. v = [u EXCEPT !.key = key, !.before = b]
  BY <1>0, <1>1, <1>3 DEF Put, Uis
<1>6. /\ v \in Uis
      /\ v.view = u.view /\ v.pending = u.pending
      /\ v.streaming = u.streaming /\ v.strm = u.strm
      /\ v.fallback = u.fallback /\ v.forced = u.forced
      /\ v.key = key /\ v.before = b
  BY <1>2, <1>4, <1>5 DEF Uis
<1>7. ASSUME Irreflexive(u) PROVE Irreflexive(v)
  <2>1. ASSUME NEW d \in Convs, <<d, d>> \in b PROVE <<d, d>> \in u.before
    <3>1. CASE c \in Active(u)
      BY <1>3, <2>1, <3>1
    <3>2. CASE c \notin Active(u)
      <4>1. <<d, d>> \notin Active(u) \X {c}
        BY <3>2
      <4> QED  BY <1>3, <2>1, <3>2, <4>1
    <3> QED  BY <3>1, <3>2
  <2> QED  BY <1>6, <1>7, <2>1 DEF Irreflexive
<1> QED  BY <1>0, <1>2, <1>6, <1>7 DEF IsPut

(* A stream ends.                                                          *)
IsFinish(u, c, k, v) ==
  /\ v \in Uis
  /\ v.view = u.view /\ v.pending = u.pending
  /\ v.streaming = TRUE <=> u.streaming = TRUE /\ ~Current(u, k)
  /\ v.fallback = u.fallback \ {c} /\ v.forced = u.forced \ {c}
  /\ \A d \in Convs : v.key[d] = IF d = c THEN NoKey ELSE u.key[d]
  /\ \A d \in Keys : v.strm[d] = IF d = k THEN NoStream ELSE u.strm[d]
  /\ Irreflexive(u) => Irreflexive(v)

LEMMA FinishFields ==
  ASSUME NEW u \in Uis, NEW c \in Convs, NEW k \in Keys
  PROVE  IsFinish(u, c, k, Finish(u, c, k))
<1>0. PICK v : v = Finish(u, c, k)
  OBVIOUS
<1>1. PICK n : n = NoTimers(u, c)
  OBVIOUS
<1>2. /\ n \in Uis
      /\ n.view = u.view /\ n.pending = u.pending
      /\ n.streaming = u.streaming /\ n.strm = u.strm
      /\ n.fallback = u.fallback \ {c} /\ n.forced = u.forced \ {c}
      /\ n.key = u.key /\ n.before = u.before
  BY <1>1 DEF NoTimers, Uis
<1>3. PICK key : key = [n.key EXCEPT ![c] = NoKey]
  OBVIOUS
<1>4. key \in [Convs -> Keys \cup {NoKey}]
      /\ \A d \in Convs : key[d] = IF d = c THEN NoKey ELSE u.key[d]
  BY <1>2, <1>3 DEF Uis
<1>5. PICK b : b = {p \in n.before : c \notin {p[1], p[2]}}
  OBVIOUS
<1>6. b \in SUBSET (Convs \X Convs) /\ b \subseteq u.before
  BY <1>2, <1>5 DEF Uis
<1>7. PICK e : e = Drop(n, c)
  OBVIOUS
<1>8. e = [n EXCEPT !.key = key, !.before = b]
  BY <1>2, <1>3, <1>5, <1>7 DEF Drop, Uis
<1>9. /\ e \in Uis
      /\ e.view = u.view /\ e.pending = u.pending
      /\ e.streaming = u.streaming /\ e.strm = u.strm
      /\ e.fallback = u.fallback \ {c} /\ e.forced = u.forced \ {c}
      /\ e.key = key /\ e.before = b
  BY <1>2, <1>4, <1>6, <1>8 DEF Uis
<1>10. PICK strm : strm = [e.strm EXCEPT ![k] = NoStream]
  OBVIOUS
<1>11. strm \in [Keys -> Streams]
       /\ \A d \in Keys : strm[d] = IF d = k THEN NoStream ELSE u.strm[d]
  BY <1>9, <1>10, KeyFacts DEF Uis
<1>12. PICK f : f = [e EXCEPT !.strm[k] = NoStream]
  OBVIOUS
<1>13. f = [e EXCEPT !.strm = strm]
  BY <1>9, <1>10, <1>12 DEF Uis
<1>14. /\ f \in Uis
       /\ f.view = u.view /\ f.pending = u.pending
       /\ f.streaming = u.streaming /\ f.strm = strm
       /\ f.fallback = u.fallback \ {c} /\ f.forced = u.forced \ {c}
       /\ f.key = key /\ f.before = b
  BY <1>9, <1>11, <1>13 DEF Uis
<1>15. v = IF Current(u, k) THEN [f EXCEPT !.streaming = FALSE] ELSE f
  BY <1>0, <1>1, <1>7, <1>12, <1>14 DEF Finish, Quiet, Current
<1>16. /\ v \in Uis
       /\ v.view = u.view /\ v.pending = u.pending
       /\ v.streaming = TRUE <=> u.streaming = TRUE /\ ~Current(u, k)
       /\ v.strm = strm
       /\ v.fallback = u.fallback \ {c} /\ v.forced = u.forced \ {c}
       /\ v.key = key /\ v.before = b
  BY <1>14, <1>15 DEF Uis
<1>17. Irreflexive(u) => Irreflexive(v)
  BY <1>6, <1>16 DEF Irreflexive
<1> QED  BY <1>0, <1>4, <1>11, <1>16, <1>17 DEF IsFinish

(* A stream learns its session.                                            *)
IsRebind(u, c, s, v) ==
  /\ v \in Uis
  /\ v.pending = u.pending /\ v.streaming = u.streaming
  /\ v.fallback = u.fallback /\ v.forced = u.forced
  /\ v.view = IF Current(u, StreamKey(c)) THEN s ELSE u.view
  /\ \A d \in Convs : v.key[d] = IF d = c /\ ask[c] = NoKey THEN s ELSE u.key[d]
  /\ \A d \in Keys :
       v.strm[d] = IF ask[c] # NoKey \/ u.strm[c] = NoStream THEN u.strm[d]
                   ELSE IF d = c THEN NoStream
                   ELSE IF d = s THEN u.strm[c] ELSE u.strm[d]
  /\ Irreflexive(u) => Irreflexive(v)

LEMMA RebindFields ==
  ASSUME Types, NEW u \in Uis, NEW c \in Convs, NEW s \in Sessions,
         ask[c] \in {NoKey, s}
  PROVE  IsRebind(u, c, s, Rebind(u, c, s))
<1>0. PICK v : v = Rebind(u, c, s)
  OBVIOUS
<1> DEFINE k == StreamKey(c)
<1>1. k \in Keys /\ (k = s <=> ask[c] # NoKey) /\ (ask[c] = NoKey => k = c)
  BY KeyFacts DEF StreamKey
<1>2. PICK moved : moved = IF u.strm[k] = NoStream THEN u
               ELSE [u EXCEPT !.strm[s] = u.strm[k], !.strm[k] = NoStream]
  OBVIOUS
<1>3. PICK bound : bound = IF k = s THEN u ELSE Put(moved, c, s)
  OBVIOUS
<1>4. v = IF Current(bound, k) THEN [bound EXCEPT !.view = s] ELSE bound
  BY <1>0, <1>2, <1>3 DEF Rebind
<1>5. CASE ask[c] # NoKey
  <2>1. bound = u
    BY <1>1, <1>3, <1>5
  <2>2. /\ v \in Uis
        /\ v.pending = u.pending /\ v.streaming = u.streaming
        /\ v.fallback = u.fallback /\ v.forced = u.forced
        /\ v.view = IF Current(u, k) THEN s ELSE u.view
        /\ v.key = u.key /\ v.strm = u.strm /\ v.before = u.before
    BY <1>4, <2>1 DEF Uis
  <2> QED  BY <1>0, <1>5, <2>2 DEF Irreflexive, IsRebind
<1>6. CASE ask[c] = NoKey
  <2>1. k = c /\ c # s /\ c \in Keys /\ s \in Keys
    BY <1>1, <1>6, KeyFacts
  <2> HIDE DEF k
  <2>2. /\ moved \in Uis
        /\ moved.pending = u.pending /\ moved.streaming = u.streaming
        /\ moved.fallback = u.fallback /\ moved.forced = u.forced
        /\ moved.view = u.view /\ moved.key = u.key /\ moved.before = u.before
        /\ \A d \in Keys :
              moved.strm[d] = IF u.strm[c] = NoStream THEN u.strm[d]
                              ELSE IF d = c THEN NoStream
                              ELSE IF d = s THEN u.strm[c] ELSE u.strm[d]
    <3>1. CASE u.strm[c] = NoStream
      BY <1>2, <2>1, <3>1
    <3>2. CASE u.strm[c] # NoStream
      <4>1. PICK strm : strm = [u.strm EXCEPT ![s] = u.strm[c], ![c] = NoStream]
        OBVIOUS
      <4>2. strm \in [Keys -> Streams]
            /\ \A d \in Keys : strm[d] = IF d = c THEN NoStream
                                         ELSE IF d = s THEN u.strm[c] ELSE u.strm[d]
        BY <2>1, <4>1, KeyFacts DEF Uis
      <4>3. moved = [u EXCEPT !.strm = strm]
        BY <1>2, <2>1, <3>2, <4>1 DEF Uis
      <4> QED  BY <3>2, <4>2, <4>3 DEF Uis
    <3> QED  BY <3>1, <3>2
  <2>3. bound = Put(moved, c, s)
    BY <1>3, <2>1
  <2>4. /\ bound \in Uis
        /\ bound.pending = u.pending /\ bound.streaming = u.streaming
        /\ bound.fallback = u.fallback /\ bound.forced = u.forced
        /\ bound.view = u.view /\ bound.strm = moved.strm
        /\ \A d \in Convs : bound.key[d] = IF d = c THEN s ELSE u.key[d]
        /\ Irreflexive(moved) => Irreflexive(bound)
    <3>1. IsPut(moved, c, s, bound)
      BY <2>1, <2>2, <2>3, PutFields
    <3> QED  BY <2>2, <3>1 DEF IsPut
  <2>5. /\ v \in Uis
        /\ v.pending = u.pending /\ v.streaming = u.streaming
        /\ v.fallback = u.fallback /\ v.forced = u.forced
        /\ v.view = IF Current(u, k) THEN s ELSE u.view
        /\ v.key = bound.key /\ v.strm = bound.strm /\ v.before = bound.before
    BY <1>4, <2>4 DEF Uis, Current
  <2>6. Irreflexive(u) => Irreflexive(v)
    BY <2>2, <2>4, <2>5 DEF Irreflexive
  <2> USE DEF k
  <2> QED  BY <1>0, <1>6, <2>2, <2>4, <2>5, <2>6 DEF IsRebind
<1> QED  BY <1>5, <1>6

-----------------------------------------------------------------------------
(* What is true of the client                                              *)

(* A stream keyed by a conversation is the pending new chat on screen.     *)
Alone(u) ==
  \A c \in Convs : u.key[c] \in Convs =>
    u.key[c] = c /\ u.view = NoKey /\ u.pending = c

Kept(u) == \A c \in Convs : u.strm[c] # NoStream => u.key[c] = c

BoundTo(u, c) ==
  /\ u.key[c] = StreamKey(c) \/ (ask[c] = NoKey /\ u.key[c] = sess[c])
  /\ u.strm[u.key[c]] # NoStream
  /\ Current(u, u.key[c]) => u.streaming = TRUE
  /\ \A d \in Convs : u.key[d] = u.key[c] => d = c

Bound(u) == \A c \in Convs : u.key[c] # NoKey => BoundTo(u, c)

Core(u) == u \in Uis /\ Alone(u) /\ Kept(u) /\ Bound(u) /\ Irreflexive(u)

(* The pending new chat was sent, and nothing has rebound it yet.          *)
Waits(u) ==
  \A p \in Convs : u.pending = p =>
    u.key[p] \in {p, NoKey} /\ ask[p] = NoKey /\ call[p] # "none"

(* At most one key is on screen.                                           *)
LEMMA OneCurrent ==
  ASSUME NEW u, NEW k \in Keys, NEW l \in Keys, Current(u, k), Current(u, l)
  PROVE  k = l
  BY KeyFacts DEF Current

(* What Core reads of a state; timers and the text of a stream are not.    *)
LEMMA CoreSame ==
  ASSUME NEW u, Core(u), NEW v \in Uis,
         v.view = u.view, v.pending = u.pending, v.streaming = u.streaming,
         \A c \in Convs : v.key[c] = u.key[c],
         \A k \in Keys : v.strm[k] = NoStream <=> u.strm[k] = NoStream,
         Irreflexive(v)
  PROVE  Core(v)
<1>1. u \in Uis /\ \A c \in Convs : u.key[c] \in Keys \cup {NoKey}
  BY DEF Core, Uis
<1>2. Alone(v)
  BY DEF Core, Alone
<1>3. Kept(v)
  BY KeyFacts DEF Core, Kept
<1>4. Bound(v)
  BY <1>1 DEF Core, Bound, BoundTo, Current
<1> QED  BY <1>2, <1>3, <1>4 DEF Core

(* The end of a stream that is the only one under its key.                 *)
LEMMA FinishCore ==
  ASSUME NEW u, Core(u), NEW c \in Convs, NEW k \in Keys,
         u.key[c] \in {k, NoKey}, \A d \in Convs : u.key[d] = k => d = c,
         NEW v, v = Finish(u, c, k)
  PROVE  Core(v)
<1>1. u \in Uis /\ \A d \in Convs : u.key[d] \in Keys \cup {NoKey}
  BY DEF Core, Uis
<1>2. IsFinish(u, c, k, v)
  BY <1>1, FinishFields
<1> USE <1>2 DEF IsFinish
<1>3. Alone(v)
  BY <1>2, KeyFacts DEF Core, Alone
<1>4. Kept(v)
  BY <1>2, KeyFacts DEF Core, Kept
<1>5. ASSUME NEW d \in Convs, v.key[d] # NoKey PROVE BoundTo(v, d)
  <2>1. d # c /\ v.key[d] = u.key[d] /\ u.key[d] # k /\ u.key[d] \in Keys
    BY <1>1, <1>2, <1>5
  <2>2. BoundTo(u, d)
    BY <1>5, <2>1 DEF Core, Bound
  <2>3. Current(v, u.key[d]) => Current(u, u.key[d]) /\ ~Current(u, k)
    BY <1>2, <2>1, OneCurrent DEF Current
  <2>4. v.strm[u.key[d]] = u.strm[u.key[d]]
    BY <1>2, <2>1
  <2>5. \A e \in Convs : v.key[e] = v.key[d] => e = d
    BY <1>2, <1>5, <2>1, <2>2 DEF BoundTo
  <2> QED  BY <1>2, <2>1, <2>2, <2>3, <2>4, <2>5 DEF BoundTo
<1> QED  BY <1>2, <1>3, <1>4, <1>5 DEF Core, Bound

(* A chat that is not keyed by its conversation is no longer pending.      *)
LEMMA UnpendCore ==
  ASSUME NEW u, Core(u), NEW c \in Convs, u.key[c] \notin Convs,
         NEW v, v = Unpend(u, c)
  PROVE  /\ Core(v)
         /\ v.view = u.view /\ v.key = u.key
         /\ v.pending = IF u.pending = c THEN NoKey ELSE u.pending
         /\ v.fallback = u.fallback /\ v.forced = u.forced
<1>1. u \in Uis /\ \A d \in Convs : u.key[d] \in Keys \cup {NoKey}
  BY DEF Core, Uis
<1>2. /\ v \in Uis
      /\ v.view = u.view /\ v.streaming = u.streaming
      /\ v.pending = IF u.pending = c THEN NoKey ELSE u.pending
      /\ v.key = u.key /\ v.strm = u.strm /\ v.before = u.before
      /\ v.fallback = u.fallback /\ v.forced = u.forced
  BY <1>1 DEF Unpend, Uis
<1>3. Alone(v)
  BY <1>2 DEF Core, Alone
<1>4. Kept(v)
  BY <1>2 DEF Core, Kept
<1>5. ASSUME NEW d \in Convs, v.key[d] # NoKey PROVE BoundTo(v, d)
  <2>1. BoundTo(u, d) /\ u.key[d] # NoKey
    BY <1>2, <1>5 DEF Core, Bound
  <2>2. Current(v, u.key[d]) => Current(u, u.key[d])
    BY <1>2, <2>1 DEF Current
  <2> QED  BY <1>2, <2>1, <2>2 DEF BoundTo
<1>6. Irreflexive(v)
  BY <1>2 DEF Core, Irreflexive
<1> QED  BY <1>2, <1>3, <1>4, <1>5, <1>6 DEF Core, Bound

-----------------------------------------------------------------------------
(* The inductive invariant                                                 *)

(* What is on the socket for a turn that still runs is text.               *)
OnWire(kind, c) == \E i \in 1 .. Len(wire) : wire[i] = <<kind, c>>

WireInv ==
  \A kind \in Kinds, c \in Convs : OnWire(kind, c) =>
    call[c] # "none" /\ (Live(c) => kind = "token")

TimerInv == \A c \in Convs : c \in ui.forced \cup ui.fallback => call[c] = "closed"

KeyInv ==
  \A c \in Convs : /\ ui.key[c] # NoKey => call[c] # "none"
                   /\ Live(c) => ui.key[c] # NoKey

(* A new chat's session is its own until the user has seen it.             *)
SessionOf(c) ==
  /\ ask[c] \in Created \cup {NoKey}
  /\ call[c] = "none" => srv[c] = "none" /\ ask[c] = NoKey
  /\ srv[c] = "none" => sess[c] = NoKey
  /\ srv[c] # "none" /\ ask[c] # NoKey => sess[c] = ask[c]
  /\ srv[c] \in {"running", "ok", "okText"} => sess[c] # NoKey
  /\ ask[c] = NoKey => sess[c] \notin Existing
  /\ \A d \in Convs : d # c /\ ask[c] = NoKey /\ ask[d] = NoKey
                        /\ sess[c] = sess[d] => sess[c] = NoKey

SessInv ==
  ui.view \in Created \cup {NoKey} /\ \A c \in Convs : SessionOf(c)

(* A message is sent in a new chat's session when its stream is over.      *)
FollowUp ==
  \A c, d \in Convs : ask[d] = NoKey /\ sess[d] # NoKey /\ ask[c] = sess[d]
                        => ui.key[d] = NoKey

Calm ==
  /\ Types /\ Core(ui) /\ Waits(ui)
  /\ WireInv /\ TimerInv /\ KeyInv /\ SessInv /\ FollowUp

ChatInv == known = {} => Calm

(* The streams of other turns are under other keys than an answer's, when  *)
(* no later turn of its session is streaming.                              *)
LEMMA Sole ==
  ASSUME Calm, NEW c \in Convs, Later(c) = {} \/ (ask[c] = NoKey /\ ui.key[c] # NoKey)
  PROVE  \A d \in Convs : d # c /\ ui.key[d] # NoKey
            => ui.key[d] # ask[c] /\ ui.key[d] # sess[c]
<1> SUFFICES ASSUME NEW d \in Convs, d # c, ui.key[d] # NoKey,
                    ui.key[d] = ask[c] \/ ui.key[d] = sess[c]
             PROVE  FALSE
  OBVIOUS
<1>1. ui.key[d] \in Sessions /\ BoundTo(ui, d) /\ SessionOf(c) /\ SessionOf(d)
  BY DEF Calm, Types, SessInv, Core, Bound
<1>2. CASE ask[d] # NoKey
  <2>1. ask[d] = ui.key[d]
    BY <1>1, <1>2 DEF BoundTo, StreamKey
  <2>2. CASE Later(c) = {}
    BY <1>2, <2>1, <2>2 DEF Later
  <2>3. CASE ask[c] = NoKey /\ ui.key[c] # NoKey
    <3>1. ask[d] = sess[c] /\ sess[c] # NoKey
      BY <2>1, <2>3
    <3> QED  BY <2>3, <3>1 DEF Calm, FollowUp
  <2> QED  BY <2>2, <2>3
<1>3. CASE ask[d] = NoKey
  <2>1. ui.key[d] = sess[d]
    BY <1>1, <1>3, KeyFacts DEF BoundTo, StreamKey
  <2>2. CASE ask[c] = NoKey
    BY <1>1, <1>3, <2>1, <2>2 DEF SessionOf
  <2>3. CASE ask[c] # NoKey
    <3>1. ask[c] = sess[d]
      BY <1>1, <2>1, <2>3 DEF SessionOf
    <3> QED  BY <1>3, <2>1, <3>1 DEF Calm, FollowUp
  <2> QED  BY <2>2, <2>3
<1> QED  BY <1>2, <1>3

(* What the client may do on behalf of one turn.                           *)
Moves(c, v) ==
  /\ Core(v) /\ Waits(v)
  /\ v.view \in Created \cup {NoKey}
  /\ \A d \in Convs : v.key[d] # NoKey => ui.key[d] # NoKey
  /\ \A d \in Convs : d # c /\ v.key[d] = NoKey => ui.key[d] = NoKey
  /\ v.forced \cup v.fallback \subseteq ui.forced \cup ui.fallback \cup {c}

(* Clearing the timers of a turn.                                          *)
LEMMA QuietTimers ==
  ASSUME Calm, NEW c \in Convs, NEW v, v = NoTimers(ui, c)
  PROVE  /\ Core(v) /\ Waits(v)
         /\ v.view = ui.view /\ v.pending = ui.pending
         /\ v.key = ui.key /\ v.strm = ui.strm
         /\ v.forced = ui.forced \ {c} /\ v.fallback = ui.fallback \ {c}
         /\ Moves(c, v)
<1>1. Core(ui) /\ ui \in Uis /\ Irreflexive(ui)
  BY DEF Calm, Core
<1>2. /\ v \in Uis
      /\ v.view = ui.view /\ v.pending = ui.pending
      /\ v.streaming = ui.streaming /\ v.strm = ui.strm
      /\ v.fallback = ui.fallback \ {c} /\ v.forced = ui.forced \ {c}
      /\ v.key = ui.key /\ v.before = ui.before
  BY <1>1 DEF NoTimers, Uis
<1>3. Irreflexive(v)
  BY <1>1, <1>2 DEF Irreflexive
<1>4. Core(v)
  BY <1>1, <1>2, <1>3, CoreSame
<1>5. Waits(v)
  BY <1>2 DEF Calm, Waits
<1>6. Moves(c, v)
  BY <1>2, <1>4, <1>5 DEF Moves, Calm, SessInv
<1> QED  BY <1>2, <1>4, <1>5, <1>6

(* A stream ends, and its chat is no longer pending.                       *)
LEMMA FinishMoves ==
  ASSUME Calm, NEW c \in Convs, NEW u, Moves(c, u), NEW k \in Keys,
         u.key[c] \in {k, NoKey}, \A d \in Convs : u.key[d] = k => d = c,
         NEW v, v = Finish(u, c, k)
  PROVE  Moves(c, v) /\ Moves(c, Unpend(v, c))
<1>1. Core(u) /\ u \in Uis /\ Waits(u)
  BY DEF Moves, Core
<1>2. IsFinish(u, c, k, v)
  BY <1>1, FinishFields
<1>3. Core(v)
  BY <1>1, FinishCore
<1>4. Waits(v)
  BY <1>1, <1>2 DEF Waits, IsFinish
<1>5. Moves(c, v)
  BY <1>2, <1>3, <1>4 DEF Moves, IsFinish
<1>6. v.key[c] = NoKey /\ NoKey \notin Convs
  BY <1>2, ChatAssumption DEF IsFinish
<1>7. PICK w : w = Unpend(v, c)
  OBVIOUS
<1>8. /\ Core(w) /\ w.view = v.view /\ w.key = v.key
      /\ w.pending = IF v.pending = c THEN NoKey ELSE v.pending
      /\ w.fallback = v.fallback /\ w.forced = v.forced
  BY <1>3, <1>6, <1>7, UnpendCore
<1>9. Waits(w)
  BY <1>4, <1>6, <1>8 DEF Waits
<1>10. Moves(c, w)
  BY <1>5, <1>8, <1>9 DEF Moves
<1> QED  BY <1>5, <1>7, <1>10

(* The stream of a turn is the only one under its key.                     *)
LEMMA OwnKey ==
  ASSUME Calm, NEW c \in Convs, ui.key[c] # NoKey
  PROVE  ui.key[c] \in Keys /\ \A d \in Convs : ui.key[d] = ui.key[c] => d = c
  BY DEF Calm, Core, Uis, Bound, BoundTo

(* The state as it is.                                                     *)
LEMMA StayMoves ==
  ASSUME Calm, NEW c \in Convs PROVE Moves(c, ui)
  BY DEF Calm, Moves, SessInv

(* handleDone and handleError; the timers.                                 *)
LEMMA EndMoves ==
  ASSUME Calm, NEW c \in Convs
  PROVE  /\ Moves(c, OnEnd(ui, c))
         /\ Moves(c, OnFallback(ui, c)) /\ Moves(c, OnForced(ui, c))
<1>1. CASE ui.key[c] = NoKey
  <2>1. Moves(c, ui) /\ Moves(c, NoTimers(ui, c))
    BY QuietTimers, StayMoves
  <2> QED  BY <1>1, <2>1 DEF OnEnd, OnFallback, OnForced
<1>2. CASE ui.key[c] # NoKey
  <2>1. PICK v : v = Finish(ui, c, ui.key[c])
    OBVIOUS
  <2>2. Moves(c, v) /\ Moves(c, Unpend(v, c))
    BY <1>2, <2>1, OwnKey, StayMoves, FinishMoves
  <2>3. Moves(c, NoTimers(ui, c))
    BY QuietTimers
  <2> QED  BY <1>2, <2>1, <2>2, <2>3 DEF OnEnd, OnFallback, OnForced
<1> QED  BY <1>1, <1>2

(* handleToken                                                             *)
LEMMA TokenMoves ==
  ASSUME Calm, NEW c \in Convs, NEW v, v = OnToken(ui, c)
  PROVE  Moves(c, v) /\ v.key = ui.key
         /\ v.forced \subseteq ui.forced /\ v.fallback \subseteq ui.fallback
<1>1. CASE ui.key[c] = NoKey
  <2>1. v = ui
    BY <1>1 DEF OnToken
  <2> QED  BY <2>1, StayMoves
<1>2. CASE ui.key[c] # NoKey
  <2>1. PICK k : k = ui.key[c]
    OBVIOUS
  <2>2. k \in Keys
    BY <1>2, <2>1, OwnKey
  <2>3. PICK n : n = NoTimers(ui, c)
    OBVIOUS
  <2>4. /\ Core(n) /\ Waits(n)
        /\ n.view = ui.view /\ n.pending = ui.pending
        /\ n.key = ui.key /\ n.strm = ui.strm
        /\ n.forced = ui.forced \ {c} /\ n.fallback = ui.fallback \ {c}
        /\ Moves(c, n)
    BY <2>3, QuietTimers
  <2>5. CASE n.strm[k] = NoStream
    <3>1. v = n
      BY <1>2, <2>1, <2>3, <2>5 DEF OnToken
    <3> QED  BY <2>4, <3>1
  <2>6. CASE n.strm[k] # NoStream
    <3>1. n \in Uis /\ Irreflexive(n)
      BY <2>4 DEF Core
    <3>2. PICK strm : strm = [n.strm EXCEPT ![k] = [n.strm[k] EXCEPT !.text = TRUE]]
      OBVIOUS
    <3>3. strm \in [Keys -> Streams] /\ strm[k].text = TRUE
          /\ \A d \in Keys : d # k => strm[d] = n.strm[d]
      BY <2>2, <3>1, <3>2 DEF Uis, Streams
    <3>4. strm[k] # NoStream
      BY <3>3 DEF NoStream
    <3>5. v = [n EXCEPT !.strm = strm]
      BY <1>2, <2>1, <2>3, <2>6, <3>1, <3>2 DEF OnToken, Uis
    <3>6. /\ v \in Uis
          /\ v.view = n.view /\ v.pending = n.pending
          /\ v.streaming = n.streaming /\ v.strm = strm
          /\ v.fallback = n.fallback /\ v.forced = n.forced
          /\ v.key = n.key /\ v.before = n.before
      BY <3>1, <3>3, <3>5 DEF Uis
    <3>7. Irreflexive(v)
      BY <3>1, <3>6 DEF Irreflexive
    <3>8. Core(v)
      BY <2>4, <2>6, <3>3, <3>4, <3>6, <3>7, CoreSame
    <3>9. Waits(v)
      BY <2>4, <3>6 DEF Waits
    <3> QED  BY <2>4, <3>6, <3>8, <3>9 DEF Moves
  <2> QED  BY <2>5, <2>6
<1> QED  BY <1>1, <1>2

(* A state that differs from the client's in timers only.                  *)
AsShown(u) ==
  /\ Core(u) /\ Waits(u)
  /\ u.view = ui.view /\ u.pending = ui.pending
  /\ u.key = ui.key /\ u.strm = ui.strm
  /\ u.forced \subseteq ui.forced /\ u.fallback \subseteq ui.fallback

(* The session of an answered turn.                                        *)
LEMMA Answered ==
  ASSUME Calm, NEW c \in Convs, sess[c] # NoKey
  PROVE  sess[c] \in Sessions /\ sess[c] \in Created /\ ask[c] \in {NoKey, sess[c]}
<1>1. SessionOf(c) /\ sess \in [Convs -> Sessions \cup {NoKey}]
  BY DEF Calm, SessInv, Types
<1>2. sess[c] \in Range(sess)
  BY <1>1 DEF Range
<1> QED  BY <1>1, <1>2 DEF SessionOf, Created

(* The answer of a message sent in a session moves nothing.                *)
LEMMA RebindSent ==
  ASSUME Calm, NEW c \in Convs, sess[c] # NoKey, ask[c] # NoKey,
         NEW u, AsShown(u), NEW v, v = Rebind(u, c, sess[c])
  PROVE  AsShown(v)
<1>1. Core(u) /\ u \in Uis /\ Irreflexive(u) /\ Types
  BY DEF AsShown, Core, Calm
<1>2. sess[c] \in Sessions /\ ask[c] = sess[c]
  BY Answered
<1>3. IsRebind(u, c, sess[c], v)
  BY <1>1, <1>2, RebindFields
<1>4. StreamKey(c) = sess[c] /\ sess[c] \notin Convs /\ sess[c] # NoKey
  BY <1>2, KeyFacts DEF StreamKey
<1>5. v.view = u.view
  BY <1>1, <1>3, <1>4 DEF IsRebind, Current, Uis
<1>6. v.key = u.key /\ v.strm = u.strm
  <2>1. \A d \in Convs : v.key[d] = u.key[d]
    BY <1>3 DEF IsRebind
  <2>2. \A d \in Keys : v.strm[d] = u.strm[d]
    BY <1>3 DEF IsRebind
  <2>3. v \in Uis
    BY <1>3 DEF IsRebind
  <2> QED  BY <1>1, <2>1, <2>2, <2>3 DEF Uis
<1>7. /\ v \in Uis /\ Irreflexive(v)
      /\ v.pending = u.pending /\ v.streaming = u.streaming
      /\ v.fallback = u.fallback /\ v.forced = u.forced
  BY <1>1, <1>3 DEF IsRebind
<1>8. Core(v)
  BY <1>1, <1>5, <1>6, <1>7, CoreSame
<1>9. Waits(v)
  BY <1>5, <1>6, <1>7 DEF AsShown, Waits
<1> QED  BY <1>5, <1>6, <1>7, <1>8, <1>9 DEF AsShown

(* The stream of a new chat, still running, is bound to its session.       *)
LEMMA RebindNew ==
  ASSUME Calm, NEW c \in Convs, sess[c] # NoKey, ask[c] = NoKey,
         ui.key[c] # NoKey, NEW u, AsShown(u),
         NEW v, v = Rebind(u, c, sess[c])
  PROVE  Core(v) /\ IsRebind(u, c, sess[c], v)
<1> DEFINE s == sess[c]
<1>1. Core(u) /\ u \in Uis /\ Irreflexive(u) /\ Types /\ Alone(u) /\ Kept(u)
      /\ Bound(u) /\ Waits(u) /\ u.key = ui.key
  BY DEF AsShown, Core, Calm
<1>2. s \in Sessions /\ s \in Keys /\ s \notin Convs /\ s # NoKey /\ c \in Keys
      /\ c # s /\ c # NoKey
  BY Answered, KeyFacts
<1>3. IsRebind(u, c, s, v)
  BY <1>1, <1>2, RebindFields
<1>4. BoundTo(u, c) /\ StreamKey(c) = c
  BY <1>1 DEF Bound, StreamKey
<1>5. u.key[c] = c \/ u.key[c] = s
  BY <1>4 DEF BoundTo
<1>6. \A d \in Convs : d # c => u.key[d] # s
  BY <1>1, <1>2, Sole
<1>7. \A d \in Convs : u.key[d] \in Keys \cup {NoKey}
  BY <1>1 DEF Uis
<1> HIDE DEF s
<1>8. CASE u.key[c] = s
  <2>1. u.strm[c] = NoStream
    BY <1>1, <1>2, <1>8 DEF Kept
  <2>2. u.pending # c
    BY <1>1, <1>2, <1>8 DEF Waits
  <2>3. u.view # c
    BY <1>1, KeyFacts DEF Uis
  <2>4. v.view = u.view
    BY <1>3, <1>4, <2>2, <2>3 DEF IsRebind, Current
  <2>5. \A d \in Convs : v.key[d] = u.key[d]
    BY <1>3, <1>8 DEF IsRebind
  <2>6. \A d \in Keys : v.strm[d] = u.strm[d]
    BY <1>3, <2>1 DEF IsRebind
  <2>7. v \in Uis /\ Irreflexive(v)
        /\ v.pending = u.pending /\ v.streaming = u.streaming
    BY <1>1, <1>3 DEF IsRebind
  <2>8. Core(v)
    BY <1>1, <2>4, <2>5, <2>6, <2>7, CoreSame
  <2> QED  BY <1>3, <2>8 DEF s
<1>9. CASE u.key[c] = c
  <2>1. u.view = NoKey /\ u.pending = c /\ \A d \in Convs : d # c => u.key[d] \notin Convs
    BY <1>1, <1>9 DEF Alone
  <2>2. Current(u, c) /\ u.streaming = TRUE /\ u.strm[c] # NoStream
    BY <1>4, <1>9, <2>1 DEF BoundTo, Current
  <2>3. \A d \in Convs : d # c => u.strm[d] = NoStream
    BY <1>1, <2>1 DEF Kept
  <2>4. /\ v \in Uis /\ Irreflexive(v)
        /\ v.pending = c /\ v.streaming = TRUE /\ v.view = s
        /\ \A d \in Convs : v.key[d] = IF d = c THEN s ELSE u.key[d]
        /\ \A d \in Keys : v.strm[d] = IF d = c THEN NoStream
                                       ELSE IF d = s THEN u.strm[c] ELSE u.strm[d]
    BY <1>1, <1>3, <1>4, <2>1, <2>2 DEF IsRebind
  <2>5. Alone(v)
    BY <1>2, <2>1, <2>4 DEF Alone
  <2>6. Kept(v)
    BY <1>2, <2>3, <2>4, KeyFacts DEF Kept
  <2>7. ASSUME NEW d \in Convs, v.key[d] # NoKey PROVE BoundTo(v, d)
    <3>1. CASE d = c
      <4>1. v.key[d] = s /\ v.strm[s] # NoStream
        BY <1>2, <2>2, <2>4, <3>1
      <4>2. \A e \in Convs : v.key[e] = s => e = c
        BY <1>6, <2>4
      <4> QED  BY <2>4, <3>1, <4>1, <4>2 DEF BoundTo, s
    <3>2. CASE d # c
      <4>1. v.key[d] = u.key[d] /\ u.key[d] # s /\ u.key[d] # c /\ u.key[d] \in Keys
        BY <1>6, <1>7, <2>1, <2>4, <2>7, <3>2
      <4>2. BoundTo(u, d)
        BY <1>1, <2>7, <4>1 DEF Bound
      <4>3. v.strm[v.key[d]] # NoStream
        BY <2>4, <4>1, <4>2 DEF BoundTo
      <4>4. \A e \in Convs : v.key[e] = v.key[d] => e = d
        BY <2>4, <4>1, <4>2 DEF BoundTo
      <4> QED  BY <2>4, <4>1, <4>2, <4>3, <4>4 DEF BoundTo
    <3> QED  BY <3>1, <3>2
  <2>8. Core(v)
    BY <2>4, <2>5, <2>6, <2>7 DEF Core, Bound
  <2> QED  BY <1>3, <2>8 DEF s
<1> QED  BY <1>5, <1>8, <1>9

(* The answer of a turn that ended well.                                   *)
LEMMA OkMoves ==
  ASSUME Calm, NEW c \in Convs, srv[c] \in {"ok", "okText"},
         ask[c] # NoKey \/ ui.key[c] # NoKey,
         NEW text \in BOOLEAN, NEW w, w = OnOk(ui, c, text)
  PROVE  Moves(c, w)
<1>1. sess[c] # NoKey
  BY DEF Calm, SessInv, SessionOf
<1>2. sess[c] \in Sessions /\ sess[c] \in Created /\ ask[c] \in {NoKey, sess[c]}
      /\ sess[c] \notin Convs
  BY <1>1, Answered, KeyFacts
<1>3. BoundTo(ui, c) \/ ui.key[c] = NoKey
  BY DEF Calm, Core, Bound
<1>4. AsShown(ui)
  BY DEF Calm, AsShown
<1>5. PICK v : v = Rebind(ui, c, sess[c])
  OBVIOUS
<1>6. /\ Core(v) /\ v.view \in Created \cup {NoKey} /\ v.key[c] \notin Convs
      /\ v.pending = ui.pending /\ v.forced \subseteq ui.forced
      /\ v.fallback \subseteq ui.fallback
      /\ \A d \in Convs : d # c => v.key[d] = ui.key[d]
      /\ v.key[c] # NoKey => ui.key[c] # NoKey
  <2>1. CASE ask[c] # NoKey
    <3>1. AsShown(v)
      BY <1>1, <1>4, <1>5, <2>1, RebindSent
    <3>2. ui.key[c] \notin Convs
      <4>1. CASE ui.key[c] = NoKey
        BY <4>1, ChatAssumption
      <4>2. CASE ui.key[c] # NoKey
        BY <1>2, <1>3, <2>1, <4>2 DEF BoundTo, StreamKey
      <4> QED  BY <4>1, <4>2
    <3> QED  BY <3>1, <3>2 DEF AsShown, Calm, SessInv
  <2>2. CASE ask[c] = NoKey
    <3>1. Core(v) /\ IsRebind(ui, c, sess[c], v)
      BY <1>1, <1>4, <1>5, <2>2, RebindNew
    <3>2. v.view \in Created \cup {NoKey}
      BY <1>2, <3>1 DEF IsRebind, Calm, SessInv
    <3>3. v.key[c] = sess[c] /\ ui.key[c] # NoKey
      BY <2>2, <3>1 DEF IsRebind
    <3> QED  BY <1>2, <3>1, <3>2, <3>3 DEF IsRebind
  <2> QED  BY <2>1, <2>2
<1>7. PICK b : b = Unpend(v, c)
  OBVIOUS
<1>8. /\ Core(b) /\ b.view = v.view /\ b.key = v.key
      /\ b.pending = IF v.pending = c THEN NoKey ELSE v.pending
      /\ b.fallback = v.fallback /\ b.forced = v.forced
  BY <1>6, <1>7, UnpendCore
<1>9. b \in Uis /\ Irreflexive(b)
  BY <1>8 DEF Core
<1>10. PICK f : f = IF text THEN b.fallback \cup {c} ELSE b.fallback
  OBVIOUS
<1>11. f \in SUBSET Convs /\ f \subseteq b.fallback \cup {c}
  BY <1>9, <1>10 DEF Uis
<1>12. PICK g : g = b.forced \cup {c}
  OBVIOUS
<1>13. w = [b EXCEPT !.forced = g, !.fallback = f]
  BY <1>5, <1>7, <1>9, <1>10, <1>12 DEF OnOk, Uis
<1>14. g \in SUBSET Convs
  BY <1>9, <1>12 DEF Uis
<1>15. /\ w \in Uis
       /\ w.view = b.view /\ w.pending = b.pending
       /\ w.streaming = b.streaming /\ w.strm = b.strm
       /\ w.fallback = f /\ w.forced = g
       /\ w.key = b.key /\ w.before = b.before
  BY <1>9, <1>11, <1>13, <1>14 DEF Uis
<1>16. Irreflexive(w)
  BY <1>9, <1>15 DEF Irreflexive
<1>17. Core(w)
  BY <1>8, <1>15, <1>16, CoreSame
<1>18. Waits(w)
  BY <1>6, <1>8, <1>15, ChatAssumption DEF Calm, Waits
<1>19. w.forced \cup w.fallback \subseteq ui.forced \cup ui.fallback \cup {c}
  BY <1>6, <1>8, <1>11, <1>12, <1>15
<1>20. /\ \A d \in Convs : w.key[d] # NoKey => ui.key[d] # NoKey
       /\ \A d \in Convs : d # c /\ w.key[d] = NoKey => ui.key[d] = NoKey
  BY <1>6, <1>8, <1>15
<1> QED  BY <1>6, <1>8, <1>15, <1>17, <1>18, <1>19, <1>20 DEF Moves

(* An aborted turn of a new chat: bound to its session and ended at once.  *)
LEMMA AbortCore ==
  ASSUME Calm, NEW c \in Convs, sess[c] # NoKey, ask[c] = NoKey, Later(c) = {},
         NEW u, AsShown(u), NEW b, b = Rebind(u, c, sess[c]),
         NEW v, v = Finish(b, c, sess[c])
  PROVE  /\ Core(v) /\ v.view \in Created \cup {NoKey} /\ v.pending = ui.pending
         /\ \A d \in Convs : v.key[d] = IF d = c THEN NoKey ELSE ui.key[d]
         /\ v.forced \subseteq ui.forced /\ v.fallback \subseteq ui.fallback
<1> DEFINE s == sess[c]
<1>1. Core(u) /\ u \in Uis /\ Irreflexive(u) /\ Types /\ Alone(u) /\ Kept(u)
      /\ Bound(u) /\ u.key = ui.key /\ u.view = ui.view /\ u.pending = ui.pending
      /\ u.forced \subseteq ui.forced /\ u.fallback \subseteq ui.fallback
  BY DEF AsShown, Core, Calm
<1>2. s \in Sessions /\ s \in Keys /\ s \notin Convs /\ s # NoKey /\ c \in Keys
      /\ c # s /\ c # NoKey /\ s \in Created
  BY Answered, KeyFacts
<1>3. IsRebind(u, c, s, b) /\ StreamKey(c) = c
  BY <1>1, <1>2, RebindFields DEF StreamKey
<1>4. b \in Uis
  BY <1>3 DEF IsRebind
<1>5. IsFinish(b, c, s, v)
  BY <1>2, <1>4, FinishFields
<1>6. \A d \in Convs : d # c => u.key[d] # s
  BY <1>1, <1>2, Sole
<1>7. \A d \in Convs : u.key[d] \in Keys \cup {NoKey}
  BY <1>1 DEF Uis
<1> HIDE DEF s
<1>8. /\ v \in Uis /\ Irreflexive(v)
      /\ v.view = IF Current(u, c) THEN s ELSE u.view
      /\ v.pending = u.pending
      /\ v.streaming = TRUE <=> u.streaming = TRUE /\ ~Current(b, s)
      /\ v.fallback = u.fallback \ {c} /\ v.forced = u.forced \ {c}
  BY <1>1, <1>3, <1>5 DEF IsRebind, IsFinish
<1>9. \A d \in Convs : v.key[d] = IF d = c THEN NoKey ELSE u.key[d]
  BY <1>3, <1>5 DEF IsRebind, IsFinish
<1>10. v.strm[c] = NoStream
  BY <1>2, <1>3, <1>5 DEF IsRebind, IsFinish
<1>11. \A d \in Keys : d # c /\ d # s => v.strm[d] = u.strm[d]
  BY <1>2, <1>3, <1>5 DEF IsRebind, IsFinish
<1>12. b.view = v.view /\ b.pending = u.pending
  BY <1>3, <1>8 DEF IsRebind
<1>13. \A d \in Convs : u.key[d] = c => d = c
  BY <1>1 DEF Alone
<1>14. Alone(v)
  <2> SUFFICES ASSUME NEW d \in Convs, v.key[d] \in Convs
               PROVE  v.key[d] = d /\ v.view = NoKey /\ v.pending = d
    BY DEF Alone
  <2>1. d # c /\ v.key[d] = u.key[d]
    BY <1>9, ChatAssumption
  <2>2. u.key[d] = d /\ u.view = NoKey /\ u.pending = d
    BY <1>1, <2>1 DEF Alone
  <2>3. ~Current(u, c)
    BY <1>2, <2>1, <2>2 DEF Current
  <2> QED  BY <1>8, <2>1, <2>2, <2>3
<1>15. Kept(v)
  BY <1>1, <1>2, <1>9, <1>10, <1>11, KeyFacts DEF Kept
<1>16. ASSUME NEW d \in Convs, v.key[d] # NoKey PROVE BoundTo(v, d)
  <2>1. d # c /\ v.key[d] = u.key[d] /\ u.key[d] # s /\ u.key[d] # c
        /\ u.key[d] \in Keys
    BY <1>6, <1>7, <1>9, <1>13, <1>16
  <2>2. BoundTo(u, d)
    BY <1>1, <1>16, <2>1 DEF Bound
  <2>3. v.strm[u.key[d]] # NoStream
    BY <1>11, <2>1, <2>2 DEF BoundTo
  <2>4. ASSUME Current(v, u.key[d]) PROVE v.streaming = TRUE
    <3>1. ~Current(u, c)
      BY <1>2, <1>8, <2>1, <2>4 DEF Current
    <3>2. Current(u, u.key[d])
      BY <1>8, <2>4, <3>1 DEF Current
    <3>3. ~Current(b, s)
      BY <1>2, <1>12, <1>8, <2>1, <2>4, OneCurrent DEF Current
    <3> QED  BY <1>8, <2>2, <3>2, <3>3 DEF BoundTo
  <2>5. \A e \in Convs : v.key[e] = v.key[d] => e = d
    BY <1>9, <1>16, <2>1, <2>2 DEF BoundTo
  <2> QED  BY <2>1, <2>2, <2>3, <2>4, <2>5 DEF BoundTo
<1>17. Core(v)
  BY <1>8, <1>14, <1>15, <1>16 DEF Core, Bound
<1>18. v.view \in Created \cup {NoKey}
  BY <1>1, <1>2, <1>8 DEF Calm, SessInv
<1> QED  BY <1>1, <1>8, <1>9, <1>17, <1>18

(* The catch of sendMessage.                                               *)
LEMMA FailedMoves ==
  ASSUME Calm, NEW c \in Convs, Later(c) = {}, NEW aborted \in BOOLEAN
  PROVE  Moves(c, OnFailed(ui, c, aborted))
<1>1. PICK n : n = NoTimers(ui, c)
  OBVIOUS
<1>2. AsShown(n)
  BY <1>1, QuietTimers DEF AsShown
<1>3. PICK b : b = IF aborted /\ sess[c] # NoKey THEN Rebind(n, c, sess[c]) ELSE n
  OBVIOUS
<1>4. PICK k : k = IF b.key[c] = NoKey THEN StreamKey(c) ELSE b.key[c]
  OBVIOUS
<1>5. PICK v : v = Finish(b, c, k)
  OBVIOUS
<1>6. OnFailed(ui, c, aborted) = Unpend(v, c)
  BY <1>1, <1>3, <1>4, <1>5 DEF OnFailed
<1>7. CASE aborted /\ sess[c] # NoKey /\ ask[c] = NoKey
  <2>1. b = Rebind(n, c, sess[c]) /\ sess[c] \in Sessions /\ n \in Uis /\ Types
    BY <1>2, <1>3, <1>7, Answered DEF AsShown, Core, Calm
  <2>2. IsRebind(n, c, sess[c], b)
    BY <1>7, <2>1, RebindFields
  <2>3. k = sess[c]
    BY <1>4, <1>7, <2>2 DEF IsRebind
  <2>4. /\ Core(v) /\ v.view \in Created \cup {NoKey} /\ v.pending = ui.pending
        /\ \A d \in Convs : v.key[d] = IF d = c THEN NoKey ELSE ui.key[d]
        /\ v.forced \subseteq ui.forced /\ v.fallback \subseteq ui.fallback
    BY <1>2, <1>5, <1>7, <2>1, <2>3, AbortCore
  <2>5. PICK w : w = Unpend(v, c)
    OBVIOUS
  <2>6. v.key[c] \notin Convs
    BY <2>4, ChatAssumption
  <2>7. /\ Core(w) /\ w.view = v.view /\ w.key = v.key
        /\ w.pending = IF v.pending = c THEN NoKey ELSE v.pending
        /\ w.fallback = v.fallback /\ w.forced = v.forced
    BY <2>4, <2>5, <2>6, UnpendCore
  <2>8. Waits(w)
    BY <2>4, <2>7, ChatAssumption DEF Calm, Waits
  <2> QED  BY <1>6, <2>4, <2>5, <2>7, <2>8 DEF Moves
<1>8. CASE ~(aborted /\ sess[c] # NoKey /\ ask[c] = NoKey)
  <2>1. AsShown(b)
    <3>1. CASE aborted /\ sess[c] # NoKey
      BY <1>2, <1>3, <1>8, <3>1, RebindSent
    <3>2. CASE ~(aborted /\ sess[c] # NoKey)
      BY <1>2, <1>3, <3>2
    <3> QED  BY <3>1, <3>2
  <2>2. Moves(c, b)
    BY <2>1 DEF AsShown, Moves, Calm, SessInv
  <2>3. b.key = ui.key
    BY <2>1 DEF AsShown
  <2>4. k \in Keys /\ \A d \in Convs : ui.key[d] = k => d = c
    <3>1. CASE ui.key[c] # NoKey
      BY <1>4, <2>3, <3>1, OwnKey
    <3>2. CASE ui.key[c] = NoKey /\ ask[c] = NoKey
      <4>1. k = c
        BY <1>4, <2>3, <3>2 DEF StreamKey
      <4> QED  BY <4>1, KeyFacts DEF Calm, Core, Alone
    <3>3. CASE ui.key[c] = NoKey /\ ask[c] # NoKey
      <4>1. k = ask[c] /\ k \in Sessions
        BY <1>4, <2>3, <3>3 DEF StreamKey, Calm, Types
      <4> QED  BY <3>3, <4>1, KeyFacts, Sole
    <3> QED  BY <3>1, <3>2, <3>3
  <2>5. b.key[c] \in {k, NoKey}
    BY <1>4
  <2> QED  BY <1>5, <1>6, <2>2, <2>3, <2>4, <2>5, FinishMoves
<1> QED  BY <1>7, <1>8

-----------------------------------------------------------------------------
(* The steps                                                               *)

(* A state of the client that is as before, with the sessions as before.   *)
LEMMA CoreKept ==
  ASSUME NEW v, Core(v), ui' = v, ask' = ask, sess' = sess
  PROVE  Core(ui)'
  BY DEF Core, Alone, Kept, Bound, BoundTo, Irreflexive, StreamKey, Current

(* What is asked and known of sessions does not change when they do not.   *)
LEMMA SessionsKept ==
  ASSUME Calm, ask' = ask, sess' = sess,
         \A c \in Convs : call'[c] = "none" => call[c] = "none",
         \A c \in Convs : srv'[c] # srv[c] =>
            /\ srv'[c] # "none" /\ srv[c] # "none"
            /\ srv'[c] \in {"running", "ok", "okText"} => srv[c] = "running"
  PROVE  \A c \in Convs : SessionOf(c)'
<1> SUFFICES ASSUME NEW c \in Convs PROVE SessionOf(c)'
  OBVIOUS
<1>1. SessionOf(c)
  BY DEF Calm, SessInv
<1>2. Created' = Created
  BY DEF Created
<1>3. CASE srv'[c] = srv[c]
  BY <1>1, <1>2, <1>3 DEF SessionOf
<1>4. CASE srv'[c] # srv[c]
  BY <1>1, <1>2, <1>4 DEF SessionOf
<1> QED  BY <1>3, <1>4

(* A step of the client on behalf of one turn.                             *)
LEMMA MoveCalm ==
  ASSUME Calm, NEW c \in Convs, NEW v, Moves(c, v), ChangeUi(v),
         \/ call' = call /\ srv' = srv /\ (v.key[c] = ui.key[c] \/ ~Live(c))
              /\ (call[c] = "closed" \/ v.forced \cup v.fallback
                                          \subseteq ui.forced \cup ui.fallback)
         \/ /\ call[c] = "open" /\ call' = [call EXCEPT ![c] = "closed"]
            /\ srv' = [srv EXCEPT ![c] = IF @ \in Answers THEN "gone" ELSE @],
         wire' \in {wire, Tail(wire)}, wire' = wire \/ wire # <<>>
  PROVE  Calm'
<1>1. /\ ui' = v /\ ask' = ask /\ sess' = sess
      /\ Core(v) /\ Waits(v) /\ v.view \in Created \cup {NoKey}
      /\ \A d \in Convs : v.key[d] # NoKey => ui.key[d] # NoKey
      /\ \A d \in Convs : d # c /\ v.key[d] = NoKey => ui.key[d] = NoKey
      /\ v.forced \cup v.fallback \subseteq ui.forced \cup ui.fallback \cup {c}
  BY DEF ChangeUi, Moves
<1>2. Types
  BY DEF Calm
<1>3. /\ \A d \in Convs : d # c => call'[d] = call[d] /\ srv'[d] = srv[d]
      /\ call'[c] \in {call[c], "closed"}
      /\ srv'[c] = srv[c] \/ (srv[c] \in Answers /\ srv'[c] = "gone")
  BY <1>2 DEF Types
<1>4. \A d \in Convs : (call'[d] # "none" <=> call[d] # "none") /\ (Live(d)' => Live(d))
  BY <1>2, <1>3 DEF Types, Live, Answers
<1>5. \A d \in Convs : Live(d)' /\ d = c => v.key[c] = ui.key[c]
  BY <1>2, <1>3 DEF Types, Live
<1>6. Types'
  <2>1. call' \in [Convs -> {"none", "open", "closed"}]
    BY <1>2 DEF Types
  <2>2. srv' \in [Convs -> {"none", "resolving", "running", "gone"} \cup Answers]
    BY <1>2 DEF Types
  <2>3. wire' \in Seq(Messages)
    BY <1>2 DEF Types
  <2> QED  BY <1>1, <1>2, <2>1, <2>2, <2>3 DEF Types
<1>7. Core(ui)'
  BY <1>1, CoreKept
<1>8. Waits(ui)'
  BY <1>1, <1>4 DEF Waits
<1>9. WireInv'
  <2>1. ASSUME NEW kind \in Kinds, NEW d \in Convs, OnWire(kind, d)'
        PROVE  OnWire(kind, d)
    <3>1. CASE wire' = wire
      BY <2>1, <3>1 DEF OnWire
    <3>2. CASE wire' = Tail(wire) /\ wire # <<>>
      BY <1>2, <2>1, <3>2 DEF OnWire, Types
    <3> QED  BY <3>1, <3>2
  <2> QED  BY <1>4, <2>1 DEF Calm, WireInv
<1>10. TimerInv'
  BY <1>1, <1>2, <1>3 DEF Calm, TimerInv, Types
<1>11. KeyInv'
  BY <1>1, <1>4, <1>5 DEF Calm, KeyInv
<1>12. SessInv'
  <2>1. \A d \in Convs : SessionOf(d)'
    BY <1>1, <1>3, <1>4, SessionsKept DEF Answers
  <2>2. Created' = Created
    BY <1>1 DEF Created
  <2> QED  BY <1>1, <2>1, <2>2 DEF SessInv
<1>13. FollowUp'
  BY <1>1 DEF Calm, FollowUp
<1> QED  BY <1>6, <1>7, <1>8, <1>9, <1>10, <1>11, <1>12, <1>13 DEF Calm

(* A message is sent.                                                      *)
LEMMA SendCalm ==
  ASSUME Calm, NEW c \in Convs, Send(c)
  PROVE  Calm'
<1> DEFINE k == IF ui.view = NoKey THEN c ELSE ui.view
<1>1. PICK p : p = Put(ui, c, k)
  OBVIOUS
<1>2. PICK strm : strm = [ui.strm EXCEPT ![k] = [conv |-> c, text |-> FALSE]]
  OBVIOUS
<1>3. PICK pend : pend = IF ui.view = NoKey THEN c ELSE ui.pending
  OBVIOUS
<1>4. Types /\ ui \in Uis /\ Alone(ui) /\ Kept(ui) /\ Bound(ui) /\ Irreflexive(ui)
      /\ Waits(ui) /\ SessionOf(c) /\ ui.view \in Created \cup {NoKey}
  BY DEF Calm, Core, SessInv
<1>5. k \in Keys /\ ui.view \in Sessions \cup {NoKey} /\ pend \in Convs \cup {NoKey}
  BY <1>3, <1>4, KeyFacts DEF Uis
<1>6. call[c] = "none" /\ ui.streaming # TRUE /\ ask[c] = NoKey /\ srv[c] = "none"
      /\ sess[c] = NoKey /\ ui.key[c] = NoKey
  BY <1>4 DEF Send, SessionOf, Calm, KeyInv
<1>7. IsPut(ui, c, k, p)
  BY <1>1, <1>4, <1>5, PutFields
<1>8. strm \in [Keys -> Streams] /\ strm[k] # NoStream
      /\ \A d \in Keys : d # k => strm[d] = ui.strm[d]
  <2>1. strm \in [Keys -> Streams] /\ strm[k] = [conv |-> c, text |-> FALSE]
        /\ \A d \in Keys : d # k => strm[d] = ui.strm[d]
    BY <1>2, <1>4, <1>5 DEF Uis, Streams
  <2>2. [conv |-> c, text |-> FALSE].conv # NoStream.conv
    BY KeyFacts DEF NoStream
  <2> QED  BY <2>1, <2>2
<1>9. ui' = [p EXCEPT !.pending = pend, !.strm = strm, !.streaming = TRUE]
  <2>1. p \in Uis /\ p.pending = ui.pending /\ p.strm = ui.strm
    BY <1>7 DEF IsPut
  <2> QED  BY <1>1, <1>2, <1>3, <2>1 DEF Send, Uis
<1>10. /\ ui' \in Uis
       /\ ui'.view = ui.view /\ ui'.pending = pend /\ ui'.streaming = TRUE
       /\ ui'.strm = strm /\ ui'.key = p.key /\ ui'.before = p.before
       /\ ui'.fallback = ui.fallback /\ ui'.forced = ui.forced
  <2>1. p \in Uis /\ p.view = ui.view
        /\ p.fallback = ui.fallback /\ p.forced = ui.forced
    BY <1>7 DEF IsPut
  <2> QED  BY <1>5, <1>8, <1>9, <2>1 DEF Uis
<1>11. \A d \in Convs : ui'.key[d] = IF d = c THEN k ELSE ui.key[d]
  BY <1>7, <1>10 DEF IsPut
<1>12. Irreflexive(ui)'
  BY <1>4, <1>7, <1>10 DEF IsPut, Irreflexive
<1>13. /\ sess' = sess /\ srv' = srv /\ wire' = wire
       /\ ask' = [ask EXCEPT ![c] = ui.view]
       /\ call' = [call EXCEPT ![c] = "open"]
  BY DEF Send
<1>14. /\ \A d \in Convs : ask'[d] = IF d = c THEN ui.view ELSE ask[d]
       /\ \A d \in Convs : call'[d] = IF d = c THEN "open" ELSE call[d]
  BY <1>4, <1>13 DEF Types
<1>15. Types'
  BY <1>4, <1>5, <1>13 DEF Types
<1>16. \A d \in Convs : ui.key[d] # NoKey => ~Current(ui, ui.key[d])
  BY <1>4, <1>6 DEF Bound, BoundTo
<1>17. \A d \in Convs : ui.key[d] \notin Convs
  BY <1>4, <1>16, KeyFacts DEF Alone, Current
<1>18. \A d \in Convs : ui.key[d] # k
  BY <1>5, <1>16, <1>17, KeyFacts DEF Current
<1>19. StreamKey(c)' = k
  BY <1>14 DEF StreamKey
<1>20. \A d \in Convs : ui.key[d] \in Keys \cup {NoKey}
  BY <1>4 DEF Uis
<1> HIDE DEF k
<1>21. k \in Convs => k = c /\ ui.view = NoKey /\ pend = c
  BY <1>3, <1>5, KeyFacts DEF k
<1>22. Alone(ui)'
  BY <1>10, <1>11, <1>17, <1>21 DEF Alone
<1>23. Kept(ui)'
  BY <1>4, <1>8, <1>10, <1>11, <1>17, <1>21, KeyFacts DEF Kept
<1>24. ASSUME NEW d \in Convs, ui'.key[d] # NoKey PROVE BoundTo(ui, d)'
  <2>1. CASE d = c
    <3>1. \A e \in Convs : ui'.key[e] = k => e = c
      BY <1>11, <1>18
    <3> QED  BY <1>8, <1>10, <1>11, <1>19, <2>1, <3>1 DEF BoundTo
  <2>2. CASE d # c
    <3>1. ui'.key[d] = ui.key[d] /\ ui.key[d] # NoKey /\ ui.key[d] # k
          /\ ui.key[d] \in Keys
      BY <1>11, <1>18, <1>20, <1>24, <2>2
    <3>2. BoundTo(ui, d)
      BY <1>4, <3>1 DEF Bound
    <3>3. ui'.key[d] = StreamKey(d)' \/ (ask'[d] = NoKey /\ ui'.key[d] = sess'[d])
      BY <1>13, <1>14, <2>2, <3>1, <3>2 DEF BoundTo, StreamKey
    <3>4. ui'.strm[ui'.key[d]] # NoStream
      BY <1>8, <1>10, <3>1, <3>2 DEF BoundTo
    <3>5. \A e \in Convs : ui'.key[e] = ui'.key[d] => e = d
      BY <1>11, <3>1, <3>2 DEF BoundTo
    <3> QED  BY <1>10, <3>3, <3>4, <3>5 DEF BoundTo
  <2> QED  BY <2>1, <2>2
<1>25. Core(ui)'
  BY <1>10, <1>12, <1>22, <1>23, <1>24 DEF Core, Bound
<1>26. Waits(ui)'
  BY <1>3, <1>4, <1>6, <1>10, <1>11, <1>14 DEF Waits, k
<1>27. \A d \in Convs : Live(d)' => Live(d) \/ d = c
  BY <1>13, <1>14 DEF Live
<1>28. WireInv'
  <2>1. ASSUME NEW kind \in Kinds, NEW d \in Convs, OnWire(kind, d)'
        PROVE  call'[d] # "none" /\ (Live(d)' => kind = "token")
    <3>1. OnWire(kind, d)
      BY <1>13, <2>1 DEF OnWire
    <3>2. d # c /\ call[d] # "none" /\ (Live(d) => kind = "token")
      BY <1>6, <3>1 DEF Calm, WireInv
    <3> QED  BY <1>14, <1>27, <3>2
  <2> QED  BY <2>1 DEF WireInv
<1>29. TimerInv'
  BY <1>6, <1>10, <1>14 DEF Calm, TimerInv
<1>30. KeyInv'
  BY <1>5, <1>11, <1>14, <1>27, KeyFacts DEF Calm, KeyInv
<1>31. SessInv'
  <2>1. Created' = Created
    BY <1>13 DEF Created
  <2>2. ASSUME NEW d \in Convs PROVE SessionOf(d)'
    <3>1. SessionOf(d)
      BY DEF Calm, SessInv
    <3>2. CASE d = c
      <4>1. NoKey \notin Existing
        BY ChatAssumption
      <4> QED  BY <1>4, <1>6, <1>13, <1>14, <2>1, <3>2, <4>1 DEF SessionOf
    <3>3. CASE d # c
      <4>1. \A e \in Convs : ask'[e] = NoKey => ask[e] = NoKey
        BY <1>6, <1>14
      <4> QED  BY <1>13, <1>14, <2>1, <3>1, <3>3, <4>1 DEF SessionOf
    <3> QED  BY <3>2, <3>3
  <2> QED  BY <1>4, <1>10, <2>1, <2>2 DEF SessInv
<1>32. FollowUp'
  <2> SUFFICES ASSUME NEW e \in Convs, NEW d \in Convs, ask'[d] = NoKey,
                      sess'[d] # NoKey, ask'[e] = sess'[d]
               PROVE  ui'.key[d] = NoKey
    BY DEF FollowUp
  <2>1. d # c /\ ask[d] = NoKey /\ ui'.key[d] = ui.key[d] /\ sess[d] # NoKey
    BY <1>6, <1>11, <1>13, <1>14
  <2>2. CASE e # c
    BY <1>13, <1>14, <2>1, <2>2 DEF Calm, FollowUp
  <2>3. CASE e = c
    <3>1. ui.view = sess[d]
      BY <1>13, <1>14, <2>3
    <3>2. StreamKey(d) = d
      BY <2>1 DEF StreamKey
    <3>3. ui.key[d] # NoKey => ui.key[d] = d \/ ui.key[d] = ui.view
      BY <1>4, <3>1, <3>2 DEF Bound, BoundTo
    <3> QED  BY <1>16, <1>17, <2>1, <3>3 DEF Current
  <2> QED  BY <2>2, <2>3
<1> QED  BY <1>15, <1>25, <1>26, <1>28, <1>29, <1>30, <1>31, <1>32 DEF Calm

(* The user looks elsewhere.                                               *)
LEMMA ViewCalm ==
  ASSUME Calm, UNCHANGED <<ask, call, srv, sess, wire>>,
         Core(ui)', Waits(ui)', ui'.view \in Created \cup {NoKey},
         \A d \in Convs : ui'.key[d] = NoKey <=> ui.key[d] = NoKey,
         ui'.forced = ui.forced, ui'.fallback = ui.fallback
  PROVE  Calm'
<1>1. Types'
  BY DEF Calm, Types
<1>2. \A d \in Convs : Live(d)' <=> Live(d)
  BY DEF Live
<1>3. WireInv'
  <2>1. \A kind \in Kinds, d \in Convs : OnWire(kind, d)' <=> OnWire(kind, d)
    BY DEF OnWire
  <2> QED  BY <1>2, <2>1 DEF Calm, WireInv
<1>4. TimerInv' /\ KeyInv' /\ FollowUp'
  BY <1>2 DEF Calm, TimerInv, KeyInv, FollowUp
<1>5. SessInv'
  <2>1. Created' = Created /\ \A d \in Convs : SessionOf(d)'
    BY SessionsKept DEF Created
  <2> QED  BY <2>1 DEF SessInv
<1> QED  BY <1>1, <1>3, <1>4, <1>5 DEF Calm

LEMMA NewChatCalm ==
  ASSUME Calm, NewChat
  PROVE  Calm'
<1>1. ui \in Uis /\ Alone(ui) /\ Kept(ui) /\ Bound(ui) /\ Irreflexive(ui) /\ Waits(ui)
  BY DEF Calm, Core
<1>2. /\ ui' \in Uis /\ ui.view # NoKey
      /\ ui'.view = NoKey /\ ui'.pending = ui.pending /\ ui'.streaming = FALSE
      /\ ui'.strm = ui.strm /\ ui'.key = ui.key /\ ui'.before = ui.before
      /\ ui'.fallback = ui.fallback /\ ui'.forced = ui.forced
  BY <1>1 DEF NewChat, Uis
<1>3. UNCHANGED <<ask, call, srv, sess, wire>>
  BY DEF NewChat
<1>4. \A d \in Convs : ui.key[d] \notin Convs
  BY <1>1, <1>2 DEF Alone
<1>5. Alone(ui)' /\ Kept(ui)' /\ Irreflexive(ui)' /\ Waits(ui)'
  BY <1>1, <1>2, <1>3, <1>4 DEF Alone, Kept, Irreflexive, Waits
<1>6. ASSUME NEW d \in Convs, ui'.key[d] # NoKey PROVE BoundTo(ui, d)'
  <2>1. BoundTo(ui, d) /\ ui.key[d] # NoKey
    BY <1>1, <1>2, <1>6 DEF Bound
  <2>2. ui.pending \in Convs \cup {NoKey}
    BY <1>1 DEF Uis
  <2>3. ~Current(ui, ui.key[d])'
    BY <1>2, <1>4, <2>1, <2>2 DEF Current
  <2> QED  BY <1>2, <1>3, <2>1, <2>3 DEF BoundTo, StreamKey
<1>7. Core(ui)'
  BY <1>2, <1>5, <1>6 DEF Core, Bound
<1> QED  BY <1>2, <1>3, <1>5, <1>7, ViewCalm

LEMMA SelectCalm ==
  ASSUME Calm, NEW s \in Sessions, SelectSession(s), known' = {}
  PROVE  Calm'
<1> DEFINE p == ui.pending
           k == IF p = NoKey THEN NoKey ELSE ui.key[p]
           promotes == k # NoKey /\ ui.strm[k] # NoStream
<1>1. ui \in Uis /\ Alone(ui) /\ Kept(ui) /\ Bound(ui) /\ Irreflexive(ui)
      /\ Waits(ui) /\ Types
  BY DEF Calm, Core
<1>2. UNCHANGED <<ask, call, srv, sess, wire>> /\ s \in Created /\ s \in Keys
      /\ s \notin Convs /\ s # NoKey
  BY KeyFacts DEF SelectSession
<1>3. \A d \in Convs : ui.key[d] \in Keys \cup {NoKey}
  BY <1>1 DEF Uis
<1>4. CASE promotes
  <2>1. p \in Convs /\ k = ui.key[p] /\ k = p /\ ask[p] = NoKey
    BY <1>1, <1>4 DEF Uis, Waits
  <2>2. /\ ui' = [ui EXCEPT !.strm = [ui.strm EXCEPT ![k] = NoStream,
                                                    ![s] = ui.strm[k]],
                           !.key[p] = s, !.pending = NoKey, !.view = s,
                           !.streaming = TRUE]
        /\ sess[p] = s
    BY <1>4 DEF SelectSession
  <2> HIDE DEF p, k, promotes
  <2>3. PICK q : q = p
    OBVIOUS
  <2>4. q \in Convs /\ ui.pending = q /\ ui.key[q] = q /\ ask[q] = NoKey
        /\ sess[q] = s /\ q # s /\ q \in Keys
    BY <1>2, <2>1, <2>2, <2>3, KeyFacts DEF p
  <2>5. PICK strm : strm = [ui.strm EXCEPT ![q] = NoStream, ![s] = ui.strm[q]]
    OBVIOUS
  <2>6. strm \in [Keys -> Streams]
        /\ \A d \in Keys : strm[d] = IF d = s THEN ui.strm[q]
                                     ELSE IF d = q THEN NoStream ELSE ui.strm[d]
    BY <1>1, <1>2, <2>4, <2>5, KeyFacts DEF Uis
  <2>7. PICK key : key = [ui.key EXCEPT ![q] = s]
    OBVIOUS
  <2>8. key \in [Convs -> Keys \cup {NoKey}]
        /\ \A d \in Convs : key[d] = IF d = q THEN s ELSE ui.key[d]
    BY <1>1, <1>2, <2>4, <2>7 DEF Uis
  <2>9. ui' = [ui EXCEPT !.strm = strm, !.key = key, !.pending = NoKey, !.view = s,
                        !.streaming = TRUE]
    BY <1>1, <2>1, <2>2, <2>3, <2>5, <2>7 DEF Uis
  <2>10. /\ ui' \in Uis
         /\ ui'.view = s /\ ui'.pending = NoKey /\ ui'.streaming = TRUE
         /\ ui'.strm = strm /\ ui'.key = key /\ ui'.before = ui.before
         /\ ui'.fallback = ui.fallback /\ ui'.forced = ui.forced
    BY <1>1, <2>6, <2>8, <2>9 DEF Uis
  <2>11. \A d \in Convs : d # q => ui.key[d] \notin Convs /\ ui.strm[d] = NoStream
    BY <1>1, <2>4 DEF Alone, Kept
  <2>12. ui.strm[q] # NoStream /\ ui.key[q] # NoKey
    BY <1>1, <2>4, KeyFacts DEF Bound, BoundTo
  <2>13. \A d \in Convs : d # q => ui.key[d] # s
    BY <1>2, <2>4, <2>12, Sole
  <2>14. Alone(ui)' /\ Irreflexive(ui)'
    BY <1>1, <1>2, <2>8, <2>10, <2>11 DEF Alone, Irreflexive
  <2>15. Kept(ui)'
    BY <1>2, <2>4, <2>6, <2>10, <2>11, KeyFacts DEF Kept
  <2>16. ASSUME NEW d \in Convs, ui'.key[d] # NoKey PROVE BoundTo(ui, d)'
    <3>1. CASE d = q
      <4>1. \A e \in Convs : ui'.key[e] = s => e = q
        BY <2>8, <2>10, <2>13
      <4>2. ui'.key[d] = s /\ ui'.strm[s] # NoStream
        BY <1>2, <2>6, <2>8, <2>10, <2>12, <3>1
      <4> QED  BY <1>2, <2>4, <2>10, <3>1, <4>1, <4>2 DEF BoundTo
    <3>2. CASE d # q
      <4>1. ui'.key[d] = ui.key[d] /\ ui.key[d] \in Keys /\ ui.key[d] # s
            /\ ui.key[d] # q
        BY <1>3, <2>4, <2>8, <2>10, <2>11, <2>13, <2>16, <3>2
      <4>2. BoundTo(ui, d)
        BY <1>1, <2>16, <4>1 DEF Bound
      <4>3. ui'.strm[ui'.key[d]] # NoStream
        BY <2>6, <2>10, <4>1, <4>2 DEF BoundTo
      <4>4. \A e \in Convs : ui'.key[e] = ui'.key[d] => e = d
        BY <2>8, <2>10, <4>1, <4>2 DEF BoundTo
      <4> QED  BY <1>2, <2>10, <4>1, <4>2, <4>3, <4>4 DEF BoundTo, StreamKey
    <3> QED  BY <3>1, <3>2
  <2>17. Core(ui)' /\ Waits(ui)'
    BY <2>10, <2>14, <2>15, <2>16, ChatAssumption DEF Core, Bound, Waits
  <2>18. \A d \in Convs : ui'.key[d] = NoKey <=> ui.key[d] = NoKey
    BY <1>2, <2>8, <2>10, <2>12
  <2> QED  BY <1>2, <2>10, <2>17, <2>18, ViewCalm
<1>5. CASE ~promotes
  <2>1. ui' = [ui EXCEPT !.view = s, !.streaming = ui.strm[s] # NoStream]
    BY <1>5 DEF SelectSession
  <2>2. /\ ui' \in Uis
        /\ ui'.view = s /\ ui'.pending = ui.pending
        /\ (ui'.streaming = TRUE <=> ui.strm[s] # NoStream)
        /\ ui'.strm = ui.strm /\ ui'.key = ui.key /\ ui'.before = ui.before
        /\ ui'.fallback = ui.fallback /\ ui'.forced = ui.forced
    BY <1>1, <2>1 DEF Uis
  <2>3. ASSUME NEW d \in Convs, ui.key[d] \in Convs PROVE FALSE
    <3>1. ui.key[d] = d /\ ui.pending = d /\ d # NoKey
      BY <1>1, <2>3, KeyFacts DEF Alone
    <3>2. ui.strm[d] # NoStream
      BY <1>1, <3>1 DEF Bound, BoundTo
    <3> QED  BY <1>5, <3>1, <3>2
  <2>4. Alone(ui)' /\ Kept(ui)' /\ Irreflexive(ui)' /\ Waits(ui)'
    BY <1>1, <1>2, <2>2, <2>3 DEF Alone, Kept, Irreflexive, Waits
  <2>5. ASSUME NEW d \in Convs, ui'.key[d] # NoKey PROVE BoundTo(ui, d)'
    <3>1. BoundTo(ui, d) /\ ui.key[d] # NoKey
      BY <1>1, <2>2, <2>5 DEF Bound
    <3>2. Current(ui, ui.key[d])' => ui'.streaming = TRUE
      BY <1>2, <2>2, <3>1 DEF Current, BoundTo
    <3> QED  BY <1>2, <2>2, <3>1, <3>2 DEF BoundTo, StreamKey
  <2>6. Core(ui)'
    BY <2>2, <2>4, <2>5 DEF Core, Bound
  <2> QED  BY <1>2, <2>2, <2>4, <2>6, ViewCalm
<1> QED  BY <1>4, <1>5

(* What is told about a turn is put behind what is on the socket.          *)
LEMMA TellWire ==
  ASSUME Types, NEW c \in Convs, NEW kinds \in Seq(Kinds), wire' = Tell(c, kinds)
  PROVE  /\ wire' \in Seq(Messages)
         /\ \A kind \in Kinds, d \in Convs : OnWire(kind, d)' =>
              \/ OnWire(kind, d)
              \/ d = c /\ \E i \in 1 .. Len(kinds) : kinds[i] = kind
<1>1. CASE c \notin listening
  BY <1>1 DEF Tell, Types, OnWire
<1>2. CASE c \in listening
  <2>1. PICK t : t = [i \in 1 .. Len(kinds) |-> <<kinds[i], c>>]
    OBVIOUS
  <2>2. t \in Seq(Messages) /\ Len(t) = Len(kinds)
        /\ \A i \in 1 .. Len(kinds) : t[i] = <<kinds[i], c>>
    BY <2>1 DEF Messages
  <2>3. wire' = wire \o t
    BY <1>2, <2>1 DEF Tell
  <2>4. wire \in Seq(Messages) /\ wire' \in Seq(Messages)
    BY <2>2, <2>3 DEF Types
  <2>5. ASSUME NEW kind \in Kinds, NEW d \in Convs, OnWire(kind, d)'
        PROVE  \/ OnWire(kind, d)
               \/ d = c /\ \E i \in 1 .. Len(kinds) : kinds[i] = kind
    <3>1. PICK i \in 1 .. Len(wire') : wire'[i] = <<kind, d>>
      BY <2>5 DEF OnWire
    <3>2. CASE i <= Len(wire)
      <4>1. i \in 1 .. Len(wire) /\ wire[i] = <<kind, d>>
        BY <2>2, <2>3, <2>4, <3>1, <3>2
      <4> QED  BY <4>1 DEF OnWire
    <3>3. CASE ~(i <= Len(wire))
      <4>1. i - Len(wire) \in 1 .. Len(kinds) /\ t[i - Len(wire)] = <<kind, d>>
        BY <2>2, <2>3, <2>4, <3>1, <3>3
      <4>2. kinds[i - Len(wire)] = kind /\ d = c
        BY <2>2, <4>1
      <4> QED  BY <4>1, <4>2
    <3> QED  BY <3>2, <3>3
  <2> QED  BY <2>4, <2>5
<1> QED  BY <1>1, <1>2

(* The server answers, or sends text of a running turn.                    *)
LEMMA AnswerCalm ==
  ASSUME Calm, NEW c \in Convs, UNCHANGED <<ui, ask, call, sess>>,
         srv[c] \in {"resolving", "running"},
         NEW kinds \in Seq(Kinds), wire' = Tell(c, kinds),
         \/ srv' = srv /\ \A i \in 1 .. Len(kinds) : kinds[i] = "token"
         \/ \E a \in Answers \cup {"gone"} :
              srv' = [srv EXCEPT ![c] = a]
                /\ (a \in {"ok", "okText"} => srv[c] = "running")
  PROVE  Calm'
<1>1. Types /\ SessionOf(c)
  BY DEF Calm, SessInv
<1>2. /\ wire' \in Seq(Messages)
      /\ \A kind \in Kinds, d \in Convs : OnWire(kind, d)' =>
           \/ OnWire(kind, d)
           \/ d = c /\ \E i \in 1 .. Len(kinds) : kinds[i] = kind
  BY <1>1, TellWire
<1>3. /\ srv' \in [Convs -> {"none", "resolving", "running", "gone"} \cup Answers]
      /\ \A d \in Convs : d # c => srv'[d] = srv[d]
      /\ \/ srv'[c] = srv[c] /\ \A i \in 1 .. Len(kinds) : kinds[i] = "token"
         \/ srv'[c] \in Answers \cup {"gone"}
              /\ (srv'[c] \in {"ok", "okText"} => srv[c] = "running")
  <2>1. CASE srv' = srv /\ \A i \in 1 .. Len(kinds) : kinds[i] = "token"
    BY <1>1, <2>1 DEF Types
  <2>2. ASSUME NEW a \in Answers \cup {"gone"}, srv' = [srv EXCEPT ![c] = a],
               a \in {"ok", "okText"} => srv[c] = "running"
        PROVE  <1>3!:
    BY <1>1, <2>2 DEF Types
  <2> QED  BY <2>1, <2>2
<1>4. Types'
  BY <1>1, <1>2, <1>3 DEF Types
<1>5. \A d \in Convs : Live(d)' => Live(d) /\ (d # c \/ srv'[c] = srv[c])
  BY <1>3 DEF Live, Answers
<1>6. Live(c)' => \A i \in 1 .. Len(kinds) : kinds[i] = "token"
  BY <1>3 DEF Live, Answers
<1>7. WireInv'
  <2>1. ASSUME NEW kind \in Kinds, NEW d \in Convs, OnWire(kind, d)'
        PROVE  call'[d] # "none" /\ (Live(d)' => kind = "token")
    <3>1. CASE OnWire(kind, d)
      BY <1>5, <3>1 DEF Calm, WireInv
    <3>2. CASE d = c /\ \E i \in 1 .. Len(kinds) : kinds[i] = kind
      BY <1>1, <1>6, <3>2 DEF SessionOf
    <3> QED  BY <1>2, <2>1, <3>1, <3>2
  <2> QED  BY <2>1 DEF WireInv
<1>8. Core(ui)'
  BY CoreKept DEF Calm
<1>9. Waits(ui)' /\ TimerInv' /\ KeyInv' /\ FollowUp'
  BY <1>5 DEF Calm, Waits, TimerInv, KeyInv, FollowUp
<1>10. SessInv'
  <2>1. \A d \in Convs : SessionOf(d)'
    BY <1>3, SessionsKept DEF Answers
  <2>2. Created' = Created
    BY DEF Created
  <2> QED  BY <2>1, <2>2 DEF SessInv, Calm
<1> QED  BY <1>4, <1>7, <1>8, <1>9, <1>10 DEF Calm

(* A request reaches the server, or a session is found for it.             *)
LEMMA SessionCalm ==
  ASSUME Calm, NEW c \in Convs, UNCHANGED <<ui, ask, call, wire>>,
         NEW a \in {"resolving", "running"}, NEW s \in Sessions \cup {NoKey},
         srv' = [srv EXCEPT ![c] = a], sess' = [sess EXCEPT ![c] = s],
         srv[c] \in {"none", "resolving"}, call[c] # "none",
         sess[c] \in {NoKey, s}, a = "running" => s # NoKey,
         ask[c] # NoKey => s = ask[c],
         ask[c] = NoKey /\ s # sess[c] => s \notin Created
  PROVE  Calm'
<1>1. Types /\ ui \in Uis /\ Bound(ui)
  BY DEF Calm, Core
<1>2. /\ \A d \in Convs : sess'[d] = IF d = c THEN s ELSE sess[d]
      /\ \A d \in Convs : srv'[d] = IF d = c THEN a ELSE srv[d]
      /\ ask' = ask /\ call' = call /\ ui' = ui /\ wire' = wire
  BY <1>1 DEF Types
<1>3. Types'
  BY <1>1 DEF Types
<1>4. Created \subseteq Created'
  <2> SUFFICES ASSUME NEW x \in Created, x \notin Existing PROVE x \in Created'
    BY DEF Created
  <2>1. PICK d \in Convs : sess[d] = x
    BY <1>1 DEF Created, Range, Types
  <2>2. x # NoKey
    BY DEF Created
  <2>3. sess'[d] = x
    BY <1>2, <2>1, <2>2
  <2>4. x \in Range(sess')
    BY <1>3, <2>3 DEF Range, Types
  <2> QED  BY <2>2, <2>4 DEF Created
<1>5. \A d \in Convs : sess[d] # NoKey => sess[d] \in Created
  BY <1>1 DEF Created, Range, Types
<1>6. \A d \in Convs : SessionOf(d)
  BY DEF Calm, SessInv
<1>7. \A d \in Convs : Live(d)' <=> Live(d)
  BY <1>2 DEF Live
<1>8. ASSUME NEW d \in Convs, ui.key[d] # NoKey PROVE BoundTo(ui, d)'
  <2>1. BoundTo(ui, d)
    BY <1>1, <1>8 DEF Bound
  <2>2. d = c /\ ask[c] = NoKey /\ ui.key[c] = sess[c] => s = sess[c]
    BY <1>8
  <2> QED  BY <1>2, <2>1, <2>2 DEF BoundTo, StreamKey, Current
<1>9. Core(ui)'
  BY <1>2, <1>8 DEF Calm, Core, Bound, Alone, Kept, Irreflexive
<1>10. WireInv'
  <2>1. \A kind \in Kinds, d \in Convs : OnWire(kind, d)' <=> OnWire(kind, d)
    BY <1>2 DEF OnWire
  <2> QED  BY <1>2, <1>7, <2>1 DEF Calm, WireInv
<1>11. Waits(ui)' /\ TimerInv' /\ KeyInv'
  BY <1>2, <1>7 DEF Calm, Waits, TimerInv, KeyInv
<1>12. ASSUME NEW d \in Convs PROVE SessionOf(d)'
  <2>1. SessionOf(d) /\ SessionOf(c)
    BY <1>6
  <2>2. NoKey \notin Existing /\ Existing \subseteq Created
    BY ChatAssumption DEF Created
  <2>3. CASE d = c
    <3>1. ask[c] = NoKey => s \notin Existing
      BY <2>1, <2>2 DEF SessionOf
    <3>2. \A e \in Convs : e # c /\ ask[c] = NoKey /\ ask[e] = NoKey
                             /\ s = sess[e] => s = NoKey
      BY <1>5, <2>1 DEF SessionOf
    <3> QED  BY <1>2, <1>4, <2>1, <2>3, <3>1, <3>2 DEF SessionOf
  <2>4. CASE d # c
    <3>1. ask[d] = NoKey /\ ask[c] = NoKey /\ sess[d] = s => sess[d] = NoKey
      BY <1>5, <2>1, <2>4 DEF SessionOf
    <3> QED  BY <1>2, <1>4, <2>1, <2>4, <3>1 DEF SessionOf
  <2> QED  BY <2>3, <2>4
<1>13. SessInv'
  BY <1>2, <1>4, <1>12 DEF Calm, SessInv
<1>14. FollowUp'
  <2> SUFFICES ASSUME NEW e \in Convs, NEW d \in Convs, ask[d] = NoKey,
                      sess'[d] # NoKey, ask[e] = sess'[d]
               PROVE  ui.key[d] = NoKey
    BY <1>2 DEF FollowUp
  <2>1. CASE sess'[d] = sess[d]
    BY <2>1 DEF Calm, FollowUp
  <2>2. CASE sess'[d] # sess[d]
    <3>1. d = c /\ s \notin Created /\ s # NoKey /\ ask[e] = s
      BY <1>2, <2>2
    <3> QED  BY <1>6, <3>1 DEF SessionOf
  <2> QED  BY <2>1, <2>2
<1> QED  BY <1>3, <1>9, <1>10, <1>11, <1>13, <1>14 DEF Calm

(* An answer reaches the client without disturbing anything.               *)
LEMMA ResponseCalm ==
  ASSUME Calm, NEW c \in Convs, Respond(c) \/ LoseResponse(c), known' = {}
  PROVE  Calm'
<1>1. call[c] = "open" /\ Later(c) = {}
      /\ (Respond(c) /\ srv[c] \in {"ok", "okText"}
            => ask[c] # NoKey \/ ui.key[c] # NoKey)
  BY DEF Respond, LoseResponse, Close, Disturbs
<1>2. /\ call' = [call EXCEPT ![c] = "closed"]
      /\ srv' = [srv EXCEPT ![c] = IF @ \in Answers THEN "gone" ELSE @]
      /\ wire' = wire
  BY DEF Respond, LoseResponse, Close
<1>3. CASE Respond(c) /\ srv[c] \in {"ok", "okText"}
  <2>1. PICK v : v = OnOk(ui, c, srv[c] = "okText")
    OBVIOUS
  <2>2. Moves(c, v)
    BY <1>1, <1>3, <2>1, OkMoves
  <2>3. ChangeUi(v)
    BY <1>3, <2>1 DEF Respond
  <2> QED  BY <1>1, <1>2, <2>2, <2>3, MoveCalm
<1>4. ASSUME NEW aborted \in BOOLEAN, ChangeUi(OnFailed(ui, c, aborted))
      PROVE  Calm'
  <2>1. PICK v : v = OnFailed(ui, c, aborted)
    OBVIOUS
  <2>2. Moves(c, v) /\ ChangeUi(v)
    BY <1>1, <1>4, <2>1, FailedMoves
  <2> QED  BY <1>1, <1>2, <2>2, MoveCalm
<1>5. CASE Respond(c) /\ srv[c] \notin {"ok", "okText"}
  <2>1. ChangeUi(OnFailed(ui, c, srv[c] = "aborted"))
    BY <1>5 DEF Respond
  <2> QED  BY <1>4, <2>1
<1>6. CASE LoseResponse(c)
  <2>1. ChangeUi(OnFailed(ui, c, FALSE))
    BY <1>6 DEF LoseResponse
  <2> QED  BY <1>4, <2>1
<1> QED  BY <1>3, <1>5, <1>6

(* A message of the socket reaches the client.                             *)
LEMMA DeliverCalm ==
  ASSUME Calm, Deliver
  PROVE  Calm'
<1>1. Types /\ wire # <<>> /\ wire' = Tail(wire) /\ call' = call /\ srv' = srv
  BY DEF Calm, Deliver
<1>2. PICK kind \in Kinds, c \in Convs : Head(wire) = <<kind, c>>
  BY <1>1 DEF Types, Messages
<1>3. OnWire(kind, c)
  <2>1. 1 \in 1 .. Len(wire) /\ wire[1] = <<kind, c>>
    BY <1>1, <1>2 DEF Types
  <2> QED  BY <2>1 DEF OnWire
<1>4. kind = "token" \/ ~Live(c)
  BY <1>3 DEF Calm, WireInv
<1>5. CASE kind = "token"
  <2>1. PICK v : v = OnToken(ui, c)
    OBVIOUS
  <2>2. ChangeUi(v)
    BY <1>2, <1>5, <2>1 DEF Deliver
  <2>3. Moves(c, v) /\ v.key = ui.key
        /\ v.forced \subseteq ui.forced /\ v.fallback \subseteq ui.fallback
    BY <2>1, TokenMoves
  <2>4. v.forced \cup v.fallback \subseteq ui.forced \cup ui.fallback
    BY <2>3
  <2> QED  BY <1>1, <2>2, <2>3, <2>4, MoveCalm
<1>6. CASE kind # "token"
  <2>1. PICK v : v = OnEnd(ui, c)
    OBVIOUS
  <2>2. ChangeUi(v)
    BY <1>2, <1>6, <2>1 DEF Deliver
  <2>3. Moves(c, v)
    BY <2>1, EndMoves
  <2>4. v.forced \cup v.fallback \subseteq ui.forced \cup ui.fallback
    <3>1. CASE ui.key[c] = NoKey
      BY <2>1, <3>1 DEF OnEnd
    <3>2. CASE ui.key[c] # NoKey
      <4>1. IsFinish(ui, c, ui.key[c], v)
        BY <2>1, <3>2, OwnKey, FinishFields DEF OnEnd, Calm, Core
      <4> QED  BY <4>1 DEF IsFinish
    <3> QED  BY <3>1, <3>2
  <2> QED  BY <1>1, <1>4, <1>6, <2>2, <2>3, <2>4, MoveCalm
<1> QED  BY <1>5, <1>6

(* A timer of a turn fires; its answer has come.                           *)
LEMMA TimerCalm ==
  ASSUME Calm, NEW c \in Convs, FallbackFires(c) \/ ForcedFires(c)
  PROVE  Calm'
<1>1. PICK v : ChangeUi(v) /\ (v = OnFallback(ui, c) \/ v = OnForced(ui, c))
  BY DEF FallbackFires, ForcedFires
<1>2. Moves(c, v)
  BY <1>1, EndMoves
<1>3. call[c] = "closed" /\ ~Live(c)
  BY DEF Calm, TimerInv, FallbackFires, ForcedFires, Live
<1>4. call' = call /\ srv' = srv /\ wire' = wire
  BY DEF FallbackFires, ForcedFires
<1> QED  BY <1>1, <1>2, <1>3, <1>4, MoveCalm

(* A step of the chat route.                                               *)
LEMMA ServerCalm ==
  ASSUME Calm, NEW c \in Convs, ServerStep(c)
  PROVE  Calm'
<1>1. Types /\ SessionOf(c)
  BY DEF Calm, SessInv
<1>2. ASSUME NEW answer \in Answers, NEW kinds \in Seq(Kinds), Settle(c, answer, kinds),
             srv[c] \in {"resolving", "running"},
             answer \in {"ok", "okText"} => srv[c] = "running"
      PROVE  Calm'
  <2>1. PICK a : a = IF call[c] = "open" THEN answer ELSE "gone"
    OBVIOUS
  <2>2. a \in Answers \cup {"gone"} /\ srv' = [srv EXCEPT ![c] = a]
        /\ (a \in {"ok", "okText"} => srv[c] = "running")
    BY <1>2, <2>1 DEF Settle
  <2>3. wire' = Tell(c, kinds) /\ UNCHANGED <<ui, ask, call, sess>>
    BY <1>2 DEF Settle
  <2> QED  BY <1>2, <2>2, <2>3, AnswerCalm
<1>3. /\ <<>> \in Seq(Kinds) /\ <<"done">> \in Seq(Kinds) /\ <<"token">> \in Seq(Kinds)
      /\ <<"token", "done">> \in Seq(Kinds) /\ <<"error", "done">> \in Seq(Kinds)
  BY DEF Kinds
<1>4. {"ok", "okText", "aborted", "failed"} = Answers
  BY DEF Answers
<1>5. CASE Receive(c)
  <2>1. sess[c] = NoKey /\ call[c] # "none" /\ ask[c] \in Sessions \cup {NoKey}
    BY <1>1, <1>5 DEF Receive, SessionOf, Types
  <2>2. srv' = [srv EXCEPT ![c] = "resolving"] /\ sess' = [sess EXCEPT ![c] = ask[c]]
        /\ UNCHANGED <<ui, ask, call, wire>> /\ srv[c] = "none"
    BY <1>5 DEF Receive
  <2> QED  BY <2>1, <2>2, SessionCalm
<1>6. CASE Resolve(c)
  <2>1. srv[c] = "resolving" /\ srv' = [srv EXCEPT ![c] = "running"]
        /\ UNCHANGED <<ui, ask, call, wire>>
    BY <1>6 DEF Resolve
  <2>2. PICK s \in IF sess[c] # NoKey THEN {sess[c]} ELSE Sessions \ Created :
          sess' = [sess EXCEPT ![c] = s]
    BY <1>6 DEF Resolve
  <2>3. s \in Sessions /\ s # NoKey /\ sess[c] \in {NoKey, s}
        /\ (s # sess[c] => s \notin Created)
    BY <1>1, <2>2, KeyFacts DEF Types
  <2>4. call[c] # "none" /\ (ask[c] # NoKey => s = ask[c])
    BY <1>1, <2>1, <2>3 DEF SessionOf
  <2> QED  BY <2>1, <2>2, <2>3, <2>4, SessionCalm
<1>7. CASE Refuse(c)
  BY <1>2, <1>3, <1>4, <1>7 DEF Refuse
<1>8. CASE StreamText(c)
  <2>1. wire' = Tell(c, <<"token">>) /\ srv[c] = "running" /\ srv' = srv
        /\ UNCHANGED <<ui, ask, call, sess>>
    BY <1>8 DEF StreamText
  <2>2. \A i \in 1 .. Len(<<"token">>) : <<"token">>[i] = "token"
    OBVIOUS
  <2> QED  BY <1>3, <2>1, <2>2, AnswerCalm
<1>9. CASE RunSucceeds(c)
  BY <1>2, <1>3, <1>4, <1>9 DEF RunSucceeds
<1>10. CASE RunFails(c)
  BY <1>2, <1>3, <1>4, <1>10 DEF RunFails
<1> QED  BY <1>5, <1>6, <1>7, <1>8, <1>9, <1>10 DEF ServerStep

(* Every step keeps the invariant.                                         *)
LEMMA ChatInvStep ==
  ASSUME ChatInv, [ChatNext]_chatVars
  PROVE  ChatInv'
<1> SUFFICES ASSUME known' = {} PROVE Calm'
  BY DEF ChatInv
<1>1. ASSUME known = {}, UNCHANGED <<ui, ask, call, srv, sess, wire>>
      PROVE  Calm'
  <2>1. Calm
    BY <1>1 DEF ChatInv
  <2>2. Core(ui)' /\ Waits(ui)'
    BY <1>1, <2>1, CoreKept DEF Calm, Waits
  <2>3. ui'.view \in Created \cup {NoKey}
    BY <1>1, <2>1 DEF Calm, SessInv
  <2> QED  BY <1>1, <2>1, <2>2, <2>3, ViewCalm
<1>2. ASSUME NEW c \in Convs, Send(c) PROVE Calm'
  BY <1>2, SendCalm DEF Send, ChatInv
<1>3. ASSUME NEW c \in Convs, ServerStep(c) PROVE Calm'
  <2>1. known' = known
    BY <1>3 DEF ServerStep, Receive, Resolve, Refuse, StreamText, RunSucceeds,
                RunFails, Settle
  <2> QED  BY <1>3, <2>1, ServerCalm DEF ChatInv
<1>4. ASSUME NEW c \in Convs, Respond(c) \/ LoseResponse(c) PROVE Calm'
  <2>1. known = {}
    BY <1>4 DEF Respond, LoseResponse, Close
  <2> QED  BY <1>4, <2>1, ResponseCalm DEF ChatInv
<1>5. ASSUME NEW c \in Convs, FallbackFires(c) \/ ForcedFires(c) PROVE Calm'
  <2>1. known = {}
    BY <1>5 DEF FallbackFires, ForcedFires
  <2> QED  BY <1>5, <2>1, TimerCalm DEF ChatInv
<1>6. ASSUME NEW s \in Sessions, SelectSession(s) PROVE Calm'
  <2>1. known = {}
    BY <1>6 DEF SelectSession
  <2> QED  BY <1>6, <2>1, SelectCalm DEF ChatInv
<1>7. CASE NewChat
  BY <1>7, NewChatCalm DEF NewChat, ChatInv
<1>8. CASE Stop
  BY <1>1, <1>8 DEF Stop
<1>9. CASE Deliver
  BY <1>9, DeliverCalm DEF Deliver, ChatInv
<1>10. CASE Disconnect
  BY <1>10 DEF Disconnect
<1>11. CASE UNCHANGED chatVars
  BY <1>1, <1>11 DEF chatVars
<1> QED  BY <1>2, <1>3, <1>4, <1>5, <1>6, <1>7, <1>8, <1>9, <1>10, <1>11
         DEF ChatNext, ClientStep

(* The client starts without streams, sessions or messages.                *)
LEMMA ChatInvInit ==
  ASSUME ChatInit
  PROVE  ChatInv
<1>1. Types
  BY DEF ChatInit, Types
<1>2. ui \in Uis
  BY KeyFacts DEF ChatInit, Uis
<1>3. \A c \in Convs : ui.key[c] = NoKey /\ ui.strm[c] = NoStream
  BY KeyFacts DEF ChatInit
<1>4. Alone(ui) /\ Kept(ui) /\ Bound(ui) /\ Irreflexive(ui)
  BY <1>3, ChatAssumption DEF Alone, Kept, Bound, Irreflexive, ChatInit
<1>5. Waits(ui) /\ WireInv /\ TimerInv /\ KeyInv /\ FollowUp
  BY <1>3, ChatAssumption
  DEF ChatInit, Waits, WireInv, OnWire, TimerInv, KeyInv, FollowUp, Live
<1>6. \A c \in Convs : SessionOf(c)
  BY ChatAssumption DEF ChatInit, SessionOf
<1>7. SessInv
  BY <1>6 DEF SessInv, ChatInit
<1> QED  BY <1>1, <1>2, <1>4, <1>5, <1>7 DEF ChatInv, Calm, Core

(* While none of the known disturbances has happened, the Stop button is   *)
(* shown for the running turn on screen, and abortStream stops that turn.  *)
LEMMA StopFromInv ==
  ASSUME ChatInv
  PROVE  StopReachesTurn
<1> SUFFICES ASSUME known = {}, NEW c \in Convs, Live(c), Viewing(c)
             PROVE  ui.streaming /\ StopTarget(ui) = c
  BY DEF StopReachesTurn
<1>1. Calm /\ ui \in Uis /\ Alone(ui) /\ Bound(ui) /\ Irreflexive(ui) /\ Waits(ui)
  BY DEF ChatInv, Calm, Core
<1>2. ui.key[c] # NoKey
  BY <1>1 DEF Calm, KeyInv
<1>3. BoundTo(ui, c)
  BY <1>1, <1>2 DEF Bound
<1> DEFINE target == IF ui.view # NoKey THEN ui.view ELSE ui.pending
<1>4. ui.key[c] = target /\ Current(ui, ui.key[c])
  <2>1. CASE ask[c] # NoKey
    BY <1>3, <2>1 DEF Viewing, BoundTo, StreamKey, Current
  <2>2. CASE ask[c] = NoKey /\ ui.view = NoKey /\ ui.pending = c
    BY <1>1, <1>2, <2>2 DEF Waits, Current
  <2>3. CASE ask[c] = NoKey /\ ui.view # NoKey /\ ui.view = sess[c]
    <3>1. ui.key[c] # c
      BY <1>1, <2>3 DEF Alone
    <3> QED  BY <1>3, <2>3, <3>1 DEF BoundTo, StreamKey, Current
  <2> QED  BY <2>1, <2>2, <2>3 DEF Viewing
<1>5. ui.streaming = TRUE
  BY <1>3, <1>4 DEF BoundTo
<1>6. {d \in Active(ui) : ui.key[d] = target} = {c}
  BY <1>2, <1>3, <1>4 DEF Active, BoundTo
<1>7. StopTarget(ui) = CHOOSE d \in {c} : \A e \in {c} : <<e, d>> \notin ui.before
  BY <1>6 DEF StopTarget
<1>8. <<c, c>> \notin ui.before
  BY <1>1 DEF Irreflexive
<1>9. StopTarget(ui) = c
  BY <1>7, <1>8
<1> QED  BY <1>5, <1>9

(* StopReachesTurn holds for any number of messages and sessions.          *)
THEOREM StopIsReached == ChatSpec => []StopReachesTurn
<1>1. ChatSpec => []ChatInv
  BY ChatInvInit, ChatInvStep, PTL DEF ChatSpec
<1> QED  BY <1>1, StopFromInv, PTL
=============================================================================
