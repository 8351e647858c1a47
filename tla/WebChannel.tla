----------------------------- MODULE WebChannel -----------------------------
(***************************************************************************)
(* The web channel (pkg/channels/web): the HTTP server, and the broker     *)
(* through which the events of one session reach the clients that stream   *)
(* them.  An event is appended to the session's ring under the write lock  *)
(* and sent to the subscribers under the read lock, so that a subscriber   *)
(* can come between the two.  Events are emitted by the goroutine of Run,  *)
(* by the tools a turn runs in parallel, and by the outbound dispatcher.   *)
(* An event is its number in the order of the ring.                        *)
(***************************************************************************)
EXTENDS Naturals, Sequences, FiniteSets, FiniteSetsExt

CONSTANTS
    Clients,    \* browsers, each with one stream of events at a time
    Tools,      \* tool goroutines of a turn
    Run, Disp,  \* the goroutine of Run and the outbound dispatcher
    RingSize,   \* bufferPerSession
    SubSize,    \* subChanSize
    MaxChats,   \* bound: accepted POST /v1/chat
    MaxEvents,  \* bound: events emitted
    MaxStreams  \* bound: GET /v1/events

ASSUME WebAssumption ==
    /\ RingSize \in Nat \ {0} /\ SubSize \in Nat \ {0}
    /\ MaxChats \in Nat /\ MaxEvents \in Nat /\ MaxStreams \in Nat
    /\ Run \notin Tools /\ Disp \notin Tools /\ Run # Disp

Emitters == Tools \cup {Run, Disp}
NoId == 0   \* an event without a message_id, a request without a cursor

VARIABLES
    serving,    \* "off", "on" or "stopped"
    posted,     \* chats published and not yet taken by Run
    turns,      \* turns begun; the number of a turn is its message_id
    turnOpen,   \* Run is between the start and the end of a turn
    toolStep,   \* of each tool: events emitted in this turn
    ring,       \* every event of the session: its message_id and its emitter
    inHand,     \* of each emitter: its event that is in the ring and not yet sent, or 0
    online,     \* clients with a subscription
    stream,     \* of each client: what was put in its channel, since it subscribed
    taken,      \* of each client: how much of that it has received
    streams,    \* bound: streams opened
    since,      \* history: events up to this one precede the subscription
    between,    \* history: events whose emitters were between their locks then
    dropped     \* history: events that found the channel full

webVars == <<serving, posted, turns, turnOpen, toolStep, ring, inHand,
             online, stream, taken, streams, since, between, dropped>>
emitVars == <<ring, inHand>>
clientVars == <<online, stream, taken, streams, since, between, dropped>>
turnVars == <<serving, posted, turns, turnOpen, toolStep>>

WebInit ==
    /\ serving = "off" /\ posted = 0 /\ turns = 0 /\ turnOpen = FALSE
    /\ toolStep = [t \in Tools |-> 0]
    /\ ring = <<>>
    /\ inHand = [e \in Emitters |-> 0]
    /\ online = {} /\ streams = 0
    /\ stream = [c \in Clients |-> <<>>] /\ taken = [c \in Clients |-> 0]
    /\ since = [c \in Clients |-> 0] /\ between = [c \in Clients |-> {}]
    /\ dropped = [c \in Clients |-> {}]

-----------------------------------------------------------------------------
\* The broker.

\* Emit, first critical section.
Buffer(e, id) ==
    /\ inHand[e] = 0 /\ Len(ring) < MaxEvents
    /\ ring' = Append(ring, [id |-> id, by |-> e])
    /\ inHand' = [inHand EXCEPT ![e] = Len(ring) + 1]

Queued(c) == Len(stream[c]) - taken[c]

\* Emit, second critical section: the subscribers as they are now, each served if
\* its channel has room.  The read lock keeps Subscribe, Unsubscribe and Buffer
\* out.  Two fan-outs may overlap; each client sees the one or the other first.
FanOut(e) ==
    /\ inHand[e] # 0
    /\ inHand' = [inHand EXCEPT ![e] = 0]
    /\ stream' = [c \in Clients |-> IF c \in online /\ Queued(c) < SubSize
                                   THEN Append(stream[c], inHand[e]) ELSE stream[c]]
    /\ dropped' = [c \in Clients |-> IF c \in online /\ Queued(c) >= SubSize
                                    THEN dropped[c] \cup {inHand[e]} ELSE dropped[c]]
    /\ UNCHANGED <<ring, online, taken, streams, since, between>>
    /\ UNCHANGED turnVars

\* Events whose emitters are between the two critical sections.
Unsent == {inHand[e] : e \in Emitters} \ {0}

\* The events that are still in the ring.
Kept == {n \in DOMAIN ring : n + RingSize > Len(ring)}

\* The last event the cursor matches, 0 if none.
Cursor(from) ==
    IF from = NoId THEN 0 ELSE Max({0} \cup {n \in Kept : ring[n].id = from})

\* Mutant of Replayed: the event after the cursor is skipped.
ReplayedButOne(from) ==
    IF Cursor(from) = 0 THEN <<>> ELSE SubSeq([n \in DOMAIN ring |-> n], Cursor(from) + 2, Len(ring))

\* What Subscribe sends again: everything after the cursor.
Replayed(from) ==
    IF Cursor(from) = 0 THEN <<>> ELSE SubSeq([n \in DOMAIN ring |-> n], Cursor(from) + 1, Len(ring))

Fitting(s) == SubSeq(s, 1, IF Len(s) < SubSize THEN Len(s) ELSE SubSize)

Subscribe(c, from) ==
    /\ c \notin online
    /\ online' = online \cup {c}
    /\ stream' = [stream EXCEPT ![c] = Fitting(Replayed(from))]
    /\ taken' = [taken EXCEPT ![c] = 0]
    /\ dropped' = [dropped EXCEPT ![c] = {Replayed(from)[i] : i \in SubSize + 1 .. Len(Replayed(from))}]
    /\ since' = [since EXCEPT ![c] = IF Cursor(from) = 0 THEN Len(ring) ELSE Cursor(from)]
    /\ between' = [between EXCEPT ![c] = Unsent]

-----------------------------------------------------------------------------
\* The HTTP server.  A request is reduced to what the handlers test.

WebRequests ==
    [path : {"chat", "events", "sessions", "memory"}, method : {"GET", "POST", "DELETE", "PUT"},
     token : BOOLEAN,    \* the Authorization header is the configured token
     body : BOOLEAN,     \* the body is JSON
     named : BOOLEAN]    \* session_id, text, title, id: what the handler requires

\* authMiddleware and the guards of the four handlers.  The session store the
\* gateway installs is a stub that refuses nothing, and the memory is optional.
WebStatus(r) ==
    CASE ~r.token -> 401
      [] r.token /\ r.path = "chat" ->
           IF r.method # "POST" THEN 405 ELSE IF ~r.body \/ ~r.named THEN 400 ELSE 202
      [] r.token /\ r.path = "events" ->
           IF r.method # "GET" THEN 405 ELSE IF ~r.named THEN 400 ELSE 200
      [] r.token /\ r.path = "sessions" ->
           CASE r.method = "GET" -> 200
             [] r.method = "POST" -> IF ~r.body \/ ~r.named THEN 400 ELSE 201
             [] r.method = "DELETE" -> IF ~r.named THEN 400 ELSE 204
             [] OTHER -> 405
      [] r.token /\ r.path = "memory" -> IF r.method # "GET" THEN 405 ELSE 200

StartWeb ==
    /\ serving = "off"
    /\ serving' = "on"
    /\ UNCHANGED <<posted, turns, turnOpen, toolStep>>
    /\ UNCHANGED emitVars /\ UNCHANGED clientVars

\* Stop: no further requests.  The context of the shutdown is cancelled by then,
\* so that Shutdown does not wait for the streams, which go on.
StopWeb ==
    /\ serving = "on"
    /\ serving' = "stopped"
    /\ UNCHANGED <<posted, turns, turnOpen, toolStep>>
    /\ UNCHANGED emitVars /\ UNCHANGED clientVars

\* handleChat
Chat(r) ==
    /\ serving = "on" /\ r.path = "chat" /\ WebStatus(r) = 202
    /\ turns + posted < MaxChats
    /\ posted' = posted + 1
    /\ UNCHANGED <<serving, turns, turnOpen, toolStep>>
    /\ UNCHANGED emitVars /\ UNCHANGED clientVars

\* handleEvents: the stream begins, ...
Events(c, r, from) ==
    /\ serving = "on" /\ r.path = "events" /\ WebStatus(r) = 200
    /\ streams < MaxStreams
    /\ streams' = streams + 1
    /\ Subscribe(c, from)
    /\ UNCHANGED turnVars /\ UNCHANGED emitVars

\* ... passes on what its channel holds, ...
Receive(c) ==
    /\ c \in online /\ Queued(c) > 0
    /\ taken' = [taken EXCEPT ![c] = @ + 1]
    /\ UNCHANGED <<online, stream, streams, since, between, dropped>>
    /\ UNCHANGED turnVars /\ UNCHANGED emitVars

\* ... and ends with the request: Unsubscribe.
Leave(c) ==
    /\ c \in online
    /\ online' = online \ {c}
    /\ stream' = [stream EXCEPT ![c] = <<>>] /\ taken' = [taken EXCEPT ![c] = 0]
    /\ since' = [since EXCEPT ![c] = 0]
    /\ between' = [between EXCEPT ![c] = {}] /\ dropped' = [dropped EXCEPT ![c] = {}]
    /\ UNCHANGED streams
    /\ UNCHANGED turnVars /\ UNCHANGED emitVars

-----------------------------------------------------------------------------
\* Who emits.

\* processMessage: message_start
TurnBegins ==
    /\ posted > 0 /\ ~turnOpen /\ inHand[Run] = 0
    /\ Buffer(Run, turns + 1)
    /\ posted' = posted - 1 /\ turns' = turns + 1 /\ turnOpen' = TRUE
    /\ toolStep' = [t \in Tools |-> 0]
    /\ UNCHANGED serving /\ UNCHANGED clientVars

\* message_end or error: the tools of the turn have returned.
TurnEnds ==
    /\ turnOpen /\ \A t \in Tools : toolStep[t] # 1 /\ inHand[t] = 0
    /\ Buffer(Run, turns)
    /\ turnOpen' = FALSE
    /\ UNCHANGED <<serving, posted, turns, toolStep>> /\ UNCHANGED clientVars

\* tool_call_start, then tool_call_end: they carry the turn's message_id.
ToolEvent(t) ==
    /\ turnOpen /\ inHand[Run] = 0 /\ toolStep[t] < 2
    /\ Buffer(t, turns)
    /\ toolStep' = [toolStep EXCEPT ![t] = @ + 1]
    /\ UNCHANGED <<serving, posted, turns, turnOpen>> /\ UNCHANGED clientVars

\* The dispatcher calls Send: message_text, which has no message_id.
SendText ==
    /\ Buffer(Disp, NoId)
    /\ UNCHANGED <<serving, posted, turns, turnOpen, toolStep>> /\ UNCHANGED clientVars

WebNext ==
    \/ StartWeb \/ StopWeb
    \/ \E r \in WebRequests : Chat(r)
    \/ \E c \in Clients, r \in WebRequests, from \in 0 .. MaxChats : Events(c, r, from)
    \/ \E c \in Clients : Receive(c) \/ Leave(c)
    \/ TurnBegins \/ TurnEnds \/ SendText
    \/ \E t \in Tools : ToolEvent(t)
    \/ \E e \in Emitters : FanOut(e)

WebSpec == WebInit /\ [][WebNext]_webVars

-----------------------------------------------------------------------------
WebTypeOK ==
    /\ serving \in {"off", "on", "stopped"}
    /\ posted \in 0 .. MaxChats /\ turns \in 0 .. MaxChats
    /\ turnOpen \in BOOLEAN /\ toolStep \in [Tools -> 0 .. 2]
    /\ ring \in Seq([id : 0 .. MaxChats, by : Emitters])
    /\ inHand \in [Emitters -> 0 .. Len(ring)]
    /\ online \subseteq Clients /\ streams \in 0 .. MaxStreams
    /\ stream \in [Clients -> Seq(1 .. Len(ring))]
    /\ \A c \in Clients : Queued(c) \in 0 .. SubSize /\ since[c] \in 0 .. Len(ring)
    /\ between \in [Clients -> SUBSET (1 .. Len(ring))]
    /\ dropped \in [Clients -> SUBSET (1 .. Len(ring))]

\* Every event after the one a client resumed from, or after it subscribed, is in
\* its stream, is about to be sent to it, or was dropped because its channel was
\* full: nothing falls between the replay of the ring and the live events, although
\* Emit takes the lock twice (Emit and Subscribe in broker.go).
StreamWhole ==
    \A c \in online : \A n \in since[c] + 1 .. Len(ring) :
        \/ \E i \in DOMAIN stream[c] : stream[c][i] = n
        \/ n \in Unsent \cup dropped[c]

\* The events of one emitter come in the order it emitted them and once, except
\* those that were in the ring but not yet sent when the client subscribed: the
\* replay and the emitter may both send these.
StreamOrdered ==
    \A c \in online : \A i, j \in DOMAIN stream[c] :
        /\ i < j
        /\ ring[stream[c][i]].by = ring[stream[c][j]].by
        /\ stream[c][j] \notin between[c]
        => stream[c][i] < stream[c][j]

\* What a connected client has or will have, and its order.
StreamKept == StreamWhole /\ StreamOrdered
=============================================================================
