--------------------------- MODULE ChatConnections ---------------------------
(***************************************************************************)
(* How the chat adapters start, keep and end the connection to their       *)
(* platform (Start, Stop and the goroutines between).  OneBot and WhatsApp *)
(* dial a websocket and read it in a goroutine, MaixCam accepts devices,   *)
(* the others hand the connection to the library of their platform.  The   *)
(* gateway cancels the context of Start before it calls Stop.              *)
(***************************************************************************)
EXTENDS Naturals, FiniteSets

CONSTANTS
    Devices,        \* connections MaixCam devices make
    PanicReads      \* failed reads of one websocket after which the library panics (1000)

ASSUME LinksAssumption == PanicReads \in Nat \ {0}

Sessions == {"telegram", "slack", "discord", "qq", "feishu", "dingtalk", "line"}
Adapters == Sessions \cup {"onebot", "whatsapp", "maixcam"}

VARIABLES
    adapter,
    stage,          \* "new", "starting" (QQ), "started", "failed", "stopped", "panicked"
    live,           \* IsRunning
    ended,          \* the context of Start is cancelled
    held,           \* conn, listener or session is not nil
    link,           \* what it holds: "none", "open", "lost"
    listener,       \* goroutine that reads it: "none", "top", "read"
    reconnecting,   \* OneBot's reconnectLoop: "none", "wait", "dial"
    badReads,       \* reads of a lost websocket
    device,         \* of MaixCam: "away", "accepted", "top", "decode", "done"
    clients,        \* MaixCam's devices
    closed          \* devices whose connection is closed

linkVars == <<adapter, stage, live, ended, held, link, listener, reconnecting, badReads,
              device, clients, closed>>
cameraVars == <<device, clients, closed>>

LinksInit ==
    /\ adapter \in Adapters /\ stage = "new" /\ live = FALSE /\ ended = FALSE
    /\ held = FALSE /\ link = "none" /\ listener = "none" /\ reconnecting = "none" /\ badReads = 0
    /\ device = [d \in Devices |-> "away"] /\ clients = {} /\ closed = {}

\* The gateway's cancel; the adapters' own contexts end with it.
CancelStart ==
    /\ stage # "new" /\ ~ended /\ ended' = TRUE
    /\ UNCHANGED <<adapter, stage, live, held, link, listener, reconnecting, badReads>>
    /\ UNCHANGED cameraVars

LoseLink ==
    /\ link = "open" /\ link' = "lost"
    /\ UNCHANGED <<adapter, stage, live, ended, held, listener, reconnecting, badReads>>
    /\ UNCHANGED cameraVars

-----------------------------------------------------------------------------
\* OneBot: without a connection at the start it is started all the same if it reconnects.

StartOneBot(dialled, reconnects) ==
    /\ adapter = "onebot" /\ stage = "new"
    /\ held' = dialled /\ link' = (IF dialled THEN "open" ELSE "none")
    /\ listener' = IF dialled THEN "top" ELSE "none"
    /\ reconnecting' = IF reconnects THEN "wait" ELSE "none"
    /\ live' = (dialled \/ reconnects)
    /\ stage' = IF live' THEN "started" ELSE "failed"
    /\ UNCHANGED <<adapter, ended, badReads>> /\ UNCHANGED cameraVars

\* select takes either case when the timer has fired and the context is done.
Reconnect ==
    /\ \/ /\ reconnecting = "wait"
          /\ \/ ended /\ reconnecting' = "none"
             \/ reconnecting' = IF held THEN "wait" ELSE "dial"
          /\ UNCHANGED <<held, link, listener>>
       \/ /\ reconnecting = "dial" /\ reconnecting' = "wait"     \* the dial fails
          /\ UNCHANGED <<held, link, listener>>
    /\ UNCHANGED <<adapter, stage, live, ended, badReads>> /\ UNCHANGED cameraVars

Redialled ==
    /\ reconnecting = "dial" /\ reconnecting' = "wait"
    /\ held' = TRUE /\ link' = "open" /\ listener' = "top"
    /\ UNCHANGED <<adapter, stage, live, ended, badReads>> /\ UNCHANGED cameraVars

\* Top of a round of listen; WhatsApp's waits a second for a connection, OneBot's returns.
ListenTop ==
    /\ listener = "top"
    /\ listener' = IF ended \/ (~held /\ adapter = "onebot") THEN "none"
                   ELSE IF held THEN "read" ELSE "top"
    /\ UNCHANGED <<adapter, stage, live, ended, held, link, reconnecting, badReads>>
    /\ UNCHANGED cameraVars

Received ==
    /\ listener = "read" /\ link = "open" /\ listener' = "top"
    /\ UNCHANGED <<adapter, stage, live, ended, held, link, reconnecting, badReads>>
    /\ UNCHANGED cameraVars

\* Mutant of ReadFails: OneBot keeps the connection, as WhatsApp does.
ReadFailsKeeps ==
    /\ listener = "read" /\ link # "open" /\ adapter = "onebot"
    /\ listener' = "none"
    /\ UNCHANGED <<adapter, stage, live, ended, held, link, reconnecting, badReads>>
    /\ UNCHANGED cameraVars

\* OneBot closes and forgets the connection, whose place the loop may fill.
ReadFails ==
    /\ listener = "read" /\ link # "open" /\ adapter = "onebot"
    /\ listener' = "none" /\ held' = FALSE /\ link' = "none"
    /\ UNCHANGED <<adapter, stage, live, ended, reconnecting, badReads>> /\ UNCHANGED cameraVars

StopOneBot ==
    /\ adapter = "onebot" /\ stage \in {"started", "failed"} /\ ended
    /\ stage' = "stopped" /\ live' = FALSE /\ held' = FALSE /\ link' = "none"
    /\ UNCHANGED <<adapter, ended, listener, reconnecting, badReads>> /\ UNCHANGED cameraVars

-----------------------------------------------------------------------------
\* WhatsApp: a lost connection is read again every two seconds, until the library panics.

StartWhatsApp(dialled) ==
    /\ adapter = "whatsapp" /\ stage = "new"
    /\ stage' = (IF dialled THEN "started" ELSE "failed") /\ live' = dialled
    /\ held' = dialled /\ link' = (IF dialled THEN "open" ELSE "none")
    /\ listener' = IF dialled THEN "top" ELSE "none"
    /\ UNCHANGED <<adapter, ended, reconnecting, badReads>> /\ UNCHANGED cameraVars

ReadFailsAgain ==
    /\ listener = "read" /\ link # "open" /\ adapter = "whatsapp"
    /\ badReads' = badReads + 1
    /\ IF badReads' = PanicReads THEN stage' = "panicked" /\ listener' = "none"
       ELSE UNCHANGED stage /\ listener' = "top"
    /\ UNCHANGED <<adapter, live, ended, held, link, reconnecting>> /\ UNCHANGED cameraVars

StopWhatsApp ==
    /\ adapter = "whatsapp" /\ stage \in {"started", "failed"} /\ ended
    /\ stage' = "stopped" /\ live' = FALSE /\ held' = FALSE /\ link' = "none"
    /\ UNCHANGED <<adapter, ended, listener, reconnecting, badReads>> /\ UNCHANGED cameraVars

-----------------------------------------------------------------------------
\* MaixCam: the listener is a server socket, "read" the acceptor in Accept.

StartMaixCam(listens) ==
    /\ adapter = "maixcam" /\ stage = "new"
    /\ stage' = (IF listens THEN "started" ELSE "failed") /\ live' = listens
    /\ held' = listens /\ link' = (IF listens THEN "open" ELSE "none")
    /\ listener' = IF listens THEN "top" ELSE "none"
    /\ UNCHANGED <<adapter, ended, reconnecting, badReads>> /\ UNCHANGED cameraVars

AcceptDevice(d) ==
    /\ adapter = "maixcam" /\ listener = "read" /\ link = "open" /\ device[d] = "away"
    /\ device' = [device EXCEPT ![d] = "accepted"] /\ listener' = "accepted"
    /\ UNCHANGED <<adapter, stage, live, ended, held, link, reconnecting, badReads, clients, closed>>

\* The device is registered and gets its goroutine; Stop may have emptied the table meanwhile.
RegisterDevice(d) ==
    /\ device[d] = "accepted" /\ clients' = clients \cup {d}
    /\ device' = [device EXCEPT ![d] = "top"] /\ listener' = "top"
    /\ UNCHANGED <<adapter, stage, live, ended, held, link, reconnecting, badReads, closed>>

\* The socket is closed: its own field "running" is never set, nothing is logged.
AcceptFails ==
    /\ adapter = "maixcam" /\ listener = "read" /\ link # "open" /\ listener' = "none"
    /\ UNCHANGED <<adapter, stage, live, ended, held, link, reconnecting, badReads>>
    /\ UNCHANGED cameraVars

DeviceEnds(d) ==
    /\ device' = [device EXCEPT ![d] = "done"] /\ closed' = closed \cup {d}
    /\ clients' = clients \ {d}

DeviceTop(d) ==
    /\ device[d] = "top"
    /\ IF ended THEN DeviceEnds(d)
       ELSE device' = [device EXCEPT ![d] = "decode"] /\ UNCHANGED <<clients, closed>>
    /\ UNCHANGED <<adapter, stage, live, ended, held, link, listener, reconnecting, badReads>>

DeviceSends(d) ==
    /\ device[d] = "decode" /\ d \notin closed
    /\ \/ device' = [device EXCEPT ![d] = "top"] /\ UNCHANGED <<clients, closed>>
       \/ DeviceEnds(d)                           \* it hangs up, or sends what is no JSON
    /\ UNCHANGED <<adapter, stage, live, ended, held, link, listener, reconnecting, badReads>>

DeviceCut(d) ==
    /\ device[d] = "decode" /\ d \in closed /\ DeviceEnds(d)
    /\ UNCHANGED <<adapter, stage, live, ended, held, link, listener, reconnecting, badReads>>

StopMaixCam ==
    /\ adapter = "maixcam" /\ stage \in {"started", "failed"} /\ ended
    /\ stage' = "stopped" /\ live' = FALSE /\ link' = "none"
    /\ closed' = closed \cup clients /\ clients' = {}
    /\ UNCHANGED <<adapter, ended, held, listener, reconnecting, badReads, device>>

-----------------------------------------------------------------------------
\* The libraries of the other platforms.

\* What Start leaves behind, when the platform lets it in or not.
Started(opened) == [held |-> opened, live |-> opened, stage |-> IF opened THEN "started" ELSE "failed"]

TelegramStart(opened) == {Started(opened)}
SlackStart(opened) == {Started(opened)}        \* by its auth test; the socket follows
DingTalkStart(opened) == {Started(opened)}

\* It is running, and has its session, when it asks who it is and fails.
DiscordStart(opened) == {Started(opened)} \cup (IF opened THEN {[Started(TRUE) EXCEPT !.stage = "failed"]} ELSE {})

\* It counts itself running after it has begun its session.
QQStart(opened) ==
    {IF opened THEN [held |-> TRUE, live |-> FALSE, stage |-> "starting"] ELSE Started(FALSE)}

\* What their goroutines meet is only logged: without bot info LINE knows no mentions by id.
FeishuStart(opened) == {[Started(TRUE) EXCEPT !.held = opened]}
LineStart(opened) == {[Started(TRUE) EXCEPT !.held = opened]}

StartOf(opened) ==
    CASE adapter = "telegram" -> TelegramStart(opened) [] adapter = "slack"    -> SlackStart(opened)
      [] adapter = "discord"  -> DiscordStart(opened)  [] adapter = "qq"       -> QQStart(opened)
      [] adapter = "feishu"   -> FeishuStart(opened)   [] adapter = "dingtalk" -> DingTalkStart(opened)
      [] adapter = "line"     -> LineStart(opened)

StartSession(opened) ==
    /\ adapter \in Sessions /\ stage = "new"
    /\ \E start \in StartOf(opened) : held' = start.held /\ live' = start.live /\ stage' = start.stage
    /\ link' = IF opened THEN "open" ELSE "none"
    /\ UNCHANGED <<adapter, ended, listener, reconnecting, badReads>> /\ UNCHANGED cameraVars

\* setRunning(true) of QQ's Start: also when the session has failed by now.
QQStarted ==
    /\ stage = "starting" /\ stage' = "started" /\ live' = TRUE
    /\ UNCHANGED <<adapter, ended, held, link, listener, reconnecting, badReads>>
    /\ UNCHANGED cameraVars

\* QQ alone learns that its session is over; Telegram's goroutine says it reconnects, and
\* returns.
SessionOver ==
    /\ adapter \in Sessions /\ link = "lost" /\ held /\ held' = FALSE
    /\ live' = (live /\ adapter # "qq")
    /\ UNCHANGED <<adapter, stage, ended, link, listener, reconnecting, badReads>>
    /\ UNCHANGED cameraVars

\* QQ's session manager is not told.
StopSession ==
    /\ adapter \in Sessions /\ stage \in {"started", "failed"} /\ ended
    /\ stage' = "stopped" /\ live' = FALSE
    /\ IF adapter = "qq" THEN UNCHANGED <<held, link>> ELSE held' = FALSE /\ link' = "none"
    /\ UNCHANGED <<adapter, ended, listener, reconnecting, badReads>> /\ UNCHANGED cameraVars

-----------------------------------------------------------------------------
LinksNext ==
    /\ stage # "panicked"
    /\ \/ CancelStart \/ LoseLink
       \/ \E dialled, reconnects \in BOOLEAN : StartOneBot(dialled, reconnects)
       \/ Reconnect \/ Redialled \/ ListenTop \/ Received \/ ReadFails \/ StopOneBot
       \/ \E dialled \in BOOLEAN : StartWhatsApp(dialled) \/ StartMaixCam(dialled)
       \/ ReadFailsAgain \/ StopWhatsApp \/ AcceptFails \/ StopMaixCam
       \/ \E d \in Devices : \/ AcceptDevice(d) \/ RegisterDevice(d) \/ DeviceTop(d)
                             \/ DeviceSends(d) \/ DeviceCut(d)
       \/ \E opened \in BOOLEAN : StartSession(opened)
       \/ QQStarted \/ SessionOver \/ StopSession

\* The goroutines go on, a socket that is closed or lost fails its read, the platform can
\* be reached again and again, and the gateway calls Stop once it has cancelled.
LinksFairness ==
    /\ WF_linkVars(Reconnect) /\ SF_linkVars(Redialled)
    /\ WF_linkVars(ListenTop) /\ WF_linkVars(ReadFails \/ AcceptFails)
    /\ WF_linkVars(StopOneBot \/ StopMaixCam)
    /\ \A d \in Devices :
         WF_linkVars(RegisterDevice(d) \/ DeviceTop(d) \/ DeviceCut(d))

LinksSpec == LinksInit /\ [][LinksNext]_linkVars /\ LinksFairness

LinksTypeOK ==
    /\ adapter \in Adapters /\ live \in BOOLEAN /\ ended \in BOOLEAN /\ held \in BOOLEAN
    /\ stage \in {"new", "starting", "started", "failed", "stopped", "panicked"}
    /\ link \in {"none", "open", "lost"} /\ listener \in {"none", "top", "read", "accepted"}
    /\ reconnecting \in {"none", "wait", "dial"} /\ badReads \in 0 .. PanicReads
    /\ device \in [Devices -> {"away", "accepted", "top", "decode", "done"}]
    /\ clients \subseteq Devices /\ closed \subseteq Devices

\* OneBot, started with an interval to reconnect, is connected and listening again after
\* every loss, until the gateway ends it.
HearsAgain ==
    (adapter = "onebot" /\ stage = "started" /\ reconnecting # "none")
        ~> (ended \/ (held /\ link = "open" /\ listener # "none"))

\* Once MaixCam is stopped every device it accepted is hung up, also one it was accepting
\* when Stop emptied the table.
DevicesHungUp ==
    (adapter = "maixcam" /\ stage = "stopped") ~> \A d \in Devices : device[d] \in {"away", "done"}

LinksFollow == HearsAgain /\ DevicesHungUp
=============================================================================
