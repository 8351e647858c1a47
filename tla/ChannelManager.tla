--------------------------- MODULE ChannelManager ---------------------------
(***************************************************************************)
(* The channel manager (pkg/channels/manager.go) in the gateway process    *)
(* (gatewayCmd in cmd/picooraclaw/main.go): which channels there are, how  *)
(* they start and stop, the dispatcher that takes outbound messages and    *)
(* hands each to its channel, the health endpoints, and the order in which *)
(* main starts everything and, after SIGINT, stops it.  The bus itself is  *)
(* MessageBus; here the outbound queue is a sequence of the names of the   *)
(* channels addressed, filled by the goroutines that outlive the signal.   *)
(***************************************************************************)
EXTENDS Naturals, Sequences, FiniteSets

CONSTANTS
    Platforms,  \* the entries of initChannels
    SendLocks,  \* those whose Send holds, over a write without a deadline, the lock that
                \* Stop needs: whatsapp, maixcam
    Internal,   \* cli, system, subagent
    Unknown,    \* a name no entry has
    OutCap,     \* capacity of the outbound queue
    MaxOut      \* bound: messages published

ASSUME ManagerAssumption ==
    /\ SendLocks \subseteq Platforms
    /\ Internal \notin Platforms /\ Unknown \notin Platforms /\ Internal # Unknown
    /\ OutCap \in Nat \ {0} /\ MaxOut \in Nat

Addressed == Platforms \cup {Internal, Unknown}

VARIABLES
    main,       \* what main does next
    channels,   \* m.channels: entries configured whose factory returned a channel
    called,     \* channels whose Start, later whose Stop, was called
    managerLock,\* m.mu is held for writing
    cancelled,  \* ctx and, with it, the dispatcher's context
    services,   \* "cron", "heartbeat", "devices": started and not stopped
    running,    \* al.running and a goroutine of Run
    health,     \* "unborn", "starting", "ready", "stopped"
    outbound,   \* the queue
    dispatcher, \* "none", "top", "loop", "look", "send", "write", "ended"
    message,    \* the message it took
    published,  \* bound: messages published
    handed,     \* history: messages handed to a channel
    afterCancel \* history: messages taken from the queue after the signal

managerVars == <<main, channels, called, managerLock, cancelled, services, running,
                 health, outbound, dispatcher, message, published, handed, afterCancel>>
dispatchVars == <<outbound, dispatcher, message, published, handed, afterCancel>>
processVars == <<main, channels, called, managerLock, cancelled, services, running, health>>

\* initChannels: an entry is configured or not, and its factory may fail.
ManagerInit ==
    /\ main = "cron" /\ channels \in SUBSET Platforms
    /\ called = {} /\ managerLock = FALSE /\ cancelled = FALSE
    /\ services = {} /\ running = FALSE /\ health = "unborn"
    /\ outbound = <<>> /\ dispatcher = "none" /\ message = Unknown
    /\ published = 0 /\ handed = 0 /\ afterCancel = 0

-----------------------------------------------------------------------------
\* main starts: cron, heartbeat, devices, channels, health, agent loop.

StartService(s, before, after) ==
    /\ main = before /\ main' = after
    /\ \/ services' = services \cup {s}
       \/ UNCHANGED services       \* disabled, or an error that main only prints
    /\ UNCHANGED <<channels, called, managerLock, cancelled, running, health>>
    /\ UNCHANGED dispatchVars

StartServices ==
    \/ StartService("cron", "cron", "heartbeat")
    \/ StartService("heartbeat", "heartbeat", "devices")
    \/ StartService("devices", "devices", "channels")

\* StartAll: without a channel there is no dispatcher; with one, it is there before
\* the channels are started, and waits for the lock to look one up.
StartAll ==
    /\ main = "channels"
    /\ IF channels = {}
       THEN /\ main' = "health"
            /\ UNCHANGED <<managerLock, dispatcher>>
       ELSE /\ main' = "starting" /\ managerLock' = TRUE /\ dispatcher' = "loop"
    /\ UNCHANGED <<channels, called, cancelled, services, running, health, outbound,
                   message, published, handed, afterCancel>>

\* A channel whose Start fails stays in the map; the error is logged.
StartChannel(c) ==
    /\ main = "starting" /\ c \in channels \ called
    /\ called' = called \cup {c}
    /\ UNCHANGED <<main, channels, managerLock, cancelled, services, running, health>>
    /\ UNCHANGED dispatchVars

StartedAll ==
    /\ main = "starting" /\ called = channels
    /\ managerLock' = FALSE /\ main' = "health"
    /\ UNCHANGED <<channels, called, cancelled, services, running, health>>
    /\ UNCHANGED dispatchVars

\* The goroutines of the health server and of Run.
StartLoop ==
    /\ main = "health"
    /\ main' = "wait" /\ health' = "starting" /\ running' = TRUE
    /\ UNCHANGED <<channels, called, managerLock, cancelled, services>>
    /\ UNCHANGED dispatchVars

\* health.Server.Start, on its goroutine: ready, unless the server was shut down
\* before it could listen.
HealthUp ==
    /\ health = "starting" /\ health' = "ready"
    /\ UNCHANGED <<main, channels, called, managerLock, cancelled, services, running>>
    /\ UNCHANGED dispatchVars

\* The answer of /ready; no check is registered.
ReadyAnswer == IF health = "ready" THEN "ready" ELSE "not ready"

-----------------------------------------------------------------------------
\* SIGINT: cancel, health, devices, heartbeat, cron, agent loop, channels.

Interrupt ==
    /\ main = "wait"
    /\ main' = "cancelled" /\ cancelled' = TRUE
    /\ UNCHANGED <<channels, called, managerLock, services, running, health>>
    /\ UNCHANGED dispatchVars

\* It waits for the requests that are being answered.
StopHealth ==
    /\ main = "cancelled"
    /\ main' = "stopping" /\ health' = "stopped"
    /\ UNCHANGED <<channels, called, managerLock, cancelled, services, running>>
    /\ UNCHANGED dispatchVars

StopService(s) ==
    /\ main = "stopping" /\ s \in services
    /\ s = "heartbeat" => "devices" \notin services
    /\ s = "cron" => services = {"cron"}
    /\ services' = services \ {s}
    /\ UNCHANGED <<main, channels, called, managerLock, cancelled, running, health>>
    /\ UNCHANGED dispatchVars

\* Run leaves its loop at its next look at running or the context.
StopLoop ==
    /\ main = "stopping" /\ services = {}
    /\ main' = "stopall" /\ running' = FALSE
    /\ UNCHANGED <<channels, called, managerLock, cancelled, services, health>>
    /\ UNCHANGED dispatchVars

\* Mutant of StopAll: it waits until the queue is drained.
StopAllDrains ==
    /\ main = "stopall" /\ ~managerLock /\ outbound = <<>>
    /\ main' = "stopchannels" /\ managerLock' = TRUE /\ called' = {}
    /\ UNCHANGED <<channels, cancelled, services, running, health>>
    /\ UNCHANGED dispatchVars

\* Readers of m.mu hold it for a lookup only.
StopAll ==
    /\ main = "stopall" /\ ~managerLock
    /\ main' = "stopchannels" /\ managerLock' = TRUE /\ called' = {}
    /\ UNCHANGED <<channels, cancelled, services, running, health>>
    /\ UNCHANGED dispatchVars

\* Stop of WhatsApp and MaixCam waits for the lock of a Send that writes; only then does
\* it close the connection.
StopChannel(c) ==
    /\ main = "stopchannels" /\ c \in channels \ called
    /\ ~(dispatcher = "write" /\ message = c)
    /\ called' = called \cup {c}
    /\ UNCHANGED <<main, channels, managerLock, cancelled, services, running, health>>
    /\ UNCHANGED dispatchVars

\* main returns, and with it the process: goroutines end where they are.
Exit ==
    /\ main = "stopchannels" /\ called = channels
    /\ main' = "exit" /\ managerLock' = FALSE /\ dispatcher' = "ended"
    /\ UNCHANGED <<channels, called, cancelled, services, running, health, outbound,
                   message, published, handed, afterCancel>>

-----------------------------------------------------------------------------
\* The outbound queue.

\* The agent, a job, a subagent or the device service publishes; it waits while the
\* queue is full.
PublishOut(d) ==
    /\ main # "exit" /\ published < MaxOut /\ Len(outbound) < OutCap
    /\ services # {} \/ running \/ cancelled
    /\ outbound' = Append(outbound, d) /\ published' = published + 1
    /\ UNCHANGED <<dispatcher, message, handed, afterCancel>> /\ UNCHANGED processVars

\* SubscribeOutbound: a message; after the signal, that or the end.
Take ==
    /\ dispatcher = "loop" /\ outbound # <<>>
    /\ outbound' = Tail(outbound) /\ message' = Head(outbound)
    /\ dispatcher' = IF Head(outbound) = Internal THEN "top" ELSE "look"
    /\ afterCancel' = IF cancelled THEN afterCancel + 1 ELSE afterCancel
    /\ UNCHANGED <<published, handed>> /\ UNCHANGED processVars

TakeNothing ==
    /\ dispatcher = "loop" /\ cancelled /\ dispatcher' = "top"
    /\ UNCHANGED <<outbound, message, published, handed, afterCancel>> /\ UNCHANGED processVars

LookUp ==
    /\ dispatcher = "look" /\ ~managerLock
    /\ dispatcher' = IF message \in channels THEN "send" ELSE "top"
    /\ UNCHANGED <<outbound, message, published, handed, afterCancel>> /\ UNCHANGED processVars

\* Send takes the lock of a channel that is not stopped, and writes with it.  The thirty
\* seconds the dispatcher allows are not asked there: the write returns when it can.
SendWrites ==
    /\ dispatcher = "send" /\ message \in SendLocks
    /\ ~(main = "stopchannels" /\ message \in called)
    /\ dispatcher' = "write"
    /\ UNCHANGED <<outbound, message, published, handed, afterCancel>> /\ UNCHANGED processVars

\* Send returns, in success or with an error that is logged.
SendOut ==
    /\ dispatcher \in {"send", "write"}
    /\ handed' = handed + 1 /\ dispatcher' = "top"
    /\ UNCHANGED <<outbound, message, published, afterCancel>> /\ UNCHANGED processVars

\* Mutant of NextMessage: the context is not looked at.
NextMessageAnyway ==
    /\ dispatcher = "top" /\ dispatcher' = "loop"
    /\ UNCHANGED <<outbound, message, published, handed, afterCancel>> /\ UNCHANGED processVars

\* The top of the loop.
NextMessage ==
    /\ dispatcher = "top"
    /\ dispatcher' = IF cancelled THEN "ended" ELSE "loop"
    /\ UNCHANGED <<outbound, message, published, handed, afterCancel>> /\ UNCHANGED processVars

Dispatch == Take \/ TakeNothing \/ LookUp \/ SendWrites \/ SendOut \/ NextMessage

MainSteps ==
    \/ StartServices \/ StartAll \/ StartedAll \/ StartLoop
    \/ \E c \in Platforms : StartChannel(c) \/ StopChannel(c)
    \/ \E s \in services : StopService(s)
    \/ StopHealth \/ StopLoop \/ StopAll \/ Exit

ManagerNext ==
    \/ MainSteps \/ HealthUp \/ Interrupt \/ Dispatch
    \/ \E d \in Addressed : PublishOut(d)

\* From the signal on main goes on when it can: what else it calls returns (the health
\* server's requests are answered at once, LINE is given five seconds for its own).
\* Neither the dispatcher need go on, nor a Send return.
ManagerFairness == WF_managerVars(cancelled /\ MainSteps)

ManagerSpec == ManagerInit /\ [][ManagerNext]_managerVars /\ ManagerFairness

-----------------------------------------------------------------------------
ManagerTypeOK ==
    /\ main \in {"cron", "heartbeat", "devices", "channels", "starting", "health", "wait",
                 "cancelled", "stopping", "stopall", "stopchannels", "exit"}
    /\ channels \subseteq Platforms /\ called \subseteq channels
    /\ managerLock \in BOOLEAN /\ cancelled \in BOOLEAN /\ running \in BOOLEAN
    /\ services \subseteq {"cron", "heartbeat", "devices"}
    /\ health \in {"unborn", "starting", "ready", "stopped"}
    /\ outbound \in Seq(Addressed) /\ Len(outbound) <= OutCap
    /\ dispatcher \in {"none", "loop", "look", "send", "write", "top", "ended"}
    /\ message \in Addressed
    /\ published \in 0 .. MaxOut /\ handed \in 0 .. MaxOut /\ afterCancel \in 0 .. MaxOut

\* A message goes to a channel only after Start was called for all of them, although the
\* dispatcher runs before the first is started and cron jobs may publish earlier; and after
\* the signal the dispatcher takes one message at most, whatever is queued.
DispatcherInStep ==
    /\ dispatcher \in {"send", "write"} /\ ~cancelled => called = channels
    /\ afterCancel <= 1

\* A Send of WhatsApp or MaixCam is stuck in its write: the other side reads nothing.
SendHangs == <>[](dispatcher = "write")

\* A gateway that is interrupted ends: StopAll, which holds the manager's lock while it
\* stops the channels, does not wait for the dispatcher's lookup nor the dispatcher for it,
\* whatever is queued.  It waits for one thing, the lock of a channel in which a Send
\* writes, and with a Send that never returns the gateway never ends.
ShutdownEnds == SendHangs \/ (cancelled ~> main = "exit")
=============================================================================
