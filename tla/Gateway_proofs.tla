--------------------------- MODULE Gateway_proofs ---------------------------
(***************************************************************************)
(* Proofs about three parts of the gateway that share nothing: the channel *)
(* manager and its dispatcher, the last channel that the state manager     *)
(* records, and the web channel with its broker of events.  For any number *)
(* of channels, places, clients, tools, events and crashes.                *)
(***************************************************************************)
EXTENDS ChannelManager, LastChannel, WebChannel, SequenceTheorems, FiniteSetTheorems,
        WellFoundedInduction, TLAPS

-----------------------------------------------------------------------------
\* The channel manager.

Early == {"cron", "heartbeat", "devices", "channels"}
Late == {"cancelled", "stopping", "stopall", "stopchannels", "exit"}

\* Where main is, and what it holds and has cancelled there.
Stages ==
    /\ main \in Early => dispatcher = "none" /\ called = {}
    /\ managerLock <=> main \in {"starting", "stopchannels"}
    /\ cancelled <=> main \in Late
    /\ main \in {"health", "wait"} => called = channels

\* What the dispatcher took: one message is in its hand or counted, once.
InHand == IF dispatcher \in {"look", "send", "write"} THEN 1 ELSE 0

Accounted ==
    /\ handed + InHand + Len(outbound) <= published
    /\ afterCancel + Len(outbound) <= published

\* No message is sent while channels start; one at most is taken after the signal, and
\* the dispatcher that waits for one has taken none.
InStep ==
    /\ main = "starting" => dispatcher \notin {"send", "write"}
    /\ dispatcher \in {"send", "write"} /\ ~cancelled => called = channels
    /\ ~cancelled \/ dispatcher = "loop" => afterCancel = 0
    /\ afterCancel <= 1

ManagerInv == ManagerTypeOK /\ Stages /\ Accounted /\ InStep

-----------------------------------------------------------------------------
\* The initial state: nothing is started, the queue is empty.
LEMMA ManagerStart == ManagerInit => ManagerInv
<1> SUFFICES ASSUME ManagerInit PROVE ManagerInv
  OBVIOUS
<1>1. ManagerTypeOK
  <2>1. outbound = <<>> /\ <<>> \in Seq(Addressed) /\ Len(outbound) = 0
    BY DEF ManagerInit
  <2>2. OutCap \in Nat /\ MaxOut \in Nat
    BY ManagerAssumption
  <2>3. outbound \in Seq(Addressed) /\ Len(outbound) <= OutCap
    BY <2>1, <2>2
  <2>4. published \in 0 .. MaxOut /\ handed \in 0 .. MaxOut /\ afterCancel \in 0 .. MaxOut
    BY <2>2 DEF ManagerInit
  <2> QED BY <2>3, <2>4 DEF ManagerInit, ManagerTypeOK, Addressed
<1>2. Stages /\ Accounted /\ InStep
  BY DEF ManagerInit, Stages, Accounted, InHand, InStep, Early, Late
<1> QED BY <1>1, <1>2 DEF ManagerInv

\* What taking the head of the queue leaves, and what an append makes of it.
LEMMA QueueFacts ==
    ASSUME NEW q \in Seq(Addressed), NEW d \in Addressed
    PROVE  /\ Append(q, d) \in Seq(Addressed) /\ Len(Append(q, d)) = Len(q) + 1
           /\ q # <<>> => /\ Head(q) \in Addressed /\ Tail(q) \in Seq(Addressed)
                          /\ Len(Tail(q)) = Len(q) - 1 /\ Len(q) >= 1
           /\ Len(q) \in Nat
<1>1. Append(q, d) \in Seq(Addressed) /\ Len(Append(q, d)) = Len(q) + 1 /\ Len(q) \in Nat
  OBVIOUS
<1>2. q # <<>> => /\ Head(q) \in Addressed /\ Tail(q) \in Seq(Addressed)
                  /\ Len(Tail(q)) = Len(q) - 1 /\ Len(q) >= 1
  OBVIOUS
<1> QED BY <1>1, <1>2

\* The steps of main, of the health server and of the signal leave the queue alone.
LEMMA MainKeeps == ManagerInv /\ (MainSteps \/ HealthUp \/ Interrupt) => ManagerInv'
<1> SUFFICES ASSUME ManagerInv, MainSteps \/ HealthUp \/ Interrupt PROVE ManagerInv'
  OBVIOUS
<1> USE DEF ManagerInv, Stages, Accounted, InHand, InStep, Early, Late
<1>0. Len(outbound) \in Nat
  BY DEF ManagerTypeOK
<1>1. ASSUME NEW s, NEW before \in Early, NEW after \in Early,
             s \in {"cron", "heartbeat", "devices"}, StartService(s, before, after)
      PROVE  ManagerInv'
  BY <1>0, <1>1 DEF StartService, ManagerTypeOK, dispatchVars
<1>2. CASE StartServices
  BY <1>1, <1>2 DEF StartServices
<1>3. CASE StartAll
  BY <1>0, <1>3 DEF StartAll, ManagerTypeOK
<1>4. ASSUME NEW c \in Platforms, StartChannel(c) PROVE ManagerInv'
  BY <1>0, <1>4 DEF StartChannel, ManagerTypeOK, dispatchVars
<1>5. CASE StartedAll
  BY <1>0, <1>5 DEF StartedAll, ManagerTypeOK, dispatchVars
<1>6. CASE StartLoop
  BY <1>0, <1>6 DEF StartLoop, ManagerTypeOK, dispatchVars
<1>7. CASE HealthUp
  BY <1>0, <1>7 DEF HealthUp, ManagerTypeOK, dispatchVars
<1>8. CASE Interrupt
  BY <1>0, <1>8 DEF Interrupt, ManagerTypeOK, dispatchVars
<1>9. CASE StopHealth
  BY <1>0, <1>9 DEF StopHealth, ManagerTypeOK, dispatchVars
<1>10. ASSUME NEW s \in services, StopService(s) PROVE ManagerInv'
  BY <1>0, <1>10 DEF StopService, ManagerTypeOK, dispatchVars
<1>11. CASE StopLoop
  BY <1>0, <1>11 DEF StopLoop, ManagerTypeOK, dispatchVars
<1>12. CASE StopAll
  BY <1>0, <1>12 DEF StopAll, ManagerTypeOK, dispatchVars
<1>13. ASSUME NEW c \in Platforms, StopChannel(c) PROVE ManagerInv'
  BY <1>0, <1>13 DEF StopChannel, ManagerTypeOK, dispatchVars
<1>14. CASE Exit
  <2>1. cancelled /\ cancelled' /\ main' = "exit" /\ dispatcher' = "ended" /\ managerLock' = FALSE
    BY <1>14 DEF Exit
  <2>2. ManagerTypeOK' /\ Stages' /\ InStep'
    BY <1>14, <2>1 DEF Exit, ManagerTypeOK
  <2>3. Accounted'
    BY <1>0, <1>14, <2>1 DEF Exit, ManagerTypeOK
  <2> QED BY <2>2, <2>3
<1>15. CASE \E c \in Platforms : StartChannel(c) \/ StopChannel(c)
  <2>1. PICK c \in Platforms : StartChannel(c) \/ StopChannel(c)
    BY <1>15
  <2> QED BY <1>4, <1>13, <2>1
<1>16. CASE \E s \in services : StopService(s)
  <2>1. PICK s \in services : StopService(s)
    BY <1>16
  <2> QED BY <1>10, <2>1
<1> HIDE DEF ManagerInv, Stages, Accounted, InHand, InStep, Early, Late
<1> QED
  BY <1>2, <1>3, <1>5, <1>6, <1>7, <1>8, <1>9, <1>11, <1>12, <1>14, <1>15, <1>16 DEF MainSteps

\* The dispatcher and those who publish leave main's state alone.
LEMMA QueueKeeps ==
    ManagerInv /\ (Dispatch \/ \E d \in Addressed : PublishOut(d)) => ManagerInv'
<1> SUFFICES ASSUME ManagerInv, Dispatch \/ \E d \in Addressed : PublishOut(d) PROVE ManagerInv'
  OBVIOUS
<1> USE DEF ManagerInv, Stages, Accounted, InHand, InStep, Early, Late
<1>0. outbound \in Seq(Addressed) /\ Len(outbound) \in Nat /\ message \in Addressed
  BY DEF ManagerTypeOK
<1>1. ASSUME NEW d \in Addressed, PublishOut(d) PROVE ManagerInv'
  BY <1>0, <1>1, QueueFacts, ManagerAssumption DEF PublishOut, ManagerTypeOK, processVars
<1>2. CASE Take
  <2>1. /\ outbound' = Tail(outbound) /\ outbound' \in Seq(Addressed)
        /\ Len(outbound') = Len(outbound) - 1 /\ Len(outbound') \in Nat /\ message' \in Addressed
    BY <1>0, <1>2, QueueFacts DEF Take
  <2>2. /\ dispatcher = "loop" /\ dispatcher' \in {"top", "look"} /\ afterCancel = 0
        /\ afterCancel' = IF cancelled THEN 1 ELSE 0
    BY <1>2 DEF Take, ManagerTypeOK
  <2>3. UNCHANGED <<published, handed>> /\ UNCHANGED processVars
    BY <1>2 DEF Take
  <2>4. MaxOut \in Nat /\ OutCap \in Nat
    BY ManagerAssumption
  <2>5. Accounted'
    BY <1>0, <2>1, <2>2, <2>3 DEF ManagerTypeOK
  <2>6. ManagerTypeOK'
    BY <1>0, <2>1, <2>2, <2>3, <2>4 DEF ManagerTypeOK, processVars
  <2>7. Stages' /\ InStep'
    BY <2>2, <2>3 DEF processVars
  <2> QED BY <2>5, <2>6, <2>7
<1>3. CASE TakeNothing
  BY <1>0, <1>3 DEF TakeNothing, ManagerTypeOK, processVars
<1>4. CASE LookUp
  BY <1>0, <1>4 DEF LookUp, ManagerTypeOK, processVars
<1>5. CASE SendOut
  BY <1>0, <1>5, ManagerAssumption DEF SendOut, ManagerTypeOK, processVars
<1>7. CASE SendWrites
  BY <1>0, <1>7 DEF SendWrites, ManagerTypeOK, processVars
<1>6. CASE NextMessage
  BY <1>0, <1>6 DEF NextMessage, ManagerTypeOK, processVars
<1> QED BY <1>1, <1>2, <1>3, <1>4, <1>5, <1>6, <1>7 DEF Dispatch

\* Every step preserves the invariant.
LEMMA ManagerStep == ManagerInv /\ [ManagerNext]_managerVars => ManagerInv'
<1> SUFFICES ASSUME ManagerInv, [ManagerNext]_managerVars PROVE ManagerInv'
  OBVIOUS
<1>1. CASE UNCHANGED managerVars
  BY <1>1 DEF ManagerInv, ManagerTypeOK, Stages, Accounted, InHand, InStep, managerVars
<1> QED BY <1>1, MainKeeps, QueueKeeps DEF ManagerNext

\* The manager's, the dispatcher's and main's variables keep their types, and the
\* outbound queue its capacity (pkg/channels/manager.go, gatewayCmd).
THEOREM ManagerTypeCorrect == ManagerSpec => []ManagerTypeOK
<1>1. ManagerInv => ManagerTypeOK
  BY DEF ManagerInv
<1> QED BY <1>1, ManagerStart, ManagerStep, PTL DEF ManagerSpec

\* Nothing is sent before every channel was started, and after the signal the dispatcher
\* takes one message at most (dispatchOutbound and StartAll).
THEOREM DispatchInStep == ManagerSpec => []DispatcherInStep
<1>1. ManagerInv => DispatcherInStep
  BY DEF ManagerInv, InStep, DispatcherInStep
<1> QED BY <1>1, ManagerStart, ManagerStep, PTL DEF ManagerSpec

-----------------------------------------------------------------------------
\* The last channel.

\* The lock of the agent's manager is held only while the process lives, for a place in
\* memory; the file holds what was acknowledged, and until there is one a manager's
\* migration can only put there what the earlier version's file says.
FileInv ==
    /\ phase = "down" => save = "idle"
    /\ save # "idle" => loaded["agent"] \in Places
    /\ stateFile # None => stateFile = acked
    /\ stateFile = None => acked = Parsed(oldFile)

\* The heartbeat can only have recorded its place once its manager has loaded one.
BeatInv ==
    /\ phase \in {"down", "loading"} => ~heart /\ override # "beat"
    /\ phase = "down" => latest = None
    /\ RecentUnlessOverridden

PlaceInv == PlaceTypeOK /\ FileInv /\ BeatInv

-----------------------------------------------------------------------------
\* A file is never read as more than it says.
LEMMA ParsedFacts ==
    ASSUME NEW f \in Contents
    PROVE  Parsed(f) \in Places \cup {None} /\ Parsed(f) # Torn /\ (f # Torn => Parsed(f) = f)
BY PlaceAssumption DEF Contents, Parsed

\* The initial state: a process that is down, with an old file or none.
LEMMA PlaceStart == PlaceInit => PlaceInv
<1> SUFFICES ASSUME PlaceInit PROVE PlaceInv
  OBVIOUS
<1>0. DevCap \in Nat /\ MaxRecords \in Nat /\ MaxDown \in Nat /\ None # Torn
  BY PlaceAssumption
<1>1. acked = Parsed(oldFile) /\ acked \in Places \cup {None}
  BY ParsedFacts DEF PlaceInit, Parsed
<1>2. usb \in Seq({"add", "remove"}) /\ Len(usb) <= DevCap
  BY <1>0 DEF PlaceInit
<1>3. recordTurns \in 0 .. MaxRecords /\ downs \in 0 .. MaxDown
  BY <1>0 DEF PlaceInit
<1>4. PlaceTypeOK
  BY <1>1, <1>2, <1>3 DEF PlaceInit, PlaceTypeOK, Contents, Managers
<1>5. FileInv /\ BeatInv
  BY <1>0, <1>1 DEF PlaceInit, FileInv, BeatInv, RecentUnlessOverridden
<1> QED BY <1>4, <1>5 DEF PlaceInv

\* What a manager loads is a place or none, and what it migrates is what the file of the
\* earlier version says.
LEMMA ManagerLoads ==
    ASSUME PlaceInv, NEW m \in Managers, NewManager(m)
    PROVE  /\ loaded' \in [Managers -> Places \cup {None}]
           /\ \A n \in Managers \ {m} : loaded'[n] = loaded[n]
           /\ stateFile' \in Contents
           /\ stateFile' = stateFile \/ (stateFile = None /\ stateFile' = Parsed(oldFile))
           /\ downs' \in 0 .. MaxDown
<1>0. /\ loaded \in [Managers -> Places \cup {None}] /\ stateFile \in Contents /\ oldFile \in Contents
      /\ downs \in 0 .. MaxDown /\ MaxDown \in Nat
  BY PlaceAssumption DEF PlaceInv, PlaceTypeOK
<1>1. CASE stateFile # None
  BY <1>0, <1>1, ParsedFacts DEF NewManager
<1>2. CASE stateFile = None
  BY <1>0, <1>2, ParsedFacts DEF NewManager, Contents
<1> QED BY <1>1, <1>2

\* A boot keeps the invariant: the managers are loaded one after the other, the agent's
\* while nothing runs, the heartbeat's before a beat.
LEMMA BootKeeps == PlaceInv /\ (BootAgent \/ BootHeartbeat \/ BootDevices) => PlaceInv'
<1> SUFFICES ASSUME PlaceInv, BootAgent \/ BootHeartbeat \/ BootDevices PROVE PlaceInv'
  OBVIOUS
<1>0. PlaceTypeOK /\ FileInv /\ BeatInv
  BY DEF PlaceInv
<1>1. ASSUME NEW m \in Managers, NewManager(m), UNCHANGED <<oldFile, acked>>
      PROVE  /\ stateFile' # None => stateFile' = acked'
             /\ stateFile' = None => acked' = Parsed(oldFile')
  <2>1. stateFile' = stateFile \/ (stateFile = None /\ stateFile' = Parsed(oldFile))
    BY <1>1, ManagerLoads
  <2> QED BY <1>0, <1>1, <2>1 DEF FileInv, Parsed
<1>2. CASE BootAgent
  <2>1. NewManager("agent") /\ "agent" \in Managers
    BY <1>2 DEF BootAgent, Managers
  <2>2. PlaceTypeOK'
    BY <1>0, <1>2, <2>1, ManagerLoads DEF BootAgent, PlaceTypeOK, beatVars, deviceVars
  <2>3. FileInv'
    BY <1>0, <1>1, <1>2, <2>1 DEF BootAgent, FileInv
  <2>4. BeatInv'
    BY <1>0, <1>2 DEF BootAgent, BeatInv, RecentUnlessOverridden, beatVars
  <2> QED BY <2>2, <2>3, <2>4 DEF PlaceInv
<1>3. CASE BootHeartbeat
  <2>1. NewManager("heartbeat") /\ "heartbeat" \in Managers
    BY <1>3 DEF BootHeartbeat, Managers
  <2>2. loaded'["agent"] = loaded["agent"]
    BY <2>1, ManagerLoads DEF Managers
  <2>3. PlaceTypeOK'
    BY <1>0, <1>3, <2>1, ManagerLoads DEF BootHeartbeat, PlaceTypeOK, deviceVars
  <2>4. FileInv'
    BY <1>0, <1>1, <1>3, <2>1, <2>2 DEF BootHeartbeat, FileInv
  <2>5. BeatInv'
    BY <1>0, <1>3, <2>2 DEF BootHeartbeat, BeatInv, RecentUnlessOverridden
  <2> QED BY <2>3, <2>4, <2>5 DEF PlaceInv
<1>4. CASE BootDevices
  <2>1. NewManager("devices") /\ "devices" \in Managers
    BY <1>4 DEF BootDevices, Managers
  <2>2. loaded'["agent"] = loaded["agent"] /\ loaded'["heartbeat"] = loaded["heartbeat"]
    BY <2>1, ManagerLoads DEF Managers
  <2>3. PlaceTypeOK'
    BY <1>0, <1>4, <2>1, ManagerLoads DEF BootDevices, PlaceTypeOK, beatVars, deviceVars
  <2>4. FileInv'
    BY <1>0, <1>1, <1>4, <2>1, <2>2 DEF BootDevices, FileInv
  <2>5. BeatInv'
    BY <1>0, <1>4, <2>2 DEF BootDevices, BeatInv, RecentUnlessOverridden, beatVars
  <2> QED BY <2>3, <2>4, <2>5 DEF PlaceInv
<1> QED BY <1>2, <1>3, <1>4

\* The steps of a save, and the end of the process between any two of them.
LEMMA SaveKeeps == PlaceInv /\ (WriteTemp \/ Rename \/ SaveFails \/ ProcessEnds) => PlaceInv'
<1> SUFFICES ASSUME PlaceInv, WriteTemp \/ Rename \/ SaveFails \/ ProcessEnds PROVE PlaceInv'
  OBVIOUS
<1> USE PlaceAssumption DEF fileVars, beatVars, deviceVars, Contents, Managers
<1>0. PlaceTypeOK /\ FileInv /\ BeatInv
  BY DEF PlaceInv
<1>1. CASE WriteTemp
  BY <1>0, <1>1 DEF WriteTemp, PlaceInv, PlaceTypeOK, FileInv, BeatInv, RecentUnlessOverridden
<1>2. CASE Rename
  <2>1. loaded["agent"] \in Places
    BY <1>0, <1>2 DEF Rename, FileInv
  <2>2. PlaceTypeOK' /\ BeatInv'
    BY <1>0, <1>2, <2>1 DEF Rename, PlaceTypeOK, BeatInv, RecentUnlessOverridden
  <2>3. FileInv'
    BY <1>0, <1>2, <2>1 DEF Rename, FileInv
  <2> QED BY <2>2, <2>3 DEF PlaceInv
<1>3. CASE SaveFails
  <2>1. PlaceTypeOK'
    BY <1>0, <1>3 DEF SaveFails, PlaceTypeOK
  <2>2. FileInv' /\ BeatInv'
    BY <1>0, <1>3 DEF SaveFails, FileInv, BeatInv, RecentUnlessOverridden, Parsed
  <2> QED BY <2>1, <2>2 DEF PlaceInv
<1>4. CASE ProcessEnds
  <2>1. usb' \in Seq({"add", "remove"}) /\ Len(usb') <= DevCap
    BY <1>4 DEF ProcessEnds
  <2>2. PlaceTypeOK'
    <3>1. downs' \in 0 .. MaxDown
      BY <1>0, <1>4 DEF ProcessEnds, PlaceTypeOK
    <3>2. loaded' \in [Managers -> Places \cup {None}]
      BY <1>4 DEF ProcessEnds
    <3> QED BY <1>0, <1>4, <2>1, <3>1, <3>2 DEF ProcessEnds, PlaceTypeOK
  <2>3. FileInv' /\ BeatInv'
    BY <1>0, <1>4 DEF ProcessEnds, FileInv, BeatInv, RecentUnlessOverridden, Parsed
  <2> QED BY <2>2, <2>3 DEF PlaceInv
<1> QED BY <1>1, <1>2, <1>3, <1>4

\* SetLastChannel begins: nothing is being saved, and a place is.
LEMMA RecordFacts ==
    ASSUME PlaceInv, NEW p \in Places, Record(p), phase # "down", UNCHANGED <<phase, fileVars>>
    PROVE  /\ FileInv' /\ loaded' \in [Managers -> Places \cup {None}] /\ loaded'["agent"] = p
           /\ loaded'["heartbeat"] = loaded["heartbeat"]
           /\ save' \in {"idle", "write", "rename"} /\ pending' \in Places \cup {None}
<1>1. loaded \in [Managers -> Places \cup {None}] /\ FileInv
  BY DEF PlaceInv, PlaceTypeOK
<1>2. loaded' = [loaded EXCEPT !["agent"] = p] /\ save' = "write" /\ pending' = p
  BY DEF Record
<1>3. /\ loaded' \in [Managers -> Places \cup {None}] /\ loaded'["agent"] = p
      /\ loaded'["heartbeat"] = loaded["heartbeat"]
  BY <1>1, <1>2 DEF Managers
<1>4. FileInv'
  BY <1>1, <1>2, <1>3 DEF FileInv, fileVars, Parsed
<1> QED BY <1>2, <1>3, <1>4

\* A turn of a user records its place, one of an internal channel nothing.
LEMMA TurnKeeps == ASSUME NEW p \in Places \cup {None} PROVE PlaceInv /\ UserTurn(p) => PlaceInv'
<1> SUFFICES ASSUME PlaceInv, UserTurn(p) PROVE PlaceInv'
  OBVIOUS
<1>0. PlaceTypeOK /\ FileInv /\ BeatInv
  BY DEF PlaceInv
<1>1. recordTurns' \in 0 .. MaxRecords
  BY <1>0, PlaceAssumption DEF UserTurn, PlaceTypeOK
<1>2. CASE p = None
  <2>1. PlaceTypeOK' /\ BeatInv'
    BY <1>0, <1>1, <1>2 DEF UserTurn, PlaceTypeOK, BeatInv, RecentUnlessOverridden, fileVars, beatVars, deviceVars
  <2>2. FileInv'
    BY <1>0, <1>2 DEF UserTurn, FileInv, fileVars, Parsed
  <2> QED BY <2>1, <2>2 DEF PlaceInv
<1>3. CASE p # None
  <2>1. /\ Record(p) /\ phase # "down" /\ UNCHANGED <<phase, fileVars>> /\ p \in Places
        /\ latest' = p /\ override' = "none" /\ jobPlace' = None
    BY <1>3 DEF UserTurn
  <2>2. /\ FileInv' /\ loaded' \in [Managers -> Places \cup {None}] /\ loaded'["agent"] = p
        /\ save' \in {"idle", "write", "rename"} /\ pending' \in Places \cup {None}
    BY <2>1, RecordFacts
  <2>3. PlaceTypeOK'
    BY <1>0, <1>1, <2>1, <2>2 DEF UserTurn, PlaceTypeOK, fileVars, beatVars, deviceVars
  <2>4. BeatInv'
    BY <1>0, <2>1, <2>2 DEF UserTurn, BeatInv, RecentUnlessOverridden, beatVars
  <2> QED BY <2>2, <2>3, <2>4 DEF PlaceInv
<1> QED BY <1>2, <1>3

\* A cron job's turn records the job's place.
LEMMA JobKeeps == ASSUME NEW p \in Places PROVE PlaceInv /\ JobTurn(p) => PlaceInv'
<1> SUFFICES ASSUME PlaceInv, JobTurn(p) PROVE PlaceInv'
  OBVIOUS
<1>0. PlaceTypeOK /\ FileInv /\ BeatInv
  BY DEF PlaceInv
<1>1. recordTurns' \in 0 .. MaxRecords
  BY <1>0, PlaceAssumption DEF JobTurn, PlaceTypeOK
<1>2. /\ Record(p) /\ phase # "down" /\ UNCHANGED <<phase, fileVars>>
      /\ latest' = latest /\ override' = "job" /\ jobPlace' = p
  BY DEF JobTurn
<1>3. /\ FileInv' /\ loaded' \in [Managers -> Places \cup {None}] /\ loaded'["agent"] = p
      /\ save' \in {"idle", "write", "rename"} /\ pending' \in Places \cup {None}
  BY <1>2, RecordFacts
<1>4. PlaceTypeOK'
  BY <1>0, <1>1, <1>2, <1>3 DEF JobTurn, PlaceTypeOK, fileVars, beatVars, deviceVars
<1>5. BeatInv'
  BY <1>0, <1>2, <1>3 DEF JobTurn, BeatInv, RecentUnlessOverridden, beatVars
<1> QED BY <1>3, <1>4, <1>5 DEF PlaceInv

\* What a beat does to the record: nothing, or the place of the heartbeat's manager.
LEMMA BeatFacts ==
    ASSUME PlaceInv, heart, NEW asks \in BOOLEAN, Beat(asks), UNCHANGED <<phase, latest, fileVars>>
    PROVE  /\ FileInv' /\ RecentUnlessOverridden'
           /\ loaded' \in [Managers -> Places \cup {None}]
           /\ save' \in {"idle", "write", "rename"} /\ pending' \in Places \cup {None}
           /\ override' \in {"none", "beat", "job"} /\ jobPlace' \in Places \cup {None} /\ recordTurns' \in 0 .. MaxRecords
           /\ prompt' \in {"missing", "empty", "text"}
<1>0. PlaceTypeOK /\ FileInv /\ BeatInv /\ phase \notin {"down", "loading"}
  BY DEF PlaceInv, BeatInv
<1>1. CASE UNCHANGED <<save, loaded, pending, override, jobPlace>>
  <2>1. FileInv' /\ RecentUnlessOverridden'
    BY <1>0, <1>1 DEF FileInv, BeatInv, RecentUnlessOverridden, fileVars, Parsed
  <2> QED BY <1>0, <1>1, <2>1, PlaceAssumption DEF Beat, PlaceTypeOK
<1>2. CASE loaded["heartbeat"] # None /\ Record(loaded["heartbeat"]) /\ override' = "beat"
           /\ jobPlace' = None /\ prompt' = prompt /\ recordTurns' \in 0 .. MaxRecords
  <2>1. loaded["heartbeat"] \in Places
    BY <1>0, <1>2 DEF PlaceTypeOK, Managers
  <2>2. /\ FileInv' /\ loaded' \in [Managers -> Places \cup {None}]
        /\ loaded'["agent"] = loaded["heartbeat"] /\ loaded'["heartbeat"] = loaded["heartbeat"]
        /\ save' \in {"idle", "write", "rename"} /\ pending' \in Places \cup {None}
    BY <1>0, <1>2, <2>1, RecordFacts
  <2> QED BY <1>0, <1>2, <2>2 DEF PlaceTypeOK, RecentUnlessOverridden
<1>3. recordTurns < MaxRecords /\ recordTurns' = recordTurns + 1 => recordTurns' \in 0 .. MaxRecords
  BY <1>0, PlaceAssumption DEF PlaceTypeOK
<1> QED BY <1>1, <1>2, <1>3 DEF Beat

\* The heartbeat's timer, ticks and turns, and its stop.
LEMMA HeartKeeps == PlaceInv /\ (FirstBeat \/ Ticked \/ BeatEnds \/ StopHeart) => PlaceInv'
<1> SUFFICES ASSUME PlaceInv, FirstBeat \/ Ticked \/ BeatEnds \/ StopHeart PROVE PlaceInv'
  OBVIOUS
<1>0. PlaceTypeOK /\ FileInv /\ BeatInv
  BY DEF PlaceInv
<1>1. ASSUME heart, NEW asks \in BOOLEAN, Beat(asks), UNCHANGED <<phase, downs, latest, heart>>,
             UNCHANGED fileVars, UNCHANGED deviceVars, tick' \in BOOLEAN,
             first' \in {"none", "timer", "turn", "done"}
      PROVE  PlaceInv'
  <2>1. /\ FileInv' /\ RecentUnlessOverridden'
        /\ loaded' \in [Managers -> Places \cup {None}]
        /\ save' \in {"idle", "write", "rename"} /\ pending' \in Places \cup {None}
        /\ override' \in {"none", "beat", "job"} /\ jobPlace' \in Places \cup {None} /\ recordTurns' \in 0 .. MaxRecords
        /\ prompt' \in {"missing", "empty", "text"}
    BY <1>1, BeatFacts
  <2>a. /\ stateFile' \in Contents /\ oldFile' \in Contents /\ tempFile' \in Contents
        /\ acked' \in Places \cup {None}
    BY <1>0, <1>1 DEF PlaceTypeOK, fileVars
  <2>b. usb' \in Seq({"add", "remove"}) /\ Len(usb') <= DevCap /\ notified' \subseteq Places
    BY <1>0, <1>1 DEF PlaceTypeOK, deviceVars
  <2>c. /\ phase' \in {"down", "loading", "starting", "up"} /\ downs' \in 0 .. MaxDown
        /\ latest' \in Places \cup {None} /\ heart' \in BOOLEAN
    BY <1>0, <1>1 DEF PlaceTypeOK
  <2>2. PlaceTypeOK'
    BY <1>1, <2>1, <2>a, <2>b, <2>c DEF PlaceTypeOK
  <2>3. BeatInv'
    BY <1>0, <1>1, <2>1 DEF BeatInv
  <2> QED BY <2>1, <2>2, <2>3 DEF PlaceInv
<1>2. ASSUME UNCHANGED <<phase, loaded, save, downs, latest, override, jobPlace, recordTurns, pending>>,
             UNCHANGED fileVars, UNCHANGED deviceVars, heart' \in {heart, FALSE}, tick' \in BOOLEAN,
             first' \in {"none", "timer", "turn", "done"}, prompt' = prompt
      PROVE  PlaceInv'
  <2>a. /\ stateFile' \in Contents /\ oldFile' \in Contents /\ tempFile' \in Contents
        /\ acked' \in Places \cup {None}
    BY <1>0, <1>2 DEF PlaceTypeOK, fileVars
  <2>b. usb' \in Seq({"add", "remove"}) /\ Len(usb') <= DevCap /\ notified' \subseteq Places
    BY <1>0, <1>2 DEF PlaceTypeOK, deviceVars
  <2>c. /\ phase' \in {"down", "loading", "starting", "up"} /\ downs' \in 0 .. MaxDown
        /\ loaded' \in [Managers -> Places \cup {None}] /\ save' \in {"idle", "write", "rename"}
        /\ recordTurns' \in 0 .. MaxRecords /\ pending' \in Places \cup {None}
    BY <1>0, <1>2 DEF PlaceTypeOK
  <2>d. /\ latest' \in Places \cup {None} /\ override' \in {"none", "beat", "job"}
        /\ jobPlace' \in Places \cup {None}
        /\ heart' \in BOOLEAN /\ prompt' \in {"missing", "empty", "text"}
    BY <1>0, <1>2 DEF PlaceTypeOK
  <2>1. PlaceTypeOK'
    BY <1>2, <2>a, <2>b, <2>c, <2>d DEF PlaceTypeOK
  <2>2. FileInv'
    BY <1>0, <1>2 DEF FileInv, fileVars, Parsed
  <2>3. ~heart => ~heart'
    BY <1>2
  <2>4. RecentUnlessOverridden'
    BY <1>0, <1>2 DEF BeatInv, RecentUnlessOverridden
  <2>5. BeatInv'
    BY <1>0, <1>2, <2>3, <2>4 DEF BeatInv
  <2> QED BY <2>1, <2>2, <2>5 DEF PlaceInv
<1>3. CASE FirstBeat
  <2>1. tick' \in BOOLEAN
    BY <1>0, <1>3 DEF FirstBeat, PlaceTypeOK
  <2>2. CASE ~heart
    BY <1>2, <1>3, <2>1, <2>2 DEF FirstBeat
  <2>3. CASE heart
    <3>1. PICK asks \in BOOLEAN : Beat(asks) /\ first' = IF asks THEN "turn" ELSE "done"
      BY <1>3, <2>3 DEF FirstBeat
    <3> QED BY <1>1, <1>3, <2>1, <2>3, <3>1 DEF FirstBeat
  <2> QED BY <2>2, <2>3
<1>4. CASE Ticked
  <2>1. PICK asks \in BOOLEAN : Beat(asks) /\ tick' = asks
    BY <1>4 DEF Ticked
  <2> QED BY <1>0, <1>1, <1>4, <2>1 DEF Ticked, PlaceTypeOK
<1>5. CASE BeatEnds
  BY <1>0, <1>2, <1>5 DEF BeatEnds, PlaceTypeOK
<1>6. CASE StopHeart
  BY <1>0, <1>2, <1>6 DEF StopHeart, PlaceTypeOK
<1> QED BY <1>3, <1>4, <1>5, <1>6

\* Events of devices touch nothing but their queue and what was notified.
LEMMA DevicesKeep == PlaceInv /\ (Notify \/ \E b \in Blocks : Plug(b)) => PlaceInv'
<1> SUFFICES ASSUME PlaceInv, Notify \/ \E b \in Blocks : Plug(b) PROVE PlaceInv'
  OBVIOUS
<1>0. PlaceTypeOK /\ FileInv /\ BeatInv
  BY DEF PlaceInv
<1>1. ASSUME UNCHANGED <<phase, loaded, save, recordTurns, downs, pending, latest, override, jobPlace>>,
             UNCHANGED fileVars, UNCHANGED beatVars,
             usb' \in Seq({"add", "remove"}), Len(usb') <= DevCap, notified' \subseteq Places
      PROVE  PlaceInv'
  <2>a. /\ stateFile' \in Contents /\ oldFile' \in Contents /\ tempFile' \in Contents
        /\ acked' \in Places \cup {None}
    BY <1>0, <1>1 DEF PlaceTypeOK, fileVars
  <2>b. /\ prompt' \in {"missing", "empty", "text"} /\ heart' \in BOOLEAN /\ tick' \in BOOLEAN
        /\ first' \in {"none", "timer", "turn", "done"}
    BY <1>0, <1>1 DEF PlaceTypeOK, beatVars
  <2>c. /\ phase' \in {"down", "loading", "starting", "up"} /\ downs' \in 0 .. MaxDown
        /\ loaded' \in [Managers -> Places \cup {None}] /\ save' \in {"idle", "write", "rename"}
        /\ recordTurns' \in 0 .. MaxRecords /\ pending' \in Places \cup {None}
    BY <1>0, <1>1 DEF PlaceTypeOK
  <2>d. /\ latest' \in Places \cup {None} /\ override' \in {"none", "beat", "job"}
        /\ jobPlace' \in Places \cup {None}
    BY <1>0, <1>1 DEF PlaceTypeOK
  <2>1. PlaceTypeOK'
    BY <1>1, <2>a, <2>b, <2>c, <2>d DEF PlaceTypeOK
  <2>2. FileInv'
    BY <1>0, <1>1 DEF FileInv, fileVars, Parsed
  <2>3. BeatInv'
    BY <1>0, <1>1 DEF BeatInv, RecentUnlessOverridden, beatVars
  <2> QED BY <2>1, <2>2, <2>3 DEF PlaceInv
<1>2. usb \in Seq({"add", "remove"}) /\ Len(usb) <= DevCap /\ notified \subseteq Places /\ DevCap \in Nat
  BY <1>0, PlaceAssumption DEF PlaceTypeOK
<1>3. CASE Notify
  <2>1. usb' \in Seq({"add", "remove"}) /\ Len(usb') <= DevCap
    BY <1>2, <1>3 DEF Notify
  <2>2. loaded["devices"] \in Places \cup {None}
    BY <1>0 DEF PlaceTypeOK, Managers
  <2>3. notified' \subseteq Places
    BY <1>2, <1>3, <2>2 DEF Notify
  <2> QED BY <1>1, <1>3, <2>1, <2>3 DEF Notify
<1>4. ASSUME NEW b \in Blocks, Plug(b) PROVE PlaceInv'
  <2>1. b.action \in {"add", "remove"}
    BY <1>4 DEF Plug, Reported
  <2>2. usb' \in Seq({"add", "remove"}) /\ Len(usb') <= DevCap
    BY <1>2, <1>4, <2>1 DEF Plug
  <2>3. notified' \subseteq Places
    BY <1>2, <1>4 DEF Plug
  <2> QED BY <1>1, <1>4, <2>2, <2>3 DEF Plug
<1> QED BY <1>3, <1>4

\* Every step preserves the invariant.
LEMMA PlaceStep == PlaceInv /\ [PlaceNext]_placeVars => PlaceInv'
<1> SUFFICES ASSUME PlaceInv, [PlaceNext]_placeVars PROVE PlaceInv'
  OBVIOUS
<1>1. CASE UNCHANGED placeVars
  <2>1. PlaceTypeOK'
    BY <1>1 DEF PlaceInv, PlaceTypeOK, placeVars
  <2>2. FileInv'
    BY <1>1 DEF PlaceInv, FileInv, placeVars, Parsed
  <2>3. BeatInv'
    BY <1>1 DEF PlaceInv, BeatInv, RecentUnlessOverridden, placeVars
  <2> QED BY <2>1, <2>2, <2>3 DEF PlaceInv
<1> QED BY <1>1, BootKeeps, SaveKeeps, TurnKeeps, JobKeeps, HeartKeeps, DevicesKeep DEF PlaceNext

\* Types of the managers, their file and the services that read it (pkg/state,
\* pkg/heartbeat, pkg/devices).
THEOREM PlaceTypeCorrect == PlaceSpec => []PlaceTypeOK
<1>1. PlaceInv => PlaceTypeOK
  BY DEF PlaceInv
<1> QED BY <1>1, PlaceStart, PlaceStep, PTL DEF PlaceSpec

\* No crash and no failed save costs the last channel that was acknowledged (saveAtomic).
THEOREM StateFileSurvives == PlaceSpec => []FileSurvives
<1>1. PlaceInv => FileSurvives
  <2>1. PlaceInv => acked # Torn
    BY PlaceAssumption DEF PlaceInv, PlaceTypeOK
  <2> QED BY <2>1 DEF PlaceInv, FileInv, FileSurvives
<1> QED BY <1>1, PlaceStart, PlaceStep, PTL DEF PlaceSpec

\* The recorded place is that of the latest turn of a user, unless a heartbeat recorded the
\* one its own manager has, or a cron job the one it names (runAgentLoop,
\* executeHeartbeat, ExecuteJob).
THEOREM RecentPlace == PlaceSpec => []RecentUnlessOverridden
<1>1. PlaceInv => RecentUnlessOverridden
  BY DEF PlaceInv, BeatInv
<1> QED BY <1>1, PlaceStart, PlaceStep, PTL DEF PlaceSpec

-----------------------------------------------------------------------------
\* The web channel.

\* The queue of each client, and the turns, have room for what the bounds allow.
TurnType ==
    /\ serving \in {"off", "on", "stopped"} /\ posted \in Nat /\ turns \in Nat /\ posted + turns <= MaxChats
    /\ turnOpen \in BOOLEAN /\ toolStep \in [Tools -> 0 .. 2]
StreamType ==
    /\ ring \in Seq([id : 0 .. MaxChats, by : Emitters])
    /\ inHand \in [Emitters -> 0 .. Len(ring)]
    /\ online \subseteq Clients /\ streams \in 0 .. MaxStreams
    /\ stream \in [Clients -> Seq(1 .. Len(ring))] /\ taken \in [Clients -> Nat]
    /\ \A c \in Clients : Queued(c) \in 0 .. SubSize
    /\ since \in [Clients -> 0 .. Len(ring)]
    /\ between \in [Clients -> SUBSET (1 .. Len(ring))]
    /\ dropped \in [Clients -> SUBSET (1 .. Len(ring))]

\* What an emitter has not sent yet is its newest event.
InHandNewest ==
    \A e \in Emitters : inHand[e] # 0 =>
        /\ ring[inHand[e]].by = e
        /\ \A n \in DOMAIN ring : ring[n].by = e => n <= inHand[e]

\* Who has it already got it by the replay.
HandedTwice ==
    \A c \in online : \A e \in Emitters, i \in DOMAIN stream[c] :
        stream[c][i] = inHand[e] => inHand[e] \in between[c]

WebInv == TurnType /\ StreamType /\ InHandNewest /\ HandedTwice /\ StreamWhole /\ StreamOrdered

LEMMA SmallestElement ==
    ASSUME NEW T \in SUBSET Nat, T # {}
    PROVE  \E n \in T : \A k \in T : n <= k
<1>1. IsWellFoundedOn(OpToRel(<, Nat), Nat)
  BY NatLessThanWellFounded
<1>2. PICK n \in T : \A k \in T : <<k, n>> \notin OpToRel(<, Nat)
  BY <1>1, WFMin
<1>3. \A k \in T : ~(k < n)
  BY <1>2 DEF OpToRel
<1> QED
  BY <1>3

LEMMA LargestElement ==
    ASSUME NEW L \in Nat, NEW S \in SUBSET (0 .. L), S # {}
    PROVE  Max(S) \in S
<1> DEFINE T == {L - n : n \in S}
<1>1. \A n \in S : n \in Nat /\ n <= L /\ L - n \in Nat
  OBVIOUS
<1>2. T \in SUBSET Nat /\ T # {}
  BY <1>1
<1>3. PICK k \in T : \A m \in T : k <= m
  BY <1>2, SmallestElement
<1>4. PICK x \in S : k = L - x
  BY <1>3
<1>5. ASSUME NEW y \in S PROVE x >= y
  <2>1. L - y \in T
    BY <1>5
  <2>2. L - x <= L - y
    BY <1>3, <1>4, <2>1
  <2> QED
    BY <1>1, <2>2
<1> QED
  BY <1>5 DEF Max

\* Subscribe sends the events after the cursor, one after the other.
LEMMA ReplayedFacts ==
    ASSUME StreamType, NEW from
    PROVE  /\ Cursor(from) \in 0 .. Len(ring)
           /\ Replayed(from) \in Seq(1 .. Len(ring))
           /\ Len(Replayed(from)) = IF Cursor(from) = 0 THEN 0 ELSE Len(ring) - Cursor(from)
           /\ \A i \in 1 .. Len(Replayed(from)) : Replayed(from)[i] = Cursor(from) + i
<1> DEFINE L == Len(ring)
           K == Cursor(from)
           Ids == [n \in DOMAIN ring |-> n]
           S == {0} \cup {n \in Kept : ring[n].id = from}
<1>1. L \in Nat /\ DOMAIN ring = 1 .. L
  BY DEF StreamType
<1>2. S \in SUBSET (0 .. L) /\ S # {}
  BY <1>1 DEF Kept
<1> HIDE DEF S
<1>3. Max(S) \in 0 .. L
  BY <1>1, <1>2, LargestElement
<1>4. K \in 0 .. L
  BY <1>1, <1>3 DEF Cursor, S
<1>5. CASE K = 0
  BY <1>1, <1>4, <1>5 DEF Replayed
<1>6. CASE K # 0
  <2>1. Replayed(from) = SubSeq(Ids, K + 1, L)
    BY <1>6 DEF Replayed
  <2>2. Ids \in Seq(1 .. L) /\ Len(Ids) = L /\ \A i \in 1 .. L : Ids[i] = i
    BY <1>1
  <2> HIDE DEF Ids, K, L
  <2>3. K + 1 \in 1 .. L + 1 /\ L \in 0 .. L /\ K \in Nat
    BY <1>1, <1>4
  <2>4. /\ SubSeq(Ids, K + 1, L) \in Seq(1 .. L)
        /\ Len(SubSeq(Ids, K + 1, L)) = IF K + 1 <= L THEN L - (K + 1) + 1 ELSE 0
        /\ \A i \in 1 .. L - (K + 1) + 1 : SubSeq(Ids, K + 1, L)[i] = Ids[K + 1 + i - 1]
    <3>1. K + 1 \in Int /\ L \in Int
      BY <2>3, <1>1
    <3>2. \A i \in K + 1 .. L : Ids[i] \in 1 .. L
      BY <2>2, <2>3
    <3> QED
      BY <3>1, <3>2, SubSeqProperties
  <2>5. Len(SubSeq(Ids, K + 1, L)) = L - K
    BY <1>1, <1>4, <2>4
  <2>6. ASSUME NEW i \in 1 .. L - K PROVE SubSeq(Ids, K + 1, L)[i] = K + i
    <3>1. i \in 1 .. L - (K + 1) + 1 /\ K + 1 + i - 1 = K + i /\ K + i \in 1 .. L
      BY <1>1, <2>3, <2>6
    <3> QED
      BY <2>2, <2>4, <3>1
  <2> QED
    BY <1>4, <1>6, <2>1, <2>4, <2>5, <2>6 DEF L, K
<1> QED
  BY <1>5, <1>6

\* What the channel has room for is the beginning of it.
LEMMA FittingFacts ==
    ASSUME NEW T, NEW s \in Seq(T)
    PROVE  /\ Fitting(s) \in Seq(T)
           /\ Len(Fitting(s)) = IF Len(s) < SubSize THEN Len(s) ELSE SubSize
           /\ \A i \in 1 .. Len(Fitting(s)) : Fitting(s)[i] = s[i]
<1> DEFINE m == IF Len(s) < SubSize THEN Len(s) ELSE SubSize
<1>1. m \in 0 .. Len(s) /\ Len(s) \in Nat /\ m \in Nat
  BY WebAssumption
<1>2. Fitting(s) = SubSeq(s, 1, m)
  BY DEF Fitting
<1> HIDE DEF m
<1>3. /\ SubSeq(s, 1, m) \in Seq(T)
      /\ Len(SubSeq(s, 1, m)) = IF 1 <= m THEN m - 1 + 1 ELSE 0
      /\ \A i \in 1 .. m - 1 + 1 : SubSeq(s, 1, m)[i] = s[1 + i - 1]
  BY <1>1, SubSeqProperties
<1>4. Len(SubSeq(s, 1, m)) = m
  BY <1>1, <1>3
<1>5. ASSUME NEW i \in 1 .. m PROVE SubSeq(s, 1, m)[i] = s[i]
  <2>1. i \in 1 .. m - 1 + 1 /\ 1 + i - 1 = i
    BY <1>1, <1>5
  <2> QED
    BY <1>3, <2>1
<1> QED
  BY <1>2, <1>3, <1>4, <1>5 DEF m

LEMMA WiderSeq ==
    ASSUME NEW S, NEW T, S \subseteq T, NEW s \in Seq(S)
    PROVE  s \in Seq(T)
<1>1. Len(s) \in Nat /\ s = [i \in 1 .. Len(s) |-> s[i]] /\ \A i \in 1 .. Len(s) : s[i] \in T
  OBVIOUS
<1> QED
  BY <1>1

\* An event that is appended to the ring changes nothing for who is subscribed.
LEMMA BufferStep ==
    ASSUME WebInv, NEW e \in Emitters, NEW id \in 0 .. MaxChats, Buffer(e, id), UNCHANGED clientVars
    PROVE  StreamType' /\ InHandNewest' /\ HandedTwice' /\ StreamWhole' /\ StreamOrdered'
<1> DEFINE L == Len(ring)
<1>1. /\ ring \in Seq([id : 0 .. MaxChats, by : Emitters]) /\ inHand \in [Emitters -> 0 .. L] /\ L \in Nat
      /\ DOMAIN ring = 1 .. L
  BY DEF WebInv, StreamType
<1>2. ring' = Append(ring, [id |-> id, by |-> e]) /\ inHand' = [inHand EXCEPT ![e] = L + 1] /\ inHand[e] = 0
  BY DEF Buffer
<1>3. ring' \in Seq([id : 0 .. MaxChats, by : Emitters]) /\ Len(ring') = L + 1
  BY <1>1, <1>2
<1>4. DOMAIN ring' = 1 .. L + 1 /\ ring'[L + 1].by = e /\ \A i \in 1 .. L : ring'[i] = ring[i]
  BY <1>1, <1>2
<1>5. inHand'[e] = L + 1 /\ \A x \in Emitters : x # e => inHand'[x] = inHand[x]
  BY <1>1, <1>2
<1>6. /\ stream' = stream /\ online' = online /\ taken' = taken /\ streams' = streams /\ since' = since
      /\ between' = between /\ dropped' = dropped
  BY DEF clientVars
<1>7. /\ stream \in [Clients -> Seq(1 .. L)] /\ online \subseteq Clients
      /\ \A c \in Clients : DOMAIN stream[c] = 1 .. Len(stream[c]) /\ \A i \in DOMAIN stream[c] : stream[c][i] \in 1 .. L
  <2>1. stream \in [Clients -> Seq(1 .. L)] /\ online \subseteq Clients
    BY DEF WebInv, StreamType
  <2>2. ASSUME NEW c \in Clients
        PROVE  DOMAIN stream[c] = 1 .. Len(stream[c]) /\ \A i \in DOMAIN stream[c] : stream[c][i] \in 1 .. L
    <3>1. stream[c] \in Seq(1 .. L)
      BY <2>1
    <3> QED
      BY <3>1
  <2> QED
    BY <2>1, <2>2
<1> HIDE DEF L
<1>8. StreamType'
  <2>1. 1 .. L \subseteq 1 .. L + 1 /\ 0 .. L \subseteq 0 .. L + 1
    BY <1>1
  <2>2. stream \in [Clients -> Seq(1 .. L + 1)]
    BY <1>7, <2>1, WiderSeq
  <2>3. inHand' \in [Emitters -> 0 .. L + 1]
    BY <1>1, <1>2, <2>1
  <2>4. since \in [Clients -> 0 .. L] /\ between \in [Clients -> SUBSET (1 .. L)] /\ dropped \in [Clients -> SUBSET (1 .. L)]
    BY DEF WebInv, StreamType, L
  <2>5. since \in [Clients -> 0 .. L + 1] /\ between \in [Clients -> SUBSET (1 .. L + 1)]
        /\ dropped \in [Clients -> SUBSET (1 .. L + 1)]
    BY <2>1, <2>4
  <2> QED
    BY <1>3, <1>6, <2>2, <2>3, <2>5 DEF WebInv, StreamType, Queued
<1>9. InHandNewest'
  <2>1. SUFFICES ASSUME NEW x \in Emitters, inHand'[x] # 0
                 PROVE  /\ ring'[inHand'[x]].by = x
                        /\ \A n \in 1 .. L + 1 : ring'[n].by = x => n <= inHand'[x]
    BY <1>4 DEF InHandNewest
  <2>2. CASE x = e
    BY <1>1, <1>4, <1>5, <2>2
  <2>3. CASE x # e
    <3>0. inHand'[x] = inHand[x] /\ inHand[x] \in 1 .. L
      BY <1>1, <1>5, <2>1, <2>3
    <3>1. /\ ring[inHand[x]].by = x
          /\ \A n \in 1 .. L : ring[n].by = x => n <= inHand[x]
      BY <1>1, <2>1, <3>0 DEF WebInv, InHandNewest
    <3>2. \A n \in 1 .. L + 1 : n \in 1 .. L \/ n = L + 1
      BY <1>1
    <3> QED
      BY <1>4, <2>3, <3>0, <3>1, <3>2
  <2> QED
    BY <2>2, <2>3
<1>10. HandedTwice'
  <2>1. \A n \in 1 .. L : n # L + 1
    BY <1>1
  <2> QED
    BY <1>5, <1>6, <1>7, <2>1 DEF WebInv, HandedTwice
<1>11. StreamWhole'
  <2>1. SUFFICES ASSUME NEW c \in online, NEW n \in since[c] + 1 .. L + 1
                 PROVE  \/ \E i \in DOMAIN stream[c] : stream[c][i] = n
                        \/ n \in Unsent' \cup dropped[c]
    BY <1>3, <1>6 DEF StreamWhole
  <2>2. CASE n = L + 1
    BY <1>1, <1>5, <2>2 DEF Unsent
  <2>3. CASE n # L + 1
    <3>1. since[c] \in 0 .. L
      BY <1>7 DEF WebInv, StreamType, L
    <3>2. n \in since[c] + 1 .. L
      BY <1>1, <2>1, <2>3, <3>1
    <3>3. \/ \E i \in DOMAIN stream[c] : stream[c][i] = n
          \/ n \in Unsent \cup dropped[c]
      BY <2>1, <3>2 DEF WebInv, StreamWhole, L
    <3>4. n # 0
      BY <3>1, <3>2
    <3>5. Unsent \subseteq Unsent'
      BY <1>2, <1>5 DEF Unsent
    <3> QED
      BY <3>3, <3>5
  <2> QED
    BY <2>2, <2>3
<1>12. StreamOrdered'
  <2>1. \A c \in online : \A i \in DOMAIN stream[c] : ring'[stream[c][i]] = ring[stream[c][i]]
    BY <1>4, <1>7
  <2> QED
    BY <1>6, <2>1 DEF WebInv, StreamOrdered
<1> QED
  BY <1>8, <1>9, <1>10, <1>11, <1>12

\* What an emitter sends is new to who is subscribed, or was replayed to him.
LEMMA FanOutStep ==
    ASSUME WebInv, NEW e \in Emitters, FanOut(e)
    PROVE  StreamType' /\ InHandNewest' /\ HandedTwice' /\ StreamWhole' /\ StreamOrdered'
<1> DEFINE L == Len(ring)
           n == inHand[e]
<1>1. /\ ring \in Seq([id : 0 .. MaxChats, by : Emitters]) /\ inHand \in [Emitters -> 0 .. L] /\ L \in Nat
      /\ DOMAIN ring = 1 .. L
  BY DEF WebInv, StreamType
<1>2. n \in 1 .. L /\ ring[n].by = e /\ \A m \in 1 .. L : ring[m].by = e => m <= n
  BY <1>1 DEF FanOut, WebInv, InHandNewest
<1>3. /\ inHand' = [inHand EXCEPT ![e] = 0] /\ ring' = ring /\ online' = online /\ taken' = taken
      /\ streams' = streams /\ since' = since /\ between' = between
  BY DEF FanOut
<1>4. /\ stream' = [c \in Clients |-> IF c \in online /\ Queued(c) < SubSize THEN Append(stream[c], n) ELSE stream[c]]
      /\ dropped' = [c \in Clients |-> IF c \in online /\ Queued(c) >= SubSize
                                       THEN dropped[c] \cup {n} ELSE dropped[c]]
  BY DEF FanOut
<1>5. /\ stream \in [Clients -> Seq(1 .. L)] /\ online \subseteq Clients /\ taken \in [Clients -> Nat]
      /\ \A c \in Clients : Queued(c) \in 0 .. SubSize
      /\ dropped \in [Clients -> SUBSET (1 .. L)]
  BY DEF WebInv, StreamType
<1> HIDE DEF L, n
<1>6. ASSUME NEW c \in Clients
      PROVE  /\ stream[c] \in Seq(1 .. L) /\ Append(stream[c], n) \in Seq(1 .. L)
             /\ Len(stream[c]) \in Nat /\ DOMAIN stream[c] = 1 .. Len(stream[c])
             /\ Len(Append(stream[c], n)) = Len(stream[c]) + 1
             /\ DOMAIN Append(stream[c], n) = 1 .. Len(stream[c]) + 1
             /\ Append(stream[c], n)[Len(stream[c]) + 1] = n
             /\ \A i \in 1 .. Len(stream[c]) : Append(stream[c], n)[i] = stream[c][i]
             /\ \A i \in 1 .. Len(stream[c]) : stream[c][i] \in 1 .. L
  <2>1. stream[c] \in Seq(1 .. L) /\ n \in 1 .. L
    BY <1>2, <1>5
  <2>a. Len(stream[c]) \in Nat /\ DOMAIN stream[c] = 1 .. Len(stream[c])
    BY <2>1
  <2>2. \A i \in 1 .. Len(stream[c]) : stream[c][i] \in 1 .. L
    BY <2>1, ElementOfSeq
  <2>3. /\ Append(stream[c], n) \in Seq(1 .. L) /\ Len(Append(stream[c], n)) = Len(stream[c]) + 1
        /\ Append(stream[c], n)[Len(stream[c]) + 1] = n
        /\ \A i \in 1 .. Len(stream[c]) : Append(stream[c], n)[i] = stream[c][i]
    BY <2>1, AppendProperties
  <2>4. DOMAIN Append(stream[c], n) = 1 .. Len(stream[c]) + 1
    BY <2>3
  <2> QED
    BY <2>1, <2>a, <2>2, <2>3, <2>4
<1>7. inHand'[e] = 0 /\ \A x \in Emitters : x # e => inHand'[x] = inHand[x]
  BY <1>1, <1>3
<1>8. \A x \in Emitters : x # e => inHand[x] # n
  BY <1>1, <1>2 DEF WebInv, InHandNewest
<1>9. StreamType'
  <2>1. stream' \in [Clients -> Seq(1 .. L)]
    BY <1>4, <1>6
  <2>2. inHand' \in [Emitters -> 0 .. L]
    BY <1>1, <1>3
  <2>3. dropped' \in [Clients -> SUBSET (1 .. L)]
    BY <1>2, <1>4, <1>5
  <2>4. ASSUME NEW c \in Clients PROVE Queued(c)' \in 0 .. SubSize
    <3>1. CASE c \in online /\ Queued(c) < SubSize
      <4>1. stream'[c] = Append(stream[c], n) /\ Queued(c) \in 0 .. SubSize /\ Queued(c) = Len(stream[c]) - taken[c]
            /\ taken[c] \in Nat
        BY <1>4, <1>5, <3>1 DEF Queued
      <4>2. Queued(c)' = Queued(c) + 1
        BY <1>3, <1>6, <4>1 DEF Queued
      <4> QED
        BY <3>1, <4>1, <4>2, WebAssumption
    <3>2. CASE ~(c \in online /\ Queued(c) < SubSize)
      BY <1>3, <1>4, <1>5, <3>2 DEF Queued
    <3> QED
      BY <3>1, <3>2
  <2> QED
    BY <1>3, <2>1, <2>2, <2>3, <2>4 DEF WebInv, StreamType, L
<1>10. InHandNewest'
  BY <1>3, <1>7 DEF WebInv, InHandNewest
<1>11. HandedTwice'
  <2>1. SUFFICES ASSUME NEW c \in online, NEW x \in Emitters, NEW i \in DOMAIN stream'[c], stream'[c][i] = inHand'[x]
                 PROVE  inHand'[x] \in between[c]
    BY <1>3 DEF HandedTwice
  <2>2. c \in Clients
    BY <1>5
  <2>3. stream'[c] = Append(stream[c], n) \/ stream'[c] = stream[c]
    BY <1>4, <2>2
  <2>4. i \in 1 .. Len(stream[c]) \/ (i = Len(stream[c]) + 1 /\ stream'[c][i] = n)
    <3>1. CASE stream'[c] = stream[c]
      BY <1>6, <2>2, <3>1
    <3>2. CASE stream'[c] = Append(stream[c], n)
      <4>1. i \in 1 .. Len(stream[c]) + 1 /\ Len(stream[c]) \in Nat
        BY <1>6, <2>2, <3>2
      <4>2. i \in 1 .. Len(stream[c]) \/ i = Len(stream[c]) + 1
        BY <4>1
      <4> QED
        BY <1>6, <2>2, <3>2, <4>2
    <3> QED
      BY <2>3, <3>1, <3>2
  <2>5. stream'[c][i] # 0
    <3>1. \A m \in 1 .. L : m # 0
      OBVIOUS
    <3> QED
      BY <1>2, <1>6, <2>2, <2>3, <2>4, <3>1
  <2>6. x # e
    BY <1>7, <2>1, <2>5
  <2>7. inHand'[x] = inHand[x] /\ inHand[x] # n
    BY <1>7, <1>8, <2>6
  <2>8. i \in 1 .. Len(stream[c])
    BY <2>1, <2>4, <2>7
  <2>9. stream'[c][i] = stream[c][i]
    BY <1>6, <2>2, <2>3, <2>8
  <2>10. i \in DOMAIN stream[c]
    BY <1>6, <2>2, <2>8
  <2> QED
    BY <2>1, <2>7, <2>9, <2>10 DEF WebInv, HandedTwice
<1>12. StreamWhole'
  <2>1. SUFFICES ASSUME NEW c \in online, NEW m \in since[c] + 1 .. L
                 PROVE  \/ \E i \in DOMAIN stream'[c] : stream'[c][i] = m
                        \/ m \in Unsent' \cup dropped'[c]
    BY <1>3 DEF StreamWhole, L
  <2>2. c \in Clients
    BY <1>5
  <2>3. \/ \E i \in DOMAIN stream[c] : stream[c][i] = m
        \/ m \in Unsent \cup dropped[c]
    BY <2>1 DEF WebInv, StreamWhole, L
  <2>4. m \in dropped[c] => m \in dropped'[c]
    BY <1>4, <2>2
  <2>5. ASSUME NEW i \in DOMAIN stream[c], stream[c][i] = m
        PROVE  \E k \in DOMAIN stream'[c] : stream'[c][k] = m
    <3>1. i \in DOMAIN stream'[c] /\ stream'[c][i] = stream[c][i]
      <4>1. i \in 1 .. Len(stream[c]) /\ i \in 1 .. Len(stream[c]) + 1
        BY <1>6, <2>2, <2>5
      <4>2. stream'[c] = Append(stream[c], n) \/ stream'[c] = stream[c]
        BY <1>4, <2>2
      <4> QED
        BY <1>6, <2>2, <4>1, <4>2
    <3> QED
      BY <2>5, <3>1
  <2>6. ASSUME m \in Unsent, m # n PROVE m \in Unsent'
    <3>1. PICK x \in Emitters : m = inHand[x]
      BY <2>6 DEF Unsent
    <3>2. x # e /\ m # 0
      BY <2>6, <3>1 DEF n, Unsent
    <3> QED
      BY <1>7, <3>1, <3>2 DEF Unsent
  <2>7. ASSUME m = n PROVE (\E i \in DOMAIN stream'[c] : stream'[c][i] = m) \/ m \in dropped'[c]
    <3>1. CASE Queued(c) < SubSize
      <4>1. stream'[c] = Append(stream[c], n)
        BY <1>4, <2>2, <3>1
      <4>2. Len(stream[c]) + 1 \in 1 .. Len(stream[c]) + 1
        BY <1>6, <2>2
      <4> QED
        BY <1>6, <2>2, <2>7, <4>1, <4>2
    <3>2. CASE Queued(c) >= SubSize
      BY <1>4, <2>2, <2>7, <3>2
    <3>3. Queued(c) \in Nat /\ SubSize \in Nat
      BY <1>5, <2>2, WebAssumption
    <3> QED
      BY <3>1, <3>2, <3>3
  <2> QED
    BY <2>3, <2>4, <2>5, <2>6, <2>7
<1>13. StreamOrdered'
  <2>1. SUFFICES ASSUME NEW c \in online, NEW i \in DOMAIN stream'[c], NEW j \in DOMAIN stream'[c], i < j,
                        ring[stream'[c][i]].by = ring[stream'[c][j]].by, stream'[c][j] \notin between[c]
                 PROVE  stream'[c][i] < stream'[c][j]
    BY <1>3 DEF StreamOrdered
  <2>2. c \in Clients
    BY <1>5
  <2>3. CASE stream'[c] = stream[c]
    BY <2>1, <2>3 DEF WebInv, StreamOrdered
  <2>4. CASE stream'[c] = Append(stream[c], n)
    <3>1. i \in 1 .. Len(stream[c]) + 1 /\ j \in 1 .. Len(stream[c]) + 1 /\ Len(stream[c]) \in Nat
      BY <1>6, <2>2, <2>4
    <3>2. i \in 1 .. Len(stream[c])
      BY <2>1, <3>1
    <3>3. stream'[c][i] = stream[c][i] /\ stream[c][i] \in 1 .. L /\ i \in DOMAIN stream[c]
      BY <1>6, <2>2, <2>4, <3>2
    <3>4. CASE j = Len(stream[c]) + 1
      <4>1. stream'[c][j] = n
        BY <1>6, <2>2, <2>4, <3>4
      <4>2. stream[c][i] <= n
        BY <1>2, <2>1, <3>3, <4>1
      <4>3. stream[c][i] # n
        BY <2>1, <3>3, <4>1 DEF WebInv, HandedTwice, n
      <4> QED
        BY <1>2, <3>3, <4>1, <4>2, <4>3
    <3>5. CASE j \in 1 .. Len(stream[c])
      <4>1. stream'[c][j] = stream[c][j] /\ j \in DOMAIN stream[c]
        BY <1>6, <2>2, <2>4, <3>5
      <4> QED
        BY <2>1, <3>3, <4>1 DEF WebInv, StreamOrdered
    <3> QED
      BY <3>1, <3>4, <3>5
  <2> QED
    BY <1>4, <2>2, <2>3, <2>4
<1> QED
  BY <1>9, <1>10, <1>11, <1>12, <1>13

\* Who subscribes gets what the ring holds after his cursor, or it is dropped.
LEMMA SubscribeStep ==
    ASSUME WebInv, NEW c \in Clients, NEW from, Subscribe(c, from), UNCHANGED emitVars, streams' \in 0 .. MaxStreams
    PROVE  StreamType' /\ InHandNewest' /\ HandedTwice' /\ StreamWhole' /\ StreamOrdered'
<1> DEFINE L == Len(ring)
           K == Cursor(from)
           R == Replayed(from)
           F == Fitting(R)
<1>1. StreamType /\ L \in Nat /\ inHand \in [Emitters -> 0 .. L] /\ DOMAIN ring = 1 .. L
  BY DEF WebInv, StreamType
<1>2. /\ K \in 0 .. L /\ R \in Seq(1 .. L) /\ Len(R) = (IF K = 0 THEN 0 ELSE L - K)
      /\ \A i \in 1 .. Len(R) : R[i] = K + i
  BY <1>1, ReplayedFacts
<1>3. /\ F \in Seq(1 .. L) /\ Len(F) = (IF Len(R) < SubSize THEN Len(R) ELSE SubSize)
      /\ \A i \in 1 .. Len(F) : F[i] = R[i]
  BY <1>2, FittingFacts
<1>4. /\ ring' = ring /\ inHand' = inHand /\ online' = online \cup {c}
      /\ stream' = [stream EXCEPT ![c] = F] /\ taken' = [taken EXCEPT ![c] = 0]
      /\ dropped' = [dropped EXCEPT ![c] = {R[i] : i \in SubSize + 1 .. Len(R)}]
      /\ since' = [since EXCEPT ![c] = IF K = 0 THEN L ELSE K]
      /\ between' = [between EXCEPT ![c] = Unsent]
  BY DEF Subscribe, emitVars
<1>5. /\ stream \in [Clients -> Seq(1 .. L)] /\ online \subseteq Clients /\ taken \in [Clients -> Nat]
      /\ since \in [Clients -> 0 .. L] /\ between \in [Clients -> SUBSET (1 .. L)]
      /\ dropped \in [Clients -> SUBSET (1 .. L)]
  BY DEF WebInv, StreamType
<1>6. StreamType /\ SubSize \in Nat \ {0} /\ Unsent' = Unsent
  BY <1>1, <1>4, WebAssumption DEF Unsent
<1> HIDE DEF L, K, R, F
<1>7. Len(R) \in Nat /\ Len(F) \in 0 .. SubSize /\ Len(F) <= Len(R) /\ DOMAIN F = 1 .. Len(F)
  BY <1>2, <1>3, <1>6
<1>8. StreamType'
  <2>1. {R[i] : i \in SubSize + 1 .. Len(R)} \subseteq 1 .. L
    <3>1. ASSUME NEW i \in SubSize + 1 .. Len(R) PROVE R[i] \in 1 .. L
      <4>1. i \in 1 .. Len(R)
        BY <1>6, <1>7, <3>1
      <4> QED
        BY <1>2, <4>1, ElementOfSeq
    <3> QED
      BY <3>1
  <2>2. Unsent \subseteq 1 .. L
    BY <1>1 DEF Unsent
  <2>3. (IF K = 0 THEN L ELSE K) \in 0 .. L
    BY <1>1, <1>2
  <2>4. /\ stream' \in [Clients -> Seq(1 .. L)] /\ taken' \in [Clients -> Nat] /\ online' \subseteq Clients
    BY <1>3, <1>4, <1>5
  <2>5. dropped' \in [Clients -> SUBSET (1 .. L)]
    BY <1>4, <1>5, <2>1
  <2>6. between' \in [Clients -> SUBSET (1 .. L)]
    BY <1>4, <1>5, <2>2
  <2>7. since' \in [Clients -> 0 .. L]
    BY <1>4, <1>5, <2>3
  <2>8. ASSUME NEW d \in Clients PROVE Queued(d)' \in 0 .. SubSize
    <3>1. CASE d = c
      <4>1. stream'[d] = F /\ taken'[d] = 0
        BY <1>4, <1>5, <3>1
      <4> QED
        BY <1>7, <4>1 DEF Queued
    <3>2. CASE d # c
      <4>1. stream'[d] = stream[d] /\ taken'[d] = taken[d]
        BY <1>4, <1>5, <3>2
      <4> QED
        BY <1>6, <4>1 DEF Queued, StreamType
    <3> QED
      BY <3>1, <3>2
  <2> QED
    BY <1>4, <1>6, <2>4, <2>5, <2>6, <2>7, <2>8 DEF StreamType, L
<1>9. InHandNewest'
  BY <1>4 DEF WebInv, InHandNewest
<1>10. \A d \in online' : d \in Clients /\ (d # c => /\ d \in online /\ stream'[d] = stream[d] /\ since'[d] = since[d]
                                                    /\ between'[d] = between[d] /\ dropped'[d] = dropped[d])
  BY <1>4, <1>5
<1>11. /\ stream'[c] = F /\ since'[c] = (IF K = 0 THEN L ELSE K) /\ between'[c] = Unsent
       /\ dropped'[c] = {R[i] : i \in SubSize + 1 .. Len(R)}
  BY <1>4, <1>5
<1>12. \A i \in 1 .. Len(F) : F[i] = K + i /\ F[i] # 0
  <2>1. ASSUME NEW i \in 1 .. Len(F) PROVE F[i] = K + i /\ F[i] # 0
    <3>1. i \in 1 .. Len(R)
      BY <1>7, <2>1
    <3>2. F[i] = K + i
      BY <1>2, <1>3, <2>1, <3>1
    <3> QED
      BY <1>2, <2>1, <3>2
  <2> QED
    BY <2>1
<1>13. HandedTwice'
  <2>1. SUFFICES ASSUME NEW d \in online', NEW x \in Emitters, NEW i \in DOMAIN stream'[d], stream'[d][i] = inHand[x]
                 PROVE  inHand[x] \in between'[d]
    BY <1>4 DEF HandedTwice
  <2>2. CASE d = c
    BY <1>7, <1>11, <1>12, <2>1, <2>2 DEF Unsent
  <2>3. CASE d # c
    BY <1>10, <2>1, <2>3 DEF WebInv, HandedTwice
  <2> QED
    BY <2>2, <2>3
<1>14. StreamWhole'
  <2>1. SUFFICES ASSUME NEW d \in online', NEW n \in since'[d] + 1 .. L
                 PROVE  \/ \E i \in DOMAIN stream'[d] : stream'[d][i] = n
                        \/ n \in Unsent \cup dropped'[d]
    BY <1>4, <1>6 DEF StreamWhole, L
  <2>2. CASE d = c
    <3>1. K # 0
      BY <1>1, <1>11, <2>1, <2>2
    <3>2. n - K \in 1 .. Len(R) /\ n = K + (n - K)
      BY <1>1, <1>2, <1>11, <2>1, <2>2, <3>1
    <3>3. CASE n - K \in 1 .. Len(F)
      BY <1>7, <1>11, <1>12, <2>2, <3>2, <3>3
    <3>4. CASE n - K \in SubSize + 1 .. Len(R)
      <4>1. R[n - K] = n
        BY <1>2, <3>2
      <4> QED
        BY <1>11, <2>2, <3>4, <4>1
    <3>5. n - K \in 1 .. Len(F) \/ n - K \in SubSize + 1 .. Len(R)
      BY <1>3, <1>6, <1>7, <3>2
    <3> QED
      BY <3>3, <3>4, <3>5
  <2>3. CASE d # c
    BY <1>10, <2>1, <2>3 DEF WebInv, StreamWhole, L
  <2> QED
    BY <2>2, <2>3
<1>15. StreamOrdered'
  <2>1. SUFFICES ASSUME NEW d \in online', NEW i \in DOMAIN stream'[d], NEW j \in DOMAIN stream'[d], i < j,
                        ring[stream'[d][i]].by = ring[stream'[d][j]].by, stream'[d][j] \notin between'[d]
                 PROVE  stream'[d][i] < stream'[d][j]
    BY <1>4 DEF StreamOrdered
  <2>2. CASE d = c
    <3>1. i \in 1 .. Len(F) /\ j \in 1 .. Len(F) /\ stream'[d][i] = K + i /\ stream'[d][j] = K + j
      BY <1>7, <1>11, <1>12, <2>1, <2>2
    <3> QED
      BY <1>2, <2>1, <3>1
  <2>3. CASE d # c
    BY <1>10, <2>1, <2>3 DEF WebInv, StreamOrdered
  <2> QED
    BY <2>2, <2>3
<1> QED
  BY <1>8, <1>9, <1>13, <1>14, <1>15

\* A step that leaves the ring, and what was put in the channels of who stays, alone.
LEMMA QuietStep ==
    ASSUME WebInv, UNCHANGED emitVars, StreamType', online' \subseteq online,
           \A c \in online' : /\ stream'[c] = stream[c] /\ since'[c] = since[c]
                              /\ between'[c] = between[c] /\ dropped'[c] = dropped[c]
    PROVE  InHandNewest' /\ HandedTwice' /\ StreamWhole' /\ StreamOrdered'
<1>1. ring' = ring /\ inHand' = inHand /\ Unsent' = Unsent
  BY DEF emitVars, Unsent
<1>2. InHandNewest'
  BY <1>1 DEF WebInv, InHandNewest
<1>3. HandedTwice'
  BY <1>1 DEF WebInv, HandedTwice
<1>4. StreamWhole'
  BY <1>1 DEF WebInv, StreamWhole
<1>5. StreamOrdered'
  BY <1>1 DEF WebInv, StreamOrdered
<1> QED
  BY <1>2, <1>3, <1>4, <1>5

LEMMA InitWeb == WebInit => WebInv
<1> SUFFICES ASSUME WebInit PROVE WebInv
  OBVIOUS
<1> USE WebAssumption
<1>1. TurnType
  <2>1. posted = 0 /\ turns = 0 /\ posted + turns <= MaxChats
    BY DEF WebInit
  <2>2. toolStep \in [Tools -> 0 .. 2]
    BY DEF WebInit
  <2>3. serving = "off" /\ turnOpen = FALSE
    BY DEF WebInit
  <2> QED
    BY <2>1, <2>2, <2>3 DEF TurnType
<1>2. StreamType
  <2>1. ring = <<>> /\ Len(ring) = 0 /\ ring \in Seq([id : 0 .. MaxChats, by : Emitters])
    BY DEF WebInit
  <2>2. <<>> \in Seq(1 .. 0) /\ Len(<<>>) = 0 /\ stream \in [Clients -> Seq(1 .. 0)]
    BY DEF WebInit
  <2> QED
    BY <2>1, <2>2 DEF WebInit, StreamType, Queued
<1>3. InHandNewest
  BY DEF WebInit, InHandNewest
<1>4. HandedTwice /\ StreamWhole /\ StreamOrdered
  BY DEF WebInit, HandedTwice, StreamWhole, StreamOrdered
<1> QED
  BY <1>1, <1>2, <1>3, <1>4 DEF WebInv

LEMMA StepWeb == WebInv /\ [WebNext]_webVars => WebInv'
<1> SUFFICES ASSUME WebInv, [WebNext]_webVars PROVE WebInv'
  OBVIOUS
<1> USE WebAssumption
<1>0. TurnType /\ StreamType
  BY DEF WebInv
<1>1. ASSUME UNCHANGED emitVars, UNCHANGED clientVars
      PROVE  StreamType' /\ InHandNewest' /\ HandedTwice' /\ StreamWhole' /\ StreamOrdered'
  <2>1. StreamType'
    BY <1>0, <1>1 DEF StreamType, emitVars, clientVars, Queued
  <2> QED
    BY <1>1, <2>1, QuietStep DEF clientVars
<1>2. CASE StartWeb \/ StopWeb \/ \E r \in WebRequests : Chat(r)
  <2>1. TurnType'
    BY <1>0, <1>2 DEF TurnType, StartWeb, StopWeb, Chat
  <2>2. UNCHANGED emitVars /\ UNCHANGED clientVars
    BY <1>2 DEF StartWeb, StopWeb, Chat
  <2> QED
    BY <1>1, <2>1, <2>2 DEF WebInv
<1>3. ASSUME NEW c \in Clients, NEW r \in WebRequests, NEW from \in 0 .. MaxChats, Events(c, r, from)
      PROVE  WebInv'
  <2>1. streams' \in 0 .. MaxStreams
    BY <1>0, <1>3 DEF Events, StreamType
  <2>2. TurnType'
    BY <1>0, <1>3 DEF Events, TurnType, turnVars
  <2> QED
    BY <1>3, <2>1, <2>2, SubscribeStep DEF Events, WebInv
<1>4. ASSUME NEW c \in Clients, Receive(c) PROVE WebInv'
  <2>1. /\ taken' = [taken EXCEPT ![c] = taken[c] + 1] /\ Queued(c) > 0
        /\ UNCHANGED <<ring, inHand, online, stream, streams, since, between, dropped>>
    BY <1>4 DEF Receive, emitVars
  <2>2. /\ taken \in [Clients -> Nat] /\ stream \in [Clients -> Seq(1 .. Len(ring))]
        /\ \A d \in Clients : Queued(d) \in 0 .. SubSize
    BY <1>0 DEF StreamType
  <2>3. taken' \in [Clients -> Nat] /\ taken'[c] = taken[c] + 1 /\ \A d \in Clients : d # c => taken'[d] = taken[d]
    BY <2>1, <2>2
  <2>4. ASSUME NEW d \in Clients PROVE Queued(d)' \in 0 .. SubSize
    <3>1. Len(stream[d]) \in Nat /\ taken[d] \in Nat /\ Queued(d) \in 0 .. SubSize
      BY <2>2
    <3> QED
      BY <2>1, <2>3, <3>1 DEF Queued
  <2>5. StreamType'
    BY <1>0, <2>1, <2>3, <2>4 DEF StreamType
  <2>6. TurnType'
    BY <1>0, <1>4 DEF Receive, TurnType, turnVars
  <2> QED
    BY <2>1, <2>5, <2>6, QuietStep DEF WebInv, emitVars
<1>5. ASSUME NEW c \in Clients, Leave(c) PROVE WebInv'
  <2>1. /\ online' = online \ {c} /\ UNCHANGED <<ring, inHand, streams>>
        /\ stream' = [stream EXCEPT ![c] = <<>>] /\ taken' = [taken EXCEPT ![c] = 0]
        /\ since' = [since EXCEPT ![c] = 0]
        /\ between' = [between EXCEPT ![c] = {}] /\ dropped' = [dropped EXCEPT ![c] = {}]
    BY <1>5 DEF Leave, emitVars
  <2>2. /\ taken \in [Clients -> Nat] /\ stream \in [Clients -> Seq(1 .. Len(ring))] /\ Len(ring) \in Nat
        /\ since \in [Clients -> 0 .. Len(ring)] /\ online \subseteq Clients
        /\ between \in [Clients -> SUBSET (1 .. Len(ring))] /\ dropped \in [Clients -> SUBSET (1 .. Len(ring))]
        /\ \A d \in Clients : Queued(d) \in 0 .. SubSize
    BY <1>0 DEF StreamType
  <2>3. /\ taken' \in [Clients -> Nat] /\ stream' \in [Clients -> Seq(1 .. Len(ring))]
        /\ since' \in [Clients -> 0 .. Len(ring)] /\ online' \subseteq Clients
        /\ between' \in [Clients -> SUBSET (1 .. Len(ring))] /\ dropped' \in [Clients -> SUBSET (1 .. Len(ring))]
    BY <2>1, <2>2
  <2>4. ASSUME NEW d \in Clients PROVE Queued(d)' \in 0 .. SubSize
    <3>1. CASE d = c
      <4>1. stream'[d] = <<>> /\ taken'[d] = 0
        BY <2>1, <2>2, <3>1
      <4> QED
        BY <4>1 DEF Queued
    <3>2. CASE d # c
      <4>1. stream'[d] = stream[d] /\ taken'[d] = taken[d]
        BY <2>1, <2>2, <3>2
      <4> QED
        BY <2>2, <4>1 DEF Queued
    <3> QED
      BY <3>1, <3>2
  <2>5. StreamType'
    BY <1>0, <2>1, <2>3, <2>4 DEF StreamType
  <2>6. TurnType'
    BY <1>0, <1>5 DEF Leave, TurnType, turnVars
  <2>7. \A d \in online' : /\ stream'[d] = stream[d] /\ since'[d] = since[d]
                           /\ between'[d] = between[d] /\ dropped'[d] = dropped[d]
    BY <2>1, <2>2
  <2> QED
    BY <2>1, <2>5, <2>6, <2>7, QuietStep DEF WebInv, emitVars
<1>6. CASE TurnBegins
  <2>1. Run \in Emitters /\ turns + 1 \in 0 .. MaxChats
    BY <1>0, <1>6 DEF TurnBegins, TurnType, Emitters
  <2>2. TurnType'
    BY <1>0, <1>6 DEF TurnBegins, TurnType
  <2> QED
    BY <1>6, <2>1, <2>2, BufferStep DEF TurnBegins, WebInv
<1>7. CASE TurnEnds
  <2>1. Run \in Emitters /\ turns \in 0 .. MaxChats
    BY <1>0 DEF TurnType, Emitters
  <2>2. TurnType'
    BY <1>0, <1>7 DEF TurnEnds, TurnType
  <2> QED
    BY <1>7, <2>1, <2>2, BufferStep DEF TurnEnds, WebInv
<1>8. CASE SendText
  <2>1. Disp \in Emitters /\ NoId \in 0 .. MaxChats
    BY DEF NoId, Emitters
  <2>2. TurnType'
    BY <1>0, <1>8 DEF SendText, TurnType
  <2> QED
    BY <1>8, <2>1, <2>2, BufferStep DEF SendText, WebInv
<1>9. ASSUME NEW t \in Tools, ToolEvent(t) PROVE WebInv'
  <2>1. t \in Emitters /\ turns \in 0 .. MaxChats
    BY <1>0 DEF TurnType, Emitters
  <2>2. toolStep' \in [Tools -> 0 .. 2]
    <3>1. toolStep \in [Tools -> 0 .. 2] /\ toolStep[t] < 2 /\ toolStep' = [toolStep EXCEPT ![t] = toolStep[t] + 1]
      BY <1>0, <1>9 DEF ToolEvent, TurnType
    <3>2. toolStep[t] + 1 \in 0 .. 2
      BY <3>1
    <3> QED
      BY <3>1, <3>2
  <2>3. TurnType'
    BY <1>0, <1>9, <2>2 DEF ToolEvent, TurnType
  <2> QED
    BY <1>9, <2>1, <2>3, BufferStep DEF ToolEvent, WebInv
<1>10. ASSUME NEW e \in Emitters, FanOut(e) PROVE WebInv'
  <2>1. TurnType'
    BY <1>0, <1>10 DEF FanOut, TurnType, turnVars
  <2> QED
    BY <1>10, <2>1, FanOutStep DEF WebInv
<1>11. CASE UNCHANGED webVars
  <2>1. UNCHANGED emitVars /\ UNCHANGED clientVars /\ TurnType'
    BY <1>0, <1>11 DEF webVars, emitVars, clientVars, TurnType
  <2> QED
    BY <1>1, <2>1 DEF WebInv
<1> QED
  BY <1>2, <1>3, <1>4, <1>5, <1>6, <1>7, <1>8, <1>9, <1>10, <1>11 DEF WebNext

LEMMA AlwaysWeb == WebSpec => []WebInv
BY InitWeb, StepWeb, PTL DEF WebSpec

LEMMA WebTyped == WebInv => WebTypeOK
<1> SUFFICES ASSUME WebInv PROVE WebTypeOK
  OBVIOUS
<1>1. posted \in 0 .. MaxChats /\ turns \in 0 .. MaxChats
  BY WebAssumption DEF WebInv, TurnType
<1> QED
  BY <1>1 DEF WebInv, TurnType, StreamType, WebTypeOK

\* The queues of the clients stay within their channels, the chats within their bound.
THEOREM WebTypes == WebSpec => []WebTypeOK
BY AlwaysWeb, WebTyped, PTL

\* For any clients and tools and any sizes of ring and channel: nothing falls between the
\* replay of the ring and the live events, and each emitter's events come in order
\* (Emit and Subscribe, broker.go).
THEOREM StreamsKept == WebSpec => []StreamKept
<1>1. WebInv => StreamKept
  BY DEF WebInv, StreamKept
<1> QED
  BY <1>1, AlwaysWeb, PTL
=============================================================================
