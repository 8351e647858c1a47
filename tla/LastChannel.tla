----------------------------- MODULE LastChannel -----------------------------
(***************************************************************************)
(* The last active channel: the state manager (pkg/state), which keeps it  *)
(* in a file replaced by a rename, and the services that read it, the      *)
(* heartbeat (pkg/heartbeat) and the device notifications (pkg/devices).   *)
(* The agent, the heartbeat and the device service have a manager each;    *)
(* every one loads the file once, and only the agent's records.  A place   *)
(* is a platform and a chat.                                               *)
(***************************************************************************)
EXTENDS Naturals, Sequences, FiniteSets

CONSTANTS
    Places,     \* chats of platforms
    None,       \* no last channel, and a place of an internal channel
    Torn,       \* a file that is no JSON
    DevCap,     \* capacity of the event channel of a device source
    MaxRecords, \* bound: turns of the agent
    MaxDown     \* bound: crashes, failed saves

ASSUME PlaceAssumption ==
    /\ None \notin Places /\ Torn \notin Places /\ None # Torn
    /\ DevCap \in Nat \ {0} /\ MaxRecords \in Nat /\ MaxDown \in Nat

Managers == {"agent", "heartbeat", "devices"}
Contents == Places \cup {None, Torn}

VARIABLES
    phase,      \* of the process: "down", "loading", "starting", "up"
    loaded,     \* state.LastChannel of each manager
    stateFile,  \* state/state.json; None: absent
    oldFile,    \* state.json of an earlier version
    tempFile,   \* state/state.json.tmp
    save,       \* the agent's manager, its lock held: "idle", "write", "rename"
    recordTurns,\* bound: turns that called runAgentLoop
    downs,      \* bound: crashes and failed saves
    prompt,     \* HEARTBEAT.md: "missing", "empty", "text"
    heart,      \* stopChan of the heartbeat service is not nil
    first,      \* first beat: "none", "timer", "turn", "done"
    tick,       \* the ticker's loop is in a beat
    usb,        \* events between the source and handleEvents
    notified,   \* history: places of device notifications
    acked,      \* history: what the last successful SetLastChannel recorded
    pending,    \* history: what is or was being saved when it did not return
    latest,     \* history: place of the latest turn of a user, in this process
    override,   \* history: who has recorded a place after that
    jobPlace    \* history: the job's place, if that was a cron job's turn

placeVars == <<phase, loaded, stateFile, oldFile, tempFile, save, recordTurns, downs, prompt,
               heart, first, tick, usb, notified, acked, pending, latest, override, jobPlace>>
fileVars == <<stateFile, oldFile, tempFile, acked>>
beatVars == <<prompt, heart, first, tick>>
deviceVars == <<usb, notified>>

PlaceInit ==
    /\ phase = "down" /\ loaded = [m \in Managers |-> None]
    /\ stateFile = None /\ oldFile \in Contents /\ tempFile = None /\ save = "idle"
    /\ recordTurns = 0 /\ downs = 0
    /\ prompt \in {"missing", "empty", "text"} /\ heart = FALSE /\ first = "none" /\ tick = FALSE
    /\ usb = <<>> /\ notified = {}
    /\ acked = IF oldFile = Torn THEN None ELSE oldFile
    /\ pending = None /\ latest = None /\ override = "none" /\ jobPlace = None

-----------------------------------------------------------------------------
\* The files.

\* json.Unmarshal leaves the state alone when the file is no JSON.
Parsed(f) == IF f = Torn THEN None ELSE f

\* NewManager: the file, or that of an earlier version, which is saved in its new
\* place; if that fails it is tried again by the next manager.
NewManager(m) ==
    IF stateFile # None
    THEN /\ loaded' = [loaded EXCEPT ![m] = Parsed(stateFile)]
         /\ UNCHANGED <<stateFile, downs>>
    ELSE /\ loaded' = [loaded EXCEPT ![m] = Parsed(oldFile)]
         /\ \/ /\ stateFile' = Parsed(oldFile)
               /\ UNCHANGED downs
            \/ /\ downs < MaxDown /\ downs' = downs + 1
               /\ UNCHANGED stateFile

\* The gateway: the agent's manager, the heartbeat's, and after the cron service
\* and the heartbeat have started that of the devices.
BootAgent ==
    /\ phase = "down" /\ phase' = "loading"
    /\ NewManager("agent")
    /\ UNCHANGED <<oldFile, tempFile, acked, save, recordTurns, pending, latest, override, jobPlace>>
    /\ UNCHANGED beatVars /\ UNCHANGED deviceVars

BootHeartbeat ==
    /\ phase = "loading" /\ phase' = "starting"
    /\ NewManager("heartbeat")
    /\ heart' = TRUE /\ first' = "timer"
    /\ UNCHANGED <<oldFile, tempFile, acked, save, recordTurns, pending, latest, override, jobPlace, prompt, tick>>
    /\ UNCHANGED deviceVars

BootDevices ==
    /\ phase = "starting" /\ phase' = "up"
    /\ NewManager("devices")
    /\ UNCHANGED <<oldFile, tempFile, acked, save, recordTurns, pending, latest, override, jobPlace>>
    /\ UNCHANGED beatVars /\ UNCHANGED deviceVars

\* SetLastChannel, called by runAgentLoop unless the channel is internal.
Record(p) ==
    /\ save = "idle" /\ save' = "write"
    /\ loaded' = [loaded EXCEPT !["agent"] = p]
    /\ pending' = p

\* saveAtomic: the temporary file, ...
WriteTemp ==
    /\ save = "write"
    /\ tempFile' = Torn /\ save' = "rename"
    /\ UNCHANGED <<phase, loaded, stateFile, oldFile, acked, recordTurns, downs, pending, latest, override, jobPlace>>
    /\ UNCHANGED beatVars /\ UNCHANGED deviceVars

\* Mutant of Rename: the file itself is opened and truncated, and then written.
RenameInPlace ==
    /\ save = "rename"
    /\ IF stateFile = Torn
       THEN stateFile' = loaded["agent"] /\ acked' = loaded["agent"] /\ save' = "idle"
       ELSE stateFile' = Torn /\ UNCHANGED <<acked, save>>
    /\ tempFile' = None
    /\ UNCHANGED <<phase, loaded, oldFile, recordTurns, downs, pending, latest, override, jobPlace>>
    /\ UNCHANGED beatVars /\ UNCHANGED deviceVars

\* ... complete, renamed over the state file.
Rename ==
    /\ save = "rename" /\ save' = "idle"
    /\ stateFile' = loaded["agent"] /\ tempFile' = None
    /\ acked' = loaded["agent"]
    /\ UNCHANGED <<phase, loaded, oldFile, recordTurns, downs, pending, latest, override, jobPlace>>
    /\ UNCHANGED beatVars /\ UNCHANGED deviceVars

\* Either step fails; SetLastChannel returns the error, memory keeps the value, and
\* the temporary file goes if it was the rename that failed.
SaveFails ==
    /\ save # "idle" /\ downs < MaxDown
    /\ save' = "idle" /\ downs' = downs + 1
    /\ tempFile' \in IF save = "rename" THEN {None} ELSE {tempFile, Torn}
    /\ UNCHANGED <<phase, loaded, stateFile, oldFile, acked, recordTurns, pending, latest, override, jobPlace>>
    /\ UNCHANGED beatVars /\ UNCHANGED deviceVars

\* The process ends, in the middle of whatever it does.
ProcessEnds ==
    /\ phase # "down" /\ downs < MaxDown
    /\ phase' = "down" /\ downs' = downs + 1
    /\ loaded' = [m \in Managers |-> None] /\ save' = "idle"
    /\ heart' = FALSE /\ first' = "none" /\ tick' = FALSE /\ usb' = <<>>
    /\ latest' = None /\ override' = "none" /\ jobPlace' = None
    /\ UNCHANGED <<stateFile, oldFile, tempFile, acked, recordTurns, prompt, notified, pending>>

-----------------------------------------------------------------------------
\* Turns.

\* Mutant of UserTurn: turns of internal channels are recorded too.
UserTurnAny(p) ==
    /\ phase # "down" /\ recordTurns < MaxRecords
    /\ recordTurns' = recordTurns + 1
    /\ Record(p)
    /\ latest' = IF p = None THEN latest ELSE p
    /\ override' = IF p = None THEN override ELSE "none"
    /\ jobPlace' = IF p = None THEN jobPlace ELSE None
    /\ UNCHANGED <<phase, downs>> /\ UNCHANGED fileVars /\ UNCHANGED beatVars /\ UNCHANGED deviceVars

\* runAgentLoop for a user's message, or for a turn in an internal channel.
UserTurn(p) ==
    /\ phase # "down" /\ recordTurns < MaxRecords
    /\ recordTurns' = recordTurns + 1
    /\ IF p = None
       THEN UNCHANGED <<save, loaded, pending, latest, override, jobPlace>>
       ELSE Record(p) /\ latest' = p /\ override' = "none" /\ jobPlace' = None
    /\ UNCHANGED <<phase, downs>> /\ UNCHANGED fileVars
    /\ UNCHANGED beatVars /\ UNCHANGED deviceVars

\* A cron job that is neither a command nor for delivery runs a turn in the place
\* the job names, which records it like a user's.
JobTurn(p) ==
    /\ phase \in {"starting", "up"} /\ recordTurns < MaxRecords
    /\ recordTurns' = recordTurns + 1
    /\ Record(p)
    /\ override' = "job" /\ jobPlace' = p
    /\ UNCHANGED <<phase, downs, latest>> /\ UNCHANGED fileVars
    /\ UNCHANGED beatVars /\ UNCHANGED deviceVars

\* executeHeartbeat up to its handler: the prompt, or the template for the next
\* beat; then a turn in the place the heartbeat's own manager loaded, which the
\* turn records.
Beat(turns) ==
    \/ /\ prompt # "text" /\ ~turns
       /\ prompt' = IF prompt = "missing" THEN "text" ELSE prompt
       /\ UNCHANGED <<save, loaded, pending, override, jobPlace, recordTurns>>
    \/ /\ prompt = "text" /\ turns
       /\ recordTurns < MaxRecords /\ recordTurns' = recordTurns + 1
       /\ IF loaded["heartbeat"] = None      \* cli:direct
          THEN UNCHANGED <<save, loaded, pending, override, jobPlace>>
          ELSE Record(loaded["heartbeat"]) /\ override' = "beat" /\ jobPlace' = None
       /\ UNCHANGED prompt

\* One second after Start, on a timer that Stop does not cancel.
FirstBeat ==
    /\ first = "timer"
    /\ IF ~heart
       THEN /\ first' = "done"
            /\ UNCHANGED <<prompt, save, loaded, pending, override, jobPlace, recordTurns>>
       ELSE \E turns \in BOOLEAN : Beat(turns) /\ first' = IF turns THEN "turn" ELSE "done"
    /\ UNCHANGED <<phase, downs, latest, heart, tick>> /\ UNCHANGED fileVars /\ UNCHANGED deviceVars

\* The ticker's loop runs its beats one after the other.
Ticked ==
    /\ heart /\ ~tick
    /\ \E turns \in BOOLEAN : Beat(turns) /\ tick' = turns
    /\ UNCHANGED <<phase, downs, latest, heart, first>> /\ UNCHANGED fileVars /\ UNCHANGED deviceVars

\* The handler returns.  The gateway's is an error or silent, so that no beat sends
\* anything itself.
BeatEnds ==
    /\ \/ first = "turn" /\ first' = "done" /\ UNCHANGED tick
       \/ tick /\ tick' = FALSE /\ UNCHANGED first
    /\ UNCHANGED <<phase, loaded, save, recordTurns, downs, prompt, heart, pending, latest, override, jobPlace>>
    /\ UNCHANGED fileVars /\ UNCHANGED deviceVars

StopHeart ==
    /\ phase = "up" /\ heart /\ heart' = FALSE
    /\ UNCHANGED <<phase, loaded, save, recordTurns, downs, prompt, first, tick, pending, latest, override, jobPlace>>
    /\ UNCHANGED fileVars /\ UNCHANGED deviceVars

-----------------------------------------------------------------------------
\* Devices.

\* The blocks udevadm prints: who reports, the action, the kind of device.
Blocks == [udev : BOOLEAN, action : {"add", "remove", "bind"}, subsystem : {"usb", "other"},
           devtype : {"usb_device", "usb_interface", "none"}]

\* The scanner passes on what parseUSBEvent makes of a block.
Reported(b) ==
    b.udev /\ b.action \in {"add", "remove"} /\ b.subsystem = "usb" /\ b.devtype # "usb_interface"

\* The source blocks while the channel is full.
Plug(b) ==
    /\ phase = "up" /\ Reported(b) /\ Len(usb) < DevCap
    /\ usb' = Append(usb, b.action)
    /\ UNCHANGED <<phase, loaded, save, recordTurns, downs, pending, latest, override, jobPlace, notified>>
    /\ UNCHANGED fileVars /\ UNCHANGED beatVars

\* sendNotification: to the place its own manager loaded.
Notify ==
    /\ usb # <<>> /\ usb' = Tail(usb)
    /\ notified' = IF loaded["devices"] = None THEN notified ELSE notified \cup {loaded["devices"]}
    /\ UNCHANGED <<phase, loaded, save, recordTurns, downs, pending, latest, override, jobPlace>>
    /\ UNCHANGED fileVars /\ UNCHANGED beatVars

PlaceNext ==
    \/ BootAgent \/ BootHeartbeat \/ BootDevices
    \/ WriteTemp \/ Rename \/ SaveFails \/ ProcessEnds
    \/ \E p \in Places \cup {None} : UserTurn(p)
    \/ \E p \in Places : JobTurn(p)
    \/ FirstBeat \/ Ticked \/ BeatEnds \/ StopHeart
    \/ \E b \in Blocks : Plug(b)
    \/ Notify

PlaceSpec == PlaceInit /\ [][PlaceNext]_placeVars

-----------------------------------------------------------------------------
PlaceTypeOK ==
    /\ phase \in {"down", "loading", "starting", "up"}
    /\ loaded \in [Managers -> Places \cup {None}]
    /\ stateFile \in Contents /\ oldFile \in Contents /\ tempFile \in Contents
    /\ save \in {"idle", "write", "rename"}
    /\ recordTurns \in 0 .. MaxRecords /\ downs \in 0 .. MaxDown
    /\ prompt \in {"missing", "empty", "text"} /\ heart \in BOOLEAN /\ tick \in BOOLEAN
    /\ first \in {"none", "timer", "turn", "done"}
    /\ usb \in Seq({"add", "remove"}) /\ Len(usb) <= DevCap
    /\ notified \subseteq Places
    /\ acked \in Places \cup {None} /\ pending \in Places \cup {None}
    /\ latest \in Places \cup {None} /\ override \in {"none", "beat", "job"}
    /\ jobPlace \in Places \cup {None}

\* What a restart finds is what was last acknowledged, or the value whose save the
\* crash interrupted: no failed or interrupted save costs the one before it
\* (the promise of saveAtomic and of RecordLastChannel).
FileSurvives == stateFile # None => stateFile \in {acked, pending} \ {Torn}

\* In one process, the recorded place is that of the latest turn of a user, whatever
\* internal turns ran since, unless a heartbeat or a cron job recorded another: the
\* one that the heartbeat's manager loaded at the start, or the one the job names.
RecentUnlessOverridden ==
    latest # None =>
        /\ override = "none" => loaded["agent"] = latest
        /\ override = "beat" => loaded["agent"] = loaded["heartbeat"]
        /\ override = "job" => loaded["agent"] = jobPlace
=============================================================================
