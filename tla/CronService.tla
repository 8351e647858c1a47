----------------------------- MODULE CronService -----------------------------
(***************************************************************************)
(* pkg/cron/service.go with the callers that change its jobs: the cron     *)
(* tool of the agent (pkg/tools/cron.go) in the gateway process, and the   *)
(* `cron' subcommands, each a process of its own that loads jobs.json,     *)
(* changes its copy and writes the file back (cmd/picooraclaw/main.go).    *)
(*                                                                         *)
(* Time is abstracted to what the scheduler asks of it: a computed next    *)
(* run lies ahead ("set") until time passes it ("due"), and the fixed time *)
(* of a one-time job is passed once and for all.                           *)
(***************************************************************************)
EXTENDS Naturals, FiniteSets

CONSTANTS
    AtJobs,       \* one-time jobs, removed after their run (deleteAfterRun)
    Recurring,    \* "every" and "cron" jobs with a usable schedule
    Barren,       \* jobs whose schedule computes no next run (every <= 0, bad expr)
    CommandJobs,  \* jobs that addJob completes with a second call, UpdateJob
    NoJob,
    MaxFaults,    \* bound: crashes and failed writes of the store
    MaxCli        \* bound: `cron' subcommands run beside the gateway

Jobs == AtJobs \cup Recurring \cup Barren

ASSUME KindAssumption ==
    /\ AtJobs \cap Recurring = {} /\ AtJobs \cap Barren = {} /\ Recurring \cap Barren = {}
    /\ CommandJobs \subseteq Jobs
    /\ NoJob \notin Jobs
ASSUME BoundAssumption == MaxFaults \in Nat /\ MaxCli \in Nat

Job == [enabled : BOOLEAN, next : {"none", "set", "due"}]
Absent == [enabled |-> FALSE, next |-> "absent"]
Store == [Jobs -> Job \cup {Absent}]
Empty == [j \in Jobs |-> Absent]
Torn == [j \in {} |-> Absent]       \* jobs.json between truncation and the last byte

VARIABLES
    up,         \* the gateway process runs
    svc,        \* "off" | "starting" | "running": cs.running, and Start under way
    store,      \* cs.store.Jobs
    disk,       \* jobs.json
    writing,    \* "no" | "open" | "write": saveStoreUnsafe, with cs.mu held
    added,      \* ids generated so far
    passed,     \* one-time jobs whose time is over
    copies,     \* the copy AddJob returned to a caller that will call UpdateJob
    loop,       \* "ticker" | "run" | "found" | "call" | "back": the scheduler goroutine
    due,        \* dueJobIDs still to be executed
    current,    \* the job looked up for its handler
    runs,       \* history: handler runs of each one-time job (up to 2)
    gone,       \* history: jobs RemoveJob removed in this process
    kept,       \* history: jobs once saved and not removed since, by anyone
    cli,        \* the store a `cron' subcommand loaded
    cliUsed, faults

jobVars == <<store, copies, added, gone, kept>>
loopVars == <<loop, due, current, runs>>
envVars == <<cli, cliUsed, faults>>
vars == <<up, svc, store, disk, writing, added, passed, copies, loop, due, current,
          runs, gone, kept, cli, cliUsed, faults>>

Present(j) == store[j] # Absent
Free == up /\ writing = "no"        \* cs.mu can be taken

\* Mutant of NextRun: a time already over is scheduled all the same.
NextRunAnyTime(j) ==
    CASE j \in AtJobs -> IF j \in passed THEN "due" ELSE "set"
      [] j \in Recurring -> "set"
      [] OTHER -> "none"

\* computeNextRun, at this moment.
NextRun(j) ==
    CASE j \in AtJobs -> IF j \in passed THEN "none" ELSE "set"
      [] j \in Recurring -> "set"
      [] OTHER -> "none"

\* recomputeNextRuns over a loaded store.
Recomputed(s) ==
    [j \in Jobs |-> IF s[j].enabled THEN [s[j] EXCEPT !.next = NextRun(j)] ELSE s[j]]

\* loadStore: a file that does not parse leaves the fresh, empty store.
Loaded == IF disk = Torn THEN Empty ELSE disk

Init ==
    /\ up = FALSE /\ svc = "off" /\ writing = "no"
    /\ store = Empty /\ disk = Empty
    /\ added = {} /\ passed = {} /\ gone = {} /\ kept = {}
    /\ copies = Empty
    /\ loop = "ticker" /\ due = {} /\ current = NoJob
    /\ runs = [j \in AtJobs |-> 0]
    /\ cli = Torn /\ cliUsed = 0 /\ faults = 0

-----------------------------------------------------------------------------
\* Saving, with cs.mu held: os.WriteFile truncates, writes, and may fail on the way.

Truncate ==
    /\ up /\ writing = "open"
    /\ disk' = Torn
    /\ writing' = "write"
    /\ UNCHANGED <<up, svc, passed, jobVars, loopVars, envVars>>

\* The save succeeds; a Start that was waiting for it sets cs.running.
Saved ==
    /\ up /\ writing = "write"
    /\ disk' = store
    /\ writing' = "no"
    /\ svc' = IF svc = "starting" THEN "running" ELSE svc
    /\ kept' = kept \cup {j \in Jobs : Present(j)}
    /\ UNCHANGED <<up, passed, store, copies, added, gone, loopVars, envVars>>

\* The save fails, before or after the truncation; only Start gives up for it.
SaveFails ==
    /\ up /\ writing # "no"
    /\ faults < MaxFaults
    /\ faults' = faults + 1
    /\ writing' = "no"
    /\ svc' = IF svc = "starting" THEN "off" ELSE svc
    /\ UNCHANGED <<up, disk, passed, jobVars, loopVars, cli, cliUsed>>

-----------------------------------------------------------------------------
\* The life of the gateway process.

\* NewCronService and Start of gatewayCmd.  NewCronService ignores the error of
\* a torn file; Start returns it, and the gateway goes on without a scheduler.
Boot ==
    /\ ~up
    /\ up' = TRUE
    /\ IF disk = Torn
       THEN store' = Loaded /\ svc' = "off" /\ writing' = "no"
       ELSE store' = Recomputed(Loaded) /\ svc' = "starting" /\ writing' = "open"
    /\ UNCHANGED <<disk, passed, copies, added, gone, kept, loopVars, envVars>>

Stop ==
    /\ Free /\ svc = "running"
    /\ svc' = "off"
    /\ UNCHANGED <<up, disk, writing, passed, jobVars, loopVars, envVars>>

\* The process is gone; what only memory held is lost.
Dies ==
    /\ up
    /\ up' = FALSE /\ svc' = "off" /\ writing' = "no"
    /\ store' = Empty /\ copies' = Empty /\ gone' = {}
    /\ loop' = "ticker" /\ due' = {} /\ current' = NoJob
    /\ UNCHANGED <<disk, passed, added, kept, runs, cli, cliUsed>>

Crash == faults < MaxFaults /\ faults' = faults + 1 /\ Dies

\* The shutdown of gatewayCmd: it returns after Stop, which does not wait for
\* the scheduler goroutine, wherever that is.
Exit == svc = "off" /\ Dies /\ UNCHANGED faults

Aged(r) == IF r.next = "set" THEN [r EXCEPT !.next = "due"] ELSE r

\* Time reaches the next run of job j; every copy of that time is over with it.
TimePasses(j) ==
    /\ j \in AtJobs => j \notin passed
    /\ j \in Recurring => store[j].next = "set"
    /\ j \notin Barren
    /\ passed' = IF j \in AtJobs THEN passed \cup {j} ELSE passed
    /\ store' = [store EXCEPT ![j] = Aged(@)]
    /\ copies' = [copies EXCEPT ![j] = Aged(@)]
    /\ UNCHANGED <<up, svc, disk, writing, added, gone, kept, loopVars, envVars>>

-----------------------------------------------------------------------------
\* The scheduler goroutine: checkJobs and executeJobByID.

IsDue(j) == store[j].enabled /\ store[j].next = "due"

\* Mutant of CheckJobs: the cleared next runs are not saved.
CheckJobsUnsaved ==
    /\ Free /\ svc = "running" /\ loop = "ticker"
    /\ due' = {j \in Jobs : IsDue(j)}
    /\ store' = [j \in Jobs |-> IF IsDue(j) THEN [store[j] EXCEPT !.next = "none"] ELSE store[j]]
    /\ loop' = "run"
    /\ UNCHANGED <<up, svc, disk, writing, passed, copies, added, gone, kept, current, runs, envVars>>

\* One tick: collect the due jobs, clear their next run, save (every tick saves).
CheckJobs ==
    /\ Free /\ svc = "running" /\ loop = "ticker"
    /\ due' = {j \in Jobs : IsDue(j)}
    /\ store' = [j \in Jobs |-> IF IsDue(j) THEN [store[j] EXCEPT !.next = "none"] ELSE store[j]]
    /\ writing' = "open"
    /\ loop' = "run"
    /\ UNCHANGED <<up, svc, disk, passed, copies, added, gone, kept, current, runs, envVars>>

CheckDone ==
    /\ up /\ loop = "run" /\ due = {}
    /\ loop' = "ticker"
    /\ UNCHANGED <<up, svc, disk, writing, passed, jobVars, due, current, runs, envVars>>

\* Mutant of LookUp: the lookup of the job before its handler runs is dropped.
LookUpUnchecked(j) ==
    /\ Free /\ loop = "run" /\ j \in due
    /\ due' = due \ {j}
    /\ loop' = "found" /\ current' = j
    /\ UNCHANGED <<up, svc, disk, writing, passed, jobVars, runs, envVars>>

\* executeJobByID up to RUnlock: a due job is looked up and copied under the
\* lock; whether it is still enabled is not asked.
LookUp(j) ==
    /\ Free /\ loop = "run" /\ j \in due
    /\ due' = due \ {j}
    /\ IF Present(j) THEN loop' = "found" /\ current' = j
                     ELSE UNCHANGED <<loop, current>>
    /\ UNCHANGED <<up, svc, disk, writing, passed, jobVars, runs, envVars>>

\* onJob is called with the copy, outside the lock: a removal since the lookup
\* does not hold it back.
CallHandler ==
    /\ up /\ loop = "found"
    /\ loop' = "call"
    /\ runs' = [i \in AtJobs |-> IF i = current /\ runs[i] < 2 THEN runs[i] + 1 ELSE runs[i]]
    /\ UNCHANGED <<up, svc, disk, writing, passed, jobVars, due, current, envVars>>

\* onJob returns.  It need not: a command may wait for its child for ever, and
\* the turn of a job ends only if all its tools do.
HandlerReturns ==
    /\ up /\ loop = "call"
    /\ loop' = "back"
    /\ UNCHANGED <<up, svc, disk, writing, passed, jobVars, due, current, runs, envVars>>

\* Mutant of Finish: the next run is recomputed only for enabled jobs.
FinishNoReschedule ==
    /\ Free /\ loop = "back"
    /\ loop' = "run" /\ current' = NoJob
    /\ IF Present(current)
       THEN /\ store' = [store EXCEPT ![current] = IF current \in AtJobs THEN Absent ELSE @]
            /\ writing' = "open"
       ELSE UNCHANGED <<store, writing>>
    /\ kept' = kept \ (AtJobs \cap {current})
    /\ UNCHANGED <<up, svc, disk, passed, copies, added, gone, due, runs, envVars>>

\* After the handler: a one-time job is removed, any other is rescheduled,
\* enabled or not; a job removed meanwhile is left alone.
Finish ==
    /\ Free /\ loop = "back"
    /\ loop' = "run" /\ current' = NoJob
    /\ IF Present(current)
       THEN /\ store' = [store EXCEPT ![current] =
                            IF current \in AtJobs THEN Absent
                            ELSE [@ EXCEPT !.next = NextRun(current)]]
            /\ writing' = "open"
       ELSE UNCHANGED <<store, writing>>
    /\ kept' = kept \ (AtJobs \cap {current})
    /\ UNCHANGED <<up, svc, disk, passed, copies, added, gone, due, runs, envVars>>

-----------------------------------------------------------------------------
\* The cron tool, called from any conversation of the agent.

\* addJob: a fresh id; the time of a one-time job may be over already
\* (at_seconds <= 0).  A command is filled in by a later UpdateJob.
AddJob(j) ==
    /\ Free /\ j \notin added
    /\ added' = added \cup {j}
    /\ store' = [store EXCEPT ![j] = [enabled |-> TRUE, next |-> NextRun(j)]]
    /\ copies' = IF j \in CommandJobs THEN [copies EXCEPT ![j] = store'[j]] ELSE copies
    /\ writing' = "open"
    /\ UNCHANGED <<up, svc, disk, passed, gone, kept, loopVars, envVars>>

\* The second half of addJob for a command: the copy AddJob returned, as old as
\* it is by now, replaces the job, next run included.
UpdateJob(j) ==
    /\ Free /\ copies[j] # Absent
    /\ copies' = [copies EXCEPT ![j] = Absent]
    /\ IF Present(j)
       THEN store' = [store EXCEPT ![j] = copies[j]] /\ writing' = "open"
       ELSE UNCHANGED <<store, writing>>
    /\ UNCHANGED <<up, svc, disk, passed, added, gone, kept, loopVars, envVars>>

\* Mutant of RemoveJob: the job loses its schedule and stays.
RemoveJobClears(j) ==
    /\ Free /\ Present(j)
    /\ store' = [store EXCEPT ![j].next = "absent"]
    /\ gone' = gone \cup {j} /\ kept' = kept \ {j}
    /\ writing' = "open"
    /\ UNCHANGED <<up, svc, disk, passed, copies, added, loopVars, envVars>>

RemoveJob(j) ==
    /\ Free /\ Present(j)
    /\ store' = [store EXCEPT ![j] = Absent]
    /\ gone' = gone \cup {j} /\ kept' = kept \ {j}
    /\ writing' = "open"
    /\ UNCHANGED <<up, svc, disk, passed, copies, added, loopVars, envVars>>

WithEnabled(j, on) ==
    [enabled |-> on, next |-> IF on THEN NextRun(j) ELSE "none"]

\* Mutant of EnableJob: enabling a job does not compute its next run.
EnableJobUnscheduled(j, on) ==
    /\ Free /\ Present(j)
    /\ store' = [store EXCEPT ![j] = [enabled |-> on, next |-> "none"]]
    /\ writing' = "open"
    /\ UNCHANGED <<up, svc, disk, passed, copies, added, gone, kept, loopVars, envVars>>

EnableJob(j, on) ==
    /\ Free /\ Present(j)
    /\ store' = [store EXCEPT ![j] = WithEnabled(j, on)]
    /\ writing' = "open"
    /\ UNCHANGED <<up, svc, disk, passed, copies, added, gone, kept, loopVars, envVars>>

-----------------------------------------------------------------------------
\* `picooraclaw cron add | remove | enable | disable' in a second process: load
\* the file, change one job, write the file.  (The second process's write is one
\* step: its own torn file is the one Truncate already shows.)

CliLoad ==
    /\ cli = Torn /\ cliUsed < MaxCli
    /\ cliUsed' = cliUsed + 1
    /\ cli' = Loaded
    /\ UNCHANGED <<up, svc, disk, writing, passed, jobVars, loopVars, faults>>

CliSave(s) ==
    /\ disk' = s
    /\ cli' = Torn
    /\ UNCHANGED <<up, svc, store, writing, passed, copies, gone, loopVars, cliUsed, faults>>

CliAdd(j) ==
    /\ cli # Torn /\ j \notin added /\ j \notin AtJobs
    /\ added' = added \cup {j}
    /\ kept' = kept \cup {j}
    /\ CliSave([cli EXCEPT ![j] = [enabled |-> TRUE, next |-> NextRun(j)]])

CliRemove(j) ==
    /\ cli # Torn /\ cli[j] # Absent
    /\ kept' = kept \ {j}
    /\ CliSave([cli EXCEPT ![j] = Absent])
    /\ UNCHANGED added

CliEnable(j, on) ==
    /\ cli # Torn /\ cli[j] # Absent
    /\ CliSave([cli EXCEPT ![j] = WithEnabled(j, on)])
    /\ UNCHANGED <<added, kept>>

-----------------------------------------------------------------------------
Scheduler ==
    \/ CheckJobs \/ CheckDone \/ CallHandler \/ HandlerReturns \/ Finish
    \/ \E j \in Jobs : LookUp(j)

Tool == \E j \in Jobs :
    \/ AddJob(j) \/ UpdateJob(j) \/ RemoveJob(j)
    \/ \E on \in BOOLEAN : EnableJob(j, on)

Cli ==
    \/ CliLoad
    \/ \E j \in Jobs : CliAdd(j) \/ CliRemove(j) \/ \E on \in BOOLEAN : CliEnable(j, on)

Next ==
    \/ Truncate \/ Saved \/ SaveFails
    \/ Boot \/ Stop \/ Exit \/ Crash
    \/ \E j \in Jobs : TimePasses(j)
    \/ Scheduler \/ Tool \/ Cli

\* The clock advances, writes end and the scheduler goroutine runs; nothing says
\* that a handler returns.  cs.mu hands over in turn, so the loop's requests for
\* it are strongly fair.
Fairness ==
    /\ WF_vars(Boot) /\ WF_vars(Truncate) /\ WF_vars(Saved)
    /\ \A j \in Jobs : WF_vars(TimePasses(j)) /\ SF_vars(LookUp(j))
    /\ SF_vars(CheckJobs) /\ WF_vars(CheckDone) /\ WF_vars(CallHandler) /\ SF_vars(Finish)

SafeSpec == Init /\ [][Next]_vars

Spec == SafeSpec /\ Fairness

-----------------------------------------------------------------------------
TypeOK ==
    /\ up \in BOOLEAN
    /\ svc \in {"off", "starting", "running"}
    /\ store \in Store
    /\ disk \in Store \cup {Torn}
    /\ writing \in {"no", "open", "write"}
    /\ added \subseteq Jobs /\ passed \subseteq AtJobs
    /\ gone \subseteq Jobs /\ kept \subseteq Jobs
    /\ copies \in Store
    /\ loop \in {"ticker", "run", "found", "call", "back"}
    /\ due \subseteq Jobs
    /\ current \in Jobs \cup {NoJob}
    /\ runs \in [AtJobs -> 0 .. 2]
    /\ cli \in Store \cup {Torn}
    /\ cliUsed \in 0 .. MaxCli /\ faults \in 0 .. MaxFaults

\* A one-time reminder fires at most once: not again after a crash between its
\* run and the save that removes it, nor after its stale copy was written back,
\* nor when it is enabled again or another process writes an old jobs.json.
AtMostOnce == \A j \in AtJobs : runs[j] <= 1

\* While the scheduler runs, an enabled recurring job is never stranded: it has
\* a next run, or it is waiting in this tick's list, or its handler is called (and
\* Finish will reschedule it).
NeverStranded ==
    \A j \in Recurring :
        svc = "running" /\ store[j].enabled
            => store[j].next # "none" \/ j \in due \/ current = j

\* Once RemoveJob has answered, nothing puts the job back in the store and the
\* scheduler does not take it up again in this process, even if the job was
\* already collected as due, or its creator had still to call UpdateJob.  Only
\* the run whose job was looked up before the removal still takes place.
RemovedStaysOut ==
    [][\A j \in gone : store'[j] = Absent /\ (current' = j => current = j)]_vars

\* While the scheduler runs, jobs.json is the store in memory between critical
\* sections (time may have passed since it was written), as long as no write
\* failed and no other process wrote the file.
DiskCurrent ==
    Free /\ svc = "running" /\ faults = 0 /\ cliUsed = 0
        => disk # Torn /\ \A j \in Jobs : Aged(disk[j]) = Aged(store[j])

\* The handler of some job never returns, and the scheduler goroutine with it.
HandlerHangs == <>[](loop = "call")

\* While the service runs, a recurring job that is enabled runs again, unless it
\* is disabled or removed, the service is stopped, the job is enabled over and
\* over (each time starts its interval anew), or a handler, of this job or of
\* another, hangs for ever: there is one goroutine for all of them.
RecurringRuns ==
    \A j \in Recurring :
        \/ []<><<EnableJob(j, TRUE)>>_vars
        \/ HandlerHangs
        \/ (svc = "running" /\ store[j].enabled)
               ~> ((loop = "call" /\ current = j) \/ ~store[j].enabled \/ svc # "running")

\* README.md:118 promises stored jobs "full ACID guarantees".  Isolation: a save
\* of the gateway does not erase a job that another process added and nobody
\* removed.
NoLostUpdate == [][\A j \in kept : Saved => disk'[j] # Absent]_vars
=============================================================================
