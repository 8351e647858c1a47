-------------------------- MODULE CronService_proofs --------------------------
(***************************************************************************)
(* Proofs about CronService for any set of jobs and any number of crashes, *)
(* failed writes and `cron' subcommands: a one-time job runs at most once, *)
(* an enabled recurring job is never stranded, a removed job stays out,     *)
(* and the file keeps up with the store when nothing fails and no other    *)
(* process writes it.                                                      *)
(*                                                                         *)
(* At most once needs an account of every place from which a due one-time  *)
(* job could come back: the list of the tick, the store, the copy a caller *)
(* still holds, jobs.json, and the store another process loaded.           *)
(***************************************************************************)
EXTENDS CronService, TLAPS

\* Only generated ids are in a store.
Known(s) == \A j \in Jobs : s[j] # Absent => j \in added

\* A disabled one-time job has no next run.
Quiet(s) == \A j \in AtJobs : ~s[j].enabled => s[j].next \notin {"set", "due"}

\* A one-time job is due only once its time is over.
Timely(s) == \A j \in AtJobs : s[j].next = "due" => j \in passed

Stores ==
    /\ Known(store) /\ Known(copies) /\ Known(Loaded) /\ (cli # Torn => Known(cli))
    /\ Quiet(store) /\ Quiet(copies) /\ Quiet(Loaded) /\ (cli # Torn => Quiet(cli))
    /\ Timely(store) /\ Timely(copies)
    /\ \A j \in Recurring : copies[j].next # "none"

\* The scheduler goroutine holds a list only while it works through it, and is
\* the only one there is.
Looping ==
    /\ loop = "ticker" => due = {}
    /\ loop \in {"found", "call", "back"} <=> current # NoJob
    /\ current \notin due
    /\ ~up => loop = "ticker" /\ copies = Empty

\* A one-time job that ran cannot become due again.
Spent ==
    \A j \in AtJobs :
        /\ runs[j] \in {0, 1}
        /\ j \in due => runs[j] = 0 /\ j \in passed
        /\ loop = "found" /\ current = j => runs[j] = 0 /\ j \in passed /\ j \in added
        /\ runs[j] = 1 => j \in passed /\ j \in added
        /\ runs[j] = 1 /\ current # j
            => store[j].next # "due" /\ (store[j] # Absent => copies[j] = Absent)

\* NeverStranded, from the moment Start recomputed the next runs.
Scheduled ==
    \A j \in Recurring :
        svc # "off" /\ store[j].enabled
            => store[j].next # "none" \/ j \in due \/ current = j

CronInv == TypeOK /\ Stores /\ Looping /\ Spent /\ Scheduled

-----------------------------------------------------------------------------
LEMMA RecordFacts ==
    /\ Absent.next = "absent" /\ Absent.enabled = FALSE /\ Absent \notin Job
    /\ \A n \in {"none", "set", "due"}, b \in BOOLEAN : [enabled |-> b, next |-> n] \in Job
    /\ Empty \in Store /\ \A j \in Jobs : Empty[j] = Absent
  BY DEF Absent, Job, Empty, Store

LEMMA NextRunFacts ==
    \A j \in Jobs :
        /\ NextRun(j) \in {"none", "set"}
        /\ j \in AtJobs /\ j \in passed => NextRun(j) = "none"
        /\ j \in Recurring => NextRun(j) = "set"
  BY KindAssumption DEF NextRun, Jobs

LEMMA ExceptFacts ==
    ASSUME NEW r \in Job, NEW n \in {"none", "set", "due"}
    PROVE  /\ [r EXCEPT !.next = n] \in Job
           /\ [r EXCEPT !.next = n].enabled = r.enabled
           /\ [r EXCEPT !.next = n].next = n
           /\ [r EXCEPT !.next = n] # Absent
<1>1. /\ [r EXCEPT !.next = n] \in Job
      /\ [r EXCEPT !.next = n].enabled = r.enabled
      /\ [r EXCEPT !.next = n].next = n
  BY DEF Job
<1> QED
  BY <1>1, RecordFacts

LEMMA AgedFacts ==
    ASSUME NEW r \in Job \cup {Absent}
    PROVE  /\ Aged(r) \in Job \cup {Absent}
           /\ Aged(r) = Absent <=> r = Absent
           /\ Aged(r).enabled = r.enabled
           /\ Aged(r).next = IF r.next = "set" THEN "due" ELSE r.next
<1>1. CASE r = Absent
  BY <1>1, RecordFacts DEF Aged
<1>2. CASE r \in Job /\ r.next = "set"
  BY <1>2, ExceptFacts, RecordFacts DEF Aged
<1>3. CASE r \in Job /\ r.next # "set"
  BY <1>3 DEF Aged
<1> QED
  BY <1>1, <1>2, <1>3

\* loadStore returns a store, whatever the file holds.
LEMMA LoadedType == TypeOK => Loaded \in Store
  BY RecordFacts DEF TypeOK, Loaded

LEMMA RecomputedFacts ==
    ASSUME NEW s \in Store
    PROVE  /\ Recomputed(s) \in Store
           /\ \A j \in Jobs :
                /\ Recomputed(s)[j] = Absent <=> s[j] = Absent
                /\ Recomputed(s)[j].enabled = s[j].enabled
                /\ Recomputed(s)[j].next = IF s[j].enabled THEN NextRun(j) ELSE s[j].next
<1>1. ASSUME NEW j \in Jobs
      PROVE  /\ Recomputed(s)[j] \in Job \cup {Absent}
             /\ Recomputed(s)[j] = Absent <=> s[j] = Absent
             /\ Recomputed(s)[j].enabled = s[j].enabled
             /\ Recomputed(s)[j].next = IF s[j].enabled THEN NextRun(j) ELSE s[j].next
  <2>1. s[j] \in Job \cup {Absent}
    BY DEF Store
  <2>2. CASE s[j].enabled
    <3>1. s[j] \in Job /\ Recomputed(s)[j] = [s[j] EXCEPT !.next = NextRun(j)]
      BY <2>1, <2>2, RecordFacts DEF Recomputed
    <3>2. NextRun(j) \in {"none", "set", "due"}
      BY NextRunFacts
    <3>3. /\ Recomputed(s)[j] \in Job
          /\ Recomputed(s)[j].enabled = s[j].enabled
          /\ Recomputed(s)[j].next = NextRun(j)
      <4>1. \A n \in {"none", "set", "due"} :
              /\ [s[j] EXCEPT !.next = n] \in Job
              /\ [s[j] EXCEPT !.next = n].enabled = s[j].enabled
              /\ [s[j] EXCEPT !.next = n].next = n
        BY <3>1, ExceptFacts
      <4> QED
        BY <4>1, <3>1, <3>2
    <3> QED
      BY <3>1, <3>3, <2>2, RecordFacts
  <2>3. CASE ~s[j].enabled
    BY <2>1, <2>3 DEF Recomputed
  <2> QED
    BY <2>2, <2>3
<1> QED
  BY <1>1 DEF Recomputed, Store

LEMMA WithEnabledFacts ==
    \A j \in Jobs, on \in BOOLEAN :
        /\ WithEnabled(j, on) \in Job
        /\ WithEnabled(j, on) # Absent
        /\ WithEnabled(j, on).enabled = on
        /\ WithEnabled(j, on).next = IF on THEN NextRun(j) ELSE "none"
  BY NextRunFacts, RecordFacts DEF WithEnabled

-----------------------------------------------------------------------------
LEMMA InitInv == Init => CronInv
<1> SUFFICES ASSUME Init PROVE CronInv
  OBVIOUS
<1>1. TypeOK
  <2>1. /\ store \in Store /\ disk \in Store /\ copies \in Store
        /\ runs \in [AtJobs -> 0 .. 2]
    BY RecordFacts DEF Init
  <2>2. cliUsed \in 0 .. MaxCli /\ faults \in 0 .. MaxFaults
    BY BoundAssumption DEF Init
  <2> QED
    BY <2>1, <2>2 DEF Init, TypeOK
<1>2. Loaded = Empty
  BY DEF Init, Loaded
<1> QED
  BY <1>1, <1>2, RecordFacts
  DEF Init, CronInv, Stores, Known, Quiet, Timely, Looping, Spent, Scheduled, Jobs

\* A store in which one job was replaced, by a job or by nothing, is a store.
LEMMA ReplaceType ==
    ASSUME NEW s \in Store, NEW j \in Jobs, NEW r \in Job \cup {Absent}
    PROVE  /\ [s EXCEPT ![j] = r] \in Store
           /\ [s EXCEPT ![j] = r][j] = r
           /\ \A i \in Jobs : i # j => [s EXCEPT ![j] = r][i] = s[i]
  BY DEF Store

LEMMA StepType == CronInv /\ [Next]_vars => TypeOK'
<1> SUFFICES ASSUME CronInv, [Next]_vars PROVE TypeOK'
  OBVIOUS
<1> USE DEF TypeOK, jobVars, loopVars, envVars
<1>a. TypeOK
  BY DEF CronInv
<1>b. Loaded \in Store
  BY <1>a, LoadedType
<1>c. \A j \in Jobs : store[j] \in Job \cup {Absent} /\ copies[j] \in Job \cup {Absent}
  BY <1>a DEF Store
<1>d. \A j \in Jobs : [enabled |-> TRUE, next |-> NextRun(j)] \in Job
  BY NextRunFacts, RecordFacts
<1>1. CASE UNCHANGED vars
  BY <1>1, <1>a DEF vars
<1>2. CASE Truncate
  BY <1>2, <1>a DEF Truncate
<1>3. CASE Saved
  BY <1>3, <1>a DEF Saved
<1>4. CASE SaveFails
  BY <1>4, <1>a, BoundAssumption DEF SaveFails
<1>5. CASE Boot
  BY <1>5, <1>a, <1>b, RecomputedFacts DEF Boot
<1>6. CASE Stop
  BY <1>6, <1>a DEF Stop
<1>7. CASE Exit \/ Crash
  <2>1. faults' \in 0 .. MaxFaults
    BY <1>7, <1>a, BoundAssumption DEF Exit, Crash
  <2>2. store' \in Store /\ copies' \in Store
    BY <1>7, RecordFacts DEF Exit, Crash, Dies
  <2> QED
    BY <1>7, <2>1, <2>2, <1>a DEF Exit, Crash, Dies
<1>8. ASSUME NEW j \in Jobs, TimePasses(j) PROVE TypeOK'
  <2>1. Aged(store[j]) \in Job \cup {Absent} /\ Aged(copies[j]) \in Job \cup {Absent}
    BY <1>c, AgedFacts
  <2>2. store' \in Store /\ copies' \in Store
    BY <1>8, <2>1, <1>a, ReplaceType DEF TimePasses
  <2> QED
    BY <1>8, <2>2, <1>a DEF TimePasses
<1>9. CASE CheckJobs
  <2>1. \A j \in Jobs : store'[j] \in Job \cup {Absent}
    <3> SUFFICES ASSUME NEW j \in Jobs PROVE store'[j] \in Job \cup {Absent}
      OBVIOUS
    <3>1. CASE IsDue(j)
      BY <1>9, <1>c, <3>1, RecordFacts, ExceptFacts DEF CheckJobs, IsDue
    <3>2. CASE ~IsDue(j)
      BY <1>9, <1>c, <3>2 DEF CheckJobs
    <3> QED
      BY <3>1, <3>2
  <2>2. store' \in Store
    BY <1>9, <2>1 DEF CheckJobs, Store
  <2> QED
    BY <1>9, <2>2, <1>a DEF CheckJobs
<1>10. CASE CheckDone
  BY <1>10, <1>a DEF CheckDone
<1>11. ASSUME NEW j \in Jobs, LookUp(j) PROVE TypeOK'
  BY <1>11, <1>a DEF LookUp
<1>21. CASE CallHandler
  <2>1. runs' \in [AtJobs -> 0 .. 2]
    BY <1>21, <1>a DEF CallHandler
  <2> QED
    BY <1>21, <2>1, <1>a DEF CallHandler
<1>22. CASE HandlerReturns
  BY <1>22, <1>a DEF HandlerReturns
<1>12. CASE Finish
  <2>1. current \in Jobs
    BY <1>12, <1>a DEF Finish, CronInv, Looping
  <2>2. CASE Present(current)
    <3>1. [store[current] EXCEPT !.next = NextRun(current)] \in Job
      BY <2>1, <2>2, <1>c, NextRunFacts, ExceptFacts DEF Present
    <3>2. store' \in Store
      BY <1>12, <2>1, <2>2, <3>1, <1>a, ReplaceType DEF Finish
    <3> QED
      BY <1>12, <2>2, <3>2, <1>a DEF Finish
  <2>3. CASE ~Present(current)
    BY <1>12, <2>3, <1>a DEF Finish
  <2> QED
    BY <2>2, <2>3
<1>13. ASSUME NEW j \in Jobs, AddJob(j) PROVE TypeOK'
  <2>1. store' \in Store /\ store'[j] \in Job
    <3>1. DEFINE r == [enabled |-> TRUE, next |-> NextRun(j)]
    <3>2. [store EXCEPT ![j] = r] \in Store /\ [store EXCEPT ![j] = r][j] = r /\ r \in Job
      BY <1>a, <1>d, ReplaceType
    <3> QED
      BY <1>13, <3>2 DEF AddJob
  <2>2. copies' \in Store
    BY <1>13, <2>1, <1>a, ReplaceType DEF AddJob
  <2> QED
    BY <1>13, <2>1, <2>2, <1>a DEF AddJob
<1>14. ASSUME NEW j \in Jobs, UpdateJob(j) PROVE TypeOK'
  <2>1. copies' \in Store /\ store' \in Store
    <3>1. /\ [copies EXCEPT ![j] = Absent] \in Store
          /\ [store EXCEPT ![j] = copies[j]] \in Store
      BY <1>a, <1>c, ReplaceType
    <3> QED
      BY <1>14, <3>1, <1>a DEF UpdateJob
  <2> QED
    BY <1>14, <2>1, <1>a DEF UpdateJob
<1>15. ASSUME NEW j \in Jobs, RemoveJob(j) PROVE TypeOK'
  <2>1. store' \in Store
    BY <1>15, <1>a, ReplaceType DEF RemoveJob
  <2> QED
    BY <1>15, <2>1, <1>a DEF RemoveJob
<1>16. ASSUME NEW j \in Jobs, NEW on \in BOOLEAN, EnableJob(j, on) PROVE TypeOK'
  <2>1. store' \in Store
    BY <1>16, <1>a, WithEnabledFacts, ReplaceType DEF EnableJob
  <2> QED
    BY <1>16, <2>1, <1>a DEF EnableJob
<1>17. CASE CliLoad
  BY <1>17, <1>a, <1>b, BoundAssumption DEF CliLoad
<1>18. ASSUME NEW j \in Jobs, CliAdd(j) PROVE TypeOK'
  <2>1. disk' \in Store
    BY <1>18, <1>a, <1>d, ReplaceType DEF CliAdd, CliSave
  <2> QED
    BY <1>18, <2>1, <1>a DEF CliAdd, CliSave
<1>19. ASSUME NEW j \in Jobs, CliRemove(j) PROVE TypeOK'
  <2>1. disk' \in Store
    BY <1>19, <1>a, ReplaceType DEF CliRemove, CliSave
  <2> QED
    BY <1>19, <2>1, <1>a DEF CliRemove, CliSave
<1>20. ASSUME NEW j \in Jobs, NEW on \in BOOLEAN, CliEnable(j, on) PROVE TypeOK'
  <2>1. disk' \in Store
    BY <1>20, <1>a, WithEnabledFacts, ReplaceType DEF CliEnable, CliSave
  <2> QED
    BY <1>20, <2>1, <1>a DEF CliEnable, CliSave
<1> QED
  BY <1>1, <1>2, <1>3, <1>4, <1>5, <1>6, <1>7, <1>8, <1>9, <1>10, <1>11, <1>12, <1>13,
     <1>14, <1>15, <1>16, <1>17, <1>18, <1>19, <1>20, <1>21, <1>22
  DEF Next, Scheduler, Tool, Cli

-----------------------------------------------------------------------------
LEMMA StepLooping == CronInv /\ [Next]_vars => Looping'
<1> SUFFICES ASSUME CronInv, [Next]_vars PROVE Looping'
  OBVIOUS
<1> USE DEF CronInv, Looping, jobVars, loopVars, envVars
<1>1. CASE UNCHANGED vars
  BY <1>1 DEF vars
<1>2. CASE Truncate \/ Saved \/ SaveFails \/ Boot \/ Stop
  BY <1>2 DEF Truncate, Saved, SaveFails, Boot, Stop
<1>3. CASE Exit \/ Crash
  BY <1>3 DEF Exit, Crash, Dies
<1>4. ASSUME NEW j \in Jobs, TimePasses(j) PROVE Looping'
  <2>1. CASE ~up
    <3>1. \A i \in Jobs : copies[i] = Absent /\ Aged(copies[i]) = Absent
      BY <2>1, RecordFacts, AgedFacts
    <3>2. copies' = copies
      BY <1>4, <3>1, <2>1 DEF TimePasses, Empty
    <3> QED
      BY <1>4, <3>2 DEF TimePasses
  <2> QED
    BY <1>4, <2>1 DEF TimePasses
<1>5. CASE CheckJobs
  BY <1>5, KindAssumption DEF CheckJobs, Free
<1>6. CASE CheckDone
  BY <1>6 DEF CheckDone
<1>7. ASSUME NEW j \in Jobs, LookUp(j) PROVE Looping'
  BY <1>7, KindAssumption DEF LookUp, Free
<1>13. CASE CallHandler \/ HandlerReturns
  BY <1>13 DEF CallHandler, HandlerReturns
<1>8. CASE Finish
  BY <1>8, KindAssumption DEF Finish, Free, TypeOK
<1>9. ASSUME NEW j \in Jobs, AddJob(j) \/ UpdateJob(j) \/ RemoveJob(j) PROVE Looping'
  BY <1>9 DEF AddJob, UpdateJob, RemoveJob, Free
<1>10. ASSUME NEW j \in Jobs, NEW on \in BOOLEAN, EnableJob(j, on) \/ CliEnable(j, on)
       PROVE Looping'
  BY <1>10 DEF EnableJob, CliEnable, CliSave
<1>11. ASSUME NEW j \in Jobs, CliLoad \/ CliAdd(j) \/ CliRemove(j) PROVE Looping'
  BY <1>11 DEF CliLoad, CliAdd, CliRemove, CliSave
<1>12. CASE CliLoad
  BY <1>12 DEF CliLoad
<1> QED
  BY <1>1, <1>2, <1>3, <1>4, <1>5, <1>6, <1>7, <1>8, <1>9, <1>10, <1>11, <1>12, <1>13
  DEF Next, Scheduler, Tool, Cli

-----------------------------------------------------------------------------
\* What holds of the stores, as predicates of one store: Good(s) bundles them.
Good(s) == Known(s) /\ Quiet(s)

\* Replacing job j by Absent, or by a known job that is quiet, keeps a store good.
LEMMA ReplaceGood ==
    ASSUME NEW s \in Store, NEW j \in Jobs, NEW r \in Job \cup {Absent}, Good(s),
           r = Absent \/ j \in added',
           j \in AtJobs /\ ~r.enabled => r.next \notin {"set", "due"},
           added \subseteq added'
    PROVE  /\ \A i \in Jobs : [s EXCEPT ![j] = r][i] # Absent => i \in added'
           /\ \A i \in AtJobs :
                ~[s EXCEPT ![j] = r][i].enabled => [s EXCEPT ![j] = r][i].next \notin {"set", "due"}
<1> DEFINE t == [s EXCEPT ![j] = r]
<1>1. t[j] = r /\ \A i \in Jobs : i # j => t[i] = s[i]
  BY DEF Store
<1> HIDE DEF t
<1>2. \A i \in Jobs : t[i] # Absent => i \in added'
  BY <1>1 DEF Good, Known
<1>3. \A i \in AtJobs : ~t[i].enabled => t[i].next \notin {"set", "due"}
  BY <1>1 DEF Good, Quiet, Jobs
<1> QED
  BY <1>2, <1>3 DEF t

LEMMA NextRunGood ==
    \A j \in Jobs : /\ [enabled |-> TRUE, next |-> NextRun(j)] \in Job
                   /\ [enabled |-> TRUE, next |-> NextRun(j)].enabled
                   /\ [enabled |-> TRUE, next |-> NextRun(j)].next = NextRun(j)
  BY NextRunFacts, RecordFacts

\* jobs.json and the stores of other processes hold known, quiet jobs only.
LEMMA StepFiles ==
    CronInv /\ [Next]_vars
        => Good(Loaded)' /\ (cli' # Torn => Good(cli)')
<1> SUFFICES ASSUME CronInv, [Next]_vars
             PROVE Good(Loaded)' /\ (cli' # Torn => Good(cli)')
  OBVIOUS
<1> USE DEF jobVars, loopVars, envVars
<1>a. /\ TypeOK /\ Loaded \in Store
      /\ Good(store) /\ Good(Loaded) /\ (cli # Torn => Good(cli) /\ cli \in Store)
  BY LoadedType DEF CronInv, Stores, Good, TypeOK
<1>0. added \subseteq added'
  BY DEF vars, Next, Scheduler, Tool, Cli, Truncate, Saved, SaveFails, Boot, Stop, Exit, Crash,
     Dies, TimePasses, CheckJobs, CheckDone, Finish, LookUp, CallHandler, HandlerReturns, AddJob, UpdateJob, RemoveJob,
     EnableJob, CliLoad, CliAdd, CliRemove, CliEnable
<1>1. CASE UNCHANGED <<disk, cli>>
  BY <1>1, <1>0, <1>a DEF Good, Known, Quiet, Loaded
<1>2. CASE Truncate
  <2>1. Loaded' = Empty /\ UNCHANGED <<cli, added>>
    BY <1>2 DEF Truncate, Loaded
  <2> QED
    BY <2>1, <1>a, RecordFacts DEF Good, Known, Quiet, Jobs
<1>3. CASE Saved
  <2>1. Loaded' \in {store, Empty} /\ UNCHANGED <<cli, added>>
    BY <1>3 DEF Saved, Loaded
  <2> QED
    BY <2>1, <1>a, RecordFacts DEF Good, Known, Quiet, Jobs
<1>4. CASE CliLoad
  BY <1>4, <1>a DEF CliLoad, Good, Known, Quiet, Loaded
<1>5. ASSUME NEW j \in Jobs, CliAdd(j) PROVE Good(Loaded)' /\ cli' = Torn
  <2> DEFINE r == [enabled |-> TRUE, next |-> NextRun(j)]
  <2>1. Loaded' \in {[cli EXCEPT ![j] = r], Empty} /\ cli # Torn /\ cli' = Torn /\ j \in added'
    BY <1>5 DEF CliAdd, CliSave, Loaded
  <2>2. r \in Job /\ r.enabled
    BY NextRunGood
  <2> DEFINE t == [cli EXCEPT ![j] = r]
  <2>3. /\ \A i \in Jobs : t[i] # Absent => i \in added'
        /\ \A i \in AtJobs : ~t[i].enabled => t[i].next \notin {"set", "due"}
    BY <2>2, <2>1, <1>a, <1>0, ReplaceGood, RecordFacts
  <2> HIDE DEF t
  <2>4. CASE Loaded' = t
    BY <2>1, <2>3, <2>4 DEF Good, Known, Quiet
  <2>5. CASE Loaded' = Empty
    BY <2>1, <2>5, RecordFacts DEF Good, Known, Quiet, Jobs
  <2> QED
    BY <2>1, <2>4, <2>5 DEF t
<1>6. ASSUME NEW j \in Jobs, CliRemove(j) PROVE Good(Loaded)' /\ cli' = Torn
  <2>1. Loaded' \in {[cli EXCEPT ![j] = Absent], Empty} /\ cli # Torn /\ cli' = Torn
    BY <1>6 DEF CliRemove, CliSave, Loaded
  <2> DEFINE t == [cli EXCEPT ![j] = Absent]
  <2>3. /\ \A i \in Jobs : t[i] # Absent => i \in added'
        /\ \A i \in AtJobs : ~t[i].enabled => t[i].next \notin {"set", "due"}
    BY <2>1, <1>a, <1>0, ReplaceGood, RecordFacts
  <2> HIDE DEF t
  <2>4. CASE Loaded' = t
    BY <2>1, <2>3, <2>4 DEF Good, Known, Quiet
  <2>5. CASE Loaded' = Empty
    BY <2>1, <2>5, RecordFacts DEF Good, Known, Quiet, Jobs
  <2> QED
    BY <2>1, <2>4, <2>5 DEF t
<1>7. ASSUME NEW j \in Jobs, NEW on \in BOOLEAN, CliEnable(j, on)
      PROVE Good(Loaded)' /\ cli' = Torn
  <2>1. /\ Loaded' \in {[cli EXCEPT ![j] = WithEnabled(j, on)], Empty}
        /\ cli # Torn /\ cli' = Torn /\ j \in added'
    BY <1>7, <1>a DEF CliEnable, CliSave, Loaded, Good, Known
  <2>2. WithEnabled(j, on) \in Job /\ (~WithEnabled(j, on).enabled => WithEnabled(j, on).next = "none")
    BY WithEnabledFacts
  <2> DEFINE t == [cli EXCEPT ![j] = WithEnabled(j, on)]
  <2>3. /\ \A i \in Jobs : t[i] # Absent => i \in added'
        /\ \A i \in AtJobs : ~t[i].enabled => t[i].next \notin {"set", "due"}
    BY <2>2, <2>1, <1>a, <1>0, ReplaceGood, RecordFacts
  <2> HIDE DEF t
  <2>4. CASE Loaded' = t
    BY <2>1, <2>3, <2>4 DEF Good, Known, Quiet
  <2>5. CASE Loaded' = Empty
    BY <2>1, <2>5, RecordFacts DEF Good, Known, Quiet, Jobs
  <2> QED
    BY <2>1, <2>4, <2>5 DEF t
<1> QED
  BY <1>1, <1>2, <1>3, <1>4, <1>5, <1>6, <1>7
  DEF vars, Next, Scheduler, Tool, Cli, SaveFails, Boot, Stop, Exit, Crash,
      Dies, TimePasses, CheckJobs, CheckDone, Finish, LookUp, CallHandler, HandlerReturns, AddJob, UpdateJob, RemoveJob,
      EnableJob

-----------------------------------------------------------------------------
\* The record r of job j is in order: Good and Timely, for one job.
Fine(r, j) ==
    /\ r # Absent => j \in added
    /\ j \in AtJobs => /\ ~r.enabled => r.next \notin {"set", "due"}
                       /\ r.next = "due" => j \in passed

LEMMA AbsentFine == \A j \in Jobs : Fine(Absent, j) /\ Fine(Absent, j)'
  BY RecordFacts DEF Fine

LEMMA GoodFine == CronInv => \A j \in Jobs : Fine(store[j], j) /\ Fine(copies[j], j)
  BY DEF CronInv, Stores, Known, Quiet, Timely, Fine

\* The jobs in memory, and the copies callers hold, stay in order.
LEMMA StepMemory ==
    CronInv /\ [Next]_vars
        => \A i \in Jobs :
            /\ Fine(store[i], i)' /\ Fine(copies[i], i)'
            /\ i \in Recurring => copies'[i].next # "none"
<1> SUFFICES ASSUME CronInv, [Next]_vars, NEW i \in Jobs
             PROVE /\ Fine(store[i], i)' /\ Fine(copies[i], i)'
                   /\ i \in Recurring => copies'[i].next # "none"
  OBVIOUS
<1> DEFINE Goal == /\ Fine(store[i], i)' /\ Fine(copies[i], i)'
                   /\ i \in Recurring => copies'[i].next # "none"
<1> USE DEF jobVars, loopVars, envVars
<1>a. /\ TypeOK
      /\ store[i] \in Job \cup {Absent} /\ copies[i] \in Job \cup {Absent}
      /\ Fine(store[i], i) /\ Fine(copies[i], i)
      /\ i \in Recurring => copies[i].next # "none"
  BY GoodFine DEF CronInv, Stores, TypeOK, Store
<1>b. /\ \A j \in Jobs, r \in Job \cup {Absent} :
            [store EXCEPT ![j] = r][i] = IF i = j THEN r ELSE store[i]
      /\ \A j \in Jobs, r \in Job \cup {Absent} :
            [copies EXCEPT ![j] = r][i] = IF i = j THEN r ELSE copies[i]
  BY <1>a DEF TypeOK, Store
<1>1. CASE UNCHANGED <<store, copies, added, passed>>
  BY <1>1, <1>a DEF Fine
<1>2. CASE Boot
  <2>1. Loaded[i] \in Job \cup {Absent} /\ Loaded \in Store
    BY <1>a, LoadedType DEF Store
  <2>2. store'[i] \in {Loaded[i], Recomputed(Loaded)[i]} /\ UNCHANGED <<copies, added, passed>>
    BY <1>2 DEF Boot
  <2>3. (Loaded[i] # Absent => i \in added)
        /\ (i \in AtJobs /\ ~Loaded[i].enabled => Loaded[i].next \notin {"set", "due"})
    BY DEF CronInv, Stores, Known, Quiet
  <2>4. CASE store'[i] = Recomputed(Loaded)[i]
    BY <2>1, <2>2, <2>3, <2>4, <1>a, RecomputedFacts, NextRunFacts DEF Fine
  <2>5. CASE store'[i] = Loaded[i] /\ disk = Torn
    BY <2>2, <2>5, <1>a, RecordFacts DEF Fine, Loaded
  <2> QED
    BY <1>2, <2>4, <2>5 DEF Boot
<1>3. CASE Exit \/ Crash
  <2>1. store'[i] = Absent /\ copies'[i] = Absent
    BY <1>3, RecordFacts DEF Exit, Crash, Dies
  <2> QED
    BY <2>1, RecordFacts DEF Fine
<1>4. ASSUME NEW j \in Jobs, TimePasses(j) PROVE Goal
  <2>1. /\ store'[i] = IF i = j THEN Aged(store[i]) ELSE store[i]
        /\ copies'[i] = IF i = j THEN Aged(copies[i]) ELSE copies[i]
        /\ added' = added /\ passed \subseteq passed'
        /\ i = j /\ i \in AtJobs => i \in passed'
    BY <1>4, <1>a DEF TimePasses, TypeOK, Store
  <2> QED
    BY <2>1, <1>a, AgedFacts DEF Fine
<1>5. CASE CheckJobs
  <2>1. /\ store'[i] = IF IsDue(i) THEN [store[i] EXCEPT !.next = "none"] ELSE store[i]
        /\ UNCHANGED <<copies, added, passed>>
    BY <1>5 DEF CheckJobs
  <2>2. CASE IsDue(i)
    <3>1. store[i] \in Job
      BY <2>2, <1>a, RecordFacts DEF IsDue
    <3>2. store'[i].next = "none" /\ store[i] # Absent
      BY <2>1, <2>2, <3>1, ExceptFacts, RecordFacts
    <3> QED
      BY <2>1, <3>2, <1>a DEF Fine
  <2> QED
    BY <2>1, <2>2, <1>a DEF Fine
<1>6. CASE Finish
  <2>1. current \in Jobs /\ UNCHANGED <<copies, added, passed>>
    BY <1>6 DEF Finish, CronInv, Looping, TypeOK
  <2>2. CASE i = current /\ Present(i) /\ i \notin AtJobs
    <3>1. store[i] # Absent /\ i \in added
      BY <2>2, <1>a DEF Present, Fine
    <3> QED
      BY <2>1, <2>2, <3>1, <1>a DEF Fine
  <2>3. CASE i = current /\ Present(i) /\ i \in AtJobs
    <3>1. store'[i] = Absent
      BY <1>6, <2>1, <2>3, <1>a DEF Finish, TypeOK, Store
    <3> QED
      BY <2>1, <3>1, <1>a, RecordFacts DEF Fine
  <2>4. CASE i # current \/ ~Present(i)
    <3>1. store'[i] = store[i]
      BY <1>6, <2>1, <2>4, <1>a DEF Finish, TypeOK, Store
    <3> QED
      BY <2>1, <3>1, <1>a DEF Fine
  <2> QED
    BY <2>2, <2>3, <2>4
<1>7. ASSUME NEW j \in Jobs, AddJob(j) PROVE Goal
  <2> DEFINE r == [enabled |-> TRUE, next |-> NextRun(j)]
  <2>1. r \in Job /\ r.enabled /\ r.next = NextRun(j)
    BY NextRunGood
  <2> HIDE DEF r
  <2>2. /\ store'[i] = IF i = j THEN r ELSE store[i]
        /\ copies'[i] \in {IF i = j THEN r ELSE copies[i], copies[i]}
        /\ added' = added \cup {j} /\ passed' = passed
    <3>1. store' = [store EXCEPT ![j] = r]
      BY <1>7 DEF AddJob, r
    <3>2. store'[j] = r
      <4>1. j \in DOMAIN store
        BY <1>a DEF TypeOK, Store
      <4> QED
        BY <3>1, <4>1
    <3>3. store'[i] = IF i = j THEN r ELSE store[i]
      BY <3>1, <2>1, <1>b
    <3>4. copies' \in {[copies EXCEPT ![j] = r], copies}
      BY <1>7, <3>2 DEF AddJob
    <3>5. copies'[i] \in {IF i = j THEN r ELSE copies[i], copies[i]}
      <4>1. [copies EXCEPT ![j] = r][i] = IF i = j THEN r ELSE copies[i]
        BY <2>1, <1>b
      <4> QED
        BY <3>4, <4>1
    <3> QED
      BY <1>7, <3>3, <3>5 DEF AddJob
  <2>3. NextRun(j) \in {"none", "set"} /\ (j \in Recurring => NextRun(j) = "set")
    BY NextRunFacts
  <2> QED
    BY <2>1, <2>2, <2>3, <1>a DEF Fine
<1>8. ASSUME NEW j \in Jobs, UpdateJob(j) PROVE Goal
  <2>1. /\ store'[i] \in {store[i], copies[i]}
        /\ copies'[i] \in {copies[i], Absent}
        /\ UNCHANGED <<added, passed>>
    BY <1>8, <1>a DEF UpdateJob, TypeOK, Store
  <2> QED
    BY <2>1, <1>a, RecordFacts DEF Fine
<1>9. ASSUME NEW j \in Jobs, RemoveJob(j) PROVE Goal
  <2>1. store'[i] \in {store[i], Absent} /\ UNCHANGED <<copies, added, passed>>
    BY <1>9, <1>a DEF RemoveJob, TypeOK, Store
  <2> QED
    BY <2>1, <1>a, RecordFacts DEF Fine
<1>10. ASSUME NEW j \in Jobs, NEW on \in BOOLEAN, EnableJob(j, on) PROVE Goal
  <2>1. /\ store'[i] = IF i = j THEN WithEnabled(j, on) ELSE store[i]
        /\ store[j] # Absent
        /\ UNCHANGED <<copies, added, passed>>
    BY <1>10, <1>b, WithEnabledFacts DEF EnableJob, Present
  <2> QED
    BY <2>1, <1>a, WithEnabledFacts, NextRunFacts DEF Fine
<1>11. ASSUME NEW j \in Jobs, CliAdd(j) PROVE Goal
  BY <1>11, <1>a DEF CliAdd, CliSave, Fine
<1> QED
  BY <1>1, <1>2, <1>3, <1>4, <1>5, <1>6, <1>7, <1>8, <1>9, <1>10, <1>11
  DEF vars, Next, Scheduler, Tool, Cli, Truncate, Saved, SaveFails, Stop, CheckDone, LookUp, CallHandler,
      HandlerReturns,
      CliLoad, CliRemove, CliEnable, CliSave

LEMMA StepStores == CronInv /\ [Next]_vars => Stores'
<1> SUFFICES ASSUME CronInv, [Next]_vars PROVE Stores'
  OBVIOUS
<1>1. \A i \in Jobs :
        /\ Fine(store[i], i)' /\ Fine(copies[i], i)'
        /\ i \in Recurring => copies'[i].next # "none"
  BY StepMemory
<1>2. Good(Loaded)' /\ (cli' # Torn => Good(cli)')
  BY StepFiles
<1> QED
  BY <1>1, <1>2 DEF Stores, Good, Known, Quiet, Timely, Fine, Jobs

-----------------------------------------------------------------------------
\* The account of one one-time job.
LEMMA StepSpent == CronInv /\ [Next]_vars => Spent'
<1> SUFFICES ASSUME CronInv, [Next]_vars, NEW i \in AtJobs
             PROVE  (/\ runs[i] \in {0, 1}
                     /\ i \in due => runs[i] = 0 /\ i \in passed
                     /\ loop = "found" /\ current = i => runs[i] = 0 /\ i \in passed /\ i \in added
                     /\ runs[i] = 1 => i \in passed /\ i \in added
                     /\ runs[i] = 1 /\ current # i
                         => store[i].next # "due" /\ (store[i] # Absent => copies[i] = Absent))'
  BY DEF Spent
<1> DEFINE Account == /\ runs[i] \in {0, 1}
                      /\ i \in due => runs[i] = 0 /\ i \in passed
                      /\ loop = "found" /\ current = i => runs[i] = 0 /\ i \in passed /\ i \in added
                      /\ runs[i] = 1 => i \in passed /\ i \in added
                      /\ runs[i] = 1 /\ current # i
                          => store[i].next # "due" /\ (store[i] # Absent => copies[i] = Absent)
<1> USE DEF jobVars, loopVars, envVars
<1>a. /\ TypeOK /\ Account /\ Looping /\ i \in Jobs
      /\ store[i] \in Job \cup {Absent} /\ copies[i] \in Job \cup {Absent}
      /\ Fine(store[i], i) /\ Fine(copies[i], i)
  BY GoodFine DEF CronInv, Spent, TypeOK, Store, Jobs
<1>b. /\ \A j \in Jobs, r \in Job \cup {Absent} :
            [store EXCEPT ![j] = r][i] = IF i = j THEN r ELSE store[i]
      /\ \A j \in Jobs, r \in Job \cup {Absent} :
            [copies EXCEPT ![j] = r][i] = IF i = j THEN r ELSE copies[i]
  BY <1>a DEF TypeOK, Store
<1>1. CASE UNCHANGED <<store, copies, added, passed, runs, due, loop, current>>
  BY <1>1, <1>a
<1>2. CASE Boot
  <2>1. copies[i] = Absent /\ UNCHANGED <<copies, added, passed, runs, due, loop, current>>
    BY <1>2, <1>a, RecordFacts DEF Boot, Looping
  <2>2. runs[i] = 1 => store'[i].next # "due"
    <3> SUFFICES ASSUME runs[i] = 1 PROVE store'[i].next # "due"
      OBVIOUS
    <3>1. Loaded \in Store /\ Loaded[i] \in Job \cup {Absent}
      BY <1>a, LoadedType DEF Store
    <3>2. ~Loaded[i].enabled => Loaded[i].next # "due"
      BY DEF CronInv, Stores, Quiet
    <3>3. CASE store' = Recomputed(Loaded)
      BY <3>1, <3>2, <3>3, <1>a, RecomputedFacts, NextRunFacts
    <3>4. CASE disk = Torn /\ store' = Loaded
      BY <3>4, <1>a, RecordFacts DEF Loaded
    <3> QED
      BY <1>2, <3>3, <3>4 DEF Boot
  <2> QED
    BY <2>1, <2>2, <1>a
<1>3. CASE Exit \/ Crash
  <2>1. store'[i] = Absent /\ due' = {} /\ loop' = "ticker" /\ UNCHANGED <<added, passed, runs>>
    BY <1>3, <1>a, RecordFacts DEF Exit, Crash, Dies
  <2> QED
    BY <2>1, <1>a, RecordFacts
<1>4. ASSUME NEW j \in Jobs, TimePasses(j) PROVE Account'
  <2>1. /\ store'[i] = IF i = j THEN Aged(store[i]) ELSE store[i]
        /\ copies'[i] = IF i = j THEN Aged(copies[i]) ELSE copies[i]
        /\ UNCHANGED <<added, runs, due, loop, current>> /\ passed \subseteq passed'
        /\ i = j => i \notin passed
    BY <1>4, <1>a DEF TimePasses, TypeOK, Store
  <2> QED
    BY <2>1, <1>a, AgedFacts
<1>5. CASE CheckJobs
  <2>1. /\ store'[i] = IF IsDue(i) THEN [store[i] EXCEPT !.next = "none"] ELSE store[i]
        /\ due' = {j \in Jobs : IsDue(j)}
        /\ UNCHANGED <<copies, added, passed, runs, current>>
        /\ current # i /\ loop' = "run"
    BY <1>5, <1>a, KindAssumption DEF CheckJobs, Looping
  <2>2. CASE IsDue(i)
    <3>1. store[i] \in Job /\ store[i].next = "due" /\ i \in passed
      BY <2>2, <1>a, RecordFacts DEF IsDue, Fine
    <3>2. store'[i].next = "none"
      BY <2>1, <2>2, <3>1, ExceptFacts
    <3> QED
      BY <2>1, <3>1, <3>2, <1>a
  <2> QED
    BY <2>1, <2>2, <1>a
<1>6. ASSUME NEW j \in Jobs, LookUp(j) PROVE Account'
  <2>1. /\ due' = due \ {j} /\ j \in due
        /\ UNCHANGED <<store, copies, added, passed, runs>>
        /\ current = NoJob /\ loop = "run"
    BY <1>6, <1>a DEF LookUp, Looping
  <2>2. CASE Present(j)
    <3>1. current' = j
      BY <1>6, <2>2 DEF LookUp
    <3>2. CASE i = j
      BY <2>1, <2>2, <3>1, <3>2, <1>a DEF Present, Fine
    <3>3. CASE i # j
      BY <2>1, <3>1, <3>3, <1>a, KindAssumption
    <3> QED
      BY <3>2, <3>3
  <2>3. CASE ~Present(j)
    BY <1>6, <2>1, <2>3, <1>a DEF LookUp
  <2> QED
    BY <2>2, <2>3
<1>14. CASE CallHandler
  <2>1. /\ UNCHANGED <<store, copies, added, passed, due, current>>
        /\ loop = "found" /\ loop' = "call"
        /\ runs'[i] = IF i = current /\ runs[i] < 2 THEN runs[i] + 1 ELSE runs[i]
    BY <1>14 DEF CallHandler
  <2>2. CASE i = current
    BY <2>1, <2>2, <1>a DEF Looping
  <2>3. CASE i # current
    BY <2>1, <2>3, <1>a
  <2> QED
    BY <2>2, <2>3
<1>15. CASE HandlerReturns
  BY <1>15, <1>a DEF HandlerReturns
<1>7. CASE Finish
  <2>1. /\ current \in Jobs /\ current' = NoJob /\ current \notin due /\ loop' = "run"
        /\ UNCHANGED <<copies, added, passed, runs, due>>
    BY <1>7, <1>a DEF Finish, Looping, TypeOK
  <2>2. CASE i = current
    <3>1. store'[i] = Absent
      BY <1>7, <2>1, <2>2, <1>a DEF Finish, TypeOK, Store, Present
    <3> QED
      BY <2>1, <3>1, <1>a, RecordFacts
  <2>3. CASE i # current
    <3>1. store'[i] = store[i]
      BY <1>7, <2>1, <2>3, <1>a DEF Finish, TypeOK, Store
    <3> QED
      BY <2>1, <2>3, <3>1, <1>a
  <2> QED
    BY <2>2, <2>3
<1>8. ASSUME NEW j \in Jobs, AddJob(j) PROVE Account'
  <2>1. /\ UNCHANGED <<passed, runs, due, loop, current>> /\ added \subseteq added' /\ j \notin added
        /\ i # j => store'[i] = store[i] /\ copies'[i] = copies[i]
    BY <1>8, <1>a DEF AddJob, TypeOK, Store
  <2>2. i = j => runs[i] = 0
    BY <2>1, <1>a
  <2> QED
    BY <2>1, <2>2, <1>a
<1>9. ASSUME NEW j \in Jobs, UpdateJob(j) PROVE Account'
  <2>1. /\ UNCHANGED <<added, passed, runs, due, loop, current>> /\ copies[j] # Absent
        /\ copies'[i] \in {copies[i], Absent}
        /\ i # j => store'[i] = store[i]
        /\ i = j /\ store[i] = Absent => store'[i] = store[i]
    BY <1>9, <1>a DEF UpdateJob, TypeOK, Store, Present
  <2> QED
    BY <2>1, <1>a
<1>10. ASSUME NEW j \in Jobs, RemoveJob(j) PROVE Account'
  <2>1. store'[i] \in {store[i], Absent} /\ UNCHANGED <<copies, added, passed, runs, due, loop, current>>
    BY <1>10, <1>a DEF RemoveJob, TypeOK, Store
  <2> QED
    BY <2>1, <1>a, RecordFacts
<1>11. ASSUME NEW j \in Jobs, NEW on \in BOOLEAN, EnableJob(j, on) PROVE Account'
  <2>1. /\ store'[i] = IF i = j THEN WithEnabled(j, on) ELSE store[i]
        /\ store[j] # Absent
        /\ UNCHANGED <<copies, added, passed, runs, due, loop, current>>
    BY <1>11, <1>b, WithEnabledFacts DEF EnableJob, Present
  <2>2. WithEnabled(j, on).next \in {"none", "set"}
    BY WithEnabledFacts, NextRunFacts
  <2> QED
    BY <2>1, <2>2, <1>a
<1>12. ASSUME NEW j \in Jobs, CliAdd(j) PROVE Account'
  BY <1>12, <1>a DEF CliAdd, CliSave
<1>13. CASE CheckDone
  BY <1>13, <1>a DEF CheckDone
<1> QED
  BY <1>1, <1>2, <1>3, <1>4, <1>5, <1>6, <1>7, <1>8, <1>9, <1>10, <1>11, <1>12, <1>13,
     <1>14, <1>15
  DEF vars, Next, Scheduler, Tool, Cli, Truncate, Saved, SaveFails, Stop,
      CliLoad, CliRemove, CliEnable, CliSave

-----------------------------------------------------------------------------
\* One recurring job keeps its place: a next run, the tick's list, or the handler.
LEMMA StepScheduled == CronInv /\ [Next]_vars => Scheduled'
<1> SUFFICES ASSUME CronInv, [Next]_vars, NEW i \in Recurring
             PROVE  (svc # "off" /\ store[i].enabled
                        => store[i].next # "none" \/ i \in due \/ current = i)'
  BY DEF Scheduled
<1> DEFINE Place == svc # "off" /\ store[i].enabled
                        => store[i].next # "none" \/ i \in due \/ current = i
<1> USE DEF jobVars, loopVars, envVars
<1>a. /\ TypeOK /\ Place /\ Looping /\ i \in Jobs /\ i \notin AtJobs
      /\ store[i] \in Job \cup {Absent} /\ copies[i].next # "none"
  BY KindAssumption DEF CronInv, Scheduled, Stores, TypeOK, Store, Jobs
<1>b. \A j \in Jobs, r \in Job \cup {Absent} :
        [store EXCEPT ![j] = r][i] = IF i = j THEN r ELSE store[i]
  BY <1>a DEF TypeOK, Store
<1>1. CASE UNCHANGED <<store, due, current>> /\ (svc' # "off" => svc # "off")
  BY <1>1, <1>a
<1>2. CASE Boot
  <2>1. CASE svc' = "off"
    BY <2>1
  <2>2. CASE store' = Recomputed(Loaded)
    <3>1. Loaded \in Store
      BY <1>a, LoadedType
    <3> QED
      BY <2>2, <3>1, <1>a, RecomputedFacts, NextRunFacts
  <2> QED
    BY <1>2, <2>1, <2>2 DEF Boot
<1>3. CASE Exit \/ Crash
  BY <1>3 DEF Exit, Crash, Dies
<1>4. ASSUME NEW j \in Jobs, TimePasses(j) PROVE Place'
  <2>1. /\ store'[i] = IF i = j THEN Aged(store[i]) ELSE store[i]
        /\ UNCHANGED <<svc, due, current>>
    BY <1>4, <1>a DEF TimePasses, TypeOK, Store
  <2> QED
    BY <2>1, <1>a, AgedFacts
<1>5. CASE CheckJobs
  <2>1. /\ store'[i] = IF IsDue(i) THEN [store[i] EXCEPT !.next = "none"] ELSE store[i]
        /\ due' = {j \in Jobs : IsDue(j)}
        /\ UNCHANGED <<svc, current>>
        /\ due = {}
    BY <1>5, <1>a DEF CheckJobs, Looping
  <2> QED
    BY <2>1, <1>a
<1>14. CASE CallHandler \/ HandlerReturns
  BY <1>14, <1>a DEF CallHandler, HandlerReturns
<1>6. ASSUME NEW j \in Jobs, LookUp(j) PROVE Place'
  <2>1. /\ due' = due \ {j} /\ UNCHANGED <<svc, store>> /\ current = NoJob
        /\ IF store[j] # Absent THEN current' = j ELSE current' = current
    BY <1>6, <1>a DEF LookUp, Looping, Present
  <2> QED
    BY <2>1, <1>a, KindAssumption, RecordFacts
<1>7. CASE Finish
  <2>1. current \in Jobs /\ UNCHANGED <<svc, due>>
    BY <1>7, <1>a DEF Finish, Looping, TypeOK
  <2>2. CASE i = current /\ store[i] # Absent
    <3>1. store[i] \in Job /\ store'[i] = [store[i] EXCEPT !.next = NextRun(i)]
      BY <1>7, <2>1, <2>2, <1>a DEF Finish, TypeOK, Store, Present
    <3>2. NextRun(i) = "set"
      BY <1>a, NextRunFacts
    <3>3. store'[i].next = "set"
      BY <3>1, <3>2, ExceptFacts
    <3> QED
      BY <3>3
  <2>3. CASE i = current /\ store[i] = Absent
    <3>1. store'[i] = Absent
      BY <1>7, <2>1, <2>3, <1>a DEF Finish, Present
    <3> QED
      BY <3>1, RecordFacts
  <2>4. CASE i # current
    <3>1. store'[i] = store[i]
      BY <1>7, <2>1, <2>4, <1>a DEF Finish, TypeOK, Store
    <3> QED
      BY <2>1, <2>4, <3>1, <1>a
  <2> QED
    BY <2>2, <2>3, <2>4
<1>8. ASSUME NEW j \in Jobs, AddJob(j) PROVE Place'
  <2>1. UNCHANGED <<svc, due, current>>
    BY <1>8 DEF AddJob
  <2>2. CASE i = j
    <3>1. store'[i] = [enabled |-> TRUE, next |-> NextRun(i)]
      BY <1>8, <2>2, <1>a DEF AddJob, TypeOK, Store
    <3> QED
      BY <3>1, <1>a, NextRunFacts, NextRunGood
  <2>3. CASE i # j
    <3>1. store'[i] = store[i]
      BY <1>8, <2>3, <1>a DEF AddJob, TypeOK, Store
    <3> QED
      BY <3>1, <2>1, <1>a
  <2> QED
    BY <2>2, <2>3
<1>9. ASSUME NEW j \in Jobs, UpdateJob(j) PROVE Place'
  <2>1. store'[i] \in {store[i], copies[i]} /\ UNCHANGED <<svc, due, current>>
    BY <1>9, <1>a DEF UpdateJob, TypeOK, Store
  <2> QED
    BY <2>1, <1>a
<1>10. ASSUME NEW j \in Jobs, RemoveJob(j) PROVE Place'
  <2>1. store'[i] \in {store[i], Absent} /\ UNCHANGED <<svc, due, current>>
    BY <1>10, <1>a DEF RemoveJob, TypeOK, Store
  <2> QED
    BY <2>1, <1>a, RecordFacts
<1>11. ASSUME NEW j \in Jobs, NEW on \in BOOLEAN, EnableJob(j, on) PROVE Place'
  <2>1. /\ store'[i] = IF i = j THEN WithEnabled(j, on) ELSE store[i]
        /\ UNCHANGED <<svc, due, current>>
    BY <1>11, <1>b, WithEnabledFacts DEF EnableJob
  <2> QED
    BY <2>1, <1>a, WithEnabledFacts, NextRunFacts
<1>12. ASSUME NEW j \in Jobs, CliAdd(j) PROVE Place'
  BY <1>12, <1>a DEF CliAdd, CliSave
<1>13. CASE CheckDone \/ Truncate \/ Saved \/ SaveFails \/ Stop
  BY <1>13, <1>a DEF CheckDone, Truncate, Saved, SaveFails, Stop
<1> QED
  BY <1>1, <1>2, <1>3, <1>4, <1>5, <1>6, <1>7, <1>8, <1>9, <1>10, <1>11, <1>12, <1>13,
     <1>14
  DEF vars, Next, Scheduler, Tool, Cli, CliLoad, CliRemove, CliEnable, CliSave

-----------------------------------------------------------------------------
LEMMA Invariance == SafeSpec => []CronInv
<1>1. CronInv /\ [Next]_vars => CronInv'
  BY StepType, StepStores, StepLooping, StepSpent, StepScheduled DEF CronInv
<1> QED
  BY InitInv, <1>1, PTL DEF SafeSpec

\* The scheduler's variables keep their types.
THEOREM TypeCorrect == SafeSpec => []TypeOK
BY Invariance, PTL DEF CronInv

\* A one-time job runs at most once, whatever crashes, failed saves, stale
\* copies and other processes do to the store.
THEOREM OneTimeRunsOnce == SafeSpec => []AtMostOnce
<1>1. CronInv => AtMostOnce
  BY DEF CronInv, Spent, AtMostOnce
<1> QED
  BY Invariance, <1>1, PTL

\* An enabled recurring job always has a next run or is being run.
THEOREM RecurringScheduled == SafeSpec => []NeverStranded
<1>1. CronInv => NeverStranded
  BY DEF CronInv, Scheduled, NeverStranded
<1> QED
  BY Invariance, <1>1, PTL
-----------------------------------------------------------------------------
\* A job that RemoveJob removed is nowhere in the store of this process, whose
\* fresh ids are never given out again.
RemovedStays ==
    /\ \A j \in gone : j \in added /\ store[j] = Absent
    /\ ~up => gone = {}

LEMMA StepRemoved == CronInv /\ RemovedStays /\ [Next]_vars => RemovedStays'
<1> SUFFICES ASSUME CronInv, RemovedStays, [Next]_vars PROVE RemovedStays'
  OBVIOUS
<1> USE DEF RemovedStays, jobVars, loopVars, envVars
<1>a. /\ TypeOK /\ gone \subseteq Jobs /\ Known(store)
      /\ \A j \in Jobs : store[j] \in Job \cup {Absent}
  BY DEF CronInv, Stores, TypeOK, Store
<1>1. CASE UNCHANGED <<up, store, added, gone>>
  BY <1>1
<1>2. CASE Boot
  BY <1>2 DEF Boot
<1>3. CASE Exit \/ Crash
  BY <1>3 DEF Exit, Crash, Dies
<1>4. ASSUME NEW j \in Jobs, TimePasses(j) PROVE RemovedStays'
  <2>1. UNCHANGED <<up, added, gone>> /\ \A i \in Jobs : store[i] = Absent => store'[i] = Absent
    BY <1>4, <1>a, AgedFacts DEF TimePasses, TypeOK, Store
  <2> QED
    BY <2>1, <1>a
<1>5. CASE CheckJobs
  <2>1. UNCHANGED <<up, added, gone>> /\ \A i \in Jobs : store[i] = Absent => store'[i] = Absent
    BY <1>5, <1>a, RecordFacts DEF CheckJobs, IsDue
  <2> QED
    BY <2>1, <1>a
<1>6. CASE Finish
  <2>1. UNCHANGED <<up, added, gone>> /\ \A i \in Jobs : store[i] = Absent => store'[i] = Absent
    BY <1>6, <1>a DEF Finish, Present, TypeOK, Store
  <2> QED
    BY <2>1, <1>a
<1>7. ASSUME NEW j \in Jobs, AddJob(j) PROVE RemovedStays'
  <2>1. /\ UNCHANGED <<up, gone>> /\ added' = added \cup {j} /\ j \notin gone
        /\ \A i \in Jobs : i # j => store'[i] = store[i]
    BY <1>7, <1>a DEF AddJob, TypeOK, Store
  <2> QED
    BY <2>1, <1>a, <1>7 DEF AddJob, Free
<1>8. ASSUME NEW j \in Jobs, UpdateJob(j) PROVE RemovedStays'
  <2>1. UNCHANGED <<up, added, gone>> /\ \A i \in Jobs : store[i] = Absent => store'[i] = Absent
    BY <1>8, <1>a DEF UpdateJob, Present, TypeOK, Store
  <2> QED
    BY <2>1, <1>a
<1>9. ASSUME NEW j \in Jobs, RemoveJob(j) PROVE RemovedStays'
  <2>1. /\ UNCHANGED <<up, added>> /\ gone' = gone \cup {j} /\ up /\ j \in added
        /\ store'[j] = Absent /\ \A i \in Jobs : store[i] = Absent => store'[i] = Absent
    BY <1>9, <1>a DEF RemoveJob, Free, Present, Known, TypeOK, Store
  <2> QED
    BY <2>1, <1>a
<1>10. ASSUME NEW j \in Jobs, NEW on \in BOOLEAN, EnableJob(j, on) PROVE RemovedStays'
  <2>1. UNCHANGED <<up, added, gone>> /\ \A i \in Jobs : store[i] = Absent => store'[i] = Absent
    BY <1>10, <1>a DEF EnableJob, Present, TypeOK, Store
  <2> QED
    BY <2>1, <1>a
<1>11. ASSUME NEW j \in Jobs, CliAdd(j) PROVE RemovedStays'
  BY <1>11 DEF CliAdd, CliSave
<1> QED
  BY <1>1, <1>2, <1>3, <1>4, <1>5, <1>6, <1>7, <1>8, <1>9, <1>10, <1>11
  DEF vars, Next, Scheduler, Tool, Cli, Truncate, Saved, SaveFails, Stop, CheckDone, LookUp, CallHandler,
      HandlerReturns,
      CliLoad, CliRemove, CliEnable, CliSave

\* Only LookUp takes up a job, one that the store has.
LEMMA OnlyLookUpTakesUp ==
    ASSUME CronInv, Next, NEW j \in Jobs, current' = j, current # j
    PROVE  LookUp(j) /\ Present(j)
<1> USE DEF jobVars, loopVars, envVars
<1>1. current' # current /\ current' # NoJob
  BY KindAssumption
<1>2. PICK i \in Jobs : LookUp(i)
  BY <1>1
  DEF Next, Scheduler, Tool, Cli, Truncate, Saved, SaveFails, Boot, Stop, Exit, Crash, Dies,
      TimePasses, CheckJobs, CheckDone, CallHandler, HandlerReturns, Finish, AddJob, UpdateJob,
      RemoveJob, EnableJob, CliLoad, CliAdd, CliRemove, CliEnable, CliSave
<1> QED
  BY <1>1, <1>2 DEF LookUp

\* Whatever a step does, a job that was removed is not in the store after it.
LEMMA RemovedAbsent ==
    CronInv /\ RemovedStays /\ [Next]_vars => \A j \in gone : store'[j] = Absent
<1> SUFFICES ASSUME CronInv, RemovedStays, [Next]_vars, NEW j \in gone PROVE store'[j] = Absent
  OBVIOUS
<1>1. CASE j \in gone'
  BY <1>1, StepRemoved DEF RemovedStays
<1>2. CASE j \notin gone'
  <2>1. Dies
    BY <1>2 DEF vars, Next, Scheduler, Tool, Cli, Truncate, Saved, SaveFails, Boot, Stop, Exit, Crash,
       TimePasses, CheckJobs, CheckDone, LookUp, CallHandler, HandlerReturns, Finish, AddJob,
       UpdateJob, RemoveJob, EnableJob, CliLoad, CliAdd, CliRemove, CliEnable, CliSave,
       jobVars, loopVars, envVars
  <2> QED
    BY <2>1, RecordFacts DEF Dies, CronInv, TypeOK
<1> QED
  BY <1>1, <1>2

\* A job that RemoveJob removed is not put back in the store, nor taken up again
\* by the scheduler, in the process that removed it: neither the list of a tick,
\* nor the end of its run, nor a caller's copy brings it back.
THEOREM RemovedForGood == SafeSpec => RemovedStaysOut
<1>1. Init => RemovedStays
  BY DEF Init, RemovedStays
<1>2. CronInv /\ RemovedStays /\ [Next]_vars
        => [\A j \in gone : store'[j] = Absent /\ (current' = j => current = j)]_vars
  <2> SUFFICES ASSUME CronInv, RemovedStays, Next, NEW j \in gone
               PROVE  store'[j] = Absent /\ (current' = j => current = j)
    OBVIOUS
  <2>1. j \in Jobs /\ store[j] = Absent
    BY DEF CronInv, TypeOK, RemovedStays
  <2>2. store'[j] = Absent
    BY RemovedAbsent
  <2>3. current' = j => current = j
    BY <2>1, OnlyLookUpTakesUp DEF Present
  <2> QED
    BY <2>2, <2>3
<1> QED
  BY Invariance, StepRemoved, <1>1, <1>2, PTL DEF SafeSpec, RemovedStaysOut

-----------------------------------------------------------------------------
\* What is on disk but for the time that passed since.
OnDisk == disk # Torn /\ \A j \in Jobs : Aged(disk[j]) = Aged(store[j])

\* Without a failed write and another process: a scheduler that runs and writes
\* nothing has written what it holds, and one that starts is writing it
\* (a gateway whose file holds nothing at all never starts one).
Written ==
    /\ cliUsed = 0 => cli = Torn
    /\ svc # "off" => up /\ Jobs # {}
    /\ svc = "starting" => writing # "no"
    /\ svc = "running" /\ writing = "no" /\ faults = 0 /\ cliUsed = 0 => OnDisk

LEMMA AgedTwice ==
    ASSUME NEW r \in Job \cup {Absent}
    PROVE  Aged(Aged(r)) = Aged(r)
<1>1. Aged(r).next # "set"
  BY AgedFacts
<1> QED
  BY <1>1 DEF Aged

\* A file with the store of at least one job is not a torn file.
LEMMA StoreNotTorn ==
    ASSUME NEW s \in Store
    PROVE  s = Torn <=> Jobs = {}
<1>1. DOMAIN s = Jobs /\ DOMAIN Torn = {}
  BY DEF Store, Torn
<1>2. ASSUME Jobs = {} PROVE s = Torn
  <2>1. s \in [{} -> Job \cup {Absent}] /\ Torn \in [{} -> Job \cup {Absent}]
    BY <1>2 DEF Store, Torn
  <2> QED
    BY <2>1
<1> QED
  BY <1>1, <1>2

LEMMA StepWritten == CronInv /\ Written /\ [Next]_vars => Written'
<1> SUFFICES ASSUME CronInv, Written, [Next]_vars PROVE Written'
  OBVIOUS
<1> USE DEF Written, jobVars, loopVars, envVars
<1>a. /\ TypeOK /\ faults \in Nat /\ cliUsed \in Nat
      /\ \A j \in Jobs : store[j] \in Job \cup {Absent}
  BY BoundAssumption DEF CronInv, TypeOK, Store
<1>b. faults + 1 # 0 /\ cliUsed + 1 # 0
  BY <1>a
<1>1. CASE UNCHANGED <<up, svc, store, disk, writing, cli, cliUsed, faults>>
  BY <1>1 DEF OnDisk
<1>2. CASE Truncate
  BY <1>2 DEF Truncate
<1>3. CASE Saved
  <2>1. disk' = store /\ store' = store /\ up' = up /\ up /\ UNCHANGED <<cli, cliUsed, faults>>
        /\ svc' # "starting" /\ (svc' # "off" => svc # "off")
    BY <1>3 DEF Saved
  <2>2. svc' = "running" => OnDisk'
    BY <2>1, <1>a, StoreNotTorn DEF OnDisk, TypeOK
  <2> QED
    BY <2>1, <2>2
<1>4. CASE SaveFails
  BY <1>4, <1>b DEF SaveFails
<1>5. CASE Boot
  <2>1. disk # Torn => Jobs # {}
    BY <1>a, StoreNotTorn DEF TypeOK
  <2> QED
    BY <1>5, <2>1 DEF Boot
<1>6. CASE Stop
  BY <1>6 DEF Stop
<1>7. CASE Exit \/ Crash
  BY <1>7 DEF Exit, Crash, Dies
<1>8. ASSUME NEW j \in Jobs, TimePasses(j) PROVE Written'
  <2>1. /\ UNCHANGED <<up, svc, disk, writing, cli, cliUsed, faults>>
        /\ \A i \in Jobs : Aged(store'[i]) = Aged(store[i])
    BY <1>8, <1>a, AgedTwice DEF TimePasses, TypeOK, Store
  <2> QED
    BY <2>1 DEF OnDisk
<1>9. CASE CheckJobs
  BY <1>9 DEF CheckJobs, Free
<1>10. CASE Finish
  BY <1>10 DEF Finish, OnDisk, Free
<1>11. ASSUME NEW j \in Jobs, AddJob(j) \/ RemoveJob(j) PROVE Written'
  BY <1>11 DEF AddJob, RemoveJob, Free
<1>12. ASSUME NEW j \in Jobs, UpdateJob(j) PROVE Written'
  BY <1>12 DEF UpdateJob, OnDisk, Free
<1>13. ASSUME NEW j \in Jobs, NEW on \in BOOLEAN, EnableJob(j, on) PROVE Written'
  BY <1>13 DEF EnableJob, Free
<1>14. CASE CliLoad
  BY <1>14, <1>b DEF CliLoad
<1>15. ASSUME NEW j \in Jobs, NEW on \in BOOLEAN, CliAdd(j) \/ CliRemove(j) \/ CliEnable(j, on)
       PROVE  Written'
  BY <1>15 DEF CliAdd, CliRemove, CliEnable, CliSave
<1> QED
  BY <1>1, <1>2, <1>3, <1>4, <1>5, <1>6, <1>7, <1>8, <1>9, <1>10, <1>11, <1>12, <1>13, <1>14, <1>15
  DEF vars, Next, Scheduler, Tool, Cli, CheckDone, LookUp, CallHandler,
      HandlerReturns

\* Between critical sections jobs.json is what the scheduler holds, for any jobs:
\* no operation that changes the store forgets to save it.
THEOREM DiskKeepsUp == SafeSpec => []DiskCurrent
<1>1. Init => Written
  BY DEF Init, Written
<1>2. Written => DiskCurrent
  BY DEF Written, DiskCurrent, OnDisk, Free
<1> QED
  BY Invariance, StepWritten, <1>1, <1>2, PTL DEF SafeSpec
=============================================================================
