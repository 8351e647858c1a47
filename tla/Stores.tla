-------------------------------- MODULE Stores --------------------------------
(***************************************************************************)
(* What the agent keeps besides its sessions: the daily notes and the      *)
(* memories, in Oracle (pkg/oracle) or, when the database cannot be        *)
(* reached at the start, in files (pkg/agent/memory.go); and the rows of   *)
(* the sessions in Oracle.  No method takes a lock around its statements,  *)
(* and turns of the chat, of cron jobs and of the heartbeat call them at   *)
(* the same time.  One note entry and one text stand for any of their      *)
(* kind; a level stands for an importance.                                 *)
(***************************************************************************)
EXTENDS Naturals, Sequences, FiniteSets

CONSTANTS
    Turns,          \* turns that run at the same time
    Entries,        \* what write_daily_note is called with, once each
    Texts,          \* what remember is called with
    Alike,          \* pairs {x, y} of texts with embeddings closer than 0.05
    MaxDay,         \* bound: days
    MaxMemories,    \* bound: rows of PICO_MEMORIES
    MaxVersion,     \* bound: versions of the session
    MaxFaults       \* bound: statements that fail

ASSUME StoresAssumption ==
    /\ Alike \subseteq SUBSET Texts
    /\ MaxDay \in Nat /\ MaxMemories \in Nat /\ MaxVersion \in Nat /\ MaxFaults \in Nat

Days == 0 .. MaxDay
Near(x, y) == x = y \/ {x, y} \in Alike
Levels == 1 .. 2
Backends == {"oracle", "files"}

VARIABLES
    backend,    \* of the running process, "down" when there is none
    embedding,  \* mode of the embedding service
    today,      \* TRUNC(SYSDATE), and the date of the file
    noteRows,   \* PICO_DAILY_NOTES: of a day, oldest update first
    noteFiles,  \* memory/YYYYMM/YYYYMMDD.md
    memories,   \* PICO_MEMORIES
    version,    \* of the session in memory: the messages added to it
    sessionRow, \* PICO_SESSIONS: the version saved last
    job,        \* of each turn: the call it is in
    faults,     \* bound: failed statements
    owed,       \* history: entries written alone, since the note was last given up
    savedAlone  \* history: newest version whose Save returned and overlapped no other

storesVars == <<backend, embedding, today, noteRows, noteFiles, memories, version, sessionRow,
                job, faults, owed, savedAlone>>
noteVars == <<noteRows, noteFiles, owed>>
sessionVars == <<version, sessionRow, savedAlone>>

NoJob == [op |-> "none", arg |-> "none", level |-> 1, step |-> "none", seen |-> {}, day |-> 0,
          alone |-> TRUE]

StoresInit ==
    /\ backend = "down" /\ embedding \in {"onnx", "api"} /\ today = 0
    /\ noteRows = [d \in Days |-> <<>>] /\ noteFiles = [d \in Days |-> {}] /\ memories = {}
    /\ version = 0 /\ sessionRow = 0
    /\ job = [t \in Turns |-> NoJob] /\ faults = 0
    /\ owed = [b \in Backends |-> [d \in Days |-> {}]] /\ savedAlone = 0

-----------------------------------------------------------------------------
\* Processes and calls.

Fault == faults < MaxFaults /\ faults' = faults + 1

\* loadAll: the row, or, when the query fails, an empty session, which the next Save puts
\* in the place of the row.
LoadAll ==
    \/ version' = sessionRow /\ UNCHANGED <<faults, savedAlone>>
    \/ Fault /\ version' = 0 /\ savedAlone' = 0

\* initOracleAgent, or the files when the database does not answer its ping.
StartAgent ==
    /\ backend = "down"
    /\ \/ backend' = "oracle" /\ LoadAll
       \/ backend' = "files" /\ version' = 0 /\ UNCHANGED <<faults, savedAlone>>
    /\ UNCHANGED <<embedding, today, noteRows, noteFiles, memories, sessionRow, job, owed>>

Busy(op) == {t \in Turns : job[t].op = op}

\* Turn t begins call j; it and the calls of the kind that run overlap.
Begin(t, j) ==
    job' = [u \in Turns |->
              IF u = t THEN [j EXCEPT !.alone = @ /\ Busy(j.op) = {}]
              ELSE IF job[u].op = j.op THEN [job[u] EXCEPT !.alone = FALSE] ELSE job[u]]

Return(t) == job' = [job EXCEPT ![t] = NoJob]

\* A call has truncated the file of day d and has yet to write it.
Truncated(d) == \E t \in Turns : job[t].step = "cut" /\ job[t].day = d

\* The end of the process, in the middle of the calls; a file that was truncated to
\* be written stays empty, and its entries are lost.
AgentDies ==
    /\ backend # "down"
    /\ backend' = "down" /\ job' = [t \in Turns |-> NoJob]
    /\ owed' = [owed EXCEPT !["files"] = [d \in Days |->
                  IF Truncated(d) THEN {} ELSE @[d]]]
    /\ UNCHANGED <<embedding, today, noteRows, noteFiles, memories, faults, version, sessionRow, savedAlone>>

Midnight ==
    /\ today < MaxDay /\ today' = today + 1
    /\ UNCHANGED <<backend, embedding, noteRows, noteFiles, memories, job, faults, owed>>
    /\ UNCHANGED sessionVars

-----------------------------------------------------------------------------
\* The daily notes.

\* ReadToday: the row updated last, or the file.
NoteOfRows(d) == IF noteRows[d] = <<>> THEN {} ELSE noteRows[d][Len(noteRows[d])]
NoteOfFile(d) == noteFiles[d]
Note(b, d) == IF b = "files" THEN NoteOfFile(d) ELSE NoteOfRows(d)

\* What the prompt shows of day d: every row, or the file.
ShownOfRows(d) == UNION {noteRows[d][i] : i \in DOMAIN noteRows[d]}
ShownOfFile(d) == noteFiles[d]
Shown(b, d) == IF b = "files" THEN ShownOfFile(d) ELSE ShownOfRows(d)

Used(e) ==
    \/ \E t \in Turns : job[t].op = "note" /\ job[t].arg = e
    \/ \E b \in Backends, d \in Days : e \in Shown(b, d) \cup owed[b][d]

\* AppendToday reads.  A read that fails counts as an empty note, to be replaced by
\* the new one; a file that is being written reads as empty.
NoteRead(t, e) ==
    /\ backend # "down" /\ job[t].op = "none" /\ ~Used(e)
    /\ \E failed \in BOOLEAN :
         /\ IF failed THEN Fault ELSE UNCHANGED faults
         /\ Begin(t, [op |-> "note", arg |-> e, level |-> 1, step |-> "read", day |-> today,
                      seen |-> IF failed THEN {} ELSE Note(backend, today), alone |-> ~failed])
         /\ owed' = IF failed \/ (backend = "files" /\ Truncated(today))
                    THEN [owed EXCEPT ![backend][today] = {}] ELSE owed
    /\ UNCHANGED <<backend, embedding, today, noteRows, noteFiles, memories>>
    /\ UNCHANGED sessionVars

\* os.WriteFile truncates the file and then writes it.
NoteCut(t) ==
    /\ backend = "files" /\ job[t].op = "note" /\ job[t].step = "read"
    /\ noteFiles' = [noteFiles EXCEPT ![job[t].day] = {}]
    /\ job' = [job EXCEPT ![t].step = "cut"]
    /\ UNCHANGED <<backend, embedding, today, noteRows, memories, faults, owed>>
    /\ UNCHANGED sessionVars

\* Mutant of Written: the entry without what there was before it.
WrittenAlone(t) == {job[t].arg}

Written(t) == job[t].seen \cup {job[t].arg}

\* The entry is owed if its call overlapped no other.
Owing(t) ==
    IF job[t].alone THEN [owed EXCEPT ![backend][job[t].day] = @ \cup {job[t].arg}] ELSE owed

NoteWriteFile(t) ==
    /\ job[t].step = "cut"
    /\ noteFiles' = [noteFiles EXCEPT ![job[t].day] = Written(t)]
    /\ owed' = Owing(t) /\ Return(t)
    /\ UNCHANGED <<backend, embedding, today, noteRows, memories, faults>> /\ UNCHANGED sessionVars

\* An INSERT when nothing was read, else an UPDATE of every row of the day it is now,
\* which may be none when midnight has passed, or get yesterday's note; no error then.
NoteWriteRow(t) ==
    /\ backend = "oracle" /\ job[t].op = "note"
    /\ noteRows' = [noteRows EXCEPT ![today] =
          IF job[t].seen = {} THEN Append(@, Written(t)) ELSE [i \in DOMAIN @ |-> Written(t)]]
    /\ owed' = IF job[t].day # today THEN [owed EXCEPT ![backend][today] = {}] ELSE Owing(t)
    /\ Return(t)
    /\ UNCHANGED <<backend, embedding, today, noteFiles, memories, faults>> /\ UNCHANGED sessionVars

\* The statement or the write fails, and the call returns the error; the file was
\* truncated by then, or not.
CallFails(t) ==
    /\ job[t].step \in {"read", "cut", "insert"} /\ Fault
    /\ owed' = IF job[t].step = "cut" THEN [owed EXCEPT !["files"][job[t].day] = {}] ELSE owed
    /\ Return(t)
    /\ UNCHANGED <<backend, embedding, today, noteRows, noteFiles, memories>> /\ UNCHANGED sessionVars

-----------------------------------------------------------------------------
\* The memories.

\* deduplicateMemory: a row with the text, else with ONNX the nearest embedding.
Duplicates(x) ==
    LET exact == {m \in memories : m.text = x}
    IN IF exact # {} THEN exact
       ELSE {m \in memories : embedding = "onnx" /\ m.vector /\ Near(m.text, x)}

\* Mutant of Remember: no search for duplicates.
RememberAnyway(t, x, l) ==
    /\ backend = "oracle" /\ job[t].op = "none" /\ Cardinality(memories) < MaxMemories
    /\ Begin(t, [op |-> "remember", arg |-> x, level |-> l, step |-> "insert", day |-> today,
                 seen |-> {}, alone |-> TRUE])
    /\ UNCHANGED <<backend, embedding, today, noteRows, noteFiles, memories, faults, owed>>
    /\ UNCHANGED sessionVars

\* remember begins: an INSERT follows, or the UPDATE of a duplicate that had a lower
\* importance.  A search that fails finds nothing.
Remember(t, x, l) ==
    /\ backend = "oracle" /\ job[t].op = "none"
    /\ \E failed \in BOOLEAN, dup \in SUBSET memories :
         /\ IF failed THEN Fault /\ dup = {}
            ELSE /\ UNCHANGED faults
                 /\ IF Duplicates(x) = {} THEN dup = {} ELSE \E m \in Duplicates(x) : dup = {m}
         /\ dup # {} => \E m \in dup : l > m.level
         /\ Begin(t, [op |-> "remember", arg |-> x, level |-> l, day |-> today,
                      step |-> IF dup = {} THEN "insert" ELSE "raise",
                      seen |-> {m.id : m \in dup}, alone |-> ~failed])
    /\ UNCHANGED <<backend, embedding, today, noteRows, noteFiles, memories, owed>>
    /\ UNCHANGED sessionVars

\* EmbedText: the database computes the embedding, the service may fail to return one.
EmbedText(vector) ==
    IF vector THEN UNCHANGED faults ELSE embedding = "api" /\ Fault

\* The INSERT; without an embedding when the service failed.
RememberInsert(t) ==
    /\ job[t].step = "insert" /\ Cardinality(memories) < MaxMemories
    /\ \E vector \in BOOLEAN :
         /\ EmbedText(vector)
         /\ memories' = memories \cup
              {[id |-> Cardinality(memories), text |-> job[t].arg, level |-> job[t].level,
                vector |-> vector, alone |-> job[t].alone, accessed |-> FALSE]}
    /\ Return(t)
    /\ UNCHANGED <<backend, embedding, today, noteRows, noteFiles, owed>> /\ UNCHANGED sessionVars

\* The UPDATE: to the importance of this call, whatever the row has by now.  If it
\* fails, the call succeeds all the same.
RememberRaise(t) ==
    /\ job[t].step = "raise"
    /\ \/ /\ memories' = {IF m.id \in job[t].seen
                          THEN [m EXCEPT !.level = job[t].level, !.accessed = TRUE] ELSE m : m \in memories}
          /\ UNCHANGED faults
       \/ Fault /\ UNCHANGED memories
    /\ Return(t)
    /\ UNCHANGED <<backend, embedding, today, noteRows, noteFiles, owed>> /\ UNCHANGED sessionVars

\* Recall: of the rows with an embedding those near enough, which are marked.
Recall(x) ==
    LET found == {m \in memories : m.vector /\ Near(m.text, x)}
    IN /\ backend = "oracle" /\ \E m \in found : ~m.accessed
       /\ memories' = (memories \ found) \cup {[m EXCEPT !.accessed = TRUE] : m \in found}
       /\ UNCHANGED <<backend, embedding, today, noteRows, noteFiles, job, faults, owed>>
       /\ UNCHANGED sessionVars

-----------------------------------------------------------------------------
\* The session's row.

\* AddFullMessage, SetSummary, TruncateHistory, SetHistory.
ChangeSession ==
    /\ backend = "oracle" /\ version < MaxVersion /\ version' = version + 1
    /\ UNCHANGED <<backend, embedding, today, noteRows, noteFiles, memories, sessionRow, job, faults,
                   owed, savedAlone>>

\* Save: a snapshot under the lock, ...
SaveSnapshot(t) ==
    /\ backend = "oracle" /\ job[t].op = "none"
    /\ Begin(t, [NoJob EXCEPT !.op = "save", !.step = "merge", !.seen = {version}])
    /\ UNCHANGED <<backend, embedding, today, noteRows, noteFiles, memories, faults, owed>>
    /\ UNCHANGED sessionVars

\* ... and the MERGE after it is released; or an error, which the callers drop.
SaveMerge(t) ==
    /\ job[t].step = "merge"
    /\ \/ /\ sessionRow' = CHOOSE v \in job[t].seen : TRUE
          /\ savedAlone' = IF job[t].alone THEN sessionRow' ELSE savedAlone
          /\ UNCHANGED faults
       \/ Fault /\ UNCHANGED <<sessionRow, savedAlone>>
    /\ Return(t)
    /\ UNCHANGED <<backend, embedding, today, noteRows, noteFiles, memories, version, owed>>

ProcessNext == StartAgent \/ AgentDies \/ Midnight \/ \E t \in Turns : CallFails(t)

NotesNext ==
    \E t \in Turns : NoteCut(t) \/ NoteWriteFile(t) \/ NoteWriteRow(t) \/ \E e \in Entries : NoteRead(t, e)

MemoriesNext ==
    \/ \E t \in Turns :
         RememberInsert(t) \/ RememberRaise(t) \/ \E x \in Texts, l \in Levels : Remember(t, x, l)
    \/ \E x \in Texts : Recall(x)

RowNext == ChangeSession \/ \E t \in Turns : SaveSnapshot(t) \/ SaveMerge(t)

\* The three share the process and nothing else.
StoresNext == ProcessNext \/ NotesNext \/ MemoriesNext \/ RowNext

StoresSpec == StoresInit /\ [][StoresNext]_storesVars

-----------------------------------------------------------------------------
StoresTypeOK ==
    /\ backend \in Backends \cup {"down"} /\ embedding \in {"onnx", "api"} /\ today \in Days
    /\ noteRows \in [Days -> Seq(SUBSET Entries)] /\ noteFiles \in [Days -> SUBSET Entries]
    /\ \A m \in memories : m.text \in Texts /\ m.level \in Levels /\ m.id < MaxMemories
    /\ version \in 0 .. MaxVersion /\ sessionRow \in 0 .. MaxVersion /\ savedAlone \in 0 .. MaxVersion
    /\ \A t \in Turns : job[t].op \in {"none", "note", "remember", "save"}
    /\ owed \in [Backends -> [Days -> SUBSET Entries]] /\ faults \in 0 .. MaxFaults

\* An entry of the daily notes whose call overlapped no other, read the note and ended
\* on the same day stays in every version of the day's note, until one of these costs
\* the note all that it held: a later call cannot read it, or finds its file truncated
\* by another; the write of a truncated file fails, or the process dies there; a call
\* of the day before writes rows after midnight.  Calls that merely overlap cost it
\* nothing.
JournalKept ==
    /\ \A d \in Days : \A i \in DOMAIN noteRows[d] : owed["oracle"][d] \subseteq noteRows[d][i]
    /\ \A d \in Days :
         owed["files"][d] \subseteq noteFiles[d]
           \cup UNION {IF job[t].step = "cut" THEN job[t].seen ELSE {} : t \in Turns}

\* Two memories of the same text, or of texts whose embeddings are as good as equal,
\* were both stored by calls that overlapped another or whose search failed.
StoredOnce ==
    \A m, n \in memories :
        m # n /\ (m.text = n.text \/ (embedding = "onnx" /\ Near(m.text, n.text)))
          => ~m.alone \/ ~n.alone

\* The row never falls behind a version whose Save ran alone and returned, whatever
\* failed or overlapped after it, unless the sessions could not be loaded at a start.
RowNotBehind == sessionRow >= savedAlone

\* What was written alone stays, up to these exceptions: entries of the journal, and
\* the newest version of a session.
StoresKept == JournalKept /\ RowNotBehind
=============================================================================
