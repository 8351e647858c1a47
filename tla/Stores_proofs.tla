--------------------------- MODULE Stores_proofs ----------------------------
(***************************************************************************)
(* Proofs about what is stored besides sessions: notes, memories and rows  *)
(* (Stores) and the logins of auth.json (Credentials).  Neither has a lock *)
(* around its reads and writes, so both invariants say what a call that is *)
(* in between holds, and that it overlapped no other if it counts on that. *)
(***************************************************************************)
EXTENDS Stores, Credentials, SequenceTheorems, FiniteSetTheorems, TLAPS

-----------------------------------------------------------------------------
\* Notes, memories and rows.

\* What is stored, and what a call has read and is going to write.
MemorySet == [id : 0 .. MaxMemories - 1, text : Texts, level : Levels, vector : BOOLEAN, alone : BOOLEAN,
              accessed : BOOLEAN]
JobSet == [op : {"none", "note", "remember", "save"}, arg : Entries \cup Texts \cup {"none"}, level : Levels,
           step : {"none", "read", "cut", "insert", "raise", "merge"}, seen : SUBSET (Entries \cup Nat),
           day : Days, alone : BOOLEAN]

JobFits(j) ==
    /\ j.op = "none" => j.step = "none"
    /\ j.op = "note" => j.step \in {"read", "cut"} /\ j.arg \in Entries /\ j.seen \subseteq Entries
    /\ j.op = "remember" => j.step \in {"insert", "raise"} /\ j.arg \in Texts
    /\ j.op = "save" => j.step = "merge"

StoresType ==
    /\ backend \in Backends \cup {"down"} /\ embedding \in {"onnx", "api"} /\ today \in Days
    /\ noteRows \in [Days -> Seq(SUBSET Entries)] /\ noteFiles \in [Days -> SUBSET Entries]
    /\ memories \subseteq MemorySet /\ IsFiniteSet(memories)
    /\ version \in 0 .. MaxVersion /\ sessionRow \in 0 .. MaxVersion /\ savedAlone \in 0 .. MaxVersion
    /\ job \in [Turns -> JobSet] /\ faults \in 0 .. MaxFaults
    /\ owed \in [Backends -> [Days -> SUBSET Entries]]

\* A call belongs to the process that runs; one that overlapped no other has company of no kind.
JobsKept ==
    /\ \A t \in Turns : JobFits(job[t])
    /\ \A t \in Turns : job[t].op # "none" => backend # "down"
    /\ \A t \in Turns : job[t].op \in {"remember", "save"} => backend = "oracle"
    /\ \A t \in Turns : job[t].step = "cut" => backend = "files"
    /\ \A t, u \in Turns : t # u /\ job[t].op = job[u].op /\ job[t].op # "none" => ~job[t].alone

\* A row holds what is owed of its day; a call has read that, and the day has a row if it read anything.
RowsKept ==
    /\ \A d \in Days : noteRows[d] = <<>> => owed["oracle"][d] = {}
    /\ \A d \in Days : \A i \in DOMAIN noteRows[d] : noteRows[d][i] # {} /\ owed["oracle"][d] \subseteq noteRows[d][i]
    /\ \A t \in Turns : job[t].op = "note" /\ backend = "oracle" =>
          /\ owed["oracle"][job[t].day] \subseteq job[t].seen
          /\ job[t].seen # {} => noteRows[job[t].day] # <<>>
          /\ job[t].alone /\ job[t].seen = {} => noteRows[job[t].day] = <<>>

\* A file that is not being written holds what is owed of its day.
FilesKept ==
    /\ \A t \in Turns : job[t].op = "note" /\ backend = "files" =>
          owed["files"][job[t].day] \subseteq job[t].seen
    /\ \A d \in Days : owed["files"][d] \subseteq noteFiles[d] \/ \E t \in Turns : job[t].step = "cut" /\ job[t].day = d

\* A call that is alone is about to store what nothing stored is like.
MemoriesKept ==
    /\ embedding = "onnx" => \A m \in memories : m.vector
    /\ \A t \in Turns : job[t].step = "insert" /\ job[t].alone =>
          \A m \in memories : m.text # job[t].arg /\ (embedding = "onnx" => ~Near(m.text, job[t].arg))
    /\ StoredOnce

\* A snapshot is no older than the newest version that was saved alone.
SnapshotsKept ==
    /\ backend = "oracle" => savedAlone <= version
    /\ \A t \in Turns : job[t].op = "save" => \E v \in savedAlone .. version : job[t].seen = {v}
    /\ RowNotBehind

StoresInv == StoresType /\ JobsKept /\ RowsKept /\ FilesKept /\ MemoriesKept /\ SnapshotsKept

-----------------------------------------------------------------------------
LEMMA NoJobFacts ==
    /\ NoJob \in JobSet /\ JobFits(NoJob) /\ NoJob.op = "none" /\ NoJob.step = "none"
<1>1. NoJob \in JobSet
  BY StoresAssumption DEF NoJob, JobSet, Levels, Days
<1> QED
  BY <1>1 DEF NoJob, JobFits

\* What becomes of the other calls when one begins or returns.
SameJob(j, k) ==
    /\ k.op = j.op /\ k.arg = j.arg /\ k.level = j.level /\ k.step = j.step /\ k.seen = j.seen /\ k.day = j.day
    /\ k.alone => j.alone

LEMMA BeginFacts ==
    ASSUME job \in [Turns -> JobSet], NEW t \in Turns, NEW j \in JobSet, Begin(t, j)
    PROVE  /\ job' \in [Turns -> JobSet]
           /\ SameJob(j, job'[t])
           /\ job'[t].alone => \A u \in Turns : job[u].op # j.op
           /\ \A u \in Turns \ {t} : SameJob(job[u], job'[u])
           /\ \A u \in Turns \ {t} : job[u].op = j.op => ~job'[u].alone
<1> DEFINE k == [j EXCEPT !.alone = j.alone /\ Busy(j.op) = {}]
           Lonely(u) == [job[u] EXCEPT !.alone = FALSE]
<1>1. job' = [u \in Turns |-> IF u = t THEN k ELSE IF job[u].op = j.op THEN Lonely(u) ELSE job[u]]
  BY DEF Begin
<1>2. /\ k \in JobSet /\ k.op = j.op /\ k.arg = j.arg /\ k.level = j.level /\ k.step = j.step /\ k.seen = j.seen
      /\ k.day = j.day /\ k.alone = (j.alone /\ Busy(j.op) = {})
  BY DEF JobSet
<1>3. ASSUME NEW u \in Turns
      PROVE  /\ Lonely(u) \in JobSet /\ Lonely(u).op = job[u].op /\ Lonely(u).arg = job[u].arg
             /\ Lonely(u).level = job[u].level /\ Lonely(u).step = job[u].step /\ Lonely(u).seen = job[u].seen
             /\ Lonely(u).day = job[u].day /\ Lonely(u).alone = FALSE
  BY DEF JobSet
<1> HIDE DEF k, Lonely
<1>4. job' \in [Turns -> JobSet]
  BY <1>1, <1>2, <1>3
<1>5. job'[t] = k
  BY <1>1
<1>6. \A u \in Turns \ {t} : job'[u] = IF job[u].op = j.op THEN Lonely(u) ELSE job[u]
  BY <1>1
<1>7. k.alone => \A u \in Turns : job[u].op # j.op
  BY <1>2 DEF Busy
<1> QED
  BY <1>2, <1>3, <1>4, <1>5, <1>6, <1>7 DEF SameJob

LEMMA ReturnFacts ==
    ASSUME job \in [Turns -> JobSet], NEW t \in Turns, Return(t)
    PROVE  /\ job' \in [Turns -> JobSet] /\ job'[t] = NoJob
           /\ \A u \in Turns \ {t} : job'[u] = job[u]
           /\ \A u \in Turns : job'[u] = NoJob \/ SameJob(job[u], job'[u])
BY NoJobFacts DEF Return, SameJob

\* When a call begins, its kind and the process fit.
LEMMA BeginJobs ==
    ASSUME StoresType, JobsKept, NEW t \in Turns, NEW j \in JobSet, job[t].op = "none", Begin(t, j), backend' = backend,
           JobFits(j), j.op # "none", j.step # "cut", j.op = "note" => backend # "down",
           j.op # "note" => backend = "oracle"
    PROVE  JobsKept'
<1>1. job \in [Turns -> JobSet]
  BY DEF StoresType
<1>2. /\ SameJob(j, job'[t])
      /\ job'[t].alone => \A u \in Turns : job[u].op # j.op
      /\ \A u \in Turns \ {t} : SameJob(job[u], job'[u])
      /\ \A u \in Turns \ {t} : job[u].op = j.op => ~job'[u].alone
  BY <1>1, BeginFacts
<1>3. ASSUME NEW u \in Turns PROVE JobFits(job[u])'
  <2>1. CASE u = t
    BY <1>2, <2>1 DEF JobFits, SameJob
  <2>2. CASE u # t
    BY <1>2, <2>2 DEF JobFits, SameJob, JobsKept
  <2> QED
    BY <2>1, <2>2
<1>4. \A u \in Turns : job'[u].op # "none" => backend' # "down"
  BY <1>2 DEF SameJob, JobsKept
<1>5. \A u \in Turns : job'[u].op \in {"remember", "save"} => backend' = "oracle"
  BY <1>2 DEF SameJob, JobsKept
<1>6. \A u \in Turns : job'[u].step = "cut" => backend' = "files"
  BY <1>2 DEF SameJob, JobsKept
<1>7. ASSUME NEW u \in Turns, NEW w \in Turns, u # w, job'[u].op = job'[w].op, job'[u].op # "none"
      PROVE  ~job'[u].alone
  <2>1. CASE u = t
    BY <1>2, <1>7, <2>1 DEF SameJob
  <2>2. CASE w = t
    BY <1>2, <1>7, <2>2 DEF SameJob
  <2>3. CASE u # t /\ w # t
    <3>1. ~job[u].alone
      BY <1>2, <1>7, <2>3 DEF SameJob, JobsKept
    <3> QED
      BY <1>2, <2>3, <3>1 DEF SameJob
  <2> QED
    BY <2>1, <2>2, <2>3
<1> QED
  BY <1>3, <1>4, <1>5, <1>6, <1>7 DEF JobsKept

\* A step after which every call is as before or has returned.
LEMMA QuietJobs ==
    ASSUME JobsKept, \A u \in Turns : job'[u] = NoJob \/ SameJob(job[u], job'[u]),
           backend' = backend \/ \A u \in Turns : job'[u].op = "none"
    PROVE  JobsKept'
<1>1. ASSUME NEW u \in Turns PROVE JobFits(job[u])'
  BY NoJobFacts DEF JobFits, SameJob, JobsKept
<1>2. \A u \in Turns : /\ job'[u].op # "none" => backend' # "down"
                       /\ job'[u].op \in {"remember", "save"} => backend' = "oracle"
  BY NoJobFacts DEF SameJob, JobsKept
<1>3. \A u \in Turns : job'[u].step = "cut" => backend' = "files"
  <2>1. ASSUME NEW u \in Turns, job'[u].step = "cut" PROVE job[u].step = "cut" /\ job'[u].op # "none"
    BY <1>1, <2>1, NoJobFacts DEF SameJob, JobFits
  <2> QED
    BY <2>1 DEF JobsKept
<1>4. \A u, w \in Turns : u # w /\ job'[u].op = job'[w].op /\ job'[u].op # "none" => ~job'[u].alone
  BY NoJobFacts DEF SameJob, JobsKept
<1> QED
  BY <1>1, <1>2, <1>3, <1>4 DEF JobsKept

LEMMA InitStores == StoresInit => StoresInv
<1> SUFFICES ASSUME StoresInit PROVE StoresInv
  OBVIOUS
<1>1. /\ backend = "down" /\ embedding \in {"onnx", "api"} /\ today = 0
      /\ noteRows = [d \in Days |-> <<>>] /\ noteFiles = [d \in Days |-> {}] /\ memories = {}
      /\ version = 0 /\ sessionRow = 0 /\ savedAlone = 0 /\ faults = 0
      /\ job = [t \in Turns |-> NoJob] /\ owed = [b \in Backends |-> [d \in Days |-> {}]]
  BY DEF StoresInit
<1>2. StoresType
  <2>1. 0 \in Days /\ 0 \in 0 .. MaxVersion /\ 0 \in 0 .. MaxFaults
    BY StoresAssumption DEF Days
  <2>2. job \in [Turns -> JobSet] /\ owed \in [Backends -> [Days -> SUBSET Entries]]
    BY <1>1, NoJobFacts
  <2>3. noteRows \in [Days -> Seq(SUBSET Entries)] /\ noteFiles \in [Days -> SUBSET Entries]
    BY <1>1
  <2>4. memories \subseteq MemorySet /\ IsFiniteSet(memories)
    BY <1>1, FS_EmptySet
  <2> QED
    BY <1>1, <2>1, <2>2, <2>3, <2>4 DEF StoresType, Backends
<1>3. JobsKept
  BY <1>1, NoJobFacts DEF JobsKept
<1>4. RowsKept
  BY <1>1, NoJobFacts DEF RowsKept, Backends
<1>5. FilesKept
  BY <1>1, NoJobFacts DEF FilesKept, Backends
<1>6. MemoriesKept
  BY <1>1, NoJobFacts DEF MemoriesKept, StoredOnce
<1>7. SnapshotsKept
  BY <1>1, NoJobFacts DEF SnapshotsKept, RowNotBehind
<1> QED
  BY <1>2, <1>3, <1>4, <1>5, <1>6, <1>7 DEF StoresInv

-----------------------------------------------------------------------------
\* Types.

LEMMA FaultType ==
    ASSUME StoresType, Fault PROVE faults' \in 0 .. MaxFaults
BY StoresAssumption DEF StoresType, Fault

LEMMA MergedFacts ==
    ASSUME StoresType, JobsKept, SnapshotsKept, NEW t \in Turns, job[t].step = "merge"
    PROVE  /\ job[t].op = "save" /\ (CHOOSE v \in job[t].seen : TRUE) \in 0 .. MaxVersion
           /\ savedAlone <= (CHOOSE v \in job[t].seen : TRUE) /\ (CHOOSE v \in job[t].seen : TRUE) <= version
<1>1. job[t].op = "save"
  BY DEF StoresType, JobsKept, JobFits, JobSet
<1>2. PICK v \in savedAlone .. version : job[t].seen = {v}
  BY <1>1 DEF SnapshotsKept
<1>3. (CHOOSE w \in job[t].seen : TRUE) = v
  BY <1>2
<1>4. savedAlone \in 0 .. MaxVersion /\ version \in 0 .. MaxVersion
  BY DEF StoresType
<1> QED
  BY <1>1, <1>2, <1>3, <1>4, StoresAssumption

LEMMA NoteType ==
    ASSUME StoresType, NEW b
    PROVE  Note(b, today) \subseteq Entries
<1>1. NoteOfFile(today) \subseteq Entries
  BY DEF NoteOfFile, StoresType
<1>2. NoteOfRows(today) \subseteq Entries
  <2>1. noteRows[today] \in Seq(SUBSET Entries)
    BY DEF StoresType
  <2>2. noteRows[today] # <<>> => Len(noteRows[today]) \in 1 .. Len(noteRows[today])
    BY <2>1
  <2>3. noteRows[today] # <<>> => noteRows[today][Len(noteRows[today])] \in SUBSET Entries
    BY <2>1, <2>2, ElementOfSeq
  <2> QED
    BY <2>3 DEF NoteOfRows
<1> QED
  BY <1>1, <1>2 DEF Note

LEMMA FiniteImage ==
    ASSUME NEW S, IsFiniteSet(S), NEW f
    PROVE  IsFiniteSet({f[x] : x \in S})
<1> DEFINE g == [x \in S |-> f[x]]
<1>1. g \in Surjection(S, {f[x] : x \in S})
  BY DEF Surjection
<1> QED
  BY <1>1, FS_Surjection

LEMMA StepStoresType ==
    ASSUME StoresType, JobsKept, SnapshotsKept, StoresNext
    PROVE  StoresType'
<1>1. /\ job \in [Turns -> JobSet] /\ \A t \in Turns : JobFits(job[t])
      /\ backend \in Backends \cup {"down"} /\ today \in Days
      /\ noteRows \in [Days -> Seq(SUBSET Entries)] /\ noteFiles \in [Days -> SUBSET Entries]
      /\ memories \subseteq MemorySet /\ IsFiniteSet(memories)
      /\ owed \in [Backends -> [Days -> SUBSET Entries]] /\ faults \in 0 .. MaxFaults
  BY DEF StoresType, JobsKept
<1>2. ASSUME NEW t \in Turns, Return(t) PROVE job' \in [Turns -> JobSet]
  BY <1>1, <1>2, ReturnFacts
<1>3. ASSUME NEW b \in Backends, NEW d \in Days PROVE [owed EXCEPT ![b][d] = {}] \in [Backends -> [Days -> SUBSET Entries]]
  BY <1>1
<1>4. ASSUME NEW t \in Turns PROVE job[t].day \in Days
  BY <1>1 DEF JobSet
<1>5. ASSUME NEW t \in Turns, job[t].op = "note", backend # "down" PROVE Owing(t) \in [Backends -> [Days -> SUBSET Entries]]
  <2>1. job[t].day \in Days /\ job[t].arg \in Entries /\ backend \in Backends
    BY <1>1, <1>4, <1>5 DEF JobFits
  <2> QED
    BY <1>1, <2>1 DEF Owing
<1>6. ASSUME NEW t \in Turns, job[t].op = "note" PROVE Written(t) \subseteq Entries
  BY <1>1, <1>6 DEF Written, JobFits
<1>7. ASSUME StartAgent PROVE StoresType'
  <2>1. version' \in 0 .. MaxVersion /\ savedAlone' \in 0 .. MaxVersion /\ backend' \in Backends \cup {"down"}
    BY <1>7, StoresAssumption DEF StartAgent, LoadAll, StoresType, Backends
  <2>2. faults' \in 0 .. MaxFaults
    BY <1>1, <1>7, FaultType DEF StartAgent, LoadAll
  <2> QED
    BY <1>7, <2>1, <2>2 DEF StartAgent, StoresType
<1>8. ASSUME AgentDies PROVE StoresType'
  <2>1. job' \in [Turns -> JobSet]
    BY <1>8, NoJobFacts DEF AgentDies
  <2>2. owed' \in [Backends -> [Days -> SUBSET Entries]]
    BY <1>1, <1>8 DEF AgentDies, Backends
  <2> QED
    BY <1>8, <2>1, <2>2 DEF AgentDies, StoresType
<1>9. ASSUME Midnight PROVE StoresType'
  <2>1. today' \in Days
    BY <1>1, <1>9, StoresAssumption DEF Midnight, Days
  <2> QED
    BY <1>9, <2>1 DEF Midnight, StoresType, sessionVars
<1>10. ASSUME NEW t \in Turns, NEW e \in Entries, NoteRead(t, e) PROVE StoresType'
  <2>1. PICK failed \in BOOLEAN :
         /\ IF failed THEN Fault ELSE UNCHANGED faults
         /\ Begin(t, [op |-> "note", arg |-> e, level |-> 1, step |-> "read", day |-> today,
                      seen |-> IF failed THEN {} ELSE Note(backend, today), alone |-> ~failed])
         /\ owed' = IF failed \/ (backend = "files" /\ Truncated(today))
                    THEN [owed EXCEPT ![backend][today] = {}] ELSE owed
    BY <1>10 DEF NoteRead
  <2> DEFINE seen == IF failed THEN {} ELSE Note(backend, today)
             j == [op |-> "note", arg |-> e, level |-> 1, step |-> "read", day |-> today, seen |-> seen, alone |-> ~failed]
  <2>2. Note(backend, today) \subseteq Entries
    BY NoteType
  <2>3. j \in JobSet
    BY <1>1, <2>2 DEF JobSet, Levels
  <2>4. job' \in [Turns -> JobSet]
    BY <1>1, <2>1, <2>3, BeginFacts
  <2>5. owed' \in [Backends -> [Days -> SUBSET Entries]]
    BY <1>1, <1>3, <1>10, <2>1 DEF NoteRead
  <2>6. faults' \in 0 .. MaxFaults
    BY <1>1, <2>1, FaultType
  <2> QED
    BY <1>10, <2>4, <2>5, <2>6 DEF NoteRead, StoresType, sessionVars
<1>11. ASSUME NEW t \in Turns, NoteCut(t) PROVE StoresType'
  <2>1. [job[t] EXCEPT !.step = "cut"] \in JobSet
    BY <1>1 DEF JobSet
  <2>2. job' \in [Turns -> JobSet]
    BY <1>1, <1>11, <2>1 DEF NoteCut
  <2>3. noteFiles' \in [Days -> SUBSET Entries]
    BY <1>1, <1>11 DEF NoteCut
  <2> QED
    BY <1>11, <2>2, <2>3 DEF NoteCut, StoresType, sessionVars
<1>12. ASSUME NEW t \in Turns, NoteWriteFile(t) PROVE StoresType'
  <2>1. job[t].op = "note" /\ backend = "files"
    BY <1>1, <1>12 DEF NoteWriteFile, JobsKept, JobFits, JobSet
  <2>2. noteFiles' \in [Days -> SUBSET Entries]
    BY <1>1, <1>6, <1>12, <2>1 DEF NoteWriteFile
  <2> QED
    BY <1>2, <1>5, <1>12, <2>1, <2>2 DEF NoteWriteFile, StoresType, sessionVars
<1>13. ASSUME NEW t \in Turns, NoteWriteRow(t) PROVE StoresType'
  <2>1. job[t].op = "note" /\ backend = "oracle" /\ Written(t) \subseteq Entries
    BY <1>6, <1>13 DEF NoteWriteRow
  <2>2. noteRows[today] \in Seq(SUBSET Entries)
    BY <1>1
  <2>3. Append(noteRows[today], Written(t)) \in Seq(SUBSET Entries)
        /\ [i \in DOMAIN noteRows[today] |-> Written(t)] \in Seq(SUBSET Entries)
    BY <2>1, <2>2
  <2>4. noteRows' \in [Days -> Seq(SUBSET Entries)]
    BY <1>1, <1>13, <2>3 DEF NoteWriteRow
  <2>5. owed' \in [Backends -> [Days -> SUBSET Entries]]
    BY <1>1, <1>3, <1>5, <1>13, <2>1 DEF NoteWriteRow, Backends
  <2> QED
    BY <1>2, <1>13, <2>4, <2>5 DEF NoteWriteRow, StoresType, sessionVars
<1>14. ASSUME NEW t \in Turns, CallFails(t) PROVE StoresType'
  <2>1. owed' \in [Backends -> [Days -> SUBSET Entries]]
    BY <1>1, <1>3, <1>4, <1>14 DEF CallFails, Backends
  <2>2. faults' \in 0 .. MaxFaults
    BY <1>14, FaultType DEF CallFails
  <2> QED
    BY <1>2, <1>14, <2>1, <2>2 DEF CallFails, StoresType, sessionVars
<1>15. ASSUME NEW t \in Turns, NEW x \in Texts, NEW l \in Levels, Remember(t, x, l) PROVE StoresType'
  <2>1. PICK failed \in BOOLEAN, dup \in SUBSET memories :
         /\ IF failed THEN Fault /\ dup = {}
            ELSE /\ UNCHANGED faults
                 /\ IF Duplicates(x) = {} THEN dup = {} ELSE \E m \in Duplicates(x) : dup = {m}
         /\ Begin(t, [op |-> "remember", arg |-> x, level |-> l, day |-> today,
                      step |-> IF dup = {} THEN "insert" ELSE "raise",
                      seen |-> {m.id : m \in dup}, alone |-> ~failed])
    BY <1>15 DEF Remember
  <2> DEFINE j == [op |-> "remember", arg |-> x, level |-> l, day |-> today,
                      step |-> IF dup = {} THEN "insert" ELSE "raise",
                      seen |-> {m.id : m \in dup}, alone |-> ~failed]
  <2>2. {m.id : m \in dup} \subseteq Nat
    BY <1>1 DEF MemorySet
  <2>3. j \in JobSet
    BY <1>1, <2>2 DEF JobSet
  <2>4. job' \in [Turns -> JobSet]
    BY <1>1, <2>1, <2>3, BeginFacts
  <2>5. faults' \in 0 .. MaxFaults
    BY <1>1, <2>1, FaultType
  <2> QED
    BY <1>15, <2>4, <2>5 DEF Remember, StoresType, sessionVars
<1>16. ASSUME NEW t \in Turns, RememberInsert(t) PROVE StoresType'
  <2>1. PICK vector \in BOOLEAN :
         /\ EmbedText(vector)
         /\ memories' = memories \cup
              {[id |-> Cardinality(memories), text |-> job[t].arg, level |-> job[t].level,
                vector |-> vector, alone |-> job[t].alone, accessed |-> FALSE]}
    BY <1>16 DEF RememberInsert
  <2> DEFINE m == [id |-> Cardinality(memories), text |-> job[t].arg, level |-> job[t].level,
                vector |-> vector, alone |-> job[t].alone, accessed |-> FALSE]
  <2>2. Cardinality(memories) \in 0 .. MaxMemories - 1
    <3>1. Cardinality(memories) \in Nat /\ Cardinality(memories) < MaxMemories
      BY <1>1, <1>16, FS_CardinalityType DEF RememberInsert
    <3> QED
      BY <3>1, StoresAssumption
  <2>3. job[t].arg \in Texts /\ job[t].level \in Levels /\ job[t].alone \in BOOLEAN
    BY <1>1, <1>16 DEF RememberInsert, JobFits, JobSet
  <2>4. m \in MemorySet
    BY <2>2, <2>3 DEF MemorySet
  <2>5. IsFiniteSet(memories')
    BY <1>1, <2>1, FS_AddElement
  <2>6. faults' \in 0 .. MaxFaults
    BY <1>1, <2>1, FaultType DEF EmbedText
  <2> QED
    BY <1>1, <1>2, <1>16, <2>1, <2>4, <2>5, <2>6 DEF RememberInsert, StoresType, sessionVars
<1>17. ASSUME NEW t \in Turns, RememberRaise(t) PROVE StoresType'
  <2> DEFINE Raised(m) == IF m.id \in job[t].seen THEN [m EXCEPT !.level = job[t].level, !.accessed = TRUE] ELSE m
  <2>1. \A m \in memories : Raised(m) \in MemorySet
    BY <1>1 DEF MemorySet, JobSet
  <2>2. memories' = {Raised(m) : m \in memories} \/ memories' = memories
    BY <1>17 DEF RememberRaise
  <2> HIDE DEF Raised
  <2>3. memories' \subseteq MemorySet
    BY <1>1, <2>1, <2>2
  <2> DEFINE f == [m \in memories |-> Raised(m)]
  <2>3a. {Raised(m) : m \in memories} = {f[m] : m \in memories}
    OBVIOUS
  <2> HIDE DEF f
  <2>3b. IsFiniteSet({f[m] : m \in memories})
    BY <1>1, FiniteImage
  <2>4. IsFiniteSet(memories')
    BY <1>1, <2>2, <2>3a, <2>3b
  <2>5. faults' \in 0 .. MaxFaults
    BY <1>1, <1>17, FaultType DEF RememberRaise
  <2> QED
    BY <1>2, <1>17, <2>3, <2>4, <2>5 DEF RememberRaise, StoresType, sessionVars
<1>18. ASSUME NEW x \in Texts, Recall(x) PROVE StoresType'
  <2> DEFINE found == {m \in memories : m.vector /\ Near(m.text, x)}
             Marked(m) == [m EXCEPT !.accessed = TRUE]
  <2>1. memories' = (memories \ found) \cup {Marked(m) : m \in found}
    BY <1>18 DEF Recall
  <2>2. \A m \in found : Marked(m) \in MemorySet
    BY <1>1 DEF MemorySet
  <2>3. found \subseteq memories
    OBVIOUS
  <2> HIDE DEF found, Marked
  <2>4. memories' \subseteq MemorySet
    BY <1>1, <2>1, <2>2
  <2>5. IsFiniteSet(found) /\ IsFiniteSet(memories \ found)
    BY <1>1, <2>3, FS_Subset, FS_Difference
  <2> DEFINE f == [m \in found |-> Marked(m)]
  <2>5a. {Marked(m) : m \in found} = {f[m] : m \in found}
    OBVIOUS
  <2> HIDE DEF f
  <2>6. IsFiniteSet({Marked(m) : m \in found})
    BY <2>5, <2>5a, FiniteImage
  <2>7. IsFiniteSet(memories')
    BY <2>1, <2>5, <2>6, FS_Union
  <2> QED
    BY <1>18, <2>4, <2>7 DEF Recall, StoresType, sessionVars
<1>19. ASSUME ChangeSession PROVE StoresType'
  BY <1>19, StoresAssumption DEF ChangeSession, StoresType
<1>20. ASSUME NEW t \in Turns, SaveSnapshot(t) PROVE StoresType'
  <2> DEFINE j == [NoJob EXCEPT !.op = "save", !.step = "merge", !.seen = {version}]
  <2>1. version \in Nat
    BY DEF StoresType
  <2>2. j \in JobSet
    BY <2>1, NoJobFacts DEF JobSet
  <2>3. job' \in [Turns -> JobSet]
    BY <1>1, <1>20, <2>2, BeginFacts DEF SaveSnapshot
  <2> QED
    BY <1>20, <2>3 DEF SaveSnapshot, StoresType, sessionVars
<1>21. ASSUME NEW t \in Turns, SaveMerge(t) PROVE StoresType'
  <2>1. (CHOOSE v \in job[t].seen : TRUE) \in 0 .. MaxVersion
    BY <1>21, MergedFacts DEF SaveMerge
  <2>2. sessionRow' \in 0 .. MaxVersion /\ savedAlone' \in 0 .. MaxVersion
    BY <1>21, <2>1 DEF SaveMerge, StoresType
  <2>3. faults' \in 0 .. MaxFaults
    BY <1>1, <1>21, FaultType DEF SaveMerge
  <2> QED
    BY <1>2, <1>21, <2>2, <2>3 DEF SaveMerge, StoresType
<1> QED
  BY <1>7, <1>8, <1>9, <1>10, <1>11, <1>12, <1>13, <1>14, <1>15, <1>16, <1>17, <1>18, <1>19, <1>20, <1>21
  DEF StoresNext, ProcessNext, NotesNext, MemoriesNext, RowNext

LEMMA StepJobs ==
    ASSUME StoresType, JobsKept, StoresNext
    PROVE  JobsKept'
<1>1. job \in [Turns -> JobSet] /\ today \in Days /\ \A t \in Turns : JobFits(job[t])
  BY DEF StoresType, JobsKept
<1>2. ASSUME NEW t \in Turns, Return(t), backend' = backend PROVE JobsKept'
  BY <1>1, <1>2, ReturnFacts, QuietJobs
<1>3. ASSUME UNCHANGED <<job, backend>> PROVE JobsKept'
  BY <1>3, QuietJobs DEF SameJob
<1>4. ASSUME StartAgent PROVE JobsKept'
  <2>1. \A u \in Turns : job'[u].op = "none"
    BY <1>4 DEF StartAgent, JobsKept
  <2>2. \A u \in Turns : SameJob(job[u], job'[u])
    BY <1>4 DEF StartAgent, SameJob
  <2> QED
    BY <2>1, <2>2, QuietJobs
<1>5. ASSUME AgentDies PROVE JobsKept'
  BY <1>5, NoJobFacts, QuietJobs DEF AgentDies
<1>6. ASSUME NEW t \in Turns, NEW e \in Entries, NoteRead(t, e) PROVE JobsKept'
  <2>1. PICK failed \in BOOLEAN :
         Begin(t, [op |-> "note", arg |-> e, level |-> 1, step |-> "read", day |-> today,
                   seen |-> IF failed THEN {} ELSE Note(backend, today), alone |-> ~failed])
    BY <1>6 DEF NoteRead
  <2> DEFINE j == [op |-> "note", arg |-> e, level |-> 1, step |-> "read", day |-> today,
                   seen |-> IF failed THEN {} ELSE Note(backend, today), alone |-> ~failed]
  <2>2. Note(backend, today) \subseteq Entries
    BY NoteType
  <2>3. j \in JobSet
    BY <1>1, <2>2 DEF JobSet, Levels
  <2>4. JobFits(j) /\ j.op = "note" /\ j.step # "cut"
    BY <2>2 DEF JobFits
  <2> HIDE DEF j
  <2> QED
    BY <1>6, <2>1, <2>3, <2>4, BeginJobs DEF NoteRead, j
<1>7. ASSUME NEW t \in Turns, NoteCut(t) PROVE JobsKept'
  <2> DEFINE k == [job[t] EXCEPT !.step = "cut"]
  <2>1. /\ k.op = job[t].op /\ k.arg = job[t].arg /\ k.seen = job[t].seen /\ k.step = "cut"
        /\ k.alone = job[t].alone
    BY <1>1 DEF JobSet
  <2>2. job'[t] = k /\ \A u \in Turns \ {t} : job'[u] = job[u]
    BY <1>1, <1>7 DEF NoteCut
  <2>3. job[t].op = "note" /\ backend' = backend /\ backend = "files"
    BY <1>7 DEF NoteCut
  <2> HIDE DEF k
  <2>4. \A u \in Turns : JobFits(job[u])'
    BY <1>1, <2>1, <2>2, <2>3 DEF JobFits
  <2>5. \A u \in Turns : job'[u].op = job[u].op /\ job'[u].alone = job[u].alone
    BY <2>1, <2>2
  <2> QED
    BY <2>2, <2>3, <2>4, <2>5 DEF JobsKept
<1>8. ASSUME NEW t \in Turns, NEW x \in Texts, NEW l \in Levels, Remember(t, x, l) PROVE JobsKept'
  <2>1. PICK failed \in BOOLEAN, dup \in SUBSET memories :
          Begin(t, [op |-> "remember", arg |-> x, level |-> l, day |-> today,
                      step |-> IF dup = {} THEN "insert" ELSE "raise",
                      seen |-> {m.id : m \in dup}, alone |-> ~failed])
    BY <1>8 DEF Remember
  <2> DEFINE j == [op |-> "remember", arg |-> x, level |-> l, day |-> today,
                      step |-> IF dup = {} THEN "insert" ELSE "raise",
                      seen |-> {m.id : m \in dup}, alone |-> ~failed]
  <2>2. {m.id : m \in dup} \subseteq Nat
    BY DEF MemorySet, StoresType
  <2>3. j \in JobSet
    BY <1>1, <2>2 DEF JobSet
  <2>4. JobFits(j) /\ j.op = "remember" /\ j.step # "cut"
    BY DEF JobFits
  <2> HIDE DEF j
  <2> QED
    BY <1>8, <2>1, <2>3, <2>4, BeginJobs DEF Remember, j
<1>9. ASSUME NEW t \in Turns, SaveSnapshot(t) PROVE JobsKept'
  <2> DEFINE j == [NoJob EXCEPT !.op = "save", !.step = "merge", !.seen = {version}]
  <2>1. version \in Nat
    BY DEF StoresType
  <2>2. j \in JobSet /\ j.op = "save" /\ j.step = "merge"
    BY <2>1, NoJobFacts DEF JobSet
  <2>3. JobFits(j)
    BY <2>2 DEF JobFits
  <2>4. Begin(t, j)
    BY <1>9 DEF SaveSnapshot
  <2> HIDE DEF j
  <2> QED
    BY <1>9, <2>2, <2>3, <2>4, BeginJobs DEF SaveSnapshot
<1> QED
  BY <1>2, <1>3, <1>4, <1>5, <1>6, <1>7, <1>8, <1>9
  DEF StoresNext, ProcessNext, NotesNext, MemoriesNext, RowNext, Midnight, CallFails, NoteWriteFile, NoteWriteRow,
      RememberInsert, RememberRaise, Recall, ChangeSession, SaveMerge

-----------------------------------------------------------------------------
\* The rows of the daily notes.

LEMMA RowsFrame ==
    ASSUME StoresType, RowsKept, noteRows' = noteRows, \A d \in Days : owed'["oracle"][d] \subseteq owed["oracle"][d],
           \A u \in Turns : job'[u].op = "note" /\ backend' = "oracle" =>
               backend = "oracle" /\ SameJob(job[u], job'[u])
    PROVE  RowsKept'
<1>1. job \in [Turns -> JobSet] /\ \A u \in Turns : job[u].day \in Days
  BY DEF StoresType, JobSet
<1>2. \A d \in Days : noteRows'[d] = <<>> => owed'["oracle"][d] = {}
  BY DEF RowsKept
<1>3. \A d \in Days : \A i \in DOMAIN noteRows'[d] : noteRows'[d][i] # {} /\ owed'["oracle"][d] \subseteq noteRows'[d][i]
  BY DEF RowsKept
<1>4. ASSUME NEW u \in Turns, job'[u].op = "note", backend' = "oracle"
      PROVE  /\ owed'["oracle"][job'[u].day] \subseteq job'[u].seen
             /\ job'[u].seen # {} => noteRows'[job'[u].day] # <<>>
             /\ job'[u].alone /\ job'[u].seen = {} => noteRows'[job'[u].day] = <<>>
  <2>1. SameJob(job[u], job'[u]) /\ backend = "oracle"
    BY <1>4
  <2>2. job[u].day \in Days /\ job'[u].day = job[u].day /\ job'[u].seen = job[u].seen
        /\ (job'[u].alone => job[u].alone) /\ job[u].op = "note"
    BY <1>1, <1>4, <2>1 DEF SameJob
  <2> QED
    BY <2>1, <2>2 DEF RowsKept
<1> QED
  BY <1>2, <1>3, <1>4 DEF RowsKept

LEMMA StepRows ==
    ASSUME StoresType, JobsKept, JobsKept', RowsKept, StoresNext
    PROVE  RowsKept'
<1>1. /\ job \in [Turns -> JobSet] /\ \A t \in Turns : JobFits(job[t])
      /\ today \in Days /\ noteRows \in [Days -> Seq(SUBSET Entries)]
      /\ owed \in [Backends -> [Days -> SUBSET Entries]]
      /\ "oracle" \in Backends /\ "files" \in Backends
  BY DEF StoresType, JobsKept, Backends
<1>2. ASSUME UNCHANGED <<noteRows, job, owed>>, backend' = backend \/ \A u \in Turns : job'[u].op = "none"
      PROVE  RowsKept'
  <2>1. \A u \in Turns : job'[u].op = "note" /\ backend' = "oracle" => backend = "oracle" /\ SameJob(job[u], job'[u])
    BY <1>2 DEF SameJob
  <2>2. \A d \in Days : owed'["oracle"][d] \subseteq owed["oracle"][d]
    BY <1>2
  <2> QED
    BY <1>2, <2>1, <2>2, RowsFrame
<1>3. ASSUME NEW t \in Turns, Return(t), noteRows' = noteRows, backend' = backend,
             \A d \in Days : owed'["oracle"][d] \subseteq owed["oracle"][d]
      PROVE  RowsKept'
  <2>1. \A u \in Turns : job'[u] = NoJob \/ SameJob(job[u], job'[u])
    BY <1>1, <1>3, ReturnFacts
  <2> QED
    BY <1>3, <2>1, NoJobFacts, RowsFrame
<1>4. ASSUME NEW t \in Turns, NEW j \in JobSet, Begin(t, j), j.op # "note", UNCHANGED <<noteRows, owed, backend>>
      PROVE  RowsKept'
  <2>1. SameJob(j, job'[t]) /\ \A u \in Turns \ {t} : SameJob(job[u], job'[u])
    BY <1>1, <1>4, BeginFacts
  <2>2. \A u \in Turns : job'[u].op = "note" => SameJob(job[u], job'[u])
    BY <1>4, <2>1 DEF SameJob
  <2>3. \A d \in Days : owed'["oracle"][d] \subseteq owed["oracle"][d]
    BY <1>4
  <2> QED
    BY <1>4, <2>2, <2>3, RowsFrame
<1>5. ASSUME StartAgent PROVE RowsKept'
  BY <1>2, <1>5 DEF StartAgent, JobsKept
<1>6. ASSUME AgentDies PROVE RowsKept'
  <2>1. \A u \in Turns : job'[u].op # "note"
    BY <1>6, NoJobFacts DEF AgentDies
  <2>2. \A d \in Days : owed'["oracle"][d] \subseteq owed["oracle"][d]
    BY <1>1, <1>6 DEF AgentDies
  <2> QED
    BY <1>6, <2>1, <2>2, RowsFrame DEF AgentDies
<1>7. ASSUME NEW t \in Turns, NEW e \in Entries, NoteRead(t, e) PROVE RowsKept'
  <2>1. PICK failed \in BOOLEAN :
         /\ Begin(t, [op |-> "note", arg |-> e, level |-> 1, step |-> "read", day |-> today,
                   seen |-> IF failed THEN {} ELSE Note(backend, today), alone |-> ~failed])
         /\ owed' = IF failed \/ (backend = "files" /\ Truncated(today))
                    THEN [owed EXCEPT ![backend][today] = {}] ELSE owed
    BY <1>7 DEF NoteRead
  <2> DEFINE j == [op |-> "note", arg |-> e, level |-> 1, step |-> "read", day |-> today,
                   seen |-> IF failed THEN {} ELSE Note(backend, today), alone |-> ~failed]
  <2>2. j \in JobSet
    BY <1>1, NoteType DEF JobSet, Levels
  <2>3. j.day = today /\ j.seen = (IF failed THEN {} ELSE Note(backend, today)) /\ j.alone = ~failed /\ j.op = "note"
    OBVIOUS
  <2> HIDE DEF j
  <2>4. SameJob(j, job'[t]) /\ \A u \in Turns \ {t} : SameJob(job[u], job'[u])
    BY <1>1, <2>1, <2>2, BeginFacts DEF j
  <2>5. noteRows' = noteRows /\ backend' = backend /\ backend # "down"
    BY <1>7 DEF NoteRead
  <2>6. \A d \in Days : owed'["oracle"][d] \subseteq owed["oracle"][d]
    BY <1>1, <2>1
  <2>7. ASSUME backend = "oracle"
        PROVE  /\ owed'["oracle"][today] \subseteq j.seen
               /\ j.seen # {} => noteRows[today] # <<>>
               /\ j.alone /\ j.seen = {} => noteRows[today] = <<>>
    <3>1. CASE failed
      <4>1. owed'["oracle"][today] = {}
        BY <1>1, <2>1, <2>7, <3>1
      <4> QED
        BY <2>3, <3>1, <4>1
    <3>2. CASE ~failed
      <4>1. j.seen = NoteOfRows(today)
        BY <2>3, <2>7, <3>2 DEF Note
      <4>2. noteRows[today] # <<>> => Len(noteRows[today]) \in DOMAIN noteRows[today]
        BY <1>1
      <4>3. noteRows[today] # <<>> => j.seen # {} /\ owed["oracle"][today] \subseteq j.seen
        BY <1>1, <4>1, <4>2 DEF NoteOfRows, RowsKept
      <4>4. noteRows[today] = <<>> => j.seen = {} /\ owed["oracle"][today] = {}
        BY <1>1, <4>1 DEF NoteOfRows, RowsKept
      <4> QED
        BY <1>1, <2>6, <4>3, <4>4
    <3> QED
      BY <3>1, <3>2
  <2>8. ASSUME NEW u \in Turns, job'[u].op = "note", backend = "oracle"
        PROVE  /\ owed'["oracle"][job'[u].day] \subseteq job'[u].seen
               /\ job'[u].seen # {} => noteRows[job'[u].day] # <<>>
               /\ job'[u].alone /\ job'[u].seen = {} => noteRows[job'[u].day] = <<>>
    <3>1. CASE u = t
      BY <2>3, <2>4, <2>7, <2>8, <3>1 DEF SameJob
    <3>2. CASE u # t
      <4>1. job[u].day \in Days
        BY <1>1 DEF JobSet
      <4> QED
        BY <2>4, <2>6, <2>8, <3>2, <4>1 DEF SameJob, RowsKept
    <3> QED
      BY <3>1, <3>2
  <2>9. \A d \in Days : noteRows[d] = <<>> => owed'["oracle"][d] = {}
    BY <2>6 DEF RowsKept
  <2>10. \A d \in Days : \A i \in DOMAIN noteRows[d] : noteRows[d][i] # {} /\ owed'["oracle"][d] \subseteq noteRows[d][i]
    BY <2>6 DEF RowsKept
  <2> QED
    BY <2>5, <2>8, <2>9, <2>10 DEF RowsKept
<1>8. ASSUME NEW t \in Turns, NoteCut(t) PROVE RowsKept'
  <2>1. backend' = "files" /\ backend = "files" /\ noteRows' = noteRows /\ owed' = owed
    BY <1>8 DEF NoteCut
  <2> QED
    BY <2>1, RowsFrame
<1>9. ASSUME NEW t \in Turns, NoteWriteFile(t) PROVE RowsKept'
  <2>1. backend = "files" /\ backend' = "files" /\ noteRows' = noteRows
    BY <1>9 DEF NoteWriteFile, JobsKept
  <2>2. owed'["oracle"] = owed["oracle"]
    BY <1>1, <1>9, <2>1 DEF NoteWriteFile, Owing
  <2> QED
    BY <2>1, <2>2, RowsFrame
<1>10. ASSUME NEW t \in Turns, CallFails(t) PROVE RowsKept'
  <2>1. owed'["oracle"] = owed["oracle"]
    BY <1>1, <1>10 DEF CallFails
  <2> QED
    BY <1>3, <1>10, <2>1 DEF CallFails
<1>11. ASSUME NEW t \in Turns, NEW x \in Texts, NEW l \in Levels, Remember(t, x, l) PROVE RowsKept'
  <2>1. PICK failed \in BOOLEAN, dup \in SUBSET memories :
          Begin(t, [op |-> "remember", arg |-> x, level |-> l, day |-> today,
                      step |-> IF dup = {} THEN "insert" ELSE "raise",
                      seen |-> {m.id : m \in dup}, alone |-> ~failed])
    BY <1>11 DEF Remember
  <2> DEFINE j == [op |-> "remember", arg |-> x, level |-> l, day |-> today,
                      step |-> IF dup = {} THEN "insert" ELSE "raise",
                      seen |-> {m.id : m \in dup}, alone |-> ~failed]
  <2>2. {m.id : m \in dup} \subseteq Nat
    BY DEF MemorySet, StoresType
  <2>3. j \in JobSet /\ j.op # "note"
    BY <1>1, <2>2 DEF JobSet
  <2>4. Begin(t, j) /\ UNCHANGED <<noteRows, owed, backend>>
    BY <1>11, <2>1 DEF Remember
  <2> HIDE DEF j
  <2> QED
    BY <1>4, <2>3, <2>4
<1>12. ASSUME NEW t \in Turns, SaveSnapshot(t) PROVE RowsKept'
  <2> DEFINE j == [NoJob EXCEPT !.op = "save", !.step = "merge", !.seen = {version}]
  <2>1. version \in Nat
    BY DEF StoresType
  <2>2. j \in JobSet /\ j.op # "note"
    BY <2>1, NoJobFacts DEF JobSet
  <2>3. Begin(t, j) /\ UNCHANGED <<noteRows, owed, backend>>
    BY <1>12 DEF SaveSnapshot
  <2> HIDE DEF j
  <2> QED
    BY <1>4, <2>2, <2>3
<1>13. ASSUME NEW t \in Turns, NoteWriteRow(t) PROVE RowsKept'
  <2> DEFINE d == job[t].day
             rows == noteRows[today]
             W == Written(t)
             grown == IF job[t].seen = {} THEN Append(rows, W) ELSE [i \in DOMAIN rows |-> W]
  <2>1. /\ backend = "oracle" /\ backend' = "oracle" /\ job[t].op = "note"
        /\ noteRows' = [noteRows EXCEPT ![today] = grown]
        /\ owed' = IF d # today THEN [owed EXCEPT ![backend][today] = {}] ELSE Owing(t)
        /\ Return(t)
    BY <1>13 DEF NoteWriteRow
  <2>2. job'[t] = NoJob /\ \A u \in Turns \ {t} : job'[u] = job[u]
    BY <1>1, <2>1, ReturnFacts
  <2>3. rows \in Seq(SUBSET Entries) /\ W = job[t].seen \cup {job[t].arg} /\ d \in Days
    BY <1>1 DEF Written, JobSet
  <2>4. noteRows'[today] = grown /\ \A b \in Days : b # today => noteRows'[b] = noteRows[b]
    BY <1>1, <2>1
  <2>5. /\ d = today => owed["oracle"][today] \subseteq job[t].seen
        /\ d = today /\ job[t].seen # {} => rows # <<>>
        /\ d = today /\ job[t].alone /\ job[t].seen = {} => rows = <<>>
    BY <2>1 DEF RowsKept
  <2>6. \A b \in Days : b # today => owed'["oracle"][b] \subseteq owed["oracle"][b]
    BY <1>1, <2>1, <2>3 DEF Owing
  <2>7. owed'["oracle"][today] \subseteq (IF d # today THEN {} ELSE IF job[t].alone THEN owed["oracle"][today] \cup {job[t].arg}
                                          ELSE owed["oracle"][today])
    BY <1>1, <2>1, <2>3 DEF Owing
  <2>8. owed'["oracle"][today] \subseteq W
    BY <2>3, <2>5, <2>7
  <2>9. \A i \in DOMAIN rows : rows[i] # {} /\ owed["oracle"][today] \subseteq rows[i]
    BY <1>1 DEF RowsKept
  <2>10. ASSUME NEW i \in DOMAIN grown PROVE grown[i] # {} /\ owed'["oracle"][today] \subseteq grown[i]
    <3>1. CASE job[t].seen # {}
      BY <2>3, <2>8, <2>10, <3>1
    <3>2. CASE job[t].seen = {}
      <4>1. grown = Append(rows, W) /\ Len(rows) \in Nat /\ DOMAIN rows = 1 .. Len(rows)
        BY <2>3, <3>2
      <4>2. DOMAIN Append(rows, W) = 1 .. Len(rows) + 1 /\ Append(rows, W)[Len(rows) + 1] = W
            /\ \A k \in 1 .. Len(rows) : Append(rows, W)[k] = rows[k]
        BY <2>3, AppendProperties
      <4>3. i \in 1 .. Len(rows) \/ i = Len(rows) + 1
        BY <2>10, <4>1, <4>2
      <4>4. CASE i = Len(rows) + 1
        BY <2>3, <2>8, <4>1, <4>2, <4>4
      <4>5. CASE i \in 1 .. Len(rows)
        <5>1. rows # <<>>
          BY <4>1, <4>5
        <5>2. owed'["oracle"][today] \subseteq owed["oracle"][today]
          BY <2>5, <2>7, <3>2, <5>1
        <5> QED
          BY <2>9, <4>1, <4>2, <4>5, <5>2
      <4> QED
        BY <4>3, <4>4, <4>5
    <3> QED
      BY <3>1, <3>2
  <2>11. job[t].seen = {} => grown # <<>>
    <3>1. Append(rows, W) # <<>>
      <4>1. Len(Append(rows, W)) = Len(rows) + 1 /\ Len(rows) \in Nat
        BY <2>3, AppendProperties
      <4>2. Len(Append(rows, W)) # 0
        BY <4>1
      <4> QED
        BY <4>2
    <3> QED
      BY <3>1
  <2>12. job[t].seen # {} /\ rows # <<>> => grown # <<>>
    <3>1. ASSUME rows # <<>>, job[t].seen # {} PROVE grown # <<>>
      <4>1. 1 \in DOMAIN rows
        BY <2>3, <3>1
      <4>2. 1 \in DOMAIN grown
        BY <3>1, <4>1
      <4>3. DOMAIN <<>> = {}
        OBVIOUS
      <4> HIDE DEF grown
      <4> QED
        BY <4>2, <4>3
    <3> QED
      BY <3>1
  <2>12a. grown = <<>> => owed'["oracle"][today] = {}
    BY <2>5, <2>7, <2>11, <2>12
  <2> HIDE DEF grown
  <2>13. ASSUME NEW u \in Turns, job'[u].op = "note"
         PROVE  /\ owed'["oracle"][job'[u].day] \subseteq job'[u].seen
                /\ job'[u].seen # {} => noteRows'[job'[u].day] # <<>>
                /\ ~job'[u].alone
    <3>1. u # t /\ job'[u] = job[u] /\ job[u].op = "note"
      BY <2>2, <2>13, NoJobFacts
    <3>2. ~job[u].alone /\ ~job[t].alone
      BY <2>1, <3>1 DEF JobsKept
    <3>3. job[u].day \in Days
      BY <1>1 DEF JobSet
    <3>4. owed["oracle"][job[u].day] \subseteq job[u].seen /\ (job[u].seen # {} => noteRows[job[u].day] # <<>>)
      BY <2>1, <3>1 DEF RowsKept
    <3>5. owed'["oracle"][today] \subseteq owed["oracle"][today]
      BY <2>7, <3>2
    <3>6. owed'["oracle"][job[u].day] \subseteq owed["oracle"][job[u].day]
      BY <2>6, <3>3, <3>5
    <3>7. job[u].seen # {} => noteRows'[job[u].day] # <<>>
      BY <2>4, <2>11, <2>12, <3>3, <3>4
    <3> QED
      BY <3>1, <3>2, <3>4, <3>6, <3>7
  <2>14. \A b \in Days : noteRows'[b] = <<>> => owed'["oracle"][b] = {}
    BY <2>4, <2>6, <2>12a DEF RowsKept
  <2>15. \A b \in Days : \A i \in DOMAIN noteRows'[b] : noteRows'[b][i] # {} /\ owed'["oracle"][b] \subseteq noteRows'[b][i]
    BY <2>4, <2>6, <2>10 DEF RowsKept
  <2> QED
    BY <2>13, <2>14, <2>15 DEF RowsKept
<1>14. ASSUME NEW t \in Turns, RememberInsert(t) \/ RememberRaise(t) \/ SaveMerge(t) PROVE RowsKept'
  BY <1>3, <1>14 DEF RememberInsert, RememberRaise, SaveMerge
<1>15. ASSUME Midnight \/ ChangeSession \/ \E x \in Texts : Recall(x) PROVE RowsKept'
  BY <1>2, <1>15 DEF Midnight, ChangeSession, Recall
<1> QED
  BY <1>5, <1>6, <1>7, <1>8, <1>9, <1>10, <1>11, <1>12, <1>13, <1>14, <1>15
  DEF StoresNext, ProcessNext, NotesNext, MemoriesNext, RowNext

-----------------------------------------------------------------------------
\* The files of the daily notes.

LEMMA FilesFrame ==
    ASSUME StoresType, FilesKept, noteFiles' = noteFiles, \A d \in Days : owed'["files"][d] \subseteq owed["files"][d],
           \A u \in Turns : job'[u].op = "note" /\ backend' = "files" =>
               backend = "files" /\ SameJob(job[u], job'[u]),
           \A u \in Turns : job[u].step = "cut" => SameJob(job[u], job'[u]) \/ owed'["files"][job[u].day] = {}
    PROVE  FilesKept'
<1>1. \A u \in Turns : job[u].day \in Days
  BY DEF StoresType, JobSet
<1>2. ASSUME NEW u \in Turns, job'[u].op = "note", backend' = "files"
      PROVE  owed'["files"][job'[u].day] \subseteq job'[u].seen
  <2>1. SameJob(job[u], job'[u]) /\ backend = "files"
    BY <1>2
  <2> QED
    BY <1>1, <1>2, <2>1 DEF FilesKept, SameJob
<1>3. ASSUME NEW d \in Days
      PROVE  owed'["files"][d] \subseteq noteFiles'[d] \/ \E u \in Turns : job'[u].step = "cut" /\ job'[u].day = d
  <2>1. CASE owed["files"][d] \subseteq noteFiles[d]
    BY <2>1
  <2>2. CASE \E u \in Turns : job[u].step = "cut" /\ job[u].day = d
    <3>1. PICK u \in Turns : job[u].step = "cut" /\ job[u].day = d
      BY <2>2
    <3>2. SameJob(job[u], job'[u]) \/ owed'["files"][d] = {}
      BY <3>1
    <3> QED
      BY <3>1, <3>2 DEF SameJob
  <2> QED
    BY <2>1, <2>2 DEF FilesKept
<1> QED
  BY <1>2, <1>3 DEF FilesKept

LEMMA StepFiles ==
    ASSUME StoresType, JobsKept, FilesKept, StoresNext
    PROVE  FilesKept'
<1>1. /\ job \in [Turns -> JobSet] /\ \A t \in Turns : JobFits(job[t])
      /\ today \in Days /\ noteFiles \in [Days -> SUBSET Entries]
      /\ owed \in [Backends -> [Days -> SUBSET Entries]]
      /\ "oracle" \in Backends /\ "files" \in Backends
  BY DEF StoresType, JobsKept, Backends
<1>2. ASSUME UNCHANGED <<noteFiles, job, owed>>, backend' = backend \/ \A u \in Turns : job'[u].op = "none"
      PROVE  FilesKept'
  <2>1. \A u \in Turns : /\ SameJob(job[u], job'[u])
                         /\ job'[u].op = "note" /\ backend' = "files" => backend = "files"
    BY <1>2 DEF SameJob
  <2>2. \A d \in Days : owed'["files"][d] \subseteq owed["files"][d]
    BY <1>2
  <2> QED
    BY <1>2, <2>1, <2>2, FilesFrame
<1>3. ASSUME NEW t \in Turns, Return(t), noteFiles' = noteFiles, backend' = backend,
             \A d \in Days : owed'["files"][d] \subseteq owed["files"][d],
             job[t].step = "cut" => owed'["files"][job[t].day] = {}
      PROVE  FilesKept'
  <2>1. \A u \in Turns : job'[u] = NoJob \/ SameJob(job[u], job'[u])
    BY <1>1, <1>3, ReturnFacts
  <2>2. \A u \in Turns \ {t} : SameJob(job[u], job'[u])
    BY <1>1, <1>3, ReturnFacts DEF SameJob
  <2>3. \A u \in Turns : job[u].step = "cut" => SameJob(job[u], job'[u]) \/ owed'["files"][job[u].day] = {}
    BY <1>3, <2>2
  <2> QED
    BY <1>3, <2>1, <2>3, NoJobFacts, FilesFrame
<1>4. ASSUME NEW t \in Turns, NEW j \in JobSet, Begin(t, j), job[t].op = "none", j.op # "note",
             UNCHANGED <<noteFiles, owed, backend>>
      PROVE  FilesKept'
  <2>1. SameJob(j, job'[t]) /\ \A u \in Turns \ {t} : SameJob(job[u], job'[u])
    BY <1>1, <1>4, BeginFacts
  <2>2. \A u \in Turns : job'[u].op = "note" => SameJob(job[u], job'[u])
    BY <1>4, <2>1 DEF SameJob
  <2>3. job[t].step # "cut"
    BY <1>1, <1>4 DEF JobFits
  <2>4. \A d \in Days : owed'["files"][d] \subseteq owed["files"][d]
    BY <1>4
  <2> QED
    BY <1>4, <2>1, <2>2, <2>3, <2>4, FilesFrame
<1>5. ASSUME StartAgent PROVE FilesKept'
  BY <1>2, <1>5 DEF StartAgent, JobsKept
<1>6. ASSUME AgentDies PROVE FilesKept'
  <2>1. \A u \in Turns : job'[u].op # "note"
    BY <1>6, NoJobFacts DEF AgentDies
  <2>2. ASSUME NEW d \in Days
        PROVE  owed'["files"][d] = IF \E t \in Turns : job[t].step = "cut" /\ job[t].day = d THEN {} ELSE owed["files"][d]
    BY <1>1, <1>6 DEF AgentDies, Truncated
  <2>3. \A u \in Turns : job[u].step = "cut" => owed'["files"][job[u].day] = {}
    BY <1>1, <2>2 DEF JobSet
  <2>4. noteFiles' = noteFiles
    BY <1>6 DEF AgentDies
  <2> QED
    BY <2>1, <2>2, <2>3, <2>4, FilesFrame
<1>7. ASSUME NEW t \in Turns, NEW e \in Entries, NoteRead(t, e) PROVE FilesKept'
  <2>1. PICK failed \in BOOLEAN :
         /\ Begin(t, [op |-> "note", arg |-> e, level |-> 1, step |-> "read", day |-> today,
                   seen |-> IF failed THEN {} ELSE Note(backend, today), alone |-> ~failed])
         /\ owed' = IF failed \/ (backend = "files" /\ Truncated(today))
                    THEN [owed EXCEPT ![backend][today] = {}] ELSE owed
    BY <1>7 DEF NoteRead
  <2> DEFINE j == [op |-> "note", arg |-> e, level |-> 1, step |-> "read", day |-> today,
                   seen |-> IF failed THEN {} ELSE Note(backend, today), alone |-> ~failed]
  <2>2. j \in JobSet
    BY <1>1, NoteType DEF JobSet, Levels
  <2>3. j.day = today /\ j.seen = (IF failed THEN {} ELSE Note(backend, today)) /\ j.op = "note"
    OBVIOUS
  <2> HIDE DEF j
  <2>4. SameJob(j, job'[t]) /\ \A u \in Turns \ {t} : SameJob(job[u], job'[u])
    BY <1>1, <2>1, <2>2, BeginFacts DEF j
  <2>5. noteFiles' = noteFiles /\ backend' = backend /\ job[t].step # "cut" /\ job[t].op = "none"
    BY <1>1, <1>7 DEF NoteRead, JobFits
  <2>6. \A d \in Days : owed'["files"][d] \subseteq owed["files"][d]
    BY <1>1, <2>1
  <2>7. ASSUME backend = "files" PROVE owed'["files"][today] \subseteq j.seen
    <3>1. CASE failed \/ Truncated(today)
      BY <1>1, <2>1, <2>7, <3>1
    <3>2. CASE ~failed /\ ~Truncated(today)
      <4>1. ~ \E u \in Turns : job[u].step = "cut" /\ job[u].day = today
        BY <3>2 DEF Truncated
      <4>2. owed["files"][today] \subseteq noteFiles[today]
        BY <1>1, <4>1 DEF FilesKept
      <4>3. j.seen = noteFiles[today]
        BY <2>3, <2>7, <3>2 DEF Note, NoteOfFile
      <4> QED
        BY <1>1, <2>6, <4>2, <4>3
    <3> QED
      BY <3>1, <3>2
  <2>8. ASSUME NEW u \in Turns, job'[u].op = "note", backend = "files"
        PROVE  owed'["files"][job'[u].day] \subseteq job'[u].seen
    <3>1. CASE u = t
      BY <2>3, <2>4, <2>7, <2>8, <3>1 DEF SameJob
    <3>2. CASE u # t
      <4>1. job[u].day \in Days
        BY <1>1 DEF JobSet
      <4> QED
        BY <2>4, <2>6, <2>8, <3>2, <4>1 DEF SameJob, FilesKept
    <3> QED
      BY <3>1, <3>2
  <2>9. ASSUME NEW d \in Days
        PROVE  owed'["files"][d] \subseteq noteFiles[d] \/ \E u \in Turns : job'[u].step = "cut" /\ job'[u].day = d
    <3>1. \A u \in Turns : job[u].step = "cut" => SameJob(job[u], job'[u])
      BY <2>4, <2>5
    <3> QED
      BY <2>6, <3>1 DEF FilesKept, SameJob
  <2> QED
    BY <2>5, <2>8, <2>9 DEF FilesKept
<1>8. ASSUME NEW t \in Turns, NoteCut(t) PROVE FilesKept'
  <2>1. /\ backend' = backend /\ owed' = owed /\ job' = [job EXCEPT ![t].step = "cut"]
        /\ noteFiles' = [noteFiles EXCEPT ![job[t].day] = {}]
    BY <1>8 DEF NoteCut
  <2>2. /\ job'[t].op = job[t].op /\ job'[t].seen = job[t].seen /\ job'[t].day = job[t].day /\ job'[t].step = "cut"
        /\ \A u \in Turns \ {t} : job'[u] = job[u]
    BY <1>1, <2>1 DEF JobSet
  <2>3. \A d \in Days : d # job[t].day => noteFiles'[d] = noteFiles[d]
    BY <1>1, <2>1
  <2>4. \A u \in Turns : job'[u].op = "note" /\ backend' = "files" => owed'["files"][job'[u].day] \subseteq job'[u].seen
    BY <2>1, <2>2 DEF FilesKept
  <2>5. \A d \in Days : owed'["files"][d] \subseteq noteFiles'[d] \/ \E u \in Turns : job'[u].step = "cut" /\ job'[u].day = d
    BY <2>1, <2>2, <2>3 DEF FilesKept
  <2> QED
    BY <2>4, <2>5 DEF FilesKept
<1>9. ASSUME NEW t \in Turns, NoteWriteFile(t) PROVE FilesKept'
  <2> DEFINE b == job[t].day
  <2>1. /\ backend = "files" /\ backend' = "files" /\ job[t].op = "note" /\ job[t].step = "cut"
        /\ noteFiles' = [noteFiles EXCEPT ![b] = Written(t)] /\ owed' = Owing(t) /\ Return(t)
    BY <1>1, <1>9 DEF NoteWriteFile, JobsKept, JobFits, JobSet
  <2>2. job'[t] = NoJob /\ \A u \in Turns \ {t} : job'[u] = job[u]
    BY <1>1, <2>1, ReturnFacts
  <2>3. b \in Days /\ Written(t) = job[t].seen \cup {job[t].arg}
    BY <1>1 DEF JobSet, Written
  <2>4. noteFiles'[b] = Written(t) /\ \A d \in Days : d # b => noteFiles'[d] = noteFiles[d]
    BY <1>1, <2>1, <2>3
  <2>5. \A d \in Days : d # b => owed'["files"][d] = owed["files"][d]
    BY <1>1, <2>1, <2>3 DEF Owing
  <2>6. owed'["files"][b] = IF job[t].alone THEN owed["files"][b] \cup {job[t].arg} ELSE owed["files"][b]
    BY <1>1, <2>1, <2>3 DEF Owing
  <2>7. owed["files"][b] \subseteq job[t].seen
    BY <2>1 DEF FilesKept
  <2>8. owed'["files"][b] \subseteq noteFiles'[b]
    BY <2>3, <2>4, <2>6, <2>7
  <2> HIDE DEF b
  <2>9. ASSUME NEW u \in Turns, job'[u].op = "note" PROVE owed'["files"][job'[u].day] \subseteq job'[u].seen
    <3>1. u # t /\ job'[u] = job[u] /\ job[u].op = "note" /\ job[u].day \in Days
      BY <1>1, <2>2, <2>9, NoJobFacts DEF JobSet
    <3>2. ~job[t].alone
      BY <2>1, <3>1 DEF JobsKept
    <3>3. owed["files"][job[u].day] \subseteq job[u].seen
      BY <2>1, <3>1 DEF FilesKept
    <3> QED
      BY <2>5, <2>6, <3>1, <3>2, <3>3
  <2>10. ASSUME NEW d \in Days
         PROVE  owed'["files"][d] \subseteq noteFiles'[d] \/ \E u \in Turns : job'[u].step = "cut" /\ job'[u].day = d
    <3>1. CASE d = b
      BY <2>8, <3>1
    <3>2. CASE d # b
      <4>1. \A u \in Turns : job[u].step = "cut" /\ job[u].day = d => job'[u] = job[u]
        BY <2>2, <3>2 DEF b
      <4> QED
        BY <2>4, <2>5, <3>2, <4>1 DEF FilesKept
    <3> QED
      BY <3>1, <3>2
  <2> QED
    BY <2>9, <2>10 DEF FilesKept
<1>10. ASSUME NEW t \in Turns, NoteWriteRow(t) PROVE FilesKept'
  <2>1. backend = "oracle" /\ job[t].step # "cut" /\ Return(t) /\ noteFiles' = noteFiles /\ backend' = backend
    BY <1>10 DEF NoteWriteRow, JobsKept
  <2>2. owed'["files"] = owed["files"]
    BY <1>1, <1>10, <2>1 DEF NoteWriteRow, Owing
  <2> QED
    BY <1>3, <2>1, <2>2
<1>11. ASSUME NEW t \in Turns, CallFails(t) PROVE FilesKept'
  <2>1. job[t].day \in Days
    BY <1>1 DEF JobSet
  <2>2. /\ \A d \in Days : owed'["files"][d] \subseteq owed["files"][d]
        /\ job[t].step = "cut" => owed'["files"][job[t].day] = {}
    BY <1>1, <1>11, <2>1 DEF CallFails
  <2> QED
    BY <1>3, <1>11, <2>2 DEF CallFails
<1>12. ASSUME NEW t \in Turns, NEW x \in Texts, NEW l \in Levels, Remember(t, x, l) PROVE FilesKept'
  <2>1. PICK failed \in BOOLEAN, dup \in SUBSET memories :
          Begin(t, [op |-> "remember", arg |-> x, level |-> l, day |-> today,
                      step |-> IF dup = {} THEN "insert" ELSE "raise",
                      seen |-> {m.id : m \in dup}, alone |-> ~failed])
    BY <1>12 DEF Remember
  <2> DEFINE j == [op |-> "remember", arg |-> x, level |-> l, day |-> today,
                      step |-> IF dup = {} THEN "insert" ELSE "raise",
                      seen |-> {m.id : m \in dup}, alone |-> ~failed]
  <2>2. {m.id : m \in dup} \subseteq Nat
    BY DEF MemorySet, StoresType
  <2>3. j \in JobSet /\ j.op # "note"
    BY <1>1, <2>2 DEF JobSet
  <2>4. Begin(t, j) /\ UNCHANGED <<noteFiles, owed, backend>> /\ job[t].op = "none"
    BY <1>12, <2>1 DEF Remember
  <2> HIDE DEF j
  <2> QED
    BY <1>4, <2>3, <2>4
<1>13. ASSUME NEW t \in Turns, SaveSnapshot(t) PROVE FilesKept'
  <2> DEFINE j == [NoJob EXCEPT !.op = "save", !.step = "merge", !.seen = {version}]
  <2>1. version \in Nat
    BY DEF StoresType
  <2>2. j \in JobSet /\ j.op # "note"
    BY <2>1, NoJobFacts DEF JobSet
  <2>3. Begin(t, j) /\ UNCHANGED <<noteFiles, owed, backend>> /\ job[t].op = "none"
    BY <1>13 DEF SaveSnapshot
  <2> HIDE DEF j
  <2> QED
    BY <1>4, <2>2, <2>3
<1>14. ASSUME NEW t \in Turns, RememberInsert(t) \/ RememberRaise(t) \/ SaveMerge(t) PROVE FilesKept'
  <2>1. job[t].step # "cut" /\ Return(t) /\ UNCHANGED <<noteFiles, owed, backend>>
    BY <1>14 DEF RememberInsert, RememberRaise, SaveMerge
  <2> QED
    BY <1>3, <2>1
<1>15. ASSUME Midnight \/ ChangeSession \/ \E x \in Texts : Recall(x) PROVE FilesKept'
  BY <1>2, <1>15 DEF Midnight, ChangeSession, Recall
<1> QED
  BY <1>5, <1>6, <1>7, <1>8, <1>9, <1>10, <1>11, <1>12, <1>13, <1>14, <1>15
  DEF StoresNext, ProcessNext, NotesNext, MemoriesNext, RowNext

-----------------------------------------------------------------------------
\* The memories.

LEMMA NearEither == \A x, y : Near(x, y) <=> Near(y, x)
<1> SUFFICES ASSUME NEW x, NEW y PROVE Near(x, y) <=> Near(y, x)
  OBVIOUS
<1>1. {x, y} = {y, x}
  OBVIOUS
<1> QED
  BY <1>1 DEF Near

\* A step that stores nothing new, whatever it marks, and begins no call.
LEMMA MarkedMemories ==
    ASSUME MemoriesKept, NEW f, \A m \in memories : f[m].text = m.text /\ f[m].vector = m.vector /\ f[m].alone = m.alone,
           memories' = {f[m] : m \in memories}, embedding' = embedding,
           \A u \in Turns : job'[u].step = "insert" => SameJob(job[u], job'[u])
    PROVE  MemoriesKept'
<1>1. \A n \in memories' : \E m \in memories : n = f[m]
  OBVIOUS
<1>2. embedding' = "onnx" => \A m \in memories' : m.vector
  BY <1>1 DEF MemoriesKept
<1>3. ASSUME NEW u \in Turns, job'[u].step = "insert", job'[u].alone, NEW n \in memories'
      PROVE  n.text # job'[u].arg /\ (embedding' = "onnx" => ~Near(n.text, job'[u].arg))
  <2>1. job[u].step = "insert" /\ job[u].alone /\ job'[u].arg = job[u].arg
    BY <1>3 DEF SameJob
  <2>2. PICK m \in memories : n = f[m]
    BY <1>1
  <2> QED
    BY <2>1, <2>2 DEF MemoriesKept
<1>4. StoredOnce'
  <2> SUFFICES ASSUME NEW m \in memories', NEW n \in memories', m # n,
                      m.text = n.text \/ (embedding' = "onnx" /\ Near(m.text, n.text))
               PROVE  ~m.alone \/ ~n.alone
    BY DEF StoredOnce, Near
  <2>1. PICK k \in memories : m = f[k]
    BY <1>1
  <2>2. PICK l \in memories : n = f[l]
    BY <1>1
  <2>3. k # l
    BY <2>1, <2>2
  <2>4. k.text = m.text /\ l.text = n.text /\ k.alone = m.alone /\ l.alone = n.alone
    BY <2>1, <2>2
  <2> QED
    BY <2>3, <2>4 DEF MemoriesKept, StoredOnce
<1> QED
  BY <1>2, <1>3, <1>4 DEF MemoriesKept, Near

LEMMA SameMemories ==
    ASSUME MemoriesKept, memories' = memories, embedding' = embedding,
           \A u \in Turns : job'[u].step = "insert" => SameJob(job[u], job'[u])
    PROVE  MemoriesKept'
<1> DEFINE f == [m \in memories |-> m]
<1>1. memories' = {f[m] : m \in memories} /\ \A m \in memories : f[m] = m
  OBVIOUS
<1> HIDE DEF f
<1> QED
  BY <1>1, MarkedMemories

LEMMA StepMemories ==
    ASSUME StoresType, JobsKept, MemoriesKept, StoresNext
    PROVE  MemoriesKept'
<1>1. /\ job \in [Turns -> JobSet] /\ \A t \in Turns : JobFits(job[t])
      /\ today \in Days /\ memories \subseteq MemorySet
  BY DEF StoresType, JobsKept
<1>2. ASSUME UNCHANGED <<memories, embedding>>, \A u \in Turns : job'[u] = NoJob \/ SameJob(job[u], job'[u])
      PROVE  MemoriesKept'
  BY <1>2, NoJobFacts, SameMemories
<1>3. ASSUME UNCHANGED <<memories, embedding, job>> PROVE MemoriesKept'
  BY <1>2, <1>3 DEF SameJob
<1>4. ASSUME NEW t \in Turns, NEW j \in JobSet, Begin(t, j), j.step # "insert", UNCHANGED <<memories, embedding>>
      PROVE  MemoriesKept'
  <2>1. SameJob(j, job'[t]) /\ \A u \in Turns \ {t} : SameJob(job[u], job'[u])
    BY <1>1, <1>4, BeginFacts
  <2>2. \A u \in Turns : job'[u].step = "insert" => SameJob(job[u], job'[u])
    BY <1>4, <2>1 DEF SameJob
  <2> QED
    BY <1>4, <2>2, SameMemories
<1>5. ASSUME AgentDies PROVE MemoriesKept'
  BY <1>2, <1>5 DEF AgentDies
<1>6. ASSUME NEW t \in Turns, NEW e \in Entries, NoteRead(t, e) PROVE MemoriesKept'
  <2>1. PICK failed \in BOOLEAN :
          Begin(t, [op |-> "note", arg |-> e, level |-> 1, step |-> "read", day |-> today,
                   seen |-> IF failed THEN {} ELSE Note(backend, today), alone |-> ~failed])
    BY <1>6 DEF NoteRead
  <2> DEFINE j == [op |-> "note", arg |-> e, level |-> 1, step |-> "read", day |-> today,
                   seen |-> IF failed THEN {} ELSE Note(backend, today), alone |-> ~failed]
  <2>2. j \in JobSet /\ j.step # "insert"
    BY <1>1, NoteType DEF JobSet, Levels
  <2>3. Begin(t, j) /\ UNCHANGED <<memories, embedding>>
    BY <1>6, <2>1 DEF NoteRead
  <2> HIDE DEF j
  <2> QED
    BY <1>4, <2>2, <2>3
<1>7. ASSUME NEW t \in Turns, NoteCut(t) PROVE MemoriesKept'
  <2>1. \A u \in Turns : job'[u].step = "insert" => SameJob(job[u], job'[u])
    BY <1>1, <1>7 DEF NoteCut, SameJob, JobSet
  <2> QED
    BY <1>7, <2>1, SameMemories DEF NoteCut
<1>8. ASSUME NEW t \in Turns, Return(t), UNCHANGED <<memories, embedding>> PROVE MemoriesKept'
  BY <1>1, <1>2, <1>8, ReturnFacts
<1>9. ASSUME NEW t \in Turns, NEW x \in Texts, NEW l \in Levels, Remember(t, x, l) PROVE MemoriesKept'
  <2>1. PICK failed \in BOOLEAN, dup \in SUBSET memories :
         /\ IF failed THEN Fault /\ dup = {}
            ELSE /\ UNCHANGED faults
                 /\ IF Duplicates(x) = {} THEN dup = {} ELSE \E m \in Duplicates(x) : dup = {m}
         /\ Begin(t, [op |-> "remember", arg |-> x, level |-> l, day |-> today,
                      step |-> IF dup = {} THEN "insert" ELSE "raise",
                      seen |-> {m.id : m \in dup}, alone |-> ~failed])
    BY <1>9 DEF Remember
  <2> DEFINE j == [op |-> "remember", arg |-> x, level |-> l, day |-> today,
                      step |-> IF dup = {} THEN "insert" ELSE "raise",
                      seen |-> {m.id : m \in dup}, alone |-> ~failed]
  <2>2. {m.id : m \in dup} \subseteq Nat
    BY <1>1 DEF MemorySet
  <2>3. j \in JobSet
    BY <1>1, <2>2 DEF JobSet
  <2>4. j.arg = x /\ j.step = (IF dup = {} THEN "insert" ELSE "raise") /\ j.alone = ~failed
    OBVIOUS
  <2>5. Begin(t, j) /\ UNCHANGED <<memories, embedding>>
    BY <1>9, <2>1 DEF Remember
  <2> HIDE DEF j
  <2>6. CASE dup # {}
    BY <1>4, <2>3, <2>4, <2>5, <2>6
  <2>7. CASE dup = {}
    <3>1. ~failed => Duplicates(x) = {}
      BY <2>1, <2>7
    <3>2. ASSUME ~failed, NEW m \in memories PROVE m.text # x /\ (embedding = "onnx" => ~Near(m.text, x))
      <4>1. m.text # x
        BY <3>1, <3>2 DEF Duplicates
      <4>2. {n \in memories : n.text = x} = {}
        BY <3>1, <3>2 DEF Duplicates
      <4>3. {n \in memories : embedding = "onnx" /\ n.vector /\ Near(n.text, x)} = {}
        BY <3>1, <3>2, <4>2 DEF Duplicates
      <4>4. embedding = "onnx" => m.vector
        BY DEF MemoriesKept
      <4> QED
        BY <4>1, <4>3, <4>4
    <3>3. SameJob(j, job'[t]) /\ \A u \in Turns \ {t} : SameJob(job[u], job'[u])
      BY <1>1, <2>3, <2>5, BeginFacts
    <3>4. ASSUME NEW u \in Turns, job'[u].step = "insert", job'[u].alone, NEW m \in memories
          PROVE  m.text # job'[u].arg /\ (embedding = "onnx" => ~Near(m.text, job'[u].arg))
      <4>1. CASE u = t
        BY <2>4, <3>2, <3>3, <3>4, <4>1 DEF SameJob
      <4>2. CASE u # t
        <5>1. job[u].step = "insert" /\ job[u].alone /\ job'[u].arg = job[u].arg
          BY <3>3, <3>4, <4>2 DEF SameJob
        <5> QED
          BY <5>1 DEF MemoriesKept
      <4> QED
        BY <4>1, <4>2
    <3>5. memories' = memories /\ embedding' = embedding
      BY <2>5
    <3>6. StoredOnce'
      BY <3>5 DEF MemoriesKept, StoredOnce, Near
    <3>7. embedding' = "onnx" => \A m \in memories' : m.vector
      BY <3>5 DEF MemoriesKept
    <3> QED
      BY <3>4, <3>5, <3>6, <3>7 DEF MemoriesKept, Near
  <2> QED
    BY <2>6, <2>7
<1>10. ASSUME NEW t \in Turns, RememberInsert(t) PROVE MemoriesKept'
  <2>1. PICK vector \in BOOLEAN :
         /\ EmbedText(vector)
         /\ memories' = memories \cup
              {[id |-> Cardinality(memories), text |-> job[t].arg, level |-> job[t].level,
                vector |-> vector, alone |-> job[t].alone, accessed |-> FALSE]}
    BY <1>10 DEF RememberInsert
  <2> DEFINE new == [id |-> Cardinality(memories), text |-> job[t].arg, level |-> job[t].level,
                vector |-> vector, alone |-> job[t].alone, accessed |-> FALSE]
  <2>2. new.text = job[t].arg /\ new.vector = vector /\ new.alone = job[t].alone
    OBVIOUS
  <2>3. memories' = memories \cup {new}
    BY <2>1
  <2> HIDE DEF new
  <2>4. job[t].step = "insert" /\ job[t].op = "remember" /\ Return(t) /\ embedding' = embedding
    BY <1>1, <1>10 DEF RememberInsert, JobFits, JobSet
  <2>5. embedding = "onnx" => vector
    BY <2>1 DEF EmbedText
  <2>6. job'[t] = NoJob /\ \A u \in Turns \ {t} : job'[u] = job[u]
    BY <1>1, <2>4, ReturnFacts
  <2>7. ASSUME NEW u \in Turns, job'[u].step = "insert" PROVE ~job'[u].alone
    <3>1. u # t /\ job'[u] = job[u] /\ job[u].op = "remember"
      BY <1>1, <2>6, <2>7, NoJobFacts DEF JobFits, JobSet
    <3> QED
      BY <2>4, <3>1 DEF JobsKept
  <2>8. \A m \in memories : job[t].alone => m.text # new.text /\ (embedding = "onnx" => ~Near(m.text, new.text))
    BY <2>2, <2>4 DEF MemoriesKept
  <2>9. StoredOnce'
    <3> SUFFICES ASSUME NEW m \in memories', NEW n \in memories', m # n, m.alone, n.alone,
                        m.text = n.text \/ (embedding = "onnx" /\ Near(m.text, n.text))
                 PROVE  FALSE
      BY <2>4 DEF StoredOnce, Near
    <3>1. CASE m \in memories /\ n \in memories
      BY <3>1 DEF MemoriesKept, StoredOnce
    <3>2. CASE m = new /\ n \in memories
      BY <2>2, <2>8, <3>2, NearEither
    <3>3. CASE n = new /\ m \in memories
      BY <2>2, <2>8, <3>3
    <3> QED
      BY <2>3, <3>1, <3>2, <3>3
  <2>10. embedding' = "onnx" => \A m \in memories' : m.vector
    BY <2>2, <2>3, <2>4, <2>5 DEF MemoriesKept
  <2> QED
    BY <2>7, <2>9, <2>10 DEF MemoriesKept
<1>11. ASSUME NEW t \in Turns, RememberRaise(t) PROVE MemoriesKept'
  <2>1. Return(t) /\ embedding' = embedding
    BY <1>11 DEF RememberRaise
  <2>2. \A u \in Turns : job'[u].step = "insert" => SameJob(job[u], job'[u])
    BY <1>1, <2>1, ReturnFacts, NoJobFacts
  <2> DEFINE f == [m \in memories |-> IF m.id \in job[t].seen
                          THEN [m EXCEPT !.level = job[t].level, !.accessed = TRUE] ELSE m]
  <2>3. memories' = {f[m] : m \in memories} \/ memories' = memories
    BY <1>11 DEF RememberRaise
  <2>4. \A m \in memories : f[m].text = m.text /\ f[m].vector = m.vector /\ f[m].alone = m.alone
    BY <1>1 DEF MemorySet
  <2> HIDE DEF f
  <2> QED
    BY <2>1, <2>2, <2>3, <2>4, MarkedMemories, SameMemories
<1>12. ASSUME NEW x \in Texts, Recall(x) PROVE MemoriesKept'
  <2> DEFINE found == {m \in memories : m.vector /\ Near(m.text, x)}
             f == [m \in memories |-> IF m \in found THEN [m EXCEPT !.accessed = TRUE] ELSE m]
  <2>1. memories' = (memories \ found) \cup {[m EXCEPT !.accessed = TRUE] : m \in found} /\ embedding' = embedding /\ job' = job
    BY <1>12 DEF Recall
  <2>2. memories' = {f[m] : m \in memories}
    BY <2>1
  <2>3. \A m \in memories : f[m].text = m.text /\ f[m].vector = m.vector /\ f[m].alone = m.alone
    BY <1>1 DEF MemorySet
  <2> HIDE DEF f
  <2>4. \A u \in Turns : SameJob(job[u], job'[u])
    BY <2>1 DEF SameJob
  <2> QED
    BY <2>1, <2>2, <2>3, <2>4, MarkedMemories
<1>13. ASSUME NEW t \in Turns, SaveSnapshot(t) PROVE MemoriesKept'
  <2> DEFINE j == [NoJob EXCEPT !.op = "save", !.step = "merge", !.seen = {version}]
  <2>1. version \in Nat
    BY DEF StoresType
  <2>2. j \in JobSet /\ j.step # "insert"
    BY <2>1, NoJobFacts DEF JobSet
  <2>3. Begin(t, j) /\ UNCHANGED <<memories, embedding>>
    BY <1>13 DEF SaveSnapshot
  <2> HIDE DEF j
  <2> QED
    BY <1>4, <2>2, <2>3
<1> QED
  BY <1>3, <1>5, <1>6, <1>7, <1>8, <1>9, <1>10, <1>11, <1>12, <1>13
  DEF StoresNext, ProcessNext, NotesNext, MemoriesNext, RowNext, StartAgent, Midnight, CallFails, NoteWriteFile,
      NoteWriteRow, ChangeSession, SaveMerge

-----------------------------------------------------------------------------
\* The session's row.

LEMMA SnapshotsFrame ==
    ASSUME SnapshotsKept, UNCHANGED sessionVars, backend' = backend \/ backend' # "oracle",
           \A u \in Turns : job'[u].op = "save" => SameJob(job[u], job'[u])
    PROVE  SnapshotsKept'
BY DEF SnapshotsKept, SameJob, sessionVars, RowNotBehind

LEMMA StepSnapshots ==
    ASSUME StoresType, JobsKept, SnapshotsKept, StoresNext
    PROVE  SnapshotsKept'
<1>1. /\ job \in [Turns -> JobSet] /\ \A t \in Turns : JobFits(job[t])
      /\ today \in Days /\ memories \subseteq MemorySet
      /\ version \in Nat /\ sessionRow \in Nat /\ savedAlone \in Nat
  BY DEF StoresType, JobsKept
<1>2. ASSUME UNCHANGED sessionVars, backend' = backend, \A u \in Turns : job'[u] = NoJob \/ SameJob(job[u], job'[u])
      PROVE  SnapshotsKept'
  BY <1>2, NoJobFacts, SnapshotsFrame
<1>3. ASSUME UNCHANGED sessionVars, backend' = backend, job' = job PROVE SnapshotsKept'
  BY <1>2, <1>3 DEF SameJob
<1>4. ASSUME NEW t \in Turns, NEW j \in JobSet, Begin(t, j), j.op # "save", UNCHANGED sessionVars, backend' = backend
      PROVE  SnapshotsKept'
  <2>1. SameJob(j, job'[t]) /\ \A u \in Turns \ {t} : SameJob(job[u], job'[u])
    BY <1>1, <1>4, BeginFacts
  <2>2. \A u \in Turns : job'[u].op = "save" => SameJob(job[u], job'[u])
    BY <1>4, <2>1 DEF SameJob
  <2> QED
    BY <1>4, <2>2, SnapshotsFrame
<1>5. ASSUME NEW t \in Turns, Return(t), UNCHANGED sessionVars, backend' = backend PROVE SnapshotsKept'
  BY <1>1, <1>2, <1>5, ReturnFacts
<1>6. ASSUME StartAgent PROVE SnapshotsKept'
  <2>1. \A u \in Turns : job'[u].op # "save"
    BY <1>6 DEF StartAgent, JobsKept
  <2>2. sessionRow' = sessionRow /\ sessionRow >= savedAlone
    BY <1>6 DEF StartAgent, SnapshotsKept, RowNotBehind
  <2>3. sessionRow' >= savedAlone'
    BY <1>1, <1>6, <2>2 DEF StartAgent, LoadAll
  <2>4. backend' = "oracle" => savedAlone' <= version'
    BY <1>1, <1>6, <2>2 DEF StartAgent, LoadAll
  <2> QED
    BY <2>1, <2>3, <2>4 DEF SnapshotsKept, RowNotBehind
<1>7. ASSUME AgentDies PROVE SnapshotsKept'
  BY <1>7, NoJobFacts, SnapshotsFrame DEF AgentDies, sessionVars
<1>8. ASSUME NEW t \in Turns, NEW e \in Entries, NoteRead(t, e) PROVE SnapshotsKept'
  <2>1. PICK failed \in BOOLEAN :
          Begin(t, [op |-> "note", arg |-> e, level |-> 1, step |-> "read", day |-> today,
                   seen |-> IF failed THEN {} ELSE Note(backend, today), alone |-> ~failed])
    BY <1>8 DEF NoteRead
  <2> DEFINE j == [op |-> "note", arg |-> e, level |-> 1, step |-> "read", day |-> today,
                   seen |-> IF failed THEN {} ELSE Note(backend, today), alone |-> ~failed]
  <2>2. j \in JobSet /\ j.op # "save"
    BY <1>1, NoteType DEF JobSet, Levels
  <2>3. Begin(t, j) /\ UNCHANGED sessionVars /\ backend' = backend
    BY <1>8, <2>1 DEF NoteRead
  <2> HIDE DEF j
  <2> QED
    BY <1>4, <2>2, <2>3
<1>9. ASSUME NEW t \in Turns, NoteCut(t) PROVE SnapshotsKept'
  <2>1. \A u \in Turns : job'[u].op = "save" => SameJob(job[u], job'[u])
    BY <1>1, <1>9 DEF NoteCut, SameJob, JobSet
  <2> QED
    BY <1>9, <2>1, SnapshotsFrame DEF NoteCut
<1>10. ASSUME NEW t \in Turns, NEW x \in Texts, NEW l \in Levels, Remember(t, x, l) PROVE SnapshotsKept'
  <2>1. PICK failed \in BOOLEAN, dup \in SUBSET memories :
          Begin(t, [op |-> "remember", arg |-> x, level |-> l, day |-> today,
                      step |-> IF dup = {} THEN "insert" ELSE "raise",
                      seen |-> {m.id : m \in dup}, alone |-> ~failed])
    BY <1>10 DEF Remember
  <2> DEFINE j == [op |-> "remember", arg |-> x, level |-> l, day |-> today,
                      step |-> IF dup = {} THEN "insert" ELSE "raise",
                      seen |-> {m.id : m \in dup}, alone |-> ~failed]
  <2>2. {m.id : m \in dup} \subseteq Nat
    BY <1>1 DEF MemorySet
  <2>3. j \in JobSet /\ j.op # "save"
    BY <1>1, <2>2 DEF JobSet
  <2>4. Begin(t, j) /\ UNCHANGED sessionVars /\ backend' = backend
    BY <1>10, <2>1 DEF Remember
  <2> HIDE DEF j
  <2> QED
    BY <1>4, <2>3, <2>4
<1>11. ASSUME ChangeSession PROVE SnapshotsKept'
  <2>1. version' = version + 1 /\ UNCHANGED <<backend, job, sessionRow, savedAlone>>
    BY <1>11 DEF ChangeSession
  <2>2. ASSUME NEW u \in Turns, job'[u].op = "save" PROVE \E v \in savedAlone' .. version' : job'[u].seen = {v}
    <3>1. PICK v \in savedAlone .. version : job[u].seen = {v}
      BY <2>1, <2>2 DEF SnapshotsKept
    <3>2. v \in savedAlone' .. version'
      BY <1>1, <2>1
    <3> QED
      BY <2>1, <3>1, <3>2
  <2> QED
    BY <1>1, <2>1, <2>2 DEF SnapshotsKept, RowNotBehind
<1>12. ASSUME NEW t \in Turns, SaveSnapshot(t) PROVE SnapshotsKept'
  <2> DEFINE j == [NoJob EXCEPT !.op = "save", !.step = "merge", !.seen = {version}]
  <2>1. j \in JobSet /\ j.seen = {version}
    BY <1>1, NoJobFacts DEF JobSet
  <2>2. Begin(t, j) /\ UNCHANGED sessionVars /\ backend' = backend /\ backend = "oracle"
    BY <1>12 DEF SaveSnapshot
  <2> HIDE DEF j
  <2>3. SameJob(j, job'[t]) /\ \A u \in Turns \ {t} : SameJob(job[u], job'[u])
    BY <1>1, <2>1, <2>2, BeginFacts
  <2>4. version \in savedAlone .. version
    BY <1>1, <2>2 DEF SnapshotsKept
  <2>5. ASSUME NEW u \in Turns, job'[u].op = "save" PROVE \E v \in savedAlone .. version : job'[u].seen = {v}
    <3>1. CASE u = t
      BY <2>1, <2>3, <2>4, <3>1 DEF SameJob
    <3>2. CASE u # t
      BY <2>3, <2>5, <3>2 DEF SameJob, SnapshotsKept
    <3> QED
      BY <3>1, <3>2
  <2> QED
    BY <2>2, <2>5 DEF SnapshotsKept, RowNotBehind, sessionVars
<1>13. ASSUME NEW t \in Turns, SaveMerge(t) PROVE SnapshotsKept'
  <2> DEFINE w == CHOOSE v \in job[t].seen : TRUE
  <2>1. job[t].op = "save" /\ w \in 0 .. MaxVersion /\ savedAlone <= w /\ w <= version
    BY <1>13, MergedFacts DEF SaveMerge
  <2>2. Return(t) /\ version' = version /\ backend' = backend
    BY <1>13 DEF SaveMerge
  <2>3. job'[t] = NoJob /\ \A u \in Turns \ {t} : job'[u] = job[u]
    BY <1>1, <2>2, ReturnFacts
  <2>4. ASSUME NEW u \in Turns, job'[u].op = "save" PROVE u # t /\ job'[u] = job[u] /\ ~job[t].alone
    BY <2>1, <2>3, <2>4, NoJobFacts DEF JobsKept
  <2>5. CASE sessionRow' = w /\ savedAlone' = IF job[t].alone THEN sessionRow' ELSE savedAlone
    <3> HIDE DEF w
    <3>1. savedAlone' <= version' /\ sessionRow' >= savedAlone'
      BY <1>1, <2>1, <2>2, <2>5, StoresAssumption
    <3>2. ASSUME NEW u \in Turns, job'[u].op = "save" PROVE \E v \in savedAlone' .. version' : job'[u].seen = {v}
      BY <2>2, <2>4, <2>5, <3>2 DEF SnapshotsKept
    <3> QED
      BY <3>1, <3>2 DEF SnapshotsKept, RowNotBehind
  <2>6. CASE UNCHANGED <<sessionRow, savedAlone>>
    <3>1. \A u \in Turns : job'[u].op = "save" => SameJob(job[u], job'[u])
      BY <2>4 DEF SameJob
    <3> QED
      BY <2>2, <2>6, <3>1, SnapshotsFrame DEF sessionVars
  <2> QED
    BY <1>13, <2>5, <2>6 DEF SaveMerge
<1> QED
  BY <1>3, <1>5, <1>6, <1>7, <1>8, <1>9, <1>10, <1>11, <1>12, <1>13
  DEF StoresNext, ProcessNext, NotesNext, MemoriesNext, RowNext, Midnight, CallFails, NoteWriteFile,
      NoteWriteRow, RememberInsert, RememberRaise, Recall

-----------------------------------------------------------------------------
\* The theorems.

LEMMA StepStores == StoresInv /\ [StoresNext]_storesVars => StoresInv'
<1> SUFFICES ASSUME StoresInv, [StoresNext]_storesVars PROVE StoresInv'
  OBVIOUS
<1>1. StoresType /\ JobsKept /\ RowsKept /\ FilesKept /\ MemoriesKept /\ SnapshotsKept
  BY DEF StoresInv
<1>2. CASE StoresNext
  BY <1>1, <1>2, StepStoresType, StepJobs, StepRows, StepFiles, StepMemories, StepSnapshots DEF StoresInv
<1>3. CASE UNCHANGED storesVars
  <2>1. StoresType'
    BY <1>1, <1>3 DEF StoresType, storesVars
  <2>2. JobsKept'
    BY <1>1, <1>3 DEF JobsKept, storesVars, JobFits
  <2>3. RowsKept' /\ FilesKept'
    BY <1>1, <1>3 DEF RowsKept, FilesKept, storesVars
  <2>4. MemoriesKept'
    BY <1>1, <1>3, SameMemories DEF storesVars, SameJob
  <2>5. SnapshotsKept'
    BY <1>1, <1>3 DEF SnapshotsKept, RowNotBehind, storesVars
  <2> QED
    BY <2>1, <2>2, <2>3, <2>4, <2>5 DEF StoresInv
<1> QED
  BY <1>2, <1>3

LEMMA AlwaysStores == StoresSpec => []StoresInv
BY InitStores, StepStores, PTL DEF StoresSpec

\* Every variable of the stores is of its type, with the bounds of days, rows and versions.
THEOREM StoresTyped == StoresSpec => []StoresTypeOK
<1>1. StoresInv => StoresTypeOK
  <2> SUFFICES ASSUME StoresInv PROVE StoresTypeOK
    OBVIOUS
  <2>1. \A m \in memories : m.text \in Texts /\ m.level \in Levels /\ m.id < MaxMemories
    BY StoresAssumption DEF StoresInv, StoresType, MemorySet
  <2>2. \A t \in Turns : job[t].op \in {"none", "note", "remember", "save"}
    BY DEF StoresInv, StoresType, JobSet
  <2> QED
    BY <2>1, <2>2 DEF StoresInv, StoresType, StoresTypeOK
<1> QED
  BY <1>1, AlwaysStores, PTL

\* An entry written by a call of its own stays in every version of its day's note until
\* a failed read, a read or an end within another's truncated write, or a call over
\* midnight gives up the note; overlap alone costs nothing.  The session's row never
\* falls behind a save that ran alone, unless the sessions could not be loaded.
THEOREM WrittenStays == StoresSpec => []StoresKept
<1>1. StoresInv => StoresKept
  <2> SUFFICES ASSUME StoresInv PROVE StoresKept
    OBVIOUS
  <2>1. ASSUME NEW d \in Days, NEW i \in DOMAIN noteRows[d] PROVE owed["oracle"][d] \subseteq noteRows[d][i]
    BY DEF StoresInv, RowsKept
  <2>2. ASSUME NEW d \in Days
        PROVE  owed["files"][d] \subseteq noteFiles[d]
                 \cup UNION {IF job[t].step = "cut" THEN job[t].seen ELSE {} : t \in Turns}
    <3>1. CASE owed["files"][d] \subseteq noteFiles[d]
      BY <3>1
    <3>2. CASE \E t \in Turns : job[t].step = "cut" /\ job[t].day = d
      <4>1. PICK t \in Turns : job[t].step = "cut" /\ job[t].day = d
        BY <3>2
      <4>2. job[t].op = "note" /\ backend = "files"
        BY <4>1 DEF StoresInv, StoresType, JobsKept, JobFits, JobSet
      <4>3. owed["files"][d] \subseteq job[t].seen
        BY <4>1, <4>2 DEF StoresInv, FilesKept
      <4> QED
        BY <4>1, <4>3
    <3> QED
      BY <3>1, <3>2 DEF StoresInv, FilesKept
  <2>3. RowNotBehind
    BY DEF StoresInv, SnapshotsKept
  <2> QED
    BY <2>1, <2>2, <2>3 DEF StoresKept, JournalKept
<1> QED
  BY <1>1, AlwaysStores, PTL

\* No text is remembered twice, nor two that are as good as equal, by calls whose search
\* succeeded and that overlapped no other.
THEOREM RememberedOnce == StoresSpec => []StoredOnce
<1>1. StoresInv => StoredOnce
  BY DEF StoresInv, MemoriesKept
<1> QED
  BY <1>1, AlwaysStores, PTL

-----------------------------------------------------------------------------
\* Logins.

\* Credentials made of tokens that have been issued; those of Anthropic cannot be refreshed.
CredOf(n) == [token : 0 .. n, refresh : 0 .. n, method : {"none", "oauth", "token"}]
StoreOf(n) == {f \in [LoginProviders -> CredOf(n)] : f["anthropic"].refresh = 0}

\* What an errand can be, when n tokens have been issued.
ErrandOf(n) ==
    {e \in [kind : {"none", "refresh", "login", "logout"},
            step : {"none", "refresh", "poll", "load", "truncate", "write"}, for : LoginProviders,
            cred : CredOf(n), store : StoreOf(n), stale : BOOLEAN] :
        /\ e.kind = "none" => e = NoErrand
        /\ e.kind # "none" => e.step # "none"
        /\ e.kind = "refresh" => e.step # "poll" /\ e.for = "openai" /\ e.cred.refresh # 0
        /\ e.step = "refresh" => e.kind = "refresh"
        /\ e.kind = "login" /\ e.step # "poll" => e.cred # NoCred
        /\ e.step = "poll" => e.kind = "login" /\ e.for = "openai" /\ e.cred = NoCred
        /\ e.kind = "logout" => e.cred = NoCred
        /\ e.for = "anthropic" => e.cred.refresh = 0
        /\ e.step \in {"truncate", "write"} => e.store[e.for] = e.cred}

LoginType ==
    /\ authFile \in [form : {"none", "torn", "whole"}, creds : StoreOf(issued)]
    /\ errand \in [Callers -> ErrandOf(issued)]
    /\ issued \in 0 .. MaxTokens /\ due \subseteq Tokens /\ valid \subseteq 1 .. issued
    /\ authFaults \in Nat
    /\ loggedIn \in [LoginProviders -> BOOLEAN] /\ renewable \in BOOLEAN /\ crossed \in BOOLEAN

LEMMA MoreIssued ==
    ASSUME NEW m \in Nat, NEW n \in Nat, m <= n
    PROVE  CredOf(m) \subseteq CredOf(n) /\ StoreOf(m) \subseteq StoreOf(n) /\ ErrandOf(m) \subseteq ErrandOf(n)
<1>1. CredOf(m) \subseteq CredOf(n)
  BY DEF CredOf
<1>2. StoreOf(m) \subseteq StoreOf(n)
  BY <1>1 DEF StoreOf
<1>3. ErrandOf(m) \subseteq ErrandOf(n)
  BY <1>1, <1>2 DEF ErrandOf
<1> QED
  BY <1>1, <1>2, <1>3

LEMMA NothingHeld ==
    ASSUME NEW n \in Nat
    PROVE  /\ NoCred \in CredOf(n) /\ [v \in LoginProviders |-> NoCred] \in StoreOf(n)
           /\ NoErrand \in ErrandOf(n)
<1>1. NoCred \in CredOf(n)
  BY DEF CredOf, NoCred
<1>2. [v \in LoginProviders |-> NoCred] \in StoreOf(n)
  BY <1>1 DEF StoreOf, LoginProviders, NoCred
<1>3. NoErrand \in ErrandOf(n)
  BY <1>1, <1>2 DEF ErrandOf, NoErrand, LoginProviders
<1> QED
  BY <1>1, <1>2, <1>3

LEMMA InitLoginType == CredentialsInit => LoginType
<1> SUFFICES ASSUME CredentialsInit PROVE LoginType
  OBVIOUS
<1>1. issued = 0 /\ 0 \in Nat /\ issued \in 0 .. MaxTokens
  BY CredentialsAssumption DEF CredentialsInit
<1>2. authFile \in [form : {"none", "torn", "whole"}, creds : StoreOf(issued)]
  BY <1>1, NothingHeld DEF CredentialsInit
<1>3. errand \in [Callers -> ErrandOf(issued)]
  BY <1>1, NothingHeld DEF CredentialsInit
<1> QED
  BY <1>1, <1>2, <1>3 DEF CredentialsInit, LoginType

LEMMA BecomesType ==
    ASSUME NEW p \in Callers, NEW e, NEW n \in Nat, errand \in [Callers -> ErrandOf(n)], Becomes(p, e), e \in ErrandOf(n)
    PROVE  /\ errand' \in [Callers -> ErrandOf(n)]
           /\ errand'[p] = e /\ \A q \in Callers \ {p} : errand'[q] = errand[q]
BY DEF Becomes

LEMMA OvertakenType ==
    ASSUME NEW p \in Callers, NEW n \in Nat, errand \in [Callers -> ErrandOf(n)]
    PROVE  /\ Overtaken(p) \in [Callers -> ErrandOf(n)]
           /\ \A q \in Callers : /\ Overtaken(p)[q].kind = errand[q].kind /\ Overtaken(p)[q].step = errand[q].step
                                 /\ Overtaken(p)[q].for = errand[q].for /\ Overtaken(p)[q].cred = errand[q].cred
                                 /\ Overtaken(p)[q].store = errand[q].store
           /\ \A q \in Callers \ {p} : errand[q].kind # "none" => Overtaken(p)[q].stale
           /\ Overtaken(p)[p] = errand[p]
<1>1. ASSUME NEW q \in Callers, errand[q].kind # "none"
      PROVE  [errand[q] EXCEPT !.stale = TRUE] \in ErrandOf(n)
  BY <1>1 DEF ErrandOf
<1> QED
  BY <1>1 DEF Overtaken, ErrandOf

LEMMA StepLoginType ==
    ASSUME LoginType, CredentialsNext
    PROVE  LoginType'
<1> USE CredentialsAssumption
<1>1. issued \in Nat /\ NoCred \in CredOf(issued) /\ NoErrand \in ErrandOf(issued)
      /\ [v \in LoginProviders |-> NoCred] \in StoreOf(issued)
  BY NothingHeld DEF LoginType
<1>2. CASE TimePasses
  <2>1. authFile.creds["openai"] \in CredOf(issued)
    BY DEF LoginType, StoreOf, LoginProviders
  <2>2. authFile.creds["openai"].token \in 0 .. issued
    BY <2>1 DEF CredOf
  <2> DEFINE t == authFile.creds["openai"].token
  <2>3. t # 0 /\ due' = due \cup {t}
    BY <1>2 DEF TimePasses
  <2>4. issued <= MaxTokens /\ due \subseteq 1 .. MaxTokens /\ MaxTokens \in Nat
    BY DEF LoginType, Tokens
  <2> HIDE DEF t
  <2>5. t \in Nat /\ t <= issued
    BY <1>1, <2>2 DEF t
  <2>6. t \in 1 .. MaxTokens
    BY <1>1, <2>3, <2>4, <2>5
  <2>7. due' \subseteq Tokens
    BY <2>3, <2>4, <2>6 DEF Tokens
  <2> QED
    BY <1>2, <2>7 DEF TimePasses, LoginType, historyVars
<1> DEFINE E == ErrandOf(issued)
<1>3. ASSUME NEW p \in Callers, NEW e, e \in ErrandOf(issued), Becomes(p, e),
             UNCHANGED <<authFile, loggedIn, renewable>>, UNCHANGED serverVars,
             authFaults' \in Nat, crossed' \in BOOLEAN
      PROVE  LoginType'
  <2>1. errand' \in [Callers -> ErrandOf(issued)]
    BY <1>1, <1>3, BecomesType DEF LoginType
  <2> QED
    BY <1>3, <2>1 DEF LoginType, serverVars
<1>4. ASSUME NEW p \in Callers, GetToken(p) PROVE LoginType'
  <2> DEFINE c == authFile.creds["openai"]
             e == [NoErrand EXCEPT !.kind = "refresh", !.step = "refresh", !.cred = c]
  <2>1. c \in CredOf(issued)
    BY DEF LoginType, StoreOf, LoginProviders
  <2>2. e \in ErrandOf(issued)
    BY <1>1, <1>4, <2>1 DEF GetToken, ErrandOf, NoErrand, LoginProviders
  <2> QED
    BY <1>4, <1>3, <2>2 DEF GetToken, historyVars, LoginType
<1>5. ASSUME NEW p \in Callers, LoginDeviceCode(p) PROVE LoginType'
  <2>1. Login("openai", "poll", NoCred) \in ErrandOf(issued)
    BY <1>1 DEF Login, ErrandOf, NoErrand, LoginProviders, NoCred
  <2> QED
    BY <1>3, <1>5, <2>1 DEF LoginDeviceCode, historyVars, LoginType
<1>6. ASSUME NEW p \in Callers, LoginPasteToken(p) PROVE LoginType'
  <2>1. [NoCred EXCEPT !.method = "token"] \in CredOf(issued)
    BY <1>1 DEF CredOf, NoCred
  <2>2. Login("anthropic", "load", [NoCred EXCEPT !.method = "token"]) \in ErrandOf(issued)
    BY <1>1, <2>1 DEF Login, ErrandOf, NoErrand, LoginProviders, NoCred
  <2> QED
    BY <1>3, <1>6, <2>2 DEF LoginPasteToken, historyVars, LoginType
<1>7. ASSUME NEW p \in Callers, NEW v \in LoginProviders, AuthLogout(p, v) PROVE LoginType'
  <2>1. [NoErrand EXCEPT !.kind = "logout", !.step = "load", !.for = v] \in ErrandOf(issued)
    BY <1>1 DEF ErrandOf, NoErrand, LoginProviders, NoCred
  <2> QED
    BY <1>3, <1>7, <2>1 DEF AuthLogout, historyVars, LoginType
<1>8. ASSUME NEW p \in Callers, AuthLogoutAll(p) PROVE LoginType'
  <2>1. errand' \in [Callers -> ErrandOf(issued)]
    BY <1>1, <1>8, OvertakenType DEF AuthLogoutAll, LoginType
  <2> QED
    BY <1>1, <1>8, <2>1 DEF AuthLogoutAll, serverVars, LoginType
<1>9. ASSUME NEW p \in Callers, NEW n \in Nat, issued <= n, n <= MaxTokens, issued' = n,
             NEW e, e \in ErrandOf(n), Becomes(p, e), valid' \subseteq 1 .. n,
             UNCHANGED <<authFile, due, loggedIn, renewable>>,
             authFaults' \in Nat, crossed' \in BOOLEAN
      PROVE  LoginType'
  <2>1. StoreOf(issued) \subseteq StoreOf(n) /\ ErrandOf(issued) \subseteq ErrandOf(n)
    BY <1>1, <1>9, MoreIssued
  <2>2. errand \in [Callers -> ErrandOf(n)]
    BY <2>1 DEF LoginType
  <2>3. errand' \in [Callers -> ErrandOf(n)]
    BY <1>9, <2>2, BecomesType
  <2> QED
    BY <1>9, <2>1, <2>3 DEF LoginType
<1>10. ASSUME NEW p \in Callers, Exchanged(p), UNCHANGED <<authFile, authFaults>>, UNCHANGED historyVars
       PROVE  LoginType'
  <2>1. PICK refresh \in {0, issued'} :
          /\ valid' = valid \cup ({refresh} \ {0})
          /\ Becomes(p, Login("openai", "load", [token |-> issued', refresh |-> refresh, method |-> "oauth"]))
    BY <1>10 DEF Exchanged
  <2> DEFINE n == issued + 1
             c == [token |-> n, refresh |-> refresh, method |-> "oauth"]
  <2>2. issued' = n /\ n \in Nat /\ issued <= n /\ n <= MaxTokens /\ n # 0
    BY <1>1, <1>10 DEF Exchanged
  <2>3. c \in CredOf(n) /\ c # NoCred
    BY <2>1, <2>2 DEF CredOf, NoCred
  <2>4. NoErrand \in ErrandOf(n)
    BY <2>2, NothingHeld
  <2>5. Login("openai", "load", c) \in ErrandOf(n)
    BY <2>3, <2>4 DEF Login, ErrandOf, NoErrand, LoginProviders
  <2>6. valid' \subseteq 1 .. n
    BY <2>1, <2>2 DEF LoginType
  <2> QED
    BY <1>9, <1>10, <2>1, <2>2, <2>5, <2>6 DEF Exchanged, historyVars, LoginType
<1>11. ASSUME NEW p \in Callers, PollDeviceCode(p) PROVE LoginType'
  BY <1>1, <1>3, <1>10, <1>11 DEF PollDeviceCode, Ends, historyVars, LoginType
<1>12. ASSUME NEW p \in Callers, RefreshAccessToken(p) PROVE LoginType'
  <2> DEFINE e == errand[p]
  <2>1. CASE /\ e.cred.refresh \notin valid
             /\ Ends(p) /\ UNCHANGED <<authFaults, crossed>> /\ UNCHANGED serverVars
    BY <1>1, <1>3, <1>12, <2>1 DEF RefreshAccessToken, Ends, LoginType
  <2>2. ASSUME e.cred.refresh \in valid, issued < MaxTokens, issued' = issued + 1,
               NEW refresh \in {0, issued'}, 
               valid' = IF refresh = 0 THEN valid ELSE (valid \ {e.cred.refresh}) \cup {refresh},
               \/ /\ Becomes(p, [e EXCEPT !.step = "load",
                                               !.cred = Refreshed(e.cred, issued', refresh)])
                  /\ UNCHANGED <<authFaults, crossed>>
               \/ AuthFault /\ Ends(p) /\ crossed' = TRUE,
               UNCHANGED due
        PROVE LoginType'
    <3> DEFINE n == issued + 1
               c == Refreshed(e.cred, n, refresh)
    <3>1. issued' = n /\ n \in Nat /\ issued <= n /\ n <= MaxTokens /\ n # 0
      BY <1>1, <2>2 DEF LoginType
    <3>2. valid' \subseteq 1 .. n
      BY <2>2, <3>1 DEF LoginType
    <3>3. e \in ErrandOf(issued) /\ e.step = "refresh"
      BY <1>12 DEF RefreshAccessToken, LoginType
    <3>4. e \in ErrandOf(n)
      BY <1>1, <3>1, <3>3, MoreIssued
    <3>5. c \in CredOf(n) /\ c.refresh # 0
      BY <2>2, <3>1, <3>3, <3>4 DEF Refreshed, CredOf, ErrandOf
    <3>6. [e EXCEPT !.step = "load", !.cred = c] \in ErrandOf(n)
      BY <3>3, <3>4, <3>5 DEF ErrandOf
    <3>7. NoErrand \in ErrandOf(n)
      BY <3>1, NothingHeld
    <3>8. UNCHANGED <<authFile, due, loggedIn, renewable>>
      BY <1>12, <2>2 DEF RefreshAccessToken
    <3>9. authFaults \in Nat /\ crossed \in BOOLEAN /\ (AuthFault => authFaults' \in Nat)
      BY DEF LoginType, AuthFault
    <3>10. Becomes(p, [e EXCEPT !.step = "load", !.cred = c]) \/ Becomes(p, NoErrand)
      BY <2>2, <3>1 DEF Ends
    <3> HIDE DEF c, e, n
    <3> QED
      BY <1>9, <3>1, <3>2, <3>6, <3>7, <3>8, <3>9, <3>10, <2>2
  <2> QED
    BY <1>12, <2>1, <2>2 DEF RefreshAccessToken
<1>13. ASSUME NEW p \in Callers, LoadStore(p) PROVE LoginType'
  <2> DEFINE e == errand[p]
             e2 == [e EXCEPT !.step = "truncate", !.store = [authFile.creds EXCEPT ![e.for] = e.cred],
                             !.stale = @ /\ e.kind = "refresh"]
  <2>1. e \in ErrandOf(issued) /\ authFile.creds \in StoreOf(issued) /\ e.step = "load"
    BY <1>13 DEF LoginType, LoadStore
  <2>2. [authFile.creds EXCEPT ![e.for] = e.cred] \in StoreOf(issued)
    BY <2>1 DEF StoreOf, ErrandOf, LoginProviders
  <2>3. [authFile.creds EXCEPT ![e.for] = e.cred][e.for] = e.cred /\ e.kind # "none"
    BY <2>1 DEF StoreOf, ErrandOf, NoErrand
  <2>4. e2 \in ErrandOf(issued)
    BY <2>1, <2>2, <2>3 DEF ErrandOf
  <2>5. authFaults' \in Nat /\ crossed' \in BOOLEAN
    BY <1>13 DEF LoginType, LoadStore
  <2>6. Becomes(p, e2) \/ Becomes(p, NoErrand)
    BY <1>13 DEF LoadStore, Ends
  <2> QED
    BY <1>1, <1>3, <1>13, <2>4, <2>5, <2>6 DEF LoadStore
<1>14. ASSUME NEW p \in Callers, Truncate(p) PROVE LoginType'
  <2> DEFINE e == errand[p]
  <2>1. e \in ErrandOf(issued) /\ e.step = "truncate"
    BY <1>14 DEF LoginType, Truncate
  <2>2. [e EXCEPT !.step = "write"] \in ErrandOf(issued)
    BY <2>1 DEF ErrandOf, NoErrand
  <2>3. errand' \in [Callers -> ErrandOf(issued)]
    BY <1>1, <1>14, <2>2, OvertakenType DEF Truncate, LoginType
  <2> QED
    BY <1>1, <1>14, <2>3 DEF Truncate, serverVars, LoginType
<1>15. ASSUME NEW p \in Callers, WriteStore(p) PROVE LoginType'
  <2> DEFINE e == errand[p]
  <2>1. e \in ErrandOf(issued) /\ e.step = "write"
    BY <1>15 DEF LoginType, WriteStore
  <2>2. e.store \in StoreOf(issued)
    BY <2>1 DEF ErrandOf
  <2>3. errand' \in [Callers -> ErrandOf(issued)]
    BY <1>1, <1>15, BecomesType DEF WriteStore, Ends, LoginType
  <2>4. loggedIn' \in [LoginProviders -> BOOLEAN] /\ renewable' \in BOOLEAN
    BY <1>15 DEF WriteStore, LoginType
  <2> QED
    BY <1>15, <2>2, <2>3, <2>4 DEF WriteStore, serverVars, LoginType
<1>16. ASSUME NEW p \in Callers, CallerDies(p) PROVE LoginType'
  BY <1>1, <1>3, <1>16 DEF CallerDies, Ends, AuthFault, LoginType
<1> QED
  BY <1>2, <1>4, <1>5, <1>6, <1>7, <1>8, <1>10, <1>11, <1>12, <1>13, <1>14, <1>15, <1>16
  DEF CredentialsNext, LoginBrowser

\* The refresh token a login has brought and not yet written is its own, and valid.
Fresh ==
    \A p \in Callers : errand[p].kind = "login" /\ errand[p].cred.refresh # 0 =>
        /\ errand[p].cred.refresh \in valid
        /\ authFile.creds["openai"].refresh # errand[p].cred.refresh
        /\ \A q \in Callers \ {p} : /\ errand[q].cred.refresh # errand[p].cred.refresh
                                    /\ errand[q].store["openai"].refresh # errand[p].cred.refresh

Held(q) == errand[q].cred.refresh
Carried(q) == errand[q].store["openai"].refresh
OnFile == authFile.creds["openai"].refresh

LEMMA FreshFrom ==
    ASSUME LoginType, Fresh, NEW p \in Callers,
           \A q \in Callers \ {p} : errand'[q].kind = errand[q].kind /\ Held(q)' = Held(q) /\ Carried(q)' = Carried(q),
           errand'[p].kind = "login" /\ Held(p)' # 0 => errand[p].kind = "login" /\ Held(p)' = Held(p),
           Held(p)' \in {0, Held(p), OnFile, issued + 1},
           Carried(p)' \in {0, Held(p), Carried(p), OnFile},
           OnFile' \in {0, OnFile} \/ (OnFile' = Carried(p) /\ errand'[p].kind # "login"),
           valid \ {Held(p)} \subseteq valid', errand[p].kind = "login" => valid \subseteq valid'
    PROVE  Fresh'
<1>1. SUFFICES ASSUME NEW h \in Callers, errand'[h].kind = "login", Held(h)' # 0
               PROVE  /\ Held(h)' \in valid' /\ OnFile' # Held(h)'
                      /\ \A q \in Callers \ {h} : Held(q)' # Held(h)' /\ Carried(q)' # Held(h)'
  BY DEF Fresh, Held, Carried, OnFile
<1>2. errand[h].kind = "login" /\ Held(h)' = Held(h)
  BY <1>1
<1>3. /\ Held(h) \in valid /\ OnFile # Held(h)
      /\ \A q \in Callers \ {h} : Held(q) # Held(h) /\ Carried(q) # Held(h)
  BY <1>1, <1>2 DEF Fresh, Held, Carried, OnFile
<1>4. Held(h) # issued + 1
  BY <1>3 DEF LoginType
<1> QED
  BY <1>1, <1>2, <1>3, <1>4

LEMMA StepFresh ==
    ASSUME LoginType, LoginType', Fresh, CredentialsNext
    PROVE  Fresh'
<1> USE DEF Held, Carried, OnFile
<1>0. /\ \A q \in Callers : errand[q] \in ErrandOf(issued)
      /\ OnFile \in 0 .. issued /\ \A q \in Callers : Held(q) \in 0 .. issued /\ Carried(q) \in 0 .. issued
      /\ issued \in Nat /\ valid \subseteq 1 .. issued
  BY DEF LoginType, ErrandOf, StoreOf, CredOf, LoginProviders
<1>1. ASSUME NEW p \in Callers, NEW e, Becomes(p, e)
      PROVE  errand'[p] = e /\ \A q \in Callers \ {p} : errand'[q] = errand[q]
  BY <1>1, BecomesType DEF LoginType, Becomes
<1>2. NoErrand.kind = "none" /\ NoErrand.cred.refresh = 0 /\ NoErrand.store["openai"].refresh = 0
      /\ NoErrand.store = [v \in LoginProviders |-> NoCred] /\ NoCred.refresh = 0
  BY DEF NoErrand, NoCred, LoginProviders
<1>3. CASE TimePasses
  BY <1>3 DEF TimePasses, Fresh, historyVars
<1>4. ASSUME NEW p \in Callers, GetToken(p) PROVE Fresh'
  <2> DEFINE e == [NoErrand EXCEPT !.kind = "refresh", !.step = "refresh", !.cred = authFile.creds["openai"]]
  <2>1. errand'[p] = e /\ \A q \in Callers \ {p} : errand'[q] = errand[q]
    BY <1>1, <1>4 DEF GetToken
  <2>2. e.kind = "refresh" /\ e.cred = authFile.creds["openai"] /\ e.store = NoErrand.store
    BY DEF NoErrand
  <2> QED
    BY <1>2, <1>4, <2>1, <2>2, FreshFrom DEF GetToken, serverVars
<1>5. ASSUME NEW p \in Callers, Becomes(p, NoErrand), valid' = valid, authFile' = authFile PROVE Fresh'
  BY <1>1, <1>2, <1>5, FreshFrom
<1>6. ASSUME NEW p \in Callers, RefreshAccessToken(p) PROVE Fresh'
  <2>1. errand[p].step = "refresh" /\ errand[p].kind = "refresh" /\ authFile' = authFile
    BY <1>0, <1>6 DEF RefreshAccessToken, ErrandOf
  <2>2. CASE Ends(p) /\ UNCHANGED serverVars
    BY <1>5, <2>1, <2>2 DEF Ends, serverVars
  <2>3. ASSUME issued' = issued + 1, NEW refresh \in {0, issued'},
               valid' = IF refresh = 0 THEN valid ELSE (valid \ {errand[p].cred.refresh}) \cup {refresh},
               \/ Becomes(p, [errand[p] EXCEPT !.step = "load", !.cred = Refreshed(errand[p].cred, issued', refresh)])
               \/ Ends(p)
        PROVE  Fresh'
    <3>1. CASE Ends(p)
      BY <1>1, <1>2, <2>1, <2>3, <3>1, FreshFrom DEF Ends
    <3> DEFINE e == [errand[p] EXCEPT !.step = "load", !.cred = Refreshed(errand[p].cred, issued', refresh)]
    <3>2. CASE Becomes(p, e)
      <4>1. errand'[p] = e /\ \A q \in Callers \ {p} : errand'[q] = errand[q]
        BY <1>1, <3>2
      <4>2. /\ e.kind = "refresh" /\ e.store = errand[p].store
            /\ e.cred.refresh \in {errand[p].cred.refresh, issued + 1}
        BY <1>0, <2>1, <2>3 DEF Refreshed, ErrandOf
      <4> QED
        BY <2>1, <2>3, <4>1, <4>2, FreshFrom
    <3> QED
      BY <2>3, <3>1, <3>2
  <2> QED
    BY <1>6, <2>2, <2>3 DEF RefreshAccessToken
<1>7. ASSUME NEW p \in Callers, Exchanged(p), authFile' = authFile PROVE Fresh'
  <2>1. PICK refresh \in {0, issued'} :
          /\ valid' = valid \cup ({refresh} \ {0})
          /\ Becomes(p, Login("openai", "load", [token |-> issued', refresh |-> refresh, method |-> "oauth"]))
    BY <1>7 DEF Exchanged
  <2>2. issued' = issued + 1
    BY <1>7 DEF Exchanged
  <2> DEFINE e == Login("openai", "load", [token |-> issued', refresh |-> refresh, method |-> "oauth"])
  <2>a. e.kind = "login" /\ e.cred.refresh = refresh /\ e.store = NoErrand.store
    BY DEF Login, NoErrand
  <2>b. errand'[p] = e /\ \A q \in Callers \ {p} : errand'[q] = errand[q]
    BY <1>1, <2>1
  <2> HIDE DEF e
  <2>3. /\ errand'[p].kind = "login" /\ Held(p)' = refresh /\ Carried(p)' = 0
        /\ \A q \in Callers \ {p} : errand'[q] = errand[q]
    BY <1>2, <2>a, <2>b
  <2>4. SUFFICES ASSUME NEW h \in Callers, errand'[h].kind = "login", Held(h)' # 0
                 PROVE  /\ Held(h)' \in valid' /\ OnFile' # Held(h)'
                        /\ \A q \in Callers \ {h} : Held(q)' # Held(h)' /\ Carried(q)' # Held(h)'
    BY DEF Fresh
  <2>5. CASE h = p
    <3>1. Held(h)' = issued + 1
      BY <2>1, <2>2, <2>3, <2>4, <2>5
    <3>2. OnFile' = OnFile /\ \A q \in Callers \ {h} : Held(q)' = Held(q) /\ Carried(q)' = Carried(q)
      BY <1>7, <2>3, <2>5
    <3>3. \A x \in 0 .. issued : x # issued + 1
      BY <1>0
    <3> QED
      BY <1>0, <2>1, <2>3, <2>4, <2>5, <3>1, <3>2, <3>3
  <2>6. CASE h # p
    <3>1. /\ Held(h)' = Held(h) /\ Held(h) \in valid /\ OnFile # Held(h)
          /\ \A q \in Callers \ {h} : Held(q) # Held(h) /\ Carried(q) # Held(h)
      BY <2>3, <2>4, <2>6 DEF Fresh
    <3>2. Held(h) # issued + 1 /\ Held(h) # 0
      BY <1>0, <3>1
    <3> QED
      BY <1>7, <2>1, <2>2, <2>3, <2>6, <3>1, <3>2
  <2> QED
    BY <2>5, <2>6
<1>8. ASSUME NEW p \in Callers, LoginDeviceCode(p) PROVE Fresh'
  <2> DEFINE e == Login("openai", "poll", NoCred)
  <2>1. e.cred.refresh = 0 /\ e.store = NoErrand.store
    BY <1>2 DEF Login, NoErrand
  <2>2. errand'[p] = e /\ \A q \in Callers \ {p} : errand'[q] = errand[q]
    BY <1>1, <1>8 DEF LoginDeviceCode
  <2> HIDE DEF e
  <2> QED
    BY <1>2, <1>8, <2>1, <2>2, FreshFrom DEF LoginDeviceCode, serverVars
<1>9. ASSUME NEW p \in Callers, PollDeviceCode(p) PROVE Fresh'
  BY <1>5, <1>7, <1>9 DEF PollDeviceCode, Ends, serverVars
<1>10. ASSUME NEW p \in Callers, LoginPasteToken(p) PROVE Fresh'
  <2> DEFINE e == Login("anthropic", "load", [NoCred EXCEPT !.method = "token"])
  <2>1. e.cred.refresh = 0 /\ e.store = NoErrand.store
    BY <1>2 DEF Login, NoErrand, NoCred
  <2>2. errand'[p] = e /\ \A q \in Callers \ {p} : errand'[q] = errand[q]
    BY <1>1, <1>10 DEF LoginPasteToken
  <2> HIDE DEF e
  <2> QED
    BY <1>2, <1>10, <2>1, <2>2, FreshFrom DEF LoginPasteToken, serverVars
<1>11. ASSUME NEW p \in Callers, NEW v \in LoginProviders, AuthLogout(p, v) PROVE Fresh'
  <2> DEFINE e == [NoErrand EXCEPT !.kind = "logout", !.step = "load", !.for = v]
  <2>1. e.cred.refresh = 0 /\ e.store = NoErrand.store
    BY <1>2 DEF NoErrand
  <2>2. errand'[p] = e /\ \A q \in Callers \ {p} : errand'[q] = errand[q]
    BY <1>1, <1>11 DEF AuthLogout
  <2> HIDE DEF e
  <2> QED
    BY <1>2, <1>11, <2>1, <2>2, FreshFrom DEF AuthLogout, serverVars
<1>12. ASSUME NEW p \in Callers, AuthLogoutAll(p) PROVE Fresh'
  <2>1. \A q \in Callers : errand'[q].kind = errand[q].kind /\ Held(q)' = Held(q) /\ Carried(q)' = Carried(q)
    BY <1>0, <1>12, OvertakenType DEF AuthLogoutAll, LoginType
  <2>2. OnFile' = 0 /\ valid' = valid
    BY <1>2, <1>12 DEF AuthLogoutAll, serverVars, LoginProviders
  <2> QED
    BY <2>1, <2>2, FreshFrom
<1>13. ASSUME NEW p \in Callers, LoadStore(p) PROVE Fresh'
  <2> DEFINE e == errand[p]
             e2 == [e EXCEPT !.step = "truncate", !.store = [authFile.creds EXCEPT ![e.for] = e.cred],
                             !.stale = @ /\ e.kind = "refresh"]
  <2>1. authFile' = authFile /\ valid' = valid
    BY <1>13 DEF LoadStore, serverVars
  <2>2. CASE Becomes(p, NoErrand)
    BY <1>5, <2>1, <2>2
  <2>3. CASE Becomes(p, e2)
    <3>1. errand'[p] = e2 /\ \A q \in Callers \ {p} : errand'[q] = errand[q]
      BY <1>1, <2>3
    <3>2. e2.kind = e.kind /\ e2.cred = e.cred /\ e2.store = [authFile.creds EXCEPT ![e.for] = e.cred]
      BY <1>0 DEF ErrandOf
    <3>3. e2.store["openai"].refresh \in {Held(p), OnFile}
      BY <3>2 DEF LoginType, StoreOf, LoginProviders
    <3> HIDE DEF e2, e
    <3> QED
      BY <2>1, <3>1, <3>2, <3>3, FreshFrom DEF e
  <2> QED
    BY <1>13, <2>2, <2>3 DEF LoadStore, Ends
<1>14. ASSUME NEW p \in Callers, Truncate(p) PROVE Fresh'
  <2> DEFINE e == [errand[p] EXCEPT !.step = "write"]
  <2>1. \A q \in Callers \ {p} :
           errand'[q].kind = errand[q].kind /\ Held(q)' = Held(q) /\ Carried(q)' = Carried(q)
    BY <1>0, <1>14, OvertakenType DEF Truncate, LoginType
  <2>2. errand'[p] = e
    BY <1>0, <1>14, OvertakenType DEF Truncate, LoginType
  <2>3. e.kind = errand[p].kind /\ e.cred = errand[p].cred /\ e.store = errand[p].store
    BY <1>0 DEF ErrandOf
  <2>4. OnFile' = 0 /\ valid' = valid
    BY <1>2, <1>14 DEF Truncate, serverVars, LoginProviders
  <2> HIDE DEF e
  <2> QED
    BY <2>1, <2>2, <2>3, <2>4, FreshFrom
<1>15. ASSUME NEW p \in Callers, WriteStore(p) PROVE Fresh'
  BY <1>1, <1>2, <1>15, FreshFrom DEF WriteStore, Ends, serverVars
<1>16. ASSUME NEW p \in Callers, CallerDies(p) PROVE Fresh'
  BY <1>5, <1>16 DEF CallerDies, Ends, serverVars
<1> QED
  BY <1>3, <1>4, <1>6, <1>7, <1>8, <1>9, <1>10, <1>11, <1>12, <1>13, <1>14, <1>15, <1>16
  DEF CredentialsNext, LoginBrowser

\* Refreshes that have an answer to save, and saves that have emptied the file.
Pending == {p \in Callers : errand[p].kind = "refresh" /\ errand[p].step \in {"load", "truncate"}}
Writers == {p \in Callers : errand[p].step = "write"}

\* An answer will be saved over what it has not read, or lost.
Doomed == \E p \in Pending : errand[p].stale

LogFits(f, v) == loggedIn[v] = (f[v] # NoCred)
Renews(f) == loggedIn["openai"] /\ renewable => f["openai"].refresh # 0

\* The one that writes has what was on file but for its own change, and what the others
\* are going to save, they have not read before it or will find to be stale.
WriterSound ==
    \A p \in Writers :
        /\ authFile.form = "torn"
        /\ \A q \in Callers \ {p} :
             \/ errand[q].kind # "refresh" /\ errand[q].step \in {"none", "poll", "load"}
             \/ errand[q].stale /\ errand[q].step # "write"
        /\ \A v \in LoginProviders \ {errand[p].for} : LogFits(errand[p].store, v)
        /\ errand[p].for # "openai" => Renews(errand[p].store)
        /\ errand[p].store["openai"].refresh \in valid \cup {0}
        /\ errand[p].kind = "refresh" => loggedIn["openai"]

FileSound ==
    Writers = {} =>
        /\ authFile.form # "torn"
        /\ \A v \in LoginProviders : LogFits(authFile.creds, v)
        /\ Renews(authFile.creds)
        /\ Pending = {} => authFile.creds["openai"].refresh \in valid \cup {0}

\* What was read since the file was last written is what it says.
ReaderSound ==
    \A p \in Callers : ~errand[p].stale =>
        /\ errand[p].step = "truncate" =>
              /\ authFile.form # "torn"
              /\ errand[p].store = [authFile.creds EXCEPT ![errand[p].for] = errand[p].cred]
        /\ errand[p].kind = "refresh" /\ errand[p].step # "write" => authFile.form # "torn" /\ loggedIn["openai"]
        /\ Pending = {p} => errand[p].cred.refresh \in valid

Sound == WriterSound /\ FileSound /\ ReaderSound

LoginInv == LoginType /\ Fresh /\ (crossed \/ Doomed \/ Sound)

\* An errand that neither has an answer to save nor empties the file changes nothing.
LEMMA QuietSound ==
    ASSUME LoginType, Sound, ~Doomed, NEW p \in Callers, NEW e, Becomes(p, e),
           e.step \notin {"write", "truncate"}, e.kind = "refresh" => e.step = "refresh",
           e.kind # "refresh" => e.step \in {"none", "poll", "load"},
           errand[p].step \notin {"write", "truncate", "load"},
           e.kind = "refresh" => Writers = {} /\ authFile.form # "torn" /\ loggedIn["openai"],
           UNCHANGED <<authFile, loggedIn, renewable>>, valid \subseteq valid'
    PROVE  Sound'
<1>1. errand'[p] = e /\ \A q \in Callers \ {p} : errand'[q] = errand[q]
  BY DEF LoginType, Becomes
<1>2. Writers' = Writers /\ p \notin Writers
  BY <1>1 DEF Writers
<1>3. Pending' = Pending /\ p \notin Pending
  BY <1>1 DEF Pending
<1>4. WriterSound'
  <2>1. SUFFICES ASSUME NEW w \in Writers
                 PROVE  /\ authFile'.form = "torn"
                        /\ \A q \in Callers \ {w} :
                             \/ errand'[q].kind # "refresh" /\ errand'[q].step \in {"none", "poll", "load"}
                             \/ errand'[q].stale /\ errand'[q].step # "write"
                        /\ \A v \in LoginProviders \ {errand'[w].for} : LogFits(errand[w].store, v)'
                        /\ errand'[w].for # "openai" => Renews(errand[w].store)'
                        /\ errand'[w].store["openai"].refresh \in valid' \cup {0}
                        /\ errand'[w].kind = "refresh" => loggedIn'["openai"]
    BY <1>2 DEF WriterSound
  <2>2. w \in Callers /\ w # p /\ errand'[w] = errand[w]
    BY <1>1, <1>2 DEF Writers
  <2>3. e.kind # "refresh" /\ e.step \in {"none", "poll", "load"}
    OBVIOUS
  <2>4. \A q \in Callers \ {w} :
           \/ errand[q].kind # "refresh" /\ errand[q].step \in {"none", "poll", "load"}
           \/ errand[q].stale /\ errand[q].step # "write"
    BY DEF Sound, WriterSound
  <2>5. /\ authFile.form = "torn"
        /\ \A v \in LoginProviders \ {errand[w].for} : LogFits(errand[w].store, v)
        /\ errand[w].for # "openai" => Renews(errand[w].store)
        /\ errand[w].store["openai"].refresh \in valid \cup {0}
        /\ errand[w].kind = "refresh" => loggedIn["openai"]
    BY DEF Sound, WriterSound
  <2> QED
    BY <1>1, <2>2, <2>3, <2>4, <2>5 DEF LogFits, Renews
<1>5. FileSound'
  BY <1>1, <1>2, <1>3 DEF Sound, FileSound, LogFits, Renews
<1>6. ReaderSound'
  BY <1>1, <1>3 DEF Sound, ReaderSound
<1> QED
  BY <1>4, <1>5, <1>6 DEF Sound

LEMMA ErrandFacts ==
    ASSUME LoginType, NEW p \in Callers
    PROVE  /\ errand[p] \in ErrandOf(issued) /\ issued \in Nat
           /\ errand[p].kind \in {"none", "refresh", "login", "logout"} /\ errand[p].for \in LoginProviders
           /\ errand[p].step \in {"none", "refresh", "poll", "load", "truncate", "write"}
           /\ errand[p].cred \in CredOf(issued) /\ errand[p].store \in StoreOf(issued)
           /\ errand[p].stale \in BOOLEAN
           /\ errand[p].kind = "none" <=> errand[p].step = "none"
           /\ errand[p].step = "refresh" => errand[p].kind = "refresh"
           /\ errand[p].step = "poll" => errand[p].kind = "login"
           /\ errand[p].kind = "refresh" => errand[p].step \in {"refresh", "load", "truncate", "write"}
           /\ errand[p].kind = "refresh" => errand[p].for = "openai" /\ errand[p].cred.refresh # 0
           /\ errand[p].kind = "login" /\ errand[p].step # "poll" => errand[p].cred # NoCred
           /\ errand[p].kind = "logout" => errand[p].cred = NoCred
           /\ errand[p].step \in {"truncate", "write"} => errand[p].store[errand[p].for] = errand[p].cred
<1>1. errand[p] \in ErrandOf(issued) /\ issued \in Nat
  BY DEF LoginType
<1>2. errand[p].kind = "none" => errand[p].step = "none"
  BY <1>1 DEF ErrandOf, NoErrand
<1> QED
  BY <1>1, <1>2 DEF ErrandOf

\* What is doomed stays so until it happens.
LEMMA StepDoomed ==
    ASSUME LoginType, LoginType', CredentialsNext, Doomed \/ crossed
    PROVE  Doomed' \/ crossed'
<1>1. SUFFICES ASSUME ~crossed' PROVE Doomed'
  OBVIOUS
<1>2. crossed => crossed'
  BY DEF CredentialsNext, TimePasses, GetToken, LoginBrowser, LoginDeviceCode, LoginPasteToken, AuthLogout,
         AuthLogoutAll, PollDeviceCode, RefreshAccessToken, LoadStore, Truncate, WriteStore, CallerDies, historyVars
<1>3. PICK d \in Pending : errand[d].stale
  BY <1>1, <1>2 DEF Doomed
<1>4. d \in Callers /\ errand[d].kind = "refresh" /\ errand[d].step \in {"load", "truncate"}
  BY <1>3 DEF Pending
<1>5. SUFFICES /\ errand'[d].kind = "refresh" /\ errand'[d].step \in {"load", "truncate"}
               /\ errand'[d].stale
  BY <1>4 DEF Doomed, Pending
<1>6. ASSUME NEW p \in Callers, NEW e, Becomes(p, e), errand[p].step \notin {"load", "truncate"}
      PROVE  errand'[d] = errand[d]
  BY <1>4, <1>6 DEF Becomes, LoginType
<1>7. ASSUME NEW p \in Callers
      PROVE  errand[p] = NoErrand => errand[p].step \notin {"load", "truncate"}
  BY DEF NoErrand
<1>8. CASE TimePasses
  BY <1>3, <1>4, <1>8 DEF TimePasses
<1>9. ASSUME NEW p \in Callers,
             GetToken(p) \/ LoginBrowser(p) \/ LoginDeviceCode(p) \/ LoginPasteToken(p)
                \/ (\E v \in LoginProviders : AuthLogout(p, v))
                \/ PollDeviceCode(p) \/ RefreshAccessToken(p) \/ WriteStore(p)
      PROVE  errand'[d] = errand[d]
  BY <1>6, <1>7, <1>9 DEF GetToken, LoginBrowser, LoginDeviceCode, LoginPasteToken, AuthLogout, PollDeviceCode,
                          RefreshAccessToken, WriteStore, Exchanged, Ends
<1>10. ASSUME NEW p \in Callers, AuthLogoutAll(p)
       PROVE  errand'[d].kind = "refresh" /\ errand'[d].step \in {"load", "truncate"} /\ errand'[d].stale
  <2>1. d # p
    BY <1>4, <1>10 DEF AuthLogoutAll, NoErrand
  <2> QED
    BY <1>4, <1>10, <2>1, OvertakenType, ErrandFacts DEF AuthLogoutAll, LoginType
<1>11. ASSUME NEW p \in Callers, Truncate(p)
       PROVE  errand'[d].kind = "refresh" /\ errand'[d].step \in {"load", "truncate"} /\ errand'[d].stale
  <2>1. d # p
    BY <1>1, <1>3, <1>11 DEF Truncate
  <2>2. errand'[d] = Overtaken(p)[d] /\ errand \in [Callers -> ErrandOf(issued)] /\ issued \in Nat
    BY <1>4, <1>11, <2>1, OvertakenType, ErrandFacts DEF Truncate, LoginType
  <2> QED
    BY <1>4, <2>1, <2>2, OvertakenType
<1>12. ASSUME NEW p \in Callers, LoadStore(p)
       PROVE  errand'[d].kind = "refresh" /\ errand'[d].step \in {"load", "truncate"} /\ errand'[d].stale
  <2>1. CASE p = d
    <3> DEFINE e2 == [errand[d] EXCEPT !.step = "truncate",
                          !.store = [authFile.creds EXCEPT ![errand[d].for] = errand[d].cred],
                          !.stale = @ /\ errand[d].kind = "refresh"]
    <3>1. errand' = [errand EXCEPT ![d] = e2]
      BY <1>1, <1>12, <2>1 DEF LoadStore, Becomes
    <3>2. e2.kind = "refresh" /\ e2.step = "truncate" /\ e2.stale
      BY <1>3, <1>4, ErrandFacts DEF ErrandOf
    <3> HIDE DEF e2
    <3> QED
      BY <1>4, <3>1, <3>2 DEF LoginType
  <2>2. CASE p # d
    BY <1>3, <1>4, <1>12, <2>2 DEF LoadStore, Becomes, Ends, LoginType
  <2> QED
    BY <2>1, <2>2
<1>13. ASSUME NEW p \in Callers, CallerDies(p) PROVE FALSE
  BY <1>1, <1>13 DEF CallerDies
<1> QED
  BY <1>3, <1>4, <1>8, <1>9, <1>10, <1>11, <1>12, <1>13 DEF CredentialsNext

LEMMA StepSound ==
    ASSUME LoginType, LoginType', Fresh, CredentialsNext, Sound
    PROVE  (crossed \/ Doomed \/ Sound)'
<1>1. SUFFICES ASSUME ~crossed', ~Doomed', ~Doomed PROVE Sound'
  BY StepDoomed
<1>2. \A p \in Writers : authFile.form = "torn"
  BY DEF Sound, WriterSound
<1>3. NoErrand.kind = "none" /\ NoErrand.step = "none"
  BY DEF NoErrand
<1>4. CASE TimePasses
  <2>1. Writers' = Writers /\ Pending' = Pending
    BY <1>4 DEF TimePasses, Writers, Pending
  <2>2. WriterSound'
    BY <1>4, <2>1 DEF TimePasses, historyVars, Sound, WriterSound, LogFits, Renews
  <2>3. FileSound'
    BY <1>4, <2>1 DEF TimePasses, historyVars, Sound, FileSound, LogFits, Renews
  <2>4. ReaderSound'
    BY <1>4, <2>1 DEF TimePasses, historyVars, Sound, ReaderSound
  <2> QED
    BY <2>2, <2>3, <2>4 DEF Sound
<1>5. ASSUME NEW p \in Callers, GetToken(p) PROVE Sound'
  <2> DEFINE e == [NoErrand EXCEPT !.kind = "refresh", !.step = "refresh", !.cred = authFile.creds["openai"]]
  <2>1. Becomes(p, e) /\ e.kind = "refresh" /\ e.step = "refresh"
    BY <1>5 DEF GetToken, NoErrand
  <2>2. authFile.form = "whole" /\ Writers = {}
    BY <1>2, <1>5 DEF GetToken
  <2>3. loggedIn["openai"]
    <3>1. authFile.creds["openai"] # NoCred
      BY <1>5 DEF GetToken, NoCred
    <3> QED
      BY <2>2, <3>1 DEF Sound, FileSound, LogFits, LoginProviders
  <2> HIDE DEF e
  <2> QED
    BY <1>1, <1>3, <1>5, <2>1, <2>2, <2>3, QuietSound DEF GetToken, serverVars, historyVars
<1>6. ASSUME NEW p \in Callers, NEW e, Becomes(p, e), errand[p].step \in {"none", "poll"},
             e.kind # "refresh", e.step \in {"none", "poll", "load"},
             UNCHANGED <<authFile, loggedIn, renewable>>, valid \subseteq valid'
      PROVE  Sound'
  BY <1>1, <1>6, QuietSound
<1>7. ASSUME NEW p \in Callers, Exchanged(p), errand[p].step \in {"none", "poll"},
             UNCHANGED authFile, UNCHANGED historyVars
      PROVE  Sound'
  <2>1. PICK cred : Becomes(p, Login("openai", "load", cred))
    BY <1>7 DEF Exchanged
  <2>2. Login("openai", "load", cred).kind = "login" /\ Login("openai", "load", cred).step = "load"
    BY DEF Login, NoErrand
  <2>3. valid \subseteq valid'
    BY <1>7 DEF Exchanged
  <2> QED
    BY <1>6, <1>7, <2>1, <2>2, <2>3 DEF historyVars
<1>8. ASSUME NEW p \in Callers, LoginBrowser(p) PROVE Sound'
  BY <1>3, <1>7, <1>8 DEF LoginBrowser
<1>9. ASSUME NEW p \in Callers, LoginDeviceCode(p) PROVE Sound'
  <2>1. Login("openai", "poll", NoCred).kind = "login" /\ Login("openai", "poll", NoCred).step = "poll"
    BY DEF Login, NoErrand
  <2> QED
    BY <1>3, <1>6, <1>9, <2>1 DEF LoginDeviceCode, serverVars, historyVars
<1>10. ASSUME NEW p \in Callers, LoginPasteToken(p) PROVE Sound'
  <2> DEFINE e == Login("anthropic", "load", [NoCred EXCEPT !.method = "token"])
  <2>1. e.kind = "login" /\ e.step = "load"
    BY DEF Login, NoErrand
  <2> HIDE DEF e
  <2> QED
    BY <1>3, <1>6, <1>10, <2>1 DEF LoginPasteToken, serverVars, historyVars, e
<1>11. ASSUME NEW p \in Callers, NEW v \in LoginProviders, AuthLogout(p, v) PROVE Sound'
  <2> DEFINE e == [NoErrand EXCEPT !.kind = "logout", !.step = "load", !.for = v]
  <2>1. e.kind = "logout" /\ e.step = "load"
    BY DEF NoErrand
  <2>2. Becomes(p, e)
    BY <1>11 DEF AuthLogout
  <2> HIDE DEF e
  <2> QED
    BY <1>3, <1>6, <1>11, <2>1, <2>2 DEF AuthLogout, serverVars, historyVars
<1>12. ASSUME NEW p \in Callers, PollDeviceCode(p) PROVE Sound'
  <2>1. errand[p].step = "poll"
    BY <1>12 DEF PollDeviceCode
  <2>2. CASE Ends(p) /\ UNCHANGED serverVars
    BY <1>3, <1>6, <1>12, <2>1, <2>2 DEF PollDeviceCode, Ends, serverVars, historyVars
  <2> QED
    BY <1>7, <1>12, <2>1, <2>2 DEF PollDeviceCode
<1>13. ASSUME NEW p \in Callers, AuthLogoutAll(p) PROVE Sound'
  <2>1. /\ errand' = Overtaken(p) /\ errand[p] = NoErrand
        /\ authFile' = [form |-> "none", creds |-> [v \in LoginProviders |-> NoCred]]
        /\ loggedIn' = [v \in LoginProviders |-> FALSE] /\ renewable' = FALSE
        /\ Writers = {} /\ valid' = valid
    BY <1>1, <1>13 DEF AuthLogoutAll, Writers, serverVars
  <2>2. \A q \in Callers : /\ errand'[q].kind = errand[q].kind /\ errand'[q].step = errand[q].step
                           /\ errand'[q].kind # "none" => errand'[q].stale
    BY <1>3, <2>1, ErrandFacts, OvertakenType DEF LoginType
  <2>3. Writers' = {}
    BY <2>1, <2>2 DEF Writers
  <2>4. Pending' = {}
    BY <1>1, <2>2 DEF Pending, Doomed
  <2>5. WriterSound'
    BY <2>3 DEF WriterSound
  <2>6. FileSound'
    BY <2>1 DEF FileSound, LogFits, Renews, NoCred, LoginProviders
  <2>7. ReaderSound'
    BY <2>2, <2>4, ErrandFacts DEF ReaderSound
  <2> QED
    BY <2>5, <2>6, <2>7 DEF Sound
<1>14. ASSUME NEW p \in Callers, RefreshAccessToken(p) PROVE Sound'
  <2> DEFINE e == errand[p]
  <2>1. e.step = "refresh" /\ e.kind = "refresh" /\ e.cred.refresh # 0
    BY <1>14, ErrandFacts DEF RefreshAccessToken
  <2>2. CASE Ends(p) /\ UNCHANGED serverVars
    BY <1>1, <1>3, <1>14, <2>1, <2>2, QuietSound DEF RefreshAccessToken, Ends, serverVars
  <2>3. ASSUME e.cred.refresh \in valid, issued' = issued + 1, NEW refresh \in {0, issued'},
               valid' = IF refresh = 0 THEN valid ELSE (valid \ {e.cred.refresh}) \cup {refresh},
               Becomes(p, [e EXCEPT !.step = "load", !.cred = Refreshed(e.cred, issued', refresh)])
        PROVE  Sound'
    <3> DEFINE e2 == [e EXCEPT !.step = "load", !.cred = Refreshed(e.cred, issued', refresh)]
    <3>1. errand'[p] = e2 /\ \A q \in Callers \ {p} : errand'[q] = errand[q]
      BY <2>3 DEF Becomes, LoginType
    <3>2. e2.kind = "refresh" /\ e2.step = "load" /\ e2.stale = e.stale /\ e2.cred.refresh \in valid'
      BY <2>1, <2>3, ErrandFacts DEF ErrandOf, Refreshed
    <3> HIDE DEF e2
    <3>3. p \in Pending' /\ ~e.stale
      BY <1>1, <3>1, <3>2 DEF Pending, Doomed
    <3>4. loggedIn["openai"] /\ authFile.form # "torn"
      BY <2>1, <3>3 DEF Sound, ReaderSound
    <3>5. Writers = {} /\ Writers' = {}
      <4>1. Writers = {}
        BY <1>2, <3>4
      <4> QED
        BY <3>1, <3>2, <4>1 DEF Writers
    <3>6. UNCHANGED <<authFile, loggedIn, renewable>>
      BY <1>14 DEF RefreshAccessToken
    <3>7. FileSound'
      BY <3>3, <3>5, <3>6 DEF Sound, FileSound, LogFits, Renews
    <3>8. \A q \in Callers \ {p} : Pending' # {q}
      BY <3>3
    <3>9. ReaderSound'
      BY <3>1, <3>2, <3>4, <3>6, <3>8 DEF Sound, ReaderSound
    <3> QED
      BY <3>5, <3>7, <3>9 DEF Sound, WriterSound
  <2> QED
    BY <1>1, <1>14, <2>2, <2>3 DEF RefreshAccessToken
<1>15. ASSUME NEW p \in Callers, LoadStore(p) PROVE Sound'
  <2> DEFINE e == errand[p]
             e2 == [e EXCEPT !.step = "truncate", !.store = [authFile.creds EXCEPT ![e.for] = e.cred],
                             !.stale = @ /\ e.kind = "refresh"]
  <2>1. e.step = "load" /\ authFile.form # "torn" /\ Becomes(p, e2) /\ UNCHANGED <<authFile, loggedIn, renewable, valid>>
    BY <1>1, <1>15 DEF LoadStore, serverVars
  <2>2. errand'[p] = e2 /\ \A q \in Callers \ {p} : errand'[q] = errand[q]
    BY <2>1 DEF Becomes, LoginType
  <2>3. /\ e2.kind = e.kind /\ e2.step = "truncate" /\ e2.cred = e.cred /\ e2.for = e.for
        /\ e2.store = [authFile.creds EXCEPT ![e.for] = e.cred]
    BY ErrandFacts DEF ErrandOf
  <2> HIDE DEF e2
  <2>4. Writers = {} /\ Writers' = {}
    <3>1. Writers = {}
      BY <1>2, <2>1
    <3> QED
      BY <2>2, <2>3, <3>1 DEF Writers
  <2>5. Pending' = Pending
    BY <2>1, <2>2, <2>3 DEF Pending
  <2>6. e.kind = "refresh" => ~e.stale
    BY <1>1, <2>1 DEF Pending, Doomed
  <2>7. FileSound'
    BY <2>1, <2>4, <2>5 DEF Sound, FileSound, LogFits, Renews
  <2>8. Pending = {p} => e.kind = "refresh"
    BY DEF Pending
  <2>9. ReaderSound'
    BY <2>1, <2>2, <2>3, <2>5, <2>6, <2>8 DEF Sound, ReaderSound
  <2> QED
    BY <2>4, <2>7, <2>9 DEF Sound, WriterSound
<1>16. ASSUME NEW p \in Callers, Truncate(p) PROVE Sound'
  <2> DEFINE e == errand[p]
             e2 == [e EXCEPT !.step = "write"]
  <2>1. e.step = "truncate" /\ ~e.stale /\ authFile' = [form |-> "torn", creds |-> [v \in LoginProviders |-> NoCred]]
        /\ UNCHANGED <<loggedIn, renewable, valid>>
    BY <1>1, <1>16 DEF Truncate, serverVars
  <2>2. authFile.form # "torn" /\ e.store = [authFile.creds EXCEPT ![e.for] = e.cred]
    BY <2>1 DEF Sound, ReaderSound
  <2>3. /\ errand'[p] = e2
        /\ \A q \in Callers \ {p} : /\ errand'[q].kind = errand[q].kind /\ errand'[q].step = errand[q].step
                                    /\ errand'[q].kind # "none" => errand'[q].stale
    BY <1>16, ErrandFacts, OvertakenType DEF Truncate, LoginType
  <2>4. e2.kind = e.kind /\ e2.step = "write" /\ e2.cred = e.cred /\ e2.for = e.for /\ e2.store = e.store
    BY ErrandFacts DEF ErrandOf
  <2> HIDE DEF e2
  <2>5. Writers = {} /\ Writers' = {p}
    <3>1. Writers = {}
      BY <1>2, <2>2
    <3>2. p \in Writers'
      BY <2>3, <2>4 DEF Writers
    <3>3. \A q \in Callers \ {p} : q \notin Writers'
      BY <2>3, <3>1 DEF Writers
    <3>4. Writers' \subseteq Callers
      BY DEF Writers
    <3> QED
      BY <3>1, <3>2, <3>3, <3>4
  <2>6. Pending' = {} /\ Pending \subseteq {p}
    <3>1. ASSUME NEW q \in Callers \ {p}, errand'[q].kind = "refresh", errand'[q].step \in {"load", "truncate"}
          PROVE  FALSE
      <4>1. errand'[q].stale
        BY <2>3, <3>1
      <4>2. q \in Pending'
        BY <3>1 DEF Pending
      <4> QED
        BY <1>1, <4>1, <4>2 DEF Doomed
    <3>2. \A q \in Callers \ {p} : q \notin Pending' /\ q \notin Pending
      BY <2>3, <3>1 DEF Pending
    <3>3. p \notin Pending'
      BY <2>3, <2>4 DEF Pending
    <3> QED
      BY <3>2, <3>3 DEF Pending
  <2>7. ReaderSound'
    <3>1. \A q \in Callers \ {p} : ~errand'[q].stale => errand'[q].kind = "none" /\ errand'[q].step = "none"
      BY <2>3, ErrandFacts
    <3>2. errand'[p].step = "write" /\ \A q \in Callers : Pending' # {q}
      BY <2>3, <2>4, <2>6
    <3> QED
      BY <3>1, <3>2 DEF ReaderSound
  <2>8. /\ \A v \in LoginProviders : LogFits(authFile.creds, v)
        /\ Renews(authFile.creds)
        /\ Pending = {} => authFile.creds["openai"].refresh \in valid \cup {0}
    BY <2>5 DEF Sound, FileSound
  <2>9. authFile.creds \in [LoginProviders -> CredOf(issued)] /\ e.for \in LoginProviders
    BY ErrandFacts DEF LoginType, StoreOf
  <2>10. e.store["openai"].refresh \in valid \cup {0}
    <3>1. CASE e.for # "openai"
      BY <2>2, <2>6, <2>8, <2>9, <3>1, ErrandFacts DEF LoginProviders, Pending
    <3>2. CASE e.for = "openai"
      <4>1. e.store["openai"] = e.cred
        BY <2>2, <2>9, <3>2
      <4>2. CASE e.kind = "refresh"
        <5>1. Pending = {p}
          BY <2>1, <2>6, <4>2 DEF Pending
        <5> QED
          BY <2>1, <4>1, <5>1 DEF Sound, ReaderSound
      <4>3. CASE e.kind = "login"
        BY <4>1, <4>3 DEF Fresh
      <4>4. CASE e.kind = "logout"
        BY <4>1, <4>4, ErrandFacts DEF NoCred
      <4> QED
        BY <2>1, <4>2, <4>3, <4>4, ErrandFacts
    <3> QED
      BY <3>1, <3>2
  <2>11. \A v \in LoginProviders \ {e.for} : LogFits(e.store, v)
    BY <2>2, <2>8, <2>9 DEF LogFits
  <2>12. e.for # "openai" => Renews(e.store)
    BY <2>2, <2>8, <2>9 DEF Renews, LoginProviders
  <2>13. e.kind = "refresh" => loggedIn["openai"]
    BY <2>1 DEF Sound, ReaderSound
  <2>14. \A q \in Callers \ {p} :
            \/ errand'[q].kind # "refresh" /\ errand'[q].step \in {"none", "poll", "load"}
            \/ errand'[q].stale /\ errand'[q].step # "write"
    <3>1. \A q \in Callers \ {p} : errand'[q].step # "write"
      BY <2>5 DEF Writers
    <3>2. \A q \in Callers : errand[q].kind = "none" => errand[q].step = "none"
      BY ErrandFacts
    <3> QED
      BY <2>3, <3>1, <3>2
  <2>15. WriterSound'
    BY <2>1, <2>3, <2>4, <2>5, <2>10, <2>11, <2>12, <2>13, <2>14 DEF WriterSound, LogFits, Renews
  <2> QED
    BY <2>5, <2>7, <2>15 DEF Sound, FileSound
<1>17. ASSUME NEW p \in Callers, WriteStore(p) PROVE Sound'
  <2> DEFINE e == errand[p]
  <2>1. e.step = "write" /\ p \in Writers
    BY <1>17 DEF WriteStore, Writers
  <2>2. /\ authFile' = [form |-> "whole", creds |-> e.store]
        /\ loggedIn' = [loggedIn EXCEPT ![e.for] = (@ /\ e.kind = "refresh") \/ e.kind = "login"]
        /\ renewable' = IF e.for # "openai" \/ e.kind = "refresh" THEN renewable ELSE e.cred.refresh # 0
        /\ valid' = valid
    BY <1>17 DEF WriteStore, serverVars
  <2>3. errand'[p] = NoErrand /\ \A q \in Callers \ {p} : errand'[q] = errand[q]
    BY <1>17 DEF WriteStore, Ends, Becomes, LoginType
  <2>4. /\ \A q \in Callers \ {p} :
             \/ errand[q].kind # "refresh" /\ errand[q].step \in {"none", "poll", "load"}
             \/ errand[q].stale /\ errand[q].step # "write"
        /\ \A v \in LoginProviders \ {e.for} : LogFits(e.store, v)
        /\ e.for # "openai" => Renews(e.store)
        /\ e.store["openai"].refresh \in valid \cup {0}
        /\ e.kind = "refresh" => loggedIn["openai"]
    BY <2>1 DEF Sound, WriterSound
  <2>5. Writers' = {}
    BY <1>3, <2>3, <2>4 DEF Writers
  <2>6. Pending' = {}
    BY <1>1, <1>3, <2>3, <2>4 DEF Pending, Doomed
  <2>7. ReaderSound'
    BY <1>3, <2>3, <2>4, <2>6 DEF ReaderSound
  <2>8. /\ e.store[e.for] = e.cred /\ e.for \in LoginProviders /\ e.kind \in {"refresh", "login", "logout"}
        /\ e.kind = "login" => e.cred # NoCred
        /\ e.kind = "logout" => e.cred = NoCred
        /\ e.kind = "refresh" => e.for = "openai" /\ e.cred.refresh # 0
    BY <2>1, ErrandFacts
  <2>9. e.kind = "refresh" => e.cred # NoCred
    BY <2>8 DEF NoCred
  <2>10. \A v \in LoginProviders : loggedIn'[v] = (e.store[v] # NoCred)
    <3>1. ASSUME NEW v \in LoginProviders, v # e.for PROVE loggedIn'[v] = (e.store[v] # NoCred)
      BY <2>2, <2>4, <3>1 DEF LogFits, LoginType
    <3>2. loggedIn'[e.for] = (e.store[e.for] # NoCred)
      <4>1. loggedIn'[e.for] = ((loggedIn[e.for] /\ e.kind = "refresh") \/ e.kind = "login")
        BY <2>2, <2>8 DEF LoginType
      <4> QED
        BY <2>4, <2>8, <2>9, <4>1
    <3> QED
      BY <3>1, <3>2
  <2>11. loggedIn'["openai"] /\ renewable' => e.store["openai"].refresh # 0
    <3>1. CASE e.for # "openai"
      BY <2>2, <2>4, <2>8, <3>1 DEF Renews, LoginType, LoginProviders
    <3>2. CASE e.for = "openai"
      BY <2>2, <2>8, <3>2
    <3> QED
      BY <3>1, <3>2
  <2>12. authFile'.form = "whole" /\ authFile'.creds = e.store
    BY <2>2
  <2>13. FileSound'
    BY <2>2, <2>4, <2>10, <2>11, <2>12 DEF FileSound, LogFits, Renews
  <2> QED
    BY <2>5, <2>7, <2>13 DEF Sound, WriterSound
<1>18. ASSUME NEW p \in Callers, CallerDies(p) PROVE FALSE
  BY <1>1, <1>18 DEF CallerDies
<1> QED
  BY <1>4, <1>5, <1>8, <1>9, <1>10, <1>11, <1>12, <1>13, <1>14, <1>15, <1>16, <1>17, <1>18 DEF CredentialsNext

LEMMA InitLogin == CredentialsInit => LoginInv
<1> SUFFICES ASSUME CredentialsInit PROVE LoginInv
  OBVIOUS
<1>1. LoginType
  BY InitLoginType
<1>2. \A p \in Callers : errand[p] = NoErrand
  BY DEF CredentialsInit
<1>3. NoErrand.kind = "none" /\ NoErrand.step = "none"
  BY DEF NoErrand
<1>4. Writers = {} /\ Pending = {}
  BY <1>2, <1>3 DEF Writers, Pending
<1>5. Fresh
  BY <1>2, <1>3 DEF Fresh
<1>6. FileSound
  BY <1>4 DEF FileSound, LogFits, Renews, CredentialsInit, NoCred, LoginProviders
<1>7. ReaderSound
  BY <1>2, <1>3, <1>4 DEF ReaderSound
<1> QED
  BY <1>1, <1>4, <1>5, <1>6, <1>7 DEF LoginInv, Sound, WriterSound

LEMMA StepLogin == LoginInv /\ [CredentialsNext]_credentialVars => LoginInv'
<1> SUFFICES ASSUME LoginInv, [CredentialsNext]_credentialVars PROVE LoginInv'
  OBVIOUS
<1>1. CASE CredentialsNext
  <2>1. LoginType'
    BY <1>1, StepLoginType DEF LoginInv
  <2>2. Fresh'
    BY <1>1, <2>1, StepFresh DEF LoginInv
  <2>3. (crossed \/ Doomed \/ Sound)'
    BY <1>1, <2>1, StepDoomed, StepSound DEF LoginInv
  <2> QED
    BY <2>1, <2>2, <2>3 DEF LoginInv
<1>2. CASE UNCHANGED credentialVars
  <2>1. LoginType' <=> LoginType
    BY <1>2 DEF credentialVars, LoginType
  <2>2. Fresh' <=> Fresh
    BY <1>2 DEF credentialVars, Fresh
  <2>3. Pending' = Pending /\ Writers' = Writers /\ crossed' = crossed
    BY <1>2 DEF credentialVars, Pending, Writers
  <2>4. Doomed' <=> Doomed
    BY <1>2, <2>3 DEF credentialVars, Doomed
  <2>5. FileSound' <=> FileSound
    BY <1>2, <2>3 DEF credentialVars, FileSound, LogFits, Renews
  <2>6. WriterSound' <=> WriterSound
    BY <1>2, <2>3 DEF credentialVars, WriterSound, LogFits, Renews
  <2>7. ReaderSound' <=> ReaderSound
    BY <1>2, <2>3 DEF credentialVars, ReaderSound
  <2> QED
    BY <2>1, <2>2, <2>3, <2>4, <2>5, <2>6, <2>7 DEF LoginInv, Sound
<1> QED
  BY <1>1, <1>2

LEMMA LoginKept == LoginInv => CredentialsTypeOK /\ LoginLasts
<1> SUFFICES ASSUME LoginInv PROVE CredentialsTypeOK /\ LoginLasts
  OBVIOUS
<1>1. CredentialsTypeOK
  <2>1. issued \in Nat /\ issued <= MaxTokens /\ MaxTokens \in Nat
    BY CredentialsAssumption DEF LoginInv, LoginType
  <2>2. CredOf(issued) \subseteq Creds
    BY <2>1 DEF CredOf, Creds
  <2>3. authFile.form \in {"none", "torn", "whole"} /\ authFile.creds \in [LoginProviders -> Creds]
    BY <2>2 DEF LoginInv, LoginType, StoreOf
  <2>4. valid \subseteq Tokens
    BY <2>1 DEF LoginInv, LoginType, Tokens
  <2>5. \A p \in Callers : errand[p].step \in {"none", "refresh", "poll", "load", "truncate", "write"}
    BY ErrandFacts DEF LoginInv
  <2> QED
    BY <2>3, <2>4, <2>5 DEF LoginInv, LoginType, CredentialsTypeOK
<1>2. LoginLasts
  <2>1. SUFFICES ASSUME ~crossed, Writers = {}, Pending = {} PROVE LoginLasts
    BY DEF LoginLasts, Writers, Pending
  <2>2. FileSound
    BY <2>1 DEF LoginInv, Doomed, Sound
  <2>3. authFile.creds["anthropic"].refresh = 0
    BY DEF LoginInv, LoginType, StoreOf
  <2> QED
    BY <2>1, <2>2, <2>3 DEF FileSound, LogFits, Renews, LoginLasts, LoginProviders
<1> QED
  BY <1>1, <1>2

LEMMA AlwaysLogin == CredentialsSpec => []LoginInv
BY InitLogin, StepLogin, PTL DEF CredentialsSpec

\* Every credential, and every caller's errand, has its type.
THEOREM CredentialsTyped == CredentialsSpec => []CredentialsTypeOK
BY AlwaysLogin, LoginKept, PTL

\* A login lasts until the logout, through every refresh, for any number of turns and
\* commands that read and write the file at the same time, as long as no save takes the
\* place of one it has not read and none is cut short (SetCredential, store.go).
THEOREM LoginsLast == CredentialsSpec => []LoginLasts
BY AlwaysLogin, LoginKept, PTL
=============================================================================
