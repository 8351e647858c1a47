---------------------------- MODULE WorkspaceTools ----------------------------
(***************************************************************************)
(* The tools that touch the workspace (pkg/tools) and the two loops that   *)
(* call them: a turn (runLLMIteration) runs the calls of a round in        *)
(* goroutines, a subagent (RunToolLoop) one after the other.  The only     *)
(* lock is the subagent manager's, which a spawned subagent holds while it *)
(* announces its end on the inbound queue.  One file stands for the        *)
(* workspace; its text is a sequence of blocks, 0 what the user wrote and  *)
(* n what the n-th call did.                                               *)
(* The arguments of a call appear at the step that first looks at them.    *)
(***************************************************************************)
EXTENDS Naturals, Sequences, FiniteSets
SequenceOps == INSTANCE SequencesExt

CONSTANTS
    Conversations,  \* turns
    Delegates,      \* subagents
    MaxRounds,      \* maxIterations of both loops
    MaxAsked,       \* bound: tool calls
    MaxToolFaults   \* bound: failed LLM calls and writes

ASSUME ToolsAssumption ==
    /\ Conversations \cap Delegates = {}
    /\ MaxRounds \in Nat /\ MaxAsked \in Nat /\ MaxToolFaults \in Nat

Workers == Conversations \cup Delegates
Over == {"answered", "exhausted", "failed"}

VARIABLES
    file,       \* is it there, and its text
    loop,       \* of each loop: "idle", "due", "top", "llm", "tools", or how it ended
    iteration,  \* of each loop
    round,      \* of each loop: the calls of its round
    asked,      \* bound: tool calls
    toolFaults, \* bound: failures
    spawned,    \* subagents that were spawned and have not announced their end
    announcing, \* the one that holds the manager's lock to do so
    began,      \* history: the file when the round began
    alone       \* history: nobody else changed it since

toolVars == <<file, loop, iteration, round, asked, toolFaults, spawned, announcing, began, alone>>
managerLockVars == <<spawned, announcing>>
loopVars == <<loop, iteration, asked, began, spawned, announcing>>

Absent == [there |-> FALSE, text |-> <<>>]
Holding(t) == [there |-> TRUE, text |-> t]

\* No file, or one of the user's.
ToolsInit ==
    /\ file \in {Absent, Holding(<<0>>)}
    /\ loop = [w \in Workers |-> "idle"] /\ iteration = [w \in Workers |-> 0]
    /\ round = [w \in Workers |-> <<>>] /\ asked = 0 /\ toolFaults = 0
    /\ spawned = {} /\ announcing = "none"
    /\ began = [w \in Workers |-> Absent] /\ alone = [w \in Workers |-> TRUE]

ToolFault == toolFaults < MaxToolFaults /\ toolFaults' = toolFaults + 1

-----------------------------------------------------------------------------
\* The loops.

\* A message is taken, and its turn begins.
TurnStarts(w) ==
    /\ w \in Conversations /\ loop[w] = "idle"
    /\ loop' = [loop EXCEPT ![w] = "top"]
    /\ UNCHANGED <<file, iteration, round, asked, toolFaults, began, alone>> /\ UNCHANGED managerLockVars

\* The top of the loop: at the limit it ends without text and without an error.
LoopTop(w) ==
    /\ loop[w] = "top"
    /\ IF iteration[w] < MaxRounds
       THEN /\ loop' = [loop EXCEPT ![w] = "llm"]
            /\ iteration' = [iteration EXCEPT ![w] = @ + 1]
       ELSE loop' = [loop EXCEPT ![w] = "exhausted"] /\ UNCHANGED iteration
    /\ UNCHANGED <<file, round, asked, toolFaults, began, alone>> /\ UNCHANGED managerLockVars

Call(n) == [id |-> n, kind |-> "asked", step |-> "asked", old |-> 0, seen |-> Absent,
            result |-> "none", by |-> "none"]

\* The model answers, asks for k tool calls, or cannot be reached.
LLMReturns(w) ==
    /\ loop[w] = "llm"
    /\ \/ /\ loop' = [loop EXCEPT ![w] = "answered"]
          /\ UNCHANGED <<round, asked, toolFaults, began, alone>>
       \/ /\ loop' = [loop EXCEPT ![w] = "failed"] /\ ToolFault
          /\ UNCHANGED <<round, asked, began, alone>>
       \/ \E k \in 1 .. MaxAsked - asked :
             /\ loop' = [loop EXCEPT ![w] = "tools"] /\ asked' = asked + k
             /\ round' = [round EXCEPT ![w] = [i \in 1 .. k |-> Call(asked + i)]]
             /\ began' = [began EXCEPT ![w] = file] /\ alone' = [alone EXCEPT ![w] = TRUE]
             /\ UNCHANGED toolFaults
    /\ UNCHANGED <<file, iteration>> /\ UNCHANGED managerLockVars

RoundOver(w) == loop[w] = "tools" /\ \A i \in DOMAIN round[w] : round[w][i].step = "over"

\* wg.Wait, or the end of the for loop.
NextRound(w) ==
    /\ RoundOver(w)
    /\ loop' = [loop EXCEPT ![w] = "top"]
    /\ round' = [round EXCEPT ![w] = <<>>] /\ began' = [began EXCEPT ![w] = Absent]
    /\ UNCHANGED <<file, iteration, asked, toolFaults, alone>> /\ UNCHANGED managerLockVars

-----------------------------------------------------------------------------
\* One call.

\* Mutant of MayStart: subagents run their calls in parallel too.
MayStartAny(w, i) == loop[w] = "tools" /\ round[w][i].step = "asked"

MayStart(w, i) ==
    /\ loop[w] = "tools" /\ round[w][i].step = "asked"
    /\ w \in Delegates => \A j \in 1 .. i - 1 : round[w][j].step = "over"

Becoming(w, i, c) == round' = [round EXCEPT ![w][i] = c]
Ended(c, result) == [c EXCEPT !.step = "over", !.result = result]
Changed(w) == alone' = [v \in Workers |-> alone[v] /\ (v = w \/ loop[v] # "tools")]

\* validatePath: not out of the workspace, by its name or through a link.
ValidatePath(path) == path = "allowed"

\* guardCommand: no pattern that is denied, no path out of the directory.
GuardCommand(command) == command = "allowed"

\* The tool is unknown or an argument is missing, or the path or the command is refused.
Refused(w, i) ==
    /\ MayStart(w, i)
    /\ \E kind \in {"unknown", "file", "exec"}, arg \in {"allowed", "denied"} :
         /\ kind = "file" => ~ValidatePath(arg)
         /\ kind = "exec" => ~GuardCommand(arg)
         /\ Becoming(w, i, Ended([round[w][i] EXCEPT !.kind = "refused"], "failed"))
    /\ UNCHANGED <<file, toolFaults, alone>> /\ UNCHANGED loopVars

\* read_file, list_dir.
ReadFile(w, i) ==
    /\ MayStart(w, i)
    /\ Becoming(w, i, Ended([round[w][i] EXCEPT !.kind = "read", !.seen = file],
                            IF file.there THEN "ok" ELSE "failed"))
    /\ UNCHANGED <<file, toolFaults, alone>> /\ UNCHANGED loopVars

\* append_file creates the file if it must; the kernel finds the end at the write.
AppendFile(w, i) ==
    /\ MayStart(w, i)
    /\ file' = Holding(Append(file.text, round[w][i].id)) /\ Changed(w)
    /\ Becoming(w, i, Ended([round[w][i] EXCEPT !.kind = "append"], "ok"))
    /\ UNCHANGED toolFaults /\ UNCHANGED loopVars

\* The open fails, or the write does, and by then the file is there.
AppendFails(w, i) ==
    /\ MayStart(w, i) /\ ToolFault
    /\ LET append == [round[w][i] EXCEPT !.kind = "append"]
       IN \/ Becoming(w, i, Ended(append, "failed")) /\ UNCHANGED <<file, alone>>
          \/ /\ file' = [file EXCEPT !.there = TRUE] /\ Changed(w)
             /\ Becoming(w, i, Ended(append, "created"))
    /\ UNCHANGED loopVars

Count(t, b) == Cardinality({k \in DOMAIN t : t[k] = b})

\* edit_file reads, and goes on when the old text is there exactly once.
EditRead(w, i) ==
    /\ MayStart(w, i)
    /\ LET edit == [round[w][i] EXCEPT !.kind = "edit", !.seen = file]
       IN \/ \E old \in 0 .. MaxAsked :
               /\ file.there /\ Count(file.text, old) = 1
               /\ Becoming(w, i, [edit EXCEPT !.old = old, !.step = "ready"])
          \/ Becoming(w, i, Ended(edit, "failed"))
    /\ UNCHANGED <<file, toolFaults, alone>> /\ UNCHANGED loopVars

\* os.WriteFile, of write_file and of edit_file, opens with O_TRUNC ...
Truncates(w, i) ==
    /\ \/ MayStart(w, i)
       \/ round[w][i].step = "ready"
    /\ file' = Holding(<<>>) /\ Changed(w)
    /\ Becoming(w, i, [round[w][i] EXCEPT !.kind = IF @ = "edit" THEN @ ELSE "write", !.step = "cut"])
    /\ UNCHANGED toolFaults /\ UNCHANGED loopVars

Replaced(t, old, new) == [k \in DOMAIN t |-> IF t[k] = old THEN new ELSE t[k]]

Text(c) == IF c.kind = "edit" THEN Replaced(c.seen.text, c.old, c.id) ELSE <<c.id>>

\* ... and writes from offset 0 on, over what others wrote since.
Overlaid(t, over) == t \o SubSeq(over, Len(t) + 1, Len(over))

WritesText(w, i) ==
    /\ round[w] # <<>> /\ round[w][i].step = "cut"
    /\ file' = Holding(Overlaid(Text(round[w][i]), file.text)) /\ Changed(w)
    /\ Becoming(w, i, Ended(round[w][i], "ok"))
    /\ UNCHANGED toolFaults /\ UNCHANGED loopVars

\* The open or the write fails; the call says so in both cases.
WriteFails(w, i) ==
    /\ round[w][i].step \in {"ready", "cut"} /\ ToolFault
    /\ Becoming(w, i, Ended(round[w][i], IF round[w][i].step = "cut" THEN "emptied" ELSE "failed"))
    /\ UNCHANGED <<file, alone>> /\ UNCHANGED loopVars

\* exec: the commands here leave the file alone.
ExecStarts(w, i) ==
    /\ MayStart(w, i)
    /\ Becoming(w, i, [round[w][i] EXCEPT !.kind = "exec", !.step = "runs"])
    /\ UNCHANGED <<file, toolFaults, alone>> /\ UNCHANGED loopVars

ExecExits(w, i) ==
    /\ round[w][i].step \in {"runs", "drains"}
    /\ Becoming(w, i, Ended(round[w][i], IF round[w][i].step = "runs" THEN "ok" ELSE "timeout"))
    /\ UNCHANGED <<file, toolFaults, alone>> /\ UNCHANGED loopVars

\* The shell is killed after a minute; Run returns when its output is closed, which a
\* process the shell has started may keep open.
ExecTimesOut(w, i) ==
    /\ round[w][i].step = "runs"
    /\ \/ Becoming(w, i, Ended(round[w][i], "timeout"))
       \/ Becoming(w, i, [round[w][i] EXCEPT !.step = "drains"])
    /\ UNCHANGED <<file, toolFaults, alone>> /\ UNCHANGED loopVars

\* subagent and spawn, which subagents do not have, want the manager's lock for a new one.
Delegated(w, i) ==
    /\ w \in Conversations /\ MayStart(w, i)
    /\ \E s \in Delegates :
         /\ loop[s] = "idle" /\ s = CHOOSE d \in Delegates : loop[d] = "idle"
         /\ loop' = [loop EXCEPT ![s] = "due"]
         /\ Becoming(w, i, [round[w][i] EXCEPT !.kind = "delegate", !.step = "locks", !.by = s])
    /\ UNCHANGED <<file, iteration, asked, toolFaults, began, alone>> /\ UNCHANGED managerLockVars

\* With it subagent starts a loop and waits for that; spawn leaves it to a goroutine.
DelegateStarts(w, i) ==
    /\ round[w][i].step = "locks" /\ announcing = "none"
    /\ \E s \in Delegates :
         /\ round[w][i].by = s /\ loop[s] = "due"
         /\ \/ /\ loop' = [loop EXCEPT ![s] = "top"] /\ UNCHANGED spawned
               /\ Becoming(w, i, [round[w][i] EXCEPT !.step = "waits"])
            \/ /\ spawned' = spawned \cup {s} /\ UNCHANGED loop
               /\ Becoming(w, i, Ended(round[w][i], "ok"))
    /\ UNCHANGED <<file, iteration, asked, toolFaults, began, alone, announcing>>

\* The goroutine reads the tools under the lock, and its loop begins.
SubagentStarts(s) ==
    /\ s \in spawned /\ loop[s] = "due" /\ announcing = "none"
    /\ loop' = [loop EXCEPT ![s] = "top"]
    /\ UNCHANGED <<file, iteration, round, asked, toolFaults, began, alone>> /\ UNCHANGED managerLockVars

\* It keeps the lock until the inbound queue has room for what it announces.
Announce(s) ==
    /\ s \in spawned /\ loop[s] \in Over /\ announcing = "none"
    /\ announcing' = s /\ spawned' = spawned \ {s}
    /\ UNCHANGED <<file, loop, iteration, round, asked, toolFaults, began, alone>>

Announced ==
    /\ announcing # "none" /\ announcing' = "none"
    /\ UNCHANGED <<file, loop, iteration, round, asked, toolFaults, spawned, began, alone>>

\* An exhausted loop is reported as completed, with an empty result.
DelegateReturns(w, i) ==
    /\ round[w][i].step = "waits" /\ loop[round[w][i].by] \in Over
    /\ Becoming(w, i, Ended(round[w][i], IF loop[round[w][i].by] = "failed" THEN "failed" ELSE "ok"))
    /\ UNCHANGED <<file, toolFaults, alone>> /\ UNCHANGED loopVars

\* What a call does once it has begun, unless the command decides when.
CallGoesOn(w, i) ==
    \/ (round[w][i].step = "ready" /\ Truncates(w, i)) \/ WritesText(w, i) \/ ExecTimesOut(w, i)
    \/ DelegateStarts(w, i) \/ DelegateReturns(w, i)

CallStarts(w, i) ==
    \/ Refused(w, i) \/ ReadFile(w, i) \/ AppendFile(w, i) \/ EditRead(w, i) \/ Truncates(w, i)
    \/ ExecStarts(w, i) \/ Delegated(w, i)

LoopSteps(w) == LoopTop(w) \/ NextRound(w) \/ SubagentStarts(w)

ToolsNext ==
    \/ \E w \in Workers :
        \/ TurnStarts(w) \/ LoopSteps(w) \/ LLMReturns(w) \/ Announce(w)
        \/ \E i \in DOMAIN round[w] :
              CallStarts(w, i) \/ AppendFails(w, i) \/ CallGoesOn(w, i) \/ WriteFails(w, i) \/ ExecExits(w, i)
    \/ Announced

\* Goroutines that can go on do; the model, a command and the inbound queue may not answer.
ToolsFairness ==
    \A w \in Workers :
        /\ WF_toolVars(LoopSteps(w))
        /\ \A i \in 1 .. MaxAsked :
              WF_toolVars(i \in DOMAIN round[w] /\ (CallStarts(w, i) \/ CallGoesOn(w, i)))

ToolsSpec == ToolsInit /\ [][ToolsNext]_toolVars /\ ToolsFairness

-----------------------------------------------------------------------------
ToolsTypeOK ==
    /\ file.there \in BOOLEAN /\ file.text \in Seq(0 .. MaxAsked)
    /\ loop \in [Workers -> {"idle", "due", "top", "llm", "tools"} \cup Over]
    /\ iteration \in [Workers -> 0 .. MaxRounds]
    /\ asked \in 0 .. MaxAsked /\ toolFaults \in 0 .. MaxToolFaults
    /\ spawned \subseteq Delegates /\ announcing \in Delegates \cup {"none"}
    /\ \A w \in Workers : loop[w] # "tools" <=> round[w] = <<>>

\* What call c, taken by itself, makes of the file f.
Applied(f, c) ==
    IF c.result = "emptied" THEN Holding(<<>>)
    ELSE IF c.result = "created" THEN [f EXCEPT !.there = TRUE]
    ELSE IF c.result # "ok" THEN f
    ELSE IF c.kind = "edit" THEN Holding(Replaced(f.text, c.old, c.id))
    ELSE IF c.kind = "write" THEN Holding(<<c.id>>)
    ELSE IF c.kind = "append" THEN Holding(Append(f.text, c.id))
    ELSE f

Changes(w) == {i \in DOMAIN round[w] : round[w][i].kind \in {"edit", "write", "append"}}
Before(w, i) == SequenceOps!FoldLeft(Applied, began[w], SubSeq(round[w], 1, i - 1))

OneChange(w) == Cardinality(Changes(w)) <= 1
OnlyAppends(w) == \A i \in Changes(w) : round[w][i].kind = "append"
Saw(w, i) == round[w][i].kind \in {"read", "edit"} => round[w][i].seen = Before(w, i)

\* When a loop takes the results of a round during which nobody else changed the file, the
\* file is what the calls make of it one after the other: in a subagent always, and each of
\* them saw what those before it left; in a turn when there is one change.
InOrder(w) ==
    /\ w \in Delegates \/ OneChange(w) => file = Before(w, Len(round[w]) + 1)
    /\ w \in Delegates => \A i \in DOMAIN round[w] : Saw(w, i)

RoundsInOrder ==
    [][\A w \in Workers : loop[w] = "tools" /\ loop'[w] # "tools" /\ alone[w] => InOrder(w)]_toolVars

\* While a round only appends, and nobody else changes the file, nothing is lost, in whatever
\* order its calls run: each call that has appended, and says so (edit.go), is in the file
\* exactly once.
AppendsKept ==
    \A w \in Workers : loop[w] = "tools" /\ alone[w] /\ OnlyAppends(w) =>
        \A i \in Changes(w) : round[w][i].result = "ok" => Count(file.text, round[w][i].id) = 1

\* The model never answers; a command that was killed has left a process that holds its
\* output; the inbound queue never takes an announcement made under the manager's lock.
ModelHangs == \E w \in Workers : <>[](loop[w] = "llm")
CommandHangs == <>[](\E w \in Workers : \E i \in DOMAIN round[w] : round[w][i].step = "drains")
AnnouncementHangs == <>[](announcing # "none")

\* Nothing but those three keeps a turn or a subagent from its end, however many rounds the
\* model asks for, and whoever waits for whom.
LoopsEnd ==
    \/ ModelHangs \/ CommandHangs \/ AnnouncementHangs
    \/ \A w \in Workers : loop[w] \in {"due", "top", "llm", "tools"} ~> loop[w] \in Over

ToolRounds == RoundsInOrder /\ []AppendsKept /\ LoopsEnd
=============================================================================
