------------------------------ MODULE AgentLoop ------------------------------
(***************************************************************************)
(* How the agent takes messages and answers them: AgentLoop.Run and        *)
(* processMessage (pkg/agent/loop.go), the message tool it shares with the *)
(* turns that cron jobs and heartbeats run on goroutines of their own, and *)
(* the subagents that spawn starts (pkg/tools/subagent.go), which hold the *)
(* manager's lock while they announce themselves on the inbound queue that *)
(* only Run empties.                                                       *)
(*                                                                         *)
(* The message tool sends to the chat of the turn or to one the LLM names; *)
(* the subagents have a message tool of their own, which Run does not ask. *)
(* Any other tool is one that may not come back.  The outbound queue is    *)
(* taken to be drained: what is published is recorded in the histories     *)
(* heard and told.                                                         *)
(***************************************************************************)
EXTENDS Naturals, Sequences, FiniteSets

CONSTANTS
    Arrivals,     \* messages that channels publish
    Commands,     \* those of them that are slash commands
    NoMsg,
    Sides,        \* goroutines beside Run that run turns: cron, heartbeat
    Tasks,        \* subagents that can be spawned
    NoTask,
    Cap,          \* capacity of the inbound queue (100)
    MaxTools,     \* bound: tool calls of a turn
    MaxSideTurns  \* bound: turns of each of Sides

ASSUME NameAssumption ==
    /\ Commands \subseteq Arrivals /\ Arrivals \cap Tasks = {}
    /\ NoMsg \notin Arrivals /\ NoTask \notin Tasks /\ "main" \notin Sides
    /\ IsFiniteSet(Tasks)
ASSUME BoundAssumption == Cap \in Nat \ {0} /\ MaxTools \in Nat /\ MaxSideTurns \in Nat

Runners == {"main"} \cup Sides

\* Run's response, the turn's message tool to the turn's chat or to another one,
\* and the message tool of a subagent.
Ways == {"reply", "message", "elsewhere", "subagent"}

VARIABLES
    inbound,      \* mb.inbound; a task stands for a "system" message about it
    arrived,      \* messages published so far
    handling,     \* the message Run handles
    pc,           \* where the turn of each runner is
    tools,        \* tool calls of each runner's turn
    sideTurns,    \* turns of Sides so far
    sentInRound,  \* MessageTool.sentInRound
    smLock,       \* task that holds sm.mu for writing
    task,         \* where each subagent is
    result,       \* how each subagent ended: an error, no text at all, or a text
    heard,        \* history: who published something in the handling of a message
    told,         \* history: how often a task's result was published to the user
    finished,     \* history: messages Run is through with
    mixed         \* history: messages handled while a side turn ran

turnVars == <<handling, pc, tools, sideTurns, sentInRound>>
taskVars == <<smLock, task, result, told>>
histVars == <<heard, finished, mixed>>
vars == <<inbound, arrived, turnVars, taskVars, histVars>>

Init ==
    /\ inbound = <<>> /\ arrived = {} /\ handling = NoMsg
    /\ pc = [r \in Runners |-> "idle"] /\ tools = [r \in Runners |-> 0]
    /\ sideTurns = [s \in Sides |-> 0]
    /\ sentInRound = FALSE
    /\ smLock = NoTask /\ task = [k \in Tasks |-> "unused"]
    /\ result = [k \in Tasks |-> "none"]
    /\ heard = [m \in Arrivals |-> {}] /\ finished = {} /\ mixed = {}
    /\ told = [k \in Tasks |-> 0]

Goto(r, at) == pc' = [pc EXCEPT ![r] = at]
SideBusy == \E s \in Sides : pc[s] # "idle"
Hears(m, way) == heard' = [heard EXCEPT ![m] = @ \cup {way}]

\* Mutant of Arrive: the queue takes one message too many.
ArriveOverfull(m) ==
    /\ m \notin arrived /\ Len(inbound) <= Cap
    /\ arrived' = arrived \cup {m}
    /\ inbound' = Append(inbound, m)
    /\ UNCHANGED <<turnVars, taskVars, histVars>>

\* A channel's PublishInbound; on a full queue its goroutine waits.
Arrive(m) ==
    /\ m \notin arrived /\ Len(inbound) < Cap
    /\ arrived' = arrived \cup {m}
    /\ inbound' = Append(inbound, m)
    /\ UNCHANGED <<turnVars, taskVars, histVars>>

-----------------------------------------------------------------------------
\* Run.

\* Mutant of ConsumeSystem: the result in a system message goes to the user.
ConsumeSystemForwards ==
    /\ pc["main"] = "idle" /\ inbound # <<>> /\ Head(inbound) \in Tasks
    /\ inbound' = Tail(inbound)
    /\ told' = [told EXCEPT ![Head(inbound)] = @ + 1]
    /\ UNCHANGED <<arrived, turnVars, smLock, task, result, histVars>>

\* processSystemMessage only logs what it is told of a task: its response is empty.
ConsumeSystem ==
    /\ pc["main"] = "idle" /\ inbound # <<>> /\ Head(inbound) \in Tasks
    /\ inbound' = Tail(inbound)
    /\ UNCHANGED <<arrived, turnVars, taskVars, histVars>>

\* processMessage: handleCommand answers a slash command without a turn.
Consume ==
    /\ pc["main"] = "idle" /\ inbound # <<>> /\ Head(inbound) \in Arrivals
    /\ inbound' = Tail(inbound)
    /\ handling' = Head(inbound)
    /\ Goto("main", IF Head(inbound) \in Commands THEN "reply" ELSE "start")
    /\ mixed' = IF SideBusy THEN mixed \cup {Head(inbound)} ELSE mixed
    /\ UNCHANGED <<arrived, tools, sideTurns, sentInRound, taskVars, heard, finished>>

\* A response, an error's text included, is published unless the message tool
\* is seen to have sent something in this round.
Reply ==
    /\ pc["main"] = "reply"
    /\ IF sentInRound THEN UNCHANGED heard ELSE Hears(handling, "reply")
    /\ finished' = finished \cup {handling}
    /\ handling' = NoMsg
    /\ Goto("main", "idle")
    /\ UNCHANGED <<inbound, arrived, tools, sideTurns, sentInRound, taskVars, mixed>>

-----------------------------------------------------------------------------
\* A turn, of Run or of a side: runAgentLoop.

\* The handler of a cron job without delivery, or of a heartbeat, starts a turn.
BeginSide(s) ==
    /\ pc[s] = "idle" /\ sideTurns[s] < MaxSideTurns
    /\ sideTurns' = [sideTurns EXCEPT ![s] = @ + 1]
    /\ Goto(s, "start")
    /\ mixed' = IF handling # NoMsg THEN mixed \cup {handling} ELSE mixed
    /\ UNCHANGED <<inbound, arrived, handling, tools, sentInRound, taskVars, heard, finished>>

\* Mutant of BeginTurn: the tracker of the last round is kept.
BeginTurnKeepsFlag(r) ==
    /\ pc[r] = "start"
    /\ tools' = [tools EXCEPT ![r] = 0]
    /\ Goto(r, "llm")
    /\ UNCHANGED <<inbound, arrived, handling, sideTurns, sentInRound, taskVars, histVars>>

BeginTurn(r) ==
    /\ pc[r] = "start"
    /\ sentInRound' = FALSE
    /\ tools' = [tools EXCEPT ![r] = 0]
    /\ Goto(r, "llm")
    /\ UNCHANGED <<inbound, arrived, handling, sideTurns, taskVars, histVars>>

CallTool(r, at) ==
    /\ pc[r] = "llm" /\ tools[r] < MaxTools
    /\ tools' = [tools EXCEPT ![r] = @ + 1]
    /\ Goto(r, at)

\* MessageTool.Execute publishes first, to the chat of the turn or to the one
\* its arguments name ...
SendMessage(r, way) ==
    /\ CallTool(r, "mark")
    /\ IF r = "main" THEN Hears(handling, way) ELSE UNCHANGED heard
    /\ UNCHANGED <<inbound, arrived, handling, sideTurns, sentInRound, taskVars, finished, mixed>>

\* ... and sets the tracker then, wherever it sent to.
MarkSent(r) ==
    /\ pc[r] = "mark"
    /\ sentInRound' = TRUE
    /\ Goto(r, "llm")
    /\ UNCHANGED <<inbound, arrived, handling, tools, sideTurns, taskVars, histVars>>

CallSpawn(r) ==
    /\ \E k \in Tasks : task[k] = "unused"
    /\ CallTool(r, "spawn")
    /\ UNCHANGED <<inbound, arrived, handling, sideTurns, sentInRound, taskVars, histVars>>

\* SubagentManager.Spawn, once it has sm.mu.  (A call for which the bound has
\* left no task does nothing.)
Spawn(r) ==
    /\ pc[r] = "spawn" /\ smLock = NoTask
    /\ IF \E k \in Tasks : task[k] = "unused"
       THEN \E k \in Tasks : task[k] = "unused" /\ task' = [task EXCEPT ![k] = "new"]
       ELSE UNCHANGED task
    /\ Goto(r, "llm")
    /\ UNCHANGED <<inbound, arrived, handling, tools, sideTurns, sentInRound, smLock, result, told, histVars>>

\* The subagent tool runs a subagent in the turn's own goroutine.
CallSubagent(r) ==
    /\ CallTool(r, "delegate")
    /\ UNCHANGED <<inbound, arrived, handling, sideTurns, sentInRound, taskVars, histVars>>

\* It reads the manager's tools under the read lock, runs the tool loop and may
\* write to the user, past the tracker.
Delegate(r) ==
    /\ pc[r] = "delegate" /\ smLock = NoTask
    /\ Goto(r, "tool")
    /\ \/ UNCHANGED heard
       \/ r = "main" /\ Hears(handling, "subagent")
    /\ UNCHANGED <<inbound, arrived, handling, tools, sideTurns, sentInRound, taskVars, finished, mixed>>

CallOther(r) ==
    /\ CallTool(r, "tool")
    /\ UNCHANGED <<inbound, arrived, handling, sideTurns, sentInRound, taskVars, histVars>>

\* A tool comes back.  Nothing says it does: exec waits for whoever holds the
\* output of its command, and a subagent calls tools itself.
ToolReturns(r) ==
    /\ pc[r] = "tool"
    /\ Goto(r, "llm")
    /\ UNCHANGED <<inbound, arrived, handling, tools, sideTurns, sentInRound, taskVars, histVars>>

\* The LLM's answer, or its failure.  Cron drops the answer, a heartbeat makes
\* it a silent result.
EndTurn(r) ==
    /\ pc[r] = "llm"
    /\ Goto(r, IF r = "main" THEN "reply" ELSE "idle")
    /\ UNCHANGED <<inbound, arrived, handling, tools, sideTurns, sentInRound, taskVars, histVars>>

-----------------------------------------------------------------------------
\* A subagent: runTask.

Move(k, at) == task' = [task EXCEPT ![k] = at]

\* It reads the manager's tools under the read lock.
StartTask(k) ==
    /\ task[k] = "new" /\ smLock = NoTask
    /\ Move(k, "working")
    /\ UNCHANGED <<inbound, arrived, turnVars, smLock, result, told, histVars>>

\* Its message tool is not the one Run asks.
SubagentWrites(k) ==
    /\ task[k] = "working"
    /\ \E m \in arrived : Hears(m, "subagent")
    /\ UNCHANGED <<inbound, arrived, turnVars, taskVars, finished, mixed>>

\* RunToolLoop is over: it failed, it ran out of rounds before there was a text,
\* or it has one.  The lock is taken for what follows.
FinishTask(k) ==
    /\ task[k] = "working" /\ smLock = NoTask
    /\ smLock' = k
    /\ Move(k, "announce")
    /\ \E end \in {"error", "empty", "text"} : result' = [result EXCEPT ![k] = end]
    /\ UNCHANGED <<inbound, arrived, turnVars, told, histVars>>

\* Mutant of Announce: the lock is not given back.
AnnounceKeepsLock(k) ==
    /\ task[k] = "announce" /\ Len(inbound) < Cap
    /\ inbound' = Append(inbound, k)
    /\ Move(k, "tell")
    /\ UNCHANGED <<arrived, turnVars, smLock, result, told, histVars>>

\* The announcement is published with the lock held, which is released after it.
Announce(k) ==
    /\ task[k] = "announce" /\ Len(inbound) < Cap
    /\ inbound' = Append(inbound, k)
    /\ smLock' = NoTask
    /\ Move(k, "tell")
    /\ UNCHANGED <<arrived, turnVars, result, told, histVars>>

\* The callback of the turn that spawned it: the result for the user, if it is
\* not empty, ...
Tell(k) ==
    /\ task[k] = "tell"
    /\ told' = IF result[k] = "text" THEN [told EXCEPT ![k] = @ + 1] ELSE told
    /\ Move(k, "notify")
    /\ UNCHANGED <<inbound, arrived, turnVars, smLock, result, histVars>>

\* ... and a second system message.
Notify(k) ==
    /\ task[k] = "notify" /\ Len(inbound) < Cap
    /\ inbound' = Append(inbound, k)
    /\ Move(k, "done")
    /\ UNCHANGED <<arrived, turnVars, smLock, result, told, histVars>>

-----------------------------------------------------------------------------
Main == ConsumeSystem \/ Consume \/ Reply

\* What a turn calls, and what returns to it ...
Calls(r) ==
    \/ \E way \in {"message", "elsewhere"} : SendMessage(r, way)
    \/ CallSpawn(r) \/ CallSubagent(r) \/ CallOther(r) \/ ToolReturns(r) \/ EndTurn(r)

\* ... and its own steps.
Proceeds(r) == BeginTurn(r) \/ MarkSent(r) \/ Spawn(r) \/ Delegate(r)

Turn(r) == Calls(r) \/ Proceeds(r)

Ends(k) == SubagentWrites(k) \/ FinishTask(k)

Reports(k) == StartTask(k) \/ Announce(k) \/ Tell(k) \/ Notify(k)

Subagent(k) == Ends(k) \/ Reports(k)

Next ==
    \/ \E m \in Arrivals : Arrive(m)
    \/ Main
    \/ \E s \in Sides : BeginSide(s)
    \/ \E r \in Runners : Turn(r)
    \/ \E k \in Tasks : Subagent(k)

\* Goroutines that can run do run.  Nothing is assumed of an LLM call or a tool,
\* of Run, a side or a subagent: with a CLI provider or exec it may wait for ever
\* for a process.  Turns, tasks and messages are finitely many, so weak fairness
\* covers the waits for sm.mu and for the queue.
Fairness ==
    /\ WF_vars(Main)
    /\ \A r \in Runners : WF_vars(Proceeds(r))
    /\ \A k \in Tasks : WF_vars(Reports(k))

SafeSpec == Init /\ [][Next]_vars

Spec == SafeSpec /\ Fairness

-----------------------------------------------------------------------------
TypeOK ==
    /\ inbound \in Seq(Arrivals \cup Tasks) /\ Len(inbound) <= Cap
    /\ arrived \subseteq Arrivals /\ handling \in Arrivals \cup {NoMsg}
    /\ pc \in [Runners -> {"idle", "start", "llm", "mark", "spawn", "delegate", "tool", "reply"}]
    /\ tools \in [Runners -> 0 .. MaxTools]
    /\ sideTurns \in [Sides -> 0 .. MaxSideTurns]
    /\ sentInRound \in BOOLEAN
    /\ smLock \in Tasks \cup {NoTask}
    /\ task \in [Tasks -> {"unused", "new", "working", "announce", "tell", "notify", "done"}]
    /\ result \in [Tasks -> {"none", "error", "empty", "text"}] /\ told \in [Tasks -> Nat]
    /\ heard \in [Arrivals -> SUBSET Ways]
    /\ finished \subseteq Arrivals /\ mixed \subseteq Arrivals

\* The outcomes of a lone turn: the response, or messages of the tool.
OneAnswer == {{"reply"}, {"message"}, {"elsewhere"}, {"message", "elsewhere"}}

\* A user's message whose turn no other turn overlapped is answered by the
\* response exactly if the turn's message tool sent nothing, whatever earlier
\* rounds left in the shared tracker: never by both, and by neither only if all
\* that the tool sent went to another chat.  What subagents write comes on top.
LoneTurnAnswered ==
    \A m \in finished \ (Commands \cup mixed) : heard[m] \ {"subagent"} \in OneAnswer

\* The user is told the text of a subagent that completed with one exactly once,
\* although it reaches the agent twice, and nothing of one that failed or ended
\* without a text.
ResultToldOnce ==
    \A k \in Tasks :
        /\ told[k] <= 1
        /\ task[k] = "done" => told[k] = IF result[k] = "text" THEN 1 ELSE 0

\* One way to stand still: a turn of Run waits for sm.mu, the task that has it
\* waits for room in the queue, and only Run would make room.
Wedged ==
    pc["main"] \in {"spawn", "delegate"} /\ smLock # NoTask /\ Len(inbound) = Cap

\* The other: an LLM call or a tool of Run's turn never comes back.
TurnHangs == <>[](pc["main"] \in {"llm", "tool"})

\* Every message is handled to its end, except for these two.
HandledUnlessStuck ==
    TurnHangs \/ \A m \in Arrivals : m \in arrived ~> (m \in finished \/ Wedged)

\* spawn.go:23 describes the tool as "Spawn a subagent to handle a task in the
\* background": the call comes back.
SpawnReturns == \A r \in Runners : pc[r] = "spawn" ~> pc[r] # "spawn"

\* loop.go:256 lets Run skip the response "to avoid duplicate messages to the
\* user"; for a message that was handled something has thus been sent.
Answered == \A m \in finished : heard[m] # {}
=============================================================================
