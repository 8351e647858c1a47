-------------------------- MODULE AgentLoop_proofs --------------------------
(***************************************************************************)
(* Proofs about AgentLoop for any messages, side goroutines, subagents and *)
(* capacity of the queue: a message whose turn no other turn overlaps gets *)
(* the response exactly if the turn's message tool sent nothing, and the   *)
(* text of a subagent reaches the user once.                               *)
(*                                                                         *)
(* The first needs to know that the tracker of the message tool, between   *)
(* the start of such a turn and its reply, says of this turn and of no     *)
(* other what the tool did in it.                                          *)
(***************************************************************************)
EXTENDS AgentLoop, SequenceTheorems, TLAPS

\* Messages that got the response, and those in whose turn the message tool sent.
Replied == {m \in Arrivals : "reply" \in heard[m]}
Messaged == {m \in Arrivals : heard[m] \cap {"message", "elsewhere"} # {}}

\* LoneTurnAnswered in those terms.
EitherWay == \A m \in finished \ (Commands \cup mixed) : (m \in Replied) # (m \in Messaged)

\* A message is in the queue, in hand or finished, one of them and once.
Queued ==
    /\ \A i \in 1 .. Len(inbound) :
          inbound[i] \in Arrivals
            => inbound[i] \in arrived /\ inbound[i] \notin finished /\ inbound[i] # handling
    /\ \A i, j \in 1 .. Len(inbound) :
          inbound[i] \in Arrivals /\ inbound[i] = inbound[j] => i = j

Handled ==
    /\ handling = NoMsg <=> pc["main"] = "idle"
    /\ handling # NoMsg => handling \in arrived /\ handling \notin finished
    /\ finished \subseteq arrived /\ Replied \subseteq finished
    /\ Messaged \subseteq finished \cup {handling}
    /\ mixed \subseteq finished \cup {handling}

\* The tracker says what the message tool did, if the turn is not a mixed one.
Tracked ==
    handling \in Arrivals \ (Commands \cup mixed) =>
        /\ \A s \in Sides : pc[s] = "idle"
        /\ pc["main"] = "start" => handling \notin Messaged
        /\ pc["main"] = "mark" => handling \in Messaged
        /\ pc["main"] \in {"llm", "spawn", "delegate", "tool", "reply"} => (sentInRound <=> handling \in Messaged)

Told ==
    \A k \in Tasks :
        told[k] = IF result[k] = "text" /\ task[k] \in {"notify", "done"} THEN 1 ELSE 0

LoopInv == TypeOK /\ Queued /\ Handled /\ Tracked /\ EitherWay /\ Told

Steps == {"idle", "start", "llm", "mark", "spawn", "delegate", "tool", "reply"}
TaskSteps == {"unused", "new", "working", "announce", "tell", "notify", "done"}
Endings == {"none", "error", "empty", "text"}

-----------------------------------------------------------------------------
LEMMA InitInv == Init => LoopInv
<1> SUFFICES ASSUME Init PROVE LoopInv
  OBVIOUS
<1>1. TypeOK
  <2>1. <<>> \in Seq(Arrivals \cup Tasks) /\ Len(<<>>) = 0
    OBVIOUS
  <2>2. /\ [r \in Runners |-> "idle"] \in [Runners -> Steps]
        /\ [r \in Runners |-> 0] \in [Runners -> 0 .. MaxTools]
        /\ [t \in Sides |-> 0] \in [Sides -> 0 .. MaxSideTurns]
    BY BoundAssumption DEF Steps
  <2>3. /\ [k \in Tasks |-> "unused"]
             \in [Tasks -> {"unused", "new", "working", "announce", "tell", "notify", "done"}]
        /\ [k \in Tasks |-> 0] \in [Tasks -> Nat]
        /\ [k \in Tasks |-> "none"] \in [Tasks -> Endings]
        /\ [m \in Arrivals |-> {}] \in [Arrivals -> SUBSET Ways]
    BY DEF Endings
  <2>4. inbound \in Seq(Arrivals \cup Tasks) /\ Len(inbound) <= Cap
    BY <2>1, BoundAssumption DEF Init
  <2>5. /\ arrived \subseteq Arrivals /\ handling \in Arrivals \cup {NoMsg}
        /\ sentInRound \in BOOLEAN /\ smLock \in Tasks \cup {NoTask}
        /\ finished \subseteq Arrivals /\ mixed \subseteq Arrivals
    BY DEF Init
  <2>6. /\ pc = [r \in Runners |-> "idle"] /\ tools = [r \in Runners |-> 0]
        /\ sideTurns = [t \in Sides |-> 0]
        /\ task = [k \in Tasks |-> "unused"] /\ told = [k \in Tasks |-> 0]
        /\ result = [k \in Tasks |-> "none"] /\ heard = [m \in Arrivals |-> {}]
    BY DEF Init
  <2> QED
    BY <2>2, <2>3, <2>4, <2>5, <2>6 DEF TypeOK, Steps, Endings
<1>2. Queued /\ Handled
  <2>1. Replied = {} /\ Messaged = {}
    BY DEF Init, Replied, Messaged
  <2> QED
    BY <2>1 DEF Init, Queued, Handled, Runners
<1>3. Tracked /\ EitherWay /\ Told
  BY NameAssumption DEF Init, Tracked, EitherWay, Told
<1> QED
  BY <1>1, <1>2, <1>3 DEF LoopInv

\* What an append does to the queue.
LEMMA AppendFacts ==
    ASSUME NEW q \in Seq(Arrivals \cup Tasks), NEW e \in Arrivals \cup Tasks
    PROVE  /\ Append(q, e) \in Seq(Arrivals \cup Tasks)
           /\ Len(Append(q, e)) = Len(q) + 1
           /\ \A i \in 1 .. Len(q) : Append(q, e)[i] = q[i]
           /\ Append(q, e)[Len(q) + 1] = e
  OBVIOUS

\* What is heard of a message.
LEMMA HeardFacts ==
    ASSUME TypeOK, NEW m \in Arrivals, NEW way \in Ways, Hears(m, way)
    PROVE  /\ heard' \in [Arrivals -> SUBSET Ways]
           /\ Replied' = IF way = "reply" THEN Replied \cup {m} ELSE Replied
           /\ Messaged' = IF way \in {"message", "elsewhere"} THEN Messaged \cup {m} ELSE Messaged
<1>1. /\ heard \in [Arrivals -> SUBSET Ways]
      /\ heard' = [heard EXCEPT ![m] = heard[m] \cup {way}]
  BY DEF TypeOK, Hears
<1>2. heard' \in [Arrivals -> SUBSET Ways]
  BY <1>1
<1>3. \A n \in Arrivals : heard'[n] = IF n = m THEN heard[n] \cup {way} ELSE heard[n]
  BY <1>1
<1>4. Replied' = IF way = "reply" THEN Replied \cup {m} ELSE Replied
  BY <1>3 DEF Replied
<1>5. Messaged' = IF way \in {"message", "elsewhere"} THEN Messaged \cup {m} ELSE Messaged
  BY <1>3 DEF Messaged, Ways
<1> QED
  BY <1>2, <1>4, <1>5

LEMMA NothingHeard == heard' = heard => Replied' = Replied /\ Messaged' = Messaged
  BY DEF Replied, Messaged

\* Only Run's reply counts as a response, and only the message tool of Run's turn
\* as its messages; what a subagent writes counts as neither.
LEMMA TurnHeard ==
    ASSUME LoopInv, NEW r \in Runners, Turn(r)
    PROVE  /\ Replied' = Replied
           /\ \/ Messaged' = Messaged
              \/ /\ \E way \in {"message", "elsewhere"} : SendMessage("main", way)
                 /\ Messaged' = Messaged \cup {handling}
<1>1. TypeOK /\ (pc["main"] # "idle" => handling \in Arrivals)
  BY DEF LoopInv, TypeOK, Handled
<1>2. CASE heard' = heard
  BY <1>2, NothingHeard
<1>3. CASE Delegate(r)
  <2>1. CASE r = "main" /\ Hears(handling, "subagent")
    BY <1>1, <1>3, <2>1, HeardFacts DEF Delegate, Ways
  <2> QED
    BY <1>2, <1>3, <2>1 DEF Delegate
<1>4. ASSUME NEW way \in {"message", "elsewhere"}, SendMessage(r, way)
      PROVE  /\ Replied' = Replied
             /\ Messaged' = Messaged \/ (r = "main" /\ Messaged' = Messaged \cup {handling})
  <2>1. CASE r = "main"
    <3>1. Hears(handling, way) /\ handling \in Arrivals
      BY <1>1, <1>4, <2>1 DEF SendMessage, CallTool
    <3> QED
      BY <1>1, <2>1, <3>1, HeardFacts DEF Ways
  <2> QED
    BY <1>2, <1>4, <2>1, NothingHeard DEF SendMessage
<1>5. ASSUME BeginTurn(r) \/ MarkSent(r) \/ Spawn(r) \/ CallSpawn(r) \/ CallSubagent(r)
                \/ CallOther(r) \/ ToolReturns(r) \/ EndTurn(r)
      PROVE  heard' = heard
  BY <1>5 DEF BeginTurn, MarkSent, Spawn, CallSpawn, CallSubagent, CallOther, ToolReturns, EndTurn,
              histVars
<1> QED
  BY <1>2, <1>3, <1>4, <1>5 DEF Turn, Calls, Proceeds

LEMMA SubagentHeard ==
    ASSUME LoopInv, NEW k \in Tasks, Subagent(k)
    PROVE  Replied' = Replied /\ Messaged' = Messaged
<1>1. TypeOK /\ arrived \subseteq Arrivals
  BY DEF LoopInv, TypeOK
<1>2. CASE SubagentWrites(k)
  BY <1>1, <1>2, HeardFacts DEF SubagentWrites, Ways
<1>3. CASE StartTask(k) \/ FinishTask(k) \/ Announce(k) \/ Tell(k) \/ Notify(k)
  BY <1>3, NothingHeard DEF StartTask, FinishTask, Announce, Tell, Notify, histVars
<1> QED
  BY <1>2, <1>3 DEF Subagent, Ends, Reports

-----------------------------------------------------------------------------
\* Every step keeps the types.
LEMMA StepType == LoopInv /\ [Next]_vars => TypeOK'
<1> SUFFICES ASSUME LoopInv, [Next]_vars PROVE TypeOK'
  OBVIOUS
<1>0. /\ TypeOK /\ Handled
      /\ inbound \in Seq(Arrivals \cup Tasks) /\ pc \in [Runners -> Steps] /\ task \in [Tasks -> TaskSteps]
      /\ tools \in [Runners -> 0 .. MaxTools] /\ sideTurns \in [Sides -> 0 .. MaxSideTurns]
      /\ told \in [Tasks -> Nat] /\ Cap \in Nat /\ MaxTools \in Nat /\ MaxSideTurns \in Nat
      /\ result \in [Tasks -> Endings] /\ heard \in [Arrivals -> SUBSET Ways]
  BY BoundAssumption DEF LoopInv, TypeOK, Steps, TaskSteps, Endings
<1>1. ASSUME NEW r \in Runners, NEW at \in Steps, Goto(r, at) PROVE pc' \in [Runners -> Steps]
  BY <1>0, <1>1 DEF Goto
<1>2. ASSUME NEW k \in Tasks, NEW at \in TaskSteps, Move(k, at) PROVE task' \in [Tasks -> TaskSteps]
  BY <1>0, <1>2 DEF Move
<1>3. ASSUME NEW r \in Runners, NEW at \in Steps, CallTool(r, at)
      PROVE  pc' \in [Runners -> Steps] /\ tools' \in [Runners -> 0 .. MaxTools]
  BY <1>0, <1>1, <1>3 DEF CallTool
<1>4. "main" \in Runners /\ Sides \subseteq Runners
  BY DEF Runners
<1>5. CASE UNCHANGED vars
  BY <1>0, <1>5 DEF vars, turnVars, taskVars, histVars, TypeOK
<1>6. ASSUME NEW m \in Arrivals, Arrive(m) PROVE TypeOK'
  <2>1. inbound' \in Seq(Arrivals \cup Tasks) /\ Len(inbound') <= Cap
    BY <1>0, <1>6, AppendFacts DEF Arrive
  <2> QED
    BY <1>0, <1>6, <2>1 DEF Arrive, TypeOK, turnVars, taskVars, histVars
<1>7. CASE Main
  <2>1. ASSUME inbound # <<>>
        PROVE  Tail(inbound) \in Seq(Arrivals \cup Tasks) /\ Len(Tail(inbound)) <= Cap
    BY <1>0, <2>1 DEF TypeOK
  <2>2. CASE ConsumeSystem
    BY <1>0, <2>1, <2>2 DEF ConsumeSystem, TypeOK, turnVars, taskVars, histVars
  <2>3. CASE Consume
    <3>1. pc' \in [Runners -> Steps]
      BY <1>1, <1>4, <2>3 DEF Consume, Steps
    <3>2. handling' \in Arrivals /\ mixed' \subseteq Arrivals
      BY <1>0, <2>3 DEF Consume, TypeOK
    <3> QED
      BY <1>0, <2>1, <2>3, <3>1, <3>2 DEF Consume, TypeOK, taskVars, Steps
  <2>4. CASE Reply
    <3>1. pc' \in [Runners -> Steps]
      BY <1>1, <1>4, <2>4 DEF Reply, Steps
    <3>2. handling \in Arrivals
      BY <1>0, <2>4 DEF Reply, Handled, TypeOK
    <3>3. heard' \in [Arrivals -> SUBSET Ways]
      BY <1>0, <2>4, <3>2, HeardFacts DEF Reply, Ways
    <3> QED
      BY <1>0, <2>4, <3>1, <3>2, <3>3 DEF Reply, TypeOK, taskVars, Steps
  <2> QED
    BY <1>7, <2>2, <2>3, <2>4 DEF Main
<1>8. ASSUME NEW s \in Sides, BeginSide(s) PROVE TypeOK'
  <2>1. pc' \in [Runners -> Steps] /\ sideTurns' \in [Sides -> 0 .. MaxSideTurns]
    BY <1>0, <1>1, <1>4, <1>8 DEF BeginSide, Steps
  <2>2. mixed' \subseteq Arrivals
    BY <1>0, <1>8 DEF BeginSide, TypeOK
  <2> QED
    BY <1>0, <1>8, <2>1, <2>2 DEF BeginSide, TypeOK, taskVars, Steps
<1>9. ASSUME NEW r \in Runners, Turn(r) PROVE TypeOK'
  <2>1. CASE BeginTurn(r)
    <3>1. pc' \in [Runners -> Steps] /\ tools' \in [Runners -> 0 .. MaxTools]
      BY <1>0, <1>1, <2>1 DEF BeginTurn, Steps
    <3> QED
      BY <1>0, <2>1, <3>1 DEF BeginTurn, TypeOK, taskVars, histVars, Steps
  <2>0. pc["main"] # "idle" => handling \in Arrivals
    BY <1>0 DEF Handled, TypeOK
  <2>2. ASSUME NEW way \in {"message", "elsewhere"}, SendMessage(r, way) PROVE TypeOK'
    <3>1. pc' \in [Runners -> Steps] /\ tools' \in [Runners -> 0 .. MaxTools]
      BY <1>3, <2>2 DEF SendMessage, Steps
    <3>2. heard' \in [Arrivals -> SUBSET Ways]
      BY <1>0, <2>0, <2>2, HeardFacts DEF SendMessage, CallTool, Ways
    <3> QED
      BY <1>0, <2>2, <3>1, <3>2 DEF SendMessage, TypeOK, taskVars, Steps
  <2>3. CASE MarkSent(r)
    <3>1. pc' \in [Runners -> Steps]
      BY <1>1, <2>3 DEF MarkSent, Steps
    <3> QED
      BY <1>0, <2>3, <3>1 DEF MarkSent, TypeOK, taskVars, histVars, Steps
  <2>4. CASE CallSpawn(r) \/ CallSubagent(r) \/ CallOther(r)
    <3>1. pc' \in [Runners -> Steps] /\ tools' \in [Runners -> 0 .. MaxTools]
      BY <1>3, <2>4 DEF CallSpawn, CallSubagent, CallOther, Steps
    <3> QED
      BY <1>0, <2>4, <3>1 DEF CallSpawn, CallSubagent, CallOther, TypeOK, taskVars, histVars, Steps
  <2>5. CASE Spawn(r)
    <3>1. pc' \in [Runners -> Steps]
      BY <1>1, <2>5 DEF Spawn, Steps
    <3>2. task' \in [Tasks -> TaskSteps]
      BY <1>0, <2>5 DEF Spawn, TaskSteps
    <3> QED
      BY <1>0, <2>5, <3>1, <3>2 DEF Spawn, TypeOK, histVars, Steps, TaskSteps
  <2>6. CASE ToolReturns(r) \/ EndTurn(r)
    <3>1. pc' \in [Runners -> Steps]
      BY <1>1, <2>6 DEF ToolReturns, EndTurn, Steps
    <3> QED
      BY <1>0, <2>6, <3>1 DEF ToolReturns, EndTurn, TypeOK, taskVars, histVars, Steps
  <2>7. CASE Delegate(r)
    <3>1. pc' \in [Runners -> Steps]
      BY <1>1, <2>7 DEF Delegate, Steps
    <3>2. heard' \in [Arrivals -> SUBSET Ways]
      BY <1>0, <2>0, <2>7, HeardFacts DEF Delegate, Ways
    <3> QED
      BY <1>0, <2>7, <3>1, <3>2 DEF Delegate, TypeOK, taskVars, Steps
  <2> QED
    BY <1>9, <2>1, <2>2, <2>3, <2>4, <2>5, <2>6, <2>7 DEF Turn, Calls, Proceeds
<1>10. ASSUME NEW k \in Tasks, Subagent(k) PROVE TypeOK'
  <2>1. ASSUME Len(inbound) < Cap
        PROVE  Append(inbound, k) \in Seq(Arrivals \cup Tasks) /\ Len(Append(inbound, k)) <= Cap
    BY <1>0, <2>1, AppendFacts
  <2>2. CASE StartTask(k)
    <3>1. task' \in [Tasks -> TaskSteps]
      BY <1>2, <2>2 DEF StartTask, TaskSteps
    <3> QED
      BY <1>0, <2>2, <3>1 DEF StartTask, TypeOK, turnVars, histVars, TaskSteps
  <2>3. CASE FinishTask(k)
    <3>1. task' \in [Tasks -> TaskSteps]
      BY <1>2, <2>3 DEF FinishTask, TaskSteps
    <3>2. result' \in [Tasks -> Endings]
      BY <1>0, <2>3 DEF FinishTask, Endings
    <3> QED
      BY <1>0, <2>3, <3>1, <3>2 DEF FinishTask, TypeOK, turnVars, histVars, TaskSteps, Endings
  <2>4. CASE Announce(k)
    <3>1. task' \in [Tasks -> TaskSteps]
      BY <1>2, <2>4 DEF Announce, TaskSteps
    <3> QED
      BY <1>0, <2>1, <2>4, <3>1 DEF Announce, TypeOK, turnVars, histVars, TaskSteps
  <2>5. CASE Tell(k)
    <3>1. task' \in [Tasks -> TaskSteps] /\ told' \in [Tasks -> Nat]
      BY <1>0, <1>2, <2>5 DEF Tell, TaskSteps
    <3> QED
      BY <1>0, <2>5, <3>1 DEF Tell, TypeOK, turnVars, histVars, TaskSteps
  <2>6. CASE Notify(k)
    <3>1. task' \in [Tasks -> TaskSteps]
      BY <1>2, <2>6 DEF Notify, TaskSteps
    <3> QED
      BY <1>0, <2>1, <2>6, <3>1 DEF Notify, TypeOK, turnVars, histVars, TaskSteps
  <2>7. CASE SubagentWrites(k)
    <3>1. heard' \in [Arrivals -> SUBSET Ways]
      BY <1>0, <2>7, HeardFacts DEF SubagentWrites, TypeOK, Ways
    <3> QED
      BY <1>0, <2>7, <3>1 DEF SubagentWrites, TypeOK, turnVars, taskVars
  <2> QED
    BY <1>10, <2>2, <2>3, <2>4, <2>5, <2>6, <2>7 DEF Subagent, Ends, Reports
<1> QED
  BY <1>5, <1>6, <1>7, <1>8, <1>9, <1>10 DEF Next

-----------------------------------------------------------------------------
\* The queue.

LEMMA QueuedAppend ==
    ASSUME LoopInv, NEW k \in Tasks, inbound' = Append(inbound, k),
           UNCHANGED <<arrived, handling, finished>>
    PROVE  Queued'
<1>1. inbound \in Seq(Arrivals \cup Tasks) /\ Queued /\ k \notin Arrivals
  BY NameAssumption DEF LoopInv, TypeOK
<1>2. /\ Len(inbound') = Len(inbound) + 1 /\ Len(inbound) \in Nat
      /\ \A i \in 1 .. Len(inbound) : inbound'[i] = inbound[i]
      /\ inbound'[Len(inbound) + 1] = k
  BY <1>1, AppendFacts
<1>3. \A i \in 1 .. Len(inbound') : inbound'[i] \in Arrivals => i \in 1 .. Len(inbound)
  BY <1>1, <1>2
<1> QED
  BY <1>1, <1>2, <1>3 DEF Queued

LEMMA QueuedTail ==
    ASSUME LoopInv, inbound # <<>>, inbound' = Tail(inbound),
           UNCHANGED <<arrived, finished>>,
           handling' \in {handling, Head(inbound)}
    PROVE  Queued'
<1>1. inbound \in Seq(Arrivals \cup Tasks) /\ Queued
  BY DEF LoopInv, TypeOK
<1>2. /\ Len(inbound') = Len(inbound) - 1 /\ Len(inbound) \in Nat \ {0}
      /\ \A i \in 1 .. Len(inbound') : inbound'[i] = inbound[i + 1]
      /\ Head(inbound) = inbound[1]
  BY <1>1, HeadTailProperties
<1>3. \A i \in 1 .. Len(inbound') : i + 1 \in 1 .. Len(inbound) /\ i + 1 # 1 /\ 1 \in 1 .. Len(inbound)
  BY <1>2
<1>4. ASSUME NEW i \in 1 .. Len(inbound'), inbound'[i] \in Arrivals
      PROVE  inbound'[i] \in arrived /\ inbound'[i] \notin finished /\ inbound'[i] # handling'
  <2>1. inbound[i + 1] \in arrived /\ inbound[i + 1] \notin finished /\ inbound[i + 1] # handling
    BY <1>1, <1>2, <1>3, <1>4 DEF Queued
  <2>2. inbound[i + 1] # inbound[1]
    BY <1>1, <1>2, <1>3, <1>4 DEF Queued
  <2> QED
    BY <1>2, <1>4, <2>1, <2>2
<1>5. ASSUME NEW i \in 1 .. Len(inbound'), NEW j \in 1 .. Len(inbound'),
             inbound'[i] \in Arrivals, inbound'[i] = inbound'[j]
      PROVE  i = j
  <2>1. i + 1 = j + 1
    BY <1>1, <1>2, <1>3, <1>5 DEF Queued
  <2> QED
    BY <1>2, <1>5, <2>1
<1> QED
  BY <1>4, <1>5 DEF Queued

\* What no step of a turn changes.
LEMMA TurnKeeps ==
    ASSUME NEW r \in Runners, Turn(r)
    PROVE  /\ UNCHANGED <<inbound, arrived, handling, finished, mixed, sideTurns>>
           /\ task' = task \/ Spawn(r)
           /\ result' = result /\ told' = told
<1>1. CASE BeginTurn(r) \/ MarkSent(r) \/ Spawn(r) \/ Delegate(r)
  BY <1>1 DEF BeginTurn, MarkSent, Spawn, Delegate, histVars, taskVars
<1>2. CASE CallSpawn(r) \/ CallSubagent(r) \/ CallOther(r) \/ ToolReturns(r) \/ EndTurn(r)
  BY <1>2 DEF CallSpawn, CallSubagent, CallOther, ToolReturns, EndTurn, histVars, taskVars
<1>3. ASSUME NEW way \in {"message", "elsewhere"}, SendMessage(r, way)
      PROVE  UNCHANGED <<inbound, arrived, handling, finished, mixed, sideTurns, taskVars>>
  BY <1>3 DEF SendMessage
<1> QED
  BY <1>1, <1>2, <1>3 DEF Turn, Calls, Proceeds, taskVars

\* Where the program counter of a turn goes.
LEMMA TurnMoves ==
    ASSUME pc \in [Runners -> Steps], NEW r \in Runners, Turn(r)
    PROVE  /\ pc[r] # "idle"
           /\ \A t \in Runners \ {r} : pc'[t] = pc[t]
           /\ r = "main" => pc'[r] # "idle"
<1>1. ASSUME NEW at, Goto(r, at), pc[r] # "idle", r = "main" => at # "idle"
      PROVE  /\ pc[r] # "idle"
             /\ \A t \in Runners \ {r} : pc'[t] = pc[t]
             /\ r = "main" => pc'[r] # "idle"
  BY <1>1 DEF Goto
<1>2. CASE BeginTurn(r) \/ MarkSent(r) \/ Spawn(r) \/ Delegate(r) \/ ToolReturns(r)
  BY <1>1, <1>2 DEF BeginTurn, MarkSent, Spawn, Delegate, ToolReturns
<1>3. CASE CallSpawn(r) \/ CallSubagent(r) \/ CallOther(r)
  BY <1>1, <1>3 DEF CallSpawn, CallSubagent, CallOther, CallTool
<1>4. ASSUME NEW way \in {"message", "elsewhere"}, SendMessage(r, way)
      PROVE  Goto(r, "mark") /\ pc[r] # "idle"
  BY <1>4 DEF SendMessage, CallTool
<1>5. CASE EndTurn(r)
  BY <1>1, <1>5 DEF EndTurn
<1> QED
  BY <1>1, <1>2, <1>3, <1>4, <1>5 DEF Turn, Calls, Proceeds

LEMMA StepQueued == LoopInv /\ [Next]_vars => Queued'
<1> SUFFICES ASSUME LoopInv, [Next]_vars PROVE Queued'
  OBVIOUS
<1>0. inbound \in Seq(Arrivals \cup Tasks) /\ Queued /\ Handled
  BY DEF LoopInv, TypeOK
<1>1. CASE UNCHANGED <<inbound, arrived, handling, finished>>
  BY <1>0, <1>1 DEF Queued
<1>2. ASSUME NEW m \in Arrivals, Arrive(m) PROVE Queued'
  <2>1. /\ m \notin arrived /\ m \notin finished /\ m # handling
        /\ arrived' = arrived \cup {m} /\ handling' = handling /\ finished' = finished
    BY <1>0, <1>2, NameAssumption DEF Arrive, Handled, turnVars, histVars
  <2>2. /\ Len(inbound') = Len(inbound) + 1 /\ Len(inbound) \in Nat
        /\ \A i \in 1 .. Len(inbound) : inbound'[i] = inbound[i]
        /\ inbound'[Len(inbound) + 1] = m
    BY <1>0, <1>2, AppendFacts DEF Arrive
  <2>3. \A i \in 1 .. Len(inbound) : inbound[i] # m
    BY <1>0, <1>2, <2>1 DEF Queued
  <2>4. \A i \in 1 .. Len(inbound') : i \in 1 .. Len(inbound) \/ i = Len(inbound) + 1
    BY <2>2
  <2> QED
    BY <1>0, <2>1, <2>2, <2>3, <2>4 DEF Queued
<1>3. CASE ConsumeSystem \/ Consume
  BY <1>3, QueuedTail DEF ConsumeSystem, Consume, turnVars, histVars
<1>4. CASE Reply
  BY <1>0, <1>4, NameAssumption DEF Reply, Queued
<1>5. ASSUME NEW k \in Tasks, Announce(k) \/ Notify(k) PROVE Queued'
  BY <1>5, QueuedAppend DEF Announce, Notify, turnVars, histVars
<1>6. ASSUME NEW k \in Tasks, StartTask(k) \/ SubagentWrites(k) \/ FinishTask(k) \/ Tell(k)
      PROVE  Queued'
  BY <1>1, <1>6 DEF StartTask, SubagentWrites, FinishTask, Tell, turnVars, histVars
<1>7. ASSUME NEW s \in Sides, BeginSide(s) PROVE Queued'
  BY <1>1, <1>7 DEF BeginSide
<1>8. ASSUME NEW r \in Runners, Turn(r) PROVE Queued'
  BY <1>1, <1>8, TurnKeeps
<1> QED
  BY <1>1, <1>2, <1>3, <1>4, <1>5, <1>6, <1>7, <1>8
     DEF Next, Main, Subagent, Ends, Reports, vars, turnVars, histVars

-----------------------------------------------------------------------------
\* The message in hand.

LEMMA SubagentKeeps ==
    ASSUME NEW k \in Tasks, Subagent(k)
    PROVE  UNCHANGED <<arrived, handling, pc, sentInRound, finished, mixed>>
  BY DEF Subagent, Ends, Reports, StartTask, SubagentWrites, FinishTask, Announce, Tell, Notify,
         turnVars, histVars

LEMMA StepHandled == LoopInv /\ [Next]_vars => Handled'
<1> SUFFICES ASSUME LoopInv, [Next]_vars PROVE Handled'
  OBVIOUS
<1>0. /\ inbound \in Seq(Arrivals \cup Tasks) /\ Queued /\ Handled /\ pc \in [Runners -> Steps]
      /\ "main" \in Runners /\ "main" \notin Sides /\ Sides \subseteq Runners /\ NoMsg \notin Arrivals
  BY NameAssumption DEF LoopInv, TypeOK, Steps, Runners
<1>1. ASSUME UNCHANGED <<handling, finished, Replied, Messaged, mixed>>,
             pc'["main"] = "idle" <=> pc["main"] = "idle", arrived \subseteq arrived'
      PROVE  Handled'
  BY <1>0, <1>1 DEF Handled
<1>2. CASE UNCHANGED vars
  BY <1>1, <1>2, NothingHeard DEF vars, turnVars, histVars
<1>3. ASSUME NEW m \in Arrivals, Arrive(m) PROVE Handled'
  BY <1>1, <1>3, NothingHeard DEF Arrive, turnVars, histVars
<1>4. CASE ConsumeSystem
  BY <1>1, <1>4, NothingHeard DEF ConsumeSystem, turnVars, histVars
<1>5. CASE Consume
  <2>1. Head(inbound) = inbound[1] /\ 1 \in 1 .. Len(inbound)
    BY <1>0, <1>5 DEF Consume
  <2>2. /\ Head(inbound) \in arrived /\ Head(inbound) \notin finished /\ Head(inbound) # NoMsg
        /\ handling = NoMsg /\ handling' = Head(inbound)
    BY <1>0, <1>5, <2>1 DEF Consume, Queued, Handled
  <2>3. NoMsg \notin Messaged /\ NoMsg \notin mixed
    BY NameAssumption DEF LoopInv, TypeOK, Messaged
  <2>4. pc'["main"] # "idle"
    BY <1>0, <1>5 DEF Consume, Goto
  <2> QED
    BY <1>0, <1>5, <2>2, <2>3, <2>4, NothingHeard DEF Consume, Handled
<1>6. CASE Reply
  <2>1. pc'["main"] = "idle" /\ handling # NoMsg
    BY <1>0, <1>6 DEF Reply, Goto, Handled
  <2>2. Replied' \subseteq Replied \cup {handling} /\ Messaged' = Messaged
    BY <1>6, <2>1, HeardFacts, NothingHeard DEF LoopInv, TypeOK, Reply, Ways
  <2> QED
    BY <1>0, <1>6, <2>1, <2>2 DEF Reply, Handled
<1>7. ASSUME NEW s \in Sides, BeginSide(s) PROVE Handled'
  <2>1. pc'["main"] = pc["main"]
    BY <1>0, <1>7 DEF BeginSide, Goto
  <2> QED
    BY <1>0, <1>7, <2>1, NothingHeard DEF BeginSide, Handled
<1>8. ASSUME NEW r \in Runners, Turn(r) PROVE Handled'
  <2>1. pc'["main"] = "idle" <=> pc["main"] = "idle"
    BY <1>0, <1>8, TurnMoves
  <2>2. UNCHANGED <<arrived, handling, finished, mixed>>
    BY <1>8, TurnKeeps
  <2>3. Replied' = Replied
    BY <1>8, TurnHeard
  <2>4. Messaged' = Messaged \/ Messaged' = Messaged \cup {handling}
    BY <1>8, TurnHeard
  <2> QED
    BY <1>0, <2>1, <2>2, <2>3, <2>4 DEF Handled
<1>9. ASSUME NEW k \in Tasks, Subagent(k) PROVE Handled'
  <2>1. UNCHANGED <<arrived, handling, pc, finished, mixed>>
    BY <1>9, SubagentKeeps
  <2> QED
    BY <1>1, <1>9, <2>1, SubagentHeard
<1> QED
  BY <1>2, <1>3, <1>4, <1>5, <1>6, <1>7, <1>8, <1>9 DEF Next, Main

-----------------------------------------------------------------------------
\* The tracker.

LEMMA StepTracked == LoopInv /\ [Next]_vars => Tracked'
<1> SUFFICES ASSUME LoopInv, [Next]_vars PROVE Tracked'
  OBVIOUS
<1>0. /\ Handled /\ Tracked /\ pc \in [Runners -> Steps] /\ sentInRound \in BOOLEAN
      /\ "main" \in Runners /\ "main" \notin Sides /\ Sides \subseteq Runners /\ NoMsg \notin Arrivals
      /\ \A s \in Sides : s # "main"
      /\ mixed \subseteq Arrivals
  BY NameAssumption DEF LoopInv, TypeOK, Steps, Runners
<1>1. CASE UNCHANGED <<handling, pc, sentInRound, Messaged, mixed>>
  BY <1>0, <1>1 DEF Tracked
<1>2. ASSUME NEW m \in Arrivals, Arrive(m) PROVE Tracked'
  BY <1>1, <1>2, NothingHeard DEF Arrive, turnVars, histVars
<1>3. CASE ConsumeSystem
  BY <1>1, <1>3, NothingHeard DEF ConsumeSystem, turnVars, histVars
<1>4. CASE Consume
  <2>1. SUFFICES ASSUME handling' \notin Commands, handling' \notin mixed'
                 PROVE  /\ \A s \in Sides : pc'[s] = "idle"
                        /\ pc'["main"] = "start" /\ handling' \notin Messaged'
    BY <2>1 DEF Tracked
  <2>2. /\ handling' = Head(inbound) /\ Messaged' = Messaged /\ ~SideBusy
        /\ pc' = [pc EXCEPT !["main"] = "start"]
    BY <1>4, <2>1, NothingHeard DEF Consume, Goto
  <2>3. Head(inbound) \notin Messaged
    <3>1. Head(inbound) = inbound[1] /\ 1 \in 1 .. Len(inbound)
      BY <1>4 DEF LoopInv, TypeOK, Consume
    <3>2. Head(inbound) \notin finished /\ Head(inbound) # handling
      BY <1>4, <3>1 DEF LoopInv, Queued, Consume
    <3> QED
      BY <1>0, <3>2 DEF Handled
  <2> QED
    BY <1>0, <2>2, <2>3 DEF SideBusy
<1>5. CASE Reply
  BY <1>0, <1>5 DEF Reply, Tracked
<1>6. ASSUME NEW s \in Sides, BeginSide(s) PROVE Tracked'
  <2>1. handling' \in mixed' \/ handling' = NoMsg
    BY <1>6 DEF BeginSide
  <2> QED
    BY <1>0, <2>1 DEF Tracked
\* A step of a turn beside Run: then the message in hand, if any, is mixed.
<1>7. ASSUME NEW s \in Sides, Turn(s) PROVE Tracked'
  <2>1. pc[s] # "idle" /\ handling' = handling /\ mixed' = mixed
    BY <1>0, <1>7, TurnKeeps, TurnMoves
  <2> QED
    BY <1>0, <2>1 DEF Tracked
\* A step of Run's own turn.
<1>8. CASE Turn("main")
  <2>1. SUFFICES ASSUME handling \in Arrivals \ (Commands \cup mixed)
                 PROVE  /\ pc'["main"] = "start" => handling \notin Messaged'
                        /\ pc'["main"] = "mark" => handling \in Messaged'
                        /\ pc'["main"] \in {"llm", "spawn", "delegate", "tool", "reply"}
                              => (sentInRound' <=> handling \in Messaged')
    <3>1. handling' = handling /\ mixed' = mixed /\ \A s \in Sides : pc'[s] = pc[s]
      BY <1>0, <1>8, TurnKeeps, TurnMoves
    <3> QED
      BY <1>0, <2>1, <3>1 DEF Tracked
  <2>2. /\ pc["main"] = "start" => handling \notin Messaged
        /\ pc["main"] = "mark" => handling \in Messaged
        /\ pc["main"] \in {"llm", "spawn", "delegate", "tool", "reply"}
              => (sentInRound <=> handling \in Messaged)
    BY <1>0, <2>1 DEF Tracked
  <2>3. CASE BeginTurn("main")
    <3>1. pc'["main"] = "llm" /\ sentInRound' = FALSE /\ handling \notin Messaged'
      BY <1>0, <2>2, <2>3, NothingHeard DEF BeginTurn, Goto, histVars
    <3> QED
      BY <3>1
  <2>4. ASSUME NEW way \in {"message", "elsewhere"}, SendMessage("main", way)
        PROVE  pc'["main"] = "mark" /\ handling \in Messaged'
    <3>1. pc'["main"] = "mark"
      BY <1>0, <2>4 DEF SendMessage, CallTool, Goto
    <3>2. Hears(handling, way) /\ TypeOK
      BY <2>4 DEF SendMessage, LoopInv
    <3>3. handling \in Messaged'
      BY <2>1, <3>2, HeardFacts DEF Ways
    <3> QED
      BY <3>1, <3>3
  <2>5. CASE MarkSent("main")
    <3>1. pc'["main"] = "llm" /\ sentInRound' = TRUE /\ handling \in Messaged'
      BY <1>0, <2>2, <2>5, NothingHeard DEF MarkSent, Goto, histVars
    <3> QED
      BY <3>1
  <2>6. ASSUME CallSpawn("main") \/ CallSubagent("main") \/ CallOther("main")
                  \/ Spawn("main") \/ Delegate("main") \/ ToolReturns("main") \/ EndTurn("main")
        PROVE  /\ pc["main"] \in {"llm", "spawn", "delegate", "tool"}
               /\ pc'["main"] \in {"llm", "spawn", "delegate", "tool", "reply"}
               /\ sentInRound' = sentInRound
    <3>1. CASE CallSpawn("main") \/ CallSubagent("main") \/ CallOther("main")
      BY <1>0, <3>1 DEF CallSpawn, CallSubagent, CallOther, CallTool, Goto
    <3>2. CASE Spawn("main") \/ Delegate("main") \/ ToolReturns("main") \/ EndTurn("main")
      BY <1>0, <3>2 DEF Spawn, Delegate, ToolReturns, EndTurn, Goto
    <3> QED
      BY <2>6, <3>1, <3>2
  <2>7. ASSUME CallSpawn("main") \/ CallSubagent("main") \/ CallOther("main")
                  \/ Spawn("main") \/ Delegate("main") \/ ToolReturns("main") \/ EndTurn("main")
        PROVE  Messaged' = Messaged
    <3>1. ~ \E way \in {"message", "elsewhere"} : SendMessage("main", way)
      <4>1. CASE pc'["main"] # "mark"
        BY <1>0, <4>1 DEF SendMessage, CallTool, Goto
      <4> QED
        BY <2>6, <2>7, <4>1
    <3> QED
      BY <1>0, <1>8, <3>1, TurnHeard
  <2>8. CASE \/ CallSpawn("main") \/ CallSubagent("main") \/ CallOther("main")
             \/ Spawn("main") \/ Delegate("main") \/ ToolReturns("main") \/ EndTurn("main")
    BY <2>2, <2>6, <2>7, <2>8
  <2>9. CASE \E way \in {"message", "elsewhere"} : SendMessage("main", way)
    <3>1. pc'["main"] = "mark" /\ handling \in Messaged'
      BY <2>4, <2>9
    <3> QED
      BY <3>1
  <2> QED
    BY <1>8, <2>3, <2>5, <2>8, <2>9 DEF Turn, Calls, Proceeds
<1>9. ASSUME NEW k \in Tasks, Subagent(k) PROVE Tracked'
  BY <1>1, <1>9, SubagentKeeps, SubagentHeard
<1>10. CASE UNCHANGED vars
  BY <1>1, <1>10, NothingHeard DEF vars, turnVars, histVars
<1> QED
  BY <1>2, <1>3, <1>4, <1>5, <1>6, <1>7, <1>8, <1>9, <1>10
     DEF Next, Main, Runners

\* What was said of finished messages does not change, and the reply settles it
\* for the one in hand.
LEMMA StepAnswered == LoopInv /\ [Next]_vars => EitherWay'
<1> SUFFICES ASSUME LoopInv, [Next]_vars PROVE EitherWay'
  OBVIOUS
<1>0. /\ Handled /\ Tracked /\ EitherWay /\ NoMsg \notin Arrivals
      /\ handling \in Arrivals \cup {NoMsg} /\ sentInRound \in BOOLEAN
  BY NameAssumption DEF LoopInv, TypeOK
<1>1. ASSUME finished' = finished, Replied' = Replied, mixed \subseteq mixed',
             Messaged' \ {handling} = Messaged \ {handling}
      PROVE  EitherWay'
  <2>1. SUFFICES ASSUME NEW m \in finished \ (Commands \cup mixed')
                 PROVE  (m \in Replied) # (m \in Messaged')
    BY <1>1, <2>1 DEF EitherWay
  <2>2. m # handling
    BY <1>0, <2>1 DEF LoopInv, TypeOK, Handled
  <2>3. m \in Messaged' <=> m \in Messaged
    BY <1>1, <2>2
  <2>4. (m \in Replied) # (m \in Messaged)
    BY <1>0, <1>1, <2>1 DEF EitherWay
  <2> QED
    BY <2>3, <2>4
<1>2. CASE Reply
  <2>1. /\ finished' = finished \cup {handling} /\ mixed' = mixed /\ Messaged' = Messaged
        /\ Replied' = IF sentInRound THEN Replied ELSE Replied \cup {handling}
        /\ pc["main"] = "reply" /\ handling # NoMsg
    <3>1. pc["main"] = "reply" /\ handling \in Arrivals /\ TypeOK
      BY <1>0, <1>2 DEF LoopInv, Reply, Handled
    <3> QED
      BY <1>0, <1>2, <3>1, HeardFacts, NothingHeard DEF Reply, Ways
  <2>2. SUFFICES ASSUME NEW m \in finished' \ (Commands \cup mixed)
                 PROVE  (m \in Replied') # (m \in Messaged)
    BY <2>1, <2>2 DEF EitherWay
  <2>3. CASE m = handling
    <3>1. handling \in Arrivals \ (Commands \cup mixed)
      BY <1>0, <2>1, <2>2, <2>3
    <3>2. sentInRound <=> handling \in Messaged
      BY <1>0, <2>1, <3>1 DEF Tracked
    <3>3. handling \notin Replied
      BY <1>0, <2>1 DEF Handled
    <3>4. handling \in Replied' <=> ~sentInRound
      BY <1>0, <2>1, <3>3
    <3> QED
      BY <2>3, <3>2, <3>4
  <2>4. CASE m # handling
    <3>1. m \in finished \ (Commands \cup mixed)
      BY <2>1, <2>2, <2>4
    <3>2. (m \in Replied) # (m \in Messaged)
      BY <1>0, <3>1 DEF EitherWay
    <3>3. m \in Replied' <=> m \in Replied
      BY <2>1, <2>4
    <3> QED
      BY <3>2, <3>3
  <2> QED
    BY <2>3, <2>4
<1>3. CASE UNCHANGED vars
  BY <1>1, <1>3, NothingHeard DEF vars, histVars
<1>4. ASSUME NEW m \in Arrivals, Arrive(m) PROVE EitherWay'
  BY <1>1, <1>4, NothingHeard DEF Arrive, histVars
<1>5. CASE ConsumeSystem \/ Consume
  BY <1>1, <1>5, NothingHeard DEF ConsumeSystem, Consume, histVars
<1>6. ASSUME NEW s \in Sides, BeginSide(s) PROVE EitherWay'
  BY <1>1, <1>6, NothingHeard DEF BeginSide
<1>7. ASSUME NEW r \in Runners, Turn(r) PROVE EitherWay'
  BY <1>1, <1>7, TurnKeeps, TurnHeard
<1>8. ASSUME NEW k \in Tasks, Subagent(k) PROVE EitherWay'
  BY <1>1, <1>8, SubagentKeeps, SubagentHeard
<1> QED
  BY <1>2, <1>3, <1>4, <1>5, <1>6, <1>7, <1>8 DEF Next, Main

\* Only the callback tells the user of a task, and only of one that completed.
LEMMA StepTold == LoopInv /\ [Next]_vars => Told'
<1> SUFFICES ASSUME LoopInv, [Next]_vars PROVE Told'
  OBVIOUS
<1>0. Told /\ told \in [Tasks -> Nat] /\ result \in [Tasks -> Endings] /\ task \in [Tasks -> TaskSteps]
  BY DEF LoopInv, TypeOK, TaskSteps, Endings
<1>1. CASE UNCHANGED <<task, result, told>>
  BY <1>0, <1>1 DEF Told
<1>2. ASSUME NEW k \in Tasks, StartTask(k) \/ Announce(k) \/ Notify(k) PROVE Told'
  <2>1. /\ result' = result /\ told' = told /\ \A t \in Tasks : t # k => task'[t] = task[t]
        /\ task'[k] \in {"notify", "done"} <=> task[k] \in {"notify", "done"}
    BY <1>0, <1>2 DEF StartTask, Announce, Notify, Move
  <2> QED
    BY <1>0, <2>1 DEF Told
<1>3. ASSUME NEW k \in Tasks, FinishTask(k) PROVE Told'
  <2>1. /\ told' = told /\ \A t \in Tasks : t # k => task'[t] = task[t] /\ result'[t] = result[t]
        /\ task'[k] = "announce" /\ task[k] = "working"
    BY <1>0, <1>3 DEF FinishTask, Move
  <2> QED
    BY <1>0, <2>1 DEF Told
<1>4. ASSUME NEW k \in Tasks, Tell(k) PROVE Told'
  <2>1. /\ result' = result /\ \A t \in Tasks : t # k => task'[t] = task[t] /\ told'[t] = told[t]
        /\ task'[k] = "notify" /\ task[k] = "tell"
    BY <1>0, <1>4 DEF Tell, Move
  <2>2. told[k] = 0
    BY <1>0, <2>1 DEF Told
  <2>3. told'[k] = IF result[k] = "text" THEN 1 ELSE 0
    BY <1>0, <1>4, <2>2 DEF Tell
  <2> QED
    BY <1>0, <2>1, <2>3 DEF Told
<1>5. ASSUME NEW r \in Runners, Turn(r) PROVE Told'
  <2>1. CASE Spawn(r)
    <3>1. result' = result /\ told' = told
      BY <2>1 DEF Spawn
    <3>2. CASE task' = task
      BY <1>1, <3>1, <3>2
    <3>3. ASSUME NEW k \in Tasks, task[k] = "unused", task' = [task EXCEPT ![k] = "new"]
          PROVE  Told'
      <4>1. /\ \A t \in Tasks : t # k => task'[t] = task[t]
            /\ task'[k] = "new"
        BY <1>0, <3>3
      <4> QED
        BY <1>0, <3>1, <3>3, <4>1 DEF Told
    <3> QED
      BY <2>1, <3>2, <3>3 DEF Spawn
  <2> QED
    BY <1>1, <1>5, <2>1, TurnKeeps
<1>6. ASSUME NEW m \in Arrivals, Arrive(m) PROVE Told'
  BY <1>1, <1>6 DEF Arrive, taskVars
<1>7. ASSUME NEW s \in Sides, BeginSide(s) PROVE Told'
  BY <1>1, <1>7 DEF BeginSide, taskVars
<1>8. CASE Main
  BY <1>1, <1>8 DEF Main, ConsumeSystem, Consume, Reply, taskVars
<1>9. ASSUME NEW k \in Tasks, SubagentWrites(k) PROVE Told'
  BY <1>1, <1>9 DEF SubagentWrites, taskVars
<1> QED
  BY <1>1, <1>2, <1>3, <1>4, <1>5, <1>6, <1>7, <1>8, <1>9
     DEF Next, Subagent, Ends, Reports, vars, taskVars

-----------------------------------------------------------------------------
LEMMA Invariance == SafeSpec => []LoopInv
<1>1. LoopInv /\ [Next]_vars => LoopInv'
  BY StepType, StepQueued, StepHandled, StepTracked, StepAnswered, StepTold DEF LoopInv
<1> QED
  BY InitInv, <1>1, PTL DEF SafeSpec

\* Types, and the inbound queue never exceeds its capacity.
THEOREM TypeCorrect == SafeSpec => []TypeOK
<1>1. LoopInv => TypeOK
  BY DEF LoopInv
<1> QED
  BY Invariance, <1>1, PTL

\* A message that no other turn overlaps, and that is no slash command, gets the
\* response exactly if the message tool of its turn sent nothing, and never both:
\* nothing of an earlier round, and nothing a subagent writes, decides it.
THEOREM AnsweredOnce == SafeSpec => []LoneTurnAnswered
<1>1. LoopInv => LoneTurnAnswered
  <2> SUFFICES ASSUME LoopInv, NEW m \in finished \ (Commands \cup mixed)
               PROVE  heard[m] \ {"subagent"} \in OneAnswer
    BY DEF LoneTurnAnswered
  <2>1. m \in Arrivals /\ heard[m] \subseteq Ways /\ (m \in Replied) # (m \in Messaged)
    BY DEF LoopInv, TypeOK, EitherWay
  <2>2. CASE "reply" \in heard[m]
    <3>1. heard[m] \ {"subagent"} = {"reply"}
      BY <2>1, <2>2 DEF Replied, Messaged, Ways
    <3> QED
      BY <3>1 DEF OneAnswer
  <2>3. CASE "reply" \notin heard[m]
    <3>1. heard[m] \ {"subagent"} \in {{"message"}, {"elsewhere"}, {"message", "elsewhere"}}
      BY <2>1, <2>3 DEF Replied, Messaged, Ways
    <3> QED
      BY <3>1 DEF OneAnswer
  <2> QED
    BY <2>2, <2>3
<1> QED
  BY Invariance, <1>1, PTL

\* The callback of spawn publishes the text of a subagent to the user once, and
\* nothing of one that failed or has none; the announcement and the second system
\* message add nothing to it.
THEOREM ResultOnce == SafeSpec => []ResultToldOnce
<1>1. LoopInv => ResultToldOnce
  BY DEF LoopInv, TypeOK, Told, ResultToldOnce
<1> QED
  BY Invariance, <1>1, PTL
=============================================================================
