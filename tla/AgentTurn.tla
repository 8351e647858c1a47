------------------------------ MODULE AgentTurn ------------------------------
(***************************************************************************)
(* One turn of the agent, runLLMIteration (pkg/agent/loop.go): rounds of   *)
(* an LLM call, retried and with a compressed history when it fails, and   *)
(* of tool calls that run in parallel, a call made over and over being     *)
(* refused.  A message is its role, the round it belongs to and, for a     *)
(* result, the position of its call; a tool call is its name and arguments.*)
(***************************************************************************)
EXTENDS Naturals, Sequences, FiniteSets

CONSTANTS
    Keys,       \* tool calls: name and arguments
    MaxIter,    \* al.maxIterations
    Past,       \* messages of the session's history in the request
    MaxCalls    \* bound: tool calls of one round

ASSUME SizeAssumption ==
    MaxIter \in Nat \ {0} /\ Past \in Nat /\ MaxCalls \in Nat

MaxRetries == 3
Repeats == 2        \* how often the same call is executed in a turn

Roles == {"system", "chat", "calls", "tool"}
Message == [role : Roles, round : Nat, n : Nat]
Msg(role, round, n) == [role |-> role, round |-> round, n |-> n]

VARIABLES
    messages,   \* the request
    iteration,  \* the round, from 1
    retry,      \* retries of this round's LLM call
    offered,    \* the request carries the tool definitions
    pc,         \* "llm", "tools", "done" or "failed"
    calls,      \* tool calls of this round
    status,     \* of each: "hit" (refused), "ready", "running", "ended"
    recent,     \* recentToolCalls
    executed,   \* history: how often each call was executed
    cut         \* history: the request was compressed

vars == <<messages, iteration, retry, offered, pc, calls, status, recent, executed, cut>>

Rounds == UNION {[1 .. k -> Keys] : k \in 1 .. MaxCalls}

Init ==
    /\ messages = <<Msg("system", 0, 0)>> \o [i \in 1 .. Past + 1 |-> Msg("chat", 0, 0)]
    /\ iteration = 1 /\ retry = 0 /\ offered = TRUE /\ pc = "llm"
    /\ calls = <<>> /\ status = <<>>
    /\ recent = [k \in Keys |-> 0] /\ executed = [k \in Keys |-> 0]
    /\ cut = FALSE

-----------------------------------------------------------------------------
\* The LLM call.

\* Mutant of Again: the last retry is retried too.
AgainWithoutLimit ==
    /\ pc = "llm" /\ retry <= MaxRetries
    /\ retry' = retry + 1
    /\ UNCHANGED <<messages, iteration, offered, pc, calls, status, recent, executed, cut>>

\* A rate limit or a transient failure: the call is made again after a pause.
Again ==
    /\ pc = "llm" /\ retry < MaxRetries
    /\ retry' = retry + 1
    /\ UNCHANGED <<messages, iteration, offered, pc, calls, status, recent, executed, cut>>

\* Mutant of Latest: off by one.
LatestButOne(k) == SubSeq(messages, Len(messages) - k, Len(messages) - 1)

\* The last k messages.
Latest(k) == SubSeq(messages, Len(messages) - k + 1, Len(messages))

\* The system prompt and a quarter of the messages, then only two of them.
Compressed ==
    CASE retry = 1 /\ Len(messages) > 4 -> <<messages[1]>> \o Latest(Len(messages) \div 4)
      [] retry = 2 /\ Len(messages) > 3 -> <<messages[1]>> \o Latest(2)
      [] OTHER -> messages

\* The request is too long: the first retry leaves out the tool definitions,
\* the next ones leave out messages.
Compress ==
    /\ pc = "llm" /\ retry < MaxRetries
    /\ retry' = retry + 1
    /\ offered' = (offered /\ retry # 0)
    /\ messages' = Compressed
    /\ cut' = (cut \/ Compressed # messages)
    /\ UNCHANGED <<iteration, pc, calls, status, recent, executed>>

\* Any other error, or no retry left.
GiveUp ==
    /\ pc = "llm"
    /\ pc' = "failed"
    /\ UNCHANGED <<messages, iteration, retry, offered, calls, status, recent, executed, cut>>

Answer ==
    /\ pc = "llm"
    /\ pc' = "done"
    /\ UNCHANGED <<messages, iteration, retry, offered, calls, status, recent, executed, cut>>

-----------------------------------------------------------------------------
\* The tool calls.

\* How often call number i of the round cs has been made by then, in the turn.
Made(cs, i) == recent[cs[i]] + Cardinality({j \in 1 .. i : cs[j] = cs[i]})

\* Mutant of CallTools: repeated calls are looked up before this round counts.
CallToolsCountLate(cs) ==
    /\ pc = "llm"
    /\ pc' = "tools" /\ calls' = cs
    /\ messages' = Append(messages, Msg("calls", iteration, Len(cs)))
    /\ status' = [i \in 1 .. Len(cs) |-> IF recent[cs[i]] >= Repeats THEN "hit" ELSE "ready"]
    /\ recent' = [k \in Keys |-> recent[k] + Cardinality({j \in 1 .. Len(cs) : cs[j] = k})]
    /\ UNCHANGED <<iteration, retry, offered, executed, cut>>

\* The loop that counts each call and starts a goroutine for it, or refuses it.
CallTools(cs) ==
    /\ pc = "llm"
    /\ pc' = "tools" /\ calls' = cs
    /\ messages' = Append(messages, Msg("calls", iteration, Len(cs)))
    /\ status' = [i \in 1 .. Len(cs) |-> IF Made(cs, i) > Repeats THEN "hit" ELSE "ready"]
    /\ recent' = [k \in Keys |-> recent[k] + Cardinality({j \in 1 .. Len(cs) : cs[j] = k})]
    /\ UNCHANGED <<iteration, retry, offered, executed, cut>>

StartTool(i) ==
    /\ pc = "tools" /\ status[i] = "ready"
    /\ status' = [status EXCEPT ![i] = "running"]
    /\ executed' = [executed EXCEPT ![calls[i]] = @ + 1]
    /\ UNCHANGED <<messages, iteration, retry, offered, pc, calls, recent, cut>>

\* A tool returns.  Nothing says it does: exec waits for whoever holds the output
\* of its command, spawn and subagent for a lock.
EndTool(i) ==
    /\ pc = "tools" /\ status[i] = "running"
    /\ status' = [status EXCEPT ![i] = "ended"]
    /\ UNCHANGED <<messages, iteration, retry, offered, pc, calls, recent, executed, cut>>

\* Mutant of Results: refused calls get no result message.
ResultsOfExecuted ==
    SelectSeq([i \in DOMAIN calls |-> Msg("tool", iteration, i)],
              LAMBDA m : status[m.n] # "hit")

\* One result message per call, in the order of the calls.
Results == [i \in DOMAIN calls |-> Msg("tool", iteration, i)]

\* Mutant of Collect: the next round inherits the retries and the definitions.
CollectInherits ==
    /\ pc = "tools" /\ \A i \in DOMAIN status : status[i] \in {"hit", "ended"}
    /\ messages' = messages \o Results
    /\ calls' = <<>> /\ status' = <<>>
    /\ retry' = 0
    /\ IF iteration < MaxIter
       THEN iteration' = iteration + 1 /\ pc' = "llm"
       ELSE pc' = "done" /\ UNCHANGED iteration
    /\ UNCHANGED <<offered, recent, executed, cut>>

\* Mutant of Collect: refused calls are waited for as well (an early wg.Add).
CollectWaitsForHits ==
    /\ pc = "tools" /\ \A i \in DOMAIN status : status[i] = "ended"
    /\ messages' = messages \o Results
    /\ calls' = <<>> /\ status' = <<>>
    /\ retry' = 0 /\ offered' = TRUE
    /\ IF iteration < MaxIter
       THEN iteration' = iteration + 1 /\ pc' = "llm"
       ELSE pc' = "done" /\ UNCHANGED iteration
    /\ UNCHANGED <<recent, executed, cut>>

\* wg.Wait, the results in order, and the next round with fresh retries and
\* tool definitions; after the last round the turn ends without an answer, for
\* which runAgentLoop has a default.
Collect ==
    /\ pc = "tools" /\ \A i \in DOMAIN status : status[i] \in {"hit", "ended"}
    /\ messages' = messages \o Results
    /\ calls' = <<>> /\ status' = <<>>
    /\ retry' = 0 /\ offered' = TRUE
    /\ IF iteration < MaxIter
       THEN iteration' = iteration + 1 /\ pc' = "llm"
       ELSE pc' = "done" /\ UNCHANGED iteration
    /\ UNCHANGED <<recent, executed, cut>>

-----------------------------------------------------------------------------
Llm == Again \/ Compress \/ GiveUp \/ Answer \/ \E cs \in Rounds : CallTools(cs)

Tools == Collect \/ \E i \in DOMAIN status : StartTool(i) \/ EndTool(i)

Next == Llm \/ Tools

\* Started goroutines run, and the turn goes on when all have ended.  Nothing is
\* assumed of the LLM call (a CLI provider waits for a process) or of a tool.
Fairness == WF_vars(Collect \/ \E i \in DOMAIN status : StartTool(i))

SafeSpec == Init /\ [][Next]_vars

Spec == SafeSpec /\ Fairness

-----------------------------------------------------------------------------
TypeOK ==
    /\ messages \in Seq(Message)
    /\ iteration \in 1 .. MaxIter /\ retry \in 0 .. MaxRetries
    /\ offered \in BOOLEAN /\ cut \in BOOLEAN
    /\ pc \in {"llm", "tools", "done", "failed"}
    /\ calls \in Seq(Keys)
    /\ status \in [DOMAIN calls -> {"hit", "ready", "running", "ended"}]
    /\ recent \in [Keys -> Nat] /\ executed \in [Keys -> Nat]

\* Every request begins with the system prompt, and holds it once, however
\* often it was compressed.
SystemFirst ==
    \A i \in DOMAIN messages : messages[i].role = "system" <=> i = 1

\* The same tool call is executed at most twice in a turn, also when one round
\* asks for it several times and the goroutines start in any order.
AtMostTwice == \A k \in Keys : executed[k] <= Repeats

\* A request that was not compressed pairs calls and results: the message with
\* the calls of a round is followed by the results of exactly these calls, in
\* their order, whichever of them ended first or were refused.
RoundsWhole ==
    pc = "llm" /\ ~cut =>
        \A i \in DOMAIN messages :
            /\ messages[i].role = "calls" =>
                 \A j \in 1 .. messages[i].n :
                    /\ i + j \in DOMAIN messages
                    /\ messages[i + j] = Msg("tool", messages[i].round, j)
            /\ messages[i].role = "tool" =>
                 LET c == i - messages[i].n
                 IN  /\ c \in DOMAIN messages
                     /\ messages[c].role = "calls" /\ messages[c].round = messages[i].round
                     /\ messages[i].n <= messages[c].n

\* A round that had to leave out the tool definitions does not leave the next
\* one without tools.
ToolsOfferedAgain == pc = "llm" /\ retry = 0 => offered

\* Compression never cuts off the newest message: the user's, or the results
\* that the LLM is to go on from.
NewestKept == [][retry' > retry => messages'[Len(messages')] = messages[Len(messages)]]_vars

\* One LLM call, or one running tool, never comes back.
LlmHangs == \E k \in 0 .. MaxRetries : <>[](pc = "llm" /\ retry = k)
ToolHangs ==
    \E i \in 1 .. MaxCalls : <>[](pc = "tools" /\ i \in DOMAIN status /\ status[i] = "running")

\* Nothing but those two keeps a turn from ending, whatever the LLM asks for: the
\* retries and the rounds run out, and no goroutine is waited for that was not
\* started.
TerminatesUnlessStuck == LlmHangs \/ ToolHangs \/ <>(pc \in {"done", "failed"})
=============================================================================
