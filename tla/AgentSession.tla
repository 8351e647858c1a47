---------------------------- MODULE AgentSession ----------------------------
(***************************************************************************)
(* One conversation of the agent: the session the SessionManager keeps in  *)
(* memory and on disk (pkg/session/manager.go), the turns that append to   *)
(* it (runAgentLoop, pkg/agent/loop.go) and the goroutine that a finished  *)
(* turn starts to summarize and truncate it while later turns run.         *)
(*                                                                         *)
(* A message is its number in the conversation and its role; a summary is  *)
(* the set of the messages it accounts for (tool traffic counts as         *)
(* accounted for: the summarizer skips it on purpose).                     *)
(***************************************************************************)
EXTENDS Naturals, Sequences, FiniteSets

CONSTANTS
    Sums,         \* goroutines that can run summarizeSession
    Keep,         \* messages a summarization keeps (4 in the code)
    Threshold,    \* summarizeMessageThreshold
    BigBatch,     \* above it a batch is summarized in two parts (10 in the code)
    Oversized,    \* numbers of the messages of more than half a context window
    MaxTurns,     \* bound: turns
    MaxRounds,    \* bound: rounds of tool calls in a turn
    MaxCalls,     \* bound: tool calls in a round
    MaxCrashes    \* bound: crashes

ASSUME SizeAssumption ==
    /\ Keep \in Nat \ {0} /\ Threshold \in Nat /\ BigBatch \in Nat
    /\ Oversized \subseteq Nat
    /\ MaxTurns \in Nat /\ MaxRounds \in Nat /\ MaxCalls \in Nat /\ MaxCrashes \in Nat

VARIABLES
    msgs,       \* session.Messages
    summary,    \* session.Summary
    last,       \* number of the last message of the conversation
    disk,       \* the session file
    turn,       \* where the turn is: idle, build, user, llm, tools, snap, rename, after
    request,    \* the history BuildMessages puts into the request
    left,       \* results the current round of tool calls still lacks
    callNo,     \* number of the message with those calls
    rounds,     \* rounds of tool calls in this turn
    turns, crashes,
    saving,     \* snapshot the turn's Save took
    sum,        \* where each summarizer is
    summarizing,\* the key is in al.summarizing
    seen,       \* history and summary each summarizer works from
    sumSaving   \* snapshot each summarizer's Save took

sessVars == <<msgs, summary, last, disk>>
turnVars == <<turn, request, left, callNo, rounds, turns, saving>>
sumVars == <<sum, summarizing, seen, sumSaving>>
vars == <<sessVars, turnVars, sumVars, crashes>>

Roles == {"user", "assistant", "calls", "tool"}
Message == [n : Nat, role : Roles, to : Nat, calls : Nat]
Session == [msgs : Seq(Message), summary : SUBSET Nat]
NoSession == [msgs |-> <<>>, summary |-> {}]

Numbers(s) == {s[i].n : i \in DOMAIN s}
InMemory == [msgs |-> msgs, summary |-> summary]

Init ==
    /\ msgs = <<>> /\ summary = {} /\ last = 0 /\ disk = NoSession
    /\ turn = "idle" /\ request = <<>> /\ left = 0 /\ callNo = 0 /\ rounds = 0
    /\ turns = 0 /\ crashes = 0 /\ saving = NoSession
    /\ sum = [s \in Sums |-> "idle"] /\ summarizing = FALSE
    /\ seen = [s \in Sums |-> NoSession]
    /\ sumSaving = [s \in Sums |-> NoSession]

\* AddFullMessage of the next message.
AddMessage(role, to, calls) ==
    /\ msgs' = Append(msgs, [n |-> last + 1, role |-> role, to |-> to, calls |-> calls])
    /\ last' = last + 1
    /\ UNCHANGED <<summary, disk>>

-----------------------------------------------------------------------------
\* A turn: runAgentLoop, with the rounds of runLLMIteration.

\* Mutant of Stripped: tool results at the start of the history are kept.
StrippedNothing(h) == h

\* BuildMessages drops the tool results at the start of the history, whose call
\* a truncation has cut off.
Stripped(h) ==
    LET first == CHOOSE i \in 1 .. Len(h) + 1 :
                    /\ i <= Len(h) => h[i].role # "tool"
                    /\ \A j \in 1 .. i - 1 : h[j].role = "tool"
    IN  SubSeq(h, first, Len(h))

BuildRequest ==
    /\ turn = "idle" /\ turns < MaxTurns
    /\ turns' = turns + 1
    /\ request' = Stripped(msgs)
    /\ turn' = "user" /\ rounds' = 0
    /\ UNCHANGED <<sessVars, left, callNo, saving, sumVars, crashes>>

AddUser ==
    /\ turn = "user"
    /\ AddMessage("user", 0, 0)
    /\ turn' = "llm"
    /\ UNCHANGED <<request, left, callNo, rounds, turns, saving, sumVars, crashes>>

EndTurn(at) ==
    /\ turn' = at
    /\ request' = <<>> /\ left' = 0 /\ callNo' = 0

\* The LLM call failed for good: the turn ends, nothing is saved.
LlmFails ==
    /\ turn = "llm"
    /\ EndTurn("idle")
    /\ UNCHANGED <<sessVars, rounds, turns, saving, sumVars, crashes>>

LlmCallsTools(k) ==
    /\ turn = "llm" /\ rounds < MaxRounds
    /\ AddMessage("calls", 0, k)
    /\ callNo' = last + 1 /\ left' = k
    /\ rounds' = rounds + 1
    /\ turn' = "tools"
    /\ UNCHANGED <<request, turns, saving, sumVars, crashes>>

\* Mutant of ToolResult: one result too many.
ToolResultExtra ==
    /\ turn = "tools"
    /\ AddMessage("tool", callNo, 0)
    /\ left' = left - 1
    /\ turn' = IF left = 0 THEN "llm" ELSE "tools"
    /\ UNCHANGED <<request, callNo, rounds, turns, saving, sumVars, crashes>>

\* The results of a round are added one by one, when all of them are there.
ToolResult ==
    /\ turn = "tools"
    /\ AddMessage("tool", callNo, 0)
    /\ left' = left - 1
    /\ turn' = IF left = 1 THEN "llm" ELSE "tools"
    /\ UNCHANGED <<request, callNo, rounds, turns, saving, sumVars, crashes>>

LlmAnswers ==
    /\ turn = "llm"
    /\ AddMessage("assistant", 0, 0)
    /\ EndTurn("snap")
    /\ UNCHANGED <<rounds, turns, saving, sumVars, crashes>>

\* Save: the snapshot under the read lock, and the file renamed into place later.
SaveSnapshot ==
    /\ turn = "snap"
    /\ saving' = InMemory
    /\ turn' = "rename"
    /\ UNCHANGED <<sessVars, request, left, callNo, rounds, turns, sumVars, crashes>>

\* The write may fail on the way; its error is ignored.
SaveRename ==
    /\ turn = "rename"
    /\ disk' \in {saving, disk}
    /\ saving' = NoSession
    /\ turn' = "after"
    /\ UNCHANGED <<msgs, summary, last, request, left, callNo, rounds, turns, sumVars, crashes>>

\* Mutant of MaybeSummarize: the check and the mark are not one step (Load, Store).
MaybeSummarizeUnguarded ==
    /\ turn = "after"
    /\ turn' = "idle"
    /\ IF Len(msgs) > Threshold
       THEN /\ summarizing' = TRUE
            /\ \E s \in Sums : sum[s] = "idle" /\ sum' = [sum EXCEPT ![s] = "read"]
       ELSE UNCHANGED <<sum, summarizing>>
    /\ UNCHANGED <<sessVars, request, left, callNo, rounds, turns, saving, seen, sumSaving, crashes>>

\* maybeSummarize: LoadOrStore starts at most one goroutine for the session.
MaybeSummarize ==
    /\ turn = "after"
    /\ turn' = "idle"
    /\ IF Len(msgs) > Threshold /\ ~summarizing
       THEN /\ summarizing' = TRUE
            /\ \E s \in Sums : sum[s] = "idle" /\ sum' = [sum EXCEPT ![s] = "read"]
       ELSE UNCHANGED <<sum, summarizing>>
    /\ UNCHANGED <<sessVars, request, left, callNo, rounds, turns, saving, seen, sumSaving, crashes>>

-----------------------------------------------------------------------------
\* A summarizer: summarizeSession.

Move(s, at) == sum' = [sum EXCEPT ![s] = at]

\* Histories of at most Keep messages are left alone.
SumRead(s) ==
    /\ sum[s] = "read"
    /\ seen' = [seen EXCEPT ![s] = InMemory]
    /\ Move(s, IF Len(msgs) <= Keep THEN "end" ELSE "llm")
    /\ UNCHANGED <<sessVars, turnVars, summarizing, sumSaving, crashes>>

\* Mutant of Batch: one message less is summarized than will be dropped.
BatchOffByOne(s) == SubSeq(seen[s].msgs, 1, Len(seen[s].msgs) - Keep - 1)

Batch(s) == SubSeq(seen[s].msgs, 1, Len(seen[s].msgs) - Keep)

Talk == {"user", "assistant", "calls"}

\* The oversized message guard: such messages of the batch are not summarized.
LeftOut(s) ==
    {Batch(s)[i].n : i \in {k \in DOMAIN Batch(s) :
                                Batch(s)[k].role \in Talk /\ Batch(s)[k].n \in Oversized}}

\* The messages of the batch that are summarized (by their place in it).
Spoken(s) ==
    {i \in DOMAIN Batch(s) : Batch(s)[i].role \in Talk /\ Batch(s)[i].n \notin Oversized}

\* The two parts of a big batch.
Halves(s) ==
    LET first == {i \in Spoken(s) :
                    Cardinality({j \in Spoken(s) : j <= i}) <= Cardinality(Spoken(s)) \div 2}
    IN  {first, Spoken(s) \ first}

\* The summaries that can be set: a batch in two parts is summarized without the
\* summary there was, and without a part whose LLM call failed.
NewSummaries(s) ==
    LET held == Numbers(Batch(s)) \ LeftOut(s)
    IN  IF Cardinality(Spoken(s)) > BigBatch
        THEN {held \ {Batch(s)[i].n : i \in UNION failed} : failed \in SUBSET Halves(s)}
        ELSE {held \cup seen[s].summary}

\* The LLM answers; with no answer, or with nothing to summarize, it all ends.
SumLlm(s) ==
    /\ sum[s] = "llm"
    /\ \/ Spoken(s) # {} /\ Move(s, "set")
       \/ Move(s, "end")
    /\ UNCHANGED <<sessVars, turnVars, summarizing, seen, sumSaving, crashes>>

SumSet(s) ==
    /\ sum[s] = "set"
    /\ summary' \in NewSummaries(s)
    /\ Move(s, "truncate")
    /\ UNCHANGED <<msgs, last, disk, turnVars, summarizing, seen, sumSaving, crashes>>

\* Mutant of SumTruncate: the first messages are kept instead of the last.
SumTruncateFirst(s) ==
    /\ sum[s] = "truncate"
    /\ msgs' = IF Len(msgs) <= Keep THEN msgs ELSE SubSeq(msgs, 1, Keep)
    /\ Move(s, "snap")
    /\ UNCHANGED <<summary, last, disk, turnVars, summarizing, seen, sumSaving, crashes>>

\* TruncateHistory keeps the last messages there are by now.
SumTruncate(s) ==
    /\ sum[s] = "truncate"
    /\ msgs' = IF Len(msgs) <= Keep THEN msgs
               ELSE SubSeq(msgs, Len(msgs) - Keep + 1, Len(msgs))
    /\ Move(s, "snap")
    /\ UNCHANGED <<summary, last, disk, turnVars, summarizing, seen, sumSaving, crashes>>

SumSnapshot(s) ==
    /\ sum[s] = "snap"
    /\ sumSaving' = [sumSaving EXCEPT ![s] = InMemory]
    /\ Move(s, "rename")
    /\ UNCHANGED <<sessVars, turnVars, summarizing, seen, crashes>>

SumRename(s) ==
    /\ sum[s] = "rename"
    /\ disk' \in {sumSaving[s], disk}
    /\ Move(s, "end")
    /\ UNCHANGED <<msgs, summary, last, turnVars, summarizing, seen, sumSaving, crashes>>

\* Mutant of SumEnd: the goroutine ends without removing its mark.
SumEndMarked(s) ==
    /\ sum[s] = "end"
    /\ Move(s, "idle")
    /\ seen' = [seen EXCEPT ![s] = NoSession]
    /\ sumSaving' = [sumSaving EXCEPT ![s] = NoSession]
    /\ UNCHANGED <<sessVars, turnVars, summarizing, crashes>>

\* The deferred Delete of the mark, on every way out.
SumEnd(s) ==
    /\ sum[s] = "end"
    /\ Move(s, "idle")
    /\ summarizing' = FALSE
    /\ seen' = [seen EXCEPT ![s] = NoSession]
    /\ sumSaving' = [sumSaving EXCEPT ![s] = NoSession]
    /\ UNCHANGED <<sessVars, turnVars, crashes>>

-----------------------------------------------------------------------------
\* The process dies and starts again; loadSessions reads the file back, and the
\* conversation goes on from what the file holds.
Crash ==
    /\ crashes < MaxCrashes
    /\ crashes' = crashes + 1
    /\ msgs' = disk.msgs /\ summary' = disk.summary
    /\ last' = IF disk.msgs = <<>> THEN 0 ELSE disk.msgs[Len(disk.msgs)].n
    /\ EndTurn("idle") /\ saving' = NoSession
    /\ sum' = [s \in Sums |-> "idle"] /\ summarizing' = FALSE
    /\ seen' = [s \in Sums |-> NoSession] /\ sumSaving' = [s \in Sums |-> NoSession]
    /\ UNCHANGED <<disk, rounds, turns>>

Turn ==
    \/ BuildRequest \/ AddUser \/ LlmFails \/ LlmAnswers \/ ToolResult
    \/ \E k \in 1 .. MaxCalls : LlmCallsTools(k)
    \/ SaveSnapshot \/ SaveRename \/ MaybeSummarize

\* A summarizer's own steps.
Proceeds(s) ==
    \/ SumRead(s) \/ SumSet(s) \/ SumTruncate(s)
    \/ SumSnapshot(s) \/ SumRename(s) \/ SumEnd(s)

Summarize(s) == Proceeds(s) \/ SumLlm(s)

Next == Turn \/ Crash \/ \E s \in Sums : Summarize(s)

\* Summarizers run.  Nothing is assumed of their LLM call: its context has a
\* timeout (120 s), after which a CLI provider may wait on for a process.
Fairness == \A s \in Sums : WF_vars(Proceeds(s))

SafeSpec == Init /\ [][Next]_vars

Spec == SafeSpec /\ Fairness

-----------------------------------------------------------------------------
TurnSteps == {"idle", "user", "llm", "tools", "snap", "rename", "after"}
SumSteps == {"idle", "read", "llm", "set", "truncate", "snap", "rename", "end"}

TypeOK ==
    /\ msgs \in Seq(Message) /\ summary \subseteq Nat /\ last \in Nat
    /\ disk \in Session /\ saving \in Session
    /\ turn \in TurnSteps /\ request \in Seq(Message)
    /\ left \in Nat /\ callNo \in Nat /\ rounds \in Nat /\ turns \in Nat /\ crashes \in Nat
    /\ sum \in [Sums -> SumSteps] /\ summarizing \in BOOLEAN
    /\ seen \in [Sums -> Session] /\ sumSaving \in [Sums -> Session]

Consecutive(s) == \A i \in 1 .. Len(s) - 1 : s[i + 1].n = s[i].n + 1

\* Truncation, concurrent appends and a restart from an older file never tear a
\* hole into the history: memory holds a run of consecutive messages up to the
\* last one, and so does every snapshot on its way to disk.
NoHoles ==
    /\ Consecutive(msgs)
    /\ msgs # <<>> => msgs[Len(msgs)].n = last
    /\ Consecutive(disk.msgs) /\ Consecutive(saving.msgs)
    /\ \A s \in Sums : Consecutive(sumSaving[s].msgs)

\* A session has one summarizer at a time, so that the summary and the
\* truncation of one cannot interleave with another's.
OneSummarizer == \A s, t \in Sums : sum[s] # "idle" /\ sum[t] # "idle" => s = t

Results(s, c) == {i \in DOMAIN s : s[i].role = "tool" /\ s[i].to = c}

\* Every history a provider is sent pairs tool calls and results: a result
\* follows the message with its call, and a call has all its results.  Providers
\* refuse anything else, and would do so for every later turn of the session.
RequestPaired ==
    \A i \in DOMAIN request :
        /\ request[i].role = "tool"
            => \E j \in 1 .. i - 1 : request[j].role = "calls" /\ request[j].n = request[i].to
        /\ request[i].role = "calls"
            => Cardinality(Results(request, request[i].n)) = request[i].calls

\* As long as the process has not crashed, every request is paired: truncations
\* at any moment of a later turn, a failed LLM call and the stripping of results
\* whose call is gone never send a provider an unanswered or orphaned call.
PairedUntilCrash == crashes = 0 => RequestPaired

\* An LLM call of a summarizer never comes back.
SumHangs == \E s \in Sums : <>[](sum[s] = "llm")

\* Unless that happens a summarizer ends, early or not, and removes its mark, so
\* that the session can be summarized again.
MarkRemoved == SumHangs \/ (summarizing ~> ~summarizing)

Known(h, summ) == Numbers(h) \cup summ

\* A summarization that no turn overlaps, of a batch small enough for one part,
\* forgets nothing but the oversized messages of its batch: what else was in the
\* history or in the summary when it began is in one of the two when it has
\* truncated the history.
TruncationCovered ==
    [][\A s \in Sums :
        SumTruncate(s) /\ msgs = seen[s].msgs /\ Cardinality(Spoken(s)) <= BigBatch
            => Known(seen[s].msgs, seen[s].summary) \ LeftOut(s) \subseteq Known(msgs', summary')]_vars

\* loop.go:1018 says "summarizeSession summarizes the conversation history for a
\* session" and cuts that history: no message of the conversation is both gone
\* from the history and missing from the summary.
NothingForgotten == 1 .. last \subseteq Known(msgs, summary)
=============================================================================
