------------------------- MODULE AgentSession_proofs -------------------------
(***************************************************************************)
(* Proofs about AgentSession for any sizes, any number of turns, tool      *)
(* calls, crashes and goroutines: at most one summarizer works on the      *)
(* session, its history is never torn, in memory or on disk, its requests  *)
(* are paired until a crash, and a truncation that no turn overlaps        *)
(* forgets nothing but oversized messages.                                 *)
(***************************************************************************)
EXTENDS AgentSession, SequenceTheorems, FiniteSetTheorems, WellFoundedInduction, TLAPS

\* A round of tool calls in progress lacks results.
Lacking == turn = "tools" => left # 0

\* A summarizer that runs has its mark, so that no other one is started.
Marked == \A s \in Sums : sum[s] # "idle" => summarizing

SessInv == TypeOK /\ Lacking /\ Marked /\ OneSummarizer /\ NoHoles

-----------------------------------------------------------------------------
\* Sequences of messages.

LEMMA SuffixFacts ==
    ASSUME NEW h \in Seq(Message), NEW m \in Nat \ {0}
    PROVE  /\ SubSeq(h, m, Len(h)) \in Seq(Message)
           /\ Consecutive(h) => Consecutive(SubSeq(h, m, Len(h)))
           /\ SubSeq(h, m, Len(h)) # <<>>
                => /\ h # <<>>
                   /\ SubSeq(h, m, Len(h))[Len(SubSeq(h, m, Len(h)))] = h[Len(h)]
<1> DEFINE t == SubSeq(h, m, Len(h))
<1>1. Len(h) \in Nat /\ \A i \in m .. Len(h) : h[i] \in Message
  OBVIOUS
<1>2. /\ t \in Seq(Message)
      /\ Len(t) = IF m <= Len(h) THEN Len(h) - m + 1 ELSE 0
      /\ \A i \in 1 .. Len(h) - m + 1 : t[i] = h[m + i - 1]
  BY <1>1, SubSeqProperties
<1> HIDE DEF t
<1>3. ASSUME Consecutive(h), NEW i \in 1 .. Len(t) - 1
      PROVE  t[i + 1].n = t[i].n + 1
  <2>1. m <= Len(h) /\ Len(t) = Len(h) - m + 1
    BY <1>1, <1>2, <1>3
  <2>2. t[i] = h[m + i - 1] /\ t[i + 1] = h[m + (i + 1) - 1]
    BY <1>1, <1>2, <1>3, <2>1
  <2>3. m + i - 1 \in 1 .. Len(h) - 1 /\ m + (i + 1) - 1 = (m + i - 1) + 1
    BY <1>1, <1>3, <2>1
  <2> QED
    BY <1>3, <2>2, <2>3 DEF Consecutive
<1>4. Consecutive(h) => Consecutive(t)
  BY <1>3 DEF Consecutive
<1>5. t # <<>> => h # <<>> /\ t[Len(t)] = h[Len(h)]
  <2>1. SUFFICES ASSUME t # <<>> PROVE h # <<>> /\ t[Len(t)] = h[Len(h)]
    OBVIOUS
  <2>2. Len(t) # 0
    BY <1>2, <2>1
  <2>3. m <= Len(h) /\ Len(t) = Len(h) - m + 1
    BY <1>2, <2>2
  <2>4. t[Len(t)] = h[m + (Len(h) - m + 1) - 1]
    BY <1>1, <1>2, <2>3
  <2> QED
    BY <1>1, <2>3, <2>4
<1> QED
  BY <1>2, <1>4, <1>5 DEF t

\* What AddMessage appends goes on where the history ends.
LEMMA AppendFacts ==
    ASSUME NEW h \in Seq(Message), NEW e \in Message, NEW l \in Nat,
           Consecutive(h), h # <<>> => h[Len(h)].n = l, e.n = l + 1
    PROVE  /\ Append(h, e) \in Seq(Message)
           /\ Consecutive(Append(h, e))
           /\ Append(h, e) # <<>>
           /\ Append(h, e)[Len(Append(h, e))].n = l + 1
<1> DEFINE t == Append(h, e)
<1>1. /\ t \in Seq(Message) /\ Len(t) = Len(h) + 1 /\ Len(h) \in Nat
      /\ \A i \in 1 .. Len(h) : t[i] = h[i]
      /\ t[Len(h) + 1] = e
  OBVIOUS
<1> HIDE DEF t
<1>2. ASSUME NEW i \in 1 .. Len(t) - 1 PROVE t[i + 1].n = t[i].n + 1
  <2>1. CASE i < Len(h)
    BY <1>1, <2>1 DEF Consecutive
  <2>2. CASE i = Len(h)
    BY <1>1, <2>2
  <2> QED
    BY <1>1, <2>1, <2>2
<1>3. t # <<>> /\ t[Len(t)].n = l + 1
  BY <1>1
<1> QED
  BY <1>1, <1>2, <1>3 DEF t, Consecutive

LEMMA LeastElement ==
    ASSUME NEW T \in SUBSET Nat, T # {}
    PROVE  \E n \in T : \A k \in T : n <= k
<1>1. IsWellFoundedOn(OpToRel(<, Nat), Nat)
  BY NatLessThanWellFounded
<1>2. PICK n \in T : \A k \in T : <<k, n>> \notin OpToRel(<, Nat)
  BY <1>1, WFMin
<1>3. \A k \in T : ~(k < n)
  BY <1>2 DEF OpToRel
<1> QED
  BY <1>3

\* BuildMessages puts a suffix of the history into the request.
LEMMA StrippedFacts ==
    ASSUME NEW h \in Seq(Message)
    PROVE  Stripped(h) \in Seq(Message)
<1> DEFINE Ends == {i \in 1 .. Len(h) + 1 : i <= Len(h) => h[i].role # "tool"}
<1>1. Ends \in SUBSET Nat /\ Len(h) + 1 \in Ends
  OBVIOUS
<1>2. PICK f \in Ends : \A i \in Ends : f <= i
  BY <1>1, LeastElement
<1>3. /\ f \in 1 .. Len(h) + 1
      /\ f <= Len(h) => h[f].role # "tool"
      /\ \A j \in 1 .. f - 1 : h[j].role = "tool"
  BY <1>2
<1> DEFINE first == CHOOSE i \in 1 .. Len(h) + 1 :
                        /\ i <= Len(h) => h[i].role # "tool"
                        /\ \A j \in 1 .. i - 1 : h[j].role = "tool"
<1>4. first \in 1 .. Len(h) + 1
  BY <1>3
<1>5. Stripped(h) = SubSeq(h, first, Len(h))
  BY DEF Stripped
<1> HIDE DEF first
<1>6. first \in Nat \ {0}
  BY <1>4
<1> QED
  BY <1>5, <1>6, SuffixFacts

LEMMA NoSessionFacts ==
    /\ NoSession \in Session /\ Consecutive(NoSession.msgs)
  BY DEF NoSession, Session, Consecutive

LEMMA InMemoryFacts ==
    ASSUME TypeOK
    PROVE  InMemory \in Session /\ InMemory.msgs = msgs /\ InMemory.summary = summary
  BY DEF TypeOK, InMemory, Session

LEMMA NumbersType ==
    ASSUME NEW h \in Seq(Message)
    PROVE  Numbers(h) \subseteq Nat
<1>1. \A m \in Message : m.n \in Nat
  BY DEF Message
<1>2. DOMAIN h = 1 .. Len(h) /\ \A i \in 1 .. Len(h) : h[i] \in Message
  OBVIOUS
<1> QED
  BY <1>1, <1>2 DEF Numbers

\* A summary holds numbers of messages.
LEMMA NewSummariesType ==
    ASSUME TypeOK, NEW s \in Sums
    PROVE  \A new \in NewSummaries(s) : new \subseteq Nat
<1> DEFINE h == seen[s].msgs
<1>1. h \in Seq(Message) /\ seen[s].summary \subseteq Nat /\ Keep \in Nat
  BY SizeAssumption DEF TypeOK, Session
<1>2. 1 \in Int /\ Len(h) - Keep \in Int /\ \A i \in 1 .. Len(h) - Keep : h[i] \in Message
  BY <1>1
<1>3. Batch(s) \in Seq(Message)
  BY <1>2, SubSeqProperties DEF Batch
<1>4. Numbers(Batch(s)) \subseteq Nat
  BY <1>3, NumbersType
<1> QED
  BY <1>1, <1>4 DEF NewSummaries

-----------------------------------------------------------------------------
LEMMA InitInv == Init => SessInv
<1> SUFFICES ASSUME Init PROVE SessInv
  OBVIOUS
<1>1. TypeOK
  <2>1. <<>> \in Seq(Message) /\ {} \subseteq Nat /\ 0 \in Nat
    OBVIOUS
  <2>2. "idle" \in TurnSteps /\ "idle" \in SumSteps
    BY DEF TurnSteps, SumSteps
  <2>3. /\ [s \in Sums |-> NoSession] \in [Sums -> Session]
        /\ [s \in Sums |-> "idle"] \in [Sums -> SumSteps]
    BY <2>2, NoSessionFacts
  <2> QED
    BY <2>1, <2>2, <2>3, NoSessionFacts DEF Init, TypeOK
<1>2. Lacking /\ Marked /\ OneSummarizer
  BY DEF Init, Lacking, Marked, OneSummarizer
<1>3. NoHoles
  <2>1. /\ Consecutive(msgs) /\ msgs = <<>> /\ disk = NoSession /\ saving = NoSession
        /\ \A s \in Sums : sumSaving[s] = NoSession
    BY DEF Init, Consecutive
  <2> QED
    BY <2>1, NoSessionFacts DEF NoHoles
<1> QED
  BY <1>1, <1>2, <1>3 DEF SessInv

\* AddMessage, in any step.
LEMMA AddMessageFacts ==
    ASSUME TypeOK, NoHoles, NEW role \in Roles, NEW to \in Nat, NEW k \in Nat,
           AddMessage(role, to, k)
    PROVE  /\ msgs' \in Seq(Message) /\ last' \in Nat /\ Consecutive(msgs')
           /\ msgs' # <<>> => msgs'[Len(msgs')].n = last'
           /\ summary' = summary /\ disk' = disk
<1> DEFINE e == [n |-> last + 1, role |-> role, to |-> to, calls |-> k]
<1>1. e \in Message /\ e.n = last + 1
  BY DEF TypeOK, Message
<1>2. /\ msgs \in Seq(Message) /\ last \in Nat /\ Consecutive(msgs)
      /\ msgs # <<>> => msgs[Len(msgs)].n = last
      /\ msgs' = Append(msgs, e) /\ last' = last + 1
      /\ summary' = summary /\ disk' = disk
  BY DEF TypeOK, NoHoles, AddMessage
<1> HIDE DEF e
<1>3. /\ Append(msgs, e) \in Seq(Message)
      /\ Consecutive(Append(msgs, e))
      /\ Append(msgs, e)[Len(Append(msgs, e))].n = last + 1
  BY <1>1, <1>2, AppendFacts
<1> QED
  BY <1>2, <1>3

\* TruncateHistory leaves a suffix of the history.
LEMMA TruncateFacts ==
    ASSUME TypeOK, NEW s \in Sums, SumTruncate(s)
    PROVE  /\ msgs' \in Seq(Message)
           /\ Consecutive(msgs) => Consecutive(msgs')
           /\ msgs' # <<>> => msgs # <<>> /\ msgs'[Len(msgs')] = msgs[Len(msgs)]
           /\ last' = last /\ disk' = disk /\ saving' = saving /\ sumSaving' = sumSaving
<1>1. msgs \in Seq(Message) /\ Keep \in Nat \ {0}
  BY SizeAssumption DEF TypeOK
<1>2. last' = last /\ disk' = disk /\ saving' = saving /\ sumSaving' = sumSaving
  BY DEF SumTruncate, turnVars
<1>3. CASE Len(msgs) <= Keep
  BY <1>1, <1>2, <1>3 DEF SumTruncate
<1>4. CASE ~(Len(msgs) <= Keep)
  <2>1. Len(msgs) - Keep + 1 \in Nat \ {0}
    BY <1>1, <1>4
  <2>2. msgs' = SubSeq(msgs, Len(msgs) - Keep + 1, Len(msgs))
    BY <1>4 DEF SumTruncate
  <2> QED
    BY <1>1, <1>2, <2>1, <2>2, SuffixFacts
<1> QED
  BY <1>3, <1>4

-----------------------------------------------------------------------------
\* Every step keeps the types.  AddMessage is in four of them.
LEMMA StepType == SessInv /\ [Next]_vars => TypeOK'
<1> SUFFICES ASSUME SessInv, [Next]_vars PROVE TypeOK'
  OBVIOUS
<1>0. TypeOK /\ NoHoles /\ Lacking
  BY DEF SessInv
<1>1. CASE UNCHANGED vars
  BY <1>0, <1>1 DEF vars, sessVars, turnVars, sumVars, TypeOK
<1>2. CASE BuildRequest
  <2>1. request' \in Seq(Message) /\ turns' \in Nat /\ turn' \in TurnSteps /\ rounds' \in Nat
    BY <1>0, <1>2, StrippedFacts DEF BuildRequest, TypeOK, TurnSteps
  <2> QED
    BY <1>0, <1>2, <2>1 DEF BuildRequest, TypeOK, sessVars, sumVars
<1>3. CASE AddUser
  <2>1. msgs' \in Seq(Message) /\ last' \in Nat /\ summary' = summary /\ disk' = disk
    BY <1>0, <1>3, AddMessageFacts DEF AddUser, Roles
  <2> QED
    BY <1>0, <1>3, <2>1 DEF AddUser, TypeOK, TurnSteps, sumVars
<1>4. CASE LlmFails
  <2>1. request' = <<>> /\ left' = 0 /\ callNo' = 0 /\ turn' = "idle"
    BY <1>4 DEF LlmFails, EndTurn
  <2> QED
    BY <1>0, <1>4, <2>1 DEF LlmFails, TypeOK, TurnSteps, sessVars, sumVars
<1>5. CASE LlmAnswers
  <2>1. msgs' \in Seq(Message) /\ last' \in Nat /\ summary' = summary /\ disk' = disk
    BY <1>0, <1>5, AddMessageFacts DEF LlmAnswers, Roles
  <2>2. request' = <<>> /\ left' = 0 /\ callNo' = 0 /\ turn' = "snap"
    BY <1>5 DEF LlmAnswers, EndTurn
  <2> QED
    BY <1>0, <1>5, <2>1, <2>2 DEF LlmAnswers, TypeOK, TurnSteps, sumVars
<1>6. CASE ToolResult
  <2>1. msgs' \in Seq(Message) /\ last' \in Nat /\ summary' = summary /\ disk' = disk
    BY <1>0, <1>6, AddMessageFacts DEF ToolResult, Roles, TypeOK
  <2>2. left' \in Nat /\ turn' \in TurnSteps
    BY <1>0, <1>6 DEF ToolResult, TypeOK, Lacking, TurnSteps
  <2> QED
    BY <1>0, <1>6, <2>1, <2>2 DEF ToolResult, TypeOK, sumVars
<1>7. ASSUME NEW k \in 1 .. MaxCalls, LlmCallsTools(k) PROVE TypeOK'
  <2>1. k \in Nat
    BY <1>7, SizeAssumption
  <2>2. msgs' \in Seq(Message) /\ last' \in Nat /\ summary' = summary /\ disk' = disk
    BY <1>0, <1>7, <2>1, AddMessageFacts DEF LlmCallsTools, Roles
  <2>3. left' \in Nat /\ callNo' \in Nat /\ rounds' \in Nat /\ turn' \in TurnSteps
    BY <1>0, <1>7, <2>1 DEF LlmCallsTools, TypeOK, TurnSteps
  <2> QED
    BY <1>0, <1>7, <2>2, <2>3 DEF LlmCallsTools, TypeOK, sumVars
<1>8. CASE SaveSnapshot
  BY <1>0, <1>8, InMemoryFacts DEF SaveSnapshot, TypeOK, TurnSteps, sessVars, sumVars
<1>9. CASE SaveRename
  BY <1>0, <1>9, NoSessionFacts DEF SaveRename, TypeOK, TurnSteps, sumVars
<1>10. CASE MaybeSummarize
  <2>1. sum' \in [Sums -> SumSteps] /\ summarizing' \in BOOLEAN
    BY <1>0, <1>10 DEF MaybeSummarize, TypeOK, SumSteps
  <2> QED
    BY <1>0, <1>10, <2>1 DEF MaybeSummarize, TypeOK, TurnSteps, sessVars
<1>11. CASE Crash
  <2>1. /\ disk.msgs \in Seq(Message) /\ disk.summary \subseteq Nat
        /\ \A m \in Message : m.n \in Nat
    BY <1>0 DEF TypeOK, Session, Message
  <2>2. last' \in Nat
    <3>1. CASE disk.msgs = <<>>
      BY <1>11, <3>1 DEF Crash
    <3>2. CASE disk.msgs # <<>>
      BY <1>11, <2>1, <3>2 DEF Crash
    <3> QED
      BY <3>1, <3>2
  <2>3. /\ msgs' = disk.msgs /\ summary' = disk.summary /\ saving' \in Session
        /\ turn' \in TurnSteps /\ request' = <<>> /\ left' = 0 /\ callNo' = 0
        /\ crashes' \in Nat /\ disk' = disk /\ rounds' = rounds /\ turns' = turns
    BY <1>0, <1>11, NoSessionFacts DEF Crash, EndTurn, TurnSteps, TypeOK
  <2>4. /\ sum' \in [Sums -> SumSteps] /\ summarizing' \in BOOLEAN
        /\ seen' \in [Sums -> Session] /\ sumSaving' \in [Sums -> Session]
    BY <1>11, NoSessionFacts DEF Crash, SumSteps
  <2> QED
    BY <1>0, <2>1, <2>2, <2>3, <2>4 DEF TypeOK
<1>12. ASSUME NEW s \in Sums, Summarize(s) PROVE TypeOK'
  <2>1. ASSUME NEW at \in SumSteps, Move(s, at) PROVE sum' \in [Sums -> SumSteps]
    BY <1>0, <2>1 DEF Move, TypeOK
  <2>2. CASE SumRead(s)
    <3>1. sum' \in [Sums -> SumSteps]
      BY <2>1, <2>2 DEF SumRead, SumSteps
    <3> QED
      BY <1>0, <2>2, <3>1, InMemoryFacts DEF SumRead, TypeOK, sessVars, turnVars
  <2>3. CASE SumLlm(s)
    <3>1. sum' \in [Sums -> SumSteps]
      BY <2>1, <2>3 DEF SumLlm, SumSteps
    <3> QED
      BY <1>0, <2>3, <3>1 DEF SumLlm, TypeOK, sessVars, turnVars
  <2>4. CASE SumSet(s)
    <3>1. sum' \in [Sums -> SumSteps]
      BY <2>1, <2>4 DEF SumSet, SumSteps
    <3>2. summary' \subseteq Nat
      BY <1>0, <2>4, NewSummariesType DEF SumSet
    <3> QED
      BY <1>0, <2>4, <3>1, <3>2 DEF SumSet, TypeOK, turnVars
  <2>5. CASE SumTruncate(s)
    <3>1. sum' \in [Sums -> SumSteps]
      BY <2>1, <2>5 DEF SumTruncate, SumSteps
    <3>2. msgs' \in Seq(Message)
      BY <1>0, <2>5, TruncateFacts
    <3> QED
      BY <1>0, <2>5, <3>1, <3>2 DEF SumTruncate, TypeOK, turnVars
  <2>6. CASE SumSnapshot(s)
    <3>1. sum' \in [Sums -> SumSteps]
      BY <2>1, <2>6 DEF SumSnapshot, SumSteps
    <3> QED
      BY <1>0, <2>6, <3>1, InMemoryFacts DEF SumSnapshot, TypeOK, sessVars, turnVars
  <2>7. CASE SumRename(s)
    <3>1. sum' \in [Sums -> SumSteps]
      BY <2>1, <2>7 DEF SumRename, SumSteps
    <3> QED
      BY <1>0, <2>7, <3>1 DEF SumRename, TypeOK, turnVars
  <2>8. CASE SumEnd(s)
    <3>1. sum' \in [Sums -> SumSteps]
      BY <2>1, <2>8 DEF SumEnd, SumSteps
    <3> QED
      BY <1>0, <2>8, <3>1, NoSessionFacts DEF SumEnd, TypeOK, sessVars, turnVars
  <2> QED
    BY <1>12, <2>2, <2>3, <2>4, <2>5, <2>6, <2>7, <2>8 DEF Summarize, Proceeds
<1> QED
  BY <1>1, <1>2, <1>3, <1>4, <1>5, <1>6, <1>7, <1>8, <1>9, <1>10, <1>11, <1>12 DEF Next, Turn

\* A round that is in progress starts with all its results missing and ends
\* with the last one.
LEMMA StepLacking == SessInv /\ [Next]_vars => Lacking'
<1> SUFFICES ASSUME SessInv, [Next]_vars PROVE Lacking'
  OBVIOUS
<1>0. TypeOK /\ Lacking
  BY DEF SessInv
<1>1. CASE ToolResult
  BY <1>0, <1>1 DEF ToolResult, Lacking, TypeOK
<1>2. ASSUME NEW k \in 1 .. MaxCalls, LlmCallsTools(k) PROVE Lacking'
  BY <1>2, SizeAssumption DEF LlmCallsTools, Lacking
<1>3. CASE BuildRequest \/ AddUser \/ LlmFails \/ LlmAnswers \/ SaveSnapshot \/ SaveRename
           \/ MaybeSummarize \/ Crash
  <2>1. turn' # "tools"
    BY <1>3 DEF BuildRequest, AddUser, LlmFails, LlmAnswers, EndTurn, SaveSnapshot, SaveRename,
                MaybeSummarize, Crash
  <2> QED
    BY <2>1 DEF Lacking
<1>4. CASE UNCHANGED <<turn, left>>
  BY <1>0, <1>4 DEF Lacking
<1>5. ASSUME NEW s \in Sums, Summarize(s) PROVE UNCHANGED <<turn, left>>
  BY <1>5 DEF Summarize, Proceeds, SumRead, SumLlm, SumSet, SumTruncate, SumSnapshot, SumRename, SumEnd, turnVars
<1> QED
  BY <1>1, <1>2, <1>3, <1>4, <1>5 DEF Next, Turn, vars, turnVars

\* Only MaybeSummarize starts a summarizer, when no mark is there; only the
\* summarizer that runs removes it.
LEMMA StepSummarizer == SessInv /\ [Next]_vars => Marked' /\ OneSummarizer'
<1> SUFFICES ASSUME SessInv, [Next]_vars PROVE Marked' /\ OneSummarizer'
  OBVIOUS
<1>0. TypeOK /\ Marked /\ OneSummarizer /\ sum \in [Sums -> SumSteps]
  BY DEF SessInv, TypeOK
<1>1. CASE MaybeSummarize
  <2>1. CASE UNCHANGED <<sum, summarizing>>
    BY <1>0, <2>1 DEF Marked, OneSummarizer
  <2>2. ASSUME ~summarizing, summarizing', NEW s \in Sums, sum' = [sum EXCEPT ![s] = "read"]
        PROVE  Marked' /\ OneSummarizer'
    <3>1. \A t \in Sums : sum[t] = "idle"
      BY <1>0, <2>2 DEF Marked
    <3>2. \A t \in Sums : t # s => sum'[t] = "idle"
      BY <1>0, <2>2, <3>1
    <3> QED
      BY <2>2, <3>2 DEF Marked, OneSummarizer
  <2> QED
    BY <1>1, <2>1, <2>2 DEF MaybeSummarize
<1>2. CASE Crash
  <2>1. \A s \in Sums : sum'[s] = "idle"
    BY <1>2 DEF Crash
  <2> QED
    BY <2>1 DEF Marked, OneSummarizer
<1>3. ASSUME NEW s \in Sums, SumEnd(s) PROVE Marked' /\ OneSummarizer'
  <2>1. sum[s] # "idle" /\ sum' = [sum EXCEPT ![s] = "idle"]
    BY <1>3 DEF SumEnd, Move
  <2>2. \A t \in Sums : sum'[t] = "idle"
    BY <1>0, <2>1 DEF OneSummarizer
  <2> QED
    BY <2>2 DEF Marked, OneSummarizer
<1>4. ASSUME NEW s \in Sums, SumRead(s) \/ SumLlm(s) \/ SumSet(s) \/ SumTruncate(s)
                             \/ SumSnapshot(s) \/ SumRename(s)
      PROVE  Marked' /\ OneSummarizer'
  <2>1. /\ sum[s] # "idle" /\ summarizing' = summarizing
        /\ \E at \in SumSteps : sum' = [sum EXCEPT ![s] = at]
    BY <1>4 DEF SumRead, SumLlm, SumSet, SumTruncate, SumSnapshot, SumRename, Move, SumSteps
  <2>2. \A t \in Sums : sum'[t] # "idle" => sum[t] # "idle"
    BY <1>0, <2>1
  <2> QED
    BY <1>0, <2>1, <2>2 DEF Marked, OneSummarizer
<1>5. CASE UNCHANGED <<sum, summarizing>>
  BY <1>0, <1>5 DEF Marked, OneSummarizer
<1>6. CASE BuildRequest \/ AddUser \/ LlmFails \/ LlmAnswers \/ ToolResult \/ SaveSnapshot \/ SaveRename
  BY <1>5, <1>6 DEF BuildRequest, AddUser, LlmFails, LlmAnswers, ToolResult, SaveSnapshot,
                    SaveRename, sumVars
<1>7. ASSUME NEW k \in 1 .. MaxCalls, LlmCallsTools(k) PROVE UNCHANGED <<sum, summarizing>>
  BY <1>7 DEF LlmCallsTools, sumVars
<1> QED
  BY <1>1, <1>2, <1>3, <1>4, <1>5, <1>6, <1>7 DEF Next, Turn, Summarize, Proceeds, vars, sumVars

\* The history grows at its end, loses its start, or comes back from a file that
\* was a snapshot of it.
LEMMA StepNoHoles == SessInv /\ [Next]_vars => NoHoles'
<1> SUFFICES ASSUME SessInv, [Next]_vars PROVE NoHoles'
  OBVIOUS
<1>0. /\ TypeOK /\ NoHoles
      /\ sumSaving \in [Sums -> Session]
  BY DEF SessInv, TypeOK
<1>1. ASSUME Consecutive(msgs'), msgs' # <<>> => msgs'[Len(msgs')].n = last',
             UNCHANGED <<disk, saving, sumSaving>>
      PROVE  NoHoles'
  BY <1>0, <1>1 DEF NoHoles, Consecutive
<1>2. ASSUME NEW role \in Roles, NEW to \in Nat, NEW k \in Nat, AddMessage(role, to, k),
             UNCHANGED <<saving, sumSaving>>
      PROVE  NoHoles'
  BY <1>0, <1>1, <1>2, AddMessageFacts
<1>3. CASE AddUser \/ LlmAnswers
  BY <1>2, <1>3 DEF AddUser, LlmAnswers, Roles, sumVars
<1>4. CASE ToolResult
  BY <1>0, <1>2, <1>4 DEF ToolResult, Roles, TypeOK, sumVars
<1>5. ASSUME NEW k \in 1 .. MaxCalls, LlmCallsTools(k) PROVE NoHoles'
  BY <1>2, <1>5, SizeAssumption DEF LlmCallsTools, Roles, sumVars
<1>6. ASSUME UNCHANGED <<msgs, last>>, Consecutive(disk'.msgs), Consecutive(saving'.msgs),
             \A s \in Sums : Consecutive(sumSaving'[s].msgs)
      PROVE  NoHoles'
  BY <1>0, <1>6 DEF NoHoles, Consecutive
<1>7. CASE SaveSnapshot
  <2>1. saving' = InMemory /\ Consecutive(saving'.msgs)
    BY <1>0, <1>7, InMemoryFacts DEF SaveSnapshot, NoHoles
  <2> QED
    BY <1>0, <1>6, <1>7, <2>1 DEF SaveSnapshot, sessVars, sumVars, NoHoles
<1>8. CASE SaveRename
  <2>1. Consecutive(disk'.msgs) /\ Consecutive(saving'.msgs)
    BY <1>0, <1>8, NoSessionFacts DEF SaveRename, NoHoles
  <2> QED
    BY <1>0, <1>6, <1>8, <2>1 DEF SaveRename, sumVars, NoHoles
<1>9. CASE Crash
  <2>1. /\ msgs' = disk.msgs /\ disk' = disk /\ saving' = NoSession
        /\ \A s \in Sums : sumSaving'[s] = NoSession
        /\ msgs' # <<>> => msgs'[Len(msgs')].n = last'
    BY <1>9 DEF Crash
  <2> QED
    BY <1>0, <2>1, NoSessionFacts DEF NoHoles
<1>10. ASSUME NEW s \in Sums, SumTruncate(s) PROVE NoHoles'
  BY <1>0, <1>1, <1>10, TruncateFacts DEF NoHoles
<1>11. ASSUME NEW s \in Sums, SumSnapshot(s) PROVE NoHoles'
  <2>1. \A t \in Sums : Consecutive(sumSaving'[t].msgs)
    BY <1>0, <1>11, InMemoryFacts DEF SumSnapshot, NoHoles
  <2> QED
    BY <1>0, <1>6, <1>11, <2>1 DEF SumSnapshot, sessVars, turnVars, NoHoles
<1>12. ASSUME NEW s \in Sums, SumRename(s) PROVE NoHoles'
  <2>1. Consecutive(disk'.msgs)
    BY <1>0, <1>12 DEF SumRename, NoHoles
  <2> QED
    BY <1>0, <1>6, <1>12, <2>1 DEF SumRename, turnVars, NoHoles
<1>13. ASSUME NEW s \in Sums, SumEnd(s) PROVE NoHoles'
  <2>1. \A t \in Sums : Consecutive(sumSaving'[t].msgs)
    BY <1>0, <1>13, NoSessionFacts DEF SumEnd, NoHoles
  <2> QED
    BY <1>0, <1>6, <1>13, <2>1 DEF SumEnd, sessVars, turnVars, NoHoles
<1>14. CASE UNCHANGED <<msgs, last, disk, saving, sumSaving>>
  BY <1>0, <1>1, <1>14 DEF NoHoles
<1>15. CASE BuildRequest \/ LlmFails \/ MaybeSummarize
  BY <1>14, <1>15 DEF BuildRequest, LlmFails, MaybeSummarize, sessVars, sumVars
<1>16. ASSUME NEW s \in Sums, SumRead(s) \/ SumLlm(s) \/ SumSet(s) PROVE NoHoles'
  BY <1>14, <1>16 DEF SumRead, SumLlm, SumSet, sessVars, turnVars
<1> QED
  BY <1>3, <1>4, <1>5, <1>7, <1>8, <1>9, <1>10, <1>11, <1>12, <1>13, <1>14, <1>15, <1>16
     DEF Next, Turn, Summarize, Proceeds, vars, sessVars, turnVars, sumVars

-----------------------------------------------------------------------------
LEMMA Invariance == SafeSpec => []SessInv
<1>1. SessInv /\ [Next]_vars => SessInv'
  BY StepType, StepLacking, StepSummarizer, StepNoHoles DEF SessInv
<1> QED
  BY InitInv, <1>1, PTL DEF SafeSpec

\* The state of the session, its turns and its summarizers has its types.
THEOREM TypeCorrect == SafeSpec => []TypeOK
<1>1. SessInv => TypeOK
  BY DEF SessInv
<1> QED
  BY Invariance, <1>1, PTL

\* However turns, summarizers and crashes interleave, LoadOrStore and the
\* deferred Delete of maybeSummarize let one summarizer at a time work on the
\* session.
THEOREM SummarizerAlone == SafeSpec => []OneSummarizer
<1>1. SessInv => OneSummarizer
  BY DEF SessInv
<1> QED
  BY Invariance, <1>1, PTL

\* The history is one run of consecutive messages, in memory, in every snapshot
\* and in the file, whatever TruncateHistory cuts off while turns append and
\* whichever file a restart reads.
THEOREM HistoryWhole == SafeSpec => []NoHoles
<1>1. SessInv => NoHoles
  BY DEF SessInv
<1> QED
  BY Invariance, <1>1, PTL
-----------------------------------------------------------------------------
\* Calls and results.  In a history, the message with the calls of a round is
\* followed by their results, unless the round is open; before a result come
\* other results of its round, back to the calls or to the start of the history,
\* when a truncation has cut the calls off.
Whole(h, open) ==
    \A i \in DOMAIN h :
        /\ h[i].role = "calls" /\ h[i].n \notin open =>
             /\ i + h[i].calls <= Len(h)
             /\ \A j \in 1 .. h[i].calls : h[i + j].role = "tool" /\ h[i + j].to = h[i].n
        /\ h[i].role = "tool" =>
             LET d == h[i].n - h[i].to
             IN  /\ d >= 1
                 /\ \A j \in 1 .. i : j > i - d => h[j].role = "tool"
                 /\ d < i => /\ h[i - d].role = "calls" /\ h[i - d].n = h[i].to
                             /\ d <= h[i - d].calls

\* The round in progress: behind its calls there are only its results, as many
\* as there are calls but for those it lacks.
RoundOpen ==
    turn = "tools" =>
        /\ callNo <= last
        /\ \A i \in DOMAIN msgs :
             /\ msgs[i].n = callNo => msgs[i].role = "calls" /\ Len(msgs) - i = msgs[i].calls - left
             /\ msgs[i].n > callNo => msgs[i].role = "tool" /\ msgs[i].to = callNo

Open == IF turn = "tools" THEN {callNo} ELSE {}

\* A crash in the middle of a round leaves a round that stays incomplete.
Paired == crashes = 0 => Whole(msgs, Open) /\ RoundOpen /\ RequestPaired

LEMMA MessageFields ==
    \A m \in Message : m.n \in Nat /\ m.to \in Nat /\ m.calls \in Nat /\ m.role \in Roles
  BY DEF Message

\* In a run of consecutive messages the numbers differ as the positions do.
LEMMA ConsecutiveNumbers ==
    ASSUME NEW h \in Seq(Message), Consecutive(h), NEW i \in DOMAIN h, NEW j \in DOMAIN h
    PROVE  h[j].n - h[i].n = j - i
<1>1. ASSUME NEW a \in DOMAIN h, NEW b \in DOMAIN h, a <= b PROVE h[b].n = h[a].n + (b - a)
  <2> DEFINE T == {k \in Nat : a + k \in DOMAIN h /\ h[a + k].n # h[a].n + k}
  <2>1. /\ DOMAIN h = 1 .. Len(h) /\ Len(h) \in Nat
        /\ \A x \in DOMAIN h : h[x].n \in Nat
    BY MessageFields
  <2>2. T = {}
    <3>1. SUFFICES ASSUME T # {} PROVE FALSE
      OBVIOUS
    <3>2. PICK k \in T : \A x \in T : k <= x
      <4>1. T \in SUBSET Nat
        OBVIOUS
      <4> QED
        BY <3>1, <4>1, LeastElement
    <3>3. k # 0
      BY <2>1, <3>2
    <3>4. k - 1 \in Nat /\ k - 1 \notin T /\ a + (k - 1) \in 1 .. Len(h) - 1 /\ a \in 1 .. Len(h)
      BY <2>1, <3>2, <3>3
    <3>5. h[a + (k - 1)].n = h[a].n + (k - 1)
      BY <2>1, <3>4
    <3>6. h[(a + (k - 1)) + 1].n = h[a + (k - 1)].n + 1
      BY <3>4 DEF Consecutive
    <3>7. (a + (k - 1)) + 1 = a + k
      BY <2>1, <3>4
    <3> QED
      BY <2>1, <3>2, <3>4, <3>5, <3>6, <3>7
  <2>3. b - a \in Nat /\ a + (b - a) = b
    BY <1>1, <2>1
  <2> QED
    BY <2>2, <2>3
<1>2. i \in Nat /\ j \in Nat /\ h[i].n \in Nat /\ h[j].n \in Nat
  BY MessageFields
<1>3. i \in Int /\ j \in Int
  BY <1>2
<1>4. CASE i <= j
  <2>1. h[j].n = h[i].n + (j - i)
    BY <1>1, <1>4
  <2> QED
    BY <1>2, <1>3, <2>1
<1>5. CASE j <= i
  <2>1. h[i].n = h[j].n + (i - j)
    BY <1>1, <1>5
  <2> QED
    BY <1>2, <1>3, <2>1
<1> QED
  BY <1>3, <1>4, <1>5

\* What a truncation, or BuildMessages, leaves of a history is still whole.
LEMMA SuffixWhole ==
    ASSUME NEW h \in Seq(Message), NEW open, Whole(h, open), NEW m \in Nat \ {0}
    PROVE  Whole(SubSeq(h, m, Len(h)), open)
<1> DEFINE t == SubSeq(h, m, Len(h))
           p == m - 1
<1>1. /\ DOMAIN h = 1 .. Len(h) /\ Len(h) \in Nat /\ p \in Nat /\ m = p + 1
      /\ \A x \in 1 .. Len(h) : h[x] \in Message
  OBVIOUS
<1>2. /\ t \in Seq(Message)
      /\ Len(t) = IF m <= Len(h) THEN Len(h) - p ELSE 0
      /\ \A i \in 1 .. Len(t) : t[i] = h[p + i]
  <2>1. \A x \in m .. Len(h) : h[x] \in Message
    BY <1>1
  <2>2. /\ t \in Seq(Message)
        /\ Len(t) = IF m <= Len(h) THEN Len(h) - m + 1 ELSE 0
        /\ \A i \in 1 .. Len(h) - m + 1 : t[i] = h[m + i - 1]
    BY <1>1, <2>1, SubSeqProperties
  <2> HIDE DEF t
  <2>3. Len(t) = IF m <= Len(h) THEN Len(h) - p ELSE 0
    BY <1>1, <2>2
  <2>4. ASSUME NEW i \in 1 .. Len(t) PROVE t[i] = h[p + i]
    <3>1. m <= Len(h)
      BY <1>1, <2>3, <2>4
    <3>2. Len(t) = Len(h) - m + 1
      BY <2>2, <3>1
    <3>3. i \in 1 .. Len(h) - m + 1
      BY <2>4, <3>2
    <3>4. t[i] = h[m + i - 1]
      BY <2>2, <3>3
    <3>5. m + i - 1 = p + i
      BY <1>1, <3>3
    <3> QED
      BY <3>4, <3>5
  <2> QED
    BY <2>2, <2>3, <2>4
<1> HIDE DEF t, p
<1>3. DOMAIN t = 1 .. Len(t) /\ Len(t) \in Nat
  BY <1>2
<1>4. ASSUME NEW i \in 1 .. Len(t)
      PROVE  p + i \in 1 .. Len(h) /\ t[i] = h[p + i] /\ Len(h) = p + Len(t)
  <2>1. m <= Len(h) /\ Len(t) = Len(h) - p
    BY <1>2, <1>3, <1>4
  <2> QED
    BY <1>1, <1>2, <1>3, <1>4, <2>1
<1>5. ASSUME NEW i \in 1 .. Len(t)
      PROVE  /\ t[i].role = "calls" /\ t[i].n \notin open =>
                  /\ i + t[i].calls <= Len(t)
                  /\ \A j \in 1 .. t[i].calls : t[i + j].role = "tool" /\ t[i + j].to = t[i].n
             /\ t[i].role = "tool" =>
                  LET d == t[i].n - t[i].to
                  IN  /\ d >= 1
                      /\ \A j \in 1 .. i : j > i - d => t[j].role = "tool"
                      /\ d < i => /\ t[i - d].role = "calls" /\ t[i - d].n = t[i].to
                                  /\ d <= t[i - d].calls
  <2>1. /\ p + i \in 1 .. Len(h) /\ t[i] = h[p + i] /\ Len(h) = p + Len(t)
        /\ h[p + i] \in Message
    BY <1>1, <1>4, <1>5
  <2> DEFINE d == h[p + i].n - h[p + i].to
             k == h[p + i].calls
  <2>2. d \in Int /\ k \in Nat
    BY <2>1, MessageFields
  <2>3. ASSUME h[p + i].role = "calls", h[p + i].n \notin open
        PROVE  /\ i + k <= Len(t)
               /\ \A j \in 1 .. k : t[i + j].role = "tool" /\ t[i + j].to = h[p + i].n
    <3>1. /\ (p + i) + k <= Len(h)
          /\ \A j \in 1 .. k : h[(p + i) + j].role = "tool" /\ h[(p + i) + j].to = h[p + i].n
      BY <1>1, <2>1, <2>3 DEF Whole
    <3> HIDE DEF k
    <3>2. i + k <= Len(t)
      BY <1>1, <1>3, <1>5, <2>1, <2>2, <3>1
    <3>3. \A j \in 1 .. k : i + j \in 1 .. Len(t) /\ p + (i + j) = (p + i) + j
      BY <1>1, <1>3, <1>5, <2>2, <3>2
    <3> QED
      BY <1>4, <3>1, <3>2, <3>3
  <2>4. ASSUME h[p + i].role = "tool"
        PROVE  /\ d >= 1
               /\ \A j \in 1 .. i : j > i - d => t[j].role = "tool"
               /\ d < i => /\ t[i - d].role = "calls" /\ t[i - d].n = h[p + i].to
                           /\ d <= t[i - d].calls
    <3>1. /\ d >= 1
          /\ \A j \in 1 .. p + i : j > (p + i) - d => h[j].role = "tool"
          /\ d < p + i => /\ h[(p + i) - d].role = "calls" /\ h[(p + i) - d].n = h[p + i].to
                          /\ d <= h[(p + i) - d].calls
      BY <1>1, <2>1, <2>4 DEF Whole
    <3> HIDE DEF d
    <3>2. ASSUME NEW j \in 1 .. i, j > i - d PROVE t[j].role = "tool"
      <4>1. p + j \in 1 .. p + i /\ p + j > (p + i) - d /\ j \in 1 .. Len(t)
        BY <1>1, <1>3, <1>5, <2>2, <3>2
      <4> QED
        BY <1>4, <3>1, <4>1
    <3>3. ASSUME d < i
          PROVE  t[i - d].role = "calls" /\ t[i - d].n = h[p + i].to /\ d <= t[i - d].calls
      <4>1. d < p + i /\ i - d \in 1 .. Len(t) /\ p + (i - d) = (p + i) - d
        BY <1>1, <1>3, <1>5, <2>2, <3>1, <3>3
      <4> QED
        BY <1>4, <3>1, <4>1
    <3> QED
      BY <3>1, <3>2, <3>3
  <2> HIDE DEF d, k
  <2>5. t[i].role = "calls" /\ t[i].n \notin open =>
                  /\ i + t[i].calls <= Len(t)
                  /\ \A j \in 1 .. t[i].calls : t[i + j].role = "tool" /\ t[i + j].to = t[i].n
    BY <2>1, <2>3 DEF k
  <2> QED
    BY <2>1, <2>4, <2>5 DEF d
<1> QED
  BY <1>3, <1>5 DEF Whole, t

\* A history that does not begin with a result is paired.
LEMMA WholePaired ==
    ASSUME NEW h \in Seq(Message), Consecutive(h), Whole(h, {}), h # <<>> => h[1].role # "tool"
    PROVE  \A i \in DOMAIN h :
              /\ h[i].role = "tool"
                  => \E j \in 1 .. i - 1 : h[j].role = "calls" /\ h[j].n = h[i].to
              /\ h[i].role = "calls"
                  => Cardinality(Results(h, h[i].n)) = h[i].calls
<1> SUFFICES ASSUME NEW i \in DOMAIN h
             PROVE  /\ h[i].role = "tool"
                        => \E j \in 1 .. i - 1 : h[j].role = "calls" /\ h[j].n = h[i].to
                    /\ h[i].role = "calls"
                        => Cardinality(Results(h, h[i].n)) = h[i].calls
  OBVIOUS
<1>1. /\ DOMAIN h = 1 .. Len(h) /\ Len(h) \in Nat /\ i \in 1 .. Len(h)
      /\ \A x \in 1 .. Len(h) : h[x] \in Message
  OBVIOUS
<1>2. /\ \A x \in 1 .. Len(h) : h[x].n \in Nat /\ h[x].to \in Nat /\ h[x].calls \in Nat
      /\ h[1].role # "tool"
  BY <1>1, MessageFields
<1>3. ASSUME NEW x \in 1 .. Len(h), h[x].role = "tool"
      PROVE  LET d == h[x].n - h[x].to
             IN  /\ d \in 1 .. x - 1 /\ h[x - d].role = "calls" /\ h[x - d].n = h[x].to
                 /\ d <= h[x - d].calls /\ x - d \in 1 .. x - 1
  <2> DEFINE d == h[x].n - h[x].to
  <2>1. d \in Int
    BY <1>2
  <2>2. /\ d >= 1
        /\ \A j \in 1 .. x : j > x - d => h[j].role = "tool"
        /\ d < x => /\ h[x - d].role = "calls" /\ h[x - d].n = h[x].to
                    /\ d <= h[x - d].calls
    BY <1>1, <1>3 DEF Whole
  <2> HIDE DEF d
  <2>3. d < x
    <3>1. SUFFICES ASSUME ~(d < x) PROVE FALSE
      OBVIOUS
    <3>2. 1 \in 1 .. x /\ 1 > x - d
      BY <1>1, <2>1, <3>1
    <3> QED
      BY <1>2, <2>2, <3>2
  <2>4. d \in 1 .. x - 1 /\ x - d \in 1 .. x - 1
    BY <1>1, <2>1, <2>2, <2>3
  <2> QED
    BY <2>2, <2>3, <2>4 DEF d
<1>4. ASSUME h[i].role = "tool"
      PROVE  \E j \in 1 .. i - 1 : h[j].role = "calls" /\ h[j].n = h[i].to
  BY <1>1, <1>3, <1>4
<1>5. ASSUME h[i].role = "calls"
      PROVE  Cardinality(Results(h, h[i].n)) = h[i].calls
  <2> DEFINE k == h[i].calls
  <2>1. /\ k \in Nat /\ i + k <= Len(h)
        /\ \A j \in 1 .. k : h[i + j].role = "tool" /\ h[i + j].to = h[i].n
    BY <1>1, <1>2, <1>5 DEF Whole
  <2> HIDE DEF k
  <2>2. ASSUME NEW x \in i + 1 .. i + k PROVE x \in Results(h, h[i].n)
    <3>1. x - i \in 1 .. k /\ i + (x - i) = x /\ x \in DOMAIN h
      BY <1>1, <2>1, <2>2
    <3> QED
      BY <2>1, <3>1 DEF Results
  <2>3. ASSUME NEW x \in Results(h, h[i].n) PROVE x \in i + 1 .. i + k
    <3>1. x \in 1 .. Len(h) /\ h[x].role = "tool" /\ h[x].to = h[i].n
      BY <1>1, <2>3 DEF Results
    <3> DEFINE d == h[x].n - h[x].to
    <3>2. d = x - i
      BY <1>1, <3>1, ConsecutiveNumbers
    <3>3. d \in 1 .. x - 1 /\ d <= h[x - d].calls
      BY <1>3, <3>1
    <3> HIDE DEF d
    <3>4. x - d = i
      BY <1>1, <3>1, <3>2
    <3>5. d <= k
      BY <3>3, <3>4 DEF k
    <3> QED
      BY <1>1, <2>1, <3>1, <3>2, <3>3, <3>5
  <2>4. Results(h, h[i].n) = i + 1 .. i + k
    BY <2>2, <2>3
  <2>5. Cardinality(i + 1 .. i + k) = k
    <3>1. i + 1 \in Int /\ i + k \in Int
      BY <1>1, <2>1
    <3>2. Cardinality(i + 1 .. i + k) = IF i + 1 > i + k THEN 0 ELSE (i + k) - (i + 1) + 1
      BY <3>1, FS_Interval
    <3> QED
      BY <1>1, <2>1, <3>2
  <2> QED
    BY <2>4, <2>5 DEF k
<1> QED
  BY <1>4, <1>5

\* BuildMessages strips the results at the start, and only from the start.
LEMMA StrippedSuffix ==
    ASSUME NEW h \in Seq(Message)
    PROVE  \E m \in Nat \ {0} :
              /\ Stripped(h) = SubSeq(h, m, Len(h))
              /\ Stripped(h) # <<>> => Stripped(h)[1].role # "tool"
<1> DEFINE Ends == {i \in 1 .. Len(h) + 1 : i <= Len(h) => h[i].role # "tool"}
<1>1. Ends \in SUBSET Nat /\ Len(h) + 1 \in Ends
  OBVIOUS
<1>2. PICK f \in Ends : \A i \in Ends : f <= i
  BY <1>1, LeastElement
<1>3. /\ f \in 1 .. Len(h) + 1
      /\ f <= Len(h) => h[f].role # "tool"
      /\ \A j \in 1 .. f - 1 : h[j].role = "tool"
  BY <1>2
<1> DEFINE first == CHOOSE i \in 1 .. Len(h) + 1 :
                        /\ i <= Len(h) => h[i].role # "tool"
                        /\ \A j \in 1 .. i - 1 : h[j].role = "tool"
<1>4. first \in 1 .. Len(h) + 1 /\ (first <= Len(h) => h[first].role # "tool")
  BY <1>3
<1>5. Stripped(h) = SubSeq(h, first, Len(h))
  BY DEF Stripped
<1> HIDE DEF first
<1>6. first \in Nat \ {0} /\ Len(h) \in Nat /\ \A i \in first .. Len(h) : h[i] \in Message
  BY <1>4
<1> DEFINE t == SubSeq(h, first, Len(h))
<1>7. t # <<>> => t[1].role # "tool"
  <2>1. /\ t \in Seq(Message)
        /\ Len(t) = IF first <= Len(h) THEN Len(h) - first + 1 ELSE 0
        /\ \A i \in 1 .. Len(h) - first + 1 : t[i] = h[first + i - 1]
    BY <1>6, SubSeqProperties
  <2> HIDE DEF t
  <2>2. SUFFICES ASSUME t # <<>> PROVE t[1].role # "tool"
    OBVIOUS
  <2>3. first <= Len(h) /\ 1 \in 1 .. Len(h) - first + 1 /\ first + 1 - 1 = first
    BY <1>6, <2>1, <2>2
  <2>4. t[1] = h[first]
    BY <2>1, <2>3
  <2> QED
    BY <1>4, <2>3, <2>4
<1> QED
  BY <1>5, <1>6, <1>7

\* A message that is no result goes on from a whole history.
LEMMA AppendWhole ==
    ASSUME NEW h \in Seq(Message), Whole(h, {}), NEW e \in Message, NEW open,
           e.role # "tool", e.role = "calls" => e.n \in open
    PROVE  Whole(Append(h, e), open)
<1> DEFINE t == Append(h, e)
<1>1. /\ t \in Seq(Message) /\ Len(t) = Len(h) + 1 /\ Len(h) \in Nat
      /\ DOMAIN t = 1 .. Len(h) + 1 /\ DOMAIN h = 1 .. Len(h)
      /\ \A i \in 1 .. Len(h) : t[i] = h[i]
      /\ t[Len(h) + 1] = e
  OBVIOUS
<1> HIDE DEF t
<1>2. ASSUME NEW i \in 1 .. Len(h)
      PROVE  /\ t[i].role = "calls" =>
                  /\ i + t[i].calls <= Len(t)
                  /\ \A j \in 1 .. t[i].calls : t[i + j].role = "tool" /\ t[i + j].to = t[i].n
             /\ t[i].role = "tool" =>
                  LET d == t[i].n - t[i].to
                  IN  /\ d >= 1
                      /\ \A j \in 1 .. i : j > i - d => t[j].role = "tool"
                      /\ d < i => /\ t[i - d].role = "calls" /\ t[i - d].n = t[i].to
                                  /\ d <= t[i - d].calls
  <2>1. t[i] = h[i] /\ h[i].calls \in Nat /\ h[i].n \in Nat /\ h[i].to \in Nat
    BY <1>1, <1>2, MessageFields
  <2>2. ASSUME h[i].role = "calls"
        PROVE  /\ i + h[i].calls <= Len(t)
               /\ \A j \in 1 .. h[i].calls : t[i + j].role = "tool" /\ t[i + j].to = h[i].n
    <3>1. /\ i + h[i].calls <= Len(h)
          /\ \A j \in 1 .. h[i].calls : h[i + j].role = "tool" /\ h[i + j].to = h[i].n
      BY <1>1, <1>2, <2>2 DEF Whole
    <3>2. \A j \in 1 .. h[i].calls : i + j \in 1 .. Len(h)
      BY <1>1, <1>2, <2>1, <3>1
    <3> QED
      BY <1>1, <1>2, <2>1, <3>1, <3>2
  <2>3. ASSUME h[i].role = "tool"
        PROVE  LET d == h[i].n - h[i].to
               IN  /\ d >= 1
                   /\ \A j \in 1 .. i : j > i - d => t[j].role = "tool"
                   /\ d < i => /\ t[i - d].role = "calls" /\ t[i - d].n = h[i].to
                               /\ d <= t[i - d].calls
    <3> DEFINE d == h[i].n - h[i].to
    <3>1. d \in Int
      BY <2>1
    <3>2. /\ d >= 1
          /\ \A j \in 1 .. i : j > i - d => h[j].role = "tool"
          /\ d < i => /\ h[i - d].role = "calls" /\ h[i - d].n = h[i].to
                      /\ d <= h[i - d].calls
      BY <1>1, <1>2, <2>3 DEF Whole
    <3> HIDE DEF d
    <3>3. (\A j \in 1 .. i : t[j] = h[j]) /\ (d < i => t[i - d] = h[i - d])
      BY <1>1, <1>2, <3>1, <3>2
    <3> QED
      BY <3>2, <3>3 DEF d
  <2> QED
    BY <2>1, <2>2, <2>3
<1>3. ASSUME NEW i \in DOMAIN t, i \notin 1 .. Len(h)
      PROVE  t[i].role # "tool" /\ (t[i].role = "calls" => t[i].n \in open)
  <2>1. i = Len(h) + 1
    BY <1>1, <1>3
  <2> QED
    BY <1>1, <2>1
<1> QED
  BY <1>2, <1>3 DEF Whole, t

-----------------------------------------------------------------------------
LEMMA InitPaired == Init => Paired
<1> SUFFICES ASSUME Init PROVE Paired
  OBVIOUS
<1>1. msgs = <<>> /\ request = <<>> /\ turn = "idle" /\ DOMAIN <<>> = {}
  BY DEF Init
<1> QED
  BY <1>1 DEF Paired, Whole, RoundOpen, RequestPaired

\* A result goes on from the round in progress and, if it is the last, ends it.
LEMMA StepResult ==
    ASSUME SessInv, Paired, crashes = 0, ToolResult
    PROVE  (Whole(msgs, Open) /\ RoundOpen)'
<1> DEFINE e == [n |-> last + 1, role |-> "tool", to |-> callNo, calls |-> 0]
           L == Len(msgs)
<1>1. /\ msgs \in Seq(Message) /\ last \in Nat /\ callNo \in Nat /\ left \in Nat \ {0}
      /\ Consecutive(msgs) /\ (msgs # <<>> => msgs[L].n = last)
      /\ L \in Nat /\ DOMAIN msgs = 1 .. L /\ turn = "tools"
  BY DEF SessInv, TypeOK, NoHoles, Lacking, ToolResult
<1>2. /\ e \in Message /\ e.n = last + 1 /\ e.role = "tool" /\ e.to = callNo
  BY <1>1 DEF Message, Roles
<1>3. /\ msgs' = Append(msgs, e) /\ last' = last + 1 /\ callNo' = callNo /\ left' = left - 1
      /\ turn' = IF left = 1 THEN "llm" ELSE "tools"
  BY DEF ToolResult, AddMessage
<1> HIDE DEF e
<1>4. /\ Len(msgs') = L + 1 /\ DOMAIN msgs' = 1 .. L + 1 /\ msgs'[L + 1] = e
      /\ \A i \in 1 .. L : msgs'[i] = msgs[i]
  BY <1>1, <1>2, <1>3
<1>5. /\ Whole(msgs, {callNo}) /\ callNo <= last
      /\ \A i \in 1 .. L :
           /\ msgs[i].n = callNo => msgs[i].role = "calls" /\ L - i = msgs[i].calls - left
           /\ msgs[i].n > callNo => msgs[i].role = "tool" /\ msgs[i].to = callNo
  BY <1>1 DEF Paired, Open, RoundOpen
<1>6. \A i \in 1 .. L : /\ msgs[i].n = last - (L - i) /\ msgs[i].n \in Nat /\ msgs[i].to \in Nat
                        /\ msgs[i].calls \in Nat
  <2>1. SUFFICES ASSUME NEW i \in 1 .. L
                 PROVE  /\ msgs[i].n = last - (L - i) /\ msgs[i].n \in Nat /\ msgs[i].to \in Nat
                        /\ msgs[i].calls \in Nat
    OBVIOUS
  <2>2. L \in DOMAIN msgs /\ i \in DOMAIN msgs /\ msgs # <<>>
    BY <1>1, <2>1
  <2>3. msgs[L].n - msgs[i].n = L - i
    BY <1>1, <2>2, ConsecutiveNumbers
  <2> QED
    BY <1>1, <2>1, <2>2, <2>3, MessageFields
<1> HIDE DEF L
\* The new message.
<1>7. LET d == (last + 1) - callNo
      IN  /\ d >= 1
          /\ \A j \in 1 .. L + 1 : j > (L + 1) - d => msgs'[j].role = "tool"
          /\ d < L + 1 => /\ msgs'[(L + 1) - d].role = "calls" /\ msgs'[(L + 1) - d].n = callNo
                          /\ d <= msgs'[(L + 1) - d].calls
  <2> DEFINE d == (last + 1) - callNo
  <2>1. d >= 1 /\ d \in Nat
    BY <1>1, <1>5
  <2>2. ASSUME NEW j \in 1 .. L + 1, j > (L + 1) - d PROVE msgs'[j].role = "tool"
    <3>1. CASE j = L + 1
      BY <1>2, <1>4, <3>1
    <3>2. CASE j \in 1 .. L
      <4>1. msgs[j].n > callNo
        BY <1>1, <1>6, <2>2, <3>2
      <4> QED
        BY <1>4, <1>5, <3>2, <4>1
    <3> QED
      BY <1>1, <2>2, <3>1, <3>2
  <2>3. ASSUME d < L + 1
        PROVE  /\ msgs'[(L + 1) - d].role = "calls" /\ msgs'[(L + 1) - d].n = callNo
               /\ d <= msgs'[(L + 1) - d].calls
    <3> DEFINE x == (L + 1) - d
    <3>1. x \in 1 .. L /\ x = L - (last - callNo)
      BY <1>1, <2>1, <2>3
    <3>2. msgs[x].n = callNo
      BY <1>1, <1>6, <3>1
    <3> HIDE DEF x
    <3>3. msgs[x].role = "calls" /\ L - x = msgs[x].calls - left
      BY <1>5, <3>1, <3>2
    <3>4. d <= msgs[x].calls
      <4>1. left \in Nat \ {0} /\ msgs[x].calls \in Nat /\ L \in Nat /\ x \in Nat
        BY <1>1, <1>6, <3>1
      <4>2. last \in Nat /\ callNo \in Nat /\ L - x = last - callNo
        BY <1>1, <3>1, <4>1
      <4> QED
        BY <3>3, <4>1, <4>2
    <3> QED
      BY <1>4, <3>1, <3>2, <3>3, <3>4 DEF x
  <2> QED
    BY <2>1, <2>2, <2>3
\* The messages there were; the calls have all their results with the last one.
<1>8. ASSUME NEW i \in 1 .. L
      PROVE  /\ msgs'[i].role = "calls" /\ msgs'[i].n \notin Open' =>
                  /\ i + msgs'[i].calls <= L + 1
                  /\ \A j \in 1 .. msgs'[i].calls :
                        msgs'[i + j].role = "tool" /\ msgs'[i + j].to = msgs'[i].n
             /\ msgs'[i].role = "tool" =>
                  LET d == msgs'[i].n - msgs'[i].to
                  IN  /\ d >= 1
                      /\ \A j \in 1 .. i : j > i - d => msgs'[j].role = "tool"
                      /\ d < i => /\ msgs'[i - d].role = "calls" /\ msgs'[i - d].n = msgs'[i].to
                                  /\ d <= msgs'[i - d].calls
  <2>1. msgs'[i] = msgs[i] /\ i \in DOMAIN msgs /\ i \in Nat
    BY <1>1, <1>4, <1>8 DEF L
  <2>2. ASSUME msgs[i].role = "calls", msgs[i].n \notin Open'
        PROVE  /\ i + msgs[i].calls <= L + 1
               /\ \A j \in 1 .. msgs[i].calls :
                     msgs'[i + j].role = "tool" /\ msgs'[i + j].to = msgs[i].n
    <3>1. CASE msgs[i].n = callNo
      <4>1. left = 1
        BY <1>3, <2>2, <3>1 DEF Open
      <4>2. i + msgs[i].calls = L + 1
        <5>1. L - i = msgs[i].calls - left /\ msgs[i].calls \in Nat
          BY <1>5, <1>6, <1>8, <3>1
        <5> QED
          BY <1>1, <1>8, <4>1, <5>1
      <4>3. ASSUME NEW j \in 1 .. msgs[i].calls
            PROVE  msgs'[i + j].role = "tool" /\ msgs'[i + j].to = msgs[i].n
        <5>1. CASE i + j = L + 1
          BY <1>2, <1>4, <3>1, <5>1
        <5>2. CASE i + j \in 1 .. L
          <6>1. msgs[i + j].n > callNo
            <7>1. msgs[i + j].n = last - (L - (i + j)) /\ msgs[i].n = last - (L - i)
              BY <1>6, <1>8, <5>2
            <7> QED
              BY <1>1, <2>1, <3>1, <4>3, <7>1, <1>6, <1>8
          <6> QED
            BY <1>4, <1>5, <3>1, <5>2, <6>1
        <5> QED
          BY <1>1, <1>6, <1>8, <4>2, <4>3, <5>1, <5>2
      <4> QED
        BY <1>1, <4>2, <4>3
    <3>2. CASE msgs[i].n # callNo
      <4>1. /\ i + msgs[i].calls <= L
            /\ \A j \in 1 .. msgs[i].calls : msgs[i + j].role = "tool" /\ msgs[i + j].to = msgs[i].n
        BY <1>5, <2>1, <2>2, <3>2 DEF Whole, L
      <4>2. \A j \in 1 .. msgs[i].calls : i + j \in 1 .. L
        BY <1>1, <1>6, <1>8, <4>1
      <4>3. i + msgs[i].calls <= L + 1
        BY <1>1, <1>6, <1>8, <4>1
      <4> QED
        BY <1>4, <4>1, <4>2, <4>3
    <3> QED
      BY <3>1, <3>2
  <2>3. ASSUME msgs[i].role = "tool"
        PROVE  LET d == msgs[i].n - msgs[i].to
               IN  /\ d >= 1
                   /\ \A j \in 1 .. i : j > i - d => msgs'[j].role = "tool"
                   /\ d < i => /\ msgs'[i - d].role = "calls" /\ msgs'[i - d].n = msgs[i].to
                               /\ d <= msgs'[i - d].calls
    <3> DEFINE d == msgs[i].n - msgs[i].to
    <3>1. d \in Int
      BY <1>6, <1>8
    <3>2. /\ d >= 1
          /\ \A j \in 1 .. i : j > i - d => msgs[j].role = "tool"
          /\ d < i => /\ msgs[i - d].role = "calls" /\ msgs[i - d].n = msgs[i].to
                      /\ d <= msgs[i - d].calls
      BY <1>5, <2>1, <2>3 DEF Whole
    <3> HIDE DEF d
    <3>3. (\A j \in 1 .. i : msgs'[j] = msgs[j]) /\ (d < i => msgs'[i - d] = msgs[i - d])
      BY <1>1, <1>4, <1>8, <3>1, <3>2
    <3> QED
      BY <3>2, <3>3 DEF d
  <2> QED
    BY <2>1, <2>2, <2>3
<1>9. Whole(msgs, Open)'
  <2>1. ASSUME NEW i \in 1 .. L + 1
        PROVE  /\ msgs'[i].role = "calls" /\ msgs'[i].n \notin Open' =>
                  /\ i + msgs'[i].calls <= L + 1
                  /\ \A j \in 1 .. msgs'[i].calls :
                        msgs'[i + j].role = "tool" /\ msgs'[i + j].to = msgs'[i].n
               /\ msgs'[i].role = "tool" =>
                  LET d == msgs'[i].n - msgs'[i].to
                  IN  /\ d >= 1
                      /\ \A j \in 1 .. i : j > i - d => msgs'[j].role = "tool"
                      /\ d < i => /\ msgs'[i - d].role = "calls" /\ msgs'[i - d].n = msgs'[i].to
                                  /\ d <= msgs'[i - d].calls
    <3>1. CASE i = L + 1
      <4>1. msgs'[i].role = "tool" /\ msgs'[i].n = last + 1 /\ msgs'[i].to = callNo
        BY <1>2, <1>4, <3>1
      <4> QED
        BY <1>7, <3>1, <4>1
    <3>2. CASE i # L + 1
      BY <1>1, <1>8, <2>1, <3>2
    <3> QED
      BY <3>1, <3>2
  <2> QED
    BY <1>4, <2>1 DEF Whole
<1>10. RoundOpen'
  <2>1. SUFFICES ASSUME turn' = "tools", NEW i \in 1 .. L + 1
                 PROVE  /\ callNo' <= last'
                        /\ msgs'[i].n = callNo' =>
                             msgs'[i].role = "calls" /\ Len(msgs') - i = msgs'[i].calls - left'
                        /\ msgs'[i].n > callNo' => msgs'[i].role = "tool" /\ msgs'[i].to = callNo'
    BY <1>4, <1>1, <1>3, <1>5 DEF RoundOpen
  <2>2. CASE i = L + 1
    BY <1>1, <1>2, <1>3, <1>4, <1>5, <2>2
  <2>3. CASE i \in 1 .. L
    <3>1. msgs'[i] = msgs[i] /\ callNo' = callNo /\ callNo <= last'
      BY <1>1, <1>3, <1>4, <1>5, <2>3
    <3>2. /\ msgs[i].n = callNo => msgs[i].role = "calls" /\ L - i = msgs[i].calls - left
          /\ msgs[i].n > callNo => msgs[i].role = "tool" /\ msgs[i].to = callNo
      BY <1>5, <2>3
    <3>3. /\ Len(msgs') = L + 1 /\ left' = left - 1 /\ L \in Nat /\ left \in Nat /\ i \in Nat
          /\ msgs[i].calls \in Nat
      BY <1>1, <1>3, <1>4, <1>6, <2>3
    <3>4. L - i = msgs[i].calls - left => Len(msgs') - i = msgs[i].calls - left'
      BY <3>3
    <3> QED
      BY <3>1, <3>2, <3>4
  <2> QED
    BY <1>1, <2>1, <2>2, <2>3
<1> QED
  BY <1>9, <1>10

\* A step of a turn that appends a message that is no result.
LEMMA StepAppend ==
    ASSUME SessInv, Paired, crashes = 0, turn # "tools", turn' # "tools",
           NEW role \in {"user", "assistant"}, AddMessage(role, 0, 0)
    PROVE  (Whole(msgs, Open) /\ RoundOpen)'
<1> DEFINE e == [n |-> last + 1, role |-> role, to |-> 0, calls |-> 0]
<1>1. msgs \in Seq(Message) /\ last \in Nat
  BY DEF SessInv, TypeOK
<1>2. e \in Message /\ e.role = role
  BY <1>1 DEF Message, Roles
<1>3. msgs' = Append(msgs, e)
  BY DEF AddMessage
<1> HIDE DEF e
<1>4. Whole(msgs, {})
  BY DEF Paired, Open
<1>5. Whole(Append(msgs, e), {})
  BY <1>1, <1>2, <1>4, AppendWhole
<1> QED
  BY <1>3, <1>5 DEF Open, RoundOpen

\* The message with the calls of a round opens it.
LEMMA StepCalls ==
    ASSUME SessInv, Paired, crashes = 0, NEW k \in Nat, LlmCallsTools(k)
    PROVE  (Whole(msgs, Open) /\ RoundOpen)'
<1> DEFINE e == [n |-> last + 1, role |-> "calls", to |-> 0, calls |-> k]
           L == Len(msgs)
<1>1. /\ msgs \in Seq(Message) /\ last \in Nat /\ L \in Nat /\ DOMAIN msgs = 1 .. L
      /\ Consecutive(msgs) /\ (msgs # <<>> => msgs[L].n = last)
  BY DEF SessInv, TypeOK, NoHoles
<1>2. e \in Message /\ e.role = "calls" /\ e.n = last + 1 /\ e.calls = k
  BY <1>1 DEF Message, Roles
<1>3. /\ msgs' = Append(msgs, e) /\ last' = last + 1 /\ callNo' = last + 1 /\ left' = k
      /\ turn' = "tools" /\ turn = "llm"
  BY DEF LlmCallsTools, AddMessage
<1> HIDE DEF e
<1>4. Whole(msgs, {})
  BY <1>3 DEF Paired, Open
<1>5. Whole(Append(msgs, e), {last + 1})
  BY <1>1, <1>2, <1>4, AppendWhole
<1>6. Open' = {last + 1}
  BY <1>3 DEF Open
<1>7. /\ Len(msgs') = L + 1 /\ DOMAIN msgs' = 1 .. L + 1 /\ msgs'[L + 1] = e
      /\ \A i \in 1 .. L : msgs'[i] = msgs[i]
  BY <1>1, <1>2, <1>3
<1>8. \A i \in 1 .. L : msgs[i].n \in Nat /\ msgs[i].n <= last
  <2>1. SUFFICES ASSUME NEW i \in 1 .. L PROVE msgs[i].n \in Nat /\ msgs[i].n <= last
    OBVIOUS
  <2>2. L \in DOMAIN msgs /\ i \in DOMAIN msgs /\ msgs # <<>>
    BY <1>1, <2>1
  <2>3. msgs[L].n - msgs[i].n = L - i
    BY <1>1, <2>2, ConsecutiveNumbers
  <2>4. msgs[i].n \in Nat
    BY <1>1, <2>2, MessageFields
  <2> QED
    BY <1>1, <2>1, <2>2, <2>3, <2>4
<1> HIDE DEF L
<1>9. ASSUME NEW i \in 1 .. L + 1
      PROVE  /\ msgs'[i].n = last + 1 =>
                  msgs'[i].role = "calls" /\ Len(msgs') - i = msgs'[i].calls - k
             /\ msgs'[i].n > last + 1 => msgs'[i].role = "tool" /\ msgs'[i].to = last + 1
  <2>1. CASE i = L + 1
    BY <1>1, <1>2, <1>7, <2>1
  <2>2. CASE i # L + 1
    <3>1. i \in 1 .. L
      BY <1>1, <1>9, <2>2
    <3>2. msgs'[i].n \in Nat /\ msgs'[i].n <= last
      BY <1>7, <1>8, <3>1
    <3> QED
      BY <1>1, <3>2
  <2> QED
    BY <2>1, <2>2
<1>10. RoundOpen'
  BY <1>1, <1>3, <1>7, <1>9 DEF RoundOpen
<1> QED
  BY <1>3, <1>5, <1>6, <1>10

\* A truncation may cut off the calls of the round in progress.
LEMMA StepTruncate ==
    ASSUME SessInv, Paired, crashes = 0, NEW s \in Sums, SumTruncate(s)
    PROVE  (Whole(msgs, Open) /\ RoundOpen)'
<1>1. /\ msgs \in Seq(Message) /\ Keep \in Nat \ {0} /\ Len(msgs) \in Nat
      /\ Whole(msgs, Open) /\ RoundOpen
  BY SizeAssumption DEF SessInv, TypeOK, Paired
<1>2. UNCHANGED <<last, turn, callNo, left>> /\ Open' = Open
  BY DEF SumTruncate, turnVars, Open
<1>3. CASE Len(msgs) <= Keep
  <2>1. msgs' = msgs
    BY <1>3 DEF SumTruncate
  <2> QED
    BY <1>1, <1>2, <2>1 DEF RoundOpen
<1>4. CASE ~(Len(msgs) <= Keep)
  <2> DEFINE p == Len(msgs) - Keep
  <2>1. p \in Nat /\ p + 1 \in Nat \ {0} /\ p + 1 <= Len(msgs)
    BY <1>1, <1>4
  <2>2. msgs' = SubSeq(msgs, p + 1, Len(msgs))
    BY <1>4 DEF SumTruncate
  <2>3. Whole(SubSeq(msgs, p + 1, Len(msgs)), Open)
    BY <1>1, <2>1, SuffixWhole
  <2>4. /\ Len(msgs') = Len(msgs) - p /\ DOMAIN msgs' = 1 .. Len(msgs) - p
        /\ \A i \in 1 .. Len(msgs) - p : msgs'[i] = msgs[p + i]
    <3>1. \A x \in p + 1 .. Len(msgs) : msgs[x] \in Message
      BY <1>1, <2>1
    <3>2. /\ msgs' \in Seq(Message)
          /\ Len(msgs') = IF p + 1 <= Len(msgs) THEN Len(msgs) - (p + 1) + 1 ELSE 0
          /\ \A i \in 1 .. Len(msgs) - (p + 1) + 1 : msgs'[i] = msgs[(p + 1) + i - 1]
      BY <1>1, <2>1, <2>2, <3>1, SubSeqProperties
    <3> HIDE DEF p
    <3> QED
      BY <1>1, <2>1, <3>2
  <2> HIDE DEF p
  <2>5. RoundOpen'
    <3> SUFFICES ASSUME turn = "tools", NEW i \in 1 .. Len(msgs) - p
                 PROVE  /\ callNo <= last
                        /\ msgs'[i].n = callNo =>
                             msgs'[i].role = "calls" /\ Len(msgs') - i = msgs'[i].calls - left
                        /\ msgs'[i].n > callNo => msgs'[i].role = "tool" /\ msgs'[i].to = callNo
      BY <1>1, <1>2, <2>4 DEF RoundOpen
    <3>1. p + i \in DOMAIN msgs /\ msgs'[i] = msgs[p + i] /\ Len(msgs) - (p + i) = Len(msgs') - i
      BY <1>1, <2>1, <2>4
    <3> QED
      BY <1>1, <3>1 DEF RoundOpen
  <2> QED
    BY <1>2, <2>2, <2>3, <2>5
<1> QED
  BY <1>3, <1>4

LEMMA StepPaired == SessInv /\ Paired /\ [Next]_vars => Paired'
<1> SUFFICES ASSUME SessInv, Paired, [Next]_vars, crashes' = 0
             PROVE  (Whole(msgs, Open) /\ RoundOpen)' /\ RequestPaired'
  BY DEF Paired
<1>1. CASE Crash
  BY <1>1 DEF Crash, SessInv, TypeOK
<1>2. CASE ~Crash
  <2>1. crashes = 0
    BY <1>2 DEF vars, Next, Turn, Summarize, Proceeds, BuildRequest, AddUser, LlmFails, LlmAnswers, ToolResult,
        LlmCallsTools, SaveSnapshot, SaveRename, MaybeSummarize, SumRead, SumLlm, SumSet,
        SumTruncate, SumSnapshot, SumRename, SumEnd
  <2>2. Whole(msgs, Open) /\ RoundOpen /\ RequestPaired
    BY <2>1 DEF Paired
  <2>3. UNCHANGED request => RequestPaired'
    BY <2>2 DEF RequestPaired, Results
  <2>4. request' = <<>> => RequestPaired'
    BY DEF RequestPaired
  <2>5. ASSUME UNCHANGED <<msgs, last, callNo, left>>, turn' = "tools" <=> turn = "tools"
        PROVE  (Whole(msgs, Open) /\ RoundOpen)'
    BY <2>2, <2>5 DEF Whole, Open, RoundOpen
  <2>6. CASE UNCHANGED vars
    BY <2>3, <2>5, <2>6 DEF vars, sessVars, turnVars
  <2>7. CASE BuildRequest
    <3>1. UNCHANGED <<msgs, last, callNo, left>> /\ turn = "idle" /\ turn' = "user"
      BY <2>7 DEF BuildRequest, sessVars
    <3>2. msgs \in Seq(Message) /\ Consecutive(msgs) /\ Whole(msgs, {})
      BY <2>2, <3>1 DEF SessInv, TypeOK, NoHoles, Open
    <3>3. PICK m \in Nat \ {0} :
             /\ Stripped(msgs) = SubSeq(msgs, m, Len(msgs))
             /\ Stripped(msgs) # <<>> => Stripped(msgs)[1].role # "tool"
      BY <3>2, StrippedSuffix
    <3>4. /\ Stripped(msgs) \in Seq(Message) /\ Consecutive(Stripped(msgs))
          /\ Whole(Stripped(msgs), {})
      BY <3>2, <3>3, SuffixFacts, SuffixWhole
    <3>5. request' = Stripped(msgs)
      BY <2>7 DEF BuildRequest
    <3>6. RequestPaired'
      BY <3>3, <3>4, <3>5, WholePaired DEF RequestPaired
    <3> QED
      BY <2>5, <3>1, <3>6
  <2>8. CASE AddUser
    BY <2>1, <2>3, <2>8, StepAppend DEF AddUser
  <2>9. CASE LlmAnswers
    BY <2>1, <2>4, <2>9, StepAppend DEF LlmAnswers, EndTurn
  <2>10. ASSUME NEW k \in 1 .. MaxCalls, LlmCallsTools(k)
         PROVE  (Whole(msgs, Open) /\ RoundOpen)' /\ RequestPaired'
    <3>1. k \in Nat /\ request' = request
      BY <2>10, SizeAssumption DEF LlmCallsTools
    <3> QED
      BY <2>1, <2>3, <2>10, <3>1, StepCalls
  <2>11. CASE ToolResult
    BY <2>1, <2>3, <2>11, StepResult DEF ToolResult
  <2>12. CASE LlmFails
    <3>1. UNCHANGED <<msgs, last>> /\ turn = "llm" /\ turn' = "idle" /\ request' = <<>>
      BY <2>12 DEF LlmFails, EndTurn, sessVars
    <3> QED
      BY <2>2, <2>4, <3>1 DEF Whole, Open, RoundOpen
  <2>13. CASE SaveSnapshot \/ SaveRename \/ MaybeSummarize
    BY <2>3, <2>5, <2>13 DEF SaveSnapshot, SaveRename, MaybeSummarize, sessVars
  <2>14. ASSUME NEW s \in Sums, SumTruncate(s)
         PROVE  (Whole(msgs, Open) /\ RoundOpen)' /\ RequestPaired'
    <3>1. request' = request
      BY <2>14 DEF SumTruncate, turnVars
    <3> QED
      BY <2>1, <2>3, <2>14, <3>1, StepTruncate
  <2>15. ASSUME NEW s \in Sums, SumRead(s) \/ SumLlm(s) \/ SumSet(s) \/ SumSnapshot(s)
                                \/ SumRename(s) \/ SumEnd(s)
         PROVE  (Whole(msgs, Open) /\ RoundOpen)' /\ RequestPaired'
    <3>1. UNCHANGED <<msgs, last, callNo, left, turn, request>>
      BY <2>15 DEF SumRead, SumLlm, SumSet, SumSnapshot, SumRename, SumEnd, sessVars, turnVars
    <3> QED
      BY <2>3, <2>5, <3>1
  <2> QED
    BY <1>2, <2>6, <2>7, <2>8, <2>9, <2>10, <2>11, <2>12, <2>13, <2>14, <2>15
    DEF Next, Turn, Summarize, Proceeds
<1> QED
  BY <1>1, <1>2

\* As long as the process does not crash, every request pairs tool calls and
\* results, whatever moment of a turn a truncation cuts the history at, for any
\* number of messages kept and of calls in a round.
THEOREM RequestsPaired == SafeSpec => []PairedUntilCrash
<1>1. Paired => PairedUntilCrash
  BY DEF Paired, PairedUntilCrash
<1> QED
  BY Invariance, InitPaired, StepPaired, <1>1, PTL DEF SafeSpec

-----------------------------------------------------------------------------
\* Between the two calls of summarizeSession the summary is the one it set: no
\* other goroutine summarizes the session meanwhile.
OwnSummary == \A s \in Sums : sum[s] = "truncate" => summary \in NewSummaries(s)

LEMMA StepOwnSummary == SessInv /\ OwnSummary /\ [Next]_vars => OwnSummary'
<1> SUFFICES ASSUME SessInv, OwnSummary, [Next]_vars, NEW t \in Sums, sum'[t] = "truncate"
             PROVE  summary' \in NewSummaries(t)'
  BY DEF OwnSummary
<1>0. sum \in [Sums -> SumSteps] /\ seen \in [Sums -> Session] /\ OneSummarizer
  BY DEF SessInv, TypeOK
<1>1. ASSUME summary' = summary, sum[t] = "truncate", seen'[t] = seen[t]
      PROVE  summary' \in NewSummaries(t)'
  <2>1. NewSummaries(t)' = NewSummaries(t)
    <3>1. Batch(t)' = Batch(t)
      BY <1>1 DEF Batch
    <3>2. Spoken(t)' = Spoken(t) /\ LeftOut(t)' = LeftOut(t)
      BY <3>1 DEF Spoken, LeftOut
    <3>3. Halves(t)' = Halves(t)
      BY <3>2 DEF Halves
    <3> QED
      BY <1>1, <3>1, <3>2, <3>3 DEF NewSummaries, Numbers
  <2> QED
    BY <1>1, <2>1 DEF OwnSummary
<1>2. CASE UNCHANGED <<summary, sum, seen>>
  BY <1>1, <1>2
<1>3. CASE MaybeSummarize
  <2>1. sum[t] = "truncate"
    BY <1>0, <1>3 DEF MaybeSummarize
  <2> QED
    BY <1>1, <1>3, <2>1 DEF MaybeSummarize, sessVars
<1>4. CASE Crash
  BY <1>4 DEF Crash
<1>5. ASSUME NEW s \in Sums, SumSet(s) PROVE summary' \in NewSummaries(t)'
  <2>1. summary' \in NewSummaries(s) /\ sum' = [sum EXCEPT ![s] = "truncate"] /\ seen' = seen /\ sum[s] = "set"
    BY <1>5 DEF SumSet, Move
  <2>2. t = s
    <3>1. t # s => sum[t] = "truncate"
      BY <1>0, <2>1
    <3> QED
      BY <1>0, <2>1, <3>1 DEF OneSummarizer
  <2>3. NewSummaries(t)' = NewSummaries(t)
    <3>1. Batch(t)' = Batch(t)
      BY <2>1 DEF Batch
    <3>2. Spoken(t)' = Spoken(t) /\ LeftOut(t)' = LeftOut(t)
      BY <3>1 DEF Spoken, LeftOut
    <3>3. Halves(t)' = Halves(t)
      BY <3>2 DEF Halves
    <3> QED
      BY <2>1, <3>1, <3>2, <3>3 DEF NewSummaries, Numbers
  <2> QED
    BY <2>1, <2>2, <2>3
<1>6. ASSUME NEW s \in Sums, SumRead(s) \/ SumLlm(s) \/ SumTruncate(s) \/ SumSnapshot(s)
                             \/ SumRename(s) \/ SumEnd(s)
      PROVE  summary' \in NewSummaries(t)'
  <2>1. /\ summary' = summary
        /\ \E at \in SumSteps \ {"truncate"} : sum' = [sum EXCEPT ![s] = at]
        /\ seen' = seen \/ \E r : seen' = [seen EXCEPT ![s] = r]
    BY <1>6 DEF SumRead, SumLlm, SumTruncate, SumSnapshot, SumRename, SumEnd, Move, SumSteps, sessVars
  <2>2. t # s /\ sum[t] = "truncate"
    BY <1>0, <2>1
  <2> QED
    BY <1>0, <1>1, <2>1, <2>2
<1>7. CASE BuildRequest \/ AddUser \/ LlmFails \/ LlmAnswers \/ ToolResult \/ SaveSnapshot \/ SaveRename
  BY <1>2, <1>7 DEF BuildRequest, AddUser, LlmFails, LlmAnswers, ToolResult, SaveSnapshot,
                    SaveRename, AddMessage, sessVars, sumVars
<1>8. ASSUME NEW k \in 1 .. MaxCalls, LlmCallsTools(k) PROVE UNCHANGED <<summary, sum, seen>>
  BY <1>8 DEF LlmCallsTools, AddMessage, sumVars
<1> QED
  BY <1>2, <1>3, <1>4, <1>5, <1>6, <1>7, <1>8 DEF Next, Turn, Summarize, Proceeds, vars, sessVars, sumVars

\* What a truncation drops of the history that was read is what was summarized.
LEMMA TruncatedKnown ==
    ASSUME SessInv, OwnSummary, NEW s \in Sums, SumTruncate(s), msgs = seen[s].msgs,
           Cardinality(Spoken(s)) <= BigBatch
    PROVE  Known(seen[s].msgs, seen[s].summary) \ LeftOut(s) \subseteq Known(msgs', summary')
<1> DEFINE L == Len(msgs)
<1>1. /\ msgs \in Seq(Message) /\ L \in Nat /\ DOMAIN msgs = 1 .. L /\ Keep \in Nat \ {0}
      /\ summary' = summary /\ BigBatch \in Nat
  BY SizeAssumption DEF SessInv, TypeOK, SumTruncate
<1>2. Batch(s) \in Seq(Message) /\ Cardinality(Spoken(s)) \in Nat
  <2>1. 1 \in Int /\ L - Keep \in Int /\ \A i \in 1 .. L - Keep : msgs[i] \in Message
    BY <1>1
  <2>2. Batch(s) \in Seq(Message)
    BY <2>1, SubSeqProperties DEF Batch
  <2>3. DOMAIN Batch(s) = 1 .. Len(Batch(s)) /\ Len(Batch(s)) \in Nat
    BY <2>2
  <2>4. IsFiniteSet(Spoken(s))
    <3>1. IsFiniteSet(DOMAIN Batch(s)) /\ Spoken(s) \in SUBSET DOMAIN Batch(s)
      BY <2>3, FS_Interval DEF Spoken
    <3> QED
      BY <3>1, FS_Subset
  <2> QED
    BY <2>2, <2>4, FS_CardinalityType
<1>3. summary = (Numbers(Batch(s)) \ LeftOut(s)) \cup seen[s].summary
  <2>1. summary \in NewSummaries(s)
    BY DEF OwnSummary, SumTruncate
  <2> QED
    BY <1>1, <1>2, <2>1 DEF NewSummaries
<1>4. CASE L <= Keep
  <2>1. msgs' = msgs
    BY <1>4 DEF SumTruncate
  <2> QED
    BY <1>1, <1>3, <2>1 DEF Known
<1>5. CASE ~(L <= Keep)
  <2>1. /\ L - Keep \in Nat \ {0} /\ L - Keep + 1 \in Nat
        /\ \A i \in 1 .. L - Keep : msgs[i] \in Message
        /\ \A i \in L - Keep + 1 .. L : msgs[i] \in Message
    BY <1>1, <1>5
  <2>2. msgs' = SubSeq(msgs, L - Keep + 1, L) /\ Batch(s) = SubSeq(msgs, 1, L - Keep)
    BY <1>5 DEF SumTruncate, Batch
  <2>3. /\ Len(msgs') = Keep /\ DOMAIN msgs' = 1 .. Keep
        /\ \A i \in 1 .. Keep : msgs'[i] = msgs[L - Keep + i]
    <3>1. /\ msgs' \in Seq(Message)
          /\ Len(msgs') = IF L - Keep + 1 <= L THEN L - (L - Keep + 1) + 1 ELSE 0
          /\ \A i \in 1 .. L - (L - Keep + 1) + 1 : msgs'[i] = msgs[(L - Keep + 1) + i - 1]
      BY <1>1, <2>1, <2>2, SubSeqProperties
    <3>2. L \in Nat /\ Keep \in Nat /\ L - Keep + 1 <= L
      BY <1>1, <1>5, <2>1
    <3> HIDE DEF L
    <3>3. L - (L - Keep + 1) + 1 = Keep
      BY <3>2
    <3>4. Len(msgs') = Keep /\ \A i \in 1 .. Keep : msgs'[i] = msgs[(L - Keep + 1) + i - 1]
      BY <3>1, <3>2, <3>3
    <3>5. \A i \in 1 .. Keep : (L - Keep + 1) + i - 1 = L - Keep + i
      BY <3>2
    <3>6. DOMAIN msgs' = 1 .. Keep
      BY <3>1, <3>4
    <3> QED
      BY <3>4, <3>5, <3>6
  <2>4. /\ Len(Batch(s)) = L - Keep /\ DOMAIN Batch(s) = 1 .. L - Keep
        /\ \A i \in 1 .. L - Keep : Batch(s)[i] = msgs[i]
    <3>1. /\ Batch(s) \in Seq(Message)
          /\ Len(Batch(s)) = IF 1 <= L - Keep THEN (L - Keep) - 1 + 1 ELSE 0
          /\ \A i \in 1 .. (L - Keep) - 1 + 1 : Batch(s)[i] = msgs[1 + i - 1]
      BY <1>1, <2>1, <2>2, SubSeqProperties
    <3> HIDE DEF L
    <3> QED
      BY <1>1, <2>1, <3>1
  <2> HIDE DEF L
  <2>5. ASSUME NEW i \in 1 .. L PROVE msgs[i].n \in Numbers(Batch(s)) \cup Numbers(msgs')
    <3>1. CASE i <= L - Keep
      BY <1>1, <2>4, <2>5, <3>1 DEF Numbers
    <3>2. CASE i > L - Keep
      <4>1. i - (L - Keep) \in 1 .. Keep /\ L - Keep + (i - (L - Keep)) = i
        BY <1>1, <2>1, <2>5, <3>2
      <4>2. msgs'[i - (L - Keep)] = msgs[i]
        BY <2>3, <4>1
      <4> QED
        BY <2>3, <4>1, <4>2 DEF Numbers
    <3> QED
      BY <1>1, <2>1, <2>5, <3>1, <3>2
  <2>6. Numbers(msgs) \subseteq Numbers(Batch(s)) \cup Numbers(msgs')
    BY <1>1, <2>5 DEF Numbers
  <2> QED
    BY <1>1, <1>3, <2>6 DEF Known
<1> QED
  BY <1>4, <1>5

\* A summarization that no turn overlaps, of a batch small enough for one part,
\* forgets nothing but the oversized messages of its batch, however long the
\* history is and however much of it is kept.
THEOREM TruncationForgetsOversizedOnly == SafeSpec => TruncationCovered
<1>1. Init => OwnSummary
  BY DEF Init, OwnSummary
<1>2. SessInv /\ OwnSummary /\ [Next]_vars =>
        [\A s \in Sums :
            SumTruncate(s) /\ msgs = seen[s].msgs /\ Cardinality(Spoken(s)) <= BigBatch
                => Known(seen[s].msgs, seen[s].summary) \ LeftOut(s)
                     \subseteq Known(msgs', summary')]_vars
  BY TruncatedKnown
<1> QED
  BY Invariance, StepOwnSummary, <1>1, <1>2, PTL DEF SafeSpec, TruncationCovered
=============================================================================
