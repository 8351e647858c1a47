-------------------------- MODULE AgentTurn_proofs --------------------------
(***************************************************************************)
(* Proofs about AgentTurn for any tool calls, any number of rounds, of     *)
(* calls in a round and of messages in the session: whatever a retry       *)
(* leaves out, the request begins with the system prompt and the next      *)
(* round has its tools, and no call is executed more than twice; what was  *)
(* not compressed pairs calls and results, and no compression drops the    *)
(* newest message.                                                         *)
(***************************************************************************)
EXTENDS AgentTurn, SequenceTheorems, FiniteSetTheorems, WellFoundedInduction, TLAPS

\* Calls of this round whose goroutines have still to begin, for the call k.
Ready(k) == {i \in DOMAIN status : status[i] = "ready" /\ calls[i] = k}

\* A call that is still to begin is accounted for in what may be executed, and
\* every call executed was counted.
Accounted ==
    \A k \in Keys :
        /\ executed[k] + Cardinality(Ready(k)) <= Repeats
        /\ executed[k] + Cardinality(Ready(k)) <= recent[k]

\* Between rounds no call is pending.
Between == pc # "tools" => calls = <<>> /\ status = <<>>

TurnInv == TypeOK /\ messages # <<>> /\ SystemFirst /\ ToolsOfferedAgain /\ Between /\ Accounted

-----------------------------------------------------------------------------
LEMMA LeastElement ==
    ASSUME NEW T \in SUBSET Nat, T # {}
    PROVE  \E n \in T : \A k \in T : n <= k
<1>1. IsWellFoundedOn(OpToRel(<, Nat), Nat)
  BY NatLessThanWellFounded
<1>2. PICK n \in T : \A k \in T : <<k, n>> \notin OpToRel(<, Nat)
  BY <1>1, WFMin
<1>3. \A k \in T : ~(k < n)
  BY <1>2 DEF OpToRel
<1> QED
  BY <1>3

LEMMA GreatestElement ==
    ASSUME NEW n \in Nat, NEW T \in SUBSET (1 .. n), T # {}
    PROVE  \E i \in T : \A j \in T : j <= i
<1> DEFINE U == {u \in 0 .. n : n - u \in T}
<1>1. U \in SUBSET Nat
  OBVIOUS
<1>2. \A i \in T : n - i \in U
  OBVIOUS
<1>3. PICK u \in U : \A v \in U : u <= v
  BY <1>1, <1>2, LeastElement
<1>4. n - u \in T /\ \A j \in T : j <= n - u
  BY <1>2, <1>3
<1> QED
  BY <1>4

\* The rounds a turn can ask for: sequences of calls.
LEMMA RoundType ==
    ASSUME NEW cs \in Rounds
    PROVE  cs \in Seq(Keys) /\ DOMAIN cs = 1 .. Len(cs) /\ Len(cs) \in Nat
<1>1. PICK n \in 1 .. MaxCalls : cs \in [1 .. n -> Keys]
  BY DEF Rounds
<1>2. n \in Nat
  BY <1>1, SizeAssumption
<1> QED
  BY <1>1, <1>2

LEMMA MsgType ==
    ASSUME NEW role \in Roles, NEW round \in Nat, NEW n \in Nat
    PROVE  Msg(role, round, n) \in Message /\ Msg(role, round, n).role = role
  BY DEF Msg, Message

-----------------------------------------------------------------------------
\* Requests.

LEMMA AppendPrompt ==
    ASSUME TypeOK, SystemFirst, NEW m \in Message, m.role # "system", messages # <<>>,
           messages' = Append(messages, m)
    PROVE  messages' \in Seq(Message) /\ messages' # <<>> /\ SystemFirst'
<1>1. messages \in Seq(Message) /\ Len(messages) \in Nat \ {0} /\ DOMAIN messages = 1 .. Len(messages)
  BY DEF TypeOK
<1>2. /\ messages' \in Seq(Message) /\ Len(messages') = Len(messages) + 1
      /\ DOMAIN messages' = 1 .. Len(messages) + 1
      /\ \A i \in 1 .. Len(messages) : messages'[i] = messages[i]
      /\ messages'[Len(messages) + 1] = m
  BY <1>1
<1> QED
  BY <1>1, <1>2 DEF SystemFirst

\* The prompt and any number of the last messages that does not reach it.
LEMMA CompressedPrompt ==
    ASSUME NEW ms \in Seq(Message), NEW k \in Nat, k < Len(ms),
           \A i \in DOMAIN ms : ms[i].role = "system" <=> i = 1
    PROVE  LET c == <<ms[1]>> \o SubSeq(ms, Len(ms) - k + 1, Len(ms))
           IN  c \in Seq(Message) /\ c # <<>> /\ \A i \in DOMAIN c : c[i].role = "system" <=> i = 1
<1> DEFINE t == SubSeq(ms, Len(ms) - k + 1, Len(ms))
           c == <<ms[1]>> \o t
<1>1. Len(ms) \in Nat \ {0} /\ DOMAIN ms = 1 .. Len(ms) /\ \A i \in 1 .. Len(ms) : ms[i] \in Message
  OBVIOUS
<1>2. Len(ms) - k + 1 \in 2 .. Len(ms) + 1
  BY <1>1
<1>3. /\ t \in Seq(Message) /\ Len(t) = k
      /\ \A i \in 1 .. k : t[i] = ms[Len(ms) - k + i]
  <2>1. \A i \in (Len(ms) - k + 1) .. Len(ms) : ms[i] \in Message
    BY <1>1, <1>2
  <2>2. /\ t \in Seq(Message)
        /\ Len(t) = IF Len(ms) - k + 1 <= Len(ms) THEN Len(ms) - (Len(ms) - k + 1) + 1 ELSE 0
        /\ \A i \in 1 .. Len(ms) - (Len(ms) - k + 1) + 1 : t[i] = ms[(Len(ms) - k + 1) + i - 1]
    BY <1>1, <2>1, SubSeqProperties
  <2> HIDE DEF t
  <2> QED
    BY <1>1, <2>2
<1> HIDE DEF t
<1>4. <<ms[1]>> \in Seq(Message) /\ Len(<<ms[1]>>) = 1 /\ <<ms[1]>>[1] = ms[1]
  BY <1>1
<1>5. /\ c \in Seq(Message) /\ Len(c) = 1 + k /\ DOMAIN c = 1 .. 1 + k
      /\ c[1] = ms[1] /\ \A i \in 2 .. 1 + k : c[i] = t[i - 1]
  BY <1>3, <1>4, ConcatProperties
<1>6. \A i \in 2 .. 1 + k : c[i] = ms[Len(ms) - k + (i - 1)] /\ Len(ms) - k + (i - 1) \in 2 .. Len(ms)
  BY <1>1, <1>3, <1>5
<1> HIDE DEF c
<1>7. ASSUME NEW i \in DOMAIN c PROVE c[i].role = "system" <=> i = 1
  <2>1. CASE i = 1
    BY <1>1, <1>5, <2>1
  <2>2. CASE i # 1
    <3>1. i \in 2 .. 1 + k
      BY <1>5, <1>7, <2>2
    <3>2. PICK j \in 2 .. Len(ms) : c[i] = ms[j]
      BY <1>6, <3>1
    <3>3. ms[j].role # "system"
      BY <1>1, <3>2
    <3> QED
      BY <2>2, <3>2, <3>3
  <2> QED
    BY <2>1, <2>2
<1> QED
  BY <1>5, <1>7 DEF c, t

\* What Compress leaves of a request.
LEMMA CompressFacts ==
    ASSUME TypeOK, SystemFirst, messages # <<>>
    PROVE  /\ Compressed \in Seq(Message) /\ Compressed # <<>>
           /\ \A i \in DOMAIN Compressed : Compressed[i].role = "system" <=> i = 1
<1>1. /\ messages \in Seq(Message) /\ Len(messages) \in Nat
      /\ \A i \in DOMAIN messages : messages[i].role = "system" <=> i = 1
  BY DEF TypeOK, SystemFirst
<1>2. CASE retry = 1 /\ Len(messages) > 4
  <2>1. Len(messages) \div 4 \in Nat /\ Len(messages) \div 4 < Len(messages)
    BY <1>1, <1>2
  <2>2. Compressed = <<messages[1]>> \o SubSeq(messages, Len(messages) - Len(messages) \div 4 + 1, Len(messages))
    BY <1>2 DEF Compressed, Latest
  <2> QED
    BY <1>1, <2>1, <2>2, CompressedPrompt
<1>3. CASE retry = 2 /\ Len(messages) > 3
  <2>1. 2 \in Nat /\ 2 < Len(messages)
    BY <1>1, <1>3
  <2>2. Compressed = <<messages[1]>> \o SubSeq(messages, Len(messages) - 2 + 1, Len(messages))
    BY <1>3 DEF Compressed, Latest
  <2> QED
    BY <1>1, <2>1, <2>2, CompressedPrompt
<1>4. CASE ~(retry = 1 /\ Len(messages) > 4) /\ ~(retry = 2 /\ Len(messages) > 3)
  <2>1. Compressed = messages
    BY <1>4 DEF Compressed
  <2> QED
    BY <1>1, <2>1
<1> QED
  BY <1>2, <1>3, <1>4

\* The results of a round go on from the request.
LEMMA CollectPrompt ==
    ASSUME TypeOK, SystemFirst, messages # <<>>, messages' = messages \o Results
    PROVE  messages' \in Seq(Message) /\ messages' # <<>> /\ SystemFirst'
<1>1. /\ messages \in Seq(Message) /\ Len(messages) \in Nat \ {0} /\ calls \in Seq(Keys)
      /\ DOMAIN messages = 1 .. Len(messages) /\ iteration \in Nat
  BY SizeAssumption DEF TypeOK
<1>2. \A i \in DOMAIN calls : Msg("tool", iteration, i) \in Message /\ Msg("tool", iteration, i).role = "tool"
  BY <1>1, MsgType DEF Roles
<1>3. /\ Results \in Seq(Message) /\ DOMAIN Results = 1 .. Len(Results) /\ Len(Results) \in Nat
      /\ \A i \in 1 .. Len(Results) : Results[i].role = "tool"
  <2>1. DOMAIN calls = 1 .. Len(calls) /\ Len(calls) \in Nat
    BY <1>1
  <2>2. Results \in [1 .. Len(calls) -> Message] /\ \A i \in 1 .. Len(calls) : Results[i].role = "tool"
    BY <1>2, <2>1 DEF Results
  <2> HIDE DEF Results
  <2> QED
    BY <2>1, <2>2
<1>4. /\ messages' \in Seq(Message) /\ Len(messages') = Len(messages) + Len(Results)
      /\ DOMAIN messages' = 1 .. Len(messages) + Len(Results)
      /\ \A i \in 1 .. Len(messages) + Len(Results) :
            messages'[i] = IF i <= Len(messages) THEN messages[i] ELSE Results[i - Len(messages)]
  BY <1>1, <1>3, ConcatProperties
<1>5. ASSUME NEW i \in DOMAIN messages' PROVE messages'[i].role = "system" <=> i = 1
  <2>1. CASE i <= Len(messages)
    BY <1>1, <1>4, <1>5, <2>1 DEF SystemFirst
  <2>2. CASE i > Len(messages)
    <3>1. i - Len(messages) \in 1 .. Len(Results)
      BY <1>1, <1>3, <1>4, <1>5, <2>2
    <3>2. messages'[i].role = "tool"
      BY <1>1, <1>3, <1>4, <1>5, <2>2, <3>1
    <3> QED
      BY <1>1, <2>2, <3>2
  <2> QED
    BY <1>1, <1>4, <1>5, <2>1, <2>2
<1> QED
  BY <1>1, <1>4, <1>5 DEF SystemFirst

-----------------------------------------------------------------------------
\* How often calls are executed.

\* The calls of a round that CallTools lets go ahead are few enough: the last of
\* them had counted them all.
LEMMA LetGo ==
    ASSUME TypeOK, NEW cs \in Rounds, NEW k \in Keys
    PROVE  LET go == {i \in 1 .. Len(cs) : cs[i] = k /\ ~(Made(cs, i) > Repeats)}
               all == {i \in 1 .. Len(cs) : cs[i] = k}
           IN  /\ Cardinality(go) \in Nat /\ Cardinality(all) \in Nat
               /\ Cardinality(go) <= Cardinality(all)
               /\ go # {} => recent[k] + Cardinality(go) <= Repeats
<1> DEFINE go == {i \in 1 .. Len(cs) : cs[i] = k /\ ~(Made(cs, i) > Repeats)}
           all == {i \in 1 .. Len(cs) : cs[i] = k}
<1>1. Len(cs) \in Nat /\ recent[k] \in Nat
  BY RoundType DEF TypeOK
<1>2. IsFiniteSet(1 .. Len(cs))
  BY <1>1, FS_Interval
<1>3. IsFiniteSet(all) /\ all \in SUBSET (1 .. Len(cs)) /\ go \in SUBSET all
  BY <1>2, FS_Subset
<1>4. IsFiniteSet(go) /\ Cardinality(go) <= Cardinality(all)
  BY <1>3, FS_Subset
<1>5. Cardinality(go) \in Nat /\ Cardinality(all) \in Nat
  BY <1>3, <1>4, FS_CardinalityType
<1>6. ASSUME go # {} PROVE recent[k] + Cardinality(go) <= Repeats
  <2>1. PICK i \in go : \A j \in go : j <= i
    BY <1>1, <1>3, <1>6, GreatestElement
  <2> DEFINE upto == {j \in 1 .. i : cs[j] = k}
  <2>2. i \in 1 .. Len(cs) /\ cs[i] = k /\ Made(cs, i) = recent[k] + Cardinality(upto) /\ ~(Made(cs, i) > Repeats)
    BY <2>1 DEF Made
  <2>3. go \in SUBSET upto
    BY <1>1, <2>1
  <2>4. upto \in SUBSET (1 .. Len(cs))
    BY <1>1, <2>2
  <2>5. IsFiniteSet(upto)
    BY <1>2, <2>4, FS_Subset
  <2>6. Cardinality(go) <= Cardinality(upto) /\ Cardinality(upto) \in Nat
    BY <2>3, <2>5, FS_Subset, FS_CardinalityType
  <2> HIDE DEF upto, go
  <2> QED
    BY <1>1, <1>5, <2>2, <2>6 DEF Repeats
<1> QED
  BY <1>4, <1>5, <1>6

-----------------------------------------------------------------------------
LEMMA InitInv == Init => TurnInv
<1> SUFFICES ASSUME Init PROVE TurnInv
  OBVIOUS
<1> DEFINE past == [i \in 1 .. Past + 1 |-> Msg("chat", 0, 0)]
<1>1. messages = <<Msg("system", 0, 0)>> \o past
  BY DEF Init
<1>2. Msg("system", 0, 0) \in Message /\ Msg("system", 0, 0).role = "system"
  BY MsgType DEF Roles
<1>3. /\ past \in Seq(Message) /\ Len(past) = Past + 1 /\ Past \in Nat
      /\ \A i \in 1 .. Past + 1 : past[i].role = "chat"
  <2>1. Msg("chat", 0, 0) \in Message /\ Msg("chat", 0, 0).role = "chat"
    BY MsgType DEF Roles
  <2>2. Past \in Nat
    BY SizeAssumption
  <2> QED
    BY <2>1, <2>2
<1> HIDE DEF past
<1>4. <<Msg("system", 0, 0)>> \in Seq(Message) /\ Len(<<Msg("system", 0, 0)>>) = 1
  BY <1>2
<1>5. /\ messages \in Seq(Message) /\ Len(messages) = Past + 2 /\ DOMAIN messages = 1 .. Past + 2
      /\ messages[1] = Msg("system", 0, 0)
      /\ \A i \in 2 .. Past + 2 : messages[i] = past[i - 1]
  BY <1>1, <1>3, <1>4, ConcatProperties
<1>6. messages # <<>> /\ SystemFirst
  <2>1. messages # <<>>
    BY <1>3, <1>5
  <2>2. ASSUME NEW i \in DOMAIN messages PROVE messages[i].role = "system" <=> i = 1
    <3>1. CASE i = 1
      BY <1>2, <1>5, <3>1
    <3>2. CASE i # 1
      <4>1. i \in 2 .. Past + 2 /\ i - 1 \in 1 .. Past + 1
        BY <1>3, <1>5, <2>2, <3>2
      <4>2. messages[i].role = "chat"
        BY <1>3, <1>5, <4>1
      <4> QED
        BY <3>2, <4>2
    <3> QED
      BY <3>1, <3>2
  <2> QED
    BY <2>1, <2>2 DEF SystemFirst
<1>7. TypeOK
  <2>1. <<>> \in Seq(Keys) /\ DOMAIN <<>> = {}
    OBVIOUS
  <2>2. /\ status \in [DOMAIN calls -> {"hit", "ready", "running", "ended"}] /\ calls \in Seq(Keys)
    BY <2>1 DEF Init
  <2>3. recent \in [Keys -> Nat] /\ executed \in [Keys -> Nat]
    BY DEF Init
  <2>4. /\ iteration \in 1 .. MaxIter /\ retry \in 0 .. MaxRetries /\ offered \in BOOLEAN /\ cut \in BOOLEAN
        /\ pc \in {"llm", "tools", "done", "failed"}
    <3>1. iteration = 1 /\ retry = 0 /\ offered = TRUE /\ cut = FALSE /\ pc = "llm"
      BY DEF Init
    <3>2. 1 \in 1 .. MaxIter /\ 0 \in 0 .. MaxRetries
      BY SizeAssumption DEF MaxRetries
    <3> QED
      BY <3>1, <3>2
  <2> QED
    BY <1>5, <2>2, <2>3, <2>4 DEF TypeOK
<1>8. ToolsOfferedAgain /\ Between
  BY DEF Init, ToolsOfferedAgain, Between
<1>9. Accounted
  <2>1. \A k \in Keys : Ready(k) = {} /\ executed[k] = 0 /\ recent[k] = 0
    BY DEF Init, Ready
  <2> QED
    BY <2>1, FS_EmptySet DEF Accounted, Repeats
<1> QED
  BY <1>6, <1>7, <1>8, <1>9 DEF TurnInv

\* Ready is a finite set of the calls of the round.
LEMMA ReadyFinite ==
    ASSUME TypeOK, NEW k
    PROVE  IsFiniteSet(Ready(k)) /\ Cardinality(Ready(k)) \in Nat
<1>1. DOMAIN status = 1 .. Len(calls) /\ Len(calls) \in Nat
  BY DEF TypeOK
<1>2. IsFiniteSet(DOMAIN status)
  BY <1>1, FS_Interval
<1>3. Ready(k) \in SUBSET DOMAIN status
  BY DEF Ready
<1>4. IsFiniteSet(Ready(k))
  BY <1>2, <1>3, FS_Subset
<1> QED
  BY <1>4, FS_CardinalityType

\* One step of the turn, action by action.
LEMMA StepInv == TurnInv /\ [Next]_vars => TurnInv'
<1> SUFFICES ASSUME TurnInv, [Next]_vars PROVE TurnInv'
  OBVIOUS
<1>0. /\ TypeOK /\ messages # <<>> /\ SystemFirst /\ ToolsOfferedAgain /\ Between /\ Accounted
      /\ messages \in Seq(Message) /\ iteration \in 1 .. MaxIter /\ retry \in 0 .. MaxRetries
      /\ recent \in [Keys -> Nat] /\ executed \in [Keys -> Nat] /\ calls \in Seq(Keys)
      /\ status \in [DOMAIN calls -> {"hit", "ready", "running", "ended"}]
  BY DEF TurnInv, TypeOK
<1>1. ASSUME UNCHANGED <<calls, status, recent, executed>> PROVE Accounted'
  BY <1>0, <1>1 DEF Accounted, Ready
<1>2. ASSUME UNCHANGED messages PROVE messages' # <<>> /\ SystemFirst'
  BY <1>0, <1>2 DEF SystemFirst
<1>3. CASE UNCHANGED vars
  BY <1>0, <1>1, <1>2, <1>3 DEF vars, TurnInv, TypeOK, ToolsOfferedAgain, Between
<1>4. CASE Again
  BY <1>0, <1>1, <1>2, <1>4 DEF Again, TurnInv, TypeOK, ToolsOfferedAgain, Between, MaxRetries
<1>5. CASE Compress
  <2>1. messages' = Compressed /\ messages' \in Seq(Message) /\ messages' # <<>> /\ SystemFirst'
    BY <1>0, <1>5, CompressFacts DEF Compress, SystemFirst
  <2>2. retry' \in 1 .. MaxRetries /\ offered' \in BOOLEAN /\ cut' \in BOOLEAN
    BY <1>0, <1>5 DEF Compress, TypeOK, MaxRetries
  <2>3. UNCHANGED <<iteration, pc, calls, status, recent, executed>>
    BY <1>5 DEF Compress
  <2> QED
    BY <1>0, <1>1, <2>1, <2>2, <2>3 DEF TurnInv, TypeOK, ToolsOfferedAgain, Between
<1>6. CASE GiveUp \/ Answer
  BY <1>0, <1>1, <1>2, <1>6 DEF GiveUp, Answer, TurnInv, TypeOK, ToolsOfferedAgain, Between
<1>7. ASSUME NEW cs \in Rounds, CallTools(cs) PROVE TurnInv'
  <2>1. cs \in Seq(Keys) /\ DOMAIN cs = 1 .. Len(cs) /\ Len(cs) \in Nat
    BY <1>7, RoundType
  <2>2. messages' \in Seq(Message) /\ messages' # <<>> /\ SystemFirst'
    <3>1. Msg("calls", iteration, Len(cs)) \in Message /\ Msg("calls", iteration, Len(cs)).role = "calls"
      BY <1>0, <2>1, MsgType DEF Roles
    <3> QED
      BY <1>0, <1>7, <3>1, AppendPrompt DEF CallTools
  <2>3. /\ calls' = cs /\ pc' = "tools" /\ executed' = executed
        /\ status' = [i \in 1 .. Len(cs) |-> IF Made(cs, i) > Repeats THEN "hit" ELSE "ready"]
        /\ recent' = [k \in Keys |-> recent[k] + Cardinality({j \in 1 .. Len(cs) : cs[j] = k})]
        /\ UNCHANGED <<iteration, retry, offered, cut>>
    BY <1>7 DEF CallTools
  <2>4. recent' \in [Keys -> Nat]
    <3> DEFINE made(k) == Cardinality({j \in 1 .. Len(cs) : cs[j] = k})
    <3>1. \A k \in Keys : made(k) \in Nat
      BY <1>0, <1>7, LetGo
    <3>2. recent' = [k \in Keys |-> recent[k] + made(k)]
      BY <2>3
    <3> HIDE DEF made
    <3>3. \A k \in Keys : recent[k] + made(k) \in Nat
      BY <1>0, <3>1
    <3> QED
      BY <3>2, <3>3
  <2>5. ASSUME NEW k \in Keys
        PROVE  /\ executed'[k] + Cardinality(Ready(k)') <= Repeats
               /\ executed'[k] + Cardinality(Ready(k)') <= recent'[k]
    <3> DEFINE go == {i \in 1 .. Len(cs) : cs[i] = k /\ ~(Made(cs, i) > Repeats)}
               all == {i \in 1 .. Len(cs) : cs[i] = k}
    <3>1. Ready(k)' = go
      BY <2>3 DEF Ready
    <3>2. /\ Cardinality(go) \in Nat /\ Cardinality(all) \in Nat
          /\ Cardinality(go) <= Cardinality(all)
          /\ go # {} => recent[k] + Cardinality(go) <= Repeats
      BY <1>0, <1>7, LetGo
    <3>3. recent'[k] = recent[k] + Cardinality(all)
      BY <2>3
    <3>4. executed[k] <= Repeats /\ executed[k] <= recent[k] /\ executed[k] \in Nat /\ recent[k] \in Nat
      <4>1. Cardinality(Ready(k)) \in Nat
        BY <1>0, ReadyFinite
      <4> QED
        BY <1>0, <4>1 DEF Accounted, Repeats
    <3>5. go = {} => Cardinality(go) = 0
      BY FS_EmptySet
    <3> HIDE DEF go, all
    <3> QED
      BY <2>3, <3>1, <3>2, <3>3, <3>4, <3>5 DEF Repeats
  <2>6. status' \in [DOMAIN calls' -> {"hit", "ready", "running", "ended"}]
    BY <2>1, <2>3
  <2>7. TypeOK'
    BY <1>0, <2>1, <2>2, <2>3, <2>4, <2>6 DEF TypeOK
  <2>8. Accounted'
    BY <2>5 DEF Accounted
  <2>9. ToolsOfferedAgain' /\ Between'
    BY <2>3 DEF ToolsOfferedAgain, Between
  <2> QED
    BY <2>2, <2>7, <2>8, <2>9 DEF TurnInv
<1>8. CASE Collect
  <2>1. messages' \in Seq(Message) /\ messages' # <<>> /\ SystemFirst'
    BY <1>0, <1>8, CollectPrompt DEF Collect
  <2>2. /\ calls' = <<>> /\ status' = <<>> /\ retry' = 0 /\ offered' = TRUE
        /\ iteration' \in 1 .. MaxIter /\ pc' \in {"llm", "done"}
        /\ UNCHANGED <<recent, executed, cut>>
    BY <1>0, <1>8, SizeAssumption DEF Collect
  <2>3. calls' \in Seq(Keys) /\ status' \in [DOMAIN calls' -> {"hit", "ready", "running", "ended"}]
    <3>1. <<>> \in Seq(Keys) /\ <<>> \in [DOMAIN <<>> -> {"hit", "ready", "running", "ended"}]
      OBVIOUS
    <3> QED
      BY <2>2, <3>1
  <2>4. TypeOK'
    BY <1>0, <2>1, <2>2, <2>3 DEF TypeOK, MaxRetries
  <2>5. ASSUME NEW k \in Keys
        PROVE  /\ executed'[k] + Cardinality(Ready(k)') <= Repeats
               /\ executed'[k] + Cardinality(Ready(k)') <= recent'[k]
    <3>1. Ready(k)' = {} /\ Cardinality({}) = 0
      BY <2>2, FS_EmptySet DEF Ready
    <3>2. Cardinality(Ready(k)) \in Nat
      BY <1>0, ReadyFinite
    <3> QED
      BY <1>0, <2>2, <3>1, <3>2 DEF Accounted, Repeats
  <2>6. ToolsOfferedAgain' /\ Between'
    BY <2>2 DEF ToolsOfferedAgain, Between
  <2>7. Accounted'
    BY <2>5 DEF Accounted
  <2> QED
    BY <2>1, <2>4, <2>6, <2>7 DEF TurnInv
<1>9. ASSUME NEW i \in DOMAIN status, StartTool(i) PROVE TurnInv'
  <2>1. /\ status[i] = "ready" /\ status' = [status EXCEPT ![i] = "running"]
        /\ executed' = [executed EXCEPT ![calls[i]] = @ + 1] /\ pc = "tools"
        /\ UNCHANGED <<messages, iteration, retry, offered, pc, calls, recent, cut>>
    BY <1>9 DEF StartTool
  <2>2. calls[i] \in Keys
    BY <1>0, <1>9
  <2>3. /\ executed' \in [Keys -> Nat]
        /\ status' \in [DOMAIN calls' -> {"hit", "ready", "running", "ended"}]
    BY <1>0, <2>1, <2>2
  <2>4. TypeOK'
    BY <1>0, <2>1, <2>3 DEF TypeOK
  <2>5. ASSUME NEW k \in Keys
        PROVE  executed'[k] + Cardinality(Ready(k)') = executed[k] + Cardinality(Ready(k))
    <3>1. IsFiniteSet(Ready(k)) /\ Cardinality(Ready(k)) \in Nat
      BY <1>0, ReadyFinite
    <3>2. CASE k = calls[i]
      <4>1. i \in Ready(k) /\ Ready(k)' = Ready(k) \ {i}
        BY <1>0, <1>9, <2>1, <3>2 DEF Ready
      <4>2. Cardinality(Ready(k)') = Cardinality(Ready(k)) - 1
        BY <3>1, <4>1, FS_RemoveElement
      <4>3. executed'[k] = executed[k] + 1 /\ executed[k] \in Nat
        BY <1>0, <2>1, <2>2, <3>2
      <4> QED
        BY <3>1, <4>2, <4>3
    <3>3. CASE k # calls[i]
      <4>1. Ready(k)' = Ready(k)
        BY <1>0, <2>1, <3>3 DEF Ready
      <4>2. executed'[k] = executed[k]
        BY <1>0, <2>1, <2>2, <3>3
      <4> QED
        BY <4>1, <4>2
    <3> QED
      BY <3>2, <3>3
  <2>6. Accounted'
    BY <1>0, <2>1, <2>5 DEF Accounted
  <2> QED
    BY <1>0, <1>2, <2>1, <2>4, <2>6 DEF TurnInv, ToolsOfferedAgain, Between
<1>10. ASSUME NEW i \in DOMAIN status, EndTool(i) PROVE TurnInv'
  <2>1. /\ status[i] = "running" /\ status' = [status EXCEPT ![i] = "ended"] /\ pc = "tools"
        /\ UNCHANGED <<messages, iteration, retry, offered, pc, calls, recent, executed, cut>>
    BY <1>10 DEF EndTool
  <2>2. TypeOK'
    BY <1>0, <2>1 DEF TypeOK
  <2>3. \A k \in Keys : Ready(k)' = Ready(k)
    BY <1>0, <2>1 DEF Ready
  <2>4. Accounted'
    BY <1>0, <2>1, <2>3 DEF Accounted
  <2> QED
    BY <1>0, <1>2, <2>1, <2>2, <2>4 DEF TurnInv, ToolsOfferedAgain, Between
<1> QED
  BY <1>3, <1>4, <1>5, <1>6, <1>7, <1>8, <1>9, <1>10 DEF Next, Llm, Tools

LEMMA Invariance == SafeSpec => []TurnInv
  BY InitInv, StepInv, PTL DEF SafeSpec

\* The state of a turn has its types; the retries stay within their limit.
THEOREM TypeCorrect == SafeSpec => []TypeOK
<1>1. TurnInv => TypeOK
  BY DEF TurnInv
<1> QED
  BY Invariance, <1>1, PTL

\* Whatever compression leaves out, for a history of any length, the request
\* begins with the system prompt and holds it once.
THEOREM PromptFirst == SafeSpec => []SystemFirst
<1>1. TurnInv => SystemFirst
  BY DEF TurnInv
<1> QED
  BY Invariance, <1>1, PTL

\* The definitions that the first retry leaves out are back in the next round.
THEOREM ToolsEachRound == SafeSpec => []ToolsOfferedAgain
<1>1. TurnInv => ToolsOfferedAgain
  BY DEF TurnInv
<1> QED
  BY Invariance, <1>1, PTL

\* The count that runLLMIteration keeps before it starts the goroutines lets no
\* call be executed more than twice, in any number of rounds of any size.
THEOREM RepeatedTwice == SafeSpec => []AtMostTwice
<1>1. TurnInv => AtMostTwice
  <2>1. SUFFICES ASSUME TurnInv, NEW k \in Keys PROVE executed[k] <= Repeats
    BY <2>1 DEF AtMostTwice
  <2>2. executed[k] + Cardinality(Ready(k)) <= Repeats /\ executed[k] \in Nat
    BY <2>1 DEF TurnInv, Accounted, TypeOK
  <2>3. Cardinality(Ready(k)) \in Nat
    BY <2>1, ReadyFinite DEF TurnInv
  <2> QED
    BY <2>2, <2>3 DEF Repeats
<1> QED
  BY Invariance, <1>1, PTL
-----------------------------------------------------------------------------
\* Calls and results.

\* The first n messages pair the calls of a round with their results.
PairedUpTo(n) ==
    \A i \in 1 .. n :
        /\ messages[i].role = "calls" =>
             \A j \in 1 .. messages[i].n :
                i + j \in 1 .. n /\ messages[i + j] = Msg("tool", messages[i].round, j)
        /\ messages[i].role = "tool" =>
             LET c == i - messages[i].n
             IN  /\ c \in 1 .. n
                 /\ messages[c].role = "calls" /\ messages[c].round = messages[i].round
                 /\ messages[i].n <= messages[c].n

\* While the tools run, the last message is the one with their calls, which has
\* no results yet; what is before it is paired.
Pairing ==
    ~cut => IF pc = "tools"
            THEN /\ messages[Len(messages)] = Msg("calls", iteration, Len(calls))
                 /\ PairedUpTo(Len(messages) - 1)
            ELSE PairedUpTo(Len(messages))

LEMMA MsgFields ==
    \A role, round, n : /\ Msg(role, round, n).role = role /\ Msg(role, round, n).round = round
                        /\ Msg(role, round, n).n = n
  BY DEF Msg

\* A step that leaves the first messages alone leaves them paired.
LEMMA PairedKept ==
    ASSUME NEW n \in Nat, Len(messages') - 1 = n, PairedUpTo(n),
           \A i \in 1 .. n : messages'[i] = messages[i]
    PROVE  PairedUpTo(Len(messages) - 1)'
<1>1. ASSUME NEW i \in 1 .. n
      PROVE  /\ messages'[i].role = "calls" =>
                  \A j \in 1 .. messages'[i].n :
                     i + j \in 1 .. n /\ messages'[i + j] = Msg("tool", messages'[i].round, j)
             /\ messages'[i].role = "tool" =>
                  LET c == i - messages'[i].n
                  IN  /\ c \in 1 .. n
                      /\ messages'[c].role = "calls" /\ messages'[c].round = messages'[i].round
                      /\ messages'[i].n <= messages'[c].n
  BY <1>1 DEF PairedUpTo
<1> QED
  BY <1>1 DEF PairedUpTo

LEMMA InitPairing == Init => Pairing
<1> SUFFICES ASSUME Init PROVE PairedUpTo(Len(messages))
  BY DEF Init, Pairing
<1> DEFINE past == [i \in 1 .. Past + 1 |-> Msg("chat", 0, 0)]
<1>1. /\ past \in Seq(Message) /\ Len(past) = Past + 1 /\ Past \in Nat
      /\ \A i \in 1 .. Past + 1 : past[i].role = "chat"
  <2>1. Msg("chat", 0, 0) \in Message /\ Msg("chat", 0, 0).role = "chat"
    BY MsgType DEF Roles
  <2> QED
    BY <2>1, SizeAssumption
<1>2. messages = <<Msg("system", 0, 0)>> \o past
  BY DEF Init
<1> HIDE DEF past
<1>3. Msg("system", 0, 0) \in Message /\ Msg("system", 0, 0).role = "system"
  BY MsgType DEF Roles
<1>4. <<Msg("system", 0, 0)>> \in Seq(Message) /\ Len(<<Msg("system", 0, 0)>>) = 1
  BY <1>3
<1>5. /\ Len(messages) = Past + 2 /\ messages[1] = Msg("system", 0, 0)
      /\ \A i \in 2 .. Past + 2 : messages[i] = past[i - 1]
  BY <1>1, <1>2, <1>4, ConcatProperties
<1>6. ASSUME NEW i \in 1 .. Len(messages)
      PROVE  messages[i].role \in {"system", "chat"}
  <2>1. CASE i = 1
    BY <1>3, <1>5, <2>1
  <2>2. CASE i # 1
    <3>1. i \in 2 .. Past + 2 /\ i - 1 \in 1 .. Past + 1
      BY <1>1, <1>5, <1>6, <2>2
    <3> QED
      BY <1>1, <1>5, <3>1
  <2> QED
    BY <2>1, <2>2
<1> QED
  BY <1>6 DEF PairedUpTo

\* The results of the round close it.
LEMMA CollectPairs ==
    ASSUME TurnInv, Pairing, pc = "tools", ~cut, messages' = messages \o Results
    PROVE  PairedUpTo(Len(messages))'
<1> DEFINE L == Len(messages)
           K == Len(calls)
<1>1. /\ messages \in Seq(Message) /\ L \in Nat \ {0} /\ calls \in Seq(Keys) /\ K \in Nat
      /\ DOMAIN calls = 1 .. K /\ iteration \in Nat
  BY SizeAssumption DEF TurnInv, TypeOK
<1>2. Results \in Seq(Message) /\ Len(Results) = K
  <2>1. \A i \in DOMAIN calls : Msg("tool", iteration, i) \in Message
    BY <1>1, MsgType DEF Roles
  <2>2. Results \in [1 .. K -> Message]
    BY <1>1, <2>1 DEF Results
  <2> HIDE DEF Results, K
  <2>3. Results \in Seq(Message) /\ DOMAIN Results = 1 .. K
    BY <1>1, <2>2
  <2> QED
    BY <1>1, <2>3
<1>3. /\ Len(messages') = L + K
      /\ \A i \in 1 .. L : messages'[i] = messages[i]
      /\ \A j \in 1 .. K : messages'[L + j] = Msg("tool", iteration, j)
  <2>1. /\ Len(messages') = L + K
        /\ \A i \in 1 .. L + K : messages'[i] = IF i <= L THEN messages[i] ELSE Results[i - L]
    BY <1>1, <1>2, ConcatProperties
  <2>2. ASSUME NEW j \in 1 .. K PROVE messages'[L + j] = Msg("tool", iteration, j)
    <3>1. L + j \in 1 .. L + K /\ ~(L + j <= L) /\ (L + j) - L = j /\ j \in DOMAIN calls
      BY <1>1, <2>2
    <3>2. messages'[L + j] = Results[j]
      BY <2>1, <3>1
    <3> QED
      BY <3>1, <3>2 DEF Results
  <2>3. \A i \in 1 .. L : messages'[i] = messages[i]
    BY <1>1, <2>1
  <2> QED
    BY <2>1, <2>2, <2>3
<1>4. messages[L] = Msg("calls", iteration, K) /\ PairedUpTo(L - 1)
  BY DEF Pairing
<1> HIDE DEF L, K
<1>5. ASSUME NEW i \in 1 .. L + K
      PROVE  /\ messages'[i].role = "calls" =>
                  \A j \in 1 .. messages'[i].n :
                     i + j \in 1 .. L + K /\ messages'[i + j] = Msg("tool", messages'[i].round, j)
             /\ messages'[i].role = "tool" =>
                  LET c == i - messages'[i].n
                  IN  /\ c \in 1 .. L + K
                      /\ messages'[c].role = "calls" /\ messages'[c].round = messages'[i].round
                      /\ messages'[i].n <= messages'[c].n
  <2>1. CASE i \in 1 .. L - 1
    <3>1. messages'[i] = messages[i]
      BY <1>1, <1>3, <2>1
    <3>2. ASSUME messages[i].role = "calls", NEW j \in 1 .. messages[i].n
          PROVE  i + j \in 1 .. L + K /\ messages'[i + j] = Msg("tool", messages[i].round, j)
      <4>1. i + j \in 1 .. L - 1 /\ messages[i + j] = Msg("tool", messages[i].round, j)
        BY <1>4, <2>1, <3>2 DEF PairedUpTo
      <4>2. i + j \in 1 .. L /\ i + j \in 1 .. L + K
        BY <1>1, <4>1
      <4> QED
        BY <1>3, <4>1, <4>2
    <3>3. ASSUME messages[i].role = "tool"
          PROVE  /\ i - messages[i].n \in 1 .. L + K
                 /\ messages'[i - messages[i].n].role = "calls"
                 /\ messages'[i - messages[i].n].round = messages[i].round
                 /\ messages[i].n <= messages'[i - messages[i].n].n
      <4> DEFINE c == i - messages[i].n
      <4>1. /\ c \in 1 .. L - 1 /\ messages[c].role = "calls"
            /\ messages[c].round = messages[i].round /\ messages[i].n <= messages[c].n
        BY <1>4, <2>1, <3>3 DEF PairedUpTo
      <4> HIDE DEF c
      <4>2. c \in 1 .. L /\ c \in 1 .. L + K
        BY <1>1, <4>1
      <4>3. messages'[c] = messages[c]
        BY <1>3, <4>2
      <4> QED
        BY <4>1, <4>2, <4>3 DEF c
    <3>4. messages[i].role = "calls" =>
             \A j \in 1 .. messages[i].n :
                i + j \in 1 .. L + K /\ messages'[i + j] = Msg("tool", messages[i].round, j)
      BY <3>2
    <3> QED
      BY <3>1, <3>3, <3>4
  <2>2. CASE i = L
    <3>1. messages'[i].role = "calls" /\ messages'[i].round = iteration /\ messages'[i].n = K
      BY <1>1, <1>3, <1>4, <2>2, MsgFields
    <3>2. \A j \in 1 .. K : i + j \in 1 .. L + K /\ messages'[i + j] = Msg("tool", iteration, j)
      BY <1>1, <1>3, <2>2
    <3> QED
      BY <3>1, <3>2
  <2>3. CASE i > L
    <3>1. i - L \in 1 .. K /\ i = L + (i - L)
      BY <1>1, <1>5, <2>3
    <3>2. messages'[i] = Msg("tool", iteration, i - L)
      BY <1>3, <3>1
    <3>3. messages'[i].role = "tool" /\ messages'[i].round = iteration /\ messages'[i].n = i - L
      BY <3>2, MsgFields
    <3>4. i - messages'[i].n = L /\ L \in 1 .. L + K /\ L \in 1 .. L
      BY <1>1, <3>1, <3>3
    <3>5. messages'[L].role = "calls" /\ messages'[L].round = iteration /\ messages'[L].n = K
      BY <1>3, <1>4, <3>4, MsgFields
    <3>6. i - L <= K
      BY <1>1, <3>1
    <3> QED
      BY <3>3, <3>4, <3>5, <3>6
  <2>4. i \in 1 .. L - 1 \/ i = L \/ i > L
    BY <1>1, <1>5
  <2> QED
    BY <2>1, <2>2, <2>3, <2>4
<1>6. Len(messages') = L + K
  BY <1>3
<1> QED
  BY <1>5, <1>6 DEF PairedUpTo

LEMMA StepPairing == TurnInv /\ Pairing /\ [Next]_vars => Pairing'
<1> SUFFICES ASSUME TurnInv, Pairing, [Next]_vars, ~cut' PROVE Pairing'
  BY DEF Pairing
<1>1. messages \in Seq(Message) /\ Len(messages) \in Nat \ {0} /\ calls \in Seq(Keys)
  BY DEF TurnInv, TypeOK
<1>2. CASE UNCHANGED <<messages, iteration, calls, cut>> /\ (pc' = "tools" <=> pc = "tools")
  BY <1>2 DEF Pairing, PairedUpTo
<1>3. CASE Compress
  <2>1. ~cut /\ messages' = messages /\ UNCHANGED <<iteration, calls, pc>>
    BY <1>3 DEF Compress
  <2> QED
    BY <2>1 DEF Pairing, PairedUpTo
<1>4. ASSUME NEW cs \in Rounds, CallTools(cs) PROVE Pairing'
  <2>1. /\ ~cut /\ pc # "tools" /\ pc' = "tools" /\ calls' = cs /\ iteration' = iteration
        /\ messages' = Append(messages, Msg("calls", iteration, Len(cs)))
    BY <1>4 DEF CallTools
  <2>2. Msg("calls", iteration, Len(cs)) \in Message
    <3>1. iteration \in Nat /\ Len(cs) \in Nat
      BY <1>4, RoundType, SizeAssumption DEF TurnInv, TypeOK
    <3> QED
      BY <3>1, MsgType DEF Roles
  <2>3. /\ Len(messages') = Len(messages) + 1
        /\ \A i \in 1 .. Len(messages) : messages'[i] = messages[i]
        /\ messages'[Len(messages) + 1] = Msg("calls", iteration, Len(cs))
    BY <1>1, <2>1, <2>2, AppendProperties
  <2>4. PairedUpTo(Len(messages))
    BY <2>1 DEF Pairing
  <2>5. \A i \in 1 .. Len(messages') - 1 : messages'[i] = messages[i]
    BY <1>1, <2>3
  <2>6. Len(messages') - 1 = Len(messages)
    BY <1>1, <2>3
  <2>7. messages'[Len(messages')] = Msg("calls", iteration', Len(calls'))
    BY <2>1, <2>3
  <2>8. PairedUpTo(Len(messages) - 1)'
    <3> DEFINE N == Len(messages)
    <3>1. /\ N \in Nat /\ Len(messages') - 1 = N /\ \A i \in 1 .. N : messages'[i] = messages[i]
          /\ PairedUpTo(N)
      BY <1>1, <2>3, <2>4
    <3> HIDE DEF N
    <3> QED
      BY <3>1, PairedKept
  <2> QED
    BY <2>1, <2>7, <2>8 DEF Pairing
<1>5. CASE Collect
  <2>1. ~cut /\ pc = "tools" /\ pc' # "tools" /\ messages' = messages \o Results
    BY <1>5 DEF Collect
  <2> QED
    BY <2>1, CollectPairs DEF Pairing
<1>6. ASSUME NEW i \in DOMAIN status, StartTool(i) \/ EndTool(i) PROVE Pairing'
  BY <1>2, <1>6 DEF StartTool, EndTool
<1> QED
  BY <1>2, <1>3, <1>4, <1>5, <1>6 DEF Next, Llm, Tools, Again, GiveUp, Answer, vars

\* A request that was not compressed has the results of exactly the calls of
\* each round behind them, for any calls in any number of rounds, whatever order
\* their goroutines end in.
THEOREM RoundsPaired == SafeSpec => []RoundsWhole
<1>1. Init => Pairing
  BY InitPairing
<1>2. TurnInv /\ Pairing /\ [Next]_vars => Pairing'
  BY StepPairing
<1>3. TurnInv /\ Pairing => RoundsWhole
  <2> SUFFICES ASSUME TurnInv, Pairing, pc = "llm", ~cut, NEW i \in DOMAIN messages
               PROVE  /\ messages[i].role = "calls" =>
                           \A j \in 1 .. messages[i].n :
                              /\ i + j \in DOMAIN messages
                              /\ messages[i + j] = Msg("tool", messages[i].round, j)
                      /\ messages[i].role = "tool" =>
                           LET c == i - messages[i].n
                           IN  /\ c \in DOMAIN messages
                               /\ messages[c].role = "calls" /\ messages[c].round = messages[i].round
                               /\ messages[i].n <= messages[c].n
    BY DEF RoundsWhole
  <2>1. DOMAIN messages = 1 .. Len(messages)
    BY DEF TurnInv, TypeOK
  <2>2. PairedUpTo(Len(messages))
    BY DEF Pairing
  <2> QED
    BY <2>1, <2>2 DEF PairedUpTo
<1> QED
  BY Invariance, <1>1, <1>2, <1>3, PTL DEF SafeSpec

-----------------------------------------------------------------------------
\* What is left of a request that is retried ends as the request did.
LEMMA CompressedEnd ==
    ASSUME TurnInv
    PROVE  Compressed[Len(Compressed)] = messages[Len(messages)]
<1> DEFINE L == Len(messages)
<1>1. messages \in Seq(Message) /\ L \in Nat \ {0} /\ \A i \in 1 .. L : messages[i] \in Message
  BY DEF TurnInv, TypeOK
<1>2. ASSUME NEW k \in Nat, 0 < k, k < L
      PROVE  LET c == <<messages[1]>> \o SubSeq(messages, L - k + 1, L) IN c[Len(c)] = messages[L]
  <2> DEFINE t == SubSeq(messages, L - k + 1, L)
             c == <<messages[1]>> \o t
  <2>1. L - k + 1 \in 1 .. L /\ L \in L - k + 1 .. L /\ L - (L - k + 1) + 1 = k
    BY <1>1, <1>2
  <2>2. t \in Seq(Message) /\ Len(t) = k /\ t[k] = messages[L]
    <3>1. \A i \in (L - k + 1) .. L : messages[i] \in Message
      BY <1>1, <2>1
    <3>2. /\ t \in Seq(Message)
          /\ Len(t) = IF L - k + 1 <= L THEN L - (L - k + 1) + 1 ELSE 0
          /\ \A i \in 1 .. L - (L - k + 1) + 1 : t[i] = messages[(L - k + 1) + i - 1]
      BY <1>1, <2>1, <3>1, SubSeqProperties
    <3> HIDE DEF t
    <3>3. k \in 1 .. L - (L - k + 1) + 1 /\ (L - k + 1) + k - 1 = L
      BY <1>1, <1>2
    <3>4. Len(t) = k
      BY <2>1, <3>2
    <3>5. t[k] = messages[(L - k + 1) + k - 1]
      BY <3>2, <3>3
    <3> QED
      BY <3>2, <3>3, <3>4, <3>5
  <2> HIDE DEF t
  <2>3. <<messages[1]>> \in Seq(Message) /\ Len(<<messages[1]>>) = 1
    BY <1>1
  <2>4. Len(c) = 1 + k /\ c[1 + k] = t[k]
    BY <1>2, <2>2, <2>3, ConcatProperties
  <2> QED
    BY <2>2, <2>4 DEF t
<1> HIDE DEF L
<1>3. CASE retry = 1 /\ Len(messages) > 4
  <2>1. L \div 4 \in Nat /\ L \div 4 < L /\ 0 < L \div 4
    BY <1>1, <1>3 DEF L
  <2>2. Compressed = <<messages[1]>> \o SubSeq(messages, L - (L \div 4) + 1, L)
    BY <1>3 DEF Compressed, Latest, L
  <2> QED
    BY <1>2, <2>1, <2>2 DEF L
<1>4. CASE retry = 2 /\ Len(messages) > 3
  <2>1. 2 \in Nat /\ 2 < L /\ 0 < 2
    BY <1>1, <1>4 DEF L
  <2>2. Compressed = <<messages[1]>> \o SubSeq(messages, L - 2 + 1, L)
    BY <1>4 DEF Compressed, Latest, L
  <2> QED
    BY <1>2, <2>1, <2>2 DEF L
<1>5. CASE ~(retry = 1 /\ Len(messages) > 4) /\ ~(retry = 2 /\ Len(messages) > 3)
  BY <1>5 DEF Compressed
<1> QED
  BY <1>3, <1>4, <1>5

\* No retry of an LLM call cuts off the newest message of the request, for a
\* request of any length.
THEOREM NewestMessageKept == SafeSpec => NewestKept
<1>1. TurnInv /\ [Next]_vars
        => [retry' > retry => messages'[Len(messages')] = messages[Len(messages)]]_vars
  <2> SUFFICES ASSUME TurnInv, Next, retry' > retry
               PROVE  messages'[Len(messages')] = messages[Len(messages)]
    OBVIOUS
  <2>1. retry \in Nat
    BY DEF TurnInv, TypeOK, MaxRetries
  <2>2. Again \/ Compress
    <3>1. ~(retry > retry) /\ ~(0 > retry)
      BY <2>1
    <3> QED
      BY <3>1 DEF Next, Llm, Tools, GiveUp, Answer, CallTools, Collect, StartTool, EndTool
  <2> QED
    BY <2>2, CompressedEnd DEF Again, Compress
<1> QED
  BY Invariance, <1>1, PTL DEF SafeSpec, NewestKept
=============================================================================
