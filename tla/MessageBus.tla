----------------------------- MODULE MessageBus -----------------------------
(***************************************************************************)
(* pkg/bus/bus.go: two bounded Go channels and a handler table behind one  *)
(* sync.RWMutex.  A publisher keeps the read lock while its send blocks on *)
(* a full channel; Close and RegisterHandler need the write lock;          *)
(* consumers take no lock.  Go's RWMutex refuses new readers from the      *)
(* moment a writer has announced itself.                                   *)
(***************************************************************************)
EXTENDS Naturals, Sequences, FiniteSets

CONSTANTS
    Procs,      \* goroutines that call PublishX, GetHandler, RegisterHandler or Close
    NoProc,
    Cap,        \* capacity of each channel (100 in NewMessageBus)
    Ops,        \* the methods goroutines call
    MaxCalls,   \* bound: calls each goroutine makes
    ZeroMsg     \* InboundMessage{}, received from a closed, empty channel

ASSUME CapAssumption == Cap \in Nat \ {0}
ASSUME ProcAssumption == NoProc \notin Procs
ASSUME CallAssumption == MaxCalls \in Nat

Dirs == {"inbound", "outbound"}     \* PublishInbound, PublishOutbound
Reads == Dirs \cup {"get"}          \* ... and GetHandler
Writes == {"register", "close"}

ASSUME OpsAssumption == Ops \subseteq Reads \cup Writes

Messages == Procs \X (1 .. MaxCalls)    \* the n-th call of a goroutine

VARIABLES
    queue,      \* mb.inbound, mb.outbound
    closed,     \* mb.closed
    handlers,   \* goroutines whose handler RegisterHandler stored
    readers,    \* goroutines holding mb.mu for reading
    writer,     \* goroutine that announced or holds mb.mu for writing
    pc,         \* where a goroutine is in its call
    op,         \* the call it is making
    calls,      \* calls made so far
    received,   \* history: what the consumer of each channel got
    cancelled   \* the context of each channel's consumer is done

lockVars == <<readers, writer>>
vars == <<queue, closed, handlers, readers, writer, pc, op, calls, received, cancelled>>

Init ==
    /\ queue = [d \in Dirs |-> <<>>]
    /\ closed = FALSE
    /\ handlers = {}
    /\ readers = {}
    /\ writer = NoProc
    /\ pc = [p \in Procs |-> "idle"]
    /\ op = [p \in Procs |-> "get"]
    /\ calls = [p \in Procs |-> 0]
    /\ received = [d \in Dirs |-> <<>>]
    /\ cancelled = [d \in Dirs |-> FALSE]

Call(p, o) ==
    /\ pc[p] = "idle"
    /\ calls[p] < MaxCalls
    /\ op' = [op EXCEPT ![p] = o]
    /\ calls' = [calls EXCEPT ![p] = @ + 1]
    /\ pc' = [pc EXCEPT ![p] = IF o \in Reads THEN "rlock" ELSE "lock"]
    /\ UNCHANGED <<queue, closed, handlers, lockVars, received, cancelled>>

-----------------------------------------------------------------------------
\* Readers: PublishInbound, PublishOutbound, GetHandler.

RUnlock(p) ==
    /\ readers' = readers \ {p}
    /\ pc' = [pc EXCEPT ![p] = "idle"]

RLock(p) ==
    /\ pc[p] = "rlock"
    /\ writer = NoProc
    /\ readers' = readers \cup {p}
    /\ pc' = [pc EXCEPT ![p] = "reading"]
    /\ UNCHANGED <<queue, closed, handlers, writer, op, calls, received, cancelled>>

GetHandler(p) ==
    /\ pc[p] = "reading" /\ op[p] = "get"
    /\ RUnlock(p)
    /\ UNCHANGED <<queue, closed, handlers, writer, op, calls, received, cancelled>>

\* Mutant of PublishCheck: the lock is released before the blocking send.
PublishCheckUnlocked(p) ==
    /\ pc[p] = "reading" /\ op[p] \in Dirs
    /\ readers' = readers \ {p}
    /\ pc' = [pc EXCEPT ![p] = IF closed THEN "idle" ELSE "send"]
    /\ UNCHANGED <<queue, closed, handlers, writer, op, calls, received, cancelled>>

\* The early return of a closed bus, or the blocking send that follows.
PublishCheck(p) ==
    /\ pc[p] = "reading" /\ op[p] \in Dirs
    /\ IF closed
       THEN RUnlock(p)
       ELSE pc' = [pc EXCEPT ![p] = "send"] /\ UNCHANGED readers
    /\ UNCHANGED <<queue, closed, handlers, writer, op, calls, received, cancelled>>

\* Mutant of Send: a full channel makes the send return without the deferred unlock.
SendKeepsLock(p) ==
    /\ pc[p] = "send"
    /\ Len(queue[op[p]]) < Cap
    /\ queue' = [queue EXCEPT ![op[p]] = Append(@, <<p, calls[p]>>)]
    /\ pc' = [pc EXCEPT ![p] = "idle"]
    /\ UNCHANGED <<closed, handlers, lockVars, op, calls, received, cancelled>>

\* Mutant of Send: the capacity of the channel is off by one.
SendOverfull(p) ==
    /\ pc[p] = "send"
    /\ Len(queue[op[p]]) <= Cap
    /\ queue' = [queue EXCEPT ![op[p]] = Append(@, <<p, calls[p]>>)]
    /\ RUnlock(p)
    /\ UNCHANGED <<closed, handlers, writer, op, calls, received, cancelled>>

\* Mutant of Send: the read lock is to be upgraded to the write lock first.
SendUpgrades(p) ==
    /\ pc[p] = "send" /\ readers = {p}
    /\ Len(queue[op[p]]) < Cap
    /\ queue' = [queue EXCEPT ![op[p]] = Append(@, <<p, calls[p]>>)]
    /\ RUnlock(p)
    /\ UNCHANGED <<closed, handlers, writer, op, calls, received, cancelled>>

\* The channel send completes and the deferred RUnlock runs.
Send(p) ==
    /\ pc[p] = "send"
    /\ Len(queue[op[p]]) < Cap
    /\ queue' = [queue EXCEPT ![op[p]] = Append(@, <<p, calls[p]>>)]
    /\ RUnlock(p)
    /\ UNCHANGED <<closed, handlers, writer, op, calls, received, cancelled>>

-----------------------------------------------------------------------------
\* Writers: RegisterHandler, Close.

Announce(p) ==
    /\ pc[p] = "lock"
    /\ writer = NoProc
    /\ writer' = p
    /\ pc' = [pc EXCEPT ![p] = "announced"]
    /\ UNCHANGED <<queue, closed, handlers, readers, op, calls, received, cancelled>>

Lock(p) ==
    /\ pc[p] = "announced"
    /\ readers = {}
    /\ pc' = [pc EXCEPT ![p] = "writing"]
    /\ UNCHANGED <<queue, closed, handlers, lockVars, op, calls, received, cancelled>>

Unlock(p) ==
    /\ writer' = NoProc
    /\ pc' = [pc EXCEPT ![p] = "idle"]

RegisterHandler(p) ==
    /\ pc[p] = "writing" /\ op[p] = "register"
    /\ handlers' = handlers \cup {p}
    /\ Unlock(p)
    /\ UNCHANGED <<queue, closed, readers, op, calls, received, cancelled>>

\* Mutant of Close: what the channels still hold is dropped.
CloseDrops(p) ==
    /\ pc[p] = "writing" /\ op[p] = "close"
    /\ closed' = TRUE
    /\ queue' = [d \in Dirs |-> <<>>]
    /\ Unlock(p)
    /\ UNCHANGED <<handlers, readers, op, calls, received, cancelled>>

Close(p) ==
    /\ pc[p] = "writing" /\ op[p] = "close"
    /\ closed' = TRUE
    /\ Unlock(p)
    /\ UNCHANGED <<queue, handlers, readers, op, calls, received, cancelled>>

-----------------------------------------------------------------------------
\* Consumers: ConsumeInbound and SubscribeOutbound, called in a loop by one
\* goroutine each (AgentLoop.Run, Manager.dispatchOutbound).

Consume(d) ==
    /\ ~cancelled[d]
    /\ queue[d] # <<>>
    /\ received' = [received EXCEPT ![d] = Append(@, Head(queue[d]))]
    /\ queue' = [queue EXCEPT ![d] = Tail(@)]
    /\ UNCHANGED <<closed, handlers, lockVars, pc, op, calls, cancelled>>

\* A receive from a closed, drained channel returns the zero message and TRUE,
\* as often as the consumer loops; one such receive stands for all of them.
ConsumeZero(d) ==
    /\ ~cancelled[d]
    /\ closed
    /\ queue[d] = <<>>
    /\ ZeroMsg \notin {received[d][i] : i \in DOMAIN received[d]}
    /\ received' = [received EXCEPT ![d] = Append(@, ZeroMsg)]
    /\ UNCHANGED <<queue, closed, handlers, lockVars, pc, op, calls, cancelled>>

\* The consumer's context is done: ConsumeInbound returns FALSE and the loop ends.
Cancel(d) ==
    /\ ~cancelled[d]
    /\ cancelled' = [cancelled EXCEPT ![d] = TRUE]
    /\ UNCHANGED <<queue, closed, handlers, lockVars, pc, op, calls, received>>

-----------------------------------------------------------------------------
Step(p) ==
    \/ RLock(p) \/ GetHandler(p) \/ PublishCheck(p) \/ Send(p)
    \/ Announce(p) \/ Lock(p) \/ RegisterHandler(p) \/ Close(p)

Next ==
    \/ \E p \in Procs : Step(p) \/ \E o \in Ops : Call(p, o)
    \/ \E d \in Dirs : Consume(d) \/ ConsumeZero(d) \/ Cancel(d)

\* Goroutines that can run do run, and consumers receive while their context
\* lasts; nothing makes a goroutine start a call.  Each goroutine makes finitely
\* many calls, so weak fairness covers the waits too (the RWMutex and a channel's
\* queue of blocked senders are first come first served in any case).
Fairness ==
    /\ \A p \in Procs : WF_vars(Step(p))
    /\ \A d \in Dirs : WF_vars(Consume(d))

SafeSpec == Init /\ [][Next]_vars

Spec == SafeSpec /\ Fairness

-----------------------------------------------------------------------------
\* Each variable has its type; a full channel never exceeds its capacity.
TypeOK ==
    /\ queue \in [Dirs -> Seq(Messages)]
    /\ \A d \in Dirs : Len(queue[d]) <= Cap
    /\ closed \in BOOLEAN
    /\ handlers \subseteq Procs
    /\ readers \subseteq Procs
    /\ writer \in Procs \cup {NoProc}
    /\ pc \in [Procs -> {"idle", "rlock", "reading", "send", "lock", "announced", "writing"}]
    /\ op \in [Procs -> Reads \cup Writes]
    /\ calls \in [Procs -> 0 .. MaxCalls]
    /\ received \in [Dirs -> Seq(Messages \cup {ZeroMsg})]
    /\ cancelled \in [Dirs -> BOOLEAN]

\* A goroutine that is about to send, however long it has been blocked, never
\* finds the channel closed: a send on a closed channel panics and takes the
\* process down.  This is what the read lock held across the send is for.
NoSendOnClosed ==
    \A p \in Procs : pc[p] = "send" => ~closed

\* The bus keeps its promise (BusPromise) to publishers and consumers.
Promise == INSTANCE BusPromise WITH pending <- queue, shut <- closed, handed <- received
KeepsPromise == Promise!Spec

\* A publisher that got the read lock returns, even with another publisher
\* blocked on the same full channel and a closer waiting, unless the channel's
\* consumer was cancelled: then the send can block for ever.
PublishReturns ==
    \A p \in Procs, d \in Dirs :
        (pc[p] = "send" /\ op[p] = d) ~> (pc[p] = "idle" \/ cancelled[d])

\* Close and RegisterHandler get the write lock although publishers are blocked
\* on full channels under the read lock, as long as consumers go on receiving.
WriterProceeds ==
    \A p \in Procs :
        pc[p] = "lock" ~> (pc[p] = "writing" \/ \E d \in Dirs : cancelled[d])
=============================================================================
