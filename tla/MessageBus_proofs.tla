-------------------------- MODULE MessageBus_proofs --------------------------
(***************************************************************************)
(* Proofs about MessageBus for any number of goroutines and any capacity:  *)
(* no send finds its channel closed, and the bus implements BusPromise.    *)
(* The inductive invariant adds what the RWMutex gives: a goroutine whose  *)
(* program counter says so is among the readers, or is the writer, and a   *)
(* writer that got the lock runs with no reader inside.                    *)
(***************************************************************************)
EXTENDS MessageBus, TLAPS

InCall ==
    /\ \A p \in Procs : pc[p] # "idle" => calls[p] \in 1 .. MaxCalls
    /\ \A p \in Procs : pc[p] = "send" => op[p] \in Dirs

Locking ==
    /\ \A p \in Procs : pc[p] \in {"reading", "send"} => p \in readers
    /\ \A p \in Procs : pc[p] \in {"announced", "writing"} => writer = p
    /\ \A p \in Procs : pc[p] = "writing" => readers = {}

BusInv == TypeOK /\ InCall /\ Locking /\ NoSendOnClosed

LEMMA InitInv == Init => BusInv
<1> SUFFICES ASSUME Init PROVE BusInv
  OBVIOUS
<1> USE DEF Init
<1>1. TypeOK
  <2>1. queue \in [Dirs -> Seq(Messages)] /\ received \in [Dirs -> Seq(Messages \cup {ZeroMsg})]
    OBVIOUS
  <2>2. \A d \in Dirs : Len(queue[d]) <= Cap
    BY CapAssumption
  <2>3. calls \in [Procs -> 0 .. MaxCalls]
    BY CallAssumption
  <2>4. op \in [Procs -> Reads \cup Writes]
    BY DEF Reads
  <2> QED
    BY <2>1, <2>2, <2>3, <2>4 DEF TypeOK
<1>2. InCall /\ Locking /\ NoSendOnClosed
  BY DEF InCall, Locking, NoSendOnClosed
<1> QED
  BY <1>1, <1>2 DEF BusInv

\* Every step keeps the types and the bookkeeping of calls.
LEMMA StepType == TypeOK /\ InCall /\ [Next]_vars => TypeOK' /\ InCall'
<1> SUFFICES ASSUME TypeOK, InCall, [Next]_vars PROVE TypeOK' /\ InCall'
  OBVIOUS
<1> USE DEF TypeOK, InCall, lockVars
<1>1. CASE UNCHANGED vars
  BY <1>1 DEF vars
<1>2. ASSUME NEW p \in Procs, NEW o \in Ops, Call(p, o) PROVE TypeOK' /\ InCall'
  <2>1. calls'[p] \in 1 .. MaxCalls
    BY <1>2, CallAssumption DEF Call
  <2>2. o \in Reads \cup Writes
    BY OpsAssumption
  <2> QED
    BY <1>2, <2>1, <2>2 DEF Call
<1>3. ASSUME NEW p \in Procs, RLock(p) PROVE TypeOK' /\ InCall'
  BY <1>3 DEF RLock
<1>4. ASSUME NEW p \in Procs, GetHandler(p) PROVE TypeOK' /\ InCall'
  BY <1>4 DEF GetHandler, RUnlock
<1>5. ASSUME NEW p \in Procs, PublishCheck(p) PROVE TypeOK' /\ InCall'
  BY <1>5 DEF PublishCheck, RUnlock
<1>6. ASSUME NEW p \in Procs, Send(p) PROVE TypeOK' /\ InCall'
  <2>1. <<p, calls[p]>> \in Messages /\ op[p] \in Dirs
    BY <1>6 DEF Messages, Send
  <2>2. /\ queue' \in [Dirs -> Seq(Messages)]
        /\ \A d \in Dirs : Len(queue'[d]) <= Cap
    BY <1>6, <2>1, CapAssumption DEF Send
  <2> QED
    BY <1>6, <2>2 DEF Send, RUnlock
<1>7. ASSUME NEW p \in Procs, Announce(p) PROVE TypeOK' /\ InCall'
  BY <1>7 DEF Announce
<1>8. ASSUME NEW p \in Procs, Lock(p) PROVE TypeOK' /\ InCall'
  BY <1>8 DEF Lock
<1>9. ASSUME NEW p \in Procs, RegisterHandler(p) PROVE TypeOK' /\ InCall'
  BY <1>9 DEF RegisterHandler, Unlock
<1>10. ASSUME NEW p \in Procs, Close(p) PROVE TypeOK' /\ InCall'
  BY <1>10 DEF Close, Unlock
<1>11. ASSUME NEW d \in Dirs, Consume(d) PROVE TypeOK' /\ InCall'
  <2>1. /\ Head(queue[d]) \in Messages
        /\ Tail(queue[d]) \in Seq(Messages)
        /\ Len(Tail(queue[d])) <= Cap
    BY <1>11, CapAssumption DEF Consume
  <2> QED
    BY <1>11, <2>1 DEF Consume
<1>12. ASSUME NEW d \in Dirs, ConsumeZero(d) PROVE TypeOK' /\ InCall'
  BY <1>12 DEF ConsumeZero
<1>13. ASSUME NEW d \in Dirs, Cancel(d) PROVE TypeOK' /\ InCall'
  BY <1>13 DEF Cancel
<1> QED
  BY <1>1, <1>2, <1>3, <1>4, <1>5, <1>6, <1>7, <1>8, <1>9, <1>10, <1>11, <1>12, <1>13
  DEF Next, Step

\* Only a writer that holds the lock closes the bus, and no reader is inside then.
LEMMA StepLock == BusInv /\ [Next]_vars => Locking' /\ NoSendOnClosed'
<1> SUFFICES ASSUME BusInv, [Next]_vars PROVE Locking' /\ NoSendOnClosed'
  OBVIOUS
<1> USE DEF BusInv, TypeOK, Locking, NoSendOnClosed, lockVars
<1>1. CASE UNCHANGED vars
  BY <1>1 DEF vars
<1>2. ASSUME NEW p \in Procs, NEW o \in Ops, Call(p, o) PROVE Locking' /\ NoSendOnClosed'
  BY <1>2 DEF Call
<1>3. ASSUME NEW p \in Procs, RLock(p) PROVE Locking' /\ NoSendOnClosed'
  BY <1>3, ProcAssumption DEF RLock
<1>4. ASSUME NEW p \in Procs, GetHandler(p) PROVE Locking' /\ NoSendOnClosed'
  BY <1>4 DEF GetHandler, RUnlock
<1>5. ASSUME NEW p \in Procs, PublishCheck(p) PROVE Locking' /\ NoSendOnClosed'
  BY <1>5 DEF PublishCheck, RUnlock
<1>6. ASSUME NEW p \in Procs, Send(p) PROVE Locking' /\ NoSendOnClosed'
  BY <1>6 DEF Send, RUnlock
<1>7. ASSUME NEW p \in Procs, Announce(p) PROVE Locking' /\ NoSendOnClosed'
  BY <1>7, ProcAssumption DEF Announce
<1>8. ASSUME NEW p \in Procs, Lock(p) PROVE Locking' /\ NoSendOnClosed'
  BY <1>8 DEF Lock
<1>9. ASSUME NEW p \in Procs, RegisterHandler(p) PROVE Locking' /\ NoSendOnClosed'
  BY <1>9 DEF RegisterHandler, Unlock
<1>10. ASSUME NEW p \in Procs, Close(p) PROVE Locking' /\ NoSendOnClosed'
  BY <1>10 DEF Close, Unlock
<1>11. ASSUME NEW d \in Dirs, Consume(d) \/ ConsumeZero(d) \/ Cancel(d)
       PROVE Locking' /\ NoSendOnClosed'
  BY <1>11 DEF Consume, ConsumeZero, Cancel
<1> QED
  BY <1>1, <1>2, <1>3, <1>4, <1>5, <1>6, <1>7, <1>8, <1>9, <1>10, <1>11 DEF Next, Step

LEMMA Invariance == SafeSpec => []BusInv
<1>1. BusInv /\ [Next]_vars => BusInv'
  BY StepType, StepLock DEF BusInv
<1> QED
  BY InitInv, <1>1, PTL DEF SafeSpec

\* The variables keep their types and no channel exceeds its capacity.
THEOREM TypeCorrect == SafeSpec => []TypeOK
BY Invariance, PTL DEF BusInv

\* No publisher, however long it was blocked, sends on a closed channel.
THEOREM SendSafe == SafeSpec => []NoSendOnClosed
BY Invariance, PTL DEF BusInv

-----------------------------------------------------------------------------
\* Refinement.

LEMMA InitPromise == Init => Promise!Init
BY DEF Init, Promise!Init

\* A completed send is an acceptance, a receive a delivery, the effective Close
\* the shutdown; every other step is invisible to the promise.
LEMMA StepPromise == BusInv /\ [Next]_vars => [Promise!Next]_Promise!vars
<1> SUFFICES ASSUME BusInv, [Next]_vars PROVE [Promise!Next]_Promise!vars
  OBVIOUS
<1> USE DEF Promise!vars, lockVars
<1>1. CASE UNCHANGED vars
  BY <1>1 DEF vars
<1>2. ASSUME NEW p \in Procs, NEW o \in Ops, Call(p, o) PROVE UNCHANGED Promise!vars
  BY <1>2 DEF Call
<1>3. ASSUME NEW p \in Procs, RLock(p) \/ GetHandler(p) \/ PublishCheck(p)
      PROVE UNCHANGED Promise!vars
  BY <1>3 DEF RLock, GetHandler, PublishCheck
<1>4. ASSUME NEW p \in Procs, Announce(p) \/ Lock(p) \/ RegisterHandler(p)
      PROVE UNCHANGED Promise!vars
  BY <1>4 DEF Announce, Lock, RegisterHandler
<1>5. ASSUME NEW p \in Procs, Send(p) PROVE Promise!Next
  <2>1. op[p] \in Dirs /\ <<p, calls[p]>> \in Messages /\ ~closed
    BY <1>5 DEF BusInv, InCall, NoSendOnClosed, Send, Messages
  <2>2. Promise!Accept(op[p], <<p, calls[p]>>)
    BY <1>5, <2>1 DEF Send, Promise!Accept
  <2> QED
    BY <2>1, <2>2 DEF Promise!Next
<1>6. ASSUME NEW p \in Procs, Close(p) PROVE [Promise!Next]_Promise!vars
  <2>1. CASE closed
    BY <1>6, <2>1 DEF Close, BusInv, TypeOK
  <2>2. CASE ~closed
    BY <1>6, <2>2 DEF Close, Promise!Next, Promise!Shut
  <2> QED
    BY <2>1, <2>2
<1>7. ASSUME NEW d \in Dirs, Consume(d) PROVE Promise!Next
  BY <1>7 DEF Consume, Promise!Next, Promise!HandOut
<1>8. ASSUME NEW d \in Dirs, ConsumeZero(d) PROVE Promise!Next
  BY <1>8 DEF ConsumeZero, Promise!Next, Promise!HandOutZero
<1>9. ASSUME NEW d \in Dirs, Cancel(d) PROVE UNCHANGED Promise!vars
  BY <1>9 DEF Cancel
<1> QED
  BY <1>1, <1>2, <1>3, <1>4, <1>5, <1>6, <1>7, <1>8, <1>9 DEF Next, Step

\* The bus, with its lock, its blocking sends and its capacity, implements the
\* two unbounded first-in first-out queues that its users see.
THEOREM BusRefines == SafeSpec => KeepsPromise
BY Invariance, InitPromise, StepPromise, PTL DEF SafeSpec, KeepsPromise, Promise!Spec
=============================================================================
