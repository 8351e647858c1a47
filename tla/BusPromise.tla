----------------------------- MODULE BusPromise -----------------------------
(***************************************************************************)
(* What the message bus promises its users, without locks or capacities:   *)
(* two independent queues, in which a message that was accepted is handed  *)
(* out once, in the order of acceptance, and which accept nothing once the *)
(* bus is shut.  Messages accepted before the shutdown stay available, and *)
(* the empty message is handed out only by a shut and drained queue.       *)
(***************************************************************************)
EXTENDS Sequences

CONSTANTS Dirs, Messages, ZeroMsg

VARIABLES pending, shut, handed

vars == <<pending, shut, handed>>

Init ==
    /\ pending = [d \in Dirs |-> <<>>]
    /\ shut = FALSE
    /\ handed = [d \in Dirs |-> <<>>]

Accept(d, m) ==
    /\ ~shut
    /\ pending' = [pending EXCEPT ![d] = Append(@, m)]
    /\ UNCHANGED <<shut, handed>>

HandOut(d) ==
    /\ pending[d] # <<>>
    /\ handed' = [handed EXCEPT ![d] = Append(@, Head(pending[d]))]
    /\ pending' = [pending EXCEPT ![d] = Tail(@)]
    /\ UNCHANGED shut

HandOutZero(d) ==
    /\ shut
    /\ pending[d] = <<>>
    /\ handed' = [handed EXCEPT ![d] = Append(@, ZeroMsg)]
    /\ UNCHANGED <<pending, shut>>

Shut ==
    /\ ~shut
    /\ shut' = TRUE
    /\ UNCHANGED <<pending, handed>>

Next ==
    \/ \E d \in Dirs : HandOut(d) \/ HandOutZero(d) \/ \E m \in Messages : Accept(d, m)
    \/ Shut

Spec == Init /\ [][Next]_vars
=============================================================================
