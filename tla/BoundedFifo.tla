---------------------------- MODULE BoundedFifo ----------------------------
(***************************************************************************)
(* What tizqueue.h promises of a message queue: items leave in the order   *)
(* in which they entered, none is lost or duplicated, and no more than     *)
(* Capacity of them are inside at any time.                                *)
(***************************************************************************)
EXTENDS Naturals, Sequences

CONSTANTS
    Data,      \* what may be sent
    Capacity   \* the capacity the queue was created with

VARIABLE queue

Init == queue = <<>>

Send(d) ==
    /\ Len(queue) < Capacity
    /\ queue' = Append(queue, d)

Receive ==
    /\ queue # <<>>
    /\ queue' = Tail(queue)

Next == (\E d \in Data : Send(d)) \/ Receive

Spec == Init /\ [][Next]_queue
=============================================================================
