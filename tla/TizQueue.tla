------------------------------ MODULE TizQueue ------------------------------
(***************************************************************************)
(* The inter-thread message queue of libtizplatform (tizqueue.c).          *)
(*                                                                         *)
(* The items live in a closed ring of Nodes nodes, whatever the capacity   *)
(* asked for: p_last is the node the next item goes into, p_first the one  *)
(* the next item comes out of, and a node is free when its p_data is NULL. *)
(*                                                                         *)
(* The mutex is held from the entry of a call to its unlock, except while  *)
(* the caller sleeps in tiz_cond_wait, so each stretch between two of      *)
(* those points is one action.  The broadcast comes after the unlock and   *)
(* is an action of its own.                                                *)
(***************************************************************************)
EXTENDS Integers, Sequences

CONSTANTS
    Producers,  \* threads that call tiz_queue_send
    Consumers,  \* threads that call tiz_queue_receive
    Data,       \* what they send
    NoData,     \* the NULL of a free node
    Capacity,   \* a_capacity, the argument of tiz_queue_init
    Nodes       \* how many nodes tiz_queue_init links into the ring

ASSUME QueueAssumption ==
    /\ Capacity \in Nat \ {0}
    /\ Nodes \in Nat \ {0}
    /\ NoData \notin Data
    /\ Producers \cap Consumers = {}

VARIABLES
    slot,     \* p_data of every node
    first,    \* p_first
    last,     \* p_last
    length,   \* the struct's length
    pc,       \* where each thread is in its call
    wants,    \* the item a producer that found no room still holds
    aborted   \* an assert has failed: the process is gone

vars == <<slot, first, last, length, pc, wants, aborted>>

Threads == Producers \cup Consumers
Node == 0 .. Nodes - 1

\* A thread is outside any call, asleep on a condition, woken and due to take
\* the mutex again, or past the unlock and about to broadcast.
PC == {"idle", "asleep", "woken", "signal"}

Succ(n) == IF n = Nodes - 1 THEN 0 ELSE n + 1
-----------------------------------------------------------------------------
Init ==
    /\ slot = [n \in Node |-> NoData]
    /\ first = 0
    /\ last = 0
    /\ length = 0
    /\ pc = [t \in Threads |-> "idle"]
    /\ wants = [p \in Producers |-> NoData]
    /\ aborted = FALSE

\* Mutant: p_last is not moved on.
EnqueueInPlace(p, d) ==
    /\ length # Capacity
    /\ slot' = [slot EXCEPT ![last] = d]
    /\ length' = length + 1
    /\ pc' = [pc EXCEPT ![p] = "signal"]
    /\ wants' = [wants EXCEPT ![p] = NoData]
    /\ UNCHANGED <<first, last, aborted>>

\* The part of tiz_queue_send behind its wait loop: the item is stored and the
\* mutex released.
Enqueue(p, d) ==
    /\ length # Capacity
    /\ slot' = [slot EXCEPT ![last] = d]
    /\ last' = Succ(last)
    /\ length' = length + 1
    /\ pc' = [pc EXCEPT ![p] = "signal"]
    /\ wants' = [wants EXCEPT ![p] = NoData]
    /\ UNCHANGED <<first, aborted>>

\* The test of the wait loop: a full queue puts the sender to sleep on cond_full.
SleepWhileFull(p, d) ==
    /\ length = Capacity
    /\ pc' = [pc EXCEPT ![p] = "asleep"]
    /\ wants' = [wants EXCEPT ![p] = d]
    /\ UNCHANGED <<slot, first, last, length, aborted>>

\* tiz_queue_send is entered.  The assertion that p_last is free comes before
\* the wait loop.
SendEnter(p, d) ==
    /\ ~aborted /\ pc[p] = "idle"
    /\ IF slot[last] = NoData
       THEN Enqueue(p, d) \/ SleepWhileFull(p, d)
       ELSE aborted' = TRUE /\ UNCHANGED <<slot, first, last, length, pc, wants>>

\* A woken sender has the mutex again and repeats the loop's test.
SendRetry(p) ==
    /\ ~aborted /\ pc[p] = "woken"
    /\ Enqueue(p, wants[p]) \/ SleepWhileFull(p, wants[p])

\* Mutant: p_first runs on from p_last instead of from itself.
DequeueNewest(c) ==
    /\ length # 0 /\ slot[first] # NoData
    /\ slot' = [slot EXCEPT ![first] = NoData]
    /\ first' = Succ(last)
    /\ length' = length - 1
    /\ pc' = [pc EXCEPT ![c] = "signal"]
    /\ UNCHANGED <<last, wants, aborted>>

Dequeue(c) ==
    /\ length # 0
    /\ IF slot[first] = NoData
       THEN aborted' = TRUE /\ UNCHANGED <<slot, first, length, pc>>
       ELSE /\ slot' = [slot EXCEPT ![first] = NoData]
            /\ first' = Succ(first)
            /\ length' = length - 1
            /\ pc' = [pc EXCEPT ![c] = "signal"]
            /\ UNCHANGED aborted
    /\ UNCHANGED <<last, wants>>

SleepWhileEmpty(c) ==
    /\ length = 0
    /\ pc' = [pc EXCEPT ![c] = "asleep"]
    /\ UNCHANGED <<slot, first, last, length, wants, aborted>>

\* tiz_queue_receive is entered, or repeats its test after a wake-up.
Receive(c) ==
    /\ ~aborted /\ pc[c] \in {"idle", "woken"}
    /\ Dequeue(c) \/ SleepWhileEmpty(c)

Wake(S) == [t \in Threads |->
    IF t \in S /\ pc[t] = "asleep" THEN "woken" ELSE pc[t]]

\* Mutants: the two conditions are mixed up.
SendBroadcastFull(p) ==
    /\ ~aborted /\ pc[p] = "signal"
    /\ pc' = [Wake(Producers) EXCEPT ![p] = "idle"]
    /\ UNCHANGED <<slot, first, last, length, wants, aborted>>

ReceiveBroadcastEmpty(c) ==
    /\ ~aborted /\ pc[c] = "signal"
    /\ pc' = [Wake(Consumers) EXCEPT ![c] = "idle"]
    /\ UNCHANGED <<slot, first, last, length, wants, aborted>>

\* After its unlock a sender broadcasts cond_empty, a receiver cond_full.
SendBroadcast(p) ==
    /\ ~aborted /\ pc[p] = "signal"
    /\ pc' = [Wake(Consumers) EXCEPT ![p] = "idle"]
    /\ UNCHANGED <<slot, first, last, length, wants, aborted>>

ReceiveBroadcast(c) ==
    /\ ~aborted /\ pc[c] = "signal"
    /\ pc' = [Wake(Producers) EXCEPT ![c] = "idle"]
    /\ UNCHANGED <<slot, first, last, length, wants, aborted>>

\* pthread_cond_wait may return without a broadcast.
SpuriousWakeup(t) ==
    /\ ~aborted /\ pc[t] = "asleep"
    /\ pc' = [pc EXCEPT ![t] = "woken"]
    /\ UNCHANGED <<slot, first, last, length, wants, aborted>>

Next ==
    \/ \E p \in Producers :
        \/ \E d \in Data : SendEnter(p, d)
        \/ SendRetry(p)
        \/ SendBroadcast(p)
    \/ \E c \in Consumers : Receive(c) \/ ReceiveBroadcast(c)
    \/ \E t \in Threads : SpuriousWakeup(t)

Spec == Init /\ [][Next]_vars

\* A thread that has the mutex or is about to broadcast is eventually run by
\* the operating system; a consumer is the scheduler thread, whose loop calls
\* receive for ever.  Nothing obliges a producer to begin a send.
Fairness ==
    /\ \A p \in Producers : WF_vars(SendRetry(p)) /\ WF_vars(SendBroadcast(p))
    /\ \A c \in Consumers : WF_vars(Receive(c)) /\ WF_vars(ReceiveBroadcast(c))

FairSpec == Spec /\ Fairness
-----------------------------------------------------------------------------
TypeOK ==
    /\ slot \in [Node -> Data \cup {NoData}]
    /\ first \in Node
    /\ last \in Node
    /\ length \in 0 .. Capacity
    /\ pc \in [Threads -> PC]
    /\ wants \in [Producers -> Data \cup {NoData}]
    /\ aborted \in BOOLEAN

\* The node of the i-th item, counting from the front.
Pos(i) ==
    LET n == first + i - 1 IN IF n < Nodes THEN n ELSE n - Nodes

\* The nodes holding an item are the length nodes from p_first on, and p_last
\* is the one after them: the two pointers, the counter and the NULLs that
\* tiz_queue_send and tiz_queue_receive update separately never disagree.
RingConsistent ==
    /\ last = Pos(length + 1)
    /\ \A i \in 1 .. length : slot[Pos(i)] # NoData
    /\ \A n \in Node : slot[n] # NoData => \E i \in 1 .. length : n = Pos(i)

\* No wake-up is lost, although the broadcast comes after the unlock: while a
\* sender sleeps the queue is full, or a receiver is about to broadcast; while
\* a receiver sleeps it is empty, or a sender is about to broadcast.
NoLostWakeup ==
    /\ (\E p \in Producers : pc[p] = "asleep")
        => length = Capacity \/ \E c \in Consumers : pc[c] = "signal"
    /\ (\E c \in Consumers : pc[c] = "asleep")
        => length = 0 \/ \E p \in Producers : pc[p] = "signal"

\* tizqueue.h:81 of tiz_queue_send: "If the queue is full, it blocks until a
\* space becomes available."  A call that finds no room sleeps; no assertion of
\* the queue ever ends the process.
SendBlocksWhenFull == ~aborted

\* A sleeping sender is released once the consumer goes on receiving, and a
\* receiver once there is something to receive.
SleepersAreWoken ==
    /\ \A p \in Producers : pc[p] = "asleep" ~> pc[p] # "asleep"
    /\ \A c \in Consumers :
        (pc[c] = "asleep" /\ length > 0) ~> pc[c] # "asleep"

\* The abstraction: the items in the ring, front first.
Contents == [i \in 1 .. length |-> slot[Pos(i)]]

Fifo == INSTANCE BoundedFifo WITH queue <- Contents

\* The ring implements the promised bounded first-in first-out queue.
ImplementsFifo == Fifo!Spec
=============================================================================
