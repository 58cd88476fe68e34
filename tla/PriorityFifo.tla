---------------------------- MODULE PriorityFifo ----------------------------
(* What tizpqueue.h promises: one fifo for each priority, the lowest number    *)
(* first.                                                                      *)
EXTENDS Integers, SequencesExt, Lists

CONSTANTS Data, MaxPrio

VARIABLES
    fifo,       \* what waits, for each priority
    received    \* the answer to the last receive

vars == <<fifo, received>>

Priorities == 0 .. MaxPrio
Nothing == {}

\* The first place of d in s.
Place(s, d) == CHOOSE k \in DOMAIN s : s[k] = d /\ \A j \in 1 .. k - 1 : s[j] # d

Init ==
    /\ fifo = [p \in Priorities |-> <<>>]
    /\ received = Nothing

Send(d, p) ==
    /\ fifo' = [fifo EXCEPT ![p] = Append(@, d)]
    /\ UNCHANGED received

Receive(p) ==
    /\ fifo[p] # <<>>
    /\ \A lower \in 0 .. p - 1 : fifo[lower] = <<>>
    /\ received' = {Head(fifo[p])}
    /\ fifo' = [fifo EXCEPT ![p] = Tail(@)]

ReceiveNothing ==
    /\ \A p \in Priorities : fifo[p] = <<>>
    /\ received' = Nothing
    /\ UNCHANGED fifo

\* One item, the oldest of its priority.
RemoveOne(d, p) ==
    /\ d \in Range(fifo[p])
    /\ fifo' = [fifo EXCEPT ![p] = RemoveAt(@, Place(@, d))]
    /\ UNCHANGED received

RemoveAll(D) ==
    /\ fifo' = [p \in Priorities |-> Only(fifo[p], Data \ D)]
    /\ UNCHANGED received

Next ==
    \/ \E d \in Data, p \in Priorities : Send(d, p) \/ RemoveOne(d, p)
    \/ \E p \in Priorities : Receive(p)
    \/ ReceiveNothing
    \/ \E D \in SUBSET Data : RemoveAll(D)

Spec == Init /\ [][Next]_vars

=============================================================================
