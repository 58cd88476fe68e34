----------------------------- MODULE TizPqueue -----------------------------
(***************************************************************************)
(* The queue of a servant (tizpqueue.c): one list of items, linked both    *)
(* ways and ordered by priority, and pp_store, which points at the first   *)
(* item of each priority.  One thread uses it, so an operation is one step. *)
(***************************************************************************)
EXTENDS Integers, SequencesExt, Lists

CONSTANTS
    Data,           \* the messages
    MaxPrio,        \* max_prio
    Addresses,      \* bound: the items there is memory for
    NULL

Priorities == 0 .. MaxPrio
Pointers == Addresses \cup {NULL}
Items == [p_data : Data, priority : Priorities, p_prev : Pointers, p_next : Pointers]
Nothing == {}

ASSUME PqueueAssumption ==
    /\ MaxPrio \in Nat
    /\ NULL \notin Addresses
    /\ NULL \notin Items

VARIABLES
    p_first, p_last, pp_store, length,      \* struct tiz_pqueue
    item,                                   \* the memory: NULL at a free address
    received                                \* what the last receive answered

queue == <<p_first, p_last, pp_store, length, item>>
vars == <<queue, received>>

Free == {a \in Addresses : item[a] = NULL}

\* The addresses of the items, in the order of p_next.
Linked ==
    LET nth[k \in 1 .. length] == IF k = 1 THEN p_first ELSE item[nth[k - 1]].p_next
    IN  nth

-----------------------------------------------------------------------------
Init ==
    /\ p_first = NULL
    /\ p_last = NULL
    /\ pp_store = [p \in Priorities |-> NULL]
    /\ length = 0
    /\ item = [a \in Addresses |-> NULL]
    /\ received = Nothing

\* The first item of the next priority up that has any, or NULL.
NextUp(priority) ==
    LET up == {p \in Priorities : p > priority /\ pp_store[p] # NULL}
    IN  IF up = {} THEN NULL ELSE pp_store[CHOOSE p \in up : \A r \in up : p <= r]

New(data, priority, prev, next) ==
    [p_data |-> data, priority |-> priority, p_prev |-> prev, p_next |-> next]

HookBefore(cur, new, data, priority) ==
    LET prev == item[cur].p_prev
    IN  /\ item' = [a \in Addresses |->
                      CASE a = new  -> New(data, priority, prev, cur)
                        [] a = cur  -> [item[a] EXCEPT !.p_prev = new]
                        [] a = prev -> [item[a] EXCEPT !.p_next = new]
                        [] OTHER    -> item[a]]
        /\ p_first' = IF prev = NULL THEN new ELSE p_first
        /\ UNCHANGED p_last

HookLast(new, data, priority) ==
    /\ item' = [a \in Addresses |->
                  CASE a = new    -> New(data, priority, p_last, NULL)
                    [] a = p_last -> [item[a] EXCEPT !.p_next = new]
                    [] OTHER      -> item[a]]
    /\ p_last' = new
    /\ p_first' = IF p_first = NULL THEN new ELSE p_first

\* Mutant: an item goes to the end when none of its own priority waits.
SendLast(data, priority) ==
    \E new \in Free :
       /\ pp_store' = [pp_store EXCEPT ![priority] = IF @ = NULL THEN new ELSE @]
       /\ IF pp_store[priority] # NULL /\ NextUp(priority) # NULL
          THEN HookBefore(NextUp(priority), new, data, priority)
          ELSE HookLast(new, data, priority)
       /\ length' = length + 1
       /\ UNCHANGED received

Send(data, priority) ==
    \E new \in Free :
       /\ pp_store' = [pp_store EXCEPT ![priority] = IF @ = NULL THEN new ELSE @]
       /\ IF NextUp(priority) # NULL
          THEN HookBefore(NextUp(priority), new, data, priority)
          ELSE HookLast(new, data, priority)
       /\ length' = length + 1
       /\ UNCHANGED received

\* The queue as one value, for the operations that take items out one by one.
Current == [p_first |-> p_first, p_last |-> p_last, pp_store |-> pp_store,
            length |-> length, item |-> item]

\* Mutant: pp_store keeps pointing at the priority's first item only while it is
\* the last one of its priority.
UnlinkAndForget(q, cur) ==
    LET prev == q.item[cur].p_prev
        next == q.item[cur].p_next
        priority == q.item[cur].priority
    IN  [p_first |-> IF q.p_first = cur THEN next ELSE q.p_first,
         p_last |-> IF q.p_last = cur THEN prev ELSE q.p_last,
         pp_store |-> [q.pp_store EXCEPT ![priority] = IF @ = cur THEN NULL ELSE @],
         length |-> q.length - 1,
         item |-> [a \in Addresses |->
                     CASE a = cur  -> NULL
                       [] a = prev -> [q.item[a] EXCEPT !.p_next = next]
                       [] a = next -> [q.item[a] EXCEPT !.p_prev = prev]
                       [] OTHER    -> q.item[a]]]

\* Takes cur out of the list and out of pp_store, and frees it.
Unlink(q, cur) ==
    LET prev == q.item[cur].p_prev
        next == q.item[cur].p_next
        priority == q.item[cur].priority
        heir == IF next # NULL /\ q.item[next].priority = priority THEN next ELSE NULL
    IN  [p_first |-> IF q.p_first = cur THEN next ELSE q.p_first,
         p_last |-> IF q.p_last = cur THEN prev ELSE q.p_last,
         pp_store |-> [q.pp_store EXCEPT ![priority] = IF @ = cur THEN heir ELSE @],
         length |-> q.length - 1,
         item |-> [a \in Addresses |->
                     CASE a = cur  -> NULL
                       [] a = prev -> [q.item[a] EXCEPT !.p_next = next]
                       [] a = next -> [q.item[a] EXCEPT !.p_prev = prev]
                       [] OTHER    -> q.item[a]]]

Become(q) ==
    /\ p_first' = q.p_first
    /\ p_last' = q.p_last
    /\ pp_store' = q.pp_store
    /\ length' = q.length
    /\ item' = q.item

Receive ==
    /\ length > 0
    /\ Become(Unlink(Current, p_first))
    /\ received' = {item[p_first].p_data}

\* OMX_ErrorNoMore.
ReceiveNothing ==
    /\ length = 0
    /\ received' = Nothing
    /\ UNCHANGED queue

\* The first of the given items that holds data, if there is one.
TakeFirst(places, data) ==
    LET found == {k \in places : item[Linked[k]].p_data = data}
    IN  /\ found # {}
        /\ Become(Unlink(Current, Linked[CHOOSE k \in found : \A j \in found : k <= j]))
        /\ UNCHANGED received

RemoveData(data) == TakeFirst(1 .. length, data)

\* Starts at pp_store and stops at the next priority.
Removep(data, priority) ==
    TakeFirst({k \in 1 .. length : item[Linked[k]].priority = priority}, data)

\* Every item the caller's function chooses, one after the other.
RemoveFunc(chosen) ==
    LET gone == Only(Linked, {a \in Addresses \ Free : item[a].p_data \in chosen})
        left[k \in 0 .. Len(gone)] == IF k = 0 THEN Current ELSE Unlink(left[k - 1], gone[k])
    IN  /\ Become(left[Len(gone)])
        /\ UNCHANGED received

Next ==
    \/ \E d \in Data, p \in Priorities : Send(d, p) \/ Removep(d, p)
    \/ \E d \in Data : RemoveData(d)
    \/ \E D \in SUBSET Data : RemoveFunc(D)
    \/ Receive
    \/ ReceiveNothing

Spec == Init /\ [][Next]_vars

-----------------------------------------------------------------------------
\* The list can be walked from either end, holds each item that is allocated once
\* and is counted by length; its priorities never fall, and pp_store points at the
\* first item of each priority that has any (hook_before, tiz_pqueue_receive and
\* the three kinds of removal all move these pointers by hand).
ListIsSound ==
    LET at == Linked
        Of(p) == {k \in 1 .. length : item[at[k]].priority = p}
    IN  /\ {at[k] : k \in 1 .. length} = Addresses \ Free
        /\ IsInjective(at)
        /\ p_first = (IF length = 0 THEN NULL ELSE at[1])
        /\ p_last = (IF length = 0 THEN NULL ELSE at[length])
        /\ \A k \in 1 .. length :
             /\ item[at[k]].p_prev = (IF k = 1 THEN NULL ELSE at[k - 1])
             /\ item[at[k]].p_next = (IF k = length THEN NULL ELSE at[k + 1])
        /\ \A k \in 1 .. length - 1 : item[at[k]].priority <= item[at[k + 1]].priority
        /\ \A p \in Priorities :
             pp_store[p] = IF Of(p) = {} THEN NULL
                           ELSE at[CHOOSE k \in Of(p) : \A j \in Of(p) : k <= j]

\* The data from pp_store to the end of the priority.
Waiting(p) ==
    LET own == Only(Linked, {a \in Addresses \ Free : item[a].priority = p})
    IN  [k \in DOMAIN own |-> item[own[k]].p_data]

Fifo == INSTANCE PriorityFifo WITH fifo <- [p \in Priorities |-> Waiting(p)]

\* The list with its shortcuts does what one fifo for each priority would do.
ImplementsPriorityFifo == Fifo!Spec

=============================================================================
