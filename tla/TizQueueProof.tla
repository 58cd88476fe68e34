--------------------------- MODULE TizQueueProof ---------------------------
(***************************************************************************)
(* Proofs about the message queue, for any threads, data and sizes.        *)
(* Type correctness and the absence of lost wake-ups hold at any capacity; *)
(* the ring's consistency, and with it the refinement of the bounded FIFO, *)
(* needs a node that stays free, Capacity < Nodes.                         *)
(***************************************************************************)
EXTENDS TizQueue, SequenceTheorems, TLAPS

\* A queue that has just been created has the right types.
LEMMA TypeCorrectInit == Init => TypeOK
<1> SUFFICES ASSUME Init PROVE TypeOK
  OBVIOUS
<1>1. slot \in [Node -> Data \cup {NoData}] /\ wants \in [Producers -> Data \cup {NoData}]
  BY DEF Init
<1>2. pc \in [Threads -> PC]
  BY DEF Init, PC
<1>3. first \in Node /\ last \in Node /\ length \in 0 .. Capacity
  BY QueueAssumption DEF Init, Node
<1>4. aborted \in BOOLEAN
  BY DEF Init
<1> QED BY <1>1, <1>2, <1>3, <1>4 DEF TypeOK

\* Every variable keeps its type at any capacity, the one that exhausts the
\* ring included (tizqueue.c, send and receive).
THEOREM TypeCorrect == Spec => []TypeOK
<1>1. Init => TypeOK
  BY TypeCorrectInit
<1>2. TypeOK /\ [Next]_vars => TypeOK'
  <2> SUFFICES ASSUME TypeOK, [Next]_vars PROVE TypeOK'
    OBVIOUS
  <2> USE QueueAssumption DEF TypeOK, Threads, PC, Node
  <2>e. ASSUME NEW p \in Producers, NEW d \in Data \cup {NoData}, Enqueue(p, d)
        PROVE  TypeOK'
    <3>1. /\ slot' \in [Node -> Data \cup {NoData}]
          /\ last' \in Node /\ length' \in 0 .. Capacity
      BY <2>e DEF Enqueue, Succ
    <3>2. pc' \in [Threads -> PC] /\ wants' \in [Producers -> Data \cup {NoData}]
      BY <2>e DEF Enqueue
    <3> QED BY <2>e, <3>1, <3>2 DEF Enqueue
  <2>s. ASSUME NEW p \in Producers, NEW d \in Data \cup {NoData},
               SleepWhileFull(p, d)
        PROVE  TypeOK'
    BY <2>s DEF SleepWhileFull
  <2>1. ASSUME NEW p \in Producers, NEW d \in Data, SendEnter(p, d)
        PROVE  TypeOK'
    BY <2>1, <2>e, <2>s DEF SendEnter
  <2>2. ASSUME NEW p \in Producers, SendRetry(p) PROVE TypeOK'
    BY <2>2, <2>e, <2>s DEF SendRetry
  <2>3. ASSUME NEW p \in Producers, SendBroadcast(p) PROVE TypeOK'
    BY <2>3 DEF SendBroadcast, Wake
  <2>4. ASSUME NEW c \in Consumers, Receive(c) PROVE TypeOK'
    <3>1. CASE SleepWhileEmpty(c)
      BY <3>1 DEF SleepWhileEmpty
    <3>2. CASE Dequeue(c)
      <4>1. slot' \in [Node -> Data \cup {NoData}] /\ pc' \in [Threads -> PC]
        BY <3>2 DEF Dequeue
      <4>2. first' \in Node /\ length' \in 0 .. Capacity
        BY <3>2 DEF Dequeue, Succ
      <4> QED BY <3>2, <4>1, <4>2 DEF Dequeue
    <3> QED BY <2>4, <3>1, <3>2 DEF Receive
  <2>5. ASSUME NEW c \in Consumers, ReceiveBroadcast(c) PROVE TypeOK'
    BY <2>5 DEF ReceiveBroadcast, Wake
  <2>6. ASSUME NEW t \in Threads, SpuriousWakeup(t) PROVE TypeOK'
    BY <2>6 DEF SpuriousWakeup
  <2>7. CASE UNCHANGED vars
    BY <2>7 DEF vars
  <2> QED BY <2>1, <2>2, <2>3, <2>4, <2>5, <2>6, <2>7 DEF Next
<1> QED BY <1>1, <1>2, PTL DEF Spec

\* No wake-up is lost, at any capacity and with any number of threads on
\* either side, although the broadcast comes after the mutex is released.
THEOREM NoWakeupIsLost == Spec => []NoLostWakeup
<1>1. Init => NoLostWakeup
  BY QueueAssumption DEF Init, NoLostWakeup, Threads
<1>2. TypeOK /\ NoLostWakeup /\ [Next]_vars => NoLostWakeup'
  <2> SUFFICES ASSUME TypeOK, NoLostWakeup, [Next]_vars PROVE NoLostWakeup'
    OBVIOUS
  <2> USE QueueAssumption DEF TypeOK, NoLostWakeup, Threads, PC
  <2>e. ASSUME NEW p \in Producers, NEW d, Enqueue(p, d) PROVE NoLostWakeup'
    BY <2>e DEF Enqueue
  <2>s. ASSUME NEW p \in Producers, NEW d, pc[p] # "signal", SleepWhileFull(p, d)
        PROVE  NoLostWakeup'
    BY <2>s DEF SleepWhileFull
  <2>1. ASSUME NEW p \in Producers, NEW d \in Data, SendEnter(p, d)
        PROVE  NoLostWakeup'
    BY <2>1, <2>e, <2>s DEF SendEnter
  <2>2. ASSUME NEW p \in Producers, SendRetry(p) PROVE NoLostWakeup'
    BY <2>2, <2>e, <2>s DEF SendRetry
  <2>3. ASSUME NEW p \in Producers, SendBroadcast(p) PROVE NoLostWakeup'
    BY <2>3 DEF SendBroadcast, Wake
  <2>4. ASSUME NEW c \in Consumers, Receive(c) PROVE NoLostWakeup'
    <3>1. CASE SleepWhileEmpty(c)
      BY <2>4, <3>1 DEF Receive, SleepWhileEmpty
    <3>2. CASE Dequeue(c) /\ slot[first] = NoData
      BY <3>2 DEF Dequeue
    <3>3. CASE Dequeue(c) /\ slot[first] # NoData
      BY <3>3 DEF Dequeue
    <3> QED BY <2>4, <3>1, <3>2, <3>3 DEF Receive
  <2>5. ASSUME NEW c \in Consumers, ReceiveBroadcast(c) PROVE NoLostWakeup'
    BY <2>5 DEF ReceiveBroadcast, Wake
  <2>6. ASSUME NEW t \in Threads, SpuriousWakeup(t) PROVE NoLostWakeup'
    BY <2>6 DEF SpuriousWakeup
  <2>7. CASE UNCHANGED vars
    BY <2>7 DEF vars
  <2> QED BY <2>1, <2>2, <2>3, <2>4, <2>5, <2>6, <2>7 DEF Next
<1> QED BY <1>1, <1>2, TypeCorrect, PTL DEF Spec
-----------------------------------------------------------------------------
\* The ring has a node to spare when it is full.
SpareNode == Capacity < Nodes

\* A sender inside its wait loop still has the item it was called with.
WaitersHoldItem ==
    \A p \in Producers : pc[p] \in {"asleep", "woken"} => wants[p] \in Data

\* The inductive invariant.
RingInv == TypeOK /\ RingConsistent /\ WaitersHoldItem /\ ~aborted

\* With a spare node the first length + 1 positions are distinct nodes.
LEMMA PosInjective ==
  ASSUME SpareNode, TypeOK,
         NEW i \in 1 .. length + 1, NEW j \in 1 .. length + 1, Pos(i) = Pos(j)
  PROVE  i = j /\ Pos(i) \in Node
BY QueueAssumption DEF SpareNode, TypeOK, Pos, Node

\* Hence p_last is free whenever a call starts or a wait ends (tizqueue.c:235).
LEMMA LastIsFree ==
  ASSUME SpareNode, TypeOK, RingConsistent
  PROVE  slot[last] = NoData
<1> SUFFICES ASSUME slot[last] # NoData PROVE FALSE
  OBVIOUS
<1>1. last \in Node /\ length \in Nat
  BY QueueAssumption DEF TypeOK
<1>2. PICK i \in 1 .. length : last = Pos(i)
  BY <1>1 DEF RingConsistent
<1>3. i \in 1 .. length + 1 /\ length + 1 \in 1 .. length + 1
  BY <1>1
<1>4. Pos(i) = Pos(length + 1)
  BY <1>2 DEF RingConsistent
<1>5. i = length + 1
  BY <1>3, <1>4, PosInjective
<1> QED BY <1>1, <1>5
\* Storing an item (tizqueue.c:244-246) extends the occupied window by a node.
LEMMA EnqueueKeepsRing ==
  ASSUME SpareNode, RingInv, NEW p \in Producers, NEW d \in Data, Enqueue(p, d)
  PROVE  /\ RingConsistent'
         /\ length' = length + 1
         /\ \A i \in 1 .. length' : Pos(i)' = Pos(i)
         /\ \A i \in 1 .. length : slot'[Pos(i)] = slot[Pos(i)]
         /\ slot'[Pos(length + 1)] = d
<1> USE QueueAssumption DEF RingInv
<1>0. /\ length \in Nat /\ length < Capacity /\ length' = length + 1
      /\ slot \in [Node -> Data \cup {NoData}] /\ last \in Node
      /\ slot' = [slot EXCEPT ![last] = d] /\ first' = first /\ last' = Succ(last)
  BY DEF TypeOK, Enqueue
<1>1. \A i : Pos(i)' = Pos(i)
  BY <1>0 DEF Pos
<1>2. last = Pos(length + 1)
  BY DEF RingConsistent
<1>3. ASSUME NEW i \in 1 .. length PROVE Pos(i) # last /\ Pos(i) \in Node
  BY <1>0, <1>2, PosInjective
<1>4. \A i \in 1 .. length : slot'[Pos(i)] = slot[Pos(i)]
  BY <1>0, <1>3
<1>5. slot'[last] = d /\ d # NoData
  BY <1>0
<1>6. (last = Pos(length + 1))'
  BY <1>0, <1>2, SpareNode DEF Succ, Pos, Node, TypeOK, SpareNode
<1>7. ASSUME NEW i \in 1 .. length' PROVE slot'[Pos(i)'] # NoData
  <2>1. CASE i \in 1 .. length
    BY <1>1, <1>4, <2>1 DEF RingConsistent
  <2>2. CASE i = length + 1
    BY <1>1, <1>2, <1>5, <2>2
  <2> QED BY <1>0, <2>1, <2>2
<1>8. ASSUME NEW n \in Node, slot'[n] # NoData 
      PROVE  \E i \in 1 .. length' : n = Pos(i)'
  <2>1. CASE n = last
    <3>1. length + 1 \in 1 .. length'
      BY <1>0
    <3> QED BY <1>1, <1>2, <2>1, <3>1
  <2>2. CASE n # last
    <3>1. slot[n] # NoData
      BY <1>0, <1>8, <2>2
    <3>2. PICK i \in 1 .. length : n = Pos(i)
      BY <3>1 DEF RingConsistent
    <3>3. i \in 1 .. length'
      BY <1>0
    <3> QED BY <1>1, <3>2, <3>3
  <2> QED BY <2>1, <2>2
<1>9. RingConsistent'
  BY <1>6, <1>7, <1>8 DEF RingConsistent, Node
<1> QED BY <1>0, <1>1, <1>2, <1>4, <1>5, <1>9

\* Taking an item out (tizqueue.c:274-278) moves every position by one, and the
\* assertion on p_first->p_data holds.
LEMMA DequeueKeepsRing ==
  ASSUME SpareNode, RingInv, NEW c \in Consumers, Dequeue(c)
  PROVE  /\ RingConsistent' /\ UNCHANGED aborted
         /\ length' = length - 1
         /\ \A i \in 1 .. length' :
                Pos(i)' = Pos(i + 1) /\ slot'[Pos(i + 1)] = slot[Pos(i + 1)]
<1> USE QueueAssumption DEF RingInv
<1>a. length \in Nat /\ length # 0 /\ 1 \in 1 .. length /\ first \in Node /\ Pos(1) = first
  BY DEF TypeOK, Dequeue, Pos, Node
<1>b. slot[first] # NoData
  BY <1>a DEF RingConsistent
<1>0. /\ length' = length - 1 /\ first' = Succ(first) /\ last' = last
      /\ slot \in [Node -> Data \cup {NoData}] /\ UNCHANGED aborted
      /\ slot' = [slot EXCEPT ![first] = NoData]
  BY <1>b DEF Dequeue, TypeOK
<1>1. \A i \in 1 .. length : Pos(i)' = Pos(i + 1)
  BY <1>0, <1>a DEF Pos, Succ, Node, SpareNode, TypeOK
<1>2. ASSUME NEW i \in 1 .. length'
      PROVE  i \in 1 .. length /\ i + 1 \in 1 .. length
             /\ Pos(i + 1) # first /\ Pos(i + 1) \in Node
  <2>1. i \in 1 .. length /\ i + 1 \in 1 .. length /\ i + 1 # 1
    BY <1>0, <1>a
  <2>2. i + 1 \in 1 .. length + 1 /\ 1 \in 1 .. length + 1
    BY <1>a, <2>1
  <2>3. Pos(i + 1) \in Node
    BY <2>2, PosInjective
  <2>4. Pos(i + 1) # Pos(1)
    BY <2>1, <2>2, PosInjective
  <2> QED BY <1>a, <2>1, <2>3, <2>4
<1>3. \A i \in 1 .. length' : slot'[Pos(i + 1)] = slot[Pos(i + 1)]
  BY <1>0, <1>2
<1>4. (last = Pos(length + 1))'
  BY <1>0, <1>a DEF RingConsistent, Pos, Succ, Node, SpareNode, TypeOK
<1>5. ASSUME NEW i \in 1 .. length' PROVE slot'[Pos(i)'] # NoData
  BY <1>1, <1>2, <1>3 DEF RingConsistent
<1>6. ASSUME NEW n \in Node, slot'[n] # NoData 
      PROVE  \E i \in 1 .. length' : n = Pos(i)'
  <2>1. n # first /\ slot[n] # NoData
    BY <1>0, <1>6
  <2>2. PICK j \in 1 .. length : n = Pos(j)
    BY <2>1 DEF RingConsistent
  <2>3. j # 1
    BY <1>a, <2>1, <2>2
  <2>4. j - 1 \in 1 .. length' /\ (j - 1) + 1 = j /\ j - 1 \in 1 .. length
    BY <1>0, <1>a, <2>3
  <2>5. n = Pos(j - 1)'
    BY <1>1, <2>2, <2>4
  <2> QED BY <2>4, <2>5
<1>7. RingConsistent'
  BY <1>4, <1>5, <1>6 DEF RingConsistent, Node
<1> QED BY <1>0, <1>1, <1>2, <1>3, <1>7
\* Every step keeps the ring consistent and fires no assertion.
LEMMA StepKeepsRing == SpareNode /\ RingInv /\ TypeOK' /\ [Next]_vars => RingInv'
<1> SUFFICES ASSUME SpareNode, RingInv, TypeOK', [Next]_vars PROVE RingInv'
  OBVIOUS
<1> USE QueueAssumption DEF RingInv
<1>e. ASSUME NEW p \in Producers, NEW d \in Data, Enqueue(p, d) PROVE RingInv'
  <2>1. RingConsistent' /\ ~aborted'
    BY <1>e, EnqueueKeepsRing DEF Enqueue
  <2>2. WaitersHoldItem'
    BY <1>e DEF Enqueue, WaitersHoldItem, TypeOK, Threads
  <2> QED BY <2>1, <2>2
<1>s. ASSUME UNCHANGED <<slot, first, last, length, aborted>>
      PROVE  RingConsistent' /\ ~aborted'
  BY <1>s DEF RingConsistent, Pos
<1>w. ASSUME NEW p \in Producers, NEW d \in Data, SleepWhileFull(p, d) PROVE RingInv'
  BY <1>w, <1>s DEF SleepWhileFull, WaitersHoldItem, TypeOK, Threads
<1>1. ASSUME NEW p \in Producers, NEW d \in Data, SendEnter(p, d) PROVE RingInv'
  BY <1>1, <1>e, <1>w, LastIsFree DEF SendEnter
<1>2. ASSUME NEW p \in Producers, SendRetry(p) PROVE RingInv'
  <2>1. wants[p] \in Data
    BY <1>2 DEF SendRetry, WaitersHoldItem
  <2> QED BY <1>2, <2>1, <1>e, <1>w DEF SendRetry
<1>3. ASSUME NEW c \in Consumers, Receive(c) PROVE RingInv'
  <2>1. RingConsistent' /\ ~aborted'
    BY <1>3, <1>s, DequeueKeepsRing DEF Receive, SleepWhileEmpty
  <2>2. WaitersHoldItem'
    BY <1>3 DEF Receive, Dequeue, SleepWhileEmpty, WaitersHoldItem, TypeOK, Threads
  <2> QED BY <2>1, <2>2
<1>4. ASSUME NEW t \in Threads,
             SendBroadcast(t) \/ ReceiveBroadcast(t) \/ SpuriousWakeup(t)
      PROVE  RingInv'
  <2>1. RingConsistent' /\ ~aborted'
    BY <1>4, <1>s DEF SendBroadcast, ReceiveBroadcast, SpuriousWakeup
  <2>2. WaitersHoldItem'
    BY <1>4 DEF SendBroadcast, ReceiveBroadcast, SpuriousWakeup, Wake,
                WaitersHoldItem, TypeOK, Threads
  <2> QED BY <2>1, <2>2
<1>5. ASSUME UNCHANGED vars PROVE RingInv'
  BY <1>5, <1>s DEF vars, WaitersHoldItem
<1> QED BY <1>1, <1>2, <1>3, <1>4, <1>5 DEF Next, Threads

\* ... and is a ring.
LEMMA InitialRing == Init => RingInv
<1> SUFFICES ASSUME Init PROVE RingInv
  OBVIOUS
<1>1. TypeOK
  BY TypeCorrectInit
<1>2. RingConsistent
  BY QueueAssumption DEF Init, RingConsistent, Pos, Node
<1>3. WaitersHoldItem /\ ~aborted
  BY DEF Init, WaitersHoldItem, Threads
<1> QED BY <1>1, <1>2, <1>3 DEF RingInv

\* With a node to spare the ring is consistent in every reachable state.
THEOREM RingIsConsistent == ASSUME SpareNode PROVE Spec => []RingConsistent
<1>1. RingInv /\ TypeOK' /\ [Next]_vars => RingInv'
  BY SpareNode, StepKeepsRing
<1>2. RingInv => RingConsistent
  BY DEF RingInv
<1> QED BY <1>1, <1>2, InitialRing, TypeCorrect, PTL DEF Spec

\* With a node to spare tiz_queue_send keeps the promise of tizqueue.h:81: a
\* call that finds the queue full waits, and no assertion ends the process.
THEOREM SendBlocks == ASSUME SpareNode PROVE Spec => []SendBlocksWhenFull
<1>1. RingInv /\ TypeOK' /\ [Next]_vars => RingInv'
  BY SpareNode, StepKeepsRing
<1>2. RingInv => SendBlocksWhenFull
  BY DEF RingInv, SendBlocksWhenFull
<1> QED BY <1>1, <1>2, InitialRing, TypeCorrect, PTL DEF Spec
-----------------------------------------------------------------------------
\* The abstraction is a sequence of data, as long as the counter says.
ContentsOK ==
    /\ Contents \in Seq(Data) /\ Len(Contents) = length
    /\ \A i \in 1 .. length : Contents[i] = slot[Pos(i)]

\* What the ring holds is a sequence of messages.
LEMMA ContentsSequence == SpareNode /\ RingInv => ContentsOK
<1> SUFFICES ASSUME SpareNode, RingInv PROVE ContentsOK
  OBVIOUS
<1>1. length \in Nat
  BY QueueAssumption DEF RingInv, TypeOK
<1>2. ASSUME NEW i \in 1 .. length PROVE slot[Pos(i)] \in Data
  <2>1. slot[Pos(i)] # NoData
    BY DEF RingInv, RingConsistent
  <2>2. Pos(i) \in Node
    <3>1. i \in 1 .. length + 1
      BY <1>1
    <3> QED BY <3>1, PosInjective DEF RingInv
  <2> QED BY <2>1, <2>2 DEF RingInv, TypeOK
<1>3. Contents \in [1 .. length -> Data]
  BY <1>2 DEF Contents
<1>4. Contents \in Seq(Data) /\ Len(Contents) = length
  BY <1>1, <1>3, SeqDef
<1> QED BY <1>4 DEF Contents, ContentsOK

\* ... and so it is after a step.
LEMMA NextContentsSequence == SpareNode /\ RingInv' => ContentsOK'
<1>1. SpareNode => SpareNode'
  BY DEF SpareNode
<1> QED BY <1>1, ContentsSequence, PTL

\* A send that stores its item is a Send of the FIFO.
LEMMA EnqueueIsSend ==
  ASSUME SpareNode, RingInv, RingInv',
         NEW p \in Producers, NEW d \in Data, Enqueue(p, d)
  PROVE  Fifo!Send(d)
<1>1. length \in Nat /\ length < Capacity /\ length' = length + 1
  BY QueueAssumption, EnqueueKeepsRing DEF RingInv, TypeOK, Enqueue
<1>2. ContentsOK /\ ContentsOK'
  BY ContentsSequence, NextContentsSequence
<1>3. /\ Contents \in Seq(Data) /\ Contents' \in Seq(Data)
      /\ Len(Contents) = length /\ Len(Contents') = length + 1
  BY <1>1, <1>2 DEF ContentsOK
<1>4. \A i \in 1 .. length + 1 : Contents'[i] = slot'[Pos(i)']
  BY <1>1, <1>2 DEF ContentsOK
<1>5. \A i \in 1 .. length : Contents'[i] = Contents[i]
  <2> TAKE i \in 1 .. length
  <2>1. i \in 1 .. length + 1 /\ i \in 1 .. length'
    BY <1>1
  <2> QED BY <1>2, <1>4, <2>1, EnqueueKeepsRing DEF ContentsOK
<1>6. Contents'[length + 1] = d
  <2>1. length + 1 \in 1 .. length'
    BY <1>1
  <2> QED BY <1>1, <1>4, <2>1, EnqueueKeepsRing
<1>7. Contents' = Append(Contents, d)
  <2>1. /\ Append(Contents, d) \in Seq(Data)
        /\ Len(Append(Contents, d)) = length + 1
        /\ \A i \in 1 .. length : Append(Contents, d)[i] = Contents[i]
        /\ Append(Contents, d)[length + 1] = d
    BY <1>1, <1>3
  <2>2. \A i \in 1 .. length + 1 : Contents'[i] = Append(Contents, d)[i]
    BY <1>1, <1>5, <1>6, <2>1
  <2> QED BY <1>3, <2>1, <2>2, SeqEqual
<1> QED BY <1>1, <1>3, <1>7 DEF Fifo!Send

\* A receive that takes an item is a Receive of the FIFO.
LEMMA DequeueIsReceive ==
  ASSUME SpareNode, RingInv, RingInv', NEW c \in Consumers, Dequeue(c)
  PROVE  Fifo!Receive
<1>1. length \in Nat /\ length # 0 /\ length' = length - 1
  BY QueueAssumption, DequeueKeepsRing DEF RingInv, TypeOK, Dequeue
<1>2. ContentsOK /\ ContentsOK'
  BY ContentsSequence, NextContentsSequence
<1>3. /\ Contents \in Seq(Data) /\ Contents' \in Seq(Data) /\ Contents # <<>>
      /\ Len(Contents) = length /\ Len(Contents') = length - 1
  BY <1>1, <1>2 DEF ContentsOK
<1>4. \A i \in 1 .. length - 1 : Contents'[i] = Contents[i + 1]
  <2> TAKE i \in 1 .. length - 1
  <2>1. i \in 1 .. length' /\ i + 1 \in 1 .. length
    BY <1>1
  <2>2. Contents'[i] = slot'[Pos(i)'] /\ Contents[i + 1] = slot[Pos(i + 1)]
    BY <1>2, <2>1 DEF ContentsOK
  <2> QED BY <2>1, <2>2, DequeueKeepsRing
<1>5. Contents' = Tail(Contents)
  <2>1. /\ Tail(Contents) \in Seq(Data) /\ Len(Tail(Contents)) = length - 1
        /\ \A i \in 1 .. length - 1 : Tail(Contents)[i] = Contents[i + 1]
    BY <1>1, <1>3, HeadTailProperties
  <2> QED BY <1>1, <1>3, <1>4, <2>1, SeqEqual
<1> QED BY <1>3, <1>5 DEF Fifo!Receive

\* The ring of nodes implements the bounded FIFO of tizqueue.h, provided one
\* node stays free at capacity.
THEOREM QueueIsFifo == ASSUME SpareNode PROVE Spec => ImplementsFifo
<1>1. Init => Fifo!Init
  BY DEF Init, Fifo!Init, Contents
<1>2. RingInv /\ RingInv' /\ [Next]_vars => [Fifo!Next]_Contents
  <2> SUFFICES ASSUME RingInv, RingInv', [Next]_vars
               PROVE  Fifo!Next \/ UNCHANGED Contents
    OBVIOUS
  <2>s. ASSUME UNCHANGED <<slot, first, length>> PROVE UNCHANGED Contents
    BY <2>s DEF Contents, Pos
  <2>e. ASSUME NEW p \in Producers, NEW d \in Data, Enqueue(p, d) PROVE Fifo!Next
    BY <2>e, SpareNode, EnqueueIsSend DEF Fifo!Next
  <2>1. ASSUME NEW p \in Producers, NEW d \in Data, SendEnter(p, d)
        PROVE  Fifo!Next \/ UNCHANGED Contents
    BY <2>1, <2>e, <2>s DEF SendEnter, SleepWhileFull
  <2>2. ASSUME NEW p \in Producers, SendRetry(p)
        PROVE  Fifo!Next \/ UNCHANGED Contents
    <3>1. wants[p] \in Data
      BY <2>2 DEF SendRetry, RingInv, WaitersHoldItem
    <3> QED BY <2>2, <2>e, <2>s, <3>1 DEF SendRetry, SleepWhileFull
  <2>3. ASSUME NEW c \in Consumers, Receive(c)
        PROVE  Fifo!Next \/ UNCHANGED Contents
    <3>1. CASE Dequeue(c)
      BY <3>1, SpareNode, DequeueIsReceive DEF Fifo!Next
    <3>2. CASE SleepWhileEmpty(c)
      BY <2>s, <3>2 DEF SleepWhileEmpty
    <3> QED BY <2>3, <3>1, <3>2 DEF Receive
  <2> QED
    BY <2>1, <2>2, <2>3, <2>s
    DEF Next, SendBroadcast, ReceiveBroadcast, SpuriousWakeup, vars
<1>3. RingInv /\ TypeOK' /\ [Next]_vars => RingInv'
  BY SpareNode, StepKeepsRing
<1> QED
  BY <1>1, <1>2, <1>3, InitialRing, TypeCorrect, PTL
  DEF Spec, ImplementsFifo, Fifo!Spec
=============================================================================
