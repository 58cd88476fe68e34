------------------------- MODULE TizSchedulerProof -------------------------
(***************************************************************************)
(* Proofs about the scheduler, for any clients, components, tunnels and    *)
(* capacity: the semaphore always belongs to the holder of the mutex, and  *)
(* to every caller a blocking API is a synchronous exchange.               *)
(***************************************************************************)
EXTENDS TizScheduler, TLAPS

\* A call and the parts of the scheduler it is in agree: a thread that makes no
\* call has no target, only a blocking call gets beyond the sending, it then
\* has the mutex, and a call that begins or ends a component is its only one.
CallOK(t) ==
    LET k == call[t] IN
    /\ k.to = Nobody <=> k.step \in {"none", "done"}
    /\ k.step \in {"start", "lock", "wait", "answer", "join"} => Waits(k.class)
    /\ k.step = "join" => k.class = "DeInit"
    /\ k.step \in {"send", "wait", "answer"} /\ Waits(k.class) =>
            mutex[k.to] = t
    /\ k.to # Nobody /\ k.class \in {"Init", "DeInit"} =>
            /\ k.to \notin open
            /\ \A u \in Threads : call[u].to = k.to => u = t
    /\ k.step = "start" =>
            /\ k.class = "Init" /\ mutex[k.to] = Nobody
            /\ loop[k.to] \in {"starting", "receive"}
            /\ queue[k.to] = <<>>

MutexOK(c) ==
    mutex[c] # Nobody =>
        LET k == call[mutex[c]] IN
        /\ k.to = c /\ Waits(k.class)
        /\ k.step \in {"send", "wait", "answer"}

\* m is a message whose sender waits for its result.
Owed(c, m) ==
    /\ mutex[c] = m.from
    /\ call[m.from].to = c
    /\ call[m.from].step = "wait"
    /\ call[m.from].class = m.class

InQueue(c, i) == i \in 1 .. Len(queue[c]) /\ Waits(queue[c][i].class)

NoneQueued(c) == \A i \in 1 .. Len(queue[c]) : ~Waits(queue[c][i].class)

NotInHand(c) == hand[c] # Nobody => ~Waits(hand[c].class)

\* The one blocking message is in the queue, in hand, or processed and about to
\* be signalled.
QueueOK(c) ==
    /\ \A i \in Nat : InQueue(c, i) => Owed(c, queue[c][i])
    /\ \A i, j \in Nat : InQueue(c, i) /\ InQueue(c, j) => i = j

HandOK(c) ==
    /\ loop[c] = "dispatch" <=> hand[c] # Nobody
    /\ hand[c] # Nobody /\ Waits(hand[c].class) =>
            Owed(c, hand[c]) /\ NoneQueued(c)

PostOK(c) ==
    loop[c] = "post" =>
        /\ mutex[c] # Nobody /\ call[mutex[c]].step = "wait"
        /\ NoneQueued(c) /\ sem[c] = 0

TokenOK(c) ==
    sem[c] # 0 =>
        /\ sem[c] = 1
        /\ NoneQueued(c) /\ NotInHand(c)
        /\ \/ mutex[c] # Nobody /\ call[mutex[c]].step = "wait"
           \/ \E t \in Threads : call[t].to = c /\ call[t].step = "start"

\* A component that is not there, and one whose thread has not yet run.
UnbornOK(c) ==
    /\ loop[c] \in {"unborn", "starting"} =>
            /\ c \notin open
            /\ sem[c] = 0 /\ mutex[c] = Nobody /\ queue[c] = <<>>
    /\ loop[c] = "unborn" => \A t \in Threads : call[t].to # c
    /\ loop[c] = "starting" =>
            \E t \in Threads : call[t].to = c /\ call[t].step = "start"

CompOK(c) ==
    /\ MutexOK(c) /\ QueueOK(c) /\ HandOK(c)
    /\ PostOK(c) /\ TokenOK(c) /\ UnbornOK(c)

IInv ==
    /\ TypeOK
    /\ \A t \in Threads : CallOK(t)
    /\ \A c \in Components : CompOK(c)
-----------------------------------------------------------------------------
\* What the three ways of changing a call leave behind.
LEMMA Advanced ==
    ASSUME TypeOK, NEW t \in Threads, NEW step \in Steps, Advance(t, step)
    PROVE  /\ call' \in [Threads -> Calls]
           /\ call'[t].step = step
           /\ call'[t].to = call[t].to
           /\ call'[t].class = call[t].class
           /\ \A u \in Threads \ {t} : call'[u] = call[u]
<1>1. call[t] \in Calls
  BY DEF TypeOK
<1>2. [call[t] EXCEPT !.step = step] \in Calls
  BY <1>1 DEF Calls
<1> QED BY <1>1, <1>2 DEF TypeOK, Advance, Calls

LEMMA CallEnded ==
    ASSUME TypeOK, NEW t \in Threads, Returned(t)
    PROVE  /\ call' \in [Threads -> Calls]
           /\ call'[t].step \in {"none", "done"}
           /\ call'[t].to = Nobody
           /\ \A u \in Threads \ {t} : call'[u] = call[u]
BY DEF TypeOK, Returned, NoCall, Calls, Steps, Classes

LEMMA PhaseEnded ==
    ASSUME IInv, NEW c \in Components, PhaseEnds(c)
    PROVE  /\ call' \in [Threads -> Calls]
           /\ call[c].step \in {"none", "done"} /\ call[c].to = Nobody
           /\ call'[c].step = "none" /\ call'[c].to = Nobody
           /\ \A u \in Threads \ {c} : call'[u] = call[u]
<1>1. c \in Threads
  BY DEF Threads
<1> QED BY <1>1 DEF IInv, TypeOK, CallOK, PhaseEnds, NoCall, Calls, Steps, Classes

\* A component keeps its invariant when neither it nor a call on it changes.
LEMMA ComponentFrame ==
    ASSUME IInv, NEW d \in Components,
           loop'[d] = loop[d], hand'[d] = hand[d], queue'[d] = queue[d],
           mutex'[d] = mutex[d], sem'[d] = sem[d], d \in open' <=> d \in open,
           \A u \in Threads :
               call[u].to = d \/ call'[u].to = d => call'[u] = call[u]
    PROVE  CompOK(d)'
<1>0. /\ MutexOK(d) /\ QueueOK(d) /\ HandOK(d)
      /\ PostOK(d) /\ TokenOK(d) /\ UnbornOK(d)
  BY DEF IInv, CompOK
<1>1. mutex[d] \in Threads \cup {Nobody} /\ hand[d] \in Messages \cup {Nobody}
      /\ queue[d] \in Seq(Messages)
  BY DEF IInv, TypeOK
<1>2. MutexOK(d)'
  BY <1>0, <1>1 DEF MutexOK
<1>3. ASSUME NEW m \in Messages, Owed(d, m) PROVE Owed(d, m)'
  BY <1>3 DEF Owed, Messages
<1>4. QueueOK(d)'
  BY <1>0, <1>1, <1>3 DEF QueueOK, InQueue
<1>5. HandOK(d)'
  BY <1>0, <1>1, <1>3 DEF HandOK, NoneQueued
<1>6. PostOK(d)'
  BY <1>0, <1>1 DEF PostOK, MutexOK, NoneQueued
<1>7. TokenOK(d)'
  BY <1>0, <1>1 DEF TokenOK, MutexOK, NoneQueued, NotInHand
<1>8. UnbornOK(d)'
  BY <1>0 DEF UnbornOK
<1> QED BY <1>2, <1>4, <1>5, <1>6, <1>7, <1>8 DEF CompOK

\* So does a call, unless its component's handle or mutex or its being alone
\* there is taken away.
LEMMA CallFrame ==
    ASSUME IInv, NEW u \in Threads, call'[u] = call[u],
           call[u].to # Nobody =>
               LET c == call[u].to IN
               /\ mutex[c] = u => mutex'[c] = u
               /\ call[u].class \in {"Init", "DeInit"} =>
                      /\ c \in open' => c \in open
                      /\ \A v \in Threads : call'[v].to = c => call[v].to = c
               /\ call[u].step = "start" =>
                      /\ mutex'[c] = mutex[c] /\ queue'[c] = queue[c]
                      /\ loop'[c] \in {"starting", "receive"}
    PROVE  CallOK(u)'
<1>1. CallOK(u)
  BY DEF IInv
<1>2. call[u].to # Nobody \/ call[u].step \in {"none", "done"}
  BY <1>1 DEF CallOK
<1> QED BY <1>1, <1>2 DEF CallOK

\* What a step does not touch of a component.
Untouched(d) ==
    /\ loop'[d] = loop[d] /\ hand'[d] = hand[d] /\ queue'[d] = queue[d]
    /\ mutex'[d] = mutex[d] /\ sem'[d] = sem[d] /\ (d \in open' <=> d \in open)

\* A step at one component leaves all others, and the calls on them, as they are.
LEMMA Elsewhere ==
    ASSUME IInv, NEW c \in Components,
           \A d \in Components \ {c} : Untouched(d),
           \A u \in Threads :
               call'[u] = call[u] \/ {call[u].to, call'[u].to} \subseteq {c, Nobody}
    PROVE  /\ \A d \in Components \ {c} : CompOK(d)'
           /\ \A u \in Threads : call'[u] = call[u] /\ call[u].to # c => CallOK(u)'
<1>1. ASSUME NEW d \in Components \ {c} PROVE CompOK(d)'
  <2>1. d # Nobody
    BY SchedulerAssumption
  <2> QED BY <2>1, ComponentFrame DEF Untouched
<1>2. ASSUME NEW u \in Threads, call'[u] = call[u], call[u].to # c PROVE CallOK(u)'
  <2>1. CallOK(u) /\ call[u].to \in Components \cup {Nobody}
    BY DEF IInv, TypeOK, Calls
  <2>2. CASE call[u].to = Nobody
    BY <1>2, <2>2, CallFrame
  <2>3. CASE call[u].to # Nobody
    <3>1. Untouched(call[u].to)
      BY <1>2, <2>1, <2>3
    <3>2. \A v \in Threads : call'[v].to = call[u].to => call[v].to = call[u].to
      BY <1>2, <2>3
    <3>3. call[u].step = "start" => loop[call[u].to] \in {"starting", "receive"}
      BY <2>1 DEF CallOK
    <3> QED BY <1>2, <3>1, <3>2, <3>3, CallFrame DEF Untouched
  <2> QED BY <2>2, <2>3
<1> QED BY <1>1, <1>2

\* While nobody waits for a result, no message that wants one is under way.
LEMMA NothingOwed ==
    ASSUME IInv, NEW c \in Components,
           mutex[c] = Nobody \/ call[mutex[c]].step # "wait"
    PROVE  /\ NoneQueued(c) /\ NotInHand(c) /\ loop[c] # "post"
           /\ sem[c] = 0 \/ \E t \in Threads : call[t].to = c /\ call[t].step = "start"
<1>1. /\ QueueOK(c) /\ HandOK(c) /\ PostOK(c) /\ TokenOK(c)
      /\ queue[c] \in Seq(Messages) /\ hand[c] \in Messages \cup {Nobody}
  BY DEF IInv, TypeOK, CompOK
<1>2. ASSUME NEW m \in Messages PROVE ~Owed(c, m)
  BY SchedulerAssumption DEF Owed, Messages
<1>3. NoneQueued(c)
  <2> SUFFICES ASSUME NEW i \in 1 .. Len(queue[c]), Waits(queue[c][i].class)
               PROVE  FALSE
    BY DEF NoneQueued
  <2>1. queue[c][i] \in Messages /\ InQueue(c, i) /\ i \in Nat
    BY <1>1 DEF InQueue
  <2> QED BY <2>1, <1>1, <1>2 DEF QueueOK
<1>4. NotInHand(c)
  BY <1>1, <1>2 DEF HandOK, NotInHand
<1> QED BY <1>1, <1>3, <1>4 DEF PostOK, TokenOK

LEMMA StartedStep ==
    ASSUME IInv, NEW t \in Threads, Started(t)
    PROVE  IInv'
<1>0. TypeOK /\ (\A u \in Threads : CallOK(u)) /\ (\A d \in Components : CompOK(d))
  BY DEF IInv
<1>b. call[t] \in Calls /\ call[t].to # Nobody
  BY <1>0 DEF Started, TypeOK, CallOK
<1>a. PICK c \in Components : c = call[t].to
  BY <1>b DEF Calls
<1>nb. \A u \in Threads : u # Nobody
  BY SchedulerAssumption
<1>ok. MutexOK(c) /\ QueueOK(c) /\ HandOK(c) /\ PostOK(c) /\ TokenOK(c) /\ UnbornOK(c)
  BY <1>0, <1>a DEF CompOK
<1>ty. /\ queue[c] \in Seq(Messages) /\ mutex[c] \in Threads \cup {Nobody}
       /\ hand[c] \in Messages \cup {Nobody} /\ sem[c] \in Nat /\ loop[c] \in Loop
  BY <1>0, <1>a DEF TypeOK
<1>s. \A u \in Threads : call[u].to = c /\ call[u].step = "start" =>
        /\ \A v \in Threads : call[v].to = c => v = u
        /\ mutex[c] = Nobody /\ queue[c] = <<>> /\ c \notin open
        /\ loop[c] \in {"starting", "receive"}
  BY <1>0, <1>a DEF CallOK
<1>e. /\ call[t].step = "start" /\ sem[c] > 0
      /\ sem' = [sem EXCEPT ![c] = @ - 1] /\ Advance(t, "lock")
      /\ UNCHANGED <<loop, state, hand, error, queue, mutex, open>>
  BY <1>a DEF Started
<1>k. /\ call' \in [Threads -> Calls]
      /\ call'[t].step = "lock" /\ call'[t].to = c
      /\ call'[t].class = call[t].class
      /\ \A u \in Threads \ {t} : call'[u] = call[u]
  BY <1>0, <1>a, <1>e, Advanced DEF Steps
<1>m. sem[c] = 1 /\ sem'[c] = 0 /\ loop[c] = "receive" /\ NoneQueued(c) /\ Waits(call[t].class)
  BY <1>0, <1>a, <1>e, <1>s, <1>ok, <1>ty DEF TokenOK, UnbornOK, TypeOK, CallOK
<1>1. TypeOK'
  BY <1>0, <1>a, <1>e, <1>k, <1>m, <1>ty DEF TypeOK
<1>o. /\ \A d \in Components \ {c} : CompOK(d)'
      /\ \A u \in Threads : call'[u] = call[u] /\ call[u].to # c => CallOK(u)'
  <2>1. \A d \in Components \ {c} : Untouched(d)
    BY <1>0, <1>a, <1>e DEF TypeOK, Untouched
  <2>2. \A u \in Threads :
            call'[u] = call[u] \/ {call[u].to, call'[u].to} \subseteq {c, Nobody}
    BY <1>a, <1>b, <1>e, <1>k
  <2> QED BY <2>1, <2>2, Elsewhere
<1>2. ASSUME NEW u \in Threads PROVE CallOK(u)'
  <2>1. CASE u = t
    BY <2>1, <1>0, <1>a, <1>b, <1>e, <1>k, <1>m DEF CallOK
  <2>2. CASE u # t
    <3>1. CallOK(u) /\ call'[u] = call[u]
      BY <2>2, <1>0, <1>k
    <3>2. CASE call[u].to # c
      BY <3>1, <3>2, <1>o
    <3>3. call[u].to = c =>
            /\ mutex[c] = u => mutex'[c] = u
            /\ call[u].class \in {"Init", "DeInit"} =>
                   /\ c \in open' => c \in open
                   /\ \A v \in Threads : call'[v].to = c => call[v].to = c
            /\ call[u].step = "start" =>
                   /\ mutex'[c] = mutex[c] /\ queue'[c] = queue[c]
                   /\ loop'[c] \in {"starting", "receive"}
      BY <3>1, <2>2, <1>nb, <1>a, <1>e, <1>k, <1>m, <1>s DEF CallOK
    <3>4. CASE call[u].to = c
      BY <3>1, <3>3, <3>4, CallFrame
    <3> QED BY <3>2, <3>4
  <2> QED BY <2>1, <2>2
<1>3. MutexOK(c)'
  BY <1>0, <1>a, <1>e, <1>k, <1>m, <1>ok, <1>ty, <1>s DEF MutexOK
<1>4. QueueOK(c)'
  BY <1>0, <1>a, <1>e, <1>k, <1>m, <1>ok, <1>ty, <1>s DEF QueueOK, InQueue, Owed, NoneQueued, Messages
<1>5. HandOK(c)'
  BY <1>0, <1>a, <1>e, <1>k, <1>m, <1>ok, <1>ty, <1>s DEF HandOK, Owed, NotInHand, NoneQueued, Messages
<1>6. PostOK(c)'
  BY <1>0, <1>a, <1>e, <1>k, <1>m, <1>ok, <1>ty, <1>s DEF PostOK, NoneQueued, MutexOK
<1>7. TokenOK(c)'
  BY <1>0, <1>a, <1>e, <1>k, <1>m, <1>ok, <1>ty, <1>s DEF TokenOK, NoneQueued, NotInHand, MutexOK
<1>8. UnbornOK(c)'
  BY <1>0, <1>a, <1>e, <1>k, <1>m, <1>ok, <1>ty, <1>s DEF UnbornOK, CallOK
<1>9. CompOK(c)'
  BY <1>3, <1>4, <1>5, <1>6, <1>7, <1>8 DEF CompOK
<1>10. \A d \in Components : CompOK(d)'
  BY <1>9, <1>o
<1> QED BY <1>1, <1>2, <1>10 DEF IInv

LEMMA LockStep ==
    ASSUME IInv, NEW t \in Threads, Lock(t)
    PROVE  IInv'
<1>0. TypeOK /\ (\A u \in Threads : CallOK(u)) /\ (\A d \in Components : CompOK(d))
  BY DEF IInv
<1>b. call[t] \in Calls /\ call[t].to # Nobody
  BY <1>0 DEF Lock, TypeOK, CallOK
<1>a. PICK c \in Components : c = call[t].to
  BY <1>b DEF Calls
<1>nb. \A u \in Threads : u # Nobody
  BY SchedulerAssumption
<1>ok. MutexOK(c) /\ QueueOK(c) /\ HandOK(c) /\ PostOK(c) /\ TokenOK(c) /\ UnbornOK(c)
  BY <1>0, <1>a DEF CompOK
<1>ty. /\ queue[c] \in Seq(Messages) /\ mutex[c] \in Threads \cup {Nobody}
       /\ hand[c] \in Messages \cup {Nobody} /\ sem[c] \in Nat /\ loop[c] \in Loop
  BY <1>0, <1>a DEF TypeOK
<1>s. \A u \in Threads : call[u].to = c /\ call[u].step = "start" =>
        /\ \A v \in Threads : call[v].to = c => v = u
        /\ mutex[c] = Nobody /\ queue[c] = <<>> /\ c \notin open
        /\ loop[c] \in {"starting", "receive"}
  BY <1>0, <1>a DEF CallOK
<1>e. /\ call[t].step = "lock" /\ mutex[c] = Nobody
      /\ mutex' = [mutex EXCEPT ![c] = t] /\ Advance(t, "send")
      /\ UNCHANGED <<loop, state, hand, error, queue, sem, open>>
  BY <1>a DEF Lock
<1>k. /\ call' \in [Threads -> Calls]
      /\ call'[t].step = "send" /\ call'[t].to = c
      /\ call'[t].class = call[t].class
      /\ \A u \in Threads \ {t} : call'[u] = call[u]
  BY <1>0, <1>a, <1>e, Advanced DEF Steps
<1>m. /\ mutex'[c] = t /\ Waits(call[t].class) /\ t # Nobody
      /\ loop[c] \notin {"unborn", "starting", "post"} /\ sem[c] = 0
      /\ NoneQueued(c) /\ NotInHand(c)
  <2>1. t # Nobody /\ Nobody \notin Threads /\ mutex'[c] = t
    BY <1>0, <1>e, SchedulerAssumption DEF TypeOK
  <2>2. Waits(call[t].class) /\ loop[c] \notin {"unborn", "starting", "post"} /\ sem[c] = 0
    BY <2>1, <1>0, <1>a, <1>e, <1>s, <1>ok DEF CallOK, UnbornOK, PostOK, TokenOK
  <2>3. NoneQueued(c) /\ NotInHand(c)
    BY <1>e, NothingOwed
  <2> QED BY <2>1, <2>2, <2>3
<1>1. TypeOK'
  BY <1>0, <1>e, <1>k DEF TypeOK
<1>o. /\ \A d \in Components \ {c} : CompOK(d)'
      /\ \A u \in Threads : call'[u] = call[u] /\ call[u].to # c => CallOK(u)'
  <2>1. \A d \in Components \ {c} : Untouched(d)
    BY <1>0, <1>a, <1>e DEF TypeOK, Untouched
  <2>2. \A u \in Threads :
            call'[u] = call[u] \/ {call[u].to, call'[u].to} \subseteq {c, Nobody}
    BY <1>a, <1>b, <1>e, <1>k
  <2> QED BY <2>1, <2>2, Elsewhere
<1>2. ASSUME NEW u \in Threads PROVE CallOK(u)'
  <2>1. CASE u = t
    BY <2>1, <1>0, <1>a, <1>b, <1>e, <1>k, <1>m DEF CallOK
  <2>2. CASE u # t
    <3>1. CallOK(u) /\ call'[u] = call[u]
      BY <2>2, <1>0, <1>k
    <3>2. CASE call[u].to # c
      BY <3>1, <3>2, <1>o
    <3>3. call[u].to = c =>
            /\ mutex[c] = u => mutex'[c] = u
            /\ call[u].class \in {"Init", "DeInit"} =>
                   /\ c \in open' => c \in open
                   /\ \A v \in Threads : call'[v].to = c => call[v].to = c
            /\ call[u].step = "start" =>
                   /\ mutex'[c] = mutex[c] /\ queue'[c] = queue[c]
                   /\ loop'[c] \in {"starting", "receive"}
      BY <3>1, <2>2, <1>nb, <1>a, <1>e, <1>k, <1>m, <1>s DEF CallOK
    <3>4. CASE call[u].to = c
      BY <3>1, <3>3, <3>4, CallFrame
    <3> QED BY <3>2, <3>4
  <2> QED BY <2>1, <2>2
<1>3. MutexOK(c)'
  BY <1>0, <1>a, <1>e, <1>k, <1>m, <1>ok, <1>ty, <1>s DEF MutexOK
<1>4. QueueOK(c)'
  BY <1>0, <1>a, <1>e, <1>k, <1>m, <1>ok, <1>ty, <1>s DEF QueueOK, InQueue, Owed, NoneQueued, Messages
<1>5. HandOK(c)'
  BY <1>0, <1>a, <1>e, <1>k, <1>m, <1>ok, <1>ty, <1>s DEF HandOK, Owed, NotInHand, NoneQueued, Messages
<1>6. PostOK(c)'
  BY <1>0, <1>a, <1>e, <1>k, <1>m, <1>ok, <1>ty, <1>s DEF PostOK, NoneQueued, MutexOK
<1>7. TokenOK(c)'
  BY <1>0, <1>a, <1>e, <1>k, <1>m, <1>ok, <1>ty, <1>s DEF TokenOK, NoneQueued, NotInHand, MutexOK
<1>8. UnbornOK(c)'
  BY <1>0, <1>a, <1>e, <1>k, <1>m, <1>ok, <1>ty, <1>s DEF UnbornOK, CallOK
<1>9. CompOK(c)'
  BY <1>3, <1>4, <1>5, <1>6, <1>7, <1>8 DEF CompOK
<1>10. \A d \in Components : CompOK(d)'
  BY <1>9, <1>o
<1> QED BY <1>1, <1>2, <1>10 DEF IInv

LEMMA SendStep ==
    ASSUME IInv, NEW t \in Threads, Send(t)
    PROVE  IInv'
<1>0. TypeOK /\ (\A u \in Threads : CallOK(u)) /\ (\A d \in Components : CompOK(d))
  BY DEF IInv
<1>b. call[t] \in Calls /\ call[t].to # Nobody
  BY <1>0 DEF Send, TypeOK, CallOK
<1>a. PICK c \in Components : c = call[t].to
  BY <1>b DEF Calls
<1>nb. \A u \in Threads : u # Nobody
  BY SchedulerAssumption
<1>ok. MutexOK(c) /\ QueueOK(c) /\ HandOK(c) /\ PostOK(c) /\ TokenOK(c) /\ UnbornOK(c)
  BY <1>0, <1>a DEF CompOK
<1>ty. /\ queue[c] \in Seq(Messages) /\ mutex[c] \in Threads \cup {Nobody}
       /\ hand[c] \in Messages \cup {Nobody} /\ sem[c] \in Nat /\ loop[c] \in Loop
  BY <1>0, <1>a DEF TypeOK
<1>s. \A u \in Threads : call[u].to = c /\ call[u].step = "start" =>
        /\ \A v \in Threads : call[v].to = c => v = u
        /\ mutex[c] = Nobody /\ queue[c] = <<>> /\ c \notin open
        /\ loop[c] \in {"starting", "receive"}
  BY <1>0, <1>a DEF CallOK
<1>e. /\ call[t].step = "send"
      /\ queue' = [queue EXCEPT ![c] = Append(@, Message(t))]
      /\ IF Waits(call[t].class) THEN Advance(t, "wait") ELSE Returned(t)
      /\ UNCHANGED <<loop, state, hand, error, mutex, sem, open>>
  BY <1>a DEF Send
<1>k. /\ call' \in [Threads -> Calls]
      /\ Waits(call[t].class) =>
            /\ call'[t].step = "wait" /\ call'[t].to = c
            /\ call'[t].class = call[t].class
      /\ ~Waits(call[t].class) => call'[t].step \in {"none", "done"} /\ call'[t].to = Nobody
      /\ \A u \in Threads \ {t} : call'[u] = call[u]
  BY <1>0, <1>a, <1>e, Advanced, CallEnded DEF Steps
<1>m. /\ loop[c] \notin {"unborn", "starting"}
      /\ \A u \in Threads : call[u].to = c => call[u].step # "start"
      /\ Waits(call[t].class) =>
            /\ mutex[c] = t /\ sem[c] = 0 /\ loop[c] # "post"
            /\ NoneQueued(c) /\ NotInHand(c)
  <2>1. \A u \in Threads : call[u].to = c => call[u].step # "start"
    BY <1>a, <1>e, <1>s
  <2>2. loop[c] \notin {"unborn", "starting"}
    BY <2>1, <1>a, <1>ok DEF UnbornOK
  <2>3. Waits(call[t].class) => mutex[c] = t
    BY <1>0, <1>a, <1>e DEF CallOK
  <2> QED BY <2>1, <2>2, <2>3, <1>e, NothingOwed
<1>q. /\ queue' \in [Components -> Seq(Messages)]
      /\ Len(queue'[c]) = Len(queue[c]) + 1 /\ Len(queue[c]) \in Nat
      /\ \A i \in 1 .. Len(queue[c]) : queue'[c][i] = queue[c][i]
      /\ queue'[c][Len(queue[c]) + 1] = Message(t)
      /\ Message(t) \in Messages /\ Message(t).from = t
      /\ Message(t).class = call[t].class
  <2>1. /\ Message(t) \in Messages /\ Message(t).from = t
        /\ Message(t).class = call[t].class
    BY <1>b DEF Message, Messages, Calls
  <2>2. queue'[c] = Append(queue[c], Message(t))
    BY <1>0, <1>e DEF TypeOK
  <2>3. queue' \in [Components -> Seq(Messages)]
    BY <2>1, <1>0, <1>e DEF TypeOK
  <2> QED BY <2>1, <2>2, <2>3, <1>ty
<1>1. TypeOK'
  BY <1>0, <1>e, <1>k, <1>q DEF TypeOK
<1>o. /\ \A d \in Components \ {c} : CompOK(d)'
      /\ \A u \in Threads : call'[u] = call[u] /\ call[u].to # c => CallOK(u)'
  <2>1. \A d \in Components \ {c} : Untouched(d)
    BY <1>0, <1>a, <1>e DEF TypeOK, Untouched
  <2>2. \A u \in Threads :
            call'[u] = call[u] \/ {call[u].to, call'[u].to} \subseteq {c, Nobody}
    BY <1>a, <1>b, <1>e, <1>k
  <2> QED BY <2>1, <2>2, Elsewhere
<1>2. ASSUME NEW u \in Threads PROVE CallOK(u)'
  <2>1. CASE u = t
    BY <2>1, <1>0, <1>a, <1>b, <1>e, <1>k, <1>m DEF CallOK
  <2>2. CASE u # t
    <3>1. CallOK(u) /\ call'[u] = call[u]
      BY <2>2, <1>0, <1>k
    <3>2. CASE call[u].to # c
      BY <3>1, <3>2, <1>o
    <3>3. call[u].to = c =>
            /\ mutex[c] = u => mutex'[c] = u
            /\ call[u].class \in {"Init", "DeInit"} =>
                   /\ c \in open' => c \in open
                   /\ \A v \in Threads : call'[v].to = c => call[v].to = c
            /\ call[u].step = "start" =>
                   /\ mutex'[c] = mutex[c] /\ queue'[c] = queue[c]
                   /\ loop'[c] \in {"starting", "receive"}
      BY <3>1, <2>2, <1>nb, <1>a, <1>e, <1>k, <1>m, <1>s DEF CallOK
    <3>4. CASE call[u].to = c
      BY <3>1, <3>3, <3>4, CallFrame
    <3> QED BY <3>2, <3>4
  <2> QED BY <2>1, <2>2
<1>3. MutexOK(c)'
  BY <1>0, <1>a, <1>e, <1>k, <1>m, <1>ok, <1>ty, <1>s DEF MutexOK
<1>4. QueueOK(c)'
  <2>1. ASSUME NEW i \in Nat, InQueue(c, i)'
        PROVE  \/ i <= Len(queue[c]) /\ InQueue(c, i) /\ queue'[c][i] = queue[c][i]
               \/ i = Len(queue[c]) + 1 /\ queue'[c][i] = Message(t)
                  /\ Waits(call[t].class)
    BY <2>1, <1>q DEF InQueue
  <2>2. CASE Waits(call[t].class)
    <3>1. ASSUME NEW i \in Nat, InQueue(c, i)'
          PROVE  i = Len(queue[c]) + 1 /\ queue'[c][i] = Message(t)
      BY <3>1, <2>1, <2>2, <1>m DEF InQueue, NoneQueued
    <3>2. ASSUME NEW i \in Nat, InQueue(c, i)'
          PROVE  Owed(c, queue[c][i])'
      BY <3>1, <3>2, <2>2, <1>e, <1>k, <1>m, <1>q DEF Owed
    <3> QED BY <3>1, <3>2 DEF QueueOK
  <2>3. CASE ~Waits(call[t].class)
    <3>1. ASSUME NEW i \in Nat, InQueue(c, i)'
          PROVE  InQueue(c, i) /\ queue'[c][i] = queue[c][i]
      BY <3>1, <2>1, <2>3
    <3>2. ASSUME NEW i \in Nat, InQueue(c, i), Owed(c, queue[c][i])
          PROVE  Owed(c, queue[c][i])'
      <4>1. queue[c][i] \in Messages /\ queue'[c][i] = queue[c][i]
        BY <3>2, <1>q, <1>ty DEF InQueue
      <4>2. queue[c][i].from \in Threads \ {t}
        BY <4>1, <3>2, <1>e DEF Owed, Messages
      <4> QED BY <4>1, <4>2, <3>2, <1>e, <1>k DEF Owed
    <3> QED BY <3>1, <3>2, <1>ok DEF QueueOK
  <2> QED BY <2>2, <2>3
<1>n. ~Waits(call[t].class) /\ NoneQueued(c) => NoneQueued(c)'
  BY <1>q DEF NoneQueued
<1>5. HandOK(c)'
  BY <1>a, <1>e, <1>k, <1>m, <1>n, <1>ok, <1>ty DEF HandOK, Owed, NotInHand, Messages
<1>6. PostOK(c)'
  BY <1>a, <1>e, <1>k, <1>m, <1>n, <1>ok, <1>ty DEF PostOK
<1>7. TokenOK(c)'
  BY <1>a, <1>e, <1>k, <1>m, <1>n, <1>ok, <1>ty DEF TokenOK, NotInHand
<1>8. UnbornOK(c)'
  BY <1>0, <1>a, <1>e, <1>k, <1>m, <1>ok, <1>ty, <1>s DEF UnbornOK, CallOK
<1>9. CompOK(c)'
  BY <1>3, <1>4, <1>5, <1>6, <1>7, <1>8 DEF CompOK
<1>10. \A d \in Components : CompOK(d)'
  BY <1>9, <1>o
<1> QED BY <1>1, <1>2, <1>10 DEF IInv

LEMMA WaitStep ==
    ASSUME IInv, NEW t \in Threads, Wait(t)
    PROVE  IInv'
<1>0. TypeOK /\ (\A u \in Threads : CallOK(u)) /\ (\A d \in Components : CompOK(d))
  BY DEF IInv
<1>b. call[t] \in Calls /\ call[t].to # Nobody
  BY <1>0 DEF Wait, TypeOK, CallOK
<1>a. PICK c \in Components : c = call[t].to
  BY <1>b DEF Calls
<1>nb. \A u \in Threads : u # Nobody
  BY SchedulerAssumption
<1>ok. MutexOK(c) /\ QueueOK(c) /\ HandOK(c) /\ PostOK(c) /\ TokenOK(c) /\ UnbornOK(c)
  BY <1>0, <1>a DEF CompOK
<1>ty. /\ queue[c] \in Seq(Messages) /\ mutex[c] \in Threads \cup {Nobody}
       /\ hand[c] \in Messages \cup {Nobody} /\ sem[c] \in Nat /\ loop[c] \in Loop
  BY <1>0, <1>a DEF TypeOK
<1>s. \A u \in Threads : call[u].to = c /\ call[u].step = "start" =>
        /\ \A v \in Threads : call[v].to = c => v = u
        /\ mutex[c] = Nobody /\ queue[c] = <<>> /\ c \notin open
        /\ loop[c] \in {"starting", "receive"}
  BY <1>0, <1>a DEF CallOK
<1>e. /\ call[t].step = "wait" /\ sem[c] > 0
      /\ sem' = [sem EXCEPT ![c] = @ - 1] /\ Advance(t, "answer")
      /\ UNCHANGED <<loop, state, hand, error, queue, mutex, open>>
  BY <1>a DEF Wait
<1>k. /\ call' \in [Threads -> Calls]
      /\ call'[t].step = "answer" /\ call'[t].to = c
      /\ call'[t].class = call[t].class
      /\ \A u \in Threads \ {t} : call'[u] = call[u]
  BY <1>0, <1>a, <1>e, Advanced DEF Steps
<1>m. /\ mutex[c] = t /\ Waits(call[t].class) /\ sem[c] = 1 /\ sem'[c] = 0
      /\ NoneQueued(c) /\ NotInHand(c) /\ loop[c] # "post"
  BY <1>0, <1>a, <1>e, <1>ok, <1>ty DEF CallOK, TokenOK, PostOK, TypeOK
<1>1. TypeOK'
  BY <1>0, <1>a, <1>e, <1>k, <1>m, <1>ty DEF TypeOK
<1>o. /\ \A d \in Components \ {c} : CompOK(d)'
      /\ \A u \in Threads : call'[u] = call[u] /\ call[u].to # c => CallOK(u)'
  <2>1. \A d \in Components \ {c} : Untouched(d)
    BY <1>0, <1>a, <1>e DEF TypeOK, Untouched
  <2>2. \A u \in Threads :
            call'[u] = call[u] \/ {call[u].to, call'[u].to} \subseteq {c, Nobody}
    BY <1>a, <1>b, <1>e, <1>k
  <2> QED BY <2>1, <2>2, Elsewhere
<1>2. ASSUME NEW u \in Threads PROVE CallOK(u)'
  <2>1. CASE u = t
    BY <2>1, <1>0, <1>a, <1>b, <1>e, <1>k, <1>m DEF CallOK
  <2>2. CASE u # t
    <3>1. CallOK(u) /\ call'[u] = call[u]
      BY <2>2, <1>0, <1>k
    <3>2. CASE call[u].to # c
      BY <3>1, <3>2, <1>o
    <3>3. call[u].to = c =>
            /\ mutex[c] = u => mutex'[c] = u
            /\ call[u].class \in {"Init", "DeInit"} =>
                   /\ c \in open' => c \in open
                   /\ \A v \in Threads : call'[v].to = c => call[v].to = c
            /\ call[u].step = "start" =>
                   /\ mutex'[c] = mutex[c] /\ queue'[c] = queue[c]
                   /\ loop'[c] \in {"starting", "receive"}
      BY <3>1, <2>2, <1>nb, <1>a, <1>e, <1>k, <1>m, <1>s DEF CallOK
    <3>4. CASE call[u].to = c
      BY <3>1, <3>3, <3>4, CallFrame
    <3> QED BY <3>2, <3>4
  <2> QED BY <2>1, <2>2
<1>3. MutexOK(c)'
  BY <1>0, <1>a, <1>e, <1>k, <1>m, <1>ok, <1>ty, <1>s DEF MutexOK
<1>4. QueueOK(c)'
  BY <1>0, <1>a, <1>e, <1>k, <1>m, <1>ok, <1>ty, <1>s DEF QueueOK, InQueue, Owed, NoneQueued, Messages
<1>5. HandOK(c)'
  BY <1>0, <1>a, <1>e, <1>k, <1>m, <1>ok, <1>ty, <1>s DEF HandOK, Owed, NotInHand, NoneQueued, Messages
<1>6. PostOK(c)'
  BY <1>0, <1>a, <1>e, <1>k, <1>m, <1>ok, <1>ty, <1>s DEF PostOK, NoneQueued, MutexOK
<1>7. TokenOK(c)'
  BY <1>0, <1>a, <1>e, <1>k, <1>m, <1>ok, <1>ty, <1>s DEF TokenOK, NoneQueued, NotInHand, MutexOK
<1>8. UnbornOK(c)'
  BY <1>0, <1>a, <1>e, <1>k, <1>m, <1>ok, <1>ty, <1>s DEF UnbornOK, CallOK
<1>9. CompOK(c)'
  BY <1>3, <1>4, <1>5, <1>6, <1>7, <1>8 DEF CompOK
<1>10. \A d \in Components : CompOK(d)'
  BY <1>9, <1>o
<1> QED BY <1>1, <1>2, <1>10 DEF IInv

LEMMA AnswerStep ==
    ASSUME IInv, NEW t \in Threads, Answer(t)
    PROVE  IInv'
<1>0. TypeOK /\ (\A u \in Threads : CallOK(u)) /\ (\A d \in Components : CompOK(d))
  BY DEF IInv
<1>b. call[t] \in Calls /\ call[t].to # Nobody
  BY <1>0 DEF Answer, TypeOK, CallOK
<1>a. PICK c \in Components : c = call[t].to
  BY <1>b DEF Calls
<1>nb. \A u \in Threads : u # Nobody
  BY SchedulerAssumption
<1>ok. MutexOK(c) /\ QueueOK(c) /\ HandOK(c) /\ PostOK(c) /\ TokenOK(c) /\ UnbornOK(c)
  BY <1>0, <1>a DEF CompOK
<1>ty. /\ queue[c] \in Seq(Messages) /\ mutex[c] \in Threads \cup {Nobody}
       /\ hand[c] \in Messages \cup {Nobody} /\ sem[c] \in Nat /\ loop[c] \in Loop
  BY <1>0, <1>a DEF TypeOK
<1>s. \A u \in Threads : call[u].to = c /\ call[u].step = "start" =>
        /\ \A v \in Threads : call[v].to = c => v = u
        /\ mutex[c] = Nobody /\ queue[c] = <<>> /\ c \notin open
        /\ loop[c] \in {"starting", "receive"}
  BY <1>0, <1>a DEF CallOK
<1>e. /\ call[t].step = "answer"
      /\ mutex' = [mutex EXCEPT ![c] = Nobody]
      /\ open' = IF call[t].class = "Init" THEN open \cup {c} ELSE open
      /\ IF call[t].class = "DeInit" THEN Advance(t, "join") ELSE Returned(t)
      /\ UNCHANGED <<loop, state, hand, error, queue, sem>>
  BY <1>a DEF Answer
<1>k. /\ call' \in [Threads -> Calls]
      /\ call[t].class = "DeInit" =>
            /\ call'[t].step = "join" /\ call'[t].to = c
            /\ call'[t].class = call[t].class
      /\ ~(call[t].class = "DeInit") => call'[t].step \in {"none", "done"} /\ call'[t].to = Nobody
      /\ \A u \in Threads \ {t} : call'[u] = call[u]
  BY <1>0, <1>a, <1>e, Advanced, CallEnded DEF Steps
<1>m. /\ \A u \in Threads : call[u].to = c => call[u].step # "start"
      /\ loop[c] \notin {"unborn", "starting", "post"}
      /\ mutex[c] = t /\ mutex'[c] = Nobody /\ sem[c] = 0
      /\ NoneQueued(c) /\ NotInHand(c) /\ Waits(call[t].class)
      /\ call[t].class = "Init" =>
            \A u \in Threads : call[u].to = c => u = t
  <2>4. call[t].class = "Init" => \A u \in Threads : call[u].to = c => u = t
    BY <1>0, <1>a, <1>b DEF CallOK
  <2>1. \A u \in Threads : call[u].to = c => call[u].step # "start"
    BY <1>a, <1>e, <1>s
  <2>2. loop[c] \notin {"unborn", "starting"}
    BY <2>1, <1>a, <1>ok DEF UnbornOK
  <2>3. mutex[c] = t /\ mutex'[c] = Nobody /\ Waits(call[t].class)
    BY <1>0, <1>a, <1>e DEF CallOK, TypeOK
  <2> QED BY <2>1, <2>2, <2>3, <2>4, <1>e, NothingOwed
<1>1. TypeOK'
  BY <1>0, <1>e, <1>k DEF TypeOK
<1>o. /\ \A d \in Components \ {c} : CompOK(d)'
      /\ \A u \in Threads : call'[u] = call[u] /\ call[u].to # c => CallOK(u)'
  <2>1. \A d \in Components \ {c} : Untouched(d)
    BY <1>0, <1>a, <1>e DEF TypeOK, Untouched
  <2>2. \A u \in Threads :
            call'[u] = call[u] \/ {call[u].to, call'[u].to} \subseteq {c, Nobody}
    BY <1>a, <1>b, <1>e, <1>k
  <2> QED BY <2>1, <2>2, Elsewhere
<1>2. ASSUME NEW u \in Threads PROVE CallOK(u)'
  <2>1. CASE u = t
    BY <2>1, <1>0, <1>a, <1>b, <1>e, <1>k, <1>m DEF CallOK
  <2>2. CASE u # t
    <3>1. CallOK(u) /\ call'[u] = call[u]
      BY <2>2, <1>0, <1>k
    <3>2. CASE call[u].to # c
      BY <3>1, <3>2, <1>o
    <3>3. call[u].to = c =>
            /\ mutex[c] = u => mutex'[c] = u
            /\ call[u].class \in {"Init", "DeInit"} =>
                   /\ c \in open' => c \in open
                   /\ \A v \in Threads : call'[v].to = c => call[v].to = c
            /\ call[u].step = "start" =>
                   /\ mutex'[c] = mutex[c] /\ queue'[c] = queue[c]
                   /\ loop'[c] \in {"starting", "receive"}
      BY <3>1, <2>2, <1>nb, <1>a, <1>e, <1>k, <1>m, <1>s DEF CallOK
    <3>4. CASE call[u].to = c
      BY <3>1, <3>3, <3>4, CallFrame
    <3> QED BY <3>2, <3>4
  <2> QED BY <2>1, <2>2
<1>3. MutexOK(c)'
  BY <1>0, <1>a, <1>e, <1>k, <1>m, <1>ok, <1>ty, <1>s DEF MutexOK
<1>4. QueueOK(c)'
  BY <1>0, <1>a, <1>e, <1>k, <1>m, <1>ok, <1>ty, <1>s DEF QueueOK, InQueue, Owed, NoneQueued, Messages
<1>5. HandOK(c)'
  BY <1>0, <1>a, <1>e, <1>k, <1>m, <1>ok, <1>ty, <1>s DEF HandOK, Owed, NotInHand, NoneQueued, Messages
<1>6. PostOK(c)'
  BY <1>0, <1>a, <1>e, <1>k, <1>m, <1>ok, <1>ty, <1>s DEF PostOK, NoneQueued, MutexOK
<1>7. TokenOK(c)'
  BY <1>0, <1>a, <1>e, <1>k, <1>m, <1>ok, <1>ty, <1>s DEF TokenOK, NoneQueued, NotInHand, MutexOK
<1>8. UnbornOK(c)'
  BY <1>0, <1>a, <1>e, <1>k, <1>m, <1>ok, <1>ty, <1>s DEF UnbornOK, CallOK
<1>9. CompOK(c)'
  BY <1>3, <1>4, <1>5, <1>6, <1>7, <1>8 DEF CompOK
<1>10. \A d \in Components : CompOK(d)'
  BY <1>9, <1>o
<1> QED BY <1>1, <1>2, <1>10 DEF IInv

LEMMA JoinStep ==
    ASSUME IInv, NEW t \in Threads, Join(t)
    PROVE  IInv'
<1>0. TypeOK /\ (\A u \in Threads : CallOK(u)) /\ (\A d \in Components : CompOK(d))
  BY DEF IInv
<1>b. call[t] \in Calls /\ call[t].to # Nobody
  BY <1>0 DEF Join, TypeOK, CallOK
<1>a. PICK c \in Components : c = call[t].to
  BY <1>b DEF Calls
<1>nb. \A u \in Threads : u # Nobody
  BY SchedulerAssumption
<1>ok. MutexOK(c) /\ QueueOK(c) /\ HandOK(c) /\ PostOK(c) /\ TokenOK(c) /\ UnbornOK(c)
  BY <1>0, <1>a DEF CompOK
<1>ty. /\ queue[c] \in Seq(Messages) /\ mutex[c] \in Threads \cup {Nobody}
       /\ hand[c] \in Messages \cup {Nobody} /\ sem[c] \in Nat /\ loop[c] \in Loop
  BY <1>0, <1>a DEF TypeOK
<1>s. \A u \in Threads : call[u].to = c /\ call[u].step = "start" =>
        /\ \A v \in Threads : call[v].to = c => v = u
        /\ mutex[c] = Nobody /\ queue[c] = <<>> /\ c \notin open
        /\ loop[c] \in {"starting", "receive"}
  BY <1>0, <1>a DEF CallOK
<1>e. /\ call[t].step = "join" /\ loop[c] = "exited"
      /\ loop' = [loop EXCEPT ![c] = "unborn"]
      /\ queue' = [queue EXCEPT ![c] = <<>>]
      /\ error' = [error EXCEPT ![c] = Nobody] /\ Returned(t)
      /\ UNCHANGED <<state, hand, mutex, sem, open>>
  BY <1>a DEF Join
<1>k. /\ call' \in [Threads -> Calls]
      /\ call'[t].step \in {"none", "done"} /\ call'[t].to = Nobody
      /\ \A u \in Threads \ {t} : call'[u] = call[u]
  BY <1>0, <1>e, CallEnded
<1>m. /\ \A u \in Threads : call[u].to = c => u = t
      /\ mutex[c] = Nobody /\ sem[c] = 0 /\ hand[c] = Nobody /\ c \notin open
      /\ queue'[c] = <<>> /\ loop'[c] = "unborn"
  <2>1. c \notin open /\ \A u \in Threads : call[u].to = c => u = t
    BY <1>0, <1>a, <1>b, <1>e DEF CallOK
  <2>2. mutex[c] = Nobody
    BY <2>1, <1>e, <1>ok, <1>ty DEF MutexOK
  <2>3. sem[c] = 0
    BY <2>1, <2>2, <1>e, NothingOwed
  <2> QED BY <2>1, <2>2, <2>3, <1>0, <1>e, <1>ok DEF HandOK, TypeOK
<1>1. TypeOK'
  BY <1>0, <1>e, <1>k DEF TypeOK, Loop
<1>o. /\ \A d \in Components \ {c} : CompOK(d)'
      /\ \A u \in Threads : call'[u] = call[u] /\ call[u].to # c => CallOK(u)'
  <2>1. \A d \in Components \ {c} : Untouched(d)
    BY <1>0, <1>a, <1>e DEF TypeOK, Untouched
  <2>2. \A u \in Threads :
            call'[u] = call[u] \/ {call[u].to, call'[u].to} \subseteq {c, Nobody}
    BY <1>a, <1>b, <1>e, <1>k
  <2> QED BY <2>1, <2>2, Elsewhere
<1>2. ASSUME NEW u \in Threads PROVE CallOK(u)'
  <2>1. CASE u = t
    BY <2>1, <1>0, <1>a, <1>b, <1>e, <1>k, <1>m DEF CallOK
  <2>2. CASE u # t
    <3>1. CallOK(u) /\ call'[u] = call[u]
      BY <2>2, <1>0, <1>k
    <3>2. CASE call[u].to # c
      BY <3>1, <3>2, <1>o
    <3>3. call[u].to = c =>
            /\ mutex[c] = u => mutex'[c] = u
            /\ call[u].class \in {"Init", "DeInit"} =>
                   /\ c \in open' => c \in open
                   /\ \A v \in Threads : call'[v].to = c => call[v].to = c
            /\ call[u].step = "start" =>
                   /\ mutex'[c] = mutex[c] /\ queue'[c] = queue[c]
                   /\ loop'[c] \in {"starting", "receive"}
      BY <3>1, <2>2, <1>nb, <1>a, <1>e, <1>k, <1>m, <1>s DEF CallOK
    <3>4. CASE call[u].to = c
      BY <3>1, <3>3, <3>4, CallFrame
    <3> QED BY <3>2, <3>4
  <2> QED BY <2>1, <2>2
<1>3. MutexOK(c)'
  BY <1>0, <1>a, <1>e, <1>k, <1>m, <1>ok, <1>ty, <1>s DEF MutexOK
<1>4. QueueOK(c)'
  BY <1>m DEF QueueOK, InQueue
<1>5. HandOK(c)'
  BY <1>0, <1>a, <1>e, <1>k, <1>m, <1>ok, <1>ty, <1>s DEF HandOK, Owed, NotInHand, NoneQueued, Messages
<1>6. PostOK(c)'
  BY <1>0, <1>a, <1>e, <1>k, <1>m, <1>ok, <1>ty, <1>s DEF PostOK, NoneQueued, MutexOK
<1>7. TokenOK(c)'
  BY <1>0, <1>a, <1>e, <1>k, <1>m, <1>ok, <1>ty, <1>s DEF TokenOK, NoneQueued, NotInHand, MutexOK
<1>8. UnbornOK(c)'
  BY <1>0, <1>a, <1>e, <1>k, <1>m, <1>ok, <1>ty, <1>s DEF UnbornOK, CallOK
<1>9. CompOK(c)'
  BY <1>3, <1>4, <1>5, <1>6, <1>7, <1>8 DEF CompOK
<1>10. \A d \in Components : CompOK(d)'
  BY <1>9, <1>o
<1> QED BY <1>1, <1>2, <1>10 DEF IInv

LEMMA OpenStep ==
    ASSUME IInv, NEW t \in Threads, NEW c \in Components, Open(t, c)
    PROVE  IInv'
<1>0. TypeOK /\ (\A u \in Threads : CallOK(u)) /\ (\A d \in Components : CompOK(d))
  BY DEF IInv
<1>a. c \in Components /\ c # Nobody
  BY SchedulerAssumption
<1>b. call[t].to = Nobody /\ call[t] \in Calls
  BY <1>0 DEF Open, TypeOK, CallOK, Free
<1>nb. \A u \in Threads : u # Nobody
  BY SchedulerAssumption
<1>ok. MutexOK(c) /\ QueueOK(c) /\ HandOK(c) /\ PostOK(c) /\ TokenOK(c) /\ UnbornOK(c)
  BY <1>0, <1>a DEF CompOK
<1>ty. /\ queue[c] \in Seq(Messages) /\ mutex[c] \in Threads \cup {Nobody}
       /\ hand[c] \in Messages \cup {Nobody} /\ sem[c] \in Nat /\ loop[c] \in Loop
  BY <1>0, <1>a DEF TypeOK
<1>s. \A u \in Threads : call[u].to = c /\ call[u].step = "start" =>
        /\ \A v \in Threads : call[v].to = c => v = u
        /\ mutex[c] = Nobody /\ queue[c] = <<>> /\ c \notin open
        /\ loop[c] \in {"starting", "receive"}
  BY <1>0, <1>a DEF CallOK
<1>e. /\ call[t].step = "none" /\ loop[c] = "unborn"
      /\ loop' = [loop EXCEPT ![c] = "starting"]
      /\ state' = [state EXCEPT ![c] = "Starting"]
      /\ call' = [call EXCEPT ![t] = [step |-> "start", to |-> c, class |-> "Init"]]
      /\ UNCHANGED <<hand, error, queue, mutex, sem, open>>
  BY DEF Open
<1>k. /\ call' \in [Threads -> Calls]
      /\ call'[t].step = "start" /\ call'[t].to = c /\ call'[t].class = "Init"
      /\ \A u \in Threads \ {t} : call'[u] = call[u]
  BY <1>0, <1>e DEF TypeOK, Calls, Steps, Classes
<1>m. /\ \A u \in Threads : call[u].to # c
      /\ mutex[c] = Nobody /\ sem[c] = 0 /\ queue[c] = <<>> /\ c \notin open
      /\ loop'[c] = "starting" /\ hand[c] = Nobody /\ Waits("Init")
  BY <1>0, <1>e, <1>ok, SchedulerAssumption DEF UnbornOK, HandOK, TypeOK, Waits
<1>1. TypeOK'
  BY <1>0, <1>e, <1>k DEF TypeOK, Loop
<1>o. /\ \A d \in Components \ {c} : CompOK(d)'
      /\ \A u \in Threads : call'[u] = call[u] /\ call[u].to # c => CallOK(u)'
  <2>1. \A d \in Components \ {c} : Untouched(d)
    BY <1>0, <1>a, <1>e DEF TypeOK, Untouched
  <2>2. \A u \in Threads :
            call'[u] = call[u] \/ {call[u].to, call'[u].to} \subseteq {c, Nobody}
    BY <1>a, <1>b, <1>e, <1>k
  <2> QED BY <2>1, <2>2, Elsewhere
<1>2. ASSUME NEW u \in Threads PROVE CallOK(u)'
  <2>1. CASE u = t
    BY <2>1, <1>0, <1>a, <1>nb, <1>e, <1>k, <1>m DEF CallOK
  <2>2. CASE u # t
    <3>1. CallOK(u) /\ call'[u] = call[u]
      BY <2>2, <1>0, <1>k
    <3>2. CASE call[u].to # c
      BY <3>1, <3>2, <1>o
    <3>3. call[u].to = c =>
            /\ mutex[c] = u => mutex'[c] = u
            /\ call[u].class \in {"Init", "DeInit"} =>
                   /\ c \in open' => c \in open
                   /\ \A v \in Threads : call'[v].to = c => call[v].to = c
            /\ call[u].step = "start" =>
                   /\ mutex'[c] = mutex[c] /\ queue'[c] = queue[c]
                   /\ loop'[c] \in {"starting", "receive"}
      BY <3>1, <2>2, <1>nb, <1>a, <1>e, <1>k, <1>m, <1>s DEF CallOK
    <3>4. CASE call[u].to = c
      BY <3>1, <3>3, <3>4, CallFrame
    <3> QED BY <3>2, <3>4
  <2> QED BY <2>1, <2>2
<1>3. MutexOK(c)'
  BY <1>0, <1>a, <1>e, <1>k, <1>m, <1>ok, <1>ty, <1>s DEF MutexOK
<1>4. QueueOK(c)'
  BY <1>0, <1>a, <1>e, <1>k, <1>m, <1>ok, <1>ty, <1>s DEF QueueOK, InQueue, Owed, NoneQueued, Messages
<1>5. HandOK(c)'
  BY <1>0, <1>a, <1>e, <1>k, <1>m, <1>ok, <1>ty, <1>s DEF HandOK, Owed, NotInHand, NoneQueued, Messages
<1>6. PostOK(c)'
  BY <1>0, <1>a, <1>e, <1>k, <1>m, <1>ok, <1>ty, <1>s DEF PostOK, NoneQueued, MutexOK
<1>7. TokenOK(c)'
  BY <1>0, <1>a, <1>e, <1>k, <1>m, <1>ok, <1>ty, <1>s DEF TokenOK, NoneQueued, NotInHand, MutexOK
<1>8. UnbornOK(c)'
  BY <1>0, <1>a, <1>e, <1>k, <1>m, <1>ok, <1>ty, <1>s DEF UnbornOK, CallOK
<1>9. CompOK(c)'
  BY <1>3, <1>4, <1>5, <1>6, <1>7, <1>8 DEF CompOK
<1>10. \A d \in Components : CompOK(d)'
  BY <1>9, <1>o
<1> QED BY <1>1, <1>2, <1>10 DEF IInv

LEMMA BeginStep ==
    ASSUME IInv, NEW t \in Threads, NEW c \in Components, NEW class \in Classes, Begin(t, c, class)
    PROVE  IInv'
<1>0. TypeOK /\ (\A u \in Threads : CallOK(u)) /\ (\A d \in Components : CompOK(d))
  BY DEF IInv
<1>a. c \in Components /\ c # Nobody
  BY SchedulerAssumption
<1>b. call[t].to = Nobody /\ call[t] \in Calls
  BY <1>0 DEF Begin, TypeOK, CallOK, Free
<1>nb. \A u \in Threads : u # Nobody
  BY SchedulerAssumption
<1>ok. MutexOK(c) /\ QueueOK(c) /\ HandOK(c) /\ PostOK(c) /\ TokenOK(c) /\ UnbornOK(c)
  BY <1>0, <1>a DEF CompOK
<1>ty. /\ queue[c] \in Seq(Messages) /\ mutex[c] \in Threads \cup {Nobody}
       /\ hand[c] \in Messages \cup {Nobody} /\ sem[c] \in Nat /\ loop[c] \in Loop
  BY <1>0, <1>a DEF TypeOK
<1>s. \A u \in Threads : call[u].to = c /\ call[u].step = "start" =>
        /\ \A v \in Threads : call[v].to = c => v = u
        /\ mutex[c] = Nobody /\ queue[c] = <<>> /\ c \notin open
        /\ loop[c] \in {"starting", "receive"}
  BY <1>0, <1>a DEF CallOK
<1>e. /\ call[t].step = "none" /\ c \in open /\ class # "Init"
      /\ class = "DeInit" => \A u \in Threads : call[u].to # c
      /\ open' = IF class = "DeInit" THEN open \ {c} ELSE open
      /\ call' = [call EXCEPT ![t] =
            [step |-> IF Waits(class) THEN "lock" ELSE "send",
             to |-> c, class |-> class]]
      /\ UNCHANGED <<loop, state, hand, error, queue, mutex, sem>>
  BY DEF Begin, Free
<1>k. /\ call' \in [Threads -> Calls]
      /\ call'[t].step = (IF Waits(class) THEN "lock" ELSE "send")
      /\ call'[t].to = c /\ call'[t].class = class
      /\ \A u \in Threads \ {t} : call'[u] = call[u]
  BY <1>0, <1>e DEF TypeOK, Calls, Steps
<1>m. /\ loop[c] \notin {"unborn", "starting"}
      /\ \A u \in Threads : call[u].to = c => call[u].class \notin {"Init", "DeInit"}
      /\ \A u \in Threads : call[u].to = c => call[u].step # "start"
      /\ mutex[c] # t
  BY <1>0, <1>a, <1>b, <1>e, <1>ok, <1>nb DEF UnbornOK, CallOK, MutexOK
<1>1. TypeOK'
  BY <1>0, <1>e, <1>k DEF TypeOK
<1>o. /\ \A d \in Components \ {c} : CompOK(d)'
      /\ \A u \in Threads : call'[u] = call[u] /\ call[u].to # c => CallOK(u)'
  <2>1. \A d \in Components \ {c} : Untouched(d)
    BY <1>0, <1>a, <1>e DEF TypeOK, Untouched
  <2>2. \A u \in Threads :
            call'[u] = call[u] \/ {call[u].to, call'[u].to} \subseteq {c, Nobody}
    BY <1>a, <1>b, <1>e, <1>k
  <2> QED BY <2>1, <2>2, Elsewhere
<1>2. ASSUME NEW u \in Threads PROVE CallOK(u)'
  <2>1. CASE u = t
    BY <2>1, <1>0, <1>a, <1>nb, <1>e, <1>k, <1>m DEF CallOK
  <2>2. CASE u # t
    <3>1. CallOK(u) /\ call'[u] = call[u]
      BY <2>2, <1>0, <1>k
    <3>2. CASE call[u].to # c
      BY <3>1, <3>2, <1>o
    <3>3. call[u].to = c =>
            /\ mutex[c] = u => mutex'[c] = u
            /\ call[u].class \in {"Init", "DeInit"} =>
                   /\ c \in open' => c \in open
                   /\ \A v \in Threads : call'[v].to = c => call[v].to = c
            /\ call[u].step = "start" =>
                   /\ mutex'[c] = mutex[c] /\ queue'[c] = queue[c]
                   /\ loop'[c] \in {"starting", "receive"}
      BY <3>1, <2>2, <1>nb, <1>a, <1>e, <1>k, <1>m, <1>s DEF CallOK
    <3>4. CASE call[u].to = c
      BY <3>1, <3>3, <3>4, CallFrame
    <3> QED BY <3>2, <3>4
  <2> QED BY <2>1, <2>2
<1>3. MutexOK(c)'
  BY <1>0, <1>a, <1>e, <1>k, <1>m, <1>ok, <1>ty, <1>s DEF MutexOK
<1>4. QueueOK(c)'
  BY <1>0, <1>a, <1>e, <1>k, <1>m, <1>ok, <1>ty, <1>s DEF QueueOK, InQueue, Owed, NoneQueued, Messages
<1>5. HandOK(c)'
  BY <1>0, <1>a, <1>e, <1>k, <1>m, <1>ok, <1>ty, <1>s DEF HandOK, Owed, NotInHand, NoneQueued, Messages
<1>6. PostOK(c)'
  BY <1>0, <1>a, <1>e, <1>k, <1>m, <1>ok, <1>ty, <1>s DEF PostOK, NoneQueued, MutexOK
<1>7. TokenOK(c)'
  BY <1>0, <1>a, <1>e, <1>k, <1>m, <1>ok, <1>ty, <1>s DEF TokenOK, NoneQueued, NotInHand, MutexOK
<1>8. UnbornOK(c)'
  BY <1>0, <1>a, <1>e, <1>k, <1>m, <1>ok, <1>ty, <1>s DEF UnbornOK, CallOK
<1>9. CompOK(c)'
  BY <1>3, <1>4, <1>5, <1>6, <1>7, <1>8 DEF CompOK
<1>10. \A d \in Components : CompOK(d)'
  BY <1>9, <1>o
<1> QED BY <1>1, <1>2, <1>10 DEF IInv

LEMMA ThreadStartsStep ==
    ASSUME IInv, NEW c \in Components, ThreadStarts(c)
    PROVE  IInv'
<1>0. TypeOK /\ (\A u \in Threads : CallOK(u)) /\ (\A d \in Components : CompOK(d))
  BY DEF IInv
<1>a. c \in Components /\ c # Nobody
  BY SchedulerAssumption
<1>b. c \in Threads
  BY DEF Threads
<1>nb. \A u \in Threads : u # Nobody
  BY SchedulerAssumption
<1>ok. MutexOK(c) /\ QueueOK(c) /\ HandOK(c) /\ PostOK(c) /\ TokenOK(c) /\ UnbornOK(c)
  BY <1>0, <1>a DEF CompOK
<1>ty. /\ queue[c] \in Seq(Messages) /\ mutex[c] \in Threads \cup {Nobody}
       /\ hand[c] \in Messages \cup {Nobody} /\ sem[c] \in Nat /\ loop[c] \in Loop
  BY <1>0, <1>a DEF TypeOK
<1>s. \A u \in Threads : call[u].to = c /\ call[u].step = "start" =>
        /\ \A v \in Threads : call[v].to = c => v = u
        /\ mutex[c] = Nobody /\ queue[c] = <<>> /\ c \notin open
        /\ loop[c] \in {"starting", "receive"}
  BY <1>0, <1>a DEF CallOK
<1>e. /\ loop[c] = "starting" /\ loop' = [loop EXCEPT ![c] = "receive"]
      /\ sem' = [sem EXCEPT ![c] = @ + 1]
      /\ UNCHANGED <<state, hand, error, queue, mutex, open, call>>
  BY DEF ThreadStarts
<1>k. call' = call /\ call \in [Threads -> Calls]
  BY <1>0, <1>e DEF TypeOK
<1>m. /\ loop'[c] = "receive" /\ sem'[c] = 1 /\ hand[c] = Nobody
      /\ queue[c] = <<>> /\ mutex[c] = Nobody /\ c \notin open
      /\ NoneQueued(c) /\ NotInHand(c)
      /\ \E u \in Threads : call[u].to = c /\ call[u].step = "start"
  BY <1>0, <1>a, <1>e, <1>ok, <1>ty DEF UnbornOK, HandOK, NoneQueued, NotInHand, TypeOK
<1>1. TypeOK'
  BY <1>0, <1>e, <1>k, <1>m DEF TypeOK, Loop
<1>o. /\ \A d \in Components \ {c} : CompOK(d)'
      /\ \A u \in Threads : call'[u] = call[u] /\ call[u].to # c => CallOK(u)'
  <2>1. \A d \in Components \ {c} : Untouched(d)
    BY <1>0, <1>a, <1>e DEF TypeOK, Untouched
  <2>2. \A u \in Threads :
            call'[u] = call[u] \/ {call[u].to, call'[u].to} \subseteq {c, Nobody}
    BY <1>k
  <2> QED BY <2>1, <2>2, Elsewhere
<1>2. ASSUME NEW u \in Threads PROVE CallOK(u)'
  <2>1. CallOK(u)
    BY <1>0
  <2>2. CASE call[u].to # c
    BY <2>2, <1>k, <1>o
  <2>3. CASE call[u].to = c
    BY <2>1, <2>3, <1>0, <1>a, <1>e, <1>k, <1>m DEF CallOK, TypeOK
  <2> QED BY <2>2, <2>3
<1>3. MutexOK(c)'
  BY <1>0, <1>a, <1>e, <1>k, <1>m, <1>ok, <1>ty, <1>s DEF MutexOK
<1>4. QueueOK(c)'
  BY <1>0, <1>a, <1>e, <1>k, <1>m, <1>ok, <1>ty, <1>s DEF QueueOK, InQueue, Owed, NoneQueued, Messages
<1>5. HandOK(c)'
  BY <1>0, <1>a, <1>e, <1>k, <1>m, <1>ok, <1>ty, <1>s DEF HandOK, Owed, NotInHand, NoneQueued, Messages
<1>6. PostOK(c)'
  BY <1>0, <1>a, <1>e, <1>k, <1>m, <1>ok, <1>ty, <1>s DEF PostOK, NoneQueued, MutexOK
<1>7. TokenOK(c)'
  BY <1>0, <1>a, <1>e, <1>k, <1>m, <1>ok, <1>ty, <1>s DEF TokenOK, NoneQueued, NotInHand, MutexOK
<1>8. UnbornOK(c)'
  BY <1>0, <1>a, <1>e, <1>k, <1>m, <1>ok, <1>ty, <1>s DEF UnbornOK, CallOK
<1>9. CompOK(c)'
  BY <1>3, <1>4, <1>5, <1>6, <1>7, <1>8 DEF CompOK
<1>10. \A d \in Components : CompOK(d)'
  BY <1>9, <1>o
<1> QED BY <1>1, <1>2, <1>10 DEF IInv

LEMMA PostStep ==
    ASSUME IInv, NEW c \in Components, Post(c)
    PROVE  IInv'
<1>0. TypeOK /\ (\A u \in Threads : CallOK(u)) /\ (\A d \in Components : CompOK(d))
  BY DEF IInv
<1>a. c \in Components /\ c # Nobody
  BY SchedulerAssumption
<1>b. c \in Threads
  BY DEF Threads
<1>nb. \A u \in Threads : u # Nobody
  BY SchedulerAssumption
<1>ok. MutexOK(c) /\ QueueOK(c) /\ HandOK(c) /\ PostOK(c) /\ TokenOK(c) /\ UnbornOK(c)
  BY <1>0, <1>a DEF CompOK
<1>ty. /\ queue[c] \in Seq(Messages) /\ mutex[c] \in Threads \cup {Nobody}
       /\ hand[c] \in Messages \cup {Nobody} /\ sem[c] \in Nat /\ loop[c] \in Loop
  BY <1>0, <1>a DEF TypeOK
<1>s. \A u \in Threads : call[u].to = c /\ call[u].step = "start" =>
        /\ \A v \in Threads : call[v].to = c => v = u
        /\ mutex[c] = Nobody /\ queue[c] = <<>> /\ c \notin open
        /\ loop[c] \in {"starting", "receive"}
  BY <1>0, <1>a DEF CallOK
<1>e. /\ loop[c] = "post" /\ sem' = [sem EXCEPT ![c] = @ + 1]
      /\ loop' = [loop EXCEPT ![c] =
                    IF state[c] = "Stopped" THEN "exited" ELSE "servants"]
      /\ UNCHANGED <<state, hand, error, queue, mutex, open, call>>
  BY DEF Post
<1>k. call' = call /\ call \in [Threads -> Calls]
  BY <1>0, <1>e DEF TypeOK
<1>m. /\ loop'[c] \in {"exited", "servants"} /\ sem'[c] = 1 /\ hand[c] = Nobody
      /\ mutex[c] # Nobody /\ call[mutex[c]].step = "wait"
      /\ NoneQueued(c) /\ NotInHand(c)
      /\ \A u \in Threads : call[u].to = c => call[u].step # "start"
  BY <1>0, <1>a, <1>e, <1>ok, <1>ty, <1>s DEF PostOK, HandOK, NotInHand, TypeOK
<1>1. TypeOK'
  BY <1>0, <1>e, <1>k, <1>m DEF TypeOK, Loop
<1>o. /\ \A d \in Components \ {c} : CompOK(d)'
      /\ \A u \in Threads : call'[u] = call[u] /\ call[u].to # c => CallOK(u)'
  <2>1. \A d \in Components \ {c} : Untouched(d)
    BY <1>0, <1>a, <1>e DEF TypeOK, Untouched
  <2>2. \A u \in Threads :
            call'[u] = call[u] \/ {call[u].to, call'[u].to} \subseteq {c, Nobody}
    BY <1>k
  <2> QED BY <2>1, <2>2, Elsewhere
<1>2. ASSUME NEW u \in Threads PROVE CallOK(u)'
  <2>1. CallOK(u)
    BY <1>0
  <2>2. CASE call[u].to # c
    BY <2>2, <1>k, <1>o
  <2>3. CASE call[u].to = c
    BY <2>1, <2>3, <1>0, <1>a, <1>e, <1>k, <1>m DEF CallOK, TypeOK
  <2> QED BY <2>2, <2>3
<1>3. MutexOK(c)'
  BY <1>0, <1>a, <1>e, <1>k, <1>m, <1>ok, <1>ty, <1>s DEF MutexOK
<1>4. QueueOK(c)'
  BY <1>0, <1>a, <1>e, <1>k, <1>m, <1>ok, <1>ty, <1>s DEF QueueOK, InQueue, Owed, NoneQueued, Messages
<1>5. HandOK(c)'
  BY <1>0, <1>a, <1>e, <1>k, <1>m, <1>ok, <1>ty, <1>s DEF HandOK, Owed, NotInHand, NoneQueued, Messages
<1>6. PostOK(c)'
  BY <1>0, <1>a, <1>e, <1>k, <1>m, <1>ok, <1>ty, <1>s DEF PostOK, NoneQueued, MutexOK
<1>7. TokenOK(c)'
  BY <1>0, <1>a, <1>e, <1>k, <1>m, <1>ok, <1>ty, <1>s DEF TokenOK, NoneQueued, NotInHand, MutexOK
<1>8. UnbornOK(c)'
  BY <1>0, <1>a, <1>e, <1>k, <1>m, <1>ok, <1>ty, <1>s DEF UnbornOK, CallOK
<1>9. CompOK(c)'
  BY <1>3, <1>4, <1>5, <1>6, <1>7, <1>8 DEF CompOK
<1>10. \A d \in Components : CompOK(d)'
  BY <1>9, <1>o
<1> QED BY <1>1, <1>2, <1>10 DEF IInv

LEMMA ReenterStep ==
    ASSUME IInv, NEW c \in Components, Reenter(c)
    PROVE  IInv'
<1>0. TypeOK /\ (\A u \in Threads : CallOK(u)) /\ (\A d \in Components : CompOK(d))
  BY DEF IInv
<1>a. c \in Components /\ c # Nobody
  BY SchedulerAssumption
<1>b. c \in Threads
  BY DEF Threads
<1>e. /\ error' = [error EXCEPT ![c] = [from |-> c, class |-> "Call"]]
      /\ UNCHANGED <<loop, state, hand, queue, mutex, sem, open, call>>
  BY DEF Reenter
<1>1. TypeOK'
  BY <1>0, <1>b, <1>e DEF TypeOK, Messages, Classes
<1>2. \A u \in Threads : CallOK(u)'
  BY <1>0, <1>e DEF CallOK
<1>3. \A d \in Components : CompOK(d)'
  BY <1>e, ComponentFrame
<1> QED BY <1>1, <1>2, <1>3 DEF IInv

LEMMA EndServantsStep ==
    ASSUME IInv, NEW c \in Components, EndServants(c)
    PROVE  IInv'
<1>0. TypeOK /\ (\A u \in Threads : CallOK(u)) /\ (\A d \in Components : CompOK(d))
  BY DEF IInv
<1>a. c \in Components /\ c # Nobody
  BY SchedulerAssumption
<1>b. c \in Threads
  BY DEF Threads
<1>nb. \A u \in Threads : u # Nobody
  BY SchedulerAssumption
<1>ok. MutexOK(c) /\ QueueOK(c) /\ HandOK(c) /\ PostOK(c) /\ TokenOK(c) /\ UnbornOK(c)
  BY <1>0, <1>a DEF CompOK
<1>ty. /\ queue[c] \in Seq(Messages) /\ mutex[c] \in Threads \cup {Nobody}
       /\ hand[c] \in Messages \cup {Nobody} /\ sem[c] \in Nat /\ loop[c] \in Loop
  BY <1>0, <1>a DEF TypeOK
<1>s. \A u \in Threads : call[u].to = c /\ call[u].step = "start" =>
        /\ \A v \in Threads : call[v].to = c => v = u
        /\ mutex[c] = Nobody /\ queue[c] = <<>> /\ c \notin open
        /\ loop[c] \in {"starting", "receive"}
  BY <1>0, <1>a DEF CallOK
<1>e. /\ loop[c] = "servants" /\ PhaseEnds(c)
      /\ loop' = [loop EXCEPT ![c] = "receive"]
      /\ UNCHANGED <<state, hand, error, queue, mutex, sem, open>>
  BY DEF EndServants
<1>k. /\ call' \in [Threads -> Calls]
      /\ call[c].step \in {"none", "done"} /\ call[c].to = Nobody
      /\ call'[c].step = "none" /\ call'[c].to = Nobody
      /\ \A u \in Threads \ {c} : call'[u] = call[u]
  BY <1>e, PhaseEnded
<1>m. /\ loop'[c] = "receive" /\ hand[c] = Nobody /\ mutex[c] # c
      /\ \A u \in Threads : call[u].to = c => call[u].step # "start"
  BY <1>0, <1>a, <1>b, <1>e, <1>k, <1>ok, <1>s DEF HandOK, MutexOK, TypeOK
<1>1. TypeOK'
  BY <1>0, <1>e, <1>k DEF TypeOK, Loop
<1>o. /\ \A d \in Components \ {c} : CompOK(d)'
      /\ \A u \in Threads : call'[u] = call[u] /\ call[u].to # c => CallOK(u)'
  <2>1. \A d \in Components \ {c} : Untouched(d)
    BY <1>0, <1>a, <1>e DEF TypeOK, Untouched
  <2>2. \A u \in Threads :
            call'[u] = call[u] \/ {call[u].to, call'[u].to} \subseteq {c, Nobody}
    BY <1>a, <1>b, <1>e, <1>k
  <2> QED BY <2>1, <2>2, Elsewhere
<1>2. ASSUME NEW u \in Threads PROVE CallOK(u)'
  <2>0. CallOK(u)
    BY <1>0
  <2>1. CASE u = c
    BY <2>1, <1>k DEF CallOK
  <2>2. CASE u # c /\ call[u].to # c
    BY <2>2, <1>k, <1>o
  <2>3. CASE u # c /\ call[u].to = c
    <3>1. call'[u] = call[u] /\ call[u].step # "start" /\ mutex' = mutex /\ open' = open
      BY <2>3, <1>k, <1>m, <1>e
    <3>2. \A v \in Threads : call'[v].to = c => call[v].to = c
      BY <1>k, <1>a
    <3> QED BY <2>3, <3>1, <3>2, CallFrame
  <2> QED BY <2>1, <2>2, <2>3
<1>3. MutexOK(c)'
  BY <1>0, <1>a, <1>e, <1>k, <1>m, <1>ok, <1>ty, <1>s DEF MutexOK
<1>4. QueueOK(c)'
  <2>1. ASSUME NEW i \in Nat, InQueue(c, i) PROVE Owed(c, queue[c][i])'
    <3>1. queue[c][i] \in Messages /\ Owed(c, queue[c][i])
      BY <2>1, <1>ok, <1>ty DEF QueueOK, InQueue
    <3>2. queue[c][i].from = mutex[c] /\ queue[c][i].from \in Threads \ {c}
      BY <3>1, <1>m DEF Owed, Messages
    <3>3. call'[queue[c][i].from] = call[queue[c][i].from] /\ mutex' = mutex /\ queue' = queue
      BY <3>2, <1>k, <1>e
    <3> QED BY <3>1, <3>3 DEF Owed
  <2>2. \A i \in Nat : InQueue(c, i)' <=> InQueue(c, i)
    BY <1>e DEF InQueue
  <2> QED BY <2>1, <2>2, <1>ok, <1>e DEF QueueOK
<1>5. HandOK(c)'
  BY <1>0, <1>a, <1>e, <1>k, <1>m, <1>ok, <1>ty, <1>s DEF HandOK, Owed, NotInHand, NoneQueued, Messages
<1>6. PostOK(c)'
  BY <1>0, <1>a, <1>e, <1>k, <1>m, <1>ok, <1>ty, <1>s DEF PostOK, NoneQueued, MutexOK
<1>7. TokenOK(c)'
  BY <1>0, <1>a, <1>e, <1>k, <1>m, <1>ok, <1>ty, <1>s DEF TokenOK, NoneQueued, NotInHand, MutexOK
<1>8. UnbornOK(c)'
  BY <1>0, <1>a, <1>e, <1>k, <1>m, <1>ok, <1>ty, <1>s DEF UnbornOK, CallOK
<1>9. CompOK(c)'
  BY <1>3, <1>4, <1>5, <1>6, <1>7, <1>8 DEF CompOK
<1>10. \A d \in Components : CompOK(d)'
  BY <1>9, <1>o
<1> QED BY <1>1, <1>2, <1>10 DEF IInv

LEMMA DispatchStep ==
    ASSUME IInv, NEW c \in Components, Dispatch(c)
    PROVE  IInv'
<1>0. TypeOK /\ (\A u \in Threads : CallOK(u)) /\ (\A d \in Components : CompOK(d))
  BY DEF IInv
<1>a. c \in Components /\ c # Nobody
  BY SchedulerAssumption
<1>b. c \in Threads
  BY DEF Threads
<1>nb. \A u \in Threads : u # Nobody
  BY SchedulerAssumption
<1>ok. MutexOK(c) /\ QueueOK(c) /\ HandOK(c) /\ PostOK(c) /\ TokenOK(c) /\ UnbornOK(c)
  BY <1>0, <1>a DEF CompOK
<1>ty. /\ queue[c] \in Seq(Messages) /\ mutex[c] \in Threads \cup {Nobody}
       /\ hand[c] \in Messages \cup {Nobody} /\ sem[c] \in Nat /\ loop[c] \in Loop
  BY <1>0, <1>a DEF TypeOK
<1>s. \A u \in Threads : call[u].to = c /\ call[u].step = "start" =>
        /\ \A v \in Threads : call[v].to = c => v = u
        /\ mutex[c] = Nobody /\ queue[c] = <<>> /\ c \notin open
        /\ loop[c] \in {"starting", "receive"}
  BY <1>0, <1>a DEF CallOK
<1>e. /\ loop[c] = "dispatch" /\ PhaseEnds(c)
      /\ state' = [state EXCEPT ![c] = StateAfter(hand[c].class, @)]
      /\ error' = [error EXCEPT ![c] = hand[c]]
      /\ hand' = [hand EXCEPT ![c] = Nobody]
      /\ loop' = [loop EXCEPT ![c] =
                    IF Waits(hand[c].class) THEN "post" ELSE "servants"]
      /\ UNCHANGED <<queue, mutex, sem, open>>
  BY DEF Dispatch
<1>k. /\ call' \in [Threads -> Calls]
      /\ call[c].step \in {"none", "done"} /\ call[c].to = Nobody
      /\ call'[c].step = "none" /\ call'[c].to = Nobody
      /\ \A u \in Threads \ {c} : call'[u] = call[u]
  BY <1>e, PhaseEnded
<1>m. /\ hand[c] \in Messages /\ hand'[c] = Nobody
      /\ loop'[c] = IF Waits(hand[c].class) THEN "post" ELSE "servants"
      /\ Waits(hand[c].class) =>
            /\ NoneQueued(c) /\ sem[c] = 0 /\ mutex[c] # Nobody
            /\ call[mutex[c]].step = "wait"
      /\ mutex[c] # c
      /\ \A u \in Threads : call[u].to = c => call[u].step # "start"
  BY <1>0, <1>a, <1>b, <1>e, <1>k, <1>ok, <1>ty, <1>nb, <1>s
     DEF HandOK, Owed, TokenOK, NotInHand, MutexOK, Messages, TypeOK
<1>1. TypeOK'
  BY <1>0, <1>e, <1>k, <1>m DEF TypeOK, Loop, StateAfter
<1>o. /\ \A d \in Components \ {c} : CompOK(d)'
      /\ \A u \in Threads : call'[u] = call[u] /\ call[u].to # c => CallOK(u)'
  <2>1. \A d \in Components \ {c} : Untouched(d)
    BY <1>0, <1>a, <1>e DEF TypeOK, Untouched
  <2>2. \A u \in Threads :
            call'[u] = call[u] \/ {call[u].to, call'[u].to} \subseteq {c, Nobody}
    BY <1>a, <1>b, <1>e, <1>k
  <2> QED BY <2>1, <2>2, Elsewhere
<1>2. ASSUME NEW u \in Threads PROVE CallOK(u)'
  <2>0. CallOK(u)
    BY <1>0
  <2>1. CASE u = c
    BY <2>1, <1>k DEF CallOK
  <2>2. CASE u # c /\ call[u].to # c
    BY <2>2, <1>k, <1>o
  <2>3. CASE u # c /\ call[u].to = c
    <3>1. call'[u] = call[u] /\ call[u].step # "start" /\ mutex' = mutex /\ open' = open
      BY <2>3, <1>k, <1>m, <1>e
    <3>2. \A v \in Threads : call'[v].to = c => call[v].to = c
      BY <1>k, <1>a
    <3> QED BY <2>3, <3>1, <3>2, CallFrame
  <2> QED BY <2>1, <2>2, <2>3
<1>3. MutexOK(c)'
  BY <1>0, <1>a, <1>e, <1>k, <1>m, <1>ok, <1>ty, <1>s DEF MutexOK
<1>4. QueueOK(c)'
  <2>1. ASSUME NEW i \in Nat, InQueue(c, i) PROVE Owed(c, queue[c][i])'
    <3>1. queue[c][i] \in Messages /\ Owed(c, queue[c][i])
      BY <2>1, <1>ok, <1>ty DEF QueueOK, InQueue
    <3>2. queue[c][i].from = mutex[c] /\ queue[c][i].from \in Threads \ {c}
      BY <3>1, <1>m DEF Owed, Messages
    <3>3. call'[queue[c][i].from] = call[queue[c][i].from] /\ mutex' = mutex /\ queue' = queue
      BY <3>2, <1>k, <1>e
    <3> QED BY <3>1, <3>3 DEF Owed
  <2>2. \A i \in Nat : InQueue(c, i)' <=> InQueue(c, i)
    BY <1>e DEF InQueue
  <2> QED BY <2>1, <2>2, <1>ok, <1>e DEF QueueOK
<1>5. HandOK(c)'
  BY <1>0, <1>a, <1>e, <1>k, <1>m, <1>ok, <1>ty, <1>s DEF HandOK, Owed, NotInHand, NoneQueued, Messages
<1>6. PostOK(c)'
  BY <1>0, <1>a, <1>e, <1>k, <1>m, <1>ok, <1>ty, <1>s DEF PostOK, NoneQueued, MutexOK
<1>7. TokenOK(c)'
  BY <1>0, <1>a, <1>e, <1>k, <1>m, <1>ok, <1>ty, <1>s DEF TokenOK, NoneQueued, NotInHand, MutexOK
<1>8. UnbornOK(c)'
  BY <1>0, <1>a, <1>e, <1>k, <1>m, <1>ok, <1>ty, <1>s DEF UnbornOK, CallOK
<1>9. CompOK(c)'
  BY <1>3, <1>4, <1>5, <1>6, <1>7, <1>8 DEF CompOK
<1>10. \A d \in Components : CompOK(d)'
  BY <1>9, <1>o
<1> QED BY <1>1, <1>2, <1>10 DEF IInv

LEMMA ReceiveStep ==
    ASSUME IInv, NEW c \in Components, Receive(c)
    PROVE  IInv'
<1>0. TypeOK /\ (\A u \in Threads : CallOK(u)) /\ (\A d \in Components : CompOK(d))
  BY DEF IInv
<1>a. c \in Components /\ c # Nobody
  BY SchedulerAssumption
<1>b. c \in Threads
  BY DEF Threads
<1>nb. \A u \in Threads : u # Nobody
  BY SchedulerAssumption
<1>ok. MutexOK(c) /\ QueueOK(c) /\ HandOK(c) /\ PostOK(c) /\ TokenOK(c) /\ UnbornOK(c)
  BY <1>0, <1>a DEF CompOK
<1>ty. /\ queue[c] \in Seq(Messages) /\ mutex[c] \in Threads \cup {Nobody}
       /\ hand[c] \in Messages \cup {Nobody} /\ sem[c] \in Nat /\ loop[c] \in Loop
  BY <1>0, <1>a DEF TypeOK
<1>s. \A u \in Threads : call[u].to = c /\ call[u].step = "start" =>
        /\ \A v \in Threads : call[v].to = c => v = u
        /\ mutex[c] = Nobody /\ queue[c] = <<>> /\ c \notin open
        /\ loop[c] \in {"starting", "receive"}
  BY <1>0, <1>a DEF CallOK
<1>e. /\ loop[c] = "receive" /\ queue[c] # <<>>
      /\ hand' = [hand EXCEPT ![c] = Head(queue[c])]
      /\ queue' = [queue EXCEPT ![c] = Tail(@)]
      /\ loop' = [loop EXCEPT ![c] = "dispatch"]
      /\ UNCHANGED <<state, error, mutex, sem, open, call>>
  BY DEF Receive
<1>k. call' = call /\ call \in [Threads -> Calls]
  BY <1>0, <1>e DEF TypeOK
<1>q. /\ Len(queue[c]) \in Nat /\ Len(queue[c]) >= 1
      /\ queue[c][1] \in Messages /\ queue[c][1] # Nobody
      /\ queue'[c] \in Seq(Messages) /\ Len(queue'[c]) = Len(queue[c]) - 1
      /\ \A i \in 1 .. Len(queue'[c]) : queue'[c][i] = queue[c][i + 1]
      /\ hand'[c] = queue[c][1]
  <2>1. queue'[c] = Tail(queue[c]) /\ hand'[c] = Head(queue[c])
    BY <1>0, <1>e DEF TypeOK
  <2>2. queue[c] \in Seq(Messages) /\ queue[c] # <<>>
    BY <1>ty, <1>e
  <2> QED BY <2>1, <2>2, SchedulerAssumption
<1>m. /\ loop'[c] = "dispatch" /\ loop[c] = "receive"
      /\ \A u \in Threads : call[u].to = c => call[u].step # "start"
  BY <1>0, <1>e, <1>s DEF TypeOK
<1>1. TypeOK'
  BY <1>0, <1>e, <1>k, <1>q DEF TypeOK, Loop
<1>w. ASSUME NEW i \in Nat, InQueue(c, i)'
      PROVE  /\ i + 1 \in Nat /\ InQueue(c, i + 1)
             /\ queue'[c][i] = queue[c][i + 1]
  BY <1>w, <1>q DEF InQueue
<1>v. Waits(queue[c][1].class) => InQueue(c, 1) /\ 1 \in Nat
  BY <1>q DEF InQueue
<1>n. /\ NoneQueued(c) => NoneQueued(c)' /\ ~Waits(queue[c][1].class)
      /\ Waits(queue[c][1].class) => NoneQueued(c)'
  <2>1. NoneQueued(c) => NoneQueued(c)' /\ ~Waits(queue[c][1].class)
    <3>1. ASSUME NoneQueued(c), NEW i \in 1 .. Len(queue'[c])
          PROVE  ~Waits(queue'[c][i].class)
      <4>1. i + 1 \in 1 .. Len(queue[c]) /\ queue'[c][i] = queue[c][i + 1]
        BY <1>q
      <4> QED BY <3>1, <4>1 DEF NoneQueued
    <3>2. 1 \in 1 .. Len(queue[c])
      BY <1>q
    <3> QED BY <3>1, <3>2 DEF NoneQueued
  <2>2. ASSUME Waits(queue[c][1].class), NEW i \in 1 .. Len(queue'[c]),
               Waits(queue'[c][i].class)
        PROVE  FALSE
    <3>1. i \in Nat /\ i >= 1 /\ InQueue(c, i)'
      BY <2>2, <1>q DEF InQueue
    <3>2. i + 1 = 1
      BY <3>1, <2>2, <1>w, <1>v, <1>ok DEF QueueOK
    <3> QED BY <3>1, <3>2
  <2> QED BY <2>1, <2>2 DEF NoneQueued
<1>o. /\ \A d \in Components \ {c} : CompOK(d)'
      /\ \A u \in Threads : call'[u] = call[u] /\ call[u].to # c => CallOK(u)'
  <2>1. \A d \in Components \ {c} : Untouched(d)
    BY <1>0, <1>a, <1>e DEF TypeOK, Untouched
  <2>2. \A u \in Threads :
            call'[u] = call[u] \/ {call[u].to, call'[u].to} \subseteq {c, Nobody}
    BY <1>k
  <2> QED BY <2>1, <2>2, Elsewhere
<1>2. ASSUME NEW u \in Threads PROVE CallOK(u)'
  <2>1. CallOK(u)
    BY <1>0
  <2>2. CASE call[u].to # c
    BY <2>2, <1>k, <1>o
  <2>3. CASE call[u].to = c
    BY <2>1, <2>3, <1>0, <1>a, <1>e, <1>k, <1>m DEF CallOK, TypeOK
  <2> QED BY <2>2, <2>3
<1>3. MutexOK(c)'
  BY <1>0, <1>a, <1>e, <1>k, <1>m, <1>ok, <1>ty, <1>s DEF MutexOK
<1>4. QueueOK(c)'
  <2>1. ASSUME NEW i \in Nat, InQueue(c, i)' PROVE Owed(c, queue[c][i])'
    <3>1. Owed(c, queue[c][i + 1]) /\ queue'[c][i] = queue[c][i + 1]
      BY <2>1, <1>w, <1>ok DEF QueueOK
    <3>2. mutex' = mutex /\ call' = call
      BY <1>e
    <3> QED BY <3>1, <3>2 DEF Owed
  <2>2. ASSUME NEW i \in Nat, NEW j \in Nat, InQueue(c, i)', InQueue(c, j)'
        PROVE  i = j
    <3>1. i + 1 = j + 1
      BY <2>2, <1>w, <1>ok DEF QueueOK
    <3> QED BY <3>1
  <2> QED BY <2>1, <2>2 DEF QueueOK
<1>5. HandOK(c)'
  <2>1. Waits(queue[c][1].class) => Owed(c, queue[c][1])
    BY <1>v, <1>ok DEF QueueOK
  <2> QED BY <2>1, <1>e, <1>q, <1>m, <1>n DEF HandOK, Owed
<1>6. PostOK(c)'
  BY <1>m DEF PostOK
<1>7. TokenOK(c)'
  BY <1>e, <1>q, <1>n, <1>ok DEF TokenOK, NotInHand
<1>8. UnbornOK(c)'
  BY <1>0, <1>a, <1>e, <1>k, <1>m, <1>ok, <1>ty, <1>s DEF UnbornOK, CallOK
<1>9. CompOK(c)'
  BY <1>3, <1>4, <1>5, <1>6, <1>7, <1>8 DEF CompOK
<1>10. \A d \in Components : CompOK(d)'
  BY <1>9, <1>o
<1> QED BY <1>1, <1>2, <1>10 DEF IInv
-----------------------------------------------------------------------------
LEMMA InitialInvariant == Init => IInv
<1> SUFFICES ASSUME Init PROVE IInv
  OBVIOUS
<1>1. \A t \in Threads : call[t] = NoCall
  BY DEF Init
<1>2. Nobody \notin Threads \cup Components \cup Messages
  BY SchedulerAssumption
<1>3. TypeOK
  BY DEF Init, TypeOK, Loop, NoCall, Calls, Steps, Classes
<1>4. \A t \in Threads : CallOK(t)
  BY <1>1 DEF NoCall, CallOK
<1>5. ASSUME NEW c \in Components PROVE CompOK(c)
  <2>1. /\ loop[c] = "unborn" /\ hand[c] = Nobody /\ queue[c] = <<>>
        /\ mutex[c] = Nobody /\ sem[c] = 0 /\ c \notin open /\ c # Nobody
    BY <1>2 DEF Init
  <2>2. MutexOK(c) /\ HandOK(c) /\ PostOK(c) /\ TokenOK(c)
    BY <2>1 DEF MutexOK, HandOK, PostOK, TokenOK
  <2>3. QueueOK(c)
    BY <2>1 DEF QueueOK, InQueue
  <2>4. UnbornOK(c)
    BY <1>1, <2>1 DEF UnbornOK, NoCall
  <2> QED BY <2>2, <2>3, <2>4 DEF CompOK
<1> QED BY <1>3, <1>4, <1>5 DEF IInv

LEMMA StepKeepsInvariant == IInv /\ [Next]_vars => IInv'
<1> SUFFICES ASSUME IInv, [Next]_vars PROVE IInv'
  OBVIOUS
<1>1. CASE UNCHANGED vars
  <2>1. TypeOK'
    BY <1>1 DEF IInv, TypeOK, vars
  <2>2. \A t \in Threads : CallOK(t)'
    BY <1>1 DEF IInv, CallOK, vars
  <2>3. \A c \in Components : CompOK(c)'
    BY <1>1, ComponentFrame DEF vars
  <2> QED BY <2>1, <2>2, <2>3 DEF IInv
<1>2. ASSUME NEW t \in Threads, NEW c \in Components, Open(t, c) PROVE IInv'
  BY <1>2, OpenStep
<1>3. ASSUME NEW t \in Threads, NEW c \in Components, NEW class \in Classes,
             Begin(t, c, class)
      PROVE  IInv'
  BY <1>3, BeginStep
<1>4. ASSUME NEW t \in Threads, CallerStep(t) PROVE IInv'
  BY <1>4, StartedStep, LockStep, SendStep, WaitStep, AnswerStep, JoinStep
     DEF CallerStep
<1>5. ASSUME NEW c \in Components, LoopStep(c) \/ Reenter(c) PROVE IInv'
  BY <1>5, ThreadStartsStep, ReceiveStep, DispatchStep, PostStep, EndServantsStep,
     ReenterStep DEF LoopStep
<1> QED BY <1>1, <1>2, <1>3, <1>4, <1>5 DEF Next

LEMMA Invariance == Spec => []IInv
BY InitialInvariant, StepKeepsInvariant, PTL DEF Spec

\* In every state of the scheduler each variable has a value of its type; in
\* particular the semaphore is never taken below zero.
THEOREM SchedulerTypeCorrect == Spec => []TypeOK
<1>1. IInv => TypeOK
  BY DEF IInv
<1> QED BY <1>1, Invariance, PTL

\* send_msg_blocking shares one semaphore among all callers and with the start
\* of the thread; nobody ever takes a token that is meant for another.
THEOREM TokenBelongsToHolder == Spec => []TokenIsOwed
<1>1. ASSUME IInv, NEW c \in Components, sem[c] > 0
      PROVE  /\ sem[c] = 1
             /\ \E t \in Threads :
                 /\ call[t].to = c
                 /\ \/ call[t].step = "wait" /\ mutex[c] = t
                       /\ hand[c] # Message(t)
                       /\ \A i \in 1 .. Len(queue[c]) : queue[c][i] # Message(t)
                    \/ call[t].step = "start"
  <2>1. /\ TokenOK(c) /\ MutexOK(c) /\ sem[c] \in Nat
        /\ mutex[c] \in Threads \cup {Nobody}
    BY <1>1 DEF IInv, CompOK, TypeOK
  <2>2. sem[c] = 1 /\ NoneQueued(c) /\ NotInHand(c)
    BY <1>1, <2>1 DEF TokenOK
  <2>3. CASE mutex[c] # Nobody /\ call[mutex[c]].step = "wait"
    <3> DEFINE t == mutex[c]
    <3>1. t \in Threads /\ call[t].to = c /\ Waits(call[t].class) /\ call[t] \in Calls
      BY <1>1, <2>1, <2>3 DEF MutexOK, IInv, TypeOK
    <3>2. Message(t) \in Messages /\ Waits(Message(t).class) /\ Message(t) # Nobody
      BY <3>1, SchedulerAssumption DEF Message, Messages, Calls
    <3> QED BY <2>2, <2>3, <3>1, <3>2 DEF NoneQueued, NotInHand
  <2> QED BY <1>1, <2>1, <2>2, <2>3 DEF TokenOK
<1>2. IInv => TokenIsOwed
  BY <1>1 DEF TokenIsOwed
<1> QED BY <1>2, Invariance, PTL
-----------------------------------------------------------------------------
\* When no call gets into or out of the middle of its exchange, the abstract
\* state stays.
LEMMA StatusFrame ==
    ASSUME \A u \in Threads :
               /\ call'[u].step \in {"wait", "answer"} <=> call[u].step \in {"wait", "answer"}
               /\ call[u].step \in {"wait", "answer"} => (Sent(u)' <=> Sent(u))
    PROVE  UNCHANGED Status
BY DEF Status

\* When it does for one thread, only that thread's status changes.
LEMMA StatusMove ==
    ASSUME NEW t \in Threads,
           \A u \in Threads \ {t} :
               /\ call'[u] = call[u]
               /\ call[u].step \in {"wait", "answer"} => (Sent(u)' <=> Sent(u))
    PROVE  Status' = [Status EXCEPT ![t] = Status'[t]]
<1>1. \A u \in Threads \ {t} : Status'[u] = Status[u]
  BY DEF Status
<1>2. /\ Status = [u \in Threads |-> Status[u]]
      /\ Status' = [u \in Threads |-> Status'[u]]
  BY DEF Status
<1> QED BY <1>1, <1>2

LEMMA SentFrame ==
    ASSUME NEW u \in Threads, call'[u] = call[u],
           hand'[call[u].to] = hand[call[u].to],
           queue'[call[u].to] = queue[call[u].to]
    PROVE  Sent(u)' <=> Sent(u)
BY DEF Sent, Message

\* A thread in an exchange with a component has its mutex.
LEMMA Waiting ==
    ASSUME IInv, NEW t \in Threads, call[t].step \in {"wait", "answer"}
    PROVE  /\ call[t].to \in Components /\ mutex[call[t].to] = t
           /\ Message(t) \in Messages /\ Message(t) # Nobody
           /\ Message(t).from = t /\ Waits(Message(t).class)
<1>1. call[t] \in Calls /\ CallOK(t)
  BY DEF IInv, TypeOK
<1>2. call[t].to \in Components /\ Waits(call[t].class)
  BY <1>1 DEF CallOK, Calls
<1>3. Message(t) \in Messages
  BY <1>1 DEF Message, Messages, Calls
<1> QED BY <1>1, <1>2, <1>3, SchedulerAssumption DEF CallOK, Message

\* Once it has the result its message is nowhere any more.
LEMMA AnsweredIsServed ==
    ASSUME IInv, NEW t \in Threads, call[t].step = "answer"
    PROVE  ~Sent(t)
<1> DEFINE c == call[t].to
<1>1. /\ c \in Components /\ Message(t) # Nobody
      /\ Message(t).from = t /\ Waits(Message(t).class)
  BY Waiting
<1>2. QueueOK(c) /\ HandOK(c) /\ queue[c] \in Seq(Messages)
  BY <1>1 DEF IInv, CompOK, TypeOK
<1>3. ~Owed(c, Message(t))
  BY <1>1 DEF Owed
<1>4. hand[c] # Message(t)
  BY <1>1, <1>2, <1>3 DEF HandOK
<1>5. ASSUME NEW i \in 1 .. Len(queue[c]) PROVE queue[c][i] # Message(t)
  <2>1. i \in Nat /\ Waits(queue[c][i].class) => Owed(c, queue[c][i])
    BY <1>2 DEF QueueOK, InQueue
  <2> QED BY <2>1, <1>1, <1>2, <1>3
<1> QED BY <1>4, <1>5 DEF Sent

\* Actions of a caller that leave its exchange where it is.
LEMMA QuietCaller ==
    ASSUME IInv, NEW t \in Threads, NEW c \in Components,
           \/ Open(t, c) \/ (\E class \in Classes : Begin(t, c, class))
           \/ Started(t) \/ Lock(t) \/ Join(t)
    PROVE  UNCHANGED Status
<1>0. call \in [Threads -> Calls]
  BY DEF IInv, TypeOK
<1>1. /\ hand' = hand
      /\ \A u \in Threads \ {t} : call'[u] = call[u]
      /\ call[t].step \in {"none", "start", "lock", "join"}
      /\ call'[t].step \in {"none", "start", "lock", "send", "done"}
  <2>1. CASE Open(t, c)
    BY <2>1, <1>0 DEF Open
  <2>2. CASE \E class \in Classes : Begin(t, c, class)
    <3>1. PICK class \in Classes : Begin(t, c, class)
      BY <2>2
    <3>2. /\ hand' = hand /\ call[t].step = "none"
          /\ call' = [call EXCEPT ![t] =
                [step |-> IF Waits(class) THEN "lock" ELSE "send",
                 to |-> c, class |-> class]]
      BY <3>1 DEF Begin, Free
    <3>3. call'[t] = [step |-> IF Waits(class) THEN "lock" ELSE "send",
                      to |-> c, class |-> class]
      BY <3>2, <1>0
    <3>4. call'[t].step \in {"lock", "send"}
      BY <3>3
    <3> QED BY <3>2, <3>4
  <2>3. CASE Started(t) \/ Lock(t)
    <3>1. \/ Advance(t, "lock") /\ call[t].step = "start"
          \/ Advance(t, "send") /\ call[t].step = "lock"
      BY <2>3 DEF Started, Lock
    <3>2. hand' = hand
      BY <2>3 DEF Started, Lock
    <3> QED BY <3>1, <3>2, Advanced DEF IInv, Steps
  <2>4. CASE Join(t)
    BY <2>4, <1>0 DEF Join, Returned, NoCall
  <2> QED BY <2>1, <2>2, <2>3, <2>4
<1>2. ASSUME NEW u \in Threads \ {t}, call[u].step \in {"wait", "answer"}
      PROVE  queue'[call[u].to] = queue[call[u].to]
  <2>1. CASE Join(t)
    <3>1. call[t].to \in Components /\ call[t].class = "DeInit"
      BY <2>1, <1>0 DEF Join, IInv, CallOK, Calls
    <3>2. call[u].to # call[t].to
      BY <1>2, <3>1, SchedulerAssumption DEF IInv, CallOK
    <3>3. queue \in [Components -> Seq(Messages)]
      BY DEF IInv, TypeOK
    <3>4. call[u].to \in Components
      BY <1>2, Waiting
    <3> QED BY <2>1, <3>1, <3>2, <3>3, <3>4 DEF Join
  <2>2. CASE ~Join(t)
    BY <2>2 DEF Open, Begin, Started, Lock
  <2> QED BY <2>1, <2>2
<1>3. ASSUME NEW u \in Threads \ {t}, call[u].step \in {"wait", "answer"}
      PROVE  Sent(u)' <=> Sent(u)
  BY <1>1, <1>2, <1>3, SentFrame
<1> QED BY <1>1, <1>3, StatusFrame

\* Actions of a component's thread that leave all exchanges where they are.
LEMMA QuietLoop ==
    ASSUME IInv, NEW c \in Components,
           ThreadStarts(c) \/ Post(c) \/ EndServants(c) \/ Reenter(c)
    PROVE  UNCHANGED Status
<1>0. call \in [Threads -> Calls] /\ c \in Threads
  BY DEF IInv, TypeOK, Threads
<1>1. /\ hand' = hand /\ queue' = queue
      /\ \A u \in Threads \ {c} : call'[u] = call[u]
      /\ \/ call'[c] = call[c]
         \/ call[c].step \in {"none", "done"} /\ call'[c].step = "none"
  <2>1. CASE ThreadStarts(c) \/ Post(c) \/ Reenter(c)
    <3>1. hand' = hand /\ queue' = queue /\ call' = call
      BY <2>1 DEF ThreadStarts, Post, Reenter
    <3>2. call'[c] = call[c] /\ \A u \in Threads \ {c} : call'[u] = call[u]
      BY <3>1
    <3> QED BY <3>1, <3>2
  <2>2. CASE EndServants(c)
    BY <2>2, PhaseEnded DEF EndServants
  <2> QED BY <2>1, <2>2
<1>2. ASSUME NEW u \in Threads, call[u].step \in {"wait", "answer"} PROVE Sent(u)' <=> Sent(u)
  BY <1>1, <1>2, SentFrame
<1> QED BY <1>1, <1>2, StatusFrame

\* The next message moves from the queue into the thread's hand.
LEMMA QuietReceive ==
    ASSUME IInv, NEW c \in Components, Receive(c)
    PROVE  UNCHANGED Status
<1>0. /\ queue \in [Components -> Seq(Messages)] /\ queue[c] # <<>>
      /\ hand \in [Components -> Messages \cup {Nobody}] /\ hand[c] = Nobody
  BY DEF IInv, TypeOK, CompOK, HandOK, Receive
<1>1. /\ call' = call
      /\ hand'[c] = Head(queue[c]) /\ queue'[c] = Tail(queue[c])
      /\ \A d \in Components \ {c} : hand'[d] = hand[d] /\ queue'[d] = queue[d]
  BY <1>0 DEF Receive
<1>2. queue[c] \in Seq(Messages) /\ Len(queue[c]) \in Nat /\ Len(queue[c]) >= 1
  BY <1>0
<1>3. /\ hand'[c] = queue[c][1] /\ Len(queue'[c]) = Len(queue[c]) - 1
      /\ \A i \in 1 .. Len(queue'[c]) : queue'[c][i] = queue[c][i + 1]
  BY <1>0, <1>1, <1>2
<1>4. ASSUME NEW m \in Messages
      PROVE  (\E i \in 1 .. Len(queue[c]) : queue[c][i] = m)
             <=> hand'[c] = m \/ \E i \in 1 .. Len(queue'[c]) : queue'[c][i] = m
  <2>1. ASSUME NEW i \in 1 .. Len(queue[c]), queue[c][i] = m
        PROVE  hand'[c] = m \/ \E j \in 1 .. Len(queue'[c]) : queue'[c][j] = m
    <3>1. CASE i = 1
      BY <2>1, <3>1, <1>3
    <3>2. CASE i # 1
      <4>1. i - 1 \in 1 .. Len(queue'[c]) /\ (i - 1) + 1 = i
        BY <3>2, <1>2, <1>3
      <4>2. queue'[c][i - 1] = queue[c][i]
        BY <4>1, <1>3
      <4> QED BY <4>1, <4>2, <2>1
    <3> QED BY <3>1, <3>2
  <2>2. ASSUME NEW i \in 1 .. Len(queue'[c]), queue'[c][i] = m
        PROVE  \E j \in 1 .. Len(queue[c]) : queue[c][j] = m
    <3>1. i + 1 \in 1 .. Len(queue[c]) /\ queue[c][i + 1] = m
      BY <2>2, <1>2, <1>3
    <3> QED BY <3>1
  <2>3. hand'[c] = m => \E j \in 1 .. Len(queue[c]) : queue[c][j] = m
    <3>1. 1 \in 1 .. Len(queue[c])
      BY <1>2
    <3> QED BY <3>1, <1>3
  <2> QED BY <2>1, <2>2, <2>3
<1>5. ASSUME NEW u \in Threads, call[u].step \in {"wait", "answer"} PROVE Sent(u)' <=> Sent(u)
  <2>1. /\ call[u].to \in Components /\ Message(u) \in Messages
        /\ Message(u) # Nobody /\ Message(u)' = Message(u) /\ call'[u] = call[u]
    BY <1>1, <1>5, Waiting DEF Message
  <2>2. CASE call[u].to = c
    <3>1. Sent(u) <=> \E i \in 1 .. Len(queue[c]) : queue[c][i] = Message(u)
      BY <2>1, <2>2, <1>0 DEF Sent
    <3>2. Sent(u)' <=> \/ hand'[c] = Message(u)
                       \/ \E i \in 1 .. Len(queue'[c]) : queue'[c][i] = Message(u)
      BY <2>1, <2>2 DEF Sent
    <3> QED BY <3>1, <3>2, <2>1, <1>4
  <2>3. CASE call[u].to # c
    BY <2>1, <2>3, <1>1, SentFrame
  <2> QED BY <2>2, <2>3
<1> QED BY <1>1, <1>5, StatusFrame

\* The semaphore is up only once the message has been processed.
LEMMA QuietWait ==
    ASSUME IInv, NEW t \in Threads, Wait(t)
    PROVE  UNCHANGED Status
<1> DEFINE c == call[t].to
<1>1. /\ call[t].step = "wait" /\ call'[t].step = "answer"
      /\ hand' = hand /\ queue' = queue /\ sem[c] > 0
      /\ \A u \in Threads \ {t} : call'[u] = call[u]
  BY DEF IInv, TypeOK, Wait, Advance, Calls
<1>2. /\ c \in Components /\ Message(t) # Nobody /\ Waits(Message(t).class)
  BY <1>1, Waiting
<1>3. NoneQueued(c) /\ NotInHand(c)
  BY <1>1, <1>2 DEF IInv, CompOK, TokenOK
<1>4. ~Sent(t) /\ ~Sent(t)'
  <2>1. ~Sent(t)
    BY <1>2, <1>3 DEF Sent, NoneQueued, NotInHand
  <2>2. call'[t].to = c /\ Message(t)' = Message(t)
    BY Advanced DEF IInv, Wait, Message, Steps
  <2> QED BY <2>1, <2>2, <1>1 DEF Sent
<1>5. ASSUME NEW u \in Threads \ {t}, call[u].step \in {"wait", "answer"}
      PROVE  Sent(u)' <=> Sent(u)
  BY <1>1, <1>5, SentFrame
<1>6. Status[t] = "served" /\ Status'[t] = "served"
  BY <1>1, <1>4 DEF Status
<1>7. Status' = [Status EXCEPT ![t] = Status'[t]]
  BY <1>1, <1>5, StatusMove
<1> QED BY <1>6, <1>7 DEF Status

\* A message that nobody waits for changes no exchange; one that its sender
\* waits for begins one.
LEMMA SendIsCall ==
    ASSUME IInv, NEW t \in Threads, Send(t)
    PROVE  Promised!Call(t) \/ UNCHANGED Status
<1> DEFINE c == call[t].to
<1>1. /\ call \in [Threads -> Calls] /\ CallOK(t)
      /\ queue \in [Components -> Seq(Messages)]
  BY DEF IInv, TypeOK
<1>2. /\ call[t].step = "send" /\ c \in Components
      /\ hand' = hand /\ queue' = [queue EXCEPT ![c] = Append(@, Message(t))]
  BY <1>1 DEF Send, CallOK, Calls
<1>3. Message(t) \in Messages /\ Message(t).from = t /\ Message(t).class = call[t].class
  BY <1>1 DEF Message, Messages, Calls
<1>4. \A u \in Threads \ {t} : call'[u] = call[u]
  BY <1>1 DEF Send, Advance, Returned
<1>5. /\ queue[c] \in Seq(Messages) /\ Len(queue[c]) \in Nat
      /\ Len(queue'[c]) = Len(queue[c]) + 1
      /\ \A i \in 1 .. Len(queue[c]) : queue'[c][i] = queue[c][i]
      /\ queue'[c][Len(queue[c]) + 1] = Message(t)
  <2>1. queue'[c] = Append(queue[c], Message(t)) /\ queue[c] \in Seq(Messages)
    BY <1>1, <1>2
  <2> QED BY <2>1, <1>3
<1>6. ASSUME NEW u \in Threads \ {t}, call[u].step \in {"wait", "answer"}
      PROVE  Sent(u)' <=> Sent(u)
  <2>1. /\ call[u].to \in Components /\ Message(u).from = u
        /\ Message(u)' = Message(u) /\ call'[u] = call[u]
    BY <1>4, <1>6, Waiting DEF Message
  <2>2. CASE call[u].to = c
    <3>1. Message(u) # Message(t)
      BY <2>1, <1>3
    <3>2. (\E i \in 1 .. Len(queue'[c]) : queue'[c][i] = Message(u))
          <=> \E i \in 1 .. Len(queue[c]) : queue[c][i] = Message(u)
      <4>1. ASSUME NEW i \in 1 .. Len(queue'[c]), queue'[c][i] = Message(u)
            PROVE  i \in 1 .. Len(queue[c]) /\ queue[c][i] = Message(u)
        <5>1. i # Len(queue[c]) + 1
          BY <4>1, <3>1, <1>5
        <5>2. i \in 1 .. Len(queue[c])
          BY <5>1, <1>5
        <5> QED BY <4>1, <5>2, <1>5
      <4>2. ASSUME NEW i \in 1 .. Len(queue[c]), queue[c][i] = Message(u)
            PROVE  i \in 1 .. Len(queue'[c]) /\ queue'[c][i] = Message(u)
        BY <4>2, <1>5
      <4> QED BY <4>1, <4>2
    <3> QED BY <2>1, <2>2, <3>2, <1>2 DEF Sent
  <2>3. CASE call[u].to # c
    BY <2>1, <2>3, <1>1, <1>2, SentFrame
  <2> QED BY <2>2, <2>3
<1>7. CASE Waits(call[t].class)
  <2>1. call'[t] = [call[t] EXCEPT !.step = "wait"]
    BY <1>1, <1>7 DEF Send, Advance
  <2>2. call'[t].step = "wait" /\ call'[t].to = c /\ Message(t)' = Message(t)
    BY <2>1, <1>1 DEF Message, Calls
  <2>3. Sent(t)'
    <3>1. Len(queue[c]) + 1 \in 1 .. Len(queue'[c])
      BY <1>5
    <3> QED BY <3>1, <2>2, <1>5 DEF Sent
  <2>4. Status[t] = "idle" /\ Status'[t] = "called"
    BY <1>2, <2>2, <2>3 DEF Status
  <2>5. Status' = [Status EXCEPT ![t] = Status'[t]]
    BY <1>4, <1>6, StatusMove
  <2> QED BY <2>4, <2>5 DEF Promised!Call, Promised!Move
<1>8. CASE ~Waits(call[t].class)
  <2>1. call'[t].step \in {"none", "done"}
    BY <1>1, <1>8 DEF Send, Returned, NoCall
  <2> QED BY <2>1, <1>2, <1>4, <1>6, StatusFrame
<1> QED BY <1>7, <1>8

\* Reading the result ends the exchange.
LEMMA AnswerIsReturn ==
    ASSUME IInv, NEW t \in Threads, Answer(t)
    PROVE  Promised!Return(t)
<1>1. /\ call \in [Threads -> Calls] /\ call[t].step = "answer"
      /\ hand' = hand /\ queue' = queue
  BY DEF IInv, TypeOK, Answer
<1>2. \A u \in Threads \ {t} : call'[u] = call[u]
  BY <1>1 DEF Answer, Advance, Returned
<1>3. call'[t].step \in {"join", "none", "done"}
  <2>1. CASE call[t].class = "DeInit"
    <3>1. Advance(t, "join")
      BY <2>1 DEF Answer
    <3> QED BY <3>1, Advanced DEF IInv, Steps
  <2>2. CASE call[t].class # "DeInit"
    BY <1>1, <2>2 DEF Answer, Returned, NoCall
  <2> QED BY <2>1, <2>2
<1>4. ASSUME NEW u \in Threads \ {t}, call[u].step \in {"wait", "answer"}
      PROVE  Sent(u)' <=> Sent(u)
  BY <1>1, <1>2, <1>4, SentFrame
<1>5. Status[t] = "served" /\ Status'[t] = "idle"
  BY <1>1, <1>3, AnsweredIsServed DEF Status
<1>6. Status' = [Status EXCEPT ![t] = Status'[t]]
  BY <1>2, <1>4, StatusMove
<1> QED BY <1>5, <1>6 DEF Promised!Return, Promised!Move

\* Dispatching the message that a caller waits for serves that caller.
LEMMA DispatchIsServe ==
    ASSUME IInv, NEW c \in Components, Dispatch(c)
    PROVE  (\E t \in Threads : Promised!Serve(t)) \/ UNCHANGED Status
<1>0. /\ c \in Threads /\ CompOK(c) /\ hand \in [Components -> Messages \cup {Nobody}]
      /\ loop[c] = "dispatch" /\ queue' = queue
      /\ hand' = [hand EXCEPT ![c] = Nobody]
  BY DEF IInv, TypeOK, Threads, Dispatch
<1>1. /\ hand[c] \in Messages /\ hand'[c] = Nobody
      /\ \A d \in Components \ {c} : hand'[d] = hand[d]
  BY <1>0 DEF CompOK, HandOK
<1>2. /\ call[c].step \in {"none", "done"} /\ call'[c].step = "none"
      /\ \A u \in Threads \ {c} : call'[u] = call[u]
  BY PhaseEnded DEF Dispatch
<1>3. ASSUME NEW u \in Threads, call[u].step \in {"wait", "answer"}, hand[call[u].to] # Message(u)
      PROVE  Sent(u)' <=> Sent(u)
  <2>1. /\ call'[u] = call[u] /\ call[u].to \in Components
        /\ Message(u)' = Message(u) /\ Message(u) # Nobody
    BY <1>2, <1>3, Waiting DEF Message
  <2> QED BY <2>1, <1>0, <1>1, <1>3 DEF Sent
<1>4. ASSUME NEW u \in Threads, call[u].step \in {"wait", "answer"}, hand[call[u].to] = Message(u),
             call[u].to # c
      PROVE  Sent(u)' <=> Sent(u)
  <2>1. call'[u] = call[u] /\ call[u].to \in Components
    BY <1>2, <1>4, Waiting
  <2> QED BY <2>1, <1>0, <1>1, <1>4, SentFrame
<1>5. CASE \E t \in Threads : call[t].step \in {"wait", "answer"} /\ call[t].to = c
                                /\ hand[c] = Message(t)
  <2>1. PICK t \in Threads : call[t].step \in {"wait", "answer"} /\ call[t].to = c
                               /\ hand[c] = Message(t)
    BY <1>5
  <2>2. /\ Waits(Message(t).class) /\ Message(t).from = t /\ Message(t) # Nobody
        /\ mutex[c] = t /\ call'[t] = call[t]
    BY <2>1, <1>2, Waiting
  <2>3. ASSUME NEW u \in Threads \ {t}, call[u].step \in {"wait", "answer"}
        PROVE  Sent(u)' <=> Sent(u)
    <3>1. call[u].to # c
      BY <2>2, <2>3, Waiting
    <3> QED BY <3>1, <2>3, <1>3, <1>4
  <2>4. NoneQueued(c)
    BY <2>1, <2>2, <1>0 DEF CompOK, HandOK
  <2>5. ~Sent(t)'
    BY <2>1, <2>2, <2>4, <1>0, <1>1 DEF Sent, NoneQueued, Message
  <2>6. Status[t] = "called" /\ Status'[t] = "served"
    BY <2>1, <2>2, <2>5 DEF Status, Sent
  <2>7. Status' = [Status EXCEPT ![t] = Status'[t]]
    <3>1. t # c
      BY <2>1, <1>2
    <3>2. Status'[c] = Status[c]
      BY <1>0, <1>2 DEF Status
    <3>3. \A u \in Threads \ {t} : Status'[u] = Status[u]
      BY <2>3, <3>2, <1>2 DEF Status
    <3>4. /\ Status = [u \in Threads |-> Status[u]]
          /\ Status' = [u \in Threads |-> Status'[u]]
      BY DEF Status
    <3> QED BY <3>3, <3>4
  <2> QED BY <2>6, <2>7 DEF Promised!Serve, Promised!Move
<1>6. CASE ~\E t \in Threads : call[t].step \in {"wait", "answer"} /\ call[t].to = c
                                 /\ hand[c] = Message(t)
  <2>1. ASSUME NEW u \in Threads, call[u].step \in {"wait", "answer"} PROVE Sent(u)' <=> Sent(u)
    BY <2>1, <1>3, <1>4, <1>6
  <2> QED BY <2>1, <1>2, StatusFrame
<1> QED BY <1>5, <1>6

\* To every caller a blocking API is a synchronous exchange with the component's
\* thread: send_msg_blocking returns after its own message has been dispatched,
\* and no message is dispatched twice or never was sent.
THEOREM CallsAreSynchronous == Spec => ImplementsSyncCalls
<1>1. Init => Promised!Init
  BY DEF Init, Promised!Init, Status, NoCall
<1>2. IInv /\ [Next]_vars => [Promised!Next]_Status
  <2> SUFFICES ASSUME IInv, [Next]_vars
               PROVE  Promised!Next \/ UNCHANGED Status
    OBVIOUS
  <2>1. CASE UNCHANGED vars
    BY <2>1 DEF vars, Status, Sent, Message
  <2>2. ASSUME NEW t \in Threads, NEW c \in Components,
               Open(t, c) \/ \E class \in Classes : Begin(t, c, class)
        PROVE  UNCHANGED Status
    BY <2>2, QuietCaller
  <2>3. ASSUME NEW t \in Threads, CallerStep(t)
        PROVE  Promised!Next \/ UNCHANGED Status
    <3>1. CASE Started(t) \/ Lock(t) \/ Join(t)
      <4>1. call[t] \in Calls /\ call[t].to # Nobody
        BY <3>1 DEF IInv, TypeOK, CallOK, Started, Lock, Join
      <4> QED BY <3>1, <4>1, QuietCaller DEF Calls
    <3>2. CASE Send(t)
      BY <3>2, SendIsCall DEF Promised!Next
    <3>3. CASE Wait(t)
      BY <3>3, QuietWait
    <3>4. CASE Answer(t)
      BY <3>4, AnswerIsReturn DEF Promised!Next
    <3> QED BY <2>3, <3>1, <3>2, <3>3, <3>4 DEF CallerStep
  <2>4. ASSUME NEW c \in Components, LoopStep(c) \/ Reenter(c)
        PROVE  Promised!Next \/ UNCHANGED Status
    <3>1. CASE Dispatch(c)
      BY <3>1, DispatchIsServe DEF Promised!Next
    <3>2. CASE ~Dispatch(c)
      BY <2>4, <3>2, QuietLoop, QuietReceive DEF LoopStep
    <3> QED BY <3>1, <3>2
  <2> QED BY <2>1, <2>2, <2>3, <2>4 DEF Next
<1> QED BY <1>1, <1>2, Invariance, PTL DEF Spec, ImplementsSyncCalls, Promised!Spec

-----------------------------------------------------------------------------
(* A handler of the scheduler finds the state it asserts: a component is   *)
(* followed from its creation, when only the creator knows it, to its      *)
(* deletion, when only the deleter still does.                             *)

\* A component that is being created: it is its creator's alone, which waits only
\* while its one message is in the queue or in hand.
Young(c) ==
    /\ loop[c] \in {"starting", "receive", "dispatch"}
    /\ c \notin open
    /\ \A i \in 1 .. Len(queue[c]) : queue[c][i].class = "Init"
    /\ hand[c] # Nobody => hand[c].class = "Init"
    /\ \A t \in Threads : call[t].to = c =>
            /\ call[t].class = "Init"
            /\ call[t].step \in {"start", "lock", "send", "wait"}
            /\ call[t].step = "wait" => ~NoneQueued(c) \/ ~NotInHand(c)

\* One that works: the first message is behind it, the last has none behind it.
Grown(c) ==
    /\ loop[c] \in {"receive", "dispatch", "post", "servants"}
    /\ \A i \in 1 .. Len(queue[c]) :
            /\ queue[c][i].class # "Init"
            /\ queue[c][i].class = "DeInit" => i = Len(queue[c])
    /\ hand[c] # Nobody => hand[c].class # "Init"
    /\ hand[c] # Nobody /\ hand[c].class = "DeInit" => queue[c] = <<>>
    /\ \A t \in Threads : call[t].to = c /\ call[t].class = "Init" =>
            call[t].step \in {"wait", "answer"}

\* One that is not there, or has only its deleter left to answer.
Gone(c) ==
    /\ loop[c] \in {"unborn", "post", "exited"}
    /\ loop[c] # "unborn" =>
            /\ c \notin open /\ queue[c] = <<>>
            /\ \A t \in Threads : call[t].to = c =>
                    /\ call[t].class = "DeInit"
                    /\ call[t].step \in {"wait", "answer", "join"}

LifeOK(c) ==
    /\ state[c] = "Starting" => Young(c)
    /\ state[c] = "Started" => Grown(c)
    /\ state[c] = "Stopped" => Gone(c)

LifeInv == \A c \in Components : LifeOK(c)
-----------------------------------------------------------------------------
\* The steps a call takes while its component's queue, state and message in hand
\* stay as they are.
Moves == {<<"start", "lock">>, <<"lock", "send">>, <<"wait", "answer">>,
          <<"answer", "join">>}

\* What such a step may do to component d.
Harmless(d) ==
    /\ state'[d] = state[d] /\ hand'[d] = hand[d] /\ queue'[d] = queue[d]
    /\ \/ loop'[d] = loop[d]
       \/ loop[d] = "starting" /\ loop'[d] = "receive"
       \/ loop[d] = "servants" /\ loop'[d] = "receive"
       \/ loop[d] = "post"
          /\ loop'[d] = IF state[d] = "Stopped" THEN "exited" ELSE "servants"
    /\ d \in open' => d \in open \/ state[d] = "Started"
    /\ \A u \in Threads : call'[u].to = d =>
        /\ call[u].to = d /\ call'[u].class = call[u].class
        /\ \/ call'[u].step = call[u].step
           \/ <<call[u].step, call'[u].step>> \in Moves
        /\ call'[u].step = "answer" /\ call[u].step = "wait" =>
                NoneQueued(d) /\ NotInHand(d)
        /\ call'[u].step = "join" => call[u].class = "DeInit"

\* A component of which a step only advances the calls keeps its invariant.
LEMMA LifeKept ==
    ASSUME IInv, LifeInv, NEW d \in Components, Harmless(d)
    PROVE  LifeOK(d)'
<1>1. LifeOK(d)
  BY DEF LifeInv
<1>2. Young(d) => (state[d] = "Starting" => Young(d)')
  <2> SUFFICES ASSUME Young(d), state[d] = "Starting" PROVE Young(d)'
    OBVIOUS
  <2>1. /\ loop'[d] \in {"starting", "receive", "dispatch"}
        /\ d \notin open'
    BY DEF Young, Harmless
  <2>2. \A u \in Threads : call'[u].to = d =>
            /\ call'[u].class = "Init"
            /\ call'[u].step \in {"start", "lock", "send", "wait"}
            /\ call'[u].step = "wait" => ~NoneQueued(d) \/ ~NotInHand(d)
    BY DEF Young, Harmless, Moves
  <2>3. (NoneQueued(d)' <=> NoneQueued(d)) /\ (NotInHand(d)' <=> NotInHand(d))
    BY DEF NoneQueued, NotInHand, Harmless
  <2> QED BY <2>1, <2>2, <2>3 DEF Young, Harmless
<1>3. Grown(d) => (state[d] = "Started" => Grown(d)')
  <2> SUFFICES ASSUME Grown(d), state[d] = "Started" PROVE Grown(d)'
    OBVIOUS
  <2>1. loop'[d] \in {"receive", "dispatch", "post", "servants"}
    BY DEF Grown, Harmless
  <2>2. \A u \in Threads : call'[u].to = d /\ call'[u].class = "Init" =>
            call'[u].step \in {"wait", "answer"}
    BY DEF Grown, Harmless, Moves
  <2> QED BY <2>1, <2>2 DEF Grown, Harmless
<1>4. Gone(d) => (state[d] = "Stopped" => Gone(d)')
  <2> SUFFICES ASSUME Gone(d), state[d] = "Stopped" PROVE Gone(d)'
    OBVIOUS
  <2>1. loop'[d] \in {"unborn", "post", "exited"}
        /\ (loop'[d] # "unborn" => loop[d] # "unborn")
    BY DEF Gone, Harmless
  <2>2. loop[d] # "unborn" =>
            \A u \in Threads : call'[u].to = d =>
                /\ call'[u].class = "DeInit"
                /\ call'[u].step \in {"wait", "answer", "join"}
    BY DEF Gone, Harmless, Moves
  <2> QED BY <2>1, <2>2 DEF Gone, Harmless
<1> QED BY <1>1, <1>2, <1>3, <1>4 DEF LifeOK, Harmless

\* What a step leaves alone it does not harm.
LEMMA Spared ==
    ASSUME IInv, NEW d \in Components,
           state'[d] = state[d], hand'[d] = hand[d], queue'[d] = queue[d],
           loop'[d] = loop[d], d \in open' => d \in open,
           \A u \in Threads : call'[u].to = d => call'[u] = call[u]
    PROVE  Harmless(d)
<1>1. \A u \in Threads : call'[u].to = d =>
        /\ call[u].to = d /\ call'[u].class = call[u].class
        /\ call'[u].step = call[u].step
        /\ ~(call'[u].step = "answer" /\ call[u].step = "wait")
        /\ call'[u].step = "join" => call[u].class = "DeInit"
  BY DEF IInv, CallOK
<1> QED BY <1>1 DEF Harmless

\* It is enough to look at the component at which a step takes place.
LEMMA LifeAt ==
    ASSUME IInv, LifeInv, NEW c \in Components, LifeOK(c)',
           \A d \in Components \ {c} :
                /\ state'[d] = state[d] /\ hand'[d] = hand[d]
                /\ queue'[d] = queue[d] /\ loop'[d] = loop[d]
                /\ d \in open' => d \in open
                /\ \A u \in Threads : call'[u].to = d => call'[u] = call[u]
    PROVE  LifeInv'
BY LifeKept, Spared DEF LifeInv
-----------------------------------------------------------------------------
\* A new component is young.
LEMMA LifeOpen ==
    ASSUME IInv, LifeInv, NEW t \in Threads, NEW c \in Components, Open(t, c)
    PROVE  LifeInv'
<1>ty. TypeOK /\ CompOK(c) /\ c # Nobody
  BY SchedulerAssumption DEF IInv
<1>1. /\ loop' = [loop EXCEPT ![c] = "starting"]
      /\ state' = [state EXCEPT ![c] = "Starting"]
      /\ call' = [call EXCEPT ![t] = [step |-> "start", to |-> c, class |-> "Init"]]
      /\ UNCHANGED <<hand, queue, open>> /\ loop[c] = "unborn"
  BY DEF Open
<1>2. /\ loop'[c] = "starting" /\ state'[c] = "Starting"
      /\ call'[t] = [step |-> "start", to |-> c, class |-> "Init"]
      /\ \A u \in Threads \ {t} : call'[u] = call[u]
  BY <1>ty, <1>1 DEF TypeOK
<1>3. c \notin open /\ queue[c] = <<>> /\ hand[c] = Nobody
      /\ \A u \in Threads : call[u].to # c
  BY <1>ty, <1>1 DEF CompOK, UnbornOK, HandOK
<1>4. LifeOK(c)'
  <2>1. \A u \in Threads : call'[u].to = c =>
            call'[u].class = "Init" /\ call'[u].step = "start"
    BY <1>2, <1>3
  <2>2. queue'[c] = <<>> /\ hand'[c] = Nobody /\ c \notin open'
    BY <1>1, <1>3
  <2>3. Young(c)'
    BY <1>2, <2>1, <2>2 DEF Young
  <2> QED BY <1>2, <2>3 DEF LifeOK
<1>5. \A d \in Components \ {c} :
        /\ state'[d] = state[d] /\ hand'[d] = hand[d]
        /\ queue'[d] = queue[d] /\ loop'[d] = loop[d]
        /\ d \in open' => d \in open
        /\ \A u \in Threads : call'[u].to = d => call'[u] = call[u]
  BY <1>ty, <1>1, <1>2 DEF TypeOK
<1> QED BY <1>4, <1>5, LifeAt

\* Only a component that works is called.
LEMMA LifeBegin ==
    ASSUME IInv, LifeInv, NEW t \in Threads, NEW c \in Components,
           NEW class \in Classes, Begin(t, c, class)
    PROVE  LifeInv'
<1>ty. TypeOK /\ CompOK(c) /\ LifeOK(c) /\ state[c] \in {"Stopped", "Starting", "Started"}
  BY DEF IInv, LifeInv, TypeOK
<1>1. /\ c \in open /\ class # "Init" /\ open' \subseteq open
      /\ UNCHANGED <<loop, state, hand, queue>>
  BY DEF Begin
<1>2. /\ call'[t].to = c /\ call'[t].class = class
      /\ \A u \in Threads \ {t} : call'[u] = call[u]
  BY <1>ty DEF Begin, TypeOK
<1>3. state[c] = "Started" /\ Grown(c)
  BY <1>ty, <1>1 DEF LifeOK, Young, Gone, CompOK, UnbornOK
<1>4. LifeOK(c)'
  <2>1. \A u \in Threads : call'[u].to = c /\ call'[u].class = "Init" =>
            call'[u].step \in {"wait", "answer"}
    BY <1>1, <1>2, <1>3 DEF Grown
  <2>2. Grown(c)'
    BY <1>1, <1>3, <2>1 DEF Grown
  <2> QED BY <1>1, <1>3, <2>2 DEF LifeOK
<1>5. \A d \in Components \ {c} :
        /\ state'[d] = state[d] /\ hand'[d] = hand[d]
        /\ queue'[d] = queue[d] /\ loop'[d] = loop[d]
        /\ d \in open' => d \in open
        /\ \A u \in Threads : call'[u].to = d => call'[u] = call[u]
  BY <1>1, <1>2
<1> QED BY <1>4, <1>5, LifeAt

\* The steps of a caller that change no component beyond its mutex and semaphore.
LEMMA LifeCall ==
    ASSUME IInv, LifeInv, NEW t \in Threads,
           Started(t) \/ Lock(t) \/ Wait(t) \/ Answer(t)
    PROVE  LifeInv'
<1>ty. TypeOK /\ CallOK(t)
  BY DEF IInv
<1>1. PICK c \in Components : c = call[t].to
  BY <1>ty DEF TypeOK, CallOK, Calls, Started, Lock, Wait, Answer
<1>ok. /\ CompOK(c) /\ LifeOK(c) /\ c # Nobody
       /\ state[c] \in {"Stopped", "Starting", "Started"}
  BY <1>1, SchedulerAssumption DEF IInv, LifeInv, TypeOK
<1>2. /\ UNCHANGED <<loop, state, hand, queue>>
      /\ \A u \in Threads \ {t} : call'[u] = call[u]
  BY <1>ty DEF Started, Lock, Wait, Answer, Advance, Returned, TypeOK
<1>3. /\ call'[t].to # Nobody =>
            /\ call'[t].to = c /\ call'[t].class = call[t].class
            /\ <<call[t].step, call'[t].step>> \in Moves
      /\ call'[t].to # Nobody /\ call[t].step = "wait" => sem[c] > 0
      /\ call'[t].to # Nobody /\ call'[t].step = "join" => call[t].class = "DeInit"
  <2>1. CASE Started(t)
    <3>1. call[t].step = "start" /\ Advance(t, "lock")
      BY <2>1 DEF Started
    <3> QED BY <1>1, <1>ty, <3>1, Advanced DEF Steps, Moves
  <2>2. CASE Lock(t)
    <3>1. call[t].step = "lock" /\ Advance(t, "send")
      BY <2>2 DEF Lock
    <3> QED BY <1>1, <1>ty, <3>1, Advanced DEF Steps, Moves
  <2>3. CASE Wait(t)
    <3>1. call[t].step = "wait" /\ Advance(t, "answer") /\ sem[c] > 0
      BY <1>1, <2>3 DEF Wait
    <3> QED BY <1>1, <1>ty, <3>1, Advanced DEF Steps, Moves
  <2>4. CASE Answer(t) /\ call[t].class = "DeInit"
    <3>1. call[t].step = "answer" /\ Advance(t, "join")
      BY <2>4 DEF Answer
    <3> QED BY <1>1, <1>ty, <2>4, <3>1, Advanced DEF Steps, Moves
  <2>5. CASE Answer(t) /\ call[t].class # "DeInit"
    <3>1. Returned(t)
      BY <2>5 DEF Answer
    <3> QED BY <1>ty, <3>1, CallEnded
  <2> QED BY <2>1, <2>2, <2>3, <2>4, <2>5
<1>4. sem[c] > 0 => NoneQueued(c) /\ NotInHand(c)
  BY <1>ok, <1>1, <1>ty DEF CompOK, TokenOK, TypeOK
<1>5. \A d \in Components : d \in open' => d \in open \/ state[d] = "Started"
  <2>1. CASE open' = open
    BY <2>1
  <2>2. CASE Answer(t) /\ call[t].class = "Init"
    <3>1. call[t].step = "answer" /\ open' = open \cup {c}
      BY <1>1, <2>2 DEF Answer
    <3>2. ~Young(c)
      BY <1>1, <3>1 DEF Young
    <3>3. ~Gone(c)
      BY <1>1, <2>2, <1>ok DEF Gone, CompOK, UnbornOK
    <3>4. state[c] = "Started"
      BY <3>2, <3>3, <1>ok DEF LifeOK
    <3> QED BY <3>1, <3>4
  <2> QED BY <2>1, <2>2 DEF Started, Lock, Wait, Answer
<1>6. ASSUME NEW d \in Components PROVE Harmless(d)
  <2>1. d # Nobody
    BY SchedulerAssumption
  <2>2. ASSUME NEW u \in Threads, call'[u].to = d
        PROVE  /\ call[u].to = d /\ call'[u].class = call[u].class
               /\ \/ call'[u].step = call[u].step
                  \/ <<call[u].step, call'[u].step>> \in Moves
               /\ call'[u].step = "answer" /\ call[u].step = "wait" =>
                       NoneQueued(d) /\ NotInHand(d)
               /\ call'[u].step = "join" => call[u].class = "DeInit"
    <3>1. CASE u = t
      BY <2>1, <2>2, <3>1, <1>1, <1>3, <1>4
    <3>2. CASE u # t
      <4>1. call'[u] = call[u] /\ CallOK(u)
        BY <3>2, <1>2 DEF IInv
      <4> QED BY <2>2, <4>1 DEF CallOK
    <3> QED BY <3>1, <3>2
  <2> QED BY <2>2, <1>2, <1>5 DEF Harmless
<1> QED BY <1>6, LifeKept DEF LifeInv

\* The steps of a component's thread between two messages.
LEMMA LifeLoop ==
    ASSUME IInv, LifeInv, NEW c \in Components,
           ThreadStarts(c) \/ Post(c) \/ EndServants(c) \/ Reenter(c)
    PROVE  LifeInv'
<1>ty. TypeOK
  BY DEF IInv
<1>1. /\ UNCHANGED <<state, hand, queue, open>>
      /\ \A d \in Components \ {c} : loop'[d] = loop[d]
      /\ \/ loop'[c] = loop[c]
         \/ loop[c] = "starting" /\ loop'[c] = "receive"
         \/ loop[c] = "servants" /\ loop'[c] = "receive"
         \/ loop[c] = "post"
            /\ loop'[c] = IF state[c] = "Stopped" THEN "exited" ELSE "servants"
  BY <1>ty DEF ThreadStarts, Post, EndServants, Reenter, TypeOK
<1>2. \A u \in Threads : call'[u].to # Nobody => call'[u] = call[u]
  <2>1. CASE EndServants(c)
    BY <2>1, PhaseEnded DEF EndServants
  <2>2. CASE call' = call
    BY <2>2
  <2> QED BY <2>1, <2>2 DEF ThreadStarts, Post, Reenter
<1>3. ASSUME NEW d \in Components PROVE Harmless(d)
  <2>1. d # Nobody
    BY SchedulerAssumption
  <2>2. ASSUME NEW u \in Threads, call'[u].to = d
        PROVE  /\ call[u].to = d /\ call'[u].class = call[u].class
               /\ call'[u].step = call[u].step
               /\ ~(call'[u].step = "answer" /\ call[u].step = "wait")
               /\ call'[u].step = "join" => call[u].class = "DeInit"
    <3>1. call'[u] = call[u] /\ CallOK(u)
      BY <2>1, <2>2, <1>2 DEF IInv
    <3> QED BY <2>2, <3>1 DEF CallOK
  <2> QED BY <2>2, <1>1 DEF Harmless
<1> QED BY <1>3, LifeKept DEF LifeInv

\* The scheduler of a component whose thread has ended is freed.
LEMMA LifeJoin ==
    ASSUME IInv, LifeInv, NEW t \in Threads, Join(t)
    PROVE  LifeInv'
<1>ty. TypeOK /\ CallOK(t)
  BY DEF IInv
<1>1. PICK c \in Components : c = call[t].to
  BY <1>ty DEF TypeOK, CallOK, Calls, Join
<1>2. /\ loop[c] = "exited" /\ loop' = [loop EXCEPT ![c] = "unborn"]
      /\ queue' = [queue EXCEPT ![c] = <<>>] /\ Returned(t)
      /\ UNCHANGED <<state, hand, open>>
  BY <1>1 DEF Join
<1>3. state[c] = "Stopped"
  BY <1>1, <1>2, <1>ty DEF LifeInv, LifeOK, Young, Grown, TypeOK
<1>4. LifeOK(c)'
  BY <1>1, <1>2, <1>3, <1>ty DEF LifeOK, Gone, TypeOK
<1>5. \A d \in Components \ {c} :
        /\ state'[d] = state[d] /\ hand'[d] = hand[d]
        /\ queue'[d] = queue[d] /\ loop'[d] = loop[d]
        /\ d \in open' => d \in open
        /\ \A u \in Threads : call'[u].to = d => call'[u] = call[u]
  BY <1>2, <1>ty, CallEnded, SchedulerAssumption DEF TypeOK
<1> QED BY <1>1, <1>4, <1>5, LifeAt
-----------------------------------------------------------------------------
\* The one who closes a component is alone with it, and waits.
LEMMA CloserAlone ==
    ASSUME IInv, NEW c \in Components, NEW m \in Messages, Owed(c, m),
           m.class \in {"Init", "DeInit"}
    PROVE  /\ c \notin open
           /\ \A u \in Threads : call[u].to = c =>
                   call[u].class = m.class /\ call[u].step = "wait"
<1>1. m.from \in Threads /\ CallOK(m.from) /\ c # Nobody
  BY SchedulerAssumption DEF IInv, Messages
<1> QED BY <1>1 DEF Owed, CallOK

\* What is sent to a young component is its first message, to a grown one any
\* other; the last of all finds nobody else that could send.
LEMMA LifeSend ==
    ASSUME IInv, LifeInv, NEW t \in Threads, Send(t)
    PROVE  LifeInv'
<1>ty. TypeOK /\ CallOK(t)
  BY DEF IInv
<1>1. PICK c \in Components : c = call[t].to
  BY <1>ty DEF TypeOK, CallOK, Calls, Send
<1>ok. /\ QueueOK(c) /\ HandOK(c) /\ UnbornOK(c) /\ LifeOK(c) /\ c # Nobody
       /\ state[c] \in {"Stopped", "Starting", "Started"}
       /\ hand[c] \in Messages \cup {Nobody}
       /\ queue[c] \in Seq(Messages)
  BY SchedulerAssumption DEF IInv, LifeInv, TypeOK, CompOK
<1>2. /\ call[t].step = "send" /\ call[t].to = c
      /\ queue' = [queue EXCEPT ![c] = Append(@, Message(t))]
      /\ UNCHANGED <<loop, state, hand, open>>
  BY <1>1 DEF Send
<1>3. /\ \A u \in Threads \ {t} : call'[u] = call[u]
      /\ call'[t].to # Nobody =>
            call'[t].to = c /\ call'[t].class = call[t].class /\ call'[t].step = "wait"
  <2>1. CASE Waits(call[t].class)
    <3>1. Advance(t, "wait")
      BY <2>1 DEF Send
    <3> QED BY <1>ty, <1>2, <3>1, Advanced DEF Steps
  <2>2. CASE ~Waits(call[t].class)
    <3>1. Returned(t)
      BY <2>2 DEF Send
    <3> QED BY <1>ty, <3>1, CallEnded
  <2> QED BY <2>1, <2>2
<1>4. /\ Len(queue[c]) \in Nat /\ Len(queue'[c]) = Len(queue[c]) + 1
      /\ \A i \in 1 .. Len(queue[c]) : queue'[c][i] = queue[c][i]
      /\ queue'[c][Len(queue[c]) + 1].class = call[t].class
  <2>1. Message(t) \in Messages /\ Message(t).class = call[t].class
    BY <1>ty DEF TypeOK, Message, Messages, Calls
  <2>2. queue'[c] = Append(queue[c], Message(t))
    BY <1>ty, <1>2 DEF TypeOK
  <2> QED BY <1>ok, <2>1, <2>2
<1>w. Waits("Init") /\ Waits("DeInit")
  BY SchedulerAssumption DEF Waits
<1>5. ASSUME state[c] = "Starting" PROVE LifeOK(c)'
  <2>1. Young(c) /\ call[t].class = "Init"
    BY <1>5, <1>ok, <1>2 DEF LifeOK, Young
  <2>2. ~NoneQueued(c)'
    <3>1. Len(queue[c]) + 1 \in 1 .. Len(queue'[c])
      BY <1>4
    <3> QED BY <3>1, <2>1, <1>4, <1>w DEF NoneQueued
  <2>3. \A i \in 1 .. Len(queue'[c]) : queue'[c][i].class = "Init"
    <3>1. \A i \in 1 .. Len(queue'[c]) : i \in 1 .. Len(queue[c]) \/ i = Len(queue[c]) + 1
      BY <1>4
    <3> QED BY <3>1, <2>1, <1>4 DEF Young
  <2>4. \A u \in Threads : call'[u].to = c =>
            call'[u].class = "Init" /\ call'[u].step \in {"start", "lock", "send", "wait"}
    BY <2>1, <1>3, <1>ok DEF Young
  <2>5. Young(c)'
    BY <2>1, <2>2, <2>3, <2>4, <1>2 DEF Young
  <2> QED BY <2>5, <1>5, <1>2 DEF LifeOK
<1>6. ASSUME state[c] = "Started" PROVE LifeOK(c)'
  <2>1. Grown(c) /\ call[t].class # "Init"
    BY <1>6, <1>ok, <1>2 DEF LifeOK, Grown
  <2>2. ASSUME NEW i \in 1 .. Len(queue[c]) PROVE queue[c][i].class # "DeInit"
    <3> SUFFICES ASSUME queue[c][i].class = "DeInit" PROVE FALSE
      OBVIOUS
    <3>1. InQueue(c, i) /\ i \in Nat /\ queue[c][i] \in Messages
      BY <1>ok, <1>w DEF InQueue
    <3>2. Owed(c, queue[c][i])
      BY <3>1, <1>ok DEF QueueOK
    <3> QED BY <3>1, <3>2, <1>2, CloserAlone
  <2>3. hand[c] # Nobody => hand[c].class # "DeInit"
    <3> SUFFICES ASSUME hand[c] # Nobody, hand[c].class = "DeInit" PROVE FALSE
      OBVIOUS
    <3>1. hand[c] \in Messages /\ Owed(c, hand[c])
      BY <1>ok, <1>w DEF HandOK
    <3> QED BY <3>1, <1>2, CloserAlone
  <2>4. \A i \in 1 .. Len(queue'[c]) :
            /\ queue'[c][i].class # "Init"
            /\ queue'[c][i].class = "DeInit" => i = Len(queue'[c])
    <3>1. \A i \in 1 .. Len(queue'[c]) : i \in 1 .. Len(queue[c]) \/ i = Len(queue[c]) + 1
      BY <1>4
    <3> QED BY <3>1, <2>1, <2>2, <1>4 DEF Grown
  <2>5. \A u \in Threads : call'[u].to = c /\ call'[u].class = "Init" =>
            call'[u].step \in {"wait", "answer"}
    BY <2>1, <1>3, <1>ok DEF Grown
  <2>6. Grown(c)'
    BY <2>1, <2>3, <2>4, <2>5, <1>2 DEF Grown
  <2> QED BY <2>6, <1>6, <1>2 DEF LifeOK
<1>7. state[c] # "Stopped"
  BY <1>ok, <1>2 DEF LifeOK, Gone, UnbornOK
<1>8. \A d \in Components \ {c} :
        /\ state'[d] = state[d] /\ hand'[d] = hand[d]
        /\ queue'[d] = queue[d] /\ loop'[d] = loop[d]
        /\ d \in open' => d \in open
        /\ \A u \in Threads : call'[u].to = d => call'[u] = call[u]
  BY <1>2, <1>3, <1>ty, SchedulerAssumption DEF TypeOK
<1>9. LifeOK(c)'
  BY <1>5, <1>6, <1>7, <1>ok
<1> QED BY <1>9, <1>8, LifeAt

\* The thread takes the first message, or the last, or one between.
LEMMA LifeReceive ==
    ASSUME IInv, LifeInv, NEW c \in Components, Receive(c)
    PROVE  LifeInv'
<1>ty. /\ TypeOK /\ LifeOK(c)
       /\ state[c] \in {"Stopped", "Starting", "Started"}
       /\ queue[c] \in Seq(Messages) /\ Nobody \notin Messages
  BY SchedulerAssumption DEF IInv, LifeInv, TypeOK
<1>1. /\ loop[c] = "receive" /\ queue[c] # <<>>
      /\ hand'[c] = Head(queue[c]) /\ queue'[c] = Tail(queue[c])
      /\ loop'[c] = "dispatch"
      /\ UNCHANGED <<state, open, call>>
  BY <1>ty DEF Receive, TypeOK
<1>2. /\ Len(queue[c]) \in Nat /\ Len(queue[c]) >= 1
      /\ hand'[c] = queue[c][1] /\ hand'[c] # Nobody
      /\ Len(queue'[c]) = Len(queue[c]) - 1
      /\ \A i \in 1 .. Len(queue'[c]) : queue'[c][i] = queue[c][i + 1]
      /\ queue'[c] \in Seq(Messages)
  BY <1>ty, <1>1
<1>3. \A i \in 1 .. Len(queue'[c]) : i + 1 \in 1 .. Len(queue[c])
  BY <1>2
<1>4. ASSUME state[c] = "Starting" PROVE LifeOK(c)'
  <2>1. Young(c) /\ hand'[c].class = "Init"
    BY <1>4, <1>ty, <1>2 DEF LifeOK, Young
  <2>2. ~NotInHand(c)'
    BY <2>1, <1>2, SchedulerAssumption DEF NotInHand, Waits
  <2>3. \A i \in 1 .. Len(queue'[c]) : queue'[c][i].class = "Init"
    BY <2>1, <1>2, <1>3 DEF Young
  <2>4. Young(c)'
    BY <2>1, <2>2, <2>3, <1>1 DEF Young
  <2> QED BY <2>4, <1>4, <1>1 DEF LifeOK
<1>5. ASSUME state[c] = "Started" PROVE LifeOK(c)'
  <2>1. Grown(c) /\ hand'[c].class # "Init"
    BY <1>5, <1>ty, <1>2 DEF LifeOK, Grown
  <2>2. hand'[c].class = "DeInit" => queue'[c] = <<>>
    <3>1. hand'[c].class = "DeInit" => Len(queue[c]) = 1
      <4>1. 1 \in 1 .. Len(queue[c])
        BY <1>2
      <4> QED BY <4>1, <2>1, <1>2 DEF Grown
    <3> QED BY <3>1, <1>2
  <2>3. \A i \in 1 .. Len(queue'[c]) :
            /\ queue'[c][i].class # "Init"
            /\ queue'[c][i].class = "DeInit" => i = Len(queue'[c])
    BY <2>1, <1>2, <1>3 DEF Grown
  <2>4. Grown(c)'
    BY <2>1, <2>2, <2>3, <1>1 DEF Grown
  <2> QED BY <2>4, <1>5, <1>1 DEF LifeOK
<1>6. state[c] # "Stopped"
  BY <1>ty, <1>1 DEF LifeOK, Gone
<1>7. \A d \in Components \ {c} :
        /\ state'[d] = state[d] /\ hand'[d] = hand[d]
        /\ queue'[d] = queue[d] /\ loop'[d] = loop[d]
        /\ d \in open' => d \in open
        /\ \A u \in Threads : call'[u].to = d => call'[u] = call[u]
  BY <1>ty DEF Receive, TypeOK
<1>8. LifeOK(c)'
  BY <1>4, <1>5, <1>6, <1>ty
<1> QED BY <1>8, <1>7, LifeAt

\* The first message makes the component grown, the last one makes it gone.
LEMMA LifeDispatch ==
    ASSUME IInv, LifeInv, NEW c \in Components, Dispatch(c)
    PROVE  LifeInv'
<1>ty. /\ TypeOK /\ LifeOK(c) /\ HandOK(c)
       /\ state[c] \in {"Stopped", "Starting", "Started"}
       /\ hand[c] \in Messages \cup {Nobody}
       /\ queue[c] \in Seq(Messages) /\ Waits("Init") /\ Waits("DeInit")
  BY SchedulerAssumption DEF IInv, LifeInv, TypeOK, CompOK, Waits
<1>1. /\ loop[c] = "dispatch" /\ hand[c] \in Messages
      /\ state'[c] = StateAfter(hand[c].class, state[c])
      /\ hand'[c] = Nobody
      /\ loop'[c] = IF Waits(hand[c].class) THEN "post" ELSE "servants"
      /\ UNCHANGED <<queue, open>>
  BY <1>ty DEF Dispatch, HandOK, TypeOK
<1>2. \A u \in Threads : call'[u].to # Nobody => call'[u] = call[u]
  BY PhaseEnded DEF Dispatch
<1>n. c # Nobody
  BY SchedulerAssumption
<1>3. ASSUME state[c] = "Starting" PROVE LifeOK(c)'
  <2>1. Young(c) /\ hand[c].class = "Init"
    BY <1>3, <1>ty, <1>1, SchedulerAssumption DEF LifeOK, Young
  <2>2. state'[c] = "Started" /\ loop'[c] = "post"
    BY <2>1, <1>1, <1>ty DEF StateAfter
  <2>3. Owed(c, hand[c]) /\ NoneQueued(c)
    BY <2>1, <1>1, <1>ty DEF HandOK
  <2>4. \A i \in 1 .. Len(queue[c]) : FALSE
    BY <2>1, <2>3, <1>ty DEF Young, NoneQueued
  <2>5. \A u \in Threads : call[u].to = c => call[u].step = "wait"
    BY <2>1, <2>3, <1>1, CloserAlone
  <2>6. Grown(c)'
    BY <2>2, <2>4, <2>5, <1>1, <1>2, <1>n DEF Grown
  <2> QED BY <2>2, <2>6 DEF LifeOK
<1>4. ASSUME state[c] = "Started" PROVE LifeOK(c)'
  <2>1. Grown(c) /\ hand[c].class # "Init" /\ hand[c] # Nobody
    BY <1>4, <1>ty, <1>1, SchedulerAssumption DEF LifeOK, Grown
  <2>2. CASE hand[c].class = "DeInit"
    <3>1. state'[c] = "Stopped" /\ loop'[c] = "post" /\ queue'[c] = <<>>
      BY <2>1, <2>2, <1>1, <1>ty DEF StateAfter, Grown
    <3>2. Owed(c, hand[c])
      BY <2>1, <2>2, <1>ty DEF HandOK
    <3>3. /\ c \notin open
          /\ \A u \in Threads : call[u].to = c =>
                  call[u].class = "DeInit" /\ call[u].step = "wait"
      BY <2>2, <3>2, <1>1, CloserAlone
    <3>4. Gone(c)'
      BY <3>1, <3>3, <1>1, <1>2, <1>n DEF Gone
    <3> QED BY <3>1, <3>4 DEF LifeOK
  <2>3. CASE hand[c].class # "DeInit"
    <3>1. state'[c] = "Started" /\ loop'[c] \in {"post", "servants"}
      BY <2>1, <2>3, <1>1, <1>4 DEF StateAfter
    <3>2. Grown(c)'
      BY <2>1, <3>1, <1>1, <1>2, <1>n DEF Grown
    <3> QED BY <3>1, <3>2 DEF LifeOK
  <2> QED BY <2>2, <2>3
<1>5. state[c] # "Stopped"
  BY <1>ty, <1>1 DEF LifeOK, Gone
<1>6. \A d \in Components \ {c} :
        /\ state'[d] = state[d] /\ hand'[d] = hand[d]
        /\ queue'[d] = queue[d] /\ loop'[d] = loop[d]
        /\ d \in open' => d \in open
        /\ \A u \in Threads : call'[u].to = d => call'[u] = call[u]
  BY <1>2, <1>ty, SchedulerAssumption DEF Dispatch, TypeOK
<1>7. LifeOK(c)'
  BY <1>3, <1>4, <1>5, <1>ty
<1> QED BY <1>7, <1>6, LifeAt
-----------------------------------------------------------------------------
\* Every step keeps the life of every component.
LEMMA LifeStep == IInv /\ LifeInv /\ [Next]_vars => LifeInv'
<1> SUFFICES ASSUME IInv, LifeInv, [Next]_vars PROVE LifeInv'
  OBVIOUS
<1>1. CASE UNCHANGED vars
  <2>1. \A d \in Components : Harmless(d)
    BY <1>1, Spared DEF vars
  <2> QED BY <2>1, LifeKept DEF LifeInv
<1>2. ASSUME NEW t \in Threads, NEW c \in Components,
             Open(t, c) \/ \E class \in Classes : Begin(t, c, class)
      PROVE  LifeInv'
  BY <1>2, LifeOpen, LifeBegin
<1>3. ASSUME NEW t \in Threads, CallerStep(t) PROVE LifeInv'
  BY <1>3, LifeCall, LifeSend, LifeJoin DEF CallerStep
<1>4. ASSUME NEW c \in Components, LoopStep(c) \/ Reenter(c) PROVE LifeInv'
  BY <1>4, LifeLoop, LifeReceive, LifeDispatch DEF LoopStep
<1> QED BY <1>1, <1>2, <1>3, <1>4 DEF Next

\* A handler of the scheduler only ever runs in the state that it asserts:
\* ComponentInit in the first, all others once that is over and before
\* ComponentDeInit is, whatever clients and peers call meanwhile.
THEOREM HandlersFindState == Spec => []HandlersFindTheirState
<1>1. Init => LifeInv
  BY DEF Init, LifeInv, LifeOK, Gone
<1>2. IInv /\ LifeInv => HandlersFindTheirState
  <2> SUFFICES ASSUME IInv, LifeInv, NEW c \in Components, loop[c] = "dispatch"
               PROVE  state[c] = IF hand[c].class = "Init" THEN "Starting" ELSE "Started"
    BY DEF HandlersFindTheirState
  <2>1. hand[c] # Nobody /\ LifeOK(c)
        /\ state[c] \in {"Stopped", "Starting", "Started"}
    BY DEF IInv, CompOK, HandOK, LifeInv, TypeOK
  <2> QED BY <2>1 DEF LifeOK, Young, Grown, Gone
<1> QED BY <1>1, <1>2, LifeStep, Invariance, PTL DEF Spec
=============================================================================
