-------------------------- MODULE TizServantProof --------------------------
(* No event of a watcher that a servant awaits is lost, for any number of      *)
(* components, watchers and events and any size of the queues.                 *)
EXTENDS TizServant, TLAPS

\* An armed watcher exists and holds the id the servant knows; only one that fires
\* once may be awaited and not watched, while its event is on its way.
Watched(w) ==
    Armed(w) =>
       /\ w \in allocated
       /\ id[w] = p_watchers[w]
       /\ Awaited(w) => \/ w \in active
                        \/ /\ Kind[w] \in {"Once", "OneShot"}
                           /\ InCallback(w, p_watchers[w]) \/ Queued(w, p_watchers[w])

IInv == TypeOK /\ \A w \in Watchers : Watched(w)

\* The forms the loop's state can take.
LEMMA LoopForms ==
    ASSUME TypeOK
    PROVE  \/ loop = Waiting
           \/ \E w \in Watchers : loop = [at |-> "called", watcher |-> w]
           \/ \E w \in Watchers : loop = [at |-> "stopped", watcher |-> w]
           \/ \E w \in Watchers, i \in Ids : loop = [at |-> "send", watcher |-> w, id |-> i]
BY SMT DEF TypeOK, Loops, Waiting

\* The initial state satisfies the invariant: nothing is armed.
LEMMA InitInv == ASSUME ServantAssumption, Init PROVE IInv
<1>1. TypeOK
  BY SMT DEF Init, TypeOK, ServantAssumption, Ids, NotArmed, Loops, Waiting, Events
<1>2. \A w \in Watchers : Watched(w)
  BY DEF Init, Watched, Armed
<1> QED BY <1>1, <1>2 DEF IInv

-----------------------------------------------------------------------------
\* What a watcher waits for is there after a step that leaves its own part of the
\* state alone.
LEMMA Unrelated ==
    ASSUME NEW v \in Watchers, Watched(v),
           p_watchers'[v] = p_watchers[v], id'[v] = id[v],
           v \in allocated => v \in allocated',
           v \in active => v \in active',
           v \in due' => v \in due,
           loop' = loop, queue' = queue
    PROVE  Watched(v)'
BY DEF Watched, Awaited, Armed, InCallback, Queued

LEMMA ServeInv ==
    ASSUME ServantAssumption, IInv, NEW w \in Watchers, Serve(w)
    PROVE  IInv'
<1> USE DEF ServantAssumption
<1>t. TypeOK /\ \A v \in Watchers : Watched(v)
  BY DEF IInv
<1>1. CASE WatcherInit(w)
  <2>1. TypeOK'
    BY <1>1, <1>t, SMT DEF WatcherInit, TypeOK, Ids
  <2>2. ~Armed(w)
    BY <1>1, <1>t DEF WatcherInit, Watched
  <2>3. Watched(w)'
    BY <1>1, <2>2 DEF WatcherInit, Watched, Armed
  <2>4. ASSUME NEW v \in Watchers, v # w PROVE Watched(v)'
    <3>1. p_watchers'[v] = p_watchers[v] /\ id'[v] = id[v]
      BY <1>1, <1>t, <2>4 DEF WatcherInit, TypeOK
    <3> QED BY <1>1, <1>t, <3>1, Unrelated DEF WatcherInit
  <2> QED BY <2>1, <2>3, <2>4 DEF IInv
<1>2. CASE WatcherStart(w)
  <2>1. TypeOK'
    BY <1>2, <1>t, SMT DEF WatcherStart, Arm, TypeOK, Ids
  <2>2. Watched(w)'
    BY <1>2, <1>t DEF WatcherStart, Arm, TypeOK, Watched, Armed
  <2>3. ASSUME NEW v \in Watchers, v # w PROVE Watched(v)'
    <3>1. p_watchers'[v] = p_watchers[v] /\ id'[v] = id[v]
      BY <1>2, <1>t, <2>3 DEF WatcherStart, Arm, TypeOK
    <3>2. (v \in active => v \in active') /\ (v \in due' => v \in due)
      BY <1>2, <2>3 DEF WatcherStart
    <3> QED BY <1>2, <1>t, <3>1, <3>2, Unrelated DEF WatcherStart
  <2> QED BY <2>1, <2>2, <2>3 DEF IInv
<1>3. CASE WatcherRestart(w)
  <2>1. TypeOK'
    BY <1>3, <1>t, SMT DEF WatcherRestart, Again, Arm, TypeOK, Ids
  <2>2. Watched(w)'
    <3>1. w \in active' \/ w \notin due'
      BY <1>3 DEF WatcherRestart, Again
    <3> QED BY <1>3, <1>t, <3>1 DEF WatcherRestart, Arm, TypeOK, Watched, Awaited, Armed
  <2>3. ASSUME NEW v \in Watchers, v # w PROVE Watched(v)'
    <3>1. p_watchers'[v] = p_watchers[v] /\ id'[v] = id[v]
      BY <1>3, <1>t, <2>3 DEF WatcherRestart, Arm, TypeOK
    <3>2. (v \in active => v \in active') /\ (v \in due' => v \in due)
      BY <1>3, <2>3 DEF WatcherRestart, Again
    <3> QED BY <1>3, <1>t, <3>1, <3>2, Unrelated DEF WatcherRestart
  <2> QED BY <2>1, <2>2, <2>3 DEF IInv
<1>4. CASE WatcherStop(w)
  <2>1. TypeOK'
    BY <1>4, <1>t, SMT DEF WatcherStop, TypeOK
  <2>2. Watched(w)'
    BY <1>4, <1>t DEF WatcherStop, TypeOK, Watched, Armed
  <2>3. ASSUME NEW v \in Watchers, v # w PROVE Watched(v)'
    <3>1. /\ p_watchers'[v] = p_watchers[v]
          /\ (v \in active => v \in active') /\ (v \in due' => v \in due)
      BY <1>4, <1>t, <2>3 DEF WatcherStop, TypeOK
    <3> QED BY <1>4, <1>t, <3>1, Unrelated DEF WatcherStop
  <2> QED BY <2>1, <2>2, <2>3 DEF IInv
<1>5. CASE WatcherDestroy(w)
  <2>1. TypeOK'
    BY <1>5, <1>t, SMT DEF WatcherDestroy, TypeOK
  <2>2. Watched(w)'
    BY <1>5, <1>t DEF WatcherDestroy, TypeOK, Watched, Armed
  <2>3. ASSUME NEW v \in Watchers, v # w PROVE Watched(v)'
    <3>1. /\ p_watchers'[v] = p_watchers[v]
          /\ (v \in active => v \in active') /\ (v \in due' => v \in due)
      BY <1>5, <1>t, <2>3 DEF WatcherDestroy, TypeOK
    <3>2. v \in allocated => v \in allocated'
      BY <1>5, <2>3 DEF WatcherDestroy
    <3> QED BY <1>5, <1>t, <3>1, <3>2, Unrelated DEF WatcherDestroy
  <2> QED BY <2>1, <2>2, <2>3 DEF IInv
<1> QED BY <1>1, <1>2, <1>3, <1>4, <1>5 DEF Serve

-----------------------------------------------------------------------------
\* Serving an event takes it from the queue, and its watcher from the map when the
\* id is the watcher's own: no other event was that watcher's last hope.
LEMMA EventInv ==
    ASSUME ServantAssumption, IInv, NEW s \in Servants, Event(s)
    PROVE  IInv'
<1> USE DEF ServantAssumption
<1>t. TypeOK /\ \A v \in Watchers : Watched(v)
  BY DEF IInv
<1> DEFINE e == Head(queue[s])
<1>q. /\ queue[s] \in Seq(Events) /\ queue[s] # <<>>
      /\ queue' = [queue EXCEPT ![s] = Tail(queue[s])]
  BY <1>t DEF Event, TypeOK
<1>h. e \in Events /\ e = queue[s][1] /\ Len(queue[s]) >= 1 /\ Tail(queue[s]) \in Seq(Events)
  BY <1>q, SMT
<1>p. p_watchers' = IF p_watchers[e.watcher] = e.id /\ Kind[e.watcher] = "Once"
                    THEN [p_watchers EXCEPT ![e.watcher] = NotArmed] ELSE p_watchers
  BY <1>q DEF Event, Notifies
<1>d. due' = IF p_watchers[e.watcher] = e.id /\ Kind[e.watcher] \in {"Once", "OneShot"}
             THEN due \ {e.watcher} ELSE due
  BY <1>q DEF Event, Notifies
<1>o. UNCHANGED <<watcher_id, allocated, repeat, id, active, loop>>
  BY DEF Event
<1> HIDE DEF e
<1>1. TypeOK'
  <2>1. p_watchers' \in [Watchers -> Ids \cup {NotArmed}]
    BY <1>p, <1>t, <1>h DEF TypeOK, Events
  <2>2. queue' \in [Servants -> Seq(Events)]
    BY <1>q, <1>h, <1>t DEF TypeOK
  <2>3. due' \in SUBSET Watchers
    BY <1>d, <1>t DEF TypeOK
  <2> QED BY <2>1, <2>2, <2>3, <1>o, <1>t DEF TypeOK
<1>2. ASSUME NEW v \in Watchers PROVE Watched(v)'
  <2> SUFFICES ASSUME Armed(v)' PROVE Watched(v)'
    BY DEF Watched
  <2>1. p_watchers'[v] = p_watchers[v]
    BY <1>p, <1>t, <1>h DEF TypeOK, Events, Armed, NotArmed
  <2>2. Armed(v)
    BY <2>1 DEF Armed
  <2>3. ASSUME Kind[v] \in {"Once", "OneShot"}, Awaited(v)', Queued(v, p_watchers[v])
        PROVE  Queued(v, p_watchers[v])'
    <3> DEFINE m == [watcher |-> v, id |-> p_watchers[v]]
    <3>1. Owner[v] \in Servants
      OBVIOUS
    <3>2. CASE Owner[v] # s
      BY <3>1, <3>2, <2>3, <2>1, <1>q, <1>t DEF Queued, TypeOK
    <3>3. CASE Owner[v] = s
      <4>1. PICK k \in 1 .. Len(queue[s]) : queue[s][k] = m
        BY <2>3, <3>3 DEF Queued
      <4>2. k # 1
        <5> SUFFICES ASSUME k = 1 PROVE FALSE
          OBVIOUS
        <5>1. e.watcher = v /\ e.id = p_watchers[v]
          BY <4>1, <1>h
        <5>2. CASE Kind[v] = "Once"
          <6>1. p_watchers'[v] = NotArmed
            BY <5>1, <5>2, <1>p, <1>t DEF TypeOK
          <6> QED BY <6>1 DEF Armed
        <5>3. CASE Kind[v] = "OneShot"
          <6>1. v \notin due'
            BY <5>1, <5>3, <1>d
          <6> QED BY <6>1, <5>3, <2>3 DEF Awaited
        <5> QED BY <5>2, <5>3, <2>3
      <4>3. /\ queue'[s] = Tail(queue[s])
            /\ Len(Tail(queue[s])) = Len(queue[s]) - 1
            /\ \A j \in 1 .. Len(queue[s]) - 1 : Tail(queue[s])[j] = queue[s][j + 1]
        BY <1>q, <1>t, <1>h, SMT DEF TypeOK
      <4>4. k - 1 \in 1 .. Len(queue'[s]) /\ queue'[s][k - 1] = m
        BY <4>1, <4>2, <4>3, <1>h, SMT
      <4> QED BY <4>4, <3>3, <2>1 DEF Queued
    <3> QED BY <3>2, <3>3
  <2>4. InCallback(v, p_watchers[v]) => InCallback(v, p_watchers[v])'
    BY <1>o, <2>1 DEF InCallback
  <2>5. Awaited(v)' => Awaited(v)
    BY <1>d, <2>2 DEF Awaited
  <2> QED BY <1>t, <1>o, <2>1, <2>2, <2>3, <2>4, <2>5 DEF Watched
<1> QED BY <1>1, <1>2 DEF IInv

-----------------------------------------------------------------------------
\* The watcher the loop turns to is still watched.
LEMMA FireInv ==
    ASSUME ServantAssumption, IInv, NEW w \in Watchers, Fire(w)
    PROVE  IInv'
<1>t. TypeOK /\ \A v \in Watchers : Watched(v)
  BY DEF IInv
<1>1. TypeOK'
  BY <1>t, SMT DEF Fire, TypeOK, Loops, servant
<1>2. ASSUME NEW v \in Watchers PROVE Watched(v)'
  <2>1. ~InCallback(v, p_watchers[v])
    BY DEF Fire, InCallback
  <2>2. CASE v = w
    <3>1. w \in active' \/ Kind[w] = "OneShot"
      BY DEF Fire
    <3>2. Armed(w)' => InCallback(w, p_watchers[w])'
      BY <1>t DEF Fire, InCallback, Waiting, Watched, Armed, servant
    <3> QED BY <1>t, <2>2, <3>1, <3>2 DEF Fire, Watched, Awaited, Armed, servant
  <2>3. CASE v # w
    <3>1. v \in active => v \in active'
      BY <2>3 DEF Fire
    <3> QED BY <1>t, <2>1, <3>1 DEF Fire, Watched, Awaited, Armed, Queued, servant
  <2> QED BY <2>2, <2>3
<1> QED BY <1>1, <1>2 DEF IInv

\* The loop takes the last hope from libev, carries it through the callback and
\* leaves it in the queue.
LEMMA LoopStepInv ==
    ASSUME ServantAssumption, IInv, LoopStep
    PROVE  IInv'
<1> USE DEF ServantAssumption
<1>t. TypeOK /\ \A v \in Watchers : Watched(v)
  BY DEF IInv
<1>1. CASE StopOnce
  <2>1. PICK w \in Watchers : loop = [at |-> "called", watcher |-> w]
    BY <1>1, <1>t, LoopForms DEF StopOnce, Waiting
  <2>2. loop' = [at |-> "stopped", watcher |-> w]
    BY <1>1, <2>1 DEF StopOnce
  <2>3. TypeOK'
    <3>1. loop' \in Loops
      BY <2>2, SMT DEF Loops
    <3>2. active' \in SUBSET Watchers
      BY <1>1, <1>t DEF StopOnce, TypeOK
    <3> QED BY <3>1, <3>2, <1>1, <1>t DEF StopOnce, TypeOK, servant
  <2>4. ASSUME NEW v \in Watchers PROVE Watched(v)'
    <3>1. CASE v = w
      <4>1. InCallback(w, id[w])'
        BY <2>2, <1>1 DEF InCallback, Waiting, StopOnce
      <4>2. Kind[w] # "Once" => active' = active
        BY <1>1, <2>1 DEF StopOnce
      <4> QED BY <4>1, <4>2, <3>1, <1>1, <1>t DEF Watched, Awaited, Armed, StopOnce, Queued, servant
    <3>2. CASE v # w
      <4>1. ~InCallback(v, p_watchers[v])
        BY <2>1, <3>2 DEF InCallback
      <4>2. v \in active => v \in active'
        BY <1>1, <2>1, <3>2 DEF StopOnce
      <4> QED BY <4>1, <4>2, <1>1, <1>t DEF Watched, Awaited, Armed, StopOnce, Queued, servant
    <3> QED BY <3>1, <3>2
  <2> QED BY <2>3, <2>4 DEF IInv
<1>2. CASE ReadId
  <2>1. PICK w \in Watchers : loop = [at |-> "stopped", watcher |-> w]
    BY <1>2, <1>t, LoopForms DEF ReadId, Waiting
  <2>2. PICK i \in Ids : /\ w \in allocated => i = id[w]
                         /\ loop' = [at |-> "send", watcher |-> w, id |-> i]
    BY <1>2, <2>1 DEF ReadId
  <2>3. TypeOK'
    BY <1>2, <1>t, <2>2, SMT DEF ReadId, TypeOK, Loops, servant
  <2>4. ASSUME NEW v \in Watchers PROVE Watched(v)'
    <3>1. CASE v = w
      <4>1. InCallback(w, i)'
        BY <2>2 DEF InCallback, Waiting
      <4> QED BY <4>1, <2>2, <3>1, <1>2, <1>t DEF Watched, Awaited, Armed, ReadId, servant
    <3>2. CASE v # w
      <4>1. ~InCallback(v, p_watchers[v])
        BY <2>1, <3>2 DEF InCallback
      <4> QED BY <4>1, <1>2, <1>t DEF Watched, Awaited, Armed, ReadId, Queued, servant
    <3> QED BY <3>1, <3>2
  <2> QED BY <2>3, <2>4 DEF IInv
<1>3. CASE SendEvent
  <2>1. PICK w \in Watchers, i \in Ids : loop = [at |-> "send", watcher |-> w, id |-> i]
    BY <1>3, <1>t, LoopForms DEF SendEvent, Waiting
  <2> DEFINE m == [watcher |-> w, id |-> i]
             q == queue[Owner[w]]
  <2>2. m \in Events /\ Owner[w] \in Servants /\ q \in Seq(Events)
    BY <1>t DEF Events, TypeOK
  <2>3. queue' = [queue EXCEPT ![Owner[w]] = Append(q, m)]
    BY <1>3, <2>1 DEF SendEvent
  <2>4. /\ Append(q, m) \in Seq(Events) /\ Len(Append(q, m)) = Len(q) + 1
        /\ Len(q) \in Nat /\ Append(q, m)[Len(q) + 1] = m
        /\ \A k \in 1 .. Len(q) : Append(q, m)[k] = q[k]
    BY <2>2, SMT
  <2> HIDE DEF m, q
  <2>5. TypeOK'
    <3>1. queue' \in [Servants -> Seq(Events)]
      BY <2>3, <2>4, <1>t DEF TypeOK
    <3>2. loop' \in Loops
      BY <1>3 DEF SendEvent, Loops
    <3> QED BY <3>1, <3>2, <1>3, <1>t DEF SendEvent, TypeOK, servant
  <2>6. queue'[Owner[w]] = Append(q, m)
    BY <2>2, <2>3, <1>t DEF TypeOK
  <2>7. Queued(w, i)'
    <3>1. Len(q) + 1 \in 1 .. Len(queue'[Owner[w]])
      BY <2>4, <2>6, SMT
    <3> QED BY <3>1, <2>4, <2>6 DEF Queued, m
  <2>8. ASSUME NEW v \in Watchers PROVE Watched(v)'
    <3>1. Queued(v, p_watchers[v]) => Queued(v, p_watchers[v])'
      <4> SUFFICES ASSUME Queued(v, p_watchers[v]) PROVE Queued(v, p_watchers[v])'
        OBVIOUS
      <4>1. CASE Owner[v] = Owner[w]
        <5>1. PICK k \in 1 .. Len(q) : q[k] = [watcher |-> v, id |-> p_watchers[v]]
          BY <4>1 DEF Queued, q
        <5>2. k \in 1 .. Len(queue'[Owner[v]]) /\ queue'[Owner[v]][k] = q[k]
          BY <5>1, <4>1, <2>4, <2>6, SMT
        <5> QED BY <5>1, <5>2, <1>3 DEF Queued, SendEvent, servant
      <4>2. CASE Owner[v] # Owner[w]
        <5>1. queue'[Owner[v]] = queue[Owner[v]]
          BY <2>3, <4>2, <1>t DEF TypeOK
        <5> QED BY <5>1, <1>3 DEF Queued, SendEvent, servant
      <4> QED BY <4>1, <4>2
    <3>2. InCallback(v, p_watchers[v]) => Queued(v, p_watchers[v])'
      <4>1. InCallback(v, p_watchers[v]) => v = w /\ p_watchers[v] = i
        BY <2>1 DEF InCallback
      <4> QED BY <4>1, <2>7, <1>3 DEF SendEvent, servant, Queued
    <3> QED BY <3>1, <3>2, <1>3, <1>t DEF Watched, Awaited, Armed, SendEvent, servant
  <2> QED BY <2>5, <2>8 DEF IInv
<1> QED BY <1>1, <1>2, <1>3 DEF LoopStep

-----------------------------------------------------------------------------
LEMMA NextInv ==
    ASSUME ServantAssumption, IInv, [Next]_vars
    PROVE  IInv'
<1>1. CASE \E w \in Watchers : Serve(w)
  BY <1>1, ServeInv
<1>2. CASE \E s \in Servants : Event(s)
  BY <1>2, EventInv
<1>3. CASE \E w \in Watchers : Fire(w)
  BY <1>3, FireInv
<1>4. CASE LoopStep
  BY <1>4, LoopStepInv
<1>5. CASE UNCHANGED vars
  BY <1>5 DEF vars, servant, IInv, TypeOK, Watched, Awaited, Armed, InCallback, Queued
<1> QED BY <1>1, <1>2, <1>3, <1>4, <1>5 DEF Next

\* The state has its types: the ids the servant gives stay in its map and in its
\* watchers, the events of all the loop's callbacks are of known watchers.
THEOREM TypeCorrect == ASSUME ServantAssumption PROVE Spec => []TypeOK
<1>1. IInv => TypeOK
  BY DEF IInv
<1> QED BY <1>1, InitInv, NextInv, PTL DEF Spec

\* No event of an awaited watcher is lost between libev, the loop's callback and the
\* queue of the component (io_watcher_cback, tiz_comp_event_io, srv_event_io,
\* srv_event_timer): of an io watcher while it is armed, of a timer from its start
\* until it is stopped or restarted without a period, or, if it does not repeat, until
\* its servant has heard of it.
THEOREM NothingIsLost == ASSUME ServantAssumption PROVE Spec => []NoLostEvent
<1>1. ASSUME IInv PROVE NoLostEvent
  BY <1>1 DEF IInv, Watched, Awaited, NoLostEvent
<1> QED BY <1>1, InitInv, NextInv, PTL DEF Spec

=============================================================================
