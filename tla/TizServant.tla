----------------------------- MODULE TizServant -----------------------------
(***************************************************************************)
(* The watchers of the servants (tizservant.c) and the event loop that     *)
(* serves them all (tizev.c).  A servant starts and stops its watchers on  *)
(* the thread of its component; the loop is a thread of its own, which     *)
(* turns each event into a message in that component's queue.  The two     *)
(* share what libev knows of a watcher and the id written in it; the map   *)
(* of the watchers that are armed belongs to the servant alone.            *)
(*                                                                         *)
(* A call into libev is one step here.  The code guards most of them with  *)
(* the loop's mutex, but not the ones of the loop itself.                  *)
(***************************************************************************)
EXTENDS Integers, Sequences

CONSTANTS
    Servants,       \* one in each component
    Watchers,       \* the addresses of watchers
    Owner,          \* Owner[w]: the servant that allocates w
    Kind,           \* what w is: see Kinds
    Capacity,       \* of the queue of a component
    MaxId           \* bound: the ids a servant may use up

\* An io watcher with only_once or without, a timer that repeats or does not.
Kinds == {"Once", "Level", "Repeat", "OneShot"}

ASSUME ServantAssumption ==
    /\ Owner \in [Watchers -> Servants]
    /\ Kind \in [Watchers -> Kinds]
    /\ Capacity \in Nat \ {0}
    /\ MaxId \in Nat

NotArmed == -1
Ids == 0 .. MaxId

\* The message of class EvIo or EvTimer.
Events == [watcher : Watchers, id : Ids]

\* Where the loop's thread is: in libev, in the callback before it has stopped the
\* watcher and then before it has read the id, in tiz_comp_event_io.
Waiting == [at |-> "libev"]
Loops == {Waiting} \cup [at : {"called", "stopped"}, watcher : Watchers]
                   \cup [at : {"send"}, watcher : Watchers, id : Ids]

VARIABLES
    p_watchers,     \* the map: the id under which a watcher is armed
    watcher_id,     \* the id each servant gives next
    allocated,      \* the watchers that exist
    id,             \* the id field of each watcher
    active,         \* the watchers libev looks after
    repeat,         \* the timers that have been given a period
    loop,           \* the event loop's thread
    queue,          \* the events in the queue of each component
    due             \* history: the watchers that are to be heard of, see Awaited

servant == <<p_watchers, watcher_id, allocated, repeat>>
vars == <<servant, id, active, loop, queue, due>>

Armed(w) == p_watchers[w] # NotArmed

-----------------------------------------------------------------------------
Init ==
    /\ p_watchers = [w \in Watchers |-> NotArmed]
    /\ watcher_id = [s \in Servants |-> 0]
    /\ allocated = {}
    /\ id = [w \in Watchers |-> 0]
    /\ active = {} /\ repeat = {} /\ due = {}
    /\ loop = Waiting
    /\ queue = [s \in Servants |-> <<>>]

\* An address that was freed may be used again.
WatcherInit(w) ==
    /\ w \notin allocated
    /\ allocated' = allocated \cup {w}
    /\ id' = [id EXCEPT ![w] = 0]
    /\ repeat' = repeat \ {w}
    /\ UNCHANGED <<p_watchers, watcher_id, active, loop, queue, due>>

\* A new id in the map and in the watcher.
Arm(w) ==
    /\ watcher_id[Owner[w]] < MaxId
    /\ p_watchers' = [p_watchers EXCEPT ![w] = watcher_id[Owner[w]]]
    /\ watcher_id' = [watcher_id EXCEPT ![Owner[w]] = @ + 1]
    /\ id' = [id EXCEPT ![w] = watcher_id[Owner[w]]]

\* Nothing happens when the watcher is armed already, as a timer that does not repeat
\* still is when it has been heard of.
WatcherStart(w) ==
    /\ w \in allocated
    /\ ~Armed(w)
    /\ Arm(w)
    /\ active' = active \cup {w}
    /\ repeat' = IF Kind[w] = "Repeat" THEN repeat \cup {w} ELSE repeat
    /\ due' = due \cup {w}
    /\ UNCHANGED <<allocated, loop, queue>>

\* ev_timer_again: a timer without a period, because it does not repeat or was never
\* started, is stopped instead.
Again(w) ==
    IF w \in repeat THEN active' = active \cup {w} /\ due' = due \cup {w}
    ELSE active' = active \ {w} /\ due' = due \ {w}

\* Mutant: the id the watcher was started with is kept.
RestartWithOldId(w) ==
    /\ w \in allocated
    /\ Kind[w] \in {"Repeat", "OneShot"}
    /\ watcher_id[Owner[w]] < MaxId
    /\ p_watchers' = [p_watchers EXCEPT ![w] = watcher_id[Owner[w]]]
    /\ watcher_id' = [watcher_id EXCEPT ![Owner[w]] = @ + 1]
    /\ Again(w)
    /\ UNCHANGED <<allocated, repeat, id, loop, queue>>

WatcherRestart(w) ==
    /\ w \in allocated
    /\ Kind[w] \in {"Repeat", "OneShot"}
    /\ Arm(w)
    /\ Again(w)
    /\ UNCHANGED <<allocated, repeat, loop, queue>>

WatcherStop(w) ==
    /\ Armed(w)
    /\ p_watchers' = [p_watchers EXCEPT ![w] = NotArmed]
    /\ active' = active \ {w} /\ due' = due \ {w}
    /\ UNCHANGED <<watcher_id, allocated, repeat, id, loop, queue>>

\* Stops libev's side even of a watcher that is not armed.
WatcherDestroy(w) ==
    /\ w \in allocated
    /\ p_watchers' = [p_watchers EXCEPT ![w] = NotArmed]
    /\ active' = active \ {w} /\ due' = due \ {w}
    /\ allocated' = allocated \ {w}
    /\ UNCHANGED <<watcher_id, repeat, id, loop, queue>>

\* io_ready or timer_ready runs: what the servant then starts or stops are
\* further steps.
Notifies(s) ==
    /\ queue[s] # <<>>
    /\ p_watchers[Head(queue[s]).watcher] = Head(queue[s]).id

\* An io watcher with only_once is armed no more when its event is delivered.  A timer
\* that does not repeat stays armed, though libev has stopped it.
Event(s) ==
    /\ queue[s] # <<>>
    /\ LET w == Head(queue[s]).watcher
       IN  /\ p_watchers' = IF Notifies(s) /\ Kind[w] = "Once"
                            THEN [p_watchers EXCEPT ![w] = NotArmed] ELSE p_watchers
           /\ due' = IF Notifies(s) /\ Kind[w] \in {"Once", "OneShot"}
                     THEN due \ {w} ELSE due
    /\ queue' = [queue EXCEPT ![s] = Tail(@)]
    /\ UNCHANGED <<watcher_id, allocated, repeat, id, active, loop>>

\* libev calls back.  It stops a timer that does not repeat by itself.
Fire(w) ==
    /\ loop = Waiting
    /\ w \in active
    /\ loop' = [at |-> "called", watcher |-> w]
    /\ active' = IF Kind[w] = "OneShot" THEN active \ {w} ELSE active
    /\ UNCHANGED <<servant, id, queue, due>>

\* Without the mutex: the servant may have stopped and started it meanwhile.
StopOnce ==
    /\ loop.at = "called"
    /\ active' = IF Kind[loop.watcher] = "Once" THEN active \ {loop.watcher} ELSE active
    /\ loop' = [loop EXCEPT !.at = "stopped"]
    /\ UNCHANGED <<servant, id, queue, due>>

\* Whatever the memory holds, when the watcher was freed meanwhile.
ReadId ==
    /\ loop.at = "stopped"
    /\ \E i \in Ids :
         /\ loop.watcher \in allocated => i = id[loop.watcher]
         /\ loop' = [at |-> "send", watcher |-> loop.watcher, id |-> i]
    /\ UNCHANGED <<servant, id, active, queue, due>>

\* Mutant: an event that finds the queue full is dropped.
TrySendEvent ==
    /\ loop.at = "send"
    /\ LET s == Owner[loop.watcher]
       IN  queue' = IF Len(queue[s]) < Capacity
                    THEN [queue EXCEPT ![s] =
                            Append(@, [watcher |-> loop.watcher, id |-> loop.id])]
                    ELSE queue
    /\ loop' = Waiting
    /\ UNCHANGED <<servant, id, active, due>>

\* The loop waits for room in the queue, and all the other watchers with it.
SendEvent ==
    /\ loop.at = "send"
    /\ LET s == Owner[loop.watcher]
       IN  /\ Len(queue[s]) < Capacity
           /\ queue' = [queue EXCEPT ![s] =
                 Append(@, [watcher |-> loop.watcher, id |-> loop.id])]
    /\ loop' = Waiting
    /\ UNCHANGED <<servant, id, active, due>>

-----------------------------------------------------------------------------
Serve(w) ==
    \/ WatcherInit(w)
    \/ WatcherStart(w)
    \/ WatcherRestart(w)
    \/ WatcherStop(w)
    \/ WatcherDestroy(w)

LoopStep == StopOnce \/ ReadId \/ SendEvent

Next ==
    \/ \E w \in Watchers : Serve(w)
    \/ \E s \in Servants : Event(s)
    \/ \E w \in Watchers : Fire(w)
    \/ LoopStep

Spec == Init /\ [][Next]_vars

\* The threads run, and what a watcher waits for happens again and again.  Strong
\* for Fire: the loop may be at another watcher whenever this one is looked at.
FairSpec ==
    /\ Spec
    /\ WF_vars(LoopStep)
    /\ \A s \in Servants : WF_vars(Event(s))
    /\ \A w \in Watchers : SF_vars(Fire(w))

-----------------------------------------------------------------------------
TypeOK ==
    /\ p_watchers \in [Watchers -> Ids \cup {NotArmed}]
    /\ watcher_id \in [Servants -> Ids]
    /\ allocated \in SUBSET Watchers
    /\ id \in [Watchers -> Ids]
    /\ active \in SUBSET Watchers
    /\ repeat \in SUBSET Watchers
    /\ due \in SUBSET Watchers
    /\ loop \in Loops
    /\ queue \in [Servants -> Seq(Events)]

\* The event loop is about to read i from w, or has read it and not sent it yet.
InCallback(w, i) ==
    /\ loop # Waiting
    /\ loop.watcher = w
    /\ i = (IF loop.at = "send" THEN loop.id ELSE id[w])

\* An event of w under the id i waits to be served.
Queued(w, i) ==
    \E k \in 1 .. Len(queue[Owner[w]]) :
       queue[Owner[w]][k] = [watcher |-> w, id |-> i]

\* The servant is to hear of w: of an io watcher as long as it is armed, of a timer
\* from its start until it stops it, or restarts it while it has no period.  A timer
\* that does not repeat is no longer awaited when it has been heard of: it stays armed,
\* and a start is ignored until it has been stopped.
Awaited(w) == Armed(w) /\ (Kind[w] \in {"Repeat", "OneShot"} => w \in due)

\* As long as a watcher is awaited, the event loop watches it under the id the servant
\* knows, or an event with that very id is on its way: whatever the order in which the
\* loop stops a watcher, reads its id and sends the event, and the servant stops,
\* destroys and starts it (io_watcher_cback, srv_event_io, srv_event_timer).
NoLostEvent ==
    \A w \in Watchers :
       Awaited(w) =>
          \/ w \in active /\ id[w] = p_watchers[w]
          \/ InCallback(w, p_watchers[w])
          \/ Queued(w, p_watchers[w])

\* An io watcher with only_once does not stay armed for ever, nor is a timer that does
\* not repeat awaited for ever: the servant hears of an event, or stops it, although the
\* loop serves all the components in turn and waits for room in their queues
\* (srv_event_io, srv_event_timer, tiz_comp_event_io).
ArmedAreNotified ==
    \A w \in Watchers :
       Kind[w] \in {"Once", "OneShot"} => (Awaited(w) ~> ~Awaited(w))

=============================================================================
