# Tizonia: a TLA+ verification project

Tizonia is an implementation of OpenMAX IL 1.2: components (decoders, sources,
sinks) run each on a thread of its own, clients command them through an
asynchronous API, buffers travel between client and component or through tunnels
from component to component, and a player builds graphs of them. This directory
holds TLA+ models of the parts on which everything else rests, the model-checking
runs on them, and proofs.

Contents: [the system](#the-system) · [what is modelled](#what-is-modelled) ·
[the runs](#the-runs) · [bounds](#bounds) · [fairness](#fairness) ·
[findings](#findings) · [proofs](#proofs) · [not modelled](#not-modelled) ·
[plan](#plan).

## The system

### Components, their state and their operations

| part | files | state | operations | what makes it correct |
|---|---|---|---|---|
| message queue | `libtizplatform/src/tizqueue.c` | ring of nodes, `p_first`, `p_last`, `length`, a mutex, two conditions | send, receive, length | FIFO, blocks at its limits, loses no wake-up |
| priority queue | `libtizplatform/src/tizpqueue.c` | one linked list, a pointer to the first item of each priority | send, receive, remove in three ways | one FIFO per priority, pointers that point where they should |
| event loop | `libtizplatform/src/tizev.c` | libev's watchers, one thread for all components | start, stop, restart, callbacks into schedulers | an event somebody counts on arrives, an old one is recognised |
| scheduler | `libtizonia/src/tizscheduler.c` | its thread, message queue, `mutex`, `sem`, `error`, lifecycle state | one message per API function; creation, deletion; passes over the servants | an API call that blocks returns after its own message was processed |
| servant base class | `tizservant.c` | a priority queue of messages, a map of armed watchers | enqueue, tick, remove from queue, watchers | one message per tick, by priority |
| state machine (FSM) | `tizfsm.c`, `tizstate.c`, one file per state | current state, command in progress, cancelling command, completions counted | validate and forward commands, count the completions of both other servants, report to the client | a state is entered when both servants are done; every command is reported |
| kernel | `tizkernel.c` and its `.inl` files | ports, ingress and egress lists, completion counter, `eos_` | port disable, enable, flush; its part of transitions; buffer registration and exchange; callbacks | its counts agree with where the headers are; a command ends when the last header is back |
| port | `tizport.c` | flags, registered headers, claimed count, tunnel peer | register and free headers, populate and depopulate tunnels, parameters | flags agree with the headers, both ends of a tunnel with each other |
| processor | `tizprc.c`, `tizfilterprc.c`, `plugins/` | headers it holds | its part of transitions, flush, claim and release | gives every header back when told to; the end of a stream goes through |
| IL core | `libtizcore/src/tizcore.c` | registry of components | init, get handle, free handle | handles and libraries are released once |
| resource manager | `rm/` | units, owners, waiters, preemptions, in memory and in SQLite | acquire, release, wait, cancel, preempt, over D-Bus | units are never oversold nor forgotten; a waiter is served |
| player | `tizonia/src` | graph manager, graphs of components, playlist | load, execute, skip, pause, stop | drives a graph through legal IL states; a file that can be played is played |

### Interactions

A client's API function becomes a message in the component's queue. A caller of
a blocking API (`tiz_sched_blocking_apis_tbl`) holds the scheduler's mutex until
it has read the result; `OMX_SendCommand`, `OMX_SetConfig` and the exchange of
buffers do not wait. The component's thread dispatches one message, which runs the
handler of the FSM or the kernel directly, and then lets the three servants tick in
turn until none has a message, looking for another API message after each pass. The
FSM forwards an accepted command to kernel and processor through *their* queues; each
calls back `tiz_fsm_complete_transition` or `tiz_fsm_complete_command`. The
processor claims headers from the kernel by a call, and releases them by a message to
the kernel's queue. Events and buffers go to the client by callbacks on the
component's thread, from which the client may call the API again. A tunnelled
port calls the API of the component at the other end from its own thread. The
event loop, one thread for the process, turns events into messages. The
kernels ask the resource manager, another process, for units by D-Bus calls, and hear
of waits and preemptions by signals. The player's manager and its graph have each
a thread and a queue, and share a playlist without a lock.

### What is hard here

Three servants with a queue each, two of them with priorities, make one logical
step (a transition) of many messages; commands can be cancelled half way;
a header is in one of six places (client, its message, ingress list, processor,
callback message, egress list), and a flush, a pause or a stop moves it between them;
one counter serves all port commands; one semaphore and one result variable
serve all callers; callbacks re-enter; tunnels make threads wait for each other;
events of watchers are in flight when these are stopped; clients of the resource
manager leave, and the daemon restarts with half its tables. `PROJECT.json` lists each
hazard at its line with the properties that cover it, or the reason why none does.

## What is modelled

```
BoundedFifo   <--implements--  TizQueue       TizQueueProof
PriorityFifo  <--implements--  TizPqueue      TizPqueueProof
SyncCalls     <--implements--  TizScheduler   TizSchedulerProof
TizPort  <-  TizFsm  <-  TizKernel  <-  TizComponent   TizComponentProof
                                    <-  TizBuffers     TizBuffersProof
TizServant                                    TizServantProof
TizTunnel
TizRm                                         TizRmProof
TizPlaylist  <-  TizGraph  <-  TizPlayer
Lists  <-  TizPqueue, PriorityFifo, TizRm, TizKernel
Lists  <-  DataLemmas  <-  TizPqueueProof, TizRmProof, TizComponentProof, TizBuffersProof
```

An arrow to the left is EXTENDS. **Lists** has what is asked of lists (`Only`, `Count`).
`Only` is a recursive function where the other modules use `SelectSeq`, which is a
RECURSIVE operator and out of the prover's reach.

**TizQueue** is `tizqueue.c`. The nodes are numbered `0 .. Nodes-1` in link
order, `slot` holds `p_data`, NULL marks a free node. Everything between a lock
and its unlock, or between two sleeps, is one action (`SendEnter`, `SendRetry`,
`Receive`); the broadcast after the unlock is another. A failed assertion sets
`aborted`. The number of nodes is a constant apart from the capacity because
the code chooses the first at compile time and takes the second as an argument.
**BoundedFifo** is the promise of `tizqueue.h`.

**TizPqueue** is `tizpqueue.c`: `item` is the memory, a function from addresses to
items with `p_prev` and `p_next`; the operations rewrite the links as the
code does. One thread uses a queue, so an operation is one step. **PriorityFifo** is
the promise: a sequence per priority.

**TizScheduler** is the concurrent half of `tizscheduler.c`. Each thread (client
or component) has a record `call`: `start` (the creator waits for the new
thread), `lock`, `send`, `wait`, `answer` (it reads `error`), `join`. Each
component has the point `loop` of `il_sched_thread_func`. API functions are the
classes Init, DeInit, Call (blocking) and `Posted` (not blocking). `Reenter` is an
API call from within a callback, which `send_msg` dispatches on the spot. `Peers`
lets a component's thread make a blocking call on another, as the supplier of
a tunnel does; one per phase of the loop. **SyncCalls** is what a caller relies on:
idle, called, served, idle.

**TizPort, TizFsm, TizKernel** hold the functions of the servants as operators
from a record `s`, the component, to the record they leave, because in the
code they call each other directly (a `UseBuffer` may complete a port, which
completes a command, which reports to the client, in one call). **TizComponent**
has the actions: `SendCommand`, `UseBuffer`, `FreeHeader` (API calls, dispatched
between two passes), `ProcessorEvent` (the plugin claims or releases a header),
and one tick per servant. The servants' queues are sequences: `completions` and
`commands` of the FSM, `krn` and `callbacks` of the kernel are two priorities of
one queue each. A port's headers are two counts: registered and claimed. An
assertion of the code that fails is recorded in `failed` and ends the behaviour.
`events` holds what the last step reported to the client.

**TizBuffers** follows each header on its way, in order, through the Opus decoder
(`opusdprc.c`): sent by the client (`efb`), in the kernel's `p_ingress_`, held by the
processor, released to the kernel (`callbacks`), in `p_egress_`, back with the client.
It uses the FSM and the completions of TizFsm and TizKernel and replaces the kernel's
handlers by those that move headers: `FlushHeaders` (dispatch_port_flush),
`StopHeaders` (krn_stop_and_return), `Propagate`, `CallbackOfKernel` (dispatch_cb),
`EmptyOrFill` (dispatch_efb). A header is what it carries: data, the end of
the stream, nothing. The processor has the two packets that open a stream, its
loop over pairs of headers, and the way it hands the end of the stream on. The FSM,
the kernel and the processor serve one message each per pass, by priority.

**TizServant** has the I/O and timer watchers of the servants with the map of
armed ones and the ids that are to tell old events from new ones, the periods of timers
(`repeat`), the loop's thread in its steps (stop, read the id, send), and the queues
between. The history variable `due` has the timers that are still to be heard of.

**TizTunnel** has several components at the level of their FSMs and kernels: a
message that a component dispatches is one step, with all the work that blocks
on nobody; population and return of buffers are blocking calls on the peer, in
steps of their own; `TunneledPortStatus` messages, the states that wait for
them, the lists of headers, and a client that may give up a load.

**TizRm** has the daemon (`acquire`, `release`, `wait`, `cancel_wait`,
`preemption_conf`, `relinquish_all`, restart), its tables, the signals on their way,
and the clients behind their proxies.

**TizPlaylist** has the playlist and its sub lists as operators. **TizGraph** has the
state machine of a graph, row by row of `tizgraphfsm.hpp` (rows of one state and
event are tried from the last, as Boost MSM does), with the operations it
triggers. **TizPlayer** adds the manager, the user, and components that take one
command at a time and refuse in silence.

The code's own slips are in the models as they are: the loop counter used for the
port of a single-port command (`FirstPort`, the index `i` of `FlushHeaders`), the list
clearing that stops after the first port (`ClearLists`), `canceled` never reset,
BeingEnabled not cleared, the duplicate flush event, the left-over completion.

## The runs

| run | asks | answer |
|---|---|---|
| `queue` | two senders, two receivers, ring with a node to spare | ring consistent, FIFO implemented, no lost wake-up, sleepers woken |
| `queue_deployed` | the capacity and node count schedulers really use | violated: the 30th send aborts |
| `pqueue` | sends, receives, removals from anywhere | pointers sound, priority FIFO implemented |
| `scheduler` | a client and a component's thread create, call, post to and delete components | calls are synchronous, the semaphore serves the right waiter, handlers find their state, calls return |
| `servant` | watchers stopped, restarted and destroyed while their events are on the way | no event a servant counts on is lost; a watcher that fires once does not stay armed for ever |
| `patient` | all commands, one cancelled load, the component at rest before each command | commands end |
| `impatient` | commands while servants are still busy | no assertion fails; headers, counts, states agree; both servants finish each transition; commands end |
| `buffers` | headers one by one through pause, resume, stop, restart, flush | none lost, doubled or left behind; the end of the stream is told once everything before it has left, and is told; commands end |
| `tunnel` | a demuxer and two decoders, a supplier on either side, one load given up | headers once, both ends agree, transitions begin once, every goal is reached |
| `rm` | four clients, two ranks of priority, two units, one fault | never oversold, no unit forgotten, nobody robbed, first come first served, waiters served |
| `rm_gone` | does a client that left own nothing? | violated, see findings |
| `player` | two playlists, unplayable files, all the user's commands, an error | assertions hold, somebody answers, a skip finds the next file, it moves on |

Some properties and what they rest on:

* `HeadersAccounted` (TizComponent) is the core of the component: the kernel's
  claimed count, on which every flush, disable and stop waits, equals the headers the
  processor holds plus those in callback messages. `CountMatchesPorts` ties the one
  completion counter to the per-port flags, `BuffersMatchState` states to buffers.
* `HeadersKept` (TizBuffers) says the same of every place a header can be in, with the
  lists; `IdleHasNone` that a stop has brought them all back, the ones included
  that were in a queue or held by the processor; `FlushCollects` that a flush of the first
  port or of all does so at once, but for the one header that the processor works on.
  The comment at `tizkernel_dispatch.inl:373` says it of every port, which does not hold of
  the second alone (Known deviations).
* `EosComesLast` and `EosIsTold` are the two halves of "the end of a stream is
  announced exactly when it is reached": safety about everything still in the lists,
  and liveness through any number of pauses and flushes. `InputComesBack` is what
  the resume has to do (`propagate_ingress`) for headers that came in during Pause.
* `CommandsEnd` (`BufferCommandsEnd` in TizBuffers) says that no command hangs; its only exception is the processor
  that claims new headers of a port that is being flushed, which
  `krn_claim_buffer` does not prevent.
* `NoLostEvent` (TizServant): as long as a watcher is `Awaited`, the loop watches it under
  the id the servant knows, or an event with that id is on its way. Awaited is an I/O
  watcher while it is armed, and a timer from its start until its servant stops it or
  restarts it while it has no period; one that does not repeat only until it has been
  heard of. Of a timer armed otherwise the property says nothing: it fails for it, see
  [known deviations](#known-deviations). `ArmedAreNotified` is the liveness side.
* `FirstComeFirstServed` (TizRm) is about grants by wait_complete; a client that
  preempts goes by rank.

Restrictions of the passing runs, each because the code fails beyond it:

* `patient` accepts one cancellation of a transition to Idle, by the command
  Loaded. A second one finds `cancellation_cmd_` still set and asserts
  (`tizfsm.c:475`). It waits for rest: with a backlog a cancelled load, or Pause, makes
  the processor look up a transition from a state that has changed meanwhile.
* `impatient` has no Pause and cancels nothing. It bounds the processor's backlog
  (`MaxBacklog`) because its messages are served one per pass.
* `buffers`: the client sends a command when the one before has ended and neither the
  kernel nor the processor has a command, nor the kernel the message without a header,
  left to serve; it flushes the input port or all ports, after the two opening packets;
  it does not go to Pause from Idle, passes no header once it has commanded Idle, and
  sends one end of stream per start, in an empty header. What happens otherwise is
  under [known deviations](#known-deviations).
* `tunnel`: the client waits for all components to reach a state before it commands
  the next one, and gives up from a load only.
* `player`: the user lets the player come to rest after a stop (`Orderly`); the last
  file of a list that does not loop can be played.
* `servant`: the properties are about awaited watchers, not about every armed one. The
  model leaves nothing out: a servant starts and restarts any timer at any time.
* Clients are legal: they supply buffers to a port that waits for them, free only
  headers they have back, and do not use a handle they are closing.

Deadlock is checked except where the system may stop: `servant` (nothing armed), `rm`
(nobody wants a unit), `tunnel` (the goal is reached), `player` (it has quit).

## Bounds

* Queue: 2 + 2 threads is enough for two sleepers on one condition and for a
  sleeper on each; 4 nodes wrap the ring; 2 items show reordering. The deployed
  run has the real 30 and 29.
* Priority queue: three priorities, five items, so that one priority can have a
  first, a middle and a last item between two others. Addresses are symmetric.
* Component: two ports (single-port commands differ from OMX_ALL, and from each
  other by the index), one supplier by AllocateBuffer; two headers per port, so that
  a port can be half populated and half returned.
* Buffers: two headers per port, one of them with the processor while the other is in
  a list; `MaxReady` keeps the client from sending a command while the
  processor has more than four BuffersReady messages to serve.
* Scheduler: one client, a component whose thread is itself a caller of the other, a
  queue of one message: the client is behind the peer's call or before it, an event
  fills the queue that a call needs.
* Servants: two components share the loop; a watcher of each kind (`io`, a timer that
  does not repeat, one that does); ids up to `MaxId`; queues of one event, so that
  the loop blocks.
* Tunnels: a component in the middle with a tunnel supplied from either side; one
  buffer per tunnel; one load given up (`MaxAborts`).
* Resource manager: two units, two clients of each rank, a line of two, two signals
  per client, one fault (`MaxFaults`: a cancelled wait, a departure, a restart).
* Player: two formats, or one format in a list that loops; an unplayable file in
  the middle; one error in the shorter list (`MaxErrors`); the user acts, and a file
  ends, when no message waits in the manager's queue or the graph's (`MaxBacklog` = 0).

## Fairness

* Queue: a thread past its wake-up or its unlock is run by the operating system;
  receivers loop for ever. No sender has to send.
* Scheduler: threads run; a mutex and a full queue starve nobody (strong fairness
  of `Lock` and `Send`; POSIX does not promise it, the schedulers in use
  provide it). Nobody has to begin a call.
* Component: the thread goes on with its passes. The client answers a command of
  its own by supplying or freeing buffers; this is strong fairness because the
  calls compete with passes for the thread (the queue is served between
  passes). The client need not command and the processor need not claim or
  release of its own accord.
* Buffers: the three servants' passes go on, and the client goes on giving
  output headers back whenever it has one; strong fairness, since calls and passes
  compete. It need not send input or commands. The formula writes the enabling
  conditions out, `[]<>~enabled \/ []<><<A>>_vars`, which TLC evaluates faster than
  ENABLED; the player's fairness is written in the same way.
* Servants: the loop's thread and the components' threads run (weak); an event that
  can occur again and again on an armed watcher does occur (strong `Fire`).
* Tunnels: every thread runs; a processor that has been stopped releases what it
  holds; the client goes on commanding its goal.
* Resource manager: signals are delivered, owners release in the end.
* Player: the manager's, the graphs' and the components' threads run. The user need
  do nothing.

## Findings

1. `queue_deployed`: the ring has one node fewer than the schedulers' capacity
   (`tizqueue.c` links 29, `tizscheduler.c:2054` asks for 30), so a burst of
   messages that are not blocking aborts the process instead of blocking.
2. `rm_gone`: `relinquish_all` does not erase what `std::remove_if` leaves behind; a
   client that unregisters stays in line and the next release gives it a unit that
   nobody can release.

### Known deviations

Met while modelling; the models have these steps as the code has them, and the
passing runs leave them out or name them as exceptions.

Scheduler and state machine:
* The result of a blocking call may be that of another message (`tizscheduler.c:578`).
* `canceled_substate_id_` is never reset: after one cancellation every transition is
  reported as cancelled (`tizfsm.c:982`). A MarkBuffer accepted while another
  command is in progress sets `cancellation_cmd_` (`tizfsm.c:475`), which nothing clears.
* A PortDisable that cancels a PortEnable races with its end; BeingEnabled
  survives a disable, and a later UseBuffer completes a command that is not there.
* `Executing` to `Executing` leaves the processor's completion in the count, so that
  a later transition out of Executing may end when one servant is done.

Kernel:
* The last port of a flush is reported to the client twice.
* A flush of the second port alone hands the loop's index, 0 for a command on one port, to
  `tiz_srv_remove_from_queue` (`tizkernel_dispatch.inl:378`): it takes the first port's
  messages out of the queue and leaves its own, whose headers do not come back with the
  flush. Without the restriction to the first port and to all, `FlushCollects` fails for
  a client that sends Idle, Executing and a flush of the output port.
* The message without a header that leaving Pause enqueues fails
  `assert (NULL != p_hdr)` when a stop or a flush comes first, and is enqueued again
  and again while the component is paused.
* Disable of one port uses the loop's index as the flush does: that of the second port
  removes the first port's messages from the queue (`tizkernel_dispatch.inl:81`).
* `clear_hdr_lsts` clears the first port only (`tizkernel_helpers.inl:301`).
* In Pause, a flush of one port lets headers of the other leave as well, because
  `dispatch_cb` flushes all egress lists (`tizkernel_dispatch.inl:637`; the comment at
  569 says that buffers are not allowed to leave in Pause).
* A flush or a stop does not clear output headers, though the comment at
  `tizkernel_dispatch.inl:433` speaks of clearing: a header that the client returned
  with a stale flag, and that nobody has claimed, announces an end that is none.
* The mask `~(1 << OMX_BUFFERFLAG_EOS)` shifts a value that is a mask already, so that
  the flag stays set on input headers.
* `all_buffers_returned` resets `eos_` whenever no header is claimed, also in the
  middle of a stream; an EmptyThisBuffer in ExecutingToIdle is refused without the
  sender's hearing of it.
* A processor without `port_flush` (vorbis, aac, pcm) that holds a header lets a flush
  end only when it has processed that header, in Pause never.
* The Opus decoder does not handle a flush or the end of a stream within its two opening
  packets, and does not begin a new stream on Idle to Pause to Executing.

Tunnels and watchers:
* Two components that each supply a tunnel to the other wait for ever; a load that
  is given up can leave a supplier retrying for ever.
* The loop reads a watcher that its servant may have freed (`tizev.c`).
* A timer that does not repeat stays in the map when its event has been delivered
  (`srv_event_timer`, `tizservant.c:954`, erases nothing, unlike `srv_event_io` at 931),
  so that a start is ignored until it has been stopped (`:799`). A restart (`:854`) ends in
  `ev_timer_again`, which stops a timer without a period, be it delivered or still
  running: the timer is armed, nobody watches it and the caller is told of success.
  The same holds of a timer that is restarted before its first start. The HTTP source
  starts curl's timer without a period and restarts it when it leaves Pause
  (`httpsrctrans.c:409`, `:422`, `:1073`), where it then believes to await an event. Were
  `Awaited` no more than `Armed`, TLC would find `NoLostEvent` violated by start, event,
  delivery, and by start, restart.
* `tiz_event_timer_restart` does not wake the loop (`tizev.c:510`, unlike start at 497): the
  timer counts only from the loop's next round. The model has no time and does not see it.

Player:
* The manager asserts when a skip has gone past the end of the list
  (`tizgraphmgrops.cpp:269`); commands that arrive in the middle of a transition are
  deferred and some are lost; an unplayable last file of a list that does not loop
  fails an assertion; commands sent too early after a resume from Idle are
  refused in silence.

## Proofs

TLAPS checks these for every value of the constants that meets the modules'
assumptions.

`TizQueueProof`: `TypeCorrect`, `NoWakeupIsLost` hold for any ring.
`RingIsConsistent`, `SendBlocks` and `QueueIsFifo` assume `SpareNode` (fewer items
than nodes), the condition finding 1 violates. The inductive invariant `RingInv` adds
to the ring's shape that a sender asleep still has its item, without which a
retry could enqueue nothing; the refinement then shows that storing at `p_last`
appends to the abstract sequence and clearing at `p_first` takes its head.

`TizSchedulerProof`: `SchedulerTypeCorrect`, `TokenBelongsToHolder` and
`CallsAreSynchronous`, for any number of clients, components and tunnels. The
invariant `IInv` follows the token: of a component, at most one message wants an
answer, it is in exactly one place (queue, hand, processed and about to be
signalled, semaphore), and its sender is the holder of the mutex and waits;
the call that creates or deletes a component is its only one. None of the
checked invariants is inductive alone: `TokenIsOwed` does not say where the message
was before the semaphore was posted. Frame lemmas (`ComponentFrame`,
`CallFrame`) dispose of components and calls that a step does not touch, one lemma
per action shows the rest. The refinement maps Send to Call, Dispatch to Serve,
Answer to Return, everything else to a stutter.

In the same module `HandlersFindState`: that no assertion of the scheduler's state in a
handler fails. It needs to know who can still send a message: `LifeInv` follows a
component from `Young` (its creator's alone, waiting only while its one message is under
way) to `Grown` (the first message is behind it, and behind the last there is none) to
`Gone` (only the deleter is left). That the deleter is alone rests on the assumption
under Restrictions that nobody uses a handle being closed.

`TizServantProof`: `TypeCorrect` and `NothingIsLost`, for any number of servants and
watchers and any bound on ids. `NoLostEvent` is not inductive: the
invariant `Watched` adds that an armed watcher exists and holds the id its servant knows,
and that only one that fires once may be awaited and not watched, while the loop's
callback is between stopping it and sending its event, or that event is queued. What is
proved is about awaited watchers, as defined under [The runs](#the-runs).

`DataLemmas` has what the next four need of lists and sums: what `Only` keeps and in which
order (`OnlyPicks`, `OnlyConcat`, `OnlyMapped`), a list taken apart around an element
(`Split`, `SplicedRemoved`), how often an element is in a list after an append, a removal or
a filter, and the sum of a function of which one or two values change. The induction
theorems of the library that take a predicate are of no use to the provers here;
`NatSets`, `SubsetSets` and `ListSets` state induction with a set for the predicate, and
rest on well-founded induction (`WFMin`). A recursive function is shown to exist by
building its values up to each length (`KeptExists`, `LeftExists`).

`TizRmProof`, for any finite number of clients, any number of units, faults and ranks, and
queues of any length: `UnitsNotForgotten` (a row in the table of owners is a unit that the
client has, or that a signal on its way tells it of), `NobodyEverRobbed` (a client
stops owning because it released, confirmed, left, or the daemon restarted),
`LineIsFair` (of two that wait, the second is not served before the first), from the
invariant `Inv`: the types, `NoForgottenUnit`, and `AskedHeld` (who is asked
to give up a unit has one, so that a confirmation never gives up more than there
is). `UnitsNeverOversold` adds up over the clients, and assumes `OneResource`. With
two resources it is false, and TLC finds the counterexample at once: a preemption is looked
up by rank alone, so a confirmation for one resource may complete a preemption for
another; the daemon reserves nothing then (none of that one is free) and tells the
preemptor that it has its unit all the same. The enumeration in
`tizrmtypes.h:59` has three resources, but every component asks through
`tizkernel_helpers.inl:1127` and `:1160`, which only name `TIZ_RM_RESOURCE_DUMMY`: the
assumption is the code's, and the run has one resource too.

`TizPqueueProof`: `ListStaysSound` and `QueueIsPriorityFifo`, for any messages, number of
priorities and memory. `ListIsSound` walks the list by `p_next`, which says nothing of a
step in the middle of it. The invariant `Sound(q, at)` names the list instead: `at` holds
the allocated addresses once each, the two ends and every pair of links follow it, priorities
do not fall along it, and each entry of `pp_store` is its first place of that priority.
`UnlinkSound`: taking out the n-th item leaves a queue that is sound for `at` without its
n-th element; `NextUpIsTurn`: the item that `pp_store` leads a sender to is
the first of a higher priority, so hooking in before it (`HookSound`) puts the new
item behind all of its own; `LeftSound` repeats the first along the removal
function's choice. For the refinement `View(q, at, p)` is the messages of the elements of
`at` with priority p: they split where `at` splits, so a send appends to one of them, a
receive takes its head, a removal takes its first match, and the others stay.

`TizComponentProof`: `ComponentWellFormed` and `ClaimsAreRight`, for any set of ports, any
number of buffers each, and any client, one that pauses or cancels a transition half way
too. What `HeadersAccounted` says of a port is disturbed by claims and releases of the
processor, by the callbacks that arrive, and by the kernel's draining of callbacks when a
port is flushed, stopped or disabled: it is the draining that must take off the count exactly
the callbacks that it removes. The invariant `Inv` is the types and that sentence; the
work is the frame. Operators of the state machine are `Quiet` (they leave ports, callbacks and
what the processor holds alone), those of the kernel and the processor keep `Sound`, each has a
lemma, and they are put together as the code's calls are. A loop over the ports
is a recursive function over `PortList` (`LoopExists`, `LoopIsSound`): it keeps what each
`Turn` keeps, whatever the order of the ports. It rests on `PortAssumption` and on
`KernelAssumption` (the callback without a header that leaving Pause enqueues is that of no
port).

In the same module `StraightClientFailsNothing`, `StraightClientBuffersMatch`,
`StraightClientCountMatches` and `StraightClientHearsBoth`: `NoAssertFails`,
`BuffersMatchState`, `CountMatchesPorts` and `BothServantsFinish`. They assume `Straight`:
the client gives a command only when none is in progress and never the command to
pause, and there is a port. It is the client of the run `impatient` without its bounds:
the processor may lag behind by any number of commands, and the next command may come while
its messages of the one before are still queued. Without the restriction two of the four
are false, and TLC finds the counterexamples at once: with Pause, the repeated commands
of Executing and of Pause are taken for reports of the transition after
(`BothServantsFinish`, then `NoAssertFails`); a transition cancelled while servants are
busy ends in an assertion (`NoAssertFails`). With no port the kernel would wait for
the first port command for ever. None of the four is inductive. The invariant is
`Orderly`:

* `Regular`: nothing has failed, no state but the current one and Executing has counted a
  report, and each port is `Stocked` as the state and its own flags want it: a port being
  enabled is short of buffers, one being disabled has some left, in Loaded there is none;
* `Phase`, where the command in progress is: `AtRest`, `Accepted` (in the FSM's queue),
  `Porting` (a port command in the kernel's queue, or `Working`: the completion count is
  the number of ports flagged, plus those the kernel's loop has still to look at),
  `Going`. In `Going` the reports are tied to what has been done (`Tallied`): the
  processor's is counted or queued exactly when its order has left its queue, the
  kernel's when it has none left and the buffers are as the state wants them (`Satisfied`).
  So the second report can only come from the other servant, and when it
  comes the ports are as the main state needs them;
* a command for the kernel is only there at the kernel's turn: nobody else runs between
  the FSM's dispatch and the kernel's.

Executing is the exception that makes this long. Entering it repeats the command to the
servants; the kernel ignores it, the processor reports once more, and that report may come
before, in or after the next transition. `Calm` and `Underway` say how many of those orders
there can be (one) and where; `StaleCompletion` shows that in Executing its reports are
counted and forgotten (two of them only lead to the state the machine is in), and the
transitional states ignore a report for another state than their destination. Per operator there is a lemma of the form "a state in
this phase goes to that one"; what the processor claims, releases or drains only `Shifts`
headers and leaves the phase alone (`ShiftIsPhase`).

`TizBuffersProof`: `NoHeaderLost` (`HeadersKept`), `IdleGaveAllBack` (`IdleHasNone`) and
`EosComesAtTheEnd` (`EosComesLast`) and `FlushGathersAll` (`FlushCollects`), for any number
of buffers and any client within the Restrictions, one that flushes the second port alone
included. The first two are not inductive. The
lists of a port may only be emptied when nothing is in them: `clear_hdr_lsts` clears
without asking, of one port, and the callback without a header fails an assertion in a
flush or a stop. So the proof has to know where a transition is. `Inv` has three parts:

* `Phase`, for each kind of command where it stands in the FSM, the kernel and the
  processor and what has been reported: `AtRest`, `Accepted`, `Moving`, `Collecting`
  (a flush; the kernel's completion count is the number of ports still flushing),
  `Stopping`. In `Stopping` the number of servants that have reported is tied to the
  headers: once the kernel has served its half its lists are empty, and it reports when
  the last claimed header is back; the processor reports when it has served its own. The
  FSM enters Idle when both have, and then no header is left;
* `Passes`, whose turn it is: the kernel's command is served before the processor's, so
  that the kernel's half of a stop comes first;
* a sum for each port: the client's headers and those in each place of the component
  (`Total`) are `NBufs`, and the claimed count is right (`Debt`).

Functions that move headers are shown to keep total and debt of every port (`Conserves`), those
that only send commands to move none; the decoder's loop over pairs of headers and the
kernel's over its ports are recursive functions of which each turn is shown to conserve.
It rests on `PortAssumption` and `BuffersAssumption` (two ports; the commands Idle,
Executing, Pause and Flush of one port or all).

`FlushCollects` follows from `Inv`: a flush that drains the queue of its own port leaves
nothing of it in the queues and lists (`Gone`), the processor's header stays where it is,
and as the sum is still `NBufs` the client has the rest.

`EosComesLast` is about order, not number, and has an invariant of its own, `EosInv`, which is
inductive together with `Inv`. It follows the mark of the last header through the six places:

* `Plain`: what waits on the output port is empty. This is why the mark reaches the output
  only through the decoder;
* as long as the client has not sent the last header, the mark is nowhere (`Fresh`);
* once it has, the mark comes last (`Ordered`). On its way in nothing is behind it: in the
  queue, in the ingress list or with the processor (`Trailing`). On its way out the input is
  used up (`Drained`), and no data follows it in the queue or the egress list (`Sealed`).

A command that flushes or stops moves headers out of turn: out of the kernel's queue, or from
the ingress to the egress list. `Flow(t, s)` says of two states that the second keeps all three
and announces an end only if there was one and it is done; it is transitive, and each function
of the servants is shown to have it. TLC found `EosInv` to hold with 2 and with 3 buffers
before it was proved.

Of a client that pauses or cancels the four properties above are not proved. If it waits for
rest, the run `patient` shows that every command ends, which a failed assertion would
prevent, because it stops the component.

Only model-checked: TizTunnel; the player, whose graph has a RECURSIVE operator; and all
liveness properties, because fairness and ENABLED are beyond the prover.

## Not modelled

`PROJECT.json` gives the reason for each part. In short:

* the IL core: one thread behind one queue whose callers block like the scheduler's;
  what is left is the bookkeeping of a list in a single thread;
* marks, configuration and port settings messages, failing hooks, denied
  resources and the states they lead to; deferred resume, which the Opus decoder does
  nothing about; tunnels that are disabled, enabled or flushed alone;
* codecs, sources and sinks but the Opus decoder's control: they wrap third-party
  libraries around the same hooks;
* volume, mute, seeking and metadata in the player, and the graphs of network
  services;
* containers, parsing, logging, the object system: sequential code without a protocol;
* vendored code (`http-parser`) and Python bindings.

In TizComponent an API call from within a callback is left out (TizScheduler has
it at the level of messages). In TizScheduler a pluggable event is sent by
another thread than the component's own. TizServant has no deletion of a component.

## Plan

1. A processor with files or sockets: the HTTP renderer's server with its watchers,
   composed with TizServant; a source that ends its stream by itself.
2. Tunnels disabled, enabled and flushed alone, on top of TizTunnel and TizBuffers.
3. Marks: propagation from input to output headers and the event at the target.
4. The wait-for-resources states of the FSM composed with TizRm.
5. `TizCore`: OMX_GetHandle and OMX_FreeHandle behind the core's thread.
6. Theorems: `EachHeaderIsOnce` and `BothEndsAgree` of TizTunnel for any number of tunnels;
   `Orderly` for a client that pauses and cancels but waits for rest.
