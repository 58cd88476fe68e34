---------------------------- MODULE TizComponent ----------------------------
(***************************************************************************)
(* One OpenMAX IL component at work: the three servants and the order in   *)
(* which the component's scheduler thread serves them and its client.      *)
(*                                                                         *)
(* The scheduler thread dispatches one API call, then lets the state       *)
(* machine, the kernel and the processor each process one message, pass    *)
(* after pass until none has any; only between two passes does it look at  *)
(* its queue again (schedule_servants, il_sched_thread_func).              *)
(***************************************************************************)
EXTENDS TizKernel, FiniteSets

CONSTANTS
    Commands,   \* the commands the IL client may send
    Cancelling, \* those it may send while another is in progress
    MaxCancels, \* bound: how many such commands are accepted in a behaviour
    Patient,    \* whether it lets the component come to rest before a command
    MaxBacklog  \* bound: it sends none while the processor has more messages

ASSUME ComponentAssumption ==
    /\ Commands \subseteq
            {StateSet(st) : st \in MainStates}
            \cup {PortCommand(c, t) : c \in PortCommands, t \in Ports \cup {ALL}}
    /\ Cancelling \subseteq Commands
    /\ MaxCancels \in Nat
    /\ Patient \in BOOLEAN
    /\ MaxBacklog \in Nat

VARIABLES
    comp,  \* the three servants
    turn,  \* whose turn it is: "client" between two passes, else a servant
    cancels \* how many commands were accepted while another was in progress

vars == <<comp, turn, cancels>>

Init ==
    /\ turn = "client"
    /\ cancels = 0
    /\ comp =
        [cur |-> "Loaded",             \* cur_state_id_
         canceled |-> None,            \* canceled_substate_id_
         inProgress |-> None,          \* in_progress_cmd_
         param |-> None,               \* in_progress_param1_
         cancellation |-> None,        \* cancellation_cmd_
         counted |-> [st \in States |-> <<>>],  \* servants_count_ of each state
         completions |-> <<>>,         \* the machine's queue: served first,
         commands |-> <<>>,            \* served after the completions
         krn |-> <<>>,                 \* the kernel's commands, and, served
         callbacks |-> <<>>,           \* after them, the buffers released to it
         completion |-> 0,             \* cmd_completion_count_
         port |-> [p \in Ports |-> InitialPort],
         prc |-> <<>>,                 \* the processor's commands
         held |-> [p \in Ports |-> 0], \* the headers the processor holds
         events |-> <<>>,              \* what the last step told the client
         failed |-> None]              \* the assertion that has failed

Alive == comp.failed = None

\* The component as a step finds it: the events of the step before are gone.
Now == [comp EXCEPT !.events = <<>>]

\* Some servant has a message.
Ready ==
    \/ comp.completions # <<>> \/ comp.commands # <<>>
    \/ comp.krn # <<>> \/ comp.callbacks # <<>>
    \/ comp.prc # <<>>

\* A dispatched API call is followed by a pass over the servants.
Call(s) == comp' = s /\ turn' = "fsm"

\* The restrictions a run puts on the client.
ClientMaySend(c) ==
    /\ comp.inProgress # None => c \in Cancelling /\ cancels < MaxCancels
    /\ Patient => ~Ready
    /\ Len(comp.prc) <= MaxBacklog

\* OMX_SendCommand.  The call does not wait for the scheduler thread
\* (tizscheduler.c:464, unless SENDCOMMAND_SHOULD_BLOCK): a refused command
\* leaves its error in the scheduler, and the client hears nothing of it.
SendCommand(c) ==
    /\ Alive /\ turn = "client" /\ ClientMaySend(c)
    /\ IF Accepts(comp, c)
       THEN /\ Call(AcceptCommand(Now, c))
            /\ cancels' = cancels + (IF comp.inProgress = None THEN 0 ELSE 1)
       ELSE Call(Now) /\ UNCHANGED cancels

\* OMX_UseBuffer or OMX_AllocateBuffer.  The client calls it for a port that
\* waits for buffers.
UseBuffer(p) ==
    /\ Alive /\ turn = "client"
    /\ comp.port[p].bufs < NBufs
    /\ \/ comp.cur = "LoadedToIdle" /\ comp.port[p].enabled
       \/ comp.inProgress = "PortEnable" /\ comp.port[p].beingEnabled
    /\ Call(RegisterBuffer(Now, p)) /\ UNCHANGED cancels

\* OMX_FreeBuffer, of a header the component has returned, from a port that is
\* to be disabled or when the component goes to Loaded.
FreeHeader(p) ==
    /\ Alive /\ turn = "client"
    /\ comp.port[p].claimed < comp.port[p].bufs
    /\ comp.cur = "IdleToLoaded" \/ comp.port[p].beingDisabled
    /\ Call(FreeBuffer(Now, p)) /\ UNCHANGED cancels

\* An event of the processor's own, a timer or a file descriptor, leads it to
\* claim a buffer or to release one it is done with.
ProcessorEvent(p) ==
    /\ Alive /\ turn = "client" /\ UNCHANGED cancels
    /\ \/ /\ comp.cur = "Executing"
          /\ comp.port[p].enabled /\ ~comp.port[p].beingDisabled
          /\ comp.port[p].claimed < comp.port[p].bufs
          /\ Call([Now EXCEPT !.port[p].claimed = @ + 1, !.held[p] = @ + 1])
       \/ /\ comp.cur \in {"Executing", "Pause"}
          /\ comp.held[p] > 0
          /\ Call([Now EXCEPT !.held[p] = @ - 1,
                              !.callbacks = Append(@, p)])

\* A pass begins after an API call, or when the pass before has left messages
\* and no call is waiting.  Completions have priority over commands.
FsmTick ==
    /\ Alive /\ turn \in {"fsm", "client"}
    /\ turn = "client" => Ready
    /\ turn' = "kernel" /\ UNCHANGED cancels
    /\ comp' =
        IF comp.completions # <<>>
        THEN DispatchCompletion([Now EXCEPT !.completions = Tail(@)],
                                Head(comp.completions))
        ELSE IF comp.commands # <<>>
        THEN DispatchCommand([Now EXCEPT !.commands = Tail(@)],
                             Head(comp.commands))
        ELSE Now

\* Commands have priority over callbacks.
KernelTick ==
    /\ Alive /\ turn = "kernel"
    /\ turn' = "processor" /\ UNCHANGED cancels
    /\ comp' =
        IF comp.krn # <<>>
        THEN KernelCommand([Now EXCEPT !.krn = Tail(@)], Head(comp.krn))
        ELSE IF comp.callbacks # <<>>
        THEN KernelCallback([Now EXCEPT !.callbacks = Tail(@)],
                            Head(comp.callbacks))
        ELSE Now

ProcessorTick ==
    /\ Alive /\ turn = "processor"
    /\ turn' = "client" /\ UNCHANGED cancels
    /\ comp' = IF comp.prc = <<>> THEN Now
               ELSE ProcessorCommand([Now EXCEPT !.prc = Tail(@)], Head(comp.prc))

Next ==
    \/ \E c \in Commands : SendCommand(c)
    \/ \E p \in Ports : UseBuffer(p) \/ FreeHeader(p) \/ ProcessorEvent(p)
    \/ FsmTick \/ KernelTick \/ ProcessorTick

Spec == Init /\ [][Next]_vars

\* The scheduler thread goes on with its passes, and takes a waiting call
\* between two of them; the client makes the buffer calls that a command of its
\* own has asked for.  Nothing obliges it to send a command, or the processor
\* to claim a buffer or to release one early.
Fairness ==
    /\ WF_vars(FsmTick) /\ WF_vars(KernelTick) /\ WF_vars(ProcessorTick)
    /\ \A p \in Ports : SF_vars(UseBuffer(p)) /\ SF_vars(FreeHeader(p))

FairSpec == Spec /\ Fairness
-----------------------------------------------------------------------------
\* No assertion of the state machine, the kernel or the processor ends the
\* process, whatever legal calls the client makes and however they interleave
\* with the passes of the scheduler.
NoAssertFails == Alive

\* A port's claimed count, on which flushes, disables and the way to Idle wait,
\* is never off: it is the number of headers the processor holds, or has
\* released to a kernel that has not got round to them.
HeadersAccounted ==
    \A p \in Ports :
        /\ comp.port[p].claimed =
            comp.held[p] + Count(comp.callbacks, p)
        /\ comp.port[p].claimed <= comp.port[p].bufs

\* The state of the component and its buffers agree: Loaded is only reached
\* with no header left on any port, Idle, Executing and Pause only with every
\* enabled port populated, Idle again only with every header given back, and a
\* port is only disabled once its headers are gone.
BuffersMatchState ==
    /\ comp.cur \in {"Loaded", "WaitForResources"} =>
        \A p \in Ports : comp.port[p].bufs = 0
    /\ comp.cur \in {"Idle", "LoadedToIdle", "IdleToLoaded"} =>
        \A p \in Ports : comp.port[p].claimed = 0
    /\ comp.inProgress \notin {"PortEnable", "PortDisable"} =>
        \A p \in Ports :
            /\ comp.cur \in {"Idle", "Executing", "Pause"}
               /\ comp.port[p].enabled => comp.port[p].bufs = NBufs
            /\ ~comp.port[p].enabled => comp.port[p].bufs = 0

\* The ports on which a port command is still unfinished.
Unfinished(c) ==
    {p \in Ports :
        CASE c = "PortDisable" -> comp.port[p].beingDisabled
          [] c = "PortEnable" -> comp.port[p].beingEnabled
          [] c = "Flush" -> comp.port[p].flushing}

\* Once the kernel has begun a port command, cmd_completion_count_ is the
\* number of ports whose flag says that they are still to finish, and no port
\* keeps the flag of a command that is over.
CountMatchesPorts ==
    \A c \in PortCommands :
        IF comp.inProgress = c /\ comp.commands = <<>> /\ comp.krn = <<>>
        THEN /\ comp.completion = Cardinality(Unfinished(c))
             /\ Unfinished(c) # {}
        ELSE Unfinished(c) = {}

\* tizstate.c:363, state_trans_complete: "Check that the two servats are
\* complete".  The machine enters a main state only when the kernel and the
\* processor have each reported the end of that very transition.
BothServantsFinish ==
    [][comp'.cur # comp.cur /\ comp'.cur \in MainStates =>
        /\ comp.counted[comp.cur] # <<>>
        /\ comp.completions # <<>>
        /\ LET one == Head(comp.counted[comp.cur])
               other == Head(comp.completions)
           IN  /\ {one.state, other.state} = {comp'.cur}
               /\ one.servant # other.servant]_vars

\* The processor has taken another header of a port that is being flushed; the
\* flush then lasts until the processor gives that one back of its own accord.
Reclaimed ==
    \E p \in Ports :
        comp.port[p].flushing /\ comp.held[p] > 0 /\ comp.prc = <<>>

\* Every command comes to its end, though each waits on some other party: on
\* the processor to return buffers, on the client to supply or free them, on
\* the state machine to have heard from both servants.
CommandsEnd ==
    comp.inProgress # None ~> comp.inProgress = None \/ Reclaimed

=============================================================================
