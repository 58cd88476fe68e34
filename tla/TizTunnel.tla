------------------------------ MODULE TizTunnel ------------------------------
(***************************************************************************)
(* Components joined by tunnels.  One end of a tunnel supplies the buffers *)
(* of both: it registers them at its peer by blocking calls, from its own  *)
(* thread, and frees them there in the same way.  The ends keep each other *)
(* informed by OMX_SetConfig(TunneledPortStatus), which does not block:    *)
(* the one that does not supply says when it accepts OMX_UseBuffer and     *)
(* then buffers, the supplier says when it wants its buffers back, and the *)
(* states wait for what they have to be told.                              *)
(*                                                                         *)
(* A message that a component dispatches is one step with all the work of  *)
(* its servants that blocks on nobody; the order of that work is the       *)
(* subject of TizComponent.  The processor's part of a transition, which   *)
(* waits for nobody either, is left out.  Both ports agree on the number   *)
(* of buffers.                                                             *)
(***************************************************************************)
EXTENDS Integers, SequencesExt

CONSTANTS
    Components,
    Tunnels,
    Supplier, Other,    \* the components at the ends of each tunnel
    InputSuppliers,     \* the tunnels whose supplier port is an input port
    PortOrder,          \* the tunnels of a component, by the index of the port
    NBufs,              \* nBufferCountActual
    MaxAborts           \* bound: how often the client gives up

ASSUME TunnelAssumption ==
    /\ Supplier \in [Tunnels -> Components]
    /\ Other \in [Tunnels -> Components]
    /\ \A t \in Tunnels : Supplier[t] # Other[t]
    /\ InputSuppliers \subseteq Tunnels
    /\ \A c \in Components :
          /\ IsInjective(PortOrder[c])
          /\ Range(PortOrder[c]) = {t \in Tunnels : c \in {Supplier[t], Other[t]}}
    /\ NBufs \in Nat \ {0}
    /\ MaxAborts \in Nat

MainStates == {"Loaded", "Idle", "Executing"}
SubStates == {"LoadedToIdle", "IdleToLoaded", "IdleToExecuting", "ExecutingToIdle"}

Ports(c) == Range(PortOrder[c])
Supplies(c) == {t \in Tunnels : Supplier[t] = c}
Receives(c) == {t \in Tunnels : Other[t] = c}
End(c, t) == IF Supplier[t] = c THEN "supplier" ELSE "other"
Peer(c, t) == IF Supplier[t] = c THEN Other[t] ELSE Supplier[t]

None == "None"

VARIABLES
    net,    \* the components: see Init
    goal,   \* the state the client wants all of them in, or "Abort"
    aborts  \* how often it has given up

vars == <<net, goal, aborts>>

\* A number for each end of each tunnel.
Ends(n) == [t \in Tunnels |-> [supplier |-> n, other |-> n]]

Init ==
    /\ goal = "Loaded" /\ aborts = 0
    /\ net =
        [cur |-> [c \in Components |-> "Loaded"],       \* cur_state_id_
         begun |-> [c \in Components |-> 0],            \* how often the kernel was commanded
         reported |-> [c \in Components |-> <<>>],      \* its completions, not yet counted
         job |-> [c \in Components |-> None],           \* the calls it has to make
         todo |-> [c \in Components |-> <<>>],          \* the ports still to visit
         call |-> [c \in Components |-> "none"],        \* the call it is in
         queue |-> [c \in Components |-> <<>>],
         told |-> Ends(None),                           \* peer_port_status_
         useNotified |-> [c \in Components |-> FALSE],  \* accept_use_buffer_notified_
         idleNotified |-> [c \in Components |-> FALSE], \* may_transition_exe2idle_notified_
         registered |-> Ends(0),                        \* p_hdrs_info_
         ingress |-> Ends(0),
         egress |-> Ends(0),
         claimed |-> Ends(0),                           \* by the processor
         failed |-> None]                               \* the assertion that has failed

-----------------------------------------------------------------------------
(* Messages and lists.                                                     *)

Send(n, c, m) == [n EXCEPT !.queue[c] = Append(@, m)]

StateSet(st) == [kind |-> "StateSet", to |-> st]
Message(kind, t) == [kind |-> kind, tunnel |-> t]

Tell(n, c, t, status) ==
    Send(n, Peer(c, t), [kind |-> "Status", tunnel |-> t, status |-> status])

\* OMX_EmptyThisBuffer or OMX_FillThisBuffer at the peer for all that is in egress.
FlushEgress(n, c, t) ==
    [n EXCEPT !.queue[Peer(c, t)] =
                  @ \o [i \in 1 .. n.egress[t][End(c, t)] |-> Message("Buffer", t)],
              !.egress[t][End(c, t)] = 0]

\* The loop stops after its first port: it tests the index it has just set.
ClearLists(n, c) ==
    LET t == PortOrder[c][1]
    IN  [n EXCEPT !.ingress[t][End(c, t)] = 0, !.egress[t][End(c, t)] = 0]

Report(n, c, st) == [n EXCEPT !.reported[c] = Append(@, st)]

AllPopulated(n, c) == \A t \in Ports(c) : n.registered[t][End(c, t)] = NBufs
AllDepopulated(n, c) == \A t \in Ports(c) : n.registered[t][End(c, t)] = 0

\* Mutant: a supplier does not wait for its peers.
NoneIsClaimed(n, c) == \A t \in Ports(c) : n.claimed[t][End(c, t)] = 0

AllReturned(n, c) ==
    /\ \A t \in Supplies(c) :
          n.registered[t].supplier > 0 => n.ingress[t].supplier = n.registered[t].supplier
    /\ \A t \in Receives(c) : n.claimed[t].other = 0

\* What a state has to be told before it goes on.
MayInitAlloc(n, c) == \A t \in Supplies(c) : n.told[t].supplier = "AcceptUseBuffer"
MayExchange(n, c) == \A t \in Supplies(c) : n.told[t].supplier = "AcceptBufferExchange"
MayStop(n, c) == \A t \in Receives(c) : n.told[t].other = "AwaitBuffersReturn"

\* Mutant: what a peer has said once holds for ever.
ForgetNothing(n, c, status) == n

ForgetStatus(n, c, status) ==
    [n EXCEPT !.told = [t \in Tunnels |->
        IF t \in Ports(c) /\ @[t][End(c, t)] = status
        THEN [@[t] EXCEPT ![End(c, t)] = None] ELSE @[t]]]

-----------------------------------------------------------------------------
(* The kernel's part of the transitions.                                   *)

Begin(n, c) == [n EXCEPT !.begun[c] = @ + 1]

\* Calls the peers: goes on in PopulateStep and DepopulateStep.
Work(n, c, job) == [Begin(n, c) EXCEPT !.job[c] = job, !.todo[c] = PortOrder[c]]

\* The supplier's headers go where they are sent from.
Prepare(n, c) ==
    LET Place(m, t) ==
          IF t \notin Supplies(c) THEN m
          ELSE IF t \in InputSuppliers
               THEN [m EXCEPT !.egress[t].supplier = m.registered[t].supplier]
               ELSE [m EXCEPT !.ingress[t].supplier = m.registered[t].supplier]
    IN  Report(FoldLeft(Place, ClearLists(Begin(n, c), c), PortOrder[c]), c, "Executing")

Transfer(n, c) ==
    FoldLeft(LAMBDA m, t :
                FlushEgress(IF t \in Supplies(c) THEN m
                            ELSE Tell(m, c, t, "AcceptBufferExchange"), c, t),
             n, PortOrder[c])

\* A port without headers is passed over.
StopPort(n, c, t) ==
    CASE n.registered[t][End(c, t)] = 0 -> n
      [] n.registered[t][End(c, t)] > 0 /\ t \in Supplies(c) ->
            Tell([n EXCEPT !.ingress[t].supplier = @ + n.egress[t].supplier,
                           !.egress[t].supplier = 0], c, t, "AwaitBuffersReturn")
      [] OTHER ->
            FlushEgress([n EXCEPT !.egress[t].other = @ + n.ingress[t].other,
                                  !.ingress[t].other = 0], c, t)

StopAndReturn(n, c) ==
    LET m == FoldLeft(LAMBDA k, t : StopPort(k, c, t), Begin(n, c), PortOrder[c])
    IN  IF AllReturned(m, c) THEN Report(ClearLists(m, c), c, "Idle") ELSE m

-----------------------------------------------------------------------------
(* What a component does with a message.                                   *)

\* A transition to Idle can be cancelled as long as it does not depend on a peer.
MayUnpopulate(n, c) ==
    /\ ~AllPopulated(n, c)
    /\ \A t \in Receives(c) : n.registered[t].other = 0

\* state_set of the state it is in.
DispatchStateSet(n, c, to) ==
    LET Leave(st) == [n EXCEPT !.cur[c] = st, !.begun[c] = 0]
    IN  CASE n.cur[c] = "Loaded" /\ to = "Idle" ->
               IF MayInitAlloc(n, c) THEN Work(Leave("LoadedToIdle"), c, "populate")
               ELSE Leave("LoadedToIdle")
          [] n.cur[c] = "LoadedToIdle" /\ to = "Loaded" /\ MayUnpopulate(n, c) ->
               Work(Leave("IdleToLoaded"), c, "depopulate")
          [] n.cur[c] = "Idle" /\ to = "Loaded" ->
               Work(Leave("IdleToLoaded"), c, "depopulate")
          [] n.cur[c] = "Idle" /\ to = "Executing" ->
               IF MayExchange(n, c) THEN Prepare(Leave("Idle"), c)
               ELSE Leave("IdleToExecuting")
          [] n.cur[c] = "Executing" /\ to = "Idle" ->
               IF MayStop(n, c) THEN StopAndReturn(Leave("ExecutingToIdle"), c)
               ELSE Leave("ExecutingToIdle")
          [] OTHER -> n

\* tunneled_ports_status_update of the state it is in.
StatusUpdate(n, c) ==
    CASE n.cur[c] = "LoadedToIdle" /\ MayInitAlloc(n, c) -> Work(n, c, "populate")
      [] n.cur[c] = "IdleToExecuting" /\ MayExchange(n, c) -> Prepare(n, c)
      [] n.cur[c] = "ExecutingToIdle" /\ MayStop(n, c) -> StopAndReturn(n, c)
      [] OTHER -> n

\* krn_SetConfig.  The state is told of an acceptance of OMX_UseBuffer and of a stop
\* once only, in whatever state it is then.
DispatchStatus(n, c, t, status) ==
    LET m == [n EXCEPT !.told[t][End(c, t)] = status]
    IN  CASE status = "AcceptUseBuffer" /\ ~m.useNotified[c] /\ MayInitAlloc(m, c) ->
               StatusUpdate([m EXCEPT !.useNotified[c] = TRUE], c)
          [] status = "AcceptBufferExchange" /\ MayExchange(m, c) -> StatusUpdate(m, c)
          [] status = "AwaitBuffersReturn" /\ ~m.idleNotified[c] /\ MayStop(m, c) ->
               StatusUpdate([m EXCEPT !.idleNotified[c] = TRUE], c)
          [] OTHER -> m

\* Mutant: any state accepts the call.
UseBufferInAnyState(n, c, t) ==
    LET m == [n EXCEPT !.registered[t] = [supplier |-> @.supplier + 1, other |-> @.other + 1],
                       !.call[Supplier[t]] = "none"]
    IN  IF AllPopulated(m, c) THEN Report(m, c, "Idle") ELSE m

\* Only this state accepts the call; the caller sleeps and tries again.
DispatchUseBuffer(n, c, t) ==
    LET caller == Supplier[t]
        m == [n EXCEPT !.registered[t] = [supplier |-> @.supplier + 1, other |-> @.other + 1],
                       !.call[caller] = "none"]
    IN  IF n.cur[c] # "LoadedToIdle"
        THEN [n EXCEPT !.call[caller] = "sleep"]
        ELSE IF AllPopulated(m, c) THEN Report(m, c, "Idle") ELSE m

\* Mutant: nobody asks whether it was the last one.
FreeBufferOnly(n, c, t) ==
    [n EXCEPT !.registered[t].other = @ - 1, !.call[Supplier[t]] = "none"]

DispatchFreeBuffer(n, c, t) ==
    LET m == [n EXCEPT !.registered[t].other = @ - 1, !.call[Supplier[t]] = "none"]
    IN  IF m.cur[c] = "IdleToLoaded" /\ AllDepopulated(m, c)
        THEN Report(m, c, "Loaded") ELSE m

\* The port of c is an input port: the call is OMX_EmptyThisBuffer.
IsInput(c, t) == (t \in InputSuppliers) = (Supplier[t] = c)

\* A header that is refused is lost: the caller does not hear of it.
TakesBuffers(n, c, t) ==
    \/ n.cur[c] \in {"Executing", "ExecutingToIdle"}
    \/ n.cur[c] = "Idle" /\ ~IsInput(c, t)

DispatchBuffer(n, c, t) ==
    LET e == End(c, t)
        m == [n EXCEPT !.ingress[t][e] = @ + 1]
    IN  CASE ~TakesBuffers(n, c, t) -> n
          [] TakesBuffers(n, c, t) /\ n.ingress[t][e] >= n.registered[t][e] ->
               [n EXCEPT !.failed = "add_to_buflst"]
          [] OTHER ->
               IF /\ e = "supplier" /\ m.cur[c] = "ExecutingToIdle"
                  /\ AllReturned(m, c) /\ MayStop(m, c)
               THEN Report(ClearLists(m, c), c, "Idle") ELSE m

-----------------------------------------------------------------------------
Alive == net.failed = None

\* The thread is not in the middle of a job.
AtRest(c) == Alive /\ net.job[c] = None

\* Completions have priority over commands.
Dispatch(c) ==
    /\ AtRest(c) /\ net.queue[c] # <<>>
    /\ Head(net.queue[c]).kind = "StateSet" => net.reported[c] = <<>>
    /\ LET m == Head(net.queue[c])
           n == [net EXCEPT !.queue[c] = Tail(@)]
       IN  net' = CASE m.kind = "StateSet" -> DispatchStateSet(n, c, m.to)
                    [] m.kind = "Status" -> DispatchStatus(n, c, m.tunnel, m.status)
                    [] m.kind = "UseBuffer" -> DispatchUseBuffer(n, c, m.tunnel)
                    [] m.kind = "FreeBuffer" -> DispatchFreeBuffer(n, c, m.tunnel)
                    [] m.kind = "Buffer" -> DispatchBuffer(n, c, m.tunnel)
    /\ UNCHANGED <<goal, aborts>>

\* The state machine has heard from both servants.  In Executing they are commanded
\* once more.
Enter(c) ==
    /\ AtRest(c) /\ net.reported[c] # <<>>
    /\ LET st == Head(net.reported[c])
           n == [net EXCEPT !.reported[c] = Tail(@), !.cur[c] = st]
       IN  net' = CASE st = "Loaded" -> n
                    [] st = "Idle" /\ net.cur[c] = "LoadedToIdle" ->
                         [ForgetStatus(n, c, "AcceptUseBuffer") EXCEPT !.useNotified[c] = FALSE]
                    [] st = "Idle" /\ net.cur[c] # "LoadedToIdle" ->
                         [ForgetStatus(n, c, "AwaitBuffersReturn") EXCEPT !.idleNotified[c] = FALSE]
                    [] st = "Executing" -> Transfer(ForgetStatus(n, c, "AcceptBufferExchange"), c)
    /\ UNCHANGED <<goal, aborts>>

\* krn_allocate_resources visits the ports in turn.
PopulateStep(c) ==
    /\ Alive /\ net.job[c] = "populate" /\ net.call[c] = "none"
    /\ LET t == Head(net.todo[c])
           onward == [net EXCEPT !.todo[c] = Tail(@)]
       IN  net' =
             IF net.todo[c] = <<>>
             THEN LET n == [net EXCEPT !.job[c] = None]
                  IN  IF AllPopulated(n, c) THEN Report(n, c, "Idle") ELSE n
             ELSE CASE t \in Receives(c) -> Tell(onward, c, t, "AcceptUseBuffer")
                    [] t \in Supplies(c) /\ net.registered[t].supplier = NBufs -> onward
                    [] OTHER -> Send([net EXCEPT !.call[c] = "wait"], Other[t],
                                     Message("UseBuffer", t))
    /\ UNCHANGED <<goal, aborts>>

\* After half a second the call is made again.
Retry(c) ==
    /\ Alive /\ net.call[c] = "sleep"
    /\ net' = [net EXCEPT !.call[c] = "none"]
    /\ UNCHANGED <<goal, aborts>>

DepopulateStep(c) ==
    /\ Alive /\ net.job[c] = "depopulate" /\ net.call[c] = "none"
    /\ LET t == Head(net.todo[c])
           onward == [net EXCEPT !.todo[c] = Tail(@)]
       IN  net' =
             IF net.todo[c] = <<>>
             THEN LET n == [net EXCEPT !.job[c] = None]
                  IN  IF AllDepopulated(n, c) THEN Report(n, c, "Loaded") ELSE n
             ELSE IF t \in Receives(c) \/ net.registered[t].supplier = 0 THEN onward
             ELSE Send([net EXCEPT !.call[c] = "wait", !.registered[t].supplier = @ - 1],
                       Other[t], Message("FreeBuffer", t))
    /\ UNCHANGED <<goal, aborts>>

\* The processor works until it is told to stop.
Claim(c, t) ==
    LET e == End(c, t)
    IN  /\ AtRest(c)
        /\ net.cur[c] = "Executing" \/ (net.cur[c] = "ExecutingToIdle" /\ net.begun[c] = 0)
        /\ net.ingress[t][e] > 0
        /\ net' = [net EXCEPT !.ingress[t][e] = @ - 1, !.claimed[t][e] = @ + 1]
        /\ UNCHANGED <<goal, aborts>>

\* dispatch_cb: a supplier that stops keeps the header.
Release(c, t) ==
    LET e == End(c, t)
        given == [net EXCEPT !.claimed[t][e] = @ - 1]
        kept == [given EXCEPT !.ingress[t][e] = @ + 1]
        n == IF net.cur[c] = "ExecutingToIdle" /\ e = "supplier" THEN kept
             ELSE Send(given, Peer(c, t), Message("Buffer", t))
    IN  /\ AtRest(c)
        /\ net.claimed[t][e] > 0
        /\ net' = IF /\ n.claimed[t][e] = 0 /\ AllReturned(n, c)
                     /\ n.cur[c] = "ExecutingToIdle" /\ MayStop(n, c)
                  THEN Report(ClearLists(n, c), c, "Idle") ELSE n
        /\ UNCHANGED <<goal, aborts>>

-----------------------------------------------------------------------------
(* The client brings all components to one state before it wants another,  *)
(* except that it may give up the way from Loaded to Idle and want them    *)
(* back in Loaded.                                                         *)

Commanded(c) == \E i \in DOMAIN net.queue[c] : net.queue[c][i].kind = "StateSet"
Target == IF goal = "Abort" THEN "Loaded" ELSE goal

Command(c) ==
    /\ Alive
    /\ \/ net.cur[c] \in MainStates \ {Target}
       \/ goal = "Abort" /\ net.cur[c] = "LoadedToIdle"
    /\ net.reported[c] = <<>> /\ ~Commanded(c)
    /\ net' = Send(net, c, StateSet(Target))
    /\ UNCHANGED <<goal, aborts>>

NewGoal ==
    /\ Alive
    /\ \A c \in Components : net.cur[c] = Target /\ net.reported[c] = <<>> /\ ~Commanded(c)
    /\ goal' \in IF goal = "Idle" THEN {"Loaded", "Executing"} ELSE {"Idle"}
    /\ UNCHANGED <<net, aborts>>

GiveUp ==
    /\ Alive /\ goal = "Idle"
    /\ \A c \in Components : net.cur[c] \in {"Loaded", "LoadedToIdle", "Idle"}
    /\ \E c \in Components : net.cur[c] = "LoadedToIdle"
    /\ aborts < MaxAborts /\ aborts' = aborts + 1
    /\ goal' = "Abort"
    /\ UNCHANGED net

ThreadStep(c) == Dispatch(c) \/ Enter(c) \/ PopulateStep(c) \/ Retry(c) \/ DepopulateStep(c)

Next ==
    \/ \E c \in Components : ThreadStep(c) \/ Command(c)
    \/ \E c \in Components : \E t \in Ports(c) : Claim(c, t) \/ Release(c, t)
    \/ NewGoal \/ GiveUp

Spec == Init /\ [][Next]_vars

\* The processor of a component that has been told to stop gives a header back.
StopProcessing(c) ==
    /\ net.cur[c] = "ExecutingToIdle" /\ net.begun[c] > 0
    /\ \E t \in Ports(c) : Release(c, t)

\* Threads run, and the client that wants a state commands everyone.  A processor that
\* is not told to stop gives back what it holds when it likes.
FairSpec ==
    /\ Spec
    /\ \A c \in Components : WF_vars(ThreadStep(c) \/ StopProcessing(c))
    /\ WF_vars(\E c \in Components : Command(c))

-----------------------------------------------------------------------------
(* Properties.                                                             *)

Mailed(c, t) == Len(SelectSeq(net.queue[c], LAMBDA m : m = Message("Buffer", t)))
InFlight(t) == Mailed(Supplier[t], t) + Mailed(Other[t], t)
Held(t, e) == net.ingress[t][e] + net.egress[t][e] + net.claimed[t][e]

\* From the time its supplier enters Executing until it has counted them all in.
Circulates(t) ==
    \/ net.cur[Supplier[t]] = "Executing"
    \/ net.cur[Supplier[t]] = "ExecutingToIdle" /\ net.reported[Supplier[t]] = <<>>

\* While its supplier is in Executing every header of a tunnel is in one place: a list,
\* a processor or a message.  When the supplier has reported that it is Idle it has
\* them all: none is on its way and none at the other end, so that they can be freed.
\* No port has more headers on a list than it has buffers (add_to_buflst's assertion).
EachHeaderIsOnce ==
    /\ net.failed = None
    /\ \A t \in Tunnels :
        IF Circulates(t)
        THEN Held(t, "supplier") + Held(t, "other") + InFlight(t) = NBufs
        ELSE /\ InFlight(t) = 0 /\ Held(t, "other") = 0
             /\ Held(t, "supplier") \in {0, NBufs}

\* The two ends of a tunnel have registered the same buffers, except during a call
\* of OMX_FreeBuffer; a supplier in Idle or Executing has registered all of its
\* buffers, one in Loaded none.
BothEndsAgree ==
    \A t \in Tunnels :
        LET freeing == \E i \in DOMAIN net.queue[Other[t]] :
                          net.queue[Other[t]][i] = Message("FreeBuffer", t)
        IN  /\ net.registered[t].other =
                    net.registered[t].supplier + (IF freeing THEN 1 ELSE 0)
            /\ net.cur[Supplier[t]] \in {"Idle", "Executing"} => net.registered[t].supplier = NBufs
            /\ net.cur[Other[t]] = "Executing" => net.registered[t].other = NBufs
            /\ \A c \in {Supplier[t], Other[t]} :
                  net.cur[c] = "Loaded" => net.registered[t][End(c, t)] = 0

\* The servants are commanded once for each transition, however the state comes to
\* know that it may go on (state_set, tunneled_ports_status_update), and the
\* transition is reported once.
TransitionsBeginOnce ==
    \A c \in Components : net.begun[c] <= 1 /\ Len(net.reported[c]) <= 1

\* A client that never gives up gets all components where it wants them: the messages
\* between them are enough to finish every transition, whichever end of a tunnel is
\* commanded first.
GoalIsReached ==
    [](goal # "Abort") =>
        \A st \in MainStates : (goal = st) ~> (\A c \in Components : net.cur[c] = st)

=============================================================================
