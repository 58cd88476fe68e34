----------------------------- MODULE TizKernel -----------------------------
(***************************************************************************)
(* The kernel servant of a component (tizkernel.c, tizkernel_helpers.inl   *)
(* and tizkernel_dispatch.inl): it owns the ports, executes the commands   *)
(* the state machine forwards and knows when the last buffer of a port has *)
(* come back.  Then the processor servant (tizprc.c), as far as every      *)
(* plugin shares it: its transition table and the buffers it holds.        *)
(*                                                                         *)
(* Resources are always granted and every plugin hook succeeds.            *)
(***************************************************************************)
EXTENDS TizFsm, Lists

\* The callback message without a header that leaving Pause enqueues.
Dummy == "dummy"

ASSUME KernelAssumption == Dummy \notin Ports

\* f applied for every port in index order: the loops over p_ports_.
ForEachPort(f(_, _), s) ==
    LET after[k \in 0 .. Len(PortList)] ==
            IF k = 0 THEN s ELSE f(after[k - 1], PortList[k])
    IN  after[Len(PortList)]

\* The targets of a command's loop, with the loop's i.  For a command on a
\* single port i stays 0, whatever the port.
FirstPort == PortList[1]

ForTargets(f(_, _, _), s, target) ==
    IF target = ALL
    THEN ForEachPort(LAMBDA t, p : f(t, p, p), s)
    ELSE f(s, target, FirstPort)

\* Mutants: a command on all ports counts once, a command on one port counts
\* for all.
CountOnce(target) == 1
CountAll(target) == Len(PortList)

CompletionCount(target) == IF target = ALL THEN Len(PortList) ELSE 1

CompletionCountPositive(s) ==
    Expect(s, s.completion > 0, "cmd_completion_count_ > 0")

\* The tail of complete_port_disable and complete_port_enable: all ports but
\* the last of a command are reported here, the last one by the state machine.
CountDown(s, c, p) ==
    LET t == [CompletionCountPositive(s) EXCEPT !.completion = @ - 1]
    IN  CASE t.completion > 0 -> Event(t, c, p, None)
          [] t.completion = 0 -> CompleteCommand(t, c, p)
          [] OTHER -> t

CompletePortDisable(s, p) ==
    CountDown([s EXCEPT !.port[p] = SetDisabled(@)], "PortDisable", p)

CompletePortEnable(s, p) ==
    CountDown(ToProcessor([s EXCEPT !.port[p] = SetEnabled(@)],
                          PortCommand("PortEnable", p)),
              "PortEnable", p)

\* complete_port_flush reports every port itself, and the last one completes
\* the command as well.
CompletePortFlush(s, p) ==
    LET t == CompletionCountPositive(
                Event([s EXCEPT !.port[p].flushing = FALSE], "Flush", p, None))
        u == [t EXCEPT !.completion = @ - 1]
    IN  IF u.completion = 0 THEN CompleteCommand(u, "Flush", p) ELSE u

CompleteOngoingTransitions(s) ==
    CASE s.cur = "IdleToLoaded" /\ AllDepopulated(s.port) ->
            CompleteTransition(s, "kernel", "Loaded")
      [] s.cur = "LoadedToIdle" /\ AllPopulated(s.port) ->
            CompleteTransition(s, "kernel", "Idle")
      [] OTHER -> s

\* Mutant: the drained buffers still count as claimed.
DrainUncounted(s, target) ==
    [s EXCEPT !.callbacks =
        Only(@, {q \in Ports \cup {Dummy} : target \notin {ALL, q}})]

\* tiz_srv_remove_from_queue with process_cbacks_from_servant_queue: the
\* callbacks of a port, or of all, leave the queue and give their buffers
\* back.  The walk asserts that every callback has a header.
DrainCallbacks(s, target) ==
    LET gone == {q \in Ports \cup {Dummy} : target \in {ALL, q}}
        returned(p) == IF p \in gone THEN Count(s.callbacks, p) ELSE 0
        ports == [p \in Ports |-> [s.port[p] EXCEPT !.claimed = @ - returned(p)]]
    IN  [Expect(s, Dummy \notin ToSet(s.callbacks), "NULL != p_hdr") EXCEPT
            !.callbacks = Only(@, (Ports \cup {Dummy}) \ gone), !.port = ports]
-----------------------------------------------------------------------------
DisablePort(s, p, i) ==
    LET drained ==
            [DrainCallbacks(s, i) EXCEPT !.port[p] = GoingToDisabled(@)]
    IN  IF ~s.port[p].enabled
        THEN CompletePortDisable(s, p)
        ELSE IF s.port[p].bufs = 0
        THEN CompletePortDisable(DrainCallbacks(s, i), p)
        ELSE IF drained.port[p].claimed > 0
        THEN ToProcessor(drained, PortCommand("PortDisable", p))
        ELSE drained

DispatchPortDisable(s, target) ==
    CompleteOngoingTransitions(
        ForTargets(DisablePort,
                   [s EXCEPT !.completion = CompletionCount(target)], target))

EnablePort(s, p, i) ==
    LET going == [s EXCEPT !.port[p] = GoingToEnabled(@)]
    IN  IF s.port[p].enabled \/ s.cur \in {"WaitForResources", "Loaded"}
        THEN CompletePortEnable(s, p)
        ELSE IF s.cur = "LoadedToIdle" /\ AllPopulated(going.port)
        THEN CompleteTransition(going, "kernel", "Idle")
        ELSE going

DispatchPortEnable(s, target) ==
    ForTargets(EnablePort, [s EXCEPT !.completion = CompletionCount(target)],
               target)

FlushPort(s, p, i) ==
    LET returned == IF /\ s.port[p].enabled /\ s.port[p].bufs > 0
                       /\ s.cur \in {"Executing", "Pause"}
                    THEN DrainCallbacks(s, i)
                    ELSE s
    IN  IF returned.port[p].claimed = 0
        THEN CompletePortFlush(returned, p)
        ELSE ToProcessor([returned EXCEPT !.port[p].flushing = TRUE],
                         PortCommand("Flush", p))

DispatchPortFlush(s, target) ==
    ForTargets(FlushPort, [s EXCEPT !.completion = CompletionCount(target)],
               target)

\* Mutant: nobody tells the processor to return its buffers.
StopOnly(s) == DrainCallbacks(s, ALL)

\* krn_stop_and_return: the processor is told to return the buffers of every
\* port in use.
StopAndReturn(s) ==
    ForEachPort(LAMBDA t, p :
        IF t.port[p].enabled /\ t.port[p].bufs > 0
        THEN ToProcessor(DrainCallbacks(t, ALL), PortCommand("Flush", p))
        ELSE t, s)

\* tiz_krn_state_set_dispatch_tbl and tiz_prc_state_set_dispatch_tbl without
\* their dispatch_false entries.
Transitions ==
    {<<"Loaded", "Idle">>, <<"Loaded", "WaitForResources">>,
     <<"Idle", "Loaded">>, <<"Idle", "Executing">>, <<"Idle", "Pause">>,
     <<"Executing", "Idle">>, <<"Executing", "Executing">>,
     <<"Executing", "Pause">>,
     <<"Pause", "Idle">>, <<"Pause", "Executing">>,
     <<"WaitForResources", "Loaded">>}

\* The kernel's part of a transition, the row being the state the client sees.
KernelStateSet(s, st) ==
    LET now == Reported(s.cur)
        done(t) == CompleteTransition(t, "kernel", st)
        stopped == StopAndReturn(s)
    IN  CASE <<now, st>> \notin Transitions ->
                Expect(s, FALSE, "Unhandled transition in kernel servant")
          [] <<now, st>> = <<"Loaded", "Idle">> ->
                IF AllPopulated(s.port) THEN done(s) ELSE s
          [] <<now, st>> = <<"Idle", "Loaded">> ->
                IF AllDepopulated(s.port) THEN done(s) ELSE s
          [] now \in {"Executing", "Pause"} /\ st = "Idle" ->
                IF AllBuffersReturned(stopped.port) THEN done(stopped) ELSE stopped
          [] <<now, st>> = <<"Pause", "Executing">> ->
                done([s EXCEPT !.callbacks = Append(@, Dummy)])
          [] <<now, st>> = <<"Executing", "Executing">> -> s
          [] OTHER -> done(s)

\* dispatch_sc of the kernel.
KernelCommand(s, c) ==
    CASE c.cmd = "StateSet" -> KernelStateSet(s, c.param)
      [] c.cmd = "PortDisable" -> DispatchPortDisable(s, c.param)
      [] c.cmd = "PortEnable" -> DispatchPortEnable(s, c.param)
      [] c.cmd = "Flush" -> DispatchPortFlush(s, c.param)

\* dispatch_cb.  In Pause a buffer stays in the component unless its port is
\* being flushed, and the message without a header, which names port 0, is
\* enqueued once more.
KernelCallback(s, p) ==
    IF p = Dummy
    THEN IF s.cur = "Pause" /\ ~s.port[FirstPort].flushing
         THEN [s EXCEPT !.callbacks = Append(@, Dummy)]
         ELSE s
    ELSE LET t == [s EXCEPT !.port[p].claimed = @ - 1]
             u == IF t.port[p].flushing THEN CompletePortFlush(t, p) ELSE t
             deferred == s.cur = "Pause" /\ ~s.port[p].flushing
         IN  IF deferred \/ t.port[p].claimed > 0
             THEN t
             ELSE IF /\ AllBuffersReturned(t.port)
                     /\ s.cur \in {"ExecutingToIdle", "PauseToIdle"}
             THEN CompleteTransition(u, "kernel", "Idle")
             ELSE u

\* krn_UseBuffer and krn_AllocateBuffer.
RegisterBuffer(s, p) ==
    LET t == [s EXCEPT !.port[p] = RegisterHeader(@)]
        u == IF s.port[p].beingEnabled /\ Populated(t.port, p)
             THEN CompletePortEnable(t, p) ELSE t
    IN  IF AllPopulated(u.port) /\ s.cur = "LoadedToIdle"
        THEN CompleteTransition(u, "kernel", "Idle")
        ELSE u

\* krn_FreeBuffer.
FreeBuffer(s, p) ==
    LET t == [s EXCEPT !.port[p] = UnregisterHeader(@)]
    IN  CompleteOngoingTransitions(
            IF s.port[p].beingDisabled /\ t.port[p].bufs = 0
            THEN CompletePortDisable(t, p) ELSE t)
-----------------------------------------------------------------------------
\* The processor's part of a transition.  Whatever the handler did before, its
\* part is done.
ProcessorStateSet(s, st) ==
    IF <<Reported(s.cur), st>> \in Transitions
    THEN CompleteTransition(s, "processor", st)
    ELSE Expect(s, FALSE, "Unhandled transition in processor servant")

\* tiz_krn_release_buffer for every header of the port the processor holds.
ReleaseAll(s, p) ==
    [s EXCEPT !.held[p] = 0,
              !.callbacks = @ \o [i \in 1 .. s.held[p] |-> p]]

\* The plugin answers a flush or a disable by releasing what it holds.
ProcessorCommand(s, c) ==
    CASE c.cmd = "StateSet" -> ProcessorStateSet(s, c.param)
      [] c.cmd \in {"Flush", "PortDisable"} ->
            IF c.param = ALL THEN ForEachPort(ReleaseAll, s)
            ELSE ReleaseAll(s, c.param)
      [] c.cmd = "PortEnable" -> s
=============================================================================
