----------------------------- MODULE TizBuffers -----------------------------
(***************************************************************************)
(* The way of the single buffer headers through a component, here the      *)
(* Opus decoder: from the client to the kernel's ingress lists, to the     *)
(* processor and by the egress lists back (tizkernel.c and its .inl files, *)
(* opusdprc.c).  TizComponent only counts headers; this module keeps their *)
(* order and the end of the stream, and leaves out what TizComponent has:  *)
(* the ports are enabled and populated, and no command is cancelled.       *)
(*                                                                         *)
(* A header is what it carries: data, the end-of-stream flag, or nothing.  *)
(***************************************************************************)
EXTENDS TizKernel

CONSTANTS
    Commands,  \* the commands the IL client may send
    MaxReady   \* bound: it sends none while the processor has been told more
               \* often that a header came in

In == PortList[1]
Out == PortList[2]

ASSUME BuffersAssumption ==
    /\ Len(PortList) = 2
    /\ None \notin Ports
    /\ Commands \subseteq
            {StateSet(st) : st \in {"Idle", "Executing", "Pause"}}
            \cup {PortCommand("Flush", t) : t \in Ports \cup {ALL}}
    /\ MaxReady \in Nat

VARIABLES
    comp,   \* the three servants
    client, \* how many headers of each port the client has
    turn,   \* whose turn it is: "client" between two passes, else a servant
    last    \* what became of the end of the stream: "none" while it is to
            \* come, then "sent", and "told" or "dropped"

vars == <<comp, client, turn, last>>

Contents == {"data", "last", "empty"}

Header(p, what) == [port |-> p, what |-> what]
Headers(pp) == {Header(p, what) : p \in pp, what \in Contents}

DummyCallback == Header(None, Dummy)

\* What the headers of a port in a queue carry, in order.
CarriedBy(queue, p) ==
    LET mine == Only(queue, Headers({p}))
    IN  [i \in 1 .. Len(mine) |-> mine[i].what]

NoHeaders == [p \in Ports |-> <<>>]

Init ==
    /\ turn = "client"
    /\ last = "dropped"
    /\ client = [p \in Ports |-> NBufs]
    /\ comp =
        [cur |-> "Idle", canceled |-> None, inProgress |-> None, param |-> None,
         cancellation |-> None, counted |-> [st \in States |-> <<>>],
         completions |-> <<>>, commands |-> <<>>, completion |-> 0,
         port |-> [p \in Ports |-> [InitialPort EXCEPT !.bufs = NBufs]],
         krn |-> <<>>,           \* the kernel's commands, served before
         callbacks |-> <<>>,     \* the headers released to it, before
         efb |-> <<>>,           \* the headers the client sends
         ingress |-> NoHeaders,  \* p_ingress_
         egress |-> NoHeaders,   \* p_egress_
         eosTold |-> FALSE,      \* eos_ of the kernel
         prc |-> <<>>,           \* the processor's commands, served before
         ready |-> 0,            \* its BuffersReady messages
         hold |-> [p \in Ports |-> None],  \* p_in_hdr_ and p_out_hdr_
         packets |-> 0,          \* packet_count_, up to the first two packets
         back |-> [p \in Ports |-> 0],     \* headers this step gave back
         events |-> <<>>, failed |-> None]

Now == [comp EXCEPT !.events = <<>>, !.back = [p \in Ports |-> 0]]

Alive == comp.failed = None
-----------------------------------------------------------------------------
\* flush_egress of one port: the headers leave the component, and the end of
\* the stream is announced, once, when it leaves by an output port.
FlushEgress(s, p) ==
    LET t == [s EXCEPT !.egress[p] = <<>>, !.back[p] = @ + Len(s.egress[p])]
    IN  IF p = Out /\ "last" \in ToSet(s.egress[p]) /\ ~s.eosTold
        THEN [Event(t, "BufferFlag", p, None) EXCEPT !.eosTold = TRUE]
        ELSE t

FlushAllEgress(s) == ForEachPort(FlushEgress, s)

MoveToEgress(s, p) ==
    [s EXCEPT !.egress[p] = @ \o s.ingress[p], !.ingress[p] = <<>>]

\* The ports a command on target is about, and what it leaves in a queue.
Targets(target) == IF target = ALL THEN Ports ELSE {target}
Others(target) ==
    Headers(Ports \ Targets(target)) \cup IF target = ALL THEN {} ELSE {DummyCallback}

\* Mutant: the headers the client has just sent stay in the servant's queue.
DrainCallbacksOnly(s, target) ==
    LET released(p) == IF p \in Targets(target) THEN CarriedBy(s.callbacks, p) ELSE <<>>
    IN  [s EXCEPT
            !.callbacks = Only(@, Others(target)),
            !.egress = [p \in Ports |-> s.egress[p] \o released(p)],
            !.port = [p \in Ports |->
                [s.port[p] EXCEPT !.claimed = @ - Len(released(p))]]]

\* tiz_srv_remove_from_queue with process_efb_from_servant_queue and then
\* process_cbacks_from_servant_queue: the messages of a port, or of all, leave
\* the queue for its lists.  The second walk asserts that there is a header.
Drain(s, target) ==
    LET taken(queue, p) == IF p \in Targets(target) THEN CarriedBy(queue, p) ELSE <<>>
    IN  [Expect(s, DummyCallback \notin ToSet(s.callbacks), "NULL != p_hdr") EXCEPT
            !.efb = Only(@, Others(target)),
            !.callbacks = Only(@, Others(target)),
            !.ingress = [p \in Ports |-> s.ingress[p] \o taken(s.efb, p)],
            !.egress = [p \in Ports |-> s.egress[p] \o taken(s.callbacks, p)],
            !.port = [p \in Ports |->
                [s.port[p] EXCEPT !.claimed = @ - Len(taken(s.callbacks, p))]]]

\* clear_hdr_lsts for OMX_ALL ends after the first port: its loop looks at pid,
\* the loop's own variable, instead of the argument.
ClearLists(s) ==
    [s EXCEPT !.ingress[FirstPort] = <<>>, !.egress[FirstPort] = <<>>]

\* Mutant: it is not forgotten.
ForgetNothing(s) == s

\* all_buffers_returned forgets, when they are, that the end was announced.
ForgetEos(s) ==
    IF AllBuffersReturned(s.port) THEN [s EXCEPT !.eosTold = FALSE] ELSE s

\* dispatch_port_flush of one port; i is the loop's index.
FlushHeaders(s, p, i) ==
    LET returned ==
            IF s.cur \in {"Executing", "Pause"}
            THEN FlushEgress(MoveToEgress(Drain(s, i), p), p) ELSE s
    IN  IF returned.port[p].claimed = 0
        THEN CompletePortFlush(returned, p)
        ELSE ToProcessor([returned EXCEPT !.port[p].flushing = TRUE],
                         PortCommand("Flush", p))

\* Mutant: the headers that no servant has taken yet are not returned.
StopHeld(s) ==
    ForEachPort(LAMBDA t, p :
        FlushEgress(ToProcessor(Drain(t, ALL), PortCommand("Flush", p)), p), s)

\* krn_stop_and_return.
StopHeaders(s) ==
    ForEachPort(LAMBDA t, p :
        FlushEgress(MoveToEgress(
            ToProcessor(Drain(t, ALL), PortCommand("Flush", p)), p), p), s)

\* Mutant: the processor is not told of what came while it was paused.
PropagateNothing(s) == s

\* propagate_ingress: a BuffersReady message for every header that waits.
Propagate(s) ==
    ForEachPort(LAMBDA t, p : [t EXCEPT !.ready = @ + Len(t.ingress[p])], s)

\* dispatch_state_set.
StateSetOfKernel(s, st) ==
    LET now == Reported(s.cur)
        done(t) == CompleteTransition(t, "kernel", st)
        stopped == ForgetEos(StopHeaders(s))
    IN  CASE now \in {"Executing", "Pause"} /\ st = "Idle" ->
                IF AllBuffersReturned(stopped.port)
                THEN done(ClearLists(stopped)) ELSE stopped
          [] <<now, st>> = <<"Idle", "Executing">> -> done(ClearLists(s))
          [] <<now, st>> = <<"Pause", "Executing">> ->
                done([s EXCEPT !.callbacks = Append(@, DummyCallback)])
          [] <<now, st>> = <<"Executing", "Executing">> ->
                Propagate(FlushAllEgress(s))
          [] OTHER -> KernelStateSet(s, st)

CommandOfKernel(s, c) ==
    IF c.cmd = "StateSet"
    THEN StateSetOfKernel(s, c.param)
    ELSE ForTargets(FlushHeaders,
                    [s EXCEPT !.completion = CompletionCount(c.param)], c.param)

\* dispatch_cb.
CallbackOfKernel(s, m) ==
    LET p == m.port
        paused == s.cur = "Pause"
        waits == /\ paused
                 /\ ~s.port[IF m = DummyCallback THEN FirstPort ELSE p].flushing
        kept == [s EXCEPT !.egress[p] = Append(@, m.what),
                          !.port[p].claimed = @ - 1]
        left == FlushAllEgress(kept)
        flushed == IF left.port[p].flushing THEN CompletePortFlush(left, p) ELSE left
    IN  CASE m = DummyCallback /\ waits ->
                [s EXCEPT !.callbacks = Append(@, DummyCallback)]
          [] m = DummyCallback /\ ~waits -> FlushAllEgress(s)
          [] m # DummyCallback /\ waits -> kept
          [] m # DummyCallback /\ ~waits /\ left.port[p].claimed > 0 -> left
          [] OTHER ->
                IF /\ AllBuffersReturned(left.port)
                   /\ s.cur \in {"ExecutingToIdle", "PauseToIdle"}
                THEN CompleteTransition(ClearLists(ForgetEos(flushed)), "kernel", "Idle")
                ELSE ForgetEos(flushed)

\* Mutant: a header that comes in while the component is paused is not kept.
ForwardOnly(s, m) ==
    IF s.cur = "Pause"
    THEN s
    ELSE [s EXCEPT !.ingress[m.port] = Append(@, m.what), !.ready = @ + 1]

\* dispatch_efb with enqueue_buffersready_msg.
EmptyOrFill(s, m) ==
    LET t == [Expect(s, Len(s.ingress[m.port]) < NBufs, "list size < buffer count")
                EXCEPT !.ingress[m.port] = Append(@, m.what)]
    IN  IF s.cur = "Pause" THEN t ELSE [t EXCEPT !.ready = @ + 1]
-----------------------------------------------------------------------------
\* Mutant: the header taken is the one that came last.
ClaimLast(s, p) ==
    IF s.hold[p] # None \/ s.ingress[p] = <<>>
    THEN s
    ELSE [s EXCEPT !.hold[p] = IF p = In THEN Last(s.ingress[p]) ELSE "empty",
                   !.ingress[p] = Front(@),
                   !.port[p].claimed = @ + 1]

\* get_header of the decoder with krn_claim_buffer, which clears what is left
\* in a header of an output port.
Claim(s, p) ==
    IF s.hold[p] # None \/ s.ingress[p] = <<>>
    THEN s
    ELSE [Expect(s, s.cur # "Pause", "EStatePause != tiz_fsm_get_substate") EXCEPT
            !.hold[p] = IF p = In THEN Head(s.ingress[p]) ELSE "empty",
            !.ingress[p] = Tail(@),
            !.port[p].claimed = @ + 1]

\* release_header with krn_release_buffer.
Release(s, p, what) ==
    [s EXCEPT !.hold[p] = None, !.callbacks = Append(@, Header(p, what))]

\* Mutant: only the input header is released.
ReleaseInput(s, p) ==
    IF s.hold[p] = None \/ p # In THEN s ELSE Release(s, p, "empty")

\* release_headers of one port.
ReleaseHeld(s, p) ==
    IF s.hold[p] = None THEN s ELSE Release(s, p, s.hold[p])

\* headers_available and transform_buffer: a turn of the decoder's loop.
Transform(s) ==
    LET t == Claim(Claim(s, In), Out)
    IN  CASE None \in {t.hold[In], t.hold[Out]} -> t
          [] t.hold[In] = "last" /\ t.hold[Out] # None ->
                Release(Release(t, Out, "last"), In, "empty")
          [] OTHER -> Release(Release(t, In, "empty"), Out, "data")

\* The loop ends when the headers of one port are used up.
Decode(s) ==
    LET after[k \in 0 .. NBufs + 1] == IF k = 0 THEN s ELSE Transform(after[k - 1])
    IN  after[NBufs + 1]

\* init_opus_decoder and print_opus_comments: the first two packets of a stream.
ReadHeaders(s) ==
    LET t == Claim(s, In)
    IN  IF t.hold[In] = None THEN t
        ELSE [Release(t, In, "empty") EXCEPT !.packets = @ + 1]

\* dispatch_br of the processor and opusd_prc_buffers_ready.
BuffersReady(s) ==
    IF s.cur \in {"Pause", "ExecutingToIdle", "PauseToIdle"}
    THEN s
    ELSE IF s.packets < 2 THEN ReadHeaders(s) ELSE Decode(s)

\* dispatch_sc of the processor.  The way out of Pause also puts a message of
\* the processor to itself in its queue, which the decoder does nothing about.
CommandOfProcessor(s, c) ==
    LET now == Reported(s.cur)
    IN  CASE c.cmd = "Flush" -> ReleaseHeld(s, c.param)
          [] c.cmd = "StateSet" /\ c.param = "Idle" ->
                ProcessorStateSet(ForEachPort(ReleaseHeld, s), "Idle")
          [] <<now, c.cmd, c.param>> = <<"Idle", "StateSet", "Executing">> ->
                ProcessorStateSet([s EXCEPT !.packets = 0], "Executing")
          [] OTHER -> ProcessorStateSet(s, c.param)
-----------------------------------------------------------------------------
Ready ==
    \/ comp.completions # <<>> \/ comp.commands # <<>>
    \/ comp.krn # <<>> \/ comp.callbacks # <<>> \/ comp.efb # <<>>
    \/ comp.prc # <<>> \/ comp.ready > 0

\* The kernel is about to flush a port.
Flushes(p) ==
    /\ turn = "kernel" /\ comp.krn # <<>>
    /\ Head(comp.krn) \in {PortCommand("Flush", p), PortCommand("Flush", ALL)}

\* A step of a servant, with what the client sees of it.
Serve(s) ==
    /\ comp' = s
    /\ client' = [p \in Ports |-> client[p] + s.back[p]]
    /\ last' = CASE last = "sent" /\ \E e \in ToSet(s.events) : e.cmd = "BufferFlag" ->
                        "told"
                 [] last = "sent" /\ Flushes(In) -> "dropped"
                 [] OTHER -> last

\* The client sends a command when the one before has ended and the servants
\* have no message left that a command could overtake; a Flush not before the
\* two packets that open the stream have been read; it does not enter Pause
\* from Idle.
ClientMaySend(c) ==
    /\ comp.inProgress = None
    /\ comp.krn = <<>> /\ comp.prc = <<>>
    /\ DummyCallback \notin ToSet(comp.callbacks)
    /\ comp.ready <= MaxReady
    /\ c.cmd = "Flush" => comp.cur \in {"Executing", "Pause"} /\ comp.packets = 2
    /\ c = StateSet("Pause") => comp.cur # "Idle"

\* A stream begins when the component leaves Idle, and what is to come of it
\* is dropped by a stop.
SendCommand(c) ==
    /\ Alive /\ turn = "client" /\ ClientMaySend(c)
    /\ comp' = AcceptCommand(Now, c) /\ turn' = "fsm" /\ UNCHANGED client
    /\ last' = CASE comp.cur = "Idle" /\ c = StateSet("Executing") -> "none"
                 [] c = StateSet("Idle") -> "dropped"
                 [] OTHER -> last

\* The client passes no header once it has told the component to go to Idle.
MayTransfer(p) ==
    /\ Alive /\ turn = "client"
    /\ comp.cur \in {"Executing", "Pause"} /\ comp.param # "Idle"
    /\ client[p] > 0

Transfer(p, what) ==
    /\ comp' = [Now EXCEPT !.efb = Append(@, Header(p, what))]
    /\ client' = [client EXCEPT ![p] = @ - 1]
    /\ turn' = "fsm"

\* OMX_EmptyThisBuffer.  The end of the stream comes after its opening packets
\* in an empty header, as the sources of this code base send it.
EmptyThisBuffer(what) ==
    /\ MayTransfer(In) /\ last = "none"
    /\ what = "last" => comp.packets = 2
    /\ Transfer(In, what)
    /\ last' = IF what = "last" THEN "sent" ELSE last

\* OMX_FillThisBuffer.
FillThisBuffer ==
    MayTransfer(Out) /\ Transfer(Out, "empty") /\ UNCHANGED last

FsmRuns == Alive /\ turn \in {"fsm", "client"} /\ (turn = "client" => Ready)

FsmTick ==
    /\ FsmRuns
    /\ turn' = "kernel"
    /\ Serve(
        IF comp.completions # <<>>
        THEN DispatchCompletion([Now EXCEPT !.completions = Tail(@)],
                                Head(comp.completions))
        ELSE IF comp.commands # <<>>
        THEN DispatchCommand([Now EXCEPT !.commands = Tail(@)], Head(comp.commands))
        ELSE Now)

\* Commands have priority over callbacks, and these over the client's headers.
KernelTick ==
    /\ Alive /\ turn = "kernel"
    /\ turn' = "processor"
    /\ Serve(
        IF comp.krn # <<>>
        THEN CommandOfKernel([Now EXCEPT !.krn = Tail(@)], Head(comp.krn))
        ELSE IF comp.callbacks # <<>>
        THEN CallbackOfKernel([Now EXCEPT !.callbacks = Tail(@)], Head(comp.callbacks))
        ELSE IF comp.efb # <<>>
        THEN EmptyOrFill([Now EXCEPT !.efb = Tail(@)], Head(comp.efb))
        ELSE Now)

ProcessorTick ==
    /\ Alive /\ turn = "processor"
    /\ turn' = "client"
    /\ Serve(
        IF comp.prc # <<>>
        THEN CommandOfProcessor([Now EXCEPT !.prc = Tail(@)], Head(comp.prc))
        ELSE IF comp.ready > 0
        THEN BuffersReady([Now EXCEPT !.ready = @ - 1])
        ELSE Now)

Next ==
    \/ \E c \in Commands : SendCommand(c)
    \/ \E what \in {"data", "last"} : EmptyThisBuffer(what)
    \/ FillThisBuffer
    \/ FsmTick \/ KernelTick \/ ProcessorTick

Spec == Init /\ [][Next]_vars

\* The scheduler thread goes on with its passes, and takes a waiting call
\* between two of them; the client goes on giving output headers back.  These
\* are the weak fairness of the three servants' steps and the strong fairness of
\* FillThisBuffer, with the conditions that enable the steps written out.
Fairness ==
    /\ []<>(~FsmRuns) \/ []<><<FsmTick>>_vars
    /\ []<>(~Alive \/ turn # "kernel") \/ []<><<KernelTick>>_vars
    /\ []<>(~Alive \/ turn # "processor") \/ []<><<ProcessorTick>>_vars
    /\ <>[](~MayTransfer(Out)) \/ []<><<FillThisBuffer>>_vars

FairSpec == Spec /\ Fairness
-----------------------------------------------------------------------------
\* No assertion fails, and no header is lost or doubled: each header of a port
\* is with the client, in one of the kernel's queues or lists, or with the
\* processor, and the claimed count is right about the last.
HeadersKept ==
    /\ Alive
    /\ \A p \in Ports :
        LET held == IF comp.hold[p] = None THEN 0 ELSE 1
            released == Len(CarriedBy(comp.callbacks, p))
        IN  /\ comp.port[p].claimed = held + released
            /\ client[p] + Len(CarriedBy(comp.efb, p)) + Len(comp.ingress[p])
                + held + released + Len(comp.egress[p]) = NBufs

\* A component in Idle has given every header back.
IdleHasNone == comp.cur = "Idle" => \A p \in Ports : client[p] = NBufs

Told == \E e \in ToSet(comp'.events) : e.cmd = "BufferFlag"

\* The end of the stream is announced only when it is true: everything the
\* client sent before it has been decoded, and everything decoded before it
\* has left.
EosComesLast ==
    [][Told =>
        /\ last # "none"
        /\ last = "sent" =>
            /\ CarriedBy(comp'.efb, In) = <<>> /\ comp'.ingress[In] = <<>>
            /\ comp'.hold[In] = None
            /\ "data" \notin ToSet(comp'.egress[Out])
            /\ "data" \notin ToSet(CarriedBy(comp'.callbacks, Out))]_vars

\* The client has every header of p but the one the processor works on.
Gathered(p) == client'[p] = NBufs - (IF comp.hold[p] = None THEN 0 ELSE 1)

\* Of a port that is flushed, with all or as the first, only the header the
\* processor works on stays behind: in the kernel's lists none does, and none
\* in the servant's queue.  (tizkernel_dispatch.inl:373 says so of every port.
\* A flush of the second alone drains the queue of the first, line 378, and
\* leaves the headers that are in its own.)
FlushCollects ==
    [][\A p \in Ports :
        Flushes(p) /\ (p = FirstPort \/ Head(comp.krn).param = ALL) => Gathered(p)]_vars

\* The input does not get stuck: while the client goes on with the output, it
\* gets an input header back, whatever pauses, flushes and stops there were.
InputComesBack == client[In] = 0 ~> client[In] > 0 \/ comp.cur = "Pause"

\* The end of a stream is announced, unless the client has it dropped or keeps
\* the component paused.
EosIsTold == last = "sent" ~> last # "sent" \/ comp.cur = "Pause"

\* Every command ends, unless the processor has taken another header of a port
\* that is being flushed.
BufferCommandsEnd ==
    comp.inProgress # None ~>
        \/ comp.inProgress = None
        \/ \E p \in Ports :
            comp.port[p].flushing /\ comp.hold[p] # None /\ comp.prc = <<>>
=============================================================================
