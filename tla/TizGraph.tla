------------------------------ MODULE TizGraph ------------------------------
(***************************************************************************)
(* A graph of the player: the components that play the files of one        *)
(* coding, and the state machine that commands them (tizgraphfsm.hpp with  *)
(* its operations, tizgraphops.cpp).  The graph's thread injects an event, *)
(* which runs every transition it leads to, and then, if an operation has  *)
(* failed, the error that ends the machine.                                *)
(*                                                                         *)
(* An operator takes w, what the thread works on: g, the graph; list, the  *)
(* playlist it shares with the manager; out, what it has posted to the     *)
(* manager; and failed.  Transitions from one state for one event are      *)
(* tried from the last row of the table to the first; an event without a   *)
(* row is dropped.  Volume, mute and meta data are left out.               *)
(***************************************************************************)
EXTENDS TizPlaylist

CONSTANT NComps     \* how many components a graph has; the last one renders

ASSUME GraphAssumption == NComps \in Nat \ {0}

None == "None"

\* A component: its state, the transition it is in, and the commands in its queue.
NewComp == [st |-> "Loaded", going |-> None, cmds |-> <<>>, ended |-> FALSE]

NewGraph(coding) ==
    [coding |-> coding,
     st |-> "inited",
     comps |-> <<>>,        \* handles_
     expected |-> {},       \* expected_transitions_lst_
     destination |-> None,  \* destination_state_
     jump |-> 1,
     error |-> None,        \* error_code_
     pcm |-> "default",     \* what the decoder is set to
     changed |-> FALSE,     \* need_port_settings_changed_evt_
     queue |-> <<>>]

\* Events of the queue.
GraphEvt(kind) == [kind |-> kind]
SkipEvt(jump) == [kind |-> "skip", jump |-> jump]
TransEvt(c, st) == [kind |-> "omx_trans", comp |-> c, st |-> st]
ErrEvt(fatal) == [kind |-> "omx_err", fatal |-> fatal]

Go(w, st) == [w EXCEPT !.g.st = st]
Post(w, kind) == [w EXCEPT !.out = Append(@, [kind |-> kind, fatal |-> FALSE])]
PostError(w) == [w EXCEPT !.out = Append(@, [kind |-> "err", fatal |-> w.g.error = "fatal"])]

-----------------------------------------------------------------------------
(* Operations.                                                             *)

Succeeded(w) == w.g.error = None
Ack(w, kind) == IF Succeeded(w) THEN Post(w, kind) ELSE w

Renderer(w) == Len(w.g.comps)
AllComps(w) == DOMAIN w.g.comps

\* Command these components and expect them all to report.
Transition(w, comps, st) ==
    IF ~Succeeded(w) THEN w
    ELSE [w EXCEPT !.g.comps = [c \in DOMAIN @ |->
                        IF c \in comps THEN [@[c] EXCEPT !.cmds = Append(@, st)] ELSE @[c]],
                   !.g.expected = {<<c, st>> : c \in comps}]

TransitionAll(w, st) == Transition(w, AllComps(w), st)

EndOfPlay(w) == Empty(w.list) \/ (~w.list.loop /\ ~HasCurrent(w.list))

DoSkip(w) ==
    IF ~Succeeded(w) \/ w.g.jump = 0 \/ EndOfPlay(w) THEN w
    ELSE [w EXCEPT !.list = Skip(@, w.g.jump), !.g.jump = 1]

\* Mutant: the index stays where the erased file was.
EraseOnly(l) == EraseUri(l, l.index)

\* A file that cannot be played leaves the list, and the one before it is current.
EraseCurrent(l) ==
    LET m == EraseUri(l, l.index)
    IN  SetIndex(m, m.index - 1)

\* Mutant: once settings have changed, an event is expected for each file.
ProbeAlwaysChanged(w) ==
    IF ~HasCurrent(w.list) THEN [w EXCEPT !.failed = "get_current_uri"]
    ELSE LET uri == CurrentUri(w.list)
             changes == uri.pcm # w.g.pcm
         IN  IF uri.coding # w.g.coding
             THEN [w EXCEPT !.list = EraseCurrent(@), !.g.error = "uri"]
             ELSE [w EXCEPT !.g.pcm = uri.pcm, !.g.changed = @ \/ changes,
                            !.g.queue = IF changes THEN Append(@, GraphEvt("omx_port_settings"))
                                        ELSE @]

\* do_probe: the decoder announces new settings of its output port at once.
Probe(w) ==
    IF ~HasCurrent(w.list) THEN [w EXCEPT !.failed = "get_current_uri"]
    ELSE LET uri == CurrentUri(w.list)
             changes == uri.pcm # w.g.pcm
         IN  IF uri.coding # w.g.coding
             THEN [w EXCEPT !.list = EraseCurrent(@), !.g.error = "uri"]
             ELSE [w EXCEPT !.g.pcm = uri.pcm, !.g.changed = changes,
                            !.g.queue = IF changes THEN Append(@, GraphEvt("omx_port_settings"))
                                        ELSE @]

DestroyGraph(w) == [w EXCEPT !.g.comps = <<>>]

-----------------------------------------------------------------------------
(* Transitions.                                                            *)

Unload(w) == Post(Go(w, "unloaded"), "graph_unlded")

EndPlay(w) == Unload(DestroyGraph(Post(w, "graph_eop")))

\* configured_evt.
Configured(w) ==
    IF EndOfPlay(w) THEN EndPlay(w) ELSE Ack(Go(w, "executing"), "graph_execd")

\* probing, whose transitions need no event.
RECURSIVE Probed(_)
Probed(w) ==
    CASE w.failed # None -> w
      [] w.failed = None /\ EndOfPlay(w) -> Configured(w)
      [] w.failed = None /\ ~EndOfPlay(w) /\ ~Succeeded(w) ->
            Probed(Probe(DoSkip([w EXCEPT !.g.error = None])))
      [] OTHER ->
            IF w.g.changed THEN Go(w, "awaiting_port_settings")
            ELSE TransitionAll(Go(w, "config2idle"), "Idle")

Configure(w) == Probed(Probe(w))

\* skipped_evt.  The row for an internal error comes last in turn, and never has one.
Skipped(w) == IF EndOfPlay(w) THEN EndPlay(w) ELSE Configure(w)

\* Entering the submachine commands the components.
Skipping(w) == TransitionAll(Go(w, "to_idle"), "Idle")

\* fsm_.start () before load_evt.
Load(w) ==
    LET m == [w EXCEPT !.g.st = "loaded",
                       !.g.comps = @ \o [c \in 1 .. NComps |-> NewComp],
                       !.g.pcm = "default"]
    IN  Ack(m, "graph_loaded")

\* Where the components arrive when this state ends.
TargetState ==
    [config2idle |-> "Idle", idle2exe |-> "Executing",
     to_idle |-> "Idle", skip2loaded |-> "Loaded",
     exe2pause |-> "Pause", pause2exe |-> "Executing",
     pause2idle |-> "Idle", exe2idle |-> "Idle", idle2loaded |-> "Loaded"]

\* Mutant: from Idle the components are freed at once.
DestroyInIdle(w) == Unload(DestroyGraph(w))

LeaveIdle(w) == TransitionAll(Go(w, "idle2loaded"), "Loaded")

\* All that was expected has happened.
Arrived(w) ==
    CASE w.g.st = "config2idle" -> TransitionAll(Go(w, "idle2exe"), "Executing")
      [] w.g.st = "idle2exe" -> Configured(w)
      [] w.g.st = "to_idle" -> TransitionAll(Go(w, "skip2loaded"), "Loaded")
      [] w.g.st = "skip2loaded" -> Skipped(DoSkip(w))
      [] w.g.st = "exe2pause" -> Ack(Go(w, "pause"), "graph_paused")
      [] w.g.st = "pause2exe" -> Ack(Go(w, "executing"), "graph_unpaused")
      [] w.g.st \in {"pause2idle", "exe2idle"} /\ w.g.destination = "Idle" ->
            Ack([Go(w, "idle") EXCEPT !.g.destination = None], "graph_stopped")
      [] w.g.st \in {"pause2idle", "exe2idle"} /\ w.g.destination # "Idle" ->
            LeaveIdle(w)
      [] w.g.st = "idle2loaded" -> Unload(DestroyGraph(w))

\* is_trans_complete, with its assertions.
Complete(w, e) ==
    LET known == <<e.comp, e.st>> \in w.g.expected
        m == [w EXCEPT !.g.expected = @ \ {<<e.comp, e.st>>}]
    IN  CASE e.comp \notin AllComps(w) -> [w EXCEPT !.failed = "is_trans_complete"]
          [] e.comp \in AllComps(w) /\ known /\ w.g.comps[e.comp].st # e.st ->
                [w EXCEPT !.failed = "verify_transition_one"]
          [] OTHER ->
                IF m.g.expected # {} THEN m
                ELSE IF e.st # TargetState[w.g.st] THEN [m EXCEPT !.failed = "target_omx_state"]
                ELSE Arrived(m)

Configuring == {"awaiting_port_settings", "config2idle", "idle2exe"}

\* Mutant: record_expected_transitions, as in the other transitions.
PauseAwaitingAll(w, to, st) ==
    [Transition(Go(w, to), {Renderer(w)}, st) EXCEPT !.g.expected = AllComps(w) \X {st}]

\* Only the renderer pauses.
PauseRenderer(w, to, st) == Transition(Go(w, to), {Renderer(w)}, st)

RecordFatal(w, e) == IF e.fatal THEN [w EXCEPT !.g.error = "fatal"] ELSE w

\* The transition table.
Inject(w, e) ==
    CASE e.kind = "load" -> Load(w)
      [] w.g.st = "loaded" /\ e.kind = "execute" /\ Succeeded(w) -> Configure(w)
      [] w.g.st = "awaiting_port_settings" /\ e.kind = "omx_port_settings" ->
            TransitionAll(Go(w, "config2idle"), "Idle")
      [] w.g.st \in DOMAIN TargetState /\ e.kind = "omx_trans" -> Complete(w, e)
      [] w.g.st \in Configuring /\ e.kind = "omx_err" /\ e.fatal ->
            Unload(DestroyGraph(PostError(RecordFatal(w, e))))
      [] w.g.st = "executing" /\ e.kind = "skip" -> Skipping([w EXCEPT !.g.jump = e.jump])
      [] w.g.st = "executing" /\ e.kind = "omx_err" -> Skipping(RecordFatal(w, e))
      [] w.g.st = "executing" /\ e.kind = "omx_eos" -> Skipping(w)
      [] w.g.st = "executing" /\ e.kind = "pause" -> PauseRenderer(w, "exe2pause", "Pause")
      [] w.g.st = "executing" /\ e.kind \in {"stop", "unload"} ->
            LET m == IF e.kind = "stop" THEN [w EXCEPT !.g.destination = "Idle"] ELSE w
            IN  TransitionAll(Go(m, "exe2idle"), "Idle")
      [] w.g.st = "pause" /\ e.kind \in {"execute", "pause"} ->
            PauseRenderer(w, "pause2exe", "Executing")
      [] w.g.st = "pause" /\ e.kind \in {"stop", "unload"} ->
            LET m == IF e.kind = "stop" THEN [w EXCEPT !.g.destination = "Idle"] ELSE w
            IN  TransitionAll(Go(m, "pause2idle"), "Idle")
      [] w.g.st = "idle" /\ e.kind = "execute" ->
            TransitionAll(Go(Ack(w, "graph_execd"), "executing"), "Executing")
      [] w.g.st = "idle" /\ e.kind = "unload" -> LeaveIdle(w)
      [] OTHER -> w

\* dispatch_cmd.  A machine that has ended heeds nothing but load_evt, and starts again.
DispatchGraph(w, e) ==
    LET m == IF w.g.st = "unloaded" /\ e.kind # "load" THEN w ELSE Inject(w, e)
    IN  IF ~Succeeded(m) /\ m.g.st # "unloaded" /\ m.failed = None
        THEN Unload(PostError(m)) ELSE m

=============================================================================
