------------------------------ MODULE TizFsm ------------------------------
(***************************************************************************)
(* The finite state machine servant of a component (tizfsm.c, tizstate.c   *)
(* and the files of the single states).  It validates the client's         *)
(* commands, forwards them to the kernel and processor servants, counts    *)
(* their two completions and reports to the client.                        *)
(*                                                                         *)
(* The functions of the servants call each other, so each is an operator   *)
(* from a record s, the state of the whole component, to the record it     *)
(* leaves behind; the actions are in TizComponent.                         *)
(***************************************************************************)
EXTENDS TizPort

None == "none"

MainStates == {"Loaded", "Idle", "Executing", "Pause", "WaitForResources"}

SubStates == {"LoadedToIdle", "IdleToLoaded", "ExecutingToIdle", "PauseToIdle"}

States == MainStates \cup SubStates

\* What OMX_GetState answers in each state.
Reported(st) ==
    CASE st = "LoadedToIdle" -> "Loaded"
      [] st = "IdleToLoaded" -> "Idle"
      [] st = "ExecutingToIdle" -> "Executing"
      [] st = "PauseToIdle" -> "Pause"
      [] OTHER -> st

StateSet(st) == [cmd |-> "StateSet", param |-> st]
PortCommand(c, target) == [cmd |-> c, param |-> target]

PortCommands == {"PortDisable", "PortEnable", "Flush"}
CommandNames == {"StateSet"} \cup PortCommands
-----------------------------------------------------------------------------
\* An assertion of the code; the first that fails ends the process.
Expect(s, holds, name) ==
    IF holds \/ s.failed # None THEN s ELSE [s EXCEPT !.failed = name]

\* An OMX_EventCmdComplete for the client, or its error variant.
Event(s, c, param, error) ==
    [s EXCEPT !.events =
        Append(@, [cmd |-> c, param |-> param, error |-> error])]

ToKernel(s, c) == [s EXCEPT !.krn = Append(@, c)]
ToProcessor(s, c) == [s EXCEPT !.prc = Append(@, c)]
ToServants(s, c) == ToProcessor(ToKernel(s, c), c)

CommandDone(s) == [s EXCEPT !.inProgress = None, !.param = None]

\* fsm_set_state.  Only a main state is reported; canceled_substate_id_ is
\* assigned here and nowhere reset.
SetState(s, new, canceledSubstate) ==
    LET moved ==
            [s EXCEPT !.cur = new,
                      !.canceled = IF canceledSubstate = None
                                   THEN @ ELSE canceledSubstate]
        error == IF moved.canceled = None THEN None ELSE "CommandCanceled"
        reported ==
            CommandDone(Expect(Event(moved, "StateSet", new, error),
                               s.inProgress = "StateSet",
                               "StateSet == in_progress_cmd_"))
    IN  CASE new = s.cur -> s
          [] new # s.cur /\ new \in SubStates -> moved
          [] new # s.cur /\ new = "Executing" ->
                ToServants(reported, StateSet("Executing"))
          [] OTHER -> reported

\* The only state each transitional state can end in.
Destination ==
    [LoadedToIdle |-> "Idle", IdleToLoaded |-> "Loaded",
     ExecutingToIdle |-> "Idle", PauseToIdle |-> "Idle"]

\* fsm_complete_transition: a servant reports that its part is done.  In a
\* transitional state the remnants of a cancelled transition are ignored.
CompleteTransition(s, servant, new) ==
    IF s.cur \in SubStates /\ Destination[s.cur] # new
    THEN s
    ELSE [s EXCEPT !.completions =
            Append(@, [servant |-> servant, state |-> new])]

\* fsm_complete_command: the kernel reports the end of a port command.
CompleteCommand(s, c, target) ==
    LET t == Expect(s, c \in {s.inProgress, s.cancellation},
                    "in_progress_cmd_ or cancellation_cmd_")
    IN  CASE c = t.cancellation /\ t.inProgress \notin {None, "StateSet"} ->
                [CommandDone(Event(t, t.inProgress, target, "CommandCanceled"))
                    EXCEPT !.cancellation = None]
          [] c = t.cancellation /\ t.inProgress \in {None, "StateSet"} ->
                [Event(t, c, target, None) EXCEPT !.cancellation = None]
          [] c # t.cancellation /\ c = t.inProgress ->
                CommandDone(Event(t, c, target, None))
          [] OTHER -> t
-----------------------------------------------------------------------------
\* validate_stateset, validate_portdisable and the rest of
\* validate_sendcommand: while a command is in progress only those commands
\* are accepted that may cancel it.
Accepts(s, c) ==
    \/ s.inProgress = None
    \/ /\ c = StateSet("Loaded")
       /\ s.inProgress = "StateSet" /\ s.cur = "LoadedToIdle"
       /\ MayBeUnpopulated(s.port, ALL)
    \/ /\ c.cmd = "PortDisable" /\ c.param # ALL
       /\ \/ s.inProgress = "StateSet" /\ s.cur = "LoadedToIdle"
          \/ s.inProgress = "PortEnable"
       /\ MayBeUnpopulated(s.port, c.param)

\* fsm_SendCommand of an accepted command.
AcceptCommand(s, c) ==
    LET queued == [s EXCEPT !.commands = Append(@, c)]
    IN  IF s.inProgress = None
        THEN [queued EXCEPT !.inProgress = c.cmd, !.param = c.param]
        ELSE [Expect(queued, s.cancellation = None, "CommandMax == cancellation_cmd_")
                EXCEPT !.cancellation = c.cmd]

\* The states each state may leave for, with the one the machine waits in
\* meanwhile: a transitional state, or the state itself.
Via ==
    [Loaded |-> [Idle |-> "LoadedToIdle", WaitForResources |-> "Loaded"],
     LoadedToIdle |-> [Loaded |-> "IdleToLoaded"],
     Idle |-> [Loaded |-> "IdleToLoaded", Executing |-> "Idle", Pause |-> "Idle"],
     Executing |-> [Idle |-> "ExecutingToIdle", Pause |-> "Executing"],
     Pause |-> [Idle |-> "PauseToIdle", Executing |-> "Pause"],
     WaitForResources |-> [Loaded |-> "WaitForResources"]]

\* An error of the dispatch is reported as the end of the command in progress.
CommandFailed(s, error) ==
    IF s.inProgress = None
    THEN s
    ELSE CommandDone(Event(s, s.inProgress, s.param, error))

\* The state_set methods of the states.  Leaving LoadedToIdle is the
\* cancellation of the transition: its count of servants starts again.
DispatchStateSet(s, st) ==
    IF s.cur \notin DOMAIN Via
    THEN ToServants(s, StateSet(st))
    ELSE IF st \notin DOMAIN Via[s.cur]
    THEN CommandFailed(s, IF st = s.cur THEN "SameState"
                          ELSE "IncorrectStateTransition")
    ELSE IF s.cur = "LoadedToIdle"
    THEN ToServants(SetState([s EXCEPT !.counted["LoadedToIdle"] = <<>>],
                             Via[s.cur][st], "LoadedToIdle"),
                    StateSet(st))
    ELSE ToServants(SetState(s, Via[s.cur][st], None), StateSet(st))

\* dispatch_sc with the defaults of tizstate.c.
DispatchCommand(s, c) ==
    CASE c.cmd = "StateSet" -> DispatchStateSet(s, c.param)
      [] c.cmd = "PortDisable" -> ToServants(s, c)
      [] c.cmd \in {"PortEnable", "Flush"} -> ToKernel(s, c)

\* The assertions of the trans_complete methods.
Expected(st) ==
    CASE st = "Loaded" -> {"WaitForResources", "Idle"}
      [] st \in SubStates -> {Destination[st]}
      [] st \in {"Executing", "Pause"} -> {"Executing", "Pause", "Idle"}
      [] st = "WaitForResources" -> {"WaitForResources", "Loaded"}
      [] st = "Idle" -> MainStates

\* Mutant: servants_count_ is not set back by the completion that makes it two.
DispatchWithoutReset(s, m) ==
    LET t == Expect(s, m.state \in Expected(s.cur), "trans_complete")
    IN  IF s.counted[s.cur] = <<>>
        THEN [t EXCEPT !.counted[s.cur] = <<m>>]
        ELSE SetState(t, m.state, None)

\* dispatch_tc and state_trans_complete.  counted[st] holds the completion
\* that the state object st has counted so far: servants_count_ is its length.
DispatchCompletion(s, m) ==
    LET t == Expect(s, m.state \in Expected(s.cur), "trans_complete")
    IN  IF s.counted[s.cur] = <<>>
        THEN [t EXCEPT !.counted[s.cur] = <<m>>]
        ELSE SetState([t EXCEPT !.counted[s.cur] = <<>>], m.state, None)
=============================================================================
