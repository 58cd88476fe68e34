-------------------------- MODULE TizComponentProof --------------------------
(***************************************************************************)
(* What holds of a component whatever its ports, their number of buffers   *)
(* and the commands of its client: its state is well formed, and the count *)
(* of claimed headers of each port is right.                               *)
(*                                                                         *)
(* Then what holds for a client that gives one command at a time and does  *)
(* not pause (Straight): no assertion fails, the buffers are those of the  *)
(* state, the count of completions is that of the ports that are waited    *)
(* for, and a transition ends when both servants have reported its end.    *)
(*                                                                         *)
(* The operators of the servants call each other, so each has a lemma.     *)
(* Those of the state machine leave the ports, the callbacks and what the  *)
(* processor holds alone (Same); those of the kernel and the processor     *)
(* keep the headers accounted for (Sound).  A loop over the ports is a     *)
(* fold, and keeps what every turn of it keeps.                            *)
(***************************************************************************)
EXTENDS TizComponent, DataLemmas

Servants == {"kernel", "processor"}

\* What a client may say: every command that the servants understand.
Messages ==
    {StateSet(st) : st \in MainStates}
    \cup {PortCommand(c, t) : c \in PortCommands, t \in Ports \cup {ALL}}

Completions == [servant : Servants, state : MainStates]

Callbacks == Ports \cup {Dummy}

PortRecord ==
    [enabled : BOOLEAN, beingEnabled : BOOLEAN, beingDisabled : BOOLEAN,
     flushing : BOOLEAN, bufs : 0 .. NBufs, claimed : Int]

Fields ==
    {"cur", "canceled", "inProgress", "param", "cancellation", "counted",
     "completions", "commands", "krn", "callbacks", "completion", "port",
     "prc", "held", "events", "failed"}

\* s is a state of the three servants.
IsComp(s) ==
    /\ DOMAIN s = Fields
    /\ s.cur \in States
    /\ s.canceled \in States \cup {None}
    /\ s.inProgress \in CommandNames \cup {None}
    /\ s.cancellation \in CommandNames \cup {None}
    /\ s.counted \in [States -> Seq(Completions)]
    /\ s.completions \in Seq(Completions)
    /\ s.commands \in Seq(Messages)
    /\ s.krn \in Seq(Messages)
    /\ s.callbacks \in Seq(Callbacks)
    /\ s.completion \in Int
    /\ s.port \in [Ports -> PortRecord]
    /\ s.prc \in Seq(Messages)
    /\ s.held \in [Ports -> Nat]

\* The headers of s are accounted for.
Accounted(s) ==
    \A p \in Ports :
        /\ s.port[p].claimed = s.held[p] + Count(s.callbacks, p)
        /\ s.port[p].claimed <= s.port[p].bufs

Sound(s) == IsComp(s) /\ Accounted(s)

\* The headers are where they were, and the ports as they were.
Same(t, s) ==
    /\ t.held = s.held
    /\ t.callbacks = s.callbacks
    /\ t.port = s.port

\* From s to t the state stays well formed and the headers where they were.
Quiet(t, s) == IsComp(t) /\ Same(t, s)

-----------------------------------------------------------------------------
(* The state machine                                                       *)

\* Nothing is the quietest thing to do.
LEMMA QuietSelf ==
    ASSUME NEW s, IsComp(s)
    PROVE  Quiet(s, s)
BY DEF Quiet, Same

\* Quiet steps can be put together.
LEMMA QuietTwice ==
    ASSUME NEW s, NEW t, NEW u, IsComp(s), Quiet(t, s), Quiet(u, t)
    PROVE  Quiet(u, s)
BY DEF Quiet, Same

\* A quiet step keeps the headers accounted for.
LEMMA QuietIsSound ==
    ASSUME NEW s, NEW t, Sound(s), Quiet(t, s)
    PROVE  Sound(t)
BY DEF Quiet, Same, Sound, Accounted

\* An assertion only ends the process.
LEMMA ExpectIsQuiet ==
    ASSUME NEW s, IsComp(s), NEW holds, NEW name
    PROVE  Quiet(Expect(s, holds, name), s)
BY DEF Quiet, Same, IsComp, Fields, Expect

\* The client is told something (tiz_srv_issue_event).
LEMMA EventIsQuiet ==
    ASSUME NEW s, IsComp(s), NEW c, NEW param, NEW error
    PROVE  Quiet(Event(s, c, param, error), s)
BY DEF Quiet, Same, IsComp, Fields, Event

\* A command is put in the kernel's queue.
LEMMA ToKernelIsQuiet ==
    ASSUME NEW s, IsComp(s), NEW c \in Messages
    PROVE  Quiet(ToKernel(s, c), s)
BY DEF Quiet, Same, IsComp, Fields, ToKernel

\* A command is put in the processor's queue.
LEMMA ToProcessorIsQuiet ==
    ASSUME NEW s, IsComp(s), NEW c \in Messages
    PROVE  Quiet(ToProcessor(s, c), s)
BY DEF Quiet, Same, IsComp, Fields, ToProcessor

\* A command is put in both queues.
LEMMA ToServantsIsQuiet ==
    ASSUME NEW s, IsComp(s), NEW c \in Messages
    PROVE  Quiet(ToServants(s, c), s)
<1>1. Quiet(ToKernel(s, c), s) /\ IsComp(ToKernel(s, c))
  BY ToKernelIsQuiet DEF Quiet
<1>2. Quiet(ToProcessor(ToKernel(s, c), c), ToKernel(s, c))
  BY <1>1, ToProcessorIsQuiet
<1> QED BY <1>1, <1>2, QuietTwice DEF ToServants

\* No command is in progress any more.
LEMMA CommandDoneIsQuiet ==
    ASSUME NEW s, IsComp(s)
    PROVE  Quiet(CommandDone(s), s)
BY DEF Quiet, Same, IsComp, Fields, CommandDone

\* What the servants say to each other are messages, about states.
LEMMA StatesAreNamed ==
    /\ \A st \in MainStates : StateSet(st) \in Messages /\ st \in States
    /\ \A c \in PortCommands, t \in Ports \cup {ALL} : PortCommand(c, t) \in Messages
    /\ SubStates \subseteq States /\ States = MainStates \cup SubStates
BY DEF Messages, States

\* fsm_set_state moves the machine, reports to the client and commands the servants.
LEMMA SetStateIsQuiet ==
    ASSUME NEW s, IsComp(s), NEW new \in States, NEW canceled \in States \cup {None}
    PROVE  Quiet(SetState(s, new, canceled), s)
<1> DEFINE moved == [s EXCEPT !.cur = new,
                              !.canceled = IF canceled = None THEN @ ELSE canceled]
           error == IF moved.canceled = None THEN None ELSE "CommandCanceled"
           told == Event(moved, "StateSet", new, error)
           checked == Expect(told, s.inProgress = "StateSet", "StateSet == in_progress_cmd_")
           reported == CommandDone(checked)
<1>1. Quiet(moved, s) /\ IsComp(moved)
  BY DEF Quiet, Same, IsComp, Fields
<1> HIDE DEF moved, error
<1>2. Quiet(told, s) /\ IsComp(told)
  BY <1>1, EventIsQuiet, QuietTwice DEF Quiet
<1> HIDE DEF told
<1>3. Quiet(checked, s) /\ IsComp(checked)
  BY <1>2, ExpectIsQuiet, QuietTwice DEF Quiet
<1> HIDE DEF checked
<1>4. Quiet(reported, s) /\ IsComp(reported)
  BY <1>3, CommandDoneIsQuiet, QuietTwice DEF Quiet
<1> HIDE DEF reported
<1>5. ASSUME new = "Executing"
      PROVE  Quiet(ToServants(reported, StateSet("Executing")), s)
  <2>1. StateSet("Executing") \in Messages
    BY StatesAreNamed DEF MainStates
  <2> QED BY <1>4, <2>1, ToServantsIsQuiet, QuietTwice
<1>6. CASE new = s.cur
  <2>1. SetState(s, new, canceled) = s
    BY <1>6 DEF SetState
  <2> QED BY <2>1, QuietSelf
<1>7. CASE new # s.cur /\ new \in SubStates
  <2>1. SetState(s, new, canceled) = moved
    <3>1. new # "Executing"
      BY <1>7 DEF SubStates
    <3> QED BY <1>7, <3>1 DEF SetState, moved
  <2> QED BY <2>1, <1>1
<1>8. CASE new # s.cur /\ new \notin SubStates /\ new = "Executing"
  <2>1. SetState(s, new, canceled) = ToServants(reported, StateSet("Executing"))
    BY <1>8 DEF SetState, moved, error, told, checked, reported
  <2> QED BY <2>1, <1>5, <1>8
<1>9. CASE new # s.cur /\ new \notin SubStates /\ new # "Executing"
  <2>1. SetState(s, new, canceled) = reported
    BY <1>9 DEF SetState, moved, error, told, checked, reported
  <2> QED BY <2>1, <1>4
<1> QED BY <1>6, <1>7, <1>8, <1>9

\* A servant's report is queued or ignored.
LEMMA CompleteTransitionIsQuiet ==
    ASSUME NEW s, IsComp(s), NEW servant \in Servants, NEW st \in MainStates
    PROVE  Quiet(CompleteTransition(s, servant, st), s)
<1> DEFINE m == [servant |-> servant, state |-> st]
<1>1. m \in Completions
  BY DEF Completions
<1>2. Quiet([s EXCEPT !.completions = Append(@, m)], s)
  <2> HIDE DEF m
  <2> QED BY <1>1 DEF Quiet, Same, IsComp, Fields
<1> QED BY <1>2, QuietSelf DEF CompleteTransition

Uncancelled(s) == [s EXCEPT !.cancellation = None]

\* The client is told, and the command is over or its cancellation is.
LEMMA ReportIsQuiet ==
    ASSUME NEW s, NEW t, IsComp(s), Quiet(t, s), NEW c, NEW target, NEW error
    PROVE  /\ Quiet(Event(t, c, target, error), s)
           /\ Quiet(CommandDone(Event(t, c, target, error)), s)
           /\ Quiet(Uncancelled(Event(t, c, target, error)), s)
           /\ Quiet(Uncancelled(CommandDone(Event(t, c, target, error))), s)
<1> DEFINE u == Event(t, c, target, error)
           v == CommandDone(u)
<1>1. Quiet(u, s)
  <2>1. Quiet(u, t)
    BY EventIsQuiet DEF Quiet
  <2> QED BY <2>1, QuietTwice
<1> HIDE DEF u
<1>2. Quiet(v, s)
  <2>1. Quiet(v, u)
    BY <1>1, CommandDoneIsQuiet DEF Quiet
  <2> QED BY <2>1, <1>1, QuietTwice
<1> HIDE DEF v
<1>3. Quiet(Uncancelled(u), s)
  BY <1>1 DEF Uncancelled, Quiet, Same, IsComp, Fields
<1>4. Quiet(Uncancelled(v), s)
  BY <1>2 DEF Uncancelled, Quiet, Same, IsComp, Fields
<1> QED BY <1>1, <1>2, <1>3, <1>4 DEF u, v

\* The end of a port command, or of its cancellation, is reported.
LEMMA CompleteCommandIsQuiet ==
    ASSUME NEW s, IsComp(s), NEW c, NEW target
    PROVE  Quiet(CompleteCommand(s, c, target), s)
<1> DEFINE t == Expect(s, c \in {s.inProgress, s.cancellation},
                       "in_progress_cmd_ or cancellation_cmd_")
<1>1. Quiet(t, s)
  BY ExpectIsQuiet
<1>2. CASE c = t.cancellation /\ t.inProgress \notin {None, "StateSet"}
  <2>1. CompleteCommand(s, c, target) =
          Uncancelled(CommandDone(Event(t, t.inProgress, target, "CommandCanceled")))
    BY <1>2 DEF Uncancelled, CompleteCommand
  <2> HIDE DEF t
  <2> QED BY <2>1, <1>1, ReportIsQuiet
<1>3. CASE c = t.cancellation /\ t.inProgress \in {None, "StateSet"}
  <2>1. CompleteCommand(s, c, target) = Uncancelled(Event(t, c, target, None))
    BY <1>3 DEF Uncancelled, CompleteCommand
  <2> HIDE DEF t
  <2> QED BY <2>1, <1>1, ReportIsQuiet
<1>4. CASE c # t.cancellation /\ c = t.inProgress
  <2>1. CompleteCommand(s, c, target) = CommandDone(Event(t, c, target, None))
    BY <1>4 DEF CompleteCommand
  <2> HIDE DEF t
  <2> QED BY <2>1, <1>1, ReportIsQuiet
<1>5. CASE c # t.cancellation /\ c # t.inProgress
  <2>1. CompleteCommand(s, c, target) = t
    BY <1>5 DEF CompleteCommand
  <2> QED BY <2>1, <1>1
<1> HIDE DEF t
<1> QED BY <1>2, <1>3, <1>4, <1>5

\* An accepted command waits in the machine's queue.
LEMMA AcceptCommandIsQuiet ==
    ASSUME NEW s, IsComp(s), NEW c \in Messages
    PROVE  Quiet(AcceptCommand(s, c), s)
<1> DEFINE queued == [s EXCEPT !.commands = Append(@, c)]
           checked == Expect(queued, s.cancellation = None, "CommandMax == cancellation_cmd_")
<1>0. c.cmd \in CommandNames
  BY DEF Messages, StateSet, PortCommand, CommandNames
<1>1. Quiet(queued, s)
  BY DEF Quiet, Same, IsComp, Fields
<1>2. Quiet(checked, s)
  <2> HIDE DEF queued
  <2>1. Quiet(checked, queued)
    BY <1>1, ExpectIsQuiet DEF Quiet
  <2> QED BY <2>1, <1>1, QuietTwice
<1>3. CASE s.inProgress = None
  <2>1. AcceptCommand(s, c) = [queued EXCEPT !.inProgress = c.cmd, !.param = c.param]
    BY <1>3 DEF AcceptCommand
  <2> HIDE DEF queued
  <2> QED BY <2>1, <1>0, <1>1 DEF Quiet, Same, IsComp, Fields
<1>4. CASE s.inProgress # None
  <2>1. AcceptCommand(s, c) = [checked EXCEPT !.cancellation = c.cmd]
    BY <1>4 DEF AcceptCommand
  <2> HIDE DEF checked
  <2> QED BY <2>1, <1>0, <1>2 DEF Quiet, Same, IsComp, Fields
<1> QED BY <1>3, <1>4

\* A refused command is reported.
LEMMA CommandFailedIsQuiet ==
    ASSUME NEW s, IsComp(s), NEW error
    PROVE  Quiet(CommandFailed(s, error), s)
<1>1. CASE s.inProgress = None
  BY <1>1, QuietSelf DEF CommandFailed
<1>2. CASE s.inProgress # None
  <2>1. CommandFailed(s, error) = CommandDone(Event(s, s.inProgress, s.param, error))
    BY <1>2 DEF CommandFailed
  <2> QED BY <2>1, QuietSelf, ReportIsQuiet
<1> QED BY <1>1, <1>2

\* Whatever state a state leaves for, it waits in one.
LEMMA ViaIsState ==
    ASSUME NEW cur \in DOMAIN Via, NEW st \in DOMAIN Via[cur]
    PROVE  Via[cur][st] \in States
BY DEF Via, States, MainStates, SubStates

\* The machine counts the servants that have completed.
LEMMA CountedIsQuiet ==
    ASSUME NEW s, IsComp(s), NEW st \in States, NEW count \in Seq(Completions)
    PROVE  Quiet([s EXCEPT !.counted[st] = count], s)
BY DEF Quiet, Same, IsComp, Fields

\* The state_set methods move the machine and command the servants.
LEMMA DispatchStateSetIsQuiet ==
    ASSUME NEW s, IsComp(s), NEW st \in MainStates
    PROVE  Quiet(DispatchStateSet(s, st), s)
<1>0. StateSet(st) \in Messages
  BY StatesAreNamed
<1>1. CASE s.cur \notin DOMAIN Via
  <2>1. DispatchStateSet(s, st) = ToServants(s, StateSet(st))
    BY <1>1 DEF DispatchStateSet
  <2> QED BY <2>1, <1>0, ToServantsIsQuiet
<1>2. CASE s.cur \in DOMAIN Via /\ st \notin DOMAIN Via[s.cur]
  <2>1. \E error : DispatchStateSet(s, st) = CommandFailed(s, error)
    BY <1>2 DEF DispatchStateSet
  <2> QED BY <2>1, CommandFailedIsQuiet
<1>3. CASE s.cur \in DOMAIN Via /\ st \in DOMAIN Via[s.cur]
  <2> PICK via : via = Via[s.cur][st]
    OBVIOUS
  <2>1. via \in States
    BY <1>3, ViaIsState
  <2>2. ASSUME NEW t, Quiet(t, s), NEW canceled \in States \cup {None}
        PROVE  Quiet(ToServants(SetState(t, via, canceled), StateSet(st)), s)
    <3>1. Quiet(SetState(t, via, canceled), s)
      <4>1. IsComp(t)
        BY <2>2 DEF Quiet
      <4>2. Quiet(SetState(t, via, canceled), t)
        BY <4>1, <2>1, SetStateIsQuiet
      <4> QED BY <4>2, <2>2, QuietTwice
    <3>2. Quiet(ToServants(SetState(t, via, canceled), StateSet(st)), SetState(t, via, canceled))
      BY <3>1, <1>0, ToServantsIsQuiet DEF Quiet
    <3> QED BY <3>1, <3>2, QuietTwice
  <2> DEFINE t == [s EXCEPT !.counted["LoadedToIdle"] = <<>>]
  <2>3. CASE s.cur = "LoadedToIdle"
    <3>1. DispatchStateSet(s, st) = ToServants(SetState(t, via, "LoadedToIdle"), StateSet(st))
      BY <1>3, <2>3 DEF DispatchStateSet
    <3>3. "LoadedToIdle" \in States
      BY DEF States, SubStates
    <3>2. PICK leaving : leaving = "LoadedToIdle"
      OBVIOUS
    <3>4. PICK none : none = <<>>
      OBVIOUS
    <3>6. none \in Seq(Completions)
      BY <3>4
    <3>7. Quiet([s EXCEPT !.counted[leaving] = none], s)
      BY <3>2, <3>3, <3>6, CountedIsQuiet
    <3>5. Quiet(t, s)
      BY <3>2, <3>4, <3>7
    <3> HIDE DEF t
    <3> QED BY <3>1, <3>3, <3>5, <2>2
  <2>4. CASE s.cur # "LoadedToIdle"
    <3>1. DispatchStateSet(s, st) = ToServants(SetState(s, via, None), StateSet(st))
      BY <1>3, <2>4 DEF DispatchStateSet
    <3> QED BY <3>1, <2>2, QuietSelf
  <2> QED BY <2>3, <2>4
<1> QED BY <1>1, <1>2, <1>3

\* Commands of the client go on to the servants.
LEMMA DispatchCommandIsQuiet ==
    ASSUME NEW s, IsComp(s), NEW c \in Messages
    PROVE  Quiet(DispatchCommand(s, c), s)
<1>1. CASE c.cmd = "StateSet"
  <2>1. DispatchCommand(s, c) = DispatchStateSet(s, c.param) /\ c.param \in MainStates
    BY <1>1 DEF DispatchCommand, Messages, StateSet, PortCommand, PortCommands
  <2> QED BY <2>1, DispatchStateSetIsQuiet
<1>2. CASE c.cmd = "PortDisable"
  BY <1>2, ToServantsIsQuiet DEF DispatchCommand
<1>3. CASE c.cmd \in {"PortEnable", "Flush"}
  BY <1>3, ToKernelIsQuiet DEF DispatchCommand
<1> QED BY <1>1, <1>2, <1>3 DEF Messages, StateSet, PortCommand, PortCommands

\* The first completion of a state is counted, the second ends the transition.
LEMMA DispatchCompletionIsQuiet ==
    ASSUME NEW s, IsComp(s), NEW m \in Completions
    PROVE  Quiet(DispatchCompletion(s, m), s)
<1> DEFINE t == Expect(s, m.state \in Expected(s.cur), "trans_complete")
<1>0. m.state \in States /\ None \in States \cup {None}
  BY StatesAreNamed DEF Completions
<1>1. Quiet(t, s)
  BY ExpectIsQuiet
<1>2. CASE s.counted[s.cur] = <<>>
  <2>1. DispatchCompletion(s, m) = [t EXCEPT !.counted[s.cur] = <<m>>]
    BY <1>2 DEF DispatchCompletion
  <2> HIDE DEF t
  <2>2. s.cur \in States /\ <<m>> \in Seq(Completions)
    BY DEF IsComp
  <2>3. IsComp(t)
    BY <1>1 DEF Quiet
  <2> DEFINE u == [t EXCEPT !.counted[s.cur] = <<m>>]
  <2>4. Quiet(u, t)
    BY <2>2, <2>3, CountedIsQuiet
  <2> HIDE DEF u
  <2> QED BY <2>1, <2>4, <1>1, QuietTwice DEF u
<1>3. CASE s.counted[s.cur] # <<>>
  <2> DEFINE u == [t EXCEPT !.counted[s.cur] = <<>>]
  <2>1. DispatchCompletion(s, m) = SetState(u, m.state, None)
    BY <1>3 DEF DispatchCompletion
  <2> HIDE DEF t
  <2>2. Quiet(u, s)
    <3>1. s.cur \in States /\ <<>> \in Seq(Completions)
      BY DEF IsComp
    <3>2. IsComp(t)
      BY <1>1 DEF Quiet
    <3>3. Quiet(u, t)
      BY <3>1, <3>2, CountedIsQuiet
    <3> HIDE DEF u
    <3> QED BY <1>1, <3>3, QuietTwice
  <2> HIDE DEF u
  <2>3. Quiet(SetState(u, m.state, None), u)
    BY <1>0, <2>2, SetStateIsQuiet DEF Quiet
  <2> QED BY <2>1, <2>2, <2>3, QuietTwice
<1> QED BY <1>2, <1>3

-----------------------------------------------------------------------------
(* The kernel                                                              *)

\* One port changes, and neither loses a header that is claimed nor claims one.
LEMMA PortChangeIsSound ==
    ASSUME NEW s, Sound(s), NEW p \in Ports, NEW r \in PortRecord,
           r.claimed = s.port[p].claimed, r.claimed <= r.bufs
    PROVE  Sound([s EXCEPT !.port[p] = r])
<1> DEFINE t == [s EXCEPT !.port[p] = r]
<1>1. IsComp(t)
  BY DEF Sound, IsComp, Fields
<1>2. /\ t.port = [s.port EXCEPT ![p] = r] /\ t.held = s.held /\ t.callbacks = s.callbacks
      /\ s.port \in [Ports -> PortRecord]
  BY DEF Sound, IsComp, Fields
<1> HIDE DEF t
<1>3. ASSUME NEW q \in Ports
      PROVE  /\ t.port[q].claimed = t.held[q] + Count(t.callbacks, q)
             /\ t.port[q].claimed <= t.port[q].bufs
  <2>1. t.port[q] = IF q = p THEN r ELSE s.port[q]
    BY <1>2
  <2>2. /\ s.port[q].claimed = s.held[q] + Count(s.callbacks, q)
        /\ s.port[q].claimed <= s.port[q].bufs
    BY DEF Sound, Accounted
  <2> QED BY <1>2, <2>1, <2>2
<1>4. Accounted(t)
  BY <1>3 DEF Accounted
<1> QED BY <1>1, <1>4 DEF Sound, t

\* A port of a state is a record, with no more claimed than there is.
LEMMA PortOf ==
    ASSUME NEW s, Sound(s), NEW p \in Ports
    PROVE  /\ s.port[p] \in PortRecord
           /\ s.port[p].claimed \in Nat
           /\ s.port[p].claimed <= s.port[p].bufs
<1>1. s.port[p] \in PortRecord /\ s.held[p] \in Nat /\ s.callbacks \in Seq(Callbacks)
  BY DEF Sound, IsComp
<1>2. Count(s.callbacks, p) \in Nat
  BY <1>1, CountType
<1> QED BY <1>1, <1>2 DEF Sound, Accounted

\* The flags of a port are nobody's headers.
LEMMA FlagsAreSound ==
    ASSUME NEW s, Sound(s), NEW p \in Ports
    PROVE  /\ Sound([s EXCEPT !.port[p] = SetDisabled(@)])
           /\ Sound([s EXCEPT !.port[p] = SetEnabled(@)])
           /\ Sound([s EXCEPT !.port[p] = GoingToDisabled(@)])
           /\ Sound([s EXCEPT !.port[p] = GoingToEnabled(@)])
           /\ Sound([s EXCEPT !.port[p].flushing = TRUE])
           /\ Sound([s EXCEPT !.port[p].flushing = FALSE])
<1> PICK r : r = s.port[p]
  OBVIOUS
<1>1. r \in PortRecord /\ r.claimed <= r.bufs
  BY PortOf
<1>2. ASSUME NEW q \in {SetDisabled(r), SetEnabled(r), GoingToDisabled(r), GoingToEnabled(r),
                        [r EXCEPT !.flushing = TRUE], [r EXCEPT !.flushing = FALSE]}
      PROVE  Sound([s EXCEPT !.port[p] = q])
  <2>1. q \in PortRecord /\ q.claimed = r.claimed /\ q.claimed <= q.bufs
    BY <1>1 DEF PortRecord, SetDisabled, SetEnabled, GoingToDisabled, GoingToEnabled
  <2> QED BY <2>1, PortChangeIsSound
<1> QED BY <1>2

\* The counter of the ports still to complete, and what the client hears.
LEMMA CountDownIsQuiet ==
    ASSUME NEW s, IsComp(s), NEW c, NEW p
    PROVE  Quiet(CountDown(s, c, p), s)
<1> DEFINE checked == Expect(s, s.completion > 0, "cmd_completion_count_ > 0")
           t == [checked EXCEPT !.completion = @ - 1]
<1>1. Quiet(checked, s)
  BY ExpectIsQuiet
<1>2. Quiet(t, s)
  <2> HIDE DEF checked
  <2> PICK k : k = checked.completion - 1
    OBVIOUS
  <2>0. IsComp(checked)
    BY <1>1 DEF Quiet
  <2>1. k \in Int
    <3>1. checked.completion \in Int
      BY <2>0 DEF IsComp
    <3> QED BY <3>1
  <2>2. IsComp([checked EXCEPT !.completion = k])
    BY <2>0, <2>1 DEF IsComp, Fields
  <2>3. Same([checked EXCEPT !.completion = k], checked)
    BY <2>0 DEF Same, IsComp, Fields
  <2>4. Quiet([checked EXCEPT !.completion = k], checked)
    BY <2>2, <2>3 DEF Quiet
  <2> QED BY <2>4, <1>1, QuietTwice
<1>3. CountDown(s, c, p) =
        CASE t.completion > 0 -> Event(t, c, p, None)
          [] t.completion = 0 -> CompleteCommand(t, c, p)
          [] OTHER -> t
  BY DEF CountDown, CompletionCountPositive
<1> HIDE DEF t
<1>4. t.completion \in Int
  BY <1>2 DEF Quiet, IsComp
<1>5. CASE t.completion > 0
  <2>1. CountDown(s, c, p) = Event(t, c, p, None)
    BY <1>3, <1>4, <1>5
  <2> QED BY <2>1, <1>2, ReportIsQuiet
<1>6. CASE t.completion = 0
  <2>1. CountDown(s, c, p) = CompleteCommand(t, c, p)
    BY <1>3, <1>4, <1>6
  <2>2. Quiet(CompleteCommand(t, c, p), t)
    BY <1>2, CompleteCommandIsQuiet DEF Quiet
  <2> QED BY <2>1, <2>2, <1>2, QuietTwice
<1>7. CASE t.completion < 0
  <2>1. CountDown(s, c, p) = t
    BY <1>3, <1>4, <1>7
  <2> QED BY <2>1, <1>2
<1> QED BY <1>4, <1>5, <1>6, <1>7

\* complete_port_disable leaves the headers alone.
LEMMA CompletePortDisableIsSound ==
    ASSUME NEW s, Sound(s), NEW p \in Ports
    PROVE  Sound(CompletePortDisable(s, p))
<1> DEFINE t == [s EXCEPT !.port[p] = SetDisabled(@)]
<1>1. Sound(t) /\ IsComp(t)
  BY FlagsAreSound DEF Sound
<1>2. CompletePortDisable(s, p) = CountDown(t, "PortDisable", p)
  BY DEF CompletePortDisable
<1> HIDE DEF t
<1> QED BY <1>1, <1>2, CountDownIsQuiet, QuietIsSound

\* complete_port_enable leaves the headers alone.
LEMMA CompletePortEnableIsSound ==
    ASSUME NEW s, Sound(s), NEW p \in Ports
    PROVE  Sound(CompletePortEnable(s, p))
<1> DEFINE t == [s EXCEPT !.port[p] = SetEnabled(@)]
           u == ToProcessor(t, PortCommand("PortEnable", p))
<1>1. Sound(t) /\ IsComp(t)
  BY FlagsAreSound DEF Sound
<1>2. CompletePortEnable(s, p) = CountDown(u, "PortEnable", p)
  BY DEF CompletePortEnable
<1> HIDE DEF t
<1>3. PortCommand("PortEnable", p) \in Messages
  BY StatesAreNamed DEF PortCommands
<1>4. Quiet(u, t)
  BY <1>1, <1>3, ToProcessorIsQuiet
<1>5. Sound(u) /\ IsComp(u)
  BY <1>1, <1>4, QuietIsSound DEF Sound
<1> HIDE DEF u
<1> QED BY <1>2, <1>5, CountDownIsQuiet, QuietIsSound

\* complete_port_flush leaves the headers alone.
LEMMA CompletePortFlushIsSound ==
    ASSUME NEW s, Sound(s), NEW p \in Ports
    PROVE  Sound(CompletePortFlush(s, p))
<1> DEFINE t == [s EXCEPT !.port[p].flushing = FALSE]
           told == Event(t, "Flush", p, None)
           checked == Expect(told, told.completion > 0, "cmd_completion_count_ > 0")
           u == [checked EXCEPT !.completion = @ - 1]
<1>1. Sound(t) /\ IsComp(t)
  BY FlagsAreSound DEF Sound
<1>2. CompletePortFlush(s, p) =
        IF u.completion = 0 THEN CompleteCommand(u, "Flush", p) ELSE u
  BY DEF CompletePortFlush, CompletionCountPositive
<1> HIDE DEF t
<1>3. Sound(told) /\ IsComp(told)
  BY <1>1, EventIsQuiet, QuietIsSound DEF Sound
<1> HIDE DEF told
<1>4. Sound(checked) /\ IsComp(checked)
  BY <1>3, ExpectIsQuiet, QuietIsSound DEF Sound
<1> HIDE DEF checked
<1>5. Quiet(u, checked)
  BY <1>4 DEF Quiet, Same, IsComp, Fields
<1>6. Sound(u) /\ IsComp(u)
  BY <1>4, <1>5, QuietIsSound DEF Sound
<1> HIDE DEF u
<1>7. Sound(CompleteCommand(u, "Flush", p))
  BY <1>6, CompleteCommandIsQuiet, QuietIsSound
<1> QED BY <1>2, <1>6, <1>7

\* So does the end of a transition that had to wait for buffers.
LEMMA CompleteOngoingTransitionsIsSound ==
    ASSUME NEW s, Sound(s)
    PROVE  Sound(CompleteOngoingTransitions(s))
<1>1. \A st \in MainStates : Sound(CompleteTransition(s, "kernel", st))
  BY CompleteTransitionIsQuiet, QuietIsSound DEF Sound, Servants
<1>2. "Loaded" \in MainStates /\ "Idle" \in MainStates
  BY DEF MainStates
<1>3. \/ CompleteOngoingTransitions(s) = CompleteTransition(s, "kernel", "Loaded")
      \/ CompleteOngoingTransitions(s) = CompleteTransition(s, "kernel", "Idle")
      \/ CompleteOngoingTransitions(s) = s
  BY DEF CompleteOngoingTransitions
<1> QED BY <1>1, <1>2, <1>3

\* The headers of drained callbacks are given back, and those only.
LEMMA DrainCallbacksIsSound ==
    ASSUME NEW s, Sound(s), NEW target
    PROVE  Sound(DrainCallbacks(s, target))
<1> DEFINE gone == {q \in Callbacks : target \in {ALL, q}}
           left == Only(s.callbacks, Callbacks \ gone)
           returned(p) == IF p \in gone THEN Count(s.callbacks, p) ELSE 0
           ports == [p \in Ports |-> [s.port[p] EXCEPT !.claimed = @ - returned(p)]]
           t == Expect(s, Dummy \notin ToSet(s.callbacks), "NULL != p_hdr")
           u == [t EXCEPT !.callbacks = left, !.port = ports]
<1>1. Quiet(t, s) /\ IsComp(t) /\ IsComp(s)
  BY ExpectIsQuiet DEF Sound, Quiet
<1>2. DrainCallbacks(s, target) = u
  <2>1. t.callbacks = s.callbacks
    BY <1>1 DEF Quiet, Same
  <2>2. DrainCallbacks(s, target) =
          [t EXCEPT !.callbacks = Only(t.callbacks, Callbacks \ gone), !.port = ports]
    BY DEF DrainCallbacks, Callbacks
  <2> HIDE DEF t, ports
  <2> QED BY <2>1, <2>2
<1>3. s.callbacks \in Seq(Callbacks) /\ left \in Seq(Callbacks)
  BY <1>1, OnlyPicks DEF IsComp
<1>4. ASSUME NEW p \in Ports
      PROVE  /\ Count(left, p) + returned(p) = Count(s.callbacks, p)
             /\ Count(left, p) \in Nat /\ returned(p) \in Nat
  <2>1. p \in Callbacks \ gone <=> p \notin gone
    BY DEF Callbacks
  <2> HIDE DEF gone
  <2> QED BY <1>3, <2>1, CountOnly, CountType
<1> HIDE DEF t, left, gone, returned
<1>5. ASSUME NEW p \in Ports
      PROVE  /\ ports[p] \in PortRecord
             /\ ports[p].claimed = s.held[p] + Count(left, p)
             /\ ports[p].claimed <= ports[p].bufs
  <2>1. s.port[p] \in PortRecord /\ s.held[p] \in Nat
    BY <1>1 DEF IsComp
  <2>2. /\ s.port[p].claimed = s.held[p] + Count(s.callbacks, p)
        /\ s.port[p].claimed <= s.port[p].bufs
    BY DEF Sound, Accounted
  <2> QED BY <2>1, <2>2, <1>4 DEF PortRecord
<1>6. ports \in [Ports -> PortRecord]
  BY <1>5
<1> HIDE DEF ports
<1>7. /\ u.port = ports /\ u.held = s.held /\ u.callbacks = left /\ IsComp(u)
  BY <1>1, <1>3, <1>6 DEF Quiet, Same, IsComp, Fields
<1>8. Accounted(u)
  BY <1>5, <1>7 DEF Accounted
<1> QED BY <1>2, <1>7, <1>8 DEF Sound

\* Disabling a port returns what callbacks have brought, and no more.
LEMMA DisablePortIsSound ==
    ASSUME NEW s, Sound(s), NEW p \in Ports, NEW i
    PROVE  Sound(DisablePort(s, p, i))
<1> DEFINE d == DrainCallbacks(s, i)
           drained == [d EXCEPT !.port[p] = GoingToDisabled(@)]
           told == ToProcessor(drained, PortCommand("PortDisable", p))
<1>1. Sound(d)
  BY DrainCallbacksIsSound
<1>2. \/ DisablePort(s, p, i) = CompletePortDisable(s, p)
      \/ DisablePort(s, p, i) = CompletePortDisable(d, p)
      \/ DisablePort(s, p, i) = told
      \/ DisablePort(s, p, i) = drained
  BY DEF DisablePort
<1> HIDE DEF d
<1>3. Sound(drained) /\ IsComp(drained)
  BY <1>1, FlagsAreSound DEF Sound
<1> HIDE DEF drained
<1>4. Sound(told)
  <2>1. PortCommand("PortDisable", p) \in Messages
    BY StatesAreNamed DEF PortCommands
  <2> QED BY <2>1, <1>3, ToProcessorIsQuiet, QuietIsSound
<1> HIDE DEF told
<1> QED BY <1>1, <1>2, <1>3, <1>4, CompletePortDisableIsSound

\* Enabling a port takes no header.
LEMMA EnablePortIsSound ==
    ASSUME NEW s, Sound(s), NEW p \in Ports, NEW i
    PROVE  Sound(EnablePort(s, p, i))
<1> DEFINE going == [s EXCEPT !.port[p] = GoingToEnabled(@)]
<1>1. \/ EnablePort(s, p, i) = CompletePortEnable(s, p)
      \/ EnablePort(s, p, i) = CompleteTransition(going, "kernel", "Idle")
      \/ EnablePort(s, p, i) = going
  BY DEF EnablePort
<1>2. Sound(going) /\ IsComp(going)
  BY FlagsAreSound DEF Sound
<1> HIDE DEF going
<1>3. Sound(CompleteTransition(going, "kernel", "Idle"))
  <2>1. "kernel" \in Servants /\ "Idle" \in MainStates
    BY DEF Servants, MainStates
  <2> QED BY <2>1, <1>2, CompleteTransitionIsQuiet, QuietIsSound
<1> QED BY <1>1, <1>2, <1>3, CompletePortEnableIsSound

\* Flushing a port returns what callbacks have brought, and no more.
LEMMA FlushPortIsSound ==
    ASSUME NEW s, Sound(s), NEW p \in Ports, NEW i
    PROVE  Sound(FlushPort(s, p, i))
<1> DEFINE returned == IF /\ s.port[p].enabled /\ s.port[p].bufs > 0
                          /\ s.cur \in {"Executing", "Pause"}
                       THEN DrainCallbacks(s, i)
                       ELSE s
           waits == [returned EXCEPT !.port[p].flushing = TRUE]
           told == ToProcessor(waits, PortCommand("Flush", p))
<1>1. FlushPort(s, p, i) \in {CompletePortFlush(returned, p), told}
  BY DEF FlushPort
<1>2. Sound(returned)
  BY DrainCallbacksIsSound
<1> HIDE DEF returned
<1>3. Sound(waits) /\ IsComp(waits)
  BY <1>2, FlagsAreSound DEF Sound
<1> HIDE DEF waits
<1>4. Sound(told)
  <2>1. PortCommand("Flush", p) \in Messages
    BY StatesAreNamed DEF PortCommands
  <2> QED BY <2>1, <1>3, ToProcessorIsQuiet, QuietIsSound
<1> HIDE DEF told
<1> QED BY <1>1, <1>2, <1>4, CompletePortFlushIsSound

\* What krn_stop_and_return does for a port.
StopPort(s, p) ==
    IF s.port[p].enabled /\ s.port[p].bufs > 0
    THEN ToProcessor(DrainCallbacks(s, ALL), PortCommand("Flush", p))
    ELSE s

\* Stopping returns what callbacks have brought, and no more.
LEMMA StopPortIsSound ==
    ASSUME NEW s, Sound(s), NEW p \in Ports
    PROVE  Sound(StopPort(s, p))
<1> PICK d : d = DrainCallbacks(s, ALL)
  OBVIOUS
<1>1. Sound(d) /\ IsComp(d)
  BY DrainCallbacksIsSound DEF Sound
<1>2. PortCommand("Flush", p) \in Messages
  BY StatesAreNamed DEF PortCommands
<1>3. Sound(ToProcessor(d, PortCommand("Flush", p)))
  BY <1>1, <1>2, ToProcessorIsQuiet, QuietIsSound
<1> QED BY <1>3 DEF StopPort

\* The processor's headers become the kernel's callbacks.
LEMMA ReleaseAllIsSound ==
    ASSUME NEW s, Sound(s), NEW p \in Ports
    PROVE  Sound(ReleaseAll(s, p))
<1> DEFINE released == s.callbacks \o [i \in 1 .. s.held[p] |-> p]
           holds == [s.held EXCEPT ![p] = 0]
           t == [s EXCEPT !.held = holds, !.callbacks = released]
<1>1. ReleaseAll(s, p) = t
  BY DEF ReleaseAll
<1>2. IsComp(s) /\ s.held \in [Ports -> Nat] /\ s.callbacks \in Seq(Callbacks)
      /\ p \in Callbacks
  BY DEF Sound, IsComp, Callbacks
<1>3. ASSUME NEW q \in Ports
      PROVE  /\ released \in Seq(Callbacks)
             /\ Count(released, q) = Count(s.callbacks, q) + IF q = p THEN s.held[p] ELSE 0
  BY <1>2, CountRepeated
<1>4. released \in Seq(Callbacks)
  BY <1>3
<1> HIDE DEF released
<1>5. t.port = s.port /\ t.held = holds /\ t.callbacks = released /\ IsComp(t)
  BY <1>2, <1>4 DEF IsComp, Fields
<1> HIDE DEF t
<1>6. ASSUME NEW q \in Ports
      PROVE  /\ t.port[q].claimed = t.held[q] + Count(t.callbacks, q)
             /\ t.port[q].claimed <= t.port[q].bufs
  <2>1. /\ s.port[q].claimed = s.held[q] + Count(s.callbacks, q)
        /\ s.port[q].claimed <= s.port[q].bufs
    BY DEF Sound, Accounted
  <2>2. Count(s.callbacks, q) \in Nat /\ s.held[q] \in Nat
    BY <1>2, CountType
  <2>3. holds[q] + Count(released, q) = s.held[q] + Count(s.callbacks, q)
    BY <1>2, <1>3, <2>2
  <2> QED BY <1>5, <2>1, <2>3
<1>7. Accounted(t)
  BY <1>6 DEF Accounted
<1> QED BY <1>1, <1>5, <1>7 DEF Sound

-----------------------------------------------------------------------------
(* The loops over the ports                                                *)

Kinds == {"disable", "enable", "flush", "stop", "release"}

\* One turn of a loop.
Turn(kind, s, p) ==
    CASE kind = "disable" -> DisablePort(s, p, p)
      [] kind = "enable" -> EnablePort(s, p, p)
      [] kind = "flush" -> FlushPort(s, p, p)
      [] kind = "stop" -> StopPort(s, p)
      [] kind = "release" -> ReleaseAll(s, p)

\* The turn of each kind of loop.
LEMMA TurnIs ==
    ASSUME NEW s, NEW p
    PROVE  /\ Turn("disable", s, p) = DisablePort(s, p, p)
           /\ Turn("enable", s, p) = EnablePort(s, p, p)
           /\ Turn("flush", s, p) = FlushPort(s, p, p)
           /\ Turn("stop", s, p) = StopPort(s, p)
           /\ Turn("release", s, p) = ReleaseAll(s, p)
BY DEF Turn

\* Every turn keeps the headers accounted for.
LEMMA TurnIsSound ==
    ASSUME NEW kind \in Kinds, NEW s, Sound(s), NEW p \in Ports
    PROVE  Sound(Turn(kind, s, p))
BY TurnIs, DisablePortIsSound, EnablePortIsSound, FlushPortIsSound, StopPortIsSound,
   ReleaseAllIsSound DEF Kinds

\* f is the function of a loop, up to n.
IsLoop(f, kind, s, n) ==
    f = [k \in 0 .. n |-> IF k = 0 THEN s ELSE Turn(kind, f[k - 1], PortList[k])]

\* There is such a function, by induction on n.
LEMMA LoopExists ==
    ASSUME NEW kind, NEW s, NEW n \in Nat
    PROVE  \E f : IsLoop(f, kind, s, n)
<1> DEFINE G == {k \in Nat : \E f : IsLoop(f, kind, s, k)}
<1>1. 0 \in G
  <2>1. IsLoop([k \in 0 .. 0 |-> s], kind, s, 0)
    BY DEF IsLoop
  <2> QED BY <2>1
<1>2. ASSUME NEW k \in Nat, k \in G PROVE k + 1 \in G
  <2>1. PICK f : IsLoop(f, kind, s, k)
    BY <1>2
  <2> DEFINE last == Turn(kind, f[k], PortList[k + 1])
             g == [i \in 0 .. k + 1 |-> IF i = k + 1 THEN last ELSE f[i]]
  <2>2. ASSUME NEW i \in 0 .. k + 1
        PROVE  g[i] = IF i = 0 THEN s ELSE Turn(kind, g[i - 1], PortList[i])
    <3>1. CASE i = k + 1
      <4>1. g[i] = last /\ i # 0 /\ i - 1 = k /\ g[k] = f[k]
        BY <3>1
      <4> QED BY <4>1, <3>1
    <3>2. CASE i # k + 1
      <4>1. i \in 0 .. k /\ g[i] = f[i] /\ (i # 0 => i - 1 \in 0 .. k /\ g[i - 1] = f[i - 1])
        BY <3>2
      <4>2. f[i] = IF i = 0 THEN s ELSE Turn(kind, f[i - 1], PortList[i])
        BY <2>1, <4>1 DEF IsLoop
      <4> QED BY <4>1, <4>2
    <3> QED BY <3>1, <3>2
  <2> HIDE DEF last
  <2>3. IsLoop(g, kind, s, k + 1)
    BY <2>2 DEF IsLoop
  <2> QED BY <2>3
<1> HIDE DEF G
<1>3. n \in G
  BY <1>1, <1>2, NatSets
<1> QED BY <1>3 DEF G

\* A loop keeps what every turn of it keeps.
LEMMA LoopIsSound ==
    ASSUME NEW kind \in Kinds, NEW s, Sound(s), NEW f,
           IsLoop(f, kind, s, Len(PortList))
    PROVE  Sound(f[Len(PortList)])
<1> DEFINE n == Len(PortList)
           G == {k \in Nat : k <= n => Sound(f[k])}
<1>1. n \in Nat /\ \A k \in 1 .. n : PortList[k] \in Ports
  BY PortAssumption
<1> HIDE DEF n
<1>2. \A k \in 0 .. n : f[k] = IF k = 0 THEN s ELSE Turn(kind, f[k - 1], PortList[k])
  BY DEF IsLoop, n
<1>3. 0 \in G
  BY <1>1, <1>2
<1>4. ASSUME NEW k \in Nat, k \in G PROVE k + 1 \in G
  <2> SUFFICES ASSUME k + 1 <= n PROVE Sound(f[k + 1])
    OBVIOUS
  <2>1. Sound(f[k]) /\ PortList[k + 1] \in Ports
    BY <1>1, <1>4
  <2>2. f[k + 1] = Turn(kind, f[k], PortList[k + 1])
    BY <1>1, <1>2
  <2> QED BY <2>1, <2>2, TurnIsSound
<1> HIDE DEF G
<1>5. n \in G
  BY <1>1, <1>3, <1>4, NatSets
<1> QED BY <1>1, <1>5 DEF G, n

\* The loop of a PortDisable for all ports.
LEMMA DisableLoopIs ==
    ASSUME NEW s
    PROVE  \E f : /\ IsLoop(f, "disable", s, Len(PortList))
               /\ ForEachPort(LAMBDA t, p : DisablePort(t, p, p), s) = f[Len(PortList)]
<1> DEFINE n == Len(PortList)
           after == CHOOSE g : g = [k \in 0 .. n |->
                        IF k = 0 THEN s ELSE DisablePort(g[k - 1], PortList[k], PortList[k])]
<1>0. n \in Nat
  BY PortAssumption
<1>1. PICK f : IsLoop(f, "disable", s, n)
  BY <1>0, LoopExists
<1>2. f = [k \in 0 .. n |-> IF k = 0 THEN s ELSE DisablePort(f[k - 1], PortList[k], PortList[k])]
  BY <1>1, TurnIs DEF IsLoop
<1>3. after = [k \in 0 .. n |->
                IF k = 0 THEN s ELSE DisablePort(after[k - 1], PortList[k], PortList[k])]
  BY <1>2
<1>4. ForEachPort(LAMBDA t, p : DisablePort(t, p, p), s) = after[n]
  BY DEF ForEachPort
<1> HIDE DEF after
<1>5. IsLoop(after, "disable", s, n)
  BY <1>3, TurnIs DEF IsLoop
<1> QED BY <1>4, <1>5

\* A PortDisable for all ports keeps the headers accounted for.
LEMMA DisableLoopIsSound ==
    ASSUME NEW s, Sound(s)
    PROVE  Sound(ForEachPort(LAMBDA t, p : DisablePort(t, p, p), s))
BY DisableLoopIs, LoopIsSound DEF Kinds

\* The loop of a PortEnable for all ports.
LEMMA EnableLoopIs ==
    ASSUME NEW s
    PROVE  \E f : /\ IsLoop(f, "enable", s, Len(PortList))
               /\ ForEachPort(LAMBDA t, p : EnablePort(t, p, p), s) = f[Len(PortList)]
<1> DEFINE n == Len(PortList)
           after == CHOOSE g : g = [k \in 0 .. n |->
                        IF k = 0 THEN s ELSE EnablePort(g[k - 1], PortList[k], PortList[k])]
<1>0. n \in Nat
  BY PortAssumption
<1>1. PICK f : IsLoop(f, "enable", s, n)
  BY <1>0, LoopExists
<1>2. f = [k \in 0 .. n |-> IF k = 0 THEN s ELSE EnablePort(f[k - 1], PortList[k], PortList[k])]
  BY <1>1, TurnIs DEF IsLoop
<1>3. after = [k \in 0 .. n |->
                IF k = 0 THEN s ELSE EnablePort(after[k - 1], PortList[k], PortList[k])]
  BY <1>2
<1>4. ForEachPort(LAMBDA t, p : EnablePort(t, p, p), s) = after[n]
  BY DEF ForEachPort
<1> HIDE DEF after
<1>5. IsLoop(after, "enable", s, n)
  BY <1>3, TurnIs DEF IsLoop
<1> QED BY <1>4, <1>5

\* A PortEnable for all ports keeps the headers accounted for.
LEMMA EnableLoopIsSound ==
    ASSUME NEW s, Sound(s)
    PROVE  Sound(ForEachPort(LAMBDA t, p : EnablePort(t, p, p), s))
BY EnableLoopIs, LoopIsSound DEF Kinds

\* The loop of a Flush for all ports.
LEMMA FlushLoopIs ==
    ASSUME NEW s
    PROVE  \E f : /\ IsLoop(f, "flush", s, Len(PortList))
               /\ ForEachPort(LAMBDA t, p : FlushPort(t, p, p), s) = f[Len(PortList)]
<1> DEFINE n == Len(PortList)
           after == CHOOSE g : g = [k \in 0 .. n |->
                        IF k = 0 THEN s ELSE FlushPort(g[k - 1], PortList[k], PortList[k])]
<1>0. n \in Nat
  BY PortAssumption
<1>1. PICK f : IsLoop(f, "flush", s, n)
  BY <1>0, LoopExists
<1>2. f = [k \in 0 .. n |-> IF k = 0 THEN s ELSE FlushPort(f[k - 1], PortList[k], PortList[k])]
  BY <1>1, TurnIs DEF IsLoop
<1>3. after = [k \in 0 .. n |->
                IF k = 0 THEN s ELSE FlushPort(after[k - 1], PortList[k], PortList[k])]
  BY <1>2
<1>4. ForEachPort(LAMBDA t, p : FlushPort(t, p, p), s) = after[n]
  BY DEF ForEachPort
<1> HIDE DEF after
<1>5. IsLoop(after, "flush", s, n)
  BY <1>3, TurnIs DEF IsLoop
<1> QED BY <1>4, <1>5

\* A Flush of all ports keeps the headers accounted for.
LEMMA FlushLoopIsSound ==
    ASSUME NEW s, Sound(s)
    PROVE  Sound(ForEachPort(LAMBDA t, p : FlushPort(t, p, p), s))
BY FlushLoopIs, LoopIsSound DEF Kinds

\* The loop of krn_stop_and_return.
LEMMA StopLoopIs ==
    ASSUME NEW s
    PROVE  \E f : /\ IsLoop(f, "stop", s, Len(PortList))
               /\ ForEachPort(StopPort, s) = f[Len(PortList)]
<1> DEFINE n == Len(PortList)
           after == CHOOSE g : g = [k \in 0 .. n |->
                        IF k = 0 THEN s ELSE StopPort(g[k - 1], PortList[k])]
<1>0. n \in Nat
  BY PortAssumption
<1>1. PICK f : IsLoop(f, "stop", s, n)
  BY <1>0, LoopExists
<1>2. f = [k \in 0 .. n |-> IF k = 0 THEN s ELSE StopPort(f[k - 1], PortList[k])]
  BY <1>1, TurnIs DEF IsLoop
<1>3. after = [k \in 0 .. n |-> IF k = 0 THEN s ELSE StopPort(after[k - 1], PortList[k])]
  BY <1>2
<1>4. ForEachPort(StopPort, s) = after[n]
  BY DEF ForEachPort
<1> HIDE DEF after
<1>5. IsLoop(after, "stop", s, n)
  BY <1>3, TurnIs DEF IsLoop
<1> QED BY <1>4, <1>5

\* Stopping keeps the headers accounted for.
LEMMA StopLoopIsSound ==
    ASSUME NEW s, Sound(s)
    PROVE  Sound(ForEachPort(StopPort, s))
BY StopLoopIs, LoopIsSound DEF Kinds

\* The processor's answer to a command for all ports.
LEMMA ReleaseLoopIs ==
    ASSUME NEW s
    PROVE  \E f : /\ IsLoop(f, "release", s, Len(PortList))
               /\ ForEachPort(ReleaseAll, s) = f[Len(PortList)]
<1> DEFINE n == Len(PortList)
           after == CHOOSE g : g = [k \in 0 .. n |->
                        IF k = 0 THEN s ELSE ReleaseAll(g[k - 1], PortList[k])]
<1>0. n \in Nat
  BY PortAssumption
<1>1. PICK f : IsLoop(f, "release", s, n)
  BY <1>0, LoopExists
<1>2. f = [k \in 0 .. n |-> IF k = 0 THEN s ELSE ReleaseAll(f[k - 1], PortList[k])]
  BY <1>1, TurnIs DEF IsLoop
<1>3. after = [k \in 0 .. n |-> IF k = 0 THEN s ELSE ReleaseAll(after[k - 1], PortList[k])]
  BY <1>2
<1>4. ForEachPort(ReleaseAll, s) = after[n]
  BY DEF ForEachPort
<1> HIDE DEF after
<1>5. IsLoop(after, "release", s, n)
  BY <1>3, TurnIs DEF IsLoop
<1> QED BY <1>4, <1>5

\* Releasing keeps the headers accounted for.
LEMMA ReleaseLoopIsSound ==
    ASSUME NEW s, Sound(s)
    PROVE  Sound(ForEachPort(ReleaseAll, s))
BY ReleaseLoopIs, LoopIsSound DEF Kinds

-----------------------------------------------------------------------------
(* The commands of the kernel and the processor                            *)

\* OMX_CommandPortDisable for one port or for all.
LEMMA DispatchPortDisableIsSound ==
    ASSUME NEW s, Sound(s), NEW target \in Ports \cup {ALL}
    PROVE  Sound(DispatchPortDisable(s, target))
<1> DEFINE t == [s EXCEPT !.completion = CompletionCount(target)]
<1>1. CompletionCount(target) \in Int
  BY PortAssumption DEF CompletionCount
<1>2. Quiet(t, s)
  BY <1>1 DEF Quiet, Same, Sound, IsComp, Fields
<1>3. Sound(t)
  BY <1>2, QuietIsSound
<1>4. DispatchPortDisable(s, target)
        = CompleteOngoingTransitions(ForTargets(DisablePort, t, target))
  BY DEF DispatchPortDisable
<1> HIDE DEF t
<1>5. CASE target = ALL
  <2>1. ForTargets(DisablePort, t, target) = ForEachPort(LAMBDA u, p : DisablePort(u, p, p), t)
    BY <1>5 DEF ForTargets
  <2> QED BY <2>1, <1>3, <1>4, DisableLoopIsSound, CompleteOngoingTransitionsIsSound
<1>6. CASE target # ALL
  <2>1. ForTargets(DisablePort, t, target) = DisablePort(t, target, FirstPort) /\ target \in Ports
    BY <1>6 DEF ForTargets
  <2> QED BY <2>1, <1>3, <1>4, DisablePortIsSound, CompleteOngoingTransitionsIsSound
<1> QED BY <1>5, <1>6

\* OMX_CommandPortEnable for one port or for all.
LEMMA DispatchPortEnableIsSound ==
    ASSUME NEW s, Sound(s), NEW target \in Ports \cup {ALL}
    PROVE  Sound(DispatchPortEnable(s, target))
<1> DEFINE t == [s EXCEPT !.completion = CompletionCount(target)]
<1>1. CompletionCount(target) \in Int
  BY PortAssumption DEF CompletionCount
<1>2. Quiet(t, s)
  BY <1>1 DEF Quiet, Same, Sound, IsComp, Fields
<1>3. Sound(t)
  BY <1>2, QuietIsSound
<1>4. DispatchPortEnable(s, target) = ForTargets(EnablePort, t, target)
  BY DEF DispatchPortEnable
<1> HIDE DEF t
<1>5. CASE target = ALL
  <2>1. ForTargets(EnablePort, t, target) = ForEachPort(LAMBDA u, p : EnablePort(u, p, p), t)
    BY <1>5 DEF ForTargets
  <2> QED BY <2>1, <1>3, <1>4, EnableLoopIsSound
<1>6. CASE target # ALL
  <2>1. ForTargets(EnablePort, t, target) = EnablePort(t, target, FirstPort) /\ target \in Ports
    BY <1>6 DEF ForTargets
  <2> QED BY <2>1, <1>3, <1>4, EnablePortIsSound
<1> QED BY <1>5, <1>6

\* OMX_CommandFlush for one port or for all.
LEMMA DispatchPortFlushIsSound ==
    ASSUME NEW s, Sound(s), NEW target \in Ports \cup {ALL}
    PROVE  Sound(DispatchPortFlush(s, target))
<1> DEFINE t == [s EXCEPT !.completion = CompletionCount(target)]
<1>1. CompletionCount(target) \in Int
  BY PortAssumption DEF CompletionCount
<1>2. Quiet(t, s)
  BY <1>1 DEF Quiet, Same, Sound, IsComp, Fields
<1>3. Sound(t)
  BY <1>2, QuietIsSound
<1>4. DispatchPortFlush(s, target) = ForTargets(FlushPort, t, target)
  BY DEF DispatchPortFlush
<1> HIDE DEF t
<1>5. CASE target = ALL
  <2>1. ForTargets(FlushPort, t, target) = ForEachPort(LAMBDA u, p : FlushPort(u, p, p), t)
    BY <1>5 DEF ForTargets
  <2> QED BY <2>1, <1>3, <1>4, FlushLoopIsSound
<1>6. CASE target # ALL
  <2>1. ForTargets(FlushPort, t, target) = FlushPort(t, target, FirstPort) /\ target \in Ports
    BY <1>6 DEF ForTargets
  <2> QED BY <2>1, <1>3, <1>4, FlushPortIsSound
<1> QED BY <1>5, <1>6

\* krn_stop_and_return.
LEMMA StopAndReturnIsSound ==
    ASSUME NEW s, Sound(s)
    PROVE  Sound(StopAndReturn(s))
<1>1. StopAndReturn(s) = ForEachPort(StopPort, s)
  BY DEF StopAndReturn, ForEachPort, StopPort
<1> QED BY <1>1, StopLoopIsSound

\* A servant's report is no header.
LEMMA ReportTransitionIsSound ==
    ASSUME NEW s, Sound(s), NEW servant \in Servants, NEW st \in MainStates
    PROVE  Sound(CompleteTransition(s, servant, st))
BY CompleteTransitionIsQuiet, QuietIsSound DEF Sound

\* The message without a header is none either.
LEMMA DummyIsSound ==
    ASSUME NEW s, Sound(s)
    PROVE  Sound([s EXCEPT !.callbacks = Append(@, Dummy)])
<1> DEFINE more == Append(s.callbacks, Dummy)
           t == [s EXCEPT !.callbacks = more]
<1>1. IsComp(s) /\ s.callbacks \in Seq(Callbacks) /\ Dummy \in Callbacks
  BY DEF Sound, IsComp, Callbacks
<1>2. more \in Seq(Callbacks) /\ \A p \in Ports : Count(more, p) = Count(s.callbacks, p)
  <2>1. more \in Seq(Callbacks)
    BY <1>1
  <2>2. ASSUME NEW p \in Ports PROVE Count(more, p) = Count(s.callbacks, p)
    <3>1. p # Dummy
      BY KernelAssumption
    <3> QED BY <1>1, <3>1, CountAppend, CountType
  <2> QED BY <2>1, <2>2
<1> HIDE DEF more
<1>3. t.port = s.port /\ t.held = s.held /\ t.callbacks = more /\ IsComp(t)
  BY <1>1, <1>2 DEF IsComp, Fields
<1>4. Accounted(t)
  BY <1>2, <1>3 DEF Sound, Accounted
<1> QED BY <1>3, <1>4 DEF Sound, more

\* The kernel's part of any transition.
LEMMA KernelStateSetIsSound ==
    ASSUME NEW s, Sound(s), NEW st \in MainStates
    PROVE  Sound(KernelStateSet(s, st))
<1> DEFINE stopped == StopAndReturn(s)
           paused == [s EXCEPT !.callbacks = Append(@, Dummy)]
           refused == Expect(s, FALSE, "Unhandled transition in kernel servant")
           done(t) == CompleteTransition(t, "kernel", st)
<1>1. \/ KernelStateSet(s, st) = refused
      \/ KernelStateSet(s, st) = s
      \/ KernelStateSet(s, st) = done(s)
      \/ KernelStateSet(s, st) = stopped
      \/ KernelStateSet(s, st) = done(stopped)
      \/ KernelStateSet(s, st) = done(paused)
  <2> PICK now : now = Reported(s.cur)
    OBVIOUS
  <2>1. KernelStateSet(s, st) =
          CASE <<now, st>> \notin Transitions -> refused
            [] <<now, st>> = <<"Loaded", "Idle">> ->
                  IF AllPopulated(s.port) THEN done(s) ELSE s
            [] <<now, st>> = <<"Idle", "Loaded">> ->
                  IF AllDepopulated(s.port) THEN done(s) ELSE s
            [] now \in {"Executing", "Pause"} /\ st = "Idle" ->
                  IF AllBuffersReturned(stopped.port) THEN done(stopped) ELSE stopped
            [] <<now, st>> = <<"Pause", "Executing">> -> done(paused)
            [] <<now, st>> = <<"Executing", "Executing">> -> s
            [] OTHER -> done(s)
    BY DEF KernelStateSet
  <2> HIDE DEF stopped, paused, refused, done
  <2> QED BY <2>1
<1>2. Sound(stopped) /\ Sound(paused) /\ Sound(refused)
  BY StopAndReturnIsSound, DummyIsSound, ExpectIsQuiet, QuietIsSound DEF Sound
<1> HIDE DEF stopped, paused, refused
<1>3. Sound(done(s)) /\ Sound(done(stopped)) /\ Sound(done(paused))
  <2>1. "kernel" \in Servants
    BY DEF Servants
  <2> QED BY <2>1, <1>2, ReportTransitionIsSound
<1> HIDE DEF done
<1> QED BY <1>1, <1>2, <1>3

\* The parameter of a command is a state or a target.
LEMMA ParamType ==
    ASSUME NEW c \in Messages
    PROVE  /\ c.cmd = "StateSet" => c.param \in MainStates
           /\ c.cmd \in PortCommands => c.param \in Ports \cup {ALL}
           /\ c.cmd = "StateSet" \/ c.cmd \in PortCommands
BY DEF Messages, StateSet, PortCommand, PortCommands

\* The kernel executes any command.
LEMMA KernelCommandIsSound ==
    ASSUME NEW s, Sound(s), NEW c \in Messages
    PROVE  Sound(KernelCommand(s, c))
<1>1. CASE c.cmd = "StateSet"
  BY <1>1, ParamType, KernelStateSetIsSound DEF KernelCommand
<1>2. CASE c.cmd = "PortDisable"
  BY <1>2, ParamType, DispatchPortDisableIsSound DEF KernelCommand, PortCommands
<1>3. CASE c.cmd = "PortEnable"
  BY <1>3, ParamType, DispatchPortEnableIsSound DEF KernelCommand, PortCommands
<1>4. CASE c.cmd = "Flush"
  BY <1>4, ParamType, DispatchPortFlushIsSound DEF KernelCommand, PortCommands
<1> QED BY <1>1, <1>2, <1>3, <1>4, ParamType DEF PortCommands

\* A callback has been taken from the queue, and its header not yet given back.
Taken(s, p) ==
    /\ IsComp(s)
    /\ \A q \in Ports :
        /\ s.port[q].claimed = s.held[q] + Count(s.callbacks, q) + IF q = p THEN 1 ELSE 0
        /\ s.port[q].claimed <= s.port[q].bufs

\* The header is given back: the port's count is right again.
LEMMA GivenBackIsSound ==
    ASSUME NEW s, NEW p \in Ports, Taken(s, p)
    PROVE  LET t == [s EXCEPT !.port[p].claimed = @ - 1]
               r == [s.port[p] EXCEPT !.claimed = @ - 1]
           IN  Sound(t) /\ t.port = [s.port EXCEPT ![p] = r]
<1> DEFINE r == [s.port[p] EXCEPT !.claimed = @ - 1]
           t == [s EXCEPT !.port[p] = r]
<1>1. IsComp(s) /\ s.port \in [Ports -> PortRecord] /\ r \in PortRecord
      /\ r.claimed = s.port[p].claimed - 1 /\ r.bufs = s.port[p].bufs
  <2>1. IsComp(s) /\ s.port \in [Ports -> PortRecord] /\ s.port[p] \in PortRecord
    BY DEF Taken, IsComp
  <2> QED BY <2>1 DEF PortRecord
<1> HIDE DEF r
<1>2. t.port = [s.port EXCEPT ![p] = r] /\ t.held = s.held /\ t.callbacks = s.callbacks
      /\ IsComp(t)
  BY <1>1 DEF IsComp, Fields
<1> HIDE DEF t
<1>3. ASSUME NEW q \in Ports
      PROVE  /\ t.port[q].claimed = t.held[q] + Count(t.callbacks, q)
             /\ t.port[q].claimed <= t.port[q].bufs
  <2>1. s.callbacks \in Seq(Callbacks) /\ s.held[q] \in Nat /\ s.port[q] \in PortRecord
    BY <1>1 DEF IsComp
  <2>2. Count(s.callbacks, q) \in Nat
    BY <2>1, CountType
  <2>3. /\ s.port[q].claimed = s.held[q] + Count(s.callbacks, q) + IF q = p THEN 1 ELSE 0
        /\ s.port[q].claimed <= s.port[q].bufs
        /\ s.port[q].bufs \in Int
    BY <2>1, PortAssumption DEF Taken, PortRecord
  <2>4. t.port[q] = IF q = p THEN r ELSE s.port[q]
    BY <1>1, <1>2
  <2>5. CASE q = p
    BY <1>1, <1>2, <2>1, <2>2, <2>3, <2>4, <2>5
  <2>6. CASE q # p
    BY <1>2, <2>1, <2>2, <2>3, <2>4, <2>6
  <2> QED BY <2>5, <2>6
<1>4. Sound(t)
  BY <1>2, <1>3 DEF Sound, Accounted
<1> QED BY <1>2, <1>4 DEF t, r

\* dispatch_cb gives back the one header it has taken from the queue.
LEMMA KernelCallbackIsSound ==
    ASSUME NEW s, NEW p \in Callbacks, Taken(s, p)
    PROVE  Sound(KernelCallback(s, p))
<1>1. CASE p = Dummy
  <2>1. \A q \in Ports : q # p
    BY <1>1, KernelAssumption
  <2>2. ASSUME NEW q \in Ports
        PROVE  /\ s.port[q].claimed = s.held[q] + Count(s.callbacks, q)
               /\ s.port[q].claimed <= s.port[q].bufs
    <3>1. s.callbacks \in Seq(Callbacks) /\ s.held[q] \in Nat
      BY DEF Taken, IsComp
    <3>2. Count(s.callbacks, q) \in Nat
      BY <3>1, CountType
    <3> QED BY <2>1, <3>1, <3>2 DEF Taken
  <2>3. Sound(s)
    BY <2>2 DEF Taken, Sound, Accounted
  <2> QED BY <2>3, <1>1, DummyIsSound DEF KernelCallback
<1>2. CASE p # Dummy
  <2>0. p \in Ports
    BY <1>2 DEF Callbacks
  <2> DEFINE t == [s EXCEPT !.port[p].claimed = @ - 1]
  <2>4. Sound(t)
    BY <2>0, GivenBackIsSound
  <2> DEFINE u == IF t.port[p].flushing THEN CompletePortFlush(t, p) ELSE t
  <2>5. Sound(u)
    BY <2>0, <2>4, CompletePortFlushIsSound
  <2>6. KernelCallback(s, p) \in {t, u, CompleteTransition(u, "kernel", "Idle")}
    BY <1>2 DEF KernelCallback, t
  <2> HIDE DEF u
  <2>7. Sound(CompleteTransition(u, "kernel", "Idle"))
    BY <2>5, ReportTransitionIsSound DEF Servants, MainStates
  <2> QED BY <2>4, <2>5, <2>6, <2>7
<1> QED BY <1>1, <1>2

\* A port with another number of buffers.
LEMMA BufsChange ==
    ASSUME NEW r \in PortRecord, NEW n \in 0 .. NBufs
    PROVE  /\ [r EXCEPT !.bufs = n] \in PortRecord
           /\ [r EXCEPT !.bufs = n].claimed = r.claimed
           /\ [r EXCEPT !.bufs = n].bufs = n
BY DEF PortRecord

\* Registering and freeing a header leave those that are claimed.
LEMMA HeadersOfPort ==
    ASSUME NEW r \in PortRecord, r.claimed \in Nat, r.claimed <= r.bufs
    PROVE  /\ r.bufs < NBufs =>
                /\ RegisterHeader(r) \in PortRecord
                /\ RegisterHeader(r).claimed = r.claimed
                /\ RegisterHeader(r).claimed <= RegisterHeader(r).bufs
           /\ r.claimed < r.bufs =>
                /\ UnregisterHeader(r) \in PortRecord
                /\ UnregisterHeader(r).claimed = r.claimed
                /\ UnregisterHeader(r).claimed <= UnregisterHeader(r).bufs
<1>1. r.bufs \in 0 .. NBufs /\ NBufs \in Nat \ {0}
  BY PortAssumption DEF PortRecord
<1>2. ASSUME NEW t \in PortRecord
      PROVE  /\ SetEnabled(t) \in PortRecord /\ SetDisabled(t) \in PortRecord
             /\ SetEnabled(t).claimed = t.claimed /\ SetDisabled(t).claimed = t.claimed
             /\ SetEnabled(t).bufs = t.bufs /\ SetDisabled(t).bufs = t.bufs
  BY DEF PortRecord, SetEnabled, SetDisabled
<1>3. ASSUME NEW n \in 0 .. NBufs, r.claimed <= n
      PROVE  \A t \in {[r EXCEPT !.bufs = n], SetEnabled([r EXCEPT !.bufs = n]),
                       SetDisabled([r EXCEPT !.bufs = n])} :
                t \in PortRecord /\ t.claimed = r.claimed /\ t.claimed <= t.bufs
  <2> PICK b : b = [r EXCEPT !.bufs = n]
    OBVIOUS
  <2>1. b \in PortRecord /\ b.claimed = r.claimed /\ b.claimed <= b.bufs
    BY <1>3, BufsChange
  <2> QED BY <1>2, <2>1
<1>4. ASSUME r.bufs < NBufs
      PROVE  /\ RegisterHeader(r) \in PortRecord
             /\ RegisterHeader(r).claimed = r.claimed
             /\ RegisterHeader(r).claimed <= RegisterHeader(r).bufs
  <2>1. r.bufs + 1 \in 0 .. NBufs /\ r.claimed <= r.bufs + 1 /\ NBufs \in 0 .. NBufs
        /\ r.claimed <= NBufs
    BY <1>1, <1>4
  <2> QED BY <2>1, <1>3 DEF RegisterHeader
<1>5. ASSUME r.claimed < r.bufs
      PROVE  /\ UnregisterHeader(r) \in PortRecord
             /\ UnregisterHeader(r).claimed = r.claimed
             /\ UnregisterHeader(r).claimed <= UnregisterHeader(r).bufs
  <2>1. r.bufs - 1 \in 0 .. NBufs /\ r.claimed <= r.bufs - 1 /\ 0 \in 0 .. NBufs
        /\ (r.bufs = 1 => r.claimed <= 0)
    BY <1>1, <1>5
  <2> QED BY <2>1, <1>3 DEF UnregisterHeader
<1> QED BY <1>4, <1>5

\* A header is registered on a port that lacks one.
LEMMA RegisterBufferIsSound ==
    ASSUME NEW s, Sound(s), NEW p \in Ports, s.port[p].bufs < NBufs
    PROVE  Sound(RegisterBuffer(s, p))
<1> DEFINE r == RegisterHeader(s.port[p])
           t == [s EXCEPT !.port[p] = r]
           u == IF s.port[p].beingEnabled /\ Populated(t.port, p)
                THEN CompletePortEnable(t, p) ELSE t
<1>1. r \in PortRecord /\ r.claimed = s.port[p].claimed /\ r.claimed <= r.bufs
  <2>1. s.port[p] \in PortRecord /\ s.port[p].claimed \in Nat
        /\ s.port[p].claimed <= s.port[p].bufs
    BY PortOf
  <2> QED BY <2>1, HeadersOfPort
<1> HIDE DEF r
<1>2. Sound(t)
  BY <1>1, PortChangeIsSound
<1>3. RegisterBuffer(s, p) \in {u, CompleteTransition(u, "kernel", "Idle")}
  BY DEF RegisterBuffer, r
<1> HIDE DEF t
<1>4. Sound(u)
  BY <1>2, CompletePortEnableIsSound
<1> HIDE DEF u
<1>5. Sound(CompleteTransition(u, "kernel", "Idle"))
  BY <1>4, ReportTransitionIsSound DEF Servants, MainStates
<1> QED BY <1>3, <1>4, <1>5

\* A header is freed that is not claimed.
LEMMA FreeBufferIsSound ==
    ASSUME NEW s, Sound(s), NEW p \in Ports, s.port[p].claimed < s.port[p].bufs
    PROVE  Sound(FreeBuffer(s, p))
<1> DEFINE r == UnregisterHeader(s.port[p])
           t == [s EXCEPT !.port[p] = r]
           u == IF s.port[p].beingDisabled /\ t.port[p].bufs = 0
                THEN CompletePortDisable(t, p) ELSE t
<1>1. r \in PortRecord /\ r.claimed = s.port[p].claimed /\ r.claimed <= r.bufs
  <2>1. s.port[p] \in PortRecord /\ s.port[p].claimed \in Nat
        /\ s.port[p].claimed <= s.port[p].bufs
    BY PortOf
  <2> QED BY <2>1, HeadersOfPort
<1> HIDE DEF r
<1>2. Sound(t)
  BY <1>1, PortChangeIsSound
<1>3. FreeBuffer(s, p) = CompleteOngoingTransitions(u)
  BY DEF FreeBuffer, r
<1> HIDE DEF t
<1>4. Sound(u)
  BY <1>2, CompletePortDisableIsSound
<1> HIDE DEF u
<1> QED BY <1>3, <1>4, CompleteOngoingTransitionsIsSound

\* The processor executes any command.
LEMMA ProcessorCommandIsSound ==
    ASSUME NEW s, Sound(s), NEW c \in Messages
    PROVE  Sound(ProcessorCommand(s, c))
<1>1. CASE c.cmd = "StateSet"
  <2>1. c.param \in MainStates /\ "processor" \in Servants
    BY <1>1, ParamType DEF Servants
  <2>2. Sound(CompleteTransition(s, "processor", c.param))
    BY <2>1, ReportTransitionIsSound
  <2>3. Sound(Expect(s, FALSE, "Unhandled transition in processor servant"))
    BY ExpectIsQuiet, QuietIsSound DEF Sound
  <2> QED BY <1>1, <2>2, <2>3 DEF ProcessorCommand, ProcessorStateSet
<1>2. CASE c.cmd \in {"Flush", "PortDisable"}
  <2>1. c.param \in Ports \cup {ALL}
    BY <1>2, ParamType DEF PortCommands
  <2>2. CASE c.param = ALL
    BY <1>2, <2>2, ReleaseLoopIsSound DEF ProcessorCommand
  <2>3. CASE c.param # ALL
    BY <1>2, <2>1, <2>3, ReleaseAllIsSound DEF ProcessorCommand
  <2> QED BY <2>2, <2>3
<1>3. CASE c.cmd = "PortEnable"
  BY <1>3 DEF ProcessorCommand
<1> QED BY <1>1, <1>2, <1>3, ParamType DEF PortCommands

-----------------------------------------------------------------------------
(* The component                                                           *)

TypeOK ==
    /\ IsComp(comp)
    /\ turn \in {"client", "fsm", "kernel", "processor"}
    /\ cancels \in Nat

\* The inductive invariant: the headers are accounted for in a well-formed state.
Inv == TypeOK /\ Accounted(comp)

\* A message leaves its queue, and what it is about stays as it is.
LEMMA NowIsSound ==
    ASSUME Sound(comp)
    PROVE  /\ Sound(Now) /\ IsComp(Now)
           /\ comp.completions # <<>> =>
                /\ Sound([Now EXCEPT !.completions = Tail(@)])
                /\ Head(comp.completions) \in Completions
           /\ comp.commands # <<>> =>
                /\ Sound([Now EXCEPT !.commands = Tail(@)])
                /\ Head(comp.commands) \in Messages
           /\ comp.krn # <<>> =>
                /\ Sound([Now EXCEPT !.krn = Tail(@)])
                /\ Head(comp.krn) \in Messages
           /\ comp.prc # <<>> =>
                /\ Sound([Now EXCEPT !.prc = Tail(@)])
                /\ Head(comp.prc) \in Messages
<1>1. Quiet(Now, comp)
  BY DEF Sound, Quiet, Same, IsComp, Fields, Now
<1>2. Sound(Now) /\ IsComp(Now)
  BY <1>1, QuietIsSound DEF Sound
<1>3. /\ Now.completions = comp.completions /\ Now.commands = comp.commands
      /\ Now.krn = comp.krn /\ Now.prc = comp.prc
  BY DEF Sound, IsComp, Fields, Now
<1> PICK s : s = Now
  OBVIOUS
<1>4. ASSUME NEW q, s.completions # <<>>, q = Tail(s.completions)
      PROVE  Sound([s EXCEPT !.completions = q]) /\ Head(s.completions) \in Completions
  <2>1. Quiet([s EXCEPT !.completions = q], s) /\ Head(s.completions) \in Completions
    BY <1>2, <1>4 DEF Quiet, Same, IsComp, Fields
  <2> QED BY <1>2, <2>1, QuietIsSound
<1>5. ASSUME NEW q, s.commands # <<>>, q = Tail(s.commands)
      PROVE  Sound([s EXCEPT !.commands = q]) /\ Head(s.commands) \in Messages
  <2>1. Quiet([s EXCEPT !.commands = q], s) /\ Head(s.commands) \in Messages
    BY <1>2, <1>5 DEF Quiet, Same, IsComp, Fields
  <2> QED BY <1>2, <2>1, QuietIsSound
<1>6. ASSUME NEW q, s.krn # <<>>, q = Tail(s.krn)
      PROVE  Sound([s EXCEPT !.krn = q]) /\ Head(s.krn) \in Messages
  <2>1. Quiet([s EXCEPT !.krn = q], s) /\ Head(s.krn) \in Messages
    BY <1>2, <1>6 DEF Quiet, Same, IsComp, Fields
  <2> QED BY <1>2, <2>1, QuietIsSound
<1>7. ASSUME NEW q, s.prc # <<>>, q = Tail(s.prc)
      PROVE  Sound([s EXCEPT !.prc = q]) /\ Head(s.prc) \in Messages
  <2>1. Quiet([s EXCEPT !.prc = q], s) /\ Head(s.prc) \in Messages
    BY <1>2, <1>7 DEF Quiet, Same, IsComp, Fields
  <2> QED BY <1>2, <2>1, QuietIsSound
<1> QED BY <1>2, <1>3, <1>4, <1>5, <1>6, <1>7

\* The kernel takes a callback from its queue.
LEMMA NowIsTaken ==
    ASSUME Sound(comp), comp.callbacks # <<>>
    PROVE  /\ Head(comp.callbacks) \in Callbacks
           /\ Taken([Now EXCEPT !.callbacks = Tail(@)], Head(comp.callbacks))
<1> PICK p : p = Head(comp.callbacks)
  OBVIOUS
<1> PICK rest : rest = Tail(comp.callbacks)
  OBVIOUS
<1> DEFINE t == [Now EXCEPT !.callbacks = rest]
<1>1. IsComp(comp) /\ comp.callbacks \in Seq(Callbacks) /\ p \in Callbacks
      /\ rest \in Seq(Callbacks)
  BY DEF Sound, IsComp
<1>2. t.port = comp.port /\ t.held = comp.held /\ t.callbacks = rest /\ IsComp(t)
  BY <1>1 DEF IsComp, Fields, Now
<1>3. [Now EXCEPT !.callbacks = Tail(@)] = t
  BY <1>1 DEF IsComp, Fields, Now
<1> HIDE DEF t
<1>4. ASSUME NEW q \in Ports
      PROVE  /\ t.port[q].claimed = t.held[q] + Count(t.callbacks, q) + IF q = p THEN 1 ELSE 0
             /\ t.port[q].claimed <= t.port[q].bufs
  <2>1. /\ comp.port[q].claimed = comp.held[q] + Count(comp.callbacks, q)
        /\ comp.port[q].claimed <= comp.port[q].bufs
    BY DEF Sound, Accounted
  <2>2. Count(comp.callbacks, q) = Count(rest, q) + IF p = q THEN 1 ELSE 0
    BY <1>1, CountTail
  <2>3. Count(rest, q) \in Nat /\ comp.held[q] \in Nat
    BY <1>1, CountType DEF IsComp
  <2> QED BY <1>2, <2>1, <2>2, <2>3
<1>5. Taken(t, p)
  BY <1>2, <1>4 DEF Taken
<1> QED BY <1>1, <1>3, <1>5

\* At first no header is anywhere.
LEMMA InitIsSound ==
    ASSUME Init
    PROVE  Inv
<1>1. InitialPort \in PortRecord /\ InitialPort.claimed = 0 /\ InitialPort.bufs = 0
  BY PortAssumption DEF InitialPort, PortRecord
<1>2. "Loaded" \in States /\ 0 \in Int
  BY DEF States, MainStates
<1>3. IsComp(comp)
  BY <1>1, <1>2 DEF Init, IsComp, Fields
<1>4. Accounted(comp)
  BY <1>1, CountEmpty DEF Init, Accounted
<1> QED BY <1>3, <1>4 DEF Inv, TypeOK, Init

\* The client's commands are among those the servants understand.
LEMMA CommandsAreMessages == Commands \subseteq Messages
BY ComponentAssumption DEF Messages

\* OMX_SendCommand.
LEMMA SendCommandIsSound ==
    ASSUME Sound(comp), NEW c \in Commands, SendCommand(c)
    PROVE  Sound(comp')
<1>1. Sound(Now) /\ IsComp(Now) /\ c \in Messages
  BY NowIsSound, CommandsAreMessages
<1>2. Sound(AcceptCommand(Now, c))
  BY <1>1, AcceptCommandIsQuiet, QuietIsSound
<1>3. comp' \in {AcceptCommand(Now, c), Now}
  BY DEF SendCommand, Call
<1> QED BY <1>1, <1>2, <1>3

\* A step of the machine, the kernel or the processor works on these.
LEMMA NowIs ==
    ASSUME Sound(comp)
    PROVE  /\ Now.port = comp.port /\ Now.held = comp.held
           /\ Now.callbacks = comp.callbacks
BY DEF Sound, IsComp, Fields, Now

\* OMX_UseBuffer, for a port that lacks a header.
LEMMA UseBufferIsSound ==
    ASSUME Sound(comp), NEW p \in Ports, UseBuffer(p)
    PROVE  Sound(comp')
<1>1. Now.port[p].bufs < NBufs
  BY NowIs DEF UseBuffer
<1>2. Sound(RegisterBuffer(Now, p))
  BY <1>1, NowIsSound, RegisterBufferIsSound
<1> QED BY <1>2 DEF UseBuffer, Call

\* OMX_FreeBuffer, of a header that is not claimed.
LEMMA FreeHeaderIsSound ==
    ASSUME Sound(comp), NEW p \in Ports, FreeHeader(p)
    PROVE  Sound(comp')
<1>1. Now.port[p].claimed < Now.port[p].bufs
  BY NowIs DEF FreeHeader
<1>2. Sound(FreeBuffer(Now, p))
  BY <1>1, NowIsSound, FreeBufferIsSound
<1> QED BY <1>2 DEF FreeHeader, Call

\* The processor claims a header, or releases one.
LEMMA ProcessorEventIsSound ==
    ASSUME Sound(comp), NEW p \in Ports, ProcessorEvent(p)
    PROVE  Sound(comp')
<1> PICK s : s = Now
  OBVIOUS
<1>0. Sound(s) /\ IsComp(s) /\ s.port = comp.port /\ s.held = comp.held
  BY NowIsSound, NowIs
<1>1. /\ s.port \in [Ports -> PortRecord] /\ s.held \in [Ports -> Nat]
      /\ s.callbacks \in Seq(Callbacks) /\ p \in Callbacks
  BY <1>0 DEF IsComp, Callbacks
<1>2. ASSUME NEW q \in Ports
      PROVE  /\ s.port[q].claimed = s.held[q] + Count(s.callbacks, q)
             /\ s.port[q].claimed <= s.port[q].bufs
             /\ Count(s.callbacks, q) \in Nat
  BY <1>0, <1>1, CountType DEF Sound, Accounted
<1>3. CASE s.port[p].claimed < s.port[p].bufs
           /\ comp' = [s EXCEPT !.port[p].claimed = @ + 1, !.held[p] = @ + 1]
  <2> DEFINE r == [s.port[p] EXCEPT !.claimed = @ + 1]
             ports == [s.port EXCEPT ![p] = r]
             holds == [s.held EXCEPT ![p] = @ + 1]
  <2>1. comp' = [s EXCEPT !.port = ports, !.held = holds]
    BY <1>3
  <2>2. r \in PortRecord /\ r.claimed = s.port[p].claimed + 1 /\ r.bufs = s.port[p].bufs
    <3>1. s.port[p] \in PortRecord
      BY <1>1
    <3> QED BY <3>1 DEF PortRecord
  <2> HIDE DEF r
  <2>3. ports \in [Ports -> PortRecord] /\ holds \in [Ports -> Nat]
        /\ \A q \in Ports : ports[q] = (IF q = p THEN r ELSE s.port[q])
                /\ holds[q] = IF q = p THEN s.held[p] + 1 ELSE s.held[q]
    BY <1>1, <2>2
  <2> HIDE DEF ports, holds
  <2>4. comp'.port = ports /\ comp'.held = holds /\ comp'.callbacks = s.callbacks
        /\ IsComp(comp')
    BY <1>0, <2>1, <2>3 DEF IsComp, Fields
  <2>5. ASSUME NEW q \in Ports
        PROVE  /\ ports[q].claimed = holds[q] + Count(s.callbacks, q)
               /\ ports[q].claimed <= ports[q].bufs
    <3>1. s.port[p].bufs \in Int /\ s.port[p].claimed \in Int /\ s.held[q] \in Nat
      BY <1>1, PortAssumption DEF PortRecord
    <3>2. CASE q = p
      BY <1>2, <1>3, <2>2, <2>3, <3>1, <3>2
    <3>3. CASE q # p
      BY <1>2, <2>3, <3>3
    <3> QED BY <3>2, <3>3
  <2> QED BY <2>4, <2>5 DEF Sound, Accounted
<1>4. CASE s.held[p] > 0
           /\ comp' = [s EXCEPT !.held[p] = @ - 1, !.callbacks = Append(@, p)]
  <2> DEFINE holds == [s.held EXCEPT ![p] = @ - 1]
             more == Append(s.callbacks, p)
  <2>1. comp' = [s EXCEPT !.held = holds, !.callbacks = more]
    BY <1>4
  <2>2. holds \in [Ports -> Nat] /\ more \in Seq(Callbacks)
        /\ \A q \in Ports : holds[q] = IF q = p THEN s.held[p] - 1 ELSE s.held[q]
    BY <1>1, <1>4
  <2>3. ASSUME NEW q \in Ports
        PROVE  Count(more, q) = Count(s.callbacks, q) + IF q = p THEN 1 ELSE 0
    BY <1>1, CountAppend
  <2> HIDE DEF holds, more
  <2>4. comp'.port = s.port /\ comp'.held = holds /\ comp'.callbacks = more
        /\ IsComp(comp')
    BY <1>0, <2>1, <2>2 DEF IsComp, Fields
  <2>5. ASSUME NEW q \in Ports
        PROVE  s.port[q].claimed = holds[q] + Count(more, q)
    <3>1. s.held[q] \in Nat /\ Count(s.callbacks, q) \in Nat
          /\ s.port[q].claimed = s.held[q] + Count(s.callbacks, q)
      BY <1>1, <1>2
    <3>2. holds[q] = IF q = p THEN s.held[p] - 1 ELSE s.held[q]
      BY <2>2
    <3>3. Count(more, q) = Count(s.callbacks, q) + IF q = p THEN 1 ELSE 0
      BY <2>3
    <3>4. CASE q = p
      BY <3>1, <3>2, <3>3, <3>4
    <3>5. CASE q # p
      BY <3>1, <3>2, <3>3, <3>5
    <3> QED BY <3>4, <3>5
  <2> QED BY <1>2, <2>4, <2>5 DEF Sound, Accounted
<1>5. \/ /\ comp.port[p].claimed < comp.port[p].bufs
         /\ comp' = [Now EXCEPT !.port[p].claimed = @ + 1, !.held[p] = @ + 1]
      \/ /\ comp.held[p] > 0
         /\ comp' = [Now EXCEPT !.held[p] = @ - 1, !.callbacks = Append(@, p)]
  BY DEF ProcessorEvent, Call
<1> QED BY <1>0, <1>3, <1>4, <1>5

\* The machine's turn.
LEMMA FsmTickIsSound ==
    ASSUME Sound(comp), FsmTick
    PROVE  Sound(comp')
<1>1. CASE comp.completions # <<>>
  <2> PICK s : s = [Now EXCEPT !.completions = Tail(@)]
    OBVIOUS
  <2>1. Sound(s) /\ Head(comp.completions) \in Completions
    BY <1>1, NowIsSound
  <2>2. Sound(DispatchCompletion(s, Head(comp.completions)))
    BY <2>1, DispatchCompletionIsQuiet, QuietIsSound DEF Sound
  <2> QED BY <1>1, <2>2 DEF FsmTick
<1>2. CASE comp.completions = <<>> /\ comp.commands # <<>>
  <2> PICK s : s = [Now EXCEPT !.commands = Tail(@)]
    OBVIOUS
  <2>1. Sound(s) /\ Head(comp.commands) \in Messages
    BY <1>2, NowIsSound
  <2>2. Sound(DispatchCommand(s, Head(comp.commands)))
    BY <2>1, DispatchCommandIsQuiet, QuietIsSound DEF Sound
  <2> QED BY <1>2, <2>2 DEF FsmTick
<1>3. CASE comp.completions = <<>> /\ comp.commands = <<>>
  BY <1>3, NowIsSound DEF FsmTick
<1> QED BY <1>1, <1>2, <1>3

\* The kernel's turn.
LEMMA KernelTickIsSound ==
    ASSUME Sound(comp), KernelTick
    PROVE  Sound(comp')
<1>1. CASE comp.krn # <<>>
  <2> PICK s : s = [Now EXCEPT !.krn = Tail(@)]
    OBVIOUS
  <2>1. Sound(s) /\ Head(comp.krn) \in Messages
    BY <1>1, NowIsSound
  <2>2. Sound(KernelCommand(s, Head(comp.krn)))
    BY <2>1, KernelCommandIsSound
  <2> QED BY <1>1, <2>2 DEF KernelTick
<1>2. CASE comp.krn = <<>> /\ comp.callbacks # <<>>
  <2> PICK s : s = [Now EXCEPT !.callbacks = Tail(@)]
    OBVIOUS
  <2>1. Taken(s, Head(comp.callbacks)) /\ Head(comp.callbacks) \in Callbacks
    BY <1>2, NowIsTaken
  <2>2. Sound(KernelCallback(s, Head(comp.callbacks)))
    BY <2>1, KernelCallbackIsSound
  <2> QED BY <1>2, <2>2 DEF KernelTick
<1>3. CASE comp.krn = <<>> /\ comp.callbacks = <<>>
  BY <1>3, NowIsSound DEF KernelTick
<1> QED BY <1>1, <1>2, <1>3

\* The processor's turn.
LEMMA ProcessorTickIsSound ==
    ASSUME Sound(comp), ProcessorTick
    PROVE  Sound(comp')
<1>1. CASE comp.prc # <<>>
  <2> PICK s : s = [Now EXCEPT !.prc = Tail(@)]
    OBVIOUS
  <2>1. Sound(s) /\ Head(comp.prc) \in Messages
    BY <1>1, NowIsSound
  <2>2. Sound(ProcessorCommand(s, Head(comp.prc)))
    BY <2>1, ProcessorCommandIsSound
  <2> QED BY <1>1, <2>2 DEF ProcessorTick
<1>2. CASE comp.prc = <<>>
  BY <1>2, NowIsSound DEF ProcessorTick
<1> QED BY <1>1, <1>2

\* Every step keeps the inductive invariant.
LEMMA StepIsSound ==
    ASSUME Inv, [Next]_vars
    PROVE  Inv'
<1>1. Sound(comp)
  BY DEF Inv, TypeOK, Sound
<1>2. Sound(comp')
  <2>1. CASE Next
    <3>1. ASSUME NEW c \in Commands, SendCommand(c) PROVE Sound(comp')
      BY <1>1, <3>1, SendCommandIsSound
    <3>2. ASSUME NEW p \in Ports, UseBuffer(p) \/ FreeHeader(p) \/ ProcessorEvent(p)
          PROVE  Sound(comp')
      BY <1>1, <3>2, UseBufferIsSound, FreeHeaderIsSound, ProcessorEventIsSound
    <3>3. ASSUME FsmTick \/ KernelTick \/ ProcessorTick PROVE Sound(comp')
      BY <1>1, <3>3, FsmTickIsSound, KernelTickIsSound, ProcessorTickIsSound
    <3> QED BY <2>1, <3>1, <3>2, <3>3 DEF Next
  <2>2. CASE UNCHANGED vars
    <3>1. comp' = comp
      BY <2>2 DEF vars
    <3> QED BY <1>1, <3>1
  <2> QED BY <2>1, <2>2
<1>3. turn' \in {"client", "fsm", "kernel", "processor"} /\ cancels' \in Nat
  <2>1. turn \in {"client", "fsm", "kernel", "processor"} /\ cancels \in Nat
    BY DEF Inv, TypeOK
  <2>2. ASSUME NEW c \in Commands, SendCommand(c)
        PROVE  turn' = "fsm" /\ cancels' \in Nat
    BY <2>1, <2>2 DEF SendCommand, Call
  <2>3. ASSUME NEW p \in Ports, UseBuffer(p) \/ FreeHeader(p)
        PROVE  turn' = "fsm" /\ cancels' = cancels
    BY <2>3 DEF UseBuffer, FreeHeader, Call
  <2>4. ASSUME NEW p \in Ports, ProcessorEvent(p)
        PROVE  turn' = "fsm" /\ cancels' = cancels
    BY <2>4 DEF ProcessorEvent, Call
  <2>5. ASSUME FsmTick PROVE turn' = "kernel" /\ cancels' = cancels
    BY <2>5 DEF FsmTick
  <2>6. ASSUME KernelTick PROVE turn' = "processor" /\ cancels' = cancels
    BY <2>6 DEF KernelTick
  <2>7. ASSUME ProcessorTick PROVE turn' = "client" /\ cancels' = cancels
    BY <2>7 DEF ProcessorTick
  <2>8. CASE UNCHANGED vars
    BY <2>1, <2>8 DEF vars
  <2> QED BY <2>1, <2>2, <2>3, <2>4, <2>5, <2>6, <2>7, <2>8 DEF Next
<1>4. IsComp(comp') /\ Accounted(comp')
  BY <1>2 DEF Sound
<1>5. IsComp(comp)' /\ Accounted(comp)'
  BY <1>4 DEF IsComp, Accounted
<1> QED BY <1>3, <1>5 DEF Inv, TypeOK

\* The inductive invariant holds.
LEMMA InvHolds == Spec => []Inv
<1>1. Init => Inv
  BY InitIsSound
<1>2. Inv /\ [Next]_vars => Inv'
  BY StepIsSound
<1> QED BY <1>1, <1>2, PTL DEF Spec

\* The component's state is always well formed: whatever a client with legal
\* commands does, the servants' queues hold commands and callbacks they
\* understand, the machine is in one of its states, and no port has more
\* buffers than it asked for.
THEOREM ComponentWellFormed == Spec => []TypeOK
<1>1. Inv => TypeOK
  BY DEF Inv
<1> QED BY <1>1, InvHolds, PTL

\* A port's claimed count is the number of headers that the processor holds or
\* has released to the kernel's queue, and within what the port has: for any
\* ports and buffers, and any commands, in whatever state they come and however
\* they interleave with the passes of the scheduler (tizkernel_helpers.inl,
\* process_cbacks_from_servant_queue).
THEOREM ClaimsAreRight == Spec => []HeadersAccounted
<1>1. Inv => HeadersAccounted
  BY DEF Inv, Accounted, HeadersAccounted
<1> QED BY <1>1, InvHolds, PTL

-----------------------------------------------------------------------------
(* One command at a time: where it is, and what has been reported of it.   *)
(* The component is in one of four phases, and in each the queues of the   *)
(* servants, the flags of the ports and the count of completions are what  *)
(* that phase needs.                                                       *)

\* A client that gives a command only when none is in progress, and never the
\* command to pause, of a component that has ports.
Straight ==
    /\ Cancelling = {}
    /\ StateSet("Pause") \notin Commands
    /\ PortList # <<>>

Stages == {"Loaded", "WaitForResources", "Idle", "Executing"}

Transits == {StateSet(st) : st \in MainStates}

\* The transitions the processor has still to be told of, in their order.
Orders(s) == Only(s.prc, Transits)

By(who, st) == [servant |-> who, state |-> st]

\* The flag that says that a port is not done with a port command.
Flagged(r, c) ==
    CASE c = "PortDisable" -> r.beingDisabled
      [] c = "PortEnable" -> r.beingEnabled
      [] c = "Flush" -> r.flushing

Undone(s, c) == {p \in Ports : Flagged(s.port[p], c)}

\* The buffers of a port in state cur of the machine.
Stocked(r, cur) ==
    /\ ~r.enabled => r.bufs = 0
    /\ r.beingEnabled => r.enabled /\ r.bufs < NBufs
    /\ r.beingDisabled => r.enabled /\ r.bufs > 0
    /\ cur \in {"Loaded", "WaitForResources"} => r.bufs = 0 /\ ~r.beingEnabled
    /\ /\ cur \in {"Idle", "Executing", "ExecutingToIdle"}
       /\ r.enabled /\ ~r.beingEnabled /\ ~r.beingDisabled
       => r.bufs = NBufs
    /\ cur \notin {"Executing", "ExecutingToIdle"} => r.claimed = 0

\* Nothing has gone wrong, and nothing is left of transitions that are over but
\* what the machine counts in Executing.
Regular(s) ==
    /\ s.failed = None /\ s.cancellation = None
    /\ Dummy \notin ToSet(s.callbacks)
    /\ s.cur \in Stages \cup {"LoadedToIdle", "IdleToLoaded", "ExecutingToIdle"}
    /\ \A st \in States : st \notin {s.cur, "Executing"} => s.counted[st] = <<>>
    /\ \A p \in Ports : Stocked(s.port[p], s.cur)

\* The machine is in a state that it has nothing more to hear of, but for the
\* repeated command that entering Executing has given the servants.
Calm(s) ==
    /\ s.cur \in Stages
    /\ s.cur # "Executing" =>
        s.completions = <<>> /\ s.counted[s.cur] = <<>> /\ Orders(s) = <<>>
    /\ s.cur = "Executing" =>
        /\ \A i \in DOMAIN s.completions : s.completions[i].state = "Executing"
        /\ Orders(s) \in {<<>>, <<StateSet("Executing")>>}

NoneUndone(s) == \A c \in PortCommands : Undone(s, c) = {}

\* No command is in progress.
AtRest(s) ==
    /\ s.inProgress = None /\ s.commands = <<>>
    /\ Calm(s) /\ NoneUndone(s)
    /\ \/ s.krn = <<>>
       \/ /\ s.cur = "Executing" /\ s.krn = <<StateSet("Executing")>>
          /\ Orders(s) = <<StateSet("Executing")>>

\* A command waits for the state machine.
Accepted(s) ==
    /\ s.inProgress # None
    /\ s.commands = <<[cmd |-> s.inProgress, param |-> s.param]>>
    /\ s.inProgress = "StateSet" => s.param # "Pause"
    /\ Calm(s) /\ NoneUndone(s) /\ s.krn = <<>>

\* The kernel works on port command c, and has still to look at left ports.
Working(s, c, left) ==
    /\ s.inProgress = (IF s.completion = 0 THEN None ELSE c) /\ s.commands = <<>>
    /\ Calm(s) /\ s.krn = <<>>
    /\ s.completion = Cardinality(Undone(s, c)) + left
    /\ \A d \in PortCommands \ {c} : Undone(s, d) = {}

\* A port command waits for the kernel, or for its ports.
Porting(s) ==
    /\ s.inProgress \in PortCommands
    /\ \/ /\ s.commands = <<>> /\ Calm(s) /\ NoneUndone(s)
          /\ s.krn = <<PortCommand(s.inProgress, s.param)>>
       \/ Working(s, s.inProgress, 0) /\ s.completion > 0

Ways ==
    {<<"LoadedToIdle", "Idle">>, <<"IdleToLoaded", "Loaded">>,
     <<"ExecutingToIdle", "Idle">>, <<"Loaded", "WaitForResources">>,
     <<"WaitForResources", "Loaded">>, <<"Idle", "Executing">>}

\* The kernel has what it waits for in a transition.
Satisfied(s) ==
    CASE s.cur = "LoadedToIdle" -> AllPopulated(s.port)
      [] s.cur = "IdleToLoaded" -> AllDepopulated(s.port)
      [] s.cur = "ExecutingToIdle" -> AllBuffersReturned(s.port)
      [] OTHER -> TRUE

\* Of the kernel and the processor, who are done with the transition to st have
\* each reported once, and the machine has counted one report or none.
Tallied(counted, completions, st, kernel, processor) ==
    /\ Len(counted) < 2
    /\ LET k == By("kernel", st)  p == By("processor", st)
       IN  counted \o completions \in
            CASE kernel /\ processor -> {<<k, p>>, <<p, k>>}
              [] kernel /\ ~processor -> {<<k>>}
              [] ~kernel /\ processor -> {<<p>>}
              [] OTHER -> {<<>>}

\* The component is on its way from one state to another.
Underway(s) ==
    /\ s.inProgress = "StateSet" /\ s.commands = <<>>
    /\ <<s.cur, s.param>> \in Ways
    /\ NoneUndone(s)
    /\ Orders(s) \in
        {<<>>, <<StateSet(s.param)>>}
        \cup (IF s.cur = "ExecutingToIdle"
              THEN {<<StateSet("Executing"), StateSet("Idle")>>} ELSE {})

\* The reports of the two servants are where they should be.
Heard(s, kernel) ==
    Tallied(s.counted[s.cur], s.completions, s.param, kernel, Orders(s) = <<>>)

\* The kernel has heard of the transition and has still to report its end.
Owing(s) == Underway(s) /\ s.krn = <<>> /\ Heard(s, FALSE)

Going(s) ==
    /\ Underway(s)
    /\ s.krn = <<>> \/ (s.krn = <<StateSet(s.param)>> /\ Orders(s) # <<>>)
    /\ Heard(s, s.krn = <<>> /\ Satisfied(s))

Phase(s) == AtRest(s) \/ Accepted(s) \/ Porting(s) \/ Going(s)

\* The inductive invariant of a client that neither pauses nor cancels.
Orderly ==
    /\ Inv /\ Regular(comp) /\ Phase(comp)
    /\ comp.krn # <<>> => turn = "kernel"

-----------------------------------------------------------------------------
(* What a step leaves alone                                                *)

\* From s to t the transitions stay where they are, but for what the processor
\* is told of and whether a port command has ended.
SameControl(t, s) ==
    /\ t.cur = s.cur /\ t.counted = s.counted /\ t.completions = s.completions
    /\ t.commands = s.commands /\ t.krn = s.krn
    /\ t.failed = s.failed /\ t.cancellation = s.cancellation

SameCommand(t, s) == t.inProgress = s.inProgress /\ t.param = s.param

\* Only what the client is told is another.
Alike(t, s) ==
    /\ IsComp(t) /\ SameControl(t, s) /\ SameCommand(t, s) /\ Same(t, s)
    /\ t.prc = s.prc /\ t.completion = s.completion

\* The last port of a command in progress is done, or one before it.
Ticked(t, s) ==
    /\ SameControl(t, s) /\ t.prc = s.prc
    /\ t.completion = s.completion - 1
    /\ t.inProgress = IF t.completion = 0 THEN None ELSE s.inProgress

\* The client is told something.
LEMMA EventIs ==
    ASSUME NEW s, IsComp(s), NEW c, NEW param, NEW error
    PROVE  Alike(Event(s, c, param, error), s)
BY EventIsQuiet DEF Alike, SameControl, SameCommand, Quiet, Same, IsComp, Fields, Event

\* An assertion that holds does nothing.
LEMMA ExpectHolds ==
    ASSUME NEW s, NEW holds, holds, NEW name
    PROVE  Expect(s, holds, name) = s
BY DEF Expect

\* No command is in progress any more.
LEMMA CommandDoneIs ==
    ASSUME NEW s, IsComp(s)
    PROVE  /\ SameControl(CommandDone(s), s) /\ CommandDone(s).inProgress = None
           /\ CommandDone(s).prc = s.prc /\ CommandDone(s).completion = s.completion
BY DEF SameControl, IsComp, Fields, CommandDone

\* A port command ends.
LEMMA CompleteCommandIs ==
    ASSUME NEW s, IsComp(s), NEW c \in PortCommands, s.inProgress = c, s.cancellation = None,
           NEW target
    PROVE  /\ SameControl(CompleteCommand(s, c, target), s)
           /\ CompleteCommand(s, c, target).inProgress = None
           /\ CompleteCommand(s, c, target).prc = s.prc
           /\ CompleteCommand(s, c, target).completion = s.completion
<1> DEFINE told == Event(s, c, target, None)
<1>1. c # None
  BY DEF PortCommands, None
<1>2. Expect(s, c \in {s.inProgress, s.cancellation}, "in_progress_cmd_ or cancellation_cmd_") = s
  BY ExpectHolds
<1>3. CompleteCommand(s, c, target) = CommandDone(told)
  BY <1>1, <1>2 DEF CompleteCommand
<1>4. Alike(told, s)
  BY EventIs
<1> HIDE DEF told
<1>5. SameControl(told, s) /\ IsComp(told) /\ told.prc = s.prc /\ told.completion = s.completion
  BY <1>4 DEF Alike
<1>6. /\ SameControl(CommandDone(told), told) /\ CommandDone(told).inProgress = None
      /\ CommandDone(told).prc = told.prc /\ CommandDone(told).completion = told.completion
  BY <1>5, CommandDoneIs
<1> QED BY <1>3, <1>5, <1>6 DEF SameControl

\* One port more is done.
LEMMA CountDownIs ==
    ASSUME NEW s, IsComp(s), NEW c \in PortCommands, s.inProgress = c, s.cancellation = None,
           s.completion > 0, NEW p
    PROVE  Ticked(CountDown(s, c, p), s)
<1> DEFINE n == s.completion - 1
           t == [s EXCEPT !.completion = @ - 1]
<1>1. s.completion \in Int
  BY DEF IsComp
<1>2. /\ t.completion = n /\ SameControl(t, s) /\ SameCommand(t, s) /\ t.prc = s.prc
      /\ IsComp(t)
  BY <1>1 DEF SameControl, SameCommand, IsComp, Fields
<1>3. CompletionCountPositive(s) = s
  BY ExpectHolds DEF CompletionCountPositive
<1>4. CountDown(s, c, p) =
        CASE t.completion > 0 -> Event(t, c, p, None)
          [] t.completion = 0 -> CompleteCommand(t, c, p)
          [] OTHER -> t
  BY <1>3 DEF CountDown
<1> HIDE DEF t
<1>5. CASE n > 0
  <2>1. CountDown(s, c, p) = Event(t, c, p, None)
    BY <1>1, <1>2, <1>4, <1>5
  <2>2. Alike(Event(t, c, p, None), t)
    BY <1>2, EventIs
  <2>3. n # 0
    BY <1>1, <1>5
  <2> QED BY <2>1, <2>2, <2>3, <1>2 DEF Alike, Ticked, SameControl, SameCommand
<1>6. CASE n = 0
  <2>1. CountDown(s, c, p) = CompleteCommand(t, c, p)
    BY <1>2, <1>4, <1>6
  <2>2. t.inProgress = c /\ t.cancellation = None
    BY <1>2 DEF SameControl, SameCommand
  <2>3. /\ SameControl(CompleteCommand(t, c, p), t)
        /\ CompleteCommand(t, c, p).inProgress = None
        /\ CompleteCommand(t, c, p).prc = t.prc
        /\ CompleteCommand(t, c, p).completion = t.completion
    BY <1>2, <2>2, CompleteCommandIs
  <2> QED BY <2>1, <2>3, <1>2, <1>6 DEF Ticked, SameControl
<1> QED BY <1>1, <1>5, <1>6

\* A port has the same flags and buffers, and no more of them claimed.
Lowered(q, r) ==
    /\ q.enabled = r.enabled /\ q.beingEnabled = r.beingEnabled
    /\ q.beingDisabled = r.beingDisabled /\ q.flushing = r.flushing
    /\ q.bufs = r.bufs /\ q.claimed <= r.claimed

\* The step from s to t is about port p, and takes no header of another.
About(t, s, p) ==
    /\ Sound(t) /\ SameControl(t, s) /\ Orders(t) = Orders(s)
    /\ Dummy \notin ToSet(t.callbacks)
    /\ \A q \in Ports \ {p} : Lowered(t.port[q], s.port[q])

\* The kernel works on port command c, in a state that is in order.
Works(s, c, left) == Sound(s) /\ Regular(s) /\ Working(s, c, left)

\* There are finitely many ports.
LEMMA PortsAreFinite ==
    /\ IsFiniteSet(Ports) /\ Len(PortList) \in Nat
    /\ \A k \in 1 .. Len(PortList) : PortList[k] \in Ports
<1>1. Ports = {PortList[k] : k \in 1 .. Len(PortList)} /\ Len(PortList) \in Nat
      /\ PortList \in [1 .. Len(PortList) -> Ports]
  BY PortAssumption DEF Ports, ToSet
<1>2. IsFiniteSet(1 .. Len(PortList))
  <2>1. 1 \in Int /\ Len(PortList) \in Int
    BY <1>1
  <2> QED BY <2>1, FS_Interval
<1>3. PortList \in Surjection(1 .. Len(PortList), Ports)
  BY <1>1 DEF Surjection
<1>4. IsFiniteSet(Ports)
  BY <1>2, <1>3, FS_Surjection
<1> QED BY <1>1, <1>4

\* The flags of a port are truth values.
LEMMA FlagType ==
    ASSUME NEW r \in PortRecord, NEW c \in PortCommands
    PROVE  Flagged(r, c) \in BOOLEAN
BY DEF PortRecord, PortCommands, Flagged

\* A port that loses headers only keeps its flags, and is stocked as before.
LEMMA LoweredKeeps ==
    ASSUME NEW q, NEW r, Lowered(q, r)
    PROVE  /\ \A c \in PortCommands : Flagged(q, c) = Flagged(r, c)
           /\ \A cur : Stocked(r, cur) /\ q.claimed \in Nat => Stocked(q, cur)
BY DEF Lowered, Flagged, PortCommands, Stocked

\* The ports that are not done, when one of them changes its flag.
LEMMA UndoneChange ==
    ASSUME NEW s, NEW t, NEW p \in Ports, NEW c \in PortCommands,
           Sound(s), Sound(t),
           \A q \in Ports \ {p} : Lowered(t.port[q], s.port[q])
    PROVE  LET before == Flagged(s.port[p], c)
               after == Flagged(t.port[p], c)
           IN  /\ Undone(t, c) \subseteq Undone(s, c) \cup {p}
               /\ before = after => Undone(t, c) = Undone(s, c)
               /\ before /\ ~after => p \in Undone(s, c) /\ Undone(t, c) = Undone(s, c) \ {p}
               /\ ~before /\ after => p \notin Undone(s, c) /\ Undone(t, c) = Undone(s, c) \cup {p}
               /\ IsFiniteSet(Undone(s, c)) /\ Cardinality(Undone(s, c)) \in Nat
               /\ before /\ ~after => Cardinality(Undone(t, c)) = Cardinality(Undone(s, c)) - 1
               /\ ~before /\ after => Cardinality(Undone(t, c)) = Cardinality(Undone(s, c)) + 1
<1> DEFINE before == Flagged(s.port[p], c)
           after == Flagged(t.port[p], c)
<1>1. \A q \in Ports \ {p} : Flagged(t.port[q], c) = Flagged(s.port[q], c)
  BY LoweredKeeps
<1>2. before \in BOOLEAN /\ after \in BOOLEAN
  <2>1. s.port[p] \in PortRecord /\ t.port[p] \in PortRecord
    BY PortOf
  <2> QED BY <2>1, FlagType
<1>3. /\ Undone(t, c) \subseteq Undone(s, c) \cup {p}
      /\ before = after => Undone(t, c) = Undone(s, c)
      /\ before /\ ~after => p \in Undone(s, c) /\ Undone(t, c) = Undone(s, c) \ {p}
      /\ ~before /\ after => p \notin Undone(s, c) /\ Undone(t, c) = Undone(s, c) \cup {p}
  BY <1>1, <1>2 DEF Undone
<1>4. Undone(s, c) \subseteq Ports
  BY DEF Undone
<1>5. IsFiniteSet(Undone(s, c))
  BY <1>4, PortsAreFinite, FS_Subset
<1>6. Cardinality(Undone(s, c)) \in Nat
  BY <1>5, FS_CardinalityType
<1> HIDE DEF before, after
<1>7. ASSUME before, ~after PROVE Cardinality(Undone(t, c)) = Cardinality(Undone(s, c)) - 1
  BY <1>3, <1>5, <1>7, FS_RemoveElement
<1>8. ASSUME ~before, after PROVE Cardinality(Undone(t, c)) = Cardinality(Undone(s, c)) + 1
  BY <1>3, <1>5, <1>8, FS_AddElement
<1> QED BY <1>3, <1>5, <1>6, <1>7, <1>8 DEF before, after

\* What does not depend on the number of ports that are still to do.
LEMMA AboutKeeps ==
    ASSUME NEW s, NEW t, NEW p \in Ports, NEW c \in PortCommands, NEW left,
           Works(s, c, left), About(t, s, p), Stocked(t.port[p], s.cur),
           \A d \in PortCommands \ {c} : ~Flagged(t.port[p], d)
    PROVE  /\ Regular(t) /\ Calm(t) /\ t.krn = <<>> /\ t.commands = <<>>
           /\ \A d \in PortCommands \ {c} : Undone(t, d) = {}
<1>1. ASSUME NEW q \in Ports PROVE Stocked(t.port[q], t.cur)
  <2>1. t.cur = s.cur /\ t.port[q].claimed \in Nat
    BY PortOf DEF About, SameControl
  <2>2. CASE q = p
    BY <2>1, <2>2
  <2>3. CASE q # p
    <3>1. Lowered(t.port[q], s.port[q])
      BY <2>3 DEF About
    <3>2. Stocked(s.port[q], s.cur)
      BY DEF Works, Regular
    <3> QED BY <2>1, <3>1, <3>2, LoweredKeeps
  <2> QED BY <2>2, <2>3
<1>2. Regular(t)
  BY <1>1 DEF About, SameControl, Works, Regular
<1>3. Calm(t) /\ t.krn = <<>> /\ t.commands = <<>>
  <2>1. Calm(s) /\ s.krn = <<>> /\ s.commands = <<>>
    BY DEF Works, Working
  <2> QED BY <2>1 DEF About, SameControl, Calm
<1>4. ASSUME NEW d \in PortCommands \ {c} PROVE Undone(t, d) = {}
  <2>1. Undone(s, d) = {}
    BY DEF Works, Working
  <2>2. \A q \in Ports \ {p} : Lowered(t.port[q], s.port[q])
    BY DEF About
  <2>3. \A q \in Ports \ {p} : Flagged(t.port[q], d) = Flagged(s.port[q], d)
    BY <2>2, LoweredKeeps
  <2> QED BY <2>1, <2>3 DEF Undone
<1> QED BY <1>2, <1>3, <1>4

\* The last port of a command in progress is done, or one before it.
Ticks(t, s) ==
    /\ t.completion = s.completion - 1
    /\ t.inProgress = IF t.completion = 0 THEN None ELSE s.inProgress

\* A port that was to do is done.
LEMMA FinishWorks ==
    ASSUME NEW s, NEW t, NEW p \in Ports, NEW c \in PortCommands, NEW left \in Nat,
           Works(s, c, left), About(t, s, p), Stocked(t.port[p], s.cur),
           \A d \in PortCommands : ~Flagged(t.port[p], d), Ticks(t, s),
           Flagged(s.port[p], c)
    PROVE  Works(t, c, left)
<1>1. /\ Regular(t) /\ Calm(t) /\ t.krn = <<>> /\ t.commands = <<>>
      /\ \A d \in PortCommands \ {c} : Undone(t, d) = {}
  BY AboutKeeps
<1>2. Sound(s) /\ Sound(t) /\ \A q \in Ports \ {p} : Lowered(t.port[q], s.port[q])
  BY DEF Works, About
<1>3. /\ Cardinality(Undone(t, c)) = Cardinality(Undone(s, c)) - 1
      /\ Cardinality(Undone(s, c)) \in Nat /\ p \in Undone(s, c) /\ IsFiniteSet(Undone(s, c))
  BY <1>2, UndoneChange
<1>4. Cardinality(Undone(s, c)) # 0
  BY <1>3, FS_EmptySet
<1>5. /\ s.completion = Cardinality(Undone(s, c)) + left
      /\ s.inProgress = IF s.completion = 0 THEN None ELSE c
  BY DEF Works, Working
<1> HIDE DEF Undone
<1>6. /\ t.completion = Cardinality(Undone(t, c)) + left
      /\ t.inProgress = IF t.completion = 0 THEN None ELSE c
  BY <1>3, <1>4, <1>5 DEF Ticks
<1> QED BY <1>1, <1>2, <1>6 DEF Works, Working

\* A port that the kernel has not looked at is done at once.
LEMMA SkipWorks ==
    ASSUME NEW s, NEW t, NEW p \in Ports, NEW c \in PortCommands, NEW left \in Nat,
           Works(s, c, left + 1), About(t, s, p), Stocked(t.port[p], s.cur),
           \A d \in PortCommands : ~Flagged(t.port[p], d), Ticks(t, s),
           ~Flagged(s.port[p], c)
    PROVE  Works(t, c, left) /\ Undone(t, c) = Undone(s, c)
<1>1. /\ Regular(t) /\ Calm(t) /\ t.krn = <<>> /\ t.commands = <<>>
      /\ \A d \in PortCommands \ {c} : Undone(t, d) = {}
  BY AboutKeeps
<1>2. Sound(s) /\ Sound(t) /\ \A q \in Ports \ {p} : Lowered(t.port[q], s.port[q])
  BY DEF Works, About
<1>7. Flagged(s.port[p], c) = Flagged(t.port[p], c)
  <2>1. s.port[p] \in PortRecord /\ t.port[p] \in PortRecord
    BY <1>2, PortOf
  <2> QED BY <2>1, FlagType
<1>3. Undone(t, c) = Undone(s, c) /\ Cardinality(Undone(s, c)) \in Nat
  <2>1. Undone(t, c) = Undone(s, c)
    <3> HIDE DEF Undone
    <3> QED BY ONLY <1>2, <1>7, UndoneChange, p \in Ports, c \in PortCommands
  <2>2. Cardinality(Undone(s, c)) \in Nat
    BY <1>2, UndoneChange
  <2> QED BY <2>1, <2>2
<1>5. /\ s.completion = Cardinality(Undone(s, c)) + (left + 1)
      /\ s.inProgress = IF s.completion = 0 THEN None ELSE c
  BY DEF Works, Working
<1>6. /\ t.completion = Cardinality(Undone(t, c)) + left
      /\ t.inProgress = IF t.completion = 0 THEN None ELSE c
  BY <1>3, <1>5 DEF Ticks
<1> QED BY <1>1, <1>2, <1>3, <1>6 DEF Works, Working

\* The kernel waits for a port it has not looked at before.
LEMMA StartWorks ==
    ASSUME NEW s, NEW t, NEW p \in Ports, NEW c \in PortCommands, NEW left \in Nat,
           Works(s, c, left + 1), About(t, s, p), Stocked(t.port[p], s.cur),
           \A d \in PortCommands \ {c} : ~Flagged(t.port[p], d),
           t.completion = s.completion, t.inProgress = s.inProgress,
           ~Flagged(s.port[p], c), Flagged(t.port[p], c)
    PROVE  Works(t, c, left) /\ Undone(t, c) = Undone(s, c) \cup {p}
<1>1. /\ Regular(t) /\ Calm(t) /\ t.krn = <<>> /\ t.commands = <<>>
      /\ \A d \in PortCommands \ {c} : Undone(t, d) = {}
  BY AboutKeeps
<1>2. Sound(s) /\ Sound(t) /\ \A q \in Ports \ {p} : Lowered(t.port[q], s.port[q])
  BY DEF Works, About
<1>3. /\ Cardinality(Undone(t, c)) = Cardinality(Undone(s, c)) + 1
      /\ Cardinality(Undone(s, c)) \in Nat /\ Undone(t, c) = Undone(s, c) \cup {p}
  BY <1>2, UndoneChange
<1>5. /\ s.completion = Cardinality(Undone(s, c)) + (left + 1)
      /\ s.inProgress = IF s.completion = 0 THEN None ELSE c
  BY DEF Works, Working
<1>6. /\ t.completion = Cardinality(Undone(t, c)) + left
      /\ t.inProgress = IF t.completion = 0 THEN None ELSE c
  BY <1>3, <1>5
<1> QED BY <1>1, <1>2, <1>3, <1>6 DEF Works, Working

\* A port the kernel waits for changes otherwise.
LEMMA WaitWorks ==
    ASSUME NEW s, NEW t, NEW p \in Ports, NEW c \in PortCommands, NEW left \in Nat,
           Works(s, c, left), About(t, s, p), Stocked(t.port[p], s.cur),
           \A d \in PortCommands \ {c} : ~Flagged(t.port[p], d),
           t.completion = s.completion, t.inProgress = s.inProgress,
           Flagged(s.port[p], c), Flagged(t.port[p], c)
    PROVE  Works(t, c, left)
<1>1. /\ Regular(t) /\ Calm(t) /\ t.krn = <<>> /\ t.commands = <<>>
      /\ \A d \in PortCommands \ {c} : Undone(t, d) = {}
  BY AboutKeeps
<1>2. Sound(s) /\ Sound(t) /\ \A q \in Ports \ {p} : Lowered(t.port[q], s.port[q])
  BY DEF Works, About
<1>7. Flagged(s.port[p], c) = Flagged(t.port[p], c)
  <2>1. s.port[p] \in PortRecord /\ t.port[p] \in PortRecord
    BY <1>2, PortOf
  <2> QED BY <2>1, FlagType
<1>3. Undone(t, c) = Undone(s, c)
  BY <1>2, <1>7, UndoneChange
<1>5. /\ s.completion = Cardinality(Undone(s, c)) + left
      /\ s.inProgress = IF s.completion = 0 THEN None ELSE c
  BY DEF Works, Working
<1> QED BY <1>1, <1>2, <1>3, <1>5 DEF Works, Working

-----------------------------------------------------------------------------
(* The kernel's work on a port command                                     *)

\* A port's record changes, and nothing else does.
LEMMA PortSet ==
    ASSUME NEW s, IsComp(s), NEW p \in Ports, NEW r
    PROVE  LET t == [s EXCEPT !.port[p] = r]
           IN  /\ t.port = [s.port EXCEPT ![p] = r] /\ t.port[p] = r
               /\ \A q \in Ports \ {p} : t.port[q] = s.port[q]
               /\ SameControl(t, s) /\ SameCommand(t, s) /\ t.prc = s.prc
               /\ t.completion = s.completion
               /\ t.callbacks = s.callbacks /\ t.held = s.held
BY DEF IsComp, Fields, SameControl, SameCommand

\* The processor is told of something other than a transition.
LEMMA ToldOther ==
    ASSUME NEW s, IsComp(s), NEW c \in PortCommands, NEW target \in Ports \cup {ALL}
    PROVE  LET t == ToProcessor(s, PortCommand(c, target))
           IN  /\ IsComp(t) /\ Same(t, s)
               /\ SameControl(t, s) /\ SameCommand(t, s) /\ t.completion = s.completion
               /\ Orders(t) = Orders(s)
<1> DEFINE m == PortCommand(c, target)
           t == ToProcessor(s, m)
<1>1. m \in Messages /\ m \notin Transits
  BY StatesAreNamed DEF Transits, PortCommand, StateSet, PortCommands
<1> HIDE DEF m
<1>2. IsComp(t) /\ Same(t, s)
  BY <1>1, ToProcessorIsQuiet DEF Quiet
<1>3. SameControl(t, s) /\ SameCommand(t, s) /\ t.completion = s.completion
      /\ t.prc = Append(s.prc, m) /\ s.prc \in Seq(Messages)
  BY DEF IsComp, Fields, SameControl, SameCommand, ToProcessor
<1>4. Orders(t) = Orders(s)
  BY <1>1, <1>3, OnlyAppend DEF Orders
<1> QED BY <1>2, <1>3, <1>4 DEF m

\* Port p, which the kernel has left as r, is done.
Done(t, s, p, r) ==
    /\ SameControl(t, s) /\ Orders(t) = Orders(s) /\ Ticks(t, s)
    /\ t.port = [s.port EXCEPT ![p] = r] /\ t.callbacks = s.callbacks /\ t.held = s.held

\* complete_port_disable.
LEMMA CompletePortDisableIs ==
    ASSUME NEW s, Sound(s), NEW p \in Ports, s.inProgress = "PortDisable",
           s.cancellation = None, s.completion > 0
    PROVE  Done(CompletePortDisable(s, p), s, p, SetDisabled(s.port[p]))
<1> PICK r : r = SetDisabled(s.port[p])
  OBVIOUS
<1> DEFINE t == [s EXCEPT !.port[p] = r]
           u == CountDown(t, "PortDisable", p)
<1>1. CompletePortDisable(s, p) = u
  BY DEF CompletePortDisable
<1>2. IsComp(t)
  BY FlagsAreSound DEF Sound
<1>3. /\ t.port = [s.port EXCEPT ![p] = r] /\ SameControl(t, s) /\ SameCommand(t, s)
      /\ t.prc = s.prc /\ t.completion = s.completion
      /\ t.callbacks = s.callbacks /\ t.held = s.held
  BY PortSet DEF Sound
<1> HIDE DEF t
<1>4. t.inProgress = "PortDisable" /\ t.cancellation = None /\ t.completion > 0
      /\ "PortDisable" \in PortCommands
  BY <1>3 DEF SameCommand, SameControl, PortCommands
<1>5. Ticked(u, t)
  BY <1>2, <1>4, CountDownIs
<1>6. Same(u, t)
  BY <1>2, CountDownIsQuiet DEF Quiet
<1> HIDE DEF u
<1>7. Done(u, s, p, r)
  BY <1>3, <1>5, <1>6 DEF Ticked, Same, SameControl, SameCommand, Done, Ticks, Orders
<1> QED BY <1>1, <1>7

\* complete_port_enable.
LEMMA CompletePortEnableIs ==
    ASSUME NEW s, Sound(s), NEW p \in Ports, s.inProgress = "PortEnable",
           s.cancellation = None, s.completion > 0
    PROVE  Done(CompletePortEnable(s, p), s, p, SetEnabled(s.port[p]))
<1> PICK r : r = SetEnabled(s.port[p])
  OBVIOUS
<1> DEFINE t == [s EXCEPT !.port[p] = r]
           v == ToProcessor(t, PortCommand("PortEnable", p))
           u == CountDown(v, "PortEnable", p)
<1>1. CompletePortEnable(s, p) = u
  BY DEF CompletePortEnable
<1>2. IsComp(t) /\ "PortEnable" \in PortCommands
  BY FlagsAreSound DEF Sound, PortCommands
<1>3. /\ t.port = [s.port EXCEPT ![p] = r] /\ SameControl(t, s) /\ SameCommand(t, s)
      /\ t.prc = s.prc /\ t.completion = s.completion
      /\ t.callbacks = s.callbacks /\ t.held = s.held
  BY PortSet DEF Sound
<1> HIDE DEF t
<1>4. /\ IsComp(v) /\ Same(v, t) /\ SameControl(v, t) /\ SameCommand(v, t)
      /\ v.completion = t.completion /\ Orders(v) = Orders(t)
  BY <1>2, ToldOther
<1> HIDE DEF v
<1>5. v.inProgress = "PortEnable" /\ v.cancellation = None /\ v.completion > 0
  BY <1>3, <1>4 DEF SameCommand, SameControl
<1>6. Ticked(u, v)
  BY <1>2, <1>4, <1>5, CountDownIs
<1>7. Same(u, v)
  BY <1>4, CountDownIsQuiet DEF Quiet
<1> HIDE DEF u
<1>8. Orders(t) = Orders(s) /\ Orders(u) = Orders(v)
  BY <1>3, <1>6 DEF Orders, Ticked
<1>9. Done(u, s, p, r)
  BY <1>3, <1>4, <1>6, <1>7, <1>8 DEF Ticked, Same, SameControl, SameCommand, Done, Ticks
<1> QED BY <1>1, <1>9

\* complete_port_flush.
LEMMA CompletePortFlushIs ==
    ASSUME NEW s, Sound(s), NEW p \in Ports, s.inProgress = "Flush",
           s.cancellation = None, s.completion > 0
    PROVE  Done(CompletePortFlush(s, p), s, p, [s.port[p] EXCEPT !.flushing = FALSE])
<1> PICK r : r = [s.port[p] EXCEPT !.flushing = FALSE]
  OBVIOUS
<1> DEFINE t == [s EXCEPT !.port[p] = r]
           told == Event(t, "Flush", p, None)
           u == [told EXCEPT !.completion = @ - 1]
           w == IF u.completion = 0 THEN CompleteCommand(u, "Flush", p) ELSE u
<1>2. IsComp(t) /\ "Flush" \in PortCommands
  BY FlagsAreSound DEF Sound, PortCommands
<1>3. /\ t.port = [s.port EXCEPT ![p] = r] /\ SameControl(t, s) /\ SameCommand(t, s)
      /\ t.prc = s.prc /\ t.completion = s.completion
      /\ t.callbacks = s.callbacks /\ t.held = s.held
  BY PortSet DEF Sound
<1>0. t = [s EXCEPT !.port[p].flushing = FALSE]
  OBVIOUS
<1> HIDE DEF t
<1>4. Alike(told, t)
  BY <1>2, EventIs
<1>1. CompletePortFlush(s, p) = w
  <2>1. told.completion > 0
    BY <1>3, <1>4 DEF Alike
  <2>2. CompletionCountPositive(told) = told
    BY <2>1, ExpectHolds DEF CompletionCountPositive
  <2> QED BY <1>0, <2>2 DEF CompletePortFlush
<1> HIDE DEF told
<1>5. /\ u.completion = told.completion - 1 /\ SameControl(u, told) /\ SameCommand(u, told)
      /\ Same(u, told) /\ u.prc = told.prc /\ IsComp(u)
  BY <1>4 DEF SameControl, SameCommand, Same, IsComp, Fields, Alike
<1> HIDE DEF u
<1>6. /\ u.completion = s.completion - 1 /\ SameControl(u, s) /\ SameCommand(u, s)
      /\ u.prc = s.prc /\ u.port = [s.port EXCEPT ![p] = r]
      /\ u.callbacks = s.callbacks /\ u.held = s.held
  BY <1>3, <1>4, <1>5 DEF Alike, SameControl, SameCommand, Same
<1>7. CASE u.completion = 0
  <2>1. u.inProgress = "Flush" /\ u.cancellation = None
    BY <1>6 DEF SameControl, SameCommand
  <2> DEFINE x == CompleteCommand(u, "Flush", p)
  <2>2. SameControl(x, u) /\ x.inProgress = None /\ x.prc = u.prc /\ x.completion = u.completion
    BY <1>2, <1>5, <2>1, CompleteCommandIs
  <2>3. Same(x, u)
    BY <1>5, CompleteCommandIsQuiet DEF Quiet
  <2> HIDE DEF x
  <2>4. Done(x, s, p, r)
    BY <1>6, <1>7, <2>2, <2>3 DEF Done, Ticks, SameControl, Same, Orders
  <2> QED BY <1>1, <1>7, <2>4 DEF x
<1>8. CASE u.completion # 0
  <2>1. Done(u, s, p, r)
    BY <1>6, <1>8 DEF Done, Ticks, SameControl, SameCommand, Orders
  <2> QED BY <1>1, <1>8, <2>1
<1> QED BY <1>7, <1>8

\* A port that is done, and no other port changed.
LEMMA DoneIsAbout ==
    ASSUME NEW s, NEW t, NEW p \in Ports, NEW r, Sound(s), Regular(s), Sound(t), Done(t, s, p, r)
    PROVE  About(t, s, p) /\ t.port[p] = r /\ Ticks(t, s)
<1>1. s.port \in [Ports -> PortRecord] /\ t.port = [s.port EXCEPT ![p] = r]
  BY DEF Sound, IsComp, Done
<1>2. t.port[p] = r /\ \A q \in Ports \ {p} : t.port[q] = s.port[q]
  BY <1>1
<1>3. ASSUME NEW q \in Ports \ {p} PROVE Lowered(t.port[q], s.port[q])
  <2>1. s.port[q].claimed \in Nat /\ t.port[q] = s.port[q]
    BY <1>2, PortOf
  <2> QED BY <2>1 DEF Lowered
<1> QED BY <1>2, <1>3 DEF About, Done, Regular

\* The port has the same flags and buffers, and in Executing any may be claimed.
Alters(q, r, cur) ==
    /\ q.enabled = r.enabled /\ q.beingEnabled = r.beingEnabled
    /\ q.beingDisabled = r.beingDisabled /\ q.flushing = r.flushing
    /\ q.bufs = r.bufs
    /\ q.claimed <= r.claimed \/ cur = "Executing"

\* From s to t headers change hands, and nothing else changes.
Shifts(t, s) ==
    /\ Sound(t) /\ SameControl(t, s) /\ SameCommand(t, s)
    /\ Orders(t) = Orders(s) /\ t.completion = s.completion
    /\ Dummy \in ToSet(t.callbacks) => Dummy \in ToSet(s.callbacks)
    /\ \A q \in Ports : Alters(t.port[q], s.port[q], s.cur)

\* Nothing shifts least.
LEMMA ShiftSelf ==
    ASSUME NEW s, Sound(s)
    PROVE  Shifts(s, s)
<1>1. ASSUME NEW q \in Ports PROVE Alters(s.port[q], s.port[q], s.cur)
  <2>1. s.port[q].claimed \in Nat
    BY PortOf
  <2> QED BY <2>1 DEF Alters
<1> QED BY <1>1 DEF Shifts, SameControl, SameCommand

\* One shift after another.
LEMMA ShiftTwice ==
    ASSUME NEW s, NEW t, NEW u, Sound(s), Shifts(t, s), Shifts(u, t)
    PROVE  Shifts(u, s)
<1>1. ASSUME NEW q \in Ports PROVE Alters(u.port[q], s.port[q], s.cur)
  <2>1. Sound(t) /\ Sound(u) /\ t.cur = s.cur
    BY DEF Shifts, SameControl
  <2>2. s.port[q].claimed \in Nat /\ t.port[q].claimed \in Nat /\ u.port[q].claimed \in Nat
    BY <2>1, PortOf
  <2>3. Alters(u.port[q], t.port[q], t.cur) /\ Alters(t.port[q], s.port[q], s.cur)
    BY DEF Shifts
  <2> QED BY <2>1, <2>2, <2>3 DEF Alters
<1> QED BY <1>1 DEF Shifts, SameControl, SameCommand

\* What is left alone by a step that leaves the headers alone.
LEMMA SameShifts ==
    ASSUME NEW s, NEW t, Sound(s), IsComp(t), Same(t, s), SameControl(t, s), SameCommand(t, s),
           Orders(t) = Orders(s), t.completion = s.completion
    PROVE  Shifts(t, s)
<1>1. Sound(t)
  BY QuietIsSound DEF Quiet
<1>2. \A q \in Ports : Alters(t.port[q], s.port[q], s.cur)
  <2>1. t.port = s.port /\ \A q \in Ports : Alters(s.port[q], s.port[q], s.cur)
    BY ShiftSelf DEF Shifts, Same
  <2> QED BY <2>1
<1> QED BY <1>1, <1>2 DEF Shifts, Same

\* After a shift the same ports are undone, in a state that is in order.
LEMMA ShiftKeeps ==
    ASSUME NEW s, NEW t, Shifts(t, s)
    PROVE  /\ \A c \in PortCommands : Undone(t, c) = Undone(s, c)
           /\ \A q \in Ports, c \in PortCommands : Flagged(t.port[q], c) = Flagged(s.port[q], c)
           /\ Regular(s) => Regular(t)
           /\ Calm(s) => Calm(t)
<1>1. ASSUME NEW q \in Ports, NEW c \in PortCommands
      PROVE  Flagged(t.port[q], c) = Flagged(s.port[q], c)
  <2>1. Alters(t.port[q], s.port[q], s.cur)
    BY DEF Shifts
  <2> QED BY <2>1 DEF Alters, Flagged, PortCommands
<1>2. \A c \in PortCommands : Undone(t, c) = Undone(s, c)
  BY <1>1 DEF Undone
<1>3. ASSUME Regular(s) PROVE Regular(t)
  <2>1. ASSUME NEW q \in Ports PROVE Stocked(t.port[q], t.cur)
    <3>1. /\ Sound(t) /\ t.cur = s.cur
          /\ Alters(t.port[q], s.port[q], s.cur) /\ Stocked(s.port[q], s.cur)
      BY <1>3 DEF Shifts, SameControl, Regular
    <3>2. t.port[q].claimed \in Nat
      BY <3>1, PortOf
    <3> QED BY <3>1, <3>2 DEF Alters, Stocked
  <2> QED BY <2>1, <1>3 DEF Shifts, SameControl, Regular
<1>4. Calm(s) => Calm(t)
  BY DEF Shifts, SameControl, Calm
<1> QED BY <1>1, <1>2, <1>3, <1>4

\* After a shift the kernel works on as before.
LEMMA ShiftWorks ==
    ASSUME NEW s, NEW t, Shifts(t, s), NEW c \in PortCommands, NEW left, Works(s, c, left)
    PROVE  Works(t, c, left)
<1>1. /\ \A d \in PortCommands : Undone(t, d) = Undone(s, d)
      /\ Regular(t) /\ Calm(t)
  BY ShiftKeeps DEF Works, Working
<1>2. Sound(t) /\ t.inProgress = s.inProgress /\ t.commands = s.commands /\ t.krn = s.krn
      /\ t.completion = s.completion
  BY DEF Shifts, SameControl, SameCommand
<1>3. Working(t, c, left)
  BY <1>1, <1>2 DEF Works, Working
<1> QED BY <1>1, <1>2, <1>3 DEF Works

\* Callbacks that are drained only give headers back.
LEMMA DrainShifts ==
    ASSUME NEW s, Sound(s), Regular(s), NEW target
    PROVE  Shifts(DrainCallbacks(s, target), s)
<1> DEFINE gone == {q \in Callbacks : target \in {ALL, q}}
           left == Only(s.callbacks, Callbacks \ gone)
           returned(p) == IF p \in gone THEN Count(s.callbacks, p) ELSE 0
           ports == [p \in Ports |-> [s.port[p] EXCEPT !.claimed = @ - returned(p)]]
           u == [s EXCEPT !.callbacks = left, !.port = ports]
<1>1. DrainCallbacks(s, target) = u
  <2>1. Expect(s, Dummy \notin ToSet(s.callbacks), "NULL != p_hdr") = s
    BY ExpectHolds DEF Regular
  <2>2. DrainCallbacks(s, target) =
          [s EXCEPT !.callbacks = Only(s.callbacks, Callbacks \ gone), !.port = ports]
    BY <2>1 DEF DrainCallbacks, Callbacks
  <2> HIDE DEF ports
  <2> QED BY <2>2
<1>2. IsComp(s) /\ s.callbacks \in Seq(Callbacks) /\ s.port \in [Ports -> PortRecord]
  BY DEF Sound, IsComp
<1>3. \A p \in Ports : returned(p) \in Nat
  BY <1>2, CountType
<1>4. Dummy \notin ToSet(left)
  <2>1. Dummy \notin ToSet(s.callbacks)
    BY DEF Regular
  <2>2. Count(s.callbacks, Dummy) = 0
    BY <1>2, <2>1, CountType
  <2>3. Count(left, Dummy) = 0 /\ left \in Seq(Callbacks)
    <3> HIDE DEF gone
    <3> QED BY <1>2, <2>2, CountOnly, OnlyPicks
  <2> QED BY <2>3, CountType
<1> HIDE DEF left, returned
<1>5. ASSUME NEW q \in Ports PROVE Alters(ports[q], s.port[q], s.cur)
  <2>1. s.port[q] \in PortRecord /\ returned(q) \in Nat
    BY <1>2, <1>3
  <2>2. ports[q] = [s.port[q] EXCEPT !.claimed = @ - returned(q)]
    OBVIOUS
  <2> QED BY <2>1, <2>2 DEF PortRecord, Alters
<1> HIDE DEF ports
<1>6. /\ u.port = ports /\ u.callbacks = left /\ SameControl(u, s) /\ SameCommand(u, s)
      /\ u.prc = s.prc /\ u.completion = s.completion
  BY <1>2 DEF IsComp, Fields, SameControl, SameCommand
<1>7. Sound(u)
  BY <1>1, DrainCallbacksIsSound
<1> HIDE DEF u
<1>8. Shifts(u, s)
  BY <1>4, <1>5, <1>6, <1>7 DEF Shifts, Orders
<1> QED BY <1>1, <1>8

\* A command that is not done is in progress.
LEMMA WorksBusy ==
    ASSUME NEW s, NEW c \in PortCommands, NEW left \in Nat, Works(s, c, left),
           left > 0 \/ \E p \in Ports : Flagged(s.port[p], c)
    PROVE  s.inProgress = c /\ s.cancellation = None /\ s.completion > 0
<1>1. IsFiniteSet(Undone(s, c))
  <2>1. Undone(s, c) \subseteq Ports
    BY DEF Undone
  <2> QED BY <2>1, PortsAreFinite, FS_Subset
<1>2. Cardinality(Undone(s, c)) \in Nat
  BY <1>1, FS_CardinalityType
<1>3. Undone(s, c) # {} => Cardinality(Undone(s, c)) # 0
  BY <1>1, FS_EmptySet
<1>4. left > 0 \/ Undone(s, c) # {}
  BY DEF Undone
<1>5. /\ s.completion = Cardinality(Undone(s, c)) + left
      /\ s.inProgress = IF s.completion = 0 THEN None ELSE c
  BY DEF Works, Working
<1> HIDE DEF Undone
<1>6. s.completion > 0
  BY <1>2, <1>3, <1>4, <1>5
<1> QED BY <1>5, <1>6 DEF Works, Regular

\* The kernel has looked at one port more.
Looked(t, s, c, p, left) ==
    /\ Works(t, c, left) /\ Undone(t, c) \subseteq Undone(s, c) \cup {p}
    /\ t.cur = s.cur

\* A port that has not been looked at has no flag, and its headers are stocked.
LEMMA FreshPort ==
    ASSUME NEW s, NEW c \in PortCommands, NEW left, Works(s, c, left), NEW p \in Ports,
           p \notin Undone(s, c)
    PROVE  LET r == s.port[p]
           IN  /\ r \in PortRecord /\ Stocked(r, s.cur) /\ r.claimed \in Nat
               /\ r.claimed <= r.bufs
               /\ ~r.beingEnabled /\ ~r.beingDisabled /\ ~r.flushing
               /\ s.cur \in Stages
<1>1. \A d \in PortCommands : p \notin Undone(s, d)
  BY DEF Works, Working
<1>2. \A d \in PortCommands : ~Flagged(s.port[p], d)
  BY <1>1 DEF Undone
<1>3. ~s.port[p].beingEnabled /\ ~s.port[p].beingDisabled /\ ~s.port[p].flushing
  BY <1>2 DEF Flagged, PortCommands
<1> QED BY <1>3, PortOf DEF Works, Regular, Working, Calm

\* A port that is done at once, after a shift.
LEMMA LookedDone ==
    ASSUME NEW s, NEW u, NEW t, NEW c \in PortCommands, NEW left \in Nat, Works(s, c, left + 1),
           Shifts(u, s), NEW p \in Ports, p \notin Undone(s, c),
           NEW r, Done(t, u, p, r), Sound(t), Stocked(r, s.cur),
           ~r.beingEnabled, ~r.beingDisabled, ~r.flushing
    PROVE  Looked(t, s, c, p, left)
<1>1. Works(u, c, left + 1) /\ u.cur = s.cur /\ Undone(u, c) = Undone(s, c)
  BY ShiftWorks, ShiftKeeps DEF Shifts, SameControl
<1>2. About(t, u, p) /\ t.port[p] = r /\ Ticks(t, u)
  BY <1>1, DoneIsAbout DEF Works
<1>3. \A d \in PortCommands : ~Flagged(r, d)
  BY DEF Flagged, PortCommands
<1>4. ~Flagged(u.port[p], c)
  BY <1>1 DEF Undone
<1>5. Works(t, c, left) /\ Undone(t, c) = Undone(u, c)
  BY <1>1, <1>2, <1>3, <1>4, SkipWorks
<1>6. t.cur = u.cur
  BY DEF Done, SameControl
<1> QED BY <1>1, <1>5, <1>6 DEF Looked

\* A port that the kernel is to wait for, after a shift.
LEMMA LookedStarted ==
    ASSUME NEW s, NEW u, NEW c \in PortCommands, NEW left \in Nat, Works(s, c, left + 1),
           Shifts(u, s), NEW p \in Ports, p \notin Undone(s, c),
           NEW r, Sound([u EXCEPT !.port[p] = r]), Stocked(r, s.cur),
           Flagged(r, c), \A d \in PortCommands \ {c} : ~Flagged(r, d)
    PROVE  /\ Looked([u EXCEPT !.port[p] = r], s, c, p, left)
           /\ Looked(ToProcessor([u EXCEPT !.port[p] = r], PortCommand(c, p)), s, c, p, left)
<1> DEFINE t == [u EXCEPT !.port[p] = r]
           v == ToProcessor(t, PortCommand(c, p))
<1>1. Works(u, c, left + 1) /\ u.cur = s.cur /\ Undone(u, c) = Undone(s, c) /\ IsComp(u)
      /\ Sound(u)
  BY ShiftWorks, ShiftKeeps DEF Shifts, SameControl, Sound
<1>2. /\ t.port[p] = r /\ \A q \in Ports \ {p} : t.port[q] = u.port[q]
      /\ SameControl(t, u) /\ SameCommand(t, u) /\ t.prc = u.prc
      /\ t.completion = u.completion /\ t.callbacks = u.callbacks
  <2>1. t.port = [u.port EXCEPT ![p] = r] /\ u.port \in [Ports -> PortRecord]
    BY <1>1, PortSet DEF IsComp
  <2>2. /\ SameControl(t, u) /\ SameCommand(t, u) /\ t.prc = u.prc
        /\ t.completion = u.completion /\ t.callbacks = u.callbacks
    BY <1>1 DEF IsComp, Fields, SameControl, SameCommand
  <2> HIDE DEF t
  <2> QED BY <2>1, <2>2
<1>0. Sound(t) /\ IsComp(t)
  BY DEF Sound
<1> HIDE DEF t
<1>3. About(t, u, p)
  <2>1. ASSUME NEW q \in Ports \ {p} PROVE Lowered(t.port[q], u.port[q])
    <3>1. t.port[q].claimed \in Nat /\ t.port[q] = u.port[q]
      BY <1>0, <1>2, PortOf
    <3> QED BY <3>1 DEF Lowered
  <2>2. Dummy \notin ToSet(t.callbacks)
    BY <1>1, <1>2 DEF Works, Regular
  <2> QED BY <2>1, <2>2, <1>0, <1>2 DEF About, Orders
<1>4. ~Flagged(u.port[p], c)
  BY <1>1 DEF Undone
<1>5. t.inProgress = u.inProgress
  BY <1>2 DEF SameCommand
<1>6. Works(t, c, left) /\ Undone(t, c) = Undone(u, c) \cup {p}
  BY <1>1, <1>2, <1>3, <1>4, <1>5, StartWorks
<1>7. Shifts(v, t)
  <2>1. /\ IsComp(v) /\ Same(v, t)
        /\ SameControl(v, t) /\ SameCommand(v, t) /\ v.completion = t.completion
        /\ Orders(v) = Orders(t)
    BY <1>0, ToldOther
  <2> HIDE DEF v
  <2> QED BY <2>1, <1>0, SameShifts
<1> HIDE DEF v
<1>8. Works(v, c, left) /\ Undone(v, c) = Undone(t, c)
  BY <1>6, <1>7, ShiftWorks, ShiftKeeps
<1>9. t.cur = u.cur /\ v.cur = t.cur
  BY <1>2, <1>7 DEF SameControl, Shifts
<1> QED BY <1>1, <1>6, <1>8, <1>9 DEF Looked, t, v

\* DisablePort does or starts what is to do.
LEMMA DisablePortWorks ==
    ASSUME NEW s, NEW left \in Nat, Works(s, "PortDisable", left + 1), NEW p \in Ports,
           p \notin Undone(s, "PortDisable"), NEW i
    PROVE  Looked(DisablePort(s, p, i), s, "PortDisable", p, left)
<1> DEFINE d == DrainCallbacks(s, i)
<1> PICK r : r = s.port[p]
  OBVIOUS
<1>0. "PortDisable" \in PortCommands /\ Sound(s) /\ Regular(s) /\ left + 1 \in Nat /\ left + 1 > 0
  BY DEF PortCommands, Works
<1>1. /\ r \in PortRecord /\ Stocked(r, s.cur) /\ r.claimed \in Nat /\ r.claimed <= r.bufs
      /\ ~r.beingEnabled /\ ~r.beingDisabled /\ ~r.flushing /\ s.cur \in Stages
  BY <1>0, FreshPort
<1>2. Shifts(d, s) /\ Shifts(s, s)
  BY <1>0, DrainShifts, ShiftSelf
<1>3. DisablePort(s, p, i) =
        IF ~s.port[p].enabled THEN CompletePortDisable(s, p)
        ELSE IF s.port[p].bufs = 0 THEN CompletePortDisable(d, p)
        ELSE IF [d EXCEPT !.port[p] = GoingToDisabled(@)].port[p].claimed > 0
        THEN ToProcessor([d EXCEPT !.port[p] = GoingToDisabled(@)], PortCommand("PortDisable", p))
        ELSE [d EXCEPT !.port[p] = GoingToDisabled(@)]
  BY DEF DisablePort
<1> HIDE DEF d
<1>4. ASSUME NEW u, Shifts(u, s), ~r.enabled \/ r.bufs = 0
      PROVE  Looked(CompletePortDisable(u, p), s, "PortDisable", p, left)
  <2>1. Works(u, "PortDisable", left + 1) /\ Sound(u)
    BY <1>0, <1>4, ShiftWorks DEF Works
  <2>2. u.inProgress = "PortDisable" /\ u.cancellation = None /\ u.completion > 0
    BY <1>0, <2>1, WorksBusy
  <2> PICK q : q = u.port[p]
    OBVIOUS
  <2>3. Alters(q, r, s.cur) /\ q \in PortRecord /\ q.claimed \in Nat /\ q.claimed <= q.bufs
    BY <1>4, <2>1, PortOf DEF Shifts
  <2> PICK x : x = SetDisabled(q)
    OBVIOUS
  <2>4. Done(CompletePortDisable(u, p), u, p, x) /\ Sound(CompletePortDisable(u, p))
    BY <2>1, <2>2, CompletePortDisableIs, CompletePortDisableIsSound
  <2>5. Stocked(x, s.cur) /\ ~x.beingEnabled /\ ~x.beingDisabled /\ ~x.flushing
    <3>1. /\ ~x.enabled /\ x.beingEnabled = q.beingEnabled /\ ~x.beingDisabled
          /\ x.flushing = q.flushing /\ x.bufs = q.bufs /\ x.claimed = q.claimed
      BY <2>3 DEF PortRecord, SetDisabled
    <3>2. x.bufs = 0 /\ x.claimed = 0
      BY <1>1, <1>4, <2>3, <3>1 DEF Alters, Stocked
    <3> QED BY <1>1, <2>3, <3>1, <3>2 DEF Alters, Stocked
  <2> QED BY <1>0, <1>4, <2>4, <2>5, LookedDone
<1>5. ASSUME r.enabled, r.bufs # 0
      PROVE  LET t == [d EXCEPT !.port[p] = GoingToDisabled(@)]
             IN  /\ Looked(t, s, "PortDisable", p, left)
                 /\ Looked(ToProcessor(t, PortCommand("PortDisable", p)), s, "PortDisable", p, left)
  <2> PICK q : q = d.port[p]
    OBVIOUS
  <2>1. Sound(d)
    BY <1>2 DEF Shifts
  <2>2. Alters(q, r, s.cur) /\ q \in PortRecord /\ q.claimed \in Nat /\ q.claimed <= q.bufs
    BY <1>2, <2>1, PortOf DEF Shifts
  <2> PICK x : x = GoingToDisabled(q)
    OBVIOUS
  <2>3. Sound([d EXCEPT !.port[p] = x])
    BY <2>1, FlagsAreSound
  <2>4. /\ x.enabled = q.enabled /\ x.beingEnabled = q.beingEnabled /\ x.beingDisabled
        /\ x.flushing = q.flushing /\ x.bufs = q.bufs /\ x.claimed = q.claimed
    BY <2>2 DEF PortRecord, GoingToDisabled
  <2>5. NBufs \in Nat /\ r.bufs \in Nat
    BY <1>1, PortAssumption DEF PortRecord
  <2>6. Stocked(x, s.cur)
    BY <1>1, <1>5, <2>2, <2>4, <2>5 DEF Alters, Stocked
  <2>7. Flagged(x, "PortDisable") /\ \A c \in PortCommands \ {"PortDisable"} : ~Flagged(x, c)
    BY <1>1, <2>2, <2>4 DEF Alters, Flagged, PortCommands
  <2> QED BY <1>0, <1>2, <2>3, <2>6, <2>7, LookedStarted
<1> QED BY <1>2, <1>3, <1>4, <1>5

\* EnablePort does or starts what is to do.
LEMMA EnablePortWorks ==
    ASSUME NEW s, NEW left \in Nat, Works(s, "PortEnable", left + 1), NEW p \in Ports,
           p \notin Undone(s, "PortEnable"), NEW i
    PROVE  Looked(EnablePort(s, p, i), s, "PortEnable", p, left)
<1> PICK r : r = s.port[p]
  OBVIOUS
<1>0. "PortEnable" \in PortCommands /\ Sound(s) /\ Regular(s) /\ left + 1 \in Nat /\ left + 1 > 0
  BY DEF PortCommands, Works
<1>1. /\ r \in PortRecord /\ Stocked(r, s.cur) /\ r.claimed \in Nat /\ r.claimed <= r.bufs
      /\ ~r.beingEnabled /\ ~r.beingDisabled /\ ~r.flushing /\ s.cur \in Stages
  BY <1>0, FreshPort
<1>2. Shifts(s, s)
  BY <1>0, ShiftSelf
<1>3. EnablePort(s, p, i) =
        IF s.port[p].enabled \/ s.cur \in {"WaitForResources", "Loaded"}
        THEN CompletePortEnable(s, p)
        ELSE [s EXCEPT !.port[p] = GoingToEnabled(@)]
  BY <1>1 DEF EnablePort, Stages
<1>4. ASSUME r.enabled \/ s.cur \in {"WaitForResources", "Loaded"}
      PROVE  Looked(CompletePortEnable(s, p), s, "PortEnable", p, left)
  <2>2. s.inProgress = "PortEnable" /\ s.cancellation = None /\ s.completion > 0
    BY <1>0, WorksBusy
  <2> PICK x : x = SetEnabled(r)
    OBVIOUS
  <2>4. Done(CompletePortEnable(s, p), s, p, x) /\ Sound(CompletePortEnable(s, p))
    BY <1>0, <2>2, CompletePortEnableIs, CompletePortEnableIsSound
  <2>5. Stocked(x, s.cur) /\ ~x.beingEnabled /\ ~x.beingDisabled /\ ~x.flushing
    <3>1. /\ x.enabled /\ ~x.beingEnabled /\ x.beingDisabled = r.beingDisabled
          /\ x.flushing = r.flushing /\ x.bufs = r.bufs /\ x.claimed = r.claimed
      BY <1>1 DEF PortRecord, SetEnabled
    <3> QED BY <1>1, <1>4, <3>1 DEF Stocked
  <2> QED BY <1>0, <1>2, <2>4, <2>5, LookedDone
<1>5. ASSUME ~r.enabled, s.cur \notin {"WaitForResources", "Loaded"}
      PROVE  Looked([s EXCEPT !.port[p] = GoingToEnabled(@)], s, "PortEnable", p, left)
  <2> PICK x : x = GoingToEnabled(r)
    OBVIOUS
  <2>3. Sound([s EXCEPT !.port[p] = x])
    BY <1>0, FlagsAreSound
  <2>4. /\ x.enabled /\ x.beingEnabled /\ x.beingDisabled = r.beingDisabled
        /\ x.flushing = r.flushing /\ x.bufs = r.bufs /\ x.claimed = r.claimed
    BY <1>1 DEF PortRecord, GoingToEnabled
  <2>5. NBufs \in Nat \ {0} /\ r.bufs \in Nat
    BY <1>1, PortAssumption DEF PortRecord
  <2>6. Stocked(x, s.cur)
    BY <1>1, <1>5, <2>4, <2>5 DEF Stocked
  <2>7. Flagged(x, "PortEnable") /\ \A c \in PortCommands \ {"PortEnable"} : ~Flagged(x, c)
    BY <1>1, <2>4 DEF Flagged, PortCommands
  <2> QED BY <1>0, <1>2, <2>3, <2>6, <2>7, LookedStarted
<1> QED BY <1>3, <1>4, <1>5

\* FlushPort does or starts what is to do.
LEMMA FlushPortWorks ==
    ASSUME NEW s, NEW left \in Nat, Works(s, "Flush", left + 1), NEW p \in Ports,
           p \notin Undone(s, "Flush"), NEW i
    PROVE  Looked(FlushPort(s, p, i), s, "Flush", p, left)
<1> DEFINE u == IF /\ s.port[p].enabled /\ s.port[p].bufs > 0
                   /\ s.cur \in {"Executing", "Pause"}
                THEN DrainCallbacks(s, i)
                ELSE s
<1> PICK r : r = s.port[p]
  OBVIOUS
<1>0. "Flush" \in PortCommands /\ Sound(s) /\ Regular(s) /\ left + 1 \in Nat /\ left + 1 > 0
  BY DEF PortCommands, Works
<1>1. /\ r \in PortRecord /\ Stocked(r, s.cur) /\ r.claimed \in Nat /\ r.claimed <= r.bufs
      /\ ~r.beingEnabled /\ ~r.beingDisabled /\ ~r.flushing /\ s.cur \in Stages
  BY <1>0, FreshPort
<1>2. Shifts(u, s)
  BY <1>0, DrainShifts, ShiftSelf
<1>3. FlushPort(s, p, i) =
        IF u.port[p].claimed = 0 THEN CompletePortFlush(u, p)
        ELSE ToProcessor([u EXCEPT !.port[p].flushing = TRUE], PortCommand("Flush", p))
  BY DEF FlushPort
<1> HIDE DEF u
<1> PICK q : q = u.port[p]
  OBVIOUS
<1>6. Works(u, "Flush", left + 1) /\ Sound(u)
  BY <1>0, <1>2, ShiftWorks DEF Works
<1>7. Alters(q, r, s.cur) /\ q \in PortRecord /\ q.claimed \in Nat
  BY <1>2, <1>6, PortOf DEF Shifts
<1>8. Stocked(q, s.cur)
  BY <1>1, <1>7 DEF Alters, Stocked
<1>4. Looked(CompletePortFlush(u, p), s, "Flush", p, left)
  <2>2. u.inProgress = "Flush" /\ u.cancellation = None /\ u.completion > 0
    BY <1>0, <1>6, WorksBusy
  <2> PICK x : x = [q EXCEPT !.flushing = FALSE]
    OBVIOUS
  <2>4. Done(CompletePortFlush(u, p), u, p, x) /\ Sound(CompletePortFlush(u, p))
    BY <1>6, <2>2, CompletePortFlushIs, CompletePortFlushIsSound
  <2>5. Stocked(x, s.cur) /\ ~x.beingEnabled /\ ~x.beingDisabled /\ ~x.flushing
    <3>1. /\ x.enabled = q.enabled /\ x.beingEnabled = q.beingEnabled
          /\ x.beingDisabled = q.beingDisabled
          /\ ~x.flushing /\ x.bufs = q.bufs /\ x.claimed = q.claimed
      BY <1>7 DEF PortRecord
    <3> QED BY <1>1, <1>7, <1>8, <3>1 DEF Alters, Stocked
  <2> QED BY <1>0, <1>2, <2>4, <2>5, LookedDone
<1>5. Looked(ToProcessor([u EXCEPT !.port[p].flushing = TRUE], PortCommand("Flush", p)),
             s, "Flush", p, left)
  <2> PICK x : x = [q EXCEPT !.flushing = TRUE]
    OBVIOUS
  <2>3. Sound([u EXCEPT !.port[p] = x])
    BY <1>6, FlagsAreSound
  <2>4. /\ x.enabled = q.enabled /\ x.beingEnabled = q.beingEnabled
        /\ x.beingDisabled = q.beingDisabled
        /\ x.flushing /\ x.bufs = q.bufs /\ x.claimed = q.claimed
    BY <1>7 DEF PortRecord
  <2>6. Stocked(x, s.cur)
    BY <1>8, <2>4 DEF Stocked
  <2>7. Flagged(x, "Flush") /\ \A c \in PortCommands \ {"Flush"} : ~Flagged(x, c)
    BY <1>1, <1>7, <2>4 DEF Alters, Flagged, PortCommands
  <2> QED BY <1>0, <1>2, <2>3, <2>6, <2>7, LookedStarted
<1> QED BY <1>3, <1>4, <1>5

\* The command whose loop it is.
CommandOf(kind) ==
    CASE kind = "disable" -> "PortDisable"
      [] kind = "enable" -> "PortEnable"
      [] kind = "flush" -> "Flush"

\* A turn of a command's loop.
LEMMA TurnWorks ==
    ASSUME NEW kind \in {"disable", "enable", "flush"}, NEW s, NEW left \in Nat,
           Works(s, CommandOf(kind), left + 1), NEW p \in Ports, p \notin Undone(s, CommandOf(kind))
    PROVE  Looked(Turn(kind, s, p), s, CommandOf(kind), p, left)
<1>1. CASE kind = "disable"
  BY <1>1, TurnIs, DisablePortWorks DEF CommandOf
<1>2. CASE kind = "enable"
  BY <1>2, TurnIs, EnablePortWorks DEF CommandOf
<1>3. CASE kind = "flush"
  BY <1>3, TurnIs, FlushPortWorks DEF CommandOf
<1> QED BY <1>1, <1>2, <1>3

\* A command's loop looks at every port once.
LEMMA LoopWorks ==
    ASSUME NEW kind \in {"disable", "enable", "flush"}, NEW s,
           Works(s, CommandOf(kind), Len(PortList)), Undone(s, CommandOf(kind)) = {},
           NEW f, IsLoop(f, kind, s, Len(PortList))
    PROVE  Works(f[Len(PortList)], CommandOf(kind), 0) /\ f[Len(PortList)].cur = s.cur
<1> DEFINE n == Len(PortList)
           c == CommandOf(kind)
           seen(k) == {PortList[i] : i \in 1 .. k}
           G == {k \in Nat : k <= n =>
                    /\ Works(f[k], c, n - k) /\ Undone(f[k], c) \subseteq seen(k)
                    /\ f[k].cur = s.cur}
<1>1. n \in Nat /\ \A k \in 1 .. n : PortList[k] \in Ports
  BY PortsAreFinite
<1>0. \A i, j \in 1 .. n : PortList[i] = PortList[j] => i = j
  BY PortAssumption DEF IsInjective
<1> HIDE DEF n, c
<1>2. \A k \in 0 .. n : f[k] = IF k = 0 THEN s ELSE Turn(kind, f[k - 1], PortList[k])
  BY DEF IsLoop, n
<1>3. 0 \in G
  BY <1>1, <1>2 DEF n, c
<1>4. ASSUME NEW k \in Nat, k \in G PROVE k + 1 \in G
  <2> SUFFICES ASSUME k + 1 <= n
               PROVE  /\ Works(f[k + 1], c, n - (k + 1))
                      /\ Undone(f[k + 1], c) \subseteq seen(k + 1)
                      /\ f[k + 1].cur = s.cur
    OBVIOUS
  <2> PICK p : p = PortList[k + 1]
    OBVIOUS
  <2> PICK left : left = n - (k + 1)
    OBVIOUS
  <2>1. /\ Works(f[k], c, n - k) /\ Undone(f[k], c) \subseteq seen(k)
        /\ p \in Ports /\ left \in Nat /\ n - k = left + 1 /\ f[k].cur = s.cur
    BY <1>1, <1>4
  <2>2. f[k + 1] = Turn(kind, f[k], p)
    BY <1>1, <1>2
  <2>3. p \notin seen(k)
    BY <1>0, <1>1
  <2>4. Looked(Turn(kind, f[k], p), f[k], c, p, left)
    BY <2>1, <2>3, TurnWorks DEF c
  <2>5. seen(k) \cup {p} \subseteq seen(k + 1)
    OBVIOUS
  <2> HIDE DEF seen
  <2> QED BY <2>1, <2>2, <2>4, <2>5 DEF Looked
<1> HIDE DEF G
<1>5. n \in G
  BY <1>1, <1>3, <1>4, NatSets
<1>6. Works(f[n], c, n - n) /\ n - n = 0 /\ f[n].cur = s.cur
  BY <1>1, <1>5 DEF G
<1> QED BY <1>6 DEF n, c

\* The loop of a PortDisable.
LEMMA DisableLoopWorks ==
    ASSUME NEW s, Works(s, "PortDisable", Len(PortList)), Undone(s, "PortDisable") = {}
    PROVE  /\ Works(ForEachPort(LAMBDA t, p : DisablePort(t, p, p), s), "PortDisable", 0)
           /\ ForEachPort(LAMBDA t, p : DisablePort(t, p, p), s).cur = s.cur
<1>1. PICK f : IsLoop(f, "disable", s, Len(PortList))
               /\ ForEachPort(LAMBDA t, p : DisablePort(t, p, p), s) = f[Len(PortList)]
  BY DisableLoopIs
<1>2. CommandOf("disable") = "PortDisable"
  BY DEF CommandOf
<1> PICK u : u = ForEachPort(LAMBDA t, p : DisablePort(t, p, p), s)
  OBVIOUS
<1>3. Works(f[Len(PortList)], "PortDisable", 0) /\ f[Len(PortList)].cur = s.cur
  BY <1>1, <1>2, LoopWorks
<1>4. u = f[Len(PortList)]
  BY <1>1
<1>5. Works(u, "PortDisable", 0) /\ u.cur = s.cur
  BY <1>3, <1>4
<1> QED BY <1>5

\* The loop of a PortEnable.
LEMMA EnableLoopWorks ==
    ASSUME NEW s, Works(s, "PortEnable", Len(PortList)), Undone(s, "PortEnable") = {}
    PROVE  /\ Works(ForEachPort(LAMBDA t, p : EnablePort(t, p, p), s), "PortEnable", 0)
           /\ ForEachPort(LAMBDA t, p : EnablePort(t, p, p), s).cur = s.cur
<1>1. PICK f : IsLoop(f, "enable", s, Len(PortList))
               /\ ForEachPort(LAMBDA t, p : EnablePort(t, p, p), s) = f[Len(PortList)]
  BY EnableLoopIs
<1>2. CommandOf("enable") = "PortEnable"
  BY DEF CommandOf
<1> PICK u : u = ForEachPort(LAMBDA t, p : EnablePort(t, p, p), s)
  OBVIOUS
<1>3. Works(f[Len(PortList)], "PortEnable", 0) /\ f[Len(PortList)].cur = s.cur
  BY <1>1, <1>2, LoopWorks
<1>4. u = f[Len(PortList)]
  BY <1>1
<1>5. Works(u, "PortEnable", 0) /\ u.cur = s.cur
  BY <1>3, <1>4
<1> QED BY <1>5

\* The loop of a Flush.
LEMMA FlushLoopWorks ==
    ASSUME NEW s, Works(s, "Flush", Len(PortList)), Undone(s, "Flush") = {}
    PROVE  /\ Works(ForEachPort(LAMBDA t, p : FlushPort(t, p, p), s), "Flush", 0)
           /\ ForEachPort(LAMBDA t, p : FlushPort(t, p, p), s).cur = s.cur
<1>1. PICK f : IsLoop(f, "flush", s, Len(PortList))
               /\ ForEachPort(LAMBDA t, p : FlushPort(t, p, p), s) = f[Len(PortList)]
  BY FlushLoopIs
<1>2. CommandOf("flush") = "Flush"
  BY DEF CommandOf
<1> PICK u : u = ForEachPort(LAMBDA t, p : FlushPort(t, p, p), s)
  OBVIOUS
<1>3. Works(f[Len(PortList)], "Flush", 0) /\ f[Len(PortList)].cur = s.cur
  BY <1>1, <1>2, LoopWorks
<1>4. u = f[Len(PortList)]
  BY <1>1
<1>5. Works(u, "Flush", 0) /\ u.cur = s.cur
  BY <1>3, <1>4
<1> QED BY <1>5

\* The kernel is told of a port command, and of nothing else.
Ordered(s, c) ==
    /\ Sound(s) /\ Regular(s) /\ s.inProgress = c /\ s.commands = <<>>
    /\ Calm(s) /\ NoneUndone(s) /\ s.krn = <<>>

\* The kernel's counter is set to the number of ports to do.
LEMMA CompletionSet ==
    ASSUME NEW s, NEW c \in PortCommands, Ordered(s, c), NEW n \in Nat, n > 0
    PROVE  /\ Works([s EXCEPT !.completion = n], c, n)
           /\ Undone([s EXCEPT !.completion = n], c) = {}
           /\ Sound([s EXCEPT !.completion = n])
           /\ [s EXCEPT !.completion = n].cur = s.cur
<1> DEFINE t == [s EXCEPT !.completion = n]
<1>1. /\ t.completion = n /\ SameControl(t, s) /\ SameCommand(t, s) /\ Same(t, s)
      /\ t.prc = s.prc /\ IsComp(t)
  <2>1. IsComp(s) /\ n \in Int
    BY DEF Ordered, Sound
  <2> QED BY <2>1 DEF IsComp, Fields, SameControl, SameCommand, Same
<1> HIDE DEF t
<1>2. Sound(t)
  BY <1>1, QuietIsSound DEF Quiet, Ordered
<1>3. Regular(t) /\ Calm(t)
  BY <1>1 DEF Ordered, SameControl, Same, Regular, Calm, Orders
<1>4. \A d \in PortCommands : Undone(t, d) = {}
  BY <1>1 DEF Ordered, NoneUndone, Undone, Same
<1>5. Cardinality(Undone(t, c)) = 0
  BY <1>4, FS_EmptySet
<1>6. Working(t, c, n)
  BY <1>1, <1>3, <1>4, <1>5 DEF Ordered, SameControl, SameCommand, Working
<1> QED BY <1>1, <1>2, <1>3, <1>4, <1>6 DEF Works, SameControl, t

\* When the kernel has looked at every port, the command waits or is over.
LEMMA WorksIsPhase ==
    ASSUME NEW s, NEW c \in PortCommands, Works(s, c, 0)
    PROVE  Regular(s) /\ Phase(s) /\ s.krn = <<>>
<1>1. IsFiniteSet(Undone(s, c))
  <2>1. Undone(s, c) \subseteq Ports
    BY DEF Undone
  <2> QED BY <2>1, PortsAreFinite, FS_Subset
<1>2. Cardinality(Undone(s, c)) \in Nat /\ (Cardinality(Undone(s, c)) = 0 => Undone(s, c) = {})
  BY <1>1, FS_CardinalityType, FS_EmptySet
<1>3. /\ s.completion = Cardinality(Undone(s, c)) + 0 /\ Calm(s) /\ s.commands = <<>>
      /\ s.inProgress = (IF s.completion = 0 THEN None ELSE c) /\ s.krn = <<>>
      /\ \A d \in PortCommands \ {c} : Undone(s, d) = {}
  BY DEF Works, Working
<1>4. CASE s.completion = 0
  <2>1. Undone(s, c) = {}
    <3> HIDE DEF Undone
    <3> QED BY <1>2, <1>3, <1>4
  <2> QED BY <1>3, <1>4, <2>1 DEF Works, Phase, AtRest, NoneUndone
<1>5. CASE s.completion # 0
  <2>1. s.completion > 0 /\ s.inProgress = c
    <3> HIDE DEF Undone
    <3> QED BY <1>2, <1>3, <1>5
  <2> QED BY <1>3, <2>1 DEF Works, Phase, Porting
<1> QED BY <1>4, <1>5

\* No port command is dispatched in a transition that waits for buffers.
LEMMA NothingOngoing ==
    ASSUME NEW s, s.cur \in Stages
    PROVE  CompleteOngoingTransitions(s) = s
BY DEF Stages, CompleteOngoingTransitions

\* How many ports a command is for.
LEMMA CountIs ==
    ASSUME PortList # <<>>, NEW target
    PROVE  /\ CompletionCount(target) \in Nat /\ CompletionCount(target) > 0
           /\ CompletionCount(target) = IF target = ALL THEN Len(PortList) ELSE 1
<1>1. Len(PortList) \in Nat /\ Len(PortList) > 0
  BY PortAssumption
<1> QED BY <1>1 DEF CompletionCount

\* OMX_CommandPortDisable.
LEMMA DispatchPortDisableWorks ==
    ASSUME PortList # <<>>, NEW s, Ordered(s, "PortDisable"), NEW target \in Ports \cup {ALL}
    PROVE  /\ Works(DispatchPortDisable(s, target), "PortDisable", 0)
           /\ DispatchPortDisable(s, target).cur = s.cur
<1> PICK n : n = CompletionCount(target)
  OBVIOUS
<1> DEFINE t == [s EXCEPT !.completion = n]
           u == ForTargets(DisablePort, t, target)
<1>1. n \in Nat /\ n > 0 /\ n = IF target = ALL THEN Len(PortList) ELSE 1
  BY CountIs
<1>0. "PortDisable" \in PortCommands
  BY DEF PortCommands
<1>2. Works(t, "PortDisable", n) /\ Undone(t, "PortDisable") = {} /\ t.cur = s.cur
  BY <1>0, <1>1, CompletionSet
<1>3. DispatchPortDisable(s, target) = CompleteOngoingTransitions(u)
  BY DEF DispatchPortDisable
<1> HIDE DEF t
<1>4. Works(u, "PortDisable", 0) /\ u.cur = s.cur
  <2>1. CASE target = ALL
    <3>1. u = ForEachPort(LAMBDA v, p : DisablePort(v, p, p), t)
      BY <2>1 DEF ForTargets
    <3> HIDE DEF u
    <3> QED BY <3>1, <1>1, <1>2, <2>1, DisableLoopWorks
  <2>2. CASE target # ALL
    <3>1. u = DisablePort(t, target, FirstPort) /\ target \in Ports /\ n = 0 + 1
      BY <1>1, <2>2 DEF ForTargets
    <3>2. Looked(DisablePort(t, target, FirstPort), t, "PortDisable", target, 0)
      BY <1>2, <3>1, DisablePortWorks
    <3> HIDE DEF u
    <3> QED BY <1>2, <3>1, <3>2 DEF Looked
  <2> QED BY <2>1, <2>2
<1> HIDE DEF u
<1>5. u.cur \in Stages
  BY <1>4 DEF Works, Working, Calm
<1> QED BY <1>3, <1>4, <1>5, NothingOngoing

\* OMX_CommandPortEnable.
LEMMA DispatchPortEnableWorks ==
    ASSUME PortList # <<>>, NEW s, Ordered(s, "PortEnable"), NEW target \in Ports \cup {ALL}
    PROVE  /\ Works(DispatchPortEnable(s, target), "PortEnable", 0)
           /\ DispatchPortEnable(s, target).cur = s.cur
<1> PICK n : n = CompletionCount(target)
  OBVIOUS
<1> DEFINE t == [s EXCEPT !.completion = n]
           u == ForTargets(EnablePort, t, target)
<1>1. n \in Nat /\ n > 0 /\ n = IF target = ALL THEN Len(PortList) ELSE 1
  BY CountIs
<1>0. "PortEnable" \in PortCommands
  BY DEF PortCommands
<1>2. Works(t, "PortEnable", n) /\ Undone(t, "PortEnable") = {} /\ t.cur = s.cur
  BY <1>0, <1>1, CompletionSet
<1>3. DispatchPortEnable(s, target) = u
  BY DEF DispatchPortEnable
<1> HIDE DEF t
<1>4. CASE target = ALL
  <2>1. u = ForEachPort(LAMBDA v, p : EnablePort(v, p, p), t)
    BY <1>4 DEF ForTargets
  <2> HIDE DEF u
  <2> QED BY <2>1, <1>1, <1>2, <1>3, <1>4, EnableLoopWorks
<1>5. CASE target # ALL
  <2>1. u = EnablePort(t, target, FirstPort) /\ target \in Ports /\ n = 0 + 1
    BY <1>1, <1>5 DEF ForTargets
  <2>2. Looked(EnablePort(t, target, FirstPort), t, "PortEnable", target, 0)
    BY <1>2, <2>1, EnablePortWorks
  <2> HIDE DEF u
  <2> QED BY <1>2, <1>3, <2>1, <2>2 DEF Looked
<1> QED BY <1>4, <1>5

\* OMX_CommandFlush.
LEMMA DispatchPortFlushWorks ==
    ASSUME PortList # <<>>, NEW s, Ordered(s, "Flush"), NEW target \in Ports \cup {ALL}
    PROVE  /\ Works(DispatchPortFlush(s, target), "Flush", 0)
           /\ DispatchPortFlush(s, target).cur = s.cur
<1> PICK n : n = CompletionCount(target)
  OBVIOUS
<1> DEFINE t == [s EXCEPT !.completion = n]
           u == ForTargets(FlushPort, t, target)
<1>1. n \in Nat /\ n > 0 /\ n = IF target = ALL THEN Len(PortList) ELSE 1
  BY CountIs
<1>0. "Flush" \in PortCommands
  BY DEF PortCommands
<1>2. Works(t, "Flush", n) /\ Undone(t, "Flush") = {} /\ t.cur = s.cur
  BY <1>0, <1>1, CompletionSet
<1>3. DispatchPortFlush(s, target) = u
  BY DEF DispatchPortFlush
<1> HIDE DEF t
<1>4. CASE target = ALL
  <2>1. u = ForEachPort(LAMBDA v, p : FlushPort(v, p, p), t)
    BY <1>4 DEF ForTargets
  <2> HIDE DEF u
  <2> QED BY <2>1, <1>1, <1>2, <1>3, <1>4, FlushLoopWorks
<1>5. CASE target # ALL
  <2>1. u = FlushPort(t, target, FirstPort) /\ target \in Ports /\ n = 0 + 1
    BY <1>1, <1>5 DEF ForTargets
  <2>2. Looked(FlushPort(t, target, FirstPort), t, "Flush", target, 0)
    BY <1>2, <2>1, FlushPortWorks
  <2> HIDE DEF u
  <2> QED BY <1>2, <1>3, <2>1, <2>2 DEF Looked
<1> QED BY <1>4, <1>5

-----------------------------------------------------------------------------
(* Shifts of the processor and the kernel                                  *)

\* What follows a shift: the phases, unless a transition waits for headers.
LEMMA ShiftIsPhase ==
    ASSUME NEW s, NEW t, Sound(s), Regular(s), Phase(s), Shifts(t, s),
           s.cur = "ExecutingToIdle" =>
                AllBuffersReturned(t.port) = AllBuffersReturned(s.port)
    PROVE  Regular(t) /\ Phase(t)
<1>1. /\ \A c \in PortCommands : Undone(t, c) = Undone(s, c)
      /\ Regular(t) /\ (Calm(s) => Calm(t)) /\ (NoneUndone(s) => NoneUndone(t))
  BY ShiftKeeps DEF NoneUndone
<1>2. /\ t.cur = s.cur /\ t.inProgress = s.inProgress /\ t.param = s.param
      /\ t.commands = s.commands /\ t.krn = s.krn /\ t.completion = s.completion
      /\ Orders(t) = Orders(s) /\ t.counted = s.counted /\ t.completions = s.completions
  BY DEF Shifts, SameControl, SameCommand
<1>3. ASSUME AtRest(s) PROVE AtRest(t)
  BY <1>1, <1>2, <1>3 DEF AtRest
<1>4. ASSUME Accepted(s) PROVE Accepted(t)
  BY <1>1, <1>2, <1>4 DEF Accepted
<1>5. ASSUME Porting(s) PROVE Porting(t)
  <2>1. ASSUME NEW c \in PortCommands, Working(s, c, 0) PROVE Working(t, c, 0)
    BY <1>1, <1>2, <2>1 DEF Working
  <2> QED BY <1>1, <1>2, <1>5, <2>1 DEF Porting
<1>6. ASSUME Going(s) PROVE Going(t)
  <2>1. Satisfied(t) = Satisfied(s)
    <3>1. /\ AllPopulated(t.port) = AllPopulated(s.port)
          /\ AllDepopulated(t.port) = AllDepopulated(s.port)
      <4>1. ASSUME NEW q \in Ports
            PROVE  t.port[q].enabled = s.port[q].enabled /\ t.port[q].bufs = s.port[q].bufs
        BY DEF Shifts, Alters
      <4> QED BY <4>1 DEF AllPopulated, AllDepopulated, Populated
    <3> QED BY <3>1, <1>2 DEF Satisfied
  <2>2. Underway(t)
    BY <1>1, <1>2, <1>6 DEF Going, Underway
  <2>3. \A kernel : Heard(s, kernel) => Heard(t, kernel)
    BY <1>2 DEF Heard
  <2> QED BY <1>2, <1>6, <2>1, <2>2, <2>3 DEF Going
<1> QED BY <1>1, <1>3, <1>4, <1>5, <1>6 DEF Phase

\* The processor gives its headers to the kernel.
LEMMA ReleaseShifts ==
    ASSUME NEW s, Sound(s), NEW p \in Ports
    PROVE  Shifts(ReleaseAll(s, p), s) /\ ReleaseAll(s, p).port = s.port
<1> DEFINE more == [i \in 1 .. s.held[p] |-> p]
           released == s.callbacks \o more
           holds == [s.held EXCEPT ![p] = 0]
           t == [s EXCEPT !.held = holds, !.callbacks = released]
<1>1. ReleaseAll(s, p) = t
  BY DEF ReleaseAll
<1>2. IsComp(s) /\ s.held \in [Ports -> Nat] /\ s.callbacks \in Seq(Callbacks)
      /\ p \in Callbacks /\ p # Dummy
  BY KernelAssumption DEF Sound, IsComp, Callbacks
<1>3. Dummy \in ToSet(released) => Dummy \in ToSet(s.callbacks)
  <2>1. s.held[p] \in Nat
    BY <1>2
  <2>2. /\ released \in Seq(Callbacks)
        /\ Count(released, Dummy) = Count(s.callbacks, Dummy) + IF Dummy = p THEN s.held[p] ELSE 0
    BY <1>2, <2>1, CountRepeated
  <2>3. Count(released, Dummy) = Count(s.callbacks, Dummy) + 0 /\ Count(s.callbacks, Dummy) \in Nat
    BY <1>2, <2>2, CountType
  <2> HIDE DEF released
  <2> QED BY <1>2, <2>2, <2>3, CountType
<1> HIDE DEF released, holds
<1>4. /\ t.port = s.port /\ t.callbacks = released /\ SameControl(t, s) /\ SameCommand(t, s)
      /\ t.prc = s.prc /\ t.completion = s.completion
  BY <1>2 DEF IsComp, Fields, SameControl, SameCommand
<1>5. Sound(t)
  BY <1>1, ReleaseAllIsSound
<1> HIDE DEF t
<1>6. \A q \in Ports : Alters(t.port[q], s.port[q], s.cur)
  <2>1. \A q \in Ports : Alters(s.port[q], s.port[q], s.cur)
    BY ShiftSelf DEF Shifts
  <2> QED BY <1>4, <2>1
<1> QED BY <1>1, <1>3, <1>4, <1>5, <1>6 DEF Shifts, Orders

\* krn_stop_and_return drains the callbacks once more for each port.
LEMMA StopPortShifts ==
    ASSUME NEW s, Sound(s), Regular(s), NEW p \in Ports
    PROVE  Shifts(StopPort(s, p), s)
<1> DEFINE d == DrainCallbacks(s, ALL)
           t == ToProcessor(d, PortCommand("Flush", p))
<1>1. Shifts(d, s)
  BY DrainShifts
<1>2. StopPort(s, p) \in {t, s}
  BY DEF StopPort
<1> HIDE DEF d
<1>3. Sound(d) /\ IsComp(d) /\ "Flush" \in PortCommands
  BY <1>1 DEF Shifts, Sound, PortCommands
<1>4. /\ IsComp(t) /\ Same(t, d)
      /\ SameControl(t, d) /\ SameCommand(t, d) /\ t.completion = d.completion
      /\ Orders(t) = Orders(d)
  BY <1>3, ToldOther
<1> HIDE DEF t
<1>5. Shifts(t, d)
  BY <1>3, <1>4, SameShifts
<1>6. Shifts(t, s)
  BY <1>1, <1>5, ShiftTwice
<1> QED BY <1>2, <1>6, ShiftSelf

\* A loop shifts what every turn of it shifts.
LEMMA LoopShifts ==
    ASSUME NEW kind \in {"stop", "release"}, NEW s, Sound(s), Regular(s), NEW f,
           IsLoop(f, kind, s, Len(PortList))
    PROVE  /\ Shifts(f[Len(PortList)], s)
           /\ kind = "release" => f[Len(PortList)].port = s.port
<1> DEFINE n == Len(PortList)
           fine(k) == Shifts(f[k], s) /\ (kind = "release" => f[k].port = s.port)
           G == {k \in Nat : k <= n => fine(k)}
<1>1. n \in Nat /\ \A k \in 1 .. n : PortList[k] \in Ports
  BY PortsAreFinite
<1> HIDE DEF n
<1>2. \A k \in 0 .. n : f[k] = IF k = 0 THEN s ELSE Turn(kind, f[k - 1], PortList[k])
  BY DEF IsLoop, n
<1>3. 0 \in G
  BY <1>1, <1>2, ShiftSelf
<1>4. ASSUME NEW k \in Nat, k \in G PROVE k + 1 \in G
  <2> SUFFICES ASSUME k + 1 <= n PROVE fine(k + 1)
    OBVIOUS
  <2> PICK p : p = PortList[k + 1]
    OBVIOUS
  <2>1. fine(k) /\ p \in Ports /\ f[k + 1] = Turn(kind, f[k], p)
    BY <1>1, <1>2, <1>4
  <2>2. Sound(f[k]) /\ Regular(f[k])
    BY <2>1, ShiftKeeps DEF Shifts
  <2>3. Shifts(f[k + 1], f[k]) /\ (kind = "release" => f[k + 1].port = f[k].port)
    <3>1. CASE kind = "stop"
      <4>1. f[k + 1] = StopPort(f[k], p)
        BY <2>1, <3>1, TurnIs
      <4> QED BY <2>1, <2>2, <3>1, <4>1, StopPortShifts
    <3>2. CASE kind = "release"
      <4>1. f[k + 1] = ReleaseAll(f[k], p)
        BY <2>1, <3>2, TurnIs
      <4> QED BY <2>1, <2>2, <4>1, ReleaseShifts
    <3> QED BY <3>1, <3>2
  <2> QED BY <2>1, <2>2, <2>3, ShiftTwice
<1> HIDE DEF G, fine
<1>5. n \in G
  BY <1>1, <1>3, <1>4, NatSets
<1>6. fine(n)
  BY <1>1, <1>5 DEF G
<1> QED BY <1>6 DEF n, fine

\* krn_stop_and_return.
LEMMA StopAndReturnShifts ==
    ASSUME NEW s, Sound(s), Regular(s)
    PROVE  Shifts(StopAndReturn(s), s)
<1>1. StopAndReturn(s) = ForEachPort(StopPort, s)
  BY DEF StopAndReturn, ForEachPort, StopPort
<1>2. PICK f : IsLoop(f, "stop", s, Len(PortList)) /\ ForEachPort(StopPort, s) = f[Len(PortList)]
  BY StopLoopIs
<1> QED BY <1>1, <1>2, LoopShifts

\* The processor's answer to a command for all ports.
LEMMA ReleaseLoopShifts ==
    ASSUME NEW s, Sound(s), Regular(s)
    PROVE  /\ Shifts(ForEachPort(ReleaseAll, s), s)
           /\ ForEachPort(ReleaseAll, s).port = s.port
<1>1. PICK f : /\ IsLoop(f, "release", s, Len(PortList))
               /\ ForEachPort(ReleaseAll, s) = f[Len(PortList)]
  BY ReleaseLoopIs
<1> QED BY <1>1, LoopShifts

-----------------------------------------------------------------------------
(* The reports of the two servants                                         *)

\* From s to t only a report is added.
Reports(t, s, m) ==
    /\ IsComp(t) /\ Same(t, s) /\ SameCommand(t, s)
    /\ t.completions = Append(s.completions, m)
    /\ t.cur = s.cur /\ t.counted = s.counted
    /\ t.commands = s.commands /\ t.krn = s.krn /\ t.prc = s.prc
    /\ t.failed = s.failed /\ t.cancellation = s.cancellation
    /\ t.completion = s.completion

\* fsm_complete_transition, of the transition that is going on or of none.
LEMMA CompleteTransitionIs ==
    ASSUME NEW s, IsComp(s), NEW who \in Servants, NEW st \in MainStates
    PROVE  /\ s.cur \in SubStates /\ Destination[s.cur] # st =>
                CompleteTransition(s, who, st) = s
           /\ ~(s.cur \in SubStates /\ Destination[s.cur] # st) =>
                Reports(CompleteTransition(s, who, st), s, By(who, st))
<1>1. CASE s.cur \in SubStates /\ Destination[s.cur] # st
  BY <1>1 DEF CompleteTransition
<1>2. CASE ~(s.cur \in SubStates /\ Destination[s.cur] # st)
  <2> PICK m : m = By(who, st)
    OBVIOUS
  <2> DEFINE t == [s EXCEPT !.completions = Append(@, m)]
  <2>1. CompleteTransition(s, who, st) = t
    BY <1>2 DEF CompleteTransition, By
  <2>2. IsComp(t)
    BY <2>1, CompleteTransitionIsQuiet DEF Quiet
  <2>3. Reports(t, s, m)
    BY <2>2 DEF Reports, Same, SameCommand, IsComp, Fields
  <2> QED BY <1>2, <2>1, <2>3
<1> QED BY <1>1, <1>2

\* A pair of reports, one after the other.
LEMMA Pair ==
    ASSUME NEW a, NEW b
    PROVE  Append(<<a>>, b) = <<a, b>> /\ Append(<<>>, b) = <<b>>
<1> DEFINE S == {a, b}
           s == Append(<<a>>, b)
           t == <<a, b>>
<1>1. s \in Seq(S) /\ Len(s) = 2 /\ s[1] = a /\ s[2] = b
  OBVIOUS
<1>2. t \in Seq(S) /\ Len(t) = 2 /\ t[1] = a /\ t[2] = b
  OBVIOUS
<1> HIDE DEF s, t, S
<1>3. Len(s) = Len(t) /\ \A i \in 1 .. Len(s) : s[i] = t[i]
  BY <1>1, <1>2
<1>4. s = t
  BY <1>1, <1>2, <1>3, SeqEqual
<1>5. Append(<<>>, b) = <<b>>
  OBVIOUS
<1> QED BY <1>4, <1>5 DEF s, t

\* Two lists that are not empty and make two elements have one each.
LEMMA PairSplit ==
    ASSUME NEW S, NEW c \in Seq(S), NEW q \in Seq(S), c # <<>>, q # <<>>, Len(c \o q) = 2
    PROVE  Head(c) = (c \o q)[1] /\ Head(q) = (c \o q)[2] /\ Tail(q) = <<>>
<1>1. Len(c) \in Nat /\ Len(c) # 0 /\ Len(q) \in Nat /\ Len(q) # 0
  OBVIOUS
<1>2. Len(c \o q) = Len(c) + Len(q)
  BY Joined
<1> DEFINE m == Len(c)
           n == Len(q)
<1>4. m + n = 2 /\ m \in Nat /\ n \in Nat /\ m # 0 /\ n # 0
  BY <1>1, <1>2
<1> HIDE DEF m, n
<1>8. m = 1 /\ n = 1
  BY <1>4
<1>3. Len(c) = 1 /\ Len(q) = 1
  BY <1>8 DEF m, n
<1>5. (c \o q)[1] = c[1] 
  BY <1>3
<1>6. (c \o q)[2] = q[1]
  BY <1>3
<1>7. Tail(q) = <<>>
  BY <1>3
<1> QED BY <1>3, <1>5, <1>6, <1>7

\* The kernel's report is the first or the second.
LEMMA KernelTallied ==
    ASSUME NEW c \in Seq(Completions), NEW q \in Seq(Completions), NEW st \in MainStates,
           NEW processor \in BOOLEAN, Tallied(c, q, st, FALSE, processor)
    PROVE  Tallied(c, Append(q, By("kernel", st)), st, TRUE, processor)
<1> PICK k : k = By("kernel", st)
  OBVIOUS
<1> PICK p : p = By("processor", st)
  OBVIOUS
<1>1. k \in Completions /\ p \in Completions
  BY DEF By, Completions, Servants
<1>2. c \o Append(q, k) = Append(c \o q, k)
  BY <1>1
<1>3. Len(c) < 2 /\ c \o q = IF processor THEN <<p>> ELSE <<>>
  BY DEF Tallied
<1>4. Append(<<p>>, k) = <<p, k>> /\ Append(<<>>, k) = <<k>>
  BY Pair
<1>5. processor => c \o Append(q, k) = <<p, k>>
  BY <1>2, <1>3, <1>4
<1>6. ~processor => c \o Append(q, k) = <<k>>
  BY <1>2, <1>3, <1>4
<1> QED BY <1>3, <1>5, <1>6 DEF Tallied

\* So is the processor's.
LEMMA ProcessorTallied ==
    ASSUME NEW c \in Seq(Completions), NEW q \in Seq(Completions), NEW st \in MainStates,
           NEW kernel \in BOOLEAN, Tallied(c, q, st, kernel, FALSE)
    PROVE  Tallied(c, Append(q, By("processor", st)), st, kernel, TRUE)
<1> PICK k : k = By("kernel", st)
  OBVIOUS
<1> PICK p : p = By("processor", st)
  OBVIOUS
<1>1. k \in Completions /\ p \in Completions
  BY DEF By, Completions, Servants
<1>2. c \o Append(q, p) = Append(c \o q, p)
  BY <1>1
<1>3. Len(c) < 2 /\ c \o q = IF kernel THEN <<k>> ELSE <<>>
  BY DEF Tallied
<1>4. Append(<<k>>, p) = <<k, p>> /\ Append(<<>>, p) = <<p>>
  BY Pair
<1>5. kernel => c \o Append(q, p) = <<k, p>>
  BY <1>2, <1>3, <1>4
<1>6. ~kernel => c \o Append(q, p) = <<p>>
  BY <1>2, <1>3, <1>4
<1> QED BY <1>3, <1>5, <1>6 DEF Tallied

\* The machine counts the first report.
LEMMA FirstTallied ==
    ASSUME NEW q \in Seq(Completions), q # <<>>, NEW st, NEW kernel, NEW processor,
           Tallied(<<>>, q, st, kernel, processor)
    PROVE  Tallied(<<Head(q)>>, Tail(q), st, kernel, processor) /\ Head(q).state = st
<1>1. <<>> \o q = q /\ <<Head(q)>> \o Tail(q) = q /\ Len(<<Head(q)>>) = 1
  OBVIOUS
<1>2. \A x : By(x, st).state = st
  BY DEF By
<1> DEFINE kept == {<<By("kernel", st), By("processor", st)>>,
                    <<By("processor", st), By("kernel", st)>>,
                    <<By("kernel", st)>>, <<By("processor", st)>>, <<>>}
<1>3. q \in kept
  BY <1>1 DEF Tallied
<1>4. Head(q).state = st
  BY <1>2, <1>3
<1> DEFINE one == <<Head(q)>>
<1>5. Len(one) < 2 /\ one \o Tail(q) = <<>> \o q
  BY <1>1
<1> HIDE DEF one
<1>6. Tallied(one, Tail(q), st, kernel, processor)
  BY <1>5 DEF Tallied
<1> QED BY <1>4, <1>6 DEF one

\* With the second report both are done, and by different servants.
LEMMA SecondTallied ==
    ASSUME NEW c \in Seq(Completions), c # <<>>, NEW q \in Seq(Completions), q # <<>>, NEW st,
           NEW kernel, NEW processor, Tallied(c, q, st, kernel, processor)
    PROVE  /\ kernel /\ processor /\ Tail(q) = <<>>
           /\ Head(c).state = st /\ Head(q).state = st
           /\ Head(c).servant # Head(q).servant
<1> PICK k : k = By("kernel", st)
  OBVIOUS
<1> PICK p : p = By("processor", st)
  OBVIOUS
<1>9. k.state = st /\ p.state = st /\ k.servant = "kernel" /\ p.servant = "processor"
  BY DEF By
<1>1. Len(c) \in Nat /\ Len(c) < 2 /\ Len(c) # 0 /\ Len(q) \in Nat /\ Len(q) # 0
  BY DEF Tallied
<1>2. Len(c \o q) = Len(c) + Len(q) /\ (c \o q)[1] = Head(c) /\ (c \o q)[2] = Head(q)
  BY <1>1
<1>3. c \o q \in (CASE kernel /\ processor -> {<<k, p>>, <<p, k>>}
              [] kernel /\ ~processor -> {<<k>>}
              [] ~kernel /\ processor -> {<<p>>}
              [] OTHER -> {<<>>})
  BY DEF Tallied
<1>4. kernel /\ processor
  BY <1>1, <1>2, <1>3
<1>5. CASE c \o q = <<k, p>>
  <2>1. Len(c \o q) = 2 /\ (c \o q)[1] = k /\ (c \o q)[2] = p
    BY <1>5
  <2>2. Head(c) = k /\ Head(q) = p /\ Tail(q) = <<>>
    BY <2>1, PairSplit
  <2> QED BY <1>4, <1>9, <2>2
<1>6. CASE c \o q = <<p, k>>
  <2>1. Len(c \o q) = 2 /\ (c \o q)[1] = p /\ (c \o q)[2] = k
    BY <1>6
  <2>2. Head(c) = p /\ Head(q) = k /\ Tail(q) = <<>>
    BY <2>1, PairSplit
  <2> QED BY <1>4, <1>9, <2>2
<1> QED BY <1>3, <1>4, <1>5, <1>6

\* Where a transition ends.
LEMMA WaysEnd ==
    ASSUME NEW cur, NEW st, <<cur, st>> \in Ways
    PROVE  /\ cur \in States /\ st \in MainStates /\ st # cur /\ st # "Pause"
           /\ cur # "Executing" /\ cur # "Pause"
           /\ cur \in SubStates => Destination[cur] = st
           /\ st \in Expected(cur)
           /\ <<Reported(cur), st>> \in Transitions
BY DEF Ways, States, MainStates, SubStates, Destination, Expected, Reported, Transitions

\* A transition on its way, in a state with the same control.
LEMMA UnderwayKeeps ==
    ASSUME NEW s, NEW t, Underway(s), NoneUndone(t),
           t.cur = s.cur, t.inProgress = s.inProgress, t.param = s.param,
           t.commands = s.commands, Orders(t) = Orders(s)
    PROVE  Underway(t)
BY DEF Underway

\* A kernel that owes its report does so whatever becomes of the headers.
LEMMA OwingKeeps ==
    ASSUME NEW s, NEW t, Owing(s), NoneUndone(t), SameControl(t, s), SameCommand(t, s),
           Orders(t) = Orders(s)
    PROVE  Owing(t)
BY UnderwayKeeps DEF Owing, Heard, SameControl, SameCommand

\* The kernel's report is the end of its part.
LEMMA KernelReports ==
    ASSUME NEW s, Sound(s), Owing(s), Satisfied(s)
    PROVE  LET t == CompleteTransition(s, "kernel", s.param)
           IN  Going(t) /\ Same(t, s) /\ t.cur = s.cur /\ t.krn = <<>> /\ SameCommand(t, s)
                /\ t.failed = s.failed /\ t.cancellation = s.cancellation /\ t.counted = s.counted
<1> DEFINE t == CompleteTransition(s, "kernel", s.param)
<1>1. IsComp(s) /\ Underway(s) /\ s.krn = <<>> /\ Heard(s, FALSE) /\ "kernel" \in Servants
  BY DEF Sound, Owing, Servants
<1>2. s.param \in MainStates /\ (s.cur \in SubStates => Destination[s.cur] = s.param)
      /\ s.cur \in States
  BY <1>1, WaysEnd DEF Underway
<1>3. Reports(t, s, By("kernel", s.param))
  BY <1>1, <1>2, CompleteTransitionIs
<1> HIDE DEF t
<1>4. Orders(t) = Orders(s) /\ NoneUndone(t)
  BY <1>1, <1>3 DEF Reports, Orders, Underway, NoneUndone, Undone, Same
<1>5. Underway(t)
  BY <1>1, <1>3, <1>4, UnderwayKeeps DEF Reports, SameCommand
<1>6. Heard(t, TRUE)
  <2> PICK processor : processor = (Orders(s) = <<>>)
    OBVIOUS
  <2>1. processor \in BOOLEAN
    OBVIOUS
  <2>2. s.counted[s.cur] \in Seq(Completions) /\ s.completions \in Seq(Completions)
    BY <1>1, <1>2 DEF IsComp
  <2>3. Tallied(s.counted[s.cur], s.completions, s.param, FALSE, processor)
    BY <1>1 DEF Heard
  <2>4. Tallied(s.counted[s.cur], Append(s.completions, By("kernel", s.param)), s.param,
                TRUE, processor)
    BY <1>2, <2>1, <2>2, <2>3, KernelTallied
  <2> QED BY <1>3, <1>4, <2>4 DEF Heard, Reports, SameCommand
<1>7. Satisfied(t) /\ t.krn = <<>>
  BY <1>1, <1>3 DEF Satisfied, Reports, Same
<1>8. Going(t)
  <2>1. (t.krn = <<>> /\ Satisfied(t)) = TRUE
    BY <1>7
  <2> QED BY <1>5, <1>6, <1>7, <2>1 DEF Going
<1> QED BY <1>3, <1>7, <1>8 DEF Reports, t

\* A kernel that has to wait still owes its report.
LEMMA OwingIsGoing ==
    ASSUME NEW s, ~Satisfied(s)
    PROVE  /\ Owing(s) => Going(s)
           /\ Going(s) /\ s.krn = <<>> => Owing(s)
<1>1. (s.krn = <<>> /\ Satisfied(s)) = FALSE
  OBVIOUS
<1> QED BY <1>1 DEF Owing, Going

\* A kernel that takes up a transition owes its report.
LEMMA StartIsOwing ==
    ASSUME NEW s, NEW t, Going(s), s.krn # <<>>, NoneUndone(t), t.krn = <<>>,
           t.cur = s.cur, t.counted = s.counted, t.completions = s.completions,
           t.commands = s.commands, SameCommand(t, s), Orders(t) = Orders(s)
    PROVE  Owing(t)
<1>1. (s.krn = <<>> /\ Satisfied(s)) = FALSE
  OBVIOUS
<1>2. Underway(s) /\ Heard(s, FALSE)
  BY <1>1 DEF Going
<1>3. Underway(t)
  BY <1>2, UnderwayKeeps DEF SameCommand
<1> QED BY <1>2, <1>3 DEF Owing, Heard, SameCommand

-----------------------------------------------------------------------------
(* The state machine counts the reports                                    *)

\* From s to t the ports and the port commands stay as they are.
SamePorts(t, s) ==
    /\ Same(t, s) /\ SameCommand(t, s) /\ t.completion = s.completion
    /\ t.commands = s.commands /\ t.cur = s.cur
    /\ t.failed = s.failed /\ t.cancellation = s.cancellation

\* The phases without a transition, in a state that is as calm.
LEMMA CalmKeeps ==
    ASSUME NEW s, NEW t, SamePorts(t, s), t.krn = s.krn, Calm(t),
           s.krn # <<>> => Orders(t) = Orders(s),
           AtRest(s) \/ Accepted(s) \/ Porting(s)
    PROVE  Phase(t)
<1>1. /\ \A c \in PortCommands : Undone(t, c) = Undone(s, c)
      /\ t.inProgress = s.inProgress /\ t.param = s.param /\ t.cur = s.cur
      /\ t.commands = s.commands /\ t.completion = s.completion
  BY DEF SamePorts, Same, SameCommand, Undone
<1>2. NoneUndone(s) => NoneUndone(t)
  BY <1>1 DEF NoneUndone
<1>3. ASSUME AtRest(s) PROVE AtRest(t)
  <2>1. s.krn # <<>> => Orders(t) = Orders(s)
    OBVIOUS
  <2> QED BY <1>1, <1>2, <1>3, <2>1 DEF AtRest
<1>4. ASSUME Accepted(s) PROVE Accepted(t)
  BY <1>1, <1>2, <1>4 DEF Accepted
<1>5. ASSUME Porting(s) PROVE Porting(t)
  <2>1. ASSUME NEW c \in PortCommands, Working(s, c, 0) PROVE Working(t, c, 0)
    BY <1>1, <2>1 DEF Working
  <2> QED BY <1>1, <1>2, <1>5, <2>1 DEF Porting
<1> QED BY <1>3, <1>4, <1>5 DEF Phase

\* Regular states stay so when only the counts and the queues change.
LEMMA CountsAreRegular ==
    ASSUME NEW s, NEW t, Regular(s), SamePorts(t, s),
           \A st \in States : st \notin {s.cur, "Executing"} => t.counted[st] = <<>>
    PROVE  Regular(t)
BY DEF Regular, SamePorts, Same

\* The machine has taken a completion from its queue.
Taking(s, old) ==
    /\ Sound(s) /\ SamePorts(s, old) /\ s.counted = old.counted /\ s.krn = old.krn
    /\ s.prc = old.prc /\ s.completions = Tail(old.completions)

\* The count of a state changes.
LEMMA CountSet ==
    ASSUME NEW s, Sound(s), NEW x
    PROVE  LET t == [s EXCEPT !.counted[s.cur] = x]
           IN  /\ t.counted = [s.counted EXCEPT ![s.cur] = x] /\ SamePorts(t, s)
               /\ t.counted[s.cur] = x
               /\ \A st \in States \ {s.cur} : t.counted[st] = s.counted[st]
               /\ t.krn = s.krn /\ t.prc = s.prc /\ t.completions = s.completions
BY DEF Sound, IsComp, Fields, SamePorts, Same, SameCommand

\* In Executing the reports of a command given once more are counted and forgotten.
LEMMA StaleCompletion ==
    ASSUME NEW s, NEW old, Sound(old), Regular(old), Calm(old), old.completions # <<>>,
           Taking(s, old), AtRest(old) \/ Accepted(old) \/ Porting(old)
    PROVE  LET t == DispatchCompletion(s, Head(old.completions))
           IN  Regular(t) /\ Phase(t) /\ t.krn = old.krn /\ t.cur = old.cur
<1> PICK m : m = Head(old.completions)
  OBVIOUS
<1>1. old.cur = "Executing" /\ old.completions \in Seq(Completions)
  BY DEF Calm, Sound, IsComp
<1>2. m.state = "Executing" /\ \A i \in DOMAIN Tail(old.completions) :
            Tail(old.completions)[i].state = "Executing"
  <2>1. \A i \in DOMAIN old.completions : old.completions[i].state = "Executing"
    BY <1>1 DEF Calm
  <2>2. m = old.completions[1] /\ 1 \in DOMAIN old.completions
    BY <1>1
  <2>3. ASSUME NEW i \in DOMAIN Tail(old.completions)
        PROVE  i + 1 \in DOMAIN old.completions /\ Tail(old.completions)[i] = old.completions[i + 1]
    BY <1>1
  <2> QED BY <2>1, <2>2, <2>3
<1>3. s.cur = "Executing" /\ Sound(s) /\ m.state \in Expected(s.cur)
  BY <1>1, <1>2 DEF Taking, SamePorts, Expected, SubStates
<1>4. Expect(s, m.state \in Expected(s.cur), "trans_complete") = s
  BY <1>3, ExpectHolds
<1> PICK x : x = IF s.counted[s.cur] = <<>> THEN <<m>> ELSE <<>>
  OBVIOUS
<1> DEFINE t == [s EXCEPT !.counted[s.cur] = x]
<1>5. /\ SamePorts(t, s) /\ \A st \in States \ {s.cur} : t.counted[st] = s.counted[st]
      /\ t.krn = s.krn /\ t.prc = s.prc /\ t.completions = s.completions
  BY <1>3, CountSet
<1>6. DispatchCompletion(s, m) = t
  <2>1. CASE s.counted[s.cur] = <<>>
    BY <1>4, <2>1 DEF DispatchCompletion
  <2>2. CASE s.counted[s.cur] # <<>>
    <3>1. x = <<>> /\ t.cur = m.state
      BY <1>2, <1>3, <1>5, <2>2 DEF SamePorts
    <3>2. DispatchCompletion(s, m) = SetState(t, m.state, None)
      BY <1>4, <2>2, <3>1 DEF DispatchCompletion
    <3> HIDE DEF t
    <3>3. SetState(t, m.state, None) = t
      BY <3>1 DEF SetState
    <3> QED BY <3>2, <3>3
  <2> QED BY <2>1, <2>2
<1> HIDE DEF t
<1>7. /\ SamePorts(t, old) /\ t.krn = old.krn /\ t.prc = old.prc
      /\ t.completions = Tail(old.completions)
      /\ \A st \in States \ {"Executing"} : t.counted[st] = old.counted[st]
  BY <1>3, <1>5 DEF Taking, SamePorts, Same, SameCommand
<1>8. Regular(t)
  <2>1. \A st \in States : st \notin {old.cur, "Executing"} => t.counted[st] = <<>>
    BY <1>7 DEF Regular
  <2> QED BY <1>7, <2>1, CountsAreRegular
<1>9. Calm(t) /\ Orders(t) = Orders(old)
  BY <1>1, <1>2, <1>7 DEF Calm, SamePorts, Orders
<1>10. Phase(t)
  BY <1>7, <1>9, CalmKeeps
<1> QED BY <1>6, <1>7, <1>8, <1>10 DEF SamePorts

\* From s the machine enters main state st.
Enters(t, s, st) ==
    /\ t.cur = st /\ t.inProgress = None /\ t.counted = s.counted
    /\ t.completions = s.completions /\ t.commands = s.commands
    /\ t.failed = s.failed /\ t.cancellation = s.cancellation
    /\ t.port = s.port /\ t.callbacks = s.callbacks
    /\ t.krn = IF st = "Executing" THEN Append(s.krn, StateSet("Executing")) ELSE s.krn
    /\ t.prc = IF st = "Executing" THEN Append(s.prc, StateSet("Executing")) ELSE s.prc

\* fsm_set_state, at the end of a transition.
LEMMA SetStateEnters ==
    ASSUME NEW s, IsComp(s), s.inProgress = "StateSet", NEW st \in MainStates, st # s.cur
    PROVE  Enters(SetState(s, st, None), s, st)
<1> DEFINE moved == [s EXCEPT !.cur = st]
           error == IF moved.canceled = None THEN None ELSE "CommandCanceled"
           told == Event(moved, "StateSet", st, error)
           reported == CommandDone(told)
           message == StateSet("Executing")
           more == ToServants(reported, message)
<1>0. Expect(told, s.inProgress = "StateSet", "StateSet == in_progress_cmd_") = told
  BY ExpectHolds
<1>1. moved = [s EXCEPT !.cur = st, !.canceled = IF None = None THEN @ ELSE None]
  BY DEF IsComp, Fields
<1>2. st \notin SubStates
  BY DEF MainStates, SubStates
<1>3. SetState(s, st, None) = IF st = "Executing" THEN more ELSE reported
  BY <1>0, <1>1, <1>2 DEF SetState
<1>4. /\ moved.cur = st /\ moved.counted = s.counted /\ moved.completions = s.completions
      /\ moved.commands = s.commands /\ moved.failed = s.failed
      /\ moved.cancellation = s.cancellation /\ moved.port = s.port
      /\ moved.callbacks = s.callbacks /\ moved.krn = s.krn /\ moved.prc = s.prc
      /\ IsComp(moved)
  BY StatesAreNamed DEF IsComp, Fields
<1> HIDE DEF moved, error
<1>5. Alike(told, moved)
  BY <1>4, EventIs
<1> HIDE DEF told
<1>6. /\ SameControl(reported, told) /\ reported.inProgress = None
      /\ reported.prc = told.prc /\ Same(reported, told) /\ IsComp(reported)
  BY <1>5, CommandDoneIs, CommandDoneIsQuiet DEF Alike, Quiet
<1> HIDE DEF reported
<1>7. Enters(reported, s, st) \/ st = "Executing"
  BY <1>4, <1>5, <1>6 DEF Enters, Alike, SameControl, Same
<1>8. ASSUME st = "Executing" PROVE Enters(more, s, st)
  <2>1. /\ more.krn = Append(reported.krn, message) /\ more.prc = Append(reported.prc, message)
        /\ more.cur = reported.cur /\ more.inProgress = reported.inProgress
        /\ more.counted = reported.counted /\ more.completions = reported.completions
        /\ more.commands = reported.commands /\ more.failed = reported.failed
        /\ more.cancellation = reported.cancellation /\ more.port = reported.port
        /\ more.callbacks = reported.callbacks
    <3> HIDE DEF message
    <3> QED BY <1>6 DEF IsComp, Fields, ToServants, ToKernel, ToProcessor
  <2> HIDE DEF more
  <2> QED BY <1>4, <1>5, <1>6, <1>8, <2>1 DEF Enters, Alike, SameControl, Same
<1> QED BY <1>3, <1>7, <1>8

\* The first report of a transition is counted.
LEMMA FirstCompletion ==
    ASSUME NEW s, NEW old, Sound(old), Regular(old), Going(old), old.completions # <<>>,
           Taking(s, old), old.counted[old.cur] = <<>>
    PROVE  LET t == DispatchCompletion(s, Head(old.completions))
           IN  Regular(t) /\ Going(t) /\ t.krn = old.krn /\ t.cur = old.cur
<1> PICK m : m = Head(old.completions)
  OBVIOUS
<1> PICK one : one = <<m>>
  OBVIOUS
<1>1. /\ Underway(old) /\ Heard(old, old.krn = <<>> /\ Satisfied(old))
      /\ old.completions \in Seq(Completions)
  BY DEF Going, Sound, IsComp
<1>2. /\ Tallied(one, Tail(old.completions), old.param, old.krn = <<>> /\ Satisfied(old),
                 Orders(old) = <<>>)
      /\ m.state = old.param
  BY <1>1, FirstTallied DEF Heard
<1>3. s.cur = old.cur /\ Sound(s) /\ m.state \in Expected(s.cur) /\ s.counted[s.cur] = <<>>
  BY <1>1, <1>2, WaysEnd DEF Taking, SamePorts, Underway
<1>4. Expect(s, m.state \in Expected(s.cur), "trans_complete") = s
  BY <1>3, ExpectHolds
<1> DEFINE t == [s EXCEPT !.counted[s.cur] = one]
<1>5. /\ SamePorts(t, s) /\ \A st \in States \ {s.cur} : t.counted[st] = s.counted[st]
      /\ t.krn = s.krn /\ t.prc = s.prc /\ t.completions = s.completions
      /\ t.counted[s.cur] = one
  BY <1>3, CountSet
<1>6. DispatchCompletion(s, m) = t
  BY <1>3, <1>4 DEF DispatchCompletion
<1> HIDE DEF t
<1>7. /\ SamePorts(t, old) /\ t.krn = old.krn /\ t.prc = old.prc
      /\ t.completions = Tail(old.completions) /\ t.counted[t.cur] = one
      /\ \A st \in States \ {old.cur} : t.counted[st] = old.counted[st]
  BY <1>3, <1>5 DEF Taking, SamePorts, Same, SameCommand
<1>8. Regular(t)
  <2>1. \A st \in States : st \notin {old.cur, "Executing"} => t.counted[st] = <<>>
    BY <1>7 DEF Regular
  <2> QED BY <1>7, <2>1, CountsAreRegular
<1>9. Orders(t) = Orders(old) /\ Satisfied(t) = Satisfied(old) /\ NoneUndone(t)
      /\ t.cur = old.cur /\ t.param = old.param /\ t.inProgress = old.inProgress
      /\ t.commands = old.commands
  BY <1>1, <1>7 DEF Orders, Satisfied, SamePorts, Same, SameCommand, NoneUndone, Undone, Underway
<1>10. Underway(t)
  BY <1>1, <1>9, UnderwayKeeps
<1>11. Heard(t, t.krn = <<>> /\ Satisfied(t))
  BY <1>2, <1>7, <1>9 DEF Heard
<1>12. Going(t)
  BY <1>7, <1>9, <1>10, <1>11 DEF Going
<1> QED BY <1>6, <1>7, <1>8, <1>12 DEF SamePorts

\* The ports at the end of a transition.
LEMMA StockedAtEnd ==
    ASSUME NEW s, Sound(s), Regular(s), Underway(s), Satisfied(s), NEW p \in Ports
    PROVE  Stocked(s.port[p], s.param)
<1> PICK r : r = s.port[p]
  OBVIOUS
<1>1. /\ r \in PortRecord /\ r.claimed \in Nat /\ r.claimed <= r.bufs /\ Stocked(r, s.cur)
      /\ r.bufs \in Nat /\ NBufs \in Nat
  <2>1. r \in PortRecord /\ r.claimed \in Nat /\ r.claimed <= r.bufs
    BY PortOf
  <2>2. r.bufs \in Nat /\ NBufs \in Nat
    BY <2>1, PortAssumption DEF PortRecord
  <2> QED BY <2>1, <2>2 DEF Regular
<1>2. ~r.beingEnabled /\ ~r.beingDisabled
  <2>1. \A c \in PortCommands : ~Flagged(r, c)
    BY DEF Underway, NoneUndone, Undone
  <2> QED BY <2>1 DEF Flagged, PortCommands
<1>3. <<s.cur, s.param>> \in Ways
  BY DEF Underway
<1>4. /\ s.cur = "LoadedToIdle" => (r.enabled => r.bufs = NBufs)
      /\ s.cur = "IdleToLoaded" => r.bufs = 0
      /\ s.cur = "ExecutingToIdle" => (r.enabled /\ r.bufs > 0 => r.claimed = 0)
  BY DEF Satisfied, AllPopulated, Populated, AllDepopulated, AllBuffersReturned
<1>5. CASE s.cur = "LoadedToIdle" /\ s.param = "Idle"
  BY <1>1, <1>2, <1>4, <1>5 DEF Stocked
<1>6. CASE s.cur = "IdleToLoaded" /\ s.param = "Loaded"
  BY <1>1, <1>2, <1>4, <1>6 DEF Stocked
<1>7. CASE s.cur = "ExecutingToIdle" /\ s.param = "Idle"
  BY <1>1, <1>2, <1>4, <1>7 DEF Stocked
<1>8. CASE s.cur \in {"Loaded", "WaitForResources"} /\ s.param \in {"Loaded", "WaitForResources"}
  BY <1>1, <1>2, <1>8 DEF Stocked
<1>9. CASE s.cur = "Idle" /\ s.param = "Executing"
  BY <1>1, <1>2, <1>9 DEF Stocked
<1> QED BY <1>3, <1>5, <1>6, <1>7, <1>8, <1>9 DEF Ways

\* The processor is told once more to go to Executing.
LEMMA ExecutingOrdered ==
    ASSUME NEW s, NEW t, IsComp(s), Orders(s) = <<>>, t.prc = Append(s.prc, StateSet("Executing"))
    PROVE  Orders(t) = <<StateSet("Executing")>>
<1> PICK m : m = StateSet("Executing")
  OBVIOUS
<1>1. m \in Messages /\ m \in Transits /\ s.prc \in Seq(Messages)
  BY StatesAreNamed DEF Transits, MainStates, IsComp
<1>2. Orders(t) = Append(Orders(s), m)
  BY <1>1, OnlyAppend DEF Orders
<1> QED BY <1>2, Pair

\* The count of a state is set back.
LEMMA CountReset ==
    ASSUME NEW s, Sound(s)
    PROVE  LET t == [s EXCEPT !.counted[s.cur] = <<>>]
           IN  /\ SamePorts(t, s) /\ t.counted[s.cur] = <<>>
               /\ \A st \in States \ {s.cur} : t.counted[st] = s.counted[st]
               /\ t.krn = s.krn /\ t.prc = s.prc /\ t.completions = s.completions
BY DEF Sound, IsComp, Fields, SamePorts, Same, SameCommand

\* The second report of a transition ends it.
LEMMA LastCompletion ==
    ASSUME NEW s, NEW old, Sound(old), Regular(old), Going(old), old.krn = <<>>,
           old.completions # <<>>, Taking(s, old), old.counted[old.cur] # <<>>
    PROVE  LET one == Head(old.counted[old.cur])
               other == Head(old.completions)
               t == DispatchCompletion(s, other)
           IN  /\ Regular(t) /\ AtRest(t) /\ t.cur = old.param
               /\ one.state = old.param /\ other.state = old.param
               /\ one.servant # other.servant
<1> PICK m : m = Head(old.completions)
  OBVIOUS
<1> PICK one : one = Head(old.counted[old.cur])
  OBVIOUS
<1> DEFINE kernel == old.krn = <<>> /\ Satisfied(old)
           processor == Orders(old) = <<>>
<1>1. /\ Underway(old) /\ Heard(old, kernel) /\ kernel \in BOOLEAN /\ processor \in BOOLEAN
      /\ old.completions \in Seq(Completions) /\ old.cur \in States
      /\ old.counted[old.cur] \in Seq(Completions)
  BY DEF Going, Sound, IsComp
<1>15. Tallied(old.counted[old.cur], old.completions, old.param, kernel, processor)
  BY <1>1 DEF Heard
<1> HIDE DEF kernel, processor
<1>2. /\ kernel /\ processor /\ Tail(old.completions) = <<>>
      /\ one.state = old.param /\ m.state = old.param /\ one.servant # m.servant
  BY <1>1, <1>15, SecondTallied
<1>17. Satisfied(old) /\ Orders(old) = <<>>
  BY <1>2 DEF kernel, processor
<1>3. /\ old.param \in MainStates /\ old.param # old.cur /\ old.cur # "Executing"
      /\ old.param \in Expected(old.cur) /\ old.param # "Pause"
  BY <1>1, WaysEnd DEF Underway
<1>4. s.cur = old.cur /\ Sound(s) /\ m.state \in Expected(s.cur) /\ s.counted[s.cur] # <<>>
  BY <1>2, <1>3 DEF Taking, SamePorts
<1>5. Expect(s, m.state \in Expected(s.cur), "trans_complete") = s
  BY <1>4, ExpectHolds
<1> DEFINE u == [s EXCEPT !.counted[s.cur] = <<>>]
           t == SetState(u, old.param, None)
<1>6. /\ SamePorts(u, s) /\ \A st \in States \ {s.cur} : u.counted[st] = s.counted[st]
      /\ u.krn = s.krn /\ u.prc = s.prc /\ u.completions = s.completions
      /\ u.counted[s.cur] = <<>>
  BY <1>4, CountReset
<1>7. DispatchCompletion(s, m) = t
  BY <1>2, <1>4, <1>5 DEF DispatchCompletion
<1>14. IsComp(u)
  <2> PICK none : none = <<>>
    OBVIOUS
  <2>1. none \in Seq(Completions) /\ s.cur \in States /\ IsComp(s)
    BY <1>1, <1>4 DEF Sound
  <2>2. Quiet([s EXCEPT !.counted[s.cur] = none], s)
    BY <2>1, CountedIsQuiet
  <2> QED BY <2>2 DEF Quiet
<1> HIDE DEF u
<1>8. /\ SamePorts(u, old) /\ u.krn = <<>> /\ u.prc = old.prc
      /\ u.completions = <<>> /\ u.counted[old.cur] = <<>>
      /\ \A st \in States \ {old.cur} : u.counted[st] = old.counted[st]
  BY <1>2, <1>4, <1>6 DEF Taking, SamePorts, Same, SameCommand
<1>9. Enters(t, u, old.param)
  <2>1. u.inProgress = "StateSet" /\ u.cur = old.cur
    BY <1>1, <1>8 DEF SamePorts, SameCommand, Underway
  <2> QED BY <1>3, <1>14, <2>1, SetStateEnters
<1> HIDE DEF t
<1>10. /\ t.cur = old.param /\ t.inProgress = None /\ t.counted = u.counted /\ t.completions = <<>>
       /\ t.commands = <<>> /\ t.failed = None /\ t.cancellation = None /\ t.port = old.port
       /\ t.callbacks = old.callbacks
  BY <1>1, <1>8, <1>9 DEF Enters, SamePorts, Same, Underway, Regular
<1>11. Regular(t)
  <2>1. \A p \in Ports : Stocked(t.port[p], t.cur)
    BY <1>1, <1>10, <1>17, StockedAtEnd
  <2>2. \A st \in States : st \notin {t.cur, "Executing"} => t.counted[st] = <<>>
    BY <1>8, <1>10 DEF Regular
  <2>3. t.cur \in Stages
    BY <1>3, <1>10 DEF Stages, MainStates
  <2> QED BY <1>10, <2>1, <2>2, <2>3 DEF Regular
<1>12. AtRest(t)
  <2>1. t.cur \in Stages /\ NoneUndone(t)
    BY <1>1, <1>3, <1>10 DEF Stages, MainStates, Underway, NoneUndone, Undone
  <2>2. Orders(u) = <<>>
    BY <1>8, <1>17 DEF Orders
  <2>3. CASE old.param = "Executing"
    <3> PICK e : e = StateSet("Executing")
      OBVIOUS
    <3>1. t.krn = Append(<<>>, e) /\ t.prc = Append(u.prc, e)
      BY <1>8, <1>9, <2>3 DEF Enters
    <3>2. Orders(t) = <<e>> /\ t.krn = <<e>>
      BY <1>14, <2>2, <3>1, ExecutingOrdered, Pair
    <3> QED BY <1>10, <2>1, <2>3, <3>2 DEF AtRest, Calm
  <2>4. CASE old.param # "Executing"
    <3>1. t.krn = <<>> /\ Orders(t) = <<>>
      BY <1>8, <1>9, <2>2, <2>4 DEF Enters, Orders
    <3>2. t.counted[t.cur] = <<>>
      <4>1. old.param \in States \ {old.cur}
        BY <1>3, StatesAreNamed
      <4> QED BY <1>8, <1>10, <2>4, <4>1 DEF Regular
    <3> QED BY <1>10, <2>1, <2>4, <3>1, <3>2 DEF AtRest, Calm
  <2> QED BY <2>3, <2>4
<1> QED BY <1>2, <1>7, <1>10, <1>11, <1>12

-----------------------------------------------------------------------------
(* The state machine dispatches a command                                  *)

\* A command has been taken from the queue of the machine.
Pending(s) ==
    /\ Sound(s) /\ Regular(s)
    /\ s.inProgress # None /\ s.commands = <<>>
    /\ s.inProgress = "StateSet" => s.param # "Pause"
    /\ Calm(s) /\ NoneUndone(s) /\ s.krn = <<>> /\ s.completions = <<>>

\* Where the machine waits for each transition.
LEMMA ViaIs ==
    ASSUME NEW cur \in Stages, NEW st, st # "Pause"
    PROVE  /\ cur \in DOMAIN Via /\ cur # "LoadedToIdle" /\ cur \in States
           /\ st \in DOMAIN Via[cur] =>
                /\ <<Via[cur][st], st>> \in Ways /\ st \in MainStates
                /\ Via[cur][st] \in States
                /\ Via[cur][st] # cur => Via[cur][st] \in SubStates
                /\ <<cur, Via[cur][st]>> \in
                    {<<"Loaded", "LoadedToIdle">>, <<"Loaded", "Loaded">>,
                     <<"Idle", "IdleToLoaded">>, <<"Idle", "Idle">>,
                     <<"Executing", "ExecutingToIdle">>,
                     <<"WaitForResources", "WaitForResources">>}
<1>1. CASE cur = "Loaded"
  BY <1>1 DEF Via, Ways, MainStates, States, SubStates
<1>2. CASE cur = "Idle"
  BY <1>2 DEF Via, Ways, MainStates, States, SubStates
<1>3. CASE cur = "Executing"
  BY <1>3 DEF Via, Ways, MainStates, States, SubStates
<1>4. CASE cur = "WaitForResources"
  BY <1>4 DEF Via, Ways, MainStates, States, SubStates
<1> QED BY <1>1, <1>2, <1>3, <1>4 DEF Stages

\* A transition that does not exist is answered, and nothing else happens.
LEMMA PendingFails ==
    ASSUME NEW s, Pending(s), NEW error
    PROVE  LET t == CommandFailed(s, error)
           IN  Regular(t) /\ AtRest(t) /\ t.krn = <<>> /\ t.cur = s.cur
<1> DEFINE told == Event(s, s.inProgress, s.param, error)
           t == CommandDone(told)
<1>1. CommandFailed(s, error) = t
  BY DEF CommandFailed, Pending
<1>2. Alike(told, s)
  BY EventIs DEF Pending, Sound
<1> HIDE DEF told
<1>3. SameControl(t, told) /\ t.inProgress = None /\ t.prc = told.prc /\ Same(t, told)
  BY <1>2, CommandDoneIs, CommandDoneIsQuiet DEF Quiet, Alike
<1> HIDE DEF t
<1>4. SameControl(t, s) /\ t.prc = s.prc /\ Same(t, s)
  BY <1>2, <1>3 DEF Alike, SameControl, Same
<1>5. Regular(t)
  BY <1>4 DEF Pending, Regular, SameControl, Same
<1>6. Calm(t) /\ NoneUndone(t)
  BY <1>4 DEF Pending, Calm, SameControl, Same, Orders, NoneUndone, Undone
<1>7. AtRest(t) /\ t.krn = <<>> /\ t.cur = s.cur
  BY <1>3, <1>4, <1>6 DEF Pending, SameControl, AtRest
<1> QED BY <1>1, <1>5, <1>7

\* What ToServants does to the two queues.
LEMMA ToServantsIs ==
    ASSUME NEW s, IsComp(s), NEW m \in Messages
    PROVE  LET t == ToServants(s, m)
           IN  /\ t.krn = Append(s.krn, m) /\ t.prc = Append(s.prc, m)
               /\ Orders(t) = IF m \in Transits THEN Append(Orders(s), m) ELSE Orders(s)
               /\ Same(t, s) /\ SameCommand(t, s) /\ t.cur = s.cur /\ t.counted = s.counted
               /\ t.completions = s.completions /\ t.commands = s.commands
               /\ t.failed = s.failed /\ t.cancellation = s.cancellation
               /\ t.completion = s.completion
<1> DEFINE t == ToServants(s, m)
<1>1. /\ t.krn = Append(s.krn, m) /\ t.prc = Append(s.prc, m)
      /\ Same(t, s) /\ SameCommand(t, s) /\ t.cur = s.cur /\ t.counted = s.counted
      /\ t.completions = s.completions /\ t.commands = s.commands
      /\ t.failed = s.failed /\ t.cancellation = s.cancellation
      /\ t.completion = s.completion
  BY DEF IsComp, Fields, ToServants, ToKernel, ToProcessor, Same, SameCommand
<1>2. s.prc \in Seq(Messages)
  BY DEF IsComp
<1> HIDE DEF t
<1>3. Orders(t) = IF m \in Transits THEN Append(Orders(s), m) ELSE Orders(s)
  <2> PICK q : q = s.prc
    OBVIOUS
  <2>3. m \in Transits => Only(Append(q, m), Transits) = Append(Only(q, Transits), m)
    BY <1>2, OnlyAppend
  <2>4. m \notin Transits => Only(Append(q, m), Transits) = Only(q, Transits)
    BY <1>2, OnlyAppend
  <2>1. Only(Append(q, m), Transits)
            = IF m \in Transits THEN Append(Only(q, Transits), m) ELSE Only(q, Transits)
    BY <2>3, <2>4
  <2>2. t.prc = Append(q, m)
    BY <1>1
  <2> QED BY <2>1, <2>2, ZenonT(30) DEF Orders
<1> QED BY <1>1, <1>3 DEF t

\* The ports at the start of a transition.
LEMMA StockedAtStart ==
    ASSUME NEW s, Sound(s), Regular(s), NEW v,
           <<s.cur, v>> \in
                {<<"Loaded", "LoadedToIdle">>, <<"Loaded", "Loaded">>,
                 <<"Idle", "IdleToLoaded">>, <<"Idle", "Idle">>,
                 <<"Executing", "ExecutingToIdle">>,
                 <<"WaitForResources", "WaitForResources">>},
           NEW p \in Ports
    PROVE  Stocked(s.port[p], v)
<1>1. Stocked(s.port[p], s.cur)
  BY DEF Regular
<1> QED BY <1>1 DEF Stocked

\* The two orders of the processor that leaving Executing can find.
LEMMA OrdersAfter ==
    ASSUME NEW s, Calm(s), NEW o, NEW m, o = Append(Orders(s), m)
    PROVE  /\ s.cur # "Executing" => o = <<m>>
           /\ s.cur = "Executing" => o \in {<<m>>, <<StateSet("Executing"), m>>}
<1> PICK e : e = StateSet("Executing")
  OBVIOUS
<1>1. /\ s.cur # "Executing" => Orders(s) = <<>>
      /\ s.cur = "Executing" => Orders(s) \in {<<>>, <<e>>}
  BY DEF Calm
<1>2. Append(<<e>>, m) = <<e, m>> /\ Append(<<>>, m) = <<m>>
  BY Pair
<1> QED BY <1>1, <1>2

\* A transition that the machine takes up is on its way.
LEMMA PendingGoes ==
    ASSUME NEW s, Pending(s), s.inProgress = "StateSet", NEW st, s.param = st,
           st \in DOMAIN Via[s.cur]
    PROVE  LET t == DispatchStateSet(s, st)
           IN  Regular(t) /\ Going(t) /\ (t.cur # s.cur => t.cur \in SubStates)
<1> PICK v : v = Via[s.cur][st]
  OBVIOUS
<1> PICK m : m = StateSet(st)
  OBVIOUS
<1> PICK e : e = StateSet("Executing")
  OBVIOUS
<1> DEFINE u == SetState(s, v, None)
           t == ToServants(u, m)
<1>1. /\ IsComp(s) /\ Sound(s) /\ Regular(s) /\ Calm(s) /\ s.cur \in Stages /\ st # "Pause"
  BY DEF Pending, Sound, Calm
<1>2. /\ s.cur \in DOMAIN Via /\ s.cur # "LoadedToIdle" /\ s.cur \in States
      /\ <<v, st>> \in Ways /\ st \in MainStates /\ v \in States
      /\ v # s.cur => v \in SubStates
  BY <1>1, ViaIs
<1>3. <<s.cur, v>> \in
        {<<"Loaded", "LoadedToIdle">>, <<"Loaded", "Loaded">>,
         <<"Idle", "IdleToLoaded">>, <<"Idle", "Idle">>,
         <<"Executing", "ExecutingToIdle">>,
         <<"WaitForResources", "WaitForResources">>}
  BY <1>1, ViaIs
<1>4. DispatchStateSet(s, st) = t
  BY <1>2 DEF DispatchStateSet
<1>5. /\ u.cur = v /\ Same(u, s) /\ SameCommand(u, s) /\ u.counted = s.counted
      /\ u.completions = s.completions /\ u.commands = s.commands
      /\ u.failed = s.failed /\ u.cancellation = s.cancellation
      /\ u.krn = s.krn /\ u.prc = s.prc /\ IsComp(u)
  <2>1. CASE v = s.cur
    BY <1>1, <2>1 DEF SetState, Same, SameCommand
  <2>2. CASE v # s.cur
    <3> DEFINE moved == [s EXCEPT !.cur = v, !.canceled = IF None = None THEN @ ELSE None]
    <3>0. v \in SubStates /\ v # s.cur /\ v # "Executing"
      BY <1>2, <2>2 DEF SubStates
    <3>1. u = moved
      <4> HIDE DEF moved, None
      <4> QED BY <3>0 DEF SetState, moved
    <3>2. moved = [s EXCEPT !.cur = v]
      BY <1>1 DEF IsComp, Fields
    <3> HIDE DEF moved, u
    <3> QED BY <1>1, <1>2, <3>1, <3>2 DEF IsComp, Fields, Same, SameCommand
  <2> QED BY <2>1, <2>2
<1> HIDE DEF u
<1>6. m \in Messages /\ m \in Transits
  BY <1>2, StatesAreNamed DEF Transits
<1>7. /\ t.krn = Append(u.krn, m) /\ Orders(t) = Append(Orders(u), m)
      /\ Same(t, u) /\ SameCommand(t, u) /\ t.cur = u.cur /\ t.counted = u.counted
      /\ t.completions = u.completions /\ t.commands = u.commands
      /\ t.failed = u.failed /\ t.cancellation = u.cancellation
  BY <1>5, <1>6, ToServantsIs
<1> HIDE DEF t
<1>8. /\ t.cur = v /\ Same(t, s) /\ t.counted = s.counted /\ t.completions = <<>>
      /\ t.commands = <<>> /\ t.failed = s.failed /\ t.cancellation = s.cancellation
      /\ t.inProgress = "StateSet" /\ t.param = st
      /\ t.krn = <<m>> /\ Orders(t) = Append(Orders(s), m)
  <2>1. s.krn = <<>> /\ s.completions = <<>> /\ s.commands = <<>>
    BY DEF Pending
  <2>2. Append(s.krn, m) = <<m>>
    BY <2>1, Pair
  <2>3. Orders(u) = Orders(s)
    BY <1>5 DEF Orders
  <2> QED BY <1>5, <1>7, <2>1, <2>2, <2>3 DEF Same, SameCommand
<1>9. Regular(t) /\ t.counted[v] = <<>>
  <2>1. \A x \in States : x # "Executing" => s.counted[x] = <<>>
    <3>1. s.cur # "Executing" => s.counted[s.cur] = <<>>
      BY <1>1 DEF Calm
    <3> QED BY <1>1, <3>1 DEF Regular
  <2>2. v # "Executing"
    BY <1>2, WaysEnd
  <2>3. \A p \in Ports : Stocked(t.port[p], v)
    BY <1>1, <1>3, <1>8, StockedAtStart DEF Same
  <2>4. v \in Stages \cup {"LoadedToIdle", "IdleToLoaded", "ExecutingToIdle"}
    BY <1>3 DEF Stages
  <2> QED BY <1>1, <1>2, <1>8, <2>1, <2>2, <2>3, <2>4 DEF Regular, Same
<1>10. Underway(t) /\ Orders(t) # <<>>
  <2>1. /\ s.cur # "Executing" => Orders(t) = <<m>>
        /\ s.cur = "Executing" => Orders(t) \in {<<m>>, <<e, m>>}
    BY <1>1, <1>8, OrdersAfter
  <2>2. NoneUndone(t)
    BY <1>8 DEF Pending, NoneUndone, Undone, Same
  <2>3. s.cur = "Executing" => v = "ExecutingToIdle" /\ st = "Idle"
    BY <1>2, <1>3 DEF Ways
  <2>4. <<m>> # <<>> /\ <<e, m>> # <<>>
    OBVIOUS
  <2>5. CASE s.cur = "Executing"
    BY <1>2, <1>8, <2>1, <2>2, <2>3, <2>4, <2>5 DEF Underway
  <2>6. CASE s.cur # "Executing"
    BY <1>2, <1>8, <2>1, <2>2, <2>4, <2>6 DEF Underway
  <2> QED BY <2>5, <2>6
<1>11. Heard(t, FALSE)
  <2>1. Tallied(<<>>, <<>>, st, FALSE, FALSE)
    <3>1. <<>> \o <<>> = <<>> /\ Len(<<>>) = 0
      OBVIOUS
    <3> QED BY <3>1 DEF Tallied
  <2>2. (Orders(t) = <<>>) = FALSE
    BY <1>10
  <2> QED BY <1>8, <1>9, <2>1, <2>2 DEF Heard
<1>12. Going(t)
  <2>1. (t.krn = <<>> /\ Satisfied(t)) = FALSE
    BY <1>8
  <2> QED BY <1>8, <1>10, <1>11, <2>1 DEF Going
<1> QED BY <1>2, <1>4, <1>8, <1>9, <1>12

\* The two kinds of messages.
LEMMA MessageIs ==
    ASSUME NEW c \in Messages
    PROVE  \/ c.cmd = "StateSet" /\ c.param \in MainStates /\ c = StateSet(c.param)
           \/ /\ c.cmd \in PortCommands /\ c.param \in Ports \cup {ALL}
              /\ c = PortCommand(c.cmd, c.param) /\ c \notin Transits
<1>1. CASE c \in {StateSet(st) : st \in MainStates}
  BY <1>1 DEF StateSet
<1>2. CASE c \in {PortCommand(d, t) : d \in PortCommands, t \in Ports \cup {ALL}}
  <2>1. PICK d \in PortCommands, t \in Ports \cup {ALL} : c = PortCommand(d, t)
    BY <1>2
  <2>2. c.cmd = d /\ c.param = t
    BY <2>1 DEF PortCommand
  <2>3. c \notin Transits
    BY <2>1 DEF PortCommand, PortCommands, StateSet, Transits
  <2> QED BY <2>1, <2>2, <2>3
<1> QED BY <1>1, <1>2 DEF Messages

\* What ToKernel does to the queues.
LEMMA ToKernelIs ==
    ASSUME NEW s, IsComp(s), NEW m \in Messages
    PROVE  LET t == ToKernel(s, m)
           IN  /\ t.krn = Append(s.krn, m) /\ Orders(t) = Orders(s)
               /\ Same(t, s) /\ SameCommand(t, s) /\ t.cur = s.cur /\ t.counted = s.counted
               /\ t.completions = s.completions /\ t.commands = s.commands
               /\ t.failed = s.failed /\ t.cancellation = s.cancellation
<1> DEFINE t == ToKernel(s, m)
<1>1. /\ t.krn = Append(s.krn, m) /\ t.prc = s.prc
      /\ Same(t, s) /\ SameCommand(t, s) /\ t.cur = s.cur /\ t.counted = s.counted
      /\ t.completions = s.completions /\ t.commands = s.commands
      /\ t.failed = s.failed /\ t.cancellation = s.cancellation
  BY DEF IsComp, Fields, ToKernel, Same, SameCommand
<1> HIDE DEF t
<1>2. Orders(t) = Orders(s)
  BY <1>1 DEF Orders
<1> QED BY <1>1, <1>2 DEF t

\* A port command is passed on to the kernel.
LEMMA PendingPorts ==
    ASSUME NEW s, Pending(s), NEW c \in Messages, c = PortCommand(s.inProgress, s.param),
           c.cmd \in PortCommands
    PROVE  LET t == DispatchCommand(s, c)
           IN  Regular(t) /\ Porting(t) /\ t.cur = s.cur
<1> DEFINE t == DispatchCommand(s, c)
<1>1. IsComp(s) /\ c.cmd = s.inProgress /\ c \notin Transits /\ s.inProgress \in PortCommands
  BY MessageIs DEF Pending, Sound, PortCommand, StateSet, PortCommands
<1>2. t = IF c.cmd = "PortDisable" THEN ToServants(s, c) ELSE ToKernel(s, c)
  BY DEF DispatchCommand, PortCommands
<1>3. /\ t.krn = Append(s.krn, c) /\ Orders(t) = Orders(s)
      /\ Same(t, s) /\ SameCommand(t, s) /\ t.cur = s.cur /\ t.counted = s.counted
      /\ t.completions = s.completions /\ t.commands = s.commands
      /\ t.failed = s.failed /\ t.cancellation = s.cancellation
  BY <1>1, <1>2, ToServantsIs, ToKernelIs
<1> HIDE DEF t
<1>4. t.krn = <<c>> /\ c = PortCommand(t.inProgress, t.param)
  <2>1. s.krn = <<>>
    BY DEF Pending
  <2> QED BY <1>3, <2>1, Pair DEF SameCommand
<1>5. Regular(t)
  BY <1>3 DEF Pending, Regular, Same
<1>6. Calm(t) /\ NoneUndone(t) /\ t.commands = <<>> /\ t.inProgress \in PortCommands
  BY <1>1, <1>3 DEF Pending, Calm, Same, SameCommand, NoneUndone, Undone
<1>7. Porting(t)
  BY <1>4, <1>6 DEF Porting
<1> QED BY <1>3, <1>5, <1>7 DEF t

\* Whatever the command, the machine passes it on, or answers it.
LEMMA PendingIsPhase ==
    ASSUME NEW s, Pending(s), NEW c \in Messages, c = PortCommand(s.inProgress, s.param)
    PROVE  LET t == DispatchCommand(s, c)
           IN  Regular(t) /\ Phase(t) /\ (t.cur # s.cur => t.cur \in SubStates)
<1>1. c.cmd = s.inProgress /\ c.param = s.param
  BY DEF PortCommand
<1>2. CASE c.cmd \in PortCommands
  BY <1>2, PendingPorts DEF Phase
<1>3. CASE c.cmd = "StateSet" /\ s.param \notin DOMAIN Via[s.cur]
  <2> PICK error : error = IF s.param = s.cur THEN "SameState" ELSE "IncorrectStateTransition"
    OBVIOUS
  <2>1. s.cur \in DOMAIN Via
    <3>1. s.cur \in Stages /\ s.param # "Pause"
      BY <1>1, <1>3 DEF Pending, Calm
    <3> QED BY <3>1, ViaIs
  <2>2. DispatchCommand(s, c) = DispatchStateSet(s, s.param)
    BY <1>1, <1>3 DEF DispatchCommand
  <2>3. DispatchStateSet(s, s.param) = CommandFailed(s, error)
    BY <1>3, <2>1 DEF DispatchStateSet
  <2> QED BY <2>2, <2>3, PendingFails DEF Phase
<1>4. CASE c.cmd = "StateSet" /\ s.param \in DOMAIN Via[s.cur]
  <2>1. DispatchCommand(s, c) = DispatchStateSet(s, s.param)
    BY <1>1, <1>4 DEF DispatchCommand
  <2> PICK st : st = s.param
    OBVIOUS
  <2>2. LET t == DispatchStateSet(s, st)
        IN  Regular(t) /\ Going(t) /\ (t.cur # s.cur => t.cur \in SubStates)
    BY <1>1, <1>4, PendingGoes
  <2> QED BY <2>1, <2>2 DEF Phase
<1> QED BY <1>2, <1>3, <1>4, MessageIs

-----------------------------------------------------------------------------
(* The turn of the state machine                                           *)

\* From s to t a main state is only entered when both servants have reported it.
Settles(t, s) ==
    t.cur # s.cur /\ t.cur \in MainStates =>
        /\ s.counted[s.cur] # <<>>
        /\ s.completions # <<>>
        /\ LET one == Head(s.counted[s.cur])
               other == Head(s.completions)
           IN  /\ {one.state, other.state} = {t.cur}
               /\ one.servant # other.servant

\* A state is not a main state and a transitional one.
LEMMA StatesApart == \A st \in SubStates : st \notin MainStates
BY DEF MainStates, SubStates

\* Only the events of the step before are forgotten.
LEMMA NowIsSame ==
    ASSUME Sound(comp)
    PROVE  /\ Sound(Now) /\ SamePorts(Now, comp) /\ Now.counted = comp.counted
           /\ Now.completions = comp.completions /\ Now.krn = comp.krn
           /\ Now.prc = comp.prc /\ Orders(Now) = Orders(comp)
<1>1. Sound(Now) /\ IsComp(comp)
  BY NowIsSound DEF Sound
<1>2. /\ SamePorts(Now, comp) /\ Now.counted = comp.counted
      /\ Now.completions = comp.completions /\ Now.krn = comp.krn
      /\ Now.prc = comp.prc
  BY <1>1 DEF IsComp, Fields, Now, SamePorts, Same, SameCommand
<1> HIDE DEF Now
<1>3. Orders(Now) = Orders(comp)
  BY <1>2 DEF Orders
<1> QED BY <1>1, <1>2, <1>3

\* That is a shift in which no header changes hands.
LEMMA NowShifts ==
    ASSUME Sound(comp)
    PROVE  Shifts(Now, comp) /\ Now.port = comp.port
<1>1. Sound(Now) /\ IsComp(Now)
  BY NowIsSound
<1> QED BY <1>1, NowIsSame, SameShifts DEF SamePorts, Same, SameControl, SameCommand

\* A state that is in order is so without its events.
LEMMA NowIsPhase ==
    ASSUME Sound(comp), Regular(comp), Phase(comp)
    PROVE  Regular(Now) /\ Phase(Now) /\ Now.krn = comp.krn /\ Now.cur = comp.cur
<1>1. Shifts(Now, comp) /\ Now.port = comp.port
  BY NowShifts
<1> HIDE DEF Now
<1>2. Regular(Now) /\ Phase(Now)
  BY <1>1, ShiftIsPhase
<1> QED BY <1>1, <1>2 DEF Shifts, SameControl

\* The machine takes a completion.
LEMMA NowTakes ==
    ASSUME Sound(comp), comp.completions # <<>>
    PROVE  Taking([Now EXCEPT !.completions = Tail(@)], comp)
<1> PICK q : q = Tail(comp.completions)
  OBVIOUS
<1> DEFINE s == [Now EXCEPT !.completions = q]
<1>1. IsComp(comp) /\ Now.completions = comp.completions
  BY NowIsSame DEF Sound
<1>2. [Now EXCEPT !.completions = Tail(@)] = s
  BY <1>1
<1>3. Sound(s)
  BY <1>2, NowIsSound
<1>4. /\ SamePorts(s, comp) /\ s.counted = comp.counted /\ s.krn = comp.krn
      /\ s.prc = comp.prc /\ s.completions = q
  BY <1>1 DEF IsComp, Fields, Now, SamePorts, Same, SameCommand
<1> HIDE DEF s
<1> QED BY <1>2, <1>3, <1>4 DEF Taking

\* The machine takes the command that was accepted.
LEMMA NowPends ==
    ASSUME Sound(comp), Regular(comp), Accepted(comp), comp.completions = <<>>
    PROVE  /\ Pending([Now EXCEPT !.commands = Tail(@)])
           /\ [Now EXCEPT !.commands = Tail(@)].cur = comp.cur
           /\ Head(comp.commands) \in Messages
           /\ Head(comp.commands)
                = PortCommand([Now EXCEPT !.commands = Tail(@)].inProgress,
                              [Now EXCEPT !.commands = Tail(@)].param)
<1> PICK none : none = Tail(comp.commands)
  OBVIOUS
<1> PICK c : c = [cmd |-> comp.inProgress, param |-> comp.param]
  OBVIOUS
<1> DEFINE s == [Now EXCEPT !.commands = none]
<1>1. IsComp(comp) /\ Now.commands = comp.commands /\ comp.commands = <<c>>
  BY NowIsSame DEF Sound, SamePorts, Accepted
<1>2. [Now EXCEPT !.commands = Tail(@)] = s
  BY <1>1
<1>3. Sound(s) /\ Head(comp.commands) \in Messages
  BY <1>1, <1>2, NowIsSound
<1>4. /\ Same(s, comp) /\ SameCommand(s, comp) /\ s.counted = comp.counted /\ s.krn = comp.krn
      /\ s.cur = comp.cur /\ s.failed = comp.failed /\ s.cancellation = comp.cancellation
      /\ s.prc = comp.prc /\ s.completions = comp.completions /\ s.commands = none
  BY <1>1 DEF IsComp, Fields, Now, Same, SameCommand
<1> HIDE DEF s
<1>5. none = <<>> /\ Head(comp.commands) = c
  BY <1>1
<1>6. Regular(s)
  BY <1>4 DEF Regular, Same
<1>7. Calm(s) /\ NoneUndone(s)
  BY <1>4 DEF Accepted, Calm, Orders, NoneUndone, Undone, Same
<1>8. Pending(s)
  BY <1>3, <1>4, <1>5, <1>6, <1>7 DEF Accepted, Pending, SameCommand
<1>9. Head(comp.commands) = PortCommand(s.inProgress, s.param)
  BY <1>4, <1>5 DEF PortCommand, SameCommand
<1> QED BY <1>2, <1>3, <1>4, <1>8, <1>9

\* A command only waits for the machine when it has been accepted.
LEMMA CommandsAccepted ==
    ASSUME NEW s, Phase(s), s.commands # <<>>
    PROVE  Accepted(s)
BY DEF Phase, AtRest, Porting, Working, Going, Underway

\* The machine's turn.
LEMMA FsmTickKeeps ==
    ASSUME Sound(comp), Regular(comp), Phase(comp), comp.krn = <<>>, FsmTick
    PROVE  Regular(comp') /\ Phase(comp') /\ Settles(comp', comp)
<1>1. CASE comp.completions # <<>>
  <2> PICK s : s = [Now EXCEPT !.completions = Tail(@)]
    OBVIOUS
  <2> PICK t : t = DispatchCompletion(s, Head(comp.completions))
    OBVIOUS
  <2>1. comp' = t /\ Taking(s, comp)
    BY <1>1, NowTakes DEF FsmTick
  <2>2. CASE AtRest(comp) \/ Accepted(comp) \/ Porting(comp)
    <3>1. Calm(comp)
      BY <2>2 DEF AtRest, Accepted, Porting, Working
    <3>2. Regular(t) /\ Phase(t) /\ t.cur = comp.cur
      BY <1>1, <2>1, <2>2, <3>1, StaleCompletion
    <3> QED BY <2>1, <3>2 DEF Settles
  <2>3. CASE Going(comp) /\ comp.counted[comp.cur] = <<>>
    <3>1. Regular(t) /\ Going(t) /\ t.cur = comp.cur
      BY <1>1, <2>1, <2>3, FirstCompletion
    <3> QED BY <2>1, <3>1 DEF Settles, Phase
  <2>4. CASE Going(comp) /\ comp.counted[comp.cur] # <<>>
    <3>1. /\ Regular(t) /\ AtRest(t) /\ t.cur = comp.param
          /\ Head(comp.counted[comp.cur]).state = comp.param
          /\ Head(comp.completions).state = comp.param
          /\ Head(comp.counted[comp.cur]).servant # Head(comp.completions).servant
      BY <1>1, <2>1, <2>4, LastCompletion
    <3> QED BY <1>1, <2>1, <2>4, <3>1 DEF Settles, Phase
  <2> QED BY <2>2, <2>3, <2>4 DEF Phase
<1>2. CASE comp.completions = <<>> /\ comp.commands # <<>>
  <2> PICK s : s = [Now EXCEPT !.commands = Tail(@)]
    OBVIOUS
  <2> PICK c : c = Head(comp.commands)
    OBVIOUS
  <2>1. comp' = DispatchCommand(s, c)
    BY <1>2 DEF FsmTick
  <2>2. /\ Pending(s) /\ s.cur = comp.cur /\ c \in Messages
        /\ c = PortCommand(s.inProgress, s.param)
    BY <1>2, CommandsAccepted, NowPends
  <2>3. Regular(comp') /\ Phase(comp') /\ (comp'.cur # s.cur => comp'.cur \in SubStates)
    BY <2>1, <2>2, PendingIsPhase
  <2> QED BY <2>2, <2>3, StatesApart DEF Settles
<1>3. CASE comp.completions = <<>> /\ comp.commands = <<>>
  <2>1. comp' = Now
    BY <1>3 DEF FsmTick
  <2> QED BY <2>1, NowIsPhase DEF Settles
<1> QED BY <1>1, <1>2, <1>3

-----------------------------------------------------------------------------
(* The turn of the kernel: a command                                       *)

\* The kernel takes a command.
LEMMA NowOrders ==
    ASSUME Sound(comp), comp.krn # <<>>
    PROVE  LET s == [Now EXCEPT !.krn = Tail(@)]
           IN  /\ Sound(s) /\ SamePorts(s, comp) /\ s.counted = comp.counted
               /\ s.completions = comp.completions /\ s.krn = Tail(comp.krn)
               /\ Orders(s) = Orders(comp) /\ Head(comp.krn) \in Messages
<1> PICK q : q = Tail(comp.krn)
  OBVIOUS
<1> DEFINE s == [Now EXCEPT !.krn = q]
<1>1. IsComp(comp) /\ Now.krn = comp.krn
  BY NowIsSame DEF Sound
<1>2. [Now EXCEPT !.krn = Tail(@)] = s
  BY <1>1
<1>3. Sound(s) /\ Head(comp.krn) \in Messages
  BY <1>2, NowIsSound
<1>4. /\ SamePorts(s, comp) /\ s.counted = comp.counted /\ s.krn = q
      /\ s.prc = comp.prc /\ s.completions = comp.completions
  BY <1>1 DEF IsComp, Fields, Now, SamePorts, Same, SameCommand
<1> HIDE DEF s
<1>5. Orders(s) = Orders(comp)
  BY <1>4 DEF Orders
<1> QED BY <1>2, <1>3, <1>4, <1>5

\* The kernel is told once more to go to Executing.
LEMMA RepeatedOrder ==
    ASSUME NEW s, s.cur = "Executing"
    PROVE  KernelStateSet(s, "Executing") = s
<1>1. Reported(s.cur) = "Executing" /\ <<"Executing", "Executing">> \in Transitions
  BY DEF Reported, Transitions
<1> QED BY <1>1 DEF KernelStateSet

\* The kernel's part of a transition.
LEMMA KernelStateSetIs ==
    ASSUME NEW s, NEW st, <<s.cur, st>> \in Ways
    PROVE  KernelStateSet(s, st) =
            CASE s.cur = "LoadedToIdle" ->
                    IF AllPopulated(s.port) THEN CompleteTransition(s, "kernel", st) ELSE s
              [] s.cur = "IdleToLoaded" ->
                    IF AllDepopulated(s.port) THEN CompleteTransition(s, "kernel", st) ELSE s
              [] s.cur = "ExecutingToIdle" ->
                    IF AllBuffersReturned(StopAndReturn(s).port)
                    THEN CompleteTransition(StopAndReturn(s), "kernel", st)
                    ELSE StopAndReturn(s)
              [] OTHER -> CompleteTransition(s, "kernel", st)
<1>0. <<Reported(s.cur), st>> \in Transitions
  BY WaysEnd
<1>1. CASE s.cur = "LoadedToIdle"
  <2>1. st = "Idle" /\ Reported(s.cur) = "Loaded"
    BY <1>1 DEF Ways, Reported
  <2> QED BY <1>0, <1>1, <2>1 DEF KernelStateSet
<1>2. CASE s.cur = "IdleToLoaded"
  <2>1. st = "Loaded" /\ Reported(s.cur) = "Idle"
    BY <1>2 DEF Ways, Reported
  <2> QED BY <1>0, <1>2, <2>1 DEF KernelStateSet
<1>3. CASE s.cur = "ExecutingToIdle"
  <2>1. st = "Idle" /\ Reported(s.cur) = "Executing"
    BY <1>3 DEF Ways, Reported
  <2> QED BY <1>0, <1>3, <2>1 DEF KernelStateSet
<1>4. CASE s.cur = "Loaded" /\ st = "WaitForResources"
  <2>1. Reported(s.cur) = "Loaded"
    BY <1>4 DEF Reported
  <2> QED BY <1>0, <1>4, <2>1 DEF KernelStateSet
<1>5. CASE s.cur = "WaitForResources" /\ st = "Loaded"
  <2>1. Reported(s.cur) = "WaitForResources"
    BY <1>5 DEF Reported
  <2> QED BY <1>0, <1>5, <2>1 DEF KernelStateSet
<1>6. CASE s.cur = "Idle" /\ st = "Executing"
  <2>1. Reported(s.cur) = "Idle"
    BY <1>6 DEF Reported
  <2> QED BY <1>0, <1>6, <2>1 DEF KernelStateSet
<1> QED BY <1>1, <1>2, <1>3, <1>4, <1>5, <1>6 DEF Ways

\* A kernel that owes its report makes it as soon as it has what it waits for.
LEMMA OwingEnds ==
    ASSUME NEW s, Sound(s), Regular(s), Owing(s)
    PROVE  /\ Satisfied(s) =>
                LET t == CompleteTransition(s, "kernel", s.param)
                IN  Regular(t) /\ Phase(t) /\ t.krn = <<>> /\ t.cur = s.cur
           /\ ~Satisfied(s) => Phase(s) /\ s.krn = <<>>
<1>1. ASSUME Satisfied(s)
      PROVE  LET t == CompleteTransition(s, "kernel", s.param)
             IN  Regular(t) /\ Phase(t) /\ t.krn = <<>> /\ t.cur = s.cur
  <2> PICK t : t = CompleteTransition(s, "kernel", s.param)
    OBVIOUS
  <2>1. Going(t) /\ Same(t, s) /\ t.cur = s.cur /\ t.krn = <<>> /\ SameCommand(t, s)
        /\ t.failed = s.failed /\ t.cancellation = s.cancellation /\ t.counted = s.counted
    BY <1>1, KernelReports
  <2>2. Regular(t)
    BY <2>1 DEF Regular, Same
  <2> QED BY <2>1, <2>2 DEF Phase
<1>2. ASSUME ~Satisfied(s) PROVE Phase(s) /\ s.krn = <<>>
  BY <1>2, OwingIsGoing DEF Phase, Owing
<1> QED BY <1>1, <1>2

\* The kernel's part of a transition, with what it waits for or without.
LEMMA OwingStarts ==
    ASSUME NEW s, Sound(s), Regular(s), Owing(s)
    PROVE  LET t == KernelStateSet(s, s.param)
           IN  Regular(t) /\ Phase(t) /\ t.krn = <<>> /\ t.cur = s.cur
<1> PICK st : st = s.param
  OBVIOUS
<1>1. <<s.cur, st>> \in Ways
  BY DEF Owing, Underway
<1>2. CASE s.cur # "ExecutingToIdle"
  <2>1. KernelStateSet(s, st) = IF Satisfied(s) THEN CompleteTransition(s, "kernel", st) ELSE s
    <3>1. CASE s.cur = "LoadedToIdle"
      BY <1>1, <3>1, KernelStateSetIs DEF Satisfied
    <3>2. CASE s.cur = "IdleToLoaded"
      BY <1>1, <3>2, KernelStateSetIs DEF Satisfied
    <3>3. CASE s.cur \notin {"LoadedToIdle", "IdleToLoaded"}
      BY <1>1, <1>2, <3>3, KernelStateSetIs DEF Satisfied
    <3> QED BY <3>1, <3>2, <3>3
  <2> QED BY <2>1, OwingEnds
<1>3. CASE s.cur = "ExecutingToIdle"
  <2> PICK t : t = StopAndReturn(s)
    OBVIOUS
  <2>1. Shifts(t, s)
    BY StopAndReturnShifts
  <2>2. Regular(t) /\ Sound(t) /\ t.cur = s.cur /\ t.param = s.param
    BY <2>1, ShiftKeeps DEF Shifts, SameControl, SameCommand
  <2>3. NoneUndone(t)
    <3>1. \A c \in PortCommands : Undone(t, c) = Undone(s, c)
      BY <2>1, ShiftKeeps
    <3> QED BY <3>1 DEF Owing, Underway, NoneUndone
  <2>4. Owing(t)
    BY <2>1, <2>3, OwingKeeps DEF Shifts
  <2>5. KernelStateSet(s, st) = IF Satisfied(t) THEN CompleteTransition(t, "kernel", st) ELSE t
    BY <1>1, <1>3, <2>2, KernelStateSetIs DEF Satisfied
  <2> QED BY <2>2, <2>4, <2>5, OwingEnds
<1> QED BY <1>2, <1>3

\* The kernel's command is a transition, a port command, or the order repeated.
LEMMA KernelCommandKeeps ==
    ASSUME PortList # <<>>, Sound(comp), Regular(comp), Phase(comp), comp.krn # <<>>
    PROVE  LET t == KernelCommand([Now EXCEPT !.krn = Tail(@)], Head(comp.krn))
           IN  Regular(t) /\ Phase(t) /\ t.krn = <<>> /\ t.cur = comp.cur
<1> PICK s : s = [Now EXCEPT !.krn = Tail(@)]
  OBVIOUS
<1> PICK c : c = Head(comp.krn)
  OBVIOUS
<1>1. /\ Sound(s) /\ SamePorts(s, comp) /\ s.counted = comp.counted
      /\ s.completions = comp.completions /\ s.krn = Tail(comp.krn)
      /\ Orders(s) = Orders(comp) /\ c \in Messages
  BY NowOrders
<1>2. /\ s.cur = comp.cur /\ s.inProgress = comp.inProgress /\ s.param = comp.param
      /\ s.commands = comp.commands /\ s.completion = comp.completion
      /\ \A d \in PortCommands : Undone(s, d) = Undone(comp, d)
  BY <1>1 DEF SamePorts, Same, SameCommand, Undone
<1>3. Regular(s) /\ (Calm(comp) => Calm(s)) /\ (NoneUndone(comp) => NoneUndone(s))
  BY <1>1, <1>2 DEF SamePorts, Same, Regular, Calm, NoneUndone
<1>4. \A m : comp.krn = <<m>> => c = m /\ s.krn = <<>>
  BY <1>1
<1>5. CASE AtRest(comp)
  <2> PICK e : e = StateSet("Executing")
    OBVIOUS
  <2>1. s.cur = "Executing" /\ c = e /\ s.krn = <<>>
    BY <1>2, <1>4, <1>5 DEF AtRest
  <2>2. KernelCommand(s, c) = KernelStateSet(s, "Executing")
    BY <2>1 DEF KernelCommand, StateSet
  <2>3. KernelCommand(s, c) = s
    BY <2>1, <2>2, RepeatedOrder
  <2>4. AtRest(s)
    BY <1>2, <1>3, <1>5, <2>1 DEF AtRest
  <2> QED BY <1>2, <1>3, <2>1, <2>3, <2>4 DEF Phase
<1>6. CASE Accepted(comp)
  BY <1>6 DEF Accepted
<1>7. CASE Porting(comp)
  <2> PICK d : d = comp.inProgress
    OBVIOUS
  <2> PICK m : m = PortCommand(comp.inProgress, comp.param)
    OBVIOUS
  <2>1. /\ d \in PortCommands /\ comp.commands = <<>> /\ Calm(comp) /\ NoneUndone(comp)
        /\ comp.krn = <<m>>
    BY <1>7 DEF Porting, Working
  <2>2. c = m /\ s.krn = <<>> /\ c.cmd = d /\ c.param = comp.param
    BY <1>4, <2>1 DEF PortCommand
  <2>3. c.param \in Ports \cup {ALL}
    BY <1>1, <2>1, <2>2, MessageIs DEF PortCommands
  <2>4. Ordered(s, d)
    BY <1>1, <1>2, <1>3, <2>1, <2>2 DEF Ordered
  <2> PICK t : t = KernelCommand(s, c)
    OBVIOUS
  <2>5. Works(t, d, 0) /\ t.cur = s.cur
    <3>1. CASE d = "PortDisable"
      <4>1. t = DispatchPortDisable(s, c.param)
        BY <2>2, <3>1 DEF KernelCommand
      <4> QED BY <2>3, <2>4, <3>1, <4>1, DispatchPortDisableWorks
    <3>2. CASE d = "PortEnable"
      <4>1. t = DispatchPortEnable(s, c.param)
        BY <2>2, <3>2 DEF KernelCommand
      <4> QED BY <2>3, <2>4, <3>2, <4>1, DispatchPortEnableWorks
    <3>3. CASE d = "Flush"
      <4>1. t = DispatchPortFlush(s, c.param)
        BY <2>2, <3>3 DEF KernelCommand
      <4> QED BY <2>3, <2>4, <3>3, <4>1, DispatchPortFlushWorks
    <3> QED BY <2>1, <3>1, <3>2, <3>3 DEF PortCommands
  <2>6. Regular(t) /\ Phase(t) /\ t.krn = <<>>
    BY <2>1, <2>5, WorksIsPhase
  <2> QED BY <1>2, <2>5, <2>6
<1>8. CASE Going(comp)
  <2> PICK m : m = StateSet(comp.param)
    OBVIOUS
  <2>1. comp.krn = <<m>> /\ NoneUndone(comp)
    BY <1>8 DEF Going, Underway
  <2>2. c = m /\ s.krn = <<>> /\ c.cmd = "StateSet" /\ c.param = s.param
    BY <1>2, <1>4, <2>1 DEF StateSet
  <2>3. Owing(s)
    BY <1>1, <1>2, <1>3, <1>8, <2>1, <2>2, StartIsOwing DEF SameCommand
  <2>4. KernelCommand(s, c) = KernelStateSet(s, s.param)
    BY <2>2 DEF KernelCommand
  <2> QED BY <1>1, <1>2, <1>3, <2>3, <2>4, OwingStarts
<1> QED BY <1>5, <1>6, <1>7, <1>8 DEF Phase

-----------------------------------------------------------------------------
(* The turn of the kernel: a callback                                      *)

\* A header that the kernel takes from its queue is given back.
LEMMA NowReturns ==
    ASSUME Sound(comp), Regular(comp), comp.callbacks # <<>>
    PROVE  LET p == Head(comp.callbacks)
               s == [Now EXCEPT !.callbacks = Tail(@)]
               t == [s EXCEPT !.port[p].claimed = @ - 1]
           IN  /\ p \in Ports /\ p # Dummy /\ Shifts(t, comp) /\ s.cur = comp.cur
               /\ t.port[p].claimed = comp.port[p].claimed - 1
               /\ s.port = comp.port
<1> PICK p : p = Head(comp.callbacks)
  OBVIOUS
<1> PICK s : s = [Now EXCEPT !.callbacks = Tail(@)]
  OBVIOUS
<1> PICK rest : rest = Tail(comp.callbacks)
  OBVIOUS
<1> PICK r : r = [s.port[p] EXCEPT !.claimed = @ - 1]
  OBVIOUS
<1> PICK t : t = [s EXCEPT !.port[p].claimed = @ - 1]
  OBVIOUS
<1>1. Taken(s, p) /\ p \in Callbacks /\ IsComp(comp) /\ comp.callbacks \in Seq(Callbacks)
  BY NowIsTaken DEF Sound, IsComp
<1>2. p # Dummy /\ p \in Ports
  BY <1>1 DEF Regular, Callbacks, ToSet
<1>3. Sound(t) /\ t.port = [s.port EXCEPT ![p] = r]
  BY <1>1, <1>2, GivenBackIsSound
<1>4. Now.callbacks = comp.callbacks /\ IsComp(Now)
  BY NowIs, NowIsSound
<1>5. s = [Now EXCEPT !.callbacks = rest]
  BY <1>4
<1>6. /\ s.callbacks = rest /\ s.port = Now.port /\ s.completion = Now.completion
      /\ SameControl(s, Now) /\ SameCommand(s, Now) /\ s.prc = Now.prc
  BY <1>4, <1>5 DEF IsComp, Fields, SameControl, SameCommand
<1>7. /\ t.callbacks = s.callbacks /\ t.completion = s.completion
      /\ SameControl(t, s) /\ SameCommand(t, s) /\ t.prc = s.prc
  <2>1. IsComp(s) /\ t = [s EXCEPT !.port[p] = r]
    BY <1>1 DEF Taken
  <2> QED BY <2>1 DEF IsComp, Fields, SameControl, SameCommand
<1>8. /\ s.port = comp.port /\ t.callbacks = rest /\ t.completion = comp.completion
      /\ SameControl(t, comp) /\ SameCommand(t, comp) /\ t.prc = comp.prc /\ s.cur = comp.cur
  BY <1>6, <1>7, NowIsSame DEF SamePorts, Same, SameControl, SameCommand
<1>9. /\ r.enabled = comp.port[p].enabled /\ r.beingEnabled = comp.port[p].beingEnabled
      /\ r.beingDisabled = comp.port[p].beingDisabled /\ r.flushing = comp.port[p].flushing
      /\ r.bufs = comp.port[p].bufs /\ r.claimed = comp.port[p].claimed - 1
      /\ comp.port[p].claimed \in Int
  <2>1. comp.port[p] \in PortRecord
    BY <1>1, <1>2 DEF IsComp
  <2> QED BY <1>8, <2>1 DEF PortRecord
<1>10. ASSUME NEW q \in Ports PROVE Alters(t.port[q], comp.port[q], comp.cur)
  <2>1. comp.port \in [Ports -> PortRecord] /\ comp.port[q].claimed \in Nat
    BY <1>1, PortOf DEF IsComp
  <2>2. t.port[q] = IF q = p THEN r ELSE comp.port[q]
    BY <1>3, <1>8, <2>1
  <2>5. Alters(r, comp.port[p], comp.cur)
    BY <1>9 DEF Alters
  <2>3. CASE q = p
    BY <2>2, <2>3, <2>5
  <2>4. CASE q # p
    BY <2>1, <2>2, <2>4 DEF Alters
  <2> QED BY <2>3, <2>4
<1>11. Dummy \notin ToSet(t.callbacks)
  <2>1. \A i \in DOMAIN comp.callbacks : comp.callbacks[i] # Dummy
    BY DEF Regular, ToSet
  <2>2. \A i \in DOMAIN rest : i + 1 \in DOMAIN comp.callbacks /\ rest[i] = comp.callbacks[i + 1]
    BY <1>1
  <2>3. \A i \in DOMAIN rest : rest[i] # Dummy
    BY <2>1, <2>2
  <2>4. Dummy \notin ToSet(rest)
    BY <2>3 DEF ToSet
  <2> QED BY <1>8, <2>4
<1>12. Orders(t) = Orders(comp)
  BY <1>8 DEF Orders
<1>13. Shifts(t, comp)
  BY <1>3, <1>8, <1>10, <1>11, <1>12 DEF Shifts
<1>14. t.port[p] = r
  BY <1>1, <1>2, <1>3, <1>8 DEF IsComp
<1> QED BY <1>2, <1>8, <1>9, <1>13, <1>14

\* A port with a flag is one that the command in progress waits for.
LEMMA FlaggedIsWorking ==
    ASSUME NEW s, Sound(s), Regular(s), Phase(s), NEW p \in Ports, NEW c \in PortCommands,
           Flagged(s.port[p], c)
    PROVE  /\ s.inProgress = c /\ Works(s, c, 0) /\ s.krn = <<>>
           /\ s.cancellation = None /\ s.completion > 0 /\ s.cur \in Stages
<1>1. p \in Undone(s, c)
  BY DEF Undone
<1>2. ~NoneUndone(s)
  BY <1>1 DEF NoneUndone
<1>3. Porting(s)
  BY <1>2 DEF Phase, AtRest, Accepted, Going, Underway
<1>4. s.inProgress \in PortCommands /\ Working(s, s.inProgress, 0) /\ s.completion > 0
  BY <1>2, <1>3 DEF Porting
<1>5. s.inProgress = c
  BY <1>1, <1>4 DEF Working
<1> QED BY <1>4, <1>5 DEF Works, Working, Regular, Calm

\* The last header of a port that is flushed.
LEMMA FlushEnds ==
    ASSUME NEW s, Sound(s), Regular(s), Phase(s), NEW p \in Ports, s.port[p].flushing
    PROVE  LET t == CompletePortFlush(s, p)
           IN  Regular(t) /\ Phase(t) /\ t.krn = <<>> /\ t.cur = s.cur
<1> PICK t : t = CompletePortFlush(s, p)
  OBVIOUS
<1> PICK q : q = s.port[p]
  OBVIOUS
<1> PICK x : x = [q EXCEPT !.flushing = FALSE]
  OBVIOUS
<1>1. "Flush" \in PortCommands /\ Flagged(s.port[p], "Flush")
  BY DEF PortCommands, Flagged
<1>2. /\ s.inProgress = "Flush" /\ Works(s, "Flush", 0) /\ s.cancellation = None
      /\ s.completion > 0
  BY <1>1, FlaggedIsWorking
<1>3. Done(t, s, p, x) /\ Sound(t)
  BY <1>2, CompletePortFlushIs, CompletePortFlushIsSound
<1>4. About(t, s, p) /\ t.port[p] = x /\ Ticks(t, s) /\ t.cur = s.cur
  BY <1>3, DoneIsAbout DEF Done, SameControl
<1>5. q \in PortRecord
  BY PortOf
<1>6. /\ x.enabled = q.enabled /\ x.beingEnabled = q.beingEnabled
      /\ x.beingDisabled = q.beingDisabled
      /\ ~x.flushing /\ x.bufs = q.bufs /\ x.claimed = q.claimed
  BY <1>5 DEF PortRecord
<1>7. Stocked(x, s.cur)
  <2>1. Stocked(q, s.cur)
    BY DEF Regular
  <2> QED BY <1>6, <2>1 DEF Stocked
<1>8. \A d \in PortCommands : ~Flagged(x, d)
  <2>1. \A d \in PortCommands \ {"Flush"} : ~Flagged(q, d)
    BY <1>2 DEF Works, Working, Undone
  <2>2. ~q.beingEnabled /\ ~q.beingDisabled
    BY <2>1 DEF Flagged, PortCommands
  <2> QED BY <1>6, <2>2 DEF Flagged, PortCommands
<1>9. Works(t, "Flush", 0)
  BY <1>1, <1>2, <1>4, <1>7, <1>8, FinishWorks
<1> QED BY <1>1, <1>4, <1>9, WorksIsPhase

\* A claimed header of a port keeps the way from Executing to Idle open.
LEMMA ClaimedWaits ==
    ASSUME NEW s, Sound(s), Regular(s), NEW p \in Ports, s.port[p].claimed > 0
    PROVE  ~AllBuffersReturned(s.port)
<1> PICK r : r = s.port[p]
  OBVIOUS
<1>1. r \in PortRecord /\ r.claimed \in Nat /\ r.claimed <= r.bufs /\ Stocked(r, s.cur)
  BY PortOf DEF Regular
<1>2. r.bufs \in Int
  BY <1>1, PortAssumption DEF PortRecord
<1>3. r.bufs > 0 /\ r.claimed # 0
  BY <1>1, <1>2
<1>4. r.enabled
  BY <1>3, <1>1, <1>2 DEF Stocked, PortRecord
<1> QED BY <1>3, <1>4 DEF AllBuffersReturned

\* dispatch_cb outside Pause.
LEMMA KernelCallbackIs ==
    ASSUME NEW s, NEW p, p # Dummy, s.cur # "Pause"
    PROVE  LET t == [s EXCEPT !.port[p].claimed = @ - 1]
               after == IF t.port[p].flushing THEN CompletePortFlush(t, p) ELSE t
           IN  KernelCallback(s, p) =
                IF t.port[p].claimed > 0 THEN t
                ELSE IF AllBuffersReturned(t.port) /\ s.cur \in {"ExecutingToIdle", "PauseToIdle"}
                THEN CompleteTransition(after, "kernel", "Idle")
                ELSE after
<1> DEFINE t == [s EXCEPT !.port[p].claimed = @ - 1]
           after == IF t.port[p].flushing THEN CompletePortFlush(t, p) ELSE t
<1>1. KernelCallback(s, p) =
        IF (s.cur = "Pause" /\ ~s.port[p].flushing) \/ t.port[p].claimed > 0 THEN t
        ELSE IF AllBuffersReturned(t.port) /\ s.cur \in {"ExecutingToIdle", "PauseToIdle"}
        THEN CompleteTransition(after, "kernel", "Idle")
        ELSE after
  BY Zenon DEF KernelCallback
<1> HIDE DEF after, t
<1>2. (s.cur = "Pause" /\ ~s.port[p].flushing) = FALSE
  OBVIOUS
<1>3. KernelCallback(s, p) =
        IF t.port[p].claimed > 0 THEN t
        ELSE IF AllBuffersReturned(t.port) /\ s.cur \in {"ExecutingToIdle", "PauseToIdle"}
        THEN CompleteTransition(after, "kernel", "Idle")
        ELSE after
  BY <1>1, <1>2
<1> QED BY <1>3 DEF after, t

\* The kernel's turn, with a callback.
LEMMA KernelCallbackKeeps ==
    ASSUME Sound(comp), Regular(comp), Phase(comp), comp.krn = <<>>, comp.callbacks # <<>>
    PROVE  LET u == KernelCallback([Now EXCEPT !.callbacks = Tail(@)], Head(comp.callbacks))
           IN  Regular(u) /\ Phase(u) /\ u.krn = <<>> /\ u.cur = comp.cur
<1> PICK s : s = [Now EXCEPT !.callbacks = Tail(@)]
  OBVIOUS
<1> PICK p : p = Head(comp.callbacks)
  OBVIOUS
<1> PICK t : t = [s EXCEPT !.port[p].claimed = @ - 1]
  OBVIOUS
<1>1. /\ p \in Ports /\ p # Dummy /\ Shifts(t, comp) /\ s.cur = comp.cur
      /\ t.port[p].claimed = comp.port[p].claimed - 1 /\ s.port = comp.port
  BY NowReturns
<1>2. /\ Regular(t) /\ Sound(t) /\ t.cur = comp.cur /\ t.param = comp.param /\ t.krn = <<>>
      /\ \A c \in PortCommands : Undone(t, c) = Undone(comp, c)
      /\ t.port[p].claimed \in Nat /\ comp.port[p].claimed \in Nat
      /\ s.cur # "Pause"
  <2>1. Shifts(t, comp) /\ p \in Ports
    BY <1>1
  <2>2. /\ Sound(t) /\ t.cur = comp.cur /\ t.param = comp.param /\ t.krn = <<>>
    BY <2>1 DEF Shifts, SameControl, SameCommand
  <2>3. Regular(t) /\ \A c \in PortCommands : Undone(t, c) = Undone(comp, c)
    BY <2>1, ShiftKeeps
  <2>4. t.port[p].claimed \in Nat /\ comp.port[p].claimed \in Nat
    BY <2>1, <2>2, PortOf
  <2>5. s.cur # "Pause"
    BY <1>1 DEF Regular, Stages
  <2> QED BY <2>2, <2>3, <2>4, <2>5
<1> DEFINE after == IF t.port[p].flushing THEN CompletePortFlush(t, p) ELSE t
<1>3. KernelCallback(s, p) =
        IF t.port[p].claimed > 0 THEN t
        ELSE IF AllBuffersReturned(t.port) /\ s.cur \in {"ExecutingToIdle", "PauseToIdle"}
        THEN CompleteTransition(after, "kernel", "Idle")
        ELSE after
  <2>1. p # Dummy /\ s.cur # "Pause"
    BY <1>1, <1>2
  <2> QED BY <2>1, KernelCallbackIs
<1>4. CASE comp.cur # "ExecutingToIdle"
  <2>1. Phase(t)
    BY <1>1, <1>4, ShiftIsPhase
  <2>2. s.cur \notin {"ExecutingToIdle", "PauseToIdle"}
    BY <1>1, <1>4 DEF Regular, Stages
  <2>3. KernelCallback(s, p) \in {t, after}
    BY <1>3, <2>2
  <2>4. Regular(after) /\ Phase(after) /\ after.krn = <<>> /\ after.cur = t.cur
    BY <1>1, <1>2, <2>1, FlushEnds
  <2> HIDE DEF after
  <2> QED BY <1>2, <2>1, <2>3, <2>4
<1>5. CASE comp.cur = "ExecutingToIdle"
  <2>1. ~Satisfied(comp)
    <3>1. comp.port[p].claimed > 0
      BY <1>1, <1>2
    <3> QED BY <1>1, <1>5, <3>1, ClaimedWaits DEF Satisfied
  <2>2. Going(comp) /\ comp.param = "Idle" /\ NoneUndone(comp)
    <3>1. ~Calm(comp)
      BY <1>5 DEF Calm, Stages
    <3>2. Going(comp)
      BY <3>1 DEF Phase, AtRest, Accepted, Porting, Working
    <3> QED BY <1>5, <3>2 DEF Going, Underway, Ways
  <2>3. Owing(comp)
    BY <2>1, <2>2, OwingIsGoing
  <2>4. NoneUndone(t)
    BY <1>2, <2>2 DEF NoneUndone
  <2>5. Owing(t)
    BY <1>1, <2>3, <2>4, OwingKeeps DEF Shifts
  <2>6. ~t.port[p].flushing
    <3>1. ~Flagged(t.port[p], "Flush")
      BY <1>1, <2>4 DEF NoneUndone, Undone, PortCommands
    <3> QED BY <3>1 DEF Flagged
  <2>7. after = t
    BY <2>6
  <2>8. Satisfied(t) = AllBuffersReturned(t.port)
    BY <1>2, <1>5 DEF Satisfied
  <2>9. CASE t.port[p].claimed > 0
    <3>1. ~Satisfied(t)
      BY <1>1, <1>2, <2>8, <2>9, ClaimedWaits
    <3> QED BY <1>2, <1>3, <2>5, <2>9, <3>1, OwingEnds
  <2>10. CASE ~(t.port[p].claimed > 0)
    <3>1. KernelCallback(s, p) =
            IF AllBuffersReturned(t.port) THEN CompleteTransition(t, "kernel", "Idle") ELSE t
      <4> HIDE DEF after
      <4>1. s.cur \in {"ExecutingToIdle", "PauseToIdle"}
        BY <1>1, <1>5
      <4> QED BY <1>3, <2>7, <2>10, <4>1, ZenonT(30)
    <3> PICK v : v = CompleteTransition(t, "kernel", t.param)
      OBVIOUS
    <3>2. t.param = "Idle"
      BY <1>2, <2>2
    <3>3. CASE Satisfied(t)
      <4>1. Regular(v) /\ Phase(v) /\ v.krn = <<>> /\ v.cur = t.cur
        BY <1>2, <2>5, <3>3, OwingEnds
      <4>2. KernelCallback(s, p) = CompleteTransition(t, "kernel", "Idle")
        BY <2>8, <3>1, <3>3
      <4>3. KernelCallback(s, p) = v
        BY <3>2, <4>2, Zenon
      <4> QED BY <1>2, <4>1, <4>3
    <3>4. CASE ~Satisfied(t)
      <4>1. Phase(t)
        BY <1>2, <2>5, <3>4, OwingEnds
      <4>2. KernelCallback(s, p) = t
        BY <2>8, <3>1, <3>4
      <4> QED BY <1>2, <4>1, <4>2
    <3> QED BY <3>3, <3>4
  <2> QED BY <2>9, <2>10
<1> QED BY <1>4, <1>5

\* The kernel's turn.
LEMMA KernelTickKeeps ==
    ASSUME PortList # <<>>, Sound(comp), Regular(comp), Phase(comp), KernelTick
    PROVE  Regular(comp') /\ Phase(comp') /\ comp'.krn = <<>> /\ comp'.cur = comp.cur
<1>1. CASE comp.krn # <<>>
  BY <1>1, KernelCommandKeeps DEF KernelTick
<1>2. CASE comp.krn = <<>> /\ comp.callbacks # <<>>
  BY <1>2, KernelCallbackKeeps DEF KernelTick
<1>3. CASE comp.krn = <<>> /\ comp.callbacks = <<>>
  <2>1. comp' = Now
    BY <1>3 DEF KernelTick
  <2> QED BY <1>3, <2>1, NowIsPhase
<1> QED BY <1>1, <1>2, <1>3

-----------------------------------------------------------------------------
(* The turn of the client: buffers and the processor's own events          *)

\* The client adds a header to a port or takes one away.
LEMMA PortChanged ==
    ASSUME NEW s, Sound(s), Regular(s), NEW p \in Ports, NEW r \in PortRecord,
           r.claimed = s.port[p].claimed, r.claimed <= r.bufs
    PROVE  LET t == [s EXCEPT !.port[p] = r]
           IN  /\ About(t, s, p) /\ SameCommand(t, s) /\ t.completion = s.completion
               /\ t.port = [s.port EXCEPT ![p] = r] /\ t.port[p] = r
               /\ t.cur = s.cur /\ t.krn = s.krn /\ t.callbacks = s.callbacks
<1> DEFINE t == [s EXCEPT !.port[p] = r]
<1>1. Sound(t)
  BY PortChangeIsSound
<1>2. IsComp(s)
  BY DEF Sound
<1>3. /\ t.port = [s.port EXCEPT ![p] = r] /\ t.port[p] = r
      /\ \A q \in Ports \ {p} : t.port[q] = s.port[q]
      /\ SameControl(t, s) /\ SameCommand(t, s) /\ t.prc = s.prc
      /\ t.completion = s.completion
      /\ t.callbacks = s.callbacks /\ t.held = s.held
  BY <1>2, PortSet
<1> HIDE DEF t
<1>4. \A q \in Ports \ {p} : Lowered(t.port[q], s.port[q])
  <2>1. \A q \in Ports : s.port[q].claimed \in Nat
    BY PortOf
  <2> QED BY <1>3, <2>1 DEF Lowered
<1>5. Orders(t) = Orders(s) /\ Dummy \notin ToSet(t.callbacks)
  BY <1>3 DEF Orders, Regular
<1>6. About(t, s, p)
  BY <1>1, <1>3, <1>4, <1>5 DEF About
<1> QED BY <1>3, <1>6 DEF SameControl, t

\* A port changes while the kernel has still to report the end of a transition.
LEMMA ChangedOwing ==
    ASSUME NEW s, NEW t, Sound(s), Regular(s), Owing(s), NEW p \in Ports, About(t, s, p),
           SameCommand(t, s), Stocked(t.port[p], s.cur),
           \A d \in PortCommands : ~Flagged(t.port[p], d)
    PROVE  Sound(t) /\ Regular(t) /\ Owing(t)
<1>1. Sound(t) /\ SameControl(t, s) /\ Orders(t) = Orders(s)
  BY DEF About
<1>2. \A q \in Ports : /\ Stocked(t.port[q], s.cur)
                       /\ \A d \in PortCommands : ~Flagged(t.port[q], d)
  <2> TAKE q \in Ports
  <2>1. CASE q = p
    BY <2>1
  <2>2. CASE q # p
    <3>1. Lowered(t.port[q], s.port[q]) /\ Stocked(s.port[q], s.cur)
      BY <2>2 DEF About, Regular
    <3>2. \A d \in PortCommands : ~Flagged(s.port[q], d)
      BY DEF Owing, Underway, NoneUndone, Undone
    <3>3. t.port[q].claimed \in Nat
      BY <1>1, PortOf
    <3> QED BY <3>1, <3>2, <3>3, LoweredKeeps
  <2> QED BY <2>1, <2>2
<1>3. NoneUndone(t)
  BY <1>2 DEF NoneUndone, Undone
<1>4. Regular(t)
  BY <1>1, <1>2 DEF Regular, About, SameControl
<1>5. Owing(t)
  BY <1>1, <1>3, OwingKeeps
<1> QED BY <1>1, <1>4, <1>5

\* The last header of a port finishes a port command for that port.
LEMMA ChangedFinishes ==
    ASSUME NEW s, NEW c \in PortCommands, Works(s, c, 0), NEW p \in Ports,
           Flagged(s.port[p], c), NEW t, About(t, s, p), SameCommand(t, s),
           t.completion = s.completion, NEW v, NEW x, Done(v, t, p, x), Sound(v),
           Stocked(x, s.cur), \A d \in PortCommands : ~Flagged(x, d)
    PROVE  Works(v, c, 0) /\ v.cur = s.cur
<1>1. /\ SameControl(v, s) /\ Orders(v) = Orders(s) /\ Ticks(v, s)
      /\ v.callbacks = t.callbacks
  BY DEF Done, About, SameControl, SameCommand, Ticks
<1>2. v.port[p] = x /\ \A q \in Ports \ {p} : v.port[q] = t.port[q]
  <2>1. v.port = [t.port EXCEPT ![p] = x] /\ t.port \in [Ports -> PortRecord]
    BY DEF Done, About, Sound, IsComp
  <2> QED BY <2>1
<1>3. About(v, s, p)
  <2>1. \A q \in Ports \ {p} : Lowered(v.port[q], s.port[q])
    BY <1>2 DEF About
  <2>2. Dummy \notin ToSet(v.callbacks)
    BY <1>1 DEF About
  <2> QED BY <1>1, <2>1, <2>2 DEF About
<1>4. Works(v, c, 0)
  BY <1>1, <1>2, <1>3, FinishWorks
<1> QED BY <1>1, <1>4 DEF SameControl

\* One of several headers of a port that a port command waits for.
LEMMA ChangedWaits ==
    ASSUME NEW s, NEW c \in PortCommands, Works(s, c, 0), NEW p \in Ports,
           Flagged(s.port[p], c), NEW t, About(t, s, p), SameCommand(t, s),
           t.completion = s.completion, NEW x, t.port[p] = x, Stocked(x, s.cur),
           Flagged(x, c), \A d \in PortCommands \ {c} : ~Flagged(x, d)
    PROVE  Works(t, c, 0)
BY WaitWorks DEF SameCommand

\* The kernel has something to report in the two transitions that wait for headers.
LEMMA WaitingIsOwing ==
    ASSUME NEW s, Sound(s), Regular(s), Phase(s), s.krn = <<>>, s.cur \notin Stages,
           ~Satisfied(s)
    PROVE  Owing(s) /\ NoneUndone(s) /\ <<s.cur, s.param>> \in Ways
<1>1. ~Calm(s)
  BY DEF Calm
<1>2. Going(s)
  BY <1>1 DEF Phase, AtRest, Accepted, Porting, Working
<1>3. Owing(s)
  BY <1>2, OwingIsGoing
<1> QED BY <1>2, <1>3 DEF Going, Underway

\* krn_UseBuffer in the transition from Loaded to Idle.
LEMMA RegisterBufferIs ==
    ASSUME NEW s, NEW p
    PROVE  LET t == [s EXCEPT !.port[p] = RegisterHeader(s.port[p])]
           IN  /\ ~s.port[p].beingEnabled /\ s.cur = "LoadedToIdle" =>
                    RegisterBuffer(s, p) = IF AllPopulated(t.port)
                                           THEN CompleteTransition(t, "kernel", "Idle") ELSE t
               /\ s.port[p].beingEnabled /\ s.cur # "LoadedToIdle" =>
                    RegisterBuffer(s, p) = IF Populated(t.port, p)
                                           THEN CompletePortEnable(t, p) ELSE t
<1> DEFINE t == [s EXCEPT !.port[p] = RegisterHeader(s.port[p])]
           u == IF s.port[p].beingEnabled /\ Populated(t.port, p)
                THEN CompletePortEnable(t, p) ELSE t
<1>1. RegisterBuffer(s, p) =
        IF AllPopulated(u.port) /\ s.cur = "LoadedToIdle"
        THEN CompleteTransition(u, "kernel", "Idle") ELSE u
  <2>1. [s EXCEPT !.port[p] = RegisterHeader(@)] = t
    BY Zenon
  <2> QED BY <2>1, Zenon DEF RegisterBuffer
<1>2. ~s.port[p].beingEnabled => u = t
  OBVIOUS
<1>3. s.port[p].beingEnabled => u = IF Populated(t.port, p) THEN CompletePortEnable(t, p) ELSE t
  OBVIOUS
<1> HIDE DEF t, u
<1>4. ASSUME ~s.port[p].beingEnabled, s.cur = "LoadedToIdle"
      PROVE  RegisterBuffer(s, p) = IF AllPopulated(t.port)
                                    THEN CompleteTransition(t, "kernel", "Idle") ELSE t
  <2>1. u = t
    BY <1>2, <1>4
  <2>2. CASE AllPopulated(t.port)
    BY <1>1, <1>4, <2>1, <2>2
  <2>3. CASE ~AllPopulated(t.port)
    BY <1>1, <1>4, <2>1, <2>3
  <2> QED BY <2>2, <2>3
<1>5. ASSUME s.port[p].beingEnabled, s.cur # "LoadedToIdle"
      PROVE  RegisterBuffer(s, p) = IF Populated(t.port, p)
                                    THEN CompletePortEnable(t, p) ELSE t
  BY <1>1, <1>3, <1>5
<1> QED BY <1>4, <1>5 DEF t

\* A buffer for a port in the transition from Loaded to Idle.
LEMMA RegisterInTransit ==
    ASSUME NEW s, Sound(s), Regular(s), Phase(s), s.krn = <<>>, s.cur = "LoadedToIdle",
           NEW p \in Ports, s.port[p].enabled, s.port[p].bufs < NBufs
    PROVE  LET t == RegisterBuffer(s, p)
           IN  Regular(t) /\ Phase(t) /\ t.krn = <<>> /\ t.cur = s.cur
<1> DEFINE q == s.port[p]
           r == RegisterHeader(q)
           t == [s EXCEPT !.port[p] = r]
<1>0. q = s.port[p] /\ q.enabled /\ q.bufs < NBufs
  OBVIOUS
<1>a. ~q.beingEnabled =>
          RegisterBuffer(s, p) = IF AllPopulated(t.port)
                                 THEN CompleteTransition(t, "kernel", "Idle") ELSE t
  BY RegisterBufferIs
<1> HIDE DEF r, t, q
<1>1. q \in PortRecord /\ q.claimed \in Nat /\ q.claimed <= q.bufs /\ Stocked(q, s.cur)
  BY PortOf DEF Regular, q
<1>2. ~Satisfied(s)
  <2>1. q.bufs # NBufs
    BY <1>0, <1>1, PortAssumption DEF PortRecord
  <2> QED BY <2>1 DEF Satisfied, AllPopulated, Populated, q
<1>3. Owing(s) /\ NoneUndone(s) /\ s.param = "Idle"
  BY <1>2, WaitingIsOwing DEF Stages, Ways
<1>4. ~q.beingEnabled /\ ~q.beingDisabled /\ ~q.flushing
  BY <1>3 DEF NoneUndone, Undone, Flagged, PortCommands, q
<1>5. r \in PortRecord /\ r.claimed = q.claimed /\ r.claimed <= r.bufs
  BY <1>0, <1>1, HeadersOfPort DEF r
<1>6. /\ ~r.beingEnabled /\ ~r.beingDisabled /\ ~r.flushing /\ r.enabled
  BY <1>0, <1>1, <1>4 DEF RegisterHeader, SetEnabled, PortRecord, r
<1>7. Stocked(r, s.cur) /\ \A d \in PortCommands : ~Flagged(r, d)
  <2>1. r.claimed = 0
    BY <1>1, <1>5 DEF Stocked
  <2> QED BY <1>6, <2>1 DEF Stocked, Flagged, PortCommands
<1>8. /\ About(t, s, p) /\ SameCommand(t, s) /\ t.port[p] = r /\ t.cur = s.cur /\ t.krn = s.krn
  BY <1>0, <1>5, PortChanged DEF t
<1>9. Sound(t) /\ Regular(t) /\ Owing(t)
  BY <1>3, <1>7, <1>8, ChangedOwing
<1>10. RegisterBuffer(s, p) = IF AllPopulated(t.port)
                              THEN CompleteTransition(t, "kernel", "Idle") ELSE t
  BY <1>4, <1>a
<1>11. Satisfied(t) = AllPopulated(t.port)
  BY <1>8 DEF Satisfied
<1>12. t.param = "Idle"
  BY <1>3, <1>8 DEF SameCommand
<1> PICK v : v = CompleteTransition(t, "kernel", t.param)
  OBVIOUS
<1>13. CASE Satisfied(t)
  <2>1. Regular(v) /\ Phase(v) /\ v.krn = <<>> /\ v.cur = t.cur
    BY <1>9, <1>13, OwingEnds
  <2>2. RegisterBuffer(s, p) = CompleteTransition(t, "kernel", "Idle")
    BY <1>10, <1>11, <1>13
  <2>3. RegisterBuffer(s, p) = v
    BY <1>12, <2>2, Zenon
  <2> QED BY <1>8, <2>1, <2>3
<1>14. CASE ~Satisfied(t)
  <2>1. Phase(t)
    BY <1>9, <1>14, OwingEnds
  <2>2. RegisterBuffer(s, p) = t
    BY <1>10, <1>11, <1>14
  <2> QED BY <1>8, <1>9, <2>1, <2>2
<1> QED BY <1>13, <1>14

\* A buffer for a port that is being enabled.
LEMMA RegisterToEnable ==
    ASSUME NEW s, Sound(s), Regular(s), Phase(s),
           NEW p \in Ports, s.port[p].beingEnabled, s.port[p].bufs < NBufs
    PROVE  LET t == RegisterBuffer(s, p)
           IN  Regular(t) /\ Phase(t) /\ t.krn = <<>> /\ t.cur = s.cur
<1> DEFINE q == s.port[p]
           r == RegisterHeader(q)
           t == [s EXCEPT !.port[p] = r]
<1>0. q = s.port[p] /\ q.beingEnabled /\ q.bufs < NBufs
  OBVIOUS
<1>a. s.cur # "LoadedToIdle" =>
          RegisterBuffer(s, p) = IF Populated(t.port, p) THEN CompletePortEnable(t, p) ELSE t
  BY RegisterBufferIs
<1> HIDE DEF r, t, q
<1> DEFINE v == CompletePortEnable(t, p)
<1> HIDE DEF v
<1>1. q \in PortRecord /\ q.claimed \in Nat /\ q.claimed <= q.bufs /\ Stocked(q, s.cur)
  BY PortOf DEF Regular, q
<1>2. "PortEnable" \in PortCommands /\ Flagged(q, "PortEnable")
  BY DEF PortCommands, Flagged, q
<1>3. /\ s.inProgress = "PortEnable" /\ Works(s, "PortEnable", 0) /\ s.krn = <<>>
      /\ s.cancellation = None /\ s.completion > 0 /\ s.cur \in Stages
  BY <1>2, FlaggedIsWorking DEF q
<1>4. ~q.beingDisabled /\ ~q.flushing
  <2>1. \A d \in PortCommands \ {"PortEnable"} : ~Flagged(q, d)
    BY <1>3 DEF Works, Working, Undone, q
  <2> QED BY <2>1 DEF Flagged, PortCommands
<1>5. r \in PortRecord /\ r.claimed = q.claimed /\ r.claimed <= r.bufs
  BY <1>0, <1>1, HeadersOfPort DEF r
<1>6. /\ ~r.beingDisabled /\ ~r.flushing /\ r.enabled
      /\ IF q.bufs + 1 = NBufs THEN r.bufs = NBufs /\ ~r.beingEnabled
         ELSE r.bufs = q.bufs + 1 /\ r.beingEnabled
  BY <1>0, <1>1, <1>4 DEF RegisterHeader, SetEnabled, PortRecord, r, Stocked
<1>7. q.bufs \in Nat /\ NBufs \in Nat
  BY <1>1, PortAssumption DEF PortRecord
<1>8. s.cur \notin {"Loaded", "WaitForResources"} /\ (s.cur # "Executing" => r.claimed = 0)
  BY <1>0, <1>1, <1>3, <1>5 DEF Stocked, Stages
<1>9. /\ About(t, s, p) /\ SameCommand(t, s) /\ t.port[p] = r /\ t.cur = s.cur /\ t.krn = s.krn
      /\ t.completion = s.completion
  BY <1>0, <1>5, PortChanged DEF t
<1>10. RegisterBuffer(s, p) = IF Populated(t.port, p) THEN v ELSE t
  <2>1. s.cur # "LoadedToIdle"
    BY <1>3 DEF Stages
  <2> QED BY <1>a, <2>1 DEF v
<1>11. CASE q.bufs + 1 = NBufs
  <2> DEFINE x == SetEnabled(r)
  <2>1. x.enabled /\ ~x.beingEnabled /\ ~x.beingDisabled /\ ~x.flushing /\ x.bufs = NBufs
        /\ x.claimed = r.claimed
    BY <1>5, <1>6, <1>11 DEF SetEnabled, PortRecord
  <2> HIDE DEF x
  <2>2. Stocked(x, s.cur) /\ \A d \in PortCommands : ~Flagged(x, d)
    <3>1. s.cur # "ExecutingToIdle"
      BY <1>3 DEF Stages
    <3> QED BY <1>8, <2>1, <3>1 DEF Stocked, Flagged, PortCommands
  <2>3. Sound(t) /\ t.inProgress = "PortEnable" /\ t.cancellation = None /\ t.completion > 0
    BY <1>3, <1>9 DEF About, SameControl, SameCommand
  <2>4. Done(v, t, p, x) /\ Sound(v)
    <3>1. Done(v, t, p, SetEnabled(t.port[p]))
      BY <2>3, CompletePortEnableIs DEF v
    <3>2. Sound(v)
      BY <2>3, CompletePortEnableIsSound DEF v
    <3> QED BY <1>9, <3>1, <3>2 DEF x
  <2>5. Works(v, "PortEnable", 0) /\ v.cur = s.cur
    BY <1>0, <1>2, <1>3, <1>9, <2>2, <2>4, ChangedFinishes
  <2>6. RegisterBuffer(s, p) = v
    BY <1>6, <1>9, <1>10, <1>11 DEF Populated
  <2> QED BY <1>2, <2>5, <2>6, WorksIsPhase
<1>12. CASE q.bufs + 1 # NBufs
  <2>1. Stocked(r, s.cur) /\ Flagged(r, "PortEnable")
        /\ \A d \in PortCommands \ {"PortEnable"} : ~Flagged(r, d)
    <3>1. r.bufs < NBufs
      BY <1>0, <1>6, <1>7, <1>12
    <3>2. s.cur # "ExecutingToIdle"
      BY <1>3 DEF Stages
    <3> QED BY <1>6, <1>8, <1>12, <3>1, <3>2 DEF Stocked, Flagged, PortCommands
  <2>2. Works(t, "PortEnable", 0)
    BY <1>0, <1>2, <1>3, <1>9, <2>1, ChangedWaits
  <2>3. RegisterBuffer(s, p) = t
    BY <1>6, <1>7, <1>9, <1>10, <1>12 DEF Populated
  <2> QED BY <1>2, <1>9, <2>2, <2>3, WorksIsPhase
<1> QED BY <1>11, <1>12

\* A buffer call of the client.
LEMMA UseBufferKeeps ==
    ASSUME Sound(comp), Regular(comp), Phase(comp), comp.krn = <<>>, NEW p \in Ports, UseBuffer(p)
    PROVE  Regular(comp') /\ Phase(comp') /\ comp'.krn = <<>> /\ comp'.cur = comp.cur
<1> PICK s : s = Now
  OBVIOUS
<1>1. Sound(s) /\ Regular(s) /\ Phase(s) /\ s.krn = <<>> /\ s.cur = comp.cur
      /\ s.port = comp.port
  <2>1. Sound(s) /\ s.port = comp.port
    BY NowShifts DEF Shifts
  <2> QED BY <2>1, NowIsPhase
<1>2. /\ s.port[p].bufs < NBufs
      /\ (s.cur = "LoadedToIdle" /\ s.port[p].enabled) \/ s.port[p].beingEnabled
      /\ comp' = RegisterBuffer(s, p)
  BY <1>1 DEF UseBuffer, Call
<1> QED BY <1>1, <1>2, RegisterInTransit, RegisterToEnable

\* krn_FreeBuffer, in the transition to Loaded and outside it.
LEMMA FreeBufferIs ==
    ASSUME NEW s, NEW p
    PROVE  LET t == [s EXCEPT !.port[p] = UnregisterHeader(s.port[p])]
               u == IF t.port[p].bufs = 0 THEN CompletePortDisable(t, p) ELSE t
           IN  /\ ~s.port[p].beingDisabled => FreeBuffer(s, p) = CompleteOngoingTransitions(t)
               /\ s.port[p].beingDisabled => FreeBuffer(s, p) = CompleteOngoingTransitions(u)
<1> DEFINE t == [s EXCEPT !.port[p] = UnregisterHeader(s.port[p])]
           u == IF t.port[p].bufs = 0 THEN CompletePortDisable(t, p) ELSE t
           w == IF s.port[p].beingDisabled /\ t.port[p].bufs = 0
                THEN CompletePortDisable(t, p) ELSE t
<1>1. FreeBuffer(s, p) = CompleteOngoingTransitions(w)
  <2>1. [s EXCEPT !.port[p] = UnregisterHeader(@)] = t
    BY Zenon
  <2> QED BY <2>1, Zenon DEF FreeBuffer
<1>2. (~s.port[p].beingDisabled => w = t) /\ (s.port[p].beingDisabled => w = u)
  OBVIOUS
<1> HIDE DEF t, u, w
<1>3. /\ ~s.port[p].beingDisabled => FreeBuffer(s, p) = CompleteOngoingTransitions(t)
      /\ s.port[p].beingDisabled => FreeBuffer(s, p) = CompleteOngoingTransitions(u)
  BY <1>1, <1>2
<1> QED BY <1>3 DEF t, u

\* The end of the transition to Loaded is reported by the kernel when no header is left.
LEMMA DepopulatedEnds ==
    ASSUME NEW s, s.cur = "IdleToLoaded"
    PROVE  CompleteOngoingTransitions(s) =
                IF AllDepopulated(s.port) THEN CompleteTransition(s, "kernel", "Loaded") ELSE s
<1>1. CASE AllDepopulated(s.port)
  BY <1>1 DEF CompleteOngoingTransitions
<1>2. CASE ~AllDepopulated(s.port)
  BY <1>2 DEF CompleteOngoingTransitions
<1> QED BY <1>1, <1>2

\* A header leaves a port in the transition from Idle to Loaded.
LEMMA FreeInTransit ==
    ASSUME NEW s, Sound(s), Regular(s), Phase(s), s.krn = <<>>, s.cur = "IdleToLoaded",
           NEW p \in Ports, s.port[p].claimed < s.port[p].bufs
    PROVE  LET t == FreeBuffer(s, p)
           IN  Regular(t) /\ Phase(t) /\ t.krn = <<>> /\ t.cur = s.cur
<1> DEFINE q == s.port[p]
           r == UnregisterHeader(q)
           t == [s EXCEPT !.port[p] = r]
<1>0. q = s.port[p] /\ q.claimed < q.bufs
  OBVIOUS
<1>a. ~q.beingDisabled => FreeBuffer(s, p) = CompleteOngoingTransitions(t)
  BY FreeBufferIs
<1> HIDE DEF r, t, q
<1>1. q \in PortRecord /\ q.claimed \in Nat /\ q.claimed <= q.bufs /\ Stocked(q, s.cur)
  BY PortOf DEF Regular, q
<1>2. ~Satisfied(s)
  <2>1. q.bufs # 0
    BY <1>0, <1>1, PortAssumption DEF PortRecord
  <2> QED BY <2>1 DEF Satisfied, AllDepopulated, q
<1>3. Owing(s) /\ NoneUndone(s) /\ s.param = "Loaded"
  BY <1>2, WaitingIsOwing DEF Stages, Ways
<1>4. ~q.beingEnabled /\ ~q.beingDisabled /\ ~q.flushing
  BY <1>3 DEF NoneUndone, Undone, Flagged, PortCommands, q
<1>5. r \in PortRecord /\ r.claimed = q.claimed /\ r.claimed <= r.bufs
  BY <1>0, <1>1, HeadersOfPort DEF r
<1>6. /\ ~r.beingEnabled /\ ~r.beingDisabled /\ ~r.flushing /\ r.enabled = q.enabled
  BY <1>0, <1>1, <1>4 DEF UnregisterHeader, PortRecord, r
<1>7. Stocked(r, s.cur) /\ \A d \in PortCommands : ~Flagged(r, d)
  <2>1. r.claimed = 0 /\ q.enabled
    BY <1>0, <1>1, <1>5 DEF Stocked, PortRecord
  <2> QED BY <1>6, <2>1 DEF Stocked, Flagged, PortCommands
<1>8. /\ About(t, s, p) /\ SameCommand(t, s) /\ t.port[p] = r /\ t.cur = s.cur /\ t.krn = s.krn
  BY <1>0, <1>5, PortChanged DEF t
<1>9. Sound(t) /\ Regular(t) /\ Owing(t)
  BY <1>3, <1>7, <1>8, ChangedOwing
<1>10. FreeBuffer(s, p) = IF AllDepopulated(t.port)
                          THEN CompleteTransition(t, "kernel", "Loaded") ELSE t
  <2>1. t.cur = "IdleToLoaded"
    BY <1>8
  <2> QED BY <1>4, <1>a, <2>1, DepopulatedEnds
<1>11. Satisfied(t) = AllDepopulated(t.port)
  BY <1>8 DEF Satisfied
<1>12. t.param = "Loaded"
  BY <1>3, <1>8 DEF SameCommand
<1> PICK v : v = CompleteTransition(t, "kernel", t.param)
  OBVIOUS
<1>13. CASE Satisfied(t)
  <2>1. Regular(v) /\ Phase(v) /\ v.krn = <<>> /\ v.cur = t.cur
    BY <1>9, <1>13, OwingEnds
  <2>2. FreeBuffer(s, p) = CompleteTransition(t, "kernel", "Loaded")
    BY <1>10, <1>11, <1>13
  <2>3. FreeBuffer(s, p) = v
    BY <1>12, <2>2, Zenon
  <2> QED BY <1>8, <2>1, <2>3
<1>14. CASE ~Satisfied(t)
  <2>1. Phase(t)
    BY <1>9, <1>14, OwingEnds
  <2>2. FreeBuffer(s, p) = t
    BY <1>10, <1>11, <1>14
  <2> QED BY <1>8, <1>9, <2>1, <2>2
<1> QED BY <1>13, <1>14

\* A header leaves a port that is being disabled.
LEMMA FreeToDisable ==
    ASSUME NEW s, Sound(s), Regular(s), Phase(s),
           NEW p \in Ports, s.port[p].beingDisabled, s.port[p].claimed < s.port[p].bufs
    PROVE  LET t == FreeBuffer(s, p)
           IN  Regular(t) /\ Phase(t) /\ t.krn = <<>> /\ t.cur = s.cur
<1> DEFINE q == s.port[p]
           r == UnregisterHeader(q)
           t == [s EXCEPT !.port[p] = r]
           v == CompletePortDisable(t, p)
<1>0. q = s.port[p] /\ q.beingDisabled /\ q.claimed < q.bufs
  OBVIOUS
<1>a. FreeBuffer(s, p) = CompleteOngoingTransitions(IF t.port[p].bufs = 0 THEN v ELSE t)
  BY FreeBufferIs
<1> HIDE DEF r, t, q, v
<1>1. q \in PortRecord /\ q.claimed \in Nat /\ q.claimed <= q.bufs /\ Stocked(q, s.cur)
  BY PortOf DEF Regular, q
<1>2. "PortDisable" \in PortCommands /\ Flagged(q, "PortDisable")
  BY <1>0 DEF PortCommands, Flagged
<1>3. /\ s.inProgress = "PortDisable" /\ Works(s, "PortDisable", 0) /\ s.krn = <<>>
      /\ s.cancellation = None /\ s.completion > 0 /\ s.cur \in Stages
  BY <1>2, FlaggedIsWorking DEF q
<1>4. ~q.beingEnabled /\ ~q.flushing
  <2>1. \A d \in PortCommands \ {"PortDisable"} : ~Flagged(q, d)
    BY <1>3 DEF Works, Working, Undone, q
  <2> QED BY <2>1 DEF Flagged, PortCommands
<1>5. r \in PortRecord /\ r.claimed = q.claimed /\ r.claimed <= r.bufs
  BY <1>0, <1>1, HeadersOfPort DEF r
<1>6. /\ ~r.beingEnabled /\ ~r.flushing
      /\ IF q.bufs = 1 THEN r.bufs = 0 /\ ~r.beingDisabled /\ ~r.enabled
         ELSE r.bufs = q.bufs - 1 /\ r.beingDisabled /\ r.enabled
  <2>1. q.enabled
    BY <1>0, <1>1 DEF Stocked
  <2> QED BY <1>0, <1>1, <1>4, <2>1 DEF UnregisterHeader, SetDisabled, PortRecord, r
<1>7. q.bufs \in Nat /\ q.bufs > 0
  BY <1>0, <1>1, PortAssumption DEF PortRecord
<1>8. s.cur \notin {"Loaded", "WaitForResources"} /\ (s.cur # "Executing" => r.claimed = 0)
  BY <1>0, <1>1, <1>3, <1>5, <1>7 DEF Stocked, Stages
<1>9. /\ About(t, s, p) /\ SameCommand(t, s) /\ t.port[p] = r /\ t.cur = s.cur /\ t.krn = s.krn
      /\ t.completion = s.completion
  BY <1>0, <1>5, PortChanged DEF t
<1>10. s.cur # "ExecutingToIdle"
  BY <1>3 DEF Stages
<1>11. CASE q.bufs = 1
  <2> DEFINE x == SetDisabled(r)
  <2>1. ~x.enabled /\ ~x.beingEnabled /\ ~x.beingDisabled /\ ~x.flushing /\ x.bufs = 0
        /\ x.claimed = r.claimed
    BY <1>5, <1>6, <1>11 DEF SetDisabled, PortRecord
  <2> HIDE DEF x
  <2>2. Stocked(x, s.cur) /\ \A d \in PortCommands : ~Flagged(x, d)
    BY <1>8, <1>10, <2>1 DEF Stocked, Flagged, PortCommands
  <2>3. Sound(t) /\ t.inProgress = "PortDisable" /\ t.cancellation = None /\ t.completion > 0
    BY <1>3, <1>9 DEF About, SameControl, SameCommand
  <2>4. Done(v, t, p, x) /\ Sound(v)
    <3>1. Done(v, t, p, SetDisabled(t.port[p]))
      BY <2>3, CompletePortDisableIs DEF v
    <3>2. Sound(v)
      BY <2>3, CompletePortDisableIsSound DEF v
    <3> QED BY <1>9, <3>1, <3>2 DEF x
  <2>5. Works(v, "PortDisable", 0) /\ v.cur = s.cur
    BY <1>0, <1>2, <1>3, <1>9, <2>2, <2>4, ChangedFinishes
  <2>6. FreeBuffer(s, p) = v
    <3>1. FreeBuffer(s, p) = CompleteOngoingTransitions(v)
      BY <1>6, <1>9, <1>a, <1>11
    <3> QED BY <1>3, <2>5, <3>1, NothingOngoing
  <2> QED BY <1>2, <2>5, <2>6, WorksIsPhase
<1>12. CASE q.bufs # 1
  <2>1. r.bufs > 0
    BY <1>6, <1>7, <1>12
  <2>2. Stocked(r, s.cur) /\ Flagged(r, "PortDisable")
        /\ \A d \in PortCommands \ {"PortDisable"} : ~Flagged(r, d)
    BY <1>6, <1>8, <1>10, <1>12, <2>1 DEF Stocked, Flagged, PortCommands
  <2>3. Works(t, "PortDisable", 0)
    BY <1>0, <1>2, <1>3, <1>9, <2>2, ChangedWaits
  <2>4. FreeBuffer(s, p) = t
    <3>1. t.port[p].bufs # 0
      BY <1>9, <2>1
    <3>2. FreeBuffer(s, p) = CompleteOngoingTransitions(t)
      BY <1>a, <3>1
    <3> QED BY <1>3, <1>9, <3>2, NothingOngoing
  <2> QED BY <1>2, <1>9, <2>3, <2>4, WorksIsPhase
<1> QED BY <1>11, <1>12

\* The client frees a header.
LEMMA FreeHeaderKeeps ==
    ASSUME Sound(comp), Regular(comp), Phase(comp), comp.krn = <<>>, NEW p \in Ports,
           FreeHeader(p)
    PROVE  Regular(comp') /\ Phase(comp') /\ comp'.krn = <<>> /\ comp'.cur = comp.cur
<1> PICK s : s = Now
  OBVIOUS
<1>1. Sound(s) /\ Regular(s) /\ Phase(s) /\ s.krn = <<>> /\ s.cur = comp.cur
      /\ s.port = comp.port
  <2>1. Sound(s) /\ s.port = comp.port
    BY NowShifts DEF Shifts
  <2> QED BY <2>1, NowIsPhase
<1>2. /\ s.port[p].claimed < s.port[p].bufs
      /\ s.cur = "IdleToLoaded" \/ s.port[p].beingDisabled
      /\ comp' = FreeBuffer(s, p)
  BY <1>1 DEF FreeHeader, Call
<1> QED BY <1>1, <1>2, FreeInTransit, FreeToDisable

\* The processor claims a header or gives one back.
LEMMA ProcessorEventKeeps ==
    ASSUME Sound(comp), Regular(comp), Phase(comp), NEW p \in Ports, ProcessorEvent(p)
    PROVE  Regular(comp') /\ Phase(comp') /\ comp'.krn = comp.krn /\ comp'.cur = comp.cur
<1> PICK s : s = Now
  OBVIOUS
<1> PICK t : t = comp'
  OBVIOUS
<1>0. /\ Sound(s) /\ IsComp(s) /\ Regular(s) /\ Phase(s) /\ s.krn = comp.krn /\ s.cur = comp.cur
      /\ s.port = comp.port /\ s.held = comp.held
  <2>1. Sound(s) /\ IsComp(s) /\ s.port = comp.port /\ s.held = comp.held
    BY NowIsSound, NowIs
  <2> QED BY <2>1, NowIsPhase
<1>1. Sound(t)
  BY ProcessorEventIsSound
<1>2. s.port \in [Ports -> PortRecord] /\ s.callbacks \in Seq(Callbacks) /\ p \in Callbacks
      /\ p # Dummy
  BY <1>0, KernelAssumption DEF IsComp, Callbacks
<1>3. \/ /\ s.cur = "Executing"
         /\ t = [s EXCEPT !.port[p].claimed = @ + 1, !.held[p] = @ + 1]
      \/ t = [s EXCEPT !.held[p] = @ - 1, !.callbacks = Append(@, p)]
  BY <1>0 DEF ProcessorEvent, Call
<1>4. Shifts(t, s) /\ (s.cur = "ExecutingToIdle" => t.port = s.port)
  <2>1. CASE s.cur = "Executing"
             /\ t = [s EXCEPT !.port[p].claimed = @ + 1, !.held[p] = @ + 1]
    <3> DEFINE ports == [s.port EXCEPT ![p].claimed = @ + 1]
               holds == [s.held EXCEPT ![p] = @ + 1]
    <3>1. t = [s EXCEPT !.port = ports, !.held = holds]
      BY <2>1
    <3>2. \A q \in Ports : Alters(ports[q], s.port[q], "Executing")
      <4> TAKE q \in Ports
      <4>1. s.port[q] \in PortRecord
        BY <1>2
      <4>2. CASE q = p
        <5>1. ports[q] = [s.port[q] EXCEPT !.claimed = @ + 1]
          BY <1>2, <4>2
        <5> QED BY <4>1, <5>1 DEF Alters, PortRecord
      <4>3. CASE q # p
        <5>1. ports[q] = s.port[q]
          BY <1>2, <4>3
        <5> QED BY <5>1 DEF Alters
      <4> QED BY <4>2, <4>3
    <3> HIDE DEF ports, holds
    <3>3. /\ SameControl(t, s) /\ SameCommand(t, s) /\ t.prc = s.prc
          /\ t.completion = s.completion /\ t.port = ports /\ t.callbacks = s.callbacks
      BY <1>0, <3>1 DEF IsComp, Fields, SameControl, SameCommand
    <3> QED BY <1>1, <2>1, <3>2, <3>3 DEF Shifts, Orders
  <2>2. CASE t = [s EXCEPT !.held[p] = @ - 1, !.callbacks = Append(@, p)]
    <3> DEFINE calls == Append(s.callbacks, p)
               holds == [s.held EXCEPT ![p] = @ - 1]
    <3>1. t = [s EXCEPT !.held = holds, !.callbacks = calls]
      BY <2>2
    <3>2. Dummy \in ToSet(calls) => Dummy \in ToSet(s.callbacks)
      BY <1>2 DEF ToSet
    <3> HIDE DEF calls, holds
    <3>3. /\ SameControl(t, s) /\ SameCommand(t, s) /\ t.prc = s.prc
          /\ t.completion = s.completion /\ t.port = s.port /\ t.callbacks = calls
      BY <1>0, <3>1 DEF IsComp, Fields, SameControl, SameCommand
    <3>4. \A q \in Ports : Alters(t.port[q], s.port[q], s.cur)
      <4>1. \A q \in Ports : s.port[q].claimed \in Int
        BY <1>2 DEF PortRecord
      <4> QED BY <3>3, <4>1 DEF Alters
    <3> QED BY <1>1, <3>2, <3>3, <3>4 DEF Shifts, Orders
  <2> QED BY <1>3, <2>1, <2>2
<1>5. Regular(t) /\ Phase(t)
  BY <1>0, <1>4, ShiftIsPhase
<1>6. t.krn = s.krn /\ t.cur = s.cur
  BY <1>4 DEF Shifts, SameControl
<1> QED BY <1>0, <1>5, <1>6

-----------------------------------------------------------------------------
(* The turn of the processor                                               *)

\* The first element of a queue is looked at first.
LEMMA OnlyHead ==
    ASSUME NEW S, NEW q \in Seq(S), q # <<>>, NEW T
    PROVE  /\ Head(q) \in T => Only(q, T) = <<Head(q)>> \o Only(Tail(q), T)
           /\ Head(q) \notin T => Only(q, T) = Only(Tail(q), T)
<1> DEFINE x == Head(q)
           one == <<x>>
           rest == Tail(q)
<1>1. one \in Seq(S) /\ rest \in Seq(S) /\ q = one \o rest
  OBVIOUS
<1>2. Only(one, T) = IF x \in T THEN <<x>> ELSE <<>>
  BY OnlyOne
<1>3. Only(rest, T) \in Seq(S)
  BY <1>1, OnlyPicks
<1> HIDE DEF one, rest, x
<1>4. Only(q, T) = Only(one, T) \o Only(rest, T)
  BY <1>1, OnlyConcat
<1>5. x \in T => Only(q, T) = <<x>> \o Only(rest, T)
  BY <1>2, <1>4
<1>6. x \notin T => Only(q, T) = Only(rest, T)
  <2>1. <<>> \o Only(rest, T) = Only(rest, T)
    BY <1>3
  <2> QED BY <1>2, <1>4, <2>1
<1> QED BY <1>5, <1>6 DEF x, rest

\* What a queue of one or of two is made of.
LEMMA FirstAndRest ==
    ASSUME NEW S, NEW m \in S, NEW o \in Seq(S), NEW x, NEW y
    PROVE  /\ <<m>> \o o = <<x>> => m = x /\ o = <<>>
           /\ <<m>> \o o = <<x, y>> => m = x /\ o = <<y>>
           /\ <<m>> \o o # <<>>
<1> DEFINE q == <<m>> \o o
<1>1. q # <<>> /\ Head(q) = m /\ Tail(q) = o
  OBVIOUS
<1> HIDE DEF q
<1>2. q = <<x>> => m = x /\ o = <<>>
  BY <1>1
<1>3. q = <<x, y>> => m = x /\ o = <<y>>
  BY <1>1
<1> QED BY <1>1, <1>2, <1>3 DEF q

\* The processor's turn begins: its first message has left its queue.
LEMMA NowTold ==
    ASSUME Sound(comp), comp.prc # <<>>
    PROVE  LET s == [Now EXCEPT !.prc = Tail(@)]
               m == Head(comp.prc)
           IN  /\ Sound(s) /\ SamePorts(s, comp) /\ s.counted = comp.counted
               /\ s.completions = comp.completions /\ s.krn = comp.krn
               /\ m \in Messages /\ Orders(s) \in Seq(Messages)
               /\ m \in Transits => Orders(comp) = <<m>> \o Orders(s)
               /\ m \notin Transits => Orders(s) = Orders(comp)
<1> PICK q : q = Tail(comp.prc)
  OBVIOUS
<1> DEFINE s == [Now EXCEPT !.prc = q]
<1>1. IsComp(comp) /\ Now.prc = comp.prc /\ comp.prc \in Seq(Messages)
  BY NowIsSame DEF Sound, IsComp
<1>2. [Now EXCEPT !.prc = Tail(@)] = s
  BY <1>1
<1>3. Sound(s) /\ Head(comp.prc) \in Messages
  BY <1>2, NowIsSound
<1>4. /\ SamePorts(s, comp) /\ s.counted = comp.counted /\ s.prc = q
      /\ s.krn = comp.krn /\ s.completions = comp.completions
  BY <1>1 DEF IsComp, Fields, Now, SamePorts, Same, SameCommand
<1> HIDE DEF s
<1>5. /\ Head(comp.prc) \in Transits => Orders(comp) = <<Head(comp.prc)>> \o Orders(s)
      /\ Head(comp.prc) \notin Transits => Orders(s) = Orders(comp)
  BY <1>1, <1>4, OnlyHead DEF Orders
<1>6. Orders(s) \in Seq(Messages)
  <2>1. s.prc \in Seq(Messages)
    BY <1>3 DEF Sound, IsComp
  <2> QED BY <2>1, OnlyPicks DEF Orders
<1> QED BY <1>2, <1>3, <1>4, <1>5, <1>6

\* The processor is told to give its headers back, or that a port is enabled.
LEMMA PortMessageKeeps ==
    ASSUME NEW s, NEW old, Sound(old), Regular(old), Phase(old), Sound(s), SamePorts(s, old),
           s.counted = old.counted, s.completions = old.completions, s.krn = old.krn,
           Orders(s) = Orders(old), NEW m \in Messages, m.cmd \in PortCommands
    PROVE  LET t == ProcessorCommand(s, m)
           IN  Regular(t) /\ Phase(t) /\ t.krn = old.krn /\ t.cur = old.cur
<1>1. Shifts(s, old)
  <2>1. IsComp(s) /\ Same(s, old) /\ SameControl(s, old) /\ SameCommand(s, old)
        /\ s.completion = old.completion
    BY DEF SamePorts, SameControl, Sound
  <2> QED BY <2>1, SameShifts
<1>2. Regular(s) /\ Phase(s) /\ s.port = old.port /\ s.krn = old.krn /\ s.cur = old.cur
  <2>1. s.port = old.port /\ s.krn = old.krn /\ s.cur = old.cur
    BY DEF SamePorts, Same
  <2> QED BY <1>1, <2>1, ShiftIsPhase
<1>3. ASSUME NEW t, Shifts(t, s), t.port = s.port
      PROVE  Regular(t) /\ Phase(t) /\ t.krn = old.krn /\ t.cur = old.cur
  <2>1. Regular(t) /\ Phase(t)
    BY <1>2, <1>3, ShiftIsPhase
  <2> QED BY <1>2, <1>3, <2>1 DEF Shifts, SameControl
<1>4. CASE m.cmd = "PortEnable"
  <2>1. ProcessorCommand(s, m) = s
    BY <1>4 DEF ProcessorCommand
  <2> QED BY <1>2, <2>1
<1>5. CASE m.cmd \in {"Flush", "PortDisable"} /\ m.param = ALL
  <2> PICK t : t = ForEachPort(ReleaseAll, s)
    OBVIOUS
  <2>1. Shifts(t, s) /\ t.port = s.port
    BY <1>2, ReleaseLoopShifts
  <2>2. ProcessorCommand(s, m) = t
    BY <1>5 DEF ProcessorCommand
  <2> QED BY <1>3, <2>1, <2>2
<1>6. CASE m.cmd \in {"Flush", "PortDisable"} /\ m.param # ALL
  <2>1. m.param \in Ports
    BY <1>6, ParamType
  <2>2. Shifts(ReleaseAll(s, m.param), s) /\ ReleaseAll(s, m.param).port = s.port
    BY <2>1, ReleaseShifts
  <2>3. ProcessorCommand(s, m) = ReleaseAll(s, m.param)
    BY <1>6 DEF ProcessorCommand
  <2> QED BY <1>3, <2>2, <2>3
<1> QED BY <1>4, <1>5, <1>6 DEF PortCommands

\* The processor's part of a transition that there is.
LEMMA ProcessorStateSetIs ==
    ASSUME NEW s, NEW st, <<Reported(s.cur), st>> \in Transitions, NEW m, m = StateSet(st)
    PROVE  ProcessorCommand(s, m) = CompleteTransition(s, "processor", st)
<1>1. m.cmd = "StateSet" /\ m.param = st
  BY DEF StateSet
<1>2. ProcessorCommand(s, m) = ProcessorStateSet(s, st)
  BY <1>1 DEF ProcessorCommand
<1> QED BY <1>2 DEF ProcessorStateSet

\* The repeated order to execute, once the machine is in Executing.
LEMMA ProcessorRepeats ==
    ASSUME NEW s, NEW old, Sound(old), Regular(old), Calm(old), Sound(s), SamePorts(s, old),
           AtRest(old) \/ Accepted(old) \/ Porting(old), old.krn = <<>>,
           s.counted = old.counted, s.completions = old.completions, s.krn = old.krn,
           Orders(s) \in Seq(Messages), NEW st \in MainStates,
           Orders(old) = <<StateSet(st)>> \o Orders(s)
    PROVE  LET t == ProcessorCommand(s, StateSet(st))
           IN  Regular(t) /\ Phase(t) /\ t.krn = old.krn /\ t.cur = old.cur
<1>1. StateSet(st) \in Messages
  BY StatesAreNamed
<1>2. Orders(old) # <<>>
  BY <1>1, FirstAndRest
<1>3. old.cur = "Executing" /\ Orders(old) = <<StateSet("Executing")>>
  BY <1>2 DEF Calm
<1>4. StateSet(st) = StateSet("Executing") /\ Orders(s) = <<>>
  BY <1>1, <1>3, FirstAndRest
<1>5. st = "Executing" /\ s.cur = "Executing"
  BY <1>3, <1>4 DEF StateSet, SamePorts
<1> DEFINE t == CompleteTransition(s, "processor", st)
<1>6. ProcessorCommand(s, StateSet(st)) = t
  <2>1. <<Reported(s.cur), st>> \in Transitions
    BY <1>5 DEF Reported, Transitions
  <2> QED BY <2>1, ProcessorStateSetIs
<1>7. Reports(t, s, By("processor", st))
  <2>1. IsComp(s) /\ "processor" \in Servants /\ s.cur \notin SubStates
    BY <1>5 DEF Sound, Servants, SubStates
  <2> QED BY <2>1, CompleteTransitionIs
<1> HIDE DEF t
<1>8. SamePorts(t, old) /\ t.counted = old.counted /\ t.krn = old.krn
      /\ t.completions = Append(old.completions, By("processor", st)) /\ t.prc = s.prc
  BY <1>7 DEF Reports, SamePorts, Same, SameCommand
<1>9. Calm(t)
  <2>1. t.cur = "Executing"
    BY <1>3, <1>8 DEF SamePorts
  <2>2. \A i \in DOMAIN t.completions : t.completions[i].state = "Executing"
    <3>1. \A i \in DOMAIN old.completions : old.completions[i].state = "Executing"
      BY <1>3 DEF Calm
    <3>2. By("processor", st).state = "Executing" /\ By("processor", st) \in Completions
          /\ old.completions \in Seq(Completions)
      BY <1>5 DEF By, Completions, Servants, Sound, IsComp
    <3>3. \A i \in DOMAIN t.completions :
            \/ i \in DOMAIN old.completions /\ t.completions[i] = old.completions[i]
            \/ t.completions[i] = By("processor", st)
      BY <1>8, <3>2
    <3> QED BY <3>1, <3>2, <3>3
  <2>3. Orders(t) = <<>>
    BY <1>4, <1>8 DEF Orders
  <2> QED BY <2>1, <2>2, <2>3 DEF Calm, Stages
<1>10. Regular(t)
  <2>1. \A x \in States : x \notin {old.cur, "Executing"} => t.counted[x] = <<>>
    BY <1>8 DEF Regular
  <2> QED BY <1>8, <2>1, CountsAreRegular
<1>11. Phase(t)
  BY <1>8, <1>9, CalmKeeps
<1> QED BY <1>6, <1>8, <1>10, <1>11 DEF SamePorts

\* Whether the kernel has what it waits for is all that counts once it has no command.
LEMMA SatisfiedHeard ==
    ASSUME NEW s, s.krn = <<>>
    PROVE  Heard(s, s.krn = <<>> /\ Satisfied(s)) <=> Heard(s, Satisfied(s))
<1>1. Satisfied(s) \in BOOLEAN
  BY DEF Satisfied, AllPopulated, AllDepopulated, AllBuffersReturned
<1>2. (s.krn = <<>> /\ Satisfied(s)) = Satisfied(s)
  BY <1>1
<1> QED BY <1>2

\* The processor has reported when it has no order left.
LEMMA TalliedHeard ==
    ASSUME NEW s, NEW kernel, Tallied(s.counted[s.cur], s.completions, s.param, kernel, TRUE),
           (Orders(s) = <<>>) = TRUE
    PROVE  Heard(s, kernel)
BY Zenon DEF Heard

\* The processor's part in the transition that the component is in.
LEMMA ProcessorGoes ==
    ASSUME NEW s, NEW old, Sound(old), Regular(old), Going(old), Sound(s), SamePorts(s, old),
           old.krn = <<>>,
           s.counted = old.counted, s.completions = old.completions, s.krn = old.krn,
           Orders(s) \in Seq(Messages), NEW st \in MainStates,
           Orders(old) = <<StateSet(st)>> \o Orders(s)
    PROVE  LET t == ProcessorCommand(s, StateSet(st))
           IN  Regular(t) /\ Phase(t) /\ t.krn = old.krn /\ t.cur = old.cur
<1>1. StateSet(st) \in Messages /\ StateSet(st).param = st
  BY StatesAreNamed DEF StateSet
<1>2. Orders(old) # <<>>
  BY <1>1, FirstAndRest
<1>3. <<old.cur, old.param>> \in Ways /\ Underway(old) /\ Heard(old, Satisfied(old))
  <2>1. <<old.cur, old.param>> \in Ways /\ Underway(old)
        /\ Heard(old, old.krn = <<>> /\ Satisfied(old))
    BY DEF Going, Underway
  <2> QED BY <2>1, SatisfiedHeard
<1>4. /\ s.cur = old.cur /\ s.param = old.param /\ s.inProgress = old.inProgress
      /\ s.port = old.port /\ s.commands = old.commands
  BY DEF SamePorts, Same, SameCommand
<1>5. Satisfied(s) = Satisfied(old)
  BY <1>4 DEF Satisfied
<1>6. NoneUndone(s)
  BY <1>3, <1>4 DEF Underway, NoneUndone, Undone
<1>7. Regular(s)
  <2>1. \A x \in States : x \notin {old.cur, "Executing"} => s.counted[x] = <<>>
    BY DEF Regular
  <2> QED BY <2>1, CountsAreRegular
<1> DEFINE u == CompleteTransition(s, "processor", st)
<1>8. CASE Orders(old) = <<StateSet(old.param)>>
  <2>1. StateSet(st) = StateSet(old.param) /\ Orders(s) = <<>>
    BY <1>1, <1>8, FirstAndRest
  <2>2. st = old.param
    BY <2>1 DEF StateSet
  <2>3. ProcessorCommand(s, StateSet(st)) = u
    <3>1. <<Reported(s.cur), st>> \in Transitions
      BY <1>3, <1>4, <2>2, WaysEnd
    <3> QED BY <3>1, ProcessorStateSetIs
  <2>4. Reports(u, s, By("processor", st))
    <3>1. IsComp(s) /\ "processor" \in Servants
      BY DEF Sound, Servants
    <3>2. s.cur \in SubStates => Destination[s.cur] = st
      BY <1>3, <1>4, <2>2, WaysEnd
    <3> QED BY <3>1, <3>2, CompleteTransitionIs
  <2> HIDE DEF u
  <2>5. /\ SamePorts(u, s) /\ u.counted = s.counted /\ u.krn = s.krn /\ u.cur = s.cur
        /\ u.completions = Append(s.completions, By("processor", st)) /\ u.prc = s.prc
    BY <2>4 DEF Reports, SamePorts, Same, SameCommand
  <2>6. Orders(u) = <<>>
    BY <2>1, <2>5 DEF Orders
  <2>7. Tallied(u.counted[u.cur], u.completions, st, Satisfied(old), TRUE)
    <3>1. Tallied(old.counted[old.cur], old.completions, st, Satisfied(old), FALSE)
      <4>1. (Orders(old) = <<>>) = FALSE
        BY <1>2
      <4> QED BY <1>3, <2>2, <4>1 DEF Heard
    <3>2. old.counted[old.cur] \in Seq(Completions) /\ old.completions \in Seq(Completions)
      BY DEF Sound, IsComp
    <3>3. Satisfied(old) \in BOOLEAN
      BY DEF Satisfied, AllPopulated, AllDepopulated, AllBuffersReturned
    <3>4. Tallied(old.counted[old.cur], Append(old.completions, By("processor", st)), st,
                  Satisfied(old), TRUE)
      <4> DEFINE sat == Satisfied(old)
      <4> HIDE DEF sat
      <4>1. sat \in BOOLEAN /\ Tallied(old.counted[old.cur], old.completions, st, sat, FALSE)
        BY <3>1, <3>3 DEF sat
      <4>2. Tallied(old.counted[old.cur], Append(old.completions, By("processor", st)), st,
                    sat, TRUE)
        BY <3>2, <4>1, ProcessorTallied
      <4> QED BY <4>2 DEF sat
    <3> QED BY <1>4, <2>5, <3>4
  <2>8. Satisfied(u) = Satisfied(old)
    BY <1>4, <2>5 DEF Satisfied, SamePorts, Same
  <2>9. Underway(u)
    <3>1. u.inProgress = "StateSet" /\ u.commands = <<>> /\ u.cur = old.cur /\ u.param = old.param
      BY <1>3, <1>4, <2>5 DEF Underway, SamePorts, SameCommand
    <3>2. NoneUndone(u)
      BY <1>6, <2>5 DEF NoneUndone, Undone, SamePorts, Same
    <3> QED BY <1>3, <2>6, <3>1, <3>2 DEF Underway
  <2>10. Going(u)
    <3>1. u.krn = <<>> /\ u.param = st
      BY <1>4, <2>2, <2>5 DEF SamePorts, SameCommand
    <3>2. Heard(u, Satisfied(u))
      <4>1. (Orders(u) = <<>>) = TRUE
        BY <2>6
      <4>2. Tallied(u.counted[u.cur], u.completions, u.param, Satisfied(u), TRUE)
        BY <2>7, <2>8, <3>1
      <4> QED BY <4>1, <4>2, TalliedHeard
    <3>3. Heard(u, u.krn = <<>> /\ Satisfied(u))
      BY <3>1, <3>2, SatisfiedHeard
    <3> QED BY <2>9, <3>1, <3>3 DEF Going
  <2>11. Regular(u)
    <3>1. \A x \in States : x \notin {s.cur, "Executing"} => u.counted[x] = <<>>
      BY <1>7, <2>5 DEF Regular
    <3> QED BY <1>7, <2>5, <3>1, CountsAreRegular
  <2> QED BY <1>4, <2>3, <2>5, <2>10, <2>11 DEF Phase
<1>9. CASE /\ old.cur = "ExecutingToIdle"
           /\ Orders(old) = <<StateSet("Executing"), StateSet("Idle")>>
  <2>1. StateSet(st) = StateSet("Executing") /\ Orders(s) = <<StateSet("Idle")>>
    <3> DEFINE m == StateSet(st)
               x == StateSet("Executing")
               y == StateSet("Idle")
    <3>1. m \in Messages /\ <<m>> \o Orders(s) = <<x, y>>
      BY <1>1, <1>9
    <3> HIDE DEF m, x, y
    <3>2. m = x /\ Orders(s) = <<y>>
      BY <3>1, FirstAndRest
    <3> QED BY <3>2 DEF m, x, y
  <2>2. st = "Executing"
    BY <2>1 DEF StateSet
  <2>3. ProcessorCommand(s, StateSet(st)) = s
    <3>1. <<Reported(s.cur), st>> \in Transitions
      BY <1>4, <1>9, <2>2 DEF Reported, Transitions
    <3>2. u = s
      BY <1>4, <1>9, <2>2 DEF CompleteTransition, Destination, SubStates
    <3> QED BY <3>1, <3>2, ProcessorStateSetIs
  <2>4. old.param = "Idle"
    BY <1>3, <1>9 DEF Ways
  <2>5. Underway(s)
    BY <1>3, <1>4, <1>6, <2>1, <2>4 DEF Underway
  <2>6. Heard(s, Satisfied(s))
    <3>1. (Orders(s) = <<>>) = FALSE /\ (Orders(old) = <<>>) = FALSE
      BY <1>2, <2>1
    <3> QED BY <1>3, <1>4, <1>5, <3>1 DEF Heard
  <2>7. Going(s)
    <3>1. Heard(s, s.krn = <<>> /\ Satisfied(s))
      BY <2>6, SatisfiedHeard
    <3> QED BY <2>5, <3>1 DEF Going
  <2> QED BY <1>4, <1>7, <2>3, <2>7 DEF Phase
<1> QED BY <1>2, <1>3, <1>8, <1>9 DEF Underway

\* The processor's turn.
LEMMA ProcessorTickKeeps ==
    ASSUME Sound(comp), Regular(comp), Phase(comp), comp.krn = <<>>, ProcessorTick
    PROVE  Regular(comp') /\ Phase(comp') /\ comp'.krn = <<>> /\ comp'.cur = comp.cur
<1>1. CASE comp.prc = <<>>
  <2>1. comp' = Now
    BY <1>1 DEF ProcessorTick
  <2> QED BY <2>1, NowIsPhase
<1>2. CASE comp.prc # <<>>
  <2> DEFINE s == [Now EXCEPT !.prc = Tail(@)]
             m == Head(comp.prc)
  <2>1. comp' = ProcessorCommand(s, m)
    BY <1>2 DEF ProcessorTick
  <2>2. /\ Sound(s) /\ SamePorts(s, comp) /\ s.counted = comp.counted
        /\ s.completions = comp.completions /\ s.krn = comp.krn
        /\ m \in Messages /\ Orders(s) \in Seq(Messages)
        /\ m \in Transits => Orders(comp) = <<m>> \o Orders(s)
        /\ m \notin Transits => Orders(s) = Orders(comp)
    BY <1>2, NowTold
  <2> HIDE DEF s, m
  <2>3. CASE m.cmd \in PortCommands /\ m \notin Transits
    BY <2>1, <2>2, <2>3, PortMessageKeeps
  <2>4. CASE m.cmd = "StateSet" /\ m.param \in MainStates /\ m = StateSet(m.param)
    <3> DEFINE st == m.param
    <3>1. m \in Transits
      BY <2>4 DEF Transits
    <3>2. m = StateSet(st) /\ st \in MainStates
      BY <2>4
    <3> HIDE DEF st
    <3>3. Orders(comp) = <<StateSet(st)>> \o Orders(s) /\ comp' = ProcessorCommand(s, StateSet(st))
      BY <2>1, <2>2, <3>1, <3>2
    <3>4. CASE Going(comp)
      BY <2>2, <3>2, <3>3, <3>4, ProcessorGoes
    <3>5. CASE AtRest(comp) \/ Accepted(comp) \/ Porting(comp)
      <4>1. Calm(comp)
        BY <3>5 DEF AtRest, Accepted, Porting, Working
      <4> QED BY <2>2, <3>2, <3>3, <3>5, <4>1, ProcessorRepeats
    <3> QED BY <3>4, <3>5 DEF Phase
  <2> QED BY <2>2, <2>3, <2>4, MessageIs
<1> QED BY <1>1, <1>2

-----------------------------------------------------------------------------
(* Every step                                                              *)

\* The machine has a command to see to.
LEMMA AcceptCommandIs ==
    ASSUME NEW s, IsComp(s), s.inProgress = None, s.commands = <<>>, NEW c \in Messages
    PROVE  LET t == AcceptCommand(s, c)
           IN  /\ t.inProgress = c.cmd /\ t.param = c.param /\ t.commands = <<c>>
               /\ t.cur = s.cur /\ t.counted = s.counted /\ t.completions = s.completions
               /\ t.krn = s.krn /\ t.prc = s.prc /\ t.failed = s.failed
               /\ t.cancellation = s.cancellation /\ Same(t, s) /\ t.completion = s.completion
<1> PICK q : q = Append(s.commands, c)
  OBVIOUS
<1> DEFINE t == [s EXCEPT !.commands = q, !.inProgress = c.cmd, !.param = c.param]
<1>1. AcceptCommand(s, c) = t
  BY DEF AcceptCommand, IsComp, Fields
<1>2. /\ t.inProgress = c.cmd /\ t.param = c.param /\ t.commands = q
      /\ t.cur = s.cur /\ t.counted = s.counted /\ t.completions = s.completions
      /\ t.krn = s.krn /\ t.prc = s.prc /\ t.failed = s.failed
      /\ t.cancellation = s.cancellation /\ Same(t, s) /\ t.completion = s.completion
  BY DEF IsComp, Fields, Same
<1> HIDE DEF t
<1>3. q = <<c>>
  OBVIOUS
<1> QED BY <1>1, <1>2, <1>3

\* OMX_SendCommand.
LEMMA SendCommandKeeps ==
    ASSUME Straight, Sound(comp), Regular(comp), Phase(comp), comp.krn = <<>>,
           NEW c \in Commands, SendCommand(c)
    PROVE  Regular(comp') /\ Phase(comp') /\ comp'.krn = <<>> /\ comp'.cur = comp.cur
<1> PICK s : s = Now
  OBVIOUS
<1> PICK t : t = AcceptCommand(s, c)
  OBVIOUS
<1>1. IsComp(s) /\ Regular(s) /\ Phase(s) /\ s.krn = <<>> /\ s.cur = comp.cur
      /\ s.inProgress = comp.inProgress
  BY NowIsPhase, NowIsSame DEF SamePorts, SameCommand, Sound
<1>2. comp.inProgress = None
  BY DEF SendCommand, ClientMaySend, Straight
<1>3. comp' = t
  BY <1>2 DEF SendCommand, Accepts, Call
<1>4. AtRest(s)
  BY <1>1, <1>2 DEF Phase, Accepted, Porting, Going, Underway, PortCommands, None
<1>5. c \in Messages /\ c # StateSet("Pause")
  BY CommandsAreMessages DEF Straight
<1>6. /\ t.inProgress = c.cmd /\ t.param = c.param /\ t.commands = <<c>>
      /\ t.cur = s.cur /\ t.counted = s.counted /\ t.completions = s.completions
      /\ t.krn = s.krn /\ t.prc = s.prc /\ t.failed = s.failed
      /\ t.cancellation = s.cancellation /\ Same(t, s) /\ t.completion = s.completion
  BY <1>1, <1>2, <1>4, <1>5, AcceptCommandIs DEF AtRest
<1>7. c = [cmd |-> c.cmd, param |-> c.param] /\ c.cmd # None
      /\ (c.cmd = "StateSet" => c.param # "Pause")
  BY <1>5, MessageIs DEF StateSet, PortCommand, PortCommands, None
<1>8. Calm(t) /\ NoneUndone(t)
  BY <1>4, <1>6 DEF AtRest, Calm, Orders, NoneUndone, Undone, Same
<1>9. Accepted(t)
  BY <1>1, <1>6, <1>7, <1>8 DEF Accepted
<1>10. Regular(t)
  BY <1>1, <1>6 DEF Regular, Same
<1> QED BY <1>1, <1>3, <1>6, <1>9, <1>10 DEF Phase

\* The component as it is created.
LEMMA InitIsOrderly == Init => Orderly
<1> SUFFICES ASSUME Init PROVE Orderly
  OBVIOUS
<1>1. Inv
  BY InitIsSound
<1>2. /\ comp.cur = "Loaded" /\ comp.inProgress = None /\ comp.cancellation = None
      /\ comp.counted = [st \in States |-> <<>>] /\ comp.completions = <<>>
      /\ comp.commands = <<>> /\ comp.krn = <<>> /\ comp.callbacks = <<>>
      /\ comp.port = [p \in Ports |-> InitialPort] /\ comp.prc = <<>> /\ comp.failed = None
  BY DEF Init
<1>3. Orders(comp) = <<>>
  BY <1>2, OnlyEmpty DEF Orders
<1>4. \A p \in Ports : Stocked(comp.port[p], "Loaded")
  BY <1>2 DEF Stocked, InitialPort
<1>5. NoneUndone(comp)
  <2>1. \A c \in PortCommands : ~Flagged(InitialPort, c)
    BY DEF InitialPort, Flagged, PortCommands
  <2>2. \A p \in Ports : comp.port[p] = InitialPort
    BY <1>2
  <2> QED BY <2>1, <2>2 DEF NoneUndone, Undone
<1>6. Regular(comp)
  BY <1>2, <1>4 DEF Regular, Stages, ToSet
<1>7. Calm(comp)
  BY <1>2, <1>3 DEF Calm, Stages, States, MainStates
<1>8. AtRest(comp)
  BY <1>2, <1>5, <1>7 DEF AtRest
<1> QED BY <1>1, <1>2, <1>6, <1>8 DEF Orderly, Phase

\* Every step of such a client or of the servants.
LEMMA StepIsOrderly ==
    ASSUME Straight, Orderly, [Next]_vars
    PROVE  /\ Regular(comp') /\ Phase(comp') /\ (comp'.krn # <<>> => turn' = "kernel")
           /\ Settles(comp', comp)
<1>1. Sound(comp) /\ Regular(comp) /\ Phase(comp) /\ (comp.krn # <<>> => turn = "kernel")
  BY DEF Orderly, Inv, TypeOK, Sound
<1>2. ASSUME Regular(comp'), Phase(comp'), comp'.krn = <<>>, comp'.cur = comp.cur
      PROVE  /\ Regular(comp') /\ Phase(comp') /\ (comp'.krn # <<>> => turn' = "kernel")
             /\ Settles(comp', comp)
  BY <1>2 DEF Settles
<1>3. ASSUME NEW c \in Commands, SendCommand(c)
      PROVE  Regular(comp') /\ Phase(comp') /\ comp'.krn = <<>> /\ comp'.cur = comp.cur
  <2>1. comp.krn = <<>>
    BY <1>1, <1>3 DEF SendCommand
  <2> QED BY <1>1, <1>3, <2>1, SendCommandKeeps
<1>4. ASSUME NEW p \in Ports, UseBuffer(p) \/ FreeHeader(p) \/ ProcessorEvent(p)
      PROVE  Regular(comp') /\ Phase(comp') /\ comp'.krn = <<>> /\ comp'.cur = comp.cur
  <2>1. comp.krn = <<>>
    BY <1>1, <1>4 DEF UseBuffer, FreeHeader, ProcessorEvent
  <2> QED BY <1>1, <1>4, <2>1, UseBufferKeeps, FreeHeaderKeeps, ProcessorEventKeeps
<1>5. ASSUME FsmTick
      PROVE  /\ Regular(comp') /\ Phase(comp') /\ (comp'.krn # <<>> => turn' = "kernel")
             /\ Settles(comp', comp)
  <2>1. comp.krn = <<>> /\ turn' = "kernel"
    BY <1>1, <1>5 DEF FsmTick
  <2> QED BY <1>1, <1>5, <2>1, FsmTickKeeps
<1>6. ASSUME KernelTick
      PROVE  Regular(comp') /\ Phase(comp') /\ comp'.krn = <<>> /\ comp'.cur = comp.cur
  BY <1>1, <1>6, KernelTickKeeps DEF Straight
<1>7. ASSUME ProcessorTick
      PROVE  Regular(comp') /\ Phase(comp') /\ comp'.krn = <<>> /\ comp'.cur = comp.cur
  <2>1. comp.krn = <<>>
    BY <1>1, <1>7 DEF ProcessorTick
  <2> QED BY <1>1, <1>7, <2>1, ProcessorTickKeeps
<1>8. CASE UNCHANGED vars
  <2>1. comp' = comp /\ turn' = turn
    BY <1>8 DEF vars
  <2> QED BY <1>1, <2>1 DEF Settles
<1>9. CASE Next
  BY <1>2, <1>3, <1>4, <1>5, <1>6, <1>7, <1>9 DEF Next
<1> QED BY <1>8, <1>9

\* The invariant of such a client holds.
LEMMA OrderlyHolds ==
    ASSUME Straight
    PROVE  Spec => []Orderly
<1>1. Init => Orderly
  BY InitIsOrderly
<1>2. Orderly /\ [Next]_vars => Orderly'
  <2> SUFFICES ASSUME Orderly, [Next]_vars PROVE Orderly'
    OBVIOUS
  <2>1. Inv'
    BY StepIsSound DEF Orderly
  <2>2. Regular(comp') /\ Phase(comp') /\ (comp'.krn # <<>> => turn' = "kernel")
    BY StepIsOrderly
  <2> QED BY <2>1, <2>2 DEF Orderly
<1> QED BY <1>1, <1>2, PTL DEF Spec

\* Nothing has gone wrong in an orderly component.
LEMMA OrderlyIsAlive == Orderly => NoAssertFails
BY DEF Orderly, Regular, NoAssertFails, Alive

\* The buffers of an orderly component are those of its state.
LEMMA OrderlyMatches == Orderly => BuffersMatchState
<1> SUFFICES ASSUME Orderly PROVE BuffersMatchState
  OBVIOUS
<1>1. Sound(comp) /\ Regular(comp) /\ Phase(comp)
  BY DEF Orderly, Inv, TypeOK, Sound
<1>2. \A p \in Ports : Stocked(comp.port[p], comp.cur)
  BY <1>1 DEF Regular
<1>3. ASSUME comp.inProgress \notin {"PortEnable", "PortDisable"}, NEW p \in Ports
      PROVE  ~comp.port[p].beingEnabled /\ ~comp.port[p].beingDisabled
  <2>1. ASSUME NEW c \in {"PortEnable", "PortDisable"}, Flagged(comp.port[p], c) PROVE FALSE
    BY <1>1, <1>3, <2>1, FlaggedIsWorking DEF PortCommands
  <2> QED BY <2>1 DEF Flagged
<1>4. comp.cur \in {"Loaded", "WaitForResources"} => \A p \in Ports : comp.port[p].bufs = 0
  BY <1>2 DEF Stocked
<1>5. comp.cur \in {"Idle", "LoadedToIdle", "IdleToLoaded"} =>
        \A p \in Ports : comp.port[p].claimed = 0
  BY <1>2 DEF Stocked
<1>6. comp.cur # "Pause"
  BY <1>1 DEF Regular, Stages
<1>7. ASSUME comp.inProgress \notin {"PortEnable", "PortDisable"}, NEW p \in Ports
      PROVE  /\ comp.cur \in {"Idle", "Executing", "Pause"}
                /\ comp.port[p].enabled => comp.port[p].bufs = NBufs
             /\ ~comp.port[p].enabled => comp.port[p].bufs = 0
  BY <1>2, <1>3, <1>6, <1>7 DEF Stocked
<1> QED BY <1>4, <1>5, <1>7 DEF BuffersMatchState

\* The completions that an orderly component counts are those of its flagged ports.
LEMMA OrderlyCounts == Orderly => CountMatchesPorts
<1> SUFFICES ASSUME Orderly, NEW c \in PortCommands
             PROVE  IF comp.inProgress = c /\ comp.commands = <<>> /\ comp.krn = <<>>
                    THEN /\ comp.completion = Cardinality(Unfinished(c))
                         /\ Unfinished(c) # {}
                    ELSE Unfinished(c) = {}
  BY DEF CountMatchesPorts
<1>1. Sound(comp) /\ Regular(comp) /\ Phase(comp)
  BY DEF Orderly, Inv, TypeOK, Sound
<1>2. Unfinished(c) = Undone(comp, c)
  BY DEF Unfinished, Undone, Flagged
<1>3. CASE comp.inProgress = c /\ comp.commands = <<>> /\ comp.krn = <<>>
  <2>1. Porting(comp)
    BY <1>1, <1>3 DEF Phase, AtRest, Accepted, Going, Underway, PortCommands, None
  <2>2. Working(comp, c, 0) /\ comp.completion > 0
    BY <1>3, <2>1 DEF Porting
  <2>3. IsFiniteSet(Undone(comp, c))
    <3>1. Undone(comp, c) \subseteq Ports
      BY DEF Undone
    <3> QED BY <3>1, PortsAreFinite, FS_Subset
  <2>4. Cardinality(Undone(comp, c)) \in Nat
    BY <2>3, FS_CardinalityType
  <2>5. comp.completion = Cardinality(Undone(comp, c))
    BY <2>2, <2>4 DEF Working
  <2>6. Undone(comp, c) # {}
    BY <2>2, <2>5, FS_EmptySet
  <2> QED BY <1>2, <1>3, <2>5, <2>6
<1>4. CASE ~(comp.inProgress = c /\ comp.commands = <<>> /\ comp.krn = <<>>)
  <2>1. ASSUME NEW p \in Undone(comp, c) PROVE FALSE
    <3>1. p \in Ports /\ Flagged(comp.port[p], c)
      BY DEF Undone
    <3>2. comp.inProgress = c /\ Works(comp, c, 0) /\ comp.krn = <<>>
      BY <1>1, <3>1, FlaggedIsWorking
    <3> QED BY <1>4, <3>2 DEF Works, Working
  <2> QED BY <1>2, <1>4, <2>1
<1> QED BY <1>3, <1>4

\* No assertion of the state machine, the kernel or the processor fails for a
\* client that gives one command at a time and does not pause: whatever the
\* ports, the number of their buffers and the commands, and however the passes
\* of the scheduler, the client's buffer calls and the processor's own events
\* interleave (tizstate.c:363, tizfsm.c:1094, tizkernel_helpers.inl).
THEOREM StraightClientFailsNothing ==
    ASSUME Straight
    PROVE  Spec => []NoAssertFails
BY OrderlyHolds, OrderlyIsAlive, PTL

\* For such a client the component's buffers are always those of its state:
\* none in Loaded, all of every enabled port in Idle and in Executing, none
\* claimed in Idle, none on a port that has been disabled.
THEOREM StraightClientBuffersMatch ==
    ASSUME Straight
    PROVE  Spec => []BuffersMatchState
BY OrderlyHolds, OrderlyMatches, PTL

\* For such a client cmd_completion_count_ is the number of ports that a port
\* command waits for, and no port is left waiting once the command is over.
THEOREM StraightClientCountMatches ==
    ASSUME Straight
    PROVE  Spec => []CountMatchesPorts
BY OrderlyHolds, OrderlyCounts, PTL

\* For such a client the machine enters a main state only when the kernel and
\* the processor have each reported the end of that very transition
\* (tizstate.c:363, state_trans_complete).
THEOREM StraightClientHearsBoth ==
    ASSUME Straight
    PROVE  Spec => BothServantsFinish
<1>1. Orderly /\ [Next]_vars =>
        [comp'.cur # comp.cur /\ comp'.cur \in MainStates =>
            /\ comp.counted[comp.cur] # <<>>
            /\ comp.completions # <<>>
            /\ LET one == Head(comp.counted[comp.cur])
                   other == Head(comp.completions)
               IN  /\ {one.state, other.state} = {comp'.cur}
                   /\ one.servant # other.servant]_vars
  BY StepIsOrderly DEF Settles
<1> QED BY <1>1, OrderlyHolds, PTL DEF Spec, BothServantsFinish
=============================================================================
