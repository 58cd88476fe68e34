------------------------------ MODULE TizPlayer ------------------------------
(***************************************************************************)
(* The player of local files: the graph manager (tizgraphmgr*.cpp, hpp),   *)
(* its graphs (TizGraph) and their components, each with a thread and a    *)
(* queue of its own.  The user's commands go to the manager, the           *)
(* manager's to the one graph it manages; components and graphs answer by  *)
(* events.  The manager and the graph share a playlist without a lock.     *)
(*                                                                         *)
(* A component's part is what a client sees of it: it takes one command at *)
(* a time, refuses what its state does not allow and any command during a  *)
(* transition, without telling, and reports a transition when it ends.     *)
(***************************************************************************)
EXTENDS TizGraph

CONSTANTS
    Playlists,      \* the playlists the player may be started with
    Commands,       \* the keys and buttons the user has
    MaxErrors,      \* bound: errors that components report, for each playlist
    MaxBacklog      \* bound: messages of the manager, and of its graph, when the user acts

ASSUME PlayerAssumption ==
    /\ \A l \in Playlists : Len(l) > 0
    /\ Commands \subseteq {"start", "next", "prev", "pause", "stop", "quit"}
    /\ MaxErrors \in [Playlists -> Nat]
    /\ MaxBacklog \in Nat

Codings == UNION {{l[i].coding : i \in DOMAIN l} : l \in Playlists} \ {None}

VARIABLES
    playlist,       \* playlist_: all the files
    list,           \* next_playlist_, the graph's playlist_
    mgr,            \* the manager: see Init
    graphs,         \* graph_registry_
    wishes,         \* the user's last wishes: "stop" or "quit" once they have been sent
    errors,         \* how many errors components have reported
    ended,          \* the process has ended: exit () in the termination callback
    failed          \* the assertion that has failed

vars == <<playlist, list, mgr, graphs, wishes, errors, ended, failed>>

Evt(kind) == [kind |-> kind, fatal |-> FALSE]

Init ==
    /\ playlist \in Playlists
    /\ list = NewList(<<>>)
    /\ mgr = [st |-> "inited", current |-> -1, managed |-> None, queue |-> <<Evt("start")>>]
    /\ graphs = [f \in Codings |-> NewGraph(f)]
    /\ wishes = {} /\ errors = 0 /\ ended = FALSE /\ failed = None

Alive == ~ended /\ failed = None

-----------------------------------------------------------------------------
(* The manager's operations.  m is what its thread works on.               *)

GoMgr(m, st) == [m EXCEPT !.mgr.st = st]
End(m) == [GoMgr(m, "quitted") EXCEPT !.ended = TRUE]

ToGraph(m, e) ==
    IF m.mgr.managed = None THEN m
    ELSE [m EXCEPT !.graphs[m.mgr.managed].queue = Append(@, e)]

FindNextSubList(m) ==
    LET up == Empty(m.list) \/ PastEnd(m.list)
        k == NextSubList(playlist, m.mgr.current, up)
        next == IF SingleFormat(playlist) THEN NewList(playlist) ELSE SubList(playlist, k)
    IN  [m EXCEPT !.list = IF BeforeBegin(m.list) THEN SetIndex(next, Size(next) - 1) ELSE next,
                  !.mgr.current = IF SingleFormat(playlist) THEN @ ELSE k]

\* do_load.  No graph can be made for a first file that cannot be played; the error
\* of the manager's own ends it.
LoadNext(m) ==
    LET n == FindNextSubList(m)
        coding == n.list.uris[1].coding
    IN  IF coding = None THEN End(n)
        ELSE ToGraph([GoMgr(n, "loading_graph") EXCEPT !.mgr.managed = coding], GraphEvt("load"))

\* do_execute.
Execute(m, st) ==
    ToGraph([GoMgr(m, st) EXCEPT !.list.loop = SingleFormat(playlist)], GraphEvt("execute"))

\* do_update_control_ifcs looks up the current file, in the list the graph's thread uses.
UpdateControls(m) ==
    IF ~Empty(m.list) /\ HasCurrent(m.list) THEN m ELSE [m EXCEPT !.failed = "control_ifcs"]

Run(m) == UpdateControls(GoMgr(m, "running"))

Starting == {"loading_graph", "executing_graph"}

\* The transition table.  Commands that come while a graph is loaded or unloaded are
\* deferred, and lost when that is done.
InjectMgr(m, e) ==
    LET st == m.mgr.st
        k == e.kind
    IN  CASE st = "inited" /\ k = "start" -> LoadNext(m)
          [] st = "loading_graph" /\ k = "graph_loaded" -> Execute(m, "executing_graph")
          [] st \in Starting /\ k = "graph_execd" -> Run(m)
          [] st \in Starting \cup {"running"} /\ k = "err" ->
                IF e.fatal THEN End(m) ELSE GoMgr(m, "restarting")
          [] st \in Starting /\ k = "graph_unlded" -> End(m)
          [] st = "running" /\ k = "next" -> ToGraph(m, SkipEvt(1))
          [] st = "running" /\ k = "prev" -> ToGraph(m, SkipEvt(-1))
          [] st = "running" /\ k \in {"pause", "start"} -> ToGraph(m, GraphEvt("pause"))
          [] st = "running" /\ k \in {"graph_paused", "graph_unpaused"} -> UpdateControls(m)
          [] st = "running" /\ k = "stop" -> ToGraph(GoMgr(m, "stopping"), GraphEvt("stop"))
          [] st \in {"running", "stopped"} /\ k = "quit" ->
                ToGraph(GoMgr(m, "quitting"), GraphEvt("unload"))
          [] st = "running" /\ k = "graph_eop" -> GoMgr(m, "restarting")
          [] st = "restarting" /\ k = "graph_unlded" -> LoadNext(m)
          [] st \in {"restarting", "stopping", "quitting"} /\ k = "err" -> End(m)
          [] st = "stopping" /\ k = "graph_stopped" -> UpdateControls(GoMgr(m, "stopped"))
          [] st = "stopped" /\ k = "start" -> Execute(m, "loading_graph")
          [] st = "quitting" /\ k = "graph_unlded" -> End(m)
          [] OTHER -> m

-----------------------------------------------------------------------------
(* The threads.                                                            *)

\* The manager's thread takes a message.
MgrStep ==
    /\ Alive /\ mgr.queue # <<>>
    /\ LET m == InjectMgr([mgr |-> [mgr EXCEPT !.queue = Tail(@)], list |-> list,
                           graphs |-> graphs, ended |-> FALSE, failed |-> None],
                          Head(mgr.queue))
       IN  /\ mgr' = m.mgr /\ list' = m.list /\ graphs' = m.graphs
           /\ ended' = m.ended /\ failed' = m.failed
    /\ UNCHANGED <<playlist, wishes, errors>>

\* A graph's thread takes an event.
GraphStep(f) ==
    /\ Alive /\ graphs[f].queue # <<>>
    /\ LET w == DispatchGraph([g |-> [graphs[f] EXCEPT !.queue = Tail(@)], list |-> list,
                               out |-> <<>>, failed |-> None],
                              Head(graphs[f].queue))
       IN  /\ graphs' = [graphs EXCEPT ![f] = w.g]
           /\ list' = w.list /\ failed' = w.failed
           /\ mgr' = [mgr EXCEPT !.queue = @ \o w.out]
    /\ UNCHANGED <<playlist, wishes, errors, ended>>

Steps ==
    {<<"Loaded", "Idle">>, <<"Idle", "Loaded">>, <<"Idle", "Executing">>,
     <<"Executing", "Idle">>, <<"Executing", "Pause">>, <<"Pause", "Executing">>,
     <<"Pause", "Idle">>}

\* Component c of graph f becomes comp, and tells the graph.
ComponentDoes(f, c, comp, events) ==
    /\ graphs' = [graphs EXCEPT ![f].comps[c] = comp, ![f].queue = @ \o events]
    /\ UNCHANGED <<playlist, list, mgr, wishes, ended, failed>>

TakeCommand(f, c) ==
    LET comp == graphs[f].comps[c]
        to == Head(comp.cmds)
        taken == [comp EXCEPT !.cmds = Tail(@)]
    IN  /\ Alive /\ comp.cmds # <<>>
        /\ ComponentDoes(f, c,
              IF comp.going = None /\ <<comp.st, to>> \in Steps
              THEN [taken EXCEPT !.going = to] ELSE taken, <<>>)
        /\ UNCHANGED errors

FinishTransition(f, c) ==
    LET comp == graphs[f].comps[c]
    IN  /\ Alive /\ comp.going # None
        /\ ComponentDoes(f, c,
              [comp EXCEPT !.st = comp.going, !.going = None,
                           !.ended = @ /\ comp.going # "Idle"],
              <<TransEvt(c, comp.going)>>)
        /\ UNCHANGED errors

\* The end of a stream arrives at the renderer, once, when all of the others play.
\* Bound: a file plays until the manager has but MaxBacklog messages.
EndOfStream(f) ==
    LET comps == graphs[f].comps
        last == Len(comps)
    IN  /\ Alive /\ comps # <<>> /\ ~comps[last].ended /\ Len(mgr.queue) <= MaxBacklog
        /\ \A c \in DOMAIN comps : comps[c].st = "Executing" /\ comps[c].going = None
        /\ ComponentDoes(f, last, [comps[last] EXCEPT !.ended = TRUE], <<GraphEvt("omx_eos")>>)
        /\ UNCHANGED errors

\* Nothing is on its way.
AtRest ==
    /\ mgr.queue = <<>>
    /\ \A f \in Codings :
          /\ graphs[f].queue = <<>>
          /\ \A c \in DOMAIN graphs[f].comps :
                graphs[f].comps[c].cmds = <<>> /\ graphs[f].comps[c].going = None

\* A graph that resumes from Idle is in executing before its components are, which then
\* refuse what it commands.  So a user who has stopped the player lets it come to rest
\* before each command, and components report errors at rest.
Orderly == "stop" \in wishes => AtRest

ReportError(f, c) ==
    LET comp == graphs[f].comps[c]
    IN  /\ Alive /\ errors < MaxErrors[playlist] /\ Orderly
        /\ comp.st # "Loaded" \/ comp.going # None
        /\ \E fatal \in BOOLEAN : ComponentDoes(f, c, comp, <<ErrEvt(fatal)>>)
        /\ errors' = errors + 1

Backlog ==
    Len(mgr.queue) + (IF mgr.managed = None THEN 0 ELSE Len(graphs[mgr.managed].queue))

\* A user who has quit is gone.
UserCommand(k) ==
    /\ Alive /\ "quit" \notin wishes
    /\ Backlog <= MaxBacklog /\ Orderly
    /\ mgr' = [mgr EXCEPT !.queue = Append(@, Evt(k))]
    /\ wishes' = wishes \cup ({k} \cap {"stop", "quit"})
    /\ UNCHANGED <<playlist, list, graphs, errors, ended, failed>>

ComponentStep(f, c) == TakeCommand(f, c) \/ FinishTransition(f, c)

Next ==
    \/ MgrStep
    \/ \E k \in Commands : UserCommand(k)
    \/ \E f \in Codings :
          \/ GraphStep(f) \/ EndOfStream(f)
          \/ \E c \in DOMAIN graphs[f].comps : ComponentStep(f, c) \/ ReportError(f, c)

Spec == Init /\ [][Next]_vars

\* Threads run; a stream need not end, and nobody need command anything.  The first and
\* the second conjunct are WF_vars(MgrStep) and WF_vars(GraphStep(f)), with the conditions
\* that enable these written out.
FairSpec ==
    /\ Spec
    /\ []<>(~Alive \/ mgr.queue = <<>>) \/ []<><<MgrStep>>_vars
    /\ \A f \in Codings :
          /\ []<>(~Alive \/ graphs[f].queue = <<>>) \/ []<><<GraphStep(f)>>_vars
          /\ \A c \in 1 .. NComps :
                WF_vars(c \in DOMAIN graphs[f].comps /\ ComponentStep(f, c))

-----------------------------------------------------------------------------
(* Properties.                                                             *)

\* No assertion of a graph's thread fails: an event it handles comes from a component it
\* has, in the state the event says, and the file it probes is in the list.  The
\* manager's look at the current file, in a list that another thread moves on in, is
\* known to fail.
NoPlayerAssertFails == failed \in {None, "control_ifcs"}

\* A graph that waits for transitions has commanded them: each is still in the queue of
\* a component, or under way, or reported.  Components refuse without a word, so one
\* command too early and the graph would wait for ever.
SomebodyAnswers ==
    Alive =>
    \A f \in Codings :
        LET g == graphs[f]
        IN  g.st \in DOMAIN TargetState =>
              \A p \in g.expected :
                  \/ p[2] = g.comps[p[1]].going
                  \/ p[2] \in Range(g.comps[p[1]].cmds)
                  \/ TransEvt(p[1], p[2]) \in Range(g.queue)

\* Components are freed in Loaded and with nothing left to do, unless an error has ended
\* the graph.
FreedWhenLoaded ==
    [][\A f \in Codings :
          graphs'[f].comps = <<>> /\ graphs'[f].error # "fatal" =>
              \A c \in DOMAIN graphs[f].comps :
                  graphs[f].comps[c].st = "Loaded" /\ graphs[f].comps[c].cmds = <<>>]_vars

\* The files of l that g can play, at or after index i: around the end if the list loops.
Playable(l, g, i) ==
    {n \in 0 .. Size(l) - 1 :
        LET k == IF l.loop THEN Wrap(l, i + n) ELSE i + n
        IN  k \in 0 .. Size(l) - 1 /\ l.uris[k + 1].coding = g.coding}

\* The file a skip leads to: the first playable one in the direction of play, counted
\* from the one that is jumped to.
Following(l, g) ==
    LET i == l.index + g.jump
        n == CHOOSE n \in Playable(l, g, i) : \A k \in Playable(l, g, i) : n <= k
    IN  l.uris[(IF l.loop THEN Wrap(l, i + n) ELSE i + n) + 1]

\* However many files turn out to be unplayable on the way, and leave the list while
\* the graph moves in it, a skip leads to the file that follows; the list ends only
\* where none does.
SkipFindsTheNext ==
    [][\A f \in Codings :
          LET g == graphs[f]
              left == g.st = "skip2loaded" /\ graphs'[f].st # "skip2loaded" /\ failed' = None
              found == /\ list.loop \/ g.jump + list.index >= 0
                       /\ Playable(list, g, list.index + g.jump) # {}
          IN  left => IF graphs'[f].st = "unloaded" THEN ~found
                      ELSE found /\ CurrentUri(list') = Following(list, g)]_vars

Waiting(f) == graphs[f].st \in DOMAIN TargetState \cup {"awaiting_port_settings"}

\* A graph does not wait for ever for its components, nor the manager for a graph it
\* starts: a file that is to be played is played, or the player ends.
MovesOn ==
    /\ \A f \in Codings : Waiting(f) ~> (~Waiting(f) \/ ~Alive)
    /\ (mgr.st \in Starting \cup {"restarting"}) ~> (mgr.st = "running" \/ ~Alive)

=============================================================================
