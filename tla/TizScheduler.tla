---------------------------- MODULE TizScheduler ----------------------------
(***************************************************************************)
(* The scheduler of a component (tizscheduler.c): the thread that runs the *)
(* component and the calls that other threads make on it.  There are       *)
(* several components, and a component's thread may itself call a peer, as *)
(* the supplier of a tunnel does to populate it.                           *)
(*                                                                         *)
(* A caller of a blocking API holds the scheduler's mutex from before it   *)
(* sends its message until it has read the result; the scheduler's thread  *)
(* leaves the result in one variable, error, and posts the semaphore.      *)
(* Other calls only send a message.                                        *)
(*                                                                         *)
(* What the servants do with a message is the subject of TizComponent; the *)
(* queue is the one TizQueue implements.                                   *)
(***************************************************************************)
EXTENDS Naturals, Sequences

CONSTANTS
    Clients,     \* threads of the IL client, of the event loop, of a library
    Components,  \* the components; each is also the name of its thread
    Peers,       \* the pairs <<a, b>> in which a's servants call b
    Posted,      \* the classes of messages sent without waiting
    Nobody,      \* no thread, no component, no message
    Capacity     \* the capacity of the message queues

Threads == Clients \cup Components

\* The threads that ever wait for an answer of another.
Callers == Clients \cup {p[1] : p \in Peers}

\* Of the many API functions, all but the first and the last that a component
\* ever gets differ only in whether the caller waits for the result.
Classes == {"Init", "Call", "DeInit"} \cup Posted

Messages == [from : Threads, class : Classes]

ASSUME SchedulerAssumption ==
    /\ Clients \cap Components = {}
    /\ Peers \subseteq Components \X Components
    /\ \A p \in Peers : p[1] # p[2]
    /\ Posted \cap {"Init", "Call", "DeInit"} = {}
    /\ Nobody \notin Threads \cup Components \cup Messages
    /\ Capacity \in Nat \ {0}

VARIABLES
    loop,   \* where each component's thread is in il_sched_thread_func
    state,  \* the scheduler's own state
    hand,   \* the message its thread is dispatching
    error,  \* the message whose result is in the variable error
    queue,  \* p_queue
    mutex,  \* the thread that holds mutex
    sem,    \* the count of sem
    open,   \* the components whose handle the client has got
    call    \* the call each thread makes

vars == <<loop, state, hand, error, queue, mutex, sem, open, call>>

Loop == {"unborn", "starting", "receive", "dispatch", "post", "servants", "exited"}

Steps == {"none", "start", "lock", "send", "wait", "answer", "join", "done"}

NoCall == [step |-> "none", to |-> Nobody, class |-> "Call"]

Message(t) == [from |-> t, class |-> call[t].class]

Waits(class) == class \notin Posted

Advance(t, step) == call' = [call EXCEPT ![t].step = step]

Init ==
    /\ loop = [c \in Components |-> "unborn"]
    /\ state = [c \in Components |-> "Stopped"]
    /\ hand = [c \in Components |-> Nobody]
    /\ error = [c \in Components |-> Nobody]
    /\ queue = [c \in Components |-> <<>>]
    /\ mutex = [c \in Components |-> Nobody]
    /\ sem = [c \in Components |-> 0]
    /\ open = {}
    /\ call = [t \in Threads |-> NoCall]
-----------------------------------------------------------------------------
\* Mutant: the handle is handed out before the component is initialised.
OpenAtOnce(t, c) ==
    /\ t \in Clients /\ call[t].step = "none" /\ loop[c] = "unborn"
    /\ loop' = [loop EXCEPT ![c] = "starting"]
    /\ state' = [state EXCEPT ![c] = "Starting"]
    /\ open' = open \cup {c}
    /\ call' = [call EXCEPT ![t] = [step |-> "start", to |-> c, class |-> "Init"]]
    /\ UNCHANGED <<hand, error, queue, mutex, sem>>

\* tiz_comp_init: the scheduler is created and its thread started.
Open(t, c) ==
    /\ t \in Clients /\ call[t].step = "none" /\ loop[c] = "unborn"
    /\ loop' = [loop EXCEPT ![c] = "starting"]
    /\ state' = [state EXCEPT ![c] = "Starting"]
    /\ call' = [call EXCEPT ![t] = [step |-> "start", to |-> c, class |-> "Init"]]
    /\ UNCHANGED <<hand, error, queue, mutex, sem, open>>

\* The new thread knows its own id and posts the semaphore for the first time.
ThreadStarts(c) ==
    /\ loop[c] = "starting"
    /\ loop' = [loop EXCEPT ![c] = "receive"]
    /\ sem' = [sem EXCEPT ![c] = @ + 1]
    /\ UNCHANGED <<state, hand, error, queue, mutex, open, call>>

\* Mutant: start_scheduler does not wait for the thread.
StartedWithoutWait(t) ==
    /\ call[t].step = "start"
    /\ Advance(t, "lock")
    /\ UNCHANGED <<loop, state, hand, error, queue, mutex, sem, open>>

\* start_scheduler has waited for that; the message ComponentInit is next.
Started(t) ==
    LET c == call[t].to IN
    /\ call[t].step = "start" /\ sem[c] > 0
    /\ sem' = [sem EXCEPT ![c] = @ - 1]
    /\ Advance(t, "lock")
    /\ UNCHANGED <<loop, state, hand, error, queue, mutex, open>>

\* A thread is free to make a call: a client at any time, the thread of a
\* component while it dispatches a message or serves its servants.
Free(t) ==
    /\ call[t].step = "none"
    /\ t \in Components => loop[t] \in {"dispatch", "servants"}

\* An API function is entered with the handle of another component.  Once a
\* client closes a component, nothing else uses its handle.
Begin(t, c, class) ==
    /\ Free(t) /\ c \in open
    /\ t \in Components => <<t, c>> \in Peers /\ class # "DeInit"
    /\ class # "Init"
    /\ class = "DeInit" => \A u \in Threads : call[u].to # c
    /\ open' = IF class = "DeInit" THEN open \ {c} ELSE open
    /\ call' = [call EXCEPT ![t] =
            [step |-> IF Waits(class) THEN "lock" ELSE "send",
             to |-> c, class |-> class]]
    /\ UNCHANGED <<loop, state, hand, error, queue, mutex, sem>>

\* Mutant: blocking calls do not exclude each other.
LockNothing(t) ==
    /\ call[t].step = "lock"
    /\ mutex' = [mutex EXCEPT ![call[t].to] = t]
    /\ Advance(t, "send")
    /\ UNCHANGED <<loop, state, hand, error, queue, sem, open>>

\* send_msg takes the mutex for a blocking call only.
Lock(t) ==
    LET c == call[t].to IN
    /\ call[t].step = "lock" /\ mutex[c] = Nobody
    /\ mutex' = [mutex EXCEPT ![c] = t]
    /\ Advance(t, "send")
    /\ UNCHANGED <<loop, state, hand, error, queue, sem, open>>

\* A call of a component's thread on a peer is the only one in its phase.
Returned(t) ==
    call' = [call EXCEPT ![t] =
                IF t \in Components THEN [NoCall EXCEPT !.step = "done"]
                ELSE NoCall]

\* tiz_queue_send, which blocks while the queue is full.
Send(t) ==
    LET c == call[t].to IN
    /\ call[t].step = "send" /\ Len(queue[c]) < Capacity
    /\ queue' = [queue EXCEPT ![c] = Append(@, Message(t))]
    /\ IF Waits(call[t].class) THEN Advance(t, "wait") ELSE Returned(t)
    /\ UNCHANGED <<loop, state, hand, error, mutex, sem, open>>

\* tiz_sem_wait of send_msg_blocking.
Wait(t) ==
    LET c == call[t].to IN
    /\ call[t].step = "wait" /\ sem[c] > 0
    /\ sem' = [sem EXCEPT ![c] = @ - 1]
    /\ Advance(t, "answer")
    /\ UNCHANGED <<loop, state, hand, error, queue, mutex, open>>

\* The caller reads error and gives the mutex back.  The handle of a new
\* component becomes known, that of a closed one waits for its thread.
Answer(t) ==
    LET c == call[t].to IN
    /\ call[t].step = "answer"
    /\ mutex' = [mutex EXCEPT ![c] = Nobody]
    /\ open' = IF call[t].class = "Init" THEN open \cup {c} ELSE open
    /\ IF call[t].class = "DeInit" THEN Advance(t, "join") ELSE Returned(t)
    /\ UNCHANGED <<loop, state, hand, error, queue, sem>>

\* delete_scheduler joins the thread and frees the scheduler.
Join(t) ==
    LET c == call[t].to IN
    /\ call[t].step = "join" /\ loop[c] = "exited"
    /\ loop' = [loop EXCEPT ![c] = "unborn"]
    /\ queue' = [queue EXCEPT ![c] = <<>>]
    /\ error' = [error EXCEPT ![c] = Nobody]
    /\ Returned(t)
    /\ UNCHANGED <<state, hand, mutex, sem, open>>
-----------------------------------------------------------------------------
\* il_sched_thread_func takes the next message.
Receive(c) ==
    /\ loop[c] = "receive" /\ queue[c] # <<>>
    /\ hand' = [hand EXCEPT ![c] = Head(queue[c])]
    /\ queue' = [queue EXCEPT ![c] = Tail(@)]
    /\ loop' = [loop EXCEPT ![c] = "dispatch"]
    /\ UNCHANGED <<state, error, mutex, sem, open, call>>

\* The thread makes no call, or no more in this phase.
PhaseEnds(c) ==
    /\ call[c].step \in {"none", "done"}
    /\ call' = [call EXCEPT ![c] = NoCall]

StateAfter(class, now) ==
    CASE class = "Init" -> "Started"
      [] class = "DeInit" -> "Stopped"
      [] OTHER -> now

\* dispatch_msg has run the handler of the message and stores the result.
Dispatch(c) ==
    /\ loop[c] = "dispatch" /\ PhaseEnds(c)
    /\ state' = [state EXCEPT ![c] = StateAfter(hand[c].class, @)]
    /\ error' = [error EXCEPT ![c] = hand[c]]
    /\ hand' = [hand EXCEPT ![c] = Nobody]
    /\ loop' = [loop EXCEPT ![c] =
                    IF Waits(hand[c].class) THEN "post" ELSE "servants"]
    /\ UNCHANGED <<queue, mutex, sem, open>>

\* The caller is signalled; a stopped scheduler leaves its loop.
Post(c) ==
    /\ loop[c] = "post"
    /\ sem' = [sem EXCEPT ![c] = @ + 1]
    /\ loop' = [loop EXCEPT ![c] =
                    IF state[c] = "Stopped" THEN "exited" ELSE "servants"]
    /\ UNCHANGED <<state, hand, error, queue, mutex, open, call>>

\* Mutant: the passes go on although a message is waiting.
ServeForEver(c) ==
    /\ loop[c] = "servants" /\ PhaseEnds(c)
    /\ UNCHANGED <<loop, state, hand, error, queue, mutex, sem, open>>

\* schedule_servants returns: a pass has ended with a message waiting, or no
\* servant has work.
EndServants(c) ==
    /\ loop[c] = "servants" /\ PhaseEnds(c)
    /\ loop' = [loop EXCEPT ![c] = "receive"]
    /\ UNCHANGED <<state, hand, error, queue, mutex, sem, open>>

\* The client calls the API from within a callback: send_msg finds that it is
\* on the component's thread and dispatches the message at once.
Reenter(c) ==
    /\ loop[c] \in {"dispatch", "servants"} /\ c \in open
    /\ call[c].step \in {"none", "done"}
    /\ error' = [error EXCEPT ![c] = [from |-> c, class |-> "Call"]]
    /\ UNCHANGED <<loop, state, hand, queue, mutex, sem, open, call>>

CallerStep(t) ==
    \/ Started(t) \/ Lock(t) \/ Send(t) \/ Wait(t) \/ Answer(t) \/ Join(t)

LoopStep(c) ==
    \/ ThreadStarts(c) \/ Receive(c) \/ Dispatch(c) \/ Post(c) \/ EndServants(c)

Next ==
    \/ \E t \in Threads, c \in Components :
        \/ Open(t, c)
        \/ \E class \in Classes : Begin(t, c, class)
    \/ \E t \in Threads : CallerStep(t)
    \/ \E c \in Components : LoopStep(c) \/ Reenter(c)

Spec == Init /\ [][Next]_vars

\* The operating system runs every thread that can run, and starves none that
\* contends for a mutex or for room in a queue.  Nothing obliges a thread to
\* begin a call.
Fairness ==
    /\ \A t \in Callers :
        /\ WF_vars(Started(t) \/ Wait(t) \/ Answer(t) \/ Join(t))
        /\ SF_vars(Lock(t)) /\ SF_vars(Send(t))
    /\ \A c \in Components : WF_vars(LoopStep(c))

FairSpec == Spec /\ Fairness
-----------------------------------------------------------------------------
Calls == [step : Steps, to : Components \cup {Nobody}, class : Classes]

TypeOK ==
    /\ loop \in [Components -> Loop]
    /\ state \in [Components -> {"Stopped", "Starting", "Started"}]
    /\ hand \in [Components -> Messages \cup {Nobody}]
    /\ error \in [Components -> Messages \cup {Nobody}]
    /\ queue \in [Components -> Seq(Messages)]
    /\ mutex \in [Components -> Threads \cup {Nobody}]
    /\ sem \in [Components -> Nat]
    /\ open \subseteq Components
    /\ call \in [Threads -> Calls]

\* A handler of the scheduler runs only in the state that it asserts
\* (tizscheduler.c:629, 638, 651, 669, ...): ComponentInit in the first, all
\* others once it is over, whatever clients and peers call meanwhile.
HandlersFindTheirState ==
    \A c \in Components :
        loop[c] = "dispatch" =>
            state[c] = IF hand[c].class = "Init" THEN "Starting" ELSE "Started"

\* The semaphore is a binary one that belongs to the holder of the mutex: it is
\* up only while its message has been processed and its result not fetched, or
\* while the creator of the component waits for the thread to start.
TokenIsOwed ==
    \A c \in Components :
        sem[c] > 0 =>
            /\ sem[c] = 1
            /\ \E t \in Threads :
                /\ call[t].to = c
                /\ \/ call[t].step = "wait" /\ mutex[c] = t
                      /\ hand[c] # Message(t)
                      /\ \A i \in 1 .. Len(queue[c]) : queue[c][i] # Message(t)
                   \/ call[t].step = "start"

\* Whoever has begun a call gets back from it.
CallsReturn ==
    \A t \in Callers :
        call[t].step \notin {"none", "done"} ~> call[t].step \in {"none", "done"}

\* A call counts as called from the time its message is sent until its caller
\* has the result, and as served once the scheduler's thread has dispatched it.
Sent(t) ==
    LET c == call[t].to IN
    \/ hand[c] = Message(t)
    \/ \E i \in 1 .. Len(queue[c]) : queue[c][i] = Message(t)

Status == [t \in Threads |->
    IF call[t].step \in {"wait", "answer"}
    THEN IF Sent(t) THEN "called" ELSE "served"
    ELSE "idle"]

Promised == INSTANCE SyncCalls WITH status <- Status

\* To every caller a blocking API is a synchronous exchange.
ImplementsSyncCalls == Promised!Spec

=============================================================================
