------------------------------- MODULE TizRm -------------------------------
(***************************************************************************)
(* The resource manager: the daemon (tizrmd.cpp) with the tables it keeps  *)
(* in SQLite (tizrmdb.cpp), and its clients behind the proxy               *)
(* (tizrmproxy.cc), which are the kernels of the components.  A call is a  *)
(* D-Bus method the daemon serves to the end before the next one; what it  *)
(* has to say later comes as a signal, which a thread of the proxy         *)
(* delivers after any delay, in order.                                     *)
(*                                                                         *)
(* Every request is for one unit, as all of the code's are                 *)
(* (tizkernel_helpers.inl:1104), so that the loop of tizrmd::acquire stops *)
(* at its first owner and the list of signaled owners has one member.      *)
(***************************************************************************)
EXTENDS Integers, SequencesExt, FiniteSetsExt, Lists

CONSTANTS
    Clients,        \* the components, one UUID each
    Rids,           \* the resources of tiz_rm_resource_id_t
    Total,          \* Total[r]: the units of r that the database provides
    Priority,       \* Priority[c]: nGroupPriority; a smaller number preempts
    Provisioned,    \* the pairs <<c, r>> of the components table
    MaxHeld,        \* bound: units a client takes on purpose
    MaxLine,        \* bound: entries of the line when a client joins it
    MaxSignals,     \* bound: signals on their way to a client that is preempted
    MaxFaults       \* bound: cancelled waits, departures and restarts

ASSUME RmAssumption ==
    /\ IsFiniteSet(Clients)
    /\ Total \in [Rids -> Nat]
    /\ Priority \in [Clients -> Nat]
    /\ Provisioned \subseteq Clients \X Rids
    /\ MaxHeld \in Nat
    /\ MaxLine \in Nat
    /\ MaxSignals \in Nat
    /\ MaxFaults \in Nat

Claims == [client : Clients, rid : Rids]
Claim(c, r) == [client |-> c, rid |-> r]

Signals == [kind : {"WaitComplete", "PreemptionReq", "PreemptionComplete"},
            rid : Rids]
Signal(kind, r) == [kind |-> kind, rid |-> r]

VARIABLES
    current,        \* resources table: the units of each resource that are free
    rows,           \* allocation table: one row per unit, oldest first
    waiters,        \* waiters_, in order of arrival
    preemptions,    \* preemptions_: at most one owner and its preemptor by priority
    inbox,          \* the signals on their way to each client
    clients,        \* clients_ of the proxies: who is registered
    held,           \* the units each client believes are its own
    request,        \* what each client waits for, or NoRequest
    asked,          \* the resources each client has been asked to give up
    faults          \* history: how many cancelled, left or restarted so far

daemon == <<current, rows, waiters, preemptions>>
client == <<inbox, clients, held, request, asked>>
vars == <<daemon, client, faults>>

NoRequest == [for |-> "Nothing"]
WaitFor(r) == [for |-> "Wait", rid |-> r]
Preempt(r) == [for |-> "Preemption", rid |-> r]
Requests == {NoRequest} \cup [for : {"Wait", "Preemption"}, rid : Rids]

Preemptions == [owner : Claims, preemptor : Claims]
Priorities == {Priority[c] : c \in Clients}
NoPreemptions == [p \in Priorities |-> {}]

Owns(c, r) == Claim(c, r) \in ToSet(rows)

\* The sort of find_owners is stable and acquire reads the list from its end:
\* the latest of the owners with the least important priority above c's.
Owners(c, r) ==
    {i \in DOMAIN rows : /\ rows[i].rid = r
                         /\ Priority[rows[i].client] > Priority[c]}

Victim(c, r) ==
    LET Less(i) == {j \in Owners(c, r) :
                      Priority[rows[j].client] > Priority[rows[i].client]}
    IN  rows[Max({i \in Owners(c, r) : Less(i) = {}})]

Post(box, c, kind, r) == [box EXCEPT ![c] = Append(@, Signal(kind, r))]

RemoveClaims(list, c, r) == Only(list, Claims \ {Claim(c, r)})
RemoveClient(list, c) == Only(list, {x \in Claims : x.client # c})

-----------------------------------------------------------------------------
Init ==
    /\ current = Total
    /\ rows = <<>>
    /\ waiters = <<>>
    /\ preemptions = NoPreemptions
    /\ inbox = [c \in Clients |-> <<>>]
    /\ clients = Clients
    /\ held = [c \in Clients |-> [r \in Rids |-> 0]]
    /\ request = [c \in Clients |-> NoRequest]
    /\ asked = [c \in Clients |-> {}]
    /\ faults = 0

Fault ==
    /\ faults < MaxFaults
    /\ faults' = faults + 1

\* A client asks for one thing at a time.
MayAsk(c, r) ==
    /\ c \in clients
    /\ request[c] = NoRequest
    /\ <<c, r>> \in Provisioned
    /\ held[c][r] < MaxHeld

\* The unit is there: a row is inserted even when the client has one.
Grant(c, r) ==
    /\ current' = [current EXCEPT ![r] = @ - 1]
    /\ rows' = Append(rows, Claim(c, r))

\* tizrmd::acquire and tizrmd::wait alike when a unit is free.
TakeFree(c, r) ==
    /\ MayAsk(c, r)
    /\ current[r] > 0
    /\ Grant(c, r)
    /\ held' = [held EXCEPT ![c][r] = @ + 1]
    /\ UNCHANGED <<waiters, preemptions, inbox, clients, request, asked, faults>>

\* No unit is left but an owner of less importance has one.  The insertion into
\* preemptions_ changes nothing when an entry with that priority is there.
AcquirePreempting(c, r) ==
    /\ MayAsk(c, r)
    /\ current[r] = 0
    /\ Owners(c, r) # {}
    /\ LET v == Victim(c, r)
       IN  /\ Len(inbox[v.client]) < MaxSignals
           /\ inbox' = Post(inbox, v.client, "PreemptionReq", r)
           /\ preemptions' = [preemptions EXCEPT ![Priority[v.client]] =
                IF @ = {} THEN {[owner |-> v, preemptor |-> Claim(c, r)]} ELSE @]
    /\ request' = [request EXCEPT ![c] = Preempt(r)]
    /\ UNCHANGED <<current, rows, waiters, clients, held, asked, faults>>

\* Mutant: the newest waiter goes first.
WaitAtFront(c, r) ==
    /\ MayAsk(c, r)
    /\ current[r] = 0
    /\ Len(waiters) < MaxLine
    /\ waiters' = <<Claim(c, r)>> \o waiters
    /\ request' = [request EXCEPT ![c] = WaitFor(r)]
    /\ UNCHANGED <<current, rows, preemptions, inbox, clients, held, asked, faults>>

WaitInLine(c, r) ==
    /\ MayAsk(c, r)
    /\ current[r] = 0
    /\ Len(waiters) < MaxLine
    /\ waiters' = Append(waiters, Claim(c, r))
    /\ request' = [request EXCEPT ![c] = WaitFor(r)]
    /\ UNCHANGED <<current, rows, preemptions, inbox, clients, held, asked, faults>>

\* The client is done with a unit, whatever the daemon answers: the kernel
\* ignores the result of a release.
GiveUp(c, r) ==
    /\ held' = [held EXCEPT ![c][r] = @ - 1]
    /\ asked' = [asked EXCEPT ![c] = IF held[c][r] = 1 THEN @ \ {r} ELSE @]

\* release_resource refuses a client without a row, whose table went with a
\* restart or whose rows went all together with its last release.
ReleaseRefused(c, r) ==
    /\ held[c][r] > 0
    /\ ~Owns(c, r)
    /\ GiveUp(c, r)
    /\ UNCHANGED <<daemon, inbox, clients, request, faults>>

\* Mutant: the waiters are left where they are.
ReleaseForNobody(c, r) ==
    /\ held[c][r] > 0
    /\ Owns(c, r)
    /\ current' = [current EXCEPT ![r] = @ + 1]
    /\ rows' = RemoveClaims(rows, c, r)
    /\ GiveUp(c, r)
    /\ UNCHANGED <<waiters, preemptions, inbox, clients, request, faults>>

\* Every row of the client goes and one unit comes back, for the first waiter
\* of that resource if there is one.
Release(c, r) ==
    /\ held[c][r] > 0
    /\ Owns(c, r)
    /\ LET line == {i \in DOMAIN waiters : waiters[i].rid = r}
           next == waiters[Min(line)].client
           left == RemoveClaims(rows, c, r)
       IN  IF line = {}
           THEN /\ current' = [current EXCEPT ![r] = @ + 1]
                /\ rows' = left
                /\ UNCHANGED <<waiters, inbox>>
           ELSE /\ rows' = Append(left, Claim(next, r))
                /\ waiters' = RemoveAt(waiters, Min(line))
                /\ inbox' = Post(inbox, next, "WaitComplete", r)
                /\ UNCHANGED current
    /\ GiveUp(c, r)
    /\ UNCHANGED <<preemptions, clients, request, faults>>

\* Every entry of the client goes, whatever its resource.
CancelWait(c) ==
    /\ request[c].for = "Wait"
    /\ waiters' = RemoveClient(waiters, c)
    /\ request' = [request EXCEPT ![c] = NoRequest]
    /\ Fault
    /\ UNCHANGED <<current, rows, preemptions, inbox, clients, held, asked>>

Confirms(c, r) == r \in asked[c]

\* MISUSE, or nothing to release: an entry that was found stays.
ConfRefused(c, r) ==
    /\ Confirms(c, r)
    /\ preemptions[Priority[c]] # {} => ~Owns(c, r)
    /\ asked' = [asked EXCEPT ![c] = @ \ {r}]
    /\ UNCHANGED <<daemon, inbox, clients, held, request, faults>>

\* Mutant: the row that goes is the one of the owner in the entry.
ConfirmForOwner(c, r) ==
    /\ Confirms(c, r)
    /\ Owns(c, r)
    /\ \E entry \in preemptions[Priority[c]] :
       LET p == entry.preemptor
           free == [current EXCEPT ![r] = @ + 1]
           left == RemoveClaims(rows, entry.owner.client, r)
       IN  /\ IF free[p.rid] > 0
              THEN /\ current' = [free EXCEPT ![p.rid] = @ - 1]
                   /\ rows' = Append(left, p)
              ELSE /\ current' = free
                   /\ rows' = left
           /\ inbox' = Post(inbox, p.client, "PreemptionComplete", p.rid)
    /\ preemptions' = [preemptions EXCEPT ![Priority[c]] = {}]
    /\ GiveUp(c, r)
    /\ UNCHANGED <<waiters, clients, request, faults>>

\* The entry is the one of the client's priority, which another owner's
\* preemption may have made.  Its preemptor is told that it has the unit even if
\* the daemon could not reserve it.
Confirm(c, r) ==
    /\ Confirms(c, r)
    /\ Owns(c, r)
    /\ \E entry \in preemptions[Priority[c]] :
       LET p == entry.preemptor
           free == [current EXCEPT ![r] = @ + 1]
           left == RemoveClaims(rows, c, r)
       IN  /\ IF free[p.rid] > 0
              THEN /\ current' = [free EXCEPT ![p.rid] = @ - 1]
                   /\ rows' = Append(left, p)
              ELSE /\ current' = free
                   /\ rows' = left
           /\ inbox' = Post(inbox, p.client, "PreemptionComplete", p.rid)
    /\ preemptions' = [preemptions EXCEPT ![Priority[c]] = {}]
    /\ GiveUp(c, r)
    /\ UNCHANGED <<waiters, clients, request, faults>>

\* std::remove_if without erase: the elements that stay move to the front, the
\* tail of the list remains as it was.
RemoveIf(list, c) ==
    LET kept == RemoveClient(list, c)
    IN  kept \o SubSeq(list, Len(kept) + 1, Len(list))

\* release_all gives back the allocation of the last row only and deletes all.
\* Nobody in line is served, no preemption of the client is forgotten.
Unregister(c) ==
    /\ c \in clients
    /\ current' = [r \in Rids |-> current[r] + IF Owns(c, r) THEN 1 ELSE 0]
    /\ rows' = RemoveClient(rows, c)
    /\ waiters' = RemoveIf(waiters, c)
    /\ clients' = clients \ {c}
    /\ inbox' = [inbox EXCEPT ![c] = <<>>]
    /\ held' = [held EXCEPT ![c] = [r \in Rids |-> 0]]
    /\ request' = [request EXCEPT ![c] = NoRequest]
    /\ asked' = [asked EXCEPT ![c] = {}]
    /\ Fault
    /\ UNCHANGED preemptions

\* Mutant: what a client does not wait for any more passes it by.
DeliverIfAwaited(c) ==
    /\ c \in clients
    /\ inbox[c] # <<>>
    /\ LET s == Head(inbox[c])
       IN  IF s.kind = "PreemptionReq"
           THEN /\ asked' = [asked EXCEPT ![c] = IF held[c][s.rid] > 0
                                                 THEN @ \cup {s.rid} ELSE @]
                /\ UNCHANGED <<held, request>>
           ELSE /\ held' = [held EXCEPT ![c][s.rid] =
                               IF request[c] = NoRequest THEN @ ELSE @ + 1]
                /\ request' = [request EXCEPT ![c] = NoRequest]
                /\ UNCHANGED asked
    /\ inbox' = [inbox EXCEPT ![c] = Tail(@)]
    /\ UNCHANGED <<daemon, clients, faults>>

\* A thread of the proxy calls the client back.  A signal for a client that is
\* not registered any more goes nowhere: Ignore.
Deliver(c) ==
    /\ c \in clients
    /\ inbox[c] # <<>>
    /\ LET s == Head(inbox[c])
       IN  IF s.kind = "PreemptionReq"
           THEN /\ asked' = [asked EXCEPT ![c] = IF held[c][s.rid] > 0
                                                 THEN @ \cup {s.rid} ELSE @]
                /\ UNCHANGED <<held, request>>
           ELSE /\ held' = [held EXCEPT ![c][s.rid] = @ + 1]
                /\ request' = [request EXCEPT ![c] =
                     IF @ \in {WaitFor(s.rid), Preempt(s.rid)} THEN NoRequest ELSE @]
                /\ UNCHANGED asked
    /\ inbox' = [inbox EXCEPT ![c] = Tail(@)]
    /\ UNCHANGED <<daemon, clients, faults>>

Ignore(c) ==
    /\ c \notin clients
    /\ inbox[c] # <<>>
    /\ inbox' = [inbox EXCEPT ![c] = Tail(@)]
    /\ UNCHANGED <<daemon, clients, held, request, asked, faults>>

\* Mutant: the units come back while their owners still use them.
RestartAfresh ==
    /\ current' = Total
    /\ rows' = <<>>
    /\ waiters' = <<>>
    /\ preemptions' = NoPreemptions
    /\ Fault
    /\ UNCHANGED client

\* A new daemon drops the allocation table and has empty lists, but takes the
\* units of the resources table as the last one left them.  The signals on their
\* way arrive.  CancelWait on a client in line may end here too: it goes on from
\* an iterator it has erased.
Restart ==
    /\ rows' = <<>>
    /\ waiters' = <<>>
    /\ preemptions' = NoPreemptions
    /\ Fault
    /\ UNCHANGED <<current, client>>

-----------------------------------------------------------------------------
Next ==
    \/ \E c \in Clients, r \in Rids :
          \/ TakeFree(c, r)
          \/ AcquirePreempting(c, r)
          \/ WaitInLine(c, r)
          \/ Release(c, r)
          \/ ReleaseRefused(c, r)
          \/ Confirm(c, r)
          \/ ConfRefused(c, r)
    \/ \E c \in Clients :
          \/ CancelWait(c)
          \/ Unregister(c)
          \/ Deliver(c)
          \/ Ignore(c)
    \/ Restart

Spec == Init /\ [][Next]_vars

\* Callbacks run, and no owner keeps a unit for ever: its component goes back to
\* Loaded in the end.
Fairness ==
    /\ \A c \in Clients : WF_vars(Deliver(c))
    /\ \A c \in Clients, r \in Rids : WF_vars(Release(c, r) \/ ReleaseRefused(c, r))

FairSpec == Spec /\ Fairness

-----------------------------------------------------------------------------
\* The units of r that c has been given and does not know of yet.
Told(c, r) ==
    Count(inbox[c], Signal("WaitComplete", r)) + Count(inbox[c], Signal("PreemptionComplete", r))

\* A resource is never given away twice: the units free and those that clients
\* use or are about to use are never more than there are, through preemption,
\* departures, late signals and restarts.
NeverOversold ==
    \A r \in Rids :
        current[r] + SumFunction([c \in Clients |-> held[c][r] + Told(c, r)]) <= Total[r]

\* No unit is forgotten: a row of a client that is still there is a unit the
\* client has, or will hear of, so that somebody can release it.
NoForgottenUnit ==
    \A c \in clients, r \in Rids : Count(rows, Claim(c, r)) <= held[c][r] + Told(c, r)

\* The comment of tizrmproxy::unregister_client (tizrmproxy.cc:105): it releases
\* all the resources of the client and cancels its outstanding requests.
GoneOwnNothing == \A x \in ToSet(rows) : x.client \in clients

\* A client loses its units to nobody: they go by its own release, its own
\* confirmation or its own departure, or with the whole table.
NobodyIsRobbed ==
    [][\A c \in Clients, r \in Rids :
          Owns(c, r) /\ ~Owns(c, r)' =>
              \/ held'[c][r] < held[c][r]
              \/ c \notin clients'
              \/ rows' = <<>> /\ current' = current]_vars

Place(line, c, r) == Places(line, Claim(c, r))

InFrontOf(line, c, d, r) ==
    /\ Place(line, c, r) # {}
    /\ \A i \in Place(line, d, r) : \E j \in Place(line, c, r) : j < i

Granted(c, r) == Count(inbox[c], Signal("WaitComplete", r))

\* The line is first come, first served: whoever joins stands behind, and nobody
\* gets a unit by wait_complete while a client that came before stays in line,
\* whoever else cancels or leaves.
FirstComeFirstServed ==
    [][\A c, d \in clients, r \in Rids :
          /\ c # d
          /\ InFrontOf(waiters, c, d, r)
          /\ c \in clients'
          /\ Place(waiters', c, r) # {} /\ Granted(c, r)' <= Granted(c, r)
          => /\ InFrontOf(waiters', c, d, r)
             /\ Granted(d, r)' <= Granted(d, r)]_vars

\* Whoever waits is served, if nobody leaves or cancels and the daemon stays up.
WaitersAreServed ==
    [](faults = 0) => \A c \in Clients, r \in Rids : request[c] = WaitFor(r) ~> held[c][r] > 0
=============================================================================
