----------------------------- MODULE TizRmProof -----------------------------
(***************************************************************************)
(* Proofs about the resource manager, for any clients, resources, units    *)
(* and priorities, any bounds on the lines and any number of faults.       *)
(***************************************************************************)
EXTENDS TizRm, DataLemmas

\* The type invariant.
TypeOK ==
    /\ current \in [Rids -> Nat]
    /\ rows \in Seq(Claims)
    /\ waiters \in Seq(Claims)
    /\ preemptions \in [Priorities -> SUBSET Preemptions]
    /\ inbox \in [Clients -> Seq(Signals)]
    /\ clients \in SUBSET Clients
    /\ held \in [Clients -> [Rids -> Nat]]
    /\ request \in [Clients -> Requests]
    /\ asked \in [Clients -> SUBSET Rids]
    /\ faults \in Nat

\* Nobody is asked for a unit it does not have, so no confirmation gives up more
\* than there is.
AskedHeld == \A c \in Clients : \A r \in asked[c] : held[c][r] > 0

-----------------------------------------------------------------------------
(* What the operators return *)

\* A claim is known by its client and its resource.
LEMMA ClaimType ==
    ASSUME NEW c \in Clients, NEW r \in Rids
    PROVE  /\ Claim(c, r) \in Claims
           /\ \A d, q : Claim(d, q) = Claim(c, r) => d = c /\ q = r
BY DEF Claim, Claims

\* A signal is known by its kind and its resource.
LEMMA SignalType ==
    ASSUME NEW k \in {"WaitComplete", "PreemptionReq", "PreemptionComplete"},
           NEW r \in Rids
    PROVE  /\ Signal(k, r) \in Signals
           /\ \A j, q : Signal(j, q) = Signal(k, r) => j = k /\ q = r
BY DEF Signal, Signals

\* An owner of lesser importance is found when there is one.
LEMMA VictimType ==
    ASSUME TypeOK, NEW c \in Clients, NEW r \in Rids, Owners(c, r) # {}
    PROVE  Victim(c, r) \in Claims
<1> DEFINE O == Owners(c, r)
           f == [i \in O |-> Priority[rows[i].client]]
           Least == {i \in O : {j \in O : Priority[rows[j].client] > Priority[rows[i].client]} = {}}
<1>1. Len(rows) \in Nat /\ DOMAIN rows = 1 .. Len(rows)
      /\ \A i \in 1 .. Len(rows) : rows[i] \in Claims
  BY DEF TypeOK
<1>2. O \in SUBSET (1 .. Len(rows)) /\ IsFiniteSet(O)
  <2>1. O \in SUBSET (1 .. Len(rows)) /\ IsFiniteSet(1 .. Len(rows))
    BY <1>1, FS_Interval DEF Owners
  <2> QED BY <2>1, FS_Subset
<1>3. \A i \in O : Priority[rows[i].client] \in Nat
  BY <1>1, <1>2, RmAssumption DEF Claims
<1> HIDE DEF O
<1>4. f \in [O -> Int] /\ O # {}
  BY <1>3 DEF O
<1>5. PICK x \in O : \A y \in O : f[y] <= f[x]
  BY <1>2, <1>4, LargestValue
<1>6. x \in Least
  <2>1. ASSUME NEW j \in O PROVE ~(Priority[rows[j].client] > Priority[rows[x].client])
    <3>1. f[j] <= f[x]
      BY <1>5
    <3>2. f[j] = Priority[rows[j].client] /\ f[x] = Priority[rows[x].client]
      OBVIOUS
    <3> HIDE DEF f
    <3> QED BY <3>1, <3>2, <1>3
  <2> QED BY <2>1
<1>7. Least \in SUBSET (0 .. Len(rows)) /\ Least # {} /\ Least \in SUBSET O
  <2>1. Least \in SUBSET O
    OBVIOUS
  <2> HIDE DEF Least
  <2> QED BY <2>1, <1>1, <1>2, <1>6
<1>8. Max(Least) \in O
  BY <1>1, <1>7, MaxIsGreatest
<1>9. Victim(c, r) = rows[Max(Least)]
  BY DEF Victim, O
<1> QED BY <1>1, <1>2, <1>8, <1>9

\* A signal sent is one more in the inbox of its client.
LEMMA InboxPost ==
    ASSUME inbox \in [Clients -> Seq(Signals)],
           NEW c \in Clients, NEW r \in Rids,
           NEW k \in {"WaitComplete", "PreemptionReq", "PreemptionComplete"},
           inbox' = Post(inbox, c, k, r)
    PROVE  /\ inbox' \in [Clients -> Seq(Signals)]
           /\ \A d \in Clients, s \in Signals :
                Count(inbox'[d], s) = Count(inbox[d], s)
                                      + IF d = c /\ s = Signal(k, r) THEN 1 ELSE 0
<1>1. /\ inbox' = [inbox EXCEPT ![c] = Append(inbox[c], Signal(k, r))]
      /\ Signal(k, r) \in Signals
  BY SignalType DEF Post
<1>2. inbox' \in [Clients -> Seq(Signals)]
  BY <1>1
<1>3. ASSUME NEW d \in Clients, NEW s \in Signals
      PROVE  Count(inbox'[d], s) = Count(inbox[d], s)
                                   + IF d = c /\ s = Signal(k, r) THEN 1 ELSE 0
  <2>0. Count(inbox[d], s) \in Nat
    BY CountType
  <2>1. CASE d = c
    <3>1. inbox'[d] = Append(inbox[d], Signal(k, r))
      BY <1>1, <2>1
    <3> QED BY <1>1, <2>1, <3>1, CountAppend
  <2>2. CASE d # c
    <3>1. inbox'[d] = inbox[d]
      BY <1>1, <2>2
    <3> QED BY <2>0, <2>2, <3>1
  <2> QED BY <2>1, <2>2
<1> QED BY <1>2, <1>3

\* A signal delivered or ignored is one less.
LEMMA InboxTail ==
    ASSUME inbox \in [Clients -> Seq(Signals)], NEW c \in Clients, inbox[c] # <<>>,
           inbox' = [inbox EXCEPT ![c] = Tail(@)]
    PROVE  /\ inbox' \in [Clients -> Seq(Signals)]
           /\ Head(inbox[c]) \in Signals
           /\ \A d \in Clients, s \in Signals :
                Count(inbox[d], s) = Count(inbox'[d], s)
                                     + IF d = c /\ Head(inbox[c]) = s THEN 1 ELSE 0
<1>1. inbox[c] \in Seq(Signals) /\ Tail(inbox[c]) \in Seq(Signals)
      /\ Head(inbox[c]) \in Signals
  OBVIOUS
<1>2. inbox' \in [Clients -> Seq(Signals)]
  BY <1>1
<1>3. ASSUME NEW d \in Clients, NEW s \in Signals
      PROVE  Count(inbox[d], s) = Count(inbox'[d], s)
                                  + IF d = c /\ Head(inbox[c]) = s THEN 1 ELSE 0
  <2>0. Count(inbox[d], s) \in Nat
    BY CountType
  <2>1. CASE d = c
    <3>1. inbox'[d] = Tail(inbox[d])
      BY <2>1
    <3> QED BY <2>1, <3>1, CountTail
  <2>2. CASE d # c
    <3>1. inbox'[d] = inbox[d]
      BY <2>2
    <3> QED BY <2>0, <2>2, <3>1
  <2> QED BY <2>1, <2>2
<1> QED BY <1>1, <1>2, <1>3

\* A removal leaves a list of claims.
LEMMA RemoveTypes ==
    ASSUME NEW list \in Seq(Claims), NEW c, NEW r
    PROVE  /\ RemoveClaims(list, c, r) \in Seq(Claims)
           /\ RemoveClient(list, c) \in Seq(Claims)
           /\ RemoveIf(list, c) \in Seq(Claims)
<1>1. RemoveClaims(list, c, r) \in Seq(Claims) /\ RemoveClient(list, c) \in Seq(Claims)
  BY OnlyPicks DEF RemoveClaims, RemoveClient
<1> DEFINE kept == RemoveClient(list, c)
<1> HIDE DEF kept
<1>2. kept \in Seq(Claims) /\ Len(kept) \in Nat /\ Len(list) \in Nat
  BY <1>1 DEF kept
<1>3. SubSeq(list, Len(kept) + 1, Len(list)) \in Seq(Claims)
  <2>1. \A i \in Len(kept) + 1 .. Len(list) : list[i] \in Claims
    BY <1>2
  <2> QED BY <1>2, <2>1, SubSeqProperties
<1> QED BY <1>1, <1>2, <1>3 DEF RemoveIf, kept

\* A unit given up is one that the client has.
LEMMA GiveUpType ==
    ASSUME TypeOK, AskedHeld, NEW c \in Clients, NEW r \in Rids, held[c][r] > 0, GiveUp(c, r)
    PROVE  /\ held' \in [Clients -> [Rids -> Nat]]
           /\ asked' \in [Clients -> SUBSET Rids]
           /\ AskedHeld'
           /\ \A d \in Clients, q \in Rids :
                held'[d][q] = held[d][q] - IF d = c /\ q = r THEN 1 ELSE 0
<1>1. \A d \in Clients, q \in Rids : held[d][q] \in Nat
  BY DEF TypeOK
<1>2. held' = [held EXCEPT ![c] = [held[c] EXCEPT ![r] = held[c][r] - 1]]
  BY DEF GiveUp
<1>3. held[c][r] - 1 \in Nat
  BY <1>1
<1>4. [held[c] EXCEPT ![r] = held[c][r] - 1] \in [Rids -> Nat]
  BY <1>3 DEF TypeOK
<1>5. held' \in [Clients -> [Rids -> Nat]]
  BY <1>2, <1>4 DEF TypeOK
<1>6. \A d \in Clients, q \in Rids :
         held'[d][q] = held[d][q] - IF d = c /\ q = r THEN 1 ELSE 0
  BY <1>1, <1>2 DEF TypeOK
<1>7. asked' \in [Clients -> SUBSET Rids]
  BY DEF GiveUp, TypeOK
<1>8. ASSUME NEW d \in Clients, NEW q \in asked'[d] PROVE held'[d][q] > 0
  <2>1. q \in Rids /\ q \in asked[d]
    BY <1>7 DEF GiveUp, TypeOK
  <2>2. held[d][q] > 0
    BY <2>1 DEF AskedHeld
  <2>3. CASE d = c /\ q = r
    <3>1. held[c][r] # 1
      BY <1>8, <2>3 DEF GiveUp, TypeOK
    <3> QED BY <1>1, <1>6, <2>1, <2>2, <2>3, <3>1
  <2>4. CASE ~(d = c /\ q = r)
    BY <1>1, <1>6, <2>1, <2>2, <2>4
  <2> QED BY <2>3, <2>4
<1> QED BY <1>5, <1>6, <1>7, <1>8 DEF AskedHeld

-----------------------------------------------------------------------------
(* Types *)

\* The daemon starts with the right types, and no client is asked for anything.
LEMMA TypesInit == Init => TypeOK /\ AskedHeld
<1> SUFFICES ASSUME Init PROVE TypeOK /\ AskedHeld
  OBVIOUS
<1>1. <<>> \in Seq(Claims) /\ <<>> \in Seq(Signals)
  OBVIOUS
<1>2. inbox \in [Clients -> Seq(Signals)] /\ held \in [Clients -> [Rids -> Nat]]
  BY <1>1 DEF Init
<1>3. request \in [Clients -> Requests] /\ asked \in [Clients -> SUBSET Rids]
  BY DEF Init, Requests
<1>4. preemptions \in [Priorities -> SUBSET Preemptions]
  BY DEF Init, NoPreemptions
<1>5. AskedHeld
  BY DEF Init, AskedHeld
<1> QED BY <1>1, <1>2, <1>3, <1>4, <1>5, RmAssumption DEF Init, TypeOK

\* Every step keeps the types, and a client has what it is asked to give up.
LEMMA TypesNext == TypeOK /\ AskedHeld /\ [Next]_vars => TypeOK' /\ AskedHeld'
<1> SUFFICES ASSUME TypeOK, AskedHeld, [Next]_vars PROVE TypeOK' /\ AskedHeld'
  OBVIOUS
<1>f. faults + 1 \in Nat
  BY DEF TypeOK
<1>s. \A q \in Rids : WaitFor(q) \in Requests /\ Preempt(q) \in Requests /\ NoRequest \in Requests
  BY DEF WaitFor, Preempt, Requests
<1>a. ASSUME NEW c \in Clients, NEW r \in Rids
      PROVE  /\ TakeFree(c, r) => TypeOK' /\ AskedHeld'
             /\ AcquirePreempting(c, r) => TypeOK' /\ AskedHeld'
             /\ WaitInLine(c, r) => TypeOK' /\ AskedHeld'
             /\ Release(c, r) => TypeOK' /\ AskedHeld'
             /\ ReleaseRefused(c, r) => TypeOK' /\ AskedHeld'
             /\ Confirm(c, r) => TypeOK' /\ AskedHeld'
             /\ ConfRefused(c, r) => TypeOK' /\ AskedHeld'
  <2>0. Claim(c, r) \in Claims
    BY ClaimType
  <2>1. ASSUME TakeFree(c, r) PROVE TypeOK' /\ AskedHeld'
    <3>1. current' \in [Rids -> Nat] /\ rows' \in Seq(Claims)
      BY <2>0, <2>1 DEF TakeFree, Grant, TypeOK
    <3>2. held' \in [Clients -> [Rids -> Nat]]
      BY <2>1 DEF TakeFree, TypeOK
    <3>3. AskedHeld'
      BY <2>1 DEF TakeFree, TypeOK, AskedHeld
    <3> QED BY <2>1, <3>1, <3>2, <3>3 DEF TakeFree, TypeOK
  <2>2. ASSUME AcquirePreempting(c, r) PROVE TypeOK' /\ AskedHeld'
    <3>1. PICK v : v = Victim(c, r)
      OBVIOUS
    <3>2. v \in Claims /\ v.client \in Clients /\ Priority[v.client] \in Priorities
      BY <2>2, <3>1, VictimType DEF AcquirePreempting, Claims, Priorities
    <3>3. [owner |-> v, preemptor |-> Claim(c, r)] \in Preemptions
      BY <2>0, <3>2 DEF Preemptions
    <3>4. inbox' \in [Clients -> Seq(Signals)]
      <4>1. inbox' = Post(inbox, v.client, "PreemptionReq", r)
        BY <2>2, <3>1 DEF AcquirePreempting
      <4> QED BY <4>1, <3>2, InboxPost DEF TypeOK
    <3>5. preemptions' \in [Priorities -> SUBSET Preemptions]
      BY <2>2, <3>1, <3>2, <3>3 DEF AcquirePreempting, TypeOK
    <3>6. request' \in [Clients -> Requests]
      BY <2>2, <1>s DEF AcquirePreempting, TypeOK
    <3> QED BY <2>2, <3>4, <3>5, <3>6 DEF AcquirePreempting, TypeOK, AskedHeld
  <2>3. ASSUME WaitInLine(c, r) PROVE TypeOK' /\ AskedHeld'
    <3>1. waiters' \in Seq(Claims) /\ request' \in [Clients -> Requests]
      BY <2>0, <2>3, <1>s DEF WaitInLine, TypeOK
    <3> QED BY <2>3, <3>1 DEF WaitInLine, TypeOK, AskedHeld
  <2>4. ASSUME Release(c, r) PROVE TypeOK' /\ AskedHeld'
    <3> DEFINE line == {i \in DOMAIN waiters : waiters[i].rid = r}
               next == waiters[Min(line)].client
               left == RemoveClaims(rows, c, r)
    <3>1. left \in Seq(Claims)
      BY RemoveTypes DEF TypeOK
    <3>2. /\ held' \in [Clients -> [Rids -> Nat]]
          /\ asked' \in [Clients -> SUBSET Rids] /\ AskedHeld'
      BY <2>4, GiveUpType DEF Release
    <3>3. /\ current' \in [Rids -> Nat] /\ rows' \in Seq(Claims)
          /\ waiters' \in Seq(Claims) /\ inbox' \in [Clients -> Seq(Signals)]
      <4>1. CASE line = {}
        BY <2>4, <3>1, <4>1 DEF Release, TypeOK
      <4>2. CASE line # {}
        <5>1. Len(waiters) \in Nat /\ DOMAIN waiters = 1 .. Len(waiters)
              /\ line \in SUBSET Nat /\ line \in SUBSET (1 .. Len(waiters))
          BY DEF TypeOK
        <5>2. Min(line) \in line
          BY <4>2, <5>1, MinIsLeast
        <5>3. next \in Clients /\ Claim(next, r) \in Claims
          <6>1. waiters[Min(line)] \in Claims
            BY <5>1, <5>2 DEF TypeOK
          <6> HIDE DEF line
          <6> QED BY <6>1, ClaimType DEF Claims
        <5>4. rows' = Append(left, Claim(next, r)) /\ waiters' = RemoveAt(waiters, Min(line))
              /\ inbox' = Post(inbox, next, "WaitComplete", r) /\ current' = current
          BY <2>4, <4>2 DEF Release
        <5>5. RemoveAt(waiters, Min(line)) \in Seq(Claims)
          <6>1. Min(line) \in 1 .. Len(waiters)
            BY <5>1, <5>2
          <6> HIDE DEF line
          <6>2. SubSeq(waiters, 1, Min(line) - 1) \in Seq(Claims)
                /\ SubSeq(waiters, Min(line) + 1, Len(waiters)) \in Seq(Claims)
            BY <5>1, <6>1, SubSeqProperties DEF TypeOK
          <6> QED BY <6>2 DEF RemoveAt
        <5> HIDE DEF line, next, left
        <5>6. inbox' \in [Clients -> Seq(Signals)]
          BY <5>3, <5>4, InboxPost DEF TypeOK
        <5> QED BY <3>1, <5>3, <5>4, <5>5, <5>6 DEF TypeOK
      <4> QED BY <4>1, <4>2
    <3> QED BY <2>4, <3>2, <3>3 DEF Release, TypeOK
  <2>5. ASSUME ReleaseRefused(c, r) PROVE TypeOK' /\ AskedHeld'
    <3>1. /\ held' \in [Clients -> [Rids -> Nat]]
          /\ asked' \in [Clients -> SUBSET Rids] /\ AskedHeld'
      BY <2>5, GiveUpType DEF ReleaseRefused
    <3> QED BY <2>5, <3>1 DEF ReleaseRefused, TypeOK, daemon
  <2>6. ASSUME Confirm(c, r) PROVE TypeOK' /\ AskedHeld'
    <3>1. held[c][r] > 0
      BY <2>6 DEF Confirm, Confirms, AskedHeld
    <3>2. /\ held' \in [Clients -> [Rids -> Nat]]
          /\ asked' \in [Clients -> SUBSET Rids] /\ AskedHeld'
      BY <2>6, <3>1, GiveUpType DEF Confirm
    <3> DEFINE free == [current EXCEPT ![r] = @ + 1]
               left == RemoveClaims(rows, c, r)
    <3>3. free \in [Rids -> Nat] /\ left \in Seq(Claims)
      <4>1. left \in Seq(Claims)
        BY RemoveTypes DEF TypeOK
      <4>2. current[r] + 1 \in Nat
        BY DEF TypeOK
      <4> HIDE DEF left
      <4> QED BY <4>1, <4>2 DEF TypeOK
    <3>4. PICK entry \in preemptions[Priority[c]] :
             /\ \/ /\ free[entry.preemptor.rid] > 0
                   /\ current' = [free EXCEPT ![entry.preemptor.rid] = @ - 1]
                   /\ rows' = Append(left, entry.preemptor)
                \/ current' = free /\ rows' = left
             /\ inbox' = Post(inbox, entry.preemptor.client, "PreemptionComplete",
                              entry.preemptor.rid)
      BY <2>6 DEF Confirm
    <3>5. PICK p : p = entry.preemptor
      OBVIOUS
    <3>6. p \in Claims /\ p.client \in Clients /\ p.rid \in Rids
      <4>1. Priority[c] \in Priorities
        BY DEF Priorities
      <4>2. entry \in Preemptions
        BY <4>1 DEF TypeOK
      <4>3. p \in Claims
        BY <4>2, <3>5 DEF Preemptions
      <4> QED BY <4>3 DEF Claims
    <3> HIDE DEF free, left
    <3>7. current' \in [Rids -> Nat] /\ rows' \in Seq(Claims)
      <4>1. CASE /\ free[p.rid] > 0 /\ current' = [free EXCEPT ![p.rid] = @ - 1]
                 /\ rows' = Append(left, p)
        <5>1. free[p.rid] - 1 \in Nat
          BY <3>3, <3>6, <4>1
        <5> QED BY <3>3, <3>6, <4>1, <5>1
      <4>2. CASE current' = free /\ rows' = left
        BY <3>3, <4>2
      <4> QED BY <3>4, <3>5, <4>1, <4>2
    <3>8. inbox' \in [Clients -> Seq(Signals)]
      BY <3>4, <3>5, <3>6, InboxPost DEF TypeOK
    <3>9. preemptions' \in [Priorities -> SUBSET Preemptions]
      BY <2>6 DEF Confirm, TypeOK
    <3> QED BY <2>6, <3>2, <3>7, <3>8, <3>9 DEF Confirm, TypeOK
  <2>7. ASSUME ConfRefused(c, r) PROVE TypeOK' /\ AskedHeld'
    <3>1. asked' \in [Clients -> SUBSET Rids] /\ AskedHeld'
      BY <2>7 DEF ConfRefused, TypeOK, AskedHeld
    <3> QED BY <2>7, <3>1 DEF ConfRefused, TypeOK, daemon
  <2> QED BY <2>1, <2>2, <2>3, <2>4, <2>5, <2>6, <2>7
<1>b. ASSUME NEW c \in Clients
      PROVE  /\ CancelWait(c) => TypeOK' /\ AskedHeld'
             /\ Unregister(c) => TypeOK' /\ AskedHeld'
             /\ Deliver(c) => TypeOK' /\ AskedHeld'
             /\ Ignore(c) => TypeOK' /\ AskedHeld'
  <2>1. ASSUME CancelWait(c) PROVE TypeOK' /\ AskedHeld'
    <3>1. waiters' \in Seq(Claims)
      BY <2>1, OnlyPicks DEF CancelWait, RemoveClient, TypeOK
    <3>2. request' \in [Clients -> Requests]
      BY <2>1 DEF CancelWait, TypeOK, Requests
    <3> QED BY <2>1, <3>1, <3>2, <1>f DEF CancelWait, Fault, TypeOK, AskedHeld
  <2>2. ASSUME Unregister(c) PROVE TypeOK' /\ AskedHeld'
    <3>1. current' \in [Rids -> Nat]
      <4>1. \A q \in Rids : current[q] + (IF Owns(c, q) THEN 1 ELSE 0) \in Nat
        BY DEF TypeOK
      <4> QED BY <2>2, <4>1 DEF Unregister
    <3>2. rows' \in Seq(Claims)
      BY <2>2, OnlyPicks DEF Unregister, RemoveClient, TypeOK
    <3>3. waiters' \in Seq(Claims)
      BY <2>2, RemoveTypes DEF Unregister, TypeOK
    <3>4. inbox' \in [Clients -> Seq(Signals)] /\ held' \in [Clients -> [Rids -> Nat]]
      BY <2>2 DEF Unregister, TypeOK
    <3>5. request' \in [Clients -> Requests] /\ asked' \in [Clients -> SUBSET Rids]
      BY <2>2 DEF Unregister, TypeOK, Requests
    <3>6. AskedHeld'
      BY <2>2 DEF Unregister, TypeOK, AskedHeld
    <3> QED BY <2>2, <3>1, <3>2, <3>3, <3>4, <3>5, <3>6, <1>f DEF Unregister, Fault, TypeOK
  <2>3. ASSUME Deliver(c) PROVE TypeOK' /\ AskedHeld'
    <3>1. PICK s \in Signals : s = Head(inbox[c])
      BY <2>3, InboxTail DEF Deliver, TypeOK
    <3>2. s.rid \in Rids
      BY <3>1 DEF Signals
    <3>3. inbox' \in [Clients -> Seq(Signals)]
      BY <2>3, InboxTail DEF Deliver, TypeOK
    <3>4. request' \in [Clients -> Requests]
      BY <2>3, <3>1 DEF Deliver, TypeOK, Requests
    <3>5. /\ held' \in [Clients -> [Rids -> Nat]] /\ asked' \in [Clients -> SUBSET Rids]
          /\ AskedHeld'
      <4>1. CASE s.kind = "PreemptionReq"
        <5>1. asked' = [asked EXCEPT ![c] = IF held[c][s.rid] > 0 THEN @ \cup {s.rid} ELSE @]
              /\ held' = held
          BY <2>3, <3>1, <4>1 DEF Deliver
        <5> QED BY <5>1, <3>2 DEF TypeOK, AskedHeld
      <4>2. CASE s.kind # "PreemptionReq"
        <5>1. held' = [held EXCEPT ![c][s.rid] = @ + 1] /\ asked' = asked
          BY <2>3, <3>1, <4>2 DEF Deliver
        <5>2. held' \in [Clients -> [Rids -> Nat]]
          BY <5>1, <3>2 DEF TypeOK
        <5>3. \A d \in Clients, q \in Rids : held'[d][q] >= held[d][q]
          BY <5>1, <3>2 DEF TypeOK
        <5> QED BY <5>1, <5>2, <5>3 DEF TypeOK, AskedHeld
      <4> QED BY <4>1, <4>2
    <3> QED BY <2>3, <3>3, <3>4, <3>5 DEF Deliver, TypeOK, daemon
  <2>4. ASSUME Ignore(c) PROVE TypeOK' /\ AskedHeld'
    <3>1. inbox' \in [Clients -> Seq(Signals)]
      BY <2>4, InboxTail DEF Ignore, TypeOK
    <3> QED BY <2>4, <3>1 DEF Ignore, TypeOK, AskedHeld, daemon
  <2> QED BY <2>1, <2>2, <2>3, <2>4
<1>c. CASE Restart
  <2>1. <<>> \in Seq(Claims) /\ NoPreemptions \in [Priorities -> SUBSET Preemptions]
    BY DEF NoPreemptions
  <2> QED BY <1>c, <2>1, <1>f DEF Restart, Fault, client, TypeOK, AskedHeld
<1>d. CASE UNCHANGED vars
  BY <1>d DEF vars, daemon, client, TypeOK, AskedHeld
<1> QED BY <1>a, <1>b, <1>c, <1>d DEF Next

-----------------------------------------------------------------------------
(* No unit is forgotten *)

\* The units of a client: those it has and those it will hear of.
Load(c, r) == held[c][r] + Told(c, r)

\* What a client has and will hear of are numbers.
LEMMA LoadType ==
    ASSUME TypeOK, NEW c \in Clients, NEW r \in Rids
    PROVE  held[c][r] \in Nat /\ Told(c, r) \in Nat /\ Load(c, r) \in Nat
<1>1. inbox[c] \in Seq(Signals) /\ held[c][r] \in Nat
  BY DEF TypeOK
<1> QED BY <1>1, CountType DEF Told, Load

\* Two of the three signals tell a client of a unit.
LEMMA ToldPost ==
    ASSUME TypeOK, NEW c \in Clients, NEW r \in Rids,
           NEW k \in {"WaitComplete", "PreemptionReq", "PreemptionComplete"},
           inbox' = Post(inbox, c, k, r), NEW d \in Clients, NEW q \in Rids
    PROVE  Told(d, q)' = Told(d, q) + IF d = c /\ q = r /\ k # "PreemptionReq" THEN 1 ELSE 0
<1>1. inbox[d] \in Seq(Signals)
  BY DEF TypeOK
<1>2. /\ Count(inbox[d], Signal("WaitComplete", q)) \in Nat
      /\ Count(inbox[d], Signal("PreemptionComplete", q)) \in Nat
  BY <1>1, CountType
<1>3. ASSUME NEW j \in {"WaitComplete", "PreemptionComplete"}
      PROVE  Count(inbox'[d], Signal(j, q)) = Count(inbox[d], Signal(j, q))
                + IF d = c /\ q = r /\ j = k THEN 1 ELSE 0
  <2>1. Signal(j, q) \in Signals /\ (Signal(j, q) = Signal(k, r) <=> j = k /\ q = r)
    BY SignalType
  <2> QED BY <2>1, InboxPost DEF TypeOK
<1> QED BY <1>2, <1>3 DEF Told

\* A client that takes a signal is told of one unit less, if it told of one.
LEMMA ToldTail ==
    ASSUME TypeOK, NEW c \in Clients, inbox[c] # <<>>, inbox' = [inbox EXCEPT ![c] = Tail(@)],
           NEW s, s = Head(inbox[c]), NEW d \in Clients, NEW q \in Rids
    PROVE  /\ s \in Signals
           /\ Told(d, q) = Told(d, q)' + IF d = c /\ q = s.rid /\ s.kind # "PreemptionReq"
                                         THEN 1 ELSE 0
           /\ Told(d, q)' \in Nat
<1>1. s \in Signals /\ inbox'[d] \in Seq(Signals)
  BY InboxTail DEF TypeOK
<1>2. /\ Count(inbox'[d], Signal("WaitComplete", q)) \in Nat
      /\ Count(inbox'[d], Signal("PreemptionComplete", q)) \in Nat
  BY <1>1, CountType
<1>3. ASSUME NEW j \in {"WaitComplete", "PreemptionComplete"}
      PROVE  Count(inbox[d], Signal(j, q)) = Count(inbox'[d], Signal(j, q))
                + IF d = c /\ q = s.rid /\ j = s.kind THEN 1 ELSE 0
  <2>1. Signal(j, q) \in Signals /\ (Signal(j, q) = s <=> j = s.kind /\ q = s.rid)
    BY <1>1 DEF Signal, Signals
  <2>2. Count(inbox[d], Signal(j, q)) = Count(inbox'[d], Signal(j, q))
                + IF d = c /\ s = Signal(j, q) THEN 1 ELSE 0
    <3>1. \A x \in Signals : Count(inbox[d], x) = Count(inbox'[d], x)
                                     + IF d = c /\ Head(inbox[c]) = x THEN 1 ELSE 0
      BY InboxTail DEF TypeOK
    <3> QED BY <2>1, <3>1
  <2> QED BY <2>1, <2>2
<1>4. s.kind \in {"WaitComplete", "PreemptionReq", "PreemptionComplete"}
  BY <1>1 DEF Signals
<1> QED BY <1>1, <1>2, <1>3, <1>4 DEF Told

\* Of the rows, a removal takes those it names and no other.
LEMMA RowsRemoved ==
    ASSUME NEW list \in Seq(Claims), NEW c \in Clients, NEW r \in Rids,
           NEW d \in Clients, NEW q \in Rids
    PROVE  /\ Count(list, Claim(d, q)) \in Nat
           /\ Count(RemoveClaims(list, c, r), Claim(d, q)) =
                IF d = c /\ q = r THEN 0 ELSE Count(list, Claim(d, q))
           /\ Count(RemoveClient(list, c), Claim(d, q)) =
                IF d = c THEN 0 ELSE Count(list, Claim(d, q))
<1>1. Claim(d, q) \in Claims /\ (Claim(d, q) = Claim(c, r) <=> d = c /\ q = r)
      /\ Claim(d, q).client = d
  BY DEF Claim, Claims
<1>2. Count(list, Claim(d, q)) \in Nat
  BY CountType
<1>3. /\ Claim(d, q) \in Claims \ {Claim(c, r)} <=> ~(d = c /\ q = r)
      /\ Claim(d, q) \in {x \in Claims : x.client # c} <=> d # c
  BY <1>1
<1>4. Count(RemoveClaims(list, c, r), Claim(d, q)) =
         IF Claim(d, q) \in Claims \ {Claim(c, r)} THEN Count(list, Claim(d, q)) ELSE 0
  BY CountOnly DEF RemoveClaims
<1>5. Count(RemoveClient(list, c), Claim(d, q)) =
         IF Claim(d, q) \in {x \in Claims : x.client # c} THEN Count(list, Claim(d, q)) ELSE 0
  BY CountOnly DEF RemoveClient
<1> QED BY <1>2, <1>3, <1>4, <1>5

\* A new row counts for its own client and resource.
LEMMA RowsAppended ==
    ASSUME NEW list \in Seq(Claims), NEW c \in Clients, NEW r \in Rids,
           NEW d \in Clients, NEW q \in Rids
    PROVE  Count(Append(list, Claim(c, r)), Claim(d, q)) =
                Count(list, Claim(d, q)) + IF d = c /\ q = r THEN 1 ELSE 0
<1>1. Claim(c, r) \in Claims /\ (Claim(d, q) = Claim(c, r) <=> d = c /\ q = r)
  BY ClaimType
<1> QED BY <1>1, CountAppend

\* The effect of a release, of a confirmation and of a delivery on what the
\* clients have or will hear of; the other steps are plain.
LEMMA ReleaseEffect ==
    ASSUME TypeOK, AskedHeld, NEW c \in Clients, NEW r \in Rids, Release(c, r)
    PROVE  \/ /\ current' = [current EXCEPT ![r] = @ + 1]
              /\ rows' = RemoveClaims(rows, c, r)
              /\ \A d \in Clients, q \in Rids :
                   Load(d, q)' = Load(d, q) - IF d = c /\ q = r THEN 1 ELSE 0
           \/ \E n \in Clients :
                /\ current' = current
                /\ rows' = Append(RemoveClaims(rows, c, r), Claim(n, r))
                /\ \A d \in Clients, q \in Rids :
                     Load(d, q)' = Load(d, q) - (IF d = c /\ q = r THEN 1 ELSE 0)
                                              + (IF d = n /\ q = r THEN 1 ELSE 0)
<1> DEFINE line == {i \in DOMAIN waiters : waiters[i].rid = r}
           next == waiters[Min(line)].client
<1>1. \A d \in Clients, q \in Rids :
         held'[d][q] = held[d][q] - IF d = c /\ q = r THEN 1 ELSE 0
  BY GiveUpType DEF Release
<1>2. \A d \in Clients, q \in Rids :
         held[d][q] \in Nat /\ Told(d, q) \in Nat
  BY LoadType
<1>3. CASE line = {}
  <2>1. current' = [current EXCEPT ![r] = @ + 1] /\ rows' = RemoveClaims(rows, c, r)
        /\ inbox' = inbox
    BY <1>3 DEF Release
  <2>2. \A d \in Clients, q \in Rids : Told(d, q)' = Told(d, q)
    BY <2>1 DEF Told
  <2>3. \A d \in Clients, q \in Rids :
           Load(d, q)' = Load(d, q) - IF d = c /\ q = r THEN 1 ELSE 0
    BY <1>1, <1>2, <2>2 DEF Load
  <2> QED BY <2>1, <2>3
<1>4. CASE line # {}
  <2>1. Len(waiters) \in Nat /\ line \in SUBSET (1 .. Len(waiters)) /\ line \in SUBSET Nat
    BY DEF TypeOK
  <2>2. Min(line) \in line
    BY <1>4, <2>1, MinIsLeast
  <2>3. waiters[Min(line)] \in Claims
    BY <2>1, <2>2 DEF TypeOK
  <2>4. PICK n \in Clients : n = next
    BY <2>3 DEF Claims
  <2>5. rows' = Append(RemoveClaims(rows, c, r), Claim(n, r)) /\ current' = current
        /\ inbox' = Post(inbox, n, "WaitComplete", r)
    BY <1>4, <2>4 DEF Release
  <2>6. \A d \in Clients, q \in Rids :
           Told(d, q)' = Told(d, q) + IF d = n /\ q = r THEN 1 ELSE 0
    BY <2>5, ToldPost
  <2>7. \A d \in Clients, q \in Rids :
           Load(d, q)' = Load(d, q) - (IF d = c /\ q = r THEN 1 ELSE 0)
                                    + (IF d = n /\ q = r THEN 1 ELSE 0)
    BY <1>1, <1>2, <2>6 DEF Load
  <2> QED BY <2>5, <2>7
<1> QED BY <1>3, <1>4

\* What a confirmed preemption does to the units and the rows.
LEMMA ConfirmEffect ==
    ASSUME TypeOK, AskedHeld, NEW c \in Clients, NEW r \in Rids, Confirm(c, r)
    PROVE  \E p \in Claims :
             /\ IF [current EXCEPT ![r] = @ + 1][p.rid] > 0
                THEN /\ current' = [[current EXCEPT ![r] = @ + 1] EXCEPT ![p.rid] = @ - 1]
                     /\ rows' = Append(RemoveClaims(rows, c, r), Claim(p.client, p.rid))
                ELSE /\ current' = [current EXCEPT ![r] = @ + 1]
                     /\ rows' = RemoveClaims(rows, c, r)
             /\ p.client \in Clients /\ p.rid \in Rids
             /\ \A d \in Clients, q \in Rids :
                  Load(d, q)' = Load(d, q) - (IF d = c /\ q = r THEN 1 ELSE 0)
                                           + (IF d = p.client /\ q = p.rid THEN 1 ELSE 0)
<1>1. held[c][r] > 0
  BY DEF Confirm, Confirms, AskedHeld
<1>2. \A d \in Clients, q \in Rids :
         held'[d][q] = held[d][q] - IF d = c /\ q = r THEN 1 ELSE 0
  BY <1>1, GiveUpType DEF Confirm
<1>3. PICK entry \in preemptions[Priority[c]] :
         /\ IF [current EXCEPT ![r] = @ + 1][entry.preemptor.rid] > 0
            THEN /\ current' = [[current EXCEPT ![r] = @ + 1]
                                  EXCEPT ![entry.preemptor.rid] = @ - 1]
                 /\ rows' = Append(RemoveClaims(rows, c, r), entry.preemptor)
            ELSE /\ current' = [current EXCEPT ![r] = @ + 1]
                 /\ rows' = RemoveClaims(rows, c, r)
         /\ inbox' = Post(inbox, entry.preemptor.client, "PreemptionComplete",
                          entry.preemptor.rid)
  BY DEF Confirm
<1>4. PICK p \in Claims : p = entry.preemptor
  <2>1. Priority[c] \in Priorities
    BY DEF Priorities
  <2>2. entry \in Preemptions
    BY <2>1 DEF TypeOK
  <2> QED BY <2>2 DEF Preemptions
<1>5. p.client \in Clients /\ p.rid \in Rids /\ Claim(p.client, p.rid) = p
  BY DEF Claims, Claim
<1>6. \A d \in Clients, q \in Rids :
         Told(d, q)' = Told(d, q) + IF d = p.client /\ q = p.rid THEN 1 ELSE 0
  BY <1>3, <1>4, <1>5, ToldPost
<1>7. \A d \in Clients, q \in Rids :
         Load(d, q)' = Load(d, q) - (IF d = c /\ q = r THEN 1 ELSE 0)
                                  + (IF d = p.client /\ q = p.rid THEN 1 ELSE 0)
  <2>1. \A d \in Clients, q \in Rids : held[d][q] \in Nat /\ Told(d, q) \in Nat
    BY LoadType
  <2> QED BY <1>2, <1>6, <2>1 DEF Load
<1> QED BY <1>3, <1>4, <1>5, <1>7

\* A delivery makes what was told into what is held.
LEMMA DeliverEffect ==
    ASSUME TypeOK, NEW c \in Clients, Deliver(c), NEW d \in Clients, NEW q \in Rids
    PROVE  Load(d, q)' = Load(d, q)
<1>1. PICK s \in Signals : s = Head(inbox[c]) /\ s.rid \in Rids
  BY InboxTail DEF Deliver, TypeOK, Signals
<1>2. Told(d, q) = Told(d, q)' + (IF d = c /\ q = s.rid /\ s.kind # "PreemptionReq"
                                  THEN 1 ELSE 0) /\ Told(d, q)' \in Nat
  <2>1. inbox[c] # <<>> /\ inbox' = [inbox EXCEPT ![c] = Tail(@)]
    BY DEF Deliver
  <2> QED BY <1>1, <2>1, ToldTail
<1>3. held'[d][q] = held[d][q] + IF d = c /\ q = s.rid /\ s.kind # "PreemptionReq"
                                  THEN 1 ELSE 0
  <2>1. CASE s.kind = "PreemptionReq"
    <3>1. held' = held
      BY <1>1, <2>1 DEF Deliver
    <3> QED BY <2>1, <3>1, LoadType
  <2>2. CASE s.kind # "PreemptionReq"
    <3>1. held' = [held EXCEPT ![c][s.rid] = @ + 1]
      BY <1>1, <2>2 DEF Deliver
    <3> QED BY <2>2, <3>1, LoadType, <1>1 DEF TypeOK
  <2> QED BY <2>1, <2>2
<1> QED BY <1>2, <1>3, LoadType DEF Load

\* Where neither units nor signals change, neither does the load.
LEMMA LoadUnchanged ==
    ASSUME NEW d, NEW q, held'[d] = held[d], inbox'[d] = inbox[d]
    PROVE  Load(d, q)' = Load(d, q)
BY DEF Load, Told

\* A client owns what it has rows of.
LEMMA OwnsCount ==
    ASSUME TypeOK, NEW c \in Clients, NEW r \in Rids
    PROVE  /\ Count(rows, Claim(c, r)) \in Nat
           /\ Owns(c, r) <=> Count(rows, Claim(c, r)) > 0
BY CountType DEF Owns, TypeOK

\* No unit is forgotten when the daemon starts with an empty database.
LEMMA ForgottenInit == Init => NoForgottenUnit
<1> SUFFICES ASSUME Init, NEW c \in Clients, NEW r \in Rids
             PROVE  Count(rows, Claim(c, r)) <= held[c][r] + Told(c, r)
  BY DEF Init, NoForgottenUnit
<1>1. TypeOK
  BY TypesInit
<1>2. Count(rows, Claim(c, r)) = 0
  BY CountEmpty DEF Init
<1> QED BY <1>1, <1>2, LoadType

\* Every step that adds a row tells its client, or its client has the unit.
LEMMA ForgottenNext ==
    TypeOK /\ AskedHeld /\ NoForgottenUnit /\ [Next]_vars => NoForgottenUnit'
<1> SUFFICES ASSUME TypeOK, AskedHeld, NoForgottenUnit, [Next]_vars,
                    NEW d \in clients', NEW q \in Rids
             PROVE  Count(rows', Claim(d, q)) <= Load(d, q)'
  BY DEF NoForgottenUnit, Load
<1>1. d \in Clients
  BY TypesNext DEF TypeOK
<1>2. /\ Count(rows, Claim(d, q)) \in Nat /\ Load(d, q) \in Nat
      /\ d \in clients => Count(rows, Claim(d, q)) <= Load(d, q)
  BY <1>1, OwnsCount, LoadType DEF NoForgottenUnit, Load
<1>s. rows \in Seq(Claims)
  BY DEF TypeOK
<1>p. \A c \in Clients, r \in Rids : held[c][r] > 0 => Load(c, r) >= 1
  BY LoadType DEF Load
<1>a. ASSUME NEW c \in Clients, NEW r \in Rids
      PROVE  /\ TakeFree(c, r) => Count(rows', Claim(d, q)) <= Load(d, q)'
             /\ AcquirePreempting(c, r) => Count(rows', Claim(d, q)) <= Load(d, q)'
             /\ WaitInLine(c, r) => Count(rows', Claim(d, q)) <= Load(d, q)'
             /\ Release(c, r) => Count(rows', Claim(d, q)) <= Load(d, q)'
             /\ ReleaseRefused(c, r) => Count(rows', Claim(d, q)) <= Load(d, q)'
             /\ Confirm(c, r) => Count(rows', Claim(d, q)) <= Load(d, q)'
             /\ ConfRefused(c, r) => Count(rows', Claim(d, q)) <= Load(d, q)'
  <2>c. /\ Count(rows, Claim(c, r)) \in Nat /\ Load(c, r) \in Nat
        /\ d = c /\ q = r => Count(rows, Claim(d, q)) = Count(rows, Claim(c, r))
                            /\ Load(d, q) = Load(c, r)
    BY OwnsCount, LoadType
  <2>r. /\ RemoveClaims(rows, c, r) \in Seq(Claims)
        /\ Count(RemoveClaims(rows, c, r), Claim(d, q)) =
             IF d = c /\ q = r THEN 0 ELSE Count(rows, Claim(d, q))
    BY <1>1, <1>s, RemoveTypes, RowsRemoved
  <2>1. ASSUME TakeFree(c, r) PROVE Count(rows', Claim(d, q)) <= Load(d, q)'
    <3>1. Count(rows', Claim(d, q)) = Count(rows, Claim(d, q)) + IF d = c /\ q = r THEN 1 ELSE 0
      BY <1>1, <1>s, <2>1, RowsAppended DEF TakeFree, Grant
    <3>2. Load(d, q)' = Load(d, q) + IF d = c /\ q = r THEN 1 ELSE 0
      <4>1. Told(d, q)' = Told(d, q)
        BY <2>1 DEF TakeFree, Told
      <4>2. held'[d][q] = held[d][q] + IF d = c /\ q = r THEN 1 ELSE 0
        BY <1>1, <2>1, LoadType DEF TakeFree, TypeOK
      <4> QED BY <1>1, <4>1, <4>2, LoadType DEF Load
    <3>3. d \in clients
      BY <2>1 DEF TakeFree
    <3> QED BY <1>2, <3>1, <3>2, <3>3
  <2>2. ASSUME AcquirePreempting(c, r) PROVE Count(rows', Claim(d, q)) <= Load(d, q)'
    <3>1. PICK v \in Claims : v = Victim(c, r) /\ v.client \in Clients
      BY <2>2, VictimType DEF AcquirePreempting, Claims
    <3>2. inbox' = Post(inbox, v.client, "PreemptionReq", r) /\ held' = held /\ rows' = rows
          /\ clients' = clients
      BY <2>2, <3>1 DEF AcquirePreempting
    <3>3. Told(d, q)' = Told(d, q)
      BY <1>1, <3>1, <3>2, ToldPost, LoadType
    <3> QED BY <1>2, <3>2, <3>3 DEF Load
  <2>3. ASSUME WaitInLine(c, r) PROVE Count(rows', Claim(d, q)) <= Load(d, q)'
    BY <1>2, <2>3, LoadUnchanged DEF WaitInLine
  <2>4. ASSUME Release(c, r) PROVE Count(rows', Claim(d, q)) <= Load(d, q)'
    <3>1. d \in clients /\ Load(c, r) >= 1
      BY <2>4, <1>p DEF Release
    <3>2. CASE /\ rows' = RemoveClaims(rows, c, r)
               /\ Load(d, q)' = Load(d, q) - IF d = c /\ q = r THEN 1 ELSE 0
      BY <1>2, <2>c, <2>r, <3>1, <3>2
    <3>3. ASSUME NEW n \in Clients, rows' = Append(RemoveClaims(rows, c, r), Claim(n, r)),
                 Load(d, q)' = Load(d, q) - (IF d = c /\ q = r THEN 1 ELSE 0)
                                          + (IF d = n /\ q = r THEN 1 ELSE 0)
          PROVE  Count(rows', Claim(d, q)) <= Load(d, q)'
      <4>1. Count(rows', Claim(d, q)) = Count(RemoveClaims(rows, c, r), Claim(d, q))
                                        + IF d = n /\ q = r THEN 1 ELSE 0
        BY <1>1, <2>r, <3>3, RowsAppended
      <4> QED BY <1>2, <2>c, <2>r, <3>1, <3>3, <4>1
    <3> QED BY <1>1, <2>4, <3>2, <3>3, ReleaseEffect
  <2>5. ASSUME ReleaseRefused(c, r) PROVE Count(rows', Claim(d, q)) <= Load(d, q)'
    <3>1. /\ Count(rows, Claim(c, r)) = 0 /\ Load(c, r) >= 1 /\ rows' = rows
          /\ d \in clients /\ inbox' = inbox
      BY <2>5, <1>p, OwnsCount DEF ReleaseRefused, daemon
    <3>2. Load(d, q)' = Load(d, q) - IF d = c /\ q = r THEN 1 ELSE 0
      <4>1. held'[d][q] = held[d][q] - IF d = c /\ q = r THEN 1 ELSE 0
        BY <1>1, <2>5, GiveUpType DEF ReleaseRefused
      <4>2. Told(d, q)' = Told(d, q)
        BY <3>1 DEF Told
      <4> QED BY <1>1, <4>1, <4>2, LoadType DEF Load
    <3> QED BY <1>2, <2>c, <3>1, <3>2
  <2>6. ASSUME Confirm(c, r) PROVE Count(rows', Claim(d, q)) <= Load(d, q)'
    <3>1. d \in clients /\ Load(c, r) >= 1
      BY <2>6, <1>p DEF Confirm, Confirms, AskedHeld
    <3>2. PICK p \in Claims :
             /\ \/ rows' = Append(RemoveClaims(rows, c, r), Claim(p.client, p.rid))
                \/ rows' = RemoveClaims(rows, c, r)
             /\ p.client \in Clients /\ p.rid \in Rids
             /\ Load(d, q)' = Load(d, q) - (IF d = c /\ q = r THEN 1 ELSE 0)
                                         + (IF d = p.client /\ q = p.rid THEN 1 ELSE 0)
      BY <1>1, <2>6, ConfirmEffect
    <3>3. CASE rows' = RemoveClaims(rows, c, r)
      BY <1>2, <2>c, <2>r, <3>1, <3>2, <3>3
    <3>4. CASE rows' = Append(RemoveClaims(rows, c, r), Claim(p.client, p.rid))
      <4>1. Count(rows', Claim(d, q)) = Count(RemoveClaims(rows, c, r), Claim(d, q))
                                        + IF d = p.client /\ q = p.rid THEN 1 ELSE 0
        BY <1>1, <2>r, <3>2, <3>4, RowsAppended
      <4> QED BY <1>2, <2>c, <2>r, <3>1, <3>2, <4>1
    <3> QED BY <3>2, <3>3, <3>4
  <2>7. ASSUME ConfRefused(c, r) PROVE Count(rows', Claim(d, q)) <= Load(d, q)'
    BY <1>2, <2>7, LoadUnchanged DEF ConfRefused, daemon
  <2> QED BY <2>1, <2>2, <2>3, <2>4, <2>5, <2>6, <2>7
<1>b. ASSUME NEW c \in Clients
      PROVE  /\ CancelWait(c) => Count(rows', Claim(d, q)) <= Load(d, q)'
             /\ Unregister(c) => Count(rows', Claim(d, q)) <= Load(d, q)'
             /\ Deliver(c) => Count(rows', Claim(d, q)) <= Load(d, q)'
             /\ Ignore(c) => Count(rows', Claim(d, q)) <= Load(d, q)'
  <2>1. ASSUME CancelWait(c) PROVE Count(rows', Claim(d, q)) <= Load(d, q)'
    BY <1>2, <2>1, LoadUnchanged DEF CancelWait
  <2>2. ASSUME Unregister(c) PROVE Count(rows', Claim(d, q)) <= Load(d, q)'
    <3>1. d \in clients /\ d # c /\ held'[d] = held[d] /\ inbox'[d] = inbox[d]
      BY <1>1, <2>2 DEF Unregister, TypeOK
    <3>2. Count(rows', Claim(d, q)) = Count(rows, Claim(d, q))
      <4>1. \A r \in Rids : Count(RemoveClient(rows, c), Claim(d, r)) = Count(rows, Claim(d, r))
        BY <1>1, <1>s, <3>1, RowsRemoved
      <4> QED BY <2>2, <4>1 DEF Unregister
    <3> QED BY <1>2, <3>1, <3>2, LoadUnchanged
  <2>3. ASSUME Deliver(c) PROVE Count(rows', Claim(d, q)) <= Load(d, q)'
    <3>1. rows' = rows /\ clients' = clients
      BY <2>3 DEF Deliver, daemon
    <3> QED BY <1>1, <1>2, <2>3, <3>1, DeliverEffect
  <2>4. ASSUME Ignore(c) PROVE Count(rows', Claim(d, q)) <= Load(d, q)'
    <3>1. rows' = rows /\ d \in clients /\ d # c /\ held' = held /\ inbox'[d] = inbox[d]
      BY <1>1, <2>4 DEF Ignore, daemon, TypeOK
    <3> QED BY <1>2, <3>1, LoadUnchanged
  <2> QED BY <2>1, <2>2, <2>3, <2>4
<1>c. CASE Restart
  <2>1. Count(rows', Claim(d, q)) = 0 /\ Load(d, q)' = Load(d, q)
    BY <1>c, CountEmpty, LoadUnchanged DEF Restart, client
  <2> QED BY <1>2, <2>1
<1>d. CASE UNCHANGED vars
  BY <1>2, <1>d, LoadUnchanged DEF vars, daemon, client
<1> QED BY <1>a, <1>b, <1>c, <1>d DEF Next

\* What the proofs below start from.
Inv == TypeOK /\ AskedHeld /\ NoForgottenUnit

\* The three hold in every state.
LEMMA InvHolds == Spec => []Inv
<1>1. Init => Inv
  BY TypesInit, ForgottenInit DEF Inv
<1>2. Inv /\ [Next]_vars => Inv'
  BY TypesNext, ForgottenNext DEF Inv
<1> QED BY <1>1, <1>2, PTL DEF Spec

\* Every row of a client that is there is a unit that the client has or will hear
\* of, whatever signals are late and whoever leaves (tizrmd.cpp, release and
\* preemption_conf; tizrmdb.cpp, release_resource).
THEOREM UnitsNotForgotten == Spec => []NoForgottenUnit
<1>1. Inv => NoForgottenUnit
  BY DEF Inv
<1> QED BY <1>1, InvHolds, PTL

-----------------------------------------------------------------------------
(* No unit is given twice *)

\* All requests are for one resource, as the kernels' are: for
\* TIZ_RM_RESOURCE_DUMMY (tizkernel_helpers.inl, acquire_rm_resources).  With two
\* of them a confirmation may tell the preemptor of an entry that it has a unit of
\* the other one, and none was reserved.
OneResource == \A p, q \in Rids : p = q

\* The units of r that the clients have or will hear of.
Spoken(r) == SumFunction([c \in Clients |-> Load(c, r)])

\* The units spoken for are a number.
LEMMA SpokenType ==
    ASSUME TypeOK, NEW q \in Rids
    PROVE  Spoken(q) \in Int /\ current[q] \in Nat /\ Total[q] \in Nat
<1>1. [c \in Clients |-> Load(c, q)] \in [Clients -> Int]
  BY LoadType
<1> QED BY <1>1, SumIsInt, RmAssumption DEF Spoken, TypeOK

\* A step that changes the loads of at most two clients.
LEMMA SpokenChange ==
    ASSUME TypeOK, TypeOK', NEW q \in Rids, NEW a \in Clients, NEW b \in Clients,
           NEW i \in Int, NEW j \in Int,
           \A c \in Clients : Load(c, q)' = Load(c, q) + (IF c = a THEN i ELSE 0)
                                                      + (IF c = b THEN j ELSE 0)
    PROVE  Spoken(q)' = Spoken(q) + i + j
<1> DEFINE f == [c \in Clients |-> Load(c, q)]
           g == [c \in Clients |-> Load(c, q)']
<1>1. \A c \in Clients : Load(c, q) \in Nat /\ Load(c, q)' \in Nat
  <2> TAKE c \in Clients
  <2>1. inbox'[c] \in Seq(Signals) /\ held'[c][q] \in Nat
    BY DEF TypeOK
  <2>2. Told(c, q)' \in Nat
    BY <2>1, CountType DEF Told
  <2> QED BY <2>1, <2>2, LoadType DEF Load
<1>2. f \in [Clients -> Int] /\ g \in [Clients -> Int]
  BY <1>1
<1>3. g = Shifted(f, Clients, a, i, b, j)
  BY DEF Shifted
<1>4. Spoken(q) = SumFunction(f) /\ Spoken(q)' = SumFunction(g)
  BY DEF Spoken
<1> HIDE DEF f, g
<1>5. SumFunction(g) = SumFunction(f) + i + j
  BY <1>2, <1>3, SumChangeTwo, RmAssumption
<1> QED BY <1>4, <1>5

\* Where no load changes, nor does what is spoken for.
LEMMA SpokenSame ==
    ASSUME NEW q \in Rids, \A c \in Clients : Load(c, q)' = Load(c, q)
    PROVE  Spoken(q)' = Spoken(q)
<1>1. [c \in Clients |-> Load(c, q)'] = [c \in Clients |-> Load(c, q)]
  OBVIOUS
<1> QED BY <1>1 DEF Spoken

\* The property for one resource.
Fits(r) == current[r] + Spoken(r) <= Total[r]

\* The property is that of each resource.
LEMMA OversoldIsFits == NeverOversold <=> \A r \in Rids : Fits(r)
BY DEF NeverOversold, Fits, Spoken, Load

\* At the start nothing is spoken for.
LEMMA OversoldInit == Init => NeverOversold
<1> SUFFICES ASSUME Init, NEW q \in Rids PROVE Fits(q)
  BY OversoldIsFits
<1>1. TypeOK
  BY TypesInit
<1>2. \A c \in Clients : Load(c, q) = 0
  BY CountEmpty DEF Init, Load, Told
<1> DEFINE f == [c \in Clients |-> Load(c, q)]
<1>3. f \in [Clients -> Int] /\ \A c \in Clients : f[c] = 0
  BY <1>2
<1> HIDE DEF f
<1>4. SumFunction(f) = 0
  BY <1>3, SumIsInt, RmAssumption
<1>5. Spoken(q) = 0 /\ current[q] = Total[q]
  BY <1>4 DEF Spoken, f, Init
<1> QED BY <1>1, <1>5, SpokenType DEF Fits

\* With one resource, every unit that is handed out was free or given back.
LEMMA OversoldNext ==
    OneResource /\ Inv /\ NeverOversold /\ [Next]_vars => NeverOversold'
<1> SUFFICES ASSUME OneResource, Inv, NeverOversold, [Next]_vars, NEW q \in Rids
             PROVE  Fits(q)'
  <2>1. NeverOversold' <=> \A r \in Rids : Fits(r)'
    BY DEF NeverOversold, Fits, Spoken, Load
  <2> QED BY <2>1
<1> USE DEF Inv
<1>0. TypeOK'
  BY TypesNext
<1>1. /\ Spoken(q) \in Int /\ current[q] \in Nat /\ Total[q] \in Nat
      /\ current[q] + Spoken(q) <= Total[q]
  BY SpokenType, OversoldIsFits DEF Fits
<1>n. /\ 0 \in Int /\ 1 \in Int /\ -1 \in Int
      /\ \A c \in Clients, r \in Rids : Load(c, r) \in Nat
  BY LoadType
<1>s. ASSUME current'[q] = current[q], \A c \in Clients : Load(c, q)' = Load(c, q)
      PROVE  Fits(q)'
  BY <1>1, <1>s, SpokenSame DEF Fits
<1>a. ASSUME NEW c \in Clients, NEW r \in Rids
      PROVE  /\ TakeFree(c, r) => Fits(q)'
             /\ AcquirePreempting(c, r) => Fits(q)'
             /\ WaitInLine(c, r) => Fits(q)'
             /\ Release(c, r) => Fits(q)'
             /\ ReleaseRefused(c, r) => Fits(q)'
             /\ Confirm(c, r) => Fits(q)'
             /\ ConfRefused(c, r) => Fits(q)'
  <2>0. r = q
    BY DEF OneResource
  <2>1. ASSUME TakeFree(c, r) PROVE Fits(q)'
    <3>1. \A d \in Clients : Load(d, q)' = Load(d, q) + (IF d = c THEN 1 ELSE 0)
                                                      + (IF d = c THEN 0 ELSE 0)
      <4> TAKE d \in Clients
      <4>1. Told(d, q)' = Told(d, q)
        BY <2>1 DEF TakeFree, Told
      <4>2. held'[d][q] = held[d][q] + IF d = c THEN 1 ELSE 0
        BY <2>0, <2>1, LoadType DEF TakeFree, TypeOK
      <4> QED BY <4>1, <4>2, LoadType DEF Load
    <3>2. Spoken(q)' = Spoken(q) + 1 + 0
      BY <1>0, <1>n, <3>1, SpokenChange
    <3>3. current'[q] = current[q] - 1
      BY <2>0, <2>1 DEF TakeFree, Grant, TypeOK
    <3> QED BY <1>1, <3>2, <3>3 DEF Fits
  <2>2. ASSUME AcquirePreempting(c, r) PROVE Fits(q)'
    <3>1. PICK v \in Claims : v = Victim(c, r) /\ v.client \in Clients
      BY <2>2, VictimType DEF AcquirePreempting, Claims
    <3>2. inbox' = Post(inbox, v.client, "PreemptionReq", r) /\ held' = held
          /\ current' = current
      BY <2>2, <3>1 DEF AcquirePreempting
    <3>3. \A d \in Clients : Told(d, q)' = Told(d, q)
      BY <3>1, <3>2, ToldPost, LoadType
    <3>4. \A d \in Clients : Load(d, q)' = Load(d, q)
      BY <3>2, <3>3 DEF Load
    <3> QED BY <1>s, <3>2, <3>4
  <2>3. ASSUME WaitInLine(c, r) PROVE Fits(q)'
    BY <1>s, <2>3, LoadUnchanged DEF WaitInLine
  <2>4. ASSUME Release(c, r) PROVE Fits(q)'
    <3>1. CASE /\ current' = [current EXCEPT ![r] = @ + 1]
               /\ \A d \in Clients : Load(d, r)' = Load(d, r) - IF d = c THEN 1 ELSE 0
      <4>1. \A d \in Clients : Load(d, q)' = Load(d, q) + (IF d = c THEN -1 ELSE 0)
                                                        + (IF d = c THEN 0 ELSE 0)
        BY <1>n, <2>0, <3>1
      <4>2. Spoken(q)' = Spoken(q) + (-1) + 0
        BY <1>0, <1>n, <4>1, SpokenChange
      <4>3. current'[q] = current[q] + 1
        BY <2>0, <3>1 DEF TypeOK
      <4> QED BY <1>1, <4>2, <4>3 DEF Fits
    <3>2. ASSUME NEW n \in Clients, current' = current,
                 \A d \in Clients : Load(d, r)' = Load(d, r) - (IF d = c THEN 1 ELSE 0)
                                                            + (IF d = n THEN 1 ELSE 0)
          PROVE  Fits(q)'
      <4>1. \A d \in Clients : Load(d, q)' = Load(d, q) + (IF d = c THEN -1 ELSE 0)
                                                        + (IF d = n THEN 1 ELSE 0)
        BY <1>n, <2>0, <3>2
      <4>2. Spoken(q)' = Spoken(q) + (-1) + 1
        BY <1>0, <1>n, <4>1, SpokenChange
      <4> QED BY <1>1, <3>2, <4>2 DEF Fits
    <3> QED BY <2>4, <3>1, <3>2, ReleaseEffect
  <2>5. ASSUME ReleaseRefused(c, r) PROVE Fits(q)'
    <3>1. \A d \in Clients : Load(d, q)' = Load(d, q) + (IF d = c THEN -1 ELSE 0)
                                                      + (IF d = c THEN 0 ELSE 0)
      <4> TAKE d \in Clients
      <4>1. Told(d, q)' = Told(d, q)
        BY <2>5 DEF ReleaseRefused, Told
      <4>2. held'[d][q] = held[d][q] - IF d = c THEN 1 ELSE 0
        BY <2>0, <2>5, GiveUpType DEF ReleaseRefused
      <4> QED BY <4>1, <4>2, LoadType DEF Load
    <3>2. Spoken(q)' = Spoken(q) + (-1) + 0
      BY <1>0, <1>n, <3>1, SpokenChange
    <3>3. current' = current
      BY <2>5 DEF ReleaseRefused, daemon
    <3> QED BY <1>1, <3>2, <3>3 DEF Fits
  <2>6. ASSUME Confirm(c, r) PROVE Fits(q)'
    <3>1. PICK p \in Claims :
             /\ IF [current EXCEPT ![r] = @ + 1][p.rid] > 0
                THEN current' = [[current EXCEPT ![r] = @ + 1] EXCEPT ![p.rid] = @ - 1]
                ELSE current' = [current EXCEPT ![r] = @ + 1]
             /\ p.client \in Clients /\ p.rid \in Rids
             /\ \A d \in Clients, y \in Rids :
                  Load(d, y)' = Load(d, y) - (IF d = c /\ y = r THEN 1 ELSE 0)
                                           + (IF d = p.client /\ y = p.rid THEN 1 ELSE 0)
      BY <2>6, ConfirmEffect
    <3>2. p.rid = q
      BY <3>1 DEF OneResource
    <3>3. current'[q] = current[q]
      <4>1. [current EXCEPT ![r] = @ + 1][p.rid] = current[q] + 1
        BY <2>0, <3>2 DEF TypeOK
      <4>2. current' = [[current EXCEPT ![r] = @ + 1] EXCEPT ![p.rid] = @ - 1]
        BY <1>1, <3>1, <4>1
      <4> QED BY <1>1, <2>0, <3>2, <4>2 DEF TypeOK
    <3>4. \A d \in Clients : Load(d, q)' = Load(d, q) + (IF d = c THEN -1 ELSE 0)
                                                      + (IF d = p.client THEN 1 ELSE 0)
      BY <1>n, <2>0, <3>1, <3>2
    <3>5. Spoken(q)' = Spoken(q) + (-1) + 1
      BY <1>0, <1>n, <3>1, <3>4, SpokenChange
    <3> QED BY <1>1, <3>3, <3>5 DEF Fits
  <2>7. ASSUME ConfRefused(c, r) PROVE Fits(q)'
    BY <1>s, <2>7, LoadUnchanged DEF ConfRefused, daemon
  <2> QED BY <2>1, <2>2, <2>3, <2>4, <2>5, <2>6, <2>7
<1>b. ASSUME NEW c \in Clients
      PROVE  /\ CancelWait(c) => Fits(q)'
             /\ Unregister(c) => Fits(q)'
             /\ Deliver(c) => Fits(q)'
             /\ Ignore(c) => Fits(q)'
  <2>1. ASSUME CancelWait(c) PROVE Fits(q)'
    BY <1>s, <2>1, LoadUnchanged DEF CancelWait
  <2>2. ASSUME Unregister(c) PROVE Fits(q)'
    <3>1. \A d \in Clients : Load(d, q)' = Load(d, q) + (IF d = c THEN -Load(c, q) ELSE 0)
                                                      + (IF d = c THEN 0 ELSE 0)
      <4> TAKE d \in Clients
      <4>1. CASE d = c
        <5>1. held'[c][q] = 0 /\ inbox'[c] = <<>>
          BY <2>2 DEF Unregister, TypeOK
        <5>2. Load(c, q)' = 0
          BY <5>1, CountEmpty DEF Load, Told
        <5> QED BY <1>n, <4>1, <5>2
      <4>2. CASE d # c
        <5>1. held'[d] = held[d] /\ inbox'[d] = inbox[d]
          BY <2>2, <4>2 DEF Unregister, TypeOK
        <5> QED BY <1>n, <4>2, <5>1, LoadUnchanged
      <4> QED BY <4>1, <4>2
    <3>2. Spoken(q)' = Spoken(q) + (-Load(c, q)) + 0
      <4>1. -Load(c, q) \in Int
        BY <1>n
      <4> QED BY <1>0, <1>n, <3>1, <4>1, SpokenChange
    <3>3. current'[q] <= current[q] + Load(c, q) /\ current'[q] \in Int
      <4>1. Owns(c, q) => Load(c, q) >= 1
        BY <1>n, <2>2, OwnsCount DEF Unregister, NoForgottenUnit, Load
      <4>2. current'[q] = current[q] + IF Owns(c, q) THEN 1 ELSE 0
        BY <2>2 DEF Unregister
      <4> QED BY <1>1, <1>n, <4>1, <4>2
    <3> QED BY <1>1, <1>n, <3>2, <3>3 DEF Fits
  <2>3. ASSUME Deliver(c) PROVE Fits(q)'
    BY <1>s, <2>3, DeliverEffect DEF Deliver, daemon
  <2>4. ASSUME Ignore(c) PROVE Fits(q)'
    <3>1. PICK s \in Signals : s = Head(inbox[c])
      BY <2>4, InboxTail DEF Ignore, TypeOK
    <3>2. inbox[c] # <<>> /\ inbox' = [inbox EXCEPT ![c] = Tail(@)] /\ held' = held
          /\ current' = current
      BY <2>4 DEF Ignore, daemon
    <3> DEFINE gone == IF q = s.rid /\ s.kind # "PreemptionReq" THEN 1 ELSE 0
    <3>3. \A d \in Clients : Told(d, q) = Told(d, q)' + (IF d = c THEN gone ELSE 0)
                             /\ Told(d, q)' \in Nat
      BY <3>1, <3>2, ToldTail
    <3>4. \A d \in Clients : Load(d, q)' = Load(d, q) + (IF d = c THEN -gone ELSE 0)
                                                      + (IF d = c THEN 0 ELSE 0)
      <4> TAKE d \in Clients
      <4>1. held'[d][q] = held[d][q] /\ held[d][q] \in Nat
        BY <3>2, LoadType
      <4>2. Told(d, q) = Told(d, q)' + (IF d = c THEN gone ELSE 0) /\ Told(d, q)' \in Nat
        BY <3>3
      <4>3. gone \in Nat
        OBVIOUS
      <4> HIDE DEF gone
      <4> QED BY <4>1, <4>2, <4>3 DEF Load
    <3>5. -gone \in Int /\ gone \in Nat
      OBVIOUS
    <3> HIDE DEF gone
    <3>6. Spoken(q)' = Spoken(q) + (-gone) + 0
      BY <1>0, <1>n, <3>4, <3>5, SpokenChange
    <3> QED BY <1>1, <3>2, <3>5, <3>6 DEF Fits
  <2> QED BY <2>1, <2>2, <2>3, <2>4
<1>c. CASE Restart
  BY <1>c, <1>s, LoadUnchanged DEF Restart, client
<1>d. CASE UNCHANGED vars
  BY <1>d, <1>s, LoadUnchanged DEF vars, daemon, client
<1> QED BY <1>a, <1>b, <1>c, <1>d DEF Next

\* The units free and those that clients use or are about to use are never more
\* than the database provides, through preemptions, departures, late signals and
\* restarts of the daemon, when all requests are for one resource.
THEOREM UnitsNeverOversold == OneResource => (Spec => []NeverOversold)
<1> SUFFICES ASSUME OneResource PROVE Spec => []NeverOversold
  OBVIOUS
<1>1. Init => NeverOversold
  BY OversoldInit
<1>2. Inv /\ NeverOversold /\ [Next]_vars => NeverOversold'
  BY OversoldNext
<1> QED BY <1>1, <1>2, InvHolds, PTL DEF Spec

-----------------------------------------------------------------------------
(* Nobody is robbed *)

\* The steps in which a client can stop owning a resource.
LEMMA RobbedNext ==
    ASSUME Inv, Inv', Next, NEW c \in Clients, NEW r \in Rids,
           Owns(c, r), ~Owns(c, r)'
    PROVE  \/ held'[c][r] < held[c][r]
           \/ c \notin clients'
           \/ rows' = <<>> /\ current' = current
<1> USE DEF Inv
<1> DEFINE n == Count(rows, Claim(c, r))
           nn == Count(rows', Claim(c, r))
<1>1. n \in Nat /\ n > 0 /\ rows \in Seq(Claims)
  BY OwnsCount DEF TypeOK
<1>2. nn = 0
  <2>1. rows' \in Seq(Claims) /\ Claim(c, r) \notin ToSet(rows')
    BY DEF TypeOK, Owns
  <2> QED BY <2>1, CountType
<1> HIDE DEF n, nn
<1>3. rows' # rows
  BY <1>1, <1>2 DEF n, nn
<1>4. ASSUME NEW p \in Clients, NEW q \in Rids
      PROVE  /\ RemoveClaims(rows, p, q) \in Seq(Claims)
             /\ ~(p = c /\ q = r) => Count(RemoveClaims(rows, p, q), Claim(c, r)) = n
  BY <1>1, RemoveTypes, RowsRemoved DEF n
<1>5. ASSUME NEW list \in Seq(Claims), NEW p \in Clients, NEW q \in Rids,
             Count(list, Claim(c, r)) = n
      PROVE  Count(Append(list, Claim(p, q)), Claim(c, r)) > 0
  BY <1>1, <1>5, RowsAppended
<1>6. ASSUME NEW p \in Clients, NEW q \in Rids, held[p][q] > 0, GiveUp(p, q),
             \/ rows' = RemoveClaims(rows, p, q)
             \/ \E x \in Clients, y \in Rids :
                   rows' = Append(RemoveClaims(rows, p, q), Claim(x, y))
      PROVE  held'[c][r] < held[c][r]
  <2>1. p = c /\ q = r
    <3> SUFFICES ASSUME ~(p = c /\ q = r) PROVE FALSE
      OBVIOUS
    <3>1. CASE rows' = RemoveClaims(rows, p, q)
      BY <1>1, <1>2, <1>4, <3>1 DEF nn
    <3>2. ASSUME NEW x \in Clients, NEW y \in Rids,
                 rows' = Append(RemoveClaims(rows, p, q), Claim(x, y))
          PROVE  FALSE
      <4>1. RemoveClaims(rows, p, q) \in Seq(Claims)
            /\ Count(RemoveClaims(rows, p, q), Claim(c, r)) = n
        BY <1>4
      <4>2. Count(rows', Claim(c, r)) > 0
        BY <1>5, <3>2, <4>1
      <4> QED BY <1>2, <4>2 DEF nn
    <3> QED BY <1>6, <3>1, <3>2
  <2>2. held'[c][r] = held[c][r] - 1 /\ held[c][r] \in Nat
    BY <1>6, <2>1, GiveUpType, LoadType
  <2> QED BY <2>2
<1>a. ASSUME NEW p \in Clients, NEW q \in Rids
      PROVE  /\ ~TakeFree(p, q) /\ ~AcquirePreempting(p, q) /\ ~WaitInLine(p, q)
             /\ ~ReleaseRefused(p, q) /\ ~ConfRefused(p, q)
             /\ Release(p, q) => held'[c][r] < held[c][r]
             /\ Confirm(p, q) => held'[c][r] < held[c][r]
  <2>1. ~TakeFree(p, q)
    <3> SUFFICES ASSUME TakeFree(p, q) PROVE FALSE
      OBVIOUS
    <3>1. rows' = Append(rows, Claim(p, q)) /\ Count(rows, Claim(c, r)) = n
      BY DEF TakeFree, Grant, n
    <3>2. Count(rows', Claim(c, r)) > 0
      BY <1>1, <1>5, <3>1
    <3> QED BY <1>2, <3>2 DEF nn
  <2>2. ~AcquirePreempting(p, q) /\ ~WaitInLine(p, q)
    BY <1>3 DEF AcquirePreempting, WaitInLine
  <2>3. ~ReleaseRefused(p, q) /\ ~ConfRefused(p, q)
    BY <1>3 DEF ReleaseRefused, ConfRefused, daemon
  <2>4. Release(p, q) => held'[c][r] < held[c][r]
    <3> SUFFICES ASSUME Release(p, q) PROVE held'[c][r] < held[c][r]
      OBVIOUS
    <3>1. \/ rows' = RemoveClaims(rows, p, q)
          \/ \E x \in Clients : rows' = Append(RemoveClaims(rows, p, q), Claim(x, q))
      BY ReleaseEffect
    <3> QED BY <1>6, <3>1 DEF Release
  <2>5. Confirm(p, q) => held'[c][r] < held[c][r]
    <3> SUFFICES ASSUME Confirm(p, q) PROVE held'[c][r] < held[c][r]
      OBVIOUS
    <3>1. \/ rows' = RemoveClaims(rows, p, q)
          \/ \E x \in Clients, y \in Rids :
                rows' = Append(RemoveClaims(rows, p, q), Claim(x, y))
      <4>1. PICK e \in Claims :
               /\ e.client \in Clients /\ e.rid \in Rids
               /\ \/ rows' = RemoveClaims(rows, p, q)
                  \/ rows' = Append(RemoveClaims(rows, p, q), Claim(e.client, e.rid))
        BY ConfirmEffect
      <4> QED BY <4>1
    <3>2. held[p][q] > 0 /\ GiveUp(p, q)
      BY DEF Confirm, Confirms, AskedHeld
    <3> QED BY <1>6, <3>1, <3>2
  <2> QED BY <2>1, <2>2, <2>3, <2>4, <2>5
<1>b. ASSUME NEW p \in Clients
      PROVE  /\ ~CancelWait(p) /\ ~Deliver(p) /\ ~Ignore(p)
             /\ Unregister(p) => c \notin clients'
  <2>1. ~CancelWait(p) /\ ~Deliver(p) /\ ~Ignore(p)
    BY <1>3 DEF CancelWait, Deliver, Ignore, daemon
  <2>2. Unregister(p) => c \notin clients'
    <3> SUFFICES ASSUME Unregister(p), p # c PROVE FALSE
      BY DEF Unregister
    <3>1. Count(RemoveClient(rows, p), Claim(c, r)) = n
      BY <1>1, RowsRemoved DEF n
    <3> QED BY <1>1, <1>2, <3>1 DEF Unregister, nn
  <2> QED BY <2>1, <2>2
<1>c. Restart => rows' = <<>> /\ current' = current
  BY DEF Restart
<1> QED BY <1>a, <1>b, <1>c DEF Next

\* A client loses its row of a resource only by its own release, confirmation or
\* departure, or with the whole table when the daemon starts again (tizrmd.cpp,
\* acquire and preemption_conf: who preempts takes nothing itself).
THEOREM NobodyEverRobbed == Spec => NobodyIsRobbed
<1>1. Inv /\ Inv' /\ [Next]_vars =>
        [\A c \in Clients, r \in Rids :
            Owns(c, r) /\ ~Owns(c, r)' =>
                \/ held'[c][r] < held[c][r]
                \/ c \notin clients'
                \/ rows' = <<>> /\ current' = current]_vars
  BY RobbedNext
<1> QED BY <1>1, InvHolds, PTL DEF Spec, NobodyIsRobbed

-----------------------------------------------------------------------------
(* First come, first served *)

\* Whoever comes later stands behind.
LEMMA AppendOrder ==
    ASSUME NEW s \in Seq(Claims), NEW x \in Claims, NEW c, NEW d, NEW r, InFrontOf(s, c, d, r)
    PROVE  InFrontOf(Append(s, x), c, d, r)
<1> DEFINE t == Append(s, x)
<1>1. /\ Len(s) \in Nat /\ DOMAIN s = 1 .. Len(s) /\ DOMAIN t = 1 .. Len(s) + 1
      /\ \A i \in 1 .. Len(s) : t[i] = s[i]
  OBVIOUS
<1> HIDE DEF t
<1>2. \A i \in 1 .. Len(s) : i \in Place(t, c, r) <=> i \in Place(s, c, r)
  BY <1>1 DEF Place, Places
<1>3. \A i \in Place(s, c, r) : i \in 1 .. Len(s)
  BY <1>1 DEF Place, Places
<1>4. Place(t, c, r) # {}
  BY <1>2, <1>3 DEF InFrontOf
<1>5. ASSUME NEW i \in Place(t, d, r) PROVE \E j \in Place(t, c, r) : j < i
  <2>1. CASE i \in 1 .. Len(s)
    <3>1. i \in Place(s, d, r)
      BY <1>1, <2>1 DEF Place, Places
    <3> QED BY <1>2, <1>3, <3>1 DEF InFrontOf
  <2>2. CASE i \notin 1 .. Len(s)
    <3>1. PICK j \in Place(s, c, r) : TRUE
      BY DEF InFrontOf
    <3>2. i = Len(s) + 1 /\ j \in Place(t, c, r) /\ j < i
      BY <1>1, <1>2, <1>3, <2>2, <3>1 DEF Place, Places
    <3> QED BY <3>2
  <2> QED BY <2>1, <2>2
<1> QED BY <1>4, <1>5 DEF InFrontOf, t

\* The order of those that stay is kept.
LEMMA OnlyOrder ==
    ASSUME NEW s \in Seq(Claims), NEW T, NEW c, NEW d, NEW r,
           InFrontOf(s, c, d, r), Claim(c, r) \in T
    PROVE  InFrontOf(Only(s, T), c, d, r)
<1> DEFINE t == Only(s, T)
           K == KeptAt(s, T, Len(s))
<1>1. PICK m : t \in Seq(Claims) /\ Picks(t, s, K, m)
  BY OnlyPicks
<1> HIDE DEF t
<1>2. /\ Len(s) \in Nat /\ DOMAIN s = 1 .. Len(s)
      /\ Len(t) \in Nat /\ DOMAIN t = 1 .. Len(t)
  BY <1>1
<1>3. \A k \in Place(s, c, r) : k \in K
  BY <1>2 DEF Place, Places, KeptAt
<1>4. \A k \in K : k \in 1 .. Len(s)
  BY DEF KeptAt
<1> HIDE DEF K
<1>5. \A k \in Place(s, c, r) : \E i \in Place(t, c, r) : m[i] = k
  BY <1>1, <1>2, <1>3 DEF Picks, Place, Places
<1>6. Place(t, c, r) # {}
  BY <1>5 DEF InFrontOf
<1>7. ASSUME NEW i \in Place(t, d, r) PROVE \E j \in Place(t, c, r) : j < i
  <2>1. i \in 1 .. Len(t) /\ m[i] \in Place(s, d, r) /\ m[i] \in 1 .. Len(s)
    BY <1>1, <1>2, <1>4 DEF Picks, Place, Places
  <2>2. PICK k \in Place(s, c, r) : k < m[i]
    BY <2>1 DEF InFrontOf
  <2>3. PICK j \in Place(t, c, r) : m[j] = k
    BY <1>5
  <2>4. j \in 1 .. Len(t) /\ m[j] \in 1 .. Len(s) /\ m[j] < m[i]
    BY <1>1, <1>2, <1>4, <2>2, <2>3 DEF Picks, Place, Places
  <2>5. ~(i < j) /\ i # j
    BY <1>1, <2>1, <2>4 DEF Picks
  <2>6. j < i
    BY <2>1, <2>4, <2>5, <1>2
  <2> QED BY <2>6
<1> QED BY <1>6, <1>7 DEF InFrontOf, t

\* So it is when one entry of somebody else is taken out.
LEMMA RemoveAtOrder ==
    ASSUME NEW s \in Seq(Claims), NEW c, NEW d, NEW r, InFrontOf(s, c, d, r),
           NEW n \in 1 .. Len(s), s[n] # Claim(c, r)
    PROVE  InFrontOf(RemoveAt(s, n), c, d, r)
<1> DEFINE t == RemoveAt(s, n)
<1>1. Len(s) \in Nat /\ DOMAIN s = 1 .. Len(s) /\ n \in Nat /\ n >= 1 /\ n <= Len(s)
  OBVIOUS
<1>5. /\ DOMAIN t = 1 .. Len(s) - 1
      /\ \A i \in 1 .. n - 1 : t[i] = s[i]
      /\ \A i \in n .. Len(s) - 1 : t[i] = s[i + 1]
  BY RemovedAt
<1> HIDE DEF t
<1>6. ASSUME NEW k \in Place(s, c, r)
      PROVE  (IF k < n THEN k ELSE k - 1) \in Place(t, c, r) /\ k # n /\ k \in 1 .. Len(s)
  <2>1. k \in 1 .. Len(s) /\ s[k] = Claim(c, r) /\ k # n
    BY <1>1 DEF Place, Places
  <2> DEFINE l == IF k < n THEN k ELSE k - 1
  <2>2. l \in 1 .. Len(s) - 1 /\ t[l] = s[k]
    <3>1. CASE k < n
      BY <1>1, <1>5, <2>1, <3>1
    <3>2. CASE ~(k < n)
      <4>1. l \in n .. Len(s) - 1 /\ l + 1 = k
        BY <1>1, <2>1, <3>2
      <4> QED BY <1>1, <1>5, <4>1
    <3> QED BY <3>1, <3>2
  <2> HIDE DEF l
  <2>3. l \in Place(t, c, r)
    BY <1>5, <2>1, <2>2 DEF Place, Places
  <2> QED BY <2>1, <2>3 DEF l
<1>7. Place(t, c, r) # {}
  BY <1>6 DEF InFrontOf
<1>8. ASSUME NEW i \in Place(t, d, r) PROVE \E j \in Place(t, c, r) : j < i
  <2> DEFINE l == IF i < n THEN i ELSE i + 1
  <2>1. i \in 1 .. Len(s) - 1 /\ l \in Place(s, d, r)
    <3>1. i \in 1 .. Len(s) - 1 /\ t[i] = Claim(d, r)
      BY <1>5 DEF Place, Places
    <3>2. l \in 1 .. Len(s) /\ s[l] = t[i]
      <4>1. CASE i < n
        BY <1>1, <1>5, <3>1, <4>1
      <4>2. CASE ~(i < n)
        BY <1>1, <1>5, <3>1, <4>2
      <4> QED BY <4>1, <4>2
    <3> QED BY <1>1, <3>1, <3>2 DEF Place, Places
  <2>2. PICK k \in Place(s, c, r) : k < l
    BY <2>1 DEF InFrontOf
  <2>3. (IF k < n THEN k ELSE k - 1) < i
    BY <1>1, <1>6, <2>1, <2>2
  <2> QED BY <1>6, <2>3
<1> QED BY <1>7, <1>8 DEF InFrontOf, t

\* The tail that std::remove_if leaves behind is behind.
LEMMA RemoveIfOrder ==
    ASSUME NEW s \in Seq(Claims), NEW x, NEW c \in Clients, NEW d, NEW r \in Rids,
           InFrontOf(s, c, d, r), c # x
    PROVE  InFrontOf(RemoveIf(s, x), c, d, r)
<1> DEFINE a == RemoveClient(s, x)
           b == SubSeq(s, Len(a) + 1, Len(s))
           t == RemoveIf(s, x)
<1>1. a \in Seq(Claims) /\ InFrontOf(a, c, d, r)
  <2>1. Claim(c, r) \in {y \in Claims : y.client # x}
    BY DEF Claim, Claims
  <2> QED BY <2>1, OnlyPicks, OnlyOrder DEF RemoveClient
<1> HIDE DEF a
<1>2. Len(a) \in Nat /\ Len(s) \in Nat
  BY <1>1
<1>3. b \in Seq(Claims)
  <2>1. \A i \in Len(a) + 1 .. Len(s) : s[i] \in Claims
    BY <1>2
  <2> QED BY <1>2, <2>1, SubSeqProperties
<1> HIDE DEF b
<1>4. t = a \o b
  BY DEF RemoveIf, a, b
<1>5. /\ Len(b) \in Nat /\ DOMAIN t = 1 .. Len(a) + Len(b) /\ DOMAIN a = 1 .. Len(a)
      /\ \A i \in 1 .. Len(a) : t[i] = a[i]
  <2>1. a \in Seq(Claims)
    BY <1>1
  <2> QED BY <1>3, <1>4, <2>1, Joined
<1> HIDE DEF t
<1>6. \A i \in 1 .. Len(a) : i \in Place(t, d, r) <=> i \in Place(a, d, r)
  BY <1>2, <1>5 DEF Place, Places
<1>7. \A i \in Place(a, c, r) : i \in 1 .. Len(a) /\ i \in Place(t, c, r)
  BY <1>2, <1>5 DEF Place, Places
<1>10. Place(a, c, r) # {} /\ \A i \in Place(a, d, r) : \E j \in Place(a, c, r) : j < i
  BY <1>1 DEF InFrontOf
<1>8. Place(t, c, r) # {}
  <2>1. PICK j \in Place(a, c, r) : TRUE
    BY <1>10
  <2> QED BY <1>7, <2>1
<1>9. ASSUME NEW i \in Place(t, d, r) PROVE \E j \in Place(t, c, r) : j < i
  <2>1. CASE i \in 1 .. Len(a)
    <3>1. PICK j \in Place(a, c, r) : j < i
      BY <1>6, <1>10, <2>1
    <3> QED BY <1>7, <3>1
  <2>2. CASE i \notin 1 .. Len(a)
    <3>1. PICK j \in Place(a, c, r) : TRUE
      BY <1>10
    <3>2. i \in Nat /\ i > Len(a)
      BY <1>2, <1>5, <2>2 DEF Place, Places
    <3>3. j \in Place(t, c, r) /\ j < i
      BY <1>2, <1>7, <3>1, <3>2
    <3> QED BY <3>3
  <2> QED BY <2>1, <2>2
<1> QED BY <1>8, <1>9 DEF InFrontOf, t

\* What a step sends or delivers, seen by the clients that wait in line.
LEMMA GrantedPost ==
    ASSUME TypeOK, NEW c \in Clients, NEW r \in Rids,
           NEW k \in {"WaitComplete", "PreemptionReq", "PreemptionComplete"},
           inbox' = Post(inbox, c, k, r), NEW d \in Clients, NEW q \in Rids
    PROVE  /\ Granted(d, q) \in Nat
           /\ Granted(d, q)' = Granted(d, q)
                 + IF d = c /\ q = r /\ k = "WaitComplete" THEN 1 ELSE 0
<1>1. /\ Signal("WaitComplete", q) \in Signals
      /\ Signal("WaitComplete", q) = Signal(k, r) <=> k = "WaitComplete" /\ q = r
  BY SignalType
<1>2. Granted(d, q) \in Nat
  <2>1. inbox[d] \in Seq(Signals)
    BY DEF TypeOK
  <2> QED BY <2>1, CountType DEF Granted
<1>3. \A x \in Signals : Count(inbox'[d], x) = Count(inbox[d], x)
                                + IF d = c /\ x = Signal(k, r) THEN 1 ELSE 0
  BY InboxPost DEF TypeOK
<1> QED BY <1>1, <1>2, <1>3 DEF Granted

\* Taking a signal grants nothing.
LEMMA GrantedTail ==
    ASSUME TypeOK, NEW c \in Clients, inbox[c] # <<>>, inbox' = [inbox EXCEPT ![c] = Tail(@)],
           NEW d \in Clients, NEW q \in Rids
    PROVE  Granted(d, q)' <= Granted(d, q)
<1>1. Signal("WaitComplete", q) \in Signals
  BY SignalType
<1>2. /\ inbox' \in [Clients -> Seq(Signals)]
      /\ \A x \in Signals : Count(inbox[d], x) = Count(inbox'[d], x)
                                + IF d = c /\ Head(inbox[c]) = x THEN 1 ELSE 0
  BY InboxTail DEF TypeOK
<1>3. Granted(d, q)' \in Nat
  <2>1. inbox'[d] \in Seq(Signals)
    BY <1>2
  <2> QED BY <2>1, CountType DEF Granted
<1> QED BY <1>1, <1>2, <1>3 DEF Granted

\* A step that leaves the first of two waiting gives the second neither its
\* place nor a unit.
LEMMA FairLineNext ==
    ASSUME Inv, Next, NEW c \in clients, NEW d \in clients, NEW r \in Rids,
           c # d, InFrontOf(waiters, c, d, r), c \in clients',
           Place(waiters', c, r) # {}, Granted(c, r)' <= Granted(c, r)
    PROVE  InFrontOf(waiters', c, d, r) /\ Granted(d, r)' <= Granted(d, r)
<1> USE DEF Inv
<1>1. /\ waiters \in Seq(Claims) /\ c \in Clients /\ d \in Clients
      /\ Granted(d, r) \in Nat /\ Granted(c, r) \in Nat
  <2>1. waiters \in Seq(Claims) /\ c \in Clients /\ d \in Clients
        /\ inbox[c] \in Seq(Signals) /\ inbox[d] \in Seq(Signals)
    BY DEF TypeOK
  <2> QED BY <2>1, CountType DEF Granted
<1>2. ASSUME inbox'[d] = inbox[d] PROVE Granted(d, r)' <= Granted(d, r)
  BY <1>1, <1>2 DEF Granted
<1> DEFINE Goal == InFrontOf(waiters', c, d, r) /\ Granted(d, r)' <= Granted(d, r)
<1>a. ASSUME NEW p \in Clients, NEW q \in Rids
      PROVE  /\ TakeFree(p, q) => Goal
             /\ AcquirePreempting(p, q) => Goal
             /\ WaitInLine(p, q) => Goal
             /\ Release(p, q) => Goal
             /\ ReleaseRefused(p, q) => Goal
             /\ Confirm(p, q) => Goal
             /\ ConfRefused(p, q) => Goal
  <2>1. TakeFree(p, q) => Goal
    BY <1>2 DEF TakeFree
  <2>2. AcquirePreempting(p, q) => Goal
    <3> SUFFICES ASSUME AcquirePreempting(p, q) PROVE Goal
      OBVIOUS
    <3>1. PICK v \in Claims : v = Victim(p, q) /\ v.client \in Clients
      BY VictimType DEF AcquirePreempting, Claims
    <3>2. inbox' = Post(inbox, v.client, "PreemptionReq", q) /\ waiters' = waiters
      BY <3>1 DEF AcquirePreempting
    <3>3. Granted(d, r)' = Granted(d, r)
      BY <1>1, <3>1, <3>2, GrantedPost
    <3> QED BY <1>1, <3>2, <3>3
  <2>3. WaitInLine(p, q) => Goal
    <3> SUFFICES ASSUME WaitInLine(p, q) PROVE Goal
      OBVIOUS
    <3>1. waiters' = Append(waiters, Claim(p, q)) /\ inbox' = inbox /\ Claim(p, q) \in Claims
      BY ClaimType DEF WaitInLine
    <3> QED BY <1>1, <1>2, <3>1, AppendOrder
  <2>4. Release(p, q) => Goal
    <3> SUFFICES ASSUME Release(p, q) PROVE Goal
      OBVIOUS
    <3> DEFINE line == {i \in DOMAIN waiters : waiters[i].rid = q}
               next == waiters[Min(line)].client
    <3>1. CASE line = {}
      <4>1. waiters' = waiters /\ inbox' = inbox
        BY <3>1 DEF Release
      <4> QED BY <1>2, <4>1
    <3>2. CASE line # {}
      <4>1. Len(waiters) \in Nat /\ DOMAIN waiters = 1 .. Len(waiters)
            /\ line \in SUBSET (1 .. Len(waiters)) /\ line \in SUBSET Nat
        BY <1>1
      <4>2. PICK n \in line : n = Min(line) /\ \A y \in line : n <= y
        BY <3>2, <4>1, MinIsLeast
      <4>3. n \in 1 .. Len(waiters) /\ waiters[n] \in Claims /\ waiters[n].rid = q
        BY <1>1, <4>1, <4>2
      <4>4. PICK x \in Clients : x = waiters[n].client /\ waiters[n] = Claim(x, q)
        BY <4>3 DEF Claims, Claim
      <4>5. waiters' = RemoveAt(waiters, n) /\ inbox' = Post(inbox, x, "WaitComplete", q)
        BY <3>2, <4>2, <4>4 DEF Release
      <4>6. ~(x = c /\ q = r)
        BY <1>1, <4>5, GrantedPost
      <4>7. waiters[n] # Claim(c, r)
        BY <4>4, <4>6 DEF Claim
      <4>8. InFrontOf(waiters', c, d, r)
        BY <1>1, <4>3, <4>5, <4>7, RemoveAtOrder
      <4>9. ~(x = d /\ q = r)
        <5> SUFFICES ASSUME x = d, q = r PROVE FALSE
          OBVIOUS
        <5>1. n \in Place(waiters, d, r)
          BY <4>1, <4>3, <4>4 DEF Place, Places
        <5>2. PICK j \in Place(waiters, c, r) : j < n
          BY <5>1 DEF InFrontOf
        <5>3. j \in line
          BY <5>2 DEF Place, Places, Claim
        <5>4. n <= j
          BY <4>2, <5>3
        <5>5. n \in Nat /\ j \in Nat
          BY <4>1, <4>3, <5>3
        <5> QED BY <5>2, <5>4, <5>5
      <4>10. Granted(d, r)' = Granted(d, r)
        BY <1>1, <4>5, <4>9, GrantedPost
      <4> QED BY <1>1, <4>8, <4>10
    <3> QED BY <3>1, <3>2
  <2>5. ReleaseRefused(p, q) => Goal
    BY <1>2 DEF ReleaseRefused, daemon
  <2>6. Confirm(p, q) => Goal
    <3> SUFFICES ASSUME Confirm(p, q) PROVE Goal
      OBVIOUS
    <3>1. PICK e \in preemptions[Priority[p]] :
             inbox' = Post(inbox, e.preemptor.client, "PreemptionComplete", e.preemptor.rid)
      BY DEF Confirm
    <3>2. e.preemptor.client \in Clients /\ e.preemptor.rid \in Rids
      <4>1. Priority[p] \in Priorities
        BY DEF Priorities
      <4>2. e \in Preemptions
        BY <4>1 DEF TypeOK
      <4> QED BY <4>2 DEF Preemptions, Claims
    <3>3. Granted(d, r)' = Granted(d, r)
      BY <1>1, <3>1, <3>2, GrantedPost
    <3> QED BY <1>1, <3>3 DEF Confirm
  <2>7. ConfRefused(p, q) => Goal
    BY <1>2 DEF ConfRefused, daemon
  <2> QED BY <2>1, <2>2, <2>3, <2>4, <2>5, <2>6, <2>7
<1>b. ASSUME NEW p \in Clients
      PROVE  /\ CancelWait(p) => Goal
             /\ Unregister(p) => Goal
             /\ Deliver(p) => Goal
             /\ Ignore(p) => Goal
  <2>1. CancelWait(p) => Goal
    <3> SUFFICES ASSUME CancelWait(p) PROVE Goal
      OBVIOUS
    <3> DEFINE T == {x \in Claims : x.client # p}
    <3>1. waiters' = Only(waiters, T) /\ inbox' = inbox
      BY DEF CancelWait, RemoveClient
    <3>2. Claim(c, r) \in T
      <4>1. PICK m : Picks(Only(waiters, T), waiters, KeptAt(waiters, T, Len(waiters)), m)
                     /\ Only(waiters, T) \in Seq(Claims)
        BY <1>1, OnlyPicks
      <4>2. PICK i \in Place(waiters', c, r) : TRUE
        OBVIOUS
      <4>3. i \in 1 .. Len(waiters') /\ waiters'[i] = Claim(c, r)
        BY <3>1, <4>1, <4>2 DEF Place, Places
      <4>4. m[i] \in KeptAt(waiters, T, Len(waiters)) /\ waiters'[i] = waiters[m[i]]
        BY <3>1, <4>1, <4>3 DEF Picks
      <4> QED BY <4>3, <4>4 DEF KeptAt
    <3> HIDE DEF T
    <3>3. InFrontOf(waiters', c, d, r)
      BY <1>1, <3>1, <3>2, OnlyOrder
    <3> QED BY <1>2, <3>1, <3>3
  <2>2. Unregister(p) => Goal
    <3> SUFFICES ASSUME Unregister(p) PROVE Goal
      OBVIOUS
    <3>1. c # p /\ waiters' = RemoveIf(waiters, p)
      BY DEF Unregister
    <3>2. InFrontOf(waiters', c, d, r)
      BY <1>1, <3>1, RemoveIfOrder
    <3>3. inbox'[d] = <<>> \/ inbox'[d] = inbox[d]
      BY <1>1 DEF Unregister, TypeOK
    <3>4. inbox'[d] = <<>> => Granted(d, r)' <= Granted(d, r)
      BY <1>1, CountEmpty DEF Granted
    <3> QED BY <1>2, <3>2, <3>3, <3>4
  <2>3. Deliver(p) => Goal
    <3> SUFFICES ASSUME Deliver(p) PROVE Goal
      OBVIOUS
    <3>1. inbox[p] # <<>> /\ inbox' = [inbox EXCEPT ![p] = Tail(@)] /\ waiters' = waiters
      BY DEF Deliver, daemon
    <3> QED BY <1>1, <3>1, GrantedTail
  <2>4. Ignore(p) => Goal
    <3> SUFFICES ASSUME Ignore(p) PROVE Goal
      OBVIOUS
    <3>1. inbox[p] # <<>> /\ inbox' = [inbox EXCEPT ![p] = Tail(@)] /\ waiters' = waiters
      BY DEF Ignore, daemon
    <3> QED BY <1>1, <3>1, GrantedTail
  <2> QED BY <2>1, <2>2, <2>3, <2>4
<1>c. ~Restart
  BY DEF Restart, Place, Places
<1> QED BY <1>a, <1>b, <1>c DEF Next

\* The line is first come, first served for every client that stays in it,
\* whoever is granted a unit, cancels or leaves; the entries that
\* std::remove_if leaves behind do not change it (tizrmd.cpp, wait, release,
\* cancel_wait and relinquish_all).
THEOREM LineIsFair == Spec => FirstComeFirstServed
<1>1. Inv /\ [Next]_vars =>
        [\A c, d \in clients, r \in Rids :
          /\ c # d
          /\ InFrontOf(waiters, c, d, r)
          /\ c \in clients'
          /\ Place(waiters', c, r) # {} /\ Granted(c, r)' <= Granted(c, r)
          => /\ InFrontOf(waiters', c, d, r)
             /\ Granted(d, r)' <= Granted(d, r)]_vars
  BY FairLineNext
<1> QED BY <1>1, InvHolds, PTL DEF Spec, FirstComeFirstServed

=============================================================================
