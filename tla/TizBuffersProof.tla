--------------------------- MODULE TizBuffersProof ---------------------------
(***************************************************************************)
(* What holds of a decoder for any number of buffers and any client that   *)
(* starts, pauses, flushes and stops it: no header is lost or doubled, no  *)
(* assertion fails, in Idle the client has every header, and the end of    *)
(* the stream is announced behind the stream.                              *)
(*                                                                         *)
(* A header is lost if a list is cleared that is not empty (clear_hdr_lsts *)
(* empties the lists of one port only), so the proof has to know where the *)
(* transitions are: Phase says so.  Conserves follows the headers of each  *)
(* port through the functions of the servants, and Inv puts them together. *)
(* Flow does the same for what the headers carry, and EosInv stands beside *)
(* Inv.                                                                    *)
(***************************************************************************)
EXTENDS TizBuffers, DataLemmas

Stages == {"Idle", "Executing", "Pause"}
Stops == {"ExecutingToIdle", "PauseToIdle"}

Messages ==
    {StateSet(st) : st \in Stages} \cup {PortCommand("Flush", t) : t \in Ports \cup {ALL}}

Completions == [servant : {"kernel", "processor"}, state : Stages]

Callbacks == Headers(Ports) \cup {DummyCallback}

PortRecord ==
    [enabled : {TRUE}, beingEnabled : BOOLEAN, beingDisabled : BOOLEAN,
     flushing : BOOLEAN, bufs : {NBufs}, claimed : Int]

Fields ==
    {"cur", "canceled", "inProgress", "param", "cancellation", "counted",
     "completions", "commands", "completion", "port", "krn", "callbacks", "efb",
     "ingress", "egress", "eosTold", "prc", "ready", "hold", "packets", "back",
     "events", "failed"}

\* s is a state of the three servants.
IsComp(s) ==
    /\ DOMAIN s = Fields
    /\ s.cur \in Stages \cup Stops
    /\ s.inProgress \in {None, "StateSet", "Flush"}
    /\ s.cancellation = None
    /\ s.counted \in [States -> Seq(Completions)]
    /\ s.completions \in Seq(Completions)
    /\ s.commands \in Seq(Messages)
    /\ s.completion \in Int
    /\ s.port \in [Ports -> PortRecord]
    /\ s.krn \in Seq(Messages)
    /\ s.callbacks \in Seq(Callbacks)
    /\ s.efb \in Seq(Headers(Ports))
    /\ s.ingress \in [Ports -> Seq(Contents)]
    /\ s.egress \in [Ports -> Seq(Contents)]
    /\ s.prc \in Seq(Messages)
    /\ s.ready \in Int
    /\ s.hold \in [Ports -> Contents \cup {None}]
    /\ s.packets \in Nat
    /\ s.back \in [Ports -> Nat]

-----------------------------------------------------------------------------
(* The headers                                                             *)

Held(s, p) == IF s.hold[p] = None THEN 0 ELSE 1
Sent(s, p) == Len(CarriedBy(s.efb, p))
Released(s, p) == Len(CarriedBy(s.callbacks, p))

Sum(a, b, c, d, e, f) == a + b + c + d + e + f
Rest(a, b, c) == a - b - c

\* The headers of p that are not with the client, and those this step gives it.
Total(s, p) ==
    Sum(Sent(s, p), Len(s.ingress[p]), Held(s, p), Released(s, p), Len(s.egress[p]), s.back[p])

\* By how much the claimed count of p is wrong.
Debt(s, p) == Rest(s.port[p].claimed, Held(s, p), Released(s, p))

\* From s to t no header of p is lost or doubled, and the count is as right as before.
Balanced(t, s, p) == Total(t, p) = Total(s, p) /\ Debt(t, p) = Debt(s, p)

Conserves(t, s) == IsComp(t) /\ \A p \in Ports : Balanced(t, s, p)

HasDummy(s) == DummyCallback \in ToSet(s.callbacks)

\* From s to t the transitions are where they were, but for the processor's commands.
SameRest(t, s) ==
    /\ t.cur = s.cur /\ t.inProgress = s.inProgress /\ t.param = s.param
    /\ t.counted = s.counted /\ t.completions = s.completions
    /\ t.commands = s.commands /\ t.krn = s.krn
    /\ t.failed = s.failed /\ t.completion = s.completion
    /\ \A p \in Ports : t.port[p].flushing = s.port[p].flushing
    /\ HasDummy(t) => HasDummy(s)

SameControl(t, s) == SameRest(t, s) /\ t.prc = s.prc

\* From s to t headers move, and nothing else does.
Moves(t, s) == Conserves(t, s) /\ SameControl(t, s)

\* From s to t no header moves.
SameHeaders(t, s) ==
    /\ t.efb = s.efb /\ t.ingress = s.ingress /\ t.egress = s.egress
    /\ t.callbacks = s.callbacks /\ t.hold = s.hold /\ t.back = s.back
    /\ \A p \in Ports : t.port[p].claimed = s.port[p].claimed

-----------------------------------------------------------------------------
(* Ports and lists                                                         *)

\* There are two ports.
LEMMA TwoPorts ==
    /\ In \in Ports /\ Out \in Ports /\ In # Out /\ FirstPort = In
    /\ \A p \in Ports : p = In \/ p = Out
    /\ Len(PortList) = 2 /\ PortList[1] = In /\ PortList[2] = Out
    /\ ALL \notin Ports /\ None \notin Ports
<1>1. PortList \in Seq(Ports) /\ Len(PortList) = 2 /\ IsInjective(PortList)
  BY PortAssumption, BuffersAssumption
<1>2. DOMAIN PortList = {1, 2}
  BY <1>1
<1>3. PortList[1] # PortList[2]
  BY <1>1, <1>2 DEF IsInjective
<1>4. \A p \in Ports : p = In \/ p = Out
  BY <1>2 DEF Ports, ToSet, In, Out
<1> QED BY <1>1, <1>2, <1>3, <1>4, PortAssumption, BuffersAssumption DEF In, Out, FirstPort

\* What the headers of some ports are.
LEMMA HeadersAre ==
    ASSUME NEW T, NEW m \in Headers(T)
    PROVE  m.port \in T /\ m.what \in Contents /\ m = Header(m.port, m.what)
<1>1. PICK p \in T, what \in Contents : m = Header(p, what)
  BY DEF Headers
<1>2. m.port = p /\ m.what = what
  BY <1>1 DEF Header
<1> QED BY <1>1, <1>2

\* What the queues hold.
LEMMA HeaderIs ==
    /\ \A p \in Ports, what \in Contents :
            Header(p, what) \in Headers(Ports) /\ Header(p, what) \in Callbacks
    /\ \A m \in Headers(Ports) :
            m.port \in Ports /\ m.what \in Contents /\ m = Header(m.port, m.what)
    /\ \A m \in Callbacks, p \in Ports : m \in Headers({p}) <=> m.port = p
    /\ \A m \in Callbacks : m # DummyCallback => m \in Headers(Ports)
    /\ DummyCallback \notin Headers(Ports) /\ DummyCallback.port = None
    /\ Headers(Ports) \subseteq Callbacks
<1>1. None \notin Ports
  BY TwoPorts
<1>2. \A p \in Ports, what \in Contents :
          Header(p, what) \in Headers(Ports) /\ Header(p, what) \in Callbacks
  BY DEF Headers, Callbacks
<1>3. \A m \in Headers(Ports) :
          m.port \in Ports /\ m.what \in Contents /\ m = Header(m.port, m.what)
  BY HeadersAre
<1>4. DummyCallback.port = None /\ DummyCallback \in Callbacks
  BY DEF Header, DummyCallback, Callbacks
<1>5. DummyCallback \notin Headers(Ports)
  BY <1>1, <1>3, <1>4
<1>6. ASSUME NEW m \in Callbacks, NEW p \in Ports PROVE m \in Headers({p}) <=> m.port = p
  <2>1. m \in Headers({p}) => m.port = p
    BY HeadersAre
  <2>2. ASSUME m.port = p PROVE m \in Headers({p})
    <3>1. m # DummyCallback
      BY <1>1, <1>4, <2>2
    <3>2. m \in Headers(Ports)
      BY <3>1 DEF Callbacks
    <3>3. m.what \in Contents /\ m = Header(p, m.what)
      BY <1>3, <3>2, <2>2
    <3> QED BY <3>3 DEF Headers
  <2> QED BY <2>1, <2>2
<1> QED BY <1>2, <1>3, <1>4, <1>5, <1>6 DEF Callbacks

\* A list of headers is a list of callbacks.
LEMMA SentAreCallbacks == Seq(Headers(Ports)) \subseteq Seq(Callbacks)
<1>1. Headers(Ports) \subseteq Callbacks
  BY HeaderIs
<1>2. ASSUME NEW q \in Seq(Headers(Ports)) PROVE q \in Seq(Callbacks)
  <2>1. Len(q) \in Nat /\ q \in [1 .. Len(q) -> Headers(Ports)]
    BY LenProperties
  <2>2. q \in [1 .. Len(q) -> Callbacks]
    BY <1>1, <2>1
  <2> QED BY <2>1, <2>2, SeqDef
<1> QED BY <1>2

\* What a filter takes of the head of a list and of the rest.
LEMMA OnlyTail ==
    ASSUME NEW S, NEW q \in Seq(S), q # <<>>, NEW T
    PROVE  /\ Tail(q) \in Seq(S) /\ Head(q) \in S
           /\ Len(Only(Tail(q), T)) \in Nat
           /\ Len(Only(q, T)) = Len(Only(Tail(q), T)) + IF Head(q) \in T THEN 1 ELSE 0
<1>1. Tail(q) \in Seq(S) /\ Head(q) \in S /\ q = <<Head(q)>> \o Tail(q)
  OBVIOUS
<1>2. ASSUME NEW m \in S, NEW r \in Seq(S)
      PROVE  /\ Len(Only(r, T)) \in Nat
             /\ Len(Only(<<m>> \o r, T)) = Len(Only(r, T)) + IF m \in T THEN 1 ELSE 0
  <2>1. <<m>> \in Seq(S)
    OBVIOUS
  <2>2. ASSUME NEW one \in Seq(S), one = <<m>>
        PROVE  Only(one \o r, T) = Only(one, T) \o Only(r, T)
    BY OnlyConcat
  <2>3. Only(<<m>> \o r, T) = Only(<<m>>, T) \o Only(r, T)
    BY <2>1, <2>2
  <2>4. Only(r, T) \in Seq(S)
    BY OnlyPicks
  <2>5. ASSUME NEW k \in Seq(S), k = Only(r, T)
        PROVE  Len(k) \in Nat /\ Len(<<m>> \o k) = Len(k) + 1 /\ <<>> \o k = k
    BY <2>1, Joined, ConcatEmptySeq
  <2>6. Only(<<m>>, T) = IF m \in T THEN <<m>> ELSE <<>>
    BY OnlyOne
  <2>7. Len(Only(r, T)) \in Nat /\ Len(<<m>> \o Only(r, T)) = Len(Only(r, T)) + 1
        /\ <<>> \o Only(r, T) = Only(r, T)
    BY <2>4, <2>5
  <2>8. CASE m \in T
    BY <2>3, <2>6, <2>7, <2>8
  <2>9. CASE m \notin T
    BY <2>3, <2>6, <2>7, <2>9
  <2> QED BY <2>8, <2>9
<1> QED BY <1>1, <1>2

\* The contents of a port's headers, as many as there are.
LEMMA CarriedType ==
    ASSUME NEW q \in Seq(Callbacks), NEW p \in Ports
    PROVE  /\ CarriedBy(q, p) \in Seq(Contents)
           /\ Len(CarriedBy(q, p)) = Len(Only(q, Headers({p})))
           /\ Len(CarriedBy(q, p)) \in Nat
<1>1. PICK m : Picks(Only(q, Headers({p})), q, KeptAt(q, Headers({p}), Len(q)), m)
  BY OnlyPicks
<1>2. Only(q, Headers({p})) \in Seq(Callbacks)
  BY OnlyPicks
<1>3. \A i \in 1 .. Len(Only(q, Headers({p}))) : Only(q, Headers({p}))[i] \in Headers({p})
  BY <1>1 DEF Picks, KeptAt
<1>4. ASSUME NEW mine \in Seq(Callbacks), \A i \in 1 .. Len(mine) : mine[i] \in Headers({p})
      PROVE  /\ [i \in 1 .. Len(mine) |-> mine[i].what] \in Seq(Contents)
             /\ Len([i \in 1 .. Len(mine) |-> mine[i].what]) = Len(mine)
             /\ Len(mine) \in Nat
  <2>1. \A i \in 1 .. Len(mine) : mine[i].what \in Contents
    BY <1>4, HeadersAre
  <2>2. Len(mine) \in Nat
    OBVIOUS
  <2> QED BY <2>1, <2>2
<1> QED BY <1>2, <1>3, <1>4 DEF CarriedBy

\* Nothing is carried by nothing.
LEMMA CarriedEmpty ==
    ASSUME NEW p \in Ports, NEW q \in Seq(Callbacks), Only(q, Headers({p})) = <<>>
    PROVE  CarriedBy(q, p) = <<>>
<1>1. Len(<<>>) = 0
  OBVIOUS
<1>2. Len(CarriedBy(q, p)) = 0 /\ CarriedBy(q, p) \in Seq(Contents)
  BY <1>1, CarriedType
<1> QED BY <1>2, EmptySeq

\* A header at the end counts for its port.
LEMMA CarriedAppend ==
    ASSUME NEW q \in Seq(Callbacks), NEW m \in Callbacks, NEW p \in Ports
    PROVE  Len(CarriedBy(Append(q, m), p)) =
                Len(CarriedBy(q, p)) + IF m.port = p THEN 1 ELSE 0
<1>1. ASSUME NEW T
      PROVE  Len(Only(Append(q, m), T)) = Len(Only(q, T)) + IF m \in T THEN 1 ELSE 0
  <2>1. Only(Append(q, m), T) = IF m \in T THEN Append(Only(q, T), m) ELSE Only(q, T)
    BY OnlyAppend
  <2>2. Only(q, T) \in Seq(Callbacks)
    BY OnlyPicks
  <2>3. Len(Append(Only(q, T), m)) = Len(Only(q, T)) + 1 /\ Len(Only(q, T)) \in Nat
    BY <2>2
  <2> QED BY <2>1, <2>3
<1>2. m \in Headers({p}) <=> m.port = p
  BY HeaderIs
<1>3. Append(q, m) \in Seq(Callbacks)
  OBVIOUS
<1>4. Len(CarriedBy(Append(q, m), p)) = Len(Only(Append(q, m), Headers({p})))
  BY <1>3, CarriedType
<1>5. Len(CarriedBy(q, p)) = Len(Only(q, Headers({p})))
  BY CarriedType
<1> QED BY <1>1, <1>2, <1>4, <1>5

\* So does one at the head.
LEMMA CarriedTail ==
    ASSUME NEW q \in Seq(Callbacks), q # <<>>, NEW p \in Ports
    PROVE  /\ Tail(q) \in Seq(Callbacks) /\ Head(q) \in Callbacks
           /\ Len(CarriedBy(q, p)) =
                Len(CarriedBy(Tail(q), p)) + IF Head(q).port = p THEN 1 ELSE 0
<1>1. Tail(q) \in Seq(Callbacks) /\ Head(q) \in Callbacks
  OBVIOUS
<1>2. Len(Only(q, Headers({p}))) =
            Len(Only(Tail(q), Headers({p}))) + IF Head(q) \in Headers({p}) THEN 1 ELSE 0
  BY OnlyTail
<1>3. Head(q) \in Headers({p}) <=> Head(q).port = p
  BY <1>1, HeaderIs
<1>4. Len(CarriedBy(Tail(q), p)) = Len(Only(Tail(q), Headers({p})))
  BY <1>1, CarriedType
<1>5. Len(CarriedBy(q, p)) = Len(Only(q, Headers({p})))
  BY CarriedType
<1> QED BY <1>1, <1>2, <1>3, <1>4, <1>5

\* A drain leaves the headers of the ports it is not about, and only those.
LEMMA CarriedLeft ==
    ASSUME NEW q \in Seq(Callbacks), NEW target \in Ports \cup {ALL}, NEW p \in Ports,
           NEW left, left = Only(q, Others(target))
    PROVE  /\ left \in Seq(Callbacks)
           /\ p \in Targets(target) => CarriedBy(left, p) = <<>>
           /\ p \notin Targets(target) => CarriedBy(left, p) = CarriedBy(q, p)
           /\ DummyCallback \in ToSet(left) => DummyCallback \in ToSet(q)
<1>1. left \in Seq(Callbacks)
  BY OnlyPicks
<1>2. ASSUME NEW U, NEW T
      PROVE  /\ Only(Only(q, U), T) = Only(q, U \cap T)
             /\ \A i \in 1 .. Len(Only(q, U)) : \E j \in 1 .. Len(q) : Only(q, U)[i] = q[j]
  <2>1. Only(Only(q, U), T) = Only(q, U \cap T)
    BY OnlyOnly
  <2>2. PICK m : Picks(Only(q, U), q, KeptAt(q, U, Len(q)), m)
    BY OnlyPicks
  <2> QED BY <2>1, <2>2 DEF Picks, KeptAt
<1>3. Only(left, Headers({p})) = Only(q, Others(target) \cap Headers({p}))
  BY <1>2
<1>4. ASSUME p \in Targets(target) PROVE CarriedBy(left, p) = <<>>
  <2>1. ASSUME NEW m \in Headers({p}) PROVE m \notin Others(target)
    <3>1. m.port = p
      BY HeadersAre
    <3>2. m \notin Headers(Ports \ Targets(target))
      BY <1>4, <3>1, HeadersAre
    <3>3. m # DummyCallback
      BY <3>1, TwoPorts, HeaderIs
    <3> QED BY <3>2, <3>3 DEF Others
  <2>2. Others(target) \cap Headers({p}) = {}
    BY <2>1
  <2>3. Only(q, {}) = <<>>
    <3>1. \A i \in 1 .. Len(q) : q[i] \notin {}
      OBVIOUS
    <3> QED BY <3>1, OnlyNone
  <2>4. Only(left, Headers({p})) = <<>>
    BY <1>3, <2>2, <2>3
  <2> QED BY <1>1, <2>4, CarriedEmpty
<1>5. ASSUME p \notin Targets(target) PROVE CarriedBy(left, p) = CarriedBy(q, p)
  <2>1. Headers({p}) \subseteq Others(target)
    <3>1. ASSUME NEW m \in Headers({p}) PROVE m \in Headers(Ports \ Targets(target))
      <4>1. m = Header(p, m.what) /\ m.what \in Contents
        BY HeadersAre
      <4> QED BY <1>5, <4>1 DEF Headers
    <3> QED BY <3>1 DEF Others
  <2>2. Others(target) \cap Headers({p}) = Headers({p})
    BY <2>1
  <2>3. Only(left, Headers({p})) = Only(q, Headers({p}))
    BY <1>3, <2>2
  <2> QED BY <2>3 DEF CarriedBy
<1>6. DummyCallback \in ToSet(left) => DummyCallback \in ToSet(q)
  <2>1. \A i \in 1 .. Len(left) : \E j \in 1 .. Len(q) : left[i] = q[j]
    BY <1>2
  <2>2. DOMAIN left = 1 .. Len(left) /\ DOMAIN q = 1 .. Len(q)
    BY <1>1
  <2> QED BY <2>1, <2>2 DEF ToSet
<1> QED BY <1>1, <1>4, <1>5, <1>6

-----------------------------------------------------------------------------
(* Headers that move                                                       *)

\* What takes n away.
LEMMA Opposite ==
    ASSUME NEW n \in Int
    PROVE  \E m \in Int : m + n = 0
<1> WITNESS 0 - n \in Int
<1> QED OBVIOUS

\* Adding nothing.
LEMMA Zeros == \A n \in Int : n = n + 0 /\ n = n + (0 + 0)
OBVIOUS

\* What is added up.
LEMMA Sums ==
    /\ \A a, b, c, d, e, f \in Nat : Sum(a, b, c, d, e, f) \in Nat
    /\ \A a, b, c \in Int : Rest(a, b, c) \in Int
BY DEF Sum, Rest

Ints(a, b, c, d, e, f) ==
    a \in Int /\ b \in Int /\ c \in Int /\ d \in Int /\ e \in Int /\ f \in Int

\* The numbers u to z are a to f with i to n added, and u is a with two added.
Added(a, b, c, d, e, f, i, j, k, l, m, n, u, v, w, x, y, z) ==
    u = a + i /\ v = b + j /\ w = c + k /\ x = d + l /\ y = e + m /\ z = f + n

AddedTo(a, b, c, i, j, u, v, w) == u = a + (i + j) /\ v = b + i /\ w = c + j

\* Sums are added term by term.
LEMMA SumOfSums ==
    ASSUME NEW a, NEW b, NEW c, NEW d, NEW e, NEW f,
           NEW i, NEW j, NEW k, NEW l, NEW m, NEW n,
           Ints(a, b, c, d, e, f), Ints(i, j, k, l, m, n), Sum(i, j, k, l, m, n) = 0
    PROVE  Sum(a + i, b + j, c + k, d + l, e + m, f + n) = Sum(a, b, c, d, e, f)
BY DEF Ints, Sum

\* What adds nothing leaves a sum.
LEMMA SameSum ==
    ASSUME NEW a, NEW b, NEW c, NEW d, NEW e, NEW f,
           NEW i, NEW j, NEW k, NEW l, NEW m, NEW n,
           NEW u, NEW v, NEW w, NEW x, NEW y, NEW z,
           Ints(a, b, c, d, e, f), Ints(i, j, k, l, m, n), Sum(i, j, k, l, m, n) = 0,
           Added(a, b, c, d, e, f, i, j, k, l, m, n, u, v, w, x, y, z)
    PROVE  Sum(u, v, w, x, y, z) = Sum(a, b, c, d, e, f)
BY SumOfSums DEF Added

\* What is added to a number and to those taken from it leaves the rest.
LEMMA SameRestOf ==
    ASSUME NEW a, NEW b, NEW c, NEW i, NEW j, NEW u, NEW v, NEW w,
           Ints(a, b, c, i, j, 0), AddedTo(a, b, c, i, j, u, v, w)
    PROVE  Rest(u, v, w) = Rest(a, b, c)
BY DEF Ints, AddedTo, Rest

\* What is added up are numbers.
LEMMA Numbers ==
    ASSUME NEW s, IsComp(s), NEW p \in Ports
    PROVE  /\ Sent(s, p) \in Nat /\ Released(s, p) \in Nat /\ Held(s, p) \in {0, 1}
           /\ Held(s, p) \in Nat
           /\ Len(s.ingress[p]) \in Nat /\ Len(s.egress[p]) \in Nat /\ s.back[p] \in Nat
           /\ s.port[p].claimed \in Int
           /\ Total(s, p) \in Nat /\ Debt(s, p) \in Int
<1>1. s.efb \in Seq(Callbacks) /\ s.callbacks \in Seq(Callbacks)
  BY SentAreCallbacks DEF IsComp
<1>2. Sent(s, p) \in Nat /\ Released(s, p) \in Nat /\ Released(s, p) \in Int
  BY <1>1, CarriedType DEF Sent, Released
<1>3. Held(s, p) \in {0, 1} /\ Held(s, p) \in Nat /\ Held(s, p) \in Int
  BY DEF Held
<1>4. Len(s.ingress[p]) \in Nat /\ Len(s.egress[p]) \in Nat
  BY DEF IsComp
<1>5. s.back[p] \in Nat /\ s.port[p].claimed \in Int
  BY DEF IsComp, PortRecord
<1>6. Total(s, p) \in Nat
  BY <1>2, <1>3, <1>4, <1>5, Sums DEF Total
<1>7. Debt(s, p) \in Int
  BY <1>2, <1>3, <1>5, Sums DEF Debt
<1> QED BY <1>2, <1>3, <1>4, <1>5, <1>6, <1>7

\* From s to t the headers of p are more, or fewer, by so many in each place.
Shift(t, s, p, sent, in, held, released, out, back) ==
    /\ Added(Sent(s, p), Len(s.ingress[p]), Held(s, p), Released(s, p), Len(s.egress[p]), s.back[p],
             sent, in, held, released, out, back,
             Sent(t, p), Len(t.ingress[p]), Held(t, p), Released(t, p), Len(t.egress[p]), t.back[p])
    /\ AddedTo(s.port[p].claimed, Held(s, p), Released(s, p), held, released,
               t.port[p].claimed, Held(t, p), Released(t, p))

\* They only move if that comes to nothing.
LEMMA ShiftBalances ==
    ASSUME NEW s, NEW t, IsComp(s), NEW p \in Ports,
           NEW sent \in Int, NEW in \in Int, NEW held \in Int, NEW released \in Int,
           NEW out \in Int, NEW back \in Int,
           Shift(t, s, p, sent, in, held, released, out, back),
           Sum(sent, in, held, released, out, back) = 0
    PROVE  Balanced(t, s, p)
<1>1. /\ Ints(Sent(s, p), Len(s.ingress[p]), Held(s, p), Released(s, p), Len(s.egress[p]), s.back[p])
      /\ Ints(s.port[p].claimed, Held(s, p), Released(s, p), held, released, 0)
      /\ Ints(sent, in, held, released, out, back)
  BY Numbers DEF Ints
<1>2. Total(t, p) = Total(s, p)
  BY <1>1, SameSum DEF Shift, Total
<1>3. Debt(t, p) = Debt(s, p)
  BY <1>1, SameRestOf DEF Shift, Debt
<1> QED BY <1>2, <1>3 DEF Balanced

\* Nothing moves nothing.
LEMMA MovesSelf ==
    ASSUME NEW s, IsComp(s)
    PROVE  Moves(s, s)
BY DEF Moves, Conserves, Balanced, SameControl, SameRest

\* Moves can be put together.
LEMMA MovesTwice ==
    ASSUME NEW s, NEW t, NEW u, Moves(t, s), Moves(u, t)
    PROVE  Moves(u, s)
BY DEF Moves, Conserves, Balanced, SameControl, SameRest

\* What conserves the headers may be done twice in a row.
LEMMA ConservesTwice ==
    ASSUME NEW s, NEW t, NEW u, Conserves(t, s), Conserves(u, t)
    PROVE  Conserves(u, s)
BY DEF Conserves, Balanced

\* What leaves the headers alone conserves them.
LEMMA SameHeadersConserve ==
    ASSUME NEW s, NEW t, IsComp(t), SameHeaders(t, s)
    PROVE  Conserves(t, s)
BY DEF Conserves, SameHeaders, Balanced, Total, Debt, Sent, Released, Held

\* What flush_egress does to one list.
LEMMA FlushEgressMoves ==
    ASSUME NEW s, IsComp(s), NEW p \in Ports, NEW t, t = FlushEgress(s, p)
    PROVE  /\ Moves(t, s)
           /\ t.egress = [s.egress EXCEPT ![p] = <<>>]
           /\ t.ingress = s.ingress /\ t.efb = s.efb /\ t.callbacks = s.callbacks
           /\ t.hold = s.hold /\ t.port = s.port
<1>1. /\ DOMAIN t = Fields
      /\ t.egress = [s.egress EXCEPT ![p] = <<>>]
      /\ t.back = [s.back EXCEPT ![p] = @ + Len(s.egress[p])]
      /\ t.ingress = s.ingress /\ t.efb = s.efb /\ t.callbacks = s.callbacks
      /\ t.hold = s.hold /\ t.port = s.port
      /\ t.cur = s.cur /\ t.inProgress = s.inProgress /\ t.param = s.param
      /\ t.cancellation = s.cancellation
      /\ t.counted = s.counted /\ t.completions = s.completions
      /\ t.commands = s.commands /\ t.krn = s.krn /\ t.prc = s.prc
      /\ t.failed = s.failed /\ t.completion = s.completion
      /\ t.ready = s.ready /\ t.packets = s.packets
  BY DEF FlushEgress, Event, IsComp, Fields
<1>2. Len(s.egress[p]) \in Nat
  BY DEF IsComp
<1>3. IsComp(t)
  <2>1. t.back \in [Ports -> Nat]
    BY <1>1, <1>2 DEF IsComp
  <2>2. t.egress \in [Ports -> Seq(Contents)]
    BY <1>1 DEF IsComp
  <2> QED BY <1>1, <2>1, <2>2 DEF IsComp
<1>4. SameControl(t, s)
  BY <1>1 DEF SameControl, SameRest, HasDummy
<1>5. ASSUME NEW q \in Ports PROVE Balanced(t, s, q)
  <2> PICK n : n = IF q = p THEN Len(s.egress[q]) ELSE 0
    OBVIOUS
  <2>0. n \in Nat /\ n \in Int
    BY <1>2
  <2> PICK m \in Int : m + n = 0
    BY <2>0, Opposite
  <2>1. /\ Sent(t, q) = Sent(s, q) /\ Released(t, q) = Released(s, q) /\ Held(t, q) = Held(s, q)
        /\ t.ingress[q] = s.ingress[q] /\ t.port[q].claimed = s.port[q].claimed
    BY <1>1 DEF Sent, Released, Held
  <2>2. Len(t.egress[q]) = Len(s.egress[q]) + m /\ t.back[q] = s.back[q] + n
    <3>1. CASE q = p
      <4>1. t.egress[q] = <<>> /\ t.back[q] = s.back[q] + Len(s.egress[q])
        BY <1>1, <3>1 DEF IsComp
      <4>2. Len(t.egress[q]) = 0 /\ n = Len(s.egress[q])
        BY <3>1, <4>1
      <4> QED BY <2>0, <4>1, <4>2
    <3>2. CASE q # p
      <4>1. n = 0 /\ m = 0 /\ t.egress[q] = s.egress[q] /\ t.back[q] = s.back[q]
        BY <1>1, <3>2, SMTT(30) DEF IsComp
      <4>2. Len(s.egress[q]) \in Nat /\ s.back[q] \in Nat
        BY Numbers
      <4> QED BY <4>1, <4>2
    <3> QED BY <3>1, <3>2
  <2>3. Shift(t, s, q, 0, 0, 0, 0, m, n)
    <3>1. /\ Sent(s, q) \in Int /\ Released(s, q) \in Int /\ Held(s, q) \in Int
          /\ Len(s.ingress[q]) \in Int /\ s.back[q] \in Int /\ s.port[q].claimed \in Int
      BY Numbers
    <3> QED BY <2>1, <2>2, <3>1, Zeros DEF Shift, Added, AddedTo
  <2>4. Sum(0, 0, 0, 0, m, n) = 0
    BY <2>0 DEF Sum
  <2> QED BY <2>0, <2>3, <2>4, ShiftBalances
<1> QED BY <1>1, <1>3, <1>4, <1>5 DEF Moves, Conserves

\* What move_to_egress does.
LEMMA MoveToEgressMoves ==
    ASSUME NEW s, IsComp(s), NEW p \in Ports, NEW t, t = MoveToEgress(s, p)
    PROVE  /\ Moves(t, s)
           /\ t.ingress[p] = <<>>
           /\ \A q \in Ports : q # p => t.ingress[q] = s.ingress[q] /\ t.egress[q] = s.egress[q]
           /\ t.efb = s.efb /\ t.callbacks = s.callbacks
           /\ t.hold = s.hold /\ t.port = s.port
<1>1. /\ DOMAIN t = Fields
      /\ t.egress = [s.egress EXCEPT ![p] = @ \o s.ingress[p]]
      /\ t.ingress = [s.ingress EXCEPT ![p] = <<>>]
      /\ t.back = s.back /\ t.efb = s.efb /\ t.callbacks = s.callbacks
      /\ t.hold = s.hold /\ t.port = s.port
      /\ t.cur = s.cur /\ t.inProgress = s.inProgress /\ t.param = s.param
      /\ t.cancellation = s.cancellation
      /\ t.counted = s.counted /\ t.completions = s.completions
      /\ t.commands = s.commands /\ t.krn = s.krn /\ t.prc = s.prc
      /\ t.failed = s.failed /\ t.completion = s.completion
      /\ t.ready = s.ready /\ t.packets = s.packets
  BY DEF MoveToEgress, IsComp, Fields
<1>2. /\ s.egress[p] \o s.ingress[p] \in Seq(Contents)
      /\ Len(s.egress[p] \o s.ingress[p]) = Len(s.egress[p]) + Len(s.ingress[p])
  BY ConcatProperties DEF IsComp
<1>3. IsComp(t)
  BY <1>1, <1>2 DEF IsComp
<1>4. SameControl(t, s)
  BY <1>1 DEF SameControl, SameRest, HasDummy
<1>5. ASSUME NEW q \in Ports PROVE Balanced(t, s, q)
  <2> PICK n : n = IF q = p THEN Len(s.ingress[q]) ELSE 0
    OBVIOUS
  <2>0. n \in Nat /\ n \in Int
    BY Numbers
  <2> PICK m \in Int : m + n = 0
    BY <2>0, Opposite
  <2>1. /\ Sent(t, q) = Sent(s, q) /\ Released(t, q) = Released(s, q) /\ Held(t, q) = Held(s, q)
        /\ t.back[q] = s.back[q] /\ t.port[q].claimed = s.port[q].claimed
    BY <1>1 DEF Sent, Released, Held
  <2>2. Len(t.egress[q]) = Len(s.egress[q]) + n /\ Len(t.ingress[q]) = Len(s.ingress[q]) + m
    <3>1. CASE q = p
      <4>1. t.ingress[q] = <<>> /\ t.egress[q] = s.egress[q] \o s.ingress[q]
        BY <1>1, <3>1 DEF IsComp
      <4>2. n = Len(s.ingress[q]) /\ Len(t.ingress[q]) = 0
        BY <3>1, <4>1
      <4> QED BY <2>0, <4>1, <4>2, <3>1, <1>2
    <3>2. CASE q # p
      <4>1. n = 0 /\ m = 0 /\ t.egress[q] = s.egress[q] /\ t.ingress[q] = s.ingress[q]
        BY <1>1, <3>2 DEF IsComp
      <4>2. Len(s.egress[q]) \in Int /\ Len(s.ingress[q]) \in Int
        BY Numbers
      <4> QED BY <4>1, <4>2, Zeros
    <3> QED BY <3>1, <3>2
  <2>3. Shift(t, s, q, 0, m, 0, 0, n, 0)
    <3>1. /\ Sent(s, q) \in Int /\ Released(s, q) \in Int /\ Held(s, q) \in Int
          /\ Len(s.ingress[q]) \in Int /\ s.back[q] \in Int /\ s.port[q].claimed \in Int
      BY Numbers
    <3> QED BY <2>1, <2>2, <3>1, Zeros DEF Shift, Added, AddedTo
  <2>4. Sum(0, m, 0, 0, n, 0) = 0
    BY <2>0 DEF Sum
  <2> QED BY <2>0, <2>3, <2>4, ShiftBalances
<1>6. /\ t.ingress[p] = <<>>
      /\ \A q \in Ports : q # p => t.ingress[q] = s.ingress[q] /\ t.egress[q] = s.egress[q]
  BY <1>1 DEF IsComp
<1> QED BY <1>1, <1>3, <1>4, <1>5, <1>6 DEF Moves, Conserves

\* What the processor is told does not touch a header.
LEMMA ToProcessorMoves ==
    ASSUME NEW s, IsComp(s), NEW c \in Messages, NEW t, t = ToProcessor(s, c)
    PROVE  /\ IsComp(t) /\ SameHeaders(t, s) /\ SameRest(t, s) /\ Conserves(t, s)
           /\ t.port = s.port /\ t.prc = Append(s.prc, c)
<1>1. IsComp(t) /\ SameHeaders(t, s) /\ SameRest(t, s) /\ t.port = s.port /\ t.prc = Append(s.prc, c)
  BY DEF ToProcessor, IsComp, Fields, SameHeaders, SameRest, HasDummy
<1> QED BY <1>1, SameHeadersConserve

\* The count of claimed headers of a port changes.
LEMMA ClaimedChange ==
    ASSUME NEW r \in PortRecord, NEW k \in Int
    PROVE  /\ [r EXCEPT !.claimed = k] \in PortRecord
           /\ [r EXCEPT !.claimed = k].claimed = k
           /\ [r EXCEPT !.claimed = k].flushing = r.flushing
           /\ k = r.claimed => [r EXCEPT !.claimed = k] = r
BY DEF PortRecord

\* From s to t so many headers of p leave the two queues for the lists.
TakenOut(t, s, p, sent, released) ==
    /\ Sent(s, p) = Sent(t, p) + sent /\ Released(s, p) = Released(t, p) + released
    /\ Len(t.ingress[p]) = Len(s.ingress[p]) + sent
    /\ Len(t.egress[p]) = Len(s.egress[p]) + released
    /\ t.port[p].claimed = s.port[p].claimed - released
    /\ Held(t, p) = Held(s, p) /\ t.back[p] = s.back[p]

\* No header is lost by that.
LEMMA TakenOutBalances ==
    ASSUME NEW s, NEW t, IsComp(s), IsComp(t), NEW p \in Ports, NEW a \in Nat, NEW b \in Nat,
           TakenOut(t, s, p, a, b)
    PROVE  Balanced(t, s, p)
<1>1. PICK i \in Int : i + a = 0
  BY Opposite
<1>2. PICK j \in Int : j + b = 0
  BY Opposite
<1>3. /\ Sent(t, p) \in Int /\ Released(t, p) \in Int
      /\ Sent(s, p) \in Int /\ Released(s, p) \in Int
      /\ s.port[p].claimed \in Int /\ Held(s, p) \in Int /\ s.back[p] \in Int
  BY Numbers
<1>4. Sent(t, p) = Sent(s, p) + i
  <2>1. ASSUME NEW x \in Int PROVE x = (x + a) + i
    BY <1>1
  <2> QED BY <1>3, <2>1 DEF TakenOut
<1>5. Released(t, p) = Released(s, p) + j
  <2>1. ASSUME NEW x \in Int PROVE x = (x + b) + j
    BY <1>2
  <2> QED BY <1>3, <2>1 DEF TakenOut
<1>6. s.port[p].claimed - b = s.port[p].claimed + (0 + j)
  BY <1>2, <1>3
<1>7. Shift(t, s, p, i, a, 0, j, b, 0)
  BY <1>3, <1>4, <1>5, <1>6, Zeros DEF Shift, Added, AddedTo, TakenOut
<1>8. Sum(i, a, 0, j, b, 0) = 0 /\ a \in Int /\ b \in Int
  BY <1>1, <1>2 DEF Sum
<1> QED BY <1>7, <1>8, ShiftBalances

\* There is nothing of p that a drain is about.
Unaffected(s, target, p) ==
    p \notin Targets(target) \/ (s.efb = <<>> /\ s.callbacks = <<>>)

\* The servant's queue without the messages of a port, or of all, as Drain leaves it.
LEMMA DrainMoves ==
    ASSUME NEW s, IsComp(s), ~HasDummy(s), NEW target \in Ports \cup {ALL},
           NEW t, t = Drain(s, target)
    PROVE  /\ Moves(t, s)
           /\ t.hold = s.hold
           /\ target = ALL => t.efb = <<>> /\ t.callbacks = <<>>
           /\ \A p \in Ports : Unaffected(s, target, p) =>
                /\ t.ingress[p] = s.ingress[p] /\ t.egress[p] = s.egress[p]
                /\ t.port[p] = s.port[p]
<1> DEFINE taken(queue, p) == IF p \in Targets(target) THEN CarriedBy(queue, p) ELSE <<>>
<1>0. Expect(s, DummyCallback \notin ToSet(s.callbacks), "NULL != p_hdr") = s
  BY DEF Expect, HasDummy
<1> PICK ingress : ingress = [p \in Ports |-> s.ingress[p] \o taken(s.efb, p)]
  OBVIOUS
<1> PICK egress : egress = [p \in Ports |-> s.egress[p] \o taken(s.callbacks, p)]
  OBVIOUS
<1> PICK port : port = [p \in Ports |->
                [s.port[p] EXCEPT !.claimed = @ - Len(taken(s.callbacks, p))]]
  OBVIOUS
<1> PICK efb : efb = Only(s.efb, Others(target))
  OBVIOUS
<1> PICK callbacks : callbacks = Only(s.callbacks, Others(target))
  OBVIOUS
<1>1. t = [s EXCEPT !.efb = efb, !.callbacks = callbacks, !.ingress = ingress,
                    !.egress = egress, !.port = port]
  BY <1>0 DEF Drain, IsComp, Fields
<1>2. s.efb \in Seq(Callbacks) /\ s.callbacks \in Seq(Callbacks)
  BY SentAreCallbacks DEF IsComp
<1>3. efb \in Seq(Headers(Ports)) /\ callbacks \in Seq(Callbacks)
  BY OnlyPicks DEF IsComp
<1>4. ASSUME NEW p \in Ports, NEW q \in Seq(Callbacks)
      PROVE  taken(q, p) \in Seq(Contents) /\ Len(taken(q, p)) \in Nat
  <2>1. CASE p \in Targets(target)
    BY <2>1, CarriedType
  <2>2. CASE p \notin Targets(target)
    <3>1. taken(q, p) = <<>>
      BY <2>2
    <3> QED BY <3>1, EmptySeq
  <2> QED BY <2>1, <2>2
<1>5. ASSUME NEW p \in Ports
      PROVE  /\ ingress[p] \in Seq(Contents) /\ egress[p] \in Seq(Contents)
             /\ Len(ingress[p]) = Len(s.ingress[p]) + Len(taken(s.efb, p))
             /\ Len(egress[p]) = Len(s.egress[p]) + Len(taken(s.callbacks, p))
             /\ port[p] \in PortRecord
             /\ port[p].claimed = s.port[p].claimed - Len(taken(s.callbacks, p))
             /\ port[p].flushing = s.port[p].flushing
             /\ Unaffected(s, target, p) =>
                    ingress[p] = s.ingress[p] /\ egress[p] = s.egress[p] /\ port[p] = s.port[p]
  <2> PICK a : a = taken(s.efb, p)
    OBVIOUS
  <2> PICK b : b = taken(s.callbacks, p)
    OBVIOUS
  <2>1. /\ a \in Seq(Contents) /\ b \in Seq(Contents) /\ Len(a) \in Nat /\ Len(b) \in Nat
        /\ Unaffected(s, target, p) => a = <<>> /\ b = <<>>
    <3>1. CarriedBy(<<>>, p) = <<>>
      BY OnlyEmpty, EmptySeq, CarriedEmpty
    <3> QED BY <1>2, <1>4, <3>1 DEF Unaffected
  <2>2. /\ ingress[p] = s.ingress[p] \o a /\ egress[p] = s.egress[p] \o b
        /\ port[p] = [s.port[p] EXCEPT !.claimed = @ - Len(b)]
    OBVIOUS
  <2>3. s.ingress[p] \in Seq(Contents) /\ s.egress[p] \in Seq(Contents) /\ s.port[p] \in PortRecord
    BY DEF IsComp
  <2> HIDE DEF taken
  <2>4. /\ ingress[p] \in Seq(Contents) /\ egress[p] \in Seq(Contents)
        /\ Len(ingress[p]) = Len(s.ingress[p]) + Len(a)
        /\ Len(egress[p]) = Len(s.egress[p]) + Len(b)
    BY <2>1, <2>2, <2>3, ConcatProperties
  <2>5. /\ port[p] \in PortRecord
        /\ port[p].claimed = s.port[p].claimed - Len(b)
        /\ port[p].flushing = s.port[p].flushing
        /\ Len(b) = 0 => port[p] = s.port[p]
    <3>2. s.port[p].claimed \in Int /\ Len(b) \in Nat
      BY <2>1, <2>3 DEF PortRecord
    <3>3. s.port[p].claimed - Len(b) \in Int
          /\ (Len(b) = 0 => s.port[p].claimed - Len(b) = s.port[p].claimed)
      BY <3>2
    <3>4. ASSUME NEW k \in Int, NEW r \in PortRecord, NEW u, u = [r EXCEPT !.claimed = k]
          PROVE  u \in PortRecord /\ u.claimed = k /\ u.flushing = r.flushing
                 /\ (k = r.claimed => u = r)
      BY <3>4, ClaimedChange
    <3> QED BY <2>2, <2>3, <3>3, <3>4
  <2>6. ASSUME Unaffected(s, target, p)
        PROVE  ingress[p] = s.ingress[p] /\ egress[p] = s.egress[p] /\ port[p] = s.port[p]
    <3>1. a = <<>> /\ b = <<>> /\ Len(b) = 0
      BY <2>1, <2>6
    <3>2. s.ingress[p] \o a = s.ingress[p] /\ s.egress[p] \o b = s.egress[p]
      BY <3>1, <2>3, ConcatEmptySeq
    <3> QED BY <2>2, <2>5, <3>1, <3>2
  <2> QED BY <2>4, <2>5, <2>6
<1>6. ASSUME NEW p \in Ports
      PROVE  /\ Len(CarriedBy(efb, p)) + Len(taken(s.efb, p)) = Len(CarriedBy(s.efb, p))
             /\ Len(CarriedBy(callbacks, p)) + Len(taken(s.callbacks, p)) = Len(CarriedBy(s.callbacks, p))
  <2>1. /\ p \in Targets(target) => CarriedBy(efb, p) = <<>> /\ CarriedBy(callbacks, p) = <<>>
        /\ p \notin Targets(target) =>
              CarriedBy(efb, p) = CarriedBy(s.efb, p) /\ CarriedBy(callbacks, p) = CarriedBy(s.callbacks, p)
    BY <1>2, CarriedLeft
  <2>2. Len(CarriedBy(s.efb, p)) \in Nat /\ Len(CarriedBy(s.callbacks, p)) \in Nat
    BY <1>2, CarriedType
  <2>3. CASE p \in Targets(target)
    BY <2>1, <2>2, <2>3
  <2>4. CASE p \notin Targets(target)
    BY <2>1, <2>2, <2>4
  <2> QED BY <2>3, <2>4
<1>7. DummyCallback \in ToSet(callbacks) => DummyCallback \in ToSet(s.callbacks)
  <2>1. In \in Ports
    BY TwoPorts
  <2> QED BY <1>2, <2>1, CarriedLeft
<1>8. \A p \in Ports : Unaffected(s, target, p) =>
          ingress[p] = s.ingress[p] /\ egress[p] = s.egress[p] /\ port[p] = s.port[p]
  BY <1>5
<1>9. target = ALL => efb = <<>> /\ callbacks = <<>>
  <2>1. ASSUME target = ALL PROVE efb = <<>> /\ callbacks = <<>>
    <3>1. Others(target) = {}
      BY <2>1 DEF Others, Targets, Headers
    <3>2. \A q \in Seq(Callbacks) : Only(q, {}) = <<>>
      BY OnlyNone
    <3> QED BY <1>2, <3>1, <3>2
  <2> QED BY <2>1
<1>10. IsComp(t)
  <2>1. ingress \in [Ports -> Seq(Contents)] /\ egress \in [Ports -> Seq(Contents)]
    <3>1. DOMAIN ingress = Ports /\ DOMAIN egress = Ports
      OBVIOUS
    <3> HIDE DEF taken
    <3> QED BY <1>5, <3>1
  <2>2. port \in [Ports -> PortRecord]
    <3>1. DOMAIN port = Ports
      OBVIOUS
    <3> HIDE DEF taken
    <3> QED BY <1>5, <3>1
  <2> HIDE DEF taken
  <2> QED BY <1>1, <1>3, <2>1, <2>2, SMTT(30) DEF IsComp, Fields
<1>11. /\ t.efb = efb /\ t.callbacks = callbacks /\ t.ingress = ingress /\ t.egress = egress
       /\ t.port = port /\ t.hold = s.hold /\ t.back = s.back
       /\ t.cur = s.cur /\ t.inProgress = s.inProgress /\ t.param = s.param
       /\ t.counted = s.counted /\ t.completions = s.completions
       /\ t.commands = s.commands /\ t.krn = s.krn /\ t.prc = s.prc
       /\ t.failed = s.failed /\ t.completion = s.completion
  BY <1>1 DEF IsComp, Fields
<1>12. SameControl(t, s)
  BY <1>5, <1>7, <1>11, ZenonT(30) DEF SameControl, SameRest, HasDummy
<1>13. ASSUME NEW p \in Ports PROVE Balanced(t, s, p)
  <2>1. Len(taken(s.efb, p)) \in Nat /\ Len(taken(s.callbacks, p)) \in Nat
    BY <1>2, <1>4
  <2>2. TakenOut(t, s, p, Len(taken(s.efb, p)), Len(taken(s.callbacks, p)))
    <3>1. /\ Len(CarriedBy(efb, p)) + Len(taken(s.efb, p)) = Len(CarriedBy(s.efb, p))
          /\ Len(CarriedBy(callbacks, p)) + Len(taken(s.callbacks, p)) = Len(CarriedBy(s.callbacks, p))
          /\ Len(ingress[p]) = Len(s.ingress[p]) + Len(taken(s.efb, p))
          /\ Len(egress[p]) = Len(s.egress[p]) + Len(taken(s.callbacks, p))
          /\ port[p].claimed = s.port[p].claimed - Len(taken(s.callbacks, p))
      BY <1>5, <1>6
    <3> HIDE DEF taken
    <3>2. /\ Sent(t, p) = Len(CarriedBy(efb, p)) /\ Sent(s, p) = Len(CarriedBy(s.efb, p))
          /\ Released(t, p) = Len(CarriedBy(callbacks, p))
          /\ Released(s, p) = Len(CarriedBy(s.callbacks, p))
          /\ Held(t, p) = Held(s, p)
      BY <1>11 DEF Sent, Released, Held
    <3> QED BY <1>11, <3>1, <3>2 DEF TakenOut
  <2> HIDE DEF taken
  <2> QED BY <2>1, <2>2, <1>10, TakenOutBalances
<1> HIDE DEF taken
<1> QED BY <1>8, <1>9, <1>10, <1>11, <1>12, <1>13, ZenonT(30) DEF Moves, Conserves

\* What remains of a queue without the flag for itself: a list in clear_hdr_lsts
\* that is empty stays empty.
LEMMA ClearListsMoves ==
    ASSUME NEW s, IsComp(s), s.ingress[In] = <<>>, s.egress[In] = <<>>, NEW t, t = ClearLists(s)
    PROVE  /\ Moves(t, s) /\ t.ingress = s.ingress /\ t.egress = s.egress
           /\ t.efb = s.efb /\ t.callbacks = s.callbacks /\ t.hold = s.hold /\ t.port = s.port
<1>1. FirstPort = In /\ In \in Ports
  BY TwoPorts
<1>2. [s.ingress EXCEPT ![In] = <<>>] = s.ingress /\ [s.egress EXCEPT ![In] = <<>>] = s.egress
  BY <1>1 DEF IsComp
<1>3. /\ IsComp(t) /\ SameControl(t, s) /\ SameHeaders(t, s) /\ t.port = s.port
      /\ t.ingress = s.ingress /\ t.egress = s.egress
      /\ t.efb = s.efb /\ t.callbacks = s.callbacks /\ t.hold = s.hold
  BY <1>1, <1>2 DEF ClearLists, IsComp, Fields, SameControl, SameRest, SameHeaders, HasDummy
<1> QED BY <1>3, SameHeadersConserve DEF Moves

\* That the end was announced is forgotten.
LEMMA ForgetEosMoves ==
    ASSUME NEW s, IsComp(s), NEW t, t = ForgetEos(s)
    PROVE  /\ Moves(t, s) /\ t.ingress = s.ingress /\ t.egress = s.egress
           /\ t.efb = s.efb /\ t.callbacks = s.callbacks /\ t.hold = s.hold /\ t.port = s.port
<1>1. /\ IsComp(t) /\ SameControl(t, s) /\ SameHeaders(t, s)
      /\ t.ingress = s.ingress /\ t.egress = s.egress
      /\ t.efb = s.efb /\ t.callbacks = s.callbacks /\ t.hold = s.hold /\ t.port = s.port
  BY DEF ForgetEos, IsComp, Fields, SameControl, SameRest, SameHeaders, HasDummy
<1> QED BY <1>1, SameHeadersConserve DEF Moves

\* A BuffersReady message is no header.
LEMMA ReadyMoves ==
    ASSUME NEW s, IsComp(s), NEW n \in Int, NEW t, t = [s EXCEPT !.ready = n]
    PROVE  Moves(t, s)
<1>1. IsComp(t) /\ SameControl(t, s) /\ SameHeaders(t, s)
  BY DEF IsComp, Fields, SameControl, SameRest, SameHeaders, HasDummy
<1> QED BY <1>1, SameHeadersConserve DEF Moves

\* Nor is a packet.
LEMMA PacketsMove ==
    ASSUME NEW s, IsComp(s), NEW n \in Nat, NEW t, t = [s EXCEPT !.packets = n]
    PROVE  Moves(t, s)
<1>1. IsComp(t) /\ SameControl(t, s) /\ SameHeaders(t, s)
  BY DEF IsComp, Fields, SameControl, SameRest, SameHeaders, HasDummy
<1> QED BY <1>1, SameHeadersConserve DEF Moves

\* What krn_release_buffer does with a header that the processor holds.
LEMMA ReleaseMoves ==
    ASSUME NEW s, IsComp(s), NEW p \in Ports, s.hold[p] # None, NEW what \in Contents,
           NEW t, t = Release(s, p, what)
    PROVE  /\ Moves(t, s)
           /\ t.hold = [s.hold EXCEPT ![p] = None]
           /\ t.ingress = s.ingress /\ t.egress = s.egress /\ t.efb = s.efb /\ t.port = s.port
<1> PICK m : m = Header(p, what)
  OBVIOUS
<1>0. m \in Callbacks /\ m # DummyCallback /\ m.port = p
  BY HeaderIs, TwoPorts DEF Header
<1>1. /\ DOMAIN t = Fields
      /\ t.hold = [s.hold EXCEPT ![p] = None]
      /\ t.callbacks = Append(s.callbacks, m)
      /\ t.ingress = s.ingress /\ t.egress = s.egress /\ t.efb = s.efb /\ t.port = s.port
      /\ t.back = s.back
      /\ t.cur = s.cur /\ t.inProgress = s.inProgress /\ t.param = s.param
      /\ t.cancellation = s.cancellation
      /\ t.counted = s.counted /\ t.completions = s.completions
      /\ t.commands = s.commands /\ t.krn = s.krn /\ t.prc = s.prc
      /\ t.failed = s.failed /\ t.completion = s.completion
      /\ t.ready = s.ready /\ t.packets = s.packets
  BY DEF Release, IsComp, Fields
<1>2. s.callbacks \in Seq(Callbacks) /\ s.hold \in [Ports -> Contents \cup {None}]
  BY DEF IsComp
<1>3. IsComp(t)
  <2>1. t.callbacks \in Seq(Callbacks) /\ t.hold \in [Ports -> Contents \cup {None}]
    BY <1>0, <1>1, <1>2
  <2> QED BY <1>1, <2>1 DEF IsComp
<1>4. SameControl(t, s)
  <2>1. HasDummy(t) => HasDummy(s)
    <3>1. ASSUME NEW q \in Seq(Callbacks), NEW x, x \in ToSet(Append(q, m)), x # m
          PROVE  x \in ToSet(q)
      BY <1>0, <3>1 DEF ToSet
    <3> QED BY <1>0, <1>1, <1>2, <3>1 DEF HasDummy
  <2> QED BY <1>1, <2>1 DEF SameControl, SameRest
<1>5. ASSUME NEW q \in Ports PROVE Balanced(t, s, q)
  <2> PICK n : n = IF q = p THEN 1 ELSE 0
    OBVIOUS
  <2>0. n \in Nat /\ n \in Int
    OBVIOUS
  <2> PICK m1 \in Int : m1 + n = 0
    BY <2>0, Opposite
  <2>1. Released(t, q) = Released(s, q) + n
    BY <1>0, <1>1, <1>2, CarriedAppend DEF Released
  <2>2. Held(t, q) = Held(s, q) + m1
    <3>1. CASE q = p
      BY <1>1, <1>2, <3>1 DEF Held
    <3>2. CASE q # p
      BY <1>1, <1>2, <3>2 DEF Held
    <3> QED BY <3>1, <3>2
  <2>3. Sent(t, q) = Sent(s, q)
    BY <1>1 DEF Sent
  <2>4. Shift(t, s, q, 0, 0, m1, n, 0, 0)
    <3>1. /\ Sent(s, q) \in Int /\ Len(s.ingress[q]) \in Int /\ Len(s.egress[q]) \in Int
          /\ s.back[q] \in Int /\ s.port[q].claimed \in Int
      BY Numbers
    <3>2. s.port[q].claimed = s.port[q].claimed + (m1 + n)
      BY <3>1
    <3> QED BY <1>1, <2>1, <2>2, <2>3, <3>1, <3>2, Zeros DEF Shift, Added, AddedTo
  <2>5. Sum(0, 0, m1, n, 0, 0) = 0
    BY <2>0 DEF Sum
  <2> QED BY <2>0, <2>4, <2>5, ShiftBalances
<1> QED BY <1>1, <1>3, <1>4, <1>5 DEF Moves, Conserves

\* What release_headers does for one port.
LEMMA ReleaseHeldMoves ==
    ASSUME NEW s, IsComp(s), NEW p \in Ports, NEW t, t = ReleaseHeld(s, p)
    PROVE  /\ Moves(t, s)
           /\ t.hold[p] = None
           /\ t.ingress = s.ingress /\ t.egress = s.egress /\ t.efb = s.efb /\ t.port = s.port
<1>1. s.hold \in [Ports -> Contents \cup {None}]
  BY DEF IsComp
<1>2. CASE s.hold[p] = None
  BY <1>2, MovesSelf DEF ReleaseHeld
<1>3. CASE s.hold[p] # None
  <2>1. t = Release(s, p, s.hold[p]) /\ s.hold[p] \in Contents
    BY <1>1, <1>3 DEF ReleaseHeld
  <2>2. /\ Moves(t, s) /\ t.hold = [s.hold EXCEPT ![p] = None]
        /\ t.ingress = s.ingress /\ t.egress = s.egress /\ t.efb = s.efb /\ t.port = s.port
    BY <1>3, <2>1, ReleaseMoves
  <2> QED BY <1>1, <2>2
<1> QED BY <1>2, <1>3

\* What krn_claim_buffer does, when the component is not paused.
LEMMA ClaimMoves ==
    ASSUME NEW s, IsComp(s), s.cur # "Pause", NEW p \in Ports, NEW t, t = Claim(s, p)
    PROVE  Moves(t, s) /\ \A q \in Ports : s.hold[q] # None => t.hold[q] = s.hold[q]
<1>0. CASE s.hold[p] # None \/ s.ingress[p] = <<>>
  BY <1>0, MovesSelf DEF Claim
<1>a. CASE s.hold[p] = None /\ s.ingress[p] # <<>>
  <2> PICK x : x = IF p = In THEN Head(s.ingress[p]) ELSE "empty"
    OBVIOUS
  <2> PICK r : r = [s.port[p] EXCEPT !.claimed = @ + 1]
    OBVIOUS
  <2>1. /\ DOMAIN t = Fields
        /\ t.hold = [s.hold EXCEPT ![p] = x]
        /\ t.ingress = [s.ingress EXCEPT ![p] = Tail(@)]
        /\ t.port = [s.port EXCEPT ![p] = r]
        /\ t.callbacks = s.callbacks /\ t.egress = s.egress /\ t.efb = s.efb
        /\ t.back = s.back
        /\ t.cur = s.cur /\ t.inProgress = s.inProgress /\ t.param = s.param
        /\ t.cancellation = s.cancellation
        /\ t.counted = s.counted /\ t.completions = s.completions
        /\ t.commands = s.commands /\ t.krn = s.krn /\ t.prc = s.prc
        /\ t.failed = s.failed /\ t.completion = s.completion
        /\ t.ready = s.ready /\ t.packets = s.packets
    BY <1>a DEF Claim, Expect, IsComp, Fields
  <2>2. /\ s.hold \in [Ports -> Contents \cup {None}] /\ s.ingress \in [Ports -> Seq(Contents)]
        /\ s.port \in [Ports -> PortRecord]
    BY DEF IsComp
  <2>3. /\ Head(s.ingress[p]) \in Contents /\ Tail(s.ingress[p]) \in Seq(Contents)
        /\ Len(s.ingress[p]) = Len(Tail(s.ingress[p])) + 1 /\ Len(Tail(s.ingress[p])) \in Nat
    BY <1>a, <2>2
  <2>4. x \in Contents /\ x # None
    BY <2>3 DEF Contents, None
  <2>5. r \in PortRecord /\ r.claimed = s.port[p].claimed + 1 /\ r.flushing = s.port[p].flushing
    <3>1. s.port[p] \in PortRecord
      BY <2>2
    <3>2. s.port[p].claimed \in Int
      BY Numbers
    <3>3. s.port[p].claimed + 1 \in Int
      BY <3>2
    <3> QED BY <3>1, <3>3, ClaimedChange
  <2>6. IsComp(t)
    <3>1. t.hold \in [Ports -> Contents \cup {None}]
      BY <2>1, <2>2, <2>4
    <3>2. t.ingress \in [Ports -> Seq(Contents)]
      BY <2>1, <2>2, <2>3
    <3>3. t.port \in [Ports -> PortRecord]
      BY <2>1, <2>2, <2>5
    <3> QED BY <2>1, <3>1, <3>2, <3>3 DEF IsComp
  <2>7. SameControl(t, s)
    BY <2>1, <2>2, <2>5 DEF SameControl, SameRest, HasDummy
  <2>8. ASSUME NEW q \in Ports PROVE Balanced(t, s, q)
    <3> PICK n : n = IF q = p THEN 1 ELSE 0
      OBVIOUS
    <3>0. n \in Nat /\ n \in Int
      OBVIOUS
    <3> PICK m \in Int : m + n = 0
      BY <3>0, Opposite
    <3>1. Held(t, q) = Held(s, q) + n
      <4>1. CASE q = p
        BY <1>a, <2>1, <2>2, <2>4, <4>1 DEF Held
      <4>2. CASE q # p
        BY <2>1, <2>2, <4>2 DEF Held
      <4> QED BY <4>1, <4>2
    <3>2. Len(t.ingress[q]) = Len(s.ingress[q]) + m
      <4>1. CASE q = p
        BY <2>1, <2>2, <2>3, <4>1
      <4>2. CASE q # p
        BY <2>1, <2>2, <4>2
      <4> QED BY <4>1, <4>2
    <3>3. t.port[q].claimed = s.port[q].claimed + (n + 0)
      <4>1. CASE q = p
        BY <2>1, <2>2, <2>5, <4>1
      <4>2. CASE q # p
        <5>1. s.port[q].claimed \in Int /\ t.port[q] = s.port[q]
          BY <2>1, <2>2, <4>2, Numbers
        <5> QED BY <4>2, <5>1
      <4> QED BY <4>1, <4>2
    <3>4. Sent(t, q) = Sent(s, q) /\ Released(t, q) = Released(s, q)
      BY <2>1 DEF Sent, Released
    <3>5. Shift(t, s, q, 0, m, n, 0, 0, 0)
      <4>1. /\ Sent(s, q) \in Int /\ Released(s, q) \in Int /\ Len(s.egress[q]) \in Int
            /\ s.back[q] \in Int
        BY Numbers
      <4>2. AddedTo(s.port[q].claimed, Held(s, q), Released(s, q), n, 0,
                    t.port[q].claimed, Held(t, q), Released(t, q))
        BY <3>1, <3>3, <3>4, <4>1, Zeros DEF AddedTo
      <4>3. /\ Len(t.egress[q]) = Len(s.egress[q]) + 0 /\ t.back[q] = s.back[q] + 0
            /\ Sent(t, q) = Sent(s, q) + 0 /\ Released(t, q) = Released(s, q) + 0
        BY <2>1, <3>4, <4>1, Zeros, ZenonT(30)
      <4> QED BY <3>1, <3>2, <4>2, <4>3 DEF Shift, Added
    <3>6. Sum(0, m, n, 0, 0, 0) = 0
      BY <3>0 DEF Sum
    <3> QED BY <3>0, <3>5, <3>6, ShiftBalances
  <2>9. \A q \in Ports : s.hold[q] # None => t.hold[q] = s.hold[q]
    BY <1>a, <2>1, <2>2
  <2> QED BY <2>6, <2>7, <2>8, <2>9 DEF Moves, Conserves
<1> QED BY <1>0, <1>a

-----------------------------------------------------------------------------
(* The decoder                                                             *)

\* What the decoder does with a pair of headers.
LEMMA TransformMoves ==
    ASSUME NEW s, IsComp(s), s.cur # "Pause", NEW t, t = Transform(s)
    PROVE  Moves(t, s)
<1> PICK u : u = Claim(s, In)
  OBVIOUS
<1> PICK v : v = Claim(u, Out)
  OBVIOUS
<1>0. In \in Ports /\ Out \in Ports /\ In # Out
  BY TwoPorts
<1>1. Moves(u, s) /\ IsComp(u) /\ u.cur # "Pause"
  BY <1>0, ClaimMoves DEF Moves, Conserves, SameControl, SameRest
<1>2. Moves(v, u) /\ IsComp(v)
  BY <1>0, <1>1, ClaimMoves DEF Moves, Conserves
<1>3. Moves(v, s)
  BY <1>1, <1>2, MovesTwice
<1>4. CASE None \in {v.hold[In], v.hold[Out]}
  <2>1. ASSUME NEW w, w = Claim(Claim(s, In), Out), None \in {w.hold[In], w.hold[Out]}
        PROVE  Transform(s) = w
    <3>1. Transform(s) =
            CASE None \in {w.hold[In], w.hold[Out]} -> w
              [] w.hold[In] = "last" /\ w.hold[Out] # None ->
                    Release(Release(w, Out, "last"), In, "empty")
              [] OTHER -> Release(Release(w, In, "empty"), Out, "data")
      BY <2>1, Zenon DEF Transform
    <3>2. None \in {w.hold[In], w.hold[Out]} /\ ~(w.hold[In] = "last" /\ w.hold[Out] # None)
      BY <2>1, Zenon DEF None
    <3> QED BY <3>1, <3>2
  <2>2. v = Claim(Claim(s, In), Out)
    OBVIOUS
  <2>3. t = v
    BY <1>4, <2>1, <2>2
  <2> QED BY <2>3, <1>3
<1>5. CASE v.hold[In] # None /\ v.hold[Out] # None
  <2>1. "last" \in Contents /\ "empty" \in Contents /\ "data" \in Contents
    BY DEF Contents
  <2>2. ASSUME NEW p \in Ports, NEW q \in Ports, p # q, v.hold[p] # None, v.hold[q] # None,
               NEW what \in Contents, NEW other \in Contents
        PROVE  Moves(Release(Release(v, p, what), q, other), s)
    <3> PICK w : w = Release(v, p, what)
      OBVIOUS
    <3>1. Moves(w, v) /\ IsComp(w) /\ w.hold = [v.hold EXCEPT ![p] = None]
      BY <1>2, <2>2, ReleaseMoves DEF Moves, Conserves
    <3>2. w.hold[q] # None
      BY <1>2, <2>2, <3>1 DEF IsComp
    <3>3. Moves(Release(w, q, other), w)
      BY <3>1, <3>2, ReleaseMoves
    <3> QED BY <1>3, <3>1, <3>3, MovesTwice
  <2>3. t = Release(Release(v, Out, "last"), In, "empty") \/ t = Release(Release(v, In, "empty"), Out, "data")
    BY <1>5 DEF Transform
  <2> QED BY <1>0, <1>5, <2>1, <2>2, <2>3
<1> QED BY <1>4, <1>5

StopTurn(s, p) ==
    FlushEgress(MoveToEgress(ToProcessor(Drain(s, ALL), PortCommand("Flush", p)), p), p)

FlushTurn(s, p) == FlushHeaders(s, p, p)

PropagateTurn(s, p) == [s EXCEPT !.ready = @ + Len(s.ingress[p])]

\* One turn of a loop; the decoder's is not over the ports.
Turn(kind, s, p) ==
    CASE kind = "egress" -> FlushEgress(s, p)
      [] kind = "stop" -> StopTurn(s, p)
      [] kind = "propagate" -> PropagateTurn(s, p)
      [] kind = "release" -> ReleaseHeld(s, p)
      [] kind = "flush" -> FlushTurn(s, p)
      [] kind = "decode" -> Transform(s)

\* The turn of each kind of loop.
LEMMA TurnIs ==
    ASSUME NEW s, NEW p
    PROVE  /\ Turn("egress", s, p) = FlushEgress(s, p)
           /\ Turn("stop", s, p) = StopTurn(s, p)
           /\ Turn("propagate", s, p) = PropagateTurn(s, p)
           /\ Turn("release", s, p) = ReleaseHeld(s, p)
           /\ Turn("flush", s, p) = FlushTurn(s, p)
           /\ Turn("decode", s, p) = Transform(s)
BY DEF Turn

\* f is the function of a loop, up to n.
IsLoop(f, kind, s, n) ==
    f = [k \in 0 .. n |-> IF k = 0 THEN s ELSE Turn(kind, f[k - 1], PortList[k])]

\* There is such a function, by induction on n.
LEMMA LoopExists ==
    ASSUME NEW kind, NEW s, NEW n \in Nat
    PROVE  \E f : IsLoop(f, kind, s, n)
<1> DEFINE G == {k \in Nat : \E f : IsLoop(f, kind, s, k)}
<1>1. 0 \in G
  <2>1. IsLoop([k \in 0 .. 0 |-> s], kind, s, 0)
    BY DEF IsLoop
  <2> QED BY <2>1
<1>2. ASSUME NEW k \in Nat, k \in G PROVE k + 1 \in G
  <2>1. PICK f : IsLoop(f, kind, s, k)
    BY <1>2
  <2> DEFINE next == Turn(kind, f[k], PortList[k + 1])
             g == [i \in 0 .. k + 1 |-> IF i = k + 1 THEN next ELSE f[i]]
  <2>2. ASSUME NEW i \in 0 .. k + 1
        PROVE  g[i] = IF i = 0 THEN s ELSE Turn(kind, g[i - 1], PortList[i])
    <3>1. CASE i = k + 1
      <4>1. g[i] = next /\ i # 0 /\ i - 1 = k /\ g[k] = f[k]
        BY <3>1
      <4> QED BY <4>1, <3>1
    <3>2. CASE i # k + 1
      <4>1. i \in 0 .. k /\ g[i] = f[i] /\ (i # 0 => i - 1 \in 0 .. k /\ g[i - 1] = f[i - 1])
        BY <3>2
      <4>2. f[i] = IF i = 0 THEN s ELSE Turn(kind, f[i - 1], PortList[i])
        BY <2>1, <4>1 DEF IsLoop
      <4> QED BY <4>1, <4>2
    <3> QED BY <3>1, <3>2
  <2> HIDE DEF next
  <2>3. IsLoop(g, kind, s, k + 1)
    BY <2>2 DEF IsLoop
  <2> QED BY <2>3
<1> HIDE DEF G
<1>3. n \in G
  BY <1>1, <1>2, NatSets
<1> QED BY <1>3 DEF G

\* A loop over the ports has two turns.
LEMMA TwoTurns ==
    ASSUME NEW kind, NEW s, NEW f, IsLoop(f, kind, s, Len(PortList))
    PROVE  f[Len(PortList)] = Turn(kind, Turn(kind, s, In), Out)
<1>1. Len(PortList) = 2 /\ PortList[1] = In /\ PortList[2] = Out
  BY TwoPorts
<1>2. \A k \in 0 .. 2 : f[k] = IF k = 0 THEN s ELSE Turn(kind, f[k - 1], PortList[k])
  BY <1>1 DEF IsLoop
<1>3. f[0] = s
  BY <1>2
<1>4. f[1] = Turn(kind, f[0], PortList[1])
  BY <1>2
<1>5. f[2] = Turn(kind, f[1], PortList[2])
  BY <1>2
<1> QED BY <1>1, <1>3, <1>4, <1>5

\* flush_egress of all ports.
LEMMA FlushAllEgressMoves ==
    ASSUME NEW s, IsComp(s), NEW t, t = FlushAllEgress(s)
    PROVE  /\ Moves(t, s)
           /\ \A p \in Ports : t.egress[p] = <<>>
           /\ t.ingress = s.ingress /\ t.efb = s.efb /\ t.callbacks = s.callbacks
           /\ t.hold = s.hold /\ t.port = s.port
<1> DEFINE n == Len(PortList)
           after == CHOOSE g : g = [k \in 0 .. n |->
                        IF k = 0 THEN s ELSE FlushEgress(g[k - 1], PortList[k])]
<1>0. n \in Nat
  BY PortAssumption
<1>1. PICK f : IsLoop(f, "egress", s, n)
  BY <1>0, LoopExists
<1>2. f = [k \in 0 .. n |-> IF k = 0 THEN s ELSE FlushEgress(f[k - 1], PortList[k])]
  BY <1>1, TurnIs DEF IsLoop
<1>3. after = [k \in 0 .. n |-> IF k = 0 THEN s ELSE FlushEgress(after[k - 1], PortList[k])]
  BY <1>2
<1>4. t = after[n]
  BY DEF FlushAllEgress, ForEachPort
<1> HIDE DEF after
<1>5. IsLoop(after, "egress", s, n)
  BY <1>3, TurnIs DEF IsLoop
<1> PICK u : u = FlushEgress(s, In)
  OBVIOUS
<1>6. t = FlushEgress(u, Out)
  BY <1>4, <1>5, TwoTurns, TurnIs
<1>7. In \in Ports /\ Out \in Ports /\ In # Out /\ \A p \in Ports : p = In \/ p = Out
  BY TwoPorts
<1>8. /\ Moves(u, s) /\ u.egress = [s.egress EXCEPT ![In] = <<>>] /\ IsComp(u)
      /\ u.ingress = s.ingress /\ u.efb = s.efb /\ u.callbacks = s.callbacks
      /\ u.hold = s.hold /\ u.port = s.port
  BY <1>7, FlushEgressMoves DEF Moves, Conserves
<1>9. /\ Moves(t, u) /\ t.egress = [u.egress EXCEPT ![Out] = <<>>]
      /\ t.ingress = u.ingress /\ t.efb = u.efb /\ t.callbacks = u.callbacks
      /\ t.hold = u.hold /\ t.port = u.port
  <2>1. ASSUME NEW v, IsComp(v), NEW w, w = FlushEgress(v, Out)
        PROVE  /\ Moves(w, v) /\ w.egress = [v.egress EXCEPT ![Out] = <<>>]
               /\ w.ingress = v.ingress /\ w.efb = v.efb /\ w.callbacks = v.callbacks
               /\ w.hold = v.hold /\ w.port = v.port
    BY <1>7, <2>1, FlushEgressMoves
  <2> QED BY <1>6, <1>8, <2>1
<1>10. \A p \in Ports : t.egress[p] = <<>>
  <2>1. s.egress \in [Ports -> Seq(Contents)]
    BY DEF IsComp
  <2> QED BY <1>7, <1>8, <1>9, <2>1
<1> QED BY <1>8, <1>9, <1>10, MovesTwice

\* propagate_ingress.
LEMMA PropagateMoves ==
    ASSUME NEW s, IsComp(s), NEW t, t = Propagate(s)
    PROVE  Moves(t, s)
<1> DEFINE n == Len(PortList)
           after == CHOOSE g : g = [k \in 0 .. n |->
                        IF k = 0 THEN s ELSE PropagateTurn(g[k - 1], PortList[k])]
<1>0. n \in Nat
  BY PortAssumption
<1>1. PICK f : IsLoop(f, "propagate", s, n)
  BY <1>0, LoopExists
<1>2. f = [k \in 0 .. n |-> IF k = 0 THEN s ELSE PropagateTurn(f[k - 1], PortList[k])]
  BY <1>1, TurnIs DEF IsLoop
<1>3. after = [k \in 0 .. n |-> IF k = 0 THEN s ELSE PropagateTurn(after[k - 1], PortList[k])]
  BY <1>2
<1>4. t = after[n]
  BY DEF Propagate, PropagateTurn, ForEachPort
<1> HIDE DEF after
<1>5. IsLoop(after, "propagate", s, n)
  BY <1>3, TurnIs DEF IsLoop
<1>6. t = PropagateTurn(PropagateTurn(s, In), Out)
  BY <1>4, <1>5, TwoTurns, TurnIs
<1>7. ASSUME NEW u, IsComp(u), NEW p \in Ports PROVE Moves(PropagateTurn(u, p), u)
  <2>1. u.ready + Len(u.ingress[p]) \in Int
    BY <1>7 DEF IsComp
  <2>2. PropagateTurn(u, p) = [u EXCEPT !.ready = u.ready + Len(u.ingress[p])]
    BY DEF PropagateTurn
  <2> QED BY <1>7, <2>1, <2>2, ReadyMoves
<1> PICK u : u = PropagateTurn(s, In)
  OBVIOUS
<1>8. Moves(u, s) /\ IsComp(u)
  BY <1>7, TwoPorts DEF Moves, Conserves
<1>9. Moves(t, u)
  BY <1>6, <1>7, <1>8, TwoPorts
<1> QED BY <1>8, <1>9, MovesTwice

\* release_headers of both ports.
LEMMA ReleaseBothMoves ==
    ASSUME NEW s, IsComp(s), NEW t, t = ForEachPort(ReleaseHeld, s)
    PROVE  /\ Moves(t, s)
           /\ t.ingress = s.ingress /\ t.egress = s.egress /\ t.efb = s.efb /\ t.port = s.port
<1> DEFINE n == Len(PortList)
           after == CHOOSE g : g = [k \in 0 .. n |->
                        IF k = 0 THEN s ELSE ReleaseHeld(g[k - 1], PortList[k])]
<1>0. n \in Nat
  BY PortAssumption
<1>1. PICK f : IsLoop(f, "release", s, n)
  BY <1>0, LoopExists
<1>2. f = [k \in 0 .. n |-> IF k = 0 THEN s ELSE ReleaseHeld(f[k - 1], PortList[k])]
  BY <1>1, TurnIs DEF IsLoop
<1>3. after = [k \in 0 .. n |-> IF k = 0 THEN s ELSE ReleaseHeld(after[k - 1], PortList[k])]
  BY <1>2
<1>4. t = after[n]
  BY DEF ForEachPort
<1> HIDE DEF after
<1>5. IsLoop(after, "release", s, n)
  BY <1>3, TurnIs DEF IsLoop
<1> PICK u : u = ReleaseHeld(s, In)
  OBVIOUS
<1>6. t = ReleaseHeld(u, Out)
  BY <1>4, <1>5, TwoTurns, TurnIs
<1>7. In \in Ports /\ Out \in Ports
  BY TwoPorts
<1>8. /\ Moves(u, s) /\ IsComp(u)
      /\ u.ingress = s.ingress /\ u.egress = s.egress /\ u.efb = s.efb /\ u.port = s.port
  BY <1>7, ReleaseHeldMoves DEF Moves, Conserves
<1>9. /\ Moves(t, u)
      /\ t.ingress = u.ingress /\ t.egress = u.egress /\ t.efb = u.efb /\ t.port = u.port
  BY <1>6, <1>7, <1>8, ReleaseHeldMoves
<1> QED BY <1>8, <1>9, MovesTwice

\* The decoder's loop, by induction on its turns.
LEMMA DecodeMoves ==
    ASSUME NEW s, IsComp(s), s.cur # "Pause", NEW t, t = Decode(s)
    PROVE  Moves(t, s)
<1> DEFINE n == NBufs + 1
           after == CHOOSE g : g = [k \in 0 .. n |-> IF k = 0 THEN s ELSE Transform(g[k - 1])]
<1>0. n \in Nat
  BY PortAssumption
<1>1. PICK f : IsLoop(f, "decode", s, n)
  BY <1>0, LoopExists
<1>2. f = [k \in 0 .. n |-> IF k = 0 THEN s ELSE Transform(f[k - 1])]
  BY <1>1, TurnIs, ZenonT(30) DEF IsLoop
<1>3. after = [k \in 0 .. n |-> IF k = 0 THEN s ELSE Transform(after[k - 1])]
  BY <1>2
<1>4. t = after[n]
  BY DEF Decode
<1> HIDE DEF after, n
<1>5. \A k \in 0 .. n : after[k] = IF k = 0 THEN s ELSE Transform(after[k - 1])
  BY <1>3
<1> DEFINE G == {k \in Nat : k <= n => Moves(after[k], s)}
<1>6. 0 \in G
  BY <1>0, <1>5, MovesSelf
<1>7. ASSUME NEW k \in Nat, k \in G PROVE k + 1 \in G
  <2> SUFFICES ASSUME k + 1 <= n PROVE Moves(after[k + 1], s)
    OBVIOUS
  <2>1. Moves(after[k], s)
    BY <1>0, <1>7
  <2>2. after[k + 1] = Transform(after[k])
    BY <1>0, <1>5
  <2>3. IsComp(after[k]) /\ after[k].cur # "Pause"
    BY <2>1 DEF Moves, Conserves, SameControl, SameRest
  <2>4. Moves(after[k + 1], after[k])
    BY <2>2, <2>3, TransformMoves
  <2> QED BY <2>1, <2>4, MovesTwice
<1> HIDE DEF G
<1>8. n \in G
  BY <1>0, <1>6, <1>7, NatSets
<1> QED BY <1>0, <1>4, <1>8 DEF G

\* What the processor does when it is told that a header came in.
LEMMA BuffersReadyMoves ==
    ASSUME NEW s, IsComp(s), NEW t, t = BuffersReady(s)
    PROVE  Moves(t, s)
<1>1. CASE s.cur \in {"Pause", "ExecutingToIdle", "PauseToIdle"}
  BY <1>1, MovesSelf DEF BuffersReady
<1>2. CASE s.cur \notin {"Pause", "ExecutingToIdle", "PauseToIdle"} /\ s.packets < 2
  <2> PICK u : u = Claim(s, In)
    OBVIOUS
  <2>1. Moves(u, s) /\ IsComp(u)
    BY <1>2, ClaimMoves, TwoPorts DEF Moves, Conserves
  <2>2. t = ReadHeaders(s)
    BY <1>2 DEF BuffersReady
  <2>3. CASE u.hold[In] = None
    <3>1. t = u
      BY <2>2, <2>3 DEF ReadHeaders
    <3> QED BY <2>1, <3>1
  <2>4. CASE u.hold[In] # None
    <3> PICK v : v = Release(u, In, "empty")
      OBVIOUS
    <3>1. Moves(v, u) /\ IsComp(v)
      BY <2>1, <2>4, ReleaseMoves, TwoPorts DEF Moves, Conserves, Contents
    <3>a. v.packets + 1 \in Nat
      <4>1. ASSUME NEW n \in Nat PROVE n + 1 \in Nat
        OBVIOUS
      <4>2. ASSUME NEW w, IsComp(w) PROVE w.packets \in Nat
        BY <4>2 DEF IsComp
      <4>3. v.packets \in Nat
        BY <3>1, <4>2
      <4> QED BY <4>1, <4>3
    <3>b. t = [v EXCEPT !.packets = v.packets + 1]
      BY <2>2, <2>4, Zenon DEF ReadHeaders
    <3>2. t = [v EXCEPT !.packets = v.packets + 1] /\ v.packets + 1 \in Nat
      BY <3>a, <3>b
    <3>3. Moves(t, v)
      BY <3>1, <3>2, PacketsMove
    <3> QED BY <2>1, <3>1, <3>3, MovesTwice
  <2> QED BY <2>3, <2>4
<1>3. CASE s.cur \notin {"Pause", "ExecutingToIdle", "PauseToIdle"} /\ ~(s.packets < 2)
  <2>1. t = Decode(s) /\ s.cur # "Pause"
    BY <1>3 DEF BuffersReady
  <2> QED BY <2>1, DecodeMoves
<1> QED BY <1>1, <1>2, <1>3

-----------------------------------------------------------------------------
(* The kernel's handlers, as far as headers go                             *)

\* One turn of krn_stop_and_return.
LEMMA StopTurnMoves ==
    ASSUME NEW s, IsComp(s), ~HasDummy(s), NEW p \in Ports, NEW t, t = StopTurn(s, p)
    PROVE  /\ Conserves(t, s) /\ SameRest(t, s)
           /\ t.prc = Append(s.prc, PortCommand("Flush", p))
           /\ t.efb = <<>> /\ t.callbacks = <<>> /\ t.hold = s.hold
           /\ t.ingress[p] = <<>> /\ t.egress[p] = <<>>
           /\ \A q \in Ports : q # p /\ s.efb = <<>> /\ s.callbacks = <<>> =>
                t.ingress[q] = s.ingress[q] /\ t.egress[q] = s.egress[q]
<1>1. PortCommand("Flush", p) \in Messages /\ ALL \in Ports \cup {ALL}
  BY DEF Messages
<1>2. ASSUME NEW a, a = Drain(s, ALL),
             NEW b, b = ToProcessor(a, PortCommand("Flush", p)),
             NEW c, c = MoveToEgress(b, p),
             NEW d, d = FlushEgress(c, p)
      PROVE  /\ Conserves(d, s) /\ SameRest(d, s)
             /\ d.prc = Append(s.prc, PortCommand("Flush", p))
             /\ d.efb = <<>> /\ d.callbacks = <<>> /\ d.hold = s.hold
             /\ d.ingress[p] = <<>> /\ d.egress[p] = <<>>
             /\ \A q \in Ports : q # p /\ s.efb = <<>> /\ s.callbacks = <<>> =>
                  d.ingress[q] = s.ingress[q] /\ d.egress[q] = s.egress[q]
  <2>1. /\ Moves(a, s) /\ a.efb = <<>> /\ a.callbacks = <<>> /\ a.hold = s.hold
        /\ \A q \in Ports : s.efb = <<>> /\ s.callbacks = <<>> =>
              a.ingress[q] = s.ingress[q] /\ a.egress[q] = s.egress[q]
    BY <1>1, <1>2, DrainMoves DEF Unaffected
  <2>2. IsComp(a)
    BY <2>1 DEF Moves, Conserves
  <2>3. /\ IsComp(b) /\ SameHeaders(b, a) /\ SameRest(b, a) /\ Conserves(b, a)
        /\ b.prc = Append(a.prc, PortCommand("Flush", p))
    BY <1>1, <1>2, <2>2, ToProcessorMoves
  <2>4. /\ Moves(c, b)
        /\ c.ingress[p] = <<>>
        /\ \A q \in Ports : q # p => c.ingress[q] = b.ingress[q] /\ c.egress[q] = b.egress[q]
        /\ c.efb = b.efb /\ c.callbacks = b.callbacks /\ c.hold = b.hold
    BY <1>2, <2>3, MoveToEgressMoves
  <2>5. IsComp(c)
    BY <2>4 DEF Moves, Conserves
  <2>6. /\ Moves(d, c) /\ d.egress = [c.egress EXCEPT ![p] = <<>>]
        /\ d.ingress = c.ingress /\ d.efb = c.efb /\ d.callbacks = c.callbacks /\ d.hold = c.hold
    BY <1>2, <2>5, FlushEgressMoves
  <2>7. Conserves(d, s)
    <3>1. Conserves(b, s)
      BY <2>1, <2>3, ConservesTwice DEF Moves
    <3>2. Conserves(c, s)
      BY <2>4, <3>1, ConservesTwice DEF Moves
    <3> QED BY <2>6, <3>2, ConservesTwice DEF Moves
  <2>8. SameRest(d, s) /\ d.prc = Append(s.prc, PortCommand("Flush", p))
    BY <2>1, <2>3, <2>4, <2>6 DEF Moves, SameControl, SameRest
  <2>9. /\ b.ingress \in [Ports -> Seq(Contents)] /\ b.egress \in [Ports -> Seq(Contents)]
        /\ c.egress \in [Ports -> Seq(Contents)]
    BY <2>3, <2>5 DEF IsComp
  <2>10. /\ b.efb = a.efb /\ b.ingress = a.ingress /\ b.egress = a.egress
         /\ b.callbacks = a.callbacks /\ b.hold = a.hold
    BY <2>3 DEF SameHeaders
  <2>11. d.ingress[p] = <<>> /\ d.egress[p] = <<>>
    BY <2>4, <2>6, <2>9
  <2>12. \A q \in Ports : q # p /\ s.efb = <<>> /\ s.callbacks = <<>> =>
              d.ingress[q] = s.ingress[q] /\ d.egress[q] = s.egress[q]
    BY <2>1, <2>4, <2>6, <2>9, <2>10
  <2> QED BY <2>1, <2>4, <2>6, <2>7, <2>8, <2>10, <2>11, <2>12
<1> QED BY <1>2 DEF StopTurn

\* krn_stop_and_return.
LEMMA StopHeadersMoves ==
    ASSUME NEW s, IsComp(s), ~HasDummy(s), NEW t, t = StopHeaders(s)
    PROVE  /\ Conserves(t, s) /\ SameRest(t, s)
           /\ t.prc = Append(Append(s.prc, PortCommand("Flush", In)), PortCommand("Flush", Out))
           /\ t.efb = <<>> /\ t.callbacks = <<>> /\ t.hold = s.hold
           /\ \A p \in Ports : t.ingress[p] = <<>> /\ t.egress[p] = <<>>
<1> DEFINE n == Len(PortList)
           after == CHOOSE g : g = [k \in 0 .. n |->
                        IF k = 0 THEN s ELSE StopTurn(g[k - 1], PortList[k])]
<1>0. n \in Nat
  BY PortAssumption
<1>1. PICK f : IsLoop(f, "stop", s, n)
  BY <1>0, LoopExists
<1>2. f = [k \in 0 .. n |-> IF k = 0 THEN s ELSE StopTurn(f[k - 1], PortList[k])]
  BY <1>1, TurnIs DEF IsLoop
<1>3. after = [k \in 0 .. n |-> IF k = 0 THEN s ELSE StopTurn(after[k - 1], PortList[k])]
  BY <1>2
<1>4. t = after[n]
  BY DEF StopHeaders, StopTurn, ForEachPort
<1> HIDE DEF after
<1>5. IsLoop(after, "stop", s, n)
  BY <1>3, TurnIs DEF IsLoop
<1>6. t = StopTurn(StopTurn(s, In), Out)
  BY <1>4, <1>5, TwoTurns, TurnIs
<1>7. In \in Ports /\ Out \in Ports /\ In # Out /\ \A p \in Ports : p = In \/ p = Out
  BY TwoPorts
<1>8. ASSUME NEW u, u = StopTurn(s, In), NEW v, v = StopTurn(u, Out)
      PROVE  /\ Conserves(v, s) /\ SameRest(v, s)
             /\ v.prc = Append(Append(s.prc, PortCommand("Flush", In)), PortCommand("Flush", Out))
             /\ v.efb = <<>> /\ v.callbacks = <<>> /\ v.hold = s.hold
             /\ \A p \in Ports : v.ingress[p] = <<>> /\ v.egress[p] = <<>>
  <2>1. /\ Conserves(u, s) /\ SameRest(u, s)
        /\ u.prc = Append(s.prc, PortCommand("Flush", In))
        /\ u.efb = <<>> /\ u.callbacks = <<>> /\ u.hold = s.hold
        /\ u.ingress[In] = <<>> /\ u.egress[In] = <<>>
    BY <1>7, <1>8, StopTurnMoves
  <2>2. IsComp(u) /\ ~HasDummy(u)
    BY <2>1 DEF Conserves, SameRest
  <2>3. /\ Conserves(v, u) /\ SameRest(v, u)
        /\ v.prc = Append(u.prc, PortCommand("Flush", Out))
        /\ v.efb = <<>> /\ v.callbacks = <<>> /\ v.hold = u.hold
        /\ v.ingress[Out] = <<>> /\ v.egress[Out] = <<>>
        /\ v.ingress[In] = u.ingress[In] /\ v.egress[In] = u.egress[In]
    BY <1>7, <1>8, <2>1, <2>2, StopTurnMoves
  <2>4. Conserves(v, s)
    BY <2>1, <2>3, ConservesTwice
  <2>5. SameRest(v, s)
    BY <2>1, <2>3 DEF SameRest
  <2> QED BY <1>7, <2>1, <2>3, <2>4, <2>5
<1> QED BY <1>6, <1>8

\* What the end of a flush of a port changes: the port, the count of ports, and
\* with the last one the command.
Ended(t, s, p) ==
    /\ t.cur = s.cur /\ t.counted = s.counted /\ t.completions = s.completions
    /\ t.commands = s.commands /\ t.krn = s.krn /\ t.prc = s.prc /\ t.failed = s.failed
    /\ HasDummy(t) => HasDummy(s)
    /\ ~t.port[p].flushing
    /\ \A q \in Ports : q # p => t.port[q].flushing = s.port[q].flushing
    /\ t.completion = s.completion - 1
    /\ t.completion = 0 => t.inProgress = None /\ t.param = None
    /\ t.completion # 0 => t.inProgress = s.inProgress /\ t.param = s.param

\* How fsm_complete_command ends a flush.
LEMMA FlushCommandEnds ==
    ASSUME NEW s, DOMAIN s = Fields, s.inProgress = "Flush", s.cancellation = None, NEW p,
           NEW t, t = CompleteCommand(s, "Flush", p)
    PROVE  /\ DOMAIN t = Fields /\ t.port = s.port /\ t.completion = s.completion
           /\ t.efb = s.efb /\ t.ingress = s.ingress /\ t.egress = s.egress
           /\ t.callbacks = s.callbacks /\ t.hold = s.hold /\ t.back = s.back
           /\ t.cur = s.cur /\ t.inProgress = None /\ t.param = None
           /\ t.cancellation = s.cancellation
           /\ t.counted = s.counted /\ t.completions = s.completions
           /\ t.commands = s.commands /\ t.krn = s.krn /\ t.prc = s.prc
           /\ t.failed = s.failed /\ t.ready = s.ready /\ t.packets = s.packets
<1>1. Expect(s, "Flush" \in {s.inProgress, s.cancellation}, "in_progress_cmd_ or cancellation_cmd_") = s
  BY DEF Expect
<1>2. t = CommandDone(Event(s, "Flush", p, None))
  BY <1>1 DEF CompleteCommand, None
<1> QED BY <1>2, ZenonT(30) DEF CommandDone, Event, Fields

\* What complete_port_flush does but for that.
PortFlushed(s, p) ==
    [s EXCEPT !.port = [s.port EXCEPT ![p] = [s.port[p] EXCEPT !.flushing = FALSE]],
              !.events = Append(s.events, [cmd |-> "Flush", param |-> p, error |-> None]),
              !.completion = s.completion - 1]

\* It ends the command with the last port.
LEMMA CompletePortFlushIs ==
    ASSUME NEW s, IsComp(s), NEW p \in Ports, s.completion > 0
    PROVE  CompletePortFlush(s, p) =
                IF PortFlushed(s, p).completion = 0
                THEN CompleteCommand(PortFlushed(s, p), "Flush", p) ELSE PortFlushed(s, p)
<1> DEFINE r == [s.port[p] EXCEPT !.flushing = FALSE]
           e == [cmd |-> "Flush", param |-> p, error |-> None]
           a == [s EXCEPT !.port = [s.port EXCEPT ![p] = r]]
           b == [s EXCEPT !.port = [s.port EXCEPT ![p] = r], !.events = Append(s.events, e)]
<1>1. DOMAIN s = Fields
  BY DEF IsComp
<1>2. [s EXCEPT !.port[p].flushing = FALSE] = a
  OBVIOUS
<1> HIDE DEF r
<1>3. Event(a, "Flush", p, None) = b
  BY <1>1 DEF Event, Fields
<1> HIDE DEF e
<1>4. CompletionCountPositive(b) = b
  BY <1>1 DEF CompletionCountPositive, Expect, Fields
<1>5. ASSUME NEW c, c = b PROVE [c EXCEPT !.completion = c.completion - 1] = PortFlushed(s, p)
  BY <1>1, <1>5 DEF PortFlushed, r, e, Fields
<1>6. CompletionCountPositive(Event([s EXCEPT !.port[p].flushing = FALSE], "Flush", p, None)) = b
  BY <1>2, <1>3, <1>4
<1> HIDE DEF a, b
<1> QED BY <1>5, <1>6 DEF CompletePortFlush

\* What complete_port_flush does.
LEMMA CompletePortFlushMoves ==
    ASSUME NEW s, IsComp(s), NEW p \in Ports, s.inProgress = "Flush", s.completion > 0,
           NEW t, t = CompletePortFlush(s, p)
    PROVE  /\ Conserves(t, s) /\ SameHeaders(t, s) /\ Ended(t, s, p)
<1> DEFINE r == [s.port[p] EXCEPT !.flushing = FALSE]
           v == PortFlushed(s, p)
<1>1. s.port \in [Ports -> PortRecord] /\ s.completion \in Int /\ DOMAIN s = Fields
      /\ s.cancellation = None
  BY DEF IsComp
<1>2. r \in PortRecord /\ r.flushing = FALSE /\ r.claimed = s.port[p].claimed
  <2>1. s.port[p] \in PortRecord
    BY <1>1
  <2> QED BY <2>1 DEF PortRecord
<1>4. t = IF v.completion = 0 THEN CompleteCommand(v, "Flush", p) ELSE v
  BY CompletePortFlushIs
<1>5. /\ DOMAIN v = Fields /\ v.port = [s.port EXCEPT ![p] = r] /\ v.completion = s.completion - 1
      /\ v.efb = s.efb /\ v.ingress = s.ingress /\ v.egress = s.egress
      /\ v.callbacks = s.callbacks /\ v.hold = s.hold /\ v.back = s.back
      /\ v.cur = s.cur /\ v.inProgress = s.inProgress /\ v.param = s.param
      /\ v.cancellation = s.cancellation
      /\ v.counted = s.counted /\ v.completions = s.completions
      /\ v.commands = s.commands /\ v.krn = s.krn /\ v.prc = s.prc
      /\ v.failed = s.failed /\ v.ready = s.ready /\ v.packets = s.packets
  BY <1>1 DEF Fields, PortFlushed
<1> HIDE DEF r, v
<1>7. /\ DOMAIN t = Fields /\ t.port = [s.port EXCEPT ![p] = r] /\ t.completion = s.completion - 1
      /\ t.efb = s.efb /\ t.ingress = s.ingress /\ t.egress = s.egress
      /\ t.callbacks = s.callbacks /\ t.hold = s.hold /\ t.back = s.back
      /\ t.cur = s.cur
      /\ t.cancellation = s.cancellation
      /\ t.counted = s.counted /\ t.completions = s.completions
      /\ t.commands = s.commands /\ t.krn = s.krn /\ t.prc = s.prc
      /\ t.failed = s.failed /\ t.ready = s.ready /\ t.packets = s.packets
      /\ t.completion = 0 => t.inProgress = None /\ t.param = None
      /\ t.completion # 0 => t.inProgress = s.inProgress /\ t.param = s.param
  <2>1. CASE v.completion = 0
    <3>1. t = CompleteCommand(v, "Flush", p)
      BY <1>4, <2>1
    <3> QED BY <1>1, <1>5, <2>1, <3>1, FlushCommandEnds
  <2>2. CASE v.completion # 0
    <3>1. t = v
      BY <1>4, <2>2
    <3> QED BY <1>5, <2>2, <3>1
  <2> QED BY <2>1, <2>2
<1>8. t.port \in [Ports -> PortRecord] /\ t.port[p] = r /\ \A q \in Ports : q # p => t.port[q] = s.port[q]
  BY <1>1, <1>2, <1>7
<1>9. s.completion - 1 \in Int /\ t.inProgress \in {None, "StateSet", "Flush"}
  <2>1. s.inProgress \in {None, "StateSet", "Flush"}
    BY DEF IsComp
  <2> QED BY <1>1, <1>7, <2>1
<1>10. IsComp(t)
  BY <1>1, <1>7, <1>8, <1>9 DEF IsComp
<1>11. SameHeaders(t, s)
  BY <1>2, <1>7, <1>8 DEF SameHeaders
<1>12. Ended(t, s, p)
  BY <1>2, <1>7, <1>8 DEF Ended, HasDummy
<1> QED BY <1>10, <1>11, <1>12, SameHeadersConserve

\* What the beginning of a flush of a port changes: the processor is told.
Begun(t, s, p) ==
    /\ t.cur = s.cur /\ t.counted = s.counted /\ t.completions = s.completions
    /\ t.commands = s.commands /\ t.krn = s.krn /\ t.failed = s.failed
    /\ t.completion = s.completion /\ t.inProgress = s.inProgress /\ t.param = s.param
    /\ HasDummy(t) => HasDummy(s)
    /\ t.prc = Append(s.prc, PortCommand("Flush", p))
    /\ t.port[p].flushing
    /\ \A q \in Ports : q # p => t.port[q].flushing = s.port[q].flushing

\* What the kernel does when a flush has to wait for the processor.
LEMMA BeginFlushMoves ==
    ASSUME NEW s, IsComp(s), NEW p \in Ports,
           NEW t, t = ToProcessor([s EXCEPT !.port[p].flushing = TRUE], PortCommand("Flush", p))
    PROVE  Conserves(t, s) /\ SameHeaders(t, s) /\ Begun(t, s, p)
<1> DEFINE r == [s.port[p] EXCEPT !.flushing = TRUE]
           port == [s.port EXCEPT ![p] = r]
           a == [s EXCEPT !.port = port]
           c == PortCommand("Flush", p)
<1>1. s.port \in [Ports -> PortRecord] /\ DOMAIN s = Fields /\ s.prc \in Seq(Messages)
  BY DEF IsComp
<1>2. r \in PortRecord /\ r.flushing = TRUE /\ r.claimed = s.port[p].claimed
  <2>1. s.port[p] \in PortRecord
    BY <1>1
  <2> QED BY <2>1 DEF PortRecord
<1>3. [s EXCEPT !.port[p].flushing = TRUE] = a
  OBVIOUS
<1>4. c \in Messages
  BY DEF Messages
<1> HIDE DEF r, c
<1>5. port \in [Ports -> PortRecord] /\ port[p] = r /\ \A q \in Ports : q # p => port[q] = s.port[q]
  BY <1>1, <1>2
<1> HIDE DEF port
<1>6. t = ToProcessor(a, c)
  BY <1>3 DEF c
<1>7. /\ DOMAIN t = Fields /\ t.port = port /\ t.completion = s.completion
      /\ t.efb = s.efb /\ t.ingress = s.ingress /\ t.egress = s.egress
      /\ t.callbacks = s.callbacks /\ t.hold = s.hold /\ t.back = s.back
      /\ t.cur = s.cur /\ t.inProgress = s.inProgress /\ t.param = s.param
      /\ t.cancellation = s.cancellation
      /\ t.counted = s.counted /\ t.completions = s.completions
      /\ t.commands = s.commands /\ t.krn = s.krn /\ t.prc = Append(s.prc, c)
      /\ t.failed = s.failed /\ t.ready = s.ready /\ t.packets = s.packets
  BY <1>1, <1>6 DEF ToProcessor, Fields
<1>8. t.prc \in Seq(Messages)
  <2>1. ASSUME NEW q \in Seq(Messages), NEW d \in Messages PROVE Append(q, d) \in Seq(Messages)
    OBVIOUS
  <2> QED BY <1>1, <1>4, <1>7, <2>1
<1>9. IsComp(t)
  BY <1>5, <1>7, <1>8 DEF IsComp
<1>10. SameHeaders(t, s)
  BY <1>2, <1>5, <1>7 DEF SameHeaders
<1>11. Begun(t, s, p)
  BY <1>2, <1>5, <1>7 DEF Begun, HasDummy, c
<1> QED BY <1>9, <1>10, <1>11, SameHeadersConserve

\* What dispatch_port_flush does for one port.
LEMMA FlushHeadersMoves ==
    ASSUME NEW s, IsComp(s), ~HasDummy(s), NEW p \in Ports, NEW i \in Ports,
           s.cur \in {"Executing", "Pause"}, s.inProgress = "Flush", s.completion > 0,
           NEW t, t = FlushHeaders(s, p, i)
    PROVE  Conserves(t, s) /\ (Ended(t, s, p) \/ Begun(t, s, p))
<1>1. ASSUME NEW a, a = Drain(s, i), NEW b, b = MoveToEgress(a, p), NEW r, r = FlushEgress(b, p)
      PROVE  Moves(r, s) /\ IsComp(r)
  <2>1. Moves(a, s) /\ IsComp(a)
    BY <1>1, DrainMoves DEF Moves, Conserves
  <2>2. Moves(b, a) /\ IsComp(b)
    BY <1>1, <2>1, MoveToEgressMoves DEF Moves, Conserves
  <2>3. Moves(r, b) /\ IsComp(r)
    BY <1>1, <2>2, FlushEgressMoves DEF Moves, Conserves
  <2> QED BY <2>1, <2>2, <2>3, MovesTwice
<1> DEFINE r == FlushEgress(MoveToEgress(Drain(s, i), p), p)
<1>2. Moves(r, s) /\ IsComp(r)
  BY <1>1
<1>3. t = IF r.port[p].claimed = 0
          THEN CompletePortFlush(r, p)
          ELSE ToProcessor([r EXCEPT !.port[p].flushing = TRUE], PortCommand("Flush", p))
  BY DEF FlushHeaders
<1> HIDE DEF r
<1>4. r.inProgress = "Flush" /\ r.completion > 0
  BY <1>2 DEF Moves, SameControl, SameRest
<1>5. CASE r.port[p].claimed = 0
  <2>1. Conserves(t, r) /\ Ended(t, r, p)
    BY <1>2, <1>3, <1>4, <1>5, CompletePortFlushMoves
  <2>2. Ended(t, s, p)
    BY <1>2, <2>1 DEF Moves, SameControl, SameRest, Ended
  <2> QED BY <1>2, <2>1, <2>2, ConservesTwice DEF Moves
<1>6. CASE r.port[p].claimed # 0
  <2>1. Conserves(t, r) /\ Begun(t, r, p)
    BY <1>2, <1>3, <1>6, BeginFlushMoves
  <2>2. Begun(t, s, p)
    BY <1>2, <2>1 DEF Moves, SameControl, SameRest, Begun
  <2> QED BY <1>2, <2>1, <2>2, ConservesTwice DEF Moves
<1> QED BY <1>5, <1>6

\* Nothing of p is in the lists and queues, whatever the processor holds.
Gone(s, p) ==
    /\ CarriedBy(s.efb, p) = <<>> /\ CarriedBy(s.callbacks, p) = <<>>
    /\ s.ingress[p] = <<>> /\ s.egress[p] = <<>>

\* A drain of a port empties the queues of it, and fills nothing of another.
LEMMA DrainGathers ==
    ASSUME NEW s, IsComp(s), ~HasDummy(s), NEW p \in Ports, NEW t, t = Drain(s, p)
    PROVE  /\ CarriedBy(t.efb, p) = <<>> /\ CarriedBy(t.callbacks, p) = <<>>
           /\ \A q \in Ports : q # p /\ Gone(s, q) => Gone(t, q)
<1>1. s.efb \in Seq(Callbacks) /\ s.callbacks \in Seq(Callbacks)
  BY SentAreCallbacks DEF IsComp
<1>2. Targets(p) = {p}
  BY TwoPorts DEF Targets
<1>3. t.efb = Only(s.efb, Others(p)) /\ t.callbacks = Only(s.callbacks, Others(p))
  <2> DEFINE taken(queue, q) == IF q \in Targets(p) THEN CarriedBy(queue, q) ELSE <<>>
             efb == Only(s.efb, Others(p))
             callbacks == Only(s.callbacks, Others(p))
             ingress == [q \in Ports |-> s.ingress[q] \o taken(s.efb, q)]
             egress == [q \in Ports |-> s.egress[q] \o taken(s.callbacks, q)]
             port == [q \in Ports |->
                        [s.port[q] EXCEPT !.claimed = @ - Len(taken(s.callbacks, q))]]
  <2>1. Expect(s, DummyCallback \notin ToSet(s.callbacks), "NULL != p_hdr") = s
    BY DEF Expect, HasDummy
  <2>2. t = [s EXCEPT !.efb = efb, !.callbacks = callbacks, !.ingress = ingress,
                      !.egress = egress, !.port = port]
    BY <2>1 DEF Drain
  <2> HIDE DEF efb, callbacks, ingress, egress, port
  <2>3. t.efb = efb /\ t.callbacks = callbacks
    BY <2>2 DEF IsComp, Fields
  <2> QED BY <2>3 DEF efb, callbacks
<1>4. ASSUME NEW k \in Seq(Callbacks), NEW left, left = Only(k, Others(p)), NEW q \in Ports
      PROVE  /\ q = p => CarriedBy(left, q) = <<>>
             /\ q # p => CarriedBy(left, q) = CarriedBy(k, q)
  BY <1>2, <1>4, CarriedLeft
<1>5. ASSUME NEW q \in Ports, q # p, Gone(s, q) PROVE Gone(t, q)
  <2>1. Unaffected(s, p, q)
    BY <1>2, <1>5 DEF Unaffected
  <2>2. t.ingress[q] = s.ingress[q] /\ t.egress[q] = s.egress[q]
    BY <2>1, DrainMoves
  <2>3. CarriedBy(t.efb, q) = CarriedBy(s.efb, q) /\ CarriedBy(t.callbacks, q) = CarriedBy(s.callbacks, q)
    BY <1>1, <1>3, <1>4, <1>5
  <2> QED BY <1>5, <2>2, <2>3 DEF Gone
<1> QED BY <1>1, <1>3, <1>4, <1>5

\* The flush of a port that drains its own queue gathers all there is of it.
LEMMA FlushGathers ==
    ASSUME NEW s, IsComp(s), ~HasDummy(s), NEW p \in Ports,
           s.cur \in {"Executing", "Pause"}, s.inProgress = "Flush", s.completion > 0,
           NEW t, t = FlushHeaders(s, p, p)
    PROVE  /\ Gone(t, p) /\ t.hold = s.hold
           /\ \A q \in Ports : q # p /\ Gone(s, q) => Gone(t, q)
<1>1. ASSUME NEW a, a = Drain(s, p), NEW b, b = MoveToEgress(a, p), NEW r, r = FlushEgress(b, p)
      PROVE  /\ Moves(r, s) /\ IsComp(r) /\ Gone(r, p) /\ r.hold = s.hold
             /\ \A q \in Ports : q # p /\ Gone(s, q) => Gone(r, q)
  <2>1. Moves(a, s) /\ IsComp(a) /\ a.hold = s.hold
    BY <1>1, DrainMoves DEF Moves, Conserves
  <2>2. /\ CarriedBy(a.efb, p) = <<>> /\ CarriedBy(a.callbacks, p) = <<>>
        /\ \A q \in Ports : q # p /\ Gone(s, q) => Gone(a, q)
    BY <1>1, DrainGathers
  <2>3. /\ Moves(b, a) /\ IsComp(b) /\ b.hold = a.hold
        /\ b.ingress[p] = <<>> /\ b.efb = a.efb /\ b.callbacks = a.callbacks
        /\ \A q \in Ports : q # p => b.ingress[q] = a.ingress[q] /\ b.egress[q] = a.egress[q]
    BY <1>1, <2>1, MoveToEgressMoves DEF Moves, Conserves
  <2>4. /\ Moves(r, b) /\ IsComp(r) /\ r.hold = b.hold
        /\ r.egress = [b.egress EXCEPT ![p] = <<>>]
        /\ r.ingress = b.ingress /\ r.efb = b.efb /\ r.callbacks = b.callbacks
    BY <1>1, <2>3, FlushEgressMoves DEF Moves, Conserves
  <2>5. r.egress[p] = <<>> /\ \A q \in Ports : q # p => r.egress[q] = b.egress[q]
    BY <2>3, <2>4 DEF IsComp
  <2>6. Gone(r, p)
    BY <2>2, <2>3, <2>4, <2>5 DEF Gone
  <2>7. ASSUME NEW q \in Ports, q # p, Gone(s, q) PROVE Gone(r, q)
    <3>1. Gone(a, q)
      BY <2>2, <2>7
    <3> QED BY <2>3, <2>4, <2>5, <2>7, <3>1 DEF Gone
  <2> QED BY <2>1, <2>3, <2>4, <2>6, <2>7, MovesTwice
<1> DEFINE r == FlushEgress(MoveToEgress(Drain(s, p), p), p)
<1>2. /\ Moves(r, s) /\ IsComp(r) /\ Gone(r, p) /\ r.hold = s.hold
      /\ \A q \in Ports : q # p /\ Gone(s, q) => Gone(r, q)
  BY <1>1
<1>3. t = IF r.port[p].claimed = 0
          THEN CompletePortFlush(r, p)
          ELSE ToProcessor([r EXCEPT !.port[p].flushing = TRUE], PortCommand("Flush", p))
  BY DEF FlushHeaders
<1> HIDE DEF r
<1>4. r.inProgress = "Flush" /\ r.completion > 0
  BY <1>2 DEF Moves, SameControl, SameRest
<1>5. SameHeaders(t, r)
  <2>1. CASE r.port[p].claimed = 0
    BY <1>2, <1>3, <1>4, <2>1, CompletePortFlushMoves
  <2>2. CASE r.port[p].claimed # 0
    BY <1>2, <1>3, <2>2, BeginFlushMoves
  <2> QED BY <2>1, <2>2
<1> QED BY <1>2, <1>5 DEF Gone, SameHeaders

\* From s to t a callback at the head of the queue has left it for its list.
Keeps(t, s, p, what, x) ==
    /\ DOMAIN t = Fields
    /\ t.callbacks = Tail(s.callbacks)
    /\ t.egress = [s.egress EXCEPT ![p] = Append(s.egress[p], what)]
    /\ t.port = [s.port EXCEPT ![p] = x]
    /\ t.ingress = s.ingress /\ t.efb = s.efb /\ t.back = s.back /\ t.hold = s.hold
    /\ t.cur = s.cur /\ t.inProgress = s.inProgress /\ t.param = s.param
    /\ t.cancellation = s.cancellation
    /\ t.counted = s.counted /\ t.completions = s.completions
    /\ t.commands = s.commands /\ t.krn = s.krn /\ t.prc = s.prc
    /\ t.failed = s.failed /\ t.completion = s.completion
    /\ t.ready = s.ready /\ t.packets = s.packets

\* Then its header has only moved.
LEMMA KeepsMoves ==
    ASSUME NEW s, IsComp(s), s.callbacks # <<>>, NEW p \in Ports, NEW what \in Contents,
           Head(s.callbacks).port = p,
           NEW x \in PortRecord, x.claimed = s.port[p].claimed - 1,
           x.flushing = s.port[p].flushing, NEW t, Keeps(t, s, p, what, x)
    PROVE  /\ Moves(t, s)
           /\ s.port[p].claimed = t.port[p].claimed + 1
           /\ \A q \in Ports : q # p => t.port[q] = s.port[q] /\ t.egress[q] = s.egress[q]
           /\ t.ingress = s.ingress /\ t.efb = s.efb
<1>1. /\ DOMAIN s = Fields /\ s.callbacks \in Seq(Callbacks) /\ s.port \in [Ports -> PortRecord]
      /\ s.egress \in [Ports -> Seq(Contents)]
  BY DEF IsComp
<1>2. Tail(s.callbacks) \in Seq(Callbacks)
  BY <1>1
<1>5. /\ t.callbacks = Tail(s.callbacks)
      /\ t.egress = [s.egress EXCEPT ![p] = Append(s.egress[p], what)]
      /\ t.port = [s.port EXCEPT ![p] = x]
      /\ t.ingress = s.ingress /\ t.efb = s.efb /\ t.back = s.back /\ t.hold = s.hold
  BY DEF Keeps
<1>6. t.port[p] = x /\ \A q \in Ports : q # p => t.port[q] = s.port[q] /\ t.egress[q] = s.egress[q]
  BY <1>1, <1>5
<1>7. IsComp(t)
  <2>1. t.port \in [Ports -> PortRecord]
    BY <1>1, <1>5
  <2>2. t.egress \in [Ports -> Seq(Contents)]
    BY <1>1, <1>5
  <2> QED BY <1>2, <1>5, <2>1, <2>2 DEF IsComp, Keeps
<1>8. SameControl(t, s)
  <2>1. HasDummy(t) => HasDummy(s)
    <3>1. ASSUME NEW q \in Seq(Callbacks), q # <<>>, NEW y, y \in ToSet(Tail(q))
          PROVE  y \in ToSet(q)
      <4>1. PICK j \in 1 .. Len(Tail(q)) : y = Tail(q)[j]
        BY <3>1 DEF ToSet
      <4>2. y = q[j + 1] /\ j + 1 \in 1 .. Len(q)
        BY <3>1, <4>1
      <4> QED BY <4>2 DEF ToSet
    <3> QED BY <1>1, <1>5, <3>1 DEF HasDummy
  <2>2. \A q \in Ports : t.port[q].flushing = s.port[q].flushing
    BY <1>6
  <2> QED BY <2>1, <2>2 DEF SameControl, SameRest, Keeps
<1>9. ASSUME NEW q \in Ports PROVE Balanced(t, s, q)
  <2> PICK n : n = IF q = p THEN 1 ELSE 0
    OBVIOUS
  <2>0. n \in Nat /\ n \in Int
    OBVIOUS
  <2>1. Released(s, q) = Released(t, q) + n
    BY <1>1, <1>5, CarriedTail DEF Released
  <2>2. Len(t.egress[q]) = Len(s.egress[q]) + n
    <3>1. s.egress[q] \in Seq(Contents) /\ Len(s.egress[q]) \in Int
      BY <1>1
    <3>2. CASE q = p
      BY <1>1, <1>5, <3>1, <3>2
    <3>3. CASE q # p
      BY <1>6, <3>1, <3>3, Zeros
    <3> QED BY <3>2, <3>3
  <2>3. t.port[q].claimed = s.port[q].claimed - n
    <3>1. s.port[q].claimed \in Int
      BY Numbers
    <3>2. CASE q = p
      BY <1>6, <3>2
    <3>3. CASE q # p
      <4>1. n = 0 /\ t.port[q] = s.port[q]
        BY <1>6, <3>3
      <4> QED BY <3>1, <4>1
    <3> QED BY <3>2, <3>3
  <2>4. Sent(s, q) = Sent(t, q) + 0 /\ Len(t.ingress[q]) = Len(s.ingress[q]) + 0
    <3>1. Sent(t, q) = Sent(s, q) /\ t.ingress[q] = s.ingress[q]
      BY <1>5 DEF Sent
    <3>2. Sent(s, q) \in Int /\ Len(s.ingress[q]) \in Int
      BY Numbers
    <3> QED BY <3>1, <3>2
  <2>5. Held(t, q) = Held(s, q) /\ t.back[q] = s.back[q]
    BY <1>5 DEF Held
  <2>6. TakenOut(t, s, q, 0, n)
    BY <2>1, <2>2, <2>3, <2>4, <2>5 DEF TakenOut
  <2> QED BY <1>7, <2>0, <2>6, TakenOutBalances
<1>10. s.port[p].claimed = t.port[p].claimed + 1
  <2>1. s.port[p].claimed \in Int
    BY Numbers
  <2> QED BY <1>6, <2>1
<1> QED BY <1>5, <1>6, <1>7, <1>8, <1>9, <1>10 DEF Moves, Conserves

\* r with the header of a callback in its list.
Kept(r, m) ==
    [r EXCEPT !.egress[m.port] = Append(@, m.what), !.port[m.port].claimed = @ - 1]

\* s with the header of the callback at the head of the queue in its list.
Listed(s) == Kept([s EXCEPT !.callbacks = Tail(@)], Head(s.callbacks))

\* The callback of a header in Pause.
LEMMA KeptMoves ==
    ASSUME NEW s, IsComp(s), s.callbacks # <<>>, Head(s.callbacks) # DummyCallback
    PROVE  /\ Moves(Listed(s), s) /\ Head(s.callbacks).port \in Ports
           /\ s.port[Head(s.callbacks).port].claimed
                = Listed(s).port[Head(s.callbacks).port].claimed + 1
           /\ \A q \in Ports : q # Head(s.callbacks).port =>
                Listed(s).port[q] = s.port[q] /\ Listed(s).egress[q] = s.egress[q]
           /\ Listed(s).ingress = s.ingress /\ Listed(s).efb = s.efb
<1> DEFINE p == Head(s.callbacks).port
           t == Listed(s)
           x == [s.port[p] EXCEPT !.claimed = @ - 1]
           what == Head(s.callbacks).what
<1>1. DOMAIN s = Fields /\ s.callbacks \in Seq(Callbacks) /\ s.port \in [Ports -> PortRecord]
  BY DEF IsComp
<1>2. Head(s.callbacks) \in Callbacks
  BY <1>1
<1>3. p \in Ports /\ what \in Contents
  BY <1>2, HeaderIs
<1>4. x \in PortRecord /\ x.claimed = s.port[p].claimed - 1 /\ x.flushing = s.port[p].flushing
  <2>1. s.port[p] \in PortRecord /\ s.port[p].claimed \in Int
    BY <1>1, <1>3, Numbers
  <2>2. s.port[p].claimed - 1 \in Int
    BY <2>1
  <2> QED BY <2>1, <2>2, ClaimedChange
<1>5. Keeps(t, s, p, what, x)
  BY <1>1 DEF Keeps, Fields, Listed, Kept
<1> HIDE DEF x, what
<1>6. ASSUME NEW q \in Ports, NEW u, Head(s.callbacks).port = q, Keeps(u, s, q, what, x),
             x.claimed = s.port[q].claimed - 1, x.flushing = s.port[q].flushing
      PROVE  /\ Moves(u, s)
             /\ s.port[q].claimed = u.port[q].claimed + 1
             /\ \A r \in Ports : r # q => u.port[r] = s.port[r] /\ u.egress[r] = s.egress[r]
             /\ u.ingress = s.ingress /\ u.efb = s.efb
  BY <1>3, <1>4, <1>6, KeepsMoves
<1> QED BY <1>3, <1>4, <1>5, <1>6, Zenon

\* The message without a header at the head of the queue, or its end.
LEMMA DummyMoves ==
    ASSUME NEW s, IsComp(s), NEW queue \in Seq(Callbacks),
           \A p \in Ports : Len(CarriedBy(queue, p)) = Released(s, p),
           NEW t, t = [s EXCEPT !.callbacks = queue]
    PROVE  /\ Conserves(t, s)
           /\ t.efb = s.efb /\ t.ingress = s.ingress /\ t.egress = s.egress /\ t.port = s.port
           /\ t.callbacks = queue
           /\ (HasDummy(t) => HasDummy(s)) => Moves(t, s)
<1>1. /\ DOMAIN t = Fields /\ t.callbacks = queue /\ t.port = s.port
      /\ t.egress = s.egress
      /\ t.ingress = s.ingress /\ t.efb = s.efb /\ t.back = s.back /\ t.hold = s.hold
      /\ t.cur = s.cur /\ t.inProgress = s.inProgress /\ t.param = s.param
      /\ t.cancellation = s.cancellation
      /\ t.counted = s.counted /\ t.completions = s.completions
      /\ t.commands = s.commands /\ t.krn = s.krn /\ t.prc = s.prc
      /\ t.failed = s.failed /\ t.completion = s.completion
      /\ t.ready = s.ready /\ t.packets = s.packets
  BY DEF IsComp, Fields
<1>2. IsComp(t)
  BY <1>1 DEF IsComp
<1>3. (HasDummy(t) => HasDummy(s)) => SameControl(t, s)
  BY <1>1 DEF SameControl, SameRest
<1>4. ASSUME NEW p \in Ports PROVE Balanced(t, s, p)
  <2>1. Released(t, p) = Released(s, p)
    BY <1>1 DEF Released
  <2>2. /\ Sent(t, p) = Sent(s, p) /\ Held(t, p) = Held(s, p) /\ t.back[p] = s.back[p]
        /\ t.ingress[p] = s.ingress[p] /\ t.egress[p] = s.egress[p]
        /\ t.port[p].claimed = s.port[p].claimed
    BY <1>1 DEF Sent, Held
  <2> QED BY <2>1, <2>2 DEF Balanced, Total, Debt
<1> QED BY <1>1, <1>2, <1>3, <1>4 DEF Moves, Conserves

\* It counts for no port.
LEMMA DummyCarries ==
    ASSUME NEW s, IsComp(s)
    PROVE  /\ Append(s.callbacks, DummyCallback) \in Seq(Callbacks)
           /\ \A p \in Ports :
                Len(CarriedBy(Append(s.callbacks, DummyCallback), p)) = Released(s, p)
           /\ s.callbacks # <<>> /\ Head(s.callbacks) = DummyCallback =>
                /\ Tail(s.callbacks) \in Seq(Callbacks)
                /\ \A p \in Ports : Len(CarriedBy(Tail(s.callbacks), p)) = Released(s, p)
                /\ HasDummy(s)
<1>1. s.callbacks \in Seq(Callbacks) /\ DummyCallback \in Callbacks
  BY DEF IsComp, Callbacks
<1>2. DummyCallback.port = None /\ None \notin Ports
  BY HeaderIs, TwoPorts
<1>3. ASSUME NEW p \in Ports PROVE DummyCallback.port # p /\ Released(s, p) \in Nat
  BY <1>2, Numbers
<1>4. Append(s.callbacks, DummyCallback) \in Seq(Callbacks)
  BY <1>1
<1>5. ASSUME NEW p \in Ports
      PROVE  Len(CarriedBy(Append(s.callbacks, DummyCallback), p)) = Released(s, p)
  <2>1. Len(CarriedBy(Append(s.callbacks, DummyCallback), p)) = Released(s, p) + 0
    BY <1>1, <1>3, CarriedAppend DEF Released
  <2> QED BY <1>3, <2>1
<1>6. ASSUME s.callbacks # <<>>, Head(s.callbacks) = DummyCallback
      PROVE  /\ Tail(s.callbacks) \in Seq(Callbacks)
             /\ \A p \in Ports : Len(CarriedBy(Tail(s.callbacks), p)) = Released(s, p)
             /\ HasDummy(s)
  <2>1. ASSUME NEW p \in Ports PROVE Len(CarriedBy(Tail(s.callbacks), p)) = Released(s, p)
    <3>1. Tail(s.callbacks) \in Seq(Callbacks)
      BY <1>1, <1>6
    <3>2. Released(s, p) = Len(CarriedBy(Tail(s.callbacks), p)) + 0
      BY <1>1, <1>3, <1>6, CarriedTail DEF Released
    <3>3. Len(CarriedBy(Tail(s.callbacks), p)) \in Nat
      BY <3>1, CarriedType
    <3> QED BY <3>2, <3>3
  <2>2. HasDummy(s)
    <3>1. s.callbacks[1] = DummyCallback /\ 1 \in DOMAIN s.callbacks
      BY <1>1, <1>6
    <3> QED BY <3>1 DEF HasDummy, ToSet
  <2> QED BY <1>1, <1>6, <2>1, <2>2
<1> QED BY <1>4, <1>5, <1>6

\* From s to t a header the client sent has left the queue for its list.
Enters(t, s, p, what) ==
    /\ DOMAIN t = Fields
    /\ t.efb = Tail(s.efb)
    /\ t.ingress = [s.ingress EXCEPT ![p] = Append(s.ingress[p], what)]
    /\ t.egress = s.egress /\ t.port = s.port /\ t.callbacks = s.callbacks
    /\ t.back = s.back /\ t.hold = s.hold
    /\ t.cur = s.cur /\ t.inProgress = s.inProgress /\ t.param = s.param
    /\ t.cancellation = s.cancellation
    /\ t.counted = s.counted /\ t.completions = s.completions
    /\ t.commands = s.commands /\ t.krn = s.krn /\ t.prc = s.prc
    /\ t.failed = s.failed /\ t.completion = s.completion
    /\ t.ready = s.ready /\ t.packets = s.packets

\* Then it has only moved.
LEMMA EntersMoves ==
    ASSUME NEW s, IsComp(s), s.efb # <<>>, NEW p \in Ports, NEW what \in Contents,
           Head(s.efb).port = p, NEW t, Enters(t, s, p, what)
    PROVE  Moves(t, s)
<1>1. s.efb \in Seq(Headers(Ports)) /\ s.efb \in Seq(Callbacks) /\ s.ingress \in [Ports -> Seq(Contents)]
  BY SentAreCallbacks DEF IsComp
<1>2. Tail(s.efb) \in Seq(Headers(Ports))
  BY <1>1
<1>3. /\ t.efb = Tail(s.efb)
      /\ t.ingress = [s.ingress EXCEPT ![p] = Append(s.ingress[p], what)]
      /\ t.egress = s.egress /\ t.port = s.port /\ t.callbacks = s.callbacks
      /\ t.back = s.back /\ t.hold = s.hold
  BY DEF Enters
<1>4. IsComp(t)
  <2>1. t.ingress \in [Ports -> Seq(Contents)]
    BY <1>1, <1>3
  <2> QED BY <1>2, <1>3, <2>1 DEF IsComp, Enters
<1>5. SameControl(t, s)
  BY DEF SameControl, SameRest, Enters, HasDummy
<1>6. ASSUME NEW q \in Ports PROVE Balanced(t, s, q)
  <2> PICK n : n = IF q = p THEN 1 ELSE 0
    OBVIOUS
  <2>0. n \in Nat /\ n \in Int
    OBVIOUS
  <2>1. Sent(s, q) = Sent(t, q) + n
    BY <1>1, <1>3, CarriedTail DEF Sent
  <2>2. Len(t.ingress[q]) = Len(s.ingress[q]) + n
    <3>1. s.ingress[q] \in Seq(Contents) /\ Len(s.ingress[q]) \in Int
      BY <1>1
    <3>2. CASE q = p
      BY <1>1, <1>3, <3>1, <3>2
    <3>3. CASE q # p
      BY <1>1, <1>3, <3>1, <3>3, Zeros
    <3> QED BY <3>2, <3>3
  <2>3. t.port[q].claimed = s.port[q].claimed - 0
    <3>1. s.port[q].claimed \in Int /\ t.port[q].claimed = s.port[q].claimed
      BY <1>3, Numbers
    <3> QED BY <3>1
  <2>4. Released(s, q) = Released(t, q) + 0 /\ Len(t.egress[q]) = Len(s.egress[q]) + 0
    <3>1. Released(t, q) = Released(s, q) /\ t.egress[q] = s.egress[q]
      BY <1>3 DEF Released
    <3>2. Released(s, q) \in Int /\ Len(s.egress[q]) \in Int
      BY Numbers
    <3> QED BY <3>1, <3>2
  <2>5. Held(t, q) = Held(s, q) /\ t.back[q] = s.back[q]
    BY <1>3 DEF Held
  <2>6. TakenOut(t, s, q, n, 0)
    BY <2>1, <2>2, <2>3, <2>4, <2>5 DEF TakenOut
  <2> QED BY <1>4, <2>0, <2>6, TakenOutBalances
<1> QED BY <1>4, <1>5, <1>6 DEF Moves, Conserves

\* What is only one of several numbers is not more than their sum.
LEMMA Among ==
    ASSUME NEW a \in Nat, NEW b \in Nat, NEW c \in Nat, NEW d \in Nat, NEW e \in Nat, NEW f \in Nat
    PROVE  /\ a + b <= Sum(a, b, c, d, e, f)
           /\ Sum(a, b, c, d, e, f) = 0 => a = 0 /\ b = 0 /\ c = 0 /\ d = 0 /\ e = 0 /\ f = 0
           /\ a = 0 /\ b = 0 /\ c = 0 /\ d = 0 /\ e = 0 => Sum(a, b, c, d, e, f) = f
BY DEF Sum

\* What dispatch_efb does: the list of the port has room.
LEMMA EmptyOrFillMoves ==
    ASSUME NEW s, IsComp(s), s.efb # <<>>, \A p \in Ports : Total(s, p) <= NBufs,
           NEW t, t = EmptyOrFill([s EXCEPT !.efb = Tail(@)], Head(s.efb))
    PROVE  Moves(t, s)
<1> DEFINE p == Head(s.efb).port
           what == Head(s.efb).what
           r == [s EXCEPT !.efb = Tail(@)]
           u == [r EXCEPT !.ingress[p] = Append(@, what)]
<1>1. DOMAIN s = Fields /\ s.efb \in Seq(Headers(Ports)) /\ s.efb \in Seq(Callbacks)
  BY SentAreCallbacks DEF IsComp
<1>2. p \in Ports /\ what \in Contents
  <2>1. Head(s.efb) \in Headers(Ports)
    BY <1>1
  <2> QED BY <2>1, HeaderIs
<1>3. Len(s.ingress[p]) < NBufs
  <2>1. Sent(s, p) = Len(CarriedBy(Tail(s.efb), p)) + 1 /\ Len(CarriedBy(Tail(s.efb), p)) \in Nat
    <3>1. Tail(s.efb) \in Seq(Callbacks)
      BY <1>1
    <3> QED BY <1>1, <1>2, <3>1, CarriedTail, CarriedType DEF Sent
  <2>2. Sent(s, p) + Len(s.ingress[p]) <= Total(s, p)
    BY <1>2, Numbers, Among DEF Total
  <2>3. Sent(s, p) \in Nat /\ Len(s.ingress[p]) \in Nat /\ Total(s, p) \in Nat /\ Total(s, p) <= NBufs /\ NBufs \in Nat
    BY <1>2, Numbers, PortAssumption
  <2>4. ASSUME NEW j \in Nat, NEW k \in Nat, NEW l \in Nat, NEW m \in Nat, NEW n \in Nat,
               j = k + 1, j + l <= m, m <= n
        PROVE  l < n
    BY <2>4
  <2> HIDE DEF p
  <2> QED BY <2>1, <2>2, <2>3, <2>4
<1>4. r.ingress = s.ingress /\ r.cur = s.cur /\ DOMAIN r = Fields
  BY <1>1 DEF Fields
<1>5. Expect(r, Len(r.ingress[p]) < NBufs, "list size < buffer count") = r
  BY <1>3, <1>4 DEF Expect
<1>6. Enters(u, s, p, what) /\ u.ready = s.ready /\ u.cur = s.cur
  BY <1>1 DEF Enters, Fields
<1> HIDE DEF r
<1>7. t = u \/ t = [u EXCEPT !.ready = u.ready + 1]
  BY <1>5 DEF EmptyOrFill, r
<1>8. ASSUME NEW v, Enters(v, s, p, what) PROVE Moves(v, s)
  BY <1>2, <1>8, EntersMoves
<1> HIDE DEF u, p, what
<1>9. Moves(u, s)
  BY <1>6, <1>8
<1>10. IsComp(u) /\ u.ready + 1 \in Int
  <2>1. IsComp(u)
    BY <1>9 DEF Moves, Conserves
  <2>2. u.ready \in Int
    BY <2>1 DEF IsComp
  <2> QED BY <2>1, <2>2
<1>11. Moves([u EXCEPT !.ready = u.ready + 1], u)
  BY <1>10, ReadyMoves
<1> QED BY <1>7, <1>9, <1>11, MovesTwice

-----------------------------------------------------------------------------
(* Where the transitions are                                               *)

FlushCommands == {PortCommand("Flush", p) : p \in Ports}

\* The kernel has no command, and the processor has only ports to flush.
Quiet(s) == s.krn = <<>> /\ s.prc \in Seq(FlushCommands)

\* Both have been told to go to st.
Asked(s, st) == s.krn = <<StateSet(st)>> /\ s.prc = <<StateSet(st)>>

\* The kernel has done its part.
Half(s, st) ==
    /\ s.krn = <<>> /\ s.prc # <<>>
    /\ Head(s.prc) = StateSet(st) /\ Tail(s.prc) \in Seq(FlushCommands)

\* Nobody reports anything but st.
Reports(s, st) == \A i \in DOMAIN s.completions : s.completions[i].state = st

\* How many ports are being flushed.
Flushing(s) ==
    (IF s.port[In].flushing THEN 1 ELSE 0) + (IF s.port[Out].flushing THEN 1 ELSE 0)

\* The component is in no transition.
AtRest(s) ==
    /\ s.inProgress = None /\ s.commands = <<>>
    /\ s.cur \in Stages /\ Reports(s, s.cur)
    /\ Flushing(s) = 0
    /\ Quiet(s) \/ (s.cur = "Executing" /\ (Asked(s, "Executing") \/ Half(s, "Executing")))
    /\ HasDummy(s) => s.cur = "Executing"

\* A command waits for the state machine.
Accepted(s) ==
    /\ s.inProgress # None
    /\ s.commands = <<[cmd |-> s.inProgress, param |-> s.param]>>
    /\ s.cur \in Stages /\ Reports(s, s.cur)
    /\ s.inProgress = "StateSet" => s.param \in Stages /\ (s.cur = "Idle" => s.param # "Pause")
    /\ s.inProgress = "Flush" => s.param \in Ports \cup {ALL} /\ s.cur \in {"Executing", "Pause"}
    /\ Flushing(s) = 0
    /\ s.krn = <<>> /\ s.prc = <<>> /\ ~HasDummy(s)

Ways == {<<"Idle", "Executing">>, <<"Executing", "Pause">>, <<"Pause", "Executing">>}

\* The component goes from one state to another, but not to Idle.
Moving(s) ==
    /\ s.inProgress = "StateSet" /\ s.commands = <<>>
    /\ <<s.cur, s.param>> \in Ways /\ Reports(s, s.param)
    /\ Flushing(s) = 0
    /\ \/ s.krn = <<>> /\ s.prc \in {<<>>, <<StateSet(s.param)>>}
       \/ Asked(s, s.param)
    /\ HasDummy(s) => s.cur = "Pause" /\ s.krn = <<>>

\* The headers of a port, or of all, are collected.
Collecting(s) ==
    /\ s.inProgress = "Flush" /\ s.commands = <<>>
    /\ s.param \in Ports \cup {ALL}
    /\ s.cur \in {"Executing", "Pause"} /\ Reports(s, s.cur)
    /\ \/ s.krn = <<PortCommand("Flush", s.param)>> /\ s.prc = <<>> /\ Flushing(s) = 0
       \/ Quiet(s) /\ s.completion = Flushing(s) /\ Flushing(s) > 0
    /\ ~HasDummy(s)

\* Every header has come back from the processor.
Returned(s) == \A p \in Ports : s.port[p].claimed = 0

\* The kernel has no header, and the client sends none.
Cleared(s) == s.efb = <<>> /\ \A p \in Ports : s.ingress[p] = <<>> /\ s.egress[p] = <<>>

\* Who has reported, that the state machine knows of or will.
Reporters(s) == Len(s.counted[s.cur]) + Len(s.completions)

\* The component goes to Idle.
Stopping(s) ==
    /\ s.inProgress = "StateSet" /\ s.commands = <<>>
    /\ s.cur \in Stops /\ s.param = "Idle" /\ Reports(s, "Idle")
    /\ Flushing(s) = 0
    /\ \/ Asked(s, "Idle") /\ Reporters(s) = 0
       \/ /\ Cleared(s)
          /\ Quiet(s) \/ Half(s, "Idle")
          /\ Reporters(s) = (IF Quiet(s) THEN 1 ELSE 0) + (IF Returned(s) THEN 1 ELSE 0)
    /\ ~HasDummy(s)

Phase(s) == AtRest(s) \/ Accepted(s) \/ Moving(s) \/ Collecting(s) \/ Stopping(s)

\* The next servant that has something to do is the one whose turn it is.
Passes(s, who) ==
    /\ who \in {"client", "fsm", "kernel", "processor"}
    /\ s.krn # <<>> => who = "kernel"
    /\ who \in {"client", "fsm"} => Quiet(s)
    /\ who = "kernel" /\ s.krn = <<>> => s.prc \in Seq(FlushCommands)

\* The headers are where they are counted, and there are none in Idle.
Sound(s) ==
    /\ IsComp(s) /\ s.failed = None
    /\ \A st \in Stops : st # s.cur => s.counted[st] = <<>>
    /\ \A p \in Ports : Debt(s, p) = 0 /\ Total(s, p) <= NBufs
    /\ s.cur = "Idle" => \A p \in Ports : Total(s, p) = 0

\* What a servant leaves behind.
Good(s) == Sound(s) /\ Phase(s)

\* The inductive invariant.
Inv ==
    /\ Good(Now) /\ Passes(comp, turn)
    /\ client \in [Ports -> Nat]
    /\ \A p \in Ports : client[p] + Total(Now, p) = NBufs

\* From s to t the transitions are where they were, but for what the servants are told.
Alike(t, s) ==
    /\ t.cur = s.cur /\ t.inProgress = s.inProgress /\ t.param = s.param
    /\ t.counted = s.counted /\ t.completions = s.completions
    /\ t.commands = s.commands /\ t.failed = s.failed /\ t.completion = s.completion
    /\ \A p \in Ports : t.port[p].flushing = s.port[p].flushing
    /\ HasDummy(t) => HasDummy(s)

\* One of the servants has reported that it is in st.
Reporting(t, s, who, st) ==
    /\ t.cur = s.cur /\ t.inProgress = s.inProgress /\ t.param = s.param
    /\ t.counted = s.counted
    /\ t.completions = Append(s.completions, [servant |-> who, state |-> st])
    /\ t.commands = s.commands /\ t.krn = s.krn /\ t.prc = s.prc
    /\ t.failed = s.failed /\ t.completion = s.completion
    /\ \A p \in Ports : t.port[p].flushing = s.port[p].flushing
    /\ HasDummy(t) => HasDummy(s)

\* What conserves the headers keeps them sound.
LEMMA SoundKept ==
    ASSUME NEW s, Sound(s), NEW t, Conserves(t, s),
           t.cur = s.cur, t.counted = s.counted, t.failed = s.failed
    PROVE  Sound(t)
BY DEF Sound, Conserves, Balanced

\* Headers that move leave the phase of a transition alone.
LEMMA PhaseKept ==
    ASSUME NEW s, IsComp(s), Phase(s), NEW t, SameControl(t, s),
           s.cur \in Stops /\ Cleared(s) => Cleared(t) /\ (Returned(t) <=> Returned(s))
    PROVE  Phase(t)
<1>1. /\ t.cur = s.cur /\ t.inProgress = s.inProgress /\ t.param = s.param
      /\ t.counted = s.counted /\ t.completions = s.completions
      /\ t.commands = s.commands /\ t.krn = s.krn /\ t.prc = s.prc
      /\ t.completion = s.completion
      /\ t.port[In].flushing = s.port[In].flushing /\ t.port[Out].flushing = s.port[Out].flushing
      /\ HasDummy(t) => HasDummy(s)
  BY TwoPorts DEF SameControl, SameRest
<1>2. /\ Flushing(t) = Flushing(s) /\ (Quiet(t) <=> Quiet(s))
      /\ \A st : /\ (Asked(t, st) <=> Asked(s, st)) /\ (Half(t, st) <=> Half(s, st))
                 /\ (Reports(t, st) <=> Reports(s, st))
  BY <1>1 DEF Flushing, Quiet, Asked, Half, Reports
<1>3. CASE AtRest(s)
  BY <1>1, <1>2, <1>3 DEF AtRest, Phase
<1>4. CASE Accepted(s)
  BY <1>1, <1>2, <1>4 DEF Accepted, Phase
<1>5. CASE Moving(s)
  BY <1>1, <1>2, <1>5 DEF Moving, Phase
<1>6. CASE Collecting(s)
  BY <1>1, <1>2, <1>6 DEF Collecting, Phase
<1>7. CASE Stopping(s)
  BY <1>1, <1>2, <1>7 DEF Stopping, Phase, Reporters
<1> QED BY <1>3, <1>4, <1>5, <1>6, <1>7 DEF Phase

\* What is reported.
LEMMA CompleteTransitionReports ==
    ASSUME NEW s, IsComp(s), NEW who \in {"kernel", "processor"}, NEW st \in Stages,
           s.cur \in Stops => st = "Idle",
           NEW t, t = CompleteTransition(s, who, st)
    PROVE  /\ Conserves(t, s) /\ Reporting(t, s, who, st)
           /\ t.ingress = s.ingress /\ t.egress = s.egress /\ t.efb = s.efb /\ t.port = s.port
<1> DEFINE m == [servant |-> who, state |-> st]
<1>1. DOMAIN s = Fields /\ s.cur \in Stages \cup Stops /\ s.completions \in Seq(Completions)
  BY DEF IsComp
<1>2. t = [s EXCEPT !.completions = Append(s.completions, m)]
  BY <1>1 DEF CompleteTransition, SubStates, Destination, Stages, Stops
<1>3. Append(s.completions, m) \in Seq(Completions)
  BY <1>1 DEF Completions
<1>4. /\ DOMAIN t = Fields /\ t.port = s.port
      /\ t.completions = Append(s.completions, m)
      /\ t.egress = s.egress /\ t.callbacks = s.callbacks
      /\ t.ingress = s.ingress /\ t.efb = s.efb /\ t.back = s.back /\ t.hold = s.hold
      /\ t.cur = s.cur /\ t.inProgress = s.inProgress /\ t.param = s.param
      /\ t.cancellation = s.cancellation /\ t.counted = s.counted
      /\ t.commands = s.commands /\ t.krn = s.krn /\ t.prc = s.prc
      /\ t.failed = s.failed /\ t.completion = s.completion
      /\ t.ready = s.ready /\ t.packets = s.packets
  BY <1>1, <1>2 DEF Fields
<1>5. IsComp(t)
  BY <1>3, <1>4 DEF IsComp
<1>6. SameHeaders(t, s)
  BY <1>4 DEF SameHeaders
<1>7. Reporting(t, s, who, st)
  BY <1>4 DEF Reporting, HasDummy
<1> QED BY <1>4, <1>5, <1>6, <1>7, SameHeadersConserve

\* Reports that are all of st still are with another of st.
LEMMA ReportsMore ==
    ASSUME NEW s, IsComp(s), NEW st, Reports(s, st), NEW who, NEW t, Reporting(t, s, who, st)
    PROVE  Reports(t, st) /\ Len(t.completions) = Len(s.completions) + 1
<1>1. s.completions \in Seq(Completions)
  BY DEF IsComp
<1>2. t.completions = Append(s.completions, [servant |-> who, state |-> st])
  BY DEF Reporting
<1>3. ASSUME NEW q \in Seq(Completions), \A i \in DOMAIN q : q[i].state = st, NEW m, m.state = st
      PROVE  /\ \A i \in DOMAIN Append(q, m) : Append(q, m)[i].state = st
             /\ Len(Append(q, m)) = Len(q) + 1
  <2>1. DOMAIN Append(q, m) = 1 .. Len(q) + 1 /\ DOMAIN q = 1 .. Len(q) /\ Len(q) \in Nat
    OBVIOUS
  <2> QED BY <1>3, <2>1
<1> QED BY <1>1, <1>2, <1>3 DEF Reports

\* Every port is enabled and populated.
LEMMA ReturnedIs ==
    ASSUME NEW s, IsComp(s)
    PROVE  AllBuffersReturned(s.port) <=> Returned(s)
<1>1. \A p \in Ports : s.port[p].enabled = TRUE /\ s.port[p].bufs = NBufs
  BY DEF IsComp, PortRecord
<1>2. NBufs > 0
  BY PortAssumption
<1> QED BY <1>1, <1>2 DEF AllBuffersReturned, Returned

-----------------------------------------------------------------------------
(* The kernel                                                              *)

\* No header moves when the kernel takes its command.
LEMMA KernelTakes ==
    ASSUME NEW s, Sound(s), NEW c, s.krn = <<c>>, NEW t, t = [s EXCEPT !.krn = Tail(@)]
    PROVE  /\ Sound(t) /\ Conserves(t, s) /\ Alike(t, s) /\ t.prc = s.prc /\ t.krn = <<>>
           /\ t.ingress = s.ingress /\ t.egress = s.egress /\ t.port = s.port
           /\ t.hold = s.hold
<1>1. Tail(<<c>>) = <<>>
  OBVIOUS
<1>2. IsComp(s)
  BY DEF Sound
<1>3. IsComp(t)
  BY <1>1, <1>2 DEF IsComp, Fields
<1>4. /\ SameHeaders(t, s) /\ Alike(t, s) /\ t.prc = s.prc /\ t.krn = <<>>
      /\ t.ingress = s.ingress /\ t.egress = s.egress /\ t.port = s.port
  BY <1>1, <1>2 DEF IsComp, Fields, SameHeaders, Alike, HasDummy
<1>5. Conserves(t, s)
  BY <1>3, <1>4, SameHeadersConserve
<1> QED BY <1>4, <1>5, SoundKept DEF Alike, SameHeaders

\* Nothing is with the kernel or the processor when nothing is anywhere.
LEMMA TotalZero ==
    ASSUME NEW s, IsComp(s), NEW p \in Ports, Total(s, p) = 0
    PROVE  s.ingress[p] = <<>> /\ s.egress[p] = <<>> /\ s.back[p] = 0
<1>1. Len(s.ingress[p]) = 0 /\ Len(s.egress[p]) = 0 /\ s.back[p] = 0
  <2>1. /\ Sent(s, p) \in Nat /\ Released(s, p) \in Nat /\ Held(s, p) \in Nat
        /\ Len(s.ingress[p]) \in Nat /\ Len(s.egress[p]) \in Nat /\ s.back[p] \in Nat
    BY Numbers
  <2>2. Sum(Sent(s, p), Len(s.ingress[p]), Held(s, p), Released(s, p), Len(s.egress[p]), s.back[p]) = 0
    BY DEF Total
  <2>3. ASSUME NEW a \in Nat, NEW b \in Nat, NEW c \in Nat, NEW d \in Nat, NEW e \in Nat, NEW f \in Nat,
               Sum(a, b, c, d, e, f) = 0
        PROVE  b = 0 /\ e = 0 /\ f = 0
    BY <2>3 DEF Sum
  <2> QED BY <2>1, <2>2, <2>3
<1>2. s.ingress[p] \in Seq(Contents) /\ s.egress[p] \in Seq(Contents)
  BY DEF IsComp
<1> QED BY <1>1, <1>2, EmptySeq

\* The kernel's part in leaving Idle.
LEMMA KernelLeavesIdle ==
    ASSUME NEW s, IsComp(s), s.cur = "Idle", \A p \in Ports : Total(s, p) = 0,
           NEW t, t = StateSetOfKernel(s, "Executing")
    PROVE  Conserves(t, s) /\ Reporting(t, s, "kernel", "Executing")
<1>1. t = CompleteTransition(ClearLists(s), "kernel", "Executing")
  BY DEF StateSetOfKernel, Reported
<1>2. ASSUME NEW u, u = ClearLists(s), NEW v, v = CompleteTransition(u, "kernel", "Executing")
      PROVE  Conserves(v, s) /\ Reporting(v, s, "kernel", "Executing")
  <2>1. s.ingress[In] = <<>> /\ s.egress[In] = <<>>
    BY TwoPorts, TotalZero
  <2>2. Moves(u, s) /\ IsComp(u) /\ u.cur = "Idle"
    BY <1>2, <2>1, ClearListsMoves DEF Moves, Conserves, SameControl, SameRest
  <2>3. Conserves(v, u) /\ Reporting(v, u, "kernel", "Executing")
    BY <1>2, <2>2, CompleteTransitionReports DEF Stages, Stops
  <2>4. Reporting(v, s, "kernel", "Executing")
    BY <2>2, <2>3 DEF Moves, SameControl, SameRest, Reporting
  <2> QED BY <2>2, <2>3, <2>4, ConservesTwice DEF Moves
<1> QED BY <1>1, <1>2

\* Its part in entering Pause.
LEMMA KernelPauses ==
    ASSUME NEW s, IsComp(s), s.cur = "Executing", NEW t, t = StateSetOfKernel(s, "Pause")
    PROVE  Conserves(t, s) /\ Reporting(t, s, "kernel", "Pause")
<1>1. t = CompleteTransition(s, "kernel", "Pause")
  BY DEF StateSetOfKernel, KernelStateSet, Reported, Transitions
<1> QED BY <1>1, CompleteTransitionReports DEF Stages, Stops

\* Its part in leaving Pause, with the message to itself.
LEMMA KernelResumes ==
    ASSUME NEW s, IsComp(s), s.cur = "Pause", NEW t, t = StateSetOfKernel(s, "Executing")
    PROVE  /\ Conserves(t, s)
           /\ t.cur = s.cur /\ t.inProgress = s.inProgress /\ t.param = s.param
           /\ t.counted = s.counted
           /\ t.completions = Append(s.completions, [servant |-> "kernel", state |-> "Executing"])
           /\ t.commands = s.commands /\ t.krn = s.krn /\ t.prc = s.prc
           /\ t.failed = s.failed
           /\ \A p \in Ports : t.port[p].flushing = s.port[p].flushing
<1> DEFINE a == [s EXCEPT !.callbacks = Append(@, DummyCallback)]
<1>1. t = CompleteTransition(a, "kernel", "Executing")
  BY DEF StateSetOfKernel, Reported
<1>2. a = [s EXCEPT !.callbacks = Append(s.callbacks, DummyCallback)]
  OBVIOUS
<1>3. ASSUME NEW q \in Seq(Callbacks), \A p \in Ports : Len(CarriedBy(q, p)) = Released(s, p),
             NEW u, u = [s EXCEPT !.callbacks = q],
             NEW v, v = CompleteTransition(u, "kernel", "Executing")
      PROVE  /\ Conserves(v, s)
             /\ v.cur = s.cur /\ v.inProgress = s.inProgress /\ v.param = s.param
             /\ v.counted = s.counted
             /\ v.completions = Append(s.completions, [servant |-> "kernel", state |-> "Executing"])
             /\ v.commands = s.commands /\ v.krn = s.krn /\ v.prc = s.prc
             /\ v.failed = s.failed
             /\ \A p \in Ports : v.port[p].flushing = s.port[p].flushing
  <2>1. Conserves(u, s) /\ IsComp(u)
    BY <1>3, DummyMoves DEF Conserves
  <2>2. /\ u.cur = s.cur /\ u.inProgress = s.inProgress /\ u.param = s.param
        /\ u.counted = s.counted /\ u.completions = s.completions
        /\ u.commands = s.commands /\ u.krn = s.krn /\ u.prc = s.prc
        /\ u.failed = s.failed /\ u.port = s.port
    BY <1>3 DEF IsComp, Fields
  <2>3. Conserves(v, u) /\ Reporting(v, u, "kernel", "Executing")
    BY <1>3, <2>1, <2>2, CompleteTransitionReports DEF Stages, Stops
  <2> QED BY <2>1, <2>2, <2>3, ConservesTwice DEF Reporting
<1>4. /\ Append(s.callbacks, DummyCallback) \in Seq(Callbacks)
      /\ \A p \in Ports : Len(CarriedBy(Append(s.callbacks, DummyCallback), p)) = Released(s, p)
  BY DummyCarries
<1> QED BY <1>1, <1>2, <1>3, <1>4, ZenonT(30)

\* Told once more that the component executes, it hands out what waits.
LEMMA KernelRestarts ==
    ASSUME NEW s, IsComp(s), s.cur = "Executing", NEW t, t = StateSetOfKernel(s, "Executing")
    PROVE  Moves(t, s)
<1>1. t = Propagate(FlushAllEgress(s))
  BY DEF StateSetOfKernel, Reported
<1>2. ASSUME NEW u, u = FlushAllEgress(s), NEW v, v = Propagate(u) PROVE Moves(v, s)
  <2>1. Moves(u, s) /\ IsComp(u)
    BY <1>2, FlushAllEgressMoves DEF Moves, Conserves
  <2>2. Moves(v, u)
    BY <1>2, <2>1, PropagateMoves
  <2> QED BY <2>1, <2>2, MovesTwice
<1> QED BY <1>1, <1>2

\* Its part in the way to Idle: everything goes back, and it reports that at
\* once if the processor has nothing.
LEMMA KernelStops ==
    ASSUME NEW s, IsComp(s), ~HasDummy(s), s.cur \in Stops, NEW t, t = StateSetOfKernel(s, "Idle")
    PROVE  /\ Conserves(t, s) /\ Cleared(t)
           /\ t.prc = Append(Append(s.prc, PortCommand("Flush", In)), PortCommand("Flush", Out))
           /\ t.cur = s.cur /\ t.inProgress = s.inProgress /\ t.param = s.param
           /\ t.counted = s.counted /\ t.commands = s.commands /\ t.krn = s.krn
           /\ t.failed = s.failed /\ ~HasDummy(t)
           /\ \A p \in Ports : t.port[p].flushing = s.port[p].flushing
           /\ t.completions = IF Returned(t)
                THEN Append(s.completions, [servant |-> "kernel", state |-> "Idle"])
                ELSE s.completions
<1> DEFINE stopped == ForgetEos(StopHeaders(s))
<1>1. t = IF AllBuffersReturned(stopped.port)
          THEN CompleteTransition(ClearLists(stopped), "kernel", "Idle") ELSE stopped
  BY DEF StateSetOfKernel, Reported, Stops
<1>2. ASSUME NEW u, u = StopHeaders(s), NEW v, v = ForgetEos(u)
      PROVE  /\ Conserves(v, s) /\ SameRest(v, s) /\ Cleared(v)
             /\ v.prc = Append(Append(s.prc, PortCommand("Flush", In)), PortCommand("Flush", Out))
  <2>1. /\ Conserves(u, s) /\ SameRest(u, s)
        /\ u.prc = Append(Append(s.prc, PortCommand("Flush", In)), PortCommand("Flush", Out))
        /\ u.efb = <<>> /\ \A p \in Ports : u.ingress[p] = <<>> /\ u.egress[p] = <<>>
    BY <1>2, StopHeadersMoves
  <2>2. IsComp(u)
    BY <2>1 DEF Conserves
  <2>3. Moves(v, u) /\ v.ingress = u.ingress /\ v.egress = u.egress /\ v.efb = u.efb
    BY <1>2, <2>2, ForgetEosMoves
  <2>4. Conserves(v, s)
    BY <2>1, <2>3, ConservesTwice DEF Moves
  <2>5. SameRest(v, s) /\ v.prc = u.prc
    BY <2>1, <2>3 DEF Moves, SameControl, SameRest
  <2> QED BY <2>1, <2>3, <2>4, <2>5 DEF Cleared
<1>3. /\ Conserves(stopped, s) /\ SameRest(stopped, s) /\ Cleared(stopped)
      /\ stopped.prc = Append(Append(s.prc, PortCommand("Flush", In)), PortCommand("Flush", Out))
  BY <1>2
<1> HIDE DEF stopped
<1>4. IsComp(stopped) /\ (AllBuffersReturned(stopped.port) <=> Returned(stopped))
  BY <1>3, ReturnedIs DEF Conserves
<1>5. CASE Returned(stopped)
  <2>1. ASSUME NEW u, u = ClearLists(stopped), NEW v, v = CompleteTransition(u, "kernel", "Idle")
        PROVE  /\ Conserves(v, stopped) /\ Reporting(v, stopped, "kernel", "Idle")
               /\ v.ingress = stopped.ingress /\ v.egress = stopped.egress
               /\ v.efb = stopped.efb /\ v.port = stopped.port
    <3>1. stopped.ingress[In] = <<>> /\ stopped.egress[In] = <<>>
      BY <1>3, TwoPorts DEF Cleared
    <3>2. /\ Moves(u, stopped) /\ u.ingress = stopped.ingress /\ u.egress = stopped.egress
          /\ u.efb = stopped.efb /\ u.port = stopped.port
      BY <1>4, <2>1, <3>1, ClearListsMoves
    <3>3. IsComp(u)
      BY <3>2 DEF Moves, Conserves
    <3>4. /\ Conserves(v, u) /\ Reporting(v, u, "kernel", "Idle")
          /\ v.ingress = u.ingress /\ v.egress = u.egress /\ v.efb = u.efb /\ v.port = u.port
      BY <2>1, <3>3, CompleteTransitionReports DEF Stages
    <3>5. Reporting(v, stopped, "kernel", "Idle")
      BY <3>2, <3>4 DEF Moves, SameControl, SameRest, Reporting
    <3> QED BY <3>2, <3>4, <3>5, ConservesTwice DEF Moves
  <2>2. t = CompleteTransition(ClearLists(stopped), "kernel", "Idle")
    BY <1>1, <1>4, <1>5
  <2>3. /\ Conserves(t, stopped) /\ Reporting(t, stopped, "kernel", "Idle")
        /\ t.ingress = stopped.ingress /\ t.egress = stopped.egress
        /\ t.efb = stopped.efb /\ t.port = stopped.port
    BY <2>1, <2>2
  <2>4. Conserves(t, s)
    BY <1>3, <2>3, ConservesTwice
  <2>5. Returned(t) /\ Cleared(t)
    BY <1>3, <1>5, <2>3 DEF Returned, Cleared
  <2> QED BY <1>3, <2>3, <2>4, <2>5 DEF Reporting, SameRest
<1>6. CASE ~Returned(stopped)
  <2>1. t = stopped
    BY <1>1, <1>4, <1>6
  <2> QED BY <1>3, <1>6, <2>1 DEF SameRest
<1> QED BY <1>5, <1>6

\* Commands to flush, one after the other.
LEMMA FlushesOnly ==
    /\ <<>> \in Seq(FlushCommands)
    /\ \A p \in Ports, q \in Seq(FlushCommands) :
            Append(q, PortCommand("Flush", p)) \in Seq(FlushCommands)
<1>1. \A p \in Ports : PortCommand("Flush", p) \in FlushCommands
  BY DEF FlushCommands
<1>2. \A c \in FlushCommands, q \in Seq(FlushCommands) : Append(q, c) \in Seq(FlushCommands)
  OBVIOUS
<1> QED BY <1>1, <1>2

\* What dispatch_port_flush does for one port and for both.
LEMMA KernelFlushes ==
    ASSUME NEW s, Sound(s), Collecting(s), s.krn # <<>>,
           NEW r, r = [s EXCEPT !.krn = Tail(@)],
           NEW t, t = CommandOfKernel(r, Head(s.krn))
    PROVE  /\ Conserves(t, s) /\ Good(t) /\ t.krn = <<>>
           /\ \A p \in Ports : (p = In /\ s.param = p) \/ s.param = ALL =>
                Gone(t, p) /\ t.hold = s.hold
<1>1. /\ s.krn = <<PortCommand("Flush", s.param)>> /\ s.prc = <<>> /\ Flushing(s) = 0
      /\ s.inProgress = "Flush" /\ s.commands = <<>> /\ s.param \in Ports \cup {ALL}
      /\ s.cur \in {"Executing", "Pause"} /\ Reports(s, s.cur) /\ ~HasDummy(s)
  BY DEF Collecting, Quiet
<1>2. /\ Sound(r) /\ Conserves(r, s) /\ Alike(r, s) /\ r.prc = <<>> /\ r.krn = <<>>
      /\ r.port = s.port /\ r.hold = s.hold
  BY <1>1, KernelTakes
<1>3. In \in Ports /\ Out \in Ports /\ In # Out /\ (\A p \in Ports : p = In \/ p = Out)
      /\ FirstPort = In /\ ALL \notin Ports
  BY TwoPorts
<1>4. ~s.port[In].flushing /\ ~s.port[Out].flushing
  BY <1>1 DEF Flushing
<1>5. Head(s.krn) = PortCommand("Flush", s.param)
  BY <1>1
<1>6. DOMAIN r = Fields
  BY <1>2 DEF Sound, IsComp
<1> DEFINE n == CompletionCount(s.param)
           u == [r EXCEPT !.completion = n]
<1>7. t = ForTargets(FlushHeaders, u, s.param)
  <2>1. Head(s.krn).cmd = "Flush" /\ Head(s.krn).param = s.param
    BY <1>5 DEF PortCommand
  <2> QED BY <2>1 DEF CommandOfKernel
<1>8. n \in Int /\ (s.param = ALL => n = 2) /\ (s.param # ALL => n = 1)
  BY <1>3, TwoPorts DEF CompletionCount
<1> HIDE DEF n
<1>9. /\ IsComp(u) /\ SameHeaders(u, r) /\ u.completion = n
      /\ u.cur = s.cur /\ u.inProgress = "Flush" /\ u.param = s.param
      /\ u.counted = s.counted /\ u.completions = s.completions
      /\ u.commands = s.commands /\ u.failed = s.failed
      /\ u.krn = <<>> /\ u.prc = <<>> /\ ~HasDummy(u)
      /\ u.port = s.port /\ u.hold = s.hold
  <2>1. IsComp(r)
    BY <1>2 DEF Sound
  <2> QED BY <1>1, <1>2, <1>8, <2>1 DEF IsComp, Fields, SameHeaders, Alike, HasDummy
<1> HIDE DEF u
<1>10. Conserves(u, s)
  BY <1>2, <1>9, SameHeadersConserve, ConservesTwice
\* From what the flush of one port, or of one after the other, leaves.
<1>11. ASSUME NEW v, Conserves(v, s), v.cur = s.cur, v.counted = s.counted,
              v.completions = s.completions, v.commands = s.commands, v.failed = s.failed,
              v.krn = <<>>, v.prc \in Seq(FlushCommands), ~HasDummy(v),
              v.completion = Flushing(v),
              v.completion = 0 => v.inProgress = None /\ v.param = None,
              v.completion # 0 => v.inProgress = "Flush" /\ v.param = s.param
       PROVE  Good(v) /\ v.krn = <<>>
  <2>1. Sound(v)
    BY <1>11, SoundKept
  <2>2. Flushing(v) \in Int /\ Flushing(v) >= 0
    BY DEF Flushing
  <2>3. Reports(v, v.cur)
    BY <1>1, <1>11 DEF Reports
  <2>4. CASE v.completion = 0
    <3>1. AtRest(v)
      BY <1>1, <1>11, <2>3, <2>4 DEF AtRest, Quiet, Stages
    <3> QED BY <1>11, <2>1, <3>1 DEF Good, Phase
  <2>5. CASE v.completion # 0
    <3>1. Collecting(v)
      BY <1>1, <1>11, <2>2, <2>3, <2>5 DEF Collecting, Quiet
    <3> QED BY <1>11, <2>1, <3>1 DEF Good, Phase
  <2> QED BY <2>4, <2>5
<1>13. CASE s.param # ALL
  <2> DEFINE p == s.param
  <2>1. p \in Ports
    BY <1>1, <1>13
  <2>2. t = FlushHeaders(u, p, FirstPort)
    BY <1>7, <1>13 DEF ForTargets
  <2>3. n = 1
    BY <1>8, <1>13
  <2> HIDE DEF p
  <2>4. Conserves(t, u) /\ (Ended(t, u, p) \/ Begun(t, u, p))
    BY <1>1, <1>3, <1>9, <2>1, <2>2, <2>3, FlushHeadersMoves
  <2>5. Conserves(t, s)
    BY <1>10, <2>4, ConservesTwice
  <2>6. ASSUME Ended(t, u, p) PROVE Good(t) /\ t.krn = <<>>
    <3>1. ~t.port[In].flushing /\ ~t.port[Out].flushing
      BY <1>3, <1>4, <1>9, <2>1, <2>6 DEF Ended
    <3>2. Flushing(t) = 0 /\ t.completion = 0
      BY <1>9, <2>3, <2>6, <3>1 DEF Flushing, Ended
    <3>3. /\ t.cur = s.cur /\ t.counted = s.counted /\ t.completions = s.completions
          /\ t.commands = s.commands /\ t.failed = s.failed
          /\ t.krn = <<>> /\ t.prc = <<>> /\ ~HasDummy(t)
          /\ t.inProgress = None /\ t.param = None
      BY <1>9, <2>6, <3>2 DEF Ended
    <3> QED BY <1>11, <2>5, <3>2, <3>3, FlushesOnly
  <2>7. ASSUME Begun(t, u, p) PROVE Good(t) /\ t.krn = <<>>
    <3>1. t.port[p].flushing /\ \A q \in Ports : q # p => ~t.port[q].flushing
      BY <1>3, <1>4, <1>9, <2>7 DEF Begun
    <3>2. Flushing(t) = 1 /\ t.completion = 1
      <4>1. p = In \/ p = Out
        BY <1>3, <2>1
      <4>2. t.completion = 1
        BY <1>9, <2>3, <2>7 DEF Begun
      <4>3. CASE p = In
        <5>1. t.port[In].flushing /\ ~t.port[Out].flushing
          BY <1>3, <3>1, <4>3
        <5> QED BY <4>2, <5>1 DEF Flushing
      <4>4. CASE p = Out
        <5>1. t.port[Out].flushing /\ ~t.port[In].flushing
          BY <1>3, <3>1, <4>4
        <5> QED BY <4>2, <5>1 DEF Flushing
      <4> QED BY <4>1, <4>3, <4>4
    <3>3. /\ t.cur = s.cur /\ t.counted = s.counted /\ t.completions = s.completions
          /\ t.commands = s.commands /\ t.failed = s.failed
          /\ t.krn = <<>> /\ t.prc = Append(<<>>, PortCommand("Flush", p)) /\ ~HasDummy(t)
          /\ t.inProgress = "Flush" /\ t.param = s.param
      BY <1>9, <2>7 DEF Begun
    <3>4. t.prc \in Seq(FlushCommands)
      BY <2>1, <3>3, FlushesOnly
    <3> QED BY <1>11, <2>5, <3>2, <3>3, <3>4
  <2>8. p = In => Gone(t, p) /\ t.hold = s.hold
    <3>1. p = In => t = FlushHeaders(u, p, p)
      BY <1>3, <2>2
    <3>2. u.completion > 0
      BY <1>9, <2>3
    <3> QED BY <1>1, <1>9, <2>1, <3>1, <3>2, FlushGathers
  <2>9. s.param = p
    BY DEF p
  <2> QED BY <1>13, <2>4, <2>5, <2>6, <2>7, <2>8, <2>9
<1>14. CASE s.param = ALL
  <2>1. t = ForEachPort(LAMBDA x, p : FlushHeaders(x, p, p), u)
    BY <1>7, <1>14 DEF ForTargets
  <2> DEFINE m == Len(PortList)
             after == CHOOSE g : g = [k \in 0 .. m |->
                        IF k = 0 THEN u ELSE FlushTurn(g[k - 1], PortList[k])]
  <2>2. m \in Nat
    BY PortAssumption
  <2>3. PICK f : IsLoop(f, "flush", u, m)
    BY <2>2, LoopExists
  <2>4. f = [k \in 0 .. m |-> IF k = 0 THEN u ELSE FlushTurn(f[k - 1], PortList[k])]
    BY <2>3, TurnIs DEF IsLoop
  <2>5. after = [k \in 0 .. m |-> IF k = 0 THEN u ELSE FlushTurn(after[k - 1], PortList[k])]
    BY <2>4
  <2>6. t = after[m]
    BY <2>1 DEF ForEachPort, FlushTurn
  <2> HIDE DEF after
  <2>7. IsLoop(after, "flush", u, m)
    BY <2>5, TurnIs, SMTT(30) DEF IsLoop
  <2>8. t = FlushHeaders(FlushHeaders(u, In, In), Out, Out)
    BY <2>6, <2>7, TwoTurns, TurnIs DEF FlushTurn
  <2>9. n = 2
    BY <1>8, <1>14
  <2>10. ASSUME NEW a, a = FlushHeaders(u, In, In), NEW b, b = FlushHeaders(a, Out, Out)
         PROVE  /\ Conserves(b, s) /\ Good(b) /\ b.krn = <<>>
                /\ Gone(b, In) /\ Gone(b, Out) /\ b.hold = s.hold
    <3>1. Conserves(a, u) /\ (Ended(a, u, In) \/ Begun(a, u, In))
      BY <1>1, <1>3, <1>9, <2>9, <2>10, FlushHeadersMoves
    <3>2. /\ IsComp(a) /\ ~HasDummy(a) /\ a.cur = s.cur /\ a.inProgress = "Flush" /\ a.param = s.param
          /\ a.counted = s.counted /\ a.completions = s.completions
          /\ a.commands = s.commands /\ a.failed = s.failed
          /\ a.krn = <<>> /\ ~a.port[Out].flushing
          /\ \/ a.completion = 1 /\ a.prc = <<>> /\ ~a.port[In].flushing
             \/ a.completion = 2 /\ a.prc = Append(<<>>, PortCommand("Flush", In)) /\ a.port[In].flushing
      BY <1>3, <1>4, <1>9, <2>9, <3>1 DEF Conserves, Ended, Begun
    <3>3. a.completion \in {1, 2} /\ a.completion > 0
      BY <3>2
    <3>4. Conserves(b, a) /\ (Ended(b, a, Out) \/ Begun(b, a, Out))
      BY <1>1, <1>3, <2>10, <3>2, <3>3, FlushHeadersMoves
    <3>5. Conserves(b, s)
      BY <1>10, <3>1, <3>4, ConservesTwice
    <3>6. ASSUME Ended(b, a, Out) PROVE Good(b) /\ b.krn = <<>>
      <4>1. b.completion = a.completion - 1 /\ b.prc = a.prc /\ ~b.port[Out].flushing
            /\ b.port[In].flushing = a.port[In].flushing
        BY <1>3, <3>6 DEF Ended
      <4>2. b.completion = Flushing(b)
        BY <3>2, <4>1 DEF Flushing
      <4>3. b.prc \in Seq(FlushCommands)
        BY <1>3, <3>2, <4>1, FlushesOnly
      <4> QED BY <1>11, <3>2, <3>5, <3>6, <4>2, <4>3 DEF Ended
    <3>7. ASSUME Begun(b, a, Out) PROVE Good(b) /\ b.krn = <<>>
      <4>1. b.completion = a.completion /\ b.prc = Append(a.prc, PortCommand("Flush", Out))
            /\ b.port[Out].flushing /\ b.port[In].flushing = a.port[In].flushing
        BY <1>3, <3>7 DEF Begun
      <4>2. b.completion = Flushing(b) /\ b.completion # 0
        BY <3>2, <4>1 DEF Flushing
      <4>3. b.prc \in Seq(FlushCommands)
        <5>1. a.prc \in Seq(FlushCommands)
          BY <1>3, <3>2, FlushesOnly
        <5> QED BY <1>3, <4>1, <5>1, FlushesOnly
      <4> QED BY <1>11, <3>2, <3>5, <3>7, <4>2, <4>3 DEF Begun
    <3>8. Gone(a, In) /\ a.hold = u.hold
      BY <1>1, <1>3, <1>9, <2>9, <2>10, FlushGathers
    <3>9. Gone(b, In) /\ Gone(b, Out) /\ b.hold = a.hold
      BY <1>1, <1>3, <2>10, <3>2, <3>3, <3>8, FlushGathers
    <3> QED BY <1>9, <3>4, <3>5, <3>6, <3>7, <3>8, <3>9
  <2>11. Gone(t, In) /\ Gone(t, Out) /\ t.hold = s.hold /\ Conserves(t, s) /\ Good(t) /\ t.krn = <<>>
    BY <2>8, <2>10
  <2>12. \A p \in Ports : Gone(t, p)
    BY <1>3, <2>11
  <2> QED BY <2>11, <2>12
<1> QED BY <1>13, <1>14

\* r is s after the kernel has taken its command.
Took(r, s) == r = [s EXCEPT !.krn = Tail(@)]

\* A list of one.
LEMMA ListOfOne ==
    ASSUME NEW c
    PROVE  <<c>> # <<>> /\ Head(<<c>>) = c /\ Tail(<<c>>) = <<>>
OBVIOUS

\* The same list, made by appending.
LEMMA AppendedOne ==
    ASSUME NEW c
    PROVE  Len(Append(<<>>, c)) = 1 /\ \A i \in DOMAIN Append(<<>>, c) : Append(<<>>, c)[i] = c
OBVIOUS

\* What is appended comes last.
LEMMA AppendedLast ==
    ASSUME NEW S, NEW q \in Seq(S), q # <<>>, NEW c \in S
    PROVE  /\ Append(q, c) \in Seq(S) /\ Append(q, c) # <<>>
           /\ Head(Append(q, c)) = Head(q) /\ Tail(Append(q, c)) = Append(Tail(q), c)
OBVIOUS

\* Two numbers that add up to nothing.
LEMMA NothingTwice == \A a, b \in Nat : a + b = 0 => a = 0 /\ b = 0
OBVIOUS

\* What a command to go to a state does to the kernel.
LEMMA KernelGoes ==
    ASSUME NEW s, Good(s), s.krn # <<>>, ~Collecting(s),
           NEW r, Took(r, s),
           NEW t, t = CommandOfKernel(r, Head(s.krn))
    PROVE  Conserves(t, s) /\ Good(t) /\ t.krn = <<>>
<1>1. Sound(s) /\ IsComp(s)
  BY DEF Good, Sound
<1>2. PICK st \in Stages :
        /\ Asked(s, st)
        /\ \/ AtRest(s) /\ s.cur = "Executing" /\ st = "Executing"
           \/ Moving(s) /\ st = s.param
           \/ Stopping(s) /\ st = "Idle" /\ Reporters(s) = 0
  <2>1. "Executing" \in Stages /\ "Idle" \in Stages
    BY DEF Stages
  <2>2. Moving(s) => s.param \in Stages
    BY DEF Moving, Ways, Stages
  <2>3. ~Accepted(s)
    BY DEF Accepted
  <2> QED BY <2>1, <2>2, <2>3 DEF Good, Phase, AtRest, Moving, Stopping, Quiet, Half
<1>3. s.krn = <<StateSet(st)>> /\ s.prc = <<StateSet(st)>>
  BY <1>2 DEF Asked
<1>4. /\ Sound(r) /\ Conserves(r, s) /\ Alike(r, s) /\ r.prc = <<StateSet(st)>> /\ r.krn = <<>>
  BY <1>1, <1>3, KernelTakes DEF Took
<1>5. Head(s.krn) = StateSet(st)
  BY <1>3
<1>6. t = StateSetOfKernel(r, st)
  <2>1. Head(s.krn).cmd = "StateSet" /\ Head(s.krn).param = st
    BY <1>5 DEF StateSet
  <2> QED BY <2>1 DEF CommandOfKernel
<1>7. IsComp(r)
  BY <1>4 DEF Sound
<1>8. /\ r.cur = s.cur /\ r.inProgress = s.inProgress /\ r.param = s.param
      /\ r.counted = s.counted /\ r.completions = s.completions
      /\ r.commands = s.commands /\ r.failed = s.failed
      /\ r.port[In].flushing = s.port[In].flushing /\ r.port[Out].flushing = s.port[Out].flushing
      /\ (\A p \in Ports : r.port[p].flushing = s.port[p].flushing)
      /\ HasDummy(r) => HasDummy(s)
  BY <1>4, TwoPorts DEF Alike
<1> HIDE DEF Good
<1>9. CASE AtRest(s) /\ s.cur = "Executing" /\ st = "Executing"
  <2>1. Moves(t, r)
    BY <1>6, <1>7, <1>8, <1>9, KernelRestarts
  <2>2. Conserves(t, s)
    BY <1>4, <2>1, ConservesTwice DEF Moves
  <2>3. /\ t.cur = "Executing" /\ t.inProgress = s.inProgress
        /\ t.counted = s.counted /\ t.completions = s.completions
        /\ t.commands = s.commands /\ t.failed = s.failed
        /\ t.krn = <<>> /\ t.prc = <<StateSet("Executing")>>
    BY <1>4, <1>8, <1>9, <2>1 DEF Moves, SameControl, SameRest
  <2>4. Flushing(t) = Flushing(s)
    BY <1>8, <2>1, TwoPorts DEF Moves, SameControl, SameRest, Flushing
  <2>5. Half(t, "Executing")
    <3>1. t.prc # <<>> /\ Head(t.prc) = StateSet("Executing") /\ Tail(t.prc) = <<>>
      BY <2>3, ListOfOne
    <3> QED BY <2>3, <3>1, FlushesOnly DEF Half
  <2>6. AtRest(t)
    BY <1>9, <2>3, <2>4, <2>5 DEF AtRest, Reports
  <2>7. Sound(t)
    BY <1>1, <1>9, <2>2, <2>3, SoundKept
  <2> QED BY <2>2, <2>3, <2>6, <2>7 DEF Good, Phase
<1>10. ASSUME Moving(s), st = s.param, Conserves(t, r),
              t.cur = s.cur, t.inProgress = s.inProgress, t.param = s.param,
              t.counted = s.counted,
              t.completions = Append(s.completions, [servant |-> "kernel", state |-> st]),
              t.commands = s.commands, t.krn = <<>>, t.prc = <<StateSet(st)>>,
              t.failed = s.failed,
              \A p \in Ports : t.port[p].flushing = s.port[p].flushing,
              HasDummy(t) => s.cur = "Pause"
       PROVE  Conserves(t, s) /\ Good(t) /\ t.krn = <<>>
  <2>1. Conserves(t, s)
    BY <1>4, <1>10, ConservesTwice
  <2>2. Sound(t)
    BY <1>1, <1>10, <2>1, SoundKept
  <2>3. Reports(t, t.param)
    <3>1. ASSUME NEW q \in Seq(Completions), \A i \in DOMAIN q : q[i].state = st
          PROVE  \A i \in DOMAIN Append(q, [servant |-> "kernel", state |-> st]) :
                    Append(q, [servant |-> "kernel", state |-> st])[i].state = st
      <4>1. DOMAIN Append(q, [servant |-> "kernel", state |-> st]) = 1 .. Len(q) + 1
            /\ DOMAIN q = 1 .. Len(q) /\ Len(q) \in Nat
        OBVIOUS
      <4> QED BY <3>1, <4>1
    <3>2. s.completions \in Seq(Completions) /\ Reports(s, st)
      BY <1>1, <1>10 DEF IsComp, Moving
    <3> QED BY <1>10, <3>1, <3>2 DEF Reports
  <2>4. Flushing(t) = Flushing(s)
    BY <1>10, TwoPorts DEF Flushing
  <2>5. Moving(t)
    BY <1>10, <2>3, <2>4 DEF Moving
  <2> QED BY <1>10, <2>1, <2>2, <2>5 DEF Good, Phase
<1>11. CASE Moving(s) /\ st = s.param
  <2>1. ~HasDummy(s) /\ <<s.cur, st>> \in Ways
    BY <1>3, <1>11 DEF Moving
  <2>2. CASE s.cur = "Idle" /\ st = "Executing"
    <3>1. Conserves(t, r) /\ Reporting(t, r, "kernel", "Executing")
      BY <1>4, <1>6, <1>7, <1>8, <2>2, KernelLeavesIdle DEF Sound
    <3> QED BY <1>4, <1>8, <1>10, <1>11, <2>1, <2>2, <3>1 DEF Reporting
  <2>3. CASE s.cur = "Executing" /\ st = "Pause"
    <3>1. Conserves(t, r) /\ Reporting(t, r, "kernel", "Pause")
      BY <1>6, <1>7, <1>8, <2>3, KernelPauses
    <3> QED BY <1>4, <1>8, <1>10, <1>11, <2>1, <2>3, <3>1 DEF Reporting
  <2>4. CASE s.cur = "Pause" /\ st = "Executing"
    <3>1. /\ Conserves(t, r)
          /\ t.cur = r.cur /\ t.inProgress = r.inProgress /\ t.param = r.param
          /\ t.counted = r.counted
          /\ t.completions = Append(r.completions, [servant |-> "kernel", state |-> "Executing"])
          /\ t.commands = r.commands /\ t.krn = r.krn /\ t.prc = r.prc
          /\ t.failed = r.failed
          /\ \A p \in Ports : t.port[p].flushing = r.port[p].flushing
      BY <1>6, <1>7, <1>8, <2>4, KernelResumes
    <3> QED BY <1>4, <1>8, <1>10, <1>11, <2>4, <3>1
  <2> QED BY <2>1, <2>2, <2>3, <2>4 DEF Ways
<1>12. CASE Stopping(s) /\ st = "Idle" /\ Reporters(s) = 0
  <2>1. ~HasDummy(r) /\ r.cur \in Stops
    BY <1>8, <1>12 DEF Stopping
  <2>2. /\ Conserves(t, r) /\ Cleared(t)
        /\ t.prc = Append(Append(r.prc, PortCommand("Flush", In)), PortCommand("Flush", Out))
        /\ t.cur = r.cur /\ t.inProgress = r.inProgress /\ t.param = r.param
        /\ t.counted = r.counted /\ t.commands = r.commands /\ t.krn = r.krn
        /\ t.failed = r.failed /\ ~HasDummy(t)
        /\ \A p \in Ports : t.port[p].flushing = r.port[p].flushing
        /\ t.completions = IF Returned(t)
             THEN Append(r.completions, [servant |-> "kernel", state |-> "Idle"])
             ELSE r.completions
    BY <1>6, <1>7, <1>12, <2>1, KernelStops
  <2>3. Conserves(t, s)
    BY <1>4, <2>2, ConservesTwice
  <2>4. Sound(t)
    BY <1>1, <1>8, <2>2, <2>3, SoundKept
  <2>5. t.prc # <<>> /\ Head(t.prc) = StateSet("Idle")
        /\ Tail(t.prc) = Append(Append(<<>>, PortCommand("Flush", In)), PortCommand("Flush", Out))
    <3>1. r.prc \in Seq(Messages) /\ r.prc = <<StateSet("Idle")>>
      BY <1>4, <1>7, <1>12 DEF IsComp
    <3>2. PortCommand("Flush", In) \in Messages /\ PortCommand("Flush", Out) \in Messages
      BY TwoPorts DEF Messages
    <3>3. r.prc # <<>> /\ Head(r.prc) = StateSet("Idle") /\ Tail(r.prc) = <<>>
      BY <3>1, ListOfOne
    <3>4. ASSUME NEW q \in Seq(Messages), q # <<>>, NEW c \in Messages, NEW d \in Messages
          PROVE  /\ Append(Append(q, c), d) # <<>>
                 /\ Head(Append(Append(q, c), d)) = Head(q)
                 /\ Tail(Append(Append(q, c), d)) = Append(Append(Tail(q), c), d)
      BY <3>4, AppendedLast
    <3>5. r.prc \in Seq(Messages)
      BY <3>1
    <3>6. /\ Append(Append(r.prc, PortCommand("Flush", In)), PortCommand("Flush", Out)) # <<>>
          /\ Head(Append(Append(r.prc, PortCommand("Flush", In)), PortCommand("Flush", Out))) = Head(r.prc)
          /\ Tail(Append(Append(r.prc, PortCommand("Flush", In)), PortCommand("Flush", Out))) =
                Append(Append(Tail(r.prc), PortCommand("Flush", In)), PortCommand("Flush", Out))
      BY <3>2, <3>3, <3>4, <3>5, Zenon
    <3> QED BY <2>2, <3>3, <3>6
  <2>6. Half(t, "Idle") /\ ~Quiet(t)
    <3>1. Tail(t.prc) \in Seq(FlushCommands)
      BY <2>5, FlushesOnly, TwoPorts
    <3>2. t.prc \notin Seq(FlushCommands)
      <4>1. ASSUME NEW q \in Seq(FlushCommands), q # <<>> PROVE Head(q) \in FlushCommands
        BY <4>1
      <4>2. StateSet("Idle") \notin FlushCommands
        BY DEF FlushCommands, StateSet, PortCommand
      <4> QED BY <2>5, <4>1, <4>2
    <3> QED BY <1>4, <2>2, <2>5, <3>1, <3>2 DEF Half, Quiet
  <2>7. /\ Len(s.completions) = 0 /\ Len(s.counted[s.cur]) = 0 /\ s.completions = <<>>
    <3>1. s.completions \in Seq(Completions) /\ s.counted[s.cur] \in Seq(Completions)
      <4>1. s.cur \in States
        BY <1>12 DEF Stopping, Stops, States, SubStates, MainStates
      <4> QED BY <1>1, <4>1 DEF IsComp
    <3>2. Len(s.completions) \in Nat /\ Len(s.counted[s.cur]) \in Nat
      BY <3>1
    <3>3. Len(s.counted[s.cur]) + Len(s.completions) = 0
      BY <1>12 DEF Reporters
    <3>4. Len(s.completions) = 0 /\ Len(s.counted[s.cur]) = 0
      BY <3>2, <3>3, NothingTwice
    <3> QED BY <3>1, <3>4, EmptySeq
  <2>8. Reporters(t) = (IF Quiet(t) THEN 1 ELSE 0) + (IF Returned(t) THEN 1 ELSE 0)
    <3>1. CASE Returned(t)
      <4>1. t.completions = Append(<<>>, [servant |-> "kernel", state |-> "Idle"])
        BY <1>8, <2>2, <2>7, <3>1
      <4>2. Len(t.completions) = 1
        BY <4>1, AppendedOne
      <4>3. Len(t.counted[t.cur]) = 0
        BY <1>8, <2>2, <2>7
      <4> QED BY <2>6, <3>1, <4>2, <4>3 DEF Reporters
    <3>2. CASE ~Returned(t)
      <4>1. Len(t.completions) = 0 /\ Len(t.counted[t.cur]) = 0
        BY <1>8, <2>2, <2>7, <3>2
      <4> QED BY <2>6, <3>2, <4>1 DEF Reporters
    <3> QED BY <3>1, <3>2
  <2>9. Reports(t, "Idle")
    <3>1. CASE Returned(t)
      <4>1. t.completions = Append(<<>>, [servant |-> "kernel", state |-> "Idle"])
        BY <1>8, <2>2, <2>7, <3>1
      <4> QED BY <4>1, AppendedOne DEF Reports
    <3>2. CASE ~Returned(t)
      <4>1. t.completions = <<>>
        BY <1>8, <2>2, <2>7, <3>2
      <4> QED BY <4>1 DEF Reports
    <3> QED BY <3>1, <3>2
  <2>10. Flushing(t) = Flushing(s)
    BY <1>8, <2>2, TwoPorts DEF Flushing
  <2>11. Stopping(t)
    BY <1>8, <1>12, <2>2, <2>6, <2>8, <2>9, <2>10 DEF Stopping
  <2> QED BY <1>4, <2>2, <2>3, <2>4, <2>11 DEF Good, Phase
<1> QED BY <1>2, <1>9, <1>11, <1>12

\* The message without a header only makes headers move.
LEMMA DummyServed ==
    ASSUME NEW s, Good(s), s.krn = <<>>, s.callbacks # <<>>, Head(s.callbacks) = DummyCallback,
           NEW t, t = CallbackOfKernel([s EXCEPT !.callbacks = Tail(@)], Head(s.callbacks))
    PROVE  Conserves(t, s) /\ Good(t) /\ t.krn = <<>>
<1> DEFINE r == [s EXCEPT !.callbacks = Tail(@)]
<1>1. Sound(s) /\ IsComp(s) /\ Phase(s)
  BY DEF Good, Sound
<1>2. /\ Tail(s.callbacks) \in Seq(Callbacks)
      /\ \A p \in Ports : Len(CarriedBy(Tail(s.callbacks), p)) = Released(s, p)
      /\ HasDummy(s)
  BY <1>1, DummyCarries
<1>3. ASSUME NEW q \in Seq(Callbacks), \A p \in Ports : Len(CarriedBy(q, p)) = Released(s, p),
             NEW u, u = [s EXCEPT !.callbacks = q]
      PROVE  Moves(u, s) /\ u.callbacks = q
  BY <1>1, <1>2, <1>3, DummyMoves
<1>4. r = [s EXCEPT !.callbacks = Tail(s.callbacks)]
  OBVIOUS
<1>5. Moves(r, s) /\ r.callbacks = Tail(s.callbacks)
  BY <1>2, <1>3, <1>4
<1>6. IsComp(r)
  BY <1>5 DEF Moves, Conserves
<1>7. t = FlushAllEgress(r) \/ t = [r EXCEPT !.callbacks = Append(r.callbacks, DummyCallback)]
  BY DEF CallbackOfKernel
<1> HIDE DEF r
<1>8. Moves(t, s)
  <2>1. CASE t = FlushAllEgress(r)
    <3>1. Moves(t, r)
      BY <1>6, <2>1, FlushAllEgressMoves
    <3> QED BY <1>5, <3>1, MovesTwice
  <2>2. CASE t = [r EXCEPT !.callbacks = Append(r.callbacks, DummyCallback)]
    <3>1. /\ Append(r.callbacks, DummyCallback) \in Seq(Callbacks)
          /\ \A p \in Ports : Len(CarriedBy(Append(r.callbacks, DummyCallback), p)) = Released(r, p)
      BY <1>6, DummyCarries
    <3>2. ASSUME NEW q \in Seq(Callbacks), \A p \in Ports : Len(CarriedBy(q, p)) = Released(r, p),
                 NEW u, u = [r EXCEPT !.callbacks = q]
          PROVE  Conserves(u, r) /\ u.cur = r.cur /\ u.inProgress = r.inProgress /\ u.param = r.param
                 /\ u.counted = r.counted /\ u.completions = r.completions
                 /\ u.commands = r.commands /\ u.krn = r.krn /\ u.prc = r.prc
                 /\ u.failed = r.failed /\ u.completion = r.completion /\ u.port = r.port
      <4>1. Conserves(u, r)
        BY <1>6, <3>2, DummyMoves
      <4> QED BY <1>6, <3>2, <4>1 DEF IsComp, Fields
    <3>3. /\ Conserves(t, r) /\ t.cur = r.cur /\ t.inProgress = r.inProgress /\ t.param = r.param
          /\ t.counted = r.counted /\ t.completions = r.completions
          /\ t.commands = r.commands /\ t.krn = r.krn /\ t.prc = r.prc
          /\ t.failed = r.failed /\ t.completion = r.completion /\ t.port = r.port
      BY <2>2, <3>1, <3>2
    <3>4. Conserves(t, s)
      BY <1>5, <3>3, ConservesTwice DEF Moves
    <3> QED BY <1>2, <1>5, <3>3, <3>4 DEF Moves, SameControl, SameRest
  <2> QED BY <1>7, <2>1, <2>2
<1>9. ~Stopping(s) /\ s.cur \notin Stops
  BY <1>1, <1>2 DEF Phase, AtRest, Accepted, Moving, Collecting, Stopping, Stages, Stops, Ways
<1>10. Sound(t) /\ Conserves(t, s) /\ t.krn = <<>>
  BY <1>1, <1>8, SoundKept DEF Moves, SameControl, SameRest
<1>11. Phase(t)
  BY <1>1, <1>8, <1>9, PhaseKept DEF Moves
<1> QED BY <1>10, <1>11 DEF Good

\* The counts cannot be below what they count.
LEMMA ClaimedIs ==
    ASSUME NEW s, Sound(s), NEW p \in Ports
    PROVE  s.port[p].claimed = Held(s, p) + Released(s, p) /\ s.port[p].claimed \in Nat
<1>1. /\ s.port[p].claimed \in Int /\ Held(s, p) \in Nat /\ Released(s, p) \in Nat
      /\ Rest(s.port[p].claimed, Held(s, p), Released(s, p)) = 0
  BY Numbers DEF Sound, Debt
<1>2. ASSUME NEW c \in Int, NEW a \in Nat, NEW b \in Nat, Rest(c, a, b) = 0
      PROVE  c = a + b /\ c \in Nat
  BY <1>2 DEF Rest
<1> QED BY <1>1, <1>2

\* While a port is being flushed, the flush is in progress.
LEMMA FlushingCollects ==
    ASSUME NEW s, IsComp(s), Phase(s), NEW p \in Ports, s.port[p].flushing
    PROVE  Collecting(s) /\ s.krn = <<>> /\ s.completion = Flushing(s)
<1>1. Flushing(s) # 0
  <2>1. p = In \/ p = Out
    BY TwoPorts
  <2>2. CASE p = In
    BY <2>2 DEF Flushing
  <2>3. CASE p = Out
    BY <2>3 DEF Flushing
  <2> QED BY <2>1, <2>2, <2>3
<1> QED BY <1>1 DEF Phase, AtRest, Accepted, Moving, Collecting, Stopping, Quiet

\* When the last header of a flushed port has come back, the flush of the port ends.
LEMMA FlushEnds ==
    ASSUME NEW s, Sound(s), Collecting(s), s.krn = <<>>, NEW p \in Ports, s.port[p].flushing,
           NEW t, t = CompletePortFlush(s, p)
    PROVE  Conserves(t, s) /\ Good(t) /\ t.krn = <<>> /\ t.cur = s.cur
<1>1. /\ s.inProgress = "Flush" /\ s.commands = <<>>
      /\ s.param \in Ports \cup {ALL}
      /\ s.cur \in {"Executing", "Pause"} /\ Reports(s, s.cur)
      /\ Quiet(s) /\ s.completion = Flushing(s) /\ Flushing(s) > 0
      /\ ~HasDummy(s)
  BY DEF Collecting
<1>2. IsComp(s)
  BY DEF Sound
<1>3. Conserves(t, s) /\ Ended(t, s, p)
  BY <1>1, <1>2, CompletePortFlushMoves
<1>4. /\ t.cur = s.cur /\ t.counted = s.counted /\ t.completions = s.completions
      /\ t.commands = s.commands /\ t.krn = s.krn /\ t.prc = s.prc /\ t.failed = s.failed
      /\ ~HasDummy(t)
      /\ t.completion = s.completion - 1
      /\ t.completion = 0 => t.inProgress = None /\ t.param = None
      /\ t.completion # 0 => t.inProgress = s.inProgress /\ t.param = s.param
  BY <1>1, <1>3 DEF Ended
<1>5. Flushing(s) = Flushing(t) + 1 /\ Flushing(t) \in {0, 1}
  <2>1. p = In \/ p = Out
    BY TwoPorts
  <2>2. CASE p = In
    <3>1. ~t.port[In].flushing /\ t.port[Out].flushing = s.port[Out].flushing
      BY <1>3, <2>2, TwoPorts DEF Ended
    <3> QED BY <2>2, <3>1 DEF Flushing
  <2>3. CASE p = Out
    <3>1. ~t.port[Out].flushing /\ t.port[In].flushing = s.port[In].flushing
      BY <1>3, <2>3, TwoPorts DEF Ended
    <3> QED BY <2>3, <3>1 DEF Flushing
  <2> QED BY <2>1, <2>2, <2>3
<1>6. t.completion = Flushing(t)
  BY <1>1, <1>4, <1>5
<1>7. Sound(t)
  BY <1>3, <1>4, SoundKept
<1>8. Quiet(t) /\ Reports(t, t.cur)
  BY <1>1, <1>4 DEF Quiet, Reports
<1>9. CASE Flushing(t) = 0
  <2>1. AtRest(t)
    BY <1>1, <1>4, <1>6, <1>8, <1>9 DEF AtRest, Stages
  <2> QED BY <1>3, <1>4, <1>7, <2>1 DEF Good, Phase
<1>10. CASE Flushing(t) = 1
  <2>2. t.completion = 1
    BY <1>6, <1>10
  <2>3. t.inProgress = "Flush" /\ t.param = s.param /\ Flushing(t) > 0
    BY <1>1, <1>4, <1>10, <2>2
  <2>4. Collecting(t)
    BY <1>1, <1>4, <1>6, <1>8, <2>3 DEF Collecting
  <2> QED BY <1>3, <1>4, <1>7, <2>4 DEF Good, Phase
<1> QED BY <1>5, <1>9, <1>10

\* The last header that a stop waits for has come back.
LEMMA StopReports ==
    ASSUME NEW s, Sound(s), Stopping(s), s.krn = <<>>, ~Returned(s),
           NEW u, Moves(u, s), Cleared(u), Returned(u),
           NEW t, t = CompleteTransition(ClearLists(u), "kernel", "Idle")
    PROVE  Conserves(t, s) /\ Good(t) /\ t.krn = <<>>
<1>1. /\ s.inProgress = "StateSet" /\ s.commands = <<>>
      /\ s.cur \in Stops /\ s.param = "Idle" /\ Reports(s, "Idle")
      /\ Flushing(s) = 0
      /\ Quiet(s) \/ Half(s, "Idle")
      /\ Reporters(s) = IF Quiet(s) THEN 1 ELSE 0
      /\ ~HasDummy(s)
  <2>1. ~Asked(s, "Idle")
    BY DEF Asked
  <2>2. Reporters(s) = (IF Quiet(s) THEN 1 ELSE 0) + (IF Returned(s) THEN 1 ELSE 0)
    BY <2>1 DEF Stopping
  <2> QED BY <2>1, <2>2 DEF Stopping
<1>2. IsComp(s) /\ IsComp(u) /\ u.cur \in Stops
  BY <1>1 DEF Sound, Moves, Conserves, SameControl, SameRest
<1>3. ASSUME NEW v, v = ClearLists(u), NEW w, w = CompleteTransition(v, "kernel", "Idle")
      PROVE  /\ Conserves(w, u) /\ Reporting(w, u, "kernel", "Idle")
             /\ w.ingress = u.ingress /\ w.egress = u.egress /\ w.efb = u.efb /\ w.port = u.port
  <2>1. u.ingress[In] = <<>> /\ u.egress[In] = <<>>
    BY TwoPorts DEF Cleared
  <2>2. /\ Moves(v, u) /\ v.ingress = u.ingress /\ v.egress = u.egress
        /\ v.efb = u.efb /\ v.port = u.port
    BY <1>2, <1>3, <2>1, ClearListsMoves
  <2>3. IsComp(v)
    BY <2>2 DEF Moves, Conserves
  <2>4. /\ Conserves(w, v) /\ Reporting(w, v, "kernel", "Idle")
        /\ w.ingress = v.ingress /\ w.egress = v.egress /\ w.efb = v.efb /\ w.port = v.port
    BY <1>3, <2>3, CompleteTransitionReports DEF Stages
  <2>5. Reporting(w, u, "kernel", "Idle")
    BY <2>2, <2>4 DEF Moves, SameControl, SameRest, Reporting
  <2> QED BY <2>2, <2>4, <2>5, ConservesTwice DEF Moves
<1>4. /\ Conserves(t, u) /\ Reporting(t, u, "kernel", "Idle")
      /\ t.ingress = u.ingress /\ t.egress = u.egress /\ t.efb = u.efb /\ t.port = u.port
  BY <1>3
<1>5. Reporting(t, s, "kernel", "Idle")
  BY <1>4 DEF Moves, SameControl, SameRest, Reporting
<1>6. Conserves(t, s)
  BY <1>4, ConservesTwice DEF Moves
<1>7. /\ t.cur = s.cur /\ t.inProgress = s.inProgress /\ t.param = s.param
      /\ t.counted = s.counted /\ t.commands = s.commands /\ t.krn = s.krn /\ t.prc = s.prc
      /\ t.failed = s.failed
      /\ t.port[In].flushing = s.port[In].flushing /\ t.port[Out].flushing = s.port[Out].flushing
      /\ HasDummy(t) => HasDummy(s)
  BY <1>5, TwoPorts DEF Reporting
<1>8. Sound(t)
  BY <1>6, <1>7, SoundKept
<1>9. Cleared(t) /\ Returned(t)
  BY <1>4 DEF Cleared, Returned
<1>10. Reports(t, "Idle") /\ Len(t.completions) = Len(s.completions) + 1
  BY <1>1, <1>2, <1>5, ReportsMore
<1>11. Reporters(t) = Reporters(s) + 1
  <2>1. Len(s.completions) \in Nat /\ Len(s.counted[s.cur]) \in Nat
    <3>1. s.cur \in States
      BY <1>1 DEF Stops, States, SubStates
    <3>2. s.completions \in Seq(Completions) /\ s.counted[s.cur] \in Seq(Completions)
      BY <1>2, <3>1 DEF IsComp
    <3> QED BY <3>2
  <2>2. ASSUME NEW a \in Nat, NEW b \in Nat PROVE a + (b + 1) = (a + b) + 1
    OBVIOUS
  <2> QED BY <1>7, <1>10, <2>1, <2>2 DEF Reporters
<1>12. (Quiet(t) <=> Quiet(s)) /\ (Half(t, "Idle") <=> Half(s, "Idle")) /\ Flushing(t) = Flushing(s)
  BY <1>7 DEF Quiet, Half, Flushing
<1>13. Stopping(t)
  BY <1>1, <1>7, <1>9, <1>10, <1>11, <1>12 DEF Stopping
<1> QED BY <1>6, <1>7, <1>8, <1>13 DEF Good, Phase

\* What becomes of a callback when left has no header of p with the processor.
Left(cur, left, p) ==
    LET flushed == IF left.port[p].flushing THEN CompletePortFlush(left, p) ELSE left
    IN  IF AllBuffersReturned(left.port) /\ cur \in Stops
        THEN CompleteTransition(ClearLists(ForgetEos(flushed)), "kernel", "Idle")
        ELSE ForgetEos(flushed)

\* What becomes of a callback that goes to its list in kept, and leaves it in left.
Becomes(r, m, kept, left) ==
    LET waits == /\ r.cur = "Pause"
                 /\ ~r.port[IF m = DummyCallback THEN FirstPort ELSE m.port].flushing
    IN  CASE m = DummyCallback /\ waits ->
                [r EXCEPT !.callbacks = Append(@, DummyCallback)]
          [] m = DummyCallback /\ ~waits -> FlushAllEgress(r)
          [] m # DummyCallback /\ waits -> kept
          [] m # DummyCallback /\ ~waits /\ left.port[m.port].claimed > 0 -> left
          [] OTHER -> Left(r.cur, left, m.port)

\* The callback of a header.
LEMMA CallbackIs ==
    ASSUME NEW r, NEW m, m # DummyCallback
    PROVE  CallbackOfKernel(r, m) =
            IF r.cur = "Pause" /\ ~r.port[m.port].flushing THEN Kept(r, m)
            ELSE IF FlushAllEgress(Kept(r, m)).port[m.port].claimed > 0
            THEN FlushAllEgress(Kept(r, m))
            ELSE Left(r.cur, FlushAllEgress(Kept(r, m)), m.port)
<1>1. CallbackOfKernel(r, m) = Becomes(r, m, Kept(r, m), FlushAllEgress(Kept(r, m)))
  BY ZenonT(30) DEF CallbackOfKernel, Becomes, Kept, Left, Stops
<1>2. ASSUME NEW kept, NEW left
      PROVE  Becomes(r, m, kept, left) =
                IF r.cur = "Pause" /\ ~r.port[m.port].flushing THEN kept
                ELSE IF left.port[m.port].claimed > 0 THEN left
                ELSE Left(r.cur, left, m.port)
  <2>1. CASE r.cur = "Pause" /\ ~r.port[m.port].flushing
    BY <2>1 DEF Becomes
  <2>2. CASE ~(r.cur = "Pause" /\ ~r.port[m.port].flushing)
    BY <2>2 DEF Becomes
  <2> QED BY <2>1, <2>2
<1> QED BY <1>1, <1>2

\* The header of a callback goes to its list, and from there to the client
\* unless the component is paused.
LEMMA CallbackServed ==
    ASSUME NEW s, Good(s), s.krn = <<>>, s.callbacks # <<>>, Head(s.callbacks) # DummyCallback,
           NEW t, t = CallbackOfKernel([s EXCEPT !.callbacks = Tail(@)], Head(s.callbacks))
    PROVE  Conserves(t, s) /\ Good(t) /\ t.krn = <<>>
<1> DEFINE m == Head(s.callbacks)
           p == Head(s.callbacks).port
           r == [s EXCEPT !.callbacks = Tail(@)]
           kept == Listed(s)
           left == FlushAllEgress(kept)
           flushed == IF left.port[p].flushing THEN CompletePortFlush(left, p) ELSE left
           waits == s.cur = "Pause" /\ ~s.port[p].flushing
<1>1. Sound(s) /\ IsComp(s) /\ Phase(s)
  BY DEF Good, Sound
<1>2. DOMAIN s = Fields
  BY <1>1 DEF IsComp
<1>3. r.cur = s.cur /\ r.port = s.port
  BY <1>2 DEF Fields
<1>4. t = IF waits THEN kept
          ELSE IF left.port[p].claimed > 0 THEN left
          ELSE IF AllBuffersReturned(left.port) /\ s.cur \in Stops
          THEN CompleteTransition(ClearLists(ForgetEos(flushed)), "kernel", "Idle")
          ELSE ForgetEos(flushed)
  <2>1. kept = Kept(r, m) /\ t = CallbackOfKernel(r, m)
    BY DEF Listed
  <2> HIDE DEF r
  <2>2. t = IF r.cur = "Pause" /\ ~r.port[m.port].flushing THEN Kept(r, m)
            ELSE IF FlushAllEgress(Kept(r, m)).port[m.port].claimed > 0
            THEN FlushAllEgress(Kept(r, m))
            ELSE Left(r.cur, FlushAllEgress(Kept(r, m)), m.port)
    BY <2>1, CallbackIs
  <2> QED BY <1>3, <2>1, <2>2 DEF Left
<1>5. /\ Moves(kept, s) /\ p \in Ports
      /\ s.port[p].claimed = kept.port[p].claimed + 1
      /\ \A q \in Ports : q # p => kept.port[q] = s.port[q] /\ kept.egress[q] = s.egress[q]
      /\ kept.ingress = s.ingress /\ kept.efb = s.efb
  BY <1>1, KeptMoves
<1> HIDE DEF kept, p, m
<1>6. IsComp(kept)
  BY <1>5 DEF Moves, Conserves
<1>7. /\ Moves(left, kept) /\ \A q \in Ports : left.egress[q] = <<>>
      /\ left.ingress = kept.ingress /\ left.efb = kept.efb /\ left.port = kept.port
  BY <1>6, FlushAllEgressMoves
<1> HIDE DEF left
<1>8. Moves(left, s) /\ IsComp(left)
  BY <1>5, <1>7, MovesTwice DEF Moves, Conserves
<1>9. Sound(kept) /\ Sound(left)
  BY <1>1, <1>5, <1>8, SoundKept DEF Moves, SameControl, SameRest
<1>10. s.port[p].claimed > 0 /\ ~Returned(s) /\ left.port[p].claimed \in Nat
  <2>1. kept.port[p].claimed \in Nat /\ left.port[p].claimed \in Nat
    BY <1>5, <1>9, ClaimedIs
  <2>2. s.port[p].claimed > 0
    BY <1>5, <2>1
  <2> QED BY <1>5, <2>1, <2>2 DEF Returned
<1>11. s.krn = <<>> /\ kept.krn = <<>> /\ left.krn = <<>> /\ left.cur = s.cur /\ kept.cur = s.cur
  BY <1>5, <1>8 DEF Moves, SameControl, SameRest
<1>12. Cleared(s) => Cleared(left)
  BY <1>5, <1>7 DEF Cleared
<1>13. left.port[p].flushing = s.port[p].flushing
  BY <1>5, <1>8 DEF Moves, SameControl, SameRest
<1>14. CASE waits
  <2>1. t = kept
    BY <1>4, <1>14
  <2>2. s.cur \notin Stops
    BY <1>14 DEF Stops
  <2>3. Phase(kept)
    BY <1>1, <1>5, <2>2, PhaseKept DEF Moves
  <2> QED BY <1>5, <1>9, <1>11, <2>1, <2>3 DEF Good, Moves
<1>15. ASSUME ~Returned(left) PROVE Conserves(left, s) /\ Good(left) /\ left.krn = <<>>
  <2>1. Phase(left)
    BY <1>1, <1>8, <1>10, <1>12, <1>15, PhaseKept DEF Moves
  <2> QED BY <1>8, <1>9, <1>11, <2>1 DEF Good, Moves
<1>16. CASE ~waits /\ left.port[p].claimed > 0
  <2>1. t = left
    BY <1>4, <1>16
  <2>2. ~Returned(left)
    BY <1>5, <1>16 DEF Returned
  <2> QED BY <1>15, <2>1, <2>2
<1>17. AllBuffersReturned(left.port) <=> Returned(left)
  BY <1>8, ReturnedIs
<1>18. ASSUME NEW u, Conserves(u, s), Good(u), u.krn = <<>>, u.cur \notin Stops \/ ~Returned(u)
       PROVE  Conserves(ForgetEos(u), s) /\ Good(ForgetEos(u)) /\ ForgetEos(u).krn = <<>>
  <2> DEFINE v == ForgetEos(u)
  <2>1. IsComp(u) /\ Phase(u) /\ Sound(u)
    BY <1>18 DEF Good, Sound
  <2>2. /\ Moves(v, u) /\ v.ingress = u.ingress /\ v.egress = u.egress
        /\ v.efb = u.efb /\ v.port = u.port
    BY <2>1, ForgetEosMoves
  <2> HIDE DEF v
  <2>3. Sound(v) /\ v.krn = <<>> /\ Conserves(v, s)
    BY <1>18, <2>1, <2>2, SoundKept, ConservesTwice DEF Moves, SameControl, SameRest
  <2>4. Phase(v)
    <3>1. (Cleared(u) => Cleared(v)) /\ (Returned(v) <=> Returned(u))
      BY <2>2 DEF Cleared, Returned
    <3> QED BY <2>1, <2>2, <3>1, PhaseKept DEF Moves
  <2> QED BY <2>3, <2>4 DEF Good, v
<1>19. CASE ~waits /\ ~(left.port[p].claimed > 0) /\ left.port[p].flushing
  <2>1. Collecting(s) /\ s.cur \in {"Executing", "Pause"} /\ s.cur \notin Stops
    <3>1. Collecting(s)
      BY <1>1, <1>5, <1>13, <1>19, FlushingCollects
    <3> QED BY <3>1 DEF Collecting, Stops
  <2>2. Phase(left)
    BY <1>1, <1>8, <2>1, PhaseKept DEF Moves
  <2>3. Collecting(left)
    BY <1>5, <1>8, <1>19, <2>2, FlushingCollects
  <2>4. flushed = CompletePortFlush(left, p)
    BY <1>19
  <2> HIDE DEF flushed
  <2>5. Conserves(flushed, left) /\ Good(flushed) /\ flushed.krn = <<>> /\ flushed.cur = left.cur
    BY <1>5, <1>9, <1>11, <1>19, <2>3, <2>4, FlushEnds
  <2>6. Conserves(flushed, s)
    BY <1>8, <2>5, ConservesTwice DEF Moves
  <2>7. t = ForgetEos(flushed)
    BY <1>4, <1>19, <2>1
  <2> QED BY <1>11, <1>18, <2>1, <2>5, <2>6, <2>7
<1>20. CASE ~waits /\ ~(left.port[p].claimed > 0) /\ ~left.port[p].flushing
  <2>1. flushed = left
    BY <1>20
  <2> HIDE DEF flushed
  <2>2. CASE Returned(left) /\ s.cur \in Stops
    <3>1. t = CompleteTransition(ClearLists(ForgetEos(left)), "kernel", "Idle")
      BY <1>4, <1>17, <1>20, <2>1, <2>2
    <3>2. Stopping(s) /\ Cleared(s)
      <4>1. Stopping(s)
        BY <1>1, <2>2 DEF Phase, AtRest, Accepted, Moving, Collecting, Stages, Stops, Ways
      <4>2. ~Asked(s, "Idle")
        BY <1>11 DEF Asked
      <4> QED BY <4>1, <4>2 DEF Stopping
    <3>3. ASSUME NEW u, u = ForgetEos(left)
          PROVE  Moves(u, s) /\ Cleared(u) /\ Returned(u)
      <4>1. /\ Moves(u, left) /\ u.ingress = left.ingress /\ u.egress = left.egress
            /\ u.efb = left.efb /\ u.port = left.port
        BY <1>8, <3>3, ForgetEosMoves
      <4>2. Moves(u, s)
        BY <1>8, <4>1, MovesTwice
      <4> QED BY <1>12, <2>2, <3>2, <4>1, <4>2 DEF Cleared, Returned
    <3>4. ASSUME NEW u, Moves(u, s), Cleared(u), Returned(u),
                 NEW v, v = CompleteTransition(ClearLists(u), "kernel", "Idle")
          PROVE  Conserves(v, s) /\ Good(v) /\ v.krn = <<>>
      BY <1>1, <1>10, <1>11, <3>2, <3>4, StopReports
    <3> QED BY <3>1, <3>3, <3>4
  <2>3. CASE ~(Returned(left) /\ s.cur \in Stops)
    <3>1. t = ForgetEos(left)
      BY <1>4, <1>17, <1>20, <2>1, <2>3
    <3>2. Conserves(left, s) /\ Good(left) /\ left.krn = <<>>
      <4>1. CASE ~Returned(left)
        BY <1>15, <4>1
      <4>2. CASE s.cur \notin Stops
        <5>1. Phase(left)
          BY <1>1, <1>8, <4>2, PhaseKept DEF Moves
        <5> QED BY <1>8, <1>9, <1>11, <5>1 DEF Good, Moves
      <4> QED BY <2>3, <4>1, <4>2
    <3> QED BY <1>11, <1>18, <2>3, <3>1, <3>2
  <2> QED BY <2>2, <2>3
<1> QED BY <1>14, <1>16, <1>19, <1>20

\* The turn of the kernel.
KernelStep(s) ==
    IF s.krn # <<>> THEN CommandOfKernel([s EXCEPT !.krn = Tail(@)], Head(s.krn))
    ELSE IF s.callbacks # <<>>
    THEN CallbackOfKernel([s EXCEPT !.callbacks = Tail(@)], Head(s.callbacks))
    ELSE IF s.efb # <<>> THEN EmptyOrFill([s EXCEPT !.efb = Tail(@)], Head(s.efb))
    ELSE s

\* It conserves the headers, whatever the kernel has to do.
LEMMA KernelServes ==
    ASSUME NEW s, Good(s), NEW t, t = KernelStep(s)
    PROVE  Conserves(t, s) /\ Good(t) /\ t.krn = <<>>
<1>1. Sound(s) /\ IsComp(s) /\ Phase(s)
  BY DEF Good, Sound
<1>2. CASE s.krn # <<>>
  <2> DEFINE r == [s EXCEPT !.krn = Tail(@)]
  <2>1. t = CommandOfKernel(r, Head(s.krn))
    BY <1>2 DEF KernelStep
  <2>2. CASE Collecting(s)
    BY <1>1, <1>2, <2>1, <2>2, KernelFlushes
  <2>3. CASE ~Collecting(s)
    <3>1. Took(r, s)
      BY DEF Took
    <3> HIDE DEF r
    <3> QED BY <1>2, <2>1, <2>3, <3>1, KernelGoes
  <2> QED BY <2>2, <2>3
<1>3. CASE s.krn = <<>> /\ s.callbacks # <<>>
  <2>1. t = CallbackOfKernel([s EXCEPT !.callbacks = Tail(@)], Head(s.callbacks))
    BY <1>3 DEF KernelStep
  <2>2. CASE Head(s.callbacks) = DummyCallback
    BY <1>3, <2>1, <2>2, DummyServed
  <2>3. CASE Head(s.callbacks) # DummyCallback
    BY <1>3, <2>1, <2>3, CallbackServed
  <2> QED BY <2>2, <2>3
<1>4. CASE s.krn = <<>> /\ s.callbacks = <<>> /\ s.efb # <<>>
  <2>1. t = EmptyOrFill([s EXCEPT !.efb = Tail(@)], Head(s.efb))
    BY <1>4 DEF KernelStep
  <2>2. Moves(t, s)
    BY <1>1, <1>4, <2>1, EmptyOrFillMoves DEF Sound
  <2>3. ~Cleared(s)
    BY <1>4 DEF Cleared
  <2>4. Phase(t)
    BY <1>1, <2>2, <2>3, PhaseKept DEF Moves
  <2>5. Conserves(t, s) /\ t.cur = s.cur /\ t.counted = s.counted /\ t.failed = s.failed
        /\ t.krn = <<>>
    BY <1>4, <2>2 DEF Moves, SameControl, SameRest
  <2>6. Sound(t)
    BY <1>1, <2>5, SoundKept
  <2> QED BY <2>4, <2>5, <2>6 DEF Good
<1>5. CASE s.krn = <<>> /\ s.callbacks = <<>> /\ s.efb = <<>>
  <2>1. t = s
    BY <1>5 DEF KernelStep
  <2>2. Moves(s, s)
    BY <1>1, MovesSelf
  <2> QED BY <1>5, <2>1, <2>2 DEF Moves
<1> QED BY <1>2, <1>3, <1>4, <1>5

-----------------------------------------------------------------------------
(* The turn of the processor                                               *)

\* r is s after the processor has taken its command.
Takes(r, s) == r = [s EXCEPT !.prc = Tail(@)]

\* Nothing else has changed then.
LEMMA ProcessorTakes ==
    ASSUME NEW s, Sound(s), s.prc # <<>>, NEW r, Takes(r, s)
    PROVE  /\ Conserves(r, s) /\ SameRest(r, s) /\ Sound(r) /\ r.prc = Tail(s.prc)
           /\ r.ingress = s.ingress /\ r.egress = s.egress /\ r.efb = s.efb /\ r.port = s.port
<1>1. IsComp(s)
  BY DEF Sound
<1>2. Tail(s.prc) \in Seq(Messages)
  BY <1>1 DEF IsComp
<1>3. /\ IsComp(r) /\ SameHeaders(r, s) /\ SameRest(r, s) /\ r.prc = Tail(s.prc)
      /\ r.ingress = s.ingress /\ r.egress = s.egress /\ r.efb = s.efb /\ r.port = s.port
  BY <1>1, <1>2 DEF Takes, IsComp, Fields, SameHeaders, SameRest, HasDummy
<1>4. Conserves(r, s)
  BY <1>3, SameHeadersConserve
<1>5. Sound(r)
  BY <1>3, <1>4, SoundKept DEF SameRest
<1> QED BY <1>3, <1>4, <1>5

\* A flush: the processor gives back what it holds of the port.
LEMMA ProcessorFlushes ==
    ASSUME NEW s, Good(s), Quiet(s), s.prc # <<>>, NEW r, Takes(r, s),
           NEW t, t = CommandOfProcessor(r, Head(s.prc))
    PROVE  Conserves(t, s) /\ Good(t) /\ Quiet(t)
<1>1. Sound(s) /\ Phase(s) /\ s.krn = <<>> /\ s.prc \in Seq(FlushCommands)
  BY DEF Good, Quiet
<1>2. /\ Conserves(r, s) /\ SameRest(r, s) /\ Sound(r) /\ r.prc = Tail(s.prc)
      /\ r.ingress = s.ingress /\ r.egress = s.egress /\ r.efb = s.efb /\ r.port = s.port
  BY <1>1, ProcessorTakes
<1>3. Head(s.prc) \in FlushCommands /\ Tail(s.prc) \in Seq(FlushCommands)
  BY <1>1
<1>4. PICK p \in Ports : Head(s.prc) = PortCommand("Flush", p)
  BY <1>3 DEF FlushCommands
<1>5. t = ReleaseHeld(r, p)
  <2>1. Head(s.prc).cmd = "Flush" /\ Head(s.prc).param = p
    BY <1>4 DEF PortCommand
  <2> QED BY <2>1, Zenon DEF CommandOfProcessor
<1>6. /\ Moves(t, r)
      /\ t.ingress = r.ingress /\ t.egress = r.egress /\ t.efb = r.efb /\ t.port = r.port
  <2>1. IsComp(r)
    BY <1>2 DEF Sound
  <2> QED BY <1>5, <2>1, ReleaseHeldMoves
<1>7. Conserves(t, s)
  BY <1>2, <1>6, ConservesTwice DEF Moves
<1>8. /\ t.cur = s.cur /\ t.inProgress = s.inProgress /\ t.param = s.param
      /\ t.counted = s.counted /\ t.completions = s.completions
      /\ t.commands = s.commands /\ t.krn = <<>> /\ t.prc = Tail(s.prc)
      /\ t.completion = s.completion /\ t.failed = s.failed
      /\ t.port = s.port /\ t.ingress = s.ingress /\ t.egress = s.egress /\ t.efb = s.efb
      /\ HasDummy(t) => HasDummy(s)
  BY <1>1, <1>2, <1>6 DEF Moves, SameControl, SameRest
<1>9. Sound(t)
  BY <1>1, <1>7, <1>8, SoundKept
<1>10. Quiet(t)
  BY <1>3, <1>8 DEF Quiet
<1>11. /\ Flushing(t) = Flushing(s) /\ (Returned(t) <=> Returned(s)) /\ (Cleared(t) <=> Cleared(s))
       /\ \A st : Reports(t, st) <=> Reports(s, st)
  BY <1>8, SMTT(30) DEF Flushing, Returned, Cleared, Reports
<1>12. CASE AtRest(s)
  <2>1. AtRest(t)
    BY <1>8, <1>10, <1>11, <1>12 DEF AtRest
  <2> QED BY <1>7, <1>9, <1>10, <2>1 DEF Good, Phase
<1>13. CASE Collecting(s)
  <2>1. Collecting(t)
    <3>1. s.completion = Flushing(s) /\ Flushing(s) > 0
      BY <1>1, <1>13 DEF Collecting
    <3> QED BY <1>8, <1>10, <1>11, <1>13, <3>1 DEF Collecting
  <2> QED BY <1>7, <1>9, <1>10, <2>1 DEF Good, Phase
<1>14. CASE Stopping(s)
  <2>1. ~Asked(s, "Idle")
    BY <1>1 DEF Asked
  <2>2. Cleared(s) /\ Reporters(s) = (IF Quiet(s) THEN 1 ELSE 0) + (IF Returned(s) THEN 1 ELSE 0)
    BY <1>14, <2>1 DEF Stopping
  <2>3. Reporters(t) = Reporters(s)
    BY <1>8 DEF Reporters
  <2>4. Stopping(t)
    BY <1>8, <1>10, <1>11, <1>14, <2>2, <2>3 DEF Stopping
  <2> QED BY <1>7, <1>9, <1>10, <2>4 DEF Good, Phase
<1>15. ~Accepted(s)
  BY DEF Accepted
<1>16. ~Moving(s)
  <2>1. ASSUME NEW st, s.prc = <<StateSet(st)>> PROVE FALSE
    <3>1. Head(s.prc) = StateSet(st)
      BY <2>1, ListOfOne
    <3> QED BY <1>4, <3>1 DEF StateSet, PortCommand
  <2> QED BY <1>1, <2>1 DEF Moving, Asked
<1> QED BY <1>1, <1>12, <1>13, <1>14, <1>15, <1>16 DEF Phase

\* What a command to go to a state does to the processor: it reports that it has.
LEMMA ProcessorReports ==
    ASSUME NEW r, IsComp(r), NEW st \in Stages,
           \/ r.cur = "Executing" /\ st = "Executing"
           \/ <<r.cur, st>> \in Ways
           \/ r.cur \in Stops /\ st = "Idle",
           NEW t, t = CommandOfProcessor(r, StateSet(st))
    PROVE  /\ Conserves(t, r) /\ Reporting(t, r, "processor", st)
           /\ t.ingress = r.ingress /\ t.egress = r.egress /\ t.efb = r.efb /\ t.port = r.port
<1>1. StateSet(st).cmd = "StateSet" /\ StateSet(st).param = st
  BY DEF StateSet
<1>2. <<Reported(r.cur), st>> \in Transitions
  BY DEF Transitions, Reported, Ways, Stops
<1>3. r.cur \in Stops => st = "Idle"
  BY DEF Ways, Stops
<1>4. ASSUME NEW v, Moves(v, r), v.ingress = r.ingress, v.egress = r.egress, v.efb = r.efb,
             v.port = r.port, NEW u, u = ProcessorStateSet(v, st)
      PROVE  /\ Conserves(u, r) /\ Reporting(u, r, "processor", st)
             /\ u.ingress = r.ingress /\ u.egress = r.egress /\ u.efb = r.efb /\ u.port = r.port
  <2>1. v.cur = r.cur /\ IsComp(v)
    BY <1>4 DEF Moves, SameControl, SameRest, Conserves
  <2>2. u = CompleteTransition(v, "processor", st)
    BY <1>2, <1>4, <2>1 DEF ProcessorStateSet
  <2>3. /\ Conserves(u, v) /\ Reporting(u, v, "processor", st)
        /\ u.ingress = v.ingress /\ u.egress = v.egress /\ u.efb = v.efb /\ u.port = v.port
    BY <1>3, <2>1, <2>2, CompleteTransitionReports
  <2>4. Reporting(u, r, "processor", st)
    BY <1>4, <2>3 DEF Moves, SameControl, SameRest, Reporting
  <2> QED BY <1>4, <2>3, <2>4, ConservesTwice DEF Moves
<1>5. CASE st = "Idle"
  <2>1. t = ProcessorStateSet(ForEachPort(ReleaseHeld, r), st)
    BY <1>1, <1>5 DEF CommandOfProcessor
  <2>2. ASSUME NEW v, v = ForEachPort(ReleaseHeld, r)
        PROVE  /\ Moves(v, r)
               /\ v.ingress = r.ingress /\ v.egress = r.egress /\ v.efb = r.efb /\ v.port = r.port
    BY <2>2, ReleaseBothMoves
  <2> QED BY <1>4, <2>1, <2>2
<1>6. CASE r.cur = "Idle" /\ st = "Executing"
  <2>1. t = ProcessorStateSet([r EXCEPT !.packets = 0], st)
    BY <1>1, <1>6 DEF CommandOfProcessor, Reported
  <2>2. ASSUME NEW v, v = [r EXCEPT !.packets = 0]
        PROVE  /\ Moves(v, r)
               /\ v.ingress = r.ingress /\ v.egress = r.egress /\ v.efb = r.efb /\ v.port = r.port
    <3>1. Moves(v, r)
      BY <2>2, PacketsMove
    <3> QED BY <2>2, <3>1 DEF IsComp, Fields
  <2> QED BY <1>4, <2>1, <2>2
<1>7. CASE st # "Idle" /\ ~(r.cur = "Idle" /\ st = "Executing")
  <2>1. Reported(r.cur) = "Idle" => r.cur = "Idle"
    <3>1. r.cur \in Stages \cup Stops
      BY DEF IsComp
    <3> QED BY <3>1 DEF Reported, Stages, Stops
  <2>2. t = ProcessorStateSet(r, st)
    BY <1>1, <1>7, <2>1 DEF CommandOfProcessor
  <2>3. Moves(r, r)
    BY MovesSelf
  <2> QED BY <1>4, <2>2, <2>3
<1> QED BY <1>5, <1>6, <1>7

\* The processor's part of a transition.
LEMMA ProcessorGoes ==
    ASSUME NEW s, Good(s), s.krn = <<>>, ~Quiet(s), NEW r, Takes(r, s),
           NEW t, t = CommandOfProcessor(r, Head(s.prc))
    PROVE  Conserves(t, s) /\ Good(t) /\ Quiet(t)
<1>1. Sound(s) /\ IsComp(s) /\ Phase(s)
  BY DEF Good, Sound
<1>2. PICK st \in Stages :
        /\ s.prc # <<>> /\ Head(s.prc) = StateSet(st) /\ Tail(s.prc) \in Seq(FlushCommands)
        /\ \/ AtRest(s) /\ s.cur = "Executing" /\ st = "Executing"
           \/ Moving(s) /\ st = s.param /\ <<s.cur, st>> \in Ways /\ Tail(s.prc) = <<>>
           \/ Stopping(s) /\ st = "Idle" /\ s.cur \in Stops
  <2>1. <<>> \in Seq(FlushCommands)
    BY FlushesOnly
  <2>2. s.prc # <<>>
    BY <2>1 DEF Quiet
  <2>3. CASE AtRest(s)
    <3>1. s.cur = "Executing" /\ Half(s, "Executing")
      BY <2>3 DEF AtRest, Asked
    <3> QED BY <2>2, <2>3, <3>1 DEF Half, Stages
  <2>4. CASE Moving(s)
    <3>1. s.prc = <<StateSet(s.param)>> /\ <<s.cur, s.param>> \in Ways
      BY <2>2, <2>4 DEF Moving, Asked
    <3>2. s.param \in Stages
      BY <3>1 DEF Ways, Stages
    <3>3. Head(s.prc) = StateSet(s.param) /\ Tail(s.prc) = <<>>
      BY <3>1, ListOfOne
    <3> QED BY <2>1, <2>2, <2>4, <3>1, <3>2, <3>3
  <2>5. CASE Stopping(s)
    <3>1. Half(s, "Idle") /\ s.cur \in Stops
      BY <2>5 DEF Stopping, Asked
    <3> QED BY <2>2, <2>5, <3>1 DEF Half, Stages
  <2>6. ~Collecting(s) /\ ~Accepted(s)
    BY <2>2 DEF Collecting, Accepted
  <2> QED BY <1>1, <2>3, <2>4, <2>5, <2>6 DEF Phase
<1>3. /\ Conserves(r, s) /\ SameRest(r, s) /\ Sound(r) /\ r.prc = Tail(s.prc)
      /\ r.ingress = s.ingress /\ r.egress = s.egress /\ r.efb = s.efb /\ r.port = s.port
  BY <1>1, <1>2, ProcessorTakes
<1>4. /\ Conserves(t, r) /\ Reporting(t, r, "processor", st)
      /\ t.ingress = r.ingress /\ t.egress = r.egress /\ t.efb = r.efb /\ t.port = r.port
  <2>1. t = CommandOfProcessor(r, StateSet(st)) /\ r.cur = s.cur /\ IsComp(r)
    BY <1>2, <1>3 DEF SameRest, Sound
  <2> QED BY <1>2, <2>1, ProcessorReports
<1>5. /\ t.cur = s.cur /\ t.inProgress = s.inProgress /\ t.param = s.param
      /\ t.counted = s.counted /\ t.commands = s.commands /\ t.krn = <<>>
      /\ t.prc = Tail(s.prc) /\ t.failed = s.failed
      /\ t.completions = Append(s.completions, [servant |-> "processor", state |-> st])
      /\ t.port = s.port /\ t.ingress = s.ingress /\ t.egress = s.egress /\ t.efb = s.efb
      /\ HasDummy(t) => HasDummy(s)
  BY <1>3, <1>4 DEF Reporting, SameRest
<1>6. Conserves(t, s)
  BY <1>3, <1>4, ConservesTwice
<1>7. Sound(t)
  BY <1>1, <1>5, <1>6, SoundKept
<1>8. Quiet(t)
  BY <1>2, <1>5 DEF Quiet
<1>9. /\ Flushing(t) = Flushing(s) /\ (Returned(t) <=> Returned(s)) /\ (Cleared(t) <=> Cleared(s))
  BY <1>5 DEF Flushing, Returned, Cleared
<1>10. ASSUME Reports(s, st)
       PROVE  Reports(t, st) /\ Len(t.completions) = Len(s.completions) + 1
  <2>1. ASSUME NEW q \in Seq(Completions), \A i \in DOMAIN q : q[i].state = st, NEW m, m.state = st
        PROVE  /\ \A i \in DOMAIN Append(q, m) : Append(q, m)[i].state = st
               /\ Len(Append(q, m)) = Len(q) + 1
    <3>1. DOMAIN Append(q, m) = 1 .. Len(q) + 1 /\ DOMAIN q = 1 .. Len(q) /\ Len(q) \in Nat
      OBVIOUS
    <3> QED BY <2>1, <3>1
  <2>2. s.completions \in Seq(Completions) /\ \A i \in DOMAIN s.completions : s.completions[i].state = st
    BY <1>1, <1>10 DEF IsComp, Reports
  <2> DEFINE m == [servant |-> "processor", state |-> st]
  <2>3. t.completions = Append(s.completions, m) /\ m.state = st
    BY <1>5
  <2> HIDE DEF m
  <2>4. /\ \A i \in DOMAIN Append(s.completions, m) : Append(s.completions, m)[i].state = st
        /\ Len(Append(s.completions, m)) = Len(s.completions) + 1
    BY <2>1, <2>2, <2>3
  <2> QED BY <2>3, <2>4 DEF Reports
<1>11. CASE AtRest(s) /\ s.cur = "Executing" /\ st = "Executing"
  <2>1. Reports(t, t.cur)
    BY <1>5, <1>10, <1>11 DEF AtRest
  <2>2. AtRest(t)
    BY <1>5, <1>8, <1>9, <1>11, <2>1 DEF AtRest
  <2> QED BY <1>6, <1>7, <1>8, <2>2 DEF Good, Phase
<1>12. CASE Moving(s) /\ st = s.param /\ Tail(s.prc) = <<>>
  <2>1. Reports(t, t.param)
    BY <1>5, <1>10, <1>12 DEF Moving
  <2>2. Moving(t)
    BY <1>5, <1>9, <1>12, <2>1 DEF Moving
  <2> QED BY <1>6, <1>7, <1>8, <2>2 DEF Good, Phase
<1>13. CASE Stopping(s) /\ st = "Idle"
  <2>1. ~Asked(s, "Idle")
    BY DEF Asked
  <2>2. Cleared(s) /\ Reporters(s) = (IF Returned(s) THEN 1 ELSE 0)
    BY <1>13, <2>1 DEF Stopping
  <2>3. Reports(t, "Idle") /\ Len(t.completions) = Len(s.completions) + 1
    BY <1>10, <1>13 DEF Stopping
  <2>4. Len(s.completions) \in Nat /\ Len(s.counted[s.cur]) \in Nat
    <3>1. s.cur \in States
      BY <1>13 DEF Stopping, Stops, States, SubStates
    <3>2. s.completions \in Seq(Completions) /\ s.counted[s.cur] \in Seq(Completions)
      BY <1>1, <3>1 DEF IsComp
    <3> QED BY <3>2
  <2>5. ASSUME NEW a \in Nat, NEW b \in Nat PROVE a + (b + 1) = (a + b) + 1
    OBVIOUS
  <2>6. Reporters(t) = Reporters(s) + 1
    BY <1>5, <2>3, <2>4, <2>5 DEF Reporters
  <2>7. Reporters(t) = (IF Quiet(t) THEN 1 ELSE 0) + (IF Returned(t) THEN 1 ELSE 0)
    BY <1>8, <1>9, <2>2, <2>6
  <2>8. Stopping(t)
    BY <1>5, <1>8, <1>9, <1>13, <2>2, <2>3, <2>7 DEF Stopping
  <2> QED BY <1>6, <1>7, <1>8, <2>8 DEF Good, Phase
<1> QED BY <1>2, <1>11, <1>12, <1>13

\* The turn of the processor.
ProcessorStep(s) ==
    IF s.prc # <<>> THEN CommandOfProcessor([s EXCEPT !.prc = Tail(@)], Head(s.prc))
    ELSE IF s.ready > 0 THEN BuffersReady([s EXCEPT !.ready = @ - 1])
    ELSE s

\* It conserves the headers, and nothing is left of a transition.
LEMMA ProcessorServes ==
    ASSUME NEW s, Good(s), s.krn = <<>>, NEW t, t = ProcessorStep(s)
    PROVE  Conserves(t, s) /\ Good(t) /\ Quiet(t)
<1>1. Sound(s) /\ IsComp(s) /\ Phase(s)
  BY DEF Good, Sound
<1>2. CASE s.prc # <<>>
  <2> DEFINE r == [s EXCEPT !.prc = Tail(@)]
  <2>1. t = CommandOfProcessor(r, Head(s.prc)) /\ Takes(r, s)
    BY <1>2 DEF ProcessorStep, Takes
  <2> HIDE DEF r
  <2> QED BY <1>2, <2>1, ProcessorFlushes, ProcessorGoes
<1>3. s.prc = <<>> => Quiet(s)
  BY FlushesOnly DEF Quiet
<1>4. CASE s.prc = <<>> /\ s.ready > 0
  <2>1. s.ready - 1 \in Int
    BY <1>1 DEF IsComp
  <2>2. t = BuffersReady([s EXCEPT !.ready = s.ready - 1])
    BY <1>4 DEF ProcessorStep
  <2>3. ASSUME NEW n \in Int, NEW r, r = [s EXCEPT !.ready = n], NEW u, u = BuffersReady(r)
        PROVE  Moves(u, s) /\ (s.cur \in Stops /\ Cleared(s) =>
                                Cleared(u) /\ (Returned(u) <=> Returned(s)))
    <3>1. Moves(r, s) /\ IsComp(r)
      BY <1>1, <2>3, ReadyMoves DEF Moves, Conserves
    <3>2. Moves(u, r)
      BY <2>3, <3>1, BuffersReadyMoves
    <3>3. Moves(u, s)
      BY <3>1, <3>2, MovesTwice
    <3>4. ASSUME s.cur \in Stops PROVE (Cleared(u) <=> Cleared(s)) /\ (Returned(u) <=> Returned(s))
      <4>1. /\ r.cur = s.cur /\ r.efb = s.efb /\ r.ingress = s.ingress /\ r.egress = s.egress
            /\ r.port = s.port
        BY <1>1, <2>3 DEF IsComp, Fields
      <4>2. u = r
        BY <2>3, <3>4, <4>1 DEF BuffersReady, Stops
      <4> QED BY <4>1, <4>2 DEF Cleared, Returned
    <3> QED BY <3>3, <3>4
  <2>4. Moves(t, s) /\ (s.cur \in Stops /\ Cleared(s) =>
                                Cleared(t) /\ (Returned(t) <=> Returned(s)))
    BY <2>1, <2>2, <2>3
  <2>5. Phase(t)
    BY <1>1, <2>4, PhaseKept DEF Moves
  <2>6. Conserves(t, s) /\ t.cur = s.cur /\ t.counted = s.counted /\ t.failed = s.failed
        /\ t.krn = s.krn /\ t.prc = s.prc
    BY <2>4 DEF Moves, SameControl, SameRest
  <2>7. Sound(t)
    BY <1>1, <2>6, SoundKept
  <2> QED BY <1>3, <1>4, <2>5, <2>6, <2>7 DEF Good, Quiet
<1>5. CASE s.prc = <<>> /\ ~(s.ready > 0)
  <2>1. t = s
    BY <1>5 DEF ProcessorStep
  <2>2. Moves(s, s)
    BY <1>1, MovesSelf
  <2> QED BY <1>3, <1>5, <2>1, <2>2 DEF Moves
<1> QED BY <1>2, <1>4, <1>5

-----------------------------------------------------------------------------
(* The turn of the state machine                                           *)

\* From s to t a completion has been taken from the queue, and c is counted.
CountedAs(t, s, c) ==
    /\ DOMAIN t = Fields
    /\ t.completions = Tail(s.completions)
    /\ t.counted = [s.counted EXCEPT ![s.cur] = c]
    /\ t.cur = s.cur /\ t.inProgress = s.inProgress /\ t.param = s.param
    /\ t.cancellation = s.cancellation /\ t.commands = s.commands
    /\ t.krn = s.krn /\ t.prc = s.prc /\ t.failed = s.failed
    /\ t.completion = s.completion /\ t.port = s.port
    /\ t.callbacks = s.callbacks /\ t.efb = s.efb
    /\ t.ingress = s.ingress /\ t.egress = s.egress /\ t.hold = s.hold /\ t.back = s.back
    /\ t.ready = s.ready /\ t.packets = s.packets

\* From s to t the component has arrived in st; back in Executing both servants
\* are told to go there once more.
Arrived(t, s, st) ==
    /\ DOMAIN t = Fields
    /\ t.cur = st /\ t.inProgress = None /\ t.param = None
    /\ t.krn = (IF st = "Executing" THEN Append(s.krn, StateSet(st)) ELSE s.krn)
    /\ t.prc = (IF st = "Executing" THEN Append(s.prc, StateSet(st)) ELSE s.prc)
    /\ t.completions = s.completions /\ t.counted = s.counted
    /\ t.cancellation = s.cancellation /\ t.commands = s.commands
    /\ t.failed = s.failed /\ t.completion = s.completion /\ t.port = s.port
    /\ t.callbacks = s.callbacks /\ t.efb = s.efb
    /\ t.ingress = s.ingress /\ t.egress = s.egress /\ t.hold = s.hold /\ t.back = s.back
    /\ t.ready = s.ready /\ t.packets = s.packets

\* The component is in st, which the client is told.
ArrivedIn(s, st, error) ==
    CommandDone(Expect(Event([s EXCEPT !.cur = st, !.canceled = s.canceled], "StateSet", st, error),
                       s.inProgress = "StateSet", "StateSet == in_progress_cmd_"))

\* The command is done then.
LEMMA ArrivedInIs ==
    ASSUME NEW s, DOMAIN s = Fields, s.inProgress = "StateSet", NEW st, NEW error
    PROVE  LET t == ArrivedIn(s, st, error)
           IN  /\ DOMAIN t = Fields
               /\ t.cur = st /\ t.inProgress = None /\ t.param = None
               /\ t.krn = s.krn /\ t.prc = s.prc
               /\ t.completions = s.completions /\ t.counted = s.counted
               /\ t.cancellation = s.cancellation /\ t.commands = s.commands
               /\ t.failed = s.failed /\ t.completion = s.completion /\ t.port = s.port
               /\ t.callbacks = s.callbacks /\ t.efb = s.efb
               /\ t.ingress = s.ingress /\ t.egress = s.egress
               /\ t.hold = s.hold /\ t.back = s.back
               /\ t.ready = s.ready /\ t.packets = s.packets
<1> DEFINE a == [s EXCEPT !.cur = st, !.canceled = s.canceled]
           b == Event(a, "StateSet", st, error)
<1>1. Expect(b, s.inProgress = "StateSet", "StateSet == in_progress_cmd_") = b
  BY DEF Expect
<1>2. ArrivedIn(s, st, error) = [b EXCEPT !.inProgress = None, !.param = None]
  BY <1>1 DEF ArrivedIn, CommandDone
<1> QED BY <1>2 DEF Event, Fields

\* What the last message of a list of commands adds.
LEMMA TellsServants ==
    ASSUME NEW s, DOMAIN s = Fields, NEW c, NEW t, t = ToServants(s, c)
    PROVE  /\ DOMAIN t = Fields
           /\ t.krn = Append(s.krn, c) /\ t.prc = Append(s.prc, c)
           /\ t.cur = s.cur /\ t.inProgress = s.inProgress /\ t.param = s.param
           /\ t.completions = s.completions /\ t.counted = s.counted
           /\ t.cancellation = s.cancellation /\ t.commands = s.commands
           /\ t.failed = s.failed /\ t.completion = s.completion /\ t.port = s.port
           /\ t.callbacks = s.callbacks /\ t.efb = s.efb
           /\ t.ingress = s.ingress /\ t.egress = s.egress
           /\ t.hold = s.hold /\ t.back = s.back
           /\ t.ready = s.ready /\ t.packets = s.packets
BY DEF ToServants, ToProcessor, ToKernel, Fields

\* What fsm_set_state does at the end of a transition.
LEMMA SetStateArrives ==
    ASSUME NEW s, DOMAIN s = Fields, s.inProgress = "StateSet", NEW st \in Stages, st # s.cur,
           NEW t, t = SetState(s, st, None)
    PROVE  Arrived(t, s, st)
<1>1. st \notin SubStates
  BY DEF Stages, SubStates
<1> DEFINE moved == [s EXCEPT !.cur = st, !.canceled = s.canceled]
           error == IF moved.canceled = None THEN None ELSE "CommandCanceled"
<1>2. PICK r : r = ArrivedIn(s, st, error)
  OBVIOUS
<1>3. t = IF st = "Executing" THEN ToServants(r, StateSet("Executing")) ELSE r
  <2>1. t = CASE st = s.cur -> s
               [] st # s.cur /\ st \in SubStates -> moved
               [] st # s.cur /\ st = "Executing" ->
                    ToServants(ArrivedIn(s, st, error), StateSet("Executing"))
               [] OTHER -> ArrivedIn(s, st, error)
    BY DEF SetState, ArrivedIn
  <2> HIDE DEF moved, error
  <2> QED BY <1>1, <1>2, <2>1
<1> HIDE DEF error
<1>4. /\ DOMAIN r = Fields
      /\ r.cur = st /\ r.inProgress = None /\ r.param = None
      /\ r.krn = s.krn /\ r.prc = s.prc
      /\ r.completions = s.completions /\ r.counted = s.counted
      /\ r.cancellation = s.cancellation /\ r.commands = s.commands
      /\ r.failed = s.failed /\ r.completion = s.completion /\ r.port = s.port
      /\ r.callbacks = s.callbacks /\ r.efb = s.efb
      /\ r.ingress = s.ingress /\ r.egress = s.egress
      /\ r.hold = s.hold /\ r.back = s.back
      /\ r.ready = s.ready /\ r.packets = s.packets
  BY <1>2, ArrivedInIs
<1>5. CASE st = "Executing"
  <2>1. t = ToServants(r, StateSet(st))
    BY <1>3, <1>5
  <2>2. ASSUME NEW c, NEW u, u = ToServants(r, c)
        PROVE  /\ DOMAIN u = Fields
               /\ u.krn = Append(r.krn, c) /\ u.prc = Append(r.prc, c)
               /\ u.cur = r.cur /\ u.inProgress = r.inProgress /\ u.param = r.param
               /\ u.completions = r.completions /\ u.counted = r.counted
               /\ u.cancellation = r.cancellation /\ u.commands = r.commands
               /\ u.failed = r.failed /\ u.completion = r.completion /\ u.port = r.port
               /\ u.callbacks = r.callbacks /\ u.efb = r.efb
               /\ u.ingress = r.ingress /\ u.egress = r.egress
               /\ u.hold = r.hold /\ u.back = r.back
               /\ u.ready = r.ready /\ u.packets = r.packets
    BY <1>4, <2>2, TellsServants
  <2> QED BY <1>4, <1>5, <2>1, <2>2 DEF Arrived
<1>6. CASE st # "Executing"
  BY <1>3, <1>4, <1>6 DEF Arrived
<1> QED BY <1>5, <1>6

\* What dispatch_tc does with an expected completion.
LEMMA CompletionIs ==
    ASSUME NEW s, IsComp(s), s.failed = None, Head(s.completions).state \in Expected(s.cur),
           NEW t, t = DispatchCompletion([s EXCEPT !.completions = Tail(@)], Head(s.completions))
    PROVE  IF s.counted[s.cur] = <<>>
           THEN CountedAs(t, s, <<Head(s.completions)>>)
           ELSE \E u : CountedAs(u, s, <<>>) /\ t = SetState(u, Head(s.completions).state, None)
<1> DEFINE m == Head(s.completions)
           r == [s EXCEPT !.completions = Tail(@)]
           a(c) == [r EXCEPT !.counted = [r.counted EXCEPT ![r.cur] = c]]
<1>1. DOMAIN s = Fields /\ s.counted \in [States -> Seq(Completions)]
  BY DEF IsComp
<1>2. r.cur = s.cur /\ r.counted = s.counted /\ r.failed = None /\ DOMAIN r = Fields
  BY <1>1 DEF Fields
<1>3. \A c : CountedAs(a(c), s, c)
  BY <1>1 DEF CountedAs, Fields
<1>4. t = DispatchCompletion(r, m)
  OBVIOUS
<1> HIDE DEF r, m
<1>5. Expect(r, m.state \in Expected(r.cur), "trans_complete") = r
  BY <1>2 DEF Expect, m
<1>6. t = IF s.counted[s.cur] = <<>> THEN a(<<m>>) ELSE SetState(a(<<>>), m.state, None)
  BY <1>2, <1>4, <1>5 DEF DispatchCompletion
<1> HIDE DEF a
<1> QED BY <1>3, <1>6 DEF m

\* What is counted conserves the headers, and keeps them sound.
LEMMA CountedAsConserves ==
    ASSUME NEW s, Sound(s), s.completions # <<>>, NEW c \in Seq(Completions), NEW t, CountedAs(t, s, c)
    PROVE  /\ IsComp(t) /\ SameHeaders(t, s) /\ Conserves(t, s) /\ Sound(t)
           /\ t.counted[s.cur] = c
<1>1. IsComp(s) /\ s.completions \in Seq(Completions) /\ s.cur \in States
  BY DEF Sound, IsComp, Stages, Stops, States, MainStates, SubStates
<1>2. Tail(s.completions) \in Seq(Completions)
  BY <1>1
<1>3. /\ t.counted \in [States -> Seq(Completions)]
      /\ t.counted[s.cur] = c /\ \A st \in States : st # s.cur => t.counted[st] = s.counted[st]
  BY <1>1 DEF IsComp, CountedAs
<1>4. IsComp(t)
  BY <1>1, <1>2, <1>3 DEF IsComp, CountedAs
<1>5. SameHeaders(t, s)
  BY DEF SameHeaders, CountedAs
<1>6. Conserves(t, s)
  BY <1>4, <1>5, SameHeadersConserve
<1>7. \A st \in Stops : st # t.cur => t.counted[st] = <<>>
  BY <1>3 DEF Sound, CountedAs, Stops, States, SubStates
<1>8. Sound(t)
  BY <1>4, <1>6, <1>7 DEF Sound, Conserves, Balanced, CountedAs
<1> QED BY <1>3, <1>4, <1>5, <1>6, <1>8

\* The arrival conserves the headers too.
LEMMA ArrivedConserves ==
    ASSUME NEW s, IsComp(s), NEW st \in Stages, NEW t, Arrived(t, s, st)
    PROVE  /\ IsComp(t) /\ SameHeaders(t, s) /\ Conserves(t, s)
<1>1. StateSet(st) \in Messages
  BY DEF Messages
<1>2. t.krn \in Seq(Messages) /\ t.prc \in Seq(Messages)
  BY <1>1 DEF IsComp, Arrived
<1>3. IsComp(t)
  BY <1>2 DEF IsComp, Arrived
<1>4. SameHeaders(t, s)
  BY DEF SameHeaders, Arrived
<1> QED BY <1>3, <1>4, SameHeadersConserve

\* What is left of a list of reports.
LEMMA ReportsLess ==
    ASSUME NEW s, IsComp(s), s.completions # <<>>, NEW st, Reports(s, st)
    PROVE  /\ Head(s.completions).state = st /\ Head(s.completions) \in Completions
           /\ \A i \in DOMAIN Tail(s.completions) : Tail(s.completions)[i].state = st
           /\ Len(s.completions) = Len(Tail(s.completions)) + 1
           /\ Len(Tail(s.completions)) \in Nat
           /\ Tail(s.completions) \in Seq(Completions)
<1>1. s.completions \in Seq(Completions) /\ \A i \in DOMAIN s.completions : s.completions[i].state = st
  BY DEF IsComp, Reports
<1>2. ASSUME NEW q \in Seq(Completions), q # <<>>, \A i \in DOMAIN q : q[i].state = st
      PROVE  /\ Head(q).state = st /\ Head(q) \in Completions
             /\ \A i \in DOMAIN Tail(q) : Tail(q)[i].state = st
             /\ Len(q) = Len(Tail(q)) + 1 /\ Len(Tail(q)) \in Nat
             /\ Tail(q) \in Seq(Completions)
  <2>1. /\ Len(q) \in Nat /\ Len(q) > 0 /\ DOMAIN q = 1 .. Len(q) /\ Head(q) = q[1]
        /\ Tail(q) \in Seq(Completions) /\ Len(Tail(q)) = Len(q) - 1
        /\ \A i \in 1 .. Len(Tail(q)) : Tail(q)[i] = q[i + 1]
    BY <1>2
  <2>2. DOMAIN Tail(q) = 1 .. Len(Tail(q))
    BY <2>1
  <2>3. q[1] \in Completions /\ 1 \in DOMAIN q
    BY <2>1
  <2>4. ASSUME NEW i \in DOMAIN Tail(q) PROVE Tail(q)[i].state = st
    <3>1. i + 1 \in DOMAIN q /\ Tail(q)[i] = q[i + 1]
      BY <2>1, <2>2
    <3> QED BY <1>2, <3>1
  <2> QED BY <1>2, <2>1, <2>3, <2>4
<1> QED BY <1>1, <1>2

\* The completion of a servant at a time when nothing else is waited for.
LEMMA CompletionServed ==
    ASSUME NEW s, Good(s), Quiet(s), s.completions # <<>>, \A p \in Ports : s.back[p] = 0,
           NEW t, t = DispatchCompletion([s EXCEPT !.completions = Tail(@)], Head(s.completions))
    PROVE  Conserves(t, s) /\ Good(t) /\ Passes(t, "kernel")
<1> DEFINE m == Head(s.completions)
<1>1. /\ Sound(s) /\ IsComp(s) /\ Phase(s) /\ s.failed = None
      /\ s.krn = <<>> /\ s.prc \in Seq(FlushCommands)
  BY DEF Good, Sound, Quiet
<1>2. \A st : ~Asked(s, st)
  BY <1>1 DEF Asked
<1>3. \A st : s.prc # <<StateSet(st)>>
  <2>1. ASSUME NEW st, s.prc = <<StateSet(st)>> PROVE FALSE
    <3>1. s.prc # <<>> /\ Head(s.prc) = StateSet(st)
      BY <2>1, ListOfOne
    <3>2. Head(s.prc) \in FlushCommands
      BY <1>1, <3>1
    <3> QED BY <3>1, <3>2 DEF FlushCommands, StateSet, PortCommand
  <2> QED BY <2>1
<1>4. PICK st : /\ Reports(s, st) /\ st \in Expected(s.cur)
                /\ \/ st = s.cur /\ (AtRest(s) \/ Accepted(s) \/ Collecting(s)) /\ s.cur \in Stages
                   \/ Moving(s) /\ st = s.param /\ s.prc = <<>>
                   \/ Stopping(s) /\ st = "Idle" /\ Cleared(s)
  <2>1. ASSUME s.cur \in Stages PROVE s.cur \in Expected(s.cur)
    BY <2>1 DEF Expected, Stages, MainStates, SubStates
  <2>2. CASE AtRest(s)
    BY <2>1, <2>2 DEF AtRest
  <2>3. CASE Accepted(s)
    BY <2>1, <2>3 DEF Accepted
  <2>4. CASE Collecting(s)
    BY <2>1, <2>4 DEF Collecting, Stages
  <2>5. CASE Moving(s)
    <3>1. s.prc = <<>> /\ Reports(s, s.param) /\ <<s.cur, s.param>> \in Ways
      BY <1>2, <1>3, <2>5 DEF Moving
    <3>2. s.param \in Expected(s.cur)
      BY <3>1 DEF Ways, Expected, MainStates, SubStates
    <3> QED BY <2>5, <3>1, <3>2
  <2>6. CASE Stopping(s)
    <3>1. Reports(s, "Idle") /\ s.cur \in Stops /\ Cleared(s)
      BY <1>2, <2>6 DEF Stopping
    <3>2. "Idle" \in Expected(s.cur)
      BY <3>1 DEF Stops, Expected, SubStates, Destination
    <3> QED BY <2>6, <3>1, <3>2
  <2> QED BY <1>1, <2>2, <2>3, <2>4, <2>5, <2>6 DEF Phase
<1>5. /\ m.state = st /\ m \in Completions
      /\ \A i \in DOMAIN Tail(s.completions) : Tail(s.completions)[i].state = st
      /\ Len(s.completions) = Len(Tail(s.completions)) + 1
      /\ Len(Tail(s.completions)) \in Nat
      /\ Tail(s.completions) \in Seq(Completions)
  BY <1>1, <1>4, ReportsLess
<1>6. IF s.counted[s.cur] = <<>> THEN CountedAs(t, s, <<m>>)
      ELSE \E u : CountedAs(u, s, <<>>) /\ t = SetState(u, st, None)
  <2>1. Head(s.completions).state \in Expected(s.cur)
    BY <1>4, <1>5
  <2> QED BY <1>1, <1>5, <2>1, CompletionIs, ZenonT(30)
<1>7. <<m>> \in Seq(Completions) /\ <<>> \in Seq(Completions) /\ Len(<<m>>) = 1
  BY <1>5
<1> HIDE DEF m
<1>8. ASSUME NEW c \in Seq(Completions), NEW u, CountedAs(u, s, c)
      PROVE  /\ IsComp(u) /\ Conserves(u, s) /\ Sound(u) /\ Quiet(u)
             /\ Reports(u, st) /\ Flushing(u) = Flushing(s) /\ u.counted[s.cur] = c
             /\ (HasDummy(u) <=> HasDummy(s))
             /\ (Cleared(u) <=> Cleared(s)) /\ (Returned(u) <=> Returned(s))
             /\ Passes(u, "kernel")
  <2>1. IsComp(u) /\ Conserves(u, s) /\ Sound(u) /\ u.counted[s.cur] = c
    BY <1>1, <1>8, CountedAsConserves
  <2>2. /\ Quiet(u) /\ Flushing(u) = Flushing(s) /\ (HasDummy(u) <=> HasDummy(s))
        /\ (Cleared(u) <=> Cleared(s)) /\ (Returned(u) <=> Returned(s))
    BY <1>8 DEF CountedAs, Quiet, Flushing, HasDummy, Cleared, Returned
  <2>3. Reports(u, st)
    BY <1>5, <1>8 DEF CountedAs, Reports
  <2> QED BY <2>1, <2>2, <2>3 DEF Passes, Quiet
<1>9. CASE st = s.cur /\ (AtRest(s) \/ Accepted(s) \/ Collecting(s)) /\ s.cur \in Stages
  <2>1. \E c \in Seq(Completions) : CountedAs(t, s, c)
    <3>1. ASSUME NEW u, CountedAs(u, s, <<>>) PROVE SetState(u, st, None) = u
      BY <1>9, <3>1 DEF SetState, CountedAs
    <3> QED BY <1>6, <1>7, <3>1
  <2>2. PICK c \in Seq(Completions) : CountedAs(t, s, c)
    BY <2>1
  <2>3. /\ Conserves(t, s) /\ Sound(t) /\ Quiet(t) /\ Reports(t, st) /\ Flushing(t) = Flushing(s)
        /\ (HasDummy(t) <=> HasDummy(s)) /\ Passes(t, "kernel")
    BY <1>8, <2>2
  <2>4. /\ t.cur = s.cur /\ t.inProgress = s.inProgress /\ t.param = s.param
        /\ t.commands = s.commands /\ t.krn = s.krn /\ t.prc = s.prc /\ t.completion = s.completion
    BY <2>2 DEF CountedAs
  <2>5. CASE AtRest(s)
    <3>1. AtRest(t)
      BY <1>9, <2>3, <2>4, <2>5 DEF AtRest
    <3> QED BY <2>3, <3>1 DEF Good, Phase
  <2>6. CASE Accepted(s)
    <3>1. Accepted(t)
      BY <1>9, <2>3, <2>4, <2>6 DEF Accepted
    <3> QED BY <2>3, <3>1 DEF Good, Phase
  <2>7. CASE Collecting(s)
    <3>1. s.completion = Flushing(s) /\ Flushing(s) > 0
      BY <1>1, <2>7 DEF Collecting
    <3>2. Collecting(t)
      BY <1>9, <2>3, <2>4, <2>7, <3>1 DEF Collecting
    <3> QED BY <2>3, <3>2 DEF Good, Phase
  <2> QED BY <1>9, <2>5, <2>6, <2>7
<1>10. CASE Moving(s) /\ st = s.param /\ s.prc = <<>>
  <2>1. /\ s.inProgress = "StateSet" /\ s.commands = <<>> /\ <<s.cur, st>> \in Ways
        /\ Flushing(s) = 0 /\ (HasDummy(s) => s.cur = "Pause")
    BY <1>10 DEF Moving
  <2>2. CASE s.counted[s.cur] = <<>>
    <3>1. CountedAs(t, s, <<m>>)
      BY <1>6, <2>2
    <3>2. /\ Conserves(t, s) /\ Sound(t) /\ Quiet(t) /\ Reports(t, st) /\ Flushing(t) = Flushing(s)
          /\ (HasDummy(t) <=> HasDummy(s)) /\ Passes(t, "kernel")
      BY <1>7, <1>8, <3>1
    <3>3. Moving(t)
      BY <1>1, <1>10, <2>1, <3>1, <3>2 DEF Moving, CountedAs
    <3> QED BY <3>2, <3>3 DEF Good, Phase
  <2>3. CASE s.counted[s.cur] # <<>>
    <3>1. PICK u : CountedAs(u, s, <<>>) /\ t = SetState(u, st, None)
      BY <1>6, <2>3
    <3>2. /\ IsComp(u) /\ Conserves(u, s) /\ Sound(u) /\ Quiet(u)
          /\ Reports(u, st) /\ Flushing(u) = Flushing(s) /\ (HasDummy(u) <=> HasDummy(s))
      BY <1>7, <1>8, <3>1
    <3>3. st \in {"Executing", "Pause"} /\ st \in Stages /\ st # s.cur
      BY <2>1 DEF Ways, Stages
    <3>4. Arrived(t, u, st)
      <4>1. DOMAIN u = Fields /\ u.inProgress = "StateSet" /\ st # u.cur
        BY <2>1, <3>1, <3>3 DEF CountedAs
      <4> QED BY <3>1, <3>3, <4>1, SetStateArrives
    <3>5. IsComp(t) /\ SameHeaders(t, u) /\ Conserves(t, u)
      BY <3>2, <3>3, <3>4, ArrivedConserves
    <3>6. Conserves(t, s)
      BY <3>2, <3>5, ConservesTwice
    <3>7. /\ t.cur = st /\ t.inProgress = None /\ t.commands = <<>>
          /\ t.port = u.port /\ t.completions = u.completions /\ t.counted = u.counted
          /\ t.failed = u.failed /\ t.callbacks = u.callbacks
          /\ u.krn = <<>> /\ u.prc = <<>> /\ u.cur = s.cur
      BY <1>1, <1>10, <2>1, <3>1, <3>4 DEF CountedAs, Arrived
    <3>8. Reports(t, t.cur) /\ Flushing(t) = 0 /\ (HasDummy(t) => HasDummy(s))
      BY <2>1, <3>2, <3>7 DEF Reports, Flushing, HasDummy
    <3>9. Sound(t)
      <4>1. \A x \in Stops : x # t.cur => t.counted[x] = <<>>
        <5>1. \A x \in Stops : x # u.cur
          BY <2>1, <3>7 DEF Ways, Stops
        <5> QED BY <3>2, <3>7, <5>1 DEF Sound
      <4> QED BY <3>2, <3>3, <3>5, <3>7, <4>1 DEF Sound, Conserves, Balanced
    <3>10. CASE st = "Executing"
      <4>1. Asked(t, "Executing")
        <5>1. Append(<<>>, StateSet("Executing")) = <<StateSet("Executing")>>
          OBVIOUS
        <5> QED BY <3>4, <3>7, <3>10, <5>1 DEF Arrived, Asked
      <4>2. AtRest(t)
        BY <3>3, <3>7, <3>8, <3>10, <4>1 DEF AtRest
      <4>3. Passes(t, "kernel")
        <5>1. t.krn # <<>>
          BY <4>1, ListOfOne DEF Asked
        <5> QED BY <5>1 DEF Passes
      <4> QED BY <3>6, <3>9, <4>2, <4>3 DEF Good, Phase
    <3>11. CASE st = "Pause"
      <4>1. Quiet(t)
        BY <3>2, <3>4, <3>11 DEF Arrived, Quiet
      <4>2. ~HasDummy(t)
        BY <2>1, <3>8, <3>11 DEF Ways
      <4>3. AtRest(t)
        BY <3>3, <3>7, <3>8, <4>1, <4>2 DEF AtRest
      <4> QED BY <3>6, <3>9, <4>1, <4>3 DEF Good, Phase, Passes, Quiet
    <3> QED BY <3>3, <3>10, <3>11
  <2> QED BY <2>2, <2>3
<1>11. CASE Stopping(s) /\ st = "Idle" /\ Cleared(s)
  <2>1. /\ s.inProgress = "StateSet" /\ s.commands = <<>> /\ s.cur \in Stops /\ s.param = "Idle"
        /\ Flushing(s) = 0 /\ ~HasDummy(s)
        /\ Reporters(s) = 1 + (IF Returned(s) THEN 1 ELSE 0)
    BY <1>2, <1>11 DEF Stopping
  <2>2. s.counted[s.cur] \in Seq(Completions) /\ Len(s.counted[s.cur]) \in Nat
    <3>1. s.cur \in States
      BY <2>1 DEF Stops, States, SubStates
    <3>2. s.counted[s.cur] \in Seq(Completions)
      BY <1>1, <3>1 DEF IsComp
    <3> QED BY <3>2
  <2>3. Len(s.counted[s.cur]) + (Len(Tail(s.completions)) + 1) = 1 + (IF Returned(s) THEN 1 ELSE 0)
    BY <1>5, <2>1 DEF Reporters
  <2>4. CASE s.counted[s.cur] = <<>>
    <3>1. CountedAs(t, s, <<m>>)
      BY <1>6, <2>4
    <3>2. /\ Conserves(t, s) /\ Sound(t) /\ Quiet(t) /\ Reports(t, st) /\ Flushing(t) = Flushing(s)
          /\ (HasDummy(t) <=> HasDummy(s)) /\ Passes(t, "kernel") /\ t.counted[s.cur] = <<m>>
          /\ (Cleared(t) <=> Cleared(s)) /\ (Returned(t) <=> Returned(s))
      BY <1>7, <1>8, <3>1
    <3>3. Reporters(t) = 1 + (IF Returned(t) THEN 1 ELSE 0)
      <4>1. Len(s.counted[s.cur]) = 0
        BY <2>4
      <4>2. Reporters(t) = 1 + Len(Tail(s.completions))
        BY <1>7, <3>1, <3>2 DEF Reporters, CountedAs
      <4> QED BY <1>5, <2>3, <3>2, <4>1, <4>2
    <3>4. Stopping(t)
      <4>1. /\ t.cur = s.cur /\ t.inProgress = s.inProgress /\ t.param = s.param
            /\ t.commands = s.commands
        BY <3>1 DEF CountedAs
      <4> QED BY <1>11, <2>1, <3>2, <3>3, <4>1 DEF Stopping
    <3> QED BY <3>2, <3>4 DEF Good, Phase
  <2>5. CASE s.counted[s.cur] # <<>>
    <3>1. PICK u : CountedAs(u, s, <<>>) /\ t = SetState(u, st, None)
      BY <1>6, <2>5
    <3>2. /\ IsComp(u) /\ Conserves(u, s) /\ Sound(u) /\ Quiet(u) /\ u.counted[s.cur] = <<>>
          /\ Reports(u, st) /\ Flushing(u) = Flushing(s) /\ (HasDummy(u) <=> HasDummy(s))
          /\ (Cleared(u) <=> Cleared(s)) /\ (Returned(u) <=> Returned(s))
      BY <1>7, <1>8, <3>1
    <3>3. st \in Stages /\ st # s.cur
      BY <1>11, <2>1 DEF Stops, Stages
    <3>4. Arrived(t, u, st)
      <4>1. DOMAIN u = Fields /\ u.inProgress = "StateSet" /\ st # u.cur
        BY <2>1, <3>1, <3>3 DEF CountedAs
      <4> QED BY <3>1, <3>3, <4>1, SetStateArrives
    <3>5. IsComp(t) /\ SameHeaders(t, u) /\ Conserves(t, u)
      BY <3>2, <3>3, <3>4, ArrivedConserves
    <3>6. Conserves(t, s)
      BY <3>2, <3>5, ConservesTwice
    <3>7. /\ t.cur = "Idle" /\ t.inProgress = None /\ t.commands = <<>>
          /\ t.port = u.port /\ t.completions = u.completions /\ t.counted = u.counted
          /\ t.failed = u.failed /\ t.callbacks = u.callbacks /\ u.cur = s.cur
          /\ t.krn = u.krn /\ t.prc = u.prc /\ t.efb = u.efb /\ t.ingress = u.ingress
          /\ t.egress = u.egress /\ t.hold = u.hold
          /\ t.back = u.back /\ u.back = s.back
      BY <1>11, <2>1, <3>1, <3>4 DEF CountedAs, Arrived
    <3>8. Reports(t, t.cur) /\ Flushing(t) = 0 /\ (HasDummy(t) => HasDummy(s)) /\ Quiet(t)
      BY <1>11, <2>1, <3>2, <3>7, SMTT(30) DEF Reports, Flushing, HasDummy, Quiet
    <3>9. Returned(s)
      <4>1. Len(s.counted[s.cur]) # 0
        BY <2>2, <2>5, EmptySeq
      <4>2. Len(Tail(s.completions)) \in Nat
        BY <1>5
      <4>3. ASSUME NEW a \in Nat, NEW b \in Nat, a # 0, a + (b + 1) = 1 PROVE FALSE
        BY <4>3
      <4>4. ASSUME ~Returned(s) PROVE FALSE
        <5>0. Reporters(s) = 1
          BY <1>2, <1>11, <4>4 DEF Stopping
        <5>1. Len(s.counted[s.cur]) + (Len(Tail(s.completions)) + 1) = 1
          BY <1>5, <5>0 DEF Reporters
        <5> QED BY <2>2, <4>1, <4>2, <4>3, <5>1
      <4> QED BY <4>4
    <3>10. ASSUME NEW p \in Ports PROVE Total(u, p) = 0
      <4>1. /\ u.efb = <<>> /\ u.ingress[p] = <<>> /\ u.egress[p] = <<>>
            /\ u.port[p].claimed = 0 /\ u.back[p] = 0
        BY <1>11, <3>2, <3>7, <3>9 DEF Cleared, Returned
      <4>2. u.port[p].claimed = Held(u, p) + Released(u, p)
        BY <3>2, ClaimedIs
      <4>3. Held(u, p) \in Nat /\ Released(u, p) \in Nat
        BY <3>2, Numbers
      <4>4. Held(u, p) = 0 /\ Released(u, p) = 0
        BY <4>1, <4>2, <4>3, NothingTwice
      <4>5. Sent(u, p) = 0
        <5>1. <<>> \in Seq(Callbacks) /\ Only(<<>>, Headers({p})) = <<>>
          BY OnlyEmpty
        <5>2. CarriedBy(<<>>, p) = <<>>
          BY <5>1, CarriedEmpty
        <5> QED BY <4>1, <5>2 DEF Sent
      <4>6. Len(u.ingress[p]) = 0 /\ Len(u.egress[p]) = 0
        BY <4>1
      <4>7. Sum(0, 0, 0, 0, 0, 0) = 0
        BY DEF Sum
      <4> QED BY <4>1, <4>4, <4>5, <4>6, <4>7 DEF Total
    <3>11. Sound(t)
      <4>1. \A x \in Stops : x # t.cur => t.counted[x] = <<>>
        BY <3>2, <3>7 DEF Sound
      <4>2. \A p \in Ports : Total(t, p) = 0
        BY <3>5, <3>10 DEF Conserves, Balanced
      <4> QED BY <3>2, <3>5, <3>7, <4>1, <4>2 DEF Sound, Conserves, Balanced
    <3>12. AtRest(t)
      BY <2>1, <3>7, <3>8 DEF AtRest, Stages
    <3> QED BY <3>6, <3>8, <3>11, <3>12 DEF Good, Phase, Passes, Quiet
  <2> QED BY <2>4, <2>5
<1> QED BY <1>4, <1>9, <1>10, <1>11

\* From s to t a command has been taken from the queue.
CommandTaken(t, s) ==
    /\ DOMAIN t = Fields
    /\ t.commands = Tail(s.commands)
    /\ t.completions = s.completions /\ t.counted = s.counted
    /\ t.cur = s.cur /\ t.inProgress = s.inProgress /\ t.param = s.param
    /\ t.cancellation = s.cancellation
    /\ t.krn = s.krn /\ t.prc = s.prc /\ t.failed = s.failed
    /\ t.completion = s.completion /\ t.port = s.port
    /\ t.callbacks = s.callbacks /\ t.efb = s.efb
    /\ t.ingress = s.ingress /\ t.egress = s.egress /\ t.hold = s.hold /\ t.back = s.back
    /\ t.ready = s.ready /\ t.packets = s.packets

\* From s to t the state machine has told the kernel krn and the processor prc,
\* and has gone to cur.
Tells(t, s, cur, krn, prc) ==
    /\ DOMAIN t = Fields
    /\ t.cur = cur /\ t.krn = krn /\ t.prc = prc
    /\ t.commands = s.commands
    /\ t.completions = s.completions /\ t.counted = s.counted
    /\ t.inProgress = s.inProgress /\ t.param = s.param
    /\ t.cancellation = s.cancellation /\ t.failed = s.failed
    /\ t.completion = s.completion /\ t.port = s.port
    /\ t.callbacks = s.callbacks /\ t.efb = s.efb
    /\ t.ingress = s.ingress /\ t.egress = s.egress /\ t.hold = s.hold /\ t.back = s.back
    /\ t.ready = s.ready /\ t.packets = s.packets

\* The states that the three have in Via.
LEMMA ViaIs ==
    /\ \A cur \in Stages : cur \in DOMAIN Via
    /\ \A cur \in Stages, st \in Stages :
        (cur # "Idle" \/ st # "Pause") => (st \in DOMAIN Via[cur] <=> st # cur)
    /\ Via["Idle"]["Executing"] = "Idle"
    /\ Via["Executing"]["Pause"] = "Executing" /\ Via["Executing"]["Idle"] = "ExecutingToIdle"
    /\ Via["Pause"]["Executing"] = "Pause" /\ Via["Pause"]["Idle"] = "PauseToIdle"
<1>1. /\ "Idle" \in DOMAIN Via /\ "Executing" \in DOMAIN Via /\ "Pause" \in DOMAIN Via
  BY DEF Via
<1>2. Via["Idle"] = [Loaded |-> "IdleToLoaded", Executing |-> "Idle", Pause |-> "Idle"]
  BY DEF Via
<1>3. Via["Executing"] = [Idle |-> "ExecutingToIdle", Pause |-> "Executing"]
  BY DEF Via
<1>4. Via["Pause"] = [Idle |-> "PauseToIdle", Executing |-> "Pause"]
  BY DEF Via
<1>5. ASSUME NEW cur \in Stages, NEW st \in Stages, cur # "Idle" \/ st # "Pause"
      PROVE  st \in DOMAIN Via[cur] <=> st # cur
  <2>1. CASE cur = "Idle"
    BY <1>2, <1>5, <2>1 DEF Stages
  <2>2. CASE cur = "Executing"
    BY <1>3, <2>2 DEF Stages
  <2>3. CASE cur = "Pause"
    BY <1>4, <2>3 DEF Stages
  <2> QED BY <2>1, <2>2, <2>3 DEF Stages
<1> QED BY <1>1, <1>2, <1>3, <1>4, <1>5 DEF Stages

\* What dispatch_sc does with a command to go to a state.
LEMMA StateSetIs ==
    ASSUME NEW s, DOMAIN s = Fields, s.cur \in Stages, s.inProgress = "StateSet",
           NEW st \in Stages, s.cur = "Idle" => st # "Pause",
           NEW t, t = DispatchStateSet(s, st)
    PROVE  \/ st = s.cur /\ t = CommandFailed(s, "SameState")
           \/ <<s.cur, st>> \in Ways
              /\ Tells(t, s, s.cur, Append(s.krn, StateSet(st)), Append(s.prc, StateSet(st)))
           \/ st = "Idle" /\ \E sub \in Stops :
                Tells(t, s, sub, Append(s.krn, StateSet(st)), Append(s.prc, StateSet(st)))
<1>1. s.cur \in DOMAIN Via /\ (st \in DOMAIN Via[s.cur] <=> st # s.cur) /\ s.cur # "LoadedToIdle"
  BY ViaIs DEF Stages
<1>2. CASE st = s.cur
  BY <1>1, <1>2 DEF DispatchStateSet
<1>3. CASE st # s.cur
  <2> PICK via : via = Via[s.cur][st]
    OBVIOUS
  <2>1. t = ToServants(SetState(s, via, None), StateSet(st))
    BY <1>1, <1>3 DEF DispatchStateSet
  <2>2. \/ <<s.cur, st>> \in Ways /\ via = s.cur
        \/ st = "Idle" /\ via \in Stops /\ via # s.cur
    BY <1>3, ViaIs DEF Ways, Stops, Stages
  <2>3. ASSUME NEW cur, NEW r, Tells(r, s, cur, s.krn, s.prc), NEW c, NEW u, u = ToServants(r, c)
        PROVE  Tells(u, s, cur, Append(s.krn, c), Append(s.prc, c))
    <3>1. DOMAIN r = Fields
      BY <2>3 DEF Tells
    <3>2. /\ DOMAIN u = Fields
          /\ u.krn = Append(r.krn, c) /\ u.prc = Append(r.prc, c)
          /\ u.cur = r.cur /\ u.inProgress = r.inProgress /\ u.param = r.param
          /\ u.completions = r.completions /\ u.counted = r.counted
          /\ u.cancellation = r.cancellation /\ u.commands = r.commands
          /\ u.failed = r.failed /\ u.completion = r.completion /\ u.port = r.port
          /\ u.callbacks = r.callbacks /\ u.efb = r.efb
          /\ u.ingress = r.ingress /\ u.egress = r.egress
          /\ u.hold = r.hold /\ u.back = r.back
          /\ u.ready = r.ready /\ u.packets = r.packets
      BY <2>3, <3>1, TellsServants
    <3> QED BY <2>3, <3>2 DEF Tells
  <2>4. CASE <<s.cur, st>> \in Ways /\ via = s.cur
    <3>1. SetState(s, via, None) = s
      BY <2>4 DEF SetState
    <3>2. Tells(s, s, s.cur, s.krn, s.prc)
      BY DEF Tells
    <3> QED BY <2>1, <2>3, <2>4, <3>1, <3>2
  <2>5. CASE st = "Idle" /\ via \in Stops /\ via # s.cur
    <3>1. via \in SubStates
      BY <2>5 DEF Stops, SubStates
    <3> DEFINE moved == [s EXCEPT !.cur = via, !.canceled = s.canceled]
               error == IF moved.canceled = None THEN None ELSE "CommandCanceled"
               there == ArrivedIn(s, via, error)
    <3>2. SetState(s, via, None) = moved
      <4>1. SetState(s, via, None) =
              CASE via = s.cur -> s
                [] via # s.cur /\ via \in SubStates -> moved
                [] via # s.cur /\ via = "Executing" -> ToServants(there, StateSet("Executing"))
                [] OTHER -> there
        BY DEF SetState, ArrivedIn
      <4> HIDE DEF moved, there
      <4>2. via # s.cur /\ via # "Executing"
        BY <2>5 DEF Stops
      <4> QED BY <3>1, <4>1, <4>2
    <3>3. ASSUME NEW r, r = [s EXCEPT !.cur = via, !.canceled = s.canceled]
          PROVE  Tells(r, s, via, s.krn, s.prc)
      BY <3>3 DEF Tells, Fields
    <3>4. Tells(SetState(s, via, None), s, via, s.krn, s.prc)
      BY <3>2, <3>3
    <3> QED BY <2>1, <2>3, <2>5, <3>4
  <2> QED BY <2>2, <2>4, <2>5
<1> QED BY <1>2, <1>3

\* The dispatch of a command conserves the headers.
LEMMA TellsConserves ==
    ASSUME NEW s, IsComp(s), NEW cur \in Stages \cup Stops,
           NEW krn \in Seq(Messages), NEW prc \in Seq(Messages), NEW t, Tells(t, s, cur, krn, prc)
    PROVE  IsComp(t) /\ SameHeaders(t, s) /\ Conserves(t, s)
<1>1. IsComp(t)
  BY DEF IsComp, Tells
<1>2. SameHeaders(t, s)
  BY DEF SameHeaders, Tells
<1> QED BY <1>1, <1>2, SameHeadersConserve

\* What the client is told of a command that cannot be served.
LEMMA FailedIs ==
    ASSUME NEW s, DOMAIN s = Fields, NEW error,
           NEW t, t = CommandDone(Event(s, s.inProgress, s.param, error))
    PROVE  /\ DOMAIN t = Fields /\ t.inProgress = None /\ t.param = None
           /\ t.commands = s.commands /\ t.completions = s.completions /\ t.counted = s.counted
           /\ t.cur = s.cur /\ t.cancellation = s.cancellation
           /\ t.krn = s.krn /\ t.prc = s.prc /\ t.failed = s.failed
           /\ t.completion = s.completion /\ t.port = s.port
           /\ t.callbacks = s.callbacks /\ t.efb = s.efb
           /\ t.ingress = s.ingress /\ t.egress = s.egress /\ t.hold = s.hold /\ t.back = s.back
           /\ t.ready = s.ready /\ t.packets = s.packets
BY DEF CommandDone, Event, Fields

\* The client's command.
LEMMA CommandServed ==
    ASSUME NEW s, Good(s), Quiet(s), s.completions = <<>>, s.commands # <<>>,
           NEW t, t = DispatchCommand([s EXCEPT !.commands = Tail(@)], Head(s.commands))
    PROVE  Conserves(t, s) /\ Good(t) /\ Passes(t, "kernel")
<1> DEFINE r == [s EXCEPT !.commands = Tail(@)]
           c == Head(s.commands)
<1>1. Sound(s) /\ IsComp(s) /\ Phase(s)
  BY DEF Good, Sound
<1>2. Accepted(s)
  BY <1>1 DEF Phase, AtRest, Moving, Collecting, Stopping
<1>3. /\ s.inProgress # None
      /\ s.commands = <<[cmd |-> s.inProgress, param |-> s.param]>>
      /\ s.cur \in Stages
      /\ s.inProgress = "StateSet" => s.param \in Stages /\ (s.cur = "Idle" => s.param # "Pause")
      /\ s.inProgress = "Flush" => s.param \in Ports \cup {ALL} /\ s.cur \in {"Executing", "Pause"}
      /\ Flushing(s) = 0
      /\ s.krn = <<>> /\ s.prc = <<>> /\ ~HasDummy(s)
  BY <1>2 DEF Accepted
<1>4. c.cmd = s.inProgress /\ c.param = s.param /\ Tail(s.commands) = <<>>
  BY <1>3, ListOfOne
<1>5. CommandTaken(r, s)
  BY <1>1 DEF CommandTaken, IsComp, Fields
<1>6. t = DispatchCommand(r, c)
  OBVIOUS
<1> HIDE DEF r, c
<1>7. IsComp(r) /\ SameHeaders(r, s) /\ Conserves(r, s)
  <2>1. Tail(s.commands) \in Seq(Messages)
    BY <1>1, <1>4 DEF IsComp
  <2>2. IsComp(r)
    BY <1>1, <1>5, <2>1 DEF IsComp, CommandTaken
  <2>3. SameHeaders(r, s)
    BY <1>5 DEF SameHeaders, CommandTaken
  <2> QED BY <2>2, <2>3, SameHeadersConserve
<1>8. \A u : (Reports(u, u.cur) /\ Reports(u, "Idle") /\ Reports(u, u.param)) \/ u.completions # <<>>
  BY DEF Reports
<1>9. ASSUME NEW cur \in Stages \cup Stops, NEW krn, NEW prc,
             krn \in Seq(Messages), prc \in Seq(Messages),
             NEW u, Tells(u, r, cur, krn, prc), cur = s.cur \/ cur \in Stops
      PROVE  /\ Conserves(u, s) /\ Sound(u) /\ ~HasDummy(u) /\ Flushing(u) = 0
             /\ u.commands = <<>> /\ u.completions = <<>>
             /\ u.inProgress = s.inProgress /\ u.param = s.param
             /\ u.cur = cur /\ u.krn = krn /\ u.prc = prc
             /\ cur \in Stops => u.counted[cur] = <<>>
  <2>1. IsComp(u) /\ SameHeaders(u, r) /\ Conserves(u, r)
    BY <1>7, <1>9, TellsConserves
  <2>2. Conserves(u, s)
    BY <1>7, <2>1, ConservesTwice
  <2>3. /\ u.commands = <<>> /\ u.completions = <<>>
        /\ u.inProgress = s.inProgress /\ u.param = s.param
        /\ u.cur = cur /\ u.krn = krn /\ u.prc = prc
        /\ u.counted = s.counted /\ u.failed = s.failed /\ u.callbacks = s.callbacks
        /\ u.port = s.port
    BY <1>4, <1>5, <1>9 DEF Tells, CommandTaken
  <2>4. ~HasDummy(u) /\ Flushing(u) = 0
    BY <1>3, <2>3 DEF HasDummy, Flushing
  <2>5. \A x \in Stops : u.counted[x] = <<>>
    BY <1>1, <1>3, <2>3 DEF Sound, Stages, Stops
  <2>6. Sound(u)
    <3>1. cur = "Idle" => s.cur = "Idle"
      BY <1>9 DEF Stops
    <3> QED BY <1>1, <2>1, <2>2, <2>3, <2>5, <3>1 DEF Sound, Conserves, Balanced
  <2> QED BY <2>2, <2>3, <2>4, <2>5, <2>6
<1>10. ASSUME NEW d PROVE Append(<<>>, d) = <<d>>
  OBVIOUS
<1>11. r.krn = <<>> /\ r.prc = <<>> /\ r.cur = s.cur /\ r.inProgress = s.inProgress
       /\ r.param = s.param /\ DOMAIN r = Fields
  BY <1>3, <1>5 DEF CommandTaken
<1>12. ASSUME NEW u, u.krn # <<>> PROVE Passes(u, "kernel")
  BY <1>12 DEF Passes
<1>13. CASE s.inProgress = "Flush"
  <2> DEFINE d == PortCommand("Flush", s.param)
  <2>1. c = d /\ d \in Messages
    <3>1. c = [cmd |-> s.inProgress, param |-> s.param]
      BY <1>3, ListOfOne DEF c
    <3> QED BY <1>3, <1>13, <3>1 DEF PortCommand, Messages
  <2>2. t = ToKernel(r, c)
    <3>1. c.cmd = "Flush"
      BY <1>4, <1>13
    <3> QED BY <1>6, <3>1 DEF DispatchCommand
  <2>3. Tells(t, r, r.cur, Append(r.krn, c), r.prc)
    BY <1>11, <2>2, ZenonT(30) DEF ToKernel, Tells, Fields
  <2>4. Append(r.krn, c) = <<d>> /\ <<d>> \in Seq(Messages) /\ r.prc \in Seq(Messages)
    BY <1>7, <1>10, <1>11, <2>1 DEF IsComp
  <2> HIDE DEF d
  <2> DEFINE one == <<d>>
  <2>a. Tells(t, r, s.cur, one, r.prc) /\ one \in Seq(Messages)
    BY <1>11, <2>3, <2>4
  <2> HIDE DEF one
  <2>b. s.cur \in Stages \cup Stops
    BY <1>3
  <2>c. /\ Conserves(t, s) /\ Sound(t) /\ ~HasDummy(t) /\ Flushing(t) = 0
        /\ t.commands = <<>> /\ t.completions = <<>>
        /\ t.inProgress = s.inProgress /\ t.param = s.param
        /\ t.cur = s.cur /\ t.krn = one /\ t.prc = r.prc
    BY <1>9, <2>4, <2>a, <2>b
  <2>5. /\ Conserves(t, s) /\ Sound(t) /\ ~HasDummy(t) /\ Flushing(t) = 0
        /\ t.commands = <<>> /\ t.completions = <<>>
        /\ t.inProgress = s.inProgress /\ t.param = s.param
        /\ t.cur = s.cur /\ t.krn = <<d>> /\ t.prc = <<>>
    BY <1>11, <2>c DEF one
  <2>6. Collecting(t)
    BY <1>3, <1>8, <1>13, <2>5 DEF Collecting, d
  <2>7. Passes(t, "kernel")
    BY <1>12, <2>5, ListOfOne
  <2> QED BY <2>5, <2>6, <2>7 DEF Good, Phase
<1>14. CASE s.inProgress = "StateSet"
  <2> DEFINE d == StateSet(s.param)
  <2>1. t = DispatchStateSet(r, s.param)
    <3>1. c.cmd = "StateSet" /\ c.param = s.param
      BY <1>4, <1>14
    <3> QED BY <1>6, <3>1 DEF DispatchCommand
  <2>2. d \in Messages /\ s.param \in Stages
    BY <1>3, <1>14 DEF Messages
  <2>3. Append(r.krn, d) = <<d>> /\ Append(r.prc, d) = <<d>> /\ <<d>> \in Seq(Messages)
    BY <1>10, <1>11, <2>2
  <2>4. \/ s.param = s.cur /\ t = CommandFailed(r, "SameState")
        \/ <<s.cur, s.param>> \in Ways /\ Tells(t, r, s.cur, <<d>>, <<d>>)
        \/ s.param = "Idle" /\ \E sub \in Stops : Tells(t, r, sub, <<d>>, <<d>>)
    <3>1. ASSUME NEW st \in Stages, s.cur = "Idle" => st # "Pause",
                 NEW u, u = DispatchStateSet(r, st)
          PROVE  \/ st = r.cur /\ u = CommandFailed(r, "SameState")
                 \/ <<r.cur, st>> \in Ways
                    /\ Tells(u, r, r.cur, Append(r.krn, StateSet(st)), Append(r.prc, StateSet(st)))
                 \/ st = "Idle" /\ \E sub \in Stops :
                      Tells(u, r, sub, Append(r.krn, StateSet(st)), Append(r.prc, StateSet(st)))
      BY <1>3, <1>11, <1>14, <3>1, StateSetIs
    <3> QED BY <1>3, <1>11, <1>14, <2>1, <2>2, <2>3, <3>1
  <2> HIDE DEF d
  <2> DEFINE one == <<d>>
  <2>a. one \in Seq(Messages) /\ s.cur \in Stages \cup Stops
    BY <1>3, <2>3
  <2>b. ASSUME NEW cur \in Stages \cup Stops, cur = s.cur \/ cur \in Stops,
               Tells(t, r, cur, one, one)
        PROVE  /\ Conserves(t, s) /\ Sound(t) /\ ~HasDummy(t) /\ Flushing(t) = 0
               /\ t.commands = <<>> /\ t.completions = <<>>
               /\ t.inProgress = s.inProgress /\ t.param = s.param
               /\ t.cur = cur /\ t.krn = one /\ t.prc = one
               /\ cur \in Stops => t.counted[cur] = <<>>
    <3> HIDE DEF one
    <3> QED BY <1>9, <2>a, <2>b
  <2>5. CASE s.param = s.cur /\ t = CommandFailed(r, "SameState")
    <3>1. t = CommandDone(Event(r, r.inProgress, r.param, "SameState"))
      BY <1>3, <1>11, <2>5 DEF CommandFailed
    <3>2. /\ DOMAIN t = Fields /\ t.inProgress = None /\ t.param = None
          /\ t.commands = r.commands /\ t.completions = r.completions /\ t.counted = r.counted
          /\ t.cur = r.cur /\ t.cancellation = r.cancellation
          /\ t.krn = r.krn /\ t.prc = r.prc /\ t.failed = r.failed
          /\ t.completion = r.completion /\ t.port = r.port
          /\ t.callbacks = r.callbacks /\ t.efb = r.efb
          /\ t.ingress = r.ingress /\ t.egress = r.egress /\ t.hold = r.hold /\ t.back = r.back
          /\ t.ready = r.ready /\ t.packets = r.packets
      BY <1>11, <3>1, FailedIs
    <3>3. IsComp(t) /\ SameHeaders(t, r)
      BY <1>7, <3>2 DEF IsComp, SameHeaders
    <3>4. Conserves(t, s)
      BY <1>7, <3>3, SameHeadersConserve, ConservesTwice
    <3>5. /\ t.cur = s.cur /\ t.counted = s.counted /\ t.failed = s.failed
          /\ t.commands = <<>> /\ t.completions = <<>> /\ t.krn = <<>> /\ t.prc = <<>>
          /\ t.port = s.port /\ t.callbacks = s.callbacks
      BY <1>3, <1>4, <1>5, <3>2 DEF CommandTaken
    <3>6. Sound(t)
      BY <1>1, <3>4, <3>5, SoundKept
    <3>7. Quiet(t) /\ Flushing(t) = 0 /\ ~HasDummy(t)
      BY <1>3, <3>5, FlushesOnly DEF Quiet, Flushing, HasDummy
    <3>8. AtRest(t)
      BY <1>3, <1>8, <3>2, <3>5, <3>7 DEF AtRest
    <3> QED BY <3>4, <3>6, <3>7, <3>8 DEF Good, Phase, Passes, Quiet
  <2>6. CASE <<s.cur, s.param>> \in Ways /\ Tells(t, r, s.cur, <<d>>, <<d>>)
    <3>1. /\ Conserves(t, s) /\ Sound(t) /\ ~HasDummy(t) /\ Flushing(t) = 0
          /\ t.commands = <<>> /\ t.completions = <<>>
          /\ t.inProgress = s.inProgress /\ t.param = s.param
          /\ t.cur = s.cur /\ t.krn = <<d>> /\ t.prc = <<d>>
      BY <2>a, <2>b, <2>6
    <3>2. Moving(t)
      BY <1>8, <1>14, <2>6, <3>1 DEF Moving, Asked, d
    <3>3. Passes(t, "kernel")
      BY <1>12, <3>1, ListOfOne
    <3> QED BY <3>1, <3>2, <3>3 DEF Good, Phase
  <2>7. CASE s.param = "Idle" /\ \E sub \in Stops : Tells(t, r, sub, <<d>>, <<d>>)
    <3>1. PICK sub \in Stops : Tells(t, r, sub, <<d>>, <<d>>)
      BY <2>7
    <3>2. /\ Conserves(t, s) /\ Sound(t) /\ ~HasDummy(t) /\ Flushing(t) = 0
          /\ t.commands = <<>> /\ t.completions = <<>>
          /\ t.inProgress = s.inProgress /\ t.param = s.param
          /\ t.cur = sub /\ t.krn = <<d>> /\ t.prc = <<d>> /\ t.counted[sub] = <<>>
      BY <2>b, <3>1
    <3>3. Reporters(t) = 0
      <4>1. Len(t.counted[t.cur]) = 0 /\ Len(t.completions) = 0
        BY <3>2
      <4>2. 0 + 0 = 0
        OBVIOUS
      <4> QED BY <4>1, <4>2, Zenon DEF Reporters
    <3>4. Stopping(t)
      BY <1>8, <1>14, <2>7, <3>2, <3>3 DEF Stopping, Asked, d
    <3>5. Passes(t, "kernel")
      BY <1>12, <3>2, ListOfOne
    <3> QED BY <3>2, <3>4, <3>5 DEF Good, Phase
  <2> QED BY <2>4, <2>5, <2>6, <2>7
<1>15. s.inProgress \in {None, "StateSet", "Flush"}
  BY <1>1 DEF IsComp
<1> QED BY <1>3, <1>13, <1>14, <1>15

\* The turn of the state machine.
FsmStep(s) ==
    IF s.completions # <<>>
    THEN DispatchCompletion([s EXCEPT !.completions = Tail(@)], Head(s.completions))
    ELSE IF s.commands # <<>>
    THEN DispatchCommand([s EXCEPT !.commands = Tail(@)], Head(s.commands))
    ELSE s

\* It conserves the headers, and the kernel is next.
LEMMA FsmServes ==
    ASSUME NEW s, Good(s), Quiet(s), \A p \in Ports : s.back[p] = 0, NEW t, t = FsmStep(s)
    PROVE  Conserves(t, s) /\ Good(t) /\ Passes(t, "kernel")
<1>1. CASE s.completions # <<>>
  <2>1. t = DispatchCompletion([s EXCEPT !.completions = Tail(@)], Head(s.completions))
    BY <1>1 DEF FsmStep
  <2> QED BY <1>1, <2>1, CompletionServed
<1>2. CASE s.completions = <<>> /\ s.commands # <<>>
  <2>1. t = DispatchCommand([s EXCEPT !.commands = Tail(@)], Head(s.commands))
    BY <1>2 DEF FsmStep
  <2> QED BY <1>2, <2>1, CommandServed
<1>3. CASE s.completions = <<>> /\ s.commands = <<>>
  <2>1. t = s
    BY <1>3 DEF FsmStep
  <2>2. Moves(s, s)
    BY MovesSelf DEF Good, Sound
  <2> QED BY <2>1, <2>2 DEF Moves, Passes, Quiet
<1> QED BY <1>1, <1>2, <1>3

-----------------------------------------------------------------------------
(* The steps of the component                                              *)

\* s when the next step begins: its events and the headers it gave back are the client's.
Calm(s) == [s EXCEPT !.events = <<>>, !.back = [p \in Ports |-> 0]]

\* A number of headers given back is part of the sum.
LEMMA BackIsAdded ==
    ASSUME NEW a, NEW b, NEW c, NEW d, NEW e, NEW f, Ints(a, b, c, d, e, f)
    PROVE  Sum(a, b, c, d, e, 0) + f = Sum(a, b, c, d, e, f)
BY DEF Sum, Ints

\* So is one that is sent.
LEMMA SentIsAdded ==
    ASSUME NEW a, NEW b, NEW c, NEW d, NEW e, NEW f, Ints(a, b, c, d, e, f)
    PROVE  Sum(a + 1, b, c, d, e, f) = Sum(a, b, c, d, e, f) + 1
BY DEF Sum, Ints

\* What the client has taken is no longer in the component.
LEMMA CalmKeeps ==
    ASSUME NEW s, Good(s), NEW t, t = Calm(s)
    PROVE  /\ Good(t) /\ IsComp(t)
           /\ \A p \in Ports : /\ Total(t, p) + s.back[p] = Total(s, p)
                               /\ Total(t, p) \in Nat /\ s.back[p] \in Nat /\ t.back[p] = 0
           /\ t.krn = s.krn /\ t.prc = s.prc
<1>1. Sound(s) /\ IsComp(s) /\ Phase(s)
  BY DEF Good, Sound
<1>2. /\ DOMAIN t = Fields /\ t.back = [p \in Ports |-> 0]
      /\ t.cur = s.cur /\ t.inProgress = s.inProgress /\ t.param = s.param
      /\ t.cancellation = s.cancellation
      /\ t.counted = s.counted /\ t.completions = s.completions
      /\ t.commands = s.commands /\ t.krn = s.krn /\ t.prc = s.prc
      /\ t.failed = s.failed /\ t.completion = s.completion
      /\ t.efb = s.efb /\ t.ingress = s.ingress /\ t.egress = s.egress
      /\ t.callbacks = s.callbacks /\ t.hold = s.hold /\ t.port = s.port
      /\ t.ready = s.ready /\ t.packets = s.packets
  BY <1>1 DEF Calm, IsComp, Fields
<1>3. IsComp(t)
  BY <1>1, <1>2 DEF IsComp
<1>4. SameControl(t, s)
  BY <1>2 DEF SameControl, SameRest, HasDummy
<1>5. Phase(t)
  <2>1. Cleared(s) => Cleared(t) /\ (Returned(t) <=> Returned(s))
    BY <1>2 DEF Cleared, Returned
  <2> QED BY <1>1, <1>4, <2>1, PhaseKept
<1>6. ASSUME NEW p \in Ports
      PROVE  /\ Total(t, p) + s.back[p] = Total(s, p) /\ Total(t, p) \in Nat /\ s.back[p] \in Nat
             /\ t.back[p] = 0 /\ Debt(t, p) = Debt(s, p)
  <2>1. /\ Sent(t, p) = Sent(s, p) /\ Released(t, p) = Released(s, p) /\ Held(t, p) = Held(s, p)
        /\ t.ingress[p] = s.ingress[p] /\ t.egress[p] = s.egress[p]
        /\ t.back[p] = 0 /\ t.port[p] = s.port[p]
    BY <1>2 DEF Sent, Released, Held
  <2>2. /\ Sent(s, p) \in Nat /\ Len(s.ingress[p]) \in Nat /\ Held(s, p) \in Nat
        /\ Released(s, p) \in Nat /\ Len(s.egress[p]) \in Nat /\ s.back[p] \in Nat
    BY <1>1, Numbers
  <2>3. Total(t, p) = Sum(Sent(s, p), Len(s.ingress[p]), Held(s, p), Released(s, p), Len(s.egress[p]), 0)
    BY <2>1 DEF Total
  <2>4. Debt(t, p) = Debt(s, p)
    BY <2>1 DEF Debt
  <2>5. Total(s, p) = Sum(Sent(s, p), Len(s.ingress[p]), Held(s, p), Released(s, p),
                          Len(s.egress[p]), s.back[p])
    BY DEF Total
  <2>6. /\ Sum(Sent(s, p), Len(s.ingress[p]), Held(s, p), Released(s, p), Len(s.egress[p]), 0)
                + s.back[p]
             = Sum(Sent(s, p), Len(s.ingress[p]), Held(s, p), Released(s, p),
                   Len(s.egress[p]), s.back[p])
    <3>1. Ints(Sent(s, p), Len(s.ingress[p]), Held(s, p), Released(s, p),
               Len(s.egress[p]), s.back[p])
      BY <2>2 DEF Ints
    <3> QED BY <3>1, BackIsAdded
  <2>7. Sum(Sent(s, p), Len(s.ingress[p]), Held(s, p), Released(s, p), Len(s.egress[p]), 0) \in Nat
    <3>1. 0 \in Nat
      OBVIOUS
    <3> QED BY <2>2, <3>1, Sums
  <2> QED BY <2>1, <2>2, <2>3, <2>4, <2>5, <2>6, <2>7
<1>7. ASSUME NEW n \in Nat, NEW k \in Nat, NEW m \in Nat, n + k = m
      PROVE  n <= m /\ (m = 0 => n = 0)
  BY <1>7
<1>8. \A p \in Ports : Total(s, p) \in Nat
  BY <1>1, Numbers
<1>9. \A p \in Ports : Total(t, p) <= Total(s, p) /\ (Total(s, p) = 0 => Total(t, p) = 0)
  BY <1>6, <1>7, <1>8
<1>10. NBufs \in Nat
  BY PortAssumption
<1>11. \A p \in Ports : Total(t, p) <= NBufs
  <2>1. ASSUME NEW n \in Nat, NEW m \in Nat, NEW b \in Nat, n <= m, m <= b PROVE n <= b
    BY <2>1
  <2> QED BY <1>1, <1>6, <1>8, <1>9, <1>10, <2>1 DEF Sound
<1>12. Sound(t)
  BY <1>1, <1>2, <1>3, <1>6, <1>9, <1>11 DEF Sound
<1> QED BY <1>2, <1>3, <1>5, <1>6, <1>12 DEF Good

\* A header of the client enters the queue.
LEMMA SentMoves ==
    ASSUME NEW s, Good(s), s.cur \in {"Executing", "Pause"},
           NEW p \in Ports, NEW what \in Contents, Total(s, p) + 1 <= NBufs,
           NEW t, t = [s EXCEPT !.efb = Append(@, Header(p, what))]
    PROVE  /\ Good(t) /\ Total(t, p) = Total(s, p) + 1
           /\ \A q \in Ports : q # p => Total(t, q) = Total(s, q)
           /\ t.back = s.back /\ t.krn = s.krn /\ t.prc = s.prc
<1> DEFINE m == Header(p, what)
<1>1. Sound(s) /\ IsComp(s) /\ Phase(s)
  BY DEF Good, Sound
<1>2. m \in Headers(Ports) /\ m \in Callbacks /\ m.port = p
  <2>1. m \in Headers(Ports) /\ m \in Callbacks
    BY HeaderIs
  <2> QED BY <2>1 DEF Header
<1>3. s.efb \in Seq(Headers(Ports)) /\ s.efb \in Seq(Callbacks)
  BY <1>1, SentAreCallbacks DEF IsComp
<1> HIDE DEF m
<1>4. /\ DOMAIN t = Fields /\ t.efb = Append(s.efb, m)
      /\ t.cur = s.cur /\ t.inProgress = s.inProgress /\ t.param = s.param
      /\ t.cancellation = s.cancellation
      /\ t.counted = s.counted /\ t.completions = s.completions
      /\ t.commands = s.commands /\ t.krn = s.krn /\ t.prc = s.prc
      /\ t.failed = s.failed /\ t.completion = s.completion
      /\ t.back = s.back /\ t.ingress = s.ingress /\ t.egress = s.egress
      /\ t.callbacks = s.callbacks /\ t.hold = s.hold /\ t.port = s.port
      /\ t.ready = s.ready /\ t.packets = s.packets
  BY <1>1 DEF IsComp, Fields, m
<1>5. Append(s.efb, m) \in Seq(Headers(Ports))
  BY <1>2, <1>3
<1>6. IsComp(t)
  BY <1>1, <1>4, <1>5 DEF IsComp
<1>7. SameControl(t, s)
  BY <1>4 DEF SameControl, SameRest, HasDummy
<1>8. Phase(t)
  <2>1. s.cur \notin Stops
    BY DEF Stops
  <2> QED BY <1>1, <1>7, <2>1, PhaseKept
<1>9. ASSUME NEW q \in Ports
      PROVE  /\ Total(t, q) = Total(s, q) + (IF q = p THEN 1 ELSE 0)
             /\ Debt(t, q) = Debt(s, q) /\ Total(s, q) \in Nat
  <2>1. /\ Released(t, q) = Released(s, q) /\ Held(t, q) = Held(s, q)
        /\ t.ingress[q] = s.ingress[q] /\ t.egress[q] = s.egress[q]
        /\ t.back[q] = s.back[q] /\ t.port[q] = s.port[q]
    BY <1>4 DEF Released, Held
  <2>2. /\ Sent(s, q) \in Nat /\ Len(s.ingress[q]) \in Nat /\ Held(s, q) \in Nat
        /\ Released(s, q) \in Nat /\ Len(s.egress[q]) \in Nat /\ s.back[q] \in Nat
        /\ Total(s, q) \in Nat
    BY <1>1, Numbers
  <2>3. Sent(t, q) = Sent(s, q) + IF q = p THEN 1 ELSE 0
    BY <1>2, <1>3, <1>4, CarriedAppend DEF Sent
  <2>4. Debt(t, q) = Debt(s, q)
    BY <2>1 DEF Debt
  <2>5. CASE q = p
    <3>1. Sent(t, q) = Sent(s, q) + 1
      BY <2>3, <2>5
    <3>2. Total(t, q) = Sum(Sent(s, q) + 1, Len(s.ingress[q]), Held(s, q), Released(s, q),
                            Len(s.egress[q]), s.back[q])
      BY <2>1, <3>1 DEF Total
    <3>3. Total(s, q) = Sum(Sent(s, q), Len(s.ingress[q]), Held(s, q), Released(s, q),
                            Len(s.egress[q]), s.back[q])
      BY DEF Total
    <3>4. Sum(Sent(s, q) + 1, Len(s.ingress[q]), Held(s, q), Released(s, q),
              Len(s.egress[q]), s.back[q])
            = Sum(Sent(s, q), Len(s.ingress[q]), Held(s, q), Released(s, q),
                  Len(s.egress[q]), s.back[q]) + 1
      <4>1. Ints(Sent(s, q), Len(s.ingress[q]), Held(s, q), Released(s, q),
                 Len(s.egress[q]), s.back[q])
        BY <2>2 DEF Ints
      <4> QED BY <4>1, SentIsAdded
    <3>5. Total(t, q) = Total(s, q) + 1
      BY <3>2, <3>3, <3>4
    <3> QED BY <2>2, <2>4, <2>5, <3>5
  <2>6. CASE q # p
    <3>1. Sent(t, q) = Sent(s, q)
      BY <2>2, <2>3, <2>6
    <3>2. Total(t, q) = Total(s, q)
      BY <2>1, <3>1 DEF Total
    <3> QED BY <2>2, <2>4, <2>6, <3>2
  <2> QED BY <2>5, <2>6
<1>10. Total(t, p) = Total(s, p) + 1 /\ \A q \in Ports : q # p => Total(t, q) = Total(s, q)
  <2>1. Total(t, p) = Total(s, p) + 1
    BY <1>9
  <2>2. ASSUME NEW q \in Ports, q # p PROVE Total(t, q) = Total(s, q)
    <3>1. Total(t, q) = Total(s, q) + 0 /\ Total(s, q) \in Nat
      BY <1>9, <2>2
    <3> QED BY <3>1
  <2> QED BY <2>1, <2>2
<1>11. Sound(t)
  <2>1. \A q \in Ports : Total(t, q) <= NBufs
    <3>1. ASSUME NEW q \in Ports, q # p PROVE Total(t, q) <= NBufs
      BY <1>1, <1>10, <3>1 DEF Sound
    <3>2. Total(t, p) <= NBufs
      BY <1>10
    <3> QED BY <3>1, <3>2
  <2>2. \A q \in Ports : Debt(t, q) = 0
    BY <1>1, <1>9 DEF Sound
  <2> QED BY <1>1, <1>4, <1>6, <2>1, <2>2 DEF Sound
<1> QED BY <1>4, <1>8, <1>10, <1>11 DEF Good

\* A command of the client waits for the state machine.
LEMMA AcceptServed ==
    ASSUME NEW s, Good(s), s.inProgress = None, s.krn = <<>>, s.prc = <<>>, ~HasDummy(s),
           NEW c \in Commands, c.cmd = "Flush" => s.cur \in {"Executing", "Pause"},
           c = StateSet("Pause") => s.cur # "Idle",
           NEW t, t = AcceptCommand(s, c)
    PROVE  Conserves(t, s) /\ Good(t) /\ Quiet(t) /\ t.back = s.back
<1>1. Sound(s) /\ IsComp(s) /\ Phase(s)
  BY DEF Good, Sound
<1>2. /\ s.commands = <<>> /\ s.cur \in Stages /\ Reports(s, s.cur) /\ Flushing(s) = 0
  <2>1. AtRest(s)
    BY <1>1 DEF Phase, Accepted, Moving, Collecting, Stopping, None
  <2> QED BY <2>1 DEF AtRest
<1>3. /\ c = [cmd |-> c.cmd, param |-> c.param] /\ c \in Messages
      /\ \/ c.cmd = "StateSet" /\ c.param \in Stages /\ (s.cur = "Idle" => c.param # "Pause")
         \/ c.cmd = "Flush" /\ c.param \in Ports \cup {ALL} /\ s.cur \in {"Executing", "Pause"}
  <2>1. CASE c \in {StateSet(st) : st \in {"Idle", "Executing", "Pause"}}
    <3>1. PICK st \in Stages : c = StateSet(st)
      BY <2>1 DEF Stages
    <3>2. c.cmd = "StateSet" /\ c.param = st /\ c = [cmd |-> c.cmd, param |-> c.param]
      BY <3>1 DEF StateSet
    <3> QED BY <3>1, <3>2 DEF Messages
  <2>2. CASE c \in {PortCommand("Flush", x) : x \in Ports \cup {ALL}}
    <3>1. PICK x \in Ports \cup {ALL} : c = PortCommand("Flush", x)
      BY <2>2
    <3>2. c.cmd = "Flush" /\ c.param = x /\ c = [cmd |-> c.cmd, param |-> c.param]
      BY <3>1 DEF PortCommand
    <3> QED BY <3>1, <3>2 DEF Messages
  <2> QED BY <2>1, <2>2, BuffersAssumption
<1>4. t = [[s EXCEPT !.commands = Append(@, c)] EXCEPT !.inProgress = c.cmd, !.param = c.param]
  BY DEF AcceptCommand
<1>5. /\ DOMAIN t = Fields /\ t.commands = Append(s.commands, c)
      /\ t.inProgress = c.cmd /\ t.param = c.param
      /\ t.efb = s.efb /\ t.cur = s.cur /\ t.cancellation = s.cancellation
      /\ t.counted = s.counted /\ t.completions = s.completions
      /\ t.krn = s.krn /\ t.prc = s.prc
      /\ t.failed = s.failed /\ t.completion = s.completion
      /\ t.back = s.back /\ t.ingress = s.ingress /\ t.egress = s.egress
      /\ t.callbacks = s.callbacks /\ t.hold = s.hold /\ t.port = s.port
      /\ t.ready = s.ready /\ t.packets = s.packets
  BY <1>1, <1>4 DEF IsComp, Fields
<1>6. t.commands = <<c>> /\ t.commands \in Seq(Messages)
  <2>1. Append(<<>>, c) = <<c>> /\ <<c>> \in Seq(Messages)
    BY <1>3
  <2> QED BY <1>2, <1>5, <2>1
<1>7. IsComp(t) /\ SameHeaders(t, s)
  BY <1>1, <1>3, <1>5, <1>6 DEF IsComp, SameHeaders
<1>8. Conserves(t, s)
  BY <1>7, SameHeadersConserve
<1>9. Sound(t)
  BY <1>1, <1>5, <1>8, SoundKept
<1>10. Reports(t, t.cur) /\ Flushing(t) = 0 /\ ~HasDummy(t) /\ Quiet(t)
  BY <1>2, <1>5, FlushesOnly DEF Reports, Flushing, HasDummy, Quiet
<1>11. Accepted(t)
  <2>1. t.commands = <<[cmd |-> t.inProgress, param |-> t.param]>> /\ t.inProgress # None
    BY <1>3, <1>5, <1>6 DEF None
  <2> QED BY <1>2, <1>3, <1>5, <1>10, <2>1 DEF Accepted
<1> QED BY <1>5, <1>8, <1>9, <1>10, <1>11 DEF Good, Phase

-----------------------------------------------------------------------------
(* The invariant                                                           *)

\* What the steps of the servants leave behind.
Served(s) ==
    /\ Good(s) /\ client' = [p \in Ports |-> client[p] + s.back[p]]
    /\ \A p \in Ports : Total(s, p) = Total(Now, p)
    /\ comp' = s

\* Then the invariant holds once more.
LEMMA ServedKeeps ==
    ASSUME Inv, NEW s, Served(s), Passes(s, turn')
    PROVE  Inv'
<1>1. Good(s) /\ comp' = s /\ Now' = Calm(s)
  BY DEF Served, Now, Calm
<1>2. ASSUME NEW t, t = Calm(s)
      PROVE  /\ Good(t)
             /\ \A p \in Ports : /\ Total(t, p) + s.back[p] = Total(s, p)
                                 /\ Total(t, p) \in Nat /\ s.back[p] \in Nat
  BY <1>1, <1>2, CalmKeeps
<1>3. /\ Good(Calm(s))
      /\ \A p \in Ports : /\ Total(Calm(s), p) + s.back[p] = Total(s, p)
                          /\ Total(Calm(s), p) \in Nat /\ s.back[p] \in Nat
  BY <1>2
<1>4. ASSUME NEW p \in Ports
      PROVE  client'[p] \in Nat /\ client'[p] + Total(Calm(s), p) = NBufs
  <2>1. client[p] \in Nat /\ client[p] + Total(s, p) = NBufs
    BY DEF Inv, Served
  <2>2. client'[p] = client[p] + s.back[p]
    BY DEF Served
  <2>3. ASSUME NEW a \in Nat, NEW b \in Nat, NEW c \in Nat, NEW d, d = a + b, NEW e, c + d = e
        PROVE  c + b \in Nat /\ (c + b) + a = e
    BY <2>3
  <2>4. Total(Calm(s), p) + s.back[p] = Total(s, p) /\ Total(Calm(s), p) \in Nat /\ s.back[p] \in Nat
    BY <1>3
  <2> QED BY <2>1, <2>2, <2>3, <2>4
<1>5. client' \in [Ports -> Nat]
  BY <1>4 DEF Served
<1> QED BY <1>1, <1>3, <1>4, <1>5 DEF Inv

\* What holds when a step begins.
LEMMA NowIs ==
    ASSUME Inv
    PROVE  /\ Good(Now) /\ IsComp(Now) /\ Sound(Now) /\ DOMAIN comp = Fields
           /\ \A p \in Ports : Now.back[p] = 0
           /\ Now.cur = comp.cur /\ Now.inProgress = comp.inProgress /\ Now.param = comp.param
           /\ Now.krn = comp.krn /\ Now.prc = comp.prc /\ Now.callbacks = comp.callbacks
           /\ Now.efb = comp.efb /\ Now.ready = comp.ready /\ Now.hold = comp.hold
           /\ Now.ingress = comp.ingress /\ Now.egress = comp.egress /\ Now.port = comp.port
           /\ Now.completions = comp.completions /\ Now.commands = comp.commands
           /\ Now.failed = comp.failed
<1>1. Good(Now) /\ IsComp(Now) /\ Sound(Now)
  BY DEF Inv, Good, Sound
<1>2. DOMAIN comp = Fields
  BY <1>1 DEF IsComp, Now
<1> QED BY <1>1, <1>2 DEF Now, Fields

\* The servants' steps, as functions of what they find.
LEMMA TicksAre ==
    ASSUME Inv
    PROVE  /\ FsmTick => turn' = "kernel" /\ Serve(FsmStep(Now)) /\ turn \in {"fsm", "client"}
           /\ KernelTick => turn = "kernel" /\ turn' = "processor" /\ Serve(KernelStep(Now))
           /\ ProcessorTick => turn = "processor" /\ turn' = "client" /\ Serve(ProcessorStep(Now))
<1>1. /\ Now.krn = comp.krn /\ Now.prc = comp.prc /\ Now.callbacks = comp.callbacks
      /\ Now.efb = comp.efb /\ Now.ready = comp.ready
      /\ Now.completions = comp.completions /\ Now.commands = comp.commands
  BY NowIs
<1>2. FsmTick => turn' = "kernel" /\ Serve(FsmStep(Now)) /\ turn \in {"fsm", "client"}
  BY <1>1, Zenon DEF FsmTick, FsmStep, FsmRuns
<1>3. KernelTick => turn = "kernel" /\ turn' = "processor" /\ Serve(KernelStep(Now))
  BY <1>1, Zenon DEF KernelTick, KernelStep
<1>4. ProcessorTick => turn = "processor" /\ turn' = "client" /\ Serve(ProcessorStep(Now))
  BY <1>1, Zenon DEF ProcessorTick, ProcessorStep
<1> QED BY <1>2, <1>3, <1>4

\* What the client counts of a step.
LEMMA ServeIs ==
    ASSUME NEW s, Serve(s), Good(s), Conserves(s, Now)
    PROVE  Served(s)
BY DEF Serve, Served, Conserves, Balanced

\* The steps of the servants keep the invariant.
LEMMA FsmKeeps ==
    ASSUME Inv, FsmTick PROVE Inv'
<1>1. turn' = "kernel" /\ Serve(FsmStep(Now)) /\ turn \in {"fsm", "client"}
  BY TicksAre
<1>2. Good(Now) /\ Quiet(Now) /\ \A p \in Ports : Now.back[p] = 0
  BY <1>1, NowIs DEF Inv, Passes, Quiet
<1>3. ASSUME NEW s, Good(s), Quiet(s), \A p \in Ports : s.back[p] = 0
      PROVE  Conserves(FsmStep(s), s) /\ Good(FsmStep(s)) /\ Passes(FsmStep(s), "kernel")
  BY <1>3, FsmServes
<1>4. Conserves(FsmStep(Now), Now) /\ Good(FsmStep(Now)) /\ Passes(FsmStep(Now), "kernel")
  BY <1>2, <1>3
<1>5. Served(FsmStep(Now))
  BY <1>1, <1>4, ServeIs
<1>6. Passes(FsmStep(Now), turn')
  BY <1>1, <1>4
<1> QED BY <1>5, <1>6, ServedKeeps

\* The same of the kernel's.
LEMMA KernelKeeps ==
    ASSUME Inv, KernelTick PROVE Inv'
<1>1. turn = "kernel" /\ turn' = "processor" /\ Serve(KernelStep(Now))
  BY TicksAre
<1>2. Good(Now)
  BY DEF Inv
<1>3. ASSUME NEW s, Good(s)
      PROVE  Conserves(KernelStep(s), s) /\ Good(KernelStep(s)) /\ KernelStep(s).krn = <<>>
  BY <1>3, KernelServes
<1>4. Conserves(KernelStep(Now), Now) /\ Good(KernelStep(Now)) /\ KernelStep(Now).krn = <<>>
  BY <1>2, <1>3
<1>5. Served(KernelStep(Now))
  BY <1>1, <1>4, ServeIs
<1>6. Passes(KernelStep(Now), turn')
  BY <1>1, <1>4 DEF Passes
<1> QED BY <1>5, <1>6, ServedKeeps

\* The same of the processor's.
LEMMA ProcessorKeeps ==
    ASSUME Inv, ProcessorTick PROVE Inv'
<1>1. turn = "processor" /\ turn' = "client" /\ Serve(ProcessorStep(Now))
  BY TicksAre
<1>2. Good(Now) /\ Now.krn = <<>>
  BY <1>1, NowIs DEF Inv, Passes
<1>3. ASSUME NEW s, Good(s), s.krn = <<>>
      PROVE  /\ Conserves(ProcessorStep(s), s) /\ Good(ProcessorStep(s))
             /\ Quiet(ProcessorStep(s))
  BY <1>3, ProcessorServes
<1>4. Conserves(ProcessorStep(Now), Now) /\ Good(ProcessorStep(Now)) /\ Quiet(ProcessorStep(Now))
  BY <1>2, <1>3
<1>5. Served(ProcessorStep(Now))
  BY <1>1, <1>4, ServeIs
<1>6. Passes(ProcessorStep(Now), turn')
  BY <1>1, <1>4 DEF Passes, Quiet
<1> QED BY <1>5, <1>6, ServedKeeps

\* A command of the client.
LEMMA SendKeeps ==
    ASSUME Inv, NEW c \in Commands, SendCommand(c) PROVE Inv'
<1>1. /\ turn = "client" /\ turn' = "fsm" /\ client' = client /\ comp' = AcceptCommand(Now, c)
      /\ ClientMaySend(c)
  BY DEF SendCommand
<1>2. /\ Good(Now) /\ Now.inProgress = None /\ Now.krn = <<>> /\ Now.prc = <<>> /\ ~HasDummy(Now)
      /\ (c.cmd = "Flush" => Now.cur \in {"Executing", "Pause"})
      /\ (c = StateSet("Pause") => Now.cur # "Idle")
      /\ \A p \in Ports : Now.back[p] = 0
  BY <1>1, NowIs DEF ClientMaySend, HasDummy
<1>3. ASSUME NEW s, Good(s), s.inProgress = None, s.krn = <<>>, s.prc = <<>>, ~HasDummy(s),
             c.cmd = "Flush" => s.cur \in {"Executing", "Pause"},
             c = StateSet("Pause") => s.cur # "Idle"
      PROVE  LET t == AcceptCommand(s, c)
             IN  Conserves(t, s) /\ Good(t) /\ Quiet(t) /\ t.back = s.back
  BY <1>3, AcceptServed
<1> DEFINE t == AcceptCommand(Now, c)
<1>4. Conserves(t, Now) /\ Good(t) /\ Quiet(t) /\ t.back = Now.back
  BY <1>2, <1>3
<1> HIDE DEF t
<1>5. comp' = t
  BY <1>1 DEF t
<1>6. client' = [p \in Ports |-> client[p] + t.back[p]]
  <2>1. client \in [Ports -> Nat] /\ client' = client
    BY <1>1 DEF Inv
  <2>2. \A p \in Ports : t.back[p] = 0
    BY <1>2, <1>4
  <2>3. \A p \in Ports : client[p] + t.back[p] = client[p]
    BY <2>1, <2>2
  <2> QED BY <2>1, <2>3
<1>7. Served(t)
  BY <1>4, <1>5, <1>6 DEF Served, Conserves, Balanced
<1>8. Passes(t, turn')
  BY <1>1, <1>4 DEF Passes, Quiet
<1> QED BY <1>7, <1>8, ServedKeeps

\* A header of the client.
LEMMA TransferKeeps ==
    ASSUME Inv, NEW p \in Ports, NEW what \in Contents, MayTransfer(p), Transfer(p, what)
    PROVE  Inv'
<1> DEFINE t == [Now EXCEPT !.efb = Append(@, Header(p, what))]
<1>1. /\ turn = "client" /\ turn' = "fsm" /\ client' = [client EXCEPT ![p] = @ - 1]
      /\ comp' = t /\ comp.cur \in {"Executing", "Pause"} /\ client[p] > 0
  BY DEF Transfer, MayTransfer
<1>2. Good(Now) /\ IsComp(Now) /\ Now.cur = comp.cur /\ Now.krn = comp.krn /\ Now.prc = comp.prc
      /\ \A q \in Ports : Now.back[q] = 0
  BY NowIs
<1>3. /\ client \in [Ports -> Nat]
      /\ \A q \in Ports : client[q] \in Nat /\ Total(Now, q) \in Nat /\ client[q] + Total(Now, q) = NBufs
  BY <1>2, Numbers DEF Inv
<1>4. Total(Now, p) + 1 <= NBufs /\ client[p] - 1 \in Nat
  BY <1>1, <1>3
<1>5. ASSUME NEW s, Good(s), s.cur \in {"Executing", "Pause"}, Total(s, p) + 1 <= NBufs,
             NEW u, u = [s EXCEPT !.efb = Append(@, Header(p, what))]
      PROVE  /\ Good(u) /\ Total(u, p) = Total(s, p) + 1
             /\ \A q \in Ports : q # p => Total(u, q) = Total(s, q)
             /\ u.back = s.back /\ u.krn = s.krn /\ u.prc = s.prc
  BY <1>5, SentMoves
<1>6. /\ Good(t) /\ Total(t, p) = Total(Now, p) + 1
      /\ \A q \in Ports : q # p => Total(t, q) = Total(Now, q)
      /\ t.back = Now.back /\ t.krn = Now.krn /\ t.prc = Now.prc
  BY <1>1, <1>2, <1>4, <1>5
<1> HIDE DEF t
<1>7. Now' = Calm(t)
  BY <1>1 DEF Now, Calm
<1>8. ASSUME NEW u, u = Calm(t)
      PROVE  /\ Good(u)
             /\ \A q \in Ports : /\ Total(u, q) + t.back[q] = Total(t, q) /\ Total(u, q) \in Nat
  BY <1>6, <1>8, CalmKeeps
<1>9. Good(Calm(t)) /\ \A q \in Ports : Total(Calm(t), q) + t.back[q] = Total(t, q)
                                        /\ Total(Calm(t), q) \in Nat
  BY <1>8
<1>10. \A q \in Ports : Total(Calm(t), q) = Total(t, q)
  <2>1. ASSUME NEW q \in Ports PROVE Total(Calm(t), q) = Total(t, q)
    <3>1. t.back[q] = 0
      BY <1>2, <1>6
    <3>2. Total(Calm(t), q) + 0 = Total(t, q) /\ Total(Calm(t), q) \in Nat
      BY <1>9, <3>1
    <3> QED BY <3>2
  <2> QED BY <2>1
<1>11. client' \in [Ports -> Nat]
  BY <1>1, <1>3, <1>4
<1>12. ASSUME NEW q \in Ports PROVE client'[q] + Total(Calm(t), q) = NBufs
  <2>1. CASE q = p
    <3>1. client'[p] = client[p] - 1 /\ Total(Calm(t), p) = Total(Now, p) + 1
      BY <1>1, <1>3, <1>6, <1>10
    <3>2. client[p] \in Nat /\ Total(Now, p) \in Nat /\ client[p] + Total(Now, p) = NBufs
      BY <1>3
    <3> QED BY <2>1, <3>1, <3>2
  <2>2. CASE q # p
    <3>1. client'[q] = client[q] /\ Total(Calm(t), q) = Total(Now, q)
      BY <1>1, <1>3, <1>6, <1>10, <2>2
    <3> QED BY <1>3, <3>1
  <2> QED BY <2>1, <2>2
<1>13. Passes(comp', turn')
  BY <1>1, <1>2, <1>6 DEF Inv, Passes, Quiet
<1> QED BY <1>7, <1>9, <1>11, <1>12, <1>13 DEF Inv

\* Every step keeps the invariant.
LEMMA InvKept == Inv /\ [Next]_vars => Inv'
<1> SUFFICES ASSUME Inv, [Next]_vars PROVE Inv'
  OBVIOUS
<1>1. CASE \E c \in Commands : SendCommand(c)
  BY <1>1, SendKeeps
<1>2. CASE \E what \in {"data", "last"} : EmptyThisBuffer(what)
  <2>1. PICK what \in {"data", "last"} : EmptyThisBuffer(what)
    BY <1>2
  <2>2. what \in Contents /\ In \in Ports /\ MayTransfer(In) /\ Transfer(In, what)
    BY <2>1, TwoPorts DEF EmptyThisBuffer, Contents
  <2> QED BY <2>2, TransferKeeps
<1>3. CASE FillThisBuffer
  <2>1. "empty" \in Contents /\ Out \in Ports /\ MayTransfer(Out) /\ Transfer(Out, "empty")
    BY <1>3, TwoPorts DEF FillThisBuffer, Contents
  <2> QED BY <2>1, TransferKeeps
<1>4. CASE FsmTick
  BY <1>4, FsmKeeps
<1>5. CASE KernelTick
  BY <1>5, KernelKeeps
<1>6. CASE ProcessorTick
  BY <1>6, ProcessorKeeps
<1>7. CASE UNCHANGED vars
  <2>1. comp' = comp /\ client' = client /\ turn' = turn
    BY <1>7 DEF vars
  <2>2. Now' = Now
    BY <2>1 DEF Now
  <2> QED BY <2>1, <2>2 DEF Inv
<1> QED BY <1>1, <1>2, <1>3, <1>4, <1>5, <1>6, <1>7 DEF Next

\* It holds in the initial state: the client has every header.
LEMMA InvHolds == Init => Inv
<1> SUFFICES ASSUME Init PROVE Inv
  OBVIOUS
<1>1. /\ turn = "client" /\ client = [p \in Ports |-> NBufs]
      /\ DOMAIN comp = Fields
      /\ comp.cur = "Idle" /\ comp.inProgress = None /\ comp.cancellation = None
      /\ comp.counted = [st \in States |-> <<>>]
      /\ comp.completions = <<>> /\ comp.commands = <<>> /\ comp.completion = 0
      /\ comp.port = [p \in Ports |-> [InitialPort EXCEPT !.bufs = NBufs]]
      /\ comp.krn = <<>> /\ comp.callbacks = <<>> /\ comp.efb = <<>>
      /\ comp.ingress = NoHeaders /\ comp.egress = NoHeaders
      /\ comp.prc = <<>> /\ comp.ready = 0 /\ comp.hold = [p \in Ports |-> None]
      /\ comp.packets = 0 /\ comp.failed = None
  BY DEF Init, Fields
<1>2. /\ DOMAIN Now = Fields /\ Now.back = [p \in Ports |-> 0]
      /\ Now.cur = "Idle" /\ Now.inProgress = None /\ Now.cancellation = None
      /\ Now.counted = [st \in States |-> <<>>]
      /\ Now.completions = <<>> /\ Now.commands = <<>> /\ Now.completion = 0
      /\ Now.port = [p \in Ports |-> [InitialPort EXCEPT !.bufs = NBufs]]
      /\ Now.krn = <<>> /\ Now.callbacks = <<>> /\ Now.efb = <<>>
      /\ Now.ingress = NoHeaders /\ Now.egress = NoHeaders
      /\ Now.prc = <<>> /\ Now.ready = 0 /\ Now.hold = [p \in Ports |-> None]
      /\ Now.packets = 0 /\ Now.failed = None
  BY <1>1 DEF Now, Fields
<1> DEFINE r == [InitialPort EXCEPT !.bufs = NBufs]
<1>3. r \in PortRecord /\ r.claimed = 0 /\ r.flushing = FALSE
  <2>1. InitialPort \in [enabled : {TRUE}, beingEnabled : BOOLEAN, beingDisabled : BOOLEAN,
                         flushing : BOOLEAN, bufs : Nat, claimed : Int]
    BY DEF InitialPort
  <2>2. ASSUME NEW q \in [enabled : {TRUE}, beingEnabled : BOOLEAN, beingDisabled : BOOLEAN,
                          flushing : BOOLEAN, bufs : Nat, claimed : Int]
        PROVE  [q EXCEPT !.bufs = NBufs] \in PortRecord
    BY DEF PortRecord
  <2>3. r.claimed = 0 /\ r.flushing = FALSE
    BY DEF InitialPort
  <2> QED BY <2>1, <2>2, <2>3
<1>4. Now.port \in [Ports -> PortRecord]
  <2> HIDE DEF r
  <2> QED BY <1>2, <1>3 DEF r
<1>5. \A p \in Ports : Now.port[p].claimed = 0 /\ Now.port[p].flushing = FALSE
  BY <1>2, <1>3
<1>6. IsComp(Now)
  <2>1. Now.counted \in [States -> Seq(Completions)]
    BY <1>2
  <2>2. Now.ingress \in [Ports -> Seq(Contents)] /\ Now.egress \in [Ports -> Seq(Contents)]
    BY <1>2 DEF NoHeaders
  <2>3. Now.hold \in [Ports -> Contents \cup {None}] /\ Now.back \in [Ports -> Nat]
    BY <1>2
  <2>4. /\ <<>> \in Seq(Completions) /\ <<>> \in Seq(Messages) /\ <<>> \in Seq(Callbacks)
        /\ <<>> \in Seq(Headers(Ports))
    OBVIOUS
  <2>5. /\ Now.completions \in Seq(Completions) /\ Now.commands \in Seq(Messages)
        /\ Now.krn \in Seq(Messages) /\ Now.prc \in Seq(Messages)
        /\ Now.callbacks \in Seq(Callbacks) /\ Now.efb \in Seq(Headers(Ports))
    BY <1>2, <2>4
  <2>6. Now.completion \in Int /\ Now.ready \in Int /\ Now.packets \in Nat
    BY <1>2
  <2>7. /\ DOMAIN Now = Fields /\ Now.cur \in Stages \cup Stops
        /\ Now.inProgress \in {None, "StateSet", "Flush"} /\ Now.cancellation = None
    BY <1>2 DEF Stages
  <2> QED BY <1>4, <2>1, <2>2, <2>3, <2>5, <2>6, <2>7 DEF IsComp
<1>7. ASSUME NEW p \in Ports PROVE Total(Now, p) = 0 /\ Debt(Now, p) = 0
  <2>1. CarriedBy(<<>>, p) = <<>>
    <3>1. <<>> \in Seq(Callbacks) /\ Only(<<>>, Headers({p})) = <<>>
      BY OnlyEmpty
    <3> QED BY <3>1, CarriedEmpty
  <2>2. /\ Sent(Now, p) = 0 /\ Released(Now, p) = 0 /\ Held(Now, p) = 0
        /\ Len(Now.ingress[p]) = 0 /\ Len(Now.egress[p]) = 0 /\ Now.back[p] = 0
    <3>1. Len(<<>>) = 0
      OBVIOUS
    <3>2. Now.ingress[p] = <<>> /\ Now.egress[p] = <<>> /\ Now.back[p] = 0 /\ Now.hold[p] = None
      BY <1>2 DEF NoHeaders
    <3> QED BY <1>2, <2>1, <3>1, <3>2 DEF Sent, Released, Held
  <2>3. Sum(0, 0, 0, 0, 0, 0) = 0 /\ Rest(0, 0, 0) = 0
    BY DEF Sum, Rest
  <2> QED BY <1>5, <2>2, <2>3 DEF Total, Debt
<1>8. NBufs \in Nat
  BY PortAssumption
<1>9. Sound(Now)
  <2>1. \A st \in Stops : Now.counted[st] = <<>>
    BY <1>2 DEF Stops, States, SubStates
  <2>2. 0 <= NBufs
    BY <1>8
  <2> QED BY <1>2, <1>6, <1>7, <2>1, <2>2 DEF Sound
<1>10. Flushing(Now) = 0
  <2>1. ~Now.port[In].flushing /\ ~Now.port[Out].flushing
    BY <1>5, TwoPorts
  <2> QED BY <2>1 DEF Flushing
<1>11. Quiet(Now) /\ Reports(Now, Now.cur) /\ ~HasDummy(Now)
  BY <1>2, FlushesOnly DEF Quiet, Reports, HasDummy, ToSet
<1>12. AtRest(Now)
  BY <1>2, <1>10, <1>11 DEF AtRest, Stages
<1>13. Passes(comp, turn)
  BY <1>1, FlushesOnly DEF Passes, Quiet
<1>14. client \in [Ports -> Nat] /\ \A p \in Ports : client[p] + Total(Now, p) = NBufs
  <2>1. NBufs + 0 = NBufs
    BY <1>8
  <2> QED BY <1>1, <1>7, <1>8, <2>1
<1> QED BY <1>9, <1>12, <1>13, <1>14 DEF Inv, Good, Phase

Six(a, b, c, d, e, f) == a + b + c + d + e + f

\* The sum of the headers once more.
LEMMA SixAre ==
    ASSUME NEW n, NEW a, NEW b, NEW c, NEW d, NEW e, Ints(n, a, b, c, d, e)
    PROVE  Six(n, a, b, c, d, e) = n + Sum(a, b, c, d, e, 0)
BY DEF Six, Sum, Ints

\* The invariant says where the headers are.
LEMMA InvMeans == Inv => HeadersKept /\ IdleHasNone
<1> SUFFICES ASSUME Inv PROVE HeadersKept /\ IdleHasNone
  OBVIOUS
<1>1. /\ Sound(Now) /\ IsComp(Now) /\ Now.cur = comp.cur /\ Now.failed = comp.failed
      /\ Now.callbacks = comp.callbacks /\ Now.efb = comp.efb /\ Now.hold = comp.hold
      /\ Now.ingress = comp.ingress /\ Now.egress = comp.egress /\ Now.port = comp.port
      /\ \A p \in Ports : Now.back[p] = 0
  BY NowIs
<1>2. Alive
  BY <1>1 DEF Sound, Alive
<1>3. ASSUME NEW p \in Ports
      PROVE  /\ comp.port[p].claimed = Held(comp, p) + Released(comp, p)
             /\ Six(client[p], Len(CarriedBy(comp.efb, p)), Len(comp.ingress[p]),
                    Held(comp, p), Released(comp, p), Len(comp.egress[p])) = NBufs
             /\ comp.cur = "Idle" => client[p] = NBufs
  <2>1. /\ Held(Now, p) = Held(comp, p) /\ Released(Now, p) = Released(comp, p)
        /\ Sent(Now, p) = Len(CarriedBy(comp.efb, p))
    BY <1>1 DEF Held, Released, Sent
  <2>2. Now.port[p].claimed = Held(Now, p) + Released(Now, p)
    BY <1>1, ClaimedIs
  <2>3. /\ Sent(Now, p) \in Nat /\ Len(Now.ingress[p]) \in Nat /\ Held(Now, p) \in Nat
        /\ Released(Now, p) \in Nat /\ Len(Now.egress[p]) \in Nat
    BY <1>1, Numbers
  <2>4. Total(Now, p) = Sum(Sent(Now, p), Len(Now.ingress[p]), Held(Now, p), Released(Now, p),
                            Len(Now.egress[p]), 0)
    BY <1>1 DEF Total
  <2>5. client[p] \in Nat /\ client[p] + Total(Now, p) = NBufs
    BY DEF Inv
  <2>6. Ints(client[p], Sent(Now, p), Len(Now.ingress[p]), Held(Now, p), Released(Now, p),
             Len(Now.egress[p]))
    BY <2>3, <2>5 DEF Ints
  <2>7. Six(client[p], Sent(Now, p), Len(Now.ingress[p]), Held(Now, p), Released(Now, p),
            Len(Now.egress[p])) = NBufs
    BY <2>4, <2>5, <2>6, SixAre
  <2>8. comp.cur = "Idle" => client[p] = NBufs
    <3>1. comp.cur = "Idle" => Total(Now, p) = 0
      BY <1>1 DEF Sound
    <3>2. ASSUME NEW n \in Nat, NEW m, n + m = NBufs, m = 0 PROVE n = NBufs
      BY <3>2
    <3> QED BY <2>5, <3>1, <3>2
  <2> QED BY <1>1, <2>1, <2>2, <2>7, <2>8
<1>4. HeadersKept
  BY <1>2, <1>3 DEF HeadersKept, Held, Released, Six
<1>5. IdleHasNone
  BY <1>3 DEF IdleHasNone
<1> QED BY <1>4, <1>5

-----------------------------------------------------------------------------
(* The end of the stream                                                   *)

Has(q, what) == \E i \in 1 .. Len(q) : q[i] = what

\* The end of the stream can only be the last header of q.
Rear(q) == \A i \in 1 .. Len(q) : q[i] = "last" => i = Len(q)

\* No data comes in q behind the end of the stream.
Closed(q) == \A i, j \in 1 .. Len(q) : i < j /\ q[i] = "last" => q[j] # "data"

\* All that q carries is empty.
Blank(q) == \A i \in 1 .. Len(q) : q[i] = "empty"

\* A BufferFlag event has been raised.
Announced(s) == \E i \in 1 .. Len(s.events) : s.events[i].cmd = "BufferFlag"

\* What the client sends on p, and what has been released on p, in order.
Efb(s, p) == CarriedBy(s.efb, p)
Back(s, p) == CarriedBy(s.callbacks, p)

\* The queues and lists of s are such, and nothing on the way to the processor
\* on the output port is more than an empty header.
Plain(s) ==
    /\ DOMAIN s = Fields
    /\ s.callbacks \in Seq(Callbacks) /\ s.efb \in Seq(Headers(Ports))
    /\ s.ingress \in [Ports -> Seq(Contents)] /\ s.egress \in [Ports -> Seq(Contents)]
    /\ s.hold \in [Ports -> Contents \cup {None}]
    /\ s.inProgress # "BufferFlag"
    /\ \E S : s.events \in Seq(S)
    /\ s.hold[Out] \in {None, "empty"} /\ Blank(s.ingress[Out]) /\ Blank(Efb(s, Out))

\* Of the input nothing is left to be decoded.
Drained(s) == Efb(s, In) = <<>> /\ s.ingress[In] = <<>> /\ s.hold[In] = None

\* The end of the stream is the last that comes in.
Trailing(s) ==
    /\ Rear(s.ingress[In]) /\ Rear(Efb(s, In))
    /\ Has(s.ingress[In], "last") => Efb(s, In) = <<>>
    /\ s.hold[In] = "last" => s.ingress[In] = <<>> /\ Efb(s, In) = <<>>

NotIn(s) ==
    /\ s.hold[In] # "last"
    /\ ~Has(s.ingress[In], "last") /\ ~Has(Efb(s, In), "last")

NotOut(s) == ~Has(s.egress[Out], "last") /\ ~Has(Back(s, Out), "last")

\* The end of the stream is the last that goes out.
Sealed(s) ==
    /\ Closed(s.egress[Out]) /\ Closed(Back(s, Out))
    /\ Has(s.egress[Out], "last") => ~Has(Back(s, Out), "data")

\* The end of the stream is nowhere in the component.
Fresh(s) == NotIn(s) /\ NotOut(s)

\* The end of the stream comes last, on its way in and on its way out.
Ordered(s) == Trailing(s) /\ (NotOut(s) \/ (Drained(s) /\ Sealed(s)))

\* The stream has been decoded, and what was decoded of it has left.
Finished(s) ==
    Drained(s) /\ ~Has(s.egress[Out], "data") /\ ~Has(Back(s, Out), "data")

\* The end of the stream is where the client's view of it has it.
EosInv ==
    /\ Plain(comp)
    /\ last = "none" => Fresh(comp)
    /\ last = "sent" => Ordered(comp)

\* From s to t the order of the stream is kept; and if its end is announced, it has
\* finished.
Flow(t, s) ==
    Plain(s) =>
        /\ Plain(t)
        /\ Fresh(s) => Fresh(t)
        /\ Ordered(s) => Ordered(t)
        /\ Finished(s) => Finished(t)
        /\ Announced(t) /\ ~Announced(s) => ~Fresh(s) /\ (Ordered(s) => Finished(t))

NoData(s) == ~Has(s.egress[Out], "data") /\ ~Has(Back(s, Out), "data")

\* The same for what comes in and for what goes out.
FlowIn(t, s) ==
    /\ NotIn(s) => NotIn(t)
    /\ Trailing(s) => Trailing(t)
    /\ Drained(s) => Drained(t)

FlowOut(t, s) ==
    /\ NotOut(s) => NotOut(t)
    /\ Sealed(s) => Sealed(t)
    /\ NoData(s) => NoData(t)

\* From s to t no end of a stream is announced.
Talks(t, s) ==
    \/ t.events = s.events
    \/ \E e : e.cmd # "BufferFlag" /\ t.events = Append(s.events, e)

SameQueues(t, s) ==
    /\ t.efb = s.efb /\ t.callbacks = s.callbacks
    /\ t.ingress = s.ingress /\ t.egress = s.egress /\ t.hold = s.hold

\* From s to t no header moves.
Still(t, s) ==
    /\ DOMAIN t = Fields /\ SameQueues(t, s) /\ Talks(t, s)
    /\ t.inProgress # "BufferFlag"

-----------------------------------------------------------------------------
(* Lists of contents                                                       *)

\* What two lists in a row have.
LEMMA HasJoined ==
    ASSUME NEW a \in Seq(Contents), NEW b \in Seq(Contents), NEW what
    PROVE  Has(a \o b, what) <=> Has(a, what) \/ Has(b, what)
<1> DEFINE q == a \o b
<1>1. /\ Len(a) \in Nat /\ Len(b) \in Nat /\ Len(q) = Len(a) + Len(b)
      /\ \A i \in 1 .. Len(a) : q[i] = a[i]
      /\ \A i \in 1 .. Len(b) : q[Len(a) + i] = b[i]
  BY Joined
<1> HIDE DEF q
<1>2. ASSUME NEW i \in 1 .. Len(q), q[i] = what PROVE Has(a, what) \/ Has(b, what)
  <2>1. CASE i <= Len(a)
    BY <1>1, <1>2, <2>1 DEF Has
  <2>2. CASE ~(i <= Len(a))
    <3>1. i - Len(a) \in 1 .. Len(b) /\ Len(a) + (i - Len(a)) = i
      BY <1>1, <2>2
    <3> QED BY <1>1, <1>2, <3>1 DEF Has
  <2> QED BY <2>1, <2>2
<1>3. ASSUME NEW i \in 1 .. Len(a), a[i] = what PROVE Has(q, what)
  <2>1. i \in 1 .. Len(q) /\ q[i] = what
    BY <1>1, <1>3
  <2> QED BY <2>1 DEF Has
<1>4. ASSUME NEW i \in 1 .. Len(b), b[i] = what PROVE Has(q, what)
  <2>1. Len(a) + i \in 1 .. Len(q) /\ q[Len(a) + i] = what
    BY <1>1, <1>4
  <2> QED BY <2>1 DEF Has
<1> QED BY <1>2, <1>3, <1>4 DEF Has, q

\* Two blank lists in a row are one.
LEMMA BlankJoined ==
    ASSUME NEW a \in Seq(Contents), NEW b \in Seq(Contents)
    PROVE  Blank(a \o b) <=> Blank(a) /\ Blank(b)
<1> DEFINE q == a \o b
<1>1. /\ Len(a) \in Nat /\ Len(b) \in Nat /\ Len(q) = Len(a) + Len(b)
      /\ \A i \in 1 .. Len(a) : q[i] = a[i]
      /\ \A i \in 1 .. Len(b) : q[Len(a) + i] = b[i]
  BY Joined
<1> HIDE DEF q
<1>2. ASSUME Blank(a), Blank(b), NEW i \in 1 .. Len(q) PROVE q[i] = "empty"
  <2>1. CASE i <= Len(a)
    BY <1>1, <1>2, <2>1 DEF Blank
  <2>2. CASE ~(i <= Len(a))
    <3>1. i - Len(a) \in 1 .. Len(b) /\ Len(a) + (i - Len(a)) = i
      BY <1>1, <2>2
    <3> QED BY <1>1, <1>2, <3>1 DEF Blank
  <2> QED BY <2>1, <2>2
<1>3. ASSUME Blank(q), NEW i \in 1 .. Len(a) PROVE a[i] = "empty"
  <2>1. i \in 1 .. Len(q) /\ q[i] = a[i]
    BY <1>1
  <2> QED BY <1>3, <2>1 DEF Blank
<1>4. ASSUME Blank(q), NEW i \in 1 .. Len(b) PROVE b[i] = "empty"
  <2>1. Len(a) + i \in 1 .. Len(q) /\ q[Len(a) + i] = b[i]
    BY <1>1
  <2> QED BY <1>4, <2>1 DEF Blank
<1> QED BY <1>2, <1>3, <1>4 DEF Blank, q

\* The end of the stream in two lists in a row.
LEMMA RearJoined ==
    ASSUME NEW a \in Seq(Contents), NEW b \in Seq(Contents)
    PROVE  Rear(a \o b) <=>
                /\ Rear(b)
                /\ b = <<>> => Rear(a)
                /\ b # <<>> => ~Has(a, "last")
<1> DEFINE q == a \o b
<1>1. /\ Len(a) \in Nat /\ Len(b) \in Nat /\ Len(q) = Len(a) + Len(b)
      /\ \A i \in 1 .. Len(a) : q[i] = a[i]
      /\ \A i \in 1 .. Len(b) : q[Len(a) + i] = b[i]
      /\ b = <<>> => q = a
  BY Joined, ConcatEmptySeq
<1>2. b # <<>> => Len(b) > 0
  BY <1>1, EmptySeq
<1> HIDE DEF q
<1>3. CASE b = <<>>
  <2>1. Rear(b)
    BY <1>3 DEF Rear
  <2> QED BY <1>1, <1>3, <2>1 DEF q
<1>4. CASE b # <<>>
  <2>1. ASSUME Rear(q), NEW i \in 1 .. Len(b), b[i] = "last" PROVE i = Len(b)
    <3>1. Len(a) + i \in 1 .. Len(q) /\ q[Len(a) + i] = "last"
      BY <1>1, <2>1
    <3> QED BY <1>1, <2>1, <3>1 DEF Rear
  <2>2. ASSUME Rear(q), NEW i \in 1 .. Len(a), a[i] = "last" PROVE FALSE
    <3>1. i \in 1 .. Len(q) /\ q[i] = "last" /\ i # Len(q)
      BY <1>1, <1>2, <1>4, <2>2
    <3> QED BY <2>2, <3>1 DEF Rear
  <2>3. ASSUME Rear(b), ~Has(a, "last"), NEW i \in 1 .. Len(q), q[i] = "last" PROVE i = Len(q)
    <3>1. ~(i <= Len(a))
      BY <1>1, <2>3 DEF Has
    <3>2. i - Len(a) \in 1 .. Len(b) /\ Len(a) + (i - Len(a)) = i
      BY <1>1, <3>1
    <3>3. i - Len(a) = Len(b)
      BY <1>1, <2>3, <3>2 DEF Rear
    <3> QED BY <1>1, <3>3
  <2>4. Rear(q) => Rear(b) /\ ~Has(a, "last")
    BY <2>1, <2>2 DEF Rear, Has
  <2>5. Rear(b) /\ ~Has(a, "last") => Rear(q)
    BY <2>3 DEF Rear
  <2> QED BY <1>4, <2>4, <2>5 DEF q
<1> QED BY <1>3, <1>4

\* No data behind the end of the stream in two lists in a row.
LEMMA ClosedJoined ==
    ASSUME NEW a \in Seq(Contents), NEW b \in Seq(Contents)
    PROVE  Closed(a \o b) <=>
                Closed(a) /\ Closed(b) /\ (Has(a, "last") => ~Has(b, "data"))
<1> DEFINE q == a \o b
<1>1. /\ Len(a) \in Nat /\ Len(b) \in Nat /\ Len(q) = Len(a) + Len(b)
      /\ \A i \in 1 .. Len(a) : q[i] = a[i]
      /\ \A i \in 1 .. Len(b) : q[Len(a) + i] = b[i]
  BY Joined
<1> HIDE DEF q
<1>2. ASSUME Closed(q), NEW i \in 1 .. Len(a), NEW j \in 1 .. Len(a), i < j, a[i] = "last"
      PROVE  a[j] # "data"
  <2>1. i \in 1 .. Len(q) /\ j \in 1 .. Len(q) /\ q[i] = "last" /\ q[j] = a[j]
    BY <1>1, <1>2
  <2> QED BY <1>2, <2>1 DEF Closed
<1>3. ASSUME Closed(q), NEW i \in 1 .. Len(b), NEW j \in 1 .. Len(b), i < j, b[i] = "last"
      PROVE  b[j] # "data"
  <2>1. /\ Len(a) + i \in 1 .. Len(q) /\ Len(a) + j \in 1 .. Len(q) /\ Len(a) + i < Len(a) + j
        /\ q[Len(a) + i] = "last" /\ q[Len(a) + j] = b[j]
    BY <1>1, <1>3
  <2> QED BY <1>3, <2>1 DEF Closed
<1>4. ASSUME Closed(q), NEW i \in 1 .. Len(a), NEW j \in 1 .. Len(b), a[i] = "last"
      PROVE  b[j] # "data"
  <2>1. /\ i \in 1 .. Len(q) /\ Len(a) + j \in 1 .. Len(q) /\ i < Len(a) + j
        /\ q[i] = "last" /\ q[Len(a) + j] = b[j]
    BY <1>1, <1>4
  <2> QED BY <1>4, <2>1 DEF Closed
<1>5. ASSUME Closed(a), Closed(b), Has(a, "last") => ~Has(b, "data"),
             NEW i \in 1 .. Len(q), NEW j \in 1 .. Len(q), i < j, q[i] = "last"
      PROVE  q[j] # "data"
  <2>1. CASE j <= Len(a)
    <3>1. i \in 1 .. Len(a) /\ j \in 1 .. Len(a) /\ a[i] = "last" /\ a[j] = q[j]
      BY <1>1, <1>5, <2>1
    <3> QED BY <1>5, <3>1 DEF Closed
  <2>2. CASE ~(j <= Len(a))
    <3>1. j - Len(a) \in 1 .. Len(b) /\ Len(a) + (j - Len(a)) = j
      BY <1>1, <2>2
    <3>2. q[j] = b[j - Len(a)]
      BY <1>1, <3>1
    <3>3. CASE i <= Len(a)
      <4>1. Has(a, "last")
        BY <1>1, <1>5, <3>3 DEF Has
      <4> QED BY <1>5, <3>1, <3>2, <4>1 DEF Has
    <3>4. CASE ~(i <= Len(a))
      <4>1. i - Len(a) \in 1 .. Len(b) /\ Len(a) + (i - Len(a)) = i /\ i - Len(a) < j - Len(a)
        BY <1>1, <1>5, <3>4
      <4>2. b[i - Len(a)] = "last"
        BY <1>1, <1>5, <4>1
      <4> QED BY <1>5, <3>1, <3>2, <4>1, <4>2 DEF Closed
    <3> QED BY <3>3, <3>4
  <2> QED BY <2>1, <2>2
<1>6. Closed(q) => Closed(a) /\ Closed(b) /\ (Has(a, "last") => ~Has(b, "data"))
  BY <1>2, <1>3, <1>4 DEF Closed, Has
<1>7. Closed(a) /\ Closed(b) /\ (Has(a, "last") => ~Has(b, "data")) => Closed(q)
  BY <1>5 DEF Closed
<1> QED BY <1>6, <1>7 DEF q

\* The empty list, and a list of one.
LEMMA ShortLists ==
    /\ <<>> \in Seq(Contents)
    /\ \A what : ~Has(<<>>, what)
    /\ Blank(<<>>) /\ Rear(<<>>) /\ Closed(<<>>)
    /\ \A x \in Contents :
        /\ <<x>> \in Seq(Contents) /\ <<x>> # <<>>
        /\ \A what : Has(<<x>>, what) <=> x = what
        /\ Blank(<<x>>) <=> x = "empty"
        /\ Rear(<<x>>) /\ Closed(<<x>>)
<1>1. Len(<<>>) = 0 /\ <<>> \in Seq(Contents)
  BY EmptySeq
<1>2. ASSUME NEW x \in Contents
      PROVE  /\ <<x>> \in Seq(Contents) /\ <<x>> # <<>> /\ Len(<<x>>) = 1 /\ <<x>>[1] = x
  OBVIOUS
<1>3. 1 .. 0 = {} /\ 1 .. 1 = {1}
  OBVIOUS
<1>4. ASSUME NEW x \in Contents
      PROVE  /\ \A what : Has(<<x>>, what) <=> x = what
             /\ Blank(<<x>>) <=> x = "empty"
             /\ Rear(<<x>>) /\ Closed(<<x>>)
  <2> PICK q : q = <<x>>
    OBVIOUS
  <2>1. Len(q) = 1 /\ q[1] = x
    BY <1>2
  <2>2. \A i \in 1 .. Len(q) : i = 1
    BY <2>1
  <2>3. 1 \in 1 .. Len(q) /\ ~(1 < 1)
    BY <2>1
  <2>4. \A what : Has(q, what) <=> x = what
    BY <2>1, <2>2, <2>3 DEF Has
  <2>5. (Blank(q) <=> x = "empty") /\ Rear(q) /\ Closed(q)
    BY <2>1, <2>2, <2>3 DEF Blank, Rear, Closed
  <2> QED BY <2>4, <2>5
<1> QED BY <1>1, <1>2, <1>3, <1>4 DEF Has, Blank, Rear, Closed

\* A list is its head and the rest.
LEMMA Beheaded ==
    ASSUME NEW S, NEW q \in Seq(S), q # <<>>
    PROVE  Tail(q) \in Seq(S) /\ Head(q) \in S /\ q = <<Head(q)>> \o Tail(q) /\ <<Head(q)>> \in Seq(S)
OBVIOUS

\* The headers of a port in two queues in a row.
LEMMA CarriedJoined ==
    ASSUME NEW a \in Seq(Callbacks), NEW b \in Seq(Callbacks), NEW p \in Ports
    PROVE  CarriedBy(a \o b, p) = CarriedBy(a, p) \o CarriedBy(b, p)
<1> DEFINE T == Headers({p})
           g == [m \in Callbacks |-> m.what]
           D == {m.what : m \in Callbacks}
<1>1. Into(g, Callbacks, D)
  BY DEF Into
<1>2. ASSUME NEW q \in Seq(Callbacks)
      PROVE  Only(q, T) \in Seq(Callbacks) /\ CarriedBy(q, p) = Mapped(Only(q, T), g)
  <2>1. Only(q, T) \in Seq(Callbacks)
    BY OnlyPicks
  <2>2. ASSUME NEW r \in Seq(Callbacks)
        PROVE  [i \in 1 .. Len(r) |-> r[i].what] = Mapped(r, g)
    <3>1. DOMAIN r = 1 .. Len(r) /\ \A i \in 1 .. Len(r) : r[i] \in Callbacks
      BY LenProperties, ElementOfSeq
    <3>2. \A i \in 1 .. Len(r) : g[r[i]] = r[i].what
      BY <3>1
    <3> HIDE DEF g
    <3> QED BY <3>1, <3>2 DEF Mapped
  <2> HIDE DEF g
  <2> QED BY <2>1, <2>2 DEF CarriedBy
<1> HIDE DEF T, g, D
<1>3. a \o b \in Seq(Callbacks)
  BY ConcatProperties
<1>4. Only(a \o b, T) = Only(a, T) \o Only(b, T)
  BY OnlyConcat
<1>5. Mapped(Only(a, T) \o Only(b, T), g) = Mapped(Only(a, T), g) \o Mapped(Only(b, T), g)
  <2>1. ASSUME NEW u \in Seq(Callbacks), NEW v \in Seq(Callbacks)
        PROVE  Mapped(u \o v, g) = Mapped(u, g) \o Mapped(v, g)
    BY <1>1, MappedConcat
  <2> QED BY <1>2, <2>1
<1> QED BY <1>2, <1>3, <1>4, <1>5

\* One header is carried for its port.
LEMMA CarriedOne ==
    ASSUME NEW m \in Callbacks, NEW p \in Ports
    PROVE  /\ <<m>> \in Seq(Callbacks)
           /\ CarriedBy(<<m>>, p) = IF m.port = p THEN <<m.what>> ELSE <<>>
<1>1. <<m>> \in Seq(Callbacks)
  OBVIOUS
<1>2. m \in Headers({p}) <=> m.port = p
  BY HeaderIs
<1>3. Only(<<m>>, Headers({p})) = IF m.port = p THEN <<m>> ELSE <<>>
  BY <1>2, OnlyOne
<1>4. CASE m.port = p
  <2>1. Only(<<m>>, Headers({p})) = <<m>>
    BY <1>3, <1>4
  <2>2. Len(<<m>>) = 1 /\ <<m>>[1] = m
    OBVIOUS
  <2>3. [i \in 1 .. 1 |-> <<m>>[i].what] = <<m.what>>
    BY <2>2
  <2> QED BY <1>1, <1>4, <2>1, <2>2, <2>3 DEF CarriedBy
<1>5. CASE m.port # p
  BY <1>1, <1>3, <1>5, CarriedEmpty
<1> QED BY <1>4, <1>5

-----------------------------------------------------------------------------
(* The flow of the stream                                                  *)

\* An event more.
LEMMA EventsGrow ==
    ASSUME NEW q, \E S : q \in Seq(S), NEW e, NEW r, r = Append(q, e)
    PROVE  /\ \E S : r \in Seq(S)
           /\ (\E i \in 1 .. Len(r) : r[i].cmd = "BufferFlag")
                    <=> (\E i \in 1 .. Len(q) : q[i].cmd = "BufferFlag") \/ e.cmd = "BufferFlag"
<1>1. PICK S : q \in Seq(S)
  OBVIOUS
<1> DEFINE T == S \cup {e}
<1>2. Len(q) \in Nat /\ q \in [1 .. Len(q) -> S]
  BY <1>1, LenProperties
<1>3. q \in [1 .. Len(q) -> T] /\ e \in T
  BY <1>2
<1> HIDE DEF T
<1>4. q \in Seq(T)
  BY <1>2, <1>3, SeqDef
<1>5. /\ r \in Seq(T) /\ Len(r) = Len(q) + 1
      /\ \A i \in 1 .. Len(q) : r[i] = q[i]
      /\ r[Len(q) + 1] = e
  BY <1>3, <1>4, AppendProperties
<1>6. 1 .. Len(r) = (1 .. Len(q)) \cup {Len(q) + 1}
  BY <1>2, <1>5
<1> QED BY <1>5, <1>6

\* Flows can be put together.
LEMMA FlowTwice ==
    ASSUME NEW s, NEW t, NEW u, Flow(t, s), Flow(u, t)
    PROVE  Flow(u, s)
BY DEF Flow

\* Whoever does nothing keeps the order.
LEMMA FlowSelf == \A s : Flow(s, s)
BY DEF Flow

\* What flows in and out flows.
LEMMA FlowParts ==
    ASSUME NEW s, NEW t, Plain(s) => Plain(t) /\ FlowIn(t, s) /\ FlowOut(t, s),
           Plain(s) /\ Announced(t) => Announced(s)
    PROVE  Flow(t, s)
BY DEF Flow, FlowIn, FlowOut, Fresh, Ordered, Finished, NoData

\* Who talks of other things does not announce the end.
LEMMA TalksOnly ==
    ASSUME NEW s, NEW t, Plain(s), Talks(t, s)
    PROVE  (\E S : t.events \in Seq(S)) /\ (Announced(t) => Announced(s))
<1>1. CASE t.events = s.events
  BY <1>1 DEF Plain, Announced
<1>2. CASE t.events # s.events
  <2>1. PICK e : e.cmd # "BufferFlag" /\ t.events = Append(s.events, e)
    BY <1>2 DEF Talks
  <2> DEFINE q == s.events
             r == t.events
  <2>2. (\E S : q \in Seq(S)) /\ r = Append(q, e)
    BY <2>1 DEF Plain
  <2> HIDE DEF q, r
  <2>3. /\ \E S : r \in Seq(S)
        /\ (\E i \in 1 .. Len(r) : r[i].cmd = "BufferFlag")
                <=> (\E i \in 1 .. Len(q) : q[i].cmd = "BufferFlag") \/ e.cmd = "BufferFlag"
    BY <2>2, EventsGrow
  <2> QED BY <2>1, <2>3 DEF q, r, Announced
<1> QED BY <1>1, <1>2

\* Nothing that moves no header disturbs the flow.
LEMMA StillFlows ==
    ASSUME NEW s, NEW t, Plain(s) => Still(t, s)
    PROVE  Flow(t, s)
<1>1. ASSUME Plain(s) PROVE Plain(t) /\ FlowIn(t, s) /\ FlowOut(t, s) /\ (Announced(t) => Announced(s))
  <2>1. Still(t, s)
    BY <1>1
  <2>2. (\E S : t.events \in Seq(S)) /\ (Announced(t) => Announced(s))
    BY <1>1, <2>1, TalksOnly DEF Still
  <2>3. Plain(t)
    BY <1>1, <2>1, <2>2 DEF Plain, Still, SameQueues, Efb
  <2>4. FlowIn(t, s)
    BY <2>1 DEF Still, SameQueues, FlowIn, NotIn, Trailing, Drained, Efb
  <2>5. FlowOut(t, s)
    BY <2>1 DEF Still, SameQueues, FlowOut, NotOut, Sealed, NoData, Back
  <2> QED BY <2>2, <2>3, <2>4, <2>5
<1> QED BY <1>1, FlowParts

\* The lists of a port are what they should be.
LEMMA PlainLists ==
    ASSUME NEW s, Plain(s), NEW p \in Ports
    PROVE  /\ s.ingress[p] \in Seq(Contents) /\ s.egress[p] \in Seq(Contents)
           /\ s.efb \in Seq(Callbacks) /\ s.callbacks \in Seq(Callbacks)
           /\ Efb(s, p) \in Seq(Contents) /\ Back(s, p) \in Seq(Contents)
           /\ In \in Ports /\ Out \in Ports /\ In # Out
<1>1. s.efb \in Seq(Callbacks) /\ s.callbacks \in Seq(Callbacks)
  BY SentAreCallbacks DEF Plain
<1>2. Efb(s, p) \in Seq(Contents) /\ Back(s, p) \in Seq(Contents)
  BY <1>1, CarriedType DEF Efb, Back
<1> QED BY <1>1, <1>2, TwoPorts DEF Plain

\* What has left is no longer there.
LEMMA FlushEgressFlows ==
    ASSUME NEW s, NEW p \in Ports, NEW t, t = FlushEgress(s, p)
    PROVE  Flow(t, s)
<1> SUFFICES ASSUME Plain(s) PROVE Flow(t, s)
  BY DEF Flow
<1> DEFINE q == s.egress[Out]
           told == p = Out /\ "last" \in ToSet(s.egress[p]) /\ ~s.eosTold
<1>1. /\ DOMAIN t = Fields
      /\ t.egress = [s.egress EXCEPT ![p] = <<>>]
      /\ t.ingress = s.ingress /\ t.efb = s.efb /\ t.callbacks = s.callbacks
      /\ t.hold = s.hold /\ t.inProgress = s.inProgress
      /\ ~told => t.events = s.events
      /\ told => t.events = Append(s.events, [cmd |-> "BufferFlag", param |-> p, error |-> None])
  BY DEF FlushEgress, Event, Plain, Fields
<1>2. /\ s.egress \in [Ports -> Seq(Contents)] /\ q \in Seq(Contents)
      /\ In \in Ports /\ Out \in Ports /\ In # Out
  BY PlainLists, TwoPorts DEF Plain
<1>3. t.egress \in [Ports -> Seq(Contents)] /\ t.egress[Out] = IF p = Out THEN <<>> ELSE q
  BY <1>1, <1>2, ShortLists
<1>4. told => p = Out /\ Has(q, "last")
  <2>1. DOMAIN q = 1 .. Len(q)
    BY <1>2
  <2> HIDE DEF q
  <2>2. "last" \in ToSet(q) => Has(q, "last")
    BY <2>1 DEF ToSet, Has
  <2> QED BY <2>2 DEF q
<1>5. \E S : t.events \in Seq(S)
  <2>1. CASE told
    <3> PICK e : e = [cmd |-> "BufferFlag", param |-> p, error |-> None]
      OBVIOUS
    <3>1. t.events = Append(s.events, e) /\ \E S : s.events \in Seq(S)
      BY <1>1, <2>1 DEF Plain
    <3>2. ASSUME NEW old, \E S : old \in Seq(S), NEW new, new = Append(old, e)
          PROVE  \E S : new \in Seq(S)
      BY <3>2, EventsGrow
    <3> QED BY <3>1, <3>2
  <2>2. CASE ~told
    BY <1>1, <2>2 DEF Plain
  <2> QED BY <2>1, <2>2
<1>6. Announced(t) /\ ~Announced(s) => told
  BY <1>1 DEF Announced
<1> HIDE DEF told
<1>7. Plain(t)
  BY <1>1, <1>3, <1>5 DEF Plain, Efb
<1>8. FlowIn(t, s)
  BY <1>1 DEF FlowIn, NotIn, Trailing, Drained, Efb
<1>9. FlowOut(t, s)
  BY <1>1, <1>3, ShortLists DEF FlowOut, NotOut, Sealed, NoData, Back
<1>10. told => ~Fresh(s) /\ (Ordered(s) => Finished(t))
  <2>1. ASSUME told, Ordered(s) PROVE Finished(t)
    <3>1. ~NotOut(s)
      BY <1>4, <2>1 DEF NotOut
    <3>2. Drained(s) /\ Sealed(s)
      BY <2>1, <3>1 DEF Ordered
    <3>3. ~Has(Back(s, Out), "data")
      BY <1>4, <2>1, <3>2 DEF Sealed
    <3>4. t.egress[Out] = <<>> /\ Back(t, Out) = Back(s, Out) /\ Drained(t)
      BY <1>1, <1>3, <1>4, <1>8, <2>1, <3>2 DEF Back, FlowIn
    <3> QED BY <3>3, <3>4, ShortLists DEF Finished
  <2> QED BY <1>4, <2>1 DEF Fresh, NotOut
<1> QED BY <1>6, <1>7, <1>8, <1>9, <1>10 DEF Flow, FlowIn, FlowOut, Fresh, Ordered, Finished, NoData

\* What is moved to egress goes out behind what is there.
LEMMA MoveToEgressFlows ==
    ASSUME NEW s, NEW p \in Ports, NEW t, t = MoveToEgress(s, p)
    PROVE  Flow(t, s)
<1> SUFFICES ASSUME Plain(s) PROVE Flow(t, s)
  BY DEF Flow
<1>1. /\ DOMAIN t = Fields
      /\ t.egress = [s.egress EXCEPT ![p] = @ \o s.ingress[p]]
      /\ t.ingress = [s.ingress EXCEPT ![p] = <<>>]
      /\ t.efb = s.efb /\ t.callbacks = s.callbacks
      /\ t.hold = s.hold /\ t.inProgress = s.inProgress /\ t.events = s.events
  BY DEF MoveToEgress, Plain, Fields
<1>2. /\ s.egress \in [Ports -> Seq(Contents)] /\ s.ingress \in [Ports -> Seq(Contents)]
      /\ In \in Ports /\ Out \in Ports /\ In # Out
      /\ \A q \in Ports : s.egress[q] \in Seq(Contents) /\ s.ingress[q] \in Seq(Contents)
  BY TwoPorts DEF Plain
<1>3. s.egress[p] \o s.ingress[p] \in Seq(Contents)
  BY <1>2, ConcatProperties
<1>4. /\ t.egress \in [Ports -> Seq(Contents)] /\ t.ingress \in [Ports -> Seq(Contents)]
      /\ t.egress[Out] = IF p = Out THEN s.egress[Out] \o s.ingress[Out] ELSE s.egress[Out]
      /\ t.ingress[In] = IF p = In THEN <<>> ELSE s.ingress[In]
      /\ t.ingress[Out] = IF p = Out THEN <<>> ELSE s.ingress[Out]
  BY <1>1, <1>2, <1>3, ShortLists
<1>5. Plain(t)
  BY <1>1, <1>4, ShortLists DEF Plain, Efb
<1>6. FlowIn(t, s)
  BY <1>1, <1>4, ShortLists DEF FlowIn, NotIn, Trailing, Drained, Efb
<1>7. Blank(s.ingress[Out])
  BY DEF Plain
<1>8. FlowOut(t, s)
  <2> DEFINE a == s.egress[Out]
             b == s.ingress[Out]
  <2>1. a \in Seq(Contents) /\ b \in Seq(Contents)
    BY <1>2
  <2>2. ~Has(b, "last") /\ ~Has(b, "data") /\ Closed(b)
    BY <1>7 DEF Blank, Has, Closed
  <2> HIDE DEF a, b
  <2>3. /\ Has(a \o b, "last") <=> Has(a, "last")
        /\ Has(a \o b, "data") <=> Has(a, "data")
        /\ Closed(a \o b) <=> Closed(a)
    BY <2>1, <2>2, HasJoined, ClosedJoined
  <2>4. t.egress[Out] \in {a, a \o b} /\ Back(t, Out) = Back(s, Out)
    BY <1>1, <1>4 DEF a, b, Back
  <2> QED BY <2>3, <2>4 DEF FlowOut, NotOut, Sealed, NoData, a
<1>9. Announced(t) => Announced(s)
  BY <1>1 DEF Announced
<1> QED BY <1>5, <1>6, <1>8, <1>9, FlowParts

\* A drain puts what waits in the queues behind what waits in the lists.
LEMMA DrainFlows ==
    ASSUME NEW s, NEW target \in Ports \cup {ALL}, NEW t, t = Drain(s, target)
    PROVE  Flow(t, s)
<1> SUFFICES ASSUME Plain(s) PROVE Flow(t, s)
  BY DEF Flow
<1> DEFINE taken(queue, p) == IF p \in Targets(target) THEN CarriedBy(queue, p) ELSE <<>>
<1> PICK r : r = Expect(s, DummyCallback \notin ToSet(s.callbacks), "NULL != p_hdr")
  OBVIOUS
<1>0. /\ DOMAIN r = Fields /\ SameQueues(r, s) /\ r.inProgress = s.inProgress /\ r.events = s.events
  BY DEF Expect, Plain, Fields, SameQueues
<1>1. /\ DOMAIN t = Fields /\ t.hold = s.hold /\ t.inProgress = s.inProgress /\ t.events = s.events
      /\ t.efb = Only(s.efb, Others(target))
      /\ t.callbacks = Only(s.callbacks, Others(target))
      /\ t.ingress = [p \in Ports |-> s.ingress[p] \o taken(s.efb, p)]
      /\ t.egress = [p \in Ports |-> s.egress[p] \o taken(s.callbacks, p)]
  <2> DEFINE ingress == [p \in Ports |-> s.ingress[p] \o taken(s.efb, p)]
             egress == [p \in Ports |-> s.egress[p] \o taken(s.callbacks, p)]
             efb == Only(s.efb, Others(target))
             callbacks == Only(s.callbacks, Others(target))
  <2>1. PICK port : t = [r EXCEPT !.efb = Only(@, Others(target)), !.callbacks = Only(@, Others(target)),
                                  !.ingress = ingress, !.egress = egress, !.port = port]
    BY DEF Drain
  <2>2. Only(r.efb, Others(target)) = efb /\ Only(r.callbacks, Others(target)) = callbacks
    BY <1>0 DEF SameQueues
  <2> HIDE DEF ingress, egress, efb, callbacks
  <2>3. t = [r EXCEPT !.efb = efb, !.callbacks = callbacks,
                      !.ingress = ingress, !.egress = egress, !.port = port]
    BY <1>0, <2>1, <2>2 DEF Fields
  <2>4. /\ DOMAIN t = DOMAIN r /\ t.hold = r.hold /\ t.inProgress = r.inProgress /\ t.events = r.events
        /\ t.efb = efb /\ t.callbacks = callbacks /\ t.ingress = ingress /\ t.egress = egress
    BY <1>0, <2>3 DEF Fields
  <2> QED BY <1>0, <2>4, Zenon DEF SameQueues, ingress, egress, efb, callbacks
<1>2. /\ s.efb \in Seq(Callbacks) /\ s.callbacks \in Seq(Callbacks)
      /\ s.efb \in Seq(Headers(Ports))
      /\ In \in Ports /\ Out \in Ports /\ In # Out
      /\ \A p \in Ports : s.egress[p] \in Seq(Contents) /\ s.ingress[p] \in Seq(Contents)
  BY SentAreCallbacks, TwoPorts DEF Plain
<1>3. t.efb \in Seq(Headers(Ports)) /\ t.callbacks \in Seq(Callbacks)
  <2>1. ASSUME NEW S, NEW q \in Seq(S), NEW T PROVE Only(q, T) \in Seq(S)
    BY OnlyPicks
  <2>2. Only(s.efb, Others(target)) \in Seq(Headers(Ports))
    BY <1>2, <2>1
  <2>3. Only(s.callbacks, Others(target)) \in Seq(Callbacks)
    BY <1>2, <2>1
  <2> QED BY <1>1, <2>2, <2>3
<1>4. ASSUME NEW p \in Ports
      PROVE  /\ taken(s.efb, p) \in Seq(Contents) /\ taken(s.callbacks, p) \in Seq(Contents)
             /\ s.ingress[p] \o taken(s.efb, p) \in Seq(Contents)
             /\ s.egress[p] \o taken(s.callbacks, p) \in Seq(Contents)
             /\ Efb(s, p) \in Seq(Contents) /\ Back(s, p) \in Seq(Contents)
  <2>1. taken(s.efb, p) \in Seq(Contents) /\ taken(s.callbacks, p) \in Seq(Contents)
    BY <1>2, CarriedType, ShortLists
  <2>2. Efb(s, p) \in Seq(Contents) /\ Back(s, p) \in Seq(Contents)
    BY <1>2, CarriedType DEF Efb, Back
  <2> HIDE DEF taken
  <2> QED BY <1>2, <2>1, <2>2, ConcatProperties
<1>5. ASSUME NEW p \in Ports, p \in Targets(target)
      PROVE  /\ Efb(t, p) = <<>> /\ Back(t, p) = <<>>
             /\ t.ingress[p] = s.ingress[p] \o Efb(s, p)
             /\ t.egress[p] = s.egress[p] \o Back(s, p)
  <2>0. ASSUME NEW q \in Seq(Callbacks), NEW left, left = Only(q, Others(target))
        PROVE  CarriedBy(left, p) = <<>>
    BY <1>5, <2>0, CarriedLeft
  <2>1. CarriedBy(t.efb, p) = <<>> /\ CarriedBy(t.callbacks, p) = <<>>
    BY <1>1, <1>2, <2>0
  <2> QED BY <1>1, <1>5, <2>1 DEF Efb, Back
<1>6. ASSUME NEW p \in Ports, p \notin Targets(target)
      PROVE  /\ Efb(t, p) = Efb(s, p) /\ Back(t, p) = Back(s, p)
             /\ t.ingress[p] = s.ingress[p] /\ t.egress[p] = s.egress[p]
  <2>0. ASSUME NEW q \in Seq(Callbacks), NEW left, left = Only(q, Others(target))
        PROVE  CarriedBy(left, p) = CarriedBy(q, p)
    BY <1>6, <2>0, CarriedLeft
  <2>1. CarriedBy(t.efb, p) = CarriedBy(s.efb, p) /\ CarriedBy(t.callbacks, p) = CarriedBy(s.callbacks, p)
    BY <1>1, <1>2, <2>0
  <2>2. t.ingress[p] = s.ingress[p] \o <<>> /\ t.egress[p] = s.egress[p] \o <<>>
    BY <1>1, <1>6
  <2>3. s.ingress[p] \o <<>> = s.ingress[p] /\ s.egress[p] \o <<>> = s.egress[p]
    BY <1>2, ConcatEmptySeq
  <2> QED BY <2>1, <2>2, <2>3 DEF Efb, Back
<1>7. t.ingress \in [Ports -> Seq(Contents)] /\ t.egress \in [Ports -> Seq(Contents)]
  <2> HIDE DEF taken
  <2> QED BY <1>1, <1>4
<1> HIDE DEF taken
<1>8. Plain(t)
  <2>1. Blank(t.ingress[Out]) /\ Blank(Efb(t, Out))
    <3> DEFINE a == s.ingress[Out]
               b == Efb(s, Out)
    <3>1. a \in Seq(Contents) /\ b \in Seq(Contents) /\ Blank(a) /\ Blank(b)
      BY <1>2, <1>4 DEF Plain
    <3>2. t.ingress[Out] \in {a, a \o b} /\ Efb(t, Out) \in {b, <<>>}
      BY <1>2, <1>5, <1>6
    <3> HIDE DEF a, b
    <3> QED BY <3>1, <3>2, BlankJoined, ShortLists
  <2> QED BY <1>1, <1>3, <1>7, <2>1 DEF Plain
<1>9. FlowIn(t, s)
  <2>1. CASE In \notin Targets(target)
    BY <1>1, <1>2, <1>6, <2>1 DEF FlowIn, NotIn, Trailing, Drained
  <2>2. CASE In \in Targets(target)
    <3> PICK a : a = s.ingress[In]
      OBVIOUS
    <3> PICK b : b = Efb(s, In)
      OBVIOUS
    <3> PICK c : c = a \o b
      OBVIOUS
    <3>1. a \in Seq(Contents) /\ b \in Seq(Contents)
      BY <1>2, <1>4
    <3>2. t.ingress[In] = c /\ Efb(t, In) = <<>> /\ t.hold = s.hold
      BY <1>1, <1>2, <1>5, <2>2
    <3>3. /\ Has(c, "last") <=> Has(a, "last") \/ Has(b, "last")
          /\ Rear(c) <=> Rear(b) /\ (b = <<>> => Rear(a)) /\ (b # <<>> => ~Has(a, "last"))
          /\ a = <<>> /\ b = <<>> => c = <<>>
      BY <3>1, HasJoined, RearJoined, ConcatEmptySeq
    <3> PICK e : e = <<>>
      OBVIOUS
    <3>0. ~Has(e, "last") /\ Rear(e) /\ Efb(t, In) = e
      BY <3>2, ShortLists
    <3>4. NotIn(s) => NotIn(t)
      BY <3>0, <3>2, <3>3 DEF NotIn
    <3>5. Trailing(s) => Trailing(t)
      <4> SUFFICES ASSUME Trailing(s) PROVE Trailing(t)
        OBVIOUS
      <4>1. Rear(a) /\ Rear(b) /\ (Has(a, "last") => b = e)
            /\ (s.hold[In] = "last" => a = e /\ b = e)
        BY DEF Trailing
      <4>2. Rear(c) /\ (s.hold[In] = "last" => c = e)
        BY <3>3, <4>1
      <4> QED BY <3>0, <3>2, <4>2 DEF Trailing
    <3>6. Drained(s) => Drained(t)
      BY <3>2, <3>3 DEF Drained
    <3> QED BY <3>4, <3>5, <3>6 DEF FlowIn
  <2> QED BY <2>1, <2>2
<1>10. FlowOut(t, s)
  <2>1. CASE Out \notin Targets(target)
    BY <1>1, <1>2, <1>6, <2>1 DEF FlowOut, NotOut, Sealed, NoData
  <2>2. CASE Out \in Targets(target)
    <3> PICK a : a = s.egress[Out]
      OBVIOUS
    <3> PICK b : b = Back(s, Out)
      OBVIOUS
    <3> PICK c : c = a \o b
      OBVIOUS
    <3>1. a \in Seq(Contents) /\ b \in Seq(Contents)
      BY <1>2, <1>4
    <3>2. t.egress[Out] = c /\ Back(t, Out) = <<>>
      BY <1>2, <1>5, <2>2
    <3>3. /\ Has(c, "last") <=> Has(a, "last") \/ Has(b, "last")
          /\ Has(c, "data") <=> Has(a, "data") \/ Has(b, "data")
          /\ Closed(c) <=> Closed(a) /\ Closed(b) /\ (Has(a, "last") => ~Has(b, "data"))
      BY <3>1, HasJoined, ClosedJoined
    <3> PICK e : e = <<>>
      OBVIOUS
    <3>0. ~Has(e, "last") /\ ~Has(e, "data") /\ Closed(e) /\ Back(t, Out) = e
      BY <3>2, ShortLists
    <3>4. NotOut(s) => NotOut(t)
      BY <3>0, <3>2, <3>3 DEF NotOut
    <3>5. Sealed(s) => Sealed(t)
      BY <3>0, <3>2, <3>3 DEF Sealed
    <3>6. NoData(s) => NoData(t)
      BY <3>0, <3>2, <3>3 DEF NoData
    <3> QED BY <3>4, <3>5, <3>6 DEF FlowOut
  <2> QED BY <2>1, <2>2
<1>11. Announced(t) => Announced(s)
  BY <1>1 DEF Announced
<1> QED BY <1>8, <1>9, <1>10, <1>11, FlowParts

\* Clearing the lists of the input port loses no order.
LEMMA ClearListsFlows ==
    ASSUME NEW s, NEW t, t = ClearLists(s)
    PROVE  Flow(t, s)
<1> SUFFICES ASSUME Plain(s) PROVE Flow(t, s)
  BY DEF Flow
<1>1. In \in Ports /\ Out \in Ports /\ In # Out /\ FirstPort = In
  BY TwoPorts
<1>2. /\ DOMAIN t = Fields
      /\ t.egress = [s.egress EXCEPT ![In] = <<>>]
      /\ t.ingress = [s.ingress EXCEPT ![In] = <<>>]
      /\ t.efb = s.efb /\ t.callbacks = s.callbacks
      /\ t.hold = s.hold /\ t.inProgress = s.inProgress /\ t.events = s.events
  BY <1>1 DEF ClearLists, Plain, Fields
<1>3. /\ t.egress \in [Ports -> Seq(Contents)] /\ t.ingress \in [Ports -> Seq(Contents)]
      /\ t.egress[Out] = s.egress[Out] /\ t.ingress[Out] = s.ingress[Out] /\ t.ingress[In] = <<>>
  BY <1>1, <1>2, ShortLists DEF Plain
<1>4. Plain(t)
  BY <1>2, <1>3 DEF Plain, Efb
<1>5. FlowIn(t, s) /\ FlowOut(t, s)
  BY <1>2, <1>3, ShortLists DEF FlowIn, NotIn, Trailing, Drained, Efb, FlowOut, NotOut, Sealed, NoData, Back
<1>6. Announced(t) => Announced(s)
  BY <1>2 DEF Announced
<1> QED BY <1>4, <1>5, <1>6, FlowParts

\* What an event, the end of a command and a message to the processor
\* leave of the flow.
LEMMA SmallFlows ==
    ASSUME NEW s, NEW t
    PROVE  /\ \A c, p, x : c # "BufferFlag" /\ t = Event(s, c, p, x) => Flow(t, s)
           /\ t = CommandDone(s) => Flow(t, s)
           /\ \A c : t = ToProcessor(s, c) => Flow(t, s)
           /\ \A k : t = [s EXCEPT !.ready = k] => Flow(t, s)
           /\ \A k : t = [s EXCEPT !.packets = k] => Flow(t, s)
           /\ \A k : t = [s EXCEPT !.completion = k] => Flow(t, s)
           /\ \A k : t = [s EXCEPT !.eosTold = k] => Flow(t, s)
           /\ \A k : t = [s EXCEPT !.port = k] => Flow(t, s)
           /\ \A k : t = [s EXCEPT !.cancellation = k] => Flow(t, s)
           /\ \A k : t = [s EXCEPT !.completions = k] => Flow(t, s)
           /\ \A k : t = [s EXCEPT !.counted = k] => Flow(t, s)
           /\ \A k : t = [s EXCEPT !.failed = k] => Flow(t, s)
           /\ \A k : t = [s EXCEPT !.krn = k] => Flow(t, s)
           /\ \A k : t = [s EXCEPT !.prc = k] => Flow(t, s)
           /\ \A k : t = [s EXCEPT !.commands = k] => Flow(t, s)
           /\ \A k : t = [s EXCEPT !.cur = k] => Flow(t, s)
<1>1. ASSUME NEW k PROVE
           /\ t = [s EXCEPT !.ready = k] => Flow(t, s)
           /\ t = [s EXCEPT !.packets = k] => Flow(t, s)
           /\ t = [s EXCEPT !.completion = k] => Flow(t, s)
           /\ t = [s EXCEPT !.eosTold = k] => Flow(t, s)
           /\ t = [s EXCEPT !.port = k] => Flow(t, s)
           /\ t = [s EXCEPT !.cancellation = k] => Flow(t, s)
  <2>1. Plain(s) /\ t = [s EXCEPT !.ready = k] => Still(t, s)
    BY DEF Plain, Still, SameQueues, Talks, Fields
  <2>2. Plain(s) /\ t = [s EXCEPT !.packets = k] => Still(t, s)
    BY DEF Plain, Still, SameQueues, Talks, Fields
  <2>3. Plain(s) /\ t = [s EXCEPT !.completion = k] => Still(t, s)
    BY DEF Plain, Still, SameQueues, Talks, Fields
  <2>4. Plain(s) /\ t = [s EXCEPT !.eosTold = k] => Still(t, s)
    BY DEF Plain, Still, SameQueues, Talks, Fields
  <2>5. Plain(s) /\ t = [s EXCEPT !.port = k] => Still(t, s)
    BY DEF Plain, Still, SameQueues, Talks, Fields
  <2>6. Plain(s) /\ t = [s EXCEPT !.cancellation = k] => Still(t, s)
    BY DEF Plain, Still, SameQueues, Talks, Fields
  <2> QED BY <2>1, <2>2, <2>3, <2>4, <2>5, <2>6, StillFlows
<1>2. ASSUME NEW k PROVE
           /\ t = [s EXCEPT !.completions = k] => Flow(t, s)
           /\ t = [s EXCEPT !.counted = k] => Flow(t, s)
           /\ t = [s EXCEPT !.failed = k] => Flow(t, s)
           /\ t = [s EXCEPT !.krn = k] => Flow(t, s)
           /\ t = [s EXCEPT !.prc = k] => Flow(t, s)
           /\ t = [s EXCEPT !.commands = k] => Flow(t, s)
           /\ t = [s EXCEPT !.cur = k] => Flow(t, s)
  <2>1. Plain(s) /\ t = [s EXCEPT !.completions = k] => Still(t, s)
    BY DEF Plain, Still, SameQueues, Talks, Fields
  <2>2. Plain(s) /\ t = [s EXCEPT !.counted = k] => Still(t, s)
    BY DEF Plain, Still, SameQueues, Talks, Fields
  <2>3. Plain(s) /\ t = [s EXCEPT !.failed = k] => Still(t, s)
    BY DEF Plain, Still, SameQueues, Talks, Fields
  <2>4. Plain(s) /\ t = [s EXCEPT !.krn = k] => Still(t, s)
    BY DEF Plain, Still, SameQueues, Talks, Fields
  <2>5. Plain(s) /\ t = [s EXCEPT !.prc = k] => Still(t, s)
    BY DEF Plain, Still, SameQueues, Talks, Fields
  <2>6. Plain(s) /\ t = [s EXCEPT !.commands = k] => Still(t, s)
    BY DEF Plain, Still, SameQueues, Talks, Fields
  <2>7. Plain(s) /\ t = [s EXCEPT !.cur = k] => Still(t, s)
    BY DEF Plain, Still, SameQueues, Talks, Fields
  <2> QED BY <2>1, <2>2, <2>3, <2>4, <2>5, <2>6, <2>7, StillFlows
<1>3. ASSUME NEW c, NEW p, NEW x, c # "BufferFlag", t = Event(s, c, p, x) PROVE Flow(t, s)
  <2> DEFINE e == [cmd |-> c, param |-> p, error |-> x]
  <2>1. e.cmd # "BufferFlag"
    BY <1>3
  <2>2. t = [s EXCEPT !.events = Append(s.events, e)]
    BY <1>3 DEF Event
  <2> HIDE DEF e
  <2>3. Plain(s) => Talks(t, s)
    BY <2>1, <2>2 DEF Talks, Plain, Fields
  <2>4. Plain(s) => Still(t, s)
    BY <2>2, <2>3 DEF Plain, Still, SameQueues, Fields
  <2> QED BY <2>4, StillFlows
<1>4. ASSUME t = CommandDone(s) PROVE Flow(t, s)
  <2>1. Plain(s) => Still(t, s)
    BY <1>4 DEF CommandDone, Plain, Still, SameQueues, Talks, Fields, None
  <2> QED BY <2>1, StillFlows
<1>5. ASSUME NEW c, t = ToProcessor(s, c) PROVE Flow(t, s)
  <2>1. t = [s EXCEPT !.prc = Append(s.prc, c)]
    BY <1>5 DEF ToProcessor
  <2> QED BY <1>2, <2>1
<1> QED BY <1>1, <1>2, <1>3, <1>4, <1>5

\* What fsm_complete_transition leaves of it.
LEMMA CompleteTransitionFlows ==
    ASSUME NEW s, NEW who, NEW st, NEW t, t = CompleteTransition(s, who, st)
    PROVE  Flow(t, s)
<1>1. t = s \/ \E k : t = [s EXCEPT !.completions = k]
  BY DEF CompleteTransition
<1> QED BY <1>1, SmallFlows, FlowSelf

\* What fsm_complete_command leaves of it.
LEMMA CompleteCommandFlows ==
    ASSUME NEW s, NEW c, c # "BufferFlag", NEW p, NEW t, t = CompleteCommand(s, c, p)
    PROVE  Flow(t, s)
<1> SUFFICES ASSUME Plain(s) PROVE Flow(t, s)
  BY DEF Flow
<1> DEFINE r == Expect(s, c \in {s.inProgress, s.cancellation},
                       "in_progress_cmd_ or cancellation_cmd_")
           d == CommandDone(Event(r, r.inProgress, p, "CommandCanceled"))
           e == Event(r, c, p, None)
           f == CommandDone(Event(r, c, p, None))
<1>1. \/ t = [d EXCEPT !.cancellation = None]
      \/ t = [e EXCEPT !.cancellation = None]
      \/ t = f
      \/ t = r
  BY DEF CompleteCommand
<1>2. Flow(r, s) /\ r.inProgress # "BufferFlag"
  <2>1. r = s \/ \E k : r = [s EXCEPT !.failed = k]
    BY DEF Expect
  <2>2. Flow(r, s)
    BY <2>1, SmallFlows, FlowSelf
  <2> HIDE DEF r
  <2> QED BY <2>2 DEF Flow, Plain
<1> HIDE DEF r
<1>3. Flow(d, r) /\ Flow(e, r) /\ Flow(f, r)
  <2>1. ASSUME NEW x, x # "BufferFlag", NEW y
        PROVE  Flow(Event(r, x, p, y), r) /\ Flow(CommandDone(Event(r, x, p, y)), r)
    <3>1. Flow(Event(r, x, p, y), r)
      BY <2>1, SmallFlows
    <3>2. Flow(CommandDone(Event(r, x, p, y)), Event(r, x, p, y))
      BY SmallFlows
    <3> QED BY <3>1, <3>2, FlowTwice
  <2> QED BY <1>2, <2>1
<1> HIDE DEF d, e, f
<1>4. Flow([d EXCEPT !.cancellation = None], d) /\ Flow([e EXCEPT !.cancellation = None], e)
  BY SmallFlows
<1>5. Flow(t, r)
  BY <1>1, <1>3, <1>4, FlowTwice, FlowSelf
<1> QED BY <1>2, <1>5, FlowTwice

\* What complete_port_flush leaves of it.
LEMMA CompletePortFlushFlows ==
    ASSUME NEW s, NEW p, NEW t, t = CompletePortFlush(s, p)
    PROVE  Flow(t, s)
<1> DEFINE a == [s EXCEPT !.port[p].flushing = FALSE]
           b == Event(a, "Flush", p, None)
           c == CompletionCountPositive(b)
           d == [c EXCEPT !.completion = @ - 1]
<1>1. t = d \/ t = CompleteCommand(d, "Flush", p)
  BY DEF CompletePortFlush
<1>2. Flow(a, s)
  <2>1. \E k : a = [s EXCEPT !.port = k]
    OBVIOUS
  <2> HIDE DEF a
  <2> QED BY <2>1, SmallFlows
<1> HIDE DEF a
<1>3. Flow(b, a)
  BY SmallFlows
<1> HIDE DEF b
<1>4. Flow(c, b)
  <2>1. c = b \/ \E k : c = [b EXCEPT !.failed = k]
    BY DEF CompletionCountPositive, Expect
  <2> HIDE DEF c
  <2> QED BY <2>1, SmallFlows, FlowSelf
<1> HIDE DEF c
<1>5. Flow(d, c)
  <2>1. \E k : d = [c EXCEPT !.completion = k]
    OBVIOUS
  <2> HIDE DEF d
  <2> QED BY <2>1, SmallFlows
<1> HIDE DEF d
<1>6. Flow(t, d)
  BY <1>1, CompleteCommandFlows, FlowSelf
<1>7. Flow(b, s)
  BY <1>2, <1>3, FlowTwice
<1>8. Flow(d, b)
  BY <1>4, <1>5, FlowTwice
<1>9. Flow(d, s)
  BY <1>7, <1>8, FlowTwice
<1> QED BY <1>6, <1>9, FlowTwice

\* What forgetting that the end was announced leaves of it.
LEMMA ForgetEosFlows ==
    ASSUME NEW s, NEW t, t = ForgetEos(s)
    PROVE  Flow(t, s)
<1>1. t = s \/ \E k : t = [s EXCEPT !.eosTold = k]
  BY DEF ForgetEos
<1> QED BY <1>1, SmallFlows, FlowSelf

\* What a servant's part of a transition without headers leaves of it.
LEMMA PartsFlow ==
    ASSUME NEW s, NEW st, NEW t,
           \/ t = ProcessorStateSet(s, st)
           \/ /\ t = KernelStateSet(s, st)
              /\ ~(Reported(s.cur) \in {"Executing", "Pause"} /\ st = "Idle")
              /\ <<Reported(s.cur), st>> # <<"Pause", "Executing">>
    PROVE  Flow(t, s)
<1>1. CASE t = ProcessorStateSet(s, st)
  <2>1. t = CompleteTransition(s, "processor", st) \/ t = s \/ \E k : t = [s EXCEPT !.failed = k]
    BY <1>1 DEF ProcessorStateSet, Expect
  <2> QED BY <2>1, CompleteTransitionFlows, SmallFlows, FlowSelf
<1>2. CASE /\ t = KernelStateSet(s, st)
           /\ ~(Reported(s.cur) \in {"Executing", "Pause"} /\ st = "Idle")
           /\ <<Reported(s.cur), st>> # <<"Pause", "Executing">>
  <2> DEFINE refused == Expect(s, FALSE, "Unhandled transition in kernel servant")
             done(u) == CompleteTransition(u, "kernel", st)
             stopped == StopAndReturn(s)
             paused == [s EXCEPT !.callbacks = Append(@, Dummy)]
  <2>0. refused = s \/ \E k : refused = [s EXCEPT !.failed = k]
    BY DEF Expect
  <2>1. t = done(s) \/ t = s \/ t = refused
    <3> PICK now : now = Reported(s.cur)
      OBVIOUS
    <3>1. KernelStateSet(s, st) =
            CASE <<now, st>> \notin Transitions -> refused
              [] <<now, st>> = <<"Loaded", "Idle">> ->
                    IF AllPopulated(s.port) THEN done(s) ELSE s
              [] <<now, st>> = <<"Idle", "Loaded">> ->
                    IF AllDepopulated(s.port) THEN done(s) ELSE s
              [] now \in {"Executing", "Pause"} /\ st = "Idle" ->
                    IF AllBuffersReturned(stopped.port) THEN done(stopped) ELSE stopped
              [] <<now, st>> = <<"Pause", "Executing">> -> done(paused)
              [] <<now, st>> = <<"Executing", "Executing">> -> s
              [] OTHER -> done(s)
      BY DEF KernelStateSet
    <3>2. ~(now \in {"Executing", "Pause"} /\ st = "Idle") /\ <<now, st>> # <<"Pause", "Executing">>
      BY <1>2
    <3>3. t = KernelStateSet(s, st)
      BY <1>2
    <3> HIDE DEF stopped, paused, refused, done
    <3> QED BY <3>1, <3>2, <3>3
  <2> HIDE DEF refused
  <2> QED BY <2>0, <2>1, CompleteTransitionFlows, SmallFlows, FlowSelf
<1> QED BY <1>1, <1>2

\* The header at the head of a queue comes first of its port.
LEMMA CarriedHead ==
    ASSUME NEW q \in Seq(Callbacks), q # <<>>, NEW p \in Ports
    PROVE  /\ Tail(q) \in Seq(Callbacks) /\ Head(q) \in Callbacks
           /\ CarriedBy(Tail(q), p) \in Seq(Contents)
           /\ Head(q).port = p =>
                /\ Head(q).what \in Contents
                /\ CarriedBy(q, p) = <<Head(q).what>> \o CarriedBy(Tail(q), p)
           /\ Head(q).port # p => CarriedBy(q, p) = CarriedBy(Tail(q), p)
<1> DEFINE h == Head(q)
           r == Tail(q)
<1>1. /\ r \in Seq(Callbacks) /\ h \in Callbacks /\ q = <<h>> \o r /\ <<h>> \in Seq(Callbacks)
  BY Beheaded
<1> HIDE DEF h, r
<1>2. CarriedBy(r, p) \in Seq(Contents)
  BY <1>1, CarriedType
<1>3. CarriedBy(q, p) = CarriedBy(<<h>>, p) \o CarriedBy(r, p)
  BY <1>1, CarriedJoined
<1>4. CarriedBy(<<h>>, p) = IF h.port = p THEN <<h.what>> ELSE <<>>
  BY <1>1, CarriedOne
<1>5. <<>> \o CarriedBy(r, p) = CarriedBy(r, p)
  BY <1>2, ConcatEmptySeq
<1>6. h.port = p => h.what \in Contents
  BY <1>1, HeaderIs, TwoPorts
<1> QED BY <1>1, <1>2, <1>3, <1>4, <1>5, <1>6 DEF h, r

\* The header at the end of a queue comes last of its port.
LEMMA CarriedLast ==
    ASSUME NEW q \in Seq(Callbacks), NEW m \in Callbacks, NEW p \in Ports
    PROVE  /\ Append(q, m) \in Seq(Callbacks)
           /\ CarriedBy(q, p) \in Seq(Contents)
           /\ m.port = p =>
                /\ m.what \in Contents
                /\ CarriedBy(Append(q, m), p) = CarriedBy(q, p) \o <<m.what>>
           /\ m.port # p => CarriedBy(Append(q, m), p) = CarriedBy(q, p)
<1> PICK r : r = <<m>>
  OBVIOUS
<1>1. Append(q, m) = q \o r /\ r \in Seq(Callbacks) /\ Append(q, m) \in Seq(Callbacks)
  BY AppendIsConcat, AppendProperties, CarriedOne
<1>2. CarriedBy(q, p) \in Seq(Contents)
  BY CarriedType
<1>3. CarriedBy(Append(q, m), p) = CarriedBy(q, p) \o CarriedBy(r, p)
  <2>1. CarriedBy(q \o r, p) = CarriedBy(q, p) \o CarriedBy(r, p)
    BY <1>1, CarriedJoined
  <2> QED BY <1>1, <2>1, Zenon
<1>4. CarriedBy(r, p) = IF m.port = p THEN <<m.what>> ELSE <<>>
  BY CarriedOne
<1>5. CarriedBy(q, p) \o <<>> = CarriedBy(q, p)
  BY <1>2, ConcatEmptySeq
<1>6. m.port = p => m.what \in Contents
  BY HeaderIs, TwoPorts
<1> QED BY <1>1, <1>2, <1>3, <1>4, <1>5, <1>6

\* From s to t a header the client sent has moved from the queue to its list.
Lands(t, s, p, x) ==
    /\ DOMAIN t = Fields
    /\ s.efb # <<>> /\ Head(s.efb).port = p /\ Head(s.efb).what = x
    /\ t.efb = Tail(s.efb)
    /\ t.ingress = [s.ingress EXCEPT ![p] = Append(s.ingress[p], x)]
    /\ t.egress = s.egress /\ t.callbacks = s.callbacks
    /\ t.hold = s.hold /\ t.inProgress = s.inProgress /\ t.events = s.events

\* The first header that was sent comes to the list of its port.
LEMMA LandsFlows ==
    ASSUME NEW s, Plain(s), NEW p, NEW x, NEW t, Lands(t, s, p, x)
    PROVE  Flow(t, s)
<1>1. /\ s.efb \in Seq(Headers(Ports)) /\ s.efb \in Seq(Callbacks)
      /\ s.ingress \in [Ports -> Seq(Contents)]
      /\ In \in Ports /\ Out \in Ports /\ In # Out
  BY SentAreCallbacks, TwoPorts DEF Plain
<1>2. p \in Ports /\ x \in Contents /\ Tail(s.efb) \in Seq(Headers(Ports))
  <2>1. Head(s.efb) \in Headers(Ports) /\ Tail(s.efb) \in Seq(Headers(Ports))
    BY <1>1 DEF Lands
  <2> QED BY <2>1, HeaderIs DEF Lands
<1>3. /\ DOMAIN t = Fields
      /\ t.efb = Tail(s.efb)
      /\ t.ingress = [s.ingress EXCEPT ![p] = Append(s.ingress[p], x)]
      /\ t.egress = s.egress /\ t.callbacks = s.callbacks
      /\ t.hold = s.hold /\ t.inProgress = s.inProgress /\ t.events = s.events
      /\ s.efb # <<>> /\ Head(s.efb).port = p /\ Head(s.efb).what = x
  BY DEF Lands
<1>4. ASSUME NEW q \in Ports
      PROVE  /\ s.ingress[q] \in Seq(Contents) /\ Efb(t, q) \in Seq(Contents)
             /\ q = p => /\ Efb(s, q) = <<x>> \o Efb(t, q)
                         /\ t.ingress[q] = s.ingress[q] \o <<x>>
                         /\ t.ingress[q] \in Seq(Contents)
             /\ q # p => Efb(t, q) = Efb(s, q) /\ t.ingress[q] = s.ingress[q]
  <2>1. s.ingress[q] \in Seq(Contents) /\ Efb(t, q) \in Seq(Contents)
    BY <1>1, <1>3, CarriedHead DEF Efb
  <2>2. CASE q = p
    <3>1. Efb(s, q) = <<x>> \o Efb(t, q)
      <4>1. CarriedBy(s.efb, q) = <<Head(s.efb).what>> \o CarriedBy(Tail(s.efb), q)
        BY <1>1, <1>3, <2>2, CarriedHead
      <4> QED BY <1>3, <4>1, Zenon DEF Efb
    <3>2. t.ingress[q] = Append(s.ingress[q], x)
      BY <1>1, <1>3, <2>2
    <3>3. Append(s.ingress[q], x) = s.ingress[q] \o <<x>> /\ Append(s.ingress[q], x) \in Seq(Contents)
      BY <1>2, <2>1, AppendIsConcat, AppendProperties
    <3> QED BY <2>1, <2>2, <3>1, <3>2, <3>3
  <2>3. CASE q # p
    <3>1. Efb(s, q) = Efb(t, q)
      <4>1. CarriedBy(s.efb, q) = CarriedBy(Tail(s.efb), q)
        BY <1>1, <1>3, <2>3, CarriedHead
      <4> QED BY <1>3, <4>1, Zenon DEF Efb
    <3> QED BY <1>1, <1>3, <2>1, <2>3, <3>1
  <2> QED BY <2>2, <2>3
<1>5. t.ingress \in [Ports -> Seq(Contents)]
  BY <1>1, <1>2, <1>3, <1>4
<1>6. Plain(t)
  <2>1. Blank(t.ingress[Out]) /\ Blank(Efb(t, Out))
    <3>1. Blank(s.ingress[Out]) /\ Blank(Efb(s, Out))
      BY DEF Plain
    <3>2. CASE p = Out
      <4> PICK b : b = <<x>>
        OBVIOUS
      <4>1. b \in Seq(Contents) /\ s.ingress[Out] \in Seq(Contents) /\ Efb(t, Out) \in Seq(Contents)
        BY <1>1, <1>2, <1>4, ShortLists
      <4>2. Efb(s, Out) = b \o Efb(t, Out) /\ t.ingress[Out] = s.ingress[Out] \o b
        BY <1>1, <1>4, <3>2
      <4>3. Blank(b \o Efb(t, Out))
        BY <3>1, <4>2, Zenon
      <4>4. Blank(b) /\ Blank(Efb(t, Out))
        BY <4>1, <4>3, BlankJoined
      <4>5. Blank(s.ingress[Out] \o b)
        BY <3>1, <4>1, <4>4, BlankJoined
      <4> QED BY <4>2, <4>4, <4>5, Zenon
    <3>3. CASE p # Out
      BY <1>1, <1>4, <3>1, <3>3
    <3> QED BY <3>2, <3>3
  <2> QED BY <1>2, <1>3, <1>5, <2>1 DEF Plain
<1>7. FlowIn(t, s)
  <2>1. CASE p # In
    BY <1>1, <1>3, <1>4, <2>1 DEF FlowIn, NotIn, Trailing, Drained
  <2>2. CASE p = In
    <3> PICK a : a = s.ingress[In]
      OBVIOUS
    <3> PICK b : b = <<x>>
      OBVIOUS
    <3> PICK c : c = Efb(t, In)
      OBVIOUS
    <3>1. a \in Seq(Contents) /\ b \in Seq(Contents) /\ c \in Seq(Contents) /\ b # <<>>
      BY <1>1, <1>2, <1>4, ShortLists
    <3>2. Efb(s, In) = b \o c /\ t.ingress[In] = a \o b
      BY <1>1, <1>4, <2>2
    <3>3. b \o c # <<>>
      BY <3>1, EmptySeq, ConcatProperties
    <3>4. /\ Has(b \o c, "last") <=> Has(b, "last") \/ Has(c, "last")
          /\ Has(a \o b, "last") <=> Has(a, "last") \/ Has(b, "last")
          /\ Rear(b \o c) <=> Rear(c) /\ (c = <<>> => Rear(b)) /\ (c # <<>> => ~Has(b, "last"))
          /\ Rear(a \o b) <=> Rear(b) /\ (b = <<>> => Rear(a)) /\ (b # <<>> => ~Has(a, "last"))
          /\ Rear(b)
      BY <1>2, <3>1, HasJoined, RearJoined, ShortLists
    <3>5. NotIn(s) => NotIn(t)
      BY <1>3, <3>2, <3>4 DEF NotIn
    <3>6. Trailing(s) => Trailing(t)
      <4> SUFFICES ASSUME Trailing(s) PROVE Trailing(t)
        OBVIOUS
      <4>1. ~Has(a, "last") /\ s.hold[In] # "last"
        BY <3>2, <3>3 DEF Trailing
      <4>2. Rear(b \o c)
        BY <3>2 DEF Trailing
      <4>3. Rear(c) /\ Rear(a \o b) /\ (Has(a \o b, "last") => c = <<>>)
        BY <3>1, <3>4, <4>1, <4>2
      <4> QED BY <1>3, <3>2, <4>1, <4>3 DEF Trailing
    <3>7. ~Drained(s)
      BY <3>2, <3>3 DEF Drained
    <3> QED BY <3>5, <3>6, <3>7 DEF FlowIn
  <2> QED BY <2>1, <2>2
<1>8. FlowOut(t, s)
  BY <1>3 DEF FlowOut, NotOut, Sealed, NoData, Back
<1>9. Announced(t) => Announced(s)
  BY <1>3 DEF Announced
<1> QED BY <1>6, <1>7, <1>8, <1>9, FlowParts

\* From s to t a header the processor released has moved from the queue to its list.
Departs(t, s, p, x) ==
    /\ DOMAIN t = Fields
    /\ s.callbacks # <<>> /\ Head(s.callbacks).port = p /\ Head(s.callbacks).what = x
    /\ t.callbacks = Tail(s.callbacks)
    /\ t.egress = [s.egress EXCEPT ![p] = Append(s.egress[p], x)]
    /\ t.ingress = s.ingress /\ t.efb = s.efb
    /\ t.hold = s.hold /\ t.inProgress = s.inProgress /\ t.events = s.events

\* The first header that was released comes to the list of its port.
LEMMA DepartsFlows ==
    ASSUME NEW s, Plain(s), NEW p \in Ports, NEW x, NEW t, Departs(t, s, p, x)
    PROVE  Flow(t, s)
<1>1. /\ s.callbacks \in Seq(Callbacks) /\ s.egress \in [Ports -> Seq(Contents)]
      /\ In \in Ports /\ Out \in Ports /\ In # Out
  BY TwoPorts DEF Plain
<1>2. /\ DOMAIN t = Fields
      /\ t.callbacks = Tail(s.callbacks)
      /\ t.egress = [s.egress EXCEPT ![p] = Append(s.egress[p], x)]
      /\ t.ingress = s.ingress /\ t.efb = s.efb
      /\ t.hold = s.hold /\ t.inProgress = s.inProgress /\ t.events = s.events
      /\ s.callbacks # <<>> /\ Head(s.callbacks).port = p /\ Head(s.callbacks).what = x
  BY DEF Departs
<1>3. x \in Contents /\ Tail(s.callbacks) \in Seq(Callbacks)
  BY <1>1, <1>2, CarriedHead
<1>4. ASSUME NEW q \in Ports
      PROVE  /\ s.egress[q] \in Seq(Contents) /\ Back(t, q) \in Seq(Contents)
             /\ q = p => /\ Back(s, q) = <<x>> \o Back(t, q)
                         /\ t.egress[q] = s.egress[q] \o <<x>>
                         /\ t.egress[q] \in Seq(Contents)
             /\ q # p => Back(t, q) = Back(s, q) /\ t.egress[q] = s.egress[q]
  <2>1. s.egress[q] \in Seq(Contents) /\ Back(t, q) \in Seq(Contents)
    BY <1>1, <1>2, CarriedHead DEF Back
  <2>2. CASE q = p
    <3>1. Back(s, q) = <<x>> \o Back(t, q)
      <4>1. CarriedBy(s.callbacks, q) = <<Head(s.callbacks).what>> \o CarriedBy(Tail(s.callbacks), q)
        BY <1>1, <1>2, <2>2, CarriedHead
      <4> QED BY <1>2, <4>1, Zenon DEF Back
    <3>2. t.egress[q] = Append(s.egress[q], x)
      BY <1>1, <1>2, <2>2
    <3>3. Append(s.egress[q], x) = s.egress[q] \o <<x>> /\ Append(s.egress[q], x) \in Seq(Contents)
      BY <1>3, <2>1, AppendIsConcat, AppendProperties
    <3> QED BY <2>1, <2>2, <3>1, <3>2, <3>3
  <2>3. CASE q # p
    <3>1. Back(s, q) = Back(t, q)
      <4>1. CarriedBy(s.callbacks, q) = CarriedBy(Tail(s.callbacks), q)
        BY <1>1, <1>2, <2>3, CarriedHead
      <4> QED BY <1>2, <4>1, Zenon DEF Back
    <3> QED BY <1>1, <1>2, <2>1, <2>3, <3>1
  <2> QED BY <2>2, <2>3
<1>5. t.egress \in [Ports -> Seq(Contents)]
  BY <1>1, <1>2, <1>4
<1>6. Plain(t)
  BY <1>2, <1>3, <1>5 DEF Plain, Efb
<1>7. FlowIn(t, s)
  BY <1>2 DEF FlowIn, NotIn, Trailing, Drained, Efb
<1>8. FlowOut(t, s)
  <2>1. CASE p # Out
    BY <1>1, <1>4, <2>1 DEF FlowOut, NotOut, Sealed, NoData
  <2>2. CASE p = Out
    <3> PICK a : a = s.egress[Out]
      OBVIOUS
    <3> PICK b : b = <<x>>
      OBVIOUS
    <3> PICK c : c = Back(t, Out)
      OBVIOUS
    <3>1. a \in Seq(Contents) /\ b \in Seq(Contents) /\ c \in Seq(Contents)
      BY <1>1, <1>3, <1>4, ShortLists
    <3>2. Back(s, Out) = b \o c /\ t.egress[Out] = a \o b
      BY <1>1, <1>4, <2>2
    <3>3. /\ Has(b \o c, "last") <=> Has(b, "last") \/ Has(c, "last")
          /\ Has(b \o c, "data") <=> Has(b, "data") \/ Has(c, "data")
          /\ Has(a \o b, "last") <=> Has(a, "last") \/ Has(b, "last")
          /\ Has(a \o b, "data") <=> Has(a, "data") \/ Has(b, "data")
          /\ Closed(b \o c) <=> Closed(b) /\ Closed(c) /\ (Has(b, "last") => ~Has(c, "data"))
          /\ Closed(a \o b) <=> Closed(a) /\ Closed(b) /\ (Has(a, "last") => ~Has(b, "data"))
          /\ Closed(b)
      <4>1. /\ Has(b \o c, "last") <=> Has(b, "last") \/ Has(c, "last")
            /\ Has(b \o c, "data") <=> Has(b, "data") \/ Has(c, "data")
        BY <3>1, HasJoined
      <4>2. /\ Has(a \o b, "last") <=> Has(a, "last") \/ Has(b, "last")
            /\ Has(a \o b, "data") <=> Has(a, "data") \/ Has(b, "data")
        BY <3>1, HasJoined
      <4>3. Closed(b \o c) <=> Closed(b) /\ Closed(c) /\ (Has(b, "last") => ~Has(c, "data"))
        BY <3>1, ClosedJoined
      <4>4. Closed(a \o b) <=> Closed(a) /\ Closed(b) /\ (Has(a, "last") => ~Has(b, "data"))
        BY <3>1, ClosedJoined
      <4>5. Closed(b)
        BY <1>3, ShortLists
      <4> QED BY <4>1, <4>2, <4>3, <4>4, <4>5
    <3>4. NotOut(s) => NotOut(t)
      BY <3>2, <3>3 DEF NotOut
    <3>5. Sealed(s) => Sealed(t)
      BY <3>2, <3>3 DEF Sealed
    <3>6. NoData(s) => NoData(t)
      BY <3>2, <3>3 DEF NoData
    <3> QED BY <3>4, <3>5, <3>6 DEF FlowOut
  <2> QED BY <2>1, <2>2
<1>9. Announced(t) => Announced(s)
  BY <1>2 DEF Announced
<1> QED BY <1>6, <1>7, <1>8, <1>9, FlowParts

\* From s to t the message without a header has moved in its queue.
LEMMA DummyFlows ==
    ASSUME NEW s, NEW t, NEW k, t = [s EXCEPT !.callbacks = k],
           Plain(s) => k \in Seq(Callbacks) /\ CarriedBy(k, Out) = Back(s, Out)
    PROVE  Flow(t, s)
<1> SUFFICES ASSUME Plain(s) PROVE Flow(t, s)
  BY DEF Flow
<1>1. /\ DOMAIN t = Fields /\ t.callbacks = k
      /\ t.egress = s.egress /\ t.ingress = s.ingress /\ t.efb = s.efb
      /\ t.hold = s.hold /\ t.inProgress = s.inProgress /\ t.events = s.events
  BY DEF Plain, Fields
<1>2. k \in Seq(Callbacks) /\ Back(t, Out) = Back(s, Out)
  BY <1>1 DEF Back
<1>3. Plain(t)
  BY <1>1, <1>2 DEF Plain, Efb
<1>4. FlowIn(t, s)
  BY <1>1 DEF FlowIn, NotIn, Trailing, Drained, Efb
<1>5. FlowOut(t, s)
  BY <1>1, <1>2 DEF FlowOut, NotOut, Sealed, NoData
<1>6. Announced(t) => Announced(s)
  BY <1>1 DEF Announced
<1> QED BY <1>3, <1>4, <1>5, <1>6, FlowParts

\* A list that is not empty, as its head and the rest.
LEMMA HeadAndTail ==
    ASSUME NEW q \in Seq(Contents), q # <<>>
    PROVE  /\ Head(q) \in Contents /\ Tail(q) \in Seq(Contents)
           /\ Has(q, "last") <=> Head(q) = "last" \/ Has(Tail(q), "last")
           /\ Blank(q) <=> Head(q) = "empty" /\ Blank(Tail(q))
           /\ Rear(q) => Rear(Tail(q)) /\ (Tail(q) # <<>> => Head(q) # "last")
<1>1. ASSUME NEW x \in Contents, NEW r \in Seq(Contents)
      PROVE  /\ Has(<<x>> \o r, "last") <=> x = "last" \/ Has(r, "last")
             /\ Blank(<<x>> \o r) <=> x = "empty" /\ Blank(r)
             /\ Rear(<<x>> \o r) => Rear(r) /\ (r # <<>> => x # "last")
  <2>1. \A a \in Seq(Contents) : Has(a \o r, "last") <=> Has(a, "last") \/ Has(r, "last")
    BY HasJoined
  <2>2. \A a \in Seq(Contents) : Blank(a \o r) <=> Blank(a) /\ Blank(r)
    BY BlankJoined
  <2>3. \A a \in Seq(Contents) : Rear(a \o r) => Rear(r) /\ (r # <<>> => ~Has(a, "last"))
    BY RearJoined
  <2>4. /\ <<x>> \in Seq(Contents)
        /\ Has(<<x>>, "last") <=> x = "last"
        /\ Blank(<<x>>) <=> x = "empty"
    BY ShortLists
  <2> QED BY <2>1, <2>2, <2>3, <2>4
<1>2. Head(q) \in Contents /\ Tail(q) \in Seq(Contents) /\ q = <<Head(q)>> \o Tail(q)
  BY Beheaded
<1>3. /\ Has(<<Head(q)>> \o Tail(q), "last") <=> Head(q) = "last" \/ Has(Tail(q), "last")
      /\ Blank(<<Head(q)>> \o Tail(q)) <=> Head(q) = "empty" /\ Blank(Tail(q))
      /\ Rear(<<Head(q)>> \o Tail(q)) =>
            Rear(Tail(q)) /\ (Tail(q) # <<>> => Head(q) # "last")
  BY <1>1, <1>2
<1> QED BY <1>2, <1>3, Zenon

\* krn_claim_buffer takes the header that came first.
LEMMA ClaimFlows ==
    ASSUME NEW s, NEW p \in Ports, NEW t, t = Claim(s, p)
    PROVE  Flow(t, s)
<1> SUFFICES ASSUME Plain(s) PROVE Flow(t, s)
  BY DEF Flow
<1>1. CASE s.hold[p] # None \/ s.ingress[p] = <<>>
  <2>1. t = s
    BY <1>1 DEF Claim
  <2> QED BY <2>1, FlowSelf
<1>2. CASE ~(s.hold[p] # None \/ s.ingress[p] = <<>>)
  <2> DEFINE r == Expect(s, s.cur # "Pause", "EStatePause != tiz_fsm_get_substate")
             x == IF p = In THEN Head(s.ingress[p]) ELSE "empty"
  <2>1. r = s \/ \E k : r = [s EXCEPT !.failed = k]
    BY DEF Expect
  <2>2. Flow(r, s) /\ r.hold = s.hold /\ r.ingress = s.ingress
    <3>1. Flow(r, s)
      BY <2>1, SmallFlows, FlowSelf
    <3>2. r.hold = s.hold /\ r.ingress = s.ingress
      BY <2>1 DEF Plain, Fields
    <3> QED BY <3>1, <3>2
  <2>3. t = [r EXCEPT !.hold[p] = x, !.ingress[p] = Tail(@), !.port[p].claimed = @ + 1]
    BY <1>2 DEF Claim
  <2> HIDE DEF r
  <2>4. Plain(r)
    BY <2>2 DEF Flow
  <2>5. /\ DOMAIN t = Fields
        /\ t.hold = [r.hold EXCEPT ![p] = x]
        /\ t.ingress = [r.ingress EXCEPT ![p] = Tail(r.ingress[p])]
        /\ t.egress = r.egress /\ t.callbacks = r.callbacks /\ t.efb = r.efb
        /\ t.inProgress = r.inProgress /\ t.events = r.events
    BY <2>3, <2>4 DEF Plain, Fields
  <2>6. /\ r.ingress \in [Ports -> Seq(Contents)] /\ r.hold \in [Ports -> Contents \cup {None}]
        /\ In \in Ports /\ Out \in Ports /\ In # Out
        /\ r.hold[p] = None /\ r.ingress[p] # <<>>
        /\ \A q \in Ports : r.ingress[q] \in Seq(Contents)
    BY <1>2, <2>2, <2>4, TwoPorts DEF Plain
  <2> DEFINE h == Head(r.ingress[p])
             rest == Tail(r.ingress[p])
  <2>7. /\ h \in Contents /\ rest \in Seq(Contents)
        /\ Has(r.ingress[p], "last") <=> h = "last" \/ Has(rest, "last")
        /\ Blank(r.ingress[p]) <=> h = "empty" /\ Blank(rest)
        /\ Rear(r.ingress[p]) => Rear(rest) /\ (rest # <<>> => h # "last")
    BY <2>6, HeadAndTail
  <2>8. x = (IF p = In THEN h ELSE "empty") /\ x \in Contents
    BY <2>2, <2>7 DEF Contents
  <2> HIDE DEF x, h
  <2>9. /\ t.hold \in [Ports -> Contents \cup {None}] /\ t.ingress \in [Ports -> Seq(Contents)]
        /\ \A q \in Ports : q # p => t.hold[q] = r.hold[q] /\ t.ingress[q] = r.ingress[q]
        /\ t.hold[p] = x /\ t.ingress[p] = rest
    BY <2>5, <2>6, <2>7, <2>8
  <2> HIDE DEF rest
  <2>10. Plain(t)
    <3>1. Blank(t.ingress[Out]) /\ t.hold[Out] \in {None, "empty"}
      <4>1. CASE p = Out
        <5>1. Blank(rest)
          BY <2>4, <2>7, <4>1 DEF Plain
        <5> QED BY <2>6, <2>8, <2>9, <4>1, <5>1
      <4>2. CASE p # Out
        BY <2>4, <2>6, <2>9, <4>2 DEF Plain
      <4> QED BY <4>1, <4>2
    <3> QED BY <2>4, <2>5, <2>9, <3>1 DEF Plain, Efb
  <2>11. FlowIn(t, r)
    <3>1. CASE p # In
      BY <2>5, <2>6, <2>9, <3>1 DEF FlowIn, NotIn, Trailing, Drained, Efb
    <3>2. CASE p = In
      <4>1. Efb(t, In) = Efb(r, In) /\ t.hold[In] = h /\ t.ingress[In] = rest /\ h # None
        BY <2>5, <2>7, <2>8, <2>9, <3>2 DEF Efb, Contents, None
      <4>2. NotIn(r) => NotIn(t)
        BY <2>7, <3>2, <4>1 DEF NotIn
      <4>3. Trailing(r) => Trailing(t)
        BY <2>7, <3>2, <4>1 DEF Trailing
      <4>4. ~Drained(r)
        BY <2>6, <3>2 DEF Drained
      <4> QED BY <4>2, <4>3, <4>4 DEF FlowIn
    <3> QED BY <3>1, <3>2
  <2>12. FlowOut(t, r)
    BY <2>5 DEF FlowOut, NotOut, Sealed, NoData, Back
  <2>13. Announced(t) => Announced(r)
    BY <2>5 DEF Announced
  <2>14. Flow(t, r)
    BY <2>10, <2>11, <2>12, <2>13, FlowParts
  <2> QED BY <2>2, <2>14, FlowTwice
<1> QED BY <1>1, <1>2

\* From s to t a header of p has been released, and comes last of those that have.
Releases(t, s, p, what) ==
    /\ Plain(t)
    /\ t.hold = [s.hold EXCEPT ![p] = None]
    /\ t.efb = s.efb /\ t.ingress = s.ingress /\ t.egress = s.egress /\ t.events = s.events
    /\ \A q \in Ports : Back(s, q) \in Seq(Contents)
    /\ Back(t, p) = Back(s, p) \o <<what>>
    /\ \A q \in Ports : q # p => Back(t, q) = Back(s, q)

\* krn_release_buffer puts the header behind what has been released before.
LEMMA ReleaseIs ==
    ASSUME NEW s, Plain(s), NEW p \in Ports, NEW what \in Contents, NEW t, t = Release(s, p, what)
    PROVE  Releases(t, s, p, what)
<1> DEFINE m == Header(p, what)
<1>1. s.callbacks \in Seq(Callbacks) /\ s.hold \in [Ports -> Contents \cup {None}]
  BY DEF Plain
<1>2. m \in Callbacks /\ m.port = p /\ m.what = what
  BY HeaderIs DEF Header
<1>3. t = [s EXCEPT !.hold[p] = None, !.callbacks = Append(@, m)]
  BY DEF Release
<1> HIDE DEF m
<1>4. /\ DOMAIN t = Fields
      /\ t.hold = [s.hold EXCEPT ![p] = None]
      /\ t.callbacks = Append(s.callbacks, m)
      /\ t.efb = s.efb /\ t.ingress = s.ingress /\ t.egress = s.egress
      /\ t.events = s.events /\ t.inProgress = s.inProgress
  BY <1>3 DEF Plain, Fields
<1>5. ASSUME NEW q \in Ports
      PROVE  /\ Append(s.callbacks, m) \in Seq(Callbacks) /\ Back(s, q) \in Seq(Contents)
             /\ q = p => CarriedBy(Append(s.callbacks, m), q) = Back(s, q) \o <<what>>
             /\ q # p => CarriedBy(Append(s.callbacks, m), q) = Back(s, q)
  <2>1. /\ Append(s.callbacks, m) \in Seq(Callbacks) /\ CarriedBy(s.callbacks, q) \in Seq(Contents)
        /\ m.port = q => CarriedBy(Append(s.callbacks, m), q) = CarriedBy(s.callbacks, q) \o <<m.what>>
        /\ m.port # q => CarriedBy(Append(s.callbacks, m), q) = CarriedBy(s.callbacks, q)
    BY <1>1, <1>2, CarriedLast
  <2> QED BY <1>2, <2>1, Zenon DEF Back
<1>6. \A q \in Ports : Back(t, q) = CarriedBy(Append(s.callbacks, m), q)
  BY <1>4 DEF Back
<1>7. t.hold \in [Ports -> Contents \cup {None}] /\ t.hold[Out] \in {None, "empty"}
  BY <1>1, <1>4, TwoPorts DEF Plain
<1>8. t.callbacks \in Seq(Callbacks)
  BY <1>4, <1>5
<1>9. Plain(t)
  BY <1>4, <1>7, <1>8 DEF Plain, Efb
<1> QED BY <1>4, <1>5, <1>6, <1>9, Zenon DEF Releases

\* Who releases an input header, or an empty one, keeps the order.
LEMMA ReleaseFlows ==
    ASSUME NEW s, NEW p \in Ports, NEW what \in Contents, p = In \/ what = "empty",
           NEW t, t = Release(s, p, what)
    PROVE  Flow(t, s)
<1> SUFFICES ASSUME Plain(s) PROVE Flow(t, s)
  BY DEF Flow
<1>1. In \in Ports /\ Out \in Ports /\ In # Out
  BY TwoPorts
<1>2. /\ Plain(t)
      /\ t.hold = [s.hold EXCEPT ![p] = None]
      /\ t.efb = s.efb /\ t.ingress = s.ingress /\ t.egress = s.egress /\ t.events = s.events
      /\ \A q \in Ports : Back(s, q) \in Seq(Contents)
      /\ Back(t, p) = Back(s, p) \o <<what>>
      /\ \A q \in Ports : q # p => Back(t, q) = Back(s, q)
  BY ReleaseIs DEF Releases
<1>3. FlowIn(t, s)
  <2>1. t.hold[In] \in {s.hold[In], None} /\ None # "last"
    BY <1>1, <1>2 DEF Plain, None
  <2> QED BY <1>2, <2>1 DEF FlowIn, NotIn, Trailing, Drained, Efb
<1>4. FlowOut(t, s)
  <2>1. CASE p # Out
    <3>1. Back(t, Out) = Back(s, Out)
      BY <1>1, <1>2, <2>1
    <3> QED BY <1>2, <3>1 DEF FlowOut, NotOut, Sealed, NoData
  <2>2. CASE p = Out
    <3>1. what = "empty"
      BY <1>1, <2>2
    <3>2. /\ Has(Back(t, Out), "last") <=> Has(Back(s, Out), "last")
          /\ Has(Back(t, Out), "data") <=> Has(Back(s, Out), "data")
          /\ Closed(Back(s, Out)) => Closed(Back(t, Out))
      <4>1. ASSUME NEW a \in Seq(Contents)
            PROVE  /\ Has(a \o <<what>>, "last") <=> Has(a, "last")
                   /\ Has(a \o <<what>>, "data") <=> Has(a, "data")
                   /\ Closed(a) => Closed(a \o <<what>>)
        <5>1. /\ <<what>> \in Seq(Contents) /\ Closed(<<what>>)
              /\ ~Has(<<what>>, "last") /\ ~Has(<<what>>, "data")
          BY <3>1, ShortLists
        <5>2. \A b \in Seq(Contents) :
                /\ Has(a \o b, "last") <=> Has(a, "last") \/ Has(b, "last")
                /\ Has(a \o b, "data") <=> Has(a, "data") \/ Has(b, "data")
          BY HasJoined
        <5>3. \A b \in Seq(Contents) :
                Closed(a \o b) <=> Closed(a) /\ Closed(b) /\ (Has(a, "last") => ~Has(b, "data"))
          BY ClosedJoined
        <5> QED BY <5>1, <5>2, <5>3
      <4>2. Back(s, Out) \in Seq(Contents) /\ Back(t, Out) = Back(s, Out) \o <<what>>
        BY <1>1, <1>2, <2>2
      <4> QED BY <4>1, <4>2
    <3> QED BY <1>2, <3>2 DEF FlowOut, NotOut, Sealed, NoData
  <2> QED BY <2>1, <2>2
<1>5. Announced(t) => Announced(s)
  BY <1>2 DEF Announced
<1> QED BY <1>2, <1>3, <1>4, <1>5, FlowParts

\* release_headers of one port.
LEMMA ReleaseHeldFlows ==
    ASSUME NEW s, NEW p \in Ports, NEW t, t = ReleaseHeld(s, p)
    PROVE  Flow(t, s)
<1> SUFFICES ASSUME Plain(s) PROVE Flow(t, s)
  BY DEF Flow
<1>1. CASE s.hold[p] = None
  BY <1>1, FlowSelf DEF ReleaseHeld
<1>2. CASE s.hold[p] # None
  <2>1. t = Release(s, p, s.hold[p])
    BY <1>2 DEF ReleaseHeld
  <2>2. s.hold[p] \in Contents /\ (p = In \/ s.hold[p] = "empty")
    BY <1>2, TwoPorts DEF Plain
  <2> QED BY <2>1, <2>2, ReleaseFlows
<1> QED BY <1>1, <1>2

\* A turn of the decoder: what was decoded leaves before the end of the stream.
LEMMA TransformFlows ==
    ASSUME NEW s, NEW t, t = Transform(s)
    PROVE  Flow(t, s)
<1> SUFFICES ASSUME Plain(s) PROVE Flow(t, s)
  BY DEF Flow
<1> PICK a : a = Claim(s, In)
  OBVIOUS
<1> PICK u : u = Claim(a, Out)
  OBVIOUS
<1>1. In \in Ports /\ Out \in Ports /\ In # Out
  BY TwoPorts
<1>2. Flow(u, s) /\ Plain(u)
  <2>1. Flow(a, s)
    BY <1>1, ClaimFlows
  <2>2. Flow(u, a)
    BY <1>1, ClaimFlows
  <2>3. Flow(u, s)
    BY <2>1, <2>2, FlowTwice
  <2> QED BY <2>3 DEF Flow
<1>3. /\ None \in {u.hold[In], u.hold[Out]} => t = u
      /\ None \notin {u.hold[In], u.hold[Out]} /\ u.hold[In] = "last" =>
            t = Release(Release(u, Out, "last"), In, "empty")
      /\ None \notin {u.hold[In], u.hold[Out]} /\ u.hold[In] # "last" =>
            t = Release(Release(u, In, "empty"), Out, "data")
  <2> DEFINE ending == Release(Release(u, Out, "last"), In, "empty")
             going == Release(Release(u, In, "empty"), Out, "data")
  <2>1. t = CASE None \in {u.hold[In], u.hold[Out]} -> u
              [] u.hold[In] = "last" /\ u.hold[Out] # None -> ending
              [] OTHER -> going
    BY DEF Transform
  <2> HIDE DEF ending, going
  <2>2. None # "last"
    BY DEF None
  <2>3. /\ None \in {u.hold[In], u.hold[Out]} => t = u
        /\ None \notin {u.hold[In], u.hold[Out]} /\ u.hold[In] = "last" => t = ending
        /\ None \notin {u.hold[In], u.hold[Out]} /\ u.hold[In] # "last" => t = going
    BY <2>1, <2>2
  <2> QED BY <2>3 DEF ending, going
<1>4. ASSUME u.hold[In] # None, NEW x \in {"last", "data"},
             u.hold[In] = "last" <=> x = "last",
             /\ Plain(t) /\ t.hold[In] = None
             /\ t.efb = u.efb /\ t.ingress = u.ingress /\ t.egress = u.egress /\ t.events = u.events
             /\ Back(u, Out) \in Seq(Contents) /\ Back(t, Out) = Back(u, Out) \o <<x>>
      PROVE  Flow(t, u)
  <2> PICK b : b = Back(u, Out)
    OBVIOUS
  <2>1. /\ b \in Seq(Contents) /\ Back(t, Out) = b \o <<x>>
        /\ Efb(t, In) = Efb(u, In) /\ None # "last"
    BY <1>4 DEF Efb, None
  <2>2. /\ Has(b \o <<x>>, "last") <=> Has(b, "last") \/ x = "last"
        /\ Closed(b \o <<x>>) <=> Closed(b) /\ (Has(b, "last") => x # "data")
    <3>1. /\ <<x>> \in Seq(Contents) /\ Closed(<<x>>)
          /\ Has(<<x>>, "last") <=> x = "last"
          /\ Has(<<x>>, "data") <=> x = "data"
      <4>1. x \in Contents
        BY DEF Contents
      <4> QED BY <4>1, ShortLists
    <3>2. \A d \in Seq(Contents) : Has(b \o d, "last") <=> Has(b, "last") \/ Has(d, "last")
      BY <2>1, HasJoined
    <3>3. \A d \in Seq(Contents) :
            Closed(b \o d) <=> Closed(b) /\ Closed(d) /\ (Has(b, "last") => ~Has(d, "data"))
      BY <2>1, ClosedJoined
    <3> QED BY <3>1, <3>2, <3>3
  <2>3. ~Drained(u) /\ ~Finished(u)
    BY <1>4 DEF Drained, Finished
  <2>4. Fresh(u) => Fresh(t)
    BY <1>4, <2>1, <2>2 DEF Fresh, NotIn, NotOut
  <2>5. ASSUME Ordered(u) PROVE Ordered(t)
    <3>1. Trailing(u) /\ NotOut(u)
      BY <2>3, <2>5 DEF Ordered
    <3>2. Trailing(t)
      BY <1>4, <2>1, <3>1 DEF Trailing
    <3>3. CASE x = "data"
      <4>1. NotOut(t)
        BY <1>4, <2>1, <2>2, <3>1, <3>3 DEF NotOut
      <4> QED BY <3>2, <4>1 DEF Ordered
    <3>4. CASE x = "last"
      <4>1. Drained(t)
        BY <1>4, <2>1, <3>1, <3>4 DEF Drained, Trailing
      <4>2. Closed(b) /\ Closed(t.egress[Out]) /\ ~Has(t.egress[Out], "last")
        BY <1>4, <3>1 DEF NotOut, Closed, Has
      <4>3. Sealed(t)
        BY <2>1, <2>2, <3>4, <4>2 DEF Sealed
      <4> QED BY <3>2, <4>1, <4>3 DEF Ordered
    <3> QED BY <3>3, <3>4
  <2>6. Announced(t) => Announced(u)
    BY <1>4 DEF Announced
  <2> QED BY <1>4, <2>3, <2>4, <2>5, <2>6 DEF Flow
<1>5. CASE None \in {u.hold[In], u.hold[Out]}
  BY <1>2, <1>3, <1>5
<1>6. CASE None \notin {u.hold[In], u.hold[Out]} /\ u.hold[In] = "last"
  <2> PICK v : v = Release(u, Out, "last")
    OBVIOUS
  <2>0. "last" \in Contents /\ "empty" \in Contents /\ t = Release(v, In, "empty")
    BY <1>3, <1>6 DEF Contents
  <2>1. Releases(v, u, Out, "last")
    BY <1>1, <1>2, <2>0, ReleaseIs
  <2>2. Releases(t, v, In, "empty")
    <3>1. Plain(v)
      BY <2>1 DEF Releases
    <3> QED BY <1>1, <2>0, <3>1, ReleaseIs
  <2>3. t.hold[In] = None
    BY <1>1, <2>1, <2>2 DEF Plain, Releases
  <2>4. /\ Back(u, Out) \in Seq(Contents) /\ Back(t, Out) = Back(u, Out) \o <<"last">>
        /\ t.efb = u.efb /\ t.ingress = u.ingress /\ t.egress = u.egress /\ t.events = u.events
    BY <1>1, <2>1, <2>2, Zenon DEF Releases
  <2>5. u.hold[In] # None
    BY <1>6
  <2>6. Flow(t, u)
    BY <1>4, <1>6, <2>2, <2>3, <2>4, <2>5 DEF Releases
  <2> QED BY <1>2, <2>6, FlowTwice
<1>7. CASE None \notin {u.hold[In], u.hold[Out]} /\ u.hold[In] # "last"
  <2> PICK v : v = Release(u, In, "empty")
    OBVIOUS
  <2>0. "data" \in Contents /\ "empty" \in Contents /\ t = Release(v, Out, "data")
    BY <1>3, <1>7 DEF Contents
  <2>1. Releases(v, u, In, "empty")
    BY <1>1, <1>2, <2>0, ReleaseIs
  <2>2. Releases(t, v, Out, "data")
    <3>1. Plain(v)
      BY <2>1 DEF Releases
    <3> QED BY <1>1, <2>0, <3>1, ReleaseIs
  <2>3. t.hold[In] = None
    BY <1>1, <1>2, <2>1, <2>2 DEF Plain, Releases
  <2>4. /\ Back(u, Out) \in Seq(Contents) /\ Back(t, Out) = Back(u, Out) \o <<"data">>
        /\ t.efb = u.efb /\ t.ingress = u.ingress /\ t.egress = u.egress /\ t.events = u.events
    BY <1>1, <2>1, <2>2, Zenon DEF Releases
  <2>5. u.hold[In] # None
    BY <1>7
  <2>6. Flow(t, u)
    BY <1>4, <1>7, <2>2, <2>3, <2>4, <2>5 DEF Releases
  <2> QED BY <1>2, <2>6, FlowTwice
<1> QED BY <1>5, <1>6, <1>7

\* What dispatch_port_flush leaves of it, for one port.
LEMMA FlushHeadersFlows ==
    ASSUME NEW s, NEW p \in Ports, NEW i \in Ports, NEW t, t = FlushHeaders(s, p, i)
    PROVE  Flow(t, s)
<1> PICK a : a = Drain(s, i)
  OBVIOUS
<1> PICK b : b = MoveToEgress(a, p)
  OBVIOUS
<1> PICK c : c = FlushEgress(b, p)
  OBVIOUS
<1> PICK r : r = IF s.cur \in {"Executing", "Pause"} THEN c ELSE s
  OBVIOUS
<1> PICK u : u = [r EXCEPT !.port[p].flushing = TRUE]
  OBVIOUS
<1>1. t = CompletePortFlush(r, p) \/ t = ToProcessor(u, PortCommand("Flush", p))
  BY DEF FlushHeaders
<1>2. Flow(a, s)
  BY DrainFlows
<1>3. Flow(b, a)
  BY MoveToEgressFlows
<1>4. Flow(c, b)
  BY FlushEgressFlows
<1>5. Flow(c, s)
  BY <1>2, <1>3, <1>4, FlowTwice
<1>6. Flow(r, s)
  BY <1>5, FlowSelf
<1>7. Flow(u, r)
  <2>1. \E k : u = [r EXCEPT !.port = k]
    OBVIOUS
  <2> QED BY <2>1, SmallFlows
<1>8. Flow(ToProcessor(u, PortCommand("Flush", p)), u)
  BY SmallFlows
<1>9. Flow(ToProcessor(u, PortCommand("Flush", p)), r)
  BY <1>7, <1>8, FlowTwice
<1>10. Flow(CompletePortFlush(r, p), r)
  BY CompletePortFlushFlows
<1>11. Flow(t, r)
  BY <1>1, <1>9, <1>10
<1> QED BY <1>6, <1>11, FlowTwice

\* What a turn of a loop leaves of it.
LEMMA TurnFlows ==
    ASSUME NEW kind \in {"egress", "stop", "propagate", "release", "flush", "decode"},
           NEW s, NEW p \in Ports
    PROVE  Flow(Turn(kind, s, p), s)
<1>1. CASE kind = "egress"
  BY <1>1, TurnIs, FlushEgressFlows
<1>2. CASE kind = "stop"
  <2> PICK a : a = Drain(s, ALL)
    OBVIOUS
  <2> PICK b : b = ToProcessor(a, PortCommand("Flush", p))
    OBVIOUS
  <2> PICK c : c = MoveToEgress(b, p)
    OBVIOUS
  <2> PICK d : d = FlushEgress(c, p)
    OBVIOUS
  <2>1. Flow(a, s)
    BY DrainFlows
  <2>2. Flow(b, a)
    BY SmallFlows
  <2>3. Flow(c, b)
    BY MoveToEgressFlows
  <2>4. Flow(d, c)
    BY FlushEgressFlows
  <2>5. Turn(kind, s, p) = d
    BY <1>2, TurnIs DEF StopTurn
  <2>6. Flow(b, s)
    BY <2>1, <2>2, FlowTwice
  <2>7. Flow(c, s)
    BY <2>6, <2>3, FlowTwice
  <2> QED BY <2>4, <2>5, <2>7, FlowTwice
<1>3. CASE kind = "propagate"
  <2>1. \E k : Turn(kind, s, p) = [s EXCEPT !.ready = k]
    BY <1>3, TurnIs DEF PropagateTurn
  <2> QED BY <2>1, SmallFlows
<1>4. CASE kind = "release"
  BY <1>4, TurnIs, ReleaseHeldFlows
<1>5. CASE kind = "flush"
  BY <1>5, TurnIs, FlushHeadersFlows DEF FlushTurn
<1>6. CASE kind = "decode"
  BY <1>6, TurnIs, TransformFlows
<1> QED BY <1>1, <1>2, <1>3, <1>4, <1>5, <1>6

\* What a loop leaves of it, by induction on its turns.
LEMMA LoopFlows ==
    ASSUME NEW kind \in {"egress", "stop", "propagate", "release", "flush"},
           NEW s, NEW f, IsLoop(f, kind, s, Len(PortList))
    PROVE  Flow(f[Len(PortList)], s)
<1> PICK u : u = Turn(kind, s, In)
  OBVIOUS
<1>1. f[Len(PortList)] = Turn(kind, u, Out)
  BY TwoTurns
<1>2. Flow(u, s) /\ Flow(Turn(kind, u, Out), u)
  BY TurnFlows, TwoPorts
<1> QED BY <1>1, <1>2, FlowTwice

\* What flush_egress of all ports leaves of it.
LEMMA FlushAllEgressFlows ==
    ASSUME NEW s, NEW t, t = FlushAllEgress(s)
    PROVE  Flow(t, s)
<1> DEFINE n == Len(PortList)
           after == CHOOSE g : g = [k \in 0 .. n |->
                        IF k = 0 THEN s ELSE FlushEgress(g[k - 1], PortList[k])]
<1>0. n \in Nat
  BY PortAssumption
<1>1. PICK f : IsLoop(f, "egress", s, n)
  BY <1>0, LoopExists
<1>2. f = [k \in 0 .. n |-> IF k = 0 THEN s ELSE FlushEgress(f[k - 1], PortList[k])]
  BY <1>1, TurnIs DEF IsLoop
<1>3. after = [k \in 0 .. n |-> IF k = 0 THEN s ELSE FlushEgress(after[k - 1], PortList[k])]
  BY <1>2
<1>4. t = after[n]
  BY DEF FlushAllEgress, ForEachPort
<1> HIDE DEF after
<1>5. IsLoop(after, "egress", s, n)
  BY <1>3, TurnIs DEF IsLoop
<1> QED BY <1>4, <1>5, LoopFlows

\* What propagate_ingress leaves of it.
LEMMA PropagateFlows ==
    ASSUME NEW s, NEW t, t = Propagate(s)
    PROVE  Flow(t, s)
<1> DEFINE n == Len(PortList)
           after == CHOOSE g : g = [k \in 0 .. n |->
                        IF k = 0 THEN s ELSE PropagateTurn(g[k - 1], PortList[k])]
<1>0. n \in Nat
  BY PortAssumption
<1>1. PICK f : IsLoop(f, "propagate", s, n)
  BY <1>0, LoopExists
<1>2. f = [k \in 0 .. n |-> IF k = 0 THEN s ELSE PropagateTurn(f[k - 1], PortList[k])]
  BY <1>1, TurnIs DEF IsLoop
<1>3. after = [k \in 0 .. n |-> IF k = 0 THEN s ELSE PropagateTurn(after[k - 1], PortList[k])]
  BY <1>2
<1>4. t = after[n]
  BY DEF Propagate, PropagateTurn, ForEachPort
<1> HIDE DEF after
<1>5. IsLoop(after, "propagate", s, n)
  BY <1>3, TurnIs DEF IsLoop
<1> QED BY <1>4, <1>5, LoopFlows

\* What release_headers of both ports leaves of it.
LEMMA ReleaseBothFlows ==
    ASSUME NEW s, NEW t, t = ForEachPort(ReleaseHeld, s)
    PROVE  Flow(t, s)
<1> DEFINE n == Len(PortList)
           after == CHOOSE g : g = [k \in 0 .. n |->
                        IF k = 0 THEN s ELSE ReleaseHeld(g[k - 1], PortList[k])]
<1>0. n \in Nat
  BY PortAssumption
<1>1. PICK f : IsLoop(f, "release", s, n)
  BY <1>0, LoopExists
<1>2. f = [k \in 0 .. n |-> IF k = 0 THEN s ELSE ReleaseHeld(f[k - 1], PortList[k])]
  BY <1>1, TurnIs DEF IsLoop
<1>3. after = [k \in 0 .. n |-> IF k = 0 THEN s ELSE ReleaseHeld(after[k - 1], PortList[k])]
  BY <1>2
<1>4. t = after[n]
  BY DEF ForEachPort
<1> HIDE DEF after
<1>5. IsLoop(after, "release", s, n)
  BY <1>3, TurnIs DEF IsLoop
<1> QED BY <1>4, <1>5, LoopFlows

\* What krn_stop_and_return leaves of it.
LEMMA StopHeadersFlows ==
    ASSUME NEW s, NEW t, t = StopHeaders(s)
    PROVE  Flow(t, s)
<1> DEFINE n == Len(PortList)
           after == CHOOSE g : g = [k \in 0 .. n |->
                        IF k = 0 THEN s ELSE StopTurn(g[k - 1], PortList[k])]
<1>0. n \in Nat
  BY PortAssumption
<1>1. PICK f : IsLoop(f, "stop", s, n)
  BY <1>0, LoopExists
<1>2. f = [k \in 0 .. n |-> IF k = 0 THEN s ELSE StopTurn(f[k - 1], PortList[k])]
  BY <1>1, TurnIs DEF IsLoop
<1>3. after = [k \in 0 .. n |-> IF k = 0 THEN s ELSE StopTurn(after[k - 1], PortList[k])]
  BY <1>2
<1>4. t = after[n]
  BY DEF StopHeaders, StopTurn, ForEachPort
<1> HIDE DEF after
<1>5. IsLoop(after, "stop", s, n)
  BY <1>3, TurnIs DEF IsLoop
<1> QED BY <1>4, <1>5, LoopFlows

\* What dispatch_port_flush of all ports leaves of it.
LEMMA FlushBothFlows ==
    ASSUME NEW s, NEW t, t = ForTargets(FlushHeaders, s, ALL)
    PROVE  Flow(t, s)
<1>0. t = ForEachPort(LAMBDA x, p : FlushHeaders(x, p, p), s)
  BY DEF ForTargets
<1> DEFINE n == Len(PortList)
           after == CHOOSE g : g = [k \in 0 .. n |->
                        IF k = 0 THEN s ELSE FlushTurn(g[k - 1], PortList[k])]
<1>1. n \in Nat
  BY PortAssumption
<1>2. PICK f : IsLoop(f, "flush", s, n)
  BY <1>1, LoopExists
<1>3. f = [k \in 0 .. n |-> IF k = 0 THEN s ELSE FlushTurn(f[k - 1], PortList[k])]
  BY <1>2, TurnIs DEF IsLoop
<1>4. after = [k \in 0 .. n |-> IF k = 0 THEN s ELSE FlushTurn(after[k - 1], PortList[k])]
  BY <1>3
<1>5. t = after[n]
  BY <1>0 DEF ForEachPort, FlushTurn
<1> HIDE DEF after
<1>6. IsLoop(after, "flush", s, n)
  BY <1>4, TurnIs, SMTT(30) DEF IsLoop
<1> QED BY <1>5, <1>6, LoopFlows

\* What the decoder's loop leaves of it, by induction on its turns.
LEMMA DecodeFlows ==
    ASSUME NEW s, NEW t, t = Decode(s)
    PROVE  Flow(t, s)
<1> DEFINE n == NBufs + 1
           after == CHOOSE g : g = [k \in 0 .. n |-> IF k = 0 THEN s ELSE Transform(g[k - 1])]
<1>0. n \in Nat
  BY PortAssumption
<1>1. PICK f : IsLoop(f, "decode", s, n)
  BY <1>0, LoopExists
<1>2. f = [k \in 0 .. n |-> IF k = 0 THEN s ELSE Transform(f[k - 1])]
  BY <1>1, TurnIs, ZenonT(30) DEF IsLoop
<1>3. after = [k \in 0 .. n |-> IF k = 0 THEN s ELSE Transform(after[k - 1])]
  BY <1>2
<1>4. t = after[n]
  BY DEF Decode
<1> HIDE DEF after, n
<1>5. \A k \in 0 .. n : after[k] = IF k = 0 THEN s ELSE Transform(after[k - 1])
  BY <1>3
<1> DEFINE G == {k \in Nat : k <= n => Flow(after[k], s)}
<1>6. 0 \in G
  BY <1>0, <1>5, FlowSelf
<1>7. ASSUME NEW k \in Nat, k \in G PROVE k + 1 \in G
  <2> SUFFICES ASSUME k + 1 <= n PROVE Flow(after[k + 1], s)
    OBVIOUS
  <2>1. Flow(after[k], s)
    BY <1>0, <1>7
  <2>2. after[k + 1] = Transform(after[k])
    BY <1>0, <1>5
  <2>3. Flow(after[k + 1], after[k])
    BY <2>2, TransformFlows
  <2> QED BY <2>1, <2>3, FlowTwice
<1> HIDE DEF G
<1>8. n \in G
  BY <1>0, <1>6, <1>7, NatSets
<1> QED BY <1>0, <1>4, <1>8 DEF G

\* What the processor leaves of it when it is told that a header came in.
LEMMA BuffersReadyFlows ==
    ASSUME NEW s, NEW t, t = BuffersReady(s)
    PROVE  Flow(t, s)
<1>1. t = s \/ t = ReadHeaders(s) \/ t = Decode(s)
  BY DEF BuffersReady
<1>2. CASE t = ReadHeaders(s)
  <2> PICK u : u = Claim(s, In)
    OBVIOUS
  <2> PICK v : v = Release(u, In, "empty")
    OBVIOUS
  <2>1. In \in Ports /\ "empty" \in Contents
    BY TwoPorts DEF Contents
  <2>2. Flow(u, s)
    BY <2>1, ClaimFlows
  <2>3. Flow(v, u)
    BY <2>1, ReleaseFlows
  <2>4. t = u \/ \E k : t = [v EXCEPT !.packets = k]
    BY <1>2, Zenon DEF ReadHeaders
  <2>5. Flow(v, s)
    BY <2>2, <2>3, FlowTwice
  <2>6. t = u \/ Flow(t, v)
    BY <2>4, SmallFlows
  <2> QED BY <2>2, <2>5, <2>6, FlowTwice
<1> QED BY <1>1, <1>2, FlowSelf, DecodeFlows

\* What a command leaves of it at the processor.
LEMMA CommandOfProcessorFlows ==
    ASSUME NEW s, NEW c, c.cmd = "Flush" => c.param \in Ports,
           NEW t, t = CommandOfProcessor(s, c)
    PROVE  Flow(t, s)
<1> PICK u : u = ForEachPort(ReleaseHeld, s)
  OBVIOUS
<1> PICK v : v = [s EXCEPT !.packets = 0]
  OBVIOUS
<1>1. Flow(u, s) /\ Flow(v, s)
  BY ReleaseBothFlows, SmallFlows
<1>2. \/ c.cmd = "Flush" /\ t = ReleaseHeld(s, c.param)
      \/ t = ProcessorStateSet(u, "Idle")
      \/ t = ProcessorStateSet(v, "Executing")
      \/ t = ProcessorStateSet(s, c.param)
  <2> DEFINE idle == ProcessorStateSet(ForEachPort(ReleaseHeld, s), "Idle")
             runs == ProcessorStateSet([s EXCEPT !.packets = 0], "Executing")
             other == ProcessorStateSet(s, c.param)
             freed == ReleaseHeld(s, c.param)
  <2>1. idle = ProcessorStateSet(u, "Idle") /\ runs = ProcessorStateSet(v, "Executing")
    OBVIOUS
  <2> PICK now : now = Reported(s.cur)
    OBVIOUS
  <2>2. t = CASE c.cmd = "Flush" -> freed
              [] c.cmd = "StateSet" /\ c.param = "Idle" -> idle
              [] <<now, c.cmd, c.param>> = <<"Idle", "StateSet", "Executing">> -> runs
              [] OTHER -> other
    BY DEF CommandOfProcessor
  <2> HIDE DEF idle, runs, other, freed
  <2>3. (t = freed /\ c.cmd = "Flush") \/ t = idle \/ t = runs \/ t = other
    BY <2>2
  <2> QED BY <2>1, <2>3 DEF freed, other
<1>3. Flow(ProcessorStateSet(u, "Idle"), u) /\ Flow(ProcessorStateSet(v, "Executing"), v)
      /\ Flow(ProcessorStateSet(s, c.param), s)
  BY PartsFlow
<1>4. c.cmd = "Flush" => Flow(ReleaseHeld(s, c.param), s)
  BY ReleaseHeldFlows
<1> QED BY <1>1, <1>2, <1>3, <1>4, FlowTwice

\* What dispatch_state_set leaves of it.
LEMMA StateSetOfKernelFlows ==
    ASSUME NEW s, NEW st, NEW t, t = StateSetOfKernel(s, st)
    PROVE  Flow(t, s)
<1> PICK now : now = Reported(s.cur)
  OBVIOUS
<1> PICK stopped : stopped = ForgetEos(StopHeaders(s))
  OBVIOUS
<1> DEFINE done(u) == CompleteTransition(u, "kernel", st)
           cleared == ClearLists(stopped)
           fresh == ClearLists(s)
           resumed == [s EXCEPT !.callbacks = Append(@, DummyCallback)]
           left == FlushAllEgress(s)
           told == Propagate(left)
           other == KernelStateSet(s, st)
           given == AllBuffersReturned(stopped.port)
<1>1. t = CASE now \in {"Executing", "Pause"} /\ st = "Idle" ->
                IF given THEN done(cleared) ELSE stopped
            [] <<now, st>> = <<"Idle", "Executing">> -> done(fresh)
            [] <<now, st>> = <<"Pause", "Executing">> -> done(resumed)
            [] <<now, st>> = <<"Executing", "Executing">> -> told
            [] OTHER -> other
  BY DEF StateSetOfKernel
<1>2. Flow(stopped, s)
  <2>1. Flow(StopHeaders(s), s)
    BY StopHeadersFlows
  <2>2. Flow(stopped, StopHeaders(s))
    BY ForgetEosFlows
  <2> QED BY <2>1, <2>2, FlowTwice
<1>3. Flow(cleared, s)
  <2>1. Flow(cleared, stopped)
    BY ClearListsFlows
  <2> QED BY <1>2, <2>1, FlowTwice
<1>4. Flow(fresh, s)
  BY ClearListsFlows
<1>5. Flow(resumed, s)
  <2> DEFINE k == Append(s.callbacks, DummyCallback)
  <2>1. resumed = [s EXCEPT !.callbacks = k]
    OBVIOUS
  <2>2. ASSUME Plain(s) PROVE k \in Seq(Callbacks) /\ CarriedBy(k, Out) = Back(s, Out)
    <3>1. s.callbacks \in Seq(Callbacks) /\ DummyCallback \in Callbacks /\ Out \in Ports
          /\ DummyCallback.port # Out
      BY <2>2, HeaderIs, TwoPorts DEF Plain, Callbacks
    <3> QED BY <3>1, CarriedLast DEF Back
  <2> HIDE DEF k
  <2> QED BY <2>1, <2>2, DummyFlows
<1>6. Flow(told, s)
  <2>1. Flow(left, s)
    BY FlushAllEgressFlows
  <2>2. Flow(told, left)
    BY PropagateFlows
  <2> QED BY <2>1, <2>2, FlowTwice
<1> HIDE DEF cleared, fresh, resumed, left, told, other, given
<1>7. /\ Flow(done(cleared), cleared) /\ Flow(done(fresh), fresh) /\ Flow(done(resumed), resumed)
  BY CompleteTransitionFlows
<1>8. Flow(done(cleared), s) /\ Flow(done(fresh), s) /\ Flow(done(resumed), s)
  BY <1>3, <1>4, <1>5, <1>7, FlowTwice
<1>9. ~(now \in {"Executing", "Pause"} /\ st = "Idle") /\ <<now, st>> # <<"Pause", "Executing">>
      => Flow(other, s)
  BY PartsFlow DEF other
<1> HIDE DEF done
<1> QED BY <1>1, <1>2, <1>6, <1>8, <1>9

\* What a command leaves of it at the kernel.
LEMMA CommandOfKernelFlows ==
    ASSUME NEW s, NEW c \in Messages, NEW t, t = CommandOfKernel(s, c)
    PROVE  Flow(t, s)
<1> PICK u : u = [s EXCEPT !.completion = CompletionCount(c.param)]
  OBVIOUS
<1>1. c.cmd # "StateSet" => c.param \in Ports \cup {ALL}
  BY DEF Messages, StateSet, PortCommand
<1>2. t = StateSetOfKernel(s, c.param)
      \/ (c.cmd # "StateSet" /\ t = ForTargets(FlushHeaders, u, c.param))
  BY DEF CommandOfKernel
<1>3. Flow(u, s)
  BY SmallFlows
<1>4. CASE c.cmd # "StateSet" /\ t = ForTargets(FlushHeaders, u, c.param)
  <2>1. CASE c.param = ALL
    <3>1. t = ForTargets(FlushHeaders, u, ALL)
      BY <1>4, <2>1
    <3>2. Flow(t, u)
      BY <3>1, FlushBothFlows
    <3> QED BY <1>3, <3>2, FlowTwice
  <2>2. CASE c.param # ALL
    <3>1. t = FlushHeaders(u, c.param, FirstPort) /\ c.param \in Ports /\ FirstPort \in Ports
      BY <1>1, <1>4, <2>2, TwoPorts DEF ForTargets
    <3>2. Flow(t, u)
      BY <3>1, FlushHeadersFlows
    <3> QED BY <1>3, <3>2, FlowTwice
  <2> QED BY <2>1, <2>2
<1> QED BY <1>2, <1>4, StateSetOfKernelFlows

\* What the last header of a port leaves of it when it has come back.
LEMMA LeftFlows ==
    ASSUME NEW s, NEW cur, NEW p, NEW t, t = Left(cur, s, p)
    PROVE  Flow(t, s)
<1> PICK a : a = IF s.port[p].flushing THEN CompletePortFlush(s, p) ELSE s
  OBVIOUS
<1> PICK b : b = ForgetEos(a)
  OBVIOUS
<1> PICK c : c = ClearLists(b)
  OBVIOUS
<1>1. t = CompleteTransition(c, "kernel", "Idle") \/ t = b
  BY DEF Left
<1>2. Flow(a, s)
  BY CompletePortFlushFlows, FlowSelf
<1>3. Flow(b, a)
  BY ForgetEosFlows
<1>4. Flow(c, b)
  BY ClearListsFlows
<1>5. Flow(CompleteTransition(c, "kernel", "Idle"), c)
  BY CompleteTransitionFlows
<1>6. Flow(b, s)
  BY <1>2, <1>3, FlowTwice
<1>7. Flow(c, s)
  BY <1>4, <1>6, FlowTwice
<1>8. Flow(CompleteTransition(c, "kernel", "Idle"), s)
  BY <1>5, <1>7, FlowTwice
<1> QED BY <1>1, <1>6, <1>8

\* What the message without a header leaves of it.
LEMMA DummyServedFlows ==
    ASSUME NEW s, s.callbacks # <<>>, Head(s.callbacks) = DummyCallback,
           NEW t, t = CallbackOfKernel([s EXCEPT !.callbacks = Tail(@)], Head(s.callbacks))
    PROVE  Flow(t, s)
<1> SUFFICES ASSUME Plain(s) PROVE Flow(t, s)
  BY DEF Flow
<1> DEFINE k == Tail(s.callbacks)
           r == [s EXCEPT !.callbacks = k]
<1>1. /\ s.callbacks \in Seq(Callbacks) /\ DummyCallback \in Callbacks /\ Out \in Ports
      /\ DummyCallback.port # Out /\ DOMAIN s = Fields
  BY HeaderIs, TwoPorts DEF Plain, Callbacks
<1>2. k \in Seq(Callbacks) /\ CarriedBy(k, Out) = Back(s, Out)
  BY <1>1, CarriedHead DEF Back
<1>3. t = FlushAllEgress(r) \/ t = [r EXCEPT !.callbacks = Append(r.callbacks, DummyCallback)]
  BY DEF CallbackOfKernel
<1>4. r.callbacks = k
  BY <1>1 DEF Fields
<1> HIDE DEF k
<1>5. Flow(r, s)
  BY <1>2, DummyFlows
<1> HIDE DEF r
<1>6. CASE t = FlushAllEgress(r)
  <2>1. Flow(t, r)
    BY <1>6, FlushAllEgressFlows
  <2> QED BY <1>5, <2>1, FlowTwice
<1>7. CASE t = [r EXCEPT !.callbacks = Append(r.callbacks, DummyCallback)]
  <2> DEFINE l == Append(r.callbacks, DummyCallback)
  <2>1. l \in Seq(Callbacks) /\ CarriedBy(l, Out) = CarriedBy(k, Out)
    BY <1>1, <1>2, <1>4, CarriedLast
  <2>2. CarriedBy(l, Out) = Back(r, Out)
    BY <1>4, <2>1 DEF Back
  <2>3. t = [r EXCEPT !.callbacks = l]
    BY <1>7
  <2> HIDE DEF l
  <2>4. Flow(t, r)
    BY <2>1, <2>2, <2>3, DummyFlows
  <2> QED BY <1>5, <2>4, FlowTwice
<1> QED BY <1>3, <1>6, <1>7

\* What a callback leaves of it at the kernel.
LEMMA CallbackOfKernelFlows ==
    ASSUME NEW s, s.callbacks # <<>>,
           NEW t, t = CallbackOfKernel([s EXCEPT !.callbacks = Tail(@)], Head(s.callbacks))
    PROVE  Flow(t, s)
<1> SUFFICES ASSUME Plain(s), Head(s.callbacks) # DummyCallback PROVE Flow(t, s)
  BY DummyServedFlows DEF Flow
<1> DEFINE m == Head(s.callbacks)
           r == [s EXCEPT !.callbacks = Tail(@)]
           kept == Listed(s)
           left == FlushAllEgress(kept)
           over == Left(r.cur, left, m.port)
<1>1. m \in Callbacks /\ m.port \in Ports
  <2>1. m \in Callbacks
    BY DEF Plain
  <2> QED BY <2>1, HeaderIs
<1>2. Departs(kept, s, m.port, m.what)
  BY DEF Plain, Departs, Listed, Kept, Fields
<1>3. t = kept \/ t = left \/ t = over
  <2>1. kept = Kept(r, m)
    BY DEF Listed
  <2>2. ASSUME NEW x, NEW y, y # DummyCallback
        PROVE  \/ CallbackOfKernel(x, y) = Kept(x, y)
               \/ CallbackOfKernel(x, y) = FlushAllEgress(Kept(x, y))
               \/ CallbackOfKernel(x, y) = Left(x.cur, FlushAllEgress(Kept(x, y)), y.port)
    BY <2>2, CallbackIs, Zenon
  <2>3. t = CallbackOfKernel(r, m) /\ m # DummyCallback
    OBVIOUS
  <2> HIDE DEF r, m, kept
  <2> QED BY <2>1, <2>2, <2>3
<1>4. Flow(kept, s)
  <2> HIDE DEF kept, m
  <2> QED BY <1>1, <1>2, DepartsFlows
<1> HIDE DEF kept
<1>5. Flow(left, kept)
  BY FlushAllEgressFlows
<1> HIDE DEF left
<1>6. Flow(over, left)
  BY LeftFlows
<1> HIDE DEF over
<1>7. Flow(left, s)
  BY <1>4, <1>5, FlowTwice
<1>8. Flow(over, s)
  BY <1>6, <1>7, FlowTwice
<1> QED BY <1>3, <1>4, <1>7, <1>8

\* What a header of the client leaves of it at the kernel.
LEMMA EmptyOrFillFlows ==
    ASSUME NEW s, s.efb # <<>>,
           NEW t, t = EmptyOrFill([s EXCEPT !.efb = Tail(@)], Head(s.efb))
    PROVE  Flow(t, s)
<1> SUFFICES ASSUME Plain(s) PROVE Flow(t, s)
  BY DEF Flow
<1> DEFINE m == Head(s.efb)
           r == [s EXCEPT !.efb = Tail(@)]
           e == Expect(r, Len(r.ingress[m.port]) < NBufs, "list size < buffer count")
           u == [e EXCEPT !.ingress[m.port] = Append(@, m.what)]
<1>1. t = u \/ \E k : t = [u EXCEPT !.ready = k]
  BY DEF EmptyOrFill
<1>2. /\ DOMAIN r = Fields /\ r.efb = Tail(s.efb)
      /\ r.ingress = s.ingress /\ r.egress = s.egress /\ r.callbacks = s.callbacks
      /\ r.hold = s.hold /\ r.inProgress = s.inProgress /\ r.events = s.events
  BY DEF Plain, Fields
<1> HIDE DEF r
<1>3. /\ DOMAIN e = Fields /\ e.efb = Tail(s.efb)
      /\ e.ingress = s.ingress /\ e.egress = s.egress /\ e.callbacks = s.callbacks
      /\ e.hold = s.hold /\ e.inProgress = s.inProgress /\ e.events = s.events
  BY <1>2 DEF Expect, Fields
<1> HIDE DEF e
<1>4. Lands(u, s, m.port, m.what)
  BY <1>3 DEF Lands, Fields
<1> HIDE DEF u, m
<1>5. Flow(u, s)
  BY <1>4, LandsFlows
<1>6. t = u \/ Flow(t, u)
  BY <1>1, SmallFlows
<1> QED BY <1>5, <1>6, FlowTwice

\* What fsm_set_state leaves of it.
LEMMA SetStateFlows ==
    ASSUME NEW s, NEW new, NEW sub, NEW t, t = SetState(s, new, sub)
    PROVE  Flow(t, s)
<1> DEFINE moved == [s EXCEPT !.cur = new,
                              !.canceled = IF sub = None THEN @ ELSE sub]
           error == IF moved.canceled = None THEN None ELSE "CommandCanceled"
           told == Event(moved, "StateSet", new, error)
           right == Expect(told, s.inProgress = "StateSet", "StateSet == in_progress_cmd_")
           reported == CommandDone(right)
           asked == ToServants(reported, StateSet("Executing"))
<1>1. t = s \/ t = moved \/ t = asked \/ t = reported
  <2>1. t = CASE new = s.cur -> s
              [] new # s.cur /\ new \in SubStates -> moved
              [] new # s.cur /\ new = "Executing" -> asked
              [] OTHER -> reported
    BY DEF SetState
  <2> HIDE DEF moved, asked, reported
  <2> QED BY <2>1
<1>2. Flow(moved, s)
  <2>1. Plain(s) => Still(moved, s)
    BY DEF Plain, Fields, Still, SameQueues, Talks
  <2> HIDE DEF moved
  <2> QED BY <2>1, StillFlows
<1> HIDE DEF moved, error
<1>3. Flow(told, moved)
  BY SmallFlows
<1> HIDE DEF told
<1>4. Flow(right, told)
  <2>1. right = told \/ \E k : right = [told EXCEPT !.failed = k]
    BY DEF Expect
  <2> HIDE DEF right
  <2> QED BY <2>1, SmallFlows, FlowSelf
<1> HIDE DEF right
<1>5. Flow(reported, right)
  BY SmallFlows
<1> HIDE DEF reported
<1>6. Flow(asked, reported)
  <2> PICK u : u = ToKernel(reported, StateSet("Executing"))
    OBVIOUS
  <2>1. asked = ToProcessor(u, StateSet("Executing")) /\ \E k : u = [reported EXCEPT !.krn = k]
    BY DEF ToServants, ToKernel
  <2> HIDE DEF asked
  <2>2. Flow(u, reported) /\ Flow(asked, u)
    BY <2>1, SmallFlows
  <2> QED BY <2>2, FlowTwice
<1> HIDE DEF asked
<1>7. Flow(told, s)
  BY <1>2, <1>3, FlowTwice
<1>8. Flow(right, s)
  BY <1>4, <1>7, FlowTwice
<1>9. Flow(reported, s)
  BY <1>5, <1>8, FlowTwice
<1>10. Flow(asked, s)
  BY <1>6, <1>9, FlowTwice
<1> QED BY <1>1, <1>2, <1>9, <1>10, FlowSelf

\* What a message to both servants leaves of it.
LEMMA ToServantsFlows ==
    ASSUME NEW s, NEW c, NEW t, t = ToServants(s, c) \/ t = ToKernel(s, c)
    PROVE  Flow(t, s)
<1> PICK u : u = ToKernel(s, c)
  OBVIOUS
<1>1. (t = u \/ t = ToProcessor(u, c)) /\ \E k : u = [s EXCEPT !.krn = k]
  BY DEF ToServants, ToKernel
<1>2. Flow(u, s) /\ (t = u \/ Flow(t, u))
  BY <1>1, SmallFlows
<1> QED BY <1>2, FlowTwice

\* What a completion leaves of it at the state machine.
LEMMA CompletionFlows ==
    ASSUME NEW s, NEW m, NEW t, t = DispatchCompletion(s, m)
    PROVE  Flow(t, s)
<1> DEFINE e == Expect(s, m.state \in Expected(s.cur), "trans_complete")
           one == [e EXCEPT !.counted[s.cur] = <<m>>]
           none == [e EXCEPT !.counted[s.cur] = <<>>]
<1>1. t = one \/ t = SetState(none, m.state, None)
  BY DEF DispatchCompletion
<1>2. Flow(e, s)
  <2>1. e = s \/ \E k : e = [s EXCEPT !.failed = k]
    BY DEF Expect
  <2> HIDE DEF e
  <2> QED BY <2>1, SmallFlows, FlowSelf
<1> HIDE DEF e
<1>3. Flow(one, e) /\ Flow(none, e)
  <2>1. (\E k : one = [e EXCEPT !.counted = k]) /\ \E k : none = [e EXCEPT !.counted = k]
    OBVIOUS
  <2> HIDE DEF one, none
  <2> QED BY <2>1, SmallFlows
<1> HIDE DEF one, none
<1>4. t = one \/ Flow(t, none)
  BY <1>1, SetStateFlows
<1>5. Flow(one, s) /\ Flow(none, s)
  BY <1>2, <1>3, FlowTwice
<1> QED BY <1>4, <1>5, FlowTwice

\* What a command leaves of it at the state machine.
LEMMA CommandFlows ==
    ASSUME NEW s, NEW c \in Messages, NEW t, t = DispatchCommand(s, c)
    PROVE  Flow(t, s)
<1> SUFFICES ASSUME Plain(s) PROVE Flow(t, s)
  BY DEF Flow
<1>1. c.cmd = "StateSet" \/ c.cmd = "Flush"
  BY DEF Messages, StateSet, PortCommand
<1>2. c.cmd = "Flush" => t = ToKernel(s, c)
  BY DEF DispatchCommand
<1>3. c.cmd = "StateSet" => t = DispatchStateSet(s, c.param)
  BY DEF DispatchCommand
<1> PICK st : st = c.param
  OBVIOUS
<1>4. ASSUME NEW error PROVE Flow(CommandFailed(s, error), s)
  <2> PICK u : u = Event(s, s.inProgress, s.param, error)
    OBVIOUS
  <2>1. CommandFailed(s, error) = s \/ CommandFailed(s, error) = CommandDone(u)
    BY DEF CommandFailed
  <2>2. s.inProgress # "BufferFlag"
    BY DEF Plain
  <2>3. Flow(u, s) /\ Flow(CommandDone(u), u)
    BY <2>2, SmallFlows
  <2> QED BY <2>1, <2>3, FlowTwice, FlowSelf
<1> DEFINE reset == [s EXCEPT !.counted["LoadedToIdle"] = <<>>]
<1>5. \/ DispatchStateSet(s, st) = ToServants(s, StateSet(st))
      \/ \E error : DispatchStateSet(s, st) = CommandFailed(s, error)
      \/ \E via, sub : DispatchStateSet(s, st) = ToServants(SetState(reset, via, sub), StateSet(st))
      \/ \E via, sub : DispatchStateSet(s, st) = ToServants(SetState(s, via, sub), StateSet(st))
  BY DEF DispatchStateSet
<1>6. Flow(reset, s)
  <2>1. \E k : reset = [s EXCEPT !.counted = k]
    OBVIOUS
  <2> HIDE DEF reset
  <2> QED BY <2>1, SmallFlows
<1> HIDE DEF reset
<1>7. ASSUME NEW u, Flow(u, s), NEW via, NEW sub
      PROVE  Flow(ToServants(SetState(u, via, sub), StateSet(st)), s)
  <2> PICK v : v = SetState(u, via, sub)
    OBVIOUS
  <2>1. Flow(v, u)
    BY SetStateFlows
  <2>2. Flow(ToServants(v, StateSet(st)), v)
    BY ToServantsFlows
  <2>3. Flow(v, s)
    BY <1>7, <2>1, FlowTwice
  <2> QED BY <2>2, <2>3, FlowTwice
<1>8. Flow(DispatchStateSet(s, st), s)
  <2>1. Flow(ToServants(s, StateSet(st)), s)
    BY ToServantsFlows
  <2>2. Flow(s, s)
    BY FlowSelf
  <2> QED BY <1>4, <1>5, <1>6, <1>7, <2>1, <2>2
<1> QED BY <1>1, <1>2, <1>3, <1>8, ToServantsFlows

\* What a step of the state machine leaves of it.
LEMMA FsmStepFlows ==
    ASSUME NEW s, IsComp(s), NEW t, t = FsmStep(s)
    PROVE  Flow(t, s)
<1>1. CASE s.completions # <<>>
  <2> PICK r : r = [s EXCEPT !.completions = Tail(@)]
    OBVIOUS
  <2>1. t = DispatchCompletion(r, Head(s.completions)) /\ \E k : r = [s EXCEPT !.completions = k]
    BY <1>1 DEF FsmStep
  <2>2. Flow(r, s) /\ Flow(t, r)
    BY <2>1, SmallFlows, CompletionFlows
  <2> QED BY <2>2, FlowTwice
<1>2. CASE s.completions = <<>> /\ s.commands # <<>>
  <2> PICK r : r = [s EXCEPT !.commands = Tail(@)]
    OBVIOUS
  <2>1. t = DispatchCommand(r, Head(s.commands)) /\ \E k : r = [s EXCEPT !.commands = k]
    BY <1>2 DEF FsmStep
  <2>2. Head(s.commands) \in Messages
    BY <1>2 DEF IsComp
  <2>3. Flow(r, s) /\ Flow(t, r)
    BY <2>1, <2>2, SmallFlows, CommandFlows
  <2> QED BY <2>3, FlowTwice
<1>3. CASE s.completions = <<>> /\ s.commands = <<>>
  BY <1>3, FlowSelf DEF FsmStep
<1> QED BY <1>1, <1>2, <1>3

\* What a step of the kernel leaves of it.
LEMMA KernelStepFlows ==
    ASSUME NEW s, IsComp(s), NEW t, t = KernelStep(s)
    PROVE  Flow(t, s)
<1>1. CASE s.krn # <<>>
  <2> PICK r : r = [s EXCEPT !.krn = Tail(@)]
    OBVIOUS
  <2>1. t = CommandOfKernel(r, Head(s.krn)) /\ \E k : r = [s EXCEPT !.krn = k]
    BY <1>1 DEF KernelStep
  <2>2. Head(s.krn) \in Messages
    BY <1>1 DEF IsComp
  <2>3. Flow(r, s) /\ Flow(t, r)
    BY <2>1, <2>2, SmallFlows, CommandOfKernelFlows
  <2> QED BY <2>3, FlowTwice
<1>2. CASE s.krn = <<>> /\ s.callbacks # <<>>
  BY <1>2, CallbackOfKernelFlows DEF KernelStep
<1>3. CASE s.krn = <<>> /\ s.callbacks = <<>> /\ s.efb # <<>>
  BY <1>3, EmptyOrFillFlows DEF KernelStep
<1>4. CASE s.krn = <<>> /\ s.callbacks = <<>> /\ s.efb = <<>>
  BY <1>4, FlowSelf DEF KernelStep
<1> QED BY <1>1, <1>2, <1>3, <1>4

\* A flush that the processor hears of is of one port.
LEMMA ProcessorHears ==
    ASSUME NEW s, Good(s), s.krn = <<>>, s.prc # <<>>, Head(s.prc).cmd = "Flush"
    PROVE  Head(s.prc).param \in Ports
<1>1. CASE s.prc \in Seq(FlushCommands)
  <2>1. Head(s.prc) \in FlushCommands
    BY <1>1
  <2> QED BY <2>1 DEF FlushCommands, PortCommand
<1>2. CASE s.prc \notin Seq(FlushCommands)
  <2>1. ~Quiet(s)
    BY <1>2 DEF Quiet
  <2>2. \E st : Head(s.prc) = StateSet(st)
    <3>1. CASE AtRest(s) \/ Stopping(s)
      BY <2>1, <3>1 DEF AtRest, Stopping, Asked, Half
    <3>2. CASE Moving(s)
      <4>1. s.prc = <<StateSet(s.param)>>
        BY <3>2 DEF Moving, Asked
      <4> QED BY <4>1, ListOfOne
    <3>3. ~Collecting(s) /\ ~Accepted(s)
      BY <2>1 DEF Collecting, Accepted
    <3> QED BY <3>1, <3>2, <3>3 DEF Good, Phase
  <2> QED BY <2>2 DEF StateSet
<1> QED BY <1>1, <1>2

\* What a step of the processor leaves of it.
LEMMA ProcessorStepFlows ==
    ASSUME NEW s, Good(s), s.krn = <<>>, NEW t, t = ProcessorStep(s)
    PROVE  Flow(t, s)
<1>1. CASE s.prc # <<>>
  <2> PICK r : r = [s EXCEPT !.prc = Tail(@)]
    OBVIOUS
  <2>1. t = CommandOfProcessor(r, Head(s.prc)) /\ \E k : r = [s EXCEPT !.prc = k]
    BY <1>1 DEF ProcessorStep
  <2>2. Head(s.prc).cmd = "Flush" => Head(s.prc).param \in Ports
    BY <1>1, ProcessorHears
  <2>3. Flow(r, s) /\ Flow(t, r)
    BY <2>1, <2>2, SmallFlows, CommandOfProcessorFlows
  <2> QED BY <2>3, FlowTwice
<1>2. CASE s.prc = <<>> /\ s.ready > 0
  <2> PICK r : r = [s EXCEPT !.ready = @ - 1]
    OBVIOUS
  <2>1. t = BuffersReady(r) /\ \E k : r = [s EXCEPT !.ready = k]
    BY <1>2 DEF ProcessorStep
  <2>2. Flow(r, s) /\ Flow(t, r)
    BY <2>1, SmallFlows, BuffersReadyFlows
  <2> QED BY <2>2, FlowTwice
<1>3. CASE s.prc = <<>> /\ ~(s.ready > 0)
  BY <1>3, FlowSelf DEF ProcessorStep
<1> QED BY <1>1, <1>2, <1>3

\* The last step's events are not the next one's.
LEMMA NowFlows ==
    ASSUME Inv, EosInv
    PROVE  /\ Plain(Now) /\ ~Announced(Now) /\ Now.events = <<>>
           /\ Fresh(Now) <=> Fresh(comp)
           /\ Ordered(Now) <=> Ordered(comp)
<1>1. /\ DOMAIN Now = Fields /\ SameQueues(Now, comp) /\ Now.events = <<>>
      /\ Now.inProgress = comp.inProgress
  BY NowIs DEF SameQueues, Now, Fields, IsComp
<1>2. Plain(Now)
  <2>1. <<>> \in Seq({})
    OBVIOUS
  <2> QED BY <1>1, <2>1 DEF EosInv, Plain, SameQueues, Efb
<1>3. ~Announced(Now)
  <2>1. Len(<<>>) = 0
    OBVIOUS
  <2> QED BY <1>1, <2>1 DEF Announced
<1>4. (NotIn(Now) <=> NotIn(comp)) /\ (NotOut(Now) <=> NotOut(comp))
  BY <1>1 DEF SameQueues, NotIn, NotOut, Efb, Back
<1>5. /\ Trailing(Now) <=> Trailing(comp)
      /\ Drained(Now) <=> Drained(comp)
      /\ Sealed(Now) <=> Sealed(comp)
  BY <1>1 DEF SameQueues, Trailing, Drained, Sealed, Efb, Back
<1> QED BY <1>1, <1>2, <1>3, <1>4, <1>5 DEF Fresh, Ordered

\* What a step must not do to be true to the end of the stream.
Honest == Told =>
    /\ last # "none"
    /\ last = "sent" =>
        /\ CarriedBy(comp'.efb, In) = <<>> /\ comp'.ingress[In] = <<>>
        /\ comp'.hold[In] = None
        /\ "data" \notin ToSet(comp'.egress[Out])
        /\ "data" \notin ToSet(CarriedBy(comp'.callbacks, Out))

\* A step after which the order is kept, and the end of the stream is where it was.
LEMMA FlowHonest ==
    ASSUME Inv, EosInv, Flow(comp', Now)
    PROVE  /\ Plain(comp') /\ Honest
           /\ last = "none" => Fresh(comp')
           /\ last = "sent" => Ordered(comp')
<1>1. /\ Plain(Now) /\ ~Announced(Now)
      /\ last = "none" => Fresh(Now)
      /\ last = "sent" => Ordered(Now)
  BY NowFlows DEF EosInv
<1>2. /\ Plain(comp')
      /\ Fresh(Now) => Fresh(comp')
      /\ Ordered(Now) => Ordered(comp')
      /\ Announced(comp') => ~Fresh(Now) /\ (Ordered(Now) => Finished(comp'))
  BY <1>1 DEF Flow
<1>3. Told => Announced(comp')
  <2> SUFFICES ASSUME Told PROVE Announced(comp')
    OBVIOUS
  <2>1. PICK S : comp'.events \in Seq(S)
    BY <1>2 DEF Plain
  <2>2. PICK e \in ToSet(comp'.events) : e.cmd = "BufferFlag"
    BY DEF Told
  <2>3. DOMAIN comp'.events = 1 .. Len(comp'.events)
    BY <2>1
  <2>4. PICK i \in DOMAIN comp'.events : e = comp'.events[i]
    BY <2>2 DEF ToSet
  <2> QED BY <2>2, <2>3, <2>4 DEF Announced
<1>4. ASSUME Told PROVE last # "none"
  BY <1>1, <1>2, <1>3, <1>4
<1>5. ASSUME Finished(comp')
      PROVE  /\ CarriedBy(comp'.efb, In) = <<>> /\ comp'.ingress[In] = <<>>
             /\ comp'.hold[In] = None
             /\ "data" \notin ToSet(comp'.egress[Out])
             /\ "data" \notin ToSet(CarriedBy(comp'.callbacks, Out))
  <2>1. /\ CarriedBy(comp'.efb, In) = <<>> /\ comp'.ingress[In] = <<>> /\ comp'.hold[In] = None
        /\ ~Has(comp'.egress[Out], "data") /\ ~Has(CarriedBy(comp'.callbacks, Out), "data")
    BY <1>5 DEF Finished, Drained, Efb, Back
  <2>2. comp'.egress[Out] \in Seq(Contents) /\ CarriedBy(comp'.callbacks, Out) \in Seq(Contents)
    BY <1>2, PlainLists, TwoPorts DEF Back
  <2>3. ASSUME NEW q \in Seq(Contents), ~Has(q, "data") PROVE "data" \notin ToSet(q)
    BY <2>3 DEF Has, ToSet
  <2> QED BY <2>1, <2>2, <2>3
<1>6. Honest
  BY <1>1, <1>2, <1>3, <1>4, <1>5 DEF Honest
<1> QED BY <1>1, <1>2, <1>6

\* The steps of the servants.
LEMMA ServantsHonest ==
    ASSUME Inv, EosInv, FsmTick \/ KernelTick \/ ProcessorTick
    PROVE  EosInv' /\ Honest
<1>1. Good(Now) /\ IsComp(Now) /\ Now.krn = comp.krn
  BY NowIs
<1> PICK t : \/ FsmTick /\ t = FsmStep(Now)
             \/ KernelTick /\ t = KernelStep(Now)
             \/ ProcessorTick /\ t = ProcessorStep(Now)
  OBVIOUS
<1>2. ProcessorTick => Now.krn = <<>>
  BY <1>1, TicksAre DEF Inv, Passes
<1>3. Flow(t, Now)
  <2>1. ASSUME NEW s, Good(s), IsComp(s)
        PROVE  /\ Flow(FsmStep(s), s) /\ Flow(KernelStep(s), s)
               /\ s.krn = <<>> => Flow(ProcessorStep(s), s)
    BY <2>1, FsmStepFlows, KernelStepFlows, ProcessorStepFlows
  <2> QED BY <1>1, <1>2, <2>1
<1>4. Serve(t)
  BY TicksAre
<1>5. comp' = t /\ (last' = last \/ last' = "told" \/ last' = "dropped")
  BY <1>4 DEF Serve
<1>6. /\ Plain(comp') /\ Honest
      /\ last = "none" => Fresh(comp')
      /\ last = "sent" => Ordered(comp')
  BY <1>3, <1>5, FlowHonest
<1> QED BY <1>5, <1>6 DEF EosInv

\* A command of the client.
LEMMA SendHonest ==
    ASSUME Inv, EosInv, NEW c \in Commands, SendCommand(c)
    PROVE  EosInv' /\ Honest
<1>1. /\ comp' = AcceptCommand(Now, c) /\ comp.inProgress = None
      /\ last' = last \/ last' = "dropped" \/ (last' = "none" /\ comp.cur = "Idle")
  BY DEF SendCommand, ClientMaySend
<1>2. c.cmd # "BufferFlag"
  <2>1. (\E st : c = StateSet(st)) \/ \E p : c = PortCommand("Flush", p)
    BY BuffersAssumption
  <2> QED BY <2>1 DEF StateSet, PortCommand
<1>3. Still(comp', Now)
  <2>1. comp' = [[Now EXCEPT !.commands = Append(@, c)] EXCEPT !.inProgress = c.cmd, !.param = c.param]
    BY <1>1, NowIs DEF AcceptCommand
  <2>2. DOMAIN Now = Fields
    BY NowIs DEF IsComp
  <2>3. ASSUME NEW s, DOMAIN s = Fields,
               NEW t, t = [[s EXCEPT !.commands = Append(@, c)] EXCEPT !.inProgress = c.cmd, !.param = c.param]
        PROVE  Still(t, s)
    BY <1>2, <2>3 DEF Still, SameQueues, Talks, Fields
  <2>4. Still([[Now EXCEPT !.commands = Append(@, c)] EXCEPT !.inProgress = c.cmd, !.param = c.param], Now)
    BY <2>2, <2>3
  <2> QED BY <2>1, <2>4
<1>4. Flow(comp', Now)
  BY <1>3, StillFlows
<1>5. /\ Plain(comp') /\ Honest
      /\ last = "none" => Fresh(comp')
      /\ last = "sent" => Ordered(comp')
  BY <1>4, FlowHonest
<1>6. comp.cur = "Idle" => Fresh(comp')
  <2> SUFFICES ASSUME comp.cur = "Idle" PROVE Fresh(comp')
    OBVIOUS
  <2>1. Sound(Now) /\ IsComp(Now) /\ Now.cur = "Idle"
    BY NowIs
  <2>2. ASSUME NEW s, Sound(s), IsComp(s), s.cur = "Idle" PROVE Fresh(s)
    <3>1. In \in Ports /\ Out \in Ports
      BY TwoPorts
    <3>2. ASSUME NEW p \in Ports
          PROVE  /\ s.ingress[p] = <<>> /\ s.egress[p] = <<>>
                 /\ Efb(s, p) = <<>> /\ Back(s, p) = <<>> /\ s.hold[p] = None
      <4>1. Total(s, p) = 0
        BY <2>2 DEF Sound
      <4>2. /\ Sent(s, p) \in Nat /\ Released(s, p) \in Nat /\ Held(s, p) \in Nat
            /\ Len(s.ingress[p]) \in Nat /\ Len(s.egress[p]) \in Nat /\ s.back[p] \in Nat
        BY <2>2, Numbers
      <4>3. Sent(s, p) = 0 /\ Held(s, p) = 0 /\ Released(s, p) = 0
        <5>1. ASSUME NEW a \in Nat, NEW b \in Nat, NEW d \in Nat, NEW e \in Nat, NEW f \in Nat, NEW g \in Nat,
                     Sum(a, b, d, e, f, g) = 0
              PROVE  a = 0 /\ d = 0 /\ e = 0
          BY <5>1 DEF Sum
        <5>2. Sum(Sent(s, p), Len(s.ingress[p]), Held(s, p), Released(s, p), Len(s.egress[p]), s.back[p]) = 0
          BY <4>1 DEF Total
        <5> QED BY <4>2, <5>1, <5>2
      <4>4. s.efb \in Seq(Callbacks) /\ s.callbacks \in Seq(Callbacks)
        BY <2>2, SentAreCallbacks DEF IsComp
      <4>5. Efb(s, p) \in Seq(Contents) /\ Back(s, p) \in Seq(Contents)
        BY <4>4, CarriedType DEF Efb, Back
      <4>6. Len(Efb(s, p)) = 0 /\ Len(Back(s, p)) = 0
        BY <4>3 DEF Sent, Released, Efb, Back
      <4>7. s.hold[p] = None
        BY <4>3 DEF Held
      <4> QED BY <2>2, <4>1, <4>5, <4>6, <4>7, EmptySeq, TotalZero
    <3>3. s.hold[In] # "last"
      BY <3>1, <3>2 DEF None
    <3> QED BY <3>1, <3>2, <3>3, ShortLists DEF Fresh, NotIn, NotOut
  <2>3. Fresh(Now)
    BY <2>1, <2>2
  <2>4. Plain(Now)
    BY NowFlows
  <2> QED BY <1>4, <2>3, <2>4 DEF Flow
<1> QED BY <1>1, <1>5, <1>6 DEF EosInv

\* A header of the client.
LEMMA TransferHonest ==
    ASSUME Inv, EosInv, NEW p \in Ports, NEW what \in Contents, Transfer(p, what),
           p = Out => what = "empty"
    PROVE  /\ Plain(comp') /\ Honest
           /\ Fresh(comp) /\ (p = In => what # "last") => Fresh(comp')
           /\ Fresh(comp) /\ p = In /\ what = "last" => Ordered(comp')
           /\ Ordered(comp) /\ p = Out => Ordered(comp')
<1> DEFINE m == Header(p, what)
<1>1. /\ Plain(Now) /\ Now.events = <<>>
      /\ Fresh(Now) <=> Fresh(comp)
      /\ Ordered(Now) <=> Ordered(comp)
  BY NowFlows
<1>2. /\ In \in Ports /\ Out \in Ports /\ In # Out /\ (p = In \/ p = Out)
      /\ m \in Headers(Ports) /\ m \in Callbacks /\ m.port = p /\ m.what = what
  BY TwoPorts, HeaderIs DEF Header
<1>3. comp' = [Now EXCEPT !.efb = Append(@, m)]
  BY DEF Transfer
<1> HIDE DEF m
<1>4. ASSUME NEW s, Plain(s), NEW t, t = [s EXCEPT !.efb = Append(@, m)]
      PROVE  /\ Plain(t) /\ t.events = s.events
             /\ Fresh(s) /\ (p = In => what # "last") => Fresh(t)
             /\ Fresh(s) /\ p = In /\ what = "last" => Ordered(t)
             /\ Ordered(s) /\ p = Out => Ordered(t)
  <2>1. /\ DOMAIN t = Fields /\ t.efb = Append(s.efb, m)
        /\ t.ingress = s.ingress /\ t.egress = s.egress /\ t.callbacks = s.callbacks
        /\ t.hold = s.hold /\ t.inProgress = s.inProgress /\ t.events = s.events
    BY <1>4 DEF Plain, Fields
  <2>2. s.efb \in Seq(Headers(Ports)) /\ s.efb \in Seq(Callbacks)
    BY <1>4, SentAreCallbacks DEF Plain
  <2>3. t.efb \in Seq(Headers(Ports))
    BY <1>2, <2>1, <2>2
  <2>4. ASSUME NEW q \in Ports
        PROVE  /\ Efb(s, q) \in Seq(Contents)
               /\ q = p => Efb(t, q) = Efb(s, q) \o <<what>>
               /\ q # p => Efb(t, q) = Efb(s, q)
    BY <1>2, <2>1, <2>2, CarriedLast DEF Efb
  <2>5. <<what>> \in Seq(Contents) /\ <<what>> # <<>> /\ Rear(<<what>>)
        /\ (Has(<<what>>, "last") <=> what = "last") /\ (Blank(<<what>>) <=> what = "empty")
    BY ShortLists
  <2>6. Blank(Efb(t, Out))
    <3>1. Blank(Efb(s, Out))
      BY <1>4 DEF Plain
    <3>2. CASE p = Out
      <4>1. Efb(t, Out) = Efb(s, Out) \o <<what>> /\ what = "empty" /\ Efb(s, Out) \in Seq(Contents)
        BY <1>2, <2>4, <3>2
      <4> QED BY <2>5, <3>1, <4>1, BlankJoined
    <3> QED BY <1>2, <2>4, <3>1, <3>2
  <2>7. Plain(t)
    BY <1>4, <2>1, <2>3, <2>6 DEF Plain
  <2>8. (NotOut(s) <=> NotOut(t)) /\ (Sealed(s) <=> Sealed(t))
    BY <2>1 DEF NotOut, Sealed, Back
  <2>9. CASE p = Out
    <3>1. Efb(t, In) = Efb(s, In)
      BY <1>2, <2>4, <2>9
    <3>2. (NotIn(s) <=> NotIn(t)) /\ (Trailing(s) <=> Trailing(t)) /\ (Drained(s) <=> Drained(t))
      BY <2>1, <3>1 DEF NotIn, Trailing, Drained
    <3> QED BY <1>2, <2>1, <2>7, <2>8, <2>9, <3>2 DEF Fresh, Ordered
  <2>10. CASE p = In
    <3>1. /\ Efb(t, In) = Efb(s, In) \o <<what>> /\ Efb(s, In) \in Seq(Contents)
      BY <1>2, <2>4, <2>10
    <3>2. /\ Has(Efb(t, In), "last") <=> Has(Efb(s, In), "last") \/ what = "last"
          /\ ~Has(Efb(s, In), "last") => Rear(Efb(t, In))
      <4>1. ASSUME NEW a \in Seq(Contents), NEW b \in Seq(Contents), b # <<>>, Rear(b),
                   Has(b, "last") <=> what = "last"
            PROVE  /\ Has(a \o b, "last") <=> Has(a, "last") \/ what = "last"
                   /\ ~Has(a, "last") => Rear(a \o b)
        <5>1. Has(a \o b, "last") <=> Has(a, "last") \/ Has(b, "last")
          BY HasJoined
        <5>2. ~Has(a, "last") => Rear(a \o b)
          BY <4>1, RearJoined
        <5> QED BY <4>1, <5>1, <5>2
      <4>2. /\ Has(Efb(s, In) \o <<what>>, "last") <=> Has(Efb(s, In), "last") \/ what = "last"
            /\ ~Has(Efb(s, In), "last") => Rear(Efb(s, In) \o <<what>>)
        BY <2>5, <3>1, <4>1
      <4> QED BY <3>1, <4>2
    <3>3. NotIn(s) /\ what # "last" => NotIn(t)
      BY <2>1, <3>2 DEF NotIn
    <3>4. NotIn(s) => Trailing(t)
      <4>1. ~Has(s.ingress[In], "last") => Rear(s.ingress[In])
        BY DEF Has, Rear
      <4> QED BY <2>1, <3>2, <4>1 DEF NotIn, Trailing
    <3> QED BY <1>2, <2>1, <2>7, <2>8, <2>10, <3>3, <3>4 DEF Fresh, Ordered
  <2> QED BY <1>2, <2>9, <2>10
<1>5. /\ Plain(comp') /\ comp'.events = Now.events
      /\ Fresh(Now) /\ (p = In => what # "last") => Fresh(comp')
      /\ Fresh(Now) /\ p = In /\ what = "last" => Ordered(comp')
      /\ Ordered(Now) /\ p = Out => Ordered(comp')
  BY <1>1, <1>3, <1>4
<1>6. ~Told
  BY <1>1, <1>5 DEF Told, ToSet
<1> QED BY <1>1, <1>5, <1>6 DEF Honest

\* The order of the stream is kept, and its end is announced only behind it.
LEMMA EosKept == Inv /\ EosInv /\ [Next]_vars => EosInv' /\ (UNCHANGED vars \/ Honest)
<1> SUFFICES ASSUME Inv, EosInv, [Next]_vars PROVE EosInv' /\ (UNCHANGED vars \/ Honest)
  OBVIOUS
<1>1. CASE \E c \in Commands : SendCommand(c)
  BY <1>1, SendHonest
<1>2. CASE \E what \in {"data", "last"} : EmptyThisBuffer(what)
  <2>1. PICK what \in {"data", "last"} : EmptyThisBuffer(what)
    BY <1>2
  <2>2. /\ what \in Contents /\ In \in Ports /\ In # Out /\ Transfer(In, what)
        /\ last = "none" /\ last' = IF what = "last" THEN "sent" ELSE "none"
    BY <2>1, TwoPorts DEF EmptyThisBuffer, Contents
  <2>3. Fresh(comp)
    BY <2>2 DEF EosInv
  <2>4. /\ Plain(comp') /\ Honest
        /\ what # "last" => Fresh(comp')
        /\ what = "last" => Ordered(comp')
    BY <2>2, <2>3, TransferHonest
  <2> QED BY <2>2, <2>4 DEF EosInv
<1>3. CASE FillThisBuffer
  <2>1. "empty" \in Contents /\ Out \in Ports /\ In # Out /\ Transfer(Out, "empty") /\ last' = last
    BY <1>3, TwoPorts DEF FillThisBuffer, Contents
  <2>2. /\ Plain(comp') /\ Honest
        /\ Fresh(comp) => Fresh(comp')
        /\ Ordered(comp) => Ordered(comp')
    BY <2>1, TransferHonest
  <2> QED BY <2>1, <2>2 DEF EosInv
<1>4. CASE FsmTick \/ KernelTick \/ ProcessorTick
  BY <1>4, ServantsHonest
<1>5. CASE UNCHANGED vars
  BY <1>5 DEF vars, EosInv
<1> QED BY <1>1, <1>2, <1>3, <1>4, <1>5 DEF Next

\* At first nothing is on its way.
LEMMA EosHolds == Init => EosInv
<1> SUFFICES ASSUME Init PROVE EosInv
  OBVIOUS
<1>1. /\ DOMAIN comp = Fields /\ last = "dropped"
      /\ comp.inProgress = None /\ comp.callbacks = <<>> /\ comp.efb = <<>>
      /\ comp.ingress = NoHeaders /\ comp.egress = NoHeaders
      /\ comp.hold = [p \in Ports |-> None] /\ comp.events = <<>>
  BY DEF Init, Fields
<1>2. In \in Ports /\ Out \in Ports
  BY TwoPorts
<1>3. /\ <<>> \in Seq(Callbacks) /\ <<>> \in Seq(Headers(Ports)) /\ <<>> \in Seq(Contents)
      /\ <<>> \in Seq({})
  OBVIOUS
<1>4. CarriedBy(<<>>, Out) = <<>>
  <2>1. Only(<<>>, Headers({Out})) = <<>>
    BY <1>3, OnlyEmpty
  <2> QED BY <1>2, <1>3, <2>1, CarriedEmpty
<1>5. Blank(comp.ingress[Out]) /\ Blank(Efb(comp, Out))
  BY <1>1, <1>2, <1>4, ShortLists DEF Efb, NoHeaders
<1>6. /\ comp.ingress \in [Ports -> Seq(Contents)] /\ comp.egress \in [Ports -> Seq(Contents)]
      /\ comp.hold \in [Ports -> Contents \cup {None}] /\ comp.hold[Out] = None
  BY <1>1, <1>2, <1>3 DEF NoHeaders
<1>7. Plain(comp)
  BY <1>1, <1>3, <1>5, <1>6 DEF Plain, None
<1> QED BY <1>1, <1>7 DEF EosInv

-----------------------------------------------------------------------------
(* The kernel's turn to flush                                              *)

\* What the kernel does about a flush that drains the queue of p.
LEMMA KernelGathers ==
    ASSUME NEW s, Good(s), s.krn # <<>>, NEW p \in Ports,
           Head(s.krn) \in {PortCommand("Flush", p), PortCommand("Flush", ALL)},
           p = FirstPort \/ Head(s.krn).param = ALL,
           NEW t, t = KernelStep(s)
    PROVE  Conserves(t, s) /\ Gone(t, p) /\ t.hold = s.hold
<1>1. Sound(s) /\ Phase(s)
  BY DEF Good
<1>2. FirstPort = In /\ ALL \notin Ports
  BY TwoPorts
<1>3. Head(s.krn).cmd = "Flush"
  BY DEF PortCommand
<1>4. Collecting(s)
  <2>1. ASSUME NEW st, Asked(s, st) PROVE FALSE
    <3>1. Head(s.krn) = StateSet(st)
      BY <2>1 DEF Asked
    <3> QED BY <1>3, <3>1 DEF StateSet
  <2> QED BY <1>1, <2>1 DEF Phase, AtRest, Accepted, Moving, Stopping, Quiet, Half
<1>5. s.krn = <<PortCommand("Flush", s.param)>>
  BY <1>4 DEF Collecting, Quiet
<1>6. Head(s.krn) = PortCommand("Flush", s.param) /\ Head(s.krn).param = s.param
  BY <1>5 DEF PortCommand
<1>7. s.param = p \/ s.param = ALL
  BY <1>6 DEF PortCommand
<1>8. (p = In /\ s.param = p) \/ s.param = ALL
  BY <1>2, <1>6, <1>7
<1>9. ASSUME NEW r, r = [s EXCEPT !.krn = Tail(@)], t = CommandOfKernel(r, Head(s.krn))
      PROVE  Conserves(t, s) /\ Gone(t, p) /\ t.hold = s.hold
  BY <1>1, <1>4, <1>8, <1>9, KernelFlushes
<1>10. t = CommandOfKernel([s EXCEPT !.krn = Tail(@)], Head(s.krn))
  BY DEF KernelStep
<1> QED BY <1>9, <1>10

\* Then the client has every header of p but the one that is being worked on.
LEMMA FlushGathered ==
    ASSUME Inv, KernelTick, NEW p \in Ports, Flushes(p),
           p = FirstPort \/ Head(comp.krn).param = ALL
    PROVE  Gathered(p)
<1> DEFINE t == KernelStep(Now)
<1>1. Serve(t)
  BY TicksAre
<1>2. Good(Now) /\ Now.krn = comp.krn /\ Now.hold = comp.hold
  BY NowIs
<1>3. /\ comp.krn # <<>>
      /\ Head(comp.krn) \in {PortCommand("Flush", p), PortCommand("Flush", ALL)}
  BY DEF Flushes
<1>4. ASSUME NEW s, Good(s), s.krn = comp.krn
      PROVE  Conserves(KernelStep(s), s) /\ Gone(KernelStep(s), p) /\ KernelStep(s).hold = s.hold
  BY <1>3, <1>4, KernelGathers
<1>5. Conserves(t, Now) /\ Gone(t, p) /\ t.hold = comp.hold
  BY <1>2, <1>4
<1> HIDE DEF t
<1>6. client'[p] = client[p] + t.back[p]
  BY <1>1 DEF Serve
<1>7. client[p] \in Nat /\ client[p] + Total(t, p) = NBufs
  BY <1>5 DEF Inv, Conserves, Balanced
<1>8. t.back[p] \in Nat /\ Held(t, p) \in Nat
  BY <1>5, Numbers DEF Conserves
<1>9. Total(t, p) = Sum(0, 0, Held(t, p), 0, 0, t.back[p])
  <2>1. Len(<<>>) = 0
    OBVIOUS
  <2> QED BY <1>5, <2>1 DEF Gone, Total, Sent, Released
<1>10. ASSUME NEW a \in Nat, NEW b \in Nat, NEW h \in Nat, NEW n, a + Sum(0, 0, h, 0, 0, b) = n
       PROVE  a + b = n - h
  BY <1>10 DEF Sum
<1>11. client[p] + t.back[p] = NBufs - Held(t, p)
  BY <1>7, <1>8, <1>9, <1>10
<1> QED BY <1>5, <1>6, <1>11 DEF Gathered, Held

-----------------------------------------------------------------------------
(* The theorems                                                            *)

\* No header is lost or doubled, and no assertion of the servants fails,
\* whatever the client starts, pauses, flushes and stops: tizkernel.c keeps
\* every header in one of its lists, or has given it to the client or the
\* processor, and the claimed count of a port is right.
THEOREM NoHeaderLost == Spec => []HeadersKept
<1>1. Init => Inv
  BY InvHolds
<1>2. Inv /\ [Next]_vars => Inv'
  BY InvKept
<1>3. Inv => HeadersKept
  BY InvMeans
<1> QED BY <1>1, <1>2, <1>3, PTL DEF Spec

\* A component that has come to Idle has given every header back, whatever the
\* processor held and the client sent when the stop began, though clear_hdr_lsts
\* empties the lists of one port only.
THEOREM IdleGaveAllBack == Spec => []IdleHasNone
<1>1. Init => Inv
  BY InvHolds
<1>2. Inv /\ [Next]_vars => Inv'
  BY InvKept
<1>3. Inv => IdleHasNone
  BY InvMeans
<1> QED BY <1>1, <1>2, <1>3, PTL DEF Spec

\* The end of the stream is announced only when it is true, whatever the client
\* sends, flushes and stops meanwhile: everything that it sent before the end has
\* been decoded, and everything decoded has left.  transform_buffer of opusdprc.c
\* moves the mark of the last input header to an output header, and flush_egress
\* raises the event for the list of the port that this header has come to.
THEOREM EosComesAtTheEnd == Spec => EosComesLast
<1>1. Init => Inv /\ EosInv
  BY InvHolds, EosHolds
<1>2. Inv /\ EosInv /\ [Next]_vars => (Inv /\ EosInv)'
  BY InvKept, EosKept
<1>3. Inv /\ EosInv /\ [Next]_vars => [Honest]_vars
  BY EosKept
<1>4. Spec => [][Honest]_vars
  BY <1>1, <1>2, <1>3, PTL DEF Spec
<1> QED BY <1>4 DEF EosComesLast, Honest

\* Of a port that is flushed, with all or as the first, only the header that the
\* processor works on stays behind, however the client's calls and the servants'
\* messages interleave: process_efb_from_servant_queue and
\* process_cbacks_from_servant_queue find the headers that no servant has taken
\* yet, and move_to_egress those in the kernel's lists.
THEOREM FlushGathersAll == Spec => FlushCollects
<1>1. Init => Inv
  BY InvHolds
<1>2. Inv /\ [Next]_vars => Inv'
  BY InvKept
<1>3. ASSUME Inv, [Next]_vars
      PROVE  [\A p \in Ports :
                Flushes(p) /\ (p = FirstPort \/ Head(comp.krn).param = ALL) => Gathered(p)]_vars
  <2> SUFFICES ASSUME NEW p \in Ports, Flushes(p), p = FirstPort \/ Head(comp.krn).param = ALL,
                      Next
               PROVE  Gathered(p)
    BY <1>3
  <2>1. turn = "kernel"
    BY DEF Flushes
  <2>2. KernelTick
    <3>1. ~FsmTick /\ ~ProcessorTick
      BY <1>3, <2>1, TicksAre
    <3>2. ~(\E c \in Commands : SendCommand(c))
      BY <2>1 DEF SendCommand
    <3>3. ~(\E what \in {"data", "last"} : EmptyThisBuffer(what)) /\ ~FillThisBuffer
      BY <2>1 DEF EmptyThisBuffer, FillThisBuffer, Transfer, MayTransfer
    <3> QED BY <3>1, <3>2, <3>3 DEF Next
  <2> QED BY <1>3, <2>2, FlushGathered
<1> QED BY <1>1, <1>2, <1>3, PTL DEF Spec, FlushCollects
=============================================================================
