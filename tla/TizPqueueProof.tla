--------------------------- MODULE TizPqueueProof ---------------------------
(***************************************************************************)
(* Proofs about TizPqueue: whatever is sent, received and removed, the     *)
(* list of a servant's queue stays sound, and what it does is what one     *)
(* fifo for each priority would do.  An operation takes a x b apart, or    *)
(* puts it together: the links, the ends and pp_store follow the list      *)
(* (Sound), and the messages of a priority follow it too.                  *)
(***************************************************************************)
EXTENDS TizPqueue, DataLemmas

-----------------------------------------------------------------------------
(* The inductive invariant: at lists the items of the queue q *)

\* The items of the list are those that are allocated, each once.
Listed(q, at) ==
    /\ at \in Seq(Addresses) /\ Len(at) \in Nat
    /\ q.length = Len(at)
    /\ q.item \in [Addresses -> Items \cup {NULL}]
    /\ \A i, j \in 1 .. Len(at) : at[i] = at[j] => i = j
    /\ \A i \in 1 .. Len(at) : at[i] \in Addresses /\ q.item[at[i]] \in Items
    /\ \A a \in Addresses : q.item[a] = NULL \/ \E i \in 1 .. Len(at) : at[i] = a

Ends(q, at) ==
    /\ q.p_first = (IF Len(at) = 0 THEN NULL ELSE at[1])
    /\ q.p_last = (IF Len(at) = 0 THEN NULL ELSE at[Len(at)])

\* The places before and after i.
Before(at, i) == IF i = 1 THEN NULL ELSE at[i - 1]
After(at, i) == IF i = Len(at) THEN NULL ELSE at[i + 1]

Links(q, at) ==
    \A i \in 1 .. Len(at) : /\ q.item[at[i]].p_prev = Before(at, i)
                            /\ q.item[at[i]].p_next = After(at, i)

Ordered(q, at) ==
    \A i, j \in 1 .. Len(at) : i <= j => q.item[at[i]].priority <= q.item[at[j]].priority

\* There is no item of priority p, or i is the place of the first one.
NoneOf(q, at, p) == \A j \in 1 .. Len(at) : q.item[at[j]].priority # p
FirstOf(q, at, p, i) ==
    /\ i \in 1 .. Len(at) /\ q.item[at[i]].priority = p
    /\ \A j \in 1 .. Len(at) : q.item[at[j]].priority = p => i <= j

Shortcuts(q, at) ==
    /\ q.pp_store \in [Priorities -> Pointers]
    /\ \A p \in Priorities :
         \/ q.pp_store[p] = NULL /\ NoneOf(q, at, p)
         \/ \E i \in 1 .. Len(at) : q.pp_store[p] = at[i] /\ FirstOf(q, at, p, i)

Sound(q, at) ==
    Listed(q, at) /\ Ends(q, at) /\ Links(q, at) /\ Ordered(q, at) /\ Shortcuts(q, at)

Inv == \E at : Sound(Current, at)

-----------------------------------------------------------------------------
(* An item is taken out *)

\* What the rows of the list become.
Relinked(q, r, at, n) ==
    /\ r.item \in [Addresses -> Items \cup {NULL}]
    /\ r.item[at[n]] = NULL
    /\ \A a \in Addresses : q.item[a] = NULL => r.item[a] = NULL
    /\ \A i \in 1 .. Len(at) : i # n =>
         /\ r.item[at[i]] \in Items
         /\ r.item[at[i]].p_data = q.item[at[i]].p_data
         /\ r.item[at[i]].priority = q.item[at[i]].priority
         /\ r.item[at[i]].p_prev = IF i = n + 1 THEN Before(at, n) ELSE Before(at, i)
         /\ r.item[at[i]].p_next = IF i = n - 1 THEN After(at, n) ELSE After(at, i)

\* Unlink writes the rows beside the item, as two neighbours or one may need it.
LEMMA UnlinkRelinks ==
    ASSUME NEW q, NEW at, Sound(q, at), NEW n \in 1 .. Len(at)
    PROVE  Relinked(q, Unlink(q, at[n]), at, n)
<1> DEFINE x == at[n]
           prev == q.item[x].p_prev
           next == q.item[x].p_next
           r == Unlink(q, x)
           l == Len(at)
<1>0. /\ l \in Nat /\ n \in 1 .. l /\ n \in Nat
      /\ q.item \in [Addresses -> Items \cup {NULL}]
      /\ \A i, j \in 1 .. l : at[i] = at[j] => i = j
      /\ \A i \in 1 .. l : at[i] \in Addresses /\ q.item[at[i]] \in Items
      /\ NULL \notin Addresses /\ NULL \notin Items
  BY PqueueAssumption DEF Sound, Listed
<1>1. prev = Before(at, n) /\ next = After(at, n) /\ prev \in Pointers /\ next \in Pointers
  BY <1>0 DEF Sound, Links, Items
<1>2. r.item = [a \in Addresses |->
                  CASE a = x    -> NULL
                    [] a = prev -> [q.item[a] EXCEPT !.p_next = next]
                    [] a = next -> [q.item[a] EXCEPT !.p_prev = prev]
                    [] OTHER    -> q.item[a]]
  BY DEF Unlink
<1> HIDE DEF r, prev, next, l
<1>3. prev # NULL => n - 1 \in 1 .. l /\ n # 1 /\ prev = at[n - 1]
  BY <1>0, <1>1 DEF Before
<1>4. next # NULL => n + 1 \in 1 .. l /\ n # l /\ next = at[n + 1]
  BY <1>0, <1>1 DEF After, l
<1>5. prev \in Addresses => prev # x /\ q.item[prev] \in Items
  BY <1>0, <1>3
<1>6. next \in Addresses => next # x /\ q.item[next] \in Items /\ next # prev
  <2>1. CASE next = NULL
    BY <2>1, <1>0
  <2>2. CASE next # NULL
    <3>1. q.item[next] \in Items /\ next # x
      BY <1>0, <1>4, <2>2
    <3>2. next # prev
      <4>1. CASE prev = NULL
        BY <4>1, <2>2
      <4>2. CASE prev # NULL
        BY <4>2, <2>2, <1>0, <1>3, <1>4
      <4> QED BY <4>1, <4>2
    <3> QED BY <3>1, <3>2
  <2> QED BY <2>1, <2>2
<1>a. /\ x \in Addresses /\ r.item[x] = NULL
      /\ prev \in Addresses => r.item[prev] = [q.item[prev] EXCEPT !.p_next = next]
      /\ next \in Addresses => r.item[next] = [q.item[next] EXCEPT !.p_prev = prev]
      /\ \A a \in Addresses : a # x /\ a # prev /\ a # next => r.item[a] = q.item[a]
  <2>0. x \in Addresses
    BY <1>0
  <2>1. r.item[x] = NULL
    BY <2>0, <1>2, <1>5, <1>6
  <2>2. prev \in Addresses => r.item[prev] = [q.item[prev] EXCEPT !.p_next = next]
    BY <1>2, <1>5, <1>6
  <2>3. next \in Addresses => r.item[next] = [q.item[next] EXCEPT !.p_prev = prev]
    BY <1>2, <1>5, <1>6
  <2>4. \A a \in Addresses : a # x /\ a # prev /\ a # next => r.item[a] = q.item[a]
    BY <1>2
  <2> QED BY <2>0, <2>1, <2>2, <2>3, <2>4
<1>7. ASSUME NEW a \in Addresses PROVE r.item[a] \in Items \cup {NULL}
  <2>1. CASE a = x
    BY <2>1, <1>a
  <2>2. CASE a # x /\ a = prev
    <3>1. r.item[a] = [q.item[a] EXCEPT !.p_next = next]
      BY <2>2, <1>a
    <3>2. q.item[a] \in Items
      BY <2>2, <1>5
    <3> QED BY <3>1, <3>2, <1>1 DEF Items
  <2>3. CASE a # x /\ a # prev /\ a = next
    <3>1. r.item[a] = [q.item[a] EXCEPT !.p_prev = prev]
      BY <2>3, <1>a
    <3>2. q.item[a] \in Items
      BY <2>3, <1>6
    <3> QED BY <3>1, <3>2, <1>1 DEF Items
  <2>4. CASE a # x /\ a # prev /\ a # next
    <3>1. r.item[a] = q.item[a]
      BY <2>4, <1>a
    <3> QED BY <3>1, <1>0
  <2> QED BY <2>1, <2>2, <2>3, <2>4
<1>8. r.item \in [Addresses -> Items \cup {NULL}]
  BY <1>2, <1>7
<1>9. r.item[x] = NULL
  BY <1>a
<1>10. ASSUME NEW a \in Addresses, q.item[a] = NULL PROVE r.item[a] = NULL
  <2>1. a # prev /\ a # next
    BY <1>10, <1>5, <1>6, <1>0
  <2> QED BY <2>1, <1>10, <1>a
<1>11. ASSUME NEW i \in 1 .. l, i # n
       PROVE  /\ r.item[at[i]] \in Items
              /\ r.item[at[i]].p_data = q.item[at[i]].p_data
              /\ r.item[at[i]].priority = q.item[at[i]].priority
              /\ r.item[at[i]].p_prev = IF i = n + 1 THEN prev ELSE Before(at, i)
              /\ r.item[at[i]].p_next = IF i = n - 1 THEN next ELSE After(at, i)
  <2> DEFINE a == at[i]
  <2>1. /\ a \in Addresses /\ q.item[a] \in Items /\ a # x
        /\ q.item[a].p_prev = Before(at, i) /\ q.item[a].p_next = After(at, i)
    BY <1>0, <1>11 DEF Sound, Links, l
  <2>2. a = prev <=> i = n - 1
    BY <1>0, <1>1, <1>3, <2>1 DEF Before
  <2>3. a = next <=> i = n + 1
    BY <1>0, <1>1, <1>4, <2>1 DEF After, l
  <2> HIDE DEF a
  <2>4. CASE a = prev
    <3>1. r.item[a] = [q.item[a] EXCEPT !.p_next = next] /\ i = n - 1 /\ i # n + 1
      BY <1>0, <1>a, <2>1, <2>2, <2>4
    <3> QED BY <3>1, <2>1, <1>1 DEF Items, a
  <2>5. CASE a = next
    <3>1. r.item[a] = [q.item[a] EXCEPT !.p_prev = prev] /\ i = n + 1 /\ i # n - 1
      BY <1>0, <1>a, <1>6, <2>1, <2>3, <2>5
    <3> QED BY <3>1, <2>1, <1>1 DEF Items, a
  <2>6. CASE a # prev /\ a # next
    <3>1. r.item[a] = q.item[a] /\ i # n - 1 /\ i # n + 1
      BY <1>a, <2>1, <2>2, <2>3, <2>6
    <3> QED BY <3>1, <2>1 DEF a
  <2> QED BY <2>4, <2>5, <2>6
<1> QED BY <1>1, <1>8, <1>9, <1>10, <1>11 DEF Relinked, r, l

\* Where the i-th element of the smaller list is in the larger one.
Up(n, i) == IF i < n THEN i ELSE i + 1

\* The list stays sound when an item is unlinked.
LEMMA UnlinkSound ==
    ASSUME NEW q, NEW at, Sound(q, at), NEW n \in 1 .. Len(at),
           NEW small \in Seq(Addresses), OneMore(small, at, n)
    PROVE  Sound(Unlink(q, at[n]), small)
<1> DEFINE x == at[n]
           r == Unlink(q, x)
           l == Len(at)
           m == Len(small)
           p == q.item[x].priority
           next == q.item[x].p_next
           prev == q.item[x].p_prev
           heir == IF next # NULL /\ q.item[next].priority = p THEN next ELSE NULL
<1>1. /\ l \in Nat /\ m \in Nat /\ l = m + 1 /\ n \in 1 .. l /\ n \in Nat
      /\ \A i \in 1 .. m : Up(n, i) \in 1 .. l /\ Up(n, i) # n /\ small[i] = at[Up(n, i)]
      /\ \A k \in 1 .. l : k # n => \E i \in 1 .. m : Up(n, i) = k
      /\ \A i, j \in 1 .. m : (i <= j <=> Up(n, i) <= Up(n, j)) /\ (Up(n, i) = Up(n, j) => i = j)
  <2>1. /\ l \in Nat /\ m \in Nat /\ l = m + 1 /\ n \in 1 .. l /\ n \in Nat
        /\ \A i \in 1 .. m : small[i] = IF i < n THEN at[i] ELSE at[i + 1]
    BY DEF Sound, Listed, OneMore
  <2> HIDE DEF l, m
  <2>2. \A i \in 1 .. m : Up(n, i) \in 1 .. l /\ Up(n, i) # n /\ small[i] = at[Up(n, i)]
    BY <2>1 DEF Up
  <2>3. ASSUME NEW k \in 1 .. l, k # n PROVE \E i \in 1 .. m : Up(n, i) = k
    <3>1. CASE k < n
      <4>1. k \in 1 .. m /\ Up(n, k) = k
        BY <2>1, <3>1 DEF Up
      <4> QED BY <4>1
    <3>2. CASE k > n
      <4>1. k - 1 \in 1 .. m /\ Up(n, k - 1) = k
        BY <2>1, <3>2 DEF Up
      <4> QED BY <4>1
    <3> QED BY <2>1, <2>3, <3>1, <3>2
  <2>4. \A i, j \in 1 .. m : (i <= j <=> Up(n, i) <= Up(n, j)) /\ (Up(n, i) = Up(n, j) => i = j)
    BY <2>1 DEF Up
  <2> QED BY <2>1, <2>2, <2>3, <2>4
<1>2. /\ q.item \in [Addresses -> Items \cup {NULL}] /\ q.length = l
      /\ \A i, j \in 1 .. l : at[i] = at[j] => i = j
      /\ \A i \in 1 .. l : at[i] \in Addresses /\ q.item[at[i]] \in Items
      /\ \A a \in Addresses : q.item[a] = NULL \/ \E i \in 1 .. l : at[i] = a
      /\ NULL \notin Addresses /\ NULL \notin Items
      /\ prev = Before(at, n) /\ next = After(at, n) /\ p \in Priorities
  BY PqueueAssumption DEF Sound, Listed, Links, Items
<1>3. Relinked(q, r, at, n)
  BY UnlinkRelinks
<1>4. /\ r.p_first = IF q.p_first = x THEN next ELSE q.p_first
      /\ r.p_last = IF q.p_last = x THEN prev ELSE q.p_last
      /\ r.length = q.length - 1
      /\ r.pp_store = [q.pp_store EXCEPT ![p] = IF @ = x THEN heir ELSE @]
  BY DEF Unlink
<1> HIDE DEF r
<1>5. /\ r.item \in [Addresses -> Items \cup {NULL}]
      /\ r.item[x] = NULL
      /\ \A a \in Addresses : q.item[a] = NULL => r.item[a] = NULL
      /\ \A i \in 1 .. l : i # n =>
           /\ r.item[at[i]] \in Items
           /\ r.item[at[i]].priority = q.item[at[i]].priority
           /\ r.item[at[i]].p_prev = IF i = n + 1 THEN Before(at, n) ELSE Before(at, i)
           /\ r.item[at[i]].p_next = IF i = n - 1 THEN After(at, n) ELSE After(at, i)
  BY <1>3 DEF Relinked
<1>6. Listed(r, small)
  <2>1. r.length = m
    BY <1>1, <1>2, <1>4
  <2>2. \A i, j \in 1 .. m : small[i] = small[j] => i = j
    BY <1>1, <1>2
  <2>3. \A i \in 1 .. m : small[i] \in Addresses /\ r.item[small[i]] \in Items
    BY <1>1, <1>2, <1>5
  <2>4. ASSUME NEW a \in Addresses, r.item[a] # NULL PROVE \E i \in 1 .. m : small[i] = a
    <3>1. PICK k \in 1 .. l : at[k] = a
      BY <2>4, <1>2, <1>5
    <3>2. k # n
      BY <3>1, <2>4, <1>5
    <3>3. PICK i \in 1 .. m : Up(n, i) = k
      BY <3>2, <1>1
    <3> QED BY <3>1, <3>3, <1>1
  <2> QED BY <1>1, <1>5, <2>1, <2>2, <2>3, <2>4 DEF Listed
<1>7. Ends(r, small)
  <2>1. q.p_first = at[1] /\ q.p_last = at[l] /\ 1 \in 1 .. l /\ l \in 1 .. l
    BY <1>1 DEF Sound, Ends
  <2>2. r.p_first = (IF m = 0 THEN NULL ELSE small[1])
    <3>1. CASE n = 1
      <4>1. q.p_first = x
        BY <2>1, <3>1
      <4>2. m # 0 => Up(n, 1) = 2 /\ small[1] = at[2]
        BY <1>1, <3>1 DEF Up
      <4>3. next = IF m = 0 THEN NULL ELSE at[2]
        BY <1>1, <1>2, <3>1 DEF After
      <4> QED BY <4>1, <4>2, <4>3, <1>4
    <3>2. CASE n # 1
      <4>1. q.p_first # x
        BY <2>1, <1>1, <1>2, <3>2
      <4>2. m # 0 /\ Up(n, 1) = 1 /\ small[1] = at[1]
        BY <1>1, <3>2 DEF Up
      <4> QED BY <4>1, <4>2, <1>4, <2>1
    <3> QED BY <3>1, <3>2
  <2>3. r.p_last = (IF m = 0 THEN NULL ELSE small[m])
    <3>1. CASE n = l
      <4>1. q.p_last = x
        BY <2>1, <3>1
      <4>2. m # 0 => Up(n, m) = m /\ m \in 1 .. m
        BY <1>1, <3>1 DEF Up
      <4>3. m # 0 => small[m] = at[m]
        BY <4>2, <1>1
      <4>4. prev = IF m = 0 THEN NULL ELSE at[m]
        BY <1>1, <1>2, <3>1 DEF Before
      <4> QED BY <4>1, <4>3, <4>4, <1>4
    <3>2. CASE n # l
      <4>1. q.p_last # x
        BY <2>1, <1>1, <1>2, <3>2
      <4>2. m # 0 /\ Up(n, m) = l /\ m \in 1 .. m
        BY <1>1, <3>2 DEF Up
      <4>3. small[m] = at[l]
        BY <4>2, <1>1
      <4> QED BY <4>1, <4>2, <4>3, <1>4, <2>1
    <3> QED BY <3>1, <3>2
  <2> QED BY <2>2, <2>3 DEF Ends
<1>8. Links(r, small)
  <2> SUFFICES ASSUME NEW i \in 1 .. m
               PROVE  /\ r.item[small[i]].p_prev = Before(small, i)
                      /\ r.item[small[i]].p_next = After(small, i)
    BY DEF Links
  <2> DEFINE k == Up(n, i)
  <2>1. /\ k \in 1 .. l /\ k # n /\ small[i] = at[k]
        /\ k = IF i < n THEN i ELSE i + 1
    BY <1>1 DEF Up
  <2> HIDE DEF k
  <2>2. /\ r.item[small[i]].p_prev = IF k = n + 1 THEN Before(at, n) ELSE Before(at, k)
        /\ r.item[small[i]].p_next = IF k = n - 1 THEN After(at, n) ELSE After(at, k)
    BY <2>1, <1>5
  <2>3. i # 1 => small[i - 1] = IF i - 1 < n THEN at[i - 1] ELSE at[i]
    <3> SUFFICES ASSUME i # 1 PROVE small[i - 1] = IF i - 1 < n THEN at[i - 1] ELSE at[i]
      OBVIOUS
    <3>1. i - 1 \in 1 .. m /\ Up(n, i - 1) = IF i - 1 < n THEN i - 1 ELSE i
      BY <1>1 DEF Up
    <3> QED BY <3>1, <1>1
  <2>4. i # m => small[i + 1] = IF i + 1 < n THEN at[i + 1] ELSE at[i + 2]
    <3> SUFFICES ASSUME i # m PROVE small[i + 1] = IF i + 1 < n THEN at[i + 1] ELSE at[i + 2]
      OBVIOUS
    <3>1. i + 1 \in 1 .. m /\ Up(n, i + 1) = IF i + 1 < n THEN i + 1 ELSE i + 2
      BY <1>1 DEF Up
    <3> QED BY <3>1, <1>1
  <2> HIDE DEF x, next, prev, p, heir
  <2>5. r.item[small[i]].p_prev = Before(small, i)
    <3>1. CASE k = n + 1
      <4>1. i = n
        BY <3>1, <2>1, <1>1
      <4>2. Before(at, n) = IF n = 1 THEN NULL ELSE at[n - 1]
        BY DEF Before
      <4>3. i # 1 => small[i - 1] = at[i - 1]
        BY <4>1, <2>3, <1>1
      <4> QED BY <3>1, <4>1, <4>2, <4>3, <2>2 DEF Before
    <3>2. CASE k # n + 1
      <4>1. Before(at, k) = IF k = 1 THEN NULL ELSE at[k - 1]
        BY DEF Before
      <4>2. (k = 1 <=> i = 1) /\ (i # 1 => small[i - 1] = at[k - 1])
        BY <3>2, <2>1, <2>3, <1>1
      <4> QED BY <3>2, <4>1, <4>2, <2>2 DEF Before
    <3> QED BY <3>1, <3>2
  <2>6. r.item[small[i]].p_next = After(small, i)
    <3>1. CASE k = n - 1
      <4>1. i = n - 1 /\ (i = m <=> n = l)
        BY <3>1, <2>1, <1>1
      <4>2. After(at, n) = IF n = l THEN NULL ELSE at[n + 1]
        BY DEF After
      <4>3. i # m => small[i + 1] = at[n + 1]
        BY <4>1, <2>4, <1>1
      <4> QED BY <3>1, <4>1, <4>2, <4>3, <2>2 DEF After
    <3>2. CASE k # n - 1
      <4>1. After(at, k) = IF k = l THEN NULL ELSE at[k + 1]
        BY DEF After
      <4>2. (k = l <=> i = m) /\ (i # m => small[i + 1] = at[k + 1])
        BY <3>2, <2>1, <2>4, <1>1
      <4> QED BY <3>2, <4>1, <4>2, <2>2 DEF After
    <3> QED BY <3>1, <3>2
  <2> QED BY <2>5, <2>6
<1>9. \A i \in 1 .. m : r.item[small[i]].priority = q.item[at[Up(n, i)]].priority
  BY <1>1, <1>5
<1>10. Ordered(r, small)
  <2>1. \A i, j \in 1 .. l : i <= j => q.item[at[i]].priority <= q.item[at[j]].priority
    BY <1>1 DEF Sound, Ordered
  <2>2. ASSUME NEW i \in 1 .. m, NEW j \in 1 .. m, i <= j
        PROVE  r.item[small[i]].priority <= r.item[small[j]].priority
    <3>1. Up(n, i) \in 1 .. l /\ Up(n, j) \in 1 .. l /\ Up(n, i) <= Up(n, j)
      BY <1>1, <2>2 DEF Up
    <3> QED BY <1>9, <2>1, <3>1
  <2>3. Len(small) = m
    BY <1>1
  <2> QED BY <2>2, <2>3 DEF Ordered
<1>11. Shortcuts(r, small)
  <2>1. /\ q.pp_store \in [Priorities -> Pointers]
        /\ \A o \in Priorities :
             \/ q.pp_store[o] = NULL /\ NoneOf(q, at, o)
             \/ \E i \in 1 .. Len(at) : q.pp_store[o] = at[i] /\ FirstOf(q, at, o, i)
    BY DEF Sound, Shortcuts
  <2>2. next \in Pointers
    BY <1>2, <1>1 DEF Items
  <2>3. r.pp_store \in [Priorities -> Pointers]
    BY <2>1, <2>2, <1>4 DEF Pointers
  <2>4. ASSUME NEW o \in Priorities, NoneOf(q, at, o) PROVE NoneOf(r, small, o)
    <3>1. ASSUME NEW j \in 1 .. m PROVE r.item[small[j]].priority # o
      <4>1. Up(n, j) \in 1 .. l /\ r.item[small[j]].priority = q.item[at[Up(n, j)]].priority
        BY <1>1, <1>9
      <4> QED BY <4>1, <2>4 DEF NoneOf
    <3> QED BY <3>1 DEF NoneOf
  <2>5. ASSUME NEW o \in Priorities, NEW k \in 1 .. l, k # n, FirstOf(q, at, o, k)
        PROVE  \E i \in 1 .. m : at[k] = small[i] /\ FirstOf(r, small, o, i)
    <3>1. PICK i \in 1 .. m : Up(n, i) = k
      BY <2>5, <1>1
    <3>2. FirstOf(r, small, o, i)
      <4>1. r.item[small[i]].priority = o
        BY <3>1, <2>5, <1>9 DEF FirstOf
      <4>2. ASSUME NEW j \in 1 .. m, r.item[small[j]].priority = o PROVE i <= j
        <5>1. q.item[at[Up(n, j)]].priority = o /\ Up(n, j) \in 1 .. l
          BY <4>2, <1>1, <1>9
        <5>2. k <= Up(n, j)
          BY <5>1, <2>5 DEF FirstOf
        <5> QED BY <5>2, <3>1, <1>1
      <4> QED BY <4>1, <4>2 DEF FirstOf
    <3> QED BY <3>1, <3>2, <1>1
  <2>6. ASSUME NEW o \in Priorities
        PROVE  \/ r.pp_store[o] = NULL /\ NoneOf(r, small, o)
               \/ \E i \in 1 .. m : r.pp_store[o] = small[i] /\ FirstOf(r, small, o, i)
    <3>1. CASE q.pp_store[o] = NULL /\ NoneOf(q, at, o)
      <4>1. r.pp_store[o] = NULL
        BY <3>1, <2>1, <1>2, <1>4
      <4> QED BY <4>1, <3>1, <2>4
    <3>2. ASSUME NEW k \in 1 .. l, q.pp_store[o] = at[k], FirstOf(q, at, o, k)
          PROVE  \/ r.pp_store[o] = NULL /\ NoneOf(r, small, o)
                 \/ \E i \in 1 .. m : r.pp_store[o] = small[i] /\ FirstOf(r, small, o, i)
      <4>1. CASE k # n
        <5>1. at[k] # x
          BY <4>1, <1>1, <1>2
        <5>2. r.pp_store[o] = at[k]
          BY <5>1, <3>2, <2>1, <1>4
        <5> QED BY <5>2, <4>1, <3>2, <2>5
      <4>2. CASE k = n
        <5>1. o = p
          BY <4>2, <3>2 DEF FirstOf
        <5>2. r.pp_store[o] = heir
          BY <5>1, <4>2, <3>2, <2>1, <1>4
        <5>3. CASE n # l /\ q.item[at[n + 1]].priority = p
          <6>1. n + 1 \in 1 .. l /\ n + 1 # n /\ next = at[n + 1]
            BY <5>3, <1>1, <1>2 DEF After
          <6>2. heir = at[n + 1]
            BY <6>1, <5>3, <1>2
          <6>3. PICK i \in 1 .. m : Up(n, i) = n + 1
            BY <6>1, <1>1
          <6>4. FirstOf(r, small, o, i)
            <7>1. r.item[small[i]].priority = o
              BY <6>3, <1>9, <5>1, <5>3
            <7>2. ASSUME NEW j \in 1 .. m, r.item[small[j]].priority = o PROVE i <= j
              <8>1. q.item[at[Up(n, j)]].priority = o /\ Up(n, j) \in 1 .. l /\ Up(n, j) # n
                BY <7>2, <1>1, <1>9
              <8>2. n <= Up(n, j)
                BY <8>1, <3>2, <4>2 DEF FirstOf
              <8>3. n + 1 <= Up(n, j)
                BY <8>1, <8>2, <1>1
              <8> QED BY <8>3, <6>3, <1>1
            <7> QED BY <7>1, <7>2 DEF FirstOf
          <6> QED BY <5>2, <6>1, <6>2, <6>3, <6>4, <1>1
        <5>4. CASE n = l \/ q.item[at[n + 1]].priority # p
          <6>1. heir = NULL
            BY <5>4, <1>2 DEF After
          <6>2. ASSUME NEW j \in 1 .. m, r.item[small[j]].priority = o PROVE FALSE
            <7> DEFINE h == Up(n, j)
            <7>1. q.item[at[h]].priority = o /\ h \in 1 .. l /\ h # n
              BY <6>2, <1>1, <1>9
            <7> HIDE DEF h
            <7>2. n <= h
              BY <7>1, <3>2, <4>2 DEF FirstOf
            <7>3. n # l /\ n + 1 \in 1 .. l /\ n + 1 <= h /\ n <= n + 1
              BY <7>1, <7>2, <1>1
            <7>4. /\ q.item[at[n]].priority <= q.item[at[n + 1]].priority
                  /\ q.item[at[n + 1]].priority <= q.item[at[h]].priority
              BY <7>1, <7>3, <1>1 DEF Sound, Ordered
            <7>5. q.item[at[n + 1]].priority \in Int /\ q.item[at[n]].priority = o /\ o \in Int
              BY <7>3, <1>2, <5>1, PqueueAssumption DEF Items, Priorities
            <7> QED BY <7>1, <7>3, <7>4, <7>5, <5>1, <5>4
          <6> QED BY <5>2, <6>1, <6>2 DEF NoneOf
        <5> QED BY <5>3, <5>4
      <4> QED BY <4>1, <4>2
    <3> QED BY <3>1, <3>2, <2>1
  <2> QED BY <2>3, <2>6 DEF Shortcuts
<1> QED BY <1>6, <1>7, <1>8, <1>10, <1>11 DEF Sound, r

-----------------------------------------------------------------------------
(* An item is put in *)

\* The queue q with the item new in front of cur, or at the end.
Hooked(q, new, data, priority, cur) ==
    LET prev == IF cur = NULL THEN q.p_last ELSE q.item[cur].p_prev
    IN  [p_first |-> IF prev = NULL THEN new ELSE q.p_first,
         p_last |-> IF cur = NULL THEN new ELSE q.p_last,
         pp_store |-> [q.pp_store EXCEPT ![priority] = IF @ = NULL THEN new ELSE @],
         length |-> q.length + 1,
         item |-> [a \in Addresses |->
                     IF a = new THEN New(data, priority, prev, cur)
                     ELSE IF a = cur THEN [q.item[a] EXCEPT !.p_prev = new]
                     ELSE IF a = prev THEN [q.item[a] EXCEPT !.p_next = new]
                     ELSE q.item[a]]]

\* n is the place behind the items that priority may not overtake.
Turn(q, at, priority, n) ==
    /\ n \in 1 .. Len(at) + 1
    /\ \A i \in 1 .. Len(at) : i < n <=> q.item[at[i]].priority <= priority

\* The place an item has, or the end of the list.
There(at, n) == IF n = Len(at) + 1 THEN NULL ELSE at[n]

\* The first item of the next priority up is at the turn of the new one: what is
\* before it has a priority with items that is not above, because the list is
\* ordered and pp_store finds the first item of each priority.
LEMMA NextUpIsTurn ==
    ASSUME NEW at, Sound(Current, at), NEW priority \in Priorities
    PROVE  \E n : Turn(Current, at, priority, n) /\ NextUp(priority) = There(at, n)
<1> DEFINE l == Len(at)
           pr(i) == item[at[i]].priority
           up == {p \in Priorities : p > priority /\ pp_store[p] # NULL}
<1>1. /\ l \in Nat /\ \A i \in 1 .. l : at[i] \in Addresses /\ pr(i) \in Priorities
      /\ NULL \notin Addresses
      /\ \A i, j \in 1 .. l : i <= j => pr(i) <= pr(j)
      /\ \A p \in Priorities :
           \/ pp_store[p] = NULL /\ \A j \in 1 .. l : pr(j) # p
           \/ \E i \in 1 .. l : /\ pp_store[p] = at[i] /\ pr(i) = p
                                /\ \A j \in 1 .. l : pr(j) = p => i <= j
  BY PqueueAssumption DEF Sound, Listed, Ordered, Shortcuts, NoneOf, FirstOf, Current, Items
<1>2. up \in SUBSET Nat /\ Priorities \in SUBSET Nat /\ priority \in Nat
  BY PqueueAssumption DEF Priorities
<1> HIDE DEF l, pr
<1>5. \A i \in 1 .. l : pr(i) \in Priorities /\ pr(i) \in Nat
  BY <1>1, <1>2
<1>6. \A p \in Priorities : p \in Nat /\ (p > priority /\ pp_store[p] # NULL <=> p \in up)
  BY <1>2
<1> HIDE DEF up
<1>3. CASE up = {}
  <2>1. NextUp(priority) = NULL
    BY <1>3 DEF NextUp, up
  <2>2. ASSUME NEW i \in 1 .. l PROVE pr(i) <= priority
    <3>1. pp_store[pr(i)] # NULL /\ pr(i) \in Priorities /\ pr(i) \in Nat
      BY <1>1, <1>5
    <3>2. ~(pr(i) > priority)
      BY <3>1, <1>3, <1>6
    <3> QED BY <3>1, <3>2, <1>2
  <2>3. l + 1 \in 1 .. l + 1 /\ \A i \in 1 .. l : i < l + 1
    BY <1>1
  <2>4. Turn(Current, at, priority, l + 1)
    BY <2>2, <2>3 DEF Turn, Current, l, pr
  <2>5. There(at, l + 1) = NULL
    BY DEF There, l
  <2> QED BY <2>1, <2>4, <2>5
<1>4. CASE up # {}
  <2>1. PICK u \in up : \A r \in up : u <= r
    BY <1>2, <1>4, LeastNumber
  <2>2. (CHOOSE p \in up : \A r \in up : p <= r) = u
    <3>1. \A p \in up : (\A r \in up : p <= r) => p = u
      BY <2>1, <1>2
    <3> QED BY <2>1, <3>1
  <2>3. NextUp(priority) = pp_store[u]
    BY <1>4, <2>2 DEF NextUp, up
  <2>4. u \in Priorities /\ u \in Nat /\ u > priority /\ pp_store[u] # NULL
    BY <2>1, <1>2 DEF up
  <2>5. PICK n \in 1 .. l : /\ pp_store[u] = at[n] /\ pr(n) = u
                            /\ \A j \in 1 .. l : pr(j) = u => n <= j
    BY <2>4, <1>1
  <2>6. ASSUME NEW i \in 1 .. l PROVE i < n <=> pr(i) <= priority
    <3>0. pr(i) \in Priorities /\ pr(n) \in Priorities /\ pr(i) \in Nat /\ pr(n) \in Nat
      BY <1>5
    <3>1. ASSUME i < n, ~(pr(i) <= priority) PROVE FALSE
      <4>1. pr(i) \in up
        <5>1. pp_store[pr(i)] # NULL
          BY <3>0, <1>1
        <5>2. pr(i) > priority
          BY <3>0, <3>1, <1>2
        <5> QED BY <5>1, <5>2, <3>0, <1>6
      <4>2. u <= pr(i) /\ pr(i) <= pr(n)
        BY <4>1, <2>1, <3>1, <1>1
      <4>3. pr(i) = u
        BY <4>2, <2>4, <2>5, <3>0
      <4> QED BY <4>3, <2>5, <3>1, <1>1
    <3>2. ASSUME ~(i < n), pr(i) <= priority PROVE FALSE
      <4>1. pr(n) <= pr(i)
        BY <3>2, <1>1
      <4> QED BY <4>1, <3>0, <3>2, <2>4, <2>5, <1>2
    <3> QED BY <3>1, <3>2
  <2>7. n \in 1 .. l + 1 /\ n # l + 1
    BY <1>1
  <2>8. Turn(Current, at, priority, n)
    BY <2>6, <2>7 DEF Turn, Current, l, pr
  <2>9. There(at, n) = at[n]
    BY <2>7 DEF There, l
  <2> QED BY <2>3, <2>5, <2>8, <2>9
<1> QED BY <1>3, <1>4

\* Sending hooks a free item in there.
LEMMA SendHooks ==
    ASSUME NEW at, Sound(Current, at), NEW d \in Data, NEW p \in Priorities, Send(d, p)
    PROVE  \E new \in Addresses :
             item[new] = NULL /\ Current' = Hooked(Current, new, d, p, NextUp(p))
<1>1. PICK new \in Free :
        /\ pp_store' = [pp_store EXCEPT ![p] = IF @ = NULL THEN new ELSE @]
        /\ IF NextUp(p) # NULL
           THEN HookBefore(NextUp(p), new, d, p)
           ELSE HookLast(new, d, p)
        /\ length' = length + 1
  BY DEF Send
<1>2. new \in Addresses /\ item[new] = NULL
  BY <1>1 DEF Free
<1> DEFINE cur == NextUp(p)
           q == Hooked(Current, new, d, p, cur)
<1>3. PICK n : Turn(Current, at, p, n) /\ NextUp(p) = There(at, n)
  BY NextUpIsTurn
<1>4. /\ Len(at) \in Nat /\ n \in 1 .. Len(at) + 1
      /\ \A i \in 1 .. Len(at) : at[i] \in Addresses /\ item[at[i]] # NULL
      /\ \A i, j \in 1 .. Len(at) : at[i] = at[j] => i = j
      /\ p_first = (IF Len(at) = 0 THEN NULL ELSE at[1])
      /\ p_last = (IF Len(at) = 0 THEN NULL ELSE at[Len(at)])
      /\ \A i \in 1 .. Len(at) : item[at[i]].p_prev = Before(at, i)
      /\ NULL \notin Addresses
  BY <1>3, PqueueAssumption DEF Sound, Listed, Ends, Links, Turn, Current
<1>5. CASE cur # NULL
  <2>1. HookBefore(cur, new, d, p)
    BY <1>1, <1>5
  <2>2. n \in 1 .. Len(at) /\ cur = at[n]
    BY <1>3, <1>4, <1>5 DEF There
  <2> DEFINE prev == item[cur].p_prev
  <2>3. prev = Before(at, n)
    BY <2>2, <1>4
  <2>4. cur \in Addresses /\ cur # new
    BY <2>2, <1>2, <1>4
  <2>5. prev # NULL => prev \in Addresses /\ prev # new /\ prev # cur
    <3> SUFFICES ASSUME prev # NULL PROVE prev \in Addresses /\ prev # new /\ prev # cur
      OBVIOUS
    <3>1. n - 1 \in 1 .. Len(at) /\ prev = at[n - 1]
      BY <2>2, <2>3, <1>4 DEF Before
    <3> QED BY <3>1, <2>2, <1>2, <1>4
  <2>6. ASSUME NEW a \in Addresses
        PROVE  (CASE a = new  -> New(d, p, prev, cur)
                  [] a = cur  -> [item[a] EXCEPT !.p_prev = new]
                  [] a = prev -> [item[a] EXCEPT !.p_next = new]
                  [] OTHER    -> item[a])
               = (IF a = new THEN New(d, p, prev, cur)
                  ELSE IF a = cur THEN [item[a] EXCEPT !.p_prev = new]
                  ELSE IF a = prev THEN [item[a] EXCEPT !.p_next = new]
                  ELSE item[a])
    <3> HIDE DEF prev, cur
    <3>1. a = prev => prev # NULL
      BY <1>4
    <3>2. CASE a = new
      BY <3>1, <3>2, <2>4, <2>5
    <3>3. CASE a = cur
      BY <3>1, <3>3, <2>4, <2>5
    <3>4. CASE a = prev
      BY <3>1, <3>4, <2>4, <2>5
    <3>5. CASE a # new /\ a # cur /\ a # prev
      BY <3>5
    <3> QED BY <3>2, <3>3, <3>4, <3>5
  <2>7. /\ item' = [a \in Addresses |->
                      IF a = new THEN New(d, p, prev, cur)
                      ELSE IF a = cur THEN [item[a] EXCEPT !.p_prev = new]
                      ELSE IF a = prev THEN [item[a] EXCEPT !.p_next = new]
                      ELSE item[a]]
        /\ p_first' = IF prev = NULL THEN new ELSE p_first
        /\ p_last' = p_last
    BY <2>1, <2>6 DEF HookBefore
  <2> HIDE DEF cur
  <2> QED BY <1>1, <1>2, <1>5, <2>7 DEF Hooked, Current, cur
<1>6. CASE cur = NULL
  <2>1. HookLast(new, d, p)
    BY <1>1, <1>6
  <2> DEFINE prev == p_last
  <2>2. prev # NULL => prev \in Addresses /\ prev # new
    BY <1>2, <1>4
  <2>3. p_first = NULL <=> prev = NULL
    BY <1>4
  <2>4. ASSUME NEW a \in Addresses
        PROVE  (CASE a = new    -> New(d, p, p_last, NULL)
                  [] a = p_last -> [item[a] EXCEPT !.p_next = new]
                  [] OTHER      -> item[a])
               = (IF a = new THEN New(d, p, p_last, NULL)
                  ELSE IF a = NULL THEN [item[a] EXCEPT !.p_prev = new]
                  ELSE IF a = p_last THEN [item[a] EXCEPT !.p_next = new]
                  ELSE item[a])
    <3>1. a # NULL
      BY <1>4
    <3>2. CASE a = new
      BY <3>1, <3>2, <2>2
    <3>3. CASE a = p_last
      BY <3>1, <3>3, <2>2
    <3>4. CASE a # new /\ a # p_last
      BY <3>1, <3>4
    <3> QED BY <3>2, <3>3, <3>4
  <2>5. /\ item' = [a \in Addresses |->
                      IF a = new THEN New(d, p, p_last, NULL)
                      ELSE IF a = NULL THEN [item[a] EXCEPT !.p_prev = new]
                      ELSE IF a = p_last THEN [item[a] EXCEPT !.p_next = new]
                      ELSE item[a]]
        /\ p_first' = IF p_last = NULL THEN new ELSE p_first
        /\ p_last' = new
    BY <2>1, <2>3, <2>4 DEF HookLast
  <2> HIDE DEF cur
  <2> QED BY <1>1, <1>2, <1>6, <2>5 DEF Hooked, Current, cur
<1> QED BY <1>5, <1>6

\* What the rows of the list become.
Rehooked(q, r, at, n, new, d, p) ==
    /\ r.item \in [Addresses -> Items \cup {NULL}]
    /\ r.item[new] = New(d, p, Before(at, n), There(at, n)) /\ r.item[new] \in Items
    /\ \A a \in Addresses : a # new /\ q.item[a] = NULL => r.item[a] = NULL
    /\ \A i \in 1 .. Len(at) :
         /\ r.item[at[i]] \in Items
         /\ r.item[at[i]].p_data = q.item[at[i]].p_data
         /\ r.item[at[i]].priority = q.item[at[i]].priority
         /\ r.item[at[i]].p_prev = IF i = n THEN new ELSE Before(at, i)
         /\ r.item[at[i]].p_next = IF i = n - 1 THEN new ELSE After(at, i)

\* Hooking a new item in writes the rows beside it.
LEMMA HookRehooks ==
    ASSUME NEW q, NEW at, Sound(q, at), NEW new \in Addresses, q.item[new] = NULL,
           NEW d \in Data, NEW p \in Priorities, NEW n \in 1 .. Len(at) + 1
    PROVE  /\ Rehooked(q, Hooked(q, new, d, p, There(at, n)), at, n, new, d, p)
           /\ Hooked(q, new, d, p, There(at, n)).p_first =
                IF Before(at, n) = NULL THEN new ELSE q.p_first
<1> DEFINE cur == There(at, n)
           prev == IF cur = NULL THEN q.p_last ELSE q.item[cur].p_prev
           r == Hooked(q, new, d, p, cur)
           l == Len(at)
<1>0. /\ l \in Nat /\ n \in 1 .. l + 1 /\ n \in Nat
      /\ q.item \in [Addresses -> Items \cup {NULL}]
      /\ \A i, j \in 1 .. l : at[i] = at[j] => i = j
      /\ \A i \in 1 .. l : at[i] \in Addresses /\ q.item[at[i]] \in Items
      /\ \A i \in 1 .. l : q.item[at[i]].p_prev = Before(at, i) /\ q.item[at[i]].p_next = After(at, i)
      /\ q.p_last = (IF l = 0 THEN NULL ELSE at[l])
      /\ NULL \notin Addresses /\ NULL \notin Items
  BY PqueueAssumption DEF Sound, Listed, Ends, Links
<1>1. cur = (IF n = l + 1 THEN NULL ELSE at[n])
  BY DEF There
<1>2. prev = Before(at, n)
  <2>1. CASE n = l + 1
    <3>1. l = 0 <=> n = 1
      BY <2>1, <1>0
    <3>2. l = n - 1
      BY <2>1, <1>0
    <3> QED BY <2>1, <3>1, <3>2, <1>0, <1>1 DEF Before
  <2>2. CASE n # l + 1
    <3>1. n \in 1 .. l
      BY <2>2, <1>0
    <3> QED BY <2>2, <3>1, <1>0, <1>1
  <2> QED BY <2>1, <2>2
<1>3. /\ r.item = [a \in Addresses |->
                     IF a = new THEN New(d, p, prev, cur)
                     ELSE IF a = cur THEN [q.item[a] EXCEPT !.p_prev = new]
                     ELSE IF a = prev THEN [q.item[a] EXCEPT !.p_next = new]
                     ELSE q.item[a]]
      /\ r.p_first = IF prev = NULL THEN new ELSE q.p_first
  BY DEF Hooked
<1> HIDE DEF r, prev, cur, l
<1>4. prev # NULL => n # 1 /\ n - 1 \in 1 .. l /\ prev = at[n - 1]
  BY <1>0, <1>2 DEF Before
<1>5. cur # NULL => n # l + 1 /\ n \in 1 .. l /\ cur = at[n]
  BY <1>0, <1>1
<1>6. prev \in Addresses => q.item[prev] \in Items /\ prev # new
  BY <1>0, <1>4
<1>7. cur \in Addresses => q.item[cur] \in Items /\ cur # new
  BY <1>0, <1>5
<1>8. prev \in Pointers /\ cur \in Pointers /\ new \in Pointers
  BY <1>0, <1>4, <1>5 DEF Pointers
<1>9. r.item[new] = New(d, p, prev, cur) /\ r.item[new] \in Items
  BY <1>3, <1>8 DEF New, Items
<1>10. ASSUME NEW a \in Addresses, a # new
       PROVE  /\ q.item[a] = NULL => r.item[a] = NULL
              /\ q.item[a] \in Items =>
                   /\ r.item[a] \in Items
                   /\ r.item[a].p_data = q.item[a].p_data
                   /\ r.item[a].priority = q.item[a].priority
                   /\ r.item[a].p_prev = IF a = cur THEN new ELSE q.item[a].p_prev
                   /\ r.item[a].p_next = IF a # cur /\ a = prev THEN new ELSE q.item[a].p_next
  <2>1. CASE a = cur
    <3>1. r.item[a] = [q.item[a] EXCEPT !.p_prev = new] /\ q.item[a] \in Items
      BY <2>1, <1>3, <1>7, <1>10
    <3> QED BY <3>1, <2>1, <1>8, <1>0 DEF Items
  <2>2. CASE a # cur /\ a = prev
    <3>1. r.item[a] = [q.item[a] EXCEPT !.p_next = new] /\ q.item[a] \in Items
      BY <2>2, <1>3, <1>6, <1>10
    <3> QED BY <3>1, <2>2, <1>8, <1>0 DEF Items
  <2>3. CASE a # cur /\ a # prev
    <3>1. r.item[a] = q.item[a]
      BY <2>3, <1>3, <1>10
    <3> QED BY <3>1, <2>3
  <2> QED BY <2>1, <2>2, <2>3
<1>11. r.item \in [Addresses -> Items \cup {NULL}]
  <2>1. \A a \in Addresses : r.item[a] \in Items \cup {NULL}
    BY <1>0, <1>9, <1>10
  <2> QED BY <2>1, <1>3
<1>12. ASSUME NEW i \in 1 .. l
       PROVE  /\ r.item[at[i]] \in Items
              /\ r.item[at[i]].p_data = q.item[at[i]].p_data
              /\ r.item[at[i]].priority = q.item[at[i]].priority
              /\ r.item[at[i]].p_prev = IF i = n THEN new ELSE Before(at, i)
              /\ r.item[at[i]].p_next = IF i = n - 1 THEN new ELSE After(at, i)
  <2>1. at[i] \in Addresses /\ q.item[at[i]] \in Items /\ at[i] # new
    BY <1>0
  <2>2. at[i] = cur <=> i = n
    BY <1>0, <1>1, <1>5, <2>1
  <2>3. at[i] = prev <=> i = n - 1
    BY <1>0, <1>2, <1>4, <2>1 DEF Before
  <2>4. q.item[at[i]].p_prev = Before(at, i) /\ q.item[at[i]].p_next = After(at, i)
    BY <1>0
  <2>5. i = n - 1 => i # n
    BY <1>0
  <2> QED BY <2>1, <2>2, <2>3, <2>4, <2>5, <1>10
<1>13. \A a \in Addresses : a # new /\ q.item[a] = NULL => r.item[a] = NULL
  BY <1>10
<1>14. Rehooked(q, r, at, n, new, d, p)
  BY <1>2, <1>9, <1>11, <1>12, <1>13 DEF Rehooked, l, cur
<1> QED BY <1>2, <1>3, <1>14 DEF r, cur

\* The list stays sound when an item is hooked in at its turn.
LEMMA HookSound ==
    ASSUME NEW q, NEW at, Sound(q, at), NEW new \in Addresses, q.item[new] = NULL,
           NEW d \in Data, NEW p \in Priorities, NEW n, Turn(q, at, p, n),
           NEW big \in Seq(Addresses), OneMore(at, big, n), big[n] = new
    PROVE  Sound(Hooked(q, new, d, p, There(at, n)), big)
<1> DEFINE cur == There(at, n)
           r == Hooked(q, new, d, p, cur)
           m == Len(at)
           l == Len(big)
<1>0. n \in 1 .. Len(at) + 1 /\ Len(at) \in Nat
  BY DEF Turn, OneMore
<1>1. /\ l \in Nat /\ m \in Nat /\ l = m + 1 /\ n \in 1 .. l /\ n \in Nat
      /\ \A i \in 1 .. m : Up(n, i) \in 1 .. l /\ Up(n, i) # n /\ at[i] = big[Up(n, i)]
      /\ \A k \in 1 .. l : k # n => \E i \in 1 .. m : Up(n, i) = k
      /\ \A i, j \in 1 .. m : (i <= j <=> Up(n, i) <= Up(n, j)) /\ (Up(n, i) = Up(n, j) => i = j)
  <2>1. /\ l \in Nat /\ m \in Nat /\ l = m + 1 /\ n \in 1 .. l /\ n \in Nat
        /\ \A i \in 1 .. m : at[i] = IF i < n THEN big[i] ELSE big[i + 1]
    BY DEF OneMore
  <2> HIDE DEF l, m
  <2>2. \A i \in 1 .. m : Up(n, i) \in 1 .. l /\ Up(n, i) # n /\ at[i] = big[Up(n, i)]
    BY <2>1 DEF Up
  <2>3. ASSUME NEW k \in 1 .. l, k # n PROVE \E i \in 1 .. m : Up(n, i) = k
    <3>1. CASE k < n
      <4>1. k \in 1 .. m /\ Up(n, k) = k
        BY <2>1, <3>1 DEF Up
      <4> QED BY <4>1
    <3>2. CASE k > n
      <4>1. k - 1 \in 1 .. m /\ Up(n, k - 1) = k
        BY <2>1, <3>2 DEF Up
      <4> QED BY <4>1
    <3> QED BY <2>1, <2>3, <3>1, <3>2
  <2>4. \A i, j \in 1 .. m : (i <= j <=> Up(n, i) <= Up(n, j)) /\ (Up(n, i) = Up(n, j) => i = j)
    BY <2>1 DEF Up
  <2> QED BY <2>1, <2>2, <2>3, <2>4
<1>2. /\ q.item \in [Addresses -> Items \cup {NULL}] /\ q.length = m
      /\ \A i, j \in 1 .. m : at[i] = at[j] => i = j
      /\ \A i \in 1 .. m : at[i] \in Addresses /\ q.item[at[i]] \in Items /\ at[i] # new
      /\ \A a \in Addresses : q.item[a] = NULL \/ \E i \in 1 .. m : at[i] = a
      /\ NULL \notin Addresses /\ NULL \notin Items
      /\ q.p_first = (IF m = 0 THEN NULL ELSE at[1])
      /\ q.p_last = (IF m = 0 THEN NULL ELSE at[m])
  BY PqueueAssumption DEF Sound, Listed, Ends
<1>3. Rehooked(q, r, at, n, new, d, p) /\ r.p_first = IF Before(at, n) = NULL THEN new ELSE q.p_first
  BY <1>0, HookRehooks
<1>4. /\ r.p_last = IF cur = NULL THEN new ELSE q.p_last
      /\ r.length = q.length + 1
      /\ r.pp_store = [q.pp_store EXCEPT ![p] = IF @ = NULL THEN new ELSE @]
  BY DEF Hooked
<1>5. cur = (IF n = l THEN NULL ELSE at[n]) /\ Before(at, n) = (IF n = 1 THEN NULL ELSE at[n - 1])
  BY <1>1 DEF There, Before
<1> HIDE DEF r
<1>6. /\ r.item \in [Addresses -> Items \cup {NULL}]
      /\ r.item[new] \in Items
      /\ r.item[new].priority = p
      /\ r.item[new].p_prev = Before(at, n) /\ r.item[new].p_next = cur
      /\ \A a \in Addresses : a # new /\ q.item[a] = NULL => r.item[a] = NULL
      /\ \A i \in 1 .. m :
           /\ r.item[at[i]] \in Items
           /\ r.item[at[i]].priority = q.item[at[i]].priority
           /\ r.item[at[i]].p_prev = IF i = n THEN new ELSE Before(at, i)
           /\ r.item[at[i]].p_next = IF i = n - 1 THEN new ELSE After(at, i)
  BY <1>3 DEF Rehooked, New
<1> HIDE DEF cur, m, l
<1>7. Listed(r, big)
  <2>1. r.length = l
    BY <1>1, <1>2, <1>4
  <2>2. ASSUME NEW j \in 1 .. l, NEW k \in 1 .. l, big[j] = big[k] PROVE j = k
    <3>1. CASE j = n /\ k # n
      <4>1. PICK i \in 1 .. m : Up(n, i) = k
        BY <3>1, <1>1
      <4> QED BY <4>1, <3>1, <2>2, <1>1, <1>2
    <3>2. CASE j # n /\ k = n
      <4>1. PICK i \in 1 .. m : Up(n, i) = j
        BY <3>2, <1>1
      <4> QED BY <4>1, <3>2, <2>2, <1>1, <1>2
    <3>3. CASE j # n /\ k # n
      <4>1. PICK i \in 1 .. m : Up(n, i) = j
        BY <3>3, <1>1
      <4>2. PICK h \in 1 .. m : Up(n, h) = k
        BY <3>3, <1>1
      <4>3. at[i] = at[h]
        BY <4>1, <4>2, <2>2, <1>1
      <4> QED BY <4>1, <4>2, <4>3, <1>2
    <3> QED BY <3>1, <3>2, <3>3
  <2>3. ASSUME NEW k \in 1 .. l PROVE big[k] \in Addresses /\ r.item[big[k]] \in Items
    <3>1. CASE k = n
      BY <3>1, <1>6
    <3>2. CASE k # n
      <4>1. PICK i \in 1 .. m : Up(n, i) = k
        BY <3>2, <1>1
      <4> QED BY <4>1, <1>1, <1>2, <1>6
    <3> QED BY <3>1, <3>2
  <2>4. ASSUME NEW a \in Addresses, r.item[a] # NULL PROVE \E k \in 1 .. l : big[k] = a
    <3>1. CASE a = new
      BY <3>1, <1>1
    <3>2. CASE a # new
      <4>1. PICK i \in 1 .. m : at[i] = a
        BY <3>2, <2>4, <1>2, <1>6
      <4> QED BY <4>1, <1>1
    <3> QED BY <3>1, <3>2
  <2> QED BY <1>1, <1>6, <2>1, <2>2, <2>3, <2>4 DEF Listed, l
<1>8. Ends(r, big)
  <2>1. r.p_first = big[1]
    <3>1. CASE n = 1
      BY <3>1, <1>3, <1>5
    <3>2. CASE n # 1
      <4>1. m # 0 /\ n - 1 \in 1 .. m /\ 1 \in 1 .. m /\ Up(n, 1) = 1
        BY <3>2, <1>1 DEF Up
      <4>2. Before(at, n) # NULL
        BY <4>1, <3>2, <1>2, <1>5
      <4> QED BY <4>1, <4>2, <1>1, <1>2, <1>3
    <3> QED BY <3>1, <3>2
  <2>2. r.p_last = big[l]
    <3>1. CASE n = l
      BY <3>1, <1>4, <1>5
    <3>2. CASE n # l
      <4>1. m # 0 /\ n \in 1 .. m /\ m \in 1 .. m /\ Up(n, m) = l
        BY <3>2, <1>1 DEF Up
      <4>2. cur # NULL
        BY <4>1, <3>2, <1>2, <1>5
      <4> QED BY <4>1, <4>2, <1>1, <1>2, <1>4
    <3> QED BY <3>1, <3>2
  <2>3. l # 0
    BY <1>1
  <2> QED BY <2>1, <2>2, <2>3 DEF Ends, l
<1>9. Links(r, big)
  <2>1. ASSUME NEW k \in 1 .. l
        PROVE  r.item[big[k]].p_prev = Before(big, k) /\ r.item[big[k]].p_next = After(big, k)
    <3>0. Before(big, k) = (IF k = 1 THEN NULL ELSE big[k - 1])
          /\ After(big, k) = (IF k = l THEN NULL ELSE big[k + 1])
      BY DEF Before, After, l
    <3>1. CASE k = n
      <4>1. n # 1 => at[n - 1] = big[n - 1]
        <5> SUFFICES ASSUME n # 1 PROVE at[n - 1] = big[n - 1]
          OBVIOUS
        <5>1. n - 1 \in 1 .. m /\ Up(n, n - 1) = n - 1
          BY <1>1 DEF Up
        <5> QED BY <5>1, <1>1
      <4>2. n # l => at[n] = big[n + 1]
        <5> SUFFICES ASSUME n # l PROVE at[n] = big[n + 1]
          OBVIOUS
        <5>1. n \in 1 .. m /\ Up(n, n) = n + 1
          BY <1>1 DEF Up
        <5> QED BY <5>1, <1>1
      <4> QED BY <3>0, <3>1, <4>1, <4>2, <1>5, <1>6
    <3>2. CASE k # n
      <4>1. PICK i \in 1 .. m : Up(n, i) = k
        BY <3>2, <1>1
      <4>2. k = IF i < n THEN i ELSE i + 1
        BY <4>1 DEF Up
      <4>3. /\ r.item[big[k]].p_prev = IF i = n THEN new ELSE Before(at, i)
            /\ r.item[big[k]].p_next = IF i = n - 1 THEN new ELSE After(at, i)
        BY <4>1, <1>1, <1>6
      <4>4. Before(at, i) = (IF i = 1 THEN NULL ELSE at[i - 1])
            /\ After(at, i) = (IF i = m THEN NULL ELSE at[i + 1])
        BY DEF Before, After, m
      <4>5. i # 1 => at[i - 1] = IF i - 1 < n THEN big[i - 1] ELSE big[i]
        <5> SUFFICES ASSUME i # 1 PROVE at[i - 1] = IF i - 1 < n THEN big[i - 1] ELSE big[i]
          OBVIOUS
        <5>1. i - 1 \in 1 .. m /\ Up(n, i - 1) = IF i - 1 < n THEN i - 1 ELSE i
          BY <1>1 DEF Up
        <5> QED BY <5>1, <1>1
      <4>6. i # m => at[i + 1] = IF i + 1 < n THEN big[i + 1] ELSE big[i + 2]
        <5> SUFFICES ASSUME i # m PROVE at[i + 1] = IF i + 1 < n THEN big[i + 1] ELSE big[i + 2]
          OBVIOUS
        <5>1. i + 1 \in 1 .. m /\ Up(n, i + 1) = IF i + 1 < n THEN i + 1 ELSE i + 2
          BY <1>1 DEF Up
        <5> QED BY <5>1, <1>1
      <4>7. r.item[big[k]].p_prev = Before(big, k)
        <5>1. CASE i = n
          <6>1. k # 1 /\ k - 1 = n
            BY <5>1, <4>2, <1>1
          <6> QED BY <5>1, <6>1, <4>3, <3>0
        <5>2. CASE i # n
          <6>1. (k = 1 <=> i = 1) /\ (i # 1 => at[i - 1] = big[k - 1])
            BY <5>2, <4>2, <4>5, <1>1
          <6> QED BY <5>2, <6>1, <4>3, <4>4, <3>0
        <5> QED BY <5>1, <5>2
      <4>8. r.item[big[k]].p_next = After(big, k)
        <5>1. CASE i = n - 1
          <6>1. k # l /\ k + 1 = n
            BY <5>1, <4>2, <1>1
          <6> QED BY <5>1, <6>1, <4>3, <3>0
        <5>2. CASE i # n - 1
          <6>1. (k = l <=> i = m) /\ (i # m => at[i + 1] = big[k + 1])
            BY <5>2, <4>2, <4>6, <1>1
          <6> QED BY <5>2, <6>1, <4>3, <4>4, <3>0
        <5> QED BY <5>1, <5>2
      <4> QED BY <4>7, <4>8
    <3> QED BY <3>1, <3>2
  <2> QED BY <2>1 DEF Links, l
<1>10. \A i \in 1 .. m : /\ r.item[big[Up(n, i)]].priority = q.item[at[i]].priority
                         /\ q.item[at[i]].priority \in Int
                         /\ i < n <=> q.item[at[i]].priority <= p
  <2>1. ASSUME NEW i \in 1 .. m PROVE q.item[at[i]].priority \in Int
    BY <1>2, PqueueAssumption DEF Items, Priorities
  <2> QED BY <2>1, <1>1, <1>6 DEF Turn, m
<1>11. r.item[big[n]].priority = p /\ p \in Int
  BY <1>6, PqueueAssumption DEF Priorities
<1>12. Ordered(r, big)
  <2>1. ASSUME NEW j \in 1 .. l, NEW k \in 1 .. l, j <= k
        PROVE  r.item[big[j]].priority <= r.item[big[k]].priority
    <3>1. CASE j = n /\ k = n
      BY <3>1, <1>11
    <3>2. CASE j = n /\ k # n
      <4>1. PICK i \in 1 .. m : Up(n, i) = k
        BY <3>2, <1>1
      <4>2. ~(i < n)
        BY <4>1, <3>2, <2>1, <1>1 DEF Up
      <4> QED BY <4>1, <4>2, <3>2, <1>10, <1>11
    <3>3. CASE j # n /\ k = n
      <4>1. PICK i \in 1 .. m : Up(n, i) = j
        BY <3>3, <1>1
      <4>2. i < n
        BY <4>1, <3>3, <2>1, <1>1 DEF Up
      <4> QED BY <4>1, <4>2, <3>3, <1>10, <1>11
    <3>4. CASE j # n /\ k # n
      <4>1. PICK i \in 1 .. m : Up(n, i) = j
        BY <3>4, <1>1
      <4>2. PICK h \in 1 .. m : Up(n, h) = k
        BY <3>4, <1>1
      <4>3. i <= h
        BY <4>1, <4>2, <2>1, <1>1
      <4>4. q.item[at[i]].priority <= q.item[at[h]].priority
        BY <4>3 DEF Sound, Ordered, m
      <4> QED BY <4>1, <4>2, <4>4, <1>10
    <3> QED BY <3>1, <3>2, <3>3, <3>4
  <2> QED BY <2>1 DEF Ordered, l
<1>13. Shortcuts(r, big)
  <2>1. /\ q.pp_store \in [Priorities -> Pointers]
        /\ \A o \in Priorities :
             \/ q.pp_store[o] = NULL /\ NoneOf(q, at, o)
             \/ \E i \in 1 .. m : q.pp_store[o] = at[i] /\ FirstOf(q, at, o, i)
    BY DEF Sound, Shortcuts, m
  <2>2. r.pp_store \in [Priorities -> Pointers]
    BY <2>1, <1>4 DEF Pointers
  <2>3. ASSUME NEW o \in Priorities, o # p, NoneOf(q, at, o) PROVE NoneOf(r, big, o)
    <3>1. ASSUME NEW k \in 1 .. l PROVE r.item[big[k]].priority # o
      <4>1. CASE k = n
        BY <4>1, <2>3, <1>11
      <4>2. CASE k # n
        <5>1. PICK i \in 1 .. m : Up(n, i) = k
          BY <4>2, <1>1
        <5>2. q.item[at[i]].priority # o
          BY <2>3 DEF NoneOf, m
        <5> QED BY <5>1, <5>2, <1>10
      <4> QED BY <4>1, <4>2
    <3> QED BY <3>1 DEF NoneOf, l
  <2>4. ASSUME NoneOf(q, at, p) PROVE FirstOf(r, big, p, n)
    <3>1. ASSUME NEW k \in 1 .. l, r.item[big[k]].priority = p PROVE n <= k
      <4>1. k = n
        <5> SUFFICES ASSUME k # n PROVE FALSE
          OBVIOUS
        <5>1. PICK i \in 1 .. m : Up(n, i) = k
          BY <1>1
        <5>2. q.item[at[i]].priority # p
          BY <2>4 DEF NoneOf, m
        <5> QED BY <5>1, <5>2, <3>1, <1>10
      <4> QED BY <4>1, <1>1
    <3> QED BY <3>1, <1>1, <1>11 DEF FirstOf, l
  <2>5. ASSUME NEW o \in Priorities, NEW i \in 1 .. m, FirstOf(q, at, o, i)
        PROVE  FirstOf(r, big, o, Up(n, i))
    <3>1. /\ q.item[at[i]].priority = o
          /\ \A j \in 1 .. m : q.item[at[j]].priority = o => i <= j
      BY <2>5 DEF FirstOf, m
    <3>2. ASSUME NEW k \in 1 .. l, r.item[big[k]].priority = o PROVE Up(n, i) <= k
      <4>1. CASE k = n
        <5>1. o = p
          BY <4>1, <3>2, <1>11
        <5>2. i < n
          BY <5>1, <3>1, <1>10, <1>11
        <5> QED BY <5>2, <4>1, <1>1 DEF Up
      <4>2. CASE k # n
        <5>1. PICK j \in 1 .. m : Up(n, j) = k
          BY <4>2, <1>1
        <5>2. i <= j
          BY <5>1, <3>1, <3>2, <1>10
        <5> QED BY <5>1, <5>2, <1>1
      <4> QED BY <4>1, <4>2
    <3>3. Up(n, i) \in 1 .. l /\ r.item[big[Up(n, i)]].priority = o
      BY <3>1, <1>1, <1>10
    <3> QED BY <3>2, <3>3 DEF FirstOf, l
  <2>6. ASSUME NEW o \in Priorities
        PROVE  \/ r.pp_store[o] = NULL /\ NoneOf(r, big, o)
               \/ \E k \in 1 .. l : r.pp_store[o] = big[k] /\ FirstOf(r, big, o, k)
    <3>1. ASSUME q.pp_store[o] = NULL, NoneOf(q, at, o), o # p
          PROVE  r.pp_store[o] = NULL /\ NoneOf(r, big, o)
      BY <3>1, <2>1, <2>3, <1>4
    <3>2. ASSUME q.pp_store[o] = NULL, NoneOf(q, at, o), o = p
          PROVE  r.pp_store[o] = big[n] /\ FirstOf(r, big, o, n)
      BY <3>2, <2>1, <2>4, <1>4
    <3>3. ASSUME NEW i \in 1 .. m, q.pp_store[o] = at[i], FirstOf(q, at, o, i)
          PROVE  r.pp_store[o] = big[Up(n, i)] /\ FirstOf(r, big, o, Up(n, i))
      <4>1. q.pp_store[o] # NULL
        BY <3>3, <1>2
      <4>2. r.pp_store[o] = at[i]
        BY <4>1, <3>3, <2>1, <1>4
      <4> QED BY <4>2, <3>3, <2>5, <1>1
    <3> QED BY <3>1, <3>2, <3>3, <2>1, <1>1
  <2> QED BY <2>2, <2>6 DEF Shortcuts, l
<1> QED BY <1>7, <1>8, <1>9, <1>12, <1>13 DEF Sound, r, cur

-----------------------------------------------------------------------------
(* The operations keep the list sound *)

\* The message and the priority of the elements of s stay.
Same(q, r, s) ==
    \A i \in 1 .. Len(s) : /\ q.item[s[i]] # NULL /\ r.item[s[i]] # NULL
                           /\ r.item[s[i]].p_data = q.item[s[i]].p_data
                           /\ r.item[s[i]].priority = q.item[s[i]].priority

\* The list at is a, its n-th element and b.
Around(at, n, a, b) == at = Spliced(a, at[n], b) /\ Len(a) = n - 1

\* The rest of the list is sound when one item has left it, and as it was.
LEMMA OneLeaves ==
    ASSUME NEW q, NEW at, Sound(q, at), NEW n \in 1 .. Len(at),
           NEW a \in Seq(Addresses), NEW b \in Seq(Addresses),
           Around(at, n, a, b)
    PROVE  /\ Only(at, Addresses \ {at[n]}) = a \o b
           /\ Sound(Unlink(q, at[n]), a \o b)
           /\ Same(q, Unlink(q, at[n]), a \o b)
<1> DEFINE x == at[n]
           s == a \o b
           r == Unlink(q, x)
           T == Addresses \ {x}
<1>1. /\ Len(at) \in Nat /\ n \in Nat /\ x \in Addresses
      /\ \A i, j \in 1 .. Len(at) : at[i] = at[j] => i = j
      /\ \A i \in 1 .. Len(at) : at[i] \in Addresses /\ q.item[at[i]] \in Items
      /\ NULL \notin Items
  BY PqueueAssumption DEF Sound, Listed
<1>y. PICK y \in Addresses : y = at[n]
  BY <1>1
<1>2. at = Spliced(a, y, b) /\ Len(a) = n - 1
  BY <1>y DEF Around
<1>3. /\ s \in Seq(Addresses) /\ Len(a) \in Nat /\ Len(b) \in Nat
      /\ Len(Spliced(a, y, b)) = Len(a) + 1 + Len(b)
      /\ \A i \in 1 .. Len(a) : Spliced(a, y, b)[i] = a[i]
      /\ \A i \in 1 .. Len(b) : Spliced(a, y, b)[Len(a) + 1 + i] = b[i]
      /\ OneMore(s, Spliced(a, y, b), Len(a) + 1)
  <2> HIDE DEF x, r, T
  <2>1. /\ Spliced(a, y, b) \in Seq(Addresses) /\ a \o b \in Seq(Addresses)
        /\ Len(a) \in Nat /\ Len(b) \in Nat
        /\ Len(Spliced(a, y, b)) = Len(a) + 1 + Len(b)
        /\ Spliced(a, y, b)[Len(a) + 1] = y
        /\ \A i \in 1 .. Len(a) : Spliced(a, y, b)[i] = a[i]
        /\ \A i \in 1 .. Len(b) : Spliced(a, y, b)[Len(a) + 1 + i] = b[i]
        /\ OneMore(a \o b, Spliced(a, y, b), Len(a) + 1)
    BY SplicedAt
  <2> QED BY <2>1
<1>4. Len(a) + 1 = n
  BY <1>1, <1>2
<1>5. OneMore(s, at, n)
  BY <1>2, <1>3, <1>4
<1> HIDE DEF s
<1>6. Sound(r, s)
  BY <1>3, <1>5, UnlinkSound
<1>7. \A i \in 1 .. Len(a) : a[i] \in T
  <2> TAKE i \in 1 .. Len(a)
  <2>1. i \in 1 .. Len(at) /\ i # n /\ at[i] = a[i]
    BY <1>1, <1>2, <1>3, <1>4
  <2> QED BY <2>1, <1>1
<1>8. \A i \in 1 .. Len(b) : b[i] \in T
  <2> TAKE i \in 1 .. Len(b)
  <2> DEFINE k == Len(a) + 1 + i
  <2>1. k \in 1 .. Len(at) /\ k # n
    BY <1>1, <1>2, <1>3, <1>4
  <2>2. at[k] = b[i]
    BY <1>2, <1>3
  <2> HIDE DEF k
  <2> QED BY <2>1, <2>2, <1>1
<1>9. Only(at, T) = s
  <2>1. Only(a, T) = a /\ Only(b, T) = b
    BY <1>7, <1>8, OnlyAll
  <2>2. y \notin T
    BY <1>y
  <2> HIDE DEF T
  <2>3. Only(Spliced(a, y, b), T) = Only(a, T) \o Only(b, T)
    BY <2>2, SplicedOnly
  <2> QED BY <1>2, <2>1, <2>3 DEF s
<1>10. Relinked(q, r, at, n)
  BY UnlinkRelinks
<1> HIDE DEF r, x
<1>11. Same(q, r, s)
  <2>1. ASSUME NEW i \in 1 .. Len(s)
        PROVE  /\ q.item[s[i]] # NULL /\ r.item[s[i]] # NULL
               /\ r.item[s[i]].p_data = q.item[s[i]].p_data
               /\ r.item[s[i]].priority = q.item[s[i]].priority
    <3>1. PICK k \in 1 .. Len(at) : k # n /\ s[i] = at[k]
      <4>1. CASE i < n
        <5>1. i \in 1 .. Len(at) /\ i # n /\ s[i] = at[i]
          BY <4>1, <1>1, <1>5 DEF OneMore
        <5> QED BY <5>1
      <4>2. CASE ~(i < n)
        <5>1. i + 1 \in 1 .. Len(at) /\ i + 1 # n /\ s[i] = at[i + 1]
          BY <4>2, <1>1, <1>5 DEF OneMore
        <5> QED BY <5>1
      <4> QED BY <4>1, <4>2
    <3> QED BY <3>1, <1>1, <1>10 DEF Relinked
  <2> QED BY <2>1 DEF Same
<1> QED BY <1>6, <1>9, <1>11 DEF r, s, x

\* Sending puts the item between those it may not overtake and those it may.
LEMMA SendSound ==
    ASSUME NEW at, Sound(Current, at), NEW d \in Data, NEW p \in Priorities, Send(d, p)
    PROVE  \E new \in Addresses, a, b \in Seq(Addresses) :
             /\ at = a \o b /\ item[new] = NULL
             /\ Turn(Current, at, p, Len(a) + 1)
             /\ Current' = Hooked(Current, new, d, p, There(at, Len(a) + 1))
             /\ Sound(Current', Spliced(a, new, b))
<1>1. PICK n : Turn(Current, at, p, n) /\ NextUp(p) = There(at, n)
  BY NextUpIsTurn
<1>2. PICK new \in Addresses :
        item[new] = NULL /\ Current' = Hooked(Current, new, d, p, There(at, n))
  BY <1>1, SendHooks
<1>3. at \in Seq(Addresses) /\ Len(at) \in Nat /\ n \in 1 .. Len(at) + 1
  BY <1>1 DEF Sound, Listed, Turn
<1>4. n - 1 \in 0 .. Len(at)
  BY <1>3
<1>5. PICK a \in Seq(Addresses), b \in Seq(Addresses) : at = a \o b /\ Len(a) = n - 1
  BY <1>3, <1>4, Apart
<1>6. Len(a) + 1 = n
  BY <1>3, <1>5
<1>7. /\ Spliced(a, new, b) \in Seq(Addresses)
      /\ Spliced(a, new, b)[n] = new
      /\ OneMore(at, Spliced(a, new, b), n)
  <2>1. /\ Spliced(a, new, b) \in Seq(Addresses)
        /\ Spliced(a, new, b)[Len(a) + 1] = new
        /\ OneMore(a \o b, Spliced(a, new, b), Len(a) + 1)
    BY SplicedAt
  <2> QED BY <2>1, <1>5, <1>6
<1>8. Sound(Hooked(Current, new, d, p, There(at, n)), Spliced(a, new, b))
  <2>1. Current.item[new] = NULL
    BY <1>2 DEF Current
  <2> QED BY <1>1, <1>7, <2>1, HookSound
<1> QED BY <1>1, <1>2, <1>5, <1>6, <1>8

\* The walk along p_next finds the list.
Walk(q) ==
    LET nth[k \in 1 .. q.length] == IF k = 1 THEN q.p_first ELSE q.item[nth[k - 1]].p_next
    IN  nth

\* w is that walk.
IsWalk(w, q) ==
    w = [k \in 1 .. q.length |-> IF k = 1 THEN q.p_first ELSE q.item[w[k - 1]].p_next]

\* Following p_next from p_first visits the list.
LEMMA WalkIsList ==
    ASSUME NEW q, NEW at, Sound(q, at)
    PROVE  Walk(q) = at
<1> DEFINE l == Len(at)
<1>1. /\ l \in Nat /\ q.length = l /\ at \in Seq(Addresses)
      /\ q.p_first = (IF l = 0 THEN NULL ELSE at[1])
      /\ \A i \in 1 .. l : q.item[at[i]].p_next = After(at, i)
  BY DEF Sound, Listed, Ends, Links
<1>2. ASSUME NEW k \in 1 .. l
      PROVE  at[k] = IF k = 1 THEN q.p_first ELSE q.item[at[k - 1]].p_next
  <2>1. CASE k = 1
    <3>1. l # 0
      BY <1>1
    <3> QED BY <2>1, <3>1, <1>1
  <2>2. CASE k # 1
    <3>1. k - 1 \in 1 .. l /\ k - 1 # l /\ (k - 1) + 1 = k
      BY <2>2, <1>1
    <3>2. After(at, k - 1) = at[k]
      BY <3>1 DEF After
    <3> QED BY <2>2, <3>1, <3>2, <1>1
  <2> QED BY <2>1, <2>2
<1>3. IsWalk(at, q)
  <2>1. at = [k \in 1 .. l |-> at[k]]
    BY <1>1, LenProperties
  <2> HIDE DEF l
  <2> QED BY <1>1, <1>2, <2>1 DEF IsWalk
<1>4. ASSUME NEW w, IsWalk(w, q) PROVE w = at
  <2> DEFINE G == {n \in Nat : n \in 1 .. l => w[n] = at[n]}
  <2>0. \A k \in 1 .. l : w[k] = IF k = 1 THEN q.p_first ELSE q.item[w[k - 1]].p_next
    BY <1>1, <1>4 DEF IsWalk
  <2>1. 0 \in G
    OBVIOUS
  <2>2. ASSUME NEW n \in Nat, n \in G PROVE n + 1 \in G
    <3> SUFFICES ASSUME n + 1 \in 1 .. l PROVE w[n + 1] = at[n + 1]
      OBVIOUS
    <3> DEFINE k == n + 1
    <3>1. k \in 1 .. l /\ k - 1 = n
      OBVIOUS
    <3> HIDE DEF k
    <3>2. k # 1 => w[n] = at[n]
      <4>1. k # 1 => n \in 1 .. l
        BY <3>1, <1>1
      <4> QED BY <4>1, <2>2
    <3>3. w[k] = at[k]
      BY <3>1, <3>2, <2>0, <1>2
    <3> QED BY <3>3 DEF k
  <2> HIDE DEF G
  <2>3. Nat \subseteq G
    BY <2>1, <2>2, NatSets
  <2>4. \A k \in 1 .. l : w[k] = at[k]
    BY <2>3 DEF G
  <2>5. w = [k \in 1 .. l |-> w[k]]
    BY <1>1, <1>4 DEF IsWalk
  <2>6. at = [k \in 1 .. l |-> at[k]]
    BY <1>1, LenProperties
  <2> QED BY <2>4, <2>5, <2>6
<1>5. Walk(q) = CHOOSE w : IsWalk(w, q)
  BY DEF Walk, IsWalk
<1> QED BY <1>3, <1>4, <1>5

\* The queue after each of the items that RemoveFunc takes out.
IsLeft(f, gone, q, n) ==
    f = [k \in 0 .. n |-> IF k = 0 THEN q ELSE Unlink(f[k - 1], gone[k])]

\* There is such a function, by induction on n.
LEMMA LeftExists ==
    ASSUME NEW gone, NEW q, NEW n \in Nat
    PROVE  \E f : IsLeft(f, gone, q, n)
<1> DEFINE G == {k \in Nat : \E f : IsLeft(f, gone, q, k)}
<1>1. 0 \in G
  <2>1. IsLeft([k \in 0 .. 0 |-> q], gone, q, 0)
    BY DEF IsLeft
  <2> QED BY <2>1
<1>2. ASSUME NEW k \in Nat, k \in G PROVE k + 1 \in G
  <2>1. PICK f : IsLeft(f, gone, q, k)
    BY <1>2
  <2> DEFINE g == [i \in 0 .. k + 1 |-> IF i = k + 1 THEN Unlink(f[k], gone[k + 1]) ELSE f[i]]
  <2>2. ASSUME NEW i \in 0 .. k + 1
        PROVE  g[i] = IF i = 0 THEN q ELSE Unlink(g[i - 1], gone[i])
    <3>1. CASE i = k + 1
      <4>1. g[i] = Unlink(f[k], gone[i]) /\ i # 0 /\ i - 1 = k /\ g[k] = f[k]
        BY <3>1
      <4> QED BY <4>1
    <3>2. CASE i # k + 1
      <4>1. i \in 0 .. k /\ g[i] = f[i] /\ (i # 0 => i - 1 \in 0 .. k /\ g[i - 1] = f[i - 1])
        BY <3>2
      <4>2. f[i] = IF i = 0 THEN q ELSE Unlink(f[i - 1], gone[i])
        BY <2>1, <4>1 DEF IsLeft
      <4> QED BY <4>1, <4>2
    <3> QED BY <3>1, <3>2
  <2>3. g = [i \in 0 .. k + 1 |-> g[i]]
    OBVIOUS
  <2> HIDE DEF g
  <2>4. IsLeft(g, gone, q, k + 1)
    BY <2>2, <2>3 DEF IsLeft
  <2> QED BY <2>4
<1> HIDE DEF G
<1>3. n \in G
  BY <1>1, <1>2, NatSets
<1> QED BY <1>3 DEF G

\* q has the fields of a queue and no more.
IsQueue(q) ==
    q = [p_first |-> q.p_first, p_last |-> q.p_last, pp_store |-> q.pp_store,
         length |-> q.length, item |-> q.item]

\* What Current and Unlink make are records with the fields of a queue.
LEMMA QueuesAreQueues ==
    ASSUME NEW q, NEW a
    PROVE  IsQueue(Current) /\ IsQueue(Unlink(q, a))
<1>1. IsQueue(Current)
  BY DEF IsQueue, Current
<1>2. IsQueue(Unlink(q, a))
  BY DEF IsQueue, Unlink
<1> QED BY <1>1, <1>2

\* After Become the queue is the given record.
LEMMA BecomesIt ==
    ASSUME NEW q, IsQueue(q), Become(q)
    PROVE  Current' = q
BY DEF IsQueue, Become, Current

\* Any place of a list has two sides.
LEMMA TwoSides ==
    ASSUME NEW at \in Seq(Addresses), NEW n \in 1 .. Len(at)
    PROVE  \E a, b \in Seq(Addresses) : Around(at, n, a, b)
BY Split DEF Around

\* What is left of the list when the first n of those to go have gone.
Rest(at, gone, n) == Only(at, Addresses \ {gone[j] : j \in 1 .. n})

\* Every one of them can be unlinked in turn, and the rest stays as it was.
LEMMA LeftSound ==
    ASSUME NEW q, NEW at, Sound(q, at), NEW gone \in Seq(Addresses),
           \A i \in 1 .. Len(gone) : \E k \in 1 .. Len(at) : at[k] = gone[i],
           \A i, j \in 1 .. Len(gone) : gone[i] = gone[j] => i = j,
           NEW f, IsLeft(f, gone, q, Len(gone))
    PROVE  /\ Sound(f[Len(gone)], Rest(at, gone, Len(gone)))
           /\ Same(q, f[Len(gone)], Rest(at, gone, Len(gone)))
<1> DEFINE l == Len(gone)
           OK(n) == Sound(f[n], Rest(at, gone, n)) /\ Same(q, f[n], Rest(at, gone, n))
           G == {n \in Nat : n <= l => OK(n)}
<1>0. /\ l \in Nat /\ at \in Seq(Addresses) /\ Len(at) \in Nat
      /\ \A i \in 1 .. Len(at) : at[i] \in Addresses /\ q.item[at[i]] \in Items
      /\ NULL \notin Items
  BY LenProperties, PqueueAssumption DEF Sound, Listed
<1>1. 0 \in G
  <2>1. f[0] = q
    <3>1. 0 \in 0 .. l
      BY <1>0
    <3> QED BY <3>1 DEF IsLeft
  <2>2. Rest(at, gone, 0) = at
    <3>1. Addresses \ {gone[j] : j \in 1 .. 0} = Addresses
      OBVIOUS
    <3>2. Only(at, Addresses) = at
      BY <1>0, OnlyAll
    <3> QED BY <3>1, <3>2 DEF Rest
  <2>3. Same(q, q, at)
    BY <1>0 DEF Same
  <2> QED BY <2>1, <2>2, <2>3
<1>2. ASSUME NEW n \in Nat, n \in G PROVE n + 1 \in G
  <2> SUFFICES ASSUME n + 1 <= l PROVE OK(n + 1)
    OBVIOUS
  <2>1. n <= l /\ n + 1 \in 1 .. l /\ n + 1 \in 0 .. l /\ n + 1 # 0 /\ (n + 1) - 1 = n
    BY <1>0
  <2>2. PICK m : m = n + 1
    OBVIOUS
  <2>3. PICK x \in Addresses : x = gone[m]
    BY <2>1, <2>2, ElementOfSeq
  <2>4. f[m] = Unlink(f[n], x)
    <3>1. m \in 0 .. l /\ m # 0 /\ m - 1 = n
      BY <2>1, <2>2
    <3> QED BY <3>1, <2>3 DEF IsLeft
  <2>5. PICK g : g = f[n]
    OBVIOUS
  <2>6. PICK s : s = Rest(at, gone, n)
    OBVIOUS
  <2>7. Sound(g, s) /\ Same(q, g, s)
    BY <1>2, <2>1, <2>5, <2>6
  <2>8. PICK T : T = Addresses \ {gone[j] : j \in 1 .. n}
    OBVIOUS
  <2>9. s = Only(at, T) /\ s \in Seq(Addresses) /\ Len(s) \in Nat
    BY <2>6, <2>7, <2>8 DEF Rest, Sound, Listed
  <2>10. x \in T
    <3>1. ASSUME NEW j \in 1 .. n PROVE gone[j] # x
      <4>1. j \in 1 .. l /\ m \in 1 .. l /\ j # m
        BY <2>1, <2>2, <1>0
      <4> QED BY <4>1, <2>3
    <3> QED BY <3>1, <2>8
  <2>11. PICK k \in 1 .. Len(s) : s[k] = x
    <3>1. PICK w : Picks(s, at, KeptAt(at, T, Len(at)), w)
      BY <1>0, <2>9, OnlyPicks
    <3>2. PICK h \in 1 .. Len(at) : at[h] = x
      BY <2>1, <2>2, <2>3
    <3>3. h \in KeptAt(at, T, Len(at))
      BY <3>2, <2>10 DEF KeptAt
    <3>4. PICK i \in 1 .. Len(s) : w[i] = h
      BY <3>1, <3>3 DEF Picks
    <3>5. s[i] = at[w[i]]
      BY <3>1 DEF Picks
    <3> QED BY <3>2, <3>4, <3>5
  <2>12. PICK a \in Seq(Addresses), b \in Seq(Addresses) : Around(s, k, a, b)
    BY <2>9, TwoSides
  <2>13. PICK r : r = Unlink(g, x)
    OBVIOUS
  <2>14. /\ Only(s, Addresses \ {x}) = a \o b
         /\ Sound(r, a \o b)
         /\ Same(g, r, a \o b)
    <3>1. /\ Only(s, Addresses \ {s[k]}) = a \o b
          /\ Sound(Unlink(g, s[k]), a \o b)
          /\ Same(g, Unlink(g, s[k]), a \o b)
      BY <2>7, <2>12, OneLeaves
    <3> QED BY <3>1, <2>11, <2>13
  <2>15. Rest(at, gone, m) = a \o b
    <3>1. PICK U : U = Addresses \ {x}
      OBVIOUS
    <3>2. Only(Only(at, T), U) = Only(at, T \cap U)
      BY <1>0, OnlyOnly
    <3>3. T \cap U = Addresses \ {gone[j] : j \in 1 .. m}
      <4>1. \A j : j \in 1 .. m <=> j \in 1 .. n \/ j = m
        BY <2>1, <2>2
      <4>2. {gone[j] : j \in 1 .. m} = {gone[j] : j \in 1 .. n} \cup {gone[m]}
        <5>1. \A j \in 1 .. m : j \in 1 .. n \/ j = m
          BY <4>1
        <5>2. m \in 1 .. m /\ \A j \in 1 .. n : j \in 1 .. m
          BY <4>1
        <5>3. \A y \in {gone[j] : j \in 1 .. m} : y \in {gone[j] : j \in 1 .. n} \cup {gone[m]}
          BY <5>1
        <5>4. \A y \in {gone[j] : j \in 1 .. n} \cup {gone[m]} : y \in {gone[j] : j \in 1 .. m}
          BY <5>2
        <5> QED BY <5>3, <5>4
      <4> QED BY <4>2, <2>3, <2>8, <3>1
    <3> QED BY <2>9, <2>14, <3>1, <3>2, <3>3 DEF Rest
  <2>16. Same(q, r, a \o b)
    <3>1. PICK v : v = a \o b
      OBVIOUS
    <3>2. \A i \in 1 .. Len(v) : \E j \in 1 .. Len(s) : v[i] = s[j]
      <4>1. v = Only(s, Addresses \ {x})
        BY <2>14, <3>1
      <4>2. PICK U : U = Addresses \ {x}
        OBVIOUS
      <4>3. PICK w : Picks(v, s, KeptAt(s, U, Len(s)), w)
        BY <4>1, <4>2, <2>9, OnlyPicks
      <4> QED BY <4>3 DEF Picks, KeptAt
    <3>3. Same(g, r, v)
      BY <2>14, <3>1
    <3>4. Same(q, r, v)
      <4>1. ASSUME NEW i \in 1 .. Len(v)
            PROVE  /\ q.item[v[i]] # NULL /\ r.item[v[i]] # NULL
                   /\ r.item[v[i]].p_data = q.item[v[i]].p_data
                   /\ r.item[v[i]].priority = q.item[v[i]].priority
        <5>1. PICK j \in 1 .. Len(s) : v[i] = s[j]
          BY <3>2
        <5>2. /\ q.item[s[j]] # NULL
              /\ g.item[s[j]].p_data = q.item[s[j]].p_data
              /\ g.item[s[j]].priority = q.item[s[j]].priority
          BY <2>7 DEF Same
        <5>3. /\ r.item[v[i]] # NULL
              /\ r.item[v[i]].p_data = g.item[v[i]].p_data
              /\ r.item[v[i]].priority = g.item[v[i]].priority
          BY <3>3 DEF Same
        <5> QED BY <5>1, <5>2, <5>3
      <4> QED BY <4>1 DEF Same
    <3> QED BY <3>1, <3>4
  <2> QED BY <2>2, <2>4, <2>5, <2>13, <2>14, <2>15, <2>16
<1> HIDE DEF G
<1>3. l \in G
  BY <1>0, <1>1, <1>2, NatSets
<1> QED BY <1>0, <1>3 DEF G

\* The items that RemoveFunc takes out.
Chosen(D) == {a \in Addresses \ Free : item[a].p_data \in D}

\* All of them leave, and nothing else changes.
LEMMA RemoveSound ==
    ASSUME NEW at, Sound(Current, at), NEW D, RemoveFunc(D)
    PROVE  /\ Sound(Current', Only(at, Addresses \ Chosen(D)))
           /\ Same(Current, Current', Only(at, Addresses \ Chosen(D)))
<1> DEFINE gone == Only(Linked, Chosen(D))
           T == Chosen(D)
<1>0. /\ at \in Seq(Addresses) /\ Len(at) \in Nat
      /\ \A i, j \in 1 .. Len(at) : at[i] = at[j] => i = j
  BY DEF Sound, Listed
<1>1. Linked = at
  <2>1. Linked = Walk(Current)
    BY DEF Linked, Walk, Current
  <2> QED BY <2>1, WalkIsList
<1>2. PICK go : go = Only(at, T)
  OBVIOUS
<1> HIDE DEF T
<1>3. PICK w : Picks(go, at, KeptAt(at, T, Len(at)), w)
  BY <1>0, <1>2, OnlyPicks
<1>4. go \in Seq(Addresses) /\ Len(go) \in Nat
  BY <1>0, <1>2, OnlyPicks, LenProperties
<1>5. /\ \A i \in 1 .. Len(go) : \E k \in 1 .. Len(at) : at[k] = go[i]
      /\ \A i \in 1 .. Len(go) : go[i] \in T
      /\ \A i, j \in 1 .. Len(go) : go[i] = go[j] => i = j
  <2>1. \A i \in 1 .. Len(go) : w[i] \in 1 .. Len(at) /\ go[i] = at[w[i]] /\ at[w[i]] \in T
    BY <1>3 DEF Picks, KeptAt
  <2>2. ASSUME NEW i \in 1 .. Len(go), NEW j \in 1 .. Len(go), go[i] = go[j] PROVE i = j
    <3>1. w[i] = w[j] /\ w[i] \in 1 .. Len(at) /\ w[j] \in 1 .. Len(at)
      BY <2>1, <2>2, <1>0
    <3>2. ~(w[i] < w[j]) /\ ~(w[j] < w[i])
      BY <3>1, <1>0
    <3>3. ~(i < j) /\ ~(j < i)
      BY <3>2, <1>3 DEF Picks
    <3> QED BY <3>3, <1>4
  <2> QED BY <2>1, <2>2
<1>6. PICK f : IsLeft(f, go, Current, Len(go)) /\ Become(f[Len(go)])
  <2>1. RemoveFunc(D) =>
          Become((CHOOSE f : IsLeft(f, go, Current, Len(go)))[Len(go)])
    <3>1. Only(Linked, {a \in Addresses \ Free : item[a].p_data \in D}) = go
      BY <1>1, <1>2 DEF T, Chosen
    <3> QED BY <3>1 DEF RemoveFunc, IsLeft
  <2>2. \E f : IsLeft(f, go, Current, Len(go))
    BY <1>4, LeftExists
  <2> QED BY <2>1, <2>2
<1>7. /\ Sound(f[Len(go)], Rest(at, go, Len(go)))
      /\ Same(Current, f[Len(go)], Rest(at, go, Len(go)))
  BY <1>4, <1>5, <1>6, LeftSound
<1>8. Rest(at, go, Len(go)) = Only(at, Addresses \ T)
  <2>1. PICK U : U = Addresses \ {go[j] : j \in 1 .. Len(go)}
    OBVIOUS
  <2>2. PICK V : V = Addresses \ T
    OBVIOUS
  <2>3. ASSUME NEW i \in 1 .. Len(at) PROVE at[i] \in U <=> at[i] \in V
    <3>1. at[i] \in Addresses
      BY <1>0, ElementOfSeq
    <3>2. at[i] \in T => \E j \in 1 .. Len(go) : go[j] = at[i]
      <4> SUFFICES ASSUME at[i] \in T PROVE \E j \in 1 .. Len(go) : go[j] = at[i]
        OBVIOUS
      <4>1. i \in KeptAt(at, T, Len(at))
        BY DEF KeptAt
      <4> QED BY <4>1, <1>3 DEF Picks
    <3>3. \A j \in 1 .. Len(go) : go[j] \in T
      BY <1>5
    <3> QED BY <3>1, <3>2, <3>3, <2>1, <2>2
  <2>4. Only(at, U) = Only(at, V)
    BY <1>0, <2>3, OnlySame
  <2> QED BY <2>1, <2>2, <2>4 DEF Rest
<1>9. Sound(f[Len(go)], Only(at, Addresses \ T)) /\ Same(Current, f[Len(go)], Only(at, Addresses \ T))
  BY <1>7, <1>8
<1>10. IsQueue(f[Len(go)])
  <2> DEFINE l == Len(go)
  <2>1. l \in 0 .. l
    BY <1>4
  <2>2. f[l] = IF l = 0 THEN Current ELSE Unlink(f[l - 1], go[l])
    BY <2>1, <1>6 DEF IsLeft
  <2> HIDE DEF l
  <2>3. IsQueue(Current) /\ IsQueue(Unlink(f[l - 1], go[l]))
    BY QueuesAreQueues
  <2> QED BY <2>2, <2>3 DEF l
<1>11. Current' = f[Len(go)]
  BY <1>6, <1>10, BecomesIt
<1> QED BY <1>9, <1>11 DEF T

-----------------------------------------------------------------------------
(* The list is sound *)

\* One item leaves: the first of all that are given.
LEMMA ItemLeaves ==
    ASSUME NEW at, Sound(Current, at), NEW n \in 1 .. Len(at), Become(Unlink(Current, at[n]))
    PROVE  \E a, b \in Seq(Addresses) :
             /\ Around(at, n, a, b)
             /\ Sound(Current', a \o b)
             /\ Same(Current, Current', a \o b)
<1>1. at \in Seq(Addresses)
  BY DEF Sound, Listed
<1>2. PICK a \in Seq(Addresses), b \in Seq(Addresses) : Around(at, n, a, b)
  BY <1>1, TwoSides
<1>3. Current' = Unlink(Current, at[n])
  BY QueuesAreQueues, BecomesIt
<1>4. Sound(Unlink(Current, at[n]), a \o b) /\ Same(Current, Unlink(Current, at[n]), a \o b)
  BY <1>2, OneLeaves
<1> QED BY <1>2, <1>3, <1>4

\* Linked is the list.
LEMMA LinkedIsList ==
    ASSUME NEW at, Sound(Current, at)
    PROVE  Linked = at
<1>1. Linked = Walk(Current)
  BY DEF Linked, Walk, Current
<1> QED BY <1>1, WalkIsList

\* The first of the places with these messages is the one that TakeFirst unlinks.
LEMMA FirstTaken ==
    ASSUME NEW at, Sound(Current, at), NEW places \in SUBSET (1 .. Len(at)), NEW d,
           TakeFirst(places, d)
    PROVE  \E n \in places : /\ n \in 1 .. Len(at)
                             /\ item[at[n]].p_data = d
                             /\ \A k \in places : k < n => item[at[k]].p_data # d
                             /\ Become(Unlink(Current, at[n]))
                             /\ received' = received
<1> DEFINE found == {k \in places : item[Linked[k]].p_data = d}
<1>1. /\ found # {}
      /\ Become(Unlink(Current, Linked[CHOOSE k \in found : \A j \in found : k <= j]))
      /\ received' = received
  BY DEF TakeFirst
<1>2. Linked = at /\ Len(at) \in Nat
  BY LinkedIsList DEF Sound, Listed
<1>3. found \in SUBSET Nat /\ \A k \in found : k \in Nat /\ k \in places
  <2>1. \A k \in places : k \in 1 .. Len(at)
    OBVIOUS
  <2>2. \A k \in places : k \in Nat
    BY <2>1, <1>2
  <2> QED BY <2>2
<1>4. PICK n \in found : \A j \in found : n <= j
  BY <1>1, <1>3, LeastNumber
<1>5. (CHOOSE k \in found : \A j \in found : k <= j) = n
  <2>1. \A k \in found : (\A j \in found : k <= j) => k = n
    BY <1>3, <1>4
  <2> HIDE DEF found
  <2> QED BY <1>4, <2>1
<1>6. \A k \in places : k < n => item[at[k]].p_data # d
  <2> SUFFICES ASSUME NEW k \in places, k < n, item[at[k]].p_data = d PROVE FALSE
    OBVIOUS
  <2>1. k \in found /\ k \in Nat /\ n \in Nat
    BY <1>2, <1>3
  <2> QED BY <2>1, <1>4
<1> QED BY <1>1, <1>2, <1>4, <1>5, <1>6

\* A queue that has just been created is sound.
LEMMA InitSound == Init => Sound(Current, <<>>)
<1> SUFFICES ASSUME Init PROVE Sound(Current, <<>>)
  OBVIOUS
<1>1. /\ Current.p_first = NULL /\ Current.p_last = NULL /\ Current.length = 0
      /\ Current.pp_store = [p \in Priorities |-> NULL]
      /\ Current.item = [a \in Addresses |-> NULL]
  BY DEF Init, Current
<1>2. <<>> \in Seq(Addresses) /\ Len(<<>>) = 0
  BY EmptySeq
<1> DEFINE at == <<>>
<1>3. at \in Seq(Addresses) /\ Len(at) = 0
  BY <1>2
<1> HIDE DEF at
<1>4. Listed(Current, at)
  BY <1>1, <1>3 DEF Listed
<1>5. Ends(Current, at) /\ Links(Current, at) /\ Ordered(Current, at)
  BY <1>1, <1>3 DEF Ends, Links, Ordered
<1>6. Shortcuts(Current, at)
  BY <1>1, <1>3 DEF Shortcuts, NoneOf, Pointers
<1> QED BY <1>4, <1>5, <1>6 DEF Sound, at

\* Every operation keeps it sound.
LEMMA NextSound == Inv /\ [Next]_vars => Inv'
<1> SUFFICES ASSUME Inv, [Next]_vars PROVE \E at : Sound(Current', at)
  BY DEF Inv
<1>1. PICK at : Sound(Current, at)
  BY DEF Inv
<1>2. at \in Seq(Addresses) /\ Len(at) \in Nat /\ length = Len(at)
  BY <1>1 DEF Sound, Listed, Current
<1>3. ASSUME NEW n \in 1 .. Len(at), Become(Unlink(Current, at[n]))
      PROVE  \E u : Sound(Current', u)
  BY <1>1, <1>3, ItemLeaves
<1>4. ASSUME NEW places \in SUBSET (1 .. Len(at)), NEW d, TakeFirst(places, d)
      PROVE  \E u : Sound(Current', u)
  <2>1. PICK n \in 1 .. Len(at) : Become(Unlink(Current, at[n]))
    BY <1>1, <1>4, FirstTaken
  <2> QED BY <2>1, <1>3
<1>5. ASSUME NEW d \in Data, NEW p \in Priorities, Send(d, p) PROVE \E u : Sound(Current', u)
  BY <1>1, <1>5, SendSound
<1>6. ASSUME NEW d \in Data, NEW p \in Priorities, Removep(d, p) PROVE \E u : Sound(Current', u)
  <2>1. PICK places : places = {k \in 1 .. length : item[Linked[k]].priority = p}
    OBVIOUS
  <2>2. TakeFirst(places, d) /\ places \in SUBSET (1 .. Len(at))
    BY <1>2, <1>6, <2>1 DEF Removep
  <2> QED BY <2>2, <1>4
<1>7. ASSUME NEW d \in Data, RemoveData(d) PROVE \E u : Sound(Current', u)
  <2>1. TakeFirst(1 .. Len(at), d)
    BY <1>2, <1>7 DEF RemoveData
  <2>2. PICK places : places = 1 .. Len(at)
    OBVIOUS
  <2> QED BY <2>1, <2>2, <1>4
<1>8. ASSUME NEW D \in SUBSET Data, RemoveFunc(D) PROVE \E u : Sound(Current', u)
  BY <1>1, <1>8, RemoveSound
<1>9. ASSUME Receive PROVE \E u : Sound(Current', u)
  <2>1. 1 \in 1 .. Len(at) /\ p_first = at[1]
    BY <1>1, <1>2, <1>9 DEF Receive, Sound, Ends, Current
  <2> QED BY <2>1, <1>3, <1>9 DEF Receive
<1>10. ASSUME ReceiveNothing \/ UNCHANGED vars PROVE \E u : Sound(Current', u)
  <2>1. Current' = Current
    BY <1>10 DEF ReceiveNothing, vars, queue, Current
  <2> QED BY <2>1, <1>1
<1> QED BY <1>5, <1>6, <1>7, <1>8, <1>9, <1>10 DEF Next

\* The inductive invariant holds.
LEMMA InvHolds == Spec => []Inv
<1>1. Init => Inv
  BY InitSound DEF Inv
<1> QED BY <1>1, NextSound, PTL DEF Spec

\* What ListIsSound says of the list that is walked.
SoundWalk(at) ==
    LET Of(p) == {k \in 1 .. length : item[at[k]].priority = p}
    IN  /\ {at[k] : k \in 1 .. length} = Addresses \ Free
        /\ IsInjective(at)
        /\ p_first = (IF length = 0 THEN NULL ELSE at[1])
        /\ p_last = (IF length = 0 THEN NULL ELSE at[length])
        /\ \A k \in 1 .. length :
             /\ item[at[k]].p_prev = (IF k = 1 THEN NULL ELSE at[k - 1])
             /\ item[at[k]].p_next = (IF k = length THEN NULL ELSE at[k + 1])
        /\ \A k \in 1 .. length - 1 : item[at[k]].priority <= item[at[k + 1]].priority
        /\ \A p \in Priorities :
             pp_store[p] = IF Of(p) = {} THEN NULL
                           ELSE at[CHOOSE k \in Of(p) : \A j \in Of(p) : k <= j]

\* What a walk of the list finds is what the invariant says of it.
LEMMA SoundIsListSound == Inv => ListIsSound
<1> SUFFICES ASSUME NEW at, Sound(Current, at) PROVE ListIsSound
  BY DEF Inv
<1> DEFINE l == Len(at)
           Of(p) == {k \in 1 .. length : item[at[k]].priority = p}
<1>1. Linked = at
  BY LinkedIsList
<1>2. /\ at \in Seq(Addresses) /\ l \in Nat /\ length = l /\ DOMAIN at = 1 .. l
      /\ \A i, j \in 1 .. l : at[i] = at[j] => i = j
      /\ \A i \in 1 .. l : at[i] \in Addresses /\ item[at[i]] \in Items
      /\ \A a \in Addresses : item[a] = NULL \/ \E i \in 1 .. l : at[i] = a
      /\ NULL \notin Items
      /\ p_first = (IF l = 0 THEN NULL ELSE at[1])
      /\ p_last = (IF l = 0 THEN NULL ELSE at[l])
  BY LenProperties, PqueueAssumption DEF Sound, Listed, Ends, Current
<1>3. {at[k] : k \in 1 .. length} = Addresses \ Free
  <2>1. \A a \in Addresses \ Free : \E i \in 1 .. l : at[i] = a
    BY <1>2 DEF Free
  <2>2. \A i \in 1 .. l : at[i] \in Addresses \ Free
    BY <1>2 DEF Free
  <2> QED BY <2>1, <2>2, <1>2
<1>4. IsInjective(at)
  BY <1>2 DEF IsInjective
<1>5. \A k \in 1 .. length :
        /\ item[at[k]].p_prev = (IF k = 1 THEN NULL ELSE at[k - 1])
        /\ item[at[k]].p_next = (IF k = length THEN NULL ELSE at[k + 1])
  BY <1>2 DEF Sound, Links, Before, After, Current
<1>6. \A k \in 1 .. length - 1 : item[at[k]].priority <= item[at[k + 1]].priority
  <2>1. \A k \in 1 .. l - 1 : k \in 1 .. l /\ k + 1 \in 1 .. l /\ k <= k + 1
    BY <1>2
  <2>2. \A i, j \in 1 .. l : i <= j => item[at[i]].priority <= item[at[j]].priority
    BY DEF Sound, Ordered, Current
  <2> QED BY <2>1, <2>2, <1>2
<1>7. ASSUME NEW p \in Priorities
      PROVE  pp_store[p] = IF Of(p) = {} THEN NULL
                           ELSE at[CHOOSE k \in Of(p) : \A j \in Of(p) : k <= j]
  <2>0. \/ pp_store[p] = NULL /\ NoneOf(Current, at, p)
        \/ \E i \in 1 .. l : pp_store[p] = at[i] /\ FirstOf(Current, at, p, i)
    BY DEF Sound, Shortcuts, Current
  <2>1. CASE pp_store[p] = NULL /\ NoneOf(Current, at, p)
    <3>1. Of(p) = {}
      BY <2>1, <1>2 DEF NoneOf, Current
    <3> QED BY <2>1, <3>1
  <2>2. ASSUME NEW i \in 1 .. l, pp_store[p] = at[i], FirstOf(Current, at, p, i)
        PROVE  pp_store[p] = IF Of(p) = {} THEN NULL
                             ELSE at[CHOOSE k \in Of(p) : \A j \in Of(p) : k <= j]
    <3>1. i \in Of(p) /\ \A j \in Of(p) : i <= j
      BY <2>2, <1>2 DEF FirstOf, Current
    <3>2. \A k \in Of(p) : k \in Nat
      BY <1>2
    <3>3. \A k \in Of(p) : (\A j \in Of(p) : k <= j) => k = i
      BY <3>1, <3>2
    <3> DEFINE P == Of(p)
    <3> HIDE DEF P
    <3>4. (CHOOSE k \in P : \A j \in P : k <= j) = i
      <4>1. /\ i \in P /\ \A j \in P : i <= j
            /\ \A k \in P : (\A j \in P : k <= j) => k = i
        BY <3>1, <3>3 DEF P
      <4> QED BY <4>1
    <3>5. P # {}
      BY <3>1 DEF P
    <3> QED BY <2>2, <3>4, <3>5 DEF P
  <2> QED BY <2>0, <2>1, <2>2
<1>8. SoundWalk(at)
  BY <1>2, <1>3, <1>4, <1>5, <1>6, <1>7 DEF SoundWalk
<1>9. SoundWalk(Linked)
  BY <1>1, <1>8
<1> QED BY <1>9 DEF ListIsSound, SoundWalk

\* Whatever is sent, received and removed, the list of the queue can be walked from
\* either end, holds each item once and in the order of the priorities, and pp_store
\* points at the first item of each priority (tizpqueue.c, hook_before, hook_last and
\* the pointer work of receive, remove, removep and remove_func).
THEOREM ListStaysSound == Spec => []ListIsSound
BY InvHolds, SoundIsListSound, PTL

-----------------------------------------------------------------------------
(* What waits at each priority *)

\* The items of priority p, the messages of all of them, and what they can be.
Of(q, p) == {a \in Addresses : q.item[a] # NULL /\ q.item[a].priority = p}
DataOf(q) == [a \in Addresses |-> q.item[a].p_data]
Texts(q) == {q.item[a].p_data : a \in Addresses}

\* The messages of the elements of s that have priority p.
View(q, s, p) == Mapped(Only(s, Of(q, p)), DataOf(q))

\* Waiting, of any queue.
Wait(q, p) ==
    LET own == Only(Walk(q), Of(q, p))
    IN  [k \in DOMAIN own |-> q.item[own[k]].p_data]

\* The messages that Waiting collects are those of the list.
LEMMA WaitIsView ==
    ASSUME NEW q, NEW at, Sound(q, at), NEW p
    PROVE  Wait(q, p) = View(q, at, p)
<1>1. Walk(q) = at /\ at \in Seq(Addresses)
  BY WalkIsList DEF Sound, Listed
<1>2. PICK own : own = Only(at, Of(q, p))
  OBVIOUS
<1>3. own \in Seq(Addresses)
  BY <1>1, <1>2, OnlyPicks
<1>4. DOMAIN own = 1 .. Len(own) /\ \A k \in 1 .. Len(own) : own[k] \in Addresses
  BY <1>3, LenProperties, ElementOfSeq
<1>5. \A k \in DOMAIN own : q.item[own[k]].p_data = DataOf(q)[own[k]]
  BY <1>4 DEF DataOf
<1>6. Wait(q, p) = [k \in DOMAIN own |-> q.item[own[k]].p_data]
  BY <1>1, <1>2 DEF Wait
<1>7. View(q, at, p) = [k \in DOMAIN own |-> DataOf(q)[own[k]]]
  BY <1>2 DEF View, Mapped
<1> QED BY <1>5, <1>6, <1>7

\* The messages of a queue are among its texts.
LEMMA ViewType ==
    ASSUME NEW q, NEW s \in Seq(Addresses), NEW p
    PROVE  /\ Into(DataOf(q), Addresses, Texts(q))
           /\ Only(s, Of(q, p)) \in Seq(Addresses)
           /\ View(q, s, p) \in Seq(Texts(q))
<1>1. Into(DataOf(q), Addresses, Texts(q))
  BY DEF Into, DataOf, Texts
<1>2. Only(s, Of(q, p)) \in Seq(Addresses)
  BY OnlyPicks
<1> QED BY <1>1, <1>2, MappedType DEF View

\* Where messages and priorities stay, what waits stays.
LEMMA SameView ==
    ASSUME NEW q, NEW r, NEW s \in Seq(Addresses), Same(q, r, s), NEW p
    PROVE  View(q, s, p) = View(r, s, p)
<1>1. PICK T : T = Of(q, p)
  OBVIOUS
<1>2. PICK U : U = Of(r, p)
  OBVIOUS
<1>3. ASSUME NEW i \in 1 .. Len(s) PROVE s[i] \in T <=> s[i] \in U
  <2>1. s[i] \in Addresses
    BY ElementOfSeq
  <2> QED BY <2>1, <1>1, <1>2 DEF Same, Of
<1>4. Only(s, T) = Only(s, U)
  BY <1>3, OnlySame
<1>5. PICK own : own = Only(s, T)
  OBVIOUS
<1>6. PICK w : own \in Seq(Addresses) /\ Picks(own, s, KeptAt(s, T, Len(s)), w)
  BY <1>5, OnlyPicks
<1>7. ASSUME NEW k \in DOMAIN own PROVE DataOf(q)[own[k]] = DataOf(r)[own[k]]
  <2>1. k \in 1 .. Len(own) /\ own[k] \in Addresses
    BY <1>6, LenProperties, ElementOfSeq
  <2>2. w[k] \in 1 .. Len(s) /\ own[k] = s[w[k]]
    BY <2>1, <1>6 DEF Picks, KeptAt
  <2>3. r.item[own[k]].p_data = q.item[own[k]].p_data
    BY <2>2 DEF Same
  <2> QED BY <2>1, <2>3 DEF DataOf
<1> QED BY <1>1, <1>2, <1>4, <1>5, <1>7 DEF View, Mapped

\* What waits in a and then b.
LEMMA ConcatView ==
    ASSUME NEW q, NEW a \in Seq(Addresses), NEW b \in Seq(Addresses), NEW p
    PROVE  View(q, a \o b, p) = View(q, a, p) \o View(q, b, p)
<1>1. PICK T : T = Of(q, p)
  OBVIOUS
<1>2. PICK g : g = DataOf(q)
  OBVIOUS
<1>3. PICK D : D = Texts(q)
  OBVIOUS
<1>4. PICK u : u = Only(a, T)
  OBVIOUS
<1>5. PICK v : v = Only(b, T)
  OBVIOUS
<1>6. Into(g, Addresses, D) /\ u \in Seq(Addresses) /\ v \in Seq(Addresses)
  BY <1>1, <1>2, <1>3, <1>4, <1>5, ViewType
<1>7. Mapped(u \o v, g) = Mapped(u, g) \o Mapped(v, g)
  BY <1>6, MappedConcat
<1>8. View(q, a, p) = Mapped(u, g) /\ View(q, b, p) = Mapped(v, g)
  BY <1>1, <1>2, <1>4, <1>5 DEF View
<1>9. Only(a \o b, T) = u \o v
  <2>1. Only(a \o b, T) = Only(a, T) \o Only(b, T)
    BY OnlyConcat
  <2> QED BY <2>1, <1>4, <1>5
<1> QED BY <1>1, <1>2, <1>7, <1>8, <1>9 DEF View

\* What waits in a x b, when x is of the priority.
LEMMA SplicedView ==
    ASSUME NEW q, NEW a \in Seq(Addresses), NEW b \in Seq(Addresses), NEW x \in Addresses, NEW p,
           x \in Of(q, p)
    PROVE  View(q, Spliced(a, x, b), p) = Spliced(View(q, a, p), DataOf(q)[x], View(q, b, p))
<1>1. PICK T : T = Of(q, p)
  OBVIOUS
<1>2. PICK g : g = DataOf(q)
  OBVIOUS
<1>3. PICK D : D = Texts(q)
  OBVIOUS
<1>4. PICK u : u = Only(a, T)
  OBVIOUS
<1>5. PICK v : v = Only(b, T)
  OBVIOUS
<1>6. Into(g, Addresses, D) /\ u \in Seq(Addresses) /\ v \in Seq(Addresses)
  BY <1>1, <1>2, <1>3, <1>4, <1>5, ViewType
<1>7. View(q, a, p) = Mapped(u, g) /\ View(q, b, p) = Mapped(v, g)
  BY <1>1, <1>2, <1>4, <1>5 DEF View
<1>8. Mapped(Spliced(u, x, v), g) = Spliced(Mapped(u, g), g[x], Mapped(v, g))
  BY <1>6, MappedSpliced
<1>9. Only(Spliced(a, x, b), T) =
        IF x \in T THEN Spliced(Only(a, T), x, Only(b, T)) ELSE Only(a, T) \o Only(b, T)
  BY <1>6, SplicedOnly
<1>10. Only(Spliced(a, x, b), T) = Spliced(u, x, v)
  BY <1>1, <1>4, <1>5, <1>9
<1> QED BY <1>1, <1>2, <1>7, <1>8, <1>10 DEF View

\* What waits in a x b, when x is of another priority.
LEMMA BesideView ==
    ASSUME NEW q, NEW a \in Seq(Addresses), NEW b \in Seq(Addresses), NEW x \in Addresses, NEW p,
           x \notin Of(q, p)
    PROVE  View(q, Spliced(a, x, b), p) = View(q, a \o b, p)
<1>1. PICK T : T = Of(q, p)
  OBVIOUS
<1>2. x \notin T
  BY <1>1
<1>3. Only(Spliced(a, x, b), T) =
        IF x \in T THEN Spliced(Only(a, T), x, Only(b, T)) ELSE Only(a, T) \o Only(b, T)
  BY SplicedOnly
<1>4. Only(a \o b, T) = Only(a, T) \o Only(b, T)
  BY OnlyConcat
<1>5. Only(Spliced(a, x, b), T) = Only(a \o b, T)
  BY <1>2, <1>3, <1>4
<1> QED BY <1>1, <1>5 DEF View

\* Nothing waits of a priority that no element has.
LEMMA EmptyView ==
    ASSUME NEW q, NEW s \in Seq(Addresses), NEW p,
           \A i \in 1 .. Len(s) : q.item[s[i]].priority # p
    PROVE  View(q, s, p) = <<>>
<1>1. PICK T : T = Of(q, p)
  OBVIOUS
<1>2. \A i \in 1 .. Len(s) : s[i] \notin T
  BY <1>1 DEF Of
<1>3. Only(s, T) = <<>>
  BY <1>2, OnlyNone
<1>4. Mapped(<<>>, DataOf(q)) = <<>>
  BY DEF Mapped
<1> QED BY <1>1, <1>3, <1>4 DEF View

\* What is filtered out of the list is filtered out of what waits.
LEMMA OnlyView ==
    ASSUME NEW q, NEW s \in Seq(Addresses), NEW p, NEW T, NEW U,
           \A i \in 1 .. Len(s) : s[i] \in T <=> DataOf(q)[s[i]] \in U
    PROVE  View(q, Only(s, T), p) = Only(View(q, s, p), U)
<1>1. PICK V : V = Of(q, p)
  OBVIOUS
<1>2. PICK g : g = DataOf(q)
  OBVIOUS
<1>3. PICK D : D = Texts(q)
  OBVIOUS
<1>4. PICK W : W = {x \in Addresses : g[x] \in U}
  OBVIOUS
<1>5. PICK u : u = Only(s, V)
  OBVIOUS
<1>6. Into(g, Addresses, D) /\ u \in Seq(Addresses)
  BY <1>1, <1>2, <1>3, <1>5, ViewType
<1>7. Only(Mapped(u, g), U) = Mapped(Only(u, {x \in Addresses : g[x] \in U}), g)
  BY <1>6, OnlyMapped
<1>8. Only(Only(s, V), W) = Only(s, V \cap W)
  BY OnlyOnly
<1>9. Only(Only(s, T), V) = Only(s, T \cap V)
  BY OnlyOnly
<1>10. Only(s, V \cap W) = Only(s, T \cap V)
  <2>1. PICK X : X = V \cap W
    OBVIOUS
  <2>2. PICK Y : Y = T \cap V
    OBVIOUS
  <2>3. ASSUME NEW i \in 1 .. Len(s) PROVE s[i] \in X <=> s[i] \in Y
    <3>1. s[i] \in Addresses
      BY ElementOfSeq
    <3>2. s[i] \in T <=> s[i] \in W
      BY <3>1, <1>2, <1>4
    <3> QED BY <3>2, <2>1, <2>2
  <2>4. Only(s, X) = Only(s, Y)
    BY <2>3, OnlySame
  <2> QED BY <2>1, <2>2, <2>4
<1>11. Only(Mapped(u, g), U) = Mapped(Only(u, W), g)
  BY <1>4, <1>7
<1> QED BY <1>1, <1>2, <1>5, <1>8, <1>9, <1>10, <1>11 DEF View

-----------------------------------------------------------------------------
(* One fifo for each priority *)

\* The fifos are what waits, before a step and after it.
LEMMA WaitingIsView ==
    ASSUME NEW at, Sound(Current, at), NEW p
    PROVE  Waiting(p) = View(Current, at, p)
<1>1. {a \in Addresses \ Free : item[a].priority = p} = Of(Current, p)
  BY DEF Of, Free, Current
<1>2. Linked = Walk(Current)
  BY DEF Linked, Walk, Current
<1>3. Waiting(p) = Wait(Current, p)
  BY <1>1, <1>2 DEF Waiting, Wait, Current
<1> QED BY <1>3, WaitIsView

\* ... and after it.
LEMMA WaitingIsViewThen ==
    ASSUME NEW at, Sound(Current', at), NEW p
    PROVE  Waiting(p)' = View(Current', at, p)
<1>1. PICK q : q = Current'
  OBVIOUS
<1>2. {a \in Addresses \ Free' : item'[a].priority = p} = Of(q, p)
  BY <1>1 DEF Of, Free, Current
<1>3. Linked' = Walk(q)
  BY <1>1 DEF Linked, Walk, Current
<1>4. Waiting(p)' = Wait(q, p)
  BY <1>1, <1>2, <1>3 DEF Waiting, Wait, Current
<1>5. Wait(q, p) = View(q, at, p)
  BY <1>1, WaitIsView
<1> QED BY <1>1, <1>4, <1>5

\* Sending appends to the fifo of the priority.
LEMMA SendIsSend ==
    ASSUME Inv, NEW d \in Data, NEW p \in Priorities, Send(d, p)
    PROVE  Fifo!Send(d, p)
<1>1. PICK at : Sound(Current, at)
  BY DEF Inv
<1>2. PICK new \in Addresses, a \in Seq(Addresses), b \in Seq(Addresses) :
        /\ at = a \o b /\ item[new] = NULL
        /\ Turn(Current, at, p, Len(a) + 1)
        /\ Current' = Hooked(Current, new, d, p, There(at, Len(a) + 1))
        /\ Sound(Current', Spliced(a, new, b))
  BY <1>1, SendSound
<1>3. PICK q : q = Current
  OBVIOUS
<1>4. PICK r : r = Current'
  OBVIOUS
<1>5. PICK n : n = Len(a) + 1
  OBVIOUS
<1>6. /\ at \in Seq(Addresses) /\ Len(at) \in Nat /\ NULL \notin Items
      /\ \A i \in 1 .. Len(at) : at[i] \in Addresses /\ q.item[at[i]] \in Items
  BY <1>1, <1>3, PqueueAssumption DEF Sound, Listed
<1>7. Rehooked(q, r, at, n, new, d, p)
  <2>1. n \in 1 .. Len(at) + 1 /\ q.item[new] = NULL /\ Sound(q, at)
    BY <1>1, <1>2, <1>3, <1>5 DEF Turn, Current
  <2>2. Rehooked(q, Hooked(q, new, d, p, There(at, n)), at, n, new, d, p)
    BY <2>1, HookRehooks
  <2> QED BY <2>2, <1>2, <1>3, <1>4, <1>5
<1>8. Same(q, r, at)
  BY <1>6, <1>7 DEF Rehooked, Same
<1>9. \A o : View(q, at, o) = View(r, at, o)
  BY <1>6, <1>8, SameView
<1>10. r.item[new].p_data = d /\ r.item[new].priority = p /\ r.item[new] # NULL
  BY <1>6, <1>7 DEF Rehooked, New
<1>11. ASSUME NEW o \in Priorities, o # p
       PROVE  View(r, Spliced(a, new, b), o) = View(q, at, o)
  <2>1. new \notin Of(r, o)
    BY <1>10, <1>11 DEF Of
  <2>2. View(r, Spliced(a, new, b), o) = View(r, a \o b, o)
    BY <2>1, BesideView
  <2> QED BY <2>2, <1>2, <1>9
<1>12. View(r, Spliced(a, new, b), p) = Append(View(q, at, p), d)
  <2>1. new \in Of(r, p)
    BY <1>10 DEF Of
  <2>2. View(r, Spliced(a, new, b), p) = Spliced(View(r, a, p), d, View(r, b, p))
    <3>1. View(r, Spliced(a, new, b), p) = Spliced(View(r, a, p), DataOf(r)[new], View(r, b, p))
      BY <2>1, SplicedView
    <3> QED BY <3>1, <1>10 DEF DataOf
  <2>3. View(r, b, p) = <<>>
    <3>1. ASSUME NEW i \in 1 .. Len(b) PROVE r.item[b[i]].priority # p
      <4>1. /\ Len(a) \in Nat /\ Len(b) \in Nat /\ Len(a \o b) = Len(a) + Len(b)
            /\ (a \o b)[Len(a) + i] = b[i]
        BY Joined
      <4>2. PICK k : k = Len(a) + i
        OBVIOUS
      <4>3. k \in 1 .. Len(at) /\ at[k] = b[i] /\ ~(k < n)
        BY <4>1, <4>2, <1>2, <1>5
      <4>4. ~(q.item[at[k]].priority <= p)
        BY <4>3, <1>2, <1>3, <1>5 DEF Turn
      <4>5. r.item[at[k]].priority = q.item[at[k]].priority
        BY <4>3, <1>8 DEF Same
      <4>6. p \in Int
        BY PqueueAssumption DEF Priorities
      <4> QED BY <4>3, <4>4, <4>5, <4>6
    <3> QED BY <3>1, EmptyView
  <2>4. PICK D : D = Texts(r)
    OBVIOUS
  <2>5. PICK u : u = View(r, a, p)
    OBVIOUS
  <2>6. u \in Seq(D) /\ d \in D
    BY <2>4, <2>5, <1>10, ViewType DEF Texts
  <2>7. View(r, at, p) = u
    <3>1. View(r, a \o b, p) = View(r, a, p) \o View(r, b, p)
      BY ConcatView
    <3>2. u \o <<>> = u
      BY <2>6, ConcatEmptySeq
    <3> QED BY <3>1, <3>2, <2>3, <2>5, <1>2
  <2>8. Spliced(u, d, <<>>) = Append(u, d)
    <3>1. Append(u, d) \in Seq(D) /\ Append(u, d) = u \o <<d>>
      BY <2>6, AppendProperties, AppendIsConcat
    <3>2. Append(u, d) \o <<>> = Append(u, d)
      BY <3>1, ConcatEmptySeq
    <3> QED BY <3>1, <3>2 DEF Spliced
  <2> QED BY <2>2, <2>3, <2>5, <2>7, <2>8, <1>9
<1>13. \A o \in Priorities : Waiting(o) = View(q, at, o)
  BY <1>1, <1>3, WaitingIsView
<1>14. \A o \in Priorities : Waiting(o)' = View(r, Spliced(a, new, b), o)
  BY <1>2, <1>4, WaitingIsViewThen
<1>15. received' = received
  BY DEF Send
<1>16. ASSUME NEW o \in Priorities
       PROVE  Waiting(o)' = IF o = p THEN Append(Waiting(p), d) ELSE Waiting(o)
  BY <1>11, <1>12, <1>13, <1>14
<1> QED BY <1>15, <1>16 DEF Fifo!Send, Fifo!Priorities, Priorities


\* Each message that waits is that of an element with the priority.
LEMMA ViewFrom ==
    ASSUME NEW q, NEW s \in Seq(Addresses), NEW p, NEW k \in 1 .. Len(View(q, s, p))
    PROVE  \E i \in 1 .. Len(s) : s[i] \in Of(q, p) /\ View(q, s, p)[k] = DataOf(q)[s[i]]
<1>1. PICK T : T = Of(q, p)
  OBVIOUS
<1>2. PICK own : own = Only(s, T)
  OBVIOUS
<1>3. PICK w : own \in Seq(Addresses) /\ Picks(own, s, KeptAt(s, T, Len(s)), w)
  BY <1>2, OnlyPicks
<1>4. View(q, s, p) = [j \in DOMAIN own |-> DataOf(q)[own[j]]]
  BY <1>1, <1>2 DEF View, Mapped
<1>5. k \in 1 .. Len(own) /\ DOMAIN own = 1 .. Len(own)
  <2>1. Len(own) \in Nat /\ DOMAIN own = 1 .. Len(own)
    BY <1>3, LenProperties
  <2>2. Len(View(q, s, p)) = Len(own)
    BY <1>4, <2>1
  <2> QED BY <2>1, <2>2
<1>7. w[k] \in 1 .. Len(s) /\ s[w[k]] \in T /\ own[k] = s[w[k]]
  BY <1>3, <1>5 DEF Picks, KeptAt
<1>8. View(q, s, p)[k] = DataOf(q)[own[k]]
  BY <1>4, <1>5
<1> QED BY <1>1, <1>7, <1>8

\* The message d leaves the fifo of priority p, from between u and v.
Leaves(p, u, d, v) ==
    /\ Waiting(p) = Spliced(u, d, v) /\ Waiting(p)' = u \o v
    /\ \A o \in Priorities \ {p} : Waiting(o)' = Waiting(o)

\* When the n-th item leaves the list, its message leaves the fifo of its priority.
LEMMA MessageLeaves ==
    ASSUME NEW at, Sound(Current, at), NEW n \in 1 .. Len(at), Become(Unlink(Current, at[n])),
           NEW p \in Priorities, item[at[n]].priority = p, NEW d, item[at[n]].p_data = d
    PROVE  \E a, b \in Seq(Addresses) :
             Around(at, n, a, b) /\ Leaves(p, View(Current, a, p), d, View(Current, b, p))
<1>1. PICK a \in Seq(Addresses), b \in Seq(Addresses) :
        Around(at, n, a, b) /\ Sound(Current', a \o b) /\ Same(Current, Current', a \o b)
  BY ItemLeaves
<1>2. PICK q : q = Current
  OBVIOUS
<1>3. PICK r : r = Current'
  OBVIOUS
<1>4. PICK x : x = at[n]
  OBVIOUS
<1>5. at = Spliced(a, x, b)
  BY <1>1, <1>4 DEF Around
<1>6. /\ x \in Addresses /\ q.item[x] # NULL
      /\ q.item[x].priority = p /\ q.item[x].p_data = d
  BY <1>2, <1>4, PqueueAssumption DEF Sound, Listed, Current
<1>7. DataOf(q)[x] = d
  BY <1>6 DEF DataOf
<1>8. View(q, at, p) = Spliced(View(q, a, p), d, View(q, b, p))
  <2>1. x \in Of(q, p)
    BY <1>6 DEF Of
  <2>2. View(q, Spliced(a, x, b), p) = Spliced(View(q, a, p), DataOf(q)[x], View(q, b, p))
    BY <1>6, <2>1, SplicedView
  <2> QED BY <2>2, <1>5, <1>7
<1>9. a \o b \in Seq(Addresses)
  BY ConcatProperties
<1>10. \A o : View(r, a \o b, o) = View(q, a \o b, o)
  <2>1. PICK rest : rest = a \o b
    OBVIOUS
  <2>2. rest \in Seq(Addresses) /\ Same(q, r, rest)
    BY <1>1, <1>2, <1>3, <1>9, <2>1
  <2>3. \A o : View(q, rest, o) = View(r, rest, o)
    BY <2>2, SameView
  <2> QED BY <2>1, <2>3
<1>11. View(r, a \o b, p) = View(q, a, p) \o View(q, b, p)
  <2>1. View(q, a \o b, p) = View(q, a, p) \o View(q, b, p)
    BY ConcatView
  <2> QED BY <2>1, <1>10
<1>12. ASSUME NEW o \in Priorities, o # p PROVE View(r, a \o b, o) = View(q, at, o)
  <2>1. x \notin Of(q, o)
    BY <1>6, <1>12 DEF Of
  <2>2. View(q, Spliced(a, x, b), o) = View(q, a \o b, o)
    BY <1>6, <2>1, BesideView
  <2> QED BY <2>2, <1>5, <1>10
<1>13. \A o \in Priorities : Waiting(o) = View(q, at, o)
  BY <1>2, WaitingIsView
<1>14. \A o \in Priorities : Waiting(o)' = View(r, a \o b, o)
  BY <1>1, <1>3, WaitingIsViewThen
<1>15. Leaves(p, View(q, a, p), d, View(q, b, p))
  BY <1>8, <1>11, <1>12, <1>13, <1>14 DEF Leaves
<1> QED BY <1>1, <1>2, <1>15

\* A fifo that loses the first of the messages d is what RemoveOne leaves of it.
LEMMA FirstOneLeaves ==
    ASSUME NEW D, NEW u \in Seq(D), NEW d \in D, NEW v \in Seq(D), NEW p \in Priorities,
           Leaves(p, u, d, v), \A i \in 1 .. Len(u) : u[i] # d, received' = received
    PROVE  Fifo!RemoveOne(d, p)
<1>1. PICK s : s = Spliced(u, d, v)
  OBVIOUS
<1>2. PICK n : n = Len(u) + 1
  OBVIOUS
<1>3. /\ s \in Seq(D) /\ Len(u) \in Nat /\ Len(v) \in Nat /\ Len(s) = Len(u) + 1 + Len(v)
      /\ s[n] = d /\ \A i \in 1 .. Len(u) : s[i] = u[i]
  <2>1. /\ Spliced(u, d, v) \in Seq(D) /\ u \o v \in Seq(D)
        /\ Len(u) \in Nat /\ Len(v) \in Nat
        /\ Len(Spliced(u, d, v)) = Len(u) + 1 + Len(v)
        /\ Spliced(u, d, v)[Len(u) + 1] = d
        /\ \A i \in 1 .. Len(u) : Spliced(u, d, v)[i] = u[i]
        /\ \A i \in 1 .. Len(v) : Spliced(u, d, v)[Len(u) + 1 + i] = v[i]
        /\ OneMore(u \o v, Spliced(u, d, v), Len(u) + 1)
    BY SplicedAt
  <2> QED BY <2>1, <1>1, <1>2
<1>4. n \in Nat /\ n \in 1 .. Len(s) /\ DOMAIN s = 1 .. Len(s)
  BY <1>2, <1>3, LenProperties
<1>5. \A j \in 1 .. n - 1 : s[j] # d
  BY <1>2, <1>3
<1>6. ASSUME NEW k \in DOMAIN s, s[k] = d, \A j \in 1 .. k - 1 : s[j] # d PROVE k = n
  <2>1. k \in Nat /\ k \in 1 .. Len(s)
    BY <1>3, <1>4
  <2>2. ~(k < n)
    BY <1>4, <1>5, <1>6, <2>1
  <2>3. ~(n < k)
    BY <1>3, <1>4, <1>6, <2>1
  <2> QED BY <1>4, <2>1, <2>2, <2>3
<1>7. Fifo!Place(s, d) = n
  BY <1>3, <1>4, <1>5, <1>6 DEF Fifo!Place
<1>8. Fifo!RemoveAt(s, n) = u \o v
  <2>1. RemoveAt(s, n) = u \o v
    BY <1>1, <1>2, SplicedRemoved
  <2>2. Fifo!RemoveAt(s, n) = RemoveAt(s, n)
    BY DEF Fifo!RemoveAt, RemoveAt
  <2> QED BY <2>1, <2>2
<1>9. d \in Fifo!Range(s)
  BY <1>3, <1>4 DEF Fifo!Range
<1>10. Waiting(p) = s
  BY <1>1 DEF Leaves
<1>11. ASSUME NEW o \in Priorities
       PROVE  Waiting(o)' = IF o = p THEN Fifo!RemoveAt(Waiting(p), Fifo!Place(Waiting(p), d))
                                     ELSE Waiting(o)
  BY <1>7, <1>8, <1>10 DEF Leaves
<1> QED BY <1>9, <1>10, <1>11 DEF Fifo!RemoveOne, Fifo!Priorities, Priorities

\* Taking out the first item with the message d and the priority p.
LEMMA TakeIsRemoveOne ==
    ASSUME NEW at, Sound(Current, at), NEW n \in 1 .. Len(at), Become(Unlink(Current, at[n])),
           NEW p \in Priorities, item[at[n]].priority = p, NEW d, item[at[n]].p_data = d,
           \A k \in 1 .. Len(at) : k < n /\ item[at[k]].priority = p => item[at[k]].p_data # d,
           received' = received
    PROVE  Fifo!RemoveOne(d, p)
<1>1. PICK a \in Seq(Addresses), b \in Seq(Addresses) :
        Around(at, n, a, b) /\ Leaves(p, View(Current, a, p), d, View(Current, b, p))
  BY MessageLeaves
<1>2. PICK q : q = Current
  OBVIOUS
<1>3. PICK D : D = Texts(q)
  OBVIOUS
<1>4. PICK u : u = View(q, a, p)
  OBVIOUS
<1>5. PICK v : v = View(q, b, p)
  OBVIOUS
<1>6. PICK x : x = at[n]
  OBVIOUS
<1>7. x \in Addresses /\ q.item[x].p_data = d
  BY <1>2, <1>6 DEF Sound, Listed, Current
<1>8. u \in Seq(D) /\ v \in Seq(D) /\ d \in D
  <2>1. u \in Seq(D) /\ v \in Seq(D)
    BY <1>3, <1>4, <1>5, ViewType
  <2> QED BY <2>1, <1>3, <1>7 DEF Texts
<1>9. ASSUME NEW i \in 1 .. Len(u) PROVE u[i] # d
  <2>0. i \in 1 .. Len(View(q, a, p))
    BY <1>4
  <2>1. PICK j \in 1 .. Len(a) : a[j] \in Of(q, p) /\ View(q, a, p)[i] = DataOf(q)[a[j]]
    BY <2>0, ViewFrom
  <2>2. at = Spliced(a, x, b) /\ Len(a) = n - 1
    BY <1>1, <1>6 DEF Around
  <2>3. /\ Len(a) \in Nat /\ Len(b) \in Nat
        /\ Len(Spliced(a, x, b)) = Len(a) + 1 + Len(b)
        /\ \A k \in 1 .. Len(a) : Spliced(a, x, b)[k] = a[k]
    BY <1>7, SplicedAt
  <2>4. j \in 1 .. Len(at) /\ j < n /\ at[j] = a[j]
    BY <2>2, <2>3
  <2>5. q.item[a[j]].priority = p /\ u[i] = q.item[a[j]].p_data
    BY <2>1, <1>4 DEF Of, DataOf
  <2> QED BY <2>4, <2>5, <1>2 DEF Current
<1>10. Leaves(p, u, d, v)
  BY <1>1, <1>2, <1>4, <1>5
<1> QED BY <1>8, <1>9, <1>10, FirstOneLeaves

\* The two removals by message.
LEMMA RemoveDataIsRemoveOne ==
    ASSUME Inv, NEW d \in Data, RemoveData(d)
    PROVE  \E p \in Priorities : Fifo!RemoveOne(d, p)
<1>1. PICK at : Sound(Current, at)
  BY DEF Inv
<1>2. PICK places : places = 1 .. length
  OBVIOUS
<1>3. places = 1 .. Len(at)
  BY <1>1, <1>2 DEF Sound, Listed, Current
<1>4. TakeFirst(places, d) /\ places \in SUBSET (1 .. Len(at))
  BY <1>2, <1>3 DEF RemoveData
<1>5. PICK n \in places : /\ n \in 1 .. Len(at)
                          /\ item[at[n]].p_data = d
                          /\ \A k \in places : k < n => item[at[k]].p_data # d
                          /\ Become(Unlink(Current, at[n]))
                          /\ received' = received
  BY <1>1, <1>4, FirstTaken
<1>6. PICK p : p = item[at[n]].priority
  OBVIOUS
<1>7. p \in Priorities
  BY <1>1, <1>5, <1>6 DEF Sound, Listed, Current, Items
<1>8. Fifo!RemoveOne(d, p)
  BY <1>1, <1>3, <1>5, <1>6, <1>7, TakeIsRemoveOne
<1> QED BY <1>7, <1>8

\* ... of which tiz_pqueue_removep looks at one priority only.
LEMMA RemovepIsRemoveOne ==
    ASSUME Inv, NEW d \in Data, NEW p \in Priorities, Removep(d, p)
    PROVE  Fifo!RemoveOne(d, p)
<1>1. PICK at : Sound(Current, at)
  BY DEF Inv
<1>2. PICK places : places = {k \in 1 .. length : item[Linked[k]].priority = p}
  OBVIOUS
<1>3. places = {k \in 1 .. Len(at) : item[at[k]].priority = p}
  <2>1. Linked = at /\ length = Len(at)
    BY <1>1, LinkedIsList DEF Sound, Listed, Current
  <2> QED BY <2>1, <1>2
<1>4. TakeFirst(places, d) /\ places \in SUBSET (1 .. Len(at))
  BY <1>2, <1>3 DEF Removep
<1>5. PICK n \in places : /\ n \in 1 .. Len(at)
                          /\ item[at[n]].p_data = d
                          /\ \A k \in places : k < n => item[at[k]].p_data # d
                          /\ Become(Unlink(Current, at[n]))
                          /\ received' = received
  BY <1>1, <1>4, FirstTaken
<1>6. item[at[n]].priority = p
  BY <1>3, <1>5
<1>7. \A k \in 1 .. Len(at) : k < n /\ item[at[k]].priority = p => item[at[k]].p_data # d
  BY <1>3, <1>5
<1> QED BY <1>1, <1>5, <1>6, <1>7, TakeIsRemoveOne

\* Receiving takes the head of the fifo with the lowest number that is not empty.
LEMMA ReceiveIsReceive ==
    ASSUME Inv, Receive
    PROVE  \E p \in Priorities : Fifo!Receive(p)
<1>1. PICK at : Sound(Current, at)
  BY DEF Inv
<1>2. /\ at \in Seq(Addresses) /\ Len(at) \in Nat /\ Len(at) > 0 /\ 1 \in 1 .. Len(at)
      /\ p_first = at[1]
      /\ \A i \in 1 .. Len(at) : at[i] \in Addresses /\ item[at[i]] \in Items
      /\ \A i, j \in 1 .. Len(at) : i <= j => item[at[i]].priority <= item[at[j]].priority
  BY <1>1 DEF Receive, Sound, Listed, Ends, Ordered, Current
<1>3. PICK x : x = at[1]
  OBVIOUS
<1>4. PICK p : p = item[x].priority
  OBVIOUS
<1>5. PICK d : d = item[x].p_data
  OBVIOUS
<1>6. p \in Priorities /\ x \in Addresses
  BY <1>2, <1>3, <1>4 DEF Items
<1>7. Become(Unlink(Current, at[1])) /\ received' = {d}
  BY <1>2, <1>3, <1>5 DEF Receive
<1>8. PICK a \in Seq(Addresses), b \in Seq(Addresses) :
        Around(at, 1, a, b) /\ Leaves(p, View(Current, a, p), d, View(Current, b, p))
  BY <1>1, <1>2, <1>3, <1>4, <1>5, <1>6, <1>7, MessageLeaves
<1>9. PICK q : q = Current
  OBVIOUS
<1>10. PICK D : D = Texts(q)
  OBVIOUS
<1>11. PICK v : v = View(q, b, p)
  OBVIOUS
<1>12. v \in Seq(D) /\ d \in D
  <2>1. v \in Seq(D)
    BY <1>10, <1>11, ViewType
  <2> QED BY <2>1, <1>5, <1>6, <1>9, <1>10 DEF Texts, Current
<1>13. View(q, a, p) = <<>>
  <2>1. Len(a) = 0
    BY <1>8 DEF Around
  <2>2. ASSUME NEW i \in 1 .. Len(a) PROVE q.item[a[i]].priority # p
    BY <2>1
  <2> QED BY <2>2, EmptyView
<1>14. Waiting(p) = <<d>> \o v /\ Waiting(p)' = v
  <2>1. Waiting(p) = (<<>> \o <<d>>) \o v /\ Waiting(p)' = <<>> \o v
    BY <1>8, <1>9, <1>11, <1>13 DEF Leaves, Spliced
  <2>2. <<d>> \in Seq(D) /\ <<>> \o <<d>> = <<d>> /\ <<>> \o v = v
    BY <1>12, ConcatEmptySeq
  <2> QED BY <2>1, <2>2
<1>15. Waiting(p) # <<>> /\ Head(Waiting(p)) = d /\ Tail(Waiting(p)) = v
  <2>1. PICK s : s = <<d>> \o v
    OBVIOUS
  <2>2. s # <<>> /\ Head(s) = d /\ Tail(s) = v
    BY <2>1, <1>12
  <2> QED BY <2>1, <2>2, <1>14
<1>16. ASSUME NEW lower \in 0 .. p - 1 PROVE lower \in Priorities /\ Waiting(lower) = <<>>
  <2>1. lower \in Priorities
    BY <1>6, PqueueAssumption DEF Priorities
  <2>2. ASSUME NEW i \in 1 .. Len(at) PROVE q.item[at[i]].priority # lower
    <3>1. item[at[i]].priority \in Priorities /\ p <= item[at[i]].priority
      BY <1>2, <1>3, <1>4 DEF Items
    <3>2. p \in Int /\ lower \in Int /\ lower < p /\ item[at[i]].priority \in Int
      BY <1>6, <3>1, PqueueAssumption DEF Priorities
    <3> QED BY <3>1, <3>2, <1>9 DEF Current
  <2>3. View(q, at, lower) = <<>>
    BY <1>2, <2>2, EmptyView
  <2>4. Waiting(lower) = View(q, at, lower)
    BY <1>1, <1>9, WaitingIsView
  <2> QED BY <2>1, <2>3, <2>4
<1>17. ASSUME NEW o \in Priorities
       PROVE  Waiting(o)' = IF o = p THEN Tail(Waiting(p)) ELSE Waiting(o)
  BY <1>8, <1>14, <1>15 DEF Leaves
<1>18. Fifo!Receive(p)
  BY <1>6, <1>7, <1>15, <1>16, <1>17 DEF Fifo!Receive, Fifo!Priorities, Priorities
<1> QED BY <1>6, <1>18

\* Removing what a function chooses filters every fifo.
LEMMA RemoveIsRemoveAll ==
    ASSUME Inv, NEW D \in SUBSET Data, RemoveFunc(D)
    PROVE  Fifo!RemoveAll(D)
<1>1. PICK at : Sound(Current, at)
  BY DEF Inv
<1>2. PICK T : T = Addresses \ Chosen(D)
  OBVIOUS
<1>3. PICK U : U = Data \ D
  OBVIOUS
<1>4. PICK q : q = Current
  OBVIOUS
<1>5. PICK r : r = Current'
  OBVIOUS
<1>6. PICK rest : rest = Only(at, T)
  OBVIOUS
<1>7. Sound(r, rest) /\ Same(q, r, rest)
  BY <1>1, <1>2, <1>4, <1>5, <1>6, RemoveSound
<1>8. /\ at \in Seq(Addresses) /\ rest \in Seq(Addresses)
      /\ \A i \in 1 .. Len(at) : at[i] \in Addresses /\ item[at[i]] \in Items
  <2>1. at \in Seq(Addresses) /\ \A i \in 1 .. Len(at) : at[i] \in Addresses /\ item[at[i]] \in Items
    BY <1>1 DEF Sound, Listed, Current
  <2> QED BY <2>1, <1>6, OnlyPicks
<1>9. ASSUME NEW i \in 1 .. Len(at) PROVE at[i] \in T <=> DataOf(q)[at[i]] \in U
  <2>1. at[i] \in Addresses /\ item[at[i]] # NULL /\ item[at[i]].p_data \in Data
    BY <1>8, PqueueAssumption DEF Items
  <2>2. at[i] \in Chosen(D) <=> item[at[i]].p_data \in D
    BY <2>1 DEF Chosen, Free
  <2>3. DataOf(q)[at[i]] = item[at[i]].p_data
    BY <2>1, <1>4 DEF DataOf, Current
  <2> QED BY <2>1, <2>2, <2>3, <1>2, <1>3
<1>10. ASSUME NEW o \in Priorities PROVE Waiting(o)' = Fifo!Only(Waiting(o), Data \ D)
  <2>1. View(q, Only(at, T), o) = Only(View(q, at, o), U)
    BY <1>8, <1>9, OnlyView
  <2>2. View(q, rest, o) = View(r, rest, o)
    BY <1>7, <1>8, SameView
  <2>3. Waiting(o) = View(q, at, o)
    BY <1>1, <1>4, WaitingIsView
  <2>4. Waiting(o)' = View(r, rest, o)
    BY <1>5, <1>7, WaitingIsViewThen
  <2>5. \A s, S : Fifo!Only(s, S) = Only(s, S)
    BY DEF Fifo!Only, Only
  <2> QED BY <2>1, <2>2, <2>3, <2>4, <2>5, <1>3, <1>6
<1>11. received' = received
  BY DEF RemoveFunc
<1> QED BY <1>10, <1>11 DEF Fifo!RemoveAll, Fifo!Priorities, Priorities

\* Nothing waits in a list without elements.
LEMMA NothingWaits ==
    ASSUME NEW at, Sound(Current, at), Len(at) = 0, NEW p
    PROVE  Waiting(p) = <<>>
<1>1. PICK q : q = Current
  OBVIOUS
<1>2. at \in Seq(Addresses)
  BY DEF Sound, Listed
<1>3. \A i \in 1 .. Len(at) : q.item[at[i]].priority # p
  OBVIOUS
<1>4. View(q, at, p) = <<>>
  BY <1>2, <1>3, EmptyView
<1> QED BY <1>1, <1>4, WaitingIsView

\* A queue without items is empty fifos.
LEMMA InitIsInit == Init => Fifo!Init
<1> SUFFICES ASSUME Init PROVE Fifo!Init
  OBVIOUS
<1>1. PICK at : at = <<>>
  OBVIOUS
<1>2. Sound(Current, at) /\ Len(at) = 0
  BY <1>1, InitSound
<1>3. \A p \in Priorities : Waiting(p) = <<>>
  BY <1>2, NothingWaits
<1> QED BY <1>3 DEF Init, Fifo!Init, Fifo!Priorities, Priorities, Nothing, Fifo!Nothing

\* OMX_ErrorNoMore is answered when every fifo is empty.
LEMMA NothingIsNothing ==
    ASSUME Inv, ReceiveNothing
    PROVE  Fifo!ReceiveNothing
<1>1. PICK at : Sound(Current, at)
  BY DEF Inv
<1>2. Len(at) = 0
  BY <1>1 DEF ReceiveNothing, Sound, Listed, Current
<1>3. \A p \in Priorities : Waiting(p) = <<>>
  BY <1>1, <1>2, NothingWaits
<1>4. \A p : Waiting(p)' = Waiting(p)
  BY DEF ReceiveNothing, queue, Waiting, Linked, Free
<1>5. received' = Nothing
  BY DEF ReceiveNothing
<1> QED BY <1>3, <1>4, <1>5 DEF Fifo!ReceiveNothing, Fifo!Priorities, Priorities, Nothing, Fifo!Nothing

\* The list with its shortcuts (hook_before, tiz_pqueue_send, tiz_pqueue_receive, the
\* three removals) does what one fifo for each priority would do: messages leave in
\* the order of their priorities and, within one, in the order they came.
THEOREM QueueIsPriorityFifo == Spec => ImplementsPriorityFifo
<1>1. Inv /\ [Next]_vars => [Fifo!Next]_(Fifo!vars)
  <2> SUFFICES ASSUME Inv, [Next]_vars PROVE Fifo!Next \/ UNCHANGED Fifo!vars
    OBVIOUS
  <2>1. Fifo!Priorities = Priorities
    BY DEF Fifo!Priorities, Priorities
  <2>2. ASSUME NEW d \in Data, NEW p \in Priorities, Send(d, p) PROVE Fifo!Next
    BY <2>1, <2>2, SendIsSend DEF Fifo!Next
  <2>3. ASSUME NEW d \in Data, NEW p \in Priorities, Removep(d, p) PROVE Fifo!Next
    BY <2>1, <2>3, RemovepIsRemoveOne DEF Fifo!Next
  <2>4. ASSUME NEW d \in Data, RemoveData(d) PROVE Fifo!Next
    BY <2>1, <2>4, RemoveDataIsRemoveOne DEF Fifo!Next
  <2>5. ASSUME NEW D \in SUBSET Data, RemoveFunc(D) PROVE Fifo!Next
    BY <2>5, RemoveIsRemoveAll DEF Fifo!Next
  <2>6. ASSUME Receive PROVE Fifo!Next
    BY <2>1, <2>6, ReceiveIsReceive DEF Fifo!Next
  <2>7. ASSUME ReceiveNothing PROVE Fifo!Next
    BY <2>7, NothingIsNothing DEF Fifo!Next
  <2>8. ASSUME UNCHANGED vars PROVE UNCHANGED Fifo!vars
    <3>1. \A p : Waiting(p)' = Waiting(p)
      BY <2>8 DEF vars, queue, Waiting, Linked, Free
    <3>2. received' = received
      BY <2>8 DEF vars
    <3> QED BY <3>1, <3>2 DEF Fifo!vars
  <2> QED BY <2>2, <2>3, <2>4, <2>5, <2>6, <2>7, <2>8 DEF Next
<1> QED BY <1>1, InitIsInit, InvHolds, PTL DEF Spec, ImplementsPriorityFifo, Fifo!Spec
=============================================================================
