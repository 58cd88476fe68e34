----------------------------- MODULE DataLemmas -----------------------------
(***************************************************************************)
(* Facts about numbers, lists, counts and sums that the proofs of several  *)
(* modules need.  The induction theorems of the library take an operator   *)
(* as a parameter, which no prover here can instantiate; the inductions    *)
(* below are over a set instead (NatSets, SubsetSets), which follows from  *)
(* well-foundedness as it is.                                              *)
(***************************************************************************)
EXTENDS Integers, SequencesExt, FiniteSetsExt, Lists, FiniteSetTheorems, SequenceTheorems,
        WellFoundedInduction, TLAPS

-----------------------------------------------------------------------------
(* Induction *)

\* A set of natural numbers has a least member.
LEMMA LeastNumber ==
    ASSUME NEW T \in SUBSET Nat, T # {}
    PROVE  \E n \in T : \A m \in T : n <= m
<1>1. IsWellFoundedOn(OpToRel(<, Nat), Nat)
  BY NatLessThanWellFounded
<1>2. PICK n \in T : \A m \in T : <<m, n>> \notin OpToRel(<, Nat)
  BY <1>1, WFMin
<1>3. \A m \in T : ~(m < n)
  BY <1>2 DEF OpToRel
<1> QED BY <1>3

\* Induction over the natural numbers, with a set for the predicate.
LEMMA NatSets ==
    ASSUME NEW T, 0 \in T, \A n \in Nat : n \in T => n + 1 \in T
    PROVE  Nat \subseteq T
<1> SUFFICES ASSUME Nat \ T # {} PROVE FALSE
  OBVIOUS
<1>1. PICK n \in Nat \ T : \A m \in Nat \ T : n <= m
  BY LeastNumber
<1>2. n # 0 /\ n - 1 \in Nat
  BY <1>1
<1>3. n - 1 \in T
  BY <1>1, <1>2
<1> QED BY <1>1, <1>2, <1>3

\* Induction over the subsets of a finite set.
LEMMA SubsetSets ==
    ASSUME NEW S, IsFiniteSet(S), NEW F,
           \A T \in SUBSET S : (\A x \in T : T \ {x} \in F) => T \in F
    PROVE  SUBSET S \subseteq F
<1>1. IsWellFoundedOn(StrictSubsetOrdering(S), SUBSET S)
  BY FS_StrictSubsetOrderingWellFounded, FS_FiniteSubsetsOfFinite
<1> SUFFICES ASSUME (SUBSET S) \ F # {} PROVE FALSE
  OBVIOUS
<1>2. PICK T \in (SUBSET S) \ F : \A U \in (SUBSET S) \ F : <<U, T>> \notin StrictSubsetOrdering(S)
  <2>1. (SUBSET S) \ F \subseteq SUBSET S
    OBVIOUS
  <2> QED BY <1>1, <2>1, WFMin
<1>3. ASSUME NEW x \in T PROVE T \ {x} \in F
  <2>1. <<T \ {x}, T>> \in StrictSubsetOrdering(S)
    BY <1>3 DEF StrictSubsetOrdering
  <2> QED BY <2>1, <1>2
<1> QED BY <1>2, <1>3

-----------------------------------------------------------------------------
(* What a list keeps *)

\* How the elements of s at the places in K make up t, in their order.
Picks(t, s, K, m) ==
    /\ m \in [1 .. Len(t) -> K]
    /\ \A k \in K : \E i \in 1 .. Len(t) : m[i] = k
    /\ \A i \in 1 .. Len(t) : t[i] = s[m[i]]
    /\ \A i, j \in 1 .. Len(t) : i < j => m[i] < m[j]

\* f is the function that Only defines, up to n.
IsKept(f, s, T, n) ==
    f = [k \in 0 .. n |->
            IF k = 0 THEN <<>>
            ELSE IF s[k] \in T THEN Append(f[k - 1], s[k]) ELSE f[k - 1]]

\* There is such a function, by induction on n.
LEMMA KeptExists ==
    ASSUME NEW S, NEW s \in Seq(S), NEW T, NEW n \in Nat, n <= Len(s)
    PROVE  \E f : IsKept(f, s, T, n)
<1> DEFINE G == {k \in Nat : k <= Len(s) => \E f : IsKept(f, s, T, k)}
<1>1. 0 \in G
  <2>1. IsKept([k \in 0 .. 0 |-> <<>>], s, T, 0)
    BY DEF IsKept
  <2> QED BY <2>1
<1>2. ASSUME NEW k \in Nat, k \in G PROVE k + 1 \in G
  <2> SUFFICES ASSUME k + 1 <= Len(s) PROVE \E f : IsKept(f, s, T, k + 1)
    OBVIOUS
  <2>1. PICK f : IsKept(f, s, T, k)
    BY <1>2
  <2> DEFINE last == IF s[k + 1] \in T THEN Append(f[k], s[k + 1]) ELSE f[k]
             g == [i \in 0 .. k + 1 |-> IF i = k + 1 THEN last ELSE f[i]]
  <2>2. ASSUME NEW i \in 0 .. k + 1
        PROVE  g[i] = IF i = 0 THEN <<>>
                      ELSE IF s[i] \in T THEN Append(g[i - 1], s[i]) ELSE g[i - 1]
    <3>1. CASE i = k + 1
      <4>1. g[i] = last /\ i # 0 /\ i - 1 = k /\ g[k] = f[k]
        BY <3>1
      <4> QED BY <4>1, <3>1
    <3>2. CASE i # k + 1
      <4>1. i \in 0 .. k /\ g[i] = f[i] /\ (i # 0 => i - 1 \in 0 .. k /\ g[i - 1] = f[i - 1])
        BY <3>2
      <4>2. f[i] = IF i = 0 THEN <<>>
                   ELSE IF s[i] \in T THEN Append(f[i - 1], s[i]) ELSE f[i - 1]
        BY <2>1, <4>1 DEF IsKept
      <4> QED BY <4>1, <4>2
    <3> QED BY <3>1, <3>2
  <2> HIDE DEF last
  <2>3. IsKept(g, s, T, k + 1)
    BY <2>2 DEF IsKept
  <2> QED BY <2>3
<1> HIDE DEF G
<1>3. n \in G
  BY <1>1, <1>2, NatSets
<1> QED BY <1>3 DEF G


\* The places up to n of what is kept.
KeptAt(s, T, n) == {k \in 1 .. n : s[k] \in T}

\* The n-th value is a list of the elements kept so far.
KeptOK(f, s, S, T, n) ==
    f[n] \in Seq(S) /\ \E m : Picks(f[n], s, KeptAt(s, T, n), m)

\* The next value is one too.
LEMMA KeptStep ==
    ASSUME NEW S, NEW s \in Seq(S), NEW T, NEW f, IsKept(f, s, T, Len(s)),
           NEW n \in Nat, n + 1 <= Len(s), KeptOK(f, s, S, T, n)
    PROVE  KeptOK(f, s, S, T, n + 1)
<1>0. /\ Len(s) \in Nat /\ n + 1 \in 1 .. Len(s) /\ s[n + 1] \in S
      /\ f[n + 1] = IF s[n + 1] \in T THEN Append(f[n], s[n + 1]) ELSE f[n]
  <2>1. Len(s) \in Nat /\ n + 1 \in 1 .. Len(s) /\ n + 1 \in 0 .. Len(s)
        /\ n + 1 # 0 /\ (n + 1) - 1 = n
    OBVIOUS
  <2> DEFINE k == n + 1
  <2> HIDE DEF k
  <2>2. f[k] = IF k = 0 THEN <<>>
               ELSE IF s[k] \in T THEN Append(f[k - 1], s[k]) ELSE f[k - 1]
    BY <2>1 DEF IsKept, k
  <2> QED BY <2>1, <2>2 DEF k
<1>1. PICK m : f[n] \in Seq(S) /\ Picks(f[n], s, KeptAt(s, T, n), m)
  BY DEF KeptOK
<1>2. CASE s[n + 1] \notin T
  <2>1. f[n + 1] = f[n] /\ KeptAt(s, T, n + 1) = KeptAt(s, T, n)
    BY <1>0, <1>2 DEF KeptAt
  <2> QED BY <2>1, <1>1 DEF KeptOK
<1>3. CASE s[n + 1] \in T
  <2> DEFINE t == f[n]
             u == f[n + 1]
             l == Len(t) + 1
             mm == [i \in 1 .. l |-> IF i = l THEN n + 1 ELSE m[i]]
  <2>1. /\ t \in Seq(S) /\ u = Append(t, s[n + 1]) /\ u \in Seq(S)
        /\ Len(t) \in Nat /\ Len(u) = l /\ l \in Nat
        /\ \A i \in 1 .. Len(t) : u[i] = t[i]
        /\ u[l] = s[n + 1]
    BY <1>0, <1>1, <1>3
  <2>2. KeptAt(s, T, n + 1) = KeptAt(s, T, n) \cup {n + 1}
    BY <1>0, <1>3 DEF KeptAt
  <2>p. /\ m \in [1 .. Len(t) -> KeptAt(s, T, n)]
        /\ \A k \in KeptAt(s, T, n) : \E i \in 1 .. Len(t) : m[i] = k
        /\ \A i \in 1 .. Len(t) : t[i] = s[m[i]]
        /\ \A i, j \in 1 .. Len(t) : i < j => m[i] < m[j]
    BY <1>1 DEF Picks
  <2>b. \A k \in KeptAt(s, T, n) : k \in Nat /\ k < n + 1
    BY DEF KeptAt
  <2> HIDE DEF t, u
  <2>c. \A i \in 1 .. l : i = l \/ i \in 1 .. Len(t)
    BY <2>1
  <2>3. mm \in [1 .. l -> KeptAt(s, T, n + 1)]
    BY <2>2, <2>p, <2>c
  <2>4. \A k \in KeptAt(s, T, n + 1) : \E i \in 1 .. l : mm[i] = k
    <3> TAKE k \in KeptAt(s, T, n + 1)
    <3>1. CASE k = n + 1
      <4>1. l \in 1 .. l /\ mm[l] = k
        BY <2>1, <3>1
      <4> QED BY <4>1
    <3>2. CASE k \in KeptAt(s, T, n)
      <4>1. PICK i \in 1 .. Len(t) : m[i] = k
        BY <2>p, <3>2
      <4>2. i \in 1 .. l /\ mm[i] = k
        BY <2>1, <4>1
      <4> QED BY <4>2
    <3> QED BY <2>2, <3>1, <3>2
  <2>5. \A i \in 1 .. l : u[i] = s[mm[i]]
    BY <2>1, <2>p, <2>c
  <2>6. \A i, j \in 1 .. l : i < j => mm[i] < mm[j]
    BY <2>1, <2>p, <2>c, <2>b
  <2>7. Picks(u, s, KeptAt(s, T, n + 1), mm)
    BY <2>1, <2>3, <2>4, <2>5, <2>6 DEF Picks
  <2> QED BY <2>1, <2>7 DEF KeptOK, u
<1> QED BY <1>2, <1>3

\* Only keeps the elements in T, each at its turn.
LEMMA OnlyPicks ==
    ASSUME NEW S, NEW s \in Seq(S), NEW T
    PROVE  /\ Only(s, T) \in Seq(S)
           /\ \E m : Picks(Only(s, T), s, KeptAt(s, T, Len(s)), m)
<1>0. Len(s) \in Nat
  OBVIOUS
<1>1. PICK f : IsKept(f, s, T, Len(s)) /\ Only(s, T) = f[Len(s)]
  <2>1. \E f : IsKept(f, s, T, Len(s))
    BY <1>0, KeptExists
  <2>2. Only(s, T) = (CHOOSE f : IsKept(f, s, T, Len(s)))[Len(s)]
    BY DEF Only, IsKept
  <2> QED BY <2>1, <2>2
<1> DEFINE G == {n \in Nat : n <= Len(s) => KeptOK(f, s, S, T, n)}
<1>2. 0 \in G
  <2>1. f[0] = <<>>
    BY <1>0, <1>1 DEF IsKept
  <2>2. Picks(<<>>, s, KeptAt(s, T, 0), <<>>)
    BY DEF Picks, KeptAt
  <2>3. f[0] \in Seq(S)
    BY <2>1
  <2> QED BY <2>1, <2>2, <2>3 DEF KeptOK
<1>3. \A n \in Nat : n \in G => n + 1 \in G
  BY <1>0, <1>1, KeptStep
<1> HIDE DEF G
<1>4. Len(s) \in G
  BY <1>0, <1>2, <1>3, NatSets
<1> QED BY <1>0, <1>1, <1>4 DEF G, KeptOK

-----------------------------------------------------------------------------
(* Parts of a list *)

\* The elements of two lists, one after the other.
LEMMA Joined ==
    ASSUME NEW S, NEW a \in Seq(S), NEW b \in Seq(S)
    PROVE  /\ a \o b \in Seq(S)
           /\ Len(a) \in Nat /\ Len(b) \in Nat
           /\ Len(a \o b) = Len(a) + Len(b)
           /\ DOMAIN (a \o b) = 1 .. Len(a) + Len(b)
           /\ \A i \in 1 .. Len(a) : (a \o b)[i] = a[i]
           /\ \A i \in 1 .. Len(b) : (a \o b)[Len(a) + i] = b[i]
<1> DEFINE t == a \o b
<1>1. /\ t \in Seq(S) /\ Len(t) = Len(a) + Len(b)
      /\ \A i \in 1 .. Len(a) + Len(b) : t[i] = IF i <= Len(a) THEN a[i] ELSE b[i - Len(a)]
  BY ConcatProperties
<1>2. Len(a) \in Nat /\ Len(b) \in Nat
  OBVIOUS
<1> HIDE DEF t
<1>3. DOMAIN t = 1 .. Len(t)
  BY <1>1
<1>4. \A i \in 1 .. Len(a) : t[i] = a[i]
  BY <1>1, <1>2
<1>5. ASSUME NEW i \in 1 .. Len(b) PROVE t[Len(a) + i] = b[i]
  <2>1. /\ Len(a) + i \in 1 .. Len(a) + Len(b) /\ ~(Len(a) + i <= Len(a))
        /\ (Len(a) + i) - Len(a) = i
    BY <1>2
  <2> DEFINE k == Len(a) + i
  <2> HIDE DEF k
  <2>2. t[k] = b[k - Len(a)]
    BY <1>1, <2>1 DEF k
  <2> QED BY <2>1, <2>2 DEF k
<1> QED BY <1>1, <1>2, <1>3, <1>4, <1>5 DEF t

\* The elements of a part of a list.
LEMMA Sliced ==
    ASSUME NEW S, NEW s \in Seq(S), NEW m \in 1 .. Len(s) + 1, NEW n \in 0 .. Len(s), m <= n + 1
    PROVE  /\ SubSeq(s, m, n) \in Seq(S)
           /\ Len(SubSeq(s, m, n)) = n + 1 - m
           /\ \A i \in 1 .. n + 1 - m : SubSeq(s, m, n)[i] = s[m + i - 1]
<1> DEFINE t == SubSeq(s, m, n)
<1>1. Len(s) \in Nat /\ m \in Int /\ n \in Int /\ \A i \in m .. n : s[i] \in S
  OBVIOUS
<1>2. /\ t \in Seq(S) /\ Len(t) = IF m <= n THEN n - m + 1 ELSE 0
      /\ \A i \in 1 .. n - m + 1 : t[i] = s[m + i - 1]
  BY <1>1, SubSeqProperties
<1>3. n - m + 1 = n + 1 - m /\ ((IF m <= n THEN n - m + 1 ELSE 0) = n + 1 - m)
  BY <1>1
<1> HIDE DEF t
<1> QED BY <1>2, <1>3 DEF t

\* A list without its n-th element.
LEMMA RemovedAt ==
    ASSUME NEW S, NEW s \in Seq(S), NEW n \in 1 .. Len(s)
    PROVE  /\ RemoveAt(s, n) \in Seq(S)
           /\ Len(s) \in Nat /\ n \in Nat
           /\ DOMAIN RemoveAt(s, n) = 1 .. Len(s) - 1
           /\ Len(RemoveAt(s, n)) = Len(s) - 1
           /\ \A i \in 1 .. n - 1 : RemoveAt(s, n)[i] = s[i]
           /\ \A i \in n .. Len(s) - 1 : RemoveAt(s, n)[i] = s[i + 1]
<1> DEFINE a == SubSeq(s, 1, n - 1)
           b == SubSeq(s, n + 1, Len(s))
           t == a \o b
<1>0. /\ Len(s) \in Nat /\ n \in Nat
      /\ 1 \in 1 .. Len(s) + 1 /\ n - 1 \in 0 .. Len(s) /\ 1 <= (n - 1) + 1
      /\ n + 1 \in 1 .. Len(s) + 1 /\ Len(s) \in 0 .. Len(s) /\ n + 1 <= Len(s) + 1
  OBVIOUS
<1>1. a \in Seq(S) /\ Len(a) = n - 1 /\ \A i \in 1 .. n - 1 : a[i] = s[i]
  <2>1. /\ a \in Seq(S) /\ Len(a) = (n - 1) + 1 - 1
        /\ \A i \in 1 .. (n - 1) + 1 - 1 : a[i] = s[1 + i - 1]
    BY <1>0, Sliced
  <2>2. (n - 1) + 1 - 1 = n - 1 /\ \A i \in 1 .. n - 1 : 1 + i - 1 = i
    BY <1>0
  <2> HIDE DEF a
  <2> QED BY <2>1, <2>2
<1>2. b \in Seq(S) /\ Len(b) = Len(s) - n /\ \A i \in 1 .. Len(s) - n : b[i] = s[n + i]
  <2>1. /\ b \in Seq(S) /\ Len(b) = Len(s) + 1 - (n + 1)
        /\ \A i \in 1 .. Len(s) + 1 - (n + 1) : b[i] = s[(n + 1) + i - 1]
    BY <1>0, Sliced
  <2>2. Len(s) + 1 - (n + 1) = Len(s) - n /\ \A i \in 1 .. Len(s) - n : (n + 1) + i - 1 = n + i
    BY <1>0
  <2> HIDE DEF b
  <2> QED BY <2>1, <2>2
<1>3. t = RemoveAt(s, n)
  BY DEF RemoveAt
<1> HIDE DEF a, b
<1>4. /\ t \in Seq(S) /\ Len(t) = Len(a) + Len(b) /\ DOMAIN t = 1 .. Len(a) + Len(b)
      /\ \A i \in 1 .. Len(a) : t[i] = a[i]
      /\ \A i \in 1 .. Len(b) : t[Len(a) + i] = b[i]
  <2>1. a \in Seq(S) /\ b \in Seq(S)
    BY <1>1, <1>2
  <2> QED BY <2>1, Joined
<1> HIDE DEF t
<1>5. Len(a) + Len(b) = Len(s) - 1
  BY <1>0, <1>1, <1>2
<1>6. \A i \in 1 .. n - 1 : t[i] = s[i]
  BY <1>1, <1>4
<1>7. ASSUME NEW i \in n .. Len(s) - 1 PROVE t[i] = s[i + 1]
  <2> DEFINE k == i - (n - 1)
  <2>1. k \in 1 .. Len(s) - n /\ Len(a) + k = i /\ n + k = i + 1
    BY <1>0, <1>1
  <2> HIDE DEF k
  <2>2. t[Len(a) + k] = b[k] /\ b[k] = s[n + k]
    BY <1>2, <1>4, <2>1
  <2> QED BY <2>1, <2>2
<1> QED BY <1>0, <1>3, <1>4, <1>5, <1>6, <1>7

-----------------------------------------------------------------------------
(* The algebra of what a list keeps *)

\* Induction over the lists, with a set for the predicate.
LEMMA ListSets ==
    ASSUME NEW S, NEW F, <<>> \in F,
           \A s \in Seq(S) : s \in F => \A x \in S : Append(s, x) \in F
    PROVE  Seq(S) \subseteq F
<1> DEFINE G == {n \in Nat : \A s \in Seq(S) : Len(s) = n => s \in F}
<1>1. 0 \in G
  <2>1. \A s \in Seq(S) : Len(s) = 0 => s = <<>>
    BY EmptySeq
  <2> QED BY <2>1
<1>2. ASSUME NEW n \in Nat, n \in G PROVE n + 1 \in G
  <2> SUFFICES ASSUME NEW s \in Seq(S), Len(s) = n + 1 PROVE s \in F
    OBVIOUS
  <2>1. s # <<>>
    BY EmptySeq
  <2>2. PICK t \in Seq(S), x \in S : s = Append(t, x)
    BY <2>1, SequenceEmptyOrAppend
  <2>3. Len(t) \in Nat /\ Len(s) = Len(t) + 1
    BY <2>2, AppendProperties, LenProperties
  <2>4. t \in F
    BY <2>3, <1>2
  <2> QED BY <2>2, <2>4
<1> HIDE DEF G
<1>3. \A n \in Nat : n \in G
  BY <1>1, <1>2, NatSets
<1> QED BY <1>3, LenProperties DEF G

\* What is kept of the first k elements depends on these elements alone.
LEMMA KeptSame ==
    ASSUME NEW S, NEW s \in Seq(S), NEW u \in Seq(S), NEW T, NEW U, NEW f, NEW g,
           NEW l \in Nat, NEW m \in Nat, IsKept(f, s, T, l), IsKept(g, u, U, m),
           NEW n \in Nat, n <= l, n <= m,
           \A i \in 1 .. n : s[i] = u[i] /\ (s[i] \in T <=> u[i] \in U)
    PROVE  f[n] = g[n]
<1> DEFINE G == {k \in Nat : k <= n => f[k] = g[k]}
<1>1. 0 \in G
  <2>1. 0 \in 0 .. l /\ 0 \in 0 .. m
    OBVIOUS
  <2>2. f[0] = <<>> /\ g[0] = <<>>
    BY <2>1 DEF IsKept
  <2> QED BY <2>2
<1>2. ASSUME NEW k \in Nat, k \in G PROVE k + 1 \in G
  <2> SUFFICES ASSUME k + 1 <= n PROVE f[k + 1] = g[k + 1]
    OBVIOUS
  <2> DEFINE j == k + 1
  <2>1. j \in 0 .. l /\ j \in 0 .. m /\ j # 0 /\ j - 1 = k /\ j \in 1 .. n /\ f[k] = g[k]
    BY <1>2
  <2> HIDE DEF j
  <2>2. f[j] = IF s[j] \in T THEN Append(f[k], s[j]) ELSE f[k]
    BY <2>1 DEF IsKept
  <2>3. g[j] = IF u[j] \in U THEN Append(g[k], u[j]) ELSE g[k]
    BY <2>1 DEF IsKept
  <2> QED BY <2>1, <2>2, <2>3 DEF j
<1> HIDE DEF G
<1>3. n \in G
  BY <1>1, <1>2, NatSets
<1> QED BY <1>3 DEF G

\* Only is the last value of such a function.
LEMMA OnlyIsKept ==
    ASSUME NEW S, NEW s \in Seq(S), NEW T
    PROVE  \E f : IsKept(f, s, T, Len(s)) /\ Only(s, T) = f[Len(s)]
<1>0. Len(s) \in Nat /\ Len(s) <= Len(s)
  BY LenProperties
<1>1. \E f : IsKept(f, s, T, Len(s))
  BY <1>0, KeptExists
<1>2. Only(s, T) = (CHOOSE f : IsKept(f, s, T, Len(s)))[Len(s)]
  BY DEF Only, IsKept
<1> QED BY <1>1, <1>2

\* Nothing is kept of nothing.
LEMMA OnlyEmpty ==
    ASSUME NEW T
    PROVE  Only(<<>>, T) = <<>>
<1> DEFINE s == <<>>
<1>0. s \in Seq({}) /\ Len(s) = 0
  BY EmptySeq
<1>1. PICK f : IsKept(f, s, T, 0) /\ Only(s, T) = f[0]
  BY <1>0, OnlyIsKept
<1>2. 0 \in 0 .. 0
  OBVIOUS
<1> QED BY <1>1, <1>2 DEF IsKept

\* An element at the end is kept at the end, or not at all.
LEMMA OnlyAppend ==
    ASSUME NEW S, NEW s \in Seq(S), NEW x \in S, NEW T
    PROVE  Only(Append(s, x), T) = IF x \in T THEN Append(Only(s, T), x) ELSE Only(s, T)
<1> DEFINE u == Append(s, x)
           n == Len(s)
<1>0. /\ u \in Seq(S) /\ n \in Nat /\ Len(u) = n + 1
      /\ \A i \in 1 .. n : u[i] = s[i]
      /\ u[n + 1] = x
  BY AppendProperties, LenProperties
<1>1. PICK f : IsKept(f, s, T, n) /\ Only(s, T) = f[n]
  BY OnlyIsKept
<1> HIDE DEF u
<1>2. PICK g : IsKept(g, u, T, n + 1) /\ Only(u, T) = g[n + 1]
  BY <1>0, OnlyIsKept
<1> HIDE DEF n
<1>3. f[n] = g[n]
  <2> DEFINE m == n + 1
  <2>1. /\ n \in Nat /\ m \in Nat /\ n <= n /\ n <= m /\ u \in Seq(S)
        /\ IsKept(f, s, T, n) /\ IsKept(g, u, T, m)
        /\ \A i \in 1 .. n : s[i] = u[i] /\ (s[i] \in T <=> u[i] \in T)
    BY <1>0, <1>1, <1>2
  <2> HIDE DEF m
  <2> QED BY <2>1, KeptSame
<1>4. g[n + 1] = IF u[n + 1] \in T THEN Append(g[n], u[n + 1]) ELSE g[n]
  <2> DEFINE j == n + 1
  <2>1. j \in 0 .. j /\ j # 0 /\ j - 1 = n
    BY <1>0
  <2>2. IsKept(g, u, T, j)
    BY <1>2
  <2> HIDE DEF j
  <2>3. g[j] = IF u[j] \in T THEN Append(g[j - 1], u[j]) ELSE g[j - 1]
    BY <2>1, <2>2 DEF IsKept
  <2> QED BY <2>1, <2>3 DEF j
<1> QED BY <1>0, <1>1, <1>2, <1>3, <1>4 DEF u

\* Of two lists in a row, what is kept of the one and then of the other.
LEMMA OnlyConcat ==
    ASSUME NEW S, NEW a \in Seq(S), NEW b \in Seq(S), NEW T
    PROVE  Only(a \o b, T) = Only(a, T) \o Only(b, T)
<1> DEFINE F == {s \in Seq(S) : Only(a \o s, T) = Only(a, T) \o Only(s, T)}
<1>0. Only(a, T) \in Seq(S)
  BY OnlyPicks
<1>1. <<>> \in F
  <2>1. <<>> \in Seq(S) /\ a \o <<>> = a /\ Only(a, T) \o <<>> = Only(a, T)
    BY <1>0, EmptySeq, ConcatEmptySeq
  <2> QED BY <2>1, OnlyEmpty
<1>2. ASSUME NEW s \in Seq(S), s \in F, NEW x \in S PROVE Append(s, x) \in F
  <2>1. a \o s \in Seq(S) /\ Only(s, T) \in Seq(S) /\ Append(s, x) \in Seq(S) /\ <<x>> \in Seq(S)
    BY OnlyPicks, ConcatProperties, AppendProperties
  <2>2. a \o Append(s, x) = Append(a \o s, x)
    BY <2>1, ConcatAssociative, AppendIsConcat
  <2>3. Only(a, T) \o Append(Only(s, T), x) = Append(Only(a, T) \o Only(s, T), x)
    <3>1. Only(a, T) \o Only(s, T) \in Seq(S)
      BY <1>0, <2>1, ConcatProperties
    <3> QED BY <3>1, <1>0, <2>1, ConcatAssociative, AppendIsConcat
  <2>4. Only(a \o s, T) = Only(a, T) \o Only(s, T)
    BY <1>2
  <2>5. Only(Append(a \o s, x), T) = IF x \in T THEN Append(Only(a \o s, T), x) ELSE Only(a \o s, T)
    BY <2>1, OnlyAppend
  <2>6. Only(Append(s, x), T) = IF x \in T THEN Append(Only(s, T), x) ELSE Only(s, T)
    BY OnlyAppend
  <2> QED BY <2>1, <2>2, <2>3, <2>4, <2>5, <2>6
<1> HIDE DEF F
<1>3. b \in F
  BY <1>1, <1>2, ListSets
<1> QED BY <1>3 DEF F

\* What two filters keep, one after the other, is what they both would.
LEMMA OnlyOnly ==
    ASSUME NEW S, NEW s \in Seq(S), NEW T, NEW U
    PROVE  Only(Only(s, T), U) = Only(s, T \cap U)
<1> DEFINE F == {u \in Seq(S) : Only(Only(u, T), U) = Only(u, T \cap U)}
<1>1. <<>> \in F
  BY OnlyEmpty, EmptySeq
<1>2. ASSUME NEW u \in Seq(S), u \in F, NEW x \in S PROVE Append(u, x) \in F
  <2>1. Only(u, T) \in Seq(S) /\ Append(u, x) \in Seq(S)
    BY OnlyPicks, AppendProperties
  <2>2. Only(Only(u, T), U) = Only(u, T \cap U)
    BY <1>2
  <2>3. Only(Append(u, x), T) = IF x \in T THEN Append(Only(u, T), x) ELSE Only(u, T)
    BY OnlyAppend
  <2>4. Only(Append(Only(u, T), x), U) = IF x \in U THEN Append(Only(Only(u, T), U), x) ELSE Only(Only(u, T), U)
    BY <2>1, OnlyAppend
  <2>5. Only(Append(u, x), T \cap U) = IF x \in T \cap U THEN Append(Only(u, T \cap U), x) ELSE Only(u, T \cap U)
    BY OnlyAppend
  <2>6. Only(Only(Append(u, x), T), U) = Only(Append(u, x), T \cap U)
    <3>1. CASE x \in T
      <4>1. x \in T \cap U <=> x \in U
        BY <3>1
      <4>2. Only(Append(u, x), T) = Append(Only(u, T), x)
        BY <3>1, <2>3
      <4>3. CASE x \in U
        BY <4>1, <4>2, <4>3, <2>2, <2>4, <2>5
      <4>4. CASE x \notin U
        BY <4>1, <4>2, <4>4, <2>2, <2>4, <2>5
      <4> QED BY <4>3, <4>4
    <3>2. CASE x \notin T
      BY <3>2, <2>2, <2>3, <2>5
    <3> QED BY <3>1, <3>2
  <2> QED BY <2>1, <2>6
<1> HIDE DEF F
<1>3. s \in F
  BY <1>1, <1>2, ListSets
<1> QED BY <1>3 DEF F

\* Two filters that agree on the elements keep the same.
LEMMA OnlySame ==
    ASSUME NEW S, NEW s \in Seq(S), NEW T, NEW U,
           \A i \in 1 .. Len(s) : s[i] \in T <=> s[i] \in U
    PROVE  Only(s, T) = Only(s, U)
<1>1. PICK f : IsKept(f, s, T, Len(s)) /\ Only(s, T) = f[Len(s)]
  BY OnlyIsKept
<1>2. PICK g : IsKept(g, s, U, Len(s)) /\ Only(s, U) = g[Len(s)]
  BY OnlyIsKept
<1>3. Len(s) \in Nat /\ Len(s) <= Len(s)
  BY LenProperties
<1>4. f[Len(s)] = g[Len(s)]
  <2> DEFINE n == Len(s)
  <2>1. /\ n \in Nat /\ n <= n /\ IsKept(f, s, T, n) /\ IsKept(g, s, U, n)
        /\ \A i \in 1 .. n : s[i] = s[i] /\ (s[i] \in T <=> s[i] \in U)
    BY <1>1, <1>2, <1>3
  <2> HIDE DEF n
  <2>2. f[n] = g[n]
    BY <2>1, KeptSame
  <2> QED BY <2>2 DEF n
<1> QED BY <1>1, <1>2, <1>4

\* A filter that every element passes keeps them all.
LEMMA OnlyAll ==
    ASSUME NEW S, NEW s \in Seq(S), NEW T, \A i \in 1 .. Len(s) : s[i] \in T
    PROVE  Only(s, T) = s
<1> DEFINE F == {u \in Seq(S) : Only(u, S) = u}
<1>1. <<>> \in F
  BY OnlyEmpty, EmptySeq
<1>2. ASSUME NEW u \in Seq(S), u \in F, NEW x \in S PROVE Append(u, x) \in F
  BY <1>2, OnlyAppend, AppendProperties
<1> HIDE DEF F
<1>3. s \in F
  BY <1>1, <1>2, ListSets
<1>4. Only(s, S) = s
  BY <1>3 DEF F
<1>5. \A i \in 1 .. Len(s) : s[i] \in S <=> s[i] \in T
  BY ElementOfSeq
<1>6. Only(s, S) = Only(s, T)
  BY <1>5, OnlySame
<1> QED BY <1>4, <1>6

\* A filter that no element passes keeps none.
LEMMA OnlyNone ==
    ASSUME NEW S, NEW s \in Seq(S), NEW T, \A i \in 1 .. Len(s) : s[i] \notin T
    PROVE  Only(s, T) = <<>>
<1> DEFINE F == {u \in Seq(S) : Only(u, {}) = <<>>}
<1>1. <<>> \in F
  BY OnlyEmpty, EmptySeq
<1>2. ASSUME NEW u \in Seq(S), u \in F, NEW x \in S PROVE Append(u, x) \in F
  BY <1>2, OnlyAppend, AppendProperties
<1> HIDE DEF F
<1>3. s \in F
  BY <1>1, <1>2, ListSets
<1>4. Only(s, {}) = <<>>
  BY <1>3 DEF F
<1>5. \A i \in 1 .. Len(s) : s[i] \in {} <=> s[i] \in T
  OBVIOUS
<1>6. Only(s, {}) = Only(s, T)
  BY <1>5, OnlySame
<1> QED BY <1>4, <1>6

\* One element is kept or not.
LEMMA OnlyOne ==
    ASSUME NEW x, NEW T
    PROVE  Only(<<x>>, T) = IF x \in T THEN <<x>> ELSE <<>>
<1> DEFINE S == {x}
           e == <<>>
<1>1. e \in Seq(S) /\ x \in S /\ Append(e, x) = <<x>>
  BY EmptySeq
<1>2. Only(e, T) = e
  BY OnlyEmpty
<1> HIDE DEF e
<1>3. Only(Append(e, x), T) = IF x \in T THEN Append(Only(e, T), x) ELSE Only(e, T)
  BY <1>1, OnlyAppend
<1> QED BY <1>1, <1>2, <1>3 DEF e

-----------------------------------------------------------------------------
(* One element more or less *)

\* The list a x b.
Spliced(a, x, b) == (a \o <<x>>) \o b

\* big is small with one element more, at n.
OneMore(small, big, n) ==
    /\ Len(small) \in Nat /\ Len(big) = Len(small) + 1 /\ n \in 1 .. Len(big)
    /\ \A i \in 1 .. Len(small) : small[i] = IF i < n THEN big[i] ELSE big[i + 1]

\* Where the elements of a x b are.
LEMMA SplicedAt ==
    ASSUME NEW S, NEW a \in Seq(S), NEW x \in S, NEW b \in Seq(S)
    PROVE  /\ Spliced(a, x, b) \in Seq(S) /\ a \o b \in Seq(S)
           /\ Len(a) \in Nat /\ Len(b) \in Nat
           /\ Len(Spliced(a, x, b)) = Len(a) + 1 + Len(b)
           /\ Spliced(a, x, b)[Len(a) + 1] = x
           /\ \A i \in 1 .. Len(a) : Spliced(a, x, b)[i] = a[i]
           /\ \A i \in 1 .. Len(b) : Spliced(a, x, b)[Len(a) + 1 + i] = b[i]
           /\ OneMore(a \o b, Spliced(a, x, b), Len(a) + 1)
<1> DEFINE o == <<x>>
           c == a \o o
           s == c \o b
           t == a \o b
           m == Len(a)
           n == m + 1
           l == Len(b)
<1>1. o \in Seq(S) /\ Len(o) = 1 /\ o[1] = x
  OBVIOUS
<1> HIDE DEF o
<1>2. /\ c \in Seq(S) /\ m \in Nat /\ n \in Nat /\ Len(c) = n /\ c[n] = x
      /\ \A i \in 1 .. m : c[i] = a[i]
  <2>0. o \in Seq(S)
    BY <1>1
  <2>1. /\ c \in Seq(S) /\ Len(a) \in Nat /\ Len(c) = Len(a) + Len(o)
        /\ \A i \in 1 .. Len(a) : c[i] = a[i]
        /\ \A i \in 1 .. Len(o) : c[Len(a) + i] = o[i]
    BY <2>0, Joined
  <2> HIDE DEF c
  <2>2. c[Len(a) + 1] = o[1]
    <3>1. 1 \in 1 .. Len(o)
      BY <1>1
    <3> QED BY <2>1, <3>1
  <2> QED BY <1>1, <2>1, <2>2
<1> HIDE DEF c, m
<1>3. /\ s \in Seq(S) /\ l \in Nat /\ Len(s) = n + l
      /\ \A i \in 1 .. n : s[i] = c[i]
      /\ \A i \in 1 .. l : s[n + i] = b[i]
  <2>0. c \in Seq(S)
    BY <1>2
  <2>1. /\ s \in Seq(S) /\ Len(b) \in Nat /\ Len(s) = Len(c) + Len(b)
        /\ \A i \in 1 .. Len(c) : s[i] = c[i]
        /\ \A i \in 1 .. Len(b) : s[Len(c) + i] = b[i]
    BY <2>0, Joined
  <2> HIDE DEF n, s, l
  <2>2. Len(c) = n
    BY <1>2
  <2> QED BY <2>1, <2>2 DEF l
<1>4. /\ t \in Seq(S) /\ Len(t) = m + l
      /\ \A i \in 1 .. m : t[i] = a[i]
      /\ \A i \in 1 .. l : t[m + i] = b[i]
  BY Joined DEF m
<1> HIDE DEF l, s, t
<1>5. n \in 1 .. n /\ \A i \in 1 .. m : i \in 1 .. n
  BY <1>2
<1>6. s[n] = x /\ \A i \in 1 .. m : s[i] = a[i]
  BY <1>2, <1>3, <1>5
<1>7. ASSUME NEW i \in 1 .. Len(t) PROVE t[i] = IF i < n THEN s[i] ELSE s[i + 1]
  <2>1. CASE i < n
    <3>1. i \in 1 .. m
      BY <2>1, <1>2
    <3> QED BY <3>1, <2>1, <1>4, <1>6
  <2>2. CASE ~(i < n)
    <3> DEFINE k == i - m
    <3>1. k \in 1 .. l /\ m + k = i /\ n + k = i + 1
      BY <2>2, <1>2, <1>3, <1>4
    <3> HIDE DEF k
    <3>2. t[m + k] = b[k] /\ s[n + k] = b[k]
      BY <3>1, <1>3, <1>4
    <3> QED BY <3>1, <3>2, <2>2
  <2> QED BY <2>1, <2>2
<1>8. Len(t) \in Nat /\ Len(s) = Len(t) + 1 /\ n \in 1 .. Len(s)
  BY <1>2, <1>3, <1>4
<1>9. OneMore(t, s, n)
  BY <1>7, <1>8 DEF OneMore
<1>10. s = Spliced(a, x, b)
  BY DEF Spliced, s, c, o
<1> QED BY <1>2, <1>3, <1>4, <1>6, <1>9, <1>10 DEF m, l, t

\* A list can be taken apart behind its n-th element.
LEMMA Apart ==
    ASSUME NEW S, NEW s \in Seq(S), NEW n \in 0 .. Len(s)
    PROVE  \E a, b \in Seq(S) : s = a \o b /\ Len(a) = n
<1> DEFINE a == SubSeq(s, 1, n)
           b == SubSeq(s, n + 1, Len(s))
           l == Len(s)
<1>0. l \in Nat /\ n \in Nat /\ n <= l
  BY LenProperties
<1>1. a \in Seq(S) /\ Len(a) = n
  <2>1. 1 \in 1 .. Len(s) + 1 /\ 1 <= n + 1 /\ n + 1 - 1 = n
    BY <1>0
  <2> QED BY <2>1, Sliced
<1>2. b \in Seq(S)
  <2>1. n + 1 \in 1 .. Len(s) + 1 /\ Len(s) \in 0 .. Len(s) /\ n + 1 <= Len(s) + 1
    BY <1>0
  <2> QED BY <2>1, Sliced
<1>3. a \o b = s
  <2>1. 1 \in 1 .. Len(s) + 1 /\ n \in 1 - 1 .. Len(s) /\ Len(s) \in n .. Len(s)
    BY <1>0
  <2>2. a \o b = SubSeq(s, 1, Len(s))
    BY <2>1, ConcatAdjacentSubSeq
  <2> QED BY <2>2, SubSeqFull
<1> HIDE DEF a, b
<1> QED BY <1>1, <1>2, <1>3

\* ... and on both sides of it.
LEMMA Split ==
    ASSUME NEW S, NEW s \in Seq(S), NEW n \in 1 .. Len(s)
    PROVE  \E a, b \in Seq(S) : s = Spliced(a, s[n], b) /\ Len(a) = n - 1
<1>0. n \in 0 .. Len(s) /\ n \in Nat
  BY LenProperties
<1>1. PICK c \in Seq(S), b \in Seq(S) : s = c \o b /\ Len(c) = n
  BY <1>0, Apart
<1>2. c # <<>>
  BY <1>1, EmptySeq
<1>3. PICK a \in Seq(S), x \in S : c = Append(a, x)
  BY <1>2, SequenceEmptyOrAppend
<1>4. c = a \o <<x>>
  BY <1>3, AppendIsConcat
<1>5. s = Spliced(a, x, b)
  BY <1>1, <1>4 DEF Spliced
<1>6. Len(a) = n - 1
  BY <1>1, <1>3, AppendProperties, LenProperties
<1>7. Spliced(a, x, b)[Len(a) + 1] = x
  BY SplicedAt
<1>8. Len(a) + 1 = n
  BY <1>0, <1>6
<1> QED BY <1>5, <1>6, <1>7, <1>8

\* Without x, a x b is a b.
LEMMA SplicedRemoved ==
    ASSUME NEW S, NEW a \in Seq(S), NEW x \in S, NEW b \in Seq(S)
    PROVE  RemoveAt(Spliced(a, x, b), Len(a) + 1) = a \o b
<1> DEFINE s == Spliced(a, x, b)
           t == a \o b
           n == Len(a) + 1
           r == RemoveAt(s, n)
<1>1. s \in Seq(S) /\ t \in Seq(S) /\ OneMore(t, s, n)
  BY SplicedAt
<1> HIDE DEF s, t, n
<1>2. /\ Len(t) \in Nat /\ Len(s) = Len(t) + 1 /\ n \in 1 .. Len(s)
      /\ \A i \in 1 .. Len(t) : t[i] = IF i < n THEN s[i] ELSE s[i + 1]
  BY <1>1 DEF OneMore
<1>3. /\ r \in Seq(S) /\ Len(r) = Len(s) - 1 /\ n \in Nat
      /\ \A i \in 1 .. n - 1 : r[i] = s[i]
      /\ \A i \in n .. Len(s) - 1 : r[i] = s[i + 1]
  BY <1>1, <1>2, RemovedAt
<1> HIDE DEF r
<1>4. Len(r) = Len(t)
  BY <1>2, <1>3
<1>5. ASSUME NEW i \in 1 .. Len(t) PROVE r[i] = t[i]
  <2>1. CASE i < n
    <3>1. i \in 1 .. n - 1
      BY <2>1, <1>3
    <3> QED BY <3>1, <2>1, <1>2, <1>3
  <2>2. CASE ~(i < n)
    <3>1. i \in n .. Len(s) - 1
      BY <2>2, <1>2, <1>3
    <3> QED BY <3>1, <2>2, <1>2, <1>3
  <2> QED BY <2>1, <2>2
<1>6. r = t
  BY <1>1, <1>3, <1>4, <1>5, SeqEqual
<1> QED BY <1>6 DEF r, s, t, n

\* What is kept of a x b.
LEMMA SplicedOnly ==
    ASSUME NEW S, NEW a \in Seq(S), NEW x \in S, NEW b \in Seq(S), NEW T
    PROVE  Only(Spliced(a, x, b), T) =
             IF x \in T THEN Spliced(Only(a, T), x, Only(b, T)) ELSE Only(a, T) \o Only(b, T)
<1>1. <<x>> \in Seq(S) /\ a \o <<x>> \in Seq(S) /\ Only(a, T) \in Seq(S)
  BY OnlyPicks, ConcatProperties
<1>2. Only(Spliced(a, x, b), T) = (Only(a, T) \o Only(<<x>>, T)) \o Only(b, T)
  <2>1. Only(a \o <<x>>, T) = Only(a, T) \o Only(<<x>>, T)
    <3> DEFINE o == <<x>>
    <3>1. o \in Seq(S)
      BY <1>1
    <3> HIDE DEF o
    <3>2. Only(a \o o, T) = Only(a, T) \o Only(o, T)
      BY <3>1, OnlyConcat
    <3> QED BY <3>2 DEF o
  <2> DEFINE c == a \o <<x>>
  <2>2. c \in Seq(S)
    BY <1>1
  <2> HIDE DEF c
  <2>3. Only(c \o b, T) = Only(c, T) \o Only(b, T)
    BY <2>2, OnlyConcat
  <2> QED BY <2>1, <2>3 DEF Spliced, c
<1>3. Only(a, T) \o <<>> = Only(a, T)
  BY <1>1, ConcatEmptySeq
<1>4. Only(<<x>>, T) = IF x \in T THEN <<x>> ELSE <<>>
  BY OnlyOne
<1> QED BY <1>2, <1>3, <1>4 DEF Spliced

-----------------------------------------------------------------------------
(* Lists of values *)

\* The values of g at the elements of s.
Mapped(s, g) == [i \in DOMAIN s |-> g[s[i]]]

\* The values of g on S are in D.
Into(g, S, D) == \A x \in S : g[x] \in D

\* They are a list as long.
LEMMA MappedType ==
    ASSUME NEW S, NEW s \in Seq(S), NEW D, NEW g, Into(g, S, D)
    PROVE  /\ Mapped(s, g) \in Seq(D) /\ Len(Mapped(s, g)) = Len(s) /\ Len(s) \in Nat
           /\ \A i \in 1 .. Len(s) : Mapped(s, g)[i] = g[s[i]]
<1> DEFINE t == Mapped(s, g)
           n == Len(s)
<1>1. n \in Nat /\ DOMAIN s = 1 .. n /\ \A i \in 1 .. n : s[i] \in S
  BY LenProperties, ElementOfSeq
<1> HIDE DEF n
<1>2. t \in [1 .. n -> D] /\ \A i \in 1 .. n : t[i] = g[s[i]]
  BY <1>1 DEF Mapped, Into
<1> HIDE DEF t
<1>3. t \in Seq(D)
  BY <1>1, <1>2, SeqDef
<1>4. Len(t) = n
  BY <1>1, <1>2, <1>3, LenProperties
<1> QED BY <1>1, <1>2, <1>3, <1>4 DEF t, n

\* The values of one list and then of another.
LEMMA MappedConcat ==
    ASSUME NEW S, NEW a \in Seq(S), NEW b \in Seq(S), NEW D, NEW g, Into(g, S, D)
    PROVE  Mapped(a \o b, g) = Mapped(a, g) \o Mapped(b, g)
<1> DEFINE s == a \o b
           u == Mapped(a, g)
           v == Mapped(b, g)
           t == Mapped(s, g)
           m == Len(a)
           l == Len(b)
<1>1. /\ s \in Seq(S) /\ m \in Nat /\ l \in Nat /\ Len(s) = m + l
      /\ \A i \in 1 .. m : s[i] = a[i]
      /\ \A i \in 1 .. l : s[m + i] = b[i]
  BY Joined
<1> HIDE DEF s
<1>2. /\ t \in Seq(D) /\ Len(t) = Len(s) /\ \A i \in 1 .. Len(s) : t[i] = g[s[i]]
  <2>1. s \in Seq(S)
    BY <1>1
  <2> QED BY <2>1, MappedType
<1>3. /\ u \in Seq(D) /\ Len(u) = m /\ \A i \in 1 .. m : u[i] = g[a[i]]
  BY MappedType
<1>4. /\ v \in Seq(D) /\ Len(v) = l /\ \A i \in 1 .. l : v[i] = g[b[i]]
  BY MappedType
<1> HIDE DEF t, u, v
<1>5. /\ u \o v \in Seq(D) /\ Len(u \o v) = m + l
      /\ \A i \in 1 .. m : (u \o v)[i] = u[i]
      /\ \A i \in 1 .. l : (u \o v)[m + i] = v[i]
  <2>0. u \in Seq(D) /\ v \in Seq(D)
    BY <1>3, <1>4
  <2>1. /\ u \o v \in Seq(D) /\ Len(u \o v) = Len(u) + Len(v)
        /\ \A i \in 1 .. Len(u) : (u \o v)[i] = u[i]
        /\ \A i \in 1 .. Len(v) : (u \o v)[Len(u) + i] = v[i]
    BY <2>0, Joined
  <2>2. Len(u) = m /\ Len(v) = l
    BY <1>3, <1>4
  <2> QED BY <2>1, <2>2
<1> DEFINE w == u \o v
<1> HIDE DEF w, m, l
<1>6. ASSUME NEW i \in 1 .. Len(t) PROVE t[i] = w[i]
  <2>0. i \in 1 .. m + l /\ t[i] = g[s[i]]
    BY <1>1, <1>2
  <2>1. CASE i <= m
    <3>1. i \in 1 .. m
      BY <2>1, <1>1
    <3> QED BY <3>1, <2>0, <1>1, <1>3, <1>5 DEF w
  <2>2. CASE ~(i <= m)
    <3> DEFINE k == i - m
    <3>1. k \in 1 .. l /\ m + k = i
      BY <2>0, <2>2, <1>1
    <3> HIDE DEF k
    <3>2. w[m + k] = v[k] /\ v[k] = g[b[k]] /\ s[m + k] = b[k]
      BY <3>1, <1>1, <1>4, <1>5 DEF w
    <3> QED BY <3>1, <3>2, <2>0
  <2> QED BY <2>1, <2>2
<1>7. t = w
  BY <1>1, <1>2, <1>5, <1>6, SeqEqual DEF w
<1> QED BY <1>7 DEF t, w, u, v, s

\* The values of a x b.
LEMMA MappedSpliced ==
    ASSUME NEW S, NEW a \in Seq(S), NEW x \in S, NEW b \in Seq(S),
           NEW D, NEW g, Into(g, S, D)
    PROVE  Mapped(Spliced(a, x, b), g) = Spliced(Mapped(a, g), g[x], Mapped(b, g))
<1>1. <<x>> \in Seq(S) /\ a \o <<x>> \in Seq(S)
  BY ConcatProperties
<1>2. Mapped(<<x>>, g) = <<g[x]>>
  BY DEF Mapped
<1>3. Mapped(a \o <<x>>, g) = Mapped(a, g) \o Mapped(<<x>>, g)
  <2> DEFINE o == <<x>>
  <2>1. o \in Seq(S)
    BY <1>1
  <2> HIDE DEF o
  <2>2. Mapped(a \o o, g) = Mapped(a, g) \o Mapped(o, g)
    BY <2>1, MappedConcat
  <2> QED BY <2>2 DEF o
<1> DEFINE c == a \o <<x>>
<1>4. c \in Seq(S)
  BY <1>1
<1> HIDE DEF c
<1>5. Mapped(c \o b, g) = Mapped(c, g) \o Mapped(b, g)
  BY <1>4, MappedConcat
<1> QED BY <1>2, <1>3, <1>5 DEF Spliced, c

\* The values of a list with one element more.
LEMMA MappedAppend ==
    ASSUME NEW S, NEW s \in Seq(S), NEW x \in S, NEW D, NEW g, Into(g, S, D)
    PROVE  Mapped(Append(s, x), g) = Append(Mapped(s, g), g[x])
<1>1. <<x>> \in Seq(S) /\ Append(s, x) = s \o <<x>>
  BY AppendIsConcat
<1>2. Mapped(<<x>>, g) = <<g[x]>> /\ g[x] \in D
  BY DEF Mapped, Into
<1>3. Mapped(s \o <<x>>, g) = Mapped(s, g) \o Mapped(<<x>>, g)
  <2> DEFINE o == <<x>>
  <2>1. o \in Seq(S)
    BY <1>1
  <2> HIDE DEF o
  <2>2. Mapped(s \o o, g) = Mapped(s, g) \o Mapped(o, g)
    BY <2>1, MappedConcat
  <2> QED BY <2>2 DEF o
<1>4. Mapped(s, g) \in Seq(D)
  BY MappedType
<1>5. Append(Mapped(s, g), g[x]) = Mapped(s, g) \o <<g[x]>>
  BY <1>2, <1>4, AppendIsConcat
<1> QED BY <1>1, <1>2, <1>3, <1>5

\* Filtering the values is filtering the elements by their values.
LEMMA OnlyMapped ==
    ASSUME NEW S, NEW s \in Seq(S), NEW D, NEW g, Into(g, S, D), NEW U
    PROVE  Only(Mapped(s, g), U) = Mapped(Only(s, {x \in S : g[x] \in U}), g)
<1> DEFINE T == {x \in S : g[x] \in U}
           F == {u \in Seq(S) : Only(Mapped(u, g), U) = Mapped(Only(u, T), g)}
<1>0. \A x \in S : x \in T <=> g[x] \in U
  OBVIOUS
<1> HIDE DEF T
<1>1. <<>> \in F
  <2>1. Mapped(<<>>, g) = <<>>
    BY DEF Mapped
  <2> QED BY <2>1, OnlyEmpty, EmptySeq
<1>2. ASSUME NEW u \in Seq(S), u \in F, NEW x \in S PROVE Append(u, x) \in F
  <2>1. /\ Only(u, T) \in Seq(S) /\ <<x>> \in Seq(S) /\ Append(u, x) \in Seq(S)
        /\ Append(u, x) = u \o <<x>>
    BY OnlyPicks, AppendIsConcat, AppendProperties
  <2>2. Mapped(<<x>>, g) = <<g[x]>> /\ g[x] \in D
    BY DEF Mapped, Into
  <2>3. Mapped(u, g) \in Seq(D) /\ Mapped(Only(u, T), g) \in Seq(D)
    BY <2>1, MappedType
  <2>4. Mapped(Append(u, x), g) = Append(Mapped(u, g), g[x])
    BY <2>3, MappedAppend
  <2>5. Mapped(Append(Only(u, T), x), g) = Append(Mapped(Only(u, T), g), g[x])
    BY <2>1, MappedAppend
  <2>6. Only(Append(Mapped(u, g), g[x]), U) =
          IF g[x] \in U THEN Append(Only(Mapped(u, g), U), g[x]) ELSE Only(Mapped(u, g), U)
    <3> DEFINE v == Mapped(u, g)
               y == g[x]
    <3>1. v \in Seq(D) /\ y \in D
      BY <2>2, <2>3
    <3> HIDE DEF v, y
    <3>2. Only(Append(v, y), U) = IF y \in U THEN Append(Only(v, U), y) ELSE Only(v, U)
      BY <3>1, OnlyAppend
    <3> QED BY <3>2 DEF v, y
  <2>7. Only(Append(u, x), T) = IF x \in T THEN Append(Only(u, T), x) ELSE Only(u, T)
    BY OnlyAppend
  <2>8. Only(Mapped(u, g), U) = Mapped(Only(u, T), g)
    BY <1>2
  <2>9. x \in T <=> g[x] \in U
    BY <1>0
  <2> QED BY <2>1, <2>4, <2>5, <2>6, <2>7, <2>8, <2>9
<1> HIDE DEF F
<1>3. s \in F
  BY <1>1, <1>2, ListSets
<1> QED BY <1>3 DEF F, T

-----------------------------------------------------------------------------
(* Sums *)

\* The element that the fold of SumFunction takes out of T.
Pick(T) == CHOOSE x \in T : TRUE

\* The subsets of S with at most n elements.
SmallSubsets(S, n) == {T \in SUBSET S : Cardinality(T) <= n}

\* h is the sum of f, by induction on the sets it is over.
IsSum(h, f, D) ==
    h = [T \in D |-> IF T = {} THEN 0 ELSE f[Pick(T)] + h[T \ {Pick(T)}]]

\* Without the element taken out the set is smaller.
LEMMA Smaller ==
    ASSUME NEW S, IsFiniteSet(S), NEW T \in SUBSET S, T # {}
    PROVE  /\ Pick(T) \in T /\ T \ {Pick(T)} \in SUBSET S
           /\ IsFiniteSet(T) /\ Cardinality(T) \in Nat /\ Cardinality(T \ {Pick(T)}) = Cardinality(T) - 1
BY FS_Subset, FS_RemoveElement, FS_CardinalityType DEF Pick

\* There is such a function, by induction on the size of the sets.
LEMMA SumExists ==
    ASSUME NEW S, IsFiniteSet(S), NEW f
    PROVE  \E h : IsSum(h, f, SUBSET S)
<1> DEFINE G == {n \in Nat : \E h : IsSum(h, f, SmallSubsets(S, n))}
<1>1. 0 \in G
  <2>1. \A T \in SmallSubsets(S, 0) : T = {}
    <3> TAKE T \in SmallSubsets(S, 0)
    <3>1. T \in SUBSET S /\ Cardinality(T) <= 0 /\ IsFiniteSet(T)
      BY FS_Subset DEF SmallSubsets
    <3>2. Cardinality(T) \in Nat
      BY <3>1, FS_CardinalityType
    <3>3. Cardinality(T) = 0
      BY <3>1, <3>2
    <3> QED BY <3>1, <3>3, FS_EmptySet
  <2>2. IsSum([T \in SmallSubsets(S, 0) |-> 0], f, SmallSubsets(S, 0))
    BY <2>1 DEF IsSum
  <2> QED BY <2>2
<1>2. ASSUME NEW n \in Nat, n \in G PROVE n + 1 \in G
  <2>1. PICK h : IsSum(h, f, SmallSubsets(S, n))
    BY <1>2
  <2> DEFINE g == [T \in SmallSubsets(S, n + 1) |->
                     IF T = {} THEN 0 ELSE f[Pick(T)] + h[T \ {Pick(T)}]]
  <2>2. ASSUME NEW T \in SmallSubsets(S, n + 1)
        PROVE  g[T] = IF T = {} THEN 0 ELSE f[Pick(T)] + g[T \ {Pick(T)}]
    <3>1. CASE T = {}
      BY <3>1
    <3>2. CASE T # {}
      <4> DEFINE U == T \ {Pick(T)}
      <4>1. U \in SmallSubsets(S, n) /\ U \in SmallSubsets(S, n + 1)
        BY <3>2, Smaller DEF SmallSubsets
      <4>2. h[U] = IF U = {} THEN 0 ELSE f[Pick(U)] + h[U \ {Pick(U)}]
        BY <4>1, <2>1 DEF IsSum
      <4>3. g[U] = h[U]
        BY <4>1, <4>2
      <4> QED BY <4>3, <3>2
    <3> QED BY <3>1, <3>2
  <2>3. IsSum(g, f, SmallSubsets(S, n + 1))
    <3> HIDE DEF g
    <3>1. g = [T \in SmallSubsets(S, n + 1) |-> g[T]]
      BY DEF g
    <3> QED BY <2>2, <3>1 DEF IsSum
  <2> QED BY <2>3
<1>3. Cardinality(S) \in G
  <2> HIDE DEF G
  <2> QED BY <1>1, <1>2, NatSets, FS_CardinalityType
<1>4. SmallSubsets(S, Cardinality(S)) = SUBSET S
  BY FS_Subset DEF SmallSubsets
<1> QED BY <1>3, <1>4

\* The sum that the library defines is that function at the whole domain.
LEMMA SumIsSum ==
    ASSUME NEW S, IsFiniteSet(S), NEW f, DOMAIN f = S
    PROVE  \E h : IsSum(h, f, SUBSET S) /\ SumFunction(f) = h[S]
<1>1. SumFunction(f) = (CHOOSE h : IsSum(h, f, SUBSET S))[S]
  BY DEF SumFunction, SumFunctionOnSet, FoldFunctionOnSet, MapThenFoldSet, IsSum, Pick
<1> QED BY <1>1, SumExists

\* A change of f at one place changes its sum by as much.
LEMMA SumChange ==
    ASSUME NEW S, IsFiniteSet(S), NEW f \in [S -> Int], NEW g \in [S -> Int],
           NEW a \in S, \A x \in S \ {a} : g[x] = f[x]
    PROVE  /\ SumFunction(f) \in Int
           /\ SumFunction(g) = SumFunction(f) + g[a] - f[a]
<1>1. PICK hf : IsSum(hf, f, SUBSET S) /\ SumFunction(f) = hf[S]
  BY SumIsSum
<1>2. PICK hg : IsSum(hg, g, SUBSET S) /\ SumFunction(g) = hg[S]
  BY SumIsSum
<1> DEFINE F == {T \in SUBSET S : /\ hf[T] \in Int /\ hg[T] \in Int
                                  /\ hg[T] = hf[T] + IF a \in T THEN g[a] - f[a] ELSE 0}
<1>3. ASSUME NEW T \in SUBSET S, \A x \in T : T \ {x} \in F PROVE T \in F
  <2>1. /\ hf[T] = IF T = {} THEN 0 ELSE f[Pick(T)] + hf[T \ {Pick(T)}]
        /\ hg[T] = IF T = {} THEN 0 ELSE g[Pick(T)] + hg[T \ {Pick(T)}]
    BY <1>1, <1>2 DEF IsSum
  <2>2. CASE T = {}
    BY <2>1, <2>2
  <2>3. CASE T # {}
    <3> DEFINE x == Pick(T)
    <3>1. x \in T /\ T \ {x} \in F
      BY <2>3, Smaller, <1>3
    <3>2. /\ hf[T \ {x}] \in Int /\ hg[T \ {x}] \in Int
          /\ hg[T \ {x}] = hf[T \ {x}] + IF a \in T \ {x} THEN g[a] - f[a] ELSE 0
      BY <3>1
    <3>3. x \in S /\ f[x] \in Int /\ g[x] \in Int /\ f[a] \in Int /\ g[a] \in Int
      BY <3>1
    <3>4. hf[T] = f[x] + hf[T \ {x}] /\ hg[T] = g[x] + hg[T \ {x}]
      BY <2>1, <2>3
    <3> HIDE DEF x
    <3>5. CASE x = a
      BY <3>1, <3>2, <3>3, <3>4, <3>5
    <3>6. CASE x # a
      BY <3>1, <3>2, <3>3, <3>4, <3>6
    <3> QED BY <3>5, <3>6
  <2> QED BY <2>2, <2>3
<1>4. S \in F
  <2> HIDE DEF F
  <2> QED BY <1>3, SubsetSets
<1> QED BY <1>1, <1>2, <1>4

\* A sum of integers is one, and zero if they all are.
LEMMA SumIsInt ==
    ASSUME NEW S, IsFiniteSet(S), NEW f \in [S -> Int]
    PROVE  SumFunction(f) \in Int /\ ((\A x \in S : f[x] = 0) => SumFunction(f) = 0)
<1>1. PICK h : IsSum(h, f, SUBSET S) /\ SumFunction(f) = h[S]
  BY SumIsSum
<1> DEFINE F == {T \in SUBSET S : h[T] \in Int /\ ((\A x \in S : f[x] = 0) => h[T] = 0)}
<1>2. ASSUME NEW T \in SUBSET S, \A x \in T : T \ {x} \in F PROVE T \in F
  <2>1. h[T] = IF T = {} THEN 0 ELSE f[Pick(T)] + h[T \ {Pick(T)}]
    BY <1>1 DEF IsSum
  <2>2. CASE T = {}
    BY <2>1, <2>2
  <2>3. CASE T # {}
    <3>1. Pick(T) \in T /\ T \ {Pick(T)} \in F
      BY <2>3, Smaller, <1>2
    <3> QED BY <2>1, <2>3, <3>1
  <2> QED BY <2>2, <2>3
<1>3. S \in F
  <2> HIDE DEF F
  <2> QED BY <1>2, SubsetSets
<1> QED BY <1>1, <1>3

\* f with i more at a, and j more at b.
Shifted(f, S, a, i, b, j) ==
    [x \in S |-> f[x] + (IF x = a THEN i ELSE 0) + (IF x = b THEN j ELSE 0)]

\* A change at two places, which may be the same one.
LEMMA SumChangeTwo ==
    ASSUME NEW S, IsFiniteSet(S), NEW f \in [S -> Int],
           NEW a \in S, NEW b \in S, NEW i \in Int, NEW j \in Int
    PROVE  SumFunction(Shifted(f, S, a, i, b, j)) = SumFunction(f) + i + j
<1> DEFINE g == Shifted(f, S, a, i, b, j)
<1>0. /\ g \in [S -> Int]
      /\ \A x \in S : g[x] = f[x] + (IF x = a THEN i ELSE 0) + (IF x = b THEN j ELSE 0)
  BY DEF Shifted
<1> HIDE DEF g
<1> DEFINE h == [x \in S |-> f[x] + IF x = a THEN i ELSE 0]
<1>1. h \in [S -> Int] /\ \A x \in S \ {a} : h[x] = f[x]
  OBVIOUS
<1>2. h[a] = f[a] + i /\ f[a] \in Int
  OBVIOUS
<1>3. g[b] = h[b] + j /\ h[b] \in Int
  BY <1>0
<1>6. \A x \in S \ {b} : g[x] = h[x]
  BY <1>0
<1> HIDE DEF h
<1>4. SumFunction(h) = SumFunction(f) + h[a] - f[a] /\ SumFunction(f) \in Int
  BY <1>1, SumChange
<1>5. SumFunction(g) = SumFunction(h) + g[b] - h[b]
  BY <1>0, <1>1, <1>6, SumChange
<1> QED BY <1>2, <1>3, <1>4, <1>5 DEF g

-----------------------------------------------------------------------------
(* Extremes *)

\* The least place of a set of places.
LEMMA MinIsLeast ==
    ASSUME NEW T \in SUBSET Nat, T # {}
    PROVE  Min(T) \in T /\ \A y \in T : Min(T) <= y
BY LeastNumber DEF Min

\* The last place of a set of places in a list.
LEMMA MaxIsGreatest ==
    ASSUME NEW n \in Nat, NEW T \in SUBSET (0 .. n), T # {}
    PROVE  Max(T) \in T /\ \A y \in T : Max(T) >= y
<1> DEFINE D == {n - y : y \in T}
<1>1. D \in SUBSET Nat /\ D # {}
  <2>1. \A y \in T : n - y \in Nat
    OBVIOUS
  <2>2. PICK y \in T : TRUE
    OBVIOUS
  <2>3. n - y \in D
    BY <2>2
  <2> QED BY <2>1, <2>3
<1>2. PICK d \in D : \A e \in D : d <= e
  BY <1>1, LeastNumber
<1>3. PICK x \in T : d = n - x
  BY <1>2
<1>4. \A y \in T : x >= y
  <2> TAKE y \in T
  <2>1. n - y \in D
    OBVIOUS
  <2>2. n - x <= n - y
    BY <2>1, <1>2, <1>3
  <2> QED BY <2>2
<1> QED BY <1>4 DEF Max

\* A function into the integers is largest somewhere on a finite set.
LEMMA LargestValue ==
    ASSUME NEW S, IsFiniteSet(S), S # {}, NEW f \in [S -> Int]
    PROVE  \E x \in S : \A y \in S : f[y] <= f[x]
<1> DEFINE F == {T \in SUBSET S : T = {} \/ \E x \in T : \A y \in T : f[y] <= f[x]}
<1>1. ASSUME NEW T \in SUBSET S, \A x \in T : T \ {x} \in F PROVE T \in F
  <2>1. CASE T = {}
    BY <2>1
  <2>2. CASE T # {}
    <3>1. PICK z \in T : TRUE
      BY <2>2
    <3>2. CASE T \ {z} = {}
      <4>1. \A y \in T : y = z /\ f[y] <= f[z]
        BY <3>2
      <4> QED BY <4>1
    <3>3. CASE T \ {z} # {}
      <4>1. PICK x \in T \ {z} : \A y \in T \ {z} : f[y] <= f[x]
        BY <1>1, <3>3
      <4>2. CASE f[z] <= f[x]
        <5>1. \A y \in T : f[y] <= f[x]
          BY <4>1, <4>2
        <5> QED BY <5>1
      <4>3. CASE ~(f[z] <= f[x])
        <5>1. f[z] \in Int /\ f[x] \in Int /\ f[x] <= f[z]
          BY <4>3
        <5>2. \A y \in T : f[y] \in Int /\ f[y] <= f[z]
          BY <5>1, <4>1
        <5> QED BY <5>2, <3>1
      <4> QED BY <4>2, <4>3
    <3> QED BY <3>2, <3>3
  <2> QED BY <2>1, <2>2
<1>2. S \in F
  <2> HIDE DEF F
  <2> QED BY <1>1, SubsetSets
<1> QED BY <1>2

-----------------------------------------------------------------------------
(* Counts *)

\* The places of an element are finitely many numbers.
LEMMA PlacesAreFinite ==
    ASSUME NEW S, NEW s \in Seq(S), NEW x
    PROVE  Places(s, x) \in SUBSET (1 .. Len(s)) /\ IsFiniteSet(Places(s, x))
<1>1. Len(s) \in Nat /\ DOMAIN s = 1 .. Len(s)
  OBVIOUS
<1>2. Places(s, x) \in SUBSET (1 .. Len(s))
  BY <1>1 DEF Places
<1>3. IsFiniteSet(1 .. Len(s))
  BY <1>1, FS_Interval
<1> QED BY <1>2, <1>3, FS_Subset

\* A count is a natural number, and positive for what is in the list.
LEMMA CountType ==
    ASSUME NEW S, NEW s \in Seq(S), NEW x
    PROVE  Count(s, x) \in Nat /\ (Count(s, x) = 0 <=> x \notin ToSet(s))
<1>1. IsFiniteSet(Places(s, x))
  BY PlacesAreFinite
<1>2. Count(s, x) = 0 <=> Places(s, x) = {}
  BY <1>1, FS_EmptySet DEF Count
<1> QED BY <1>1, <1>2, FS_CardinalityType DEF Count, Places, ToSet

\* Nothing is in the empty list.
LEMMA CountEmpty ==
    ASSUME NEW x
    PROVE  Count(<<>>, x) = 0
BY FS_EmptySet DEF Count, Places

\* What is appended counts for itself.
LEMMA CountAppend ==
    ASSUME NEW S, NEW s \in Seq(S), NEW y \in S, NEW x
    PROVE  Count(Append(s, y), x) = Count(s, x) + IF x = y THEN 1 ELSE 0
<1> DEFINE n == Len(s) + 1
<1>1. /\ Len(s) \in Nat /\ n \in Nat /\ n \notin 1 .. Len(s)
      /\ DOMAIN Append(s, y) = (1 .. Len(s)) \cup {n} /\ DOMAIN s = 1 .. Len(s)
      /\ Append(s, y)[n] = y /\ \A i \in 1 .. Len(s) : Append(s, y)[i] = s[i]
  OBVIOUS
<1>2. IsFiniteSet(Places(s, x)) /\ Cardinality(Places(s, x)) \in Nat
      /\ n \notin Places(s, x)
  BY <1>1, PlacesAreFinite, FS_CardinalityType
<1>3. Places(Append(s, y), x) = Places(s, x) \cup (IF x = y THEN {n} ELSE {})
  BY <1>1 DEF Places
<1> HIDE DEF n
<1>4. CASE x = y
  BY <1>2, <1>3, <1>4, FS_AddElement DEF Count
<1>5. CASE x # y
  BY <1>2, <1>3, <1>5 DEF Count
<1> QED BY <1>4, <1>5

\* The head counts for itself.
LEMMA CountTail ==
    ASSUME NEW S, NEW s \in Seq(S), s # <<>>, NEW x
    PROVE  Count(s, x) = Count(Tail(s), x) + IF Head(s) = x THEN 1 ELSE 0
<1> DEFINE P == Places(Tail(s), x)
           Q == Places(s, x) \ {1}
           shift == [i \in P |-> i + 1]
<1>1. /\ Len(s) \in Nat /\ Len(s) > 0 /\ DOMAIN s = 1 .. Len(s)
      /\ Len(Tail(s)) = Len(s) - 1 /\ DOMAIN Tail(s) = 1 .. Len(s) - 1
      /\ \A i \in 1 .. Len(s) - 1 : Tail(s)[i] = s[i + 1]
      /\ s[1] = Head(s) /\ Tail(s) \in Seq(S)
  OBVIOUS
<1>2. IsFiniteSet(P) /\ IsFiniteSet(Places(s, x))
  BY <1>1, PlacesAreFinite
<1>3. shift \in Bijection(P, Q)
  <2>1. P = {i \in 1 .. Len(s) - 1 : s[i + 1] = x}
    BY <1>1 DEF Places
  <2>2. Q = {i \in 2 .. Len(s) : s[i] = x}
    BY <1>1 DEF Places
  <2> HIDE DEF P, Q
  <2>3. shift \in [P -> Q]
    BY <2>1, <2>2, <1>1
  <2>4. \A i, j \in P : shift[i] = shift[j] => i = j
    BY <2>1
  <2>5. \A k \in Q : \E i \in P : shift[i] = k
    <3> TAKE k \in Q
    <3>1. k - 1 \in P /\ shift[k - 1] = k
      BY <2>1, <2>2, <1>1
    <3> QED BY <3>1
  <2> HIDE DEF shift
  <2> QED BY <2>3, <2>4, <2>5 DEF Bijection, Injection, Surjection, IsInjective
<1>4. Cardinality(P) = Cardinality(Q) /\ Cardinality(P) \in Nat
  BY <1>2, <1>3, FS_Bijection, FS_CardinalityType DEF ExistsBijection
<1>5. Cardinality(Q) = Cardinality(Places(s, x)) - IF Head(s) = x THEN 1 ELSE 0
  <2>1. 1 \in Places(s, x) <=> Head(s) = x
    BY <1>1 DEF Places
  <2>2. Cardinality(Places(s, x)) \in Nat
    BY <1>2, FS_CardinalityType
  <2>3. Cardinality(Q) = IF 1 \in Places(s, x) THEN Cardinality(Places(s, x)) - 1
                                               ELSE Cardinality(Places(s, x))
    BY <1>2, FS_RemoveElement
  <2> QED BY <2>1, <2>2, <2>3
<1>6. Cardinality(Places(s, x)) \in Nat
  BY <1>2, FS_CardinalityType
<1> HIDE DEF P, Q
<1> QED BY <1>4, <1>5, <1>6 DEF Count, P

\* What a list keeps is there as often as before, and the rest is gone.
LEMMA CountOnly ==
    ASSUME NEW S, NEW s \in Seq(S), NEW T, NEW x
    PROVE  Count(Only(s, T), x) = IF x \in T THEN Count(s, x) ELSE 0
<1> DEFINE t == Only(s, T)
<1>1. PICK m : t \in Seq(S) /\ Picks(t, s, KeptAt(s, T, Len(s)), m)
  BY OnlyPicks
<1> HIDE DEF t
<1>2. /\ Len(s) \in Nat /\ DOMAIN s = 1 .. Len(s)
      /\ Len(t) \in Nat /\ DOMAIN t = 1 .. Len(t)
  BY <1>1
<1>3. CASE x \notin T
  <2>1. Places(t, x) = {}
    BY <1>1, <1>2, <1>3 DEF Places, Picks, KeptAt
  <2> QED BY <2>1, <1>3, FS_EmptySet DEF Count, t
<1>4. CASE x \in T
  <2> DEFINE P == Places(t, x)
             Q == Places(s, x)
             f == [i \in P |-> m[i]]
  <2>1. P = {i \in 1 .. Len(t) : s[m[i]] = x} /\ Q = {k \in 1 .. Len(s) : s[k] = x}
    BY <1>1, <1>2 DEF Places, Picks
  <2>2. IsFiniteSet(P)
    BY <1>1, PlacesAreFinite
  <2> HIDE DEF P, Q
  <2>3. f \in [P -> Q]
    BY <1>1, <2>1 DEF Picks, KeptAt
  <2>4. \A i, j \in P : f[i] = f[j] => i = j
    <3> SUFFICES ASSUME NEW i \in P, NEW j \in P, f[i] = f[j], i # j PROVE FALSE
      OBVIOUS
    <3>1. i \in 1 .. Len(t) /\ j \in 1 .. Len(t) /\ m[i] = m[j] /\ m[i] \in Nat /\ m[j] \in Nat
      BY <2>1, <1>1 DEF Picks, KeptAt
    <3>2. i < j \/ j < i
      BY <3>1, <1>2
    <3> QED BY <3>1, <3>2, <1>1 DEF Picks
  <2>5. \A k \in Q : \E i \in P : f[i] = k
    <3> TAKE k \in Q
    <3>1. k \in KeptAt(s, T, Len(s))
      BY <2>1, <1>4 DEF KeptAt
    <3>2. PICK i \in 1 .. Len(t) : m[i] = k
      BY <3>1, <1>1 DEF Picks
    <3>3. i \in P /\ f[i] = k
      BY <3>2, <2>1
    <3> QED BY <3>3
  <2>6. f \in Bijection(P, Q)
    <3> HIDE DEF f
    <3> QED BY <2>3, <2>4, <2>5 DEF Bijection, Injection, Surjection, IsInjective
  <2>7. Cardinality(P) = Cardinality(Q)
    BY <2>2, <2>6, FS_Bijection DEF ExistsBijection
  <2> QED BY <2>7, <1>4 DEF Count, P, Q, t
<1> QED BY <1>3, <1>4

\* What is appended n times counts n times.
LEMMA CountRepeated ==
    ASSUME NEW S, NEW s \in Seq(S), NEW y \in S, NEW n \in Nat, NEW x
    PROVE  /\ s \o [i \in 1 .. n |-> y] \in Seq(S)
           /\ Count(s \o [i \in 1 .. n |-> y], x) = Count(s, x) + IF x = y THEN n ELSE 0
<1> DEFINE longer(k) == s \o [i \in 1 .. k |-> y]
           G == {k \in Nat : longer(k) \in Seq(S)
                    /\ Count(longer(k), x) = Count(s, x) + IF x = y THEN k ELSE 0}
<1>0. Count(s, x) \in Nat
  BY CountType
<1>1. 0 \in G
  <2>1. longer(0) = s
    OBVIOUS
  <2> QED BY <1>0, <2>1
<1>2. ASSUME NEW k \in Nat, k \in G PROVE k + 1 \in G
  <2>1. longer(k + 1) = Append(longer(k), y)
    <3>1. [i \in 1 .. k |-> y] \in Seq(S) /\ [i \in 1 .. k + 1 |-> y] \in Seq(S)
      OBVIOUS
    <3>2. [i \in 1 .. k + 1 |-> y] = Append([i \in 1 .. k |-> y], y)
      OBVIOUS
    <3> QED BY <3>1, <3>2
  <2>2. longer(k) \in Seq(S) /\ Count(longer(k), x) = Count(s, x) + IF x = y THEN k ELSE 0
    BY <1>2
  <2> HIDE DEF longer
  <2>3. Append(longer(k), y) \in Seq(S)
        /\ Count(Append(longer(k), y), x) = Count(longer(k), x) + IF x = y THEN 1 ELSE 0
    BY <2>2, CountAppend
  <2> PICK t : t = longer(k)
    OBVIOUS
  <2> PICK u : u = longer(k + 1)
    OBVIOUS
  <2>4. u \in Seq(S)
    BY <2>1, <2>3
  <2>5. Count(u, x) = Count(s, x) + IF x = y THEN k + 1 ELSE 0
    <3>1. Count(t, x) = Count(s, x) + IF x = y THEN k ELSE 0
      BY <2>2
    <3>2. Count(u, x) = Count(t, x) + IF x = y THEN 1 ELSE 0
      BY <2>1, <2>3
    <3> QED BY <1>0, <3>1, <3>2
  <2> QED BY <2>4, <2>5
<1> HIDE DEF G
<1>3. n \in G
  BY <1>1, <1>2, NatSets
<1> QED BY <1>3 DEF G
=============================================================================
