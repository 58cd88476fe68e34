----------------------------- MODULE TizPlaylist -----------------------------
(***************************************************************************)
(* Playlists (tizplaylist.cpp).  The player has one list of all the files; *)
(* a graph of components plays one sub list of it, the longest run of      *)
(* files with one extension.  A file is a record: its extension, coding,   *)
(* which is what probing finds in it ("None" if nothing can be played) and *)
(* pcm, the settings of its stream.  Indexes count from 0, as in the code. *)
(***************************************************************************)
EXTENDS Integers, SequencesExt

NewList(uris) == [uris |-> uris, index |-> 0, loop |-> FALSE]

Size(l) == Len(l.uris)
Empty(l) == l.uris = <<>>
BeforeBegin(l) == l.index < 0
PastEnd(l) == l.index >= Size(l)

HasCurrent(l) == ~BeforeBegin(l) /\ ~PastEnd(l)
CurrentUri(l) == l.uris[l.index + 1]

Wrap(l, i) == i % Size(l)

\* Mutant: the last file of a list that loops is followed by nothing.
SkipTooFar(l, jump) ==
    LET i == l.index + jump
    IN  [l EXCEPT !.index = IF l.loop /\ (i < 0 \/ i > Size(l)) THEN Wrap(l, i) ELSE i]

Skip(l, jump) ==
    LET i == l.index + jump
    IN  [l EXCEPT !.index = IF l.loop THEN Wrap(l, i) ELSE i]

SetIndex(l, i) == IF Empty(l) THEN l ELSE [l EXCEPT !.index = Wrap(l, i)]
EraseUri(l, i) == [l EXCEPT !.uris = RemoveAt(@, i + 1)]

SingleFormat(uris) == \A i, j \in DOMAIN uris : uris[i].ext = uris[j].ext

\* scan_list: where the sub lists begin, and the end of the last one.
SubListIndexes(uris) ==
    LET starts == {i \in 1 .. Len(uris) : i > 1 => uris[i - 1].ext # uris[i].ext}
    IN  SetToSortSeq(starts, <) \o <<Len(uris) + 1>>

\* The sub lists are in a ring.
NextSubList(uris, current, up) ==
    LET n == Len(SubListIndexes(uris)) - 1
    IN  IF up THEN (current + 1) % n
        ELSE IF current <= 0 THEN n - 1 ELSE current - 1

SubList(uris, k) ==
    LET indexes == SubListIndexes(uris)
    IN  NewList(SubSeq(uris, indexes[k + 1], indexes[k + 2] - 1))

=============================================================================
