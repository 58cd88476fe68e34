------------------------------- MODULE Lists -------------------------------
(***************************************************************************)
(* What the lists of the program are asked for: the elements that a        *)
(* std::remove_if, a DELETE of rows or a removal function leaves, and how  *)
(* often an element is there.  Only stands for SelectSeq where theorems    *)
(* are about the list.                                                     *)
(***************************************************************************)
EXTENDS Naturals, Sequences, FiniteSets

\* The elements of s that are in T, in their order.
Only(s, T) ==
    LET kept[k \in 0 .. Len(s)] ==
            IF k = 0 THEN <<>>
            ELSE IF s[k] \in T THEN Append(kept[k - 1], s[k]) ELSE kept[k - 1]
    IN  kept[Len(s)]

Places(s, x) == {i \in DOMAIN s : s[i] = x}
Count(s, x) == Cardinality(Places(s, x))
=============================================================================
