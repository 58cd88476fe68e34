----------------------------- MODULE MCTizPlayer -----------------------------
EXTENDS TizPlayer

One == [name |-> 1, ext |-> "a", coding |-> "A", pcm |-> "default"]
Bad == [name |-> 2, ext |-> "a", coding |-> None, pcm |-> "default"]
Two == [name |-> 3, ext |-> "a", coding |-> "A", pcm |-> "other"]
Odd == [name |-> 4, ext |-> "b", coding |-> "B", pcm |-> "default"]

\* Two formats; one format, which loops.
MCPlaylists == {<<One, Bad, Two, Odd>>, <<One, Bad, Two>>}

\* Components report errors in the shorter one only.
MCMaxErrors == [l \in MCPlaylists |-> IF Len(l) = 3 THEN 1 ELSE 0]
=============================================================================
