---------------------------- MODULE MCTizBuffers ----------------------------
\* A decoder and a client that starts, pauses, stops and flushes.
EXTENDS TizBuffers

MCPorts == <<"in", "out">>

MCCommands ==
    {StateSet(st) : st \in {"Idle", "Executing", "Pause"}}
    \cup {PortCommand("Flush", t) : t \in {"in", ALL}}
=============================================================================
