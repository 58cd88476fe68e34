-------------------------- MODULE MCTizComponent --------------------------
\* A component with an input and an output port, under clients of different
\* repertoires.
EXTENDS TizComponent

MCPorts == <<"in", "out">>

StateSets == {StateSet(st) : st \in MainStates}
OnePort == {PortCommand(c, p) : c \in PortCommands, p \in {"in", "out"}}
AllPorts == {PortCommand(c, ALL) : c \in PortCommands}

Everything == StateSets \cup OnePort \cup AllPorts
NoPause == Everything \ {StateSet("Pause")}

Nothing == {}
CancelLoad == {StateSet("Loaded")}
=============================================================================
