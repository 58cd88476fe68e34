------------------------------ MODULE TizPort ------------------------------
(***************************************************************************)
(* The regular ports of one component as its kernel sees them (tizport.c   *)
(* and the port predicates of tizkernel_helpers.inl): flags, the count of  *)
(* buffer headers registered on the port and the count of those the        *)
(* processor has claimed.  No port is tunneled.                            *)
(*                                                                         *)
(* EFlagPopulated needs no field: UseBuffer and AllocateBuffer set it when *)
(* the last header is registered, FreeBuffer clears it when one leaves.    *)
(***************************************************************************)
EXTENDS Integers, Sequences, SequencesExt

CONSTANTS
    PortList,       \* the component's ports in index order, p_ports_
    NBufs,          \* nBufferCountActual, the same on every port
    AllocatorPorts  \* the ports the client populates with AllocateBuffer,
                    \* which makes them buffer suppliers

Ports == ToSet(PortList)

ALL == "OMX_ALL"

ASSUME PortAssumption ==
    /\ PortList \in Seq(Ports)
    /\ IsInjective(PortList)
    /\ ALL \notin Ports
    /\ NBufs \in Nat \ {0}
    /\ AllocatorPorts \subseteq Ports

InitialPort ==
    [enabled |-> TRUE, beingEnabled |-> FALSE, beingDisabled |-> FALSE,
     flushing |-> FALSE, bufs |-> 0, claimed |-> 0]

\* pp maps every port to its record.
Populated(pp, p) == pp[p].bufs = NBufs

AllPopulated(pp) == \A p \in Ports : pp[p].enabled => Populated(pp, p)

\* Mutant: one empty port is enough.
SomeDepopulated(pp) == \E p \in Ports : pp[p].bufs = 0

AllDepopulated(pp) == \A p \in Ports : pp[p].bufs = 0

AllBuffersReturned(pp) ==
    \A p \in Ports : pp[p].enabled /\ pp[p].bufs > 0 => pp[p].claimed = 0

\* The answer of krn_get_population_status that lets a command be cancelled: no
\* header, or only headers that the client can take back.  For OMX_ALL a port
\* without a tunnel never stands in the way.
MayBeUnpopulated(pp, target) ==
    IF target = ALL
    THEN ~AllPopulated(pp)
    ELSE /\ ~Populated(pp, target)
         /\ pp[target].bufs = 0 \/ target \in AllocatorPorts

\* TIZ_PORT_SET_GOING_TO_ENABLED: the Enabled flag comes with BeingEnabled.
GoingToEnabled(port) == [port EXCEPT !.enabled = TRUE, !.beingEnabled = TRUE]

GoingToDisabled(port) == [port EXCEPT !.beingDisabled = TRUE]

SetEnabled(port) == [port EXCEPT !.enabled = TRUE, !.beingEnabled = FALSE]

\* Mutant: EFlagBeingDisabled is not cleared either.
SetDisabledOnly(port) == [port EXCEPT !.enabled = FALSE]

\* TIZ_PORT_SET_DISABLED leaves BeingEnabled alone.
SetDisabled(port) == [port EXCEPT !.enabled = FALSE, !.beingDisabled = FALSE]

\* A header is registered; the last one makes the port populated and enabled.
RegisterHeader(port) ==
    IF port.bufs + 1 = NBufs
    THEN SetEnabled([port EXCEPT !.bufs = NBufs])
    ELSE [port EXCEPT !.bufs = @ + 1]

\* A header is freed; the last one ends a disable in progress.
UnregisterHeader(port) ==
    IF port.bufs = 1 /\ port.beingDisabled
    THEN SetDisabled([port EXCEPT !.bufs = 0])
    ELSE [port EXCEPT !.bufs = @ - 1]
=============================================================================
