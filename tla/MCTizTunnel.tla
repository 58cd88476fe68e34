------------------------------ MODULE MCTizTunnel ------------------------------
\* A demuxer and two decoders.  The demuxer supplies the tunnel of one of its output
\* ports; that of the other is supplied by the input port of the decoder there.
EXTENDS TizTunnel

CONSTANTS demuxer, audio, video, first, second

MCComponents == {demuxer, audio, video}
MCTunnels == {first, second}
MCSupplier == first :> demuxer @@ second :> video
MCOther == first :> audio @@ second :> demuxer
MCInputSuppliers == {second}
MCPortOrder == demuxer :> <<first, second>> @@ audio :> <<first>> @@ video :> <<second>>
=============================================================================
