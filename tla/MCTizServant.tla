---------------------------- MODULE MCTizServant ----------------------------
(* Two components, one with an io watcher and a timer that does not repeat, the *)
(* other with a timer that does: it does all that an io watcher without         *)
(* only_once does, and restarts.                                                *)
EXTENDS TizServant, TLC

CONSTANTS s1, s2, io, once, timer

MCOwner == io :> s1 @@ once :> s1 @@ timer :> s2
MCKind == io :> "Once" @@ once :> "OneShot" @@ timer :> "Repeat"

=============================================================================
