---------------------------- MODULE MCTizPqueue ----------------------------
(* Two messages and five items at three priorities.                            *)
EXTENDS TizPqueue, TLC

Layouts == Permutations(Addresses)

=============================================================================
