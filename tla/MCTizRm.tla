------------------------------ MODULE MCTizRm ------------------------------
\* Four components that want the units of one resource: two that may preempt the
\* other two.
EXTENDS TizRm

CONSTANTS high1, high2, low1, low2, dummy

MCClients == {high1, high2, low1, low2}
MCRids == {dummy}
OneUnit == dummy :> 1
TwoUnits == dummy :> 2
TwoRanks == high1 :> 0 @@ high2 :> 0 @@ low1 :> 1 @@ low2 :> 1
Everybody == MCClients \X MCRids
=============================================================================
