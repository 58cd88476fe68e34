----------------------------- MODULE MCTizQueue -----------------------------
\* A ring of four nodes used at the largest capacity that leaves one of them
\* free, with two threads on either side.
EXTENDS TizQueue

CONSTANTS p1, p2, c1, c2, m1, m2

MCProducers == {p1, p2}
MCConsumers == {c1, c2}
MCData == {m1, m2}
=============================================================================
