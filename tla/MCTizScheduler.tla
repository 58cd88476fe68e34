-------------------------- MODULE MCTizScheduler --------------------------
\* A thread that may be the event loop's or the client's, and two components,
\* the first of which supplies a tunnel to the second and so calls it too.
EXTENDS TizScheduler

CONSTANTS t1, a, b

MCComponents == {a, b}
Tunnel == {<<a, b>>}
=============================================================================
