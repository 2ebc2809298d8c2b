------------------------------ MODULE MCTracker ------------------------------
EXTENDS Tracker, TLC

CONSTANTS h1, h2, m1, m2, m3, m4

TwoHashes == [m \in Messages |-> IF m = m1 THEN h2 ELSE h1]

\* The messages of h1 are interchangeable.
Interchangeable == Permutations(Messages \ {m1})
=============================================================================
