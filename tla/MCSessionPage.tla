---------------------------- MODULE MCSessionPage ----------------------------
\* The two operations are interchangeable, and no liveness is checked.
EXTENDS SessionPage, TLC

Interchangeable == Permutations(Session)
=============================================================================
