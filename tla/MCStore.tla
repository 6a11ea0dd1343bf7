------------------------------- MODULE MCStore -------------------------------
\* Instances of Store for TLC.
EXTENDS Store, TLC

CONSTANTS p1, p2, c1, c2, c3

\* Two threads of one process, which are alike, and one of another.
TwoHomes == [h \in Threads |-> IF h \in {p2, c3} THEN p2 ELSE p1]
Alike == Permutations({c1, c2})
=============================================================================
