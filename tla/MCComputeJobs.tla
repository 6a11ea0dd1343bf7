--------------------------- MODULE MCComputeJobs ---------------------------
\* Instances of ComputeJobs for TLC.
EXTENDS ComputeJobs

CONSTANTS i1, d1, t1

OneInstance == {i1}
OneInstanceParent == [i \in {i1} |-> d1]
=============================================================================
