------------------------------ MODULE MCStatus ------------------------------
\* Instances of Status for TLC.
EXTENDS Status
CONSTANTS n1, n2
=============================================================================
