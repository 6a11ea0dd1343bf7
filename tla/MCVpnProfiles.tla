--------------------------- MODULE MCVpnProfiles ---------------------------
\* Instances of VpnProfiles for TLC.
EXTENDS VpnProfiles
CONSTANTS default, p1, w1, a, o, t1, r1, r2
=============================================================================
