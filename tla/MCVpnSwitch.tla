---------------------------- MODULE MCVpnSwitch ----------------------------
\* Instances of VpnSwitch for TLC.
EXTENDS VpnSwitch
=============================================================================
