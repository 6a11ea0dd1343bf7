--------------------------- MODULE MCDeviceUpdates ---------------------------
\* Instances of DeviceUpdates for TLC.
EXTENDS DeviceUpdates

\* Install everywhere, or reboot the first node.
InstallOrReboot == {<<"update", Nodes>>, <<"reboot", {1}>>}
=============================================================================
