---------------------------- MODULE MCPlaybooks ----------------------------
\* Instances of Playbooks for TLC.
EXTENDS Playbooks

CONSTANTS d1, d2, h1, h2, p1

\* The workload's host has both groups, loses one of them, or is gone.
SmallInventories ==
  {[h \in {h1, h2} |-> IF h = h1 THEN g ELSE {"docker_hosts"}] : g \in {Groups, {"debian_hosts"}, None}}
=============================================================================
