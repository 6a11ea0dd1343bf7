-------------------------- MODULE MCMorningUpdates --------------------------
\* Instances of MorningUpdates for TLC.
EXTENDS MorningUpdates

\* Early with the first phase only, or late with both.
EarlyAnsible == [enabled |-> TRUE, runTime |-> 1, phases |-> {"ansible"}]
LateBoth == [enabled |-> TRUE, runTime |-> 2, phases |-> Phases]
TwoConfigs == {EarlyAnsible, LateBoth}
\* A phase in which some checks succeed and some do not.
Mixed == {{"ok", "bad"}}
=============================================================================
