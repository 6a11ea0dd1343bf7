----------------------------- MODULE MCClients -----------------------------
\* Instances of Clients for TLC.
EXTENDS Clients, TLC
CONSTANTS m1, ap1, fw, s1, r1, r2

\* Nothing tells one request from another.
Sym == Permutations(Requests)
=============================================================================
