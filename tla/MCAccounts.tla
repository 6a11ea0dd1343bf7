----------------------------- MODULE MCAccounts -----------------------------
(* Two accounts at the start, or none yet. *)
EXTENDS Accounts, TLC

EndpointSymmetry == Permutations(Endpoints)
=============================================================================
