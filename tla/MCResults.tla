----------------------------- MODULE MCResults -----------------------------
(* Two Compose projects on one host, three jobs and an inventory refresh. *)
EXTENDS Results, TLC

ProjectSymmetry == Permutations(Projects)

\* One result, and two of which the first or the second counts.
LayoutsMC == {<<"stats">>, <<"msg", "stats">>, <<"direct", "msg">>, <<"marker", "marker">>}
=============================================================================
