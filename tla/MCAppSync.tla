----------------------------- MODULE MCAppSync -----------------------------
(***************************************************************************)
(* AppSync for model checking.                                             *)
(***************************************************************************)
EXTENDS AppSync, TLC

\* Requests are interchangeable; so are the editable profiles.
Symmetry == Permutations(Requests) \cup Permutations(Profiles)
=============================================================================
