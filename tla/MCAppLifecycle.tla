--------------------------- MODULE MCAppLifecycle ---------------------------
(***************************************************************************)
(* AppLifecycle for model checking.                                        *)
(***************************************************************************)
EXTENDS AppLifecycle, TLC

\* Requests are interchangeable; so are the editable profiles.
Symmetry == Permutations(Requests) \cup Permutations(Profiles)
=============================================================================
