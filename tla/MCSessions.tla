----------------------------- MODULE MCSessions -----------------------------
(***************************************************************************)
(* Sessions for model checking.                                            *)
(***************************************************************************)
EXTENDS Sessions, TLC

Symmetry == Permutations(Requests) \cup Permutations(Ids)
=============================================================================
