----------------------------- MODULE MCOneTime -----------------------------
(***************************************************************************)
(* OneTime for model checking.                                             *)
(***************************************************************************)
EXTENDS OneTime, TLC

Interchangeable == Permutations(Handlers)
=============================================================================
