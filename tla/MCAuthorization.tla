-------------------------- MODULE MCAuthorization --------------------------
(***************************************************************************)
(* Authorization for model checking.                                       *)
(***************************************************************************)
EXTENDS Authorization, TLC

MCScopes == {"openid", "email"}
\* The last one is refused for the lack of openid.
MCAsked == {{"openid"}, {"openid", "email"}, {"email"}}
Interchangeable == Permutations(Requests) \cup Permutations(Users)
=============================================================================
