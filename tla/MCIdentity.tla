----------------------------- MODULE MCIdentity -----------------------------
(***************************************************************************)
(* Identity for model checking.                                            *)
(***************************************************************************)
EXTENDS Identity

Newcomer == [id |-> 7, level |-> 2, active |-> TRUE, locked |-> FALSE, silenced |-> FALSE,
             suspended |-> FALSE, penalties |-> 0, period |-> 100,
             current |-> [k \in Keys |-> 1], target |-> [k \in Keys |-> 1]]

\* The member is promoted to level 3.
MCHistory == <<Newcomer, [Newcomer EXCEPT !.level = 3]>>
=============================================================================
