----------------------------- MODULE AppStatus -----------------------------
(***************************************************************************)
(* What the domain model promises about one application: its status moves  *)
(* only along validTransition, it starts as a draft, it is never deleted   *)
(* while it is being provisioned, and its id is never used again.          *)
(***************************************************************************)
EXTENDS Application

CONSTANT Apps

VARIABLE status

Init == status = [a \in Apps |-> "absent"]

Create(a) ==
    /\ status[a] = "absent"
    /\ status' = [status EXCEPT ![a] = "draft"]

Transition(a) ==
    \E to \in Statuses :
        /\ validTransition(status[a], to)
        /\ status' = [status EXCEPT ![a] = to]

Delete(a) ==
    /\ status[a] \in Statuses \ {"provisioning"}
    /\ status' = [status EXCEPT ![a] = "deleted"]

Next == \E a \in Apps : Create(a) \/ Transition(a) \/ Delete(a)

Spec == Init /\ [][Next]_status
=============================================================================
