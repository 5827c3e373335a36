---------------------------- MODULE Application ----------------------------
(***************************************************************************)
(* The application statuses of internal/domain/application.go.             *)
(***************************************************************************)

Statuses == {"draft", "pending_review", "provisioning", "approved",
             "rejected", "changes_requested", "revoked"}

\* "absent" and "deleted" are the statuses of ids that have no row.
NoStatus == {"absent", "deleted"}

\* domain.validTransition
validTransition(from, to) ==
    \/ from = "draft" /\ to \in {"pending_review", "provisioning"}
    \/ from = "pending_review" /\ to \in {"provisioning", "rejected", "changes_requested"}
    \/ from = "provisioning" /\ to \in {"approved", "rejected"}
    \/ from = "approved" /\ to = "revoked"
    \/ from \in {"rejected", "changes_requested"} /\ to = "draft"

\* Application.IsOpen: what counts against the owner's limit.
IsOpen(status) ==
    status \in {"draft", "pending_review", "provisioning", "changes_requested"}
=============================================================================
