---------------------------- MODULE AppLifecycle ----------------------------
(***************************************************************************)
(* The life of an OAuth application in PureConnect: the owner's operations *)
(* (internal/apps/service.go), the reviewer's decisions                    *)
(* (internal/reviews/service.go) and the provisioning worker               *)
(* (internal/apps/provisioner.go) over the PostgreSQL store                *)
(* (internal/store/postgres/postgres.go) and the Hydra admin API.          *)
(*                                                                         *)
(* A request handler reads a row, decides what to do and then makes a      *)
(* sequence of store and Hydra calls.  Each call is atomic; other handlers *)
(* and the worker run between two calls.  A handler in flight is therefore *)
(* the list of calls it still has to make (todo) together with the copy of *)
(* the row it read (copy), and there is one action per kind of call.       *)
(***************************************************************************)
EXTENDS Naturals, Sequences, FiniteSets, Application

CONSTANTS
    Apps,           \* application ids (random, never reused)
    Users,          \* subjects
    Reviewers,      \* subjects for which IsReviewer holds
    Admins,         \* subjects for which IsAdmin holds
    Profiles,       \* the editable data: name, description, logo, callbacks, domains
    Requests,       \* HTTP requests that may be in flight at the same time
    None,           \* the empty string of ids, subjects and profiles
    MaxOpen,        \* Dependencies.MaxOpen
    RequireReview,  \* Dependencies.RequireReview
    MaxClients,     \* bound: Hydra clients ever created
    MaxSecrets,     \* bound: client secrets ever generated
    FaultKinds,     \* the faults considered, a subset of the three below
    MaxFaults       \* bound: faults in a behaviour

ASSUME Assumptions ==
    /\ None \notin Apps \cup Users \cup Profiles
    /\ Reviewers \subseteq Users
    /\ Admins \subseteq Users
    /\ RequireReview \in BOOLEAN
    /\ {MaxOpen, MaxClients, MaxSecrets, MaxFaults} \subseteq Nat
    /\ FaultKinds \subseteq {"fail",   \* a call fails without an effect
                             "lost",   \* a call takes effect and reports an error
                             "crash"}  \* the process restarts

VARIABLES
    apps,      \* table applications: id -> row
    outbox,    \* table outbox_events: id -> state of its provisioning event
    audit,     \* table audit_events: the watched <<action, application_id>> rows
    hydra,     \* the OAuth clients Hydra ever created; the client id is the index
    secrets,   \* number of client secrets generated so far
    cred,      \* Provisioner.credentials: created clients not yet saved
    prov,      \* the worker's RunOnce in progress
    req,       \* the request handlers in flight
    faults     \* number of faults so far

vars == <<apps, outbox, audit, hydra, secrets, cred, prov, req, faults>>

-----------------------------------------------------------------------------
(* Values *)

\* An encrypted secret opens only with the associated data it was sealed with.
Sealed == [secret : Nat, app : Apps \cup {None}, client : Nat]
NoSeal == [secret |-> 0, app |-> None, client |-> 0]
Encrypt(s, a, c) == [secret |-> s, app |-> a, client |-> c]

Row == [owner : Users \cup {None}, status : Statuses \cup NoStatus,
        profile : Profiles \cup {None}, client : Nat, sealed : Sealed,
        reviewedBy : Users \cup {None}]
NoRow(s) == [owner |-> None, status |-> s, profile |-> None, client |-> 0,
             sealed |-> NoSeal, reviewedBy |-> None]

\* box.Decrypt(app.EncryptedClientSecret, secretAssociatedData(app)) succeeds
Decryptable(a, row) ==
    row.sealed.secret # 0 /\ row.sealed.app = a /\ row.sealed.client = row.client

\* A client as Hydra keeps it.  app is the application it was created for,
\* lifespans whether the token strategy and lifespans are configured.
Client == [app : Apps, secret : Nat, profile : Profiles \cup {None},
           lifespans : BOOLEAN, live : BOOLEAN]
Credentials == [client : Nat, secret : Nat]
NoCred == [client |-> 0, secret |-> 0]

\* What a handler still has to do: calls with what they expect and what they set
\* ("-" for nothing).
CallTo(call, pre, post) == [call |-> call, pre |-> pre, post |-> post]
TransitionCall(from, to) == CallTo("transition", from, to)
SaveCall == CallTo("save", "-", "-")
AuditCall(action) == CallTo("audit", "-", action)

Actions == {"application.created", "application.updated", "application.submitted",
            "application.provisioning_started", "application.secret_viewed",
            "application.secret_rotated", "application.revoked", "application.deleted",
            "application.approved", "application.rejected",
            "application.changes_requested"}
\* The audit rows the properties tell apart.
Watched == {"application.deleted"}

Calls ==
    [call : {"create", "save", "deleteClient", "delete"}, pre : {"-"}, post : {"-"}]
    \cup [call : {"get"}, pre : {"-"}, post : {"provisioning", "rejected", "changes_requested"}]
    \cup [call : {"select"}, pre : {"draft"}, post : {"-"}]
    \cup {TransitionCall("draft", "pending_review"), TransitionCall("draft", "provisioning"),
          TransitionCall("pending_review", "provisioning"),
          TransitionCall("pending_review", "rejected"),
          TransitionCall("pending_review", "changes_requested"),
          TransitionCall("approved", "revoked"),
          TransitionCall("rejected", "draft"), TransitionCall("changes_requested", "draft")}
    \cup [call : {"enqueue"}, pre : {"draft", "-"}, post : {"-"}]
    \cup [call : {"updateClient"}, pre : {"-"}, post : {"full", "bare"}]
    \cup [call : {"audit"}, pre : {"-"}, post : Actions]

Request == [actor : Users \cup {None}, id : Apps \cup {None}, copy : Row, todo : Seq(Calls)]
Idle == [actor |-> None, id |-> None, copy |-> NoRow("absent"), todo |-> <<>>]

ProvIdle == [pc |-> "idle", id |-> None, copy |-> NoRow("absent")]
OutboxStates == {"none", "ready", "claimed", "waiting", "done"}

TypeOK ==
    /\ apps \in [Apps -> Row]
    /\ outbox \in [Apps -> OutboxStates]
    /\ audit \subseteq Watched \X (Apps \cup {None})
    /\ hydra \in Seq(Client)
    /\ secrets \in Nat
    /\ cred \in [Apps -> Credentials]
    /\ prov \in [pc : {"idle", "get", "create", "save", "complete", "audit", "retry", "drop"},
                 id : Apps \cup {None}, copy : Row]
    /\ prov.pc # "idle" => prov.id \in Apps
    /\ req \in [Requests -> Request]
    /\ \A r \in Requests : req[r].todo # <<>> => req[r].id \in Apps
    /\ faults \in Nat

Init ==
    /\ apps = [a \in Apps |-> NoRow("absent")]
    /\ outbox = [a \in Apps |-> "none"]
    /\ audit = {}
    /\ hydra = <<>>
    /\ secrets = 0
    /\ cred = [a \in Apps |-> NoCred]
    /\ prov = ProvIdle
    /\ req = [r \in Requests |-> Idle]
    /\ faults = 0

Exists(a) == apps[a].status \in Statuses
InFlight(r) == req[r].todo # <<>>
Fault(kind) == kind \in FaultKinds /\ faults < MaxFaults /\ faults' = faults + 1

-----------------------------------------------------------------------------
(* The operations of apps.Service and reviews.Service.  Each starts with a  *)
(* read of the row and the checks on what it read; a refused request        *)
(* changes nothing and is no step.                                          *)

Begin(r, actor, a, copy, todo) ==
    /\ ~InFlight(r)
    /\ req' = [req EXCEPT ![r] = [actor |-> actor, id |-> a, copy |-> copy, todo |-> todo]]
    /\ UNCHANGED <<apps, outbox, audit, hydra, cred, prov, faults>>

\* startProvisioning(app): Transition (its SELECT is what a rollback restores),
\* Enqueue, audit.
startProvisioning ==
    <<CallTo("select", "draft", "-"), TransitionCall("draft", "provisioning"),
      CallTo("enqueue", "draft", "-"), AuditCall("application.provisioning_started")>>

CountOpenByOwner(u) ==
    Cardinality({a \in Apps : apps[a].owner = u /\ IsOpen(apps[a].status)})

WithinLimit(u) == CountOpenByOwner(u) < MaxOpen

\* The id is fresh: no row, and no other draft being created, has it.
CreateDraft(r) ==
    \E u \in Users, a \in Apps, p \in Profiles :
        /\ WithinLimit(u)
        /\ apps[a].status = "absent"
        /\ \A q \in Requests : req[q].id # a
        /\ Begin(r, u, a, [NoRow("draft") EXCEPT !.owner = u, !.profile = p],
                 <<CallTo("create", "-", "-"), AuditCall("application.created")>>
                     \o (IF RequireReview THEN <<>> ELSE startProvisioning))
        /\ UNCHANGED secrets

editableApplicationStatus == {"draft", "changes_requested", "rejected", "approved"}

\* The edited row, and the calls that publish it: an approved application stays
\* approved and is first updated in Hydra (syncApprovedClient).
editedRowReset(row, p) ==  \* mutant: approved applications are reset as well
    [row EXCEPT !.profile = p, !.status = "draft", !.reviewedBy = None]
editedRow(row, p) ==
    IF row.status = "approved" THEN [row EXCEPT !.profile = p]
    ELSE [row EXCEPT !.profile = p, !.status = "draft", !.reviewedBy = None]
editCallsNoSync(status) ==  \* mutant: Hydra is not told
    <<SaveCall, AuditCall("application.updated")>>
editCalls(status) ==
    IF status = "approved"
    THEN <<CallTo("updateClient", "-", "full"), SaveCall, AuditCall("application.updated")>>
    ELSE <<SaveCall, AuditCall("application.updated")>>

UpdateDraft(r) ==
    \E a \in Apps, p \in Profiles :
        /\ apps[a].status \in editableApplicationStatus
        /\ apps[a].status = "approved" => apps[a].client # 0 /\ Decryptable(a, apps[a])
        /\ Begin(r, apps[a].owner, a, editedRow(apps[a], p), editCalls(apps[a].status))
        /\ UNCHANGED secrets

submitCalls(status) ==
    (IF status = "draft" THEN <<>> ELSE <<TransitionCall(status, "draft")>>)
    \o (IF RequireReview
        THEN <<TransitionCall("draft", "pending_review"), AuditCall("application.submitted")>>
        ELSE startProvisioning)

Submit(r) ==
    \E a \in Apps :
        /\ apps[a].status \in {"draft", "changes_requested", "rejected"}
        /\ Begin(r, apps[a].owner, a, NoRow("absent"), submitCalls(apps[a].status))
        /\ UNCHANGED secrets

ViewSecret(r) ==
    \E a \in Apps :
        /\ apps[a].status = "approved"
        /\ apps[a].client # 0
        /\ Decryptable(a, apps[a])
        /\ Begin(r, apps[a].owner, a, NoRow("absent"),
                 <<AuditCall("application.secret_viewed")>>)
        /\ UNCHANGED secrets

\* The new secret is generated before the call to Hydra and sealed after it; the
\* copy that will be saved already carries it.
rotatedRow(row, a, s) == [row EXCEPT !.sealed = Encrypt(s, a, row.client)]
rotateCallsNoSave ==  \* mutant: the new secret is not stored
    <<CallTo("updateClient", "-", "bare"), AuditCall("application.secret_rotated")>>
rotateCalls ==
    <<CallTo("updateClient", "-", "bare"), SaveCall, AuditCall("application.secret_rotated")>>

RotateSecret(r) ==
    \E a \in Apps :
        /\ apps[a].status = "approved"
        /\ apps[a].client # 0
        /\ secrets < MaxSecrets
        /\ secrets' = secrets + 1
        /\ Begin(r, apps[a].owner, a, rotatedRow(apps[a], a, secrets + 1), rotateCalls)

Revoke(r) ==
    \E a \in Apps :
        /\ apps[a].status = "approved"
        /\ Begin(r, apps[a].owner, a, [NoRow("absent") EXCEPT !.client = apps[a].client],
                 <<CallTo("deleteClient", "-", "-"), TransitionCall("approved", "revoked"),
                   AuditCall("application.revoked")>>)
        /\ UNCHANGED secrets

DeletableAnytime == Statuses  \* mutant
Deletable == Statuses \ {"provisioning"}
deleteCallsAuditLast(status) ==  \* mutant: recorded after the fact
    <<CallTo("delete", "-", "-"), AuditCall("application.deleted")>>
deleteCallsKeepClient(status) ==  \* mutant: the Hydra client is forgotten
    <<AuditCall("application.deleted"), CallTo("delete", "-", "-")>>
deleteCalls(status) ==
    (IF status = "approved" THEN <<CallTo("deleteClient", "-", "-")>> ELSE <<>>)
    \o <<AuditCall("application.deleted"), CallTo("delete", "-", "-")>>

Delete(r) ==
    \E a \in Apps :
        /\ apps[a].status \in Deletable
        /\ apps[a].status = "approved" => apps[a].client # 0
        /\ Begin(r, apps[a].owner, a, [NoRow("absent") EXCEPT !.client = apps[a].client],
                 deleteCalls(apps[a].status))
        /\ UNCHANGED secrets

mayReviewAny(u, a) == u \in Reviewers \cup Admins  \* mutant: one's own application too
mayReview(u, a) ==
    /\ u \in Reviewers \cup Admins
    /\ apps[a].owner = u => u \in Admins

\* prepareReview reads the row and checks it; the first of the calls reads it again.
prepareReview(r, todo) ==
    \E a \in Apps, u \in Users :
        /\ mayReview(u, a)
        /\ apps[a].status = "pending_review"
        /\ Begin(r, u, a, NoRow("absent"), todo)
        /\ UNCHANGED secrets

decide(r, target, action) ==
    prepareReview(r,
        <<CallTo("get", "-", target), TransitionCall("pending_review", target), SaveCall,
          AuditCall(action)>>)

Approve(r) ==
    prepareReview(r,
        <<CallTo("get", "-", "provisioning"), TransitionCall("pending_review", "provisioning"),
          SaveCall, CallTo("enqueue", "-", "-"), AuditCall("application.approved")>>)

Reject(r) == decide(r, "rejected", "application.rejected")
RequestChanges(r) == decide(r, "changes_requested", "application.changes_requested")

-----------------------------------------------------------------------------
(* The calls a handler makes, and how it goes on. *)

NextCall(r, call) == InFlight(r) /\ Head(req[r].todo).call = call

\* The call succeeded; c is the handler's copy of the row from now on.
Advance(r, c) ==
    req' = [req EXCEPT ![r] =
                IF Tail(req[r].todo) = <<>> THEN Idle
                ELSE [req[r] EXCEPT !.copy = c, !.todo = Tail(req[r].todo)]]

OnErrorReturn(r) == req' = [req EXCEPT ![r] = Idle]  \* mutant: no rollback

\* The call returned an error.  Every handler returns it, except that
\* startProvisioning puts the row back when Enqueue fails.
OnError(r) ==
    req' = [req EXCEPT ![r] =
                IF Head(req[r].todo) = CallTo("enqueue", "draft", "-")
                THEN [req[r] EXCEPT !.todo = <<SaveCall>>]
                ELSE Idle]

\* A call that took effect is answered, or its answer is lost.
Reply(r, c) ==
    \/ Advance(r, c) /\ UNCHANGED faults
    \/ OnError(r) /\ Fault("lost")

Refused(r) == OnError(r) /\ UNCHANGED <<apps, outbox, audit, hydra, faults>>

CallFails(r) ==
    /\ InFlight(r)
    /\ OnError(r)
    /\ Fault("fail")
    /\ UNCHANGED <<apps, outbox, audit, hydra, secrets, cred, prov>>

\* Store.Create
StoreCreate(r) ==
    /\ NextCall(r, "create")
    /\ apps' = [apps EXCEPT ![req[r].id] = req[r].copy]
    /\ Reply(r, NoRow("absent"))
    /\ UNCHANGED <<outbox, audit, hydra>>

\* Store.Get, the review's second read; the decision is written into the copy.
StoreGet(r) ==
    /\ NextCall(r, "get")
    /\ LET row == apps[req[r].id] IN
       IF Exists(req[r].id)
       THEN /\ Advance(r, [row EXCEPT !.status = Head(req[r].todo).post,
                                      !.reviewedBy = req[r].actor])
            /\ UNCHANGED <<apps, outbox, audit, hydra, faults>>
       ELSE Refused(r)

\* The SELECT of the Store.Transition that startProvisioning makes.
StoreSelect(r) ==
    /\ NextCall(r, "select")
    /\ IF apps[req[r].id].status = Head(req[r].todo).pre
       THEN Advance(r, apps[req[r].id]) /\ UNCHANGED <<apps, outbox, audit, hydra, faults>>
       ELSE Refused(r)

\* Store.Transition: UPDATE ... SET status = to WHERE id = id AND status = from
StoreTransition(r) ==
    /\ NextCall(r, "transition")
    /\ LET id == req[r].id
           from == Head(req[r].todo).pre
           to == Head(req[r].todo).post
       IN IF apps[id].status = from /\ validTransition(from, to)
          THEN /\ apps' = [apps EXCEPT ![id].status = to]
               /\ Reply(r, req[r].copy)
               /\ UNCHANGED <<outbox, audit, hydra>>
          ELSE Refused(r)

\* Store.Save: the whole row, whatever the table holds by now.
StoreSave(r) ==
    /\ NextCall(r, "save")
    /\ IF Exists(req[r].id)
       THEN /\ apps' = [apps EXCEPT ![req[r].id] = req[r].copy]
            /\ Reply(r, NoRow("absent"))
            /\ UNCHANGED <<outbox, audit, hydra>>
       ELSE Refused(r)

\* OutboxStore.Enqueue: ON CONFLICT (idempotency_key) DO NOTHING
StoreEnqueue(r) ==
    /\ NextCall(r, "enqueue")
    /\ IF Exists(req[r].id)
       THEN /\ outbox' = [outbox EXCEPT ![req[r].id] = IF @ = "none" THEN "ready" ELSE @]
            /\ Reply(r, req[r].copy)
            /\ UNCHANGED <<apps, audit, hydra>>
       ELSE Refused(r)

\* AuditStore.Append; the foreign key refuses the id of a missing application.
StoreAudit(r) ==
    /\ NextCall(r, "audit")
    /\ IF Exists(req[r].id)
       THEN /\ audit' = audit \cup (({Head(req[r].todo).post} \cap Watched) \X {req[r].id})
            /\ Reply(r, req[r].copy)
            /\ UNCHANGED <<apps, outbox, hydra>>
       ELSE Refused(r)

\* Store.Delete with what the schema does: outbox_events ON DELETE CASCADE,
\* audit_events.application_id ON DELETE SET NULL.
StoreDelete(r) ==
    /\ NextCall(r, "delete")
    /\ LET id == req[r].id IN
       IF Exists(id)
       THEN /\ apps' = [apps EXCEPT ![id] = NoRow("deleted")]
            /\ outbox' = [outbox EXCEPT ![id] = "none"]
            /\ audit' = {<<e[1], IF e[2] = id THEN None ELSE e[2]>> : e \in audit}
            /\ Reply(r, NoRow("absent"))
            /\ UNCHANGED hydra
       ELSE Refused(r)

\* hydra.UpdateClient: a PUT that replaces the client's configuration.
UpdateClient(r) ==
    /\ NextCall(r, "updateClient")
    /\ LET copy == req[r].copy IN
       IF hydra[copy.client].live
       THEN /\ hydra' = [hydra EXCEPT ![copy.client] =
                            [@ EXCEPT !.secret = copy.sealed.secret, !.profile = copy.profile,
                                      !.lifespans = (Head(req[r].todo).post = "full")]]
            /\ Reply(r, copy)
            /\ UNCHANGED <<apps, outbox, audit>>
       ELSE Refused(r)

\* hydra.DeleteClient; deleting a missing client is an error.
DeleteClient(r) ==
    /\ NextCall(r, "deleteClient")
    /\ LET c == req[r].copy.client IN
       IF hydra[c].live
       THEN /\ hydra' = [hydra EXCEPT ![c].live = FALSE]
            /\ Reply(r, NoRow("absent"))
            /\ UNCHANGED <<apps, outbox, audit>>
       ELSE Refused(r)

Step(r) ==
    /\ \/ StoreCreate(r) \/ StoreGet(r) \/ StoreSelect(r) \/ StoreTransition(r)
       \/ StoreSave(r) \/ StoreEnqueue(r) \/ StoreAudit(r) \/ StoreDelete(r)
       \/ UpdateClient(r) \/ DeleteClient(r)
    /\ UNCHANGED <<secrets, cred, prov>>

-----------------------------------------------------------------------------
(* Provisioner.RunOnce, run by a single goroutine. *)

Worker(pc) == prov.pc = pc
Goto(pc) == prov' = [prov EXCEPT !.pc = pc]

ClaimedLosesId(a) == [ProvIdle EXCEPT !.pc = "get"]  \* mutant
Claimed(a) == [ProvIdle EXCEPT !.pc = "get", !.id = a]

\* OutboxStore.ClaimNext
ClaimNext(a) ==
    /\ Worker("idle")
    /\ outbox[a] = "ready"
    /\ outbox' = [outbox EXCEPT ![a] = "claimed"]
    /\ \/ prov' = Claimed(a) /\ UNCHANGED faults
       \/ UNCHANGED prov /\ Fault("lost")
    /\ UNCHANGED <<apps, audit, hydra, secrets, cred, req>>

\* The row the worker is going to save.
WithCredentialsSealedEarly(row, a, cr) ==  \* mutant: sealed before the id is set
    [row EXCEPT !.client = cr.client, !.sealed = Encrypt(cr.secret, a, row.client),
                !.status = "approved"]
WithCredentials(row, a, cr) ==
    [row EXCEPT !.client = cr.client, !.sealed = Encrypt(cr.secret, a, cr.client),
                !.status = "approved"]

\* p.credentials[app.ID]
keptCredentialsNone(a) == NoCred  \* mutant: every attempt creates a client
keptCredentialsAny(a) ==          \* mutant: one slot for all applications
    IF \A b \in Apps : cred[b] = NoCred THEN NoCred
    ELSE cred[CHOOSE b \in Apps : cred[b] # NoCred]
keptCredentials(a) == cred[a]

provisionableAny(row) == row.status \in Statuses  \* mutant: no status check
provisionable(row) == row.status = "provisioning"

GetApplication ==
    /\ Worker("get")
    /\ LET a == prov.id
           cr == keptCredentials(a)
       IN \/ ~Exists(a) /\ Goto("retry") /\ UNCHANGED cred
          \/ /\ Exists(a) /\ ~provisionable(apps[a])
             /\ cred' = [cred EXCEPT ![a] = NoCred]
             /\ Goto("drop")
          \/ /\ provisionable(apps[a])
             /\ prov' = IF cr = NoCred
                        THEN [prov EXCEPT !.pc = "create", !.copy = apps[a]]
                        ELSE [prov EXCEPT !.pc = "save",
                                          !.copy = WithCredentials(apps[a], a, cr)]
             /\ UNCHANGED cred
    /\ UNCHANGED <<apps, outbox, audit, hydra, secrets, req, faults>>

\* hydra.CreateClient; an answer that is lost leaves the client in Hydra.
CreateClient ==
    /\ Worker("create")
    /\ Len(hydra) < MaxClients
    /\ secrets < MaxSecrets
    /\ secrets' = secrets + 1
    /\ hydra' = Append(hydra, [app |-> prov.id, secret |-> secrets + 1,
                               profile |-> prov.copy.profile,
                               lifespans |-> TRUE, live |-> TRUE])
    /\ LET cr == [client |-> Len(hydra) + 1, secret |-> secrets + 1] IN
       \/ /\ cred' = [cred EXCEPT ![prov.id] = cr]
          /\ prov' = [prov EXCEPT !.pc = "save",
                                  !.copy = WithCredentials(prov.copy, prov.id, cr)]
          /\ UNCHANGED faults
       \/ Goto("retry") /\ Fault("lost") /\ UNCHANGED cred
    /\ UNCHANGED <<apps, outbox, audit, req>>

SaveApproved ==
    /\ Worker("save")
    /\ LET a == prov.id IN
       \/ /\ ~Exists(a)
          /\ Goto("retry")
          /\ UNCHANGED <<apps, cred, faults>>
       \/ /\ Exists(a)
          /\ apps' = [apps EXCEPT ![a] = prov.copy]
          /\ \/ cred' = [cred EXCEPT ![a] = NoCred] /\ Goto("complete") /\ UNCHANGED faults
             \/ Goto("retry") /\ Fault("lost") /\ UNCHANGED cred
    /\ UNCHANGED <<outbox, audit, hydra, secrets, req>>

\* OutboxStore.Complete, after the save ("complete") or for an event whose
\* application is no longer provisioning ("drop"); then, after the save, the audit.
Complete ==
    /\ Worker("complete") \/ Worker("drop")
    /\ outbox' = [outbox EXCEPT ![prov.id] = IF @ = "none" THEN @ ELSE "done"]
    /\ prov' = IF Worker("complete") /\ outbox[prov.id] \notin {"none", "done"}
               THEN [prov EXCEPT !.pc = "audit"] ELSE ProvIdle
    /\ UNCHANGED <<apps, audit, hydra, secrets, cred, req, faults>>

AuditProvisioned ==
    /\ Worker("audit")
    /\ prov' = ProvIdle
    /\ UNCHANGED <<apps, outbox, audit, hydra, secrets, cred, req, faults>>

\* retry: OutboxStore.Retry, a minute later
Retry ==
    /\ Worker("retry")
    /\ outbox' = [outbox EXCEPT ![prov.id] = IF @ \in {"none", "done"} THEN @ ELSE "waiting"]
    /\ prov' = ProvIdle
    /\ UNCHANGED <<apps, audit, hydra, secrets, cred, req, faults>>

\* A call of the worker fails without effect.  Reading, creating and saving are
\* retried; an error of Complete, Retry or the audit ends RunOnce.
afterFailureDrop(pc) ==  \* mutant: a failed attempt gives up its event
    IF pc \in {"get", "create", "save"} THEN [prov EXCEPT !.pc = "drop"] ELSE ProvIdle
afterFailure(pc) ==
    IF pc \in {"get", "create", "save"} THEN [prov EXCEPT !.pc = "retry"] ELSE ProvIdle

WorkerCallFails ==
    /\ ~Worker("idle")
    /\ prov' = afterFailure(prov.pc)
    /\ Fault("fail")
    /\ UNCHANGED <<apps, outbox, audit, hydra, secrets, cred, req>>

RunOnce == GetApplication \/ CreateClient \/ SaveApproved \/ Complete
           \/ AuditProvisioned \/ Retry

-----------------------------------------------------------------------------
(* Time and restarts. *)

\* available_at passes
RetryDelayPasses(a) ==
    /\ outbox[a] = "waiting"
    /\ outbox' = [outbox EXCEPT ![a] = "ready"]
    /\ UNCHANGED <<apps, audit, hydra, secrets, cred, prov, req, faults>>

ClaimNeverTimesOut(a) == FALSE  \* mutant: a claim never expires

\* claimed_at falls behind outboxClaimTimeout
ClaimTimesOut(a) ==
    /\ outbox[a] = "claimed"
    /\ outbox' = [outbox EXCEPT ![a] = "ready"]
    /\ UNCHANGED <<apps, audit, hydra, secrets, cred, prov, req, faults>>

\* The process stops and starts again: handlers, RunOnce and the worker's
\* credentials are lost, PostgreSQL and Hydra are not.
Crash ==
    /\ Fault("crash")
    /\ req' = [r \in Requests |-> Idle]
    /\ prov' = ProvIdle
    /\ cred' = [a \in Apps |-> NoCred]
    /\ UNCHANGED <<apps, outbox, audit, hydra, secrets>>

-----------------------------------------------------------------------------

Start(r) ==
    \/ CreateDraft(r) \/ UpdateDraft(r) \/ Submit(r) \/ ViewSecret(r)
    \/ RotateSecret(r) \/ Revoke(r) \/ Delete(r)
    \/ Approve(r) \/ Reject(r) \/ RequestChanges(r)

Next ==
    \/ \E r \in Requests : Start(r) \/ Step(r) \/ CallFails(r)
    \/ \E a \in Apps : ClaimNext(a) \/ RetryDelayPasses(a) \/ ClaimTimesOut(a)
    \/ RunOnce
    \/ WorkerCallFails
    \/ Crash

Spec == Init /\ [][Next]_vars

-----------------------------------------------------------------------------
(* Properties that hold whatever is interleaved, lost or restarted. *)

\* Owners can always read the secret of a provisioned application: the stored
\* ciphertext opens with the associated data of the row that holds it
\* (ViewSecret, syncApprovedClient), although whole rows are saved from copies
\* read earlier and the worker seals the secret before the row has its client id.
StoredSecretOpens ==
    \A a \in Apps :
        apps[a].status \in {"approved", "revoked"} =>
            apps[a].client # 0 /\ Decryptable(a, apps[a])

\* A row never names a Hydra client that was created for another application,
\* so that Save cannot hit UNIQUE (client_id) and Delete cannot remove a
\* stranger's client, although credentials pass through Provisioner.credentials,
\* the worker's copy and the handlers' copies.
ClientBelongsToApp ==
    \A a \in Apps :
        apps[a].client # 0 =>
            apps[a].client \in DOMAIN hydra /\ hydra[apps[a].client].app = a

\* The reviewer recorded on a row is not its owner unless the owner is an
\* administrator (prepareReview), although the check and the write are separated
\* by a second read and a whole-row save.
IndependentReview ==
    \A a \in Apps :
        apps[a].reviewedBy # None =>
            /\ apps[a].reviewedBy \in Reviewers \cup Admins
            /\ apps[a].reviewedBy = apps[a].owner => apps[a].reviewedBy \in Admins

\* A row disappears only after its deletion was recorded (Delete writes the
\* audit event first), however deletions of the same row overlap.
DeletionAudited ==
    [][\A a \in Apps :
          Exists(a) /\ ~Exists(a)' => <<"application.deleted", a>> \in audit]_vars

\* The same of every copy of a row that is still to be saved, and of the
\* credentials the worker keeps: an inductive invariant.
SoundRow(a, row) ==
    /\ row.status \in {"approved", "revoked"} => row.client # 0 /\ Decryptable(a, row)
    /\ row.client # 0 => row.client \in DOMAIN hydra /\ hydra[row.client].app = a

CredentialInv ==
    /\ \A a \in Apps : SoundRow(a, apps[a])
    /\ \A r \in Requests : InFlight(r) => SoundRow(req[r].id, req[r].copy)
    /\ prov.pc # "idle" => SoundRow(prov.id, prov.copy)
    /\ \A a \in Apps :
          cred[a] # NoCred =>
              /\ cred[a].secret # 0
              /\ cred[a].client \in DOMAIN hydra
              /\ hydra[cred[a].client].app = a

-----------------------------------------------------------------------------
(* Properties of requests that do not overlap.  The runs that check them    *)
(* have a single request at a time; some hold under faults as well.         *)

\* The statuses follow the domain's state machine, whatever the order of saves,
\* transitions, retries and restarts: Save writes a status without checking the
\* one it replaces, so this rests on who may write when.
Machine == INSTANCE AppStatus WITH status <- [a \in Apps |-> apps[a].status]
StatusMachine == Machine!Spec

\* No credentials are stored before the application has been provisioned
\* (Approve and decide save a copy of the row as their second read found it).
NoCredentialsBeforeApproval ==
    \A a \in Apps :
        apps[a].status \notin {"approved", "revoked"} =>
            apps[a].client = 0 /\ apps[a].sealed = NoSeal

ClientsOf(a) == {c \in DOMAIN hydra : hydra[c].app = a}

\* Repeating the provisioning task creates no second Hydra client: a retry uses
\* the credentials kept by the worker.
AtMostOneClient == \A a \in Apps : Cardinality(ClientsOf(a)) <= 1

\* Every client Hydra still serves is known to its application's row or is about
\* to be saved by the worker: nothing is left behind by Delete, Revoke or a retry.
NoOrphanClient ==
    \A a \in Apps : \A c \in ClientsOf(a) :
        hydra[c].live => c = apps[a].client \/ (Exists(a) /\ c = cred[a].client)

\* An application being provisioned has an event that will make the worker go on,
\* or a handler that is about to enqueue it or to put the row back.
NoStrandedProvisioning ==
    \A a \in Apps :
        apps[a].status = "provisioning" =>
            \/ outbox[a] \in {"ready", "claimed", "waiting"}
            \/ \E r \in Requests :
                  /\ req[r].id = a
                  /\ \/ \E i \in DOMAIN req[r].todo : req[r].todo[i].call = "enqueue"
                     \/ req[r].todo = <<SaveCall>>

\* When Delete is about to remove the row, nothing is left to clean up: the row is
\* not being provisioned and Hydra no longer serves its client.  The status was
\* looked at when Delete began.
DeleteLeavesNothing ==
    \A r \in Requests :
        (NextCall(r, "delete") /\ Exists(req[r].id)) =>
            LET row == apps[req[r].id] IN
            /\ row.status # "provisioning"
            /\ row.client # 0 => ~hydra[row.client].live

-----------------------------------------------------------------------------
(* What the documentation says and the code does not keep. *)

\* An owner never has more open applications than the limit.  CreateDraft counts
\* before the insert; UpdateDraft and Submit reopen a rejected application, and
\* no constraint of the table counts at all.
OpenWithinLimit == \A u \in Users : CountOpenByOwner(u) <= MaxOpen

\* A secret that was replaced in Hydra does not come back (secrets are numbered
\* in the order in which they are generated).
ReplacedSecretStaysInvalid ==
    [][\A c \in DOMAIN hydra : hydra'[c].secret >= hydra[c].secret]_vars

-----------------------------------------------------------------------------
(* Liveness.  The worker's goroutine ticks every second, the clock goes on,  *)
(* ClaimNext takes the oldest event first, and a started handler runs on.    *)

Fairness ==
    /\ WF_vars(RunOnce)
    /\ \A a \in Apps : /\ SF_vars(ClaimNext(a))
                       /\ WF_vars(RetryDelayPasses(a))
                       /\ WF_vars(ClaimTimesOut(a))
    /\ \A r \in Requests : WF_vars(Step(r))

FairSpec == Spec /\ Fairness

\* An event that is waiting to be handled is handled, across failures, lost
\* answers and restarts, or goes with its application.
EventsDrain ==
    \A a \in Apps :
        outbox[a] \in {"ready", "claimed", "waiting"} ~> outbox[a] \in {"none", "done"}

\* An application in provisioning whose event is queued becomes approved.
ProvisioningCompletes ==
    \A a \in Apps :
        (apps[a].status = "provisioning" /\ outbox[a] \in {"ready", "claimed", "waiting"})
            ~> apps[a].status = "approved"
=============================================================================
