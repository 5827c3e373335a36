------------------------- MODULE AppLifecycleProofs -------------------------
(***************************************************************************)
(* Theorems about AppLifecycle, for every set of applications, users,      *)
(* requests and faults.                                                    *)
(***************************************************************************)
EXTENDS AppLifecycle, SequenceTheorems, TLAPS

(* The calls the handlers make are well typed. *)
LEMMA CallTypes ==
    /\ \A k \in {"create", "save", "deleteClient", "delete"} : CallTo(k, "-", "-") \in Calls
    /\ \A s \in {"provisioning", "rejected", "changes_requested"} :
          /\ CallTo("get", "-", s) \in Calls
          /\ TransitionCall("pending_review", s) \in Calls
    /\ CallTo("select", "draft", "-") \in Calls
    /\ TransitionCall("draft", "pending_review") \in Calls
    /\ TransitionCall("draft", "provisioning") \in Calls
    /\ TransitionCall("approved", "revoked") \in Calls
    /\ \A s \in {"rejected", "changes_requested"} : TransitionCall(s, "draft") \in Calls
    /\ CallTo("enqueue", "draft", "-") \in Calls
    /\ CallTo("enqueue", "-", "-") \in Calls
    /\ CallTo("updateClient", "-", "full") \in Calls
    /\ CallTo("updateClient", "-", "bare") \in Calls
    /\ \A act \in Actions : AuditCall(act) \in Calls
    /\ SaveCall \in Calls
  BY DEF Calls, CallTo, TransitionCall, AuditCall, SaveCall

LEMMA ShortSeqs ==
    /\ <<>> \in Seq(Calls)
    /\ \A c1 \in Calls : <<c1>> \in Seq(Calls)
    /\ \A c1, c2 \in Calls : <<c1, c2>> \in Seq(Calls)
    /\ \A c1, c2, c3 \in Calls : <<c1, c2, c3>> \in Seq(Calls)
    /\ \A c1, c2, c3, c4 \in Calls : <<c1, c2, c3, c4>> \in Seq(Calls)
    /\ \A c1, c2, c3, c4, c5 \in Calls : <<c1, c2, c3, c4, c5>> \in Seq(Calls)
  OBVIOUS

LEMMA AuditTypes ==
    /\ AuditCall("application.created") \in Calls
    /\ AuditCall("application.updated") \in Calls
    /\ AuditCall("application.submitted") \in Calls
    /\ AuditCall("application.provisioning_started") \in Calls
    /\ AuditCall("application.secret_viewed") \in Calls
    /\ AuditCall("application.secret_rotated") \in Calls
    /\ AuditCall("application.revoked") \in Calls
    /\ AuditCall("application.deleted") \in Calls
    /\ AuditCall("application.approved") \in Calls
    /\ AuditCall("application.rejected") \in Calls
    /\ AuditCall("application.changes_requested") \in Calls
  BY CallTypes DEF Actions

(* Whatever a handler sets out to do is a list of calls. *)
LEMMA TodoTypes ==
    /\ startProvisioning \in Seq(Calls)
    /\ \A s : editCalls(s) \in Seq(Calls)
    /\ \A s \in {"draft", "rejected", "changes_requested"} : submitCalls(s) \in Seq(Calls)
    /\ \A s : deleteCalls(s) \in Seq(Calls)
    /\ rotateCalls \in Seq(Calls)
    /\ <<SaveCall>> \in Seq(Calls)
  <1>1. startProvisioning \in Seq(Calls)
    BY CallTypes, AuditTypes, ShortSeqs DEF startProvisioning
  <1>2. \A s : editCalls(s) \in Seq(Calls)
    BY CallTypes, AuditTypes, ShortSeqs DEF editCalls
  <1>3. ASSUME NEW s \in {"draft", "rejected", "changes_requested"}
        PROVE  submitCalls(s) \in Seq(Calls)
    <2> DEFINE first == IF s = "draft" THEN <<>> ELSE <<TransitionCall(s, "draft")>>
    <2> DEFINE then == IF RequireReview
                       THEN <<TransitionCall("draft", "pending_review"),
                              AuditCall("application.submitted")>>
                       ELSE startProvisioning
    <2>1. first \in Seq(Calls)
      BY CallTypes, ShortSeqs
    <2>2. then \in Seq(Calls)
      BY <1>1, CallTypes, AuditTypes, ShortSeqs
    <2>3. submitCalls(s) = first \o then
      BY DEF submitCalls
    <2> HIDE DEF first, then
    <2> QED BY <2>1, <2>2, <2>3, ConcatProperties
  <1>4. ASSUME NEW s
        PROVE  deleteCalls(s) \in Seq(Calls)
    <2> DEFINE first == IF s = "approved" THEN <<CallTo("deleteClient", "-", "-")>> ELSE <<>>
    <2> DEFINE then == <<AuditCall("application.deleted"), CallTo("delete", "-", "-")>>
    <2>1. first \in Seq(Calls)
      BY CallTypes, ShortSeqs
    <2>2. then \in Seq(Calls)
      BY CallTypes, AuditTypes, ShortSeqs
    <2>3. deleteCalls(s) = first \o then
      BY DEF deleteCalls
    <2> HIDE DEF first, then
    <2> QED BY <2>1, <2>2, <2>3, ConcatProperties
  <1>5. rotateCalls \in Seq(Calls)
    BY CallTypes, AuditTypes, ShortSeqs DEF rotateCalls
  <1>6. <<SaveCall>> \in Seq(Calls)
    BY CallTypes, ShortSeqs
  <1> QED BY <1>1, <1>2, <1>3, <1>4, <1>5, <1>6

-----------------------------------------------------------------------------
(* Type correctness. *)

ReqType ==
    /\ req \in [Requests -> Request]
    /\ \A r \in Requests : req[r].todo # <<>> => req[r].id \in Apps

LEMMA RowTypes ==
    /\ NoSeal \in Sealed
    /\ \A s \in Statuses \cup NoStatus : NoRow(s) \in Row
    /\ Idle \in Request
    /\ Idle.todo = <<>>
  <1>1. NoSeal \in Sealed
    BY DEF NoSeal, Sealed
  <1>2. \A s \in Statuses \cup NoStatus : NoRow(s) \in Row
    BY <1>1 DEF NoRow, Row
  <1>3. Idle \in Request
    BY <1>2, ShortSeqs DEF Idle, Request, NoStatus
  <1> QED BY <1>1, <1>2, <1>3 DEF Idle

(* What is known of a handler in flight. *)
LEMMA HandlerTypes ==
    ASSUME TypeOK, NEW r \in Requests, InFlight(r)
    PROVE  /\ Head(req[r].todo) \in Calls
           /\ Tail(req[r].todo) \in Seq(Calls)
           /\ req[r].id \in Apps
           /\ req[r].copy \in Row
           /\ req[r].actor \in Users \cup {None}
  <1>1. req[r] \in Request /\ req[r].todo # <<>> /\ req[r].id \in Apps
    BY DEF TypeOK, InFlight
  <1>2. req[r].todo \in Seq(Calls)
    BY <1>1 DEF Request
  <1>3. Head(req[r].todo) \in Calls /\ Tail(req[r].todo) \in Seq(Calls)
    BY <1>1, <1>2, HeadTailProperties
  <1> QED BY <1>1, <1>3 DEF Request

LEMMA BeginType ==
    ASSUME TypeOK, NEW r \in Requests, NEW actor \in Users \cup {None}, NEW a \in Apps,
           NEW copy \in Row, NEW todo \in Seq(Calls), Begin(r, actor, a, copy, todo),
           secrets' \in Nat
    PROVE  TypeOK'
  <1>1. [actor |-> actor, id |-> a, copy |-> copy, todo |-> todo] \in Request
    BY DEF Request
  <1>2. req' \in [Requests -> Request]
        /\ \A q \in Requests : req'[q].todo # <<>> => req'[q].id \in Apps
    BY <1>1 DEF TypeOK, Begin
  <1> QED BY <1>2 DEF TypeOK, Begin

LEMMA AdvanceType ==
    ASSUME TypeOK, NEW r \in Requests, InFlight(r), NEW c \in Row, Advance(r, c)
    PROVE  ReqType'
  <1>1. req \in [Requests -> Request]
    BY DEF TypeOK
  <1>2. req[r] \in Request
    BY <1>1
  <1> DEFINE new == [req[r] EXCEPT !.copy = c, !.todo = Tail(req[r].todo)]
  <1>3. new \in Request /\ new.id \in Apps
    BY <1>2, HandlerTypes DEF Request
  <1> HIDE DEF new
  <1>4. req' = [req EXCEPT ![r] = IF Tail(req[r].todo) = <<>> THEN Idle ELSE new]
    BY DEF Advance, new
  <1> QED BY <1>1, <1>3, <1>4, RowTypes DEF ReqType, TypeOK

LEMMA OnErrorType ==
    ASSUME TypeOK, NEW r \in Requests, InFlight(r), OnError(r)
    PROVE  ReqType'
  <1>1. req \in [Requests -> Request]
    BY DEF TypeOK
  <1>2. req[r] \in Request
    BY <1>1
  <1> DEFINE new == [req[r] EXCEPT !.todo = <<SaveCall>>]
  <1>3. new \in Request /\ new.id \in Apps
    BY <1>2, HandlerTypes, TodoTypes DEF Request
  <1> HIDE DEF new
  <1>4. \/ req' = [req EXCEPT ![r] = Idle]
        \/ req' = [req EXCEPT ![r] = new]
    BY DEF OnError, new
  <1> QED BY <1>1, <1>3, <1>4, RowTypes DEF ReqType, TypeOK

LEMMA ReplyType ==
    ASSUME TypeOK, NEW r \in Requests, InFlight(r), NEW c \in Row, Reply(r, c)
    PROVE  ReqType' /\ faults' \in Nat
  <1>1. CASE Advance(r, c) /\ UNCHANGED faults
    BY <1>1, AdvanceType DEF TypeOK
  <1>2. CASE OnError(r) /\ Fault("lost")
    BY <1>2, OnErrorType DEF TypeOK, Fault
  <1> QED BY <1>1, <1>2 DEF Reply

LEMMA RefusedType ==
    ASSUME TypeOK, NEW r \in Requests, InFlight(r), Refused(r),
           UNCHANGED <<secrets, cred, prov>>
    PROVE  TypeOK'
  <1>1. ReqType'
    BY OnErrorType DEF Refused
  <1> QED BY <1>1 DEF TypeOK, Refused, ReqType

(* The operations that start a handler. *)
LEMMA StartType ==
    ASSUME TypeOK, NEW r \in Requests, Start(r)
    PROVE  TypeOK'
  <1> USE DEF Statuses, NoStatus
  <1>1. \A a \in Apps : apps[a] \in Row
    BY DEF TypeOK
  <1>2. \A a \in Apps : apps[a].owner \in Users \cup {None} /\ apps[a].client \in Nat
    BY <1>1 DEF Row
  <1>3. NoRow("absent") \in Row
    BY RowTypes
  <1>4. \A n \in Nat : [NoRow("absent") EXCEPT !.client = n] \in Row
    BY <1>3 DEF Row
  <1>5. CASE CreateDraft(r)
    <2>1. PICK u \in Users, a \in Apps, p \in Profiles :
             /\ Begin(r, u, a, [NoRow("draft") EXCEPT !.owner = u, !.profile = p],
                      <<CallTo("create", "-", "-"), AuditCall("application.created")>>
                          \o (IF RequireReview THEN <<>> ELSE startProvisioning))
             /\ UNCHANGED secrets
      BY <1>5 DEF CreateDraft
    <2> DEFINE first == <<CallTo("create", "-", "-"), AuditCall("application.created")>>
    <2> DEFINE then == IF RequireReview THEN <<>> ELSE startProvisioning
    <2> DEFINE row == [NoRow("draft") EXCEPT !.owner = u, !.profile = p]
    <2>2. first \in Seq(Calls) /\ then \in Seq(Calls)
      BY CallTypes, AuditTypes, ShortSeqs, TodoTypes
    <2>3. row \in Row
      <3>1. NoRow("draft") \in Row
        BY RowTypes
      <3> QED BY <3>1 DEF Row
    <2>4. Begin(r, u, a, row, first \o then) /\ UNCHANGED secrets
      BY <2>1
    <2> HIDE DEF first, then, row
    <2>5. first \o then \in Seq(Calls)
      BY <2>2, ConcatProperties
    <2> QED BY <2>3, <2>4, <2>5, BeginType DEF TypeOK
  <1>6. CASE UpdateDraft(r)
    <2>1. PICK a \in Apps, p \in Profiles :
             /\ Begin(r, apps[a].owner, a, editedRow(apps[a], p), editCalls(apps[a].status))
             /\ UNCHANGED secrets
      BY <1>6 DEF UpdateDraft
    <2>2. editedRow(apps[a], p) \in Row
      BY <1>1 DEF editedRow, Row
    <2>3. editCalls(apps[a].status) \in Seq(Calls)
      BY TodoTypes
    <2> QED BY <1>2, <2>1, <2>2, <2>3, BeginType DEF TypeOK
  <1>7. CASE Submit(r)
    <2>1. PICK a \in Apps :
             /\ apps[a].status \in {"draft", "changes_requested", "rejected"}
             /\ Begin(r, apps[a].owner, a, NoRow("absent"), submitCalls(apps[a].status))
             /\ UNCHANGED secrets
      BY <1>7 DEF Submit
    <2>2. submitCalls(apps[a].status) \in Seq(Calls)
      BY <2>1, TodoTypes
    <2> QED BY <1>2, <1>3, <2>1, <2>2, BeginType DEF TypeOK
  <1>8. CASE ViewSecret(r)
    <2>1. PICK a \in Apps :
             /\ Begin(r, apps[a].owner, a, NoRow("absent"),
                      <<AuditCall("application.secret_viewed")>>)
             /\ UNCHANGED secrets
      BY <1>8 DEF ViewSecret
    <2>2. <<AuditCall("application.secret_viewed")>> \in Seq(Calls)
      BY AuditTypes, ShortSeqs
    <2> QED BY <1>2, <1>3, <2>1, <2>2, BeginType DEF TypeOK
  <1>9. CASE RotateSecret(r)
    <2>1. PICK a \in Apps :
             /\ secrets' = secrets + 1
             /\ Begin(r, apps[a].owner, a, rotatedRow(apps[a], a, secrets + 1), rotateCalls)
      BY <1>9 DEF RotateSecret
    <2>2. secrets + 1 \in Nat
      BY DEF TypeOK
    <2>3. rotatedRow(apps[a], a, secrets + 1) \in Row
      BY <1>1, <2>2 DEF rotatedRow, Row, Encrypt, Sealed
    <2> QED BY <1>2, <2>1, <2>2, <2>3, TodoTypes, BeginType
  <1>10. CASE Revoke(r)
    <2> DEFINE todo == <<CallTo("deleteClient", "-", "-"), TransitionCall("approved", "revoked"),
                         AuditCall("application.revoked")>>
    <2>1. PICK a \in Apps :
             /\ Begin(r, apps[a].owner, a, [NoRow("absent") EXCEPT !.client = apps[a].client],
                      todo)
             /\ UNCHANGED secrets
      BY <1>10 DEF Revoke
    <2>2. todo \in Seq(Calls)
      BY CallTypes, AuditTypes, ShortSeqs
    <2> HIDE DEF todo
    <2> QED BY <1>2, <1>4, <2>1, <2>2, BeginType DEF TypeOK
  <1>11. CASE Delete(r)
    <2>1. PICK a \in Apps :
             /\ Begin(r, apps[a].owner, a, [NoRow("absent") EXCEPT !.client = apps[a].client],
                      deleteCalls(apps[a].status))
             /\ UNCHANGED secrets
      BY <1>11 DEF Delete
    <2>2. deleteCalls(apps[a].status) \in Seq(Calls)
      BY TodoTypes
    <2> QED BY <1>2, <1>4, <2>1, <2>2, BeginType DEF TypeOK
  <1>12. ASSUME NEW todo \in Seq(Calls), prepareReview(r, todo)
         PROVE  TypeOK'
    <2>1. PICK a \in Apps, u \in Users :
             Begin(r, u, a, NoRow("absent"), todo) /\ UNCHANGED secrets
      BY <1>12 DEF prepareReview
    <2> QED BY <1>3, <2>1, BeginType DEF TypeOK
  <1>13. CASE Approve(r)
    <2> DEFINE todo == <<CallTo("get", "-", "provisioning"),
                         TransitionCall("pending_review", "provisioning"), SaveCall,
                         CallTo("enqueue", "-", "-"), AuditCall("application.approved")>>
    <2>1. todo \in Seq(Calls)
      BY CallTypes, AuditTypes, ShortSeqs
    <2>2. prepareReview(r, todo)
      BY <1>13 DEF Approve
    <2> HIDE DEF todo
    <2> QED BY <1>12, <2>1, <2>2
  <1>14. ASSUME NEW s \in {"rejected", "changes_requested"},
                NEW act, AuditCall(act) \in Calls, decide(r, s, act)
         PROVE  TypeOK'
    <2> DEFINE todo == <<CallTo("get", "-", s), TransitionCall("pending_review", s), SaveCall,
                         AuditCall(act)>>
    <2>1. todo \in Seq(Calls)
      BY <1>14, CallTypes, ShortSeqs
    <2>2. prepareReview(r, todo)
      BY <1>14 DEF decide
    <2> HIDE DEF todo
    <2> QED BY <1>12, <2>1, <2>2
  <1>15. CASE Reject(r)
    BY <1>14, <1>15, AuditTypes DEF Reject
  <1>16. CASE RequestChanges(r)
    BY <1>14, <1>16, AuditTypes DEF RequestChanges
  <1> QED BY <1>5, <1>6, <1>7, <1>8, <1>9, <1>10, <1>11, <1>13, <1>15, <1>16 DEF Start

(* What is known of a call when its kind is known. *)
LEMMA CallShape ==
    ASSUME NEW c \in Calls
    PROVE  /\ c.call = "get" => c.post \in {"provisioning", "rejected", "changes_requested"}
           /\ c.call = "transition" =>
                 c.post # "approved" /\ (c.post = "revoked" => c.pre = "approved")
  BY SMTT(30) DEF Calls, TransitionCall, CallTo

(* Hydra's clients stay a sequence of clients, each of the same application,  *)
(* when one of them is changed.                                               *)
LEMMA HydraUpdate ==
    ASSUME TypeOK, NEW c, NEW new,
           c \in DOMAIN hydra => new \in Client /\ new.app = hydra[c].app
    PROVE  LET h == [hydra EXCEPT ![c] = new] IN
           /\ h \in Seq(Client)
           /\ DOMAIN h = DOMAIN hydra
           /\ \A i \in DOMAIN hydra : h[i].app = hydra[i].app
  <1>1. hydra \in Seq(Client) /\ DOMAIN hydra = 1 .. Len(hydra)
    BY LenProperties DEF TypeOK
  <1>2. CASE c \in 1 .. Len(hydra)
    BY <1>1, <1>2, ExceptSeq
  <1>3. CASE c \notin 1 .. Len(hydra)
    <2>1. [hydra EXCEPT ![c] = new] = hydra
      BY <1>1, <1>3
    <2> QED BY <1>1, <2>1
  <1> QED BY <1>2, <1>3

LEMMA UpdateClientHydra ==
    ASSUME TypeOK, NEW r \in Requests, UpdateClient(r) \/ DeleteClient(r)
    PROVE  /\ hydra' \in Seq(Client)
           /\ DOMAIN hydra' = DOMAIN hydra
           /\ \A i \in DOMAIN hydra : hydra'[i].app = hydra[i].app
  <1> DEFINE c == req[r].copy.client
  <1>1. hydra \in Seq(Client) /\ \A i \in DOMAIN hydra : hydra[i] \in Client
    BY LenProperties DEF TypeOK
  <1>2. CASE UpdateClient(r)
    <2> DEFINE new == [hydra[c] EXCEPT !.secret = req[r].copy.sealed.secret,
                                       !.profile = req[r].copy.profile,
                                       !.lifespans = (Head(req[r].todo).post = "full")]
    <2>1. req[r].copy \in Row
      BY <1>2, HandlerTypes DEF UpdateClient, NextCall
    <2>2. c \in DOMAIN hydra => new \in Client /\ new.app = hydra[c].app
      <3>1. req[r].copy.sealed.secret \in Nat /\ req[r].copy.profile \in Profiles \cup {None}
        BY <2>1 DEF Row, Sealed
      <3> QED BY <1>1, <3>1 DEF Client
    <2>3. hydra' = hydra \/ hydra' = [hydra EXCEPT ![c] = new]
      BY <1>2 DEF UpdateClient, Refused
    <2> HIDE DEF new, c
    <2> QED BY <1>1, <2>2, <2>3, HydraUpdate
  <1>3. CASE DeleteClient(r)
    <2> DEFINE new == [hydra[c] EXCEPT !.live = FALSE]
    <2>1. c \in DOMAIN hydra => new \in Client /\ new.app = hydra[c].app
      BY <1>1 DEF Client
    <2>2. hydra' = hydra \/ hydra' = [hydra EXCEPT ![c] = new]
      BY <1>3 DEF DeleteClient, Refused
    <2> HIDE DEF new, c
    <2> QED BY <1>1, <2>1, <2>2, HydraUpdate
  <1> QED BY <1>2, <1>3

(* The calls of a handler. *)
LEMMA StepType ==
    ASSUME TypeOK, NEW r \in Requests, Step(r)
    PROVE  TypeOK'
  <1> DEFINE id == req[r].id
  <1>1. /\ apps \in [Apps -> Row]
        /\ outbox \in [Apps -> OutboxStates]
        /\ audit \subseteq Watched \X (Apps \cup {None})
        /\ UNCHANGED <<secrets, cred, prov>>
    BY DEF TypeOK, Step
  <1>2. InFlight(r)
    BY DEF Step, StoreCreate, StoreGet, StoreSelect, StoreTransition, StoreSave,
           StoreEnqueue, StoreAudit, StoreDelete, UpdateClient, DeleteClient, NextCall
  <1>3. /\ Head(req[r].todo) \in Calls
        /\ id \in Apps
        /\ req[r].copy \in Row
        /\ req[r].actor \in Users \cup {None}
    BY <1>2, HandlerTypes
  <1>4. CASE Refused(r)
    BY <1>1, <1>2, <1>4, RefusedType
  <1>5. NoRow("absent") \in Row /\ NoRow("deleted") \in Row
    BY RowTypes DEF NoStatus
  <1>6. CASE StoreCreate(r)
    <2>1. Reply(r, NoRow("absent")) /\ apps' = [apps EXCEPT ![id] = req[r].copy]
          /\ UNCHANGED <<outbox, audit, hydra>>
      BY <1>6 DEF StoreCreate
    <2>2. ReqType' /\ faults' \in Nat
      BY <1>2, <1>5, <2>1, ReplyType
    <2>3. apps' \in [Apps -> Row]
      BY <1>1, <1>3, <2>1
    <2> QED BY <1>1, <2>1, <2>2, <2>3 DEF TypeOK, ReqType
  <1>7. CASE StoreGet(r) /\ ~Refused(r)
    <2> DEFINE copy == [apps[id] EXCEPT !.status = Head(req[r].todo).post,
                                        !.reviewedBy = req[r].actor]
    <2>1. Advance(r, copy) /\ UNCHANGED <<apps, outbox, audit, hydra, faults>>
          /\ Head(req[r].todo).call = "get"
      BY <1>7 DEF StoreGet, NextCall
    <2>2. Head(req[r].todo).post \in Statuses
      <3>1. Head(req[r].todo).post \in {"provisioning", "rejected", "changes_requested"}
        BY <1>3, <2>1, CallShape
      <3> QED BY <3>1 DEF Statuses
    <2>3. copy \in Row
      BY <1>1, <1>3, <2>2 DEF Row
    <2> HIDE DEF copy
    <2>4. ReqType'
      BY <1>2, <2>1, <2>3, AdvanceType
    <2> QED BY <1>1, <2>1, <2>4 DEF TypeOK, ReqType
  <1>8. CASE StoreSelect(r) /\ ~Refused(r)
    <2>1. Advance(r, apps[id]) /\ UNCHANGED <<apps, outbox, audit, hydra, faults>>
      BY <1>8 DEF StoreSelect
    <2>2. ReqType'
      BY <1>1, <1>2, <1>3, <2>1, AdvanceType
    <2> QED BY <1>1, <2>1, <2>2 DEF TypeOK, ReqType
  <1>9. CASE StoreTransition(r) /\ ~Refused(r)
    <2> DEFINE to == Head(req[r].todo).post
    <2>1. /\ apps' = [apps EXCEPT ![id].status = to]
          /\ Reply(r, req[r].copy) /\ UNCHANGED <<outbox, audit, hydra>>
          /\ validTransition(Head(req[r].todo).pre, to)
      BY <1>9 DEF StoreTransition
    <2>2. to \in Statuses
      BY <2>1 DEF validTransition, Statuses
    <2>3. apps' \in [Apps -> Row]
      BY <1>1, <1>3, <2>1, <2>2 DEF Row
    <2>4. ReqType' /\ faults' \in Nat
      BY <1>2, <1>3, <2>1, ReplyType
    <2> QED BY <1>1, <2>1, <2>3, <2>4 DEF TypeOK, ReqType
  <1>10. CASE StoreSave(r) /\ ~Refused(r)
    <2>1. Reply(r, NoRow("absent")) /\ apps' = [apps EXCEPT ![id] = req[r].copy]
          /\ UNCHANGED <<outbox, audit, hydra>>
      BY <1>10 DEF StoreSave
    <2>2. ReqType' /\ faults' \in Nat
      BY <1>2, <1>5, <2>1, ReplyType
    <2>3. apps' \in [Apps -> Row]
      BY <1>1, <1>3, <2>1
    <2> QED BY <1>1, <2>1, <2>2, <2>3 DEF TypeOK, ReqType
  <1>11. CASE StoreEnqueue(r) /\ ~Refused(r)
    <2>1. /\ outbox' = [outbox EXCEPT ![id] = IF @ = "none" THEN "ready" ELSE @]
          /\ Reply(r, req[r].copy) /\ UNCHANGED <<apps, audit, hydra>>
      BY <1>11 DEF StoreEnqueue
    <2>2. ReqType' /\ faults' \in Nat
      BY <1>2, <1>3, <2>1, ReplyType
    <2>3. outbox' \in [Apps -> OutboxStates]
      BY <1>1, <1>3, <2>1 DEF OutboxStates
    <2> QED BY <1>1, <2>1, <2>2, <2>3 DEF TypeOK, ReqType
  <1>12. CASE StoreAudit(r) /\ ~Refused(r)
    <2>1. /\ audit' = audit \cup (({Head(req[r].todo).post} \cap Watched) \X {id})
          /\ Reply(r, req[r].copy) /\ UNCHANGED <<apps, outbox, hydra>>
      BY <1>12 DEF StoreAudit
    <2>2. ReqType' /\ faults' \in Nat
      BY <1>2, <1>3, <2>1, ReplyType
    <2>3. audit' \subseteq Watched \X (Apps \cup {None})
      BY <1>1, <1>3, <2>1
    <2> QED BY <1>1, <2>1, <2>2, <2>3 DEF TypeOK, ReqType
  <1>13. CASE StoreDelete(r) /\ ~Refused(r)
    <2>1. /\ apps' = [apps EXCEPT ![id] = NoRow("deleted")]
          /\ outbox' = [outbox EXCEPT ![id] = "none"]
          /\ audit' = {<<e[1], IF e[2] = id THEN None ELSE e[2]>> : e \in audit}
          /\ Reply(r, NoRow("absent")) /\ UNCHANGED hydra
      BY <1>13 DEF StoreDelete
    <2>2. ReqType' /\ faults' \in Nat
      BY <1>2, <1>5, <2>1, ReplyType
    <2>3. apps' \in [Apps -> Row] /\ outbox' \in [Apps -> OutboxStates]
      BY <1>1, <1>3, <1>5, <2>1 DEF OutboxStates
    <2>4. audit' \subseteq Watched \X (Apps \cup {None})
      BY <1>1, <1>3, <2>1
    <2> QED BY <1>1, <2>1, <2>2, <2>3, <2>4 DEF TypeOK, ReqType
  <1>14. CASE (UpdateClient(r) \/ DeleteClient(r)) /\ ~Refused(r)
    <2>1. (Reply(r, req[r].copy) \/ Reply(r, NoRow("absent")))
          /\ UNCHANGED <<apps, outbox, audit>>
      BY <1>14 DEF UpdateClient, DeleteClient
    <2>2. ReqType' /\ faults' \in Nat
      BY <1>2, <1>3, <1>5, <2>1, ReplyType
    <2>3. hydra' \in Seq(Client)
      BY <1>14, UpdateClientHydra
    <2> QED BY <1>1, <2>1, <2>2, <2>3 DEF TypeOK, ReqType
  <1> QED BY <1>4, <1>6, <1>7, <1>8, <1>9, <1>10, <1>11, <1>12, <1>13, <1>14 DEF Step

(* The steps of the worker, of time and of restarts. *)
LEMMA CreatedHydra ==
    ASSUME TypeOK, CreateClient
    PROVE  /\ hydra' \in Seq(Client)
           /\ DOMAIN hydra' = DOMAIN hydra \cup {Len(hydra) + 1}
           /\ \A i \in DOMAIN hydra : hydra'[i] = hydra[i]
           /\ hydra'[Len(hydra) + 1].app = prov.id
           /\ Len(hydra) + 1 \in Nat \ {0}
           /\ prov.id \in Apps
  <1> DEFINE new == [app |-> prov.id, secret |-> secrets + 1, profile |-> prov.copy.profile,
                     lifespans |-> TRUE, live |-> TRUE]
  <1>1. hydra \in Seq(Client) /\ Len(hydra) \in Nat /\ DOMAIN hydra = 1 .. Len(hydra)
    BY LenProperties DEF TypeOK
  <1>2. prov.id \in Apps /\ prov.copy \in Row /\ secrets + 1 \in Nat
    BY DEF TypeOK, CreateClient, Worker
  <1>3. new \in Client /\ new.app = prov.id
    BY <1>2 DEF Client, Row
  <1>4. hydra' = Append(hydra, new)
    BY DEF CreateClient
  <1> HIDE DEF new
  <1>5. /\ hydra' \in Seq(Client)
        /\ Len(hydra') = Len(hydra) + 1
        /\ \A i \in 1 .. Len(hydra) : hydra'[i] = hydra[i]
        /\ hydra'[Len(hydra) + 1] = new
    BY <1>1, <1>3, <1>4, AppendProperties
  <1>6. DOMAIN hydra' = 1 .. (Len(hydra) + 1)
    BY <1>5, LenProperties
  <1> QED BY <1>1, <1>2, <1>3, <1>5, <1>6

LEMMA WorkerType ==
    ASSUME TypeOK, RunOnce \/ WorkerCallFails
    PROVE  TypeOK'
  <1> DEFINE ProvType(p) ==
          /\ p \in [pc : {"idle", "get", "create", "save", "complete", "audit", "retry", "drop"},
                    id : Apps \cup {None}, copy : Row]
          /\ p.pc # "idle" => p.id \in Apps
  <1>1. NoRow("absent") \in Row
    BY RowTypes DEF NoStatus
  <1>2. ProvType(ProvIdle)
    BY <1>1 DEF ProvIdle
  <1>3. ProvType(prov) /\ apps \in [Apps -> Row] /\ outbox \in [Apps -> OutboxStates]
        /\ cred \in [Apps -> Credentials] /\ secrets \in Nat /\ faults \in Nat
    BY DEF TypeOK
  <1>4. NoCred \in Credentials
    BY DEF NoCred, Credentials
  <1>5. \A a \in Apps, row \in Row, cr \in Credentials : WithCredentials(row, a, cr) \in Row
    BY DEF WithCredentials, Encrypt, Row, Sealed, Credentials, Statuses
  <1>6. CASE GetApplication
    <2>1. prov.id \in Apps /\ apps[prov.id] \in Row /\ cred[prov.id] \in Credentials
      BY <1>3, <1>6 DEF GetApplication, Worker
    <2>2. cred' \in [Apps -> Credentials]
      BY <1>3, <1>4, <1>6 DEF GetApplication
    <2>3. WithCredentials(apps[prov.id], prov.id, cred[prov.id]) \in Row
      BY <1>5, <2>1
    <2>4. ProvType(prov')
      <3> DEFINE copy == WithCredentials(apps[prov.id], prov.id, cred[prov.id])
      <3>1. \/ prov' = [prov EXCEPT !.pc = "retry"]
            \/ prov' = [prov EXCEPT !.pc = "drop"]
            \/ prov' = [prov EXCEPT !.pc = "create", !.copy = apps[prov.id]]
            \/ prov' = [prov EXCEPT !.pc = "save", !.copy = copy]
        BY <1>6 DEF GetApplication, Goto, keptCredentials
      <3>2. copy \in Row
        BY <2>3
      <3> HIDE DEF copy
      <3> QED BY <1>3, <2>1, <3>1, <3>2
    <2> QED BY <1>6, <2>2, <2>4 DEF TypeOK, GetApplication
  <1>7. CASE CreateClient
    <2> DEFINE cr == [client |-> Len(hydra) + 1, secret |-> secrets + 1]
    <2>1. hydra' \in Seq(Client) /\ Len(hydra) + 1 \in Nat /\ prov.id \in Apps
      BY <1>7, CreatedHydra
    <2>2. cr \in Credentials
      BY <1>3, <2>1 DEF Credentials
    <2>3. \/ /\ cred' = [cred EXCEPT ![prov.id] = cr]
             /\ prov' = [prov EXCEPT !.pc = "save",
                                     !.copy = WithCredentials(prov.copy, prov.id, cr)]
             /\ UNCHANGED faults
          \/ Goto("retry") /\ Fault("lost") /\ UNCHANGED cred
      BY <1>7 DEF CreateClient
    <2>4. prov.copy \in Row
      BY <1>3
    <2> HIDE DEF cr
    <2>5. WithCredentials(prov.copy, prov.id, cr) \in Row
      BY <1>5, <2>1, <2>2, <2>4
    <2>6. ProvType(prov') /\ cred' \in [Apps -> Credentials] /\ faults' \in Nat
      <3> DEFINE copy == WithCredentials(prov.copy, prov.id, cr)
      <3>1. \/ prov' = [prov EXCEPT !.pc = "retry"]
            \/ prov' = [prov EXCEPT !.pc = "save", !.copy = copy]
        BY <2>3 DEF Goto
      <3>2. copy \in Row
        BY <2>5
      <3> HIDE DEF copy
      <3>3. ProvType(prov')
        BY <1>3, <2>1, <3>1, <3>2
      <3>4. cred' \in [Apps -> Credentials]
        BY <1>3, <2>1, <2>2, <2>3
      <3>5. faults' \in Nat
        BY <1>3, <2>3 DEF Fault
      <3> QED BY <3>3, <3>4, <3>5
    <2>7. secrets' \in Nat /\ UNCHANGED <<apps, outbox, audit, req>>
      BY <1>3, <1>7 DEF CreateClient
    <2> QED BY <2>1, <2>6, <2>7 DEF TypeOK
  <1>8. CASE SaveApproved
    <2>1. prov.id \in Apps /\ prov.copy \in Row
      BY <1>3, <1>8 DEF SaveApproved, Worker
    <2>2. apps' \in [Apps -> Row] /\ cred' \in [Apps -> Credentials] /\ faults' \in Nat
      BY <1>3, <1>4, <1>8, <2>1 DEF SaveApproved, Fault
    <2>3. ProvType(prov')
      BY <1>3, <1>8, <2>1 DEF SaveApproved, Goto
    <2> QED BY <1>8, <2>2, <2>3 DEF TypeOK, SaveApproved
  <1>9. CASE Complete
    <2>1. prov.id \in Apps
      BY <1>3, <1>9 DEF Complete, Worker
    <2>2. outbox' \in [Apps -> OutboxStates] /\ ProvType(prov')
      BY <1>2, <1>3, <1>9, <2>1 DEF Complete, OutboxStates
    <2> QED BY <1>9, <2>2 DEF TypeOK, Complete
  <1>10. CASE AuditProvisioned
    BY <1>2, <1>10 DEF TypeOK, AuditProvisioned
  <1>11. CASE Retry
    <2>1. outbox' \in [Apps -> OutboxStates]
      BY <1>3, <1>11 DEF Retry, OutboxStates
    <2> QED BY <1>2, <1>11, <2>1 DEF TypeOK, Retry
  <1>12. CASE WorkerCallFails
    <2>1. ProvType(prov') /\ faults' \in Nat
      BY <1>2, <1>3, <1>12 DEF WorkerCallFails, afterFailure, Worker, Fault
    <2> QED BY <1>12, <2>1 DEF TypeOK, WorkerCallFails
  <1> QED BY <1>6, <1>7, <1>8, <1>9, <1>10, <1>11, <1>12 DEF RunOnce

(* Every reachable state is well typed: the columns of the tables, the clients *)
(* and the handlers and the worker have values of their types, the worker has  *)
(* an application while RunOnce is under way, and so has a request in flight.  *)
THEOREM TypeCorrect == Spec => []TypeOK
  <1>1. Init => TypeOK
    <2> SUFFICES ASSUME Init PROVE TypeOK
      OBVIOUS
    <2>1. NoRow("absent") \in Row
      BY RowTypes DEF NoStatus
    <2>2. hydra \in Seq(Client)
      BY EmptySeq DEF Init
    <2>3. NoCred \in Credentials
      BY DEF NoCred, Credentials
    <2>4. prov \in [pc : {"idle", "get", "create", "save", "complete", "audit", "retry", "drop"},
                    id : Apps \cup {None}, copy : Row] /\ prov.pc = "idle"
      BY <2>1 DEF Init, ProvIdle
    <2> QED BY <2>1, <2>2, <2>3, <2>4, RowTypes DEF Init, TypeOK, OutboxStates
  <1>2. TypeOK /\ [Next]_vars => TypeOK'
    <2> SUFFICES ASSUME TypeOK, [Next]_vars PROVE TypeOK'
      OBVIOUS
    <2>1. ASSUME NEW r \in Requests, Start(r) PROVE TypeOK'
      BY <2>1, StartType
    <2>2. ASSUME NEW r \in Requests, Step(r) PROVE TypeOK'
      BY <2>2, StepType
    <2>3. ASSUME NEW r \in Requests, CallFails(r) PROVE TypeOK'
      <3>1. ReqType'
        BY <2>3, OnErrorType DEF CallFails
      <3> QED BY <2>3, <3>1 DEF TypeOK, ReqType, CallFails, Fault
    <2>4. ASSUME NEW a \in Apps, ClaimNext(a) PROVE TypeOK'
      <3>1. Claimed(a) \in [pc : {"idle", "get", "create", "save", "complete", "audit",
                                  "retry", "drop"}, id : Apps \cup {None}, copy : Row]
            /\ Claimed(a).id \in Apps
        BY RowTypes DEF Claimed, ProvIdle, NoStatus
      <3>2. outbox' \in [Apps -> OutboxStates]
        BY <2>4 DEF TypeOK, ClaimNext, OutboxStates
      <3> QED BY <2>4, <3>1, <3>2 DEF TypeOK, ClaimNext, Fault
    <2>5. ASSUME NEW a \in Apps, RetryDelayPasses(a) \/ ClaimTimesOut(a) PROVE TypeOK'
      BY <2>5 DEF TypeOK, RetryDelayPasses, ClaimTimesOut, OutboxStates
    <2>6. CASE RunOnce \/ WorkerCallFails
      BY <2>6, WorkerType
    <2>7. CASE Crash
      <3>1. ProvIdle \in [pc : {"idle", "get", "create", "save", "complete", "audit",
                                "retry", "drop"}, id : Apps \cup {None}, copy : Row]
            /\ ProvIdle.pc = "idle"
        BY RowTypes DEF ProvIdle, NoStatus
      <3>2. NoCred \in Credentials
        BY DEF NoCred, Credentials
      <3> QED BY <2>7, <3>1, <3>2, RowTypes DEF TypeOK, Crash, Fault
    <2>8. CASE UNCHANGED vars
      BY <2>8 DEF TypeOK, vars
    <2> QED BY <2>1, <2>2, <2>3, <2>4, <2>5, <2>6, <2>7, <2>8 DEF Next
  <1> QED BY <1>1, <1>2, PTL DEF Spec

-----------------------------------------------------------------------------
(* Credentials.  CredentialInv is inductive; its parts are written here with *)
(* the variables as parameters, so that a part can be carried over to the    *)
(* next state when only hydra changes.                                       *)

RowSound(h, a, row) ==
    /\ row.status \in {"approved", "revoked"} => row.client # 0 /\ Decryptable(a, row)
    /\ row.client # 0 => row.client \in DOMAIN h /\ h[row.client].app = a
AppsSound(h, t) == \A a \in Apps : RowSound(h, a, t[a])
ReqSound(h, q) == \A r \in Requests : q[r].todo # <<>> => RowSound(h, q[r].id, q[r].copy)
ProvSound(h, p) == p.pc # "idle" => RowSound(h, p.id, p.copy)
CredSound(h, k) ==
    \A a \in Apps :
        k[a] # NoCred =>
            k[a].secret # 0 /\ k[a].client \in DOMAIN h /\ h[k[a].client].app = a

LEMMA Parts ==
    CredentialInv <=> /\ AppsSound(hydra, apps) /\ ReqSound(hydra, req)
                      /\ ProvSound(hydra, prov) /\ CredSound(hydra, cred)
  BY DEF CredentialInv, SoundRow, InFlight, RowSound, AppsSound, ReqSound, ProvSound, CredSound

LEMMA PartsNext ==
    ASSUME AppsSound(hydra', apps'), ReqSound(hydra', req'),
           ProvSound(hydra', prov'), CredSound(hydra', cred')
    PROVE  CredentialInv'
  BY DEF CredentialInv, SoundRow, InFlight, RowSound, AppsSound, ReqSound, ProvSound, CredSound,
         Decryptable

(* No step takes a client away or gives it to another application. *)
HydraGrows ==
    /\ DOMAIN hydra \subseteq DOMAIN hydra'
    /\ \A i \in DOMAIN hydra : hydra'[i].app = hydra[i].app

LEMMA HydraGrowsWhenUnchanged == ASSUME hydra' = hydra PROVE HydraGrows
  BY DEF HydraGrows

LEMMA RowSoundKept ==
    ASSUME HydraGrows, NEW a, NEW row, RowSound(hydra, a, row)
    PROVE  RowSound(hydra', a, row)
  BY DEF HydraGrows, RowSound

LEMMA SoundKept ==
    ASSUME HydraGrows, CredentialInv
    PROVE  /\ AppsSound(hydra', apps)
           /\ ReqSound(hydra', req)
           /\ ProvSound(hydra', prov)
           /\ CredSound(hydra', cred)
  <1>1. AppsSound(hydra', apps)
    BY Parts, RowSoundKept DEF AppsSound
  <1>2. ReqSound(hydra', req)
    BY Parts, RowSoundKept DEF ReqSound
  <1>3. ProvSound(hydra', prov)
    BY Parts, RowSoundKept DEF ProvSound
  <1>4. CredSound(hydra', cred)
    BY Parts DEF CredSound, HydraGrows
  <1> QED BY <1>1, <1>2, <1>3, <1>4

LEMMA NoRowSound ==
    ASSUME NEW h, NEW a, NEW s \in {"absent", "deleted", "draft"}
    PROVE  RowSound(h, a, NoRow(s))
  BY DEF RowSound, NoRow

LEMMA BeginSound ==
    ASSUME TypeOK, CredentialInv, NEW r \in Requests, NEW actor, NEW a, NEW copy, NEW todo,
           Begin(r, actor, a, copy, todo), RowSound(hydra, a, copy)
    PROVE  CredentialInv'
  <1>1. UNCHANGED <<apps, hydra, prov, cred>>
    BY DEF Begin
  <1>2. ReqSound(hydra', req')
    <2> DEFINE new == [actor |-> actor, id |-> a, copy |-> copy, todo |-> todo]
    <2>1. req' = [req EXCEPT ![r] = new] /\ req \in [Requests -> Request]
      BY DEF Begin, TypeOK
    <2>2. new.id = a /\ new.copy = copy
      OBVIOUS
    <2> HIDE DEF new
    <2> QED BY <1>1, <2>1, <2>2, Parts DEF ReqSound
  <1> QED BY <1>1, <1>2, Parts, PartsNext

LEMMA AdvanceSound ==
    ASSUME TypeOK, NEW r \in Requests, InFlight(r), NEW c, Advance(r, c),
           ReqSound(hydra', req), RowSound(hydra', req[r].id, c)
    PROVE  ReqSound(hydra', req')
  <1> DEFINE new == [req[r] EXCEPT !.copy = c, !.todo = Tail(req[r].todo)]
  <1>1. req \in [Requests -> Request] /\ req[r] \in Request
    BY DEF TypeOK
  <1>2. new.id = req[r].id /\ new.copy = c
    BY <1>1 DEF Request
  <1>3. req' = [req EXCEPT ![r] = IF Tail(req[r].todo) = <<>> THEN Idle ELSE new]
    BY DEF Advance
  <1> HIDE DEF new
  <1> QED BY <1>1, <1>2, <1>3, RowTypes DEF ReqSound

LEMMA OnErrorSound ==
    ASSUME TypeOK, NEW r \in Requests, InFlight(r), OnError(r), ReqSound(hydra', req)
    PROVE  ReqSound(hydra', req')
  <1> DEFINE new == [req[r] EXCEPT !.todo = <<SaveCall>>]
  <1>1. req \in [Requests -> Request] /\ req[r] \in Request
    BY DEF TypeOK
  <1>2. new.id = req[r].id /\ new.copy = req[r].copy
    BY <1>1 DEF Request
  <1>3. \/ req' = [req EXCEPT ![r] = Idle]
        \/ req' = [req EXCEPT ![r] = new]
    BY DEF OnError
  <1> HIDE DEF new
  <1> QED BY <1>1, <1>2, <1>3, RowTypes DEF ReqSound, InFlight

LEMMA ReplySound ==
    ASSUME TypeOK, NEW r \in Requests, InFlight(r), NEW c, Reply(r, c),
           ReqSound(hydra', req), RowSound(hydra', req[r].id, c)
    PROVE  ReqSound(hydra', req')
  BY AdvanceSound, OnErrorSound DEF Reply

(* A handler starts with a sound copy of the row. *)
LEMMA StartSound ==
    ASSUME TypeOK, CredentialInv, NEW r \in Requests, Start(r)
    PROVE  CredentialInv'
  <1>1. \A a \in Apps : apps[a] \in Row /\ RowSound(hydra, a, apps[a])
    BY Parts DEF TypeOK, AppsSound
  <1>2. \A a : RowSound(hydra, a, NoRow("absent"))
    BY NoRowSound
  <1>3. \A a \in Apps : RowSound(hydra, a, [NoRow("absent") EXCEPT !.client = apps[a].client])
    BY <1>1 DEF RowSound, NoRow
  <1>4. CASE CreateDraft(r)
    <2>1. PICK u \in Users, a \in Apps, p \in Profiles :
             Begin(r, u, a, [NoRow("draft") EXCEPT !.owner = u, !.profile = p],
                   <<CallTo("create", "-", "-"), AuditCall("application.created")>>
                       \o (IF RequireReview THEN <<>> ELSE startProvisioning))
      BY <1>4 DEF CreateDraft
    <2> DEFINE row == [NoRow("draft") EXCEPT !.owner = u, !.profile = p]
    <2>2. RowSound(hydra, a, row)
      BY DEF RowSound, NoRow
    <2> HIDE DEF row
    <2> QED BY <2>1, <2>2, BeginSound DEF row
  <1>5. CASE UpdateDraft(r)
    <2>1. PICK a \in Apps, p \in Profiles :
             Begin(r, apps[a].owner, a, editedRow(apps[a], p), editCalls(apps[a].status))
      BY <1>5 DEF UpdateDraft
    <2>2. RowSound(hydra, a, editedRow(apps[a], p))
      BY <1>1 DEF RowSound, editedRow, Row, Decryptable
    <2> QED BY <2>1, <2>2, BeginSound
  <1>6. CASE Submit(r)
    BY <1>2, <1>6, BeginSound DEF Submit
  <1>7. CASE ViewSecret(r)
    BY <1>2, <1>7, BeginSound DEF ViewSecret
  <1>8. CASE RotateSecret(r)
    <2>1. PICK a \in Apps :
             /\ apps[a].client # 0
             /\ Begin(r, apps[a].owner, a, rotatedRow(apps[a], a, secrets + 1), rotateCalls)
      BY <1>8 DEF RotateSecret
    <2>2. secrets + 1 # 0
      BY DEF TypeOK
    <2>3. RowSound(hydra, a, rotatedRow(apps[a], a, secrets + 1))
      BY <1>1, <2>1, <2>2 DEF RowSound, rotatedRow, Row, Decryptable, Encrypt
    <2> QED BY <2>1, <2>3, BeginSound
  <1>9. CASE Revoke(r)
    BY <1>3, <1>9, BeginSound DEF Revoke
  <1>10. CASE Delete(r)
    BY <1>3, <1>10, BeginSound DEF Delete
  <1>11. ASSUME NEW todo, prepareReview(r, todo)
         PROVE  CredentialInv'
    BY <1>2, <1>11, BeginSound DEF prepareReview
  <1>12. CASE Approve(r) \/ Reject(r) \/ RequestChanges(r)
    BY <1>11, <1>12 DEF Approve, Reject, RequestChanges, decide
  <1> QED BY <1>4, <1>5, <1>6, <1>7, <1>8, <1>9, <1>10, <1>12 DEF Start

(* The calls of a handler keep the rows and the copies sound. *)
LEMMA StepSound ==
    ASSUME TypeOK, CredentialInv, NEW r \in Requests, Step(r)
    PROVE  CredentialInv'
  <1> DEFINE id == req[r].id
  <1>1. UNCHANGED <<secrets, cred, prov>> /\ apps \in [Apps -> Row]
    BY DEF Step, TypeOK
  <1>2. InFlight(r)
    BY DEF Step, StoreCreate, StoreGet, StoreSelect, StoreTransition, StoreSave,
           StoreEnqueue, StoreAudit, StoreDelete, UpdateClient, DeleteClient, NextCall
  <1>3. Head(req[r].todo) \in Calls /\ id \in Apps
    BY <1>2, HandlerTypes
  <1>4. HydraGrows
    <2>1. CASE UpdateClient(r) \/ DeleteClient(r)
      BY <2>1, UpdateClientHydra DEF HydraGrows
    <2>2. CASE ~(UpdateClient(r) \/ DeleteClient(r))
      <3>1. hydra' = hydra
        BY <2>2 DEF Step, StoreCreate, StoreGet, StoreSelect, StoreTransition, StoreSave,
                    StoreEnqueue, StoreAudit, StoreDelete, Refused
      <3> QED BY <3>1, HydraGrowsWhenUnchanged
    <2> QED BY <2>1, <2>2
  <1>5. /\ AppsSound(hydra', apps) /\ ReqSound(hydra', req)
        /\ ProvSound(hydra', prov) /\ CredSound(hydra', cred)
    BY <1>4, SoundKept
  <1>6. RowSound(hydra', id, req[r].copy) /\ RowSound(hydra', id, apps[id])
    BY <1>2, <1>3, <1>5 DEF ReqSound, InFlight, AppsSound
  <1>7. RowSound(hydra', id, NoRow("absent")) /\ RowSound(hydra', id, NoRow("deleted"))
    BY NoRowSound
  <1>8. SUFFICES AppsSound(hydra', apps') /\ ReqSound(hydra', req')
    BY <1>1, <1>5, PartsNext
  <1>9. ASSUME NEW row, RowSound(hydra', id, row), apps' = [apps EXCEPT ![id] = row]
        PROVE  AppsSound(hydra', apps')
    BY <1>1, <1>3, <1>5, <1>9 DEF AppsSound
  <1>10. CASE Refused(r)
    BY <1>2, <1>5, <1>10, OnErrorSound DEF Refused
  <1>11. CASE (StoreCreate(r) \/ StoreSave(r)) /\ ~Refused(r)
    <2>1. Reply(r, NoRow("absent")) /\ apps' = [apps EXCEPT ![id] = req[r].copy]
      BY <1>11 DEF StoreCreate, StoreSave
    <2> QED BY <1>2, <1>5, <1>6, <1>7, <1>9, <2>1, ReplySound
  <1>12. CASE StoreGet(r) /\ ~Refused(r)
    <2> DEFINE copy == [apps[id] EXCEPT !.status = Head(req[r].todo).post,
                                        !.reviewedBy = req[r].actor]
    <2>1. Advance(r, copy) /\ apps' = apps /\ Head(req[r].todo).call = "get"
      BY <1>12 DEF StoreGet, NextCall
    <2>2. Head(req[r].todo).post \in {"provisioning", "rejected", "changes_requested"}
      BY <1>3, <2>1, CallShape
    <2>3. RowSound(hydra', id, copy)
      BY <1>1, <1>3, <1>6, <2>2 DEF RowSound, Row
    <2> HIDE DEF copy
    <2> QED BY <1>2, <1>5, <2>1, <2>3, AdvanceSound
  <1>13. CASE StoreSelect(r) /\ ~Refused(r)
    BY <1>2, <1>5, <1>6, <1>13, AdvanceSound DEF StoreSelect
  <1>14. CASE StoreTransition(r) /\ ~Refused(r)
    <2> DEFINE to == Head(req[r].todo).post
    <2> DEFINE row == [apps[id] EXCEPT !.status = to]
    <2>1. /\ apps' = [apps EXCEPT ![id] = row]
          /\ Reply(r, req[r].copy)
          /\ Head(req[r].todo).call = "transition"
          /\ apps[id].status = Head(req[r].todo).pre
      BY <1>14 DEF StoreTransition, NextCall
    <2>2. to # "approved" /\ (to = "revoked" => apps[id].status = "approved")
      BY <1>3, <2>1, CallShape
    <2>3. RowSound(hydra', id, row)
      BY <1>1, <1>3, <1>6, <2>2 DEF RowSound, Row, Decryptable
    <2> HIDE DEF row
    <2> QED BY <1>2, <1>5, <1>6, <1>9, <2>1, <2>3, ReplySound
  <1>15. CASE (StoreEnqueue(r) \/ StoreAudit(r)) /\ ~Refused(r)
    <2>1. Reply(r, req[r].copy) /\ apps' = apps
      BY <1>15 DEF StoreEnqueue, StoreAudit
    <2> QED BY <1>2, <1>5, <1>6, <2>1, ReplySound
  <1>16. CASE StoreDelete(r) /\ ~Refused(r)
    <2>1. Reply(r, NoRow("absent")) /\ apps' = [apps EXCEPT ![id] = NoRow("deleted")]
      BY <1>16 DEF StoreDelete
    <2> QED BY <1>2, <1>5, <1>7, <1>9, <2>1, ReplySound
  <1>17. CASE (UpdateClient(r) \/ DeleteClient(r)) /\ ~Refused(r)
    <2>1. (Reply(r, req[r].copy) \/ Reply(r, NoRow("absent"))) /\ apps' = apps
      BY <1>17 DEF UpdateClient, DeleteClient
    <2> QED BY <1>2, <1>5, <1>6, <1>7, <2>1, ReplySound
  <1> QED BY <1>10, <1>11, <1>12, <1>13, <1>14, <1>15, <1>16, <1>17 DEF Step

(* The worker keeps its credentials and its copy sound. *)
LEMMA WorkerSound ==
    ASSUME TypeOK, CredentialInv, RunOnce \/ WorkerCallFails
    PROVE  CredentialInv'
  <1>1. /\ apps \in [Apps -> Row] /\ cred \in [Apps -> Credentials] /\ secrets \in Nat
        /\ prov \in [pc : {"idle", "get", "create", "save", "complete", "audit", "retry",
                           "drop"}, id : Apps \cup {None}, copy : Row]
        /\ (prov.pc # "idle" => prov.id \in Apps)
    BY DEF TypeOK
  <1>2. HydraGrows
    <2>1. CASE CreateClient
      BY <2>1, CreatedHydra DEF HydraGrows
    <2>2. CASE ~CreateClient
      <3>1. hydra' = hydra
        BY <2>2 DEF RunOnce, GetApplication, SaveApproved, Complete, AuditProvisioned, Retry,
                    WorkerCallFails
      <3> QED BY <3>1, HydraGrowsWhenUnchanged
    <2> QED BY <2>1, <2>2
  <1>3. /\ AppsSound(hydra', apps) /\ ReqSound(hydra', req)
        /\ ProvSound(hydra', prov) /\ CredSound(hydra', cred)
    BY <1>2, SoundKept
  <1>4. req' = req
    BY DEF RunOnce, GetApplication, CreateClient, SaveApproved, Complete, AuditProvisioned,
           Retry, WorkerCallFails
  <1>5. SUFFICES AppsSound(hydra', apps') /\ ProvSound(hydra', prov') /\ CredSound(hydra', cred')
    BY <1>3, <1>4, PartsNext
  <1>6. ProvSound(hydra', ProvIdle)
    BY DEF ProvSound, ProvIdle
  <1>7. \A pc : prov.pc # "idle" => ProvSound(hydra', [prov EXCEPT !.pc = pc])
    BY <1>1, <1>3 DEF ProvSound
  <1>8. \A a \in Apps : CredSound(hydra', [cred EXCEPT ![a] = NoCred])
    BY <1>1, <1>3 DEF CredSound
  <1>9. ASSUME NEW a \in Apps, NEW row \in Row, NEW cr \in Credentials,
               cr.secret # 0, cr.client # 0,
               cr.client \in DOMAIN hydra', hydra'[cr.client].app = a
        PROVE  RowSound(hydra', a, WithCredentials(row, a, cr))
    BY <1>9 DEF RowSound, WithCredentials, Decryptable, Encrypt, Row, Credentials
  <1>10. CASE GetApplication
    <2> DEFINE a == prov.id
    <2> DEFINE copy == WithCredentials(apps[a], a, cred[a])
    <2>1. prov.pc # "idle" /\ a \in Apps /\ apps' = apps
      BY <1>1, <1>10 DEF GetApplication, Worker
    <2>2. CredSound(hydra', cred')
      BY <1>3, <1>8, <1>10, <2>1 DEF GetApplication
    <2>3. \/ prov' = [prov EXCEPT !.pc = "retry"]
          \/ prov' = [prov EXCEPT !.pc = "drop"]
          \/ prov' = [prov EXCEPT !.pc = "create", !.copy = apps[a]]
          \/ cred[a] # NoCred /\ prov' = [prov EXCEPT !.pc = "save", !.copy = copy]
      BY <1>10 DEF GetApplication, Goto, keptCredentials
    <2>4. cred[a] # NoCred => RowSound(hydra', a, copy)
      <3> SUFFICES ASSUME cred[a] # NoCred PROVE RowSound(hydra', a, copy)
        OBVIOUS
      <3>1. /\ cred[a] \in Credentials /\ apps[a] \in Row
            /\ cred[a].secret # 0 /\ cred[a].client \in DOMAIN hydra'
            /\ hydra'[cred[a].client].app = a
        BY <1>1, <1>3, <2>1 DEF CredSound
      <3>2. cred[a].client # 0
        <4>1. hydra' = hydra
          BY <1>10 DEF GetApplication
        <4> QED BY <3>1, <4>1, LenProperties DEF TypeOK
      <3> QED BY <1>9, <2>1, <3>1, <3>2
    <2>5. RowSound(hydra', a, apps[a])
      BY <1>3, <2>1 DEF AppsSound
    <2> HIDE DEF copy
    <2>6. ProvSound(hydra', prov')
      BY <1>1, <1>7, <2>1, <2>3, <2>4, <2>5 DEF ProvSound
    <2> QED BY <1>3, <2>1, <2>2, <2>6
  <1>11. CASE CreateClient
    <2> DEFINE cr == [client |-> Len(hydra) + 1, secret |-> secrets + 1]
    <2> DEFINE copy == WithCredentials(prov.copy, prov.id, cr)
    <2>1. /\ prov.pc # "idle" /\ prov.id \in Apps /\ prov.copy \in Row
          /\ apps' = apps
      BY <1>1, <1>11 DEF CreateClient, Worker
    <2>2. \/ cred' = [cred EXCEPT ![prov.id] = cr]
             /\ prov' = [prov EXCEPT !.pc = "save", !.copy = copy]
          \/ prov' = [prov EXCEPT !.pc = "retry"] /\ cred' = cred
      BY <1>11 DEF CreateClient, Goto
    <2>3. /\ cr \in Credentials /\ cr.secret # 0 /\ cr.client # 0
          /\ cr.client \in DOMAIN hydra' /\ hydra'[cr.client].app = prov.id
      BY <1>1, <1>11, CreatedHydra DEF Credentials
    <2> HIDE DEF cr
    <2>4. RowSound(hydra', prov.id, copy)
      BY <1>9, <2>1, <2>3
    <2> HIDE DEF copy
    <2>5. ProvSound(hydra', prov')
      BY <1>1, <1>7, <2>1, <2>2, <2>4 DEF ProvSound
    <2>6. CredSound(hydra', cred')
      BY <1>1, <1>3, <2>1, <2>2, <2>3 DEF CredSound
    <2> QED BY <1>3, <2>1, <2>5, <2>6
  <1>12. CASE SaveApproved
    <2>1. prov.pc # "idle" /\ prov.id \in Apps
      BY <1>1, <1>12 DEF SaveApproved, Worker
    <2>2. RowSound(hydra', prov.id, prov.copy)
      BY <1>3, <2>1 DEF ProvSound
    <2>3. AppsSound(hydra', apps')
      BY <1>1, <1>3, <1>12, <2>1, <2>2 DEF SaveApproved, AppsSound
    <2>4. ProvSound(hydra', prov')
      BY <1>7, <1>12, <2>1 DEF SaveApproved, Goto
    <2>5. CredSound(hydra', cred')
      BY <1>3, <1>8, <1>12, <2>1 DEF SaveApproved
    <2> QED BY <2>3, <2>4, <2>5
  <1>13. CASE Complete
    <2>1. prov.pc # "idle" /\ UNCHANGED <<apps, cred>>
          /\ (prov' = ProvIdle \/ prov' = [prov EXCEPT !.pc = "audit"])
      BY <1>13 DEF Complete, Worker
    <2> QED BY <1>3, <1>6, <1>7, <2>1
  <1>14. CASE AuditProvisioned \/ Retry
    <2>1. UNCHANGED <<apps, cred>> /\ prov' = ProvIdle
      BY <1>14 DEF AuditProvisioned, Retry
    <2> QED BY <1>3, <1>6, <2>1
  <1>15. CASE WorkerCallFails
    <2>1. prov.pc # "idle" /\ UNCHANGED <<apps, cred>>
          /\ (prov' = ProvIdle \/ prov' = [prov EXCEPT !.pc = "retry"])
      BY <1>15 DEF WorkerCallFails, afterFailure, Worker
    <2> QED BY <1>3, <1>6, <1>7, <2>1
  <1> QED BY <1>10, <1>11, <1>12, <1>13, <1>14, <1>15 DEF RunOnce

(* CredentialInv is an invariant: every row, every copy of a row that is still *)
(* to be saved and every credential the worker keeps is sound, whatever is     *)
(* interleaved, lost or restarted.                                             *)
THEOREM CredentialSafety == Spec => []CredentialInv
  <1>1. Init => CredentialInv
    <2> SUFFICES ASSUME Init PROVE CredentialInv
      OBVIOUS
    <2>1. AppsSound(hydra, apps)
      BY NoRowSound DEF Init, AppsSound
    <2>2. ReqSound(hydra, req)
      BY RowTypes DEF Init, ReqSound
    <2>3. ProvSound(hydra, prov) /\ CredSound(hydra, cred)
      BY DEF Init, ProvSound, ProvIdle, CredSound
    <2> QED BY <2>1, <2>2, <2>3, Parts
  <1>2. TypeOK /\ CredentialInv /\ [Next]_vars => CredentialInv'
    <2> SUFFICES ASSUME TypeOK, CredentialInv, [Next]_vars PROVE CredentialInv'
      OBVIOUS
    <2>1. ASSUME NEW r \in Requests, Start(r) PROVE CredentialInv'
      BY <2>1, StartSound
    <2>2. ASSUME NEW r \in Requests, Step(r) PROVE CredentialInv'
      BY <2>2, StepSound
    <2>3. ASSUME NEW r \in Requests, CallFails(r) PROVE CredentialInv'
      <3>1. UNCHANGED <<apps, hydra, cred, prov>> /\ InFlight(r) /\ OnError(r)
        BY <2>3 DEF CallFails
      <3>2. ReqSound(hydra', req')
        BY <3>1, Parts, OnErrorSound
      <3> QED BY <3>1, <3>2, Parts, PartsNext
    <2>4. ASSUME NEW a \in Apps, ClaimNext(a) PROVE CredentialInv'
      <3>1. UNCHANGED <<apps, hydra, cred, req>> /\ (prov' = Claimed(a) \/ prov' = prov)
        BY <2>4 DEF ClaimNext
      <3>2. RowSound(hydra, a, NoRow("absent"))
        BY NoRowSound
      <3>3. ProvSound(hydra, Claimed(a))
        BY <3>2 DEF ProvSound, Claimed, ProvIdle
      <3> QED BY <3>1, <3>3, Parts, PartsNext
    <2>5. ASSUME NEW a \in Apps, RetryDelayPasses(a) \/ ClaimTimesOut(a) PROVE CredentialInv'
      <3>1. UNCHANGED <<apps, hydra, cred, prov, req>>
        BY <2>5 DEF RetryDelayPasses, ClaimTimesOut
      <3> QED BY <3>1, Parts, PartsNext
    <2>6. CASE RunOnce \/ WorkerCallFails
      BY <2>6, WorkerSound
    <2>7. CASE Crash
      <3>1. UNCHANGED <<apps, hydra>> /\ prov' = ProvIdle
            /\ req' = [r \in Requests |-> Idle] /\ cred' = [a \in Apps |-> NoCred]
        BY <2>7 DEF Crash
      <3>2. ReqSound(hydra', req')
        BY <3>1, RowTypes DEF ReqSound
      <3>3. ProvSound(hydra', prov') /\ CredSound(hydra', cred')
        BY <3>1 DEF ProvSound, ProvIdle, CredSound
      <3> QED BY <3>1, <3>2, <3>3, Parts, PartsNext
    <2>8. CASE UNCHANGED vars
      BY <2>8, Parts, PartsNext DEF vars
    <2> QED BY <2>1, <2>2, <2>3, <2>4, <2>5, <2>6, <2>7, <2>8 DEF Next
  <1> QED BY <1>1, <1>2, TypeCorrect, PTL DEF Spec

(* The secret of an approved or revoked application always opens with the     *)
(* associated data of its row (ViewSecret, syncApprovedClient).               *)
THEOREM SecretsOpen == Spec => []StoredSecretOpens
  <1>1. CredentialInv => StoredSecretOpens
    BY DEF CredentialInv, SoundRow, StoredSecretOpens
  <1> QED BY <1>1, CredentialSafety, PTL

(* A row never names a client that was created for another application, so    *)
(* Save never meets UNIQUE (client_id) and DeleteClient removes one's own.    *)
THEOREM ClientsBelong == Spec => []ClientBelongsToApp
  <1>1. CredentialInv => ClientBelongsToApp
    BY DEF CredentialInv, SoundRow, ClientBelongsToApp
  <1> QED BY <1>1, CredentialSafety, PTL
=============================================================================
