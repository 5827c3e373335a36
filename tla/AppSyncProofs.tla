--------------------------- MODULE AppSyncProofs ---------------------------
(***************************************************************************)
(* Proofs about AppSync: Hydra and the rows of settled applications agree, *)
(* for any number of applications, overlapping requests and faults.        *)
(***************************************************************************)
EXTENDS AppSync, AppReviewProofs

-----------------------------------------------------------------------------
(* The inductive invariant. *)

BusyTodo(t) == \E i \in DOMAIN t : t[i].call # "audit"

(* What is left to do of an update, a revocation and a deletion. *)
Saves(t) == t # <<>> /\ Head(t) = SaveCall /\ ~BusyTodo(Tail(t))
Puts(t) == t # <<>> /\ Head(t).call = "updateClient" /\ Saves(Tail(t))
Revokes(t) == t # <<>> /\ Head(t) = TransitionCall("approved", "revoked") /\ ~BusyTodo(Tail(t))
Removes(t) == t # <<>> /\ Head(t).call = "delete" /\ ~BusyTodo(Tail(t))
Announces(t) == t # <<>> /\ Head(t).call = "audit" /\ Removes(Tail(t))
Retires(t) ==
    /\ t # <<>> /\ Head(t).call = "deleteClient"
    /\ Revokes(Tail(t)) \/ Announces(Tail(t))

(* An undisturbed request that works with an approved copy of its row is      *)
(* about to update the client, or has updated it and is about to save.        *)
AloneOK(A, H, q) ==
    q.copy.status = "approved" =>
        /\ A[q.id].status = "approved"
        /\ \/ Puts(q.todo)
           \/ Saves(q.todo) /\ Serves(H[q.copy.client], q.copy)

FreshOK(H, p) ==
    p.pc = "save" /\ p.copy.status = "approved" /\ Serves(H[p.copy.client], p.copy)

(* What the one request at work on a settled application is about to do, and  *)
(* what it has done.                                                          *)
HandlerSettled(row, H, q) ==
    LET c == H[row.client] IN
    \/ /\ row.status = "approved" /\ q.copy.client = row.client
       /\ \/ /\ Puts(q.todo) /\ q.copy.status = "approved" /\ Serves(c, row)
             /\ q.copy.sealed.secret >= row.sealed.secret
          \/ Saves(q.todo) /\ q.copy.status = "approved" /\ Serves(c, q.copy)
          \/ Retires(q.todo) /\ Serves(c, row)
    \/ row.status = "approved" /\ Revokes(q.todo) /\ ~c.live
    \/ row.status \in {"approved", "revoked"} /\ (Announces(q.todo) \/ Removes(q.todo)) /\ ~c.live

RowSettled(row, H) ==
    /\ row.status \in {"approved", "revoked", "deleted"}
    /\ row.status = "revoked" => ~H[row.client].live

SettledOK(a) ==
    /\ RowSettled(apps[a], hydra)
    /\ ~Holding(a)
    /\ \A r, q \in BusyOn(a) : r = q
    /\ apps[a].status = "approved" /\ BusyOn(a) = {} => Serves(hydra[apps[a].client], apps[a])
    /\ \A r \in BusyOn(a) : HandlerSettled(apps[a], hydra, req[r])

SettleInv ==
    /\ alone \subseteq Requests /\ settled \subseteq Apps
    /\ \A r \in alone : Undisturbed(r) /\ AloneOK(apps, hydra, req[r])
    /\ fresh => FreshOK(hydra, prov) /\ BusyOn(prov.id) = {}
    /\ \A a \in settled : SettledOK(a)

(* No secret in use is newer than the last one that was generated. *)
SecretInv ==
    /\ \A c \in DOMAIN hydra : hydra[c].secret <= secrets
    /\ \A a \in Apps : apps[a].sealed.secret <= secrets /\ cred[a].secret <= secrets
    /\ \A r \in Requests : req[r].copy.sealed.secret <= secrets
    /\ prov.copy.sealed.secret <= secrets

-----------------------------------------------------------------------------
(* Lists of calls. *)

LEMMA BusyCons ==
    ASSUME NEW t \in Seq(Calls), t # <<>>
    PROVE  /\ BusyTodo(t) <=> Head(t).call # "audit" \/ BusyTodo(Tail(t))
           /\ Head(t) \in Calls /\ Tail(t) \in Seq(Calls) /\ Tail(t) # t
  <1>1. /\ Head(t) = t[1] /\ Head(t) \in Calls /\ Tail(t) \in Seq(Calls)
        /\ Len(Tail(t)) = Len(t) - 1 /\ \A i \in 1 .. Len(Tail(t)) : Tail(t)[i] = t[i + 1]
    BY HeadTailProperties
  <1>2. /\ Len(t) \in Nat /\ DOMAIN t = 1 .. Len(t)
        /\ Len(Tail(t)) \in Nat /\ DOMAIN Tail(t) = 1 .. Len(Tail(t))
    BY <1>1, LenProperties
  <1>3. Len(t) # 0
    BY EmptySeq
  <1>4. 1 \in DOMAIN t
    <2>1. Len(t) >= 1
      BY <1>2, <1>3
    <2> QED BY <1>2, <2>1
  <1>5. ASSUME NEW i \in DOMAIN t, i # 1
        PROVE  i - 1 \in DOMAIN Tail(t) /\ Tail(t)[i - 1] = t[i]
    <2>1. i - 1 \in 1 .. Len(Tail(t)) /\ (i - 1) + 1 = i
      BY <1>1, <1>2, <1>5
    <2> QED BY <1>1, <1>2, <2>1
  <1>6. \A i \in DOMAIN Tail(t) : i + 1 \in DOMAIN t /\ Tail(t)[i] = t[i + 1]
    BY <1>1, <1>2
  <1>7. BusyTodo(t) => Head(t).call # "audit" \/ BusyTodo(Tail(t))
    BY <1>1, <1>5 DEF BusyTodo
  <1>8. BusyTodo(Tail(t)) => BusyTodo(t)
    BY <1>6 DEF BusyTodo
  <1>9. Head(t).call # "audit" => BusyTodo(t)
    BY <1>1, <1>4 DEF BusyTodo
  <1>10. Tail(t) # t
    <2>1. Len(t) \in Nat /\ Len(Tail(t)) = Len(t) - 1
      BY <1>1, <1>2
    <2>2. \A n \in Nat : n - 1 # n
      OBVIOUS
    <2>3. Len(Tail(t)) # Len(t)
      BY <2>1, <2>2
    <2> QED BY <2>3
  <1> QED BY <1>1, <1>7, <1>8, <1>9, <1>10

LEMMA EmptyNotBusy == ~BusyTodo(<<>>) /\ ~BusyTodo(Idle.todo)
  <1>1. DOMAIN <<>> = {}
    OBVIOUS
  <1> QED BY <1>1, RowTypes DEF BusyTodo

LEMMA OneAudit == \A act : ~BusyTodo(<<AuditCall(act)>>) /\ <<AuditCall(act)>> # <<>>
  BY DEF BusyTodo, AuditCall, CallTo

(* The lists with which the operations on an approved or revoked row start. *)
LEMMA StartTodos ==
    /\ Puts(editCalls("approved")) /\ Puts(rotateCalls)
    /\ Retires(<<CallTo("deleteClient", "-", "-"), TransitionCall("approved", "revoked"),
                 AuditCall("application.revoked")>>)
    /\ Retires(deleteCalls("approved"))
    /\ \A s : s # "approved" => Announces(deleteCalls(s))
  <1>1. \A c1, c2 : Tail(<<c1, c2>>) = <<c2>> /\ Head(<<c1, c2>>) = c1 /\ <<c1, c2>> # <<>>
    OBVIOUS
  <1>2. \A c1, c2, c3 : /\ Tail(<<c1, c2, c3>>) = <<c2, c3>> /\ Head(<<c1, c2, c3>>) = c1
                        /\ <<c1, c2, c3>> # <<>>
    OBVIOUS
  <1>3. \A c : Tail(<<c>>) = <<>> /\ Head(<<c>>) = c /\ <<c>> # <<>>
    OBVIOUS
  <1>4. \A act : Saves(<<SaveCall, AuditCall(act)>>)
    BY <1>1, OneAudit DEF Saves
  <1>5. Puts(editCalls("approved")) /\ Puts(rotateCalls)
    BY <1>2, <1>4 DEF Puts, editCalls, rotateCalls, CallTo
  <1>6. \A act : Revokes(<<TransitionCall("approved", "revoked"), AuditCall(act)>>)
    BY <1>1, OneAudit DEF Revokes
  <1>7. Removes(<<CallTo("delete", "-", "-")>>)
    BY <1>3, EmptyNotBusy DEF Removes, CallTo
  <1>8. Announces(<<AuditCall("application.deleted"), CallTo("delete", "-", "-")>>)
    BY <1>1, <1>7 DEF Announces, AuditCall, CallTo
  <1>9. Deletion = AuditCall("application.deleted")
    BY DEF Deletion
  <1>10. \A s : s # "approved" => Announces(deleteCalls(s))
    BY <1>8, <1>9, DeleteCallsAre
  <1>11. Retires(deleteCalls("approved"))
    <2> DEFINE last == <<AuditCall("application.deleted"), CallTo("delete", "-", "-")>>
    <2>1. deleteCalls("approved") = <<CallTo("deleteClient", "-", "-"),
                                      AuditCall("application.deleted"), CallTo("delete", "-", "-")>>
      BY <1>9, DeleteCallsAre
    <2>2. /\ Tail(deleteCalls("approved")) = last /\ deleteCalls("approved") # <<>>
          /\ Head(deleteCalls("approved")) = CallTo("deleteClient", "-", "-")
      BY <1>2, <2>1
    <2>3. Announces(last) /\ CallTo("deleteClient", "-", "-").call = "deleteClient"
      BY <1>8 DEF CallTo
    <2> HIDE DEF last
    <2> QED BY <2>2, <2>3 DEF Retires
  <1>12. Retires(<<CallTo("deleteClient", "-", "-"), TransitionCall("approved", "revoked"),
                   AuditCall("application.revoked")>>)
    BY <1>2, <1>6 DEF Retires, CallTo
  <1> QED BY <1>5, <1>10, <1>11, <1>12

-----------------------------------------------------------------------------
(* How a handler goes on after a call. *)

(* Where the copy comes from with which a handler goes on. *)
Taken(r, c) ==
    \/ c = NoRow("absent")
    \/ c = req[r].copy
    \/ c.status # "approved" /\ c.sealed = apps[req[r].id].sealed

LEMMA StepMoves ==
    ASSUME TypeOK, NEW r \in Requests, Step(r)
    PROVE  /\ InFlight(r) /\ UNCHANGED <<secrets, cred, prov>>
           /\ \E c : Taken(r, c) /\ (Advance(r, c) \/ OnError(r))
  <1>1. InFlight(r) /\ UNCHANGED <<secrets, cred, prov>>
    BY DEF Step, StoreCreate, StoreGet, StoreSelect, StoreTransition, StoreSave,
           StoreEnqueue, StoreAudit, StoreDelete, UpdateClient, DeleteClient, NextCall
  <1>2. /\ Head(req[r].todo) \in Calls /\ req[r].id \in Apps /\ apps[req[r].id] \in Row
    BY <1>1, HandlerTypes DEF TypeOK
  <1>3. ASSUME NEW c, Taken(r, c), Reply(r, c) \/ Refused(r) \/ Advance(r, c)
        PROVE  \E d : Taken(r, d) /\ (Advance(r, d) \/ OnError(r))
    BY <1>3 DEF Reply, Refused
  <1>4. Taken(r, NoRow("absent")) /\ Taken(r, req[r].copy)
    BY DEF Taken
  <1>5. CASE StoreGet(r)
    <2> DEFINE c == [apps[req[r].id] EXCEPT !.status = Head(req[r].todo).post,
                                            !.reviewedBy = req[r].actor]
    <2>1. c.sealed = apps[req[r].id].sealed /\ c.status = Head(req[r].todo).post
      BY <1>2 DEF Row
    <2>2. Head(req[r].todo).post # "approved"
      BY <1>2, <1>5, CallShape DEF StoreGet, NextCall
    <2>3. Advance(r, c) \/ Refused(r)
      BY <1>5 DEF StoreGet
    <2> HIDE DEF c
    <2> QED BY <1>1, <1>3, <2>1, <2>2, <2>3 DEF Taken
  <1>6. CASE StoreSelect(r)
    <2>1. \/ Advance(r, apps[req[r].id]) /\ apps[req[r].id].status # "approved"
          \/ Refused(r)
      BY <1>2, <1>6, SelectShape DEF StoreSelect, NextCall
    <2> QED BY <1>1, <1>3, <1>4, <2>1 DEF Taken
  <1>7. CASE StoreCreate(r) \/ StoreSave(r) \/ StoreDelete(r) \/ DeleteClient(r)
    BY <1>1, <1>3, <1>4, <1>7 DEF StoreCreate, StoreSave, StoreDelete, DeleteClient
  <1>8. CASE StoreTransition(r) \/ StoreEnqueue(r) \/ StoreAudit(r) \/ UpdateClient(r)
    BY <1>1, <1>3, <1>4, <1>8 DEF StoreTransition, StoreEnqueue, StoreAudit, UpdateClient
  <1> QED BY <1>1, <1>5, <1>6, <1>7, <1>8 DEF Step

(* The record of the handler after the call, which is not the one before. *)
Continues(r, q) ==
    \/ q = Idle
    \/ /\ q.id = req[r].id /\ q.todo = Tail(req[r].todo)
       /\ q.copy.status = "approved" => q.copy = req[r].copy
    \/ /\ q.id = req[r].id /\ q.todo = <<SaveCall>> /\ q.copy = req[r].copy
       /\ Head(req[r].todo) = CallTo("enqueue", "draft", "-")

LEMMA Moves ==
    ASSUME TypeOK, NEW r \in Requests, Step(r) \/ CallFails(r)
    PROVE  /\ InFlight(r)
           /\ \E q : req' = [req EXCEPT ![r] = q] /\ Continues(r, q) /\ q # req[r]
  <1>1. req \in [Requests -> Request] /\ req[r] \in Request
    BY DEF TypeOK
  <1>2. InFlight(r) /\ \E c : Taken(r, c) /\ (Advance(r, c) \/ OnError(r))
    <2>1. CASE Step(r)
      BY <2>1, StepMoves
    <2>2. CASE CallFails(r)
      BY <2>2 DEF CallFails, Taken
    <2> QED BY <2>1, <2>2
  <1>3. PICK c : Taken(r, c) /\ (Advance(r, c) \/ OnError(r))
    BY <1>2
  <1>4. req[r].todo \in Seq(Calls) /\ req[r].todo # <<>>
    BY <1>1, <1>2 DEF Request, InFlight
  <1>5. Tail(req[r].todo) # req[r].todo
    BY <1>4, BusyCons
  <1> DEFINE next == [req[r] EXCEPT !.copy = c, !.todo = Tail(req[r].todo)]
  <1> DEFINE back == [req[r] EXCEPT !.todo = <<SaveCall>>]
  <1>6. /\ next.copy = c /\ next.todo = Tail(req[r].todo) /\ next.id = req[r].id
        /\ back.copy = req[r].copy /\ back.todo = <<SaveCall>> /\ back.id = req[r].id
    BY <1>1 DEF Request
  <1>7. \/ req' = [req EXCEPT ![r] = Idle]
        \/ req' = [req EXCEPT ![r] = next]
        \/ /\ req' = [req EXCEPT ![r] = back]
           /\ Head(req[r].todo) = CallTo("enqueue", "draft", "-")
    BY <1>3 DEF Advance, OnError
  <1> HIDE DEF next, back
  <1>8. Idle # req[r]
    BY <1>4, RowTypes
  <1>9. c.status = "approved" => c = req[r].copy
    BY <1>3 DEF Taken, NoRow
  <1>10. CASE req' = [req EXCEPT ![r] = next]
    BY <1>2, <1>5, <1>6, <1>9, <1>10 DEF Continues
  <1>11. CASE /\ req' = [req EXCEPT ![r] = back]
              /\ Head(req[r].todo) = CallTo("enqueue", "draft", "-")
    <2>1. Head(<<SaveCall>>) # CallTo("enqueue", "draft", "-")
      BY DEF SaveCall, CallTo
    <2>2. back # req[r]
      BY <1>6, <1>11, <2>1
    <2> QED BY <1>2, <1>6, <1>11, <2>2 DEF Continues
  <1> QED BY <1>2, <1>7, <1>8, <1>10, <1>11 DEF Continues

-----------------------------------------------------------------------------
(* Secrets are numbered in the order in which they are generated. *)

ReqSecrets(R, n) == \A q \in Requests : R[q].copy.sealed.secret <= n

LEMMA EmptySecrets ==
    /\ \A s : NoRow(s).sealed.secret = 0
    /\ Idle.copy.sealed.secret = 0 /\ ProvIdle.copy.sealed.secret = 0 /\ NoCred.secret = 0
  BY DEF NoRow, NoSeal, Idle, ProvIdle, NoCred

LEMMA SecretTypes ==
    ASSUME TypeOK
    PROVE  /\ secrets \in Nat
           /\ \A a \in Apps : apps[a].sealed.secret \in Nat /\ cred[a].secret \in Nat
           /\ \A c \in DOMAIN hydra : hydra[c] \in Client /\ hydra[c].secret \in Nat
           /\ \A q \in Requests : req[q].copy.sealed.secret \in Nat
           /\ prov.copy.sealed.secret \in Nat
  <1>1. \A row \in Row : row.sealed.secret \in Nat
    BY DEF Row, Sealed
  <1>2. \A c \in DOMAIN hydra : hydra[c] \in Client
    BY ElementOfSeq, LenProperties DEF TypeOK
  <1>3. \A c \in DOMAIN hydra : hydra[c].secret \in Nat
    BY <1>2 DEF Client
  <1> QED BY <1>1, <1>2, <1>3 DEF TypeOK, Request, Credentials

LEMMA MovedSecrets ==
    ASSUME TypeOK, SecretInv, NEW r \in Requests, InFlight(r),
           NEW c, Advance(r, c) \/ Reply(r, c) \/ OnError(r), c.sealed.secret <= secrets
    PROVE  ReqSecrets(req', secrets)
  <1>1. req \in [Requests -> Request] /\ req[r] \in Request /\ secrets \in Nat
    BY DEF TypeOK
  <1> DEFINE next == [req[r] EXCEPT !.copy = c, !.todo = Tail(req[r].todo)]
  <1> DEFINE back == [req[r] EXCEPT !.todo = <<SaveCall>>]
  <1>2. next.copy = c /\ back.copy = req[r].copy
    BY <1>1 DEF Request
  <1>3. PICK q \in {Idle, next, back} : req' = [req EXCEPT ![r] = q]
    BY DEF Advance, Reply, OnError
  <1> HIDE DEF next, back
  <1>4. q.copy.sealed.secret <= secrets
    BY <1>1, <1>2, <1>3, EmptySecrets DEF SecretInv
  <1> QED BY <1>1, <1>3, <1>4 DEF SecretInv, ReqSecrets

(* What a request starts with, on the row it has read. *)
Begun(row, q) ==
    \/ /\ row.status = "approved" /\ Puts(q.todo)
       /\ q.copy.status = "approved" /\ q.copy.client = row.client
       /\ q.copy.sealed.secret \in {row.sealed.secret, secrets + 1}
    \/ /\ q.copy.status # "approved"
       /\ q.copy.sealed.secret \in {0, row.sealed.secret}
       /\ \/ row.status \notin {"approved", "revoked", "deleted"}
          \/ row.status = "approved" /\ ~BusyTodo(q.todo)
          \/ row.status = "approved" /\ Retires(q.todo) /\ q.copy.client = row.client
          \/ row.status = "revoked" /\ Announces(q.todo)

Opens(r) ==
    /\ ~InFlight(r)
    /\ UNCHANGED <<apps, outbox, audit, hydra, cred, prov, faults>>
    /\ \E q : /\ q.id \in Apps /\ req' = [req EXCEPT ![r] = q]
              /\ Begun(apps[q.id], q)
              /\ \/ /\ secrets' = secrets
                    /\ q.copy.sealed.secret \in {0, apps[q.id].sealed.secret}
                 \/ secrets' = secrets + 1

LEMMA StartOpens ==
    ASSUME TypeOK, NEW r \in Requests, Start(r)
    PROVE  Opens(r)
  <1>0. ASSUME NEW u, NEW a \in Apps, NEW c, NEW t, Begin(r, u, a, c, t),
               Begun(apps[a], [actor |-> u, id |-> a, copy |-> c, todo |-> t]),
               \/ secrets' = secrets /\ c.sealed.secret \in {0, apps[a].sealed.secret}
               \/ secrets' = secrets + 1
        PROVE  Opens(r)
    <2> DEFINE q == [actor |-> u, id |-> a, copy |-> c, todo |-> t]
    <2>1. /\ ~InFlight(r) /\ req' = [req EXCEPT ![r] = q]
          /\ UNCHANGED <<apps, outbox, audit, hydra, cred, prov, faults>>
      BY <1>0 DEF Begin
    <2>2. q.id = a /\ q.copy = c /\ Begun(apps[a], q)
      BY <1>0
    <2> HIDE DEF q
    <2> QED BY <1>0, <2>1, <2>2 DEF Opens
  <1>1. \A a \in Apps : apps[a] \in Row
    BY DEF TypeOK
  <1>2. ASSUME NEW u, NEW a \in Apps, NEW c, NEW t, Begin(r, u, a, c, t), secrets' = secrets,
               c.status # "approved", c.sealed.secret \in {0, apps[a].sealed.secret},
               \/ apps[a].status \notin {"approved", "revoked", "deleted"}
               \/ apps[a].status = "approved" /\ ~BusyTodo(t)
               \/ apps[a].status = "approved" /\ Retires(t) /\ c.client = apps[a].client
               \/ apps[a].status = "revoked" /\ Announces(t)
        PROVE  Opens(r)
    <2>1. Begun(apps[a], [actor |-> u, id |-> a, copy |-> c, todo |-> t])
      BY <1>2 DEF Begun
    <2> QED BY <1>0, <1>2, <2>1
  <1>3. ASSUME NEW u, NEW a \in Apps, NEW c, NEW t, Begin(r, u, a, c, t), Puts(t),
               apps[a].status = "approved", c.status = "approved", c.client = apps[a].client,
               \/ secrets' = secrets /\ c.sealed.secret = apps[a].sealed.secret
               \/ secrets' = secrets + 1 /\ c.sealed.secret = secrets + 1
        PROVE  Opens(r)
    <2>1. Begun(apps[a], [actor |-> u, id |-> a, copy |-> c, todo |-> t])
      BY <1>3 DEF Begun
    <2> QED BY <1>0, <1>3, <2>1
  <1>4. NoRow("absent").status # "approved" /\ NoRow("absent").sealed.secret = 0
    BY DEF NoRow, NoSeal
  <1>5. CASE CreateDraft(r)
    <2>1. PICK u \in Users, a \in Apps, x \in Profiles :
             /\ apps[a].status = "absent" /\ secrets' = secrets
             /\ Begin(r, u, a, [NoRow("draft") EXCEPT !.owner = u, !.profile = x], CreateCalls)
      BY <1>5 DEF CreateDraft, CreateCalls
    <2> DEFINE c == [NoRow("draft") EXCEPT !.owner = u, !.profile = x]
    <2>2. Begin(r, u, a, c, CreateCalls) /\ c.status # "approved" /\ c.sealed.secret = 0
      BY <2>1 DEF NoRow, NoSeal
    <2> HIDE DEF c
    <2> QED BY <1>2, <2>1, <2>2
  <1>6. CASE UpdateDraft(r)
    <2>1. PICK a \in Apps, x \in Profiles :
             /\ Begin(r, apps[a].owner, a, editedRow(apps[a], x), editCalls(apps[a].status))
             /\ apps[a].status \in editableApplicationStatus /\ secrets' = secrets
      BY <1>6 DEF UpdateDraft
    <2>2. /\ editedRow(apps[a], x).sealed = apps[a].sealed
          /\ editedRow(apps[a], x).client = apps[a].client
          /\ editedRow(apps[a], x).status = IF apps[a].status = "approved" THEN "approved" ELSE "draft"
      BY <1>1 DEF editedRow, Row
    <2>3. CASE apps[a].status = "approved"
      BY <1>3, <2>1, <2>2, <2>3, StartTodos
    <2>4. CASE apps[a].status # "approved"
      BY <1>2, <2>1, <2>2, <2>4 DEF editableApplicationStatus
    <2> QED BY <2>3, <2>4
  <1>7. CASE Submit(r)
    <2>1. PICK a \in Apps :
             /\ Begin(r, apps[a].owner, a, NoRow("absent"), submitCalls(apps[a].status))
             /\ apps[a].status \in {"draft", "changes_requested", "rejected"} /\ secrets' = secrets
      BY <1>7 DEF Submit
    <2> QED BY <1>2, <1>4, <2>1
  <1>8. CASE ViewSecret(r)
    <2>1. PICK a \in Apps :
             /\ Begin(r, apps[a].owner, a, NoRow("absent"), <<AuditCall("application.secret_viewed")>>)
             /\ apps[a].status = "approved" /\ secrets' = secrets
      BY <1>8 DEF ViewSecret
    <2> QED BY <1>2, <1>4, <2>1, OneAudit
  <1>9. CASE RotateSecret(r)
    <2>1. PICK a \in Apps :
             /\ Begin(r, apps[a].owner, a, rotatedRow(apps[a], a, secrets + 1), rotateCalls)
             /\ apps[a].status = "approved" /\ secrets' = secrets + 1
      BY <1>9 DEF RotateSecret
    <2>2. LET row == rotatedRow(apps[a], a, secrets + 1) IN
          /\ row.sealed.secret = secrets + 1 /\ row.client = apps[a].client
          /\ row.status = apps[a].status
      BY <1>1 DEF rotatedRow, Row, Encrypt
    <2> QED BY <1>3, <2>1, <2>2, StartTodos
  <1>10. CASE Revoke(r)
    <2>1. PICK a \in Apps :
             /\ Begin(r, apps[a].owner, a, [NoRow("absent") EXCEPT !.client = apps[a].client],
                      <<CallTo("deleteClient", "-", "-"), TransitionCall("approved", "revoked"),
                        AuditCall("application.revoked")>>)
             /\ apps[a].status = "approved" /\ secrets' = secrets
      BY <1>10 DEF Revoke
    <2> DEFINE c == [NoRow("absent") EXCEPT !.client = apps[a].client]
    <2>2. c.status # "approved" /\ c.sealed.secret = 0 /\ c.client = apps[a].client
      BY DEF NoRow, NoSeal
    <2>3. Begin(r, apps[a].owner, a, c,
                <<CallTo("deleteClient", "-", "-"), TransitionCall("approved", "revoked"),
                  AuditCall("application.revoked")>>)
      BY <2>1
    <2> HIDE DEF c
    <2> QED BY <1>2, <2>1, <2>2, <2>3, StartTodos
  <1>11. CASE Delete(r)
    <2>1. PICK a \in Apps :
             /\ Begin(r, apps[a].owner, a, [NoRow("absent") EXCEPT !.client = apps[a].client],
                      deleteCalls(apps[a].status))
             /\ apps[a].status \in Deletable /\ secrets' = secrets
      BY <1>11 DEF Delete
    <2> DEFINE c == [NoRow("absent") EXCEPT !.client = apps[a].client]
    <2>2. c.status # "approved" /\ c.sealed.secret = 0 /\ c.client = apps[a].client
      BY DEF NoRow, NoSeal
    <2>3. Begin(r, apps[a].owner, a, c, deleteCalls(apps[a].status))
      BY <2>1
    <2> HIDE DEF c
    <2>4. CASE apps[a].status = "approved"
      BY <1>2, <2>1, <2>2, <2>3, <2>4, StartTodos
    <2>5. CASE apps[a].status # "approved"
      <3>1. apps[a].status # "deleted"
        BY <2>1 DEF Deletable, Statuses
      <3>2. Announces(deleteCalls(apps[a].status))
        BY <2>5, StartTodos
      <3> QED BY <1>2, <2>1, <2>2, <2>3, <2>5, <3>1, <3>2
    <2> QED BY <2>4, <2>5
  <1>12. ASSUME NEW t, prepareReview(r, t) PROVE Opens(r)
    <2>1. PICK a \in Apps, u \in Users :
             /\ Begin(r, u, a, NoRow("absent"), t)
             /\ apps[a].status = "pending_review" /\ secrets' = secrets
      BY <1>12 DEF prepareReview
    <2> QED BY <1>2, <1>4, <2>1
  <1>13. CASE Approve(r) \/ Reject(r) \/ RequestChanges(r)
    BY <1>12, <1>13 DEF Approve, Reject, RequestChanges, decide
  <1> QED BY <1>5, <1>6, <1>7, <1>8, <1>9, <1>10, <1>11, <1>13 DEF Start

LEMMA StartSecrets ==
    ASSUME TypeOK, SecretInv, NEW r \in Requests, Start(r)
    PROVE  SecretInv'
  <1>1. /\ req \in [Requests -> Request] /\ secrets \in Nat
        /\ \A a \in Apps : apps[a].sealed.secret \in Nat /\ cred[a].secret \in Nat
        /\ \A c \in DOMAIN hydra : hydra[c].secret \in Nat
        /\ \A q \in Requests : req[q].copy.sealed.secret \in Nat
        /\ prov.copy.sealed.secret \in Nat
    BY SecretTypes DEF TypeOK
  <1>2. PICK q : /\ q.id \in Apps /\ req' = [req EXCEPT ![r] = q] /\ Begun(apps[q.id], q)
                 /\ \/ /\ secrets' = secrets
                       /\ q.copy.sealed.secret \in {0, apps[q.id].sealed.secret}
                    \/ secrets' = secrets + 1
    BY StartOpens DEF Opens
  <1>3. UNCHANGED <<apps, hydra, cred, prov>>
    BY StartOpens DEF Opens
  <1>4. q.copy.sealed.secret \in {0, apps[q.id].sealed.secret, secrets + 1}
    BY <1>2 DEF Begun
  <1>5. q.copy.sealed.secret <= secrets'
    <2>1. apps[q.id].sealed.secret <= secrets /\ apps[q.id].sealed.secret \in Nat
      BY <1>1, <1>2 DEF SecretInv
    <2> QED BY <1>1, <1>2, <1>4, <2>1
  <1>6. \A n \in Nat : n <= secrets => n <= secrets'
    BY <1>1, <1>2
  <1>7. \A p \in Requests : req'[p].copy.sealed.secret <= secrets'
    BY <1>1, <1>2, <1>5, <1>6 DEF SecretInv
  <1> QED BY <1>1, <1>3, <1>6, <1>7 DEF SecretInv

LEMMA StepSecrets ==
    ASSUME TypeOK, SecretInv, NEW r \in Requests, Step(r)
    PROVE  SecretInv'
  <1>1. InFlight(r) /\ UNCHANGED <<secrets, cred, prov>>
    BY StepMoves
  <1>2. /\ req[r].id \in Apps /\ req[r].copy.sealed.secret <= secrets
        /\ apps[req[r].id].sealed.secret <= secrets /\ 0 <= secrets
    BY <1>1, HandlerTypes, SecretTypes DEF SecretInv
  <1>3. ReqSecrets(req', secrets)
    <2>1. PICK c : Taken(r, c) /\ (Advance(r, c) \/ OnError(r))
      BY StepMoves
    <2>2. c.sealed.secret <= secrets
      BY <1>2, <2>1, EmptySecrets DEF Taken
    <2> QED BY <1>1, <2>1, <2>2, MovedSecrets
  <1>4. \A a \in Apps : apps'[a].sealed.secret <= secrets
    <2>1. apps \in [Apps -> Row]
      BY DEF TypeOK
    <2>2. PICK row : /\ apps' = apps \/ apps' = [apps EXCEPT ![req[r].id] = row]
                     /\ row.sealed.secret <= secrets
      <3>1. CASE StoreTransition(r)
        <4> DEFINE row == [apps[req[r].id] EXCEPT !.status = Head(req[r].todo).post]
        <4>1. row.sealed = apps[req[r].id].sealed
          BY <1>2, <2>1 DEF Row
        <4>2. apps' = apps \/ apps' = [apps EXCEPT ![req[r].id] = row]
          BY <3>1 DEF StoreTransition, Refused
        <4> HIDE DEF row
        <4> QED BY <1>2, <4>1, <4>2
      <3>2. CASE StoreCreate(r) \/ StoreSave(r)
        BY <1>2, <3>2 DEF StoreCreate, StoreSave, Refused
      <3>3. CASE StoreDelete(r)
        BY <1>2, <3>3, EmptySecrets DEF StoreDelete, Refused
      <3>4. CASE StoreGet(r) \/ StoreSelect(r) \/ StoreEnqueue(r) \/ StoreAudit(r)
                 \/ UpdateClient(r) \/ DeleteClient(r)
        <4>1. apps' = apps
          BY <3>4 DEF StoreGet, StoreSelect, StoreEnqueue, StoreAudit, UpdateClient,
                      DeleteClient, Refused
        <4> QED BY <1>2, <4>1
      <3> QED BY <3>1, <3>2, <3>3, <3>4 DEF Step
    <2> QED BY <1>2, <2>1, <2>2 DEF SecretInv
  <1>5. \A c \in DOMAIN hydra' : hydra'[c].secret <= secrets
    <2> DEFINE d == req[r].copy.client
    <2>1. CASE UpdateClient(r)
      <3> DEFINE new == [hydra[d] EXCEPT !.secret = req[r].copy.sealed.secret,
                                         !.profile = req[r].copy.profile,
                                         !.lifespans = (Head(req[r].todo).post = "full")]
      <3>1. hydra' = hydra \/ hydra' = [hydra EXCEPT ![d] = new]
        BY <2>1 DEF UpdateClient, Refused
      <3>2. d \in DOMAIN hydra => new.secret = req[r].copy.sealed.secret
        BY SecretTypes DEF Client
      <3> HIDE DEF new, d
      <3> QED BY <1>2, <3>1, <3>2 DEF SecretInv
    <2>2. CASE DeleteClient(r)
      <3> DEFINE new == [hydra[d] EXCEPT !.live = FALSE]
      <3>1. hydra' = hydra \/ hydra' = [hydra EXCEPT ![d] = new]
        BY <2>2 DEF DeleteClient, Refused
      <3>2. d \in DOMAIN hydra => new.secret = hydra[d].secret
        BY SecretTypes DEF Client
      <3> HIDE DEF new, d
      <3> QED BY <1>2, <3>1, <3>2 DEF SecretInv
    <2>3. CASE ~UpdateClient(r) /\ ~DeleteClient(r)
      <3>1. hydra' = hydra
        BY <2>3 DEF Step, StoreCreate, StoreGet, StoreSelect, StoreTransition, StoreSave,
           StoreEnqueue, StoreAudit, StoreDelete, Refused
      <3> QED BY <3>1 DEF SecretInv
    <2> QED BY <2>1, <2>2, <2>3
  <1> QED BY <1>1, <1>3, <1>4, <1>5 DEF SecretInv, ReqSecrets

LEMMA WorkerSecrets ==
    ASSUME TypeOK, SecretInv, RunOnce \/ WorkerCallFails
    PROVE  SecretInv'
  <1>1. /\ secrets \in Nat /\ apps \in [Apps -> Row] /\ cred \in [Apps -> Credentials]
        /\ prov \in [pc : {"idle", "get", "create", "save", "complete", "audit", "retry", "drop"},
                     id : Apps \cup {None}, copy : Row]
        /\ prov.pc # "idle" => prov.id \in Apps
    BY DEF TypeOK
  <1>2. \A row \in Row : \A a, cr : WithCredentials(row, a, cr).sealed.secret = cr.secret
    BY DEF WithCredentials, Row, Encrypt
  <1>3. CASE GetApplication
    <2>1. UNCHANGED <<apps, hydra, secrets, req>> /\ prov.id \in Apps
      BY <1>1, <1>3 DEF GetApplication, Worker
    <2>2. cred' = cred \/ cred' = [cred EXCEPT ![prov.id] = NoCred]
      BY <1>3 DEF GetApplication
    <2>3. \A a \in Apps : cred'[a].secret <= secrets
      BY <1>1, <2>2, EmptySecrets DEF SecretInv
    <2>4. prov'.copy \in {prov.copy, apps[prov.id],
                          WithCredentials(apps[prov.id], prov.id, cred[prov.id])}
      BY <1>1, <1>3 DEF GetApplication, Goto, keptCredentials
    <2>5. prov'.copy.sealed.secret <= secrets
      BY <1>1, <1>2, <2>1, <2>4 DEF SecretInv
    <2> QED BY <2>1, <2>3, <2>5 DEF SecretInv
  <1>4. CASE CreateClient
    <2> DEFINE new == [app |-> prov.id, secret |-> secrets + 1, profile |-> prov.copy.profile,
                       lifespans |-> TRUE, live |-> TRUE]
    <2> DEFINE cr == [client |-> Len(hydra) + 1, secret |-> secrets + 1]
    <2>1. /\ secrets' = secrets + 1 /\ hydra' = Append(hydra, new) /\ UNCHANGED <<apps, req>>
          /\ prov.id \in Apps
      BY <1>1, <1>4 DEF CreateClient, Worker
    <2>2. \/ /\ cred' = [cred EXCEPT ![prov.id] = cr]
             /\ prov'.copy = WithCredentials(prov.copy, prov.id, cr)
          \/ cred' = cred /\ prov'.copy = prov.copy
      BY <1>1, <1>4 DEF CreateClient, Goto
    <2>3. new.secret = secrets + 1 /\ cr.secret = secrets + 1
      OBVIOUS
    <2>4. /\ DOMAIN hydra' = DOMAIN hydra \cup {Len(hydra) + 1}
          /\ \A i \in DOMAIN hydra : hydra'[i] = hydra[i]
      BY <1>4, CreatedHydra
    <2>5. hydra'[Len(hydra) + 1] = new
      BY <2>1, AppendProperties DEF TypeOK
    <2> HIDE DEF new, cr
    <2>6. \A n \in Nat : n <= secrets => n <= secrets'
      BY <1>1, <2>1
    <2>7. secrets + 1 <= secrets'
      BY <1>1, <2>1
    <2>8. \A c \in DOMAIN hydra' : hydra'[c].secret <= secrets'
      BY <2>3, <2>4, <2>5, <2>6, <2>7, SecretTypes DEF SecretInv
    <2>9. \A a \in Apps : cred'[a].secret <= secrets'
      BY <1>1, <2>2, <2>3, <2>6, <2>7, SecretTypes DEF SecretInv
    <2>10. prov'.copy.sealed.secret <= secrets'
      BY <1>1, <1>2, <2>2, <2>3, <2>6, <2>7, SecretTypes DEF SecretInv
    <2>11. /\ \A a \in Apps : apps'[a].sealed.secret <= secrets'
           /\ \A r \in Requests : req'[r].copy.sealed.secret <= secrets'
      BY <2>1, <2>6, SecretTypes DEF SecretInv
    <2> QED BY <2>8, <2>9, <2>10, <2>11 DEF SecretInv
  <1>5. CASE SaveApproved
    <2>1. /\ UNCHANGED <<hydra, secrets, req>> /\ prov.id \in Apps /\ prov'.copy = prov.copy
          /\ apps' = apps \/ apps' = [apps EXCEPT ![prov.id] = prov.copy]
          /\ cred' = cred \/ cred' = [cred EXCEPT ![prov.id] = NoCred]
      BY <1>1, <1>5 DEF SaveApproved, Worker, Goto
    <2>2. \A a \in Apps : apps'[a].sealed.secret <= secrets
      BY <1>1, <2>1 DEF SecretInv
    <2>3. \A a \in Apps : cred'[a].secret <= secrets
      BY <1>1, <2>1, EmptySecrets DEF SecretInv
    <2> QED BY <2>1, <2>2, <2>3 DEF SecretInv
  <1>6. CASE Complete \/ AuditProvisioned \/ Retry \/ WorkerCallFails
    <2>1. UNCHANGED <<apps, hydra, secrets, cred, req>>
      BY <1>6 DEF Complete, AuditProvisioned, Retry, WorkerCallFails
    <2>2. prov'.copy \in {prov.copy, ProvIdle.copy}
      BY <1>1, <1>6 DEF Complete, AuditProvisioned, Retry, WorkerCallFails, afterFailure
    <2>3. prov'.copy.sealed.secret <= secrets
      BY <1>1, <2>2, EmptySecrets DEF SecretInv
    <2> QED BY <2>1, <2>3 DEF SecretInv
  <1> QED BY <1>3, <1>4, <1>5, <1>6 DEF RunOnce

LEMMA SecretSafety == Spec => []SecretInv
  <1>1. Init => SecretInv
    <2> SUFFICES ASSUME Init PROVE SecretInv
      OBVIOUS
    <2>1. DOMAIN hydra = {}
      BY DEF Init
    <2> QED BY <2>1, EmptySecrets DEF Init, SecretInv
  <1>2. TypeOK /\ SecretInv /\ [Next]_vars => SecretInv'
    <2> SUFFICES ASSUME TypeOK, SecretInv, [Next]_vars PROVE SecretInv'
      OBVIOUS
    <2>1. ASSUME NEW r \in Requests, Start(r) PROVE SecretInv'
      BY <2>1, StartSecrets
    <2>2. ASSUME NEW r \in Requests, Step(r) PROVE SecretInv'
      BY <2>2, StepSecrets
    <2>3. ASSUME NEW r \in Requests, CallFails(r) PROVE SecretInv'
      <3>1. UNCHANGED <<apps, hydra, secrets, cred, prov>> /\ InFlight(r) /\ OnError(r)
        BY <2>3 DEF CallFails
      <3>2. req[r].copy.sealed.secret <= secrets
        BY DEF SecretInv
      <3>3. ReqSecrets(req', secrets)
        BY <3>1, <3>2, MovedSecrets
      <3> QED BY <3>1, <3>3 DEF SecretInv, ReqSecrets
    <2>4. ASSUME NEW a \in Apps, ClaimNext(a) PROVE SecretInv'
      <3>1. UNCHANGED <<apps, hydra, secrets, cred, req>>
        BY <2>4 DEF ClaimNext
      <3>2. prov'.copy \in {prov.copy, ProvIdle.copy}
        BY <2>4 DEF ClaimNext, Claimed, ProvIdle
      <3>3. prov'.copy.sealed.secret <= secrets
        BY <3>2, EmptySecrets, SecretTypes DEF SecretInv
      <3> QED BY <3>1, <3>3 DEF SecretInv
    <2>5. ASSUME NEW a \in Apps, RetryDelayPasses(a) \/ ClaimTimesOut(a) PROVE SecretInv'
      BY <2>5 DEF RetryDelayPasses, ClaimTimesOut, SecretInv
    <2>6. CASE RunOnce \/ WorkerCallFails
      BY <2>6, WorkerSecrets
    <2>7. CASE Crash
      BY <2>7, EmptySecrets, SecretTypes DEF Crash, SecretInv
    <2>8. CASE UNCHANGED vars
      BY <2>8 DEF SecretInv, vars
    <2> QED BY <2>1, <2>2, <2>3, <2>4, <2>5, <2>6, <2>7, <2>8 DEF Next
  <1> QED BY <1>1, <1>2, TypeCorrect, PTL DEF Spec

-----------------------------------------------------------------------------
(* What a step leaves alone. *)

(* A request changes only the row it names and the client its copy names; an  *)
(* audit event changes neither.                                               *)
LEMMA StepRows ==
    ASSUME TypeOK, NEW r \in Requests, Step(r)
    PROVE  /\ \A a \in Apps : a # req[r].id => apps'[a] = apps[a]
           /\ \A c \in DOMAIN hydra : c # req[r].copy.client => hydra'[c] = hydra[c]
           /\ Head(req[r].todo).call = "audit" => apps' = apps /\ hydra' = hydra
           /\ DOMAIN hydra' = DOMAIN hydra
  <1>1. apps \in [Apps -> Row]
    BY DEF TypeOK
  <1>2. CASE StoreCreate(r) \/ StoreSave(r) \/ StoreDelete(r) \/ StoreTransition(r)
    <2>1. hydra' = hydra /\ Head(req[r].todo).call # "audit"
      BY <1>2 DEF StoreCreate, StoreSave, StoreDelete, StoreTransition, Refused, NextCall
    <2>2. \A a \in Apps : a # req[r].id => apps'[a] = apps[a]
      BY <1>1, <1>2 DEF StoreCreate, StoreSave, StoreDelete, StoreTransition, Refused
    <2> QED BY <2>1, <2>2
  <1>3. CASE StoreGet(r) \/ StoreSelect(r) \/ StoreEnqueue(r) \/ StoreAudit(r)
    <2>1. UNCHANGED <<apps, hydra>>
      BY <1>3 DEF StoreGet, StoreSelect, StoreEnqueue, StoreAudit, Refused
    <2> QED BY <2>1
  <1>4. CASE UpdateClient(r) \/ DeleteClient(r)
    <2>1. apps' = apps /\ Head(req[r].todo).call # "audit"
      BY <1>4 DEF UpdateClient, DeleteClient, Refused, NextCall
    <2>2. \A c \in DOMAIN hydra : c # req[r].copy.client => hydra'[c] = hydra[c]
      BY <1>4 DEF UpdateClient, DeleteClient, Refused
    <2> QED BY <1>4, <2>1, <2>2, UpdateClientHydra
  <1> QED BY <1>2, <1>3, <1>4 DEF Step

(* A request at work is not one of the others, and its record changes only by *)
(* its own steps and when the process restarts.                               *)
LEMMA OwnSteps ==
    ASSUME TypeOK, [Next]_vars, NEW p \in Requests
    PROVE  req'[p] = req[p] \/ Start(p) \/ Step(p) \/ CallFails(p) \/ Crash
  <1>1. req \in [Requests -> Request]
    BY DEF TypeOK
  <1>2. ASSUME NEW r \in Requests, Start(r), r # p PROVE req'[p] = req[p]
    <2>1. PICK q : req' = [req EXCEPT ![r] = q]
      BY <1>2, StartOpens DEF Opens
    <2> QED BY <1>1, <1>2, <2>1
  <1>3. ASSUME NEW r \in Requests, Step(r) \/ CallFails(r), r # p PROVE req'[p] = req[p]
    <2>1. PICK q : req' = [req EXCEPT ![r] = q]
      BY <1>3, Moves
    <2> QED BY <1>1, <1>3, <2>1
  <1>4. ASSUME NEW a \in Apps, ClaimNext(a) \/ RetryDelayPasses(a) \/ ClaimTimesOut(a)
        PROVE req' = req
    BY <1>4 DEF ClaimNext, RetryDelayPasses, ClaimTimesOut
  <1>5. RunOnce \/ WorkerCallFails \/ UNCHANGED vars => req' = req
    BY DEF RunOnce, GetApplication, CreateClient, SaveApproved, Complete, AuditProvisioned, Retry,
           WorkerCallFails, vars
  <1> QED BY <1>2, <1>3, <1>4, <1>5 DEF Next

(* A request that has nothing but audit events left to write starts no other  *)
(* work, and its call is an audit event.                                      *)
LEMMA NotBusyStays ==
    ASSUME TypeOK, NEW r \in Requests, ~Busy(r), Step(r) \/ CallFails(r)
    PROVE  ~Busy(r)' /\ Head(req[r].todo).call = "audit"
  <1>1. req \in [Requests -> Request] /\ req[r].todo \in Seq(Calls)
    BY DEF TypeOK, Request
  <1>2. PICK q : req' = [req EXCEPT ![r] = q] /\ Continues(r, q)
    BY Moves
  <1>3. req[r].todo # <<>> /\ ~BusyTodo(req[r].todo)
    BY Moves DEF InFlight, Busy, BusyTodo
  <1>4. Head(req[r].todo).call = "audit" /\ ~BusyTodo(Tail(req[r].todo))
    BY <1>1, <1>3, BusyCons
  <1>5. ~BusyTodo(q.todo)
    BY <1>2, <1>4, EmptyNotBusy DEF Continues, CallTo
  <1>6. req'[r] = q
    BY <1>1, <1>2
  <1> QED BY <1>4, <1>5, <1>6 DEF Busy, BusyTodo

(* The row and the clients of an application change only by a request at work *)
(* on it and by the worker that holds it.                                     *)
LEMMA Frame ==
    ASSUME TypeOK, CredentialInv, NEW a \in Apps, [Next]_vars, ~Holding(a) \/ prov' = prov,
           \A r \in Requests : r \in BusyOn(a) => ~Step(r)
    PROVE  /\ apps'[a] = apps[a]
           /\ \A c \in DOMAIN hydra : hydra[c].app = a => hydra'[c] = hydra[c]
  <1>1. ASSUME NEW r \in Requests, Step(r)
        PROVE  /\ apps'[a] = apps[a]
               /\ \A c \in DOMAIN hydra : hydra[c].app = a => hydra'[c] = hydra[c]
    <2>1. CASE req[r].id = a
      <3>1. ~Busy(r)
        BY <1>1, <2>1 DEF BusyOn
      <3>2. Head(req[r].todo).call = "audit"
        BY <1>1, <3>1, NotBusyStays
      <3> QED BY <1>1, <3>2, StepRows
    <2>2. CASE req[r].id # a
      <3>1. InFlight(r)
        BY <1>1, StepMoves
      <3>2. SoundRow(req[r].id, req[r].copy)
        BY <3>1 DEF CredentialInv
      <3>3. \A c \in DOMAIN hydra : hydra[c].app = a => c # req[r].copy.client
        <4>1. 0 \notin DOMAIN hydra
          BY LenProperties DEF TypeOK
        <4> QED BY <2>2, <3>2, <4>1 DEF SoundRow
      <3> QED BY <1>1, <2>2, <3>3, StepRows
    <2> QED BY <2>1, <2>2
  <1>2. ASSUME NEW r \in Requests, Start(r) \/ CallFails(r) PROVE UNCHANGED <<apps, hydra>>
    BY <1>2, StartOpens DEF Opens, CallFails
  <1>3. ASSUME NEW b \in Apps, ClaimNext(b) \/ RetryDelayPasses(b) \/ ClaimTimesOut(b)
        PROVE  UNCHANGED <<apps, hydra>>
    BY <1>3 DEF ClaimNext, RetryDelayPasses, ClaimTimesOut
  <1>4. CASE CreateClient
    <2>1. apps' = apps
      BY <1>4 DEF CreateClient
    <2> QED BY <1>4, <2>1, CreatedHydra
  <1>5. CASE SaveApproved
    <2>1. hydra' = hydra /\ prov.pc = "save" /\ prov' # prov
      <3>1. prov'.pc \in {"retry", "complete"}
        BY <1>5 DEF SaveApproved, Goto, TypeOK
      <3> QED BY <1>5, <3>1 DEF SaveApproved, Worker
    <2>2. prov.id # a
      BY <2>1 DEF Holding
    <2>3. apps' = apps \/ apps' = [apps EXCEPT ![prov.id] = prov.copy]
      BY <1>5 DEF SaveApproved
    <2>4. apps'[a] = apps[a]
      BY <2>2, <2>3 DEF TypeOK
    <2> QED BY <2>1, <2>4
  <1>6. (GetApplication \/ Complete \/ AuditProvisioned \/ Retry \/ WorkerCallFails \/ Crash
            \/ UNCHANGED vars) => UNCHANGED <<apps, hydra>>
    BY DEF GetApplication, Complete, AuditProvisioned, Retry, WorkerCallFails, Crash, vars
  <1> QED BY <1>1, <1>2, <1>3, <1>4, <1>5, <1>6 DEF Next, RunOnce

(* The worker takes up only an application that is being provisioned. *)
LEMMA NotTakenUp ==
    ASSUME TypeOK, [Next]_vars, NEW a \in Apps, ~Holding(a), apps[a].status # "provisioning"
    PROVE  ~Holding(a)'
  <1>1. prov \in [pc : {"idle", "get", "create", "save", "complete", "audit", "retry", "drop"},
                 id : Apps \cup {None}, copy : Row]
    BY DEF TypeOK
  <1>2. ASSUME prov' = prov PROVE ~Holding(a)'
    BY <1>2 DEF Holding
  <1>3. ASSUME prov'.pc \notin {"create", "save"} PROVE ~Holding(a)'
    BY <1>3 DEF Holding
  <1>4. ASSUME NEW r \in Requests, Start(r) \/ Step(r) \/ CallFails(r) PROVE prov' = prov
    BY <1>4, StartOpens, StepMoves DEF Opens, CallFails
  <1>5. ASSUME NEW b \in Apps, ClaimNext(b) \/ RetryDelayPasses(b) \/ ClaimTimesOut(b)
        PROVE  ~Holding(a)'
    <2>1. Claimed(b).pc = "get"
      BY DEF Claimed, ProvIdle
    <2>2. prov' = prov \/ prov' = Claimed(b)
      BY <1>5 DEF ClaimNext, RetryDelayPasses, ClaimTimesOut
    <2> QED BY <1>2, <1>3, <2>1, <2>2
  <1>6. CASE GetApplication
    <2>1. CASE provisionable(apps[prov.id])
      <3>1. prov'.id = prov.id
        BY <1>1, <1>6 DEF GetApplication, Goto
      <3> QED BY <2>1, <3>1 DEF Holding, provisionable
    <2>2. CASE ~provisionable(apps[prov.id])
      <3>1. prov'.pc \in {"retry", "drop"}
        BY <1>1, <1>6, <2>2 DEF GetApplication, Goto
      <3> QED BY <1>3, <3>1
    <2> QED BY <2>1, <2>2
  <1>7. CASE CreateClient
    <2>1. prov.pc = "create" /\ prov'.id = prov.id
      BY <1>1, <1>7 DEF CreateClient, Worker, Goto
    <2> QED BY <2>1 DEF Holding
  <1>8. CASE SaveApproved
    <2>1. prov'.pc \in {"retry", "complete"}
      BY <1>1, <1>8 DEF SaveApproved, Goto
    <2> QED BY <1>3, <2>1
  <1>9. CASE Complete \/ AuditProvisioned \/ Retry \/ WorkerCallFails \/ Crash
    <2>1. prov'.pc \in {"idle", "audit", "retry"}
      BY <1>1, <1>9 DEF Complete, AuditProvisioned, Retry, WorkerCallFails, afterFailure, Crash,
         ProvIdle
    <2> QED BY <1>3, <2>1
  <1>10. CASE UNCHANGED vars
    BY <1>2, <1>10 DEF vars
  <1> QED BY <1>2, <1>4, <1>5, <1>6, <1>7, <1>8, <1>9, <1>10 DEF Next, RunOnce

-----------------------------------------------------------------------------
(* Undisturbed requests. *)

LEMMA RefusedMoves ==
    ASSUME TypeOK, NEW r \in Requests, OnError(r),
           Head(req[r].todo) # CallTo("enqueue", "draft", "-")
    PROVE  req'[r] = Idle
  BY DEF OnError, TypeOK

LEMMA PutKinds ==
    ASSUME NEW t, Puts(t) \/ Saves(t)
    PROVE  Head(t) # CallTo("enqueue", "draft", "-")
  BY DEF Puts, Saves, CallTo, SaveCall

(* The client that UpdateClient has updated serves the copy. *)
LEMMA UpdatedServes ==
    ASSUME TypeOK, NEW r \in Requests, UpdateClient(r), hydra[req[r].copy.client].live,
           req[r].copy.client \in DOMAIN hydra
    PROVE  /\ Serves(hydra'[req[r].copy.client], req[r].copy)
           /\ apps' = apps /\ Reply(r, req[r].copy)
           /\ hydra'[req[r].copy.client].secret = req[r].copy.sealed.secret
  <1> DEFINE c == req[r].copy.client
  <1> DEFINE new == [hydra[c] EXCEPT !.secret = req[r].copy.sealed.secret,
                                     !.profile = req[r].copy.profile,
                                     !.lifespans = (Head(req[r].todo).post = "full")]
  <1>1. hydra' = [hydra EXCEPT ![c] = new] /\ apps' = apps /\ Reply(r, req[r].copy)
    BY DEF UpdateClient
  <1>2. hydra[c] \in Client
    BY SecretTypes
  <1>3. new.secret = req[r].copy.sealed.secret /\ new.profile = req[r].copy.profile /\ new.live
    BY <1>2 DEF Client
  <1>4. hydra'[c] = new
    BY <1>1
  <1> HIDE DEF new
  <1> QED BY <1>1, <1>3, <1>4 DEF Serves

LEMMA AloneStep ==
    ASSUME TypeOK, CredentialInv, SettleInv, [Next]_vars, Record, NEW r \in alone'
    PROVE  Undisturbed(r)' /\ AloneOK(apps', hydra', req'[r])
  <1>1. r \in Requests /\ (r \in alone \/ ~Busy(r)) /\ Undisturbed(r)'
    BY DEF Record
  <1>2. Busy(r)' /\ BusyTodo(req'[r].todo)
    BY <1>1 DEF Undisturbed, Busy, BusyTodo
  <1> SUFFICES ASSUME req'[r].copy.status = "approved"
               PROVE  /\ apps'[req'[r].id].status = "approved"
                      /\ \/ Puts(req'[r].todo)
                         \/ Saves(req'[r].todo) /\ Serves(hydra'[req'[r].copy.client], req'[r].copy)
    BY <1>1 DEF AloneOK
  <1>3. req \in [Requests -> Request] /\ req[r].todo \in Seq(Calls)
    BY <1>1 DEF TypeOK, Request
  <1>4. Idle.copy.status # "approved"
    BY DEF Idle, NoRow
  <1>5. CASE Start(r)
    <2>1. PICK q : req' = [req EXCEPT ![r] = q] /\ Begun(apps[q.id], q)
      BY <1>1, <1>5, StartOpens DEF Opens
    <2>2. apps' = apps
      BY <1>1, <1>5, StartOpens DEF Opens
    <2>3. req'[r] = q
      BY <1>1, <1>3, <2>1
    <2> QED BY <2>1, <2>2, <2>3 DEF Begun
  <1>6. CASE Crash
    BY <1>1, <1>4, <1>6 DEF Crash
  <1>7. CASE Step(r) \/ CallFails(r)
    <2>1. r \in alone
      BY <1>1, <1>2, <1>7, NotBusyStays
    <2>2. PICK q : req' = [req EXCEPT ![r] = q] /\ Continues(r, q)
      BY <1>1, <1>7, Moves
    <2>3. req'[r] = q /\ InFlight(r)
      BY <1>1, <1>3, <1>7, <2>2, Moves
    <2>4. q.copy = req[r].copy /\ q.id = req[r].id /\ req[r].copy.status = "approved"
      BY <1>4, <2>2, <2>3 DEF Continues
    <2>5. /\ apps[req[r].id].status = "approved"
          /\ \/ Puts(req[r].todo)
             \/ Saves(req[r].todo) /\ Serves(hydra[req[r].copy.client], req[r].copy)
      BY <2>1, <2>4 DEF SettleInv, AloneOK
    <2>6. req[r].todo # <<>> /\ Head(req[r].todo) # CallTo("enqueue", "draft", "-")
      BY <2>5, PutKinds DEF Puts, Saves
    <2>7. ~OnError(r)
      BY <1>1, <1>4, <2>6, RefusedMoves
    <2>8. Step(r)
      BY <1>7, <2>7 DEF CallFails
    <2>9. CASE Puts(req[r].todo)
      <3>1. UpdateClient(r)
        BY <2>8, <2>9 DEF Step, Puts, StoreCreate, StoreGet, StoreSelect, StoreTransition, StoreSave,
           StoreEnqueue, StoreAudit, StoreDelete, DeleteClient, NextCall
      <3>2. hydra[req[r].copy.client].live
        BY <2>7, <3>1 DEF UpdateClient, Refused
      <3>3. req[r].copy.client \in DOMAIN hydra
        BY <1>1, <2>3, <2>4 DEF CredentialInv, SoundRow
      <3>4. Serves(hydra'[req[r].copy.client], req[r].copy) /\ apps' = apps
        BY <1>1, <3>1, <3>2, <3>3, UpdatedServes
      <3>5. q.todo = Tail(req[r].todo)
        BY <1>4, <2>2, <2>3, <2>6 DEF Continues
      <3> QED BY <2>3, <2>4, <2>5, <2>9, <3>4, <3>5 DEF Puts
    <2>10. CASE Saves(req[r].todo)
      <3>1. StoreSave(r)
        BY <2>8, <2>10 DEF Step, Saves, SaveCall, CallTo, StoreCreate, StoreGet, StoreSelect,
           StoreTransition, UpdateClient, StoreEnqueue, StoreAudit, StoreDelete, DeleteClient, NextCall
      <3>2. Advance(r, NoRow("absent"))
        BY <2>7, <3>1 DEF StoreSave, Reply, Refused
      <3>3. req'[r].copy.status # "approved"
        <4>1. req[r] \in Request
          BY <1>1, <1>3
        <4>2. [req[r] EXCEPT !.copy = NoRow("absent"), !.todo = Tail(req[r].todo)].copy = NoRow("absent")
          BY <4>1 DEF Request
        <4>3. NoRow("absent").status # "approved"
          BY DEF NoRow
        <4> QED BY <1>1, <1>3, <1>4, <3>2, <4>2, <4>3 DEF Advance
      <3> QED BY <3>3
    <2> QED BY <2>5, <2>9, <2>10
  <1>8. CASE req'[r] = req[r] /\ ~Start(r) /\ ~Step(r) /\ ~CallFails(r)
    <2>1. Busy(r)
      BY <1>2, <1>8 DEF Busy, BusyTodo
    <2>2. r \in alone
      BY <1>1, <2>1
    <2>3. Undisturbed(r) /\ AloneOK(apps, hydra, req[r])
      BY <2>2 DEF SettleInv
    <2>4. InFlight(r)
      BY <1>3, <2>1, EmptyNotBusy DEF Busy, BusyTodo, InFlight
    <2>5. req[r].id \in Apps
      BY <1>1, <2>4, HandlerTypes
    <2>6. ~Holding(req[r].id) /\ \A p \in Requests : p \in BusyOn(req[r].id) => ~Step(p)
      BY <1>8, <2>3 DEF Undisturbed
    <2>7. /\ apps'[req[r].id] = apps[req[r].id]
          /\ \A c \in DOMAIN hydra : hydra[c].app = req[r].id => hydra'[c] = hydra[c]
      BY <2>5, <2>6, Frame
    <2>8. req[r].copy.client \in DOMAIN hydra /\ hydra[req[r].copy.client].app = req[r].id
      BY <1>1, <1>8, <2>4 DEF CredentialInv, SoundRow
    <2> QED BY <1>8, <2>3, <2>7, <2>8 DEF AloneOK
  <1> QED BY <1>1, <1>5, <1>6, <1>7, <1>8, OwnSteps

(* A client the worker has just created. *)
LEMMA FreshStep ==
    ASSUME TypeOK, CredentialInv, SettleInv, [Next]_vars, Record, fresh'
    PROVE  FreshOK(hydra', prov') /\ BusyOn(prov.id)' = {}
  <1>1. /\ fresh \/ prov.pc = "create"
        /\ prov'.pc = "save" /\ BusyOn(prov.id)' = {}
    BY DEF Record
  <1>2. prov \in [pc : {"idle", "get", "create", "save", "complete", "audit", "retry", "drop"},
                 id : Apps \cup {None}, copy : Row]
    BY DEF TypeOK
  <1>3. \/ prov' = prov
        \/ GetApplication \/ CreateClient \/ SaveApproved \/ Complete \/ AuditProvisioned \/ Retry
        \/ WorkerCallFails \/ Crash \/ \E a \in Apps : ClaimNext(a)
    <2>1. ASSUME NEW r \in Requests, Start(r) \/ Step(r) \/ CallFails(r) PROVE prov' = prov
      BY <2>1, StartOpens, StepMoves DEF Opens, CallFails
    <2>2. ASSUME NEW a \in Apps, RetryDelayPasses(a) \/ ClaimTimesOut(a) PROVE prov' = prov
      BY <2>2 DEF RetryDelayPasses, ClaimTimesOut
    <2> QED BY <2>1, <2>2 DEF Next, RunOnce, vars
  <1>4. fresh => prov.pc = "save" /\ FreshOK(hydra, prov) /\ BusyOn(prov.id) = {}
    BY DEF SettleInv, FreshOK
  <1>5. CASE prov' = prov
    <2>1. fresh /\ prov.id \in Apps
      BY <1>1, <1>5 DEF TypeOK
    <2>2. \A c \in DOMAIN hydra : hydra[c].app = prov.id => hydra'[c] = hydra[c]
      BY <1>4, <1>5, <2>1, Frame
    <2>3. SoundRow(prov.id, prov.copy) /\ prov.copy.status = "approved"
      BY <1>4, <2>1 DEF CredentialInv, FreshOK
    <2>4. hydra'[prov.copy.client] = hydra[prov.copy.client]
      BY <2>2, <2>3 DEF SoundRow
    <2> QED BY <1>1, <1>4, <1>5, <2>1, <2>4 DEF FreshOK
  <1>6. CASE CreateClient
    <2> DEFINE new == [app |-> prov.id, secret |-> secrets + 1, profile |-> prov.copy.profile,
                       lifespans |-> TRUE, live |-> TRUE]
    <2> DEFINE cr == [client |-> Len(hydra) + 1, secret |-> secrets + 1]
    <2> DEFINE row == WithCredentials(prov.copy, prov.id, cr)
    <2>1. hydra' = Append(hydra, new)
      BY <1>6 DEF CreateClient
    <2>2. hydra'[Len(hydra) + 1] = new
      BY <2>1, AppendProperties DEF TypeOK
    <2>3. new.secret = secrets + 1 /\ new.profile = prov.copy.profile /\ new.live
      OBVIOUS
    <2>4. /\ row.client = Len(hydra) + 1 /\ row.sealed.secret = secrets + 1
          /\ row.profile = prov.copy.profile /\ row.status = "approved"
      BY <1>2 DEF WithCredentials, Encrypt, Row
    <2>5. prov'.copy = row
      BY <1>1, <1>2, <1>6 DEF CreateClient, Goto
    <2> HIDE DEF new, cr, row
    <2> QED BY <1>1, <2>2, <2>3, <2>4, <2>5 DEF FreshOK, Serves
  <1>7. CASE GetApplication \/ SaveApproved \/ Complete \/ AuditProvisioned \/ Retry
    <2>1. prov.pc \in {"create", "save"}
      BY <1>1, <1>4
    <2>2. SaveApproved
      BY <1>7, <2>1 DEF GetApplication, Complete, AuditProvisioned, Retry, Worker
    <2>3. prov'.pc \in {"retry", "complete"}
      BY <1>2, <2>2 DEF SaveApproved, Goto
    <2> QED BY <1>1, <2>3
  <1>8. CASE WorkerCallFails \/ Crash
    <2>1. prov'.pc \in {"retry", "idle"}
      BY <1>2, <1>8 DEF WorkerCallFails, afterFailure, Crash, ProvIdle
    <2> QED BY <1>1, <2>1
  <1>9. CASE \E a \in Apps : ClaimNext(a)
    <2>1. prov.pc = "idle"
      BY <1>9 DEF ClaimNext, Worker
    <2> QED BY <1>1, <1>4, <2>1
  <1> QED BY <1>3, <1>5, <1>6, <1>7, <1>8, <1>9

-----------------------------------------------------------------------------
(* Settled applications. *)

(* A call without a fault, on an application where only this request works.   *)
LEMMA Answered ==
    ASSUME TypeOK, NEW r \in Requests, InFlight(r), NEW c, Reply(r, c), faults' = faults
    PROVE  /\ req'[r].todo = Tail(req[r].todo)
           /\ Tail(req[r].todo) # <<>> => req'[r].id = req[r].id /\ req'[r].copy = c
           /\ \A p \in Requests : p # r => req'[p] = req[p]
  <1>1. req \in [Requests -> Request] /\ req[r] \in Request /\ faults \in Nat
    BY DEF TypeOK
  <1>2. Advance(r, c)
    <2>1. ~Fault("lost")
      BY <1>1 DEF Fault
    <2> QED BY <2>1 DEF Reply
  <1> DEFINE next == [req[r] EXCEPT !.copy = c, !.todo = Tail(req[r].todo)]
  <1>3. next.copy = c /\ next.todo = Tail(req[r].todo) /\ next.id = req[r].id
    BY <1>1 DEF Request
  <1>4. req' = [req EXCEPT ![r] = IF Tail(req[r].todo) = <<>> THEN Idle ELSE next]
    BY <1>2 DEF Advance
  <1> HIDE DEF next
  <1> QED BY <1>1, <1>3, <1>4, RowTypes

LEMMA BusyOnNext ==
    ASSUME TypeOK, TypeOK', NEW a \in Apps, NEW r \in Requests, BusyOn(a) = {r},
           \A p \in Requests : p # r => req'[p] = req[p]
    PROVE  /\ BusyTodo(req'[r].todo) /\ req'[r].id = a => BusyOn(a)' = {r}
           /\ ~BusyTodo(req'[r].todo) => BusyOn(a)' = {}
  <1>1. \A p \in Requests : p # r => p \notin BusyOn(a)'
    BY DEF BusyOn, Busy
  <1> QED BY <1>1 DEF BusyOn, Busy, BusyTodo

(* The kind of call a handler makes. *)
LEMMA CallMade ==
    ASSUME NEW r \in Requests, Step(r)
    PROVE  /\ Head(req[r].todo).call = "save" => StoreSave(r)
           /\ Head(req[r].todo).call = "updateClient" => UpdateClient(r)
           /\ Head(req[r].todo).call = "deleteClient" => DeleteClient(r)
           /\ Head(req[r].todo).call = "transition" => StoreTransition(r)
           /\ Head(req[r].todo).call = "audit" => StoreAudit(r)
           /\ Head(req[r].todo).call = "delete" => StoreDelete(r)
  BY DEF Step, StoreCreate, StoreGet, StoreSelect, StoreTransition, StoreSave, StoreEnqueue,
         StoreAudit, StoreDelete, UpdateClient, DeleteClient, NextCall

(* The lists tell the kind of their first call, and all but the empty end of  *)
(* an update, a revocation and a deletion are busy.                           *)
LEMMA ListKinds ==
    ASSUME NEW t \in Seq(Calls)
    PROVE  /\ Saves(t) => Head(t).call = "save" /\ BusyTodo(t) /\ t # <<>>
           /\ Puts(t) => Head(t).call = "updateClient" /\ BusyTodo(t) /\ t # <<>>
           /\ Revokes(t) => Head(t) = TransitionCall("approved", "revoked") /\ BusyTodo(t) /\ t # <<>>
           /\ Removes(t) => Head(t).call = "delete" /\ BusyTodo(t) /\ t # <<>>
           /\ Announces(t) => Head(t).call = "audit" /\ BusyTodo(t) /\ t # <<>>
           /\ Retires(t) => Head(t).call = "deleteClient" /\ BusyTodo(t) /\ t # <<>>
  <1>1. CASE t # <<>>
    <2>1. /\ BusyTodo(t) <=> Head(t).call # "audit" \/ BusyTodo(Tail(t))
          /\ Tail(t) \in Seq(Calls)
      BY <1>1, BusyCons
    <2>2. Removes(Tail(t)) => BusyTodo(Tail(t))
      BY <2>1, BusyCons DEF Removes
    <2> QED BY <1>1, <2>1, <2>2 DEF Saves, Puts, Revokes, Removes, Announces, Retires, SaveCall,
            TransitionCall, CallTo
  <1>2. CASE t = <<>>
    BY <1>2 DEF Saves, Puts, Revokes, Removes, Announces, Retires
  <1> QED BY <1>1, <1>2

(* The row of a settled application names a client of its own. *)
LEMMA SettledClient ==
    ASSUME TypeOK, CredentialInv, NEW a \in Apps, apps[a].status \in {"approved", "revoked"}
    PROVE  /\ apps[a].client # 0 /\ apps[a].client \in DOMAIN hydra
           /\ hydra[apps[a].client].app = a
  BY DEF CredentialInv, SoundRow

(* The one request at work on a settled application makes its next call, and  *)
(* no fault hits it.                                                          *)
LEMMA SettledCall ==
    ASSUME TypeOK, TypeOK', CredentialInv, SettleInv, NEW a \in Apps, SettledOK(a),
           NEW r \in BusyOn(a), Step(r), faults' = faults, [Next]_vars
    PROVE  SettledOK(a)'
  <1>1. /\ r \in Requests /\ req[r].id = a /\ InFlight(r) /\ req[r].todo \in Seq(Calls)
        /\ prov' = prov /\ apps \in [Apps -> Row]
    BY StepMoves DEF BusyOn, TypeOK, Request
  <1>2. BusyOn(a) = {r} /\ HandlerSettled(apps[a], hydra, req[r]) /\ RowSettled(apps[a], hydra)
    BY DEF SettledOK
  <1>3. ~Holding(a)'
    BY <1>1 DEF SettledOK, Holding
  <1>4. apps[a].status \in {"approved", "revoked"} /\ Exists(a)
    BY <1>2 DEF HandlerSettled, Exists, Statuses
  <1> DEFINE t == req[r].todo
             c == apps[a].client
  <1>5. c \in DOMAIN hydra
    BY <1>4, SettledClient
  <1>6. t # <<>> /\ Tail(t) \in Seq(Calls)
    BY <1>1, BusyCons DEF InFlight
  <1>7. ASSUME BusyOn(a)' = {r}, HandlerSettled(apps'[a], hydra', req'[r]), RowSettled(apps'[a], hydra')
        PROVE  SettledOK(a)'
    BY <1>3, <1>7 DEF SettledOK
  <1>8. ASSUME BusyOn(a)' = {}, RowSettled(apps'[a], hydra'),
               apps'[a].status = "approved" => Serves(hydra'[apps'[a].client], apps'[a])
        PROVE  SettledOK(a)'
    BY <1>3, <1>8 DEF SettledOK
  <1>9. CASE /\ Puts(t) /\ apps[a].status = "approved" /\ req[r].copy.client = c
             /\ req[r].copy.status = "approved" /\ Serves(hydra[c], apps[a])
    <2>1. UpdateClient(r)
      BY <1>1, <1>9, CallMade, ListKinds
    <2>2. /\ Serves(hydra'[c], req[r].copy) /\ apps' = apps /\ Reply(r, req[r].copy)
      BY <1>1, <1>5, <1>9, <2>1, UpdatedServes DEF Serves
    <2>3. Saves(Tail(t)) /\ Tail(t) # <<>> /\ BusyTodo(Tail(t))
      BY <1>6, <1>9, ListKinds DEF Puts
    <2>4. /\ req'[r].todo = Tail(t) /\ req'[r].id = a /\ req'[r].copy = req[r].copy
          /\ \A p \in Requests : p # r => req'[p] = req[p]
      BY <1>1, <2>2, <2>3, Answered
    <2>5. BusyOn(a)' = {r}
      BY <1>1, <1>2, <2>3, <2>4, BusyOnNext
    <2>6. HandlerSettled(apps'[a], hydra', req'[r])
      BY <1>9, <2>2, <2>3, <2>4 DEF HandlerSettled
    <2>7. RowSettled(apps'[a], hydra')
      BY <1>9, <2>2 DEF RowSettled
    <2> QED BY <1>7, <2>5, <2>6, <2>7
  <1>10. CASE /\ Saves(t) /\ apps[a].status = "approved" /\ req[r].copy.client = c
              /\ req[r].copy.status = "approved" /\ Serves(hydra[c], req[r].copy)
    <2>1. StoreSave(r)
      BY <1>1, <1>10, CallMade, ListKinds
    <2>2. apps'[a] = req[r].copy /\ hydra' = hydra /\ Reply(r, NoRow("absent"))
      BY <1>1, <1>4, <2>1 DEF StoreSave
    <2>3. req'[r].todo = Tail(t) /\ \A p \in Requests : p # r => req'[p] = req[p]
      BY <1>1, <2>2, Answered
    <2>4. BusyOn(a)' = {}
      BY <1>1, <1>2, <1>10, <2>3, BusyOnNext DEF Saves
    <2>5. RowSettled(apps'[a], hydra') /\ Serves(hydra'[apps'[a].client], apps'[a])
      BY <1>10, <2>2 DEF RowSettled
    <2> QED BY <1>8, <2>4, <2>5
  <1>11. CASE /\ Retires(t) /\ apps[a].status = "approved" /\ req[r].copy.client = c
              /\ Serves(hydra[c], apps[a])
    <2>1. DeleteClient(r)
      BY <1>1, <1>11, CallMade, ListKinds
    <2>2. hydra' = [hydra EXCEPT ![c].live = FALSE] /\ apps' = apps /\ Reply(r, NoRow("absent"))
      BY <1>11, <2>1 DEF DeleteClient, Serves
    <2>3. ~hydra'[c].live
      <3>1. hydra[c] \in Client
        BY <1>5, SecretTypes
      <3>2. [hydra[c] EXCEPT !.live = FALSE].live = FALSE
        BY <3>1 DEF Client
      <3> QED BY <1>5, <2>2, <3>2
    <2>4. (Revokes(Tail(t)) \/ Announces(Tail(t))) /\ Tail(t) # <<>> /\ BusyTodo(Tail(t))
      BY <1>6, <1>11, ListKinds DEF Retires
    <2>5. /\ req'[r].todo = Tail(t) /\ req'[r].id = a
          /\ \A p \in Requests : p # r => req'[p] = req[p]
      BY <1>1, <2>2, <2>4, Answered
    <2>6. BusyOn(a)' = {r}
      BY <1>1, <1>2, <2>4, <2>5, BusyOnNext
    <2>7. HandlerSettled(apps'[a], hydra', req'[r])
      BY <1>11, <2>2, <2>3, <2>4, <2>5 DEF HandlerSettled
    <2>8. RowSettled(apps'[a], hydra')
      BY <1>11, <2>2 DEF RowSettled
    <2> QED BY <1>7, <2>6, <2>7, <2>8
  <1>12. CASE Revokes(t) /\ apps[a].status = "approved" /\ ~hydra[c].live
    <2>1. Head(t) = TransitionCall("approved", "revoked") /\ StoreTransition(r)
      BY <1>1, <1>12, CallMade, ListKinds DEF TransitionCall, CallTo
    <2>2. Head(t).pre = "approved" /\ Head(t).post = "revoked" /\ validTransition("approved", "revoked")
      BY <2>1 DEF TransitionCall, CallTo, validTransition
    <2>3. apps' = [apps EXCEPT ![a].status = "revoked"] /\ hydra' = hydra /\ Reply(r, req[r].copy)
      BY <1>1, <1>12, <2>1, <2>2 DEF StoreTransition
    <2>4. apps'[a].status = "revoked" /\ apps'[a].client = c
      <3>1. apps[a] \in Row
        BY <1>1
      <3> QED BY <1>1, <2>3, <3>1 DEF Row
    <2>5. req'[r].todo = Tail(t) /\ \A p \in Requests : p # r => req'[p] = req[p]
      BY <1>1, <2>3, Answered
    <2>6. BusyOn(a)' = {}
      BY <1>1, <1>2, <1>12, <2>5, BusyOnNext DEF Revokes
    <2>7. RowSettled(apps'[a], hydra')
      BY <1>12, <2>3, <2>4 DEF RowSettled
    <2> QED BY <1>8, <2>4, <2>6, <2>7
  <1>13. CASE Announces(t) /\ ~hydra[c].live
    <2>1. StoreAudit(r)
      BY <1>1, <1>13, CallMade, ListKinds
    <2>2. UNCHANGED <<apps, hydra>> /\ Reply(r, req[r].copy)
      BY <1>1, <1>4, <2>1 DEF StoreAudit
    <2>3. Removes(Tail(t)) /\ Tail(t) # <<>> /\ BusyTodo(Tail(t))
      BY <1>6, <1>13, ListKinds DEF Announces
    <2>4. /\ req'[r].todo = Tail(t) /\ req'[r].id = a
          /\ \A p \in Requests : p # r => req'[p] = req[p]
      BY <1>1, <2>2, <2>3, Answered
    <2>5. BusyOn(a)' = {r}
      BY <1>1, <1>2, <2>3, <2>4, BusyOnNext
    <2>6. HandlerSettled(apps'[a], hydra', req'[r])
      BY <1>4, <1>13, <2>2, <2>3, <2>4 DEF HandlerSettled
    <2> QED BY <1>2, <1>7, <2>2, <2>5, <2>6
  <1>14. CASE Removes(t)
    <2>1. StoreDelete(r)
      BY <1>1, <1>14, CallMade, ListKinds
    <2>2. apps'[a] = NoRow("deleted") /\ Reply(r, NoRow("absent"))
      BY <1>1, <1>4, <2>1 DEF StoreDelete
    <2>3. apps'[a].status = "deleted"
      BY <2>2 DEF NoRow
    <2>4. req'[r].todo = Tail(t) /\ \A p \in Requests : p # r => req'[p] = req[p]
      BY <1>1, <2>2, Answered
    <2>5. BusyOn(a)' = {}
      BY <1>1, <1>2, <1>14, <2>4, BusyOnNext DEF Removes
    <2> QED BY <1>8, <2>3, <2>5 DEF RowSettled
  <1> QED BY <1>2, <1>9, <1>10, <1>11, <1>12, <1>13, <1>14 DEF HandlerSettled

(* Anything else leaves row and client as they are; a request may come to the *)
(* application when nobody works on it.                                       *)
LEMMA SettledKept ==
    ASSUME TypeOK, CredentialInv, SecretInv, NEW a \in Apps, SettledOK(a),
           \A r \in Requests : r \in BusyOn(a) => ~Step(r), ~Disturbs(a), [Next]_vars
    PROVE  SettledOK(a)'
  <1>1. apps[a].status # "provisioning" /\ ~Holding(a) /\ RowSettled(apps[a], hydra)
    BY DEF SettledOK, RowSettled
  <1>2. /\ apps'[a] = apps[a]
        /\ \A c \in DOMAIN hydra : hydra[c].app = a => hydra'[c] = hydra[c]
    BY <1>1, Frame
  <1>3. ~Holding(a)'
    BY <1>1, NotTakenUp
  <1>4. apps[a].status \in {"approved", "revoked"} => hydra'[apps[a].client] = hydra[apps[a].client]
    BY <1>2, SettledClient
  <1>5. RowSettled(apps'[a], hydra')
    BY <1>1, <1>2, <1>4 DEF RowSettled
  <1>6. \A r, q \in BusyOn(a)' : r = q
    BY DEF Disturbs
  <1>7. req \in [Requests -> Request] /\ faults \in Nat
    BY DEF TypeOK
  <1>8. ASSUME NEW s \in BusyOn(a) PROVE req'[s] = req[s] /\ s \in BusyOn(a)'
    <2>1. s \in Requests /\ ~Step(s) /\ BusyTodo(req[s].todo)
      BY DEF BusyOn, Busy, BusyTodo
    <2>2. InFlight(s)
      BY <2>1, EmptyNotBusy DEF InFlight
    <2>3. ~Start(s)
      BY <2>1, <2>2, StartOpens DEF Opens
    <2>4. ~(faults' # faults /\ req'[s] # req[s])
      BY DEF Disturbs
    <2>5. CallFails(s) \/ Crash => faults' # faults
      BY <1>7 DEF CallFails, Crash, Fault
    <2>6. req'[s] = req[s]
      BY <2>1, <2>3, <2>4, <2>5, OwnSteps
    <2> QED BY <2>6 DEF BusyOn, Busy
  <1>9. apps'[a].status = "approved" /\ BusyOn(a)' = {} => Serves(hydra'[apps'[a].client], apps'[a])
    BY <1>2, <1>4, <1>8 DEF SettledOK
  <1>10. ASSUME NEW r \in BusyOn(a)' PROVE HandlerSettled(apps'[a], hydra', req'[r])
    <2>1. r \in Requests /\ req'[r].id = a /\ BusyTodo(req'[r].todo)
      BY DEF BusyOn, Busy, BusyTodo
    <2>2. CASE r \in BusyOn(a)
      <3>1. HandlerSettled(apps[a], hydra, req[r])
        BY <2>2 DEF SettledOK
      <3>2. apps[a].status \in {"approved", "revoked"}
        BY <3>1 DEF HandlerSettled
      <3> QED BY <1>2, <1>4, <1>8, <2>2, <3>1, <3>2 DEF HandlerSettled
    <2>3. CASE r \notin BusyOn(a)
      <3>1. BusyOn(a) = {}
        <4>1. \A s \in BusyOn(a) : s \in BusyOn(a)' /\ s # r
          BY <1>8, <2>3
        <4> QED BY <1>6, <4>1
      <3>2. req'[r] # req[r]
        BY <2>1, <2>3 DEF BusyOn, Busy, BusyTodo
      <3>3. Idle.id # a
        BY Assumptions DEF Idle
      <3>4. ~Crash
        BY <2>1, <3>3 DEF Crash
      <3>5. ~(Step(r) \/ CallFails(r))
        <4> SUFFICES ASSUME Step(r) \/ CallFails(r) PROVE FALSE
          OBVIOUS
        <4>1. PICK q : req' = [req EXCEPT ![r] = q] /\ Continues(r, q)
          BY <2>1, Moves
        <4>2. req'[r] = q
          BY <1>7, <2>1, <4>1
        <4>3. req[r].id = a
          BY <2>1, <3>3, <4>1, <4>2 DEF Continues
        <4>4. ~Busy(r)
          BY <2>1, <2>3, <4>3 DEF BusyOn
        <4>5. ~Busy(r)'
          BY <2>1, <4>4, NotBusyStays
        <4> QED BY <2>1, <4>5 DEF Busy, BusyTodo
      <3>6. Start(r)
        BY <2>1, <3>2, <3>4, <3>5, OwnSteps
      <3>7. PICK q : q.id \in Apps /\ req' = [req EXCEPT ![r] = q] /\ Begun(apps[q.id], q)
        BY <2>1, <3>6, StartOpens DEF Opens
      <3>8. req'[r] = q /\ q.id = a /\ Begun(apps[a], q) /\ BusyTodo(q.todo)
        BY <1>7, <2>1, <3>7
      <3>9. apps[a].status = "approved" => Serves(hydra[apps[a].client], apps[a])
        BY <3>1 DEF SettledOK
      <3>10. CASE /\ apps[a].status = "approved" /\ Puts(q.todo)
                  /\ q.copy.status = "approved" /\ q.copy.client = apps[a].client
                  /\ q.copy.sealed.secret \in {apps[a].sealed.secret, secrets + 1}
        <4>1. /\ apps[a].sealed.secret \in Nat /\ secrets \in Nat
              /\ apps[a].sealed.secret <= secrets
          BY SecretTypes DEF SecretInv
        <4>2. q.copy.sealed.secret >= apps[a].sealed.secret
          BY <3>10, <4>1
        <4> QED BY <1>2, <1>4, <3>8, <3>9, <3>10, <4>2 DEF HandlerSettled
      <3>11. CASE apps[a].status = "approved" /\ Retires(q.todo) /\ q.copy.client = apps[a].client
        BY <1>2, <1>4, <3>8, <3>9, <3>11 DEF HandlerSettled
      <3>12. CASE apps[a].status = "revoked" /\ Announces(q.todo)
        BY <1>1, <1>2, <1>4, <3>8, <3>12 DEF HandlerSettled, RowSettled
      <3> QED BY <1>1, <3>8, <3>10, <3>11, <3>12 DEF Begun, RowSettled
    <2> QED BY <2>2, <2>3
  <1> QED BY <1>3, <1>5, <1>6, <1>9, <1>10 DEF SettledOK

(* An undisturbed update settles its application. *)
LEMMA UpdateSettles ==
    ASSUME TypeOK, TypeOK', SettleInv, NEW r \in Requests, Settles(r), NEW a \in Apps,
           req[r].id = a, [Next]_vars
    PROVE  SettledOK(a)'
  <1>1. /\ r \in alone /\ InFlight(r) /\ Head(req[r].todo).call = "save" /\ req[r].todo \in Seq(Calls)
        /\ req[r].copy.status = "approved" /\ req'[r] # req[r] /\ faults' = faults
        /\ faults \in Nat /\ apps \in [Apps -> Row]
    BY DEF Settles, NextCall, TypeOK, Request
  <1>2. Undisturbed(r) /\ AloneOK(apps, hydra, req[r]) /\ req[r].id \in Apps
    BY <1>1, HandlerTypes DEF SettleInv
  <1>3. /\ apps[req[r].id].status = "approved"
        /\ Saves(req[r].todo) /\ Serves(hydra[req[r].copy.client], req[r].copy)
    BY <1>1, <1>2, ListKinds DEF AloneOK
  <1>4. Step(r)
    <2>1. ~Start(r)
      BY <1>1, StartOpens DEF Opens
    <2>2. ~CallFails(r) /\ ~Crash
      BY <1>1 DEF CallFails, Crash, Fault
    <2> QED BY <1>1, <2>1, <2>2, OwnSteps
  <1>5. StoreSave(r) /\ Exists(req[r].id)
    BY <1>1, <1>3, <1>4, CallMade DEF Exists, Statuses
  <1>6. apps'[req[r].id] = req[r].copy /\ hydra' = hydra /\ Reply(r, NoRow("absent")) /\ prov' = prov
    BY <1>1, <1>2, <1>4, <1>5, StepMoves DEF StoreSave
  <1>7. req'[r].todo = Tail(req[r].todo) /\ \A p \in Requests : p # r => req'[p] = req[p]
    BY <1>1, <1>6, Answered
  <1>8. BusyOn(a)' = {}
    BY <1>2, <1>3, <1>7, BusyOnNext DEF Saves, Undisturbed
  <1>9. ~Holding(a)'
    BY <1>2, <1>6 DEF Undisturbed, Holding
  <1>10. RowSettled(apps'[a], hydra') /\ Serves(hydra'[apps'[a].client], apps'[a])
    BY <1>1, <1>3, <1>6 DEF RowSettled
  <1> QED BY <1>8, <1>9, <1>10 DEF SettledOK

(* So does the worker with a client it created in this attempt. *)
LEMMA ProvisioningSettles ==
    ASSUME TypeOK, SettleInv, NEW a \in Apps, WorkerSettles(a), [Next]_vars
    PROVE  SettledOK(a)'
  <1>1. /\ fresh /\ prov.id = a /\ prov'.pc = "complete" /\ apps \in [Apps -> Row]
        /\ prov \in [pc : {"idle", "get", "create", "save", "complete", "audit", "retry", "drop"},
                     id : Apps \cup {None}, copy : Row]
    BY DEF WorkerSettles, TypeOK
  <1>2. /\ prov.pc = "save" /\ prov.copy.status = "approved"
        /\ Serves(hydra[prov.copy.client], prov.copy) /\ BusyOn(a) = {}
    BY <1>1 DEF SettleInv, FreshOK
  <1>3. SaveApproved
    <2>1. prov' # prov
      BY <1>1, <1>2
    <2>2. ASSUME NEW r \in Requests, Start(r) \/ Step(r) \/ CallFails(r) PROVE prov' = prov
      BY <2>2, StartOpens, StepMoves DEF Opens, CallFails
    <2>3. ASSUME NEW b \in Apps, ClaimNext(b) \/ RetryDelayPasses(b) \/ ClaimTimesOut(b)
          PROVE  prov' = prov
      BY <1>2, <2>3 DEF ClaimNext, RetryDelayPasses, ClaimTimesOut, Worker
    <2>4. ~WorkerCallFails /\ ~Crash
      BY <1>1, <1>2 DEF WorkerCallFails, afterFailure, Crash, ProvIdle
    <2>5. ~GetApplication /\ ~CreateClient /\ ~Complete /\ ~AuditProvisioned /\ ~Retry
      BY <1>2 DEF GetApplication, CreateClient, Complete, AuditProvisioned, Retry, Worker
    <2>6. ~UNCHANGED vars
      BY <2>1 DEF vars
    <2> QED BY <2>1, <2>2, <2>3, <2>4, <2>5, <2>6 DEF Next, RunOnce
  <1>4. apps' = [apps EXCEPT ![a] = prov.copy] /\ UNCHANGED <<hydra, req>>
    BY <1>1, <1>3 DEF SaveApproved, Goto
  <1>5. apps'[a] = prov.copy /\ BusyOn(a)' = {}
    BY <1>1, <1>2, <1>4 DEF BusyOn, Busy
  <1>6. ~Holding(a)'
    BY <1>1 DEF Holding
  <1>7. RowSettled(apps'[a], hydra') /\ Serves(hydra'[apps'[a].client], apps'[a])
    BY <1>2, <1>4, <1>5 DEF RowSettled
  <1> QED BY <1>5, <1>6, <1>7 DEF SettledOK

LEMMA SettledStep ==
    ASSUME TypeOK, TypeOK', CredentialInv, SecretInv, SettleInv, [Next]_vars, Record,
           NEW a \in settled'
    PROVE  SettledOK(a)'
  <1>1. /\ a \in Apps
        /\ \/ \E r \in Requests : req[r].id = a /\ Settles(r)
           \/ WorkerSettles(a)
           \/ a \in settled /\ ~Disturbs(a)
    BY DEF Record
  <1>2. CASE \E r \in Requests : req[r].id = a /\ Settles(r)
    BY <1>1, <1>2, UpdateSettles
  <1>3. CASE WorkerSettles(a)
    BY <1>1, <1>3, ProvisioningSettles
  <1>4. CASE a \in settled /\ ~Disturbs(a)
    <2>1. SettledOK(a)
      BY <1>4 DEF SettleInv
    <2>2. CASE \E r \in BusyOn(a) : Step(r)
      <3>1. PICK r \in BusyOn(a) : Step(r)
        BY <2>2
      <3>2. r \in Requests /\ req \in [Requests -> Request]
        BY DEF BusyOn, TypeOK
      <3>3. PICK q : req' = [req EXCEPT ![r] = q] /\ q # req[r]
        BY <3>1, <3>2, Moves
      <3>4. req'[r] # req[r]
        BY <3>2, <3>3
      <3>5. faults' = faults
        BY <1>4, <3>4 DEF Disturbs
      <3> QED BY <1>1, <2>1, <3>1, <3>5, SettledCall
    <2>3. CASE ~\E r \in BusyOn(a) : Step(r)
      BY <1>1, <1>4, <2>1, <2>3, SettledKept
    <2> QED BY <2>2, <2>3
  <1> QED BY <1>1, <1>2, <1>3, <1>4

-----------------------------------------------------------------------------
(* The theorems. *)

LEMMA SyncRefines ==
    /\ SyncSpec => []TypeOK
    /\ SyncSpec => []CredentialInv
    /\ SyncSpec => []SecretInv
  <1>1. SyncInit => Init
    BY DEF SyncInit
  <1>2. [SyncNext]_syncVars => [Next]_vars
    BY DEF SyncNext, syncVars
  <1>3. SyncSpec => Spec
    BY <1>1, <1>2, PTL DEF SyncSpec, Spec
  <1> QED BY <1>3, TypeCorrect, CredentialSafety, SecretSafety, PTL

LEMMA SettleSafety == SyncSpec => []SettleInv
  <1>1. SyncInit => SettleInv
    BY DEF SyncInit, SettleInv
  <1>2. TypeOK /\ TypeOK' /\ CredentialInv /\ SecretInv /\ SettleInv /\ [SyncNext]_syncVars => SettleInv'
    <2> SUFFICES ASSUME TypeOK, TypeOK', CredentialInv, SecretInv, SettleInv, [SyncNext]_syncVars
                 PROVE  SettleInv'
      OBVIOUS
    <2>1. CASE SyncNext
      <3>1. [Next]_vars /\ Record
        BY <2>1 DEF SyncNext
      <3>2. alone' \subseteq Requests /\ settled' \subseteq Apps
        BY <3>1 DEF Record
      <3>3. \A r \in alone' : Undisturbed(r)' /\ AloneOK(apps', hydra', req'[r])
        BY <3>1, AloneStep
      <3>4. fresh' => FreshOK(hydra', prov') /\ BusyOn(prov.id)' = {}
        BY <3>1, FreshStep
      <3>5. \A a \in settled' : SettledOK(a)'
        BY <3>1, SettledStep
      <3> QED BY <3>2, <3>3, <3>4, <3>5 DEF SettleInv
    <2>2. CASE UNCHANGED syncVars
      BY <2>2 DEF syncVars, vars, SettleInv, Undisturbed, AloneOK, FreshOK, SettledOK, RowSettled,
         HandlerSettled, Holding, BusyOn, Busy, Serves
    <2> QED BY <2>1, <2>2
  <1> QED BY <1>1, <1>2, SyncRefines, PTL DEF SyncSpec

(* Whatever races and failures came before, an edit, a rotation or a          *)
(* provisioning that runs undisturbed leaves Hydra and the row in agreement   *)
(* (UpdateDraft, RotateSecret, Provisioner.provision), until requests overlap *)
(* on the application or a fault hits one of them; Revoke and Delete take the *)
(* client out of Hydra before they touch the row.                             *)
THEOREM UpdatesSettle == SyncSpec => []SettledInSync
  <1>1. TypeOK /\ SettleInv => SettledInSync
    <2> SUFFICES ASSUME TypeOK, SettleInv, NEW a \in settled
                 PROVE  /\ apps[a].status \in {"approved", "revoked", "deleted"}
                        /\ apps[a].status = "approved" /\ BusyOn(a) = {} =>
                              Serves(hydra[apps[a].client], apps[a])
                        /\ apps[a].status = "revoked" => ~hydra[apps[a].client].live
                        /\ \A r \in BusyOn(a) : NextCall(r, "delete") => ~hydra[apps[a].client].live
      BY DEF SettledInSync
    <2>1. SettledOK(a)
      BY DEF SettleInv
    <2>2. ASSUME NEW r \in BusyOn(a), NextCall(r, "delete") PROVE ~hydra[apps[a].client].live
      <3>1. HandlerSettled(apps[a], hydra, req[r]) /\ Head(req[r].todo).call = "delete"
        BY <2>1, <2>2 DEF SettledOK, NextCall
      <3>2. req[r].todo \in Seq(Calls)
        BY DEF BusyOn, TypeOK, Request
      <3>3. ~Puts(req[r].todo) /\ ~Saves(req[r].todo) /\ ~Retires(req[r].todo)
        BY <3>1, <3>2, ListKinds
      <3> QED BY <3>1, <3>3 DEF HandlerSettled
    <2> QED BY <2>1, <2>2 DEF SettledOK, RowSettled
  <1> QED BY <1>1, SettleSafety, SyncRefines, PTL

(* A replaced secret comes back (an edit's PUT undoing RotateSecret) only in  *)
(* an application on which requests have overlapped, or a call has failed,    *)
(* since it was last settled.                                                 *)
THEOREM SettledSecretsStay == SyncSpec => SettledSecretStays
  <1>1. ASSUME TypeOK, CredentialInv, SettleInv, [SyncNext]_syncVars, NEW a \in settled,
               apps[a].client # 0
        PROVE  hydra'[apps[a].client].secret >= hydra[apps[a].client].secret
    <2>1. SettledOK(a) /\ a \in Apps /\ [Next]_vars
      BY <1>1 DEF SettleInv, SyncNext, syncVars
    <2> DEFINE c == apps[a].client
    <2>2. c \in DOMAIN hydra /\ hydra[c].app = a /\ hydra[c] \in Client /\ hydra[c].secret \in Nat
      BY <1>1, <2>1, SecretTypes DEF CredentialInv, SoundRow
    <2>3. \A n \in Nat : n >= n
      OBVIOUS
    <2>4. CASE ~\E r \in BusyOn(a) : Step(r)
      <3>1. hydra'[c] = hydra[c]
        BY <1>1, <2>1, <2>2, <2>4, Frame DEF SettledOK
      <3> QED BY <2>2, <2>3, <3>1
    <2>5. CASE \E r \in BusyOn(a) : Step(r)
      <3>1. PICK r \in BusyOn(a) : Step(r)
        BY <2>5
      <3>2. r \in Requests /\ req[r].todo \in Seq(Calls) /\ HandlerSettled(apps[a], hydra, req[r])
        BY <1>1, <2>1 DEF BusyOn, TypeOK, Request, SettledOK
      <3>3. CASE /\ Puts(req[r].todo) /\ req[r].copy.client = c /\ Serves(hydra[c], apps[a])
                 /\ req[r].copy.sealed.secret >= apps[a].sealed.secret
        <4>1. UpdateClient(r) /\ hydra[c].live
          BY <3>1, <3>2, <3>3, CallMade, ListKinds DEF Serves
        <4>2. hydra'[c].secret = req[r].copy.sealed.secret
          BY <1>1, <2>2, <3>2, <3>3, <4>1, UpdatedServes
        <4> QED BY <3>3, <4>2 DEF Serves
      <3>4. CASE Retires(req[r].todo) /\ req[r].copy.client = c
        <4>1. DeleteClient(r)
          BY <3>1, <3>2, <3>4, CallMade, ListKinds
        <4>2. hydra' = hydra \/ hydra' = [hydra EXCEPT ![c].live = FALSE]
          BY <3>4, <4>1 DEF DeleteClient, Refused
        <4>3. [hydra[c] EXCEPT !.live = FALSE].secret = hydra[c].secret
          BY <2>2 DEF Client
        <4>4. hydra'[c].secret = hydra[c].secret
          BY <2>2, <4>2, <4>3
        <4> QED BY <2>2, <2>3, <4>4
      <3>5. CASE \/ Saves(req[r].todo) \/ Revokes(req[r].todo) \/ Announces(req[r].todo)
                 \/ Removes(req[r].todo)
        <4>1. StoreSave(r) \/ StoreTransition(r) \/ StoreAudit(r) \/ StoreDelete(r)
          BY <3>1, <3>2, <3>5, CallMade, ListKinds DEF TransitionCall, CallTo
        <4>2. hydra' = hydra
          BY <4>1 DEF StoreSave, StoreTransition, StoreAudit, StoreDelete, Refused
        <4> QED BY <2>2, <2>3, <4>2
      <3> QED BY <3>2, <3>3, <3>4, <3>5 DEF HandlerSettled
    <2> QED BY <2>4, <2>5
  <1>2. TypeOK /\ CredentialInv /\ SettleInv /\ [SyncNext]_syncVars =>
            [\A a \in settled :
               apps[a].client # 0 =>
                   hydra'[apps[a].client].secret >= hydra[apps[a].client].secret]_syncVars
    BY <1>1
  <1> QED BY <1>2, SettleSafety, SyncRefines, PTL DEF SyncSpec, SettledSecretStays
=============================================================================
