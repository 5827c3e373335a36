-------------------------- MODULE AppReviewProofs --------------------------
(***************************************************************************)
(* Independent review and audited deletion of AppLifecycle, for every set  *)
(* of applications, users, requests and faults.                            *)
(***************************************************************************)
EXTENDS AppLifecycleProofs

(* What the order of a handler's calls has to guarantee.  A call that may    *)
(* lead to the copy being saved comes after a call that reads the row, with  *)
(* no call in between that gives the copy up; a row is created by the first  *)
(* call or not at all, and never by a review; a deletion follows its audit   *)
(* event.                                                                    *)
Reader(c) == c.call \in {"get", "select"}
Writer(c) == c.call = "save" \/ c = CallTo("enqueue", "draft", "-")
Clearer(c) == c.call \in {"create", "save", "deleteClient", "delete"}
Deletion == AuditCall("application.deleted")

Ordered(t) ==
    /\ \A i \in DOMAIN t :
          t[i].call = "create" => i = 1 /\ \A k \in DOMAIN t : t[k].call # "get"
    /\ \A i, k \in DOMAIN t :
          i < k /\ Clearer(t[i]) /\ Writer(t[k]) =>
              \E j \in DOMAIN t : i < j /\ j < k /\ Reader(t[j])
    /\ \A i \in DOMAIN t : t[i].call = "delete" => i = 1 \/ t[i - 1] = Deletion

ReadFirst(t) ==
    \A k \in DOMAIN t : Writer(t[k]) => \E j \in DOMAIN t : j < k /\ Reader(t[j])

(* The reviewer of a row, and a copy that may be saved over table A. *)
MayDecide(u, owner) == u \in Reviewers \cup Admins /\ (owner = u => u \in Admins)
GoodReview(row) == row.reviewedBy # None => MayDecide(row.reviewedBy, row.owner)

Faithful(A, a, row) ==
    /\ row.status \in Statuses
    /\ A[a].status \in Statuses => row.owner = A[a].owner
    /\ GoodReview(row)

(* What holds of a handler q in flight, over the tables A of applications and *)
(* E of audit events.                                                         *)
HandlerOK(A, E, q) ==
    /\ Ordered(q.todo)
    /\ q.todo[1].call = "create" =>
          A[q.id].status = "absent" /\ q.copy.status = "draft" /\ q.copy.reviewedBy = None
    /\ q.todo[1].call # "create" => A[q.id].status # "absent"
    /\ Faithful(A, q.id, q.copy) \/ ReadFirst(q.todo)
    /\ \A i \in DOMAIN q.todo :
          q.todo[i].call = "get" =>
              /\ q.actor \in Reviewers \cup Admins
              /\ A[q.id].status \in Statuses => MayDecide(q.actor, A[q.id].owner)
    /\ q.todo[1].call = "delete" /\ A[q.id].status \in Statuses =>
          <<"application.deleted", q.id>> \in E

(* Nobody else works on an application that is being created. *)
Alone(R) ==
    \A r, s \in Requests :
        r # s /\ R[r].todo # <<>> /\ R[r].todo[1].call = "create" => R[s].id # R[r].id

RowsOK(A, O) ==
    \A a \in Apps : GoodReview(A[a]) /\ (O[a] # "none" => A[a].status # "absent")

ProvOK(A, p) ==
    /\ p.id \in Apps => A[p.id].status # "absent"
    /\ p.pc \in {"create", "save"} => Faithful(A, p.id, p.copy)

HandlersOK(A, E, R) == \A r \in Requests : R[r].todo # <<>> => HandlerOK(A, E, R[r])

ReviewInv ==
    /\ RowsOK(apps, outbox)
    /\ ProvOK(apps, prov)
    /\ HandlersOK(apps, audit, req)
    /\ Alone(req)


-----------------------------------------------------------------------------
(* The lists of calls the handlers start with. *)

Bare(t) ==
    /\ t # <<>>
    /\ Ordered(t)
    /\ t[1].call \notin {"create", "delete"}
    /\ \A i \in DOMAIN t : t[i].call # "get"

LEMMA StartProvisioningOrder ==
    /\ Bare(startProvisioning)
    /\ ReadFirst(startProvisioning)
  BY DEF startProvisioning, Bare, Ordered, ReadFirst, Reader, Writer, Clearer, Deletion,
         CallTo, TransitionCall, AuditCall

LEMMA EditOrder == \A s : Bare(editCalls(s))
  BY DEF editCalls, Bare, Ordered, Reader, Writer, Clearer, Deletion,
         CallTo, TransitionCall, AuditCall, SaveCall

LEMMA RotateOrder == Bare(rotateCalls)
  BY DEF rotateCalls, Bare, Ordered, Reader, Writer, Clearer, Deletion,
         CallTo, TransitionCall, AuditCall, SaveCall

(* Short lists put together. *)
LEMMA Join12 ==
    ASSUME NEW a, NEW b, NEW c
    PROVE  <<a>> \o <<b, c>> = <<a, b, c>>
  <1> DEFINE S == {a, b, c}
  <1>1. <<a>> \in Seq(S) /\ <<b, c>> \in Seq(S) /\ <<a, b, c>> \in Seq(S)
    OBVIOUS
  <1>2. /\ <<a>> \o <<b, c>> \in Seq(S)
        /\ Len(<<a>> \o <<b, c>>) = 3
        /\ \A i \in 1 .. 3 : (<<a>> \o <<b, c>>)[i] = <<a, b, c>>[i]
    BY <1>1, ConcatProperties
  <1> HIDE DEF S
  <1> QED BY <1>1, <1>2, SeqEqual

LEMMA Join14 ==
    ASSUME NEW a, NEW b, NEW c, NEW d, NEW e
    PROVE  <<a>> \o <<b, c, d, e>> = <<a, b, c, d, e>>
  <1> DEFINE S == {a, b, c, d, e}
  <1>1. <<a>> \in Seq(S) /\ <<b, c, d, e>> \in Seq(S) /\ <<a, b, c, d, e>> \in Seq(S)
    OBVIOUS
  <1>2. /\ <<a>> \o <<b, c, d, e>> \in Seq(S)
        /\ Len(<<a>> \o <<b, c, d, e>>) = 5
        /\ \A i \in 1 .. 5 : (<<a>> \o <<b, c, d, e>>)[i] = <<a, b, c, d, e>>[i]
    BY <1>1, ConcatProperties
  <1> HIDE DEF S
  <1> QED BY <1>1, <1>2, SeqEqual

LEMMA Join24 ==
    ASSUME NEW a, NEW b, NEW c, NEW d, NEW e, NEW f
    PROVE  <<a, b>> \o <<c, d, e, f>> = <<a, b, c, d, e, f>>
  <1> DEFINE S == {a, b, c, d, e, f}
  <1>1. <<a, b>> \in Seq(S) /\ <<c, d, e, f>> \in Seq(S) /\ <<a, b, c, d, e, f>> \in Seq(S)
    OBVIOUS
  <1>2. /\ <<a, b>> \o <<c, d, e, f>> \in Seq(S)
        /\ Len(<<a, b>> \o <<c, d, e, f>>) = 6
        /\ \A i \in 1 .. 6 : (<<a, b>> \o <<c, d, e, f>>)[i] = <<a, b, c, d, e, f>>[i]
    BY <1>1, ConcatProperties
  <1> HIDE DEF S
  <1> QED BY <1>1, <1>2, SeqEqual

LEMMA JoinEmpty ==
    ASSUME NEW a, NEW b
    PROVE  <<a, b>> \o <<>> = <<a, b>> /\ <<>> \o <<a, b>> = <<a, b>>
  <1> DEFINE S == {a, b}
  <1>1. <<a, b>> \in Seq(S)
    OBVIOUS
  <1> HIDE DEF S
  <1> QED BY <1>1, ConcatEmptySeq

CreateCalls == <<CallTo("create", "-", "-"), AuditCall("application.created")>>
                   \o (IF RequireReview THEN <<>> ELSE startProvisioning)

LEMMA CreateCallsAre ==
    CreateCalls =
        IF RequireReview
        THEN <<CallTo("create", "-", "-"), AuditCall("application.created")>>
        ELSE <<CallTo("create", "-", "-"), AuditCall("application.created"),
               CallTo("select", "draft", "-"), TransitionCall("draft", "provisioning"),
               CallTo("enqueue", "draft", "-"), AuditCall("application.provisioning_started")>>
  <1>1. CASE RequireReview
    BY <1>1, JoinEmpty DEF CreateCalls
  <1>2. CASE ~RequireReview
    BY <1>2, Join24 DEF CreateCalls, startProvisioning
  <1> QED BY <1>1, <1>2

LEMMA SubmitCallsAre ==
    ASSUME NEW s
    PROVE
    submitCalls(s) =
        IF RequireReview
        THEN IF s = "draft"
             THEN <<TransitionCall("draft", "pending_review"), AuditCall("application.submitted")>>
             ELSE <<TransitionCall(s, "draft"), TransitionCall("draft", "pending_review"),
                    AuditCall("application.submitted")>>
        ELSE IF s = "draft"
             THEN startProvisioning
             ELSE <<TransitionCall(s, "draft"),
                    CallTo("select", "draft", "-"), TransitionCall("draft", "provisioning"),
                    CallTo("enqueue", "draft", "-"),
                    AuditCall("application.provisioning_started")>>
  <1>1. CASE RequireReview
    BY <1>1, JoinEmpty, Join12 DEF submitCalls
  <1>2. CASE ~RequireReview /\ s = "draft"
    BY <1>2, TodoTypes, ConcatEmptySeq DEF submitCalls
  <1>3. CASE ~RequireReview /\ s # "draft"
    BY <1>3, Join14 DEF submitCalls, startProvisioning
  <1> QED BY <1>1, <1>2, <1>3

LEMMA DeleteCallsAre ==
    ASSUME NEW s
    PROVE  deleteCalls(s) =
               IF s = "approved"
               THEN <<CallTo("deleteClient", "-", "-"), Deletion, CallTo("delete", "-", "-")>>
               ELSE <<Deletion, CallTo("delete", "-", "-")>>
  BY JoinEmpty, Join12 DEF deleteCalls, Deletion

LEMMA CreateOrder ==
    /\ CreateCalls # <<>> /\ Ordered(CreateCalls) /\ ReadFirst(CreateCalls)
    /\ CreateCalls[1].call = "create"
    /\ \A i \in DOMAIN CreateCalls : CreateCalls[i].call # "get"
  BY CreateCallsAre DEF Ordered, ReadFirst, Reader, Writer, Clearer, Deletion,
         CallTo, TransitionCall, AuditCall, SaveCall

LEMMA SubmitOrder ==
    ASSUME NEW s
    PROVE  Bare(submitCalls(s)) /\ ReadFirst(submitCalls(s))
  <1>1. CASE RequireReview
    <2>1. CASE s = "draft"
      BY <1>1, <2>1, SubmitCallsAre DEF Bare, Ordered, ReadFirst, Reader, Writer, Clearer,
         Deletion, CallTo, TransitionCall, AuditCall
    <2>2. CASE s # "draft"
      BY <1>1, <2>2, SubmitCallsAre DEF Bare, Ordered, ReadFirst, Reader, Writer, Clearer,
         Deletion, CallTo, TransitionCall, AuditCall
    <2> QED BY <2>1, <2>2
  <1>2. CASE ~RequireReview /\ s = "draft"
    BY <1>2, SubmitCallsAre, StartProvisioningOrder
  <1>3. CASE ~RequireReview /\ s # "draft"
    BY <1>3, SubmitCallsAre DEF Bare, Ordered, ReadFirst, Reader, Writer, Clearer, Deletion,
       CallTo, TransitionCall, AuditCall
  <1> QED BY <1>1, <1>2, <1>3

LEMMA DeleteOrder ==
    ASSUME NEW s
    PROVE  Bare(deleteCalls(s)) /\ ReadFirst(deleteCalls(s))
  <1>1. CASE s = "approved"
    BY <1>1, DeleteCallsAre DEF Bare, Ordered, ReadFirst, Reader, Writer, Clearer, Deletion,
       CallTo, AuditCall
  <1>2. CASE s # "approved"
    BY <1>2, DeleteCallsAre DEF Bare, Ordered, ReadFirst, Reader, Writer, Clearer, Deletion,
       CallTo, AuditCall
  <1> QED BY <1>1, <1>2

LEMMA ViewOrder ==
    LET t == <<AuditCall("application.secret_viewed")>> IN Bare(t) /\ ReadFirst(t)
  BY DEF Bare, Ordered, ReadFirst, Reader, Writer, Clearer, Deletion, CallTo, AuditCall

LEMMA RevokeOrder ==
    LET t == <<CallTo("deleteClient", "-", "-"), TransitionCall("approved", "revoked"),
               AuditCall("application.revoked")>>
    IN  Bare(t) /\ ReadFirst(t)
  BY DEF Bare, Ordered, ReadFirst, Reader, Writer, Clearer, Deletion, CallTo, TransitionCall,
     AuditCall

(* A review reads the row first, and nothing else in it needs a right. *)
Decision(t) ==
    /\ t # <<>>
    /\ Ordered(t)
    /\ t[1].call = "get"
    /\ ReadFirst(t)

LEMMA DecisionOrder ==
    /\ Decision(<<CallTo("get", "-", "provisioning"),
                  TransitionCall("pending_review", "provisioning"), SaveCall,
                  CallTo("enqueue", "-", "-"), AuditCall("application.approved")>>)
    /\ \A s, act : Decision(<<CallTo("get", "-", s), TransitionCall("pending_review", s),
                              SaveCall, AuditCall(act)>>)
  BY DEF Decision, Ordered, ReadFirst, Reader, Writer, Clearer, Deletion, CallTo,
     TransitionCall, AuditCall, SaveCall

-----------------------------------------------------------------------------
(* A handler that goes on. *)

LEMMA TailFacts ==
    ASSUME NEW t \in Seq(Calls), Tail(t) # <<>>, t # <<>>
    PROVE  /\ Tail(t) \in Seq(Calls)
           /\ 1 \in DOMAIN t /\ 2 \in DOMAIN t /\ 1 \in DOMAIN Tail(t)
           /\ Head(t) = t[1]
           /\ \A i \in DOMAIN Tail(t) : i \in Nat /\ i >= 1 /\ i + 1 \in DOMAIN t
                                       /\ Tail(t)[i] = t[i + 1]
           /\ \A i \in DOMAIN t : i \in Nat /\ i >= 1 /\ (i > 1 => i - 1 \in DOMAIN Tail(t))
  <1>1. /\ Tail(t) \in Seq(Calls) /\ Len(Tail(t)) = Len(t) - 1 /\ Head(t) = t[1]
        /\ \A i \in 1 .. Len(Tail(t)) : Tail(t)[i] = t[i + 1]
    BY HeadTailProperties
  <1>2. /\ Len(t) \in Nat /\ DOMAIN t = 1 .. Len(t)
        /\ Len(Tail(t)) \in Nat /\ DOMAIN Tail(t) = 1 .. Len(Tail(t))
    BY <1>1, LenProperties
  <1>3. Len(Tail(t)) # 0
    BY <1>1, EmptySeq
  <1> QED BY <1>1, <1>2, <1>3

LEMMA TailOrder ==
    ASSUME NEW t \in Seq(Calls), t # <<>>, Tail(t) # <<>>, Ordered(t)
    PROVE  /\ Ordered(Tail(t))
           /\ Tail(t)[1].call # "create"
           /\ Tail(t)[1].call = "delete" => t[1] = Deletion
           /\ Clearer(t[1]) => ReadFirst(Tail(t))
           /\ ReadFirst(t) /\ ~Reader(t[1]) => ReadFirst(Tail(t))
  <1> DEFINE u == Tail(t)
  <1>1. /\ 1 \in DOMAIN t /\ 2 \in DOMAIN t /\ 1 \in DOMAIN u
        /\ \A i \in DOMAIN u : i \in Nat /\ i >= 1 /\ i + 1 \in DOMAIN t /\ u[i] = t[i + 1]
        /\ \A i \in DOMAIN t : i \in Nat /\ i >= 1 /\ (i > 1 => i - 1 \in DOMAIN u)
    BY TailFacts
  <1> HIDE DEF u
  <1>9. \A j \in DOMAIN t : j > 1 => j - 1 \in DOMAIN u /\ u[j - 1] = t[j]
    <2> SUFFICES ASSUME NEW j \in DOMAIN t, j > 1
                 PROVE  j - 1 \in DOMAIN u /\ u[j - 1] = t[j]
      OBVIOUS
    <2>1. j \in Nat /\ j - 1 \in DOMAIN u /\ (j - 1) + 1 = j
      BY <1>1
    <2> QED BY <1>1, <2>1
  <1>2. \A i \in DOMAIN u : u[i].call # "create"
    BY <1>1 DEF Ordered
  <1>3. ASSUME NEW i \in DOMAIN u, NEW k \in DOMAIN u, i < k, Clearer(u[i]), Writer(u[k])
        PROVE  \E j \in DOMAIN u : i < j /\ j < k /\ Reader(u[j])
    <2>1. /\ i + 1 \in DOMAIN t /\ k + 1 \in DOMAIN t /\ i + 1 < k + 1
          /\ Clearer(t[i + 1]) /\ Writer(t[k + 1])
      BY <1>1, <1>3
    <2>2. PICK j \in DOMAIN t : i + 1 < j /\ j < k + 1 /\ Reader(t[j])
      BY <2>1 DEF Ordered
    <2>3. i \in Nat /\ i >= 1 /\ k \in Nat /\ j \in Nat
      BY <1>1
    <2>4. j > 1 /\ i < j - 1 /\ j - 1 < k
      BY <2>2, <2>3
    <2>5. j - 1 \in DOMAIN u /\ u[j - 1] = t[j]
      BY <1>9, <2>4
    <2> QED BY <2>2, <2>4, <2>5
  <1>4. ASSUME NEW i \in DOMAIN u, u[i].call = "delete"
        PROVE  (i = 1 /\ t[1] = Deletion) \/ u[i - 1] = Deletion
    <2>1. t[i + 1].call = "delete" /\ i + 1 \in DOMAIN t /\ i \in Nat /\ i >= 1
      BY <1>1, <1>4
    <2>2. t[(i + 1) - 1] = Deletion
      BY <2>1 DEF Ordered
    <2>3. CASE i = 1
      BY <2>2, <2>3
    <2>4. CASE i # 1
      <3>1. i \in DOMAIN t /\ i > 1 /\ (i + 1) - 1 = i
        BY <1>1, <2>1, <2>4, LenProperties
      <3> QED BY <1>9, <2>2, <3>1
    <2> QED BY <2>3, <2>4
  <1>5. Ordered(u)
    BY <1>2, <1>3, <1>4 DEF Ordered
  <1>6. u[1].call = "delete" => t[1] = Deletion
    <2>1. 0 \notin DOMAIN u
      BY <1>1
    <2> SUFFICES ASSUME u[1].call = "delete" PROVE t[1] = Deletion
      OBVIOUS
    <2>2. t[2].call = "delete" /\ 2 # 1 /\ 2 - 1 = 1
      BY <1>1
    <2> QED BY <1>1, <2>2 DEF Ordered
  <1>7. ASSUME Clearer(t[1]) PROVE ReadFirst(u)
    <2> SUFFICES ASSUME NEW k \in DOMAIN u, Writer(u[k])
                 PROVE  \E j \in DOMAIN u : j < k /\ Reader(u[j])
      BY DEF ReadFirst
    <2>1. k + 1 \in DOMAIN t /\ 1 < k + 1 /\ Writer(t[k + 1])
      BY <1>1
    <2>2. PICK j \in DOMAIN t : 1 < j /\ j < k + 1 /\ Reader(t[j])
      BY <1>1, <1>7, <2>1 DEF Ordered
    <2>3. j \in Nat /\ k \in Nat
      BY <1>1
    <2>4. j - 1 < k
      BY <2>2, <2>3
    <2>5. j - 1 \in DOMAIN u /\ u[j - 1] = t[j]
      BY <1>9, <2>2
    <2> QED BY <2>2, <2>4, <2>5
  <1>8. ASSUME ReadFirst(t), ~Reader(t[1]) PROVE ReadFirst(u)
    <2> SUFFICES ASSUME NEW k \in DOMAIN u, Writer(u[k])
                 PROVE  \E j \in DOMAIN u : j < k /\ Reader(u[j])
      BY DEF ReadFirst
    <2>1. k + 1 \in DOMAIN t /\ Writer(t[k + 1])
      BY <1>1
    <2>2. PICK j \in DOMAIN t : j < k + 1 /\ Reader(t[j])
      BY <1>8, <2>1 DEF ReadFirst
    <2>3. j # 1 /\ j > 1
      BY <1>1, <1>8, <2>2
    <2>4. j \in Nat /\ k \in Nat
      BY <1>1
    <2>5. j - 1 < k
      BY <2>2, <2>4
    <2>6. j - 1 \in DOMAIN u /\ u[j - 1] = t[j]
      BY <1>9, <2>3
    <2> QED BY <2>2, <2>5, <2>6
  <1> QED BY <1>1, <1>2, <1>5, <1>6, <1>7, <1>8 DEF u

-----------------------------------------------------------------------------
(* What a step does to the tables.  A row that is left, in B and F, is an    *)
(* older row of the same owner, and its deletion, once audited, stays so.    *)

KeptAt(A, B, E, F, a) ==
    /\ B[a].status \in Statuses => A[a].status \in Statuses /\ B[a].owner = A[a].owner
    /\ (A[a].status = "absent") <=> (B[a].status = "absent")
    /\ B[a].status \in Statuses /\ <<"application.deleted", a>> \in E =>
          <<"application.deleted", a>> \in F

LEMMA FaithfulKept ==
    ASSUME NEW A, NEW B, NEW E, NEW F, NEW a, NEW row,
           KeptAt(A, B, E, F, a), Faithful(A, a, row)
    PROVE  Faithful(B, a, row)
  BY DEF KeptAt, Faithful

LEMMA HandlerKept ==
    ASSUME NEW A, NEW B, NEW E, NEW F, NEW q,
           KeptAt(A, B, E, F, q.id), HandlerOK(A, E, q)
    PROVE  HandlerOK(B, F, q)
  BY DEF KeptAt, HandlerOK, Faithful

(* Handler r has moved on over tables B and F. *)
Moved(B, F, r) ==
    \E q :
        /\ req' = [req EXCEPT ![r] = q]
        /\ q.id \in {req[r].id, None}
        /\ q.todo # <<>> => HandlerOK(B, F, q) /\ q.todo[1].call # "create"

LEMMA MovedOK ==
    ASSUME TypeOK, NEW r \in Requests, NEW B, NEW F, Moved(B, F, r), Alone(req),
           \A s \in Requests : s # r /\ req[s].todo # <<>> => HandlerOK(B, F, req[s])
    PROVE  HandlersOK(B, F, req') /\ Alone(req')
  <1>1. PICK q : /\ req' = [req EXCEPT ![r] = q]
                 /\ q.id \in {req[r].id, None}
                 /\ q.todo # <<>> => HandlerOK(B, F, q) /\ q.todo[1].call # "create"
    BY DEF Moved
  <1>2. req'[r] = q /\ \A s \in Requests : s # r => req'[s] = req[s]
    BY <1>1 DEF TypeOK
  <1>3. HandlersOK(B, F, req')
    BY <1>1, <1>2 DEF HandlersOK
  <1>4. Alone(req')
    <2> SUFFICES ASSUME NEW p \in Requests, NEW s \in Requests, p # s,
                        req'[p].todo # <<>>, req'[p].todo[1].call = "create"
                 PROVE  req'[s].id # req'[p].id
      BY DEF Alone
    <2>1. p # r /\ req'[p] = req[p]
      BY <1>1, <1>2
    <2>2. req[p].id \in Apps /\ req[p].id # None
      BY <2>1, Assumptions DEF TypeOK
    <2>3. req[s].id # req[p].id
      BY <2>1 DEF Alone
    <2>4. req'[s] = req[s] \/ (s = r /\ req'[s].id \in {req[s].id, None})
      BY <1>1, <1>2
    <2> QED BY <2>1, <2>2, <2>3, <2>4
  <1> QED BY <1>3, <1>4

LEMMA IdleMoves ==
    ASSUME NEW r \in Requests, NEW B, NEW F, req' = [req EXCEPT ![r] = Idle]
    PROVE  Moved(B, F, r)
  <1>1. Idle.id = None /\ Idle.todo = <<>>
    BY DEF Idle
  <1> QED BY <1>1 DEF Moved

LEMMA AdvanceMoves ==
    ASSUME TypeOK, NEW r \in Requests, InFlight(r), NEW B, NEW F, NEW c, Advance(r, c),
           Ordered(req[r].todo),
           B[req[r].id].status # "absent",
           Tail(req[r].todo) # <<>> => Faithful(B, req[r].id, c) \/ ReadFirst(Tail(req[r].todo)),
           \A i \in DOMAIN req[r].todo :
              req[r].todo[i].call = "get" =>
                 /\ req[r].actor \in Reviewers \cup Admins
                 /\ B[req[r].id].status \in Statuses => MayDecide(req[r].actor, B[req[r].id].owner),
           Head(req[r].todo) = Deletion /\ B[req[r].id].status \in Statuses =>
              <<"application.deleted", req[r].id>> \in F
    PROVE  Moved(B, F, r)
  <1> DEFINE t == req[r].todo
  <1> DEFINE q == [req[r] EXCEPT !.copy = c, !.todo = Tail(t)]
  <1>1. req[r] \in Request /\ t \in Seq(Calls) /\ t # <<>>
    BY DEF TypeOK, InFlight, Request
  <1>2. CASE Tail(t) = <<>>
    <2>1. req' = [req EXCEPT ![r] = Idle]
      BY <1>2 DEF Advance
    <2> QED BY <2>1, IdleMoves
  <1>3. CASE Tail(t) # <<>>
    <2>1. req' = [req EXCEPT ![r] = q]
      BY <1>3 DEF Advance
    <2>2. q.id = req[r].id /\ q.actor = req[r].actor /\ q.copy = c /\ q.todo = Tail(t)
      BY <1>1 DEF Request
    <2> HIDE DEF q
    <2>3. /\ Ordered(Tail(t)) /\ Tail(t)[1].call # "create"
          /\ Tail(t)[1].call = "delete" => t[1] = Deletion
      BY <1>1, <1>3, TailOrder
    <2>4. /\ Head(t) = t[1]
          /\ \A i \in DOMAIN Tail(t) : i + 1 \in DOMAIN t /\ Tail(t)[i] = t[i + 1]
      BY <1>1, <1>3, TailFacts
    <2>5. \A i \in DOMAIN Tail(t) : Tail(t)[i].call = "get" =>
              /\ req[r].actor \in Reviewers \cup Admins
              /\ B[req[r].id].status \in Statuses => MayDecide(req[r].actor, B[req[r].id].owner)
      BY <2>4
    <2>6. HandlerOK(B, F, q)
      BY <1>3, <2>2, <2>3, <2>4, <2>5 DEF HandlerOK
    <2> QED BY <2>1, <2>2, <2>3, <2>6 DEF Moved
  <1> QED BY <1>2, <1>3

(* The tables were not touched in a way that matters, or a row was created   *)
(* whose answer was lost.                                                     *)
LEMMA OnErrorMoves ==
    ASSUME TypeOK, NEW r \in Requests, InFlight(r), NEW B, NEW F, OnError(r),
           Head(req[r].todo).call = "create" \/ HandlerOK(B, F, req[r])
    PROVE  Moved(B, F, r)
  <1> DEFINE t == req[r].todo
  <1> DEFINE q == [req[r] EXCEPT !.todo = <<SaveCall>>]
  <1>1. req[r] \in Request /\ t \in Seq(Calls) /\ t # <<>>
    BY DEF TypeOK, InFlight, Request
  <1>2. CASE Head(t) # CallTo("enqueue", "draft", "-")
    <2>1. req' = [req EXCEPT ![r] = Idle]
      BY <1>2 DEF OnError
    <2> QED BY <2>1, IdleMoves
  <1>3. CASE Head(t) = CallTo("enqueue", "draft", "-")
    <2>1. req' = [req EXCEPT ![r] = q]
      BY <1>3 DEF OnError
    <2>2. q.id = req[r].id /\ q.copy = req[r].copy /\ q.todo = <<SaveCall>>
      BY <1>1 DEF Request
    <2> HIDE DEF q
    <2>3. Head(t).call = "enqueue" /\ Writer(Head(t))
      BY <1>3 DEF CallTo, Writer
    <2>4. Head(t) = t[1] /\ 1 \in DOMAIN t /\ \A i \in DOMAIN t : i >= 1 /\ i \in Nat
      BY <1>1, HeadTailProperties, LenProperties, EmptySeq
    <2>5. ~ReadFirst(t)
      BY <2>3, <2>4 DEF ReadFirst
    <2>6. HandlerOK(B, F, req[r])
      BY <2>3
    <2>7. Faithful(B, req[r].id, req[r].copy) /\ B[req[r].id].status # "absent"
      BY <2>3, <2>4, <2>5, <2>6 DEF HandlerOK
    <2>8. /\ <<SaveCall>>[1].call = "save"
          /\ DOMAIN <<SaveCall>> = {1}
      BY DEF SaveCall, CallTo
    <2>9. Ordered(<<SaveCall>>)
      BY <2>8 DEF Ordered
    <2>10. HandlerOK(B, F, q)
      BY <2>2, <2>7, <2>8, <2>9 DEF HandlerOK
    <2> QED BY <2>1, <2>2, <2>8, <2>10 DEF Moved
  <1> QED BY <1>2, <1>3

(* What the handler may need after its next call. *)
LEMMA HeadFacts ==
    ASSUME TypeOK, NEW r \in Requests, InFlight(r), NEW E, HandlerOK(apps, E, req[r])
    PROVE  /\ Head(req[r].todo) = req[r].todo[1]
           /\ 1 \in DOMAIN req[r].todo
           /\ Writer(Head(req[r].todo)) => Faithful(apps, req[r].id, req[r].copy)
           /\ Tail(req[r].todo) # <<>> /\ Clearer(Head(req[r].todo)) =>
                 ReadFirst(Tail(req[r].todo))
           /\ Tail(req[r].todo) # <<>> /\ ~Reader(Head(req[r].todo)) =>
                 Faithful(apps, req[r].id, req[r].copy) \/ ReadFirst(Tail(req[r].todo))
  <1> DEFINE t == req[r].todo
  <1>1. t \in Seq(Calls) /\ t # <<>>
    BY DEF TypeOK, InFlight, Request
  <1>2. Head(t) = t[1] /\ 1 \in DOMAIN t /\ \A i \in DOMAIN t : i >= 1 /\ i \in Nat
    BY <1>1, HeadTailProperties, LenProperties, EmptySeq
  <1>3. Ordered(t) /\ (Faithful(apps, req[r].id, req[r].copy) \/ ReadFirst(t))
    BY DEF HandlerOK
  <1>4. Writer(t[1]) => ~ReadFirst(t)
    BY <1>2 DEF ReadFirst
  <1> QED BY <1>1, <1>2, <1>3, <1>4, TailOrder

LEMMA ReplyMoves ==
    ASSUME TypeOK, NEW r \in Requests, InFlight(r), NEW B, NEW F, NEW c, Reply(r, c),
           HandlerOK(apps, audit, req[r]), Head(req[r].todo).call # "create",
           KeptAt(apps, B, audit, F, req[r].id),
           Tail(req[r].todo) # <<>> => Faithful(B, req[r].id, c) \/ ReadFirst(Tail(req[r].todo)),
           Head(req[r].todo) = Deletion /\ B[req[r].id].status \in Statuses =>
              <<"application.deleted", req[r].id>> \in F
    PROVE  Moved(B, F, r)
  <1>1. HandlerOK(B, F, req[r])
    BY HandlerKept
  <1>2. CASE OnError(r)
    BY <1>1, <1>2, OnErrorMoves
  <1>3. CASE Advance(r, c)
    <2>1. /\ Ordered(req[r].todo)
          /\ req[r].todo[1].call # "create" => B[req[r].id].status # "absent"
          /\ \A i \in DOMAIN req[r].todo :
                req[r].todo[i].call = "get" =>
                   /\ req[r].actor \in Reviewers \cup Admins
                   /\ B[req[r].id].status \in Statuses =>
                         MayDecide(req[r].actor, B[req[r].id].owner)
      BY <1>1 DEF HandlerOK
    <2>2. Head(req[r].todo) = req[r].todo[1]
      BY HeadFacts
    <2> QED BY <1>3, <2>1, <2>2, AdvanceMoves
  <1> QED BY <1>2, <1>3 DEF Reply

LEMMA StepFinish ==
    ASSUME TypeOK, ReviewInv, NEW r \in Requests, Moved(apps', audit', r), prov' = prov,
           RowsOK(apps', outbox'),
           \A s \in Requests : s # r /\ InFlight(s) =>
               KeptAt(apps, apps', audit, audit', req[s].id),
           prov.id \in Apps => KeptAt(apps, apps', audit, audit', prov.id)
    PROVE  ReviewInv'
  <1>1. \A s \in Requests : s # r /\ req[s].todo # <<>> => HandlerOK(apps', audit', req[s])
    BY HandlerKept DEF ReviewInv, HandlersOK, InFlight
  <1>2. HandlersOK(apps', audit', req') /\ Alone(req')
    BY <1>1, MovedOK DEF ReviewInv
  <1>3. ProvOK(apps', prov')
    <2>1. prov.pc \in {"create", "save"} => prov.id \in Apps
      BY DEF TypeOK
    <2> QED BY <2>1, FaithfulKept DEF ReviewInv, ProvOK, KeptAt
  <1> QED BY <1>2, <1>3 DEF ReviewInv

(* A row is lost only when its deletion has been audited. *)
GoneAudited == \A a \in Apps : Exists(a) /\ ~Exists(a)' => <<"application.deleted", a>> \in audit

LEMMA SameTables ==
    ASSUME TypeOK, UNCHANGED <<apps, audit>>
    PROVE  /\ \A a : KeptAt(apps, apps', audit, audit', a)
           /\ GoneAudited
  BY DEF KeptAt, GoneAudited, Exists

(* One row is replaced. *)
LEMMA RowReplaced ==
    ASSUME TypeOK, ReviewInv, NEW id \in Apps, NEW row, UNCHANGED <<outbox, audit>>,
           Exists(id), apps' = [apps EXCEPT ![id] = row],
           row.status \in Statuses, row.owner = apps[id].owner, GoodReview(row)
    PROVE  /\ \A a \in Apps : KeptAt(apps, apps', audit, audit', a)
           /\ RowsOK(apps', outbox')
           /\ GoneAudited
  <1>1. apps'[id] = row /\ \A a \in Apps : a # id => apps'[a] = apps[a]
    BY DEF TypeOK
  <1>2. "absent" \notin Statuses
    BY DEF Statuses
  <1>3. \A a \in Apps : KeptAt(apps, apps', audit, audit', a)
    BY <1>1, <1>2 DEF KeptAt, Exists
  <1>4. RowsOK(apps', outbox')
    BY <1>1, <1>2 DEF RowsOK, ReviewInv
  <1>5. GoneAudited
    BY <1>1 DEF GoneAudited, Exists
  <1> QED BY <1>3, <1>4, <1>5

LEMMA SelectShape == \A c \in Calls : c.call = "select" => c.pre = "draft"
  BY SMTT(30) DEF Calls, TransitionCall, CallTo

(* The calls of a handler. *)
LEMMA StepReview ==
    ASSUME TypeOK, ReviewInv, NEW r \in Requests, Step(r)
    PROVE  ReviewInv' /\ GoneAudited
  <1> DEFINE id == req[r].id
  <1> DEFINE t == req[r].todo
  <1>1. prov' = prov /\ apps \in [Apps -> Row] /\ outbox \in [Apps -> OutboxStates]
    BY DEF Step, TypeOK
  <1>2. InFlight(r)
    BY DEF Step, StoreCreate, StoreGet, StoreSelect, StoreTransition, StoreSave,
           StoreEnqueue, StoreAudit, StoreDelete, UpdateClient, DeleteClient, NextCall
  <1>3. Head(t) \in Calls /\ id \in Apps
    BY <1>2, HandlerTypes
  <1>4. HandlerOK(apps, audit, req[r])
    BY <1>2 DEF ReviewInv, HandlersOK, InFlight
  <1>5. /\ Head(t) = t[1] /\ 1 \in DOMAIN t
        /\ Writer(Head(t)) => Faithful(apps, id, req[r].copy)
        /\ Tail(t) # <<>> /\ Clearer(Head(t)) => ReadFirst(Tail(t))
        /\ Tail(t) # <<>> /\ ~Reader(Head(t)) =>
              Faithful(apps, id, req[r].copy) \/ ReadFirst(Tail(t))
    BY <1>2, <1>4, HeadFacts
  <1>6. RowsOK(apps, outbox)
    BY DEF ReviewInv
  <1>7. \A s \in Requests : InFlight(s) => req[s].id \in Apps
    BY DEF TypeOK, InFlight
  <1>8. Deletion.call = "audit"
    BY DEF Deletion, AuditCall, CallTo
  <1>9. CASE Refused(r)
    <2>1. UNCHANGED <<apps, outbox, audit>> /\ OnError(r)
      BY <1>9 DEF Refused
    <2>2. Moved(apps', audit', r)
      BY <1>2, <1>4, <2>1, OnErrorMoves
    <2> QED BY <1>1, <1>6, <2>1, <2>2, SameTables, StepFinish
  <1>10. CASE StoreCreate(r)
    <2>1. /\ Head(t).call = "create"
          /\ apps' = [apps EXCEPT ![id] = req[r].copy]
          /\ Reply(r, NoRow("absent"))
          /\ UNCHANGED <<outbox, audit>>
      BY <1>10 DEF StoreCreate, NextCall
    <2>2. /\ apps[id].status = "absent"
          /\ req[r].copy.status = "draft" /\ req[r].copy.reviewedBy = None
          /\ Ordered(t)
      BY <1>4, <1>5, <2>1 DEF HandlerOK
    <2>3. apps'[id] = req[r].copy /\ \A a \in Apps : a # id => apps'[a] = apps[a]
      BY <1>1, <1>3, <2>1
    <2>4. \A a \in Apps : a # id => KeptAt(apps, apps', audit, audit', a)
      BY <2>1, <2>3 DEF KeptAt
    <2>5. \A s \in Requests : s # r /\ InFlight(s) => req[s].id # id
      BY <1>2, <1>5, <2>1 DEF ReviewInv, Alone, InFlight
    <2>6. prov.id \in Apps => prov.id # id
      BY <2>2 DEF ReviewInv, ProvOK
    <2>7. RowsOK(apps', outbox')
      BY <1>6, <2>1, <2>2, <2>3 DEF RowsOK, GoodReview
    <2>8. Moved(apps', audit', r)
      <3>1. CASE OnError(r)
        BY <1>2, <2>1, <3>1, OnErrorMoves
      <3>2. CASE Advance(r, NoRow("absent"))
        <4>1. t[1].call = "create"
          BY <1>5, <2>1
        <4>2. \A i \in DOMAIN t : t[i].call # "get"
          BY <1>5, <2>2, <4>1 DEF Ordered
        <4>3. Head(t) # Deletion /\ (Tail(t) # <<>> => ReadFirst(Tail(t)))
          BY <1>5, <1>8, <2>1 DEF Clearer
        <4>4. apps'[id].status # "absent"
          BY <2>2, <2>3
        <4> QED BY <1>2, <2>2, <3>2, <4>2, <4>3, <4>4, AdvanceMoves
      <3> QED BY <2>1, <3>1, <3>2 DEF Reply
    <2>9. GoneAudited
      BY <2>2, <2>3 DEF GoneAudited, Exists, Statuses
    <2> QED BY <1>1, <1>7, <2>4, <2>5, <2>6, <2>7, <2>8, <2>9, StepFinish
  <1>11. CASE StoreGet(r) /\ ~Refused(r)
    <2> DEFINE copy == [apps[id] EXCEPT !.status = Head(t).post, !.reviewedBy = req[r].actor]
    <2>1. /\ Head(t).call = "get"
          /\ Exists(id)
          /\ Advance(r, copy)
          /\ UNCHANGED <<apps, outbox, audit>>
      BY <1>11 DEF StoreGet, NextCall
    <2>2. Head(t).post \in Statuses
      <3>1. Head(t).post \in {"provisioning", "rejected", "changes_requested"}
        BY <1>3, <2>1, CallShape
      <3> QED BY <3>1 DEF Statuses
    <2>3. MayDecide(req[r].actor, apps[id].owner)
      BY <1>4, <1>5, <2>1 DEF HandlerOK, Exists
    <2>4. /\ copy.status = Head(t).post /\ copy.reviewedBy = req[r].actor
          /\ copy.owner = apps[id].owner
      BY <1>1, <1>3 DEF Row
    <2> HIDE DEF copy
    <2>5. Faithful(apps, id, copy)
      BY <2>2, <2>3, <2>4 DEF Faithful, GoodReview
    <2>6. Head(t) # Deletion
      BY <1>8, <2>1
    <2>7. /\ Ordered(t) /\ apps[id].status # "absent"
          /\ \A i \in DOMAIN t : t[i].call = "get" =>
                 /\ req[r].actor \in Reviewers \cup Admins
                 /\ apps[id].status \in Statuses => MayDecide(req[r].actor, apps[id].owner)
      BY <1>4, <1>5, <2>1 DEF HandlerOK
    <2>8. Moved(apps, audit, r)
      BY <1>2, <2>1, <2>5, <2>6, <2>7, AdvanceMoves
    <2> QED BY <1>1, <1>6, <2>1, <2>8, SameTables, StepFinish
  <1>12. CASE StoreSelect(r) /\ ~Refused(r)
    <2>1. /\ Head(t).call = "select"
          /\ apps[id].status = Head(t).pre
          /\ Advance(r, apps[id])
          /\ UNCHANGED <<apps, outbox, audit>>
      BY <1>12 DEF StoreSelect, NextCall
    <2>2. Head(t).pre = "draft"
      BY <1>3, <2>1, SelectShape
    <2>3. Faithful(apps, id, apps[id])
      BY <1>3, <1>6, <2>1, <2>2 DEF Faithful, RowsOK, Statuses
    <2>4. Head(t) # Deletion
      BY <1>8, <2>1
    <2>5. /\ Ordered(t) /\ apps[id].status # "absent"
          /\ \A i \in DOMAIN t : t[i].call = "get" =>
                 /\ req[r].actor \in Reviewers \cup Admins
                 /\ apps[id].status \in Statuses => MayDecide(req[r].actor, apps[id].owner)
      BY <1>4, <1>5, <2>1 DEF HandlerOK
    <2>6. Moved(apps, audit, r)
      BY <1>2, <2>1, <2>3, <2>4, <2>5, AdvanceMoves
    <2> QED BY <1>1, <1>6, <2>1, <2>6, SameTables, StepFinish
  <1>13. CASE StoreTransition(r) /\ ~Refused(r)
    <2> DEFINE row == [apps[id] EXCEPT !.status = Head(t).post]
    <2>1. /\ Head(t).call = "transition"
          /\ apps[id].status = Head(t).pre
          /\ validTransition(Head(t).pre, Head(t).post)
          /\ apps' = [apps EXCEPT ![id] = row]
          /\ Reply(r, req[r].copy)
          /\ UNCHANGED <<outbox, audit>>
      BY <1>13 DEF StoreTransition, NextCall
    <2>2. Exists(id) /\ Head(t).post \in Statuses
      BY <2>1 DEF validTransition, Statuses, Exists
    <2>3. row.status = Head(t).post /\ row.owner = apps[id].owner
          /\ row.reviewedBy = apps[id].reviewedBy
      BY <1>1, <1>3 DEF Row
    <2> HIDE DEF row
    <2>4. GoodReview(row)
      BY <1>3, <1>6, <2>3 DEF RowsOK, GoodReview
    <2>5. /\ \A a \in Apps : KeptAt(apps, apps', audit, audit', a)
          /\ RowsOK(apps', outbox')
          /\ GoneAudited
      BY <1>3, <2>1, <2>2, <2>3, <2>4, RowReplaced
    <2>6. ~Reader(Head(t)) /\ Head(t) # Deletion /\ Head(t).call # "create"
      BY <1>8, <2>1 DEF Reader
    <2>7. Tail(t) # <<>> => Faithful(apps', id, req[r].copy) \/ ReadFirst(Tail(t))
      BY <1>3, <1>5, <2>5, <2>6, FaithfulKept
    <2>8. Moved(apps', audit', r)
      BY <1>2, <1>3, <1>4, <2>1, <2>5, <2>6, <2>7, ReplyMoves
    <2> QED BY <1>1, <1>7, <2>5, <2>8, StepFinish
  <1>14. CASE StoreSave(r) /\ ~Refused(r)
    <2>1. /\ Head(t).call = "save"
          /\ Exists(id)
          /\ apps' = [apps EXCEPT ![id] = req[r].copy]
          /\ Reply(r, NoRow("absent"))
          /\ UNCHANGED <<outbox, audit>>
      BY <1>14 DEF StoreSave, NextCall
    <2>2. Faithful(apps, id, req[r].copy)
      BY <1>5, <2>1 DEF Writer
    <2>3. /\ \A a \in Apps : KeptAt(apps, apps', audit, audit', a)
          /\ RowsOK(apps', outbox')
          /\ GoneAudited
      BY <1>3, <2>1, <2>2, RowReplaced DEF Faithful, Exists
    <2>4. Clearer(Head(t)) /\ Head(t) # Deletion /\ Head(t).call # "create"
      BY <1>8, <2>1 DEF Clearer
    <2>5. Moved(apps', audit', r)
      BY <1>2, <1>3, <1>4, <1>5, <2>1, <2>3, <2>4, ReplyMoves
    <2> QED BY <1>1, <1>7, <2>3, <2>5, StepFinish
  <1>15. CASE StoreEnqueue(r) /\ ~Refused(r)
    <2>1. /\ Head(t).call = "enqueue"
          /\ Exists(id)
          /\ outbox' = [outbox EXCEPT ![id] = IF @ = "none" THEN "ready" ELSE @]
          /\ Reply(r, req[r].copy)
          /\ UNCHANGED <<apps, audit>>
      BY <1>15 DEF StoreEnqueue, NextCall
    <2>2. RowsOK(apps', outbox')
      BY <1>1, <1>3, <1>6, <2>1 DEF RowsOK, Exists, Statuses
    <2>3. ~Reader(Head(t)) /\ Head(t) # Deletion /\ Head(t).call # "create"
      BY <1>8, <2>1 DEF Reader
    <2>4. \A a : KeptAt(apps, apps', audit, audit', a) /\ GoneAudited
      BY <2>1, SameTables
    <2>5. Moved(apps', audit', r)
      BY <1>2, <1>4, <1>5, <2>1, <2>3, <2>4, ReplyMoves
    <2> QED BY <1>1, <2>2, <2>4, <2>5, StepFinish
  <1>16. CASE StoreAudit(r) /\ ~Refused(r)
    <2>1. /\ Head(t).call = "audit"
          /\ audit' = audit \cup (({Head(t).post} \cap Watched) \X {id})
          /\ Reply(r, req[r].copy)
          /\ UNCHANGED <<apps, outbox>>
      BY <1>16 DEF StoreAudit, NextCall
    <2>2. \A a \in Apps : KeptAt(apps, apps', audit, audit', a)
      BY <2>1 DEF KeptAt
    <2>3. GoneAudited
      BY <2>1 DEF GoneAudited, Exists
    <2>4. ~Reader(Head(t)) /\ Head(t).call # "create"
      BY <2>1 DEF Reader
    <2>5. Head(t) = Deletion => <<"application.deleted", id>> \in audit'
      <3>1. Deletion.post = "application.deleted"
        BY DEF Deletion, AuditCall, CallTo
      <3>2. "application.deleted" \in {"application.deleted"} \cap Watched
        BY DEF Watched
      <3> QED BY <2>1, <3>1, <3>2
    <2>6. Tail(t) # <<>> => Faithful(apps', id, req[r].copy) \/ ReadFirst(Tail(t))
      BY <1>5, <2>1, <2>4
    <2>7. Moved(apps', audit', r)
      BY <1>2, <1>3, <1>4, <2>1, <2>2, <2>4, <2>5, <2>6, ReplyMoves
    <2> QED BY <1>1, <1>6, <1>7, <2>1, <2>2, <2>3, <2>7, StepFinish
  <1>17. CASE StoreDelete(r) /\ ~Refused(r)
    <2>1. /\ Head(t).call = "delete"
          /\ Exists(id)
          /\ apps' = [apps EXCEPT ![id] = NoRow("deleted")]
          /\ outbox' = [outbox EXCEPT ![id] = "none"]
          /\ audit' = {<<e[1], IF e[2] = id THEN None ELSE e[2]>> : e \in audit}
          /\ Reply(r, NoRow("absent"))
      BY <1>17 DEF StoreDelete, NextCall
    <2>2. apps'[id] = NoRow("deleted") /\ \A a \in Apps : a # id => apps'[a] = apps[a]
      BY <1>1, <1>3, <2>1
    <2>3. NoRow("deleted").status = "deleted" /\ NoRow("deleted").reviewedBy = None
      BY DEF NoRow
    <2>4. \A a \in Apps :
             a # id /\ <<"application.deleted", a>> \in audit =>
                 <<"application.deleted", a>> \in audit'
      <3> SUFFICES ASSUME NEW a \in Apps, a # id, <<"application.deleted", a>> \in audit
                   PROVE  <<"application.deleted", a>> \in audit'
        OBVIOUS
      <3> DEFINE e == <<"application.deleted", a>>
      <3>1. e \in audit /\ <<e[1], IF e[2] = id THEN None ELSE e[2]>> = e
        OBVIOUS
      <3> QED BY <2>1, <3>1
    <2>5. \A a \in Apps : KeptAt(apps, apps', audit, audit', a)
      BY <2>1, <2>2, <2>3, <2>4 DEF KeptAt, Exists, Statuses
    <2>6. RowsOK(apps', outbox')
      BY <1>1, <1>3, <1>6, <2>1, <2>2, <2>3 DEF RowsOK, GoodReview
    <2>7. <<"application.deleted", id>> \in audit
      BY <1>4, <1>5, <2>1 DEF HandlerOK, Exists
    <2>8. GoneAudited
      BY <2>2, <2>7 DEF GoneAudited, Exists
    <2>9. Clearer(Head(t)) /\ Head(t) # Deletion /\ Head(t).call # "create"
      BY <1>8, <2>1 DEF Clearer
    <2>10. Moved(apps', audit', r)
      BY <1>2, <1>3, <1>4, <1>5, <2>1, <2>5, <2>9, ReplyMoves
    <2> QED BY <1>1, <1>7, <2>5, <2>6, <2>8, <2>10, StepFinish
  <1>18. CASE (UpdateClient(r) \/ DeleteClient(r)) /\ ~Refused(r)
    <2>1. /\ UNCHANGED <<apps, outbox, audit>>
          /\ \/ Head(t).call = "updateClient" /\ Reply(r, req[r].copy)
             \/ Head(t).call = "deleteClient" /\ Reply(r, NoRow("absent"))
      BY <1>18 DEF UpdateClient, DeleteClient, NextCall
    <2>2. ~Reader(Head(t)) /\ Head(t) # Deletion /\ Head(t).call # "create"
      BY <1>8, <2>1 DEF Reader
    <2>3. Head(t).call = "deleteClient" => Clearer(Head(t))
      BY DEF Clearer
    <2>4. \A a : KeptAt(apps, apps', audit, audit', a) /\ GoneAudited
      BY <2>1, SameTables
    <2>5. Moved(apps', audit', r)
      <3>1. CASE Head(t).call = "updateClient" /\ Reply(r, req[r].copy)
        BY <1>2, <1>4, <1>5, <2>1, <2>2, <2>4, <3>1, ReplyMoves
      <3>2. CASE Head(t).call = "deleteClient" /\ Reply(r, NoRow("absent"))
        BY <1>2, <1>4, <1>5, <2>1, <2>2, <2>3, <2>4, <3>2, ReplyMoves
      <3> QED BY <2>1, <3>1, <3>2
    <2> QED BY <1>1, <1>6, <2>1, <2>4, <2>5, StepFinish
  <1> QED BY <1>9, <1>10, <1>11, <1>12, <1>13, <1>14, <1>15, <1>16, <1>17, <1>18 DEF Step

-----------------------------------------------------------------------------
(* The operations that start a handler. *)

LEMMA BeginReview ==
    ASSUME TypeOK, ReviewInv, NEW r \in Requests, NEW u, NEW a \in Apps, NEW copy, NEW todo,
           Begin(r, u, a, copy, todo), todo # <<>>,
           HandlerOK(apps, audit, [actor |-> u, id |-> a, copy |-> copy, todo |-> todo]),
           todo[1].call = "create" => \A s \in Requests : req[s].id # a
    PROVE  ReviewInv'
  <1> DEFINE q == [actor |-> u, id |-> a, copy |-> copy, todo |-> todo]
  <1>1. req' = [req EXCEPT ![r] = q] /\ UNCHANGED <<apps, outbox, audit, prov>>
    BY DEF Begin
  <1>2. q.id = a /\ q.todo = todo /\ HandlerOK(apps, audit, q)
    OBVIOUS
  <1> HIDE DEF q
  <1>3. req'[r] = q /\ \A s \in Requests : s # r => req'[s] = req[s]
    BY <1>1 DEF TypeOK
  <1>4. HandlersOK(apps, audit, req')
    BY <1>2, <1>3 DEF HandlersOK, ReviewInv
  <1>5. Alone(req')
    <2> SUFFICES ASSUME NEW p \in Requests, NEW s \in Requests, p # s,
                        req'[p].todo # <<>>, req'[p].todo[1].call = "create"
                 PROVE  req'[s].id # req'[p].id
      BY DEF Alone
    <2>1. CASE p = r
      BY <1>2, <1>3, <2>1
    <2>2. CASE p # r /\ s # r
      BY <1>3, <2>2 DEF ReviewInv, Alone
    <2>3. CASE s = r
      <3>1. p # r /\ req'[p] = req[p] /\ req'[s].id = a
        BY <1>2, <1>3, <2>3
      <3>2. apps[req[p].id].status = "absent"
        BY <3>1 DEF ReviewInv, HandlersOK, HandlerOK
      <3>3. todo[1].call # "create" => apps[a].status # "absent"
        BY <1>2 DEF HandlerOK
      <3> QED BY <3>1, <3>2, <3>3
    <2> QED BY <2>1, <2>2, <2>3
  <1> QED BY <1>1, <1>4, <1>5 DEF ReviewInv

LEMMA BareReview ==
    ASSUME TypeOK, ReviewInv, NEW r \in Requests, NEW u, NEW a \in Apps, NEW copy, NEW todo,
           Begin(r, u, a, copy, todo), Bare(todo), apps[a].status # "absent",
           Faithful(apps, a, copy) \/ ReadFirst(todo)
    PROVE  ReviewInv'
  <1> DEFINE q == [actor |-> u, id |-> a, copy |-> copy, todo |-> todo]
  <1>1. q.id = a /\ q.copy = copy /\ q.todo = todo /\ q.actor = u
    OBVIOUS
  <1> HIDE DEF q
  <1>2. HandlerOK(apps, audit, q)
    BY <1>1 DEF HandlerOK, Bare
  <1>3. todo # <<>> /\ todo[1].call # "create"
    BY DEF Bare
  <1> QED BY <1>2, <1>3, BeginReview DEF q

LEMMA StartReview ==
    ASSUME TypeOK, ReviewInv, NEW r \in Requests, Start(r)
    PROVE  ReviewInv'
  <1>1. \A a \in Apps : apps[a] \in Row /\ GoodReview(apps[a])
    BY DEF TypeOK, ReviewInv, RowsOK
  <1>2. CASE CreateDraft(r)
    <2>1. PICK u \in Users, a \in Apps, p \in Profiles :
             /\ apps[a].status = "absent"
             /\ \A q \in Requests : req[q].id # a
             /\ Begin(r, u, a, [NoRow("draft") EXCEPT !.owner = u, !.profile = p], CreateCalls)
      BY <1>2 DEF CreateDraft, CreateCalls
    <2> DEFINE row == [NoRow("draft") EXCEPT !.owner = u, !.profile = p]
    <2> DEFINE q == [actor |-> u, id |-> a, copy |-> row, todo |-> CreateCalls]
    <2>2. row.status = "draft" /\ row.reviewedBy = None
      BY DEF NoRow
    <2>3. Begin(r, u, a, row, CreateCalls)
      BY <2>1
    <2> HIDE DEF row
    <2>4. q.id = a /\ q.copy = row /\ q.todo = CreateCalls /\ q.actor = u
      OBVIOUS
    <2> HIDE DEF q
    <2>5. HandlerOK(apps, audit, q)
      BY <2>1, <2>2, <2>4, CreateOrder DEF HandlerOK
    <2> QED BY <2>1, <2>3, <2>5, CreateOrder, BeginReview DEF q
  <1>3. CASE UpdateDraft(r)
    <2>1. PICK a \in Apps, p \in Profiles :
             /\ apps[a].status \in editableApplicationStatus
             /\ Begin(r, apps[a].owner, a, editedRow(apps[a], p), editCalls(apps[a].status))
      BY <1>3 DEF UpdateDraft
    <2>2. Faithful(apps, a, editedRow(apps[a], p)) /\ apps[a].status # "absent"
      BY <1>1, <2>1 DEF Faithful, editedRow, editableApplicationStatus, Row, GoodReview, Statuses
    <2> QED BY <2>1, <2>2, EditOrder, BareReview
  <1>4. CASE Submit(r)
    <2>1. PICK a \in Apps :
             /\ apps[a].status \in {"draft", "changes_requested", "rejected"}
             /\ Begin(r, apps[a].owner, a, NoRow("absent"), submitCalls(apps[a].status))
      BY <1>4 DEF Submit
    <2>2. apps[a].status # "absent"
      BY <2>1
    <2> QED BY <2>1, <2>2, SubmitOrder, BareReview
  <1>5. CASE ViewSecret(r)
    BY <1>5, ViewOrder, BareReview DEF ViewSecret
  <1>6. CASE RotateSecret(r)
    <2>1. PICK a \in Apps :
             /\ apps[a].status = "approved"
             /\ Begin(r, apps[a].owner, a, rotatedRow(apps[a], a, secrets + 1), rotateCalls)
      BY <1>6 DEF RotateSecret
    <2>2. Faithful(apps, a, rotatedRow(apps[a], a, secrets + 1)) /\ apps[a].status # "absent"
      BY <1>1, <2>1 DEF Faithful, rotatedRow, Row, GoodReview, Statuses
    <2> QED BY <2>1, <2>2, RotateOrder, BareReview
  <1>7. CASE Revoke(r)
    BY <1>7, RevokeOrder, BareReview DEF Revoke
  <1>8. CASE Delete(r)
    <2>1. PICK a \in Apps :
             /\ apps[a].status \in Deletable
             /\ Begin(r, apps[a].owner, a, [NoRow("absent") EXCEPT !.client = apps[a].client],
                      deleteCalls(apps[a].status))
      BY <1>8 DEF Delete
    <2>2. apps[a].status # "absent"
      BY <2>1 DEF Deletable, Statuses
    <2> QED BY <2>1, <2>2, DeleteOrder, BareReview
  <1>9. ASSUME NEW todo, Decision(todo), prepareReview(r, todo)
        PROVE  ReviewInv'
    <2>1. PICK a \in Apps, u \in Users :
             /\ mayReview(u, a)
             /\ apps[a].status = "pending_review"
             /\ Begin(r, u, a, NoRow("absent"), todo)
      BY <1>9 DEF prepareReview
    <2> DEFINE q == [actor |-> u, id |-> a, copy |-> NoRow("absent"), todo |-> todo]
    <2>2. q.id = a /\ q.todo = todo /\ q.actor = u
      OBVIOUS
    <2> HIDE DEF q
    <2>3. MayDecide(u, apps[a].owner) /\ u \in Reviewers \cup Admins
      BY <2>1 DEF mayReview, MayDecide
    <2>4. HandlerOK(apps, audit, q)
      BY <1>9, <2>1, <2>2, <2>3 DEF HandlerOK, Decision
    <2>5. todo # <<>> /\ todo[1].call # "create"
      BY <1>9 DEF Decision
    <2> QED BY <2>1, <2>4, <2>5, BeginReview DEF q
  <1>10. CASE Approve(r)
    BY <1>9, <1>10, DecisionOrder DEF Approve
  <1>11. CASE Reject(r) \/ RequestChanges(r)
    BY <1>9, <1>11, DecisionOrder DEF Reject, RequestChanges, decide
  <1> QED BY <1>2, <1>3, <1>4, <1>5, <1>6, <1>7, <1>8, <1>10, <1>11 DEF Start

-----------------------------------------------------------------------------
(* The worker. *)

LEMMA ProvFinish ==
    ASSUME TypeOK, ReviewInv, req' = req,
           \A a \in Apps : KeptAt(apps, apps', audit, audit', a),
           RowsOK(apps', outbox'), ProvOK(apps', prov')
    PROVE  ReviewInv'
  <1>1. HandlersOK(apps', audit', req)
    BY HandlerKept DEF HandlersOK, ReviewInv, TypeOK
  <1> QED BY <1>1 DEF ReviewInv

LEMMA WorkerReview ==
    ASSUME TypeOK, ReviewInv, RunOnce \/ WorkerCallFails
    PROVE  ReviewInv' /\ GoneAudited
  <1>1. /\ apps \in [Apps -> Row] /\ outbox \in [Apps -> OutboxStates]
        /\ prov \in [pc : {"idle", "get", "create", "save", "complete", "audit", "retry",
                           "drop"}, id : Apps \cup {None}, copy : Row]
        /\ prov.pc # "idle" => prov.id \in Apps
        /\ None \notin Apps
    BY Assumptions DEF TypeOK
  <1>2. RowsOK(apps, outbox) /\ ProvOK(apps, prov)
    BY DEF ReviewInv
  <1>3. ProvOK(apps, ProvIdle)
    BY <1>1 DEF ProvOK, ProvIdle
  <1>4. \A pc : pc \notin {"create", "save"} => ProvOK(apps, [prov EXCEPT !.pc = pc])
    BY <1>1, <1>2 DEF ProvOK
  <1>5. req' = req /\ audit' = audit
    BY DEF RunOnce, GetApplication, CreateClient, SaveApproved, Complete, AuditProvisioned,
           Retry, WorkerCallFails
  <1>6. ASSUME NEW p, prov' = p, ProvOK(apps, p), UNCHANGED apps, RowsOK(apps', outbox')
        PROVE  ReviewInv' /\ GoneAudited
    BY <1>5, <1>6, SameTables, ProvFinish
  <1>7. ASSUME NEW a \in Apps, NEW row \in Row, NEW cr, Faithful(apps, a, row)
        PROVE  Faithful(apps, a, WithCredentials(row, a, cr))
    BY <1>7 DEF Faithful, WithCredentials, Row, Statuses, GoodReview
  <1>8. CASE GetApplication
    <2> DEFINE a == prov.id
    <2>1. a \in Apps /\ apps' = apps /\ outbox' = outbox
      BY <1>1, <1>8 DEF GetApplication, Worker
    <2>2. \/ prov' = [prov EXCEPT !.pc = "retry"]
          \/ prov' = [prov EXCEPT !.pc = "drop"]
          \/ /\ apps[a].status = "provisioning"
             /\ \/ prov' = [prov EXCEPT !.pc = "create", !.copy = apps[a]]
                \/ prov' = [prov EXCEPT !.pc = "save",
                                        !.copy = WithCredentials(apps[a], a, cred[a])]
      BY <1>8 DEF GetApplication, Goto, keptCredentials, provisionable
    <2>3. CASE prov' = [prov EXCEPT !.pc = "retry"] \/ prov' = [prov EXCEPT !.pc = "drop"]
      BY <1>2, <1>4, <1>6, <2>1, <2>3
    <2>4. CASE apps[a].status = "provisioning"
      <3>1. Faithful(apps, a, apps[a]) /\ apps[a] \in Row
        BY <1>1, <1>2, <2>1, <2>4 DEF Faithful, RowsOK, Statuses
      <3>2. CASE prov' = [prov EXCEPT !.pc = "create", !.copy = apps[a]]
        <4>1. ProvOK(apps, prov')
          BY <1>1, <1>2, <2>1, <3>1, <3>2 DEF ProvOK
        <4> QED BY <1>2, <1>6, <2>1, <4>1
      <3>3. CASE prov' = [prov EXCEPT !.pc = "save",
                                      !.copy = WithCredentials(apps[a], a, cred[a])]
        <4>1. PICK row : row = WithCredentials(apps[a], a, cred[a])
          OBVIOUS
        <4>2. Faithful(apps, a, row)
          BY <1>7, <2>1, <3>1, <4>1
        <4>3. ProvOK(apps, prov')
          BY <1>1, <1>2, <2>1, <3>3, <4>1, <4>2 DEF ProvOK
        <4> QED BY <1>2, <1>6, <2>1, <4>3
      <3> QED BY <2>1, <2>2, <2>3, <2>4, <3>2, <3>3
    <2> QED BY <2>2, <2>3, <2>4
  <1>9. CASE CreateClient
    <2> DEFINE a == prov.id
    <2>1. a \in Apps /\ prov.pc = "create" /\ apps' = apps /\ outbox' = outbox
      BY <1>1, <1>9 DEF CreateClient, Worker
    <2>2. \/ prov' = [prov EXCEPT !.pc = "retry"]
          \/ \E cr : prov' = [prov EXCEPT !.pc = "save",
                                          !.copy = WithCredentials(prov.copy, a, cr)]
      BY <1>9 DEF CreateClient, Goto
    <2>3. CASE prov' = [prov EXCEPT !.pc = "retry"]
      BY <1>2, <1>4, <1>6, <2>1, <2>3
    <2>4. ASSUME NEW cr, prov' = [prov EXCEPT !.pc = "save",
                                             !.copy = WithCredentials(prov.copy, a, cr)]
          PROVE  ReviewInv' /\ GoneAudited
      <3>1. PICK row : row = WithCredentials(prov.copy, a, cr)
        OBVIOUS
      <3>2. Faithful(apps, a, row)
        BY <1>1, <1>2, <1>7, <2>1, <3>1 DEF ProvOK
      <3>3. ProvOK(apps, prov')
        BY <1>1, <1>2, <2>1, <2>4, <3>1, <3>2 DEF ProvOK
      <3> QED BY <1>2, <1>6, <2>1, <3>3
    <2> QED BY <2>2, <2>3, <2>4
  <1>10. CASE SaveApproved
    <2> DEFINE a == prov.id
    <2>1. a \in Apps /\ prov.pc = "save" /\ outbox' = outbox
          /\ Faithful(apps, a, prov.copy)
      BY <1>1, <1>2, <1>10 DEF SaveApproved, Worker, ProvOK
    <2>2. /\ prov' = [prov EXCEPT !.pc = "retry"] \/ prov' = [prov EXCEPT !.pc = "complete"]
          /\ apps' = apps \/ (Exists(a) /\ apps' = [apps EXCEPT ![a] = prov.copy])
      BY <1>10 DEF SaveApproved, Goto
    <2>3. ProvOK(apps, prov') /\ prov'.pc \notin {"create", "save"}
      BY <1>1, <1>4, <2>2
    <2>4. CASE apps' = apps
      BY <1>2, <1>6, <2>1, <2>3, <2>4
    <2>5. CASE Exists(a) /\ apps' = [apps EXCEPT ![a] = prov.copy]
      <3>1. /\ \A b \in Apps : KeptAt(apps, apps', audit, audit', b)
            /\ RowsOK(apps', outbox')
            /\ GoneAudited
        BY <1>5, <2>1, <2>5, RowReplaced DEF Faithful, Exists
      <3>2. ProvOK(apps', prov')
        BY <2>3, <3>1 DEF ProvOK, KeptAt
      <3> QED BY <1>5, <3>1, <3>2, ProvFinish
    <2> QED BY <2>2, <2>4, <2>5
  <1>11. CASE Complete \/ AuditProvisioned \/ Retry
    <2>1. /\ apps' = apps
          /\ prov' = ProvIdle \/ prov' = [prov EXCEPT !.pc = "audit"]
          /\ outbox' = outbox
             \/ (/\ prov.id \in Apps
                 /\ \E st : outbox' = [outbox EXCEPT ![prov.id] = IF @ = "none" THEN @ ELSE st])
             \/ (/\ prov.id \in Apps
                 /\ outbox' = [outbox EXCEPT ![prov.id] =
                                  IF @ \in {"none", "done"} THEN @ ELSE "waiting"])
      BY <1>1, <1>11 DEF Complete, AuditProvisioned, Retry, Worker
    <2>2. \A a \in Apps : outbox'[a] # "none" => outbox[a] # "none"
      BY <1>1, <2>1
    <2>3. RowsOK(apps', outbox')
      BY <1>2, <2>1, <2>2 DEF RowsOK
    <2> QED BY <1>3, <1>4, <1>6, <2>1, <2>3
  <1>12. CASE WorkerCallFails
    <2>1. UNCHANGED <<apps, outbox>>
          /\ (prov' = ProvIdle \/ prov' = [prov EXCEPT !.pc = "retry"])
      BY <1>12 DEF WorkerCallFails, afterFailure
    <2> QED BY <1>2, <1>3, <1>4, <1>6, <2>1
  <1> QED BY <1>8, <1>9, <1>10, <1>11, <1>12 DEF RunOnce

-----------------------------------------------------------------------------
(* Every step. *)

LEMMA NextReview ==
    ASSUME TypeOK, ReviewInv, [Next]_vars
    PROVE  ReviewInv' /\ GoneAudited
  <1>1. ASSUME NEW r \in Requests, Start(r) PROVE ReviewInv' /\ GoneAudited
    <2>1. apps' = apps
      BY <1>1 DEF Start, CreateDraft, UpdateDraft, Submit, ViewSecret, RotateSecret, Revoke,
                  Delete, Approve, Reject, RequestChanges, decide, prepareReview, Begin
    <2>2. GoneAudited
      BY <2>1 DEF GoneAudited, Exists
    <2> QED BY <1>1, <2>2, StartReview
  <1>2. ASSUME NEW r \in Requests, Step(r) PROVE ReviewInv' /\ GoneAudited
    BY <1>2, StepReview
  <1>3. ASSUME NEW r \in Requests, CallFails(r) PROVE ReviewInv' /\ GoneAudited
    <2>1. UNCHANGED <<apps, outbox, audit, prov>> /\ InFlight(r) /\ OnError(r)
      BY <1>3 DEF CallFails
    <2>2. HandlerOK(apps, audit, req[r])
      BY <2>1 DEF ReviewInv, HandlersOK, InFlight
    <2>3. Moved(apps', audit', r)
      BY <2>1, <2>2, OnErrorMoves
    <2>4. RowsOK(apps', outbox')
      BY <2>1 DEF ReviewInv
    <2> QED BY <2>1, <2>3, <2>4, SameTables, StepFinish
  <1>4. ASSUME NEW a \in Apps, ClaimNext(a) PROVE ReviewInv' /\ GoneAudited
    <2>1. /\ UNCHANGED <<apps, audit, req>> /\ outbox[a] = "ready"
          /\ outbox' = [outbox EXCEPT ![a] = "claimed"]
          /\ prov' = Claimed(a) \/ prov' = prov
      BY <1>4 DEF ClaimNext
    <2>2. outbox[a] # "none" /\ apps[a].status # "absent"
      BY <2>1 DEF ReviewInv, RowsOK
    <2>3. RowsOK(apps', outbox')
      BY <2>1, <2>2 DEF ReviewInv, RowsOK, TypeOK
    <2>4. Claimed(a).id = a /\ Claimed(a).pc = "get"
      BY DEF Claimed, ProvIdle
    <2>5. ProvOK(apps', prov')
      BY <2>1, <2>2, <2>4 DEF ProvOK, ReviewInv
    <2> QED BY <2>1, <2>3, <2>5, SameTables, ProvFinish
  <1>5. ASSUME NEW a \in Apps, RetryDelayPasses(a) \/ ClaimTimesOut(a)
        PROVE  ReviewInv' /\ GoneAudited
    <2>1. /\ UNCHANGED <<apps, audit, req, prov>> /\ outbox[a] # "none"
          /\ outbox' = [outbox EXCEPT ![a] = "ready"]
      BY <1>5 DEF RetryDelayPasses, ClaimTimesOut
    <2>2. RowsOK(apps', outbox')
      BY <2>1 DEF ReviewInv, RowsOK, TypeOK
    <2>3. ProvOK(apps', prov')
      BY <2>1 DEF ReviewInv
    <2> QED BY <2>1, <2>2, <2>3, SameTables, ProvFinish
  <1>6. CASE RunOnce \/ WorkerCallFails
    BY <1>6, WorkerReview
  <1>7. CASE Crash
    <2>1. UNCHANGED <<apps, outbox, audit>> /\ prov' = ProvIdle
          /\ req' = [r \in Requests |-> Idle]
      BY <1>7 DEF Crash
    <2>2. \A r \in Requests : req'[r].todo = <<>>
      BY <2>1, RowTypes
    <2>3. HandlersOK(apps', audit', req') /\ Alone(req')
      BY <2>2 DEF HandlersOK, Alone
    <2>4. ProvOK(apps', prov')
      BY <2>1, Assumptions DEF ProvOK, ProvIdle
    <2> QED BY <2>1, <2>3, <2>4, SameTables DEF ReviewInv
  <1>8. CASE UNCHANGED vars
    <2>1. UNCHANGED <<apps, outbox, audit, prov, req>>
      BY <1>8 DEF vars
    <2>2. GoneAudited
      BY <2>1 DEF GoneAudited, Exists
    <2> QED BY <2>1, <2>2 DEF ReviewInv
  <1> QED BY <1>1, <1>2, <1>3, <1>4, <1>5, <1>6, <1>7, <1>8 DEF Next

LEMMA ReviewSafety == Spec => []ReviewInv
  <1>1. Init => ReviewInv
    <2> SUFFICES ASSUME Init PROVE ReviewInv
      OBVIOUS
    <2>1. \A r \in Requests : req[r].todo = <<>>
      BY RowTypes DEF Init
    <2>2. HandlersOK(apps, audit, req) /\ Alone(req)
      BY <2>1 DEF HandlersOK, Alone
    <2>3. ProvOK(apps, prov)
      BY Assumptions DEF Init, ProvOK, ProvIdle
    <2>4. RowsOK(apps, outbox)
      BY DEF Init, RowsOK, GoodReview, NoRow
    <2> QED BY <2>2, <2>3, <2>4 DEF ReviewInv
  <1>2. TypeOK /\ ReviewInv /\ [Next]_vars => ReviewInv'
    BY NextReview
  <1> QED BY <1>1, <1>2, TypeCorrect, PTL DEF Spec

(* The reviewer recorded on a row is a reviewer or an administrator, and its  *)
(* owner only when the owner is an administrator, however reviews, edits,     *)
(* provisioning and deletions of the row overlap or fail: prepareReview       *)
(* checks the owner of the row it read, Get reads the row again, and Save     *)
(* writes the whole copy.                                                     *)
THEOREM ReviewsIndependent == Spec => []IndependentReview
  <1>1. ReviewInv => IndependentReview
    BY DEF ReviewInv, RowsOK, GoodReview, MayDecide, IndependentReview
  <1> QED BY <1>1, ReviewSafety, PTL

(* A row is removed only when its deletion is in the audit table: Delete      *)
(* appends the event before it removes the row, no Save writes a row that is  *)
(* not there, and only removing a row clears its id from its audit events.    *)
THEOREM DeletionsAudited == Spec => DeletionAudited
  <1>1. TypeOK /\ ReviewInv /\ [Next]_vars =>
          [\A a \in Apps :
              Exists(a) /\ ~Exists(a)' => <<"application.deleted", a>> \in audit]_vars
    BY NextReview DEF GoneAudited
  <1> QED BY <1>1, ReviewSafety, TypeCorrect, PTL DEF Spec, DeletionAudited
=============================================================================
