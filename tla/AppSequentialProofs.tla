------------------------ MODULE AppSequentialProofs ------------------------
(***************************************************************************)
(* What AppLifecycle guarantees when requests do not overlap: the worker,  *)
(* the clock, failures and restarts are still interleaved with the one     *)
(* handler in flight.  Without reviews NoCredentialsBeforeApproval, and    *)
(* without faults AtMostOneClient, hold for overlapping requests as well.  *)
(***************************************************************************)
EXTENDS AppReviewProofs, FiniteSetTheorems

(* One request at a time.  When the answer of Enqueue is lost, the rollback   *)
(* of startProvisioning races with the event that was enqueued and moves the  *)
(* status of a row the worker may be saving; where reviews are required it is *)
(* not used.                                                                  *)
Sequential == \A r, s \in Requests : r = s
NoLateRollback == RequireReview \/ "lost" \notin FaultKinds
Rollbacks == ~RequireReview /\ "fail" \in FaultKinds

EnqueueDraft == CallTo("enqueue", "draft", "-")

(* The order of calls that the statuses depend on. *)
Shape(t) ==
    \A i \in DOMAIN t :
        /\ t[i].call = "get" =>
              /\ i = 1
              /\ i + 1 \in DOMAIN t /\ i + 2 \in DOMAIN t
              /\ t[i + 1] = TransitionCall("pending_review", t[i].post)
              /\ t[i + 2] = SaveCall
        /\ t[i].call = "select" =>
              /\ i + 1 \in DOMAIN t /\ t[i + 1] = TransitionCall("draft", "provisioning")
              /\ i + 2 \in DOMAIN t /\ t[i + 2] = EnqueueDraft
        /\ t[i].call = "updateClient" =>
              i = 1 /\ i + 1 \in DOMAIN t /\ t[i + 1] = SaveCall
        /\ t[i].call = "save" =>
              \/ i = 1
              \/ t[i - 1].call = "updateClient"
              \/ t[i - 1].call = "transition" /\ (i = 2 \/ t[i - 2].call = "get")
        /\ t[i].call = "enqueue" =>
              \/ i = 1
              \/ /\ t[i] = EnqueueDraft
                 /\ t[i - 1] = TransitionCall("draft", "provisioning")
                 /\ i = 2 \/ t[i - 2].call = "select"
              \/ /\ t[i] # EnqueueDraft
                 /\ t[i - 1] = SaveCall
                 /\ i = 2 \/ t[i - 2] = TransitionCall("pending_review", "provisioning")
        /\ t[i] = EnqueueDraft => ~RequireReview
        /\ t[i].call = "delete" =>
              \A k \in DOMAIN t : k < i => t[k].call \in {"deleteClient", "audit"}

(* A revocation follows the removal of the client, and what starts the        *)
(* provisioning goes on to enqueue its event.                                 *)
Follow(t) ==
    \A i \in DOMAIN t :
        /\ t[i].call = "deleteClient" => i = 1
        /\ t[i].call = "transition" =>
              /\ t[i].post = "revoked" => i = 1 \/ t[i - 1].call = "deleteClient"
              /\ t[i].post = "provisioning" =>
                    \E k \in DOMAIN t : k > i /\ t[k].call = "enqueue"

(* The call in position k, if there is one, is c. *)
At(t, k, c) == k \in DOMAIN t /\ t[k] = c

Provisioned == {"provisioning", "approved", "revoked"}
Clean(row) ==
    row.status \notin {"approved", "revoked"} => row.client = 0 /\ row.sealed = NoSeal

(* Neither an event nor the worker is about to change application a. *)
Quiet(O, p, a) == O[a] = "none" /\ p.id # a

(* Copy c may replace the row of application a. *)
SaveOK(A, O, p, a, c) ==
    /\ Clean(c)
    /\ \/ A[a].status = c.status
       \/ c.status = "draft" /\ A[a].status \in {"rejected", "changes_requested"}
       \/ c.status = "draft" /\ A[a].status = "provisioning" /\ Rollbacks
    /\ A[a].status = "provisioning" => Quiet(O, p, a)

HandlerSeq(A, O, p, q) ==
    /\ Shape(q.todo) /\ Follow(q.todo)
    /\ q.todo[1].call = "create" => Clean(q.copy)
    /\ q.todo[1].call = "get" => A[q.id].status = "pending_review"
    /\ q.todo[1].call \in {"save", "updateClient"} => SaveOK(A, O, p, q.id, q.copy)
    /\ q.todo[1].call = "transition" /\ At(q.todo, 2, SaveCall) =>
          q.todo[1].post = q.copy.status /\ Clean(q.copy)
    /\ q.todo[1].call = "save" /\ At(q.todo, 2, CallTo("enqueue", "-", "-")) =>
          q.copy.status = "provisioning"
    /\ q.todo[1] = EnqueueDraft \/ (q.todo[1].call # "select" /\ At(q.todo, 2, EnqueueDraft)) =>
          q.copy.status = "draft" /\ Clean(q.copy)
    /\ q.todo[1].call = "enqueue" => A[q.id].status = "provisioning" /\ Quiet(O, p, q.id)
    /\ (\E i \in DOMAIN q.todo : q.todo[i].call = "delete") => A[q.id].status \in Deletable

RowsSeq(A, O) ==
    \A a \in Apps : Clean(A[a]) /\ (O[a] # "none" => A[a].status \in Provisioned)

ProvSeq(A, p) ==
    p.id \in Apps =>
        /\ A[p.id].status \in Provisioned \cup {"deleted"}
        /\ p.pc \in {"create", "save"} => A[p.id].status = "provisioning"
        /\ p.pc = "save" => p.copy.status = "approved"

SeqInv ==
    /\ RowsSeq(apps, outbox)
    /\ ProvSeq(apps, prov)
    /\ \A r \in Requests : req[r].todo # <<>> => HandlerSeq(apps, outbox, prov, req[r])

-----------------------------------------------------------------------------
(* The lists of calls the handlers start with. *)

LEMMA EditShape ==
    ASSUME NEW s
    PROVE  Shape(editCalls(s)) /\ Shape(rotateCalls)
  BY DEF editCalls, rotateCalls, Shape, EnqueueDraft, CallTo, TransitionCall, AuditCall, SaveCall

LEMMA CreateShape == Shape(CreateCalls)
  <1>1. CASE RequireReview
    BY <1>1, CreateCallsAre DEF Shape, EnqueueDraft, CallTo, TransitionCall, AuditCall, SaveCall
  <1>2. CASE ~RequireReview
    BY <1>2, CreateCallsAre DEF Shape, EnqueueDraft, CallTo, TransitionCall, AuditCall, SaveCall
  <1> QED BY <1>1, <1>2

LEMMA SubmitShape ==
    ASSUME NEW s
    PROVE  Shape(submitCalls(s))
  <1>1. CASE RequireReview /\ s = "draft"
    BY <1>1, SubmitCallsAre DEF Shape, EnqueueDraft, CallTo, TransitionCall, AuditCall, SaveCall
  <1>2. CASE RequireReview /\ s # "draft"
    BY <1>2, SubmitCallsAre DEF Shape, EnqueueDraft, CallTo, TransitionCall, AuditCall, SaveCall
  <1>3. CASE ~RequireReview /\ s = "draft"
    BY <1>3, SubmitCallsAre DEF startProvisioning, Shape, EnqueueDraft, CallTo, TransitionCall,
       AuditCall, SaveCall
  <1>4. CASE ~RequireReview /\ s # "draft"
    BY <1>4, SubmitCallsAre DEF Shape, EnqueueDraft, CallTo, TransitionCall, AuditCall, SaveCall
  <1> QED BY <1>1, <1>2, <1>3, <1>4

LEMMA ViewShape == Shape(<<AuditCall("application.secret_viewed")>>)
  BY DEF Shape, EnqueueDraft, CallTo, AuditCall

LEMMA RevokeShape ==
    Shape(<<CallTo("deleteClient", "-", "-"), TransitionCall("approved", "revoked"),
            AuditCall("application.revoked")>>)
  BY DEF Shape, EnqueueDraft, CallTo, TransitionCall, AuditCall

LEMMA DeleteShape ==
    ASSUME NEW s
    PROVE  Shape(deleteCalls(s))
  <1>1. CASE s = "approved"
    BY <1>1, DeleteCallsAre DEF Shape, EnqueueDraft, CallTo, AuditCall, Deletion
  <1>2. CASE s # "approved"
    BY <1>2, DeleteCallsAre DEF Shape, EnqueueDraft, CallTo, AuditCall, Deletion
  <1> QED BY <1>1, <1>2

LEMMA DecisionShape ==
    /\ Shape(<<CallTo("get", "-", "provisioning"),
               TransitionCall("pending_review", "provisioning"), SaveCall,
               CallTo("enqueue", "-", "-"), AuditCall("application.approved")>>)
    /\ \A s, act : Shape(<<CallTo("get", "-", s), TransitionCall("pending_review", s),
                           SaveCall, AuditCall(act)>>)
  BY DEF Shape, EnqueueDraft, CallTo, TransitionCall, AuditCall, SaveCall

LEMMA RollbackShape == Shape(<<SaveCall>>)
  BY DEF Shape, EnqueueDraft, CallTo, SaveCall

LEMMA EditFollow ==
    ASSUME NEW s
    PROVE  Follow(editCalls(s)) /\ Follow(rotateCalls)
  BY DEF editCalls, rotateCalls, Follow, CallTo, AuditCall, SaveCall

LEMMA CreateFollow == Follow(CreateCalls)
  <1>1. CASE RequireReview
    BY <1>1, CreateCallsAre DEF Follow, CallTo, AuditCall
  <1>2. CASE ~RequireReview
    BY <1>2, CreateCallsAre DEF Follow, CallTo, TransitionCall, AuditCall
  <1> QED BY <1>1, <1>2

LEMMA SubmitFollow ==
    ASSUME NEW s
    PROVE  Follow(submitCalls(s))
  <1>1. CASE RequireReview /\ s = "draft"
    BY <1>1, SubmitCallsAre DEF Follow, CallTo, TransitionCall, AuditCall
  <1>2. CASE RequireReview /\ s # "draft"
    BY <1>2, SubmitCallsAre DEF Follow, CallTo, TransitionCall, AuditCall
  <1>3. CASE ~RequireReview /\ s = "draft"
    BY <1>3, SubmitCallsAre DEF startProvisioning, Follow, CallTo, TransitionCall, AuditCall
  <1>4. CASE ~RequireReview /\ s # "draft"
    BY <1>4, SubmitCallsAre DEF Follow, CallTo, TransitionCall, AuditCall
  <1> QED BY <1>1, <1>2, <1>3, <1>4

LEMMA ViewFollow == Follow(<<AuditCall("application.secret_viewed")>>)
  BY DEF Follow, CallTo, AuditCall

LEMMA RevokeFollow ==
    Follow(<<CallTo("deleteClient", "-", "-"), TransitionCall("approved", "revoked"),
             AuditCall("application.revoked")>>)
  BY DEF Follow, CallTo, TransitionCall, AuditCall

LEMMA DeleteFollow ==
    ASSUME NEW s
    PROVE  Follow(deleteCalls(s))
  BY DeleteCallsAre DEF Follow, CallTo, AuditCall, Deletion

LEMMA DecisionFollow ==
    /\ Follow(<<CallTo("get", "-", "provisioning"),
                TransitionCall("pending_review", "provisioning"), SaveCall,
                CallTo("enqueue", "-", "-"), AuditCall("application.approved")>>)
    /\ \A s \in {"rejected", "changes_requested"} : \A act :
          Follow(<<CallTo("get", "-", s), TransitionCall("pending_review", s), SaveCall,
                   AuditCall(act)>>)
  BY DEF Follow, CallTo, TransitionCall, AuditCall, SaveCall

LEMMA RollbackFollow == Follow(<<SaveCall>>)
  BY DEF Follow, CallTo, SaveCall

LEMMA CallNames ==
    ASSUME NEW c \in Calls
    PROVE  /\ c.call = "save" => c = SaveCall
           /\ c.call = "enqueue" => c = EnqueueDraft \/ c = CallTo("enqueue", "-", "-")
           /\ c.call = "transition" =>
                 /\ c = TransitionCall(c.pre, c.post)
                 /\ c.pre \in {"draft", "pending_review", "approved", "rejected",
                               "changes_requested"}
                 /\ c.pre = "approved" <=> c.post = "revoked"
                 /\ c.post = "provisioning" => c.pre \in {"draft", "pending_review"}
  BY SMTT(60) DEF Calls, SaveCall, EnqueueDraft, CallTo, TransitionCall

LEMMA FixedCalls ==
    /\ SaveCall.call = "save" /\ EnqueueDraft.call = "enqueue"
    /\ CallTo("enqueue", "-", "-").call = "enqueue"
    /\ CallTo("enqueue", "-", "-") # EnqueueDraft
    /\ \A from, to : /\ TransitionCall(from, to).call = "transition"
                     /\ TransitionCall(from, to).pre = from
                     /\ TransitionCall(from, to).post = to
  BY DEF SaveCall, EnqueueDraft, CallTo, TransitionCall

LEMMA Shift ==
    ASSUME NEW i \in Nat, NEW j, j = i + 1, i >= 1
    PROVE  /\ j \in Nat /\ j > 1 /\ i = j - 1 /\ j # 1 /\ (j = 2 <=> i = 1)
           /\ (j + 1) - 1 = i + 1 /\ j + 1 > 1
           /\ (j + 2) - 1 = i + 2 /\ j + 2 > 1
           /\ i # 1 =>
                 j - 1 > 1 /\ j - 1 >= 1 /\ j - 1 <= j /\ (j - 1) - 1 = i - 1 /\ j - 1 \in Nat
           /\ i # 1 /\ i # 2 =>
                 j - 2 > 1 /\ j - 2 >= 1 /\ j - 2 <= j /\ (j - 2) - 1 = i - 2 /\ j - 2 \in Nat
  OBVIOUS

(* What follows a call. *)
LEMMA ShapeTail ==
    ASSUME NEW t \in Seq(Calls), t # <<>>, Tail(t) # <<>>, Shape(t)
    PROVE  Shape(Tail(t))
  <1> DEFINE u == Tail(t)
  <1>1. /\ 1 \in DOMAIN t /\ 2 \in DOMAIN t /\ 1 \in DOMAIN u
        /\ \A i \in DOMAIN u : i \in Nat /\ i >= 1 /\ i + 1 \in DOMAIN t /\ u[i] = t[i + 1]
        /\ \A i \in DOMAIN t : i \in Nat /\ i >= 1 /\ (i > 1 => i - 1 \in DOMAIN u)
    BY TailFacts
  <1>2. \A j \in DOMAIN t : j > 1 => j - 1 \in DOMAIN u /\ u[j - 1] = t[j]
    <2> SUFFICES ASSUME NEW j \in DOMAIN t, j > 1
                 PROVE  j - 1 \in DOMAIN u /\ u[j - 1] = t[j]
      OBVIOUS
    <2>1. j \in Nat /\ j - 1 \in DOMAIN u /\ (j - 1) + 1 = j
      BY <1>1
    <2> QED BY <1>1, <2>1
  <1> HIDE DEF u
  <1> SUFFICES ASSUME NEW i \in DOMAIN u
               PROVE  /\ u[i].call = "get" =>
                            /\ i = 1
                            /\ i + 1 \in DOMAIN u /\ i + 2 \in DOMAIN u
                            /\ u[i + 1] = TransitionCall("pending_review", u[i].post)
                            /\ u[i + 2] = SaveCall
                      /\ u[i].call = "select" =>
                            /\ i + 1 \in DOMAIN u /\ u[i + 1] = TransitionCall("draft", "provisioning")
                            /\ i + 2 \in DOMAIN u /\ u[i + 2] = EnqueueDraft
                      /\ u[i].call = "updateClient" =>
                            i = 1 /\ i + 1 \in DOMAIN u /\ u[i + 1] = SaveCall
                      /\ u[i].call = "save" =>
                            \/ i = 1
                            \/ u[i - 1].call = "updateClient"
                            \/ u[i - 1].call = "transition" /\ (i = 2 \/ u[i - 2].call = "get")
                      /\ u[i].call = "enqueue" =>
                            \/ i = 1
                            \/ /\ u[i] = EnqueueDraft
                               /\ u[i - 1] = TransitionCall("draft", "provisioning")
                               /\ i = 2 \/ u[i - 2].call = "select"
                            \/ /\ u[i] # EnqueueDraft
                               /\ u[i - 1] = SaveCall
                               /\ i = 2 \/ u[i - 2] = TransitionCall("pending_review", "provisioning")
                      /\ u[i] = EnqueueDraft => ~RequireReview
                      /\ u[i].call = "delete" =>
                            \A k \in DOMAIN u : k < i => u[k].call \in {"deleteClient", "audit"}
    BY DEF Shape, u
  <1>3. PICK j \in DOMAIN t : j = i + 1 /\ i \in Nat /\ i >= 1 /\ u[i] = t[j]
    BY <1>1
  <1>4. j \in Nat /\ j > 1 /\ i = j - 1 /\ j # 1 /\ (j = 2 <=> i = 1)
    BY <1>3, Shift
  <1>20. /\ (j + 1) - 1 = i + 1 /\ j + 1 > 1
         /\ (j + 2) - 1 = i + 2 /\ j + 2 > 1
         /\ i # 1 => j - 1 > 1 /\ j - 1 >= 1 /\ j - 1 <= j /\ (j - 1) - 1 = i - 1 /\ j - 1 \in Nat
         /\ i # 1 /\ i # 2 =>
               j - 2 > 1 /\ j - 2 >= 1 /\ j - 2 <= j /\ (j - 2) - 1 = i - 2 /\ j - 2 \in Nat
    BY <1>3, Shift
  <1>5. j + 1 \in DOMAIN t => i + 1 \in DOMAIN u /\ u[i + 1] = t[j + 1]
    BY <1>2, <1>20
  <1>6. j + 2 \in DOMAIN t => i + 2 \in DOMAIN u /\ u[i + 2] = t[j + 2]
    BY <1>2, <1>20
  <1>7. DOMAIN t = 1 .. Len(t) /\ Len(t) \in Nat
    BY LenProperties
  <1>8. i # 1 => u[i - 1] = t[j - 1]
    <2> SUFFICES ASSUME i # 1 PROVE u[i - 1] = t[j - 1]
      OBVIOUS
    <2>1. j - 1 \in DOMAIN t /\ j - 1 > 1 /\ (j - 1) - 1 = i - 1
      BY <1>3, <1>4, <1>7, <1>20
    <2> QED BY <1>2, <2>1
  <1>9. i # 1 /\ i # 2 => u[i - 2] = t[j - 2]
    <2> SUFFICES ASSUME i # 1, i # 2 PROVE u[i - 2] = t[j - 2]
      OBVIOUS
    <2>1. j - 2 \in DOMAIN t /\ j - 2 > 1 /\ (j - 2) - 1 = i - 2
      BY <1>3, <1>4, <1>7, <1>20
    <2> QED BY <1>2, <2>1
  <1>10. t[j].call \notin {"get", "updateClient"}
    BY <1>4 DEF Shape
  <1>12. ASSUME t[j].call = "delete"
         PROVE  \A k \in DOMAIN u : k < i => u[k].call \in {"deleteClient", "audit"}
    <2> SUFFICES ASSUME NEW k \in DOMAIN u, k < i
                 PROVE  u[k].call \in {"deleteClient", "audit"}
      OBVIOUS
    <2>1. k + 1 \in DOMAIN t /\ u[k] = t[k + 1] /\ k \in Nat
      BY <1>1
    <2>2. k + 1 < j
      BY <1>3, <2>1
    <2> QED BY <1>12, <2>1, <2>2 DEF Shape
  <1>13. /\ t[j].call = "select" =>
              /\ j + 1 \in DOMAIN t /\ t[j + 1] = TransitionCall("draft", "provisioning")
              /\ j + 2 \in DOMAIN t /\ t[j + 2] = EnqueueDraft
         /\ t[j] = EnqueueDraft => ~RequireReview
    BY DEF Shape
  <1>14. t[j].call = "save" =>
              \/ t[j - 1].call = "updateClient"
              \/ t[j - 1].call = "transition" /\ (i = 1 \/ t[j - 2].call = "get")
    BY <1>4 DEF Shape
  <1>15. t[j].call = "enqueue" =>
              \/ /\ t[j] = EnqueueDraft
                 /\ t[j - 1] = TransitionCall("draft", "provisioning")
                 /\ i = 1 \/ t[j - 2].call = "select"
              \/ /\ t[j] # EnqueueDraft
                 /\ t[j - 1] = SaveCall
                 /\ i = 1 \/ t[j - 2] = TransitionCall("pending_review", "provisioning")
    BY <1>4 DEF Shape
  <1> QED BY <1>3, <1>5, <1>6, <1>8, <1>9, <1>10, <1>12, <1>13, <1>14, <1>15

LEMMA FollowTail ==
    ASSUME NEW t \in Seq(Calls), t # <<>>, Tail(t) # <<>>, Follow(t)
    PROVE  Follow(Tail(t))
  <1> DEFINE u == Tail(t)
  <1>1. /\ \A i \in DOMAIN u : i \in Nat /\ i >= 1 /\ i + 1 \in DOMAIN t /\ u[i] = t[i + 1]
        /\ \A i \in DOMAIN t : i \in Nat /\ i >= 1 /\ (i > 1 => i - 1 \in DOMAIN u)
    BY TailFacts
  <1>2. \A j \in DOMAIN t : j > 1 => j - 1 \in DOMAIN u /\ u[j - 1] = t[j]
    <2> SUFFICES ASSUME NEW j \in DOMAIN t, j > 1
                 PROVE  j - 1 \in DOMAIN u /\ u[j - 1] = t[j]
      OBVIOUS
    <2>1. j \in Nat /\ j - 1 \in DOMAIN u /\ (j - 1) + 1 = j
      BY <1>1
    <2> QED BY <1>1, <2>1
  <1>3. DOMAIN t = 1 .. Len(t) /\ Len(t) \in Nat
    BY LenProperties
  <1> HIDE DEF u
  <1>4. ASSUME NEW i \in DOMAIN u
        PROVE  /\ u[i].call = "deleteClient" => i = 1
               /\ u[i].call = "transition" =>
                     /\ u[i].post = "revoked" => i = 1 \/ u[i - 1].call = "deleteClient"
                     /\ u[i].post = "provisioning" =>
                           \E k \in DOMAIN u : k > i /\ u[k].call = "enqueue"
    <2>1. PICK j \in DOMAIN t : j = i + 1 /\ i \in Nat /\ i >= 1 /\ u[i] = t[j]
      BY <1>1, <1>4
    <2>2. j \in Nat /\ j > 1 /\ j # 1
      BY <2>1, Shift
    <2>3. i # 1 => j - 1 >= 1 /\ j - 1 <= j /\ j - 1 > 1 /\ (j - 1) - 1 = i - 1 /\ j - 1 \in Nat
      BY <2>1, Shift
    <2>4. i # 1 => u[i - 1] = t[j - 1]
      <3> SUFFICES ASSUME i # 1 PROVE u[i - 1] = t[j - 1]
        OBVIOUS
      <3>1. j - 1 \in DOMAIN t
        BY <1>3, <2>2, <2>3
      <3> QED BY <1>2, <2>3, <3>1
    <2>5. u[i].call # "deleteClient"
      BY <2>1, <2>2 DEF Follow
    <2>6. u[i].call = "transition" /\ u[i].post = "revoked" => i = 1 \/ u[i - 1].call = "deleteClient"
      BY <2>1, <2>2, <2>4 DEF Follow
    <2>7. ASSUME u[i].call = "transition", u[i].post = "provisioning"
          PROVE  \E k \in DOMAIN u : k > i /\ u[k].call = "enqueue"
      <3>1. PICK k \in DOMAIN t : k > j /\ t[k].call = "enqueue"
        BY <2>1, <2>7 DEF Follow
      <3>2. k \in Nat
        BY <1>1
      <3>3. k > 1 /\ k - 1 > i
        BY <2>1, <2>2, <3>1, <3>2
      <3>4. k - 1 \in DOMAIN u /\ u[k - 1] = t[k]
        BY <1>2, <3>3
      <3> QED BY <3>1, <3>3, <3>4
    <2> QED BY <2>5, <2>6, <2>7
  <1> QED BY <1>4 DEF Follow, u

(* The call that comes next tells which one was made. *)
LEMMA StageAfter ==
    ASSUME NEW t \in Seq(Calls), t # <<>>, Tail(t) # <<>>, Ordered(t), Shape(t), Follow(t)
    PROVE  LET u == Tail(t) IN
           /\ Shape(u) /\ Follow(u)
           /\ u[1].call \notin {"create", "get", "updateClient", "deleteClient"}
           /\ u[1].call = "save" =>
                 t[1].call = "updateClient" \/ (t[1].call = "transition" /\ At(t, 2, SaveCall))
           /\ u[1].call = "transition" /\ At(u, 2, SaveCall) =>
                 t[1].call = "get" /\ u[1].post = t[1].post
           /\ u[1].call = "save" /\ At(u, 2, CallTo("enqueue", "-", "-")) =>
                 t[1].call = "transition" /\ t[1].post = "provisioning"
           /\ u[1] = EnqueueDraft => t[1].call = "transition" /\ At(t, 2, EnqueueDraft)
           /\ u[1].call # "select" /\ At(u, 2, EnqueueDraft) => t[1].call = "select"
           /\ u[1].call = "enqueue" =>
                 \/ t[1].call = "transition" /\ t[1].post = "provisioning"
                 \/ t[1].call = "save" /\ At(t, 2, CallTo("enqueue", "-", "-"))
           /\ u[1].call = "transition" /\ u[1].post = "revoked" => t[1].call = "deleteClient"
           /\ \A i \in DOMAIN u : u[i].call = "delete" =>
                 /\ t[1].call \in {"deleteClient", "audit"}
                 /\ i + 1 \in DOMAIN t /\ t[i + 1].call = "delete"
  <1> DEFINE u == Tail(t)
  <1>1. /\ 1 \in DOMAIN t /\ 2 \in DOMAIN t /\ 1 \in DOMAIN u
        /\ \A i \in DOMAIN u : i \in Nat /\ i >= 1 /\ i + 1 \in DOMAIN t /\ u[i] = t[i + 1]
    BY TailFacts
  <1>2. u[1] = t[2] /\ (2 \in DOMAIN u => 3 \in DOMAIN t /\ u[2] = t[3])
    BY <1>1
  <1>3. Shape(u) /\ Follow(u) /\ u[1].call # "create"
    BY ShapeTail, FollowTail, TailOrder
  <1>4. t[2] \in Calls /\ (3 \in DOMAIN t => t[3] \in Calls)
    BY <1>1, ElementOfSeq
  <1> HIDE DEF u
  <1>5. /\ t[2].call \notin {"get", "updateClient"}
        /\ t[2].call = "save" => t[1].call = "updateClient" \/ t[1].call = "transition"
        /\ t[2].call = "enqueue" =>
              \/ t[2] = EnqueueDraft /\ t[1] = TransitionCall("draft", "provisioning")
              \/ t[2] # EnqueueDraft /\ t[1] = SaveCall
    <2>1. 2 - 1 = 1 /\ 2 # 1
      OBVIOUS
    <2> QED BY <1>1, <2>1 DEF Shape
  <1>6. ASSUME 3 \in DOMAIN t
        PROVE  /\ t[3].call = "save" /\ t[2].call = "transition" => t[1].call = "get"
               /\ t[3].call = "enqueue" =>
                     \/ /\ t[3] = EnqueueDraft
                        /\ t[2] = TransitionCall("draft", "provisioning")
                        /\ t[1].call = "select"
                     \/ /\ t[3] # EnqueueDraft
                        /\ t[2] = SaveCall
                        /\ t[1] = TransitionCall("pending_review", "provisioning")
    <2>1. 3 - 1 = 2 /\ 3 - 2 = 1 /\ 3 # 1 /\ 3 # 2
      OBVIOUS
    <2>2. t[3].call = "save" /\ t[2].call = "transition" => t[1].call = "get"
      BY <1>6, <2>1 DEF Shape
    <2> QED BY <1>6, <2>1, <2>2 DEF Shape
  <1>7. t[2].call # "deleteClient"
        /\ (t[2].call = "transition" /\ t[2].post = "revoked" => t[1].call = "deleteClient")
    <2>1. 2 - 1 = 1 /\ 2 # 1
      OBVIOUS
    <2> QED BY <1>1, <2>1 DEF Follow
  <1>8. t[1].call = "get" => t[2] = TransitionCall("pending_review", t[1].post)
    <2>1. 1 + 1 = 2
      OBVIOUS
    <2> QED BY <1>1, <2>1 DEF Shape
  <1>9. ASSUME NEW i \in DOMAIN u, u[i].call = "delete"
        PROVE  t[1].call \in {"deleteClient", "audit"}
               /\ i + 1 \in DOMAIN t /\ t[i + 1].call = "delete"
    <2>1. i + 1 \in DOMAIN t /\ t[i + 1].call = "delete" /\ 1 < i + 1
      BY <1>1, <1>9
    <2> QED BY <1>1, <2>1 DEF Shape
  <1>10. /\ u[1].call = "save" =>
              t[1].call = "updateClient" \/ (t[1].call = "transition" /\ At(t, 2, SaveCall))
    BY <1>1, <1>2, <1>4, <1>5, CallNames DEF At
  <1>11. u[1].call = "transition" /\ At(u, 2, SaveCall) => t[1].call = "get" /\ u[1].post = t[1].post
    BY <1>2, <1>6, <1>8, FixedCalls DEF At
  <1>12. u[1].call = "save" /\ At(u, 2, CallTo("enqueue", "-", "-")) =>
              t[1].call = "transition" /\ t[1].post = "provisioning"
    BY <1>2, <1>6, FixedCalls DEF At
  <1>13. u[1] = EnqueueDraft => t[1].call = "transition" /\ At(t, 2, EnqueueDraft)
    BY <1>1, <1>2, <1>5, FixedCalls DEF At
  <1>14. u[1].call # "select" /\ At(u, 2, EnqueueDraft) => t[1].call = "select"
    BY <1>2, <1>6, FixedCalls DEF At
  <1>15. u[1].call = "enqueue" =>
              \/ t[1].call = "transition" /\ t[1].post = "provisioning"
              \/ t[1].call = "save" /\ At(t, 2, CallTo("enqueue", "-", "-"))
    BY <1>1, <1>2, <1>4, <1>5, FixedCalls, CallNames DEF At
  <1> QED BY <1>2, <1>3, <1>5, <1>7, <1>9, <1>10, <1>11, <1>12, <1>13, <1>14, <1>15 DEF u

-----------------------------------------------------------------------------
(* The handler goes on, over tables B and O and the worker's state p. *)

SeqMoved(B, O, p, r) ==
    \E q : req' = [req EXCEPT ![r] = q] /\ (q.todo # <<>> => HandlerSeq(B, O, p, q))

LEMMA SeqMovedAll ==
    ASSUME TypeOK, Sequential, NEW r \in Requests, NEW B, NEW O, NEW p, SeqMoved(B, O, p, r)
    PROVE  \A s \in Requests : req'[s].todo # <<>> => HandlerSeq(B, O, p, req'[s])
  <1>1. PICK q : req' = [req EXCEPT ![r] = q] /\ (q.todo # <<>> => HandlerSeq(B, O, p, q))
    BY DEF SeqMoved
  <1>2. req'[r] = q
    BY <1>1 DEF TypeOK
  <1> QED BY <1>1, <1>2 DEF Sequential

LEMMA IdleSeq ==
    ASSUME NEW r \in Requests, NEW B, NEW O, NEW p, req' = [req EXCEPT ![r] = Idle]
    PROVE  SeqMoved(B, O, p, r)
  BY RowTypes DEF SeqMoved

LEMMA OnErrorSeq ==
    ASSUME NEW r \in Requests, NEW B, NEW O, NEW p, OnError(r),
           Head(req[r].todo) # EnqueueDraft
    PROVE  SeqMoved(B, O, p, r)
  BY IdleSeq DEF OnError, EnqueueDraft

(* What the next call needs, by the call that was made. *)
Ready(B, O, p, a, t, c) ==
    /\ t[1].call = "updateClient" \/ (t[1].call = "transition" /\ At(t, 2, SaveCall)) =>
          SaveOK(B, O, p, a, c)
    /\ t[1].call = "get" \/ (t[1].call = "transition" /\ At(t, 2, SaveCall)) =>
          c.status = t[1].post /\ Clean(c)
    /\ t[1].call = "select" \/ (t[1].call = "transition" /\ At(t, 2, EnqueueDraft)) =>
          c.status = "draft" /\ Clean(c)
    /\ \/ t[1].call = "transition" /\ t[1].post = "provisioning"
       \/ t[1].call = "save" /\ At(t, 2, CallTo("enqueue", "-", "-"))
       => B[a].status = "provisioning" /\ Quiet(O, p, a)
    /\ t[1].call \in {"deleteClient", "audit"} /\ (\E i \in DOMAIN t : t[i].call = "delete") =>
          B[a].status \in Deletable

LEMMA AdvanceSeq ==
    ASSUME TypeOK, NEW r \in Requests, InFlight(r), NEW B, NEW O, NEW p, NEW c, Advance(r, c),
           Ordered(req[r].todo), Shape(req[r].todo), Follow(req[r].todo),
           Ready(B, O, p, req[r].id, req[r].todo, c)
    PROVE  SeqMoved(B, O, p, r)
  <1> DEFINE t == req[r].todo
  <1> DEFINE u == Tail(t)
  <1> DEFINE q == [req[r] EXCEPT !.copy = c, !.todo = u]
  <1>1. req[r] \in Request /\ t \in Seq(Calls) /\ t # <<>>
    BY DEF TypeOK, InFlight, Request
  <1>2. CASE u = <<>>
    <2>1. req' = [req EXCEPT ![r] = Idle]
      BY <1>2 DEF Advance
    <2> QED BY <2>1, IdleSeq
  <1>3. CASE u # <<>>
    <2>1. req' = [req EXCEPT ![r] = q]
      BY <1>3 DEF Advance
    <2>2. q.id = req[r].id /\ q.copy = c /\ q.todo = u
      BY <1>1 DEF Request
    <2>3. /\ Shape(u) /\ Follow(u)
          /\ u[1].call \notin {"create", "get", "updateClient", "deleteClient"}
          /\ u[1].call = "save" =>
                t[1].call = "updateClient" \/ (t[1].call = "transition" /\ At(t, 2, SaveCall))
          /\ u[1].call = "transition" /\ At(u, 2, SaveCall) =>
                t[1].call = "get" /\ u[1].post = t[1].post
          /\ u[1].call = "save" /\ At(u, 2, CallTo("enqueue", "-", "-")) =>
                t[1].call = "transition" /\ t[1].post = "provisioning"
          /\ u[1] = EnqueueDraft => t[1].call = "transition" /\ At(t, 2, EnqueueDraft)
          /\ u[1].call # "select" /\ At(u, 2, EnqueueDraft) => t[1].call = "select"
          /\ u[1].call = "enqueue" =>
                \/ t[1].call = "transition" /\ t[1].post = "provisioning"
                \/ t[1].call = "save" /\ At(t, 2, CallTo("enqueue", "-", "-"))
          /\ \A i \in DOMAIN u : u[i].call = "delete" =>
                /\ t[1].call \in {"deleteClient", "audit"}
                /\ i + 1 \in DOMAIN t /\ t[i + 1].call = "delete"
      BY <1>1, <1>3, StageAfter
    <2> HIDE DEF q, u, t
    <2>4. /\ u[1].call = "save" => SaveOK(B, O, p, q.id, c)
          /\ u[1].call = "transition" /\ At(u, 2, SaveCall) => u[1].post = c.status /\ Clean(c)
      BY <2>2, <2>3 DEF Ready, t
    <2>5. u[1].call = "save" /\ At(u, 2, CallTo("enqueue", "-", "-")) => c.status = "provisioning"
      BY <2>3 DEF Ready, t
    <2>6. u[1] = EnqueueDraft \/ (u[1].call # "select" /\ At(u, 2, EnqueueDraft)) =>
              c.status = "draft" /\ Clean(c)
      BY <2>3 DEF Ready, t
    <2>7. u[1].call = "enqueue" => B[q.id].status = "provisioning" /\ Quiet(O, p, q.id)
      BY <2>2, <2>3 DEF Ready, t
    <2>8. (\E i \in DOMAIN u : u[i].call = "delete") => B[q.id].status \in Deletable
      BY <2>2, <2>3 DEF Ready, t
    <2>9. HandlerSeq(B, O, p, q)
      BY <2>2, <2>3, <2>4, <2>5, <2>6, <2>7, <2>8 DEF HandlerSeq
    <2> QED BY <2>1, <2>9 DEF SeqMoved
  <1> QED BY <1>2, <1>3

LEMMA ReplySeq ==
    ASSUME TypeOK, NoLateRollback, NEW r \in Requests, InFlight(r), NEW B, NEW O, NEW p, NEW c,
           Reply(r, c), Ordered(req[r].todo), Shape(req[r].todo), Follow(req[r].todo),
           Ready(B, O, p, req[r].id, req[r].todo, c)
    PROVE  SeqMoved(B, O, p, r)
  <1>1. CASE Advance(r, c)
    BY <1>1, AdvanceSeq
  <1>2. CASE OnError(r) /\ Fault("lost")
    <2>1. RequireReview
      BY <1>2 DEF Fault, NoLateRollback
    <2>2. req[r].todo \in Seq(Calls) /\ req[r].todo # <<>>
      BY DEF TypeOK, InFlight, Request
    <2>3. Head(req[r].todo) = req[r].todo[1] /\ 1 \in DOMAIN req[r].todo
      BY <2>2, HeadTailProperties, LenProperties, EmptySeq
    <2>4. Head(req[r].todo) # EnqueueDraft
      BY <2>1, <2>3 DEF Shape
    <2> QED BY <1>2, <2>4, OnErrorSeq
  <1> QED BY <1>1, <1>2 DEF Reply

(* How the status of one row may move. *)
Moves(x, y) ==
    \/ x = y
    \/ x = "absent" /\ y = "draft"
    \/ validTransition(x, y)
    \/ x \in Deletable /\ y = "deleted"
    \/ x = "provisioning" /\ y = "draft" /\ Rollbacks

OneRowMoves ==
    \/ apps' = apps
    \/ \E a \in Apps : \E row :
          apps' = [apps EXCEPT ![a] = row] /\ Moves(apps[a].status, row.status)

LEMMA OneRowMoved ==
    ASSUME NEW a \in Apps, NEW row, apps' = [apps EXCEPT ![a] = row],
           Moves(apps[a].status, row.status)
    PROVE  OneRowMoves
  BY DEF OneRowMoves

(* One row is replaced by a handler. *)
LEMMA RowSeq ==
    ASSUME TypeOK, SeqInv, NEW a \in Apps, NEW row, apps' = [apps EXCEPT ![a] = row],
           UNCHANGED <<outbox, prov>>, Clean(row),
           apps[a].status \notin Provisioned \cup {"deleted"} \/ Quiet(outbox, prov, a)
             \/ apps[a].status = row.status
             \/ (apps[a].status = "approved" /\ row.status = "revoked")
    PROVE  RowsSeq(apps', outbox') /\ ProvSeq(apps', prov')
  <1>1. apps'[a] = row /\ \A b \in Apps : b # a => apps'[b] = apps[b]
    BY DEF TypeOK
  <1>2. RowsSeq(apps', outbox')
    BY <1>1 DEF SeqInv, RowsSeq, Quiet, Provisioned
  <1>3. ProvSeq(apps', prov')
    BY <1>1 DEF SeqInv, ProvSeq, Quiet, Provisioned
  <1> QED BY <1>2, <1>3

LEMMA SeqFinish ==
    ASSUME TypeOK, Sequential, NEW r \in Requests, SeqMoved(apps', outbox', prov', r),
           RowsSeq(apps', outbox'), ProvSeq(apps', prov')
    PROVE  SeqInv'
  <1>1. \A s \in Requests : req'[s].todo # <<>> => HandlerSeq(apps', outbox', prov', req'[s])
    BY SeqMovedAll
  <1> QED BY <1>1 DEF SeqInv

(* The calls of a handler. *)
LEMMA StepSeq ==
    ASSUME TypeOK, ReviewInv, SeqInv, Sequential, NoLateRollback, NEW r \in Requests, Step(r)
    PROVE  SeqInv' /\ OneRowMoves
  <1> DEFINE id == req[r].id
  <1> DEFINE t == req[r].todo
  <1> DEFINE copy == req[r].copy
  <1>1. prov' = prov /\ apps \in [Apps -> Row] /\ outbox \in [Apps -> OutboxStates]
    BY DEF Step, TypeOK
  <1>2. InFlight(r)
    BY DEF Step, StoreCreate, StoreGet, StoreSelect, StoreTransition, StoreSave,
           StoreEnqueue, StoreAudit, StoreDelete, UpdateClient, DeleteClient, NextCall
  <1>3. Head(t) \in Calls /\ id \in Apps
    BY <1>2, HandlerTypes
  <1>4. HandlerOK(apps, audit, req[r]) /\ HandlerSeq(apps, outbox, prov, req[r])
    BY <1>2 DEF ReviewInv, HandlersOK, InFlight, SeqInv
  <1>5. Head(t) = t[1] /\ 1 \in DOMAIN t
    BY <1>2, <1>4, HeadFacts
  <1>6. RowsSeq(apps, outbox) /\ ProvSeq(apps, prov)
    BY DEF SeqInv
  <1>7. Ordered(t) /\ Shape(t) /\ Follow(t)
    BY <1>4 DEF HandlerOK, HandlerSeq
  <1>8. apps[id] \in Row /\ Clean(apps[id])
    BY <1>1, <1>3, <1>6 DEF RowsSeq
  <1>9. Clean(NoRow("deleted")) /\ NoRow("deleted").status = "deleted"
    BY DEF Clean, NoRow
  <1>10. ASSUME NEW c, Advance(r, c) \/ Reply(r, c), Ready(apps', outbox', prov', id, t, c)
         PROVE  SeqMoved(apps', outbox', prov', r)
    BY <1>2, <1>7, <1>10, AdvanceSeq, ReplySeq
  <1>11. apps' = apps => OneRowMoves
    BY DEF OneRowMoves
  <1>12. apps' = apps /\ outbox' = outbox => RowsSeq(apps', outbox') /\ ProvSeq(apps', prov')
    BY <1>1, <1>6
  <1>13. CASE Refused(r)
    <2>1. UNCHANGED <<apps, outbox, audit>> /\ OnError(r)
      BY <1>13 DEF Refused
    <2>2. Head(t) # EnqueueDraft
      <3> SUFFICES ASSUME Head(t) = EnqueueDraft PROVE FALSE
        OBVIOUS
      <3>1. Head(t).call = "enqueue"
        BY FixedCalls
      <3>2. apps[id].status = "provisioning" /\ outbox[id] = "none"
        BY <1>4, <1>5, <3>1 DEF HandlerSeq, Quiet
      <3>3. StoreEnqueue(r)
        BY <3>1 DEF Step, StoreCreate, StoreGet, StoreSelect, StoreTransition, StoreSave,
           StoreAudit, StoreDelete, UpdateClient, DeleteClient, NextCall
      <3>4. Exists(id)
        BY <3>2 DEF Exists, Statuses
      <3>5. outbox' = [outbox EXCEPT ![id] = IF @ = "none" THEN "ready" ELSE @]
        BY <3>3, <3>4 DEF StoreEnqueue
      <3> QED BY <1>1, <1>3, <2>1, <3>2, <3>5
    <2> QED BY <1>11, <1>12, <2>1, <2>2, OnErrorSeq, SeqFinish
  <1>14. CASE StoreCreate(r)
    <2>1. /\ Head(t).call = "create"
          /\ apps' = [apps EXCEPT ![id] = copy]
          /\ Reply(r, NoRow("absent"))
          /\ UNCHANGED outbox
      BY <1>14 DEF StoreCreate, NextCall
    <2>2. apps[id].status = "absent" /\ copy.status = "draft" /\ Clean(copy)
      BY <1>4, <1>5, <2>1 DEF HandlerOK, HandlerSeq
    <2>3. RowsSeq(apps', outbox') /\ ProvSeq(apps', prov')
      BY <1>1, <1>3, <2>1, <2>2, RowSeq DEF Provisioned
    <2>4. Ready(apps', outbox', prov', id, t, NoRow("absent"))
      BY <1>5, <2>1 DEF Ready
    <2>5. OneRowMoves
      BY <1>3, <2>1, <2>2, OneRowMoved DEF Moves
    <2> QED BY <1>10, <2>1, <2>3, <2>4, <2>5, SeqFinish
  <1>15. CASE StoreGet(r) /\ ~Refused(r)
    <2> DEFINE c == [apps[id] EXCEPT !.status = Head(t).post, !.reviewedBy = req[r].actor]
    <2>1. Head(t).call = "get" /\ Advance(r, c) /\ UNCHANGED <<apps, outbox>>
      BY <1>15 DEF StoreGet, NextCall
    <2>2. apps[id].status = "pending_review"
      BY <1>4, <1>5, <2>1 DEF HandlerSeq
    <2>3. c.status = t[1].post /\ Clean(c)
      BY <1>5, <1>8, <2>2 DEF Clean, Row
    <2> HIDE DEF c
    <2>4. Ready(apps', outbox', prov', id, t, c)
      BY <1>5, <2>1, <2>3 DEF Ready
    <2> QED BY <1>10, <1>11, <1>12, <2>1, <2>4, SeqFinish
  <1>16. CASE StoreSelect(r) /\ ~Refused(r)
    <2>1. /\ Head(t).call = "select" /\ apps[id].status = Head(t).pre
          /\ Advance(r, apps[id]) /\ UNCHANGED <<apps, outbox>>
      BY <1>16 DEF StoreSelect, NextCall
    <2>2. apps[id].status = "draft"
      BY <1>3, <2>1, SelectShape
    <2>3. PICK c : c = apps[id]
      OBVIOUS
    <2>4. Ready(apps', outbox', prov', id, t, c)
      BY <1>5, <1>8, <2>1, <2>2, <2>3 DEF Ready
    <2>5. Advance(r, c)
      BY <2>1, <2>3
    <2> QED BY <1>10, <1>11, <1>12, <2>1, <2>4, <2>5, SeqFinish
  <1>17. CASE StoreTransition(r) /\ ~Refused(r)
    <2> DEFINE row == [apps[id] EXCEPT !.status = Head(t).post]
    <2>1. /\ Head(t).call = "transition"
          /\ apps[id].status = Head(t).pre
          /\ validTransition(Head(t).pre, Head(t).post)
          /\ apps' = [apps EXCEPT ![id] = row]
          /\ Reply(r, copy)
          /\ UNCHANGED outbox
      BY <1>17 DEF StoreTransition, NextCall
    <2>2. /\ Head(t).pre \in {"draft", "pending_review", "approved", "rejected",
                              "changes_requested"}
          /\ Head(t).pre = "approved" <=> Head(t).post = "revoked"
          /\ Head(t).post = "provisioning" => Head(t).pre \in {"draft", "pending_review"}
          /\ Head(t).post # "approved"
      BY <1>3, <2>1, CallNames, CallShape
    <2>3. /\ row.status = Head(t).post /\ row.client = apps[id].client
          /\ row.sealed = apps[id].sealed
      BY <1>8 DEF Row
    <2> HIDE DEF row
    <2>4. Clean(row)
      BY <1>8, <2>1, <2>2, <2>3 DEF Clean
    <2>5. RowsSeq(apps', outbox') /\ ProvSeq(apps', prov')
      BY <1>1, <1>3, <2>1, <2>2, <2>3, <2>4, RowSeq DEF Provisioned
    <2>6. apps'[id] = row
      BY <1>1, <1>3, <2>1
    <2>7. Head(t).post = "provisioning" => Quiet(outbox', prov', id)
      BY <1>1, <1>3, <1>6, <2>1, <2>2 DEF Quiet, RowsSeq, ProvSeq, Provisioned
    <2>8. At(t, 2, SaveCall) => Head(t).post = copy.status /\ Clean(copy)
      BY <1>4, <1>5, <2>1 DEF HandlerSeq
    <2>9. At(t, 2, EnqueueDraft) => copy.status = "draft" /\ Clean(copy)
      BY <1>4, <1>5, <2>1 DEF HandlerSeq
    <2>10. At(t, 2, SaveCall) => SaveOK(apps', outbox', prov', id, copy)
      BY <2>3, <2>6, <2>7, <2>8 DEF SaveOK
    <2>11. Ready(apps', outbox', prov', id, t, copy)
      BY <1>5, <2>1, <2>3, <2>6, <2>7, <2>8, <2>9, <2>10 DEF Ready
    <2>12. OneRowMoves
      BY <1>3, <2>1, <2>3, OneRowMoved DEF Moves
    <2> QED BY <1>10, <2>1, <2>5, <2>11, <2>12, SeqFinish
  <1>18. CASE StoreSave(r) /\ ~Refused(r)
    <2>1. /\ Head(t).call = "save"
          /\ apps' = [apps EXCEPT ![id] = copy]
          /\ Reply(r, NoRow("absent"))
          /\ UNCHANGED outbox
      BY <1>18 DEF StoreSave, NextCall
    <2>2. SaveOK(apps, outbox, prov, id, copy)
      BY <1>4, <1>5, <2>1 DEF HandlerSeq
    <2>3. RowsSeq(apps', outbox') /\ ProvSeq(apps', prov')
      BY <1>1, <1>3, <2>1, <2>2, RowSeq DEF SaveOK, Provisioned
    <2>4. apps'[id] = copy
      BY <1>1, <1>3, <2>1
    <2>5. At(t, 2, CallTo("enqueue", "-", "-")) =>
             apps'[id].status = "provisioning" /\ Quiet(outbox', prov', id)
      BY <1>1, <1>4, <1>5, <2>1, <2>2, <2>4 DEF HandlerSeq, SaveOK
    <2>6. Ready(apps', outbox', prov', id, t, NoRow("absent"))
      BY <1>5, <2>1, <2>5 DEF Ready
    <2>7. Moves(apps[id].status, copy.status)
      BY <2>2 DEF SaveOK, Moves, validTransition
    <2>8. OneRowMoves
      BY <1>3, <2>1, <2>7, OneRowMoved
    <2> QED BY <1>10, <2>1, <2>3, <2>6, <2>8, SeqFinish
  <1>19. CASE StoreEnqueue(r) /\ ~Refused(r)
    <2>1. /\ Head(t).call = "enqueue"
          /\ outbox' = [outbox EXCEPT ![id] = IF @ = "none" THEN "ready" ELSE @]
          /\ Reply(r, copy)
          /\ UNCHANGED apps
      BY <1>19 DEF StoreEnqueue, NextCall
    <2>2. apps[id].status = "provisioning"
      BY <1>4, <1>5, <2>1 DEF HandlerSeq
    <2>3. RowsSeq(apps', outbox') /\ ProvSeq(apps', prov')
      BY <1>1, <1>3, <1>6, <2>1, <2>2 DEF RowsSeq, ProvSeq, Provisioned
    <2>4. PICK c : c = copy
      OBVIOUS
    <2>5. Ready(apps', outbox', prov', id, t, c) /\ Reply(r, c)
      BY <1>5, <2>1, <2>4 DEF Ready
    <2> QED BY <1>10, <1>11, <2>1, <2>3, <2>5, SeqFinish
  <1>20. CASE StoreAudit(r) /\ ~Refused(r)
    <2>1. Head(t).call = "audit" /\ Reply(r, copy) /\ UNCHANGED <<apps, outbox>>
      BY <1>20 DEF StoreAudit, NextCall
    <2>2. PICK c : c = copy
      OBVIOUS
    <2>3. (\E i \in DOMAIN t : t[i].call = "delete") => apps'[id].status \in Deletable
      BY <1>4, <2>1 DEF HandlerSeq
    <2>4. Ready(apps', outbox', prov', id, t, c) /\ Reply(r, c)
      BY <1>5, <2>1, <2>2, <2>3 DEF Ready
    <2> QED BY <1>10, <1>11, <1>12, <2>1, <2>4, SeqFinish
  <1>21. CASE StoreDelete(r) /\ ~Refused(r)
    <2>1. /\ Head(t).call = "delete"
          /\ apps' = [apps EXCEPT ![id] = NoRow("deleted")]
          /\ outbox' = [outbox EXCEPT ![id] = "none"]
          /\ Reply(r, NoRow("absent"))
      BY <1>21 DEF StoreDelete, NextCall
    <2>2. apps[id].status \in Deletable
      BY <1>4, <1>5, <2>1 DEF HandlerSeq
    <2>3. /\ apps'[id] = NoRow("deleted") /\ \A b \in Apps : b # id => apps'[b] = apps[b]
          /\ outbox'[id] = "none" /\ \A b \in Apps : b # id => outbox'[b] = outbox[b]
      BY <1>1, <1>3, <2>1
    <2>4. RowsSeq(apps', outbox')
      BY <1>6, <1>9, <2>3 DEF RowsSeq
    <2>5. ProvSeq(apps', prov')
      BY <1>1, <1>6, <1>9, <2>2, <2>3 DEF ProvSeq, Deletable
    <2>6. Ready(apps', outbox', prov', id, t, NoRow("absent"))
      BY <1>5, <2>1 DEF Ready
    <2>7. OneRowMoves
      BY <1>3, <1>9, <2>1, <2>2, OneRowMoved DEF Moves
    <2> QED BY <1>10, <2>1, <2>4, <2>5, <2>6, <2>7, SeqFinish
  <1>22. CASE UpdateClient(r) /\ ~Refused(r)
    <2>1. Head(t).call = "updateClient" /\ Reply(r, copy) /\ UNCHANGED <<apps, outbox>>
      BY <1>22 DEF UpdateClient, NextCall
    <2>2. SaveOK(apps', outbox', prov', id, copy)
      BY <1>1, <1>4, <1>5, <2>1 DEF HandlerSeq
    <2>3. PICK c : c = copy
      OBVIOUS
    <2>4. Ready(apps', outbox', prov', id, t, c) /\ Reply(r, c)
      BY <1>5, <2>1, <2>2, <2>3 DEF Ready
    <2> QED BY <1>10, <1>11, <1>12, <2>1, <2>4, SeqFinish
  <1>23. CASE DeleteClient(r) /\ ~Refused(r)
    <2>1. Head(t).call = "deleteClient" /\ Reply(r, NoRow("absent")) /\ UNCHANGED <<apps, outbox>>
      BY <1>23 DEF DeleteClient, NextCall
    <2>2. (\E i \in DOMAIN t : t[i].call = "delete") => apps'[id].status \in Deletable
      BY <1>4, <2>1 DEF HandlerSeq
    <2>3. Ready(apps', outbox', prov', id, t, NoRow("absent"))
      BY <1>5, <2>1, <2>2 DEF Ready
    <2> QED BY <1>10, <1>11, <1>12, <2>1, <2>3, SeqFinish
  <1> QED BY <1>13, <1>14, <1>15, <1>16, <1>17, <1>18, <1>19, <1>20, <1>21, <1>22, <1>23 DEF Step

-----------------------------------------------------------------------------
(* The operations that start a handler. *)

(* The first two calls of a list, where only deletions delete. *)
Opens(t, firsts, seconds) ==
    /\ t # <<>>
    /\ t[1].call \in firsts
    /\ 2 \in DOMAIN t => t[2].call \in seconds
    /\ \A i \in DOMAIN t : t[i].call # "delete"

LEMMA Openings ==
    /\ Opens(CreateCalls, {"create"}, {"audit"})
    /\ \A s : Opens(editCalls(s), {"save", "updateClient"}, {"save", "audit"})
    /\ Opens(rotateCalls, {"updateClient"}, {"save"})
    /\ \A s : Opens(submitCalls(s), {"transition", "select"}, {"transition", "select", "audit"})
    /\ Opens(<<AuditCall("application.secret_viewed")>>, {"audit"}, {})
    /\ Opens(<<CallTo("deleteClient", "-", "-"), TransitionCall("approved", "revoked"),
               AuditCall("application.revoked")>>, {"deleteClient"}, {"transition"})
    /\ Opens(<<CallTo("get", "-", "provisioning"),
               TransitionCall("pending_review", "provisioning"), SaveCall,
               CallTo("enqueue", "-", "-"), AuditCall("application.approved")>>,
             {"get"}, {"transition"})
    /\ \A s, act : Opens(<<CallTo("get", "-", s), TransitionCall("pending_review", s), SaveCall,
                           AuditCall(act)>>, {"get"}, {"transition"})
  <1>1. Opens(CreateCalls, {"create"}, {"audit"})
    BY CreateCallsAre DEF Opens, CallTo, TransitionCall, AuditCall
  <1>2. \A s : Opens(editCalls(s), {"save", "updateClient"}, {"save", "audit"})
    BY DEF Opens, editCalls, SaveCall, CallTo, AuditCall
  <1>3. Opens(rotateCalls, {"updateClient"}, {"save"})
    BY DEF Opens, rotateCalls, SaveCall, CallTo, AuditCall
  <1>4. ASSUME NEW s
        PROVE  Opens(submitCalls(s), {"transition", "select"}, {"transition", "select", "audit"})
    <2>1. CASE RequireReview
      BY <2>1, SubmitCallsAre DEF Opens, CallTo, TransitionCall, AuditCall
    <2>2. CASE ~RequireReview /\ s = "draft"
      BY <2>2, SubmitCallsAre DEF startProvisioning, Opens, CallTo, TransitionCall, AuditCall
    <2>3. CASE ~RequireReview /\ s # "draft"
      BY <2>3, SubmitCallsAre DEF Opens, CallTo, TransitionCall, AuditCall
    <2> QED BY <2>1, <2>2, <2>3
  <1>5. /\ Opens(<<AuditCall("application.secret_viewed")>>, {"audit"}, {})
        /\ Opens(<<CallTo("deleteClient", "-", "-"), TransitionCall("approved", "revoked"),
                   AuditCall("application.revoked")>>, {"deleteClient"}, {"transition"})
    BY DEF Opens, CallTo, TransitionCall, AuditCall
  <1>6. Opens(<<CallTo("get", "-", "provisioning"),
                TransitionCall("pending_review", "provisioning"), SaveCall,
                CallTo("enqueue", "-", "-"), AuditCall("application.approved")>>,
              {"get"}, {"transition"})
    BY DEF Opens, CallTo, TransitionCall, AuditCall, SaveCall
  <1>7. \A s, act : Opens(<<CallTo("get", "-", s), TransitionCall("pending_review", s), SaveCall,
                            AuditCall(act)>>, {"get"}, {"transition"})
    BY DEF Opens, CallTo, TransitionCall, AuditCall, SaveCall
  <1> QED BY <1>1, <1>2, <1>3, <1>4, <1>5, <1>6, <1>7

LEMMA BeginSeq ==
    ASSUME TypeOK, SeqInv, Sequential, NEW r \in Requests, NEW u, NEW a, NEW copy, NEW todo,
           Begin(r, u, a, copy, todo), Shape(todo), Follow(todo),
           todo[1].call \in {"create", "get", "save", "updateClient", "deleteClient", "audit",
                             "transition", "select"},
           todo[1].call = "create" => Clean(copy),
           todo[1].call = "get" => apps[a].status = "pending_review",
           todo[1].call \in {"save", "updateClient"} => SaveOK(apps, outbox, prov, a, copy),
           todo[1].call = "transition" => ~At(todo, 2, SaveCall),
           ~At(todo, 2, CallTo("enqueue", "-", "-")), ~At(todo, 2, EnqueueDraft),
           (\E i \in DOMAIN todo : todo[i].call = "delete") => apps[a].status \in Deletable
    PROVE  SeqInv'
  <1> DEFINE q == [actor |-> u, id |-> a, copy |-> copy, todo |-> todo]
  <1>1. req' = [req EXCEPT ![r] = q] /\ UNCHANGED <<apps, outbox, prov>>
    BY DEF Begin
  <1>2. q.id = a /\ q.copy = copy /\ q.todo = todo
    OBVIOUS
  <1> HIDE DEF q
  <1>3. todo[1] # EnqueueDraft
    BY FixedCalls
  <1>4. HandlerSeq(apps, outbox, prov, q)
    BY <1>2, <1>3 DEF HandlerSeq
  <1>5. SeqMoved(apps', outbox', prov', r)
    BY <1>1, <1>4 DEF SeqMoved
  <1> QED BY <1>1, <1>5, SeqFinish DEF SeqInv

LEMMA OpensSeq ==
    ASSUME TypeOK, SeqInv, Sequential, NEW r \in Requests, NEW u, NEW a, NEW copy, NEW todo,
           Begin(r, u, a, copy, todo), Shape(todo), Follow(todo), NEW F, NEW S,
           Opens(todo, F, S),
           F \subseteq {"create", "get", "save", "updateClient", "deleteClient", "audit",
                        "transition", "select"},
           S \subseteq {"transition", "select", "audit", "save"},
           "transition" \in F => "save" \notin S,
           "create" \in F => Clean(copy),
           "get" \in F => apps[a].status = "pending_review",
           "save" \in F \/ "updateClient" \in F => SaveOK(apps, outbox, prov, a, copy)
    PROVE  SeqInv'
  <1>1. /\ todo[1].call \in F /\ (2 \in DOMAIN todo => todo[2].call \in S)
        /\ ~\E i \in DOMAIN todo : todo[i].call = "delete"
    BY DEF Opens
  <1>2. ~At(todo, 2, CallTo("enqueue", "-", "-")) /\ ~At(todo, 2, EnqueueDraft)
    BY <1>1, FixedCalls DEF At
  <1>3. todo[1].call = "transition" => ~At(todo, 2, SaveCall)
    BY <1>1, FixedCalls DEF At
  <1> QED BY <1>1, <1>2, <1>3, BeginSeq

LEMMA StartSeq ==
    ASSUME TypeOK, SeqInv, Sequential, NEW r \in Requests, Start(r)
    PROVE  SeqInv'
  <1>1. \A a \in Apps : apps[a] \in Row /\ Clean(apps[a])
    BY DEF TypeOK, SeqInv, RowsSeq
  <1>2. CASE CreateDraft(r)
    <2>1. PICK u \in Users, a \in Apps, p \in Profiles :
             Begin(r, u, a, [NoRow("draft") EXCEPT !.owner = u, !.profile = p], CreateCalls)
      BY <1>2 DEF CreateDraft, CreateCalls
    <2>2. Clean([NoRow("draft") EXCEPT !.owner = u, !.profile = p])
      BY DEF Clean, NoRow
    <2> QED BY <2>1, <2>2, CreateShape, CreateFollow, Openings, OpensSeq
  <1>3. CASE UpdateDraft(r)
    <2>1. PICK a \in Apps, p \in Profiles :
             /\ apps[a].status \in editableApplicationStatus
             /\ Begin(r, apps[a].owner, a, editedRow(apps[a], p), editCalls(apps[a].status))
      BY <1>3 DEF UpdateDraft
    <2>2. SaveOK(apps, outbox, prov, a, editedRow(apps[a], p))
      BY <1>1, <2>1 DEF SaveOK, Clean, editedRow, editableApplicationStatus, Row
    <2>3. /\ Shape(editCalls(apps[a].status)) /\ Follow(editCalls(apps[a].status))
          /\ Opens(editCalls(apps[a].status), {"save", "updateClient"}, {"save", "audit"})
      BY EditShape, EditFollow, Openings
    <2> QED BY <2>1, <2>2, <2>3, OpensSeq
  <1>4. CASE Submit(r)
    <2>1. PICK a \in Apps :
             Begin(r, apps[a].owner, a, NoRow("absent"), submitCalls(apps[a].status))
      BY <1>4 DEF Submit
    <2>2. /\ Shape(submitCalls(apps[a].status)) /\ Follow(submitCalls(apps[a].status))
          /\ Opens(submitCalls(apps[a].status), {"transition", "select"},
                   {"transition", "select", "audit"})
      BY SubmitShape, SubmitFollow, Openings
    <2> QED BY <2>1, <2>2, OpensSeq
  <1>5. CASE ViewSecret(r)
    BY <1>5, ViewShape, ViewFollow, Openings, OpensSeq DEF ViewSecret
  <1>6. CASE RotateSecret(r)
    <2>1. PICK a \in Apps :
             /\ apps[a].status = "approved"
             /\ Begin(r, apps[a].owner, a, rotatedRow(apps[a], a, secrets + 1), rotateCalls)
      BY <1>6 DEF RotateSecret
    <2>2. SaveOK(apps, outbox, prov, a, rotatedRow(apps[a], a, secrets + 1))
      BY <1>1, <2>1 DEF SaveOK, Clean, rotatedRow, Row
    <2> QED BY <2>1, <2>2, EditShape, EditFollow, Openings, OpensSeq
  <1>7. CASE Revoke(r)
    BY <1>7, RevokeShape, RevokeFollow, Openings, OpensSeq DEF Revoke
  <1>8. CASE Delete(r)
    <2>1. PICK a \in Apps :
             /\ apps[a].status \in Deletable
             /\ Begin(r, apps[a].owner, a, [NoRow("absent") EXCEPT !.client = apps[a].client],
                      deleteCalls(apps[a].status))
      BY <1>8 DEF Delete
    <2>2. PICK todo : todo = deleteCalls(apps[a].status)
      OBVIOUS
    <2>3. /\ todo[1].call \in {"deleteClient", "audit"}
          /\ 2 \in DOMAIN todo => todo[2].call \in {"audit", "delete"}
      BY <2>2, DeleteCallsAre DEF Deletion, AuditCall, CallTo
    <2>4. /\ ~At(todo, 2, CallTo("enqueue", "-", "-")) /\ ~At(todo, 2, EnqueueDraft)
      BY <2>3, FixedCalls DEF At
    <2>5. Shape(todo) /\ Follow(todo)
      BY <2>2, DeleteShape, DeleteFollow
    <2> QED BY <2>1, <2>2, <2>3, <2>4, <2>5, BeginSeq
  <1>9. ASSUME NEW todo, Shape(todo), Follow(todo), Opens(todo, {"get"}, {"transition"}),
               prepareReview(r, todo)
        PROVE  SeqInv'
    BY <1>9, OpensSeq DEF prepareReview
  <1>10. CASE Approve(r)
    BY <1>9, <1>10, DecisionShape, DecisionFollow, Openings DEF Approve
  <1>11. CASE Reject(r) \/ RequestChanges(r)
    BY <1>9, <1>11, DecisionShape, DecisionFollow, Openings DEF Reject, RequestChanges, decide
  <1> QED BY <1>2, <1>3, <1>4, <1>5, <1>6, <1>7, <1>8, <1>10, <1>11 DEF Start

LEMMA CallFailsSeq ==
    ASSUME TypeOK, ReviewInv, SeqInv, Sequential, NEW r \in Requests, CallFails(r)
    PROVE  SeqInv'
  <1> DEFINE t == req[r].todo
  <1>1. UNCHANGED <<apps, outbox, prov>> /\ InFlight(r) /\ OnError(r) /\ "fail" \in FaultKinds
    BY DEF CallFails, Fault
  <1>2. HandlerOK(apps, audit, req[r]) /\ HandlerSeq(apps, outbox, prov, req[r])
    BY <1>1 DEF ReviewInv, HandlersOK, InFlight, SeqInv
  <1>3. Head(t) = t[1] /\ 1 \in DOMAIN t
    BY <1>1, <1>2, HeadFacts
  <1>4. CASE Head(t) # EnqueueDraft
    BY <1>1, <1>4, OnErrorSeq, SeqFinish DEF SeqInv
  <1>5. CASE Head(t) = EnqueueDraft
    <2> DEFINE q == [req[r] EXCEPT !.todo = <<SaveCall>>]
    <2>1. req' = [req EXCEPT ![r] = q]
      BY <1>1, <1>5 DEF OnError, EnqueueDraft
    <2>2. q.id = req[r].id /\ q.copy = req[r].copy /\ q.todo = <<SaveCall>>
      BY DEF TypeOK, Request
    <2> HIDE DEF q
    <2>3. t[1] = EnqueueDraft /\ t[1].call = "enqueue"
      BY <1>3, <1>5, FixedCalls
    <2>4. ~RequireReview
      BY <1>2, <1>3, <2>3 DEF HandlerSeq, Shape
    <2>5. SaveOK(apps, outbox, prov, q.id, q.copy)
      BY <1>1, <1>2, <2>2, <2>3, <2>4 DEF HandlerSeq, SaveOK, Rollbacks
    <2>6. q.todo[1].call = "save" /\ q.todo[1] # EnqueueDraft /\ 2 \notin DOMAIN q.todo
          /\ \A i \in DOMAIN q.todo : q.todo[i].call # "delete"
      BY <2>2, FixedCalls
    <2>7. HandlerSeq(apps, outbox, prov, q)
      BY <2>2, <2>5, <2>6, RollbackShape, RollbackFollow DEF HandlerSeq, At
    <2>8. SeqMoved(apps', outbox', prov', r)
      BY <1>1, <2>1, <2>7 DEF SeqMoved
    <2> QED BY <1>1, <2>8, SeqFinish DEF SeqInv
  <1> QED BY <1>4, <1>5

-----------------------------------------------------------------------------
(* The worker, the clock and restarts. *)

(* What the worker does leaves the handler alone: it only touches the         *)
(* application whose event it has claimed, and the handler's next steps count *)
(* on an application in provisioning only while it has no event.              *)
LEMMA HandlerSeqKept ==
    ASSUME NEW A, NEW B, NEW O, NEW P, NEW p, NEW s, NEW q, HandlerSeq(A, O, p, q),
           Quiet(O, p, q.id) => Quiet(P, s, q.id),
           \/ B[q.id].status = A[q.id].status
           \/ A[q.id].status = "provisioning" /\ ~Quiet(O, p, q.id)
    PROVE  HandlerSeq(B, P, s, q)
  <1>1. CASE B[q.id].status = A[q.id].status
    <2>1. SaveOK(A, O, p, q.id, q.copy) => SaveOK(B, P, s, q.id, q.copy)
      BY <1>1 DEF SaveOK
    <2> QED BY <1>1, <2>1 DEF HandlerSeq
  <1>2. CASE A[q.id].status = "provisioning" /\ ~Quiet(O, p, q.id)
    <2>1. ~SaveOK(A, O, p, q.id, q.copy)
      BY <1>2 DEF SaveOK
    <2>2. A[q.id].status \notin Deletable
      BY <1>2 DEF Deletable
    <2> QED BY <1>2, <2>1, <2>2 DEF HandlerSeq
  <1> QED BY <1>1, <1>2

LEMMA WorkerFinish ==
    ASSUME TypeOK, SeqInv, req' = req,
           \A a \in Apps : Quiet(outbox, prov, a) => Quiet(outbox', prov', a),
           \A a \in Apps : \/ apps'[a].status = apps[a].status
                           \/ apps[a].status = "provisioning" /\ prov.id = a,
           RowsSeq(apps', outbox'), ProvSeq(apps', prov')
    PROVE  SeqInv'
  <1> SUFFICES ASSUME NEW r \in Requests, req[r].todo # <<>>
               PROVE  HandlerSeq(apps', outbox', prov', req[r])
    BY DEF SeqInv
  <1>1. req[r].id \in Apps /\ HandlerSeq(apps, outbox, prov, req[r])
    BY DEF TypeOK, SeqInv
  <1>2. prov.id = req[r].id => ~Quiet(outbox, prov, req[r].id)
    BY DEF Quiet
  <1> QED BY <1>1, <1>2, HandlerSeqKept

LEMMA WorkerSeq ==
    ASSUME TypeOK, SeqInv, RunOnce \/ WorkerCallFails
    PROVE  SeqInv' /\ OneRowMoves
  <1>1. /\ apps \in [Apps -> Row] /\ outbox \in [Apps -> OutboxStates]
        /\ prov \in [pc : {"idle", "get", "create", "save", "complete", "audit", "retry",
                           "drop"}, id : Apps \cup {None}, copy : Row]
        /\ prov.pc # "idle" => prov.id \in Apps
        /\ None \notin Apps
    BY Assumptions DEF TypeOK
  <1>2. RowsSeq(apps, outbox) /\ ProvSeq(apps, prov)
    BY DEF SeqInv
  <1>3. ProvIdle.id = None
    BY DEF ProvIdle
  <1>4. ProvSeq(apps, ProvIdle)
    BY <1>1, <1>3 DEF ProvSeq
  <1>5. \A pc : pc \notin {"create", "save"} => ProvSeq(apps, [prov EXCEPT !.pc = pc])
    BY <1>1, <1>2 DEF ProvSeq
  <1>6. req' = req
    BY DEF RunOnce, GetApplication, CreateClient, SaveApproved, Complete, AuditProvisioned,
           Retry, WorkerCallFails
  <1>7. ASSUME NEW p, prov' = p, ProvSeq(apps, p), p.id \in {prov.id, None},
               UNCHANGED apps, RowsSeq(apps', outbox'),
               \A a \in Apps : a # prov.id => outbox'[a] = outbox[a]
        PROVE  SeqInv' /\ OneRowMoves
    <2>1. \A a \in Apps : Quiet(outbox, prov, a) => Quiet(outbox', prov', a)
      BY <1>1, <1>7 DEF Quiet
    <2> QED BY <1>6, <1>7, <2>1, WorkerFinish DEF OneRowMoves
  <1>8. /\ \A pc : [prov EXCEPT !.pc = pc].id = prov.id
        /\ \A pc, c : /\ [prov EXCEPT !.pc = pc, !.copy = c].id = prov.id
                      /\ [prov EXCEPT !.pc = pc, !.copy = c].pc = pc
                      /\ [prov EXCEPT !.pc = pc, !.copy = c].copy = c
    BY <1>1
  <1>9. \A row \in Row : \A a, cr : WithCredentials(row, a, cr).status = "approved"
    BY DEF WithCredentials, Row
  <1>10. CASE GetApplication
    <2> DEFINE a == prov.id
    <2>1. a \in Apps /\ apps' = apps /\ outbox' = outbox
      BY <1>1, <1>10 DEF GetApplication, Worker
    <2>2. \/ prov' = [prov EXCEPT !.pc = "retry"]
          \/ prov' = [prov EXCEPT !.pc = "drop"]
          \/ /\ apps[a].status = "provisioning"
             /\ \/ prov' = [prov EXCEPT !.pc = "create", !.copy = apps[a]]
                \/ prov' = [prov EXCEPT !.pc = "save",
                                        !.copy = WithCredentials(apps[a], a, cred[a])]
      BY <1>10 DEF GetApplication, Goto, keptCredentials, provisionable
    <2>3. CASE prov' = [prov EXCEPT !.pc = "retry"] \/ prov' = [prov EXCEPT !.pc = "drop"]
      BY <1>2, <1>5, <1>7, <1>8, <2>1, <2>3
    <2>4. CASE /\ apps[a].status = "provisioning"
               /\ prov' = [prov EXCEPT !.pc = "create", !.copy = apps[a]]
      <3>1. ProvSeq(apps, prov')
        BY <1>2, <1>8, <2>4 DEF ProvSeq, Provisioned
      <3>2. prov'.id = prov.id
        BY <1>8, <2>4
      <3> QED BY <1>2, <1>7, <2>1, <3>1, <3>2
    <2>5. CASE /\ apps[a].status = "provisioning"
               /\ prov' = [prov EXCEPT !.pc = "save",
                                       !.copy = WithCredentials(apps[a], a, cred[a])]
      <3>1. WithCredentials(apps[a], a, cred[a]).status = "approved"
        BY <1>1, <1>9, <2>1
      <3>2. ProvSeq(apps, prov')
        BY <1>2, <1>8, <2>5, <3>1 DEF ProvSeq, Provisioned
      <3>3. prov'.id = prov.id
        BY <1>8, <2>5
      <3> QED BY <1>2, <1>7, <2>1, <3>2, <3>3
    <2> QED BY <2>2, <2>3, <2>4, <2>5
  <1>11. CASE CreateClient
    <2> DEFINE a == prov.id
    <2>1. a \in Apps /\ prov.pc = "create" /\ apps' = apps /\ outbox' = outbox
      BY <1>1, <1>11 DEF CreateClient, Worker
    <2>2. \/ prov' = [prov EXCEPT !.pc = "retry"]
          \/ \E cr : prov' = [prov EXCEPT !.pc = "save",
                                          !.copy = WithCredentials(prov.copy, a, cr)]
      BY <1>11 DEF CreateClient, Goto
    <2>3. CASE prov' = [prov EXCEPT !.pc = "retry"]
      BY <1>2, <1>5, <1>7, <1>8, <2>1, <2>3
    <2>4. ASSUME NEW cr, prov' = [prov EXCEPT !.pc = "save",
                                             !.copy = WithCredentials(prov.copy, a, cr)]
          PROVE  SeqInv' /\ OneRowMoves
      <3>1. WithCredentials(prov.copy, a, cr).status = "approved"
        BY <1>1, <1>9
      <3>2. apps[a].status = "provisioning"
        BY <1>2, <2>1 DEF ProvSeq
      <3>3. ProvSeq(apps, prov')
        BY <1>8, <2>4, <3>1, <3>2 DEF ProvSeq, Provisioned
      <3>4. prov'.id = prov.id
        BY <1>8, <2>4
      <3> QED BY <1>2, <1>7, <2>1, <3>3, <3>4
    <2> QED BY <2>2, <2>3, <2>4
  <1>12. CASE SaveApproved
    <2> DEFINE a == prov.id
    <2>1. /\ a \in Apps /\ outbox' = outbox
          /\ apps[a].status = "provisioning" /\ prov.copy.status = "approved"
      BY <1>1, <1>2, <1>12 DEF SaveApproved, Worker, ProvSeq
    <2>2. /\ prov' = [prov EXCEPT !.pc = "retry"] \/ prov' = [prov EXCEPT !.pc = "complete"]
          /\ apps' = apps \/ apps' = [apps EXCEPT ![a] = prov.copy]
      BY <1>12 DEF SaveApproved, Goto
    <2>3. prov'.id = a /\ prov'.pc \notin {"create", "save"} /\ ProvSeq(apps, prov')
      BY <1>1, <1>5, <1>8, <2>2
    <2>4. CASE apps' = apps
      BY <1>2, <1>7, <2>1, <2>3, <2>4
    <2>5. CASE apps' = [apps EXCEPT ![a] = prov.copy]
      <3>1. apps'[a] = prov.copy /\ \A b \in Apps : b # a => apps'[b] = apps[b]
        BY <1>1, <2>1, <2>5
      <3>2. RowsSeq(apps', outbox')
        BY <1>2, <2>1, <3>1 DEF RowsSeq, Clean, Provisioned
      <3>3. ProvSeq(apps', prov')
        BY <2>1, <2>3, <3>1 DEF ProvSeq, Provisioned
      <3>4. \A b \in Apps : Quiet(outbox, prov, b) => Quiet(outbox', prov', b)
        BY <2>1, <2>3 DEF Quiet
      <3>5. \A b \in Apps : \/ apps'[b].status = apps[b].status
                            \/ apps[b].status = "provisioning" /\ prov.id = b
        BY <2>1, <3>1
      <3>6. SeqInv'
        BY <1>6, <3>2, <3>3, <3>4, <3>5, WorkerFinish
      <3>7. Moves(apps[a].status, prov.copy.status)
        BY <2>1 DEF Moves, validTransition
      <3> QED BY <2>1, <2>5, <3>6, <3>7, OneRowMoved
    <2> QED BY <2>2, <2>4, <2>5
  <1>13. CASE Complete \/ AuditProvisioned \/ Retry
    <2>1. /\ apps' = apps
          /\ prov' = ProvIdle \/ prov' = [prov EXCEPT !.pc = "audit"]
          /\ outbox' = outbox
             \/ (/\ prov.id \in Apps
                 /\ \E st : outbox' = [outbox EXCEPT ![prov.id] = IF @ = "none" THEN @ ELSE st])
             \/ (/\ prov.id \in Apps
                 /\ outbox' = [outbox EXCEPT ![prov.id] =
                                  IF @ \in {"none", "done"} THEN @ ELSE "waiting"])
      BY <1>1, <1>13 DEF Complete, AuditProvisioned, Retry, Worker
    <2>2. \A a \in Apps : /\ outbox'[a] # "none" => outbox[a] # "none"
                          /\ a # prov.id => outbox'[a] = outbox[a]
      BY <1>1, <2>1
    <2>3. RowsSeq(apps', outbox')
      BY <1>2, <2>1, <2>2 DEF RowsSeq
    <2>4. ProvSeq(apps, prov') /\ prov'.id \in {prov.id, None}
      <3>1. CASE prov' = ProvIdle
        BY <1>3, <1>4, <3>1
      <3>2. CASE prov' = [prov EXCEPT !.pc = "audit"]
        <4>1. ProvSeq(apps, [prov EXCEPT !.pc = "audit"])
          BY <1>5
        <4> QED BY <1>8, <3>2, <4>1
      <3> QED BY <2>1, <3>1, <3>2
    <2> QED BY <1>7, <2>1, <2>2, <2>3, <2>4
  <1>14. CASE WorkerCallFails
    <2>1. UNCHANGED <<apps, outbox>>
          /\ (prov' = ProvIdle \/ prov' = [prov EXCEPT !.pc = "retry"])
      BY <1>14 DEF WorkerCallFails, afterFailure
    <2> QED BY <1>2, <1>3, <1>4, <1>5, <1>7, <1>8, <2>1
  <1> QED BY <1>10, <1>11, <1>12, <1>13, <1>14 DEF RunOnce

LEMMA NextSeq ==
    ASSUME TypeOK, ReviewInv, SeqInv, Sequential, NoLateRollback, [Next]_vars
    PROVE  SeqInv' /\ OneRowMoves
  <1>1. ASSUME NEW r \in Requests, Start(r) PROVE SeqInv' /\ OneRowMoves
    <2>1. apps' = apps
      BY <1>1 DEF Start, CreateDraft, UpdateDraft, Submit, ViewSecret, RotateSecret, Revoke,
                  Delete, Approve, Reject, RequestChanges, decide, prepareReview, Begin
    <2> QED BY <1>1, <2>1, StartSeq DEF OneRowMoves
  <1>2. ASSUME NEW r \in Requests, Step(r) PROVE SeqInv' /\ OneRowMoves
    BY <1>2, StepSeq
  <1>3. ASSUME NEW r \in Requests, CallFails(r) PROVE SeqInv' /\ OneRowMoves
    BY <1>3, CallFailsSeq DEF CallFails, OneRowMoves
  <1>4. ASSUME NEW a \in Apps, outbox[a] # "none", UNCHANGED <<apps, req>>,
               NEW st, outbox' = [outbox EXCEPT ![a] = st],
               st # "none", prov' = Claimed(a) \/ prov' = prov
        PROVE  SeqInv' /\ OneRowMoves
    <2>1. apps[a].status \in Provisioned
      BY <1>4 DEF SeqInv, RowsSeq
    <2>2. outbox'[a] = st /\ \A b \in Apps : b # a => outbox'[b] = outbox[b]
      BY <1>4 DEF TypeOK
    <2>3. RowsSeq(apps', outbox')
      BY <1>4, <2>1, <2>2 DEF SeqInv, RowsSeq
    <2>4. Claimed(a).id = a /\ Claimed(a).pc = "get"
      BY DEF Claimed, ProvIdle
    <2>5. ProvSeq(apps', prov')
      BY <1>4, <2>1, <2>4 DEF SeqInv, ProvSeq
    <2>6. \A b \in Apps : Quiet(outbox, prov, b) => Quiet(outbox', prov', b)
      BY <1>4, <2>2, <2>4 DEF Quiet
    <2> QED BY <1>4, <2>3, <2>5, <2>6, WorkerFinish DEF OneRowMoves
  <1>5. ASSUME NEW a \in Apps, ClaimNext(a) PROVE SeqInv' /\ OneRowMoves
    BY <1>4, <1>5 DEF ClaimNext
  <1>6. ASSUME NEW a \in Apps, RetryDelayPasses(a) \/ ClaimTimesOut(a)
        PROVE  SeqInv' /\ OneRowMoves
    BY <1>4, <1>6 DEF RetryDelayPasses, ClaimTimesOut
  <1>7. CASE RunOnce \/ WorkerCallFails
    BY <1>7, WorkerSeq
  <1>8. CASE Crash
    <2>1. UNCHANGED <<apps, outbox>> /\ prov' = ProvIdle /\ req' = [r \in Requests |-> Idle]
      BY <1>8 DEF Crash
    <2>2. \A r \in Requests : req'[r].todo = <<>>
      BY <2>1, RowTypes
    <2>3. ProvSeq(apps', prov')
      BY <2>1, Assumptions DEF ProvSeq, ProvIdle
    <2> QED BY <2>1, <2>2, <2>3 DEF SeqInv, OneRowMoves
  <1>9. CASE UNCHANGED vars
    <2>1. UNCHANGED <<apps, outbox, prov, req>>
      BY <1>9 DEF vars
    <2> QED BY <2>1 DEF SeqInv, OneRowMoves
  <1> QED BY <1>1, <1>2, <1>3, <1>5, <1>6, <1>7, <1>8, <1>9 DEF Next

LEMMA SeqSafety ==
    ASSUME Sequential, NoLateRollback
    PROVE  Spec => []SeqInv
  <1>1. Init => SeqInv
    <2> SUFFICES ASSUME Init PROVE SeqInv
      OBVIOUS
    <2>1. \A r \in Requests : req[r].todo = <<>>
      BY RowTypes DEF Init
    <2>2. ProvSeq(apps, prov)
      BY Assumptions DEF Init, ProvSeq, ProvIdle
    <2>3. RowsSeq(apps, outbox)
      BY DEF Init, RowsSeq, Clean, NoRow
    <2> QED BY <2>1, <2>2, <2>3 DEF SeqInv
  <1>2. TypeOK /\ ReviewInv /\ SeqInv /\ [Next]_vars => SeqInv'
    BY NextSeq
  <1> QED BY <1>1, <1>2, TypeCorrect, ReviewSafety, PTL DEF Spec

-----------------------------------------------------------------------------
(* What the worker saves is approved. *)
WorkerApproves == prov.pc = "save" => prov.copy.status = "approved"

LEMMA WorkerSteps ==
    ASSUME TypeOK, WorkerApproves, RunOnce \/ WorkerCallFails
    PROVE  /\ req' = req /\ WorkerApproves'
           /\ \/ apps' = apps
              \/ /\ prov.id \in Apps /\ prov.copy.status = "approved"
                 /\ apps' = [apps EXCEPT ![prov.id] = prov.copy]
  <1>1. /\ prov \in [pc : {"idle", "get", "create", "save", "complete", "audit", "retry",
                           "drop"}, id : Apps \cup {None}, copy : Row]
        /\ apps \in [Apps -> Row]
        /\ ProvIdle.pc = "idle"
    BY DEF TypeOK, ProvIdle
  <1>2. \A row \in Row : \A a, cr : WithCredentials(row, a, cr).status = "approved"
    BY DEF WithCredentials, Row
  <1>3. req' = req
    BY DEF RunOnce, GetApplication, CreateClient, SaveApproved, Complete, AuditProvisioned,
           Retry, WorkerCallFails
  <1>4. ASSUME apps' # apps
        PROVE  /\ prov.pc = "save" /\ prov.id \in Apps
               /\ apps' = [apps EXCEPT ![prov.id] = prov.copy]
    BY <1>4 DEF RunOnce, GetApplication, CreateClient, SaveApproved, Complete,
       AuditProvisioned, Retry, WorkerCallFails, Worker, TypeOK
  <1>5. prov'.pc = "save" => prov'.copy.status = "approved"
    <2>1. CASE \E pc : pc # "save" /\ prov' = [prov EXCEPT !.pc = pc]
      BY <1>1, <2>1
    <2>2. CASE prov' = ProvIdle
      BY <1>1, <2>2
    <2>3. CASE prov' = [prov EXCEPT !.pc = "create", !.copy = apps[prov.id]]
      BY <1>1, <2>3
    <2>4. ASSUME NEW row \in Row, NEW cr,
                 prov' = [prov EXCEPT !.pc = "save",
                                      !.copy = WithCredentials(row, prov.id, cr)]
          PROVE  prov'.copy.status = "approved"
      <3>1. PICK c : c = WithCredentials(row, prov.id, cr)
        OBVIOUS
      <3>2. prov'.copy = c
        BY <1>1, <2>4, <3>1
      <3> QED BY <1>2, <3>1, <3>2
    <2>5. CASE GetApplication
      <3>1. apps[prov.id] \in Row
        BY <1>1, <2>5 DEF GetApplication, Worker, TypeOK
      <3> QED BY <2>1, <2>3, <2>4, <2>5, <3>1 DEF GetApplication, Goto
    <2>6. CASE CreateClient
      <3>1. prov.copy \in Row
        BY <1>1
      <3> QED BY <2>1, <2>4, <2>6, <3>1 DEF CreateClient, Goto
    <2>7. CASE SaveApproved \/ Complete \/ AuditProvisioned \/ Retry \/ WorkerCallFails
      BY <2>1, <2>2, <2>7 DEF SaveApproved, Complete, AuditProvisioned, Retry, WorkerCallFails,
         afterFailure, Goto
    <2> QED BY <2>5, <2>6, <2>7 DEF RunOnce
  <1> QED BY <1>3, <1>4, <1>5 DEF WorkerApproves

(* Without reviews no handler changes the status of a copy it has read, so    *)
(* neither overlapping requests nor a late rollback separate credentials from *)
(* the approval.                                                              *)

Plain(row) == Clean(row) /\ row.status # "pending_review"

(* No review is among the calls, and nothing is submitted to one. *)
Unreviewed(t) ==
    \A i \in DOMAIN t :
        t[i].call # "get" /\ ~(t[i].call = "transition" /\ t[i].post = "pending_review")

(* The copy is never written: no call saves it, nor does a rollback. *)
Unsaved(t) ==
    \A i \in DOMAIN t : t[i].call \notin {"create", "save"} /\ t[i] # EnqueueDraft

HandlerSelf(q) == Unreviewed(q.todo) /\ (Plain(q.copy) \/ Unsaved(q.todo))

SelfInv ==
    /\ \A a \in Apps : Plain(apps[a])
    /\ WorkerApproves
    /\ \A r \in Requests : req[r].todo # <<>> => HandlerSelf(req[r])

LEMMA PlainRows == \A s : s \notin {"pending_review", "approved", "revoked"} => Plain(NoRow(s))
  BY DEF Plain, Clean, NoRow

LEMMA SelfCalls ==
    ASSUME ~RequireReview
    PROVE  /\ Unreviewed(CreateCalls)
           /\ \A s : Unreviewed(editCalls(s))
           /\ Unreviewed(rotateCalls)
           /\ \A s \in {"draft", "changes_requested", "rejected"} : Unreviewed(submitCalls(s))
           /\ Unreviewed(<<AuditCall("application.secret_viewed")>>)
           /\ LET t == <<CallTo("deleteClient", "-", "-"), TransitionCall("approved", "revoked"),
                         AuditCall("application.revoked")>>
              IN  Unreviewed(t) /\ Unsaved(t)
           /\ \A s : Unreviewed(deleteCalls(s)) /\ Unsaved(deleteCalls(s))
           /\ Unreviewed(<<SaveCall>>)
  <1>1. Unreviewed(CreateCalls)
    BY CreateCallsAre DEF Unreviewed, CallTo, TransitionCall, AuditCall
  <1>2. (\A s : Unreviewed(editCalls(s))) /\ Unreviewed(rotateCalls)
    BY DEF editCalls, rotateCalls, Unreviewed, CallTo, TransitionCall, AuditCall, SaveCall
  <1>3. ASSUME NEW s \in {"draft", "changes_requested", "rejected"}
        PROVE  Unreviewed(submitCalls(s))
    <2>1. CASE s = "draft"
      BY <2>1, SubmitCallsAre DEF startProvisioning, Unreviewed, CallTo, TransitionCall, AuditCall
    <2>2. CASE s # "draft"
      BY <2>2, SubmitCallsAre DEF Unreviewed, CallTo, TransitionCall, AuditCall
    <2> QED BY <2>1, <2>2
  <1>4. Unreviewed(<<AuditCall("application.secret_viewed")>>) /\ Unreviewed(<<SaveCall>>)
    BY DEF Unreviewed, CallTo, AuditCall, SaveCall
  <1>5. LET t == <<CallTo("deleteClient", "-", "-"), TransitionCall("approved", "revoked"),
                   AuditCall("application.revoked")>>
        IN  Unreviewed(t) /\ Unsaved(t)
    BY DEF Unreviewed, Unsaved, EnqueueDraft, CallTo, TransitionCall, AuditCall
  <1>6. ASSUME NEW s PROVE Unreviewed(deleteCalls(s)) /\ Unsaved(deleteCalls(s))
    BY DeleteCallsAre DEF Deletion, Unreviewed, Unsaved, EnqueueDraft, CallTo, AuditCall
  <1> QED BY <1>1, <1>2, <1>3, <1>4, <1>5, <1>6

LEMMA StartSelf ==
    ASSUME TypeOK, SelfInv, ~RequireReview, NEW r \in Requests, Start(r)
    PROVE  SelfInv'
  <1>1. \A a \in Apps : apps[a] \in Row /\ Plain(apps[a])
    BY DEF TypeOK, SelfInv
  <1>2. ASSUME NEW u, NEW a, NEW copy, NEW todo, Begin(r, u, a, copy, todo),
               Unreviewed(todo), Plain(copy) \/ Unsaved(todo)
        PROVE  SelfInv'
    <2> DEFINE q == [actor |-> u, id |-> a, copy |-> copy, todo |-> todo]
    <2>1. req' = [req EXCEPT ![r] = q] /\ UNCHANGED <<apps, prov>>
      BY <1>2 DEF Begin
    <2>2. HandlerSelf(q)
      BY <1>2 DEF HandlerSelf
    <2> HIDE DEF q
    <2>3. req'[r] = q /\ \A s \in Requests : s # r => req'[s] = req[s]
      BY <2>1 DEF TypeOK
    <2> QED BY <2>1, <2>2, <2>3 DEF SelfInv, WorkerApproves
  <1>3. CASE CreateDraft(r)
    <2>1. PICK u \in Users, a \in Apps, p \in Profiles :
             Begin(r, u, a, [NoRow("draft") EXCEPT !.owner = u, !.profile = p], CreateCalls)
      BY <1>3 DEF CreateDraft, CreateCalls
    <2>2. Plain([NoRow("draft") EXCEPT !.owner = u, !.profile = p])
      BY DEF Plain, Clean, NoRow
    <2> QED BY <1>2, <2>1, <2>2, SelfCalls
  <1>4. CASE UpdateDraft(r)
    <2>1. PICK a \in Apps, p \in Profiles :
             /\ apps[a].status \in editableApplicationStatus
             /\ Begin(r, apps[a].owner, a, editedRow(apps[a], p), editCalls(apps[a].status))
      BY <1>4 DEF UpdateDraft
    <2>2. Plain(editedRow(apps[a], p))
      BY <1>1, <2>1 DEF Plain, Clean, editedRow, editableApplicationStatus, Row
    <2> QED BY <1>2, <2>1, <2>2, SelfCalls
  <1>5. CASE Submit(r)
    <2>1. PICK a \in Apps :
             /\ apps[a].status \in {"draft", "changes_requested", "rejected"}
             /\ Begin(r, apps[a].owner, a, NoRow("absent"), submitCalls(apps[a].status))
      BY <1>5 DEF Submit
    <2> QED BY <1>2, <2>1, SelfCalls, PlainRows
  <1>6. CASE ViewSecret(r)
    BY <1>2, <1>6, SelfCalls, PlainRows DEF ViewSecret
  <1>7. CASE RotateSecret(r)
    <2>1. PICK a \in Apps :
             /\ apps[a].status = "approved"
             /\ Begin(r, apps[a].owner, a, rotatedRow(apps[a], a, secrets + 1), rotateCalls)
      BY <1>7 DEF RotateSecret
    <2>2. Plain(rotatedRow(apps[a], a, secrets + 1))
      BY <1>1, <2>1 DEF Plain, Clean, rotatedRow, Row
    <2> QED BY <1>2, <2>1, <2>2, SelfCalls
  <1>8. CASE Revoke(r)
    BY <1>2, <1>8, SelfCalls DEF Revoke
  <1>9. CASE Delete(r)
    BY <1>2, <1>9, SelfCalls DEF Delete
  <1>10. CASE Approve(r) \/ Reject(r) \/ RequestChanges(r)
    BY <1>1, <1>10 DEF Approve, Reject, RequestChanges, decide, prepareReview, Plain
  <1> QED BY <1>3, <1>4, <1>5, <1>6, <1>7, <1>8, <1>9, <1>10 DEF Start

(* A handler goes on, with its copy or one that may be saved. *)
LEMMA MovesSelf ==
    ASSUME TypeOK, SelfInv, ~RequireReview, NEW r \in Requests, InFlight(r),
           (\E c : (c = req[r].copy \/ Plain(c)) /\ (Advance(r, c) \/ Reply(r, c))) \/ OnError(r)
    PROVE  \A s \in Requests : req'[s].todo # <<>> => HandlerSelf(req'[s])
  <1> DEFINE t == req[r].todo
  <1>1. t \in Seq(Calls) /\ t # <<>> /\ req[r] \in Request /\ HandlerSelf(req[r])
    BY DEF TypeOK, InFlight, Request, SelfInv
  <1>2. Idle.todo = <<>> /\ req \in [Requests -> Request]
    BY DEF Idle, TypeOK
  <1>3. ASSUME NEW q, req' = [req EXCEPT ![r] = q], q.todo # <<>> => HandlerSelf(q)
        PROVE  \A s \in Requests : req'[s].todo # <<>> => HandlerSelf(req'[s])
    <2>1. req'[r] = q /\ \A s \in Requests : s # r => req'[s] = req[s]
      BY <1>2, <1>3
    <2> QED BY <1>3, <2>1 DEF SelfInv
  <1>4. ASSUME NEW c, c = req[r].copy \/ Plain(c), Advance(r, c)
        PROVE  \A s \in Requests : req'[s].todo # <<>> => HandlerSelf(req'[s])
    <2>1. CASE Tail(t) = <<>>
      <3>1. req' = [req EXCEPT ![r] = Idle]
        BY <1>4, <2>1 DEF Advance
      <3> QED BY <1>2, <1>3, <3>1
    <2>2. CASE Tail(t) # <<>>
      <3> DEFINE q == [req[r] EXCEPT !.copy = c, !.todo = Tail(t)]
      <3>1. req' = [req EXCEPT ![r] = q]
        BY <1>4, <2>2 DEF Advance
      <3>2. q.copy = c /\ q.todo = Tail(t)
        BY <1>1 DEF Request
      <3> HIDE DEF q
      <3>3. \A i \in DOMAIN Tail(t) : i + 1 \in DOMAIN t /\ Tail(t)[i] = t[i + 1]
        BY <1>1, <2>2, TailFacts
      <3>4. Unreviewed(Tail(t)) /\ (Unsaved(t) => Unsaved(Tail(t)))
        BY <1>1, <3>3 DEF HandlerSelf, Unreviewed, Unsaved
      <3>5. HandlerSelf(q)
        BY <1>1, <1>4, <3>2, <3>4 DEF HandlerSelf
      <3> QED BY <1>3, <3>1, <3>5
    <2> QED BY <2>1, <2>2
  <1>5. ASSUME OnError(r)
        PROVE  \A s \in Requests : req'[s].todo # <<>> => HandlerSelf(req'[s])
    <2>1. CASE Head(t) = EnqueueDraft
      <3> DEFINE q == [req[r] EXCEPT !.todo = <<SaveCall>>]
      <3>1. req' = [req EXCEPT ![r] = q]
        BY <1>5, <2>1 DEF OnError, EnqueueDraft
      <3>2. q.copy = req[r].copy /\ q.todo = <<SaveCall>>
        BY <1>1 DEF Request
      <3> HIDE DEF q
      <3>3. 1 \in DOMAIN t /\ t[1] = EnqueueDraft
        BY <1>1, <2>1, HeadTailProperties, LenProperties, EmptySeq
      <3>4. HandlerSelf(q)
        BY <1>1, <3>2, <3>3, SelfCalls DEF HandlerSelf, Unsaved
      <3> QED BY <1>3, <3>1, <3>4
    <2>2. CASE Head(t) # EnqueueDraft
      <3>1. req' = [req EXCEPT ![r] = Idle]
        BY <1>5, <2>2 DEF OnError, EnqueueDraft
      <3> QED BY <1>2, <1>3, <3>1
    <2> QED BY <2>1, <2>2
  <1> QED BY <1>4, <1>5 DEF Reply

LEMMA StepSelf ==
    ASSUME TypeOK, SelfInv, ~RequireReview, NEW r \in Requests, Step(r) \/ CallFails(r)
    PROVE  SelfInv'
  <1> DEFINE id == req[r].id
  <1> DEFINE t == req[r].todo
  <1>1. InFlight(r) /\ prov' = prov
    BY DEF Step, CallFails, StoreCreate, StoreGet, StoreSelect, StoreTransition, StoreSave,
       StoreEnqueue, StoreAudit, StoreDelete, UpdateClient, DeleteClient, NextCall
  <1>2. /\ t \in Seq(Calls) /\ t # <<>> /\ id \in Apps /\ HandlerSelf(req[r])
        /\ apps \in [Apps -> Row] /\ apps[id] \in Row
    BY <1>1 DEF TypeOK, InFlight, Request, SelfInv
  <1>3. Head(t) = t[1] /\ 1 \in DOMAIN t /\ Head(t) \in Calls
    BY <1>2, HeadTailProperties, LenProperties, EmptySeq
  <1>4. Plain(apps[id]) /\ Plain(NoRow("absent")) /\ Plain(NoRow("deleted"))
    BY <1>2, PlainRows DEF SelfInv
  <1>5. ~StoreGet(r)
    BY <1>2, <1>3 DEF StoreGet, NextCall, HandlerSelf, Unreviewed
  <1>6. \A s \in Requests : req'[s].todo # <<>> => HandlerSelf(req'[s])
    <2>1. (\E c : (c = req[r].copy \/ Plain(c)) /\ (Advance(r, c) \/ Reply(r, c))) \/ OnError(r)
      BY <1>4, <1>5 DEF Step, CallFails, StoreCreate, StoreSelect, StoreTransition, StoreSave,
         StoreEnqueue, StoreAudit, StoreDelete, UpdateClient, DeleteClient, Refused
    <2> QED BY <1>1, <2>1, MovesSelf
  <1>7. \A a \in Apps : Plain(apps'[a])
    <2>1. ASSUME NEW row, Plain(row), apps' = [apps EXCEPT ![id] = row]
          PROVE  \A a \in Apps : Plain(apps'[a])
      <3>1. apps'[id] = row /\ \A a \in Apps : a # id => apps'[a] = apps[a]
        BY <1>2, <2>1
      <3> QED BY <2>1, <3>1 DEF SelfInv
    <2>2. CASE apps' = apps
      BY <2>2 DEF SelfInv
    <2>3. CASE NextCall(r, "create") /\ apps' = [apps EXCEPT ![id] = req[r].copy]
      BY <1>2, <1>3, <2>1, <2>3 DEF NextCall, HandlerSelf, Unsaved
    <2>4. CASE NextCall(r, "save") /\ apps' = [apps EXCEPT ![id] = req[r].copy]
      BY <1>2, <1>3, <2>1, <2>4 DEF NextCall, HandlerSelf, Unsaved
    <2>5. CASE apps' = [apps EXCEPT ![id] = NoRow("deleted")]
      BY <1>4, <2>1, <2>5
    <2>6. CASE /\ NextCall(r, "transition") /\ apps[id].status = Head(t).pre
               /\ apps' = [apps EXCEPT ![id].status = Head(t).post]
      <3>1. PICK row : row = [apps[id] EXCEPT !.status = Head(t).post]
        OBVIOUS
      <3>2. /\ row.status = Head(t).post /\ row.client = apps[id].client
            /\ row.sealed = apps[id].sealed
        BY <1>2, <3>1 DEF Row
      <3>3. /\ Head(t).post # "pending_review" /\ Head(t).pre # "revoked"
            /\ Head(t).pre = "approved" <=> Head(t).post = "revoked"
        <4>1. Head(t).call = "transition"
          BY <2>6 DEF NextCall
        <4>2. Head(t).post # "pending_review"
          BY <1>2, <1>3, <4>1 DEF HandlerSelf, Unreviewed
        <4> QED BY <1>3, <4>1, <4>2, CallNames
      <3>4. Plain(row)
        BY <1>4, <2>6, <3>2, <3>3 DEF Plain, Clean
      <3>5. apps' = [apps EXCEPT ![id] = row]
        BY <2>6, <3>1
      <3> QED BY <2>1, <3>4, <3>5
    <2>7. CASE CallFails(r)
      BY <2>2, <2>7 DEF CallFails
    <2>8. CASE StoreCreate(r) \/ StoreSave(r)
      BY <2>2, <2>3, <2>4, <2>8 DEF StoreCreate, StoreSave, Refused
    <2>9. CASE StoreTransition(r)
      BY <2>2, <2>6, <2>9 DEF StoreTransition, Refused
    <2>10. CASE StoreDelete(r)
      BY <2>2, <2>5, <2>10 DEF StoreDelete, Refused
    <2>11. CASE StoreSelect(r) \/ StoreEnqueue(r) \/ StoreAudit(r) \/ UpdateClient(r)
                \/ DeleteClient(r)
      BY <2>2, <2>11 DEF StoreSelect, StoreEnqueue, StoreAudit, UpdateClient, DeleteClient, Refused
    <2> QED BY <1>5, <2>7, <2>8, <2>9, <2>10, <2>11 DEF Step
  <1> QED BY <1>1, <1>6, <1>7 DEF SelfInv, WorkerApproves

LEMMA SelfSafety ==
    ASSUME ~RequireReview
    PROVE  Spec => []SelfInv
  <1>1. Init => SelfInv
    <2> SUFFICES ASSUME Init PROVE SelfInv
      OBVIOUS
    <2>1. \A r \in Requests : req[r].todo = <<>>
      BY RowTypes DEF Init
    <2>2. prov.pc = "idle"
      BY DEF Init, ProvIdle
    <2>3. \A a \in Apps : Plain(apps[a])
      BY PlainRows DEF Init
    <2> QED BY <2>1, <2>2, <2>3 DEF SelfInv, WorkerApproves
  <1>2. TypeOK /\ SelfInv /\ [Next]_vars => SelfInv'
    <2> SUFFICES ASSUME TypeOK, SelfInv, [Next]_vars PROVE SelfInv'
      OBVIOUS
    <2>1. ASSUME NEW r \in Requests, Start(r) PROVE SelfInv'
      BY <2>1, StartSelf
    <2>2. ASSUME NEW r \in Requests, Step(r) \/ CallFails(r) PROVE SelfInv'
      BY <2>2, StepSelf
    <2>3. ASSUME NEW a \in Apps, ClaimNext(a) \/ RetryDelayPasses(a) \/ ClaimTimesOut(a)
          PROVE  SelfInv'
      <3>1. UNCHANGED <<apps, req>> /\ (prov' = prov \/ prov' = Claimed(a))
        BY <2>3 DEF ClaimNext, RetryDelayPasses, ClaimTimesOut
      <3>2. Claimed(a).pc = "get"
        BY DEF Claimed, ProvIdle
      <3> QED BY <3>1, <3>2 DEF SelfInv, WorkerApproves
    <2>4. CASE RunOnce \/ WorkerCallFails
      <3>1. /\ req' = req /\ WorkerApproves'
            /\ \/ apps' = apps
               \/ /\ prov.id \in Apps /\ prov.copy.status = "approved"
                  /\ apps' = [apps EXCEPT ![prov.id] = prov.copy]
        BY <2>4, WorkerSteps DEF SelfInv
      <3>2. \A a \in Apps : Plain(apps'[a])
        <4>1. CASE apps' = apps
          BY <4>1 DEF SelfInv
        <4>2. CASE /\ prov.id \in Apps /\ prov.copy.status = "approved"
                   /\ apps' = [apps EXCEPT ![prov.id] = prov.copy]
          <5>1. /\ apps'[prov.id] = prov.copy
                /\ \A a \in Apps : a # prov.id => apps'[a] = apps[a]
            BY <4>2 DEF TypeOK
          <5>2. Plain(prov.copy)
            BY <4>2 DEF Plain, Clean
          <5> QED BY <5>1, <5>2 DEF SelfInv
        <4> QED BY <3>1, <4>1, <4>2
      <3> QED BY <3>1, <3>2 DEF SelfInv
    <2>5. CASE Crash
      <3>1. apps' = apps /\ prov'.pc = "idle" /\ \A r \in Requests : req'[r].todo = <<>>
        BY <2>5, RowTypes DEF Crash, ProvIdle
      <3> QED BY <3>1 DEF SelfInv, WorkerApproves
    <2>6. CASE UNCHANGED vars
      <3>1. UNCHANGED <<apps, prov, req>>
        BY <2>6 DEF vars
      <3> QED BY <3>1 DEF SelfInv, WorkerApproves
    <2> QED BY <2>1, <2>2, <2>3, <2>4, <2>5, <2>6 DEF Next
  <1> QED BY <1>1, <1>2, TypeCorrect, PTL DEF Spec

(* No row holds a client or a secret before its application is approved,      *)
(* across failed and lost calls and restarts.  With reviews this is for       *)
(* requests that do not overlap: Approve and decide write a new status into a *)
(* row they read and save it whole, but one read before the worker saved the  *)
(* credentials.  Without reviews it holds for any overlap, also of the        *)
(* rollback of startProvisioning with the event it did enqueue.               *)
THEOREM CredentialsAfterApproval ==
    ASSUME Sequential \/ ~RequireReview
    PROVE  Spec => []NoCredentialsBeforeApproval
  <1>1. CASE ~RequireReview
    <2>1. SelfInv => NoCredentialsBeforeApproval
      BY DEF SelfInv, Plain, Clean, NoCredentialsBeforeApproval
    <2> QED BY <1>1, <2>1, SelfSafety, PTL
  <1>2. CASE Sequential /\ RequireReview
    <2>1. SeqInv => NoCredentialsBeforeApproval
      BY DEF SeqInv, RowsSeq, Clean, NoCredentialsBeforeApproval
    <2>2. NoLateRollback
      BY <1>2 DEF NoLateRollback
    <2> QED BY <1>2, <2>1, <2>2, SeqSafety, PTL
  <1> QED BY <1>1, <1>2

-----------------------------------------------------------------------------
(* While requests do not overlap and startProvisioning has nothing to roll    *)
(* back, AppLifecycle implements the domain's state machine: the statuses     *)
(* move only along validTransition, from draft on, and an application is      *)
(* never deleted while it is being provisioned, although Save writes a        *)
(* status without looking at the one it replaces.                             *)
THEOREM StatusRefinement ==
    ASSUME Sequential, RequireReview \/ FaultKinds \cap {"fail", "lost"} = {}
    PROVE  Spec => StatusMachine
  <1> DEFINE status == [a \in Apps |-> apps[a].status]
  <1>1. NoLateRollback /\ ~Rollbacks
    BY DEF NoLateRollback, Rollbacks
  <1>2. Init => Machine!Init
    BY DEF Init, Machine!Init, NoRow
  <1>3. TypeOK /\ ReviewInv /\ SeqInv /\ [Next]_vars => [Machine!Next]_status
    <2> SUFFICES ASSUME TypeOK, OneRowMoves PROVE [Machine!Next]_status
      BY <1>1, NextSeq
    <2>1. CASE apps' = apps
      BY <2>1
    <2>2. ASSUME NEW a \in Apps, NEW row, apps' = [apps EXCEPT ![a] = row],
                 Moves(apps[a].status, row.status)
          PROVE  [Machine!Next]_status
      <3>1. status' = [status EXCEPT ![a] = row.status]
        BY <2>2 DEF TypeOK
      <3>2. status[a] = apps[a].status
        OBVIOUS
      <3>3. status[a] = row.status => status' = status
        BY <3>1
      <3> HIDE DEF status
      <3>4. CASE status[a] = row.status
        BY <3>3, <3>4
      <3>5. CASE status[a] = "absent" /\ row.status = "draft"
        BY <3>1, <3>5 DEF status, Machine!Next, Machine!Create
      <3>6. CASE validTransition(status[a], row.status)
        <4>1. row.status \in Statuses
          BY <3>6 DEF validTransition, Statuses
        <4> QED BY <3>1, <3>6, <4>1
            DEF status, Machine!Next, Machine!Transition, Machine!validTransition,
                Machine!Statuses, validTransition, Statuses
      <3>7. CASE status[a] \in Deletable /\ row.status = "deleted"
        BY <3>1, <3>7 DEF status, Machine!Next, Machine!Delete, Machine!Statuses, Statuses,
           Deletable
      <3> QED BY <1>1, <2>2, <3>2, <3>4, <3>5, <3>6, <3>7 DEF Moves
    <2> QED BY <2>1, <2>2 DEF OneRowMoves
  <1> QED BY <1>1, <1>2, <1>3, TypeCorrect, ReviewSafety, SeqSafety, PTL
      DEF Spec, StatusMachine, Machine!Spec

-----------------------------------------------------------------------------
(* The clients in Hydra, when calls may fail but neither answers nor the      *)
(* worker's credentials are lost.                                             *)

FailuresOnly == FaultKinds \subseteq {"fail"}
NoFaults == FaultKinds = {}

(* Hydra serves no client of application a. *)
Dead(H, a) == \A c \in DOMAIN H : H[c].app = a => ~H[c].live
Unique(H) == \A c, d \in DOMAIN H : H[c].app = H[d].app => c = d

(* Before its approval an application has no client, apart from the one in    *)
(* the worker's credentials, which are dropped when the client is saved.      *)
Settled == {"approved", "revoked", "deleted"}
RowsClient(A, O, H, C) ==
    \A a \in Apps :
        /\ A[a].status \notin Settled /\ C[a] = NoCred => \A c \in DOMAIN H : H[c].app # a
        /\ C[a] # NoCred => A[a].status = "provisioning" /\ O[a] # "none"
        /\ A[a].status = "revoked" => Dead(H, a)

Served(A, H, C) ==
    \A a \in Apps : \A c \in DOMAIN H :
        H[c].app = a /\ H[c].live =>
            c = A[a].client \/ (A[a].status \in Statuses /\ c = C[a].client)

ProvClient(A, O, p, C) ==
    /\ p.id \in Apps /\ A[p.id].status = "provisioning" => O[p.id] # "none"
    /\ p.pc = "create" => C[p.id] = NoCred
    /\ p.pc = "save" => C[p.id] # NoCred /\ p.copy.client = C[p.id].client

HandlerClient(A, H, q) ==
    /\ q.todo[1].call \in {"save", "updateClient"} => q.copy.client = A[q.id].client
    /\ q.todo[1].call = "deleteClient" =>
          A[q.id].status = "approved" /\ q.copy.client = A[q.id].client
    /\ q.todo[1].call = "transition" /\ q.todo[1].post = "revoked" =>
          A[q.id].status = "approved" /\ Dead(H, q.id) /\ ~At(q.todo, 2, SaveCall)
    /\ q.todo[1].call # "deleteClient" /\ (\E i \in DOMAIN q.todo : q.todo[i].call = "delete") =>
          Dead(H, q.id)

ClientInv ==
    /\ Unique(hydra)
    /\ RowsClient(apps, outbox, hydra, cred)
    /\ Served(apps, hydra, cred)
    /\ ProvClient(apps, outbox, prov, cred)
    /\ \A r \in Requests : req[r].todo # <<>> => HandlerClient(apps, hydra, req[r])

(* Hydra's clients stay, each of its application, and none is revived. *)
HydraKept(H, K) ==
    /\ DOMAIN K = DOMAIN H
    /\ \A c \in DOMAIN H : K[c].app = H[c].app /\ (K[c].live => H[c].live)

LEMMA KeptClients ==
    ASSUME NEW A, NEW O, NEW H, NEW K, NEW C, HydraKept(H, K),
           Unique(H), RowsClient(A, O, H, C), Served(A, H, C)
    PROVE  /\ Unique(K) /\ RowsClient(A, O, K, C) /\ Served(A, K, C)
           /\ \A a : Dead(H, a) => Dead(K, a)
  <1>1. \A a : Dead(H, a) => Dead(K, a)
    BY DEF HydraKept, Dead
  <1>2. Unique(K)
    BY DEF HydraKept, Unique
  <1>3. RowsClient(A, O, K, C)
    BY <1>1 DEF HydraKept, RowsClient
  <1>4. Served(A, K, C)
    BY DEF HydraKept, Served
  <1> QED BY <1>1, <1>2, <1>3, <1>4

LEMMA HandlerClientKept ==
    ASSUME NEW A, NEW B, NEW H, NEW K, NEW q, HandlerClient(A, H, q),
           B[q.id] = A[q.id], Dead(H, q.id) => Dead(K, q.id)
    PROVE  HandlerClient(B, K, q)
  BY DEF HandlerClient

LEMMA HydraSteps ==
    ASSUME TypeOK, NEW r \in Requests, UpdateClient(r) \/ DeleteClient(r)
    PROVE  HydraKept(hydra, hydra')
  <1> DEFINE c == req[r].copy.client
  <1>1. /\ DOMAIN hydra' = DOMAIN hydra
        /\ \A i \in DOMAIN hydra : hydra'[i].app = hydra[i].app
    BY UpdateClientHydra
  <1>2. hydra \in Seq(Client) /\ \A i \in DOMAIN hydra : hydra[i] \in Client
    BY ElementOfSeq, LenProperties DEF TypeOK
  <1>3. ASSUME NEW i \in DOMAIN hydra, hydra'[i].live
        PROVE  hydra[i].live
    <2>1. CASE hydra' = hydra
      BY <1>3, <2>1
    <2>2. CASE UpdateClient(r) /\ hydra' # hydra
      <3>1. hydra[c].live
        BY <2>2 DEF UpdateClient, Refused
      <3>2. hydra' = [hydra EXCEPT ![c] =
                         [@ EXCEPT !.secret = req[r].copy.sealed.secret,
                                   !.profile = req[r].copy.profile,
                                   !.lifespans = (Head(req[r].todo).post = "full")]]
        BY <2>2 DEF UpdateClient, Refused
      <3>3. i # c => hydra'[i] = hydra[i]
        BY <1>2, <3>2
      <3> QED BY <1>3, <3>1, <3>3
    <2>3. CASE DeleteClient(r) /\ hydra' # hydra
      <3>1. hydra[c].live
        BY <2>3 DEF DeleteClient, Refused
      <3>2. hydra' = [hydra EXCEPT ![c].live = FALSE]
        BY <2>3 DEF DeleteClient, Refused
      <3>3. i # c => hydra'[i] = hydra[i]
        BY <1>2, <3>2
      <3> QED BY <1>3, <3>1, <3>3
    <2> QED BY <2>1, <2>2, <2>3
  <1> QED BY <1>1, <1>3 DEF HydraKept

(* The handler goes on. *)
ClientMoved(B, H, r) ==
    \E q : req' = [req EXCEPT ![r] = q] /\ (q.todo # <<>> => HandlerClient(B, H, q))

ClientReady(B, H, a, t, c) ==
    /\ t[1].call = "updateClient" \/ (t[1].call = "transition" /\ At(t, 2, SaveCall)) =>
          c.client = B[a].client
    /\ t[1].call = "deleteClient" => B[a].status = "approved" /\ Dead(H, a)
    /\ t[1].call = "audit" /\ (\E i \in DOMAIN t : t[i].call = "delete") => Dead(H, a)

LEMMA ReplyClient ==
    ASSUME TypeOK, FailuresOnly, NEW r \in Requests, InFlight(r), NEW B, NEW H, NEW c,
           Advance(r, c) \/ Reply(r, c),
           Ordered(req[r].todo), Shape(req[r].todo), Follow(req[r].todo),
           ClientReady(B, H, req[r].id, req[r].todo, c)
    PROVE  ClientMoved(B, H, r)
  <1> DEFINE t == req[r].todo
  <1> DEFINE u == Tail(t)
  <1> DEFINE q == [req[r] EXCEPT !.copy = c, !.todo = u]
  <1>1. req[r] \in Request /\ t \in Seq(Calls) /\ t # <<>>
    BY DEF TypeOK, InFlight, Request
  <1>2. Advance(r, c)
    BY DEF Reply, Fault, FailuresOnly
  <1>3. CASE u = <<>>
    <2>1. req' = [req EXCEPT ![r] = Idle]
      BY <1>2, <1>3 DEF Advance
    <2> QED BY <2>1, RowTypes DEF ClientMoved
  <1>4. CASE u # <<>>
    <2>1. req' = [req EXCEPT ![r] = q]
      BY <1>2, <1>4 DEF Advance
    <2>2. q.id = req[r].id /\ q.copy = c /\ q.todo = u
      BY <1>1 DEF Request
    <2>3. /\ u[1].call \notin {"updateClient", "deleteClient"}
          /\ u[1].call = "save" =>
                t[1].call = "updateClient" \/ (t[1].call = "transition" /\ At(t, 2, SaveCall))
          /\ u[1].call = "transition" /\ At(u, 2, SaveCall) => t[1].call = "get"
          /\ u[1].call = "transition" /\ u[1].post = "revoked" => t[1].call = "deleteClient"
          /\ \A i \in DOMAIN u : u[i].call = "delete" =>
                /\ t[1].call \in {"deleteClient", "audit"}
                /\ i + 1 \in DOMAIN t /\ t[i + 1].call = "delete"
      BY <1>1, <1>4, StageAfter
    <2> HIDE DEF q, u, t
    <2>4. u[1].call = "save" => c.client = B[q.id].client
      BY <2>2, <2>3 DEF ClientReady, t
    <2>5. u[1].call = "transition" /\ u[1].post = "revoked" =>
              B[q.id].status = "approved" /\ Dead(H, q.id) /\ ~At(u, 2, SaveCall)
      BY <2>2, <2>3 DEF ClientReady, t
    <2>6. (\E i \in DOMAIN u : u[i].call = "delete") => Dead(H, q.id)
      BY <2>2, <2>3 DEF ClientReady, t
    <2>7. HandlerClient(B, H, q)
      BY <2>2, <2>3, <2>4, <2>5, <2>6 DEF HandlerClient
    <2> QED BY <2>1, <2>7 DEF ClientMoved
  <1> QED BY <1>3, <1>4

LEMMA OnErrorClient ==
    ASSUME TypeOK, SeqInv, ReviewInv, NEW r \in Requests, InFlight(r), OnError(r), NEW H
    PROVE  ClientMoved(apps, H, r)
  <1> DEFINE t == req[r].todo
  <1>1. HandlerOK(apps, audit, req[r]) /\ HandlerSeq(apps, outbox, prov, req[r])
    BY DEF ReviewInv, HandlersOK, InFlight, SeqInv
  <1>2. Head(t) = t[1] /\ 1 \in DOMAIN t /\ req[r].id \in Apps
    BY <1>1, HeadFacts DEF TypeOK, InFlight
  <1>3. CASE Head(t) # EnqueueDraft
    <2>1. req' = [req EXCEPT ![r] = Idle]
      BY <1>3 DEF OnError, EnqueueDraft
    <2> QED BY <2>1, RowTypes DEF ClientMoved
  <1>4. CASE Head(t) = EnqueueDraft
    <2> DEFINE q == [req[r] EXCEPT !.todo = <<SaveCall>>]
    <2>1. req' = [req EXCEPT ![r] = q]
      BY <1>4 DEF OnError, EnqueueDraft
    <2>2. q.id = req[r].id /\ q.copy = req[r].copy /\ q.todo = <<SaveCall>>
      BY DEF TypeOK, Request
    <2> HIDE DEF q
    <2>3. t[1] = EnqueueDraft /\ t[1].call = "enqueue"
      BY <1>2, <1>4, FixedCalls
    <2>4. /\ q.copy.status = "draft" /\ Clean(q.copy)
          /\ apps[q.id].status = "provisioning" /\ Clean(apps[q.id])
      BY <1>1, <1>2, <2>2, <2>3 DEF HandlerSeq, SeqInv, RowsSeq
    <2>5. q.todo[1].call = "save" /\ \A i \in DOMAIN q.todo : q.todo[i].call # "delete"
      BY <2>2, FixedCalls
    <2>6. HandlerClient(apps, H, q)
      BY <2>4, <2>5 DEF HandlerClient, Clean
    <2> QED BY <2>1, <2>6 DEF ClientMoved
  <1> QED BY <1>3, <1>4

LEMMA ClientFinish ==
    ASSUME TypeOK, Sequential, NEW r \in Requests, ClientMoved(apps', hydra', r),
           Unique(hydra'), RowsClient(apps', outbox', hydra', cred'),
           Served(apps', hydra', cred'), ProvClient(apps', outbox', prov', cred')
    PROVE  ClientInv'
  <1>1. PICK q : req' = [req EXCEPT ![r] = q] /\ (q.todo # <<>> => HandlerClient(apps', hydra', q))
    BY DEF ClientMoved
  <1>2. req'[r] = q
    BY <1>1 DEF TypeOK
  <1>3. \A s \in Requests : req'[s].todo # <<>> => HandlerClient(apps', hydra', req'[s])
    BY <1>1, <1>2 DEF Sequential
  <1> QED BY <1>3 DEF ClientInv

(* One row is replaced by a handler. *)
LEMMA RowClient ==
    ASSUME TypeOK, ClientInv, NEW a \in Apps, NEW row, apps' = [apps EXCEPT ![a] = row],
           UNCHANGED <<hydra, cred, prov>>, Moves(apps[a].status, row.status),
           \A b \in Apps : b # a => outbox'[b] = outbox[b],
           outbox'[a] = outbox[a] \/ row.status = "deleted",
           row.client = apps[a].client \/ Dead(hydra, a),
           row.status = "revoked" => apps[a].status = "revoked" \/ Dead(hydra, a),
           row.status = "provisioning" => apps[a].status = "provisioning" \/ prov.id # a,
           apps[a].status = "provisioning" => outbox[a] = "none" \/ row.status = "provisioning"
    PROVE  /\ Unique(hydra') /\ RowsClient(apps', outbox', hydra', cred')
           /\ Served(apps', hydra', cred') /\ ProvClient(apps', outbox', prov', cred')
  <1>1. apps'[a] = row /\ \A b \in Apps : b # a => apps'[b] = apps[b]
    BY DEF TypeOK
  <1>2. 0 \notin DOMAIN hydra /\ NoCred.client = 0
    BY LenProperties DEF TypeOK, NoCred
  <1>3. Unique(hydra) /\ RowsClient(apps, outbox, hydra, cred) /\ Served(apps, hydra, cred)
        /\ ProvClient(apps, outbox, prov, cred)
    BY DEF ClientInv
  <1>4. apps[a].status \in Settled => row.status \in Settled
    BY DEF Settled, Moves, validTransition, Deletable, Statuses
  <1>5. cred[a] # NoCred => row.status = "provisioning" /\ outbox'[a] # "none"
    BY <1>3 DEF RowsClient
  <1>6. RowsClient(apps', outbox', hydra', cred')
    <2> SUFFICES ASSUME NEW b \in Apps
                 PROVE  /\ apps'[b].status \notin Settled /\ cred[b] = NoCred =>
                              \A c \in DOMAIN hydra : hydra[c].app # b
                        /\ cred[b] # NoCred => apps'[b].status = "provisioning" /\ outbox'[b] # "none"
                        /\ apps'[b].status = "revoked" => Dead(hydra, b)
      BY DEF RowsClient
    <2>1. CASE b = a
      BY <1>1, <1>3, <1>4, <1>5, <2>1 DEF RowsClient
    <2>2. CASE b # a
      BY <1>1, <1>3, <2>2 DEF RowsClient
    <2> QED BY <2>1, <2>2
  <1>7. Served(apps', hydra', cred')
    <2> SUFFICES ASSUME NEW b \in Apps, NEW c \in DOMAIN hydra, hydra[c].app = b, hydra[c].live
                 PROVE  c = apps'[b].client \/ (apps'[b].status \in Statuses /\ c = cred[b].client)
      BY DEF Served
    <2>1. CASE b = a
      <3>1. c = apps[a].client \/ c = cred[a].client
        BY <1>3, <2>1 DEF Served
      <3>2. row.client = apps[a].client
        BY <2>1 DEF Dead
      <3>3. c = cred[a].client => row.status = "provisioning"
        BY <1>2, <1>5
      <3> QED BY <1>1, <2>1, <3>1, <3>2, <3>3 DEF Statuses
    <2>2. CASE b # a
      BY <1>1, <1>3, <2>2 DEF Served
    <2> QED BY <2>1, <2>2
  <1>8. ProvClient(apps', outbox', prov', cred')
    <2>1. prov.id \in Apps /\ apps'[prov.id].status = "provisioning" => outbox'[prov.id] # "none"
      <3>1. CASE prov.id = a
        BY <1>1, <1>3, <3>1 DEF ProvClient
      <3>2. CASE prov.id # a
        BY <1>1, <1>3, <3>2 DEF ProvClient
      <3> QED BY <3>1, <3>2
    <2> QED BY <1>3, <2>1 DEF ProvClient
  <1> QED BY <1>3, <1>6, <1>7, <1>8

(* The calls of a handler. *)
LEMMA StepClient ==
    ASSUME TypeOK, ReviewInv, SeqInv, ClientInv, Sequential, FailuresOnly, NEW r \in Requests,
           Step(r)
    PROVE  ClientInv'
  <1> DEFINE id == req[r].id
  <1> DEFINE t == req[r].todo
  <1> DEFINE copy == req[r].copy
  <1>1. /\ prov' = prov /\ cred' = cred
        /\ apps \in [Apps -> Row] /\ outbox \in [Apps -> OutboxStates]
    BY DEF Step, TypeOK
  <1>2. InFlight(r)
    BY DEF Step, StoreCreate, StoreGet, StoreSelect, StoreTransition, StoreSave,
           StoreEnqueue, StoreAudit, StoreDelete, UpdateClient, DeleteClient, NextCall
  <1>3. Head(t) \in Calls /\ id \in Apps
    BY <1>2, HandlerTypes
  <1>4. /\ HandlerOK(apps, audit, req[r]) /\ HandlerSeq(apps, outbox, prov, req[r])
        /\ HandlerClient(apps, hydra, req[r])
    BY <1>2 DEF ReviewInv, HandlersOK, InFlight, SeqInv, ClientInv
  <1>5. Head(t) = t[1] /\ 1 \in DOMAIN t
    BY <1>2, <1>4, HeadFacts
  <1>6. /\ RowsSeq(apps, outbox) /\ ProvSeq(apps, prov)
        /\ Unique(hydra) /\ RowsClient(apps, outbox, hydra, cred) /\ Served(apps, hydra, cred)
        /\ ProvClient(apps, outbox, prov, cred)
    BY DEF SeqInv, ClientInv
  <1>7. Ordered(t) /\ Shape(t) /\ Follow(t)
    BY <1>4 DEF HandlerOK, HandlerSeq
  <1>8. apps[id] \in Row /\ Clean(apps[id])
    BY <1>1, <1>3, <1>6 DEF RowsSeq
  <1>9. NoRow("deleted").status = "deleted"
    BY DEF NoRow
  <1>10. ASSUME NEW c, Advance(r, c) \/ Reply(r, c), ClientReady(apps', hydra', id, t, c)
         PROVE  ClientMoved(apps', hydra', r)
    BY <1>2, <1>7, <1>10, ReplyClient
  <1>11. ASSUME UNCHANGED <<apps, outbox, hydra>>
         PROVE  /\ Unique(hydra') /\ RowsClient(apps', outbox', hydra', cred')
                /\ Served(apps', hydra', cred') /\ ProvClient(apps', outbox', prov', cred')
    BY <1>1, <1>6, <1>11
  <1>12. CASE Refused(r)
    <2>1. UNCHANGED <<apps, outbox, hydra>> /\ OnError(r)
      BY <1>12 DEF Refused
    <2>2. ClientMoved(apps', hydra', r)
      BY <1>2, <2>1, OnErrorClient
    <2> QED BY <1>11, <2>1, <2>2, ClientFinish
  <1>13. CASE StoreCreate(r)
    <2>1. /\ Head(t).call = "create"
          /\ apps' = [apps EXCEPT ![id] = copy]
          /\ Reply(r, NoRow("absent"))
          /\ UNCHANGED <<outbox, hydra>>
      BY <1>13 DEF StoreCreate, NextCall
    <2>2. apps[id].status = "absent" /\ copy.status = "draft" /\ Clean(copy)
      BY <1>4, <1>5, <2>1 DEF HandlerOK, HandlerSeq
    <2>3. copy.client = apps[id].client
      BY <1>8, <2>2 DEF Clean
    <2>4. Moves(apps[id].status, copy.status)
      BY <2>2 DEF Moves
    <2>5. /\ Unique(hydra') /\ RowsClient(apps', outbox', hydra', cred')
          /\ Served(apps', hydra', cred') /\ ProvClient(apps', outbox', prov', cred')
      BY <1>1, <1>3, <2>1, <2>2, <2>3, <2>4, RowClient
    <2>6. ClientReady(apps', hydra', id, t, NoRow("absent"))
      BY <1>5, <2>1 DEF ClientReady
    <2> QED BY <1>10, <2>1, <2>5, <2>6, ClientFinish
  <1>14. CASE (StoreGet(r) \/ StoreSelect(r)) /\ ~Refused(r)
    <2>1. /\ Head(t).call \in {"get", "select"} /\ UNCHANGED <<apps, outbox, hydra>>
          /\ \E c : Advance(r, c)
      BY <1>14 DEF StoreGet, StoreSelect, NextCall
    <2>2. PICK c : Advance(r, c)
      BY <2>1
    <2>3. ClientReady(apps', hydra', id, t, c)
      BY <1>5, <2>1 DEF ClientReady
    <2> QED BY <1>10, <1>11, <2>1, <2>2, <2>3, ClientFinish
  <1>15. CASE StoreTransition(r) /\ ~Refused(r)
    <2> DEFINE row == [apps[id] EXCEPT !.status = Head(t).post]
    <2>1. /\ Head(t).call = "transition"
          /\ apps[id].status = Head(t).pre
          /\ validTransition(Head(t).pre, Head(t).post)
          /\ apps' = [apps EXCEPT ![id] = row]
          /\ Reply(r, copy)
          /\ UNCHANGED <<outbox, hydra>>
      BY <1>15 DEF StoreTransition, NextCall
    <2>2. /\ Head(t).pre \in {"draft", "pending_review", "approved", "rejected",
                              "changes_requested"}
          /\ Head(t).pre = "approved" <=> Head(t).post = "revoked"
          /\ Head(t).post = "provisioning" => Head(t).pre \in {"draft", "pending_review"}
          /\ Head(t).post # "approved"
      BY <1>3, <2>1, CallNames, CallShape
    <2>3. row.status = Head(t).post /\ row.client = apps[id].client
      BY <1>8 DEF Row
    <2> HIDE DEF row
    <2>4. /\ row.status = "revoked" => Dead(hydra, id) /\ ~At(t, 2, SaveCall)
          /\ At(t, 2, SaveCall) => Head(t).post = copy.status /\ Clean(copy)
      BY <1>4, <1>5, <2>1, <2>3 DEF HandlerClient, HandlerSeq
    <2>5. prov.id # id \/ row.status # "provisioning"
      BY <1>3, <1>6, <2>1, <2>2, <2>3 DEF ProvSeq, Provisioned
    <2>6. Moves(apps[id].status, row.status)
      BY <2>1, <2>3 DEF Moves
    <2>7. /\ Unique(hydra') /\ RowsClient(apps', outbox', hydra', cred')
          /\ Served(apps', hydra', cred') /\ ProvClient(apps', outbox', prov', cred')
      BY <1>1, <1>3, <2>1, <2>2, <2>3, <2>4, <2>5, <2>6, RowClient
    <2>8. apps'[id] = row
      BY <1>1, <1>3, <2>1
    <2>9. At(t, 2, SaveCall) => copy.client = row.client
      BY <1>8, <2>1, <2>2, <2>3, <2>4 DEF Clean
    <2>10. ClientReady(apps', hydra', id, t, copy)
      BY <1>5, <2>1, <2>8, <2>9 DEF ClientReady
    <2> QED BY <1>10, <2>1, <2>7, <2>10, ClientFinish
  <1>16. CASE StoreSave(r) /\ ~Refused(r)
    <2>1. /\ Head(t).call = "save"
          /\ apps' = [apps EXCEPT ![id] = copy]
          /\ Reply(r, NoRow("absent"))
          /\ UNCHANGED <<outbox, hydra>>
      BY <1>16 DEF StoreSave, NextCall
    <2>2. SaveOK(apps, outbox, prov, id, copy) /\ copy.client = apps[id].client
      BY <1>4, <1>5, <2>1 DEF HandlerSeq, HandlerClient
    <2>3. Moves(apps[id].status, copy.status)
      BY <2>2 DEF SaveOK, Moves, validTransition
    <2>4. /\ copy.status \in {"revoked", "provisioning"} => apps[id].status = copy.status
          /\ apps[id].status = "provisioning" => outbox[id] = "none"
      BY <2>2 DEF SaveOK, Quiet
    <2>5. /\ Unique(hydra') /\ RowsClient(apps', outbox', hydra', cred')
          /\ Served(apps', hydra', cred') /\ ProvClient(apps', outbox', prov', cred')
      BY <1>1, <1>3, <2>1, <2>2, <2>3, <2>4, RowClient
    <2>6. ClientReady(apps', hydra', id, t, NoRow("absent"))
      BY <1>5, <2>1 DEF ClientReady
    <2> QED BY <1>10, <2>1, <2>5, <2>6, ClientFinish
  <1>17. CASE StoreEnqueue(r) /\ ~Refused(r)
    <2>1. /\ Head(t).call = "enqueue"
          /\ outbox' = [outbox EXCEPT ![id] = IF @ = "none" THEN "ready" ELSE @]
          /\ Reply(r, copy)
          /\ UNCHANGED <<apps, hydra>>
      BY <1>17 DEF StoreEnqueue, NextCall
    <2>2. \A a \in Apps : outbox[a] # "none" => outbox'[a] # "none"
      BY <1>1, <2>1
    <2>3. RowsClient(apps', outbox', hydra', cred') /\ ProvClient(apps', outbox', prov', cred')
      BY <1>1, <1>6, <2>1, <2>2 DEF RowsClient, ProvClient
    <2>4. Unique(hydra') /\ Served(apps', hydra', cred')
      BY <1>1, <1>6, <2>1
    <2>5. PICK c : c = copy
      OBVIOUS
    <2>6. ClientReady(apps', hydra', id, t, c) /\ Reply(r, c)
      BY <1>5, <2>1, <2>5 DEF ClientReady
    <2> QED BY <1>10, <2>3, <2>4, <2>6, ClientFinish
  <1>18. CASE StoreAudit(r) /\ ~Refused(r)
    <2>1. Head(t).call = "audit" /\ Reply(r, copy) /\ UNCHANGED <<apps, outbox, hydra>>
      BY <1>18 DEF StoreAudit, NextCall
    <2>2. (\E i \in DOMAIN t : t[i].call = "delete") => Dead(hydra', id)
      BY <1>4, <1>5, <2>1 DEF HandlerClient
    <2>3. PICK c : c = copy
      OBVIOUS
    <2>4. ClientReady(apps', hydra', id, t, c) /\ Reply(r, c)
      BY <1>5, <2>1, <2>2, <2>3 DEF ClientReady
    <2> QED BY <1>10, <1>11, <2>1, <2>4, ClientFinish
  <1>19. CASE StoreDelete(r) /\ ~Refused(r)
    <2>1. /\ Head(t).call = "delete"
          /\ apps' = [apps EXCEPT ![id] = NoRow("deleted")]
          /\ outbox' = [outbox EXCEPT ![id] = "none"]
          /\ Reply(r, NoRow("absent"))
          /\ UNCHANGED hydra
      BY <1>19 DEF StoreDelete, NextCall
    <2>2. apps[id].status \in Deletable /\ Dead(hydra, id)
      BY <1>4, <1>5, <2>1 DEF HandlerSeq, HandlerClient
    <2>3. \A b \in Apps : b # id => outbox'[b] = outbox[b]
      BY <1>1, <2>1
    <2>4. Moves(apps[id].status, "deleted") /\ apps[id].status # "provisioning"
      BY <2>2 DEF Moves, Deletable
    <2>5. /\ Unique(hydra') /\ RowsClient(apps', outbox', hydra', cred')
          /\ Served(apps', hydra', cred') /\ ProvClient(apps', outbox', prov', cred')
      BY <1>1, <1>3, <1>9, <2>1, <2>2, <2>3, <2>4, RowClient
    <2>6. ClientReady(apps', hydra', id, t, NoRow("absent"))
      BY <1>5, <2>1 DEF ClientReady
    <2> QED BY <1>10, <2>1, <2>5, <2>6, ClientFinish
  <1>20. CASE UpdateClient(r) /\ ~Refused(r)
    <2>1. Head(t).call = "updateClient" /\ Reply(r, copy) /\ UNCHANGED <<apps, outbox>>
      BY <1>20 DEF UpdateClient, NextCall
    <2>2. HydraKept(hydra, hydra')
      BY <1>20, HydraSteps
    <2>3. Unique(hydra') /\ RowsClient(apps, outbox, hydra', cred) /\ Served(apps, hydra', cred)
      BY <1>6, <2>2, KeptClients
    <2>4. ClientReady(apps', hydra', id, t, copy)
      BY <1>4, <1>5, <2>1 DEF ClientReady, HandlerClient
    <2> QED BY <1>1, <1>6, <1>10, <2>1, <2>3, <2>4, ClientFinish
  <1>21. CASE DeleteClient(r) /\ ~Refused(r)
    <2>1. /\ Head(t).call = "deleteClient" /\ Reply(r, NoRow("absent"))
          /\ hydra' = [hydra EXCEPT ![copy.client].live = FALSE]
          /\ UNCHANGED <<apps, outbox>>
      BY <1>21 DEF DeleteClient, NextCall
    <2>2. HydraKept(hydra, hydra')
      BY <1>21, HydraSteps
    <2>3. Unique(hydra') /\ RowsClient(apps, outbox, hydra', cred) /\ Served(apps, hydra', cred)
      BY <1>6, <2>2, KeptClients
    <2>4. apps[id].status = "approved" /\ copy.client = apps[id].client
      BY <1>4, <1>5, <2>1 DEF HandlerClient
    <2>5. Dead(hydra', id)
      <3> SUFFICES ASSUME NEW c \in DOMAIN hydra', hydra'[c].app = id, hydra'[c].live
                   PROVE  FALSE
        BY DEF Dead
      <3>1. cred[id] = NoCred /\ NoCred.client = 0
        BY <1>3, <1>6, <2>4 DEF RowsClient, NoCred
      <3>2. c \in DOMAIN hydra /\ c # 0
        BY <2>2, LenProperties DEF HydraKept, TypeOK
      <3>3. c = copy.client
        BY <1>3, <2>3, <2>4, <3>1, <3>2 DEF Served
      <3>4. hydra[c] \in Client
        BY <3>2, ElementOfSeq, LenProperties DEF TypeOK
      <3>5. hydra'[c].live = FALSE
        BY <2>1, <3>2, <3>3, <3>4 DEF Client
      <3> QED BY <3>5
    <2>6. ClientReady(apps', hydra', id, t, NoRow("absent"))
      BY <1>5, <2>1, <2>4, <2>5 DEF ClientReady
    <2> QED BY <1>1, <1>6, <1>10, <2>1, <2>3, <2>6, ClientFinish
  <1> QED BY <1>12, <1>13, <1>14, <1>15, <1>16, <1>17, <1>18, <1>19, <1>20, <1>21 DEF Step

(* The operations that start a handler. *)
LEMMA BeginClient ==
    ASSUME TypeOK, ClientInv, Sequential, NEW r \in Requests, NEW u, NEW a, NEW copy, NEW todo,
           Begin(r, u, a, copy, todo),
           todo[1].call \in {"save", "updateClient"} => copy.client = apps[a].client,
           todo[1].call = "deleteClient" =>
              apps[a].status = "approved" /\ copy.client = apps[a].client,
           todo[1].call = "transition" => todo[1].post # "revoked",
           todo[1].call # "deleteClient" /\ (\E i \in DOMAIN todo : todo[i].call = "delete") =>
              Dead(hydra, a)
    PROVE  ClientInv'
  <1> DEFINE q == [actor |-> u, id |-> a, copy |-> copy, todo |-> todo]
  <1>1. req' = [req EXCEPT ![r] = q] /\ UNCHANGED <<apps, outbox, prov, hydra, cred>>
    BY DEF Begin
  <1>2. q.id = a /\ q.copy = copy /\ q.todo = todo
    OBVIOUS
  <1> HIDE DEF q
  <1>3. HandlerClient(apps, hydra, q)
    BY <1>2 DEF HandlerClient
  <1>4. ClientMoved(apps', hydra', r)
    BY <1>1, <1>3 DEF ClientMoved
  <1> QED BY <1>1, <1>4, ClientFinish DEF ClientInv

LEMMA PlainClient ==
    ASSUME TypeOK, ClientInv, Sequential, NEW r \in Requests, NEW u, NEW a, NEW copy, NEW todo,
           Begin(r, u, a, copy, todo), NEW F, NEW S, Opens(todo, F, S),
           "save" \in F \/ "updateClient" \in F => copy.client = apps[a].client,
           "deleteClient" \in F => apps[a].status = "approved" /\ copy.client = apps[a].client,
           todo[1].call = "transition" => todo[1].post # "revoked"
    PROVE  ClientInv'
  BY BeginClient DEF Opens

LEMMA SubmitHead ==
    ASSUME NEW s
    PROVE  submitCalls(s)[1].call = "transition" => submitCalls(s)[1].post # "revoked"
  BY SubmitCallsAre DEF startProvisioning, TransitionCall, CallTo

LEMMA StartClient ==
    ASSUME TypeOK, ClientInv, Sequential, NEW r \in Requests, Start(r)
    PROVE  ClientInv'
  <1>1. /\ \A a \in Apps : apps[a] \in Row
        /\ \A n : [NoRow("absent") EXCEPT !.client = n].client = n
        /\ RowsClient(apps, outbox, hydra, cred)
    BY DEF TypeOK, ClientInv, NoRow
  <1>2. CASE CreateDraft(r)
    <2>1. PICK u \in Users, a \in Apps, p \in Profiles :
             Begin(r, u, a, [NoRow("draft") EXCEPT !.owner = u, !.profile = p], CreateCalls)
      BY <1>2 DEF CreateDraft, CreateCalls
    <2>2. CreateCalls[1].call = "create"
      BY Openings DEF Opens
    <2> QED BY <2>1, <2>2, Openings, PlainClient
  <1>3. CASE UpdateDraft(r)
    <2>1. PICK a \in Apps, p \in Profiles :
             Begin(r, apps[a].owner, a, editedRow(apps[a], p), editCalls(apps[a].status))
      BY <1>3 DEF UpdateDraft
    <2>2. editedRow(apps[a], p).client = apps[a].client
      BY <1>1 DEF editedRow, Row
    <2>3. Opens(editCalls(apps[a].status), {"save", "updateClient"}, {"save", "audit"})
      BY Openings
    <2>4. editCalls(apps[a].status)[1].call # "transition"
      BY <2>3 DEF Opens
    <2> QED BY <2>1, <2>2, <2>3, <2>4, PlainClient
  <1>4. CASE Submit(r)
    <2>1. PICK a \in Apps :
             Begin(r, apps[a].owner, a, NoRow("absent"), submitCalls(apps[a].status))
      BY <1>4 DEF Submit
    <2>2. Opens(submitCalls(apps[a].status), {"transition", "select"},
                {"transition", "select", "audit"})
      BY Openings
    <2> QED BY <2>1, <2>2, SubmitHead, PlainClient
  <1>5. CASE ViewSecret(r)
    <2> DEFINE todo == <<AuditCall("application.secret_viewed")>>
    <2>1. PICK a \in Apps : Begin(r, apps[a].owner, a, NoRow("absent"), todo)
      BY <1>5 DEF ViewSecret
    <2>2. Opens(todo, {"audit"}, {})
      BY Openings
    <2> HIDE DEF todo
    <2>3. todo[1].call # "transition"
      BY <2>2 DEF Opens
    <2> QED BY <2>1, <2>2, <2>3, PlainClient
  <1>6. CASE RotateSecret(r)
    <2>1. PICK a \in Apps :
             Begin(r, apps[a].owner, a, rotatedRow(apps[a], a, secrets + 1), rotateCalls)
      BY <1>6 DEF RotateSecret
    <2>2. rotatedRow(apps[a], a, secrets + 1).client = apps[a].client
      BY <1>1 DEF rotatedRow, Row
    <2>3. rotateCalls[1].call # "transition"
      BY Openings DEF Opens
    <2> QED BY <2>1, <2>2, <2>3, Openings, PlainClient
  <1>7. CASE Revoke(r)
    <2> DEFINE todo == <<CallTo("deleteClient", "-", "-"), TransitionCall("approved", "revoked"),
                         AuditCall("application.revoked")>>
    <2>1. PICK a \in Apps :
             /\ apps[a].status = "approved"
             /\ Begin(r, apps[a].owner, a, [NoRow("absent") EXCEPT !.client = apps[a].client], todo)
      BY <1>7 DEF Revoke
    <2>2. Opens(todo, {"deleteClient"}, {"transition"})
      BY Openings
    <2> HIDE DEF todo
    <2>3. todo[1].call # "transition"
      BY <2>2 DEF Opens
    <2>4. PICK copy : copy = [NoRow("absent") EXCEPT !.client = apps[a].client]
      OBVIOUS
    <2>5. copy.client = apps[a].client
      BY <1>1, <2>4
    <2>6. Begin(r, apps[a].owner, a, copy, todo)
      BY <2>1, <2>4
    <2> QED BY <2>1, <2>2, <2>3, <2>5, <2>6, PlainClient
  <1>8. CASE Delete(r)
    <2>1. PICK a \in Apps :
             /\ apps[a].status \in Deletable
             /\ Begin(r, apps[a].owner, a, [NoRow("absent") EXCEPT !.client = apps[a].client],
                      deleteCalls(apps[a].status))
      BY <1>8 DEF Delete
    <2>2. PICK todo : todo = deleteCalls(apps[a].status)
      OBVIOUS
    <2>3. /\ todo[1].call \in {"deleteClient", "audit"}
          /\ todo[1].call = "deleteClient" <=> apps[a].status = "approved"
      BY <2>2, DeleteCallsAre DEF Deletion, AuditCall, CallTo
    <2>4. apps[a].status # "approved" => Dead(hydra, a)
      BY <1>1, <2>1 DEF RowsClient, Deletable, Settled, Dead, Statuses
    <2> QED BY <1>1, <2>1, <2>2, <2>3, <2>4, BeginClient
  <1>9. ASSUME NEW todo, Opens(todo, {"get"}, {"transition"}), prepareReview(r, todo)
        PROVE  ClientInv'
    <2>1. PICK a \in Apps, u \in Users : Begin(r, u, a, NoRow("absent"), todo)
      BY <1>9 DEF prepareReview
    <2>2. todo[1].call # "transition"
      BY <1>9 DEF Opens
    <2> QED BY <1>9, <2>1, <2>2, PlainClient
  <1>10. CASE Approve(r)
    BY <1>9, <1>10, Openings DEF Approve
  <1>11. CASE Reject(r) \/ RequestChanges(r)
    BY <1>9, <1>11, Openings DEF Reject, RequestChanges, decide
  <1> QED BY <1>2, <1>3, <1>4, <1>5, <1>6, <1>7, <1>8, <1>10, <1>11 DEF Start

(* The worker. *)
LEMMA WorkerClientFinish ==
    ASSUME ClientInv, req' = req, UNCHANGED <<apps, hydra, cred>>,
           \A a \in Apps : outbox[a] # "none" => outbox'[a] # "none",
           prov'.id \in Apps => prov'.id = prov.id \/ outbox'[prov'.id] # "none",
           prov'.pc \in {"create", "save"} => ProvClient(apps, outbox, prov', cred)
    PROVE  ClientInv'
  <1>1. RowsClient(apps, outbox, hydra, cred) /\ ProvClient(apps, outbox, prov, cred)
    BY DEF ClientInv
  <1>2. RowsClient(apps', outbox', hydra', cred')
    BY <1>1 DEF RowsClient
  <1>3. ProvClient(apps', outbox', prov', cred')
    BY <1>1 DEF ProvClient
  <1> QED BY <1>2, <1>3 DEF ClientInv

LEMMA WorkerClient ==
    ASSUME TypeOK, CredentialInv, SeqInv, ClientInv, FailuresOnly, RunOnce \/ WorkerCallFails
    PROVE  ClientInv'
  <1>1. /\ apps \in [Apps -> Row] /\ outbox \in [Apps -> OutboxStates]
        /\ cred \in [Apps -> Credentials] /\ hydra \in Seq(Client)
        /\ prov \in [pc : {"idle", "get", "create", "save", "complete", "audit", "retry",
                           "drop"}, id : Apps \cup {None}, copy : Row]
        /\ prov.pc # "idle" => prov.id \in Apps
        /\ None \notin Apps
    BY Assumptions DEF TypeOK
  <1>2. /\ RowsSeq(apps, outbox) /\ ProvSeq(apps, prov)
        /\ Unique(hydra) /\ RowsClient(apps, outbox, hydra, cred) /\ Served(apps, hydra, cred)
        /\ ProvClient(apps, outbox, prov, cred)
    BY DEF SeqInv, ClientInv
  <1>3. ProvIdle.id = None /\ ProvIdle.pc = "idle"
    BY DEF ProvIdle
  <1>4. req' = req
    BY DEF RunOnce, GetApplication, CreateClient, SaveApproved, Complete, AuditProvisioned,
           Retry, WorkerCallFails
  <1>5. /\ \A pc : [prov EXCEPT !.pc = pc].id = prov.id /\ [prov EXCEPT !.pc = pc].pc = pc
        /\ \A pc, c : /\ [prov EXCEPT !.pc = pc, !.copy = c].id = prov.id
                      /\ [prov EXCEPT !.pc = pc, !.copy = c].pc = pc
                      /\ [prov EXCEPT !.pc = pc, !.copy = c].copy = c
    BY <1>1
  <1>6. \A row \in Row : \A a, cr : /\ WithCredentials(row, a, cr).status = "approved"
                                    /\ WithCredentials(row, a, cr).client = cr.client
    BY DEF WithCredentials, Row
  <1>7. CASE GetApplication
    <2> DEFINE a == prov.id
    <2>1. a \in Apps /\ UNCHANGED <<apps, outbox, hydra>>
      BY <1>1, <1>7 DEF GetApplication, Worker
    <2>2. \/ prov' = [prov EXCEPT !.pc = "retry"] /\ cred' = cred
          \/ /\ prov' = [prov EXCEPT !.pc = "drop"] /\ apps[a].status # "provisioning"
             /\ cred' = [cred EXCEPT ![a] = NoCred]
          \/ /\ cred[a] = NoCred /\ cred' = cred
             /\ prov' = [prov EXCEPT !.pc = "create", !.copy = apps[a]]
          \/ /\ cred[a] # NoCred /\ cred' = cred
             /\ prov' = [prov EXCEPT !.pc = "save",
                                     !.copy = WithCredentials(apps[a], a, cred[a])]
      BY <1>7 DEF GetApplication, Goto, keptCredentials, provisionable
    <2>3. cred' = cred
      <3>1. apps[a].status # "provisioning" => cred[a] = NoCred
        BY <1>2, <2>1 DEF RowsClient
      <3>2. cred[a] = NoCred => [cred EXCEPT ![a] = NoCred] = cred
        BY <1>1
      <3> QED BY <2>2, <3>1, <3>2
    <2>4. WithCredentials(apps[a], a, cred[a]).client = cred[a].client
      BY <1>1, <1>6, <2>1
    <2>5. /\ prov'.id = prov.id
          /\ prov'.pc = "create" => cred[a] = NoCred
          /\ prov'.pc = "save" => cred[a] # NoCred /\ prov'.copy.client = cred[a].client
      <3>1. CASE prov' = [prov EXCEPT !.pc = "retry"]
        BY <1>5, <3>1
      <3>2. CASE prov' = [prov EXCEPT !.pc = "drop"]
        BY <1>5, <3>2
      <3>3. CASE cred[a] = NoCred /\ prov' = [prov EXCEPT !.pc = "create", !.copy = apps[a]]
        BY <1>1, <3>3
      <3>4. CASE /\ cred[a] # NoCred
                 /\ prov' = [prov EXCEPT !.pc = "save",
                                         !.copy = WithCredentials(apps[a], a, cred[a])]
        <4>1. PICK c : c = WithCredentials(apps[a], a, cred[a])
          OBVIOUS
        <4>2. prov' = [prov EXCEPT !.pc = "save", !.copy = c]
          BY <3>4, <4>1
        <4>3. prov'.id = prov.id /\ prov'.pc = "save" /\ prov'.copy = c
          BY <1>1, <4>2
        <4> QED BY <2>4, <3>4, <4>1, <4>3
      <3> QED BY <2>2, <3>1, <3>2, <3>3, <3>4
    <2>7. ProvClient(apps, outbox, prov', cred)
      BY <1>2, <2>5 DEF ProvClient
    <2> QED BY <1>4, <2>1, <2>3, <2>5, <2>7, WorkerClientFinish
  <1>8. CASE CreateClient
    <2> DEFINE a == prov.id
    <2> DEFINE n == Len(hydra) + 1
    <2> DEFINE new == [app |-> a, secret |-> secrets + 1, profile |-> prov.copy.profile,
                       lifespans |-> TRUE, live |-> TRUE]
    <2> DEFINE cr == [client |-> n, secret |-> secrets + 1]
    <2>1. /\ a \in Apps /\ prov.pc = "create" /\ UNCHANGED <<apps, outbox>>
          /\ hydra' = Append(hydra, new)
      BY <1>1, <1>8 DEF CreateClient, Worker
    <2>2. /\ cred' = [cred EXCEPT ![a] = cr]
          /\ prov' = [prov EXCEPT !.pc = "save", !.copy = WithCredentials(prov.copy, a, cr)]
      BY <1>8 DEF CreateClient, Fault, FailuresOnly
    <2>3. apps[a].status = "provisioning" /\ cred[a] = NoCred /\ outbox[a] # "none"
      BY <1>2, <2>1 DEF ProvSeq, ProvClient
    <2>4. \A c \in DOMAIN hydra : hydra[c].app # a
      BY <1>2, <2>1, <2>3 DEF RowsClient, Settled
    <2>5. /\ Len(hydra) \in Nat /\ DOMAIN hydra = 1 .. Len(hydra)
          /\ new.app = a /\ new.live
      BY <1>1, LenProperties
    <2>6. /\ DOMAIN hydra' = DOMAIN hydra \cup {n}
          /\ n \notin DOMAIN hydra /\ n # 0
          /\ \A c \in DOMAIN hydra : hydra'[c] = hydra[c]
          /\ hydra'[n] = new
      <3> HIDE DEF new
      <3>1. \A c \in 1 .. Len(hydra) + 1 :
               hydra'[c] = IF c <= Len(hydra) THEN hydra[c] ELSE new
        BY <1>1, <2>1, <2>5
      <3>2. DOMAIN hydra' = 1 .. Len(hydra) + 1
        BY <1>1, <2>1, <2>5
      <3> QED BY <2>5, <3>1, <3>2
    <2>7. cr.client = n /\ cr # NoCred
      BY <2>6 DEF NoCred
    <2> HIDE DEF new, cr, n
    <2>8. cred'[a] = cr /\ \A b \in Apps : b # a => cred'[b] = cred[b]
      BY <1>1, <2>1, <2>2
    <2>9. \A b \in Apps : b # a /\ Dead(hydra, b) => Dead(hydra', b)
      BY <2>5, <2>6 DEF Dead
    <2>10. Unique(hydra')
      BY <1>2, <2>4, <2>5, <2>6 DEF Unique
    <2>11. RowsClient(apps', outbox', hydra', cred')
      <3> SUFFICES ASSUME NEW b \in Apps
                   PROVE  /\ apps[b].status \notin Settled /\ cred'[b] = NoCred =>
                                \A c \in DOMAIN hydra' : hydra'[c].app # b
                          /\ cred'[b] # NoCred =>
                                apps[b].status = "provisioning" /\ outbox[b] # "none"
                          /\ apps[b].status = "revoked" => Dead(hydra', b)
        BY <2>1 DEF RowsClient
      <3>1. CASE b = a
        BY <2>3, <2>7, <2>8, <3>1
      <3>2. CASE b # a
        BY <1>2, <2>5, <2>6, <2>8, <2>9, <3>2 DEF RowsClient
      <3> QED BY <3>1, <3>2
    <2>12. Served(apps', hydra', cred')
      <3> SUFFICES ASSUME NEW b \in Apps, NEW c \in DOMAIN hydra', hydra'[c].app = b,
                          hydra'[c].live
                   PROVE  c = apps[b].client \/ (apps[b].status \in Statuses /\ c = cred'[b].client)
        BY <2>1 DEF Served
      <3>1. CASE c = n
        BY <2>3, <2>5, <2>6, <2>7, <2>8, <3>1 DEF Statuses
      <3>2. CASE c # n
        BY <1>2, <2>4, <2>6, <2>8, <3>2 DEF Served
      <3> QED BY <3>1, <3>2
    <2>13. ProvClient(apps', outbox', prov', cred')
      <3>1. WithCredentials(prov.copy, a, cr).client = cr.client
        BY <1>1, <1>6
      <3>2. prov'.id = a /\ prov'.pc = "save" /\ prov'.copy.client = cr.client
        BY <1>5, <2>2, <3>1
      <3> QED BY <2>1, <2>3, <2>7, <2>8, <3>2 DEF ProvClient
    <2>14. ASSUME NEW r \in Requests, req[r].todo # <<>>
           PROVE  HandlerClient(apps', hydra', req[r])
      <3>1. /\ req[r].id \in Apps /\ HandlerSeq(apps, outbox, prov, req[r])
            /\ HandlerClient(apps, hydra, req[r])
        BY <2>14 DEF TypeOK, SeqInv, ClientInv
      <3>2. CASE req[r].id = a
        BY <2>1, <2>3, <3>1, <3>2 DEF HandlerClient, HandlerSeq, Deletable
      <3>3. CASE req[r].id # a
        BY <2>1, <2>9, <3>1, <3>3, HandlerClientKept
      <3> QED BY <3>2, <3>3
    <2> QED BY <1>4, <2>10, <2>11, <2>12, <2>13, <2>14 DEF ClientInv
  <1>9. CASE SaveApproved
    <2> DEFINE a == prov.id
    <2>1. /\ a \in Apps /\ UNCHANGED <<outbox, hydra>> /\ prov.pc = "save"
      BY <1>1, <1>9 DEF SaveApproved, Worker
    <2>2. /\ apps[a].status = "provisioning" /\ prov.copy.status = "approved"
          /\ cred[a] # NoCred /\ prov.copy.client = cred[a].client
      BY <1>2, <2>1 DEF ProvSeq, ProvClient
    <2>3. /\ apps' = [apps EXCEPT ![a] = prov.copy] /\ cred' = [cred EXCEPT ![a] = NoCred]
          /\ prov' = [prov EXCEPT !.pc = "complete"]
      <3>1. Exists(a)
        BY <2>2 DEF Exists, Statuses
      <3> QED BY <1>9, <3>1 DEF SaveApproved, Goto, Fault, FailuresOnly
    <2>4. /\ apps'[a] = prov.copy /\ \A b \in Apps : b # a => apps'[b] = apps[b]
          /\ cred'[a] = NoCred /\ \A b \in Apps : b # a => cred'[b] = cred[b]
          /\ prov'.id = a /\ prov'.pc = "complete"
      BY <1>1, <1>5, <2>1, <2>3
    <2>5. RowsClient(apps', outbox', hydra', cred')
      <3> SUFFICES ASSUME NEW b \in Apps
                   PROVE  /\ apps'[b].status \notin Settled /\ cred'[b] = NoCred =>
                                \A c \in DOMAIN hydra : hydra[c].app # b
                          /\ cred'[b] # NoCred =>
                                apps'[b].status = "provisioning" /\ outbox[b] # "none"
                          /\ apps'[b].status = "revoked" => Dead(hydra, b)
        BY <2>1 DEF RowsClient
      <3>1. CASE b = a
        BY <2>2, <2>4, <3>1 DEF Settled
      <3>2. CASE b # a
        BY <1>2, <2>4, <3>2 DEF RowsClient
      <3> QED BY <3>1, <3>2
    <2>6. Served(apps', hydra', cred')
      <3> SUFFICES ASSUME NEW b \in Apps, NEW c \in DOMAIN hydra, hydra[c].app = b, hydra[c].live
                   PROVE  \/ c = apps'[b].client
                          \/ apps'[b].status \in Statuses /\ c = cred'[b].client
        BY <2>1 DEF Served
      <3>1. CASE b = a
        <4>1. apps[a].client = 0 /\ c # 0
          BY <1>1, <1>2, <2>1, <2>2, LenProperties DEF RowsSeq, Clean
        <4>2. c = cred[a].client
          BY <1>2, <3>1, <4>1 DEF Served
        <4> QED BY <2>2, <2>4, <3>1, <4>2
      <3>2. CASE b # a
        BY <1>2, <2>4, <3>2 DEF Served
      <3> QED BY <3>1, <3>2
    <2>7. ProvClient(apps', outbox', prov', cred')
      BY <2>2, <2>4 DEF ProvClient
    <2>8. ASSUME NEW r \in Requests, req[r].todo # <<>>
          PROVE  HandlerClient(apps', hydra', req[r])
      <3>1. /\ req[r].id \in Apps /\ HandlerSeq(apps, outbox, prov, req[r])
            /\ HandlerClient(apps, hydra, req[r])
        BY <2>8 DEF TypeOK, SeqInv, ClientInv
      <3>2. CASE req[r].id = a
        BY <2>1, <2>2, <3>1, <3>2 DEF HandlerClient, HandlerSeq, SaveOK, Quiet, Deletable
      <3>3. CASE req[r].id # a
        BY <2>1, <2>4, <3>1, <3>3, HandlerClientKept
      <3> QED BY <3>2, <3>3
    <2> QED BY <1>2, <1>4, <2>1, <2>5, <2>6, <2>7, <2>8 DEF ClientInv
  <1>10. CASE Complete \/ AuditProvisioned \/ Retry
    <2>1. /\ UNCHANGED <<apps, hydra, cred>>
          /\ prov' = ProvIdle \/ prov' = [prov EXCEPT !.pc = "audit"]
          /\ outbox' = outbox
             \/ (/\ prov.id \in Apps
                 /\ outbox' = [outbox EXCEPT ![prov.id] = IF @ = "none" THEN @ ELSE "done"])
             \/ (/\ prov.id \in Apps
                 /\ outbox' = [outbox EXCEPT ![prov.id] =
                                  IF @ \in {"none", "done"} THEN @ ELSE "waiting"])
      BY <1>1, <1>10 DEF Complete, AuditProvisioned, Retry, Worker
    <2>2. \A a \in Apps : outbox[a] # "none" => outbox'[a] # "none"
      BY <1>1, <2>1
    <2>3. prov'.id \in {prov.id, None} /\ prov'.pc \notin {"create", "save"}
      <3>1. CASE prov' = ProvIdle
        BY <1>3, <3>1
      <3>2. CASE prov' = [prov EXCEPT !.pc = "audit"]
        BY <1>5, <3>2
      <3> QED BY <2>1, <3>1, <3>2
    <2> QED BY <1>1, <1>4, <2>1, <2>2, <2>3, WorkerClientFinish
  <1>11. CASE WorkerCallFails
    <2>1. /\ UNCHANGED <<apps, outbox, hydra, cred>>
          /\ prov' = ProvIdle \/ prov' = [prov EXCEPT !.pc = "retry"]
      BY <1>11 DEF WorkerCallFails, afterFailure
    <2>2. prov'.id \in {prov.id, None} /\ prov'.pc \notin {"create", "save"}
      <3>1. CASE prov' = ProvIdle
        BY <1>3, <3>1
      <3>2. CASE prov' = [prov EXCEPT !.pc = "retry"]
        BY <1>5, <3>2
      <3> QED BY <2>1, <3>1, <3>2
    <2> QED BY <1>1, <1>4, <2>1, <2>2, WorkerClientFinish
  <1> QED BY <1>7, <1>8, <1>9, <1>10, <1>11 DEF RunOnce

LEMMA CallFailsClient ==
    ASSUME TypeOK, ReviewInv, SeqInv, ClientInv, Sequential, NEW r \in Requests, CallFails(r)
    PROVE  ClientInv'
  <1>1. UNCHANGED <<apps, outbox, hydra, cred, prov>> /\ InFlight(r) /\ OnError(r)
    BY DEF CallFails
  <1>2. ClientMoved(apps, hydra, r)
    BY <1>1, OnErrorClient
  <1>3. ClientMoved(apps', hydra', r)
    BY <1>1, <1>2
  <1> QED BY <1>1, <1>3, ClientFinish DEF ClientInv

LEMMA NextClient ==
    ASSUME TypeOK, CredentialInv, ReviewInv, SeqInv, ClientInv, Sequential, FailuresOnly,
           [Next]_vars
    PROVE  ClientInv'
  <1>1. ASSUME NEW r \in Requests, Start(r) PROVE ClientInv'
    BY <1>1, StartClient
  <1>2. ASSUME NEW r \in Requests, Step(r) PROVE ClientInv'
    BY <1>2, StepClient
  <1>3. ASSUME NEW r \in Requests, CallFails(r) PROVE ClientInv'
    BY <1>3, CallFailsClient
  <1>4. ASSUME NEW a \in Apps, UNCHANGED <<apps, hydra, cred, req>>,
               NEW st, outbox' = [outbox EXCEPT ![a] = st],
               st # "none", prov' = Claimed(a) \/ prov' = prov
        PROVE  ClientInv'
    <2>1. outbox'[a] = st /\ \A b \in Apps : b # a => outbox'[b] = outbox[b]
      BY <1>4 DEF TypeOK
    <2>2. Claimed(a).id = a /\ Claimed(a).pc = "get"
      BY DEF Claimed, ProvIdle
    <2>3. prov'.id \in Apps => prov'.id = prov.id \/ outbox'[prov'.id] # "none"
      BY <1>4, <2>1, <2>2
    <2>4. prov'.pc \in {"create", "save"} => ProvClient(apps, outbox, prov', cred)
      BY <1>4, <2>2 DEF ClientInv
    <2> QED BY <1>4, <2>1, <2>3, <2>4, WorkerClientFinish
  <1>5. ASSUME NEW a \in Apps, ClaimNext(a) PROVE ClientInv'
    BY <1>4, <1>5 DEF ClaimNext
  <1>6. ASSUME NEW a \in Apps, RetryDelayPasses(a) \/ ClaimTimesOut(a) PROVE ClientInv'
    BY <1>4, <1>6 DEF RetryDelayPasses, ClaimTimesOut
  <1>7. CASE RunOnce \/ WorkerCallFails
    BY <1>7, WorkerClient
  <1>8. CASE Crash
    BY <1>8 DEF Crash, Fault, FailuresOnly
  <1>9. CASE UNCHANGED vars
    <2>1. UNCHANGED <<apps, outbox, hydra, cred, prov, req>>
      BY <1>9 DEF vars
    <2> QED BY <2>1 DEF ClientInv
  <1> QED BY <1>1, <1>2, <1>3, <1>5, <1>6, <1>7, <1>8, <1>9 DEF Next

LEMMA ClientSafety ==
    ASSUME Sequential, FailuresOnly
    PROVE  Spec => [](TypeOK /\ CredentialInv /\ ReviewInv /\ SeqInv /\ ClientInv)
  <1>1. NoLateRollback
    BY DEF NoLateRollback, FailuresOnly
  <1>2. Init => ClientInv
    <2> SUFFICES ASSUME Init PROVE ClientInv
      OBVIOUS
    <2>1. \A r \in Requests : req[r].todo = <<>>
      BY RowTypes DEF Init
    <2>2. DOMAIN hydra = {} /\ \A a \in Apps : cred[a] = NoCred /\ apps[a].status = "absent"
      BY DEF Init, NoRow
    <2>3. prov.id \notin Apps /\ prov.pc = "idle"
      BY Assumptions DEF Init, ProvIdle
    <2> QED BY <2>1, <2>2, <2>3
        DEF ClientInv, Unique, RowsClient, Served, ProvClient
  <1>3. /\ TypeOK /\ CredentialInv /\ ReviewInv /\ SeqInv /\ ClientInv /\ [Next]_vars
        => ClientInv'
    BY NextClient
  <1> QED BY <1>1, <1>2, <1>3, TypeCorrect, CredentialSafety, ReviewSafety, SeqSafety, PTL
      DEF Spec

-----------------------------------------------------------------------------
(* When no call fails, the event of an application is handled once, however   *)
(* requests overlap: an event that is done is not enqueued again, and the     *)
(* worker completes it before it claims the next.                             *)

HasClient(H, a) == \E c \in DOMAIN H : H[c].app = a

OnceRow(A, O, H, p, a) ==
    /\ A[a].status = "deleted" => O[a] = "none"
    /\ HasClient(H, a) =>
          \/ O[a] = "done" \/ A[a].status = "deleted"
          \/ p.id = a /\ p.pc \in {"save", "complete"}
    /\ p.id = a => O[a] # "none" \/ A[a].status = "deleted"
    /\ p.id = a /\ p.pc \in {"get", "create"} => ~HasClient(H, a)
    /\ p.id = a /\ p.pc = "retry" => A[a].status = "deleted"

OnceInv == Unique(hydra) /\ \A a \in Apps : OnceRow(apps, outbox, hydra, prov, a)

(* A handler's step, seen from application a. *)
LEMMA HandlerOnce ==
    ASSUME OnceInv, Unique(hydra'), NEW a \in Apps,
           prov' = prov, HasClient(hydra', a) <=> HasClient(hydra, a),
           \/ outbox'[a] = outbox[a] /\ (apps'[a].status = "deleted" <=> apps[a].status = "deleted")
           \/ outbox'[a] = "none" /\ apps'[a].status = "deleted"
           \/ /\ outbox[a] = "none" /\ outbox'[a] = "ready"
              /\ apps'[a].status # "deleted" /\ apps[a].status # "deleted"
    PROVE  OnceRow(apps', outbox', hydra', prov', a)
  <1>1. OnceRow(apps, outbox, hydra, prov, a)
    BY DEF OnceInv
  <1> QED BY <1>1 DEF OnceRow

LEMMA StepOnce ==
    ASSUME TypeOK, ReviewInv, OnceInv, NEW r \in Requests, Step(r)
    PROVE  OnceInv'
  <1> DEFINE id == req[r].id
  <1> DEFINE t == req[r].todo
  <1> DEFINE copy == req[r].copy
  <1>1. InFlight(r) /\ prov' = prov
    BY DEF Step, StoreCreate, StoreGet, StoreSelect, StoreTransition, StoreSave,
       StoreEnqueue, StoreAudit, StoreDelete, UpdateClient, DeleteClient, NextCall
  <1>2. /\ Head(t) \in Calls /\ id \in Apps
        /\ apps \in [Apps -> Row] /\ outbox \in [Apps -> OutboxStates]
    BY <1>1, HandlerTypes DEF TypeOK
  <1>3. HandlerOK(apps, audit, req[r])
    BY <1>1 DEF ReviewInv, HandlersOK, InFlight
  <1>4. Head(t) = t[1] /\ (Writer(Head(t)) => Faithful(apps, id, copy))
    BY <1>1, <1>3, HeadFacts
  <1>5. Unique(hydra') /\ \A a : HasClient(hydra', a) <=> HasClient(hydra, a)
    <2>1. DOMAIN hydra' = DOMAIN hydra /\ \A c \in DOMAIN hydra : hydra'[c].app = hydra[c].app
      <3>1. CASE UpdateClient(r) \/ DeleteClient(r)
        BY <3>1, UpdateClientHydra
      <3>2. CASE ~(UpdateClient(r) \/ DeleteClient(r))
        BY <3>2 DEF Step, StoreCreate, StoreGet, StoreSelect, StoreTransition, StoreSave,
           StoreEnqueue, StoreAudit, StoreDelete, Refused
      <3> QED BY <3>1, <3>2
    <2> QED BY <2>1 DEF HasClient, OnceInv, Unique
  <1>6. ASSUME outbox' = outbox, NEW row, apps' = [apps EXCEPT ![id] = row],
               row.status # "deleted", apps[id].status # "deleted"
        PROVE  OnceInv'
    <2>1. \A a \in Apps : apps'[a].status = "deleted" <=> apps[a].status = "deleted"
      BY <1>2, <1>6
    <2> QED BY <1>1, <1>5, <1>6, <2>1, HandlerOnce DEF OnceInv
  <1>7. ASSUME UNCHANGED <<apps, outbox>> PROVE OnceInv'
    BY <1>1, <1>5, <1>7, HandlerOnce DEF OnceInv
  <1>8. CASE StoreCreate(r)
    <2>1. t[1].call = "create" /\ outbox' = outbox /\ apps' = [apps EXCEPT ![id] = copy]
      BY <1>4, <1>8 DEF StoreCreate, NextCall
    <2>2. copy.status = "draft" /\ apps[id].status = "absent"
      BY <1>3, <2>1 DEF HandlerOK
    <2> QED BY <1>6, <2>1, <2>2
  <1>9. CASE StoreTransition(r) /\ ~Refused(r)
    <2>1. /\ t[1].call = "transition" /\ outbox' = outbox /\ apps[id].status = Head(t).pre
          /\ apps' = [apps EXCEPT ![id].status = Head(t).post]
      BY <1>4, <1>9 DEF StoreTransition, NextCall
    <2>2. PICK row : row = [apps[id] EXCEPT !.status = Head(t).post]
      OBVIOUS
    <2>3. row.status = Head(t).post
      BY <1>2, <2>2 DEF Row
    <2>4. Head(t).pre # "deleted" /\ Head(t).post # "deleted"
      BY <1>2, <1>4, <2>1 DEF Calls, CallTo, TransitionCall
    <2>5. apps' = [apps EXCEPT ![id] = row]
      BY <2>1, <2>2
    <2> QED BY <1>6, <2>1, <2>3, <2>4, <2>5
  <1>10. CASE StoreSave(r) /\ ~Refused(r)
    <2>1. /\ t[1].call = "save" /\ outbox' = outbox /\ apps' = [apps EXCEPT ![id] = copy]
          /\ Exists(id)
      BY <1>4, <1>10 DEF StoreSave, NextCall
    <2>2. copy.status \in Statuses /\ apps[id].status \in Statuses
      BY <1>4, <2>1 DEF Writer, Faithful, Exists
    <2> QED BY <1>6, <2>1, <2>2 DEF Statuses
  <1>11. CASE StoreEnqueue(r) /\ ~Refused(r)
    <2>1. /\ apps' = apps /\ Exists(id)
          /\ outbox' = [outbox EXCEPT ![id] = IF @ = "none" THEN "ready" ELSE @]
      BY <1>11 DEF StoreEnqueue
    <2>2. /\ outbox'[id] = IF outbox[id] = "none" THEN "ready" ELSE outbox[id]
          /\ \A a \in Apps : a # id => outbox'[a] = outbox[a]
      BY <1>2, <2>1
    <2>3. apps[id].status # "deleted"
      BY <2>1 DEF Exists, Statuses
    <2>4. ASSUME NEW a \in Apps PROVE OnceRow(apps', outbox', hydra', prov', a)
      <3>1. CASE outbox'[a] = outbox[a]
        BY <1>1, <1>5, <2>1, <3>1, HandlerOnce
      <3>2. CASE outbox'[a] # outbox[a]
        <4>1. a = id /\ outbox[a] = "none" /\ outbox'[a] = "ready"
          BY <2>2, <3>2
        <4> QED BY <1>1, <1>5, <2>1, <2>3, <4>1, HandlerOnce
      <3> QED BY <3>1, <3>2
    <2> QED BY <1>5, <2>4 DEF OnceInv
  <1>12. CASE StoreDelete(r) /\ ~Refused(r)
    <2>1. /\ apps' = [apps EXCEPT ![id] = NoRow("deleted")]
          /\ outbox' = [outbox EXCEPT ![id] = "none"]
      BY <1>12 DEF StoreDelete
    <2>2. /\ apps'[id].status = "deleted" /\ outbox'[id] = "none"
          /\ \A a \in Apps : a # id => apps'[a] = apps[a] /\ outbox'[a] = outbox[a]
      BY <1>2, <2>1 DEF NoRow
    <2> QED BY <1>1, <1>5, <2>2, HandlerOnce DEF OnceInv
  <1>13. CASE Refused(r) \/ StoreGet(r) \/ StoreSelect(r) \/ StoreAudit(r) \/ UpdateClient(r)
              \/ DeleteClient(r)
    BY <1>7, <1>13 DEF StoreGet, StoreSelect, StoreAudit, UpdateClient, DeleteClient, Refused
  <1> QED BY <1>8, <1>9, <1>10, <1>11, <1>12, <1>13 DEF Step

(* The worker: p and O are its state and the outbox after a step that creates *)
(* no client.                                                                 *)
LEMMA WorkerOnce ==
    ASSUME TypeOK, CredentialInv, ReviewInv, OnceInv, RunOnce, NoFaults
    PROVE  OnceInv'
  <1> DEFINE a == prov.id
  <1>1. /\ apps \in [Apps -> Row] /\ outbox \in [Apps -> OutboxStates]
        /\ prov \in [pc : {"idle", "get", "create", "save", "complete", "audit", "retry",
                           "drop"}, id : Apps \cup {None}, copy : Row]
        /\ a \in Apps
    BY DEF TypeOK, RunOnce, GetApplication, CreateClient, SaveApproved, Complete,
       AuditProvisioned, Retry, Worker
  <1>2. OnceRow(apps, outbox, hydra, prov, a) /\ apps[a].status # "absent"
    BY <1>1 DEF OnceInv, ReviewInv, ProvOK
  <1>3. ProvIdle.id = None /\ ProvIdle.pc = "idle" /\ None \notin Apps
    BY Assumptions DEF ProvIdle
  <1>4. ~\E kind : Fault(kind)
    BY DEF Fault, NoFaults
  <1>5. \A pc : [prov EXCEPT !.pc = pc].id = a /\ [prov EXCEPT !.pc = pc].pc = pc
    BY <1>1
  (* The rows of the other applications. *)
  <1>6. ASSUME NEW b \in Apps, b # a, outbox'[b] = outbox[b], apps'[b] = apps[b],
               HasClient(hydra', b) <=> HasClient(hydra, b), prov'.id \in {a, None}
        PROVE  OnceRow(apps', outbox', hydra', prov', b)
    <2>1. OnceRow(apps, outbox, hydra, prov, b)
      BY DEF OnceInv
    <2> QED BY <1>3, <1>6, <2>1 DEF OnceRow
  <1>7. ASSUME UNCHANGED <<apps, hydra>>, \A b \in Apps : b # a => outbox'[b] = outbox[b],
               prov'.id \in {a, None}, OnceRow(apps', outbox', hydra', prov', a)
        PROVE  OnceInv'
    <2>1. \A b \in Apps : OnceRow(apps', outbox', hydra', prov', b)
      BY <1>6, <1>7
    <2>2. Unique(hydra')
      BY <1>7 DEF OnceInv
    <2> QED BY <2>1, <2>2 DEF OnceInv
  <1>8. CASE GetApplication
    <2>1. Worker("get") /\ UNCHANGED <<apps, outbox, hydra>> /\ ~HasClient(hydra, a)
      BY <1>2, <1>8 DEF GetApplication, Worker, OnceRow
    <2>2. cred[a] = NoCred
      BY <1>1, <2>1 DEF CredentialInv, HasClient
    <2>3. \/ ~Exists(a) /\ prov' = [prov EXCEPT !.pc = "retry"]
          \/ prov' = [prov EXCEPT !.pc = "drop"]
          \/ prov' = [prov EXCEPT !.pc = "create", !.copy = apps[a]]
      BY <1>8, <2>2 DEF GetApplication, Goto, keptCredentials
    <2>4. apps[a].status \in Statuses \cup NoStatus
      BY <1>1 DEF Row
    <2>5. /\ prov'.id = a /\ prov'.pc \in {"retry", "drop", "create"}
          /\ prov'.pc = "retry" => apps[a].status = "deleted"
      BY <1>1, <1>2, <2>3, <2>4 DEF Exists, NoStatus
    <2>6. OnceRow(apps', outbox', hydra', prov', a)
      BY <1>2, <2>1, <2>5 DEF OnceRow
    <2> QED BY <1>7, <2>1, <2>5, <2>6
  <1>9. CASE CreateClient
    <2>1. /\ Worker("create") /\ UNCHANGED <<apps, outbox>> /\ ~HasClient(hydra, a)
      BY <1>2, <1>9 DEF CreateClient, Worker, OnceRow
    <2>2. PICK c : prov' = [prov EXCEPT !.pc = "save", !.copy = c]
      BY <1>4, <1>9 DEF CreateClient
    <2>3. prov'.id = a /\ prov'.pc = "save"
      BY <1>1, <2>2
    <2>4. /\ DOMAIN hydra' = DOMAIN hydra \cup {Len(hydra) + 1}
          /\ \A i \in DOMAIN hydra : hydra'[i] = hydra[i]
          /\ hydra'[Len(hydra) + 1].app = a
      BY <1>9, CreatedHydra
    <2>5. Unique(hydra')
      BY <2>1, <2>4 DEF OnceInv, Unique, HasClient
    <2>6. \A b : b # a => (HasClient(hydra', b) <=> HasClient(hydra, b))
      BY <2>4 DEF HasClient
    <2>7. OnceRow(apps', outbox', hydra', prov', a)
      BY <1>2, <2>1, <2>3 DEF OnceRow
    <2>8. \A b \in Apps : OnceRow(apps', outbox', hydra', prov', b)
      BY <1>6, <2>1, <2>3, <2>6, <2>7
    <2> QED BY <2>5, <2>8 DEF OnceInv
  <1>10. CASE SaveApproved
    <2>1. Worker("save") /\ UNCHANGED <<outbox, hydra>>
      BY <1>10 DEF SaveApproved
    <2>2. CASE ~Exists(a)
      <3>1. apps' = apps /\ prov' = [prov EXCEPT !.pc = "retry"]
        BY <1>10, <2>2 DEF SaveApproved, Goto
      <3>2. apps[a].status \in Statuses \cup NoStatus
        BY <1>1 DEF Row
      <3>3. apps[a].status = "deleted"
        BY <1>2, <2>2, <3>2 DEF Exists, NoStatus
      <3>4. prov'.id = a /\ prov'.pc = "retry"
        BY <1>5, <3>1
      <3>5. OnceRow(apps', outbox', hydra', prov', a)
        BY <1>2, <2>1, <3>1, <3>3, <3>4 DEF OnceRow
      <3> QED BY <1>7, <2>1, <3>1, <3>4, <3>5
    <2>3. CASE Exists(a)
      <3>1. apps' = [apps EXCEPT ![a] = prov.copy] /\ prov' = [prov EXCEPT !.pc = "complete"]
        BY <1>4, <1>10, <2>3 DEF SaveApproved, Goto
      <3>2. apps'[a] = prov.copy /\ \A b \in Apps : b # a => apps'[b] = apps[b]
        BY <1>1, <3>1
      <3>3. prov.copy.status # "deleted" /\ apps[a].status # "deleted"
        BY <2>1, <2>3 DEF Worker, ReviewInv, ProvOK, Faithful, Exists, Statuses
      <3>4. prov'.id = a /\ prov'.pc = "complete"
        BY <1>5, <3>1
      <3>5. OnceRow(apps', outbox', hydra', prov', a)
        BY <1>2, <2>1, <3>2, <3>3, <3>4 DEF OnceRow
      <3>6. \A b \in Apps : OnceRow(apps', outbox', hydra', prov', b)
        BY <1>6, <2>1, <3>2, <3>4, <3>5
      <3> QED BY <2>1, <3>6 DEF OnceInv
    <2> QED BY <2>2, <2>3
  <1>11. CASE Complete
    <2>1. /\ UNCHANGED <<apps, hydra>>
          /\ outbox' = [outbox EXCEPT ![a] = IF @ = "none" THEN @ ELSE "done"]
          /\ prov' = [prov EXCEPT !.pc = "audit"] \/ prov' = ProvIdle
      BY <1>11 DEF Complete
    <2>2. /\ outbox'[a] = IF outbox[a] = "none" THEN "none" ELSE "done"
          /\ \A b \in Apps : b # a => outbox'[b] = outbox[b]
      BY <1>1, <2>1
    <2>3. prov'.id \in {a, None} /\ prov'.pc \in {"audit", "idle"}
      BY <1>3, <1>5, <2>1
    <2>4. apps' = apps /\ hydra' = hydra
      BY <1>11 DEF Complete
    <2>5. OnceRow(apps', outbox', hydra', prov', a)
      BY <1>2, <2>2, <2>3, <2>4 DEF OnceRow
    <2> QED BY <1>7, <2>2, <2>3, <2>4, <2>5
  <1>12. CASE AuditProvisioned
    <2>1. UNCHANGED <<apps, outbox, hydra>> /\ prov' = ProvIdle /\ Worker("audit")
      BY <1>12 DEF AuditProvisioned
    <2>2. OnceRow(apps', outbox', hydra', prov', a)
      BY <1>1, <1>2, <1>3, <2>1 DEF OnceRow, Worker
    <2> QED BY <1>3, <1>7, <2>1, <2>2
  <1>13. CASE Retry
    <2>1. /\ UNCHANGED <<apps, hydra>> /\ prov' = ProvIdle /\ Worker("retry")
          /\ outbox' = [outbox EXCEPT ![a] = IF @ \in {"none", "done"} THEN @ ELSE "waiting"]
      BY <1>13 DEF Retry
    <2>2. apps[a].status = "deleted" /\ outbox[a] = "none"
      BY <1>2, <2>1 DEF OnceRow, Worker
    <2>3. outbox'[a] = "none" /\ \A b \in Apps : b # a => outbox'[b] = outbox[b]
      BY <1>1, <2>1, <2>2
    <2>4. OnceRow(apps', outbox', hydra', prov', a)
      BY <1>1, <1>3, <2>1, <2>2, <2>3 DEF OnceRow
    <2> QED BY <1>3, <1>7, <2>1, <2>3, <2>4
  <1> QED BY <1>8, <1>9, <1>10, <1>11, <1>12, <1>13 DEF RunOnce

LEMMA OnceSafety ==
    ASSUME NoFaults
    PROVE  Spec => []OnceInv
  <1>1. Init => OnceInv
    <2> SUFFICES ASSUME Init PROVE OnceInv
      OBVIOUS
    <2>1. hydra = <<>> /\ prov.id = None /\ \A a \in Apps : apps[a].status = "absent"
      BY DEF Init, ProvIdle, NoRow
    <2> QED BY <2>1, Assumptions DEF OnceInv, OnceRow, Unique, HasClient
  <1>2. TypeOK /\ CredentialInv /\ ReviewInv /\ OnceInv /\ [Next]_vars => OnceInv'
    <2> SUFFICES ASSUME TypeOK, CredentialInv, ReviewInv, OnceInv, [Next]_vars PROVE OnceInv'
      OBVIOUS
    <2>1. ASSUME UNCHANGED <<apps, outbox, hydra, prov>> PROVE OnceInv'
      BY <2>1 DEF OnceInv, OnceRow, HasClient, Unique
    <2>2. ASSUME NEW r \in Requests, Start(r) PROVE OnceInv'
      <3>1. UNCHANGED <<apps, outbox, hydra, prov>>
        BY <2>2 DEF Start, CreateDraft, UpdateDraft, Submit, ViewSecret, RotateSecret, Revoke,
                    Delete, Approve, Reject, RequestChanges, decide, prepareReview, Begin
      <3> QED BY <2>1, <3>1
    <2>3. ASSUME NEW r \in Requests, Step(r) PROVE OnceInv'
      BY <2>3, StepOnce
    <2>4. CASE RunOnce
      BY <2>4, WorkerOnce
    <2>5. ASSUME NEW a \in Apps, UNCHANGED <<apps, hydra>>, outbox[a] \notin {"none", "done"},
                 \/ outbox' = [outbox EXCEPT ![a] = "ready"] /\ prov' = prov
                 \/ /\ outbox' = [outbox EXCEPT ![a] = "claimed"] /\ prov' = Claimed(a)
                    /\ prov.pc = "idle"
          PROVE  OnceInv'
      <3>1. outbox'[a] \in {"ready", "claimed"} /\ \A b \in Apps : b # a => outbox'[b] = outbox[b]
        BY <2>5 DEF TypeOK
      <3>2. Claimed(a).id = a /\ Claimed(a).pc = "get"
        BY DEF Claimed, ProvIdle
      <3>3. ASSUME NEW b \in Apps PROVE OnceRow(apps', outbox', hydra', prov', b)
        <4>1. OnceRow(apps, outbox, hydra, prov, b)
          BY DEF OnceInv
        <4>2. CASE prov' = prov
          BY <2>5, <3>1, <4>1, <4>2 DEF OnceRow, HasClient
        <4>3. CASE prov' = Claimed(a) /\ prov.pc = "idle"
          BY <2>5, <3>1, <3>2, <4>1, <4>3 DEF OnceRow, HasClient
        <4> QED BY <2>5, <4>2, <4>3
      <3>4. Unique(hydra')
        BY <2>5 DEF OnceInv
      <3> QED BY <3>3, <3>4 DEF OnceInv
    <2>6. ASSUME NEW a \in Apps, ClaimNext(a) \/ RetryDelayPasses(a) \/ ClaimTimesOut(a)
          PROVE  OnceInv'
      <3>1. CASE ClaimNext(a)
        <4>1. ~Fault("lost")
          BY DEF Fault, NoFaults
        <4>2. /\ UNCHANGED <<apps, hydra>> /\ outbox[a] = "ready" /\ prov.pc = "idle"
              /\ outbox' = [outbox EXCEPT ![a] = "claimed"] /\ prov' = Claimed(a)
          BY <3>1, <4>1 DEF ClaimNext, Worker
        <4> QED BY <2>5, <4>2
      <3>2. CASE RetryDelayPasses(a) \/ ClaimTimesOut(a)
        <4>1. /\ UNCHANGED <<apps, hydra>> /\ outbox[a] \in {"waiting", "claimed"}
              /\ outbox' = [outbox EXCEPT ![a] = "ready"] /\ prov' = prov
          BY <3>2 DEF RetryDelayPasses, ClaimTimesOut
        <4> QED BY <2>5, <4>1
      <3> QED BY <2>6, <3>1, <3>2
    <2>7. ASSUME WorkerCallFails \/ Crash \/ \E r \in Requests : CallFails(r) PROVE FALSE
      BY <2>7 DEF WorkerCallFails, Crash, CallFails, Fault, NoFaults
    <2>8. CASE UNCHANGED vars
      BY <2>1, <2>8 DEF vars
    <2> QED BY <2>2, <2>3, <2>4, <2>6, <2>7, <2>8 DEF Next
  <1> QED BY <1>1, <1>2, TypeCorrect, CredentialSafety, ReviewSafety, PTL DEF Spec

(* Repeating the provisioning task creates no second client in Hydra.  While  *)
(* requests do not overlap and no answer or credential is lost, a failed save *)
(* leaves the credentials with the worker, which looks there before it calls  *)
(* CreateClient again, however often the attempt is retried.  When no call    *)
(* fails, requests may overlap in any way.                                    *)
THEOREM OneClientPerApplication ==
    ASSUME (Sequential /\ FailuresOnly) \/ NoFaults
    PROVE  Spec => []AtMostOneClient
  <1>1. Unique(hydra) => AtMostOneClient
    <2> SUFFICES ASSUME Unique(hydra), NEW a \in Apps
                 PROVE  Cardinality(ClientsOf(a)) <= 1
      BY DEF AtMostOneClient
    <2>1. CASE ClientsOf(a) = {}
      BY <2>1, FS_EmptySet
    <2>2. CASE ClientsOf(a) # {}
      <3>1. PICK c : c \in ClientsOf(a)
        BY <2>2
      <3>2. ClientsOf(a) = {c}
        BY <3>1 DEF ClientsOf, Unique
      <3>3. Cardinality({c}) = 1
        BY FS_Singleton
      <3> QED BY <3>2, <3>3
    <2> QED BY <2>1, <2>2
  <1>2. CASE Sequential /\ FailuresOnly
    <2>1. ClientInv => Unique(hydra)
      BY DEF ClientInv
    <2> QED BY <1>1, <1>2, <2>1, ClientSafety, PTL
  <1>3. CASE NoFaults
    <2>1. OnceInv => Unique(hydra)
      BY DEF OnceInv
    <2> QED BY <1>1, <1>3, <2>1, OnceSafety, PTL
  <1> QED BY <1>2, <1>3

(* While requests do not overlap and calls fail only without effect, every    *)
(* client that Hydra serves is named by its application's row or by the       *)
(* credentials with which the worker will save it: Delete and Revoke remove   *)
(* the client before they touch the row, and no whole-row save drops a client *)
(* id.                                                                        *)
THEOREM ServedClientsKnown ==
    ASSUME Sequential, FailuresOnly
    PROVE  Spec => []NoOrphanClient
  <1>1. ClientInv => NoOrphanClient
    BY DEF ClientInv, Served, NoOrphanClient, ClientsOf, Exists
  <1> QED BY <1>1, ClientSafety, PTL

-----------------------------------------------------------------------------
(* What Delete and Revoke leave behind, with lost answers and restarts too.   *)

(* Hydra does not serve the client the row names. *)
Off(A, H, a) == A[a].client # 0 => ~H[A[a].client].live

HandlerRetire(A, H, q) ==
    /\ q.copy.status # "revoked"
    /\ q.todo[1].call = "deleteClient" =>
          A[q.id].status = "approved" /\ q.copy.client = A[q.id].client
    /\ q.todo[1].call = "transition" /\ q.todo[1].post = "revoked" =>
          A[q.id].status = "approved" /\ Off(A, H, q.id)
    /\ q.todo[1].call # "deleteClient" /\ (\E i \in DOMAIN q.todo : q.todo[i].call = "delete") =>
          Off(A, H, q.id)

RetireInv ==
    /\ \A a \in Apps : apps[a].status = "revoked" => Off(apps, hydra, a)
    /\ \A r \in Requests : req[r].todo # <<>> => HandlerRetire(apps, hydra, req[r])

RetireMoved(A, H, r) ==
    \E q : req' = [req EXCEPT ![r] = q] /\ (q.todo # <<>> => HandlerRetire(A, H, q))

LEMMA RetireFinish ==
    ASSUME TypeOK, Sequential, NEW r \in Requests, RetireMoved(apps', hydra', r),
           \A a \in Apps : apps'[a].status = "revoked" => Off(apps', hydra', a)
    PROVE  RetireInv'
  <1>1. PICK q : req' = [req EXCEPT ![r] = q] /\ (q.todo # <<>> => HandlerRetire(apps', hydra', q))
    BY DEF RetireMoved
  <1>2. req'[r] = q
    BY <1>1 DEF TypeOK
  <1> QED BY <1>1, <1>2 DEF RetireInv, Sequential

LEMMA OnErrorRetire ==
    ASSUME TypeOK, RetireInv, NEW r \in Requests, InFlight(r), OnError(r), NEW A, NEW H
    PROVE  RetireMoved(A, H, r)
  <1>1. CASE Head(req[r].todo) # EnqueueDraft
    <2>1. req' = [req EXCEPT ![r] = Idle]
      BY <1>1 DEF OnError, EnqueueDraft
    <2> QED BY <2>1, RowTypes DEF RetireMoved
  <1>2. CASE Head(req[r].todo) = EnqueueDraft
    <2> DEFINE q == [req[r] EXCEPT !.todo = <<SaveCall>>]
    <2>1. req' = [req EXCEPT ![r] = q]
      BY <1>2 DEF OnError, EnqueueDraft
    <2>2. q.copy = req[r].copy /\ q.todo = <<SaveCall>>
      BY DEF TypeOK, Request
    <2> HIDE DEF q
    <2>3. q.todo[1].call = "save" /\ \A i \in DOMAIN q.todo : q.todo[i].call # "delete"
      BY <2>2, FixedCalls
    <2>4. q.copy.status # "revoked"
      BY <2>2 DEF RetireInv, InFlight, HandlerRetire
    <2>5. HandlerRetire(A, H, q)
      BY <2>3, <2>4 DEF HandlerRetire
    <2> QED BY <2>1, <2>5 DEF RetireMoved
  <1> QED BY <1>1, <1>2

LEMMA ReplyRetire ==
    ASSUME TypeOK, ReviewInv, SeqInv, RetireInv, NEW r \in Requests, InFlight(r),
           NEW A, NEW H, NEW c, Advance(r, c) \/ Reply(r, c) \/ OnError(r),
           c.status # "revoked",
           req[r].todo[1].call = "deleteClient" =>
               A[req[r].id].status = "approved" /\ Off(A, H, req[r].id),
           req[r].todo[1].call = "audit" =>
               (Off(apps, hydra, req[r].id) => Off(A, H, req[r].id))
    PROVE  RetireMoved(A, H, r)
  <1> DEFINE t == req[r].todo
  <1> DEFINE u == Tail(t)
  <1> DEFINE q == [req[r] EXCEPT !.copy = c, !.todo = u]
  <1>1. /\ req[r] \in Request /\ t \in Seq(Calls) /\ t # <<>>
        /\ Ordered(t) /\ Shape(t) /\ Follow(t) /\ HandlerRetire(apps, hydra, req[r])
    BY DEF TypeOK, InFlight, Request, ReviewInv, HandlersOK, HandlerOK, SeqInv, HandlerSeq,
       RetireInv
  <1>2. CASE OnError(r)
    BY <1>2, OnErrorRetire
  <1>3. CASE Advance(r, c) /\ u = <<>>
    <2>1. req' = [req EXCEPT ![r] = Idle]
      BY <1>3 DEF Advance
    <2> QED BY <2>1, RowTypes DEF RetireMoved
  <1>4. CASE Advance(r, c) /\ u # <<>>
    <2>1. req' = [req EXCEPT ![r] = q]
      BY <1>4 DEF Advance
    <2>2. q.id = req[r].id /\ q.copy = c /\ q.todo = u
      BY <1>1 DEF Request
    <2>3. /\ u[1].call # "deleteClient"
          /\ u[1].call = "transition" /\ u[1].post = "revoked" => t[1].call = "deleteClient"
          /\ \A i \in DOMAIN u : u[i].call = "delete" =>
                /\ t[1].call \in {"deleteClient", "audit"}
                /\ i + 1 \in DOMAIN t /\ t[i + 1].call = "delete"
      BY <1>1, <1>4, StageAfter
    <2> HIDE DEF q, u
    <2>4. (\E i \in DOMAIN u : u[i].call = "delete") => Off(A, H, q.id)
      BY <1>1, <2>2, <2>3 DEF HandlerRetire
    <2>5. HandlerRetire(A, H, q)
      BY <2>2, <2>3, <2>4 DEF HandlerRetire
    <2> QED BY <2>1, <2>5 DEF RetireMoved
  <1> QED BY <1>2, <1>3, <1>4 DEF Reply

(* The operations that start a handler. *)
LEMMA StartRetire ==
    ASSUME TypeOK, SeqInv, RetireInv, Sequential, NEW r \in Requests, Start(r)
    PROVE  RetireInv'
  <1>1. \A a \in Apps : apps[a] \in Row /\ Clean(apps[a])
    BY DEF TypeOK, SeqInv, RowsSeq
  <1>2. ASSUME NEW u, NEW a, NEW copy, NEW todo, Begin(r, u, a, copy, todo),
               copy.status # "revoked",
               todo[1].call = "deleteClient" =>
                   apps[a].status = "approved" /\ copy.client = apps[a].client,
               ~(todo[1].call = "transition" /\ todo[1].post = "revoked"),
               todo[1].call # "deleteClient" /\ (\E i \in DOMAIN todo : todo[i].call = "delete")
                   => Off(apps, hydra, a)
        PROVE  RetireInv'
    <2> DEFINE q == [actor |-> u, id |-> a, copy |-> copy, todo |-> todo]
    <2>1. req' = [req EXCEPT ![r] = q] /\ UNCHANGED <<apps, hydra>>
      BY <1>2 DEF Begin
    <2>2. q.id = a /\ q.copy = copy /\ q.todo = todo
      OBVIOUS
    <2> HIDE DEF q
    <2>3. HandlerRetire(apps, hydra, q)
      BY <1>2, <2>2 DEF HandlerRetire
    <2>4. RetireMoved(apps', hydra', r)
      BY <2>1, <2>3 DEF RetireMoved
    <2> QED BY <2>1, <2>4, RetireFinish DEF RetireInv
  <1>3. ASSUME NEW u, NEW a, NEW copy, NEW todo, NEW F, NEW S, Begin(r, u, a, copy, todo),
               copy.status # "revoked", Opens(todo, F, S), "deleteClient" \notin F,
               ~(todo[1].call = "transition" /\ todo[1].post = "revoked")
        PROVE  RetireInv'
    <2>1. todo[1].call \in F /\ ~\E i \in DOMAIN todo : todo[i].call = "delete"
      BY <1>3 DEF Opens
    <2> QED BY <1>2, <1>3, <2>1
  <1>4. NoRow("absent").status = "absent"
    BY DEF NoRow
  <1>5. CASE CreateDraft(r)
    <2>1. PICK u \in Users, a \in Apps, p \in Profiles :
             Begin(r, u, a, [NoRow("draft") EXCEPT !.owner = u, !.profile = p], CreateCalls)
      BY <1>5 DEF CreateDraft, CreateCalls
    <2>2. [NoRow("draft") EXCEPT !.owner = u, !.profile = p].status # "revoked"
      BY DEF NoRow
    <2>3. CreateCalls[1].call = "create"
      BY CreateOrder
    <2> QED BY <1>3, <2>1, <2>2, <2>3, Openings
  <1>6. CASE UpdateDraft(r)
    <2>1. PICK a \in Apps, p \in Profiles :
             /\ apps[a].status \in editableApplicationStatus
             /\ Begin(r, apps[a].owner, a, editedRow(apps[a], p), editCalls(apps[a].status))
      BY <1>6 DEF UpdateDraft
    <2>2. editedRow(apps[a], p).status # "revoked"
      BY <1>1, <2>1 DEF editedRow, editableApplicationStatus, Row
    <2>3. editCalls(apps[a].status)[1].call \in {"save", "updateClient"}
      BY Openings DEF Opens
    <2>4. Opens(editCalls(apps[a].status), {"save", "updateClient"}, {"save", "audit"})
      BY Openings
    <2> QED BY <1>3, <2>1, <2>2, <2>3, <2>4
  <1>7. CASE Submit(r)
    <2>1. PICK a \in Apps :
             Begin(r, apps[a].owner, a, NoRow("absent"), submitCalls(apps[a].status))
      BY <1>7 DEF Submit
    <2>2. submitCalls(apps[a].status)[1].call = "transition" =>
             submitCalls(apps[a].status)[1].post # "revoked"
      BY SubmitCallsAre DEF startProvisioning, TransitionCall, CallTo
    <2>3. Opens(submitCalls(apps[a].status), {"transition", "select"},
                {"transition", "select", "audit"})
      BY Openings
    <2> QED BY <1>3, <1>4, <2>1, <2>2, <2>3
  <1>8. CASE ViewSecret(r)
    <2>1. PICK a \in Apps : Begin(r, apps[a].owner, a, NoRow("absent"),
                                  <<AuditCall("application.secret_viewed")>>)
      BY <1>8 DEF ViewSecret
    <2>2. PICK todo : todo = <<AuditCall("application.secret_viewed")>>
      OBVIOUS
    <2>3. todo[1].call = "audit" /\ Opens(todo, {"audit"}, {})
      BY <2>2, Openings DEF AuditCall, CallTo
    <2> QED BY <1>3, <1>4, <2>1, <2>2, <2>3
  <1>9. CASE RotateSecret(r)
    <2>1. PICK a \in Apps :
             /\ apps[a].status = "approved"
             /\ Begin(r, apps[a].owner, a, rotatedRow(apps[a], a, secrets + 1), rotateCalls)
      BY <1>9 DEF RotateSecret
    <2>2. rotatedRow(apps[a], a, secrets + 1).status # "revoked"
      BY <1>1, <2>1 DEF rotatedRow, Row
    <2>3. rotateCalls[1].call = "updateClient" /\ Opens(rotateCalls, {"updateClient"}, {"save"})
      BY Openings DEF Opens
    <2> QED BY <1>3, <2>1, <2>2, <2>3
  <1>10. CASE Revoke(r)
    <2>1. PICK a \in Apps :
             /\ apps[a].status = "approved"
             /\ Begin(r, apps[a].owner, a, [NoRow("absent") EXCEPT !.client = apps[a].client],
                      <<CallTo("deleteClient", "-", "-"), TransitionCall("approved", "revoked"),
                        AuditCall("application.revoked")>>)
      BY <1>10 DEF Revoke
    <2>2. PICK todo : todo = <<CallTo("deleteClient", "-", "-"),
                               TransitionCall("approved", "revoked"),
                               AuditCall("application.revoked")>>
      OBVIOUS
    <2>3. todo[1].call = "deleteClient"
      BY <2>2 DEF CallTo
    <2>4. PICK copy : copy = [NoRow("absent") EXCEPT !.client = apps[a].client]
      OBVIOUS
    <2>5. copy.status = "absent" /\ copy.client = apps[a].client
      BY <2>4 DEF NoRow
    <2>6. Begin(r, apps[a].owner, a, copy, todo)
      BY <2>1, <2>2, <2>4
    <2> QED BY <1>2, <2>1, <2>3, <2>5, <2>6
  <1>11. CASE Delete(r)
    <2>1. PICK a \in Apps :
             /\ apps[a].status \in Deletable
             /\ Begin(r, apps[a].owner, a, [NoRow("absent") EXCEPT !.client = apps[a].client],
                      deleteCalls(apps[a].status))
      BY <1>11 DEF Delete
    <2>2. PICK todo : todo = deleteCalls(apps[a].status)
      OBVIOUS
    <2>3. todo[1].call = IF apps[a].status = "approved" THEN "deleteClient" ELSE "audit"
      BY <2>2, DeleteCallsAre DEF Deletion, AuditCall, CallTo
    <2>4. PICK copy : copy = [NoRow("absent") EXCEPT !.client = apps[a].client]
      OBVIOUS
    <2>5. copy.status = "absent" /\ copy.client = apps[a].client
      BY <2>4 DEF NoRow
    <2>6. apps[a].status # "approved" => Off(apps, hydra, a)
      BY <1>1, <2>1 DEF Clean, Off, RetireInv
    <2>7. Begin(r, apps[a].owner, a, copy, todo)
      BY <2>1, <2>2, <2>4
    <2> QED BY <1>2, <2>3, <2>5, <2>6, <2>7
  <1>12. ASSUME NEW todo, Opens(todo, {"get"}, {"transition"}), prepareReview(r, todo)
         PROVE  RetireInv'
    <2>1. todo[1].call = "get"
      BY <1>12 DEF Opens
    <2>2. PICK a \in Apps, u \in Users : Begin(r, u, a, NoRow("absent"), todo)
      BY <1>12 DEF prepareReview
    <2> QED BY <1>3, <1>4, <1>12, <2>1, <2>2
  <1>13. CASE Approve(r)
    BY <1>12, <1>13, Openings DEF Approve
  <1>14. CASE Reject(r) \/ RequestChanges(r)
    BY <1>12, <1>14, Openings DEF Reject, RequestChanges, decide
  <1> QED BY <1>5, <1>6, <1>7, <1>8, <1>9, <1>10, <1>11, <1>13, <1>14 DEF Start

(* The calls of a handler. *)
LEMMA StepRetire ==
    ASSUME TypeOK, CredentialInv, ReviewInv, SeqInv, RetireInv, Sequential, NEW r \in Requests,
           Step(r) \/ CallFails(r)
    PROVE  RetireInv'
  <1> DEFINE id == req[r].id
  <1> DEFINE t == req[r].todo
  <1> DEFINE copy == req[r].copy
  <1>1. InFlight(r)
    BY DEF Step, CallFails, StoreCreate, StoreGet, StoreSelect, StoreTransition, StoreSave,
       StoreEnqueue, StoreAudit, StoreDelete, UpdateClient, DeleteClient, NextCall
  <1>2. /\ Head(t) \in Calls /\ id \in Apps /\ copy \in Row
        /\ apps \in [Apps -> Row] /\ apps[id] \in Row
    BY <1>1, HandlerTypes DEF TypeOK
  <1>3. /\ HandlerOK(apps, audit, req[r]) /\ HandlerSeq(apps, outbox, prov, req[r])
        /\ HandlerRetire(apps, hydra, req[r])
    BY <1>1 DEF ReviewInv, HandlersOK, InFlight, SeqInv, RetireInv
  <1>4. Head(t) = t[1] /\ 1 \in DOMAIN t /\ copy.status # "revoked"
    BY <1>1, <1>3, HeadFacts DEF HandlerRetire
  <1>5. NoRow("absent").status = "absent" /\ NoRow("deleted").status = "deleted"
    BY DEF NoRow
  (* A call that leaves the tables alone, and one that replaces the row. *)
  <1>6. ASSUME UNCHANGED <<apps, hydra>>, NEW c, Advance(r, c) \/ Reply(r, c) \/ OnError(r),
               c.status # "revoked", t[1].call # "deleteClient" \/ OnError(r)
        PROVE  RetireInv'
    <2>1. RetireMoved(apps', hydra', r)
      BY <1>1, <1>6, ReplyRetire, OnErrorRetire
    <2> QED BY <1>6, <2>1, RetireFinish DEF RetireInv
  <1>7. ASSUME hydra' = hydra, NEW row, apps' = [apps EXCEPT ![id] = row],
               row.status = "revoked" => row.client = apps[id].client /\ Off(apps, hydra, id),
               NEW c, Reply(r, c), c.status # "revoked",
               t[1].call \notin {"deleteClient", "audit"}
        PROVE  RetireInv'
    <2>1. apps'[id] = row /\ \A a \in Apps : a # id => apps'[a] = apps[a]
      BY <1>2, <1>7
    <2>2. \A a \in Apps : apps'[a].status = "revoked" => Off(apps', hydra', a)
      BY <1>7, <2>1 DEF RetireInv, Off
    <2>3. RetireMoved(apps', hydra', r)
      BY <1>1, <1>7, ReplyRetire
    <2> QED BY <2>2, <2>3, RetireFinish
  <1>8. CASE CallFails(r)
    BY <1>5, <1>6, <1>8 DEF CallFails
  <1>9. ASSUME Refused(r) PROVE RetireInv'
    BY <1>5, <1>6, <1>9 DEF Refused
  <1>10. CASE StoreCreate(r)
    BY <1>4, <1>5, <1>7, <1>10 DEF StoreCreate, NextCall
  <1>11. CASE StoreGet(r) /\ ~Refused(r)
    <2> DEFINE c == [apps[id] EXCEPT !.status = Head(t).post, !.reviewedBy = req[r].actor]
    <2>1. t[1].call = "get" /\ Advance(r, c) /\ UNCHANGED <<apps, hydra>>
      BY <1>4, <1>11 DEF StoreGet, NextCall
    <2>2. c.status = Head(t).post
      BY <1>2 DEF Row
    <2>3. Head(t).post # "revoked"
      BY <1>2, <1>4, <2>1 DEF Calls, CallTo, TransitionCall
    <2> HIDE DEF c
    <2> QED BY <1>6, <2>1, <2>2, <2>3
  <1>12. CASE StoreSelect(r) /\ ~Refused(r)
    <2>1. /\ t[1].call = "select" /\ Advance(r, apps[id]) /\ UNCHANGED <<apps, hydra>>
          /\ apps[id].status = Head(t).pre
      BY <1>4, <1>12 DEF StoreSelect, NextCall
    <2>2. Head(t).pre = "draft"
      BY <1>2, <1>4, <2>1, SelectShape
    <2> QED BY <1>6, <2>1, <2>2
  <1>13. CASE StoreTransition(r) /\ ~Refused(r)
    <2>1. /\ t[1].call = "transition" /\ apps[id].status = Head(t).pre
          /\ apps' = [apps EXCEPT ![id].status = Head(t).post] /\ hydra' = hydra
          /\ Reply(r, copy)
      BY <1>4, <1>13 DEF StoreTransition, NextCall
    <2>2. PICK row : row = [apps[id] EXCEPT !.status = Head(t).post]
      OBVIOUS
    <2>3. row.status = Head(t).post /\ row.client = apps[id].client
      BY <1>2, <2>2 DEF Row
    <2>4. row.status = "revoked" => Off(apps, hydra, id)
      BY <1>3, <1>4, <2>1, <2>3 DEF HandlerRetire
    <2>5. apps' = [apps EXCEPT ![id] = row]
      BY <2>1, <2>2
    <2> QED BY <1>4, <1>7, <2>1, <2>3, <2>4, <2>5
  <1>14. CASE StoreSave(r) /\ ~Refused(r)
    <2>1. /\ t[1].call = "save" /\ apps' = [apps EXCEPT ![id] = copy] /\ hydra' = hydra
          /\ Reply(r, NoRow("absent"))
      BY <1>4, <1>14 DEF StoreSave, NextCall
    <2> QED BY <1>4, <1>5, <1>7, <2>1
  <1>15. CASE (StoreEnqueue(r) \/ StoreAudit(r)) /\ ~Refused(r)
    <2>1. /\ t[1].call \in {"enqueue", "audit"} /\ UNCHANGED <<apps, hydra>> /\ Reply(r, copy)
      BY <1>4, <1>15 DEF StoreEnqueue, StoreAudit, NextCall
    <2> QED BY <1>4, <1>6, <2>1
  <1>16. CASE StoreDelete(r) /\ ~Refused(r)
    <2>1. /\ t[1].call = "delete" /\ apps' = [apps EXCEPT ![id] = NoRow("deleted")]
          /\ hydra' = hydra /\ Reply(r, NoRow("absent"))
      BY <1>4, <1>16 DEF StoreDelete, NextCall
    <2> QED BY <1>5, <1>7, <2>1
  <1>17. CASE (UpdateClient(r) \/ DeleteClient(r)) /\ ~Refused(r)
    <2>1. HydraKept(hydra, hydra') /\ apps' = apps
      BY <1>17, HydraSteps DEF UpdateClient, DeleteClient
    <2>2. \A a \in Apps : apps[a].client # 0 => apps[a].client \in DOMAIN hydra
      BY DEF CredentialInv, SoundRow
    <2>3. \A a \in Apps : Off(apps, hydra, a) => Off(apps', hydra', a)
      BY <2>1, <2>2 DEF Off, HydraKept
    <2>4. \A a \in Apps : apps'[a].status = "revoked" => Off(apps', hydra', a)
      BY <2>1, <2>3 DEF RetireInv
    <2>5. CASE UpdateClient(r)
      <3>1. t[1].call = "updateClient" /\ Reply(r, copy)
        BY <1>4, <1>17, <2>5 DEF UpdateClient, NextCall
      <3>2. RetireMoved(apps', hydra', r)
        BY <1>1, <1>4, <3>1, ReplyRetire
      <3> QED BY <2>4, <3>2, RetireFinish
    <2>6. CASE DeleteClient(r)
      <3>1. /\ t[1].call = "deleteClient" /\ Reply(r, NoRow("absent"))
            /\ hydra' = [hydra EXCEPT ![copy.client].live = FALSE]
        BY <1>4, <1>17, <2>6 DEF DeleteClient, NextCall
      <3>2. apps[id].status = "approved" /\ copy.client = apps[id].client
        BY <1>3, <3>1 DEF HandlerRetire
      <3>3. Off(apps', hydra', id)
        <4>1. SUFFICES ASSUME apps[id].client # 0 PROVE ~hydra'[apps[id].client].live
          BY <2>1 DEF Off
        <4>2. apps[id].client \in DOMAIN hydra /\ hydra[apps[id].client] \in Client
          BY <1>2, <2>2, <4>1, ElementOfSeq, LenProperties DEF TypeOK
        <4> QED BY <3>1, <3>2, <4>2 DEF Client
      <3>4. RetireMoved(apps', hydra', r)
        BY <1>1, <1>5, <2>1, <3>1, <3>2, <3>3, ReplyRetire
      <3> QED BY <2>4, <3>4, RetireFinish
    <2> QED BY <1>17, <2>5, <2>6
  <1> QED BY <1>8, <1>9, <1>10, <1>11, <1>12, <1>13, <1>14, <1>15, <1>16, <1>17 DEF Step

(* The worker and the clock. *)
LEMMA WorkerRetire ==
    ASSUME TypeOK, CredentialInv, SeqInv, RetireInv, RunOnce \/ WorkerCallFails
    PROVE  RetireInv'
  <1>1. \A a \in Apps : apps[a].client # 0 => apps[a].client \in DOMAIN hydra
    BY DEF CredentialInv, SoundRow
  <1>2. req' = req
    BY DEF RunOnce, GetApplication, CreateClient, SaveApproved, Complete, AuditProvisioned,
           Retry, WorkerCallFails
  <1>3. \A r \in Requests : req[r].todo # <<>> => req[r].id \in Apps
    BY DEF TypeOK
  <1>4. ASSUME apps' = apps, \A c \in DOMAIN hydra : hydra'[c] = hydra[c]
        PROVE  RetireInv'
    <2>1. \A a \in Apps : Off(apps, hydra, a) => Off(apps', hydra', a)
      BY <1>1, <1>4 DEF Off
    <2>2. \A r \in Requests : req[r].todo # <<>> => HandlerRetire(apps', hydra', req[r])
      BY <1>3, <1>4, <2>1 DEF RetireInv, HandlerRetire
    <2> QED BY <1>2, <1>4, <2>1, <2>2 DEF RetireInv
  <1>5. CASE CreateClient
    <2>1. apps' = apps /\ \A c \in DOMAIN hydra : hydra'[c] = hydra[c]
      BY <1>5, CreatedHydra DEF CreateClient
    <2> QED BY <1>4, <2>1
  <1>6. CASE SaveApproved /\ apps' # apps
    <2>1. /\ prov.pc = "save" /\ prov.id \in Apps /\ hydra' = hydra
          /\ apps' = [apps EXCEPT ![prov.id] = prov.copy]
      BY <1>6 DEF SaveApproved, Worker, TypeOK
    <2>2. apps[prov.id].status = "provisioning" /\ prov.copy.status = "approved"
      BY <2>1 DEF SeqInv, ProvSeq
    <2>3. /\ apps'[prov.id] = prov.copy
          /\ \A a \in Apps : a # prov.id => apps'[a] = apps[a]
      BY <2>1 DEF TypeOK
    <2>4. \A a \in Apps : a # prov.id /\ Off(apps, hydra, a) => Off(apps', hydra', a)
      BY <2>1, <2>3 DEF Off
    <2>5. \A a \in Apps : apps'[a].status = "revoked" => Off(apps', hydra', a)
      BY <2>2, <2>3, <2>4 DEF RetireInv
    <2>6. ASSUME NEW r \in Requests, req[r].todo # <<>>
          PROVE  HandlerRetire(apps', hydra', req[r])
      <3>1. HandlerRetire(apps, hydra, req[r]) /\ HandlerSeq(apps, outbox, prov, req[r])
        BY <2>6 DEF RetireInv, SeqInv
      <3>2. CASE req[r].id = prov.id
        BY <2>2, <3>1, <3>2 DEF HandlerRetire, HandlerSeq, Deletable
      <3>3. CASE req[r].id # prov.id
        BY <1>3, <2>3, <2>4, <2>6, <3>1, <3>3 DEF HandlerRetire
      <3> QED BY <3>2, <3>3
    <2> QED BY <1>2, <2>5, <2>6 DEF RetireInv
  <1>7. CASE ~CreateClient /\ ~(SaveApproved /\ apps' # apps)
    <2>1. apps' = apps /\ hydra' = hydra
      BY <1>7 DEF RunOnce, GetApplication, SaveApproved, Complete, AuditProvisioned,
         Retry, WorkerCallFails
    <2> QED BY <1>4, <2>1
  <1> QED BY <1>5, <1>6, <1>7

LEMMA RetireSafety ==
    ASSUME Sequential, NoLateRollback
    PROVE  Spec => []RetireInv
  <1>1. Init => RetireInv
    <2> SUFFICES ASSUME Init PROVE RetireInv
      OBVIOUS
    <2>1. \A r \in Requests : req[r].todo = <<>>
      BY RowTypes DEF Init
    <2>2. \A a \in Apps : apps[a].status = "absent"
      BY DEF Init, NoRow
    <2> QED BY <2>1, <2>2 DEF RetireInv
  <1>2. TypeOK /\ CredentialInv /\ ReviewInv /\ SeqInv /\ RetireInv /\ [Next]_vars => RetireInv'
    <2> SUFFICES ASSUME TypeOK, CredentialInv, ReviewInv, SeqInv, RetireInv, [Next]_vars
                 PROVE  RetireInv'
      OBVIOUS
    <2>1. ASSUME NEW r \in Requests, Start(r) PROVE RetireInv'
      BY <2>1, StartRetire
    <2>2. ASSUME NEW r \in Requests, Step(r) \/ CallFails(r) PROVE RetireInv'
      BY <2>2, StepRetire
    <2>3. CASE RunOnce \/ WorkerCallFails
      BY <2>3, WorkerRetire
    <2>4. ASSUME UNCHANGED <<apps, hydra, req>> PROVE RetireInv'
      BY <2>4 DEF RetireInv
    <2>5. ASSUME NEW a \in Apps, ClaimNext(a) \/ RetryDelayPasses(a) \/ ClaimTimesOut(a)
          PROVE  RetireInv'
      BY <2>4, <2>5 DEF ClaimNext, RetryDelayPasses, ClaimTimesOut
    <2>6. CASE Crash
      <3>1. UNCHANGED <<apps, hydra>> /\ \A r \in Requests : req'[r].todo = <<>>
        BY <2>6, RowTypes DEF Crash
      <3> QED BY <3>1 DEF RetireInv
    <2>7. CASE UNCHANGED vars
      BY <2>4, <2>7 DEF vars
    <2> QED BY <2>1, <2>2, <2>3, <2>5, <2>6, <2>7 DEF Next
  <1> QED BY <1>1, <1>2, TypeCorrect, CredentialSafety, ReviewSafety, SeqSafety, PTL DEF Spec

(* While requests do not overlap, and with failures, restarts and, where      *)
(* reviews are required, lost answers, Delete removes a row only when nothing *)
(* is left behind: although it looks at the status and removes the client     *)
(* several calls earlier, the row is not being provisioned by then and its    *)
(* client is no longer served.                                                *)
THEOREM DeletionLeavesNothing ==
    ASSUME Sequential, NoLateRollback
    PROVE  Spec => []DeleteLeavesNothing
  <1>1. TypeOK /\ ReviewInv /\ SeqInv /\ RetireInv => DeleteLeavesNothing
    <2> SUFFICES ASSUME TypeOK, ReviewInv, SeqInv, RetireInv,
                        NEW r \in Requests, NextCall(r, "delete")
                 PROVE  LET row == apps[req[r].id] IN
                        /\ row.status # "provisioning"
                        /\ row.client # 0 => ~hydra[row.client].live
      BY DEF DeleteLeavesNothing
    <2>1. /\ InFlight(r) /\ HandlerOK(apps, audit, req[r])
          /\ HandlerSeq(apps, outbox, prov, req[r]) /\ HandlerRetire(apps, hydra, req[r])
      BY DEF NextCall, InFlight, ReviewInv, HandlersOK, SeqInv, RetireInv
    <2>2. 1 \in DOMAIN req[r].todo /\ req[r].todo[1].call = "delete"
      BY <2>1, HeadFacts DEF NextCall
    <2> QED BY <2>1, <2>2 DEF HandlerSeq, HandlerRetire, Deletable, Off
  <1> QED BY <1>1, TypeCorrect, ReviewSafety, SeqSafety, RetireSafety, PTL

-----------------------------------------------------------------------------
(* Applications in provisioning have an event, or a handler that sees to it.  *)

(* Nothing undoes a review's transition when the calls after it fail, and     *)
(* nothing repeats a rollback that fails.                                     *)
Recoverable == NoFaults \/ (~RequireReview /\ FailuresOnly /\ MaxFaults <= 1)

(* A save is not the last call, what starts the provisioning enqueues its     *)
(* event next or after a save, and without reviews nothing is submitted.      *)
Ends(t) ==
    \A i \in DOMAIN t :
        /\ t[i].call = "save" => i + 1 \in DOMAIN t
        /\ t[i].call = "transition" /\ t[i].post = "provisioning" =>
              /\ i + 1 \in DOMAIN t
              /\ \/ t[i + 1].call = "enqueue"
                 \/ t[i + 1].call = "save" /\ i + 2 \in DOMAIN t /\ t[i + 2].call = "enqueue"
        /\ RequireReview
           \/ (t[i] # CallTo("enqueue", "-", "-") /\ t[i] # TransitionCall("draft", "pending_review"))

(* A handler with these calls to make enqueues the event or puts the row back. *)
Pursued(t) ==
    \/ t[1].call = "enqueue"
    \/ t[1].call = "save" /\ 2 \in DOMAIN t /\ t[2].call = "enqueue"
    \/ t = <<SaveCall>>

HandlerStrand(n, q) ==
    \/ Ends(q.todo)
    \/ q.todo = <<SaveCall>> /\ q.copy.status = "draft" /\ n >= 1

RowsStrand(A, O, R) ==
    \A a \in Apps :
        A[a].status = "provisioning" /\ O[a] = "none" =>
            \E r \in Requests : R[r].todo # <<>> /\ R[r].id = a /\ Pursued(R[r].todo)

EventStrand(A, O, p) ==
    /\ \A a \in Apps : O[a] = "done" => A[a].status \in Settled
    /\ p.id \in Apps /\ p.pc \in {"complete", "drop"} => A[p.id].status \in Settled

StrandInv ==
    /\ RowsStrand(apps, outbox, req)
    /\ EventStrand(apps, outbox, prov)
    /\ RequireReview \/ \A a \in Apps : apps[a].status # "pending_review"
    /\ \A r \in Requests : req[r].todo # <<>> => HandlerStrand(faults, req[r])

LEMMA LaterCall ==
    ASSUME NEW t \in Seq(Calls), t # <<>>, NEW i \in DOMAIN t, i # 1
    PROVE  Tail(t) # <<>> /\ i - 1 \in DOMAIN Tail(t) /\ Tail(t)[i - 1] = t[i]
  <1>1. /\ Tail(t) \in Seq(Calls) /\ Len(Tail(t)) = Len(t) - 1
        /\ \A k \in 1 .. Len(Tail(t)) : Tail(t)[k] = t[k + 1]
    BY HeadTailProperties
  <1>2. Len(t) \in Nat /\ DOMAIN t = 1 .. Len(t) /\ DOMAIN Tail(t) = 1 .. Len(Tail(t))
    BY <1>1, LenProperties
  <1>3. i - 1 \in 1 .. Len(Tail(t)) /\ (i - 1) + 1 = i
    BY <1>1, <1>2
  <1>4. Tail(t) # <<>>
    <2> SUFFICES ASSUME Tail(t) = <<>> PROVE FALSE
      OBVIOUS
    <2>1. Len(Tail(t)) = 0
      BY EmptySeq
    <2> QED BY <1>3, <2>1
  <1> QED BY <1>1, <1>2, <1>3, <1>4

LEMMA FixedEnds ==
    /\ \A s : Ends(editCalls(s))
    /\ Ends(rotateCalls)
    /\ Ends(<<AuditCall("application.secret_viewed")>>)
    /\ Ends(<<CallTo("deleteClient", "-", "-"), TransitionCall("approved", "revoked"),
              AuditCall("application.revoked")>>)
    /\ \A s \in {"rejected", "changes_requested"} : \A act :
          Ends(<<CallTo("get", "-", s), TransitionCall("pending_review", s), SaveCall,
                 AuditCall(act)>>)
    /\ RequireReview =>
          Ends(<<CallTo("get", "-", "provisioning"),
                 TransitionCall("pending_review", "provisioning"), SaveCall,
                 CallTo("enqueue", "-", "-"), AuditCall("application.approved")>>)
  <1>1. (\A s : Ends(editCalls(s))) /\ Ends(rotateCalls)
    BY DEF editCalls, rotateCalls, Ends, CallTo, TransitionCall, AuditCall, SaveCall
  <1>2. /\ Ends(<<AuditCall("application.secret_viewed")>>)
        /\ Ends(<<CallTo("deleteClient", "-", "-"), TransitionCall("approved", "revoked"),
                  AuditCall("application.revoked")>>)
    BY DEF Ends, CallTo, TransitionCall, AuditCall
  <1>3. \A s \in {"rejected", "changes_requested"} : \A act :
          Ends(<<CallTo("get", "-", s), TransitionCall("pending_review", s), SaveCall,
                 AuditCall(act)>>)
    BY DEF Ends, CallTo, TransitionCall, AuditCall, SaveCall
  <1>4. RequireReview =>
          Ends(<<CallTo("get", "-", "provisioning"),
                 TransitionCall("pending_review", "provisioning"), SaveCall,
                 CallTo("enqueue", "-", "-"), AuditCall("application.approved")>>)
    BY DEF Ends, CallTo, TransitionCall, AuditCall, SaveCall
  <1> QED BY <1>1, <1>2, <1>3, <1>4

LEMMA DeleteEnds ==
    ASSUME NEW s
    PROVE  Ends(deleteCalls(s))
  BY DeleteCallsAre DEF Ends, CallTo, AuditCall, TransitionCall, Deletion

LEMMA CreateEnds == Ends(CreateCalls)
  <1>1. CASE RequireReview
    BY <1>1, CreateCallsAre DEF Ends, CallTo, AuditCall, TransitionCall
  <1>2. CASE ~RequireReview
    BY <1>2, CreateCallsAre DEF Ends, CallTo, TransitionCall, AuditCall
  <1> QED BY <1>1, <1>2

LEMMA SubmitEnds ==
    ASSUME NEW s \in {"draft", "changes_requested", "rejected"}
    PROVE  Ends(submitCalls(s))
  <1>1. CASE RequireReview /\ s = "draft"
    BY <1>1, SubmitCallsAre DEF Ends, CallTo, TransitionCall, AuditCall
  <1>2. CASE RequireReview /\ s # "draft"
    BY <1>2, SubmitCallsAre DEF Ends, CallTo, TransitionCall, AuditCall
  <1>3. CASE ~RequireReview /\ s = "draft"
    BY <1>3, SubmitCallsAre DEF startProvisioning, Ends, CallTo, TransitionCall, AuditCall
  <1>4. CASE ~RequireReview /\ s # "draft"
    BY <1>4, SubmitCallsAre DEF Ends, CallTo, TransitionCall, AuditCall
  <1> QED BY <1>1, <1>2, <1>3, <1>4

LEMMA EndsTail ==
    ASSUME NEW t \in Seq(Calls), t # <<>>, Tail(t) # <<>>, Ends(t)
    PROVE  Ends(Tail(t))
  <1> DEFINE u == Tail(t)
  <1>1. /\ \A i \in DOMAIN u : i \in Nat /\ i >= 1 /\ i + 1 \in DOMAIN t /\ u[i] = t[i + 1]
        /\ \A i \in DOMAIN t : i \in Nat /\ i >= 1 /\ (i > 1 => i - 1 \in DOMAIN u)
    BY TailFacts
  <1>2. \A j \in DOMAIN t : j > 1 => j - 1 \in DOMAIN u /\ u[j - 1] = t[j]
    <2> SUFFICES ASSUME NEW j \in DOMAIN t, j > 1
                 PROVE  j - 1 \in DOMAIN u /\ u[j - 1] = t[j]
      OBVIOUS
    <2>1. j \in Nat /\ j - 1 \in DOMAIN u /\ (j - 1) + 1 = j
      BY <1>1
    <2> QED BY <1>1, <2>1
  <1> HIDE DEF u
  <1> SUFFICES ASSUME NEW i \in DOMAIN u
               PROVE  /\ u[i].call = "save" => i + 1 \in DOMAIN u
                      /\ u[i].call = "transition" /\ u[i].post = "provisioning" =>
                            /\ i + 1 \in DOMAIN u
                            /\ \/ u[i + 1].call = "enqueue"
                               \/ /\ u[i + 1].call = "save" /\ i + 2 \in DOMAIN u
                                  /\ u[i + 2].call = "enqueue"
                      /\ RequireReview
                         \/ (/\ u[i] # CallTo("enqueue", "-", "-")
                             /\ u[i] # TransitionCall("draft", "pending_review"))
    BY DEF Ends, u
  <1>3. PICK j : j = i + 1
    OBVIOUS
  <1>4. j \in DOMAIN t /\ u[i] = t[j] /\ i \in Nat /\ i >= 1
    BY <1>1, <1>3
  <1>5. /\ j \in Nat /\ (j + 1) - 1 = i + 1 /\ j + 1 > 1 /\ (j + 2) - 1 = i + 2 /\ j + 2 > 1
    BY <1>3, <1>4, Shift
  <1>6. /\ j + 1 \in DOMAIN t => i + 1 \in DOMAIN u /\ u[i + 1] = t[j + 1]
        /\ j + 2 \in DOMAIN t => i + 2 \in DOMAIN u /\ u[i + 2] = t[j + 2]
    BY <1>2, <1>5
  <1>7. /\ t[j].call = "save" => j + 1 \in DOMAIN t
        /\ t[j].call = "transition" /\ t[j].post = "provisioning" =>
              /\ j + 1 \in DOMAIN t
              /\ \/ t[j + 1].call = "enqueue"
                 \/ t[j + 1].call = "save" /\ j + 2 \in DOMAIN t /\ t[j + 2].call = "enqueue"
        /\ RequireReview
           \/ (t[j] # CallTo("enqueue", "-", "-") /\ t[j] # TransitionCall("draft", "pending_review"))
    BY <1>4 DEF Ends
  <1> QED BY <1>4, <1>6, <1>7

(* An application that is approved, revoked or deleted stays so. *)
LEMMA SettledKept ==
    ASSUME TypeOK, OneRowMoves, NEW a \in Apps, apps[a].status \in Settled
    PROVE  apps'[a].status \in Settled
  <1>1. CASE apps' = apps
    BY <1>1
  <1>2. ASSUME NEW b \in Apps, NEW row, apps' = [apps EXCEPT ![b] = row],
               Moves(apps[b].status, row.status)
        PROVE  apps'[a].status \in Settled
    <2>1. apps'[b] = row /\ \A c \in Apps : c # b => apps'[c] = apps[c]
      BY <1>2 DEF TypeOK
    <2>2. apps[b].status \in Settled => row.status \in Settled
      BY <1>2 DEF Moves, Settled, validTransition
    <2> QED BY <2>1, <2>2
  <1> QED BY <1>1, <1>2 DEF OneRowMoves

(* The handler goes on. *)
StrandMoved(B, O, n, r) ==
    \E q : /\ req' = [req EXCEPT ![r] = q]
           /\ q.todo # <<>> => HandlerStrand(n, q)
           /\ B[req[r].id].status = "provisioning" /\ O[req[r].id] = "none" =>
                 q.todo # <<>> /\ q.id = req[r].id /\ Pursued(q.todo)

(* Only the handler of an application without an event is left to pursue it. *)
LEMMA PursuedElsewhere ==
    ASSUME StrandInv, Sequential, NEW r \in Requests, NEW b \in Apps,
           apps[b].status = "provisioning", outbox[b] = "none"
    PROVE  req[r].todo # <<>> /\ req[r].id = b /\ Pursued(req[r].todo)
  BY DEF StrandInv, RowsStrand, Sequential

LEMMA StrandFinish ==
    ASSUME TypeOK, StrandInv, Sequential, OneRowMoves, NEW r \in Requests, req[r].id \in Apps,
           prov' = prov, StrandMoved(apps', outbox', faults', r),
           \A b \in Apps : outbox'[b] = "done" => outbox[b] = "done",
           \A b \in Apps : b # req[r].id => apps'[b] = apps[b] /\ outbox'[b] = outbox[b],
           RequireReview \/ apps'[req[r].id].status # "pending_review"
    PROVE  StrandInv'
  <1>1. PICK q : /\ req' = [req EXCEPT ![r] = q]
                 /\ q.todo # <<>> => HandlerStrand(faults', q)
                 /\ apps'[req[r].id].status = "provisioning" /\ outbox'[req[r].id] = "none" =>
                       q.todo # <<>> /\ q.id = req[r].id /\ Pursued(q.todo)
    BY DEF StrandMoved
  <1>2. req'[r] = q
    BY <1>1 DEF TypeOK
  <1>3. \A s \in Requests : req'[s].todo # <<>> => HandlerStrand(faults', req'[s])
    BY <1>1, <1>2 DEF Sequential
  <1>4. RowsStrand(apps', outbox', req')
    <2> SUFFICES ASSUME NEW b \in Apps, apps'[b].status = "provisioning", outbox'[b] = "none"
                 PROVE  req'[r].todo # <<>> /\ req'[r].id = b /\ Pursued(req'[r].todo)
      BY DEF RowsStrand
    <2>1. b = req[r].id
      BY PursuedElsewhere
    <2> QED BY <1>1, <1>2, <2>1
  <1>5. EventStrand(apps', outbox', prov')
    BY SettledKept DEF StrandInv, EventStrand
  <1>6. RequireReview \/ \A b \in Apps : apps'[b].status # "pending_review"
    BY DEF StrandInv
  <1> QED BY <1>3, <1>4, <1>5, <1>6 DEF StrandInv

LEMMA ReplyStrand ==
    ASSUME TypeOK, FailuresOnly, NEW r \in Requests, InFlight(r), NEW B, NEW O, NEW n, NEW c,
           Advance(r, c) \/ Reply(r, c), HandlerStrand(faults, req[r]),
           B[req[r].id].status = "provisioning" /\ O[req[r].id] = "none" =>
              /\ Ends(req[r].todo)
              /\ \/ req[r].todo[1].call = "transition" /\ req[r].todo[1].post = "provisioning"
                 \/ 2 \in DOMAIN req[r].todo /\ req[r].todo[2].call = "enqueue"
    PROVE  StrandMoved(B, O, n, r)
  <1> DEFINE t == req[r].todo
  <1> DEFINE u == Tail(t)
  <1> DEFINE q == [req[r] EXCEPT !.copy = c, !.todo = u]
  <1>1. req[r] \in Request /\ t \in Seq(Calls) /\ t # <<>>
    BY DEF TypeOK, InFlight, Request
  <1>2. Advance(r, c)
    BY DEF Reply, Fault, FailuresOnly
  <1>3. 1 \in DOMAIN t /\ 1 + 1 = 2 /\ 2 # 1 /\ 2 - 1 = 1 /\ 1 + 2 = 3 /\ 3 # 1 /\ 3 - 1 = 2
    BY <1>1, LenProperties, EmptySeq
  <1>4. /\ 2 \in DOMAIN t => u # <<>> /\ u[1] = t[2]
        /\ 3 \in DOMAIN t => 2 \in DOMAIN u /\ u[2] = t[3]
    BY <1>1, <1>3, LaterCall
  <1>5. ASSUME Ends(t), t[1].call = "transition", t[1].post = "provisioning"
        PROVE  /\ 2 \in DOMAIN t
               /\ \/ t[2].call = "enqueue"
                  \/ t[2].call = "save" /\ 3 \in DOMAIN t /\ t[3].call = "enqueue"
    BY <1>3, <1>5 DEF Ends
  <1>6. B[req[r].id].status = "provisioning" /\ O[req[r].id] = "none" => u # <<>> /\ Pursued(u)
    <2> HIDE DEF u, t
    <2> SUFFICES ASSUME B[req[r].id].status = "provisioning", O[req[r].id] = "none"
                 PROVE  u # <<>> /\ Pursued(u)
      OBVIOUS
    <2>1. CASE t[1].call = "transition" /\ t[1].post = "provisioning"
      BY <1>4, <1>5, <2>1 DEF Pursued, t
    <2>2. CASE 2 \in DOMAIN t /\ t[2].call = "enqueue"
      BY <1>4, <2>2 DEF Pursued
    <2> QED BY <2>1, <2>2 DEF t
  <1>7. CASE u = <<>>
    <2>1. req' = [req EXCEPT ![r] = Idle]
      BY <1>2, <1>7 DEF Advance
    <2> QED BY <1>6, <1>7, <2>1, RowTypes DEF StrandMoved
  <1>8. CASE u # <<>>
    <2>1. req' = [req EXCEPT ![r] = q]
      BY <1>2, <1>8 DEF Advance
    <2>2. q.id = req[r].id /\ q.copy = c /\ q.todo = u
      BY <1>1 DEF Request
    <2>3. t # <<SaveCall>>
      <3>1. 2 \in DOMAIN t
        BY <1>1, <1>8, TailFacts
      <3> QED BY <3>1
    <2>4. Ends(u)
      BY <1>1, <1>8, <2>3, EndsTail DEF HandlerStrand
    <2> HIDE DEF q, u
    <2> QED BY <1>6, <2>1, <2>2, <2>4 DEF StrandMoved, HandlerStrand
  <1> QED BY <1>7, <1>8

(* The calls of a handler. *)
LEMMA StepStrand ==
    ASSUME TypeOK, ReviewInv, SeqInv, StrandInv, Sequential, FailuresOnly,
           NEW r \in Requests, Step(r)
    PROVE  StrandInv'
  <1> DEFINE id == req[r].id
  <1> DEFINE t == req[r].todo
  <1> DEFINE copy == req[r].copy
  <1> DEFINE Stranded == apps[id].status = "provisioning" /\ outbox[id] = "none"
  <1>1. /\ prov' = prov /\ apps \in [Apps -> Row] /\ outbox \in [Apps -> OutboxStates]
        /\ OneRowMoves
    <2>1. NoLateRollback
      BY DEF NoLateRollback, FailuresOnly
    <2> QED BY <2>1, StepSeq DEF Step, TypeOK
  <1>2. InFlight(r)
    BY DEF Step, StoreCreate, StoreGet, StoreSelect, StoreTransition, StoreSave,
           StoreEnqueue, StoreAudit, StoreDelete, UpdateClient, DeleteClient, NextCall
  <1>3. Head(t) \in Calls /\ id \in Apps /\ copy \in Row /\ apps[id] \in Row
    BY <1>1, <1>2, HandlerTypes
  <1>4. /\ HandlerOK(apps, audit, req[r]) /\ HandlerSeq(apps, outbox, prov, req[r])
        /\ HandlerStrand(faults, req[r])
    BY <1>2 DEF ReviewInv, HandlersOK, InFlight, SeqInv, StrandInv
  <1>5. Head(t) = t[1] /\ 1 \in DOMAIN t
    BY <1>2, <1>4, HeadFacts
  <1>6. Stranded => Pursued(t)
    BY <1>3, PursuedElsewhere
  <1>7. t = <<SaveCall>> => t[1].call = "save"
    BY FixedCalls
  <1>8. Stranded => t[1].call \in {"enqueue", "save"}
    BY <1>6, <1>7 DEF Pursued
  <1>9. RequireReview \/ apps[id].status # "pending_review"
    BY <1>3 DEF StrandInv
  <1>10. t[1].call # "save" => Ends(t)
    BY <1>4, <1>7 DEF HandlerStrand
  <1>11. ASSUME NEW row, apps' = [apps EXCEPT ![id] = row], outbox' = outbox,
                StrandMoved(apps', outbox', faults', r),
                RequireReview \/ row.status # "pending_review"
         PROVE  StrandInv'
    <2>1. apps'[id] = row /\ \A b \in Apps : b # id => apps'[b] = apps[b]
      BY <1>1, <1>3, <1>11
    <2> QED BY <1>1, <1>3, <1>11, <2>1, StrandFinish
  <1>12. ASSUME apps' = apps, outbox' = outbox, StrandMoved(apps', outbox', faults', r)
         PROVE  StrandInv'
    BY <1>1, <1>3, <1>9, <1>12, StrandFinish
  <1>13. ASSUME NEW c, Advance(r, c) \/ Reply(r, c), apps' = apps, outbox' = outbox,
                t[1].call \notin {"enqueue", "save"}
         PROVE  StrandInv'
    <2>1. StrandMoved(apps', outbox', faults', r)
      BY <1>2, <1>4, <1>8, <1>13, ReplyStrand
    <2> QED BY <1>12, <1>13, <2>1
  <1>14. ASSUME Refused(r), t[1].call \notin {"enqueue", "save"} \/ ~Exists(id)
         PROVE  StrandInv'
    <2>1. /\ apps' = apps /\ outbox' = outbox /\ faults' = faults /\ OnError(r)
          /\ ~Stranded
      BY <1>8, <1>14 DEF Refused, Exists, Statuses
    <2>2. Head(t) # EnqueueDraft
      <3>1. t[1].call = "enqueue" => apps[id].status = "provisioning"
        BY <1>4 DEF HandlerSeq
      <3> QED BY <1>5, <1>14, <3>1, FixedCalls DEF Exists, Statuses
    <2>3. req' = [req EXCEPT ![r] = Idle]
      BY <2>1, <2>2 DEF OnError, EnqueueDraft
    <2>4. StrandMoved(apps', outbox', faults', r)
      BY <2>1, <2>3, RowTypes DEF StrandMoved
    <2> QED BY <1>12, <2>1, <2>4
  <1>15. CASE StoreCreate(r)
    <2>1. /\ Head(t).call = "create" /\ apps' = [apps EXCEPT ![id] = copy]
          /\ Reply(r, NoRow("absent")) /\ outbox' = outbox
      BY <1>15 DEF StoreCreate, NextCall
    <2>2. copy.status = "draft"
      BY <1>4, <1>5, <2>1 DEF HandlerOK
    <2>3. apps'[id].status = "draft"
      BY <1>1, <1>3, <2>1, <2>2
    <2>4. StrandMoved(apps', outbox', faults', r)
      BY <1>2, <1>4, <2>1, <2>3, ReplyStrand
    <2> QED BY <1>11, <2>1, <2>2, <2>4
  <1>16. CASE StoreGet(r) \/ StoreSelect(r)
    <2>1. /\ Head(t).call \in {"get", "select"}
          /\ Refused(r) \/ ((\E c : Advance(r, c)) /\ apps' = apps /\ outbox' = outbox)
      BY <1>16 DEF StoreGet, StoreSelect, NextCall
    <2> QED BY <1>5, <1>13, <1>14, <2>1
  <1>17. CASE StoreTransition(r)
    <2> DEFINE row == [apps[id] EXCEPT !.status = Head(t).post]
    <2>1. Head(t).call = "transition"
      BY <1>17 DEF StoreTransition, NextCall
    <2>2. CASE ~(apps[id].status = Head(t).pre /\ validTransition(Head(t).pre, Head(t).post))
      BY <1>5, <1>14, <1>17, <2>1, <2>2 DEF StoreTransition
    <2>3. CASE apps[id].status = Head(t).pre /\ validTransition(Head(t).pre, Head(t).post)
      <3>1. apps' = [apps EXCEPT ![id] = row] /\ Reply(r, copy) /\ outbox' = outbox
        BY <1>17, <2>3 DEF StoreTransition
      <3>2. row.status = t[1].post
        BY <1>3, <1>5 DEF Row
      <3> HIDE DEF row
      <3>3. apps'[id].status = t[1].post
        BY <1>1, <1>3, <3>1, <3>2
      <3>4. Ends(t)
        BY <1>5, <1>10, <2>1
      <3>5. PICK c : c = copy
        OBVIOUS
      <3>6. Reply(r, c)
        BY <3>1, <3>5
      <3>7. StrandMoved(apps', outbox', faults', r)
        BY <1>2, <1>4, <1>5, <2>1, <3>3, <3>4, <3>6, ReplyStrand
      <3>8. RequireReview \/ row.status # "pending_review"
        <4>1. Head(t) = TransitionCall(Head(t).pre, Head(t).post)
          BY <1>3, <2>1, CallNames
        <4>2. Head(t).post = "pending_review" => Head(t).pre = "draft"
          BY <2>3 DEF validTransition
        <4>3. RequireReview \/ t[1] # TransitionCall("draft", "pending_review")
          BY <1>5, <3>4 DEF Ends
        <4> QED BY <1>5, <3>2, <4>1, <4>2, <4>3
      <3> QED BY <1>11, <3>1, <3>7, <3>8
    <2> QED BY <2>2, <2>3
  <1>18. CASE StoreSave(r)
    <2>1. Head(t).call = "save"
      BY <1>18 DEF StoreSave, NextCall
    <2>2. CASE ~Exists(id)
      BY <1>14, <1>18, <2>2 DEF StoreSave
    <2>3. CASE Exists(id)
      <3>1. apps' = [apps EXCEPT ![id] = copy] /\ Reply(r, NoRow("absent")) /\ outbox' = outbox
        BY <1>18, <2>3 DEF StoreSave
      <3>2. apps'[id] = copy
        BY <1>1, <1>3, <3>1
      <3>3. copy.status = apps[id].status \/ copy.status = "draft"
        BY <1>4, <1>5, <2>1 DEF HandlerSeq, SaveOK
      <3>4. ASSUME copy.status = "provisioning", outbox[id] = "none"
            PROVE  Ends(t) /\ 2 \in DOMAIN t /\ t[2].call = "enqueue"
        <4>1. Stranded
          BY <3>3, <3>4
        <4>2. Ends(t)
          BY <1>4, <3>4 DEF HandlerStrand
        <4>3. t # <<SaveCall>>
          <5> SUFFICES ASSUME t = <<SaveCall>> PROVE FALSE
            OBVIOUS
          <5>1. 1 + 1 \in DOMAIN t
            BY <1>5, <2>1, <4>2 DEF Ends
          <5> QED BY <5>1
        <4> QED BY <1>5, <1>6, <2>1, <4>1, <4>2, <4>3 DEF Pursued
      <3>5. StrandMoved(apps', outbox', faults', r)
        BY <1>2, <1>4, <3>1, <3>2, <3>4, ReplyStrand
      <3>6. RequireReview \/ copy.status # "pending_review"
        BY <1>9, <3>3
      <3> QED BY <1>11, <3>1, <3>5, <3>6
    <2> QED BY <2>2, <2>3
  <1>19. CASE StoreEnqueue(r)
    <2>1. Head(t).call = "enqueue"
      BY <1>19 DEF StoreEnqueue, NextCall
    <2>2. CASE ~Exists(id)
      BY <1>14, <1>19, <2>2 DEF StoreEnqueue
    <2>3. CASE Exists(id)
      <3>1. /\ outbox' = [outbox EXCEPT ![id] = IF @ = "none" THEN "ready" ELSE @]
            /\ Reply(r, copy) /\ apps' = apps
        BY <1>19, <2>3 DEF StoreEnqueue
      <3>2. /\ outbox'[id] # "none" /\ (outbox'[id] = "done" => outbox[id] = "done")
            /\ \A b \in Apps : b # id => outbox'[b] = outbox[b]
        BY <1>1, <1>3, <3>1
      <3>3. PICK c : c = copy
        OBVIOUS
      <3>4. Reply(r, c)
        BY <3>1, <3>3
      <3>5. StrandMoved(apps', outbox', faults', r)
        BY <1>2, <1>4, <3>2, <3>4, ReplyStrand
      <3> QED BY <1>1, <1>3, <1>9, <3>1, <3>2, <3>5, StrandFinish
    <2> QED BY <2>2, <2>3
  <1>20. CASE StoreAudit(r)
    <2>1. Head(t).call = "audit"
      BY <1>20 DEF StoreAudit, NextCall
    <2>2. CASE ~Exists(id)
      BY <1>14, <1>20, <2>2 DEF StoreAudit
    <2>3. CASE Exists(id)
      <3>1. Reply(r, copy) /\ apps' = apps /\ outbox' = outbox
        BY <1>20, <2>3 DEF StoreAudit
      <3>2. PICK c : c = copy
        OBVIOUS
      <3>3. Reply(r, c)
        BY <3>1, <3>2
      <3> QED BY <1>5, <1>13, <2>1, <3>1, <3>3
    <2> QED BY <2>2, <2>3
  <1>21. CASE StoreDelete(r)
    <2>1. Head(t).call = "delete"
      BY <1>21 DEF StoreDelete, NextCall
    <2>2. CASE ~Exists(id)
      BY <1>14, <1>21, <2>2 DEF StoreDelete
    <2>3. CASE Exists(id)
      <3>1. /\ apps' = [apps EXCEPT ![id] = NoRow("deleted")] /\ Reply(r, NoRow("absent"))
            /\ outbox' = [outbox EXCEPT ![id] = "none"]
        BY <1>21, <2>3 DEF StoreDelete
      <3>2. /\ apps'[id].status = "deleted" /\ outbox'[id] = "none"
            /\ \A b \in Apps : b # id => apps'[b] = apps[b] /\ outbox'[b] = outbox[b]
        BY <1>1, <1>3, <3>1 DEF NoRow
      <3>3. StrandMoved(apps', outbox', faults', r)
        BY <1>2, <1>4, <3>1, <3>2, ReplyStrand
      <3> QED BY <1>1, <1>3, <3>2, <3>3, StrandFinish
    <2> QED BY <2>2, <2>3
  <1>22. CASE UpdateClient(r) \/ DeleteClient(r)
    <2>1. /\ Head(t).call \in {"updateClient", "deleteClient"}
          /\ Refused(r) \/ ((\E c : Reply(r, c)) /\ apps' = apps /\ outbox' = outbox)
      BY <1>22 DEF UpdateClient, DeleteClient, NextCall
    <2> QED BY <1>5, <1>13, <1>14, <2>1
  <1> QED BY <1>15, <1>16, <1>17, <1>18, <1>19, <1>20, <1>21, <1>22 DEF Step

(* The operations that start a handler. *)
LEMMA BeginStrand ==
    ASSUME TypeOK, StrandInv, Sequential, NEW r \in Requests, NEW u, NEW a, NEW copy, NEW todo,
           Begin(r, u, a, copy, todo), Ends(todo)
    PROVE  StrandInv'
  <1> DEFINE q == [actor |-> u, id |-> a, copy |-> copy, todo |-> todo]
  <1>1. /\ req' = [req EXCEPT ![r] = q] /\ req[r].todo = <<>>
        /\ UNCHANGED <<apps, outbox, prov, faults>>
    BY DEF Begin, InFlight
  <1>2. q.todo = todo
    OBVIOUS
  <1> HIDE DEF q
  <1>3. req'[r] = q
    BY <1>1 DEF TypeOK
  <1>4. \A s \in Requests : req'[s].todo # <<>> => HandlerStrand(faults', req'[s])
    BY <1>2, <1>3 DEF Sequential, HandlerStrand
  <1>5. \A b \in Apps : ~(apps[b].status = "provisioning" /\ outbox[b] = "none")
    BY <1>1, PursuedElsewhere
  <1>6. RowsStrand(apps', outbox', req')
    BY <1>1, <1>5 DEF RowsStrand
  <1> QED BY <1>1, <1>4, <1>6 DEF StrandInv

LEMMA StartStrand ==
    ASSUME TypeOK, StrandInv, Sequential, NEW r \in Requests, Start(r)
    PROVE  StrandInv'
  <1>1. CASE CreateDraft(r)
    <2>1. PICK u \in Users, a \in Apps, p \in Profiles :
             Begin(r, u, a, [NoRow("draft") EXCEPT !.owner = u, !.profile = p], CreateCalls)
      BY <1>1 DEF CreateDraft, CreateCalls
    <2> QED BY <2>1, CreateEnds, BeginStrand
  <1>2. CASE UpdateDraft(r)
    <2>1. PICK a \in Apps, p \in Profiles :
             Begin(r, apps[a].owner, a, editedRow(apps[a], p), editCalls(apps[a].status))
      BY <1>2 DEF UpdateDraft
    <2>2. PICK todo : todo = editCalls(apps[a].status)
      OBVIOUS
    <2>3. Ends(todo)
      BY <2>2, FixedEnds
    <2> QED BY <2>1, <2>2, <2>3, BeginStrand
  <1>3. CASE Submit(r)
    <2>1. PICK a \in Apps :
             /\ apps[a].status \in {"draft", "changes_requested", "rejected"}
             /\ Begin(r, apps[a].owner, a, NoRow("absent"), submitCalls(apps[a].status))
      BY <1>3 DEF Submit
    <2>2. PICK todo : todo = submitCalls(apps[a].status)
      OBVIOUS
    <2>3. Ends(todo)
      BY <2>1, <2>2, SubmitEnds
    <2> QED BY <2>1, <2>2, <2>3, BeginStrand
  <1>4. CASE ViewSecret(r)
    BY <1>4, FixedEnds, BeginStrand DEF ViewSecret
  <1>5. CASE RotateSecret(r)
    BY <1>5, FixedEnds, BeginStrand DEF RotateSecret
  <1>6. CASE Revoke(r)
    BY <1>6, FixedEnds, BeginStrand DEF Revoke
  <1>7. CASE Delete(r)
    <2>1. PICK a \in Apps :
             Begin(r, apps[a].owner, a, [NoRow("absent") EXCEPT !.client = apps[a].client],
                   deleteCalls(apps[a].status))
      BY <1>7 DEF Delete
    <2>2. PICK todo : todo = deleteCalls(apps[a].status)
      OBVIOUS
    <2>3. Ends(todo)
      BY <2>2, DeleteEnds
    <2> QED BY <2>1, <2>2, <2>3, BeginStrand
  <1>8. ASSUME NEW todo, RequireReview => Ends(todo), prepareReview(r, todo)
        PROVE  StrandInv'
    <2>1. PICK a \in Apps, u \in Users :
             apps[a].status = "pending_review" /\ Begin(r, u, a, NoRow("absent"), todo)
      BY <1>8 DEF prepareReview
    <2>2. RequireReview
      BY <2>1 DEF StrandInv
    <2> QED BY <1>8, <2>1, <2>2, BeginStrand
  <1>9. CASE Approve(r)
    BY <1>8, <1>9, FixedEnds DEF Approve
  <1>10. CASE Reject(r) \/ RequestChanges(r)
    BY <1>8, <1>10, FixedEnds DEF Reject, RequestChanges, decide
  <1> QED BY <1>1, <1>2, <1>3, <1>4, <1>5, <1>6, <1>7, <1>9, <1>10 DEF Start

(* A call of a handler fails: there are no reviews, and it is the first one. *)
LEMMA CallFailsStrand ==
    ASSUME TypeOK, ReviewInv, SeqInv, StrandInv, Sequential, Recoverable,
           NEW r \in Requests, CallFails(r)
    PROVE  StrandInv'
  <1> DEFINE id == req[r].id
  <1> DEFINE t == req[r].todo
  <1>1. /\ UNCHANGED <<apps, outbox, prov>> /\ InFlight(r) /\ OnError(r)
        /\ "fail" \in FaultKinds /\ faults < MaxFaults /\ faults' = faults + 1
    BY DEF CallFails, Fault
  <1>2. ~RequireReview /\ faults = 0 /\ faults' >= 1
    <2>1. ~RequireReview /\ MaxFaults <= 1
      BY <1>1 DEF Recoverable, NoFaults
    <2> QED BY <1>1, <2>1, Assumptions DEF TypeOK
  <1>3. /\ HandlerOK(apps, audit, req[r]) /\ HandlerSeq(apps, outbox, prov, req[r])
        /\ HandlerStrand(faults, req[r])
    BY <1>1 DEF ReviewInv, HandlersOK, InFlight, SeqInv, StrandInv
  <1>4. Head(t) = t[1] /\ 1 \in DOMAIN t /\ id \in Apps /\ t \in Seq(Calls)
    BY <1>1, <1>3, HeadFacts DEF TypeOK, InFlight, Request
  <1>5. Ends(t)
    BY <1>2, <1>3 DEF HandlerStrand
  <1>6. RequireReview \/ apps'[id].status # "pending_review"
    BY <1>1, <1>4 DEF StrandInv
  <1>7. CASE Head(t) = EnqueueDraft
    <2> DEFINE q == [req[r] EXCEPT !.todo = <<SaveCall>>]
    <2>1. req' = [req EXCEPT ![r] = q]
      BY <1>1, <1>7 DEF OnError, EnqueueDraft
    <2>2. q.id = id /\ q.copy = req[r].copy /\ q.todo = <<SaveCall>>
      BY DEF TypeOK, Request
    <2> HIDE DEF q
    <2>3. q.copy.status = "draft"
      BY <1>3, <1>4, <1>7, <2>2 DEF HandlerSeq
    <2>4. HandlerStrand(faults', q) /\ Pursued(q.todo) /\ q.todo # <<>>
      BY <1>2, <2>2, <2>3 DEF HandlerStrand, Pursued
    <2>5. StrandMoved(apps', outbox', faults', r)
      BY <2>1, <2>2, <2>4 DEF StrandMoved
    <2> QED BY <1>1, <1>4, <1>6, <2>5, StrandFinish DEF OneRowMoves
  <1>8. CASE Head(t) # EnqueueDraft
    <2>1. req' = [req EXCEPT ![r] = Idle]
      BY <1>1, <1>8 DEF OnError, EnqueueDraft
    <2>2. ~(apps[id].status = "provisioning" /\ outbox[id] = "none")
      <3> SUFFICES ASSUME Pursued(t) PROVE FALSE
        BY <1>4, PursuedElsewhere
      <3>1. CASE t[1].call = "enqueue"
        <4>1. t[1] = CallTo("enqueue", "-", "-")
          BY <1>4, <1>8, <3>1, ElementOfSeq, CallNames
        <4> QED BY <1>2, <1>4, <1>5, <4>1 DEF Ends
      <3>2. CASE t[1].call = "save" /\ 2 \in DOMAIN t /\ t[2].call = "enqueue"
        <4>1. t[2] = EnqueueDraft \/ t[2] = CallTo("enqueue", "-", "-")
          BY <1>4, <3>2, ElementOfSeq, CallNames
        <4>2. t[2] = EnqueueDraft
          BY <1>2, <1>5, <3>2, <4>1 DEF Ends
        <4>3. 2 - 1 = 1 /\ 2 # 1
          OBVIOUS
        <4>4. t[1] = TransitionCall("draft", "provisioning")
          BY <1>3, <3>2, <4>2, <4>3 DEF HandlerSeq, Shape
        <4> QED BY <3>2, <4>4, FixedCalls
      <3>3. CASE t = <<SaveCall>>
        <4>1. t[1].call = "save"
          BY <3>3, FixedCalls
        <4>2. 1 + 1 \in DOMAIN t
          BY <1>4, <1>5, <4>1 DEF Ends
        <4> QED BY <3>3, <4>2
      <3> QED BY <3>1, <3>2, <3>3 DEF Pursued
    <2>3. StrandMoved(apps', outbox', faults', r)
      BY <1>1, <2>1, <2>2, RowTypes DEF StrandMoved
    <2> QED BY <1>1, <1>4, <1>6, <2>3, StrandFinish DEF OneRowMoves
  <1> QED BY <1>7, <1>8

(* The worker and the clock. *)
LEMMA WorkerStrand ==
    ASSUME StrandInv, TypeOK, req' = req, faults' = faults \/ faults' = faults + 1,
           \A a \in Apps :
              /\ apps'[a].status = "provisioning" => apps[a].status = "provisioning"
              /\ apps'[a].status = "pending_review" => apps[a].status = "pending_review"
              /\ outbox'[a] = "none" => outbox[a] = "none",
           EventStrand(apps', outbox', prov')
    PROVE  StrandInv'
  <1>1. RowsStrand(apps', outbox', req')
    BY DEF StrandInv, RowsStrand
  <1>2. \A q : HandlerStrand(faults, q) => HandlerStrand(faults', q)
    BY DEF HandlerStrand, TypeOK
  <1>3. \A r \in Requests : req'[r].todo # <<>> => HandlerStrand(faults', req'[r])
    BY <1>2 DEF StrandInv
  <1>4. RequireReview \/ \A a \in Apps : apps'[a].status # "pending_review"
    BY DEF StrandInv
  <1> QED BY <1>1, <1>3, <1>4 DEF StrandInv

LEMMA RunOnceStrand ==
    ASSUME TypeOK, SeqInv, StrandInv, FailuresOnly, RunOnce \/ WorkerCallFails
    PROVE  StrandInv'
  <1>1. /\ apps \in [Apps -> Row] /\ outbox \in [Apps -> OutboxStates]
        /\ prov \in [pc : {"idle", "get", "create", "save", "complete", "audit", "retry",
                           "drop"}, id : Apps \cup {None}, copy : Row]
        /\ prov.pc # "idle" => prov.id \in Apps
    BY DEF TypeOK
  <1>2. RowsSeq(apps, outbox) /\ ProvSeq(apps, prov) /\ EventStrand(apps, outbox, prov)
    BY DEF SeqInv, StrandInv
  <1>3. ProvIdle.pc = "idle"
    BY DEF ProvIdle
  <1>4. /\ req' = req
        /\ faults' = faults \/ faults' = faults + 1
    BY DEF RunOnce, GetApplication, CreateClient, SaveApproved, Complete, AuditProvisioned,
           Retry, WorkerCallFails, Fault
  <1>5. \A pc : [prov EXCEPT !.pc = pc].id = prov.id /\ [prov EXCEPT !.pc = pc].pc = pc
    BY <1>1
  <1>6. ASSUME apps' = apps, outbox' = outbox, prov'.pc \notin {"complete", "drop"}
        PROVE  StrandInv'
    <2>1. EventStrand(apps', outbox', prov')
      BY <1>2, <1>6 DEF EventStrand
    <2> QED BY <1>4, <1>6, <2>1, WorkerStrand
  <1>7. CASE GetApplication
    <2> DEFINE a == prov.id
    <2>1. a \in Apps /\ apps' = apps /\ outbox' = outbox
      BY <1>1, <1>7 DEF GetApplication, Worker
    <2>2. \/ prov'.pc \notin {"complete", "drop"}
          \/ /\ prov' = [prov EXCEPT !.pc = "drop"]
             /\ apps[a].status \in Statuses /\ apps[a].status # "provisioning"
      <3>1. \/ prov' = [prov EXCEPT !.pc = "retry"]
            \/ /\ prov' = [prov EXCEPT !.pc = "drop"]
               /\ apps[a].status \in Statuses /\ apps[a].status # "provisioning"
            \/ prov' = [prov EXCEPT !.pc = "create", !.copy = apps[a]]
            \/ prov' = [prov EXCEPT !.pc = "save", !.copy = WithCredentials(apps[a], a, cred[a])]
        BY <1>7 DEF GetApplication, Goto, keptCredentials, provisionable, Exists
      <3>2. ASSUME NEW c, prov' = [prov EXCEPT !.pc = "save", !.copy = c]
            PROVE  prov'.pc = "save"
        BY <1>1, <3>2
      <3>3. ASSUME NEW c, prov' = [prov EXCEPT !.pc = "create", !.copy = c]
            PROVE  prov'.pc = "create"
        BY <1>1, <3>3
      <3> QED BY <1>5, <3>1, <3>2, <3>3
    <2>3. CASE prov'.pc \notin {"complete", "drop"}
      BY <1>6, <2>1, <2>3
    <2>4. CASE /\ prov' = [prov EXCEPT !.pc = "drop"]
               /\ apps[a].status \in Statuses /\ apps[a].status # "provisioning"
      <3>1. prov'.id = a
        BY <1>5, <2>4
      <3>2. apps[a].status \in Settled
        BY <1>2, <2>1, <2>4 DEF ProvSeq, Provisioned, Settled, Statuses
      <3>3. EventStrand(apps', outbox', prov')
        BY <1>2, <2>1, <3>1, <3>2 DEF EventStrand
      <3> QED BY <1>4, <2>1, <3>3, WorkerStrand
    <2> QED BY <2>2, <2>3, <2>4
  <1>8. CASE CreateClient
    <2>1. /\ apps' = apps /\ outbox' = outbox
          /\ \E c : prov' = [prov EXCEPT !.pc = "save", !.copy = c]
      BY <1>8 DEF CreateClient, Fault, FailuresOnly
    <2>2. PICK c : prov' = [prov EXCEPT !.pc = "save", !.copy = c]
      BY <2>1
    <2>3. prov'.pc = "save"
      BY <1>1, <2>2
    <2> QED BY <1>6, <2>1, <2>3
  <1>9. CASE SaveApproved
    <2> DEFINE a == prov.id
    <2>1. a \in Apps /\ outbox' = outbox /\ prov.pc = "save"
      BY <1>1, <1>9 DEF SaveApproved, Worker
    <2>2. apps[a].status = "provisioning" /\ prov.copy.status = "approved"
      BY <1>2, <2>1 DEF ProvSeq
    <2>3. /\ apps' = [apps EXCEPT ![a] = prov.copy] /\ prov' = [prov EXCEPT !.pc = "complete"]
      <3>1. Exists(a)
        BY <2>2 DEF Exists, Statuses
      <3> QED BY <1>9, <3>1 DEF SaveApproved, Goto, Fault, FailuresOnly
    <2>4. /\ apps'[a].status = "approved" /\ \A b \in Apps : b # a => apps'[b] = apps[b]
          /\ prov'.id = a
      BY <1>1, <1>5, <2>1, <2>2, <2>3
    <2>5. EventStrand(apps', outbox', prov')
      BY <1>2, <2>1, <2>2, <2>4 DEF EventStrand, Settled
    <2>6. \A b \in Apps :
             /\ apps'[b].status = "provisioning" => apps[b].status = "provisioning"
             /\ apps'[b].status = "pending_review" => apps[b].status = "pending_review"
      BY <2>4
    <2> QED BY <1>4, <2>1, <2>5, <2>6, WorkerStrand
  <1>10. CASE Complete
    <2> DEFINE a == prov.id
    <2>1. /\ a \in Apps /\ prov.pc \in {"complete", "drop"} /\ apps' = apps
          /\ outbox' = [outbox EXCEPT ![a] = IF @ = "none" THEN @ ELSE "done"]
          /\ prov' = ProvIdle \/ prov' = [prov EXCEPT !.pc = "audit"]
      BY <1>1, <1>10 DEF Complete, Worker
    <2>2. prov'.pc \notin {"complete", "drop"}
      BY <1>3, <1>5, <2>1
    <2>3. \A b \in Apps : (outbox'[b] = "none" => outbox[b] = "none")
                         /\ (b # a => outbox'[b] = outbox[b])
      BY <1>1, <2>1
    <2>4. EventStrand(apps', outbox', prov')
      BY <1>2, <2>1, <2>2, <2>3 DEF EventStrand
    <2> QED BY <1>4, <2>1, <2>3, <2>4, WorkerStrand
  <1>11. CASE AuditProvisioned
    BY <1>3, <1>6, <1>11 DEF AuditProvisioned
  <1>12. CASE Retry
    <2> DEFINE a == prov.id
    <2>1. /\ a \in Apps /\ apps' = apps /\ prov' = ProvIdle
          /\ outbox' = [outbox EXCEPT ![a] = IF @ \in {"none", "done"} THEN @ ELSE "waiting"]
      BY <1>1, <1>12 DEF Retry, Worker
    <2>2. \A b \in Apps : (outbox'[b] = "none" => outbox[b] = "none")
                         /\ (outbox'[b] = "done" => outbox[b] = "done")
      BY <1>1, <2>1
    <2>3. EventStrand(apps', outbox', prov')
      BY <1>2, <1>3, <2>1, <2>2 DEF EventStrand
    <2> QED BY <1>4, <2>1, <2>2, <2>3, WorkerStrand
  <1>13. CASE WorkerCallFails
    <2>1. /\ apps' = apps /\ outbox' = outbox
          /\ prov' = ProvIdle \/ prov' = [prov EXCEPT !.pc = "retry"]
      BY <1>13 DEF WorkerCallFails, afterFailure
    <2>2. prov'.pc \notin {"complete", "drop"}
      BY <1>3, <1>5, <2>1
    <2> QED BY <1>6, <2>1, <2>2
  <1> QED BY <1>7, <1>8, <1>9, <1>10, <1>11, <1>12, <1>13 DEF RunOnce

LEMMA NextStrand ==
    ASSUME TypeOK, ReviewInv, SeqInv, StrandInv, Sequential, Recoverable, [Next]_vars
    PROVE  StrandInv'
  <1>1. FailuresOnly
    BY DEF Recoverable, NoFaults, FailuresOnly
  <1>2. ASSUME NEW r \in Requests, Start(r) PROVE StrandInv'
    BY <1>2, StartStrand
  <1>3. ASSUME NEW r \in Requests, Step(r) PROVE StrandInv'
    BY <1>1, <1>3, StepStrand
  <1>4. ASSUME NEW r \in Requests, CallFails(r) PROVE StrandInv'
    BY <1>4, CallFailsStrand
  <1>5. ASSUME NEW a \in Apps, ClaimNext(a) \/ RetryDelayPasses(a) \/ ClaimTimesOut(a)
        PROVE  StrandInv'
    <2>1. /\ UNCHANGED <<apps, req>> /\ (faults' = faults \/ faults' = faults + 1)
          /\ prov' = Claimed(a) \/ prov' = prov
          /\ \E st \in {"claimed", "ready"} : outbox' = [outbox EXCEPT ![a] = st]
      BY <1>5 DEF ClaimNext, RetryDelayPasses, ClaimTimesOut, Fault
    <2>2. \A b \in Apps : (outbox'[b] = "none" => outbox[b] = "none")
                         /\ (outbox'[b] = "done" => outbox[b] = "done")
      BY <2>1 DEF TypeOK
    <2>3. Claimed(a).pc = "get"
      BY DEF Claimed, ProvIdle
    <2>4. EventStrand(apps', outbox', prov')
      BY <2>1, <2>2, <2>3 DEF StrandInv, EventStrand
    <2> QED BY <2>1, <2>2, <2>4, WorkerStrand
  <1>6. CASE RunOnce \/ WorkerCallFails
    BY <1>1, <1>6, RunOnceStrand
  <1>7. ~Crash
    BY <1>1 DEF Crash, Fault, FailuresOnly
  <1>8. CASE UNCHANGED vars
    BY <1>8 DEF vars, StrandInv
  <1> QED BY <1>2, <1>3, <1>4, <1>5, <1>6, <1>7, <1>8 DEF Next

(* While requests do not overlap, an application in provisioning has an event *)
(* that the worker will take up, or a handler that is about to enqueue one or *)
(* to put the row back: when no call fails, and, in deployments without       *)
(* reviews, when one does, because startProvisioning undoes its transition    *)
(* when Enqueue fails.  It does not hold with a failure during Approve, which *)
(* undoes nothing, nor when the rollback's own Save fails.                    *)
THEOREM ProvisioningIsPursued ==
    ASSUME Sequential, Recoverable
    PROVE  Spec => []NoStrandedProvisioning
  <1>1. NoLateRollback
    BY DEF NoLateRollback, Recoverable, NoFaults, FailuresOnly
  <1>2. Init => StrandInv
    <2> SUFFICES ASSUME Init PROVE StrandInv
      OBVIOUS
    <2>1. \A r \in Requests : req[r].todo = <<>>
      BY RowTypes DEF Init
    <2>2. \A a \in Apps : apps[a].status = "absent" /\ outbox[a] = "none"
      BY DEF Init, NoRow
    <2>3. prov.pc = "idle"
      BY DEF Init, ProvIdle
    <2> QED BY <2>1, <2>2, <2>3 DEF StrandInv, RowsStrand, EventStrand
  <1>3. TypeOK /\ ReviewInv /\ SeqInv /\ StrandInv /\ [Next]_vars => StrandInv'
    BY NextStrand
  <1>4. TypeOK /\ StrandInv => NoStrandedProvisioning
    <2> SUFFICES ASSUME TypeOK, StrandInv, NEW a \in Apps, apps[a].status = "provisioning"
                 PROVE  \/ outbox[a] \in {"ready", "claimed", "waiting"}
                        \/ \E r \in Requests :
                              /\ req[r].id = a
                              /\ \/ \E i \in DOMAIN req[r].todo : req[r].todo[i].call = "enqueue"
                                 \/ req[r].todo = <<SaveCall>>
      BY DEF NoStrandedProvisioning
    <2>1. outbox[a] # "done"
      BY DEF StrandInv, EventStrand, Settled
    <2>2. outbox[a] \in OutboxStates
      BY DEF TypeOK
    <2>3. CASE outbox[a] = "none"
      <3>1. PICK r \in Requests : req[r].todo # <<>> /\ req[r].id = a /\ Pursued(req[r].todo)
        BY <2>3 DEF StrandInv, RowsStrand
      <3>2. 1 \in DOMAIN req[r].todo
        BY <3>1, LenProperties, EmptySeq DEF TypeOK, Request
      <3> QED BY <3>1, <3>2 DEF Pursued
    <2> QED BY <2>1, <2>2, <2>3 DEF OutboxStates
  <1> QED BY <1>1, <1>2, <1>3, <1>4, TypeCorrect, ReviewSafety, SeqSafety, PTL DEF Spec
=============================================================================
