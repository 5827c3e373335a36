------------------------ MODULE AuthorizationProofs ------------------------
(***************************************************************************)
(* Theorems about Authorization, for any number of users, authorization    *)
(* requests and overlapping HTTP requests.                                 *)
(***************************************************************************)
EXTENDS Authorization, SequenceTheorems, TLAPS

-----------------------------------------------------------------------------
(* What is left of a handler.  The number is that of the calls still to make. *)

Callback5 == <<"status", "login", "status", "acceptLogin", "establish">>
Callback4 == <<"login", "status", "acceptLogin", "establish">>
Callback3 == <<"status", "acceptLogin", "establish">>
Callback2 == <<"acceptLogin", "establish">>
Enter2 == <<"status", "establish">>
Enter1 == <<"establish">>
Allow5 == <<"request", "request", "status", "put", "acceptConsent">>
Allow4 == <<"request", "status", "put", "acceptConsent">>
Allow3 == <<"status", "put", "acceptConsent">>
Allow2 == <<"put", "acceptConsent">>
Allow1 == <<"acceptConsent">>
Rollback1 == <<"rollback">>
Deny2 == <<"request", "rejectConsent">>
Deny1 == <<"rejectConsent">>
UserInfo4 == <<"introspect", "app", "status", "claims">>
UserInfo3 == <<"app", "status", "claims">>
UserInfo2 == <<"status", "claims">>
UserInfo1 == <<"claims">>

-----------------------------------------------------------------------------
(* The inductive invariant: what a handler has established by the calls it  *)
(* has made, and what of it the steps of others cannot take away.           *)

Remembered(q) == flow[q.flow].state # "none" /\ flow[q.flow].hint \in {None, q.user}

InCallback(q) ==
    /\ q.flow \in Flows
    /\ \/ q.todo \in {Callback5, Callback4}
       \/ q.todo = Callback3 /\ Remembered(q)
       \/ q.todo = Callback2 /\ Remembered(q) /\ q.ableNow

\* The row a Put leaves behind is there until a rollback or the deletion of the
\* application.
RowKept(u) == app # "deleted" /\ ~undone[u] => consents[u] # {}

InAllow(q) ==
    /\ q.flow \in Flows /\ ConsentKnown(q.flow)
    /\ [user |-> q.user, scopes |-> q.form] \in allowed[q.flow]
    /\ \/ q.todo = Allow5
       \/ /\ flow[q.flow].subject = q.user /\ q.approved
          /\ \/ q.todo \in {Allow4, Allow3}
             \/ q.todo = Allow2 /\ q.ableNow
             \/ q.todo = Allow1 /\ RowKept(q.user)

InUserInfo(q) ==
    /\ q.flow \in Flows
    /\ \/ q.todo \in {UserInfo4, UserInfo3}
       \/ q.todo = UserInfo2 /\ q.approved
       \/ q.todo = UserInfo1 /\ q.approved /\ q.ableNow

HandlerOK(q) ==
    q.todo # <<>> =>
        /\ q.user \in Users
        /\ able[q.user] => q.ableNow
        /\ app = "approved" => q.approved
        /\ \/ InCallback(q) \/ InAllow(q) \/ InUserInfo(q)
           \/ q.todo \in {Enter2, Enter1}
           \/ q.flow \in Flows /\ ConsentKnown(q.flow) /\ q.todo \in {Deny2, Deny1, Rollback1}

FlowOK(f) ==
    /\ flow[f].state \notin {"none", "login"} => flow[f].subject \in Users
    /\ flow[f].subject # None => flow[f].hint \in {None, flow[f].subject}
    /\ Granted(f) =>
           /\ [user |-> flow[f].subject, scopes |-> flow[f].granted] \in allowed[f]
           /\ RowKept(flow[f].subject)

AuthInv ==
    /\ TypeOK
    /\ \A r \in Requests : HandlerOK(req[r])
    /\ \A f \in Flows : FlowOK(f)
    /\ ConsentBacked

-----------------------------------------------------------------------------
(* Values *)

LEMMA Values ==
    /\ Idle \in Request /\ Idle.todo = <<>>
    /\ NoFlow \in Flow /\ NoFlow.subject = None
<1>1. <<>> \in Seq(Ops)
  OBVIOUS
<1> QED
  BY <1>1 DEF Idle, Request, NoFlow, Flow, FlowStates

LEMMA Heads ==
    /\ Head(Callback5) = "status" /\ Head(Callback4) = "login" /\ Head(Callback3) = "status"
    /\ Head(Callback2) = "acceptLogin" /\ Head(Enter2) = "status" /\ Head(Enter1) = "establish"
    /\ Head(Allow5) = "request" /\ Head(Allow4) = "request" /\ Head(Allow3) = "status"
    /\ Head(Allow2) = "put" /\ Head(Allow1) = "acceptConsent" /\ Head(Rollback1) = "rollback"
    /\ Head(Deny2) = "request" /\ Head(Deny1) = "rejectConsent"
    /\ Head(UserInfo4) = "introspect" /\ Head(UserInfo3) = "app"
    /\ Head(UserInfo2) = "status" /\ Head(UserInfo1) = "claims"
  BY DEF Callback5, Callback4, Callback3, Callback2, Enter2, Enter1, Allow5, Allow4, Allow3,
         Allow2, Allow1, Rollback1, Deny2, Deny1, UserInfo4, UserInfo3, UserInfo2, UserInfo1

LEMMA Tails ==
    /\ Tail(Callback5) = Callback4 /\ Tail(Callback4) = Callback3 /\ Tail(Callback3) = Callback2
    /\ Tail(Callback2) = Enter1 /\ Tail(Enter2) = Enter1
    /\ Tail(Allow5) = Allow4 /\ Tail(Allow4) = Allow3 /\ Tail(Allow3) = Allow2
    /\ Tail(Allow2) = Allow1 /\ Tail(Deny2) = Deny1
    /\ Tail(UserInfo4) = UserInfo3 /\ Tail(UserInfo3) = UserInfo2 /\ Tail(UserInfo2) = UserInfo1
  BY DEF Callback5, Callback4, Callback3, Callback2, Enter2, Enter1, Allow5, Allow4, Allow3,
         Allow2, Allow1, Deny2, Deny1, UserInfo4, UserInfo3, UserInfo2, UserInfo1

LEMMA Lengths ==
    /\ Len(Callback5) > 1 /\ Len(Callback4) > 1 /\ Len(Callback3) > 1 /\ Len(Callback2) > 1
    /\ Len(Enter2) > 1 /\ Len(Enter1) = 1
    /\ Len(Allow5) > 1 /\ Len(Allow4) > 1 /\ Len(Allow3) > 1 /\ Len(Allow2) > 1
    /\ Len(Allow1) = 1 /\ Len(Deny2) > 1 /\ Len(Deny1) = 1
    /\ Len(UserInfo4) > 1 /\ Len(UserInfo3) > 1 /\ Len(UserInfo2) > 1 /\ Len(UserInfo1) = 1
  BY DEF Callback5, Callback4, Callback3, Callback2, Enter2, Enter1, Allow5, Allow4, Allow3,
         Allow2, Allow1, Deny2, Deny1, UserInfo4, UserInfo3, UserInfo2, UserInfo1

LEMMA StageTypes ==
    /\ Callback5 \in Seq(Ops) /\ Callback4 \in Seq(Ops) /\ Callback3 \in Seq(Ops)
    /\ Callback2 \in Seq(Ops) /\ Enter2 \in Seq(Ops) /\ Enter1 \in Seq(Ops)
    /\ Allow5 \in Seq(Ops) /\ Allow4 \in Seq(Ops) /\ Allow3 \in Seq(Ops) /\ Allow2 \in Seq(Ops)
    /\ Allow1 \in Seq(Ops) /\ Rollback1 \in Seq(Ops)
    /\ Deny2 \in Seq(Ops) /\ Deny1 \in Seq(Ops) /\ UserInfo4 \in Seq(Ops)
    /\ UserInfo3 \in Seq(Ops) /\ UserInfo2 \in Seq(Ops) /\ UserInfo1 \in Seq(Ops)
  BY DEF Callback5, Callback4, Callback3, Callback2, Enter2, Enter1, Allow5, Allow4, Allow3,
         Allow2, Allow1, Rollback1, Deny2, Deny1, UserInfo4, UserInfo3, UserInfo2, UserInfo1, Ops

LEMMA Programs ==
    /\ Program["callback"] = Callback5 /\ Program["enter"] = Enter2 /\ Program["allow"] = Allow5
    /\ Program["deny"] = Deny2 /\ Program["userinfo"] = UserInfo4
    /\ Rollback1 # <<>> /\ Callback5 # <<>> /\ Enter2 # <<>> /\ Allow5 # <<>> /\ Deny2 # <<>>
    /\ UserInfo4 # <<>>
  BY DEF Program, Callback5, Enter2, Allow5, Deny2, UserInfo4, Rollback1

LEMMA RequestTypes ==
    ASSUME TypeOK, NEW r \in Requests
    PROVE  /\ req \in [Requests -> Request] /\ req[r] \in Request
           /\ req[r].todo \in Seq(Ops) /\ req[r].flow \in Flows \cup {None}
           /\ req[r].form \in SUBSET Scopes
           /\ req[r].approved \in BOOLEAN /\ req[r].ableNow \in BOOLEAN
           /\ req[r].todo # <<>> => req[r].user \in Users
  BY DEF TypeOK, Request

\* The handler goes on to the rest y of its calls x, or is done.
LEMMA ContinueTo ==
    ASSUME TypeOK, NEW r \in Requests, NEW y \in Seq(Ops),
           Len(req[r].todo) > 1, Tail(req[r].todo) = y, Continue(r)
    PROVE  \E q \in Request :
             /\ req' = [req EXCEPT ![r] = q]
             /\ q.todo = y /\ q.flow = req[r].flow /\ q.user = req[r].user
             /\ q.form = req[r].form /\ q.approved = req[r].approved
             /\ q.ableNow = req[r].ableNow
<1> DEFINE q == [req[r] EXCEPT !.todo = y]
<1>1. req[r] \in Request
  BY RequestTypes
<1>2. /\ q \in Request /\ q.todo = y /\ q.flow = req[r].flow /\ q.user = req[r].user
      /\ q.form = req[r].form /\ q.approved = req[r].approved /\ q.ableNow = req[r].ableNow
  BY <1>1 DEF Request
<1>3. req' = [req EXCEPT ![r] = q]
  BY DEF Continue, Next1
<1> HIDE DEF q
<1> QED
  BY <1>2, <1>3

LEMMA ContinueEnd ==
    ASSUME NEW r \in Requests, Len(req[r].todo) = 1, Continue(r)
    PROVE  Abort(r)
  BY DEF Continue, Next1, Abort

-----------------------------------------------------------------------------
(* What steps keep *)

\* An authorization request never goes back: its remembered subject is fixed by
\* its start, its subject by the redirect to the consent form.
FlowKept(f) ==
    /\ flow[f].state # "none" => flow'[f].state # "none" /\ flow'[f].hint = flow[f].hint
    /\ ConsentKnown(f) => ConsentKnown(f)' /\ flow'[f].subject = flow[f].subject

LEMMA HandlerKept ==
    ASSUME \A f \in Flows : FlowKept(f) /\ allowed[f] \subseteq allowed'[f],
           \A u \in Users : RowKept(u) => RowKept(u)',
           UNCHANGED able, app' = "approved" => app = "approved",
           NEW q, HandlerOK(q)
    PROVE  HandlerOK(q)'
<1> SUFFICES ASSUME q.todo # <<>> PROVE HandlerOK(q)'
  BY DEF HandlerOK
<1>1. q.user \in Users /\ (able[q.user] => q.ableNow) /\ (app = "approved" => q.approved)
  BY DEF HandlerOK
<1>2. CASE InCallback(q)
  <2>1. InCallback(q)'
    BY <1>2 DEF InCallback, Remembered, FlowKept
  <2> QED
    BY <1>1, <2>1 DEF HandlerOK
<1>3. CASE InAllow(q)
  <2>1. InAllow(q)'
    BY <1>1, <1>3 DEF InAllow, FlowKept
  <2> QED
    BY <1>1, <2>1 DEF HandlerOK
<1>4. CASE InUserInfo(q)
  <2>1. InUserInfo(q)'
    BY <1>4 DEF InUserInfo
  <2> QED
    BY <1>1, <2>1 DEF HandlerOK
<1>5. CASE q.todo \in {Enter2, Enter1}
  BY <1>1, <1>5 DEF HandlerOK
<1>6. CASE q.flow \in Flows /\ ConsentKnown(q.flow) /\ q.todo \in {Deny2, Deny1, Rollback1}
  BY <1>1, <1>6 DEF HandlerOK, FlowKept
<1> QED
  BY <1>2, <1>3, <1>4, <1>5, <1>6 DEF HandlerOK

LEMMA InvariantKept ==
    ASSUME AuthInv, TypeOK', ConsentBacked',
           \A f \in Flows : FlowKept(f) /\ allowed[f] \subseteq allowed'[f],
           \A f \in Flows : flow'[f] = flow[f] \/ FlowOK(f)',
           \A u \in Users : RowKept(u) => RowKept(u)',
           UNCHANGED able, app' = "approved" => app = "approved",
           \A p \in Requests : req'[p] = req[p] \/ HandlerOK(req[p])'
    PROVE  AuthInv'
<1>1. ASSUME NEW p \in Requests PROVE HandlerOK(req[p])'
  <2>1. CASE req'[p] = req[p]
    <3>1. PICK q : q = req[p]
      OBVIOUS
    <3>2. HandlerOK(q)
      BY <3>1 DEF AuthInv
    <3>3. HandlerOK(q)'
      BY <3>2, HandlerKept
    <3> QED
      BY <2>1, <3>1, <3>3 DEF HandlerOK, InCallback, Remembered, InAllow, InUserInfo
  <2> QED
    BY <2>1
<1>2. ASSUME NEW f \in Flows PROVE FlowOK(f)'
  <2>1. CASE flow'[f] = flow[f]
    <3>1. FlowOK(f)
      BY DEF AuthInv
    <3>2. Granted(f)' => Granted(f)
      BY <2>1 DEF Granted
    <3>3. Granted(f) => flow[f].subject \in Users
      BY <3>1 DEF FlowOK, Granted
    <3> QED
      BY <2>1, <3>1, <3>2, <3>3 DEF FlowOK
  <2> QED
    BY <2>1
<1> QED
  BY <1>1, <1>2 DEF AuthInv

\* A step of request r that leaves Hydra, the application and the consents alone.
LEMMA RequestStep ==
    ASSUME AuthInv, NEW r \in Requests, NEW q \in Request,
           req' = [req EXCEPT ![r] = q], HandlerOK(q)',
           UNCHANGED <<flow, world, consents, undone>>,
           session' \in Users \cup {None}, pending' \in [Flows \cup {None} -> Nat],
           arrivals' \in 0..MaxArrivals, broken' \in [Users -> BOOLEAN],
           allowed' \in [Flows -> SUBSET Decision],
           \A f \in Flows : allowed[f] \subseteq allowed'[f],
           \A u \in Users : broken[u] \/ LeavesConsent(r, u) => broken'[u] \/ LeavesConsent(r, u)'
    PROVE  AuthInv'
<1>1. req' \in [Requests -> Request] /\ \A p \in Requests : req'[p] = IF p = r THEN q ELSE req[p]
  BY RequestTypes DEF AuthInv
<1>2. q.todo # <<>> => q.user \in Users
  BY DEF HandlerOK
<1>3. TypeOK'
  BY <1>1, <1>2 DEF AuthInv, TypeOK, world
<1>4. ASSUME NEW f \in Flows PROVE FlowKept(f)
  BY DEF FlowKept, ConsentKnown
<1>5. ASSUME NEW u \in Users PROVE RowKept(u) => RowKept(u)'
  BY DEF RowKept, world
<1>6. ConsentBacked'
  <2> SUFFICES ASSUME NEW u \in Users, consents'[u] # {}
               PROVE  \/ \E f \in Flows : flow'[f].subject = u /\ (Granted(f)' \/ flow'[f].state = "denied")
                      \/ \E p \in Requests : LeavesConsent(p, u)'
                      \/ broken'[u]
    BY DEF ConsentBacked
  <2>1. \A p \in Requests : p # r => (LeavesConsent(p, u) <=> LeavesConsent(p, u)')
    BY <1>1 DEF LeavesConsent, At
  <2>2. \A f \in Flows : Granted(f) <=> Granted(f)'
    BY DEF Granted
  <2> QED
    BY <2>1, <2>2 DEF AuthInv, ConsentBacked
<1>7. ASSUME NEW p \in Requests PROVE req'[p] = req[p] \/ HandlerOK(req[p])'
  <2>1. CASE p = r
    <3>1. req'[p] = q
      BY <1>1, <2>1
    <3> QED
      BY <3>1 DEF HandlerOK, InCallback, Remembered, InAllow, InUserInfo
  <2>2. CASE p # r
    BY <1>1, <2>2
  <2> QED
    BY <2>1, <2>2
<1> QED
  BY <1>3, <1>4, <1>5, <1>6, <1>7, InvariantKept DEF world

LEMMA AbortStep ==
    ASSUME AuthInv, NEW r \in Requests, Abort(r), broken' \in [Users -> BOOLEAN],
           UNCHANGED <<flow, world, session, pending, consents, arrivals, allowed, undone>>,
           \A u \in Users : broken[u] \/ LeavesConsent(r, u) => broken'[u]
    PROVE  AuthInv'
<1>1. HandlerOK(Idle)'
  BY Values DEF HandlerOK, Idle
<1>2. /\ session' \in Users \cup {None} /\ pending' \in [Flows \cup {None} -> Nat]
      /\ arrivals' \in 0..MaxArrivals /\ allowed' \in [Flows -> SUBSET Decision]
  BY DEF AuthInv, TypeOK
<1> QED
  BY <1>1, <1>2, Values, RequestStep DEF Abort

\* q is request r with the calls y left.
After(q, r, y) ==
    /\ q.todo = y /\ q.flow = req[r].flow /\ q.user = req[r].user /\ q.form = req[r].form
    /\ q.approved = req[r].approved /\ q.ableNow = req[r].ableNow

LEMMA ReadStep ==
    ASSUME AuthInv, NEW r \in Requests, NEW y \in Seq(Ops),
           Len(req[r].todo) > 1, Tail(req[r].todo) = y, Continue(r),
           \A u \in Users : ~LeavesConsent(r, u),
           \A q \in Request : After(q, r, y) => HandlerOK(q),
           UNCHANGED <<flow, world, session, pending, consents, arrivals, ghosts>>
    PROVE  AuthInv'
<1>1. PICK q \in Request : req' = [req EXCEPT ![r] = q] /\ After(q, r, y)
  BY ContinueTo DEF AuthInv, After
<1>2. HandlerOK(q)
  BY <1>1
<1>3. HandlerOK(q)'
  BY <1>2 DEF HandlerOK, InCallback, Remembered, InAllow, RowKept, InUserInfo, ConsentKnown,
              ghosts, world
<1>4. /\ session' \in Users \cup {None} /\ pending' \in [Flows \cup {None} -> Nat]
      /\ arrivals' \in 0..MaxArrivals /\ allowed' \in [Flows -> SUBSET Decision]
      /\ broken' \in [Users -> BOOLEAN] /\ broken' = broken /\ allowed' = allowed
  BY DEF AuthInv, TypeOK, ghosts
<1> QED
  BY <1>1, <1>3, <1>4, RequestStep DEF ghosts

LEMMA ReadOK ==
    ASSUME AuthInv, NEW r \in Requests, Read(r)
    PROVE  AuthInv'
<1>1. /\ req[r].todo # <<>> /\ HandlerOK(req[r]) /\ req[r].user \in Users
      /\ UNCHANGED <<flow, world, session, pending, consents, arrivals, ghosts>>
  BY RequestTypes DEF Read, At, AuthInv
<1>2. \A u \in Users : ~LeavesConsent(r, u)
  BY DEF Read, At, LeavesConsent
<1>3. CASE ~readAllowed(r)
  <2>1. Abort(r) /\ broken' = broken
    BY <1>1, <1>3 DEF Read, ghosts
  <2>2. broken' \in [Users -> BOOLEAN]
    BY <2>1 DEF AuthInv, TypeOK
  <2> QED
    BY <1>1, <1>2, <2>1, <2>2, AbortStep DEF ghosts
<1>4. CASE readAllowed(r)
  <2>1. Continue(r)
    BY <1>4 DEF Read
  <2>2. CASE InCallback(req[r]) /\ req[r].todo = Callback5
    <3>1. \A q \in Request : After(q, r, Callback4) => HandlerOK(q)
      BY <1>1, <2>2 DEF After, HandlerOK, InCallback
    <3> QED
      BY <1>1, <1>2, <2>1, <2>2, <3>1, ReadStep, Tails, Lengths, StageTypes
  <2>3. CASE InCallback(req[r]) /\ req[r].todo = Callback4
    <3>1. Remembered(req[r])
      BY <1>1, <1>4, <2>3, Heads DEF readAllowed, At, loginAllowed, validLogin, loginOpen, Remembered
    <3>2. \A q \in Request : After(q, r, Callback3) => HandlerOK(q)
      BY <1>1, <2>3, <3>1 DEF After, HandlerOK, InCallback, Remembered
    <3> QED
      BY <1>1, <1>2, <2>1, <2>3, <3>2, ReadStep, Tails, Lengths, StageTypes
  <2>4. CASE InCallback(req[r]) /\ Remembered(req[r]) /\ req[r].todo = Callback3
    <3>1. req[r].ableNow
      BY <1>1, <1>4, <2>4, Heads DEF readAllowed, At, CanAuthenticate, HandlerOK
    <3>2. \A q \in Request : After(q, r, Callback2) => HandlerOK(q)
      BY <1>1, <2>4, <3>1 DEF After, HandlerOK, InCallback, Remembered
    <3> QED
      BY <1>1, <1>2, <2>1, <2>4, <3>2, ReadStep, Tails, Lengths, StageTypes
  <2>5. CASE req[r].todo = Enter2
    <3>1. \A q \in Request : After(q, r, Enter1) => HandlerOK(q)
      BY <1>1, <2>5 DEF After, HandlerOK
    <3> QED
      BY <1>1, <1>2, <2>1, <2>5, <3>1, ReadStep, Tails, Lengths, StageTypes
  <2>6. CASE InAllow(req[r]) /\ req[r].todo = Allow5
    <3>1. flow[req[r].flow].subject = req[r].user /\ req[r].approved
      BY <1>1, <1>4, <2>6, Heads DEF readAllowed, At, requestAllowed, HandlerOK
    <3>2. \A q \in Request : After(q, r, Allow4) => HandlerOK(q)
      BY <1>1, <2>6, <3>1 DEF After, HandlerOK, InAllow
    <3> QED
      BY <1>1, <1>2, <2>1, <2>6, <3>2, ReadStep, Tails, Lengths, StageTypes
  <2>7. CASE InAllow(req[r]) /\ req[r].todo = Allow4
    <3>1. flow[req[r].flow].subject = req[r].user /\ req[r].approved
      BY <1>1, <1>4, <2>7, Heads DEF readAllowed, At, requestAllowed, HandlerOK
    <3>2. \A q \in Request : After(q, r, Allow3) => HandlerOK(q)
      BY <1>1, <2>7, <3>1 DEF After, HandlerOK, InAllow
    <3> QED
      BY <1>1, <1>2, <2>1, <2>7, <3>2, ReadStep, Tails, Lengths, StageTypes
  <2>8. CASE /\ InAllow(req[r]) /\ req[r].todo = Allow3
           /\ flow[req[r].flow].subject = req[r].user /\ req[r].approved
    <3>1. req[r].ableNow
      BY <1>1, <1>4, <2>8, Heads DEF readAllowed, At, CanAuthenticate, HandlerOK
    <3>2. \A q \in Request : After(q, r, Allow2) => HandlerOK(q)
      BY <1>1, <2>8, <3>1 DEF After, HandlerOK, InAllow
    <3> QED
      BY <1>1, <1>2, <2>1, <2>8, <3>2, ReadStep, Tails, Lengths, StageTypes
  <2>9. CASE /\ req[r].flow \in Flows /\ ConsentKnown(req[r].flow)
           /\ req[r].todo = Deny2
    <3>1. \A q \in Request : After(q, r, Deny1) => HandlerOK(q)
      BY <1>1, <2>9 DEF After, HandlerOK
    <3> QED
      BY <1>1, <1>2, <2>1, <2>9, <3>1, ReadStep, Tails, Lengths, StageTypes
  <2>10. CASE InUserInfo(req[r]) /\ req[r].todo = UserInfo4
    <3>1. \A q \in Request : After(q, r, UserInfo3) => HandlerOK(q)
      BY <1>1, <2>10 DEF After, HandlerOK, InUserInfo
    <3> QED
      BY <1>1, <1>2, <2>1, <2>10, <3>1, ReadStep, Tails, Lengths, StageTypes
  <2>11. CASE InUserInfo(req[r]) /\ req[r].todo = UserInfo3
    <3>1. req[r].approved
      BY <1>1, <1>4, <2>11, Heads DEF readAllowed, At, HandlerOK
    <3>2. \A q \in Request : After(q, r, UserInfo2) => HandlerOK(q)
      BY <1>1, <2>11, <3>1 DEF After, HandlerOK, InUserInfo
    <3> QED
      BY <1>1, <1>2, <2>1, <2>11, <3>2, ReadStep, Tails, Lengths, StageTypes
  <2>12. CASE InUserInfo(req[r]) /\ req[r].approved /\ req[r].todo = UserInfo2
    <3>1. req[r].ableNow
      BY <1>1, <1>4, <2>12, Heads DEF readAllowed, At, CanAuthenticate, HandlerOK
    <3>2. \A q \in Request : After(q, r, UserInfo1) => HandlerOK(q)
      BY <1>1, <2>12, <3>1 DEF After, HandlerOK, InUserInfo
    <3> QED
      BY <1>1, <1>2, <2>1, <2>12, <3>2, ReadStep, Tails, Lengths, StageTypes
  <2>13. CASE req[r].todo = UserInfo1
    <3>1. Abort(r) /\ broken' = broken
      BY <1>1, <2>1, <2>13, Lengths, ContinueEnd DEF ghosts
    <3>2. broken' \in [Users -> BOOLEAN]
      BY <3>1 DEF AuthInv, TypeOK
    <3> QED
      BY <1>1, <1>2, <3>1, <3>2, AbortStep DEF ghosts
  <2> QED
    BY <1>1, <2>2, <2>3, <2>4, <2>5, <2>6, <2>7, <2>8, <2>9, <2>10, <2>11, <2>12, <2>13, Heads DEF HandlerOK, InCallback, InAllow, InUserInfo, Read, At
<1> QED
  BY <1>3, <1>4

-----------------------------------------------------------------------------
(* Requests that arrive *)

\* The request that Arrive puts in place of r.
LEMMA Arrival ==
    ASSUME AuthInv, NEW r \in Requests, NEW page, NEW f, f = None \/ f \in Flows, NEW u \in Users,
           NEW form \in SUBSET Scopes, Arrive(r, page, f, u, form), Program[page] \in Seq(Ops)
    PROVE  \E q \in Request :
             /\ req' = [req EXCEPT ![r] = q]
             /\ q.todo = Program[page] /\ q.flow = f /\ q.user = u /\ q.form = form
             /\ able[u] => q.ableNow
             /\ app = "approved" => q.approved
<1>1. able[u] \in BOOLEAN
  BY DEF AuthInv, TypeOK
<1> DEFINE t == Program[page]
           new == [todo |-> t, flow |-> f, user |-> u, form |-> form,
                   approved |-> app = "approved", ableNow |-> able[u]]
<1>2. t \in Seq(Ops)
  OBVIOUS
<1> HIDE DEF t
<1>3. new \in Request
  BY <1>1, <1>2 DEF Request
<1>4. /\ new.todo = t /\ new.flow = f /\ new.user = u /\ new.form = form
      /\ able[u] => new.ableNow
      /\ app = "approved" => new.approved
  OBVIOUS
<1>5. req' = [req EXCEPT ![r] = new]
  BY DEF Arrive, t
<1> HIDE DEF new
<1> QED
  BY <1>3, <1>4, <1>5 DEF t

LEMMA ArriveStep ==
    ASSUME AuthInv, NEW r \in Requests, NEW q \in Request, req' = [req EXCEPT ![r] = q],
           HandlerOK(q)', req[r].todo = <<>>, arrivals < MaxArrivals, arrivals' = arrivals + 1,
           UNCHANGED <<flow, world, session, consents, undone, broken>>,
           pending' \in [Flows \cup {None} -> Nat], allowed' \in [Flows -> SUBSET Decision],
           \A x \in Flows : allowed[x] \subseteq allowed'[x]
    PROVE  AuthInv'
<1>1. \A x \in Users : ~LeavesConsent(r, x)
  BY DEF LeavesConsent, At
<1>2. /\ session' \in Users \cup {None} /\ arrivals' \in 0..MaxArrivals
      /\ broken' \in [Users -> BOOLEAN] /\ broken' = broken
  BY AuthorizationAssumptions DEF AuthInv, TypeOK
<1> QED
  BY <1>1, <1>2, RequestStep

LEMMA CompleteLoginOK ==
    ASSUME AuthInv, NEW r \in Requests, NEW f \in Flows \cup {None}, NEW u \in Users,
           CompleteLogin(r, f, u)
    PROVE  AuthInv'
<1>1. PICK page : page = IF f = None THEN "enter" ELSE "callback"
  OBVIOUS
<1>0. PICK form \in SUBSET Scopes : form = {}
  OBVIOUS
<1>2. /\ Arrive(r, page, f, u, form)
      /\ UNCHANGED <<flow, world, session, consents, ghosts>>
      /\ pending[f] > 0 /\ pending' = [pending EXCEPT ![f] = pending[f] - 1]
  BY <1>0, <1>1 DEF CompleteLogin
<1>3. /\ Program[page] \in Seq(Ops)
      /\ f = None => Program[page] = Enter2
      /\ f # None => Program[page] = Callback5
  BY <1>1, Programs, StageTypes
<1>4. pending' \in [Flows \cup {None} -> Nat] /\ allowed' \in [Flows -> SUBSET Decision]
  BY <1>2 DEF AuthInv, TypeOK, ghosts
<1>5. PICK q \in Request :
        /\ req' = [req EXCEPT ![r] = q]
        /\ q.todo = Program[page] /\ q.flow = f /\ q.user = u /\ q.form = form
        /\ able[u] => q.ableNow
        /\ app = "approved" => q.approved
  <2>1. Arrive(r, page, f, u, form) /\ Program[page] \in Seq(Ops)
    BY <1>2, <1>3
  <2> QED
    BY <2>1, Arrival
<1>6. HandlerOK(q)'
  BY <1>2, <1>3, <1>5 DEF HandlerOK, InCallback, world
<1>7. /\ req[r].todo = <<>> /\ arrivals < MaxArrivals /\ arrivals' = arrivals + 1
      /\ UNCHANGED <<flow, world, session, consents, undone, broken>> /\ allowed' = allowed
  BY <1>2 DEF Arrive, ghosts
<1> QED
  BY <1>4, <1>5, <1>6, <1>7, ArriveStep

LEMMA ConsentOK ==
    ASSUME AuthInv, NEW r \in Requests, NEW f \in Flows, NEW form \in Asked \cup {{}},
           Consent(r, f, form)
    PROVE  AuthInv'
<1>1. PICK u, scopes : u = session /\ scopes = submitted(f, form)
  OBVIOUS
<1>2. /\ u # None /\ ConsentKnown(f)
      /\ Arrive(r, "allow", f, u, scopes)
      /\ allowed' = [allowed EXCEPT ![f] = allowed[f] \cup {[user |-> u, scopes |-> scopes]}]
      /\ UNCHANGED <<flow, world, session, pending, consents, undone, broken>>
  BY <1>1 DEF Consent
<1>3. u \in Users /\ scopes \in SUBSET Scopes
  BY <1>1, <1>2, AuthorizationAssumptions DEF AuthInv, TypeOK, submitted, Flow
<1>4. /\ allowed' \in [Flows -> SUBSET Decision]
      /\ [user |-> u, scopes |-> scopes] \in allowed'[f]
      /\ \A x \in Flows : allowed[x] \subseteq allowed'[x]
  <2> DEFINE d == [user |-> u, scopes |-> scopes]
  <2>1. d \in Decision
    BY <1>3 DEF Decision
  <2>2. allowed' = [allowed EXCEPT ![f] = allowed[f] \cup {d}] /\ allowed \in [Flows -> SUBSET Decision]
    BY <1>2 DEF AuthInv, TypeOK
  <2> HIDE DEF d
  <2>3. /\ allowed' \in [Flows -> SUBSET Decision] /\ d \in allowed'[f]
        /\ \A x \in Flows : allowed[x] \subseteq allowed'[x]
    BY <2>1, <2>2
  <2> QED
    BY <2>3 DEF d
<1>5. Program["allow"] = Allow5 /\ Allow5 \in Seq(Ops)
  BY Programs, StageTypes
<1>6. pending' \in [Flows \cup {None} -> Nat]
  BY <1>2 DEF AuthInv, TypeOK
<1>7. PICK q \in Request :
        /\ req' = [req EXCEPT ![r] = q]
        /\ q.todo = Allow5 /\ q.flow = f /\ q.user = u /\ q.form = scopes
        /\ able[u] => q.ableNow
        /\ app = "approved" => q.approved
  BY <1>2, <1>3, <1>5, Arrival
<1>8. InAllow(q)'
  BY <1>2, <1>4, <1>7 DEF InAllow, ConsentKnown
<1>9. HandlerOK(q)'
  BY <1>2, <1>3, <1>7, <1>8 DEF HandlerOK, world
<1> QED
  BY <1>2, <1>4, <1>6, <1>7, <1>9, ArriveStep DEF Arrive

LEMMA DenyOK ==
    ASSUME AuthInv, NEW r \in Requests, NEW f \in Flows, Deny(r, f)
    PROVE  AuthInv'
<1>1. PICK u : u = session
  OBVIOUS
<1>0. PICK form \in SUBSET Scopes : form = {}
  OBVIOUS
<1>2. /\ u # None /\ ConsentKnown(f) /\ Arrive(r, "deny", f, u, form)
      /\ UNCHANGED <<flow, world, session, pending, consents, ghosts>>
  BY <1>0, <1>1 DEF Deny
<1>3. u \in Users
  BY <1>1, <1>2 DEF AuthInv, TypeOK
<1>4. Program["deny"] = Deny2 /\ Deny2 \in Seq(Ops)
  BY Programs, StageTypes
<1>5. pending' \in [Flows \cup {None} -> Nat] /\ allowed' \in [Flows -> SUBSET Decision]
  BY <1>2 DEF AuthInv, TypeOK, ghosts
<1>6. PICK q \in Request :
        /\ req' = [req EXCEPT ![r] = q]
        /\ q.todo = Deny2 /\ q.flow = f /\ q.user = u /\ q.form = form
        /\ able[u] => q.ableNow
        /\ app = "approved" => q.approved
  BY <1>2, <1>3, <1>4, Arrival
<1>7. HandlerOK(q)'
  BY <1>2, <1>3, <1>6 DEF HandlerOK, ConsentKnown, world
<1>8. /\ req[r].todo = <<>> /\ arrivals < MaxArrivals /\ arrivals' = arrivals + 1
      /\ UNCHANGED <<flow, world, session, consents, undone, broken>> /\ allowed' = allowed
  BY <1>2 DEF Arrive, ghosts
<1> QED
  BY <1>5, <1>6, <1>7, <1>8, ArriveStep

LEMMA UserInfoOK ==
    ASSUME AuthInv, NEW r \in Requests, NEW f \in Flows, UserInfo(r, f)
    PROVE  AuthInv'
<1>1. PICK u : u = flow[f].subject
  OBVIOUS
<1>0. PICK form \in SUBSET Scopes : form = {}
  OBVIOUS
<1>2. /\ Arrive(r, "userinfo", f, u, form)
      /\ UNCHANGED <<flow, world, session, pending, consents, ghosts>>
  BY <1>0, <1>1 DEF UserInfo
<1>3. u \in Users
  BY <1>1 DEF AuthInv, FlowOK, UserInfo
<1>4. Program["userinfo"] = UserInfo4 /\ UserInfo4 \in Seq(Ops)
  BY Programs, StageTypes
<1>5. pending' \in [Flows \cup {None} -> Nat] /\ allowed' \in [Flows -> SUBSET Decision]
  BY <1>2 DEF AuthInv, TypeOK, ghosts
<1>6. PICK q \in Request :
        /\ req' = [req EXCEPT ![r] = q]
        /\ q.todo = UserInfo4 /\ q.flow = f /\ q.user = u /\ q.form = form
        /\ able[u] => q.ableNow
        /\ app = "approved" => q.approved
  BY <1>2, <1>3, <1>4, Arrival
<1>7. HandlerOK(q)'
  BY <1>2, <1>3, <1>6 DEF HandlerOK, InUserInfo, world
<1>8. /\ req[r].todo = <<>> /\ arrivals < MaxArrivals /\ arrivals' = arrivals + 1
      /\ UNCHANGED <<flow, world, session, consents, undone, broken>> /\ allowed' = allowed
  BY <1>2 DEF Arrive, ghosts
<1> QED
  BY <1>5, <1>6, <1>7, <1>8, ArriveStep

-----------------------------------------------------------------------------
(* Steps that neither Hydra nor the database see *)

LEMMA EstablishOK ==
    ASSUME AuthInv, NEW r \in Requests, Establish(r)
    PROVE  AuthInv'
<1>1. /\ req[r].todo # <<>> /\ Head(req[r].todo) = "establish" /\ Continue(r)
      /\ session' = req[r].user /\ UNCHANGED <<flow, world, pending, consents, arrivals, ghosts>>
  BY DEF Establish, At
<1>2. req[r].todo = Enter1
  BY <1>1, Heads DEF AuthInv, HandlerOK, InCallback, InAllow, InUserInfo
<1>3. req' = [req EXCEPT ![r] = Idle]
  BY <1>1, <1>2, Lengths, ContinueEnd DEF Abort
<1>4. HandlerOK(Idle)'
  BY Values DEF HandlerOK, Idle
<1>5. /\ session' \in Users \cup {None} /\ pending' \in [Flows \cup {None} -> Nat]
      /\ arrivals' \in 0..MaxArrivals /\ allowed' \in [Flows -> SUBSET Decision]
      /\ broken' \in [Users -> BOOLEAN] /\ broken' = broken /\ allowed' = allowed
  BY <1>1, RequestTypes DEF AuthInv, TypeOK, ghosts
<1>6. \A u \in Users : ~LeavesConsent(r, u)
  BY <1>1 DEF LeavesConsent, At
<1>7. UNCHANGED <<flow, world, consents, undone>>
  BY <1>1 DEF ghosts
<1> QED
  BY <1>3, <1>4, <1>5, <1>6, <1>7, Values, RequestStep

LEMMA FailOK ==
    ASSUME AuthInv, NEW r \in Requests, Fail(r)
    PROVE  AuthInv'
<1>1. /\ broken' \in [Users -> BOOLEAN]
      /\ \A u \in Users : broken[u] \/ LeavesConsent(r, u) => broken'[u]
  BY DEF Fail, LeavesConsent, At
<1> QED
  BY <1>1, AbortStep DEF Fail

\* Nothing but login states, the session and the number of requests changes.
LEMMA QuietStep ==
    ASSUME AuthInv, UNCHANGED <<flow, world, consents, req, ghosts>>,
           session' \in Users \cup {None}, pending' \in [Flows \cup {None} -> Nat],
           arrivals' \in 0..MaxArrivals
    PROVE  AuthInv'
<1>1. UNCHANGED <<flow, client, app, able, consents, req, allowed, undone, broken>>
  BY DEF ghosts, world
<1>2. TypeOK'
  BY <1>1 DEF AuthInv, TypeOK
<1>3. ConsentBacked'
  BY <1>1 DEF AuthInv, ConsentBacked, Granted, LeavesConsent, At
<1>4. \A f \in Flows : FlowKept(f)
  BY <1>1 DEF FlowKept, ConsentKnown
<1>5. \A u \in Users : RowKept(u) => RowKept(u)'
  BY <1>1 DEF RowKept
<1> QED
  BY <1>1, <1>2, <1>3, <1>4, <1>5, InvariantKept

LEMMA BeginLoginOK ==
    ASSUME AuthInv, NEW f \in Flows \cup {None}, pending' = [pending EXCEPT ![f] = pending[f] + 1],
           UNCHANGED <<flow, world, session, consents, req, arrivals, ghosts>>
    PROVE  AuthInv'
<1>1. pending' \in [Flows \cup {None} -> Nat]
  BY DEF AuthInv, TypeOK
<1> QED
  BY <1>1, QuietStep DEF AuthInv, TypeOK

LEMMA LogoutOK ==
    ASSUME AuthInv, Logout
    PROVE  AuthInv'
  BY QuietStep DEF Logout, AuthInv, TypeOK

LEMMA RestartOK ==
    ASSUME AuthInv, Restart
    PROVE  AuthInv'
<1>1. /\ req' = [r \in Requests |-> Idle] /\ UNCHANGED <<flow, world, consents, undone, allowed>>
      /\ \A u \in Users : broken'[u] <=> broken[u] \/ \E r \in Requests : LeavesConsent(r, u)
      /\ pending' = [f \in Flows \cup {None} |-> 0]
      /\ UNCHANGED <<session, arrivals>>
  BY DEF Restart
<1>2. \A r \in Requests : req'[r] = Idle
  BY <1>1
<1>3. broken' \in [Users -> BOOLEAN]
  BY DEF Restart, LeavesConsent, At
<1>4. TypeOK'
  <2>1. req' \in [Requests -> Request] /\ \A r \in Requests : req'[r].todo = <<>>
    BY <1>1, <1>2, Values
  <2> QED
    BY <1>1, <1>3, <2>1 DEF AuthInv, TypeOK, world
<1>5. ConsentBacked'
  BY <1>1 DEF AuthInv, ConsentBacked, Granted
<1>6. \A f \in Flows : FlowKept(f)
  BY <1>1 DEF FlowKept, ConsentKnown
<1>7. \A u \in Users : RowKept(u) => RowKept(u)'
  BY <1>1 DEF RowKept, world
<1>8. \A p \in Requests : HandlerOK(req[p])'
  BY <1>2, Values DEF HandlerOK
<1> QED
  BY <1>1, <1>4, <1>5, <1>6, <1>7, <1>8, InvariantKept DEF world

\* The status of a member changes; the requests of the member that are in flight
\* take note of it.
LEMMA ChangeMemberOK ==
    ASSUME AuthInv, NEW u \in Users, ChangeMember(u)
    PROVE  AuthInv'
<1>1. /\ able' = [able EXCEPT ![u] = ~able[u]] /\ req' = Witness(FALSE, able')
      /\ UNCHANGED <<flow, client, app, session, pending, consents, arrivals, ghosts>>
  BY DEF ChangeMember
<1>2. able' \in [Users -> BOOLEAN]
  BY <1>1 DEF AuthInv, TypeOK
<1>3. ASSUME NEW r \in Requests
      PROVE  /\ req'[r] \in Request /\ req'[r].todo = req[r].todo /\ req'[r].flow = req[r].flow
             /\ req'[r].user = req[r].user /\ req'[r].form = req[r].form
             /\ req[r].approved => req'[r].approved
             /\ req[r].ableNow => req'[r].ableNow
             /\ req[r].todo # <<>> /\ able'[req[r].user] => req'[r].ableNow
  <2>1. req[r] \in Request
    BY RequestTypes DEF AuthInv
  <2>2. CASE req[r].todo = <<>>
    <3>1. req'[r] = req[r]
      BY <1>1, <2>2 DEF Witness
    <3> QED
      BY <2>1, <2>2, <3>1
  <2>3. CASE req[r].todo # <<>>
    <3>1. req[r].user \in Users /\ able'[req[r].user] \in BOOLEAN
      BY <1>2, <2>3, RequestTypes DEF AuthInv
    <3> DEFINE b == able'[req[r].user]
    <3>2. req'[r] = [req[r] EXCEPT !.approved = req[r].approved \/ FALSE,
                                   !.ableNow = req[r].ableNow \/ b]
      BY <1>1, <2>3 DEF Witness
    <3> HIDE DEF b
    <3>3. b \in BOOLEAN /\ req[r].approved \in BOOLEAN /\ req[r].ableNow \in BOOLEAN
      BY <3>1, RequestTypes DEF AuthInv, b
    <3>4. /\ req'[r] \in Request /\ req'[r].todo = req[r].todo /\ req'[r].flow = req[r].flow
          /\ req'[r].user = req[r].user /\ req'[r].form = req[r].form
          /\ req'[r].approved = (req[r].approved \/ FALSE)
          /\ req'[r].ableNow = (req[r].ableNow \/ b)
      BY <2>1, <3>2, <3>3 DEF Request
    <3> QED
      BY <3>3, <3>4 DEF b
  <2> QED
    BY <2>2, <2>3
<1>4. req' \in [Requests -> Request]
  BY <1>1, <1>3 DEF Witness
<1>5. TypeOK'
  BY <1>1, <1>2, <1>3, <1>4 DEF AuthInv, TypeOK, ghosts
<1>6. \A x \in Users, r \in Requests : LeavesConsent(r, x) <=> LeavesConsent(r, x)'
  BY <1>3 DEF LeavesConsent, At
<1>7. ConsentBacked'
  BY <1>1, <1>6 DEF AuthInv, ConsentBacked, Granted, ghosts
<1>8. \A f \in Flows : FlowOK(f)'
  BY <1>1 DEF AuthInv, FlowOK, Granted, RowKept, ghosts
<1>9. ASSUME NEW r \in Requests PROVE HandlerOK(req[r])'
  <2>1. HandlerOK(req[r])
    BY DEF AuthInv
  <2>2. UNCHANGED <<flow, app, consents, undone, allowed>>
    BY <1>1 DEF ghosts
  <2>3. CASE InCallback(req[r])
    <3>1. InCallback(req[r])'
      BY <1>3, <2>2, <2>3 DEF InCallback, Remembered
    <3> QED
      BY <1>3, <2>1, <2>2, <3>1 DEF HandlerOK
  <2>4. CASE InAllow(req[r])
    <3>1. InAllow(req[r])'
      BY <1>3, <2>2, <2>4 DEF InAllow, RowKept, ConsentKnown
    <3> QED
      BY <1>3, <2>1, <2>2, <3>1 DEF HandlerOK
  <2>5. CASE InUserInfo(req[r])
    <3>1. InUserInfo(req[r])'
      BY <1>3, <2>2, <2>5 DEF InUserInfo
    <3> QED
      BY <1>3, <2>1, <2>2, <3>1 DEF HandlerOK
  <2>6. CASE req[r].todo = <<>> \/ req[r].todo \in {Enter2, Enter1}
    BY <1>3, <2>1, <2>2, <2>6 DEF HandlerOK
  <2>7. CASE /\ req[r].flow \in Flows /\ ConsentKnown(req[r].flow)
             /\ req[r].todo \in {Deny2, Deny1, Rollback1}
    BY <1>3, <2>1, <2>2, <2>7 DEF HandlerOK, ConsentKnown
  <2> QED
    BY <2>1, <2>3, <2>4, <2>5, <2>6, <2>7 DEF HandlerOK
<1> QED
  BY <1>5, <1>7, <1>8, <1>9 DEF AuthInv

LEMMA RetireAppOK ==
    ASSUME AuthInv, RetireApp
    PROVE  AuthInv'
<1>1. /\ UNCHANGED <<flow, able, session, pending, req, arrivals, allowed, undone, broken>>
      /\ app' \in {"approved", "revoked", "deleted"}
      /\ app' = "approved" => app = "approved"
      /\ \/ consents' = consents /\ (app = "deleted" => app' = "deleted")
         \/ consents' = [u \in Users |-> {}] /\ app' = "deleted"
  <2>1. app \in {"approved", "revoked", "deleted"}
    BY DEF AuthInv, TypeOK
  <2> QED
    BY <2>1 DEF RetireApp, ghosts
<1>2. client' \in BOOLEAN
  <2>1. client \in BOOLEAN
    BY DEF AuthInv, TypeOK
  <2>2. client' = client \/ client' = FALSE
    BY Zenon DEF RetireApp
  <2>3. CASE client' = client
    BY <2>1, <2>3
  <2>4. CASE client' = FALSE
    BY <2>4
  <2> QED
    BY <2>2, <2>3, <2>4
<1>3. consents' \in [Users -> SUBSET allowedScopes]
  BY <1>1 DEF AuthInv, TypeOK
<1>4. TypeOK'
  BY <1>1, <1>3, <1>2 DEF AuthInv, TypeOK
<1>5. \A u \in Users : consents'[u] # {} => consents[u] # {}
  BY <1>1
<1>6. ConsentBacked'
  BY <1>1, <1>5 DEF AuthInv, ConsentBacked, Granted, LeavesConsent, At
<1>7. \A f \in Flows : FlowKept(f)
  BY <1>1 DEF FlowKept, ConsentKnown
<1>8. \A u \in Users : RowKept(u) => RowKept(u)'
  BY <1>1 DEF RowKept
<1> QED
  BY <1>1, <1>4, <1>6, <1>7, <1>8, InvariantKept

-----------------------------------------------------------------------------
(* Steps of an authorization request *)

\* Flow f becomes g, and at most some requests change.
LEMMA FlowStep ==
    ASSUME AuthInv, NEW f \in Flows, NEW g \in Flow, flow' = [flow EXCEPT ![f] = g],
           req' \in [Requests -> Request],
           \A p \in Requests : req'[p] = req[p] \/ HandlerOK(req[p])',
           FlowKept(f), FlowOK(f)',
           Granted(f) \/ flow[f].state = "denied" =>
               /\ Granted(f)' \/ flow'[f].state = "denied"
               /\ flow'[f].subject = flow[f].subject,
           \A p \in Requests, u \in Users :
               LeavesConsent(p, u) =>
                   LeavesConsent(p, u)' \/ (flow'[f].subject = u /\ Granted(f)'),
           UNCHANGED <<world, session, pending, consents, arrivals, ghosts>>
    PROVE  AuthInv'
<1>1. UNCHANGED <<client, app, able, session, pending, consents, arrivals, allowed, undone, broken>>
  BY DEF world, ghosts
<1>2. /\ flow' \in [Flows -> Flow] /\ flow'[f] = g
      /\ \A x \in Flows : x # f => flow'[x] = flow[x]
  BY DEF AuthInv, TypeOK
<1>3. TypeOK'
  <2>1. \A p \in Requests : req'[p].todo # <<>> => req'[p].user \in Users
    BY RequestTypes DEF AuthInv, HandlerOK
  <2> QED
    BY <1>1, <1>2, <2>1 DEF AuthInv, TypeOK
<1>4. ConsentBacked'
  <2> SUFFICES ASSUME NEW u \in Users, consents'[u] # {}
               PROVE  \/ \E x \in Flows : flow'[x].subject = u /\ (Granted(x)' \/ flow'[x].state = "denied")
                      \/ \E p \in Requests : LeavesConsent(p, u)'
                      \/ broken'[u]
    BY DEF ConsentBacked
  <2>1. CASE \E x \in Flows : flow[x].subject = u /\ (Granted(x) \/ flow[x].state = "denied")
    <3>1. PICK x \in Flows : flow[x].subject = u /\ (Granted(x) \/ flow[x].state = "denied")
      BY <2>1
    <3>2. CASE x = f
      BY <3>1, <3>2
    <3>3. CASE x # f
      BY <1>2, <3>1, <3>3 DEF Granted
    <3> QED
      BY <3>2, <3>3
  <2>2. CASE \E p \in Requests : LeavesConsent(p, u)
    BY <2>2
  <2> QED
    BY <1>1, <2>1, <2>2 DEF AuthInv, ConsentBacked
<1>5. \A x \in Flows : FlowKept(x)
  BY <1>2 DEF FlowKept, ConsentKnown
<1>6. \A u \in Users : RowKept(u) => RowKept(u)'
  BY <1>1 DEF RowKept
<1>7. \A x \in Flows : flow'[x] = flow[x] \/ FlowOK(x)'
  BY <1>2
<1>8. UNCHANGED able /\ (app' = "approved" => app = "approved")
      /\ \A x \in Flows : allowed[x] \subseteq allowed'[x]
  BY <1>1
<1> QED
  BY <1>3, <1>4, <1>5, <1>6, <1>7, <1>8, InvariantKept

LEMMA FlowTypes ==
    ASSUME AuthInv, NEW f \in Flows
    PROVE  flow \in [Flows -> Flow] /\ flow[f] \in Flow /\ FlowOK(f)
  BY DEF AuthInv, TypeOK

\* Nobody's requests change.
LEMMA RequestsKept ==
    ASSUME AuthInv, UNCHANGED req
    PROVE  /\ req' \in [Requests -> Request]
           /\ \A p \in Requests : req'[p] = req[p]
           /\ \A p \in Requests, u \in Users : LeavesConsent(p, u) => LeavesConsent(p, u)'
  BY DEF AuthInv, TypeOK, LeavesConsent, At

LEMMA AuthorizeOK ==
    ASSUME AuthInv, NEW f \in Flows, NEW hint \in Users \cup {None}, NEW scope \in Asked,
           Authorize(f, hint, scope)
    PROVE  AuthInv'
<1> DEFINE new == [NoFlow EXCEPT !.state = "login", !.hint = hint, !.scope = scope]
<1>1. /\ flow[f].state = "none" /\ flow' = [flow EXCEPT ![f] = new]
      /\ UNCHANGED <<world, session, pending, consents, req, arrivals, ghosts>>
  BY DEF Authorize
<1>2. new \in Flow /\ new.state = "login" /\ new.subject = None
  <2>1. scope \in SUBSET Scopes
    BY AuthorizationAssumptions
  <2> QED
    BY <2>1, Values DEF Flow, FlowStates
<1> HIDE DEF new
<1>3. flow'[f] = new
  BY <1>1, FlowTypes
<1>4. FlowKept(f)
  BY <1>1 DEF FlowKept, ConsentKnown
<1>5. FlowOK(f)' /\ ~Granted(f)
  BY <1>1, <1>2, <1>3 DEF FlowOK, Granted
<1> QED
  BY <1>1, <1>2, <1>4, <1>5, RequestsKept, FlowStep

LEMMA FollowOK ==
    ASSUME AuthInv, NEW f \in Flows, Follow(f)
    PROVE  AuthInv'
<1>1. PICK to : /\ flow' = [flow EXCEPT ![f].state = to]
                /\ \/ flow[f].state = "accepted" /\ to = "consent"
                   \/ flow[f].state = "granted" /\ to = "token"
  BY DEF Follow
<1>2. UNCHANGED <<world, session, pending, consents, req, arrivals, ghosts>>
  BY DEF Follow
<1> DEFINE new == [flow[f] EXCEPT !.state = to]
<1>3. flow' = [flow EXCEPT ![f] = new]
  BY <1>1
<1>4. /\ new \in Flow /\ new.state = to /\ new.subject = flow[f].subject
      /\ new.hint = flow[f].hint /\ new.granted = flow[f].granted
  BY <1>1, FlowTypes DEF Flow, FlowStates
<1> HIDE DEF new
<1>5. flow'[f] = new
  BY <1>3, FlowTypes
<1>6. FlowKept(f)
  BY <1>1, <1>4, <1>5 DEF FlowKept, ConsentKnown
<1>7. Granted(f)' => Granted(f)
  BY <1>1, <1>4, <1>5 DEF Granted
<1>8. FlowOK(f)'
  BY <1>1, <1>2, <1>4, <1>5, <1>7, FlowTypes DEF FlowOK, RowKept, world, ghosts
<1>9. Granted(f) \/ flow[f].state = "denied" => Granted(f)' /\ flow'[f].subject = flow[f].subject
  BY <1>1, <1>4, <1>5 DEF Granted
<1> QED
  BY <1>2, <1>3, <1>4, <1>6, <1>8, <1>9, RequestsKept, FlowStep

\* Request r becomes q.
LEMMA RequestReplaced ==
    ASSUME AuthInv, NEW r \in Requests, NEW q \in Request, req' = [req EXCEPT ![r] = q],
           HandlerOK(q)'
    PROVE  /\ req' \in [Requests -> Request] /\ req'[r] = q
           /\ \A p \in Requests : p # r => req'[p] = req[p]
           /\ \A p \in Requests : req'[p] = req[p] \/ HandlerOK(req[p])'
           /\ \A p \in Requests, u \in Users :
                  p # r /\ LeavesConsent(p, u) => LeavesConsent(p, u)'
<1>1. /\ req' \in [Requests -> Request] /\ req'[r] = q
      /\ \A p \in Requests : p # r => req'[p] = req[p]
  BY RequestTypes DEF AuthInv
<1>2. HandlerOK(req[r])'
  BY <1>1 DEF HandlerOK, InCallback, Remembered, InAllow, InUserInfo
<1> QED
  BY <1>1, <1>2 DEF LeavesConsent, At

LEMMA Ended ==
    ASSUME AuthInv, NEW r \in Requests, Abort(r)
    PROVE  req' = [req EXCEPT ![r] = Idle] /\ Idle \in Request /\ HandlerOK(Idle)'
<1>1. HandlerOK(Idle)'
  BY Values DEF HandlerOK, Idle
<1> QED
  BY <1>1, Values DEF Abort

LEMMA AcceptLoginOK ==
    ASSUME AuthInv, NEW r \in Requests, AcceptLogin(r)
    PROVE  AuthInv'
<1>1. PICK f : f = req[r].flow
  OBVIOUS
<1>2. PICK u : u = req[r].user
  OBVIOUS
<1>3. /\ req[r].todo # <<>> /\ Head(req[r].todo) = "acceptLogin"
      /\ UNCHANGED <<world, session, pending, consents, arrivals, ghosts>>
      /\ \/ /\ loginOpen(f) /\ (Continue(r) \/ Abort(r))
            /\ flow' = [flow EXCEPT ![f].state = "accepted", ![f].subject = u]
         \/ Abort(r) /\ UNCHANGED flow
  BY <1>1, <1>2 DEF AcceptLogin, At
<1>4. req[r].todo = Callback2 /\ f \in Flows /\ Remembered(req[r]) /\ u \in Users
  BY <1>1, <1>2, <1>3, Heads DEF AuthInv, HandlerOK, InCallback, InAllow, InUserInfo
<1>5. \A x \in Users : ~LeavesConsent(r, x)
  BY <1>3 DEF LeavesConsent, At
<1>6. CASE Abort(r) /\ UNCHANGED flow
  <2>1. broken' \in [Users -> BOOLEAN] /\ broken' = broken
    BY <1>3 DEF AuthInv, TypeOK, ghosts
  <2> QED
    BY <1>3, <1>5, <1>6, <2>1, AbortStep DEF ghosts
<1>7. CASE /\ loginOpen(f) /\ (Continue(r) \/ Abort(r))
           /\ flow' = [flow EXCEPT ![f].state = "accepted", ![f].subject = u]
  <2> DEFINE new == [flow[f] EXCEPT !.state = "accepted", !.subject = u]
  <2>1. flow' = [flow EXCEPT ![f] = new]
    BY <1>7
  <2>2. new \in Flow /\ new.state = "accepted" /\ new.subject = u /\ new.hint = flow[f].hint
    BY <1>4, FlowTypes DEF Flow, FlowStates
  <2> HIDE DEF new
  <2>3. flow'[f] = new
    BY <1>4, <2>1, FlowTypes
  <2>4. flow[f].state \in {"login", "accepted"} /\ flow[f].hint \in {None, u}
    BY <1>1, <1>2, <1>4, <1>7 DEF loginOpen, Remembered
  <2>5. FlowKept(f) /\ ~Granted(f) /\ flow[f].state # "denied"
    BY <2>2, <2>3, <2>4 DEF FlowKept, ConsentKnown, Granted
  <2>6. FlowOK(f)'
    BY <1>4, <2>2, <2>3, <2>4 DEF FlowOK, Granted
  <2>7. PICK q \in Request : req' = [req EXCEPT ![r] = q] /\ HandlerOK(q)'
    <3>1. CASE Abort(r)
      BY <3>1, Ended
    <3>2. CASE Continue(r)
      <4>1. Len(req[r].todo) > 1 /\ Tail(req[r].todo) = Enter1 /\ Enter1 \in Seq(Ops)
        BY <1>4, Tails, Lengths, StageTypes
      <4>2. PICK q \in Request :
              /\ req' = [req EXCEPT ![r] = q]
              /\ q.todo = Enter1 /\ q.user = u
              /\ q.approved = req[r].approved /\ q.ableNow = req[r].ableNow
        BY <1>2, <3>2, <4>1, ContinueTo DEF AuthInv
      <4>3. (able[u] => q.ableNow) /\ (app = "approved" => q.approved)
        BY <1>2, <1>3, <4>2 DEF AuthInv, HandlerOK
      <4>4. HandlerOK(q)'
        BY <1>3, <1>4, <4>2, <4>3 DEF HandlerOK, world
      <4> QED
        BY <4>2, <4>4
    <3> QED
      BY <1>7, <3>1, <3>2
  <2>8. /\ req' \in [Requests -> Request]
        /\ \A p \in Requests : req'[p] = req[p] \/ HandlerOK(req[p])'
        /\ \A p \in Requests, x \in Users : LeavesConsent(p, x) => LeavesConsent(p, x)'
    BY <1>5, <2>7, RequestReplaced
  <2> QED
    BY <1>3, <1>4, <2>1, <2>2, <2>5, <2>6, <2>8, FlowStep
<1> QED
  BY <1>3, <1>6, <1>7

LEMMA RejectConsentOK ==
    ASSUME AuthInv, NEW r \in Requests, RejectConsent(r)
    PROVE  AuthInv'
<1>1. PICK f : f = req[r].flow
  OBVIOUS
<1>2. /\ req[r].todo # <<>> /\ Head(req[r].todo) = "rejectConsent" /\ Abort(r)
      /\ UNCHANGED <<world, session, pending, consents, arrivals, ghosts>>
      /\ \/ consentOpen(f) /\ flow' = [flow EXCEPT ![f].state = "denied", ![f].granted = {}]
         \/ UNCHANGED flow
  BY <1>1 DEF RejectConsent, At
<1>3. f \in Flows
  BY <1>1, <1>2, Heads DEF AuthInv, HandlerOK, InCallback, InAllow, InUserInfo
<1>4. \A x \in Users : ~LeavesConsent(r, x)
  BY <1>2 DEF LeavesConsent, At
<1>5. CASE UNCHANGED flow
  <2>1. broken' \in [Users -> BOOLEAN] /\ broken' = broken
    BY <1>2 DEF AuthInv, TypeOK, ghosts
  <2> QED
    BY <1>2, <1>4, <1>5, <2>1, AbortStep DEF ghosts
<1>6. CASE consentOpen(f) /\ flow' = [flow EXCEPT ![f].state = "denied", ![f].granted = {}]
  <2> DEFINE new == [flow[f] EXCEPT !.state = "denied", !.granted = {}]
  <2>1. flow' = [flow EXCEPT ![f] = new]
    BY <1>6
  <2>2. /\ new \in Flow /\ new.state = "denied" /\ new.subject = flow[f].subject
        /\ new.hint = flow[f].hint
    BY <1>3, FlowTypes DEF Flow, FlowStates
  <2> HIDE DEF new
  <2>3. flow'[f] = new
    BY <1>3, <2>1, FlowTypes
  <2>4. flow[f].state \in {"consent", "granted", "denied"}
    BY <1>6 DEF consentOpen
  <2>5. FlowKept(f)
    BY <2>2, <2>3, <2>4 DEF FlowKept, ConsentKnown
  <2>6. FlowOK(f)'
    BY <1>3, <2>2, <2>3, <2>4, FlowTypes DEF FlowOK, Granted
  <2>7. /\ req' \in [Requests -> Request]
        /\ \A p \in Requests : req'[p] = req[p] \/ HandlerOK(req[p])'
        /\ \A p \in Requests, x \in Users : LeavesConsent(p, x) => LeavesConsent(p, x)'
    BY <1>2, <1>4, Ended, RequestReplaced
  <2>8. flow'[f].state = "denied" /\ flow'[f].subject = flow[f].subject
    BY <2>2, <2>3
  <2> QED
    BY <1>2, <1>3, <2>1, <2>2, <2>5, <2>6, <2>7, <2>8, FlowStep
<1> QED
  BY <1>2, <1>5, <1>6

\* Accept goes on to its rollback.
LEMMA RolledBack ==
    ASSUME AuthInv, NEW r \in Requests, Rollback(r), req[r].todo # <<>>,
           NEW f \in Flows, f = req[r].flow, ConsentKnown(f)', UNCHANGED <<able, app>>
    PROVE  \E q \in Request : /\ req' = [req EXCEPT ![r] = q] /\ HandlerOK(q)'
                              /\ q.todo = Rollback1 /\ q.user = req[r].user
<1> DEFINE new == [req[r] EXCEPT !.todo = Rollback1]
<1>1. req' = [req EXCEPT ![r] = new]
  BY DEF Rollback, Rollback1
<1>2. req[r] \in Request /\ Rollback1 \in Seq(Ops)
  BY RequestTypes, StageTypes DEF AuthInv
<1>3. /\ new \in Request /\ new.todo = Rollback1 /\ new.user = req[r].user
      /\ new.flow = req[r].flow /\ new.approved = req[r].approved
      /\ new.ableNow = req[r].ableNow
  BY <1>2 DEF Request
<1>4. PICK q \in Request : q = new
  BY <1>3
<1> HIDE DEF new
<1>5. /\ q.todo = Rollback1 /\ q.user = req[r].user /\ q.flow = f
      /\ q.user \in Users
      /\ (able[q.user] => q.ableNow) /\ (app = "approved" => q.approved)
  BY <1>3, <1>4 DEF AuthInv, HandlerOK
<1>6. HandlerOK(q)'
  BY <1>5 DEF HandlerOK
<1> QED
  BY <1>1, <1>4, <1>5, <1>6

LEMMA AcceptConsentOK ==
    ASSUME AuthInv, NEW r \in Requests, AcceptConsent(r)
    PROVE  AuthInv'
<1>1. PICK f, u, form : f = req[r].flow /\ u = req[r].user /\ form = req[r].form
  OBVIOUS
<1> DEFINE accepted == [flow EXCEPT ![f].state = "granted", ![f].granted = form]
<1>2. /\ req[r].todo # <<>> /\ Head(req[r].todo) = "acceptConsent"
      /\ UNCHANGED <<world, session, pending, consents, arrivals, ghosts>>
      /\ \/ consentOpen(f) /\ flow' = accepted /\ (Continue(r) \/ Rollback(r))
         \/ UNCHANGED flow /\ Rollback(r)
  BY <1>1 DEF AcceptConsent, At
<1>3. req[r].todo = Allow1 /\ InAllow(req[r]) /\ flow[f].subject = u /\ RowKept(u) /\ u \in Users
  BY <1>1, <1>2, Heads DEF AuthInv, HandlerOK, InCallback, InAllow, InUserInfo
<1>4. /\ f \in Flows /\ ConsentKnown(f) /\ [user |-> u, scopes |-> form] \in allowed[f]
      /\ form \in SUBSET Scopes
  BY <1>1, <1>3, RequestTypes DEF InAllow, AuthInv
<1>5. UNCHANGED <<able, app>>
  BY <1>2 DEF world
<1>6. \A x \in Users : LeavesConsent(r, x) <=> x = u
  BY <1>1, <1>2 DEF LeavesConsent, At
<1>7. CASE UNCHANGED flow /\ Rollback(r)
  <2>1. ConsentKnown(f)'
    BY <1>4, <1>7 DEF ConsentKnown
  <2>2. PICK q \in Request : /\ req' = [req EXCEPT ![r] = q] /\ HandlerOK(q)'
                             /\ q.todo = Rollback1 /\ q.user = u
    BY <1>1, <1>2, <1>4, <1>5, <1>7, <2>1, RolledBack
  <2>3. req'[r] = q
    BY <2>2, RequestReplaced
  <2>4. LeavesConsent(r, u)'
    BY <2>2, <2>3, Heads, Programs DEF LeavesConsent, At
  <2>5. /\ session' \in Users \cup {None} /\ pending' \in [Flows \cup {None} -> Nat]
        /\ arrivals' \in 0..MaxArrivals /\ allowed' \in [Flows -> SUBSET Decision]
        /\ broken' \in [Users -> BOOLEAN] /\ broken' = broken /\ allowed' = allowed
    BY <1>2 DEF AuthInv, TypeOK, ghosts
  <2>6. UNCHANGED <<flow, world, consents, undone>>
    BY <1>2, <1>7 DEF ghosts
  <2> QED
    BY <1>6, <2>2, <2>4, <2>5, <2>6, RequestStep
<1>8. CASE consentOpen(f) /\ flow' = accepted /\ (Continue(r) \/ Rollback(r))
  <2> DEFINE new == [flow[f] EXCEPT !.state = "granted", !.granted = form]
  <2>1. flow' = [flow EXCEPT ![f] = new]
    BY <1>8
  <2>2. /\ new \in Flow /\ new.state = "granted" /\ new.subject = u
        /\ new.hint = flow[f].hint /\ new.granted = form
    BY <1>3, <1>4, FlowTypes DEF Flow, FlowStates
  <2> HIDE DEF new, accepted
  <2>3. flow'[f] = new
    BY <1>4, <2>1, FlowTypes
  <2>4. flow[f].state \in {"consent", "granted", "denied"}
    BY <1>8 DEF consentOpen
  <2>5. FlowKept(f) /\ Granted(f)' /\ flow'[f].subject = flow[f].subject
    BY <1>3, <2>2, <2>3, <2>4 DEF FlowKept, ConsentKnown, Granted
  <2>6. FlowOK(f)'
    <3>1. RowKept(u)' /\ allowed' = allowed
      BY <1>2, <1>3 DEF RowKept, world, ghosts
    <3>2. FlowOK(f)
      BY <1>4, FlowTypes
    <3> QED
      BY <1>3, <1>4, <2>2, <2>3, <2>4, <3>1, <3>2 DEF FlowOK
  <2>7. PICK q \in Request : req' = [req EXCEPT ![r] = q] /\ HandlerOK(q)'
    <3>1. CASE Continue(r)
      <4>1. Abort(r)
        BY <1>3, <3>1, Lengths, ContinueEnd
      <4> QED
        BY <4>1, Ended
    <3>2. CASE Rollback(r)
      <4>1. ConsentKnown(f)'
        BY <2>2, <2>3 DEF ConsentKnown
      <4> QED
        BY <1>1, <1>2, <1>4, <1>5, <3>2, <4>1, RolledBack
    <3> QED
      BY <1>8, <3>1, <3>2
  <2>8. /\ req' \in [Requests -> Request]
        /\ \A p \in Requests : req'[p] = req[p] \/ HandlerOK(req[p])'
        /\ \A p \in Requests, x \in Users : p # r /\ LeavesConsent(p, x) => LeavesConsent(p, x)'
    BY <2>7, RequestReplaced
  <2>9. ASSUME NEW p \in Requests, NEW x \in Users, LeavesConsent(p, x)
        PROVE  LeavesConsent(p, x)' \/ (flow'[f].subject = x /\ Granted(f)')
    BY <1>3, <1>6, <2>5, <2>8, <2>9
  <2> QED
    BY <1>2, <1>4, <2>1, <2>2, <2>5, <2>6, <2>8, <2>9, FlowStep
<1> HIDE DEF accepted
<1> QED
  BY <1>2, <1>7, <1>8

-----------------------------------------------------------------------------
(* Steps that change the consents *)

\* The row of u becomes row, request r becomes q.
LEMMA RowStep ==
    ASSUME AuthInv, NEW r \in Requests, NEW u \in Users, NEW row \in SUBSET allowedScopes,
           consents' = [consents EXCEPT ![u] = row],
           NEW q \in Request, req' = [req EXCEPT ![r] = q], HandlerOK(q)',
           broken' \in [Users -> BOOLEAN], undone' \in [Users -> BOOLEAN],
           \A x \in Users : broken[x] => broken'[x],
           \A x \in Users : undone[x] => undone'[x],
           row = {} => undone'[u],
           row # {} => LeavesConsent(r, u)' \/ broken'[u],
           \A x \in Users : LeavesConsent(r, x) => x = u,
           UNCHANGED <<flow, world, session, pending, arrivals, allowed>>
    PROVE  AuthInv'
<1>1. /\ consents' \in [Users -> SUBSET allowedScopes] /\ consents'[u] = row
      /\ \A x \in Users : x # u => consents'[x] = consents[x]
  BY DEF AuthInv, TypeOK
<1>2. /\ req' \in [Requests -> Request]
      /\ \A p \in Requests : req'[p] = req[p] \/ HandlerOK(req[p])'
      /\ \A p \in Requests, x \in Users : p # r /\ LeavesConsent(p, x) => LeavesConsent(p, x)'
  BY RequestReplaced
<1>3. TypeOK'
  <2>1. \A p \in Requests : req'[p].todo # <<>> => req'[p].user \in Users
    BY <1>2, RequestTypes DEF AuthInv, HandlerOK
  <2> QED
    BY <1>1, <1>2, <2>1 DEF AuthInv, TypeOK, world
<1>4. ConsentBacked'
  <2> SUFFICES ASSUME NEW x \in Users, consents'[x] # {}
               PROVE  \/ \E f \in Flows : flow'[f].subject = x /\ (Granted(f)' \/ flow'[f].state = "denied")
                      \/ \E p \in Requests : LeavesConsent(p, x)'
                      \/ broken'[x]
    BY DEF ConsentBacked
  <2>1. CASE x = u
    BY <1>1, <2>1
  <2>2. CASE x # u
    <3>1. consents[x] # {}
      BY <1>1, <2>2
    <3>2. \A f \in Flows : Granted(f) <=> Granted(f)'
      BY DEF Granted
    <3> QED
      BY <1>2, <2>2, <3>1, <3>2 DEF AuthInv, ConsentBacked
  <2> QED
    BY <2>1, <2>2
<1>5. \A f \in Flows : FlowKept(f)
  BY DEF FlowKept, ConsentKnown
<1>6. ASSUME NEW x \in Users PROVE RowKept(x) => RowKept(x)'
  BY <1>1 DEF RowKept, world
<1>7. UNCHANGED able /\ (app' = "approved" => app = "approved")
  BY DEF world
<1> QED
  BY <1>2, <1>3, <1>4, <1>5, <1>6, <1>7, InvariantKept

LEMMA PutOK ==
    ASSUME AuthInv, NEW r \in Requests, Put(r)
    PROVE  AuthInv'
<1>1. PICK u, form : u = req[r].user /\ form = req[r].form
  OBVIOUS
<1>2. /\ req[r].todo # <<>> /\ Head(req[r].todo) = "put"
      /\ UNCHANGED <<flow, world, session, pending, arrivals, allowed, undone>>
      /\ \/ /\ FilterScopes(form) /\ consents' = [consents EXCEPT ![u] = form]
            /\ \/ Continue(r) /\ UNCHANGED broken
               \/ Abort(r) /\ broken' = [broken EXCEPT ![u] = TRUE]
         \/ Abort(r) /\ UNCHANGED <<consents, broken>>
  BY <1>1 DEF Put, At
<1>3. /\ req[r].todo = Allow2 /\ InAllow(req[r]) /\ HandlerOK(req[r])
      /\ flow[req[r].flow].subject = u /\ req[r].approved
      /\ u \in Users
  BY <1>1, <1>2, Heads DEF AuthInv, HandlerOK, InCallback, InAllow, InUserInfo
<1>4. \A x \in Users : ~LeavesConsent(r, x)
  BY <1>2 DEF LeavesConsent, At
<1>5. broken \in [Users -> BOOLEAN] /\ undone' \in [Users -> BOOLEAN] /\ undone' = undone
  BY <1>2 DEF AuthInv, TypeOK
<1>6. CASE Abort(r) /\ UNCHANGED <<consents, broken>>
  BY <1>2, <1>4, <1>5, <1>6, AbortStep
<1>7. CASE FilterScopes(form) /\ consents' = [consents EXCEPT ![u] = form]
  <2>1. form \in SUBSET allowedScopes /\ form # {}
    BY <1>7 DEF FilterScopes
  <2>2. CASE Abort(r) /\ broken' = [broken EXCEPT ![u] = TRUE]
    <3>1. /\ broken' \in [Users -> BOOLEAN] /\ broken'[u]
          /\ \A x \in Users : broken[x] => broken'[x]
      BY <1>3, <1>5, <2>2
    <3>2. req' = [req EXCEPT ![r] = Idle] /\ Idle \in Request /\ HandlerOK(Idle)'
      BY <2>2, Ended
    <3> QED
      BY <1>2, <1>3, <1>4, <1>5, <1>7, <2>1, <3>1, <3>2, RowStep
  <2>3. CASE Continue(r) /\ UNCHANGED broken
    <3>1. Len(req[r].todo) > 1 /\ Tail(req[r].todo) = Allow1 /\ Allow1 \in Seq(Ops) /\ Allow1 # <<>>
      BY <1>3, Tails, Lengths, StageTypes DEF Allow1
    <3>2. PICK q \in Request :
            /\ req' = [req EXCEPT ![r] = q]
            /\ q.todo = Allow1 /\ q.flow = req[r].flow /\ q.user = u /\ q.form = req[r].form
            /\ q.approved = req[r].approved /\ q.ableNow = req[r].ableNow
      BY <1>1, <2>3, <3>1, ContinueTo DEF AuthInv
    <3>3. consents'[u] # {}
      BY <1>3, <1>7, <2>1 DEF AuthInv, TypeOK
    <3>4. InAllow(q)'
      <4>1. RowKept(u)'
        BY <3>3 DEF RowKept
      <4>2. /\ q.flow \in Flows /\ ConsentKnown(q.flow) /\ flow[q.flow].subject = q.user
            /\ [user |-> q.user, scopes |-> q.form] \in allowed[q.flow] /\ q.approved
        BY <1>1, <1>3, <3>2 DEF InAllow
      <4> QED
        BY <1>2, <3>2, <4>1, <4>2 DEF InAllow, ConsentKnown
    <3>5. HandlerOK(q)'
      BY <1>1, <1>2, <1>3, <3>2, <3>4 DEF HandlerOK, world
    <3>6. LeavesConsent(r, u)'
      <4>1. req'[r] = q
        BY <3>2, <3>5, RequestReplaced
      <4> QED
        BY <3>1, <3>2, <4>1, Heads DEF LeavesConsent, At
    <3> QED
      BY <1>2, <1>3, <1>4, <1>5, <1>7, <2>1, <2>3, <3>2, <3>5, <3>6, RowStep
  <2> QED
    BY <1>2, <1>6, <2>2, <2>3
<1> QED
  BY <1>2, <1>6, <1>7

LEMMA RollbackDeleteOK ==
    ASSUME AuthInv, NEW r \in Requests, RollbackDelete(r)
    PROVE  AuthInv'
<1>1. PICK u, row : u = req[r].user /\ row = {}
  OBVIOUS
<1>2. /\ req[r].todo # <<>> /\ Abort(r)
      /\ consents' = [consents EXCEPT ![u] = row] /\ undone' = [undone EXCEPT ![u] = TRUE]
      /\ UNCHANGED <<flow, world, session, pending, arrivals, allowed, broken>>
  BY <1>1 DEF RollbackDelete, At
<1>3. u \in Users /\ row \in SUBSET allowedScopes
  BY <1>1, <1>2, RequestTypes DEF AuthInv
<1>4. /\ undone' \in [Users -> BOOLEAN] /\ undone'[u]
      /\ \A x \in Users : undone[x] => undone'[x]
      /\ broken' \in [Users -> BOOLEAN] /\ broken' = broken
  BY <1>2, <1>3 DEF AuthInv, TypeOK
<1>5. \A x \in Users : LeavesConsent(r, x) => x = u
  BY <1>1 DEF LeavesConsent
<1>6. req' = [req EXCEPT ![r] = Idle] /\ Idle \in Request /\ HandlerOK(Idle)'
  BY <1>2, Ended
<1>7. /\ row = {} => undone'[u]
      /\ row # {} => LeavesConsent(r, u)' \/ broken'[u]
  BY <1>1, <1>4
<1> QED
  BY <1>2, <1>3, <1>4, <1>5, <1>6, <1>7, RowStep

-----------------------------------------------------------------------------
(* The invariant *)

LEMMA AuthInit == Init => AuthInv
<1> SUFFICES ASSUME Init PROVE AuthInv
  OBVIOUS
<1>1. \A f \in Flows : flow[f] = NoFlow
  BY DEF Init
<1>2. \A r \in Requests : req[r].todo = <<>>
  BY Values DEF Init
<1>3. TypeOK
  BY <1>2, Values, AuthorizationAssumptions DEF Init, TypeOK
<1>4. \A f \in Flows : FlowOK(f)
  BY <1>1 DEF FlowOK, NoFlow, Granted
<1> QED
  BY <1>2, <1>3, <1>4 DEF AuthInv, HandlerOK, ConsentBacked, Init

LEMMA AuthNext == AuthInv /\ [Next]_vars => AuthInv'
<1> SUFFICES ASSUME AuthInv, [Next]_vars PROVE AuthInv'
  OBVIOUS
<1>1. CASE UNCHANGED vars
  BY <1>1, QuietStep DEF vars, world, ghosts, AuthInv, TypeOK
<1>2. ASSUME NEW f \in Flows, NEW hint \in Users \cup {None}, NEW scope \in Asked,
             Authorize(f, hint, scope)
      PROVE  AuthInv'
  BY <1>2, AuthorizeOK
<1>3. ASSUME NEW f \in Flows, Follow(f) \/ BeginLogin(f)
      PROVE  AuthInv'
  BY <1>3, FollowOK, BeginLoginOK DEF BeginLogin
<1>4. CASE RetireApp \/ BeginSessionLogin \/ Logout \/ Restart
  BY <1>4, RetireAppOK, BeginLoginOK, LogoutOK, RestartOK DEF BeginSessionLogin
<1>5. ASSUME NEW u \in Users, ChangeMember(u)
      PROVE  AuthInv'
  BY <1>5, ChangeMemberOK
<1>6. ASSUME NEW r \in Requests, NEW f \in Flows \cup {None}, NEW u \in Users, CompleteLogin(r, f, u)
      PROVE  AuthInv'
  BY <1>6, CompleteLoginOK
<1>7. ASSUME NEW r \in Requests, NEW f \in Flows,
             (\E form \in Asked \cup {{}} : Consent(r, f, form)) \/ Deny(r, f) \/ UserInfo(r, f)
      PROVE  AuthInv'
  BY <1>7, ConsentOK, DenyOK, UserInfoOK
<1>8. ASSUME NEW r \in Requests,
             \/ Read(r) \/ AcceptLogin(r) \/ Establish(r) \/ Put(r) \/ AcceptConsent(r)
             \/ RollbackDelete(r) \/ RejectConsent(r) \/ Fail(r)
      PROVE  AuthInv'
  BY <1>8, ReadOK, AcceptLoginOK, EstablishOK, PutOK, AcceptConsentOK, RollbackDeleteOK,
     RejectConsentOK, FailOK
<1> QED
  BY <1>1, <1>2, <1>3, <1>4, <1>5, <1>6, <1>7, <1>8 DEF Next

LEMMA AuthInvariant == Spec => []AuthInv
  BY AuthInit, AuthNext, PTL DEF Spec

-----------------------------------------------------------------------------
(* Theorems *)

\* Hydra's requests, the consents and the handlers in flight keep their types;
\* in particular every row of consents holds only scopes that FilterScopes allows.
THEOREM TypeCorrect == Spec => []TypeOK
<1>1. AuthInv => TypeOK
  BY DEF AuthInv
<1> QED
  BY <1>1, AuthInvariant, PTL

\* What a token carries was allowed by its own subject, in a form for this very
\* request, whoever else uses the browser and however the forms overlap.
THEOREM GrantsBelongToOwner == Spec => []GrantedByOwner
<1>1. AuthInv => GrantedByOwner
  <2> SUFFICES ASSUME AuthInv, NEW f \in Flows, Granted(f)
               PROVE  \E d \in allowed[f] : d.user = flow[f].subject /\ flow[f].granted \subseteq d.scopes
    BY DEF GrantedByOwner
  <2> DEFINE d == [user |-> flow[f].subject, scopes |-> flow[f].granted]
  <2>1. d \in allowed[f]
    BY DEF AuthInv, FlowOK
  <2>2. d.user = flow[f].subject /\ flow[f].granted \subseteq d.scopes
    OBVIOUS
  <2> HIDE DEF d
  <2> QED
    BY <2>1, <2>2
<1> QED
  BY <1>1, AuthInvariant, PTL

\* Hydra never gets a subject other than the one it remembers for the login.
THEOREM LoginsAsRemembered == Spec => []LoginAsRemembered
<1>1. AuthInv => LoginAsRemembered
  BY DEF AuthInv, FlowOK, LoginAsRemembered
<1> QED
  BY <1>1, AuthInvariant, PTL

\* Nothing is accepted, stored or released for a member, or on behalf of an
\* application, that was never acceptable while the request was served.
THEOREM ServedOnlyWhileAllowed == Spec => []ServedWhileAllowed
<1>1. AuthInv => ServedWhileAllowed
  BY Heads DEF AuthInv, ServedWhileAllowed, At, HandlerOK, InCallback, InAllow, InUserInfo
<1> QED
  BY <1>1, AuthInvariant, PTL

\* A grant has its row as long as the application exists, unless an acceptance of
\* the same user was rolled back.
THEOREM GrantsRecorded == Spec => []ConsentRecorded
<1>1. AuthInv => ConsentRecorded
  BY DEF AuthInv, FlowOK, RowKept, ConsentRecorded
<1> QED
  BY <1>1, AuthInvariant, PTL

\* A row of consents is backed by a grant or a later denial, by the request that is
\* storing it, or a fault hit that request.
THEOREM ConsentsBacked == Spec => []ConsentBacked
<1>1. AuthInv => ConsentBacked
  BY DEF AuthInv
<1> QED
  BY <1>1, AuthInvariant, PTL
=============================================================================
